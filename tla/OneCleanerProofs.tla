-------------------------- MODULE OneCleanerProofs --------------------------
(***************************************************************************)
(* With a single cleaner thread (CLEANER_THREAD_COUNT, two in              *)
(* log_pmem_types.h:20) the faults that LogHeap finds between two of them  *)
(* cannot happen: the thread never waits for a segment that nobody can     *)
(* give it, it leaves no lock behind, and the segment lists stay intact.   *)
(*                                                                         *)
(* The first of these rests on the emergency segments: what the thread     *)
(* has copied is no longer than what it has walked over, so it finds its   *)
(* own segment full at most once before it gives a segment back, and then  *)
(* there is an emergency segment again (Going).                            *)
(*                                                                         *)
(* If moreover no object that is freed was changed, the thread finds every *)
(* object of the entries it walks over in the hash table, and copies none  *)
(* but current versions.  What is left to go wrong first is the update     *)
(* that finds no memory, and the walk that passes the end of what was      *)
(* written, for which the lengths of the data are to blame                 *)
(* (cleaner.c:121).                                                        *)
(***************************************************************************)
EXTENDS VersionProofs

(* What only two threads can do to each other.                             *)
Races == {"staleClaim", "lateReset", "relinked", "truncated"}

(* Whatever a cell is read as, the entry does not reach over the end.      *)
Fits == \A s \in Segs, p \in Cells : content[s][p] # Data => p + Size(content[s][p]) <= Cap

(* There is an emergency segment for the walk to go on with, or no more    *)
(* has been copied than was walked over; and the next segment to test is   *)
(* still a used one.                                                       *)
Going(c) ==
    /\ cl[c].pc = "test" => cl[c].pos = 0 /\ cl[c].cur \in ToSet(used)
    /\ cl[c].pc \in {"scan", "test"} => emergency # <<>> \/ fill[cl[c].seg] = 0
    /\ cl[c].pc = "walk" => emergency # <<>> \/ fill[cl[c].seg] <= cl[c].pos
    /\ cl[c].pc \in {"retire", "refill", "finish"} => emergency # <<>>
    /\ cl[c].pc \in {"reclaim", "finish"} /\ cl[c].nxt # None =>
          cl[c].nxt \in ToSet(used) /\ cl[c].nxt # cl[c].cur
    /\ cl[c].pc = "finish" /\ cl[c].late # "no" => cl[c].cur = Last(emergency)

OneCleaner == EmergencyCount > 0 /\ \A c, d \in Cleaners : c = d

OneInv == Fits /\ hazards \cap Races = {} /\ \A c \in Cleaners : Going(c)

-----------------------------------------------------------------------------
(* Entries fit in their segment.                                           *)

LEMMA FitsKept ==
    ASSUME TypeOK, Fits,
           \A s \in Segs, p \in Cells :
              \/ content'[s][p] = content[s][p]
              \/ content'[s][p].len = 0
              \/ content[s][p] # Data /\ content'[s][p].len = content[s][p].len
    PROVE  Fits'
<1> SUFFICES ASSUME NEW s \in Segs, NEW p \in Cells, content'[s][p] # Data
             PROVE  p + Size(content'[s][p]) <= Cap
  BY DEF Fits
<1>1. CASE content'[s][p] = content[s][p]
  BY <1>1 DEF Fits
<1>2. CASE content'[s][p].len = 0
  <2>1. Size(content'[s][p]) = 1
    BY <1>2, SMT DEF Size
  <2>2. p + 1 <= Cap
    BY ConstantFacts, SMT DEF Cells
  <2> QED BY <2>1, <2>2
<1>3. CASE content[s][p] # Data /\ content'[s][p].len = content[s][p].len
  BY <1>3 DEF Fits, Size
<1> QED BY <1>1, <1>2, <1>3

LEMMA FitsWritten ==
    ASSUME TypeOK, Fits, NEW s \in Segs, NEW e \in Entry, HasRoom(s, e),
           content' = Written(s, fill[s], e)
    PROVE  Fits'
<1> SUFFICES ASSUME NEW t \in Segs, NEW p \in Cells, content'[t][p] # Data
             PROVE  p + Size(content'[t][p]) <= Cap
  BY DEF Fits
<1>1. CASE t = s /\ p = fill[s]
  <2>1. content'[t][p] = e
    BY <1>1, WrittenCells
  <2>2. fill[s] + Size(e) \in 0 .. Cap
    BY RoomFacts
  <2> QED BY <1>1, <2>1, <2>2, SMT
<1>2. CASE ~(t = s /\ p = fill[s])
  <2>1. content'[t][p] = content[t][p]
    BY <1>2, WrittenCells
  <2> QED BY <2>1 DEF Fits
<1> QED BY <1>1, <1>2

LEMMA FitsStep ==
    ASSUME IInv, Fits, Next
    PROVE  Fits'
<1> USE DEF heapVars
<1>0. TypeOK /\ content \in [Segs -> [Cells -> Cell]]
  BY DEF IInv, TypeOK, Cell
<1>1. CASE UNCHANGED content
  BY <1>1 DEF Fits
<1>2. CASE WriteEntry
  <2>1. app.entry \in Entry /\ head \in Segs
    BY <1>0, <1>2 DEF WriteEntry, TypeOK, AppStates
  <2> QED BY <1>0, <1>2, <2>1, FitsWritten DEF WriteEntry
<1>3. CASE SealHead
  <2>1. content' = Terminated(head)
    BY <1>3 DEF SealHead
  <2>2. CASE fill[head] \in Cells
    <3>1. content' = [content EXCEPT ![head][fill[head]].len = 0]
      BY <2>1, <2>2 DEF Terminated
    <3>2. ASSUME NEW s \in Segs, NEW p \in Cells
          PROVE  content'[s][p] = content[s][p] \/ content'[s][p].len = 0
      <4>1. content[s][p] \in Cell /\ \A e \in Cell : [e EXCEPT !.len = 0].len = 0
        BY <1>0 DEF Cell, Entry, Data
      <4>2. \/ content'[s][p] = content[s][p]
            \/ content'[s][p] = [content[s][p] EXCEPT !.len = 0]
        BY <1>0, <3>1
      <4> QED BY <4>1, <4>2
    <3> QED BY <1>0, <3>2, FitsKept
  <2>3. CASE fill[head] \notin Cells
    BY <1>1, <2>1, <2>3 DEF Terminated
  <2> QED BY <2>2, <2>3
<1>4. ASSUME NEW id \in FreeIds, BeginFree(id) PROVE Fits'
  <2>1. content' = Marked(hash[id])
    BY <1>4 DEF BeginFree
  <2>2. ASSUME NEW s \in Segs, NEW p \in Cells
        PROVE  \/ content'[s][p] = content[s][p]
               \/ content[s][p] # Data /\ content'[s][p].len = content[s][p].len
    <3>1. content[s][p] \in Cell /\ \A e \in Cell : [e EXCEPT !.del = TRUE].len = e.len
      BY <1>0 DEF Cell, Entry, Data
    <3>2. \/ content'[s][p] = content[s][p]
          \/ content[s][p] # Data /\ content'[s][p] = [content[s][p] EXCEPT !.del = TRUE]
      BY <1>0, <2>1 DEF Marked
    <3> QED BY <3>1, <3>2
  <2> QED BY <1>0, <2>2, FitsKept
<1>5. ASSUME NEW c \in Cleaners, Copy(c) PROVE Fits'
  <2>1. Visited(c) \in Entry /\ cl[c].seg \in Segs
    BY <1>5, CopyFacts
  <2> QED BY <1>0, <1>5, <2>1, FitsWritten DEF Copy
<1>6. CASE NewCall /\ ~\E id \in FreeIds : BeginFree(id)
  <2>1. UNCHANGED content
    BY <1>6 DEF NewCall, BeginPalloc, BeginPallocWithId, BeginUpdate
  <2> QED BY <1>1, <2>1
<1>7. CASE TakeHead \/ OutOfMemory \/ Publish \/ Unmap
  <2>1. UNCHANGED content
    BY <1>7 DEF TakeHead, OutOfMemory, Publish, Unmap
  <2> QED BY <1>1, <2>1
<1>8. ASSUME NEW c \in Cleaners, CleanerStep(c), ~Copy(c) PROVE Fits'
  <2>1. UNCHANGED content
    BY <1>8 DEF CleanerStep, StartCleaning, GetFirstSegment, GetSegment, BeginScan, Claim, Skip,
       EndWalk, Misread, Drop, FindFull, Retire, Refill, Advance, Reclaim, ReclaimNothing, Finish
  <2> QED BY <1>1, <2>1
<1> QED BY <1>2, <1>3, <1>4, <1>5, <1>6, <1>7, <1>8 DEF Next, CallStep

-----------------------------------------------------------------------------
(* The client does not disturb the thread.                                 *)

LEMMA OneClient ==
    ASSUME IInv, OneInv, NewCall \/ CallStep
    PROVE  hazards' \cap Races = {} /\ \A c \in Cleaners : Going(c)'
<1> USE DEF heapVars, listVars, lockVars
<1>0. TypeOK
  BY DEF IInv
<1>1. hazards' \subseteq hazards \cup {"garbage", "failedUpdate"}
  BY DEF NewCall, CallStep, BeginPalloc, BeginPallocWithId, BeginUpdate, BeginFree, WriteEntry,
     SealHead, TakeHead, OutOfMemory, Publish, Unmap, Meet
<1>2. UNCHANGED <<cl, emergency>> /\ (used' = used \/ SealHead)
  BY DEF NewCall, CallStep, BeginPalloc, BeginPallocWithId, BeginUpdate, BeginFree, WriteEntry,
     SealHead, TakeHead, OutOfMemory, Publish, Unmap
<1>3. ToSet(used) \subseteq ToSet(used')
  <2>1. CASE SealHead
    <3>1. used' = Append(used, head) /\ head \in Segs /\ used \in Seq(Segs)
      BY <1>0, <2>1 DEF SealHead, TypeOK
    <3> QED BY <3>1, AppendProps
  <2> QED BY <1>2, <2>1
<1>4. ASSUME NEW c \in Cleaners, cl[c].seg # None PROVE fill'[cl[c].seg] = fill[cl[c].seg]
  <2>1. cl[c].seg \in ToSet(cleaning) /\ cl[c].seg \in Segs
    BY <1>0, <1>4 DEF IInv, OwnSegments, TypeOK, CleanerStates
  <2>2. CASE WriteEntry
    <3>1. fill' = [fill EXCEPT ![head] = @ + Size(app.entry)] /\ HeadSet = {head}
      BY <2>2 DEF WriteEntry, AppAt, HeadSet
    <3>2. cl[c].seg # head
      BY <2>1, <3>1 DEF IInv, SegmentsPartitioned
    <3> QED BY <1>0, <2>1, <3>1, <3>2 DEF TypeOK
  <2>3. CASE TakeHead
    <3>1. fill' = [fill EXCEPT ![Head(free)] = 0] /\ Head(free) \in ToSet(free)
      BY <1>0, <2>3, TailProps DEF TakeHead, TypeOK
    <3>2. cl[c].seg # Head(free)
      BY <2>1, <3>1 DEF IInv, SegmentsPartitioned
    <3> QED BY <1>0, <2>1, <3>1, <3>2 DEF TypeOK
  <2>4. CASE ~WriteEntry /\ ~TakeHead
    BY <2>4 DEF NewCall, CallStep, BeginPalloc, BeginPallocWithId, BeginUpdate, BeginFree,
       SealHead, OutOfMemory, Publish, Unmap
  <2> QED BY <2>2, <2>3, <2>4
<1>5. hazards' \cap Races = {}
  BY <1>1 DEF OneInv, Races
<1>6. ASSUME NEW c \in Cleaners PROVE Going(c)'
  <2>1. Going(c)
    BY DEF OneInv
  <2>2. cl[c].pc \in {"scan", "test", "walk"} => cl[c].seg # None
    BY DEF IInv, Shape
  <2> QED BY <1>2, <1>3, <1>4, <2>1, <2>2 DEF Going
<1> QED BY <1>5, <1>6

-----------------------------------------------------------------------------
(* The segment after another one.                                          *)

LEMMA AfterFacts ==
    ASSUME NEW list \in Seq(Segs), NEW s
    PROVE  /\ After(list, s) \subseteq ToSet(list)
           /\ s \notin ToSet(list) => After(list, s) = {}
           /\ IsInjective(list) => s \notin After(list, s)
           /\ IsInjective(list) /\ list # <<>> /\ s = Last(list) => After(list, s) = {}
<1> DEFINE n == Len(list)
<1>1. n \in Nat /\ DOMAIN list = 1 .. n
  BY LenProperties
<1>2. \A i \in 1 .. n : list[i] \in ToSet(list)
  BY <1>1 DEF ToSet
<1>3. list # <<>> => n > 0
  <2>1. list # <<>> => n # 0
    BY EmptySeq
  <2> HIDE DEF n
  <2> QED BY <1>1, <2>1, SMT
<1>4. IsInjective(list) => \A i, j \in 1 .. n : list[i] = list[j] => i = j
  BY <1>1 DEF IsInjective
<1> HIDE DEF n
<1>5. \A i \in 1 .. n - 1 : i \in 1 .. n /\ i + 1 \in 1 .. n /\ i # i + 1 /\ i # n
  BY <1>1, SMT
<1>6. \A x \in After(list, s) : \E i \in 1 .. n - 1 : list[i] = s /\ x = list[i + 1]
  BY DEF After, n
<1>7. n > 0 => n \in 1 .. n
  BY <1>1, SMT
<1>8. After(list, s) \subseteq ToSet(list)
  BY <1>2, <1>5, <1>6
<1>9. s \notin ToSet(list) => After(list, s) = {}
  BY <1>2, <1>5, <1>6
<1>10. IsInjective(list) => s \notin After(list, s)
  BY <1>4, <1>5, <1>6
<1>11. IsInjective(list) /\ list # <<>> /\ s = list[n] => After(list, s) = {}
  BY <1>3, <1>4, <1>5, <1>6, <1>7
<1> QED BY <1>8, <1>9, <1>10, <1>11 DEF Last, n

LEMMA NextUsed ==
    ASSUME IInv, OneCleaner, NEW c \in Cleaners, cl[c].pc # "finish", NEW s \in ToSet(used)
    PROVE  /\ NextOf(s) \in ToSet(used) \cup {None}
           /\ NextOf(s) # s
<1>1. /\ free \in Seq(Segs) /\ used \in Seq(Segs) /\ cleaning \in Seq(Segs) /\ emergency \in Seq(Segs)
      /\ IsInjective(used) /\ s \notin ToSet(free) /\ s \notin ToSet(cleaning)
      /\ s \notin ToSet(emergency) /\ s # None
  BY ConstantFacts DEF IInv, TypeOK, SegmentsPartitioned
<1>2. Following(s) \subseteq ToSet(used) /\ s \notin Following(s)
  BY <1>1, AfterFacts DEF Following
<1>3. Left(s) = {}
  <2>1. \A d \in Cleaners : cl[d].pc # "finish"
    BY DEF OneCleaner
  <2>2. \A x : x \notin Left(s)
    BY <2>1 DEF Left
  <2> QED BY <2>2
<1> DEFINE succ == IF Following(s) # {} THEN Following(s) ELSE Left(s)
<1>4. NextOf(s) = IF succ = {} THEN None ELSE CHOOSE t \in succ : TRUE
  BY DEF NextOf
<1>5. succ = Following(s)
  BY <1>3
<1> HIDE DEF succ
<1> QED BY <1>1, <1>2, <1>4, <1>5

LEMMA LastUnlinked ==
    ASSUME IInv, emergency # <<>>
    PROVE  Last(emergency) \in ToSet(emergency) /\ Following(Last(emergency)) = {}
<1> DEFINE s == Last(emergency)
<1>1. /\ free \in Seq(Segs) /\ used \in Seq(Segs) /\ cleaning \in Seq(Segs) /\ emergency \in Seq(Segs)
      /\ IsInjective(emergency)
  BY DEF IInv, TypeOK, SegmentsPartitioned
<1>2. s \in ToSet(emergency)
  <2>1. Len(emergency) \in 1 .. Len(emergency) /\ DOMAIN emergency = 1 .. Len(emergency)
    <3>1. Len(emergency) \in Nat /\ Len(emergency) # 0 /\ DOMAIN emergency = 1 .. Len(emergency)
      BY <1>1, EmptySeq, LenProperties
    <3> QED BY <3>1, SMT
  <2> QED BY <2>1 DEF ToSet, Last
<1>3. s \notin ToSet(free) /\ s \notin ToSet(used) /\ s \notin ToSet(cleaning)
  BY <1>2 DEF IInv, SegmentsPartitioned
<1>4. After(free, s) \cup After(used, s) \cup After(cleaning, s) \cup After(emergency, s) = {}
  BY <1>1, <1>3, AfterFacts
<1> QED BY <1>2, <1>4 DEF Following

-----------------------------------------------------------------------------
(* The steps of the only cleaner thread.                                   *)

LEMMA OneThread ==
    ASSUME IInv, OneInv, OneCleaner, NEW c \in Cleaners, CleanerStep(c)
    PROVE  hazards' \cap Races = {} /\ Going(c)'
<1> USE DEF heapVars, listVars, lockVars
<1>0. /\ TypeOK /\ Going(c) /\ Fits /\ hazards \cap Races = {}
      /\ cl[c].pos \in Nat /\ \A s \in Segs : fill[s] \in Nat
      /\ emergency \in Seq(Segs) /\ used \in Seq(Segs)
  BY RowTypes DEF IInv, OneInv, TypeOK, CleanerStates
<1>1. cl[c].pc \in {"walk", "retire", "refill", "advance", "reclaim"} => cl[c].cur \in ToSet(used)
  BY <1>0 DEF IInv, ClaimsExclusive, Cleans, Races
<1>2. cl[c].pc \in {"scan", "test", "walk", "retire"} => cl[c].seg \in Segs
  BY <1>0 DEF IInv, Shape, TypeOK, CleanerStates
<1>3. ASSUME NEW s \in ToSet(used) \cup {None}, GoTo(c, s), UNCHANGED <<fill, used, emergency>>,
             cl[c].pc \in {"scan", "test"} \/ emergency # <<>>
      PROVE  Going(c)'
  <2>1. /\ cl'[c].pc \in {"scan", "test"} /\ cl'[c].seg = cl[c].seg /\ cl'[c].pos = 0
        /\ cl'[c].cur = s /\ s = None => cl'[c].pc = "scan"
    BY <1>0, <1>3 DEF GoTo, TypeOK
  <2>2. cl'[c].pc = "test" => cl'[c].cur \in ToSet(used)
    BY <1>0, <1>3 DEF GoTo, TypeOK
  <2> QED BY <1>0, <1>3, <2>1, <2>2 DEF Going
<1>4. CASE StartCleaning(c) \/ EndWalk(c)
  <2>1. cl'[c].pc \in {"first", "advance"} /\ UNCHANGED hazards
    BY <1>0, <1>4 DEF StartCleaning, EndWalk, TypeOK, CleanerStates
  <2> QED BY <1>0, <2>1 DEF Going
<1>5. CASE GetFirstSegment(c) \/ Refill(c)
  <2>1. PICK s \in Segs : /\ GetSegment(c, s)
                          /\ cl[c].pc \in {"first", "refill"}
                          /\ \/ cl' = [cl EXCEPT ![c].pc = "scan", ![c].seg = s]
                             \/ cl' = [cl EXCEPT ![c].pc = "walk", ![c].seg = s]
    BY <1>5 DEF GetFirstSegment, Refill, CleanerAt
  <2>2. ~StillLinked(s)
    BY <2>1 DEF StillLinked, Left, OneCleaner
  <2>3. UNCHANGED hazards /\ fill'[s] = 0
    BY <1>0, <2>1, <2>2 DEF GetSegment, Obtain, Meet, TypeOK
  <2>4. cl'[c].pc \in {"scan", "walk"} /\ cl'[c].seg = s /\ cl'[c].pos = cl[c].pos
    BY <1>0, <2>1 DEF TypeOK, CleanerStates
  <2>5. 0 <= cl[c].pos
    BY <1>0, SMT
  <2> QED BY <1>0, <2>3, <2>4, <2>5 DEF Going
<1>6. CASE BeginScan(c)
  <2>1. Head(used) \in ToSet(used)
    BY <1>0, <1>6, TailProps DEF BeginScan
  <2> QED BY <1>0, <1>3, <1>6, <2>1 DEF BeginScan, CleanerAt
<1>7. CASE Skip(c)
  <2>1. NextOf(cl[c].cur) \in ToSet(used) \cup {None}
    BY <1>0, <1>7, NextUsed DEF Skip, CleanerAt, Going
  <2> QED BY <1>0, <1>3, <1>7, <2>1 DEF Skip, CleanerAt
<1>8. CASE Claim(c)
  <2>1. cl[c].pc = "test" /\ cl'[c].pc \in {"advance", "walk"} /\ UNCHANGED <<fill, emergency>>
        /\ cl'[c].pos = cl[c].pos /\ cl'[c].seg = cl[c].seg
    BY <1>0, <1>8 DEF Claim, CleanerAt, TypeOK
  <2>2. UNCHANGED hazards /\ cl[c].pos = 0
    BY <1>0, <1>8, <2>1 DEF Claim, Meet, Going
  <2>3. 0 <= 0
    BY SMT
  <2> QED BY <1>0, <2>1, <2>2, <2>3 DEF Going
<1>9. CASE Misread(c)
  <2>1. hazards' \subseteq hazards \cup {"garbage", "nullDeref", "staleTail"} /\ UNCHANGED <<fill, emergency, used, cl>>
    BY <1>9 DEF Misread, Overrun
  <2> QED BY <1>0, <2>1 DEF Going, Races
<1>10. CASE Drop(c) \/ Copy(c)
  <2>1. /\ cl[c].pc = "walk" /\ cl'[c].pc = "walk" /\ cl'[c].seg = cl[c].seg
        /\ cl'[c].pos = cl[c].pos + Size(Visited(c)) /\ UNCHANGED <<emergency, used>>
    <3>1. cl' = [cl EXCEPT ![c].pos = @ + Size(Visited(c))] /\ UNCHANGED <<emergency, used>>
      BY <1>10 DEF Drop, Copy
    <3>2. cl[c].pc = "walk"
      BY <1>10 DEF Drop, Copy, Visits, Resumes, CleanerAt
    <3> QED BY <1>0, <3>1, <3>2 DEF TypeOK, CleanerStates
  <2>2. hazards' \subseteq hazards \cup {"staleTail"}
    BY <1>10 DEF Drop, Copy, Overrun
  <2>3. Size(Visited(c)) \in Nat /\ cl[c].seg \in Segs
    BY <1>2, <1>10, <2>1, VisitFacts, CellFacts DEF Drop, Copy, IInv
  <2>4. fill'[cl[c].seg] \in {fill[cl[c].seg], fill[cl[c].seg] + Size(Visited(c))}
    BY <1>0, <1>10, <2>3 DEF Drop, Copy, TypeOK
  <2>5. fill[cl[c].seg] <= cl[c].pos => fill'[cl[c].seg] <= cl'[c].pos
    <3>1. fill[cl[c].seg] \in Nat
      BY <1>0, <2>3
    <3> QED BY <1>0, <2>1, <2>3, <2>4, <3>1, SMT
  <2> QED BY <1>0, <2>1, <2>2, <2>5 DEF Going, Races
<1>11. CASE FindFull(c)
  <2>1. /\ cl[c].pc = "walk" /\ cl'[c].pc = "retire" /\ Survives(Visited(c))
        /\ ~HasRoom(cl[c].seg, Visited(c)) /\ UNCHANGED <<emergency, used, fill, hazards>>
    BY <1>0, <1>11 DEF FindFull, Visits, CleanerAt, TypeOK
  <2>2. /\ cl[c].cur \in Segs /\ cl[c].seg \in Segs /\ cl[c].pos \in Cells /\ Visited(c) # Data
        /\ Visited(c) \in Cell
    BY <1>11, <2>1, VisitFacts DEF FindFull, IInv, Survives, Unreadable
  <2>3. cl[c].pos + Size(Visited(c)) <= Cap
    BY <1>0, <2>2 DEF Fits, Visited
  <2>4. ~(fill[cl[c].seg] <= cl[c].pos)
    <3>1. /\ fill[cl[c].seg] \in Nat /\ Size(Visited(c)) \in Nat /\ Cap \in Nat
          /\ ~(Cap - fill[cl[c].seg] >= Size(Visited(c)))
      BY <1>0, <2>1, <2>2, CellFacts, ConstantFacts DEF HasRoom
    <3> QED BY <1>0, <2>3, <3>1, SMT
  <2> QED BY <1>0, <2>1, <2>4 DEF Going
<1>12. CASE Retire(c)
  <2>1. cl[c].pc = "retire" /\ cl'[c].pc = "refill" /\ UNCHANGED <<emergency, hazards>>
    BY <1>0, <1>12 DEF Retire, CleanerAt, TypeOK, CleanerStates
  <2> QED BY <1>0, <2>1 DEF Going
<1>13. CASE Advance(c)
  <2>1. /\ cl[c].pc = "advance" /\ cl'[c].pc = "reclaim" /\ cl'[c].nxt = NextOf(cl[c].cur)
        /\ cl'[c].cur = cl[c].cur /\ UNCHANGED <<emergency, used, hazards>>
    BY <1>0, <1>13 DEF Advance, CleanerAt, TypeOK, CleanerStates
  <2>2. NextOf(cl[c].cur) \in ToSet(used) \cup {None} /\ NextOf(cl[c].cur) # cl[c].cur
    BY <1>1, <2>1, NextUsed DEF CleanerAt
  <2> QED BY <1>0, <2>1, <2>2 DEF Going
<1>14. CASE Reclaim(c)
  <2> DEFINE t == cl[c].cur
  <2>1. /\ cl[c].pc = "reclaim" /\ t \in ToSet(used) /\ cl'[c].pc = "finish"
        /\ cl'[c].late = Late(t) /\ cl'[c].nxt = cl[c].nxt /\ cl'[c].cur = t
        /\ used' = Without(used, t) /\ UNCHANGED hazards
        /\ \/ NeedsRefill /\ emergency' = Append(emergency, t)
           \/ ~NeedsRefill /\ emergency' = emergency
    <3>1. /\ cl[c].pc = "reclaim" /\ t \in ToSet(used) /\ used' = Without(used, t) /\ UNCHANGED hazards
          /\ cl' = [cl EXCEPT ![c].pc = "finish", ![c].late = Late(t),
                              ![c].old = IF NeedsRefill THEN NextOf(t) ELSE None]
      BY <1>14 DEF Reclaim, CleanerAt
    <3>2. \/ NeedsRefill /\ emergency' = Append(emergency, t)
          \/ ~NeedsRefill /\ emergency' = emergency
      BY <1>14 DEF Reclaim
    <3>3. /\ cl'[c].pc = "finish" /\ cl'[c].late = Late(t) /\ cl'[c].nxt = cl[c].nxt
          /\ cl'[c].cur = cl[c].cur
      BY <1>0, <3>1 DEF TypeOK, CleanerStates
    <3> QED BY <3>1, <3>2, <3>3
  <2>2. ToSet(used') = ToSet(used) \ {t} /\ t \in Segs
    BY <1>0, <2>1, WithoutProps DEF IInv, SegmentsPartitioned
  <2> HIDE DEF t
  <2>3. emergency' # <<>> /\ (cl'[c].late # "no" => t = Last(emergency'))
    <3>1. CASE NeedsRefill
      <4>1. emergency' = Append(emergency, t)
        BY <2>1, <3>1
      <4>2. emergency' # <<>> /\ Last(emergency') = t
        BY <1>0, <2>2, <4>1, AppendProperties DEF Last
      <4> QED BY <4>2
    <3>2. CASE ~NeedsRefill
      <4>1. emergency' = emergency /\ cl'[c].late = "no"
        BY <2>1, <3>2 DEF Late
      <4>2. emergency # <<>>
        <5>1. Len(emergency) # 0
          <6>1. Len(emergency) \in Nat /\ EmergencyCount \in Nat /\ EmergencyCount > 0
                /\ ~(Len(emergency) < EmergencyCount)
            BY <1>0, <3>2, LenProperties, ConstantFacts DEF OneCleaner, NeedsRefill
          <6> QED BY <6>1, SMT
        <5> QED BY <1>0, <5>1, EmptySeq
      <4> QED BY <4>1, <4>2
    <3> QED BY <3>1, <3>2
  <2> QED BY <1>0, <2>1, <2>2, <2>3 DEF Going, t
<1>15. CASE ReclaimNothing(c)
  BY <1>1, <1>15 DEF ReclaimNothing, CleanerAt
<1>16. CASE Finish(c)
  <2>1. cl[c].pc = "finish" /\ GoTo(c, cl[c].nxt) /\ hazards' = hazards \cup LateHazards(c)
        /\ UNCHANGED <<fill, used, emergency>>
    BY <1>16 DEF Finish, CleanerAt
  <2>2. cl[c].nxt \in ToSet(used) \cup {None} /\ emergency # <<>>
    BY <1>0, <2>1 DEF Going
  <2>3. LateHazards(c) = {}
    BY <1>0, <2>1, <2>2, LastUnlinked DEF LateHazards, Going
  <2> QED BY <1>0, <1>3, <2>1, <2>2, <2>3
<1> QED
  BY <1>4, <1>5, <1>6, <1>7, <1>8, <1>9, <1>10, <1>11, <1>12, <1>13, <1>14, <1>15, <1>16
     DEF CleanerStep

-----------------------------------------------------------------------------
LEMMA OneInit ==
    ASSUME Init
    PROVE  OneInv
<1>1. Fits
  <2>1. Size(Blank) = 1
    BY SMT DEF Size, Blank
  <2>2. \A p \in Cells : p + 1 <= Cap
    BY ConstantFacts, SMT DEF Cells
  <2> QED BY <2>1, <2>2 DEF Init, Fits
<1>2. hazards \cap Races = {} /\ \A c \in Cleaners : Going(c)
  BY DEF Init, Going
<1> QED BY <1>1, <1>2 DEF OneInv

LEMMA OneStep ==
    ASSUME IInv, OneInv, OneCleaner, [Next]_vars
    PROVE  OneInv'
<1>1. CASE UNCHANGED vars
  BY <1>1 DEF OneInv, Fits, Going, vars, heapVars, listVars
<1>2. CASE Next
  <2>1. Fits'
    BY <1>2, FitsStep DEF OneInv
  <2>2. CASE NewCall \/ CallStep
    BY <2>1, <2>2, OneClient DEF OneInv
  <2>3. ASSUME NEW c \in Cleaners, CleanerStep(c) PROVE OneInv'
    <3>1. hazards' \cap Races = {} /\ Going(c)'
      BY <2>3, OneThread
    <3>2. \A d \in Cleaners : d = c
      BY DEF OneCleaner
    <3> QED BY <2>1, <3>1, <3>2 DEF OneInv
  <2> QED BY <1>2, <2>2, <2>3 DEF Next
<1> QED BY <1>1, <1>2

(* With one cleaner thread the invariant holds in every reachable state.   *)
THEOREM OneInductive ==
    ASSUME OneCleaner
    PROVE  Spec => [](IInv /\ OneInv)
<1>1. Init => IInv /\ OneInv
  BY InitType, InitInv, OneInit DEF IInv
<1>2. (IInv /\ OneInv) /\ [Next]_vars => (IInv /\ OneInv)'
  BY ClientStep, ThreadStep, Stutter, OneStep DEF Next
<1> QED BY <1>1, <1>2, PTL DEF Spec

(* A single cleaner thread never waits forever for a segment to copy into, *)
(* as the thesis argues (thesis.tex:345-349): when its own segment is full *)
(* there is an emergency segment (cleaner.c:187-264, 341-410).             *)
THEOREM OneNeverStuck ==
    ASSUME OneCleaner
    PROVE  Spec => []NeverStuck
<1>1. IInv /\ OneInv => NeverStuck
  BY DEF OneInv, Going, NeverStuck, Stuck
<1> QED BY <1>1, OneInductive, PTL

(* A single cleaner thread never returns with used_segs_mutex locked       *)
(* (cleaner.c:357-359): what it claims is a used segment.                  *)
THEOREM OneReleases ==
    ASSUME OneCleaner
    PROVE  Spec => []UsedSegsReleased
<1>1. IInv /\ OneInv => UsedSegsReleased
  BY DEF IInv, LeakNeedsStaleClaim, OneInv, Races, UsedSegsReleased
<1> QED BY <1>1, OneInductive, PTL

(* With a single cleaner thread nobody takes an emergency segment that     *)
(* still points into the used list, and the late reset of next_segment     *)
(* (cleaner.c:396-398) cuts off no segment.                                *)
THEOREM OneListsIntact ==
    ASSUME OneCleaner
    PROVE  Spec => []ListsIntact
<1>1. IInv /\ OneInv => ListsIntact
  BY DEF OneInv, Races, ListsIntact
<1> QED BY <1>1, OneInductive, PTL

-----------------------------------------------------------------------------
(* What one thread finds on its walk.                                      *)

(* A thread that keeps update_move_mutex because its own segment is full   *)
(* stands at the current version of an object (cleaner.c:115-140), unless  *)
(* its walk has passed the end.                                            *)
Held(c) ==
    updateMove = c /\ cl[c].pos < fill[cl[c].cur] =>
        /\ ~Visited(c).del /\ Visited(c).id \in Ids
        /\ hash[Visited(c).id] = <<cl[c].cur, cl[c].pos>>

LEMMA ClientFill ==
    ASSUME IInv, NewCall \/ CallStep
    PROVE  /\ \A s \in ToSet(used) \cup ToSet(cleaning) : fill'[s] = fill[s]
           /\ UNCHANGED <<cl, cleaning>>
<1> USE DEF heapVars, listVars
<1>0. TypeOK /\ \A s \in ToSet(used) \cup ToSet(cleaning) : s \in Segs
  BY InUseFacts DEF IInv
<1>1. UNCHANGED <<cl, cleaning>>
  BY DEF NewCall, CallStep, BeginPalloc, BeginPallocWithId, BeginUpdate, BeginFree, WriteEntry,
     SealHead, TakeHead, OutOfMemory, Publish, Unmap
<1>2. CASE WriteEntry
  <2>1. fill' = [fill EXCEPT ![head] = @ + Size(app.entry)] /\ HeadSet = {head}
    BY <1>2 DEF WriteEntry, AppAt, HeadSet
  <2>2. head \notin ToSet(used) \cup ToSet(cleaning)
    BY <2>1 DEF IInv, SegmentsPartitioned
  <2> QED BY <1>0, <1>1, <2>1, <2>2 DEF TypeOK
<1>3. CASE TakeHead
  <2>1. fill' = [fill EXCEPT ![Head(free)] = 0] /\ Head(free) \in ToSet(free)
    BY <1>0, <1>3, TailProps DEF TakeHead, TypeOK
  <2>2. Head(free) \notin ToSet(used) \cup ToSet(cleaning)
    BY <2>1 DEF IInv, SegmentsPartitioned
  <2> QED BY <1>0, <1>1, <2>1, <2>2 DEF TypeOK
<1>4. CASE ~WriteEntry /\ ~TakeHead
  BY <1>1, <1>4 DEF NewCall, CallStep, BeginPalloc, BeginPallocWithId, BeginUpdate, BeginFree,
     SealHead, OutOfMemory, Publish, Unmap
<1> QED BY <1>2, <1>3, <1>4

LEMMA LockedWhole ==
    ASSUME IInv, NewCall \/ CallStep, updateMove # None
    PROVE  Whole
<1> USE DEF heapVars
<1>0. TypeOK /\ app \in AppStates
  BY DEF IInv, TypeOK
<1>1. CASE WriteEntry
  <2>1. head \in Segs /\ app.entry \in Entry
    BY <1>0, <1>1 DEF WriteEntry, AppAt, TypeOK, AppStates
  <2> QED BY <1>0, <1>1, <2>1, WrittenWhole DEF WriteEntry
<1>2. CASE SealHead
  <2>1. head \in Segs /\ content' = Terminated(head)
    BY <1>0, <1>2 DEF SealHead, TypeOK
  <2> QED BY <1>0, <2>1, TerminatedCells
<1>3. CASE ~WriteEntry /\ ~SealHead
  <2>1. UNCHANGED content
    BY <1>3 DEF NewCall, CallStep, BeginPalloc, BeginPallocWithId, BeginUpdate, BeginFree,
       TakeHead, OutOfMemory, Publish, Unmap
  <2> QED BY <2>1 DEF Whole
<1> QED BY <1>1, <1>2, <1>3

LEMMA HeldClient ==
    ASSUME VInv, hazards = {}, NEW c \in Cleaners, Held(c), NewCall \/ CallStep
    PROVE  Held(c)'
<1> USE DEF heapVars, listVars, lockVars
<1>0. TypeOK /\ IInv /\ Rows /\ HInv /\ NInv
  BY DEF VInv, CInv, IInv
<1>1. UNCHANGED cl /\ \A s \in ToSet(used) : fill'[s] = fill[s]
  BY <1>0, ClientFill
<1> SUFFICES ASSUME updateMove' = c, cl[c].pos < fill'[cl[c].cur]
             PROVE  /\ ~Visited(c)'.del /\ Visited(c)'.id \in Ids
                    /\ hash'[Visited(c)'.id] = <<cl[c].cur, cl[c].pos>>
  BY <1>1 DEF Held
<1>2. updateMove = c /\ updateMove # None /\ updateMove # App
  <2>1. updateMove' \in {updateMove, App, None}
    BY DEF NewCall, CallStep, BeginPalloc, BeginPallocWithId, BeginUpdate, BeginFree, WriteEntry,
       SealHead, TakeHead, OutOfMemory, Publish, Unmap, Unlocked
  <2> QED BY <2>1, ConstantFacts
<1>3. ~app.locked /\ OnWalk(c) /\ cl[c].pos \in Cells
  BY <1>0, <1>2 DEF IInv, Shape, OnWalk
<1>4. cl[c].cur \in ToSet(used) /\ cl[c].cur \in Segs /\ fill'[cl[c].cur] = fill[cl[c].cur]
  BY <1>0, <1>1, <1>3, WalkCleans, CurUsed
<1>5. PICK e : e = Visited(c)
  OBVIOUS
<1>6. ~e.del /\ e.id \in Ids /\ hash[e.id] = <<cl[c].cur, cl[c].pos>>
  BY <1>2, <1>4, <1>5 DEF Held
<1>7. Visited(c)' = e
  <2>1. content[cl[c].cur][cl[c].pos] # Data
    BY <1>0, <1>3, <1>4 DEF HInv, Walks, WalkOK
  <2> QED BY <1>0, <1>1, <1>2, <1>3, <1>4, <1>5, <2>1, LockedWhole DEF Whole, Visited
<1>8. hash'[e.id] = hash[e.id]
  <2>1. CASE Publish
    <3>1. hash' = [hash EXCEPT ![app.id] = app.place] /\ hash[app.id] = Null
      BY <1>0, <1>3, <2>1 DEF Publish, AppAt, NInv, Calls, Writing
    <3>2. app.id # e.id
      BY <1>6, <3>1, PlaceFacts
    <3> QED BY <1>0, <1>6, <3>1, <3>2 DEF TypeOK
  <2>2. ~Unmap
    BY <1>0, <1>3 DEF Unmap, AppAt, NInv, Calls
  <2>3. CASE ~Publish
    BY <2>2, <2>3 DEF NewCall, CallStep, BeginPalloc, BeginPallocWithId, BeginUpdate, BeginFree,
       WriteEntry, SealHead, TakeHead, OutOfMemory
  <2> QED BY <2>1, <2>3
<1> QED BY <1>6, <1>7, <1>8

(* Before its end, a walk is at an entry that the hash table has a version *)
(* of; the entry survives only as the current version.                     *)
LEMMA VisitSafe ==
    ASSUME KeptOrFreed, VInv, hazards = {}, NEW c \in Cleaners, Visits(c),
           cl[c].pos < fill[cl[c].cur]
    PROVE  /\ ~Unreadable(Visited(c)) /\ ~Unmapped(Visited(c))
           /\ Survives(Visited(c)) =>
                 /\ ~Visited(c).del /\ Visited(c).id \in Ids
                 /\ hash[Visited(c).id] = <<cl[c].cur, cl[c].pos>>
<1>0. /\ TypeOK /\ IInv /\ Rows /\ AppEntry /\ HInv /\ NInv
      /\ cl[c].pc = "walk" /\ updateMove = None /\ ~WalkOver(c)
  BY DEF VInv, CInv, IInv, Visits, CleanerAt
<1>1. InFlight = {}
  BY <1>0, ConstantFacts DEF IInv, Shape, InFlight
<1>2. PICK t \in Segs : t = cl[c].cur
  BY <1>0, WalkPlace
<1>3. /\ t \in ToSet(used) /\ InUse(t) /\ cl[c].pos \in Nat /\ fill[t] \in Nat
      /\ cl[c].pos < fill[t] => cl[c].pos \in Cells
  BY <1>0, <1>2, WalkPlace
<1>4. cl[c].pos < fill[t]
  BY <1>2
<1>5. PICK p \in Cells : p = cl[c].pos
  BY <1>3, <1>4
<1>6. PICK e \in Entry : e = Visited(c)
  <2>1. Visited(c) # Data /\ Visited(c) \in Cell
    BY <1>0, <1>2, <1>4, <1>5, VisitRow, RowTypes DEF Visited
  <2> QED BY <2>1 DEF Cell
<1>7. e = content[t][p] /\ e # Data /\ e.len > 0 /\ e.ver \in Nat
  <2>1. e = content[t][p] /\ e # Data /\ e.len > 0
    BY <1>0, <1>2, <1>4, <1>5, <1>6, VisitRow DEF Visited
  <2> QED BY <2>1 DEF Entry
<1>8. ASSUME ~e.del
      PROVE  /\ e.id \in Ids /\ hash[e.id] # Null /\ At(hash[e.id]) # Data
             /\ Kept(e) => hash[e.id] = <<t, p>>
  <2>1. ~Passed(t, p)
    <3> SUFFICES ASSUME NEW d \in Cleaners, Claims(d), cl[d].cur = t, OnWalk(d) => p < cl[d].pos
                 PROVE  FALSE
      BY DEF Passed
    <3>1. Cleans(c) /\ Cleans(d)
      BY <1>0 DEF Cleans, Claims
    <3>2. d = c
      BY <1>0, <1>2, <3>1 DEF IInv, ClaimsExclusive
    <3>3. p < p
      BY <1>0, <1>5, <3>2 DEF OnWalk
    <3> QED BY <1>3, <1>5, <3>3, SMT
  <2>2. <<t, p>> # app.place
    <3> SUFFICES ASSUME <<t, p>> = app.place PROVE FALSE
      OBVIOUS
    <3>1. head = t /\ HeadSet = {head}
      BY <1>0, PlaceInHead, PlaceFacts DEF HInv
    <3> QED BY <1>0, <1>3, <3>1 DEF IInv, SegmentsPartitioned
  <2>3. Valid(t, p)
    BY <1>3, <1>4, <1>5, <1>7, <1>8, <2>1, <2>2 DEF Valid
  <2>4. VersionOK(t, p, e)
    BY <1>0, <1>7, <2>3 DEF NInv, Ordered
  <2>5. e.id \in Ids /\ hash[e.id] # Null
    BY <1>1, <1>7, <1>8, <1>0, <2>3, ValidOutdated DEF Outdated
  <2>6. At(hash[e.id]) # Data /\ At(hash[e.id]).ver \in Nat
    BY <1>0, <1>1, <2>5, CurrentCell DEF Entry
  <2>7. Kept(e) => ~(e.ver < At(hash[e.id]).ver)
    BY <1>7, <2>6, SMT DEF Kept
  <2> QED BY <1>1, <2>4, <2>5, <2>6, <2>7 DEF VersionOK
<1>9. ~Unreadable(e) /\ ~Unmapped(e)
  BY <1>7, <1>8 DEF Unreadable, Unmapped
<1>10. Survives(e) => ~e.del /\ Kept(e)
  BY DEF Survives, Kept
<1> QED BY <1>2, <1>4, <1>5, <1>6, <1>7, <1>8, <1>9, <1>10

(* The entry at hand when the thread has another segment is still current. *)
LEMMA ResumeSafe ==
    ASSUME VInv, hazards = {}, NEW c \in Cleaners, Held(c), Resumes(c), cl[c].pos < fill[cl[c].cur]
    PROVE  Survives(Visited(c))
<1>0. /\ TypeOK /\ IInv /\ Rows /\ HInv /\ cl[c].pc = "walk" /\ updateMove = c
  BY DEF VInv, CInv, IInv, Resumes, CleanerAt
<1>1. PICK e : e = Visited(c)
  OBVIOUS
<1>2. ~e.del /\ e.id \in Ids /\ hash[e.id] = <<cl[c].cur, cl[c].pos>>
  BY <1>0, <1>1 DEF Held
<1>3. cl[c].pos \in Cells /\ cl[c].cur \in Segs /\ InUse(cl[c].cur)
  BY <1>0, WalkPlace
<1>4. e # Data /\ e.len > 0 /\ e \in Cell
  BY <1>0, <1>1, <1>3, VisitRow, RowTypes DEF Visited
<1>5. At(hash[e.id]) = e /\ hash[e.id] # Null
  <2>1. e = content[cl[c].cur][cl[c].pos]
    BY <1>1 DEF Visited
  <2>2. hash[e.id][1] = cl[c].cur /\ hash[e.id][2] = cl[c].pos
    BY <1>2
  <2>3. hash[e.id] # Null
    BY <1>2, PlaceFacts
  <2> QED BY <2>1, <2>2, <2>3 DEF At
<1>6. e.ver \in Nat /\ e.ver >= e.ver
  <2>1. e \in Entry
    BY <1>4 DEF Cell
  <2>2. e.ver \in Nat
    BY <2>1 DEF Entry
  <2> QED BY <2>2, SMT
<1>7. ~Unreadable(e) /\ ~Unmapped(e)
  BY <1>4, <1>5 DEF Unreadable, Unmapped
<1>8. Kept(e)
  BY <1>2, <1>5, <1>6 DEF Kept
<1> QED BY <1>1, <1>4, <1>7, <1>8 DEF Survives

(* What the thread holds after a step of its own.                          *)
LEMMA HeldThread ==
    ASSUME KeptOrFreed, VInv, IInv', hazards = {}, hazards' = {}, NEW c \in Cleaners, Held(c),
           CleanerStep(c)
    PROVE  Held(c)'
<1> USE DEF heapVars, listVars, lockVars
<1>0. TypeOK /\ IInv /\ Rows /\ HInv
  BY DEF VInv, CInv, IInv
<1>1. CASE FindFull(c)
  <2>1. /\ Visits(c) /\ Survives(Visited(c))
        /\ UNCHANGED <<content, fill, hash>> /\ cl' = [cl EXCEPT ![c].pc = "retire"]
    BY <1>1 DEF FindFull
  <2>2. cl'[c].pos = cl[c].pos /\ cl'[c].cur = cl[c].cur
    BY <1>0, <2>1 DEF TypeOK, CleanerStates
  <2>3. Visited(c)' = Visited(c)
    BY <2>1, <2>2 DEF Visited
  <2>4. ASSUME cl[c].pos < fill[cl[c].cur]
        PROVE  /\ ~Visited(c).del /\ Visited(c).id \in Ids
               /\ hash[Visited(c).id] = <<cl[c].cur, cl[c].pos>>
    BY <2>1, <2>4, VisitSafe
  <2> QED BY <2>1, <2>2, <2>3, <2>4 DEF Held
<1>2. CASE Retire(c) \/ Refill(c)
  <2>1. /\ cl[c].pc \in {"retire", "refill"}
        /\ cl'[c].pos = cl[c].pos /\ cl'[c].cur = cl[c].cur
    <3>1. CASE Retire(c)
      <4>1. cl' = [cl EXCEPT ![c].pc = "refill", ![c].seg = None] /\ cl[c].pc = "retire"
        BY <3>1 DEF Retire, CleanerAt
      <4> QED BY <1>0, <4>1 DEF TypeOK, CleanerStates
    <3>2. CASE Refill(c)
      <4>1. PICK s \in Segs : cl' = [cl EXCEPT ![c].pc = "walk", ![c].seg = s] /\ cl[c].pc = "refill"
        BY <3>2 DEF Refill, CleanerAt
      <4> QED BY <1>0, <4>1 DEF TypeOK, CleanerStates
    <3> QED BY <1>2, <3>1, <3>2
  <2>2. updateMove = c
    BY <1>0, <2>1 DEF IInv, Shape
  <2>3. cl[c].cur \in Segs /\ InUse(cl[c].cur)
    BY <1>0, <2>1, CurUsed DEF Cleans
  <2>4. UNCHANGED <<content, hash>> /\ fill'[cl[c].cur] = fill[cl[c].cur]
    <3>1. CASE Retire(c)
      BY <3>1 DEF Retire
    <3>2. CASE Refill(c)
      <4>1. PICK s \in Segs : GetSegment(c, s)
        BY <3>2 DEF Refill
      <4>2. fill' = [fill EXCEPT ![s] = 0] /\ s # cl[c].cur /\ UNCHANGED <<content, hash>>
        BY <1>0, <2>3, <4>1, ObtainFacts
      <4> QED BY <1>0, <2>3, <4>2 DEF TypeOK
    <3> QED BY <1>2, <3>1, <3>2
  <2>5. Visited(c)' = Visited(c)
    BY <2>1, <2>4 DEF Visited
  <2> QED BY <2>1, <2>2, <2>4, <2>5 DEF Held
<1>3. CASE Drop(c) \/ Copy(c)
  <2>1. updateMove' # c
    BY <1>3, ConstantFacts DEF Drop, Copy, Visits
  <2> QED BY <2>1 DEF Held
<1>4. CASE Misread(c)
  <2>1. hazards' # {}
    BY <1>4 DEF Misread
  <2> QED BY <2>1
<1>5. CASE ~(FindFull(c) \/ Retire(c) \/ Refill(c) \/ Drop(c) \/ Copy(c) \/ Misread(c))
  <2>1. UNCHANGED updateMove
    BY <1>5 DEF CleanerStep, StartCleaning, GetFirstSegment, GetSegment, BeginScan, Claim, Skip,
       EndWalk, Advance, Reclaim, ReclaimNothing, Finish
  <2>2. updateMove # c
    <3>1. cl[c].pc \notin {"walk", "retire", "refill"} \/ updateMove # c
      BY <1>5 DEF CleanerStep, StartCleaning, GetFirstSegment, BeginScan, Claim, Skip, EndWalk,
         Advance, Reclaim, ReclaimNothing, Finish, CleanerAt
    <3> QED BY <1>0, <3>1 DEF IInv, Shape
  <2> QED BY <2>1, <2>2 DEF Held
<1> QED BY <1>1, <1>2, <1>3, <1>4, <1>5

-----------------------------------------------------------------------------
(* What can go wrong first.                                                *)

LEMMA OneHazard ==
    ASSUME KeptOrFreed, VInv, OneInv', hazards = {}, \A c \in Cleaners : Held(c), Next
    PROVE  RacesNeedTwo'
<1> USE DEF heapVars, listVars, lockVars
<1>0. IInv /\ TypeOK /\ Rows /\ HInv /\ hazards' \cap Races = {}
  BY DEF VInv, CInv, IInv, OneInv
<1> SUFFICES hazards' \subseteq {"failedUpdate"} \/ "staleTail" \in hazards'
  BY DEF RacesNeedTwo
<1>1. ASSUME NEW id \in Ids, hash[id] # Null, AppAt("idle") PROVE At(hash[id]) # Data
  BY <1>0, <1>1, IdleFacts, CurrentCell
<1>2. CASE NewCall
  <2>1. ASSUME NEW len \in Lens, NEW id \in UpdIds \cup WithIds, BeginUpdate(id, len) PROVE hazards' = {}
    BY <1>1, <2>1, ClientAssumption DEF BeginUpdate, Meet
  <2>2. ASSUME NEW id \in FreeIds, BeginFree(id) PROVE hazards' = {}
    BY <1>1, <2>2, ClientAssumption DEF BeginFree, Meet
  <2> QED BY <1>2, <2>1, <2>2 DEF NewCall, BeginPalloc, BeginPallocWithId
<1>3. CASE CallStep
  <2>1. CASE OutOfMemory
    BY <2>1 DEF OutOfMemory, Meet
  <2>2. CASE ~OutOfMemory
    BY <1>3, <2>2 DEF CallStep, WriteEntry, SealHead, TakeHead, Publish, Unmap
  <2> QED BY <2>1, <2>2
<1>4. ASSUME NEW c \in Cleaners, CleanerStep(c) PROVE hazards' = {} \/ "staleTail" \in hazards'
  <2>1. CASE GetFirstSegment(c) \/ Refill(c)
    <3>1. hazards' \subseteq {"relinked"}
      BY <2>1 DEF GetFirstSegment, Refill, GetSegment, Meet
    <3> QED BY <1>0, <3>1 DEF Races
  <2>2. CASE Claim(c) \/ Finish(c)
    <3>1. hazards' \subseteq {"staleClaim", "truncated", "lateReset"}
      BY <2>2 DEF Claim, Finish, Meet, LateHazards
    <3> QED BY <1>0, <3>1 DEF Races
  <2>3. CASE Misread(c)
    <3>1. cl[c].pos \in Nat /\ fill[cl[c].cur] \in Nat
      <4>1. cl[c].pc = "walk"
        BY <2>3 DEF Misread, Visits, Resumes, CleanerAt
      <4> QED BY <1>0, <4>1, WalkPlace
    <3>2. CASE cl[c].pos < fill[cl[c].cur]
      <4>1. CASE Visits(c)
        <5>1. ~Unreadable(Visited(c)) /\ ~Unmapped(Visited(c)) /\ updateMove # c
          BY <3>2, <4>1, VisitSafe, ConstantFacts DEF Visits
        <5> QED BY <2>3, <5>1 DEF Misread, Resumes
      <4>2. CASE Resumes(c)
        <5>1. Survives(Visited(c)) /\ ~Visits(c)
          BY <3>2, <4>2, ResumeSafe, ConstantFacts DEF Visits, Resumes
        <5> QED BY <2>3, <5>1 DEF Misread
      <4> QED BY <2>3, <4>1, <4>2 DEF Misread
    <3>3. CASE ~(cl[c].pos < fill[cl[c].cur])
      <4>1. cl[c].pos >= fill[cl[c].cur]
        BY <3>1, <3>3, SMT
      <4> QED BY <2>3, <4>1 DEF Misread, Overrun
    <3> QED BY <3>2, <3>3
  <2>4. CASE Copy(c)
    BY <2>4 DEF Copy, Overrun
  <2>5. CASE ~(GetFirstSegment(c) \/ Refill(c) \/ Claim(c) \/ Finish(c) \/ Misread(c) \/ Copy(c))
    BY <2>5, <1>4 DEF CleanerStep, StartCleaning, BeginScan, Skip, EndWalk, Drop, FindFull, Retire,
       Advance, Reclaim, ReclaimNothing
  <2> QED BY <2>1, <2>2, <2>3, <2>4, <2>5
<1> QED BY <1>2, <1>3, <1>4 DEF Next

(* The invariant, until something goes wrong.                              *)
FirstInv ==
    /\ VInv /\ OneInv /\ RacesNeedTwo
    /\ hazards = {} => \A c \in Cleaners : Held(c)

LEMMA FirstInit ==
    ASSUME Init
    PROVE  FirstInv
<1>1. VInv /\ OneInv
  BY VInvInit, OneInit
<1>2. hazards = {} /\ \A c \in Cleaners : updateMove # c
  BY ConstantFacts DEF Init
<1> QED BY <1>1, <1>2 DEF FirstInv, RacesNeedTwo, Held

LEMMA FirstStep ==
    ASSUME OneCleaner, KeptOrFreed, FirstInv, [Next]_vars
    PROVE  FirstInv'
<1> USE DEF heapVars, listVars, lockVars
<1>0. VInv /\ OneInv /\ IInv /\ NoRebirth /\ RacesNeedTwo
  BY DEF FirstInv, VInv, CInv, KeptOrFreed, NoRebirth, Changing
<1>1. VInv' /\ OneInv' /\ IInv'
  BY <1>0, VInvStep, OneStep DEF VInv, CInv
<1>2. CASE UNCHANGED vars
  BY <1>1, <1>2 DEF vars, FirstInv, RacesNeedTwo, Held, Visited
<1>3. CASE Next
  <2>1. ASSUME hazards' = {}, NEW c \in Cleaners PROVE Held(c)'
    <3>1. hazards = {} /\ Held(c)
      BY <1>3, <2>1, HazardsGrow DEF FirstInv
    <3>2. CASE NewCall \/ CallStep
      BY <1>0, <3>1, <3>2, HeldClient
    <3>3. ASSUME NEW d \in Cleaners, CleanerStep(d) PROVE Held(c)'
      <4>1. d = c
        BY DEF OneCleaner
      <4> QED BY <1>0, <1>1, <2>1, <3>1, <3>3, <4>1, HeldThread
    <3> QED BY <1>3, <3>2, <3>3 DEF Next
  <2>2. RacesNeedTwo'
    <3>1. CASE hazards = {}
      BY <1>0, <1>1, <1>3, <3>1, OneHazard DEF FirstInv
    <3>2. CASE hazards # {}
      BY <1>0, <1>3, <3>2, HazardsGrow DEF RacesNeedTwo
    <3> QED BY <3>1, <3>2
  <2> QED BY <1>1, <2>1, <2>2 DEF FirstInv
<1> QED BY <1>2, <1>3

(* With one cleaner thread, and a client that frees no object it has       *)
(* changed, nothing goes wrong before an update has found no memory after  *)
(* it had discounted the old version (log_pmem.c:301-305), or a walk has   *)
(* passed the end of what was written (cleaner.c:121).                     *)
THEOREM OneRacesNeedTwo ==
    ASSUME OneCleaner, KeptOrFreed
    PROVE  Spec => []RacesNeedTwo
<1>1. Init => FirstInv
  BY FirstInit
<1>2. FirstInv /\ [Next]_vars => FirstInv'
  BY FirstStep
<1>3. FirstInv => RacesNeedTwo
  BY DEF FirstInv
<1> QED BY <1>1, <1>2, <1>3, PTL DEF Spec
=============================================================================
