--------------------------- MODULE RestartProofs ---------------------------
(***************************************************************************)
(* Machine-checked theorems about Restart: whatever was lost in a crash,   *)
(* and however often the program is started again, the variables keep      *)
(* their types, a heap that check_consistency accepts has its segments in  *)
(* order, each cleaner segment with a thread of its own, the hash table is *)
(* what it was, and the client sees one map from objects to values.        *)
(*                                                                         *)
(* While the heap is accepted, the steps are those of LogHeap and its      *)
(* inductive invariant does the work.  What is new is what a crash leaves. *)
(* Of the lists: either the segments are still a partition, or the process *)
(* died between the two halves of a change of the head (Sealed), and then  *)
(* every list is in order but the head is also in one of them.  That is    *)
(* the state check_consistency tells apart, by counting.  Of the log: the  *)
(* entries say what the hash table was (Fits), because an unmarked entry   *)
(* is the current one or an older one of the same object; used_space may   *)
(* be too large by what a crash came before (Extra), and so the invariant  *)
(* of LogHeap is proved with that slack.                                   *)
(***************************************************************************)
EXTENDS Restart, StoreProofs, FunctionTheorems, WellFoundedInduction

(* The four lists are sound and no segment is in two of them.              *)
ListsApart ==
    /\ IsInjective(free) /\ IsInjective(used) /\ IsInjective(cleaning) /\ IsInjective(emergency)
    /\ ToSet(free) \cap (ToSet(used) \cup ToSet(cleaning) \cup ToSet(emergency)) = {}
    /\ ToSet(used) \cap (ToSet(cleaning) \cup ToSet(emergency)) = {}
    /\ ToSet(cleaning) \cap ToSet(emergency) = {}

(* Every segment is in a list, and the head is therefore in one, too.      *)
Sealed ==
    /\ ListsApart
    /\ head \in Segs
    /\ ToSet(free) \cup ToSet(used) \cup ToSet(cleaning) \cup ToSet(emergency) = Segs

-----------------------------------------------------------------------------
(* Counting the segments.                                                  *)

(* A list without repetitions is as long as its set is large.              *)
LEMMA ListCount ==
    ASSUME NEW S, NEW list \in Seq(S), IsInjective(list)
    PROVE  /\ IsFiniteSet(ToSet(list))
           /\ Cardinality(ToSet(list)) = Len(list) /\ Len(list) \in Nat
<1>1. Len(list) \in Nat /\ DOMAIN list = 1 .. Len(list) /\ list \in [1 .. Len(list) -> S]
  BY LenProperties
<1>2. list \in [1 .. Len(list) -> ToSet(list)]
  BY <1>1 DEF ToSet
<1>3. list \in Bijection(1 .. Len(list), ToSet(list))
  BY <1>1, <1>2 DEF Bijection, Injection, Surjection, ToSet
<1>4. ExistsBijection(1 .. Len(list), ToSet(list))
  BY <1>3 DEF ExistsBijection
<1>5. IsFiniteSet(1 .. Len(list)) /\ Cardinality(1 .. Len(list)) = Len(list)
  BY <1>1, FS_Interval, SMT
<1> QED BY <1>1, <1>4, <1>5, FS_Bijection

(* Two sets without a common element.                                      *)
LEMMA DisjointCount ==
    ASSUME NEW S, NEW T, IsFiniteSet(S), IsFiniteSet(T), S \cap T = {}
    PROVE  /\ IsFiniteSet(S \cup T)
           /\ Cardinality(S \cup T) = Cardinality(S) + Cardinality(T)
<1>1. Cardinality(S \cap T) = 0
  BY FS_EmptySet
<1>2. Cardinality(S) \in Nat /\ Cardinality(T) \in Nat
  BY FS_CardinalityType
<1>3. /\ IsFiniteSet(S \cup T)
      /\ Cardinality(S \cup T) = Cardinality(S) + Cardinality(T) - Cardinality(S \cap T)
  BY FS_Union
<1> QED BY <1>1, <1>2, <1>3, SMT

(* With the head in one of the lists the segments do not add up, so that   *)
(* check_consistency rejects the heap (log.c:178-208).                     *)
LEMMA SealedRejected ==
    ASSUME TypeOK, Sealed
    PROVE  SegCount # NSeg
<1> DEFINE F == ToSet(free)
           U == ToSet(used)
           C == ToSet(cleaning)
           E == ToSet(emergency)
<1>0. free \in Seq(Segs) /\ used \in Seq(Segs) /\ cleaning \in Seq(Segs) /\ emergency \in Seq(Segs)
  BY DEF TypeOK
<1>1. /\ IsFiniteSet(F) /\ Cardinality(F) = Len(free) /\ Len(free) \in Nat
      /\ IsFiniteSet(U) /\ Cardinality(U) = Len(used) /\ Len(used) \in Nat
      /\ IsFiniteSet(C) /\ Cardinality(C) = Len(cleaning) /\ Len(cleaning) \in Nat
      /\ IsFiniteSet(E) /\ Cardinality(E) = Len(emergency) /\ Len(emergency) \in Nat
  BY <1>0, ListCount DEF Sealed, ListsApart
<1>2. /\ C \cap E = {} /\ U \cap (C \cup E) = {} /\ F \cap (U \cup (C \cup E)) = {}
      /\ F \cup (U \cup (C \cup E)) = Segs
  BY DEF Sealed, ListsApart
<1> HIDE DEF F, U, C, E
<1>3. IsFiniteSet(C \cup E) /\ Cardinality(C \cup E) = Cardinality(C) + Cardinality(E)
  BY <1>1, <1>2, DisjointCount
<1>4. /\ IsFiniteSet(U \cup (C \cup E))
      /\ Cardinality(U \cup (C \cup E)) = Cardinality(U) + Cardinality(C \cup E)
  BY <1>1, <1>2, <1>3, DisjointCount
<1>5. Cardinality(Segs) = Cardinality(F) + Cardinality(U \cup (C \cup E))
  BY <1>1, <1>2, <1>4, DisjointCount
<1>6. NSeg \in Nat /\ Cardinality(Segs) = NSeg
  <2>1. NSeg \in Nat /\ NSeg > 0
    BY ConstantFacts
  <2>2. 0 \in Int /\ NSeg - 1 \in Int /\ ~(0 > NSeg - 1) /\ (NSeg - 1) - 0 + 1 = NSeg
    BY <2>1, SMT
  <2> QED BY <2>1, <2>2, FS_Interval DEF Segs
<1>7. head # None
  BY ConstantFacts DEF Sealed
<1>8. SegCount = 1 + NSeg \/ SegCount = 2 + NSeg
  <2>1. NSeg = Len(free) + (Len(used) + (Len(cleaning) + Len(emergency)))
    BY <1>1, <1>3, <1>4, <1>5, <1>6
  <2>2. \E extra \in {0, 1} :
           SegCount = 1 + Len(free) + Len(used) + Len(cleaning) + Len(emergency) + extra
    BY <1>7 DEF SegCount
  <2> QED BY <1>1, <2>1, <2>2, SMT
<1> QED BY <1>6, <1>8, SMT

-----------------------------------------------------------------------------
(* The inductive invariant.                                                *)

(* Where every segment is; after a crash, also the second possibility.     *)
ListsSound == SegmentsPartitioned \/ Sealed

(* What the threads' variables say about the locks, claims and segments.   *)
ThreadsSound == Shape /\ OwnSegments /\ ClaimsExclusive /\ LeakNeedsStaleClaim

(* A heap that is not accepted is only freed from.                         *)
OnlyFrees == Alive /\ ~consistent => app.pc \in {"idle", "unmap"}

(* No process, no call and no locks.                                       *)
AtRest == ~Alive => app = Idle /\ updateMove = None /\ usedLock = None /\ currCleaned = {}

(* A thread that resumes a cleaner segment has one.                        *)
HaveSegment == \A c \in Cleaners : resume[c].at # "no" => cl[c].seg # None

RInv ==
    /\ RestartTypeOK /\ ListsSound /\ AcceptedPartition /\ ThreadsSound
    /\ OnlyFrees /\ AtRest /\ HaveSegment

(* While the heap is accepted, this is the invariant of LogHeap.           *)
LEMMA AcceptedInv ==
    ASSUME RInv, Alive, consistent
    PROVE  IInv
  BY DEF RInv, RestartTypeOK, AcceptedPartition, ThreadsSound, IInv

LEMMA LifeFacts ==
    ASSUME RestartTypeOK
    PROVE  /\ TypeOK /\ phase \in Phases /\ consistent \in BOOLEAN
           /\ phase = "down" => ~Alive
  BY DEF RestartTypeOK, Alive

(* A step that leaves the lists, the locks and the threads alone.          *)
LEMMA QuietStep ==
    ASSUME ListsSound, ThreadsSound, hazards \subseteq hazards',
           UNCHANGED <<listVars, lockVars, app, cl>>
    PROVE  ListsSound' /\ ThreadsSound' /\ (SegmentsPartitioned => SegmentsPartitioned')
<1> USE DEF listVars, lockVars
<1>1. SegmentsPartitioned' <=> SegmentsPartitioned
  BY DEF SegmentsPartitioned, HeadSet
<1>2. Sealed' <=> Sealed
  BY DEF Sealed, ListsApart
<1>3. Shape'
  BY DEF ThreadsSound, Shape
<1>4. OwnSegments'
  BY DEF ThreadsSound, OwnSegments
<1>5. ClaimsExclusive'
  BY DEF ThreadsSound, ClaimsExclusive, Cleans
<1>6. LeakNeedsStaleClaim'
  BY DEF ThreadsSound, LeakNeedsStaleClaim
<1> QED BY <1>1, <1>2, <1>3, <1>4, <1>5, <1>6 DEF ListsSound, ThreadsSound

-----------------------------------------------------------------------------
(* The steps of a running process.                                         *)

LEMMA ClientRunsInv ==
    ASSUME RInv, ClientRuns
    PROVE  RInv'
<1> USE DEF lifeVars
<1>0. /\ RestartTypeOK /\ TypeOK /\ phase = "up" /\ Alive /\ Alive' /\ consistent' = consistent
      /\ NewCall \/ CallStep
  BY LifeFacts DEF RInv, ClientRuns, NewCall, Alive
<1>1. TypeOK'
  BY <1>0, NewCallType, CallStepType
<1>2. RestartTypeOK'
  BY <1>0, <1>1 DEF RestartTypeOK, ClientRuns, Displace
<1>3. HaveSegment'
  <2>1. UNCHANGED <<cl, resume>>
    BY <1>0 DEF ClientRuns, NewCall, BeginPalloc, BeginPallocWithId, BeginUpdate, BeginFree,
       CallStep, WriteEntry, SealHead, TakeHead, OutOfMemory, Publish, Unmap
  <2> QED BY <2>1 DEF RInv, HaveSegment
<1>4. CASE consistent
  <2>1. IInv'
    BY <1>0, <1>4, AcceptedInv, ClientStep
  <2> QED BY <1>0, <1>2, <1>3, <1>4, <2>1 DEF RInv, IInv, ListsSound, AcceptedPartition,
             ThreadsSound, OnlyFrees, AtRest
<1>5. CASE ~consistent
  <2>1. app.pc \in {"idle", "unmap"}
    BY <1>0, <1>5 DEF RInv, OnlyFrees
  <2>2. Unmap \/ \E id \in FreeIds : BeginFree(id)
    BY <1>0, <1>5, <2>1 DEF ClientRuns, CallStep, WriteEntry, SealHead, TakeHead, OutOfMemory,
       Publish, NeedsHead, AppAt
  <2>3. app'.pc \in {"idle", "unmap"} /\ UNCHANGED <<listVars, usedLock, cl>>
    <3>1. CASE Unmap
      BY <3>1 DEF Unmap, Idle
    <3>2. ASSUME NEW id, BeginFree(id) PROVE app'.pc = "unmap" /\ UNCHANGED <<listVars, usedLock, cl>>
      BY <3>2 DEF BeginFree, Idle
    <3> QED BY <2>2, <3>1, <3>2
  <2>4. HeadSet' = HeadSet
    BY <2>1, <2>3 DEF HeadSet, listVars
  <2>5. (SegmentsPartitioned' <=> SegmentsPartitioned) /\ (Sealed' <=> Sealed)
    BY <2>3, <2>4 DEF SegmentsPartitioned, Sealed, ListsApart, listVars
  <2>6. Shape' /\ ClaimsExclusive'
    BY <1>0, ClientShape, ClaimsClient DEF RInv, ThreadsSound
  <2>7. OwnSegments'
    BY <2>3 DEF RInv, ThreadsSound, OwnSegments, listVars
  <2>8. hazards \subseteq hazards'
    BY <1>0, HazardsGrow DEF Next
  <2>9. LeakNeedsStaleClaim'
    BY <2>3, <2>8 DEF RInv, ThreadsSound, LeakNeedsStaleClaim
  <2> QED BY <1>0, <1>2, <1>3, <1>5, <2>3, <2>5, <2>6, <2>7, <2>9 DEF RInv, ListsSound,
             AcceptedPartition, ThreadsSound, OnlyFrees, AtRest
<1> QED BY <1>0, <1>4, <1>5

LEMMA ThreadRunsInv ==
    ASSUME RInv, NEW c \in Cleaners, ThreadRuns(c)
    PROVE  RInv'
<1> USE DEF lifeVars
<1>0. RestartTypeOK /\ TypeOK /\ Alive /\ consistent /\ Alive' /\ consistent' /\ CleanerStep(c)
  BY LifeFacts DEF RInv, ThreadRuns, Works, Alive
<1>1. IInv'
  BY <1>0, AcceptedInv, ThreadStep
<1>2. RestartTypeOK'
  BY <1>0, <1>1 DEF RestartTypeOK, IInv, ThreadRuns, Displace
<1>3. HaveSegment'
  <2>1. \A d \in Cleaners \ {c} : cl'[d] = cl[d]
    BY <1>0, OtherThreads
  <2> QED BY <2>1 DEF RInv, HaveSegment, ThreadRuns
<1> QED BY <1>0, <1>1, <1>2, <1>3 DEF RInv, IInv, ListsSound, AcceptedPartition, ThreadsSound,
           OnlyFrees, AtRest

-----------------------------------------------------------------------------
(* Finding the place in a cleaner segment.                                 *)

LEMMA MarkedType ==
    ASSUME TypeOK, NEW place \in Places
    PROVE  Marked(place) \in [Segs -> [Cells -> Cell]]
<1>1. place[1] \in Segs /\ place[2] \in Cells
  BY DEF Places
<1>2. \A e \in Entry : [e EXCEPT !.del = TRUE] \in Entry
  BY DEF Entry
<1>3. content \in [Segs -> [Cells -> Cell]]
  BY DEF TypeOK, Cell
<1>4. (IF content[place[1]][place[2]] = Data THEN Data
       ELSE [content[place[1]][place[2]] EXCEPT !.del = TRUE]) \in Cell
  BY <1>1, <1>2, <1>3 DEF Cell
<1> QED BY <1>1, <1>3, <1>4 DEF Marked

(* What a thread that resumes looks at.                                    *)
LEMMA ResumeFacts ==
    ASSUME RestartTypeOK, HaveSegment, NEW c \in Cleaners, resume[c].at = "walk"
    PROVE  /\ cl[c].seg \in Segs /\ resume[c].pos \in 0 .. Cap /\ resume[c].freed \in Nat
           /\ ~OffTrack(c) =>
                 LET place == <<cl[c].seg, resume[c].pos>>
                 IN  /\ place \in Places /\ Size(At(place)) \in Nat
                     /\ resume[c].pos + Size(At(place)) \in 0 .. Cap
<1> DEFINE place == <<cl[c].seg, resume[c].pos>>
<1>1. cl[c].seg \in Segs
  BY DEF RestartTypeOK, TypeOK, CleanerStates, HaveSegment
<1>2. resume[c].pos \in 0 .. Cap /\ resume[c].freed \in Nat
  BY DEF RestartTypeOK
<1>3. ASSUME ~OffTrack(c)
      PROVE  /\ place \in Places /\ Size(At(place)) \in Nat
             /\ resume[c].pos + Size(At(place)) \in 0 .. Cap
  <2>1. /\ resume[c].pos \in Cells /\ At(place) # Data
        /\ ~(resume[c].pos + Size(At(place)) > Cap)
    BY <1>3 DEF OffTrack, At
  <2>2. place \in Places
    BY <1>1, <2>1 DEF Places
  <2>3. At(place) \in Entry
    BY <2>1, <2>2, AtType DEF RestartTypeOK, Cell
  <2>4. Size(At(place)) \in Nat
    BY <2>3, EntryFacts
  <2> QED BY <1>2, <2>1, <2>2, <2>4, ConstantFacts, SMT
<1> QED BY <1>1, <1>2, <1>3

LEMMA ResumeInv ==
    ASSUME RInv, NEW c \in Cleaners,
           BeginResume(c) \/ ResumeEntry(c) \/ MisreadResume(c) \/ EndResume(c)
    PROVE  RInv'
<1> USE DEF vars, heapVars, listVars, lockVars, lifeVars
<1>0. /\ RestartTypeOK /\ TypeOK /\ HaveSegment
      /\ Alive /\ consistent /\ Alive' /\ consistent' /\ resume[c].at \in {"wait", "walk"}
      /\ resume \in [Cleaners -> [at : {"no", "wait", "walk"}, pos : 0 .. Cap, freed : Nat,
                                  regular : BOOLEAN]]
  BY LifeFacts DEF RInv, RestartTypeOK, BeginResume, ResumeEntry, MisreadResume, EndResume,
     Walking, Works, Alive
<1>1. UNCHANGED <<listVars, lockVars, app, cl>>
  BY DEF BeginResume, ResumeEntry, MisreadResume, EndResume
<1>2. hazards \subseteq hazards'
  BY DEF BeginResume, ResumeEntry, MisreadResume, EndResume, Meet
<1>3. ListsSound' /\ ThreadsSound' /\ SegmentsPartitioned'
  BY <1>0, <1>1, <1>2, QuietStep DEF RInv, AcceptedPartition
<1>4. HaveSegment' /\ RestartTypeOK'
  <2>1. CASE BeginResume(c)
    <3>1. TypeOK'
      BY <1>0, <2>1 DEF TypeOK, BeginResume
    <3> QED BY <1>0, <2>1, <3>1 DEF HaveSegment, RestartTypeOK, BeginResume
  <2>2. CASE ResumeEntry(c)
    <3> DEFINE place == <<cl[c].seg, resume[c].pos>>
               e == At(place)
    <3>1. /\ place \in Places /\ Size(e) \in Nat /\ resume[c].pos + Size(e) \in 0 .. Cap
          /\ resume[c].freed \in Nat /\ resume[c].at = "walk"
      BY <1>0, <2>2, ResumeFacts DEF ResumeEntry, Walking
    <3>2. content' \in [Segs -> [Cells -> Cell]]
      BY <1>0, <2>2, <3>1, MarkedType DEF ResumeEntry, TypeOK, Cell
    <3>3. usedSpace' \in [Segs -> 0 .. SizeMod - 1]
      BY <1>0, <2>2, <3>1, DiscountType DEF ResumeEntry, TypeOK
    <3>4. TypeOK'
      BY <1>0, <2>2, <3>2, <3>3 DEF ResumeEntry, TypeOK, Cell
    <3>5. resume[c].freed + Size(e) \in Nat
      <4>1. resume[c].freed \in Nat /\ Size(e) \in Nat
        BY <3>1
      <4> HIDE DEF e
      <4> QED BY <4>1, SMT
    <3>6. /\ resume' \in [Cleaners -> [at : {"no", "wait", "walk"}, pos : 0 .. Cap, freed : Nat,
                                       regular : BOOLEAN]]
          /\ \A d \in Cleaners : resume'[d].at = resume[d].at
      BY <1>0, <2>2, <3>1, <3>5 DEF ResumeEntry
    <3> QED BY <1>0, <1>1, <2>2, <3>4, <3>6 DEF HaveSegment, RestartTypeOK, ResumeEntry
  <2>3. CASE MisreadResume(c)
    <3>1. hazards' \subseteq Hazards
      BY <1>0, <2>3, MeetType DEF MisreadResume, Hazards
    <3>2. TypeOK'
      BY <1>0, <2>3, <3>1 DEF TypeOK, MisreadResume
    <3> QED BY <1>0, <2>3, <3>2 DEF HaveSegment, RestartTypeOK, MisreadResume
  <2>4. CASE EndResume(c)
    <3>1. cl[c].seg \in Segs /\ resume[c].pos \in 0 .. Cap
      BY <1>0, <2>4, ResumeFacts DEF EndResume, Walking
    <3>2. TypeOK'
      BY <1>0, <2>4, <3>1 DEF TypeOK, EndResume
    <3>3. NoResume \in [at : {"no", "wait", "walk"}, pos : 0 .. Cap, freed : Nat, regular : BOOLEAN]
      BY ConstantFacts DEF NoResume
    <3>4. faults' \subseteq Faults
      BY <1>0, <2>4 DEF EndResume, Fault, RestartTypeOK, Faults
    <3>5. HaveSegment'
      BY <1>0, <2>4 DEF HaveSegment, EndResume, NoResume
    <3> QED BY <1>0, <2>4, <3>2, <3>3, <3>4, <3>5 DEF RestartTypeOK, EndResume
  <2> QED BY <2>1, <2>2, <2>3, <2>4
<1> QED BY <1>0, <1>3, <1>4 DEF RInv, AcceptedPartition, OnlyFrees, AtRest

-----------------------------------------------------------------------------
(* Shutdown.                                                               *)

LEMMA ParkedFacts ==
    ASSUME NEW s \in Segs \cup {None}
    PROVE  /\ Parked(s) \in CleanerStates
           /\ Parked(s).seg = s /\ Parked(s).cur = None /\ Parked(s).pc \in {"wait", "scan"}
           /\ s = None <=> Parked(s).pc = "wait"
  BY ConstantFacts DEF Parked, CleanerStates

LEMMA StopInv ==
    ASSUME RInv, NEW c \in Cleaners, StopCleaner(c)
    PROVE  RInv'
<1> USE DEF vars, heapVars, listVars, lockVars, lifeVars
<1>0. /\ RestartTypeOK /\ TypeOK /\ Alive /\ consistent /\ Alive' /\ consistent'
      /\ IInv /\ HaveSegment
      /\ cl \in [Cleaners -> CleanerStates] /\ cl[c].seg \in Segs \cup {None}
  <2>1. RestartTypeOK /\ TypeOK /\ Alive /\ consistent /\ Alive' /\ consistent' /\ HaveSegment
    BY LifeFacts DEF RInv, StopCleaner, Works, Alive
  <2>2. cl \in [Cleaners -> CleanerStates] /\ cl[c].seg \in Segs \cup {None}
    BY <2>1 DEF TypeOK, CleanerStates
  <2> QED BY <2>1, <2>2, AcceptedInv
<1>1. /\ cl'[c] = Parked(cl[c].seg) /\ cl'[c].seg = cl[c].seg
      /\ cl'[c] \in CleanerStates /\ cl'[c].pc \in {"wait", "scan"}
      /\ cl[c].seg = None <=> cl'[c].pc = "wait"
      /\ \A d \in Cleaners \ {c} : cl'[d] = cl[d]
      /\ cl' \in [Cleaners -> CleanerStates]
  BY <1>0, ParkedFacts DEF StopCleaner
<1>2. cl[c].pc \in {"wait", "first", "scan", "test"}
  BY DEF StopCleaner, Cancellable
<1>3. NoResume \in [at : {"no", "wait", "walk"}, pos : 0 .. Cap, freed : Nat, regular : BOOLEAN]
  BY ConstantFacts DEF NoResume
<1>4. RestartTypeOK'
  <2>1. TypeOK'
    BY <1>0, <1>1 DEF StopCleaner, TypeOK
  <2> QED BY <1>0, <1>3, <2>1 DEF StopCleaner, RestartTypeOK
<1>5. ListsSound' /\ SegmentsPartitioned'
  BY <1>0 DEF IInv, ListsSound, StopCleaner, SegmentsPartitioned, HeadSet
<1>6. Shape'
  <2>1. updateMove # c
    BY <1>0, <1>2 DEF IInv, Shape
  <2> QED BY <1>0, <1>1, <2>1 DEF IInv, Shape, StopCleaner
<1>7. OwnSegments'
  <2>1. \A d \in Cleaners : cl'[d].seg = cl[d].seg
    BY <1>1
  <2> QED BY <1>0, <2>1 DEF IInv, OwnSegments, StopCleaner
<1>8. ClaimsExclusive'
  <2>1. \A d \in Cleaners : (Cleans(d)' <=> Cleans(d)) /\ (Cleans(d) => cl'[d] = cl[d])
    BY <1>1, <1>2 DEF Cleans
  <2> QED BY <1>0, <2>1 DEF IInv, ClaimsExclusive, StopCleaner
<1>9. LeakNeedsStaleClaim'
  BY <1>0 DEF IInv, LeakNeedsStaleClaim, StopCleaner
<1>10. HaveSegment'
  BY <1>0, <1>1 DEF HaveSegment, StopCleaner, NoResume, RestartTypeOK
<1> QED BY <1>0, <1>4, <1>5, <1>6, <1>7, <1>8, <1>9, <1>10 DEF RInv, ThreadsSound,
           AcceptedPartition, OnlyFrees, AtRest

LEMMA ShutdownInv ==
    ASSUME RInv, BeginClose \/ BeginSave \/ EndSave \/ Opened
    PROVE  RInv'
<1> USE DEF vars, heapVars, listVars, lockVars, lifeVars
<1>0. /\ RestartTypeOK /\ TypeOK /\ Alive /\ Alive' /\ consistent' = consistent
      /\ UNCHANGED <<listVars, lockVars, app, cl, hazards, resume>>
  BY LifeFacts DEF RInv, BeginClose, BeginSave, EndSave, Opened, Alive
<1>1. ListsSound' /\ ThreadsSound' /\ (SegmentsPartitioned => SegmentsPartitioned')
  BY <1>0, QuietStep DEF RInv
<1>2. TypeOK'
  BY <1>0 DEF BeginClose, BeginSave, EndSave, Opened, TypeOK
<1>3. RestartTypeOK'
  <2>1. Empty \in [Ids -> Places \cup {Null}] /\ hash \in [Ids -> Places \cup {Null}]
    BY <1>0 DEF Empty, TypeOK
  <2>2. phase' \in Phases /\ regular' \in BOOLEAN /\ consistent' \in BOOLEAN
    BY <1>0 DEF BeginClose, BeginSave, EndSave, Opened, Phases, RestartTypeOK
  <2>3. file' \in [state : {"none", "partial", "complete"}, pairs : [Ids -> Places \cup {Null}]]
    BY <1>0, <2>1 DEF BeginClose, BeginSave, EndSave, Opened, RestartTypeOK
  <2>4. faults' \subseteq Faults
    BY <1>0 DEF BeginClose, BeginSave, EndSave, Opened, RestartTypeOK, Fault, Faults
  <2> QED BY <1>0, <1>2, <2>2, <2>3, <2>4 DEF BeginClose, BeginSave, EndSave, Opened, RestartTypeOK
<1>4. HaveSegment'
  BY <1>0 DEF RInv, HaveSegment
<1> QED BY <1>0, <1>1, <1>3, <1>4 DEF RInv, AcceptedPartition, OnlyFrees, AtRest

-----------------------------------------------------------------------------
(* The end of a process, orderly or in a crash.                            *)

LEMMA HeldType ==
    ASSUME TypeOK, NEW id \in Ids
    PROVE  Held(id) \in Vals \cup {0}
<1>1. app.entry.val \in Vals \cup {0}
  BY DEF TypeOK, AppStates, Entry
<1>2. ASSUME NEW place \in Places PROVE At(place).val \in Vals \cup {0}
  BY <1>2, AtType DEF Cell, Entry, Data
<1>3. hash[id] \in Places \cup {Null}
  BY DEF TypeOK
<1> QED BY <1>1, <1>2, <1>3 DEF Held

(* The lists and the head stay as they are: they are sound after the end,  *)
(* though perhaps in the second way.                                       *)
LEMMA ListsAtEnd ==
    ASSUME RInv, End, UNCHANGED <<head, free>>
    PROVE  ListsSound'
<1>0. UNCHANGED <<head, free, used, cleaning, emergency>> /\ app'.pc = "idle"
  BY DEF End, Idle
<1>1. CASE Sealed
  BY <1>0, <1>1 DEF ListsSound, Sealed, ListsApart
<1>2. CASE SegmentsPartitioned /\ HeadSet' = HeadSet
  BY <1>0, <1>2 DEF ListsSound, SegmentsPartitioned
<1>3. CASE SegmentsPartitioned /\ HeadSet' # HeadSet
  <2>1. HeadSet = {} /\ head # None
    BY <1>0, <1>3 DEF HeadSet
  <2>2. head \in Segs
    BY <2>1 DEF RInv, RestartTypeOK, TypeOK
  <2>3. ListsApart
    BY <1>3 DEF SegmentsPartitioned, ListsApart
  <2>4. Sealed
    BY <1>3, <2>1, <2>2, <2>3 DEF SegmentsPartitioned, Sealed
  <2> QED BY <1>0, <2>4 DEF ListsSound, Sealed, ListsApart
<1> QED BY <1>1, <1>2, <1>3 DEF RInv, ListsSound

(* A crash right after the free segment became the head.                   *)
LEMMA ListsWhileTaking ==
    ASSUME RInv, Alive, End, WhileTaking
    PROVE  SegmentsPartitioned' /\ head' \in Segs /\ free' \in Seq(Segs)
<1>0. /\ TypeOK /\ app.pc \in {"takeHead", "append"} /\ consistent \in BOOLEAN
      /\ free \in Seq(Segs) /\ free # <<>> /\ None \notin Segs
      /\ head' = Head(free) /\ free' = Tail(free)
      /\ UNCHANGED <<used, cleaning, emergency>> /\ app'.pc = "idle"
  BY ConstantFacts DEF RInv, RestartTypeOK, TypeOK, WhileTaking, NeedsHead, AppAt, End, Idle
<1>1. SegmentsPartitioned
  BY <1>0 DEF RInv, OnlyFrees, AcceptedPartition
<1>2. /\ Head(free) \in Segs /\ Head(free) \in ToSet(free)
      /\ Tail(free) \in Seq(Segs)
      /\ ToSet(Tail(free)) = ToSet(free) \ {Head(free)} /\ IsInjective(Tail(free))
  BY <1>0, <1>1, TailProps DEF SegmentsPartitioned
<1>3. HeadSet = {} /\ HeadSet' = {Head(free)}
  BY <1>0, <1>2 DEF HeadSet, WhileTaking, NeedsHead, AppAt
<1> QED BY <1>0, <1>1, <1>2, <1>3 DEF SegmentsPartitioned

(* The memory that survives has its type.                                  *)
SurvivingType ==
    /\ content' \in [Segs -> [Cells -> Cell]]
    /\ fill' \in [Segs -> 0 .. Cap]
    /\ usedSpace' \in [Segs -> 0 .. SizeMod - 1]
    /\ head' \in Segs \cup {None} /\ free' \in Seq(Segs)
    /\ kept' \in [Ids -> Vals \cup {0}]

LEMMA EndInv ==
    ASSUME RInv, Alive, End, SurvivingType, ListsSound',
           crashes' \in 0 .. MaxCrashes, faults' \subseteq Faults, regular' \in BOOLEAN
    PROVE  RInv'
<1>0. /\ RestartTypeOK /\ TypeOK /\ OwnSegments /\ cl \in [Cleaners -> CleanerStates]
      /\ \A c \in Cleaners : cl[c].seg \in Segs \cup {None}
  BY DEF RInv, ThreadsSound, RestartTypeOK, TypeOK, CleanerStates
<1>1. /\ ~Alive' /\ app' = Idle /\ updateMove' = None /\ usedLock' = None /\ currCleaned' = {}
      /\ UNCHANGED <<used, cleaning, hazards>>
  BY DEF End, Alive
<1>2. /\ cl' \in [Cleaners -> CleanerStates]
      /\ \A c \in Cleaners :
            /\ cl'[c].seg = cl[c].seg /\ cl'[c].cur = None /\ cl'[c].pc \in {"wait", "scan"}
            /\ cl[c].seg = None <=> cl'[c].pc = "wait"
  BY <1>0, ParkedFacts DEF End
<1>3. TypeOK'
  <2>1. Empty \in [Ids -> Places \cup {Null}]
    BY DEF Empty
  <2> QED BY <1>0, <1>2, <2>1, IdleType DEF End, SurvivingType, TypeOK, Cell
<1>4. RestartTypeOK'
  <2>1. NoResume \in [at : {"no", "wait", "walk"}, pos : 0 .. Cap, freed : Nat, regular : BOOLEAN]
    BY ConstantFacts DEF NoResume
  <2> QED BY <1>0, <1>3, <2>1 DEF End, SurvivingType, RestartTypeOK, Phases
<1>5. Shape'
  BY <1>1, <1>2, ConstantFacts DEF Shape, Idle
<1>6. OwnSegments'
  BY <1>0, <1>1, <1>2 DEF OwnSegments
<1>7. ClaimsExclusive'
  BY <1>1, <1>2 DEF ClaimsExclusive, Cleans
<1>8. LeakNeedsStaleClaim'
  BY <1>1 DEF LeakNeedsStaleClaim
<1>9. HaveSegment'
  BY DEF HaveSegment, End, NoResume
<1> QED BY <1>1, <1>4, <1>5, <1>6, <1>7, <1>8, <1>9 DEF RInv, ThreadsSound, AcceptedPartition,
           OnlyFrees, AtRest

LEMMA EndCloseInv ==
    ASSUME RInv, EndClose
    PROVE  RInv'
<1>0. Alive /\ TypeOK /\ RestartTypeOK /\ End /\ UNCHANGED <<heapVars, head, free, crashes, faults>>
  BY LifeFacts DEF RInv, EndClose, Alive
<1>1. SurvivingType
  BY <1>0, HeldType DEF EndClose, SurvivingType, TypeOK, heapVars, Cell
<1>2. ListsSound'
  BY <1>0, ListsAtEnd
<1>3. crashes' \in 0 .. MaxCrashes /\ faults' \subseteq Faults /\ regular' \in BOOLEAN
  BY <1>0 DEF EndClose, RestartTypeOK
<1> QED BY <1>0, <1>1, <1>2, <1>3, EndInv

LEMMA CrashInv ==
    ASSUME RInv, Crash
    PROVE  RInv'
<1>0. /\ Alive /\ TypeOK /\ RestartTypeOK /\ End
      /\ \/ Between \/ WhileWriting \/ WhileTaking
         \/ \E id \in FreeIds : WhileFreeing(id)
  BY LifeFacts DEF RInv, Crash
<1>1. crashes' \in 0 .. MaxCrashes /\ regular' \in BOOLEAN
  BY <1>0, RestartAssumption, SMT DEF Crash, RestartTypeOK
<1>2. faults' \subseteq Faults
  BY <1>0, SMTT(20), ZenonT(20) DEF Crash, CrashFaults, RestartTypeOK, Faults
<1>3. \A id \in Ids : Held(id) \in Vals \cup {0}
  BY <1>0, HeldType
<1>4. CASE Between
  <2>1. SurvivingType
    BY <1>0, <1>3, <1>4 DEF Between, SurvivingType, TypeOK, heapVars, Cell
  <2> QED BY <1>0, <1>1, <1>2, <1>4, <2>1, EndInv, ListsAtEnd DEF Between
<1>5. CASE WhileWriting
  <2>1. head \in Segs /\ app.entry \in Entry /\ HasRoom(head, app.entry)
    BY <1>0, <1>5 DEF WhileWriting, TypeOK, AppStates
  <2>2. content' \in [Segs -> [Cells -> Cell]]
    BY <1>0, <1>5, <2>1, RoomFacts, WrittenType DEF WhileWriting
  <2>3. usedSpace' \in [Segs -> 0 .. SizeMod - 1]
    BY <1>0, <1>5, <2>1, AddSpaceType DEF WhileWriting
  <2>4. SurvivingType
    BY <1>0, <1>3, <1>5, <2>2, <2>3 DEF WhileWriting, SurvivingType, TypeOK
  <2> QED BY <1>0, <1>1, <1>2, <1>5, <2>4, EndInv, ListsAtEnd DEF WhileWriting
<1>6. ASSUME NEW id \in FreeIds, WhileFreeing(id) PROVE RInv'
  <2>1. hash[id] \in Places
    BY <1>0, <1>6, ClientAssumption DEF WhileFreeing, TypeOK
  <2>2. content' \in [Segs -> [Cells -> Cell]]
    BY <1>0, <1>6, <2>1, MarkedType DEF WhileFreeing
  <2>3. SurvivingType
    BY <1>0, <1>3, <1>6, <2>2 DEF WhileFreeing, SurvivingType, TypeOK
  <2> QED BY <1>0, <1>1, <1>2, <1>6, <2>3, EndInv, ListsAtEnd DEF WhileFreeing
<1>7. CASE WhileTaking
  <2>1. SegmentsPartitioned' /\ head' \in Segs /\ free' \in Seq(Segs)
    BY <1>0, <1>7, ListsWhileTaking
  <2>2. fill' \in [Segs -> 0 .. Cap]
    BY <1>0, <1>7 DEF WhileTaking, TypeOK
  <2>3. SurvivingType
    BY <1>0, <1>3, <1>7, <2>1, <2>2 DEF WhileTaking, SurvivingType, TypeOK, Cell
  <2> QED BY <1>0, <1>1, <1>2, <2>1, <2>3, EndInv DEF ListsSound
<1> QED BY <1>0, <1>4, <1>5, <1>6, <1>7

-----------------------------------------------------------------------------
(* The start.                                                              *)

(* The hash table that the log yields.                                     *)
LEMMA RebuiltType ==
    ASSUME TypeOK
    PROVE  Rebuilt \in [Ids -> Places \cup {Null}]
<1>1. Order \in Seq(Segs)
  <2>1. used \in Seq(Segs) /\ (head # None => <<head>> \in Seq(Segs)) /\ <<>> \in Seq(Segs)
    BY EmptySeq DEF TypeOK
  <2> QED BY <2>1, ConcatProperties DEF Order
<1>2. \A at \in LogEntries : <<Order[at[1]], at[2]>> \in Places
  <2>1. \A i \in DOMAIN Order : Order[i] \in Segs
    BY <1>1, ElementOfSeq, LenProperties
  <2> QED BY <2>1 DEF LogEntries, Places
<1>3. \A id \in Ids : Newest(id) \subseteq LogEntries
  BY DEF Newest, Found
<1>4. ASSUME NEW id \in Ids, Newest(id) # {}
      PROVE  LET at == CHOOSE a \in Newest(id) : TRUE IN <<Order[at[1]], at[2]>> \in Places
  <2> DEFINE at == CHOOSE a \in Newest(id) : TRUE
  <2>1. at \in Newest(id)
    BY <1>4
  <2> HIDE DEF at
  <2>2. <<Order[at[1]], at[2]>> \in Places
    BY <1>2, <1>3, <2>1
  <2> USE DEF at
  <2> QED BY <2>2
<1> QED BY <1>4 DEF Rebuilt

(* The threads of the last run had a segment each: there are threads       *)
(* enough.                                                                 *)
LEMMA EnoughThreads ==
    ASSUME TypeOK, ListsSound, OwnSegments
    PROVE  Len(cleaning) \in Nat /\ 1 .. Len(cleaning) \subseteq Cleaners
<1> DEFINE busy == {c \in Cleaners : cl[c].seg # None}
           seg == [c \in busy |-> cl[c].seg]
<1>1. cleaning \in Seq(Segs) /\ IsInjective(cleaning)
  BY DEF TypeOK, ListsSound, Sealed, ListsApart, SegmentsPartitioned
<1>2. /\ IsFiniteSet(ToSet(cleaning)) /\ Cardinality(ToSet(cleaning)) = Len(cleaning)
      /\ Len(cleaning) \in Nat
  BY <1>1, ListCount
<1>3. IsFiniteSet(Cleaners) /\ Cleaners = 1 .. Cardinality(Cleaners)
  BY RestartAssumption
<1>4. IsFiniteSet(busy) /\ Cardinality(busy) <= Cardinality(Cleaners)
  BY <1>3, FS_Subset
<1>5. seg \in Surjection(busy, ToSet(cleaning))
  BY DEF OwnSegments, Surjection
<1> HIDE DEF busy, seg
<1>6. Cardinality(ToSet(cleaning)) <= Cardinality(busy)
  BY <1>4, <1>5, FS_Surjection
<1>7. Cardinality(busy) \in Nat /\ Cardinality(Cleaners) \in Nat
  BY <1>3, <1>4, FS_CardinalityType
<1>8. Len(cleaning) <= Cardinality(Cleaners)
  BY <1>2, <1>4, <1>6, <1>7, SMT
<1> QED BY <1>2, <1>3, <1>7, <1>8, SMT

(* init_cleaner leaves every cleaner segment with exactly one thread.      *)
LEMMA DealtOnce ==
    ASSUME TypeOK, ListsSound, OwnSegments
    PROVE  /\ \A c \in Cleaners : Dealt(c) \in Segs \cup {None}
           /\ {Dealt(c) : c \in Cleaners} \ {None} = ToSet(cleaning)
           /\ \A c, d \in Cleaners : Dealt(c) = Dealt(d) /\ Dealt(c) # None => c = d
<1>1. /\ Len(cleaning) \in Nat /\ 1 .. Len(cleaning) \subseteq Cleaners
      /\ DOMAIN cleaning = 1 .. Len(cleaning)
      /\ \A i \in 1 .. Len(cleaning) : cleaning[i] \in Segs
      /\ \A i, j \in 1 .. Len(cleaning) : cleaning[i] = cleaning[j] => i = j
  <2>1. cleaning \in Seq(Segs) /\ IsInjective(cleaning)
    BY DEF TypeOK, ListsSound, Sealed, ListsApart, SegmentsPartitioned
  <2>2. DOMAIN cleaning = 1 .. Len(cleaning) /\ \A i \in 1 .. Len(cleaning) : cleaning[i] \in Segs
    BY <2>1, LenProperties, ElementOfSeq
  <2> QED BY <2>1, <2>2, EnoughThreads DEF IsInjective
<1>2. None \notin Segs
  BY ConstantFacts
<1>3. \A c \in Cleaners : /\ c \in 1 .. Len(cleaning) => Dealt(c) = cleaning[c]
                          /\ c \notin 1 .. Len(cleaning) => Dealt(c) = None
  <2>1. Cleaners = 1 .. Cardinality(Cleaners) /\ Cardinality(Cleaners) \in Nat
    BY RestartAssumption, FS_CardinalityType
  <2>2. \A c \in Cleaners : c \in 1 .. Len(cleaning) <=> c <= Len(cleaning)
    BY <1>1, <2>1, SMT
  <2> QED BY <2>2 DEF Dealt
<1>4. ToSet(cleaning) = {cleaning[i] : i \in 1 .. Len(cleaning)}
  BY <1>1 DEF ToSet
<1> QED BY <1>1, <1>2, <1>3, <1>4

(* Without cleaner segments nobody gets one.                               *)
LEMMA NoneDealt ==
    ASSUME RebuildEnds
    PROVE  \A c \in Cleaners : Dealt(c) = None
<1>1. Len(cleaning) = 0
  BY DEF RebuildEnds
<1>2. \A c \in Cleaners : c \in Nat /\ c >= 1
  BY RestartAssumption, FS_CardinalityType
<1> QED BY <1>1, <1>2, SMT DEF Dealt

LEMMA InitCleanerSound ==
    ASSUME RestartTypeOK, AtRest, ~Alive, ListsSound, OwnSegments, LeakNeedsStaleClaim, InitCleaner,
           hazards \subseteq hazards', UNCHANGED <<listVars, lockVars, app>>
    PROVE  /\ ThreadsSound' /\ HaveSegment'
           /\ cl' \in [Cleaners -> CleanerStates]
           /\ resume' \in [Cleaners -> [at : {"no", "wait", "walk"}, pos : 0 .. Cap, freed : Nat,
                                        regular : BOOLEAN]]
<1> USE DEF listVars, lockVars
<1>1. /\ cl' = [c \in Cleaners |-> Parked(Dealt(c))]
      /\ resume' = [c \in Cleaners |->
             IF Dealt(c) = None THEN NoResume
             ELSE [at |-> "wait", pos |-> 0, freed |-> 0, regular |-> regular]]
  BY DEF InitCleaner
<1>2. /\ \A c \in Cleaners : Dealt(c) \in Segs \cup {None}
      /\ {Dealt(c) : c \in Cleaners} \ {None} = ToSet(cleaning)
      /\ \A c, d \in Cleaners : Dealt(c) = Dealt(d) /\ Dealt(c) # None => c = d
  BY DealtOnce DEF RestartTypeOK
<1>3. \A c \in Cleaners :
         /\ cl'[c] \in CleanerStates /\ cl'[c].seg = Dealt(c)
         /\ cl'[c].cur = None /\ cl'[c].pc \in {"wait", "scan"}
         /\ Dealt(c) = None <=> cl'[c].pc = "wait"
  BY <1>1, <1>2, ParkedFacts
<1>4. app' = Idle /\ updateMove' = None /\ usedLock' = None /\ currCleaned' = {}
  BY DEF AtRest
<1>5. Shape'
  BY <1>3, <1>4, ConstantFacts DEF Shape, Idle
<1>6. OwnSegments'
  <2>1. {cl'[c].seg : c \in Cleaners} = {Dealt(c) : c \in Cleaners}
    BY <1>3
  <2> QED BY <1>2, <1>3, <2>1 DEF OwnSegments
<1>7. ClaimsExclusive' /\ LeakNeedsStaleClaim'
  BY <1>3, <1>4 DEF ClaimsExclusive, Cleans, LeakNeedsStaleClaim
<1>8. HaveSegment'
  BY <1>1, <1>2, <1>3 DEF HaveSegment, NoResume
<1>9. cl' \in [Cleaners -> CleanerStates]
  BY <1>1, <1>3
<1>10. resume' \in [Cleaners -> [at : {"no", "wait", "walk"}, pos : 0 .. Cap, freed : Nat,
                                 regular : BOOLEAN]]
  BY <1>1, ConstantFacts DEF NoResume, RestartTypeOK
<1> QED BY <1>5, <1>6, <1>7, <1>8, <1>9, <1>10 DEF ThreadsSound

LEMMA StartInv ==
    ASSUME RInv, Start
    PROVE  RInv'
<1> USE DEF vars, heapVars, listVars, lockVars, lifeVars
<1>0. /\ RestartTypeOK /\ TypeOK /\ ~Alive /\ AtRest /\ app = Idle
      /\ UNCHANGED <<listVars, lockVars, app>>
      /\ consistent' = (SegCount = NSeg)
  BY LifeFacts DEF RInv, Start, AtRest
<1>1. hazards \subseteq hazards' /\ hazards' \subseteq Hazards
  BY <1>0 DEF Start, RebuildHazards, Hazards, TypeOK
<1>2. hash' \in [Ids -> Places \cup {Null}]
  <2>1. file.pairs \in [Ids -> Places \cup {Null}] /\ hash \in [Ids -> Places \cup {Null}]
    BY <1>0 DEF RestartTypeOK, TypeOK
  <2> QED BY <1>0, <2>1, RebuiltType DEF Start
<1>3. \/ UNCHANGED <<cl, resume, stopped>>
      \/ InitCleaner
  BY DEF Start
<1>4. /\ ListsSound' /\ ThreadsSound' /\ HaveSegment'
      /\ cl' \in [Cleaners -> CleanerStates]
      /\ resume' \in [Cleaners -> [at : {"no", "wait", "walk"}, pos : 0 .. Cap, freed : Nat,
                                   regular : BOOLEAN]]
      /\ SegmentsPartitioned => SegmentsPartitioned'
  <2>1. /\ (SegmentsPartitioned' <=> SegmentsPartitioned) /\ (Sealed' <=> Sealed)
    BY <1>0 DEF SegmentsPartitioned, HeadSet, Sealed, ListsApart
  <2>2. CASE UNCHANGED <<cl, resume>>
    <3>1. ThreadsSound'
      BY <1>0, <1>1, <2>2, QuietStep DEF RInv
    <3> QED BY <1>0, <2>1, <2>2, <3>1 DEF RInv, ListsSound, HaveSegment, RestartTypeOK, TypeOK
  <2>3. CASE InitCleaner
    <3>1. LeakNeedsStaleClaim /\ OwnSegments
      BY DEF RInv, ThreadsSound
    <3> QED BY <1>0, <1>1, <2>1, <2>3, <3>1, InitCleanerSound DEF RInv, ListsSound
  <2> QED BY <1>3, <2>2, <2>3
<1>5. TypeOK'
  BY <1>0, <1>1, <1>2, <1>4 DEF Start, TypeOK
<1>6. RestartTypeOK'
  <2>1. starts' \in 0 .. MaxStarts
    BY <1>0, RestartAssumption, SMT DEF Start, RestartTypeOK
  <2>2. kept' \in [Ids -> Vals \cup {0}]
    BY <1>0 DEF Start, RestartTypeOK
  <2>3. stopped' \subseteq Cleaners
    BY <1>0, <1>3 DEF InitCleaner, RestartTypeOK
  <2> QED BY <1>0, <1>4, <1>5, <2>1, <2>2, <2>3 DEF Start, RestartTypeOK, Phases
<1>7. AcceptedPartition'
  BY <1>0, <1>4, SealedRejected DEF RInv, ListsSound, AcceptedPartition
<1>8. OnlyFrees' /\ AtRest'
  BY <1>0 DEF OnlyFrees, AtRest, Idle
<1> QED BY <1>4, <1>6, <1>7, <1>8 DEF RInv

(* What the creation of a thread does.                                     *)
LEMMA CreateFacts ==
    ASSUME NEW c \in Cleaners, CreateThread(c)
    PROVE  /\ phase = "opening" /\ consistent
           /\ UNCHANGED <<heapVars, listVars, lockVars, nextId, hash, app, cl, writes, phase,
                          regular, consistent, file, resume, kept, starts, crashes, faults,
                          displaced>>
           /\ \/ stopped' = stopped \ {c} /\ hazards' = hazards
              \/ stopped' = stopped /\ hazards' = hazards \cup {"misdealt"}
  BY DEF CreateThread, Meet

LEMMA CreateInv ==
    ASSUME RInv, NEW c \in Cleaners, CreateThread(c)
    PROVE  RInv'
<1> USE DEF vars, heapVars, listVars, lockVars, lifeVars
<1>1. /\ UNCHANGED <<listVars, lockVars, app, cl>> /\ hazards \subseteq hazards'
      /\ Alive /\ Alive' /\ consistent /\ consistent'
  BY CreateFacts DEF Alive
<1>2. ListsSound' /\ ThreadsSound' /\ SegmentsPartitioned'
  BY <1>1, QuietStep DEF RInv, AcceptedPartition
<1>3. TypeOK'
  BY CreateFacts DEF RInv, RestartTypeOK, TypeOK, Hazards
<1>4. RestartTypeOK'
  BY <1>3, CreateFacts DEF RInv, RestartTypeOK
<1> QED BY <1>1, <1>2, <1>4, CreateFacts DEF RInv, AcceptedPartition, OnlyFrees, AtRest, HaveSegment

-----------------------------------------------------------------------------
(* The theorems.                                                           *)

LEMMA RestartInitInv ==
    ASSUME RestartInit
    PROVE  RInv
<1>0. Init /\ Alive /\ consistent = TRUE
  BY DEF RestartInit, Alive
<1>1. TypeOK /\ SegmentsPartitioned /\ ThreadsSound
  BY <1>0, InitType, InitInv DEF ThreadsSound
<1>2. RestartTypeOK
  <2>1. Empty \in [Ids -> Places \cup {Null}]
    BY DEF Empty
  <2>2. NoResume \in [at : {"no", "wait", "walk"}, pos : 0 .. Cap, freed : Nat, regular : BOOLEAN]
    BY ConstantFacts DEF NoResume
  <2>3. 0 \in 0 .. MaxStarts /\ 0 \in 0 .. MaxCrashes
    BY RestartAssumption, SMT
  <2> QED BY <1>1, <2>1, <2>2, <2>3 DEF RestartInit, RestartTypeOK, Phases
<1>3. HaveSegment
  BY DEF RestartInit, HaveSegment, NoResume
<1> QED BY <1>0, <1>1, <1>2, <1>3 DEF RInv, ListsSound, AcceptedPartition, OnlyFrees, AtRest

LEMMA LifeStutter ==
    ASSUME RInv, UNCHANGED allVars
    PROVE  RInv'
<1> USE DEF allVars, vars, heapVars, listVars, lockVars, lifeVars
<1>1. ListsSound' /\ ThreadsSound' /\ (SegmentsPartitioned => SegmentsPartitioned')
  BY QuietStep DEF RInv
<1>2. RestartTypeOK'
  BY DEF RInv, RestartTypeOK, TypeOK
<1>3. Alive' <=> Alive
  BY DEF Alive
<1> QED BY <1>1, <1>2, <1>3 DEF RInv, AcceptedPartition, OnlyFrees, AtRest, HaveSegment

(* Every step keeps the invariant.                                       *)
LEMMA RInvNext ==
    ASSUME RInv, [RestartNext]_allVars
    PROVE  RInv'
  BY ClientRunsInv, ThreadRunsInv, ResumeInv, StopInv, CreateInv, ShutdownInv, EndCloseInv,
     CrashInv, StartInv, LifeStutter DEF RestartNext, ThreadNext

(* The invariant holds through any number of starts, shutdowns and crashes *)
(* at any point, for any number of segments, threads and objects.          *)
THEOREM RestartInductive == RestartSpec => []RInv
<1>1. RestartInit => RInv
  BY RestartInitInv
<1>2. RInv /\ [RestartNext]_allVars => RInv'
  BY RInvNext
<1> QED BY <1>1, <1>2, PTL DEF RestartSpec

(* Every variable keeps its type over restarts: in particular a thread     *)
(* that looks for its place in a segment never leaves it (cleaner.c:69-85),*)
(* and the rebuilt hash table points into the log (hash_table.c:27-117).   *)
THEOREM RestartTypeCorrect == RestartSpec => []RestartTypeOK
<1>1. RInv => RestartTypeOK
  BY DEF RInv
<1> QED BY <1>1, RestartInductive, PTL

(* Wherever the process died, a heap that check_consistency accepts has    *)
(* every segment in exactly one place (log.c:178-208, thesis.tex:409-415). *)
THEOREM AcceptedIsPartition == RestartSpec => []AcceptedPartition
<1>1. RInv => AcceptedPartition
  BY DEF RInv
<1> QED BY <1>1, RestartInductive, PTL

(* The cleaner segments of an accepted heap are exactly those its threads  *)
(* copy into, each thread one of its own, also when an earlier run left    *)
(* them behind: there are never more of them than threads, and the i-th    *)
(* one goes to the i-th thread (cleaner.c:4-25, thesis.tex:358), as long   *)
(* as none of the threads changes the list meanwhile (misdealt).           *)
THEOREM AcceptedAreOwned == RestartSpec => []AcceptedOwners
<1>1. RInv => AcceptedOwners
  BY DEF RInv, ThreadsSound, AcceptedOwners
<1> QED BY <1>1, RestartInductive, PTL

(* Even on a heap that is rejected, every list is in order, and no segment *)
(* is in two of them: what has gone wrong is the head alone (log.c:144-159)*)
(* so that reading and freeing objects goes on (thesis.tex:409-415).       *)
THEOREM ListsStayApart == RestartSpec => []ListsApart
<1>1. RInv => ListsApart
  BY DEF RInv, ListsSound, Sealed, SegmentsPartitioned, ListsApart
<1> QED BY <1>1, RestartInductive, PTL

-----------------------------------------------------------------------------
(* A set of numbers has a least one.                                       *)
LEMMA LeastNat ==
    ASSUME NEW S \in SUBSET Nat, S # {}
    PROVE  \E n \in S : \A m \in S : n <= m
<1> DEFINE R == OpToRel(<, Nat)
<1>1. IsWellFoundedOn(R, Nat)
  BY NatLessThanWellFounded
<1>2. \A n, m \in Nat : <<m, n>> \in R <=> m < n
  BY DEF OpToRel
<1> HIDE DEF R
<1>3. PICK n \in S : \A m \in S : ~(<<m, n>> \in R)
  BY <1>1, WFMin
<1>4. \A m \in S : ~(m < n)
  BY <1>2, <1>3
<1>5. \A m \in S : n <= m
  BY <1>4, SMT
<1> QED BY <1>5

(* A bounded one has a greatest one.                                       *)
LEMMA GreatestNat ==
    ASSUME NEW S \in SUBSET Nat, S # {}, NEW b \in Nat, \A n \in S : n <= b
    PROVE  \E n \in S : \A m \in S : m <= n
<1> DEFINE T == {b - n : n \in S}
<1>1. T \in SUBSET Nat /\ T # {}
  <2>1. \A n \in S : b - n \in Nat
    BY SMT
  <2> QED BY <2>1
<1>2. PICK t \in T : \A u \in T : t <= u
  <2> HIDE DEF T
  <2> QED BY <1>1, LeastNat
<1>3. PICK n \in S : t = b - n
  BY <1>2
<1>4. \A m \in S : b - n <= b - m
  BY <1>2, <1>3
<1>5. \A m \in S : m <= n
  BY <1>4, SMT
<1> QED BY <1>5

(* A walk meets every entry of a row: of the first one that it missed, the *)
(* entry before would lead to it.                                          *)
LEMMA WalkMeetsRow ==
    ASSUME NEW row, \A p \in Cells : row[p] \in Cell,
           NEW n \in 0 .. Cap, RowOf(row, n), NEW toBlank \in BOOLEAN,
           NEW S \in SUBSET Cells, Closed(S, row, toBlank),
           NEW q \in Cells, q < n, row[q] # Data
    PROVE  q \in S
<1> SUFFICES ASSUME q \notin S PROVE FALSE
  OBVIOUS
<1> DEFINE Missed == {p \in Cells : p < n /\ row[p] # Data /\ p \notin S}
<1>0. Cells \subseteq Nat /\ n \in Nat /\ Cap \in Nat
  BY ConstantFacts, SMT
<1>1. PICK m \in Missed : \A p \in Missed : m <= p
  <2>1. Missed \in SUBSET Nat /\ Missed # {}
    BY <1>0
  <2> HIDE DEF Missed
  <2> QED BY <2>1, LeastNat
<1>2. m \in Cells /\ m < n /\ row[m] # Data /\ m \notin S /\ m \in Nat
  BY <1>0, <1>1
<1>3. 0 \in Cells /\ 0 < m
  <2>1. 0 \in S
    BY DEF Closed
  <2> QED BY <1>2, <2>1, SMT
<1> DEFINE Before == {p \in Cells : p < m /\ row[p] # Data}
<1>4. PICK r \in Before : \A p \in Before : p <= r
  <2>1. row[0] # Data
    <3>1. 0 < n
      BY <1>0, <1>2, <1>3, SMT
    <3> QED BY <1>3, <3>1 DEF RowOf
  <2>2. Before \in SUBSET Nat /\ Before # {} /\ \A p \in Before : p <= m
    <3>1. \A p \in Cells : p < m => p <= m
      BY <1>0, <1>2, SMT
    <3> QED BY <1>0, <1>3, <2>1, <3>1
  <2> HIDE DEF Before
  <2> QED BY <1>2, <2>2, GreatestNat
<1>5. r \in Cells /\ r < m /\ row[r] # Data /\ r \in Nat /\ r < n
  BY <1>0, <1>2, <1>4, SMT
<1>6. r \in S
  <2>1. r \notin Missed
    BY <1>1, <1>2, <1>5, SMT
  <2> QED BY <1>5, <2>1
<1> DEFINE next == r + Size(row[r])
<1>7. /\ row[r].len > 0 /\ next \in Nat /\ next > r /\ next <= m
      /\ next < n => row[next] # Data
  <2>1. row[r].len > 0 /\ (next < n => row[next] # Data)
    BY <1>5 DEF RowOf
  <2>2. next <= m
    BY <1>2, <1>5, RowApart
  <2>3. Size(row[r]) \in Nat /\ Size(row[r]) >= 1
    BY <1>5, CellFacts
  <2> QED BY <1>5, <2>1, <2>2, <2>3, SMT
<1> HIDE DEF next
<1>8. next = m
  <2> SUFFICES ASSUME next < m PROVE FALSE
    BY <1>2, <1>7, SMT
  <2>1. next \in Cells /\ next < n
    BY <1>0, <1>2, <1>7, SMT DEF Cells
  <2>2. next \in Before
    BY <1>7, <2>1
  <2>3. next <= r
    BY <1>4, <2>2
  <2> QED BY <1>5, <1>7, <2>3, SMT
<1>9. next \in S
  <2>1. ~Stops(row[r], toBlank)
    BY <1>5, <1>7, CellFacts, SMT DEF Stops
  <2> QED BY <1>2, <1>5, <1>6, <1>8, <2>1 DEF Closed, next
<1> QED BY <1>2, <1>8, <1>9

-----------------------------------------------------------------------------
(* What a hash table has to satisfy to be the one of the log.              *)

(* The entries of a segment that a hash table h points to.               *)
Listed(h, s) == {p \in Cells : \E id \in Ids : h[id] = <<s, p>>}

(* An unmarked entry belongs to an object that h knows, and it is the    *)
(* one h points to or, of an object whose value the client changes, an   *)
(* older one.                                                            *)
FitsLog(h, s, p) ==
    LET e == content[s][p]
    IN  /\ e.id \in Ids /\ h[e.id] # Null
        /\ h[e.id] = <<s, p>> \/ (e.id \in Changing /\ e.ver < At(h[e.id]).ver)

(* A hash table fits the log: it points to unmarked entries of the right *)
(* objects, used_space counts at least these, no unmarked entry is newer *)
(* than what it points to, and ids not given out yet are free.           *)
Fits(h) ==
    /\ h \in [Ids -> Places \cup {Null}]
    /\ \A id \in Ids : h[id] # Null => SoundAt(h[id], id)
    /\ \A s \in Segs : InUse(s) => Cardinality(Area(content[s], Listed(h, s))) <= usedSpace[s]
    /\ \A s \in Segs, p \in Cells :
          InUse(s) /\ p < fill[s] /\ content[s][p] # Data /\ ~content[s][p].del => FitsLog(h, s, p)
    /\ \A id \in Ids \ WithIds : id >= nextId => h[id] = Null

(* The head is a segment of the log.                                     *)
HeadInUse == head # None => InUse(head)

(* reconstruct_hash_table visits segments of the log.                    *)
LEMMA OrderFacts ==
    ASSUME TypeOK
    PROVE  /\ Len(used) \in Nat
           /\ \A i \in DOMAIN Order :
                 /\ i \in Nat /\ Order[i] \in Segs
                 /\ i <= Len(used) => Order[i] = used[i] /\ used[i] \in ToSet(used)
                 /\ i > Len(used) => head # None /\ Order[i] = head
           /\ \A s \in Segs : s \in ToSet(used) \/ s = head => \E i \in DOMAIN Order : Order[i] = s
<1> DEFINE n == Len(used)
<1>1. /\ n \in Nat /\ used \in [1 .. n -> Segs] /\ used \in Seq(Segs)
      /\ head # None => head \in Segs /\ <<head>> \in Seq(Segs) /\ Len(<<head>>) = 1
      /\ head = None => <<>> \in Seq(Segs) /\ Len(<<>>) = 0
  BY LenProperties, EmptySeq DEF TypeOK
<1>2. CASE head = None
  <2>1. Order = used /\ DOMAIN Order = 1 .. n
    <3>1. Order = used \o <<>> /\ used \o <<>> = used
      BY <1>1, <1>2, ConcatEmptySeq DEF Order
    <3> QED BY <1>1, <3>1
  <2>2. \A i \in 1 .. n : i \in Nat /\ ~(i > n)
    BY <1>1, SMT
  <2>3. None \notin Segs
    BY ConstantFacts
  <2> QED BY <1>1, <1>2, <2>1, <2>2, <2>3 DEF ToSet
<1>3. CASE head # None
  <2>1. Order = used \o <<head>> /\ Len(Order) = n + 1 /\ DOMAIN Order = 1 .. n + 1
    BY <1>1, <1>3, ConcatProperties, LenProperties DEF Order
  <2>2. \A i \in 1 .. n + 1 : Order[i] = IF i <= n THEN used[i] ELSE <<head>>[i - n]
    BY <1>1, <1>3, <2>1, ConcatProperties
  <2>3. /\ \A i \in 1 .. n + 1 : i \in Nat /\ (i > n <=> i = n + 1) /\ (i <= n <=> i \in 1 .. n)
        /\ n + 1 \in 1 .. n + 1 /\ 1 .. n \subseteq 1 .. n + 1 /\ (n + 1) - n = 1
    BY <1>1, SMT
  <2>4. <<head>>[1] = head
    OBVIOUS
  <2>5. \A i \in 1 .. n + 1 : (i <= n => Order[i] = used[i]) /\ (i > n => Order[i] = head)
    <3>1. \A i \in 1 .. n + 1 : i > n => ~(i <= n) /\ i - n = 1
      BY <1>1, SMT
    <3> QED BY <2>2, <2>4, <3>1
  <2>6. \A s \in ToSet(used) : \E i \in 1 .. n + 1 : Order[i] = s
    BY <1>1, <2>3, <2>5 DEF ToSet
  <2>7. Order[n + 1] = head
    BY <2>3, <2>5
  <2>8. \A i \in 1 .. n : used[i] \in Segs /\ used[i] \in ToSet(used)
    <3>1. DOMAIN used = 1 .. n
      BY <1>1
    <3> QED BY <1>1, <3>1 DEF ToSet
  <2>9. ASSUME NEW i \in DOMAIN Order
        PROVE  /\ i \in Nat /\ Order[i] \in Segs
               /\ i <= n => Order[i] = used[i] /\ used[i] \in ToSet(used)
               /\ i > n => Order[i] = head
    <3>1. i \in 1 .. n + 1 /\ i \in Nat
      BY <2>1, <2>3
    <3>2. CASE i <= n
      <4>1. i \in 1 .. n /\ ~(i > n)
        BY <1>1, <3>1, <3>2, SMT
      <4> QED BY <2>5, <2>8, <3>1, <3>2, <4>1
    <3>3. CASE i > n
      <4>1. ~(i <= n)
        BY <1>1, <3>1, <3>3, SMT
      <4> QED BY <1>1, <1>3, <2>5, <3>1, <3>3, <4>1
    <3>4. i <= n \/ i > n
      BY <1>1, <3>1, SMT
    <3> QED BY <3>2, <3>3, <3>4
  <2>10. ASSUME NEW s \in Segs, s \in ToSet(used) \/ s = head
         PROVE  \E i \in DOMAIN Order : Order[i] = s
    BY <2>1, <2>3, <2>6, <2>7, <2>10
  <2> QED BY <1>1, <1>3, <2>9, <2>10
<1> QED BY <1>2, <1>3

(* What reconstruct_hash_table reads at an entry of a segment in use.      *)
LEMMA EntryRead ==
    ASSUME TypeOK, Rows, NEW s \in Segs, InUse(s), s \in ToSet(used) \/ s = head,
           NEW p \in Cells, p < fill[s], content[s][p] # Data
    PROVE  \E i \in DOMAIN Order : Order[i] = s /\ <<i, p>> \in LogEntries
<1>1. PICK i \in DOMAIN Order : Order[i] = s
  BY OrderFacts
<1>2. /\ RowOf(content[s], fill[s]) /\ fill[s] \in 0 .. Cap /\ fill[s] \in Nat
      /\ \A q \in Cells : content[s][q] \in Cell
  BY RowTypes DEF Rows, Row
<1>3. content[s][p].len > 0 /\ p < Cap - 1 /\ \A b \in BOOLEAN : ~Stops(content[s][p], b)
  <2>1. content[s][p].len > 0 /\ p + Size(content[s][p]) <= fill[s]
    BY <1>2 DEF RowOf
  <2>2. content[s][p].len \in Nat /\ Size(content[s][p]) = 1 + content[s][p].len
    BY <1>2, CellFacts
  <2> QED BY <1>2, <2>1, <2>2, ConstantFacts, SMT DEF Stops
<1>4. \A b \in BOOLEAN, S \in SUBSET Cells : Closed(S, content[s], b) => p \in S
  BY <1>2, WalkMeetsRow
<1>5. p \in WalkIn(i)
  <2>1. \A b \in BOOLEAN, end \in {fill[s], Cap - 1} : p \in Met(s, end, b)
    BY <1>3, <1>4 DEF Met
  <2>2. i > Len(used) => s = head
    BY <1>1, OrderFacts
  <2>3. ~(i > Len(used)) => s = used[i]
    <3>1. i \in Nat /\ Len(used) \in Nat /\ (i <= Len(used) => Order[i] = used[i])
      BY OrderFacts
    <3> QED BY <1>1, <3>1, SMT
  <2> QED BY <2>1, <2>2, <2>3 DEF WalkIn
<1> QED BY <1>1, <1>5 DEF LogEntries

(* One of two entries is the newer, or the earlier of equal versions.      *)
Better(x, y) ==
    \/ Read(y).ver < Read(x).ver
    \/ /\ Read(y).ver = Read(x).ver
       /\ x[1] < y[1] \/ (x[1] = y[1] /\ x[2] < y[2])

(* Of the unmarked entries of an object, if there are any, one is newest.  *)
LEMMA NewestExists ==
    ASSUME TypeOK, NEW id, Found(id) # {}, \A at \in LogEntries : Read(at).ver \in Nat
    PROVE  Newest(id) # {}
<1> DEFINE F == Found(id)
           B(x) == {y \in F : Better(y, x)}
<1>1. \A x \in F : /\ x \in (DOMAIN Order) \X Cells /\ x = <<x[1], x[2]>>
                   /\ x[1] \in Nat /\ x[2] \in Nat /\ Read(x).ver \in Nat
  <2>1. F \subseteq LogEntries /\ LogEntries \subseteq (DOMAIN Order) \X Cells
    BY DEF Found, LogEntries
  <2>2. Cells \subseteq Nat /\ DOMAIN Order \subseteq Nat
    BY ConstantFacts, OrderFacts, SMT DEF Cells
  <2> QED BY <2>1, <2>2
<1>2. IsFiniteSet(F)
  <2>1. Order \in Seq(Segs)
    <3>1. used \in Seq(Segs) /\ (head # None => <<head>> \in Seq(Segs)) /\ <<>> \in Seq(Segs)
      BY EmptySeq DEF TypeOK
    <3> QED BY <3>1, ConcatProperties DEF Order
  <2>2. Len(Order) \in Nat /\ DOMAIN Order = 1 .. Len(Order)
    BY <2>1, LenProperties
  <2>3. IsFiniteSet(DOMAIN Order) /\ IsFiniteSet(Cells)
    <3>1. Cap \in Nat
      BY ConstantFacts
    <3> QED BY <2>2, <3>1, FS_Interval, SMT DEF Cells
  <2>4. IsFiniteSet((DOMAIN Order) \X Cells)
    BY <2>3, FS_Product
  <2>5. F \subseteq (DOMAIN Order) \X Cells
    BY <1>1
  <2> HIDE DEF F
  <2> QED BY <2>4, <2>5, FS_Subset
<1>3. \A x \in F : IsFiniteSet(B(x)) /\ Cardinality(B(x)) \in Nat
  <2>1. \A x \in F : B(x) \subseteq F
    OBVIOUS
  <2> HIDE DEF F
  <2> QED BY <1>2, <2>1, FS_Subset, FS_CardinalityType
<1>4. PICK x \in F : \A y \in F : Cardinality(B(x)) <= Cardinality(B(y))
  <2> DEFINE Sizes == {Cardinality(B(y)) : y \in F}
  <2>1. Sizes \in SUBSET Nat /\ Sizes # {}
    BY <1>3
  <2>2. PICK n \in Sizes : \A m \in Sizes : n <= m
    <3> HIDE DEF Sizes
    <3> QED BY <2>1, LeastNat
  <2> QED BY <2>2
<1>5. B(x) = {}
  <2> SUFFICES ASSUME NEW y \in B(x) PROVE FALSE
    OBVIOUS
  <2>1. y \in F /\ Better(y, x) /\ x \in F
    OBVIOUS
  <2>2. B(y) \subseteq B(x) /\ y \notin B(y)
    <3>1. y \notin B(y)
      BY <1>1, <2>1, SMT DEF Better
    <3>2. \A z \in F : Better(z, y) => Better(z, x)
      <4> SUFFICES ASSUME NEW z \in F, Better(z, y) PROVE Better(z, x)
        OBVIOUS
      <4>1. /\ Read(x).ver \in Nat /\ Read(y).ver \in Nat /\ Read(z).ver \in Nat
            /\ x[1] \in Nat /\ y[1] \in Nat /\ z[1] \in Nat
            /\ x[2] \in Nat /\ y[2] \in Nat /\ z[2] \in Nat
        BY <1>1, <2>1
      <4> QED BY <2>1, <4>1, SMT DEF Better
    <3> QED BY <3>1, <3>2
  <2>3. B(y) # B(x) /\ IsFiniteSet(B(x))
    BY <1>3, <2>2
  <2> HIDE DEF B
  <2>4. Cardinality(B(y)) < Cardinality(B(x))
    BY <2>2, <2>3, FS_Subset, <1>3, <2>1, SMT
  <2> QED BY <1>3, <1>4, <2>1, <2>4, SMT
<1>6. x \in Newest(id)
  <2> SUFFICES ASSUME NEW other \in F \ {x} PROVE Better(x, other)
    BY DEF Newest, Better
  <2>1. ~Better(other, x)
    BY <1>5
  <2>2. other # x /\ other = <<other[1], other[2]>> /\ x = <<x[1], x[2]>>
    BY <1>1
  <2>3. /\ Read(x).ver \in Nat /\ Read(other).ver \in Nat
        /\ x[1] \in Nat /\ other[1] \in Nat /\ x[2] \in Nat /\ other[2] \in Nat
        /\ x[1] # other[1] \/ x[2] # other[2]
    BY <1>1, <2>2
  <2> QED BY <2>1, <2>3, SMT DEF Better
<1> QED BY <1>6

(* Without cleaner segments, the hash table that the log yields is the one *)
(* that fits it.                                                           *)
LEMMA RebuiltFits ==
    ASSUME TypeOK, Rows, HeadInUse, ListsSound, app.pc = "idle", cleaning = <<>>,
           NEW h, Fits(h), RebuildHazards = {}
    PROVE  Rebuilt = h
<1>1. \A s \in Segs : InUse(s) => s \in ToSet(used) \/ s = head
  <2>1. ToSet(cleaning) = {}
    BY DEF ToSet
  <2>2. HeadSet \subseteq {head}
    BY DEF HeadSet
  <2> QED BY <2>1, <2>2 DEF ListsSound, SegmentsPartitioned, Sealed, InUse
<1>2. \A i \in DOMAIN Order : Order[i] \in Segs /\ InUse(Order[i])
  <2> SUFFICES ASSUME NEW i \in DOMAIN Order PROVE Order[i] \in Segs /\ InUse(Order[i])
    OBVIOUS
  <2>1. /\ i \in Nat /\ Len(used) \in Nat /\ Order[i] \in Segs
        /\ i <= Len(used) => Order[i] \in ToSet(used)
        /\ i > Len(used) => head # None /\ Order[i] = head
    BY OrderFacts
  <2>2. i <= Len(used) \/ i > Len(used)
    BY <2>1, SMT
  <2>3. ToSet(used) \cap (ToSet(free) \cup ToSet(emergency)) = {}
    BY DEF ListsSound, SegmentsPartitioned, Sealed, ListsApart
  <2>4. Order[i] \in ToSet(used) \/ (head # None /\ Order[i] = head)
    BY <2>1, <2>2
  <2> QED BY <2>1, <2>3, <2>4 DEF HeadInUse, InUse
<1>3. \A at \in LogEntries : /\ at[1] \in DOMAIN Order /\ at[2] \in Cells /\ at = <<at[1], at[2]>>
                             /\ Read(at) = content[Order[at[1]]][at[2]]
                             /\ Read(at) # Data /\ Read(at) \in Entry
  <2>1. \A at \in LogEntries : Read(at) # Data
    <3>1. "garbage" \notin RebuildHazards
      OBVIOUS
    <3> QED BY <3>1 DEF RebuildHazards
  <2>2. \A at \in LogEntries : at[1] \in DOMAIN Order /\ at[2] \in Cells /\ at = <<at[1], at[2]>>
    BY DEF LogEntries
  <2>3. \A at \in LogEntries : Read(at) \in Cell
    BY <1>2, <2>2, RowTypes DEF Read
  <2> QED BY <2>1, <2>2, <2>3 DEF Cell, Read
<1>4. h \in [Ids -> Places \cup {Null}] /\ Rebuilt \in [Ids -> Places \cup {Null}]
  BY RebuiltType DEF Fits
<1>5. ASSUME NEW id \in Ids, h[id] # Null
      PROVE  \E at \in Found(id) : /\ h[id] = <<Order[at[1]], at[2]>>
                                   /\ Read(at) = At(h[id])
  <2>1. PICK t \in Segs, q \in Cells : h[id] = <<t, q>>
    BY <1>4, <1>5 DEF Places
  <2>2. SoundAt(h[id], id)
    BY <1>5 DEF Fits
  <2>3. /\ InUse(t) /\ q < fill[t] /\ content[t][q] # Data /\ content[t][q].id = id
        /\ ~content[t][q].del /\ At(h[id]) = content[t][q]
    BY <2>1, <2>2 DEF SoundAt, At
  <2>4. PICK i \in DOMAIN Order : Order[i] = t /\ <<i, q>> \in LogEntries
    BY <1>1, <2>3, EntryRead
  <2>5. Read(<<i, q>>) = content[t][q]
    BY <2>4 DEF Read
  <2>6. <<i, q>> \in Found(id)
    BY <2>3, <2>4, <2>5 DEF Found
  <2> QED BY <2>1, <2>3, <2>4, <2>5, <2>6
<1>6. ASSUME NEW id \in Ids, Newest(id) # {}
      PROVE  Rebuilt[id] = h[id]
  <2>1. PICK at \in Newest(id) : Rebuilt[id] = <<Order[at[1]], at[2]>>
    BY <1>6 DEF Rebuilt
  <2>2. at \in Found(id) /\ at \in LogEntries /\ ~Read(at).del /\ Read(at).id = id
    BY DEF Newest, Found
  <2> DEFINE s == Order[at[1]]
             p == at[2]
  <2>3. /\ s \in Segs /\ InUse(s) /\ p \in Cells /\ Read(at) = content[s][p]
        /\ content[s][p] # Data /\ content[s][p] \in Entry
    BY <1>2, <1>3, <2>2
  <2>4. p < fill[s]
    <3>1. fill[s] \in Nat /\ p \in Nat
      <4>1. Cells \subseteq Nat
        BY ConstantFacts, SMT
      <4> QED BY <2>3, <4>1, RowTypes
    <3>2. ~(Rebuilt[id][2] >= fill[Rebuilt[id][1]])
      <4>1. "staleTail" \notin RebuildHazards
        OBVIOUS
      <4> QED BY <2>1, <4>1, PlaceFacts DEF RebuildHazards
    <3>3. ~(p >= fill[s])
      BY <2>1, <3>2
    <3> HIDE DEF s, p
    <3> QED BY <3>1, <3>3, SMT
  <2>5. FitsLog(h, s, p)
    BY <2>2, <2>3, <2>4 DEF Fits
  <2>6. h[id] # Null /\ (h[id] = <<s, p>> \/ Read(at).ver < At(h[id]).ver)
    BY <2>2, <2>3, <2>5 DEF FitsLog
  <2>7. CASE Read(at).ver < At(h[id]).ver
    <3>1. PICK other \in Found(id) : Read(other) = At(h[id])
      BY <1>5, <2>6
    <3>2. other \in LogEntries
      BY DEF Found
    <3>3. Read(at).ver \in Nat /\ Read(other).ver \in Nat /\ Read(at).ver < Read(other).ver
      BY <1>3, <2>2, <2>7, <3>1, <3>2 DEF Entry
    <3>4. other # at
      BY <3>3, SMT
    <3>5. Read(other).ver < Read(at).ver \/ Read(other).ver = Read(at).ver
      BY <3>4 DEF Newest
    <3> QED BY <3>3, <3>5, SMT
  <2> QED BY <2>1, <2>6, <2>7
<1>7. ASSUME NEW id \in Ids, Newest(id) = {}
      PROVE  Rebuilt[id] = h[id]
  <2>1. Rebuilt[id] = Null
    BY <1>7 DEF Rebuilt
  <2>2. \A at \in LogEntries : Read(at).ver \in Nat
    BY <1>3 DEF Entry
  <2>3. Found(id) = {}
    BY <1>7, <2>2, NewestExists
  <2> QED BY <1>5, <2>1, <2>3
<1> QED BY <1>4, <1>6, <1>7

-----------------------------------------------------------------------------
(* Versions count from 1, and only the objects that the client changes get *)
(* a second one.                                                           *)
Stamp(e) == e.id \in Ids /\ e.ver >= 1 /\ (e.ver > 1 => e.id \in Changing)
Logged(s, p) == InUse(s) /\ p < fill[s] /\ content[s][p] # Data
Stamped ==
    /\ \A s \in Segs, p \in Cells : Logged(s, p) => Stamp(content[s][p])
    /\ Writing => Stamp(app.entry)

(* The version that update_data writes is newer than the one it replaces.  *)
Outranks ==
    Writing /\ app.locked =>
        /\ hash[app.id] # Null
        /\ hash[app.id] = app.place \/ At(hash[app.id]).ver < app.entry.ver

(* pfree changes nothing of an entry but the mark.                       *)
LEMMA MarkedSame ==
    ASSUME TypeOK, NEW place \in Places, content' = Marked(place), NEW s \in Segs, NEW p \in Cells
    PROVE  /\ content'[s][p].id = content[s][p].id /\ content'[s][p].ver = content[s][p].ver
           /\ content'[s][p].val = content[s][p].val
           /\ content'[s][p] # Data => content[s][p] # Data
<1>1. place[1] \in Segs /\ place[2] \in Cells /\ content \in [Segs -> [Cells -> Cell]]
  BY DEF Places, TypeOK, Cell
<1>2. content[s][p] = Data \/ content[s][p] \in Entry
  BY <1>1 DEF Cell
<1>3. \A e \in Entry : LET m == [e EXCEPT !.del = TRUE]
                       IN  m.id = e.id /\ m.ver = e.ver /\ m.val = e.val
  BY DEF Entry
<1>4. content'[s][p] = IF s = place[1] /\ p = place[2]
                       THEN IF content[s][p] = Data THEN Data
                            ELSE [content[s][p] EXCEPT !.del = TRUE]
                       ELSE content[s][p]
  BY <1>1 DEF Marked
<1> QED BY <1>2, <1>3, <1>4

(* A segment that is in use after the step and was not before is empty.    *)
LEMMA ThreadFrame ==
    ASSUME IInv, hazards = {}, hazards' = {}, NEW c \in Cleaners, CleanerStep(c), ~Copy(c)
    PROVE  /\ UNCHANGED <<content, app, hash>>
           /\ \A s \in Segs : InUse(s)' => (InUse(s) /\ fill'[s] = fill[s]) \/ fill'[s] = 0
<1> USE DEF heapVars, listVars, lockVars
<1>0. TypeOK
  BY DEF IInv
<1>1. CASE StartCleaning(c) \/ BeginScan(c) \/ Skip(c) \/ Claim(c) \/ Finish(c)
  BY <1>1 DEF StartCleaning, BeginScan, Skip, Claim, Finish, InUse
<1>2. CASE EndWalk(c) \/ Drop(c) \/ FindFull(c) \/ Retire(c) \/ Advance(c)
  BY <1>2 DEF EndWalk, Drop, FindFull, Retire, Advance, InUse
<1>3. CASE GetFirstSegment(c) \/ Refill(c)
  <2>1. PICK s \in Segs : GetSegment(c, s)
    BY <1>3 DEF GetFirstSegment, Refill
  <2>2. /\ \A t \in Segs \ {s} : InUse(t)' <=> InUse(t)
        /\ fill' = [fill EXCEPT ![s] = 0] /\ UNCHANGED <<content, hash, app>>
    BY <2>1, ObtainFacts
  <2> QED BY <1>0, <2>2 DEF TypeOK
<1>4. CASE Reclaim(c)
  <2>1. UNCHANGED <<content, fill, app, hash>>
    BY <1>4 DEF Reclaim
  <2>2. PICK t \in Segs : t = cl[c].cur
    BY <1>4, ReclaimFacts
  <2>3. ~(InUse(t)') /\ \A s \in Segs \ {t} : InUse(s)' <=> InUse(s)
    BY <1>4, <2>2, ReclaimFacts
  <2> QED BY <2>1, <2>3
<1>5. CASE Misread(c)
  BY <1>5 DEF Misread, Meet
<1>6. CASE ReclaimNothing(c)
  BY <1>6, CurUsed DEF ReclaimNothing, CleanerAt, Cleans
<1> QED BY <1>1, <1>2, <1>3, <1>4, <1>5, <1>6 DEF CleanerStep

(* A call frees, creates or replaces an object.                          *)
LEMMA NewCallKinds ==
    ASSUME NewCall
    PROVE  \/ \E id \in FreeIds : BeginFree(id)
           \/ \E len \in Lens, id \in Ids : Call(id, NewEntry(id, 1, len), FALSE) /\ AppAt("idle")
                                            /\ UNCHANGED <<heapVars, free, emergency, hash, cl>>
           \/ \E len \in Lens, id \in Changing : BeginUpdate(id, len)
<1>1. ASSUME NEW len \in Lens, BeginPalloc(len)
      PROVE  \E id \in Ids : Call(id, NewEntry(id, 1, len), FALSE) /\ AppAt("idle")
                             /\ UNCHANGED <<heapVars, free, emergency, hash, cl>>
  <2>1. GenId \subseteq Ids
    BY DEF GenId, FreshIds
  <2> QED BY <1>1, <2>1 DEF BeginPalloc, listVars
<1>2. ASSUME NEW len \in Lens, NEW id \in WithIds, BeginPallocWithId(id, len)
      PROVE  id \in Ids /\ Call(id, NewEntry(id, 1, len), FALSE) /\ AppAt("idle")
             /\ UNCHANGED <<heapVars, free, emergency, hash, cl>>
  BY <1>2, ClientAssumption DEF BeginPallocWithId, listVars
<1> QED BY <1>1, <1>2 DEF NewCall, Changing

(* Where the entries of the log come from: a step keeps, marks or copies   *)
(* them, or writes the one of the call.                                    *)
LEMMA EntriesFrom ==
    ASSUME IInv, Rows, AppEntry, HInv, NInv, hazards = {}, hazards' = {}, Next,
           NEW s \in Segs, NEW p \in Cells, Logged(s, p)'
    PROVE  \/ \E t \in Segs, q \in Cells :
                 /\ Logged(t, q)
                 /\ content'[s][p].id = content[t][q].id /\ content'[s][p].ver = content[t][q].ver
           \/ Writing /\ content'[s][p] = app.entry
<1> USE DEF heapVars, listVars, lockVars
<1>0. TypeOK /\ app \in AppStates /\ p \in Nat /\ ~(p < 0)
  <2>1. Cells \subseteq Nat
    BY ConstantFacts
  <2>2. p \in Nat /\ ~(p < 0)
    BY <2>1, SMT
  <2> QED BY <2>2 DEF IInv, TypeOK
<1>1. CASE \E id \in FreeIds : BeginFree(id)
  <2>1. PICK id \in FreeIds : BeginFree(id)
    BY <1>1
  <2>2. id \in Ids /\ hash[id] # Null /\ content' = Marked(hash[id]) /\ UNCHANGED <<fill, free, emergency>>
    BY <2>1, ClientAssumption DEF BeginFree
  <2>3. hash[id] \in Places
    BY <1>0, <2>2, HashPlace
  <2>4. Logged(s, p)
    BY <1>0, <2>2, <2>3, MarkedSame DEF Logged, InUse
  <2> QED BY <1>0, <2>2, <2>3, <2>4, MarkedSame
<1>2. CASE (NewCall /\ ~ \E id \in FreeIds : BeginFree(id)) \/ OutOfMemory \/ Publish \/ Unmap
  <2>1. UNCHANGED <<content, fill, free, emergency>>
    <3>1. CASE NewCall /\ ~ \E id \in FreeIds : BeginFree(id)
      BY <3>1, NewCallKinds DEF BeginUpdate
    <3>2. CASE OutOfMemory \/ Publish \/ Unmap
      BY <3>2 DEF OutOfMemory, Publish, Unmap
    <3> QED BY <1>2, <3>1, <3>2
  <2> QED BY <2>1 DEF Logged, InUse
<1>3. CASE WriteEntry
  <2>1. /\ head \in Segs /\ HasRoom(head, app.entry) /\ app.entry \in Entry
        /\ content' = Written(head, fill[head], app.entry)
        /\ fill' = [fill EXCEPT ![head] = @ + Size(app.entry)] /\ UNCHANGED <<free, emergency>>
        /\ Writing
    BY <1>0, <1>3 DEF WriteEntry, AppStates, TypeOK, AppAt, Writing
  <2>2. PICK t \in Segs : t = head
    BY <2>1
  <2>3. \/ s = t /\ p = fill[t] /\ content'[s][p] = app.entry
        \/ p < fill[s] /\ content'[s][p] = content[s][p]
    BY <1>0, <2>1, <2>2, CellAdded DEF Logged
  <2>4. InUse(s)
    BY <2>1 DEF Logged, InUse
  <2> QED BY <2>1, <2>3, <2>4 DEF Logged
<1>4. CASE SealHead
  <2>1. head \in Segs /\ content' = Terminated(head) /\ UNCHANGED <<fill, free, emergency>>
    BY <1>0, <1>4 DEF SealHead, TypeOK
  <2>2. Whole
    BY <1>0, <2>1, TerminatedCells
  <2> QED BY <2>1, <2>2 DEF Logged, InUse, Whole
<1>5. CASE TakeHead
  <2>1. PICK t \in Segs : /\ t \in ToSet(free) /\ ToSet(free') = ToSet(free) \ {t}
                          /\ UNCHANGED <<emergency, content>> /\ fill' = [fill EXCEPT ![t] = 0]
    <3>1. Head(free) \in Segs /\ Head(free) \in ToSet(free) /\ ToSet(free') = ToSet(free) \ {Head(free)}
      BY <1>0, <1>5, TailProps DEF TakeHead, TypeOK, IInv, SegmentsPartitioned
    <3> QED BY <1>5, <3>1 DEF TakeHead
  <2>2. s # t /\ fill'[s] = fill[s]
    BY <1>0, <2>1 DEF TypeOK, Logged
  <2>3. InUse(s)
    BY <2>1, <2>2 DEF InUse, Logged
  <2> QED BY <2>1, <2>2, <2>3 DEF Logged
<1>6. ASSUME NEW c \in Cleaners, Copy(c)
      PROVE  \E t \in Segs, q \in Cells :
                 /\ Logged(t, q)
                 /\ content'[s][p].id = content[t][q].id /\ content'[s][p].ver = content[t][q].ver
  <2>1. /\ Visited(c) \in Entry /\ cl[c].cur \in Segs /\ cl[c].seg \in Segs /\ cl[c].pos \in Cells
    BY <1>6, CopyFacts
  <2>2. Logged(cl[c].cur, cl[c].pos) /\ Visited(c) = content[cl[c].cur][cl[c].pos]
    BY <1>6, CopiedCurrent DEF Valid, Logged, Visited
  <2>3. /\ HasRoom(cl[c].seg, Visited(c)) /\ content' = Written(cl[c].seg, fill[cl[c].seg], Visited(c))
        /\ fill' = [fill EXCEPT ![cl[c].seg] = @ + Size(Visited(c))] /\ UNCHANGED <<free, emergency>>
    BY <1>6 DEF Copy
  <2>4. PICK t \in Segs, e \in Entry : t = cl[c].seg /\ e = Visited(c)
    BY <2>1
  <2>5. \/ s = t /\ p = fill[t] /\ content'[s][p] = e
        \/ p < fill[s] /\ content'[s][p] = content[s][p]
    BY <1>0, <2>3, <2>4, CellAdded, SMTT(20), ZenonT(20) DEF Logged
  <2>6. InUse(s)
    BY <2>3 DEF Logged, InUse
  <2>7. CASE p < fill[s] /\ content'[s][p] = content[s][p]
    BY <2>6, <2>7 DEF Logged
  <2>8. CASE content'[s][p] = e
    BY <2>1, <2>2, <2>4, <2>8
  <2> QED BY <2>5, <2>7, <2>8
<1>7. ASSUME NEW c \in Cleaners, CleanerStep(c), ~Copy(c) PROVE Logged(s, p) /\ content' = content
  BY <1>0, <1>7, ThreadFrame DEF Logged
<1> QED BY <1>1, <1>2, <1>3, <1>4, <1>5, <1>6, <1>7 DEF Next, CallStep

(* A cleaner leaves the client's call alone.                             *)
LEMMA AppFrame ==
    ASSUME NEW c \in Cleaners, CleanerStep(c)
    PROVE  UNCHANGED app
  BY DEF CleanerStep, StartCleaning, GetFirstSegment, GetSegment, BeginScan, Claim, Skip,
         EndWalk, Misread, Drop, Copy, FindFull, Retire, Refill, Advance, Reclaim,
         ReclaimNothing, Finish

(* Versions of what is not changed stay 1, and a version is never below  *)
(* 1.                                                                    *)
LEMMA StampedNext ==
    ASSUME IInv, Rows, AppEntry, HInv, NInv, Stamped, hazards = {}, hazards' = {}, Next
    PROVE  Stamped'
<1>1. ASSUME NEW s \in Segs, NEW p \in Cells, Logged(s, p)' PROVE Stamp(content[s][p])'
  <2>1. CASE Writing /\ content'[s][p] = app.entry
    BY <2>1 DEF Stamped, Stamp
  <2>2. CASE \E t \in Segs, q \in Cells :
                 /\ Logged(t, q)
                 /\ content'[s][p].id = content[t][q].id /\ content'[s][p].ver = content[t][q].ver
    BY <2>2 DEF Stamped, Stamp
  <2> QED BY <1>1, <2>1, <2>2, EntriesFrom
<1>2. Writing' => Stamp(app.entry)'
  <2> SUFFICES ASSUME Writing' PROVE Stamp(app'.entry)
    BY DEF Stamp
  <2>1. CASE NewCall
    <3>1. ASSUME NEW id \in FreeIds, BeginFree(id) PROVE FALSE
      BY <3>1 DEF BeginFree, Idle, Writing
    <3>2. ASSUME NEW len \in Lens, NEW id \in Ids, Call(id, NewEntry(id, 1, len), FALSE)
          PROVE  Stamp(app'.entry)
      <4>1. app'.entry.id = id /\ app'.entry.ver = 1
        BY <3>2 DEF Call, NewEntry
      <4> QED BY <4>1, SMT DEF Stamp
    <3>3. ASSUME NEW len \in Lens, NEW id \in Changing, BeginUpdate(id, len)
          PROVE  Stamp(app'.entry)
      <4>1. id \in Ids \ InFlight /\ hash[id] # Null
        <5>1. Changing \subseteq Ids
          BY ClientAssumption DEF Changing
        <5>2. InFlight = {}
          BY <3>3, IdleFacts DEF BeginUpdate
        <5> QED BY <3>3, <5>1, <5>2 DEF BeginUpdate
      <4>2. PICK e \in Entry : e = At(hash[id]) /\ e.id = id
        BY <4>1, CurrentCell
      <4>3. e.ver \in Nat /\ app'.entry = Successor(e, len)
        <5>1. e.ver \in Nat
          BY DEF Entry
        <5>2. Call(id, Successor(e, len), TRUE)
          BY <3>3, <4>2 DEF BeginUpdate
        <5> QED BY <5>1, <5>2 DEF Call
      <4>4. Successor(e, len).id = id /\ Successor(e, len).ver = e.ver + 1
        BY <4>2 DEF Successor, Entry
      <4>5. e.ver + 1 >= 1
        BY <4>3, SMT
      <4>6. PICK f : f = Successor(e, len)
        OBVIOUS
      <4>7. f.id = id /\ f.ver >= 1 /\ id \in Ids
        BY <4>1, <4>4, <4>5, <4>6
      <4> QED BY <4>3, <4>6, <4>7 DEF Stamp
    <3> QED BY <2>1, <3>1, <3>2, <3>3, NewCallKinds
  <2>2. CASE CallStep
    <3>1. app'.entry = app.entry /\ Writing
      <4>1. app \in AppStates
        BY DEF IInv, TypeOK
      <4>2. CASE WriteEntry \/ SealHead \/ TakeHead
        BY <4>1, <4>2 DEF WriteEntry, SealHead, TakeHead, Writing, AppStates, AppAt, NeedsHead
      <4>3. ~OutOfMemory /\ ~Publish /\ ~Unmap
        BY DEF OutOfMemory, Publish, Unmap, Idle, Writing
      <4> QED BY <2>2, <4>2, <4>3 DEF CallStep
    <3> QED BY <3>1 DEF Stamped
  <2>3. ASSUME NEW c \in Cleaners, CleanerStep(c) PROVE Stamp(app'.entry)
    BY <2>3, AppFrame DEF Stamped, Writing
  <2> QED BY <2>1, <2>2, <2>3 DEF Next
<1> QED BY <1>1, <1>2 DEF Stamped

(* The head is rewritten, and a terminator cut, but nothing grows newer.   *)
LEMMA OutranksNext ==
    ASSUME IInv, Rows, AppEntry, HInv, NInv, Stamped, Outranks, hazards = {}, hazards' = {}, Next
    PROVE  Outranks'
<1> USE DEF heapVars, listVars, lockVars
<1>0. TypeOK /\ app \in AppStates
  BY DEF IInv, TypeOK
<1> SUFFICES ASSUME Writing', app'.locked
             PROVE  /\ hash'[app'.id] # Null
                    /\ hash'[app'.id] = app'.place \/ At(hash[app.id])'.ver < app'.entry.ver
  BY DEF Outranks
<1>1. CASE NewCall
  <2>1. ASSUME NEW id \in FreeIds, BeginFree(id) PROVE FALSE
    BY <2>1 DEF BeginFree, Idle, Writing
  <2>2. ASSUME NEW len \in Lens, NEW id \in Ids, Call(id, NewEntry(id, 1, len), FALSE) PROVE FALSE
    BY <2>2 DEF Call
  <2>3. ASSUME NEW len \in Lens, NEW id \in Changing, BeginUpdate(id, len)
        PROVE  hash'[app'.id] # Null /\ At(hash[app.id])'.ver < app'.entry.ver
    <3>1. id \in Ids \ InFlight /\ hash[id] # Null
      <4>1. Changing \subseteq Ids
        BY ClientAssumption DEF Changing
      <4>2. InFlight = {}
        BY <2>3, IdleFacts DEF BeginUpdate
      <4> QED BY <2>3, <4>1, <4>2 DEF BeginUpdate
    <3>2. PICK e \in Entry : e = At(hash[id])
      BY <3>1, CurrentCell
    <3>3. app'.entry = Successor(e, len) /\ app'.id = id /\ UNCHANGED <<hash, content>>
      <4>1. Call(id, Successor(e, len), TRUE) /\ UNCHANGED <<hash, content>>
        BY <2>3, <3>2 DEF BeginUpdate
      <4> QED BY <4>1 DEF Call
    <3>4. Successor(e, len).ver = e.ver + 1 /\ e.ver \in Nat
      BY DEF Successor, Entry
    <3>5. At(hash[app.id])' = e
      BY <3>2, <3>3 DEF At
    <3>6. e.ver < e.ver + 1
      BY <3>4, SMT
    <3> QED BY <3>1, <3>3, <3>4, <3>5, <3>6
  <2> QED BY <1>1, <2>1, <2>2, <2>3, NewCallKinds
<1>2. CASE WriteEntry
  <2>1. /\ head \in Segs /\ HasRoom(head, app.entry) /\ app.entry \in Entry
        /\ content' = Written(head, fill[head], app.entry)
        /\ app'.place = <<head, fill[head]>> /\ app'.id = app.id /\ app'.entry = app.entry
        /\ Writing /\ app.locked /\ UNCHANGED hash /\ app.place = Null
    BY <1>0, <1>2 DEF WriteEntry, AppStates, TypeOK, AppAt, Writing, HInv, AppSound
  <2>2. app.id \in Ids /\ app.entry.ver >= 1 /\ app.entry.ver \in Nat
    BY <2>1 DEF HInv, AppSound, Writing, Stamped, Stamp, Entry
  <2>3. hash[app.id] # Null
    BY <2>1 DEF Outranks
  <2>4. hash'[app'.id] = app'.place \/ At(hash[app.id])'.ver < app'.entry.ver
    <3>1. PICK s \in Segs, p \in Cells : hash[app.id] = <<s, p>>
      BY <1>0, <2>2, <2>3, HashPlace
    <3>2. content[s][p].ver < app.entry.ver
      BY <2>1, <2>3, <3>1 DEF Outranks, At
    <3>3. At(hash[app.id])' = content'[s][p]
      BY <2>1, <3>1 DEF At
    <3>4. PICK t \in Segs : t = head
      BY <2>1
    <3>5. CASE s = t /\ p = fill[t]
      BY <2>1, <3>1, <3>4, <3>5
    <3>6. CASE ~(s = t /\ p = fill[t])
      <4>1. content'[s][p] = Data \/ content'[s][p] = content[s][p]
        BY <1>0, <2>1, <3>4, <3>6, WrittenCells
      <4>2. Data.ver = 0 /\ 0 < app.entry.ver
        BY <2>2, SMT DEF Data
      <4> QED BY <2>1, <3>2, <3>3, <4>1, <4>2
    <3> QED BY <3>5, <3>6
  <2> QED BY <2>1, <2>3, <2>4
<1>3. CASE SealHead \/ TakeHead
  <2>1. /\ Writing /\ app.locked /\ UNCHANGED hash /\ app'.id = app.id
        /\ app'.entry = app.entry /\ app'.place = app.place
    BY <1>0, <1>3 DEF SealHead, TakeHead, NeedsHead, AppStates, AppAt, Writing
  <2>2. \A s \in Segs, p \in Cells : content'[s][p].ver = content[s][p].ver
    <3>1. CASE TakeHead
      BY <3>1 DEF TakeHead
    <3>2. CASE SealHead
      <4>1. PICK t \in Segs : t = head /\ content' = Terminated(t)
        BY <1>0, <3>2 DEF SealHead, TypeOK
      <4>2. content \in [Segs -> [Cells -> Cell]]
        BY <1>0 DEF TypeOK, Cell
      <4>3. \A e \in Cell : [e EXCEPT !.len = 0].ver = e.ver
        BY DEF Cell, Entry, Data
      <4> QED BY <4>1, <4>2, <4>3 DEF Terminated
    <3> QED BY <1>3, <3>1, <3>2
  <2>3. app.id \in Ids
    BY <2>1 DEF HInv, AppSound, Writing
  <2>4. hash[app.id] # Null
    BY <2>1 DEF Outranks
  <2>5. PICK s \in Segs, p \in Cells : hash[app.id] = <<s, p>>
    BY <1>0, <2>3, <2>4, HashPlace
  <2>6. At(hash[app.id])' = content'[s][p] /\ At(hash[app.id]) = content[s][p]
    BY <2>1, <2>5 DEF At
  <2> QED BY <2>1, <2>2, <2>4, <2>6 DEF Outranks
<1>4. CASE OutOfMemory \/ Publish \/ Unmap
  BY <1>4 DEF OutOfMemory, Publish, Unmap, Idle
<1>5. ASSUME NEW c \in Cleaners, CleanerStep(c)
      PROVE  /\ hash'[app'.id] # Null
             /\ hash'[app'.id] = app'.place \/ At(hash[app.id])'.ver < app'.entry.ver
  <2>1. UNCHANGED app /\ Writing /\ app.locked
    BY <1>5, AppFrame DEF Writing
  <2>2. ~Copy(c)
    <3>1. updateMove = App /\ App # c /\ App # None
      BY <2>1, ConstantFacts DEF IInv, Shape
    <3> QED BY <3>1 DEF Copy, Visits, Resumes
  <2>3. UNCHANGED <<content, hash>>
    BY <1>5, <2>2, ThreadFrame
  <2> QED BY <2>1, <2>3 DEF Outranks, At
<1> QED BY <1>1, <1>2, <1>3, <1>4, <1>5 DEF Next, CallStep

(* What pfree is about to forget, it has marked.                           *)
Unmapping ==
    app.pc = "unmap" =>
        /\ app.id \in FreeIds /\ hash[app.id] # Null
        /\ At(hash[app.id]).del /\ At(hash[app.id]).id = app.id /\ Stamp(At(hash[app.id]))

(* What pfree has marked stays as it is until it is unmapped.            *)
LEMMA UnmappingNext ==
    ASSUME IInv, Rows, AppEntry, HInv, NInv, Stamped, Unmapping, hazards = {}, hazards' = {}, Next
    PROVE  Unmapping'
<1>0. TypeOK /\ app \in AppStates
  BY DEF IInv, TypeOK
<1> SUFFICES ASSUME app'.pc = "unmap"
             PROVE  /\ app'.id \in FreeIds /\ hash'[app'.id] # Null
                    /\ At(hash[app.id])'.del /\ At(hash[app.id])'.id = app'.id
                    /\ Stamp(At(hash[app.id])')
  BY DEF Unmapping, Stamp
<1>1. CASE NewCall
  <2>1. ASSUME NEW len \in Lens, NEW id \in Ids, Call(id, NewEntry(id, 1, len), FALSE) PROVE FALSE
    BY <2>1 DEF Call
  <2>2. ASSUME NEW len \in Lens, NEW id \in Changing, BeginUpdate(id, len) PROVE FALSE
    <3>1. \A e : Call(id, e, TRUE) => app'.pc = "append"
      BY DEF Call
    <3> QED BY <2>2, <3>1 DEF BeginUpdate
  <2>3. PICK id \in FreeIds : BeginFree(id)
    BY <1>1, <2>1, <2>2, NewCallKinds
  <2>4. /\ id \in Ids /\ hash[id] # Null /\ content' = Marked(hash[id]) /\ UNCHANGED hash
        /\ app'.id = id /\ InFlight = {}
    <3>1. AppAt("idle") /\ id \in Ids
      BY <2>3, ClientAssumption DEF BeginFree
    <3> QED BY <2>3, <3>1, IdleFacts DEF BeginFree, Idle
  <2>5. PICK s \in Segs, p \in Cells :
          /\ hash[id] = <<s, p>> /\ InUse(s) /\ p < fill[s] /\ content[s][p] # Data
          /\ content[s][p].id = id
    <3>1. id \in Ids \ InFlight
      BY <2>4
    <3> QED BY <2>4, <3>1, CurrentCell
  <2>6. Stamp(content[s][p])
    BY <2>5 DEF Stamped, Logged
  <2>7. hash[id] \in Places /\ At(hash[id])' = content'[s][p]
    BY <2>4, <2>5 DEF Places, At
  <2>8. content'[s][p] # Data /\ content'[s][p].del
    BY <1>0, <2>4, <2>5, <2>7, MarkedCells DEF Similar
  <2>9. content'[s][p].id = content[s][p].id /\ content'[s][p].ver = content[s][p].ver
    BY <1>0, <2>4, <2>7, MarkedSame
  <2> QED BY <2>4, <2>5, <2>6, <2>7, <2>8, <2>9 DEF Stamp
<1>2. CASE CallStep
  <2>1. CASE WriteEntry \/ SealHead \/ TakeHead
    BY <1>0, <2>1 DEF WriteEntry, SealHead, TakeHead, AppStates
  <2>2. CASE OutOfMemory \/ Publish \/ Unmap
    BY <2>2 DEF OutOfMemory, Publish, Unmap, Idle
  <2> QED BY <1>2, <2>1, <2>2 DEF CallStep
<1>3. ASSUME NEW c \in Cleaners, CleanerStep(c)
      PROVE  UNCHANGED <<app, content, hash>>
  <2>1. UNCHANGED app
    BY <1>3, AppFrame
  <2>2. ~Copy(c)
    <3>1. updateMove = App /\ App # c /\ App # None
      BY <2>1, ConstantFacts DEF IInv, Shape, NInv, Calls
    <3> QED BY <3>1 DEF Copy, Visits, Resumes
  <2> QED BY <1>3, <2>1, <2>2, ThreadFrame
<1>4. ASSUME UNCHANGED <<app, content, hash>>
      PROVE  /\ app'.id \in FreeIds /\ hash'[app'.id] # Null
             /\ At(hash[app.id])'.del /\ At(hash[app.id])'.id = app'.id
             /\ Stamp(At(hash[app.id])')
  <2>1. At(hash[app.id])' = At(hash[app.id])
    BY <1>4 DEF At
  <2> QED BY <1>4, <2>1 DEF Unmapping
<1> QED BY <1>1, <1>2, <1>3, <1>4 DEF Next

-----------------------------------------------------------------------------
(* All that holds of an accepted heap that nothing has gone wrong with.    *)
Intact == Rows /\ AppEntry /\ Stamped
Accept(x) == HInv /\ Spaces(x) /\ NInv /\ Residue /\ Outranks /\ Unmapping

(* The invariant of an accepted heap is inductive over the steps of      *)
(* LogHeap, also when used_space began with x too many.                  *)
LEMMA AcceptNext ==
    ASSUME KeptOrFreed, IInv, Intact, NEW x \in Nat, 2 * Cap + x < SizeMod, Accept(x),
           hazards = {}, hazards' = {}, Next
    PROVE  Intact' /\ Accept(x)'
<1>0. /\ Rows /\ AppEntry /\ Stamped /\ HInv /\ Spaces(x) /\ NInv /\ Residue /\ Outranks /\ Unmapping
      /\ NoRebirth
  BY DEF Intact, Accept, KeptOrFreed, NoRebirth, Changing
<1>1. Rows' /\ HInv' /\ Spaces(x)' /\ NInv'
  <2>1. CASE NewCall
    BY <1>0, <2>1, RowsClient, NewCallInv, NewestNewCall
  <2>2. CASE CallStep
    <3>1. NInv'
      BY <1>0, <2>2, NewestAppends, NewestReturns DEF CallStep
    <3> QED BY <1>0, <2>2, <3>1, RowsClient, CallStepInv
  <2>3. ASSUME NEW c \in Cleaners, CleanerStep(c) PROVE Rows' /\ HInv' /\ Spaces(x)' /\ NInv'
    BY <1>0, <2>3, RowsCleaner, CleanerInv, NewestCleaner
  <2> QED BY <2>1, <2>2, <2>3 DEF Next
<1>2. AppEntry' /\ Stamped' /\ Residue' /\ Outranks' /\ Unmapping'
  BY <1>0, AppEntryStep, StampedNext, ResidueStep, OutranksNext, UnmappingNext
<1> QED BY <1>1, <1>2 DEF Intact, Accept

(* A step that only changes threads which do not clean.                    *)
LEMMA AcceptThreads ==
    ASSUME TypeOK, Intact, NEW x \in Nat, Accept(x),
           UNCHANGED <<heapVars, listVars, lockVars, nextId, hash, app>>,
           \A c \in Cleaners : \/ cl'[c] = cl[c]
                               \/ ~Cleans(c) /\ cl'[c].pc \in {"wait", "scan"}
    PROVE  Intact' /\ Accept(x)'
<1> USE DEF heapVars, listVars, lockVars
<1>1. \A s \in Segs : /\ (InUse(s)' <=> InUse(s)) /\ (Resetting(s)' <=> Resetting(s))
                      /\ LiveSpace(s)' = LiveSpace(s)
  <2>1. \A s \in Segs : Resetting(s)' <=> Resetting(s)
    BY DEF Resetting, Cleans
  <2>2. \A s \in Segs : LiveSpace(s)' = LiveSpace(s)
    BY DEF LiveSpace, LiveArea, LiveCells, InFlight
  <2> QED BY <2>1, <2>2 DEF InUse
<1>2. Intact'
  BY DEF Intact, Rows, Row, RowOf, InUse, AppEntry, Stamped, Stamp, Logged, Writing
<1>3. Spaces(x)'
  <2> SUFFICES ASSUME NEW s \in Segs PROVE SpaceOK(s, x)'
    BY DEF Spaces
  <2>1. SpaceOK(s, x)
    BY DEF Accept, Spaces
  <2> QED BY <1>1, <2>1 DEF SpaceOK, Slack
<1>4. HInv'
  <2>1. AppSound'
    BY DEF Accept, HInv, AppSound, Writing, InFlight
  <2>2. Hashed'
    BY DEF Accept, HInv, Hashed, SoundAt, InFlight, InUse, At
  <2>3. Walks'
    <3> SUFFICES ASSUME NEW c \in Cleaners PROVE WalkOK(c)'
      BY DEF Walks
    <3>1. WalkOK(c)
      BY DEF Accept, HInv, Walks
    <3> QED BY <3>1 DEF WalkOK, OnWalk, InFlight
  <2> QED BY <2>1, <2>2, <2>3 DEF HInv
<1>5. NInv'
  <2>1. \A c \in Cleaners : (Claims(c)' <=> Claims(c)) /\ (Claims(c) => cl'[c] = cl[c])
    BY DEF Claims, Cleans
  <2>2. \A s, p : Passed(s, p)' <=> Passed(s, p)
    BY <2>1 DEF Passed, OnWalk
  <2>3. \A s, p : Valid(s, p)' <=> Valid(s, p)
    BY <2>2 DEF Valid, InUse
  <2>4. \A s, p : VersionOK(s, p, content[s][p])' <=> VersionOK(s, p, content[s][p])
    BY DEF VersionOK, InFlight, Writing, At, Gone
  <2>5. Ordered'
    BY <2>3, <2>4 DEF Accept, NInv, Ordered
  <2>6. Known' /\ Calls'
    BY DEF Accept, NInv, Known, Calls, Writing
  <2> QED BY <2>5, <2>6 DEF NInv
<1>6. Residue'
  BY DEF Accept, Residue, Outdated, InFlight, At
<1>7. Outranks' /\ Unmapping'
  BY DEF Accept, Outranks, Unmapping, Stamp, At, Writing
<1> QED BY <1>2, <1>3, <1>4, <1>5, <1>6, <1>7 DEF Accept

-----------------------------------------------------------------------------
(* The hash table that a start will have to find: as if the process had    *)
(* come to the end of a call whose entry is written, or marked.            *)
Outcome ==
    [id \in Ids |->
        IF id = app.id /\ app.pc = "publish" THEN app.place
        ELSE IF id = app.id /\ app.pc = "unmap" THEN Null
        ELSE hash[id]]

(* The table that a crash leaves to be rebuilt, object by object.        *)
LEMMA OutcomeFacts ==
    ASSUME TypeOK
    PROVE  /\ Outcome \in [Ids -> Places \cup {Null}]
           /\ \A id \in Ids : Outcome[id] = IF id = app.id /\ app.pc = "publish" THEN app.place
                                            ELSE IF id = app.id /\ app.pc = "unmap" THEN Null
                                            ELSE hash[id]
  BY DEF Outcome, TypeOK, AppStates

(* Where a segment in use can be.                                          *)
LEMMA InUsePlace ==
    ASSUME SegmentsPartitioned, NEW s \in Segs, InUse(s)
    PROVE  InLog(s)
<1>1. s \in HeadSet \cup ToSet(used) \cup ToSet(cleaning)
  BY DEF SegmentsPartitioned, InUse
<1> QED BY <1>1 DEF HeadSet, InLog

(* It points to unmarked entries of the right objects.                   *)
LEMMA OutcomeSound ==
    ASSUME IInv, Accept(0) \/ (HInv /\ NInv), ~(app.locked /\ app.pc \in {"append", "takeHead"}),
           NEW id \in Ids, Outcome[id] # Null
    PROVE  /\ SoundAt(Outcome[id], id)
           /\ \/ app.place = Outcome[id] /\ app.pc = "publish" /\ id = app.id
              \/ id \notin InFlight /\ hash[id] = Outcome[id]
<1>0. TypeOK /\ HInv /\ AppSound /\ app \in AppStates
  BY DEF IInv, TypeOK, HInv, Accept
<1>1. CASE id = app.id /\ app.pc = "publish"
  <2>1. Outcome[id] = app.place /\ app.place # Null
    BY <1>0, <1>1, OutcomeFacts
  <2>2. PICK p \in Cells : /\ head \in Segs /\ InUse(head) /\ p < fill[head] /\ app.place = <<head, p>>
                           /\ content[head][p] = app.entry
    BY <1>0, <2>1, PlaceInHead
  <2>3. app.entry # Data /\ app.entry.id = id /\ ~app.entry.del
    <3>1. app.entry \in Entry
      BY <1>0 DEF AppStates
    <3> QED BY <1>0, <1>1, <3>1, EntryFacts DEF AppSound, Writing
  <2> QED BY <1>1, <2>1, <2>2, <2>3 DEF SoundAt, At
<1>2. CASE ~(id = app.id /\ app.pc = "publish")
  <2>1. ~(id = app.id /\ app.pc = "unmap") /\ Outcome[id] = hash[id]
    BY <1>0, <1>2, OutcomeFacts
  <2>2. id \notin InFlight
    BY <1>0, <1>2, <2>1 DEF InFlight, IInv, Shape, AppStates
  <2> QED BY <1>0, <2>1, <2>2 DEF HInv, Hashed
<1> QED BY <1>1, <1>2

(* The table to be rebuilt fits the log, as long as no update has        *)
(* discounted the old version without writing the new one and no used    *)
(* segment holds an entry that has moved.                                *)
LEMMA FitsAccepted ==
    ASSUME KeptOrFreed, IInv, Intact, NEW x \in Nat, Accept(x), NEW h, h = Outcome,
           ~(app.locked /\ app.pc \in {"append", "takeHead"}), ~HalfCleaned
    PROVE  Fits(h)
<1>0. /\ TypeOK /\ app \in AppStates /\ HInv /\ AppSound /\ NInv /\ Stamped /\ Rows
      /\ h \in [Ids -> Places \cup {Null}] /\ SegmentsPartitioned
  BY OutcomeFacts DEF IInv, TypeOK, HInv, Accept, Intact
<1>1. \A id \in Ids : h[id] # Null =>
         /\ SoundAt(h[id], id)
         /\ \/ app.place = h[id] /\ app.pc = "publish" /\ id = app.id
            \/ id \notin InFlight /\ hash[id] = h[id]
  BY <1>0, OutcomeSound
<1>2. ASSUME NEW s \in Segs, InUse(s)
      PROVE  Cardinality(Area(content[s], Listed(h, s))) <= usedSpace[s]
  <2>1. Listed(h, s) \subseteq LiveCells(s)
    <3> SUFFICES ASSUME NEW p \in Cells, NEW id \in Ids, h[id] = <<s, p>>
                 PROVE  p \in LiveCells(s)
      BY DEF Listed
    <3>1. h[id] # Null
      BY PlaceFacts
    <3>2. p < fill[s]
      BY <1>1, <3>1 DEF SoundAt
    <3>3. p \in 0 .. fill[s] - 1
      BY <1>0, <3>2, CellBelow, RowTypes
    <3> QED BY <1>1, <3>1, <3>3 DEF LiveCells
  <2>2. Cardinality(Area(content[s], Listed(h, s))) <= Cardinality(Area(content[s], LiveCells(s)))
    BY <2>1, AreaSubset
  <2>3. LiveSpace(s) = Cardinality(Area(content[s], LiveCells(s)))
    BY DEF LiveSpace, LiveArea, Area
  <2>4. LiveSpace(s) <= usedSpace[s]
    BY <1>2 DEF Accept, Spaces, SpaceOK
  <2>5. /\ Cardinality(Area(content[s], Listed(h, s))) \in Nat /\ usedSpace[s] \in Nat
        /\ Cardinality(Area(content[s], LiveCells(s))) \in Nat
    BY <1>0, AreaFinite, SpaceTypes
  <2> QED BY <2>2, <2>3, <2>4, <2>5, SMT
<1>3. ASSUME NEW s \in Segs, NEW p \in Cells,
             InUse(s), p < fill[s], content[s][p] # Data, ~content[s][p].del
      PROVE  FitsLog(h, s, p)
  <2>1. PICK e \in Entry : e = content[s][p]
    <3>1. content[s][p] \in Cell
      BY <1>0, RowTypes
    <3> QED BY <1>3, <3>1 DEF Cell
  <2>2. Stamp(e) /\ e.id \in Ids /\ e.ver \in Nat /\ e.ver >= 1
    BY <1>0, <1>3, <2>1 DEF Stamped, Logged, Stamp, Entry
  <2> SUFFICES /\ h[e.id] # Null
               /\ h[e.id] = <<s, p>> \/ (e.id \in Changing /\ e.ver < At(h[e.id]).ver)
    BY <2>1, <2>2 DEF FitsLog
  <2>3. h[e.id] = IF e.id = app.id /\ app.pc = "publish" THEN app.place
                  ELSE IF e.id = app.id /\ app.pc = "unmap" THEN Null ELSE hash[e.id]
    BY <1>0, <2>2, OutcomeFacts
  <2>4. app.pc = "publish" =>
           /\ app.place # Null /\ At(app.place) = app.entry /\ app.entry.ver \in Nat
           /\ app.entry.id = app.id
    <3> SUFFICES ASSUME app.pc = "publish"
                 PROVE  /\ app.place # Null /\ At(app.place) = app.entry /\ app.entry.ver \in Nat
                        /\ app.entry.id = app.id
      OBVIOUS
    <3>1. PICK q \in Cells : app.place = <<head, q>> /\ content[head][q] = app.entry
      BY <1>0 DEF AppSound
    <3>2. app.entry.ver \in Nat
      BY <1>0 DEF AppStates, Entry
    <3> QED BY <1>0, <3>1, <3>2, PlaceFacts DEF AppSound, Writing, At
  <2>5. CASE <<s, p>> = app.place
    <3>1. app.pc = "publish" /\ content[s][p] = app.entry
      <4>1. app.place # Null
        BY <2>5, PlaceFacts
      <4>2. app.pc = "publish"
        BY <1>0, <4>1 DEF AppSound
      <4> QED BY <2>4, <2>5, <4>2 DEF At
    <3> QED BY <2>1, <2>3, <2>4, <2>5, <3>1
  <2>6. CASE Valid(s, p)
    <3>1. VersionOK(s, p, e) /\ ~Gone(e.id)
      BY <1>0, <2>1, <2>6 DEF NInv, Ordered, KeptOrFreed, Gone
    <3>2. hash[e.id] # Null
      BY <3>1 DEF VersionOK
    <3>3. CASE e.id = app.id /\ app.pc = "publish"
      <4>1. e.id \in Changing /\ e.ver < app.entry.ver
        BY <3>1, <3>3 DEF VersionOK, Writing, InFlight
      <4> QED BY <2>3, <2>4, <3>3, <4>1
    <3>4. CASE ~(e.id = app.id /\ app.pc = "publish")
      <4>1. e.id \notin InFlight
        <5> SUFFICES ASSUME e.id \in InFlight PROVE FALSE
          OBVIOUS
        <5>1. app.locked /\ e.id = app.id /\ app.pc \in {"publish", "unmap"}
          BY <1>0 DEF InFlight, IInv, Shape, AppStates
        <5>2. ~Writing
          BY <3>4, <5>1 DEF Writing
        <5> QED BY <3>1, <5>2 DEF VersionOK
      <4>2. ~(e.id = app.id /\ app.pc = "unmap")
        BY <1>0, <4>1 DEF NInv, Calls, InFlight
      <4> QED BY <2>3, <3>1, <3>2, <3>4, <4>1, <4>2 DEF VersionOK
    <3> QED BY <3>3, <3>4
  <2>7. CASE Passed(s, p) /\ <<s, p>> # app.place
    <3>1. hash[e.id] # Null /\ (hash[e.id] = <<s, p>> \/ ~(e.ver >= At(hash[e.id]).ver))
      <4>1. Walked(<<s, p>>)
        BY <2>7 DEF Passed, Walked, Claims, OnWalk
      <4>2. Stored(<<s, p>>) /\ <<s, p>> \in Places /\ At(<<s, p>>) = e
        <5>1. InLog(s)
          BY <1>0, <1>3, InUsePlace
        <5> QED BY <1>3, <2>1, <5>1 DEF Stored, Places, At
      <4>3. \A place \in Places :
               Walked(place) /\ Stored(place) /\ At(place).id \in Ids /\ ~At(place).del =>
                  \/ hash[At(place).id] = place
                  \/ /\ hash[At(place).id] # Null
                     /\ ~(At(place).ver >= At(hash[At(place).id]).ver)
        BY DEF HalfCleaned
      <4>4. ~e.del
        BY <1>3, <2>1
      <4>5. \/ hash[At(<<s, p>>).id] = <<s, p>>
            \/ /\ hash[At(<<s, p>>).id] # Null
               /\ ~(At(<<s, p>>).ver >= At(hash[At(<<s, p>>).id]).ver)
        BY <2>2, <4>1, <4>2, <4>3, <4>4
      <4> QED BY <4>2, <4>5, PlaceFacts
    <3>2. At(hash[e.id]).ver \in Nat
      <4>1. hash[e.id] \in Places
        BY <1>0, <2>2, <3>1, HashPlace
      <4>2. At(hash[e.id]) \in Cell
        BY <1>0, <4>1, AtType
      <4> QED BY <4>2 DEF Cell, Entry, Data
    <3>3. hash[e.id] = <<s, p>> \/ e.ver < At(hash[e.id]).ver
      BY <2>2, <3>1, <3>2, SMT
    <3>4. CASE e.id = app.id /\ app.pc = "publish"
      <4>1. Writing
        BY <3>4 DEF Writing
      <4>2. app.locked /\ e.id \in Changing
        BY <1>0, <3>1, <3>4, <4>1 DEF NInv, Calls
      <4>3. hash[e.id] = app.place \/ At(hash[e.id]).ver < app.entry.ver
        BY <3>4, <4>1, <4>2 DEF Accept, Outranks
      <4>4. e.ver < app.entry.ver
        <5>1. CASE hash[e.id] = <<s, p>>
          <6>1. At(hash[e.id]) = e
            BY <2>1, <5>1 DEF At
          <6> QED BY <2>7, <4>3, <5>1, <6>1
        <5>2. CASE e.ver < At(hash[e.id]).ver
          <6>1. CASE hash[e.id] = app.place
            BY <2>4, <3>4, <5>2, <6>1
          <6>2. CASE At(hash[e.id]).ver < app.entry.ver
            BY <2>2, <2>4, <3>2, <3>4, <5>2, <6>2, SMT
          <6> QED BY <4>3, <6>1, <6>2
        <5> QED BY <3>3, <5>1, <5>2
      <4> QED BY <2>3, <2>4, <3>4, <4>2, <4>4
    <3>5. CASE e.id = app.id /\ app.pc = "unmap"
      <4>1. /\ app.id \in FreeIds /\ At(hash[e.id]).del /\ Stamp(At(hash[e.id]))
            /\ At(hash[e.id]).id = e.id
        BY <3>5 DEF Accept, Unmapping
      <4>2. hash[e.id] # <<s, p>>
        BY <1>3, <4>1 DEF At
      <4>3. At(hash[e.id]).ver > 1
        BY <2>2, <3>2, <3>3, <4>2, SMT
      <4>4. e.id \in Changing
        BY <4>1, <4>3 DEF Stamp
      <4> QED BY <3>5, <4>1, <4>4 DEF KeptOrFreed
    <3>6. CASE ~(e.id = app.id /\ app.pc \in {"publish", "unmap"})
      <4>1. e.id \notin InFlight
        BY <1>0, <3>6 DEF InFlight, IInv, Shape, AppStates
      <4>2. CASE hash[e.id] = <<s, p>>
        BY <2>3, <3>1, <3>6, <4>2
      <4>3. CASE e.ver < At(hash[e.id]).ver
        <5>1. PICK t \in Segs, q \in Cells :
                 /\ hash[e.id] = <<t, q>> /\ Logged(t, q) /\ At(hash[e.id]) = content[t][q]
                 /\ content[t][q].id = e.id
          BY <1>0, <2>2, <3>1, <4>1, CurrentCell DEF Logged
        <5>2. Stamp(At(hash[e.id])) /\ At(hash[e.id]).id = e.id
          BY <1>0, <5>1 DEF Stamped
        <5>3. At(hash[e.id]).ver > 1
          BY <2>2, <3>2, <4>3, SMT
        <5> QED BY <2>3, <3>1, <3>6, <4>3, <5>2, <5>3 DEF Stamp
      <4> QED BY <3>3, <4>2, <4>3
    <3> QED BY <3>4, <3>5, <3>6
  <2> QED BY <1>3, <2>5, <2>6, <2>7 DEF Valid
<1>4. \A id \in Ids \ WithIds : id >= nextId => h[id] = Null
  BY <1>0, OutcomeFacts, ConstantFacts DEF NInv, Known
<1> QED BY <1>0, <1>1, <1>2, <1>3, <1>4 DEF Fits

-----------------------------------------------------------------------------
(* A step that keeps what is written, and discounts nothing.               *)
LEMMA FitsKept ==
    ASSUME TypeOK, NEW h, Fits(h), Whole, UNCHANGED <<fill, free, emergency, nextId>>,
           \A s \in Segs : usedSpace'[s] \in Nat /\ usedSpace'[s] >= usedSpace[s]
    PROVE  /\ Fits(h)'
           /\ \A id \in Ids : h[id] # Null => At(h[id])' = At(h[id])
<1>0. h \in [Ids -> Places \cup {Null}] /\ \A s : InUse(s)' <=> InUse(s)
  BY DEF Fits, InUse
<1>1. ASSUME NEW id \in Ids, h[id] # Null
      PROVE  /\ h[id][1] \in Segs /\ h[id][2] \in Cells /\ At(h[id])' = At(h[id])
             /\ SoundAt(h[id], id) /\ SoundAt(h[id], id)'
  <2>1. h[id][1] \in Segs /\ h[id][2] \in Cells /\ SoundAt(h[id], id)
    BY <1>0, <1>1 DEF Fits, Places
  <2>2. At(h[id])' = At(h[id])
    BY <2>1 DEF SoundAt, Whole, At
  <2> QED BY <1>0, <2>1, <2>2 DEF SoundAt
<1>2. ASSUME NEW s \in Segs, InUse(s)
      PROVE  Cardinality(Area(content'[s], Listed(h, s))) <= usedSpace'[s]
  <2>1. Listed(h, s) \subseteq Cells /\ \A p \in Listed(h, s) : content'[s][p] = content[s][p]
    <3> SUFFICES ASSUME NEW p \in Cells, NEW id \in Ids, h[id] = <<s, p>>
                 PROVE  content'[s][p] = content[s][p]
      BY DEF Listed
    <3> QED BY <1>1, PlaceFacts DEF At
  <2>2. Cardinality(Area(content'[s], Listed(h, s))) <= Cardinality(Area(content[s], Listed(h, s)))
    BY <2>1, AreaSubset
  <2>3. Cardinality(Area(content[s], Listed(h, s))) <= usedSpace[s]
    BY <1>2 DEF Fits
  <2>4. /\ Cardinality(Area(content[s], Listed(h, s))) \in Nat /\ usedSpace[s] \in Nat
        /\ Cardinality(Area(content'[s], Listed(h, s))) \in Nat
    BY AreaFinite, SpaceTypes
  <2> QED BY <2>2, <2>3, <2>4, SMT
<1>3. ASSUME NEW s \in Segs, NEW p \in Cells,
             InUse(s), p < fill[s], content'[s][p] # Data, ~content'[s][p].del
      PROVE  FitsLog(h, s, p)'
  <2>1. content'[s][p] = content[s][p]
    BY <1>3 DEF Whole
  <2>2. FitsLog(h, s, p)
    BY <1>3, <2>1 DEF Fits
  <2>3. PICK i \in Ids : i = content[s][p].id /\ h[i] # Null
    BY <2>2 DEF FitsLog
  <2>4. At(h[i])' = At(h[i])
    BY <1>1, <2>3
  <2> QED BY <2>1, <2>2, <2>3, <2>4 DEF FitsLog
<1>4. \A s \in Segs : InUse(s)' => Cardinality(Area(content[s], Listed(h, s))') <= usedSpace'[s]
  <2>1. \A s \in Segs : Area(content[s], Listed(h, s))' = Area(content'[s], Listed(h, s))
    BY DEF Area, Listed
  <2> QED BY <1>0, <1>2, <2>1
<1>5. \A id \in Ids \ WithIds : id >= nextId' => h[id] = Null
  BY DEF Fits
<1> QED BY <1>0, <1>1, <1>3, <1>4, <1>5 DEF Fits

(* pfree, or a crash in the middle of it: the object is gone.              *)
LEMMA FreeFits ==
    ASSUME TypeOK, Rows, KeptOrFreed, NEW h, Fits(h), NEW id \in FreeIds, h[id] # Null,
           content' = Marked(h[id]), UNCHANGED <<fill, free, emergency, nextId>>,
           UNCHANGED usedSpace \/ Discount(h[id]),
           NEW g, g = [h EXCEPT ![id] = Null]
    PROVE  /\ Fits(g)'
           /\ \A s \in Segs : usedSpace'[s] <= usedSpace[s]
           /\ \A other \in Ids : g[other] # Null => At(g[other])' = At(h[other])
<1>0. /\ h \in [Ids -> Places \cup {Null}] /\ (\A s : InUse(s)' <=> InUse(s))
      /\ id \in Ids /\ g \in [Ids -> Places \cup {Null}] /\ g[id] = Null
      /\ \A other \in Ids \ {id} : g[other] = h[other]
  BY ClientAssumption DEF Fits, InUse
<1>1. PICK t \in Segs, k \in Cells : h[id] = <<t, k>>
  BY <1>0 DEF Places
<1>2. /\ InUse(t) /\ k < fill[t] /\ content[t][k] # Data /\ content[t][k].id = id
      /\ h[id] \in Places /\ Similar
      /\ \A s \in Segs, p \in Cells : <<s, p>> # <<t, k>> => content'[s][p] = content[s][p]
      /\ content'[t][k] = Data \/ content'[t][k].del
  <2>1. SoundAt(h[id], id) /\ h[id] \in Places
    BY <1>0 DEF Fits
  <2> QED BY <1>1, <2>1, MarkedCells DEF SoundAt, At
<1>3. ASSUME NEW other \in Ids, g[other] # Null
      PROVE  /\ g[other] = h[other] /\ other # id /\ g[other] # <<t, k>>
             /\ At(g[other])' = At(h[other])
             /\ SoundAt(g[other], other) /\ SoundAt(g[other], other)'
  <2>1. other # id /\ g[other] = h[other] /\ SoundAt(h[other], other)
    BY <1>0, <1>3 DEF Fits
  <2>2. PICK s \in Segs, p \in Cells : h[other] = <<s, p>>
    BY <1>0, <1>3, <2>1 DEF Places
  <2>3. h[other] # <<t, k>>
    BY <1>2, <2>1 DEF SoundAt, At
  <2>4. At(g[other])' = At(h[other])
    BY <1>2, <2>1, <2>2, <2>3 DEF At
  <2> QED BY <1>0, <2>1, <2>3, <2>4 DEF SoundAt
<1>4. ASSUME NEW s \in Segs
      PROVE  /\ Listed(g, s) \subseteq Listed(h, s)
             /\ s = t => k \notin Listed(g, s) /\ k \in Listed(h, s)
             /\ \A p \in Listed(h, s) : /\ p \in Cells /\ p < fill[s] /\ content[s][p] # Data
                                        /\ InUse(s)
             /\ \A p \in Listed(g, s) : content'[s][p] = content[s][p]
  <2>1. ASSUME NEW p \in Cells, NEW other \in Ids, g[other] = <<s, p>>
        PROVE  h[other] = <<s, p>> /\ content'[s][p] = content[s][p] /\ ~(s = t /\ p = k)
    <3>1. g[other] # Null
      BY <2>1, PlaceFacts
    <3> QED BY <1>3, <2>1, <3>1 DEF At
  <2>2. ASSUME NEW p \in Cells, NEW other \in Ids, h[other] = <<s, p>>
        PROVE  p < fill[s] /\ content[s][p] # Data /\ InUse(s)
    <3>1. h[other] # Null
      BY <2>2, PlaceFacts
    <3>2. SoundAt(h[other], other)
      BY <3>1 DEF Fits
    <3> QED BY <2>2, <3>2 DEF SoundAt, At
  <2> QED BY <1>0, <1>1, <2>1, <2>2 DEF Listed
<1> DEFINE z == Size(content[t][k])
           A(s) == Cardinality(Area(content[s], Listed(g, s)))
<1>5. Cardinality(Area(content[t], Listed(g, t) \cup {k})) = A(t) + z /\ z \in Nat
  <2>1. /\ RowOf(content[t], fill[t]) /\ fill[t] \in 0 .. Cap /\ fill[t] \in Nat
        /\ \A q \in Cells : content[t][q] \in Cell
    BY <1>2, RowTypes DEF Rows, Row
  <2>2. Listed(g, t) \in SUBSET Cells /\ k \notin Listed(g, t)
    BY <1>4 DEF Listed
  <2>3. \A p \in Cells : Size(content[t][p]) \in Nat
    BY <2>1, CellFacts
  <2>4. k + z <= Cap
    <3>1. k + z <= fill[t]
      BY <1>2, <2>1 DEF RowOf
    <3>2. k \in Nat /\ z \in Nat /\ Cap \in Nat /\ fill[t] <= Cap
      BY <2>1, <2>3, ConstantFacts, SMT
    <3> QED BY <2>1, <3>1, <3>2, SMT
  <2>5. \A p \in Listed(g, t) : p + Size(content[t][p]) <= k \/ k + z <= p
    <3> SUFFICES ASSUME NEW p \in Listed(g, t)
                 PROVE  p + Size(content[t][p]) <= k \/ k + z <= p
      OBVIOUS
    <3>1. p \in Cells /\ p # k /\ p < fill[t] /\ content[t][p] # Data
      BY <1>4, <2>2
    <3>2. CASE p < k
      BY <1>2, <2>1, <3>1, <3>2, RowApart
    <3>3. CASE k < p
      BY <1>2, <2>1, <3>1, <3>3, RowApart
    <3>4. p < k \/ k < p
      BY <3>1, ConstantFacts, SMT
    <3> QED BY <3>2, <3>3, <3>4
  <2> HIDE DEF z
  <2>6. z \in Nat
    BY <2>3 DEF z
  <2>7. Cardinality(Area(content[t], Listed(g, t) \cup {k})) = Cardinality(Area(content[t], Listed(g, t))) + Size(content[t][k])
    BY <2>2, <2>3, <2>4, <2>5, AreaSplit DEF z
  <2> QED BY <2>6, <2>7 DEF z
<1>6. /\ A(t) + z <= usedSpace[t]
      /\ \A s \in Segs : InUse(s) => A(s) <= usedSpace[s]
      /\ \A s \in Segs : A(s) \in Nat /\ usedSpace[s] \in Nat /\ usedSpace[s] < SizeMod
  <2>1. \A s \in Segs : A(s) \in Nat /\ usedSpace[s] \in Nat /\ usedSpace[s] < SizeMod
    BY AreaFinite, SpaceTypes
  <2>2. ASSUME NEW s \in Segs, NEW S, S \subseteq Listed(h, s), InUse(s)
        PROVE  Cardinality(Area(content[s], S)) <= usedSpace[s]
    <3>1. Cardinality(Area(content[s], S)) <= Cardinality(Area(content[s], Listed(h, s)))
      BY <2>2, AreaSubset
    <3>2. Cardinality(Area(content[s], Listed(h, s))) <= usedSpace[s]
      BY <2>2 DEF Fits
    <3>3. /\ Cardinality(Area(content[s], S)) \in Nat
          /\ Cardinality(Area(content[s], Listed(h, s))) \in Nat
      BY AreaFinite
    <3> QED BY <2>1, <3>1, <3>2, <3>3, SMT
  <2>3. Listed(g, t) \cup {k} \subseteq Listed(h, t)
    BY <1>4
  <2>4. Cardinality(Area(content[t], Listed(g, t) \cup {k})) <= usedSpace[t]
    BY <1>2, <2>2, <2>3
  <2> QED BY <1>4, <1>5, <2>1, <2>2, <2>4
<1>7. \A s \in Segs : /\ usedSpace'[s] \in Nat /\ usedSpace'[s] <= usedSpace[s]
                      /\ InUse(s) => A(s) <= usedSpace'[s]
  <2> HIDE DEF A, z
  <2>1. CASE UNCHANGED usedSpace
    BY <1>6, <2>1, SMT
  <2>2. CASE Discount(h[id])
    <3>1. At(h[id]) = content[t][k] /\ h[id][1] = t
      BY <1>1 DEF At
    <3>2. usedSpace' = [usedSpace EXCEPT ![t] = (@ - z) % SizeMod]
      BY <2>2, <3>1 DEF Discount, z
    <3>3. usedSpace \in [Segs -> 0 .. SizeMod - 1] /\ SizeMod \in Nat
      BY ClientAssumption DEF TypeOK
    <3>4. usedSpace'[t] = (usedSpace[t] - z) % SizeMod /\ \A s \in Segs \ {t} : usedSpace'[s] = usedSpace[s]
      BY <3>2, <3>3
    <3>5. (usedSpace[t] - z) % SizeMod = usedSpace[t] - z
      <4>1. usedSpace[t] - z \in Int /\ 0 <= usedSpace[t] - z /\ usedSpace[t] - z < SizeMod
        BY <1>5, <1>6, <3>3, SMT
      <4> QED BY <3>3, <4>1, ModSmall
    <3>6. usedSpace'[t] \in Nat /\ usedSpace'[t] <= usedSpace[t] /\ A(t) <= usedSpace'[t]
      BY <1>5, <1>6, <3>4, <3>5, SMT
    <3> QED BY <1>6, <3>4, <3>6, SMT
  <2> QED BY <2>1, <2>2
<1>8. ASSUME NEW s \in Segs, InUse(s)
      PROVE  Cardinality(Area(content[s], Listed(g, s))') <= usedSpace'[s]
  <2>1. Area(content[s], Listed(g, s))' = Area(content[s], Listed(g, s))
    <3>1. \A p \in Listed(g, s) : content'[s][p] = content[s][p]
      BY <1>4
    <3> QED BY <3>1 DEF Area, Listed
  <2> QED BY <1>7, <1>8, <2>1
<1>9. ASSUME NEW s \in Segs, NEW p \in Cells,
             InUse(s), p < fill[s], content'[s][p] # Data, ~content'[s][p].del
      PROVE  FitsLog(g, s, p)'
  <2>1. content'[s][p] = content[s][p]
    BY <1>2, <1>9
  <2>2. FitsLog(h, s, p) /\ <<s, p>> # <<t, k>>
    BY <1>2, <1>9, <2>1 DEF Fits
  <2>3. PICK i \in Ids :
        /\ i = content[s][p].id /\ h[i] # Null
        /\ h[i] = <<s, p>> \/ (i \in Changing /\ content[s][p].ver < At(h[i]).ver)
    BY <2>2 DEF FitsLog
  <2>4. i # id
    BY <1>1, <2>2, <2>3 DEF KeptOrFreed
  <2>5. g[i] = h[i]
    BY <1>0, <2>3, <2>4
  <2>6. At(g[i])' = At(h[i])
    BY <1>3, <2>3, <2>5
  <2>7. content'[s][p].id = i /\ content'[s][p].ver = content[s][p].ver
    BY <2>1, <2>3
  <2> QED BY <2>3, <2>5, <2>6, <2>7 DEF FitsLog
<1>10. \A other \in Ids \ WithIds : other >= nextId' => g[other] = Null
  BY <1>0 DEF Fits
<1>11. Fits(g)'
  BY <1>0, <1>3, <1>8, <1>9, <1>10 DEF Fits
<1> QED BY <1>3, <1>7, <1>11

-----------------------------------------------------------------------------
(* What a process knows of its own life.                                   *)

(* What a call does not use is as it was initially.                      *)
Calm ==
    /\ app.pc = "idle" => app = Idle
    /\ app.pc = "unmap" => app.locked /\ app.place = Null /\ app.entry = Blank /\ app.id \in FreeIds

(* A thread that has not been created, or that has been cancelled and has  *)
(* ended, holds no segment that it cleans.                                 *)
Stopping ==
    /\ \A c \in stopped :
          /\ cl[c].pc \in {"wait", "scan"}
          /\ \/ phase = "opening" /\ consistent
             \/ phase \in {"closing", "saving", "saved"} /\ resume[c].at = "no"
    /\ consistent /\ phase \in {"saving", "saved"} => stopped = Cleaners

(* A file that a start may trust is the hash table.                        *)
Filed ==
    /\ Alive /\ phase # "opening" => ~regular
    /\ phase = "saved" /\ faults = {} /\ file.state = "complete" => file.pairs = hash

(* What the phases of a run say about calls and threads; a thread        *)
(* resumes a segment only after a regular shutdown (otherwise the heap   *)
(* was not rebuilt); and the sealed head is used unless it was           *)
(* displaced.                                                            *)
LifeSound ==
    /\ Calm /\ Stopping /\ Filed
    /\ phase \in {"opening", "closing", "saving", "saved"} => app.pc = "idle"
    /\ \A c \in Cleaners : resume[c].at # "no" => resume[c].regular
    /\ Alive /\ app.pc = "takeHead" /\ ~displaced => head \in ToSet(used)

(* The steps of the client keep it.                                      *)
LEMMA CalmClient ==
    ASSUME Calm, app \in AppStates, NewCall \/ CallStep
    PROVE  Calm' /\ (app'.pc = "takeHead" => head' = head)
<1>1. CASE NewCall
  <2>1. ASSUME NEW id \in FreeIds, BeginFree(id) PROVE Calm' /\ app'.pc # "takeHead"
    BY <2>1 DEF BeginFree, Idle, Calm
  <2>2. ASSUME NEW id, NEW e, NEW b, Call(id, e, b) PROVE Calm' /\ app'.pc # "takeHead"
    BY <2>2 DEF Call, Calm
  <2>3. \/ \E id \in FreeIds : BeginFree(id)
        \/ \E id, e, b : Call(id, e, b)
    <3>1. \A id, len : BeginUpdate(id, len) => \E e : Call(id, e, TRUE)
      BY DEF BeginUpdate
    <3> QED BY <1>1, <3>1, NewCallKinds
  <2> QED BY <2>1, <2>2, <2>3
<1>2. CASE WriteEntry \/ SealHead \/ TakeHead
  <2>1. app'.pc \in {"append", "takeHead", "publish"} /\ (app'.pc = "takeHead" => head' = head)
    BY <1>2 DEF WriteEntry, SealHead, TakeHead, AppStates
  <2> QED BY <2>1 DEF Calm
<1>3. CASE OutOfMemory \/ Publish \/ Unmap
  BY <1>3 DEF OutOfMemory, Publish, Unmap, Calm, Idle
<1> QED BY <1>1, <1>2, <1>3 DEF CallStep

(* A cleaner changes neither the head nor the client's call.             *)
LEMMA HeadFrame ==
    ASSUME NEW c \in Cleaners, CleanerStep(c)
    PROVE  UNCHANGED head
  BY DEF CleanerStep, StartCleaning, GetFirstSegment, GetSegment, BeginScan, Claim, Skip,
         EndWalk, Misread, Drop, Copy, FindFull, Retire, Refill, Advance, Reclaim,
         ReclaimNothing, Finish, listVars

(* The client leaves the threads alone.                                  *)
LEMMA ClientThreads ==
    ASSUME NewCall \/ CallStep
    PROVE  UNCHANGED cl
  BY DEF NewCall, BeginPalloc, BeginPallocWithId, BeginUpdate, BeginFree,
       CallStep, WriteEntry, SealHead, TakeHead, OutOfMemory, Publish, Unmap

(* A step that touches none of this.                                       *)
LEMMA LifeSame ==
    ASSUME LifeSound, UNCHANGED <<phase, regular, consistent, file, stopped, hash, app, head, used, displaced>>,
           faults \subseteq faults',
           \A c \in Cleaners : resume'[c].at # "no" => resume[c].at # "no" /\ resume'[c].regular = resume[c].regular,
           \A c \in stopped : cl'[c] = cl[c],
           RestartTypeOK
    PROVE  LifeSound'
<1>1. stopped \subseteq Cleaners
  BY DEF RestartTypeOK
<1>2. Calm'
  BY DEF LifeSound, Calm
<1>3. Stopping' /\ Filed'
  BY <1>1 DEF LifeSound, Stopping, Filed, Alive
<1> QED BY <1>2, <1>3 DEF LifeSound, Alive

(* A step of the client or of a cleaner.                                 *)
LEMMA LifeRuns ==
    ASSUME RInv, LifeSound, ClientRuns \/ \E c \in Cleaners : ThreadRuns(c)
    PROVE  LifeSound'
<1> USE DEF lifeVars
<1>0. RestartTypeOK /\ TypeOK /\ app \in AppStates /\ stopped \subseteq Cleaners /\ Calm
  BY LifeFacts DEF RInv, RestartTypeOK, TypeOK, LifeSound
<1>1. CASE ClientRuns
  <2>1. NewCall \/ CallStep
    BY <1>1 DEF ClientRuns, NewCall
  <2>2. phase = "up" /\ phase' = "up" /\ stopped = {} /\ UNCHANGED <<regular, stopped, resume>> /\ Displace
    BY <1>1 DEF ClientRuns, LifeSound, Stopping
  <2>3. Calm' /\ (app'.pc = "takeHead" => head' = head)
    BY <1>0, <2>1, CalmClient
  <2>4. Stopping' /\ Filed'
    BY <2>2 DEF LifeSound, Stopping, Filed, Alive
  <2>5. app'.pc = "takeHead" /\ ~displaced' => head' \in ToSet(used)'
    BY <2>2, <2>3 DEF Displace, ToSet
  <2> QED BY <2>2, <2>3, <2>4, <2>5 DEF LifeSound
<1>2. ASSUME NEW c \in Cleaners, ThreadRuns(c) PROVE LifeSound'
  <2>1. /\ CleanerStep(c) /\ c \notin stopped /\ phase \in {"opening", "up", "closing"} /\ Displace
        /\ UNCHANGED <<phase, regular, consistent, file, resume, stopped>>
    BY <1>2 DEF ThreadRuns, Works
  <2>2. UNCHANGED <<app, head>>
    BY <2>1, AppFrame, HeadFrame
  <2>3. \A d \in Cleaners \ {c} : cl'[d] = cl[d]
    BY <1>0, <2>1, OtherThreads
  <2>4. Calm' /\ Stopping'
    BY <1>0, <2>1, <2>2, <2>3 DEF LifeSound, Stopping, Calm
  <2>6. Filed'
    BY <2>1 DEF LifeSound, Filed, Alive
  <2>5. app'.pc = "takeHead" /\ ~displaced' => head' \in ToSet(used)'
    BY <2>1, <2>2 DEF Displace, ToSet
  <2> QED BY <2>1, <2>2, <2>4, <2>5, <2>6 DEF LifeSound
<1> QED BY <1>1, <1>2

(* A thread that resumes, or ends.                                       *)
LEMMA LifeThreads ==
    ASSUME RInv, LifeSound, NEW c \in Cleaners,
           \/ BeginResume(c) \/ ResumeEntry(c) \/ MisreadResume(c) \/ EndResume(c)
           \/ StopCleaner(c) \/ CreateThread(c)
    PROVE  LifeSound'
<1> USE DEF vars, heapVars, listVars, lockVars, lifeVars
<1>0. RestartTypeOK /\ TypeOK /\ stopped \subseteq Cleaners
  BY LifeFacts DEF RInv, RestartTypeOK
<1>1. /\ UNCHANGED <<phase, regular, consistent, file, hash, app, head, used, displaced>>
      /\ faults \subseteq faults'
      /\ \A d \in Cleaners : resume'[d].at # "no" => resume[d].at # "no" /\ resume'[d].regular = resume[d].regular
  <2>0. DOMAIN resume = Cleaners
    BY <1>0 DEF RestartTypeOK
  <2>1. CASE BeginResume(c)
    BY <2>0, <2>1 DEF BeginResume
  <2>2. CASE ResumeEntry(c)
    <3>1. \A d \in Cleaners : resume'[d].at = resume[d].at /\ resume'[d].regular = resume[d].regular
      BY <1>0, <2>2 DEF ResumeEntry, RestartTypeOK
    <3> QED BY <2>2, <3>1 DEF ResumeEntry
  <2>3. CASE MisreadResume(c)
    BY <2>3 DEF MisreadResume
  <2>4. CASE EndResume(c)
    BY <2>0, <2>4 DEF EndResume, Fault, NoResume
  <2>5. CASE StopCleaner(c)
    BY <2>0, <2>5 DEF StopCleaner, NoResume
  <2>6. CASE CreateThread(c)
    BY <2>6, CreateFacts
  <2> QED BY <2>1, <2>2, <2>3, <2>4, <2>5, <2>6
<1>2. CASE ~StopCleaner(c) /\ ~CreateThread(c)
  <2>1. UNCHANGED <<stopped, cl>>
    BY <1>2 DEF BeginResume, ResumeEntry, MisreadResume, EndResume
  <2> QED BY <1>0, <1>1, <2>1, LifeSame
<1>3. CASE StopCleaner(c)
  <2>1. /\ cl'[c].pc \in {"wait", "scan"} /\ resume'[c].at = "no" /\ phase = "closing"
        /\ stopped' = stopped \cup {c}
        /\ \A d \in Cleaners \ {c} : cl'[d] = cl[d] /\ resume'[d] = resume[d]
    BY <1>0, <1>3 DEF StopCleaner, Parked, NoResume, RestartTypeOK, TypeOK
  <2>2. Stopping'
    BY <1>0, <1>1, <2>1 DEF LifeSound, Stopping
  <2> QED BY <1>1, <2>1, <2>2 DEF LifeSound, Calm, Filed, Alive
<1>4. CASE CreateThread(c)
  <2>1. Stopping'
    BY <1>4, CreateFacts DEF LifeSound, Stopping
  <2> QED BY <1>4, <2>1, CreateFacts DEF LifeSound, Calm, Filed, Alive
<1> QED BY <1>2, <1>3, <1>4

(* Shutdown, crash and start.                                            *)
LEMMA LifeEnds ==
    ASSUME RInv, LifeSound,
           BeginClose \/ BeginSave \/ EndSave \/ Opened \/ EndClose \/ Crash \/ Start
    PROVE  LifeSound'
<1> USE DEF vars, heapVars, listVars, lockVars, lifeVars
<1>0. RestartTypeOK /\ TypeOK /\ stopped \subseteq Cleaners
  BY LifeFacts DEF RInv, RestartTypeOK
<1>1. CASE BeginClose \/ BeginSave \/ EndSave \/ Opened
  <2>0. UNCHANGED <<consistent, hash, app, head, used, cl, resume, stopped, displaced>>
    BY <1>1 DEF BeginClose, BeginSave, EndSave, Opened
  <2>1. CASE BeginClose
    BY <2>0, <2>1 DEF BeginClose, LifeSound, Calm, Stopping, Filed, Alive, AppAt
  <2>2. CASE BeginSave
    BY <2>0, <2>2 DEF BeginSave, LifeSound, Calm, Stopping, Filed, Alive, Fault
  <2>3. CASE EndSave
    BY <2>0, <2>3 DEF EndSave, LifeSound, Calm, Stopping, Filed, Alive
  <2>4. CASE Opened
    BY <2>0, <2>4 DEF Opened, LifeSound, Calm, Stopping, Filed, Alive
  <2> QED BY <1>1, <2>1, <2>2, <2>3, <2>4
<1>2. CASE EndClose \/ Crash
  <2>1. phase' = "down" /\ app' = Idle /\ stopped' = {} /\ \A c \in Cleaners : resume'[c] = NoResume
    BY <1>2 DEF EndClose, Crash, End
  <2> QED BY <2>1 DEF LifeSound, Calm, Stopping, Filed, Alive, Idle, NoResume
<1>3. CASE Start
  <2>1. /\ phase' \in {"opening", "endless"} /\ UNCHANGED <<app, regular>> /\ phase = "down"
        /\ stopped = {}
    BY <1>0, <1>3 DEF Start, LifeSound, Stopping
  <2>2. app = Idle
    BY <1>0, <2>1 DEF RInv, AtRest, Alive
  <2>3. \A c \in Cleaners : resume'[c].at # "no" => resume'[c].regular
    <3>1. CASE UNCHANGED resume
      BY <3>1 DEF LifeSound
    <3>2. CASE InitCleaner /\ (Loads \/ RebuildEnds)
      <4>1. resume' = [c \in Cleaners |->
               IF Dealt(c) = None THEN NoResume
               ELSE [at |-> "wait", pos |-> 0, freed |-> 0, regular |-> regular]]
        BY <3>2 DEF InitCleaner
      <4>2. CASE Loads
        BY <4>1, <4>2 DEF Loads, NoResume
      <4>3. CASE RebuildEnds
        <5> QED BY <4>1, <4>3, NoneDealt DEF NoResume
      <4> QED BY <3>2, <4>2, <4>3
    <3> QED BY <1>3, <3>1, <3>2 DEF Start
  <2>4. \A c \in stopped' : /\ cl'[c].pc \in {"wait", "scan"}
                           /\ phase' = "opening" /\ consistent'
    <3>1. CASE UNCHANGED stopped
      BY <2>1, <3>1
    <3>2. CASE InitCleaner /\ consistent' /\ (Loads \/ RebuildEnds)
      BY <1>3, <3>2 DEF Start, InitCleaner, Parked
    <3> QED BY <1>3, <3>1, <3>2 DEF Start
  <2>5. Stopping'
    BY <2>1, <2>4 DEF Stopping
  <2> QED BY <2>1, <2>2, <2>3, <2>5 DEF LifeSound, Calm, Filed, Alive, Idle
<1> QED BY <1>1, <1>2, <1>3

(* All steps together.                                                   *)
LEMMA LifeNext ==
    ASSUME RInv, LifeSound, RestartNext
    PROVE  LifeSound'
  BY LifeRuns, LifeThreads, LifeEnds DEF RestartNext, ThreadNext

-----------------------------------------------------------------------------
(* What a crash or a shutdown leaves behind.                               *)

(* Nothing has gone wrong yet that the code does not handle.             *)
Clean == hazards = {} /\ faults = {}

(* Each crash may leave so much more in used_space than there is.          *)
Extra == crashes * (2 * Cap)
Counted(x) == \A s \in Segs : usedSpace[s] <= x + (IF InUse(s) THEN fill[s] ELSE 0)

(* The value that an object has according to a table.                    *)
ValueIn(h, id) == IF h[id] = Null THEN 0 ELSE At(h[id]).val

(* The table that the next start will find.                                *)
Findable(h) ==
    /\ Fits(h)
    /\ Loads => file.pairs = h
    /\ kept = [id \in Ids |-> ValueIn(h, id)]

(* used_space does not overflow for as many crashes as there may be.     *)
LEMMA ExtraFacts ==
    ASSUME RestartTypeOK
    PROVE  Extra \in Nat /\ 2 * Cap + Extra < SizeMod
<1>1. /\ crashes \in Nat /\ MaxCrashes \in Nat /\ crashes <= MaxCrashes
      /\ Cap \in Nat /\ SegSize \in Nat /\ Cap <= SegSize /\ SizeMod \in Nat
      /\ SizeMod > 2 * (MaxCrashes + 1) * SegSize
  BY ConstantFacts, RestartAssumption, SegAssumption, ClientAssumption DEF RestartTypeOK, Cap
<1> DEFINE m == 2 * Cap
<1>2. m \in Nat /\ m <= 2 * SegSize
  BY <1>1, SMT
<1>3. \A a, b, k \in Nat : a <= b => a * k <= b * k /\ a * k \in Nat
  BY SMT
<1>4. (MaxCrashes + 1) * (2 * SegSize) = 2 * (MaxCrashes + 1) * SegSize
  BY <1>1, SMT
<1> HIDE DEF m
<1>5. crashes * m <= MaxCrashes * m /\ crashes * m \in Nat
  BY <1>1, <1>2, <1>3
<1>6. m + MaxCrashes * m = (MaxCrashes + 1) * m /\ MaxCrashes * m \in Nat
  BY <1>1, <1>2, SMT
<1>7. m * (MaxCrashes + 1) <= (2 * SegSize) * (MaxCrashes + 1)
  <2>1. 2 * SegSize \in Nat /\ MaxCrashes + 1 \in Nat
    BY <1>1, SMT
  <2> QED BY <1>2, <1>3, <2>1
<1>8. (MaxCrashes + 1) * m <= (MaxCrashes + 1) * (2 * SegSize)
  BY <1>1, <1>2, <1>7, SMT
<1>9. m + crashes * m < SizeMod
  <2>1. (MaxCrashes + 1) * m \in Nat /\ (MaxCrashes + 1) * (2 * SegSize) \in Nat
    BY <1>1, <1>2, SMT
  <2> QED BY <1>1, <1>2, <1>4, <1>5, <1>6, <1>8, <2>1, SMT
<1> QED BY <1>5, <1>9 DEF Extra, m

(* A crash adds to it.                                                   *)
LEMMA ExtraGrows ==
    ASSUME RestartTypeOK, crashes' = crashes + 1
    PROVE  Extra' = Extra + 2 * Cap
<1>1. crashes \in Nat /\ Cap \in Nat
  BY ConstantFacts DEF RestartTypeOK
<1> QED BY <1>1, SMT DEF Extra

(* Steps that change marks alone keep what is written intact.            *)
LEMMA IntactKept ==
    ASSUME TypeOK, Intact, UNCHANGED <<fill, free, emergency>>, Similar,
           \A s \in Segs, p \in Cells : p < fill[s] =>
               content'[s][p].id = content[s][p].id /\ content'[s][p].ver = content[s][p].ver,
           ~Writing'
    PROVE  Intact'
<1>1. Rows'
  BY RowsKept DEF Intact, InUse
<1>2. \A s \in Segs, p \in Cells : Logged(s, p)' => Stamp(content[s][p])'
  BY DEF Intact, Stamped, Logged, Stamp, InUse, Similar
<1> QED BY <1>1, <1>2 DEF Intact, AppEntry, Stamped

(* pfree does,                                                           *)
LEMMA MarkedIntact ==
    ASSUME TypeOK, Intact, UNCHANGED <<fill, free, emergency>>,
           NEW place \in Places, content' = Marked(place), ~Writing'
    PROVE  Intact'
<1>1. Similar
  BY MarkedCells
<1>2. \A s \in Segs, p \in Cells : p < fill[s] =>
         content'[s][p].id = content[s][p].id /\ content'[s][p].ver = content[s][p].ver
  BY MarkedSame
<1> QED BY <1>1, <1>2, IntactKept

(* and so do steps that leave the written part of the segments alone.    *)
LEMMA WholeIntact ==
    ASSUME TypeOK, Intact, UNCHANGED <<fill, free, emergency>>, Whole, ~Writing'
    PROVE  Intact'
<1>1. Similar
  BY WholeSimilar
<1> QED BY <1>1, IntactKept DEF Whole

(* What the file holds for an object is what the table to be found has.    *)
LEMMA HeldOutcome ==
    ASSUME TypeOK, Calm, NEW h, h = Outcome,
           app.pc = "publish" => app.place # Null /\ At(app.place).val = app.entry.val
    PROVE  \A id \in Ids : Held(id) = ValueIn(h, id)
<1> SUFFICES ASSUME NEW id \in Ids PROVE Held(id) = ValueIn(h, id)
  OBVIOUS
<1>1. h[id] = IF id = app.id /\ app.pc = "publish" THEN app.place
              ELSE IF id = app.id /\ app.pc = "unmap" THEN Null ELSE hash[id]
  BY OutcomeFacts
<1>2. app.pc = "unmap" => app.entry.val = 0
  BY DEF Calm, Blank
<1> QED BY <1>1, <1>2 DEF Held, ValueIn

(* The crash itself.                                                       *)
LEMMA CrashFits ==
    ASSUME KeptOrFreed, TypeOK, Intact, NEW h, h = Outcome, Fits(h),
           \A id \in Ids : Held(id) = ValueIn(h, id),
           Loads => file.pairs = h, phase = "up" => ~regular,
           UNCHANGED <<file, regular, nextId, emergency>>, app' = Idle,
           WhileWriting => usedSpace[head] + Size(app.entry) < SizeMod,
           Between \/ WhileWriting \/ \E id \in FreeIds : WhileFreeing(id)
    PROVE  /\ Intact'
           /\ \E g : Findable(g)'
           /\ UNCHANGED <<head, free, fill>>
           /\ \A s \in Segs : \/ usedSpace'[s] = usedSpace[s]
                              \/ /\ s = head /\ Writing /\ HasRoom(s, app.entry) /\ app.entry \in Entry
                                 /\ usedSpace'[s] = usedSpace[s] + Size(app.entry)
<1> USE DEF heapVars
<1>0. ~Writing' /\ app \in AppStates
  BY DEF Writing, Idle, TypeOK
<1>1. CASE Between
  <2>1. Whole /\ UNCHANGED <<head, free, fill, usedSpace, content>>
    BY <1>1 DEF Between, Whole
  <2>2. \A s \in Segs : usedSpace'[s] \in Nat /\ usedSpace'[s] >= usedSpace[s]
    BY <2>1, SpaceTypes, SMT
  <2>3. Fits(h)' /\ \A id \in Ids : h[id] # Null => At(h[id])' = At(h[id])
    BY <2>1, <2>2, FitsKept
  <2>4. \A id \in Ids : ValueIn(h, id)' = ValueIn(h, id)
    BY <2>3 DEF ValueIn
  <2>5. kept' = [id \in Ids |-> ValueIn(h, id)']
    BY <1>1, <2>4 DEF Between
  <2>6. Findable(h)'
    BY <2>3, <2>5 DEF Findable, Loads
  <2> QED BY <1>0, <2>1, <2>6, WholeIntact
<1>2. CASE WhileWriting
  <2>1. /\ head \in Segs /\ app.entry \in Entry /\ HasRoom(head, app.entry) /\ Writing
        /\ content' = Written(head, fill[head], app.entry) /\ UNCHANGED <<fill, head, free>>
        /\ usedSpace' = [usedSpace EXCEPT ![head] = (@ + Size(app.entry)) % SizeMod]
        /\ kept' = [id \in Ids |-> Held(id)]
    BY <1>0, <1>2 DEF WhileWriting, TypeOK, AppStates, AppAt, Writing
  <2>2. Whole
    BY <2>1, WrittenWhole
  <2>3. /\ Size(app.entry) \in Nat /\ usedSpace[head] \in Nat /\ SizeMod \in Nat
        /\ usedSpace[head] + Size(app.entry) < SizeMod
    BY <1>2, <2>1, EntryFacts, SpaceTypes, ClientAssumption
  <2>4. (usedSpace[head] + Size(app.entry)) % SizeMod = usedSpace[head] + Size(app.entry)
    BY <2>3, ModSmall
  <2>5. /\ usedSpace'[head] = usedSpace[head] + Size(app.entry)
        /\ \A s \in Segs \ {head} : usedSpace'[s] = usedSpace[s]
    BY <2>1, <2>4 DEF TypeOK
  <2>6. \A s \in Segs : usedSpace'[s] \in Nat /\ usedSpace'[s] >= usedSpace[s]
    BY <2>1, <2>3, <2>5, SpaceTypes, SMT
  <2>7. Fits(h)' /\ \A id \in Ids : h[id] # Null => At(h[id])' = At(h[id])
    BY <2>1, <2>2, <2>6, FitsKept
  <2>8. \A id \in Ids : ValueIn(h, id)' = ValueIn(h, id)
    BY <2>7 DEF ValueIn
  <2>9. kept' = [id \in Ids |-> ValueIn(h, id)']
    BY <2>1, <2>8
  <2>10. Findable(h)'
    BY <2>7, <2>9 DEF Findable, Loads
  <2> QED BY <1>0, <2>1, <2>2, <2>5, <2>10, WholeIntact
<1>3. ASSUME NEW id \in FreeIds, WhileFreeing(id)
      PROVE  Intact' /\ (\E g : Findable(g)') /\ UNCHANGED <<head, free, fill, usedSpace>>
  <2>1. /\ phase = "up" /\ app.pc = "idle" /\ hash[id] # Null /\ content' = Marked(hash[id])
        /\ UNCHANGED <<usedSpace, fill, head, free>> /\ id \in Ids
        /\ kept' = [other \in Ids |-> IF other = id THEN 0 ELSE Held(other)]
    BY <1>3, ClientAssumption DEF WhileFreeing, AppAt
  <2>2. h[id] = hash[id] /\ hash[id] \in Places
    BY <2>1, OutcomeFacts, HashPlace
  <2>3. PICK g : g = [h EXCEPT ![id] = Null]
    OBVIOUS
  <2>4. Fits(g)' /\ \A other \in Ids : g[other] # Null => At(g[other])' = At(h[other])
    <3>1. Rows /\ h[id] # Null /\ content' = Marked(h[id])
      BY <2>1, <2>2 DEF Intact
    <3>2. UNCHANGED <<fill, free, emergency, nextId>> /\ UNCHANGED usedSpace
      BY <2>1
    <3> QED BY <2>3, <3>1, <3>2, FreeFits, SMTT(20), ZenonT(20)
  <2>5. h \in [Ids -> Places \cup {Null}]
    BY DEF Fits
  <2>6. \A other \in Ids : ValueIn(g, other)' = IF other = id THEN 0 ELSE Held(other)
    BY <2>1, <2>3, <2>4, <2>5 DEF ValueIn
  <2>7. kept' = [other \in Ids |-> ValueIn(g, other)']
    BY <2>1, <2>6
  <2>8. Findable(g)'
    BY <2>1, <2>4, <2>7 DEF Findable, Loads
  <2>9. Intact'
    BY <1>0, <2>1, <2>2, MarkedIntact
  <2> QED BY <2>1, <2>8, <2>9
<1> QED BY <1>1, <1>2, <1>3

-----------------------------------------------------------------------------
(* The inductive invariant behind Recovered.                               *)

(* The inductive invariant for a heap over several runs: what is written *)
(* is intact; while a process runs on an accepted heap, that is the      *)
(* invariant of LogHeap with some of used_space too many; without a      *)
(* process, or on a rejected heap, the head is in the log; on a rejected *)
(* heap the table that its calls are making fits the log; and without a  *)
(* process there is a table that the next start will find.               *)
Memory == Clean => Intact
Accepted == Alive /\ consistent /\ Clean => \E x : x = Extra /\ Accept(x)
Unattended == (~Alive \/ ~consistent) /\ Clean => HeadInUse /\ \E x : x = Extra /\ Counted(x)
Rejected == Alive /\ ~consistent /\ Clean => \E h : h = Outcome /\ Fits(h)
Down == phase = "down" /\ Clean => \E h : Findable(h)

HeapKept == Memory /\ Accepted /\ Unattended /\ Rejected /\ Down
GInv == RInv /\ LifeSound /\ HeapKept

(* What has gone wrong stays so.                                         *)
LEMMA CleanBefore ==
    ASSUME RInv, RestartNext, Clean'
    PROVE  Clean
<1> USE DEF vars, heapVars, listVars, lockVars, lifeVars
<1>0. TypeOK
  BY DEF RInv, RestartTypeOK
<1>1. CASE ClientRuns \/ \E c \in Cleaners : ThreadRuns(c)
  <2>1. hazards \subseteq hazards' /\ faults' = faults
    BY <1>0, <1>1, HazardsGrow DEF ClientRuns, ThreadRuns, Next, NewCall
  <2> QED BY <2>1 DEF Clean
<1>2. ASSUME NEW c \in Cleaners, BeginResume(c) \/ ResumeEntry(c) \/ MisreadResume(c) \/ EndResume(c) \/ StopCleaner(c)
      PROVE  Clean
  BY <1>2 DEF BeginResume, ResumeEntry, MisreadResume, EndResume, StopCleaner, Fault, Meet, Clean
<1>6. ASSUME NEW c \in Cleaners, CreateThread(c) PROVE Clean
  BY <1>6, CreateFacts DEF Clean
<1>3. CASE BeginClose \/ BeginSave \/ EndSave \/ Opened \/ EndClose
  BY <1>3 DEF BeginClose, BeginSave, EndSave, Opened, EndClose, End, Fault, Clean
<1>4. CASE Crash
  BY <1>4 DEF Crash, End, Clean
<1>5. CASE Start
  BY <1>5 DEF Start, Clean
<1> QED BY <1>1, <1>2, <1>3, <1>4, <1>5, <1>6 DEF RestartNext, ThreadNext

(* What may be too many in used_space, in one step.                      *)
LEMMA ExtraSame ==
    ASSUME RestartTypeOK, NEW x, x = Extra
    PROVE  x \in Nat /\ 2 * Cap + x < SizeMod /\ (crashes' = crashes => Extra' = x)
  BY ExtraFacts DEF Extra

(* A step of LogHeap on an accepted heap.                                  *)
LEMMA KeptRuns ==
    ASSUME KeptOrFreed, GInv, Clean, Clean', consistent, Alive, Alive',
           Next, UNCHANGED <<consistent, crashes>>
    PROVE  HeapKept'
<1>0. RestartTypeOK /\ IInv /\ Intact /\ Alive' /\ consistent' /\ phase' # "down"
  BY AcceptedInv DEF GInv, RInv, HeapKept, Memory, Alive
<1>1. PICK x : x = Extra /\ Accept(x)
  BY DEF GInv, HeapKept, Accepted
<1>2. x \in Nat /\ 2 * Cap + x < SizeMod /\ Extra' = x
  BY <1>0, <1>1, ExtraSame
<1>3. Intact' /\ Accept(x)'
  BY <1>0, <1>1, <1>2, AcceptNext DEF Clean
<1> QED BY <1>0, <1>2, <1>3 DEF HeapKept, Memory, Accepted, Unattended, Rejected, Down

(* A step that leaves the heap alone.                                      *)
LEMMA KeptSame ==
    ASSUME GInv, Clean, Clean', Alive, Alive', UNCHANGED <<vars, consistent, crashes>>
    PROVE  HeapKept'
<1> USE DEF vars, heapVars, listVars, lockVars
<1>0. RestartTypeOK /\ TypeOK /\ Intact /\ phase' # "down" /\ consistent \in BOOLEAN
  BY LifeFacts DEF GInv, RInv, HeapKept, Memory, Alive
<1>1. CASE consistent
  <2>1. PICK x : x = Extra /\ Accept(x)
    BY <1>1 DEF GInv, HeapKept, Accepted
  <2>2. x \in Nat /\ Extra' = x
    BY <1>0, <2>1, ExtraSame
  <2>3. Intact' /\ Accept(x)'
    BY <1>0, <2>1, <2>2, AcceptThreads
  <2> QED BY <1>0, <1>1, <2>2, <2>3 DEF HeapKept, Memory, Accepted, Unattended, Rejected, Down
<1>2. CASE ~consistent
  <2>1. PICK h : h = Outcome /\ Fits(h)
    BY <1>2 DEF GInv, HeapKept, Rejected
  <2>2. PICK x : x = Extra /\ Counted(x)
    BY <1>2 DEF GInv, HeapKept, Unattended
  <2>3. x \in Nat /\ Extra' = x
    BY <1>0, <2>2, ExtraSame
  <2>4. Whole /\ Similar
    BY DEF Whole, Similar
  <2>5. \A s \in Segs : usedSpace'[s] \in Nat /\ usedSpace'[s] >= usedSpace[s]
    BY <1>0, SpaceTypes, SMT
  <2>6. Fits(h)' /\ h = Outcome'
    BY <1>0, <2>1, <2>4, <2>5, FitsKept DEF Outcome
  <2>7. HeadInUse' /\ Counted(x)'
    BY <1>2, <2>2 DEF GInv, HeapKept, Unattended, HeadInUse, InUse, Counted
  <2>8. Intact'
    BY <1>0 DEF Intact, Rows, Row, InUse, AppEntry, Stamped, Stamp, Logged, Writing
  <2> QED BY <1>0, <1>2, <2>3, <2>6, <2>7, <2>8 DEF HeapKept, Memory, Accepted, Unattended, Rejected, Down
<1> QED BY <1>0, <1>1, <1>2

(* What pfree does to a heap that was rejected.                            *)
LEMMA KeptRejected ==
    ASSUME KeptOrFreed, GInv, Clean, Clean', ~consistent, ClientRuns
    PROVE  HeapKept'
<1> USE DEF lifeVars
<1>0. /\ RestartTypeOK /\ TypeOK /\ Intact /\ phase = "up" /\ phase' = "up" /\ Alive /\ Alive' /\ ~consistent'
      /\ UNCHANGED crashes /\ app.pc \in {"idle", "unmap"} /\ Calm /\ app \in AppStates
  BY LifeFacts DEF GInv, RInv, OnlyFrees, HeapKept, Memory, ClientRuns, Alive, LifeSound, TypeOK
<1>1. PICK h : h = Outcome /\ Fits(h)
  BY <1>0 DEF GInv, HeapKept, Rejected
<1>2. PICK x : x = Extra /\ Counted(x) /\ HeadInUse
  BY <1>0 DEF GInv, HeapKept, Unattended
<1>3. x \in Nat /\ Extra' = x
  BY <1>0, <1>2, ExtraSame
<1>4. Unmap \/ \E id \in FreeIds : BeginFree(id)
  BY <1>0 DEF ClientRuns, CallStep, WriteEntry, SealHead, TakeHead, OutOfMemory,
     Publish, NeedsHead, AppAt
<1>5. /\ Intact' /\ HeadInUse' /\ Counted(x)'
      /\ \E g : g = Outcome' /\ Fits(g)'
  <2>1. CASE Unmap
    <3>1. /\ app' = Idle /\ app.pc = "unmap" /\ hash' = [hash EXCEPT ![app.id] = Null]
          /\ UNCHANGED <<content, fill, usedSpace, head, free, emergency, nextId>>
      BY <2>1 DEF Unmap, AppAt, heapVars, listVars
    <3>2. Whole
      BY <3>1 DEF Whole
    <3>3. \A s \in Segs : usedSpace'[s] \in Nat /\ usedSpace'[s] >= usedSpace[s]
      BY <1>0, <3>1, SpaceTypes, SMT
    <3>4. Fits(h)'
      BY <1>0, <1>1, <3>1, <3>2, <3>3, FitsKept
    <3>5. h = Outcome'
      <4>1. \A id \in Ids : hash'[id] = IF id = app.id THEN Null ELSE hash[id]
        BY <1>0, <3>1 DEF TypeOK
      <4> QED BY <1>1, <3>1, <4>1 DEF Outcome, Idle
    <3>6. Intact'
      BY <1>0, <3>1, <3>2, WholeIntact DEF Writing, Idle
    <3>7. HeadInUse' /\ Counted(x)'
      BY <1>2, <3>1 DEF HeadInUse, InUse, Counted
    <3> QED BY <3>4, <3>5, <3>6, <3>7
  <2>2. ASSUME NEW id \in FreeIds, BeginFree(id)
        PROVE  Intact' /\ HeadInUse' /\ Counted(x)' /\ \E g : g = Outcome' /\ Fits(g)'
    <3>1. /\ app.pc = "idle" /\ hash[id] # Null /\ content' = Marked(hash[id]) /\ id \in Ids
          /\ Discount(hash[id]) /\ app'.pc = "unmap" /\ app'.id = id
          /\ UNCHANGED <<fill, head, free, emergency, nextId, hash>>
      BY <2>2, ClientAssumption DEF BeginFree, AppAt, listVars, Idle
    <3>2. h \in [Ids -> Places \cup {Null}] /\ h = hash /\ hash[id] \in Places
      <4>1. \A i \in Ids : h[i] = hash[i]
        BY <1>0, <1>1, <3>1, OutcomeFacts
      <4> QED BY <1>0, <1>1, <3>1, <4>1, HashPlace DEF Fits, TypeOK
    <3>3. PICK g : g = [h EXCEPT ![id] = Null]
      OBVIOUS
    <3>4. Fits(g)' /\ \A s \in Segs : usedSpace'[s] <= usedSpace[s]
      <4>1. Rows /\ h[id] # Null /\ content' = Marked(h[id]) /\ Discount(h[id])
        BY <1>0, <3>1, <3>2 DEF Intact
      <4>2. UNCHANGED <<fill, free, emergency, nextId>>
        BY <3>1
      <4> QED BY <1>0, <1>1, <3>3, <4>1, <4>2, FreeFits
    <3>5. g = Outcome'
      <4>1. Outcome' = [i \in Ids |-> IF i = id THEN Null ELSE hash[i]]
        BY <3>1 DEF Outcome
      <4>2. g = [i \in Ids |-> IF i = id THEN Null ELSE hash[i]]
        BY <3>2, <3>3
      <4> QED BY <4>1, <4>2
    <3>6. Intact'
      BY <1>0, <3>1, <3>2, MarkedIntact DEF Writing
    <3>7. HeadInUse'
      BY <1>2, <3>1 DEF HeadInUse, InUse
    <3>8. Counted(x)'
      <4> SUFFICES ASSUME NEW s \in Segs
                   PROVE  usedSpace'[s] <= x + (IF InUse(s)' THEN fill'[s] ELSE 0)
        BY DEF Counted
      <4>1. usedSpace[s] <= x + (IF InUse(s) THEN fill[s] ELSE 0)
        BY <1>2 DEF Counted
      <4>2. (InUse(s)' <=> InUse(s)) /\ fill'[s] = fill[s] /\ fill[s] \in Nat /\ usedSpace[s] \in Nat
        BY <1>0, <3>1, SpaceTypes DEF InUse
      <4>3. usedSpace'[s] \in Int
        <5>1. usedSpace' \in [Segs -> 0 .. SizeMod - 1]
          BY <1>0, <3>1, <3>2, DiscountType
        <5> QED BY <5>1, ClientAssumption, SMT
      <4> QED BY <1>3, <3>4, <4>1, <4>2, <4>3, SMT
    <3> QED BY <3>4, <3>5, <3>6, <3>7, <3>8
  <2> QED BY <1>4, <2>1, <2>2
<1> QED BY <1>0, <1>3, <1>5 DEF HeapKept, Memory, Accepted, Unattended, Rejected, Down

(* A thread that resumes a segment, or ends.                             *)
LEMMA KeptThreads ==
    ASSUME KeptOrFreed, GInv, Clean, Clean', NEW c \in Cleaners,
           BeginResume(c) \/ ResumeEntry(c) \/ MisreadResume(c) \/ EndResume(c) \/ StopCleaner(c)
    PROVE  HeapKept'
<1> USE DEF vars, heapVars, listVars, lockVars, lifeVars
<1>0. /\ RestartTypeOK /\ TypeOK /\ Alive /\ consistent
      /\ UNCHANGED <<consistent, crashes>> /\ Alive' /\ phase' # "down"
      /\ ~StopCleaner(c) => resume[c].regular
  <2>1. /\ phase \in {"opening", "up", "closing"} /\ consistent
        /\ UNCHANGED <<phase, consistent, crashes>> /\ (~StopCleaner(c) => resume[c].at # "no")
    BY DEF BeginResume, ResumeEntry, MisreadResume, EndResume, StopCleaner, Works, Walking
  <2> QED BY <2>1, LifeFacts DEF Alive, GInv, RInv, LifeSound
<1>1. CASE ~StopCleaner(c)
  <2>1. CASE BeginResume(c)
    <3>1. UNCHANGED vars
      BY <2>1 DEF BeginResume
    <3> QED BY <1>0, <3>1, KeptSame
  <2>2. CASE ResumeEntry(c)
    <3>1. ~Duplicate(c)
      BY <1>0, <1>1 DEF Duplicate
    <3>2. UNCHANGED vars
      BY <2>2, <3>1 DEF ResumeEntry
    <3> QED BY <1>0, <3>2, KeptSame
  <2>3. CASE MisreadResume(c)
    BY <2>3 DEF MisreadResume, Meet, Clean
  <2>4. CASE EndResume(c)
    <3>1. resume[c].pos = fill[cl[c].seg]
      BY <2>4 DEF EndResume, Fault, Clean
    <3>2. fill' = fill
      BY <1>0, <2>4, <3>1 DEF EndResume, TypeOK
    <3>3. UNCHANGED vars
      BY <2>4, <3>2 DEF EndResume
    <3> QED BY <1>0, <3>3, KeptSame
  <2> QED BY <1>1, <2>1, <2>2, <2>3, <2>4
<1>2. CASE StopCleaner(c)
  <2>1. PICK x : x = Extra /\ Accept(x)
    BY <1>0 DEF GInv, HeapKept, Accepted
  <2>2. x \in Nat /\ Extra' = x
    BY <1>0, <2>1, ExtraSame
  <2>3. UNCHANGED <<heapVars, listVars, lockVars, nextId, hash, app>>
    BY <1>2 DEF StopCleaner
  <2>4. ~Cleans(c) /\ cl'[c].pc \in {"wait", "scan"} /\ \A d \in Cleaners \ {c} : cl'[d] = cl[d]
    BY <1>0, <1>2 DEF StopCleaner, Cancellable, Cleans, Parked, TypeOK
  <2>5. Intact
    BY DEF GInv, HeapKept, Memory
  <2>6. \A d \in Cleaners : cl'[d] = cl[d] \/ (~Cleans(d) /\ cl'[d].pc \in {"wait", "scan"})
    BY <2>4
  <2>7. Intact' /\ Accept(x)'
    BY <1>0, <2>1, <2>2, <2>3, <2>5, <2>6, AcceptThreads
  <2> QED BY <1>0, <2>2, <2>7 DEF HeapKept, Memory, Accepted, Unattended, Rejected, Down
<1> QED BY <1>1, <1>2

-----------------------------------------------------------------------------
(* The end of a process.                                                   *)

(* When the process ends, the head is the head or sealed.                  *)
LEMMA HeadAtEnd ==
    ASSUME RInv, LifeSound, Alive, consistent, displaced => app.pc # "takeHead"
    PROVE  HeadInUse
<1>1. SegmentsPartitioned
  BY DEF RInv, AcceptedPartition
<1>2. CASE app.pc = "takeHead"
  BY <1>1, <1>2 DEF LifeSound, SegmentsPartitioned, HeadInUse, InUse
<1>3. CASE app.pc # "takeHead"
  BY <1>1, <1>3 DEF SegmentsPartitioned, HeadInUse, InUse, HeadSet
<1> QED BY <1>2, <1>3

(* What used_space may count when the process ends.                      *)
LEMMA CountedAtEnd ==
    ASSUME TypeOK, NEW x \in Nat, Spaces(x)
    PROVE  /\ Counted(x + Cap)
           /\ (\A s \in Segs : ~Resetting(s)) => Counted(x)
<1>1. \A s \in Segs : /\ fill[s] \in Nat /\ usedSpace[s] \in Nat /\ Cap \in Nat
                      /\ Slack(s, x) \in Nat /\ Slack(s, x) <= Cap + x
                      /\ ~Resetting(s) => Slack(s, x) = x
                      /\ InUse(s) => usedSpace[s] <= fill[s] + Slack(s, x)
                      /\ ~InUse(s) => usedSpace[s] <= Slack(s, x)
  BY SpaceTypes, SlackFacts, ConstantFacts DEF Spaces, SpaceOK
<1>2. \A s \in Segs : usedSpace[s] <= x + Cap + (IF InUse(s) THEN fill[s] ELSE 0)
  BY <1>1, SMT
<1>3. (\A s \in Segs : ~Resetting(s)) =>
         \A s \in Segs : usedSpace[s] <= x + (IF InUse(s) THEN fill[s] ELSE 0)
  BY <1>1, SMT
<1> QED BY <1>2, <1>3 DEF Counted

(* A crash at any point: between two steps, within the writing of an     *)
(* entry or within pfree.                                                *)
LEMMA KeptCrash ==
    ASSUME KeptOrFreed, GInv, Clean, Clean', Crash
    PROVE  HeapKept'
<1>0. /\ RestartTypeOK /\ TypeOK /\ Intact /\ Alive /\ Calm /\ app \in AppStates /\ RInv /\ LifeSound
      /\ consistent \in BOOLEAN /\ phase' = "down" /\ ~Alive'
      /\ crashes' = crashes + 1 /\ app' = Idle
      /\ UNCHANGED <<file, regular, nextId, emergency>>
  BY LifeFacts DEF GInv, RInv, HeapKept, Memory, LifeSound, Crash, End, TypeOK, Alive
<1>1. /\ CrashFaults = {}
      /\ Between \/ WhileWriting \/ \E id \in FreeIds : WhileFreeing(id)
  BY DEF Crash, Clean
<1>2. /\ ~(app.locked /\ app.pc \in {"append", "takeHead"}) /\ ~displaced /\ ~HalfCleaned
      /\ Loads => file.pairs = hash
  BY <1>1 DEF CrashFaults, Loads
<1>3. phase = "up" => ~regular
  BY <1>0 DEF LifeSound, Filed
<1>4. PICK x : x = Extra
  OBVIOUS
<1>5. x \in Nat /\ 2 * Cap + x < SizeMod /\ Extra' = x + 2 * Cap
  BY <1>0, <1>4, ExtraSame, ExtraGrows
<1>6. PICK h : /\ h = Outcome /\ Fits(h) /\ HeadInUse
               /\ app.pc = "publish" => app.place # Null /\ At(app.place).val = app.entry.val
               /\ Counted(x + Cap)
  <2>1. CASE consistent
    <3>1. IInv /\ HeadInUse
      BY <1>0, <1>2, <2>1, AcceptedInv, HeadAtEnd
    <3>2. Accept(x)
      BY <1>0, <1>4, <2>1 DEF GInv, HeapKept, Accepted
    <3>3. \E h : h = Outcome /\ Fits(h)
      BY <1>0, <1>2, <1>5, <3>1, <3>2, FitsAccepted
    <3>4. app.pc = "publish" => app.place # Null /\ At(app.place).val = app.entry.val
      BY <3>2, PlaceFacts DEF Accept, HInv, AppSound, At
    <3>5. Counted(x + Cap)
      BY <1>0, <1>5, <3>2, CountedAtEnd DEF Accept
    <3> QED BY <3>1, <3>3, <3>4, <3>5
  <2>2. CASE ~consistent
    <3>1. /\ \E h : h = Outcome /\ Fits(h)
          /\ HeadInUse /\ Counted(x)
      BY <1>0, <1>4, <2>2 DEF GInv, HeapKept, Rejected, Unattended
    <3>2. app.pc # "publish"
      BY <1>0, <2>2 DEF RInv, OnlyFrees
    <3>3. \A s \in Segs : fill[s] \in Nat /\ usedSpace[s] \in Nat /\ Cap \in Nat
      BY <1>0, SpaceTypes, ConstantFacts
    <3>4. Counted(x + Cap)
      <4>1. \A s \in Segs : usedSpace[s] <= x + (IF InUse(s) THEN fill[s] ELSE 0)
        BY <3>1 DEF Counted
      <4>2. \A s \in Segs : usedSpace[s] <= x + Cap + (IF InUse(s) THEN fill[s] ELSE 0)
        BY <1>5, <3>3, <4>1, SMT
      <4> QED BY <4>2 DEF Counted
    <3> QED BY <3>1, <3>2, <3>4
  <2> QED BY <1>0, <2>1, <2>2
<1>7. \A id \in Ids : Held(id) = ValueIn(h, id)
  BY <1>0, <1>6, HeldOutcome
<1>8. Loads => file.pairs = h
  <2> SUFFICES ASSUME Loads PROVE file.pairs = h
    OBVIOUS
  <2>1. regular /\ file.pairs = hash
    BY <1>2 DEF Loads
  <2>2. app.pc = "idle"
    BY <1>0, <2>1 DEF LifeSound, Filed
  <2>3. hash = [id \in Ids |-> hash[id]]
    BY <1>0 DEF TypeOK
  <2>4. Outcome = hash
    BY <2>2, <2>3 DEF Outcome
  <2> QED BY <1>6, <2>1, <2>4
<1>9. head \in Segs /\ Writing /\ HasRoom(head, app.entry) =>
         /\ Size(app.entry) \in Nat /\ Size(app.entry) <= Cap
         /\ usedSpace[head] + Size(app.entry) < SizeMod
  <2> SUFFICES ASSUME head \in Segs, Writing, HasRoom(head, app.entry)
               PROVE  /\ Size(app.entry) \in Nat /\ Size(app.entry) <= Cap
                      /\ usedSpace[head] + Size(app.entry) < SizeMod
    OBVIOUS
  <2>1. app.entry \in Entry
    BY <1>0 DEF AppStates
  <2>2. /\ Size(app.entry) \in Nat /\ fill[head] \in Nat /\ usedSpace[head] \in Nat
        /\ Cap \in Nat /\ SizeMod \in Nat /\ Size(app.entry) <= Cap - fill[head]
    BY <1>0, <2>1, EntryFacts, SpaceTypes, ConstantFacts, ClientAssumption DEF HasRoom
  <2>3. usedSpace[head] <= x + Cap + fill[head]
    <3>1. usedSpace[head] <= x + Cap + (IF InUse(head) THEN fill[head] ELSE 0)
      BY <1>6 DEF Counted
    <3> QED BY <1>5, <2>2, <3>1, SMT
  <2> QED BY <1>5, <2>2, <2>3, SMT
<1>10. WhileWriting => head \in Segs /\ Writing /\ HasRoom(head, app.entry)
  BY <1>0, <1>1 DEF WhileWriting, TypeOK, AppAt, Writing
<1>11. /\ Intact'
       /\ \E g : Findable(g)'
       /\ UNCHANGED <<head, free, fill>>
       /\ \A s \in Segs : \/ usedSpace'[s] = usedSpace[s]
                          \/ /\ s = head /\ Writing /\ HasRoom(s, app.entry) /\ app.entry \in Entry
                             /\ usedSpace'[s] = usedSpace[s] + Size(app.entry)
  <2>1. WhileWriting => usedSpace[head] + Size(app.entry) < SizeMod
    BY <1>9, <1>10
  <2> QED BY <1>0, <1>1, <1>3, <1>6, <1>7, <1>8, <2>1, CrashFits
<1>12. HeadInUse' /\ \A s : InUse(s)' <=> InUse(s)
  BY <1>0, <1>6, <1>11 DEF HeadInUse, InUse
<1>13. Counted(x + 2 * Cap)'
  <2> SUFFICES ASSUME NEW s \in Segs
               PROVE  usedSpace'[s] <= x + 2 * Cap + (IF InUse(s)' THEN fill'[s] ELSE 0)
    BY DEF Counted
  <2>1. usedSpace[s] <= x + Cap + (IF InUse(s) THEN fill[s] ELSE 0)
    BY <1>6 DEF Counted
  <2>2. fill'[s] = fill[s] /\ fill[s] \in Nat /\ usedSpace[s] \in Nat /\ Cap \in Nat
    BY <1>0, <1>11, SpaceTypes, ConstantFacts
  <2>3. CASE usedSpace'[s] = usedSpace[s]
    BY <1>5, <1>12, <2>1, <2>2, <2>3, SMT
  <2>4. CASE s = head /\ Writing /\ HasRoom(s, app.entry) /\ usedSpace'[s] = usedSpace[s] + Size(app.entry)
    <3>1. Size(app.entry) \in Nat /\ Size(app.entry) <= Cap
      BY <1>9, <2>4
    <3> QED BY <1>5, <1>12, <2>1, <2>2, <2>4, <3>1, SMT
  <2> QED BY <1>11, <2>3, <2>4
<1> QED BY <1>0, <1>5, <1>11, <1>12, <1>13 DEF HeapKept, Memory, Accepted, Unattended, Rejected, Down

(* The end of a regular shutdown.                                        *)
LEMMA KeptClose ==
    ASSUME KeptOrFreed, GInv, Clean, Clean', EndClose
    PROVE  HeapKept'
<1> USE DEF heapVars
<1>0. /\ RestartTypeOK /\ TypeOK /\ Intact /\ Alive /\ phase = "saved" /\ Calm /\ RInv /\ LifeSound
      /\ consistent \in BOOLEAN /\ phase' = "down" /\ ~Alive' /\ app.pc = "idle"
      /\ app' = Idle /\ regular' = TRUE
      /\ UNCHANGED <<file, content, fill, usedSpace, head, free, emergency, nextId, crashes>>
  BY LifeFacts DEF GInv, RInv, HeapKept, Memory, LifeSound, EndClose, End, Alive
<1>1. PICK x : x = Extra
  OBVIOUS
<1>2. x \in Nat /\ Extra' = x
  BY <1>0, <1>1, ExtraSame
<1>3. PICK h : h = Outcome /\ Fits(h) /\ HeadInUse /\ Counted(x)
  <2>1. CASE consistent
    <3>1. IInv /\ HeadInUse
      BY <1>0, <2>1, AcceptedInv, HeadAtEnd
    <3>2. Accept(x)
      BY <1>0, <1>1, <2>1 DEF GInv, HeapKept, Accepted
    <3>3. \A c \in Cleaners : cl[c].pc \in {"wait", "scan"}
      BY <1>0, <2>1 DEF LifeSound, Stopping
    <3>4. ~HalfCleaned /\ \A s \in Segs : ~Resetting(s)
      BY <3>3 DEF HalfCleaned, Walked, Cleans, Resetting
    <3>5. ~(app.locked /\ app.pc \in {"append", "takeHead"})
      BY <1>0
    <3>6. \E h : h = Outcome /\ Fits(h)
      BY <1>0, <1>2, <3>1, <3>2, <3>4, <3>5, FitsAccepted
    <3>7. Counted(x)
      BY <1>0, <1>2, <3>2, <3>4, CountedAtEnd DEF Accept
    <3> QED BY <3>1, <3>6, <3>7
  <2>2. CASE ~consistent
    BY <1>0, <1>1, <2>2 DEF GInv, HeapKept, Rejected, Unattended
  <2> QED BY <1>0, <2>1, <2>2
<1>4. h = hash
  <2>1. hash = [id \in Ids |-> hash[id]]
    BY <1>0 DEF TypeOK
  <2> QED BY <1>0, <1>3, <2>1 DEF Outcome
<1>5. Whole /\ ~Writing'
  BY <1>0 DEF Whole, Writing, Idle
<1>6. Intact'
  BY <1>0, <1>5, WholeIntact
<1>7. Fits(h)' /\ \A id \in Ids : ValueIn(h, id)' = ValueIn(h, id)
  <2>1. \A s \in Segs : usedSpace'[s] \in Nat /\ usedSpace'[s] >= usedSpace[s]
    BY <1>0, SpaceTypes, SMT
  <2>2. Fits(h)' /\ \A id \in Ids : h[id] # Null => At(h[id])' = At(h[id])
    BY <1>0, <1>3, <1>5, <2>1, FitsKept
  <2> QED BY <2>2 DEF ValueIn
<1>8. Findable(h)'
  <2>1. \A id \in Ids : Held(id) = ValueIn(h, id)
    BY <1>0, <1>3, HeldOutcome
  <2>2. kept' = [id \in Ids |-> ValueIn(h, id)']
    BY <1>7, <2>1 DEF EndClose
  <2>3. Loads' => file.pairs = h
    BY <1>0, <1>4 DEF Loads, LifeSound, Filed, Clean
  <2> QED BY <1>0, <1>7, <2>2, <2>3 DEF Findable
<1>9. HeadInUse' /\ Counted(x)'
  BY <1>0, <1>3 DEF HeadInUse, InUse, Counted
<1> QED BY <1>0, <1>2, <1>6, <1>8, <1>9 DEF HeapKept, Memory, Accepted, Unattended, Rejected, Down

-----------------------------------------------------------------------------
(* The start: a table that fits the log makes the heap what it was.        *)
LEMMA StartAccepted ==
    ASSUME KeptOrFreed, TypeOK, HeadInUse, NEW h, Fits(h), hash' = h,
           app = Idle, NEW x \in Nat, Counted(x),
           UNCHANGED <<heapVars, listVars, lockVars, nextId, app>>,
           \A c \in Cleaners : cl'[c].pc \in {"wait", "scan"}
    PROVE  Accept(x)'
<1> USE DEF heapVars, listVars, lockVars
<1>0. /\ app' = Idle /\ ~Writing' /\ InFlight' = {} /\ app'.pc = "idle" /\ app'.place = Null
      /\ \A s : InUse(s)' <=> InUse(s)
      /\ h \in [Ids -> Places \cup {Null}]
  BY DEF Idle, Writing, InFlight, InUse, Fits
<1>1. AppSound'
  BY <1>0 DEF AppSound
<1>2. \A id \in Ids : h[id] # Null => SoundAt(h[id], id) /\ SoundAt(h[id], id)'
  BY <1>0 DEF Fits, SoundAt, At
<1>3. Hashed'
  <2>1. \A id \in Ids : hash'[id] # Null => SoundAt(hash[id], id)'
    BY <1>2 DEF SoundAt, At
  <2> QED BY <2>1 DEF Hashed
<1>4. Walks'
  BY DEF Walks, WalkOK, OnWalk
<1>5. Spaces(x)'
  <2> SUFFICES ASSUME NEW s \in Segs PROVE SpaceOK(s, x)'
    BY DEF Spaces
  <2>1. ~Resetting(s)'
    BY DEF Resetting
  <2>2. Slack(s, x)' = x
    BY <2>1 DEF Slack
  <2>3. usedSpace[s] <= x + (IF InUse(s) THEN fill[s] ELSE 0)
    BY DEF Counted
  <2>4. /\ fill[s] \in Nat /\ usedSpace[s] \in Nat
    BY SpaceTypes
  <2>5. InUse(s) => LiveSpace(s)' <= usedSpace[s]
    <3> SUFFICES ASSUME InUse(s) PROVE LiveSpace(s)' <= usedSpace[s]
      OBVIOUS
    <3>1. LiveCells(s)' \subseteq Listed(h, s)
      <4> SUFFICES ASSUME NEW p \in 0 .. fill[s] - 1, NEW id \in Ids, h[id] = <<s, p>>
                   PROVE  p \in Listed(h, s)
        BY <1>0, PlaceFacts DEF LiveCells
      <4>1. p \in Cells
        BY <1>0, PlaceFacts DEF Places
      <4> QED BY <4>1 DEF Listed
    <3>2. LiveSpace(s)' = Cardinality(Area(content[s], LiveCells(s)'))
      BY DEF LiveSpace, LiveArea, Area
    <3>3. PICK T : T = LiveCells(s)'
      OBVIOUS
    <3>4. Cardinality(Area(content[s], T)) <= Cardinality(Area(content[s], Listed(h, s)))
      BY <3>1, <3>3, AreaSubset
    <3>5. Cardinality(Area(content[s], Listed(h, s))) <= usedSpace[s]
      BY DEF Fits
    <3>6. Cardinality(Area(content[s], T)) \in Nat /\ Cardinality(Area(content[s], Listed(h, s))) \in Nat
      BY AreaFinite
    <3> QED BY <2>4, <3>2, <3>3, <3>4, <3>5, <3>6, SMT
  <2>6. InUse(s) => usedSpace[s] <= fill[s] + x
    BY <2>3, <2>4, SMT
  <2>7. ~InUse(s) => usedSpace[s] <= x
    BY <2>3, <2>4, SMT
  <2> QED BY <1>0, <2>2, <2>5, <2>6, <2>7 DEF SpaceOK
<1>6. Ordered'
  <2> SUFFICES ASSUME NEW s \in Segs, NEW p \in Cells, Valid(s, p)'
               PROVE  VersionOK(s, p, content[s][p])'
    BY DEF Ordered
  <2>1. FitsLog(h, s, p)
    BY <1>0 DEF Valid, Fits
  <2>2. PICK i \in Ids : i = content[s][p].id /\ h[i] # Null
    BY <2>1 DEF FitsLog
  <2>3. h[i] = <<s, p>> \/ (i \in Changing /\ content[s][p].ver < At(h[i]).ver)
    BY <2>1, <2>2 DEF FitsLog
  <2>4. At(h[i])' = At(h[i])
    BY DEF At
  <2> QED BY <1>0, <2>2, <2>3, <2>4 DEF VersionOK, At
<1>7. Known' /\ Calls'
  BY <1>0 DEF Known, Calls, Fits
<1>8. Residue' /\ Outranks' /\ Unmapping'
  BY <1>0 DEF Residue, Outranks, Unmapping
<1> QED BY <1>1, <1>3, <1>4, <1>5, <1>6, <1>7, <1>8 DEF Accept, HInv, NInv

(* A start finds the table that there is to be found.                      *)
LEMMA StartFinds ==
    ASSUME KeptOrFreed, GInv, Clean, Clean', Start, phase' = "opening", NEW h, Findable(h)
    PROVE  hash' = h
<1>0. /\ TypeOK /\ Intact /\ RInv /\ ~Alive /\ app = Idle
  BY LifeFacts DEF GInv, HeapKept, Memory, Start, RInv, AtRest
<1>1. HeadInUse
  BY <1>0 DEF GInv, HeapKept, Unattended
<1>2. Loads \/ RebuildEnds
  BY DEF Start
<1>3. CASE Loads
  BY <1>3 DEF Start, Findable
<1>4. CASE ~Loads
  <2>1. hash' = Rebuilt /\ RebuildHazards = {} /\ cleaning = <<>>
    BY <1>2, <1>4 DEF Start, Clean, RebuildEnds
  <2>2. Rows /\ ListsSound /\ app.pc = "idle" /\ Fits(h)
    BY <1>0 DEF Intact, RInv, Idle, Findable
  <2> QED BY <1>0, <1>1, <2>1, <2>2, RebuiltFits
<1> QED BY <1>3, <1>4

(* The start.                                                            *)
LEMMA KeptStart ==
    ASSUME KeptOrFreed, GInv, Clean, Clean', Start
    PROVE  HeapKept'
<1> USE DEF heapVars, listVars, lockVars
<1>0. /\ RestartTypeOK /\ TypeOK /\ Intact /\ RInv /\ phase = "down" /\ ~Alive /\ app = Idle
      /\ UNCHANGED <<heapVars, listVars, lockVars, nextId, app, file, regular, crashes>>
      /\ phase' \in {"opening", "endless"} /\ phase' # "down" /\ consistent' \in BOOLEAN
  BY LifeFacts DEF GInv, HeapKept, Memory, Start, RInv, AtRest
<1>1. PICK h : Findable(h)
  BY <1>0 DEF GInv, HeapKept, Down
<1>2. PICK x : x = Extra /\ Counted(x) /\ HeadInUse
  BY <1>0 DEF GInv, HeapKept, Unattended
<1>3. x \in Nat /\ Extra' = x
  BY <1>0, <1>2, ExtraSame
<1>4. Fits(h) /\ h \in [Ids -> Places \cup {Null}]
  BY <1>1 DEF Findable, Fits
<1>5. phase' = "opening" => hash' = h
  BY <1>1, StartFinds
<1>6. Intact'
  BY <1>0 DEF Intact, Rows, Row, InUse, AppEntry, Stamped, Stamp, Logged, Writing
<1>7. HeadInUse' /\ Counted(x)'
  BY <1>0, <1>2 DEF HeadInUse, InUse, Counted
<1>8. Alive' => phase' = "opening"
  BY <1>0 DEF Alive
<1>9. Alive' /\ consistent' => Accept(x)'
  <2> SUFFICES ASSUME Alive', consistent' PROVE Accept(x)'
    OBVIOUS
  <2>1. InitCleaner
    BY <1>8 DEF Start
  <2>2. \A c \in Cleaners : cl'[c].pc \in {"wait", "scan"}
    BY <2>1 DEF InitCleaner, Parked
  <2> QED BY <1>0, <1>2, <1>3, <1>4, <1>5, <1>8, <2>2, StartAccepted
<1>10. Alive' => Fits(h)' /\ h = Outcome'
  <2>1. Whole
    BY <1>0 DEF Whole
  <2>2. \A s \in Segs : usedSpace'[s] \in Nat /\ usedSpace'[s] >= usedSpace[s]
    BY <1>0, SpaceTypes, SMT
  <2>3. Fits(h)'
    BY <1>0, <1>4, <2>1, <2>2, FitsKept
  <2>4. Alive' => Outcome' = [id \in Ids |-> h[id]]
    BY <1>0, <1>5, <1>8 DEF Outcome, Idle
  <2> QED BY <1>4, <2>3, <2>4
<1> QED BY <1>0, <1>3, <1>6, <1>7, <1>9, <1>10 DEF HeapKept, Memory, Accepted, Unattended, Rejected, Down

(* All steps together.                                                   *)
LEMMA KeptNext ==
    ASSUME KeptOrFreed, GInv, Clean, Clean', RestartNext
    PROVE  HeapKept'
<1> USE DEF lifeVars
<1>0. RestartTypeOK /\ consistent \in BOOLEAN
  BY LifeFacts DEF GInv, RInv
<1>1. CASE ClientRuns
  <2>1. CASE consistent
    <3>1. Next /\ Alive /\ Alive' /\ UNCHANGED <<consistent, crashes>>
      BY <1>1 DEF ClientRuns, Next, NewCall, Alive
    <3> QED BY <2>1, <3>1, KeptRuns
  <2>2. CASE ~consistent
    BY <1>1, <2>2, KeptRejected
  <2> QED BY <1>0, <2>1, <2>2
<1>2. ASSUME NEW c \in Cleaners, ThreadRuns(c) PROVE HeapKept'
  <2>1. Next /\ Alive /\ Alive' /\ consistent /\ UNCHANGED <<consistent, crashes>>
    BY <1>2 DEF ThreadRuns, Works, Next, Alive
  <2> QED BY <2>1, KeptRuns
<1>3. ASSUME NEW c \in Cleaners,
             BeginResume(c) \/ ResumeEntry(c) \/ MisreadResume(c) \/ EndResume(c) \/ StopCleaner(c)
      PROVE  HeapKept'
  BY <1>3, KeptThreads
<1>4. CASE BeginClose \/ BeginSave \/ EndSave \/ Opened
  <2>1. UNCHANGED <<vars, consistent, crashes>> /\ Alive /\ Alive'
    BY <1>4 DEF BeginClose, BeginSave, EndSave, Opened, Alive
  <2> QED BY <2>1, KeptSame
<1>5. ASSUME NEW c \in Cleaners, CreateThread(c) PROVE HeapKept'
  <2>1. UNCHANGED <<vars, consistent, crashes>> /\ Alive /\ Alive'
    BY <1>5, CreateFacts DEF Clean, vars, Alive
  <2> QED BY <2>1, KeptSame
<1> QED BY <1>1, <1>2, <1>3, <1>4, <1>5, KeptClose, KeptCrash, KeptStart DEF RestartNext, ThreadNext

(* The invariant holds initially ...                                     *)
LEMMA GInvInit ==
    ASSUME RestartInit
    PROVE  GInv
<1>0. /\ Init /\ Alive /\ phase = "opening" /\ consistent = TRUE /\ regular = FALSE /\ stopped = {}
      /\ \A c \in Cleaners : resume[c] = NoResume
      /\ app = Idle /\ RInv
  BY RestartInitInv DEF RestartInit, Init, Alive
<1>1. LifeSound
  BY <1>0 DEF LifeSound, Calm, Stopping, Filed, Idle, NoResume
<1>2. Intact
  <2>1. CInv
    BY <1>0, CInvInit
  <2> QED BY <1>0, <2>1, RowTypes, ConstantFacts DEF Init, Intact, CInv, Stamped, Logged, Writing, Idle
<1>3. Accept(0)
  <2>1. VInv
    BY <1>0, VInvInit
  <2> QED BY <1>0, <2>1 DEF Init, VInv, CInv, Accept, Residue, Outranks, Unmapping, Idle, Writing
<1>4. Extra = 0
  <2>1. crashes = 0 /\ Cap \in Nat
    BY ConstantFacts DEF RestartInit
  <2> QED BY <2>1, SMT DEF Extra
<1> QED BY <1>0, <1>1, <1>2, <1>3, <1>4 DEF GInv, HeapKept, Memory, Accepted, Unattended, Rejected, Down

(* ... and every step keeps it.                                          *)
LEMMA GInvNext ==
    ASSUME KeptOrFreed, GInv, [RestartNext]_allVars
    PROVE  GInv'
<1>1. CASE RestartNext
  <2>1. RInv' /\ LifeSound'
    BY <1>1, RInvNext, LifeNext DEF GInv
  <2>2. CASE Clean'
    <3>1. Clean
      BY <1>1, <2>2, CleanBefore DEF GInv
    <3> QED BY <1>1, <2>1, <2>2, <3>1, KeptNext DEF GInv
  <2>3. CASE ~Clean'
    BY <2>1, <2>3 DEF GInv, HeapKept, Memory, Accepted, Unattended, Rejected, Down
  <2> QED BY <2>2, <2>3
<1>2. CASE UNCHANGED allVars
  <2>1. RInv'
    BY <1>2, RInvNext DEF GInv
  <2>2. UNCHANGED vars /\ UNCHANGED lifeVars /\ UNCHANGED displaced /\ (Clean' <=> Clean) /\ (Alive' <=> Alive)
    BY <1>2 DEF allVars, lifeVars, vars, Clean, Alive
  <2>3. LifeSound'
    <3>1. RestartTypeOK
      BY DEF GInv, RInv
    <3> QED BY <2>2, <3>1, LifeSame DEF GInv, lifeVars, vars, listVars
  <2>4. HeapKept'
    <3>1. CASE Clean /\ Alive
      BY <2>2, <3>1, KeptSame DEF lifeVars
    <3>2. CASE ~Clean
      BY <2>2, <3>2 DEF HeapKept, Memory, Accepted, Unattended, Rejected, Down
    <3>3. CASE Clean /\ ~Alive
      <4>0. RestartTypeOK /\ TypeOK /\ Intact /\ UNCHANGED <<phase, file, regular, kept, crashes>>
        BY <2>2, <3>3, LifeFacts DEF GInv, RInv, HeapKept, Memory, lifeVars
      <4>1. UNCHANGED <<content, fill, usedSpace, head, free, emergency, nextId, app>>
        BY <2>2 DEF vars, heapVars, listVars
      <4>2. Intact'
        BY <4>0, <4>1 DEF Intact, Rows, Row, InUse, AppEntry, Stamped, Stamp, Logged, Writing
      <4>3. PICK x : x = Extra /\ Counted(x) /\ HeadInUse
        BY <3>3 DEF GInv, HeapKept, Unattended
      <4>4. x = Extra' /\ Counted(x)' /\ HeadInUse'
        BY <4>0, <4>1, <4>3 DEF Extra, HeadInUse, InUse, Counted
      <4>5. Down'
        <5> SUFFICES ASSUME phase = "down" PROVE \E h : Findable(h)'
          BY <4>0 DEF Down
        <5>1. PICK h : Findable(h)
          BY <3>3 DEF GInv, HeapKept, Down
        <5>2. Whole
          BY <4>1 DEF Whole
        <5>3. \A s \in Segs : usedSpace'[s] \in Nat /\ usedSpace'[s] >= usedSpace[s]
          BY <4>0, <4>1, SpaceTypes, SMT
        <5>4. Fits(h)' /\ \A id \in Ids : h[id] # Null => At(h[id])' = At(h[id])
          BY <4>0, <4>1, <5>1, <5>2, <5>3, FitsKept DEF Findable
        <5>5. \A id \in Ids : ValueIn(h, id)' = ValueIn(h, id)
          BY <5>4 DEF ValueIn
        <5>6. kept' = [id \in Ids |-> ValueIn(h, id)']
          BY <4>0, <5>1, <5>5 DEF Findable
        <5> QED BY <4>0, <5>1, <5>4, <5>6 DEF Findable, Loads
      <4> QED BY <2>2, <3>3, <4>2, <4>4, <4>5 DEF HeapKept, Memory, Accepted, Unattended, Rejected
    <3> QED BY <3>1, <3>2, <3>3
  <2> QED BY <2>1, <2>3, <2>4 DEF GInv
<1> QED BY <1>1, <1>2

-----------------------------------------------------------------------------
(* The table of a heap that was rejected.                                  *)
LEMMA RejectedSound ==
    ASSUME TypeOK, Intact, ListsSound, HeadInUse, Calm, app.pc \in {"idle", "unmap"}, Shape,
           NEW h, h = Outcome, Fits(h)
    PROVE  /\ HashSound /\ NewestVersion
           /\ \A s \in ToSet(used) \cup HeadSet : usedSpace[s] >= LiveSpace(s)
<1>0. /\ app.place = Null /\ app.pc # "publish" /\ app.pc # "takeHead"
      /\ \A id \in Ids \ InFlight : h[id] = hash[id]
      /\ ToSet(used) \cup ToSet(cleaning) \cup HeadSet \subseteq Segs
  <2>1. app.place = Null /\ app.pc # "publish" /\ app.pc # "takeHead"
    BY DEF Calm, Idle
  <2>2. ASSUME NEW id \in Ids \ InFlight PROVE h[id] = hash[id]
    <3>1. ~(id = app.id /\ app.pc = "unmap")
      BY DEF InFlight, Calm
    <3> QED BY <2>1, <3>1, OutcomeFacts
  <2>3. ToSet(used) \cup ToSet(cleaning) \cup HeadSet \subseteq Segs
    <3>1. ToSet(used) \subseteq Segs /\ ToSet(cleaning) \subseteq Segs
      <4>1. used \in Seq(Segs) /\ cleaning \in Seq(Segs)
        BY DEF TypeOK
      <4> QED BY <4>1 DEF ToSet
    <3> QED BY <3>1 DEF HeadSet, TypeOK
  <2> QED BY <2>1, <2>2, <2>3
<1>1. \A s \in Segs : /\ InLog(s) => InUse(s)
                      /\ InUse(s) => InLog(s)
                      /\ s \in ToSet(used) \cup HeadSet => InUse(s)
  <2> SUFFICES ASSUME NEW s \in Segs
               PROVE  /\ InLog(s) => InUse(s)
                      /\ InUse(s) => InLog(s)
                      /\ s \in ToSet(used) \cup HeadSet => InUse(s)
    OBVIOUS
  <2>1. ListsApart
    BY DEF ListsSound, Sealed, SegmentsPartitioned, ListsApart
  <2>2. s \in ToSet(used) \cup ToSet(cleaning) => InUse(s)
    BY <2>1 DEF ListsApart, InUse
  <2>3. s = head => InUse(s)
    BY ConstantFacts DEF HeadInUse
  <2>4. InUse(s) => InLog(s)
    BY DEF ListsSound, Sealed, SegmentsPartitioned, InLog, InUse, HeadSet
  <2> QED BY <2>2, <2>3, <2>4 DEF InLog, HeadSet
<1>2. HashSound
  <2> SUFFICES ASSUME NEW id \in Ids \ InFlight, hash[id] # Null
               PROVE  /\ Stored(hash[id])
                      /\ At(hash[id]).id = id /\ ~At(hash[id]).del /\ At(hash[id]).len > 0
    BY DEF HashSound
  <2>1. SoundAt(hash[id], id)
    BY <1>0 DEF Fits
  <2>2. PICK s \in Segs, p \in Cells : hash[id] = <<s, p>>
    BY HashPlace
  <2>3. At(hash[id]).len > 0
    BY <2>1, <2>2 DEF SoundAt, At, Intact, Rows, Row, RowOf
  <2> QED BY <1>1, <2>1, <2>2, <2>3 DEF SoundAt, Stored
<1>3. NewestVersion
  <2> SUFFICES ASSUME NEW place \in Places, Stored(place), ~At(place).del, At(place).id \notin InFlight
               PROVE  hash[At(place).id] # Null /\ At(place).ver <= At(hash[At(place).id]).ver
    BY DEF NewestVersion
  <2>1. PICK s \in Segs, p \in Cells : place = <<s, p>>
    BY DEF Places
  <2>2. /\ InUse(s) /\ p < fill[s] /\ content[s][p] # Data /\ At(place) = content[s][p]
        /\ ~content[s][p].del
    BY <1>1, <2>1 DEF Stored, At
  <2>3. FitsLog(h, s, p)
    BY <2>2 DEF Fits
  <2>4. PICK i \in Ids : i = content[s][p].id /\ h[i] # Null
    BY <2>3 DEF FitsLog
  <2>5. h[i] = hash[i]
    BY <1>0, <2>2, <2>4
  <2>6. At(place).ver \in Nat
    <3>1. At(place) \in Cell
      BY AtType
    <3> QED BY <3>1 DEF Cell, Entry, Data
  <2>7. CASE hash[i] = <<s, p>>
    BY <2>1, <2>2, <2>4, <2>5, <2>6, <2>7, SMT
  <2>8. CASE content[s][p].ver < At(hash[i]).ver
    <3>1. At(hash[i]).ver \in Nat
      <4>1. hash[i] \in Places
        BY <2>4, <2>5, HashPlace
      <4>2. At(hash[i]) \in Cell
        BY <4>1, AtType
      <4> QED BY <4>2 DEF Cell, Entry, Data
    <3> QED BY <2>2, <2>4, <2>5, <2>6, <2>8, <3>1, SMT
  <2> QED BY <2>3, <2>4, <2>5, <2>7, <2>8 DEF FitsLog
<1>4. ASSUME NEW s \in ToSet(used) \cup HeadSet PROVE usedSpace[s] >= LiveSpace(s)
  <2>1. s \in Segs /\ InUse(s)
    BY <1>0, <1>1
  <2>2. LiveCells(s) \subseteq Listed(h, s)
    <3> SUFFICES ASSUME NEW p \in 0 .. fill[s] - 1, NEW id \in Ids \ InFlight, hash[id] = <<s, p>>
                 PROVE  p \in Listed(h, s)
      BY <1>0, PlaceFacts DEF LiveCells
    <3>1. id \in Ids /\ h[id] = <<s, p>> /\ hash[id] # Null
      BY <1>0, PlaceFacts
    <3>2. hash[id][2] = p /\ p \in Cells
      <4>1. hash[id][2] \in Cells
        BY <3>1, HashPlace
      <4>2. hash[id][2] = p
        OBVIOUS
      <4> QED BY <4>1, <4>2
    <3> QED BY <3>1, <3>2 DEF Listed
  <2>3. LiveSpace(s) = Cardinality(Area(content[s], LiveCells(s)))
    BY DEF LiveSpace, LiveArea, Area
  <2>4. Cardinality(Area(content[s], LiveCells(s))) <= Cardinality(Area(content[s], Listed(h, s)))
    BY <2>2, AreaSubset
  <2>5. Cardinality(Area(content[s], Listed(h, s))) <= usedSpace[s]
    BY <2>1 DEF Fits
  <2>6. /\ Cardinality(Area(content[s], LiveCells(s))) \in Nat
        /\ Cardinality(Area(content[s], Listed(h, s))) \in Nat /\ usedSpace[s] \in Nat
    BY <2>1, AreaFinite, SpaceTypes
  <2> QED BY <2>3, <2>4, <2>5, <2>6, SMT
<1> QED BY <1>2, <1>3, <1>4

(* It implies what was to be shown.                                      *)
LEMMA GInvRecovered ==
    ASSUME KeptOrFreed, GInv
    PROVE  Recovered
<1> SUFFICES ASSUME Alive, Clean
             PROVE  /\ HashSound /\ NewestVersion
                    /\ \A s \in ToSet(used) \cup HeadSet : usedSpace[s] >= LiveSpace(s)
  BY DEF Recovered, Clean
<1>0. RestartTypeOK /\ TypeOK /\ consistent \in BOOLEAN /\ Intact /\ Calm
  BY LifeFacts DEF GInv, RInv, HeapKept, Memory, LifeSound
<1>1. CASE consistent
  <2>1. IInv /\ Rows
    BY <1>0, <1>1, AcceptedInv DEF GInv, Intact
  <2>2. PICK x : Accept(x)
    BY <1>1 DEF GInv, HeapKept, Accepted
  <2>3. HashSound
    BY <2>1, <2>2, SoundHash DEF Accept
  <2>4. NewestVersion
    BY <2>1, <2>2, NoneNewer DEF Accept
  <2>5. ASSUME NEW s \in ToSet(used) \cup HeadSet PROVE usedSpace[s] >= LiveSpace(s)
    <3>1. s \in Segs /\ InUse(s)
      BY <2>1, InUseFacts
    <3>2. LiveSpace(s) <= usedSpace[s] /\ usedSpace[s] \in Nat
      BY <1>0, <2>2, <3>1, SpaceTypes DEF Accept, Spaces, SpaceOK
    <3>3. LiveSpace(s) \in Nat
      BY AreaFinite DEF LiveSpace, LiveArea, Area
    <3> QED BY <3>2, <3>3, SMT
  <2> QED BY <2>3, <2>4, <2>5
<1>2. CASE ~consistent
  <2>1. PICK h : h = Outcome /\ Fits(h)
    BY <1>2 DEF GInv, HeapKept, Rejected
  <2>2. HeadInUse
    BY <1>2 DEF GInv, HeapKept, Unattended
  <2>3. ListsSound /\ Shape /\ app.pc \in {"idle", "unmap"}
    BY <1>2 DEF GInv, RInv, ThreadsSound, OnlyFrees
  <2> QED BY <1>0, <2>1, <2>2, <2>3, RejectedSound
<1> QED BY <1>0, <1>1, <1>2

(* The heap stays in order over any number of starts, shutdowns and      *)
(* crashes at any point, as long as nothing has gone wrong that the      *)
(* model names and no object is freed that was ever changed: the hash    *)
(* table that the next start reads or rebuilds (hash_table.c:27-117,     *)
(* 187-260) is the one that was lost, but for the call that was going    *)
(* on.                                                                   *)
THEOREM RestartKeepsHeap ==
    ASSUME KeptOrFreed
    PROVE  RestartSpec => []GInv
<1>1. RestartInit => GInv
  BY GInvInit
<1>2. GInv /\ [RestartNext]_allVars => GInv'
  BY GInvNext
<1> QED BY <1>1, <1>2, PTL DEF RestartSpec

(* After any restart, also on a heap that check_consistency rejects,     *)
(* what the hash table points to is unmarked and in the log, it is the   *)
(* newest version, and no segment counts less in used_space than it has  *)
(* live entries, so that no cleaner gives it back unseen                 *)
(* (hash_table.c:27-117, log.c:109-112, cleaner.c:149-152). No object    *)
(* that is freed may ever have been changed: pfree marks the newest      *)
(* version only, and a start would take an older one (log_pmem.c:249).   *)
THEOREM RestartRecovers ==
    ASSUME KeptOrFreed
    PROVE  RestartSpec => []Recovered
<1>1. GInv => Recovered
  BY GInvRecovered
<1> QED BY <1>1, RestartKeepsHeap, PTL

(* An entry has a value, and a call writes the value that it is numbered   *)
(* with.                                                                   *)
Valued == \A s \in Segs, p \in Cells : content[s][p].len > 0 => content[s][p].val # 0
Numbered == Valued /\ (Writing => app.entry.val = writes /\ writes # 0)

(* Writing an entry, marking one and writing a terminator keep that.     *)
LEMMA ValuedWritten ==
    ASSUME TypeOK, Valued, NEW s \in Segs, NEW k, NEW e, content' = Written(s, k, e), e.val # 0
    PROVE  Valued'
<1> SUFFICES ASSUME NEW t \in Segs, NEW p \in Cells, content'[t][p].len > 0
             PROVE  content'[t][p].val # 0
  BY DEF Valued
<1>1. ~(Data.len > 0)
  BY DEF Data
<1>2. content'[t][p] = content[t][p] \/ content'[t][p] = e \/ content'[t][p] = Data
  BY WrittenCells
<1> QED BY <1>1, <1>2 DEF Valued

LEMMA ValuedMarked ==
    ASSUME TypeOK, Valued, NEW place \in Places, content' = Marked(place)
    PROVE  Valued'
<1> SUFFICES ASSUME NEW s \in Segs, NEW p \in Cells, content'[s][p].len > 0
             PROVE  content'[s][p].val # 0
  BY DEF Valued
<1>1. place[1] \in Segs /\ place[2] \in Cells /\ content \in [Segs -> [Cells -> Cell]]
  BY DEF Places, TypeOK, Cell
<1>2. content[s][p] = Data \/ content[s][p] \in Entry
  BY <1>1 DEF Cell
<1>3. \A e \in Entry : [e EXCEPT !.del = TRUE].len = e.len
  BY DEF Entry
<1>4. content'[s][p].len = content[s][p].len
  BY <1>1, <1>2, <1>3 DEF Marked
<1>5. content'[s][p].val = content[s][p].val
  BY MarkedSame
<1> QED BY <1>4, <1>5 DEF Valued

LEMMA ValuedTerminated ==
    ASSUME TypeOK, Valued, NEW t \in Segs, content' = Terminated(t)
    PROVE  Valued'
<1> SUFFICES ASSUME NEW s \in Segs, NEW p \in Cells, content'[s][p].len > 0
             PROVE  content'[s][p].val # 0
  BY DEF Valued
<1>1. content \in [Segs -> [Cells -> Cell]]
  BY DEF TypeOK, Cell
<1>2. CASE fill[t] \in Cells
  <2>1. content' = [content EXCEPT ![t][fill[t]].len = 0]
    BY <1>2 DEF Terminated
  <2>2. CASE s = t /\ p = fill[t]
    <3>1. content[s][p] = Data \/ content[s][p] \in Entry
      BY <1>1 DEF Cell
    <3>2. content'[s][p] = [content[s][p] EXCEPT !.len = 0]
      BY <1>1, <2>1, <2>2
    <3>3. content'[s][p].len = 0
      BY <3>1, <3>2 DEF Data, Entry
    <3> QED BY <3>3, SMT
  <2>3. CASE ~(s = t /\ p = fill[t])
    <3>1. content'[s][p] = content[s][p]
      BY <1>1, <2>1, <2>3
    <3> QED BY <3>1 DEF Valued
  <2> QED BY <2>2, <2>3
<1>3. CASE fill[t] \notin Cells
  BY <1>3 DEF Terminated, Valued
<1> QED BY <1>2, <1>3

(* The steps of LogHeap keep it, on an accepted heap.                    *)
LEMMA NumberedRuns ==
    ASSUME IInv, Intact, HInv, NInv, Numbered, hazards = {}, hazards' = {}, Next
    PROVE  Numbered'
<1> USE DEF heapVars, listVars, lockVars
<1>0. TypeOK /\ app \in AppStates /\ AppSound /\ Rows /\ AppEntry /\ writes \in Nat
  BY WritesNat DEF IInv, TypeOK, HInv, Intact
<1>1. CASE NewCall
  <2>1. writes + 1 # 0
    BY <1>0, SMT
  <2>2. ASSUME NEW id \in FreeIds, BeginFree(id) PROVE Numbered'
    <3>1. content' = Marked(hash[id]) /\ hash[id] # Null /\ id \in Ids /\ ~Writing'
      BY <2>2, ClientAssumption DEF BeginFree, Idle, Writing
    <3>2. hash[id] \in Places
      BY <1>0, <3>1, HashPlace
    <3> QED BY <1>0, <3>1, <3>2, ValuedMarked DEF Numbered
  <2>3. ASSUME NEW id \in Ids, NEW len \in Lens, Call(id, NewEntry(id, 1, len), FALSE), UNCHANGED content
        PROVE  Numbered'
    BY <2>1, <2>3 DEF Numbered, Valued, Call, NewEntry, Writing
  <2>4. ASSUME NEW id \in Changing, NEW len \in Lens, BeginUpdate(id, len) PROVE Numbered'
    <3>1. AppAt("idle") /\ hash[id] # Null /\ id \in Ids
      BY <2>4, ClientAssumption DEF BeginUpdate, Changing
    <3>2. At(hash[id]) \in Entry
      BY <3>1, IdleFacts, CurrentCell
    <3>3. /\ app'.entry = Successor(At(hash[id]), len) /\ writes' = writes + 1 /\ UNCHANGED content
      BY <2>4 DEF BeginUpdate, Call
    <3>4. app'.entry.val = writes + 1
      BY <3>2, <3>3 DEF Successor, Entry
    <3> QED BY <2>1, <3>3, <3>4 DEF Numbered, Valued
  <2> QED BY <1>1, <2>2, <2>3, <2>4, NewCallKinds
<1>2. CASE CallStep
  <2>1. CASE WriteEntry \/ SealHead \/ TakeHead
    <3>1. /\ Writing /\ Writing' /\ UNCHANGED writes /\ app'.entry = app.entry
      BY <1>0, <2>1 DEF WriteEntry, SealHead, TakeHead, NeedsHead, AppAt, Writing, AppStates
    <3>2. CASE WriteEntry
      <4>1. head \in Segs /\ content' = Written(head, fill[head], app.entry)
        BY <1>0, <3>2 DEF WriteEntry, TypeOK
      <4>2. app.entry.val # 0
        BY <3>1 DEF Numbered
      <4>3. Valued'
        BY <1>0, <4>1, <4>2, ValuedWritten DEF Numbered
      <4> QED BY <3>1, <4>3 DEF Numbered
    <3>3. CASE SealHead
      <4>1. head \in Segs /\ content' = Terminated(head)
        BY <1>0, <3>3 DEF SealHead, TypeOK
      <4>2. Valued'
        BY <1>0, <4>1, ValuedTerminated DEF Numbered
      <4> QED BY <3>1, <4>2 DEF Numbered
    <3>4. CASE TakeHead
      BY <3>1, <3>4 DEF TakeHead, Numbered, Valued
    <3> QED BY <2>1, <3>2, <3>3, <3>4
  <2>2. CASE OutOfMemory \/ Publish \/ Unmap
    <3>1. UNCHANGED content /\ app' = Idle
      BY <2>2 DEF OutOfMemory, Publish, Unmap
    <3> QED BY <3>1 DEF Numbered, Valued, Writing, Idle
  <2> QED BY <1>2, <2>1, <2>2 DEF CallStep
<1>3. ASSUME NEW c \in Cleaners, CleanerStep(c) PROVE Numbered'
  <2>1. UNCHANGED <<app, writes>>
    BY <1>3 DEF CleanerStep, StartCleaning, GetFirstSegment, GetSegment, BeginScan, Claim, Skip,
       EndWalk, Misread, Drop, Copy, FindFull, Retire, Refill, Advance, Reclaim, ReclaimNothing, Finish
  <2>2. CASE ~Copy(c)
    <3>1. UNCHANGED content
      BY <1>3, <2>2, ThreadFrame
    <3> QED BY <2>1, <3>1 DEF Numbered, Valued, Writing
  <2>3. CASE Copy(c)
    <3>1. PICK s \in Segs : s = cl[c].seg /\ content' = Written(s, fill[s], Visited(c))
      BY <2>3, CopyFacts DEF Copy
    <3>2. Visited(c).val # 0
      BY <2>3, CopyFacts DEF Numbered, Valued, Visited
    <3>3. Valued'
      BY <1>0, <3>1, <3>2, ValuedWritten DEF Numbered
    <3> QED BY <2>1, <3>3 DEF Numbered, Writing
  <2> QED BY <2>2, <2>3
<1> QED BY <1>1, <1>2, <1>3 DEF Next

(* What the invariant says of an accepted heap.                          *)
LEMMA AcceptedHeap ==
    ASSUME GInv, Clean, Alive, consistent
    PROVE  IInv /\ Rows /\ AppEntry /\ Intact /\ HInv /\ NInv /\ hazards = {}
<1>1. IInv
  BY AcceptedInv DEF GInv
<1>2. Intact
  BY DEF GInv, HeapKept, Memory
<1>3. \E x : Accept(x)
  BY DEF GInv, HeapKept, Accepted
<1> QED BY <1>1, <1>2, <1>3 DEF Intact, Accept, Clean

(* What goes on on a rejected one.                                       *)
LEMMA FreesOnly ==
    ASSUME GInv, ~consistent, ClientRuns
    PROVE  /\ Alive /\ Alive' /\ app.pc \in {"idle", "unmap"} /\ UNCHANGED consistent
           /\ Unmap \/ \E id \in FreeIds : BeginFree(id)
<1>1. phase = "up" /\ phase' = "up" /\ consistent' = consistent
  BY DEF ClientRuns, lifeVars
<1>2. app.pc \in {"idle", "unmap"}
  BY <1>1 DEF GInv, RInv, OnlyFrees, Alive
<1>3. Unmap \/ \E id \in FreeIds : BeginFree(id)
  BY <1>2 DEF ClientRuns, CallStep, WriteEntry, SealHead, TakeHead, OutOfMemory,
     Publish, NeedsHead, AppAt
<1> QED BY <1>1, <1>2, <1>3 DEF Alive

(* The threads that resume leave the heap alone.                           *)
LEMMA ResumeSame ==
    ASSUME GInv, Clean, Clean', NEW c \in Cleaners,
           BeginResume(c) \/ ResumeEntry(c) \/ MisreadResume(c) \/ EndResume(c) \/ StopCleaner(c)
    PROVE  UNCHANGED <<content, hash, app, writes>> /\ Alive /\ Alive'
<1> USE DEF vars, heapVars, listVars, lockVars, lifeVars
<1>1. /\ phase \in {"opening", "up", "closing"} /\ phase' = phase
      /\ ~StopCleaner(c) => resume[c].regular
  <2>1. /\ phase \in {"opening", "up", "closing"} /\ phase' = phase
        /\ (~StopCleaner(c) => resume[c].at # "no")
    BY DEF BeginResume, ResumeEntry, MisreadResume, EndResume, StopCleaner, Works, Walking
  <2> QED BY <2>1 DEF GInv, LifeSound
<1>2. CASE BeginResume(c) \/ EndResume(c) \/ StopCleaner(c)
  BY <1>1, <1>2 DEF BeginResume, EndResume, StopCleaner, Alive
<1>3. CASE ResumeEntry(c)
  <2>1. ~StopCleaner(c)
    BY <1>3 DEF ResumeEntry, StopCleaner, Walking, Cancellable
  <2>2. ~Duplicate(c)
    BY <1>1, <2>1 DEF Duplicate
  <2> QED BY <1>1, <1>3, <2>2 DEF ResumeEntry, Alive
<1>4. CASE MisreadResume(c)
  BY <1>4 DEF MisreadResume, Meet, Clean
<1> QED BY <1>2, <1>3, <1>4

(* All steps keep it.                                                    *)
LEMMA NumberedNext ==
    ASSUME GInv, Numbered, Clean, Clean', RestartNext
    PROVE  Numbered'
<1> USE DEF vars, heapVars, listVars, lockVars, lifeVars
<1>0. RestartTypeOK /\ TypeOK /\ consistent \in BOOLEAN /\ app \in AppStates /\ hazards = {} /\ hazards' = {}
  BY LifeFacts DEF GInv, RInv, TypeOK, Clean
<1>1. CASE ClientRuns
  <2>1. CASE consistent
    <3>1. Next /\ Alive
      BY <1>1 DEF ClientRuns, Next, NewCall, Alive
    <3> QED BY <1>0, <2>1, <3>1, AcceptedHeap, NumberedRuns
  <2>2. CASE ~consistent
    <3>1. CASE Unmap
      <4>1. UNCHANGED content /\ app' = Idle
        BY <3>1 DEF Unmap
      <4> QED BY <4>1 DEF Numbered, Valued, Writing, Idle
    <3>2. ASSUME NEW id \in FreeIds, BeginFree(id) PROVE Numbered'
      <4>1. content' = Marked(hash[id]) /\ hash[id] # Null /\ id \in Ids /\ ~Writing'
        BY <3>2, ClientAssumption DEF BeginFree, Idle, Writing
      <4>2. hash[id] \in Places
        BY <1>0, <4>1, HashPlace
      <4> QED BY <1>0, <4>1, <4>2, ValuedMarked DEF Numbered
    <3> QED BY <1>1, <2>2, <3>1, <3>2, FreesOnly
  <2> QED BY <1>0, <2>1, <2>2
<1>2. ASSUME NEW c \in Cleaners, ThreadRuns(c) PROVE Numbered'
  <2>1. Next /\ Alive /\ consistent
    BY <1>2 DEF ThreadRuns, Works, Next, Alive
  <2> QED BY <1>0, <2>1, AcceptedHeap, NumberedRuns
<1>3. ASSUME NEW c \in Cleaners,
             BeginResume(c) \/ ResumeEntry(c) \/ MisreadResume(c) \/ EndResume(c) \/ StopCleaner(c)
      PROVE  Numbered'
  BY <1>3, ResumeSame DEF Numbered, Valued, Writing
<1>7. ASSUME NEW c \in Cleaners, CreateThread(c) PROVE Numbered'
  BY <1>7, CreateFacts DEF Numbered, Valued, Writing
<1>4. CASE BeginClose \/ BeginSave \/ EndSave \/ Opened \/ Start
  <2>1. UNCHANGED <<content, app, writes>>
    BY <1>4 DEF BeginClose, BeginSave, EndSave, Opened, Start
  <2> QED BY <2>1 DEF Numbered, Valued, Writing
<1>5. CASE EndClose
  <2>1. UNCHANGED content /\ app' = Idle
    BY <1>5 DEF EndClose, End
  <2> QED BY <2>1 DEF Numbered, Valued, Writing, Idle
<1>6. CASE Crash
  <2>1. ~Writing'
    BY <1>6 DEF Crash, End, Writing, Idle
  <2>2. CASE Between \/ WhileTaking
    <3>1. UNCHANGED content
      BY <2>2 DEF Between, WhileTaking
    <3> QED BY <2>1, <3>1 DEF Numbered, Valued
  <2>3. CASE WhileWriting
    <3>1. head \in Segs /\ content' = Written(head, fill[head], app.entry) /\ Writing
      BY <1>0, <2>3 DEF WhileWriting, TypeOK, AppAt, Writing
    <3> QED BY <1>0, <2>1, <3>1, ValuedWritten DEF Numbered
  <2>4. ASSUME NEW id \in FreeIds, WhileFreeing(id) PROVE Numbered'
    <3>1. content' = Marked(hash[id]) /\ hash[id] # Null /\ id \in Ids
      BY <2>4, ClientAssumption DEF WhileFreeing
    <3>2. hash[id] \in Places
      BY <1>0, <3>1, HashPlace
    <3> QED BY <1>0, <2>1, <3>1, <3>2, ValuedMarked DEF Numbered
  <2> QED BY <1>6, <2>2, <2>3, <2>4 DEF Crash
<1> QED BY <1>1, <1>2, <1>3, <1>4, <1>5, <1>6, <1>7 DEF RestartNext, ThreadNext

(* What a client can read has a value.                                     *)
LEMMA ValuesRead ==
    ASSUME KeptOrFreed, GInv, Numbered, Clean, Alive
    PROVE  Values
<1>1. TypeOK /\ HashSound /\ Calm
  <2>1. Recovered
    BY GInvRecovered
  <2> QED BY <2>1, LifeFacts DEF GInv, RInv, LifeSound, Recovered, Clean
<1>2. app.pc = "unmap" => app.entry.val = 0
  BY <1>1 DEF Calm, Blank
<1>3. ASSUME NEW id \in Ids \ InFlight, hash[id] # Null PROVE Value(id) # 0
  <2>1. hash[id][1] \in Segs /\ hash[id][2] \in Cells
    BY <1>1, <1>3, HashPlace
  <2>2. At(hash[id]).len > 0
    BY <1>1, <1>3 DEF HashSound, Clean
  <2>3. At(hash[id]).val # 0
    BY <2>1, <2>2 DEF Numbered, Valued, At
  <2> QED BY <1>3, <2>3 DEF Value
<1> QED BY <1>2, <1>3 DEF Numbered, Values

(* What the client sees, or would see if the program were started.         *)
Seen(id) == IF Alive THEN Value(id) ELSE kept[id]
SameSeen == \A id \in Ids : Seen(id)' = Seen(id)

SeenAs(i, v) == Seen(i)' = v /\ \A id \in Ids \ {i} : Seen(id)' = Seen(id)

(* A step of HeapStore over crashes.                                       *)
DurableStep == Durable!Keeps(Durable!Promised \/ Durable!NotCreated)

LEMMA DurableKeeps ==
    ASSUME Clean, Clean', Durable!Promised \/ Durable!NotCreated
    PROVE  DurableStep
  BY DEF DurableStep, Durable!Keeps, Clean

(* Steps that the client does not see, an object that is created or not,   *)
(* and one that is removed.                                                *)
LEMMA DurableUnseen ==
    ASSUME Clean, Clean', SameSeen, Returned' = Returned, Creating' = Creating
    PROVE  DurableStep
<1>1. Durable!Promised
  BY DEF Durable!Promised, SameSeen, Seen, Returned, Creating
<1> QED BY <1>1, DurableKeeps

LEMMA SeenReplaced ==
    ASSUME NEW i \in Ids, NEW v, SeenAs(i, v)
    PROVE  [id \in Ids |-> Seen(id)]' = [[id \in Ids |-> Seen(id)] EXCEPT ![i] = v]
<1>1. \A id \in Ids : Seen(id)' = IF id = i THEN v ELSE Seen(id)
  BY DEF SeenAs
<1>2. [[id \in Ids |-> Seen(id)] EXCEPT ![i] = v] = [id \in Ids |-> IF id = i THEN v ELSE Seen(id)]
  OBVIOUS
<1> QED BY <1>1, <1>2

LEMMA DurableCreated ==
    ASSUME Clean, Clean', Returned' = Returned + 1, NEW i \in Ids, i # 0,
           Creating = i, Creating' = 0, SeenAs(i, Returned')
    PROVE  DurableStep
<1>1. [id \in Ids |-> Seen(id)]' = [[id \in Ids |-> Seen(id)] EXCEPT ![Creating] = Returned']
  BY SeenReplaced
<1>2. Durable!Created
  BY <1>1 DEF Durable!Created, Seen, Returned, Creating
<1> QED BY <1>2, DurableKeeps DEF Durable!Promised

LEMMA DurableNotCreated ==
    ASSUME Clean, Clean', SameSeen, Returned' = Returned + 1, Creating # 0, Creating' = 0
    PROVE  DurableStep
<1>1. Durable!NotCreated
  BY DEF Durable!NotCreated, SameSeen, Seen, Returned, Creating
<1> QED BY <1>1, DurableKeeps

LEMMA DurableRemoved ==
    ASSUME Clean, Clean', Returned' = Returned, NEW i \in Ids,
           Creating = 0, Creating' = 0, Seen(i) # 0, SeenAs(i, 0)
    PROVE  DurableStep
<1>1. [id \in Ids |-> Seen(id)]' = [[id \in Ids |-> Seen(id)] EXCEPT ![i] = 0]
  BY SeenReplaced
<1>2. [id \in Ids |-> Seen(id)][i] # 0
  OBVIOUS
<1>3. Durable!Remove(i)
  BY <1>1, <1>2 DEF Durable!Remove, Seen, Returned, Creating
<1> QED BY <1>3, DurableKeeps DEF Durable!Promised

(* While a process runs, HeapStore is the same over restarts.              *)
LEMMA StoreLives ==
    ASSUME Clean, Clean', Alive, Alive', Store!Next
    PROVE  DurableStep
<1>1. /\ [id \in Ids |-> IF Alive THEN Value(id) ELSE kept[id]] = [id \in Ids |-> Value(id)]
      /\ [id \in Ids |-> IF Alive' THEN Value(id)' ELSE kept'[id]] = [id \in Ids |-> Value(id)']
      /\ \A id \in Ids : (IF Alive THEN Value(id) ELSE kept[id]) = Value(id)
  OBVIOUS
<1>2. Store!Promised
  BY DEF Store!Next, Store!Keeps, Clean
<1>3. CASE Store!Created
  <2>1. Durable!Created
    BY <1>1, <1>3 DEF Store!Created, Durable!Created
  <2> QED BY <2>1, DurableKeeps DEF Durable!Promised
<1>4. CASE Store!NotCreated
  <2>1. Durable!NotCreated
    BY <1>1, <1>4 DEF Store!NotCreated, Durable!NotCreated
  <2> QED BY <2>1, DurableKeeps
<1>5. ASSUME NEW id \in Ids, Store!Begin(id) \/ Store!Update(id) \/ Store!Remove(id)
      PROVE  DurableStep
  <2>1. Durable!Begin(id) \/ Durable!Update(id) \/ Durable!Remove(id)
    BY <1>1, <1>5 DEF Store!Begin, Store!Update, Store!Remove,
       Durable!Begin, Durable!Update, Durable!Remove
  <2> QED BY <2>1, DurableKeeps DEF Durable!Promised
<1>6. CASE SameValues /\ Returned' = Returned /\ Creating' = Creating
  BY <1>6, DurableUnseen DEF SameValues, SameSeen, Seen
<1>7. ASSUME UNCHANGED [id \in Ids |-> Value(id)] PROVE SameValues
  <2>1. \A id \in Ids : [i \in Ids |-> Value(i)][id] = Value(id) /\ [i \in Ids |-> Value(i)'][id] = Value(id)'
    OBVIOUS
  <2> QED BY <1>7, <2>1 DEF SameValues
<1> QED BY <1>2, <1>3, <1>4, <1>5, <1>6, <1>7 DEF Store!Promised, Returned, Creating

(* pfree, on a heap that was rejected.                                     *)
LEMMA DurableFrees ==
    ASSUME KeptOrFreed, GInv, Numbered, Clean, Clean', ~consistent, ClientRuns
    PROVE  DurableStep
<1>0. /\ TypeOK /\ Values /\ HashSound /\ Calm /\ Shape /\ Alive /\ Alive'
      /\ app.pc = "idle" => InFlight = {}
  <2>1. Alive /\ Alive'
    BY FreesOnly
  <2>2. Recovered /\ Values
    BY <2>1, GInvRecovered, ValuesRead
  <2>3. Shape
    BY DEF GInv, RInv, ThreadsSound
  <2>4. app.pc = "idle" => InFlight = {}
    BY <2>3 DEF Shape, InFlight
  <2> QED BY <2>1, <2>2, <2>3, <2>4, LifeFacts DEF GInv, RInv, LifeSound, Recovered, Clean
<1>1. CASE Unmap
  <2>1. /\ app.pc = "unmap" /\ app.locked /\ app' = Idle /\ hash' = [hash EXCEPT ![app.id] = Null]
        /\ UNCHANGED <<content, writes>> /\ app.entry.val = 0
    BY <1>0, <1>1 DEF Unmap, AppAt, Calm, Blank, heapVars
  <2>2. /\ InFlight' = {} /\ InFlight = {app.id}
        /\ Returned' = Returned /\ Creating' = Creating
    BY <2>1 DEF Idle, InFlight, Returned, Creating, Pending
  <2>3. \A id \in Ids : hash'[id] = IF id = app.id THEN Null ELSE hash[id]
    BY <1>0, <2>1 DEF TypeOK
  <2>4. SameSeen
    BY <1>0, <2>1, <2>2, <2>3 DEF SameSeen, Seen, Value, At
  <2> QED BY <2>2, <2>4, DurableUnseen
<1>2. ASSUME NEW id \in FreeIds, BeginFree(id)
      PROVE  DurableStep
  <2>1. /\ app.pc = "idle" /\ hash[id] # Null /\ id \in Ids /\ content' = Marked(hash[id])
        /\ app'.pc = "unmap" /\ app'.entry = Blank /\ InFlight' = {id} /\ UNCHANGED <<hash, writes>>
    BY <1>2, ClientAssumption DEF BeginFree, AppAt, Idle, InFlight
  <2>2. Returned' = Returned /\ Creating = 0 /\ Creating' = 0
    BY <2>1 DEF Returned, Creating, Pending
  <2>3. Value(id) # 0 /\ Value(id)' = 0
    BY <1>0, <2>1 DEF Values, Value, Blank
  <2>4. ASSUME NEW i \in Ids \ {id} PROVE Value(i)' = Value(i)
    <3>1. CASE hash[i] = Null
      BY <1>0, <2>1, <3>1 DEF Value
    <3>2. CASE hash[i] # Null
      <4>1. hash[i] # hash[id]
        BY <1>0, <2>1, <3>2 DEF HashSound, Clean
      <4>2. /\ hash[id] \in Places /\ hash[i][1] \in Segs /\ hash[i][2] \in Cells
            /\ hash[i] = <<hash[i][1], hash[i][2]>>
        BY <1>0, <2>1, <3>2, HashPlace
      <4>3. At(hash[i])' = At(hash[i])
        BY <1>0, <2>1, <4>1, <4>2, MarkedCells DEF At
      <4> QED BY <1>0, <2>1, <3>2, <4>3 DEF Value
    <3> QED BY <3>1, <3>2
  <2> QED BY <1>0, <2>1, <2>2, <2>3, <2>4, DurableRemoved DEF Seen, SeenAs
<1> QED BY <1>1, <1>2, FreesOnly

(* A crash: what was going on has taken effect or not.                     *)
LEMMA DurableCrash ==
    ASSUME KeptOrFreed, GInv, Numbered, Clean, Clean', Crash
    PROVE  DurableStep
<1>0. /\ TypeOK /\ Values /\ Calm /\ Shape /\ Alive /\ ~Alive' /\ app' = Idle /\ UNCHANGED writes
      /\ app \in AppStates /\ writes \in Nat
  <2>1. Alive /\ ~Alive' /\ app' = Idle /\ UNCHANGED writes
    BY DEF Crash, End, Alive
  <2>2. Values
    BY <2>1, ValuesRead
  <2>3. TypeOK /\ app \in AppStates /\ writes \in Nat
    BY LifeFacts, WritesNat DEF GInv, RInv, TypeOK
  <2> QED BY <2>1, <2>2, <2>3 DEF GInv, RInv, LifeSound, ThreadsSound
<1>1. /\ ~(app.locked /\ app.pc \in {"append", "takeHead"})
      /\ Between \/ WhileWriting \/ \E id \in FreeIds : WhileFreeing(id)
  BY DEF Crash, Clean, CrashFaults
<1>2. Returned' = writes /\ Creating' = 0
  BY <1>0 DEF Returned, Creating, Pending, Idle
<1>3. app.pc = "idle" => ~app.locked
  BY <1>0 DEF Shape
<1>4. /\ Pending => Returned + 1 = writes /\ Creating = app.id
      /\ ~Pending => Returned = writes /\ Creating = 0
  BY <1>0, SMT DEF Returned, Creating
<1>7. app.pc \in {"append", "takeHead", "publish"} => app.id \in Ids /\ app.id # 0
  <2> SUFFICES ASSUME app.pc \in {"append", "takeHead", "publish"}
               PROVE  app.id \in Ids
    BY IdNotZero
  <2>1. consistent
    BY <1>0, LifeFacts DEF GInv, RInv, OnlyFrees
  <2>2. AppSound
    BY <1>0, <2>1, AcceptedHeap DEF HInv
  <2> QED BY <2>2 DEF AppSound, Writing
<1>5. CASE Between \/ WhileWriting
  <2>1. \A id \in Ids : Seen(id)' = Held(id)
    BY <1>0, <1>5 DEF Between, WhileWriting, Seen
  <2>2. CASE app.pc = "publish" /\ ~app.locked
    <3>1. Pending /\ Writing /\ InFlight = {}
      BY <2>2 DEF Pending, Writing, InFlight
    <3>2. PICK i \in Ids : i = app.id /\ i # 0
      BY <1>7, <2>2
    <3>3. Held(i) = writes
      BY <2>2, <3>1, <3>2 DEF Held, Numbered
    <3>4. \A id \in Ids \ {i} : Held(id) = Value(id)
      BY <3>1, <3>2 DEF Held, Value
    <3>5. Returned' = Returned + 1 /\ Creating = i
      BY <1>2, <1>4, <3>1, <3>2
    <3>6. SeenAs(i, Returned')
      BY <1>0, <1>2, <2>1, <3>3, <3>4 DEF Seen, SeenAs
    <3> QED BY <1>2, <3>2, <3>5, <3>6, DurableCreated
  <2>3. CASE app.pc \in {"append", "takeHead"}
    <3>1. Pending /\ InFlight = {}
      BY <1>1, <2>3 DEF Pending, InFlight
    <3>2. \A id \in Ids : Held(id) = Value(id)
      BY <2>3, <3>1 DEF Held, Value
    <3>3. SameSeen
      BY <1>0, <2>1, <3>2 DEF SameSeen, Seen
    <3> QED BY <1>2, <1>4, <1>7, <2>3, <3>1, <3>3, DurableNotCreated
  <2>4. CASE app.pc = "idle" \/ (app.pc \in {"publish", "unmap"} /\ app.locked)
    <3>1. ~Pending
      BY <2>4 DEF Pending
    <3>2. \A id \in Ids : Held(id) = Value(id)
      BY <1>3, <2>4 DEF Held, Value, InFlight
    <3>3. SameSeen
      BY <1>0, <2>1, <3>2 DEF SameSeen, Seen
    <3> QED BY <1>2, <1>4, <3>1, <3>3, DurableUnseen
  <2>5. app.pc \in {"idle", "append", "takeHead", "publish", "unmap"} /\ app.locked \in BOOLEAN
    BY <1>0 DEF AppStates
  <2>6. app.pc = "unmap" => app.locked
    BY <1>0 DEF Calm
  <2> QED BY <2>2, <2>3, <2>4, <2>5, <2>6
<1>6. ASSUME NEW i \in FreeIds, WhileFreeing(i) PROVE DurableStep
  <2>1. /\ app.pc = "idle" /\ hash[i] # Null /\ i \in Ids
        /\ kept' = [id \in Ids |-> IF id = i THEN 0 ELSE Held(id)]
    BY <1>6, ClientAssumption DEF WhileFreeing, AppAt
  <2>2. ~Pending /\ InFlight = {}
    BY <1>3, <2>1 DEF Pending, InFlight
  <2>3. \A id \in Ids : Held(id) = Value(id)
    BY <2>1, <2>2 DEF Held, Value
  <2>4. Value(i) # 0
    BY <1>0, <2>1, <2>2 DEF Values
  <2> QED BY <1>0, <1>2, <1>4, <2>1, <2>2, <2>3, <2>4, DurableRemoved DEF Seen, SeenAs
<1> QED BY <1>1, <1>5, <1>6

(* The end of delete_pmem.                                                 *)
LEMMA DurableClose ==
    ASSUME GInv, Clean, Clean', EndClose
    PROVE  DurableStep
<1>1. /\ Alive /\ ~Alive' /\ app.pc = "idle" /\ app' = Idle /\ UNCHANGED writes
      /\ kept' = [id \in Ids |-> Held(id)]
  BY DEF EndClose, End, Alive, GInv, LifeSound
<1>2. InFlight = {}
  BY <1>1 DEF GInv, RInv, ThreadsSound, Shape, InFlight
<1>3. Returned' = Returned /\ Creating' = Creating
  BY <1>1 DEF Returned, Creating, Pending, Idle
<1>4. SameSeen
  BY <1>1, <1>2 DEF SameSeen, Seen, Held, Value
<1> QED BY <1>3, <1>4, DurableUnseen

(* A start finds what the file held.                                       *)
LEMMA DurableStart ==
    ASSUME KeptOrFreed, GInv, Clean, Clean', Start
    PROVE  DurableStep
<1> USE DEF heapVars, listVars, lockVars
<1>1. /\ ~Alive /\ app = Idle /\ UNCHANGED <<content, app, writes>>
      /\ phase = "down" /\ phase' \in {"opening", "endless"}
  BY LifeFacts DEF GInv, RInv, AtRest, Start
<1>2. Returned' = Returned /\ Creating' = Creating
  BY <1>1 DEF Returned, Creating, Pending
<1>3. CASE phase' = "endless"
  <2>1. ~Alive' /\ kept' = kept
    BY <1>3 DEF Start, Alive
  <2> QED BY <1>1, <1>2, <2>1, DurableUnseen DEF SameSeen, Seen
<1>4. CASE phase' = "opening"
  <2>1. PICK h : h = hash' /\ Findable(h)
    BY <1>1, <1>4, StartFinds DEF GInv, HeapKept, Down
  <2>2. Alive' /\ InFlight' = {}
    BY <1>1, <1>4 DEF Alive, InFlight, Idle
  <2>3. ASSUME NEW id \in Ids PROVE Value(id)' = kept[id]
    BY <1>1, <2>1, <2>2 DEF Value, Findable, ValueIn, At
  <2> QED BY <1>1, <1>2, <2>2, <2>3, DurableUnseen DEF SameSeen, Seen
<1> QED BY <1>1, <1>3, <1>4

(* Every step is one of HeapStore, or the client does not see it.        *)
LEMMA DurableNext ==
    ASSUME KeptOrFreed, GInv, Clean => Numbered, [RestartNext]_allVars
    PROVE  [DurableStep]_(Durable!vars)
<1>1. CASE UNCHANGED allVars
  BY <1>1 DEF allVars, vars, lifeVars, heapVars, listVars, lockVars, Durable!vars, Alive, Value,
              InFlight, At, Pending
<1>2. CASE RestartNext /\ ~Clean'
  BY <1>2 DEF DurableStep, Durable!Keeps, Clean
<1>3. CASE RestartNext /\ Clean'
  <2>0. Clean /\ Clean' /\ Numbered /\ consistent \in BOOLEAN /\ hazards = {} /\ hazards' = {}
    <3>1. Clean
      BY <1>3, CleanBefore DEF GInv
    <3> QED BY <1>3, <3>1, LifeFacts DEF GInv, RInv, Clean
  <2>1. CASE ClientRuns
    <3>1. CASE consistent
      <4>1. (NewCall \/ CallStep) /\ Alive /\ Alive'
        BY <2>1 DEF ClientRuns, NewCall, Alive, lifeVars
      <4>2. IInv /\ HInv /\ NInv /\ Values
        BY <2>0, <3>1, <4>1, AcceptedHeap, ValuesRead
      <4>3. Store!Next
        BY <2>0, <4>1, <4>2, StoreNewCall, StoreCallStep
      <4> QED BY <2>0, <4>1, <4>3, StoreLives
    <3>2. CASE ~consistent
      BY <2>0, <2>1, <3>2, DurableFrees
    <3> QED BY <2>0, <3>1, <3>2
  <2>2. ASSUME NEW c \in Cleaners, ThreadRuns(c) PROVE DurableStep
    <3>1. CleanerStep(c) /\ Alive /\ Alive' /\ consistent
      BY <2>2 DEF ThreadRuns, Works, Alive, lifeVars
    <3>2. IInv /\ Rows /\ AppEntry /\ HInv /\ NInv /\ Values
      BY <2>0, <3>1, AcceptedHeap, ValuesRead
    <3>3. Store!Next
      BY <2>0, <3>1, <3>2, StoreCleaner
    <3> QED BY <2>0, <3>1, <3>3, StoreLives
  <2>3. ASSUME NEW c \in Cleaners,
               BeginResume(c) \/ ResumeEntry(c) \/ MisreadResume(c) \/ EndResume(c) \/ StopCleaner(c)
        PROVE  DurableStep
    <3>1. UNCHANGED <<content, hash, app, writes>> /\ Alive /\ Alive'
      BY <2>0, <2>3, ResumeSame
    <3> QED BY <2>0, <3>1, DurableUnseen DEF SameSeen, Seen, Value, InFlight, At, Returned, Creating, Pending
  <2>4. CASE BeginClose \/ BeginSave \/ EndSave \/ Opened
    <3>1. UNCHANGED <<content, hash, app, writes>> /\ Alive /\ Alive'
      BY <2>4 DEF BeginClose, BeginSave, EndSave, Opened, vars, heapVars, Alive
    <3> QED BY <2>0, <3>1, DurableUnseen DEF SameSeen, Seen, Value, InFlight, At, Returned, Creating, Pending
  <2>5. ASSUME NEW c \in Cleaners, CreateThread(c) PROVE DurableStep
    <3>1. UNCHANGED <<content, hash, app, writes>> /\ Alive /\ Alive'
      BY <2>5, CreateFacts DEF heapVars, Alive
    <3> QED BY <2>0, <3>1, DurableUnseen DEF SameSeen, Seen, Value, InFlight, At, Returned, Creating, Pending
  <2> QED BY <1>3, <2>0, <2>1, <2>2, <2>3, <2>4, <2>5, DurableClose, DurableCrash, DurableStart
          DEF RestartNext, ThreadNext
<1> QED BY <1>1, <1>2, <1>3

(* Over restarts the client has one map from objects to values, and a    *)
(* call that a crash interrupts has taken effect or not: the program     *)
(* starts with the values it had (README.md:18, hash_table.c:27-117), as *)
(* long as nothing has gone wrong that the model names and no object is  *)
(* freed that was ever changed.                                          *)
THEOREM RestartKeepsStore ==
    ASSUME KeptOrFreed
    PROVE  RestartSpec => SurvivesRestart
<1> DEFINE I == GInv /\ (Clean => Numbered)
<1>1. RestartInit => I /\ Durable!Init
  <2> SUFFICES ASSUME RestartInit PROVE I /\ Durable!Init
    OBVIOUS
  <2>1. Init /\ Alive /\ Clean
    BY DEF RestartInit, Alive, Clean, Init
  <2>2. Numbered
    BY <2>1 DEF Init, Numbered, Valued, Blank, Idle, Writing
  <2>3. \A id \in Ids : Value(id) = 0
    BY <2>1 DEF Init, Idle, Value, InFlight
  <2>4. Durable!Init
    BY <2>1, <2>3 DEF Init, Idle, Durable!Init, Pending, Clean
  <2> QED BY <2>2, <2>4, GInvInit
<1>2. I /\ [RestartNext]_allVars => I' /\ [DurableStep]_(Durable!vars)
  <2> SUFFICES ASSUME I, [RestartNext]_allVars PROVE I' /\ [DurableStep]_(Durable!vars)
    OBVIOUS
  <2>1. GInv'
    BY GInvNext
  <2>2. Clean' => Numbered'
    <3>1. CASE UNCHANGED allVars
      BY <3>1 DEF allVars, vars, lifeVars, heapVars, Clean, Numbered, Valued, Writing
    <3>2. CASE RestartNext
      BY <3>2, CleanBefore, NumberedNext DEF GInv
    <3> QED BY <3>1, <3>2
  <2>3. [DurableStep]_(Durable!vars)
    BY DurableNext
  <2> QED BY <2>1, <2>2, <2>3
<1> HIDE DEF I
<1> QED BY <1>1, <1>2, PTL DEF RestartSpec, SurvivesRestart, Durable!CrashSpec, DurableStep
=============================================================================
