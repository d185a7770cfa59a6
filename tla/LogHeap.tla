------------------------------ MODULE LogHeap ------------------------------
(***************************************************************************)
(* The log-structured heap of src/project: the client's calls (palloc,     *)
(* palloc_with_id, update_data, pfree) and the cleaner threads, on the     *)
(* segments of one mapped file and the hash table in RAM.                  *)
(*                                                                         *)
(* A segment is a row of cells.  An entry occupies one header cell and one *)
(* cell per unit of data, so that walking a segment, running into what an  *)
(* earlier life of the segment left behind and misreading data as a header *)
(* all happen as they do in the code.  The segment lists are sequences     *)
(* and each of their critical sections is one step; the update_move lock   *)
(* and the used_segs lock, which are held across other steps or leaked,    *)
(* are variables.                                                          *)
(***************************************************************************)
EXTENDS SequencesExt

CONSTANTS
    NSeg,           \* number of segments, the emergency ones included
    EmergencyCount, \* EMERGENCY_CLEANER_SEGMENT_COUNT
    SegSize,        \* SEGMENT_SIZE, in cells
    SegHdr,         \* sizeof(segment_t), in cells
    Cleaners,       \* the cleaner threads
    None,           \* NULL
    App,            \* the client's thread, as the owner of a lock
    Lens,           \* the data lengths the client asks for
    MaxId,          \* bound on object ids
    MaxWrites,      \* bound on the number of calls that write an entry
    WithIds,        \* ids the client passes to palloc_with_id
    UpdIds,         \* ids the client passes to update_data
    FreeIds,        \* ids the client passes to pfree
    SizeMod,        \* size_t is unsigned: used_space wraps here ...
    CountMod        \* ... and used_segments_count here

ASSUME SegAssumption ==
    /\ NSeg \in Nat /\ EmergencyCount \in Nat /\ EmergencyCount + 1 < NSeg
    /\ SegSize \in Nat /\ SegHdr \in Nat /\ SegHdr + 2 <= SegSize

Segs == 0 .. NSeg - 1
Cap == SegSize - SegHdr
Cells == 0 .. Cap - 1
Ids == 1 .. MaxId
Vals == 1 .. MaxWrites

(* A client asks for data that fit in a segment: neither palloc nor        *)
(* append_to_log checks it.  Both counters wrap only from below zero:      *)
(* used_space can count a segment's last life as well as the present one.  *)
ASSUME ClientAssumption ==
    /\ MaxId \in Nat /\ MaxWrites \in Nat
    /\ Lens \subseteq 1 .. Cap - 1
    /\ WithIds \subseteq Ids /\ UpdIds \subseteq Ids /\ FreeIds \subseteq Ids
    /\ SizeMod \in Nat /\ SizeMod > 2 * SegSize
    /\ CountMod \in Nat /\ CountMod > NSeg + MaxWrites
    /\ None \notin Segs /\ None \notin Cleaners
    /\ App \notin Cleaners /\ App # None

VARIABLES
    content,    \* the cells of every segment
    fill,       \* how far a segment is written in its present life: for the
                \* head log->head_position, for a cleaner segment cleaner_seg_pos
    usedSpace,  \* segment_t.used_space
    head,       \* log->head_segment
    free,       \* log->free_segments ..
    used,       \* log->used_segments ..
    cleaning,   \* log->cleaner_segments ..
    emergency,  \* log->emergency_cleaner_segments .., and by its length
                \* log->current_emergency_cleaner_segments_count
    usedCount,  \* log->used_segments_count
    nextId,     \* log->current_id
    hash,       \* pmem->hash_table
    currCleaned,\* pmem->currently_cleaned_segments
    updateMove, \* the owner of update_move_mutex
    usedLock,   \* the owner of used_segs_mutex, when it is held between steps
    app,        \* the client's thread: the call it is in
    cl,         \* the cleaner threads
    writes,     \* number of writing calls so far; numbers the values
    hazards     \* what has gone wrong so far (the names below)

heapVars == <<content, fill, usedSpace>>
listVars == <<head, free, used, cleaning, emergency, usedCount>>
lockVars == <<updateMove, usedLock, currCleaned>>
vars == <<heapVars, listVars, lockVars, nextId, hash, app, cl, writes, hazards>>

-----------------------------------------------------------------------------
(* Entries and cells.                                                      *)

Entry == [id : Ids \cup {0}, ver : Nat, len : Nat, del : BOOLEAN, val : Vals \cup {0}]

(* Memory that was never written, and the terminator, have length 0.       *)
Blank == [id |-> 0, ver |-> 0, len |-> 0, del |-> FALSE, val |-> 0]

(* A cell that holds data of an entry, not a header.                       *)
Data == [id |-> 0, ver |-> 0, len |-> 0 - 1, del |-> FALSE, val |-> 0]

Size(e) == 1 + e.len

(* The entry stored at a place, and memory after storing e at a place.     *)
Null == <<>>
Places == Segs \X Cells
At(place) == content[place[1]][place[2]]

Written(s, p, e) ==
    [content EXCEPT ![s] = [i \in Cells |->
        IF i = p THEN e
        ELSE IF i > p /\ i < p + Size(e) THEN Data
        ELSE content[s][i]]]


-----------------------------------------------------------------------------
(* Hazards.  The fatal ones end the behaviour: the process dies, or memory *)
(* is read or relinked in ways that depend on the bytes of the data.       *)

Hazards == {"staleClaim",   \* a cleaner claims a segment another one already freed
            "failedUpdate", \* update_data fails after it reduced used_space
            "staleTail",    \* a cleaner walks past the end of what was written
            "lateReset",    \* used_space reset on a segment that is in use again
            "nullDeref",    \* the hash table has no entry where one is dereferenced
            "garbage",      \* data are read as an entry's header
            "truncated",    \* next_segment reset on a segment that has a successor
            "relinked",     \* an emergency segment taken before next_segment is reset
            "misdealt"}     \* init_cleaner reads a list that has changed (Restart)

Fatal == {"nullDeref", "garbage", "truncated", "relinked", "misdealt"}
Running == hazards \cap Fatal = {}
AppAt(pc) == Running /\ app.pc = pc
CleanerAt(c, pc) == Running /\ cl[c].pc = pc
Meet(h, when) == hazards' = IF when THEN hazards \cup {h} ELSE hazards

-----------------------------------------------------------------------------
(* The client between two calls.                                           *)
Idle == [pc |-> "idle", id |-> 0, locked |-> FALSE, entry |-> Blank, place |-> Null]

(* Initial states: what init_log leaves behind on a fresh file, with the   *)
(* cleaner threads just created.                                           *)

Init ==
    /\ content = [s \in Segs |-> [i \in Cells |-> Blank]]
    /\ fill = [s \in Segs |-> 0]
    /\ usedSpace = [s \in Segs |-> 0]
    /\ head = 0
    /\ free = [i \in 1 .. NSeg - EmergencyCount - 1 |-> i]
    /\ used = <<>>
    /\ cleaning = <<>>
    /\ emergency = [i \in 1 .. EmergencyCount |-> NSeg - EmergencyCount + i - 1]
    /\ usedCount = 0
    /\ nextId = 0
    /\ hash = [id \in Ids |-> Null]
    /\ currCleaned = {}
    /\ updateMove = None
    /\ usedLock = None
    /\ app = Idle
    /\ cl = [c \in Cleaners |-> [pc |-> "wait", seg |-> None, cur |-> None,
                                 pos |-> 0, nxt |-> None, late |-> "no", old |-> None]]
    /\ writes = 0
    /\ hazards = {}

-----------------------------------------------------------------------------
(* The client's calls.                                                     *)

NewEntry(id, ver, len) ==
    [id |-> id, ver |-> ver, len |-> len, del |-> FALSE, val |-> writes + 1]

Call(id, e, locked) ==
    /\ app' = [pc |-> "append", id |-> id, locked |-> locked, entry |-> e, place |-> Null]
    /\ writes' = writes + 1

(* gen_id: the next id that is not in the hash table; 0 is never an id.    *)
FreshIds == {id \in Ids : id >= nextId /\ hash[id] = Null}
GenId == {id \in FreshIds : \A other \in FreshIds : id <= other}

BeginPalloc(len) ==
    /\ AppAt("idle") /\ writes < MaxWrites
    /\ \E id \in GenId :
          /\ nextId' = id + 1
          /\ Call(id, NewEntry(id, 1, len), FALSE)
    /\ UNCHANGED <<heapVars, listVars, lockVars, hash, cl, hazards>>

(* palloc_with_id when there is no such object; otherwise it is BeginUpdate. *)
BeginPallocWithId(id, len) ==
    /\ AppAt("idle") /\ writes < MaxWrites
    /\ hash[id] = Null
    /\ Call(id, NewEntry(id, 1, len), FALSE)
    /\ UNCHANGED <<heapVars, listVars, lockVars, nextId, hash, cl, hazards>>

(* Wrong: the header stays counted.                                        *)
BugDiscount(place) ==
    usedSpace' = [usedSpace EXCEPT ![place[1]] = (@ - At(place).len) % SizeMod]

(* used_space no longer counts the entry at a place.                       *)
Discount(place) ==
    usedSpace' = [usedSpace EXCEPT ![place[1]] = (@ - Size(At(place))) % SizeMod]

(* The header of the next version of an entry.                             *)
Successor(e, len) ==
    [e EXCEPT !.ver = @ + 1, !.len = len, !.val = writes + 1]

(* update_data up to the call of append_to_log: the old version is         *)
(* discounted before the new one is known to fit.                          *)
BeginUpdate(id, len) ==
    /\ AppAt("idle") /\ writes < MaxWrites
    /\ updateMove = None
    /\ hash[id] # Null
    /\ updateMove' = App
    /\ Discount(hash[id])
    /\ Call(id, Successor(At(hash[id]), len), TRUE)
    /\ Meet("garbage", At(hash[id]) = Data)
    /\ UNCHANGED <<content, fill, listVars, usedLock, currCleaned, nextId, hash, cl>>

(* Wrong: the segment's header is not subtracted.                          *)
BugHasRoom(s, e) == SegSize - fill[s] >= Size(e)

HasRoom(s, e) == Cap - fill[s] >= Size(e)

(* append_to_log, when the head segment has room.                          *)
WriteEntry ==
    /\ AppAt("append") /\ head # None
    /\ HasRoom(head, app.entry)
    /\ content' = Written(head, fill[head], app.entry)
    /\ usedSpace' = [usedSpace EXCEPT ![head] = (@ + Size(app.entry)) % SizeMod]
    /\ fill' = [fill EXCEPT ![head] = @ + Size(app.entry)]
    /\ app' = [app EXCEPT !.pc = "publish", !.place = <<head, fill[head]>>]
    /\ UNCHANGED <<listVars, lockVars, nextId, hash, cl, writes, hazards>>

(* Wrong: no terminator.                                                   *)
BugTerminated(s) == content

(* The terminator goes where a smaller entry would still fit.              *)
Terminated(s) ==
    IF fill[s] \in Cells THEN [content EXCEPT ![s][fill[s]].len = 0] ELSE content

(* append_to_log, when the head segment is full: it joins the used list.   *)
SealHead ==
    /\ AppAt("append") /\ head # None
    /\ ~HasRoom(head, app.entry)
    /\ usedLock = None
    /\ content' = Terminated(head)
    /\ used' = Append(used, head)
    /\ usedCount' = (usedCount + 1) % CountMod
    /\ app' = [app EXCEPT !.pc = "takeHead"]
    /\ UNCHANGED <<fill, usedSpace, head, free, cleaning, emergency, lockVars, nextId,
                   hash, cl, writes, hazards>>

NeedsHead == AppAt("takeHead") \/ (AppAt("append") /\ head = None)

(* The first free segment becomes the head.                                *)
TakeHead ==
    /\ NeedsHead /\ free # <<>>
    /\ head' = Head(free)
    /\ free' = Tail(free)
    /\ fill' = [fill EXCEPT ![Head(free)] = 0]
    /\ app' = [app EXCEPT !.pc = "append"]
    /\ UNCHANGED <<content, usedSpace, used, cleaning, emergency, usedCount, lockVars,
                   nextId, hash, cl, writes, hazards>>

(* Wrong: the mutex stays locked.                                          *)
BugUnlocked == updateMove

Unlocked == IF app.locked THEN None ELSE updateMove

(* No free segment: the call fails.  A failed update_data has already      *)
(* discounted the version that stays valid.                                *)
OutOfMemory ==
    /\ NeedsHead /\ free = <<>>
    /\ head' = None
    /\ app' = Idle
    /\ updateMove' = Unlocked
    /\ Meet("failedUpdate", app.locked)
    /\ UNCHANGED <<heapVars, free, used, cleaning, emergency, usedCount, usedLock,
                   currCleaned, nextId, hash, cl, writes>>

(* add_to_hash_table at the end of palloc, palloc_with_id or update_data.  *)
Publish ==
    /\ AppAt("publish")
    /\ hash' = [hash EXCEPT ![app.id] = app.place]
    /\ app' = Idle
    /\ updateMove' = Unlocked
    /\ UNCHANGED <<heapVars, listVars, usedLock, currCleaned, nextId, cl, writes, hazards>>

(* Wrong: pfree does not mark the entry.                                   *)
BugMarked(place) == content

(* to_delete is set in the header at a place.                              *)
Marked(place) ==
    [content EXCEPT ![place[1]][place[2]] =
        IF @ = Data THEN Data ELSE [@ EXCEPT !.del = TRUE]]

(* pfree: mark the entry and discount it, then forget the id.              *)
BeginFree(id) ==
    /\ AppAt("idle")
    /\ updateMove = None
    /\ hash[id] # Null
    /\ updateMove' = App
    /\ content' = Marked(hash[id])
    /\ Discount(hash[id])
    /\ app' = [Idle EXCEPT !.pc = "unmap", !.id = id, !.locked = TRUE]
    /\ Meet("garbage", At(hash[id]) = Data)
    /\ UNCHANGED <<fill, listVars, usedLock, currCleaned, nextId, hash, cl, writes>>

Unmap ==
    /\ AppAt("unmap")
    /\ hash' = [hash EXCEPT ![app.id] = Null]
    /\ app' = Idle
    /\ updateMove' = Unlocked
    /\ UNCHANGED <<heapVars, listVars, usedLock, currCleaned, nextId, cl, writes, hazards>>

(* A call that has begun goes on ...                                       *)
CallStep == WriteEntry \/ SealHead \/ TakeHead \/ OutOfMemory \/ Publish \/ Unmap

(* ... and the client may begin another one.                               *)
NewCall ==
    \/ \E len \in Lens :
          \/ BeginPalloc(len)
          \/ \E id \in WithIds : BeginPallocWithId(id, len)
          \/ \E id \in UpdIds \cup WithIds : BeginUpdate(id, len)
    \/ \E id \in FreeIds : BeginFree(id)

-----------------------------------------------------------------------------
(* The cleaner threads.                                                    *)

(* The segment after s in whichever list holds s.                          *)
After(list, s) == {list[i + 1] : i \in {j \in 1 .. Len(list) - 1 : list[j] = s}}
Following(s) == After(free, s) \cup After(used, s) \cup After(cleaning, s) \cup After(emergency, s)

(* The successor in the used list that an emergency segment still points   *)
(* to: the thread that gave it back has yet to reset it.                   *)
Left(s) ==
    {cl[d].old : d \in {b \in Cleaners :
                           cl[b].pc = "finish" /\ cl[b].cur = s /\ cl[b].late = "linked"}}

(* segment_t.next_segment.                                                 *)
NextOf(s) ==
    LET succ == IF Following(s) # {} THEN Following(s) ELSE Left(s)
    IN  IF succ = {} THEN None ELSE CHOOSE t \in succ : TRUE

(* Wrong: the segment is not unlinked.                                     *)
BugWithout(list, s) == list

Without(list, s) == RemoveAt(list, CHOOSE i \in DOMAIN list : list[i] = s)

(* Thread c goes to the test of segment s, or starts over at the end.      *)
GoTo(c, s) ==
    cl' = [cl EXCEPT ![c] = [pc |-> IF s = None THEN "scan" ELSE "test", seg |-> cl[c].seg,
                             cur |-> s, pos |-> 0, nxt |-> None, late |-> "no",
                             old |-> None]]

(* wait_to_start_cleaning: at least half of the file's segments are used.  *)
StartCleaning(c) ==
    /\ CleanerAt(c, "wait")
    /\ usedCount >= NSeg \div 2
    /\ cl' = [cl EXCEPT ![c].pc = "first"]
    /\ UNCHANGED <<heapVars, listVars, lockVars, nextId, hash, app, writes, hazards>>

(* Wrong: the segment is not taken off the list.                           *)
BugObtain(s) ==
    /\ cleaning' = Append(cleaning, s)
    /\ fill' = [fill EXCEPT ![s] = 0]
    /\ free # <<>> /\ s = Head(free)
    /\ UNCHANGED <<free, emergency>>

(* get_new_cleaner_segment: a free segment, or else an emergency one.      *)
Obtain(s) ==
    /\ cleaning' = Append(cleaning, s)
    /\ fill' = [fill EXCEPT ![s] = 0]
    /\ \/ /\ free # <<>> /\ s = Head(free)
          /\ free' = Tail(free)
          /\ UNCHANGED emergency
       \/ /\ free = <<>> /\ emergency # <<>> /\ s = Head(emergency)
          /\ emergency' = Tail(emergency)
          /\ UNCHANGED free

(* The list goes on where next_segment points: into the used segments, if  *)
(* the thread that gave s back has not reset it yet.                       *)
StillLinked(s) == Left(s) # {}

GetSegment(c, s) ==
    /\ Obtain(s)
    /\ Meet("relinked", StillLinked(s))
    /\ UNCHANGED <<content, usedSpace, head, used, usedCount, lockVars, nextId, hash,
                   app, writes>>

GetFirstSegment(c) ==
    /\ CleanerAt(c, "first")
    /\ \E s \in Segs :
          /\ GetSegment(c, s)
          /\ cl' = [cl EXCEPT ![c].pc = "scan", ![c].seg = s]

(* The walk over the used segments starts at the first one.                *)
BeginScan(c) ==
    /\ CleanerAt(c, "scan") /\ used # <<>>
    /\ GoTo(c, Head(used))
    /\ UNCHANGED <<heapVars, listVars, lockVars, nextId, hash, app, writes, hazards>>

(* Wrong: a segment without live entries is left alone.                    *)
BugToClean(s) == usedSpace[s] > 0 /\ usedSpace[s] < SegSize \div 2

ToClean(s) == usedSpace[s] < SegSize \div 2
(* Wrong: the set of claimed segments is not asked.                        *)
BugClaimable(s) == ToClean(s)

Claimable(s) == ToClean(s) /\ s \notin currCleaned

(* to_clean and test_and_set_curr_cleaned.  A segment with nothing in use  *)
(* is not walked.                                                          *)
Claim(c) ==
    /\ CleanerAt(c, "test")
    /\ Claimable(cl[c].cur)
    /\ currCleaned' = currCleaned \cup {cl[c].cur}
    /\ cl' = [cl EXCEPT ![c].pc = IF usedSpace[cl[c].cur] = 0 THEN "advance" ELSE "walk"]
    /\ Meet("staleClaim", cl[c].cur \notin ToSet(used))
    /\ UNCHANGED <<heapVars, listVars, updateMove, usedLock, nextId, hash, app, writes>>

Skip(c) ==
    /\ CleanerAt(c, "test")
    /\ ~Claimable(cl[c].cur)
    /\ usedLock = None
    /\ GoTo(c, NextOf(cl[c].cur))
    /\ UNCHANGED <<heapVars, listVars, lockVars, nextId, hash, app, writes, hazards>>

(* Wrong: the walk ends one cell early.                                    *)
BugWalkOver(c) == cl[c].pos < Cap - 2 => content[cl[c].cur][cl[c].pos].len = 0

(* The walk over the entries of the claimed segment.                       *)
WalkOver(c) == cl[c].pos < Cap - 1 => content[cl[c].cur][cl[c].pos].len = 0

EndWalk(c) ==
    /\ CleanerAt(c, "walk") /\ updateMove # c
    /\ WalkOver(c)
    /\ cl' = [cl EXCEPT ![c].pc = "advance"]
    /\ UNCHANGED <<heapVars, listVars, lockVars, nextId, hash, app, writes, hazards>>

(* Thread c looks at the next entry under update_move_mutex, or has kept   *)
(* the mutex since it found its own segment full.                          *)
Visits(c) == CleanerAt(c, "walk") /\ updateMove = None /\ ~WalkOver(c)
Resumes(c) == CleanerAt(c, "walk") /\ updateMove = c
Visited(c) == content[cl[c].cur][cl[c].pos]

(* The entry, or the one the hash table has for its id, is not a header;   *)
(* or the hash table has none.                                             *)
Unreadable(e) == e # Data => ~e.del /\ hash[e.id] # Null /\ At(hash[e.id]) = Data
Unmapped(e) == e # Data /\ ~e.del /\ hash[e.id] = Null

(* Wrong: the current version is dropped with the older ones.              *)
BugKept(e) == ~e.del /\ e.ver > At(hash[e.id]).ver

(* Wrong: an old version is copied over the current one.                   *)
BugKeptOld(e) == ~e.del

(* An entry survives unless it is marked or the hash table has a newer     *)
(* version of its object.                                                  *)
Kept(e) == ~e.del /\ e.ver >= At(hash[e.id]).ver
Survives(e) == e.len > 0 /\ ~Unreadable(e) /\ ~Unmapped(e) /\ Kept(e)

(* The walk is past the last entry of the segment's present life.          *)
Overrun(c) == IF cl[c].pos >= fill[cl[c].cur] THEN {"staleTail"} ELSE {}

Misread(c) ==
    /\ \/ /\ \/ Visits(c) /\ Unreadable(Visited(c))
             \/ Resumes(c) /\ ~Survives(Visited(c))
          /\ hazards' = hazards \cup Overrun(c) \cup {"garbage"}
       \/ /\ Visits(c) /\ Unmapped(Visited(c))
          /\ hazards' = hazards \cup Overrun(c) \cup {"nullDeref"}
    /\ UNCHANGED <<heapVars, listVars, lockVars, nextId, hash, app, cl, writes>>

Drop(c) ==
    /\ Visits(c) /\ ~Unreadable(Visited(c)) /\ ~Unmapped(Visited(c))
    /\ ~Kept(Visited(c))
    /\ cl' = [cl EXCEPT ![c].pos = @ + Size(Visited(c))]
    /\ UNCHANGED <<heapVars, listVars, lockVars, nextId, hash, app, writes, hazards>>

(* Copy the entry to the cleaner's segment and redirect the hash table.    *)
Copy(c) ==
    /\ Visits(c) \/ Resumes(c)
    /\ Survives(Visited(c))
    /\ LET e == Visited(c)
           s == cl[c].seg
       IN  /\ HasRoom(s, e)
           /\ content' = Written(s, fill[s], e)
           /\ usedSpace' = [usedSpace EXCEPT ![s] = (@ + Size(e)) % SizeMod]
           /\ fill' = [fill EXCEPT ![s] = @ + Size(e)]
           /\ hash' = [hash EXCEPT ![e.id] = <<s, fill[s]>>]
           /\ cl' = [cl EXCEPT ![c].pos = @ + Size(e)]
    /\ updateMove' = None
    /\ hazards' = hazards \cup Overrun(c)
    /\ UNCHANGED <<listVars, usedLock, currCleaned, nextId, app, writes>>

(* The cleaner's segment is full: it joins the used segments, and thread c *)
(* keeps update_move_mutex until it has another one.                       *)
FindFull(c) ==
    /\ Visits(c) /\ Survives(Visited(c))
    /\ ~HasRoom(cl[c].seg, Visited(c))
    /\ updateMove' = c
    /\ cl' = [cl EXCEPT ![c].pc = "retire"]
    /\ UNCHANGED <<heapVars, listVars, usedLock, currCleaned, nextId, hash, app, writes, hazards>>

(* append_cleaner_segment_to_used_segments; used_segments_count stays.     *)
Retire(c) ==
    /\ CleanerAt(c, "retire") /\ usedLock = None
    /\ used' = Append(used, cl[c].seg)
    /\ cleaning' = Without(cleaning, cl[c].seg)
    /\ cl' = [cl EXCEPT ![c].pc = "refill", ![c].seg = None]
    /\ UNCHANGED <<heapVars, head, free, emergency, usedCount, lockVars, nextId, hash,
                   app, writes, hazards>>

Refill(c) ==
    /\ CleanerAt(c, "refill")
    /\ \E s \in Segs :
          /\ GetSegment(c, s)
          /\ cl' = [cl EXCEPT ![c].pc = "walk", ![c].seg = s]

(* The next segment to test is read before the claimed one is given back.  *)
Advance(c) ==
    /\ CleanerAt(c, "advance") /\ usedLock = None
    /\ cl' = [cl EXCEPT ![c].pc = "reclaim", ![c].nxt = NextOf(cl[c].cur)]
    /\ UNCHANGED <<heapVars, listVars, lockVars, nextId, hash, app, writes, hazards>>

(* Wrong: the emergency segments are never refilled.                       *)
BugNeedsRefill == FALSE

NeedsRefill == Len(emergency) < EmergencyCount

(* append_cleaned_segment_to_free_segments: the emergency segments come    *)
(* first.  A segment that becomes an emergency one is reset, and loses its *)
(* successor in the used list, only after the locks are released: Finish.  *)
Late(s) ==
    IF ~NeedsRefill THEN "no" ELSE IF NextOf(s) = None THEN "last" ELSE "linked"

Reclaim(c) ==
    /\ CleanerAt(c, "reclaim") /\ usedLock = None
    /\ cl[c].cur \in ToSet(used)
    /\ used' = Without(used, cl[c].cur)
    /\ usedCount' = (usedCount - 1) % CountMod
    /\ IF NeedsRefill
       THEN /\ emergency' = Append(emergency, cl[c].cur)
            /\ UNCHANGED <<free, usedSpace>>
       ELSE /\ free' = Append(free, cl[c].cur)
            /\ usedSpace' = [usedSpace EXCEPT ![cl[c].cur] = 0]
            /\ UNCHANGED emergency
    /\ cl' = [cl EXCEPT ![c].pc = "finish", ![c].late = Late(cl[c].cur),
                              ![c].old = IF NeedsRefill THEN NextOf(cl[c].cur) ELSE None]
    /\ UNCHANGED <<content, fill, head, cleaning, lockVars, nextId, hash, app, writes, hazards>>

(* The segment is not among the used ones (any more): the function returns *)
(* without releasing used_segs_mutex.                                      *)
ReclaimNothing(c) ==
    /\ CleanerAt(c, "reclaim") /\ usedLock = None
    /\ cl[c].cur \notin ToSet(used)
    /\ usedLock' = c
    /\ cl' = [cl EXCEPT ![c].pc = "finish"]
    /\ UNCHANGED <<heapVars, listVars, updateMove, currCleaned, nextId, hash, app,
                   writes, hazards>>

(* The late reset, unset_curr_cleaned, and on to the next segment.         *)
LateHazards(c) ==
    IF cl[c].late = "no" THEN {}
    ELSE (IF Following(cl[c].cur) # {} THEN {"truncated"} ELSE {})
         \cup (IF cl[c].cur \notin ToSet(emergency) /\ fill[cl[c].cur] # 0
               THEN {"lateReset"} ELSE {})

Finish(c) ==
    /\ CleanerAt(c, "finish")
    /\ usedSpace' = [usedSpace EXCEPT ![cl[c].cur] = IF cl[c].late = "no" THEN @ ELSE 0]
    /\ currCleaned' = currCleaned \ {cl[c].cur}
    /\ GoTo(c, cl[c].nxt)
    /\ hazards' = hazards \cup LateHazards(c)
    /\ UNCHANGED <<content, fill, listVars, updateMove, usedLock, nextId, hash, app, writes>>

CleanerStep(c) ==
    \/ StartCleaning(c) \/ GetFirstSegment(c)
    \/ BeginScan(c) \/ Claim(c) \/ Skip(c)
    \/ EndWalk(c) \/ Misread(c) \/ Drop(c) \/ Copy(c)
    \/ FindFull(c) \/ Retire(c) \/ Refill(c)
    \/ Advance(c) \/ Reclaim(c) \/ ReclaimNothing(c) \/ Finish(c)

-----------------------------------------------------------------------------
Next ==
    \/ CallStep
    \/ NewCall
    \/ \E c \in Cleaners : CleanerStep(c)

Spec == Init /\ [][Next]_vars

-----------------------------------------------------------------------------
(* Invariants.                                                             *)

AppStates == [pc : {"idle", "append", "takeHead", "publish", "unmap"},
              id : Ids \cup {0}, locked : BOOLEAN,
              entry : Entry, place : Places \cup {Null}]

CleanerStates == [pc : {"wait", "first", "scan", "test", "walk", "retire", "refill",
                        "advance", "reclaim", "finish"},
                  seg : Segs \cup {None}, cur : Segs \cup {None}, pos : Nat,
                  nxt : Segs \cup {None}, late : {"no", "last", "linked"},
                  old : Segs \cup {None}]

(* Every variable has its type.                                            *)
TypeOK ==
    /\ content \in [Segs -> [Cells -> Entry \cup {Data}]]
    /\ fill \in [Segs -> 0 .. Cap]
    /\ usedSpace \in [Segs -> 0 .. SizeMod - 1]
    /\ head \in Segs \cup {None}
    /\ free \in Seq(Segs) /\ used \in Seq(Segs)
    /\ cleaning \in Seq(Segs) /\ emergency \in Seq(Segs)
    /\ usedCount \in 0 .. CountMod - 1
    /\ nextId \in Nat
    /\ hash \in [Ids -> Places \cup {Null}]
    /\ currCleaned \subseteq Segs
    /\ updateMove \in Cleaners \cup {App, None}
    /\ usedLock \in Cleaners \cup {None}
    /\ app \in AppStates
    /\ cl \in [Cleaners -> CleanerStates]
    /\ writes \in 0 .. MaxWrites
    /\ hazards \subseteq Hazards

(* What a thread's program counter says: which segments it has, and that   *)
(* update_move_mutex is owned by the client exactly during a call that     *)
(* replaces or removes an entry, and by a cleaner that looks for a segment *)
(* to go on copying into (cleaner.c:115-140).                              *)
Shape ==
    /\ app.locked <=> updateMove = App
    /\ app.locked => app.pc # "idle"
    /\ \A c \in Cleaners :
          /\ cl[c].seg = None <=> cl[c].pc \in {"wait", "first", "refill"}
          /\ cl[c].cur = None => cl[c].pc \in {"wait", "first", "scan"}
          /\ cl[c].pc \in {"retire", "refill"} => updateMove = c
          /\ updateMove = c => cl[c].pc \in {"walk", "retire", "refill"} /\ cl[c].pos \in Cells

(* The head is still the head while it is the last of the used list.       *)
HeadSet == IF head = None \/ app.pc = "takeHead" THEN {} ELSE {head}

(* A segment is in exactly one place: the head, or once in one of the four *)
(* lists (thesis.tex:202).  Nothing the cleaners or the client do loses or *)
(* duplicates one, up to the hazards of ListsIntact, which end a behaviour.*)
SegmentsPartitioned ==
    /\ IsInjective(free) /\ IsInjective(used) /\ IsInjective(cleaning) /\ IsInjective(emergency)
    /\ ToSet(free) \cap (ToSet(used) \cup ToSet(cleaning) \cup ToSet(emergency)) = {}
    /\ ToSet(used) \cap (ToSet(cleaning) \cup ToSet(emergency)) = {}
    /\ ToSet(cleaning) \cap ToSet(emergency) = {}
    /\ HeadSet \cap (ToSet(free) \cup ToSet(used) \cup ToSet(cleaning) \cup ToSet(emergency)) = {}
    /\ HeadSet \cup ToSet(free) \cup ToSet(used) \cup ToSet(cleaning) \cup ToSet(emergency) = Segs

(* The cleaner segments are exactly those the threads copy into, and no    *)
(* two threads copy into the same one.                                     *)
OwnSegments ==
    /\ ToSet(cleaning) = {cl[c].seg : c \in Cleaners} \ {None}
    /\ \A c, d \in Cleaners : cl[c].seg = cl[d].seg /\ cl[c].seg # None => c = d

(* The claims of the threads.                                              *)
Cleans(c) == cl[c].pc \in {"walk", "retire", "refill", "advance", "reclaim", "finish"}

(* No two threads clean the same segment (cleaner.c:172-185), and as long  *)
(* as nobody claimed through a stale cursor, every segment being cleaned   *)
(* stays among the used ones until it is given back.                       *)
ClaimsExclusive ==
    /\ currCleaned = {cl[c].cur : c \in {d \in Cleaners : Cleans(d)}}
    /\ \A c, d \in Cleaners : Cleans(c) /\ Cleans(d) /\ cl[c].cur = cl[d].cur => c = d
    /\ "staleClaim" \notin hazards =>
          \A c \in Cleaners : Cleans(c) /\ cl[c].pc # "finish" => cl[c].cur \in ToSet(used)

(* The one way to leave used_segs_mutex locked (cleaner.c:357-359) is the  *)
(* claim of a segment that another thread gave back in the meantime.       *)
LeakNeedsStaleClaim == usedLock # None => "staleClaim" \in hazards

(* The id whose entry is being replaced or removed.                        *)
InFlight == IF app.locked THEN {app.id} ELSE {}
InLog(s) == s = head \/ s \in ToSet(used) \cup ToSet(cleaning)
Stored(place) == InLog(place[1]) /\ place[2] < fill[place[1]] /\ At(place) # Data

(* What the hash table points to is a live entry of that id, in the        *)
(* written part of a segment that has not been given back: no cleaner ever *)
(* frees a segment that still holds a current version.                     *)
HashSound ==
    hazards = {} =>
        \A id \in Ids \ InFlight : hash[id] # Null =>
            /\ Stored(hash[id])
            /\ At(hash[id]).id = id /\ ~At(hash[id]).del /\ At(hash[id]).len > 0

(* Entries that the cleaner of their segment has behind it.                *)
Walked(place) ==
    \E c \in Cleaners :
        /\ Cleans(c) /\ cl[c].cur = place[1]
        /\ cl[c].pc \in {"walk", "retire", "refill"} => place[2] < cl[c].pos

(* Of the entries a cleaner has yet to look at, no unmarked one is newer   *)
(* than the version the hash table has, and none belongs to an object that *)
(* is gone: so the version test drops exactly what is outdated, and the    *)
(* lookup before it finds an entry.                                        *)
NewestVersion ==
    hazards = {} =>
        \A place \in Places :
            Stored(place) /\ ~Walked(place) /\ place # app.place =>
                LET e == At(place)
                IN  \/ e.del \/ e.id \in InFlight
                    \/ hash[e.id] # Null /\ e.ver <= At(hash[e.id]).ver

(* Entries a segment must not be freed with: current versions, and an      *)
(* entry that is written but not yet published.                            *)
LiveCells(s) ==
    {p \in 0 .. fill[s] - 1 :
        \/ app.place = <<s, p>>
        \/ \E id \in Ids \ InFlight : hash[id] = <<s, p>>}
LiveArea(s) == {i \in Cells : \E p \in LiveCells(s) : p <= i /\ i < p + Size(content[s][p])}
LiveSpace(s) == Cardinality(LiveArea(s))

(* used_space is the size of the live entries of a segment, and never less *)
(* than that while the segment is being cleaned: a segment with            *)
(* used_space 0 is freed without being walked.                             *)
Accounting ==
    hazards = {} =>
        \A s \in ToSet(used) \cup HeadSet :
            \/ usedSpace[s] = LiveSpace(s)
            \/ s \in currCleaned /\ usedSpace[s] >= LiveSpace(s)

(* The client's view: ImplementsStore says that the calls, with everything *)
(* the cleaners do in between, behave like a map from ids to values; no    *)
(* value is lost, and none comes back (README.md:20).  update_data and     *)
(* pfree take effect when they lock update_move_mutex: from then on the    *)
(* old version may be gone.  The other calls do when they return.          *)
Value(id) ==
    IF id \in InFlight THEN app.entry.val
    ELSE IF hash[id] = Null THEN 0 ELSE At(hash[id]).val
Pending == app.pc \in {"append", "takeHead", "publish"} /\ ~app.locked
Store == INSTANCE HeapStore WITH
    NoValue <- 0, NoCall <- 0,
    store <- [id \in Ids |-> Value(id)],
    calls <- IF Pending THEN writes - 1 ELSE writes,
    creating <- IF Pending THEN app.id ELSE 0,
    full <- free = <<>>,
    broken <- hazards # {}

ImplementsStore == Store!Spec

(* Used segments with room for another header behind their last entry,     *)
(* where a walk does not stop: it goes on into what an earlier life of the *)
(* segment left there.                                                     *)
OpenEnds == {s \in ToSet(used) : fill[s] < Cap - 1 /\ content[s][fill[s]].len # 0}

(* The client never leaves such an end behind when it seals its head, and  *)
(* no later step opens one (log.c:94-100): only a cleaner does that, which *)
(* retires its segment without a terminator (cleaner.c:121-122).           *)
EndsStayClosed ==
    [][OpenEnds' \subseteq OpenEnds \cup {cl[c].seg : c \in {d \in Cleaners : cl[d].pc = "retire"}}]_vars

(* One cleaner thread races with nobody: what goes wrong first is that an  *)
(* update finds no memory, or that a walk passes an open end.              *)
RacesNeedTwo == hazards # {} => hazards \cap {"failedUpdate", "staleTail"} # {}

(* The hash table never has nothing, or another object, where an object    *)
(* is, not even after an update failed (test_big.c:195-223).               *)
Readable ==
    \A id \in Ids \ InFlight : hash[id] # Null =>
        Stored(hash[id]) /\ At(hash[id]).id = id

(* The cleaner finds a version of every unmarked entry in the hash table   *)
(* (thesis.tex:367).                                                       *)
VersionFound == "nullDeref" \notin hazards

(* A segment is in one list only, and leaves it along with its link to the *)
(* next one (thesis.tex:202): nobody takes a segment from the emergency    *)
(* list that still points into the used list, and the reset of             *)
(* next_segment (cleaner.c:396-398) cuts off no segment.                   *)
ListsIntact == hazards \cap {"relinked", "truncated"} = {}

(* No thread goes on with used_segs_mutex still locked (thesis.tex:373).   *)
UsedSegsReleased == usedLock = None

(* Nothing helps thread c, which holds update_move_mutex and waits for a   *)
(* segment: every other thread waits for the mutex or for a segment.       *)
Stuck(c) ==
    /\ cl[c].pc = "refill" /\ free = <<>> /\ emergency = <<>>
    /\ \A d \in Cleaners \ {c} : (cl[d].pc = "walk" /\ ~WalkOver(d)) \/ cl[d].pc = "first"

(* The emergency segments keep the cleaner going: it never waits forever   *)
(* for a segment to copy into (thesis.tex:345-349).                        *)
NeverStuck == \A c \in Cleaners : ~Stuck(c)

-----------------------------------------------------------------------------
(* Liveness.  The threads are scheduled by the operating system, and a     *)
(* call that has begun runs on; nobody has to begin a call.                *)
FairSpec ==
    /\ Spec
    /\ WF_vars(CallStep)
    /\ \A c \in Cleaners : WF_vars(CleanerStep(c))

(* Every call returns, and whoever locks update_move_mutex unlocks it, so  *)
(* that a call that waits for it goes on, as long as the process lives.    *)
CallsReturn ==
    /\ app.pc # "idle" ~> app.pc = "idle" \/ ~Running
    /\ updateMove # None ~> updateMove = None \/ ~Running

(* Once the cleaner runs, a used segment in which nothing is live any more *)
(* is given back (thesis.tex:307, 362 and 366), as long as the process     *)
(* lives, unless a failed update has made used_space wrap.                 *)
DeadReclaimed ==
    \A s \in Segs :
        (usedSpace[s] = 0 /\ s \in ToSet(used) /\ \E c \in Cleaners : cl[c].seg # None)
            ~> s \notin ToSet(used) \/ "failedUpdate" \in hazards \/ ~Running
=============================================================================
