------------------------------ MODULE Restart ------------------------------
(***************************************************************************)
(* The heap of LogHeap over several runs of the program: init_pmem,        *)
(* delete_pmem, and a crash at any moment.  A crash ends the process and   *)
(* nothing else: every store to the mapped file made so far is in the file *)
(* and everything in RAM is gone (thesis.tex:382).  Segments, lists and    *)
(* counters are in the file; the hash table, the claims, the mutexes and   *)
(* the threads' variables are not.                                         *)
(***************************************************************************)
EXTENDS LogHeap

CONSTANTS
    MaxStarts,  \* bound on the number of times init_pmem is called again
    MaxCrashes  \* bound on the number of crashes

(* The threads are numbered in the order in which init_cleaner creates     *)
(* them.  Each crash may leave up to two segments of used_space too many   *)
(* behind.                                                                 *)
ASSUME RestartAssumption ==
    /\ IsFiniteSet(Cleaners) /\ Cleaners = 1 .. Cardinality(Cleaners)
    /\ MaxStarts \in Nat /\ MaxCrashes \in Nat
    /\ SizeMod > 2 * (MaxCrashes + 1) * SegSize

VARIABLES
    phase,      \* what the process is doing (Phases)
    regular,    \* log->regular_termination
    consistent, \* pmem->consistent
    file,       \* the file with the persisted hash table
    resume,     \* the threads that have yet to find their place in a cleaner
                \* segment: where they are, and the variables of that loop
    stopped,    \* the threads that do not run: init_cleaner has not created
                \* them yet, or they have been cancelled and have ended
    kept,       \* what the file holds for the client while no process runs
    starts,     \* number of starts so far
    crashes,    \* number of crashes so far
    faults,     \* what has gone wrong over a restart so far (Faults)
    displaced   \* log->head_segment is still the segment that a call has
                \* sealed, and a cleaner has given that segment back

lifeVars == <<phase, regular, consistent, file, resume, stopped, kept, starts, crashes, faults>>
allVars == <<vars, lifeVars, displaced>>

Phases == {"opening",   \* init_pmem has started the cleaner threads
           "up",        \* init_pmem has returned
           "closing",   \* delete_pmem waits for the cleaner threads
           "saving",    \* ... writes the hash table
           "saved",     \* ... has written it
           "down",      \* there is no process
           "endless"}   \* init_pmem is in a loop that it never leaves

Faults == {"crashedUpdate", \* a crash between the two halves of update_data
           "staleHead",     \* a crash while head_segment or head_position is outdated
           "halfCleaned",   \* a crash while entries are in two segments
           "staleFile",     \* shutdown with an empty table and an old file
           "staleLink",     \* a crash before next_segment is reset (cleaner.c:397)
           "trustedFile",   \* a crash while regular_termination is still set
           "shortCursor"}   \* a cleaner resumes where it had not left off

Alive == phase \in {"opening", "up", "closing", "saving", "saved"}
Empty == [id \in Ids |-> Null]
Fault(f, when) == faults' = IF when THEN faults \cup {f} ELSE faults

NoResume == [at |-> "no", pos |-> 0, freed |-> 0, regular |-> FALSE]

RestartInit ==
    /\ Init
    /\ phase = "opening"
    /\ regular = FALSE
    /\ consistent = TRUE
    /\ file = [state |-> "none", pairs |-> Empty]
    /\ resume = [c \in Cleaners |-> NoResume]
    /\ stopped = {}
    /\ kept = [id \in Ids |-> 0]
    /\ starts = 0 /\ crashes = 0
    /\ faults = {}
    /\ displaced = FALSE

-----------------------------------------------------------------------------
(* While the process runs.  An inconsistent heap has no cleaner threads,   *)
(* and of the calls that change something only pfree goes on.              *)

(* Whether the sealed head has been given back since it was sealed.        *)
Displace == displaced' = (app'.pc = "takeHead" /\ (displaced \/ head \notin ToSet(used')))

ClientRuns ==
    /\ phase = "up"
    /\ \/ CallStep
       \/ consistent /\ NewCall
       \/ \E id \in FreeIds : BeginFree(id)
    /\ Displace
    /\ UNCHANGED lifeVars

Works(c) == phase \in {"opening", "up", "closing"} /\ consistent /\ c \notin stopped

ThreadRuns(c) ==
    /\ Works(c) /\ resume[c].at = "no"
    /\ CleanerStep(c)
    /\ Displace
    /\ UNCHANGED lifeVars

(* clean, when the thread was started with a cleaner segment: it waits ... *)
BeginResume(c) ==
    /\ Works(c) /\ resume[c].at = "wait"
    /\ usedCount >= NSeg \div 2
    /\ resume' = [resume EXCEPT ![c].at = "walk"]
    /\ UNCHANGED <<vars, phase, regular, consistent, file, stopped, kept, starts, crashes,
                   faults, displaced>>

Walking(c) == Running /\ Works(c) /\ resume[c].at = "walk"

(* ... and looks for the end of what it has written: as far as used_space  *)
(* says, and as much further as there are marked entries.                  *)
BeforeEnd(c) == resume[c].pos < usedSpace[cl[c].seg] + resume[c].freed

(* After a crash, what the hash table has elsewhere is marked as well.     *)
Duplicate(c) ==
    LET place == <<cl[c].seg, resume[c].pos>>
    IN  /\ ~resume[c].regular
        /\ ~(At(place).id \in Ids /\ hash[At(place).id] = place)

(* used_space is wrong, and what follows there is not an entry.            *)
OffTrack(c) ==
    resume[c].pos \in Cells =>
        LET e == content[cl[c].seg][resume[c].pos]
        IN  e = Data \/ resume[c].pos + Size(e) > Cap

ResumeEntry(c) ==
    /\ Walking(c) /\ BeforeEnd(c) /\ ~OffTrack(c)
    /\ LET place == <<cl[c].seg, resume[c].pos>>
           e == At(place)
           dead == e.del \/ Duplicate(c)
       IN  /\ content' = IF Duplicate(c) THEN Marked(place) ELSE content
           /\ IF Duplicate(c) THEN Discount(place) ELSE UNCHANGED usedSpace
           /\ resume' = [resume EXCEPT ![c].pos = @ + Size(e),
                                       ![c].freed = IF dead THEN @ + Size(e) ELSE @]
    /\ UNCHANGED <<fill, listVars, lockVars, nextId, hash, app, cl, writes, hazards,
                   phase, regular, consistent, file, stopped, kept, starts, crashes, faults,
                   displaced>>

MisreadResume(c) ==
    /\ Walking(c) /\ BeforeEnd(c) /\ OffTrack(c)
    /\ Meet("garbage", TRUE)
    /\ UNCHANGED <<heapVars, listVars, lockVars, nextId, hash, app, cl, writes, lifeVars,
                   displaced>>

EndResume(c) ==
    /\ Walking(c) /\ ~BeforeEnd(c)
    /\ fill' = [fill EXCEPT ![cl[c].seg] = resume[c].pos]
    /\ resume' = [resume EXCEPT ![c] = NoResume]
    /\ Fault("shortCursor", resume[c].pos # fill[cl[c].seg])
    /\ UNCHANGED <<content, usedSpace, listVars, lockVars, nextId, hash, app, cl, writes,
                   hazards, phase, regular, consistent, file, stopped, kept, starts, crashes,
                   displaced>>

-----------------------------------------------------------------------------
(* delete_pmem.                                                            *)

BeginClose ==
    /\ phase = "up" /\ AppAt("idle")
    /\ phase' = "closing"
    /\ UNCHANGED <<vars, regular, consistent, file, resume, stopped, kept, starts, crashes,
                   faults, displaced>>

(* A thread without its local variables; what it copies into stays one of  *)
(* the cleaner segments.                                                   *)
Parked(s) == [pc |-> IF s = None THEN "wait" ELSE "scan", seg |-> s, cur |-> None,
              pos |-> 0, nxt |-> None, late |-> "no", old |-> None]

(* Wrong: a thread that has not begun to clean cannot be cancelled.        *)
BugCancellable(c) == resume[c].at # "walk" /\ cl[c].pc \in {"scan", "test"}

(* A thread ends where it can be cancelled: while it sleeps, and between   *)
(* two segments.  A segment that it has begun is cleaned to its end.       *)
Cancellable(c) == resume[c].at # "walk" /\ cl[c].pc \in {"wait", "first", "scan", "test"}

StopCleaner(c) ==
    /\ phase = "closing" /\ Works(c) /\ Running
    /\ Cancellable(c)
    /\ stopped' = stopped \cup {c}
    /\ resume' = [resume EXCEPT ![c] = NoResume]
    /\ cl' = [cl EXCEPT ![c] = Parked(cl[c].seg)]
    /\ UNCHANGED <<heapVars, listVars, lockVars, nextId, hash, app, writes, hazards,
                   phase, regular, consistent, file, kept, starts, crashes, faults, displaced>>

(* persist_hash_table begins by declaring the file incomplete; there is no *)
(* file for a table without pairs.                                         *)
BeginSave ==
    /\ phase = "closing" /\ (consistent => stopped = Cleaners)
    /\ IF hash = Empty
       THEN /\ phase' = "saved"
            /\ Fault("staleFile", file.state = "complete")
            /\ UNCHANGED file
       ELSE /\ phase' = "saving"
            /\ file' = [state |-> "partial", pairs |-> Empty]
            /\ UNCHANGED faults
    /\ UNCHANGED <<vars, regular, consistent, resume, stopped, kept, starts, crashes, displaced>>

EndSave ==
    /\ phase = "saving"
    /\ phase' = "saved"
    /\ file' = [state |-> "complete", pairs |-> hash]
    /\ UNCHANGED <<vars, regular, consistent, resume, stopped, kept, starts, crashes, faults,
                   displaced>>

(* The process is gone, and with it what it had in RAM.                    *)
End ==
    /\ phase' = "down"
    /\ hash' = Empty
    /\ currCleaned' = {} /\ updateMove' = None /\ usedLock' = None
    /\ app' = Idle
    /\ cl' = [c \in Cleaners |-> Parked(cl[c].seg)]
    /\ resume' = [c \in Cleaners |-> NoResume]
    /\ stopped' = {} /\ displaced' = FALSE
    /\ UNCHANGED <<used, cleaning, emergency, usedCount, nextId, writes, hazards,
                   consistent, file, starts>>

(* The value that the file holds for an object: that of an entry which is  *)
(* in the log but not in the hash table yet, none for an object that is    *)
(* being freed, and otherwise the one in the hash table.                   *)
Held(id) ==
    IF id = app.id /\ app.pc \in {"publish", "unmap"} THEN app.entry.val
    ELSE IF hash[id] = Null THEN 0 ELSE At(hash[id]).val

EndClose ==
    /\ phase = "saved"
    /\ regular' = TRUE
    /\ kept' = [id \in Ids |-> Held(id)]
    /\ End
    /\ UNCHANGED <<heapVars, head, free, crashes, faults>>

-----------------------------------------------------------------------------
(* Crashes: between two steps, or within one of these.                     *)

(* The entry is written and counted, but head_position not yet advanced.   *)
WhileWriting ==
    /\ AppAt("append") /\ head # None /\ HasRoom(head, app.entry)
    /\ content' = Written(head, fill[head], app.entry)
    /\ usedSpace' = [usedSpace EXCEPT ![head] = (@ + Size(app.entry)) % SizeMod]
    /\ kept' = [id \in Ids |-> Held(id)]
    /\ UNCHANGED <<fill, head, free>>

(* pfree has marked an entry, but not discounted it.                       *)
WhileFreeing(id) ==
    /\ phase = "up" /\ AppAt("idle") /\ updateMove = None /\ hash[id] # Null
    /\ content' = Marked(hash[id])
    /\ kept' = [other \in Ids |-> IF other = id THEN 0 ELSE Held(other)]
    /\ UNCHANGED <<usedSpace, fill, head, free>>

(* The new head segment is in place, head_position is that of the old one. *)
WhileTaking ==
    /\ NeedsHead /\ free # <<>>
    /\ head' = Head(free) /\ free' = Tail(free)
    /\ \E p \in IF head = None THEN 0 .. Cap ELSE {fill[head]} :
          fill' = [fill EXCEPT ![Head(free)] = p]
    /\ kept' = [id \in Ids |-> Held(id)]
    /\ UNCHANGED <<content, usedSpace>>

Between ==
    /\ kept' = [id \in Ids |-> Held(id)]
    /\ UNCHANGED <<heapVars, head, free>>

(* A segment that is still used holds an entry that its cleaner has moved. *)
HalfCleaned ==
    \E place \in Places :
        /\ Walked(place) /\ Stored(place) /\ At(place).id \in Ids /\ ~At(place).del
        /\ LET now == hash[At(place).id]
           IN  now # place /\ (now = Null \/ At(place).ver >= At(now).ver)

CrashFaults ==
    (IF app.locked /\ app.pc \in {"append", "takeHead"} THEN {"crashedUpdate"} ELSE {})
    \cup (IF displaced THEN {"staleHead"} ELSE {})
    \cup (IF emergency # <<>> /\ StillLinked(Last(emergency)) THEN {"staleLink"} ELSE {})
    \cup (IF HalfCleaned THEN {"halfCleaned"} ELSE {})
    \cup (IF regular /\ file.state = "complete" /\ file.pairs # hash THEN {"trustedFile"} ELSE {})

Crash ==
    /\ Alive /\ Running /\ crashes < MaxCrashes
    /\ crashes' = crashes + 1
    /\ \/ Between /\ faults' = faults \cup CrashFaults
       \/ WhileWriting /\ faults' = faults \cup CrashFaults
       \/ \E id \in FreeIds : WhileFreeing(id) /\ faults' = faults \cup CrashFaults
       \/ WhileTaking /\ faults' = faults \cup CrashFaults \cup {"staleHead"}
    /\ End
    /\ UNCHANGED regular

-----------------------------------------------------------------------------
(* init_pmem.                                                              *)

(* A walk over a segment goes from one entry on to the next; it does not   *)
(* go on from data or, if it is to stop there, from an entry of length 0.  *)
Stops(e, toBlank) == toBlank /\ e.len = 0
Closed(S, row, toBlank) ==
    /\ 0 \in S
    /\ \A p \in S :
          LET next == p + Size(row[p])
          IN  row[p] # Data /\ ~Stops(row[p], toBlank) /\ next \in Cells => next \in S

(* The offsets in segment s that a walk from the first entry on meets      *)
(* before an end: they are in every set that is closed under its steps.    *)
Met(s, end, toBlank) ==
    {p \in Cells :
        /\ p < end /\ ~Stops(content[s][p], toBlank)
        /\ \A S \in SUBSET Cells : Closed(S, content[s], toBlank) => p \in S}

(* reconstruct_hash_table goes over the used segments, and then the head.  *)
Order == used \o (IF head = None THEN <<>> ELSE <<head>>)
WalkIn(i) ==
    IF i > Len(used) THEN Met(head, fill[head], FALSE) ELSE Met(used[i], Cap - 1, TRUE)
LogEntries == {at \in (DOMAIN Order) \X Cells : at[2] \in WalkIn(at[1])}
Read(at) == content[Order[at[1]]][at[2]]

(* Wrong: the marked ones too.                                             *)
BugFound(id) == {at \in LogEntries : Read(at).id = id}

(* The unmarked entries of an object.                                      *)
Found(id) == {at \in LogEntries : ~Read(at).del /\ Read(at).id = id}

(* Wrong: it takes the oldest.                                             *)
BugNewest(id) ==
    {at \in Found(id) : \A other \in Found(id) \ {at} : Read(other).ver > Read(at).ver}

(* It takes the newest, and of equal versions the one it meets first.      *)
Newest(id) ==
    {at \in Found(id) : \A other \in Found(id) \ {at} :
        \/ Read(other).ver < Read(at).ver
        \/ /\ Read(other).ver = Read(at).ver
           /\ at[1] < other[1] \/ (at[1] = other[1] /\ at[2] < other[2])}

(* Wrong: blank memory, read as an entry of id 0, gets into the table too.  *)
BugRebuilt ==
    [id \in Ids \cup {0} |->
        IF Newest(id) = {} THEN Null
        ELSE LET at == CHOOSE a \in Newest(id) : TRUE IN <<Order[at[1]], at[2]>>]

Rebuilt ==
    [id \in Ids |->
        IF Newest(id) = {} THEN Null
        ELSE LET at == CHOOSE a \in Newest(id) : TRUE IN <<Order[at[1]], at[2]>>]

(* Data are read as a header; or the table gets an entry from behind the   *)
(* end of a segment that has no terminator (cleaner.c:121).                *)
RebuildHazards ==
    (IF \E at \in LogEntries : Read(at) = Data THEN {"garbage"} ELSE {})
    \cup (IF \E id \in Ids : Rebuilt[id] # Null /\ Rebuilt[id][2] >= fill[Rebuilt[id][1]]
          THEN {"staleTail"} ELSE {})

(* Wrong: the head is not counted.                                         *)
BugSegCount == Len(free) + Len(used) + Len(cleaning) + Len(emergency)

(* check_consistency.  A stale link leads from the emergency segments on   *)
(* into the used ones: these are counted once more, one at least.          *)
SegCount ==
    (IF head = None THEN 0 ELSE 1)
        + Len(free) + Len(used) + Len(cleaning) + Len(emergency)
        + (IF "staleLink" \in faults THEN 1 ELSE 0)

(* Wrong: the walk along the list goes one segment too far.               *)
BugDealt(c) == IF c < Len(cleaning) THEN cleaning[c + 1] ELSE None

(* init_cleaner: the i-th thread gets the i-th cleaner segment, if there   *)
(* are as many.                                                            *)
Dealt(c) == IF c <= Len(cleaning) THEN cleaning[c] ELSE None

(* A thread that has not been created yet has the segment here that it     *)
(* gets if the list does not change.                                       *)
InitCleaner ==
    /\ cl' = [c \in Cleaners |-> Parked(Dealt(c))]
    /\ resume' = [c \in Cleaners |->
           IF Dealt(c) = None THEN NoResume
           ELSE [at |-> "wait", pos |-> 0, freed |-> 0, regular |-> regular]]
    /\ stopped' = Cleaners

(* The threads created before run already.  If one of them has retired its *)
(* segment, the walk along the list comes to another segment: two threads  *)
(* copy into the same one, or none gets one of them.                       *)
CreateThread(c) ==
    /\ phase = "opening" /\ consistent /\ Running
    /\ stopped = {d \in Cleaners : d >= c}
    /\ IF Dealt(c) = cl[c].seg
       THEN stopped' = stopped \ {c} /\ UNCHANGED hazards
       ELSE Meet("misdealt", TRUE) /\ UNCHANGED stopped
    /\ UNCHANGED <<heapVars, listVars, lockVars, nextId, hash, app, cl, writes, phase,
                   regular, consistent, file, resume, kept, starts, crashes, faults, displaced>>

Loads == regular /\ file.state = "complete"

(* The loop over the cleaner segments does not advance (hash_table.c:92).  *)
RebuildEnds == cleaning = <<>>

Start ==
    /\ phase = "down" /\ starts < MaxStarts
    /\ starts' = starts + 1
    /\ consistent' = (SegCount = NSeg)
    /\ IF Loads \/ RebuildEnds
       THEN /\ phase' = "opening"
            /\ kept' = [id \in Ids |-> 0]
            /\ hash' = IF Loads THEN file.pairs ELSE Rebuilt
            /\ hazards' = IF Loads THEN hazards ELSE hazards \cup RebuildHazards
            /\ IF consistent' THEN InitCleaner ELSE UNCHANGED <<cl, resume, stopped>>
       ELSE /\ phase' = "endless"
            /\ UNCHANGED <<hash, kept, cl, resume, stopped, hazards>>
    /\ UNCHANGED <<heapVars, listVars, lockVars, nextId, app, writes, regular,
                   file, crashes, faults, displaced>>

(* init_pmem returns.                                                      *)
Opened ==
    /\ phase = "opening" /\ (consistent => stopped = {})
    /\ phase' = "up"
    /\ regular' = FALSE
    /\ UNCHANGED <<vars, consistent, file, resume, stopped, kept, starts, crashes,
                   faults, displaced>>

-----------------------------------------------------------------------------
ThreadNext(c) == ThreadRuns(c) \/ BeginResume(c) \/ ResumeEntry(c) \/ MisreadResume(c)
                 \/ EndResume(c)

RestartNext ==
    \/ ClientRuns
    \/ \E c \in Cleaners : ThreadNext(c) \/ StopCleaner(c) \/ CreateThread(c)
    \/ BeginClose \/ BeginSave \/ EndSave \/ EndClose
    \/ Crash
    \/ Start \/ Opened

RestartSpec == RestartInit /\ [][RestartNext]_allVars

-----------------------------------------------------------------------------
(* Every variable of this module has its type.                             *)
RestartTypeOK ==
    /\ TypeOK
    /\ phase \in Phases
    /\ regular \in BOOLEAN /\ consistent \in BOOLEAN
    /\ file \in [state : {"none", "partial", "complete"}, pairs : [Ids -> Places \cup {Null}]]
    /\ resume \in [Cleaners -> [at : {"no", "wait", "walk"}, pos : 0 .. Cap, freed : Nat,
                                regular : BOOLEAN]]
    /\ stopped \subseteq Cleaners
    /\ kept \in [Ids -> Vals \cup {0}]
    /\ starts \in 0 .. MaxStarts /\ crashes \in 0 .. MaxCrashes
    /\ faults \subseteq Faults /\ displaced \in BOOLEAN

(* check_consistency accepts a heap only if the segments are a partition,  *)
(* so that writing to it is safe (thesis.tex:409-415).                     *)
AcceptedPartition == Alive /\ consistent => SegmentsPartitioned

(* The cleaner segments an earlier run left behind are given to threads    *)
(* again (thesis.tex:358): each to one, and none to nobody, unless         *)
(* init_cleaner comes to another segment than it should (misdealt).        *)
AcceptedOwners == Alive /\ consistent => OwnSegments

(* After any restart, what the hash table points to is live and in the     *)
(* log, and counted in its segment's used_space: no segment is given back  *)
(* unseen that holds a current version.                                    *)
Recovered ==
    Alive /\ hazards = {} /\ faults = {} =>
        /\ HashSound /\ NewestVersion
        /\ \A s \in ToSet(used) \cup HeadSet : usedSpace[s] >= LiveSpace(s)

(* What a cleaner copies next never lands on an object, also after it has  *)
(* resumed its segment (thesis.tex:378).                                   *)
CopiesBehind ==
    hazards = {} =>
        \A c \in Cleaners, id \in Ids \ InFlight :
            Alive /\ hash[id] # Null /\ hash[id][1] = cl[c].seg =>
                hash[id][2] < fill[cl[c].seg]

(* Starting the program ends, after a crash as well (README.md:18).        *)
StartReturns == phase # "endless"

(* The client's view over restarts: the same map as before (README.md:18). *)
(* A call that a crash interrupts has taken effect or not.                 *)
Durable == INSTANCE HeapStore WITH
    NoValue <- 0, NoCall <- 0,
    store <- [id \in Ids |-> IF Alive THEN Value(id) ELSE kept[id]],
    calls <- IF Pending THEN writes - 1 ELSE writes,
    creating <- IF Pending THEN app.id ELSE 0,
    full <- free = <<>>,
    broken <- hazards # {} \/ faults # {}

SurvivesRestart == Durable!CrashSpec

(* Liveness.  The threads and the call that has begun are scheduled; a     *)
(* cancelled thread ends when it comes to a point where it can.            *)
RestartFairSpec ==
    /\ RestartSpec
    /\ WF_allVars(BeginSave) /\ WF_allVars(EndSave) /\ WF_allVars(EndClose)
    /\ \A c \in Cleaners : WF_allVars(ThreadNext(c)) /\ SF_allVars(StopCleaner(c))

(* A thread waits for a segment to copy into, and no other thread will     *)
(* give one back any more: it has ended, or waits itself.                  *)
Starved ==
    \E c \in Cleaners :
        /\ cl[c].pc = "refill" /\ free = <<>> /\ emergency = <<>>
        /\ \A d \in Cleaners \ {c} :
              d \in stopped \/ cl[d].pc = "first" \/ (cl[d].pc = "walk" /\ ~WalkOver(d))

(* delete_pmem returns: every thread comes to a point where it can be      *)
(* cancelled, although it may have to wait for the mutexes of others       *)
(* before (cleaner.c:29-35), unless one starves.                           *)
CloseReturns == phase = "closing" ~> phase = "down" \/ hazards # {} \/ Starved
=============================================================================
