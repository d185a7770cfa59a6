---------------------------- MODULE SegmentLists ----------------------------
(***************************************************************************)
(* The segment lists of LogHeap pointer by pointer.  Each list is a chain  *)
(* of next_segment offsets with a first and a last segment in the log's    *)
(* header.  LogHeap moves a segment from one list to another in one step;  *)
(* here every store is a step, so that the tests outside the mutexes, the  *)
(* stores after them and a crash between two stores happen as they do in   *)
(* the code.                                                               *)
(*                                                                         *)
(* What is in the segments is left out, and used_space and                 *)
(* used_segments_count with it: the client may seal its head at any time,  *)
(* and a cleaner may claim any used segment that is not claimed.  Stale    *)
(* cursors, and with them the early return of a reclaim that does not find *)
(* its segment, are LogHeap's.                                             *)
(* All moves have the same form: lock one mutex or two, append the segment *)
(* to a list, cut it out of another, reset its next_segment.               *)
(***************************************************************************)
EXTENDS Naturals, FiniteSets

CONSTANTS
    NSeg,           \* number of segments, the emergency ones included
    EmergencyCount, \* EMERGENCY_CLEANER_SEGMENT_COUNT
    Cleaners,       \* the cleaner threads
    App,            \* the client's thread
    None,           \* NULL, or no owner
    MaxCrashes      \* bound on the number of crashes

ASSUME ListsAssumption ==
    /\ NSeg \in Nat /\ EmergencyCount \in Nat \ {0} /\ EmergencyCount + 1 < NSeg
    /\ App \notin Cleaners /\ None \notin Cleaners \cup {App} /\ None \notin Nat
    /\ MaxCrashes \in Nat

VARIABLES
    next,       \* segment_t.next_segment
    first,      \* log->free_segments, used_segments, ...
    last,       \* log->last_free_segment, last_used_segment, ...
    head,       \* log->head_segment
    count,      \* log->current_emergency_cleaner_segments_count
    lock,       \* the owner of the mutex of each list
    th,         \* what each thread is doing
    own,        \* the segment a cleaner copies into
    claim,      \* the segment it has claimed
    crashes,    \* number of crashes so far
    accepted,   \* pmem->consistent
    hazards     \* what has gone wrong; the behaviour ends there

fileVars == <<next, first, last, head, count>>
vars == <<fileVars, lock, th, own, claim, crashes, accepted, hazards>>

Segs == 0 .. NSeg - 1
Lists == {"free", "used", "cleaner", "emergency"}
Threads == Cleaners \cup {App}

Hazards == {"nullDeref", "relinked", "truncated", "staleTail"}
Running == hazards = {} /\ accepted

-----------------------------------------------------------------------------
(* Chains.                                                                 *)

(* The segments from s on, one after the other.  A walk that has not ended *)
(* after NSeg segments never does, and counts too many.                    *)
Chain(s) ==
    LET at[i \in 0 .. NSeg] ==
            IF i = 0 THEN s
            ELSE LET prev == at[i - 1] IN IF prev = None THEN None ELSE next[prev]
    IN  at
On(s) ==
    LET chain == Chain(s) IN {chain[i] : i \in 0 .. NSeg} \ {None}
Length(s) ==
    LET chain == Chain(s) IN Cardinality({i \in 0 .. NSeg : chain[i] # None})

(* Wrong: the head is not counted.                                         *)
BugSegCount ==
    Length(first["free"]) + Length(first["used"]) + Length(first["cleaner"])
        + Length(first["emergency"])

(* check_consistency.                                                      *)
SegCount ==
    Length(head) + Length(first["free"]) + Length(first["used"])
        + Length(first["cleaner"]) + Length(first["emergency"])

-----------------------------------------------------------------------------
NoMove == [op |-> "none", at |-> "-", seg |-> None, from |-> "free", to |-> "used"]

(* What init_log leaves behind.                                            *)
Init ==
    /\ next = [s \in Segs |-> IF s \in {0, NSeg - EmergencyCount - 1, NSeg - 1}
                              THEN None ELSE s + 1]
    /\ first = [l \in Lists |-> CASE l = "free" -> 1
                                  [] l = "emergency" -> NSeg - EmergencyCount
                                  [] OTHER -> None]
    /\ last = [l \in Lists |-> CASE l = "free" -> NSeg - EmergencyCount - 1
                                 [] l = "emergency" -> NSeg - 1
                                 [] OTHER -> None]
    /\ head = 0
    /\ count = EmergencyCount
    /\ lock = [l \in Lists |-> None]
    /\ th = [t \in Threads |-> NoMove]
    /\ own = [c \in Cleaners |-> None]
    /\ claim = [c \in Cleaners |-> None]
    /\ crashes = 0
    /\ accepted = TRUE
    /\ hazards = {}

-----------------------------------------------------------------------------
(* How the moves begin.                                                    *)

At(t, at) == Running /\ th[t].at = at
Ready(t) == Running /\ th[t] = NoMove
Goes(t, at) == th' = [th EXCEPT ![t].at = at]
Moves(t, op, at, seg, from, to) ==
    /\ th' = [th EXCEPT ![t] = [op |-> op, at |-> at, seg |-> seg, from |-> from, to |-> to]]
    /\ UNCHANGED <<fileVars, lock, own, claim, crashes, accepted, hazards>>

(* The head is full, or there is none.                                     *)
Seal ==
    /\ Ready(App) /\ head # None
    /\ Moves(App, "seal", "link", head, "free", "used")
Take ==
    /\ Ready(App) /\ head = None
    /\ Moves(App, "take", "test", None, "free", "used")

(* free_segments is tested before its mutex is locked.                     *)
TestFree ==
    /\ At(App, "test") /\ first["free"] # None
    /\ Goes(App, "link")
    /\ UNCHANGED <<fileVars, lock, own, claim, crashes, accepted, hazards>>
OutOfMemory ==
    /\ At(App, "test") /\ first["free"] = None
    /\ head' = None
    /\ th' = [th EXCEPT ![App] = NoMove]
    /\ UNCHANGED <<next, first, last, count, lock, own, claim, crashes, accepted, hazards>>

(* get_new_cleaner_segment, and get_emergency_cleaner_segment.             *)
Get(c) ==
    /\ Ready(c) /\ own[c] = None
    /\ IF first["free"] # None
       THEN Moves(c, "get", "outer", None, "free", "cleaner")
       ELSE Moves(c, "get", "emergency", None, "emergency", "cleaner")
GetEmergency(c) ==
    /\ At(c, "emergency")
    /\ th' = [th EXCEPT ![c] = IF first["emergency"] = None THEN NoMove ELSE [@ EXCEPT !.at = "outer"]]
    /\ UNCHANGED <<fileVars, lock, own, claim, crashes, accepted, hazards>>

(* The walk over the used segments reads the first one without the mutex,  *)
(* and locks it for each of the others.                                    *)
Claim(c) ==
    /\ Ready(c) /\ own[c] # None /\ claim[c] = None
    /\ \E s \in (IF lock["used"] = None THEN On(first["used"]) ELSE {first["used"]})
                 \ ({claim[d] : d \in Cleaners} \cup {None}) :
          claim' = [claim EXCEPT ![c] = s]
    /\ UNCHANGED <<fileVars, lock, th, own, crashes, accepted, hazards>>

(* append_cleaner_segment_to_used_segments.                                *)
Retire(c) ==
    /\ Ready(c) /\ own[c] # None /\ claim[c] # None
    /\ Moves(c, "retire", "outer", own[c], "cleaner", "used")

(* append_cleaned_segment_to_free_segments; where to is decided later.     *)
Reclaim(c) ==
    /\ Ready(c) /\ own[c] # None /\ claim[c] # None
    /\ Moves(c, "reclaim", "outer", claim[c], "used", "free")

-----------------------------------------------------------------------------
(* The steps of a move.                                                    *)

(* Two mutexes are locked for a cleaner's move, one for the client's.      *)
LockOrder(m) == CASE m.op = "get" -> <<"cleaner", m.from>>
                  [] m.op = "retire" -> <<"cleaner", m.to>>
                  [] m.op = "reclaim" -> <<"used", m.to>>
OuterLock(m) == LockOrder(m)[1]
LastLock(m) == CASE m.op = "seal" -> "used"
                 [] m.op = "take" -> m.from
                 [] OTHER -> LockOrder(m)[2]

(* Wrong: one emergency segment too many.                                  *)
BugDestination(m) ==
    IF m.op = "reclaim" /\ count <= EmergencyCount THEN "emergency" ELSE m.to

(* The emergency segments are refilled first.                              *)
Destination(m) ==
    IF m.op = "reclaim" /\ count < EmergencyCount THEN "emergency" ELSE m.to

LockOuter(t) ==
    /\ At(t, "outer")
    /\ LET l == OuterLock(th[t])
       IN  lock[l] = None /\ lock' = [lock EXCEPT ![l] = t]
    /\ th' = [th EXCEPT ![t].at = "link", ![t].to = Destination(th[t])]
    /\ UNCHANGED <<fileVars, own, claim, crashes, accepted, hazards>>

(* The last mutex, and the first store under it: the new head, or the last *)
(* segment's new successor.                                                *)
Link(t) ==
    /\ At(t, "link") /\ lock[LastLock(th[t])] = None
    /\ lock' = [lock EXCEPT ![LastLock(th[t])] = t]
    /\ LET m == th[t]
           s == IF m.op \in {"get", "take"} THEN first[m.from] ELSE m.seg
           atEnd == last[m.to]
       IN  IF s = None
           THEN hazards' = {"nullDeref"} /\ UNCHANGED <<next, first, head, th>>
           ELSE /\ th' = [th EXCEPT ![t].seg = s, ![t].at = IF m.op = "take" THEN "cut" ELSE "last"]
                /\ head' = IF m.op = "take" THEN s ELSE head
                /\ IF m.op = "take" THEN UNCHANGED <<first, next>>
                   ELSE IF atEnd = None
                   THEN first' = [first EXCEPT ![m.to] = s] /\ UNCHANGED next
                   ELSE next' = [next EXCEPT ![atEnd] = s] /\ UNCHANGED first
                /\ UNCHANGED hazards
    /\ UNCHANGED <<last, count, own, claim, crashes, accepted>>

SetLast(t) ==
    /\ At(t, "last")
    /\ LET m == th[t]
       IN  /\ last' = [last EXCEPT ![m.to] = m.seg]
           /\ CASE m.op = "seal" ->
                     /\ th' = [th EXCEPT ![t] = [NoMove EXCEPT !.op = "take", !.at = "test"]]
                     /\ lock' = [lock EXCEPT !["used"] = None]
                [] m.op = "reclaim" /\ m.to = "emergency" -> Goes(t, "count") /\ UNCHANGED lock
                [] OTHER -> Goes(t, "cut") /\ UNCHANGED lock
    /\ UNCHANGED <<next, first, head, count, own, claim, crashes, accepted, hazards>>

(* The emergency list is complete when its length is right.                *)
Recount(t) ==
    /\ At(t, "count")
    /\ count' = IF th[t].op = "get" THEN count - 1 ELSE count + 1
    /\ lock' = [lock EXCEPT !["emergency"] = None]
    /\ Goes(t, IF th[t].op = "get" THEN "reset" ELSE "cut")
    /\ UNCHANGED <<next, first, last, head, own, claim, crashes, accepted, hazards>>

(* Somebody has yet to reset the next_segment of emergency segment s.      *)
StillLinked(s) ==
    \E d \in Cleaners :
        /\ th[d].op = "reclaim" /\ th[d].to = "emergency" /\ th[d].seg = s
        /\ th[d].at \in {"cut", "tail", "bypass", "reset"}

(* A mutex is given up with the last store it protects.                    *)
Unlocks(t, l) ==
    /\ lock' = [lock EXCEPT ![l] = None]
    /\ Goes(t, "reset")

(* Wrong: the list is cut off before the segment.                          *)
BugRest(s) == None

(* What follows a segment that is taken out of its list.                   *)
Rest(s) == next[s]

(* Where the walk through list l that looks for segment s stops.           *)
Prev(l, s) ==
    LET chain == Chain(first[l])
    IN  chain[CHOOSE i \in 0 .. NSeg - 1 : chain[i + 1] = s /\ \A j \in 1 .. i : chain[j] # s]

(* The first segment of a list is taken off it.                            *)
CutFirst(t) ==
    /\ At(t, "cut") /\ th[t].op \in {"get", "take"}
    /\ LET m == th[t]
       IN  /\ first' = [first EXCEPT ![m.from] = Rest(m.seg)]
           /\ hazards' = IF m.from = "emergency" /\ next[m.seg] # None /\ StillLinked(m.seg)
                         THEN {"relinked"} ELSE {}
    /\ Goes(t, "tail")
    /\ UNCHANGED <<next, last, head, count, lock, own, claim, crashes, accepted>>

NewLast(l, s) == IF last[l] = s THEN [last EXCEPT ![l] = Prev(l, s)] ELSE last

(* Segment s is cut out of the middle, or off one of the ends.             *)
CutOut(t) ==
    /\ At(t, "cut") /\ th[t].op \in {"retire", "reclaim"}
    /\ LET m == th[t]
           l == m.from
           s == m.seg
       IN  CASE first[l] = s /\ last[l] = s ->
                  /\ first' = [first EXCEPT ![l] = None]
                  /\ Goes(t, "tail")
                  /\ UNCHANGED <<last, lock>>
             [] first[l] = s /\ last[l] # s ->
                  /\ first' = [first EXCEPT ![l] = Rest(s)]
                  /\ Unlocks(t, l)
                  /\ UNCHANGED last
             [] OTHER ->
                  /\ last' = NewLast(l, s)
                  /\ Goes(t, "bypass")
                  /\ UNCHANGED <<first, lock>>
    /\ UNCHANGED <<next, head, count, own, claim, crashes, accepted, hazards>>

(* A segment that was the last of its list should have no successor; one   *)
(* that another thread has taken from the emergency list may have.         *)
Bypass(t) ==
    /\ At(t, "bypass")
    /\ LET m == th[t]
           prev == Prev(m.from, m.seg)
       IN  /\ next' = [next EXCEPT ![prev] = Rest(m.seg)]
           /\ hazards' = IF last[m.from] = prev /\ Rest(m.seg) # None
                         THEN {"relinked"} ELSE {}
           /\ Unlocks(t, m.from)
    /\ UNCHANGED <<first, last, head, count, own, claim, crashes, accepted>>

(* A list that has become empty has no last segment.                       *)
Tail(t) ==
    /\ At(t, "tail")
    /\ LET m == th[t]
       IN  /\ last' = IF first[m.from] = None THEN [last EXCEPT ![m.from] = None] ELSE last
           /\ IF m.op = "get" /\ m.from = "emergency"
              THEN Goes(t, "count") /\ UNCHANGED lock
              ELSE Unlocks(t, m.from)
    /\ UNCHANGED <<next, first, head, count, own, claim, crashes, accepted, hazards>>

(* Wrong: next_segment is left as it was.                                  *)
BugCleared(s) == next

Cleared(s) == [next EXCEPT ![s] = None]

(* Segment s ends list l; nobody is at appending another one to it.        *)
IsLast(l, s) == last[l] = s /\ \A t \in Threads : ~(th[t].at = "last" /\ th[t].to = l)

(* The segment loses its old successor.  For one that went to the          *)
(* emergency list no mutex is held any more: by now it may have a new one. *)
Reset(t) ==
    /\ At(t, "reset")
    /\ LET m == th[t]
           late == m.op = "reclaim" /\ m.to = "emergency"
       IN  /\ next' = Cleared(m.seg)
           /\ hazards' = IF late /\ next[m.seg] # None /\ ~IsLast("emergency", m.seg)
                         THEN {"truncated"} ELSE {}
           /\ lock' = IF late \/ m.op = "take" THEN lock ELSE [lock EXCEPT ![m.to] = None]
           /\ own' = CASE m.op = "get" -> [own EXCEPT ![t] = m.seg]
                       [] m.op = "retire" -> [own EXCEPT ![t] = None]
                       [] OTHER -> own
           /\ claim' = IF m.op = "reclaim" THEN [claim EXCEPT ![t] = None] ELSE claim
    /\ th' = [th EXCEPT ![t] = NoMove]
    /\ UNCHANGED <<first, last, head, count, crashes, accepted>>

-----------------------------------------------------------------------------
(* A list ends with its last segment, and the emergency segments are       *)
(* counted.                                                                *)
Ends(l) ==
    IF first[l] = None THEN last[l] = None
    ELSE last[l] \in On(first[l]) /\ next[last[l]] = None
Counted == count = Length(first["emergency"])

(* The process dies and is started again: of the threads and the mutexes   *)
(* nothing is left, and the heap is accepted if the segments add up.  The  *)
(* cleaner segments are dealt out to the threads, which are all alike.     *)
Crash ==
    /\ Running /\ crashes < MaxCrashes
    /\ crashes' = crashes + 1
    /\ accepted' = (SegCount = NSeg)
    /\ hazards' = IF accepted' /\ ~((\A l \in Lists : Ends(l)) /\ Counted)
                  THEN {"staleTail"} ELSE {}
    /\ lock' = [l \in Lists |-> None]
    /\ th' = [t \in Threads |-> NoMove]
    /\ claim' = [c \in Cleaners |-> None]
    /\ IF accepted'
       THEN \E deal \in [Cleaners -> Segs \cup {None}] :
               /\ {deal[c] : c \in Cleaners} \ {None} = On(first["cleaner"])
               /\ \A c, d \in Cleaners : deal[c] = deal[d] /\ deal[c] # None => c = d
               /\ own' = deal
       ELSE UNCHANGED own
    /\ UNCHANGED fileVars

Step(t) ==
    \/ LockOuter(t) \/ Link(t) \/ SetLast(t) \/ Recount(t)
    \/ CutFirst(t) \/ CutOut(t) \/ Bypass(t) \/ Tail(t) \/ Reset(t)

ClientNext == Seal \/ Take \/ TestFree \/ OutOfMemory \/ Step(App)
CleanerNext(c) ==
    Get(c) \/ GetEmergency(c) \/ Claim(c) \/ Retire(c) \/ Reclaim(c) \/ Step(c)

Next ==
    \/ ClientNext
    \/ \E c \in Cleaners : CleanerNext(c)
    \/ Crash

Spec == Init /\ [][Next]_vars

-----------------------------------------------------------------------------
Move == [op : {"none", "seal", "take", "get", "retire", "reclaim"},
         at : {"-", "test", "emergency", "outer", "link", "last", "count", "cut",
               "bypass", "tail", "reset"},
         seg : Segs \cup {None}, from : Lists, to : Lists]

(* Every variable has its type.                                            *)
ListsTypeOK ==
    /\ next \in [Segs -> Segs \cup {None}]
    /\ first \in [Lists -> Segs \cup {None}] /\ last \in [Lists -> Segs \cup {None}]
    /\ head \in Segs \cup {None}
    /\ count \in 0 .. EmergencyCount
    /\ lock \in [Lists -> Threads \cup {None}]
    /\ th \in [Threads -> Move]
    /\ own \in [Cleaners -> Segs \cup {None}] /\ claim \in [Cleaners -> Segs \cup {None}]
    /\ crashes \in 0 .. MaxCrashes /\ accepted \in BOOLEAN
    /\ hazards \subseteq Hazards

(* A list that is locked is being changed; so is the emergency list until  *)
(* the segment that has been put there is reset.                           *)
Settled(l) ==
    /\ lock[l] = None
    /\ l = "emergency" => \A s \in On(first[l]) : ~StillLinked(s)

(* Whoever may lock a list finds it whole: it ends with its last segment,  *)
(* the emergency count is its length, and it shares no segment with the    *)
(* other lists that nobody is changing.                                    *)
SettledWhole ==
    Running =>
        \A l \in Lists : Settled(l) =>
            /\ Ends(l)
            /\ l = "emergency" => Counted
            /\ \A k \in Lists \ {l} : Settled(k) => On(first[k]) \cap On(first[l]) = {}

(* At no moment, between any two stores, is a segment out of reach from    *)
(* the log's header: segments are linked before they are cut out.          *)
NeverLost == Running => On(head) \cup UNION {On(first[l]) : l \in Lists} = Segs

(* A heap that is accepted after a crash has every segment in one place,   *)
(* and a list that has segments ends with its last one.  The crash may     *)
(* have come between any two stores.                                       *)
AcceptedWhole ==
    accepted /\ hazards \subseteq {"staleTail"} /\ (\A t \in Threads : th[t] = NoMove) =>
        \A l \in Lists :
            /\ On(first[l]) \cap (On(head) \cup UNION {On(first[k]) : k \in Lists \ {l}}) = {}
            /\ first[l] # None => Ends(l)

(* Thread t is about to lock a mutex that u holds.                         *)
WaitsFor(t, u) ==
    \/ th[t].at = "outer" /\ lock[OuterLock(th[t])] = u
    \/ th[t].at = "link" /\ lock[LastLock(th[t])] = u

(* The mutexes are locked in an order (cleaner.c:196, 235, 294-304 and     *)
(* 346-367): no threads wait for each other in a circle, whatever the      *)
(* other threads do meanwhile.                                             *)
NoDeadlock ==
    Running => \A S \in (SUBSET Threads) \ {{}} : \E t \in S : \A u \in S : ~WaitsFor(t, u)
=============================================================================
