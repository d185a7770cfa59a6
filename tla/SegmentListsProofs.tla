------------------------- MODULE SegmentListsProofs -------------------------
(***************************************************************************)
(* What holds of the segment lists for every number of segments, of        *)
(* emergency segments and of cleaner threads.                              *)
(*                                                                         *)
(* The mutexes cannot block all threads.  TLC checks it for two, and two   *)
(* threads that lock two mutexes each in this way could not block each     *)
(* other in any order; three could.                                        *)
(*                                                                         *)
(* The lists stay whole: Whole says, of sets of segments M, orders r and   *)
(* last segments e, one for each list, that they are what the chains of    *)
(* next_segment offsets make up, and how far each move has come.  Walks    *)
(* along the chains are only used to derive what the properties say.       *)
(***************************************************************************)
EXTENDS SegmentLists, FiniteSetTheorems, FunctionTheorems, WellFoundedInduction, TLAPS

Steps == {"-", "test", "emergency", "outer", "link", "last", "count", "cut", "bypass",
          "tail", "reset"}

(* What thread t's record of its move says.                                *)
MoveShape(t, m) ==
    /\ m \in [op : {"none", "seal", "take", "get", "retire", "reclaim"}, at : Steps,
              seg : {m.seg}, from : Lists, to : Lists]
    /\ \/ m.op = "none" /\ m.at = "-"
       \/ /\ m.op = "seal" /\ t = App
          /\ m.at \in {"link", "last"} /\ m.to = "used"
       \/ /\ m.op = "take" /\ t = App
          /\ m.at \in {"test", "link", "cut", "tail", "reset"} /\ m.from = "free"
       \/ /\ m.op = "get" /\ t \in Cleaners
          /\ m.at \in {"emergency", "outer", "link", "last", "count", "cut", "tail", "reset"}
          /\ m.from \in {"free", "emergency"} /\ m.to = "cleaner"
          /\ m.at = "count" => m.from = "emergency"
       \/ /\ m.op = "retire" /\ t \in Cleaners
          /\ m.at \in {"outer", "link", "last", "cut", "bypass", "tail", "reset"}
          /\ m.from = "cleaner" /\ m.to = "used"
       \/ /\ m.op = "reclaim" /\ t \in Cleaners
          /\ m.at \in {"outer", "link", "last", "count", "cut", "bypass", "tail", "reset"}
          /\ m.from = "used" /\ m.to \in {"free", "emergency"}
          /\ m.at = "outer" => m.to = "free"
          /\ m.at = "count" => m.to = "emergency"

(* The mutexes that a thread owns at each step of its move.                *)
MayHold(m, l) ==
    \/ m.op = "seal" /\ m.at = "last" /\ l = "used"
    \/ m.op = "take" /\ m.at \in {"cut", "tail"} /\ l = "free"
    \/ /\ m.op = "get"
       /\ \/ m.at \in {"link", "last", "count", "cut", "tail", "reset"} /\ l = "cleaner"
          \/ m.at \in {"last", "count", "cut", "tail"} /\ l = m.from
    \/ /\ m.op = "retire"
       /\ \/ m.at \in {"link", "last", "cut", "bypass", "tail"} /\ l = "cleaner"
          \/ m.at \in {"last", "cut", "bypass", "tail", "reset"} /\ l = "used"
    \/ /\ m.op = "reclaim"
       /\ \/ m.at \in {"link", "last", "count", "cut", "bypass", "tail"} /\ l = "used"
          \/ m.at \in {"last", "cut", "bypass", "tail", "reset"} /\ m.to = "free" /\ l = "free"
          \/ m.at \in {"last", "count"} /\ m.to = "emergency" /\ l = "emergency"

(* A mutex is owned by the thread that is where it owns it: no path        *)
(* through a move leaves one locked.                                       *)
LockInv ==
    Running =>
        /\ th = [t \in Threads |-> th[t]]
        /\ lock \in [Lists -> Threads \cup {None}]
        /\ \A t \in Threads : MoveShape(t, th[t])
        /\ \A t \in Threads, l \in Lists : lock[l] = t <=> MayHold(th[t], l)

-----------------------------------------------------------------------------
(* A step of thread t that takes and gives up mutexes of its own.          *)
LEMMA MoveStep ==
    ASSUME LockInv, Running, NEW t \in Threads, NEW m,
           th' = [th EXCEPT ![t] = m],
           MoveShape(t, m),
           lock' \in [Lists -> Threads \cup {None}],
           \A l \in Lists : lock'[l] = lock[l] \/ (lock[l] \in {None, t} /\ lock'[l] \in {None, t}),
           \A l \in Lists : lock'[l] = t <=> MayHold(m, l)
    PROVE  LockInv'
<1>1. /\ th = [u \in Threads |-> th[u]]
      /\ \A u \in Threads : MoveShape(u, th[u])
      /\ \A u \in Threads, l \in Lists : lock[l] = u <=> MayHold(th[u], l)
  BY DEF LockInv
<1>2. /\ th' = [u \in Threads |-> th'[u]]
      /\ th'[t] = m /\ \A u \in Threads \ {t} : th'[u] = th[u]
  BY <1>1
<1>3. None \notin Threads
  BY ListsAssumption DEF Threads
<1>4. \A u \in Threads : MoveShape(u, th'[u])
  BY <1>1, <1>2
<1>5. ASSUME NEW u \in Threads, NEW l \in Lists
      PROVE  lock'[l] = u <=> MayHold(th'[u], l)
  BY <1>1, <1>2, <1>3
<1>6. /\ (\A u \in Threads : MoveShape(u, th[u]))' 
      /\ (\A u \in Threads, l \in Lists : lock[l] = u <=> MayHold(th[u], l))'
  BY <1>4, <1>5 DEF MoveShape, MayHold
<1>7. QED  BY <1>2, <1>6 DEF LockInv

(* What LockInv says of the thread that makes a step.                      *)
LEMMA MoveFacts ==
    ASSUME LockInv, Running, NEW t \in Threads
    PROVE  /\ th = [u \in Threads |-> th[u]]
           /\ lock \in [Lists -> Threads \cup {None}]
           /\ MoveShape(t, th[t])
           /\ \A l \in Lists : lock[l] = t <=> MayHold(th[t], l)
           /\ t # None
<1>1. QED  BY ListsAssumption DEF LockInv, Threads

(* No mutex is owned in the beginning.                                     *)
LEMMA InitLockInv == Init => LockInv
<1> SUFFICES ASSUME Init PROVE LockInv
  OBVIOUS
<1>1. /\ th = [t \in Threads |-> NoMove] /\ lock = [l \in Lists |-> None]
      /\ None \notin Threads
  BY ListsAssumption DEF Init, Threads
<1>2. \A t \in Threads : MoveShape(t, th[t])
  BY <1>1 DEF MoveShape, NoMove, Steps, Lists
<1>3. QED  BY <1>1, <1>2 DEF LockInv, MayHold, NoMove

(* What the steps do to the mutexes, one lemma for each action.            *)
LEMMA LockOuterStep == ASSUME LockInv, NEW t \in Threads, LockOuter(t) PROVE LockInv'
<1>1. Running /\ th[t].at = "outer"
  BY DEF LockOuter, At
<1>2. /\ th = [u \in Threads |-> th[u]]
      /\ lock \in [Lists -> Threads \cup {None}]
      /\ MoveShape(t, th[t])
      /\ \A l \in Lists : lock[l] = t <=> MayHold(th[t], l)
      /\ t # None
  BY <1>1, MoveFacts
<1> DEFINE m == th[t]
           n == [m EXCEPT !.at = "link", !.to = Destination(m)]
           l == OuterLock(m)
<1>3. m.op \in {"get", "retire", "reclaim"} /\ l \in Lists
  BY <1>1, <1>2 DEF MoveShape, OuterLock, LockOrder, Lists
<1>4. th' = [th EXCEPT ![t] = n] /\ lock' = [lock EXCEPT ![l] = t]
  BY <1>2 DEF LockOuter
<1>5. MoveShape(t, n)
  BY <1>1, <1>2 DEF MoveShape, Destination, Steps, Lists
<1>6. \A k \in Lists : lock'[k] = t <=> MayHold(n, k)
  BY <1>1, <1>2, <1>3, <1>4 DEF MayHold, MoveShape, OuterLock, LockOrder
<1>7. /\ lock' \in [Lists -> Threads \cup {None}]
      /\ \A k \in Lists : lock'[k] = lock[k] \/ (lock[k] \in {None, t} /\ lock'[k] \in {None, t})
  BY <1>2, <1>3, <1>4 DEF LockOuter
<1>8. QED  BY <1>1, <1>4, <1>5, <1>6, <1>7, MoveStep

LEMMA LinkStep == ASSUME LockInv, NEW t \in Threads, Link(t) PROVE LockInv'
<1>1. Running /\ th[t].at = "link"
  BY DEF Link, At
<1>2. /\ th = [u \in Threads |-> th[u]]
      /\ lock \in [Lists -> Threads \cup {None}]
      /\ MoveShape(t, th[t])
      /\ \A l \in Lists : lock[l] = t <=> MayHold(th[t], l)
      /\ t # None
  BY <1>1, MoveFacts
<1> DEFINE m == th[t]
           s == IF m.op \in {"get", "take"} THEN first[m.from] ELSE m.seg
           n == [m EXCEPT !.seg = s, !.at = IF m.op = "take" THEN "cut" ELSE "last"]
           l == LastLock(m)
<1>3. CASE s = None
  BY <1>3 DEF Link, LockInv, Running
<1>4. CASE s # None
  <2>1. l \in Lists
    BY <1>1, <1>2 DEF MoveShape, LastLock, LockOrder, Lists
  <2>2. th' = [th EXCEPT ![t] = n] /\ lock' = [lock EXCEPT ![l] = t]
    BY <1>2, <1>4 DEF Link
  <2>3. MoveShape(t, n)
    BY <1>1, <1>2 DEF MoveShape, Steps, Lists
  <2>4. \A k \in Lists : lock'[k] = t <=> MayHold(n, k)
    BY <1>1, <1>2, <2>1, <2>2 DEF MayHold, MoveShape, LastLock, LockOrder
  <2>5. /\ lock' \in [Lists -> Threads \cup {None}]
        /\ \A k \in Lists : lock'[k] = lock[k] \/ (lock[k] \in {None, t} /\ lock'[k] \in {None, t})
    BY <1>2, <2>1, <2>2 DEF Link
  <2> HIDE DEF n, l
  <2>6. QED  BY <1>1, <2>2, <2>3, <2>4, <2>5, MoveStep
<1>5. QED  BY <1>3, <1>4

LEMMA SetLastStep == ASSUME LockInv, NEW t \in Threads, SetLast(t) PROVE LockInv'
<1>1. Running /\ th[t].at = "last"
  BY DEF SetLast, At
<1>2. /\ th = [u \in Threads |-> th[u]]
      /\ lock \in [Lists -> Threads \cup {None}]
      /\ MoveShape(t, th[t])
      /\ \A l \in Lists : lock[l] = t <=> MayHold(th[t], l)
      /\ t # None
  BY <1>1, MoveFacts
<1> DEFINE m == th[t]
<1>3. CASE m.op = "seal"
  <2>1. th' = [th EXCEPT ![t] = [NoMove EXCEPT !.op = "take", !.at = "test"]] /\ lock' = [lock EXCEPT !["used"] = None]
    BY <1>1, <1>2, <1>3 DEF SetLast, Goes, Unlocks
  <2>2. MoveShape(t, [NoMove EXCEPT !.op = "take", !.at = "test"])
    BY <1>1, <1>2, <1>3 DEF MoveShape, NoMove, Steps, Lists
  <2>3. \A k \in Lists : lock'[k] = t <=> MayHold([NoMove EXCEPT !.op = "take", !.at = "test"], k)
    BY <1>1, <1>2, <1>3, <2>1 DEF MayHold, MoveShape, NoMove, Lists
  <2>4. /\ lock' \in [Lists -> Threads \cup {None}]
        /\ \A k \in Lists : lock'[k] = lock[k] \/ (lock[k] \in {None, t} /\ lock'[k] \in {None, t})
    BY <1>1, <1>2, <1>3, <2>1 DEF MayHold, MoveShape, Lists
  <2>5. QED  BY <1>1, <2>1, <2>2, <2>3, <2>4, MoveStep
<1>4. CASE m.op = "reclaim" /\ m.to = "emergency"
  <2>1. th' = [th EXCEPT ![t] = [m EXCEPT !.at = "count"]] /\ lock' = lock
    BY <1>1, <1>2, <1>4 DEF SetLast, Goes, Unlocks
  <2>2. MoveShape(t, [m EXCEPT !.at = "count"])
    BY <1>1, <1>2, <1>4 DEF MoveShape, NoMove, Steps, Lists
  <2>3. \A k \in Lists : lock'[k] = t <=> MayHold([m EXCEPT !.at = "count"], k)
    BY <1>1, <1>2, <1>4, <2>1 DEF MayHold, MoveShape, NoMove, Lists
  <2>4. /\ lock' \in [Lists -> Threads \cup {None}]
        /\ \A k \in Lists : lock'[k] = lock[k] \/ (lock[k] \in {None, t} /\ lock'[k] \in {None, t})
    BY <1>1, <1>2, <1>4, <2>1
  <2>5. QED  BY <1>1, <2>1, <2>2, <2>3, <2>4, MoveStep
<1>5. CASE m.op # "seal" /\ ~(m.op = "reclaim" /\ m.to = "emergency")
  <2>1. th' = [th EXCEPT ![t] = [m EXCEPT !.at = "cut"]] /\ lock' = lock
    BY <1>1, <1>2, <1>5 DEF SetLast, Goes, Unlocks
  <2>2. MoveShape(t, [m EXCEPT !.at = "cut"])
    BY <1>1, <1>2, <1>5 DEF MoveShape, NoMove, Steps, Lists
  <2>3. \A k \in Lists : lock'[k] = t <=> MayHold([m EXCEPT !.at = "cut"], k)
    BY <1>1, <1>2, <1>5, <2>1 DEF MayHold, MoveShape, NoMove, Lists
  <2>4. /\ lock' \in [Lists -> Threads \cup {None}]
        /\ \A k \in Lists : lock'[k] = lock[k] \/ (lock[k] \in {None, t} /\ lock'[k] \in {None, t})
    BY <1>1, <1>2, <1>5, <2>1
  <2>5. QED  BY <1>1, <2>1, <2>2, <2>3, <2>4, MoveStep
<1>6. m.op = "seal" \/ (m.op = "reclaim" /\ m.to = "emergency") \/ (m.op # "seal" /\ ~(m.op = "reclaim" /\ m.to = "emergency"))
  BY Zenon
<1>7. QED  BY <1>3, <1>4, <1>5, <1>6

LEMMA RecountStep == ASSUME LockInv, NEW t \in Threads, Recount(t) PROVE LockInv'
<1>1. Running /\ th[t].at = "count"
  BY DEF Recount, At
<1>2. /\ th = [u \in Threads |-> th[u]]
      /\ lock \in [Lists -> Threads \cup {None}]
      /\ MoveShape(t, th[t])
      /\ \A l \in Lists : lock[l] = t <=> MayHold(th[t], l)
      /\ t # None
  BY <1>1, MoveFacts
<1> DEFINE m == th[t]
<1>3. CASE m.op = "get"
  <2>1. th' = [th EXCEPT ![t] = [m EXCEPT !.at = "reset"]] /\ lock' = [lock EXCEPT !["emergency"] = None]
    BY <1>1, <1>2, <1>3 DEF Recount, Goes, Unlocks
  <2>2. MoveShape(t, [m EXCEPT !.at = "reset"])
    BY <1>1, <1>2, <1>3 DEF MoveShape, NoMove, Steps, Lists
  <2>3. \A k \in Lists : lock'[k] = t <=> MayHold([m EXCEPT !.at = "reset"], k)
    BY <1>1, <1>2, <1>3, <2>1 DEF MayHold, MoveShape, NoMove, Lists
  <2>4. /\ lock' \in [Lists -> Threads \cup {None}]
        /\ \A k \in Lists : lock'[k] = lock[k] \/ (lock[k] \in {None, t} /\ lock'[k] \in {None, t})
    BY <1>1, <1>2, <1>3, <2>1 DEF MayHold, MoveShape, Lists
  <2>5. QED  BY <1>1, <2>1, <2>2, <2>3, <2>4, MoveStep
<1>4. CASE m.op = "reclaim"
  <2>1. th' = [th EXCEPT ![t] = [m EXCEPT !.at = "cut"]] /\ lock' = [lock EXCEPT !["emergency"] = None]
    BY <1>1, <1>2, <1>4 DEF Recount, Goes, Unlocks
  <2>2. MoveShape(t, [m EXCEPT !.at = "cut"])
    BY <1>1, <1>2, <1>4 DEF MoveShape, NoMove, Steps, Lists
  <2>3. \A k \in Lists : lock'[k] = t <=> MayHold([m EXCEPT !.at = "cut"], k)
    BY <1>1, <1>2, <1>4, <2>1 DEF MayHold, MoveShape, NoMove, Lists
  <2>4. /\ lock' \in [Lists -> Threads \cup {None}]
        /\ \A k \in Lists : lock'[k] = lock[k] \/ (lock[k] \in {None, t} /\ lock'[k] \in {None, t})
    BY <1>1, <1>2, <1>4, <2>1 DEF MayHold, MoveShape, Lists
  <2>5. QED  BY <1>1, <2>1, <2>2, <2>3, <2>4, MoveStep
<1>5. m.op \in {"get", "reclaim"}
  BY <1>1, <1>2 DEF MoveShape
<1>6. QED  BY <1>3, <1>4, <1>5

LEMMA CutFirstStep == ASSUME LockInv, NEW t \in Threads, CutFirst(t) PROVE LockInv'
<1>1. Running /\ th[t].at = "cut" /\ th[t].op \in {"get", "take"}
  BY DEF CutFirst, At
<1>2. /\ th = [u \in Threads |-> th[u]]
      /\ lock \in [Lists -> Threads \cup {None}]
      /\ MoveShape(t, th[t])
      /\ \A l \in Lists : lock[l] = t <=> MayHold(th[t], l)
      /\ t # None
  BY <1>1, MoveFacts
<1> DEFINE m == th[t]
<1>3. CASE TRUE
  <2>1. th' = [th EXCEPT ![t] = [m EXCEPT !.at = "tail"]] /\ lock' = lock
    BY <1>1, <1>2, <1>3 DEF CutFirst, Goes, Unlocks
  <2>2. MoveShape(t, [m EXCEPT !.at = "tail"])
    BY <1>1, <1>2, <1>3 DEF MoveShape, NoMove, Steps, Lists
  <2>3. \A k \in Lists : lock'[k] = t <=> MayHold([m EXCEPT !.at = "tail"], k)
    BY <1>1, <1>2, <1>3, <2>1 DEF MayHold, MoveShape, NoMove, Lists
  <2>4. /\ lock' \in [Lists -> Threads \cup {None}]
        /\ \A k \in Lists : lock'[k] = lock[k] \/ (lock[k] \in {None, t} /\ lock'[k] \in {None, t})
    BY <1>1, <1>2, <1>3, <2>1
  <2>5. QED  BY <1>1, <2>1, <2>2, <2>3, <2>4, MoveStep
<1>4. TRUE
  BY Zenon
<1>5. QED  BY <1>3, <1>4

LEMMA CutOutStep == ASSUME LockInv, NEW t \in Threads, CutOut(t) PROVE LockInv'
<1>1. Running /\ th[t].at = "cut" /\ th[t].op \in {"retire", "reclaim"}
  BY DEF CutOut, At
<1>2. /\ th = [u \in Threads |-> th[u]]
      /\ lock \in [Lists -> Threads \cup {None}]
      /\ MoveShape(t, th[t])
      /\ \A l \in Lists : lock[l] = t <=> MayHold(th[t], l)
      /\ t # None
  BY <1>1, MoveFacts
<1> DEFINE m == th[t]
<1>3. CASE first[m.from] = m.seg /\ last[m.from] = m.seg
  <2>1. th' = [th EXCEPT ![t] = [m EXCEPT !.at = "tail"]] /\ lock' = lock
    BY <1>1, <1>2, <1>3 DEF CutOut, Goes, Unlocks
  <2>2. MoveShape(t, [m EXCEPT !.at = "tail"])
    BY <1>1, <1>2, <1>3 DEF MoveShape, NoMove, Steps, Lists
  <2>3. \A k \in Lists : lock'[k] = t <=> MayHold([m EXCEPT !.at = "tail"], k)
    BY <1>1, <1>2, <1>3, <2>1 DEF MayHold, MoveShape, NoMove, Lists
  <2>4. /\ lock' \in [Lists -> Threads \cup {None}]
        /\ \A k \in Lists : lock'[k] = lock[k] \/ (lock[k] \in {None, t} /\ lock'[k] \in {None, t})
    BY <1>1, <1>2, <1>3, <2>1
  <2>5. QED  BY <1>1, <2>1, <2>2, <2>3, <2>4, MoveStep
<1>4. CASE first[m.from] = m.seg /\ last[m.from] # m.seg
  <2>1. th' = [th EXCEPT ![t] = [m EXCEPT !.at = "reset"]] /\ lock' = [lock EXCEPT ![m.from] = None]
    BY <1>1, <1>2, <1>4 DEF CutOut, Goes, Unlocks
  <2>2. MoveShape(t, [m EXCEPT !.at = "reset"])
    BY <1>1, <1>2, <1>4 DEF MoveShape, NoMove, Steps, Lists
  <2>3. \A k \in Lists : lock'[k] = t <=> MayHold([m EXCEPT !.at = "reset"], k)
    BY <1>1, <1>2, <1>4, <2>1 DEF MayHold, MoveShape, NoMove, Lists
  <2>4. /\ lock' \in [Lists -> Threads \cup {None}]
        /\ \A k \in Lists : lock'[k] = lock[k] \/ (lock[k] \in {None, t} /\ lock'[k] \in {None, t})
    BY <1>1, <1>2, <1>4, <2>1 DEF MayHold, MoveShape, Lists
  <2>5. QED  BY <1>1, <2>1, <2>2, <2>3, <2>4, MoveStep
<1>5. CASE first[m.from] # m.seg
  <2>1. th' = [th EXCEPT ![t] = [m EXCEPT !.at = "bypass"]] /\ lock' = lock
    BY <1>1, <1>2, <1>5 DEF CutOut, Goes, Unlocks
  <2>2. MoveShape(t, [m EXCEPT !.at = "bypass"])
    BY <1>1, <1>2, <1>5 DEF MoveShape, NoMove, Steps, Lists
  <2>3. \A k \in Lists : lock'[k] = t <=> MayHold([m EXCEPT !.at = "bypass"], k)
    BY <1>1, <1>2, <1>5, <2>1 DEF MayHold, MoveShape, NoMove, Lists
  <2>4. /\ lock' \in [Lists -> Threads \cup {None}]
        /\ \A k \in Lists : lock'[k] = lock[k] \/ (lock[k] \in {None, t} /\ lock'[k] \in {None, t})
    BY <1>1, <1>2, <1>5, <2>1
  <2>5. QED  BY <1>1, <2>1, <2>2, <2>3, <2>4, MoveStep
<1>6. first[m.from] # m.seg \/ (first[m.from] = m.seg /\ last[m.from] = m.seg) \/ (first[m.from] = m.seg /\ last[m.from] # m.seg)
  BY Zenon
<1>7. QED  BY <1>3, <1>4, <1>5, <1>6

LEMMA BypassStep == ASSUME LockInv, NEW t \in Threads, Bypass(t) PROVE LockInv'
<1>1. Running /\ th[t].at = "bypass"
  BY DEF Bypass, At
<1>2. /\ th = [u \in Threads |-> th[u]]
      /\ lock \in [Lists -> Threads \cup {None}]
      /\ MoveShape(t, th[t])
      /\ \A l \in Lists : lock[l] = t <=> MayHold(th[t], l)
      /\ t # None
  BY <1>1, MoveFacts
<1> DEFINE m == th[t]
<1>3. CASE TRUE
  <2>1. th' = [th EXCEPT ![t] = [m EXCEPT !.at = "reset"]] /\ lock' = [lock EXCEPT ![m.from] = None]
    BY <1>1, <1>2, <1>3 DEF Bypass, Goes, Unlocks
  <2>2. MoveShape(t, [m EXCEPT !.at = "reset"])
    BY <1>1, <1>2, <1>3 DEF MoveShape, NoMove, Steps, Lists
  <2>3. \A k \in Lists : lock'[k] = t <=> MayHold([m EXCEPT !.at = "reset"], k)
    BY <1>1, <1>2, <1>3, <2>1 DEF MayHold, MoveShape, NoMove, Lists
  <2>4. /\ lock' \in [Lists -> Threads \cup {None}]
        /\ \A k \in Lists : lock'[k] = lock[k] \/ (lock[k] \in {None, t} /\ lock'[k] \in {None, t})
    BY <1>1, <1>2, <1>3, <2>1 DEF MayHold, MoveShape, Lists
  <2>5. QED  BY <1>1, <2>1, <2>2, <2>3, <2>4, MoveStep
<1>4. TRUE
  BY Zenon
<1>5. QED  BY <1>3, <1>4

LEMMA TailStep == ASSUME LockInv, NEW t \in Threads, Tail(t) PROVE LockInv'
<1>1. Running /\ th[t].at = "tail"
  BY DEF Tail, At
<1>2. /\ th = [u \in Threads |-> th[u]]
      /\ lock \in [Lists -> Threads \cup {None}]
      /\ MoveShape(t, th[t])
      /\ \A l \in Lists : lock[l] = t <=> MayHold(th[t], l)
      /\ t # None
  BY <1>1, MoveFacts
<1> DEFINE m == th[t]
<1>3. CASE m.op = "get" /\ m.from = "emergency"
  <2>1. th' = [th EXCEPT ![t] = [m EXCEPT !.at = "count"]] /\ lock' = lock
    BY <1>1, <1>2, <1>3 DEF Tail, Goes, Unlocks
  <2>2. MoveShape(t, [m EXCEPT !.at = "count"])
    BY <1>1, <1>2, <1>3 DEF MoveShape, NoMove, Steps, Lists
  <2>3. \A k \in Lists : lock'[k] = t <=> MayHold([m EXCEPT !.at = "count"], k)
    BY <1>1, <1>2, <1>3, <2>1 DEF MayHold, MoveShape, NoMove, Lists
  <2>4. /\ lock' \in [Lists -> Threads \cup {None}]
        /\ \A k \in Lists : lock'[k] = lock[k] \/ (lock[k] \in {None, t} /\ lock'[k] \in {None, t})
    BY <1>1, <1>2, <1>3, <2>1
  <2>5. QED  BY <1>1, <2>1, <2>2, <2>3, <2>4, MoveStep
<1>4. CASE ~(m.op = "get" /\ m.from = "emergency")
  <2>1. th' = [th EXCEPT ![t] = [m EXCEPT !.at = "reset"]] /\ lock' = [lock EXCEPT ![m.from] = None]
    BY <1>1, <1>2, <1>4 DEF Tail, Goes, Unlocks
  <2>2. MoveShape(t, [m EXCEPT !.at = "reset"])
    BY <1>1, <1>2, <1>4 DEF MoveShape, NoMove, Steps, Lists
  <2>3. \A k \in Lists : lock'[k] = t <=> MayHold([m EXCEPT !.at = "reset"], k)
    BY <1>1, <1>2, <1>4, <2>1 DEF MayHold, MoveShape, NoMove, Lists
  <2>4. /\ lock' \in [Lists -> Threads \cup {None}]
        /\ \A k \in Lists : lock'[k] = lock[k] \/ (lock[k] \in {None, t} /\ lock'[k] \in {None, t})
    BY <1>1, <1>2, <1>4, <2>1 DEF MayHold, MoveShape, Lists
  <2>5. QED  BY <1>1, <2>1, <2>2, <2>3, <2>4, MoveStep
<1>5. (m.op = "get" /\ m.from = "emergency") \/ ~(m.op = "get" /\ m.from = "emergency")
  BY Zenon
<1>6. QED  BY <1>3, <1>4, <1>5

LEMMA ResetStep == ASSUME LockInv, NEW t \in Threads, Reset(t) PROVE LockInv'
<1>1. Running /\ th[t].at = "reset"
  BY DEF Reset, At
<1>2. /\ th = [u \in Threads |-> th[u]]
      /\ lock \in [Lists -> Threads \cup {None}]
      /\ MoveShape(t, th[t])
      /\ \A l \in Lists : lock[l] = t <=> MayHold(th[t], l)
      /\ t # None
  BY <1>1, MoveFacts
<1> DEFINE m == th[t]
<1>3. CASE (m.op = "reclaim" /\ m.to = "emergency") \/ m.op = "take"
  <2>1. th' = [th EXCEPT ![t] = NoMove] /\ lock' = lock
    BY <1>1, <1>2, <1>3 DEF Reset, Goes, Unlocks
  <2>2. MoveShape(t, NoMove)
    BY <1>1, <1>2, <1>3 DEF MoveShape, NoMove, Steps, Lists
  <2>3. \A k \in Lists : lock'[k] = t <=> MayHold(NoMove, k)
    BY <1>1, <1>2, <1>3, <2>1 DEF MayHold, MoveShape, NoMove, Lists
  <2>4. /\ lock' \in [Lists -> Threads \cup {None}]
        /\ \A k \in Lists : lock'[k] = lock[k] \/ (lock[k] \in {None, t} /\ lock'[k] \in {None, t})
    BY <1>1, <1>2, <1>3, <2>1
  <2>5. QED  BY <1>1, <2>1, <2>2, <2>3, <2>4, MoveStep
<1>4. CASE ~((m.op = "reclaim" /\ m.to = "emergency") \/ m.op = "take")
  <2>1. th' = [th EXCEPT ![t] = NoMove] /\ lock' = [lock EXCEPT ![m.to] = None]
    BY <1>1, <1>2, <1>4 DEF Reset, Goes, Unlocks
  <2>2. MoveShape(t, NoMove)
    BY <1>1, <1>2, <1>4 DEF MoveShape, NoMove, Steps, Lists
  <2>3. \A k \in Lists : lock'[k] = t <=> MayHold(NoMove, k)
    BY <1>1, <1>2, <1>4, <2>1 DEF MayHold, MoveShape, NoMove, Lists
  <2>4. /\ lock' \in [Lists -> Threads \cup {None}]
        /\ \A k \in Lists : lock'[k] = lock[k] \/ (lock[k] \in {None, t} /\ lock'[k] \in {None, t})
    BY <1>1, <1>2, <1>4, <2>1 DEF MayHold, MoveShape, Lists
  <2>5. QED  BY <1>1, <2>1, <2>2, <2>3, <2>4, MoveStep
<1>5. m.op = "take" \/ m.op # "take"
  BY Zenon
<1>6. QED  BY <1>3, <1>4, <1>5

(* A step of a thread that owns no mutex and takes none.                   *)
LEMMA FreeStep ==
    ASSUME LockInv, Running, NEW t \in Threads, th[t].at \in {"-", "test", "emergency"},
           NEW m, MoveShape(t, m), \A l \in Lists : ~MayHold(m, l),
           th' = [th EXCEPT ![t] = m], UNCHANGED lock
    PROVE  LockInv'
<1>1. /\ lock \in [Lists -> Threads \cup {None}]
      /\ \A l \in Lists : lock[l] = t <=> MayHold(th[t], l)
  BY MoveFacts
<1>2. \A l \in Lists : lock[l] # t
  BY <1>1, MoveFacts DEF MayHold, MoveShape
<1>3. QED  BY <1>1, <1>2, MoveStep

LEMMA ClientStep == ASSUME LockInv, Seal \/ Take \/ TestFree \/ OutOfMemory PROVE LockInv'
<1>1. App \in Threads
  BY DEF Threads
<1>2. CASE Seal
  <2>1. Running /\ th[App].at = "-"
    BY <1>2 DEF Seal, Ready, NoMove
  <2> DEFINE m == [op |-> "seal", at |-> "link", seg |-> head, from |-> "free", to |-> "used"]
  <2>2. th' = [th EXCEPT ![App] = m] /\ UNCHANGED lock
    BY <1>2 DEF Seal, Moves
  <2>3. MoveShape(App, m) /\ \A l \in Lists : ~MayHold(m, l)
    BY DEF MayHold, MoveShape, Steps, Lists
  <2>4. QED  BY <1>1, <2>1, <2>2, <2>3, FreeStep
<1>3. CASE Take
  <2>1. Running /\ th[App].at = "-"
    BY <1>3 DEF Take, Ready, NoMove
  <2> DEFINE m == [op |-> "take", at |-> "test", seg |-> None, from |-> "free", to |-> "used"]
  <2>2. th' = [th EXCEPT ![App] = m] /\ UNCHANGED lock
    BY <1>3 DEF Take, Moves
  <2>3. MoveShape(App, m) /\ \A l \in Lists : ~MayHold(m, l)
    BY DEF MayHold, MoveShape, Steps, Lists
  <2>4. QED  BY <1>1, <2>1, <2>2, <2>3, FreeStep
<1>4. CASE TestFree
  <2>1. Running /\ th[App].at = "test"
    BY <1>4 DEF TestFree, At
  <2>2. th' = [th EXCEPT ![App] = [th[App] EXCEPT !.at = "link"]] /\ UNCHANGED lock
    BY <1>4 DEF TestFree, Goes
  <2>3. MoveShape(App, th[App])
    BY <1>1, <2>1, MoveFacts
  <2>4. MoveShape(App, [th[App] EXCEPT !.at = "link"]) /\ \A l \in Lists : ~MayHold([th[App] EXCEPT !.at = "link"], l)
    BY <2>1, <2>3 DEF MayHold, MoveShape, Steps
  <2>5. QED  BY <1>1, <2>1, <2>2, <2>4, FreeStep
<1>5. CASE OutOfMemory
  <2>1. Running /\ th[App].at = "test"
    BY <1>5 DEF OutOfMemory, At
  <2>2. th' = [th EXCEPT ![App] = NoMove] /\ UNCHANGED lock
    BY <1>5 DEF OutOfMemory
  <2>3. MoveShape(App, NoMove) /\ \A l \in Lists : ~MayHold(NoMove, l)
    BY DEF MayHold, MoveShape, NoMove, Steps, Lists
  <2>4. QED  BY <1>1, <2>1, <2>2, <2>3, FreeStep
<1>6. QED  BY <1>2, <1>3, <1>4, <1>5

LEMMA CleanerStep ==
    ASSUME LockInv, NEW c \in Cleaners,
           Get(c) \/ GetEmergency(c) \/ Claim(c) \/ Retire(c) \/ Reclaim(c)
    PROVE  LockInv'
<1>1. c \in Threads
  BY DEF Threads
<1>2. CASE Get(c)
  <2>1. Running /\ th[c].at = "-"
    BY <1>2 DEF Get, Ready, NoMove
  <2> DEFINE m(at, from) ==
          [op |-> "get", at |-> at, seg |-> None, from |-> from, to |-> "cleaner"]
  <2>2. PICK n \in {m("outer", "free"), m("emergency", "emergency")} :
           th' = [th EXCEPT ![c] = n] /\ UNCHANGED lock
    BY <1>2 DEF Get, Moves
  <2>3. MoveShape(c, n) /\ \A l \in Lists : ~MayHold(n, l)
    BY <2>2 DEF MayHold, MoveShape, Steps, Lists
  <2>4. QED  BY <1>1, <2>1, <2>2, <2>3, FreeStep
<1>3. CASE GetEmergency(c)
  <2>1. Running /\ th[c].at = "emergency"
    BY <1>3 DEF GetEmergency, At
  <2>2. PICK n \in {NoMove, [th[c] EXCEPT !.at = "outer"]} :
           th' = [th EXCEPT ![c] = n] /\ UNCHANGED lock
    BY <1>3 DEF GetEmergency
  <2>3. MoveShape(c, th[c])
    BY <1>1, <2>1, MoveFacts
  <2>4. MoveShape(c, NoMove) /\ \A l \in Lists : ~MayHold(NoMove, l)
    BY DEF MayHold, MoveShape, NoMove, Steps, Lists
  <2>5. MoveShape(c, [th[c] EXCEPT !.at = "outer"]) /\ \A l \in Lists : ~MayHold([th[c] EXCEPT !.at = "outer"], l)
    BY <2>1, <2>3 DEF MayHold, MoveShape, Steps
  <2>6. QED  BY <1>1, <2>1, <2>2, <2>4, <2>5, FreeStep
<1>4. CASE Claim(c)
  <2>1. UNCHANGED <<th, lock, accepted, hazards>>
    BY <1>4 DEF Claim
  <2>2. QED  BY <2>1 DEF LockInv, Running
<1>5. CASE Retire(c)
  <2>1. Running /\ th[c].at = "-"
    BY <1>5 DEF Retire, Ready, NoMove
  <2> DEFINE m == [op |-> "retire", at |-> "outer", seg |-> own[c], from |-> "cleaner",
                   to |-> "used"]
  <2>2. th' = [th EXCEPT ![c] = m] /\ UNCHANGED lock
    BY <1>5 DEF Retire, Moves
  <2>3. MoveShape(c, m) /\ \A l \in Lists : ~MayHold(m, l)
    BY DEF MayHold, MoveShape, Steps, Lists
  <2>4. QED  BY <1>1, <2>1, <2>2, <2>3, FreeStep
<1>6. CASE Reclaim(c)
  <2>1. Running /\ th[c].at = "-"
    BY <1>6 DEF Reclaim, Ready, NoMove
  <2> DEFINE m == [op |-> "reclaim", at |-> "outer", seg |-> claim[c], from |-> "used",
                   to |-> "free"]
  <2>2. th' = [th EXCEPT ![c] = m] /\ UNCHANGED lock
    BY <1>6 DEF Reclaim, Moves
  <2>3. MoveShape(c, m) /\ \A l \in Lists : ~MayHold(m, l)
    BY DEF MayHold, MoveShape, Steps, Lists
  <2>4. QED  BY <1>1, <2>1, <2>2, <2>3, FreeStep
<1>7. QED  BY <1>2, <1>3, <1>4, <1>5, <1>6

(* The mutexes are in RAM: after a crash none is owned.                    *)
LEMMA CrashStep == ASSUME LockInv, Crash PROVE LockInv'
<1>1. /\ th' = [t \in Threads |-> NoMove] /\ lock' = [l \in Lists |-> None]
      /\ None \notin Threads
  BY ListsAssumption DEF Crash, Threads
<1>2. \A t \in Threads : MoveShape(t, th'[t])
  BY <1>1 DEF MoveShape, NoMove, Steps, Lists
<1>3. /\ (\A t \in Threads : MoveShape(t, th[t]))'
      /\ (\A t \in Threads, l \in Lists : lock[l] = t <=> MayHold(th[t], l))'
  BY <1>1, <1>2 DEF MoveShape, MayHold, NoMove
<1>4. QED  BY <1>1, <1>3 DEF LockInv

(* LockInv is inductive: no path through a move, whichever branches it     *)
(* takes, leaves a mutex locked (cleaner.c:187-410, log.c:119-162).        *)
THEOREM MutexesGivenUp == Spec => []LockInv
<1>1. Init => LockInv
  BY InitLockInv
<1>2. LockInv /\ [Next]_vars => LockInv'
  <2> SUFFICES ASSUME LockInv, [Next]_vars PROVE LockInv'
    OBVIOUS
  <2>1. ASSUME NEW t \in Threads, Step(t) PROVE LockInv'
    BY <2>1, LockOuterStep, LinkStep, SetLastStep, RecountStep, CutFirstStep, CutOutStep,
       BypassStep, TailStep, ResetStep DEF Step
  <2>2. CASE ClientNext
    BY <2>1, <2>2, ClientStep DEF ClientNext, Threads
  <2>3. ASSUME NEW c \in Cleaners, CleanerNext(c) PROVE LockInv'
    BY <2>1, <2>3, CleanerStep DEF CleanerNext, Threads
  <2>4. CASE Crash
    BY <2>4, CrashStep
  <2>5. CASE UNCHANGED vars
    BY <2>5 DEF LockInv, Running, vars
  <2>6. QED  BY <2>2, <2>3, <2>4, <2>5 DEF Next
<1>3. QED  BY <1>1, <1>2, PTL DEF Spec

(* Whoever waits for a mutex while it owns one waits for a later one in    *)
(* the order cleaner, used, free or emergency: so no thread of a circle    *)
(* can own one of these, the last ones first.                              *)
LEMMA NobodyWaits == LockInv => NoDeadlock
<1> SUFFICES ASSUME LockInv, Running, NEW S \in SUBSET Threads, S # {},
                    \A t \in S : \E u \in S : WaitsFor(t, u)
             PROVE  FALSE
  BY DEF NoDeadlock
<1>1. /\ \A t \in Threads : MoveShape(t, th[t])
      /\ \A t \in Threads, l \in Lists : lock[l] = t <=> MayHold(th[t], l)
  BY DEF LockInv
<1>2. \A t \in S : th[t].at \in {"outer", "link"}
  BY DEF WaitsFor
<1>3. lock["free"] \notin S /\ lock["emergency"] \notin S
  BY <1>1, <1>2 DEF MayHold, MoveShape, Lists
<1>4. lock["used"] \notin S
  <2> SUFFICES ASSUME NEW t \in S, lock["used"] = t PROVE FALSE
    OBVIOUS
  <2>1. th[t].op = "reclaim" /\ th[t].at = "link"
    BY <1>1, <1>2 DEF MayHold, Lists
  <2>2. LastLock(th[t]) \in {"free", "emergency"}
    BY <1>1, <2>1 DEF MoveShape, LastLock, LockOrder
  <2>3. QED BY <1>3, <2>1, <2>2 DEF WaitsFor
<1>5. lock["cleaner"] \notin S
  <2> SUFFICES ASSUME NEW t \in S, lock["cleaner"] = t PROVE FALSE
    OBVIOUS
  <2>1. th[t].op \in {"get", "retire"} /\ th[t].at = "link"
    BY <1>1, <1>2 DEF MayHold, Lists
  <2>2. LastLock(th[t]) \in {"free", "emergency", "used"}
    BY <1>1, <2>1 DEF MoveShape, LastLock, LockOrder
  <2>3. QED BY <1>3, <1>4, <2>1, <2>2 DEF WaitsFor
<1>6. PICK t \in S : TRUE
  OBVIOUS
<1>7. OuterLock(th[t]) \in Lists \/ th[t].at = "link"
  BY <1>1, <1>2, <1>6 DEF MoveShape, OuterLock, LockOrder, Lists
<1>8. LastLock(th[t]) \in Lists \/ th[t].at = "outer"
  BY <1>1, <1>2, <1>6 DEF MoveShape, LastLock, LockOrder, Lists
<1>9. \A l \in Lists : lock[l] \notin S
  BY <1>3, <1>4, <1>5 DEF Lists
<1>10. QED BY <1>6, <1>7, <1>8, <1>9 DEF WaitsFor

(* With any number of cleaner threads, no threads wait in a circle for the *)
(* mutexes of the segment lists (log_pmem_types.h:73-76).                  *)
THEOREM DeadlockFree == Spec => []NoDeadlock
<1>1. QED  BY MutexesGivenUp, NobodyWaits, PTL

-----------------------------------------------------------------------------
(* The lists.  S is the set of the segments of a list, r their order, f    *)
(* the first and e the last of them.  What follows e is left open.         *)
Line(nx, S, r, f, e) ==
    /\ f = None <=> S = {}
    /\ e = None <=> S = {}
    /\ S # {} => f \in S /\ e \in S
    /\ \A s \in S : r[f] <= r[s] /\ r[s] <= r[e]
    /\ \A s, u \in S : r[s] = r[u] => s = u
    /\ \A s \in S \ {e} :
          /\ nx[s] \in S /\ r[s] < r[nx[s]]
          /\ \A u \in S : r[u] <= r[s] \/ r[nx[s]] <= r[u]
    /\ \A s \in S \ {f} : \E p \in S \ {e} : nx[p] = s

(* Past: the segment that is moved has been linked to its new list and not *)
(* been reset.  Both: it has not been cut out of the old list yet.         *)
Past(m) == m.at \in {"last", "count", "cut", "bypass", "tail", "reset"}
Both(m) == m.at \in {"last", "cut", "bypass"} \/ (m.at = "count" /\ m.op = "reclaim")
Cleans(m) == m.op \in {"get", "retire", "reclaim"}

(* A reclaim that has given up the mutex of the emergency list.            *)
Late(m) == m.op = "reclaim" /\ m.to = "emergency" /\ m.at \in {"cut", "bypass", "tail", "reset"}
LateBoth(m) == Late(m) /\ m.at \in {"cut", "bypass"}

Leaving(t, s, l) == th[t].seg = s /\ th[t].from = l /\ Cleans(th[t]) /\ Both(th[t])

(* The head has been sealed, and no new one taken yet.                     *)
HeadSealed == th[App].op = "take" /\ th[App].at \in {"test", "link"}

(* What is in the file, and what the threads remember of it.               *)
FileTypes ==
    /\ next \in [Segs -> Segs \cup {None}]
    /\ first \in [Lists -> Segs \cup {None}] /\ last \in [Lists -> Segs \cup {None}]
    /\ head \in Segs \cup {None}
    /\ count \in 0 .. EmergencyCount
    /\ own \in [Cleaners -> Segs \cup {None}] /\ claim \in [Cleaners -> Segs \cup {None}]
    /\ \A t \in Threads : th[t].seg \in Segs \cup {None}

(* The segments, their order and the last one of each list.                *)
GhostTypes(M, r, e) ==
    /\ M \in [Lists -> SUBSET Segs]
    /\ r \in [Lists -> [Segs -> Nat]]
    /\ e \in [Lists -> Segs \cup {None}]

(* Every list is whole, up to what follows its last segment.               *)
Lines(M, r, e) == \A l \in Lists : Line(next, M[l], r[l], first[l], e[l])

(* The header names another last segment between two stores of a thread.   *)
LastsOff(t, l, M, e) ==
    \/ th[t].at = "last" /\ th[t].to = l
    \/ th[t].at = "tail" /\ th[t].from = l /\ first[l] = None /\ last[l] = th[t].seg
    \/ /\ th[t].at = "bypass" /\ th[t].from = l /\ e[l] = th[t].seg
       /\ last[l] \in M[l] \ {e[l]} /\ next[last[l]] = e[l]
Lasts(M, e) == \A l \in Lists : last[l] = e[l] \/ \E t \in Threads : LastsOff(t, l, M, e)

(* The thread that appended the last segment has yet to reset it.          *)
Tails(t, s, l) ==
    /\ th[t].seg = s
    /\ \/ Cleans(th[t]) /\ Past(th[t]) /\ th[t].to = l
       \/ LateBoth(th[t]) /\ l = "used"
Clean(e) ==
    \A l \in Lists : e[l] # None => next[e[l]] = None \/ \E t \in Threads : Tails(t, e[l], l)

(* Every segment is in a list or the head.                                 *)
Cover(M) == \A s \in Segs : (\E l \in Lists : s \in M[l]) \/ (s = head /\ ~HeadSealed)

(* A segment is in two lists only while a thread moves it.                 *)
Apart(M) ==
    \A l, k \in Lists : \A s \in M[l] : l # k /\ s \in M[k] =>
        \E t \in Threads : Leaving(t, s, l) \/ Leaving(t, s, k)

(* The head is in a list only while it is being sealed or taken.           *)
HeadApart(M) ==
    /\ \A l \in Lists : head # None /\ head \in M[l] =>
          \/ HeadSealed
          \/ th[App].op = "seal" /\ th[App].at = "last" /\ l = "used"
          \/ th[App].op = "take" /\ th[App].at = "cut" /\ l = "free"
    /\ head # None /\ th[App].op \in {"none", "seal"} => next[head] = None

(* What a move in progress has done so far.                                *)
SealAt(m, M, e) ==
    /\ m.seg = head /\ head # None
    /\ m.at = "last" => e["used"] = head
TakeAt(m) ==
    /\ m.at \in {"cut", "tail", "reset"} => m.seg = head /\ head # None
    /\ m.at = "cut" => first["free"] = head
GetAt(t, m, e) ==
    /\ own[t] = None
    /\ Past(m) => m.seg # None /\ e["cleaner"] = m.seg /\ \A d \in Cleaners : own[d] # m.seg
    /\ Both(m) => first[m.from] = m.seg
RetireAt(t, m, M, e) ==
    /\ m.seg = own[t] /\ own[t] # None /\ claim[t] # None
    /\ Past(m) => e["used"] = m.seg
    /\ m.at = "bypass" => first["cleaner"] # m.seg /\ last["cleaner"] # m.seg
    /\ m.at = "tail" => first["cleaner"] = None /\ last["cleaner"] = m.seg
ReclaimAt(t, m, M, e) ==
    /\ m.seg = claim[t] /\ claim[t] # None /\ own[t] # None
    /\ Past(m) /\ ~Late(m) => e[m.to] = m.seg
    /\ LateBoth(m) => m.seg \in M["emergency"] \/ (m.seg \in M["cleaner"] /\ m.seg = e["used"])
    /\ m.at = "bypass" => first["used"] # m.seg /\ last["used"] # m.seg
    /\ m.at = "tail" => first["used"] = None /\ last["used"] = m.seg
MoveAt(t, m, M, e) ==
    /\ m.op = "seal" => SealAt(m, M, e)
    /\ m.op = "take" => TakeAt(m)
    /\ m.op = "get" => GetAt(t, m, e)
    /\ m.op = "retire" => RetireAt(t, m, M, e)
    /\ m.op = "reclaim" => ReclaimAt(t, m, M, e)
Moving(M, e) == \A t \in Threads : MoveAt(t, th[t], M, e)

(* What a cleaner copies into is a cleaner segment and nobody else's.      *)
Owns(M) ==
    /\ \A c \in Cleaners : own[c] # None =>
          own[c] \in M["cleaner"] \/ (th[c].op = "retire" /\ th[c].at \in {"tail", "reset"})
    /\ \A c, d \in Cleaners : own[c] = own[d] /\ own[c] # None => c = d

(* What a cleaner has claimed is a used segment, and claimed once.         *)
Claims(M) ==
    /\ \A c \in Cleaners : claim[c] # None =>
          claim[c] \in M["used"] \/ (th[c].op = "reclaim" /\ th[c].at \in {"tail", "reset"})
    /\ \A c, d \in Cleaners : claim[c] = claim[d] /\ claim[c] # None => c = d

(* A segment more or less in the emergency list than are counted.          *)
Refills(m) == m.op = "reclaim" /\ m.to = "emergency" /\ m.at \in {"last", "count"}
Drains(m) == m.op = "get" /\ m.from = "emergency" /\ m.at \in {"tail", "count"}
Counts(M) ==
    /\ \A t \in Threads : Refills(th[t]) => Cardinality(M["emergency"]) = count + 1
    /\ \A t \in Threads : Drains(th[t]) => count = Cardinality(M["emergency"]) + 1
    /\ (\A t \in Threads : ~Refills(th[t]) /\ ~Drains(th[t])) => count = Cardinality(M["emergency"])
    /\ \A t \in Threads : th[t].op = "reclaim" /\ th[t].to = "emergency"
                          /\ th[t].at \in {"link", "last", "count"} => count < EmergencyCount

(* The lists are whole: what every step keeps until something goes wrong.  *)
Whole(M, r, e) ==
    /\ GhostTypes(M, r, e)
    /\ Lines(M, r, e) /\ Lasts(M, e) /\ Clean(e)
    /\ Cover(M) /\ Apart(M) /\ HeadApart(M)
    /\ Moving(M, e) /\ Owns(M) /\ Claims(M) /\ Counts(M)

(* A set of natural numbers that is not empty has a least element.         *)
LEMMA Least ==
    ASSUME NEW T, T \subseteq Nat, T # {}
    PROVE  \E x \in T : \A y \in T : x <= y
<1>1. PICK x \in T : \A y \in T : <<y, x>> \notin OpToRel(<, Nat)
  BY NatLessThanWellFounded, WFMin, Zenon
<1>2. ASSUME NEW y \in T PROVE x <= y
  <2>1. ~(y < x)
    BY <1>1, y \in Nat, x \in Nat DEF OpToRel
  <2>2. QED BY <2>1, y \in Nat, x \in Nat, SMT
<1>3. QED  BY <1>2

(* The walk from s is the function that its definition describes.          *)
LEMMA ChainDef ==
    ASSUME NEW s
    PROVE  Chain(s) = [i \in 0 .. NSeg |->
              IF i = 0 THEN s
              ELSE IF Chain(s)[i - 1] = None THEN None ELSE next[Chain(s)[i - 1]]]
<1> DEFINE Eq(f, n) == f = [i \in 0 .. n |->
              IF i = 0 THEN s
              ELSE IF f[i - 1] = None THEN None ELSE next[f[i - 1]]]
           T == {n \in Nat : ~\E f : Eq(f, n)}
<1>0. NSeg \in Nat
  BY ListsAssumption
<1>1. SUFFICES \E f : Eq(f, NSeg)
  BY DEF Chain
<1>2. T = {}
  <2>1. SUFFICES ASSUME T # {} PROVE FALSE
    OBVIOUS
  <2>2. PICK n \in T : \A y \in T : n <= y
    BY <2>1, Least
  <2>3. n \in Nat /\ n # 0
    <3>1. Eq([i \in 0 .. 0 |-> s], 0)
      OBVIOUS
    <3>2. QED BY <3>1
  <2>4. PICK f : Eq(f, n - 1)
    <3>1. n - 1 \in Nat /\ ~(n <= n - 1)
      BY <2>3
    <3>2. n - 1 \notin T
      BY <2>2, <3>1
    <3> HIDE DEF Eq
    <3>3. QED BY <3>1, <3>2
  <2> DEFINE x == IF f[n - 1] = None THEN None ELSE next[f[n - 1]]
             g == [i \in 0 .. n |-> IF i = n THEN x ELSE f[i]]
  <2>5. Eq(g, n)
    <3>1. ASSUME NEW i \in 0 .. n
          PROVE  g[i] = IF i = 0 THEN s
              ELSE IF g[i - 1] = None THEN None ELSE next[g[i - 1]]
      <4>1. CASE i = 0
        BY <2>3, <2>4, <4>1
      <4>2. CASE i = n
        <5>1. g[i] = x /\ i - 1 \in 0 .. n /\ i - 1 # n /\ g[i - 1] = f[i - 1]
          BY <2>3, <4>2
        <5>2. QED BY <2>3, <4>2, <5>1
      <4>3. CASE i # 0 /\ i # n
        <5>1. /\ i \in 0 .. n - 1 /\ i - 1 \in 0 .. n - 1 /\ i - 1 \in 0 .. n /\ i - 1 # n
          BY <2>3, <4>3
        <5>2. g[i] = f[i] /\ g[i - 1] = f[i - 1]
          BY <4>3, <5>1
        <5>3. QED BY <2>4, <4>3, <5>1, <5>2
      <4>4. QED BY <4>1, <4>2, <4>3
    <3> HIDE DEF x
    <3>2. g = [i \in 0 .. n |-> g[i]]
      OBVIOUS
    <3> HIDE DEF g
    <3>3. QED BY <3>1, <3>2
  <2>6. QED BY <2>5
<1>3. QED  BY <1>0, <1>2

(* The successors are segments.                                            *)
NextOK == next \in [Segs -> Segs \cup {None}]

(* What a walk visits, one step after the other.                           *)
LEMMA ChainFacts ==
    ASSUME NextOK, NEW s \in Segs \cup {None}
    PROVE  /\ Chain(s) \in [0 .. NSeg -> Segs \cup {None}]
           /\ Chain(s)[0] = s
           /\ \A i \in 0 .. NSeg - 1 : Chain(s)[i + 1] =
                 IF Chain(s)[i] = None THEN None ELSE next[Chain(s)[i]]
<1> DEFINE c == Chain(s)
<1>0. NSeg \in Nat
  BY ListsAssumption
<1>1. c = [i \in 0 .. NSeg |-> IF i = 0 THEN s
              ELSE IF c[i - 1] = None THEN None ELSE next[c[i - 1]]]
  BY ChainDef
<1> HIDE DEF c
<1>2. c[0] = s
  BY <1>0, <1>1
<1>3. ASSUME NEW i \in 0 .. NSeg - 1
      PROVE  c[i + 1] = IF c[i] = None THEN None ELSE next[c[i]]
  <2>1. i + 1 \in 0 .. NSeg /\ i + 1 # 0 /\ (i + 1) - 1 = i
    BY <1>0
  <2>2. QED BY <1>1, <2>1
<1>4. \A i \in 0 .. NSeg : c[i] \in Segs \cup {None}
  <2> DEFINE T == {i \in 0 .. NSeg : c[i] \notin Segs \cup {None}}
  <2>1. SUFFICES ASSUME T # {} PROVE FALSE
    OBVIOUS
  <2>2. PICK i \in T : \A j \in T : i <= j
    <3>1. T \subseteq Nat
      BY <1>0
    <3> HIDE DEF T
    <3>2. QED BY <2>1, <3>1, Least
  <2>3. i # 0
    BY <1>2
  <2>4. i - 1 \in 0 .. NSeg - 1 /\ i - 1 \in 0 .. NSeg /\ (i - 1) + 1 = i /\ ~(i <= i - 1)
    BY <1>0, <2>3
  <2>5. c[i - 1] \in Segs \cup {None}
    BY <2>2, <2>4
  <2>6. c[(i - 1) + 1] \in Segs \cup {None}
    BY <1>3, <2>4, <2>5 DEF NextOK
  <2>7. QED BY <2>2, <2>4, <2>6
<1>5. c = [i \in 0 .. NSeg |-> c[i]]
  BY <1>1
<1>6. QED BY <1>2, <1>3, <1>4, <1>5 DEF c

(* There are NSeg segments.                                                *)
LEMMA SegsFinite == IsFiniteSet(Segs) /\ Cardinality(Segs) = NSeg /\ NSeg \in Nat /\ None \notin Segs
<1>1. NSeg \in Nat /\ NSeg > 1 /\ None \notin Nat
  BY ListsAssumption
<1>2. IsFiniteSet(0 .. NSeg - 1) /\ Cardinality(0 .. NSeg - 1) = NSeg
  BY <1>1, FS_Interval
<1>3. QED  BY <1>1, <1>2 DEF Segs

(* More than NSeg segments in a row are not all different.                 *)
LEMMA TooMany ==
    ASSUME NEW c, NEW n \in 0 .. NSeg, \A i \in 0 .. n : c[i] \in Segs,
           \A i, j \in 0 .. n : i < j => c[i] # c[j]
    PROVE  n < NSeg
<1>1. SUFFICES ASSUME n = NSeg PROVE FALSE
  BY SegsFinite
<1> DEFINE g == [i \in 0 .. n |-> c[i]]
<1>2. IsFiniteSet(0 .. n) /\ Cardinality(0 .. n) = NSeg + 1
  BY <1>1, SegsFinite, FS_Interval
<1>3. g \in [0 .. n -> Segs]
  OBVIOUS
<1>4. PICK i, j \in 0 .. n : i # j /\ g[i] = g[j]
  <2>1. Cardinality(Segs) < Cardinality(0 .. n)
    BY <1>2, SegsFinite
  <2> HIDE DEF g
  <2>2. QED BY <1>2, <1>3, <2>1, SegsFinite, FS_PigeonHole
<1>5. QED  BY <1>4

(* A walk from f that stays in S before step n; one that has risen so far. *)
Inside(f, S, n) == \A i \in 0 .. n - 1 : Chain(f)[i] \in S
Rises(f, S, r, n) ==
    /\ \A i \in 0 .. n : Chain(f)[i] \in S
    /\ \A i, j \in 0 .. n : i < j => r[Chain(f)[i]] < r[Chain(f)[j]]

(* Along a list the order rises.                                           *)
LEMMA Rising ==
    ASSUME NextOK, NEW S, S \subseteq Segs, NEW r, r \in [Segs -> Nat], NEW f, NEW e,
           f \in Segs \cup {None}, Line(next, S, r, f, e), S # {},
           NEW n \in 0 .. NSeg, Inside(f, S \ {e}, n)
    PROVE  Rises(f, S, r, n) /\ n < NSeg
<1> DEFINE c == Chain(f)
<1>1. /\ c[0] = f
      /\ \A i \in 0 .. NSeg - 1 : c[i + 1] = IF c[i] = None THEN None ELSE next[c[i]]
  BY ChainFacts
<1>2. NSeg \in Nat /\ None \notin Segs
  BY SegsFinite
<1> HIDE DEF c
<1>3. \A i \in 0 .. n - 1 : c[i] \in S \ {e}
  BY DEF c, Inside
<1>4. ASSUME NEW i \in 0 .. n - 1
      PROVE  c[i + 1] \in S /\ r[c[i]] < r[c[i + 1]]
  <2>1. c[i] \in S \ {e} /\ c[i] # None
    BY <1>2, <1>3
  <2>2. c[i + 1] = next[c[i]]
    BY <1>1, <1>2, <2>1
  <2>3. QED BY <2>1, <2>2 DEF Line
<1>5. ASSUME NEW i \in 0 .. n PROVE c[i] \in S
  <2>1. CASE i = 0
    BY <1>1, <2>1 DEF Line
  <2>2. CASE i # 0
    <3>1. i - 1 \in 0 .. n - 1 /\ (i - 1) + 1 = i
      BY <1>2, <2>2
    <3>2. QED BY <1>4, <3>1
  <2>3. QED BY <2>1, <2>2
<1>6. ASSUME NEW i \in 0 .. n
      PROVE  \A j \in 0 .. n : i < j => r[c[i]] < r[c[j]]
  <2> DEFINE T == {j \in 0 .. n : i < j /\ ~(r[c[i]] < r[c[j]])}
  <2>1. SUFFICES ASSUME T # {} PROVE FALSE
    OBVIOUS
  <2>2. PICK j \in T : \A k \in T : j <= k
    <3>1. T \subseteq Nat
      BY <1>2
    <3> HIDE DEF T
    <3>2. QED BY <2>1, <3>1, Least
  <2>3. j - 1 \in 0 .. n - 1 /\ j - 1 \in 0 .. n /\ (j - 1) + 1 = j /\ ~(j <= j - 1)
    BY <1>2, <2>2
  <2>4. r[c[j - 1]] < r[c[j]]
    BY <1>4, <2>3
  <2>5. i = j - 1 \/ r[c[i]] < r[c[j - 1]]
    BY <2>2, <2>3
  <2>6. r[c[i]] \in Nat /\ r[c[j - 1]] \in Nat /\ r[c[j]] \in Nat
    BY <1>5, <2>3
  <2>7. r[c[i]] < r[c[j]]
    BY <2>4, <2>5, <2>6
  <2>8. QED BY <2>7
<1>7. n < NSeg
  <2>1. ASSUME NEW i \in 0 .. n, NEW j \in 0 .. n, i < j PROVE c[i] # c[j]
    <3>1. r[c[i]] < r[c[j]] /\ r[c[i]] \in Nat
      BY <1>5, <1>6, <2>1
    <3>2. QED BY <3>1
  <2>2. QED BY <1>5, <2>1, TooMany
<1>8. QED BY <1>5, <1>6, <1>7 DEF c, Rises

(* The walk from f to e visits every segment of S, once.                   *)
Visits(f, e, S, k) ==
    /\ Chain(f)[k] = e
    /\ \A i \in 0 .. k : Chain(f)[i] \in S
    /\ \A s \in S : \E i \in 0 .. k : Chain(f)[i] = s
    /\ \A i, j \in 0 .. k : i < j => Chain(f)[i] # Chain(f)[j]

(* A list, walked from its first segment to its last.                      *)
LEMMA Walk ==
    ASSUME NextOK, NEW S, S \subseteq Segs, NEW r, r \in [Segs -> Nat], NEW f, NEW e,
           f \in Segs \cup {None}, Line(next, S, r, f, e), S # {}
    PROVE  \E k \in 0 .. NSeg - 1 : Visits(f, e, S, k)
<1> DEFINE c == Chain(f)
           T == {i \in 0 .. NSeg : c[i] \notin S \ {e}}
<1>1. /\ c[0] = f
      /\ \A i \in 0 .. NSeg - 1 : c[i + 1] = IF c[i] = None THEN None ELSE next[c[i]]
  BY ChainFacts
<1>2. NSeg \in Nat /\ None \notin Segs
  BY SegsFinite
<1> HIDE DEF c
<1>3. T # {}
  <2>1. SUFFICES ASSUME T = {} PROVE FALSE
    OBVIOUS
  <2>2. NSeg \in 0 .. NSeg /\ \A i \in 0 .. NSeg - 1 : c[i] \in S \ {e}
    BY <1>2, <2>1
  <2>3. Inside(f, S \ {e}, NSeg)
    BY <2>2 DEF c, Inside
  <2>4. NSeg < NSeg
    BY <2>2, <2>3, Rising
  <2>5. QED BY <1>2, <2>4
<1>4. PICK k \in T : \A j \in T : k <= j
  <2>1. T \subseteq Nat
    BY <1>2
  <2> HIDE DEF T
  <2>2. QED BY <1>3, <2>1, Least
<1>5. k \in 0 .. NSeg /\ \A i \in 0 .. k - 1 : c[i] \in S \ {e}
  <2>1. ASSUME NEW i \in 0 .. k - 1 PROVE i \in 0 .. NSeg /\ ~(k <= i)
    BY <1>2
  <2>2. QED BY <1>4, <2>1
<1>6. /\ \A i \in 0 .. k : c[i] \in S
      /\ \A i, j \in 0 .. k : i < j => r[c[i]] < r[c[j]]
      /\ k < NSeg
  <2>1. Inside(f, S \ {e}, k)
    BY <1>5 DEF c, Inside
  <2>2. Rises(f, S, r, k) /\ k < NSeg
    BY <1>5, <2>1, Rising
  <2>3. QED BY <2>2 DEF c, Rises
<1>7. c[k] = e
  <2>1. k \in 0 .. k
    BY <1>2, <1>5
  <2>2. QED BY <1>4, <1>6, <2>1
<1>8. ASSUME NEW i \in 0 .. k, NEW j \in 0 .. k, i < j PROVE c[i] # c[j]
  <2>1. r[c[i]] < r[c[j]] /\ r[c[i]] \in Nat
    BY <1>6, <1>8
  <2>2. QED BY <2>1
<1>9. \A s \in S : \E i \in 0 .. k : c[i] = s
  <2> DEFINE W == {s \in S : \A i \in 0 .. k : c[i] # s}
             R == {r[s] : s \in W}
  <2>1. SUFFICES ASSUME W # {} PROVE FALSE
    OBVIOUS
  <2>2. PICK x \in R : \A y \in R : x <= y
    <3>1. R \subseteq Nat /\ R # {}
      BY <2>1
    <3> HIDE DEF R
    <3>2. QED BY <3>1, Least
  <2>3. PICK w \in W : r[w] = x
    BY <2>2
  <2>4. w # f
    <3>1. 0 \in 0 .. k
      BY <1>2, <1>5
    <3>2. QED BY <1>1, <2>3, <3>1
  <2>5. PICK p \in S \ {e} : next[p] = w
    BY <2>3, <2>4 DEF Line
  <2>6. r[p] < r[w] /\ r[p] \in Nat /\ r[w] \in Nat
    BY <2>3, <2>5 DEF Line
  <2>7. p \notin W
    <3>1. ~(r[w] <= r[p])
      BY <2>6
    <3>2. QED BY <2>2, <2>3, <3>1
  <2>8. PICK i \in 0 .. k : c[i] = p
    BY <2>5, <2>7
  <2>9. i \in 0 .. NSeg - 1 /\ i + 1 \in 0 .. k
    BY <1>2, <1>5, <1>6, <1>7, <2>5, <2>8
  <2>10. c[i + 1] = w
    BY <1>1, <1>2, <2>5, <2>8, <2>9
  <2>11. QED BY <2>3, <2>9, <2>10
<1>10. k \in 0 .. NSeg - 1
  BY <1>2, <1>5, <1>6
<1>11. QED BY <1>6, <1>7, <1>8, <1>9, <1>10 DEF c, Visits

(* Every segment of a list is reached from the header.                     *)
LEMMA Reach ==
    ASSUME NextOK, NEW S, S \subseteq Segs, NEW r, r \in [Segs -> Nat], NEW f, NEW e,
           f \in Segs \cup {None}, Line(next, S, r, f, e)
    PROVE  S \subseteq On(f)
<1>1. CASE S = {}
  BY <1>1
<1>2. CASE S # {}
  <2>1. PICK k \in 0 .. NSeg - 1 : Visits(f, e, S, k)
    BY <1>2, Walk
  <2>2. 0 .. k \subseteq 0 .. NSeg /\ None \notin Segs
    BY SegsFinite
  <2>3. QED BY <2>1, <2>2 DEF On, Visits
<1>3. QED BY <1>1, <1>2

(* After None comes None.                                                  *)
LEMMA Ended ==
    ASSUME NextOK, NEW f \in Segs \cup {None}, NEW k \in 0 .. NSeg, Chain(f)[k] = None,
           NEW i \in 0 .. NSeg, k <= i
    PROVE  Chain(f)[i] = None
<1> DEFINE c == Chain(f)
           T == {j \in k .. NSeg : c[j] # None}
<1>1. /\ \A j \in 0 .. NSeg - 1 : c[j + 1] = IF c[j] = None THEN None ELSE next[c[j]]
      /\ c[k] = None /\ NSeg \in Nat
  BY ChainFacts, SegsFinite
<1> HIDE DEF c
<1>2. SUFFICES ASSUME T # {} PROVE FALSE
  BY <1>1 DEF c
<1>3. PICK j \in T : \A m \in T : j <= m
  <2>1. T \subseteq Nat
    BY <1>1
  <2> HIDE DEF T
  <2>2. QED BY <1>2, <2>1, Least
<1>4. j # k
  BY <1>1
<1>5. /\ j - 1 \in k .. NSeg /\ j - 1 \in 0 .. NSeg - 1 /\ (j - 1) + 1 = j /\ ~(j <= j - 1)
  BY <1>1, <1>4
<1>6. c[j - 1] = None
  BY <1>3, <1>5
<1>7. c[j] = None
  BY <1>1, <1>5, <1>6
<1>8. QED BY <1>7

(* A list whose last segment has no successor is what is reached.          *)
LEMMA Exactly ==
    ASSUME NextOK, NEW S, S \subseteq Segs, NEW r, r \in [Segs -> Nat], NEW f, NEW e,
           f \in Segs \cup {None}, Line(next, S, r, f, e), S # {} => next[e] = None
    PROVE  On(f) = S /\ Length(f) = Cardinality(S)
<1> DEFINE c == Chain(f)
           I == {i \in 0 .. NSeg : c[i] # None}
<1>1. NSeg \in Nat /\ None \notin Segs
  BY SegsFinite
<1>2. c \in [0 .. NSeg -> Segs \cup {None}] /\ c[0] = f
  BY ChainFacts
<1>3. On(f) = {c[i] : i \in I} /\ Length(f) = Cardinality(I)
  BY DEF On, Length
<1>4. CASE S = {}
  <2>1. f = None
    BY <1>4 DEF Line
  <2>2. \A i \in 0 .. NSeg : c[i] = None
    BY <1>1, <1>2, <2>1, Ended
  <2>3. I = {}
    BY <2>2
  <2>4. QED BY <1>3, <1>4, <2>3
<1>5. CASE S # {}
  <2>0. PICK k \in 0 .. NSeg - 1 : Visits(f, e, S, k)
    BY <1>5, Walk
  <2>1. /\ c[k] = e
        /\ \A i \in 0 .. k : c[i] \in S
        /\ \A s \in S : \E i \in 0 .. k : c[i] = s
        /\ \A i, j \in 0 .. k : i < j => c[i] # c[j]
    BY <2>0 DEF Visits
  <2>2. k + 1 \in 0 .. NSeg /\ c[k + 1] = None
    <3>1. e # None
      BY <1>1, <1>5 DEF Line
    <3>2. QED BY <1>1, <1>5, <2>1, <3>1, ChainFacts
  <2>3. I = 0 .. k
    <3>1. ASSUME NEW i \in 0 .. k PROVE i \in I
      BY <1>1, <2>1
    <3>2. ASSUME NEW i \in 0 .. NSeg, i \notin 0 .. k PROVE c[i] = None
      <4>1. k + 1 <= i
        BY <1>1, <3>2
      <4>2. QED BY <2>2, <4>1, Ended
    <3>3. QED BY <3>1, <3>2
  <2> HIDE DEF c, I
  <2>4. Cardinality(I) = Cardinality(S)
    <3> DEFINE g == [i \in I |-> c[i]]
    <3>1. g \in Bijection(I, S)
      <4>1. g \in [I -> S] /\ \A s \in S : \E i \in I : g[i] = s
        BY <2>1, <2>3
      <4>2. ASSUME NEW i \in I, NEW j \in I, g[i] = g[j] PROVE i = j
        <5>1. i < j \/ j < i \/ i = j
          BY <2>3, <1>1
        <5>2. QED BY <2>1, <2>3, <4>2, <5>1
      <4> HIDE DEF g
      <4>3. g \in Injection(I, S) /\ g \in Surjection(I, S)
        BY <4>1, <4>2 DEF Injection, Surjection, IsInjective
      <4>4. QED BY <4>3 DEF Bijection, Injection, Surjection
    <3>2. IsFiniteSet(I)
      BY <1>1, <2>3, FS_Interval
    <3> HIDE DEF g
    <3>3. ExistsBijection(I, S)
      BY <3>1 DEF ExistsBijection
    <3>4. QED BY <3>2, <3>3, FS_Bijection
  <2>5. QED BY <1>3, <2>1, <2>3, <2>4
<1>6. QED BY <1>4, <1>5

(* A segment is appended to a list.                                        *)
LEMMA LineAppend ==
    ASSUME NEW nx, NEW nx2, NEW S, S \subseteq Segs, NEW r, r \in [Segs -> Nat],
           NEW f, NEW f2, NEW e, Line(nx, S, r, f, e),
           NEW s \in Segs, s \notin S,
           S = {} => f2 = s,
           S # {} => f2 = f /\ nx2[e] = s /\ \A u \in S \ {e} : nx2[u] = nx[u]
    PROVE  Line(nx2, S \cup {s}, [r EXCEPT ![s] = IF S = {} THEN 0 ELSE r[e] + 1], f2, s)
<1> DEFINE q == [r EXCEPT ![s] = IF S = {} THEN 0 ELSE r[e] + 1]
<1>0. None \notin Segs
  BY SegsFinite
<1>1. CASE S = {}
  <2>1. q[s] \in Nat
    BY <1>1
  <2> HIDE DEF q
  <2>2. Line(nx2, S \cup {s}, q, f2, s)
    BY <1>0, <1>1, <2>1 DEF Line
  <2>3. QED BY <2>2 DEF q
<1>2. CASE S # {}
  <2>1. f \in S /\ e \in S /\ f2 = f
    BY <1>2 DEF Line
  <2>2. q[s] = r[e] + 1 /\ \A u \in S : q[u] = r[u] /\ r[u] \in Nat /\ r[u] <= r[e] /\ r[f] <= r[u]
    BY <1>2, <2>1 DEF Line
  <2> HIDE DEF q
  <2>3. \A u \in S \cup {s} : q[f] <= q[u] /\ q[u] <= q[s]
    BY <2>1, <2>2
  <2>4. \A u, v \in S \cup {s} : q[u] = q[v] => u = v
    <3>1. \A u, v \in S : q[u] = q[v] => u = v
      BY <2>2 DEF Line
    <3>2. \A u \in S : q[u] # q[s]
      BY <2>1, <2>2
    <3>3. QED BY <3>1, <3>2
  <2>5. ASSUME NEW u \in S
        PROVE  /\ nx2[u] \in S \cup {s} /\ q[u] < q[nx2[u]]
               /\ \A v \in S \cup {s} : q[v] <= q[u] \/ q[nx2[u]] <= q[v]
    <3>1. CASE u = e
      BY <1>2, <2>1, <2>2, <3>1
    <3>2. CASE u # e
      <4>1. nx2[u] = nx[u] /\ nx[u] \in S /\ r[u] < r[nx[u]]
        BY <1>2, <3>2 DEF Line
      <4>2. \A v \in S : r[v] <= r[u] \/ r[nx[u]] <= r[v]
        BY <3>2 DEF Line
      <4>3. QED BY <2>1, <2>2, <4>1, <4>2
    <3>3. QED BY <3>1, <3>2
  <2>6. ASSUME NEW u \in S \cup {s}, u # f PROVE \E p \in S : nx2[p] = u
    <3>1. CASE u = s
      BY <1>2, <2>1, <3>1
    <3>2. CASE u # s
      <4>1. PICK p \in S \ {e} : nx[p] = u
        BY <2>6, <3>2 DEF Line
      <4>2. QED BY <1>2, <4>1
    <3>3. QED BY <3>1, <3>2
  <2>7. f # None /\ s # None /\ (S \cup {s}) \ {s} = S
    BY <1>0, <2>1
  <2>8. Line(nx2, S \cup {s}, q, f, s)
    BY <2>1, <2>3, <2>4, <2>5, <2>6, <2>7 DEF Line
  <2>9. QED BY <2>1, <2>8 DEF q
<1>3. QED BY <1>1, <1>2

(* The first segment is taken off a list.                                  *)
LEMMA LineBehead ==
    ASSUME NEW nx, NEW S, S \subseteq Segs, NEW r, r \in [Segs -> Nat],
           NEW f, NEW f2, NEW e, Line(nx, S, r, f, e), S # {},
           f = e => f2 = None, f # e => f2 = nx[f]
    PROVE  Line(nx, S \ {f}, r, f2, IF f = e THEN None ELSE e)
<1>0. None \notin Segs /\ f \in S /\ e \in S
  BY SegsFinite DEF Line
<1>1. CASE f = e
  <2>1. S = {f}
    <3>1. ASSUME NEW u \in S PROVE u = f
      <4>1. r[u] \in Nat /\ r[f] \in Nat /\ r[f] <= r[u] /\ r[u] <= r[f]
        BY <1>0, <1>1 DEF Line
      <4>2. r[u] = r[f]
        BY <4>1
      <4>3. QED BY <1>0, <4>2 DEF Line
    <3>2. QED BY <1>0, <3>1
  <2>2. S \ {f} = {} /\ f2 = None
    BY <1>1, <2>1
  <2>3. QED BY <1>1, <2>2 DEF Line
<1>2. CASE f # e
  <2> DEFINE g == nx[f]
             T == S \ {f}
  <2>1. /\ g \in S /\ r[f] < r[g] /\ \A u \in S : r[u] <= r[f] \/ r[g] <= r[u]
        /\ \A u \in S : r[f] <= r[u] /\ r[u] <= r[e] /\ r[u] \in Nat
    BY <1>0, <1>2 DEF Line
  <2>2. g \in T /\ e \in T /\ g # None /\ e # None /\ T \subseteq S
    BY <1>0, <1>2, <2>1
  <2>3. \A u \in T : r[g] <= r[u]
    <3>1. ASSUME NEW u \in T PROVE r[g] <= r[u]
      <4>1. r[u] # r[f]
        BY <1>0 DEF Line
      <4>2. ~(r[u] <= r[f])
        BY <1>0, <2>1, <4>1
      <4>3. QED BY <2>1, <4>2
    <3>2. QED BY <3>1
  <2>4. ASSUME NEW u \in T \ {e} PROVE nx[u] \in T
    <3>1. nx[u] \in S /\ r[u] < r[nx[u]]
      BY DEF Line
    <3>2. nx[u] # f
      BY <1>0, <2>1, <3>1
    <3>3. QED BY <3>1, <3>2
  <2>5. ASSUME NEW u \in T, u # g PROVE \E p \in T \ {e} : nx[p] = u
    <3>1. PICK p \in S \ {e} : nx[p] = u
      BY DEF Line
    <3>2. p # f
      BY <2>5, <3>1
    <3>3. QED BY <3>1, <3>2
  <2>6. /\ \A u, v \in T : r[u] = r[v] => u = v
        /\ \A u \in T \ {e} : r[u] < r[nx[u]] /\ \A v \in T : r[v] <= r[u] \/ r[nx[u]] <= r[v]
    BY <2>2 DEF Line
  <2>7. f2 = g
    BY <1>2
  <2> HIDE DEF T, g
  <2>8. Line(nx, T, r, g, e)
    BY <2>1, <2>2, <2>3, <2>4, <2>5, <2>6 DEF Line
  <2>9. QED BY <1>2, <2>7, <2>8 DEF T
<1>3. QED BY <1>1, <1>2

(* A segment that is not the first one is taken out of a list.             *)
LEMMA LineBypass ==
    ASSUME NEW nx, NEW nx2, NEW S, S \subseteq Segs, NEW r, r \in [Segs -> Nat],
           NEW f, NEW e, Line(nx, S, r, f, e),
           NEW s \in S, s # f, NEW p \in S \ {e}, nx[p] = s,
           s # e => nx2[p] = nx[s],
           \A u \in S \ {p, e} : nx2[u] = nx[u]
    PROVE  Line(nx2, S \ {s}, r, f, IF s = e THEN p ELSE e)
<1> DEFINE T == S \ {s}
           z == IF s = e THEN p ELSE e
<1>0. /\ None \notin Segs /\ f \in S /\ e \in S
      /\ \A u \in S : r[u] \in Nat /\ r[f] <= r[u] /\ r[u] <= r[e]
      /\ \A u, v \in S : r[u] = r[v] => u = v
      /\ \A u \in S \ {e} : /\ nx[u] \in S /\ r[u] < r[nx[u]]
                            /\ \A v \in S : r[v] <= r[u] \/ r[nx[u]] <= r[v]
      /\ \A u \in S \ {f} : \E v \in S \ {e} : nx[v] = u
  BY SegsFinite DEF Line
<1>1. r[p] < r[s] /\ p # s /\ \A v \in S : r[v] <= r[p] \/ r[s] <= r[v]
  BY <1>0
<1>2. f \in T /\ z \in T /\ p \in T /\ f # None /\ z # None /\ T \subseteq S
  BY <1>0, <1>1
<1>3. \A u \in T : r[u] <= r[z]
  <2>1. ASSUME NEW u \in T, s = e PROVE r[u] <= r[p]
    <3>1. r[u] # r[s] /\ r[u] <= r[s]
      BY <1>0, <2>1
    <3>2. ~(r[s] <= r[u])
      BY <1>0, <3>1
    <3>3. QED BY <1>1, <3>2
  <2>2. QED BY <1>0, <2>1
(* Only p has s as its successor.                                          *)
<1>4. ASSUME NEW u \in S \ {e}, nx[u] = s PROVE u = p
  <2>1. /\ r[u] < r[s] /\ r[p] < r[s] /\ r[u] \in Nat /\ r[p] \in Nat /\ r[s] \in Nat
        /\ r[p] <= r[u] \/ r[s] <= r[p]
        /\ r[u] <= r[p] \/ r[s] <= r[u]
    BY <1>0, <1>1, <1>4
  <2>2. r[u] = r[p]
    BY <2>1
  <2>3. QED BY <1>0, <2>2
<1>5. ASSUME NEW u \in T \ {z}
      PROVE  /\ nx2[u] \in T /\ r[u] < r[nx2[u]]
             /\ \A v \in T : r[v] <= r[u] \/ r[nx2[u]] <= r[v]
  <2>1. CASE u = p
    <3>1. s # e /\ nx2[p] = nx[s]
      BY <1>5, <2>1
    <3>2. nx[s] \in S /\ r[s] < r[nx[s]] /\ \A v \in S : r[v] <= r[s] \/ r[nx[s]] <= r[v]
      BY <1>0, <3>1
    <3>3. nx[s] # s /\ r[p] < r[nx[s]]
      BY <1>0, <1>1, <3>2
    <3>4. ASSUME NEW v \in T PROVE r[v] <= r[p] \/ r[nx[s]] <= r[v]
      <4>1. r[v] # r[s]
        BY <1>0
      <4>2. QED BY <1>0, <1>1, <3>2, <4>1, SMTT(20), ZenonT(20)
    <3>5. QED BY <2>1, <3>1, <3>2, <3>3, <3>4
  <2>2. CASE u # p
    <3>1. u # e
      BY <1>5, <2>2
    <3>2. nx2[u] = nx[u] /\ nx[u] # s
      BY <1>4, <2>2, <3>1
    <3>3. QED BY <1>0, <3>1, <3>2
  <2>3. QED BY <2>1, <2>2
<1>6. ASSUME NEW u \in T, u # f PROVE \E v \in T \ {z} : nx2[v] = u
  <2>1. PICK v \in S \ {e} : nx[v] = u
    BY <1>0, <1>6
  <2>2. CASE v = s
    <3>1. s # e
      BY <2>1, <2>2
    <3>2. nx2[p] = u /\ p \in T /\ p # z
      BY <1>2, <2>1, <2>2, <3>1
    <3>3. QED BY <3>2
  <2>3. CASE v # s
    <3>1. v # p
      BY <2>1
    <3>2. nx2[v] = u /\ v \in T /\ v # z
      BY <2>1, <2>3, <3>1
    <3>3. QED BY <3>2
  <2>4. QED BY <2>2, <2>3
<1>7. \A u, v \in T : r[u] = r[v] => u = v
  BY <1>0
<1> HIDE DEF T, z
<1>8. Line(nx2, T, r, f, z)
  BY <1>0, <1>2, <1>3, <1>5, <1>6, <1>7 DEF Line
<1>9. QED BY <1>8 DEF T, z

(* What follows the last segment does not matter.                          *)
LEMMA LineKept ==
    ASSUME NEW nx, NEW nx2, NEW S, NEW r, NEW f, NEW e, Line(nx, S, r, f, e),
           \A u \in S \ {e} : nx2[u] = nx[u]
    PROVE  Line(nx2, S, r, f, e)
<1>1. QED BY DEF Line

(* What a step may start from.                                             *)
Facts(M, r, e) == Running /\ LockInv /\ FileTypes /\ Whole(M, r, e)

(* A mutex has one owner.                                                  *)
LEMMA Holder ==
    ASSUME LockInv, Running, NEW t \in Threads, NEW u \in Threads, NEW l \in Lists,
           MayHold(th[t], l), MayHold(th[u], l)
    PROVE  t = u
<1>1. QED BY DEF LockInv

(* What the invariant says of one list.                                    *)
LEMMA EndIn ==
    ASSUME NEW M, NEW r, NEW e, Facts(M, r, e), NEW l \in Lists
    PROVE  /\ M[l] \subseteq Segs /\ r[l] \in [Segs -> Nat]
           /\ Line(next, M[l], r[l], first[l], e[l])
           /\ e[l] # None => e[l] \in M[l] /\ e[l] \in Segs
           /\ first[l] # None => first[l] \in M[l] /\ first[l] \in Segs
           /\ e[l] = None <=> M[l] = {}
           /\ first[l] = None <=> M[l] = {}
<1>1. Line(next, M[l], r[l], first[l], e[l])
  BY DEF Facts, Whole, Lines
<1>2. M[l] \in SUBSET Segs /\ r[l] \in [Segs -> Nat]
  BY DEF Facts, Whole, GhostTypes
<1>3. QED BY <1>1, <1>2 DEF Line

(* A segment in two lists is in the new one, and both are locked; except   *)
(* for a late reclaim.                                                     *)
LEMMA InBoth ==
    ASSUME NEW M, NEW r, NEW e, Facts(M, r, e), NEW t \in Threads,
           Cleans(th[t]), Both(th[t])
    PROVE  /\ th[t].from \in Lists /\ th[t].to \in Lists /\ th[t].from # th[t].to
           /\ MayHold(th[t], th[t].from)
           /\ ~LateBoth(th[t]) => /\ MayHold(th[t], th[t].to) /\ e[th[t].to] = th[t].seg
                                  /\ th[t].seg \in M[th[t].to]
           /\ LateBoth(th[t]) => th[t].from = "used" /\ th[t].to = "emergency"
           /\ th[t].seg \in Segs
<1>0. /\ MoveShape(t, th[t]) /\ MoveAt(t, th[t], M, e)
      /\ th[t].seg \in Segs \cup {None}
  BY DEF Facts, LockInv, Whole, Moving, FileTypes
<1>1. /\ th[t].from \in Lists /\ th[t].to \in Lists /\ th[t].from # th[t].to
      /\ MayHold(th[t], th[t].from)
      /\ ~LateBoth(th[t]) => MayHold(th[t], th[t].to)
      /\ LateBoth(th[t]) => th[t].from = "used" /\ th[t].to = "emergency"
  BY <1>0 DEF MoveShape, MayHold, Cleans, Both, LateBoth, Late, Lists
<1>2. th[t].seg # None
  BY <1>0 DEF MoveAt, GetAt, RetireAt, ReclaimAt, Cleans, Both, Past
<1>3. ~LateBoth(th[t]) => e[th[t].to] = th[t].seg
  BY <1>0 DEF MoveAt, GetAt, RetireAt, ReclaimAt, Cleans, Both, Past, LateBoth, Late, MoveShape
<1>4. QED BY <1>0, <1>1, <1>2, <1>3, EndIn

(* A segment of a list that nobody takes it out of or adds it to is in no  *)
(* other list, unless a late reclaim has yet to cut it off the used one.   *)
LEMMA Sole ==
    ASSUME NEW M, NEW r, NEW e, Facts(M, r, e), NEW l \in Lists, NEW k \in Lists, l # k,
           NEW x, x \in M[l], x \in M[k],
           \A u \in Threads : MayHold(th[u], l) => ~(th[u].seg = x /\ Both(th[u]))
    PROVE  \E u \in Threads : LateBoth(th[u]) /\ th[u].seg = x /\ k = "used"
<1>1. ASSUME NEW u \in Threads PROVE ~Leaving(u, x, l)
  BY InBoth DEF Leaving
<1>2. PICK u \in Threads : Leaving(u, x, k)
  BY <1>1 DEF Facts, Whole, Apart
<1>3. CASE LateBoth(th[u])
  BY <1>2, <1>3, InBoth DEF Leaving
<1>4. CASE ~LateBoth(th[u])
  <2> DEFINE j == th[u].to
  <2>1. /\ j \in Lists /\ j # k /\ MayHold(th[u], j) /\ x \in M[j]
        /\ th[u].seg = x /\ Both(th[u])
    BY <1>2, <1>4, InBoth DEF Leaving
  <2>2. j # l
    BY <2>1
  <2> HIDE DEF j
  <2>3. PICK v \in Threads : Leaving(v, x, l) \/ Leaving(v, x, j)
    BY <2>1, <2>2 DEF Facts, Whole, Apart
  <2>4. Leaving(v, x, j)
    BY <1>1, <2>3
  <2>5. MayHold(th[v], j)
    BY <2>4, InBoth DEF Leaving
  <2>6. u = v
    BY <2>1, <2>5, Holder DEF Facts
  <2>7. QED BY <1>2, <2>1, <2>4, <2>6 DEF Leaving
<1>5. QED BY <1>3, <1>4

(* None, the client and the cleaners are different things.                 *)
LEMMA Names ==
    /\ App \in Threads /\ Cleaners \subseteq Threads /\ App \notin Cleaners
    /\ None \notin Segs /\ None \notin Threads
<1>1. QED BY SegsFinite, ListsAssumption DEF Threads

(* What the invariant says of one thread.                                  *)
LEMMA ThreadFacts ==
    ASSUME NEW M, NEW r, NEW e, Facts(M, r, e), NEW t \in Threads
    PROVE  /\ th = [u \in Threads |-> th[u]]
           /\ MoveShape(t, th[t]) /\ MoveAt(t, th[t], M, e)
           /\ th[t].seg \in Segs \cup {None}
           /\ None \notin Segs /\ App \in Threads /\ Cleaners \subseteq Threads
           /\ App \notin Cleaners
<1>1. QED BY SegsFinite, ListsAssumption DEF Facts, LockInv, Whole, Moving, FileTypes, Threads

(* A thread whose segment is in one list goes on, and changes no list.     *)
LEMMA QuietStep ==
    ASSUME NEW M, NEW r, NEW e, Facts(M, r, e), NEW t \in Threads, NEW m,
           th' = [th EXCEPT ![t] = m], MoveShape(t, m), MoveAt(t, m, M, e)',
           m.seg \in Segs \cup {None},
           ~Past(th[t]), ~Past(m),
           UNCHANGED <<next, first, last, count, own, claim>>,
           \/ head' = head /\ (t = App => (HeadSealed' <=> HeadSealed) \/ head = None)
           \/ head' = None /\ HeadSealed /\ t = App,
           head' # None /\ m.op \in {"none", "seal"} /\ t = App => th[t].op \in {"none", "seal"},
           m.op = "reclaim" /\ m.to = "emergency" /\ m.at = "link" => count < EmergencyCount
    PROVE  FileTypes' /\ Whole(M, r, e)'
<1>1. /\ \A u \in Threads \ {t} : th'[u] = th[u]
      /\ th'[t] = m
  BY ThreadFacts
<1>2. \A u \in Threads : MoveShape(u, th[u]) /\ MoveAt(u, th[u], M, e) /\ App \notin Cleaners
  BY ThreadFacts
<1>3. FileTypes'
  <2>1. \A u \in Threads : th'[u].seg \in Segs \cup {None}
    BY <1>1 DEF Facts, FileTypes
  <2>2. head' \in Segs \cup {None}
    BY DEF Facts, FileTypes
  <2>3. QED BY <2>1, <2>2 DEF Facts, FileTypes
<1>4. GhostTypes(M, r, e)' /\ Lines(M, r, e)'
  BY DEF Facts, Whole, GhostTypes, Lines, Line
<1>5. Lasts(M, e)'
  <2>1. \A u \in Threads, l \in Lists : LastsOff(u, l, M, e) => u # t /\ LastsOff(u, l, M, e)'
    BY <1>1 DEF LastsOff, Past
  <2>2. QED BY <2>1 DEF Facts, Whole, Lasts
<1>6. Clean(e)'
  <2>1. \A u \in Threads, s \in Segs, l \in Lists : Tails(u, s, l) => u # t /\ Tails(u, s, l)'
    BY <1>1 DEF Tails, Past, LateBoth, Late
  <2>2. \A l \in Lists : e[l] # None => e[l] \in Segs
    BY EndIn
  <2>3. QED BY <2>1, <2>2 DEF Facts, Whole, Clean
<1>7. Cover(M)'
  <2>1. HeadSealed' <=> th'[App].op = "take" /\ th'[App].at \in {"test", "link"}
    BY DEF HeadSealed
  <2>2. t # App => (HeadSealed' <=> HeadSealed) /\ head' = head
    BY <1>1, ThreadFacts DEF HeadSealed
  <2>3. QED BY <2>2, SegsFinite DEF Facts, Whole, Cover
<1>8. Apart(M)'
  <2>1. \A u \in Threads, s \in Segs, l \in Lists : Leaving(u, s, l) => u # t /\ Leaving(u, s, l)'
    BY <1>1 DEF Leaving, Both, Past
  <2>2. \A l \in Lists : M[l] \subseteq Segs
    BY EndIn
  <2>3. QED BY <2>1, <2>2 DEF Facts, Whole, Apart
<1>9. HeadApart(M)'
  <2>1. t # App => (HeadSealed' <=> HeadSealed) /\ head' = head /\ th'[App] = th[App]
    BY <1>1, ThreadFacts DEF HeadSealed
  <2>2. t = App => ~(th[App].at \in {"last", "cut"})
    BY DEF Past
  <2>3. QED BY <1>1, <2>1, <2>2 DEF Facts, Whole, HeadApart
<1>10. Moving(M, e)'
  <2>1. ASSUME NEW u \in Threads, u # t PROVE MoveAt(u, th[u], M, e)'
    <3>1. th'[u] = th[u] /\ MoveAt(u, th[u], M, e) /\ MoveShape(u, th[u])
      BY <1>1, <1>2, <2>1
    <3>2. th[u].op \in {"seal", "take"} => head' = head
      BY <2>1, <3>1, ThreadFacts DEF MoveShape
    <3>3. QED BY <3>1, <3>2 DEF MoveAt, SealAt, TakeAt, GetAt, RetireAt, ReclaimAt
  <2>2. QED BY <1>1, <2>1 DEF Moving
<1>11. Owns(M)'
  BY <1>1, ThreadFacts DEF Facts, Whole, Owns, Past
<1>12. Claims(M)'
  BY <1>1, ThreadFacts DEF Facts, Whole, Claims, Past
<1>13. Counts(M)'
  <2>1. /\ ~Refills(th[t]) /\ ~Drains(th[t]) /\ ~Refills(m) /\ ~Drains(m)
        /\ m.at \notin {"last", "count"}
    BY DEF Refills, Drains, Past
  <2>2. QED BY <1>1, <2>1 DEF Facts, Whole, Counts, Refills, Drains
<1>14. QED BY <1>3, <1>4, <1>5, <1>6, <1>7, <1>8, <1>9, <1>10, <1>11, <1>12, <1>13 DEF Whole

(* The client begins a move, or gives up for lack of a segment.            *)
LEMMA ClientQuiet ==
    ASSUME NEW M, NEW r, NEW e, Facts(M, r, e), Seal \/ Take \/ TestFree \/ OutOfMemory
    PROVE  FileTypes' /\ Whole(M, r, e)'
<1>1. /\ App \in Threads /\ App \notin Cleaners /\ None \notin Segs
      /\ th[App].seg \in Segs \cup {None} /\ MoveShape(App, th[App])
      /\ head \in Segs \cup {None} /\ MoveAt(App, th[App], M, e)
  BY Names, ThreadFacts DEF Facts, FileTypes
<1>2. CASE Seal
  <2>0. PICK m : m = [op |-> "seal", at |-> "link", seg |-> head, from |-> "free", to |-> "used"]
    OBVIOUS
  <2>1. th[App] = NoMove /\ head # None
    BY <1>2 DEF Seal, Ready
  <2>2. th' = [th EXCEPT ![App] = m] /\ UNCHANGED <<fileVars, own, claim>>
    BY <1>2, <2>0 DEF Seal, Moves
  <2>3. UNCHANGED <<next, first, last, count, own, claim, head>>
    BY <2>2 DEF fileVars
  <2>4. MoveShape(App, m) /\ ~Past(m) /\ ~Past(th[App])
    BY <2>0, <2>1 DEF MoveShape, Steps, Lists, Past, NoMove
  <2>5. MoveAt(App, m, M, e)'
    BY <2>0, <2>1, <2>3 DEF MoveAt, SealAt
  <2>6. ~HeadSealed /\ ~HeadSealed'
    BY <2>0, <1>1, <2>1, <2>2, ThreadFacts DEF HeadSealed, NoMove
  <2>7. th[App].op = "none"
    BY <2>1 DEF NoMove
  <2>8. QED BY <1>1, <2>0, <2>2, <2>3, <2>4, <2>5, <2>6, <2>7, QuietStep
<1>3. CASE Take
  <2>0. PICK m : m = [op |-> "take", at |-> "test", seg |-> None, from |-> "free", to |-> "used"]
    OBVIOUS
  <2>1. th[App] = NoMove /\ head = None
    BY <1>3 DEF Take, Ready
  <2>2. th' = [th EXCEPT ![App] = m] /\ UNCHANGED <<fileVars, own, claim>>
    BY <1>3, <2>0 DEF Take, Moves
  <2>3. UNCHANGED <<next, first, last, count, own, claim, head>>
    BY <2>2 DEF fileVars
  <2>4. MoveShape(App, m) /\ ~Past(m) /\ ~Past(th[App])
    BY <2>0, <2>1 DEF MoveShape, Steps, Lists, Past, NoMove
  <2>5. MoveAt(App, m, M, e)'
    BY <2>0, <2>1, <2>3 DEF MoveAt, TakeAt
  <2>6. QED BY <2>0, <1>1, <2>1, <2>2, <2>3, <2>4, <2>5, QuietStep
<1>4. CASE TestFree
  <2>0. PICK m : m = [th[App] EXCEPT !.at = "link"]
    OBVIOUS
  <2>1. th[App].at = "test" /\ th[App].op = "take"
    BY <1>1, <1>4 DEF TestFree, At, MoveShape
  <2>2. th' = [th EXCEPT ![App] = m] /\ UNCHANGED <<fileVars, own, claim>>
    BY <1>4, <2>0 DEF TestFree, Goes
  <2>3. UNCHANGED <<next, first, last, count, own, claim, head>>
    BY <2>2 DEF fileVars
  <2>4. MoveShape(App, m) /\ ~Past(m) /\ ~Past(th[App]) /\ m.op = "take" /\ m.at = "link" /\ m.seg = th[App].seg
    BY <2>0, <1>1, <2>1 DEF MoveShape, Steps, Lists, Past
  <2>5. MoveAt(App, m, M, e)'
    BY <2>0, <2>4 DEF MoveAt, TakeAt
  <2>6. HeadSealed /\ HeadSealed'
    BY <2>0, <1>1, <2>1, <2>2, <2>4, ThreadFacts DEF HeadSealed
  <2>7. QED BY <1>1, <2>2, <2>3, <2>4, <2>5, <2>6, QuietStep
<1>5. CASE OutOfMemory
  <2>1. th[App].at = "test" /\ th[App].op = "take"
    BY <1>1, <1>5 DEF OutOfMemory, At, MoveShape
  <2>2. /\ th' = [th EXCEPT ![App] = NoMove] /\ head' = None
        /\ UNCHANGED <<next, first, last, count, own, claim>>
    BY <1>5 DEF OutOfMemory
  <2>3. MoveShape(App, NoMove) /\ ~Past(NoMove) /\ ~Past(th[App]) /\ NoMove.seg = None /\ NoMove.op = "none"
    BY <2>1 DEF MoveShape, Steps, Lists, Past, NoMove
  <2>4. MoveAt(App, NoMove, M, e)'
    BY <2>3 DEF MoveAt
  <2>5. HeadSealed
    BY <2>1 DEF HeadSealed
  <2>6. QED BY <1>1, <2>2, <2>3, <2>4, <2>5, QuietStep
<1>6. QED BY <1>2, <1>3, <1>4, <1>5

(* A cleaner begins a move, or locks its first mutex.                      *)
LEMMA CleanerQuiet ==
    ASSUME NEW M, NEW r, NEW e, Facts(M, r, e), NEW c \in Cleaners,
           Get(c) \/ GetEmergency(c) \/ Retire(c) \/ Reclaim(c) \/ LockOuter(c)
    PROVE  FileTypes' /\ Whole(M, r, e)'
<1>1. /\ c \in Threads /\ c # App /\ None \notin Segs
      /\ th[c].seg \in Segs \cup {None} /\ MoveShape(c, th[c])
      /\ MoveAt(c, th[c], M, e)
  BY Names, ThreadFacts
<1>2. own \in [Cleaners -> Segs \cup {None}] /\ claim \in [Cleaners -> Segs \cup {None}]
  BY DEF Facts, FileTypes
<1>3. CASE Get(c)
  <2> DEFINE f(at, from) == [op |-> "get", at |-> at, seg |-> None, from |-> from, to |-> "cleaner"]
  <2>1. th[c] = NoMove /\ own[c] = None
    BY <1>3 DEF Get, Ready
  <2>2. PICK m \in {f("outer", "free"), f("emergency", "emergency")} :
           th' = [th EXCEPT ![c] = m] /\ UNCHANGED <<fileVars, own, claim>>
    BY <1>3 DEF Get, Moves
  <2>3. UNCHANGED <<next, first, last, count, own, claim, head>>
    BY <2>2 DEF fileVars
  <2>4. MoveShape(c, m) /\ ~Past(m) /\ ~Past(th[c]) /\ m.seg = None /\ m.op = "get" /\ ~Both(m)
    BY <2>1 DEF MoveShape, Steps, Lists, Past, NoMove, Both
  <2>5. MoveAt(c, m, M, e)'
    BY <2>1, <2>3, <2>4 DEF MoveAt, GetAt
  <2>6. QED BY <1>1, <2>2, <2>3, <2>4, <2>5, QuietStep
<1>4. CASE GetEmergency(c)
  <2>1. th[c].at = "emergency" /\ th[c].op = "get"
    BY <1>1, <1>4 DEF GetEmergency, At, MoveShape
  <2>2. PICK m \in {NoMove, [th[c] EXCEPT !.at = "outer"]} :
           th' = [th EXCEPT ![c] = m] /\ UNCHANGED <<fileVars, own, claim>>
    BY <1>4 DEF GetEmergency
  <2>3. UNCHANGED <<next, first, last, count, own, claim, head>>
    BY <2>2 DEF fileVars
  <2>4. /\ MoveShape(c, m) /\ ~Past(m) /\ ~Past(th[c]) /\ m.seg \in Segs \cup {None}
        /\ m.op \in {"none", "get"} /\ ~Both(m)
    BY <1>1, <2>1 DEF MoveShape, Steps, Lists, Past, NoMove, Both
  <2>5. MoveAt(c, m, M, e)'
    BY <1>1, <2>1, <2>3, <2>4 DEF MoveAt, GetAt
  <2>6. QED BY <1>1, <2>2, <2>3, <2>4, <2>5, QuietStep
<1>5. CASE Retire(c)
  <2>0. PICK m : m = [op |-> "retire", at |-> "outer", seg |-> own[c], from |-> "cleaner", to |-> "used"]
    OBVIOUS
  <2>1. th[c] = NoMove /\ own[c] # None /\ claim[c] # None
    BY <1>5 DEF Retire, Ready
  <2>2. th' = [th EXCEPT ![c] = m] /\ UNCHANGED <<fileVars, own, claim>>
    BY <1>5, <2>0 DEF Retire, Moves
  <2>3. UNCHANGED <<next, first, last, count, own, claim, head>>
    BY <2>2 DEF fileVars
  <2>4. MoveShape(c, m) /\ ~Past(m) /\ ~Past(th[c])
    BY <2>0, <2>1 DEF MoveShape, Steps, Lists, Past, NoMove
  <2>5. MoveAt(c, m, M, e)'
    BY <2>0, <2>1, <2>3, <2>4 DEF MoveAt, RetireAt
  <2>6. QED BY <2>0, <1>1, <1>2, <2>2, <2>3, <2>4, <2>5, QuietStep
<1>6. CASE Reclaim(c)
  <2>0. PICK m : m = [op |-> "reclaim", at |-> "outer", seg |-> claim[c], from |-> "used", to |-> "free"]
    OBVIOUS
  <2>1. th[c] = NoMove /\ own[c] # None /\ claim[c] # None
    BY <1>6 DEF Reclaim, Ready
  <2>2. th' = [th EXCEPT ![c] = m] /\ UNCHANGED <<fileVars, own, claim>>
    BY <1>6, <2>0 DEF Reclaim, Moves
  <2>3. UNCHANGED <<next, first, last, count, own, claim, head>>
    BY <2>2 DEF fileVars
  <2>4. MoveShape(c, m) /\ ~Past(m) /\ ~Past(th[c]) /\ ~LateBoth(m)
    BY <2>0, <2>1 DEF MoveShape, Steps, Lists, Past, NoMove, LateBoth
  <2>5. MoveAt(c, m, M, e)'
    BY <2>0, <2>1, <2>3, <2>4 DEF MoveAt, ReclaimAt
  <2>6. QED BY <2>0, <1>1, <1>2, <2>2, <2>3, <2>4, <2>5, QuietStep
<1>7. CASE LockOuter(c)
  <2>0. PICK m : m = [th[c] EXCEPT !.at = "link", !.to = Destination(th[c])]
    OBVIOUS
  <2>1. th[c].at = "outer" /\ th[c].op \in {"get", "retire", "reclaim"}
    BY <1>1, <1>7 DEF LockOuter, At, MoveShape
  <2>2. th' = [th EXCEPT ![c] = m] /\ UNCHANGED <<fileVars, own, claim>>
    BY <1>1, <1>7, <2>0, ThreadFacts DEF LockOuter
  <2>3. UNCHANGED <<next, first, last, count, own, claim, head>>
    BY <2>2 DEF fileVars
  <2>4. /\ m.seg = th[c].seg /\ m.op = th[c].op /\ m.at = "link" /\ m.from = th[c].from
        /\ m.to = Destination(th[c])
    BY <1>1, <2>0 DEF MoveShape
  <2>5. m.op = "reclaim" /\ m.to = "emergency" => count < EmergencyCount
    BY <1>1, <2>1, <2>4 DEF MoveShape, Destination
  <2>6. MoveShape(c, m)
    BY <1>1, <2>0, <2>1 DEF MoveShape, Steps, Lists, Destination
  <2>7. ~Past(m) /\ ~Past(th[c]) /\ ~LateBoth(m) /\ ~Both(m)
    BY <2>1, <2>4 DEF Past, LateBoth, Both
  <2>8. MoveAt(c, m, M, e)'
    BY <1>1, <2>1, <2>3, <2>4, <2>6, <2>7 DEF MoveAt, GetAt, RetireAt, ReclaimAt
  <2>9. QED BY <1>1, <1>2, <2>2, <2>3, <2>4, <2>5, <2>6, <2>7, <2>8, QuietStep
<1>8. QED BY <1>3, <1>4, <1>5, <1>6, <1>7

(* Whoever has not yet recorded a list's last segment owns its mutex; so   *)
(* does whoever has appended to it, unless it is the emergency list.       *)
LEMMA Witnesses ==
    ASSUME NEW M, NEW r, NEW e, Facts(M, r, e), NEW u \in Threads, NEW l \in Lists
    PROVE  /\ lock[l] = u <=> MayHold(th[u], l)
           /\ LastsOff(u, l, M, e) => lock[l] = u
           /\ \A s : Tails(u, s, l) => lock[l] = u \/ (l = "emergency" /\ Late(th[u]))
           /\ \A s : Leaving(u, s, l) => lock[l] = u
<1>1. MoveShape(u, th[u]) /\ (lock[l] = u <=> MayHold(th[u], l))
  BY DEF Facts, LockInv
<1>2. LastsOff(u, l, M, e) => MayHold(th[u], l)
  BY <1>1 DEF LastsOff, MoveShape, MayHold
<1>3. \A s : Tails(u, s, l) => MayHold(th[u], l) \/ (l = "emergency" /\ Late(th[u]))
  BY <1>1 DEF Tails, MoveShape, MayHold, Cleans, Past, LateBoth, Late
<1>4. \A s : Leaving(u, s, l) => MayHold(th[u], l)
  BY <1>1 DEF Leaving, MoveShape, MayHold, Cleans, Both
<1>5. QED BY <1>1, <1>2, <1>3, <1>4

(* The moves of the others do not depend on lists that they have not       *)
(* locked, but for the segment of a late reclaim.                          *)
LEMMA OtherMove ==
    ASSUME NEW M, NEW r, NEW e, Facts(M, r, e), NEW u \in Threads,
           NEW M2, NEW e2,
           th'[u] = th[u],
           \A l \in Lists : lock[l] = u => first'[l] = first[l] /\ last'[l] = last[l] /\ e2[l] = e[l],
           u \in Cleaners => own'[u] = own[u] /\ claim'[u] = claim[u],
           th[u].op = "get" /\ Past(th[u]) => \A d \in Cleaners : own'[d] # th[u].seg,
           u = App => head' = head,
           LateBoth(th[u]) => th[u].seg \in M2["emergency"]
                              \/ (th[u].seg \in M2["cleaner"] /\ th[u].seg = e2["used"])
    PROVE  MoveAt(u, th[u], M2, e2)'
<1>1. MoveShape(u, th[u]) /\ MoveAt(u, th[u], M, e)
      /\ \A l \in Lists : lock[l] = u <=> MayHold(th[u], l)
  BY ThreadFacts, Witnesses
<1>2. "free" \in Lists /\ "used" \in Lists /\ "cleaner" \in Lists /\ "emergency" \in Lists
  BY DEF Lists
<1>3. th[u].op = "seal" => SealAt(th[u], M2, e2)'
  BY <1>1, <1>2 DEF MoveAt, SealAt, MoveShape, MayHold
<1>4. th[u].op = "take" => TakeAt(th[u])'
  BY <1>1, <1>2 DEF MoveAt, TakeAt, MoveShape, MayHold
<1>5. th[u].op = "get" => GetAt(u, th[u], e2)'
  <2>1. SUFFICES ASSUME th[u].op = "get" PROVE GetAt(u, th[u], e2)'
    OBVIOUS
  <2>2. u \in Cleaners /\ own'[u] = None
    BY <1>1, <2>1 DEF MoveAt, GetAt, MoveShape
  <2>3. Past(th[u]) => lock["cleaner"] = u
    BY <1>1, <1>2, <2>1 DEF MayHold, Past, MoveShape
  <2>4. Both(th[u]) => lock[th[u].from] = u /\ th[u].from \in Lists
    BY <1>1, <1>2, <2>1 DEF MayHold, Both, MoveShape
  <2>5. QED BY <1>1, <1>2, <2>1, <2>2, <2>3, <2>4 DEF MoveAt, GetAt
<1>6. th[u].op = "retire" => RetireAt(u, th[u], M2, e2)'
  <2>1. SUFFICES ASSUME th[u].op = "retire" PROVE RetireAt(u, th[u], M2, e2)'
    OBVIOUS
  <2>2. u \in Cleaners
    BY <1>1, <2>1 DEF MoveShape
  <2>3. Past(th[u]) => lock["used"] = u
    BY <1>1, <1>2, <2>1 DEF MayHold, Past, MoveShape
  <2>4. th[u].at \in {"bypass", "tail"} => lock["cleaner"] = u
    BY <1>1, <1>2, <2>1 DEF MayHold
  <2>5. QED BY <1>1, <1>2, <2>1, <2>2, <2>3, <2>4 DEF MoveAt, RetireAt
<1>7. th[u].op = "reclaim" => ReclaimAt(u, th[u], M2, e2)'
  <2>1. SUFFICES ASSUME th[u].op = "reclaim" PROVE ReclaimAt(u, th[u], M2, e2)'
    OBVIOUS
  <2>2. u \in Cleaners
    BY <1>1, <2>1 DEF MoveShape
  <2>3. Past(th[u]) /\ ~Late(th[u]) => lock[th[u].to] = u /\ th[u].to \in Lists
    BY <1>1, <1>2, <2>1 DEF MayHold, Past, Late, MoveShape
  <2>4. th[u].at \in {"bypass", "tail"} => lock["used"] = u
    BY <1>1, <1>2, <2>1 DEF MayHold
  <2>5. QED BY <1>1, <1>2, <2>1, <2>2, <2>3, <2>4 DEF MoveAt, ReclaimAt
<1>8. QED BY <1>3, <1>4, <1>5, <1>6, <1>7 DEF MoveAt

(* A thread that has linked its segment goes on without changing the       *)
(* chains: it records a last segment, or a count.                          *)
LEMMA HeldStep ==
    ASSUME NEW M, NEW r, NEW e, Facts(M, r, e), NEW t \in Threads, NEW n,
           th' = [th EXCEPT ![t] = n], MoveAt(t, n, M, e)',
           n.seg = th[t].seg, n.op = th[t].op, n.from = th[t].from, n.to = th[t].to,
           Past(th[t]), Past(n), Both(th[t]) => Both(n), Late(th[t]) => Late(n), th[t].op # "seal",
           th[t].op = "take" => n.at = "reset" /\ th[t].at = "tail",
           th[t].op = "retire" \/ th[t].op = "reclaim" =>
              (th[t].at \in {"tail", "reset"} <=> n.at \in {"tail", "reset"}),
           UNCHANGED <<next, first, head, own, claim>>,
           last' \in [Lists -> Segs \cup {None}], count' \in 0 .. EmergencyCount,
           \A l \in Lists : last'[l] = last[l] \/ lock[l] = t,
           \A l \in Lists : lock[l] = t => last'[l] = e[l] \/ LastsOff(t, l, M, e)',
           Counts(M)'
    PROVE  FileTypes' /\ Whole(M, r, e)'
<1>1. /\ \A u \in Threads \ {t} : th'[u] = th[u]
      /\ th'[t] = n
  BY ThreadFacts
<1>2. \A u \in Threads : MoveShape(u, th[u]) /\ MoveAt(u, th[u], M, e) /\ App \notin Cleaners
  BY ThreadFacts
<1>3. FileTypes'
  <2>1. \A u \in Threads : th'[u].seg \in Segs \cup {None}
    BY <1>1 DEF Facts, FileTypes
  <2>2. QED BY <2>1 DEF Facts, FileTypes
<1>4. GhostTypes(M, r, e)' /\ Lines(M, r, e)'
  BY DEF Facts, Whole, GhostTypes, Lines, Line
<1>5. Lasts(M, e)'
  <2>1. \A u \in Threads, l \in Lists : LastsOff(u, l, M, e) => lock[l] = u
    BY Witnesses
  <2>2. ASSUME NEW l \in Lists PROVE (last[l] = e[l] \/ \E u \in Threads : LastsOff(u, l, M, e))'
    <3>1. CASE lock[l] = t
      BY <3>1
    <3>2. CASE lock[l] # t
      <4>1. CASE last[l] = e[l]
        BY <3>2, <4>1
      <4>2. CASE \E u \in Threads : LastsOff(u, l, M, e)
        <5>1. PICK u \in Threads : LastsOff(u, l, M, e)
          BY <4>2
        <5>2. u # t /\ last'[l] = last[l] /\ th'[u] = th[u]
          BY <2>1, <3>2, <5>1, <1>1
        <5>3. QED BY <5>1, <5>2 DEF LastsOff
      <4>3. QED BY <4>1, <4>2 DEF Facts, Whole, Lasts
    <3>3. QED BY <3>1, <3>2
  <2>3. QED BY <2>2 DEF Lasts
<1>6. Clean(e)'
  <2>1. \A u \in Threads, s \in Segs, l \in Lists : Tails(u, s, l) => Tails(u, s, l)'
    <3>1. SUFFICES ASSUME NEW s \in Segs, NEW l \in Lists, Tails(t, s, l) PROVE Tails(t, s, l)'
      BY <1>1 DEF Tails
    <3>2. QED BY <1>1, <3>1 DEF Tails, Past, LateBoth, Late, Both, Cleans
  <2>2. \A l \in Lists : e[l] # None => e[l] \in Segs
    BY EndIn
  <2>3. QED BY <2>1, <2>2 DEF Facts, Whole, Clean
<1>7. Cover(M)' 
  <2>1. HeadSealed' <=> HeadSealed
    BY <1>1, <1>2, Names DEF HeadSealed, Past
  <2>2. QED BY <2>1 DEF Facts, Whole, Cover
<1>8. Apart(M)'
  <2>1. \A u \in Threads, s \in Segs, l \in Lists : Leaving(u, s, l) => Leaving(u, s, l)'
    <3>1. SUFFICES ASSUME NEW s \in Segs, NEW l \in Lists, Leaving(t, s, l) PROVE Leaving(t, s, l)'
      BY <1>1 DEF Leaving
    <3>2. QED BY <1>1, <3>1 DEF Leaving, Cleans
  <2>2. \A l \in Lists : M[l] \subseteq Segs
    BY EndIn
  <2>3. QED BY <2>1, <2>2 DEF Facts, Whole, Apart
<1>9. HeadApart(M)'
  <2>1. HeadSealed' <=> HeadSealed
    BY <1>1, <1>2, Names DEF HeadSealed, Past
  <2>2. th'[App] = th[App] \/ (t = App /\ th[t].op = "take" /\ th[t].at = "tail" /\ n.at = "reset")
    BY <1>1, <1>2, Names DEF MoveShape, Past
  <2>3. th[App].op = th'[App].op
    BY <1>1
  <2>4. QED BY <1>1, <2>1, <2>2, <2>3 DEF Facts, Whole, HeadApart
<1>10. Moving(M, e)'
  <2>1. ASSUME NEW u \in Threads, u # t PROVE MoveAt(u, th[u], M, e)'
    <3>1. \A l \in Lists : lock[l] = u => last'[l] = last[l]
      BY <2>1
    <3>2. LateBoth(th[u]) => th[u].seg \in M["emergency"]
                              \/ (th[u].seg \in M["cleaner"] /\ th[u].seg = e["used"])
      BY <1>2 DEF MoveAt, ReclaimAt, LateBoth, Late
    <3>3. th[u].op = "get" /\ Past(th[u]) => \A d \in Cleaners : own'[d] # th[u].seg
      BY <1>2 DEF MoveAt, GetAt
    <3>4. th'[u] = th[u]
      BY <1>1, <2>1
    <3>5. QED BY <3>1, <3>2, <3>3, <3>4, OtherMove
  <2>2. QED BY <1>1, <2>1 DEF Moving
<1>11. Owns(M)'
  BY <1>1, ThreadFacts DEF Facts, Whole, Owns
<1>12. Claims(M)'
  BY <1>1, ThreadFacts DEF Facts, Whole, Claims
<1>14. QED BY <1>3, <1>4, <1>5, <1>6, <1>7, <1>8, <1>9, <1>10, <1>11, <1>12 DEF Whole

(* The walk that looks for a segment stops at its predecessor.             *)
LEMMA PrevIs ==
    ASSUME NEW M, NEW r, NEW e, Facts(M, r, e), NEW l \in Lists, NEW s, s \in M[l], s # first[l]
    PROVE  Prev(l, s) \in M[l] \ {e[l]} /\ next[Prev(l, s)] = s /\ Prev(l, s) # s
<1> DEFINE c == Chain(first[l])
           S == M[l]
<1>0. /\ S \subseteq Segs /\ r[l] \in [Segs -> Nat] /\ first[l] \in Segs \cup {None}
      /\ Line(next, S, r[l], first[l], e[l]) /\ NextOK
  BY EndIn DEF Facts, FileTypes, NextOK
<1>1. PICK k \in 0 .. NSeg - 1 : Visits(first[l], e[l], S, k)
  <2> HIDE DEF S
  <2>1. S # {}
    BY DEF S
  <2>2. QED BY <1>0, <2>1, Walk
<1> HIDE DEF S
<1>2. NSeg \in Nat /\ None \notin Segs
  BY SegsFinite
<1>3. PICK j \in 0 .. k : c[j] = s
  BY <1>1 DEF Visits, S
<1>4. /\ c[0] = first[l]
      /\ \A i \in 0 .. NSeg - 1 : c[i + 1] = IF c[i] = None THEN None ELSE next[c[i]]
  BY <1>0, ChainFacts
<1>5. /\ c[k] = e[l] /\ \A i \in 0 .. k : c[i] \in S
      /\ \A i, n \in 0 .. k : i < n => c[i] # c[n]
  BY <1>1 DEF Visits
<1> DEFINE P(i) == c[i + 1] = s /\ \A n \in 1 .. i : c[n] # s
           q == CHOOSE i \in 0 .. NSeg - 1 : P(i)
<1> HIDE DEF c
<1>6. j # 0 /\ j \in Nat /\ j \in 1 .. k /\ j - 1 \in 0 .. NSeg - 1 /\ (j - 1) + 1 = j
      /\ j - 1 \in 0 .. k /\ k \in Nat
  BY <1>2, <1>3, <1>4
<1>7. P(j - 1)
  <2>1. ASSUME NEW n \in 1 .. j - 1 PROVE c[n] # s
    <3>1. n \in 0 .. k /\ n < j /\ j \in 0 .. k
      BY <1>6
    <3>2. QED BY <1>3, <1>5, <3>1
  <2>2. QED BY <1>3, <1>6, <2>1
<1>8. q \in 0 .. NSeg - 1 /\ P(q)
  <2> HIDE DEF P
  <2>1. QED BY <1>6, <1>7
<1>9. q = j - 1
  <2>1. CASE q < j - 1
    <3>1. q + 1 \in 0 .. k /\ q + 1 < j /\ j \in 0 .. k
      BY <1>6, <1>8, <2>1, <1>2
    <3>2. QED BY <1>3, <1>5, <1>8, <3>1
  <2>2. CASE j - 1 < q
    <3>1. j \in 1 .. q
      BY <1>6, <1>8, <2>2, <1>2
    <3>2. QED BY <1>3, <1>8, <3>1
  <2>3. QED BY <1>6, <1>8, <2>1, <2>2, <1>2
<1>10. c[j - 1] \in S /\ c[j - 1] # e[l]
  <2>1. j - 1 < k /\ k \in 0 .. k
    BY <1>6
  <2>2. QED BY <1>5, <1>6, <2>1
<1>11. next[c[j - 1]] = s /\ c[j - 1] # s
  <2>1. c[j - 1] # None
    BY <1>0, <1>2, <1>10
  <2>2. c[(j - 1) + 1] = next[c[j - 1]]
    BY <1>4, <1>6, <2>1
  <2>3. j - 1 < j /\ j \in 0 .. k
    BY <1>6
  <2>4. c[j - 1] # c[j]
    BY <1>5, <1>6, <2>3
  <2>5. QED BY <1>3, <1>6, <2>2, <2>4
<1> HIDE DEF q
<1>12. Prev(l, s) = c[q]
  BY DEF Prev, q, c
<1>13. QED BY <1>9, <1>10, <1>11, <1>12 DEF S

(* What is known of the last segment of a list, by who owns its mutex.     *)
LEMMA LastKnown ==
    ASSUME NEW M, NEW r, NEW e, Facts(M, r, e), NEW t \in Threads, NEW l \in Lists,
           lock[l] \in {None, t}
    PROVE  last[l] = e[l] \/ (lock[l] = t /\ LastsOff(t, l, M, e))
<1>1. \A u \in Threads : LastsOff(u, l, M, e) => lock[l] = u
  BY Witnesses
<1>2. QED BY <1>1, Names DEF Facts, Whole, Lasts

(* What is known of the last segment's successor.                          *)
LEMMA EndKnown ==
    ASSUME NEW M, NEW r, NEW e, Facts(M, r, e), NEW t \in Threads, NEW l \in Lists,
           lock[l] \in {None, t}, l # "emergency", e[l] # None
    PROVE  next[e[l]] = None \/ (lock[l] = t /\ Tails(t, e[l], l))
<1>1. \A u \in Threads : Tails(u, e[l], l) => lock[l] = u
  BY Witnesses
<1>2. QED BY <1>1, Names DEF Facts, Whole, Clean

(* The emergency list has a length.                                        *)
LEMMA EmergencySize ==
    ASSUME NEW M, NEW r, NEW e, Facts(M, r, e)
    PROVE  Cardinality(M["emergency"]) \in Nat /\ IsFiniteSet(M["emergency"])
<1>1. M["emergency"] \subseteq Segs
  BY EndIn DEF Lists
<1>2. QED BY <1>1, SegsFinite, FS_Subset, FS_CardinalityType

(* A step that leaves the emergency list and its count as they are.        *)
LEMMA CountsKept ==
    ASSUME NEW M, NEW r, NEW e, Facts(M, r, e), NEW t \in Threads, NEW n, NEW M2,
           th' = [th EXCEPT ![t] = n], count' = count, M2["emergency"] = M["emergency"],
           Refills(n) <=> Refills(th[t]), Drains(n) <=> Drains(th[t]),
           n.op = "reclaim" /\ n.to = "emergency" /\ n.at \in {"link", "last", "count"}
              => th[t].op = "reclaim" /\ th[t].to = "emergency" /\ th[t].at \in {"link", "last", "count"}
    PROVE  Counts(M2)'
<1>1. /\ \A u \in Threads \ {t} : th'[u] = th[u]
      /\ th'[t] = n
  BY ThreadFacts
<1>2. \A u \in Threads : Refills(th'[u]) <=> Refills(th[u])
  BY <1>1 
<1>3. \A u \in Threads : Drains(th'[u]) <=> Drains(th[u])
  BY <1>1 
<1>4. \A u \in Threads : th'[u].op = "reclaim" /\ th'[u].to = "emergency"
                          /\ th'[u].at \in {"link", "last", "count"} => count < EmergencyCount
  BY <1>1 DEF Facts, Whole, Counts
<1>5. /\ \A u \in Threads : Refills(th'[u]) => Cardinality(M2["emergency"]) = count' + 1
      /\ \A u \in Threads : Drains(th'[u]) => count' = Cardinality(M2["emergency"]) + 1
      /\ (\A u \in Threads : ~Refills(th'[u]) /\ ~Drains(th'[u])) => count' = Cardinality(M2["emergency"])
  BY <1>2, <1>3 DEF Facts, Whole, Counts
<1> HIDE DEF Refills, Drains
<1>6. QED BY <1>4, <1>5 DEF Counts

(* A cleaner records the new last segment of the list that it appends to.  *)
LEMMA SetLastCleaner ==
    ASSUME NEW M, NEW r, NEW e, Facts(M, r, e), NEW t \in Cleaners, SetLast(t)
    PROVE  FileTypes' /\ Whole(M, r, e)'
<1>0. t \in Threads /\ t # App
  BY Names
<1>1. /\ th[t].at = "last" /\ MoveShape(t, th[t]) /\ MoveAt(t, th[t], M, e)
      /\ th[t].seg \in Segs \cup {None} /\ None \notin Segs
  BY <1>0, ThreadFacts DEF SetLast, At
<1>2. th[t].op \in {"get", "retire", "reclaim"} /\ th[t].to \in Lists /\ th[t].from \in Lists
  BY <1>0, <1>1 DEF MoveShape
<1>3. PICK n : n = [th[t] EXCEPT !.at = IF th[t].op = "reclaim" /\ th[t].to = "emergency"
                                        THEN "count" ELSE "cut"]
  OBVIOUS
<1>4. /\ th' = [th EXCEPT ![t] = n]
      /\ last' = [last EXCEPT ![th[t].to] = th[t].seg]
      /\ UNCHANGED <<next, first, head, count, own, claim>>
  BY <1>2, <1>3 DEF SetLast, Goes
<1>5. /\ n.seg = th[t].seg /\ n.op = th[t].op /\ n.from = th[t].from /\ n.to = th[t].to
      /\ n.at = IF th[t].op = "reclaim" /\ th[t].to = "emergency" THEN "count" ELSE "cut"
  BY <1>1, <1>3 DEF MoveShape
<1>6. /\ Past(th[t]) /\ Past(n) /\ Both(n) /\ Both(th[t]) /\ ~Late(th[t]) /\ ~Late(n) /\ ~LateBoth(n)
      /\ e[th[t].to] = th[t].seg
  <2>1. Past(th[t]) /\ Past(n) /\ Both(n) /\ Both(th[t])
    BY <1>1, <1>2, <1>5 DEF Past, Both, MoveShape
  <2>2. ~Late(th[t]) /\ ~Late(n)
    BY <1>1, <1>5 DEF Late
  <2>3. e[th[t].to] = th[t].seg
    BY <1>1, <1>2, <2>1, <2>2 DEF MoveAt, GetAt, RetireAt, ReclaimAt, MoveShape
  <2>4. QED BY <2>1, <2>2, <2>3 DEF LateBoth
<1>7. MoveAt(t, n, M, e)'
  BY <1>1, <1>2, <1>4, <1>5, <1>6 DEF MoveAt, GetAt, RetireAt, ReclaimAt
<1>8. th[t].seg # None
  BY <1>1, <1>2, <1>6 DEF MoveAt, GetAt, RetireAt, ReclaimAt
<1>9. /\ last' \in [Lists -> Segs \cup {None}] /\ count' \in 0 .. EmergencyCount
  BY <1>1, <1>4 DEF Facts, FileTypes
<1>10. \A l \in Lists : last'[l] = last[l] \/ lock[l] = t
  <2>1. lock[th[t].to] = t
    BY <1>0, <1>1, <1>2, Witnesses DEF LastsOff
  <2>2. QED BY <1>4, <2>1 DEF Facts, FileTypes
<1>11. \A l \in Lists : lock[l] = t => last'[l] = e[l] \/ LastsOff(t, l, M, e)'
  <2>1. SUFFICES ASSUME NEW l \in Lists, lock[l] = t PROVE last'[l] = e[l]
    OBVIOUS
  <2>2. CASE l = th[t].to
    BY <1>4, <1>6, <2>2 DEF Facts, FileTypes
  <2>3. CASE l # th[t].to
    <3>1. last[l] = e[l] \/ LastsOff(t, l, M, e)
      BY <1>0, <2>1, LastKnown
    <3>2. last'[l] = last[l]
      BY <1>4, <2>3 DEF Facts, FileTypes
    <3>3. QED BY <1>1, <2>3, <3>1, <3>2 DEF LastsOff
  <2>4. QED BY <2>2, <2>3
<1>12. Counts(M)'
  <2>1. (Refills(n) <=> Refills(th[t])) /\ (Drains(n) <=> Drains(th[t]))
    BY <1>1, <1>2, <1>5 DEF Refills, Drains
  <2>2. QED BY <1>0, <1>1, <1>4, <1>5, <2>1, CountsKept
<1>13. QED BY <1>0, <1>1, <1>2, <1>4, <1>5, <1>6, <1>7, <1>9, <1>10, <1>11, <1>12, HeldStep

(* The emergency count follows the emergency list.                         *)
LEMMA RecountLists ==
    ASSUME NEW M, NEW r, NEW e, Facts(M, r, e), NEW t \in Cleaners, Recount(t)
    PROVE  FileTypes' /\ Whole(M, r, e)'
<1>0. t \in Threads /\ t # App /\ "emergency" \in Lists
  BY Names DEF Lists
<1>1. /\ th[t].at = "count" /\ MoveShape(t, th[t]) /\ MoveAt(t, th[t], M, e)
      /\ th[t].seg \in Segs \cup {None} /\ None \notin Segs
  BY <1>0, ThreadFacts DEF Recount, At
<1>2. /\ \/ th[t].op = "get" /\ th[t].from = "emergency"
         \/ th[t].op = "reclaim" /\ th[t].to = "emergency"
      /\ th[t].to \in Lists /\ th[t].from \in Lists
  BY <1>0, <1>1 DEF MoveShape
<1>3. PICK n : n = [th[t] EXCEPT !.at = IF th[t].op = "get" THEN "reset" ELSE "cut"]
  OBVIOUS
<1>4. /\ th' = [th EXCEPT ![t] = n]
      /\ UNCHANGED <<next, first, last, head, own, claim>>
      /\ count' = IF th[t].op = "get" THEN count - 1 ELSE count + 1
  BY <1>2, <1>3 DEF Recount, Goes
<1>5. /\ n.seg = th[t].seg /\ n.op = th[t].op /\ n.from = th[t].from /\ n.to = th[t].to
      /\ n.at = IF th[t].op = "get" THEN "reset" ELSE "cut"
  BY <1>1, <1>3 DEF MoveShape
<1>6. /\ Past(th[t]) /\ Past(n) /\ (Both(th[t]) => Both(n)) /\ ~Late(th[t])
      /\ (n.op = "get" => ~Both(n))
  BY <1>1, <1>5 DEF Past, Both, MoveShape, Late
<1>7. th[t].op = "reclaim" => e["emergency"] = th[t].seg /\ th[t].seg \in M["emergency"]
  <2>1. th[t].op = "reclaim" => e["emergency"] = th[t].seg /\ th[t].seg # None
    BY <1>1, <1>2, <1>6 DEF MoveAt, ReclaimAt
  <2>2. QED BY <1>0, <2>1, EndIn
<1>8. MoveAt(t, n, M, e)'
  BY <1>1, <1>2, <1>4, <1>5, <1>6, <1>7 DEF MoveAt, GetAt, ReclaimAt, LateBoth, Late
<1>9. lock["emergency"] = t
  BY <1>0, <1>1, <1>2, Witnesses DEF MayHold
<1>10. /\ th[t].op = "get" => count = Cardinality(M["emergency"]) + 1
       /\ th[t].op = "reclaim" => Cardinality(M["emergency"]) = count + 1 /\ count < EmergencyCount
  BY <1>0, <1>1, <1>2 DEF Facts, Whole, Counts, Refills, Drains
<1>11. count' = Cardinality(M["emergency"]) /\ count' \in 0 .. EmergencyCount
  <2>1. Cardinality(M["emergency"]) \in Nat /\ count \in 0 .. EmergencyCount /\ EmergencyCount \in Nat
    BY EmergencySize, ListsAssumption DEF Facts, FileTypes
  <2>2. QED BY <1>2, <1>4, <1>10, <2>1
<1>12. /\ \A u \in Threads \ {t} : th'[u] = th[u]
       /\ th'[t] = n
  BY <1>0, <1>4, ThreadFacts
<1>13. Counts(M)'
  <2>1. \A u \in Threads : ~Refills(th'[u]) /\ ~Drains(th'[u])
    <3>1. ~Refills(n) /\ ~Drains(n)
      BY <1>2, <1>5 DEF Refills, Drains
    <3>2. ASSUME NEW u \in Threads, u # t PROVE ~Refills(th[u]) /\ ~Drains(th[u])
      <4>1. Refills(th[u]) \/ Drains(th[u]) => MayHold(th[u], "emergency")
        BY DEF Refills, Drains, MayHold
      <4>2. QED BY <1>0, <1>9, <3>2, <4>1, Witnesses
    <3>3. QED BY <1>12, <3>1, <3>2
  <2>2. ASSUME NEW u \in Threads, th'[u].op = "reclaim", th'[u].to = "emergency",
               th'[u].at \in {"link", "last", "count"}
        PROVE  count' < EmergencyCount
    <3>1. u # t
      BY <1>2, <1>5, <1>12, <2>2
    <3>2. th[u] = th'[u] /\ count < EmergencyCount
      BY <1>12, <2>2, <3>1 DEF Facts, Whole, Counts
    <3>3. th[t].op # "reclaim"
      <4>1. "used" \in Lists /\ MayHold(th[u], "used")
        BY <2>2, <3>2 DEF Lists, MayHold
      <4>2. th[t].op = "reclaim" => MayHold(th[t], "used")
        BY <1>1 DEF MayHold
      <4>3. QED BY <1>0, <3>1, <4>1, <4>2, Holder DEF Facts
    <3>4. count \in 0 .. EmergencyCount /\ EmergencyCount \in Nat
      BY ListsAssumption DEF Facts, FileTypes
    <3>5. QED BY <1>2, <1>4, <3>2, <3>3, <3>4
  <2>3. \A u \in Threads : (~Refills(th[u]) /\ ~Drains(th[u]))'
    BY <2>1 DEF Refills, Drains
  <2>4. QED BY <1>11, <2>2, <2>3 DEF Counts
<1>14. last' \in [Lists -> Segs \cup {None}]
  BY <1>4 DEF Facts, FileTypes
<1>15. \A l \in Lists : lock[l] = t => last'[l] = e[l] \/ LastsOff(t, l, M, e)'
  <2>1. SUFFICES ASSUME NEW l \in Lists, lock[l] = t PROVE last[l] = e[l]
    BY <1>4
  <2>2. last[l] = e[l] \/ LastsOff(t, l, M, e)
    BY <1>0, <2>1, LastKnown
  <2>3. QED BY <1>1, <2>2 DEF LastsOff
<1>16. QED BY <1>0, <1>1, <1>2, <1>4, <1>5, <1>6, <1>8, <1>11, <1>13, <1>14, <1>15, HeldStep

(* The last segment of a list that has become empty is forgotten.          *)
LEMMA TailLists ==
    ASSUME NEW M, NEW r, NEW e, Facts(M, r, e), NEW t \in Threads, Tail(t)
    PROVE  FileTypes' /\ Whole(M, r, e)'
<1>1. /\ th[t].at = "tail" /\ MoveShape(t, th[t]) /\ MoveAt(t, th[t], M, e)
      /\ th[t].seg \in Segs \cup {None} /\ None \notin Segs
  BY ThreadFacts DEF Tail, At
<1>2. th[t].op \in {"take", "get", "retire", "reclaim"} /\ th[t].from \in Lists
  BY <1>1 DEF MoveShape
<1>3. PICK n : n = [th[t] EXCEPT !.at = IF th[t].op = "get" /\ th[t].from = "emergency"
                                        THEN "count" ELSE "reset"]
  OBVIOUS
<1>4. /\ th' = [th EXCEPT ![t] = n]
      /\ last' = IF first[th[t].from] = None THEN [last EXCEPT ![th[t].from] = None] ELSE last
      /\ UNCHANGED <<next, first, head, count, own, claim>>
  BY <1>2, <1>3 DEF Tail, Goes, Unlocks
<1>5. /\ n.seg = th[t].seg /\ n.op = th[t].op /\ n.from = th[t].from /\ n.to = th[t].to
      /\ n.at = IF th[t].op = "get" /\ th[t].from = "emergency" THEN "count" ELSE "reset"
  BY <1>1, <1>3 DEF MoveShape
<1>6. /\ Past(th[t]) /\ Past(n) /\ (Both(th[t]) => Both(n)) /\ (Late(th[t]) => Late(n)) /\ ~LateBoth(n)
      /\ (n.op = "get" => ~Both(n))
  BY <1>1, <1>5 DEF Past, Both, MoveShape, Late, LateBoth
<1>7. Late(n) <=> Late(th[t])
  BY <1>1, <1>2, <1>5 DEF Late
<1>8. MoveAt(t, n, M, e)'
  BY <1>1, <1>2, <1>4, <1>5, <1>6, <1>7 DEF MoveAt, TakeAt, GetAt, RetireAt, ReclaimAt
<1>9. /\ last' \in [Lists -> Segs \cup {None}] /\ count' \in 0 .. EmergencyCount
  BY <1>1, <1>4 DEF Facts, FileTypes
<1>10. \A l \in Lists : last'[l] = last[l] \/ lock[l] = t
  <2>1. lock[th[t].from] = t
    BY <1>1, <1>2, Witnesses DEF MayHold, MoveShape
  <2>2. QED BY <1>4, <2>1 DEF Facts, FileTypes
<1>11. \A l \in Lists : lock[l] = t => last'[l] = e[l] \/ LastsOff(t, l, M, e)'
  <2>1. SUFFICES ASSUME NEW l \in Lists, lock[l] = t PROVE last'[l] = e[l]
    OBVIOUS
  <2>2. first[l] = None => e[l] = None
    BY EndIn
  <2>3. last[l] = e[l] \/ LastsOff(t, l, M, e)
    BY <2>1, LastKnown
  <2>4. CASE l = th[t].from
    BY <1>1, <1>4, <2>2, <2>3, <2>4 DEF Facts, FileTypes, LastsOff
  <2>5. CASE l # th[t].from
    <3>1. last[l] = e[l]
      BY <1>1, <2>3, <2>5 DEF LastsOff
    <3>2. last'[l] = last[l]
      BY <1>4, <2>5 DEF Facts, FileTypes
    <3>3. QED BY <3>1, <3>2
  <2>6. QED BY <2>4, <2>5
<1>12. Counts(M)'
  <2>1. (Refills(n) <=> Refills(th[t])) /\ (Drains(n) <=> Drains(th[t]))
    BY <1>1, <1>2, <1>5 DEF Refills, Drains
  <2>2. n.op = "reclaim" => n.at = "reset"
    BY <1>5
  <2>3. QED BY <1>4, <1>5, <2>1, <2>2, CountsKept
<1>13. th[t].op = "take" => n.at = "reset" /\ th[t].at = "tail"
  BY <1>1, <1>5
<1>14. QED BY <1>1, <1>2, <1>4, <1>5, <1>6, <1>8, <1>9, <1>10, <1>11, <1>12, <1>13, HeldStep

(* A segment that is not the first of its list is about to be cut out.     *)
LEMMA CutOutMiddle ==
    ASSUME NEW M, NEW r, NEW e, Facts(M, r, e), NEW t \in Cleaners, CutOut(t),
           first[th[t].from] # th[t].seg
    PROVE  FileTypes' /\ Whole(M, r, e)'
<1>0. t \in Threads /\ t # App
  BY Names
<1>1. /\ th[t].at = "cut" /\ MoveShape(t, th[t]) /\ MoveAt(t, th[t], M, e)
      /\ th[t].seg \in Segs \cup {None} /\ None \notin Segs
      /\ th[t].op \in {"retire", "reclaim"}
  BY <1>0, ThreadFacts DEF CutOut, At
<1>2. th[t].from \in Lists
  BY <1>1 DEF MoveShape
<1>3. PICK n : n = [th[t] EXCEPT !.at = "bypass"]
  OBVIOUS
<1>4. /\ th' = [th EXCEPT ![t] = n]
      /\ last' = NewLast(th[t].from, th[t].seg)
      /\ UNCHANGED <<next, first, head, count, own, claim>>
  BY <1>2, <1>3 DEF CutOut, Goes
<1>5. /\ n.seg = th[t].seg /\ n.op = th[t].op /\ n.from = th[t].from /\ n.to = th[t].to
      /\ n.at = "bypass"
  BY <1>1, <1>3 DEF MoveShape
<1>6. /\ Past(th[t]) /\ Past(n) /\ Both(th[t]) /\ Both(n)
      /\ (Late(n) <=> Late(th[t])) /\ (LateBoth(n) <=> LateBoth(th[t]))
  BY <1>1, <1>5 DEF Past, Both, Late, LateBoth
<1>7. th[t].seg \in M[th[t].from]
  BY <1>1 DEF Facts, Whole, Owns, Claims, MoveShape, MoveAt, RetireAt, ReclaimAt
<1>8. lock[th[t].from] = t /\ last[th[t].from] = e[th[t].from]
  <2>1. lock[th[t].from] = t
    BY <1>0, <1>1, <1>2, Witnesses DEF MayHold, MoveShape
  <2>2. QED BY <1>0, <1>1, <1>2, <2>1, LastKnown DEF LastsOff
<1>9. e[th[t].from] = th[t].seg =>
          /\ last' = [last EXCEPT ![th[t].from] = Prev(th[t].from, th[t].seg)]
          /\ Prev(th[t].from, th[t].seg) \in M[th[t].from] \ {e[th[t].from]}
          /\ next[Prev(th[t].from, th[t].seg)] = th[t].seg
          /\ Prev(th[t].from, th[t].seg) \in Segs
  <2>1. /\ M[th[t].from] \subseteq Segs /\ r[th[t].from] \in [Segs -> Nat]
        /\ Line(next, M[th[t].from], r[th[t].from], first[th[t].from], e[th[t].from])
        /\ first[th[t].from] \in Segs \cup {None} /\ NextOK
    BY <1>2, EndIn DEF Facts, FileTypes, NextOK
  <2>2. /\ Prev(th[t].from, th[t].seg) \in M[th[t].from] \ {e[th[t].from]}
        /\ next[Prev(th[t].from, th[t].seg)] = th[t].seg
    BY <1>2, <1>7, PrevIs
  <2>3. QED BY <1>4, <1>8, <2>1, <2>2 DEF NewLast
<1>10. e[th[t].from] # th[t].seg => last' = last
  BY <1>4, <1>8 DEF NewLast
<1>11. MoveAt(t, n, M, e)'
  <2>1. th[t].op = "retire" => th[t].from = "cleaner"
    BY <1>1 DEF MoveShape
  <2>2. th[t].op = "reclaim" => th[t].from = "used"
    BY <1>1 DEF MoveShape
  <2>3. last'[th[t].from] # th[t].seg
    BY <1>2, <1>8, <1>9, <1>10 DEF Facts, FileTypes
  <2>4. QED BY <1>1, <1>4, <1>5, <1>6, <2>1, <2>2, <2>3 DEF MoveAt, RetireAt, ReclaimAt
<1>12. /\ last' \in [Lists -> Segs \cup {None}] /\ count' \in 0 .. EmergencyCount
  BY <1>1, <1>4, <1>9, <1>10 DEF Facts, FileTypes
<1>13. \A l \in Lists : l # th[t].from => last'[l] = last[l]
  BY <1>9, <1>10 DEF Facts, FileTypes
<1>14. \A l \in Lists : lock[l] = t => last'[l] = e[l] \/ LastsOff(t, l, M, e)'
  <2>1. SUFFICES ASSUME NEW l \in Lists, lock[l] = t PROVE last'[l] = e[l] \/ LastsOff(t, l, M, e)'
    OBVIOUS
  <2>2. last[l] = e[l]
    BY <1>0, <1>1, <2>1, LastKnown DEF LastsOff
  <2>3. CASE l = th[t].from /\ e[l] = th[t].seg
    <3>1. last'[l] = Prev(th[t].from, th[t].seg)
      BY <1>2, <1>9, <2>3 DEF Facts, FileTypes
    <3>2. th'[t] = n /\ next' = next
      BY <1>0, <1>4, ThreadFacts
    <3>3. QED BY <1>5, <1>9, <2>3, <3>1, <3>2 DEF LastsOff
  <2>4. CASE l # th[t].from \/ e[l] # th[t].seg
    BY <1>10, <1>13, <2>2, <2>4
  <2>5. QED BY <2>3, <2>4
<1>15. Counts(M)'
  <2>1. (Refills(n) <=> Refills(th[t])) /\ (Drains(n) <=> Drains(th[t]))
    BY <1>1, <1>5 DEF Refills, Drains
  <2>2. QED BY <1>0, <1>4, <1>5, <2>1, CountsKept
<1>16. QED BY <1>0, <1>1, <1>4, <1>5, <1>6, <1>11, <1>8, <1>12, <1>13, <1>14, <1>15, HeldStep

(* Where the segment of a late reclaim is, besides the used list.          *)
LEMMA LateSegment ==
    ASSUME NEW M, NEW r, NEW e, Facts(M, r, e), NEW u \in Threads, LateBoth(th[u])
    PROVE  /\ u \in Cleaners /\ th[u].op = "reclaim" /\ th[u].seg = claim[u] /\ th[u].seg \in Segs
           /\ th[u].seg \in M["used"] /\ lock["used"] = u
           /\ th[u].seg \in M["emergency"] \/ (th[u].seg \in M["cleaner"] /\ th[u].seg = e["used"])
<1>1. MoveShape(u, th[u]) /\ MoveAt(u, th[u], M, e) /\ th[u].op = "reclaim"
  BY ThreadFacts DEF LateBoth, Late
<1>2. /\ u \in Cleaners /\ th[u].seg = claim[u] /\ claim[u] # None
      /\ th[u].seg \in M["emergency"] \/ (th[u].seg \in M["cleaner"] /\ th[u].seg = e["used"])
  BY <1>1 DEF MoveShape, MoveAt, ReclaimAt
<1>3. th[u].seg \in M["used"]
  BY <1>1, <1>2 DEF Facts, Whole, Claims, LateBoth
<1>4. "used" \in Lists /\ MayHold(th[u], "used")
  BY <1>1 DEF MayHold, Lists, LateBoth
<1>5. QED BY <1>1, <1>2, <1>3, <1>4, Witnesses, EndIn

(* The sealed head becomes the last used segment.                          *)
LEMMA SetLastSeal ==
    ASSUME NEW M, NEW r, NEW e, Facts(M, r, e), SetLast(App)
    PROVE  FileTypes' /\ Whole(M, r, e)'
<1>0. App \in Threads /\ App \notin Cleaners /\ None \notin Segs /\ "used" \in Lists
  BY Names DEF Lists
<1>1. /\ th[App].at = "last" /\ MoveShape(App, th[App]) /\ MoveAt(App, th[App], M, e)
  BY <1>0, ThreadFacts DEF SetLast, At
<1>2. th[App].op = "seal" /\ th[App].to = "used" /\ th[App].seg = head /\ head # None
      /\ e["used"] = head
  BY <1>0, <1>1 DEF MoveShape, MoveAt, SealAt
<1>3. PICK n : n = [NoMove EXCEPT !.op = "take", !.at = "test"]
  OBVIOUS
<1>4. /\ th' = [th EXCEPT ![App] = n]
      /\ last' = [last EXCEPT !["used"] = head]
      /\ UNCHANGED <<next, first, head, count, own, claim>>
  BY <1>2, <1>3 DEF SetLast
<1>5. /\ n.op = "take" /\ n.at = "test" /\ n.seg = None /\ ~Cleans(n) /\ ~Past(n)
  BY <1>3 DEF NoMove, Cleans, Past
<1>6. /\ \A u \in Threads \ {App} : th'[u] = th[u]
      /\ th'[App] = n
  BY <1>0, <1>4, ThreadFacts
<1>7. lock["used"] = App
  BY <1>0, <1>1, <1>2, Witnesses DEF MayHold
<1>8. HeadSealed' /\ ~HeadSealed
  BY <1>2, <1>5, <1>6 DEF HeadSealed
<1>9. FileTypes'
  <2>1. \A u \in Threads : th'[u].seg \in Segs \cup {None}
    BY <1>5, <1>6 DEF Facts, FileTypes
  <2>2. last' \in [Lists -> Segs \cup {None}]
    BY <1>4 DEF Facts, FileTypes
  <2>3. QED BY <1>4, <2>1, <2>2 DEF Facts, FileTypes
<1>10. GhostTypes(M, r, e)' /\ Lines(M, r, e)'
  BY <1>4 DEF Facts, Whole, GhostTypes, Lines, Line
<1>11. Lasts(M, e)'
  <2>1. ASSUME NEW l \in Lists PROVE (last[l] = e[l] \/ \E u \in Threads : LastsOff(u, l, M, e))'
    <3>1. CASE l = "used"
      BY <1>2, <1>4, <3>1 DEF Facts, FileTypes
    <3>2. CASE l # "used"
      <4>1. last'[l] = last[l]
        BY <1>4, <3>2 DEF Facts, FileTypes
      <4>2. CASE last[l] = e[l]
        BY <4>1, <4>2
      <4>3. CASE \E u \in Threads : LastsOff(u, l, M, e)
        <5>1. PICK u \in Threads : LastsOff(u, l, M, e)
          BY <4>3
        <5>2. u # App
          BY <1>1, <1>2, <3>2, <5>1 DEF LastsOff
        <5>3. QED BY <1>4, <1>6, <4>1, <5>1, <5>2 DEF LastsOff
      <4>4. QED BY <4>2, <4>3 DEF Facts, Whole, Lasts
    <3>3. QED BY <3>1, <3>2
  <2>2. QED BY <2>1 DEF Lasts
<1>12. Clean(e)'
  <2>1. \A u \in Threads, s \in Segs, l \in Lists : Tails(u, s, l) => Tails(u, s, l)'
    <3>1. ~Cleans(th[App]) /\ ~LateBoth(th[App])
      BY <1>2 DEF Cleans, LateBoth, Late
    <3>2. QED BY <1>6, <3>1 DEF Tails
  <2>2. \A l \in Lists : e[l] # None => e[l] \in Segs
    BY EndIn
  <2>3. QED BY <1>4, <2>1, <2>2 DEF Facts, Whole, Clean
<1>13. Cover(M)'
  <2>1. head \in M["used"]
    BY <1>0, <1>2, EndIn
  <2>2. QED BY <1>0, <1>4, <2>1 DEF Facts, Whole, Cover
<1>14. Apart(M)'
  <2>1. \A u \in Threads, s \in Segs, l \in Lists : Leaving(u, s, l) => Leaving(u, s, l)'
    <3>1. ~Cleans(th[App])
      BY <1>2 DEF Cleans
    <3>2. QED BY <1>6, <3>1 DEF Leaving
  <2>2. \A l \in Lists : M[l] \subseteq Segs
    BY EndIn
  <2>3. QED BY <2>1, <2>2 DEF Facts, Whole, Apart
<1>15. HeadApart(M)'
  BY <1>5, <1>6, <1>8 DEF HeadApart
<1>16. Moving(M, e)'
  <2>1. ASSUME NEW u \in Threads, u # App PROVE MoveAt(u, th[u], M, e)'
    <3>1. \A l \in Lists : lock[l] = u => last'[l] = last[l]
      BY <1>4, <1>7, <2>1 DEF Facts, FileTypes
    <3>2. LateBoth(th[u]) => th[u].seg \in M["emergency"]
                              \/ (th[u].seg \in M["cleaner"] /\ th[u].seg = e["used"])
      BY LateSegment
    <3>3. th[u].op = "get" /\ Past(th[u]) => \A d \in Cleaners : own'[d] # th[u].seg
      BY <1>4, ThreadFacts DEF MoveAt, GetAt
    <3>4. th'[u] = th[u]
      BY <1>6, <2>1
    <3>5. QED BY <1>4, <2>1, <3>1, <3>2, <3>3, <3>4, OtherMove
  <2>2. MoveAt(App, n, M, e)'
    BY <1>5 DEF MoveAt, TakeAt
  <2>3. QED BY <1>6, <2>1, <2>2 DEF Moving
<1>17. Owns(M)' /\ Claims(M)'
  BY <1>0, <1>4, <1>6, Names DEF Facts, Whole, Owns, Claims
<1>18. Counts(M)'
  <2>1. (Refills(n) <=> Refills(th[App])) /\ (Drains(n) <=> Drains(th[App]))
    BY <1>2, <1>5 DEF Refills, Drains
  <2>2. QED BY <1>0, <1>4, <1>5, <2>1, CountsKept
<1>19. QED BY <1>9, <1>10, <1>11, <1>12, <1>13, <1>14, <1>15, <1>16, <1>17, <1>18 DEF Whole

(* A cleaner claims a used segment.                                        *)
LEMMA ClaimLists ==
    ASSUME NEW M, NEW r, NEW e, Facts(M, r, e), NEW c \in Cleaners, Claim(c)
    PROVE  FileTypes' /\ Whole(M, r, e)'
<1>1. c \in Threads /\ c # App /\ "used" \in Lists /\ None \notin Segs
  BY Names DEF Lists
<1>2. PICK s \in (IF lock["used"] = None THEN On(first["used"]) ELSE {first["used"]})
                 \ ({claim[d] : d \in Cleaners} \cup {None}) : claim' = [claim EXCEPT ![c] = s]
  BY DEF Claim
<1>3. th[c].op = "none" /\ claim[c] = None
      /\ UNCHANGED <<next, first, last, head, count, th, own>>
  BY DEF Claim, Ready, NoMove, fileVars
<1>4. s \in M["used"] /\ s \in Segs
  <2>1. CASE lock["used"] = None
    <3>1. M["used"] # {} => next[e["used"]] = None
      BY <1>1, <2>1, Names, EndIn, EndKnown
    <3>2. On(first["used"]) = M["used"]
      <4>1. /\ M["used"] \subseteq Segs /\ r["used"] \in [Segs -> Nat]
            /\ first["used"] \in Segs \cup {None}
            /\ Line(next, M["used"], r["used"], first["used"], e["used"]) /\ NextOK
        BY <1>1, EndIn DEF Facts, FileTypes, NextOK
      <4>2. QED BY <3>1, <4>1, Exactly
    <3>3. QED BY <1>1, <1>2, <2>1, <3>2, EndIn
  <2>2. CASE lock["used"] # None
    BY <1>1, <1>2, <2>2, EndIn
  <2>3. QED BY <2>1, <2>2
<1>5. \A d \in Cleaners : claim[d] # s
  BY <1>2
<1>6. s # None
  BY <1>2
<1>7. FileTypes'
  BY <1>2, <1>3, <1>4 DEF Facts, FileTypes
<1>8. claim'[c] = s /\ \A d \in Cleaners : d # c => claim'[d] = claim[d]
  BY <1>2 DEF Facts, FileTypes
<1>9. Claims(M)'
  BY <1>3, <1>4, <1>5, <1>8 DEF Facts, Whole, Claims
<1>10. Moving(M, e)'
  <2>1. ASSUME NEW u \in Threads PROVE MoveAt(u, th[u], M, e)'
    <3>1. CASE u = c
      BY <1>3, <3>1 DEF MoveAt
    <3>2. CASE u # c
      <4>1. th[u].op = "get" /\ Past(th[u]) => \A d \in Cleaners : own'[d] # th[u].seg
        BY <1>3, ThreadFacts DEF MoveAt, GetAt
      <4>2. QED BY <1>3, <1>8, <3>2, <4>1, LateSegment, OtherMove
    <3>3. QED BY <3>1, <3>2
  <2>2. QED BY <1>3, <2>1 DEF Moving
<1>11. /\ GhostTypes(M, r, e)' /\ Lines(M, r, e)' /\ Lasts(M, e)' /\ Clean(e)'
       /\ Cover(M)' /\ Apart(M)' /\ HeadApart(M)' /\ Owns(M)' /\ Counts(M)'
  <2>1. GhostTypes(M, r, e)' /\ Lines(M, r, e)' /\ Lasts(M, e)' /\ Clean(e)'
    BY <1>3 DEF Facts, Whole, GhostTypes, Lines, Line, Lasts, LastsOff, Clean, Tails, LateBoth, Late
  <2>2. Cover(M)' /\ Apart(M)' /\ HeadApart(M)'
    BY <1>3 DEF Facts, Whole, Cover, Apart, HeadApart, Leaving, HeadSealed
  <2>3. Owns(M)' /\ Counts(M)'
    BY <1>3 DEF Facts, Whole, Owns, Counts, Refills, Drains
  <2>4. QED BY <2>1, <2>2, <2>3
<1>12. QED BY <1>7, <1>9, <1>10, <1>11 DEF Whole

(* Two lists that nobody else is changing share no segment.                *)
LEMMA NotInTwo ==
    ASSUME NEW M, NEW r, NEW e, Facts(M, r, e), NEW t \in Threads, ~Both(th[t]),
           NEW l \in Lists, NEW k \in Lists, l # k,
           lock[l] \in {None, t}, lock[k] \in {None, t}, NEW s, s \in M[l], s \in M[k]
    PROVE  FALSE
<1>1. PICK u \in Threads : Leaving(u, s, l) \/ Leaving(u, s, k)
  BY DEF Facts, Whole, Apart
<1>2. Both(th[u]) /\ (lock[l] = u \/ lock[k] = u)
  BY <1>1, Witnesses DEF Leaving
<1>3. QED BY <1>2, Names

(* A segment of a list that nobody else is changing is in another list     *)
(* only if a late reclaim has not cut it out of the used list, and then it *)
(* is the last one there.                                                  *)
LEMMA Elsewhere ==
    ASSUME NEW M, NEW r, NEW e, Facts(M, r, e), NEW t \in Threads, ~Both(th[t]),
           NEW l \in Lists, NEW k \in Lists, l # k, l # "emergency",
           lock[l] \in {None, t}, NEW s, s \in M[l], s \in M[k]
    PROVE  /\ k = "used" /\ l = "cleaner" /\ s = e["used"]
           /\ \E u \in Threads : LateBoth(th[u]) /\ th[u].seg = s
<1>0. {"free", "used", "cleaner", "emergency"} = Lists
  BY DEF Lists
<1>1. \A u \in Threads : MayHold(th[u], l) => ~(th[u].seg = s /\ Both(th[u]))
  BY Witnesses, Names
<1>2. PICK u \in Threads : LateBoth(th[u]) /\ th[u].seg = s /\ k = "used"
  BY <1>1, Sole
<1>3. s \notin M["emergency"]
  <2>1. SUFFICES ASSUME s \in M["emergency"] PROVE FALSE
    OBVIOUS
  <2>2. \E v \in Threads : LateBoth(th[v]) /\ th[v].seg = s /\ "emergency" = "used"
    BY <1>0, <1>1, <2>1, Sole
  <2>3. QED BY <2>2
<1>4. s \in M["cleaner"] /\ s = e["used"]
  BY <1>2, <1>3, LateSegment
<1>5. l = "cleaner"
  <2>1. SUFFICES ASSUME l # "cleaner" PROVE FALSE
    OBVIOUS
  <2>2. \E v \in Threads : LateBoth(th[v]) /\ th[v].seg = s /\ "cleaner" = "used"
    BY <1>0, <1>1, <1>4, <2>1, Sole
  <2>3. QED BY <2>2
<1>6. QED BY <1>2, <1>4, <1>5

(* The first free segment becomes the head.                                *)
LEMMA LinkTake ==
    ASSUME NEW M, NEW r, NEW e, Facts(M, r, e), NEW t \in Threads, Link(t), Running',
           th[t].op = "take"
    PROVE  FileTypes' /\ Whole(M, r, e)'
<1>1. /\ th[t].at = "link" /\ MoveShape(t, th[t]) /\ MoveAt(t, th[t], M, e)
      /\ th[t].seg \in Segs \cup {None} /\ None \notin Segs
  BY ThreadFacts DEF Link, At
<1>2. t = App /\ App \notin Cleaners /\ th[t].from = "free" /\ "free" \in Lists
  BY <1>1, Names DEF MoveShape, Lists
<1>3. PICK n : n = [th[t] EXCEPT !.seg = first["free"], !.at = "cut"]
  OBVIOUS
<1>4. lock["free"] = None
  BY <1>2 DEF Link, LastLock
<1>5. /\ th' = [th EXCEPT ![t] = n] /\ head' = first["free"] /\ first["free"] # None
      /\ UNCHANGED <<next, first, last, count, own, claim>>
  BY <1>2, <1>3 DEF Link, Running
<1>6. /\ n.seg = first["free"] /\ n.op = "take" /\ n.from = "free" /\ n.at = "cut"
      /\ ~Cleans(n) 
  BY <1>1, <1>2, <1>3 DEF MoveShape, Cleans
<1>7. first["free"] \in M["free"] /\ first["free"] \in Segs
  BY <1>2, <1>5, EndIn
<1>8. /\ \A u \in Threads \ {t} : th'[u] = th[u]
      /\ th'[t] = n
  BY <1>5, ThreadFacts
<1>9. ~HeadSealed' /\ HeadSealed
  BY <1>1, <1>2, <1>6, <1>8 DEF HeadSealed
<1>10. FileTypes'
  <2>1. \A u \in Threads : th'[u].seg \in Segs \cup {None}
    BY <1>6, <1>7, <1>8 DEF Facts, FileTypes
  <2>2. QED BY <1>5, <1>7, <2>1 DEF Facts, FileTypes
<1>11. GhostTypes(M, r, e)' /\ Lines(M, r, e)'
  BY <1>5 DEF Facts, Whole, GhostTypes, Lines, Line
<1>12. ~Cleans(th[t]) /\ ~LateBoth(th[t]) /\ th[t].at \notin {"last", "tail", "bypass"}
  BY <1>1 DEF Cleans, LateBoth, Late
<1>13. Lasts(M, e)'
  <2>1. \A u \in Threads, l \in Lists : LastsOff(u, l, M, e) => LastsOff(u, l, M, e)'
    BY <1>5, <1>8, <1>12 DEF LastsOff
  <2>2. QED BY <1>5, <2>1 DEF Facts, Whole, Lasts
<1>14. Clean(e)'
  <2>1. \A u \in Threads, s \in Segs, l \in Lists : Tails(u, s, l) => Tails(u, s, l)'
    BY <1>8, <1>12 DEF Tails
  <2>2. \A l \in Lists : e[l] # None => e[l] \in Segs
    BY EndIn
  <2>3. QED BY <1>5, <2>1, <2>2 DEF Facts, Whole, Clean
<1>15. Cover(M)'
  BY <1>9 DEF Facts, Whole, Cover
<1>16. Apart(M)'
  <2>1. \A u \in Threads, s \in Segs, l \in Lists : Leaving(u, s, l) => Leaving(u, s, l)'
    BY <1>8, <1>12 DEF Leaving
  <2>2. \A l \in Lists : M[l] \subseteq Segs
    BY EndIn
  <2>3. QED BY <2>1, <2>2 DEF Facts, Whole, Apart
<1>17. HeadApart(M)'
  <2>1. ~Both(th[t])
    BY <1>1 DEF Both
  <2>2. \A l \in Lists : head' \in M[l] => l = "free"
    BY <1>2, <1>4, <1>5, <1>7, <2>1, Elsewhere
  <2>3. th'[App].op = "take" /\ th'[App].at = "cut"
    BY <1>2, <1>6, <1>8
  <2>4. QED BY <2>2, <2>3 DEF HeadApart
<1>18. Moving(M, e)'
  <2>1. ASSUME NEW u \in Threads, u # t PROVE MoveAt(u, th[u], M, e)'
    <3>1. th[u].op = "get" /\ Past(th[u]) => \A d \in Cleaners : own'[d] # th[u].seg
      BY <1>5, ThreadFacts DEF MoveAt, GetAt
    <3>2. th'[u] = th[u]
      BY <1>8, <2>1
    <3>3. QED BY <1>2, <1>5, <2>1, <3>1, <3>2, LateSegment, OtherMove
  <2>2. MoveAt(t, n, M, e)'
    BY <1>5, <1>6 DEF MoveAt, TakeAt
  <2>3. QED BY <1>8, <2>1, <2>2 DEF Moving
<1>19. Owns(M)' /\ Claims(M)'
  BY <1>2, <1>5, <1>8, Names DEF Facts, Whole, Owns, Claims
<1>20. Counts(M)'
  <2>1. (Refills(n) <=> Refills(th[t])) /\ (Drains(n) <=> Drains(th[t]))
    BY <1>1, <1>6 DEF Refills, Drains
  <2>2. QED BY <1>5, <1>6, <2>1, CountsKept
<1>21. QED BY <1>10, <1>11, <1>13, <1>14, <1>15, <1>16, <1>17, <1>18, <1>19, <1>20 DEF Whole

(* What Link finds and what it does.                                       *)
Appends(t, n, s, l, M, e) ==
    /\ l \in Lists /\ l = th[t].to /\ lock[l] \in {None, t}
    /\ s \in Segs /\ s \notin M[l]
    /\ th' = [th EXCEPT ![t] = n]
    /\ n.seg = s /\ n.op = th[t].op /\ n.from = th[t].from /\ n.to = l /\ n.at = "last"
    /\ th[t].at = "link"
    /\ M[l] = {} => first' = [first EXCEPT ![l] = s] /\ next' = next
    /\ M[l] # {} => first' = first /\ next' = [next EXCEPT ![e[l]] = s]
    /\ UNCHANGED <<last, head, count, own, claim>>
    /\ t = App => th[t].op = "seal" /\ s = head /\ \A k \in Lists : s \notin M[k]
    /\ t # App => /\ t \in Cleaners /\ th[t].op \in {"get", "retire", "reclaim"}
                  /\ th[t].from \in Lists \ {l} /\ lock[th[t].from] \in {None, t} /\ s \in M[th[t].from]
    /\ th[t].op = "get" => lock["cleaner"] = t /\ l = "cleaner" /\ first[th[t].from] = s
    /\ th[t].op = "retire" => lock["cleaner"] = t /\ l = "used" /\ s = own[t] /\ claim[t] # None
    /\ th[t].op = "reclaim" => lock["used"] = t /\ s = claim[t] /\ own[t] # None

(* The first store of a move, when it appends to a list.                   *)
LEMMA LinkAppends ==
    ASSUME NEW M, NEW r, NEW e, Facts(M, r, e), NEW t \in Threads, Link(t), Running',
           th[t].op # "take"
    PROVE  \E n, s, l : Appends(t, n, s, l, M, e)
<1>1. /\ th[t].at = "link" /\ MoveShape(t, th[t]) /\ MoveAt(t, th[t], M, e)
      /\ th[t].seg \in Segs \cup {None} /\ None \notin Segs
      /\ lock[LastLock(th[t])] = None
  BY ThreadFacts DEF Link, At
<1>2. /\ th[t].op \in {"seal", "get", "retire", "reclaim"} /\ th[t].from \in Lists /\ th[t].to \in Lists
      /\ t = App <=> th[t].op = "seal"
      /\ t # App => t \in Cleaners /\ th[t].from # th[t].to
  BY <1>1, Names DEF MoveShape
<1>3. /\ th[t].op = "seal" => lock["used"] = None /\ th[t].to = "used"
      /\ th[t].op = "get" => /\ lock["cleaner"] = t /\ lock[th[t].from] = None
                             /\ th[t].to = "cleaner" /\ th[t].from # "cleaner"
      /\ th[t].op = "retire" => /\ lock["cleaner"] = t /\ lock["used"] = None
                                /\ th[t].to = "used" /\ th[t].from = "cleaner"
      /\ th[t].op = "reclaim" => /\ lock["used"] = t /\ lock[th[t].to] = None
                                 /\ th[t].to # "used" /\ th[t].from = "used"
  BY <1>1, Witnesses DEF LastLock, LockOrder, MayHold, MoveShape, Lists
<1>4. PICK l : l = th[t].to
  OBVIOUS
<1>5. PICK s : s = IF th[t].op = "get" THEN first[th[t].from] ELSE th[t].seg
  OBVIOUS
<1>6. PICK n : n = [th[t] EXCEPT !.seg = s, !.at = "last"]
  OBVIOUS
<1>7. lock[l] \in {None, t} /\ (t # App => lock[th[t].from] \in {None, t})
  BY <1>2, <1>3, <1>4
<1>8. ~Both(th[t]) /\ ~Past(th[t])
  BY <1>1 DEF Both, Past
<1>9. last[l] = e[l]
  BY <1>1, <1>2, <1>4, <1>7, LastKnown DEF LastsOff
<1>10. /\ s # None
       /\ th' = [th EXCEPT ![t] = n]
       /\ e[l] = None => first' = [first EXCEPT ![l] = s] /\ next' = next
       /\ e[l] # None => first' = first /\ next' = [next EXCEPT ![e[l]] = s]
       /\ UNCHANGED <<last, head, count, own, claim>>
  BY <1>2, <1>4, <1>5, <1>6, <1>9 DEF Link, Running
<1>11. e[l] = None <=> M[l] = {}
  BY <1>2, <1>4, EndIn
<1>12. t # App => s \in M[th[t].from] /\ s \in Segs
  <2>1. th[t].op = "get" => s \in M[th[t].from]
    BY <1>2, <1>5, <1>10, EndIn
  <2>2. th[t].op = "retire" => s \in M[th[t].from]
    BY <1>1, <1>2, <1>3, <1>5 DEF Facts, Whole, Owns, MoveAt, RetireAt
  <2>3. th[t].op = "reclaim" => s \in M[th[t].from]
    BY <1>1, <1>2, <1>3, <1>5 DEF Facts, Whole, Claims, MoveAt, ReclaimAt
  <2>4. QED BY <1>2, <2>1, <2>2, <2>3, EndIn
<1>13. t = App => s = head /\ s \in Segs /\ \A k \in Lists : s \notin M[k]
  BY <1>1, <1>2, <1>5, <1>10 DEF MoveAt, SealAt, Facts, Whole, HeadApart, HeadSealed, FileTypes
<1>14. s \notin M[l]
  BY <1>2, <1>4, <1>7, <1>8, <1>12, <1>13, NotInTwo
<1>15. /\ n.seg = s /\ n.op = th[t].op /\ n.from = th[t].from /\ n.to = l /\ n.at = "last"
  BY <1>1, <1>4, <1>6 DEF MoveShape
<1>16. /\ th[t].op = "retire" => s = own[t] /\ claim[t] # None
       /\ th[t].op = "reclaim" => s = claim[t] /\ own[t] # None
  BY <1>1, <1>5 DEF MoveAt, RetireAt, ReclaimAt
<1>17. Appends(t, n, s, l, M, e)
  BY <1>1, <1>2, <1>3, <1>4, <1>5, <1>7, <1>10, <1>11, <1>12, <1>13, <1>14, <1>15, <1>16 DEF Appends
<1>18. QED BY <1>17

Appended(M, e, M2, r2, e2, l, s, t) ==
    /\ GhostTypes(M2, r2, e2) /\ Lines(M2, r2, e2)'
    /\ \A k \in Lists \ {l} : M2[k] = M[k] /\ e2[k] = e[k]
    /\ \A k \in Lists \ {l} : /\ first'[k] = first[k] /\ last'[k] = last[k]
                              /\ \A x \in M[k] \ {e[k]} : next'[x] = next[x]
    /\ M2[l] = M[l] \cup {s} /\ e2[l] = s
    /\ \A k \in Lists \ {l} : e[k] # None /\ next'[e[k]] # next[e[k]] =>
          \E u \in Threads : u # t /\ LateBoth(th[u]) /\ th[u].seg = e[k] /\ k = "used"
    /\ \A k \in Lists : M[k] \subseteq M2[k]

(* The chains after a segment has been appended: those of the other lists  *)
(* do not go through the old last segment, unless they end with it.        *)
LEMMA AppendLines ==
    ASSUME NEW M, NEW r, NEW e, Facts(M, r, e), NEW t \in Threads, NEW n, NEW s, NEW l,
           Appends(t, n, s, l, M, e), NEW M2, NEW r2, NEW e2,
           M2 = [M EXCEPT ![l] = @ \cup {s}], e2 = [e EXCEPT ![l] = s],
           r2 = [r EXCEPT ![l] = [r[l] EXCEPT ![s] = IF M[l] = {} THEN 0 ELSE r[l][e[l]] + 1]]
    PROVE  Appended(M, e, M2, r2, e2, l, s, t)
<1>1. /\ GhostTypes(M, r, e) /\ Lines(M, r, e)
      /\ next \in [Segs -> Segs \cup {None}] /\ first \in [Lists -> Segs \cup {None}]
  BY DEF Facts, Whole, FileTypes
<1>2. /\ l \in Lists /\ s \in Segs /\ s \notin M[l] /\ lock[l] \in {None, t} /\ ~Both(th[t])
      /\ M[l] = {} => first' = [first EXCEPT ![l] = s] /\ next' = next
      /\ M[l] # {} => first' = first /\ next' = [next EXCEPT ![e[l]] = s]
      /\ last' = last
  BY DEF Appends, Both
<1>3. M2[l] = M[l] \cup {s} /\ e2[l] = s /\ r2[l] = [r[l] EXCEPT ![s] = IF M[l] = {} THEN 0 ELSE r[l][e[l]] + 1]
      /\ \A k \in Lists \ {l} : M2[k] = M[k] /\ r2[k] = r[k] /\ e2[k] = e[k]
  BY <1>1, <1>2 DEF GhostTypes
<1>4. M[l] # {} => e[l] \in M[l] /\ e[l] \in Segs
  BY <1>2, EndIn
<1>5. GhostTypes(M2, r2, e2)
  <2>1. M2[l] \in SUBSET Segs /\ e2[l] \in Segs \cup {None} /\ r2[l] \in [Segs -> Nat]
    BY <1>1, <1>2, <1>3, <1>4 DEF GhostTypes
  <2>2. QED BY <1>1, <1>2, <2>1 DEF GhostTypes
<1>6. \A k \in Lists \ {l} : M[l] # {} /\ e[l] \in M[k] =>
         /\ e[l] = e[k] /\ k = "used"
         /\ \E u \in Threads : u # t /\ LateBoth(th[u]) /\ th[u].seg = e[k]
  <2>1. SUFFICES ASSUME NEW k \in Lists \ {l}, M[l] # {}, e[l] \in M[k]
        PROVE  /\ e[l] = e[k] /\ k = "used"
               /\ \E u \in Threads : u # t /\ LateBoth(th[u]) /\ th[u].seg = e[k]
    OBVIOUS
  <2>2. l # "emergency"
    <3>1. SUFFICES ASSUME l = "emergency" PROVE FALSE
      OBVIOUS
    <3>2. t \in Cleaners /\ th[t].op = "reclaim" /\ lock["used"] = t
      BY <3>1, ThreadFacts DEF Appends, MoveShape
    <3>3. PICK u \in Threads : LateBoth(th[u]) /\ k = "used"
      <4>1. \A u \in Threads : MayHold(th[u], l) => ~(th[u].seg = e[l] /\ Both(th[u]))
        BY <1>2, Witnesses, Names
      <4>2. QED BY <1>2, <1>4, <2>1, <4>1, Sole
    <3>4. lock["used"] = u
      BY <3>3, LateSegment
    <3>5. QED BY <1>2, <3>2, <3>3, <3>4 DEF LateBoth, Both
  <2>3. QED BY <1>2, <1>4, <2>1, <2>2, Elsewhere DEF LateBoth, Both
<1>7. \A k \in Lists \ {l} : first'[k] = first[k] /\ last'[k] = last[k]
  BY <1>1, <1>2
<1>8. \A k \in Lists \ {l} : \A x \in M[k] \ {e[k]} : next'[x] = next[x]
  <2>1. \A k \in Lists : M[k] \subseteq Segs
    BY EndIn
  <2>2. QED BY <1>1, <1>2, <1>6, <2>1
<1>9. \A k \in Lists \ {l} : e[k] # None /\ next'[e[k]] # next[e[k]] =>
                 \E u \in Threads : u # t /\ LateBoth(th[u]) /\ th[u].seg = e[k] /\ k = "used"
  <2>1. \A k \in Lists : e[k] # None => e[k] \in M[k] /\ e[k] \in Segs
    BY EndIn
  <2>2. QED BY <1>1, <1>2, <1>6, <2>1
<1>10. Lines(M2, r2, e2)'
  <2>1. SUFFICES ASSUME NEW k \in Lists PROVE Line(next, M2[k], r2[k], first[k], e2[k])'
    BY DEF Lines
  <2>2. CASE k # l
    <3>1. Line(next, M[k], r[k], first[k], e[k])
      BY <1>1 DEF Lines
    <3>2. Line(next', M[k], r[k], first[k], e[k])
      BY <1>8, <2>2, <3>1, LineKept
    <3>3. QED BY <1>3, <1>7, <2>2, <3>2 DEF Line
  <2>3. CASE k = l
    <3>1. M[l] \subseteq Segs /\ r[l] \in [Segs -> Nat] /\ Line(next, M[l], r[l], first[l], e[l])
      BY <1>2, EndIn
    <3>2. /\ M[l] = {} => first'[l] = s
          /\ M[l] # {} => first'[l] = first[l] /\ next'[e[l]] = s /\ \A u \in M[l] \ {e[l]} : next'[u] = next[u]
      BY <1>1, <1>2, <1>4, <3>1
    <3>3. Line(next', M[l] \cup {s}, [r[l] EXCEPT ![s] = IF M[l] = {} THEN 0 ELSE r[l][e[l]] + 1], first'[l], s)
      BY <1>2, <3>1, <3>2, LineAppend
    <3>4. QED BY <1>3, <2>3, <3>3 DEF Line
  <2>4. QED BY <2>2, <2>3
<1>11. QED BY <1>3, <1>5, <1>7, <1>8, <1>9, <1>10 DEF Appended

(* The lists are whole with the segment appended: it is in two of them.    *)
LEMMA AppendLists ==
    ASSUME NEW M, NEW r, NEW e, Facts(M, r, e), NEW t \in Threads, NEW n, NEW s, NEW l,
           Appends(t, n, s, l, M, e), MoveShape(t, th[t])
    PROVE  FileTypes' /\ \E M2, r2, e2 : Whole(M2, r2, e2)'
<1>1. PICK M2, r2, e2 :
         /\ M2 = [M EXCEPT ![l] = @ \cup {s}] /\ e2 = [e EXCEPT ![l] = s]
         /\ r2 = [r EXCEPT ![l] = [r[l] EXCEPT ![s] = IF M[l] = {} THEN 0 ELSE r[l][e[l]] + 1]]
  OBVIOUS
<1>2. /\ l \in Lists /\ l = th[t].to /\ lock[l] \in {None, t}
      /\ s \in Segs /\ s # None /\ s \notin M[l] /\ th[t].at = "link"
      /\ n.seg = s /\ n.op = th[t].op /\ n.from = th[t].from /\ n.to = l /\ n.at = "last"
      /\ UNCHANGED <<last, head, count, own, claim>>
      /\ t = App => th[t].op = "seal" /\ s = head /\ \A k \in Lists : s \notin M[k]
      /\ t # App => /\ t \in Cleaners /\ th[t].op \in {"get", "retire", "reclaim"}
                    /\ th[t].from \in Lists \ {l} /\ lock[th[t].from] \in {None, t} /\ s \in M[th[t].from]
  BY SegsFinite DEF Appends
<1>3. /\ ~Past(th[t]) /\ ~Both(th[t]) /\ Past(n) /\ Both(n) /\ ~Late(n) /\ ~LateBoth(n)
      /\ ~LateBoth(th[t])
  BY <1>2 DEF Past, Both, Late, LateBoth
<1>4. /\ \A u \in Threads \ {t} : th'[u] = th[u]
      /\ th'[t] = n
  BY ThreadFacts DEF Appends
<1>5. /\ GhostTypes(M2, r2, e2) /\ Lines(M2, r2, e2)'
      /\ \A k \in Lists \ {l} : /\ M2[k] = M[k] /\ e2[k] = e[k]
                                /\ first'[k] = first[k] /\ last'[k] = last[k]
                                /\ \A x \in M[k] \ {e[k]} : next'[x] = next[x]
      /\ M2[l] = M[l] \cup {s} /\ e2[l] = s
      /\ \A k \in Lists \ {l} : e[k] # None /\ next'[e[k]] # next[e[k]] =>
            \E u \in Threads : u # t /\ LateBoth(th[u]) /\ th[u].seg = e[k] /\ k = "used"
      /\ \A k \in Lists : M[k] \subseteq M2[k]
  <2>1. Appended(M, e, M2, r2, e2, l, s, t)
    BY <1>1, AppendLines
  <2>2. QED BY <2>1 DEF Appended
<1>6. HeadSealed' <=> HeadSealed
  BY <1>2, <1>4, Names DEF HeadSealed
<1>7. FileTypes'
  <2>1. \A u \in Threads : th'[u].seg \in Segs \cup {None}
    BY <1>2, <1>4 DEF Facts, FileTypes
  <2>2. e[l] \in Segs \cup {None}
    BY <1>2, EndIn
  <2>3. next' \in [Segs -> Segs \cup {None}] /\ first' \in [Lists -> Segs \cup {None}]
    BY <1>2, <2>2 DEF Facts, FileTypes, Appends
  <2>4. QED BY <1>2, <2>1, <2>3 DEF Facts, FileTypes
<1>8. Lasts(M2, e2)'
  <2>1. SUFFICES ASSUME NEW k \in Lists PROVE (last[k] = e2[k] \/ \E u \in Threads : LastsOff(u, k, M2, e2))'
    BY DEF Lasts
  <2>2. CASE k = l
    BY <1>2, <1>4, <2>2 DEF LastsOff
  <2>3. CASE k # l
    <3>1. CASE last[k] = e[k]
      BY <1>5, <2>3, <3>1
    <3>2. CASE \E u \in Threads : LastsOff(u, k, M, e)
      <4>1. PICK u \in Threads : LastsOff(u, k, M, e)
        BY <3>2
      <4>2. u # t
        BY <1>2, <4>1 DEF LastsOff
      <4>3. QED BY <1>4, <1>5, <2>3, <4>1, <4>2 DEF LastsOff
    <3>3. QED BY <3>1, <3>2 DEF Facts, Whole, Lasts
  <2>4. QED BY <2>2, <2>3
<1>9. Clean(e2)'
  <2>0. \A u \in Threads, x \in Segs, k \in Lists : Tails(u, x, k) => u # t /\ Tails(u, x, k)'
    BY <1>3, <1>4 DEF Tails
  <2>1. SUFFICES ASSUME NEW k \in Lists, e2[k] # None
                 PROVE (next[e2[k]] = None \/ \E u \in Threads : Tails(u, e2[k], k))'
    BY DEF Clean
  <2>2. CASE k = l
    <3>1. CASE t = App
      <4>1. th[App].op = "seal" /\ s = head /\ head # None /\ next[head] = None
        BY <1>2, <3>1 DEF Facts, Whole, HeadApart
      <4>2. M[l] # {} => e[l] # head
        BY <1>2, <4>1, EndIn
      <4>3. next'[head] = next[head]
        BY <1>2, <3>1, <4>1, <4>2 DEF Appends, Facts, FileTypes
      <4>4. QED BY <1>2, <1>5, <2>2, <3>1, <4>1, <4>3
    <3>2. CASE t # App
      BY <1>2, <1>3, <1>4, <1>5, <2>2, <3>2 DEF Tails, Cleans
    <3>3. QED BY <3>1, <3>2
  <2>3. CASE k # l
    <3>0. e2[k] = e[k] /\ e[k] \in Segs
      BY <1>5, <2>1, <2>3, EndIn
    <3>1. CASE next'[e[k]] = next[e[k]]
      BY <2>0, <2>1, <3>0, <3>1 DEF Facts, Whole, Clean
    <3>2. CASE next'[e[k]] # next[e[k]]
      BY <1>4, <1>5, <2>1, <2>3, <3>0, <3>2 DEF Tails
    <3>3. QED BY <3>1, <3>2
  <2>4. QED BY <2>2, <2>3
<1>10. Cover(M2)'
  BY <1>2, <1>5, <1>6 DEF Facts, Whole, Cover
<1>11. Apart(M2)'
  <2>0. \A u \in Threads, x \in Segs, k \in Lists : Leaving(u, x, k) => u # t /\ Leaving(u, x, k)'
    BY <1>3, <1>4 DEF Leaving
  <2>1. ASSUME NEW k \in Lists, k # l, s \in M[k]
        PROVE  \E u \in Threads : Leaving(u, s, k)'
    <3>1. t # App
      BY <1>2, <2>1
    <3>2. CASE k = th[t].from
      BY <1>2, <1>3, <1>4, <3>1, <3>2 DEF Leaving, Cleans
    <3>3. CASE k # th[t].from
      <4>1. PICK u \in Threads : Leaving(u, s, k) \/ Leaving(u, s, th[t].from)
        BY <1>2, <2>1, <3>1, <3>3 DEF Facts, Whole, Apart
      <4>2. ~Leaving(u, s, th[t].from)
        BY <1>2, <1>3, <3>1, Witnesses, Names DEF Leaving
      <4>3. QED BY <1>2, <2>0, <2>1, <4>1, <4>2
    <3>4. QED BY <3>2, <3>3
  <2>2. ASSUME NEW j \in Lists, NEW k \in Lists, NEW x \in M2[j], j # k, x \in M2[k]
        PROVE  \E u \in Threads : (Leaving(u, x, j) \/ Leaving(u, x, k))'
    <3>1. CASE x \in M[j] /\ x \in M[k]
      <4>1. PICK u \in Threads : Leaving(u, x, j) \/ Leaving(u, x, k)
        BY <2>2, <3>1 DEF Facts, Whole, Apart
      <4>2. x \in Segs
        BY <3>1, EndIn
      <4>3. QED BY <2>0, <4>1, <4>2
    <3>2. CASE ~(x \in M[j] /\ x \in M[k])
      <4>1. x = s /\ (j = l \/ k = l)
        BY <1>5, <2>2, <3>2
      <4>2. QED BY <1>5, <2>1, <2>2, <4>1
    <3>3. QED BY <3>1, <3>2
  <2>3. QED BY <2>2 DEF Apart
<1>12. HeadApart(M2)'
  <2>1. ASSUME NEW k \in Lists, head # None, head \in M2[k]
        PROVE  (\/ HeadSealed
                \/ th[App].op = "seal" /\ th[App].at = "last" /\ k = "used"
                \/ th[App].op = "take" /\ th[App].at = "cut" /\ k = "free")'
    <3>1. CASE t = App
      <4>1. k = l
        BY <1>2, <1>5, <2>1, <3>1
      <4>2. l = "used"
        BY <1>2, <3>1, ThreadFacts DEF MoveShape
      <4>3. QED BY <1>2, <1>4, <3>1, <4>1, <4>2
    <3>2. CASE t # App
      <4>0. th'[App] = th[App]
        BY <1>4, <3>2, Names
      <4>1. CASE head \in M[k]
        BY <1>6, <2>1, <4>0, <4>1 DEF Facts, Whole, HeadApart
      <4>2. CASE head \notin M[k]
        <5>1. k = l /\ head = s /\ head \in M[th[t].from]
          BY <1>2, <1>5, <2>1, <3>2, <4>2
        <5>2. \/ HeadSealed
              \/ th[App].op = "seal" /\ th[App].at = "last" /\ th[t].from = "used"
              \/ th[App].op = "take" /\ th[App].at = "cut" /\ th[t].from = "free"
          BY <1>2, <2>1, <3>2, <5>1 DEF Facts, Whole, HeadApart
        <5>3. /\ th[App].op = "seal" /\ th[App].at = "last" => lock["used"] = App
              /\ th[App].op = "take" /\ th[App].at = "cut" => lock["free"] = App
          BY Names, Witnesses DEF MayHold, Lists
        <5>4. HeadSealed
          BY <1>2, <3>2, <5>2, <5>3, Names
        <5>5. QED BY <1>6, <5>4
      <4>3. QED BY <4>1, <4>2
    <3>3. QED BY <3>1, <3>2
  <2>2. head # None /\ th'[App].op \in {"none", "seal"} => next'[head] = None
    <3>1. SUFFICES ASSUME head # None, th'[App].op \in {"none", "seal"} PROVE next'[head] = None
      OBVIOUS
    <3>2. th[App].op \in {"none", "seal"} /\ next[head] = None /\ ~HeadSealed /\ head \in Segs
      <4>1. th[App].op \in {"none", "seal"}
        BY <1>2, <1>4, <3>1, Names
      <4>2. QED BY <3>1, <4>1 DEF Facts, Whole, HeadApart, HeadSealed, FileTypes
    <3>3. M[l] # {} => e[l] # head
      <4>1. SUFFICES ASSUME head \in M[l] PROVE FALSE
        BY <1>2, EndIn
      <4>2. th[App].op = "seal" /\ th[App].at = "last" /\ l = "used"
        BY <1>2, <3>1, <3>2, <4>1 DEF Facts, Whole, HeadApart
      <4>3. lock["used"] = App
        BY <1>2, <4>2, Names, Witnesses DEF MayHold
      <4>4. QED BY <1>2, <4>2, <4>3, Names
    <3>4. next'[head] = next[head]
      BY <3>2, <3>3 DEF Appends, Facts, FileTypes
    <3>5. QED BY <3>2, <3>4
  <2>3. QED BY <1>2, <2>1, <2>2 DEF HeadApart
<1>13. Moving(M2, e2)'
  <2>1. ASSUME NEW u \in Threads, u # t PROVE MoveAt(u, th[u], M2, e2)'
    <3>1. th[u].op = "get" /\ Past(th[u]) => \A d \in Cleaners : own'[d] # th[u].seg
      BY <1>2, ThreadFacts DEF MoveAt, GetAt
    <3>2. th'[u] = th[u]
      BY <1>4, <2>1
    <3>3. \A k \in Lists : lock[k] = u => k # l
      BY <1>2, <2>1, Names
    <3>4. \A k \in Lists : lock[k] = u => first'[k] = first[k] /\ last'[k] = last[k] /\ e2[k] = e[k]
      BY <1>5, <3>3
    <3>5. LateBoth(th[u]) => th[u].seg \in M2["emergency"]
                              \/ (th[u].seg \in M2["cleaner"] /\ th[u].seg = e2["used"])
      <4>1. "emergency" \in Lists /\ "used" \in Lists /\ "cleaner" \in Lists
        BY DEF Lists
      <4>2. LateBoth(th[u]) => e2["used"] = e["used"]
        BY <3>4, <4>1, LateSegment
      <4>3. QED BY <1>5, <4>1, <4>2, LateSegment
    <3>6. QED BY <1>2, <3>1, <3>2, <3>4, <3>5, OtherMove
  <2>2. MoveAt(t, n, M2, e2)'
    <3>1. n.op = "get" => GetAt(t, n, e2)'
      <4>1. SUFFICES ASSUME n.op = "get" PROVE GetAt(t, n, e2)'
        OBVIOUS
      <4>2. /\ t # App /\ own[t] = None /\ lock["cleaner"] = t /\ l = "cleaner" /\ first[th[t].from] = s
            /\ th[t].from \in {"free", "emergency"}
        BY <1>2, <4>1, Names, ThreadFacts DEF Appends, MoveAt, GetAt, MoveShape
      <4>3. ASSUME NEW d \in Cleaners, own[d] = s PROVE FALSE
        <5>1. d \in Threads /\ "used" \in Lists
          BY Names DEF Lists
        <5>2. s \notin M["cleaner"]
          BY <1>2, <4>2
        <5>3. th[d].op = "retire" /\ th[d].at \in {"tail", "reset"}
          BY <1>2, <4>3, <5>2 DEF Facts, Whole, Owns
        <5>4. th[d].at = "tail" => lock["cleaner"] = d /\ "cleaner" \in Lists
          BY <5>1, <5>3, Witnesses DEF MayHold, Lists
        <5>5. th[d].at = "reset"
          BY <1>2, <4>2, <5>3, <5>4
        <5>6. e["used"] = s /\ lock["used"] = d
          BY <4>3, <5>1, <5>3, <5>5, ThreadFacts, Witnesses DEF MoveAt, RetireAt, Past, MayHold
        <5>7. s \in M["used"]
          BY <1>2, <5>1, <5>6, EndIn
        <5>8. PICK u \in Threads : Leaving(u, s, "used") \/ Leaving(u, s, th[t].from)
          BY <1>2, <4>2, <5>1, <5>7 DEF Facts, Whole, Apart
        <5>9. ~Leaving(u, s, th[t].from)
          BY <1>2, <1>3, <4>2, Witnesses, Names DEF Leaving
        <5>10. u = d /\ Both(th[u])
          BY <5>1, <5>6, <5>8, <5>9, Witnesses DEF Leaving
        <5>11. QED BY <5>5, <5>10 DEF Both
      <4>4. first'[th[t].from] = s
        BY <1>2, <1>5, <4>2
      <4>5. QED BY <1>2, <1>5, <4>2, <4>3, <4>4 DEF GetAt
    <3>2. n.op = "seal" => SealAt(n, M2, e2)'
      <4>1. n.op = "seal" => t = App /\ l = "used"
        BY <1>2, Names, ThreadFacts DEF MoveShape
      <4>2. QED BY <1>2, <1>5, <4>1 DEF SealAt
    <3>3. n.op = "retire" => RetireAt(t, n, M2, e2)'
      BY <1>2, <1>5 DEF RetireAt, Appends
    <3>4. n.op = "reclaim" => ReclaimAt(t, n, M2, e2)'
      BY <1>2, <1>3, <1>5 DEF ReclaimAt, Appends
    <3>5. n.op # "take"
      BY <1>2
    <3>6. QED BY <3>1, <3>2, <3>3, <3>4, <3>5 DEF MoveAt
  <2>3. QED BY <1>4, <2>1, <2>2 DEF Moving
<1>14. Owns(M2)' /\ Claims(M2)'
  <2>1. "cleaner" \in Lists /\ "used" \in Lists
    BY DEF Lists
  <2>2. \A c \in Cleaners : own[c] # None =>
          own[c] \in M["cleaner"] \/ (th'[c].op = "retire" /\ th'[c].at \in {"tail", "reset"})
    BY <1>2, <1>4, Names DEF Facts, Whole, Owns
  <2>3. \A c \in Cleaners : claim[c] # None =>
          claim[c] \in M["used"] \/ (th'[c].op = "reclaim" /\ th'[c].at \in {"tail", "reset"})
    BY <1>2, <1>4, Names DEF Facts, Whole, Claims
  <2>4. QED BY <1>2, <1>5, <2>1, <2>2, <2>3 DEF Facts, Whole, Owns, Claims
<1>15. Counts(M2)'
  <2>1. CASE l # "emergency"
    <3>1. (Refills(n) <=> Refills(th[t])) /\ (Drains(n) <=> Drains(th[t]))
      BY <1>2, <2>1 DEF Refills, Drains
    <3>2. M2["emergency"] = M["emergency"]
      BY <1>5, <2>1 DEF Lists
    <3>3. th' = [th EXCEPT ![t] = n]
      BY DEF Appends
    <3>4. QED BY <1>2, <2>1, <3>1, <3>2, <3>3, CountsKept
  <2>2. CASE l = "emergency"
    <3>1. th[t].op = "reclaim" /\ lock["used"] = t
      BY <1>2, <2>2, ThreadFacts DEF MoveShape, Appends
    <3>2. \A u \in Threads \ {t} : ~Refills(th[u]) /\ ~Drains(th[u])
      <4>1. \A u \in Threads : Refills(th[u]) \/ Drains(th[u]) => MayHold(th[u], "emergency")
        BY DEF Refills, Drains, MayHold
      <4>2. QED BY <1>2, <2>2, <4>1, Witnesses, Names
    <3>3. ~Refills(th[t]) /\ ~Drains(th[t]) /\ Refills(n) /\ ~Drains(n)
      BY <1>2, <2>2, <3>1 DEF Refills, Drains
    <3>4. count = Cardinality(M["emergency"]) /\ count < EmergencyCount
      BY <1>2, <2>2, <3>1, <3>2, <3>3 DEF Facts, Whole, Counts
    <3>5. Cardinality(M2["emergency"]) = count + 1
      BY <1>2, <1>5, <2>2, <3>4, EmergencySize, FS_AddElement
    <3>6. /\ \A u \in Threads : Refills(th'[u]) <=> u = t
          /\ \A u \in Threads : ~Drains(th'[u])
      BY <1>4, <3>2, <3>3
    <3>7. \A u \in Threads : (Refills(th[u])' <=> u = t) /\ ~Drains(th[u])'
      BY <3>6 DEF Refills, Drains
    <3>8. QED BY <1>2, <3>4, <3>5, <3>7 DEF Counts
  <2>3. QED BY <2>1, <2>2
<1>16. Whole(M2, r2, e2)'
  <2>1. GhostTypes(M2, r2, e2)'
    BY <1>5 DEF GhostTypes
  <2>2. QED BY <1>5, <1>8, <1>9, <1>10, <1>11, <1>12, <1>13, <1>14, <1>15, <2>1 DEF Whole
<1>17. QED BY <1>7, <1>16

(* The first store of a move keeps the lists whole.                        *)
LEMMA LinkLists ==
    ASSUME NEW M, NEW r, NEW e, Facts(M, r, e), NEW t \in Threads, Link(t), Running'
    PROVE  FileTypes' /\ \E M2, r2, e2 : Whole(M2, r2, e2)'
<1>1. CASE th[t].op = "take"
  BY <1>1, LinkTake
<1>2. CASE th[t].op # "take"
  <2>1. PICK n, s, l : Appends(t, n, s, l, M, e)
    BY <1>2, LinkAppends
  <2>2. QED BY <2>1, ThreadFacts, AppendLists
<1>3. QED BY <1>1, <1>2

(* Thread t cuts segment s out of list l.                                  *)
Removes(t, n, s, l, M, r, e, M2, e2) ==
    /\ l \in Lists /\ l = th[t].from /\ lock[l] = t /\ s = th[t].seg /\ s \in M[l]
    /\ th' = [th EXCEPT ![t] = n]
    /\ n.seg = s /\ n.op = th[t].op /\ n.from = l /\ n.to = th[t].to /\ n.at \in {"tail", "reset"}
    /\ \/ t = App /\ th[t].op = "take" /\ th[t].at = "cut" /\ s = head /\ l = "free"
       \/ t \in Cleaners /\ Cleans(th[t]) /\ th[t].at \in {"cut", "bypass"} /\ th[t].to # l
    /\ M2 = [M EXCEPT ![l] = @ \ {s}]
    /\ e2 \in [Lists -> Segs \cup {None}] /\ \A k \in Lists \ {l} : e2[k] = e[k]
    /\ e2[l] # None => \/ next'[e2[l]] = None
                       \/ e2[l] = e[l] /\ e[l] # s /\ next'[e[l]] = next[e[l]]
    /\ next' \in [Segs -> Segs \cup {None}] /\ first' \in [Lists -> Segs \cup {None}]
    /\ Line(next', M2[l], r[l], first'[l], e2[l])
    /\ \A k \in Lists \ {l} : first'[k] = first[k] /\ \A x \in M[k] : next'[x] = next[x]
    /\ \A x \in Segs \ M[l] : next'[x] = next[x]
    /\ UNCHANGED <<last, head, count, own, claim>>
    /\ last[l] = e2[l] \/ LastsOff(t, l, M2, e2)'
    /\ MoveAt(t, n, M2, e2)' /\ Counts(M2)'
    /\ \A u \in Threads \ {t} : LateBoth(th[u]) =>
          th[u].seg \in M2["emergency"] \/ (th[u].seg \in M2["cleaner"] /\ th[u].seg = e2["used"])

(* The lists are whole with the segment cut out: it is in one of them.     *)
LEMMA RemoveLists ==
    ASSUME NEW M, NEW r, NEW e, Facts(M, r, e), NEW t \in Threads, NEW n, NEW s, NEW l,
           NEW M2, NEW e2, Removes(t, n, s, l, M, r, e, M2, e2)
    PROVE  FileTypes' /\ Whole(M2, r, e2)'
<1>1. /\ l \in Lists /\ l = th[t].from /\ lock[l] = t /\ s = th[t].seg /\ s \in M[l]
      /\ n.seg = s /\ n.op = th[t].op /\ n.from = l /\ n.to = th[t].to /\ n.at \in {"tail", "reset"}
      /\ \/ t = App /\ th[t].op = "take" /\ th[t].at = "cut" /\ s = head /\ l = "free"
         \/ t \in Cleaners /\ Cleans(th[t]) /\ th[t].at \in {"cut", "bypass"} /\ th[t].to # l
      /\ UNCHANGED <<last, head, count, own, claim>>
  BY DEF Removes
<1>2. /\ \A u \in Threads \ {t} : th'[u] = th[u]
      /\ th'[t] = n
  BY ThreadFacts DEF Removes
<1>3. M \in [Lists -> SUBSET Segs] /\ r \in [Lists -> [Segs -> Nat]]
  BY DEF Facts, Whole, GhostTypes
<1>4. /\ M2[l] = M[l] \ {s} /\ \A k \in Lists \ {l} : M2[k] = M[k] /\ e2[k] = e[k]
      /\ \A k \in Lists : M2[k] \subseteq M[k]
  BY <1>1, <1>3 DEF Removes
<1>5. GhostTypes(M2, r, e2)'
  <2>1. M2 \in [Lists -> SUBSET Segs]
    BY <1>1, <1>3 DEF Removes
  <2>2. QED BY <1>3, <2>1 DEF GhostTypes, Removes
<1>6. Past(th[t]) /\ Past(n) /\ ~Both(n) /\ ~LateBoth(n) /\ s \in Segs /\ s # None
  BY <1>1, EndIn, SegsFinite DEF Past, Both, LateBoth
<1>7. FileTypes'
  <2>1. \A u \in Threads : th'[u].seg \in Segs \cup {None}
    BY <1>1, <1>2, <1>6 DEF Facts, FileTypes
  <2>2. QED BY <1>1, <2>1 DEF Facts, FileTypes, Removes
<1>8. Lines(M2, r, e2)'
  <2>1. SUFFICES ASSUME NEW k \in Lists PROVE Line(next', M2[k], r[k], first'[k], e2[k])
    BY DEF Lines, Line
  <2>2. CASE k = l
    BY <2>2 DEF Removes
  <2>3. CASE k # l
    <3>1. Line(next, M[k], r[k], first[k], e[k])
      BY DEF Facts, Whole, Lines
    <3>2. \A x \in M[k] \ {e[k]} : next'[x] = next[x]
      BY <2>3 DEF Removes
    <3>3. Line(next', M[k], r[k], first[k], e[k])
      BY <3>1, <3>2, LineKept
    <3>4. first'[k] = first[k]
      BY <2>3 DEF Removes
    <3>5. QED BY <1>4, <2>3, <3>3, <3>4
  <2>4. QED BY <2>2, <2>3
<1>9. Lasts(M2, e2)'
  <2>1. SUFFICES ASSUME NEW k \in Lists PROVE (last[k] = e2[k] \/ \E u \in Threads : LastsOff(u, k, M2, e2))'
    BY DEF Lasts
  <2>2. CASE k = l
    BY <1>1, <2>2 DEF Removes
  <2>3. CASE k # l
    <3>0. first'[k] = first[k] /\ \A x \in M[k] : next'[x] = next[x]
      BY <2>3 DEF Removes
    <3>1. CASE last[k] = e[k]
      BY <1>1, <1>4, <2>3, <3>1
    <3>2. CASE \E u \in Threads : LastsOff(u, k, M, e)
      <4>1. PICK u \in Threads : LastsOff(u, k, M, e)
        BY <3>2
      <4>2. u # t
        BY <1>1, <2>3, <4>1 DEF LastsOff
      <4>3. QED BY <1>1, <1>2, <1>4, <2>3, <3>0, <4>1, <4>2 DEF LastsOff
    <3>3. QED BY <3>1, <3>2 DEF Facts, Whole, Lasts
  <2>4. QED BY <2>2, <2>3
<1>10. Clean(e2)'
  <2>1. SUFFICES ASSUME NEW k \in Lists, e2[k] # None
                 PROVE (next[e2[k]] = None \/ \E u \in Threads : Tails(u, e2[k], k))'
    BY DEF Clean
  <2>2. \A u \in Threads, x \in Segs : u # t /\ Tails(u, x, k) => Tails(u, x, k)'
    BY <1>2 DEF Tails
  <2>3. e[k] # None => /\ e[k] \in M[k] /\ e[k] \in Segs
                       /\ next[e[k]] = None \/ \E u \in Threads : Tails(u, e[k], k)
    BY EndIn DEF Facts, Whole, Clean
  <2>4. CASE k = l
    <3>1. CASE next'[e2[l]] = None
      BY <2>4, <3>1
    <3>2. CASE e2[l] = e[l] /\ e[l] # s /\ next'[e[l]] = next[e[l]]
      <4>1. ~Tails(t, e[l], l)
        BY <1>1, <3>2 DEF Tails
      <4>2. QED BY <2>1, <2>2, <2>3, <2>4, <3>2, <4>1
    <3>3. QED BY <2>1, <2>4, <3>1, <3>2 DEF Removes
  <2>5. CASE k # l
    <3>1. e2[k] = e[k] /\ next'[e[k]] = next[e[k]]
      <4>1. e2[k] = e[k] /\ M2[k] = M[k]
        BY <1>4, <2>5
      <4>2. e[k] \in M[k]
        BY <2>1, <2>3, <4>1
      <4>3. \A x \in M[k] : next'[x] = next[x]
        BY <2>5 DEF Removes
      <4>4. QED BY <4>1, <4>2, <4>3
    <3>2. Tails(t, e[k], k) => Tails(t, e[k], k)'
      <4>1. LateBoth(th[t]) => l = "used"
        BY <1>1, ThreadFacts DEF LateBoth, Late, MoveShape
      <4>2. Tails(t, e[k], k) => s = e[k] /\ Cleans(th[t]) /\ th[t].to = k
        BY <1>1, <2>5, <4>1 DEF Tails
      <4>3. Cleans(th[t]) => Cleans(n)
        BY <1>1 DEF Cleans
      <4>4. QED BY <1>1, <1>2, <1>6, <4>2, <4>3 DEF Tails
    <3>3. QED BY <2>1, <2>2, <2>3, <3>1, <3>2
  <2>6. QED BY <2>4, <2>5
<1>11. HeadSealed' <=> HeadSealed
  BY <1>1, <1>2, Names DEF HeadSealed
<1>12. Cover(M2)'
  <2>1. (\E k \in Lists : s \in M2[k]) \/ (s = head /\ ~HeadSealed)
    <3>1. CASE t = App
      BY <1>1, <3>1, Names DEF HeadSealed
    <3>2. CASE t \in Cleaners /\ Cleans(th[t]) /\ th[t].at \in {"cut", "bypass"}
      <4>1. Both(th[t])
        BY <3>2 DEF Both
      <4>2. CASE LateBoth(th[t])
        <5>1. l = "used" /\ "emergency" \in Lists /\ "cleaner" \in Lists
          BY <1>1, <4>2, ThreadFacts DEF LateBoth, Late, MoveShape, Lists
        <5>2. s \in M["emergency"] \/ s \in M["cleaner"]
          BY <1>1, <4>2, LateSegment
        <5>3. QED BY <1>4, <5>1, <5>2
      <4>3. CASE ~LateBoth(th[t])
        <5>1. th[t].to \in Lists /\ th[t].from # th[t].to /\ th[t].seg \in M[th[t].to]
          BY <3>2, <4>1, <4>3, InBoth
        <5>2. QED BY <1>1, <1>4, <5>1
      <4>4. QED BY <4>2, <4>3
    <3>3. QED BY <1>1, <3>1, <3>2
  <2>2. \A x \in Segs \ {s} : \A k \in Lists : x \in M[k] => x \in M2[k]
    BY <1>4
  <2>3. QED BY <1>1, <1>11, <2>1, <2>2 DEF Facts, Whole, Cover
<1>13. Apart(M2)'
  <2>1. ASSUME NEW j \in Lists, NEW k \in Lists, NEW x \in M2[j], j # k, x \in M2[k]
        PROVE  \E u \in Threads : (Leaving(u, x, j) \/ Leaving(u, x, k))'
    <3>1. PICK u \in Threads : Leaving(u, x, j) \/ Leaving(u, x, k)
      BY <1>4, <2>1 DEF Facts, Whole, Apart
    <3>2. u # t
      BY <1>1, <1>4, <2>1, <3>1 DEF Leaving
    <3>3. QED BY <1>2, <3>1, <3>2 DEF Leaving
  <2>2. QED BY <2>1 DEF Apart
<1>14. HeadApart(M2)'
  <2>1. CASE t = App
    <3>1. \A k \in Lists : head \notin M2[k]
      <4>1. s = head /\ l = "free" /\ th[App].op = "take" /\ th[App].at = "cut"
        BY <1>1, <2>1, Names
      <4>2. \A k \in Lists : head \in M[k] => k = "free"
        BY <1>6, <4>1 DEF Facts, Whole, HeadApart, HeadSealed
      <4>3. QED BY <1>1, <1>4, <4>1, <4>2
    <3>2. QED BY <1>1, <1>2, <2>1, <3>1, Names DEF HeadApart
  <2>2. CASE t # App
    <3>1. th'[App] = th[App]
      BY <1>2, <2>2, Names
    <3>2. \A k \in Lists : head # None /\ head \in M2[k] =>
          (\/ HeadSealed
           \/ th[App].op = "seal" /\ th[App].at = "last" /\ k = "used"
           \/ th[App].op = "take" /\ th[App].at = "cut" /\ k = "free")'
      BY <1>4, <1>11, <3>1 DEF Facts, Whole, HeadApart
    <3>3. head # None /\ th[App].op \in {"none", "seal"} => next'[head] = None
      <4>1. SUFFICES ASSUME head # None, th[App].op \in {"none", "seal"} PROVE next'[head] = None
        OBVIOUS
      <4>2. next[head] = None /\ head \in Segs /\ ~HeadSealed
        BY <4>1 DEF Facts, Whole, HeadApart, FileTypes, HeadSealed
      <4>3. head \notin M[l]
        <5>1. SUFFICES ASSUME head \in M[l] PROVE FALSE
          OBVIOUS
        <5>2. th[App].op = "seal" /\ th[App].at = "last" /\ l = "used"
          BY <1>1, <4>1, <4>2, <5>1 DEF Facts, Whole, HeadApart
        <5>3. lock["used"] = App
          BY <1>1, <5>2, Names, Witnesses DEF MayHold
        <5>4. QED BY <1>1, <2>2, <5>2, <5>3
      <4>4. QED BY <4>2, <4>3 DEF Removes
    <3>4. QED BY <1>1, <3>1, <3>2, <3>3 DEF HeadApart
  <2>3. QED BY <2>1, <2>2
<1>15. Moving(M2, e2)'
  <2>1. ASSUME NEW u \in Threads, u # t PROVE MoveAt(u, th[u], M2, e2)'
    <3>1. th[u].op = "get" /\ Past(th[u]) => \A d \in Cleaners : own'[d] # th[u].seg
      BY <1>1, ThreadFacts DEF MoveAt, GetAt
    <3>2. th'[u] = th[u]
      BY <1>2, <2>1
    <3>3. \A k \in Lists : lock[k] = u => first'[k] = first[k] /\ last'[k] = last[k] /\ e2[k] = e[k]
      BY <1>1, <2>1 DEF Removes
    <3>4. LateBoth(th[u]) => th[u].seg \in M2["emergency"]
                              \/ (th[u].seg \in M2["cleaner"] /\ th[u].seg = e2["used"])
      BY <2>1 DEF Removes
    <3>5. QED BY <1>1, <3>1, <3>2, <3>3, <3>4, OtherMove
  <2>2. QED BY <1>2, <2>1 DEF Moving, Removes
<1>16. Owns(M2)' /\ Claims(M2)'
  <2>0. "cleaner" \in Lists /\ "used" \in Lists
    BY DEF Lists
  <2>1. ASSUME NEW c \in Cleaners, own[c] # None
        PROVE  own[c] \in M2["cleaner"] \/ (th'[c].op = "retire" /\ th'[c].at \in {"tail", "reset"})
    <3>1. CASE own[c] \in M["cleaner"] /\ own[c] \notin M2["cleaner"]
      <4>1. l = "cleaner" /\ own[c] = s
        BY <1>4, <2>0, <3>1
      <4>2. th[t].op = "retire" /\ own[t] = s /\ t \in Cleaners
        BY <1>1, <4>1, ThreadFacts DEF MoveShape, Cleans, MoveAt, RetireAt
      <4>3. c = t
        BY <2>1, <4>1, <4>2 DEF Facts, Whole, Owns
      <4>4. QED BY <1>1, <1>2, <4>2, <4>3
    <3>2. CASE own[c] \notin M["cleaner"]
      <4>1. th[c].op = "retire" /\ th[c].at \in {"tail", "reset"}
        BY <2>1, <3>2 DEF Facts, Whole, Owns
      <4>2. QED BY <1>1, <1>2, <4>1, Names
    <3>3. QED BY <3>1, <3>2
  <2>2. ASSUME NEW c \in Cleaners, claim[c] # None
        PROVE  claim[c] \in M2["used"] \/ (th'[c].op = "reclaim" /\ th'[c].at \in {"tail", "reset"})
    <3>1. CASE claim[c] \in M["used"] /\ claim[c] \notin M2["used"]
      <4>1. l = "used" /\ claim[c] = s
        BY <1>4, <2>0, <3>1
      <4>2. th[t].op = "reclaim" /\ claim[t] = s /\ t \in Cleaners
        BY <1>1, <4>1, ThreadFacts DEF MoveShape, Cleans, MoveAt, ReclaimAt
      <4>3. c = t
        BY <2>2, <4>1, <4>2 DEF Facts, Whole, Claims
      <4>4. QED BY <1>1, <1>2, <4>2, <4>3
    <3>2. CASE claim[c] \notin M["used"]
      <4>1. th[c].op = "reclaim" /\ th[c].at \in {"tail", "reset"}
        BY <2>2, <3>2 DEF Facts, Whole, Claims
      <4>2. QED BY <1>1, <1>2, <4>1, Names
    <3>3. QED BY <3>1, <3>2
  <2>3. QED BY <1>1, <2>1, <2>2 DEF Facts, Whole, Owns, Claims
<1>17. Counts(M2)'
  BY DEF Removes
<1>18. QED BY <1>5, <1>7, <1>8, <1>9, <1>10, <1>12, <1>13, <1>14, <1>15, <1>16, <1>17 DEF Whole

(* The successor of an emergency segment that is taken is not left over    *)
(* from the used list.                                                     *)
LEMMA EmergencyEnd ==
    ASSUME NEW M, NEW r, NEW e, Facts(M, r, e), NEW t \in Threads, lock["emergency"] = t,
           th[t].op = "get", NEW s, e["emergency"] = s, s # None,
           ~(next[s] # None /\ StillLinked(s))
    PROVE  next[s] = None
<1>1. SUFFICES ASSUME next[s] # None PROVE FALSE
  OBVIOUS
<1>2. "emergency" \in Lists
  BY DEF Lists
<1>3. PICK u \in Threads : Tails(u, s, "emergency")
  BY <1>1, <1>2 DEF Facts, Whole, Clean
<1>4. lock["emergency"] = u \/ Late(th[u])
  BY <1>2, <1>3, Witnesses
<1>5. Late(th[u])
  <2>1. MoveShape(t, th[t])
    BY ThreadFacts
  <2>2. u # t
    BY <1>3, <2>1 DEF Tails, MoveShape, LateBoth, Late
  <2>3. QED BY <1>4, <2>2
<1>6. u \in Cleaners /\ th[u].seg = s
  BY <1>3, <1>5, ThreadFacts DEF Tails, Late, MoveShape
<1>7. QED BY <1>1, <1>5, <1>6 DEF StillLinked, Late

(* Taking the first segment off a list keeps the lists whole.              *)
LEMMA CutFirstLists ==
    ASSUME NEW M, NEW r, NEW e, Facts(M, r, e), NEW t \in Threads, CutFirst(t), Running'
    PROVE  FileTypes' /\ \E M2, r2, e2 : Whole(M2, r2, e2)'
<1>1. /\ th[t].at = "cut" /\ MoveShape(t, th[t]) /\ MoveAt(t, th[t], M, e)
      /\ th[t].seg \in Segs \cup {None} /\ None \notin Segs /\ th[t].op \in {"get", "take"}
  BY ThreadFacts DEF CutFirst, At
<1>2. PICK l : l = th[t].from
  OBVIOUS
<1>3. PICK s : s = th[t].seg
  OBVIOUS
<1>4. PICK n : n = [th[t] EXCEPT !.at = "tail"]
  OBVIOUS
<1>5. PICK M2, e2 : M2 = [M EXCEPT ![l] = @ \ {s}] /\ e2 = [e EXCEPT ![l] = IF @ = s THEN None ELSE @]
  OBVIOUS
<1>6. /\ l \in Lists /\ l # "cleaner" /\ l # "used"
      /\ th[t].op = "get" => t \in Cleaners /\ th[t].to = "cleaner"
      /\ th[t].op = "take" => t = App /\ l = "free"
  BY <1>1, <1>2 DEF MoveShape, Lists
<1>7. n.seg = s /\ n.op = th[t].op /\ n.from = l /\ n.to = th[t].to /\ n.at = "tail"
  BY <1>1, <1>2, <1>3, <1>4 DEF MoveShape
<1>8. /\ th' = [th EXCEPT ![t] = n]
      /\ first' = [first EXCEPT ![l] = next[s]]
      /\ ~(l = "emergency" /\ next[s] # None /\ StillLinked(s))
      /\ UNCHANGED <<next, last, head, count, own, claim>>
  BY <1>2, <1>3, <1>4 DEF CutFirst, Rest, Goes, Running
<1>9. Past(th[t]) /\ Both(th[t]) /\ Past(n) /\ ~Both(n) /\ (th[t].op = "get" => Cleans(th[t]))
  BY <1>1, <1>7 DEF Past, Both, Cleans
<1>10. /\ first[l] = s /\ s # None
       /\ th[t].op = "take" => s = head
       /\ th[t].op = "get" => e["cleaner"] = s /\ own[t] = None /\ \A d \in Cleaners : own[d] # s
  BY <1>1, <1>2, <1>3, <1>6, <1>9 DEF MoveAt, GetAt, TakeAt
<1>11. /\ M[l] \subseteq Segs /\ r[l] \in [Segs -> Nat] /\ Line(next, M[l], r[l], first[l], e[l])
       /\ s \in M[l] /\ s \in Segs
  BY <1>6, <1>10, EndIn
<1>12. lock[l] = t
  BY <1>1, <1>2, <1>6, Witnesses DEF MayHold
<1>13. e[l] = s => next[s] = None
  <2>1. CASE l = "emergency"
    BY <1>1, <1>6, <1>8, <1>10, <1>12, <2>1, EmergencyEnd
  <2>2. CASE l # "emergency"
    <3>1. ~Tails(t, s, l)
      BY <1>1, <1>6 DEF Tails, LateBoth, Late, Cleans
    <3>2. QED BY <1>6, <1>10, <1>12, <2>2, <3>1, EndKnown
  <2>3. QED BY <2>1, <2>2
<1>14. /\ M \in [Lists -> SUBSET Segs] /\ e \in [Lists -> Segs \cup {None}]
       /\ next \in [Segs -> Segs \cup {None}] /\ first \in [Lists -> Segs \cup {None}]
  BY DEF Facts, Whole, GhostTypes, FileTypes
<1>15. /\ M2[l] = M[l] \ {s} /\ e2[l] = IF e[l] = s THEN None ELSE e[l]
       /\ \A k \in Lists \ {l} : M2[k] = M[k] /\ e2[k] = e[k] /\ first'[k] = first[k]
       /\ first'[l] = next[s] /\ first' \in [Lists -> Segs \cup {None}]
       /\ e2 \in [Lists -> Segs \cup {None}]
  BY <1>5, <1>6, <1>8, <1>11, <1>14
<1>16. Line(next', M2[l], r[l], first'[l], e2[l])
  <2>1. (first[l] = e[l] => first'[l] = None) /\ (first[l] # e[l] => first'[l] = next[first[l]])
    BY <1>10, <1>13, <1>15
  <2>2. Line(next, M[l] \ {first[l]}, r[l], first'[l], IF first[l] = e[l] THEN None ELSE e[l])
    <3>1. M[l] # {}
      BY <1>11
    <3>2. QED BY <1>11, <2>1, <3>1, LineBehead
  <2>3. QED BY <1>8, <1>10, <1>15, <2>2
<1>17. last[l] = e2[l] \/ LastsOff(t, l, M2, e2)'
  <2>1. last[l] = e[l]
    BY <1>1, <1>6, <1>12, LastKnown DEF LastsOff
  <2>2. CASE e[l] = s
    <3>1. th'[t] = n
      BY <1>8, ThreadFacts
    <3>2. QED BY <1>7, <1>8, <1>13, <1>15, <2>1, <2>2, <3>1 DEF LastsOff
  <2>3. CASE e[l] # s
    BY <1>15, <2>1, <2>3
  <2>4. QED BY <2>2, <2>3
<1>18. MoveAt(t, n, M2, e2)'
  <2>1. "cleaner" \in Lists
    BY DEF Lists
  <2>2. QED BY <1>1, <1>6, <1>7, <1>8, <1>9, <1>10, <1>15, <2>1 DEF MoveAt, GetAt, TakeAt
<1>19. Counts(M2)'
  <2>1. CASE l = "emergency"
    <3>1. lock["emergency"] = t /\ th[t].op = "get"
      BY <1>1, <1>6, <1>12, <2>1
    <3>2. \A u \in Threads \ {t} : ~Refills(th[u]) /\ ~Drains(th[u])
      <4>1. \A u \in Threads : Refills(th[u]) \/ Drains(th[u]) => MayHold(th[u], "emergency")
        BY DEF Refills, Drains, MayHold
      <4>2. QED BY <1>6, <2>1, <3>1, <4>1, Witnesses
    <3>3. ~Refills(th[t]) /\ ~Drains(th[t]) /\ ~Refills(n) /\ Drains(n)
      BY <1>1, <1>7, <2>1, <3>1 DEF Refills, Drains
    <3>4. count = Cardinality(M["emergency"])
      BY <3>2, <3>3 DEF Facts, Whole, Counts
    <3>5. count = Cardinality(M2["emergency"]) + 1
      <4>1. Cardinality(M["emergency"] \ {s}) = Cardinality(M["emergency"]) - 1
        BY <1>11, <2>1, EmergencySize, FS_RemoveElement
      <4>2. M2["emergency"] = M["emergency"] \ {s}
        BY <1>15, <2>1
      <4>3. Cardinality(M2["emergency"]) = count - 1 /\ count \in Nat
        BY <3>4, <4>1, <4>2, EmergencySize
      <4>4. QED BY <4>3
    <3>6. /\ \A u \in Threads : Drains(th'[u]) <=> u = t
          /\ \A u \in Threads : ~Refills(th'[u])
          /\ \A u \in Threads : u # t => th'[u] = th[u]
      BY <1>8, <3>2, <3>3, ThreadFacts
    <3>7. \A u \in Threads : (Drains(th[u])' <=> u = t) /\ ~Refills(th[u])'
      BY <3>6 DEF Refills, Drains
    <3>8. \A u \in Threads : th'[u].op = "reclaim" /\ th'[u].to = "emergency"
              /\ th'[u].at \in {"link", "last", "count"} => count < EmergencyCount
      <4>1. th'[t] = n /\ n.op # "reclaim"
        BY <1>7, <1>8, <3>1, ThreadFacts
      <4>2. QED BY <3>6, <4>1 DEF Facts, Whole, Counts
    <3>9. QED BY <1>8, <3>5, <3>7, <3>8 DEF Counts
  <2>2. CASE l # "emergency"
    <3>1. (Refills(n) <=> Refills(th[t])) /\ (Drains(n) <=> Drains(th[t]))
      BY <1>1, <1>2, <1>7, <2>2 DEF Refills, Drains
    <3>2. M2["emergency"] = M["emergency"]
      BY <1>15, <2>2 DEF Lists
    <3>3. QED BY <1>7, <1>8, <3>1, <3>2, CountsKept
  <2>3. QED BY <2>1, <2>2
<1>20. ASSUME NEW u \in Threads \ {t}, LateBoth(th[u])
       PROVE  th[u].seg \in M2["emergency"] \/ (th[u].seg \in M2["cleaner"] /\ th[u].seg = e2["used"])
  <2>1. /\ u \in Cleaners /\ th[u].op = "reclaim" /\ th[u].seg \in M["used"]
        /\ th[u].seg \in M["emergency"] \/ (th[u].seg \in M["cleaner"] /\ th[u].seg = e["used"])
    BY <1>20, LateSegment
  <2>2. "used" \in Lists /\ "cleaner" \in Lists /\ "emergency" \in Lists
    BY DEF Lists
  <2>3. M2["cleaner"] = M["cleaner"] /\ e2["used"] = e["used"]
    BY <1>6, <1>15, <2>2
  <2>4. CASE th[u].seg \in M["emergency"] /\ th[u].seg \notin M2["emergency"]
    <3>1. l = "emergency" /\ th[u].seg = s
      BY <1>15, <2>2, <2>4
    <3>2. StillLinked(s)
      BY <1>20, <2>1, <3>1 DEF StillLinked, LateBoth, Late
    <3>3. next[s] = None
      BY <1>8, <3>1, <3>2
    <3>4. s = e["used"]
      <4>1. Line(next, M["used"], r["used"], first["used"], e["used"]) /\ M["used"] \subseteq Segs
        BY <2>2, EndIn
      <4>2. QED BY <1>1, <2>1, <3>1, <3>3, <4>1 DEF Line
    <3>5. s \in M["cleaner"]
      BY <1>6, <1>10, <2>2, <3>1, EndIn, <1>1
    <3>6. QED BY <2>3, <3>1, <3>4, <3>5
  <2>5. QED BY <2>1, <2>3, <2>4
<1>21. Removes(t, n, s, l, M, r, e, M2, e2)
  <2>1. /\ l \in Lists /\ l = th[t].from /\ lock[l] = t /\ s = th[t].seg /\ s \in M[l]
        /\ th' = [th EXCEPT ![t] = n]
        /\ n.seg = s /\ n.op = th[t].op /\ n.from = l /\ n.to = th[t].to /\ n.at \in {"tail", "reset"}
        /\ \/ t = App /\ th[t].op = "take" /\ th[t].at = "cut" /\ s = head /\ l = "free"
           \/ t \in Cleaners /\ Cleans(th[t]) /\ th[t].at \in {"cut", "bypass"} /\ th[t].to # l
    BY <1>1, <1>2, <1>3, <1>6, <1>7, <1>8, <1>9, <1>10, <1>11, <1>12
  <2>2. e2[l] # None => e2[l] = e[l] /\ e[l] # s /\ next'[e[l]] = next[e[l]]
    BY <1>8, <1>15
  <2>3. QED BY <1>5, <1>8, <1>14, <1>15, <1>16, <1>17, <1>18, <1>19, <1>20, <2>1, <2>2 DEF Removes
<1>22. QED BY <1>21, RemoveLists

(* What is known when a cleaner cuts its segment out of the cleaner list   *)
(* or the used list.                                                       *)
LEMMA CutFacts ==
    ASSUME NEW M, NEW r, NEW e, Facts(M, r, e), NEW t \in Threads,
           th[t].op \in {"retire", "reclaim"}, th[t].at \in {"cut", "bypass"}
    PROVE  /\ MoveShape(t, th[t]) /\ MoveAt(t, th[t], M, e) /\ t \in Cleaners
           /\ th[t].from \in Lists /\ th[t].to # th[t].from /\ Cleans(th[t])
           /\ th[t].from # "emergency"
           /\ th[t].op = "retire" => th[t].from = "cleaner" /\ th[t].to = "used"
           /\ th[t].op = "reclaim" => th[t].from = "used"
           /\ th[t].seg \in M[th[t].from] /\ th[t].seg \in Segs
           /\ lock[th[t].from] = t /\ lock["used"] = t
           /\ Past(th[t]) /\ Both(th[t])
           /\ \A u \in Threads \ {t} : ~LateBoth(th[u])
<1>1. MoveShape(t, th[t]) /\ MoveAt(t, th[t], M, e) 
  BY ThreadFacts
<1>2. /\ t \in Cleaners
      /\ th[t].from \in Lists /\ th[t].to # th[t].from /\ Cleans(th[t])
      /\ th[t].from # "emergency" /\ "used" \in Lists
      /\ th[t].op = "retire" => th[t].from = "cleaner" /\ th[t].to = "used"
      /\ th[t].op = "reclaim" => th[t].from = "used"
  BY <1>1 DEF MoveShape, Cleans, Lists
<1>3. th[t].seg \in M[th[t].from]
  BY <1>1, <1>2 DEF Facts, Whole, Owns, Claims, MoveAt, RetireAt, ReclaimAt
<1>4. lock[th[t].from] = t /\ lock["used"] = t
  BY <1>1, <1>2, Witnesses DEF MayHold
<1>5. \A u \in Threads \ {t} : ~LateBoth(th[u])
  BY <1>4, LateSegment
<1>6. QED BY <1>1, <1>2, <1>3, <1>4, <1>5, EndIn DEF Past, Both

(* The first segment of the list is cut off.                               *)
LEMMA CutOutFirst ==
    ASSUME NEW M, NEW r, NEW e, Facts(M, r, e), NEW t \in Threads, CutOut(t),
           first[th[t].from] = th[t].seg
    PROVE  FileTypes' /\ \E M2, r2, e2 : Whole(M2, r2, e2)'
<1>1. /\ th[t].at = "cut" /\ th[t].op \in {"retire", "reclaim"} /\ None \notin Segs
  BY SegsFinite DEF CutOut, At
<1>2. PICK l : l = th[t].from
  OBVIOUS
<1>3. PICK s : s = th[t].seg
  OBVIOUS
<1>4. PICK n : n = [th[t] EXCEPT !.at = IF last[l] = s THEN "tail" ELSE "reset"]
  OBVIOUS
<1>5. PICK M2, e2 : M2 = [M EXCEPT ![l] = @ \ {s}] /\ e2 = [e EXCEPT ![l] = IF @ = s THEN None ELSE @]
  OBVIOUS
<1>6. /\ MoveShape(t, th[t]) /\ MoveAt(t, th[t], M, e) /\ t \in Cleaners
      /\ l \in Lists /\ th[t].to # l /\ Cleans(th[t]) /\ l # "emergency"
      /\ th[t].op = "retire" => l = "cleaner" /\ th[t].to = "used"
      /\ th[t].op = "reclaim" => l = "used"
      /\ s \in M[l] /\ s \in Segs /\ lock[l] = t
      /\ Past(th[t]) /\ Both(th[t])
      /\ \A u \in Threads \ {t} : ~LateBoth(th[u])
  BY <1>1, <1>2, <1>3, CutFacts
<1>7. /\ n.seg = s /\ n.op = th[t].op /\ n.from = l /\ n.to = th[t].to
      /\ n.at = IF last[l] = s THEN "tail" ELSE "reset"
  BY <1>2, <1>3, <1>4, <1>6 DEF MoveShape
<1>8. last[l] = e[l]
  BY <1>1, <1>6, LastKnown DEF LastsOff
<1>9. /\ th' = [th EXCEPT ![t] = n]
      /\ first' = [first EXCEPT ![l] = IF e[l] = s THEN None ELSE next[s]]
      /\ UNCHANGED <<next, last, head, count, own, claim>>
  BY <1>2, <1>3, <1>4, <1>8 DEF CutOut, Rest, Goes, Unlocks
<1>10. Past(n) /\ ~Both(n) /\ ~LateBoth(n) /\ (Late(n) <=> Late(th[t]))
  BY <1>1, <1>7 DEF Past, Both, Late, LateBoth
<1>11. /\ M[l] \subseteq Segs /\ r[l] \in [Segs -> Nat] /\ Line(next, M[l], r[l], first[l], e[l])
       /\ first[l] = s
  BY <1>2, <1>3, <1>6, EndIn
<1>12. /\ M \in [Lists -> SUBSET Segs] /\ e \in [Lists -> Segs \cup {None}]
       /\ next \in [Segs -> Segs \cup {None}] /\ first \in [Lists -> Segs \cup {None}]
  BY DEF Facts, Whole, GhostTypes, FileTypes
<1>13. /\ M2[l] = M[l] \ {s} /\ e2[l] = IF e[l] = s THEN None ELSE e[l]
       /\ \A k \in Lists \ {l} : M2[k] = M[k] /\ e2[k] = e[k] /\ first'[k] = first[k]
       /\ first'[l] = (IF e[l] = s THEN None ELSE next[s]) /\ first' \in [Lists -> Segs \cup {None}]
       /\ e2 \in [Lists -> Segs \cup {None}]
  BY <1>5, <1>6, <1>9, <1>12
<1>14. Line(next', M2[l], r[l], first'[l], e2[l])
  <2>1. (first[l] = e[l] => first'[l] = None) /\ (first[l] # e[l] => first'[l] = next[first[l]])
    BY <1>11, <1>13
  <2>2. Line(next, M[l] \ {first[l]}, r[l], first'[l], IF first[l] = e[l] THEN None ELSE e[l])
    <3>1. M[l] # {}
      BY <1>6
    <3>2. QED BY <1>11, <2>1, <3>1, LineBehead
  <2>3. QED BY <1>9, <1>11, <1>13, <2>2
<1>15. last[l] = e2[l] \/ LastsOff(t, l, M2, e2)'
  <2>1. th'[t] = n
    BY <1>9, ThreadFacts
  <2>2. CASE e[l] = s
    BY <1>7, <1>8, <1>9, <1>13, <2>1, <2>2 DEF LastsOff
  <2>3. CASE e[l] # s
    BY <1>8, <1>13, <2>3
  <2>4. QED BY <2>2, <2>3
<1>16. MoveAt(t, n, M2, e2)'
  <2>1. "cleaner" \in Lists /\ "used" \in Lists /\ "free" \in Lists
    BY DEF Lists
  <2>2. n.op = "retire" => RetireAt(t, n, M2, e2)'
    BY <1>1, <1>3, <1>6, <1>7, <1>8, <1>9, <1>10, <1>13, <2>1 DEF MoveAt, RetireAt
  <2>3. n.op = "reclaim" => ReclaimAt(t, n, M2, e2)'
    <3>1. n.op = "reclaim" /\ Past(n) /\ ~Late(n) => e2[n.to] = n.seg
      <4>1. n.op = "reclaim" => n.to \in Lists \ {l}
        BY <1>6, <1>7 DEF MoveShape
      <4>2. n.op = "reclaim" /\ ~Late(n) => e[n.to] = n.seg
        BY <1>3, <1>6, <1>7, <1>10 DEF MoveAt, ReclaimAt
      <4>3. QED BY <1>13, <4>1, <4>2
    <3>2. QED BY <1>1, <1>3, <1>6, <1>7, <1>8, <1>9, <1>10, <1>13, <2>1, <3>1 DEF MoveAt, ReclaimAt
  <2>4. QED BY <1>1, <1>7, <2>2, <2>3 DEF MoveAt
<1>17. Counts(M2)'
  <2>1. (Refills(n) <=> Refills(th[t])) /\ (Drains(n) <=> Drains(th[t]))
    BY <1>1, <1>7 DEF Refills, Drains
  <2>2. M2["emergency"] = M["emergency"]
    BY <1>6, <1>13 DEF Lists
  <2>3. QED BY <1>7, <1>9, <2>1, <2>2, CountsKept
<1>18. Removes(t, n, s, l, M, r, e, M2, e2)
  <2>1. /\ l \in Lists /\ l = th[t].from /\ lock[l] = t /\ s = th[t].seg /\ s \in M[l]
        /\ th' = [th EXCEPT ![t] = n]
        /\ n.seg = s /\ n.op = th[t].op /\ n.from = l /\ n.to = th[t].to /\ n.at \in {"tail", "reset"}
        /\ \/ t = App /\ th[t].op = "take" /\ th[t].at = "cut" /\ s = head /\ l = "free"
           \/ t \in Cleaners /\ Cleans(th[t]) /\ th[t].at \in {"cut", "bypass"} /\ th[t].to # l
    BY <1>1, <1>2, <1>3, <1>6, <1>7, <1>9
  <2>2. e2[l] # None => e2[l] = e[l] /\ e[l] # s /\ next'[e[l]] = next[e[l]]
    BY <1>9, <1>13
  <2>3. QED BY <1>5, <1>6, <1>9, <1>12, <1>13, <1>14, <1>15, <1>16, <1>17, <2>1, <2>2 DEF Removes
<1>19. QED BY <1>18, RemoveLists

(* Cutting a segment out of a list keeps the lists whole.                  *)
LEMMA CutOutLists ==
    ASSUME NEW M, NEW r, NEW e, Facts(M, r, e), NEW t \in Threads, CutOut(t)
    PROVE  FileTypes' /\ \E M2, r2, e2 : Whole(M2, r2, e2)'
<1>1. t \in Cleaners
  BY ThreadFacts DEF CutOut, At, MoveShape
<1>2. CASE first[th[t].from] = th[t].seg
  BY <1>2, CutOutFirst
<1>3. CASE first[th[t].from] # th[t].seg
  BY <1>1, <1>3, CutOutMiddle
<1>4. QED BY <1>2, <1>3

(* So does linking its predecessor to its successor.                       *)
LEMMA BypassLists ==
    ASSUME NEW M, NEW r, NEW e, Facts(M, r, e), NEW t \in Threads, Bypass(t), Running'
    PROVE  FileTypes' /\ \E M2, r2, e2 : Whole(M2, r2, e2)'
<1>1. /\ th[t].at = "bypass" /\ th[t].op \in {"retire", "reclaim"} /\ None \notin Segs
  BY SegsFinite, ThreadFacts DEF Bypass, At, MoveShape
<1>2. PICK l : l = th[t].from
  OBVIOUS
<1>3. PICK s : s = th[t].seg
  OBVIOUS
<1>4. PICK n : n = [th[t] EXCEPT !.at = "reset"]
  OBVIOUS
<1>5. PICK p : p = Prev(l, s)
  OBVIOUS
<1>6. PICK M2, e2 : M2 = [M EXCEPT ![l] = @ \ {s}] /\ e2 = [e EXCEPT ![l] = IF @ = s THEN p ELSE @]
  OBVIOUS
<1>7. /\ MoveShape(t, th[t]) /\ MoveAt(t, th[t], M, e) /\ t \in Cleaners
      /\ l \in Lists /\ th[t].to # l /\ Cleans(th[t]) /\ l # "emergency"
      /\ th[t].op = "retire" => l = "cleaner" /\ th[t].to = "used"
      /\ th[t].op = "reclaim" => l = "used"
      /\ s \in M[l] /\ s \in Segs /\ lock[l] = t /\ lock["used"] = t
      /\ Past(th[t]) /\ Both(th[t])
      /\ \A u \in Threads \ {t} : ~LateBoth(th[u])
  BY <1>1, <1>2, <1>3, CutFacts
<1>8. first[l] # s /\ last[l] # s
  BY <1>1, <1>3, <1>7 DEF MoveAt, RetireAt, ReclaimAt
<1>9. n.seg = s /\ n.op = th[t].op /\ n.from = l /\ n.to = th[t].to /\ n.at = "reset"
  BY <1>2, <1>3, <1>4, <1>7 DEF MoveShape
<1>10. /\ th' = [th EXCEPT ![t] = n]
       /\ next' = [next EXCEPT ![p] = next[s]]
       /\ ~(last[l] = p /\ next[s] # None)
       /\ UNCHANGED <<first, last, head, count, own, claim>>
  BY <1>2, <1>3, <1>4, <1>5 DEF Bypass, Rest, Goes, Unlocks, Running
<1>11. Past(n) /\ ~Both(n) /\ ~LateBoth(n) /\ (Late(n) <=> Late(th[t]))
  BY <1>1, <1>9 DEF Past, Both, Late, LateBoth
<1>12. /\ M[l] \subseteq Segs /\ r[l] \in [Segs -> Nat] /\ Line(next, M[l], r[l], first[l], e[l])
       /\ e[l] \in Segs
  BY <1>7, EndIn
<1>13. p \in M[l] \ {e[l]} /\ next[p] = s /\ p # s /\ p \in Segs
  BY <1>5, <1>7, <1>8, <1>12, PrevIs
<1>14. last[l] = IF e[l] = s THEN p ELSE e[l]
  <2>1. last[l] = e[l] \/ LastsOff(t, l, M, e)
    BY <1>7, LastKnown
  <2>2. CASE e[l] = s
    <3>1. last[l] \in M[l] \ {e[l]} /\ next[last[l]] = s
      BY <1>1, <1>8, <2>1, <2>2 DEF LastsOff
    <3>2. PICK q : q = last[l]
      OBVIOUS
    <3>3. /\ q \in M[l] /\ p \in M[l] /\ s \in M[l]
          /\ r[l][p] \in Nat /\ r[l][q] \in Nat /\ r[l][s] \in Nat
      BY <1>7, <1>12, <1>13, <3>1, <3>2
    <3>4. /\ r[l][p] < r[l][s] /\ (r[l][q] <= r[l][p] \/ r[l][s] <= r[l][q])
          /\ r[l][q] < r[l][s] /\ (r[l][p] <= r[l][q] \/ r[l][s] <= r[l][p])
      BY <1>12, <1>13, <3>1, <3>2, <3>3 DEF Line
    <3>5. r[l][p] = r[l][q]
      BY <3>3, <3>4
    <3>6. p = q
      BY <1>12, <3>3, <3>5 DEF Line
    <3>7. QED BY <2>2, <3>2, <3>6
  <2>3. CASE e[l] # s
    BY <1>1, <1>3, <2>1, <2>3 DEF LastsOff
  <2>4. QED BY <2>2, <2>3
<1>15. \A k \in Lists \ {l} : p \notin M[k]
  <2>1. SUFFICES ASSUME NEW k \in Lists \ {l}, p \in M[k] PROVE FALSE
    OBVIOUS
  <2>2. \A u \in Threads : MayHold(th[u], l) => ~(th[u].seg = p /\ Both(th[u]))
    BY <1>3, <1>7, <1>13, Witnesses
  <2>3. PICK u \in Threads : LateBoth(th[u]) /\ th[u].seg = p /\ k = "used"
    BY <1>7, <1>13, <2>1, <2>2, Sole
  <2>4. QED BY <1>3, <1>7, <1>13, <2>3
<1>16. /\ M \in [Lists -> SUBSET Segs] /\ e \in [Lists -> Segs \cup {None}]
       /\ next \in [Segs -> Segs \cup {None}] /\ first \in [Lists -> Segs \cup {None}]
  BY DEF Facts, Whole, GhostTypes, FileTypes
<1>17. /\ M2[l] = M[l] \ {s} /\ e2[l] = IF e[l] = s THEN p ELSE e[l]
       /\ \A k \in Lists \ {l} : M2[k] = M[k] /\ e2[k] = e[k]
       /\ e2 \in [Lists -> Segs \cup {None}]
  BY <1>6, <1>7, <1>13, <1>16
<1>18. /\ next'[p] = next[s] /\ \A x \in Segs : x # p => next'[x] = next[x]
       /\ next' \in [Segs -> Segs \cup {None}]
  BY <1>7, <1>10, <1>13, <1>16
<1>19. Line(next', M2[l], r[l], first'[l], e2[l])
  <2>1. (s # e[l] => next'[p] = next[s]) /\ \A u \in M[l] \ {p, e[l]} : next'[u] = next[u]
    BY <1>12, <1>18
  <2>2. Line(next', M[l] \ {s}, r[l], first[l], IF s = e[l] THEN p ELSE e[l])
    BY <1>7, <1>8, <1>12, <1>13, <2>1, LineBypass
  <2>3. QED BY <1>10, <1>17, <2>2
<1>20. \A k \in Lists \ {l} : first'[k] = first[k] /\ \A x \in M[k] : next'[x] = next[x]
  BY <1>10, <1>15, <1>16, <1>18
<1>21. e2[l] # None => \/ next'[e2[l]] = None
                       \/ e2[l] = e[l] /\ e[l] # s /\ next'[e[l]] = next[e[l]]
  BY <1>10, <1>12, <1>13, <1>14, <1>17, <1>18
<1>22. MoveAt(t, n, M2, e2)'
  <2>1. "cleaner" \in Lists /\ "used" \in Lists /\ "free" \in Lists
    BY DEF Lists
  <2>2. n.op = "retire" => RetireAt(t, n, M2, e2)'
    BY <1>3, <1>7, <1>9, <1>10, <1>11, <1>17, <2>1 DEF MoveAt, RetireAt
  <2>3. n.op = "reclaim" => ReclaimAt(t, n, M2, e2)'
    <3>1. n.op = "reclaim" /\ Past(n) /\ ~Late(n) => e2[n.to] = n.seg
      <4>1. n.op = "reclaim" => n.to \in Lists \ {l}
        BY <1>7, <1>9 DEF MoveShape
      <4>2. n.op = "reclaim" /\ ~Late(n) => e[n.to] = n.seg
        BY <1>3, <1>7, <1>9, <1>11 DEF MoveAt, ReclaimAt
      <4>3. QED BY <1>17, <4>1, <4>2
    <3>2. QED BY <1>3, <1>7, <1>9, <1>10, <1>11, <1>17, <2>1, <3>1 DEF MoveAt, ReclaimAt
  <2>4. QED BY <1>1, <1>9, <2>2, <2>3 DEF MoveAt
<1>23. Counts(M2)'
  <2>1. (Refills(n) <=> Refills(th[t])) /\ (Drains(n) <=> Drains(th[t]))
    BY <1>1, <1>9 DEF Refills, Drains
  <2>2. M2["emergency"] = M["emergency"]
    BY <1>7, <1>17 DEF Lists
  <2>3. QED BY <1>9, <1>10, <2>1, <2>2, CountsKept
<1>24. Removes(t, n, s, l, M, r, e, M2, e2)
  <2>1. /\ l \in Lists /\ l = th[t].from /\ lock[l] = t /\ s = th[t].seg /\ s \in M[l]
        /\ th' = [th EXCEPT ![t] = n]
        /\ n.seg = s /\ n.op = th[t].op /\ n.from = l /\ n.to = th[t].to /\ n.at \in {"tail", "reset"}
        /\ \/ t = App /\ th[t].op = "take" /\ th[t].at = "cut" /\ s = head /\ l = "free"
           \/ t \in Cleaners /\ Cleans(th[t]) /\ th[t].at \in {"cut", "bypass"} /\ th[t].to # l
    BY <1>1, <1>2, <1>3, <1>7, <1>9, <1>10
  <2>2. last[l] = e2[l] /\ first' \in [Lists -> Segs \cup {None}]
    BY <1>10, <1>14, <1>16, <1>17
  <2>3. \A x \in Segs \ M[l] : next'[x] = next[x]
    BY <1>13, <1>18
  <2>4. QED BY <1>6, <1>7, <1>10, <1>17, <1>18, <1>19, <1>20, <1>21, <1>22, <1>23, <2>1, <2>2, <2>3 DEF Removes
<1>25. QED BY <1>24, RemoveLists

(* A segment whose late reclaim resets it ends the list that it is in.     *)
LEMMA LateReset ==
    ASSUME NEW M, NEW r, NEW e, Facts(M, r, e), NEW t \in Threads,
           Late(th[t]), th[t].at = "reset", NEW s, s = th[t].seg, IsLast("emergency", s),
           NEW k \in Lists, s \in M[k]
    PROVE  s = e[k]
<1>1. /\ MoveShape(t, th[t]) /\ MoveAt(t, th[t], M, e) /\ t \in Cleaners /\ ~Both(th[t])
      /\ s = claim[t] /\ s # None
  BY ThreadFacts DEF Late, MoveShape, Both, MoveAt, ReclaimAt
<1>2. {"free", "used", "cleaner", "emergency"} = Lists
  BY DEF Lists
<1>3. \A u \in Threads : th[u].op = "reclaim" /\ th[u].seg = s => u = t
  BY <1>1, ThreadFacts DEF MoveShape, MoveAt, ReclaimAt, Facts, Whole, Claims
<1>4. SUFFICES ASSUME s # e[k] PROVE FALSE
  OBVIOUS
<1>5. \A u \in Threads, l \in Lists : Leaving(u, s, l) =>
         /\ lock[l] = u /\ u # t /\ th[u].from = l /\ th[u].seg = s /\ Both(th[u])
         /\ th[u].op \in {"get", "retire"} /\ lock["cleaner"] = u
         /\ th[u].op = "get" => l \in {"free", "emergency"} /\ e["cleaner"] = s
         /\ th[u].op = "retire" => l = "cleaner"
  <2>1. SUFFICES ASSUME NEW u \in Threads, NEW l \in Lists, Leaving(u, s, l)
        PROVE /\ lock[l] = u /\ u # t /\ th[u].from = l /\ th[u].seg = s /\ Both(th[u])
              /\ th[u].op \in {"get", "retire"} /\ lock["cleaner"] = u
              /\ th[u].op = "get" => l \in {"free", "emergency"} /\ e["cleaner"] = s
              /\ th[u].op = "retire" => l = "cleaner"
    OBVIOUS
  <2>2. /\ lock[l] = u /\ u # t /\ th[u].from = l /\ th[u].seg = s /\ Both(th[u])
        /\ MoveShape(u, th[u]) /\ MoveAt(u, th[u], M, e)
    BY <1>1, <2>1, Witnesses, ThreadFacts DEF Leaving
  <2>3. th[u].op \in {"get", "retire"}
    BY <1>3, <2>1, <2>2 DEF Leaving, Cleans
  <2>4. MayHold(th[u], "cleaner")
    BY <2>2, <2>3 DEF MayHold, Both, MoveShape
  <2>5. /\ th[u].op = "get" => l \in {"free", "emergency"} /\ e["cleaner"] = s
        /\ th[u].op = "retire" => l = "cleaner"
    BY <2>2, <2>3 DEF MoveShape, MoveAt, GetAt, Past, Both
  <2>6. QED BY <1>2, <2>2, <2>3, <2>4, <2>5, Witnesses
<1>6. last["emergency"] = s /\ \A u \in Threads : ~(th[u].at = "last" /\ th[u].to = "emergency")
  BY DEF IsLast
<1>7. CASE last["emergency"] = e["emergency"]
  <2>1. s \in M["emergency"] /\ k # "emergency"
    BY <1>1, <1>2, <1>4, <1>6, <1>7, EndIn
  <2>2. PICK u \in Threads : Leaving(u, s, "emergency") \/ Leaving(u, s, k)
    BY <1>2, <2>1 DEF Facts, Whole, Apart
  <2>3. CASE Leaving(u, s, "emergency")
    <3>1. k # "cleaner" /\ s \in M["cleaner"]
      BY <1>1, <1>2, <1>4, <1>5, <2>3, EndIn
    <3>2. PICK v \in Threads : Leaving(v, s, "cleaner") \/ Leaving(v, s, k)
      BY <1>2, <3>1 DEF Facts, Whole, Apart
    <3>3. u = v
      BY <1>2, <1>5, <2>3, <3>2
    <3>4. QED BY <1>2, <1>5, <2>1, <2>3, <3>1, <3>2, <3>3
  <2>4. CASE Leaving(u, s, k) /\ th[u].op = "retire"
    <3>1. k = "cleaner" /\ lock["cleaner"] = u /\ ~LateBoth(th[u]) /\ th[u].to = "used"
      BY <1>2, <1>5, <2>4, ThreadFacts DEF LateBoth, Late, MoveShape
    <3>2. s \in M["used"]
      BY <1>5, <2>4, <3>1, InBoth DEF Leaving
    <3>3. PICK v \in Threads : Leaving(v, s, "emergency") \/ Leaving(v, s, "used")
      BY <1>2, <2>1, <3>2 DEF Facts, Whole, Apart
    <3>4. Leaving(v, s, "emergency") /\ v = u
      BY <1>2, <1>5, <3>1, <3>3
    <3>5. QED BY <1>2, <1>5, <3>1, <3>4, <2>4
  <2>5. CASE Leaving(u, s, k) /\ th[u].op = "get"
    <3>1. k = "free" /\ lock["cleaner"] = u /\ th[u].from = "free" /\ s \in M["cleaner"]
      BY <1>1, <1>2, <1>5, <2>1, <2>5, EndIn
    <3>2. PICK v \in Threads : Leaving(v, s, "emergency") \/ Leaving(v, s, "cleaner")
      BY <1>2, <2>1, <3>1 DEF Facts, Whole, Apart
    <3>3. v = u
      BY <1>2, <1>5, <3>1, <3>2
    <3>4. QED BY <1>2, <1>5, <3>1, <3>2, <3>3
  <2>6. QED BY <1>2, <1>5, <2>2, <2>3, <2>4, <2>5
<1>8. CASE last["emergency"] # e["emergency"]
  <2>1. PICK u \in Threads : LastsOff(u, "emergency", M, e)
    BY <1>2, <1>8 DEF Facts, Whole, Lasts
  <2>2. MoveShape(u, th[u]) /\ MoveAt(u, th[u], M, e)
    BY ThreadFacts
  <2>3. th[u].op = "get" /\ th[u].at = "tail" /\ th[u].seg = s
    BY <1>6, <2>1, <2>2 DEF LastsOff, MoveShape
  <2>4. e["cleaner"] = s /\ lock["cleaner"] = u /\ ~Both(th[u])
    <3>1. MayHold(th[u], "cleaner")
      BY <2>3 DEF MayHold
    <3>2. QED BY <1>2, <2>2, <2>3, <3>1, Witnesses DEF MoveAt, GetAt, Past, Both
  <2>5. s \in M["cleaner"] /\ k # "cleaner"
    BY <1>1, <1>2, <1>4, <2>4, EndIn
  <2>6. PICK v \in Threads : LateBoth(th[v]) /\ th[v].seg = s
    BY <1>2, <2>4, <2>5, Elsewhere
  <2>7. v = t
    BY <1>3, <2>6 DEF LateBoth, Late
  <2>8. QED BY <1>1, <2>6, <2>7 DEF LateBoth, Both
<1>9. QED BY <1>7, <1>8

(* A segment that is reset has no successor of its own: it ends its list.  *)
LEMMA ResetFacts ==
    ASSUME NEW M, NEW r, NEW e, Facts(M, r, e), NEW t \in Threads, Reset(t), Running'
    PROVE  /\ th[t].at = "reset" /\ MoveShape(t, th[t]) /\ MoveAt(t, th[t], M, e)
           /\ th[t].op \in {"take", "get", "retire", "reclaim"} /\ th[t].seg \in Segs
           /\ next' = [next EXCEPT ![th[t].seg] = None]
           /\ th' = [th EXCEPT ![t] = NoMove]
           /\ UNCHANGED <<first, last, head, count>>
           /\ \A k \in Lists : th[t].seg \in M[k] => th[t].seg = e[k]
<1>1. /\ th[t].at = "reset" /\ MoveShape(t, th[t]) /\ MoveAt(t, th[t], M, e)
      /\ th[t].op \in {"take", "get", "retire", "reclaim"} /\ None \notin Segs
      /\ th[t].seg \in Segs \cup {None}
  BY ThreadFacts DEF Reset, At, MoveShape
<1>2. th[t].seg \in Segs
  <2>1. th[t].seg # None
    BY <1>1 DEF MoveAt, TakeAt, GetAt, RetireAt, ReclaimAt, Past
  <2>2. QED BY <1>1, <2>1
<1>3. PICK s : s = th[t].seg
  OBVIOUS
<1>4. /\ next' = [next EXCEPT ![s] = None]
      /\ th' = [th EXCEPT ![t] = NoMove]
      /\ UNCHANGED <<first, last, head, count>>
      /\ th[t].op = "reclaim" /\ th[t].to = "emergency" => next[s] = None \/ IsLast("emergency", s)
  BY <1>3 DEF Reset, Cleared, Running
<1>5. ~Both(th[t]) /\ Past(th[t]) /\ s # None
  BY <1>1, <1>2, <1>3 DEF Both, Past
<1>6. ASSUME NEW k \in Lists, s \in M[k] PROVE s = e[k]
  <2>1. CASE next[s] = None
    BY <1>1, <1>6, <2>1, EndIn DEF Line
  <2>2. CASE Late(th[t]) /\ next[s] # None
    BY <1>1, <1>3, <1>4, <1>6, <2>2, LateReset DEF Late
  <2>3. CASE th[t].op = "take"
    <3>1. t = App /\ s = head /\ head # None
      BY <1>1, <1>3, <2>3 DEF MoveShape, MoveAt, TakeAt
    <3>2. QED BY <1>1, <1>6, <2>3, <3>1 DEF Facts, Whole, HeadApart, HeadSealed
  <2>4. CASE Cleans(th[t]) /\ ~Late(th[t])
    <3>1. PICK l : l = th[t].to
      OBVIOUS
    <3>2. l \in Lists /\ l # "emergency" /\ MayHold(th[t], l) /\ e[l] = s
      BY <1>1, <1>3, <1>5, <2>4, <3>1 DEF MoveShape, MayHold, Cleans, Late, MoveAt, GetAt, RetireAt, ReclaimAt
    <3>3. lock[l] = t /\ s \in M[l]
      BY <1>5, <3>2, Witnesses, EndIn
    <3>4. CASE k = l
      BY <3>2, <3>4
    <3>5. CASE k # l
      BY <1>5, <1>6, <3>2, <3>3, <3>5, Elsewhere
    <3>6. QED BY <3>4, <3>5
  <2>5. QED BY <1>1, <2>1, <2>2, <2>3, <2>4 DEF Cleans
<1>7. QED BY <1>1, <1>2, <1>3, <1>4, <1>6

(* Resetting it keeps the lists whole.                                     *)
LEMMA ResetLists ==
    ASSUME NEW M, NEW r, NEW e, Facts(M, r, e), NEW t \in Threads, Reset(t), Running'
    PROVE  FileTypes' /\ Whole(M, r, e)'
<1>1. PICK s : s = th[t].seg
  OBVIOUS
<1>2. /\ th[t].at = "reset" /\ MoveShape(t, th[t]) /\ MoveAt(t, th[t], M, e)
      /\ th[t].op \in {"take", "get", "retire", "reclaim"} /\ s \in Segs
      /\ next' = [next EXCEPT ![s] = None]
      /\ th' = [th EXCEPT ![t] = NoMove]
      /\ UNCHANGED <<first, last, head, count>>
      /\ \A k \in Lists : s \in M[k] => s = e[k]
  BY <1>1, ResetFacts
<1>3. /\ \A u \in Threads \ {t} : th'[u] = th[u]
      /\ th'[t] = NoMove
  BY <1>2, ThreadFacts
<1>4. /\ own' = CASE th[t].op = "get" -> [own EXCEPT ![t] = s]
                  [] th[t].op = "retire" -> [own EXCEPT ![t] = None]
                  [] OTHER -> own
      /\ claim' = IF th[t].op = "reclaim" THEN [claim EXCEPT ![t] = None] ELSE claim
  BY <1>1 DEF Reset
<1>5. /\ th[t].op \in {"get", "retire", "reclaim"} => t \in Cleaners
      /\ th[t].op = "take" => t = App
      /\ ~Both(th[t]) /\ Past(th[t]) /\ ~LateBoth(th[t]) /\ s # None /\ None \notin Segs
  BY <1>2, SegsFinite DEF MoveShape, Both, Past, LateBoth
<1>6. /\ next' \in [Segs -> Segs \cup {None}] /\ next'[s] = None
      /\ \A x \in Segs : x # s => next'[x] = next[x]
      /\ own' \in [Cleaners -> Segs \cup {None}] /\ claim' \in [Cleaners -> Segs \cup {None}]
  <2>1. /\ next \in [Segs -> Segs \cup {None}]
        /\ own \in [Cleaners -> Segs \cup {None}] /\ claim \in [Cleaners -> Segs \cup {None}]
    BY DEF Facts, FileTypes
  <2>2. own' \in [Cleaners -> Segs \cup {None}]
    BY <1>2, <1>4, <2>1
  <2>3. claim' \in [Cleaners -> Segs \cup {None}]
    BY <1>2, <1>4, <2>1
  <2>4. QED BY <1>2, <2>1, <2>2, <2>3
<1>7. /\ \A l \in Lists : M[l] \subseteq Segs /\ Line(next, M[l], r[l], first[l], e[l])
      /\ \A l \in Lists : e[l] # None => e[l] \in M[l] /\ e[l] \in Segs
  BY EndIn
<1>8. FileTypes'
  <2>1. \A u \in Threads : th'[u].seg \in Segs \cup {None}
    BY <1>3 DEF Facts, FileTypes, NoMove
  <2>2. QED BY <1>2, <1>6, <2>1 DEF Facts, FileTypes
<1>9. GhostTypes(M, r, e)' /\ Lines(M, r, e)'
  <2>1. SUFFICES ASSUME NEW l \in Lists PROVE Line(next', M[l], r[l], first'[l], e[l])
    BY DEF Facts, Whole, GhostTypes, Lines, Line
  <2>2. \A x \in M[l] \ {e[l]} : next'[x] = next[x]
    BY <1>2, <1>6, <1>7
  <2>3. Line(next', M[l], r[l], first[l], e[l])
    BY <1>7, <2>2, LineKept
  <2>4. QED BY <1>2, <2>3
<1>10. Lasts(M, e)'
  <2>1. \A u \in Threads, l \in Lists : LastsOff(u, l, M, e) => LastsOff(u, l, M, e)'
    <3>1. SUFFICES ASSUME NEW u \in Threads, NEW l \in Lists, LastsOff(u, l, M, e)
                   PROVE  LastsOff(u, l, M, e)'
      OBVIOUS
    <3>2. th'[u] = th[u]
      BY <1>2, <1>3, <3>1 DEF LastsOff
    <3>3. last[l] \in M[l] \ {e[l]} => next'[last[l]] = next[last[l]]
      BY <1>2, <1>6, <1>7
    <3>4. QED BY <1>2, <3>1, <3>2, <3>3 DEF LastsOff
  <2>2. QED BY <1>2, <2>1 DEF Facts, Whole, Lasts
<1>11. Clean(e)'
  <2>1. SUFFICES ASSUME NEW l \in Lists, e[l] # None
                 PROVE (next[e[l]] = None \/ \E u \in Threads : Tails(u, e[l], l))'
    BY DEF Clean
  <2>2. CASE e[l] = s
    BY <1>6, <2>2
  <2>3. CASE e[l] # s
    <3>1. next'[e[l]] = next[e[l]]
      BY <1>6, <1>7, <2>1, <2>3
    <3>2. \A u \in Threads : Tails(u, e[l], l) => Tails(u, e[l], l)'
      BY <1>1, <1>3, <2>3 DEF Tails
    <3>3. QED BY <2>1, <3>1, <3>2 DEF Facts, Whole, Clean
  <2>4. QED BY <2>2, <2>3
<1>12. HeadSealed' <=> HeadSealed
  BY <1>2, <1>3, Names DEF HeadSealed, NoMove
<1>13. Cover(M)'
  BY <1>2, <1>12 DEF Facts, Whole, Cover
<1>14. Apart(M)'
  <2>1. \A u \in Threads, x \in Segs, l \in Lists : Leaving(u, x, l) => Leaving(u, x, l)'
    BY <1>3, <1>5 DEF Leaving
  <2>2. QED BY <1>7, <2>1 DEF Facts, Whole, Apart
<1>15. HeadApart(M)'
  <2>1. CASE t = App
    <3>1. th[App].op = "take" /\ s = head /\ head # None
      BY <1>1, <1>2, <2>1, Names DEF MoveShape, MoveAt, TakeAt
    <3>2. \A k \in Lists : head \notin M[k]
      BY <1>2, <2>1, <3>1 DEF Facts, Whole, HeadApart, HeadSealed
    <3>3. QED BY <1>2, <1>6, <3>1, <3>2 DEF HeadApart
  <2>2. CASE t # App
    <3>1. th'[App] = th[App]
      BY <1>3, <2>2, Names
    <3>2. head # None => head \in Segs
      BY DEF Facts, FileTypes
    <3>3. QED BY <1>2, <1>6, <1>12, <3>1, <3>2 DEF Facts, Whole, HeadApart
  <2>3. QED BY <2>1, <2>2
<1>16. Moving(M, e)'
  <2>1. ASSUME NEW u \in Threads, u # t PROVE MoveAt(u, th[u], M, e)'
    <3>1. ASSUME th[u].op = "get", Past(th[u]), NEW d \in Cleaners PROVE own'[d] # th[u].seg
      <4>1. th[u].seg # None /\ own[d] # th[u].seg /\ lock["cleaner"] = u
        <5>1. MoveAt(u, th[u], M, e) /\ MoveShape(u, th[u]) /\ "cleaner" \in Lists
          BY ThreadFacts DEF Lists
        <5>2. MayHold(th[u], "cleaner")
          BY <3>1, <5>1 DEF MayHold, Past, MoveShape
        <5>3. QED BY <3>1, <5>1, <5>2, Witnesses DEF MoveAt, GetAt
      <4>2. th[t].op # "get"
        <5>1. "cleaner" \in Lists
          BY DEF Lists
        <5>2. th[t].op = "get" => MayHold(th[t], "cleaner")
          BY <1>2 DEF MayHold
        <5>3. QED BY <2>1, <4>1, <5>1, <5>2, Witnesses
      <4>3. own'[d] \in {own[d], None}
        BY <1>2, <1>4, <4>2 DEF Facts, FileTypes
      <4>4. QED BY <4>1, <4>3
    <3>2. th'[u] = th[u]
      BY <1>3, <2>1
    <3>3. u \in Cleaners => own'[u] = own[u] /\ claim'[u] = claim[u]
      BY <1>2, <1>4, <2>1 DEF Facts, FileTypes
    <3>4. QED BY <1>2, <2>1, <3>1, <3>2, <3>3, LateSegment, OtherMove
  <2>2. MoveAt(t, NoMove, M, e)'
    BY DEF MoveAt, NoMove
  <2>3. QED BY <1>3, <2>1, <2>2 DEF Moving
<1>17. Owns(M)'
  <2>0. own \in [Cleaners -> Segs \cup {None}] /\ "cleaner" \in Lists
    BY DEF Facts, FileTypes, Lists
  <2>1. CASE th[t].op = "get"
    <3>1. /\ s \in M["cleaner"] /\ \A d \in Cleaners : own[d] # s
      BY <1>1, <1>2, <1>5, <1>7, <2>0, <2>1 DEF MoveAt, GetAt
    <3>2. own'[t] = s /\ t \in Cleaners /\ \A c \in Cleaners : c # t => own'[c] = own[c]
      BY <1>4, <1>5, <2>0, <2>1
    <3>3. \A c \in Cleaners : c # t => th'[c] = th[c]
      BY <1>3, Names
    <3>4. QED BY <3>1, <3>2, <3>3 DEF Facts, Whole, Owns
  <2>2. CASE th[t].op = "retire"
    <3>1. own'[t] = None /\ t \in Cleaners /\ \A c \in Cleaners : c # t => own'[c] = own[c]
      BY <1>4, <1>5, <2>0, <2>2
    <3>2. \A c \in Cleaners : c # t => th'[c] = th[c]
      BY <1>3, Names
    <3>3. QED BY <3>1, <3>2 DEF Facts, Whole, Owns
  <2>3. CASE th[t].op \notin {"get", "retire"}
    <3>1. own' = own
      BY <1>4, <2>3
    <3>2. \A c \in Cleaners : c # t => th'[c] = th[c]
      BY <1>3, Names
    <3>3. QED BY <2>3, <3>1, <3>2 DEF Facts, Whole, Owns
  <2>4. QED BY <2>1, <2>2, <2>3
<1>18. Claims(M)'
  <2>0. claim \in [Cleaners -> Segs \cup {None}]
    BY DEF Facts, FileTypes
  <2>1. \A c \in Cleaners : c # t => th'[c] = th[c]
    BY <1>3, Names
  <2>2. CASE th[t].op = "reclaim"
    <3>1. claim'[t] = None /\ t \in Cleaners /\ \A c \in Cleaners : c # t => claim'[c] = claim[c]
      BY <1>4, <1>5, <2>0, <2>2
    <3>2. QED BY <2>1, <3>1 DEF Facts, Whole, Claims
  <2>3. CASE th[t].op # "reclaim"
    <3>1. claim' = claim
      BY <1>4, <2>3
    <3>2. QED BY <2>1, <2>3, <3>1 DEF Facts, Whole, Claims
  <2>4. QED BY <2>2, <2>3
<1>19. Counts(M)'
  <2>1. (Refills(NoMove) <=> Refills(th[t])) /\ (Drains(NoMove) <=> Drains(th[t]))
    BY <1>2 DEF Refills, Drains, NoMove
  <2>2. NoMove.op # "reclaim"
    BY DEF NoMove
  <2>3. QED BY <1>2, <2>1, <2>2, CountsKept
<1>20. QED BY <1>8, <1>9, <1>10, <1>11, <1>13, <1>14, <1>15, <1>16, <1>17, <1>18, <1>19 DEF Whole

(* A walk that meets no segment twice.                                     *)
Once(f) ==
    \A i, j \in 0 .. NSeg : i < j /\ Chain(f)[i] # None => Chain(f)[i] # Chain(f)[j]

(* A walk counts no fewer segments than it meets, and exactly those if it  *)
(* meets none of them twice.                                               *)
LEMMA WalkLength ==
    ASSUME NextOK, NEW f \in Segs \cup {None}
    PROVE  /\ On(f) \subseteq Segs /\ IsFiniteSet(On(f))
           /\ Length(f) \in Nat /\ Cardinality(On(f)) \in Nat
           /\ Cardinality(On(f)) <= Length(f)
           /\ Cardinality(On(f)) = Length(f) => Once(f)
<1> DEFINE c == Chain(f)
           I == {i \in 0 .. NSeg : c[i] # None}
           g == [i \in I |-> c[i]]
<1>1. NSeg \in Nat /\ c \in [0 .. NSeg -> Segs \cup {None}] /\ None \notin Segs
  BY ChainFacts, SegsFinite
<1>2. On(f) = {c[i] : i \in I} /\ Length(f) = Cardinality(I)
  BY DEF On, Length
<1>3. IsFiniteSet(I)
  <2>1. IsFiniteSet(0 .. NSeg) /\ I \subseteq 0 .. NSeg
    BY <1>1, FS_Interval
  <2> HIDE DEF I
  <2>2. QED BY <2>1, FS_Subset
<1> HIDE DEF c
<1>4. g \in Surjection(I, On(f))
  <2>1. g \in [I -> On(f)] /\ \A s \in On(f) : \E i \in I : g[i] = s
    BY <1>2
  <2> HIDE DEF g, I
  <2>2. QED BY <2>1 DEF Surjection
<1>5. /\ IsFiniteSet(On(f)) /\ Cardinality(On(f)) <= Cardinality(I)
      /\ Cardinality(On(f)) = Cardinality(I) <=> g \in Injection(I, On(f))
  <2> HIDE DEF g, I
  <2>1. QED BY <1>3, <1>4, FS_Surjection
<1>6. Cardinality(I) \in Nat /\ Cardinality(On(f)) \in Nat
  <2> HIDE DEF I
  <2>1. QED BY <1>3, <1>5, FS_CardinalityType
<1>7. g \in Injection(I, On(f)) => Once(f)
  <2>1. SUFFICES ASSUME \A i, j \in I : g[i] = g[j] => i = j PROVE Once(f)
    BY DEF Injection, IsInjective
  <2>2. SUFFICES ASSUME NEW i \in 0 .. NSeg, NEW j \in 0 .. NSeg, i < j, c[i] # None, c[i] = c[j]
                 PROVE FALSE
    BY DEF Once, c
  <2>3. i \in I /\ j \in I
    BY <2>2
  <2>4. i = j
    BY <2>1, <2>2, <2>3
  <2>5. QED BY <1>1, <2>2, <2>4
<1>8. On(f) \subseteq Segs
  BY <1>1, <1>2
<1>9. QED BY <1>2, <1>5, <1>6, <1>7, <1>8

(* Two sets have as many elements as both together only if they are apart. *)
LEMMA TwoSets ==
    ASSUME NEW A, IsFiniteSet(A), NEW B, IsFiniteSet(B)
    PROVE  /\ IsFiniteSet(A \cup B)
           /\ Cardinality(A) \in Nat /\ Cardinality(B) \in Nat /\ Cardinality(A \cup B) \in Nat
           /\ Cardinality(A \cup B) <= Cardinality(A) + Cardinality(B)
           /\ Cardinality(A \cup B) = Cardinality(A) + Cardinality(B) => A \cap B = {}
<1>1. IsFiniteSet(A \cup B) /\ IsFiniteSet(A \cap B)
  BY FS_Union, FS_Intersection
<1>2. /\ Cardinality(A) \in Nat /\ Cardinality(B) \in Nat /\ Cardinality(A \cup B) \in Nat
      /\ Cardinality(A \cap B) \in Nat
  BY <1>1, FS_CardinalityType
<1>3. Cardinality(A \cup B) = Cardinality(A) + Cardinality(B) - Cardinality(A \cap B)
  BY FS_Union
<1>4. Cardinality(A \cap B) = 0 => A \cap B = {}
  BY <1>1, FS_EmptySet
<1>5. QED BY <1>1, <1>2, <1>3, <1>4

(* The segments from the header on add up, and no walk meets a segment     *)
(* that it or another one has met.                                         *)
Separate ==
    /\ Once(head)
    /\ \A l \in Lists : Once(first[l]) /\ On(head) \cap On(first[l]) = {}
    /\ \A l, k \in Lists : l # k => On(first[l]) \cap On(first[k]) = {}

(* No segment is out of reach.                                             *)
LEMMA Everything ==
    ASSUME NEW M, NEW r, NEW e, Facts(M, r, e)
    PROVE  On(head) \cup UNION {On(first[l]) : l \in Lists} = Segs
<1>1. NextOK /\ head \in Segs \cup {None} /\ \A l \in Lists : first[l] \in Segs \cup {None}
  BY DEF Facts, FileTypes, NextOK
<1>2. On(head) \subseteq Segs /\ \A l \in Lists : On(first[l]) \subseteq Segs
  BY <1>1, WalkLength
<1>3. ASSUME NEW s \in Segs, s = head PROVE s \in On(head)
  <2>1. Chain(head)[0] = head /\ 0 \in 0 .. NSeg /\ head # None
    BY <1>1, <1>3, ChainFacts, SegsFinite
  <2>2. QED BY <1>3, <2>1 DEF On
<1>4. \A l \in Lists : M[l] \subseteq On(first[l])
  BY <1>1, EndIn, Reach
<1>5. ASSUME NEW s \in Segs PROVE s \in On(head) \/ \E l \in Lists : s \in On(first[l])
  BY <1>3, <1>4 DEF Facts, Whole, Cover
<1>6. QED BY <1>2, <1>5

(* If the walks count NSeg segments in all, they are Separate.             *)
LEMMA Adds ==
    ASSUME NEW M, NEW r, NEW e, Facts(M, r, e), SegCount = NSeg
    PROVE  Separate
<1> DEFINE H == On(head)
           F == On(first["free"])
           U == On(first["used"])
           C == On(first["cleaner"])
           E == On(first["emergency"])
<1>1. NextOK /\ head \in Segs \cup {None} /\ \A l \in Lists : first[l] \in Segs \cup {None}
  BY DEF Facts, FileTypes, NextOK
<1>2. Lists = {"free", "used", "cleaner", "emergency"}
  BY DEF Lists
<1>3. /\ H \cup F \cup U \cup C \cup E = Segs
  BY <1>2, Everything
<1>4. /\ IsFiniteSet(H) /\ Length(head) \in Nat
      /\ Cardinality(H) <= Length(head) /\ (Cardinality(H) = Length(head) => Once(head))
  BY <1>1, WalkLength
<1>5. ASSUME NEW l \in Lists
      PROVE  /\ IsFiniteSet(On(first[l])) /\ Length(first[l]) \in Nat
             /\ Cardinality(On(first[l])) <= Length(first[l])
             /\ Cardinality(On(first[l])) = Length(first[l]) => Once(first[l])
  BY <1>1, WalkLength
<1>6. /\ Length(head) + Length(first["free"]) + Length(first["used"])
            + Length(first["cleaner"]) + Length(first["emergency"]) = NSeg
      /\ Cardinality(Segs) = NSeg
  BY SegsFinite DEF SegCount
<1>7. /\ IsFiniteSet(F) /\ IsFiniteSet(U) /\ IsFiniteSet(C) /\ IsFiniteSet(E)
  BY <1>2, <1>5
<1>8. /\ Cardinality(F) <= Length(first["free"]) /\ Cardinality(U) <= Length(first["used"])
      /\ Cardinality(C) <= Length(first["cleaner"]) /\ Cardinality(E) <= Length(first["emergency"])
      /\ Length(first["free"]) \in Nat /\ Length(first["used"]) \in Nat
      /\ Length(first["cleaner"]) \in Nat /\ Length(first["emergency"]) \in Nat
  BY <1>2, <1>5
<1> HIDE DEF H, F, U, C, E
<1> DEFINE HF == H \cup F
           HFU == HF \cup U
           HFUC == HFU \cup C
           All == HFUC \cup E
<1>9. /\ Cardinality(H) \in Nat /\ Cardinality(F) \in Nat /\ Cardinality(U) \in Nat
      /\ Cardinality(C) \in Nat /\ Cardinality(E) \in Nat
  BY <1>4, <1>7, FS_CardinalityType
<1>10. /\ IsFiniteSet(HF) /\ Cardinality(HF) \in Nat
       /\ Cardinality(HF) <= Cardinality(H) + Cardinality(F)
       /\ Cardinality(HF) = Cardinality(H) + Cardinality(F) => H \cap F = {}
  BY <1>4, <1>7, TwoSets
<1> HIDE DEF HF
<1>11. /\ IsFiniteSet(HFU) /\ Cardinality(HFU) \in Nat
       /\ Cardinality(HFU) <= Cardinality(HF) + Cardinality(U)
       /\ Cardinality(HFU) = Cardinality(HF) + Cardinality(U) => HF \cap U = {}
  BY <1>7, <1>10, TwoSets
<1> HIDE DEF HFU
<1>12. /\ IsFiniteSet(HFUC) /\ Cardinality(HFUC) \in Nat
       /\ Cardinality(HFUC) <= Cardinality(HFU) + Cardinality(C)
       /\ Cardinality(HFUC) = Cardinality(HFU) + Cardinality(C) => HFU \cap C = {}
  BY <1>7, <1>11, TwoSets
<1> HIDE DEF HFUC
<1>13. /\ IsFiniteSet(All) /\ Cardinality(All) \in Nat
       /\ Cardinality(All) <= Cardinality(HFUC) + Cardinality(E)
       /\ Cardinality(All) = Cardinality(HFUC) + Cardinality(E) => HFUC \cap E = {}
  BY <1>7, <1>12, TwoSets
<1>14. All = Segs
  BY <1>3 DEF HF, HFU, HFUC
<1> HIDE DEF All
<1>15. Cardinality(All) = NSeg /\ NSeg \in Nat
  BY <1>6, <1>14, SegsFinite
<1>16. /\ Cardinality(HF) = Cardinality(H) + Cardinality(F)
       /\ Cardinality(HFU) = Cardinality(HF) + Cardinality(U)
       /\ Cardinality(HFUC) = Cardinality(HFU) + Cardinality(C)
       /\ Cardinality(All) = Cardinality(HFUC) + Cardinality(E)
       /\ Cardinality(H) = Length(head) /\ Cardinality(F) = Length(first["free"])
       /\ Cardinality(U) = Length(first["used"]) /\ Cardinality(C) = Length(first["cleaner"])
       /\ Cardinality(E) = Length(first["emergency"])
  BY <1>4, <1>6, <1>8, <1>9, <1>10, <1>11, <1>12, <1>13, <1>15, SMT
<1>17. /\ H \cap F = {} /\ HF \cap U = {} /\ HFU \cap C = {} /\ HFUC \cap E = {}
  BY <1>10, <1>11, <1>12, <1>13, <1>16
<1>18. /\ H \cap F = {} /\ H \cap U = {} /\ H \cap C = {} /\ H \cap E = {}
       /\ F \cap U = {} /\ F \cap C = {} /\ F \cap E = {} /\ U \cap C = {} /\ U \cap E = {}
       /\ C \cap E = {}
  BY <1>17 DEF HF, HFU, HFUC
<1>19. Once(head) /\ \A l \in Lists : Once(first[l])
  BY <1>2, <1>4, <1>5, <1>16 DEF H, F, U, C, E
<1>20. QED BY <1>2, <1>18, <1>19 DEF Separate, H, F, U, C, E

(* When the segments add up, the head is in no list and is alone.          *)
LEMMA HeadAlone ==
    ASSUME NEW M, NEW r, NEW e, Facts(M, r, e), Separate, head # None
    PROVE  next[head] = None /\ \A l \in Lists : head \notin M[l]
<1>1. /\ NextOK /\ head \in Segs /\ \A l \in Lists : first[l] \in Segs \cup {None}
      /\ NSeg \in Nat /\ NSeg > 1 /\ None \notin Segs
  BY SegsFinite, ListsAssumption DEF Facts, FileTypes, NextOK
<1>2. \A l \in Lists : M[l] \subseteq On(first[l])
  BY <1>1, EndIn, Reach
<1>3. Chain(head)[0] = head /\ Chain(head)[0 + 1] = next[head] /\ {0, 1} \subseteq 0 .. NSeg
  BY <1>1, ChainFacts
<1>4. head \in On(head) /\ next[head] \in On(head) \cup {None}
  BY <1>1, <1>3 DEF On
<1>5. \A l \in Lists : head \notin M[l]
  BY <1>2, <1>4 DEF Separate
<1>6. ASSUME next[head] # None PROVE FALSE
  <2>1. next[head] \in Segs
    BY <1>1, <1>6 DEF NextOK
  <2>2. next[head] # head
    BY <1>1, <1>3 DEF Separate, Once
  <2>3. PICK l \in Lists : next[head] \in M[l]
    BY <2>1, <2>2 DEF Facts, Whole, Cover
  <2>4. QED BY <1>2, <1>4, <1>6, <2>3 DEF Separate
<1>7. QED BY <1>5, <1>6

(* And every list ends with its last segment, and has no other ones.       *)
LEMMA ListsAlone ==
    ASSUME NEW M, NEW r, NEW e, Facts(M, r, e), Separate, NEW l \in Lists
    PROVE  /\ e[l] # None => next[e[l]] = None
           /\ On(first[l]) = M[l] /\ Length(first[l]) = Cardinality(M[l])
<1>1. /\ NextOK /\ head \in Segs \cup {None}
      /\ \A k \in Lists : first[k] \in Segs \cup {None}
      /\ NSeg \in Nat /\ None \notin Segs
  BY SegsFinite DEF Facts, FileTypes, NextOK
<1>2. \A k \in Lists : M[k] \subseteq On(first[k])
  BY <1>1, EndIn, Reach
<1>3. /\ M[l] \subseteq Segs /\ r[l] \in [Segs -> Nat]
      /\ Line(next, M[l], r[l], first[l], e[l])
      /\ e[l] # None => e[l] \in M[l] /\ e[l] \in Segs
      /\ e[l] = None <=> M[l] = {}
  BY EndIn
<1>4. ASSUME e[l] # None, next[e[l]] # None PROVE FALSE
  <2>1. PICK k \in 0 .. NSeg - 1 : Visits(first[l], e[l], M[l], k)
    BY <1>1, <1>3, <1>4, Walk
  <2>2. PICK y : y = next[e[l]]
    OBVIOUS
  <2>3. Chain(first[l])[k] = e[l] /\ Chain(first[l])[k + 1] = y /\ k + 1 \in 0 .. NSeg /\ y # None
    BY <1>1, <1>4, <2>1, <2>2, ChainFacts DEF Visits
  <2>4. y \in Segs /\ y \in On(first[l])
    BY <1>1, <1>3, <1>4, <2>2, <2>3 DEF NextOK, On
  <2>5. y \notin M[l]
    <3>1. SUFFICES ASSUME y \in M[l] PROVE FALSE
      OBVIOUS
    <3>2. PICK i \in 0 .. k : Chain(first[l])[i] = y
      BY <2>1, <3>1 DEF Visits
    <3>3. i \in 0 .. NSeg /\ i < k + 1
      BY <1>1
    <3>4. QED BY <2>3, <3>2, <3>3 DEF Separate, Once
  <2>6. y # head
    <3>1. SUFFICES ASSUME y = head PROVE FALSE
      OBVIOUS
    <3>2. Chain(head)[0] = head /\ 0 \in 0 .. NSeg
      BY <1>1, ChainFacts
    <3>3. head \in On(head)
      BY <2>3, <3>1, <3>2 DEF On
    <3>4. QED BY <2>4, <3>1, <3>3 DEF Separate
  <2>7. PICK j \in Lists : y \in M[j]
    BY <2>4, <2>6 DEF Facts, Whole, Cover
  <2>8. QED BY <1>2, <2>4, <2>5, <2>7 DEF Separate
<1>5. On(first[l]) = M[l] /\ Length(first[l]) = Cardinality(M[l])
  BY <1>1, <1>3, <1>4, Exactly
<1>6. QED BY <1>4, <1>5

(* No segment is in two lists, so that nobody is at moving one.            *)
LEMMA NobodyMoves ==
    ASSUME NEW M, NEW r, NEW e, Facts(M, r, e), Separate, NEW t \in Threads
    PROVE  ~(Cleans(th[t]) /\ Both(th[t])) /\ ~(th[t].op = "seal" /\ th[t].at = "last")
<1>1. \A l, k \in Lists : l # k => M[l] \cap M[k] = {}
  BY ListsAlone DEF Separate
<1>2. MoveShape(t, th[t]) /\ MoveAt(t, th[t], M, e) /\ None \notin Segs
  BY ThreadFacts
<1>3. ASSUME Cleans(th[t]), Both(th[t]) PROVE FALSE
  <2>1. /\ th[t].from \in Lists /\ th[t].to \in Lists /\ th[t].from # th[t].to /\ th[t].seg \in Segs
        /\ ~LateBoth(th[t]) => th[t].seg \in M[th[t].to]
    BY <1>3, InBoth
  <2>2. CASE LateBoth(th[t])
    BY <1>1, <2>2, LateSegment DEF Lists
  <2>3. CASE ~LateBoth(th[t])
    <3>1. th[t].seg \in M[th[t].from]
      <4>1. CASE th[t].op = "get"
        BY <1>2, <1>3, <2>1, <4>1, EndIn DEF MoveAt, GetAt
      <4>2. CASE th[t].op = "retire"
        BY <1>2, <1>3, <4>2 DEF MoveAt, RetireAt, MoveShape, Both, Facts, Whole, Owns
      <4>3. CASE th[t].op = "reclaim"
        BY <1>2, <1>3, <4>3 DEF MoveAt, ReclaimAt, MoveShape, Both, Facts, Whole, Claims
      <4>4. QED BY <1>3, <4>1, <4>2, <4>3 DEF Cleans
    <3>2. QED BY <1>1, <2>1, <2>3, <3>1
  <2>4. QED BY <2>2, <2>3
<1>4. ASSUME th[t].op = "seal", th[t].at = "last" PROVE FALSE
  <2>1. e["used"] = head /\ head # None /\ "used" \in Lists
    BY <1>2, <1>4 DEF MoveAt, SealAt, Lists
  <2>2. QED BY <2>1, EndIn, HeadAlone
<1>5. QED BY <1>3, <1>4

(* A list that has segments ends with its last one.                        *)
LEMMA LastsAlone ==
    ASSUME NEW M, NEW r, NEW e, Facts(M, r, e), Separate, NEW l \in Lists, first[l] # None
    PROVE  Ends(l)
<1>1. ASSUME NEW t \in Threads PROVE ~LastsOff(t, l, M, e)
  <2>1. MoveShape(t, th[t])
    BY ThreadFacts
  <2>2. ~(Cleans(th[t]) /\ Both(th[t])) /\ ~(th[t].op = "seal" /\ th[t].at = "last")
    BY NobodyMoves
  <2>3. QED BY <2>1, <2>2 DEF LastsOff, MoveShape, Cleans, Both
<1>2. last[l] = e[l]
  BY <1>1 DEF Facts, Whole, Lasts
<1>3. e[l] # None /\ e[l] \in M[l]
  BY EndIn
<1>4. QED BY <1>2, <1>3, ListsAlone DEF Ends

(* Every segment is in one place, and a list ends with its last one.       *)
OnePlace ==
    \A l \in Lists :
        /\ On(first[l]) \cap (On(head) \cup UNION {On(first[k]) : k \in Lists \ {l}}) = {}
        /\ first[l] # None => Ends(l)

(* When the segments add up, each is in one place.                         *)
LEMMA SeparateOnePlace ==
    ASSUME NEW M, NEW r, NEW e, Facts(M, r, e), Separate
    PROVE  OnePlace
<1>1. ASSUME NEW l \in Lists
      PROVE  On(first[l]) \cap (On(head) \cup UNION {On(first[k]) : k \in Lists \ {l}}) = {}
  BY DEF Separate
<1>2. QED BY <1>1, LastsAlone DEF OnePlace

(* It depends on what is in the file only.                                 *)
LEMMA SamePlace ==
    ASSUME OnePlace, UNCHANGED <<next, first, last, head>>
    PROVE  OnePlace'
<1>1. On(head)' = On(head)
  BY DEF On, Chain
<1>2. \A l \in Lists : On(first[l])' = On(first[l])
  BY DEF On, Chain
<1>3. \A l \in Lists : Ends(l)' = Ends(l)
  BY <1>2 DEF Ends
<1>4. \A l \in Lists : UNION {On(first[k])' : k \in Lists \ {l}} = UNION {On(first[k]) : k \in Lists \ {l}}
  BY <1>2
<1>6. QED BY <1>1, <1>2, <1>3, <1>4 DEF OnePlace

(* A crash changes no list; what is accepted has every segment in one      *)
(* place.                                                                  *)
LEMMA CrashPlace ==
    ASSUME NEW M, NEW r, NEW e, Facts(M, r, e), Crash, accepted'
    PROVE  Separate /\ OnePlace'
<1>1. SegCount = NSeg /\ UNCHANGED <<next, first, last, head>>
  BY DEF Crash, fileVars
<1>2. Separate /\ OnePlace
  BY <1>1, Adds, SeparateOnePlace
<1>3. QED BY <1>1, <1>2, SamePlace

(* If nothing is stale after the crash, the lists are whole.               *)
LEMMA CrashLists ==
    ASSUME NEW M, NEW r, NEW e, Facts(M, r, e), Crash, Running'
    PROVE  FileTypes' /\ Whole(M, r, e)'
<1>1. /\ UNCHANGED <<next, first, last, head, count>>
      /\ th' = [t \in Threads |-> NoMove] /\ claim' = [c \in Cleaners |-> None]
      /\ Separate /\ (\A l \in Lists : Ends(l)) /\ Counted
  BY CrashPlace DEF Crash, fileVars, Running
<1>2. /\ own' \in [Cleaners -> Segs \cup {None}]
      /\ {own'[c] : c \in Cleaners} \ {None} = On(first["cleaner"])
      /\ \A c, d \in Cleaners : own'[c] = own'[d] /\ own'[c] # None => c = d
  BY DEF Crash, Running
<1>3. App \in Threads /\ Cleaners \subseteq Threads /\ None \notin Segs
      /\ {"cleaner", "emergency"} \subseteq Lists
  BY Names DEF Lists
<1>4. \A t \in Threads : th'[t] = NoMove
  BY <1>1
<1>5. \A l \in Lists : /\ M[l] \subseteq Segs /\ Line(next, M[l], r[l], first[l], e[l])
                       /\ e[l] # None => e[l] \in M[l] /\ e[l] \in Segs
                       /\ e[l] = None <=> M[l] = {}
                       /\ first[l] = None <=> M[l] = {}
  BY EndIn
<1>6. \A l \in Lists : /\ e[l] # None => next[e[l]] = None
                       /\ On(first[l]) = M[l] /\ Length(first[l]) = Cardinality(M[l])
  BY <1>1, ListsAlone
<1>7. FileTypes'
  <2>1. \A t \in Threads : th'[t].seg \in Segs \cup {None}
    BY <1>4 DEF NoMove
  <2>2. claim' \in [Cleaners -> Segs \cup {None}]
    BY <1>1
  <2>3. QED BY <1>1, <1>2, <2>1, <2>2 DEF Facts, FileTypes
<1>8. GhostTypes(M, r, e)' /\ Lines(M, r, e)'
  BY <1>1 DEF Facts, Whole, GhostTypes, Lines, Line
<1>9. Lasts(M, e)'
  <2>1. ASSUME NEW l \in Lists PROVE last[l] = e[l]
    <3>1. CASE first[l] = None
      BY <1>1, <1>5, <3>1 DEF Ends
    <3>2. CASE first[l] # None
      <4>1. last[l] \in M[l] /\ next[last[l]] = None
        BY <1>1, <1>6, <3>2 DEF Ends
      <4>2. \A s \in M[l] \ {e[l]} : next[s] \in M[l]
        BY <1>5 DEF Line
      <4>3. QED BY <1>3, <1>5, <4>1, <4>2
    <3>3. QED BY <3>1, <3>2
  <2>2. QED BY <1>1, <2>1 DEF Lasts
<1>10. Clean(e)'
  BY <1>1, <1>6 DEF Clean
<1>11. ~HeadSealed'
  BY <1>3, <1>4 DEF HeadSealed, NoMove
<1>12. Cover(M)'
  BY <1>1, <1>11 DEF Facts, Whole, Cover
<1>13. Apart(M)'
  BY <1>1, <1>6 DEF Apart, Separate
<1>14. HeadApart(M)'
  BY <1>1, HeadAlone DEF HeadApart
<1>15. Moving(M, e)'
  BY <1>4 DEF Moving, MoveAt, NoMove
<1>16. Owns(M)'
  <2>1. \A c \in Cleaners : own'[c] # None => own'[c] \in M["cleaner"]
    BY <1>2, <1>3, <1>6
  <2>2. QED BY <1>2, <2>1 DEF Owns
<1>17. Claims(M)'
  BY <1>1 DEF Claims
<1>18. Counts(M)'
  <2>1. count = Cardinality(M["emergency"])
    BY <1>1, <1>3, <1>6 DEF Counted
  <2>2. \A t \in Threads : /\ ~Refills(th[t])' /\ ~Drains(th[t])' /\ th'[t].op = "none"
    BY <1>4 DEF Refills, Drains, NoMove
  <2>3. QED BY <1>1, <2>1, <2>2 DEF Counts
<1>19. QED BY <1>7, <1>8, <1>9, <1>10, <1>12, <1>13, <1>14, <1>15, <1>16, <1>17, <1>18 DEF Whole

(* What init_log leaves behind is whole: three chains of consecutive       *)
(* segments, one of them the head alone.                                   *)
LEMMA InitLists ==
    ASSUME Init
    PROVE  FileTypes /\ \E M, r, e : Whole(M, r, e)
<1>1. /\ NSeg \in Nat /\ EmergencyCount \in Nat \ {0} /\ EmergencyCount + 1 < NSeg
      /\ None \notin Segs /\ App \in Threads /\ Segs = 0 .. NSeg - 1
      /\ Lists = {"free", "used", "cleaner", "emergency"}
  BY SegsFinite, ListsAssumption DEF Threads, Segs, Lists
<1>2. PICK g : g = NSeg - EmergencyCount
  OBVIOUS
<1>3. g \in Segs /\ g - 1 \in Segs /\ 1 <= g - 1 /\ g <= NSeg - 1 /\ NSeg - 1 \in Segs
      /\ 0 \in Segs /\ 1 \in Segs
  BY <1>1, <1>2
<1>4. PICK M, r, e :
         /\ M = [l \in Lists |-> CASE l = "free" -> 1 .. g - 1
                                   [] l = "emergency" -> g .. NSeg - 1
                                   [] OTHER -> {}]
         /\ r = [l \in Lists |-> [s \in Segs |-> s]]
         /\ e = last
  OBVIOUS
<1>5. /\ M["free"] = 1 .. g - 1 /\ M["emergency"] = g .. NSeg - 1
      /\ M["used"] = {} /\ M["cleaner"] = {}
      /\ \A l \in Lists : \A s \in Segs : r[l][s] = s
  BY <1>1, <1>4
<1>6. /\ first["free"] = 1 /\ last["free"] = g - 1
      /\ first["emergency"] = g /\ last["emergency"] = NSeg - 1
      /\ first["used"] = None /\ last["used"] = None
      /\ first["cleaner"] = None /\ last["cleaner"] = None
      /\ first = [l \in Lists |-> first[l]] /\ last = [l \in Lists |-> last[l]]
  BY <1>1, <1>2 DEF Init
<1>7. /\ head = 0 /\ count = EmergencyCount
      /\ th = [t \in Threads |-> NoMove]
      /\ own = [c \in Cleaners |-> None] /\ claim = [c \in Cleaners |-> None]
  BY DEF Init
<1>8. /\ next \in [Segs -> Segs \cup {None}]
      /\ next[0] = None /\ next[g - 1] = None /\ next[NSeg - 1] = None
      /\ \A s \in Segs \ {0, g - 1, NSeg - 1} : next[s] = s + 1
  <2>1. next = [s \in Segs |-> IF s \in {0, g - 1, NSeg - 1} THEN None ELSE s + 1]
    BY <1>2 DEF Init
  <2>2. \A s \in Segs : s \notin {0, g - 1, NSeg - 1} => s + 1 \in Segs
    BY <1>1
  <2>3. QED BY <1>3, <2>1, <2>2
<1>9. FileTypes
  <2>1. first \in [Lists -> Segs \cup {None}] /\ last \in [Lists -> Segs \cup {None}]
    BY <1>1, <1>3, <1>6
  <2>2. \A t \in Threads : th[t].seg \in Segs \cup {None}
    BY <1>7 DEF NoMove
  <2>3. own \in [Cleaners -> Segs \cup {None}] /\ claim \in [Cleaners -> Segs \cup {None}]
    BY <1>7
  <2>4. head \in Segs /\ count \in 0 .. EmergencyCount
    BY <1>1, <1>3, <1>7
  <2>5. QED BY <1>8, <2>1, <2>2, <2>3, <2>4 DEF FileTypes
<1>10. GhostTypes(M, r, e)
  <2>1. M["free"] \subseteq Segs /\ M["emergency"] \subseteq Segs
    BY <1>1, <1>3, <1>5
  <2>2. M \in [Lists -> SUBSET Segs]
    BY <1>1, <1>4, <1>5, <2>1
  <2>3. r \in [Lists -> [Segs -> Nat]]
    BY <1>1, <1>4
  <2>4. QED BY <1>4, <1>9, <2>2, <2>3 DEF GhostTypes, FileTypes
<1>11. Lines(M, r, e)
  <2>1. ASSUME NEW a \in Segs, NEW z \in Segs, a <= z, NEW q, \A s \in Segs : q[s] = s,
               \A s \in a .. z : s # z => next[s] = s + 1
        PROVE  Line(next, a .. z, q, a, z)
    <3>0. a .. z \subseteq Segs /\ a .. z \subseteq Nat /\ a \in Nat /\ z \in Nat
      BY <1>1
    <3>1. a # None /\ z # None /\ a .. z # {} /\ a \in a .. z /\ z \in a .. z
      BY <1>1, <2>1, <3>0
    <3>2. \A s \in a .. z : q[s] = s /\ a <= s /\ s <= z
      BY <2>1, <3>0
    <3>3. \A s \in (a .. z) \ {z} : next[s] = s + 1 /\ s + 1 \in a .. z /\ s < s + 1
      BY <2>1, <3>0
    <3>4. \A s \in (a .. z) \ {a} : s - 1 \in (a .. z) \ {z} /\ (s - 1) + 1 = s
      BY <3>0
    <3>5. \A s \in (a .. z) \ {a} : \E p \in (a .. z) \ {z} : next[p] = s
      BY <3>3, <3>4
    <3>6. \A s \in (a .. z) \ {z} :
             /\ next[s] \in a .. z /\ q[s] < q[next[s]]
             /\ \A u \in a .. z : q[u] <= q[s] \/ q[next[s]] <= q[u]
      BY <3>0, <3>2, <3>3
    <3>7. /\ \A s \in a .. z : q[a] <= q[s] /\ q[s] <= q[z]
          /\ \A s, u \in a .. z : q[s] = q[u] => s = u
      BY <3>1, <3>2
    <3>8. QED BY <3>1, <3>5, <3>6, <3>7 DEF Line
  <2>2. Line(next, M["free"], r["free"], first["free"], e["free"])
    <3>1. \A s \in 1 .. g - 1 : s # g - 1 => next[s] = s + 1
      BY <1>1, <1>3, <1>8
    <3>2. "free" \in Lists
      BY <1>1
    <3>3. QED BY <1>3, <1>4, <1>5, <1>6, <2>1, <3>1, <3>2
  <2>3. Line(next, M["emergency"], r["emergency"], first["emergency"], e["emergency"])
    <3>1. \A s \in g .. NSeg - 1 : s # NSeg - 1 => next[s] = s + 1
      BY <1>1, <1>3, <1>8
    <3>2. "emergency" \in Lists
      BY <1>1
    <3>3. QED BY <1>3, <1>4, <1>5, <1>6, <2>1, <3>1, <3>2
  <2>4. ASSUME NEW l \in {"used", "cleaner"} PROVE Line(next, M[l], r[l], first[l], e[l])
    <3>1. M[l] = {} /\ first[l] = None /\ e[l] = None
      BY <1>4, <1>5, <1>6
    <3>2. QED BY <3>1 DEF Line
  <2>5. QED BY <1>1, <2>2, <2>3, <2>4 DEF Lines
<1>12. Lasts(M, e) /\ Clean(e)
  BY <1>1, <1>4, <1>6, <1>8 DEF Lasts, Clean
<1>13. \A t \in Threads : th[t] = NoMove
  BY <1>7
<1>14. ~HeadSealed
  BY <1>1, <1>13 DEF HeadSealed, NoMove
<1>15. Cover(M)
  <2>1. \A s \in Segs : s = 0 \/ s \in 1 .. g - 1 \/ s \in g .. NSeg - 1
    BY <1>1, <1>3
  <2>2. QED BY <1>1, <1>5, <1>7, <1>14, <2>1 DEF Cover
<1>16. \A l, k \in Lists : \A s \in M[l] : l # k => s \notin M[k]
  <2>1. \A s \in 1 .. g - 1 : s \notin g .. NSeg - 1
    BY <1>1, <1>3
  <2>2. QED BY <1>1, <1>5, <2>1
<1>17. Apart(M)
  BY <1>16 DEF Apart
<1>18. HeadApart(M)
  <2>1. \A l \in Lists : 0 \notin M[l]
    BY <1>1, <1>3, <1>5
  <2>2. QED BY <1>7, <1>8, <2>1 DEF HeadApart
<1>19. Moving(M, e)
  BY <1>13 DEF Moving, MoveAt, NoMove
<1>20. Owns(M) /\ Claims(M)
  BY <1>7 DEF Owns, Claims
<1>21. Counts(M)
  <2>1. Cardinality(M["emergency"]) = EmergencyCount
    <3>1. Cardinality(g .. NSeg - 1) = (NSeg - 1) - g + 1
      BY <1>1, <1>3, FS_Interval
    <3>2. QED BY <1>1, <1>2, <1>5, <3>1
  <2>2. \A t \in Threads : ~Refills(th[t]) /\ ~Drains(th[t]) /\ th[t].op = "none"
    BY <1>13 DEF Refills, Drains, NoMove
  <2>3. QED BY <1>7, <2>1, <2>2 DEF Counts
<1>22. Whole(M, r, e)
  BY <1>10, <1>11, <1>12, <1>15, <1>17, <1>18, <1>19, <1>20, <1>21 DEF Whole
<1>23. QED BY <1>9, <1>22

(* No step has gone wrong so far: then the lists are whole.                *)
RunningWhole == Running => FileTypes /\ \E M, r, e : Whole(M, r, e)

(* Every step of a move keeps the lists whole, or goes wrong.              *)
LEMMA StepLists ==
    ASSUME NEW M, NEW r, NEW e, Facts(M, r, e), NEW t \in Threads, Step(t), Running'
    PROVE  FileTypes' /\ \E M2, r2, e2 : Whole(M2, r2, e2)'
<1>1. MoveShape(t, th[t]) /\ (t = App \/ t \in Cleaners) /\ App \notin Cleaners
  BY ThreadFacts DEF Threads
<1>2. CASE LockOuter(t)
  <2>1. t \in Cleaners
    BY <1>1, <1>2 DEF LockOuter, At, MoveShape
  <2>2. QED BY <1>2, <2>1, CleanerQuiet
<1>3. CASE SetLast(t)
  BY <1>1, <1>3, SetLastSeal, SetLastCleaner
<1>4. CASE Recount(t)
  <2>1. t \in Cleaners
    BY <1>1, <1>4 DEF Recount, At, MoveShape
  <2>2. QED BY <1>4, <2>1, RecountLists
<1>5. CASE Link(t)
  BY <1>5, LinkLists
<1>6. CASE CutFirst(t)
  BY <1>6, CutFirstLists
<1>7. CASE CutOut(t)
  BY <1>7, CutOutLists
<1>8. CASE Bypass(t)
  BY <1>8, BypassLists
<1>9. CASE Tail(t)
  BY <1>9, TailLists
<1>10. CASE Reset(t)
  BY <1>10, ResetLists
<1>11. QED BY <1>2, <1>3, <1>4, <1>5, <1>6, <1>7, <1>8, <1>9, <1>10 DEF Step

(* Every step of the program does.                                         *)
LEMMA NextLists ==
    ASSUME NEW M, NEW r, NEW e, Facts(M, r, e), Next, Running'
    PROVE  FileTypes' /\ \E M2, r2, e2 : Whole(M2, r2, e2)'
<1>1. App \in Threads /\ Cleaners \subseteq Threads
  BY Names
<1>2. CASE ClientNext
  <2>1. CASE Seal \/ Take \/ TestFree \/ OutOfMemory
    BY <2>1, ClientQuiet
  <2>2. QED BY <1>1, <1>2, <2>1, StepLists DEF ClientNext
<1>3. ASSUME NEW c \in Cleaners, CleanerNext(c)
      PROVE  FileTypes' /\ \E M2, r2, e2 : Whole(M2, r2, e2)'
  <2>1. CASE Get(c) \/ GetEmergency(c) \/ Retire(c) \/ Reclaim(c)
    BY <2>1, CleanerQuiet
  <2>2. CASE Claim(c)
    BY <2>2, ClaimLists
  <2>3. QED BY <1>1, <1>3, <2>1, <2>2, StepLists DEF CleanerNext
<1>4. CASE Crash
  BY <1>4, CrashLists
<1>5. QED BY <1>2, <1>3, <1>4 DEF Next

(* A behaviour ends with a hazard, or with a heap that is not accepted.    *)
LEMMA NextRuns == Next => Running
<1>1. ASSUME NEW t \in Threads, Step(t) PROVE Running
  BY <1>1 DEF Step, LockOuter, Link, SetLast, Recount, CutFirst, CutOut, Bypass, Tail, Reset, At
<1>2. ASSUME NEW c \in Cleaners, CleanerNext(c), ~Step(c) PROVE Running
  BY <1>2 DEF CleanerNext, Get, GetEmergency, Claim, Retire, Reclaim, Ready, At
<1>3. ASSUME ClientNext, ~Step(App) PROVE Running
  BY <1>3 DEF ClientNext, Seal, Take, TestFree, OutOfMemory, Ready, At
<1>4. ASSUME Crash PROVE Running
  BY <1>4 DEF Crash
<1>5. QED BY <1>1, <1>2, <1>3, <1>4, Names DEF Next

(* The number of crashes is bounded, and what goes wrong has a name.       *)
LEMMA FlagsKept ==
    ASSUME ListsTypeOK, Next
    PROVE  /\ crashes' \in 0 .. MaxCrashes /\ accepted' \in BOOLEAN /\ hazards' \subseteq Hazards
           /\ "staleTail" \in hazards' \ hazards => Crash
<1>1. crashes \in 0 .. MaxCrashes /\ accepted \in BOOLEAN /\ hazards \subseteq Hazards
      /\ MaxCrashes \in Nat
  BY ListsAssumption DEF ListsTypeOK
<1>2. CASE Crash
  <2>1. crashes' \in 0 .. MaxCrashes
    BY <1>1, <1>2 DEF Crash
  <2>2. hazards' \in {{"staleTail"}, {}} /\ accepted' \in BOOLEAN
    BY <1>2 DEF Crash
  <2>3. hazards' \subseteq Hazards
    BY <2>2 DEF Hazards
  <2>4. QED BY <1>2, <2>1, <2>2, <2>3
<1>3. ASSUME NEW t \in Threads, Step(t)
      PROVE  /\ crashes' = crashes /\ accepted' = accepted
             /\ hazards' \in {hazards, {}, {"nullDeref"}, {"relinked"}, {"truncated"}}
  BY <1>3 DEF Step, LockOuter, Link, SetLast, Recount, CutFirst, CutOut, Bypass, Tail, Reset
<1>4. ASSUME NEW c \in Cleaners, CleanerNext(c), ~Step(c)
      PROVE  UNCHANGED <<crashes, accepted, hazards>>
  BY <1>4 DEF CleanerNext, Get, GetEmergency, Claim, Retire, Reclaim, Moves
<1>5. ASSUME ClientNext, ~Step(App) PROVE UNCHANGED <<crashes, accepted, hazards>>
  BY <1>5 DEF ClientNext, Seal, Take, TestFree, OutOfMemory, Moves
<1>6. App \in Threads /\ Cleaners \subseteq Threads
  BY Names
<1>7. QED BY <1>1, <1>2, <1>3, <1>4, <1>5, <1>6 DEF Next, Hazards

(* A move has its type.                                                    *)
LEMMA MoveTypes ==
    ASSUME NEW t, NEW m, MoveShape(t, m), m.seg \in Segs \cup {None}
    PROVE  m \in Move
<1>1. QED BY DEF MoveShape, Move, Steps

(* The types follow from the rest of the invariant while nothing is wrong. *)
LEMMA RunningTypes ==
    ASSUME LockInv, Running, FileTypes,
           crashes \in 0 .. MaxCrashes, accepted \in BOOLEAN, hazards \subseteq Hazards
    PROVE  ListsTypeOK
<1>1. th \in [Threads -> Move]
  <2>1. th = [t \in Threads |-> th[t]] /\ \A t \in Threads : MoveShape(t, th[t])
    BY DEF LockInv
  <2>2. \A t \in Threads : th[t] \in Move
    BY <2>1, MoveTypes DEF FileTypes
  <2>3. QED BY <2>1, <2>2
<1>2. QED BY <1>1 DEF LockInv, FileTypes, ListsTypeOK

(* The step that goes wrong leaves every variable a value of its type.     *)
LEMMA WrongTypes ==
    ASSUME NEW M, NEW r, NEW e, Facts(M, r, e), ListsTypeOK, Next, ~Running'
    PROVE  ListsTypeOK'
<1>1. crashes' \in 0 .. MaxCrashes /\ accepted' \in BOOLEAN /\ hazards' \subseteq Hazards
  BY FlagsKept
<1>2. /\ next \in [Segs -> Segs \cup {None}]
      /\ first \in [Lists -> Segs \cup {None}] /\ last \in [Lists -> Segs \cup {None}]
      /\ head \in Segs \cup {None} /\ count \in 0 .. EmergencyCount
      /\ lock \in [Lists -> Threads \cup {None}] /\ th \in [Threads -> Move]
      /\ own \in [Cleaners -> Segs \cup {None}] /\ claim \in [Cleaners -> Segs \cup {None}]
      /\ accepted /\ hazards = {}
  BY DEF ListsTypeOK, Facts, Running
<1>3. NoMove \in Move
  BY DEF NoMove, Move, Lists
<1>4. \A t \in Threads, at \in Steps : [th[t] EXCEPT !.at = at] \in Move
  BY <1>2 DEF Move, Steps
<1>5. CASE Crash
  <2>1. UNCHANGED <<next, first, last, head, count>>
    BY <1>5 DEF Crash, fileVars
  <2>2. /\ lock' \in [Lists -> Threads \cup {None}] /\ th' \in [Threads -> Move]
        /\ claim' \in [Cleaners -> Segs \cup {None}]
    BY <1>3, <1>5 DEF Crash
  <2>3. own' \in [Cleaners -> Segs \cup {None}]
    BY <1>2, <1>5 DEF Crash
  <2>4. QED BY <1>1, <1>2, <2>1, <2>2, <2>3 DEF ListsTypeOK
<1>6. ASSUME NEW t \in Threads, Link(t) PROVE ListsTypeOK'
  <2>1. hazards' # {} /\ UNCHANGED <<next, first, head, th, last, count, own, claim>>
    BY <1>2, <1>6 DEF Link, Running
  <2>2. lock' \in [Lists -> Threads \cup {None}]
    BY <1>2, <1>6 DEF Link
  <2>3. QED BY <1>1, <1>2, <2>1, <2>2 DEF ListsTypeOK
<1>7. ASSUME NEW t \in Threads, CutFirst(t) PROVE ListsTypeOK'
  <2>1. MoveShape(t, th[t]) /\ MoveAt(t, th[t], M, e) /\ th[t].seg \in Segs \cup {None}
        /\ th[t].at = "cut" /\ th[t].op \in {"get", "take"}
    BY <1>7, ThreadFacts DEF CutFirst, At
  <2>2. th[t].seg \in Segs
    BY <2>1 DEF MoveAt, GetAt, TakeAt, Past
  <2>3. first' \in [Lists -> Segs \cup {None}]
    BY <1>2, <1>7, <2>2 DEF CutFirst, Rest
  <2>4. th' \in [Threads -> Move]
    BY <1>2, <1>4, <1>7 DEF CutFirst, Goes, Steps
  <2>5. UNCHANGED <<next, last, head, count, lock, own, claim>>
    BY <1>7 DEF CutFirst
  <2>6. QED BY <1>1, <1>2, <2>3, <2>4, <2>5 DEF ListsTypeOK
<1>8. ASSUME NEW t \in Threads, Bypass(t) PROVE ListsTypeOK'
  <2>1. MoveShape(t, th[t]) /\ MoveAt(t, th[t], M, e) /\ th[t].seg \in Segs \cup {None}
        /\ th[t].at = "bypass"
    BY <1>8, ThreadFacts DEF Bypass, At
  <2>2. th[t].seg \in Segs
    BY <2>1 DEF MoveShape, MoveAt, RetireAt, ReclaimAt
  <2>3. next' \in [Segs -> Segs \cup {None}]
    BY <1>2, <1>8, <2>2 DEF Bypass, Rest
  <2>4. th' \in [Threads -> Move] /\ lock' \in [Lists -> Threads \cup {None}]
    BY <1>2, <1>4, <1>8 DEF Bypass, Unlocks, Goes, Steps
  <2>5. UNCHANGED <<first, last, head, count, own, claim>>
    BY <1>8 DEF Bypass
  <2>6. QED BY <1>1, <1>2, <2>3, <2>4, <2>5 DEF ListsTypeOK
<1>9. ASSUME NEW t \in Threads, Reset(t) PROVE ListsTypeOK'
  <2>1. th[t].seg \in Segs \cup {None}
    BY ThreadFacts
  <2>2. next' \in [Segs -> Segs \cup {None}]
    BY <1>2, <1>9 DEF Reset, Cleared
  <2>3. th' \in [Threads -> Move] /\ lock' \in [Lists -> Threads \cup {None}]
    BY <1>2, <1>3, <1>9 DEF Reset
  <2>4. own' \in [Cleaners -> Segs \cup {None}]
    BY <1>2, <1>9, <2>1 DEF Reset
  <2>5. claim' \in [Cleaners -> Segs \cup {None}]
    BY <1>2, <1>9 DEF Reset
  <2>6. UNCHANGED <<first, last, head, count>>
    BY <1>9 DEF Reset
  <2>7. QED BY <1>1, <1>2, <2>2, <2>3, <2>4, <2>5, <2>6 DEF ListsTypeOK
<1>10. ASSUME NEW t \in Threads, LockOuter(t) \/ SetLast(t) \/ Recount(t) \/ CutOut(t) \/ Tail(t)
       PROVE  UNCHANGED <<accepted, hazards>>
  BY <1>10 DEF LockOuter, SetLast, Recount, CutOut, Tail
<1>11. ASSUME NEW c \in Cleaners, CleanerNext(c), ~Step(c) PROVE UNCHANGED <<accepted, hazards>>
  BY <1>11 DEF CleanerNext, Get, GetEmergency, Claim, Retire, Reclaim, Moves
<1>12. ASSUME ClientNext, ~Step(App) PROVE UNCHANGED <<accepted, hazards>>
  BY <1>12 DEF ClientNext, Seal, Take, TestFree, OutOfMemory, Moves
<1>13. ASSUME NEW t \in Threads, Step(t) PROVE ListsTypeOK'
  BY <1>2, <1>6, <1>7, <1>8, <1>9, <1>10, <1>13 DEF Step, Running
<1>14. App \in Threads /\ Cleaners \subseteq Threads
  BY Names
<1>15. QED BY <1>2, <1>5, <1>11, <1>12, <1>13, <1>14 DEF Next, Running

(* The inductive invariant.  The lists are whole, up to the stores that    *)
(* the moves in progress have yet to make, until something goes wrong; a   *)
(* heap accepted with a stale tail has every segment in one place.         *)
ListsInv ==
    /\ LockInv /\ ListsTypeOK /\ RunningWhole
    /\ accepted /\ hazards = {"staleTail"} => OnePlace

(* What init_log leaves behind satisfies the invariant.                    *)
LEMMA InitListsInv == Init => ListsInv
<1> SUFFICES ASSUME Init PROVE ListsInv
  OBVIOUS
<1>1. LockInv /\ FileTypes /\ \E M, r, e : Whole(M, r, e)
  BY InitLockInv, InitLists
<1>2. accepted /\ hazards = {} /\ crashes = 0
  BY DEF Init
<1>3. ListsTypeOK
  BY <1>1, <1>2, RunningTypes, ListsAssumption DEF Running
<1>4. QED BY <1>1, <1>2, <1>3 DEF ListsInv, RunningWhole

(* Every step keeps it.                                                    *)
LEMMA NextListsInv ==
    ASSUME ListsInv, Next, LockInv'
    PROVE  ListsInv'
<1>1. Running
  BY NextRuns
<1>2. PICK M, r, e : Facts(M, r, e)
  BY <1>1 DEF ListsInv, RunningWhole, Facts
<1>3. RunningWhole'
  BY <1>2, NextLists DEF RunningWhole
<1>4. ListsTypeOK'
  <2>1. CASE Running'
    <3>1. FileTypes'
      BY <1>3, <2>1 DEF RunningWhole
    <3>2. crashes' \in 0 .. MaxCrashes /\ accepted' \in BOOLEAN /\ hazards' \subseteq Hazards
      BY FlagsKept DEF ListsInv
    <3>3. (LockInv /\ Running /\ FileTypes /\ crashes \in 0 .. MaxCrashes
           /\ accepted \in BOOLEAN /\ hazards \subseteq Hazards => ListsTypeOK)'
      BY RunningTypes, PTL
    <3>4. QED BY <2>1, <3>1, <3>2, <3>3
  <2>2. CASE ~Running'
    BY <1>2, <2>2, WrongTypes DEF ListsInv
  <2>3. QED BY <2>1, <2>2
<1>5. ASSUME accepted', hazards' = {"staleTail"} PROVE OnePlace'
  <2>1. Crash
    BY <1>1, <1>5, FlagsKept DEF ListsInv, Running
  <2>2. QED BY <1>2, <1>5, <2>1, CrashPlace
<1>6. QED BY <1>3, <1>4, <1>5 DEF ListsInv

(* However many segments, emergency segments and cleaner threads there     *)
(* are, and wherever a crash comes, there are sets, orders and last        *)
(* segments that make the lists whole (log.c:119-162, cleaner.c:187-410).  *)
THEOREM ListsInductive == Spec => []ListsInv
<1>1. Init => ListsInv
  BY InitListsInv
<1>2. ListsInv /\ LockInv' /\ [Next]_vars => ListsInv'
  <2>1. SUFFICES ASSUME ListsInv, LockInv', [Next]_vars PROVE ListsInv'
    OBVIOUS
  <2>2. CASE Next
    BY <2>1, <2>2, NextListsInv
  <2>3. CASE UNCHANGED vars
    <3>1. UNCHANGED <<next, first, last, head, count, lock, th, own, claim, crashes, accepted, hazards>>
      BY <2>3 DEF vars, fileVars
    <3>2. ListsTypeOK'
      BY <2>1, <3>1 DEF ListsInv, ListsTypeOK
    <3>3. ASSUME NEW M, NEW r, NEW e, Whole(M, r, e) PROVE Whole(M, r, e)'
      <4>1. GhostTypes(M, r, e)' /\ Lines(M, r, e)'
        BY <3>1, <3>3 DEF Whole, GhostTypes, Lines, Line
      <4>2. Lasts(M, e)' /\ Clean(e)'
        BY <3>1, <3>3 DEF Whole, Lasts, LastsOff, Clean, Tails
      <4>3. Cover(M)' /\ Apart(M)' /\ HeadApart(M)'
        BY <3>1, <3>3 DEF Whole, Cover, HeadSealed, Apart, Leaving, HeadApart
      <4>4. Moving(M, e)'
        BY <3>1, <3>3 DEF Whole, Moving, MoveAt, SealAt, TakeAt, GetAt, RetireAt, ReclaimAt
      <4>5. Owns(M)' /\ Claims(M)' /\ Counts(M)'
        BY <3>1, <3>3 DEF Whole, Owns, Claims, Counts
      <4>6. QED BY <4>1, <4>2, <4>3, <4>4, <4>5 DEF Whole
    <3>4. RunningWhole'
      BY <2>1, <3>1, <3>3 DEF ListsInv, RunningWhole, Running, FileTypes
    <3>5. (accepted /\ hazards = {"staleTail"} => OnePlace)'
      <4>1. UNCHANGED <<next, first, last, head>>
        BY <3>1
      <4>2. QED BY <2>1, <3>1, <4>1, SamePlace DEF ListsInv
    <3>6. QED BY <2>1, <3>2, <3>4, <3>5 DEF ListsInv
  <2>4. QED BY <2>1, <2>2, <2>3
<1>3. QED BY <1>1, <1>2, MutexesGivenUp, PTL DEF Spec

(* Every variable has its type, in the states where something has gone     *)
(* wrong as well (log_pmem_types.h:60-90).                                 *)
THEOREM ListsTyped == Spec => []ListsTypeOK
<1>1. ListsInv => ListsTypeOK
  BY DEF ListsInv
<1>2. QED BY <1>1, ListsInductive, PTL

(* Between any two stores of any moves every segment can be reached from   *)
(* the log's header: a segment is linked to its new list before it is cut  *)
(* out of the old one (cleaner.c:187-410, log.c:119-162).                  *)
THEOREM NothingLost == Spec => []NeverLost
<1>1. ListsInv => NeverLost
  <2>1. SUFFICES ASSUME ListsInv, Running
                 PROVE  On(head) \cup UNION {On(first[l]) : l \in Lists} = Segs
    BY DEF NeverLost
  <2>2. PICK M, r, e : Facts(M, r, e)
    BY <2>1 DEF ListsInv, RunningWhole, Facts
  <2>3. QED BY <2>2, Everything
<1>2. QED BY <1>1, ListsInductive, PTL

(* A list that nobody is changing.                                         *)
LEMMA SettledLine ==
    ASSUME NEW M, NEW r, NEW e, Facts(M, r, e), NEW l \in Lists, Settled(l)
    PROVE  /\ last[l] = e[l] /\ On(first[l]) = M[l] /\ Length(first[l]) = Cardinality(M[l])
           /\ e[l] # None => next[e[l]] = None
<1>1. lock[l] = None /\ None \notin Threads
  BY Names DEF Settled
<1>2. last[l] = e[l]
  BY <1>1, Witnesses DEF Facts, Whole, Lasts
<1>3. /\ NextOK /\ first[l] \in Segs \cup {None} /\ None \notin Segs
      /\ M[l] \subseteq Segs /\ r[l] \in [Segs -> Nat]
      /\ Line(next, M[l], r[l], first[l], e[l])
      /\ e[l] # None => e[l] \in M[l] /\ e[l] \in Segs
      /\ e[l] = None <=> M[l] = {}
  BY EndIn, SegsFinite DEF Facts, FileTypes, NextOK
<1>4. M[l] \subseteq On(first[l])
  BY <1>3, Reach
<1>5. ASSUME e[l] # None PROVE next[e[l]] = None
  <2>1. SUFFICES ASSUME NEW u \in Threads, Tails(u, e[l], l) PROVE FALSE
    BY <1>5 DEF Facts, Whole, Clean
  <2>2. l = "emergency" /\ Late(th[u]) /\ MoveShape(u, th[u])
    BY <1>1, <2>1, Witnesses, ThreadFacts
  <2>3. u \in Cleaners /\ StillLinked(e[l])
    BY <2>1, <2>2 DEF Late, MoveShape, Tails, StillLinked
  <2>4. QED BY <1>3, <1>4, <1>5, <2>2, <2>3 DEF Settled
<1>6. On(first[l]) = M[l] /\ Length(first[l]) = Cardinality(M[l])
  BY <1>3, <1>5, Exactly
<1>7. QED BY <1>2, <1>5, <1>6

(* Whoever locks a list finds it ended by its last segment, counted, and   *)
(* apart from the other lists that nobody is changing (cleaner.c:187-410). *)
THEOREM SettledListsWhole == Spec => []SettledWhole
<1>1. ListsInv => SettledWhole
  <2>1. SUFFICES ASSUME ListsInv, Running, NEW l \in Lists, Settled(l)
                 PROVE  /\ Ends(l)
                        /\ l = "emergency" => Counted
                        /\ \A k \in Lists \ {l} : Settled(k) => On(first[k]) \cap On(first[l]) = {}
    BY DEF SettledWhole
  <2>2. PICK M, r, e : Facts(M, r, e)
    BY <2>1 DEF ListsInv, RunningWhole, Facts
  <2>3. /\ last[l] = e[l] /\ On(first[l]) = M[l] /\ Length(first[l]) = Cardinality(M[l])
        /\ e[l] # None => next[e[l]] = None
        /\ lock[l] = None /\ None \notin Threads
    BY <2>1, <2>2, SettledLine, Names DEF Settled
  <2>4. Ends(l)
    BY <2>2, <2>3, EndIn DEF Ends
  <2>5. ASSUME l = "emergency" PROVE Counted
    <3>1. ASSUME NEW t \in Threads PROVE ~Refills(th[t]) /\ ~Drains(th[t])
      <4>1. MoveShape(t, th[t]) /\ ~MayHold(th[t], l)
        BY <2>2, <2>3, Witnesses, ThreadFacts
      <4>2. QED BY <2>5, <4>1 DEF MoveShape, MayHold, Refills, Drains
    <3>2. count = Cardinality(M["emergency"])
      BY <2>2, <3>1 DEF Facts, Whole, Counts
    <3>3. QED BY <2>3, <2>5, <3>2 DEF Counted
  <2>6. ASSUME NEW k \in Lists \ {l}, Settled(k) PROVE On(first[k]) \cap On(first[l]) = {}
    <3>1. On(first[k]) = M[k] /\ lock[k] = None
      BY <2>2, <2>6, SettledLine DEF Settled
    <3>2. \A u \in Threads : \A s : ~Leaving(u, s, l) /\ ~Leaving(u, s, k)
      BY <2>2, <2>3, <3>1, Witnesses
    <3>3. M[k] \cap M[l] = {}
      BY <2>2, <3>2 DEF Facts, Whole, Apart
    <3>4. QED BY <2>3, <3>1, <3>3
  <2>7. QED BY <2>4, <2>5, <2>6
<1>2. QED BY <1>1, ListsInductive, PTL

(* While nothing is moved, the lists and the head share no segment.        *)
LEMMA IdlePlace ==
    ASSUME NEW M, NEW r, NEW e, Facts(M, r, e), \A t \in Threads : th[t] = NoMove
    PROVE  OnePlace
<1>1. /\ App \in Threads /\ Cleaners \subseteq Threads /\ None \notin Threads /\ None \notin Segs
      /\ lock \in [Lists -> Threads \cup {None}]
  BY Names DEF Facts, LockInv
<1>2. \A l \in Lists : lock[l] = None
  BY <1>1, Witnesses DEF MayHold, NoMove
<1>3. \A s : ~StillLinked(s)
  BY <1>1 DEF StillLinked, NoMove
<1>4. \A l \in Lists : Settled(l)
  BY <1>2, <1>3 DEF Settled
<1>5. \A l \in Lists : /\ last[l] = e[l] /\ On(first[l]) = M[l]
                       /\ e[l] # None => next[e[l]] = None
  BY <1>4, SettledLine
<1>6. \A l \in Lists : first[l] # None => Ends(l)
  BY <1>5, EndIn DEF Ends
<1>7. \A l, k \in Lists : l # k => M[l] \cap M[k] = {}
  BY <1>1 DEF Facts, Whole, Apart, Leaving, Cleans, NoMove
<1>8. \A l \in Lists : head \notin M[l] \/ head = None
  BY <1>1 DEF Facts, Whole, HeadApart, HeadSealed, NoMove
<1>9. On(head) = {head} \ {None}
  <2>1. NextOK /\ head \in Segs \cup {None} /\ NSeg \in Nat
    BY SegsFinite DEF Facts, FileTypes, NextOK
  <2>2. PICK q : q = [s \in Segs |-> 0]
    OBVIOUS
  <2>3. CASE head = None
    <3>1. \A i \in 0 .. NSeg : Chain(head)[i] = None
      BY <2>1, <2>3, ChainFacts, Ended
    <3>2. QED BY <2>3, <3>1 DEF On
  <2>4. CASE head # None
    <3>1. next[head] = None
      BY <1>1, <2>4 DEF Facts, Whole, HeadApart, NoMove
    <3>2. Line(next, {head}, q, head, head) /\ {head} \subseteq Segs /\ q \in [Segs -> Nat]
      BY <2>1, <2>2, <2>4 DEF Line
    <3>3. QED BY <2>1, <2>4, <3>1, <3>2, Exactly
  <2>5. QED BY <2>3, <2>4
<1>10. ASSUME NEW l \in Lists
       PROVE  On(first[l]) \cap (On(head) \cup UNION {On(first[k]) : k \in Lists \ {l}}) = {}
  BY <1>5, <1>7, <1>8, <1>9
<1>11. QED BY <1>6, <1>10 DEF OnePlace

(* If the segments add up after a crash, whatever store it came after,     *)
(* each is in one place, and the lists that have segments end with their   *)
(* last ones: the heap is rightly accepted (log.c:178).                    *)
THEOREM AcceptedListsWhole == Spec => []AcceptedWhole
<1>1. ListsInv => AcceptedWhole
  <2>1. SUFFICES ASSUME ListsInv, accepted, hazards \subseteq {"staleTail"},
                        \A t \in Threads : th[t] = NoMove
                 PROVE  OnePlace
    BY DEF AcceptedWhole, OnePlace
  <2>2. CASE hazards = {}
    <3>1. PICK M, r, e : Facts(M, r, e)
      BY <2>1, <2>2 DEF ListsInv, RunningWhole, Facts, Running
    <3>2. QED BY <2>1, <3>1, IdlePlace
  <2>3. CASE hazards # {}
    BY <2>1, <2>3 DEF ListsInv
  <2>4. QED BY <2>2, <2>3
<1>2. QED BY <1>1, ListsInductive, PTL
=============================================================================
