--------------------------- MODULE LogHeapProofs ---------------------------
(***************************************************************************)
(* Machine-checked theorems about LogHeap, for any number of segments,     *)
(* cleaner threads and calls.  The inductive invariant is the conjunction  *)
(* of the type invariant, of what a thread's program counter says about    *)
(* its segments (Shape), of the partition of the segments and of the       *)
(* exclusiveness of the claims.                                            *)
(***************************************************************************)
EXTENDS LogHeap, TLAPS, SequenceTheorems

-----------------------------------------------------------------------------
(* Lemmas about numbers and lists.                                         *)

(* Unsigned arithmetic stays in its range.                                 *)
LEMMA ModType ==
    ASSUME NEW x \in Int, NEW m \in Nat, m > 0
    PROVE  x % m \in 0 .. m - 1
  BY SMT

(* What unlinking a segment does to a list: only that segment leaves it.   *)

LEMMA WithoutProps ==
    ASSUME NEW S, NEW list \in Seq(S), NEW s \in ToSet(list)
    PROVE  /\ Without(list, s) \in Seq(S)
           /\ ToSet(Without(list, s)) \subseteq ToSet(list)
           /\ IsInjective(list) =>
                 /\ IsInjective(Without(list, s))
                 /\ ToSet(Without(list, s)) = ToSet(list) \ {s}
<1> DEFINE k == CHOOSE i \in DOMAIN list : list[i] = s
           a == SubSeq(list, 1, k - 1)
           b == SubSeq(list, k + 1, Len(list))
           n == Len(list)
           w == Without(list, s)
<1>1. n \in Nat /\ DOMAIN list = 1 .. n /\ \A i \in 1 .. n : list[i] \in S
  BY LenProperties, ElementOfSeq
<1>2. k \in 1 .. n /\ list[k] = s
  <2>1. \E i \in DOMAIN list : list[i] = s
    BY DEF ToSet
  <2> QED BY <2>1, <1>1
<1>3. w = a \o b
  BY DEF Without, RemoveAt
<1> HIDE DEF k
<1>4. a \in Seq(S) /\ Len(a) = k - 1 /\ \A i \in 1 .. k - 1 : a[i] = list[i]
  <2>1. \A i \in 1 .. k - 1 : list[i] \in S
    BY <1>1, <1>2, SMT
  <2>2. 1 \in Int /\ k - 1 \in Int
    BY <1>1, <1>2, SMT
  <2>3. /\ a \in Seq(S)
        /\ Len(a) = IF 1 <= k - 1 THEN (k - 1) - 1 + 1 ELSE 0
        /\ \A i \in 1 .. (k - 1) - 1 + 1 : a[i] = list[1 + i - 1]
    BY <2>1, <2>2, SubSeqProperties
  <2> HIDE DEF a
  <2> QED BY <2>3, <1>2, <1>1, SMT
<1>5. b \in Seq(S) /\ Len(b) = n - k /\ \A i \in 1 .. n - k : b[i] = list[k + i]
  <2>1. \A i \in k + 1 .. n : list[i] \in S
    BY <1>1, <1>2, SMT
  <2>2. k + 1 \in Int /\ n \in Int
    BY <1>1, <1>2, SMT
  <2>3. /\ b \in Seq(S)
        /\ Len(b) = IF k + 1 <= n THEN n - (k + 1) + 1 ELSE 0
        /\ \A i \in 1 .. n - (k + 1) + 1 : b[i] = list[(k + 1) + i - 1]
    BY <2>1, <2>2, SubSeqProperties
  <2> HIDE DEF b
  <2>4. Len(b) = n - k
    <3>1. k \in Int /\ n \in Int /\ k <= n
      BY <1>1, <1>2, SMT
    <3>2. (IF k + 1 <= n THEN n - (k + 1) + 1 ELSE 0) = n - k
      BY <3>1, SMT
    <3> QED BY <2>3, <3>2
  <2>5. ASSUME NEW i \in 1 .. n - k PROVE b[i] = list[k + i]
    <3>1. i \in 1 .. n - (k + 1) + 1 /\ (k + 1) + i - 1 = k + i
      BY <1>2, <1>1, SMT
    <3> QED BY <3>1, <2>3
  <2> QED BY <2>3, <2>4, <2>5
<1> HIDE DEF a, b
<1>6. /\ w \in Seq(S) /\ Len(w) = n - 1
      /\ \A i \in 1 .. n - 1 : w[i] = IF i < k THEN list[i] ELSE list[i + 1]
  <2>1. /\ w \in Seq(S) /\ Len(w) = Len(a) + Len(b)
        /\ \A i \in 1 .. Len(a) + Len(b) :
              w[i] = IF i <= Len(a) THEN a[i] ELSE b[i - Len(a)]
    <3>1. a \in Seq(S) /\ b \in Seq(S)
      BY <1>4, <1>5
    <3>2. /\ a \o b \in Seq(S)
          /\ Len(a \o b) = Len(a) + Len(b)
          /\ \A i \in 1 .. Len(a) + Len(b) :
                (a \o b)[i] = IF i <= Len(a) THEN a[i] ELSE b[i - Len(a)]
      BY <3>1, ConcatProperties
    <3> HIDE DEF w
    <3> QED BY <1>3, <3>2
  <2> HIDE DEF w
  <2>2. Len(w) = n - 1
    BY <2>1, <1>1, <1>2, <1>4, <1>5, SMT
  <2>3. ASSUME NEW i \in 1 .. n - 1 PROVE w[i] = IF i < k THEN list[i] ELSE list[i + 1]
    <3>1. CASE i < k
      <4>1. i \in 1 .. Len(a) + Len(b) /\ i <= Len(a) /\ i \in 1 .. k - 1
        BY <3>1, <1>1, <1>2, <1>4, <1>5, SMT
      <4> QED BY <3>1, <4>1, <2>1, <1>4
    <3>2. CASE ~(i < k)
      <4>1. /\ i \in 1 .. Len(a) + Len(b) /\ ~(i <= Len(a))
            /\ i - Len(a) \in 1 .. n - k /\ k + (i - Len(a)) = i + 1
        BY <3>2, <1>1, <1>2, <1>4, <1>5, SMT
      <4>2. w[i] = b[i - Len(a)]
        BY <4>1, <2>1
      <4> QED BY <3>2, <4>1, <4>2, <1>5
    <3> QED BY <3>1, <3>2
  <2> QED BY <2>1, <2>2, <2>3
<1> HIDE DEF w
<1>7. DOMAIN w = 1 .. n - 1
  BY <1>6, LenProperties
<1>8. ToSet(w) \subseteq ToSet(list)
  <2> SUFFICES ASSUME NEW i \in 1 .. n - 1 PROVE \E j \in 1 .. n : w[i] = list[j]
    BY <1>1, <1>7 DEF ToSet
  <2> QED BY <1>6, <1>1, <1>2, SMT
<1>9. ASSUME IsInjective(list) PROVE IsInjective(w)
  <2> SUFFICES ASSUME NEW i \in 1 .. n - 1, NEW j \in 1 .. n - 1, w[i] = w[j] PROVE i = j
    BY <1>7 DEF IsInjective
  <2>1. \A p, q \in 1 .. n : list[p] = list[q] => p = q
    BY <1>9, <1>1 DEF IsInjective
  <2> QED BY <2>1, <1>6, <1>1, <1>2, SMT
<1>10. ASSUME IsInjective(list) PROVE ToSet(w) = ToSet(list) \ {s}
  <2>1. \A p, q \in 1 .. n : list[p] = list[q] => p = q
    BY <1>10, <1>1 DEF IsInjective
  <2>2. s \notin ToSet(w)
    <3> SUFFICES ASSUME NEW i \in 1 .. n - 1 PROVE w[i] # s
      BY <1>7 DEF ToSet
    <3> QED BY <2>1, <1>6, <1>1, <1>2, SMT
  <2>3. ToSet(list) \ {s} \subseteq ToSet(w)
    <3> SUFFICES ASSUME NEW j \in 1 .. n, list[j] # s PROVE \E i \in 1 .. n - 1 : w[i] = list[j]
      BY <1>1, <1>7 DEF ToSet
    <3>1. CASE j < k
      BY <3>1, <1>6, <1>1, <1>2, SMT
    <3>2. CASE j > k
      <4>1. j - 1 \in 1 .. n - 1 /\ w[j - 1] = list[j]
        BY <3>2, <1>6, <1>1, <1>2, SMT
      <4> QED BY <4>1
    <3> QED BY <3>1, <3>2, <1>1, <1>2, SMT
  <2> QED BY <2>2, <2>3, <1>8
<1> QED BY <1>6, <1>8, <1>9, <1>10 DEF w

(* What appending a segment does to a list.                                *)
LEMMA AppendProps ==
    ASSUME NEW S, NEW list \in Seq(S), NEW s \in S
    PROVE  /\ Append(list, s) \in Seq(S)
           /\ ToSet(Append(list, s)) = ToSet(list) \cup {s}
           /\ IsInjective(list) /\ s \notin ToSet(list) => IsInjective(Append(list, s))
<1> DEFINE n == Len(list)
           w == Append(list, s)
<1>1. n \in Nat /\ DOMAIN list = 1 .. n
  BY LenProperties
<1>2. /\ w \in Seq(S) /\ Len(w) = n + 1
      /\ \A i \in 1 .. n : w[i] = list[i]
      /\ w[n + 1] = s
  BY AppendProperties
<1>3. DOMAIN w = 1 .. n + 1
  BY <1>2, LenProperties
<1> HIDE DEF w, n
<1>4. \A i \in 1 .. n + 1 : i \in 1 .. n \/ i = n + 1
  BY <1>1, SMT
<1>5. n + 1 \in 1 .. n + 1 /\ \A i \in 1 .. n : i \in 1 .. n + 1 /\ i # n + 1
  BY <1>1, SMT
<1>6. ToSet(w) = ToSet(list) \cup {s}
  BY <1>1, <1>2, <1>3, <1>4, <1>5 DEF ToSet
<1>7. ASSUME IsInjective(list), s \notin ToSet(list) PROVE IsInjective(w)
  <2> SUFFICES ASSUME NEW i \in 1 .. n + 1, NEW j \in 1 .. n + 1, w[i] = w[j] PROVE i = j
    BY <1>3 DEF IsInjective
  <2>1. \A p \in 1 .. n : list[p] # s
    BY <1>7, <1>1 DEF ToSet
  <2>2. \A p, q \in 1 .. n : list[p] = list[q] => p = q
    BY <1>7, <1>1 DEF IsInjective
  <2> QED BY <2>1, <2>2, <1>2, <1>4
<1> QED BY <1>2, <1>6, <1>7 DEF w

(* What taking the first segment does to a list.                           *)
LEMMA TailProps ==
    ASSUME NEW S, NEW list \in Seq(S), list # <<>>
    PROVE  /\ Head(list) \in S /\ Head(list) \in ToSet(list)
           /\ Tail(list) \in Seq(S)
           /\ ToSet(Tail(list)) \subseteq ToSet(list)
           /\ IsInjective(list) =>
                 /\ IsInjective(Tail(list))
                 /\ ToSet(Tail(list)) = ToSet(list) \ {Head(list)}
<1> DEFINE n == Len(list)
           t == Tail(list)
           h == Head(list)
<1>1. n \in Nat \ {0} /\ DOMAIN list = 1 .. n
  BY LenProperties, EmptySeq
<1>2. /\ h \in S /\ h = list[1]
      /\ t \in Seq(S) /\ Len(t) = n - 1
      /\ \A i \in 1 .. n - 1 : t[i] = list[i + 1]
  <2>1. h = list[1]
    OBVIOUS
  <2> QED BY <2>1, HeadTailProperties
<1>3. DOMAIN t = 1 .. n - 1
  BY <1>2, LenProperties
<1> HIDE DEF h, t, n
<1>4. h \in ToSet(list)
  <2>1. 1 \in 1 .. n
    BY <1>1, SMT
  <2> QED BY <2>1, <1>1, <1>2 DEF ToSet
<1>5. \A i \in 1 .. n - 1 : i + 1 \in 1 .. n /\ i + 1 # 1
  BY <1>1, SMT
<1>6. ToSet(t) \subseteq ToSet(list)
  BY <1>1, <1>2, <1>3, <1>5 DEF ToSet
<1>7. ASSUME IsInjective(list) PROVE IsInjective(t) /\ ToSet(t) = ToSet(list) \ {h}
  <2>1. \A p, q \in 1 .. n : list[p] = list[q] => p = q
    BY <1>7, <1>1 DEF IsInjective
  <2>2. ASSUME NEW i \in 1 .. n - 1, NEW j \in 1 .. n - 1, t[i] = t[j] PROVE i = j
    <3>1. i + 1 = j + 1
      BY <2>1, <2>2, <1>2, <1>5
    <3> QED BY <3>1, <1>1, SMT
  <2>3. IsInjective(t)
    BY <2>2, <1>3 DEF IsInjective
  <2>4. h \notin ToSet(t)
    <3> SUFFICES ASSUME NEW i \in 1 .. n - 1 PROVE t[i] # h
      BY <1>3 DEF ToSet
    <3>1. 1 \in 1 .. n
      BY <1>1, SMT
    <3> QED BY <3>1, <2>1, <1>2, <1>5
  <2>5. ToSet(list) \ {h} \subseteq ToSet(t)
    <3> SUFFICES ASSUME NEW j \in 1 .. n, list[j] # h PROVE \E i \in 1 .. n - 1 : t[i] = list[j]
      BY <1>1, <1>3 DEF ToSet
    <3>1. j # 1
      BY <1>2
    <3>2. j - 1 \in 1 .. n - 1 /\ (j - 1) + 1 = j
      BY <3>1, <1>1, SMT
    <3> QED BY <3>2, <1>2
  <2> QED BY <2>3, <2>4, <2>5, <1>6
<1> QED BY <1>2, <1>4, <1>6, <1>7 DEF h, t

(* A list that is empty holds nothing.                                     *)
LEMMA EmptyProps == <<>> \in Seq(Segs) /\ ToSet(<<>>) = {} /\ IsInjective(<<>>)
  BY EmptySeq DEF ToSet, IsInjective

-----------------------------------------------------------------------------
(* Types of the helpers.                                                   *)

Cell == Entry \cup {Data}

LEMMA ConstantFacts ==
    /\ NSeg \in Nat /\ EmergencyCount \in Nat /\ EmergencyCount + 1 < NSeg
    /\ Cap \in Nat /\ Cap >= 2
    /\ Segs \subseteq Nat /\ Cells \subseteq Nat
    /\ MaxWrites \in Nat /\ MaxId \in Nat
    /\ SizeMod \in Nat /\ SizeMod > 0
    /\ CountMod \in Nat /\ CountMod > 0
    /\ Lens \subseteq Nat /\ \A len \in Lens : len >= 1
    /\ None \notin Segs /\ None \notin Cleaners /\ App \notin Cleaners /\ App # None
<1>1. Cap \in Nat /\ Cap >= 2
  BY SegAssumption, SMT DEF Cap
<1>2. Lens \subseteq Nat /\ \A len \in Lens : len >= 1
  <2>1. \A len \in Lens : len \in 1 .. Cap - 1
    BY ClientAssumption
  <2> QED BY <2>1, <1>1, SMT
<1>3. Segs \subseteq Nat /\ Cells \subseteq Nat
  BY <1>1, SegAssumption, SMT DEF Segs, Cells
<1>4. SizeMod > 0 /\ CountMod > 0
  BY SegAssumption, ClientAssumption, SMT
<1> QED BY <1>1, <1>2, <1>3, <1>4, SegAssumption, ClientAssumption

LEMMA EntryFacts ==
    /\ Blank \in Entry
    /\ Data.len = 0 - 1 /\ Data \notin Entry
    /\ \A e \in Entry : Size(e) \in Nat /\ Size(e) >= 1
    /\ \A e \in Cell : Size(e) \in Int
    /\ \A e \in Cell : e.len # 0 /\ e # Data => e \in Entry /\ e.len \in Nat
<1>1. Blank \in Entry
  BY SMT DEF Blank, Entry
<1>2. Data.len = 0 - 1
  BY DEF Data
<1>3. Data \notin Entry
  <2>1. \A e \in Entry : e.len >= 0
    BY SMT DEF Entry
  <2> QED BY <2>1, <1>2, SMT
<1>4. \A e \in Entry : e.len \in Nat
  BY DEF Entry
<1> QED BY <1>1, <1>2, <1>3, <1>4, SMT DEF Size, Cell

LEMMA WrittenType ==
    ASSUME TypeOK, NEW s \in Segs, NEW p \in Cells, NEW e \in Entry
    PROVE  Written(s, p, e) \in [Segs -> [Cells -> Cell]]
  BY DEF Written, TypeOK, Cell

LEMMA AtType ==
    ASSUME TypeOK, NEW place \in Places
    PROVE  /\ At(place) \in Cell /\ place[1] \in Segs /\ place[2] \in Cells
           /\ Size(At(place)) \in Int
<1>1. place[1] \in Segs /\ place[2] \in Cells
  BY DEF Places
<1>2. At(place) \in Cell
  BY <1>1 DEF At, TypeOK, Cell
<1> QED BY <1>1, <1>2, EntryFacts

LEMMA RoomFacts ==
    ASSUME TypeOK, NEW s \in Segs, NEW e \in Entry, HasRoom(s, e)
    PROVE  /\ fill[s] \in Cells
           /\ fill[s] + Size(e) \in 0 .. Cap
<1>1. fill[s] \in 0 .. Cap
  BY DEF TypeOK
<1>2. Cap - fill[s] >= Size(e)
  BY DEF HasRoom
<1> QED BY <1>1, <1>2, EntryFacts, ConstantFacts, SMT DEF Cells

LEMMA DiscountType ==
    ASSUME TypeOK, NEW place \in Places, Discount(place)
    PROVE  usedSpace' \in [Segs -> 0 .. SizeMod - 1]
<1>1. /\ place[1] \in Segs /\ Size(At(place)) \in Int
  BY AtType
<1>2. usedSpace \in [Segs -> 0 .. SizeMod - 1] /\ usedSpace[place[1]] \in Int
  <2>1. usedSpace \in [Segs -> 0 .. SizeMod - 1]
    BY DEF TypeOK
  <2>2. usedSpace[place[1]] \in 0 .. SizeMod - 1
    BY <2>1, <1>1
  <2> QED BY <2>1, <2>2, ConstantFacts, SMT
<1> DEFINE x == usedSpace[place[1]] - Size(At(place))
<1>3. x \in Int
  BY <1>1, <1>2, SMT
<1>4. x % SizeMod \in 0 .. SizeMod - 1
  <2> HIDE DEF x
  <2> QED BY <1>3, ModType, ConstantFacts
<1> QED BY <1>2, <1>4 DEF Discount

LEMMA AddSpaceType ==
    ASSUME TypeOK, NEW s \in Segs, NEW e \in Entry
    PROVE  [usedSpace EXCEPT ![s] = (@ + Size(e)) % SizeMod] \in [Segs -> 0 .. SizeMod - 1]
<1>1. usedSpace \in [Segs -> 0 .. SizeMod - 1] /\ usedSpace[s] \in Int
  <2>1. usedSpace \in [Segs -> 0 .. SizeMod - 1]
    BY DEF TypeOK
  <2>2. usedSpace[s] \in 0 .. SizeMod - 1
    BY <2>1
  <2> QED BY <2>1, <2>2, ConstantFacts, SMT
<1> DEFINE x == usedSpace[s] + Size(e)
<1>2. x \in Int
  BY <1>1, EntryFacts, SMT
<1>3. x % SizeMod \in 0 .. SizeMod - 1
  <2> HIDE DEF x
  <2> QED BY <1>2, ModType, ConstantFacts
<1> QED BY <1>1, <1>3

LEMMA NextOfType ==
    ASSUME TypeOK, NEW s
    PROVE  NextOf(s) \in Segs \cup {None}
<1>1. ASSUME NEW list \in Seq(Segs) PROVE After(list, s) \subseteq Segs
  <2> SUFFICES ASSUME NEW i \in 1 .. Len(list) - 1 PROVE list[i + 1] \in Segs
    BY DEF After
  <2>1. i + 1 \in 1 .. Len(list)
    BY LenProperties, SMT
  <2> QED BY <2>1, ElementOfSeq
<1>2. Following(s) \subseteq Segs
  BY <1>1 DEF TypeOK, Following
<1>3. Left(s) \subseteq Segs \cup {None}
  BY DEF Left, TypeOK, CleanerStates
<1> DEFINE succ == IF Following(s) # {} THEN Following(s) ELSE Left(s)
<1>4. succ \subseteq Segs \cup {None}
  BY <1>2, <1>3
<1>5. NextOf(s) = IF succ = {} THEN None ELSE CHOOSE t \in succ : TRUE
  BY DEF NextOf
<1> HIDE DEF succ
<1> QED BY <1>4, <1>5

-----------------------------------------------------------------------------
(* The client's steps keep the types.                                      *)

LEMMA CallType ==
    ASSUME TypeOK, writes < MaxWrites, NEW id \in Ids, NEW e \in Entry,
           NEW locked \in BOOLEAN, Call(id, e, locked)
    PROVE  app' \in AppStates /\ writes' \in 0 .. MaxWrites
<1>1. writes' \in 0 .. MaxWrites
  BY ConstantFacts, SMT DEF TypeOK, Call
<1>2. app' \in AppStates
  BY DEF Call, AppStates, Null
<1> QED BY <1>1, <1>2

LEMMA NewValue ==
    ASSUME TypeOK, writes < MaxWrites
    PROVE  /\ writes + 1 \in Vals
           /\ \A id \in Ids, len \in Lens : NewEntry(id, 1, len) \in Entry
           /\ \A e \in Cell, len \in Lens : Successor(e, len) \in Entry
<1>1. writes + 1 \in Vals
  BY ConstantFacts, SMT DEF TypeOK, Vals
<1>2. \A len \in Lens : len \in Nat
  BY ConstantFacts
<1>3. ASSUME NEW id \in Ids, NEW len \in Lens PROVE NewEntry(id, 1, len) \in Entry
  BY <1>1, <1>2 DEF NewEntry, Entry
<1>4. ASSUME NEW e \in Cell, NEW len \in Lens PROVE Successor(e, len) \in Entry
  <2>1. CASE e \in Entry
    <3>1. e.ver + 1 \in Nat
      BY <2>1, SMT DEF Entry
    <3> QED BY <1>1, <1>2, <2>1, <3>1 DEF Successor, Entry
  <2>2. CASE e = Data
    <3>1. 0 + 1 \in Nat /\ 0 \in Nat
      BY SMT
    <3> QED BY <1>1, <1>2, <2>2, <3>1 DEF Successor, Entry, Data
  <2> QED BY <2>1, <2>2 DEF Cell
<1> QED BY <1>1, <1>3, <1>4

LEMMA IdleType == Idle \in AppStates
  BY EntryFacts DEF Idle, AppStates, Null

LEMMA UnlockedType == ASSUME TypeOK PROVE Unlocked \in Cleaners \cup {App, None}
  BY DEF Unlocked, TypeOK

LEMMA MeetType == ASSUME TypeOK, NEW h \in Hazards, NEW when, Meet(h, when) PROVE hazards' \subseteq Hazards
  BY DEF Meet, TypeOK

LEMMA NewCallType ==
    ASSUME TypeOK, NewCall
    PROVE  TypeOK'
<1> USE DEF heapVars, listVars, lockVars
<1>1. ASSUME NEW len \in Lens, BeginPalloc(len) PROVE TypeOK'
  <2>1. PICK id \in GenId : nextId' = id + 1 /\ Call(id, NewEntry(id, 1, len), FALSE)
    BY <1>1 DEF BeginPalloc
  <2>2. id \in Ids
    BY DEF GenId, FreshIds
  <2>3. nextId' \in Nat
    BY <2>1, <2>2, ConstantFacts, SMT DEF Ids
  <2>4. app' \in AppStates /\ writes' \in 0 .. MaxWrites
    BY <1>1, <2>1, <2>2, CallType, NewValue DEF BeginPalloc
  <2> QED BY <1>1, <2>3, <2>4 DEF BeginPalloc, TypeOK
<1>2. ASSUME NEW len \in Lens, NEW id \in WithIds, BeginPallocWithId(id, len) PROVE TypeOK'
  <2>1. id \in Ids
    BY ClientAssumption
  <2>2. app' \in AppStates /\ writes' \in 0 .. MaxWrites
    BY <1>2, <2>1, CallType, NewValue DEF BeginPallocWithId
  <2> QED BY <1>2, <2>2 DEF BeginPallocWithId, TypeOK
<1>3. ASSUME NEW len \in Lens, NEW id \in UpdIds \cup WithIds, BeginUpdate(id, len) PROVE TypeOK'
  <2>1. id \in Ids
    BY ClientAssumption
  <2>2. hash[id] \in Places
    BY <1>3, <2>1 DEF BeginUpdate, TypeOK
  <2>3. app' \in AppStates /\ writes' \in 0 .. MaxWrites
    BY <1>3, <2>1, <2>2, CallType, NewValue, AtType DEF BeginUpdate
  <2>4. usedSpace' \in [Segs -> 0 .. SizeMod - 1]
    BY <1>3, <2>2, DiscountType DEF BeginUpdate
  <2>5. hazards' \subseteq Hazards
    BY <1>3, MeetType DEF BeginUpdate, Hazards
  <2> QED BY <1>3, <2>3, <2>4, <2>5 DEF BeginUpdate, TypeOK
<1>4. ASSUME NEW id \in FreeIds, BeginFree(id) PROVE TypeOK'
  <2>1. id \in Ids
    BY ClientAssumption
  <2>2. hash[id] \in Places
    BY <1>4, <2>1 DEF BeginFree, TypeOK
  <2>3. app' \in AppStates
    BY <1>4, <2>1, EntryFacts DEF BeginFree, Idle, AppStates, Null
  <2>4. usedSpace' \in [Segs -> 0 .. SizeMod - 1]
    BY <1>4, <2>2, DiscountType DEF BeginFree
  <2>5. hazards' \subseteq Hazards
    BY <1>4, MeetType DEF BeginFree, Hazards
  <2>6. content' \in [Segs -> [Cells -> Cell]]
    <3>1. \A e \in Cell : (IF e = Data THEN Data ELSE [e EXCEPT !.del = TRUE]) \in Cell
      BY DEF Cell, Entry
    <3>2. hash[id][1] \in Segs /\ hash[id][2] \in Cells
      BY <2>2, AtType
    <3>3. content \in [Segs -> [Cells -> Cell]]
      BY DEF TypeOK, Cell
    <3> QED BY <1>4, <3>1, <3>2, <3>3 DEF BeginFree, Marked
  <2> QED BY <1>4, <2>3, <2>4, <2>5, <2>6 DEF BeginFree, TypeOK, Cell
<1> QED BY <1>1, <1>2, <1>3, <1>4 DEF NewCall

LEMMA CallStepType ==
    ASSUME TypeOK, CallStep
    PROVE  TypeOK'
<1> USE DEF heapVars, listVars, lockVars
<1>0. app.entry \in Entry /\ app \in AppStates
  BY DEF TypeOK, AppStates
<1>1. CASE WriteEntry
  <2>1. head \in Segs /\ HasRoom(head, app.entry)
    BY <1>1 DEF WriteEntry, TypeOK
  <2>2. fill[head] \in Cells /\ fill[head] + Size(app.entry) \in 0 .. Cap
    BY <2>1, <1>0, RoomFacts
  <2>3. content' \in [Segs -> [Cells -> Cell]]
    BY <1>1, <2>1, <2>2, <1>0, WrittenType DEF WriteEntry
  <2>4. usedSpace' \in [Segs -> 0 .. SizeMod - 1]
    BY <1>1, <2>1, <1>0, AddSpaceType DEF WriteEntry
  <2>5. fill' \in [Segs -> 0 .. Cap]
    BY <1>1, <2>2 DEF WriteEntry, TypeOK
  <2>6. app' \in AppStates
    BY <1>1, <1>0, <2>1, <2>2 DEF WriteEntry, AppStates, Places
  <2> QED BY <1>1, <2>3, <2>4, <2>5, <2>6 DEF WriteEntry, TypeOK, Cell
<1>2. CASE SealHead
  <2>1. head \in Segs
    BY <1>2 DEF SealHead, TypeOK
  <2>2. content' \in [Segs -> [Cells -> Cell]]
    <3>1. \A e \in Cell : [e EXCEPT !.len = 0] \in Cell
      <4>1. \A e \in Entry : [e EXCEPT !.len = 0] \in Entry
        BY SMT DEF Entry
      <4>2. [Data EXCEPT !.len = 0] \in Entry
        <5>1. 0 \in Nat
          BY SMT
        <5> QED BY <5>1 DEF Data, Entry
      <4> QED BY <4>1, <4>2, EntryFacts DEF Cell
    <3>2. content \in [Segs -> [Cells -> Cell]]
      BY DEF TypeOK, Cell
    <3> QED BY <1>2, <2>1, <3>1, <3>2 DEF SealHead, Terminated
  <2>3. used' \in Seq(Segs)
    BY <1>2, <2>1, AppendProps DEF SealHead, TypeOK
  <2>4. usedCount' \in 0 .. CountMod - 1
    <3>1. usedCount + 1 \in Int
      BY ConstantFacts, SMT DEF TypeOK
    <3> QED BY <1>2, <3>1, ModType, ConstantFacts DEF SealHead
  <2>5. app' \in AppStates
    BY <1>2, <1>0 DEF SealHead, AppStates
  <2> QED BY <1>2, <2>2, <2>3, <2>4, <2>5 DEF SealHead, TypeOK, Cell
<1>3. CASE TakeHead
  <2>1. Head(free) \in Segs /\ Tail(free) \in Seq(Segs)
    BY <1>3, TailProps DEF TakeHead, TypeOK
  <2>2. fill' \in [Segs -> 0 .. Cap]
    <3>1. 0 \in 0 .. Cap
      BY ConstantFacts, SMT
    <3> QED BY <1>3, <2>1, <3>1 DEF TakeHead, TypeOK
  <2>3. app' \in AppStates
    BY <1>3, <1>0 DEF TakeHead, AppStates
  <2> QED BY <1>3, <2>1, <2>2, <2>3 DEF TakeHead, TypeOK
<1>4. CASE OutOfMemory
  <2>1. hazards' \subseteq Hazards
    BY <1>4, MeetType DEF OutOfMemory, Hazards
  <2> QED BY <1>4, <2>1, IdleType, UnlockedType DEF OutOfMemory, TypeOK
<1>5. CASE Publish
  <2>1. app.place \in Places \cup {Null}
    BY <1>0 DEF AppStates
  <2> QED BY <1>5, <2>1, IdleType, UnlockedType DEF Publish, TypeOK
<1>6. CASE Unmap
  BY <1>6, IdleType, UnlockedType DEF Unmap, TypeOK
<1> QED BY <1>1, <1>2, <1>3, <1>4, <1>5, <1>6 DEF CallStep

-----------------------------------------------------------------------------
(* The cleaners' steps keep the types.                                     *)

LEMMA GoToType ==
    ASSUME TypeOK, NEW c \in Cleaners, NEW s \in Segs \cup {None}, GoTo(c, s)
    PROVE  cl' \in [Cleaners -> CleanerStates]
<1> DEFINE p == IF s = None THEN "scan" ELSE "test"
<1>1. 0 \in Nat
  BY SMT
<1>2. cl \in [Cleaners -> CleanerStates]
  BY DEF TypeOK
<1>3. p \in {"scan", "test"}
  OBVIOUS
<1>4. cl' = [cl EXCEPT ![c] = [pc |-> p, seg |-> cl[c].seg, cur |-> s, pos |-> 0,
                               nxt |-> None, late |-> "no", old |-> None]]
  BY <1>2 DEF GoTo, CleanerStates
<1> HIDE DEF p
<1>5. [pc |-> p, seg |-> cl[c].seg, cur |-> s, pos |-> 0, nxt |-> None, late |-> "no",
       old |-> None] \in CleanerStates
  BY <1>1, <1>2, <1>3 DEF CleanerStates
<1> QED BY <1>2, <1>4, <1>5

LEMMA GetSegmentType ==
    ASSUME TypeOK, NEW c, NEW s \in Segs, GetSegment(c, s)
    PROVE  /\ free' \in Seq(Segs) /\ cleaning' \in Seq(Segs) /\ emergency' \in Seq(Segs)
           /\ fill' \in [Segs -> 0 .. Cap] /\ hazards' \subseteq Hazards
<1>1. 0 \in 0 .. Cap
  BY ConstantFacts, SMT
<1>2. fill' \in [Segs -> 0 .. Cap]
  BY <1>1 DEF GetSegment, Obtain, TypeOK
<1>3. cleaning' \in Seq(Segs)
  BY AppendProps DEF GetSegment, Obtain, TypeOK
<1>4. free' \in Seq(Segs) /\ emergency' \in Seq(Segs)
  <2>1. free \in Seq(Segs) /\ emergency \in Seq(Segs)
    BY DEF TypeOK
  <2>2. CASE free # <<>> /\ free' = Tail(free) /\ UNCHANGED emergency
    BY <2>1, <2>2, TailProps
  <2>3. CASE emergency # <<>> /\ emergency' = Tail(emergency) /\ UNCHANGED free
    BY <2>1, <2>3, TailProps
  <2> QED BY <2>2, <2>3 DEF GetSegment, Obtain
<1>5. hazards' \subseteq Hazards
  BY MeetType DEF GetSegment, Hazards
<1> QED BY <1>2, <1>3, <1>4, <1>5

(* What a thread looks at, when it walks over a segment.                   *)
LEMMA VisitFacts ==
    ASSUME TypeOK, Shape, NEW c \in Cleaners, Visits(c) \/ Resumes(c)
    PROVE  /\ cl[c].cur \in Segs /\ cl[c].seg \in Segs
           /\ cl[c].pos \in Cells /\ cl[c].pos \in Nat
           /\ Visited(c) \in Cell
<1>1. cl[c].pc = "walk" /\ cl[c] \in CleanerStates
  BY DEF Visits, Resumes, CleanerAt, TypeOK
<1>2. cl[c].cur \in Segs /\ cl[c].seg \in Segs /\ cl[c].pos \in Nat
  BY <1>1 DEF Shape, CleanerStates
<1>3. cl[c].pos \in Cells
  <2>1. CASE Visits(c)
    <3>1. cl[c].pos < Cap - 1
      BY <2>1 DEF Visits, WalkOver
    <3> QED BY <3>1, <1>2, ConstantFacts, SMT DEF Cells
  <2>2. CASE Resumes(c)
    BY <2>2 DEF Resumes, Shape
  <2> QED BY <2>1, <2>2
<1> QED BY <1>2, <1>3 DEF Visited, TypeOK, Cell

LEMMA CleanerStepType ==
    ASSUME TypeOK, Shape, OwnSegments, NEW c \in Cleaners, CleanerStep(c)
    PROVE  TypeOK'
<1> USE DEF heapVars, listVars, lockVars
<1>0. cl \in [Cleaners -> CleanerStates] /\ cl[c] \in CleanerStates /\ 0 \in Nat
  BY SMT DEF TypeOK
<1>1. CASE StartCleaning(c)
  <2>1. cl' \in [Cleaners -> CleanerStates]
    BY <1>1, <1>0 DEF StartCleaning, CleanerStates
  <2> QED BY <1>1, <2>1 DEF StartCleaning, TypeOK
<1>2. CASE GetFirstSegment(c)
  <2>1. PICK s \in Segs : GetSegment(c, s) /\ cl' = [cl EXCEPT ![c].pc = "scan", ![c].seg = s]
    BY <1>2 DEF GetFirstSegment
  <2>2. cl' \in [Cleaners -> CleanerStates]
    BY <2>1, <1>0 DEF CleanerStates
  <2> QED BY <2>1, <2>2, GetSegmentType DEF GetSegment, TypeOK
<1>3. CASE BeginScan(c)
  <2>1. Head(used) \in Segs
    BY <1>3, TailProps DEF BeginScan, TypeOK
  <2>2. cl' \in [Cleaners -> CleanerStates]
    BY <1>3, <2>1, GoToType DEF BeginScan
  <2> QED BY <1>3, <2>2 DEF BeginScan, TypeOK
<1>4. CASE Claim(c)
  <2>1. cl' \in [Cleaners -> CleanerStates]
    BY <1>4, <1>0 DEF Claim, CleanerStates
  <2>2. hazards' \subseteq Hazards
    BY <1>4, MeetType DEF Claim, Hazards
  <2>3. cl[c].cur \in Segs
    BY <1>4, <1>0 DEF Claim, CleanerAt, Shape, CleanerStates
  <2> QED BY <1>4, <2>1, <2>2, <2>3 DEF Claim, TypeOK
<1>5. CASE Skip(c)
  <2>1. cl' \in [Cleaners -> CleanerStates]
    BY <1>5, NextOfType, GoToType DEF Skip
  <2> QED BY <1>5, <2>1 DEF Skip, TypeOK
<1>6. CASE EndWalk(c)
  <2>1. cl' \in [Cleaners -> CleanerStates]
    BY <1>6, <1>0 DEF EndWalk, CleanerStates
  <2> QED BY <1>6, <2>1 DEF EndWalk, TypeOK
<1>7. CASE Misread(c)
  <2>1. hazards' \subseteq Hazards
    BY <1>7 DEF Misread, Overrun, Hazards, TypeOK
  <2> QED BY <1>7, <2>1 DEF Misread, TypeOK
<1>8. CASE Drop(c)
  <2>1. Size(Visited(c)) \in Nat
    BY <1>8, VisitFacts, EntryFacts DEF Drop, Unreadable, Cell
  <2>2. cl[c].pos + Size(Visited(c)) \in Nat
    BY <1>8, <2>1, VisitFacts, SMT DEF Drop
  <2>3. cl' \in [Cleaners -> CleanerStates]
    BY <1>8, <1>0, <2>2 DEF Drop, CleanerStates
  <2> QED BY <1>8, <2>3 DEF Drop, TypeOK
<1>9. CASE Copy(c)
  <2> DEFINE e == Visited(c)
             s == cl[c].seg
  <2>1. e \in Entry /\ s \in Segs /\ cl[c].pos \in Nat
    BY <1>9, VisitFacts DEF Copy, Survives, Unreadable, Cell
  <2>2. HasRoom(s, e)
    BY <1>9 DEF Copy
  <2>3. fill[s] \in Cells /\ fill[s] + Size(e) \in 0 .. Cap
    BY <2>1, <2>2, RoomFacts
  <2>4. content' \in [Segs -> [Cells -> Cell]]
    BY <1>9, <2>1, <2>3, WrittenType DEF Copy
  <2>5. usedSpace' \in [Segs -> 0 .. SizeMod - 1]
    BY <1>9, <2>1, AddSpaceType DEF Copy
  <2>6. fill' \in [Segs -> 0 .. Cap]
    BY <1>9, <2>3 DEF Copy, TypeOK
  <2>7. hash' \in [Ids -> Places \cup {Null}]
    BY <1>9, <2>1, <2>3 DEF Copy, TypeOK, Places
  <2>8. cl' \in [Cleaners -> CleanerStates]
    <3>1. cl[c].pos + Size(e) \in Nat
      BY <2>1, EntryFacts, SMT
    <3> QED BY <1>9, <1>0, <3>1 DEF Copy, CleanerStates
  <2>9. hazards' \subseteq Hazards
    BY <1>9 DEF Copy, Overrun, Hazards, TypeOK
  <2> QED BY <1>9, <2>4, <2>5, <2>6, <2>7, <2>8, <2>9 DEF Copy, TypeOK, Cell
<1>10. CASE FindFull(c)
  <2>1. cl' \in [Cleaners -> CleanerStates]
    BY <1>10, <1>0 DEF FindFull, CleanerStates
  <2> QED BY <1>10, <2>1 DEF FindFull, TypeOK
<1>11. CASE Retire(c)
  <2>1. cl[c].seg \in Segs
    BY <1>11, <1>0 DEF Retire, CleanerAt, Shape, CleanerStates
  <2>2. used' \in Seq(Segs)
    BY <1>11, <2>1, AppendProps DEF Retire, TypeOK
  <2>3. cleaning' \in Seq(Segs)
    <3>1. cl[c].seg \in ToSet(cleaning)
      BY <2>1, ConstantFacts DEF OwnSegments
    <3> QED BY <1>11, <3>1, WithoutProps DEF Retire, TypeOK
  <2>4. cl' \in [Cleaners -> CleanerStates]
    BY <1>11, <1>0 DEF Retire, CleanerStates
  <2> QED BY <1>11, <2>2, <2>3, <2>4 DEF Retire, TypeOK
<1>12. CASE Refill(c)
  <2>1. PICK s \in Segs : GetSegment(c, s) /\ cl' = [cl EXCEPT ![c].pc = "walk", ![c].seg = s]
    BY <1>12 DEF Refill
  <2>2. cl' \in [Cleaners -> CleanerStates]
    BY <2>1, <1>0 DEF CleanerStates
  <2> QED BY <2>1, <2>2, GetSegmentType DEF GetSegment, TypeOK
<1>13. CASE Advance(c)
  <2>1. cl' \in [Cleaners -> CleanerStates]
    BY <1>13, <1>0, NextOfType DEF Advance, CleanerStates
  <2> QED BY <1>13, <2>1 DEF Advance, TypeOK
<1>14. CASE Reclaim(c)
  <2>1. cl[c].cur \in Segs
    BY <1>14, <1>0 DEF Reclaim, CleanerAt, Shape, CleanerStates
  <2>2. used' \in Seq(Segs)
    BY <1>14, WithoutProps DEF Reclaim, TypeOK
  <2>3. usedCount' \in 0 .. CountMod - 1
    <3>1. usedCount - 1 \in Int
      BY ConstantFacts, SMT DEF TypeOK
    <3> QED BY <1>14, <3>1, ModType, ConstantFacts DEF Reclaim
  <2>4. /\ emergency' \in Seq(Segs) /\ free' \in Seq(Segs)
        /\ usedSpace' \in [Segs -> 0 .. SizeMod - 1]
    <3>1. 0 \in 0 .. SizeMod - 1
      BY ConstantFacts, SMT
    <3>2. /\ emergency \in Seq(Segs) /\ free \in Seq(Segs)
          /\ usedSpace \in [Segs -> 0 .. SizeMod - 1]
      BY DEF TypeOK
    <3>3. CASE NeedsRefill
      <4>1. emergency' = Append(emergency, cl[c].cur) /\ UNCHANGED <<free, usedSpace>>
        BY <1>14, <3>3 DEF Reclaim
      <4> QED BY <2>1, <3>2, <4>1, AppendProps
    <3>4. CASE ~NeedsRefill
      <4>1. /\ free' = Append(free, cl[c].cur)
            /\ usedSpace' = [usedSpace EXCEPT ![cl[c].cur] = 0]
            /\ UNCHANGED emergency
        BY <1>14, <3>4 DEF Reclaim
      <4> QED BY <2>1, <3>1, <3>2, <4>1, AppendProps
    <3> QED BY <3>3, <3>4
  <2>5. cl' \in [Cleaners -> CleanerStates]
    <3>1. Late(cl[c].cur) \in {"no", "last", "linked"}
      BY DEF Late
    <3>2. NextOf(cl[c].cur) \in Segs \cup {None}
      BY NextOfType
    <3> QED BY <1>14, <1>0, <3>1, <3>2 DEF Reclaim, CleanerStates
  <2> QED BY <1>14, <2>2, <2>3, <2>4, <2>5 DEF Reclaim, TypeOK
<1>15. CASE ReclaimNothing(c)
  <2>1. cl' \in [Cleaners -> CleanerStates]
    BY <1>15, <1>0 DEF ReclaimNothing, CleanerStates
  <2> QED BY <1>15, <2>1 DEF ReclaimNothing, TypeOK
<1>16. CASE Finish(c)
  <2>1. cl[c].cur \in Segs /\ cl[c].nxt \in Segs \cup {None}
    BY <1>16, <1>0 DEF Finish, CleanerAt, Shape, CleanerStates
  <2>2. usedSpace' \in [Segs -> 0 .. SizeMod - 1]
    <3>1. 0 \in 0 .. SizeMod - 1
      BY ConstantFacts, SMT
    <3> QED BY <1>16, <2>1, <3>1 DEF Finish, TypeOK
  <2>3. cl' \in [Cleaners -> CleanerStates]
    BY <1>16, <2>1, GoToType DEF Finish
  <2>4. hazards' \subseteq Hazards
    BY <1>16 DEF Finish, LateHazards, Hazards, TypeOK
  <2>5. currCleaned' \subseteq Segs
    BY <1>16 DEF Finish, TypeOK
  <2> QED BY <1>16, <2>2, <2>3, <2>4, <2>5 DEF Finish, TypeOK
<1> QED
  BY <1>1, <1>2, <1>3, <1>4, <1>5, <1>6, <1>7, <1>8, <1>9, <1>10, <1>11, <1>12, <1>13,
     <1>14, <1>15, <1>16 DEF CleanerStep

-----------------------------------------------------------------------------
(* Program counters.                                                       *)

(* The steps of thread c leave the other threads alone.                    *)
LEMMA OtherThreads ==
    ASSUME TypeOK, NEW c \in Cleaners, CleanerStep(c), NEW d \in Cleaners, d # c
    PROVE  cl'[d] = cl[d]
<1>1. cl \in [Cleaners -> CleanerStates]
  BY DEF TypeOK
<1> QED
  BY <1>1 DEF CleanerStep, StartCleaning, GetFirstSegment, BeginScan, GoTo, Claim, Skip,
     EndWalk, Misread, Drop, Copy, FindFull, Retire, Refill, Advance, Reclaim,
     ReclaimNothing, Finish

LEMMA ClientShape ==
    ASSUME TypeOK, Shape, NewCall \/ CallStep
    PROVE  Shape'
<1> USE DEF heapVars, listVars, lockVars
<1>0. UNCHANGED cl
  BY DEF NewCall, BeginPalloc, BeginPallocWithId, BeginUpdate, BeginFree, CallStep, WriteEntry,
     SealHead, TakeHead, OutOfMemory, Publish, Unmap
<1>1. app \in AppStates
  BY DEF TypeOK
<1>2. CASE NewCall
  <2>0. app.pc = "idle" /\ app.locked = FALSE /\ app'.pc # "idle"
    <3>1. app.pc = "idle"
      BY <1>2 DEF NewCall, BeginPalloc, BeginPallocWithId, BeginUpdate, BeginFree, AppAt
    <3>2. app.locked = FALSE
      BY <3>1, <1>1 DEF Shape, AppStates
    <3>3. app'.pc # "idle"
      <4>1. ASSUME NEW id, BeginFree(id) PROVE app'.pc = "unmap"
        BY <4>1 DEF BeginFree, Idle
      <4>2. ASSUME NEW id, NEW e, NEW locked, Call(id, e, locked) PROVE app'.pc = "append"
        BY <4>2 DEF Call
      <4> QED BY <1>2, <4>1, <4>2 DEF NewCall, BeginPalloc, BeginPallocWithId, BeginUpdate
    <3> QED BY <3>1, <3>2, <3>3
  <2>1. CASE UNCHANGED updateMove /\ app'.locked = FALSE
    BY <1>0, <2>0, <2>1 DEF Shape
  <2>2. CASE updateMove' = App /\ app'.locked = TRUE /\ updateMove = None
    <3>1. \A c \in Cleaners : cl[c].pc \notin {"retire", "refill"} /\ updateMove' # c
      BY <2>2, ConstantFacts DEF Shape
    <3> QED BY <1>0, <2>0, <2>2, <3>1 DEF Shape
  <2>3. ASSUME NEW len \in Lens, BeginPalloc(len) PROVE Shape'
    BY <2>3, <2>1 DEF BeginPalloc, Call
  <2>4. ASSUME NEW len \in Lens, NEW id, BeginPallocWithId(id, len) PROVE Shape'
    BY <2>4, <2>1 DEF BeginPallocWithId, Call
  <2>5. ASSUME NEW len \in Lens, NEW id, BeginUpdate(id, len) PROVE Shape'
    BY <2>5, <2>2 DEF BeginUpdate, Call
  <2>6. ASSUME NEW id, BeginFree(id) PROVE Shape'
    BY <2>6, <2>2 DEF BeginFree, Idle
  <2> QED BY <1>2, <2>3, <2>4, <2>5, <2>6 DEF NewCall
<1>3. CASE CallStep
  <2>1. CASE WriteEntry \/ SealHead \/ TakeHead
    <3>1. app'.locked = app.locked /\ UNCHANGED updateMove /\ app'.pc # "idle"
      BY <1>1, <2>1 DEF WriteEntry, SealHead, TakeHead, AppStates
    <3> QED BY <1>0, <3>1 DEF Shape
  <2>2. CASE OutOfMemory \/ Publish \/ Unmap
    <3>1. app'.locked = FALSE /\ updateMove' = Unlocked
      BY <2>2 DEF OutOfMemory, Publish, Unmap, Idle
    <3>2. updateMove' # App
      BY <3>1, ConstantFacts DEF Unlocked, Shape
    <3>3. \A c \in Cleaners : updateMove' = c <=> updateMove = c
      BY <3>1, ConstantFacts DEF Unlocked, Shape
    <3> QED BY <1>0, <3>1, <3>2, <3>3 DEF Shape
  <2> QED BY <1>3, <2>1, <2>2 DEF CallStep
<1> QED BY <1>2, <1>3

(* What the step of thread c does to its own program counter, to the       *)
(* segments it has and to the mutex.                                       *)
LEMMA CleanerShape ==
    ASSUME TypeOK, Shape, NEW c \in Cleaners, CleanerStep(c)
    PROVE  Shape'
<1> USE DEF heapVars, listVars, lockVars
<1>0. /\ cl \in [Cleaners -> CleanerStates] /\ cl[c] \in CleanerStates
      /\ None \notin Segs /\ App # None /\ App \notin Cleaners /\ None \notin Cleaners
  BY ConstantFacts DEF TypeOK
<1> DEFINE Own ==
              /\ cl'[c].seg = None <=> cl'[c].pc \in {"wait", "first", "refill"}
              /\ cl'[c].cur = None => cl'[c].pc \in {"wait", "first", "scan"}
              /\ cl'[c].pc \in {"retire", "refill"} => updateMove' = c
              /\ updateMove' = c => cl'[c].pc \in {"walk", "retire", "refill"} /\ cl'[c].pos \in Cells
           Mutex == updateMove' = updateMove
                    \/ (updateMove \in {None, c} /\ updateMove' \in {None, c})
<1>1. UNCHANGED app
  BY DEF CleanerStep, StartCleaning, GetFirstSegment, GetSegment, BeginScan, Claim, Skip,
     EndWalk, Misread, Drop, Copy, FindFull, Retire, Refill, Advance, Reclaim,
     ReclaimNothing, Finish
<1>2. ASSUME Own, Mutex PROVE Shape'
  <2>1. app'.locked <=> updateMove' = App
    BY <1>0, <1>1, <1>2 DEF Shape
  <2>2. app'.locked => app'.pc # "idle"
    BY <1>1 DEF Shape
  <2>3. ASSUME NEW d \in Cleaners, d # c
        PROVE  /\ cl'[d].seg = None <=> cl'[d].pc \in {"wait", "first", "refill"}
               /\ cl'[d].cur = None => cl'[d].pc \in {"wait", "first", "scan"}
               /\ cl'[d].pc \in {"retire", "refill"} => updateMove' = d
               /\ updateMove' = d =>
                     cl'[d].pc \in {"walk", "retire", "refill"} /\ cl'[d].pos \in Cells
    <3>1. cl'[d] = cl[d]
      BY <2>3, OtherThreads
    <3>2. updateMove' = d <=> updateMove = d
      BY <1>0, <1>2, <2>3
    <3> QED BY <3>1, <3>2 DEF Shape
  <2> QED BY <1>2, <2>1, <2>2, <2>3 DEF Shape
<1>3. CASE StartCleaning(c)
  BY <1>0, <1>2, <1>3 DEF StartCleaning, CleanerAt, CleanerStates, Shape
<1>4. CASE GetFirstSegment(c)
  <2>1. PICK s \in Segs : GetSegment(c, s) /\ cl' = [cl EXCEPT ![c].pc = "scan", ![c].seg = s]
    BY <1>4 DEF GetFirstSegment
  <2> QED BY <1>0, <1>2, <1>4, <2>1 DEF GetFirstSegment, GetSegment, CleanerAt, CleanerStates, Shape
<1>5. CASE BeginScan(c)
  <2>1. Head(used) \in Segs
    BY <1>5, TailProps DEF BeginScan, TypeOK
  <2> QED BY <1>0, <1>2, <1>5, <2>1 DEF BeginScan, GoTo, CleanerAt, CleanerStates, Shape
<1>6. CASE Claim(c)
  BY <1>0, <1>2, <1>6 DEF Claim, CleanerAt, CleanerStates, Shape
<1>7. CASE Skip(c)
  BY <1>0, <1>2, <1>7 DEF Skip, GoTo, CleanerAt, CleanerStates, Shape
<1>8. CASE EndWalk(c)
  BY <1>0, <1>2, <1>8 DEF EndWalk, CleanerAt, CleanerStates, Shape
<1>9. CASE Misread(c)
  BY <1>0, <1>2, <1>9 DEF Misread, CleanerStates, Shape
<1>10. CASE Drop(c)
  BY <1>0, <1>2, <1>10 DEF Drop, Visits, CleanerAt, CleanerStates, Shape
<1>11. CASE Copy(c)
  <2>1. cl[c].pc = "walk" /\ updateMove \in {None, c}
    BY <1>11 DEF Copy, Visits, Resumes, CleanerAt
  <2> QED BY <1>0, <1>2, <1>11, <2>1 DEF Copy, CleanerStates, Shape
<1>12. CASE FindFull(c)
  BY <1>0, <1>2, <1>12, VisitFacts DEF FindFull, Visits, CleanerAt, CleanerStates, Shape
<1>13. CASE Retire(c)
  BY <1>0, <1>2, <1>13 DEF Retire, CleanerAt, CleanerStates, Shape
<1>14. CASE Refill(c)
  <2>1. PICK s \in Segs : GetSegment(c, s) /\ cl' = [cl EXCEPT ![c].pc = "walk", ![c].seg = s]
    BY <1>14 DEF Refill
  <2> QED BY <1>0, <1>2, <1>14, <2>1 DEF Refill, GetSegment, CleanerAt, CleanerStates, Shape
<1>15. CASE Advance(c)
  BY <1>0, <1>2, <1>15 DEF Advance, CleanerAt, CleanerStates, Shape
<1>16. CASE Reclaim(c)
  <2>1. PICK s : cl' = [cl EXCEPT ![c].pc = "finish", ![c].late = Late(cl[c].cur), ![c].old = s]
    BY <1>16 DEF Reclaim
  <2> QED BY <1>0, <1>2, <1>16, <2>1 DEF Reclaim, CleanerAt, CleanerStates, Shape
<1>17. CASE ReclaimNothing(c)
  BY <1>0, <1>2, <1>17 DEF ReclaimNothing, CleanerAt, CleanerStates, Shape
<1>18. CASE Finish(c)
  BY <1>0, <1>2, <1>18 DEF Finish, GoTo, CleanerAt, CleanerStates, Shape
<1> QED
  BY <1>3, <1>4, <1>5, <1>6, <1>7, <1>8, <1>9, <1>10, <1>11, <1>12, <1>13, <1>14, <1>15,
     <1>16, <1>17, <1>18 DEF CleanerStep

-----------------------------------------------------------------------------
(* The segments stay partitioned.                                          *)

ListTypes ==
    /\ free \in Seq(Segs) /\ used \in Seq(Segs)
    /\ cleaning \in Seq(Segs) /\ emergency \in Seq(Segs)

LEMMA PartitionClient ==
    ASSUME TypeOK, SegmentsPartitioned, NewCall \/ CallStep
    PROVE  SegmentsPartitioned'
<1> USE DEF heapVars, listVars, lockVars
<1>0. ListTypes /\ app \in AppStates /\ head \in Segs \cup {None} /\ None \notin Segs
  BY ConstantFacts DEF TypeOK, ListTypes
<1>1. ASSUME UNCHANGED <<free, used, cleaning, emergency>>, HeadSet' = HeadSet
      PROVE  SegmentsPartitioned'
  BY <1>1 DEF SegmentsPartitioned
<1>2. CASE NewCall
  <2>1. app.pc = "idle" /\ app'.pc \in {"append", "unmap"}
    <3>1. ASSUME NEW id, BeginFree(id) PROVE app'.pc = "unmap"
      BY <3>1 DEF BeginFree, Idle
    <3>2. ASSUME NEW id, NEW e, NEW locked, Call(id, e, locked) PROVE app'.pc = "append"
      BY <3>2 DEF Call
    <3> QED
      BY <1>2, <3>1, <3>2 DEF NewCall, BeginPalloc, BeginPallocWithId, BeginUpdate, BeginFree, AppAt
  <2>2. UNCHANGED <<head, free, used, cleaning, emergency>>
    BY <1>2 DEF NewCall, BeginPalloc, BeginPallocWithId, BeginUpdate, BeginFree
  <2> QED BY <1>1, <2>1, <2>2 DEF HeadSet
<1>3. CASE WriteEntry
  BY <1>0, <1>1, <1>3 DEF WriteEntry, AppAt, HeadSet, AppStates
<1>4. CASE SealHead
  <2>1. /\ app.pc = "append" /\ app'.pc = "takeHead" /\ head \in Segs
        /\ used' = Append(used, head) /\ UNCHANGED <<free, cleaning, emergency>>
    BY <1>0, <1>4 DEF SealHead, AppAt, AppStates
  <2>2. HeadSet = {head} /\ HeadSet' = {}
    BY <1>0, <2>1 DEF HeadSet
  <2>3. head \notin ToSet(used)
    BY <2>2 DEF SegmentsPartitioned
  <2>4. ToSet(used') = ToSet(used) \cup {head} /\ IsInjective(used')
    BY <1>0, <2>1, <2>3, AppendProps DEF SegmentsPartitioned, ListTypes
  <2> QED BY <2>1, <2>2, <2>4 DEF SegmentsPartitioned
<1>5. CASE TakeHead
  <2>1. /\ free # <<>> /\ head' = Head(free) /\ free' = Tail(free)
        /\ app'.pc = "append" /\ UNCHANGED <<used, cleaning, emergency>>
    BY <1>0, <1>5 DEF TakeHead, AppStates
  <2>2. /\ Head(free) \in Segs /\ Head(free) \in ToSet(free)
        /\ ToSet(free') = ToSet(free) \ {Head(free)} /\ IsInjective(free')
    BY <1>0, <2>1, TailProps DEF SegmentsPartitioned, ListTypes
  <2>3. HeadSet = {} /\ HeadSet' = {Head(free)}
    BY <1>0, <1>5, <2>1, <2>2 DEF TakeHead, NeedsHead, AppAt, HeadSet
  <2> QED BY <2>1, <2>2, <2>3 DEF SegmentsPartitioned
<1>6. CASE OutOfMemory
  BY <1>1, <1>6 DEF OutOfMemory, NeedsHead, AppAt, HeadSet
<1>7. CASE Publish \/ Unmap
  BY <1>0, <1>1, <1>7 DEF Publish, Unmap, Idle, AppAt, HeadSet
<1> QED BY <1>2, <1>3, <1>4, <1>5, <1>6, <1>7 DEF CallStep

LEMMA PartitionGet ==
    ASSUME TypeOK, SegmentsPartitioned, NEW c, NEW s \in Segs, GetSegment(c, s)
    PROVE  /\ SegmentsPartitioned'
           /\ s \notin ToSet(cleaning) /\ ToSet(cleaning') = ToSet(cleaning) \cup {s}
<1> USE DEF heapVars, listVars, lockVars
<1>0. ListTypes /\ HeadSet' = HeadSet /\ used' = used
  BY DEF TypeOK, ListTypes, GetSegment, HeadSet
<1>1. s \in ToSet(free) \cup ToSet(emergency)
  BY <1>0, TailProps DEF GetSegment, Obtain, ListTypes
<1>2. s \notin ToSet(cleaning)
  BY <1>1 DEF SegmentsPartitioned
<1>3. ToSet(cleaning') = ToSet(cleaning) \cup {s} /\ IsInjective(cleaning')
  BY <1>0, <1>2, AppendProps DEF GetSegment, Obtain, SegmentsPartitioned, ListTypes
<1>4. CASE free # <<>> /\ s = Head(free) /\ free' = Tail(free) /\ UNCHANGED emergency
  <2>1. s \in ToSet(free) /\ ToSet(free') = ToSet(free) \ {s} /\ IsInjective(free')
    BY <1>0, <1>4, TailProps DEF SegmentsPartitioned, ListTypes
  <2>2. emergency' = emergency
    BY <1>4
  <2> QED BY <1>0, <1>2, <1>3, <2>1, <2>2 DEF SegmentsPartitioned
<1>5. CASE emergency # <<>> /\ s = Head(emergency) /\ emergency' = Tail(emergency) /\ UNCHANGED free
  <2>1. /\ s \in ToSet(emergency) /\ ToSet(emergency') = ToSet(emergency) \ {s}
        /\ IsInjective(emergency')
    BY <1>0, <1>5, TailProps DEF SegmentsPartitioned, ListTypes
  <2>2. free' = free
    BY <1>5
  <2> QED BY <1>0, <1>2, <1>3, <2>1, <2>2 DEF SegmentsPartitioned
<1> QED BY <1>4, <1>5 DEF GetSegment, Obtain

LEMMA PartitionCleaner ==
    ASSUME TypeOK, Shape, OwnSegments, SegmentsPartitioned, NEW c \in Cleaners, CleanerStep(c)
    PROVE  SegmentsPartitioned'
<1> USE DEF heapVars, listVars, lockVars
<1>0. ListTypes /\ cl[c] \in CleanerStates
  BY DEF TypeOK, ListTypes
<1>1. ASSUME UNCHANGED <<head, free, used, cleaning, emergency, app>>
      PROVE  SegmentsPartitioned'
  BY <1>1 DEF SegmentsPartitioned, HeadSet
<1>2. CASE GetFirstSegment(c)
  BY <1>2, PartitionGet DEF GetFirstSegment
<1>3. CASE Refill(c)
  BY <1>3, PartitionGet DEF Refill
<1>4. CASE Retire(c)
  <2> DEFINE s == cl[c].seg
  <2>1. s \in Segs
    BY <1>0, <1>4 DEF Retire, CleanerAt, Shape, CleanerStates
  <2>2. s \in ToSet(cleaning)
    BY <2>1, ConstantFacts DEF OwnSegments
  <2>3. /\ used' = Append(used, s) /\ cleaning' = Without(cleaning, s)
        /\ free' = free /\ emergency' = emergency /\ HeadSet' = HeadSet
    BY <1>4 DEF Retire, HeadSet
  <2> HIDE DEF s
  <2>4. ToSet(cleaning') = ToSet(cleaning) \ {s} /\ IsInjective(cleaning')
    BY <1>0, <2>2, <2>3, WithoutProps DEF SegmentsPartitioned, ListTypes
  <2>5. s \notin ToSet(used)
    BY <2>2 DEF SegmentsPartitioned
  <2>6. ToSet(used') = ToSet(used) \cup {s} /\ IsInjective(used')
    BY <1>0, <2>1, <2>3, <2>5, AppendProps DEF SegmentsPartitioned, ListTypes
  <2> QED BY <2>2, <2>3, <2>4, <2>6 DEF SegmentsPartitioned
<1>5. CASE Reclaim(c)
  <2> DEFINE s == cl[c].cur
  <2>1. s \in Segs
    BY <1>0, <1>5 DEF Reclaim, CleanerAt, Shape, CleanerStates
  <2>2. s \in ToSet(used)
    BY <1>5 DEF Reclaim
  <2>3. used' = Without(used, s) /\ cleaning' = cleaning /\ HeadSet' = HeadSet
    BY <1>5 DEF Reclaim, HeadSet
  <2>4. \/ emergency' = Append(emergency, s) /\ free' = free
        \/ free' = Append(free, s) /\ emergency' = emergency
    BY <1>5 DEF Reclaim
  <2> HIDE DEF s
  <2>5. ToSet(used') = ToSet(used) \ {s} /\ IsInjective(used')
    BY <1>0, <2>2, <2>3, WithoutProps DEF SegmentsPartitioned, ListTypes
  <2>6. s \notin ToSet(free) /\ s \notin ToSet(emergency)
    BY <2>2 DEF SegmentsPartitioned
  <2>7. CASE emergency' = Append(emergency, s) /\ free' = free
    <3>1. ToSet(emergency') = ToSet(emergency) \cup {s} /\ IsInjective(emergency')
      BY <1>0, <2>1, <2>6, <2>7, AppendProps DEF SegmentsPartitioned, ListTypes
    <3> QED BY <2>2, <2>3, <2>5, <2>7, <3>1 DEF SegmentsPartitioned
  <2>8. CASE free' = Append(free, s) /\ emergency' = emergency
    <3>1. ToSet(free') = ToSet(free) \cup {s} /\ IsInjective(free')
      BY <1>0, <2>1, <2>6, <2>8, AppendProps DEF SegmentsPartitioned, ListTypes
    <3> QED BY <2>2, <2>3, <2>5, <2>8, <3>1 DEF SegmentsPartitioned
  <2> QED BY <2>4, <2>7, <2>8
<1>6. CASE ~(GetFirstSegment(c) \/ Refill(c) \/ Retire(c) \/ Reclaim(c))
  <2>1. UNCHANGED <<head, free, used, cleaning, emergency, app>>
    BY <1>6 DEF CleanerStep, StartCleaning, BeginScan, Claim, Skip, EndWalk, Misread, Drop,
       Copy, FindFull, Advance, ReclaimNothing, Finish
  <2> QED BY <1>1, <2>1
<1> QED BY <1>2, <1>3, <1>4, <1>5, <1>6

-----------------------------------------------------------------------------
(* Only four steps of a thread change its own segment or its claim.        *)

LEMMA Keeps ==
    ASSUME TypeOK, NEW c \in Cleaners, CleanerStep(c)
    PROVE  /\ GetFirstSegment(c) \/ Refill(c) \/ Retire(c) \/ cl'[c].seg = cl[c].seg
           /\ \/ Claim(c) \/ Finish(c)
              \/ /\ Cleans(c)' <=> Cleans(c)
                 /\ Cleans(c) => cl'[c].cur = cl[c].cur
                 /\ cl[c].pc = "finish" => cl'[c].pc = "finish"
<1>0. cl \in [Cleaners -> CleanerStates] /\ cl[c] \in CleanerStates
  BY DEF TypeOK
<1>1. CASE StartCleaning(c)
  BY <1>0, <1>1 DEF StartCleaning, CleanerAt, CleanerStates, Cleans
<1>2. CASE GetFirstSegment(c)
  <2>1. PICK s : cl' = [cl EXCEPT ![c].pc = "scan", ![c].seg = s]
    BY <1>2 DEF GetFirstSegment
  <2> QED BY <1>0, <1>2, <2>1 DEF GetFirstSegment, CleanerAt, CleanerStates, Cleans
<1>3. CASE BeginScan(c)
  BY <1>0, <1>3 DEF BeginScan, GoTo, CleanerAt, CleanerStates, Cleans
<1>4. CASE Claim(c)
  BY <1>0, <1>4 DEF Claim, CleanerStates
<1>5. CASE Skip(c)
  BY <1>0, <1>5 DEF Skip, GoTo, CleanerAt, CleanerStates, Cleans
<1>6. CASE EndWalk(c)
  BY <1>0, <1>6 DEF EndWalk, CleanerAt, CleanerStates, Cleans
<1>7. CASE Misread(c)
  BY <1>0, <1>7 DEF Misread, Cleans
<1>8. CASE Drop(c)
  BY <1>0, <1>8 DEF Drop, CleanerStates, Cleans
<1>9. CASE Copy(c)
  BY <1>0, <1>9 DEF Copy, CleanerStates, Cleans
<1>10. CASE FindFull(c)
  BY <1>0, <1>10 DEF FindFull, Visits, CleanerAt, CleanerStates, Cleans
<1>11. CASE Retire(c)
  BY <1>0, <1>11 DEF Retire, CleanerAt, CleanerStates, Cleans
<1>12. CASE Refill(c)
  <2>1. PICK s : cl' = [cl EXCEPT ![c].pc = "walk", ![c].seg = s]
    BY <1>12 DEF Refill
  <2> QED BY <1>0, <1>12, <2>1 DEF Refill, CleanerAt, CleanerStates, Cleans
<1>13. CASE Advance(c)
  BY <1>0, <1>13 DEF Advance, CleanerAt, CleanerStates, Cleans
<1>14. CASE Reclaim(c)
  <2>1. PICK s : cl' = [cl EXCEPT ![c].pc = "finish", ![c].late = Late(cl[c].cur), ![c].old = s]
    BY <1>14 DEF Reclaim
  <2> QED BY <1>0, <1>14, <2>1 DEF Reclaim, CleanerAt, CleanerStates, Cleans
<1>15. CASE ReclaimNothing(c)
  BY <1>0, <1>15 DEF ReclaimNothing, CleanerAt, CleanerStates, Cleans
<1>16. CASE Finish(c)
  BY <1>0, <1>16 DEF Finish, GoTo, CleanerStates
<1> QED
  BY <1>1, <1>2, <1>3, <1>4, <1>5, <1>6, <1>7, <1>8, <1>9, <1>10, <1>11, <1>12, <1>13, <1>14,
     <1>15, <1>16 DEF CleanerStep

-----------------------------------------------------------------------------
(* Every thread keeps its own segment.                                     *)

LEMMA OwnCleaner ==
    ASSUME TypeOK, Shape, OwnSegments, SegmentsPartitioned, NEW c \in Cleaners, CleanerStep(c)
    PROVE  OwnSegments'
<1> USE DEF heapVars, listVars, lockVars
<1>0. /\ cl \in [Cleaners -> CleanerStates] /\ cl[c] \in CleanerStates
      /\ cleaning \in Seq(Segs) /\ None \notin Segs
  BY ConstantFacts DEF TypeOK
<1>1. \A d \in Cleaners \ {c} : cl'[d] = cl[d]
  BY OtherThreads
<1>2. ASSUME cl'[c].seg = cl[c].seg, cleaning' = cleaning PROVE OwnSegments'
  <2>1. \A d \in Cleaners : cl'[d].seg = cl[d].seg
    BY <1>1, <1>2
  <2> QED BY <1>2, <2>1 DEF OwnSegments
<1>3. ASSUME NEW s \in Segs, cl[c].seg = None, cl'[c].seg = s, s \notin ToSet(cleaning),
             ToSet(cleaning') = ToSet(cleaning) \cup {s}
      PROVE  OwnSegments'
  <2>1. \A d \in Cleaners \ {c} : cl[d].seg # s
    BY <1>3, <1>0 DEF OwnSegments
  <2>2. \A d \in Cleaners : cl'[d].seg = IF d = c THEN s ELSE cl[d].seg
    BY <1>1, <1>3
  <2>3. {cl'[d].seg : d \in Cleaners} \ {None} = ({cl[d].seg : d \in Cleaners} \ {None}) \cup {s}
    BY <2>2, <1>3, <1>0
  <2> QED BY <1>3, <2>1, <2>2, <2>3 DEF OwnSegments
<1>4. CASE GetFirstSegment(c)
  <2>1. PICK s \in Segs : GetSegment(c, s) /\ cl' = [cl EXCEPT ![c].pc = "scan", ![c].seg = s]
    BY <1>4 DEF GetFirstSegment
  <2>2. cl[c].seg = None /\ cl'[c].seg = s
    BY <1>0, <1>4, <2>1 DEF GetFirstSegment, CleanerAt, Shape, CleanerStates
  <2> QED BY <1>3, <2>1, <2>2, PartitionGet
<1>5. CASE Refill(c)
  <2>1. PICK s \in Segs : GetSegment(c, s) /\ cl' = [cl EXCEPT ![c].pc = "walk", ![c].seg = s]
    BY <1>5 DEF Refill
  <2>2. cl[c].seg = None /\ cl'[c].seg = s
    BY <1>0, <1>5, <2>1 DEF Refill, CleanerAt, Shape, CleanerStates
  <2> QED BY <1>3, <2>1, <2>2, PartitionGet
<1>6. CASE Retire(c)
  <2> DEFINE s == cl[c].seg
  <2>1. s \in Segs
    BY <1>0, <1>6 DEF Retire, CleanerAt, Shape, CleanerStates
  <2>2. s \in ToSet(cleaning)
    BY <2>1, <1>0 DEF OwnSegments
  <2>3. cl'[c].seg = None /\ cleaning' = Without(cleaning, s)
    BY <1>0, <1>6 DEF Retire, CleanerStates
  <2>4. ToSet(cleaning') = ToSet(cleaning) \ {s}
    BY <1>0, <2>2, <2>3, WithoutProps DEF SegmentsPartitioned
  <2>5. \A d \in Cleaners : cl'[d].seg = IF d = c THEN None ELSE cl[d].seg
    BY <1>1, <2>3
  <2>6. \A d \in Cleaners \ {c} : cl[d].seg # s
    BY <2>1, <1>0 DEF OwnSegments
  <2>7. {cl'[d].seg : d \in Cleaners} \ {None} = ({cl[d].seg : d \in Cleaners} \ {None}) \ {s}
    BY <2>5, <2>6
  <2> QED BY <2>4, <2>5, <2>7 DEF OwnSegments
<1>7. CASE ~(GetFirstSegment(c) \/ Refill(c) \/ Retire(c))
  <2>1. cleaning' = cleaning
    BY <1>7 DEF CleanerStep, StartCleaning, BeginScan, Claim, Skip, EndWalk, Misread, Drop,
       Copy, FindFull, Advance, Reclaim, ReclaimNothing, Finish
  <2>2. cl'[c].seg = cl[c].seg
    BY <1>7, Keeps
  <2> QED BY <1>2, <2>1, <2>2
<1> QED BY <1>4, <1>5, <1>6, <1>7

-----------------------------------------------------------------------------
(* Claims.                                                                 *)

LEMMA HazardsGrow ==
    ASSUME [Next]_vars
    PROVE  hazards \subseteq hazards'
<1>1. ASSUME CallStep PROVE hazards \subseteq hazards'
  BY <1>1 DEF CallStep, WriteEntry, SealHead, TakeHead, OutOfMemory, Publish, Unmap, Meet
<1>2. ASSUME NewCall PROVE hazards \subseteq hazards'
  BY <1>2 DEF NewCall, BeginPalloc, BeginPallocWithId, BeginUpdate, BeginFree, Meet
<1>3. ASSUME NEW c \in Cleaners, CleanerStep(c) PROVE hazards \subseteq hazards'
  <2>1. CASE StartCleaning(c) \/ BeginScan(c) \/ Skip(c) \/ EndWalk(c) \/ FindFull(c)
             \/ Retire(c) \/ Advance(c) \/ Reclaim(c) \/ ReclaimNothing(c)
    BY <2>1 DEF StartCleaning, BeginScan, Skip, EndWalk, FindFull, Retire, Advance, Reclaim,
       ReclaimNothing
  <2>2. CASE Claim(c) \/ Misread(c) \/ Drop(c) \/ Copy(c)
    BY <2>2 DEF Claim, Misread, Drop, Copy, Meet
  <2>3. CASE GetFirstSegment(c) \/ Refill(c)
    BY <2>3 DEF GetFirstSegment, Refill, GetSegment, Meet
  <2>4. CASE Finish(c)
    BY <2>4 DEF Finish
  <2> QED BY <1>3, <2>1, <2>2, <2>3, <2>4 DEF CleanerStep
<1> QED BY <1>1, <1>2, <1>3 DEF Next, vars

LEMMA ClaimsClient ==
    ASSUME TypeOK, ClaimsExclusive, NewCall \/ CallStep
    PROVE  ClaimsExclusive'
<1> USE DEF heapVars, listVars, lockVars
<1>1. UNCHANGED <<cl, currCleaned>>
  BY DEF NewCall, BeginPalloc, BeginPallocWithId, BeginUpdate, BeginFree, CallStep, WriteEntry,
     SealHead, TakeHead, OutOfMemory, Publish, Unmap
<1>2. ToSet(used) \subseteq ToSet(used')
  <2>1. CASE SealHead
    BY <2>1, AppendProps DEF SealHead, TypeOK
  <2>2. CASE ~SealHead
    <3>1. used' = used
      BY <2>2 DEF NewCall, BeginPalloc, BeginPallocWithId, BeginUpdate, BeginFree, CallStep,
         WriteEntry, TakeHead, OutOfMemory, Publish, Unmap
    <3> QED BY <3>1
  <2> QED BY <2>1, <2>2
<1>3. hazards \subseteq hazards'
  BY HazardsGrow DEF Next
<1>4. \A c \in Cleaners : Cleans(c)' <=> Cleans(c)
  BY <1>1 DEF Cleans
<1> QED BY <1>1, <1>2, <1>3, <1>4 DEF ClaimsExclusive

LEMMA ClaimsCleaner ==
    ASSUME TypeOK, Shape, OwnSegments, SegmentsPartitioned, ClaimsExclusive,
           NEW c \in Cleaners, CleanerStep(c)
    PROVE  ClaimsExclusive'
<1> USE DEF heapVars, listVars, lockVars
<1>0. /\ cl \in [Cleaners -> CleanerStates] /\ cl[c] \in CleanerStates
      /\ used \in Seq(Segs) /\ IsInjective(used)
  BY DEF TypeOK, SegmentsPartitioned
<1>1. \A d \in Cleaners \ {c} : cl'[d] = cl[d] /\ (Cleans(d)' <=> Cleans(d))
  BY OtherThreads DEF Cleans
<1>2. hazards \subseteq hazards'
  BY HazardsGrow DEF Next
<1>3. CASE Claim(c)
  <2>1. /\ ~Cleans(c) /\ Cleans(c)' /\ cl'[c].cur = cl[c].cur
        /\ currCleaned' = currCleaned \cup {cl[c].cur} /\ cl[c].cur \notin currCleaned
        /\ used' = used
    BY <1>0, <1>3 DEF Claim, Claimable, CleanerAt, Cleans, CleanerStates
  <2>2. "staleClaim" \notin hazards' => cl[c].cur \in ToSet(used)
    BY <1>3 DEF Claim, Meet
  <2>3. currCleaned' = {cl'[d].cur : d \in {x \in Cleaners : Cleans(x)'}}
    BY <1>1, <2>1 DEF ClaimsExclusive
  <2>4. \A d, e \in Cleaners : Cleans(d)' /\ Cleans(e)' /\ cl'[d].cur = cl'[e].cur => d = e
    BY <1>1, <2>1 DEF ClaimsExclusive
  <2> QED BY <1>1, <1>2, <2>1, <2>2, <2>3, <2>4 DEF ClaimsExclusive
<1>4. CASE Finish(c)
  <2>1. /\ Cleans(c) /\ ~Cleans(c)' /\ currCleaned' = currCleaned \ {cl[c].cur} /\ used' = used
    BY <1>0, <1>4 DEF Finish, GoTo, CleanerAt, Cleans
  <2>2. \A d \in Cleaners \ {c} : Cleans(d) => cl[d].cur # cl[c].cur
    BY <2>1 DEF ClaimsExclusive
  <2>3. currCleaned' = {cl'[d].cur : d \in {x \in Cleaners : Cleans(x)'}}
    BY <1>1, <2>1, <2>2 DEF ClaimsExclusive
  <2>4. \A d, e \in Cleaners : Cleans(d)' /\ Cleans(e)' /\ cl'[d].cur = cl'[e].cur => d = e
    BY <1>1, <2>1 DEF ClaimsExclusive
  <2> QED BY <1>1, <1>2, <2>1, <2>3, <2>4 DEF ClaimsExclusive
<1>5. CASE ~(Claim(c) \/ Finish(c))
  <2>1. /\ Cleans(c)' <=> Cleans(c)
        /\ Cleans(c) => cl'[c].cur = cl[c].cur
        /\ currCleaned' = currCleaned
    <3>1. currCleaned' = currCleaned
      BY <1>5 DEF CleanerStep, StartCleaning, GetFirstSegment, GetSegment, BeginScan, Skip,
         EndWalk, Misread, Drop, Copy, FindFull, Retire, Refill, Advance, Reclaim, ReclaimNothing
    <3> QED BY <1>5, <3>1, Keeps
  <2>2. \A d \in Cleaners :
           /\ Cleans(d)' <=> Cleans(d)
           /\ Cleans(d) => cl'[d].cur = cl[d].cur
    BY <1>1, <2>1
  <2>3. currCleaned' = {cl'[d].cur : d \in {x \in Cleaners : Cleans(x)'}}
    BY <2>1, <2>2 DEF ClaimsExclusive
  <2>4. \A d, e \in Cleaners : Cleans(d)' /\ Cleans(e)' /\ cl'[d].cur = cl'[e].cur => d = e
    BY <2>2 DEF ClaimsExclusive
  <2>5. ASSUME "staleClaim" \notin hazards', NEW d \in Cleaners, Cleans(d)', cl'[d].pc # "finish"
        PROVE  cl'[d].cur \in ToSet(used')
    <3>1. "staleClaim" \notin hazards
      BY <1>2, <2>5
    <3>2. CASE Reclaim(c)
      <4>1. /\ d # c /\ Cleans(c)
        BY <1>0, <2>5, <3>2 DEF Reclaim, CleanerAt, Cleans, CleanerStates
      <4>2. cl[d].cur \in ToSet(used) /\ cl[d].cur # cl[c].cur
        BY <1>1, <2>2, <2>5, <3>1, <4>1 DEF ClaimsExclusive
      <4>3. ToSet(used') = ToSet(used) \ {cl[c].cur}
        BY <1>0, <3>2, WithoutProps DEF Reclaim
      <4> QED BY <1>1, <4>1, <4>2, <4>3
    <3>3. CASE ~Reclaim(c)
      <4>1. cl[d].pc # "finish" /\ Cleans(d) /\ cl'[d].cur = cl[d].cur
        <5>1. CASE d = c
          BY <1>5, <2>2, <2>5, <5>1, Keeps
        <5>2. CASE d # c
          BY <1>1, <2>2, <2>5, <5>2
        <5> QED BY <5>1, <5>2
      <4>2. cl[d].cur \in ToSet(used)
        BY <3>1, <4>1 DEF ClaimsExclusive
      <4>3. ToSet(used) \subseteq ToSet(used')
        <5>1. CASE Retire(c)
          <6>1. cl[c].seg \in Segs
            BY <1>0, <5>1 DEF Retire, CleanerAt, Shape, CleanerStates
          <6> QED BY <1>0, <5>1, <6>1, AppendProps DEF Retire
        <5>2. CASE ~Retire(c)
          <6>1. used' = used
            BY <1>5, <3>3, <5>2 DEF CleanerStep, StartCleaning, GetFirstSegment, GetSegment,
               BeginScan, Skip, EndWalk, Misread, Drop, Copy, FindFull, Refill, Advance,
               ReclaimNothing
          <6> QED BY <6>1
        <5> QED BY <5>1, <5>2
      <4> QED BY <4>1, <4>2, <4>3
    <3> QED BY <3>2, <3>3
  <2> QED BY <2>3, <2>4, <2>5 DEF ClaimsExclusive
<1> QED BY <1>3, <1>4, <1>5
LEMMA LeakStep ==
    ASSUME ClaimsExclusive, LeakNeedsStaleClaim, NEW c \in Cleaners, CleanerStep(c)
    PROVE  LeakNeedsStaleClaim'
<1> USE DEF heapVars, listVars, lockVars
<1>1. hazards \subseteq hazards'
  BY HazardsGrow DEF Next
<1>2. CASE ReclaimNothing(c)
  BY <1>1, <1>2 DEF ReclaimNothing, CleanerAt, Cleans, ClaimsExclusive, LeakNeedsStaleClaim
<1>3. CASE ~ReclaimNothing(c)
  <2>1. usedLock' = usedLock
    BY <1>3 DEF CleanerStep, StartCleaning, GetFirstSegment, GetSegment, BeginScan, Claim, Skip,
       EndWalk, Misread, Drop, Copy, FindFull, Retire, Refill, Advance, Reclaim, Finish
  <2> QED BY <1>1, <2>1 DEF LeakNeedsStaleClaim
<1> QED BY <1>2, <1>3

-----------------------------------------------------------------------------
(* Initial states.                                                         *)

LEMMA InitLists ==
    ASSUME Init
    PROVE  /\ free \in Seq(Segs) /\ emergency \in Seq(Segs)
           /\ used = <<>> /\ cleaning = <<>> /\ head = 0 /\ 0 \in Segs
           /\ IsInjective(free) /\ IsInjective(emergency)
           /\ ToSet(free) = 1 .. NSeg - EmergencyCount - 1
           /\ ToSet(emergency) = NSeg - EmergencyCount .. NSeg - 1
<1>1. NSeg \in Nat /\ EmergencyCount \in Nat /\ EmergencyCount + 1 < NSeg
  BY SegAssumption
<1> DEFINE n == NSeg - EmergencyCount - 1
           Place(i) == NSeg - EmergencyCount + i - 1
<1>2. n \in Nat /\ NSeg - EmergencyCount \in Nat
  BY <1>1
<1>3. free = [i \in 1 .. n |-> i] /\ emergency = [i \in 1 .. EmergencyCount |-> Place(i)]
  BY DEF Init
<1>4. \A i \in 1 .. n : i \in Segs
  BY <1>1 DEF Segs
<1>5. \A i \in 1 .. EmergencyCount : Place(i) \in Segs
  BY <1>1 DEF Segs
<1>6. free \in Seq(Segs)
  BY <1>2, <1>3, <1>4, SeqDef
<1>7. emergency \in Seq(Segs)
  BY <1>1, <1>3, <1>5, SeqDef
<1>8. IsInjective(free) /\ IsInjective(emergency)
  BY <1>1, <1>3 DEF IsInjective
<1>9. ToSet(free) = 1 .. n
  BY <1>3 DEF ToSet
<1>10. ToSet(emergency) = NSeg - EmergencyCount .. NSeg - 1
  <2>1. ToSet(emergency) = {Place(i) : i \in 1 .. EmergencyCount}
    BY <1>3 DEF ToSet
  <2>2. \A s \in NSeg - EmergencyCount .. NSeg - 1 :
           s - (NSeg - EmergencyCount) + 1 \in 1 .. EmergencyCount
           /\ Place(s - (NSeg - EmergencyCount) + 1) = s
    BY <1>1
  <2>3. \A i \in 1 .. EmergencyCount : Place(i) \in NSeg - EmergencyCount .. NSeg - 1
    BY <1>1
  <2> QED BY <2>1, <2>2, <2>3
<1>11. used = <<>> /\ cleaning = <<>> /\ head = 0 /\ 0 \in Segs
  BY <1>1 DEF Init, Segs
<1> QED BY <1>6, <1>7, <1>8, <1>9, <1>10, <1>11

LEMMA InitType ==
    ASSUME Init
    PROVE  TypeOK
<1>1. /\ Cap \in Nat /\ SizeMod \in Nat /\ SizeMod > 0 /\ CountMod \in Nat /\ CountMod > 0
      /\ MaxWrites \in Nat
  BY SegAssumption, ClientAssumption DEF Cap
<1>2. Blank \in Entry
  BY DEF Blank, Entry
<1>3. content \in [Segs -> [Cells -> Entry \cup {Data}]]
  BY <1>2 DEF Init
<1>4. fill \in [Segs -> 0 .. Cap] /\ usedSpace \in [Segs -> 0 .. SizeMod - 1]
  BY <1>1 DEF Init
<1>5. /\ head \in Segs \cup {None} /\ free \in Seq(Segs) /\ used \in Seq(Segs)
      /\ cleaning \in Seq(Segs) /\ emergency \in Seq(Segs)
  BY InitLists, EmptyProps
<1>6. /\ usedCount \in 0 .. CountMod - 1 /\ nextId \in Nat /\ writes \in 0 .. MaxWrites
      /\ hash \in [Ids -> Places \cup {Null}] /\ currCleaned \subseteq Segs
      /\ updateMove \in Cleaners \cup {App, None} /\ usedLock \in Cleaners \cup {None}
      /\ hazards \subseteq Hazards
  BY <1>1 DEF Init
<1>7. app \in AppStates
  BY <1>2 DEF Init, Idle, AppStates
<1>8. cl \in [Cleaners -> CleanerStates]
  BY DEF Init, CleanerStates
<1> QED BY <1>3, <1>4, <1>5, <1>6, <1>7, <1>8 DEF TypeOK

LEMMA InitInv ==
    ASSUME Init
    PROVE  Shape /\ SegmentsPartitioned /\ OwnSegments /\ ClaimsExclusive /\ LeakNeedsStaleClaim
<1>1. /\ app = Idle /\ updateMove = None /\ currCleaned = {}
      /\ \A c \in Cleaners : cl[c].pc = "wait" /\ cl[c].seg = None
  BY DEF Init
<1>2. Shape
  BY <1>1, ConstantFacts, ClientAssumption DEF Shape, Idle
<1>3. SegmentsPartitioned
  <2>1. ToSet(used) = {} /\ ToSet(cleaning) = {} /\ IsInjective(used) /\ IsInjective(cleaning)
    BY InitLists, EmptyProps
  <2>2. HeadSet = {0}
    BY <1>1, InitLists, ClientAssumption DEF HeadSet, Idle
  <2>3. Segs = {0} \cup (1 .. NSeg - EmergencyCount - 1) \cup (NSeg - EmergencyCount .. NSeg - 1)
    BY SegAssumption DEF Segs
  <2>4. (1 .. NSeg - EmergencyCount - 1) \cap (NSeg - EmergencyCount .. NSeg - 1) = {}
    BY SegAssumption
  <2>5. 0 \notin 1 .. NSeg - EmergencyCount - 1 /\ 0 \notin NSeg - EmergencyCount .. NSeg - 1
    BY SegAssumption
  <2> QED BY <2>1, <2>2, <2>3, <2>4, <2>5, InitLists DEF SegmentsPartitioned
<1>4. OwnSegments
  <2>1. ToSet(cleaning) = {}
    BY InitLists, EmptyProps
  <2> QED BY <1>1, <2>1 DEF OwnSegments
<1>5. ClaimsExclusive
  BY <1>1 DEF ClaimsExclusive, Cleans
<1>6. LeakNeedsStaleClaim
  BY DEF Init, LeakNeedsStaleClaim
<1> QED BY <1>2, <1>3, <1>4, <1>5, <1>6

-----------------------------------------------------------------------------
(* The inductive invariant.  Which segment a thread owns follows from its  *)
(* program counter (Shape); that what it takes and gives back is in one    *)
(* list only, from the partition; and that the segment it retires is in    *)
(* the cleaner list, from OwnSegments.  So the partition and the claims    *)
(* are not inductive on their own.                                         *)

IInv ==
    /\ TypeOK /\ Shape /\ SegmentsPartitioned /\ OwnSegments /\ ClaimsExclusive
    /\ LeakNeedsStaleClaim

LEMMA ClientStep ==
    ASSUME IInv, NewCall \/ CallStep
    PROVE  IInv'
<1>1. TypeOK'
  BY NewCallType, CallStepType DEF IInv
<1>2. Shape'
  BY ClientShape DEF IInv
<1>3. SegmentsPartitioned'
  BY PartitionClient DEF IInv
<1>4. OwnSegments'
  <2>1. UNCHANGED <<cleaning, cl>>
    BY DEF NewCall, BeginPalloc, BeginPallocWithId, BeginUpdate, BeginFree, CallStep,
       WriteEntry, SealHead, TakeHead, OutOfMemory, Publish, Unmap, heapVars, listVars
  <2> QED BY <2>1 DEF IInv, OwnSegments
<1>5. ClaimsExclusive'
  BY ClaimsClient DEF IInv
<1>6. LeakNeedsStaleClaim'
  <2>1. UNCHANGED usedLock
    BY DEF NewCall, BeginPalloc, BeginPallocWithId, BeginUpdate, BeginFree, CallStep,
       WriteEntry, SealHead, TakeHead, OutOfMemory, Publish, Unmap, lockVars
  <2>2. hazards \subseteq hazards'
    BY HazardsGrow DEF Next
  <2> QED BY <2>1, <2>2 DEF IInv, LeakNeedsStaleClaim
<1> QED BY <1>1, <1>2, <1>3, <1>4, <1>5, <1>6 DEF IInv

LEMMA ThreadStep ==
    ASSUME IInv, NEW c \in Cleaners, CleanerStep(c)
    PROVE  IInv'
<1>1. TypeOK'
  BY CleanerStepType DEF IInv
<1>2. Shape'
  BY CleanerShape DEF IInv
<1>3. SegmentsPartitioned'
  BY PartitionCleaner DEF IInv
<1>4. OwnSegments'
  BY OwnCleaner DEF IInv
<1>5. ClaimsExclusive'
  BY ClaimsCleaner DEF IInv
<1>6. LeakNeedsStaleClaim'
  BY LeakStep DEF IInv
<1> QED BY <1>1, <1>2, <1>3, <1>4, <1>5, <1>6 DEF IInv

LEMMA Stutter ==
    ASSUME IInv, UNCHANGED vars
    PROVE  IInv'
<1> USE DEF vars, heapVars, listVars, lockVars
<1>1. TypeOK'
  BY DEF IInv, TypeOK
<1>2. Shape'
  BY DEF IInv, Shape
<1>3. SegmentsPartitioned'
  BY DEF IInv, SegmentsPartitioned, HeadSet
<1>4. OwnSegments'
  BY DEF IInv, OwnSegments
<1>5. ClaimsExclusive'
  BY DEF IInv, ClaimsExclusive, Cleans
<1>6. LeakNeedsStaleClaim'
  BY DEF IInv, LeakNeedsStaleClaim
<1> QED BY <1>1, <1>2, <1>3, <1>4, <1>5, <1>6 DEF IInv

(* Whatever the client asks for and however the threads interleave, the    *)
(* six invariants hold together in every state the heap can reach, for     *)
(* any number of segments, cleaner threads and objects.                    *)
THEOREM Inductive == Spec => []IInv
<1>1. Init => IInv
  BY InitType, InitInv DEF IInv
<1>2. IInv /\ [Next]_vars => IInv'
  BY ClientStep, ThreadStep, Stutter DEF Next
<1> QED BY <1>1, <1>2, PTL DEF Spec

(* Every variable of the heap keeps its type; in particular every walk     *)
(* stays within its segment and no entry is written past the end of one    *)
(* (log.c:82-117, cleaner.c:121-140).                                      *)
THEOREM TypeCorrect == Spec => []TypeOK
<1>1. IInv => TypeOK
  BY DEF IInv
<1> QED BY <1>1, Inductive, PTL

(* A segment is never lost and never in two lists: the moves between the   *)
(* head, the free, used, cleaner and emergency lists (log.c:119-162,       *)
(* cleaner.c:187-410) keep them a partition of the file.                   *)
THEOREM Partitioned == Spec => []SegmentsPartitioned
<1>1. IInv => SegmentsPartitioned
  BY DEF IInv
<1> QED BY <1>1, Inductive, PTL

(* No two cleaner threads ever copy into the same segment                  *)
(* (cleaner.c:187-264, 290-339).                                           *)
THEOREM SegmentsOwned == Spec => []OwnSegments
<1>1. IInv => OwnSegments
  BY DEF IInv
<1> QED BY <1>1, Inductive, PTL

(* No two cleaner threads clean the same segment, and one that is being    *)
(* cleaned is still a used segment as long as no thread claimed one        *)
(* through a stale cursor (cleaner.c:172-185, 341-410).                    *)
THEOREM ClaimsAreExclusive == Spec => []ClaimsExclusive
<1>1. IInv => ClaimsExclusive
  BY DEF IInv
<1> QED BY <1>1, Inductive, PTL

(* A cleaner keeps update_move_mutex exactly while it looks for another    *)
(* segment to copy the entry at hand to, and the client exactly while it   *)
(* updates or frees an object (cleaner.c:115-140, log_pmem.c:238-320).     *)
THEOREM ThreadShape == Spec => []Shape
<1>1. IInv => Shape
  BY DEF IInv
<1> QED BY <1>1, Inductive, PTL

(* append_cleaned_segment_to_free_segments leaves used_segs_mutex locked   *)
(* (cleaner.c:357-359) only after a thread claimed a segment that another  *)
(* one had given back.                                                     *)
THEOREM LeakNeedsClaim == Spec => []LeakNeedsStaleClaim
<1>1. IInv => LeakNeedsStaleClaim
  BY DEF IInv
<1> QED BY <1>1, Inductive, PTL

-----------------------------------------------------------------------------
(* Open ends: used segments without a terminator behind their last entry.  *)

LEMMA EndsKept ==
    ASSUME ToSet(used)' \subseteq ToSet(used), fill' = fill,
           \A s \in ToSet(used)', p \in Cells : content'[s][p].len = content[s][p].len,
           TypeOK
    PROVE  OpenEnds' \subseteq OpenEnds
<1> SUFFICES ASSUME NEW s \in OpenEnds' PROVE s \in OpenEnds
  OBVIOUS
<1>1. s \in ToSet(used)' /\ fill[s] < Cap - 1 /\ content'[s][fill[s]].len # 0
  BY DEF OpenEnds, Cap
<1>2. s \in Segs
  <2>1. used \in Seq(Segs) /\ ToSet(used) \subseteq Segs
    BY DEF TypeOK, ToSet
  <2> QED BY <1>1, <2>1
<1>3. fill[s] \in Cells
  <2>1. fill[s] \in 0 .. Cap
    BY <1>2 DEF TypeOK
  <2> QED BY <2>1, <1>1, ConstantFacts, SMT DEF Cells
<1> QED BY <1>1, <1>3 DEF OpenEnds

(* The same when the segments not in use change.                           *)
LEMMA EndsElsewhere ==
    ASSUME ToSet(used)' \subseteq ToSet(used),
           \A s \in ToSet(used) : fill'[s] = fill[s] /\ content'[s] = content[s]
    PROVE  OpenEnds' \subseteq OpenEnds
  BY DEF OpenEnds, Cap

LEMMA EndsClient ==
    ASSUME TypeOK, SegmentsPartitioned, CallStep \/ NewCall
    PROVE  OpenEnds' \subseteq OpenEnds
<1> USE DEF heapVars, listVars, lockVars
<1>0. used \in Seq(Segs) /\ ToSet(used) \subseteq Segs
  BY DEF TypeOK, ToSet
<1>1. CASE WriteEntry
  <2>1. head \notin ToSet(used)
    BY <1>1 DEF WriteEntry, AppAt, SegmentsPartitioned, HeadSet
  <2>2. \A s \in ToSet(used) : fill'[s] = fill[s] /\ content'[s] = content[s]
    BY <1>0, <1>1, <2>1 DEF WriteEntry, Written, TypeOK
  <2> QED BY <1>1, <2>2, EndsElsewhere DEF WriteEntry
<1>2. CASE SealHead
  <2> SUFFICES ASSUME NEW s \in OpenEnds' PROVE s \in OpenEnds
    OBVIOUS
  <2>1. head \in Segs /\ ToSet(used') = ToSet(used) \cup {head} /\ fill' = fill
    BY <1>0, <1>2, AppendProps DEF SealHead, TypeOK
  <2>2. s \in ToSet(used) \cup {head} /\ fill[s] < Cap - 1 /\ content'[s][fill[s]].len # 0
    BY <2>1 DEF OpenEnds, Cap
  <2>3. CASE s = head
    <3>1. fill[head] \in 0 .. Cap
      BY <2>1 DEF TypeOK
    <3>2. fill[head] \in Cells
      BY <2>2, <2>3, <3>1, ConstantFacts, SMT DEF Cells
    <3>3. content'[head][fill[head]].len = 0
      BY <1>2, <2>1, <3>2 DEF SealHead, Terminated, TypeOK, Entry, Data
    <3> QED BY <2>2, <2>3, <3>3
  <2>4. CASE s # head
    <3>1. content'[s] = content[s]
      BY <1>0, <1>2, <2>1, <2>2, <2>4 DEF SealHead, Terminated, TypeOK
    <3> QED BY <2>2, <2>4, <3>1 DEF OpenEnds
  <2> QED BY <2>3, <2>4
<1>3. CASE TakeHead
  <2>1. Head(free) \notin ToSet(used)
    BY <1>3, TailProps DEF TakeHead, SegmentsPartitioned, TypeOK
  <2>2. \A s \in ToSet(used) : fill'[s] = fill[s]
    BY <1>0, <1>3, <2>1 DEF TakeHead, TypeOK
  <2> QED BY <1>3, <2>2, EndsElsewhere DEF TakeHead
<1>4. ASSUME NEW id \in FreeIds, BeginFree(id) PROVE OpenEnds' \subseteq OpenEnds
  <2>1. hash[id] \in Places
    BY <1>4, ClientAssumption DEF BeginFree, TypeOK
  <2>2. \A s \in Segs, p \in Cells : content'[s][p].len = content[s][p].len
    BY <1>4, <2>1 DEF BeginFree, Marked, TypeOK, Places, Entry, Data
  <2> QED BY <1>0, <1>4, <2>2, EndsKept DEF BeginFree
<1>5. CASE OutOfMemory \/ Publish \/ Unmap
  <2>1. UNCHANGED <<content, fill, used>>
    BY <1>5 DEF OutOfMemory, Publish, Unmap
  <2> QED BY <2>1, EndsElsewhere
<1>6. ASSUME NEW id, NEW len, BeginPalloc(len) \/ BeginPallocWithId(id, len) \/ BeginUpdate(id, len)
      PROVE  OpenEnds' \subseteq OpenEnds
  <2>1. UNCHANGED <<content, fill, used>>
    BY <1>6 DEF BeginPalloc, BeginPallocWithId, BeginUpdate
  <2> QED BY <2>1, EndsElsewhere
<1> QED BY <1>1, <1>2, <1>3, <1>4, <1>5, <1>6 DEF CallStep, NewCall

LEMMA EndsGet ==
    ASSUME TypeOK, SegmentsPartitioned, NEW c, NEW s \in Segs, GetSegment(c, s)
    PROVE  OpenEnds' \subseteq OpenEnds
<1> USE DEF heapVars, listVars, lockVars
<1>1. s \notin ToSet(used)
  <2>1. s \in ToSet(free) \cup ToSet(emergency)
    <3>1. free \in Seq(Segs) /\ emergency \in Seq(Segs)
      BY DEF TypeOK
    <3>2. \/ free # <<>> /\ s = Head(free)
          \/ emergency # <<>> /\ s = Head(emergency)
      BY DEF GetSegment, Obtain
    <3> QED BY <3>1, <3>2, TailProps
  <2> QED BY <2>1 DEF SegmentsPartitioned
<1>2. \A r \in ToSet(used) : fill'[r] = fill[r]
  BY <1>1 DEF GetSegment, Obtain, TypeOK, ToSet
<1> QED BY <1>2, EndsElsewhere DEF GetSegment

LEMMA EndsCleaner ==
    ASSUME TypeOK, Shape, OwnSegments, SegmentsPartitioned, NEW c \in Cleaners, CleanerStep(c)
    PROVE  OpenEnds' \subseteq OpenEnds \cup {cl[d].seg : d \in {b \in Cleaners : cl[b].pc = "retire"}}
<1> USE DEF heapVars, listVars, lockVars
<1>0. used \in Seq(Segs) /\ ToSet(used) \subseteq Segs /\ cl[c] \in CleanerStates
  BY DEF TypeOK, ToSet
<1>1. CASE GetFirstSegment(c) \/ Refill(c)
  BY <1>1, EndsGet DEF GetFirstSegment, Refill
<1>2. CASE Copy(c)
  <2>1. cl[c].seg \in Segs
    BY <1>2, VisitFacts DEF Copy
  <2>2. cl[c].seg \notin ToSet(used)
    BY <2>1, ConstantFacts DEF OwnSegments, SegmentsPartitioned
  <2>3. \A r \in ToSet(used) : fill'[r] = fill[r] /\ content'[r] = content[r]
    BY <1>0, <1>2, <2>1, <2>2 DEF Copy, Written, TypeOK
  <2> QED BY <1>2, <2>3, EndsElsewhere DEF Copy
<1>3. CASE Retire(c)
  <2>1. cl[c].seg \in Segs /\ cl[c].pc = "retire"
    BY <1>0, <1>3 DEF Retire, CleanerAt, Shape, CleanerStates
  <2>2. ToSet(used') = ToSet(used) \cup {cl[c].seg} /\ UNCHANGED <<content, fill>>
    BY <1>0, <1>3, <2>1, AppendProps DEF Retire
  <2> QED BY <2>1, <2>2 DEF OpenEnds, Cap
<1>4. CASE Reclaim(c)
  <2>1. ToSet(used') \subseteq ToSet(used) /\ UNCHANGED <<content, fill>>
    BY <1>0, <1>4, WithoutProps DEF Reclaim
  <2> QED BY <2>1, EndsElsewhere
<1>5. CASE ~(GetFirstSegment(c) \/ Refill(c) \/ Copy(c) \/ Retire(c) \/ Reclaim(c))
  <2>1. UNCHANGED <<content, fill, used>>
    BY <1>5 DEF CleanerStep, StartCleaning, BeginScan, Claim, Skip, EndWalk, Misread, Drop,
       FindFull, Advance, ReclaimNothing, Finish
  <2> QED BY <2>1, EndsElsewhere
<1> QED BY <1>1, <1>2, <1>3, <1>4, <1>5

(* append_to_log seals its segment with a terminator where another header  *)
(* would fit (log.c:94-100), and no later step of anybody undoes that: an  *)
(* end that a walk runs over is left by a cleaner alone, in the segment it *)
(* retires (cleaner.c:121-122).                                            *)
THEOREM OnlyRetiringOpensEnds == Spec => EndsStayClosed
<1>1. ASSUME IInv, [Next]_vars
      PROVE  [OpenEnds' \subseteq OpenEnds \cup {cl[c].seg : c \in {d \in Cleaners : cl[d].pc = "retire"}}]_vars
  BY <1>1, EndsClient, EndsCleaner DEF Next, IInv
<1> QED BY <1>1, Inductive, PTL DEF Spec, EndsStayClosed
=============================================================================
