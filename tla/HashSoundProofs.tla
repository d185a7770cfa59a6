-------------------------- MODULE HashSoundProofs --------------------------
(***************************************************************************)
(* The hash table is sound: what it points to is a live entry of that id,  *)
(* in a segment that has not been given back, for any number of segments,  *)
(* cleaner threads, objects and calls, as long as none of the hazards of   *)
(* LogHeap has struck.                                                     *)
(*                                                                         *)
(* A segment is given back when its used_space is 0, or when a cleaner has *)
(* walked over it.  So the inductive invariant says that the entries of a  *)
(* segment stand back to back, so that the walk meets every one (Rows),    *)
(* that used_space counts at least the live ones (Spaces), and how far a   *)
(* thread that cleans a segment has emptied it (Walks).                    *)
(***************************************************************************)
EXTENDS LogHeapProofs, FiniteSetTheorems

-----------------------------------------------------------------------------
(* A row of entries: the first n cells of a segment hold entries, each a   *)
(* header with data behind it, back to back.                               *)
RowOf(row, n) ==
    \A p \in Cells : p < n =>
        /\ p = 0 => row[p] # Data
        /\ row[p] # Data =>
              /\ row[p].len > 0
              /\ p + Size(row[p]) <= n
              /\ p + Size(row[p]) < n => row[p + Size(row[p])] # Data
              /\ \A i \in Cells : p < i /\ i < p + Size(row[p]) => row[i] = Data

LEMMA CellFacts ==
    ASSUME NEW e \in Cell
    PROVE  /\ e.len \in Int /\ Size(e) = 1 + e.len /\ Size(e) \in Nat
           /\ e # Data => e \in Entry /\ e.len \in Nat /\ Size(e) >= 1
<1>1. CASE e = Data
  BY <1>1, EntryFacts, SMT DEF Size
<1>2. CASE e # Data
  <2>1. e \in Entry
    BY <1>2 DEF Cell
  <2>2. e.len \in Nat
    BY <2>1 DEF Entry
  <2> QED BY <2>1, <2>2, SMT DEF Size
<1> QED BY <1>1, <1>2

(* Rows that agree on where headers are and how long their data are.       *)
LEMMA RowSimilar ==
    ASSUME NEW row, NEW row2, NEW n \in 0 .. Cap, RowOf(row, n),
           \A p \in Cells : p < n => (row2[p] = Data <=> row[p] = Data) /\ row2[p].len = row[p].len,
           \A p \in Cells : row[p] \in Cell
    PROVE  RowOf(row2, n)
<1> SUFFICES ASSUME NEW p \in Cells, p < n
             PROVE  /\ p = 0 => row2[p] # Data
                    /\ row2[p] # Data =>
                          /\ row2[p].len > 0
                          /\ p + Size(row2[p]) <= n
                          /\ p + Size(row2[p]) < n => row2[p + Size(row2[p])] # Data
                          /\ \A i \in Cells : p < i /\ i < p + Size(row2[p]) => row2[i] = Data
  BY DEF RowOf
<1>1. p = 0 => row2[p] # Data
  BY DEF RowOf
<1>2. CASE row2[p] # Data
  <2> DEFINE q == p + Size(row[p])
  <2>1. Size(row2[p]) = Size(row[p]) /\ row[p] # Data /\ row2[p].len = row[p].len
    BY <1>2 DEF Size
  <2>2. /\ row[p].len > 0 /\ q <= n
        /\ q < n => row[q] # Data
        /\ \A i \in Cells : p < i /\ i < q => row[i] = Data
    BY <2>1 DEF RowOf
  <2>3. q \in Nat /\ p \in Nat
    BY CellFacts, ConstantFacts, SMT
  <2> HIDE DEF q
  <2>4. q < n => q \in Cells
    BY <2>3, ConstantFacts, SMT DEF Cells
  <2>5. \A i \in Cells : i < q => i < n
    BY <2>2, <2>3, ConstantFacts, SMT
  <2>6. q < n => row2[q] # Data
    BY <2>2, <2>4
  <2>7. \A i \in Cells : p < i /\ i < q => row2[i] = Data
    BY <2>2, <2>5
  <2> QED BY <1>1, <2>1, <2>2, <2>6, <2>7 DEF q
<1> QED BY <1>1, <1>2

(* Appending an entry makes a longer row.                                  *)
LEMMA RowWritten ==
    ASSUME NEW row, NEW n \in 0 .. Cap, RowOf(row, n), NEW e \in Entry, e.len > 0,
           \A p \in Cells : row[p] \in Cell,
           n + Size(e) <= Cap, NEW row2,
           \A i \in Cells : row2[i] = IF i = n THEN e
                                      ELSE IF i > n /\ i < n + Size(e) THEN Data ELSE row[i]
    PROVE  RowOf(row2, n + Size(e))
<1> DEFINE m == n + Size(e)
<1>0. n \in Nat /\ e.len \in Nat /\ Size(e) = 1 + e.len /\ m \in Nat /\ Cap \in Nat /\ e # Data
  BY CellFacts, EntryFacts, ConstantFacts, SMT DEF Cell
<1> SUFFICES ASSUME NEW p \in Cells, p < m
             PROVE  /\ p = 0 => row2[p] # Data
                    /\ row2[p] # Data =>
                          /\ row2[p].len > 0
                          /\ p + Size(row2[p]) <= m
                          /\ p + Size(row2[p]) < m => row2[p + Size(row2[p])] # Data
                          /\ \A i \in Cells : p < i /\ i < p + Size(row2[p]) => row2[i] = Data
  BY DEF RowOf
<1>1. p \in Nat
  BY ConstantFacts
<1>2. CASE p < n
  <2> DEFINE q == p + Size(row[p])
  <2>1. row2[p] = row[p]
    BY <1>0, <1>1, <1>2, SMT
  <2>2. /\ p = 0 => row[p] # Data
        /\ row[p] # Data =>
              /\ row[p].len > 0 /\ q <= n
              /\ q < n => row[q] # Data
              /\ \A i \in Cells : p < i /\ i < q => row[i] = Data
    BY <1>2 DEF RowOf
  <2>3. q \in Nat
    BY <1>1, CellFacts, SMT
  <2> HIDE DEF q
  <2>4. CASE row[p] # Data
    <3>1. q <= m
      BY <1>0, <2>2, <2>3, <2>4, SMT
    <3>2. row2[q] # Data
      <4>1. q \in Cells /\ q <= n
        BY <1>0, <2>2, <2>3, <2>4, CellFacts, SMT DEF Cells
      <4>2. CASE q = n
        BY <1>0, <4>1, <4>2
      <4>3. CASE q < n
        <5>1. row2[q] = row[q]
          BY <1>0, <2>3, <4>1, <4>3, SMT
        <5> QED BY <2>2, <2>4, <4>3, <5>1
      <4> QED BY <1>0, <2>3, <4>1, <4>2, <4>3, SMT
    <3>3. \A i \in Cells : p < i /\ i < q => row2[i] = Data
      <4> SUFFICES ASSUME NEW i \in Cells, p < i, i < q PROVE row2[i] = Data
        OBVIOUS
      <4>1. i < n /\ i \in Nat
        BY <1>0, <2>2, <2>3, <2>4, ConstantFacts, SMT
      <4>2. row2[i] = row[i]
        BY <1>0, <4>1, SMT
      <4> QED BY <2>2, <2>4, <4>2
    <3> QED BY <2>1, <2>2, <2>4, <3>1, <3>2, <3>3 DEF q
  <2> QED BY <2>1, <2>2, <2>4
<1>3. CASE p = n
  <2>1. row2[p] = e /\ p + Size(row2[p]) = m
    BY <1>3
  <2>2. \A i \in Cells : p < i /\ i < m => row2[i] = Data
    BY <1>0, <1>3, ConstantFacts, SMT
  <2>3. ~(m < m) /\ m <= m
    BY <1>0, SMT
  <2> HIDE DEF m
  <2> QED BY <1>0, <2>1, <2>2, <2>3
<1>4. CASE p > n
  <2>1. row2[p] = Data
    BY <1>0, <1>1, <1>4, SMT
  <2>2. p # 0
    BY <1>0, <1>1, <1>4, SMT
  <2> QED BY <2>1, <2>2
<1> QED BY <1>0, <1>1, <1>2, <1>3, <1>4, SMT

(* Entries of a row do not overlap.                                        *)
LEMMA RowApart ==
    ASSUME NEW row, NEW n \in 0 .. Cap, RowOf(row, n), \A p \in Cells : row[p] \in Cell,
           NEW p \in Cells, NEW q \in Cells, p < q, q < n, row[p] # Data, row[q] # Data
    PROVE  p + Size(row[p]) <= q
<1>1. p < n
  BY ConstantFacts, SMT
<1>2. \A i \in Cells : p < i /\ i < p + Size(row[p]) => row[i] = Data
  BY <1>1 DEF RowOf
<1>3. ~(q < p + Size(row[p]))
  BY <1>2
<1>4. p \in Nat /\ q \in Nat /\ Size(row[p]) \in Nat
  BY ConstantFacts, CellFacts
<1> QED BY <1>3, <1>4, SMT

-----------------------------------------------------------------------------
(* The cells that a set of entries of one row occupies.                    *)
Area(row, S) == {i \in Cells : \E p \in S : p <= i /\ i < p + Size(row[p])}

LEMMA AreaFinite ==
    ASSUME NEW row, NEW S
    PROVE  IsFiniteSet(Area(row, S)) /\ Cardinality(Area(row, S)) \in Nat
<1>1. IsFiniteSet(Cells)
  BY ConstantFacts, FS_Interval, SMT DEF Cells
<1>2. IsFiniteSet(Area(row, S))
  BY <1>1, FS_Subset DEF Area
<1> QED BY <1>2, FS_CardinalityType

LEMMA AreaSubset ==
    ASSUME NEW row, NEW row2, NEW S, NEW T, S \subseteq T,
           \A p \in S : Size(row[p]) = Size(row2[p])
    PROVE  /\ Area(row, S) \subseteq Area(row2, T)
           /\ Cardinality(Area(row, S)) <= Cardinality(Area(row2, T))
<1>1. Area(row, S) \subseteq Area(row2, T)
  BY DEF Area
<1>2. Area(row, S) \in SUBSET Area(row2, T) /\ IsFiniteSet(Area(row2, T))
  BY <1>1, AreaFinite
<1>3. Cardinality(Area(row, S)) <= Cardinality(Area(row2, T))
  BY <1>2, FS_Subset
<1> QED BY <1>1, <1>3

LEMMA AreaEmpty ==
    ASSUME NEW row
    PROVE  Area(row, {}) = {} /\ Cardinality(Area(row, {})) = 0
<1>1. Area(row, {}) = {}
  BY DEF Area
<1> QED BY <1>1, FS_EmptySet

(* One more entry, apart from the others, adds its size.                   *)
LEMMA AreaSplit ==
    ASSUME NEW row, NEW S \in SUBSET Cells, NEW k \in Cells,
           Size(row[k]) \in Nat, k + Size(row[k]) <= Cap,
           \A p \in S : Size(row[p]) \in Nat,
           \A p \in S : p + Size(row[p]) <= k \/ k + Size(row[k]) <= p
    PROVE  Cardinality(Area(row, S \cup {k})) = Cardinality(Area(row, S)) + Size(row[k])
<1> DEFINE A == Area(row, S)
           B == k .. k + Size(row[k]) - 1
           z == Size(row[k])
<1>1. k \in Nat /\ z \in Nat /\ k \in Int /\ k + z - 1 \in Int /\ Cap \in Nat
  BY ConstantFacts, SMT
<1>2. Area(row, S \cup {k}) = A \cup B
  <2>1. B \subseteq Cells
    BY <1>1, SMT DEF Cells
  <2>2. \A i \in Cells : i \in B <=> k <= i /\ i < k + z
    BY <1>1, ConstantFacts, SMT
  <2> HIDE DEF B
  <2> QED BY <2>1, <2>2 DEF Area
<1>3. A \cap B = {}
  <2> SUFFICES ASSUME NEW i \in Cells, NEW p \in S, p <= i, i < p + Size(row[p]), k <= i, i <= k + z - 1
               PROVE  FALSE
    BY DEF Area
  <2>1. i \in Nat /\ p \in Nat /\ Size(row[p]) \in Nat
    BY ConstantFacts
  <2>2. p + Size(row[p]) <= k \/ k + z <= p
    OBVIOUS
  <2> HIDE DEF z
  <2> QED BY <1>1, <2>1, <2>2, SMT
<1>4. IsFiniteSet(A) /\ Cardinality(A) \in Nat
  BY AreaFinite
<1>5. IsFiniteSet(B) /\ Cardinality(B) = z
  <2>1. IsFiniteSet(B) /\ Cardinality(B) = IF k > k + z - 1 THEN 0 ELSE (k + z - 1) - k + 1
    BY <1>1, FS_Interval
  <2> HIDE DEF B, z
  <2> QED BY <1>1, <2>1, SMT
<1> HIDE DEF A, B, z
<1>6. Cardinality(A \cup B) = Cardinality(A) + Cardinality(B) - Cardinality(A \cap B)
  BY <1>4, <1>5, FS_Union
<1>7. Cardinality(A \cap B) = 0
  BY <1>3, FS_EmptySet
<1>8. Cardinality(A \cup B) = Cardinality(A) + z
  BY <1>1, <1>4, <1>5, <1>6, <1>7, SMT
<1> QED BY <1>2, <1>8 DEF A, z

-----------------------------------------------------------------------------
(* The rows of the segments in use: the head, the used and the cleaner     *)
(* segments.                                                               *)
InUse(s) == s \notin ToSet(free) /\ s \notin ToSet(emergency)
Row(s) == RowOf(content[s], fill[s])
Rows == \A s \in Segs : InUse(s) => Row(s)

(* The entry of a call is never one of length 0, at which a walk stops.    *)
Writing == app.pc \in {"append", "takeHead", "publish"}
AppEntry == Writing => app.entry.len > 0

LEMMA InUseFacts ==
    ASSUME IInv
    PROVE  /\ \A s \in ToSet(used) \cup ToSet(cleaning) \cup HeadSet : s \in Segs /\ InUse(s)
           /\ \A c \in Cleaners : cl[c].seg # None =>
                 cl[c].seg \in ToSet(cleaning) /\ cl[c].seg \notin ToSet(used) \cup HeadSet
<1>1. \A s \in ToSet(used) \cup ToSet(cleaning) \cup HeadSet : s \in Segs /\ InUse(s)
  BY DEF IInv, SegmentsPartitioned, InUse
<1>2. \A c \in Cleaners : cl[c].seg # None => cl[c].seg \in ToSet(cleaning)
  BY DEF IInv, OwnSegments
<1> QED BY <1>1, <1>2 DEF IInv, SegmentsPartitioned

LEMMA RowTypes ==
    ASSUME TypeOK
    PROVE  \A s \in Segs :
              /\ fill[s] \in 0 .. Cap /\ fill[s] \in Nat
              /\ \A p \in Cells : content[s][p] \in Cell
<1>1. \A s \in Segs : fill[s] \in 0 .. Cap /\ \A p \in Cells : content[s][p] \in Cell
  BY DEF TypeOK, Cell
<1> QED BY <1>1, SMT

LEMMA WrittenCells ==
    ASSUME TypeOK, NEW s \in Segs, NEW k, NEW e, content' = Written(s, k, e)
    PROVE  /\ \A i \in Cells :
                 content'[s][i] = IF i = k THEN e
                                  ELSE IF i > k /\ i < k + Size(e) THEN Data ELSE content[s][i]
           /\ \A t \in Segs \ {s} : content'[t] = content[t]
  BY DEF Written, TypeOK

(* The written part of every segment stays as it is ...                    *)
Whole == \A s \in Segs, p \in Cells : p < fill[s] => content'[s][p] = content[s][p]

(* ... or at least headers stay headers of entries of the same length.     *)
Similar ==
    \A s \in Segs, p \in Cells : p < fill[s] =>
        (content'[s][p] = Data <=> content[s][p] = Data) /\ content'[s][p].len = content[s][p].len

(* A terminator is written behind the entries.                             *)
LEMMA TerminatedCells ==
    ASSUME TypeOK, NEW t \in Segs, content' = Terminated(t)
    PROVE  Whole
<1> SUFFICES ASSUME NEW s \in Segs, NEW p \in Cells, p < fill[s]
             PROVE  content'[s][p] = content[s][p]
  BY DEF Whole
<1>1. p # fill[s]
  BY RowTypes, ConstantFacts, SMT
<1>2. content \in [Segs -> [Cells -> Cell]]
  BY DEF TypeOK, Cell
<1>3. CASE fill[t] \in Cells
  <2>1. content' = [content EXCEPT ![t][fill[t]].len = 0]
    BY <1>3 DEF Terminated
  <2> QED BY <1>1, <1>2, <2>1
<1>4. CASE fill[t] \notin Cells
  BY <1>4 DEF Terminated
<1> QED BY <1>3, <1>4

(* pfree marks one header.                                                 *)
LEMMA MarkedCells ==
    ASSUME TypeOK, NEW place \in Places, content' = Marked(place)
    PROVE  /\ Similar
           /\ \A s \in Segs, p \in Cells : <<s, p>> # place => content'[s][p] = content[s][p]
           /\ \A s \in Segs, p \in Cells :
                 <<s, p>> = place => content'[s][p] = Data \/ content'[s][p].del
<1>1. place[1] \in Segs /\ place[2] \in Cells /\ place = <<place[1], place[2]>>
  BY DEF Places
<1>2. \A e \in Cell : LET m == IF e = Data THEN Data ELSE [e EXCEPT !.del = TRUE]
                      IN  (m = Data <=> e = Data) /\ m.len = e.len
  <2> SUFFICES ASSUME NEW e \in Entry PROVE LET m == [e EXCEPT !.del = TRUE]
                                            IN  m # Data /\ m.len = e.len
    BY EntryFacts DEF Cell
  <2> DEFINE m == [e EXCEPT !.del = TRUE]
  <2>1. m.len = e.len /\ e.len \in Nat
    BY DEF Entry
  <2> HIDE DEF m
  <2>2. m # Data
    BY <2>1, EntryFacts, SMT
  <2> QED BY <2>1, <2>2 DEF m
<1>3. content \in [Segs -> [Cells -> Cell]]
  BY DEF TypeOK, Cell
<1>4. \A s \in Segs, p \in Cells :
         content'[s][p] = IF s = place[1] /\ p = place[2]
                          THEN IF content[s][p] = Data THEN Data
                               ELSE [content[s][p] EXCEPT !.del = TRUE]
                          ELSE content[s][p]
  BY <1>1, <1>3 DEF Marked
<1>5. \A s \in Segs, p \in Cells : content[s][p] \in Cell
  BY <1>3
<1>6. Similar
  <2> SUFFICES ASSUME NEW s \in Segs, NEW p \in Cells
               PROVE  /\ content'[s][p] = Data <=> content[s][p] = Data
                      /\ content'[s][p].len = content[s][p].len
    BY DEF Similar
  <2>1. CASE s = place[1] /\ p = place[2]
    <3>1. content'[s][p] = IF content[s][p] = Data THEN Data
                           ELSE [content[s][p] EXCEPT !.del = TRUE]
      BY <1>4, <2>1
    <3> QED BY <1>2, <1>5, <3>1
  <2>2. CASE ~(s = place[1] /\ p = place[2])
    BY <1>4, <2>2
  <2> QED BY <2>1, <2>2
<1>7. \A s \in Segs, p \in Cells : <<s, p>> # place => content'[s][p] = content[s][p]
  BY <1>1, <1>4
<1>8. ASSUME NEW s \in Segs, NEW p \in Cells, <<s, p>> = place
      PROVE  content'[s][p] = Data \/ content'[s][p].del
  <2>1. content[s][p] = Data \/ content[s][p] \in Entry
    BY <1>5 DEF Cell
  <2>2. \A e \in Entry : [e EXCEPT !.del = TRUE].del
    BY DEF Entry
  <2> QED BY <1>4, <1>8, <2>1, <2>2, SMTT(20), ZenonT(20)
<1> QED BY <1>6, <1>7, <1>8

LEMMA RowsKept ==
    ASSUME TypeOK, Rows, fill' = fill,
           Similar, \A s \in Segs : InUse(s)' => InUse(s)
    PROVE  Rows'
<1> SUFFICES ASSUME NEW s \in Segs, InUse(s) PROVE RowOf(content'[s], fill[s])
  BY DEF Rows, Row
<1>1. RowOf(content[s], fill[s])
  BY DEF Rows, Row
<1> QED BY <1>1, RowTypes, RowSimilar DEF Similar

LEMMA RowsSame ==
    ASSUME Rows, UNCHANGED <<content, fill>>, \A s \in Segs : InUse(s)' => InUse(s)
    PROVE  Rows'
  BY DEF Rows, Row

LEMMA RowsTaken ==
    ASSUME Rows, TypeOK, UNCHANGED content, NEW s \in Segs, fill' = [fill EXCEPT ![s] = 0],
           \A t \in Segs \ {s} : InUse(t)' => InUse(t)
    PROVE  Rows'
<1>1. RowOf(content[s], 0)
  <2>1. \A p \in Cells : ~(p < 0)
    BY ConstantFacts, SMT
  <2> QED BY <2>1 DEF RowOf
<1>2. \A t \in Segs : fill'[t] = IF t = s THEN 0 ELSE fill[t]
  BY DEF TypeOK
<1> QED BY <1>1, <1>2 DEF Rows, Row

LEMMA RowsAdded ==
    ASSUME Rows, TypeOK, NEW s \in Segs, InUse(s), NEW e \in Entry, e.len > 0, HasRoom(s, e),
           content' = Written(s, fill[s], e), fill' = [fill EXCEPT ![s] = @ + Size(e)],
           UNCHANGED <<free, emergency>>
    PROVE  Rows'
<1>1. fill[s] \in 0 .. Cap /\ fill[s] + Size(e) <= Cap
  <2>1. fill[s] + Size(e) \in 0 .. Cap
    BY RoomFacts
  <2> QED BY <2>1, RowTypes, ConstantFacts, SMT
<1>2. RowOf(content[s], fill[s]) /\ \A p \in Cells : content[s][p] \in Cell
  BY RowTypes DEF Rows, Row
<1>3. RowOf(content'[s], fill[s] + Size(e))
  BY <1>1, <1>2, WrittenCells, RowWritten
<1>4. \A t \in Segs : fill'[t] = IF t = s THEN fill[s] + Size(e) ELSE fill[t]
  BY DEF TypeOK
<1>5. \A t \in Segs : InUse(t)' <=> InUse(t)
  BY DEF InUse
<1> QED BY <1>3, <1>4, <1>5, WrittenCells DEF Rows, Row

LEMMA RowsClient ==
    ASSUME IInv, Rows, AppEntry, NewCall \/ CallStep
    PROVE  Rows'
<1> USE DEF heapVars, listVars, lockVars
<1>0. TypeOK /\ app \in AppStates /\ app.entry \in Entry
  BY DEF IInv, TypeOK, AppStates
<1>1. CASE WriteEntry
  <2>1. app.pc = "append" /\ head # None /\ head \in Segs
    BY <1>0, <1>1 DEF WriteEntry, AppAt, TypeOK
  <2>2. InUse(head) /\ app.entry.len > 0
    BY <2>1, InUseFacts DEF HeadSet, AppEntry, Writing
  <2> QED BY <1>0, <1>1, <2>1, <2>2, RowsAdded DEF WriteEntry
<1>2. CASE SealHead
  <2>1. /\ head \in Segs /\ fill' = fill /\ content' = Terminated(head)
        /\ UNCHANGED <<free, emergency>>
    BY <1>0, <1>2 DEF SealHead, TypeOK
  <2>2. Whole
    BY <1>0, <2>1, TerminatedCells
  <2>3. \A s \in Segs : InUse(s)' <=> InUse(s)
    BY <2>1 DEF InUse
  <2> QED BY <1>0, <2>1, <2>2, <2>3, RowsKept DEF Whole, Similar
<1>3. CASE TakeHead
  <2>1. /\ Head(free) \in Segs /\ ToSet(free') = ToSet(free) \ {Head(free)}
        /\ emergency' = emergency
    BY <1>0, <1>3, TailProps DEF TakeHead, TypeOK, IInv, SegmentsPartitioned
  <2>2. \A s \in Segs \ {Head(free)} : InUse(s)' <=> InUse(s)
    BY <2>1 DEF InUse
  <2> QED BY <1>0, <1>3, <2>1, <2>2, RowsTaken DEF TakeHead
<1>4. ASSUME NEW id \in FreeIds, BeginFree(id) PROVE Rows'
  <2>1. /\ hash[id] \in Places /\ hash[id][1] \in Segs /\ hash[id][2] \in Cells
        /\ content' = Marked(hash[id]) /\ fill' = fill /\ UNCHANGED <<free, emergency>>
    BY <1>0, <1>4, ClientAssumption, AtType DEF BeginFree, TypeOK
  <2>3. Similar
    BY <1>0, <2>1, MarkedCells
  <2>4. \A s \in Segs : InUse(s)' <=> InUse(s)
    BY <2>1 DEF InUse
  <2> QED BY <1>0, <2>1, <2>3, <2>4, RowsKept
<1>5. CASE \/ OutOfMemory \/ Publish \/ Unmap
           \/ \E len \in Lens : \/ BeginPalloc(len)
                                \/ \E id \in WithIds : BeginPallocWithId(id, len)
                                \/ \E id \in UpdIds \cup WithIds : BeginUpdate(id, len)
  <2>1. UNCHANGED <<content, fill, free, emergency>>
    BY <1>5 DEF OutOfMemory, Publish, Unmap, BeginPalloc, BeginPallocWithId, BeginUpdate
  <2> QED BY <2>1, RowsSame DEF InUse
<1> QED BY <1>1, <1>2, <1>3, <1>4, <1>5 DEF NewCall, CallStep

LEMMA ObtainFacts ==
    ASSUME IInv, NEW c, NEW s \in Segs, GetSegment(c, s)
    PROVE  /\ ~InUse(s) /\ InUse(s)'
           /\ \A t \in Segs \ {s} : InUse(t)' <=> InUse(t)
           /\ fill' = [fill EXCEPT ![s] = 0] /\ UNCHANGED <<content, usedSpace, head, used, hash, app>>
<1> USE DEF heapVars, listVars, lockVars
<1>0. free \in Seq(Segs) /\ emergency \in Seq(Segs) /\ IsInjective(free) /\ IsInjective(emergency)
  BY DEF IInv, TypeOK, SegmentsPartitioned
<1>1. ToSet(free) \cap ToSet(emergency) = {}
  BY DEF IInv, SegmentsPartitioned
<1>2. fill' = [fill EXCEPT ![s] = 0] /\ UNCHANGED <<content, usedSpace, head, used, hash, app>>
  BY DEF GetSegment, Obtain
<1>3. CASE free # <<>> /\ s = Head(free) /\ free' = Tail(free) /\ UNCHANGED emergency
  <2>1. s \in ToSet(free) /\ ToSet(free') = ToSet(free) \ {s} /\ emergency' = emergency
    BY <1>0, <1>3, TailProps
  <2> QED BY <1>1, <1>2, <2>1 DEF InUse
<1>4. CASE emergency # <<>> /\ s = Head(emergency) /\ emergency' = Tail(emergency) /\ UNCHANGED free
  <2>1. s \in ToSet(emergency) /\ ToSet(emergency') = ToSet(emergency) \ {s} /\ free' = free
    BY <1>0, <1>4, TailProps
  <2> QED BY <1>1, <1>2, <2>1 DEF InUse
<1> QED BY <1>3, <1>4 DEF GetSegment, Obtain

LEMMA ReclaimFacts ==
    ASSUME IInv, NEW c \in Cleaners, Reclaim(c), NEW s, s = cl[c].cur
    PROVE  /\ s \in Segs /\ s \in ToSet(used) /\ InUse(s) /\ ~(InUse(s)')
           /\ \A t \in Segs \ {s} : InUse(t)' <=> InUse(t)
<1>0. free \in Seq(Segs) /\ emergency \in Seq(Segs) /\ used \in Seq(Segs)
  BY DEF IInv, TypeOK
<1>1. s \in Segs /\ s \in ToSet(used) /\ InUse(s)
  BY InUseFacts DEF Reclaim
<1>2. \/ emergency' = Append(emergency, s) /\ free' = free
      \/ free' = Append(free, s) /\ emergency' = emergency
  BY DEF Reclaim
<1>3. CASE emergency' = Append(emergency, s) /\ free' = free
  <2>1. ToSet(emergency') = ToSet(emergency) \cup {s}
    BY <1>0, <1>1, <1>3, AppendProps
  <2> QED BY <1>1, <1>3, <2>1 DEF InUse
<1>4. CASE free' = Append(free, s) /\ emergency' = emergency
  <2>1. ToSet(free') = ToSet(free) \cup {s}
    BY <1>0, <1>1, <1>4, AppendProps
  <2> QED BY <1>1, <1>4, <2>1 DEF InUse
<1> QED BY <1>2, <1>3, <1>4

(* What thread c copies, and where to.                                     *)
LEMMA CopyFacts ==
    ASSUME IInv, NEW c \in Cleaners, Copy(c)
    PROVE  /\ Visited(c) \in Entry /\ Visited(c).len > 0
           /\ cl[c].cur \in Segs /\ cl[c].seg \in Segs /\ InUse(cl[c].seg)
           /\ cl[c].pos \in Cells /\ cl[c].seg \in ToSet(cleaning)
           /\ fill[cl[c].seg] \in Cells /\ fill[cl[c].seg] + Size(Visited(c)) \in 0 .. Cap
<1>1. /\ cl[c].cur \in Segs /\ cl[c].seg \in Segs /\ cl[c].pos \in Cells /\ Visited(c) \in Cell
  BY VisitFacts DEF Copy, IInv
<1>2. Visited(c) \in Entry /\ Visited(c).len > 0
  BY <1>1 DEF Copy, Survives, Unreadable, Cell
<1>3. InUse(cl[c].seg) /\ cl[c].seg \in ToSet(cleaning)
  BY <1>1, InUseFacts, ConstantFacts
<1>4. fill[cl[c].seg] \in Cells /\ fill[cl[c].seg] + Size(Visited(c)) \in 0 .. Cap
  BY <1>1, <1>2, RoomFacts DEF Copy, IInv
<1> QED BY <1>1, <1>2, <1>3, <1>4

LEMMA RowsCleaner ==
    ASSUME IInv, Rows, NEW c \in Cleaners, CleanerStep(c)
    PROVE  Rows'
<1> USE DEF heapVars, listVars, lockVars
<1>0. TypeOK
  BY DEF IInv
<1>1. CASE GetFirstSegment(c) \/ Refill(c)
  <2>1. PICK s \in Segs : GetSegment(c, s)
    BY <1>1 DEF GetFirstSegment, Refill
  <2>2. /\ \A t \in Segs \ {s} : InUse(t)' <=> InUse(t)
        /\ fill' = [fill EXCEPT ![s] = 0] /\ UNCHANGED content
    BY <2>1, ObtainFacts
  <2> QED BY <1>0, <2>2, RowsTaken
<1>2. CASE Copy(c)
  <2> DEFINE e == Visited(c)
             s == cl[c].seg
  <2>1. e \in Entry /\ e.len > 0 /\ s \in Segs /\ InUse(s)
    BY <1>2, CopyFacts
  <2>2. /\ HasRoom(s, e) /\ content' = Written(s, fill[s], e)
        /\ fill' = [fill EXCEPT ![s] = @ + Size(e)] /\ UNCHANGED <<free, emergency>>
    BY <1>2 DEF Copy
  <2> HIDE DEF e, s
  <2> QED BY <1>0, <2>1, <2>2, RowsAdded
<1>3. CASE Reclaim(c)
  <2>1. UNCHANGED <<content, fill>>
    BY <1>3 DEF Reclaim
  <2>2. \A s \in Segs : InUse(s)' => InUse(s)
    BY <1>3, ReclaimFacts
  <2> QED BY <2>1, <2>2, RowsSame
<1>4. CASE ~(GetFirstSegment(c) \/ Refill(c) \/ Copy(c) \/ Reclaim(c))
  <2>1. UNCHANGED <<content, fill, free, emergency>>
    BY <1>4 DEF CleanerStep, StartCleaning, BeginScan, Claim, Skip, EndWalk, Misread, Drop,
       FindFull, Retire, Advance, ReclaimNothing, Finish
  <2> QED BY <2>1, RowsSame DEF InUse
<1> QED BY <1>1, <1>2, <1>3, <1>4

LEMMA AppEntryStep ==
    ASSUME IInv, AppEntry, Next
    PROVE  AppEntry'
<1> USE DEF heapVars, listVars, lockVars
<1>0. app \in AppStates
  BY DEF IInv, TypeOK
<1>1. CASE NewCall
  <2>1. ASSUME NEW id, NEW e, NEW locked, Call(id, e, locked) PROVE app'.entry = e
    BY <2>1 DEF Call
  <2>2. \A len \in Lens : len > 0
    BY ConstantFacts, SMT
  <2>3. ASSUME NEW len \in Lens, NEW id, Call(id, NewEntry(id, 1, len), FALSE)
        PROVE  AppEntry'
    <3>1. NewEntry(id, 1, len).len = len
      BY DEF NewEntry
    <3> QED BY <2>1, <2>2, <2>3, <3>1 DEF AppEntry
  <2>4. ASSUME NEW len \in Lens, BeginPalloc(len) PROVE AppEntry'
    BY <2>3, <2>4 DEF BeginPalloc
  <2>5. ASSUME NEW len \in Lens, NEW id, BeginPallocWithId(id, len) PROVE AppEntry'
    BY <2>3, <2>5 DEF BeginPallocWithId
  <2>6. ASSUME NEW len \in Lens, NEW id \in UpdIds \cup WithIds, BeginUpdate(id, len) PROVE AppEntry'
    <3>1. At(hash[id]) \in Cell
      BY <2>6, ClientAssumption, AtType DEF BeginUpdate, TypeOK, IInv
    <3>2. Successor(At(hash[id]), len).len = len
      <4>1. \A e \in Cell : Successor(e, len).len = len
        BY DEF Successor, Cell, Entry, Data
      <4> QED BY <3>1, <4>1
    <3> QED BY <2>1, <2>2, <2>6, <3>2 DEF BeginUpdate, AppEntry
  <2>7. ASSUME NEW id, BeginFree(id) PROVE AppEntry'
    <3>1. app'.pc = "unmap"
      BY <2>7 DEF BeginFree, Idle
    <3> QED BY <3>1 DEF AppEntry, Writing
  <2> QED BY <1>1, <2>4, <2>5, <2>6, <2>7 DEF NewCall
<1>2. CASE WriteEntry \/ SealHead \/ TakeHead
  <2>1. Writing /\ app'.entry = app.entry
    BY <1>0, <1>2 DEF WriteEntry, SealHead, TakeHead, NeedsHead, AppAt, Writing, AppStates
  <2> QED BY <2>1 DEF AppEntry
<1>3. CASE OutOfMemory \/ Publish \/ Unmap
  BY <1>3 DEF OutOfMemory, Publish, Unmap, Idle, AppEntry, Writing
<1>4. ASSUME NEW c \in Cleaners, CleanerStep(c) PROVE AppEntry'
  <2>1. UNCHANGED app
    BY <1>4 DEF CleanerStep, StartCleaning, GetFirstSegment, GetSegment, BeginScan, Claim, Skip,
       EndWalk, Misread, Drop, Copy, FindFull, Retire, Refill, Advance, Reclaim,
       ReclaimNothing, Finish
  <2> QED BY <2>1 DEF AppEntry, Writing
<1> QED BY <1>1, <1>2, <1>3, <1>4 DEF Next, CallStep

-----------------------------------------------------------------------------
(* The invariant, as long as no hazard has struck.                         *)

(* The call of the client, its entry, and the place of an entry that is    *)
(* written but not yet published.                                          *)
AppSound ==
    /\ app.pc # "idle" => app.id \in Ids
    /\ Writing => ~app.entry.del /\ app.entry.id = app.id
    /\ app.pc # "publish" => app.place = Null
    /\ app.pc = "publish" =>
          /\ head # None
          /\ \E p \in Cells : /\ p < fill[head] /\ app.place = <<head, p>>
                              /\ content[head][p] = app.entry
          /\ \A id \in Ids \ InFlight : hash[id] # app.place

(* What the hash table points to.                                          *)
SoundAt(place, id) ==
    /\ InUse(place[1]) /\ place[2] < fill[place[1]]
    /\ At(place) # Data /\ At(place).id = id /\ ~At(place).del
Hashed == \A id \in Ids \ InFlight : hash[id] # Null => SoundAt(hash[id], id)

(* The late reset of used_space is still to come.                          *)
Resetting(s) == \E c \in Cleaners : cl[c].pc = "finish" /\ cl[c].cur = s /\ cl[c].late # "no"

(* used_space counts at least what is live, and at most what is written;   *)
(* before the late reset, also what was counted when the segment was given *)
(* back.  Earlier runs of the program may have left x too many behind:     *)
(* none on a fresh file.                                                   *)
Slack(s, x) == (IF Resetting(s) THEN Cap ELSE 0) + x
SpaceOK(s, x) ==
    /\ InUse(s) => LiveSpace(s) <= usedSpace[s] /\ usedSpace[s] <= fill[s] + Slack(s, x)
    /\ ~InUse(s) => usedSpace[s] <= Slack(s, x)
Spaces(x) == \A s \in Segs : SpaceOK(s, x)

(* A walk stands at a header, with nothing live behind it; at its end      *)
(* nothing is live in the segment.                                         *)
OnWalk(c) == cl[c].pc \in {"walk", "retire", "refill"}
WalkOK(c) ==
    /\ cl[c].pc = "test" => cl[c].pos = 0
    /\ OnWalk(c) =>
          /\ cl[c].pos < fill[cl[c].cur] => content[cl[c].cur][cl[c].pos] # Data
          /\ \A id \in Ids \ InFlight :
                hash[id] # Null /\ hash[id][1] = cl[c].cur => hash[id][2] >= cl[c].pos
    /\ cl[c].pc \in {"advance", "reclaim"} =>
          \A id \in Ids \ InFlight : hash[id] # Null => hash[id][1] # cl[c].cur
Walks == \A c \in Cleaners : WalkOK(c)

HInv == AppSound /\ Hashed /\ Walks

-----------------------------------------------------------------------------
(* What follows from the invariant in one state.                           *)

LEMMA PlaceFacts ==
    /\ \A s, p : <<s, p>> # Null
    /\ \A place \in Places : place # Null /\ place = <<place[1], place[2]>>
  BY DEF Null, Places

LEMMA HashPlace ==
    ASSUME TypeOK, NEW id \in Ids, hash[id] # Null
    PROVE  /\ hash[id] \in Places /\ hash[id][1] \in Segs /\ hash[id][2] \in Cells
           /\ hash[id] = <<hash[id][1], hash[id][2]>>
<1>1. hash[id] \in Places
  BY DEF TypeOK
<1> QED BY <1>1, AtType, PlaceFacts

(* A segment that a thread cleans is a used one, other than the head.      *)
LEMMA CurUsed ==
    ASSUME IInv, hazards = {}, NEW c \in Cleaners, Cleans(c), cl[c].pc # "finish"
    PROVE  /\ cl[c].cur \in Segs /\ cl[c].cur \in ToSet(used) /\ InUse(cl[c].cur)
           /\ cl[c].cur \notin HeadSet /\ cl[c].cur \notin ToSet(cleaning)
<1>1. cl[c].cur \in ToSet(used)
  BY DEF IInv, ClaimsExclusive
<1> QED BY <1>1, InUseFacts DEF IInv, SegmentsPartitioned

LEMMA WalkCleans ==
    ASSUME NEW c, OnWalk(c) \/ cl[c].pc \in {"advance", "reclaim"}
    PROVE  Cleans(c) /\ cl[c].pc # "finish"
  BY DEF OnWalk, Cleans

(* A published entry is where the call has put it.                         *)
LEMMA PlaceInHead ==
    ASSUME IInv, AppSound, app.place # Null
    PROVE  /\ app.pc = "publish" /\ head \in Segs /\ InUse(head) /\ HeadSet = {head}
           /\ \E p \in Cells : p < fill[head] /\ app.place = <<head, p>> /\ content[head][p] = app.entry
<1>1. app.pc = "publish"
  BY DEF AppSound
<1>2. HeadSet = {head} /\ head \in Segs
  BY <1>1 DEF AppSound, HeadSet, IInv, TypeOK
<1> QED BY <1>1, <1>2, InUseFacts DEF AppSound

(* Live entries are entries of the row, so they do not overlap.            *)
LEMMA LiveFacts ==
    ASSUME IInv, Rows, AppEntry, HInv, NEW s \in Segs
    PROVE  /\ LiveCells(s) \subseteq Cells
           /\ \A p \in LiveCells(s) :
                 /\ p < fill[s] /\ InUse(s)
                 /\ content[s][p] \in Entry /\ content[s][p] # Data /\ content[s][p].len > 0
                 /\ Size(content[s][p]) \in Nat /\ Size(content[s][p]) >= 2
                 /\ p + Size(content[s][p]) <= fill[s] /\ p + Size(content[s][p]) <= Cap
           /\ \A p, q \in LiveCells(s) : p < q => p + Size(content[s][p]) <= q
<1>0. TypeOK /\ fill[s] \in 0 .. Cap /\ fill[s] \in Nat /\ \A p \in Cells : content[s][p] \in Cell
  BY RowTypes DEF IInv
<1>1. \A p \in 0 .. fill[s] - 1 : p \in Cells /\ p < fill[s] /\ p \in Nat
  BY <1>0, ConstantFacts, SMT DEF Cells
<1>2. ASSUME NEW p \in LiveCells(s) PROVE p \in Cells /\ InUse(s) /\ content[s][p] # Data /\ p < fill[s]
  <2>1. p \in Cells /\ p < fill[s]
    BY <1>1 DEF LiveCells
  <2>2. CASE app.place = <<s, p>>
    <3>1. PICK q \in Cells : app.place = <<head, q>> /\ content[head][q] = app.entry /\ InUse(head)
      BY <2>2, PlaceInHead, PlaceFacts DEF HInv
    <3>2. head = s /\ q = p
      BY <2>2, <3>1
    <3>3. app.entry # Data
      BY <1>0, EntryFacts DEF TypeOK, AppStates
    <3> QED BY <2>1, <3>1, <3>2, <3>3
  <2>3. ASSUME NEW id \in Ids \ InFlight, hash[id] = <<s, p>> PROVE InUse(s) /\ content[s][p] # Data
    <3>1. SoundAt(hash[id], id)
      BY <2>3, PlaceFacts DEF HInv, Hashed
    <3>2. hash[id][1] = s /\ hash[id][2] = p
      BY <2>3
    <3> QED BY <3>1, <3>2 DEF SoundAt, At
  <2> QED BY <2>1, <2>2, <2>3 DEF LiveCells
<1>3. ASSUME NEW p \in LiveCells(s)
      PROVE  /\ p < fill[s] /\ InUse(s)
             /\ content[s][p] \in Entry /\ content[s][p] # Data /\ content[s][p].len > 0
             /\ Size(content[s][p]) \in Nat /\ Size(content[s][p]) >= 2
             /\ p + Size(content[s][p]) <= fill[s] /\ p + Size(content[s][p]) <= Cap
  <2>1. RowOf(content[s], fill[s])
    BY <1>2 DEF Rows, Row
  <2>2. content[s][p].len > 0 /\ p + Size(content[s][p]) <= fill[s]
    BY <1>2, <2>1 DEF RowOf
  <2>3. content[s][p] \in Entry /\ content[s][p].len \in Nat /\ Size(content[s][p]) = 1 + content[s][p].len
    BY <1>0, <1>2, CellFacts
  <2>4. Size(content[s][p]) \in Nat /\ Size(content[s][p]) >= 2
    BY <2>2, <2>3, SMT
  <2>5. p + Size(content[s][p]) <= Cap
    <3>1. p \in Nat
      BY <1>2, ConstantFacts
    <3>2. fill[s] <= Cap /\ fill[s] \in Nat /\ Cap \in Nat
      BY <1>0, ConstantFacts, SMT
    <3> QED BY <2>2, <2>4, <3>1, <3>2, SMT
  <2> QED BY <1>2, <2>2, <2>3, <2>4, <2>5
<1>4. ASSUME NEW p \in LiveCells(s), NEW q \in LiveCells(s), p < q
      PROVE  p + Size(content[s][p]) <= q
  <2>1. RowOf(content[s], fill[s])
    BY <1>2 DEF Rows, Row
  <2> QED BY <1>0, <1>2, <1>4, <2>1, RowApart
<1> QED BY <1>2, <1>3, <1>4

(* An entry a thread visits in the written part of its segment.            *)
LEMMA VisitRow ==
    ASSUME IInv, Rows, HInv, hazards = {}, NEW c \in Cleaners, cl[c].pc = "walk",
           cl[c].pos < fill[cl[c].cur], cl[c].pos \in Cells
    PROVE  /\ Visited(c) # Data /\ Visited(c).len > 0
           /\ cl[c].pos + Size(Visited(c)) <= fill[cl[c].cur]
           /\ cl[c].pos + Size(Visited(c)) < fill[cl[c].cur] =>
                 content[cl[c].cur][cl[c].pos + Size(Visited(c))] # Data
<1>1. Cleans(c) /\ cl[c].pc # "finish" /\ OnWalk(c)
  BY DEF Cleans, OnWalk
<1>2. cl[c].cur \in Segs /\ InUse(cl[c].cur)
  BY <1>1, CurUsed
<1>3. RowOf(content[cl[c].cur], fill[cl[c].cur])
  BY <1>2 DEF Rows, Row
<1>4. Visited(c) # Data
  BY <1>1 DEF HInv, Walks, WalkOK, Visited
<1> QED BY <1>3, <1>4 DEF RowOf, Visited

-----------------------------------------------------------------------------
(* What a step may do to a segment without disturbing the invariant.       *)

(* Nothing becomes current but the entry that the client publishes; and    *)
(* nothing else is live.                                                   *)
NoneNew ==
    \A id \in Ids \ InFlight' :
        \/ hash'[id] = Null
        \/ id \notin InFlight /\ hash'[id] = hash[id]
        \/ id = app.id /\ hash'[id] = app.place
Fewer == app'.place \in {app.place, Null} /\ NoneNew

SameUse(s) == (InUse(s)' <=> InUse(s)) /\ (Resetting(s)' <=> Resetting(s))

LEMMA SlackFacts ==
    ASSUME NEW x \in Nat
    PROVE  /\ \A s : Slack(s, x) \in Nat /\ Slack(s, x) <= Cap + x
           /\ \A s : Slack(s, x)' \in Nat
           /\ \A s : ~Resetting(s) => Slack(s, x) = x
           /\ \A s : (Resetting(s)' <=> Resetting(s)) => Slack(s, x)' = Slack(s, x)
  BY ConstantFacts, SMT DEF Slack

LEMMA NoSlack == 0 \in Nat /\ 2 * Cap + 0 < SizeMod
  BY SegAssumption, ClientAssumption, SMT DEF Cap

LEMMA ModSmall ==
    ASSUME NEW x \in Int, NEW m \in Nat, 0 <= x, x < m
    PROVE  x % m = x
  BY SMT

LEMMA CellBelow ==
    ASSUME NEW k \in Cells, NEW n \in Nat
    PROVE  k < n <=> k \in 0 .. n - 1
<1>1. k \in Nat
  BY ConstantFacts
<1> QED BY <1>1, SMT

LEMMA FewerLive ==
    ASSUME Fewer, NEW s \in Segs, fill'[s] = fill[s]
    PROVE  LiveCells(s)' \subseteq LiveCells(s)
<1> SUFFICES ASSUME NEW p \in 0 .. fill[s] - 1,
                    \/ app'.place = <<s, p>>
                    \/ \E id \in Ids \ InFlight' : hash'[id] = <<s, p>>
             PROVE  \/ app.place = <<s, p>>
                    \/ \E id \in Ids \ InFlight : hash[id] = <<s, p>>
  BY DEF LiveCells
<1> QED BY PlaceFacts DEF Fewer, NoneNew

(* used_space of a segment that the step leaves alone.                     *)
LEMMA SpaceKept ==
    ASSUME NEW s \in Segs, NEW x \in Nat, SpaceOK(s, x), SameUse(s), usedSpace'[s] = usedSpace[s], fill'[s] = fill[s],
           fill[s] \in Nat, usedSpace[s] \in Nat,
           LiveCells(s)' \subseteq LiveCells(s),
           \A p \in LiveCells(s)' : Size(content'[s][p]) = Size(content[s][p])
    PROVE  SpaceOK(s, x)'
<1>1. LiveSpace(s)' <= LiveSpace(s) /\ LiveSpace(s)' \in Nat /\ LiveSpace(s) \in Nat
  <2>1. LiveSpace(s)' = Cardinality(Area(content'[s], LiveCells(s)'))
    BY DEF LiveSpace, LiveArea, Area
  <2>2. LiveSpace(s) = Cardinality(Area(content[s], LiveCells(s)))
    BY DEF LiveSpace, LiveArea, Area
  <2> QED BY <2>1, <2>2, AreaFinite, AreaSubset
<1>2. Slack(s, x)' = Slack(s, x) /\ (InUse(s)' <=> InUse(s))
  BY SlackFacts DEF SameUse
<1>3. CASE InUse(s)
  <2>1. LiveSpace(s) <= usedSpace[s] /\ usedSpace[s] <= fill[s] + Slack(s, x)
    BY <1>3 DEF SpaceOK
  <2>2. LiveSpace(s)' <= usedSpace'[s]
    BY <1>1, <2>1, SMT
  <2> QED BY <1>2, <1>3, <2>1, <2>2 DEF SpaceOK
<1>4. CASE ~InUse(s)
  BY <1>2, <1>4 DEF SpaceOK
<1> QED BY <1>3, <1>4

LEMMA SpaceTypes ==
    ASSUME TypeOK
    PROVE  \A s \in Segs : /\ fill[s] \in Nat /\ fill[s] <= Cap
                           /\ usedSpace[s] \in Nat /\ usedSpace[s] < SizeMod
<1>1. \A s \in Segs : fill[s] \in 0 .. Cap /\ usedSpace[s] \in 0 .. SizeMod - 1
  BY DEF TypeOK
<1> QED BY <1>1, ConstantFacts, SMT

LEMMA SimilarSize ==
    ASSUME TypeOK, Similar, NEW s \in Segs
    PROVE  \A p \in Cells : p < fill[s] => Size(content'[s][p]) = Size(content[s][p])
  BY DEF Similar, Size

LEMMA SpacesKept ==
    ASSUME IInv, Rows, AppEntry, HInv, NEW x \in Nat, Spaces(x),
           Fewer, Similar, UNCHANGED <<fill, usedSpace>>,
           \A s \in Segs : SameUse(s)
    PROVE  Spaces(x)'
<1> SUFFICES ASSUME NEW s \in Segs PROVE SpaceOK(s, x)'
  BY DEF Spaces
<1>1. LiveCells(s)' \subseteq LiveCells(s)
  BY FewerLive
<1>2. \A p \in LiveCells(s)' : Size(content'[s][p]) = Size(content[s][p])
  BY <1>1, LiveFacts, SimilarSize DEF IInv
<1> QED BY <1>1, <1>2, SpaceKept, SpaceTypes DEF IInv, HInv, Spaces

(* An entry that is not current any more is no longer live, and nothing    *)
(* else changes.                                                           *)
LEMMA LiveDiscounted ==
    ASSUME IInv, Rows, AppEntry, HInv, NEW x \in Nat, Spaces(x),
           NEW id \in Ids \ InFlight, hash[id] # Null,
           Discount(hash[id]), InFlight' = {id}, UNCHANGED <<fill, hash>>, Similar,
           app.place = Null, app'.place = Null, InFlight = {},
           NEW t \in Segs, NEW k \in Cells, hash[id] = <<t, k>>
    PROVE  LET z == Size(content[t][k])
           IN  /\ InUse(t) /\ z \in Nat
               /\ LiveSpace(t) \in Nat /\ LiveSpace(t)' \in Nat /\ LiveSpace(t) = LiveSpace(t)' + z
               /\ usedSpace'[t] = usedSpace[t] - z
               /\ \A s \in Segs \ {t} : usedSpace'[s] = usedSpace[s] /\ LiveCells(s)' = LiveCells(s)
<1> DEFINE z == Size(content[t][k])
           T == LiveCells(t)
           S == LiveCells(t)'
<1> SUFFICES /\ InUse(t) /\ z \in Nat
             /\ LiveSpace(t) \in Nat /\ LiveSpace(t)' \in Nat /\ LiveSpace(t) = LiveSpace(t)' + z
             /\ usedSpace'[t] = usedSpace[t] - z
             /\ \A s \in Segs \ {t} : usedSpace'[s] = usedSpace[s] /\ LiveCells(s)' = LiveCells(s)
  OBVIOUS
<1>0. TypeOK /\ At(hash[id]) = content[t][k]
  BY DEF IInv, At
<1>1. \A s \in Segs \ {t} : usedSpace'[s] = usedSpace[s] /\ LiveCells(s)' = LiveCells(s)
  <2>1. \A s \in Segs \ {t} : usedSpace'[s] = usedSpace[s]
    BY <1>0 DEF Discount, TypeOK
  <2>2. ASSUME NEW s \in Segs \ {t}, NEW p PROVE hash[id] # <<s, p>>
    BY <2>2
  <2>3. ASSUME NEW s \in Segs \ {t} PROVE LiveCells(s)' = LiveCells(s)
    <3>1. \A p : <<s, p>> # Null
      BY PlaceFacts
    <3> QED BY <2>2, <2>3, <3>1 DEF LiveCells
  <2> QED BY <2>1, <2>3
<1>2. k \in T /\ InUse(t)
  <2>1. SoundAt(hash[id], id)
    BY DEF HInv, Hashed
  <2>2. k < fill[t] /\ InUse(t)
    BY <2>1 DEF SoundAt
  <2>3. k \in 0 .. fill[t] - 1
    BY <2>2, <1>0, SpaceTypes, CellBelow
  <2> QED BY <2>2, <2>3 DEF LiveCells
<1>3. k \notin S
  <2> SUFFICES ASSUME k \in S PROVE FALSE
    OBVIOUS
  <2>1. PICK j \in Ids \ {id} : hash[j] = <<t, k>>
    BY PlaceFacts DEF LiveCells
  <2>2. SoundAt(hash[j], j) /\ SoundAt(hash[id], id) /\ hash[j] = hash[id]
    BY <2>1, PlaceFacts DEF HInv, Hashed
  <2> QED BY <2>1, <2>2 DEF SoundAt
<1>4. T = S \cup {k}
  <2>1. S \subseteq T
    BY FewerLive DEF Fewer, NoneNew
  <2>2. ASSUME NEW p \in T, p # k PROVE p \in S
    <3>1. \A q : <<t, q>> # Null
      BY PlaceFacts
    <3>2. PICK j \in Ids \ InFlight : hash[j] = <<t, p>>
      BY <3>1 DEF LiveCells
    <3>3. j # id
      BY <2>2, <3>2
    <3> QED BY <3>2, <3>3 DEF LiveCells
  <2> QED BY <1>2, <2>1, <2>2
<1>5. /\ z \in Nat /\ k + z <= Cap /\ S \subseteq Cells
      /\ \A p \in S : Size(content[t][p]) \in Nat
      /\ \A p \in S : p + Size(content[t][p]) <= k \/ k + z <= p
  <2>1. /\ T \subseteq Cells /\ \A p \in T : Size(content[t][p]) \in Nat /\ p + Size(content[t][p]) <= Cap
        /\ \A p, q \in T : p < q => p + Size(content[t][p]) <= q
    BY LiveFacts
  <2> HIDE DEF S, T
  <2>2. ASSUME NEW p \in S PROVE p < k \/ k < p
    <3>1. p \in Nat /\ k \in Nat /\ p # k
      BY <1>3, <1>4, <2>1, ConstantFacts
    <3> QED BY <3>1, SMT
  <2> QED BY <1>2, <1>4, <2>1, <2>2
<1>6. Cardinality(Area(content[t], S \cup {k})) = Cardinality(Area(content[t], S)) + z
  <2> HIDE DEF S, T
  <2> QED BY <1>5, AreaSplit
<1>7. LiveSpace(t) = Cardinality(Area(content[t], T)) /\ LiveSpace(t) \in Nat
  <2>1. LiveSpace(t) = Cardinality(Area(content[t], T))
    BY DEF LiveSpace, LiveArea, Area
  <2> QED BY <2>1, AreaFinite
<1>8. LiveSpace(t)' = Cardinality(Area(content[t], S)) /\ LiveSpace(t)' \in Nat
  <2>1. \A p \in S : Size(content'[t][p]) = Size(content[t][p])
    <3>1. \A p \in T : p \in Cells /\ p < fill[t]
      BY LiveFacts
    <3> HIDE DEF S, T
    <3> QED BY <1>0, <1>4, <3>1, SimilarSize
  <2>2. Area(content'[t], S) = Area(content[t], S)
    BY <2>1 DEF Area
  <2>3. LiveSpace(t)' = Cardinality(Area(content'[t], S))
    BY DEF LiveSpace, LiveArea, Area
  <2> QED BY <2>2, <2>3, AreaFinite
<1>9. usedSpace'[t] = (usedSpace[t] - z) % SizeMod
  BY <1>0 DEF Discount, TypeOK
<1>10. LiveSpace(t) <= usedSpace[t] /\ usedSpace[t] \in Nat /\ usedSpace[t] < SizeMod
  BY <1>0, <1>2, SpaceTypes DEF HInv, Spaces, SpaceOK
<1> HIDE DEF S, T, z
<1>11. LiveSpace(t) = LiveSpace(t)' + z
  BY <1>4, <1>6, <1>7, <1>8
<1>12. usedSpace'[t] = usedSpace[t] - z
  <2>1. usedSpace[t] - z \in Int /\ 0 <= usedSpace[t] - z /\ usedSpace[t] - z < SizeMod
    BY <1>5, <1>8, <1>10, <1>11, ConstantFacts, SMT
  <2> QED BY <1>9, <2>1, ModSmall, ConstantFacts
<1> QED BY <1>1, <1>2, <1>5, <1>7, <1>8, <1>11, <1>12

LEMMA SpacesDiscounted ==
    ASSUME IInv, Rows, AppEntry, HInv, NEW x \in Nat, Spaces(x),
           NEW id \in Ids \ InFlight, hash[id] # Null,
           Discount(hash[id]), InFlight' = {id}, UNCHANGED <<fill, hash>>, Similar,
           app.place = Null, app'.place = Null, InFlight = {}, \A s \in Segs : SameUse(s)
    PROVE  Spaces(x)'
<1>0. TypeOK
  BY DEF IInv
<1>1. PICK t \in Segs, k \in Cells : hash[id] = <<t, k>>
  BY <1>0, HashPlace
<1> DEFINE z == Size(content[t][k])
<1>2. /\ InUse(t) /\ z \in Nat
      /\ LiveSpace(t) \in Nat /\ LiveSpace(t)' \in Nat /\ LiveSpace(t) = LiveSpace(t)' + z
      /\ usedSpace'[t] = usedSpace[t] - z
      /\ \A s \in Segs \ {t} : usedSpace'[s] = usedSpace[s] /\ LiveCells(s)' = LiveCells(s)
  BY <1>1, LiveDiscounted
<1>3. ASSUME NEW s \in Segs \ {t} PROVE SpaceOK(s, x)'
  <2>1. \A p \in LiveCells(s)' : Size(content'[s][p]) = Size(content[s][p])
    BY <1>0, <1>2, LiveFacts, SimilarSize
  <2> QED BY <1>0, <1>2, <2>1, SpaceKept, SpaceTypes DEF HInv, Spaces
<1>4. SpaceOK(t, x)'
  <2>1. LiveSpace(t) <= usedSpace[t] /\ usedSpace[t] <= fill[t] + Slack(t, x) /\ InUse(t)' /\ Slack(t, x)' = Slack(t, x)
    BY <1>2, SlackFacts DEF SameUse, HInv, Spaces, SpaceOK
  <2>2. usedSpace[t] \in Nat /\ fill[t] \in Nat /\ Slack(t, x) \in Nat
    BY <1>0, SpaceTypes, SlackFacts
  <2> HIDE DEF z
  <2>3. LiveSpace(t)' <= usedSpace'[t] /\ usedSpace'[t] <= fill[t] + Slack(t, x)
    BY <1>2, <2>1, <2>2, SMT
  <2> QED BY <2>1, <2>3 DEF SpaceOK
<1> QED BY <1>3, <1>4 DEF Spaces

(* One more entry is written behind the others.                            *)
LEMMA LiveAdded ==
    ASSUME IInv, Rows, AppEntry, HInv, NEW x \in Nat, Spaces(x), 2 * Cap + x < SizeMod,
           NEW t \in Segs, InUse(t), NEW e \in Entry, e.len > 0,
           HasRoom(t, e), content' = Written(t, fill[t], e),
           fill' = [fill EXCEPT ![t] = @ + Size(e)],
           usedSpace' = [usedSpace EXCEPT ![t] = (@ + Size(e)) % SizeMod]
    PROVE  /\ Size(e) \in Nat /\ LiveSpace(t) \in Nat
           /\ usedSpace'[t] = usedSpace[t] + Size(e) /\ fill'[t] = fill[t] + Size(e)
           /\ Cardinality(Area(content'[t], LiveCells(t) \cup {fill[t]})) = LiveSpace(t) + Size(e)
           /\ \A s \in Segs \ {t} : /\ fill'[s] = fill[s] /\ usedSpace'[s] = usedSpace[s]
                                    /\ content'[s] = content[s]
<1> DEFINE k == fill[t]
           z == Size(e)
           T == LiveCells(t)
<1>0. /\ TypeOK /\ k \in Cells /\ k \in Nat /\ z \in Nat /\ k + z <= Cap
      /\ usedSpace[t] \in Nat /\ usedSpace[t] < SizeMod
  <2>1. TypeOK
    BY DEF IInv
  <2>2. k \in Cells /\ k + z \in 0 .. Cap /\ z \in Nat
    BY <2>1, RoomFacts, EntryFacts
  <2>3. k + z <= Cap /\ k \in Nat
    <3> HIDE DEF z, k
    <3> QED BY <2>2, ConstantFacts, SMT
  <2> QED BY <2>1, <2>2, <2>3, SpaceTypes
<1>1. /\ content'[t][k] = e
      /\ \A p \in Cells : p < k => content'[t][p] = content[t][p]
      /\ \A s \in Segs \ {t} : content'[s] = content[s]
  <2>1. \A p \in Cells : p < k => p # k /\ ~(p > k)
    BY <1>0, ConstantFacts, SMT
  <2> QED BY <1>0, <2>1, WrittenCells
<1>2. \A s \in Segs \ {t} : fill'[s] = fill[s] /\ usedSpace'[s] = usedSpace[s]
  BY <1>0 DEF TypeOK
<1>3. fill'[t] = k + z /\ usedSpace'[t] = (usedSpace[t] + z) % SizeMod
  BY <1>0 DEF TypeOK
<1>4. /\ T \subseteq Cells /\ \A p \in T : p < k /\ Size(content[t][p]) \in Nat
      /\ \A p \in T : p + Size(content[t][p]) <= k
  BY LiveFacts
<1>5. \A p \in T : content'[t][p] = content[t][p]
  BY <1>1, <1>4
<1>6. Cardinality(Area(content'[t], T \cup {k})) = Cardinality(Area(content'[t], T)) + z
  <2>1. /\ Size(content'[t][k]) = z /\ \A p \in T : Size(content'[t][p]) \in Nat
        /\ \A p \in T : p + Size(content'[t][p]) <= k
    BY <1>1, <1>4, <1>5
  <2> HIDE DEF T, k, z
  <2> QED BY <1>0, <1>4, <2>1, AreaSplit
<1>7. Cardinality(Area(content'[t], T)) = LiveSpace(t) /\ LiveSpace(t) \in Nat
  <2>1. LiveSpace(t) = Cardinality(Area(content[t], T))
    BY DEF LiveSpace, LiveArea, Area
  <2>2. Area(content'[t], T) = Area(content[t], T)
    BY <1>5 DEF Area
  <2> QED BY <2>1, <2>2, AreaFinite
<1>8. usedSpace'[t] = usedSpace[t] + z
  <2>1. /\ usedSpace[t] <= k + Slack(t, x) /\ Slack(t, x) \in Nat /\ Slack(t, x) <= Cap + x
        /\ 2 * Cap + x < SizeMod /\ x \in Nat
    BY SlackFacts DEF HInv, Spaces, SpaceOK
  <2> HIDE DEF T, k, z
  <2>2. usedSpace[t] + z \in Int /\ 0 <= usedSpace[t] + z /\ usedSpace[t] + z < SizeMod
    BY <1>0, <2>1, ConstantFacts, SMT
  <2> QED BY <1>3, <2>2, ModSmall, ConstantFacts
<1> QED BY <1>0, <1>1, <1>2, <1>3, <1>6, <1>7, <1>8

(* used_space of a segment that gets another entry.                        *)
LEMMA SpacesAdded ==
    ASSUME IInv, Rows, AppEntry, HInv, NEW x \in Nat, Spaces(x), 2 * Cap + x < SizeMod,
           NEW t \in Segs, InUse(t), NEW e \in Entry, e.len > 0,
           HasRoom(t, e), content' = Written(t, fill[t], e),
           fill' = [fill EXCEPT ![t] = @ + Size(e)],
           usedSpace' = [usedSpace EXCEPT ![t] = (@ + Size(e)) % SizeMod],
           \A s \in Segs : SameUse(s),
           \A s \in Segs \ {t} : LiveCells(s)' \subseteq LiveCells(s),
           LiveCells(t)' \subseteq LiveCells(t) \cup {fill[t]}
    PROVE  Spaces(x)'
<1> DEFINE z == Size(e)
           T == LiveCells(t) \cup {fill[t]}
<1>0. TypeOK
  BY DEF IInv
<1>1. /\ z \in Nat /\ LiveSpace(t) \in Nat
      /\ usedSpace'[t] = usedSpace[t] + z /\ fill'[t] = fill[t] + z
      /\ Cardinality(Area(content'[t], T)) = LiveSpace(t) + z
      /\ \A s \in Segs \ {t} : /\ fill'[s] = fill[s] /\ usedSpace'[s] = usedSpace[s]
                               /\ content'[s] = content[s]
  BY LiveAdded
<1>2. ASSUME NEW s \in Segs \ {t} PROVE SpaceOK(s, x)'
  <2>1. \A p \in LiveCells(s)' : Size(content'[s][p]) = Size(content[s][p])
    BY <1>1
  <2> QED BY <1>0, <1>1, <2>1, SpaceKept, SpaceTypes DEF HInv, Spaces
<1>3. LiveSpace(t)' <= Cardinality(Area(content'[t], T)) /\ LiveSpace(t)' \in Nat
  <2>1. LiveSpace(t)' = Cardinality(Area(content'[t], LiveCells(t)'))
    BY DEF LiveSpace, LiveArea, Area
  <2> HIDE DEF T
  <2>2. LiveCells(t)' \subseteq T
    BY DEF T
  <2> QED BY <2>1, <2>2, AreaSubset, AreaFinite
<1>4. SpaceOK(t, x)'
  <2>1. /\ LiveSpace(t) <= usedSpace[t] /\ usedSpace[t] <= fill[t] + Slack(t, x)
        /\ InUse(t)' /\ Slack(t, x)' = Slack(t, x)
    BY SlackFacts DEF SameUse, HInv, Spaces, SpaceOK
  <2>2. usedSpace[t] \in Nat /\ fill[t] \in Nat /\ Slack(t, x) \in Nat
    BY <1>0, SpaceTypes, SlackFacts
  <2> HIDE DEF T, z
  <2>3. LiveSpace(t)' <= usedSpace'[t] /\ usedSpace'[t] <= fill'[t] + Slack(t, x)
    BY <1>1, <1>3, <2>1, <2>2, SMT
  <2> QED BY <2>1, <2>3 DEF SpaceOK
<1> QED BY <1>2, <1>4 DEF Spaces

(* used_space of a segment that begins a new life, as the head or as a     *)
(* cleaner's segment.                                                      *)
LEMMA SpacesTaken ==
    ASSUME IInv, Rows, AppEntry, HInv, NEW x \in Nat, Spaces(x),
           NEW t \in Segs, ~InUse(t), InUse(t)',
           UNCHANGED <<content, usedSpace>>, fill' = [fill EXCEPT ![t] = 0],
           \A s \in Segs : Resetting(s)' <=> Resetting(s),
           \A s \in Segs \ {t} : InUse(s)' <=> InUse(s),
           \A s \in Segs \ {t} : LiveCells(s)' \subseteq LiveCells(s)
    PROVE  Spaces(x)'
<1>0. TypeOK
  BY DEF IInv
<1>1. \A s \in Segs : fill'[s] = IF s = t THEN 0 ELSE fill[s]
  BY <1>0 DEF TypeOK
<1>2. ASSUME NEW s \in Segs \ {t} PROVE SpaceOK(s, x)'
  BY <1>0, <1>1, SpaceKept, SpaceTypes DEF HInv, Spaces, SameUse
<1>3. SpaceOK(t, x)'
  <2>1. LiveCells(t)' = {}
    <3>1. 0 .. 0 - 1 = {}
      BY SMT
    <3> QED BY <1>1, <3>1 DEF LiveCells
  <2>2. LiveSpace(t)' = 0
    <3>1. LiveSpace(t)' = Cardinality(Area(content'[t], LiveCells(t)'))
      BY DEF LiveSpace, LiveArea, Area
    <3> QED BY <2>1, <3>1, AreaEmpty
  <2>3. usedSpace'[t] <= Slack(t, x) /\ Slack(t, x) \in Nat /\ Slack(t, x)' = Slack(t, x)
    BY SlackFacts DEF HInv, Spaces, SpaceOK
  <2>4. usedSpace'[t] \in Nat
    BY <1>0, SpaceTypes
  <2>5. 0 <= usedSpace'[t] /\ usedSpace'[t] <= 0 + Slack(t, x)
    BY <2>3, <2>4, SMT
  <2> QED BY <1>1, <2>2, <2>3, <2>5 DEF SpaceOK
<1> QED BY <1>2, <1>3 DEF Spaces

(* The hash table, when nothing new becomes current but the published      *)
(* entry.                                                                  *)
LEMMA HashedKept ==
    ASSUME IInv, HInv, NoneNew,
           \A s \in Segs : InUse(s) => InUse(s)' /\ fill'[s] = fill[s],
           \A id \in Ids \ InFlight' : hash'[id] # Null =>
               content'[hash'[id][1]][hash'[id][2]] = content[hash'[id][1]][hash'[id][2]]
    PROVE  Hashed'
<1> SUFFICES ASSUME NEW id \in Ids \ InFlight', hash'[id] # Null
             PROVE  SoundAt(hash[id], id)'
  BY DEF Hashed
<1>1. hash'[id] \in Places /\ SoundAt(hash'[id], id)
  <2>1. CASE id \notin InFlight /\ hash'[id] = hash[id]
    BY <2>1, HashPlace DEF HInv, Hashed, IInv
  <2>2. CASE id = app.id /\ hash'[id] = app.place
    <3>1. PICK p \in Cells : /\ p < fill[head] /\ app.place = <<head, p>>
                             /\ content[head][p] = app.entry /\ InUse(head) /\ head \in Segs
      BY <2>2, PlaceInHead DEF HInv
    <3>2. app.place[1] = head /\ app.place[2] = p /\ app.place \in Places
      BY <3>1 DEF Places
    <3>3. Writing /\ app.entry # Data
      BY <2>2, PlaceInHead, EntryFacts DEF HInv, Writing, IInv, TypeOK, AppStates
    <3> QED BY <2>2, <3>1, <3>2, <3>3 DEF SoundAt, At, HInv, AppSound
  <2> QED BY <2>1, <2>2 DEF NoneNew
<1>2. hash'[id][1] \in Segs
  BY <1>1 DEF Places
<1> QED BY <1>1, <1>2 DEF SoundAt, At

(* The walks, when the client does not disturb them.                       *)
LEMMA WalksClient ==
    ASSUME IInv, HInv, hazards = {}, NoneNew, UNCHANGED cl,
           \A s \in ToSet(used), p \in Cells :
               /\ fill'[s] = fill[s]
               /\ p < fill[s] => (content'[s][p] = Data <=> content[s][p] = Data)
    PROVE  Walks'
<1> SUFFICES ASSUME NEW c \in Cleaners PROVE WalkOK(c)'
  BY DEF Walks
<1>1. WalkOK(c)
  BY DEF HInv, Walks
<1>2. ASSUME NEW id \in Ids \ InFlight', hash'[id] # Null, cl[c].cur \in ToSet(used)
      PROVE  (id \notin InFlight /\ hash'[id] = hash[id]) \/ hash'[id][1] # cl[c].cur
  <2>1. CASE hash'[id] = app.place
    <3>1. HeadSet = {head} /\ app.place[1] = head
      BY <1>2, <2>1, PlaceInHead DEF HInv
    <3>2. head \notin ToSet(used)
      BY <3>1 DEF IInv, SegmentsPartitioned
    <3> QED BY <1>2, <2>1, <3>1, <3>2
  <2> QED BY <1>2, <2>1 DEF NoneNew
<1>3. cl[c].pc = "test" => cl[c].pos = 0
  BY <1>1 DEF WalkOK
<1>4. CASE OnWalk(c)
  <2>1. cl[c].cur \in ToSet(used) /\ cl[c].cur \in Segs
    BY <1>4, WalkCleans, CurUsed
  <2>2. cl[c].pos < fill[cl[c].cur] => content'[cl[c].cur][cl[c].pos] # Data
    <3> SUFFICES ASSUME cl[c].pos < fill[cl[c].cur] PROVE content'[cl[c].cur][cl[c].pos] # Data
      OBVIOUS
    <3>1. content[cl[c].cur][cl[c].pos] # Data
      BY <1>1, <1>4 DEF WalkOK
    <3>2. cl[c].pos \in Nat /\ fill[cl[c].cur] \in Nat /\ fill[cl[c].cur] <= Cap
      BY <2>1, SpaceTypes DEF IInv, TypeOK, CleanerStates
    <3>3. cl[c].pos \in Cells
      BY <3>2, ConstantFacts, SMT DEF Cells
    <3> QED BY <2>1, <3>1, <3>3
  <2>3. \A id \in Ids \ InFlight' :
           hash'[id] # Null /\ hash'[id][1] = cl[c].cur => hash'[id][2] >= cl[c].pos
    BY <1>1, <1>2, <1>4, <2>1 DEF WalkOK
  <2>4. fill'[cl[c].cur] = fill[cl[c].cur]
    <3>1. 0 \in Cells
      BY ConstantFacts, SMT DEF Cells
    <3> QED BY <2>1, <3>1
  <2>5. cl[c].pc \notin {"test", "advance", "reclaim"}
    BY <1>4 DEF OnWalk
  <2> QED BY <2>2, <2>3, <2>4, <2>5 DEF WalkOK, OnWalk
<1>5. CASE cl[c].pc \in {"advance", "reclaim"}
  <2>1. cl[c].cur \in ToSet(used)
    BY <1>5, WalkCleans, CurUsed
  <2>2. \A id \in Ids \ InFlight' : hash'[id] # Null => hash'[id][1] # cl[c].cur
    BY <1>1, <1>2, <1>5, <2>1 DEF WalkOK
  <2>3. cl[c].pc # "test" /\ ~OnWalk(c)
    BY <1>5 DEF OnWalk
  <2> QED BY <2>2, <2>3 DEF WalkOK, OnWalk
<1> QED BY <1>3, <1>4, <1>5 DEF WalkOK, OnWalk

-----------------------------------------------------------------------------
(* The client's steps.                                                     *)

LEMMA ClientUse ==
    ASSUME UNCHANGED <<cl, free, emergency>>, NEW s
    PROVE  SameUse(s)
  BY DEF SameUse, InUse, Resetting

LEMMA WholeSimilar == ASSUME Whole PROVE Similar
  BY DEF Whole, Similar

(* A step that writes no entry and takes no segment.                       *)
LEMMA ClientFrame ==
    ASSUME IInv, Rows, AppEntry, HInv, NEW x \in Nat, Spaces(x),
           hazards = {}, Fewer, Whole,
           UNCHANGED <<fill, usedSpace, cl, free, emergency>>
    PROVE  Hashed' /\ Spaces(x)' /\ Walks'
<1>0. TypeOK
  BY DEF IInv
<1>1. \A s \in Segs : SameUse(s)
  BY ClientUse
<1>2. Spaces(x)'
  BY <1>1, SpacesKept, WholeSimilar
<1>3. Walks'
  <2>1. ToSet(used) \subseteq Segs
    BY DEF IInv, SegmentsPartitioned
  <2> QED BY <2>1, WalksClient DEF Whole, Fewer
<1>4. Hashed'
  <2>1. ASSUME NEW id \in Ids \ InFlight', hash'[id] # Null
        PROVE  content'[hash'[id][1]][hash'[id][2]] = content[hash'[id][1]][hash'[id][2]]
    <3>1. CASE id \notin InFlight /\ hash'[id] = hash[id]
      <4>1. hash[id][1] \in Segs /\ hash[id][2] \in Cells /\ hash[id][2] < fill[hash[id][1]]
        BY <1>0, <2>1, <3>1, HashPlace DEF HInv, Hashed, SoundAt
      <4> QED BY <3>1, <4>1 DEF Whole
    <3>2. CASE hash'[id] = app.place
      <4>1. PICK p \in Cells : p < fill[head] /\ app.place = <<head, p>> /\ head \in Segs
        BY <2>1, <3>2, PlaceInHead DEF HInv
      <4> QED BY <3>2, <4>1 DEF Whole
    <3> QED BY <2>1, <3>1, <3>2 DEF Fewer, NoneNew
  <2>2. \A s \in Segs : InUse(s) => InUse(s)' /\ fill'[s] = fill[s]
    BY <1>1 DEF SameUse
  <2> QED BY <2>1, <2>2, HashedKept DEF Fewer
<1> QED BY <1>2, <1>3, <1>4

LEMMA IdleFacts ==
    ASSUME IInv, HInv, AppAt("idle")
    PROVE  InFlight = {} /\ app.place = Null
<1>1. app.pc = "idle"
  BY DEF AppAt
<1>2. ~app.locked
  BY <1>1 DEF IInv, Shape
<1> QED BY <1>1, <1>2 DEF InFlight, HInv, AppSound

(* A call begins that does not replace an object.                          *)
LEMMA BeginCreate ==
    ASSUME IInv, Rows, AppEntry, HInv, NEW x \in Nat, Spaces(x),
           hazards = {}, AppAt("idle"),
           NEW id \in Ids, NEW len \in Lens, Call(id, NewEntry(id, 1, len), FALSE),
           UNCHANGED <<heapVars, listVars, hash, cl>>
    PROVE  HInv' /\ Spaces(x)'
<1> USE DEF heapVars, listVars
<1>1. InFlight = {} /\ app.place = Null
  BY IdleFacts
<1>2. /\ app'.pc = "append" /\ app'.id = id /\ app'.locked = FALSE /\ app'.place = Null
      /\ app'.entry.id = id /\ app'.entry.del = FALSE
  BY DEF Call, NewEntry
<1>3. InFlight' = {}
  BY <1>2 DEF InFlight
<1>4. Fewer /\ Whole
  BY <1>1, <1>2, <1>3 DEF Fewer, NoneNew, Whole
<1>5. AppSound'
  BY <1>2 DEF AppSound, Writing
<1> QED BY <1>4, <1>5, ClientFrame DEF HInv

(* update_data and pfree discount the version they are about to replace or *)
(* have marked.                                                            *)
LEMMA BeginLocked ==
    ASSUME IInv, Rows, AppEntry, HInv, NEW x \in Nat, Spaces(x),
           hazards = {}, AppAt("idle"),
           NEW id \in Ids, hash[id] # Null, Discount(hash[id]),
           app'.id = id, app'.locked, app'.place = Null, app'.pc \in {"append", "unmap"},
           app'.pc = "append" => ~app'.entry.del /\ app'.entry.id = id,
           UNCHANGED <<fill, listVars, hash, cl>>,
           Similar,
           \A s \in Segs, p \in Cells : <<s, p>> # hash[id] => content'[s][p] = content[s][p]
    PROVE  HInv' /\ Spaces(x)'
<1> USE DEF listVars
<1>0. TypeOK /\ InFlight = {} /\ app.place = Null /\ InFlight' = {id}
  BY IdleFacts DEF IInv, InFlight
<1>1. NoneNew
  BY <1>0 DEF NoneNew
<1>2. \A s \in Segs : SameUse(s)
  BY ClientUse
<1>3. Spaces(x)'
  BY <1>0, <1>2, SpacesDiscounted
<1>4. Walks'
  <2>1. ToSet(used) \subseteq Segs
    BY DEF IInv, SegmentsPartitioned
  <2> QED BY <1>1, <2>1, WalksClient DEF Similar
<1>5. Hashed'
  <2>1. ASSUME NEW j \in Ids \ {id}, hash[j] # Null
        PROVE  content'[hash[j][1]][hash[j][2]] = content[hash[j][1]][hash[j][2]]
    <3>1. hash[j] # hash[id]
      BY <1>0, <2>1 DEF HInv, Hashed, SoundAt
    <3> QED BY <1>0, <2>1, <3>1, HashPlace
  <2>2. \A s \in Segs : InUse(s) => InUse(s)' /\ fill'[s] = fill[s]
    BY <1>2 DEF SameUse
  <2> QED BY <1>0, <1>1, <2>1, <2>2, HashedKept
<1>6. AppSound'
  <2>1. app'.pc # "idle" /\ app'.pc # "publish" /\ app'.pc # "takeHead"
    OBVIOUS
  <2> QED BY <2>1 DEF AppSound, Writing
<1> QED BY <1>3, <1>4, <1>5, <1>6 DEF HInv

LEMMA NewCallInv ==
    ASSUME IInv, Rows, AppEntry, HInv, NEW x \in Nat, Spaces(x),
           hazards = {}, hazards' = {}, NewCall
    PROVE  HInv' /\ Spaces(x)'
<1> USE DEF heapVars, listVars, lockVars
<1>0. TypeOK
  BY DEF IInv
<1>1. ASSUME NEW len \in Lens, BeginPalloc(len) PROVE HInv' /\ Spaces(x)'
  <2>1. PICK id \in GenId : Call(id, NewEntry(id, 1, len), FALSE)
    BY <1>1 DEF BeginPalloc
  <2>2. id \in Ids
    BY DEF GenId, FreshIds
  <2> QED BY <1>1, <2>1, <2>2, BeginCreate DEF BeginPalloc
<1>2. ASSUME NEW len \in Lens, NEW id \in WithIds, BeginPallocWithId(id, len) PROVE HInv' /\ Spaces(x)'
  BY <1>2, ClientAssumption, BeginCreate DEF BeginPallocWithId
<1>3. ASSUME NEW len \in Lens, NEW id \in UpdIds \cup WithIds, BeginUpdate(id, len) PROVE HInv' /\ Spaces(x)'
  <2>1. id \in Ids /\ hash[id] # Null /\ AppAt("idle")
    BY <1>3, ClientAssumption DEF BeginUpdate
  <2>2. /\ app'.pc = "append" /\ app'.id = id /\ app'.locked /\ app'.place = Null
        /\ app'.entry = Successor(At(hash[id]), len)
    BY <1>3 DEF BeginUpdate, Call
  <2>3. SoundAt(hash[id], id) /\ At(hash[id]) \in Entry
    BY <1>0, <2>1, IdleFacts, HashPlace, AtType DEF HInv, Hashed, SoundAt, Cell
  <2>4. ~app'.entry.del /\ app'.entry.id = id
    BY <2>2, <2>3 DEF Successor, SoundAt, Entry
  <2>5. Similar
    BY <1>3 DEF BeginUpdate, Similar
  <2> QED BY <1>3, <2>1, <2>2, <2>4, <2>5, BeginLocked DEF BeginUpdate
<1>4. ASSUME NEW id \in FreeIds, BeginFree(id) PROVE HInv' /\ Spaces(x)'
  <2>1. id \in Ids /\ hash[id] # Null /\ AppAt("idle") /\ hash[id] \in Places
    BY <1>0, <1>4, ClientAssumption, HashPlace DEF BeginFree
  <2>2. app'.pc = "unmap" /\ app'.id = id /\ app'.locked /\ app'.place = Null
    BY <1>4 DEF BeginFree, Idle
  <2>3. /\ Similar
        /\ \A s \in Segs, p \in Cells : <<s, p>> # hash[id] => content'[s][p] = content[s][p]
    BY <1>0, <1>4, <2>1, MarkedCells DEF BeginFree
  <2> QED BY <1>4, <2>1, <2>2, <2>3, BeginLocked DEF BeginFree
<1> QED BY <1>1, <1>2, <1>3, <1>4 DEF NewCall

LEMMA CallStepInv ==
    ASSUME IInv, Rows, AppEntry, HInv, NEW x \in Nat, Spaces(x), 2 * Cap + x < SizeMod,
           hazards = {}, hazards' = {}, CallStep
    PROVE  HInv' /\ Spaces(x)'
<1> USE DEF heapVars, listVars, lockVars
<1>0. TypeOK /\ app \in AppStates /\ AppSound
  BY DEF IInv, TypeOK, HInv
<1>1. CASE WriteEntry
  <2> DEFINE k == fill[head]
             e == app.entry
  <2>1. /\ app.pc = "append" /\ head # None /\ head \in Segs /\ HasRoom(head, e)
        /\ app' = [app EXCEPT !.pc = "publish", !.place = <<head, k>>]
        /\ content' = Written(head, k, e) /\ fill' = [fill EXCEPT ![head] = @ + Size(e)]
        /\ usedSpace' = [usedSpace EXCEPT ![head] = (@ + Size(e)) % SizeMod]
        /\ UNCHANGED <<head, hash, cl, free, emergency, used>>
    BY <1>0, <1>1 DEF WriteEntry, AppAt, TypeOK
  <2>2. HeadSet = {head} /\ InUse(head) /\ e.len > 0 /\ e \in Entry /\ app.place = Null
    BY <1>0, <2>1, InUseFacts DEF HeadSet, AppEntry, Writing, AppStates, AppSound
  <2>3. /\ app'.pc = "publish" /\ app'.place = <<head, k>> /\ app'.entry = e
        /\ app'.id = app.id /\ app'.locked = app.locked
    BY <1>0, <2>1 DEF AppStates
  <2>4. InFlight' = InFlight /\ NoneNew
    BY <2>1, <2>3 DEF InFlight, NoneNew
  <2>5. k \in Cells /\ k + Size(e) \in 0 .. Cap /\ k \in Nat /\ Size(e) \in Nat /\ Size(e) >= 1
        /\ k < k + Size(e)
    <3>1. k \in Cells /\ k + Size(e) \in 0 .. Cap /\ Size(e) \in Nat /\ Size(e) >= 1
      BY <1>0, <2>1, <2>2, RoomFacts, EntryFacts
    <3>2. k \in Nat
      BY <3>1, ConstantFacts
    <3> HIDE DEF k, e
    <3> QED BY <3>1, <3>2, SMT
  <2>6. /\ fill' = [fill EXCEPT ![head] = k + Size(e)]
        /\ content'[head][k] = e
        /\ \A s \in Segs, p \in Cells : p < fill[s] => content'[s][p] = content[s][p]
    <3>1. \A p \in Cells : p < k => p # k /\ ~(p > k)
      BY <2>5, ConstantFacts, SMT
    <3> QED BY <1>0, <2>1, <2>5, <3>1, WrittenCells
  <2>7. \A s \in Segs : fill'[s] = IF s = head THEN k + Size(e) ELSE fill[s]
    BY <1>0, <2>6 DEF TypeOK
  <2>8. \A s \in Segs : SameUse(s)
    BY <2>1, ClientUse
  <2>9. \A id \in Ids \ InFlight : hash[id] # Null =>
           /\ hash[id][1] \in Segs /\ hash[id][2] \in Cells /\ hash[id][2] < fill[hash[id][1]]
    BY <1>0, HashPlace DEF HInv, Hashed, SoundAt
  <2>10. AppSound'
    <3>1. \A id \in Ids \ InFlight : hash[id] # <<head, k>>
      <4> SUFFICES ASSUME NEW id \in Ids \ InFlight, hash[id] = <<head, k>> PROVE FALSE
        OBVIOUS
      <4>1. hash[id][1] = head /\ hash[id][2] = k /\ hash[id] # Null
        BY PlaceFacts
      <4>2. k < k
        BY <2>9, <4>1
      <4> HIDE DEF k
      <4> QED BY <2>5, <4>2, SMT
    <3>2. Writing
      BY <2>1 DEF Writing
    <3> HIDE DEF k, e
    <3> QED BY <1>0, <2>1, <2>3, <2>4, <2>5, <2>6, <2>7, <3>1, <3>2 DEF AppSound, Writing, e
  <2>11. Hashed'
    <3>1. ASSUME NEW id \in Ids \ InFlight', hash'[id] # Null PROVE SoundAt(hash[id], id)'
      <4>1. SoundAt(hash[id], id)
        BY <2>1, <2>4, <3>1 DEF HInv, Hashed
      <4>2. hash[id][1] \in Segs /\ hash[id][2] \in Cells /\ hash[id][2] < fill[hash[id][1]]
        BY <2>1, <2>4, <2>9, <3>1
      <4>3. hash[id][2] < fill'[hash[id][1]]
        <5>1. CASE hash[id][1] = head
          <6>1. hash[id][2] \in Nat /\ hash[id][2] < k
            BY <4>2, <5>1, ConstantFacts
          <6> HIDE DEF k, e
          <6>2. hash[id][2] < k + Size(e)
            BY <2>5, <6>1, SMT
          <6> QED BY <2>1, <2>7, <5>1, <6>2
        <5>2. CASE hash[id][1] # head
          BY <2>7, <4>2, <5>2
        <5> QED BY <5>1, <5>2
      <4>4. InUse(hash[id][1])'
        BY <2>1, <4>1 DEF InUse, SoundAt
      <4> QED BY <2>1, <2>6, <4>1, <4>2, <4>3, <4>4 DEF SoundAt, At
    <3> QED BY <3>1 DEF Hashed
  <2>12. Spaces(x)'
    <3>1. \A s \in Segs \ {head} : LiveCells(s)' \subseteq LiveCells(s)
      BY <2>1, <2>3, <2>4, <2>7 DEF LiveCells
    <3>2. ASSUME NEW t \in Segs, t = head PROVE LiveCells(t)' \subseteq LiveCells(t) \cup {fill[t]}
      <4> SUFFICES ASSUME NEW p \in LiveCells(t)', p # k PROVE p \in LiveCells(t)
        BY <3>2
      <4>1. app'.place # <<t, p>>
        BY <2>3, <3>2
      <4>2. \E id \in Ids \ InFlight' : hash'[id] = <<t, p>>
        BY <4>1 DEF LiveCells
      <4>3. PICK id \in Ids \ InFlight : hash[id] = <<t, p>>
        BY <2>1, <2>4, <4>2
      <4>4. p \in Cells /\ p < k
        <5>1. hash[id][1] = t /\ hash[id][2] = p /\ hash[id] # Null
          BY <4>3, PlaceFacts
        <5> QED BY <2>9, <3>2, <5>1
      <4>5. p \in 0 .. fill[t] - 1
        BY <2>5, <3>2, <4>4, CellBelow
      <4> QED BY <4>3, <4>5 DEF LiveCells
    <3> HIDE DEF k, e
    <3>3. /\ content' = Written(head, fill[head], e) /\ HasRoom(head, e)
          /\ fill' = [fill EXCEPT ![head] = @ + Size(e)]
      BY <2>1 DEF k
    <3>4. PICK t \in Segs : t = head
      BY <2>1
    <3> QED BY <2>1, <2>2, <2>8, <3>1, <3>2, <3>3, <3>4, SpacesAdded
  <2>13. Walks'
    <3>1. head \notin ToSet(used) /\ ToSet(used) \subseteq Segs
      BY <2>2 DEF IInv, SegmentsPartitioned
    <3>2. \A s \in ToSet(used) : fill'[s] = fill[s]
      BY <2>7, <3>1
    <3> HIDE DEF k, e
    <3> QED BY <2>1, <2>4, <2>6, <3>1, <3>2, WalksClient
  <2> QED BY <2>10, <2>11, <2>12, <2>13 DEF HInv
<1>2. CASE SealHead
  <2>1. /\ head \in Segs /\ content' = Terminated(head) /\ app.pc = "append"
        /\ app' = [app EXCEPT !.pc = "takeHead"] /\ UNCHANGED <<fill, usedSpace, cl, free, emergency, hash>>
    BY <1>0, <1>2 DEF SealHead, AppAt, TypeOK
  <2>2. /\ app'.pc = "takeHead" /\ app'.place = app.place /\ app'.entry = app.entry
        /\ app'.id = app.id /\ app'.locked = app.locked
    BY <1>0, <2>1 DEF AppStates
  <2>3. Whole /\ Fewer
    BY <1>0, <2>1, <2>2, TerminatedCells DEF Fewer, NoneNew, InFlight
  <2>4. AppSound'
    BY <1>0, <2>1, <2>2 DEF AppSound, Writing
  <2> QED BY <2>1, <2>3, <2>4, ClientFrame DEF HInv
<1>3. CASE TakeHead
  <2>1. PICK t \in Segs :
            /\ t \in ToSet(free) /\ ToSet(free') = ToSet(free) \ {t}
            /\ emergency' = emergency /\ fill' = [fill EXCEPT ![t] = 0]
            /\ UNCHANGED <<content, usedSpace, hash, cl>>
    <3>1. Head(free) \in Segs /\ Head(free) \in ToSet(free) /\ ToSet(free') = ToSet(free) \ {Head(free)}
      BY <1>0, <1>3, TailProps DEF TakeHead, TypeOK, IInv, SegmentsPartitioned
    <3> QED BY <1>3, <3>1 DEF TakeHead
  <2>2. /\ Writing /\ app.pc # "publish" /\ app'.pc = "append" /\ app'.place = app.place
        /\ app'.entry = app.entry /\ app'.id = app.id /\ app'.locked = app.locked
    BY <1>0, <1>3 DEF TakeHead, NeedsHead, AppAt, AppStates, Writing
  <2>3. ~InUse(t) /\ InUse(t)' /\ \A s \in Segs \ {t} : InUse(s)' <=> InUse(s)
    <3>1. t \notin ToSet(emergency)
      BY <2>1 DEF IInv, SegmentsPartitioned
    <3> QED BY <2>1, <3>1 DEF InUse
  <2>4. Fewer /\ \A s \in Segs : fill'[s] = IF s = t THEN 0 ELSE fill[s]
    BY <1>0, <2>1, <2>2 DEF Fewer, NoneNew, InFlight, TypeOK
  <2>5. Spaces(x)'
    <3>1. \A s \in Segs \ {t} : LiveCells(s)' \subseteq LiveCells(s)
      BY <2>4, FewerLive
    <3>2. \A s \in Segs : Resetting(s)' <=> Resetting(s)
      BY <2>1 DEF Resetting
    <3> QED BY <2>1, <2>3, <3>1, <3>2, SpacesTaken
  <2>6. Hashed'
    <3>1. \A s \in Segs : InUse(s) => InUse(s)' /\ fill'[s] = fill[s]
      BY <2>3, <2>4
    <3> QED BY <2>1, <2>4, <3>1, HashedKept DEF Fewer
  <2>7. Walks'
    <3>1. t \notin ToSet(used) /\ ToSet(used) \subseteq Segs
      BY <2>1 DEF IInv, SegmentsPartitioned
    <3> QED BY <2>1, <2>4, <3>1, WalksClient DEF Fewer
  <2>8. AppSound'
    BY <1>0, <2>2 DEF AppSound, Writing
  <2> QED BY <2>5, <2>6, <2>7, <2>8 DEF HInv
<1>4. CASE OutOfMemory
  <2>1. /\ ~app.locked /\ app' = Idle /\ UNCHANGED <<content, fill, usedSpace, cl, free, emergency, hash>>
    BY <1>4 DEF OutOfMemory, Meet
  <2>2. Whole /\ Fewer
    BY <2>1 DEF Whole, Fewer, NoneNew, InFlight, Idle
  <2>3. AppSound'
    BY <2>1 DEF AppSound, Writing, Idle
  <2> QED BY <2>1, <2>2, <2>3, ClientFrame DEF HInv
<1>5. CASE Publish \/ Unmap
  <2>1. /\ app' = Idle /\ UNCHANGED <<content, fill, usedSpace, cl, free, emergency>>
        /\ app.id \in Ids
        /\ \/ hash' = [hash EXCEPT ![app.id] = app.place]
           \/ hash' = [hash EXCEPT ![app.id] = Null]
    BY <1>0, <1>5 DEF Publish, Unmap, AppAt, AppSound
  <2>2. \A id \in Ids : \/ id # app.id /\ hash'[id] = hash[id]
                        \/ id = app.id /\ hash'[id] \in {Null, app.place}
    BY <1>0, <2>1 DEF TypeOK
  <2>3. Whole /\ Fewer
    BY <2>1, <2>2 DEF Whole, Fewer, NoneNew, InFlight, Idle
  <2>4. AppSound'
    BY <2>1 DEF AppSound, Writing, Idle
  <2> QED BY <2>1, <2>3, <2>4, ClientFrame DEF HInv
<1> QED BY <1>1, <1>2, <1>3, <1>4, <1>5 DEF CallStep

-----------------------------------------------------------------------------
(* The cleaner's steps.                                                    *)

(* The late resets of used_space that are still to come stay the same when *)
(* the thread is not at the end of a segment.                              *)
LEMMA ResettingKept ==
    ASSUME TypeOK, NEW c \in Cleaners, CleanerStep(c), NEW s,
           cl[c].pc # "finish" \/ cl[c].cur # s, cl'[c].pc # "finish" \/ cl'[c].cur # s
    PROVE  Resetting(s)' <=> Resetting(s)
  BY OtherThreads DEF Resetting

(* The walks, when a thread does not disturb the others.                   *)
LEMMA WalksCleaner ==
    ASSUME IInv, HInv, hazards = {}, NEW c \in Cleaners, CleanerStep(c), UNCHANGED app,
           \A s \in ToSet(used) : content'[s] = content[s] /\ fill'[s] = fill[s],
           \A id \in Ids \ InFlight :
               hash'[id] = hash[id] \/ (hash'[id] # Null /\ hash'[id][1] \notin ToSet(used)),
           WalkOK(c)'
    PROVE  Walks'
<1> SUFFICES ASSUME NEW d \in Cleaners, d # c PROVE WalkOK(d)'
  BY DEF Walks
<1>1. cl'[d] = cl[d] /\ WalkOK(d) /\ InFlight' = InFlight
  BY OtherThreads DEF IInv, HInv, Walks, InFlight
<1>2. OnWalk(d) \/ cl[d].pc \in {"advance", "reclaim"} => cl[d].cur \in ToSet(used)
  BY WalkCleans, CurUsed
<1>3. CASE OnWalk(d)
  <2>1. content'[cl[d].cur] = content[cl[d].cur] /\ fill'[cl[d].cur] = fill[cl[d].cur]
    BY <1>2, <1>3
  <2>2. cl[d].pc \notin {"test", "advance", "reclaim"}
    BY <1>3 DEF OnWalk
  <2>3. ASSUME NEW id \in Ids \ InFlight, hash'[id] # Null, hash'[id][1] = cl[d].cur
        PROVE  hash[id] # Null /\ hash'[id] = hash[id]
    BY <1>2, <1>3, <2>3
  <2> QED BY <1>1, <1>3, <2>1, <2>2, <2>3 DEF WalkOK, OnWalk
<1>4. CASE cl[d].pc \in {"advance", "reclaim"}
  <2>1. ASSUME NEW id \in Ids \ InFlight, hash'[id] # Null, hash'[id][1] = cl[d].cur
        PROVE  hash[id] # Null /\ hash'[id] = hash[id]
    BY <1>2, <1>4, <2>1
  <2> QED BY <1>1, <1>4, <2>1 DEF WalkOK, OnWalk
<1> QED BY <1>1, <1>3, <1>4 DEF WalkOK, OnWalk

(* A step that only moves its own thread on.                               *)
LEMMA CleanerFrame ==
    ASSUME IInv, Rows, AppEntry, HInv, NEW x \in Nat, Spaces(x),
           hazards = {}, NEW c \in Cleaners, CleanerStep(c),
           cl[c].pc # "finish", cl'[c].pc # "finish",
           UNCHANGED <<content, fill, usedSpace, free, emergency, hash, app, head>>,
           WalkOK(c)'
    PROVE  HInv' /\ Spaces(x)'
<1>0. TypeOK /\ InFlight' = InFlight
  BY DEF IInv, InFlight
<1>1. AppSound'
  BY <1>0 DEF HInv, AppSound, Writing
<1>2. Hashed'
  BY <1>0 DEF HInv, Hashed, SoundAt, At, InUse
<1>3. Spaces(x)'
  <2>1. \A s \in Segs : SameUse(s)
    BY <1>0, ResettingKept DEF SameUse, InUse
  <2> QED BY <1>0, <2>1, SpacesKept DEF Fewer, NoneNew, Similar
<1>4. Walks'
  <2>1. /\ UNCHANGED app
        /\ \A s \in ToSet(used) : content'[s] = content[s] /\ fill'[s] = fill[s]
        /\ \A id \in Ids \ InFlight :
              hash'[id] = hash[id] \/ (hash'[id] # Null /\ hash'[id][1] \notin ToSet(used))
    OBVIOUS
  <2> QED BY <2>1, WalksCleaner
<1> QED BY <1>1, <1>2, <1>3, <1>4 DEF HInv

LEMMA GoToFacts ==
    ASSUME TypeOK, NEW c \in Cleaners, NEW s, GoTo(c, s)
    PROVE  /\ cl'[c].pc \in {"scan", "test"} /\ cl'[c].pos = 0
           /\ WalkOK(c)'
<1>1. cl'[c].pc \in {"scan", "test"} /\ cl'[c].pos = 0
  BY DEF GoTo, TypeOK
<1> QED BY <1>1 DEF WalkOK, OnWalk

(* Where a thread stands in the segment it walks over.                     *)
LEMMA WalkPlace ==
    ASSUME IInv, Rows, HInv, hazards = {}, NEW c \in Cleaners, cl[c].pc = "walk"
    PROVE  /\ cl[c].cur \in Segs /\ cl[c].cur \in ToSet(used) /\ cl[c].cur \notin ToSet(cleaning)
           /\ InUse(cl[c].cur) /\ RowOf(content[cl[c].cur], fill[cl[c].cur])
           /\ cl[c].pos \in Nat /\ fill[cl[c].cur] \in Nat /\ fill[cl[c].cur] \in 0 .. Cap
           /\ fill[cl[c].cur] <= Cap
           /\ cl[c].pos < fill[cl[c].cur] => cl[c].pos \in Cells
<1>1. /\ cl[c].cur \in Segs /\ cl[c].cur \in ToSet(used) /\ InUse(cl[c].cur)
      /\ cl[c].cur \notin ToSet(cleaning)
  BY CurUsed DEF Cleans
<1>2. RowOf(content[cl[c].cur], fill[cl[c].cur])
  BY <1>1 DEF Rows, Row
<1>3. cl[c].pos \in Nat
  BY DEF IInv, TypeOK, CleanerStates
<1>4. fill[cl[c].cur] \in Nat /\ fill[cl[c].cur] \in 0 .. Cap /\ fill[cl[c].cur] <= Cap
  BY <1>1, RowTypes, SpaceTypes DEF IInv
<1>5. cl[c].pos < fill[cl[c].cur] => cl[c].pos \in Cells
  BY <1>3, <1>4, ConstantFacts, SMT DEF Cells
<1> QED BY <1>1, <1>2, <1>3, <1>4, <1>5

(* A thread passes the entry at hand: no other one in its segment is at or *)
(* before the place where it goes on.                                      *)
LEMMA WalkOn ==
    ASSUME IInv, Rows, HInv, hazards = {}, NEW c \in Cleaners, cl[c].pc = "walk"
    PROVE  LET t == cl[c].cur
               n == cl[c].pos + Size(Visited(c))
           IN  cl[c].pos < fill[t] =>
                  /\ n < fill[t] => content[t][n] # Data
                  /\ \A q \in Cells : content[t][q] # Data /\ q < fill[t] /\ q >= cl[c].pos =>
                        q = cl[c].pos \/ q >= n
<1> DEFINE t == cl[c].cur
           n == cl[c].pos + Size(Visited(c))
<1> SUFFICES ASSUME cl[c].pos < fill[t]
             PROVE  /\ n < fill[t] => content[t][n] # Data
                    /\ \A q \in Cells : content[t][q] # Data /\ q < fill[t] /\ q >= cl[c].pos =>
                          q = cl[c].pos \/ q >= n
  OBVIOUS
<1>1. /\ t \in Segs /\ RowOf(content[t], fill[t]) /\ cl[c].pos \in Cells /\ cl[c].pos \in Nat
      /\ fill[t] \in 0 .. Cap /\ fill[t] \in Nat
  BY WalkPlace
<1>2. /\ n < fill[t] => content[t][n] # Data
      /\ content[t][cl[c].pos] # Data /\ Visited(c) = content[t][cl[c].pos]
  BY <1>1, VisitRow DEF Visited
<1>3. ASSUME NEW q \in Cells, content[t][q] # Data, q < fill[t], q >= cl[c].pos, q # cl[c].pos
      PROVE  q >= n
  <2>1. q \in Nat
    BY ConstantFacts
  <2>2. cl[c].pos < q
    BY <1>1, <1>3, <2>1, SMT
  <2>3. \A p \in Cells : content[t][p] \in Cell
    BY <1>1, RowTypes DEF IInv
  <2>4. n <= q
    BY <1>1, <1>2, <1>3, <2>2, <2>3, RowApart
  <2>5. n \in Nat
    BY <1>1, <1>2, <2>3, CellFacts, SMT
  <2> HIDE DEF n
  <2> QED BY <2>1, <2>4, <2>5, SMT
<1> QED BY <1>2, <1>3

(* A thread claims a segment in which something is used, and stands at its *)
(* first entry, or one with used_space 0, in which nothing is live.        *)
LEMMA ClaimInv ==
    ASSUME IInv, Rows, AppEntry, HInv, NEW x \in Nat, Spaces(x),
           hazards = {}, hazards' = {}, NEW c \in Cleaners, Claim(c)
    PROVE  HInv' /\ Spaces(x)'
<1> DEFINE t == cl[c].cur
<1> USE DEF heapVars, listVars
<1>0. TypeOK /\ cl[c].pc = "test" /\ InFlight' = InFlight
  BY DEF Claim, CleanerAt, IInv, InFlight
<1>1. /\ UNCHANGED <<content, fill, usedSpace, free, emergency, hash, app, head>>
      /\ cl'[c].pc = (IF usedSpace[t] = 0 THEN "advance" ELSE "walk")
      /\ cl'[c].cur = t /\ cl'[c].pos = cl[c].pos /\ t \notin currCleaned /\ t \in ToSet(used)
  <2>1. t \in ToSet(used)
    BY DEF Claim, Meet
  <2>2. t \notin currCleaned
    BY DEF Claim, Claimable
  <2> QED BY <1>0, <2>1, <2>2 DEF Claim, TypeOK
<1>2. t \in Segs /\ InUse(t) /\ fill[t] \in Nat /\ usedSpace[t] \in Nat /\ cl[c].pos = 0
  <2>1. t \in Segs /\ InUse(t)
    BY <1>1, InUseFacts
  <2>2. cl[c].pos = 0
    BY <1>0 DEF HInv, Walks, WalkOK
  <2> QED BY <1>0, <2>1, <2>2, SpaceTypes
<1>3. \A id \in Ids \ InFlight : hash[id] # Null =>
         hash[id][2] \in Cells /\ hash[id][2] < fill[hash[id][1]] /\ hash[id] = <<hash[id][1], hash[id][2]>>
  BY <1>0, HashPlace DEF HInv, Hashed, SoundAt
<1>4. CASE usedSpace[t] = 0
  <2>2. LiveSpace(t) <= 0
    BY <1>2, <1>4 DEF HInv, Spaces, SpaceOK
  <2>3. LiveArea(t) = {}
    <3>1. LiveArea(t) = Area(content[t], LiveCells(t))
      BY DEF LiveArea, Area
    <3>2. IsFiniteSet(LiveArea(t)) /\ LiveSpace(t) \in Nat
      BY <3>1, AreaFinite DEF LiveSpace
    <3>3. LiveSpace(t) = 0
      <4> HIDE DEF t
      <4> QED BY <2>2, <3>2, SMT
    <3> QED BY <3>2, <3>3, FS_EmptySet DEF LiveSpace
  <2>4. LiveCells(t) = {}
    <3> SUFFICES ASSUME NEW p \in LiveCells(t) PROVE FALSE
      OBVIOUS
    <3>1. p \in Cells /\ Size(content[t][p]) \in Nat /\ Size(content[t][p]) >= 2
      BY <1>2, LiveFacts
    <3>2. p <= p /\ p < p + Size(content[t][p])
      <4>1. p \in Nat
        BY <3>1, ConstantFacts
      <4> QED BY <3>1, <4>1, SMT
    <3> QED BY <2>3, <3>1, <3>2 DEF LiveArea
  <2>5. \A id \in Ids \ InFlight : hash[id] # Null => hash[id][1] # t
    <3> SUFFICES ASSUME NEW id \in Ids \ InFlight, hash[id] # Null, hash[id][1] = t PROVE FALSE
      OBVIOUS
    <3>1. hash[id][2] \in 0 .. fill[t] - 1
      BY <1>2, <1>3, CellBelow
    <3> QED BY <1>3, <2>4, <3>1 DEF LiveCells
  <2>6. WalkOK(c)'
    <3>1. cl'[c].pc = "advance"
      BY <1>1, <1>4
    <3> QED BY <1>0, <1>1, <2>5, <3>1 DEF WalkOK, OnWalk
  <2> QED BY <1>0, <1>1, <1>4, <2>6, CleanerFrame DEF CleanerStep
<1>5. CASE usedSpace[t] # 0
  <2>1. cl'[c].pc = "walk"
    BY <1>1, <1>5
  <2>2. 0 < fill[t] => content[t][0] # Data
    <3>1. 0 \in Cells
      BY ConstantFacts, SMT DEF Cells
    <3>2. RowOf(content[t], fill[t])
      BY <1>2 DEF Rows, Row
    <3> QED BY <3>1, <3>2 DEF RowOf
  <2>3. \A k \in Cells : k >= 0
    BY ConstantFacts, SMT
  <2>4. WalkOK(c)'
    <3> HIDE DEF t
    <3>1. cl'[c].pos = 0 /\ cl'[c].cur = t
      BY <1>1, <1>2
    <3> QED BY <1>0, <1>1, <1>3, <2>1, <2>2, <2>3, <3>1 DEF WalkOK, OnWalk
  <2> QED BY <1>0, <1>1, <2>1, <2>4, CleanerFrame DEF CleanerStep
<1> QED BY <1>4, <1>5

(* A walk that is over has passed everything that is live.                 *)
LEMMA EndWalkInv ==
    ASSUME IInv, Rows, AppEntry, HInv, NEW x \in Nat, Spaces(x),
           hazards = {}, NEW c \in Cleaners, EndWalk(c)
    PROVE  HInv' /\ Spaces(x)'
<1> DEFINE t == cl[c].cur
           k == cl[c].pos
<1> USE DEF heapVars, listVars
<1>0. TypeOK /\ cl[c].pc = "walk" /\ InFlight' = InFlight /\ OnWalk(c)
  BY DEF EndWalk, CleanerAt, IInv, InFlight, OnWalk
<1>1. /\ UNCHANGED <<content, fill, usedSpace, free, emergency, hash, app, head>>
      /\ cl'[c].pc = "advance" /\ cl'[c].cur = t
      /\ k < Cap - 1 => content[t][k].len = 0
  BY <1>0 DEF EndWalk, TypeOK, WalkOver
<1>2. /\ t \in Segs /\ k \in Nat /\ fill[t] \in Nat /\ fill[t] <= Cap /\ Cap \in Nat
      /\ k < fill[t] => k \in Cells
  BY <1>0, WalkPlace, ConstantFacts
<1>3. ~(k < fill[t])
  <2> SUFFICES ASSUME k < fill[t] PROVE FALSE
    OBVIOUS
  <2>1. Visited(c).len > 0 /\ k + Size(Visited(c)) <= fill[t] /\ Visited(c) = content[t][k]
    BY <1>0, <1>2, VisitRow DEF Visited
  <2>2. content[t][k].len \in Int /\ Size(Visited(c)) = 1 + content[t][k].len
    BY <1>0, <1>2, <2>1, RowTypes, CellFacts
  <2> HIDE DEF t, k
  <2>3. k < Cap - 1
    BY <1>2, <2>1, <2>2, SMT
  <2> QED BY <1>1, <2>1, <2>2, <2>3, SMT
<1>4. ASSUME NEW id \in Ids \ InFlight, hash[id] # Null, hash[id][1] = t PROVE FALSE
  <2>1. hash[id][2] >= k /\ hash[id][2] < fill[t] /\ hash[id][2] \in Cells
    BY <1>0, <1>4, HashPlace DEF HInv, Hashed, SoundAt, Walks, WalkOK
  <2>2. hash[id][2] \in Nat
    BY <2>1, ConstantFacts
  <2> HIDE DEF t, k
  <2> QED BY <1>2, <1>3, <2>1, <2>2, SMT
<1>5. WalkOK(c)'
  BY <1>0, <1>1, <1>4 DEF WalkOK, OnWalk
<1> QED BY <1>0, <1>1, <1>5, CleanerFrame DEF CleanerStep

(* What a thread drops is not what the hash table points to.               *)
LEMMA DropInv ==
    ASSUME IInv, Rows, AppEntry, HInv, NEW x \in Nat, Spaces(x),
           hazards = {}, NEW c \in Cleaners, Drop(c)
    PROVE  HInv' /\ Spaces(x)'
<1> DEFINE t == cl[c].cur
           k == cl[c].pos
           n == k + Size(Visited(c))
<1> USE DEF heapVars, listVars
<1>0. TypeOK /\ cl[c].pc = "walk" /\ InFlight' = InFlight /\ OnWalk(c) /\ InFlight = {}
  <2>1. updateMove = None
    BY DEF Drop, Visits
  <2> QED BY <2>1, ConstantFacts DEF Drop, Visits, CleanerAt, IInv, Shape, InFlight, OnWalk
<1>1. /\ UNCHANGED <<content, fill, usedSpace, free, emergency, hash, app, head>>
      /\ cl'[c].pc = "walk" /\ cl'[c].cur = t /\ cl'[c].pos = n
      /\ ~Kept(Visited(c))
  BY <1>0 DEF Drop, TypeOK
<1>2. /\ t \in Segs /\ k \in Nat /\ fill[t] \in Nat /\ fill[t] <= Cap /\ Cap \in Nat
      /\ Visited(c) \in Cell /\ Size(Visited(c)) \in Nat /\ n \in Nat /\ k <= n
  <2>1. t \in Segs /\ k \in Nat /\ fill[t] \in Nat /\ fill[t] <= Cap /\ Cap \in Nat
    BY <1>0, WalkPlace, ConstantFacts
  <2>2. Visited(c) \in Cell /\ Size(Visited(c)) \in Nat
    BY <1>0, VisitFacts, CellFacts DEF Drop, IInv
  <2> HIDE DEF t, k
  <2> QED BY <2>1, <2>2, SMT
<1>3. ASSUME NEW id \in Ids \ InFlight, hash[id] # Null, hash[id][1] = t
      PROVE  hash[id][2] >= n /\ k < fill[t]
  <2>1. /\ hash[id][2] >= k /\ hash[id][2] < fill[t] /\ hash[id][2] \in Cells
        /\ content[t][hash[id][2]] # Data /\ At(hash[id]) = content[t][hash[id][2]]
        /\ At(hash[id]).id = id /\ ~At(hash[id]).del
    BY <1>0, <1>3, HashPlace DEF HInv, Hashed, SoundAt, Walks, WalkOK, At
  <2>2. hash[id][2] \in Nat
    BY <2>1, ConstantFacts
  <2>3. k < fill[t]
    <3> HIDE DEF t, k
    <3> QED BY <1>2, <2>1, <2>2, SMT
  <2>4. hash[id][2] = k \/ hash[id][2] >= n
    BY <1>0, <2>1, <2>3, WalkOn
  <2>5. hash[id][2] # k
    <3> SUFFICES ASSUME hash[id][2] = k PROVE FALSE
      OBVIOUS
    <3>1. Visited(c) = At(hash[id]) /\ Visited(c).id = id
      BY <2>1 DEF Visited
    <3>2. Visited(c) \in Entry
      BY <1>2, <2>1, <3>1 DEF Cell
    <3>3. Visited(c).ver >= Visited(c).ver
      <4>1. Visited(c).ver \in Nat
        BY <3>2 DEF Entry
      <4> QED BY <4>1, SMT
    <3> QED BY <1>1, <2>1, <3>1, <3>3 DEF Kept
  <2> QED BY <2>3, <2>4, <2>5
<1>4. n < fill[t] => content[t][n] # Data
  <2> SUFFICES ASSUME n < fill[t] PROVE content[t][n] # Data
    OBVIOUS
  <2>1. k < fill[t]
    <3> HIDE DEF t, k, n
    <3> QED BY <1>2, SMT
  <2> QED BY <1>0, <2>1, WalkOn
<1>5. WalkOK(c)'
  BY <1>0, <1>1, <1>3, <1>4 DEF WalkOK, OnWalk
<1> QED BY <1>0, <1>1, <1>5, CleanerFrame DEF CleanerStep

(* A thread takes a segment to copy into.                                  *)
LEMMA TakeInv ==
    ASSUME IInv, Rows, AppEntry, HInv, NEW x \in Nat, Spaces(x),
           hazards = {}, NEW c \in Cleaners,
           GetFirstSegment(c) \/ Refill(c)
    PROVE  HInv' /\ Spaces(x)'
<1>0. TypeOK /\ CleanerStep(c)
  BY DEF IInv, CleanerStep
<1>1. PICK s \in Segs : /\ GetSegment(c, s)
                        /\ \/ cl' = [cl EXCEPT ![c].pc = "scan", ![c].seg = s] /\ cl[c].pc = "first"
                           \/ cl' = [cl EXCEPT ![c].pc = "walk", ![c].seg = s] /\ cl[c].pc = "refill"
  BY DEF GetFirstSegment, Refill, CleanerAt
<1>2. /\ ~InUse(s) /\ InUse(s)' /\ \A t \in Segs \ {s} : InUse(t)' <=> InUse(t)
      /\ fill' = [fill EXCEPT ![s] = 0] /\ UNCHANGED <<content, usedSpace, head, used, hash, app>>
  BY <1>1, ObtainFacts
<1>3. /\ InFlight' = InFlight /\ \A t \in Segs : fill'[t] = IF t = s THEN 0 ELSE fill[t]
      /\ Fewer /\ s \notin ToSet(used)
  BY <1>0, <1>2, InUseFacts DEF InFlight, TypeOK, Fewer, NoneNew
<1>4. cl[c].pc # "finish" /\ cl'[c].pc \in {"scan", "walk"}
  BY <1>0, <1>1 DEF TypeOK, CleanerStates
<1>5. AppSound'
  <2>1. ASSUME app.pc = "publish" PROVE head # s
    <3>1. app.place # Null
      BY <2>1, PlaceFacts DEF HInv, AppSound
    <3> QED BY <1>2, <3>1, PlaceInHead DEF HInv
  <2>2. ASSUME app.pc = "publish" PROVE fill'[head] = fill[head]
    BY <1>3, <2>1, <2>2, <1>0 DEF HInv, AppSound, TypeOK
  <2> QED BY <1>2, <1>3, <2>2 DEF HInv, AppSound, Writing
<1>6. Hashed'
  <2>1. \A t \in Segs : InUse(t) => InUse(t)' /\ fill'[t] = fill[t]
    BY <1>2, <1>3
  <2> QED BY <1>2, <1>3, <2>1, HashedKept DEF Fewer
<1>7. Spaces(x)'
  <2>1. \A t \in Segs : Resetting(t)' <=> Resetting(t)
    BY <1>0, <1>4, ResettingKept
  <2>2. \A t \in Segs \ {s} : LiveCells(t)' \subseteq LiveCells(t)
    BY <1>3, FewerLive
  <2> QED BY <1>2, <2>1, <2>2, SpacesTaken
<1>8. Walks'
  <2>1. \A t \in ToSet(used) : content'[t] = content[t] /\ fill'[t] = fill[t]
    BY <1>2, <1>3, InUseFacts
  <2>2. WalkOK(c)'
    <3>1. CASE cl'[c].pc = "scan"
      BY <3>1 DEF WalkOK, OnWalk
    <3>2. CASE cl'[c].pc = "walk"
      <4>1. OnWalk(c) /\ cl'[c].cur = cl[c].cur /\ cl'[c].pos = cl[c].pos
        BY <1>0, <1>1, <3>2 DEF TypeOK, CleanerStates, OnWalk
      <4>2. cl[c].cur \in ToSet(used)
        BY <4>1, WalkCleans, CurUsed
      <4> QED BY <1>2, <1>3, <2>1, <3>2, <4>1, <4>2 DEF HInv, Walks, WalkOK, OnWalk
    <3> QED BY <1>4, <3>1, <3>2
  <2> QED BY <1>0, <1>2, <2>1, <2>2, WalksCleaner
<1> QED BY <1>5, <1>6, <1>7, <1>8 DEF HInv

(* A thread gives a segment back in which nothing is live any more.        *)
LEMMA ReclaimInv ==
    ASSUME IInv, Rows, AppEntry, HInv, NEW x \in Nat, Spaces(x),
           hazards = {}, NEW c \in Cleaners, Reclaim(c)
    PROVE  HInv' /\ Spaces(x)'
<1> USE DEF heapVars, listVars, lockVars
<1>0. TypeOK /\ CleanerStep(c) /\ InFlight' = InFlight
  BY DEF IInv, CleanerStep, Reclaim, InFlight
<1>1. PICK s \in Segs : s = cl[c].cur
  BY CurUsed DEF Reclaim, CleanerAt, Cleans
<1>2. /\ cl[c].pc = "reclaim" /\ cl'[c].pc = "finish" /\ cl'[c].cur = s /\ cl'[c].late = Late(s)
      /\ UNCHANGED <<content, fill, head, hash, app>>
  BY <1>0, <1>1 DEF Reclaim, CleanerAt, TypeOK
<1>3. \/ NeedsRefill /\ UNCHANGED usedSpace
      \/ ~NeedsRefill /\ usedSpace' = [usedSpace EXCEPT ![s] = 0]
  BY <1>1 DEF Reclaim
<1>4. ~InUse(s)' /\ \A t \in Segs \ {s} : InUse(t)' <=> InUse(t)
  BY <1>1, ReclaimFacts
<1>5. \A id \in Ids \ InFlight : hash[id] # Null => hash[id][1] # s /\ hash[id][1] \in Segs
  BY <1>0, <1>1, <1>2, HashPlace DEF HInv, Walks, WalkOK
<1>6. AppSound'
  BY <1>0, <1>2 DEF HInv, AppSound, Writing
<1>7. Hashed'
  <2> SUFFICES ASSUME NEW id \in Ids \ InFlight, hash[id] # Null PROVE SoundAt(hash[id], id)'
    BY <1>0, <1>2 DEF Hashed
  <2>1. SoundAt(hash[id], id)
    BY DEF HInv, Hashed
  <2>2. InUse(hash[id][1])'
    BY <1>2, <1>4, <1>5, <2>1 DEF SoundAt, InUse
  <2> QED BY <1>2, <2>1, <2>2 DEF SoundAt, At
<1>8. Spaces(x)'
  <2> SUFFICES ASSUME NEW t \in Segs PROVE SpaceOK(t, x)'
    BY DEF Spaces
  <2>1. CASE t = s
    <3>1. CASE NeedsRefill
      <4>1. Late(s) # "no"
        BY <3>1 DEF Late
      <4>2. Resetting(t)'
        BY <1>2, <2>1, <4>1 DEF Resetting
      <4>3. InUse(t) /\ ~Resetting(t)
        <5>1. InUse(t)
          BY <1>1, <1>2, <2>1, CurUsed DEF Cleans
        <5>2. ASSUME NEW d \in Cleaners, cl[d].pc = "finish", cl[d].cur = s PROVE FALSE
          BY <1>1, <1>2, <5>2 DEF IInv, ClaimsExclusive, Cleans
        <5> QED BY <2>1, <5>1, <5>2 DEF Resetting
      <4>4. usedSpace[t] <= fill[t] + x /\ fill[t] \in Nat /\ fill[t] <= Cap /\ usedSpace[t] \in Nat
        BY <1>0, <4>3, SlackFacts, SpaceTypes DEF Spaces, SpaceOK
      <4>5. usedSpace[t] <= Cap + x
        BY <4>4, ConstantFacts, SMT
      <4>6. usedSpace'[t] <= Cap + x
        BY <1>3, <3>1, <4>5
      <4> QED BY <1>4, <2>1, <4>2, <4>6 DEF SpaceOK, Slack
    <3>2. CASE ~NeedsRefill
      <4>1. usedSpace'[t] = 0
        BY <1>0, <1>3, <2>1, <3>2 DEF TypeOK
      <4>2. 0 <= Slack(t, x)'
        BY ConstantFacts, SMT DEF Slack
      <4> QED BY <1>4, <2>1, <4>1, <4>2 DEF SpaceOK
    <3> QED BY <3>1, <3>2
  <2>2. CASE t # s
    <3>1. usedSpace'[t] = usedSpace[t]
      BY <1>0, <1>3, <2>2 DEF TypeOK
    <3>2. SameUse(t)
      BY <1>0, <1>1, <1>2, <1>4, <2>2, ResettingKept DEF SameUse
    <3>3. LiveCells(t)' \subseteq LiveCells(t)
      BY <1>0, <1>2, FewerLive DEF Fewer, NoneNew
    <3> QED BY <1>0, <1>2, <3>1, <3>2, <3>3, SpaceKept, SpaceTypes DEF HInv, Spaces
  <2> QED BY <2>1, <2>2
<1>9. Walks'
  <2>1. WalkOK(c)'
    BY <1>2 DEF WalkOK, OnWalk
  <2> QED BY <1>0, <1>2, <2>1, WalksCleaner
<1> QED BY <1>6, <1>7, <1>8, <1>9 DEF HInv

(* The late reset of used_space finds the segment where it was put, or     *)
(* nothing written in it yet.                                              *)
LEMMA FinishInv ==
    ASSUME IInv, Rows, AppEntry, HInv, NEW x \in Nat, Spaces(x),
           hazards = {}, hazards' = {}, NEW c \in Cleaners, Finish(c)
    PROVE  HInv' /\ Spaces(x)'
<1> USE DEF heapVars, listVars, lockVars
<1>0. TypeOK /\ CleanerStep(c) /\ InFlight' = InFlight
  BY DEF IInv, CleanerStep, Finish, InFlight
<1>1. PICK s \in Segs : s = cl[c].cur
  BY DEF Finish, CleanerAt, IInv, TypeOK, CleanerStates, Shape
<1>2. /\ cl[c].pc = "finish" /\ GoTo(c, cl[c].nxt) /\ LateHazards(c) = {}
      /\ UNCHANGED <<content, fill, head, hash, app, free, emergency>>
      /\ usedSpace' = [usedSpace EXCEPT ![s] = IF cl[c].late = "no" THEN @ ELSE 0]
  BY <1>1 DEF Finish, CleanerAt
<1>3. cl'[c].pc \in {"scan", "test"} /\ WalkOK(c)'
  BY <1>0, <1>2, GoToFacts
<1>4. AppSound'
  BY <1>0, <1>2 DEF HInv, AppSound, Writing
<1>5. Hashed'
  BY <1>0, <1>2 DEF HInv, Hashed, SoundAt, At, InUse
<1>6. Walks'
  BY <1>0, <1>2, <1>3, WalksCleaner
<1>7. \A t \in Segs : InUse(t)' <=> InUse(t)
  BY <1>2 DEF InUse
<1>8. \A t \in Segs : LiveCells(t)' = LiveCells(t)
  BY <1>0, <1>2 DEF LiveCells
<1>9. ASSUME NEW t \in Segs, t # s \/ cl[c].late = "no" PROVE SpaceOK(t, x)'
  <2>1. usedSpace'[t] = usedSpace[t]
    BY <1>0, <1>2, <1>9 DEF TypeOK
  <2>2. Resetting(t)' <=> Resetting(t)
    <3>1. CASE t # s
      BY <1>0, <1>1, <1>3, <3>1, ResettingKept
    <3>2. CASE cl[c].late = "no"
      BY <1>0, <1>3, <3>2, OtherThreads DEF Resetting
    <3> QED BY <1>9, <3>1, <3>2
  <2> QED BY <1>0, <1>2, <1>7, <1>8, <2>1, <2>2, SpaceKept, SpaceTypes DEF HInv, Spaces, SameUse
<1>10. CASE cl[c].late # "no"
  <2>1. s \in ToSet(emergency) \/ fill[s] = 0
    BY <1>1, <1>2, <1>10 DEF LateHazards
  <2>2. usedSpace'[s] = 0
    BY <1>0, <1>2, <1>10 DEF TypeOK
  <2>3. ASSUME InUse(s)' PROVE LiveSpace(s)' = 0
    <3>1. fill[s] = 0
      BY <1>7, <2>1, <2>3 DEF InUse
    <3>2. LiveCells(s)' = {}
      <4>1. 0 .. 0 - 1 = {}
        BY SMT
      <4> QED BY <1>2, <3>1, <4>1 DEF LiveCells
    <3>3. LiveSpace(s)' = Cardinality(Area(content'[s], LiveCells(s)'))
      BY DEF LiveSpace, LiveArea, Area
    <3> QED BY <3>2, <3>3, AreaEmpty
  <2>5. 0 <= 0 /\ 0 <= fill'[s] + Slack(s, x)' /\ 0 <= Slack(s, x)'
    <3>1. fill'[s] \in Nat /\ Slack(s, x)' \in Nat
      <4>1. Slack(s, x)' \in Nat
        BY ConstantFacts DEF Slack
      <4> QED BY <1>0, <1>2, <4>1, SpaceTypes
    <3> QED BY <3>1, SMT
  <2>4. SpaceOK(s, x)'
    BY <2>2, <2>3, <2>5 DEF SpaceOK
  <2> QED BY <1>4, <1>5, <1>6, <1>9, <2>4 DEF HInv, Spaces
<1>11. CASE cl[c].late = "no"
  BY <1>4, <1>5, <1>6, <1>9, <1>11 DEF HInv, Spaces
<1> QED BY <1>10, <1>11

(* The entry a thread copies becomes the current version of its object.    *)
LEMMA CopyInv ==
    ASSUME IInv, Rows, AppEntry, HInv, NEW x \in Nat, Spaces(x), 2 * Cap + x < SizeMod,
           hazards = {}, hazards' = {}, NEW c \in Cleaners, Copy(c)
    PROVE  HInv' /\ Spaces(x)'
<1> USE DEF heapVars, listVars, lockVars
<1>0. TypeOK /\ CleanerStep(c) /\ cl[c].pc = "walk" /\ OnWalk(c)
  BY DEF IInv, CleanerStep, Copy, Visits, Resumes, CleanerAt, OnWalk
<1>1. PICK s \in Segs, t \in Segs, e \in Entry :
          /\ s = cl[c].seg /\ t = cl[c].cur /\ e = Visited(c)
          /\ e.len > 0 /\ InUse(s) /\ s \in ToSet(cleaning)
          /\ cl[c].pos \in Cells
  BY CopyFacts
<1>2. PICK k \in Cells : k = fill[s] /\ k + Size(e) \in 0 .. Cap
  BY <1>1, CopyFacts
<1>3. /\ HasRoom(s, e) /\ content' = Written(s, fill[s], e)
      /\ usedSpace' = [usedSpace EXCEPT ![s] = (@ + Size(e)) % SizeMod]
      /\ fill' = [fill EXCEPT ![s] = @ + Size(e)]
      /\ hash' = [hash EXCEPT ![e.id] = <<s, k>>]
      /\ cl' = [cl EXCEPT ![c].pos = @ + Size(e)]
      /\ UNCHANGED <<head, free, emergency, app>>
      /\ Kept(e) /\ cl[c].pos < fill[t]
  <2>1. cl[c].pos < fill[t]
    <3>1. ~(cl[c].pos >= fill[t])
      BY <1>1 DEF Copy, Overrun
    <3>2. cl[c].pos \in Nat /\ fill[t] \in Nat
      BY <1>0, <1>1, WalkPlace
    <3> QED BY <3>1, <3>2, SMT
  <2> QED BY <1>1, <1>2, <2>1 DEF Copy, Survives
<1>4. InFlight = {} /\ InFlight' = {} /\ ~app.locked
  <2>1. updateMove \in {None, c}
    BY DEF Copy, Visits, Resumes
  <2>2. updateMove # App
    BY <2>1, ConstantFacts
  <2> QED BY <1>3, <2>2 DEF IInv, Shape, InFlight
<1>5. /\ k \in Nat /\ Size(e) \in Nat /\ Size(e) >= 1 /\ k < k + Size(e)
      /\ s # t /\ t \in ToSet(used) /\ s \notin ToSet(used)
      /\ \A r \in ToSet(used) : r # s /\ r \in Segs
  <2>1. k \in Nat /\ Size(e) \in Nat /\ Size(e) >= 1
    BY ConstantFacts, EntryFacts
  <2>2. t \in ToSet(used) /\ t \notin ToSet(cleaning)
    BY <1>0, <1>1, WalkPlace
  <2>3. s \notin ToSet(used) /\ \A r \in ToSet(used) : r \in Segs
    BY <1>1 DEF IInv, SegmentsPartitioned
  <2> QED BY <1>1, <2>1, <2>2, <2>3, SMT
<1>6. \A id \in Ids : hash'[id] = IF id = e.id THEN <<s, k>> ELSE hash[id]
  BY <1>0, <1>3 DEF TypeOK
<1>7. \A r \in Segs : fill'[r] = IF r = s THEN k + Size(e) ELSE fill[r]
  BY <1>0, <1>2, <1>3 DEF TypeOK
<1>8. /\ content'[s][k] = e
      /\ \A r \in Segs \ {s} : content'[r] = content[r]
      /\ \A r \in Segs, p \in Cells : p < fill[r] => content'[r][p] = content[r][p]
  <2>1. \A p \in Cells : p < k => p # k /\ ~(p > k)
    BY <1>5, ConstantFacts, SMT
  <2> QED BY <1>0, <1>2, <1>3, <1>5, <2>1, WrittenCells
<1>9. \A r \in Segs : SameUse(r)
  <2>1. cl'[c].pc = "walk"
    BY <1>0, <1>3 DEF TypeOK
  <2> QED BY <1>0, <1>3, <2>1, ResettingKept DEF SameUse, InUse
<1>10. \A id \in Ids : hash[id] # Null =>
          /\ SoundAt(hash[id], id) /\ hash[id][1] \in Segs /\ hash[id][2] \in Cells
          /\ hash[id][2] < fill[hash[id][1]] /\ hash[id] = <<hash[id][1], hash[id][2]>>
  BY <1>0, <1>4, HashPlace DEF HInv, Hashed, SoundAt
<1>11. AppSound'
  <2>1. ASSUME app.pc = "publish"
        PROVE  head # s /\ head \in Segs /\ \E p \in Cells : p < fill[head] /\ app.place = <<head, p>>
    <3>1. app.place # Null
      BY <2>1, PlaceFacts DEF HInv, AppSound
    <3>2. head \in HeadSet /\ head \in Segs
           /\ \E p \in Cells : p < fill[head] /\ app.place = <<head, p>>
      BY <3>1, PlaceInHead DEF HInv
    <3> QED BY <1>1, <3>2 DEF IInv, SegmentsPartitioned
  <2>2. ASSUME app.pc = "publish"
        PROVE  fill'[head] = fill[head] /\ content'[head] = content[head]
    BY <1>7, <1>8, <2>1, <2>2
  <2>3. ASSUME app.pc = "publish"
        PROVE  \A id \in Ids : hash'[id] # app.place
    <3>1. PICK p \in Cells : app.place = <<head, p>>
      BY <2>1, <2>3
    <3>2. <<s, k>> # app.place
      BY <2>1, <2>3, <3>1
    <3> QED BY <1>4, <1>6, <2>3, <3>2 DEF HInv, AppSound
  <2> QED BY <1>3, <1>4, <2>2, <2>3 DEF HInv, AppSound, Writing
<1>12. Hashed'
  <2> SUFFICES ASSUME NEW id \in Ids, hash'[id] # Null PROVE SoundAt(hash[id], id)'
    BY DEF Hashed
  <2>1. CASE id = e.id
    <3>1. hash'[id] = <<s, k>> /\ hash'[id][1] = s /\ hash'[id][2] = k
      BY <1>6, <2>1
    <3>2. InUse(s)' /\ k < fill'[s]
      BY <1>1, <1>5, <1>7, <1>9 DEF SameUse
    <3>3. e # Data
      BY EntryFacts
    <3>4. InUse(hash[id][1])'
      BY <1>3, <1>1, <3>1 DEF InUse
    <3> QED BY <1>3, <1>8, <2>1, <3>1, <3>2, <3>3, <3>4 DEF SoundAt, At, Kept
  <2>2. CASE id # e.id
    <3>1. hash'[id] = hash[id] /\ hash[id] # Null
      BY <1>6, <2>2
    <3>2. hash[id][2] < fill'[hash[id][1]]
      <4>1. CASE hash[id][1] = s
        <5>1. hash[id][2] \in Nat /\ hash[id][2] < k
          BY <1>2, <1>10, <3>1, <4>1, ConstantFacts
        <5>2. hash[id][2] < k + Size(e)
          <6> DEFINE p == hash[id][2]
                     z == Size(e)
          <6>1. p \in Nat /\ p < k /\ k \in Nat /\ z \in Nat
            BY <1>5, <5>1
          <6> HIDE DEF p, z
          <6>2. p < k + z
            BY <6>1, SMT
          <6> QED BY <6>2 DEF p, z
        <5> QED BY <1>7, <4>1, <5>2
      <4>2. CASE hash[id][1] # s
        BY <1>7, <1>10, <3>1, <4>2
      <4> QED BY <4>1, <4>2
    <3>3. InUse(hash[id][1])'
      BY <1>3, <1>10, <3>1 DEF InUse, SoundAt
    <3> QED BY <1>8, <1>10, <3>1, <3>2, <3>3 DEF SoundAt, At
  <2> QED BY <2>1, <2>2
<1>13. Spaces(x)'
  <2>1. \A r \in Segs \ {s} : LiveCells(r)' \subseteq LiveCells(r)
    <3> SUFFICES ASSUME NEW r \in Segs \ {s}, NEW p \in LiveCells(r)' PROVE p \in LiveCells(r)
      OBVIOUS
    <3>1. p \in 0 .. fill[r] - 1
      BY <1>7 DEF LiveCells
    <3>2. app.place = <<r, p>> \/ \E id \in Ids : hash[id] = <<r, p>>
      BY <1>3, <1>4, <1>6 DEF LiveCells
    <3> QED BY <1>4, <3>1, <3>2 DEF LiveCells
  <2>2. LiveCells(s)' \subseteq LiveCells(s) \cup {fill[s]}
    <3> SUFFICES ASSUME NEW p \in LiveCells(s)', p # k PROVE p \in LiveCells(s)
      BY <1>2
    <3>1. app.place # <<s, p>>
      <4> SUFFICES ASSUME app.place = <<s, p>> PROVE FALSE
        OBVIOUS
      <4>1. head \in HeadSet /\ head = s
        BY PlaceFacts, PlaceInHead DEF HInv
      <4> QED BY <1>1, <4>1 DEF IInv, SegmentsPartitioned
    <3>2. PICK id \in Ids : hash[id] = <<s, p>>
      BY <1>3, <1>4, <1>6, <3>1 DEF LiveCells
    <3>3. p \in Cells /\ p < k
      <4>1. hash[id][1] = s /\ hash[id][2] = p /\ hash[id] # Null
        BY <3>2, PlaceFacts
      <4> QED BY <1>2, <1>10, <4>1
    <3>4. p \in 0 .. fill[s] - 1
      BY <1>2, <1>5, <3>3, CellBelow
    <3> QED BY <1>4, <3>2, <3>4 DEF LiveCells
  <2> QED BY <1>1, <1>3, <1>9, <2>1, <2>2, SpacesAdded
<1>14. Walks'
  <2>1. \A r \in ToSet(used) : content'[r] = content[r] /\ fill'[r] = fill[r]
    BY <1>5, <1>7, <1>8
  <2>2. \A id \in Ids \ InFlight :
           hash'[id] = hash[id] \/ (hash'[id] # Null /\ hash'[id][1] \notin ToSet(used))
    BY <1>5, <1>6, PlaceFacts
  <2>3. WalkOK(c)'
    <3>1. cl'[c].pc = "walk" /\ cl'[c].cur = t /\ cl'[c].pos = cl[c].pos + Size(e)
      BY <1>0, <1>1, <1>3 DEF TypeOK
    <3>2. /\ cl'[c].pos < fill[t] => content[t][cl'[c].pos] # Data
          /\ \A q \in Cells : content[t][q] # Data /\ q < fill[t] /\ q >= cl[c].pos =>
                q = cl[c].pos \/ q >= cl'[c].pos
      BY <1>0, <1>1, <1>3, <3>1, WalkOn
    <3>3. ASSUME NEW id \in Ids, hash'[id] # Null, hash'[id][1] = t
          PROVE  hash'[id][2] >= cl'[c].pos
      <4>1. id # e.id /\ hash'[id] = hash[id] /\ hash[id] # Null
        BY <1>5, <1>6, <3>3
      <4>2. /\ hash[id][2] >= cl[c].pos /\ hash[id][2] < fill[t] /\ hash[id][2] \in Cells
            /\ At(hash[id]) = content[t][hash[id][2]] /\ At(hash[id]) # Data /\ At(hash[id]).id = id
        BY <1>0, <1>1, <1>4, <1>10, <3>3, <4>1 DEF HInv, Walks, WalkOK, SoundAt, At
      <4>3. hash[id][2] # cl[c].pos
        BY <1>1, <4>1, <4>2 DEF Visited
      <4> QED BY <3>2, <4>1, <4>2, <4>3
    <3>4. fill'[t] = fill[t] /\ content'[t] = content[t]
      BY <1>5, <2>1
    <3> QED BY <3>1, <3>2, <3>3, <3>4 DEF WalkOK, OnWalk
  <2> QED BY <1>0, <1>3, <2>1, <2>2, <2>3, WalksCleaner
<1> QED BY <1>11, <1>12, <1>13, <1>14 DEF HInv

LEMMA CleanerInv ==
    ASSUME IInv, Rows, AppEntry, HInv, NEW x \in Nat, Spaces(x), 2 * Cap + x < SizeMod,
           hazards = {}, hazards' = {},
           NEW c \in Cleaners, CleanerStep(c)
    PROVE  HInv' /\ Spaces(x)'
<1> USE DEF heapVars, listVars, lockVars
<1>0. TypeOK
  BY DEF IInv
<1>1. CASE StartCleaning(c) \/ FindFull(c) \/ Retire(c) \/ Advance(c)
  <2>1. /\ UNCHANGED <<content, fill, usedSpace, free, emergency, hash, app, head>>
        /\ cl[c].pc \in {"wait", "walk", "retire", "advance"}
    BY <1>1 DEF StartCleaning, FindFull, Retire, Advance, CleanerAt, Visits
  <2>2. \/ cl[c].pc = "wait" /\ cl'[c].pc = "first"
        \/ OnWalk(c) /\ cl'[c].pc \in {"retire", "refill"}
           /\ cl'[c].cur = cl[c].cur /\ cl'[c].pos = cl[c].pos
        \/ cl[c].pc = "advance" /\ cl'[c].pc = "reclaim" /\ cl'[c].cur = cl[c].cur
    BY <1>0, <1>1 DEF StartCleaning, FindFull, Retire, Advance, CleanerAt, Visits, TypeOK,
       CleanerStates, OnWalk
  <2>3. InFlight' = InFlight
    BY <2>1 DEF InFlight
  <2>4. WalkOK(c)'
    BY <2>1, <2>2, <2>3 DEF HInv, Walks, WalkOK, OnWalk
  <2>5. cl'[c].pc # "finish"
    BY <2>2
  <2> QED BY <2>1, <2>4, <2>5, CleanerFrame
<1>2. CASE BeginScan(c) \/ Skip(c)
  <2>1. /\ UNCHANGED <<content, fill, usedSpace, free, emergency, hash, app, head>>
        /\ cl[c].pc \in {"scan", "test"} /\ \E s : GoTo(c, s)
    BY <1>2 DEF BeginScan, Skip, CleanerAt
  <2>2. cl'[c].pc # "finish" /\ WalkOK(c)'
    BY <1>0, <2>1, GoToFacts
  <2> QED BY <2>1, <2>2, CleanerFrame
<1>3. CASE Misread(c)
  BY <1>3 DEF Misread, Meet
<1>4. CASE ReclaimNothing(c)
  BY <1>4, CurUsed DEF ReclaimNothing, CleanerAt, Cleans
<1> QED
  BY <1>1, <1>2, <1>3, <1>4, TakeInv, ClaimInv, EndWalkInv, DropInv, CopyInv, ReclaimInv, FinishInv
     DEF CleanerStep

-----------------------------------------------------------------------------
(* The inductive invariant and what it says of the hash table.             *)

CInv == IInv /\ AppEntry /\ Rows /\ (hazards = {} => HInv /\ Spaces(0))

LEMMA CInvInit ==
    ASSUME Init
    PROVE  CInv
<1>1. IInv
  BY InitType, InitInv DEF IInv
<1>2. AppEntry /\ AppSound
  BY DEF Init, Idle, AppEntry, AppSound, Writing
<1>3. \A s \in Segs : fill[s] = 0 /\ usedSpace[s] = 0
  BY DEF Init
<1>4. Rows
  <2>1. \A p \in Cells : ~(p < 0)
    BY ConstantFacts, SMT
  <2> QED BY <1>3, <2>1 DEF Rows, Row, RowOf
<1>5. Hashed /\ Walks
  BY DEF Init, Hashed, Walks, WalkOK, OnWalk
<1>6. Spaces(0)
  <2> SUFFICES ASSUME NEW s \in Segs PROVE LiveSpace(s) = 0
    <3>1. 0 <= 0 /\ \A t : 0 <= 0 + Slack(t, 0) /\ 0 <= Slack(t, 0)
      BY NoSlack, SlackFacts, SMT
    <3> QED BY <1>3, <3>1 DEF Spaces, SpaceOK
  <2>1. LiveCells(s) = {}
    <3>1. 0 .. 0 - 1 = {}
      BY SMT
    <3> QED BY <1>3, <3>1 DEF LiveCells
  <2>2. LiveSpace(s) = Cardinality(Area(content[s], LiveCells(s)))
    BY DEF LiveSpace, LiveArea, Area
  <2> QED BY <2>1, <2>2, AreaEmpty
<1> QED BY <1>1, <1>2, <1>4, <1>5, <1>6 DEF CInv, HInv

LEMMA CInvStutter ==
    ASSUME CInv, UNCHANGED vars
    PROVE  CInv'
<1> USE DEF vars, heapVars, listVars, lockVars
<1>1. IInv'
  BY Stutter DEF CInv
<1>2. AppEntry' /\ Rows' /\ AppSound' = AppSound /\ Hashed' = Hashed /\ Walks' = Walks
  BY DEF CInv, AppEntry, Writing, Rows, Row, InUse, AppSound, InFlight, Hashed, SoundAt, At,
     Walks, WalkOK, OnWalk
<1>3. Spaces(0)' = Spaces(0)
  BY DEF Spaces, SpaceOK, Slack, Resetting, InUse, LiveSpace, LiveArea, LiveCells, InFlight
<1> QED BY <1>1, <1>2, <1>3 DEF CInv, HInv

LEMMA CInvStep ==
    ASSUME CInv, [Next]_vars
    PROVE  CInv'
<1>1. CASE UNCHANGED vars
  BY <1>1, CInvStutter
<1>2. CASE Next
  <2>1. IInv'
    BY <1>2, ClientStep, ThreadStep DEF CInv, Next
  <2>2. AppEntry'
    BY <1>2, AppEntryStep DEF CInv
  <2>3. Rows'
    BY <1>2, RowsClient, RowsCleaner DEF CInv, Next
  <2>4. ASSUME hazards' = {} PROVE (HInv /\ Spaces(0))'
    <3>1. hazards = {}
      BY <2>4, HazardsGrow
    <3> QED BY <1>2, <2>4, <3>1, NoSlack, NewCallInv, CallStepInv, CleanerInv DEF CInv, Next
  <2> QED BY <2>1, <2>2, <2>3, <2>4 DEF CInv
<1> QED BY <1>1, <1>2

(* The inductive invariant holds in every state the heap can reach.        *)
THEOREM CurrentVersionsKept == Spec => []CInv
<1>1. Init => CInv
  BY CInvInit
<1>2. CInv /\ [Next]_vars => CInv'
  BY CInvStep
<1> QED BY <1>1, <1>2, PTL DEF Spec

(* What the hash table points to, in one state.                            *)
LEMMA SoundHash ==
    ASSUME IInv, Rows, HInv
    PROVE  HashSound
<1> SUFFICES ASSUME hazards = {}, NEW id \in Ids \ InFlight, hash[id] # Null
             PROVE  /\ Stored(hash[id])
                    /\ At(hash[id]).id = id /\ ~At(hash[id]).del /\ At(hash[id]).len > 0
  BY DEF HashSound
<1> DEFINE s == hash[id][1]
           p == hash[id][2]
<1>1. IInv /\ TypeOK /\ Rows /\ SoundAt(hash[id], id)
  BY DEF HInv, Hashed, IInv
<1>2. s \in Segs /\ p \in Cells /\ At(hash[id]) = content[s][p]
  BY <1>1, HashPlace DEF At
<1>3. InUse(s) /\ p < fill[s] /\ content[s][p] # Data
  BY <1>1, <1>2 DEF SoundAt
<1>4. InLog(s)
  <2>1. s \in HeadSet \cup ToSet(used) \cup ToSet(cleaning)
    BY <1>1, <1>2, <1>3 DEF IInv, SegmentsPartitioned, InUse
  <2> QED BY <2>1 DEF HeadSet, InLog
<1>5. content[s][p].len > 0
  <2>1. RowOf(content[s], fill[s])
    BY <1>1, <1>2, <1>3 DEF Rows, Row
  <2> QED BY <1>2, <1>3, <2>1 DEF RowOf
<1> QED BY <1>1, <1>2, <1>4, <1>5 DEF SoundAt, Stored

LEMMA CInvSound ==
    ASSUME CInv
    PROVE  HashSound
  BY SoundHash DEF CInv, HashSound

(* As long as no hazard has struck, every object that no call is about to  *)
(* replace or remove is where the hash table says: its entry is live, and  *)
(* no cleaner has given back the segment it is in (cleaner.c:77-185,       *)
(* 341-410, log.c:62-117, log_pmem.c:194-320).                             *)
THEOREM HashTableSound == Spec => []HashSound
<1>1. CInv => HashSound
  BY CInvSound
<1> QED BY <1>1, CurrentVersionsKept, PTL

(* Whatever goes wrong, the written part of a segment in use is a row of   *)
(* entries, back to back and none of length 0, the one at which a walk     *)
(* would stop: the walk over it meets every entry (log.c:62-117,           *)
(* cleaner.c:77-160).                                                      *)
THEOREM EntriesBackToBack == Spec => []Rows
<1>1. CInv => Rows
  BY DEF CInv
<1> QED BY <1>1, CurrentVersionsKept, PTL
=============================================================================
