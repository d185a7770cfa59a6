--------------------------- MODULE VersionProofs ---------------------------
(***************************************************************************)
(* The versions of an object in the log.  A client that does not give an   *)
(* object an id it has freed leaves, of every object, at most one unmarked *)
(* entry as new as the one the hash table points to: that one.  This is    *)
(* what the cleaner's version test (cleaner.c:118-127) relies on, and what *)
(* the exact used_space and the client's view of the heap rest on.         *)
(***************************************************************************)
EXTENDS HashSoundProofs

(* The client does not give an id to palloc_with_id that it has freed.     *)
NoRebirth == WithIds \cap FreeIds = {}

(* The objects that may have more than one version.                        *)
Changing == UpdIds \cup WithIds

(* The entries that a cleaner has yet to look at, and that it would have   *)
(* to copy if they were the current version of their object.               *)
Claims(c) == Cleans(c) /\ cl[c].pc # "finish"
Passed(s, p) == \E c \in Cleaners : Claims(c) /\ cl[c].cur = s /\ (OnWalk(c) => p < cl[c].pos)
Valid(s, p) ==
    /\ InUse(s) /\ p < fill[s] /\ content[s][p] # Data /\ ~content[s][p].del
    /\ ~Passed(s, p) /\ <<s, p>> # app.place

(* An object that was freed, of which older versions are left: its id      *)
(* never comes back.                                                       *)
Gone(id) == id \in Changing \cap FreeIds /\ id < nextId

(* Such an entry is the current version of its object, or an older version *)
(* of an object that has changed since.                                    *)
VersionOK(s, p, e) ==
    /\ e.id \in Ids
    /\ e.id \notin InFlight /\ hash[e.id] # Null =>
          hash[e.id] = <<s, p>> \/ (e.id \in Changing /\ e.ver < At(hash[e.id]).ver)
    /\ e.id \in InFlight /\ Writing => e.id \in Changing /\ e.ver < app.entry.ver
    /\ (e.id \in InFlight /\ ~Writing) \/ hash[e.id] = Null => Gone(e.id)
    /\ Writing /\ ~app.locked => e.id # app.id
Ordered == \A s \in Segs, p \in Cells : Valid(s, p) => VersionOK(s, p, content[s][p])

(* Ids that gen_id has not reached are those the client chooses.           *)
Known == \A id \in Ids \ WithIds : id >= nextId => hash[id] = Null /\ (app.pc = "idle" \/ app.id # id)

(* A call that creates an object holds no lock, and there is no such       *)
(* object until it returns; a call that removes or replaces one does.      *)
Calls ==
    /\ Writing /\ ~app.locked => hash[app.id] = Null
    /\ Writing /\ app.locked => app.id \in Changing
    /\ app.pc = "unmap" => app.locked

NInv == Ordered /\ Known /\ Calls

-----------------------------------------------------------------------------
(* Steps that add no entry to look at and change no version.               *)

LEMMA IdNat == Ids \subseteq Nat
  BY ConstantFacts, SMT DEF Ids

LEMMA CurrentCell ==
    ASSUME IInv, HInv, NEW id \in Ids \ InFlight, hash[id] # Null
    PROVE  /\ hash[id][1] \in Segs /\ hash[id][2] \in Cells /\ hash[id] = <<hash[id][1], hash[id][2]>>
           /\ InUse(hash[id][1]) /\ hash[id][2] < fill[hash[id][1]]
           /\ At(hash[id]) = content[hash[id][1]][hash[id][2]]
           /\ At(hash[id]) # Data /\ At(hash[id]).id = id /\ ~At(hash[id]).del
           /\ At(hash[id]) \in Entry
<1>1. SoundAt(hash[id], id) /\ TypeOK
  BY DEF HInv, Hashed, IInv
<1>2. hash[id][1] \in Segs /\ hash[id][2] \in Cells /\ hash[id] = <<hash[id][1], hash[id][2]>>
  BY <1>1, HashPlace
<1>3. At(hash[id]) \in Cell
  BY <1>1, HashPlace, AtType
<1> QED BY <1>1, <1>2, <1>3 DEF SoundAt, At, Cell

(* The current versions stay where they are.                               *)
CurrentKept ==
    \A id \in Ids \ InFlight : hash[id] # Null =>
        content'[hash[id][1]][hash[id][2]] = content[hash[id][1]][hash[id][2]]

LEMMA WholeCurrent ==
    ASSUME IInv, HInv, Whole
    PROVE  CurrentKept
  BY CurrentCell DEF Whole, CurrentKept

(* Nothing that an entry is compared with changes.                         *)
LEMMA VersionFrame ==
    ASSUME NEW s, NEW p, NEW e, VersionOK(s, p, e), CurrentKept,
           UNCHANGED <<hash, nextId>>, app'.id = app.id, app'.entry = app.entry,
           app'.locked = app.locked, Writing' <=> Writing
    PROVE  VersionOK(s, p, e)'
<1>1. InFlight' = InFlight
  BY DEF InFlight
<1>2. e.id \in Ids /\ (Gone(e.id)' <=> Gone(e.id))
  BY DEF VersionOK, Gone
<1>3. e.id \notin InFlight /\ hash[e.id] # Null =>
         content'[hash[e.id][1]][hash[e.id][2]] = content[hash[e.id][1]][hash[e.id][2]]
  BY <1>2 DEF CurrentKept
<1> QED BY <1>1, <1>2, <1>3 DEF VersionOK, At

(* The place of a valid entry is one that was written before; of any entry *)
(* it is one of those, or where the step writes an entry.                  *)
LEMMA ValidBefore ==
    ASSUME UNCHANGED cl, NEW s, NEW p, InUse(s)' => InUse(s), p < fill[s],
           content'[s][p] = content[s][p], <<s, p>> # app.place, Valid(s, p)'
    PROVE  Valid(s, p)
  BY DEF Valid, Passed, Claims, Cleans, OnWalk

LEMMA CellAdded ==
    ASSUME TypeOK, NEW t \in Segs, NEW e \in Entry, HasRoom(t, e), content' = Written(t, fill[t], e),
           fill' = [fill EXCEPT ![t] = @ + Size(e)],
           NEW s \in Segs, NEW p \in Cells, p < fill'[s], content'[s][p] # Data
    PROVE  \/ s = t /\ p = fill[t] /\ content'[s][p] = e
           \/ p < fill[s] /\ content'[s][p] = content[s][p]
<1>1. /\ p < fill'[s] /\ content'[s][p] # Data
      /\ fill'[s] = IF s = t THEN fill[t] + Size(e) ELSE fill[s]
  BY DEF TypeOK
<1>2. p \in Nat /\ fill[t] \in Nat /\ Size(e) \in Nat
  BY ConstantFacts, RowTypes, EntryFacts
<1>3. CASE s # t
  BY <1>1, <1>3, WrittenCells
<1>4. CASE s = t
  <2>1. p < fill[t] + Size(e)
    BY <1>1, <1>4
  <2>2. /\ p = fill[t] \/ (p > fill[t] /\ p < fill[t] + Size(e)) \/ (p < fill[t] /\ ~(p > fill[t]))
        /\ p > fill[t] \/ p < fill[t] => p # fill[t]
    <3> DEFINE z == Size(e)
               k == fill[t]
    <3>1. p < k + z /\ k \in Nat /\ z \in Nat
      BY <1>2, <2>1
    <3> HIDE DEF z, k
    <3>2. /\ p = k \/ (p > k /\ p < k + z) \/ (p < k /\ ~(p > k))
          /\ p > k \/ p < k => p # k
      BY <1>2, <3>1, SMT
    <3> QED BY <3>2 DEF z, k
  <2>3. ~(p > fill[t] /\ p < fill[t] + Size(e))
    BY <1>1, <1>4, <2>2, WrittenCells
  <2>4. p < fill[t] => p # fill[t]
    BY <2>2
  <2> QED BY <1>4, <2>2, <2>3, <2>4, WrittenCells
<1> QED BY <1>3, <1>4

-----------------------------------------------------------------------------
(* The client's steps.                                                     *)

LEMMA NewestCreate ==
    ASSUME IInv, HInv, NInv, AppAt("idle"), NEW id \in Ids, NEW len \in Lens,
           Call(id, NewEntry(id, 1, len), FALSE), hash[id] = Null, nextId' \in Nat, nextId' >= nextId,
           ~Gone(id), id \in WithIds \/ id < nextId',
           UNCHANGED <<heapVars, free, emergency, hash, cl>>
    PROVE  NInv'
<1> USE DEF heapVars
<1>1. InFlight = {} /\ app.place = Null /\ app.pc = "idle" /\ ~Writing /\ TypeOK /\ nextId \in Nat
  BY IdleFacts DEF AppAt, Writing, IInv, TypeOK
<1>2. /\ app'.pc = "append" /\ app'.id = id /\ app'.locked = FALSE /\ app'.place = Null
      /\ InFlight' = {}
  BY DEF Call, InFlight
<1>3. \A j : Gone(j) => Gone(j)'
  <2> SUFFICES ASSUME NEW j, j \in Changing \cap FreeIds, j < nextId PROVE j < nextId'
    BY DEF Gone
  <2>1. j \in Nat
    BY ClientAssumption, IdNat
  <2> QED BY <1>1, <2>1, SMT
<1>4. Ordered'
  <2> SUFFICES ASSUME NEW s \in Segs, NEW p \in Cells, Valid(s, p)'
               PROVE  VersionOK(s, p, content[s][p])'
    BY DEF Ordered
  <2>1. Valid(s, p)
    BY <1>1, PlaceFacts, ValidBefore DEF InUse, Valid
  <2>2. PICK e : e = content[s][p]
    OBVIOUS
  <2>3. VersionOK(s, p, e)
    BY <2>1, <2>2 DEF NInv, Ordered
  <2>4. e.id # id
    BY <1>1, <2>3 DEF VersionOK
  <2>5. VersionOK(s, p, e)'
    BY <1>1, <1>2, <1>3, <2>3, <2>4 DEF VersionOK, At
  <2> QED BY <2>2, <2>5
<1>5. Known'
  <2> SUFFICES ASSUME NEW j \in Ids \ WithIds, j >= nextId' PROVE hash[j] = Null /\ id # j
    BY <1>2 DEF Known
  <2>1. j \in Nat /\ id \in Nat
    BY IdNat
  <2>2. j >= nextId /\ ~(j < nextId')
    BY <1>1, <2>1, SMT
  <2> QED BY <2>2 DEF NInv, Known
<1>6. Calls'
  BY <1>2 DEF Calls, Writing
<1> QED BY <1>4, <1>5, <1>6 DEF NInv

(* update_data: every version left is older than the one to be written.    *)
LEMMA NewestUpdate ==
    ASSUME IInv, HInv, NInv, NEW len \in Lens, NEW id \in Changing, BeginUpdate(id, len)
    PROVE  NInv'
<1>0. id \in Ids /\ hash[id] # Null /\ AppAt("idle")
  BY ClientAssumption DEF BeginUpdate, Changing
<1>1. InFlight = {} /\ app.place = Null /\ app.pc = "idle" /\ ~Writing /\ TypeOK
  BY <1>0, IdleFacts DEF AppAt, Writing, IInv
<1>2. /\ app'.pc = "append" /\ app'.id = id /\ app'.locked = TRUE /\ app'.place = Null
      /\ app'.entry = Successor(At(hash[id]), len) /\ InFlight' = {id} /\ Writing'
      /\ UNCHANGED <<content, fill, free, emergency, hash, cl, nextId>>
  BY DEF BeginUpdate, Call, InFlight, listVars, Writing
<1>3. At(hash[id]).ver \in Nat /\ app'.entry.ver = At(hash[id]).ver + 1
  <2>1. At(hash[id]) \in Entry
    BY <1>0, <1>1, CurrentCell
  <2>2. At(hash[id]).ver \in Nat
    BY <2>1 DEF Entry
  <2> QED BY <1>2, <2>1, <2>2 DEF Successor, Entry
<1>4. Ordered'
  <2> SUFFICES ASSUME NEW s \in Segs, NEW p \in Cells, Valid(s, p)'
               PROVE  VersionOK(s, p, content[s][p])'
    BY DEF Ordered
  <2>1. Valid(s, p)
    BY <1>1, <1>2, PlaceFacts, ValidBefore DEF InUse, Valid
  <2>2. PICK e \in Entry : e = content[s][p]
    <3>1. content[s][p] \in Cell /\ content[s][p] # Data
      BY <1>1, <2>1, RowTypes DEF Valid
    <3> QED BY <3>1 DEF Cell
  <2>3. VersionOK(s, p, e) /\ e.ver \in Nat
    BY <2>1, <2>2 DEF NInv, Ordered, Entry
  <2>4. CASE e.id = id
    <3>1. e.ver <= At(hash[id]).ver
      <4>1. CASE hash[id] = <<s, p>>
        <5>1. At(hash[id]) = e
          BY <1>0, <1>1, <2>2, <4>1, CurrentCell
        <5> QED BY <2>3, <5>1, SMT
      <4>2. CASE hash[id] # <<s, p>>
        <5>1. e.ver < At(hash[id]).ver
          BY <1>0, <1>1, <2>3, <2>4, <4>2 DEF VersionOK
        <5> QED BY <1>3, <2>3, <5>1, SMT
      <4> QED BY <4>1, <4>2
    <3>2. e.ver < app'.entry.ver
      <4> DEFINE x == e.ver
                 y == At(hash[id]).ver
      <4>1. x \in Nat /\ y \in Nat /\ x <= y
        BY <1>3, <2>3, <3>1
      <4> HIDE DEF x, y
      <4>2. x < y + 1
        BY <4>1, SMT
      <4> QED BY <1>3, <4>2 DEF x, y
    <3> QED BY <1>0, <1>2, <2>2, <2>4, <3>2 DEF VersionOK
  <2>5. CASE e.id # id
    <3>1. VersionOK(s, p, e)'
      BY <1>1, <1>2, <2>3, <2>5 DEF VersionOK, At, Gone
    <3> QED BY <1>2, <2>2, <3>1
  <2> QED BY <2>4, <2>5
<1>5. Known'
  <2> SUFFICES ASSUME NEW j \in Ids \ WithIds, j >= nextId PROVE hash[j] = Null /\ id # j
    BY <1>2 DEF Known
  <2> QED BY <1>0 DEF NInv, Known
<1>6. Calls'
  BY <1>2 DEF Calls, Writing
<1> QED BY <1>4, <1>5, <1>6 DEF NInv

(* pfree: the current version is marked, the older ones are not.           *)
LEMMA NewestFree ==
    ASSUME NoRebirth, IInv, HInv, NInv, NEW id \in FreeIds, BeginFree(id)
    PROVE  NInv'
<1>0. id \in Ids /\ hash[id] # Null /\ AppAt("idle")
  BY ClientAssumption DEF BeginFree
<1>1. InFlight = {} /\ app.place = Null /\ app.pc = "idle" /\ ~Writing /\ TypeOK /\ nextId \in Nat
  BY <1>0, IdleFacts DEF AppAt, Writing, IInv, TypeOK
<1>2. /\ app'.pc = "unmap" /\ app'.id = id /\ app'.locked = TRUE /\ app'.place = Null
      /\ InFlight' = {id} /\ ~Writing' /\ content' = Marked(hash[id])
      /\ UNCHANGED <<fill, free, emergency, hash, cl, nextId>>
  BY DEF BeginFree, Idle, InFlight, listVars, Writing
<1>3. \A s \in Segs, p \in Cells :
         IF <<s, p>> = hash[id] THEN content'[s][p] = Data \/ content'[s][p].del
         ELSE content'[s][p] = content[s][p]
  <2>1. hash[id] \in Places
    BY <1>0, <1>1, HashPlace
  <2> QED BY <1>1, <1>2, <2>1, MarkedCells
<1>4. Ordered'
  <2> SUFFICES ASSUME NEW s \in Segs, NEW p \in Cells, Valid(s, p)'
               PROVE  VersionOK(s, p, content[s][p])'
    BY DEF Ordered
  <2>1. <<s, p>> # hash[id] /\ content'[s][p] = content[s][p]
    BY <1>3 DEF Valid
  <2>2. Valid(s, p)
    BY <1>1, <1>2, <2>1, PlaceFacts, ValidBefore DEF InUse, Valid
  <2>3. PICK e : e = content[s][p]
    OBVIOUS
  <2>4. VersionOK(s, p, e)
    BY <2>2, <2>3 DEF NInv, Ordered
  <2>5. CASE e.id = id
    <3>1. id \in Changing
      BY <1>0, <1>1, <2>1, <2>4, <2>5 DEF VersionOK
    <3>2. id \notin WithIds /\ id < nextId
      <4>1. id \notin WithIds
        BY DEF NoRebirth
      <4>2. ~(id >= nextId)
        BY <1>0, <4>1 DEF NInv, Known
      <4> QED BY <1>0, <1>1, <4>1, <4>2, IdNat, SMT
    <3>3. Gone(id)'
      BY <1>2, <3>1, <3>2 DEF Gone
    <3>4. VersionOK(s, p, e)'
      BY <1>0, <1>2, <2>5, <3>3 DEF VersionOK
    <3> QED BY <2>1, <2>3, <3>4
  <2>6. CASE e.id # id
    <3>1. hash[e.id] # Null => content'[hash[e.id][1]][hash[e.id][2]] = content[hash[e.id][1]][hash[e.id][2]]
      <4> SUFFICES ASSUME hash[e.id] # Null
                   PROVE  content'[hash[e.id][1]][hash[e.id][2]] = content[hash[e.id][1]][hash[e.id][2]]
        OBVIOUS
      <4>1. e.id \in Ids \ InFlight
        BY <1>1, <2>4 DEF VersionOK
      <4>2. hash[e.id] # hash[id]
        BY <1>0, <1>1, <2>6, <4>1, CurrentCell
      <4>3. PICK r \in Segs, q \in Cells : hash[e.id] = <<r, q>>
        BY <4>1, CurrentCell
      <4> QED BY <1>3, <4>2, <4>3
    <3>2. VersionOK(s, p, e)'
      BY <1>1, <1>2, <2>4, <2>6, <3>1 DEF VersionOK, At, Gone
    <3> QED BY <2>1, <2>3, <3>2
  <2> QED BY <2>5, <2>6
<1>5. Known'
  <2> SUFFICES ASSUME NEW j \in Ids \ WithIds, j >= nextId PROVE hash[j] = Null /\ id # j
    BY <1>2 DEF Known
  <2> QED BY <1>0 DEF NInv, Known
<1>6. Calls'
  BY <1>2 DEF Calls
<1> QED BY <1>4, <1>5, <1>6 DEF NInv

LEMMA NewestNewCall ==
    ASSUME NoRebirth, IInv, HInv, NInv, NewCall
    PROVE  NInv'
<1>0. nextId \in Nat /\ TypeOK
  BY DEF IInv, TypeOK
<1>1. ASSUME NEW len \in Lens, BeginPalloc(len) PROVE NInv'
  <2>1. PICK id \in GenId : nextId' = id + 1 /\ Call(id, NewEntry(id, 1, len), FALSE)
    BY <1>1 DEF BeginPalloc
  <2>2. id \in Ids /\ id >= nextId /\ hash[id] = Null
    BY DEF GenId, FreshIds
  <2>3. nextId' \in Nat /\ nextId' >= nextId /\ id < nextId' /\ ~(id < nextId)
    BY <1>0, <2>1, <2>2, IdNat, SMT
  <2>4. AppAt("idle") /\ UNCHANGED <<heapVars, free, emergency, hash, cl>>
    BY <1>1 DEF BeginPalloc, listVars
  <2> QED BY <2>1, <2>2, <2>3, <2>4, NewestCreate DEF Gone
<1>2. ASSUME NEW len \in Lens, NEW id \in WithIds, BeginPallocWithId(id, len) PROVE NInv'
  <2>1. /\ id \in Ids /\ hash[id] = Null /\ Call(id, NewEntry(id, 1, len), FALSE)
        /\ AppAt("idle") /\ UNCHANGED <<heapVars, free, emergency, hash, cl, nextId>>
    BY <1>2, ClientAssumption DEF BeginPallocWithId, listVars
  <2>2. ~Gone(id)
    BY DEF NoRebirth, Gone
  <2>3. nextId' \in Nat /\ nextId' >= nextId
    BY <1>0, <2>1, SMT
  <2> QED BY <2>1, <2>2, <2>3, NewestCreate
<1> QED BY <1>1, <1>2, NewestUpdate, NewestFree DEF NewCall, Changing

LEMMA WrittenWhole ==
    ASSUME TypeOK, NEW t \in Segs, NEW e, content' = Written(t, fill[t], e)
    PROVE  Whole
<1> SUFFICES ASSUME NEW s \in Segs, NEW p \in Cells, p < fill[s]
             PROVE  content'[s][p] = content[s][p]
  BY DEF Whole
<1>1. p \in Nat /\ fill[s] \in Nat
  BY ConstantFacts, RowTypes
<1>2. p # fill[s] /\ ~(p > fill[s])
  <2> DEFINE k == fill[s]
  <2>1. p \in Nat /\ k \in Nat /\ p < k
    BY <1>1
  <2> HIDE DEF k
  <2>2. p # k /\ ~(p > k)
    BY <2>1, SMT
  <2> QED BY <2>2 DEF k
<1> QED BY <1>2, WrittenCells

(* A call goes on without changing the hash table.                         *)
LEMMA NewestGoesOn ==
    ASSUME IInv, HInv, NInv, Whole, UNCHANGED <<cl, hash, nextId>>, Writing, Writing',
           app'.id = app.id, app'.entry = app.entry, app'.locked = app.locked,
           \A s \in Segs, p \in Cells :
               Valid(s, p)' => /\ p < fill[s] /\ InUse(s) /\ <<s, p>> # app.place
                               /\ content'[s][p] = content[s][p]
    PROVE  NInv'
<1>1. CurrentKept
  BY WholeCurrent
<1>2. Ordered'
  <2> SUFFICES ASSUME NEW s \in Segs, NEW p \in Cells, Valid(s, p)'
               PROVE  VersionOK(s, p, content[s][p])'
    BY DEF Ordered
  <2>1. Valid(s, p) /\ content'[s][p] = content[s][p]
    BY ValidBefore
  <2>2. PICK e : e = content[s][p]
    OBVIOUS
  <2>3. VersionOK(s, p, e)
    BY <2>1, <2>2 DEF NInv, Ordered
  <2>4. VersionOK(s, p, e)'
    BY <1>1, <2>3, VersionFrame
  <2> QED BY <2>1, <2>2, <2>4
<1>3. Known'
  BY DEF NInv, Known, Writing
<1>4. Calls'
  BY DEF NInv, Calls, Writing
<1> QED BY <1>2, <1>3, <1>4 DEF NInv

LEMMA NewestAppends ==
    ASSUME IInv, AppEntry, HInv, NInv, WriteEntry \/ SealHead \/ TakeHead
    PROVE  NInv'
<1> USE DEF heapVars, listVars, lockVars
<1>0. TypeOK /\ app \in AppStates /\ AppSound
  BY DEF IInv, TypeOK, HInv
<1>1. /\ Writing /\ Writing' /\ UNCHANGED <<cl, hash, nextId>>
      /\ app'.id = app.id /\ app'.entry = app.entry /\ app'.locked = app.locked
  BY <1>0 DEF WriteEntry, SealHead, TakeHead, NeedsHead, AppAt, Writing, AppStates
<1>2. app.place = Null
  BY <1>0 DEF WriteEntry, SealHead, TakeHead, NeedsHead, AppAt, AppSound
<1>3. CASE WriteEntry
  <2>1. /\ head \in Segs /\ HasRoom(head, app.entry) /\ app.entry \in Entry
        /\ content' = Written(head, fill[head], app.entry)
        /\ fill' = [fill EXCEPT ![head] = @ + Size(app.entry)]
        /\ app'.place = <<head, fill[head]>> /\ UNCHANGED <<free, emergency>>
    BY <1>0, <1>3 DEF WriteEntry, AppStates, TypeOK
  <2>2. Whole
    BY <1>0, <2>1, WrittenWhole
  <2>3. ASSUME NEW s \in Segs, NEW p \in Cells, Valid(s, p)'
        PROVE  p < fill[s] /\ InUse(s) /\ <<s, p>> # app.place /\ content'[s][p] = content[s][p]
    <3>1. \/ s = head /\ p = fill[head]
          \/ p < fill[s] /\ content'[s][p] = content[s][p]
      <4>1. PICK t \in Segs : t = head
        BY <2>1
      <4> QED BY <1>0, <2>1, <2>3, <4>1, CellAdded DEF Valid
    <3>2. InUse(s) /\ <<s, p>> # app'.place
      BY <2>1, <2>3 DEF Valid, InUse
    <3> QED BY <1>2, <2>1, <3>1, <3>2, PlaceFacts
  <2> QED BY <1>1, <2>2, <2>3, NewestGoesOn
<1>4. CASE SealHead
  <2>1. head \in Segs /\ content' = Terminated(head) /\ UNCHANGED <<fill, free, emergency>>
    BY <1>0, <1>4 DEF SealHead, TypeOK
  <2>2. Whole
    BY <1>0, <2>1, TerminatedCells
  <2>3. ASSUME NEW s \in Segs, NEW p \in Cells, Valid(s, p)'
        PROVE  p < fill[s] /\ InUse(s) /\ <<s, p>> # app.place /\ content'[s][p] = content[s][p]
    BY <1>2, <2>1, <2>2, <2>3, PlaceFacts DEF Valid, InUse, Whole
  <2> QED BY <1>1, <2>2, <2>3, NewestGoesOn
<1>5. CASE TakeHead
  <2>1. PICK t \in Segs : /\ t \in ToSet(free) /\ ToSet(free') = ToSet(free) \ {t}
                          /\ UNCHANGED <<emergency, content>> /\ fill' = [fill EXCEPT ![t] = 0]
    <3>1. Head(free) \in Segs /\ Head(free) \in ToSet(free) /\ ToSet(free') = ToSet(free) \ {Head(free)}
      BY <1>0, <1>5, TailProps DEF TakeHead, TypeOK, IInv, SegmentsPartitioned
    <3> QED BY <1>5, <3>1 DEF TakeHead
  <2>2. ASSUME NEW s \in Segs, NEW p \in Cells, Valid(s, p)'
        PROVE  p < fill[s] /\ InUse(s) /\ <<s, p>> # app.place /\ content'[s][p] = content[s][p]
    <3>1. p < fill'[s] /\ InUse(s)' /\ ~(p < 0)
      BY <2>2, ConstantFacts, SMT DEF Valid
    <3>2. s # t /\ fill'[s] = fill[s]
      BY <1>0, <2>1, <3>1 DEF TypeOK
    <3>3. InUse(s)
      BY <2>1, <3>1, <3>2 DEF InUse
    <3> QED BY <1>2, <2>1, <3>1, <3>2, <3>3, PlaceFacts
  <2>3. Whole
    BY <2>1 DEF Whole
  <2> QED BY <1>1, <2>2, <2>3, NewestGoesOn
<1> QED BY <1>3, <1>4, <1>5

(* A call returns: without effect for want of memory, or with the entry    *)
(* published, or with the object removed.                                  *)
LEMMA NewestReturns ==
    ASSUME NoRebirth, IInv, HInv, NInv, hazards = {}, hazards' = {}, OutOfMemory \/ Publish \/ Unmap
    PROVE  NInv'
<1> USE DEF heapVars, listVars, lockVars
<1>0. TypeOK /\ app \in AppStates /\ AppSound
  BY DEF IInv, TypeOK, HInv
<1>1. /\ app' = Idle /\ InFlight' = {} /\ ~Writing'
      /\ UNCHANGED <<content, fill, free, emergency, cl, nextId>>
  BY DEF OutOfMemory, Publish, Unmap, Idle, InFlight, Writing
<1>2. /\ OutOfMemory => ~app.locked /\ Writing /\ hash' = hash /\ app.place = Null
      /\ Publish => Writing /\ app.pc = "publish" /\ hash' = [hash EXCEPT ![app.id] = app.place]
      /\ Unmap => app.pc = "unmap" /\ app.locked /\ hash' = [hash EXCEPT ![app.id] = Null] /\ app.place = Null
  BY <1>0 DEF OutOfMemory, Publish, Unmap, AppAt, NeedsHead, Meet, Writing, NInv, Calls, AppSound
<1>3. /\ app.id \in Ids /\ \A id \in Ids : id # app.id => hash'[id] = hash[id]
      /\ Publish => hash'[app.id] = app.place
      /\ Unmap => hash'[app.id] = Null
  <2>1. app.id \in Ids
    BY <1>0, <1>2 DEF AppSound, Writing
  <2> QED BY <1>0, <1>2, <2>1 DEF TypeOK
<1>4. Ordered'
  <2> SUFFICES ASSUME NEW s \in Segs, NEW p \in Cells, Valid(s, p)'
               PROVE  VersionOK(s, p, content[s][p])'
    BY DEF Ordered
  <2>1. PICK e : e = content[s][p]
    OBVIOUS
  <2>2. \A id : Gone(id)' <=> Gone(id)
    BY <1>1 DEF Gone
  <2>3. CASE <<s, p>> = app.place
    <3>1. app.pc = "publish" /\ content[head][p] = app.entry /\ s = head
      BY <1>0, <2>3, PlaceInHead, PlaceFacts DEF HInv
    <3>2. Publish /\ e.id = app.id
      BY <1>0, <1>2, <2>1, <2>3, <3>1, PlaceFacts DEF AppSound, Writing
    <3>3. hash'[e.id] = <<s, p>> /\ e.id \in Ids /\ hash'[e.id] # Null
      BY <1>3, <2>3, <3>2, PlaceFacts
    <3>4. VersionOK(s, p, e)'
      BY <1>1, <3>3 DEF VersionOK
    <3> QED BY <1>1, <2>1, <3>4
  <2>4. CASE <<s, p>> # app.place
    <3>1. Valid(s, p)
      BY <1>1, <2>4, ValidBefore DEF InUse, Valid
    <3>2. VersionOK(s, p, e)
      BY <2>1, <3>1 DEF NInv, Ordered
    <3>3. CASE e.id # app.id
      <4>1. hash'[e.id] = hash[e.id] /\ e.id \notin InFlight /\ e.id \in Ids
        BY <1>3, <3>2, <3>3 DEF VersionOK, InFlight
      <4>2. VersionOK(s, p, e)'
        BY <1>1, <2>2, <3>2, <4>1 DEF VersionOK, At
      <4> QED BY <1>1, <2>1, <4>2
    <3>4. CASE e.id = app.id
      <4>1. app.locked /\ InFlight = {app.id}
        BY <1>2, <3>2, <3>4 DEF VersionOK, InFlight
      <4>2. CASE Publish
        <5>1. e.id \in Changing /\ e.ver < app.entry.ver
          BY <1>2, <3>2, <3>4, <4>1, <4>2 DEF VersionOK
        <5>2. PICK q \in Cells : app.place = <<head, q>> /\ content[head][q] = app.entry
          BY <1>0, <1>2, <4>2 DEF AppSound
        <5>3. hash'[e.id] = <<head, q>> /\ hash'[e.id] # Null
          BY <1>3, <3>4, <4>2, <5>2, PlaceFacts
        <5>4. At(hash[e.id])' = app.entry
          BY <1>1, <5>2, <5>3 DEF At
        <5>5. VersionOK(s, p, e)'
          BY <1>1, <1>3, <3>4, <5>1, <5>3, <5>4 DEF VersionOK
        <5> QED BY <1>1, <2>1, <5>5
      <4>3. CASE Unmap
        <5>1. Gone(e.id) /\ hash'[e.id] = Null
          BY <1>2, <1>3, <3>2, <3>4, <4>1, <4>3 DEF VersionOK, Writing
        <5>2. VersionOK(s, p, e)'
          BY <1>1, <1>3, <2>2, <3>4, <5>1 DEF VersionOK
        <5> QED BY <1>1, <2>1, <5>2
      <4> QED BY <1>2, <4>1, <4>2, <4>3
    <3> QED BY <3>3, <3>4
  <2> QED BY <2>3, <2>4
<1>5. Known'
  <2> SUFFICES ASSUME NEW j \in Ids \ WithIds, j >= nextId PROVE hash'[j] = Null
    BY <1>1 DEF Known, Idle
  <2>1. hash[j] = Null /\ app.id # j
    BY <1>2 DEF NInv, Known, Writing
  <2> QED BY <1>3, <2>1
<1>6. Calls'
  BY <1>1 DEF Calls, Idle, Writing
<1> QED BY <1>4, <1>5, <1>6 DEF NInv

-----------------------------------------------------------------------------
(* The cleaner's steps.                                                    *)

(* A thread that does not copy leaves nothing to look at that was not so   *)
(* before: it goes on in its segment, or gives it back.                    *)
LEMMA NewestThread ==
    ASSUME IInv, HInv, NInv, NEW c \in Cleaners, CleanerStep(c),
           UNCHANGED <<content, app, hash, nextId>>,
           \A s \in Segs : InUse(s)' => (InUse(s) /\ fill'[s] = fill[s]) \/ fill'[s] = 0,
           \A s \in Segs : Claims(c) /\ cl[c].cur = s =>
               \/ ~(InUse(s)')
               \/ /\ Claims(c)' /\ cl'[c].cur = s
                  /\ OnWalk(c)' => OnWalk(c) /\ cl'[c].pos >= cl[c].pos /\ cl'[c].pos \in Nat
    PROVE  NInv'
<1>0. TypeOK /\ CurrentKept
  BY WholeCurrent DEF IInv, CurrentKept
<1>1. ASSUME NEW s \in Segs, NEW p \in Cells, Valid(s, p)'
      PROVE  Valid(s, p)
  <2>1. p \in Nat /\ p < fill'[s] /\ InUse(s)'
    BY <1>1, ConstantFacts DEF Valid
  <2>2. fill'[s] # 0
    BY <2>1, SMT
  <2>3. InUse(s) /\ fill'[s] = fill[s]
    BY <2>1, <2>2
  <2>4. ASSUME Passed(s, p) PROVE FALSE
    <3>1. PICK d \in Cleaners : Claims(d) /\ cl[d].cur = s /\ (OnWalk(d) => p < cl[d].pos)
      BY <2>4 DEF Passed
    <3>2. CASE d # c
      <4>1. cl'[d] = cl[d]
        BY <1>0, <3>2, OtherThreads
      <4>2. Passed(s, p)'
        BY <3>1, <4>1 DEF Passed, Claims, Cleans, OnWalk
      <4> QED BY <1>1, <4>2 DEF Valid
    <3>3. CASE d = c
      <4>1. /\ Claims(c)' /\ cl'[c].cur = s
            /\ OnWalk(c)' => OnWalk(c) /\ cl'[c].pos >= cl[c].pos /\ cl'[c].pos \in Nat
        BY <2>1, <3>1, <3>3
      <4>2. OnWalk(c)' => p < cl'[c].pos
        <5> SUFFICES ASSUME OnWalk(c)' PROVE p < cl'[c].pos
          OBVIOUS
        <5>1. p < cl[c].pos /\ cl'[c].pos >= cl[c].pos /\ cl'[c].pos \in Nat /\ cl[c].pos \in Nat
          BY <1>0, <3>1, <3>3, <4>1 DEF TypeOK, CleanerStates
        <5> DEFINE x == cl[c].pos
                   y == cl'[c].pos
        <5>2. p < x /\ y >= x /\ y \in Nat /\ x \in Nat
          BY <5>1
        <5> HIDE DEF x, y
        <5>3. p < y
          BY <2>1, <5>2, SMT
        <5> QED BY <5>3 DEF y
      <4>3. Passed(s, p)'
        BY <4>1, <4>2 DEF Passed
      <4> QED BY <1>1, <4>3 DEF Valid
    <3> QED BY <3>2, <3>3
  <2> QED BY <1>1, <2>3, <2>4 DEF Valid
<1>2. Ordered'
  <2> SUFFICES ASSUME NEW s \in Segs, NEW p \in Cells, Valid(s, p)'
               PROVE  VersionOK(s, p, content[s][p])'
    BY DEF Ordered
  <2>1. VersionOK(s, p, content[s][p])
    BY <1>1 DEF NInv, Ordered
  <2>2. PICK e : e = content[s][p]
    OBVIOUS
  <2>3. VersionOK(s, p, e)'
    BY <1>0, <2>1, <2>2, VersionFrame DEF Writing
  <2> QED BY <2>2, <2>3
<1>3. Known' /\ Calls'
  BY DEF NInv, Known, Calls, Writing
<1> QED BY <1>2, <1>3 DEF NInv

(* The entry a thread copies is the current version of its object, and its *)
(* copy is from now on.                                                    *)
LEMMA CopiedCurrent ==
    ASSUME IInv, Rows, AppEntry, HInv, NInv, hazards = {}, hazards' = {}, NEW c \in Cleaners, Copy(c)
    PROVE  /\ Visited(c).id \in Ids /\ InFlight = {}
           /\ hash[Visited(c).id] = <<cl[c].cur, cl[c].pos>>
           /\ Valid(cl[c].cur, cl[c].pos)
<1>1. PICK t \in Segs, p \in Cells, e \in Entry : t = cl[c].cur /\ p = cl[c].pos /\ e = Visited(c)
  BY CopyFacts
<1>2. cl[c].pc = "walk" /\ TypeOK
  BY DEF Copy, Visits, Resumes, CleanerAt, IInv
<1>3. InUse(t) /\ t \in ToSet(used) /\ p \in Nat /\ fill[t] \in Nat /\ e = content[t][p]
  BY <1>1, <1>2, WalkPlace DEF Visited
<1>4. p < fill[t]
  <2>1. ~(p >= fill[t])
    BY <1>1 DEF Copy, Overrun
  <2> QED BY <1>3, <2>1, SMT
<1>5. InFlight = {}
  <2>1. updateMove \in {None, c}
    BY DEF Copy, Visits, Resumes
  <2>2. updateMove # App
    BY <2>1, ConstantFacts
  <2> QED BY <2>2 DEF IInv, Shape, InFlight
<1>6. ~Passed(t, p)
  <2> SUFFICES ASSUME NEW d \in Cleaners, Claims(d), cl[d].cur = t, OnWalk(d) => p < cl[d].pos
               PROVE  FALSE
    BY DEF Passed
  <2>1. Cleans(c) /\ Cleans(d)
    BY <1>2 DEF Cleans, Claims
  <2>2. d = c
    BY <1>1, <2>1 DEF IInv, ClaimsExclusive
  <2>3. p < p
    BY <1>1, <1>2, <2>2 DEF OnWalk
  <2> QED BY <1>3, <2>3, SMT
<1>7. <<t, p>> # app.place
  <2> SUFFICES ASSUME <<t, p>> = app.place PROVE FALSE
    OBVIOUS
  <2>1. head = t /\ HeadSet = {head}
    BY PlaceInHead, PlaceFacts DEF HInv
  <2> QED BY <1>3, <2>1 DEF IInv, SegmentsPartitioned
<1>8. /\ e # Data /\ ~e.del /\ e.len > 0
      /\ hash[e.id] # Null /\ e.ver >= At(hash[e.id]).ver
  BY <1>1 DEF Copy, Survives, Unreadable, Unmapped, Kept
<1>9. Valid(t, p)
  BY <1>3, <1>4, <1>6, <1>7, <1>8 DEF Valid
<1>10. VersionOK(t, p, e)
  BY <1>3, <1>9 DEF NInv, Ordered
<1>11. hash[e.id] = <<t, p>> \/ e.ver < At(hash[e.id]).ver
  BY <1>5, <1>8, <1>10 DEF VersionOK
<1>12. e.ver \in Nat /\ At(hash[e.id]).ver \in Nat
  <2>1. At(hash[e.id]) \in Entry
    BY <1>5, <1>8, <1>10, CurrentCell DEF VersionOK
  <2> QED BY <2>1 DEF Entry
<1>13. ~(e.ver < At(hash[e.id]).ver)
  BY <1>8, <1>12, SMT
<1> QED BY <1>1, <1>5, <1>9, <1>10, <1>11, <1>13 DEF VersionOK

LEMMA NewestCopy ==
    ASSUME IInv, Rows, AppEntry, HInv, NInv, hazards = {}, hazards' = {}, NEW c \in Cleaners, Copy(c)
    PROVE  NInv'
<1> USE DEF heapVars, listVars, lockVars
<1>0. TypeOK /\ CleanerStep(c) /\ cl[c].pc = "walk"
  BY DEF IInv, CleanerStep, Copy, Visits, Resumes, CleanerAt
<1>1. PICK s \in Segs, t \in Segs, e \in Entry, q \in Cells, k \in Cells :
          /\ s = cl[c].seg /\ t = cl[c].cur /\ e = Visited(c) /\ q = cl[c].pos /\ k = fill[s]
          /\ e.len > 0 /\ s \in ToSet(cleaning)
  <2>1. fill[cl[c].seg] \in Cells
    BY CopyFacts
  <2> QED BY <2>1, CopyFacts
<1>2. /\ HasRoom(s, e) /\ content' = Written(s, fill[s], e)
      /\ fill' = [fill EXCEPT ![s] = @ + Size(e)]
      /\ hash' = [hash EXCEPT ![e.id] = <<s, k>>]
      /\ cl' = [cl EXCEPT ![c].pos = @ + Size(e)]
      /\ UNCHANGED <<free, emergency, app, nextId>>
  BY <1>1 DEF Copy
<1>3. /\ e.id \in Ids /\ InFlight = {} /\ InFlight' = {} /\ hash[e.id] = <<t, q>> /\ hash[e.id] # Null
      /\ Valid(t, q) /\ e = content[t][q] /\ At(hash[e.id]) = e
  <2>1. e.id \in Ids /\ InFlight = {} /\ hash[e.id] = <<t, q>> /\ Valid(t, q)
    BY <1>1, CopiedCurrent
  <2>2. InFlight' = {}
    BY <1>2, <2>1 DEF InFlight
  <2>3. e = content[t][q]
    BY <1>1 DEF Visited
  <2>4. At(hash[e.id]) = e
    BY <2>1, <2>3 DEF At
  <2> QED BY <2>1, <2>2, <2>3, <2>4, PlaceFacts
<1>4. /\ \A id \in Ids : hash'[id] = IF id = e.id THEN <<s, k>> ELSE hash[id]
      /\ <<s, k>> # Null
  BY <1>0, <1>2, PlaceFacts DEF TypeOK
<1>5. cl'[c].pc = "walk" /\ cl'[c].cur = t /\ cl'[c].pos = q + Size(e)
  BY <1>0, <1>1, <1>2 DEF TypeOK, CleanerStates
<1>6. Whole /\ CurrentKept
  BY <1>0, <1>2, WrittenWhole, WholeCurrent
<1>7. q < q + Size(e)
  <2> DEFINE z == Size(e)
  <2>1. q \in Nat /\ z \in Nat /\ z >= 1
    BY ConstantFacts, EntryFacts
  <2> HIDE DEF z
  <2>2. q < q + z
    BY <2>1, SMT
  <2> QED BY <2>2 DEF z
<1>8. content'[s][k] = e
  <2>1. \A i \in Cells : content'[s][i] = IF i = fill[s] THEN e
                                          ELSE IF i > fill[s] /\ i < fill[s] + Size(e) THEN Data
                                          ELSE content[s][i]
    BY <1>0, <1>2, WrittenCells
  <2> QED BY <1>1, <2>1
<1>9. Passed(t, q)'
  BY <1>5, <1>7 DEF Passed, Claims, Cleans
<1>10. ASSUME NEW r \in Segs, NEW p \in Cells, Valid(r, p)', ~(r = s /\ p = k)
       PROVE  /\ Valid(r, p) /\ content'[r][p] = content[r][p] /\ <<r, p>> # <<t, q>>
  <2>1. p < fill[r] /\ content'[r][p] = content[r][p]
    <3>1. \/ r = s /\ p = fill[s] /\ content'[r][p] = e
          \/ p < fill[r] /\ content'[r][p] = content[r][p]
      BY <1>0, <1>2, <1>10, CellAdded DEF Valid
    <3> QED BY <1>1, <1>10, <3>1
  <2>2. InUse(r) /\ <<r, p>> # app.place
    BY <1>2, <1>10, <2>1 DEF Valid, InUse
  <2>3. <<r, p>> # <<t, q>>
    BY <1>9, <1>10 DEF Valid
  <2>4. ASSUME Passed(r, p) PROVE FALSE
    <3>1. PICK d \in Cleaners : Claims(d) /\ cl[d].cur = r /\ (OnWalk(d) => p < cl[d].pos)
      BY <2>4 DEF Passed
    <3>2. CASE d # c
      <4>1. cl'[d] = cl[d]
        BY <1>0, <3>2, OtherThreads
      <4>2. Passed(r, p)'
        BY <3>1, <4>1 DEF Passed, Claims, Cleans, OnWalk
      <4> QED BY <1>10, <4>2 DEF Valid
    <3>3. CASE d = c
      <4>1. p < q /\ r = t
        BY <1>0, <1>1, <3>1, <3>3 DEF OnWalk
      <4>2. p < q + Size(e)
        <5> DEFINE z == Size(e)
        <5>1. q \in Nat /\ z \in Nat /\ p \in Nat /\ p < q
          BY <4>1, ConstantFacts, EntryFacts
        <5> HIDE DEF z
        <5>2. p < q + z
          BY <5>1, SMT
        <5> QED BY <5>2 DEF z
      <4>3. Passed(r, p)'
        BY <1>5, <4>1, <4>2 DEF Passed, Claims, Cleans
      <4> QED BY <1>10, <4>3 DEF Valid
    <3> QED BY <3>2, <3>3
  <2> QED BY <1>10, <2>1, <2>2, <2>3, <2>4 DEF Valid
<1>11. Ordered'
  <2> SUFFICES ASSUME NEW r \in Segs, NEW p \in Cells, Valid(r, p)'
               PROVE  VersionOK(r, p, content[r][p])'
    BY DEF Ordered
  <2>1. CASE r = s /\ p = k
    <3>1. ~(Writing /\ ~app.locked) \/ e.id # app.id
      BY <1>3 DEF NInv, Ordered, VersionOK
    <3>2. VersionOK(r, p, e)'
      BY <1>2, <1>3, <1>4, <2>1, <3>1 DEF VersionOK, Writing
    <3> QED BY <1>8, <2>1, <3>2
  <2>2. CASE ~(r = s /\ p = k)
    <3>1. Valid(r, p) /\ content'[r][p] = content[r][p] /\ <<r, p>> # <<t, q>>
      BY <1>10, <2>2
    <3>2. PICK x : x = content[r][p]
      OBVIOUS
    <3>3. VersionOK(r, p, x)
      BY <3>1, <3>2 DEF NInv, Ordered
    <3>4. CASE x.id = e.id
      <4>1. x.id \in Changing /\ x.ver < e.ver
        BY <1>3, <3>1, <3>3, <3>4 DEF VersionOK
      <4>2. hash'[x.id] = <<s, k>> /\ content'[s][k] = e
        BY <1>3, <1>4, <1>8, <3>4
      <4>3. At(hash[x.id])' = e
        BY <4>2 DEF At
      <4>4. VersionOK(r, p, x)'
        BY <1>2, <1>3, <1>4, <3>3, <3>4, <4>1, <4>2, <4>3 DEF VersionOK, Writing
      <4> QED BY <3>1, <3>2, <4>4
    <3>5. CASE x.id # e.id
      <4>1. hash'[x.id] = hash[x.id] /\ x.id \in Ids
        BY <1>4, <3>3, <3>5 DEF VersionOK
      <4>2. hash[x.id] # Null =>
               content'[hash[x.id][1]][hash[x.id][2]] = content[hash[x.id][1]][hash[x.id][2]]
        BY <1>3, <1>6, <4>1 DEF CurrentKept
      <4>3. VersionOK(r, p, x)'
        BY <1>2, <1>3, <3>3, <4>1, <4>2 DEF VersionOK, Writing, At, Gone
      <4> QED BY <3>1, <3>2, <4>3
    <3> QED BY <3>4, <3>5
  <2> QED BY <2>1, <2>2
<1>12. Known'
  <2> SUFFICES ASSUME NEW j \in Ids \ WithIds, j >= nextId
               PROVE  hash'[j] = Null /\ (app.pc = "idle" \/ app.id # j)
    BY <1>2 DEF Known
  <2>1. hash[j] = Null /\ (app.pc = "idle" \/ app.id # j)
    BY DEF NInv, Known
  <2> QED BY <1>3, <1>4, <2>1
<1>13. Calls'
  <2>1. ASSUME Writing, ~app.locked PROVE hash'[app.id] = Null
    <3>1. app.id \in Ids /\ hash[app.id] = Null
      BY <2>1 DEF NInv, Calls, HInv, AppSound, Writing
    <3> QED BY <1>3, <1>4, <3>1
  <2> QED BY <1>2, <2>1 DEF NInv, Calls, Writing
<1> QED BY <1>11, <1>12, <1>13 DEF NInv

LEMMA NewestCleaner ==
    ASSUME IInv, Rows, AppEntry, HInv, NInv, hazards = {}, hazards' = {},
           NEW c \in Cleaners, CleanerStep(c)
    PROVE  NInv'
<1> USE DEF heapVars, listVars, lockVars
<1>0. TypeOK
  BY DEF IInv
<1>1. CASE StartCleaning(c) \/ BeginScan(c) \/ Skip(c) \/ Claim(c) \/ Finish(c)
  <2>1. UNCHANGED <<content, fill, free, emergency, app, hash, nextId>> /\ ~Claims(c)
    BY <1>1 DEF StartCleaning, BeginScan, Skip, Claim, Finish, CleanerAt, Claims, Cleans
  <2>2. \A s \in Segs : InUse(s)' => InUse(s) /\ fill'[s] = fill[s]
    BY <2>1 DEF InUse
  <2> QED BY <2>1, <2>2, NewestThread
<1>2. CASE EndWalk(c) \/ Drop(c) \/ FindFull(c) \/ Retire(c) \/ Advance(c)
  <2>1. UNCHANGED <<content, fill, free, emergency, app, hash, nextId>> /\ Claims(c)
    BY <1>2 DEF EndWalk, Drop, FindFull, Retire, Advance, CleanerAt, Visits, Claims, Cleans
  <2>2. \A s \in Segs : InUse(s)' => InUse(s) /\ fill'[s] = fill[s]
    BY <2>1 DEF InUse
  <2>3. /\ Claims(c)' /\ cl'[c].cur = cl[c].cur
        /\ OnWalk(c)' => OnWalk(c) /\ cl'[c].pos >= cl[c].pos /\ cl'[c].pos \in Nat
    <3>1. CASE Drop(c)
      <4>1. /\ cl[c].pc = "walk" /\ cl'[c].pc = "walk" /\ cl'[c].cur = cl[c].cur
            /\ cl'[c].pos = cl[c].pos + Size(Visited(c))
        BY <1>0, <3>1 DEF Drop, Visits, CleanerAt, TypeOK, CleanerStates
      <4>2. cl[c].pos \in Nat /\ Size(Visited(c)) \in Nat
        <5>1. Visited(c) \in Cell /\ Visited(c) # Data
          BY <3>1, VisitFacts DEF Drop, Unreadable, IInv
        <5> QED BY <1>0, <5>1, EntryFacts DEF Cell, TypeOK, CleanerStates
      <4>3. cl'[c].pos >= cl[c].pos /\ cl'[c].pos \in Nat
        <5> DEFINE x == cl[c].pos
                   z == Size(Visited(c))
        <5>1. x \in Nat /\ z \in Nat
          BY <4>2
        <5> HIDE DEF x, z
        <5>2. x + z >= x /\ x + z \in Nat
          BY <5>1, SMT
        <5> QED BY <4>1, <5>2 DEF x, z
      <4> QED BY <4>1, <4>3 DEF Claims, Cleans, OnWalk
    <3>2. CASE EndWalk(c) \/ FindFull(c) \/ Retire(c) \/ Advance(c)
      <4>1. /\ cl'[c].cur = cl[c].cur /\ cl'[c].pos = cl[c].pos /\ cl[c].pos \in Nat
            /\ \/ cl'[c].pc \in {"retire", "refill"} /\ cl[c].pc \in {"walk", "retire"}
               \/ cl'[c].pc \in {"advance", "reclaim"}
        BY <1>0, <3>2 DEF EndWalk, FindFull, Retire, Advance, CleanerAt, Visits, TypeOK, CleanerStates
      <4>2. cl'[c].pos >= cl[c].pos
        <5> DEFINE x == cl[c].pos
        <5>1. x \in Nat
          BY <4>1
        <5> HIDE DEF x
        <5>2. x >= x
          BY <5>1, SMT
        <5> QED BY <4>1, <5>2 DEF x
      <4> QED BY <4>1, <4>2 DEF Claims, Cleans, OnWalk
    <3> QED BY <1>2, <3>1, <3>2
  <2> QED BY <2>1, <2>2, <2>3, NewestThread
<1>3. CASE GetFirstSegment(c) \/ Refill(c)
  <2>1. PICK s \in Segs : /\ GetSegment(c, s)
                          /\ \/ cl' = [cl EXCEPT ![c].pc = "scan", ![c].seg = s] /\ cl[c].pc = "first"
                             \/ cl' = [cl EXCEPT ![c].pc = "walk", ![c].seg = s] /\ cl[c].pc = "refill"
    BY <1>3 DEF GetFirstSegment, Refill, CleanerAt
  <2>2. /\ \A t \in Segs \ {s} : InUse(t)' <=> InUse(t)
        /\ fill' = [fill EXCEPT ![s] = 0] /\ UNCHANGED <<content, hash, app>>
    BY <2>1, ObtainFacts
  <2>3. UNCHANGED nextId
    BY <2>1 DEF GetSegment
  <2>4. \A t \in Segs : InUse(t)' => (InUse(t) /\ fill'[t] = fill[t]) \/ fill'[t] = 0
    BY <1>0, <2>2 DEF TypeOK
  <2>5. cl[c].pc = "first" => ~Claims(c)
    BY DEF Claims, Cleans
  <2>6. ASSUME cl[c].pc = "refill"
        PROVE  /\ Claims(c)' /\ cl'[c].cur = cl[c].cur
               /\ OnWalk(c) /\ cl'[c].pos >= cl[c].pos /\ cl'[c].pos \in Nat
    <3>1. cl'[c].pc = "walk" /\ cl'[c].cur = cl[c].cur /\ cl'[c].pos = cl[c].pos /\ cl[c].pos \in Nat
      BY <1>0, <2>1, <2>6 DEF TypeOK, CleanerStates
    <3>2. cl'[c].pos >= cl[c].pos
      <4> DEFINE x == cl[c].pos
      <4>1. x \in Nat
        BY <3>1
      <4> HIDE DEF x
      <4>2. x >= x
        BY <4>1, SMT
      <4> QED BY <3>1, <4>2 DEF x
    <3> QED BY <2>6, <3>1, <3>2 DEF Claims, Cleans, OnWalk
  <2> QED BY <1>3, <2>1, <2>2, <2>3, <2>4, <2>5, <2>6, NewestThread DEF CleanerStep
<1>4. CASE Reclaim(c)
  <2>1. UNCHANGED <<content, fill, app, hash, nextId>> /\ CleanerStep(c)
    BY <1>4 DEF Reclaim, CleanerStep
  <2>2. \A s \in Segs : s = cl[c].cur => ~(InUse(s)')
    BY <1>4, ReclaimFacts
  <2>3. \A s \in Segs : InUse(s)' => InUse(s)
    <3>1. PICK t \in Segs : t = cl[c].cur
      BY <1>4, ReclaimFacts
    <3>2. ~(InUse(t)') /\ \A s \in Segs \ {t} : InUse(s)' <=> InUse(s)
      BY <1>4, <3>1, ReclaimFacts
    <3> QED BY <3>2
  <2> QED BY <2>1, <2>2, <2>3, NewestThread
<1>5. CASE Misread(c)
  BY <1>5 DEF Misread, Meet
<1>6. CASE ReclaimNothing(c)
  BY <1>6, CurUsed DEF ReclaimNothing, CleanerAt, Cleans
<1> QED BY <1>1, <1>2, <1>3, <1>4, <1>5, <1>6, NewestCopy DEF CleanerStep

-----------------------------------------------------------------------------
(* The inductive invariant.                                                *)

VInv == CInv /\ (hazards = {} => NInv)

LEMMA VInvInit ==
    ASSUME Init
    PROVE  VInv
<1>1. CInv
  BY CInvInit
<1>2. \A s \in Segs, p \in Cells : ~Valid(s, p)
  <2>1. \A p \in Cells : ~(p < 0)
    BY ConstantFacts, SMT
  <2> QED BY <2>1 DEF Init, Valid
<1>3. Known /\ Calls
  BY DEF Init, Idle, Known, Calls, Writing
<1> QED BY <1>1, <1>2, <1>3 DEF VInv, NInv, Ordered

LEMMA VInvStep ==
    ASSUME NoRebirth, VInv, [Next]_vars
    PROVE  VInv'
<1>1. CInv'
  BY CInvStep DEF VInv
<1>2. CASE UNCHANGED vars
  <2>1. NInv' = NInv /\ hazards' = hazards
    BY <1>2 DEF vars, heapVars, listVars, lockVars, NInv, Ordered, Known, Calls, Valid, InUse, Passed,
       Claims, Cleans, OnWalk, VersionOK, InFlight, At, Gone, Writing
  <2> QED BY <1>1, <2>1 DEF VInv
<1>3. CASE Next
  <2>1. ASSUME hazards' = {} PROVE NInv'
    <3>1. hazards = {} /\ IInv /\ AppEntry /\ Rows /\ HInv /\ NInv
      BY <1>3, <2>1, HazardsGrow DEF VInv, CInv
    <3> QED BY <1>3, <2>1, <3>1, NewestNewCall, NewestAppends, NewestReturns, NewestCleaner
            DEF Next, CallStep
  <2> QED BY <1>1, <2>1 DEF VInv
<1> QED BY <1>2, <1>3

(* As long as no hazard has struck and the client does not reuse the id of *)
(* an object it has freed, the version test of the cleaner tells the       *)
(* current version from the others (cleaner.c:118-127, log_pmem.c:194-320).*)
THEOREM VersionsOrdered ==
    ASSUME NoRebirth
    PROVE  Spec => []VInv
<1>1. Init => VInv
  BY VInvInit
<1>2. VInv /\ [Next]_vars => VInv'
  BY VInvStep
<1> QED BY <1>1, <1>2, PTL DEF Spec

-----------------------------------------------------------------------------
(* The entries of a segment, when no object is both changed and freed.     *)

KeptOrFreed == Changing \cap FreeIds = {}

(* No newer version than the current one, and no object that is gone.      *)
Outdated(e) ==
    \/ e.del \/ e.id \in InFlight
    \/ e.id \in Ids /\ hash[e.id] # Null /\ e.ver <= At(hash[e.id]).ver

LEMMA ValidOutdated ==
    ASSUME KeptOrFreed, IInv, HInv, NInv, NEW s \in Segs, NEW p \in Cells, Valid(s, p)
    PROVE  Outdated(content[s][p])
<1>1. PICK e \in Entry : e = content[s][p]
  <2>1. content[s][p] \in Cell /\ content[s][p] # Data
    BY RowTypes DEF Valid, IInv
  <2> QED BY <2>1 DEF Cell
<1>2. VersionOK(s, p, e) /\ ~Gone(e.id)
  BY <1>1 DEF NInv, Ordered, KeptOrFreed, Gone
<1>3. CASE e.id \in InFlight
  BY <1>1, <1>3 DEF Outdated
<1>4. CASE e.id \notin InFlight
  <2>1. e.id \in Ids /\ hash[e.id] # Null
    BY <1>2 DEF VersionOK
  <2>2. At(hash[e.id]).ver \in Nat /\ e.ver \in Nat
    BY <1>4, <2>1, CurrentCell DEF Entry
  <2>3. e.ver <= At(hash[e.id]).ver
    <3>1. CASE hash[e.id] = <<s, p>>
      <4>1. At(hash[e.id]) = e
        BY <1>1, <3>1 DEF At
      <4> QED BY <2>2, <4>1, SMT
    <3>2. CASE e.ver < At(hash[e.id]).ver
      BY <2>2, <3>2, SMT
    <3> QED BY <1>2, <1>4, <2>1, <3>1, <3>2 DEF VersionOK
  <2> QED BY <1>1, <2>1, <2>3 DEF Outdated
<1> QED BY <1>3, <1>4

(* The segment a call has just sealed is log->head_segment until it has    *)
(* another one, even when a cleaner has given it back meanwhile.           *)
Residue ==
    app.pc = "takeHead" =>
        /\ head \in Segs
        /\ \A p \in Cells : p < fill[head] /\ content[head][p] # Data => Outdated(content[head][p])

LEMMA ResidueSealed ==
    ASSUME KeptOrFreed, IInv, HInv, NInv, hazards = {}, SealHead
    PROVE  Residue'
<1> USE DEF lockVars
<1>0. TypeOK /\ AppSound /\ app \in AppStates
  BY DEF IInv, TypeOK, HInv
<1>1. /\ head \in Segs /\ app.pc = "append" /\ HeadSet = {head} /\ InFlight' = InFlight
      /\ content' = Terminated(head) /\ UNCHANGED <<fill, head, hash>>
  BY <1>0 DEF SealHead, AppAt, TypeOK, HeadSet, InFlight, AppStates
<1>2. Whole /\ CurrentKept
  BY <1>0, <1>1, TerminatedCells, WholeCurrent
<1>3. PICK t \in Segs : t = head
  BY <1>1
<1>4. InUse(t) /\ app.place = Null /\ \A p : ~Passed(t, p)
  <2>1. ASSUME NEW c \in Cleaners, Claims(c), cl[c].cur = t PROVE FALSE
    BY <1>1, <1>3, <2>1, CurUsed DEF Claims
  <2> QED BY <1>0, <1>1, <1>3, <2>1, InUseFacts DEF AppSound, Passed
<1>5. ASSUME NEW p \in Cells, p < fill[t], content'[t][p] # Data
      PROVE  Outdated(content[t][p])'
  <2>1. content'[t][p] = content[t][p]
    BY <1>2, <1>5 DEF Whole
  <2>2. Outdated(content[t][p])
    <3>1. CASE content[t][p].del
      BY <3>1 DEF Outdated
    <3>2. CASE ~content[t][p].del
      BY <1>4, <1>5, <2>1, <3>2, ValidOutdated, PlaceFacts DEF Valid
    <3> QED BY <3>1, <3>2
  <2>3. PICK e : e = content[t][p]
    OBVIOUS
  <2>4. Outdated(e)'
    BY <1>1, <1>2, <2>2, <2>3 DEF Outdated, CurrentKept, At
  <2> QED BY <2>1, <2>3, <2>4
<1> QED BY <1>1, <1>3, <1>5 DEF Residue

LEMMA ResidueCleaner ==
    ASSUME IInv, Rows, AppEntry, HInv, NInv, Residue, hazards = {}, hazards' = {},
           NEW c \in Cleaners, CleanerStep(c), app.pc = "takeHead"
    PROVE  Residue'
<1> USE DEF heapVars, listVars, lockVars
<1>0. TypeOK /\ head \in Segs
  BY DEF IInv, Residue
<1>1. UNCHANGED <<app, head>>
  BY DEF CleanerStep, StartCleaning, GetFirstSegment, GetSegment, BeginScan, Claim, Skip,
     EndWalk, Misread, Drop, Copy, FindFull, Retire, Refill, Advance, Reclaim,
     ReclaimNothing, Finish
<1>2. PICK t \in Segs : t = head
  BY <1>0
<1>3. CASE ~Copy(c)
  <2>1. UNCHANGED <<content, hash>>
    BY <1>3 DEF CleanerStep, StartCleaning, GetFirstSegment, GetSegment, BeginScan, Claim, Skip,
       EndWalk, Misread, Drop, FindFull, Retire, Refill, Advance, Reclaim, ReclaimNothing, Finish
  <2>2. fill'[t] = fill[t] \/ fill'[t] = 0
    <3>1. CASE GetFirstSegment(c) \/ Refill(c)
      <4>1. PICK s \in Segs : fill' = [fill EXCEPT ![s] = 0]
        BY <3>1 DEF GetFirstSegment, Refill, GetSegment, Obtain
      <4> QED BY <1>0, <4>1 DEF TypeOK
    <3>2. CASE ~(GetFirstSegment(c) \/ Refill(c))
      BY <1>3, <3>2 DEF CleanerStep, StartCleaning, BeginScan, Claim, Skip, EndWalk, Misread,
         Drop, FindFull, Retire, Advance, Reclaim, ReclaimNothing, Finish
    <3> QED BY <3>1, <3>2
  <2>3. ASSUME NEW p \in Cells, p < fill'[t], content[t][p] # Data
        PROVE  Outdated(content[t][p])'
    <3>1. p < fill[t]
      <4>1. ~(p < 0)
        BY ConstantFacts, SMT
      <4> QED BY <2>2, <2>3, <4>1
    <3>2. Outdated(content[t][p])
      BY <1>2, <2>3, <3>1 DEF Residue
    <3>3. PICK e : e = content[t][p]
      OBVIOUS
    <3>4. Outdated(e)'
      BY <1>1, <2>1, <3>2, <3>3 DEF Outdated, InFlight, At
    <3> QED BY <2>1, <3>3, <3>4
  <2> QED BY <1>1, <1>2, <2>1, <2>3 DEF Residue
<1>4. CASE Copy(c)
  <2>1. PICK s \in Segs, e \in Entry, k \in Cells : s = cl[c].seg /\ e = Visited(c) /\ k = fill[s]
    BY <1>4, CopyFacts
  <2>2. /\ HasRoom(s, e) /\ content' = Written(s, fill[s], e)
        /\ fill' = [fill EXCEPT ![s] = @ + Size(e)]
        /\ hash' = [hash EXCEPT ![e.id] = <<s, k>>]
    BY <1>4, <2>1 DEF Copy
  <2>3. e.id \in Ids /\ InFlight = {} /\ hash[e.id] # Null /\ At(hash[e.id]) = e
    <3>1. e.id \in Ids /\ InFlight = {} /\ hash[e.id] = <<cl[c].cur, cl[c].pos>>
      BY <1>4, <2>1, CopiedCurrent
    <3>2. At(hash[e.id]) = e
      <4>1. hash[e.id][1] = cl[c].cur /\ hash[e.id][2] = cl[c].pos
        BY <3>1
      <4> QED BY <2>1, <4>1 DEF At, Visited
    <3> QED BY <3>1, <3>2, PlaceFacts
  <2>4. /\ \A id \in Ids : hash'[id] = IF id = e.id THEN <<s, k>> ELSE hash[id]
        /\ <<s, k>> # Null
    BY <1>0, <2>2, PlaceFacts DEF TypeOK
  <2>5. CurrentKept
    BY <1>0, <2>2, WrittenWhole, WholeCurrent
  <2>6. content'[s][k] = e
    <3>1. \A i \in Cells : content'[s][i] = IF i = fill[s] THEN e
                                            ELSE IF i > fill[s] /\ i < fill[s] + Size(e) THEN Data
                                            ELSE content[s][i]
      BY <1>0, <2>2, WrittenCells
    <3> QED BY <2>1, <3>1
  <2>7. At(<<s, k>>)' = e /\ e.ver \in Nat /\ e.ver <= e.ver
    <3>1. e.ver \in Nat
      BY DEF Entry
    <3> QED BY <2>6, <3>1, SMT DEF At
  <2>8. ASSUME NEW p \in Cells, p < fill'[t], content'[t][p] # Data
        PROVE  Outdated(content[t][p])'
    <3>1. \/ t = s /\ p = fill[s] /\ content'[t][p] = e
          \/ p < fill[t] /\ content'[t][p] = content[t][p]
      BY <1>0, <2>2, <2>8, CellAdded
    <3>2. CASE content'[t][p] = e
      <4>1. Outdated(e)'
        BY <2>3, <2>4, <2>7 DEF Outdated
      <4> QED BY <3>2, <4>1
    <3>3. CASE p < fill[t] /\ content'[t][p] = content[t][p]
      <4>1. PICK x : x = content[t][p]
        OBVIOUS
      <4>2. Outdated(x)
        BY <1>2, <2>8, <3>3, <4>1 DEF Residue
      <4>3. Outdated(x)'
        <5>1. CASE x.del
          BY <5>1 DEF Outdated
        <5>2. CASE x.id = e.id
          <6>1. x.del \/ x.ver <= e.ver
            BY <2>3, <4>2, <5>2 DEF Outdated
          <6> QED BY <2>3, <2>4, <2>7, <5>2, <6>1 DEF Outdated
        <5>3. CASE ~x.del /\ x.id # e.id
          <6>1. x.id \in Ids /\ hash[x.id] # Null /\ x.ver <= At(hash[x.id]).ver
            BY <2>3, <4>2, <5>3 DEF Outdated
          <6>2. hash'[x.id] = hash[x.id] /\ At(hash[x.id])' = At(hash[x.id])
            BY <2>3, <2>4, <2>5, <5>3, <6>1 DEF CurrentKept, At
          <6> QED BY <6>1, <6>2 DEF Outdated
        <5> QED BY <5>1, <5>2, <5>3
      <4> QED BY <3>3, <4>1, <4>3
    <3> QED BY <3>1, <3>2, <3>3
  <2> QED BY <1>1, <1>2, <2>8 DEF Residue
<1> QED BY <1>3, <1>4

(* A step leaves nothing in the old head but what is outdated.              *)
LEMMA ResidueStep ==
    ASSUME KeptOrFreed, IInv, AppEntry, Rows, HInv, NInv, Residue, hazards = {}, hazards' = {}, Next
    PROVE  Residue'
<1>1. TypeOK
  BY DEF IInv
<1>2. CASE NewCall \/ WriteEntry \/ TakeHead \/ OutOfMemory \/ Publish \/ Unmap
  <2>1. app'.pc # "takeHead"
    <3>1. CASE NewCall
      <4>1. \A id, e, locked : Call(id, e, locked) => app'.pc = "append"
        BY DEF Call
      <4>2. \A id : BeginFree(id) => app'.pc = "unmap"
        BY DEF BeginFree, Idle
      <4>3. \A len, id : BeginPallocWithId(id, len) \/ BeginUpdate(id, len) => app'.pc = "append"
        BY <4>1 DEF BeginPallocWithId, BeginUpdate
      <4>4. \A len : BeginPalloc(len) => app'.pc = "append"
        BY <4>1 DEF BeginPalloc
      <4> QED BY <3>1, <4>2, <4>3, <4>4 DEF NewCall
    <3>2. CASE WriteEntry \/ TakeHead
      BY <1>1, <3>2 DEF WriteEntry, TakeHead, IInv, TypeOK, AppStates
    <3>3. CASE OutOfMemory \/ Publish \/ Unmap
      BY <3>3 DEF OutOfMemory, Publish, Unmap, Idle
    <3> QED BY <1>2, <3>1, <3>2, <3>3
  <2> QED BY <2>1 DEF Residue
<1>3. CASE SealHead
  BY <1>1, <1>3, ResidueSealed
<1>4. ASSUME NEW c \in Cleaners, CleanerStep(c) PROVE Residue'
  <2>1. CASE app.pc = "takeHead"
    BY <1>1, <1>4, <2>1, ResidueCleaner
  <2>2. CASE app.pc # "takeHead"
    <3>1. UNCHANGED app
      BY <1>4 DEF CleanerStep, StartCleaning, GetFirstSegment, GetSegment, BeginScan, Claim, Skip,
         EndWalk, Misread, Drop, Copy, FindFull, Retire, Refill, Advance, Reclaim,
         ReclaimNothing, Finish
    <3> QED BY <2>2, <3>1 DEF Residue
  <2> QED BY <2>1, <2>2
<1> QED BY <1>2, <1>3, <1>4 DEF Next, CallStep

OInv == VInv /\ (hazards = {} => Residue)

LEMMA OInvStep ==
    ASSUME KeptOrFreed, OInv, [Next]_vars
    PROVE  OInv'
<1>1. NoRebirth
  BY DEF KeptOrFreed, NoRebirth, Changing
<1>2. VInv'
  BY <1>1, VInvStep DEF OInv
<1>3. CASE UNCHANGED vars
  <2>1. Residue' = Residue /\ hazards' = hazards
    BY <1>3 DEF vars, heapVars, listVars, lockVars, Residue, Outdated, InFlight, At
  <2> QED BY <1>2, <2>1 DEF OInv
<1>4. CASE Next
  <2>1. ASSUME hazards' = {} PROVE Residue'
    <3>1. hazards = {} /\ IInv /\ AppEntry /\ Rows /\ HInv /\ NInv /\ Residue
      BY <1>4, <2>1, HazardsGrow DEF OInv, VInv, CInv
    <3> QED BY <1>4, <2>1, <3>1, ResidueStep
  <2> QED BY <1>2, <2>1 DEF OInv
<1> QED BY <1>3, <1>4

(* What is left to look at, in one state.                                  *)
LEMMA NoneNewer ==
    ASSUME KeptOrFreed, IInv, HInv, NInv, Residue
    PROVE  NewestVersion
<1> SUFFICES ASSUME hazards = {}, NEW place \in Places, Stored(place), ~Walked(place), place # app.place
             PROVE  LET e == At(place)
                    IN  \/ e.del \/ e.id \in InFlight
                        \/ hash[e.id] # Null /\ e.ver <= At(hash[e.id]).ver
  BY DEF NewestVersion
<1>1. IInv /\ HInv /\ NInv /\ Residue
  OBVIOUS
<1>2. PICK s \in Segs, p \in Cells : place = <<s, p>>
  BY DEF Places
<1>3. InLog(s) /\ p < fill[s] /\ At(place) = content[s][p] /\ content[s][p] # Data
  BY <1>2 DEF Stored, At
<1>4. Outdated(content[s][p])
  <2>1. CASE s \in HeadSet \cup ToSet(used) \cup ToSet(cleaning)
    <3>1. InUse(s)
      BY <1>1, <2>1, InUseFacts
    <3>2. ~Passed(s, p)
      BY <1>2 DEF Walked, Passed, Claims, OnWalk
    <3>3. CASE content[s][p].del
      BY <3>3 DEF Outdated
    <3>4. CASE ~content[s][p].del
      BY <1>1, <1>2, <1>3, <3>1, <3>2, <3>4, ValidOutdated DEF Valid
    <3> QED BY <3>3, <3>4
  <2>2. CASE s \notin HeadSet \cup ToSet(used) \cup ToSet(cleaning)
    <3>1. s = head /\ app.pc = "takeHead"
      BY <1>3, <2>2, ConstantFacts DEF InLog, HeadSet
    <3> QED BY <1>1, <1>3, <3>1 DEF Residue
  <2> QED BY <2>1, <2>2
<1> QED BY <1>3, <1>4 DEF Outdated

LEMMA OInvNewest ==
    ASSUME KeptOrFreed, OInv
    PROVE  NewestVersion
  BY NoneNewer DEF OInv, VInv, CInv, NewestVersion

(* With a client that frees no object it has changed, and until a hazard   *)
(* strikes, the cleaner drops what is outdated and nothing else: no        *)
(* unmarked entry it has yet to look at is newer than the version the hash *)
(* table has, and none belongs to an object that is gone                   *)
(* (cleaner.c:118-127).                                                    *)
THEOREM NewestVersionKept ==
    ASSUME KeptOrFreed
    PROVE  Spec => []NewestVersion
<1>1. Init => OInv
  <2> SUFFICES ASSUME Init PROVE OInv
    OBVIOUS
  <2>1. Residue
    BY DEF Init, Idle, Residue
  <2> QED BY <2>1, VInvInit DEF OInv
<1>2. OInv /\ [Next]_vars => OInv'
  BY OInvStep
<1>3. OInv => NewestVersion
  BY OInvNewest
<1> QED BY <1>1, <1>2, <1>3, PTL DEF Spec

=============================================================================
