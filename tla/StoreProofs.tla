---------------------------- MODULE StoreProofs ----------------------------
(***************************************************************************)
(* What the order of the versions (VersionProofs) is good for, for a       *)
(* client that does not reuse the id of an object it has freed.            *)
(*                                                                         *)
(* First, used_space (log.c:109-112, cleaner.c:149-152, log_pmem.c:254,    *)
(* 307) is exactly the size of a segment's live entries.  Two kinds of     *)
(* segments are left out: one that a cleaner works on loses live entries   *)
(* to the copies without being discounted, and the used_space of one that  *)
(* was given to the emergency list is reset late.                          *)
(*                                                                         *)
(* Second, the heap implements the map from ids to values that HeapStore   *)
(* describes: whatever the cleaner threads do in between, an object has    *)
(* the value of the last call that wrote it.                               *)
(***************************************************************************)
EXTENDS VersionProofs

Claimed(s) == \E c \in Cleaners : Claims(c) /\ cl[c].cur = s
Settled(s) == InUse(s) /\ ~Resetting(s) /\ ~Claimed(s)

(* That used_space is never less than what is live is part of HInv.        *)
Exact(s) == Settled(s) => usedSpace[s] <= LiveSpace(s)
Exacts == \A s \in Segs : Exact(s)

-----------------------------------------------------------------------------
(* Segments in which nothing becomes less live.                            *)

(* Every current version stays current, and an entry that is not published *)
(* yet is still that, or becomes current.                                  *)
NoneLost ==
    /\ \A id \in Ids \ InFlight : hash[id] # Null => id \notin InFlight' /\ hash'[id] = hash[id]
    /\ \/ app.place = Null \/ app'.place = app.place
       \/ \E id \in Ids \ InFlight' : hash'[id] = app.place

LEMMA NoneLostLive ==
    ASSUME NoneLost, NEW s \in Segs, fill'[s] = fill[s]
    PROVE  LiveCells(s) \subseteq LiveCells(s)'
<1> SUFFICES ASSUME NEW p \in 0 .. fill[s] - 1,
                    \/ app.place = <<s, p>>
                    \/ \E id \in Ids \ InFlight : hash[id] = <<s, p>>
             PROVE  \/ app'.place = <<s, p>>
                    \/ \E id \in Ids \ InFlight' : hash'[id] = <<s, p>>
  BY DEF LiveCells
<1> QED BY PlaceFacts DEF NoneLost

LEMMA ExactKept ==
    ASSUME NEW s \in Segs, Exact(s), Settled(s)' => Settled(s), usedSpace'[s] = usedSpace[s],
           usedSpace[s] \in Nat, LiveCells(s) \subseteq LiveCells(s)',
           \A p \in LiveCells(s) : Size(content'[s][p]) = Size(content[s][p])
    PROVE  Exact(s)'
<1>1. LiveSpace(s) <= LiveSpace(s)' /\ LiveSpace(s)' \in Nat /\ LiveSpace(s) \in Nat
  <2>1. LiveSpace(s)' = Cardinality(Area(content'[s], LiveCells(s)'))
    BY DEF LiveSpace, LiveArea, Area
  <2>2. LiveSpace(s) = Cardinality(Area(content[s], LiveCells(s)))
    BY DEF LiveSpace, LiveArea, Area
  <2> QED BY <2>1, <2>2, AreaFinite, AreaSubset
<1> SUFFICES ASSUME Settled(s)' PROVE usedSpace'[s] <= LiveSpace(s)'
  BY DEF Exact
<1>2. usedSpace[s] <= LiveSpace(s)
  BY DEF Exact
<1> QED BY <1>1, <1>2, SMT

(* A step after which nothing is less live and no more segments settle.    *)
LEMMA ExactsKept ==
    ASSUME IInv, Rows, AppEntry, HInv, Spaces(0), Exacts, NoneLost, Similar, UNCHANGED <<fill, usedSpace>>,
           \A s \in Segs : Settled(s)' => Settled(s)
    PROVE  Exacts'
<1> SUFFICES ASSUME NEW s \in Segs PROVE Exact(s)'
  BY DEF Exacts
<1>1. LiveCells(s) \subseteq LiveCells(s)'
  BY NoneLostLive
<1>2. \A p \in LiveCells(s) : Size(content'[s][p]) = Size(content[s][p])
  BY LiveFacts, SimilarSize DEF IInv
<1> QED BY <1>1, <1>2, ExactKept, SpaceTypes DEF IInv, Exacts

(* A segment begins a new life, in which nothing is live yet.              *)
LEMMA ExactsTaken ==
    ASSUME IInv, Rows, AppEntry, HInv, Spaces(0), Exacts, NoneLost, NEW t \in Segs, ~InUse(t),
           UNCHANGED <<content, usedSpace>>, fill' = [fill EXCEPT ![t] = 0],
           Resetting(t)' <=> Resetting(t), \A s \in Segs \ {t} : Settled(s)' => Settled(s)
    PROVE  Exacts'
<1>0. TypeOK
  BY DEF IInv
<1>1. \A s \in Segs : fill'[s] = IF s = t THEN 0 ELSE fill[s]
  BY <1>0 DEF TypeOK
<1>2. ASSUME NEW s \in Segs \ {t} PROVE Exact(s)'
  <2>1. LiveCells(s) \subseteq LiveCells(s)'
    BY <1>1, NoneLostLive
  <2> QED BY <1>0, <2>1, ExactKept, SpaceTypes DEF Exacts
<1>3. Exact(t)'
  <2> SUFFICES ASSUME ~Resetting(t) PROVE usedSpace'[t] <= LiveSpace(t)'
    BY DEF Exact, Settled
  <2>1. usedSpace'[t] <= 0 /\ usedSpace'[t] \in Nat
    BY <1>0, NoSlack, SlackFacts, SpaceTypes DEF Spaces, SpaceOK
  <2>2. LiveSpace(t)' \in Nat
    <3>1. LiveSpace(t)' = Cardinality(Area(content'[t], LiveCells(t)'))
      BY DEF LiveSpace, LiveArea, Area
    <3> QED BY <3>1, AreaFinite
  <2> QED BY <2>1, <2>2, SMT
<1> QED BY <1>2, <1>3 DEF Exacts

(* An entry is written, and is live from then on.                          *)
LEMMA ExactsAdded ==
    ASSUME IInv, Rows, AppEntry, HInv, Spaces(0), Exacts, NEW t \in Segs, InUse(t), NEW e \in Entry, e.len > 0,
           HasRoom(t, e), content' = Written(t, fill[t], e),
           fill' = [fill EXCEPT ![t] = @ + Size(e)],
           usedSpace' = [usedSpace EXCEPT ![t] = (@ + Size(e)) % SizeMod],
           \A s \in Segs : Settled(s)' => Settled(s),
           \A s \in Segs \ {t} : Settled(s) => LiveCells(s) \subseteq LiveCells(s)',
           LiveCells(t) \cup {fill[t]} \subseteq LiveCells(t)'
    PROVE  Exacts'
<1> DEFINE z == Size(e)
           T == LiveCells(t) \cup {fill[t]}
<1>0. TypeOK
  BY DEF IInv
<1>1. /\ z \in Nat /\ LiveSpace(t) \in Nat
      /\ usedSpace'[t] = usedSpace[t] + z
      /\ Cardinality(Area(content'[t], T)) = LiveSpace(t) + z
      /\ \A s \in Segs \ {t} : usedSpace'[s] = usedSpace[s] /\ content'[s] = content[s]
  BY LiveAdded, NoSlack
<1>2. ASSUME NEW s \in Segs \ {t} PROVE Exact(s)'
  <2>1. CASE Settled(s)
    BY <1>0, <1>1, <2>1, ExactKept, SpaceTypes DEF Exacts
  <2>2. CASE ~Settled(s)
    BY <2>2 DEF Exact
  <2> QED BY <2>1, <2>2
<1>3. Cardinality(Area(content'[t], T)) <= LiveSpace(t)' /\ LiveSpace(t)' \in Nat
  <2>1. LiveSpace(t)' = Cardinality(Area(content'[t], LiveCells(t)'))
    BY DEF LiveSpace, LiveArea, Area
  <2> HIDE DEF T
  <2>2. T \subseteq LiveCells(t)'
    BY DEF T
  <2> QED BY <2>1, <2>2, AreaSubset, AreaFinite
<1>4. Exact(t)'
  <2> SUFFICES ASSUME Settled(t)' PROVE usedSpace'[t] <= LiveSpace(t)'
    BY DEF Exact
  <2>1. usedSpace[t] <= LiveSpace(t) /\ usedSpace[t] \in Nat
    BY <1>0, SpaceTypes DEF Exacts, Exact
  <2> HIDE DEF T, z
  <2> QED BY <1>1, <1>3, <2>1, SMT
<1> QED BY <1>2, <1>4 DEF Exacts

(* A version is discounted that is about to be replaced or removed.        *)
LEMMA ExactsDiscounted ==
    ASSUME IInv, Rows, AppEntry, HInv, Spaces(0), Exacts, NEW id \in Ids \ InFlight, hash[id] # Null,
           Discount(hash[id]), InFlight' = {id}, UNCHANGED <<fill, hash>>, Similar,
           app.place = Null, app'.place = Null, InFlight = {},
           \A s \in Segs : Settled(s)' => Settled(s)
    PROVE  Exacts'
<1>0. TypeOK
  BY DEF IInv
<1>1. PICK t \in Segs, k \in Cells : hash[id] = <<t, k>>
  BY <1>0, HashPlace
<1> DEFINE z == Size(content[t][k])
<1>2. /\ z \in Nat
      /\ LiveSpace(t) \in Nat /\ LiveSpace(t)' \in Nat /\ LiveSpace(t) = LiveSpace(t)' + z
      /\ usedSpace'[t] = usedSpace[t] - z
      /\ \A s \in Segs \ {t} : usedSpace'[s] = usedSpace[s] /\ LiveCells(s)' = LiveCells(s)
  BY <1>1, LiveDiscounted, NoSlack
<1>3. ASSUME NEW s \in Segs \ {t} PROVE Exact(s)'
  <2>1. \A p \in LiveCells(s) : Size(content'[s][p]) = Size(content[s][p])
    BY <1>0, LiveFacts, SimilarSize
  <2> QED BY <1>0, <1>2, <2>1, ExactKept, SpaceTypes DEF Exacts
<1>4. Exact(t)'
  <2> SUFFICES ASSUME Settled(t)' PROVE usedSpace'[t] <= LiveSpace(t)'
    BY DEF Exact
  <2>1. usedSpace[t] <= LiveSpace(t) /\ usedSpace[t] \in Nat
    BY <1>0, SpaceTypes DEF Exacts, Exact
  <2> HIDE DEF z
  <2> QED BY <1>2, <2>1, SMT
<1> QED BY <1>3, <1>4 DEF Exacts

-----------------------------------------------------------------------------
(* The steps.                                                              *)

LEMMA SettledClient ==
    ASSUME UNCHANGED <<cl, free, emergency>>, NEW s
    PROVE  Settled(s)' <=> Settled(s)
  BY DEF Settled, InUse, Resetting, Claimed, Claims, Cleans

LEMMA ExactNewCall ==
    ASSUME IInv, Rows, AppEntry, HInv, Spaces(0), Exacts, NewCall
    PROVE  Exacts'
<1> USE DEF heapVars, listVars
<1>0. TypeOK /\ AppAt("idle")
  BY DEF IInv, NewCall, BeginPalloc, BeginPallocWithId, BeginUpdate, BeginFree
<1>1. InFlight = {} /\ app.place = Null
  BY <1>0, IdleFacts
<1>2. ASSUME NEW id, NEW e, Call(id, e, FALSE), UNCHANGED <<heapVars, free, emergency, hash, cl>>
      PROVE  Exacts'
  <2>1. InFlight' = {}
    BY <1>2 DEF Call, InFlight
  <2>2. NoneLost /\ Similar
    BY <1>1, <1>2, <2>1 DEF NoneLost, Similar
  <2> QED BY <1>2, <2>2, ExactsKept, SettledClient
<1>3. ASSUME NEW id \in Ids, hash[id] # Null, Discount(hash[id]), Similar, InFlight' = {id},
             app'.place = Null, UNCHANGED <<fill, hash, free, emergency, cl>>
      PROVE  Exacts'
  BY <1>1, <1>3, ExactsDiscounted, SettledClient
<1>4. ASSUME NEW len \in Lens, BeginPalloc(len) PROVE Exacts'
  BY <1>2, <1>4 DEF BeginPalloc
<1>5. ASSUME NEW len \in Lens, NEW id \in WithIds, BeginPallocWithId(id, len) PROVE Exacts'
  BY <1>2, <1>5 DEF BeginPallocWithId
<1>6. ASSUME NEW len \in Lens, NEW id \in UpdIds \cup WithIds, BeginUpdate(id, len) PROVE Exacts'
  <2>1. id \in Ids /\ hash[id] # Null /\ Discount(hash[id])
        /\ UNCHANGED <<content, fill, hash, free, emergency, cl>>
    BY <1>6, ClientAssumption DEF BeginUpdate
  <2>2. InFlight' = {id} /\ app'.place = Null
    BY <1>6 DEF BeginUpdate, Call, InFlight
  <2>3. Similar
    BY <2>1 DEF Similar
  <2> QED BY <1>3, <2>1, <2>2, <2>3
<1>7. ASSUME NEW id \in FreeIds, BeginFree(id) PROVE Exacts'
  <2>1. /\ id \in Ids /\ hash[id] # Null /\ Discount(hash[id]) /\ content' = Marked(hash[id])
        /\ UNCHANGED <<fill, hash, free, emergency, cl>>
    BY <1>7, ClientAssumption DEF BeginFree
  <2>2. InFlight' = {id} /\ app'.place = Null
    BY <1>7 DEF BeginFree, Idle, InFlight
  <2>3. Similar
    <3>1. hash[id] \in Places
      BY <1>0, <2>1, HashPlace
    <3> QED BY <1>0, <2>1, <3>1, MarkedCells
  <2> QED BY <1>3, <2>1, <2>2, <2>3
<1> QED BY <1>4, <1>5, <1>6, <1>7 DEF NewCall

LEMMA ExactCallStep ==
    ASSUME IInv, Rows, AppEntry, HInv, NInv, Spaces(0), Exacts, hazards = {}, hazards' = {}, CallStep
    PROVE  Exacts'
<1> USE DEF heapVars, listVars, lockVars
<1>0. TypeOK /\ app \in AppStates /\ AppSound
  BY DEF IInv, TypeOK, HInv
<1>1. CASE WriteEntry
  <2>1. /\ head \in Segs /\ app.entry \in Entry /\ app.pc = "append" /\ app.place = Null
    BY <1>0, <1>1 DEF WriteEntry, AppAt, TypeOK, AppStates, AppSound
  <2>2. PICK t \in Segs, e \in Entry : t = head /\ e = app.entry
    BY <2>1
  <2>3. InUse(t) /\ e.len > 0
    <3>1. t \in HeadSet
      BY <2>1, <2>2, ConstantFacts DEF HeadSet
    <3> QED BY <2>1, <2>2, <3>1, InUseFacts DEF AppEntry, Writing
  <2>4. /\ HasRoom(t, e) /\ content' = Written(t, fill[t], e)
        /\ fill' = [fill EXCEPT ![t] = @ + Size(e)]
        /\ usedSpace' = [usedSpace EXCEPT ![t] = (@ + Size(e)) % SizeMod]
        /\ UNCHANGED <<hash, cl, free, emergency>>
        /\ app' = [app EXCEPT !.pc = "publish", !.place = <<t, fill[t]>>]
    BY <1>1, <2>2 DEF WriteEntry
  <2>5. app'.place = <<t, fill[t]>> /\ InFlight' = InFlight
    BY <1>0, <2>4 DEF InFlight, AppStates
  <2>6. \A s \in Segs : fill'[s] = IF s = t THEN fill[t] + Size(e) ELSE fill[s]
    BY <1>0, <2>4 DEF TypeOK
  <2>7. \A s \in Segs \ {t} : LiveCells(s) \subseteq LiveCells(s)'
    BY <2>1, <2>4, <2>5, <2>6, NoneLostLive DEF NoneLost
  <2>8. \A p \in 0 .. fill[t] - 1 \cup {fill[t]} : p \in 0 .. fill'[t] - 1
    <3> DEFINE z == Size(e)
               k == fill[t]
    <3>1. z \in Nat /\ z >= 1 /\ k \in Nat
      BY <1>0, EntryFacts, RowTypes
    <3> HIDE DEF z, k
    <3>2. \A p \in 0 .. k - 1 \cup {k} : p \in 0 .. (k + z) - 1
      BY <3>1, SMT
    <3> QED BY <2>6, <3>2 DEF z, k
  <2>9. LiveCells(t) \cup {fill[t]} \subseteq LiveCells(t)'
    <3>1. fill[t] \in LiveCells(t)'
      BY <2>5, <2>8 DEF LiveCells
    <3>2. ASSUME NEW p \in LiveCells(t) PROVE p \in LiveCells(t)'
      <4>1. p \in 0 .. fill[t] - 1 /\ \E id \in Ids \ InFlight : hash[id] = <<t, p>>
        BY <2>1, <3>2, PlaceFacts DEF LiveCells
      <4> QED BY <2>4, <2>5, <2>8, <4>1 DEF LiveCells
    <3> QED BY <3>1, <3>2
  <2>10. \A s \in Segs : Settled(s)' => Settled(s)
    BY <2>4, SettledClient
  <2> QED BY <2>3, <2>4, <2>7, <2>9, <2>10, ExactsAdded
<1>2. CASE SealHead
  <2>1. /\ head \in Segs /\ content' = Terminated(head)
        /\ app' = [app EXCEPT !.pc = "takeHead"] /\ UNCHANGED <<fill, usedSpace, cl, free, emergency, hash>>
    BY <1>0, <1>2 DEF SealHead, AppAt, TypeOK
  <2>2. app'.place = app.place /\ InFlight' = InFlight
    BY <1>0, <2>1 DEF AppStates, InFlight
  <2>3. NoneLost /\ Similar
    BY <1>0, <2>1, <2>2, TerminatedCells, WholeSimilar DEF NoneLost
  <2> QED BY <2>1, <2>3, ExactsKept, SettledClient
<1>3. CASE TakeHead
  <2>1. PICK t \in Segs :
            /\ t \in ToSet(free) /\ ToSet(free') = ToSet(free) \ {t}
            /\ emergency' = emergency /\ fill' = [fill EXCEPT ![t] = 0]
            /\ UNCHANGED <<content, usedSpace, hash, cl>>
    <3>1. Head(free) \in Segs /\ Head(free) \in ToSet(free) /\ ToSet(free') = ToSet(free) \ {Head(free)}
      BY <1>0, <1>3, TailProps DEF TakeHead, TypeOK, IInv, SegmentsPartitioned
    <3> QED BY <1>3, <3>1 DEF TakeHead
  <2>2. app'.place = app.place /\ InFlight' = InFlight
    BY <1>0, <1>3 DEF TakeHead, AppStates, InFlight
  <2>3. NoneLost /\ ~InUse(t) /\ (Resetting(t)' <=> Resetting(t))
    BY <2>1, <2>2 DEF NoneLost, InUse, Resetting
  <2>4. \A s \in Segs \ {t} : Settled(s)' => Settled(s)
    BY <2>1 DEF Settled, InUse, Resetting, Claimed, Claims, Cleans
  <2> QED BY <2>1, <2>3, <2>4, ExactsTaken
<1>4. CASE OutOfMemory \/ Publish \/ Unmap
  <2>1. /\ app' = Idle /\ InFlight' = {} /\ app'.place = Null
        /\ UNCHANGED <<content, fill, usedSpace, free, emergency, cl>>
    BY <1>4 DEF OutOfMemory, Publish, Unmap, Idle, InFlight
  <2>2. /\ OutOfMemory => ~app.locked /\ hash' = hash /\ app.place = Null
        /\ Publish => Writing /\ hash' = [hash EXCEPT ![app.id] = app.place] /\ app.id \in Ids
        /\ Unmap => app.locked /\ hash' = [hash EXCEPT ![app.id] = Null] /\ app.place = Null
    BY <1>0 DEF OutOfMemory, Publish, Unmap, AppAt, NeedsHead, Meet, Writing, NInv, Calls, AppSound
  <2>3. Publish => hash[app.id] = Null \/ app.id \in InFlight
    BY <2>2 DEF NInv, Calls, InFlight
  <2>4. /\ Publish \/ Unmap => \A id \in Ids : id # app.id => hash'[id] = hash[id]
        /\ Publish => hash'[app.id] = app.place
    BY <1>0, <2>2 DEF TypeOK
  <2>5. Unmap => app.id \in InFlight
    BY <2>2 DEF InFlight
  <2>6. NoneLost
    BY <1>4, <2>1, <2>2, <2>3, <2>4, <2>5 DEF NoneLost
  <2>7. Similar
    BY <2>1 DEF Similar
  <2> QED BY <2>1, <2>6, <2>7, ExactsKept, SettledClient
<1> QED BY <1>1, <1>2, <1>3, <1>4 DEF CallStep

(* A thread that does not give its segment back does not let go of it.     *)
LEMMA ClaimedKept ==
    ASSUME TypeOK, NEW c \in Cleaners, CleanerStep(c), Claims(c) => Claims(c)' /\ cl'[c].cur = cl[c].cur
    PROVE  \A s : Claimed(s) => Claimed(s)'
<1> SUFFICES ASSUME NEW s, NEW d \in Cleaners, Claims(d), cl[d].cur = s
             PROVE  Claims(d)' /\ cl'[d].cur = s
  BY DEF Claimed
<1>1. CASE d = c
  BY <1>1
<1>2. CASE d # c
  <2>1. cl'[d] = cl[d]
    BY <1>2, OtherThreads
  <2> QED BY <2>1 DEF Claims, Cleans
<1> QED BY <1>1, <1>2

LEMMA ExactThread ==
    ASSUME IInv, Rows, AppEntry, HInv, Spaces(0), Exacts, NEW c \in Cleaners, CleanerStep(c),
           cl[c].pc # "finish", cl'[c].pc # "finish",
           Claims(c) => Claims(c)' /\ cl'[c].cur = cl[c].cur,
           UNCHANGED <<content, fill, usedSpace, free, emergency, hash, app>>
    PROVE  Exacts'
<1>0. TypeOK /\ InFlight' = InFlight
  BY DEF IInv, InFlight
<1>1. NoneLost /\ Similar
  BY <1>0 DEF NoneLost, Similar
<1>2. ASSUME NEW s \in Segs, Settled(s)' PROVE Settled(s)
  <2>1. Resetting(s)' <=> Resetting(s)
    BY <1>0, ResettingKept
  <2>2. Claimed(s) => Claimed(s)'
    BY <1>0, ClaimedKept
  <2> QED BY <1>2, <2>1, <2>2 DEF Settled, InUse
<1> QED BY <1>1, <1>2, ExactsKept

LEMMA ExactTake ==
    ASSUME IInv, Rows, AppEntry, HInv, Spaces(0), Exacts, NEW c \in Cleaners, GetFirstSegment(c) \/ Refill(c)
    PROVE  Exacts'
<1>0. TypeOK /\ CleanerStep(c)
  BY DEF IInv, CleanerStep
<1>1. PICK t \in Segs : /\ GetSegment(c, t)
                        /\ \/ cl' = [cl EXCEPT ![c].pc = "scan", ![c].seg = t] /\ cl[c].pc = "first"
                           \/ cl' = [cl EXCEPT ![c].pc = "walk", ![c].seg = t] /\ cl[c].pc = "refill"
  BY DEF GetFirstSegment, Refill, CleanerAt
<1>2. /\ ~InUse(t) /\ \A s \in Segs \ {t} : InUse(s)' <=> InUse(s)
      /\ fill' = [fill EXCEPT ![t] = 0] /\ UNCHANGED <<content, usedSpace, hash, app>>
  BY <1>1, ObtainFacts
<1>3. /\ cl[c].pc # "finish" /\ cl'[c].pc # "finish"
      /\ Claims(c) => Claims(c)' /\ cl'[c].cur = cl[c].cur
  <2>1. /\ cl'[c].cur = cl[c].cur
        /\ \/ cl[c].pc = "first" /\ cl'[c].pc = "scan"
           \/ cl[c].pc = "refill" /\ cl'[c].pc = "walk"
    BY <1>0, <1>1 DEF TypeOK, CleanerStates
  <2> QED BY <2>1 DEF Claims, Cleans
<1>4. \A s : Resetting(s)' <=> Resetting(s)
  BY <1>0, <1>3, ResettingKept
<1>5. \A s \in Segs \ {t} : Settled(s)' => Settled(s)
  <2>1. \A s : Claimed(s) => Claimed(s)'
    BY <1>0, <1>3, ClaimedKept
  <2> QED BY <1>2, <1>4, <2>1 DEF Settled
<1>6. NoneLost
  BY <1>2 DEF NoneLost, InFlight
<1> QED BY <1>2, <1>4, <1>5, <1>6, ExactsTaken

LEMMA ExactReclaim ==
    ASSUME IInv, Rows, AppEntry, HInv, Spaces(0), Exacts, hazards = {}, NEW c \in Cleaners, Reclaim(c)
    PROVE  Exacts'
<1> USE DEF heapVars, listVars, lockVars
<1>0. TypeOK /\ CleanerStep(c) /\ InFlight' = InFlight
  BY DEF IInv, CleanerStep, Reclaim, InFlight
<1>1. PICK t \in Segs : t = cl[c].cur
  BY CurUsed DEF Reclaim, CleanerAt, Cleans
<1>2. /\ cl[c].pc = "reclaim" /\ cl'[c].pc = "finish" /\ cl'[c].cur = t
      /\ UNCHANGED <<content, fill, hash, app>>
      /\ UNCHANGED usedSpace \/ usedSpace' = [usedSpace EXCEPT ![t] = 0]
  BY <1>0, <1>1 DEF Reclaim, CleanerAt, TypeOK
<1>3. ~(InUse(t)') /\ \A s \in Segs \ {t} : InUse(s)' <=> InUse(s)
  BY <1>1, ReclaimFacts
<1>4. ASSUME NEW s \in Segs \ {t} PROVE Exact(s)'
  <2>1. Resetting(s)' <=> Resetting(s)
    BY <1>0, <1>1, <1>2, ResettingKept
  <2>2. Claimed(s) => Claimed(s)'
    <3> SUFFICES ASSUME NEW d \in Cleaners, Claims(d), cl[d].cur = s
                 PROVE  Claims(d)' /\ cl'[d].cur = s
      BY DEF Claimed
    <3>1. d # c
      BY <1>1
    <3>2. cl'[d] = cl[d]
      BY <1>0, <3>1, OtherThreads
    <3> QED BY <3>2 DEF Claims, Cleans
  <2>3. Settled(s)' => Settled(s)
    BY <1>3, <2>1, <2>2 DEF Settled
  <2>4. usedSpace'[s] = usedSpace[s] /\ usedSpace[s] \in Nat
    BY <1>0, <1>2, SpaceTypes DEF TypeOK
  <2>5. LiveCells(s) \subseteq LiveCells(s)'
    BY <1>0, <1>2 DEF LiveCells
  <2> QED BY <1>2, <2>3, <2>4, <2>5, ExactKept DEF Exacts
<1>5. Exact(t)'
  BY <1>3 DEF Exact, Settled
<1> QED BY <1>4, <1>5 DEF Exacts

LEMMA ExactFinish ==
    ASSUME IInv, Rows, AppEntry, HInv, Spaces(0), Exacts, NEW c \in Cleaners, Finish(c)
    PROVE  Exacts'
<1> USE DEF heapVars, listVars, lockVars
<1>0. TypeOK /\ CleanerStep(c) /\ InFlight' = InFlight
  BY DEF IInv, CleanerStep, Finish, InFlight
<1>1. PICK t \in Segs : t = cl[c].cur
  BY DEF Finish, CleanerAt, IInv, TypeOK, CleanerStates, Shape
<1>2. /\ cl[c].pc = "finish" /\ GoTo(c, cl[c].nxt)
      /\ UNCHANGED <<content, fill, hash, app, free, emergency>>
      /\ usedSpace' = [usedSpace EXCEPT ![t] = IF cl[c].late = "no" THEN @ ELSE 0]
  BY <1>1 DEF Finish, CleanerAt
<1>3. cl'[c].pc \in {"scan", "test"} /\ ~Claims(c)
  BY <1>0, <1>2, GoToFacts DEF Claims
<1>4. \A s : Claimed(s) => Claimed(s)'
  BY <1>0, <1>3, ClaimedKept
<1>5. ASSUME NEW s \in Segs, s # t \/ cl[c].late = "no" PROVE Exact(s)'
  <2>1. Resetting(s)' <=> Resetting(s)
    <3>1. CASE s # t
      BY <1>0, <1>1, <1>3, <3>1, ResettingKept
    <3>2. CASE cl[c].late = "no"
      BY <1>0, <1>3, <3>2, OtherThreads DEF Resetting
    <3> QED BY <1>5, <3>1, <3>2
  <2>2. Settled(s)' => Settled(s)
    BY <1>2, <1>4, <2>1 DEF Settled, InUse
  <2>3. usedSpace'[s] = usedSpace[s] /\ usedSpace[s] \in Nat
    BY <1>0, <1>2, <1>5, SpaceTypes DEF TypeOK
  <2>4. LiveCells(s) \subseteq LiveCells(s)'
    BY <1>0, <1>2 DEF LiveCells
  <2> QED BY <1>2, <2>2, <2>3, <2>4, ExactKept DEF Exacts
<1>6. CASE cl[c].late # "no"
  <2>1. usedSpace'[t] = 0
    BY <1>0, <1>2, <1>6 DEF TypeOK
  <2>2. LiveSpace(t)' \in Nat
    <3>1. LiveSpace(t)' = Cardinality(Area(content'[t], LiveCells(t)'))
      BY DEF LiveSpace, LiveArea, Area
    <3> QED BY <3>1, AreaFinite
  <2>3. usedSpace'[t] <= LiveSpace(t)'
    BY <2>1, <2>2, SMT
  <2> QED BY <1>5, <2>3 DEF Exacts, Exact
<1> QED BY <1>5, <1>6 DEF Exacts

(* The copy is what is live from now on.  The segment that it is copied    *)
(* from is being cleaned.                                                  *)
LEMMA ExactCopy ==
    ASSUME IInv, Rows, AppEntry, HInv, NInv, Spaces(0), Exacts, hazards = {}, hazards' = {},
           NEW c \in Cleaners, Copy(c)
    PROVE  Exacts'
<1> USE DEF heapVars, listVars, lockVars
<1>0. TypeOK /\ CleanerStep(c) /\ cl[c].pc = "walk"
  BY DEF IInv, CleanerStep, Copy, Visits, Resumes, CleanerAt
<1>1. PICK t \in Segs, r \in Segs, e \in Entry, k \in Cells :
          /\ t = cl[c].seg /\ r = cl[c].cur /\ e = Visited(c) /\ k = fill[t]
          /\ e.len > 0 /\ InUse(t)
  <2>1. fill[cl[c].seg] \in Cells
    BY CopyFacts
  <2> QED BY <2>1, CopyFacts
<1>2. /\ HasRoom(t, e) /\ content' = Written(t, fill[t], e)
      /\ fill' = [fill EXCEPT ![t] = @ + Size(e)]
      /\ usedSpace' = [usedSpace EXCEPT ![t] = (@ + Size(e)) % SizeMod]
      /\ hash' = [hash EXCEPT ![e.id] = <<t, k>>]
      /\ cl' = [cl EXCEPT ![c].pos = @ + Size(e)]
      /\ UNCHANGED <<free, emergency, app>>
  BY <1>1 DEF Copy
<1>3. e.id \in Ids /\ InFlight = {} /\ InFlight' = {} /\ hash[e.id] = <<r, cl[c].pos>>
  <2>1. e.id \in Ids /\ InFlight = {} /\ hash[e.id] = <<r, cl[c].pos>>
    BY <1>1, CopiedCurrent
  <2> QED BY <1>2, <2>1 DEF InFlight
<1>4. \A id \in Ids : hash'[id] = IF id = e.id THEN <<t, k>> ELSE hash[id]
  BY <1>0, <1>2 DEF TypeOK
<1>5. cl'[c].pc = "walk" /\ cl'[c].cur = r
  BY <1>0, <1>1, <1>2 DEF TypeOK, CleanerStates
<1>6. Claims(c) /\ Claims(c)'
  BY <1>0, <1>5 DEF Claims, Cleans
<1>7. \A s \in Segs : Settled(s)' => Settled(s)
  <2>1. \A s : Claimed(s) => Claimed(s)'
    BY <1>0, <1>1, <1>5, <1>6, ClaimedKept
  <2>2. \A s : Resetting(s)' <=> Resetting(s)
    BY <1>0, <1>5, ResettingKept
  <2> QED BY <1>2, <2>1, <2>2 DEF Settled, InUse
<1>8. \A s \in Segs : fill'[s] = IF s = t THEN fill[t] + Size(e) ELSE fill[s]
  BY <1>0, <1>2 DEF TypeOK
<1>9. ASSUME NEW s \in Segs \ {t}, Settled(s) PROVE LiveCells(s) \subseteq LiveCells(s)'
  <2>1. s # r
    BY <1>1, <1>6, <1>9 DEF Settled, Claimed
  <2>2. \A p : hash[e.id] # <<s, p>>
    BY <1>3, <2>1
  <2>3. \A p : \A id \in Ids : hash[id] = <<s, p>> => hash'[id] = <<s, p>>
    BY <1>4, <2>2
  <2>4. fill'[s] = fill[s] /\ app' = app
    BY <1>2, <1>8
  <2> SUFFICES ASSUME NEW p \in LiveCells(s) PROVE p \in LiveCells(s)'
    OBVIOUS
  <2>5. /\ p \in 0 .. fill[s] - 1
        /\ app.place = <<s, p>> \/ \E id \in Ids : hash[id] = <<s, p>>
    BY DEF LiveCells
  <2>6. app'.place = <<s, p>> \/ \E id \in Ids \ InFlight' : hash'[id] = <<s, p>>
    <3>1. Ids \ InFlight' = Ids
      BY <1>3
    <3> QED BY <2>3, <2>4, <2>5, <3>1
  <2> QED BY <2>4, <2>5, <2>6 DEF LiveCells
<1>10. LiveCells(t) \cup {fill[t]} \subseteq LiveCells(t)'
  <2>1. t # r
    <3>1. r \notin ToSet(cleaning)
      BY <1>0, <1>1, WalkPlace
    <3> QED BY <1>1, <3>1, CopyFacts
  <2>2. \A p : hash[e.id] # <<t, p>>
    BY <1>3, <2>1
  <2>3. \A p : \A id \in Ids : hash[id] = <<t, p>> => hash'[id] = <<t, p>>
    BY <1>4, <2>2
  <2>4. \A p \in 0 .. fill[t] - 1 \cup {fill[t]} : p \in 0 .. fill'[t] - 1
    <3> DEFINE z == Size(e)
               m == fill[t]
    <3>1. z \in Nat /\ z >= 1 /\ m \in Nat
      BY <1>0, EntryFacts, RowTypes
    <3> HIDE DEF z, m
    <3>2. \A p \in 0 .. m - 1 \cup {m} : p \in 0 .. (m + z) - 1
      BY <3>1, SMT
    <3> QED BY <1>8, <3>2 DEF z, m
  <2>5. fill[t] \in LiveCells(t)'
    <3>1. hash'[e.id] = <<t, fill[t]>> /\ e.id \in Ids \ InFlight'
      BY <1>1, <1>3, <1>4
    <3> QED BY <2>4, <3>1 DEF LiveCells
  <2>6. ASSUME NEW p \in LiveCells(t) PROVE p \in LiveCells(t)'
    <3>1. /\ p \in 0 .. fill[t] - 1
          /\ app.place = <<t, p>> \/ \E id \in Ids : hash[id] = <<t, p>>
      BY <2>6 DEF LiveCells
    <3>2. app'.place = <<t, p>> \/ \E id \in Ids \ InFlight' : hash'[id] = <<t, p>>
      <4>1. Ids \ InFlight' = Ids /\ app' = app
        BY <1>2, <1>3
      <4> QED BY <2>3, <3>1, <4>1
    <3> QED BY <2>4, <3>1, <3>2 DEF LiveCells
  <2> QED BY <2>5, <2>6
<1> QED BY <1>1, <1>2, <1>7, <1>9, <1>10, ExactsAdded

LEMMA ExactCleaner ==
    ASSUME IInv, Rows, AppEntry, HInv, NInv, Spaces(0), Exacts, hazards = {}, hazards' = {},
           NEW c \in Cleaners, CleanerStep(c)
    PROVE  Exacts'
<1> USE DEF heapVars, listVars, lockVars
<1>0. TypeOK
  BY DEF IInv
<1>1. CASE StartCleaning(c) \/ BeginScan(c) \/ Skip(c) \/ Claim(c)
  <2>1. /\ UNCHANGED <<content, fill, usedSpace, free, emergency, hash, app>>
        /\ cl[c].pc \in {"wait", "scan", "test"}
    BY <1>1 DEF StartCleaning, BeginScan, Skip, Claim, CleanerAt
  <2>2. cl'[c].pc # "finish"
    <3>1. CASE StartCleaning(c) \/ Claim(c)
      BY <1>0, <3>1 DEF StartCleaning, Claim, TypeOK, CleanerStates
    <3>2. CASE BeginScan(c) \/ Skip(c)
      BY <1>0, <3>2, GoToFacts DEF BeginScan, Skip
    <3> QED BY <1>1, <3>1, <3>2
  <2> QED BY <2>1, <2>2, ExactThread DEF Claims, Cleans
<1>2. CASE EndWalk(c) \/ Drop(c) \/ FindFull(c) \/ Retire(c) \/ Advance(c)
  <2>1. /\ UNCHANGED <<content, fill, usedSpace, free, emergency, hash, app>>
        /\ cl[c].pc \in {"walk", "retire", "advance"}
    BY <1>2 DEF EndWalk, Drop, FindFull, Retire, Advance, CleanerAt, Visits
  <2>2. cl'[c].pc \in {"walk", "retire", "refill", "advance", "reclaim"} /\ cl'[c].cur = cl[c].cur
    BY <1>0, <1>2 DEF EndWalk, Drop, FindFull, Retire, Advance, CleanerAt, Visits, TypeOK, CleanerStates
  <2>3. cl[c].pc # "finish" /\ cl'[c].pc # "finish" /\ Claims(c)'
    BY <2>1, <2>2 DEF Claims, Cleans
  <2> QED BY <2>1, <2>2, <2>3, ExactThread
<1>3. CASE Misread(c)
  BY <1>3 DEF Misread, Meet
<1>4. CASE ReclaimNothing(c)
  BY <1>4, CurUsed DEF ReclaimNothing, CleanerAt, Cleans
<1> QED BY <1>1, <1>2, <1>3, <1>4, ExactTake, ExactReclaim, ExactFinish, ExactCopy DEF CleanerStep

-----------------------------------------------------------------------------
(* The inductive invariant.                                                *)

AInv == VInv /\ (hazards = {} => Exacts)

LEMMA AInvInit ==
    ASSUME Init
    PROVE  AInv
<1>1. VInv
  BY VInvInit
<1>2. ASSUME NEW s \in Segs PROVE usedSpace[s] <= LiveSpace(s)
  <2>1. LiveSpace(s) = Cardinality(Area(content[s], LiveCells(s)))
    BY DEF LiveSpace, LiveArea, Area
  <2>2. LiveSpace(s) \in Nat /\ usedSpace[s] = 0
    BY <2>1, AreaFinite DEF Init
  <2> QED BY <2>2, SMT
<1> QED BY <1>1, <1>2 DEF AInv, Exacts, Exact

LEMMA AInvStep ==
    ASSUME NoRebirth, AInv, [Next]_vars
    PROVE  AInv'
<1>1. VInv'
  BY VInvStep DEF AInv
<1>2. CASE UNCHANGED vars
  <2>1. Exacts' = Exacts /\ hazards' = hazards
    BY <1>2 DEF vars, heapVars, listVars, lockVars, Exacts, Exact, Settled, InUse, Resetting, Claimed,
       Claims, Cleans, LiveSpace, LiveArea, LiveCells, InFlight
  <2> QED BY <1>1, <2>1 DEF AInv
<1>3. CASE Next
  <2>1. ASSUME hazards' = {} PROVE Exacts'
    <3>1. hazards = {} /\ IInv /\ AppEntry /\ Rows /\ HInv /\ NInv /\ Spaces(0) /\ Exacts
      BY <1>3, <2>1, HazardsGrow DEF AInv, VInv, CInv
    <3> QED BY <1>3, <2>1, <3>1, ExactNewCall, ExactCallStep, ExactCleaner DEF Next
  <2> QED BY <1>1, <2>1 DEF AInv
<1> QED BY <1>2, <1>3

LEMMA AInvAccounting ==
    ASSUME AInv
    PROVE  Accounting
<1> SUFFICES ASSUME hazards = {}, NEW s \in ToSet(used) \cup HeadSet
             PROVE  \/ usedSpace[s] = LiveSpace(s)
                    \/ s \in currCleaned /\ usedSpace[s] >= LiveSpace(s)
  BY DEF Accounting
<1>1. IInv /\ TypeOK /\ HInv /\ Spaces(0) /\ Exacts
  BY DEF AInv, VInv, CInv, IInv
<1>2. s \in Segs /\ InUse(s)
  BY <1>1, InUseFacts
<1>3. LiveSpace(s) <= usedSpace[s] /\ usedSpace[s] \in Nat /\ LiveSpace(s) \in Nat
  <2>1. LiveSpace(s) = Cardinality(Area(content[s], LiveCells(s)))
    BY DEF LiveSpace, LiveArea, Area
  <2> QED BY <1>1, <1>2, <2>1, AreaFinite, SpaceTypes DEF Spaces, SpaceOK
<1>4. CASE Settled(s)
  <2>1. usedSpace[s] <= LiveSpace(s)
    BY <1>1, <1>2, <1>4 DEF Exacts, Exact
  <2> QED BY <1>3, <2>1, SMT
<1>5. CASE ~Settled(s)
  <2>1. PICK c \in Cleaners : Cleans(c) /\ cl[c].cur = s
    BY <1>2, <1>5 DEF Settled, Resetting, Claimed, Claims, Cleans
  <2>2. s \in currCleaned
    BY <1>1, <2>1 DEF IInv, ClaimsExclusive
  <2>3. usedSpace[s] >= LiveSpace(s)
    BY <1>3, SMT
  <2> QED BY <2>2, <2>3
<1> QED BY <1>4, <1>5

(* As long as no hazard has struck and the client does not reuse the id of *)
(* an object it has freed, the used_space of the head and of a used        *)
(* segment that nobody cleans is exactly the size of its live entries, and *)
(* while it is being cleaned at least that (log.c:109-112,                 *)
(* cleaner.c:149-152, log_pmem.c:254, 307).                                *)
THEOREM AccountingExact ==
    ASSUME NoRebirth
    PROVE  Spec => []Accounting
<1>1. Init => AInv
  BY AInvInit
<1>2. AInv /\ [Next]_vars => AInv'
  BY AInvStep
<1>3. AInv => Accounting
  BY AInvAccounting
<1> QED BY <1>1, <1>2, <1>3, PTL DEF Spec

-----------------------------------------------------------------------------
(* The client's view.                                                      *)

(* The number of writing calls that have taken effect or failed, and the   *)
(* id that a call is creating.                                             *)
Returned == IF Pending THEN writes - 1 ELSE writes
Creating == IF Pending THEN app.id ELSE 0

SameValues == \A id \in Ids : Value(id)' = Value(id)
Assigned(i, v) == Value(i)' = v /\ \A id \in Ids \ {i} : Value(id)' = Value(id)

LEMMA StorePromised ==
    ASSUME hazards = {}, hazards' = {}, Store!Promised
    PROVE  Store!Next
  BY DEF Store!Next, Store!Keeps

LEMMA StoreUnseen ==
    ASSUME hazards = {}, hazards' = {}, SameValues, Returned' = Returned, Creating' = Creating
    PROVE  Store!Next
<1>1. Store!Promised
  BY DEF Store!Promised, SameValues, Returned, Creating
<1> QED BY <1>1, StorePromised

LEMMA StoreBegins ==
    ASSUME hazards = {}, hazards' = {}, SameValues, Returned' = Returned, NEW i \in Ids,
           Creating = 0, Creating' = i, Value(i) = 0
    PROVE  Store!Next
<1>1. Store!Begin(i)
  BY DEF Store!Begin, SameValues, Returned, Creating
<1> QED BY <1>1, StorePromised DEF Store!Promised

LEMMA ValueReplaced ==
    ASSUME NEW i \in Ids, NEW v, Assigned(i, v)
    PROVE  [id \in Ids |-> Value(id)]' = [[id \in Ids |-> Value(id)] EXCEPT ![i] = v]
<1>1. \A id \in Ids : Value(id)' = IF id = i THEN v ELSE Value(id)
  BY DEF Assigned
<1>2. [[id \in Ids |-> Value(id)] EXCEPT ![i] = v] = [id \in Ids |-> IF id = i THEN v ELSE Value(id)]
  OBVIOUS
<1> QED BY <1>1, <1>2

LEMMA StoreCreated ==
    ASSUME hazards = {}, hazards' = {}, Returned' = Returned + 1, NEW i \in Ids, i # 0,
           Creating = i, Creating' = 0, Assigned(i, Returned')
    PROVE  Store!Next
<1>1. [id \in Ids |-> Value(id)]' = [[id \in Ids |-> Value(id)] EXCEPT ![Creating] = Returned']
  BY ValueReplaced
<1>2. Store!Created
  BY <1>1 DEF Store!Created, Returned, Creating
<1> QED BY <1>2, StorePromised DEF Store!Promised

LEMMA StoreNotCreated ==
    ASSUME hazards = {}, hazards' = {}, SameValues, Returned' = Returned + 1,
           Creating # 0, Creating' = 0, free = <<>>
    PROVE  Store!Next
<1>1. Store!NotCreated
  BY DEF Store!NotCreated, SameValues, Returned, Creating
<1> QED BY <1>1, StorePromised DEF Store!Promised

LEMMA StoreUpdated ==
    ASSUME hazards = {}, hazards' = {}, Returned' = Returned + 1, NEW i \in Ids,
           Creating = 0, Creating' = 0, Value(i) # 0, Assigned(i, Returned')
    PROVE  Store!Next
<1>1. [id \in Ids |-> Value(id)]' = [[id \in Ids |-> Value(id)] EXCEPT ![i] = Returned']
  BY ValueReplaced
<1>2. [id \in Ids |-> Value(id)][i] # 0
  OBVIOUS
<1>3. Store!Update(i)
  BY <1>1, <1>2 DEF Store!Update, Returned, Creating
<1> QED BY <1>3, StorePromised DEF Store!Promised

(* pfree removes an object.                                                *)
LEMMA StoreRemoved ==
    ASSUME hazards = {}, hazards' = {}, Returned' = Returned, NEW i \in Ids,
           Creating = 0, Creating' = 0, Value(i) # 0, Assigned(i, 0)
    PROVE  Store!Next
<1>1. [id \in Ids |-> Value(id)]' = [[id \in Ids |-> Value(id)] EXCEPT ![i] = 0]
  BY ValueReplaced
<1>2. [id \in Ids |-> Value(id)][i] # 0
  OBVIOUS
<1>3. Store!Remove(i)
  BY <1>1, <1>2 DEF Store!Remove, Returned, Creating
<1> QED BY <1>3, StorePromised DEF Store!Promised

-----------------------------------------------------------------------------
(* The values of the objects.                                              *)

(* A call writes the value that it is numbered with, and what the hash     *)
(* table points to has a value.                                            *)
Values ==
    /\ Writing => app.entry.val = writes /\ writes # 0
    /\ app.pc = "unmap" => app.entry.val = 0
    /\ \A id \in Ids \ InFlight : hash[id] # Null => Value(id) # 0

LEMMA ValuesKept ==
    ASSUME CurrentKept, UNCHANGED <<hash, InFlight>>, app'.entry = app.entry
    PROVE  SameValues
<1> SUFFICES ASSUME NEW id \in Ids PROVE Value(id)' = Value(id)
  BY DEF SameValues
<1>1. CASE id \in InFlight
  BY <1>1 DEF Value
<1>2. CASE id \notin InFlight /\ hash[id] # Null
  BY <1>2 DEF Value, CurrentKept, At
<1>3. CASE id \notin InFlight /\ hash[id] = Null
  BY <1>3 DEF Value
<1> QED BY <1>1, <1>2, <1>3

LEMMA WritesNat ==
    ASSUME TypeOK
    PROVE  writes \in Nat
<1>1. writes \in 0 .. MaxWrites
  BY DEF TypeOK
<1> QED BY <1>1, ConstantFacts, SMT

LEMMA IdNotZero == \A id \in Ids : id # 0
  BY ConstantFacts, SMT DEF Ids

LEMMA StoreCreates ==
    ASSUME IInv, HInv, Values, hazards = {}, hazards' = {}, AppAt("idle"), NEW id \in Ids, NEW len,
           hash[id] = Null, Call(id, NewEntry(id, 1, len), FALSE), UNCHANGED <<content, hash>>
    PROVE  Values' /\ Store!Next
<1>1. InFlight = {} /\ app.pc = "idle" /\ TypeOK
  BY IdleFacts DEF AppAt, IInv
<1>2. /\ app'.pc = "append" /\ app'.locked = FALSE /\ app'.entry.val = writes + 1 /\ app'.id = id
      /\ writes' = writes + 1 /\ InFlight' = {}
  BY DEF Call, NewEntry, InFlight
<1>3. SameValues /\ Value(id) = 0
  BY <1>1, <1>2 DEF SameValues, Value, At
<1>4. writes + 1 # 0 /\ (writes + 1) - 1 = writes
  BY <1>1, WritesNat, SMT
<1>5. Returned' = Returned /\ Creating = 0 /\ Creating' = id
  <2>1. ~Pending /\ Pending'
    BY <1>1, <1>2 DEF Pending
  <2> QED BY <1>2, <1>4, <2>1 DEF Returned, Creating
<1>6. Values'
  BY <1>1, <1>2, <1>3, <1>4 DEF Values, SameValues, Writing
<1> QED BY <1>3, <1>5, <1>6, StoreBegins

LEMMA StoreUpdates ==
    ASSUME IInv, HInv, Values, hazards = {}, hazards' = {}, NEW id \in Ids, NEW len, BeginUpdate(id, len)
    PROVE  Values' /\ Store!Next
<1>1. InFlight = {} /\ app.pc = "idle" /\ TypeOK /\ hash[id] # Null
  BY IdleFacts DEF AppAt, IInv, BeginUpdate
<1>2. /\ app'.pc = "append" /\ app'.locked = TRUE /\ app'.entry = Successor(At(hash[id]), len)
      /\ writes' = writes + 1 /\ InFlight' = {id} /\ UNCHANGED <<content, hash>>
  BY DEF BeginUpdate, Call, InFlight
<1>3. app'.entry.val = writes + 1
  <2>1. At(hash[id]) \in Entry
    BY <1>1, CurrentCell
  <2> QED BY <1>2, <2>1 DEF Successor, Entry
<1>4. writes + 1 # 0
  BY <1>1, WritesNat, SMT
<1>5. Returned = writes /\ Returned' = writes + 1 /\ Creating = 0 /\ Creating' = 0
  BY <1>1, <1>2 DEF Returned, Creating, Pending
<1>6. Value(id)' = writes + 1 /\ \A j \in Ids \ {id} : Value(j)' = Value(j)
  BY <1>1, <1>2, <1>3 DEF Value, At
<1>7. Values'
  BY <1>1, <1>2, <1>3, <1>4, <1>6 DEF Values, Writing
<1>8. Value(id) # 0
  BY <1>1 DEF Values
<1> QED BY <1>5, <1>6, <1>7, <1>8, StoreUpdated DEF Assigned

LEMMA StoreFrees ==
    ASSUME IInv, HInv, Values, hazards = {}, hazards' = {}, NEW id \in Ids, BeginFree(id)
    PROVE  Values' /\ Store!Next
<1>1. InFlight = {} /\ app.pc = "idle" /\ TypeOK /\ hash[id] # Null
  BY IdleFacts DEF AppAt, IInv, BeginFree
<1>2. /\ app'.pc = "unmap" /\ app'.locked = TRUE /\ app'.entry = Blank
      /\ InFlight' = {id} /\ content' = Marked(hash[id]) /\ UNCHANGED <<writes, hash>>
  BY DEF BeginFree, Idle, InFlight
<1>3. \A s \in Segs, p \in Cells : <<s, p>> # hash[id] => content'[s][p] = content[s][p]
  <2>1. hash[id] \in Places
    BY <1>1, HashPlace
  <2> QED BY <1>1, <1>2, <2>1, MarkedCells
<1>4. Returned = writes /\ Returned' = writes /\ Creating = 0 /\ Creating' = 0
  BY <1>1, <1>2 DEF Returned, Creating, Pending
<1>5. Value(id) # 0 /\ Value(id)' = 0
  BY <1>1, <1>2 DEF Values, Value, Blank
<1>6. ASSUME NEW j \in Ids \ {id} PROVE Value(j)' = Value(j)
  <2>1. CASE hash[j] = Null
    BY <1>1, <1>2, <2>1 DEF Value
  <2>2. CASE hash[j] # Null
    <3>1. hash[j] # hash[id]
      BY <1>1, <1>6, <2>2, CurrentCell
    <3>2. PICK s \in Segs, p \in Cells : hash[j] = <<s, p>>
      BY <1>1, <2>2, CurrentCell
    <3>3. content'[s][p] = content[s][p]
      BY <1>3, <3>1, <3>2
    <3> QED BY <1>1, <1>2, <3>2, <3>3 DEF Value, At
  <2> QED BY <2>1, <2>2
<1>7. Values'
  BY <1>1, <1>2, <1>6 DEF Values, Writing, Blank
<1> QED BY <1>4, <1>5, <1>6, <1>7, StoreRemoved DEF Assigned

LEMMA StoreNewCall ==
    ASSUME IInv, HInv, Values, hazards = {}, hazards' = {}, NewCall
    PROVE  Values' /\ Store!Next
<1> USE DEF heapVars
<1>1. ASSUME NEW len \in Lens, BeginPalloc(len) PROVE Values' /\ Store!Next
  BY <1>1, StoreCreates DEF BeginPalloc, GenId, FreshIds
<1>2. ASSUME NEW len \in Lens, NEW id \in WithIds, BeginPallocWithId(id, len)
      PROVE  Values' /\ Store!Next
  BY <1>2, ClientAssumption, StoreCreates DEF BeginPallocWithId
<1>3. ASSUME NEW len \in Lens, NEW id \in UpdIds \cup WithIds, BeginUpdate(id, len)
      PROVE  Values' /\ Store!Next
  BY <1>3, ClientAssumption, StoreUpdates
<1>4. ASSUME NEW id \in FreeIds, BeginFree(id) PROVE Values' /\ Store!Next
  BY <1>4, ClientAssumption, StoreFrees
<1> QED BY <1>1, <1>2, <1>3, <1>4 DEF NewCall

LEMMA StoreCallStep ==
    ASSUME IInv, HInv, NInv, Values, hazards = {}, hazards' = {}, CallStep
    PROVE  Values' /\ Store!Next
<1> USE DEF heapVars, listVars, lockVars
<1>0. TypeOK /\ app \in AppStates /\ AppSound
  BY DEF IInv, TypeOK, HInv
<1>1. CASE WriteEntry \/ SealHead \/ TakeHead
  <2>1. /\ Writing /\ Writing' /\ UNCHANGED <<hash, writes>>
        /\ app'.entry = app.entry /\ app'.locked = app.locked /\ app'.id = app.id
    BY <1>0, <1>1 DEF WriteEntry, SealHead, TakeHead, NeedsHead, AppAt, Writing, AppStates
  <2>2. Whole
    <3>1. CASE WriteEntry
      <4>1. head \in Segs /\ content' = Written(head, fill[head], app.entry)
        BY <1>0, <3>1 DEF WriteEntry, TypeOK
      <4> QED BY <1>0, <4>1, WrittenWhole
    <3>2. CASE SealHead
      <4>1. head \in Segs /\ content' = Terminated(head)
        BY <1>0, <3>2 DEF SealHead, TypeOK
      <4> QED BY <1>0, <4>1, TerminatedCells
    <3>3. CASE TakeHead
      BY <3>3 DEF TakeHead, Whole
    <3> QED BY <1>1, <3>1, <3>2, <3>3
  <2>3. SameValues /\ InFlight' = InFlight
    <3>1. InFlight' = InFlight
      BY <2>1 DEF InFlight
    <3> QED BY <2>1, <2>2, <3>1, WholeCurrent, ValuesKept
  <2>4. Returned' = Returned /\ Creating' = Creating
    BY <2>1 DEF Returned, Creating, Pending, Writing
  <2>5. app'.pc # "unmap"
    BY <2>1 DEF Writing
  <2>6. Values'
    BY <2>1, <2>3, <2>5 DEF Values, SameValues
  <2> QED BY <2>3, <2>4, <2>6, StoreUnseen
<1>2. CASE OutOfMemory
  <2>1. ~app.locked /\ Writing /\ app' = Idle /\ UNCHANGED <<content, hash, writes>> /\ free = <<>>
    BY <1>2 DEF OutOfMemory, Meet, NeedsHead, AppAt, Writing
  <2>2. InFlight = {} /\ InFlight' = {} /\ app'.pc = "idle"
    BY <2>1 DEF InFlight, Idle
  <2>3. SameValues
    BY <2>1, <2>2 DEF SameValues, Value, At
  <2>4. Returned' = Returned + 1
    <3>1. Returned = writes - 1 /\ Returned' = writes
      BY <2>1, <2>2 DEF Returned, Pending, Writing
    <3>2. (writes - 1) + 1 = writes
      BY <1>0, WritesNat, SMT
    <3> QED BY <3>1, <3>2
  <2>5. Values'
    BY <2>1, <2>2, <2>3 DEF Values, SameValues, Writing
  <2>6. Creating # 0 /\ Creating' = 0
    <3>1. Creating = app.id /\ Creating' = 0
      BY <2>1, <2>2 DEF Creating, Pending, Writing
    <3>2. app.id \in Ids
      BY <1>0, <2>1 DEF AppSound, Writing
    <3> QED BY <3>1, <3>2, IdNotZero
  <2> QED BY <2>1, <2>3, <2>4, <2>5, <2>6, StoreNotCreated
<1>3. CASE Publish
  <2>1. /\ app.pc = "publish" /\ Writing /\ app' = Idle /\ hash' = [hash EXCEPT ![app.id] = app.place]
        /\ UNCHANGED <<content, writes>>
    BY <1>3 DEF Publish, AppAt, Writing
  <2>2. app'.pc = "idle" /\ InFlight' = {}
    BY <2>1 DEF Idle, InFlight
  <2>3. PICK i \in Ids, p \in Cells : i = app.id /\ app.place = <<head, p>> /\ content[head][p] = app.entry
    BY <1>0, <2>1 DEF AppSound
  <2>4. /\ hash'[i] = <<head, p>> /\ <<head, p>> # Null
        /\ \A id \in Ids : id # i => hash'[id] = hash[id]
    BY <1>0, <2>1, <2>3, PlaceFacts DEF TypeOK
  <2>5. Value(i)' = app.entry.val /\ app.entry.val = writes /\ writes # 0
    <3>1. At(hash[i])' = app.entry
      BY <2>1, <2>3, <2>4 DEF At
    <3>2. app.entry.val = writes /\ writes # 0
      BY <2>1 DEF Values
    <3> QED BY <2>2, <2>4, <3>1, <3>2 DEF Value
  <2>6. \A id \in Ids \ {i} : id \notin InFlight /\ Value(id)' = Value(id)
    BY <2>1, <2>2, <2>3, <2>4 DEF InFlight, Value, At
  <2>7. Values'
    BY <2>1, <2>2, <2>4, <2>5, <2>6 DEF Values, Writing
  <2>8. Returned' = writes
    BY <2>1, <2>2 DEF Returned, Pending
  <2>9. CASE app.locked
    <3>1. SameValues
      <4>1. Value(i) = app.entry.val
        BY <2>3, <2>9 DEF Value, InFlight
      <4> QED BY <2>5, <2>6, <4>1 DEF SameValues
    <3>2. Returned = writes /\ Creating = 0 /\ Creating' = 0
      BY <2>2, <2>9 DEF Returned, Creating, Pending
    <3> QED BY <2>7, <2>8, <3>1, <3>2, StoreUnseen
  <2>10. CASE ~app.locked
    <3>1. Returned = writes - 1 /\ Creating = i /\ Creating' = 0
      BY <2>1, <2>2, <2>3, <2>10 DEF Returned, Creating, Pending
    <3>2. (writes - 1) + 1 = writes
      BY <1>0, WritesNat, SMT
    <3>3. Returned' = Returned + 1 /\ Value(i)' = Returned'
      BY <2>5, <2>8, <3>1, <3>2
    <3> QED BY <2>6, <2>7, <3>1, <3>3, IdNotZero, StoreCreated DEF Assigned
  <2> QED BY <2>9, <2>10
<1>4. CASE Unmap
  <2>1. /\ app.pc = "unmap" /\ app.locked /\ app' = Idle /\ hash' = [hash EXCEPT ![app.id] = Null]
        /\ UNCHANGED <<content, writes>>
    BY <1>4 DEF Unmap, AppAt, NInv, Calls
  <2>2. PICK i \in Ids : i = app.id /\ app'.pc = "idle" /\ InFlight' = {} /\ InFlight = {i}
    BY <1>0, <2>1 DEF AppSound, Idle, InFlight
  <2>3. hash'[i] = Null /\ \A id \in Ids : id # i => hash'[id] = hash[id]
    BY <1>0, <2>1, <2>2 DEF TypeOK
  <2>4. Value(i) = 0 /\ Value(i)' = 0
    <3>1. app.entry.val = 0
      BY <2>1 DEF Values
    <3> QED BY <2>2, <2>3, <3>1 DEF Value
  <2>5. \A id \in Ids \ {i} : Value(id)' = Value(id)
    BY <2>1, <2>2, <2>3 DEF Value, At
  <2>6. SameValues
    BY <2>4, <2>5 DEF SameValues
  <2>7. Returned' = Returned /\ Creating' = Creating
    BY <2>1, <2>2 DEF Returned, Creating, Pending
  <2>8. Values'
    BY <2>1, <2>2, <2>3, <2>5 DEF Values, Writing
  <2> QED BY <2>6, <2>7, <2>8, StoreUnseen
<1> QED BY <1>1, <1>2, <1>3, <1>4 DEF CallStep

(* What the cleaners do is invisible.                                      *)
LEMMA StoreCleaner ==
    ASSUME IInv, Rows, AppEntry, HInv, NInv, Values, hazards = {}, hazards' = {},
           NEW c \in Cleaners, CleanerStep(c)
    PROVE  Values' /\ Store!Next
<1> USE DEF heapVars, listVars, lockVars
<1>0. TypeOK
  BY DEF IInv
<1>1. UNCHANGED <<app, writes>>
  BY DEF CleanerStep, StartCleaning, GetFirstSegment, GetSegment, BeginScan, Claim, Skip,
     EndWalk, Misread, Drop, Copy, FindFull, Retire, Refill, Advance, Reclaim, ReclaimNothing, Finish
<1>2. InFlight' = InFlight /\ Returned' = Returned /\ Creating' = Creating
  BY <1>1 DEF InFlight, Returned, Creating, Pending
<1>3. SameValues /\ \A id \in Ids \ InFlight : hash'[id] # Null => hash[id] # Null
  <2>1. CASE ~Copy(c)
    <3>1. UNCHANGED <<content, hash>>
      BY <2>1 DEF CleanerStep, StartCleaning, GetFirstSegment, GetSegment, BeginScan, Claim, Skip,
         EndWalk, Misread, Drop, FindFull, Retire, Refill, Advance, Reclaim, ReclaimNothing, Finish
    <3> QED BY <1>1, <1>2, <3>1, ValuesKept DEF CurrentKept
  <2>2. CASE Copy(c)
    <3>1. PICK s \in Segs, t \in Segs, e \in Entry, k \in Cells :
              s = cl[c].seg /\ t = cl[c].cur /\ e = Visited(c) /\ k = fill[s]
      <4>1. fill[cl[c].seg] \in Cells
        BY <2>2, CopyFacts
      <4> QED BY <2>2, <4>1, CopyFacts
    <3>2. content' = Written(s, fill[s], e) /\ hash' = [hash EXCEPT ![e.id] = <<s, k>>]
      BY <2>2, <3>1 DEF Copy
    <3>3. e.id \in Ids /\ InFlight = {} /\ hash[e.id] = <<t, cl[c].pos>> /\ hash[e.id] # Null
      <4>1. e.id \in Ids /\ InFlight = {} /\ hash[e.id] = <<t, cl[c].pos>>
        BY <2>2, <3>1, CopiedCurrent
      <4> QED BY <4>1, PlaceFacts
    <3>4. /\ \A id \in Ids : hash'[id] = IF id = e.id THEN <<s, k>> ELSE hash[id]
          /\ <<s, k>> # Null
      BY <1>0, <3>2, PlaceFacts DEF TypeOK
    <3>5. CurrentKept
      BY <1>0, <3>2, WrittenWhole, WholeCurrent
    <3>6. content'[s][k] = e
      <4>1. \A i \in Cells : content'[s][i] = IF i = fill[s] THEN e
                                              ELSE IF i > fill[s] /\ i < fill[s] + Size(e) THEN Data
                                              ELSE content[s][i]
        BY <1>0, <3>2, WrittenCells
      <4> QED BY <3>1, <4>1
    <3>7. Value(e.id)' = e.val
      <4>1. At(hash[e.id])' = e
        BY <3>3, <3>4, <3>6 DEF At
      <4>2. hash'[e.id] # Null /\ e.id \notin InFlight'
        BY <1>2, <3>3, <3>4
      <4> QED BY <4>1, <4>2 DEF Value
    <3>8. Value(e.id) = e.val
      <4>1. PICK q : q = cl[c].pos
        OBVIOUS
      <4>2. hash[e.id] = <<t, q>> /\ e = content[t][q]
        BY <3>1, <3>3, <4>1 DEF Visited
      <4>3. At(hash[e.id]) = e
        BY <4>2 DEF At
      <4> QED BY <3>3, <4>3 DEF Value
    <3>9. ASSUME NEW id \in Ids, id # e.id PROVE Value(id)' = Value(id)
      <4>1. hash'[id] = hash[id] /\ id \notin InFlight /\ id \notin InFlight'
        BY <1>2, <3>3, <3>4, <3>9
      <4>2. hash[id] # Null => At(hash[id])' = At(hash[id])
        BY <3>5, <4>1 DEF CurrentKept, At
      <4> QED BY <4>1, <4>2 DEF Value
    <3> QED BY <3>3, <3>4, <3>7, <3>8, <3>9 DEF SameValues
  <2> QED BY <2>1, <2>2
<1>4. Values'
  BY <1>1, <1>2, <1>3 DEF Values, SameValues, Writing
<1> QED BY <1>2, <1>3, <1>4, StoreUnseen

SInv == VInv /\ (hazards = {} => Values)

LEMMA SInvInit ==
    ASSUME Init
    PROVE  SInv /\ Store!Init
<1>1. VInv
  BY VInvInit
<1>2. Values
  BY DEF Init, Idle, Values, Writing
<1>3. \A id \in Ids : Value(id) = 0
  BY DEF Init, Idle, Value, InFlight
<1>4. Store!Init
  BY <1>3 DEF Init, Idle, Store!Init, Pending
<1> QED BY <1>1, <1>2, <1>4 DEF SInv

LEMMA SInvStep ==
    ASSUME NoRebirth, SInv, [Next]_vars
    PROVE  SInv' /\ [Store!Next]_(Store!vars)
<1>1. VInv'
  BY VInvStep DEF SInv
<1>2. CASE UNCHANGED vars
  <2>1. Values' = Values /\ hazards' = hazards
    BY <1>2 DEF vars, heapVars, listVars, lockVars, Values, Value, At, InFlight, Writing
  <2>2. UNCHANGED Store!vars
    BY <1>2 DEF vars, heapVars, listVars, lockVars, Store!vars, Value, At, InFlight, Pending
  <2> QED BY <1>1, <2>1, <2>2 DEF SInv
<1>3. CASE Next
  <2>1. CASE hazards' = {}
    <3>1. hazards = {} /\ IInv /\ AppEntry /\ Rows /\ HInv /\ NInv /\ Values
      BY <1>3, <2>1, HazardsGrow DEF SInv, VInv, CInv
    <3> QED BY <1>1, <1>3, <2>1, <3>1, StoreNewCall, StoreCallStep, StoreCleaner DEF Next, SInv
  <2>2. CASE hazards' # {}
    BY <1>1, <2>2 DEF SInv, Store!Next, Store!Keeps
  <2> QED BY <2>1, <2>2
<1> QED BY <1>2, <1>3

(* The heap implements HeapStore: as long as no hazard has struck, an      *)
(* object has the value of the last writing call that returned, or that    *)
(* is replacing it under update_move_mutex, and the client sees nothing of *)
(* the cleaner threads (README.md:20, cleaner.c:77-160,                    *)
(* log_pmem.c:194-320).                                                    *)
THEOREM HeapImplementsStore ==
    ASSUME NoRebirth
    PROVE  Spec => ImplementsStore
<1>1. Init => SInv /\ Store!Init
  BY SInvInit
<1>2. SInv /\ [Next]_vars => SInv' /\ [Store!Next]_(Store!vars)
  BY SInvStep
<1> QED BY <1>1, <1>2, PTL DEF Spec, ImplementsStore, Store!Spec

=============================================================================
