----------------------------- MODULE HeapStore -----------------------------
(***************************************************************************)
(* What the persistent heap promises its client: a partial map from object *)
(* ids to values.  palloc and palloc_with_id create an object, update_data *)
(* replaces its value, pfree removes it; everything the cleaner threads do *)
(* is invisible.  The writing calls are numbered in the order they are     *)
(* made and a call's number stands for the data it passes, so that a value *)
(* appears at most once, at its call, and an old one never comes back.     *)
(*                                                                         *)
(* The promise is void once the detailed model has met one of the hazards  *)
(* it names ("broken"): the code then gives no guarantee, and the          *)
(* violation runs of the project show what it does instead.                *)
(***************************************************************************)
EXTENDS Naturals

CONSTANTS
    Ids,        \* object ids
    NoValue,    \* "there is no such object"
    NoCall      \* "no object is being created"

VARIABLES
    store,      \* the value of every object
    calls,      \* the number of writing calls that have taken effect or failed
    creating,   \* the id that palloc or palloc_with_id is creating
    full,       \* is there no free segment?  The calls and the cleaners change it
    broken      \* has a hazard voided the promise?

vars == <<store, calls, creating, full, broken>>

Init ==
    /\ store = [id \in Ids |-> NoValue]
    /\ calls = 0
    /\ creating = NoCall
    /\ full \in BOOLEAN
    /\ broken = FALSE

(* palloc or palloc_with_id: there is no such object.                      *)
Begin(id) ==
    /\ creating = NoCall /\ store[id] = NoValue
    /\ creating' = id
    /\ UNCHANGED <<store, calls>>

Created ==
    /\ creating # NoCall
    /\ calls' = calls + 1
    /\ store' = [store EXCEPT ![creating] = calls']
    /\ creating' = NoCall

NotCreated ==
    /\ creating # NoCall
    /\ calls' = calls + 1
    /\ creating' = NoCall
    /\ UNCHANGED store

Update(id) ==
    /\ creating = NoCall /\ store[id] # NoValue
    /\ calls' = calls + 1
    /\ store' = [store EXCEPT ![id] = calls']
    /\ UNCHANGED creating

Remove(id) ==
    /\ creating = NoCall /\ store[id] # NoValue
    /\ store' = [store EXCEPT ![id] = NoValue]
    /\ UNCHANGED <<calls, creating>>

(* A call fails only if there is no memory; all else is invisible.         *)
Promised ==
    \/ Created
    \/ full /\ NotCreated
    \/ \E id \in Ids : Begin(id) \/ Update(id) \/ Remove(id)
    \/ UNCHANGED <<store, calls, creating>>

(* A hazard may strike at any step, and then anything goes.                *)
Keeps(step) == \/ ~broken /\ step /\ full' \in BOOLEAN /\ UNCHANGED broken
               \/ broken'

Next == Keeps(Promised)

Spec == Init /\ [][Next]_vars

(* Over crashes: a call that a crash interrupts has taken effect or not.   *)
CrashSpec == Init /\ [][Keeps(Promised \/ NotCreated)]_vars
=============================================================================
