----------------------------- MODULE MCLogHeap -----------------------------
(* Instances of LogHeap for TLC.                                           *)
EXTENDS LogHeap

(* The cleaner threads run the same code.                                  *)
Symmetry == Permutations(Cleaners)
=============================================================================
