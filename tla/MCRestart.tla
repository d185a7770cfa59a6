----------------------------- MODULE MCRestart -----------------------------
(* Instances of Restart for TLC: the constants are in the configurations.  *)
EXTENDS Restart
=============================================================================
