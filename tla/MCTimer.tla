------------------------------ MODULE MCTimer ------------------------------
(* Instances of Timer.tla for TLC; the numbers are in the cfg files.       *)
EXTENDS Timer
=============================================================================
