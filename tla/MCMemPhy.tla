------------------------------ MODULE MCMemPhy ------------------------------
(* Instances of MemPhy.tla for TLC; the numbers are in the cfg files.      *)
EXTENDS MemPhy
=============================================================================
