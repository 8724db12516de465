----------------------------- MODULE MCKillall -----------------------------
(* Instances of Killall.tla for TLC; the constants are in the cfg file.    *)
EXTENDS Killall
=============================================================================
