------------------------------- MODULE MCVMem -------------------------------
(* Instances of VMem.tla for TLC; the numbers are in the cfg files.        *)
EXTENDS VMem

\* No instruction looks at the name of a process or a region, or at a value
Interchangeable ==
    Permutations(Proc) \cup Permutations(RgId) \cup Permutations(Val)
=============================================================================
