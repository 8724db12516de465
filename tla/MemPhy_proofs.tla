---------------------------- MODULE MemPhy_proofs ----------------------------
(***************************************************************************)
(* The free list of a device without the race.  MemPhy.tla shows that two  *)
(* CPUs in MEMPHY_get_freefp at the same time may get one frame; here it   *)
(* is proved that nothing else is wrong with it: while the calls do not    *)
(* overlap, as the unused mmvm_lock would see to, each frame is handed out *)
(* once.  That is the step TakeFrame of VMem.tla.                          *)
(***************************************************************************)
EXTENDS MemPhy, TLAPS

\* At most one CPU is in MEMPHY_get_freefp
OneAtATime == \A c, d \in CPU : gpc[c] # "out" /\ gpc[d] # "out" => c = d

\* The nodes before free_fp_list are used up, those from it on are not.  In
\* between is the node of the call under way: it is the head until it is
\* unlinked, and then the one before, which nobody owns yet
ListInv ==
    /\ free_fp_list \in 0 .. NumFrames
    /\ freed \in SUBSET (0 .. free_fp_list - 1)
    /\ gpc \in [CPU -> {"out", "fpn", "next", "free"}]
    /\ fp \in [CPU -> 0 .. NumFrames]
    /\ retfpn \in [CPU -> 0 .. NumFrames]
    /\ owned \in [CPU -> SUBSET (0 .. free_fp_list - 1)]
    /\ \A c \in CPU :
          /\ gpc[c] \in {"fpn", "next"} => fp[c] = free_fp_list /\ fp[c] # NULL
          /\ gpc[c] \in {"next", "free"} => retfpn[c] = fp[c]
          /\ gpc[c] = "free" => /\ free_fp_list = fp[c] + 1
                                /\ \A d \in CPU : fp[c] \notin owned[d]

\* The device starts like that
LEMMA ListInit ==
    ASSUME NumFrames \in Nat, Init
    PROVE  ListInv /\ HandedOutOnce
  BY DEF Init, ListInv, HandedOutOnce, NULL

\* Every step keeps it, if only one CPU is inside
LEMMA ListStep ==
    ASSUME NumFrames \in Nat, ListInv, HandedOutOnce, OneAtATime, [Next]_vars
    PROVE  ListInv' /\ HandedOutOnce'
<1> USE DEF ListInv, NULL
<1>1. ASSUME NEW c \in CPU, ReadHead(c) PROVE ListInv' /\ HandedOutOnce'
  BY <1>1 DEF ReadHead, HandedOutOnce
<1>2. ASSUME NEW c \in CPU, ReadFpn(c) PROVE ListInv' /\ HandedOutOnce'
  BY <1>2 DEF ReadFpn, HandedOutOnce
<1>3. ASSUME NEW c \in CPU, Unlink(c) PROVE ListInv' /\ HandedOutOnce'
  <2>1. /\ free_fp_list \in 0 .. NumFrames - 1 /\ free_fp_list' = free_fp_list + 1
        /\ fp[c] = free_fp_list /\ retfpn[c] = fp[c]
        /\ gpc' = [gpc EXCEPT ![c] = "free"]
        /\ UNCHANGED <<freed, fp, retfpn, owned>>
    BY <1>3 DEF Unlink
  <2>2. \A d \in CPU \ {c} : gpc[d] = "out"  BY <1>3 DEF OneAtATime, Unlink
  <2>3. 0 .. free_fp_list - 1 \subseteq 0 .. free_fp_list' - 1  BY <2>1
  <2>4. \A d \in CPU : fp[c] \notin owned[d]  BY <2>1
  <2>5. freed' \in SUBSET (0 .. free_fp_list' - 1)  BY <2>1, <2>3
  <2>6. owned' \in [CPU -> SUBSET (0 .. free_fp_list' - 1)]  BY <2>1, <2>3
  <2>7. \A d \in CPU :
          /\ gpc'[d] \in {"fpn", "next"} => fp'[d] = free_fp_list' /\ fp'[d] # NULL
          /\ gpc'[d] \in {"next", "free"} => retfpn'[d] = fp'[d]
          /\ gpc'[d] = "free" => /\ free_fp_list' = fp'[d] + 1
                                 /\ \A e \in CPU : fp'[d] \notin owned'[e]
    BY <2>1, <2>2, <2>4
  <2>8. HandedOutOnce'  BY <2>1 DEF HandedOutOnce
  <2> QED  BY <2>1, <2>5, <2>6, <2>7, <2>8
<1>4. ASSUME NEW c \in CPU, FreeNode(c) PROVE ListInv' /\ HandedOutOnce'
  <2>1. /\ fp[c] \in 0 .. free_fp_list - 1 /\ retfpn[c] = fp[c]
        /\ \A d \in CPU : fp[c] \notin owned[d]
        /\ freed' = freed \cup {fp[c]}
        /\ owned' = [owned EXCEPT ![c] = owned[c] \cup {fp[c]}]
        /\ gpc' = [gpc EXCEPT ![c] = "out"]
        /\ UNCHANGED <<free_fp_list, fp, retfpn>>
    <3>1. gpc[c] = "free" /\ fp[c] \in 0 .. NumFrames  BY <1>4 DEF FreeNode
    <3>2. /\ free_fp_list = fp[c] + 1 /\ retfpn[c] = fp[c]
          /\ \A d \in CPU : fp[c] \notin owned[d]
      BY <3>1
    <3>3. fp[c] \in 0 .. free_fp_list - 1  BY <3>1, <3>2
    <3> QED  BY <1>4, <3>2, <3>3 DEF FreeNode
  <2>2. \A d \in CPU \ {c} : gpc[d] = "out"  BY <1>4 DEF OneAtATime, FreeNode
  <2>3. ListInv'  BY <2>1, <2>2
  <2>4. HandedOutOnce'  BY <2>1 DEF HandedOutOnce
  <2> QED  BY <2>3, <2>4
<1>5. ASSUME NEW c \in CPU, UseAfterFree(c) PROVE FALSE
  BY <1>5 DEF UseAfterFree
<1>6. CASE UNCHANGED vars
  BY <1>6 DEF vars, HandedOutOnce
<1> QED  BY <1>1, <1>2, <1>3, <1>4, <1>5, <1>6 DEF Next

\* While the calls do not overlap, no two CPUs get one frame, and no node is
\* followed that was freed: for any number of CPUs and frames the race is the
\* only thing that is wrong
THEOREM OnlyTheRace ==
    ASSUME NumFrames \in Nat
    PROVE  Spec /\ []OneAtATime => []HandedOutOnce /\ [][\A c \in CPU : ~UseAfterFree(c)]_vars
<1>1. Init => ListInv /\ HandedOutOnce  BY ListInit
<1>2. ListInv /\ HandedOutOnce /\ OneAtATime /\ [Next]_vars => ListInv' /\ HandedOutOnce'
  BY ListStep
<1>3. ListInv => \A c \in CPU : ~UseAfterFree(c)
  BY DEF ListInv, UseAfterFree, NULL
<1>4. ListInv => [\A c \in CPU : ~UseAfterFree(c)]_vars  BY <1>3
<1> QED  BY <1>1, <1>2, <1>4, PTL DEF Spec
=============================================================================
