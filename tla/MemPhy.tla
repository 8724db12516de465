------------------------------- MODULE MemPhy -------------------------------
(***************************************************************************)
(* MEMPHY_get_freefp on one device that several CPUs share, statement by   *)
(* statement: no lock is taken anywhere on the way to it (mmvm_lock of     *)
(* libmem.c is declared and never used).  Node k of the free list stands   *)
(* for frame k until it is freed; NumFrames stands for NULL.  After        *)
(* free(), what a node holds is whatever the allocator put there, and the  *)
(* model stops following a CPU that looks at it.                           *)
(***************************************************************************)
EXTENDS Integers, FiniteSets

CONSTANTS
    CPU,           \* the CPU threads whose processes need frames
    NumFrames      \* frames of the device

Frame == 0 .. NumFrames - 1
NULL == NumFrames

VARIABLES
    free_fp_list,  \* the first node of the free list
    freed,         \* nodes that were given back to the allocator
    gpc,           \* where each CPU is in MEMPHY_get_freefp
    fp,            \* its local `fp'
    retfpn,        \* *retfpn, the frame it is about to return
    owned          \* frames the calls of each CPU have returned

vars == <<free_fp_list, freed, gpc, fp, retfpn, owned>>

\* MEMPHY_format: the frames in ascending order
Init ==
    /\ free_fp_list = 0
    /\ freed = {}
    /\ gpc = [c \in CPU |-> "out"]
    /\ fp = [c \in CPU |-> NULL]
    /\ retfpn = [c \in CPU |-> NULL]
    /\ owned = [c \in CPU |-> {}]

\* fp = mp->free_fp_list; an empty list ends the call
ReadHead(c) ==
    /\ gpc[c] = "out"
    /\ fp' = [fp EXCEPT ![c] = free_fp_list]
    /\ gpc' = [gpc EXCEPT ![c] = IF free_fp_list = NULL THEN "out" ELSE "fpn"]
    /\ UNCHANGED <<free_fp_list, freed, retfpn, owned>>

\* *retfpn = fp->fpn
ReadFpn(c) ==
    /\ gpc[c] = "fpn"
    /\ fp[c] \notin freed
    /\ retfpn' = [retfpn EXCEPT ![c] = fp[c]]
    /\ gpc' = [gpc EXCEPT ![c] = "next"]
    /\ UNCHANGED <<free_fp_list, freed, fp, owned>>

\* mp->free_fp_list = fp->fp_next
Unlink(c) ==
    /\ gpc[c] = "next"
    /\ fp[c] \notin freed
    /\ free_fp_list' = fp[c] + 1
    /\ gpc' = [gpc EXCEPT ![c] = "free"]
    /\ UNCHANGED <<freed, fp, retfpn, owned>>

\* free(fp), and the return.  If another CPU has freed the node already, the
\* allocator may abort the program; it does not notice when the chunk has
\* been handed out again meanwhile, as alloc_pages_range does at once
FreeNode(c) ==
    /\ gpc[c] = "free"
    /\ freed' = freed \cup {fp[c]}
    /\ owned' = [owned EXCEPT ![c] = @ \cup {retfpn[c]}]
    /\ gpc' = [gpc EXCEPT ![c] = "out"]
    /\ UNCHANGED <<free_fp_list, fp, retfpn>>

\* fp points to freed memory when it is followed
UseAfterFree(c) ==
    /\ gpc[c] \in {"fpn", "next"}
    /\ fp[c] \in freed
    /\ gpc' = [gpc EXCEPT ![c] = "lost"]
    /\ UNCHANGED <<free_fp_list, freed, fp, retfpn, owned>>

Next ==
    \E c \in CPU :
        ReadHead(c) \/ ReadFpn(c) \/ Unlink(c) \/ FreeNode(c) \/ UseAfterFree(c)

Spec == Init /\ [][Next]_vars

\* "Protect access with locking": a frame is handed out to one CPU only
HandedOutOnce ==
    \A c, d \in CPU : c # d => owned[c] \cap owned[d] = {}
=============================================================================
