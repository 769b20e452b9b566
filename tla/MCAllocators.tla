---------------------------- MODULE MCAllocators ----------------------------
(***************************************************************************)
(* The allocators for TLC: frames as FrameMgmt and as InvPt keep them, the *)
(* virtual heap of a process, and kernel memory with its buffer pools.     *)
(* They share nothing: `part' says which one a behaviour is about, and the *)
(* others stay in their initial state.                                     *)
(*                                                                         *)
(* As in the kernel, the frame table starts at FRAME0 > 0, so the last     *)
(* FRAME0 frames of E2 are the ones that invtakeframe's bound test rejects. *)
(***************************************************************************)
EXTENDS FrameMgmt, InvPt, VHeap, Memory

VARIABLE part

MCInit ==
  /\ part \in {"frames", "invpt", "vheap", "memory"}
  /\ Init /\ InvptInit /\ VhInit /\ meminit

MCNext ==
  \/ part = "frames" /\ Next /\ UNCHANGED <<part, invptvars, vhvars, memvars>>
  \/ part = "invpt" /\ InvptNext /\ UNCHANGED <<part, fm, vhvars, memvars>>
  \/ part = "vheap" /\ VhNext /\ UNCHANGED <<part, fm, invptvars, memvars>>
  \/ part = "memory" /\ MemNext /\ UNCHANGED <<part, fm, invptvars, vhvars>>

MCSpec == MCInit /\ [][MCNext]_<<part, fm, invptvars, vhvars, memvars>>
=============================================================================
