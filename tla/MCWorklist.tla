---------------------------- MODULE MCWorklist ----------------------------
(***************************************************************************)
(* Two VMs that share the compiler threads, with two code blocks and one.  *)
(***************************************************************************)
EXTENDS Worklist, TLC

CONSTANTS t1, t2, v1, v2, k1, k2, k3

MCVMOf == (k1 :> v1) @@ (k2 :> v1) @@ (k3 :> v2)
=============================================================================
