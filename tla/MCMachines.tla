----------------------------- MODULE MCMachines -----------------------------
(* Model values for Machines.                                              *)
EXTENDS Machines, TLC

CONSTANTS h1, h2, h3, v, w, nfs1, nfs2, t1, t2, none

Symmetry == Permutations(Hosts) \cup Permutations(Slots) \cup Permutations(Shares)
=============================================================================
