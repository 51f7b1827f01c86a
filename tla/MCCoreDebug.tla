---------------------------- MODULE MCCoreDebug ----------------------------
(* Instances of CoreDebug for TLC: two addresses, which only equality tells *)
(* apart.                                                                  *)
EXTENDS CoreDebug, TLC

CONSTANTS a1, a2

AddrSymmetry == Permutations(Addrs)
==========================================================================
