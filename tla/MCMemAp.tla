------------------------------- MODULE MCMemAp -------------------------------
(***************************************************************************)
(* Small instances of the two ways to a target's memory, one or the other  *)
(* in a behaviour: MemAp with pages of eight bytes, one and a half, so that *)
(* transfers cross page boundaries at every alignment, and CortexArMem     *)
(* with enough memory for its fast mode (three words) at every alignment.  *)
(***************************************************************************)
EXTENDS MemAp, CortexArMem

VARIABLE way   \* the port's own transfers, or those through a Cortex-A/R core

WayInit == way \in {"port", "core"} /\ Init /\ ArInit /\ (way = "core" => transport = "swd")

WayNext ==
    \/ way = "port" /\ Next /\ UNCHANGED <<way, arVars>>
    \/ way = "core" /\ ArNext /\ UNCHANGED <<way, vars>>

WaySpec == WayInit /\ [][WayNext]_<<way, vars, arVars>>

MCUnmapped == {11}

\* Nothing, single elements, and several bytes, halfwords and words.
MCLens == {0, 1, 3, 4, 6, 8}
=============================================================================
