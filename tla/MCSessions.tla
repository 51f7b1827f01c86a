----------------------------- MODULE MCSessions -----------------------------
(***************************************************************************)
(* Sessions, from above and from below, one or the other in a behaviour:   *)
(* who holds which target (TargetSession, with two tasks), and what the    *)
(* scans, attaches and detaches of two RISC-V harts behind a JTAG chain do *)
(* (RiscvMem), on ten boards.                                              *)
(***************************************************************************)
EXTENDS MCTargetSession, RiscvMem

VARIABLE level   \* "tasks" or "harts"

Dev(cap, quirk, handler) == [cap |-> cap, quirk |-> quirk, handler |-> handler]
MCKinds == [rv |-> Dev(<<1, 0, 0, 0>>, FALSE, "dtm"), dp |-> Dev(<<1, 0, 0>>, FALSE, "dp"),
            fpga |-> Dev(<<1, 0, 1, 0>>, TRUE, "none"), odd |-> Dev(<<1, 0, 1>>, FALSE, "none"),
            dull |-> Dev(<<0, 0, 0>>, FALSE, "none")]
On(chain, widths) == [chain |-> chain, widths |-> widths]
MCBoards == {On(<<"dp", "rv">>, {}), On(<<"fpga", "rv">>, {4}), On(<<"rv">>, {1, 2, 4}), On(<<"rv">>, {2}),
             On(<<>>, {}), On(<<"rv", "odd">>, {}), On(<<"dp", "dp", "fpga", "rv">>, {}),
             On(<<"dull", "rv">>, {}), On(<<"fpga", "dull">>, {}), On(<<"dp", "dull">>, {})}
MCHarts == <<2>>
MCXlen == (<<1, 0>> :> 32) @@ (<<1, 1>> :> 64)

\* The level that does not run stands still: the tasks before a scan, the harts on an
\* empty board.
LevelInit ==
    /\ SharedInit /\ RvInit
    /\ \/ level = "tasks" /\ m = Fresh(<<>>, {})
       \/ level = "harts"

LevelNext ==
    \/ level = "tasks" /\ SharedNext /\ UNCHANGED <<level, rvVars>>
    \/ level = "harts" /\ RvNext /\ UNCHANGED <<level, vars, shared>>

LevelSpec == LevelInit /\ [][LevelNext]_<<level, vars, shared, rvVars>>
=============================================================================
