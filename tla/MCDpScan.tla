------------------------------ MODULE MCDpScan ------------------------------
(* Buses for DpScan: a single port with a gap between its access ports and  *)
(* a core beyond the last access port that is looked at, a part that        *)
(* repeats its access port, two cores and a rescue port on a multi-drop     *)
(* line, an empty wire.                                                     *)
EXTENDS DpScan, TLC

Dp(ver, rescue, seq) == [ver |-> ver, rescue |-> rescue, aps |-> seq]
MCBuses == {
    << >>,
    (0 :> Dp(1, FALSE, <<"two", "absent", "recovery", "core">>)),
    (0 :> Dp(1, FALSE, <<"duped", "duped">>)),
    (0 :> Dp(2, FALSE, <<"core">>) @@ 1 :> Dp(2, FALSE, <<"empty", "core">>)),
    (0 :> Dp(2, FALSE, <<"core">>) @@ 1 :> Dp(2, TRUE, << >>))}
MCResetScans == {"swd"}
=============================================================================
