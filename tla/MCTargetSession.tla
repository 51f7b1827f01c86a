--------------------------- MODULE MCTargetSession ---------------------------
(***************************************************************************)
(* TargetSession for TLC: up to three targets between two reboots, enough  *)
(* for a list of two and a rescan.  A history variable tells the sessions  *)
(* of a host apart from those in which the keyboard attached a target too: *)
(* what gdb_main.c promises its host it keeps in the first only.           *)
(***************************************************************************)
EXTENDS TargetSession

VARIABLE shared   \* a target was attached from the keyboard since the last reboot

BothTasks == {"gdb", "ui"}

SharedInit == Init /\ shared = FALSE

SharedNext ==
    /\ Next
    /\ shared' = ((shared \/ AttachStart("ui")) /\ ~Reboot)

SharedSpec == SharedInit /\ [][SharedNext]_<<vars, shared>>

\* last_target too is NULL or in the list, whatever the host and the keyboard do
\* short of an attach from the keyboard: R, vRun and qXfer may dereference it
\* (gdb_main.c:319-329, 448-480, 669-687).
LastTargetLive == ~shared /\ last_target # Null => last_target \in Live

\* A host that was told it has a target still has it, unless it was told that the
\* target is gone: every way to lose cur_target answers or notifies (the "%Stop:W00"
\* of gdb_target_destroy_callback), short of an attach from the keyboard.
HostKnows == ~shared /\ dtr /\ hostTarget # Null => hostTarget = cur_target

=============================================================================
