----------------------------- MODULE MCDrivers -----------------------------
(***************************************************************************)
(* What the drivers of the parts do, in two halves, one or the other in a   *)
(* behaviour: the flash routines of every driver (FlashCall), and the       *)
(* probes, attaches, detaches and commands of every driver (ProbeChain).    *)
(***************************************************************************)
EXTENDS FlashCall

VARIABLES
    half,   \* "flash" or "probe"
    part, known, chain, who, phase, pcode, tgt, store, core, cfg, saved, before, plink, trouble, upsets, sessions

probeVars == <<part, known, chain, who, phase, pcode, tgt, store, core, cfg, saved, before, plink, trouble, upsets, sessions>>

MCTried == DOMAIN Drivers

Probes == INSTANCE ProbeChain WITH code <- pcode, link <- plink, MaxUpsets <- 2, MaxSessions <- 3

\* The half that does not run stands still in one of its initial states.
HalfInit ==
    /\ Init
    /\ Probes!Init
    /\ \/ half = "flash" /\ chain = <<"rp">> /\ part = "other"
       \/ half = "probe" /\ drv = "rp" /\ ctl[1] = AfterReset("rp") /\ ~stuck

FlashNext == half = "flash" /\ Next /\ UNCHANGED <<half, probeVars>>

HalfNext ==
    \/ FlashNext
    \/ half = "probe" /\ Probes!Next /\ UNCHANGED <<half, vars>>

\* The routines of a driver run on; what the parts and the users do is up to them.
HalfSpec == HalfInit /\ [][HalfNext]_<<half, vars, probeVars>> /\ Fairness

-----------------------------------------------------------------------------
(* Properties; those of FlashCall hold as they stand. *)

\* What a flash routine returns is true: true only for a job done, and false not for
\* ever after a failure that is over (the routines of FlashDrivers).
ResultTrue == TypeOK /\ TrueIsDone /\ FailureEnds

\* The chain of probes finds a part's own driver and harms nobody: a probe that says no
\* leaves no trace, none locks the part up, and a scan ends; what an attach adds or
\* changes is there once and is taken back, also when an allocation fails.
ProbesRight ==
    /\ Probes!TypeOK
    /\ Probes!RejectedIsClean /\ Probes!RightDriver /\ Probes!NoHarm /\ Probes!ProbesReturn
    /\ Probes!MapOnce /\ Probes!DetachRestores /\ Probes!StorageKept /\ Probes!NullNoticed
=============================================================================
