------------------------------- MODULE DpScan -------------------------------
(***************************************************************************)
(* A scan: swd_scan, jtag_scan, auto_scan or the emulated target.  The list *)
(* of targets is freed, debug ports are found, their access ports counted,  *)
(* and every core or recovery port becomes a target that holds a reference  *)
(* on its access port, which holds one on its debug port.                   *)
(*                                                                         *)
(* The scan runs under TRY_CATCH.  Any access may raise, any calloc may     *)
(* fail, and on a multi-drop line any noise deselects the port in use.      *)
(* TRY_CATCH keeps a chain of handlers that live on the stack.              *)
(***************************************************************************)
EXTENDS Integers, Sequences, FiniteSets, FiniteSetsExt

CONSTANTS
    Buses,        \* what may be on the wire: functions from instance to a debug port
    MaxInst,      \* instances of a multi-drop scan, positions of a chain (16, JTAG_MAX_DEVS)
    MaxAps,       \* access ports a debug port may have (256)
    MaxInvalid,   \* unusable access ports before the scan of a port stops (8)
    ResetScans,   \* bound: the commands tried with `monitor connect_rst` enabled, as the last scan
    MaxObjs,      \* bound: objects of each kind in a behaviour
    MaxScans,     \* bound: scans
    MaxUpsets     \* bound: exceptions, noise on the line and failed allocations

ASSUME BoundAssumption ==
    MaxInst \in Nat /\ {MaxAps, MaxInvalid} \subseteq Nat \ {0} /\ {MaxObjs, MaxScans, MaxUpsets} \subseteq Nat

ApKinds == {"absent", "recovery", "empty", "core", "two", "duped"}
ASSUME BusesAssumption ==
    \A b \in Buses : /\ DOMAIN b \subseteq 0 .. MaxInst - 1
                     /\ \A i \in DOMAIN b : /\ b[i].ver \in 0 .. 2 /\ b[i].rescue \in BOOLEAN
                                            /\ \A k \in DOMAIN b[i].aps : b[i].aps[k] \in ApKinds

VARIABLES
    bus,         \* the debug ports on the wire
    dps,         \* adiv5_debug_port_s objects
    aps,         \* adiv5_access_port_s objects
    tgts,        \* target_s objects
    list,        \* target_list
    f,           \* the locals of the scan that runs
    selected,    \* the instance the multi-drop line has selected
    innermost,   \* innermost_exception
    outer,       \* e.outer of each handler
    live,        \* the handlers whose function has not returned
    causes,      \* what has gone wrong: "raised", "starved", "torn", "broke", "noise"
    raises, noises, starved, scans

heap == <<dps, aps, tgts, list>>
handlers == <<innermost, outer, live>>
budget == <<raises, noises, starved, scans>>
vars == <<bus, heap, f, selected, handlers, causes, budget>>

Ids == 1 .. MaxObjs
None == -1
Sites == {"swd", "jtag", "auto", "emu"}
Null == "null"
Over == {"abort", "wild", "nullderef"}      \* the firmware is gone: abort(), undefined, a NULL dereference
Fresh(objs) == CHOOSE i \in Ids : objs[i].st = "unused" /\ \A j \in Ids : j < i => objs[j].st # "unused"
Room(objs) == \E i \in Ids : objs[i].st = "unused"

NoDp == [st |-> "unused", ref |-> 0, inst |-> None, ver |-> 0, sel |-> FALSE, duped |-> FALSE]
NoAp == [st |-> "unused", ref |-> 0, dp |-> 0, k |-> 0]
NoTgt == [st |-> "unused", ap |-> 0, priv |-> "none", attached |-> FALSE, halted |-> FALSE]
NoFrame == [pc |-> "idle", site |-> Null, how |-> "swd", first |-> 0, dp |-> 0, ap |-> 0, i |-> 0, k |-> 1,
            invalid |-> 0, cores |-> 0, tried |-> FALSE, tid |-> FALSE, nrst |-> FALSE,
            halted |-> FALSE]

Init ==
    /\ bus \in Buses
    /\ dps = [i \in Ids |-> NoDp] /\ aps = [i \in Ids |-> NoAp] /\ tgts = [i \in Ids |-> NoTgt] /\ list = <<>>
    /\ f = NoFrame
    /\ selected = None
    /\ innermost = Null /\ outer = [s \in Sites |-> Null] /\ live = {}
    /\ causes = {} /\ raises = 0 /\ noises = 0 /\ starved = 0 /\ scans = 0

-----------------------------------------------------------------------------
(* References *)

\* adiv5_ap_ref, adiv5_ap_unref, adiv5_dp_unref on a heap [a : access ports, d : debug ports].
\* Mutant: the access port's first reference does not count on its debug port.
adiv5_ap_ref_Unshared(h, i) == [h EXCEPT !.a[i].ref = @ + 1]
adiv5_ap_ref(h, i) ==
    [a |-> [h.a EXCEPT ![i].ref = @ + 1],
     d |-> IF h.a[i].ref = 0 THEN [h.d EXCEPT ![h.a[i].dp].ref = @ + 1] ELSE h.d]

Free(objs, i) == [objs EXCEPT ![i].st = "freed"]
Dropped(objs, i) == [objs EXCEPT ![i].ref = @ - 1, ![i].st = IF objs[i].ref = 1 THEN "freed" ELSE @]

adiv5_dp_unref(h, i) == [h EXCEPT !.d = Dropped(h.d, i)]

adiv5_ap_unref(h, i) ==
    LET dropped == [h EXCEPT !.a = Dropped(h.a, i)]
    IN  IF h.a[i].ref = 1 THEN adiv5_dp_unref(dropped, h.a[i].dp) ELSE dropped

Heap == [a |-> aps, d |-> dps]
SetHeap(h) == aps' = h.a /\ dps' = h.d

-----------------------------------------------------------------------------
(* Handlers *)

\* TRY_CATCH
Enter(site) ==
    /\ outer' = [outer EXCEPT ![site] = innermost]
    /\ innermost' = site
    /\ live' = live \union {site}

\* Raised by an access: raise_exception takes the innermost handler, which
\* catches everything, and the scan's command returns.
raise_exception ==
    /\ causes' = causes \union {"raised"}
    /\ raises' = raises + 1
    /\ CASE innermost = Null -> f' = [f EXCEPT !.pc = "abort"] /\ UNCHANGED handlers
         [] innermost \in live -> /\ f' = NoFrame /\ innermost' = outer[innermost] /\ live' = {}
                                  /\ UNCHANGED outer
         [] OTHER -> f' = [f EXCEPT !.pc = "wild"] /\ UNCHANGED handlers
    /\ UNCHANGED <<noises, starved, scans>>

\* The end of a TRY_CATCH body: the for loop goes on while e is still the innermost.
Finish ==
    /\ innermost' = outer[f.site]
    /\ UNCHANGED <<outer, causes>>
    /\ IF outer[f.site] = f.site
       THEN f' = [NoFrame EXCEPT !.site = f.site, !.how = IF f.site = "auto" THEN "jtag" ELSE f.site, !.pc = "free",
                                 !.nrst = f.nrst]
            /\ live' = live
       ELSE f' = NoFrame /\ live' = live \ {f.site}

\* cmd_auto_scan leaves its TRY_CATCH with break: the loop's step is not taken.
Break ==
    /\ f' = NoFrame
    /\ live' = live \ {f.site}
    /\ causes' = causes \union {"broke"}
    /\ UNCHANGED <<innermost, outer>>

-----------------------------------------------------------------------------
(* The wire *)

MultiDrop(d) == dps[d].ver >= 2 /\ f.how # "jtag"
Answered(d) == ~MultiDrop(d) \/ selected # None \/ dps[d].sel
\* adiv5_dp_recoverable_access with adiv5_swd_clear_error: no response, line reset, TARGETSEL.
Reselected(d) == IF MultiDrop(d) /\ selected = None /\ dps[d].sel THEN dps[d].inst ELSE selected

At(pc) == f.pc = pc
Go(pc) == f' = [f EXCEPT !.pc = pc]
Calm == UNCHANGED <<causes, budget>>
MoreUpsets == raises + noises + starved < MaxUpsets
Starve ==
    /\ MoreUpsets
    /\ starved' = starved + 1 /\ causes' = causes \union {"starved"}
    /\ UNCHANGED <<raises, noises, scans>>

\* Something on the line that no access reports as an exception.
Disturbed == /\ MoreUpsets
             /\ noises' = noises + 1 /\ causes' = causes \union {"noise"}
             /\ UNCHANGED <<raises, starved, scans>>

\* The accesses of the step the scan is in raise.
AccessRaises ==
    /\ MoreUpsets
    /\ f.pc \in {"readid", "clone2", "sticky", "power", "newap", "recovery", "prepare", "component", "resume", "detach"}
    /\ IF At("detach")
       THEN causes' = causes \union {"raised"} \union (IF \E i \in 1 .. f.k - 1 : tgts[list[i]].st = "freed" THEN {"torn"} ELSE {})
            /\ raises' = raises + 1 /\ f' = NoFrame /\ innermost' = outer[innermost] /\ live' = {}
            /\ UNCHANGED <<outer, noises, starved, scans>>
       ELSE raise_exception
    /\ UNCHANGED <<bus, heap, selected>>

Noise ==
    /\ selected # None /\ f.pc \in {"idle", "init", "sticky", "power", "newap", "component"}
    /\ selected' = None /\ Disturbed
    /\ UNCHANGED <<bus, heap, f, handlers>>

-----------------------------------------------------------------------------
(* Commands, target_list_free *)

\* nrst is the setting of connect_assert_nrst, which only a scan reads.
scan_cmd(site, tid, nrst) ==
    /\ At("idle") /\ scans < MaxScans
    /\ scans' = scans + 1
    /\ f' = [NoFrame EXCEPT !.pc = IF site = "emu" THEN "newdp" ELSE "free", !.site = site, !.tid = tid, !.nrst = nrst,
                            !.how = IF site = "auto" THEN "jtag" ELSE site]
    /\ Enter(site)
    /\ UNCHANGED <<bus, heap, selected, causes, raises, noises, starved>>

Body == [swd |-> "newdp", jtag |-> "chain"]

NoList == <<>>

\* One target of target_list_free.  The list still names the targets already freed.
target_list_free ==
    /\ f.pc \in {"free", "detach"}
    /\ IF f.k > Len(list)
       THEN /\ list' = NoList /\ f' = [f EXCEPT !.pc = Body[f.how], !.k = 1]
            /\ UNCHANGED <<dps, aps, tgts, causes>>
       ELSE LET t == list[f.k]
            IN  CASE tgts[t].st = "freed" -> /\ f' = [f EXCEPT !.pc = "wild"] /\ UNCHANGED <<heap, causes>>
                  [] tgts[t].st # "freed" /\ tgts[t].attached /\ At("free") ->
                        /\ f' = [f EXCEPT !.pc = "detach"] /\ UNCHANGED <<heap, causes>>
                  [] OTHER ->
                        /\ SetHeap(IF tgts[t].priv = "none" THEN Heap ELSE adiv5_ap_unref(Heap, tgts[t].ap))
                        /\ tgts' = Free(tgts, t)
                        /\ f' = [f EXCEPT !.pc = "free", !.k = @ + 1]
                        /\ UNCHANGED <<list, causes>>
    /\ UNCHANGED <<bus, selected, handlers, budget>>

-----------------------------------------------------------------------------
(* Finding debug ports *)

NewDp(inst, ver, pc, slot) ==
    /\ Room(dps)
    /\ dps' = [dps EXCEPT ![Fresh(dps)] = [NoDp EXCEPT !.st = "live", !.inst = inst, !.ver = ver]]
    /\ f' = [f EXCEPT !.pc = pc, ![slot] = Fresh(dps)]
    /\ UNCHANGED <<aps, tgts, list>>

\* adiv5_swd_scan and emu_scan allocate the first port, adiv5_jtag_dp_handler one per device.
adiv5_swd_scan ==
    /\ At("newdp")
    /\ \/ /\ f.how = "swd" /\ NewDp(None, 0, IF f.tid THEN "multidrop" ELSE "ident", "first") /\ Calm
       \/ /\ f.how = "emu" /\ NewDp(None, 1, "init", "dp") /\ Calm
       \/ Starve /\ Go("ret") /\ UNCHANGED heap
    /\ UNCHANGED <<bus, selected, handlers>>

\* DPIDR of whoever answers, read under its own handler: after dormant_to_swd_sequence,
\* again after jtag_to_swd_sequence, then no more.
\* Mutant: it goes on trying.
GiveUp_Never == FALSE
GiveUp == f.tried

adiv5_dp_read_dpidr ==
    /\ At("ident")
    /\ \/ DOMAIN bus # {} /\ Calm /\ UNCHANGED selected
             /\ IF \E i \in DOMAIN bus : bus[i].ver >= 2 THEN Go("readid") /\ UNCHANGED dps
                ELSE /\ f' = [f EXCEPT !.pc = "init", !.dp = f.first, !.first = 0]
                     /\ dps' = [dps EXCEPT ![f.first].inst = CHOOSE i \in DOMAIN bus : TRUE]
       \/ (IF DOMAIN bus = {} THEN Calm ELSE Disturbed) /\ UNCHANGED selected
             /\ IF GiveUp THEN f' = [f EXCEPT !.pc = "ret", !.first = 0] /\ dps' = Free(dps, f.first)
                ELSE f' = [f EXCEPT !.tried = TRUE] /\ UNCHANGED dps
    /\ UNCHANGED <<bus, aps, tgts, list, handlers>>

ReadTargetId ==
    /\ At("readid")
    /\ Go("multidrop")
    /\ Calm /\ UNCHANGED <<bus, heap, selected, handlers>>

\* One instance: line reset, TARGETSEL, DPIDR.
adiv5_swd_multidrop_scan ==
    /\ At("multidrop")
    /\ IF f.i = MaxInst
       THEN f' = [f EXCEPT !.pc = "ret", !.first = 0] /\ dps' = Free(dps, f.first) /\ UNCHANGED selected
       ELSE /\ selected' = IF f.i \in DOMAIN bus THEN f.i ELSE None
            /\ f' = IF f.i \in DOMAIN bus THEN [f EXCEPT !.pc = "clone"] ELSE [f EXCEPT !.i = @ + 1]
            /\ UNCHANGED dps
    /\ Calm /\ UNCHANGED <<bus, aps, tgts, list, handlers>>

\* The test after this calloc is of dp, not of target_dp.
CloneDp ==
    /\ At("clone")
    /\ \/ NewDp(f.i, dps[f.first].ver, "clone2", "dp") /\ Calm
       \/ Starve /\ Go("nullderef") /\ UNCHANGED heap
    /\ UNCHANGED <<bus, selected, handlers>>

AbortDp ==
    /\ At("clone2")
    /\ Go("init")
    /\ Calm /\ UNCHANGED <<bus, heap, selected, handlers>>

\* jtag_scan calls adiv5_jtag_dp_handler for every device it knows.
adiv5_jtag_dp_handler ==
    /\ At("chain")
    /\ CASE f.i = MaxInst -> Go("ret") /\ Calm /\ UNCHANGED heap
         [] f.i < MaxInst /\ f.i \notin DOMAIN bus -> f' = [f EXCEPT !.i = @ + 1] /\ Calm /\ UNCHANGED heap
         [] f.i \in DOMAIN bus -> \/ NewDp(f.i, 0, "clone2", "dp") /\ Calm
                                  \/ Starve /\ f' = [f EXCEPT !.i = @ + 1] /\ UNCHANGED heap
    /\ UNCHANGED <<bus, selected, handlers>>

\* What follows adiv5_dp_init in its caller.
After == [f EXCEPT !.pc = IF f.how = "jtag" THEN "chain" ELSE IF f.first # 0 THEN "multidrop" ELSE "ret",
                   !.i = @ + 1, !.k = 1, !.invalid = 0, !.dp = 0, !.ap = 0]

-----------------------------------------------------------------------------
(* adiv5_dp_init *)

EmuPort == [ver |-> 1, rescue |-> FALSE, aps |-> <<"core">>]
Port == IF f.how = "emu" THEN EmuPort ELSE bus[dps[f.dp].inst]

\* DPIDR: on 0 the port is freed.
InitDp ==
    /\ At("init")
    /\ \/ /\ Answered(f.dp) /\ Calm
          /\ dps' = [dps EXCEPT ![f.dp].ver = Port.ver]
          /\ Go("sticky")
       \/ /\ IF Answered(f.dp) THEN Disturbed ELSE Calm
          /\ dps' = Free(dps, f.dp) /\ f' = After
    /\ selected' = Reselected(f.dp)
    /\ UNCHANGED <<bus, aps, tgts, list, handlers>>

\* Sticky errors are cleared; TARGETID gives the port its TARGETSEL value.
\* Until then error recovery selects nothing.
ClearSticky ==
    /\ At("sticky")
    /\ dps' = [dps EXCEPT ![f.dp].sel = dps[f.dp].ver >= 2 /\ (f.how = "jtag" \/ selected # None)]
    /\ Go(IF Port.rescue THEN "rescue" ELSE "power")
    /\ Calm /\ UNCHANGED <<bus, aps, tgts, list, selected, handlers>>

NewTarget(a, priv) ==
    /\ tgts' = [tgts EXCEPT ![Fresh(tgts)] = [NoTgt EXCEPT !.st = "live", !.ap = a, !.priv = priv, !.halted = priv = "core" /\ f.halted]]
    /\ list' = Append(list, Fresh(tgts))

\* An access port made up for the rescue port; nobody but its target refers to it.
rp_rescue_setup ==
    /\ At("rescue") /\ Room(aps) /\ Room(tgts)
    /\ f' = After
    /\ LET a == Fresh(aps)
           made == [aps EXCEPT ![a] = [NoAp EXCEPT !.st = "live", !.dp = f.dp]]
       IN  \/ Starve /\ UNCHANGED heap
           \/ Starve /\ aps' = made /\ UNCHANGED <<dps, tgts, list>>
           \/ Calm /\ SetHeap(adiv5_ap_ref([a |-> made, d |-> dps], a)) /\ NewTarget(a, "rescue")
    /\ UNCHANGED <<bus, selected, handlers>>

\* Power down, power up: without the acknowledgement the port is freed.
PowerDp ==
    /\ At("power")
    /\ \/ /\ Answered(f.dp) /\ Calm
          /\ dps' = [dps EXCEPT ![f.dp].ref = @ + 1]
          /\ Go("newap")
       \/ /\ IF Answered(f.dp) THEN Disturbed ELSE Calm
          /\ dps' = Free(dps, f.dp) /\ f' = After
    /\ selected' = Reselected(f.dp)
    /\ UNCHANGED <<bus, aps, tgts, list, handlers>>

ApKind(k) == IF k \in DOMAIN Port.aps THEN Port.aps[k] ELSE "absent"
Cores(kind) == CASE kind = "core" -> 1 [] kind = "two" -> 2 [] kind = "duped" -> 1 [] OTHER -> 0

\* adiv5_new_ap, or the end of the loop and its adiv5_dp_unref.  A port the scan
\* cannot use, or cannot allocate, counts as invalid; a usable one does not start the count again.
adiv5_new_ap ==
    /\ At("newap")
    /\ IF f.k > MaxAps \/ f.invalid = MaxInvalid
       THEN SetHeap(adiv5_dp_unref(Heap, f.dp)) /\ f' = After /\ Calm
       ELSE LET usable == ApKind(f.k) # "absent" /\ Answered(f.dp)
                a == Fresh(aps)
                missed == f' = [f EXCEPT !.k = @ + 1, !.invalid = @ + 1] /\ UNCHANGED <<dps, aps>>
            IN  \/ ~usable /\ missed /\ Calm
                \/ usable /\ missed /\ Starve
                \/ /\ usable /\ Room(aps) /\ Calm
                   /\ SetHeap(adiv5_ap_ref([a |-> [aps EXCEPT ![a] = [NoAp EXCEPT !.st = "live", !.dp = f.dp, !.k = f.k]],
                                            d |-> dps], a))
                   /\ f' = [f EXCEPT !.pc = "recovery", !.ap = a]
    /\ selected' = Reselected(f.dp)
    /\ UNCHANGED <<bus, tgts, list, handlers>>

\* kinetis_mdm_probe, nrf51_mdm_probe, efm32_aap_probe, lpc55_dmap_probe.
RecoveryProbes ==
    /\ At("recovery")
    /\ f' = [f EXCEPT !.pc = IF f.k = 1 THEN "prepare" ELSE "component", !.cores = Cores(ApKind(f.k)), !.halted = FALSE]
    /\ IF ApKind(f.k) = "recovery"
       THEN \/ Starve /\ UNCHANGED heap
            \/ Calm /\ Room(tgts) /\ SetHeap(adiv5_ap_ref(Heap, f.ap)) /\ NewTarget(f.ap, "recovery")
       ELSE Calm /\ UNCHANGED heap
    /\ selected' = Reselected(f.dp)
    /\ UNCHANGED <<bus, handlers>>

\* The core behind access port 0 is halted, and released from reset, for the ROM
\* tables to be readable; the scan goes on whether or not that worked.
cortexm_prepare ==
    /\ At("prepare")
    /\ \/ f' = [f EXCEPT !.pc = "component", !.halted = TRUE] /\ Calm
       \/ f' = [f EXCEPT !.pc = "component"] /\ Disturbed
    /\ UNCHANGED <<bus, heap, selected, handlers>>

\* The heads of cortexm_probe and cortexar_probe: the target is listed and
\* the reference taken before priv is allocated.
CoreHeap == adiv5_ap_ref(Heap, f.ap)

\* One component of the ROM table that is a core; a bad table ends the walk.
adiv5_component_probe ==
    /\ At("component")
    /\ IF f.cores = 0 THEN Go("resume") /\ Calm /\ UNCHANGED heap
       ELSE \/ Disturbed /\ Go("resume") /\ UNCHANGED heap
            \/ Starve /\ f' = [f EXCEPT !.cores = @ - 1] /\ UNCHANGED heap
            \/ Starve /\ Room(tgts) /\ SetHeap(CoreHeap) /\ NewTarget(f.ap, "none") /\ f' = [f EXCEPT !.cores = @ - 1]
            \/ /\ Calm /\ Room(tgts)
               /\ LET h == CoreHeap
                  IN  aps' = h.a /\ dps' = [h.d EXCEPT ![f.dp].duped = ApKind(f.k) = "duped"]
               /\ NewTarget(f.ap, "core") /\ f' = [f EXCEPT !.cores = @ - 1]
    /\ selected' = Reselected(f.dp)
    /\ UNCHANGED <<bus, handlers>>

\* target_halt_resume for the cores of this access port, unless connecting under reset.
ResumeCores ==
    /\ At("resume")
    /\ tgts' = [t \in Ids |-> IF ~f.nrst /\ (\E i \in DOMAIN list : list[i] = t) /\ tgts[t].ap = f.ap /\ tgts[t].priv = "core"
                              THEN [tgts[t] EXCEPT !.halted = FALSE] ELSE tgts[t]]
    /\ Go("unref")
    /\ Calm /\ UNCHANGED <<bus, dps, aps, list, selected, handlers>>

\* The scan's own reference; a port whose access port repeats itself is done.
\* Mutant: the repetition is not noticed.
EndAp_Repeats ==
    /\ At("unref") /\ SetHeap(adiv5_ap_unref(Heap, f.ap))
    /\ f' = [f EXCEPT !.pc = "newap", !.k = @ + 1, !.ap = 0]
    /\ Calm /\ UNCHANGED <<bus, tgts, list, selected, handlers>>
EndAp ==
    /\ At("unref")
    /\ LET h == adiv5_ap_unref(Heap, f.ap)
       IN  IF dps[f.dp].duped
           THEN SetHeap(adiv5_dp_unref(h, f.dp)) /\ f' = After
           ELSE SetHeap(h) /\ f' = [f EXCEPT !.pc = "newap", !.k = @ + 1, !.ap = 0]
    /\ Calm /\ UNCHANGED <<bus, tgts, list, selected, handlers>>

\* The scan returns to its command.
Found == IF f.how = "jtag" THEN DOMAIN bus # {} ELSE IF f.how = "emu" THEN TRUE ELSE list # <<>>
EndScan ==
    /\ At("ret")
    /\ CASE f.site = "auto" /\ Found -> Break
         [] f.site = "auto" /\ ~Found /\ f.how = "jtag" ->
              /\ f' = [NoFrame EXCEPT !.pc = "free", !.site = "auto", !.how = "swd", !.nrst = f.nrst]
              /\ UNCHANGED <<handlers, causes>>
         [] OTHER -> Finish
    /\ UNCHANGED <<bus, heap, selected, budget>>

-----------------------------------------------------------------------------
(* Sessions *)

Listed(t) == \E i \in DOMAIN list : list[i] = t
NobodyAttached == \A t \in Ids : ~(tgts[t].st = "live" /\ tgts[t].attached)

\* cortexm_attach and cortexar_attach mark their port as being in fault, so that
\* target_check_error resets the line and selects it.  The other targets do not.
Switched(d) == IF dps[d].ver >= 2 THEN dps[d].inst ELSE selected

Attach(t) ==
    /\ At("idle") /\ Listed(t) /\ NobodyAttached
    /\ tgts[t].st = "live" /\ tgts[t].priv \in {"core", "recovery"}
    /\ tgts' = [tgts EXCEPT ![t].attached = TRUE, ![t].halted = tgts[t].priv = "core"]
    /\ selected' = IF tgts[t].priv = "core" THEN Switched(aps[tgts[t].ap].dp) ELSE selected
    /\ Calm /\ UNCHANGED <<bus, dps, aps, list, f, handlers>>

Detach(t) ==
    /\ At("idle") /\ Listed(t) /\ tgts[t].st = "live" /\ tgts[t].attached
    /\ tgts' = [tgts EXCEPT ![t].attached = FALSE, ![t].halted = FALSE]
    /\ Calm /\ UNCHANGED <<bus, dps, aps, list, f, selected, handlers>>

\* An access of the attached target, outside of any scan.
Use(t) ==
    /\ At("idle") /\ Listed(t) /\ tgts[t].st = "live" /\ tgts[t].attached
    /\ LET d == aps[tgts[t].ap].dp
       IN  \/ selected' = Reselected(d) /\ Calm /\ UNCHANGED <<f, handlers>>
           \/ MoreUpsets /\ raise_exception /\ UNCHANGED selected
    /\ UNCHANGED <<bus, heap>>

Next ==
    \/ \E site \in Sites : scan_cmd(site, FALSE, FALSE)
    \/ scan_cmd("swd", TRUE, FALSE)
    \/ scans = MaxScans - 1 /\ \E site \in ResetScans : scan_cmd(site, FALSE, TRUE)
    \/ target_list_free \/ adiv5_swd_scan \/ adiv5_dp_read_dpidr \/ ReadTargetId \/ adiv5_swd_multidrop_scan
    \/ CloneDp \/ AbortDp \/ adiv5_jtag_dp_handler
    \/ InitDp \/ ClearSticky \/ rp_rescue_setup \/ PowerDp \/ adiv5_new_ap \/ RecoveryProbes \/ cortexm_prepare
    \/ adiv5_component_probe \/ ResumeCores \/ EndAp \/ EndScan
    \/ AccessRaises \/ Noise
    \/ \E t \in Ids : Attach(t) \/ Detach(t) \/ Use(t)

Scan ==
    \/ target_list_free \/ adiv5_swd_scan \/ adiv5_dp_read_dpidr \/ ReadTargetId \/ adiv5_swd_multidrop_scan
    \/ CloneDp \/ AbortDp \/ adiv5_jtag_dp_handler
    \/ InitDp \/ ClearSticky \/ rp_rescue_setup \/ PowerDp \/ adiv5_new_ap \/ RecoveryProbes \/ cortexm_prepare
    \/ adiv5_component_probe \/ ResumeCores \/ EndAp \/ EndScan

\* The processor goes on with the scan it is in.
Spec == Init /\ [][Next]_vars /\ WF_vars(Scan)

-----------------------------------------------------------------------------
(* Properties *)

TypeOK ==
    /\ bus \in Buses
    /\ \A i \in Ids : /\ {dps[i].st, aps[i].st, tgts[i].st} \subseteq {"unused", "live", "freed"}
                      /\ \A o \in {dps[i], aps[i]} : o.ref \in Nat /\ (o.st # "live" => o.ref = 0)
                      /\ tgts[i].priv \in {"none", "core", "recovery", "rescue"}
    /\ selected \in {None} \union (0 .. MaxInst - 1)
    /\ innermost \in Sites \union {Null} /\ live \subseteq Sites
    /\ causes \subseteq {"raised", "starved", "torn", "broke", "noise"}

Holders(a) == {t \in Ids : Listed(t) /\ tgts[t].st = "live" /\ tgts[t].ap = a}
Gone == f.pc \in Over

(* No pointer dangles: what the running scan, a listed target or a live access
   port refers to has not been freed.  Exceptions and failed allocations only
   leak, they never free too much. *)
NoDangling ==
    ~Gone => /\ \A x \in {f.first, f.dp} \ {0} : dps[x].st = "live"
             /\ f.ap # 0 => aps[f.ap].st = "live"
             /\ \A t \in Ids : Listed(t) /\ tgts[t].st = "live" => aps[tgts[t].ap].st = "live"
             /\ \A a \in Ids : aps[a].st = "live" => dps[aps[a].dp].st = "live"

Reached ==
    LET a == {i \in Ids : aps[i].st = "live" /\ (Holders(i) # {} \/ f.ap = i)}
    IN  [a |-> a, d |-> {f.first, f.dp} \union {aps[i].dp : i \in a}]
Lost ==
    LET r == Reached
    IN  {<<"ap", i>> : i \in {j \in Ids : aps[j].st = "live" /\ j \notin r.a}}
        \union {<<"dp", i>> : i \in {j \in Ids : dps[j].st = "live" /\ j \notin r.d}}

(* A scan leaks nothing, and every count is the number of holders, unless it
   raised or ran out of memory; an exception then leaks at most an access port
   and the two debug ports in the scan's hands, a failed calloc two objects. *)
LeakBounded ==
    ~Gone => /\ Cardinality(Lost) <= 3 * raises + 2 * starved
             /\ raises + starved = 0 =>
                  \A a \in Ids : aps[a].st = "live" => aps[a].ref = Cardinality(Holders(a)) + (IF f.ap = a THEN 1 ELSE 0)

(* The list names freed targets only after a detach raised in the middle of
   target_list_free, which forgets its head only at the end. *)
ListLive ==
    f.pc \in {"ret", "idle"} /\ "torn" \notin causes => \A t \in Ids : Listed(t) => tgts[t].st = "live"

(* The attached core is the one the multi-drop line has selected, or the line
   has none selected and the next access brings it back. *)
AttachedIsSelected ==
    \A t \in Ids : At("idle") /\ Listed(t) /\ tgts[t].st = "live" /\ tgts[t].attached /\ tgts[t].priv = "core"
                   /\ dps[aps[tgts[t].ap].dp].ver >= 2
                   => selected \in {None, dps[aps[tgts[t].ap].dp].inst}

ExpectedAps(i) == {k \in DOMAIN bus[i].aps \intersect (1 .. MaxAps) :
                     /\ Cardinality({j \in 1 .. k - 1 : bus[i].aps[j] = "absent"}) < MaxInvalid
                     /\ \A j \in 1 .. k - 1 : bus[i].aps[j] # "duped"}
ExpectedCores(i) == MapThenSumSet(LAMBDA k : Cores(bus[i].aps[k]), ExpectedAps(i))

(* An undisturbed scan lists once every core of the first MaxAps access ports of every
   port, up to MaxInvalid unusable ones, and leaves it running unless it connects under
   reset (connect_assert_nrst), where the cores stay as the scan left them. *)
ScanComplete ==
    At("ret") /\ f.how # "emu" /\ causes \subseteq {"broke"} =>
        /\ \A i \in DOMAIN bus : ~bus[i].rescue /\ (f.how = "jtag" \/ f.tid \/ bus[i].ver >= 2 \/ Cardinality(DOMAIN bus) = 1) =>
             Cardinality({t \in Ids : Listed(t) /\ tgts[t].st = "live" /\ tgts[t].priv = "core" /\ dps[aps[tgts[t].ap].dp].inst = i})
                = ExpectedCores(i)
        /\ ~f.nrst => \A t \in Ids : Listed(t) => ~tgts[t].halted

(* innermost_exception is NULL or the handler of a function that is still running. *)
HandlersLive == innermost \in {Null} \union live

(* Undefined behaviour is reached only over a handler or a list that was left behind. *)
WildExplained == f.pc = "wild" => {"broke", "torn"} \intersect causes # {}

(* Every scan comes back to its command, until a break has left a handler behind. *)
ScansEnd == (~At("idle") /\ "broke" \notin causes) ~> (At("idle") \/ Gone)

(* Ports, access ports and targets live exactly as long as something refers to
   them, through every failure of a scan, but for a bounded leak. *)
ObjectsHeld == TypeOK /\ NoDangling /\ LeakBounded /\ ListLive /\ WildExplained

(* What a scan lists is what is on the bus, and an attached core is reached. *)
ScanTrue == ScanComplete /\ AttachedIsSelected
=============================================================================
