------------------------------ MODULE CoreDebug ------------------------------
(***************************************************************************)
(* Run control of one target: break- and watchpoints, halt, resume, step,  *)
(* poll, reset, attach and detach for the three kinds of core (cortexm.c,  *)
(* cortexar.c, riscv_debug.c with riscv32.c), as the GDB packets Z, z, c,  *)
(* s, D, k, R and the on-device commands halt, run, step, poll, reset use   *)
(* them.                                                                   *)
(*                                                                         *)
(* Two records of the same fact are kept apart here because the code keeps *)
(* them apart: the list of points the target structure holds (bw_list),    *)
(* the slots the core driver believes taken (the masks), and what the      *)
(* comparators of the core really hold.  Registers are one token: which    *)
(* stop of the program they belong to.                                     *)
(***************************************************************************)
EXTENDS Integers, Sequences, FiniteSets

CONSTANTS
    Archs,      \* the kinds of core: "m", "ar", "rv"
    Addrs,      \* addresses points are set at
    NBreak,     \* breakpoint comparators (one more on "ar", kept for stepping)
    NWatch,     \* watchpoint comparators; on "rv" the triggers of both kinds
    MaxFaults,  \* bound: faults on the wire and of the heap
    MaxList     \* bound: points in the list

ASSUME ArchAssumption == Archs \subseteq {"m", "ar", "rv"}
ASSUME CountAssumption == NBreak \in Nat \ {0} /\ NWatch \in Nat \ {0}
ASSUME BoundAssumption == MaxFaults \in Nat /\ MaxList \in Nat

VARIABLES
    arch,
    attached,   \* a controller holds the target: its target_attach succeeded, no detach since
    bw_list,    \* target->bw_list, newest first
    used,       \* breakpoints_mask and watchpoints_mask, or trigger_uses
    hw,         \* what each comparator matches
    core,       \* "running", "halting" (asked to, not there yet) or "halted"
    cause,      \* why it halted, until a poll clears DFSR ("m"); MOE or DCSR on the others
    matched,    \* watchpoint comparators that were hit (the MATCHED bits of "m")
    dhcsr,      \* "m": the C_STEP and C_MASKINTS bits of DHCSR as written last
    stepping,   \* "m": priv->stepping
    live,       \* the registers in the core: those the program must go on with, or not
    saved,      \* "ar": priv->core_regs
    itr,        \* "ar": DSCR.ITR_ENABLE, without which no instruction can be fed
    deaf,       \* dp->fault is latched: accesses are dropped until it is cleared
    report,     \* what a poll just returned
    stuck,      \* the driver waits for a status that cannot come
    host,       \* history: points the host was told are set, in this session
    lost,       \* history: points whose set or clear went wrong in this session: a write was
                \* dropped by a latched fault, the heap copy failed with the comparator already
                \* taken, or a reset of the hart took the trigger away (riscv_reset)
    released,   \* history: the last detach reached the core
    mode,       \* history: "continue" or "step", how it was resumed last
    faults      \* faults so far

points == <<bw_list, used, host, lost>>
trap == <<hw, matched>>
ctl == <<dhcsr, stepping>>
regs == <<live, saved, itr>>
session == <<attached, released, stuck, deaf>>
stopped == <<core, cause>>
vars == <<arch, points, trap, ctl, regs, session, stopped, mode, report, faults>>

Types == {"break", "watch"}
None == "none"
Off == [type |-> "off", addr |-> None]   \* a disabled comparator
Silent == [reason |-> "none", watch |-> None]
Good == "good"       \* registers: the program's own, as it stopped or as the host set them
Stale == "stale"     \* anything else: of an earlier stop, or clobbered by the debugger
StepSlot == <<"step", 0>>
\* The comparators of a kind: "rv" has one bank of triggers for both.
Bank(type) ==
    IF arch = "rv" THEN {<<"trigger", i>> : i \in 0 .. NWatch - 1}
    ELSE {<<type, i>> : i \in 0 .. (IF type = "break" THEN NBreak ELSE NWatch) - 1}
Slots == Bank("break") \union Bank("watch")
Comparators == Slots \union {StepSlot}

Init ==
    /\ arch \in Archs
    /\ attached = FALSE
    /\ bw_list = <<>>
    /\ used = {}
    /\ hw = [s \in Comparators |-> Off]
    /\ core = "running" /\ cause = "none" /\ matched = {}
    /\ dhcsr = [step |-> FALSE, mask |-> FALSE]
    /\ stepping = FALSE
    /\ live = Good /\ saved = Stale /\ itr = FALSE
    /\ deaf = FALSE
    /\ report = Silent
    /\ stuck = FALSE
    /\ host = {} /\ lost = {} /\ released = FALSE /\ mode = "continue"
    /\ faults = 0

-----------------------------------------------------------------------------
(* The core itself, external *)

\* The program stops; on "ar" the debugger has not read its registers yet.
CoreHalts(why) ==
    /\ core' = "halted"
    /\ cause' = why
    /\ live' = Good
    /\ saved' = Stale

Armed(type) == {s \in Slots : hw[s].type = type}

\* Why it may stop: asked to, a breakpoint, one or several watchpoints, a step, a BKPT.
CoreStop ==
    /\ \/ core = "halting" /\ CoreHalts("request") /\ UNCHANGED matched
       \/ core = "running" /\ Armed("break") # {} /\ CoreHalts("break") /\ UNCHANGED matched
       \/ /\ core = "running"
          /\ \E hit \in (SUBSET Armed("watch")) \ {{}} : matched' = matched \union hit
          /\ CoreHalts("watch")
       \/ core = "running" /\ (hw[StepSlot] # Off \/ dhcsr.step) /\ CoreHalts("step") /\ UNCHANGED matched
       \/ core = "running" /\ attached /\ CoreHalts("bkpt") /\ UNCHANGED matched
    /\ UNCHANGED <<arch, points, hw, ctl, itr, session, mode>>

\* An access is answered with WAIT for 250 ms: dp->fault is latched.
LinkFault ==
    /\ arch # "rv" /\ ~deaf
    /\ faults < MaxFaults
    /\ faults' = faults + 1
    /\ deaf' = TRUE
    /\ UNCHANGED <<arch, points, trap, ctl, regs, attached, released, stuck, stopped, mode>>

\* A checked memory access clears it (target_check_error).
CheckError ==
    /\ deaf
    /\ deaf' = FALSE
    /\ UNCHANGED <<arch, points, trap, ctl, regs, attached, released, stuck, stopped, mode>>

-----------------------------------------------------------------------------
(* Attach and detach *)

Alive == ~stuck
Quiet == [step |-> FALSE, mask |-> FALSE]
Unarmed == [s \in Comparators |-> Off]

\* The request alone: the core gets there by itself.
Halting == IF core = "running" THEN "halting" ELSE core

\* target_attach may come to a target that is attached: the controller that held it loses it
\* first (destroy_callback), so the points of its session are no host's any more.

\* What attaching does to the comparators and to what the driver thinks of them.  The list
\* of the session before is left as it is.
ForgetPoints == hw' = Unarmed /\ matched' = {} /\ used' = {}

\* cortexm_attach; ok unless the core is still in reset after a second.
AttachM(ok) ==
    /\ arch = "m" /\ Alive
    /\ deaf' = FALSE
    /\ core' = Halting
    /\ cause' = IF core = "halted" THEN "cleared" ELSE cause
    /\ dhcsr' = Quiet
    /\ ForgetPoints
    /\ host' = {} /\ lost' = {}
    /\ attached' = ok
    /\ released' = FALSE
    /\ UNCHANGED <<arch, bw_list, stepping, regs, stuck, mode>>

\* cortexar_attach polls for 250 ms.  A core that does not halt, or halts for another
\* reason than the request, is left as it is.
AttachAR(inTime) ==
    /\ arch = "ar" /\ Alive
    /\ deaf' = FALSE
    /\ IF ~inTime THEN /\ core # "halted" /\ core' = "halting"
                       /\ UNCHANGED <<cause, regs>>
       ELSE IF core = "halted"
            THEN /\ saved' = live /\ live' = Stale /\ itr' = TRUE
                 /\ UNCHANGED stopped
            ELSE /\ core' = "halted" /\ cause' = "request"
                 /\ saved' = Good /\ live' = Stale /\ itr' = TRUE
    /\ attached' = (inTime /\ cause' = "request")
    /\ IF attached' THEN ForgetPoints ELSE UNCHANGED <<used, trap>>
    /\ host' = {} /\ lost' = {}
    /\ released' = FALSE
    /\ UNCHANGED <<arch, bw_list, ctl, stuck, mode>>

\* riscv_attach; the triggers and trigger_uses stay.
AttachRV ==
    /\ arch = "rv" /\ Alive
    /\ core' = Halting
    /\ attached' = TRUE
    /\ released' = FALSE
    /\ host' = {} /\ lost' = {}
    /\ UNCHANGED <<arch, bw_list, used, trap, ctl, regs, stuck, deaf, cause, mode>>

\* cortexm_detach: the comparators, then the core is released and debug disabled.
\* Mutant: only the breakpoints are cleared.
DetachClears_Breaks == [s \in Comparators |-> IF s \in Bank("break") THEN Off ELSE hw[s]]
DetachClears == Unarmed

DetachM ==
    /\ arch = "m" /\ Alive /\ attached
    /\ attached' = FALSE /\ host' = {} /\ lost' = {}
    /\ released' = ~deaf
    /\ IF deaf THEN UNCHANGED <<trap, core, dhcsr>>
       ELSE hw' = DetachClears /\ matched' = {} /\ core' = "running" /\ dhcsr' = Quiet
    /\ mode' = IF released' THEN "continue" ELSE mode
    /\ UNCHANGED <<arch, bw_list, used, stepping, regs, stuck, deaf, cause>>

\* The state after feeding the saved registers back and restarting.
RestartAR(step) ==
    /\ live' = saved /\ itr' = FALSE /\ core' = "running"
    /\ UNCHANGED saved

\* Feeding an instruction with ITR disabled or a running core is undefined: the wait for
\* the transfer may never end; with a fault latched it cannot.
MayHang == deaf \/ core # "halted" \/ ~itr

\* cortexar_detach ends in cortexar_halt_resume.
DetachAR ==
    /\ arch = "ar" /\ Alive /\ attached
    /\ attached' = FALSE /\ host' = {} /\ lost' = {}
    /\ IF deaf THEN UNCHANGED trap ELSE hw' = Unarmed /\ matched' = {}
    /\ \/ MayHang /\ stuck' = TRUE /\ released' = FALSE /\ UNCHANGED <<core, regs>>
       \/ ~deaf /\ core = "halted" /\ RestartAR(FALSE) /\ released' = TRUE /\ UNCHANGED stuck
    /\ mode' = IF released' THEN "continue" ELSE mode
    /\ UNCHANGED <<arch, bw_list, used, ctl, deaf, cause>>

\* riscv_detach: riscv_halt_resume only.
DetachRV ==
    /\ arch = "rv" /\ Alive /\ attached
    /\ attached' = FALSE /\ host' = {} /\ lost' = {}
    /\ released' = (core = "halted")
    /\ IF core = "halted" THEN core' = "running" /\ dhcsr' = Quiet ELSE UNCHANGED <<core, dhcsr>>
    /\ mode' = IF released' THEN "continue" ELSE mode
    /\ UNCHANGED <<arch, bw_list, used, trap, stepping, regs, stuck, deaf, cause>>

-----------------------------------------------------------------------------
(* Points *)

FreeSlots(type) == Bank(type) \ used
Lowest(S) == CHOOSE s \in S : \A r \in S : s[2] <= r[2]

\* The search for a free comparator.
\* Mutant: the search does not look at the mask.
TakeSlot_First(type) == Lowest(Bank(type))
TakeSlot(type) == Lowest(FreeSlots(type))

\* cortexm_, cortexar_ or riscv32_breakwatch_set, then the heap copy of
\* target_breakwatch_set (heap: malloc succeeds).  Without a free comparator, or on a
\* running hart whose trigger registers cannot be written, -1 is returned.  A host inserts
\* a location once.
SetPoint(type, addr, heap) ==
    /\ Alive /\ attached
    /\ [type |-> type, addr |-> addr] \notin host
    /\ Len(bw_list) < MaxList
    /\ FreeSlots(type) # {}
    /\ arch = "rv" => core = "halted"
    /\ ~heap => faults < MaxFaults
    /\ faults' = IF heap THEN faults ELSE faults + 1
    /\ LET s == TakeSlot(type) IN
       /\ used' = used \union {s}
       /\ hw' = IF deaf THEN hw ELSE [hw EXCEPT ![s] = [type |-> type, addr |-> addr]]
       /\ bw_list' = IF heap THEN <<[type |-> type, addr |-> addr, slot |-> s]>> \o bw_list ELSE bw_list
    /\ host' = IF heap THEN host \union {[type |-> type, addr |-> addr]} ELSE host
    /\ lost' = IF ~heap \/ deaf THEN lost \union {[type |-> type, addr |-> addr]} ELSE lost
    /\ UNCHANGED <<arch, matched, ctl, regs, session, stopped, mode>>

\* target_breakwatch_clear takes the first entry of the list that matches.
Entries(type, addr) == {i \in 1 .. Len(bw_list) : bw_list[i].type = type /\ bw_list[i].addr = addr}
Found(type, addr) == CHOOSE i \in Entries(type, addr) : \A j \in Entries(type, addr) : i <= j

\* The host clears what it has set.
ClearPoint(type, addr) ==
    /\ Alive /\ attached
    /\ [type |-> type, addr |-> addr] \in host
    /\ Entries(type, addr) # {}
    /\ arch = "rv" => core = "halted"
    /\ LET i == Found(type, addr)
           s == bw_list[i].slot IN
       /\ used' = used \ {s}
       /\ hw' = IF deaf THEN hw ELSE [hw EXCEPT ![s] = Off]
       /\ bw_list' = SubSeq(bw_list, 1, i - 1) \o SubSeq(bw_list, i + 1, Len(bw_list))
    /\ host' = host \ {[type |-> type, addr |-> addr]}
    /\ lost' = IF deaf THEN lost \union {[type |-> type, addr |-> addr]} ELSE lost
    /\ UNCHANGED <<arch, matched, ctl, regs, session, stopped, mode>>

-----------------------------------------------------------------------------
(* Run control *)

\* target_halt_request: Ctrl-C and the command halt.  On "m" the same write clears C_STEP
\* and C_MASKINTS; priv->stepping keeps its value.
Halt ==
    /\ Alive /\ attached
    /\ IF deaf THEN UNCHANGED <<core, dhcsr>>
       ELSE core' = Halting /\ dhcsr' = IF arch = "m" THEN Quiet ELSE dhcsr
    /\ UNCHANGED <<arch, points, trap, stepping, regs, session, cause, mode>>

Mode(step) == IF step THEN "step" ELSE "continue"

\* cortexm_halt_resume: C_MASKINTS may only change with C_HALT set, hence the extra write
\* when priv->stepping says the mode changes.
ResumeM(step) ==
    /\ arch = "m" /\ Alive /\ attached
    /\ stepping' = step
    /\ IF deaf THEN UNCHANGED <<dhcsr, core, cause, mode>>
       ELSE /\ dhcsr' = [step |-> step, mask |-> step]
            /\ core' = "running"
            /\ cause' = "none"
            /\ mode' = Mode(step)
    /\ UNCHANGED <<arch, points, trap, regs, session>>

\* cortexar_halt_resume: registers, the mismatch breakpoint of a step, restart.
StepPoint(step) == IF step THEN [type |-> "step", addr |-> None] ELSE Off

ResumeAR(step) ==
    /\ arch = "ar" /\ Alive /\ attached
    /\ \/ /\ MayHang
          /\ stuck' = TRUE
          /\ UNCHANGED <<trap, core, cause, mode, regs>>
       \/ /\ ~deaf /\ core = "halted"
          /\ RestartAR(step)
          /\ hw' = [hw EXCEPT ![StepSlot] = StepPoint(step)]
          /\ matched' = {}
          /\ cause' = "none"
          /\ mode' = Mode(step)
          /\ UNCHANGED stuck
    /\ UNCHANGED <<arch, points, ctl, attached, released, deaf>>

\* riscv_halt_resume returns early when DCSR cannot be read: the hart is running.
ResumeRV(step) ==
    /\ arch = "rv" /\ Alive /\ attached
    /\ core = "halted"
    /\ core' = "running" /\ cause' = "none" /\ mode' = Mode(step)
    /\ dhcsr' = [step |-> step, mask |-> FALSE]
    /\ UNCHANGED <<arch, points, trap, stepping, regs, session>>

Matching == {s \in used : s \in matched}

\* cortexm_check_watch: the first taken comparator that matched; reading a function
\* register clears its bit.
WatchM == IF Matching = {} THEN None ELSE hw[Lowest(Matching)].addr

\* cortexar_halt_poll: the newest watchpoint of the list, while slot 0 is the only one taken.
\* Mutant: whenever any is taken.
OneWatch_Any == \E s \in used : s[1] = "watch"
OneWatch == {s \in used : s[1] = "watch"} = {<<"watch", 0>>}

Watches == {i \in 1 .. Len(bw_list) : bw_list[i].type = "watch"}
WatchAR == IF Watches = {} THEN None ELSE bw_list[CHOOSE i \in Watches : \A j \in Watches : i <= j].addr

Running == [reason |-> "running", watch |-> None]

ReasonM ==
    CASE cause = "watch" -> [reason |-> "watchpoint", watch |-> WatchM]
      [] cause \in {"request", "step"} -> [reason |-> IF stepping THEN "stepping" ELSE "request", watch |-> None]
      [] OTHER -> [reason |-> "breakpoint", watch |-> None]

ReasonAR ==
    CASE cause = "watch" /\ OneWatch -> [reason |-> "watchpoint", watch |-> WatchAR]
      [] cause = "request" -> [reason |-> "request", watch |-> None]
      [] OTHER -> [reason |-> "breakpoint", watch |-> None]

ReasonRV ==
    CASE cause \in {"break", "watch"} -> [reason |-> "breakpoint", watch |-> None]
      [] cause = "step" -> [reason |-> "stepping", watch |-> None]
      [] OTHER -> [reason |-> "request", watch |-> None]

\* target_halt_poll by the command poll.  With a fault latched the status reads as zero.
PollRunning ==
    /\ Alive /\ attached
    /\ deaf \/ core # "halted"
    /\ report' = Running
    /\ UNCHANGED <<arch, points, trap, ctl, regs, session, stopped, mode>>

\* cortexm_halt_poll writes DFSR back.
PollM ==
    /\ arch = "m" /\ Alive /\ attached /\ ~deaf /\ core = "halted"
    /\ report' = ReasonM
    /\ cause' = "cleared"
    /\ matched' = IF cause # "watch" THEN matched
                  ELSE IF Matching = {} THEN matched \ Slots
                  ELSE {s \in matched : s[2] > Lowest(Matching)[2]}
    /\ UNCHANGED <<arch, points, hw, ctl, regs, session, core, mode>>

\* cortexar_halt_poll enables ITR and saves the registers, losing the ones it works with.
PollAR ==
    /\ arch = "ar" /\ Alive /\ attached /\ ~deaf /\ core = "halted"
    /\ report' = ReasonAR
    /\ saved' = live /\ live' = Stale /\ itr' = TRUE
    /\ UNCHANGED <<arch, points, trap, ctl, session, stopped, mode>>

PollRV ==
    /\ arch = "rv" /\ Alive /\ attached /\ core = "halted"
    /\ report' = ReasonRV
    /\ UNCHANGED <<arch, points, trap, ctl, regs, session, stopped, mode>>

\* A register written by the host: in the core, or on "ar" in the copy kept for it.
WriteReg ==
    /\ Alive /\ attached /\ core = "halted" /\ ~deaf
    /\ IF arch = "ar" THEN saved' = Good /\ UNCHANGED live ELSE live' = Good /\ UNCHANGED saved
    /\ UNCHANGED <<arch, points, trap, ctl, itr, session, core, cause, mode>>

\* target_reset: the program starts over, the debug logic keeps its state.  "m" halts on
\* the reset vector unless that catch is disabled, "ar" runs; both end in target_check_error.
ResetCortex ==
    /\ arch # "rv" /\ Alive /\ attached
    /\ deaf' = FALSE
    /\ core' \in IF arch = "m" THEN {"halted", "running"} ELSE {"running"}
    /\ cause' = "cleared"
    /\ live' = Good /\ saved' = Stale
    /\ itr' = FALSE
    /\ UNCHANGED <<arch, points, trap, ctl, attached, released, stuck, mode>>

\* riscv_reset halts the hart again.  A chip may lose its triggers with the reset: nothing
\* arms them again, trigger_uses and the list stay, and the host is not told.
ResetRV ==
    /\ arch = "rv" /\ Alive /\ attached
    /\ core' = "halting"
    /\ cause' = "none"
    /\ live' = Good /\ saved' = Stale
    /\ \/ UNCHANGED <<hw, host, lost>>
       \/ hw' = Unarmed /\ lost' = lost \union host /\ UNCHANGED host
    /\ UNCHANGED <<arch, bw_list, used, matched, ctl, itr, session, mode>>

Hung == stuck /\ UNCHANGED vars

Operation ==
    \/ CoreStop \/ CheckError
    \/ \E ok \in BOOLEAN : AttachM(ok) \/ AttachAR(ok)
    \/ AttachRV \/ DetachM \/ DetachAR \/ DetachRV
    \/ \E type \in Types, addr \in Addrs : ClearPoint(type, addr)
    \/ Halt
    \/ \E step \in BOOLEAN : ResumeM(step) \/ ResumeAR(step) \/ ResumeRV(step)
    \/ WriteReg \/ ResetCortex \/ ResetRV

Poll == PollRunning \/ PollM \/ PollAR \/ PollRV

Next ==
    \/ Operation /\ report' = Silent /\ UNCHANGED faults
    \/ LinkFault /\ report' = Silent
    \/ (\E type \in Types, addr \in Addrs, heap \in BOOLEAN : SetPoint(type, addr, heap)) /\ report' = Silent
    \/ Poll /\ UNCHANGED faults
    \/ Hung

Spec == Init /\ [][Next]_vars

-----------------------------------------------------------------------------
(* Properties *)

Points == [type : Types, addr : Addrs]

\* Types of the target's, the core's and the history state.
TypeOK ==
    /\ arch \in Archs
    /\ \A i \in 1 .. Len(bw_list) : bw_list[i].type \in Types /\ bw_list[i].addr \in Addrs /\ bw_list[i].slot \in Slots
    /\ used \subseteq Slots /\ matched \subseteq Slots
    /\ \A s \in Comparators : hw[s].type \in Types \union {"step", "off"}
    /\ core \in {"running", "halting", "halted"}
    /\ live \in {Good, Stale} /\ saved \in {Good, Stale}
    /\ lost \subseteq Points /\ host \subseteq Points
    /\ faults \in 0 .. MaxFaults

\* The entry of the list that clears a point.
EntryOf(p) == bw_list[Found(p.type, p.addr)]

\* Every point the host was told is set, and has not cleared, is armed in a comparator of
\* its own, which the driver holds for taken: the list, the masks and the hardware agree
\* for this session's points, whatever entries an earlier session left in the list
\* (target_breakwatch_set and _clear over the three drivers).  Not so for the points in
\* lost: a write dropped by a latched fault, a failed heap copy, and the triggers a hart
\* loses with its reset, which riscv_reset does not arm again.
PointsArmed ==
    \A p \in host \ lost :
        /\ Entries(p.type, p.addr) # {}
        /\ EntryOf(p).slot \in used
        /\ hw[EntryOf(p).slot] = p
        /\ \A q \in host \ (lost \union {p}) : EntryOf(q).slot # EntryOf(p).slot

\* Once a detach has reached a Cortex core, nothing is armed and the core runs until the
\* next attach: the program goes on as if there had been no debugger (cortexm_detach,
\* cortexar_detach).  Not so on "rv": riscv_detach clears no trigger.
DetachedRuns ==
    released /\ arch # "rv" => core = "running" /\ \A s \in Comparators : hw[s] = Off

\* A continued program does not stop for a step: neither the mismatch breakpoint nor C_STEP
\* of an earlier step survives a continue, a halt in between included.
ContinueIsNoStep ==
    [][mode = "continue" /\ core # "halted" /\ core' = "halted" => cause' # "step"]_vars

\* None of these comparators was disabled.
StillSet(S) == \A s \in S : hw[s] # Off

\* Unless a set or clear went wrong, or the host cleared a point between the hit and the
\* poll, a stop reported as a watchpoint names an address the host is watching and whose
\* comparator was hit, although the list may still hold watchpoints of an earlier session
\* (cortexm_check_watch asks the hardware, cortexar_halt_poll the list).
WatchIsHit ==
    [][(report' # report /\ report'.watch # None /\ lost = {} /\ StillSet(matched)) =>
         LET p == [type |-> "watch", addr |-> report'.watch]
         IN  p \in host /\ \E s \in matched : hw[s] = p]_vars

\* The stop the host is told of is the one that happened: no step stops a continued
\* program, and a watchpoint is reported where one was hit.
StopsTrue == ContinueIsNoStep /\ WatchIsHit
=============================================================================
