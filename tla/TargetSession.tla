---------------------------- MODULE TargetSession ----------------------------
(***************************************************************************)
(* Who holds which target.  target.c keeps the list of targets the last    *)
(* scan found; gdb_main.c keeps two pointers into it, cur_target and       *)
(* last_target; a target keeps a pointer to the controller that attached   *)
(* it and calls the controller's destroy_callback before it goes away.     *)
(* On the Cardputer two tasks use all of this: the GDB task, one handler   *)
(* per packet, and ui_task, one command per line typed, which shares       *)
(* cur_target and has a controller of its own.                             *)
(*                                                                         *)
(* A handler reads cur_target, then calls into the target layer with it;   *)
(* between the two, and during the call, the other task may run.  Targets  *)
(* get a fresh number when they are created, so that a number that is not  *)
(* in the list any more is a pointer to freed memory.                      *)
(***************************************************************************)
EXTENDS Integers, Sequences

CONSTANTS
    MaxTargets,   \* bound on the targets created between two reboots (the heap)
    Users,        \* the tasks that are used: "gdb", "ui" or both
    Overlap       \* may a command of one task start while the other runs one

ASSUME TargetsAssumption == MaxTargets \in Nat
ASSUME UsersAssumption == Users \subseteq {"gdb", "ui"}
ASSUME OverlapAssumption == Overlap \in BOOLEAN

VARIABLES
    created,          \* number of targets created so far
    target_list,      \* the list, in the order `attach N` counts
    tc,               \* per target: its controller
    attached,         \* per target: the attached flag
    cur_target,
    last_target,
    gdb_needs_detach_notify,
    gdb_target_running,
    g_target_lock,    \* "null" (never initialised), "free" or "ui"
    dtr,              \* the host has the GDB port open
    host_session_active,
    pc,               \* per task: "idle", "checked", "incall" or "assign"
    op,               \* per task: the operation it is in
    ptr,              \* per task: the target its call works on
    panic,            \* "no", or the bad pointer a call was given
    hostTarget        \* history: the target GDB was last told it has

listVars == <<created, target_list, tc, attached>>
gdbVars  == <<cur_target, last_target, gdb_needs_detach_notify, gdb_target_running>>
lineVars == <<dtr, host_session_active>>
taskVars == <<pc, op, ptr>>
vars == <<listVars, gdbVars, g_target_lock, lineVars, taskVars, panic, hostTarget>>

Tasks == {"gdb", "ui"}
Targets == 1 .. MaxTargets
Null == 0
Live == {target_list[i] : i \in DOMAIN target_list}

Other(task) == IF task = "gdb" THEN "ui" ELSE "gdb"

\* What happens when a call is given t.
BadPointer(t) == IF t = Null THEN "null" ELSE IF t \in Live THEN "no" ELSE "freed"

-----------------------------------------------------------------------------
(* Destroy callbacks *)

\* gdb_target_destroy_callback tells the host only if t is the current target.
Told(t) == tc[t] = "gdb" /\ cur_target = t

\* cur_target after t's controller was called: ui_ctrl_destroy clears it
\* whatever it points to.
CurAfter(t) == IF tc[t] = "ui" \/ Told(t) THEN Null ELSE cur_target

\* Only the GDB controller looks at last_target.
LastAfter(t) == IF tc[t] = "gdb" /\ last_target = t THEN Null ELSE last_target

\* Mutant: only the head of the list has its controller called.
ToldByFree_HeadOnly ==
    target_list # <<>> /\ Told(target_list[1])

\* The same over the whole list, from its head: a target of ui_task in front of
\* the current one has already cleared cur_target when its turn comes.
ToldByFree ==
    \E i \in DOMAIN target_list :
      /\ Told(target_list[i])
      /\ \A j \in DOMAIN target_list : tc[target_list[j]] = "ui" => i < j

\* Mutant: ui_ctrl_destroy leaves cur_target alone.
CurByFree_GdbOnly ==
    IF \E t \in Live : Told(t) THEN Null ELSE cur_target

CurByFree ==
    IF \E t \in Live : tc[t] = "ui" \/ Told(t) THEN Null ELSE cur_target

\* Mutant: the callback does not look at last_target.
LastByFree_Kept == last_target

LastByFree ==
    IF last_target \in Live /\ tc[last_target] = "gdb" THEN Null ELSE last_target

\* target_list_free: detach, call every controller, free.
TargetListFree ==
    /\ target_list' = <<>>
    /\ tc' = [t \in Targets |-> "none"]
    /\ attached' = [t \in Targets |-> FALSE]
    /\ cur_target' = CurByFree
    /\ last_target' = LastByFree
    /\ gdb_needs_detach_notify' = (gdb_needs_detach_notify \/ ToldByFree)
    /\ hostTarget' = IF ToldByFree THEN Null ELSE hostTarget
    /\ UNCHANGED <<created, gdb_target_running>>

-----------------------------------------------------------------------------
(* Tasks: what lets a command start, the lock, and the end of a call *)

\* The REPL refuses a line while host_session_active; packets reach the GDB task
\* once the line-state callback (which blocks the USB task) has set it.
Start(task) ==
    /\ panic = "no"
    /\ task \in Users
    /\ pc[task] = "idle"
    /\ IF task = "ui" THEN ~host_session_active ELSE dtr /\ host_session_active
    /\ Overlap \/ pc[Other(task)] = "idle"

\* target_lock and target_unlock of ui_debug.c; nothing when the handle is NULL.
Lock(task) ==
    IF task = "ui" THEN /\ g_target_lock # "ui"
                        /\ g_target_lock' = IF g_target_lock = "null" THEN "null" ELSE "ui"
                   ELSE UNCHANGED g_target_lock

Unlock(task) ==
    g_target_lock' = IF task = "ui" /\ g_target_lock = "ui" THEN "free" ELSE g_target_lock

Goto(task, place, operation, t) ==
    /\ pc' = [pc EXCEPT ![task] = place]
    /\ op' = [op EXCEPT ![task] = operation]
    /\ ptr' = [ptr EXCEPT ![task] = t]

Idle(task) == Goto(task, "idle", "none", Null)

\* The call a task is in was given a bad pointer: the chip panics.
Crash(task) ==
    /\ panic = "no"
    /\ pc[task] = "incall"
    /\ op[task] # "scan"
    /\ BadPointer(ptr[task]) # "no"
    /\ panic' = BadPointer(ptr[task])
    /\ UNCHANGED <<listVars, gdbVars, g_target_lock, lineVars, taskVars, hostTarget>>

Running(task, operations) ==
    /\ panic = "no"
    /\ pc[task] = "incall"
    /\ op[task] \in operations
    /\ ptr[task] \in Live


-----------------------------------------------------------------------------
(* Commands that use the current target *)

Checks(task) == IF task = "gdb" THEN {"use", "resume", "detach"}
                                ELSE {"use", "read", "poll", "detach"}

\* ERROR_IF_NO_TARGET of gdb_main_loop, `if (!cur_target)` of the on-device verbs.
UseCheck(task) ==
    /\ Start(task)
    /\ cur_target # Null
    /\ \E operation \in Checks(task) : Goto(task, "checked", operation, Null)
    /\ UNCHANGED <<listVars, gdbVars, g_target_lock, lineVars, panic, hostTarget>>

\* The call reads cur_target a second time.
UseCall(task) ==
    /\ panic = "no"
    /\ pc[task] = "checked"
    /\ Lock(task)
    /\ Goto(task, "incall", op[task], cur_target)
    /\ UNCHANGED <<listVars, gdbVars, lineVars, panic, hostTarget>>

\* Calls that do not check: target commands of `monitor` (the pointer was passed
\* to command_process), vFlashWrite and vFlashDone, and qXfer, which falls back
\* on last_target.  A command of the probe itself does not look at the pointer.
UncheckedCall(task) ==
    /\ Start(task)
    /\ \/ cur_target # Null /\ Goto(task, "incall", "use", cur_target)
       \/ task = "gdb" /\ cur_target = Null /\ Goto(task, "incall", "use", Null)
       \/ /\ task = "gdb"
          /\ cur_target = Null
          /\ last_target # Null
          /\ Goto(task, "incall", "use", last_target)
    /\ UNCHANGED <<listVars, gdbVars, g_target_lock, lineVars, panic, hostTarget>>

UseReturn(task) ==
    /\ Running(task, {"use", "read", "poll"})
    /\ Unlock(task)
    /\ Idle(task)
    /\ UNCHANGED <<listVars, gdbVars, lineVars, panic, hostTarget>>

\* v_read_range: the next chunk, without another look at cur_target.
ReadNext ==
    /\ Running("ui", {"read"})
    /\ Unlock("ui")
    /\ Goto("ui", "checked", "read", Null)
    /\ UNCHANGED <<listVars, gdbVars, lineVars, panic, hostTarget>>

\* c, s, C and vCont: the reply is left to whoever polls the target.
ResumeReturn ==
    /\ Running("gdb", {"resume"})
    /\ gdb_target_running' = TRUE
    /\ Idle("gdb")
    /\ UNCHANGED <<listVars, cur_target, last_target, gdb_needs_detach_notify,
                   g_target_lock, lineVars, panic, hostTarget>>

\* `poll` of a target that does not answer: cortexm_halt_poll frees the list.
PollLost ==
    /\ Running("ui", {"poll"})
    /\ TargetListFree
    /\ Unlock("ui")
    /\ Idle("ui")
    /\ UNCHANGED <<lineVars, panic>>

\* The ? packet is answered like a running target, with nothing.
QueryHalt ==
    /\ Start("gdb")
    /\ cur_target # Null
    /\ gdb_target_running' = TRUE
    /\ UNCHANGED <<listVars, cur_target, last_target, gdb_needs_detach_notify,
                   g_target_lock, lineVars, taskVars, panic, hostTarget>>

VStopped ==
    /\ Start("gdb")
    /\ gdb_needs_detach_notify
    /\ gdb_needs_detach_notify' = FALSE
    /\ UNCHANGED <<listVars, cur_target, last_target, gdb_target_running,
                   g_target_lock, lineVars, taskVars, panic, hostTarget>>

-----------------------------------------------------------------------------
(* Attach and detach *)

\* target_attach up to the driver's attach: the previous controller is told, the
\* new one takes over whether or not the driver succeeds.
TakeOver(task, t) ==
    /\ tc' = [tc EXCEPT ![t] = task]
    /\ cur_target' = CurAfter(t)
    /\ last_target' = LastAfter(t)
    /\ gdb_needs_detach_notify' = (gdb_needs_detach_notify \/ Told(t))
    /\ hostTarget' = IF Told(t) THEN Null ELSE hostTarget
    /\ UNCHANGED <<created, target_list, attached, gdb_target_running>>

\* A reply that comes after the host has gone is not heard.
Heard(t) == IF dtr /\ host_session_active THEN t ELSE Null

\* vAttach;n and `attach n`.
AttachStart(task) ==
    /\ Start(task)
    /\ \E n \in DOMAIN target_list :
         /\ TakeOver(task, target_list[n])
         /\ Goto(task, "incall", "attach", target_list[n])
    /\ Lock(task)
    /\ UNCHANGED <<lineVars, panic>>

\* vAttach of a number that is not in the list: cur_target = target_attach_n(..)
\* is NULL and the answer E01.  The on-device verb changes nothing.
AttachNoSuch ==
    /\ Start("gdb")
    /\ cur_target' = Null
    /\ hostTarget' = Null
    /\ UNCHANGED <<listVars, last_target, gdb_needs_detach_notify, gdb_target_running,
                   g_target_lock, lineVars, taskVars, panic>>

AttachReturn(task) ==
    /\ Running(task, {"attach"})
    /\ Unlock(task)
    /\ \E ok \in BOOLEAN :
         /\ attached' = [attached EXCEPT ![ptr[task]] = ok \/ @]
         /\ IF task = "gdb"
            THEN /\ cur_target' = IF ok THEN ptr[task] ELSE Null
                 /\ hostTarget' = Heard(cur_target')
                 /\ Idle(task)
            ELSE /\ UNCHANGED <<cur_target, hostTarget>>
                 /\ IF ok THEN Goto(task, "assign", "attach", ptr[task]) ELSE Idle(task)
    /\ UNCHANGED <<created, target_list, tc, last_target,
                   gdb_needs_detach_notify, gdb_target_running, lineVars, panic>>

\* v_attach stores the pointer after target_unlock.
UiAssign ==
    /\ panic = "no"
    /\ pc["ui"] = "assign"
    /\ cur_target' = ptr["ui"]
    /\ Idle("ui")
    /\ UNCHANGED <<listVars, last_target, gdb_needs_detach_notify, gdb_target_running,
                   g_target_lock, lineVars, panic, hostTarget>>

\* D, k, vKill and `detach`; only gdb_main.c remembers the target.
DetachReturn(task) ==
    /\ Running(task, {"detach"})
    /\ attached' = [attached EXCEPT ![ptr[task]] = FALSE]
    /\ cur_target' = Null
    /\ IF task = "gdb" THEN /\ last_target' = cur_target
                            /\ hostTarget' = Null
                       ELSE UNCHANGED <<last_target, hostTarget>>
    /\ Unlock(task)
    /\ Idle(task)
    /\ UNCHANGED <<created, target_list, tc, gdb_needs_detach_notify,
                   gdb_target_running, lineVars, panic>>

\* R, r and vRun without a current target attach the last one again.
RerunStart ==
    /\ Start("gdb")
    /\ cur_target = Null
    /\ last_target # Null
    /\ IF last_target \in Live
       THEN TakeOver("gdb", last_target)
       ELSE UNCHANGED <<listVars, gdbVars, hostTarget>>
    /\ \E packet \in {"R", "vRun"} : Goto("gdb", "incall", packet, last_target)
    /\ UNCHANGED <<g_target_lock, lineVars, panic>>

\* When the driver fails vRun answers E01 and R resets the NULL target.
RerunReturn ==
    /\ Running("gdb", {"R", "vRun"})
    /\ \E ok \in BOOLEAN :
         /\ attached' = [attached EXCEPT ![ptr["gdb"]] = ok \/ @]
         /\ cur_target' = IF ok THEN ptr["gdb"] ELSE Null
         /\ hostTarget' = Heard(cur_target')
         /\ IF ~ok /\ op["gdb"] = "R" THEN Goto("gdb", "incall", "use", Null)
                                      ELSE Idle("gdb")
    /\ UNCHANGED <<created, target_list, tc, last_target, gdb_needs_detach_notify,
                   gdb_target_running, g_target_lock, lineVars, panic>>

-----------------------------------------------------------------------------
(* Scans and the other commands of `monitor` that change the list *)

\* swd_scan, jtag_scan and auto_scan: free the list, then add what answers.
ScanStart(task) ==
    /\ Start(task)
    /\ TargetListFree
    /\ Goto(task, "incall", "scan", Null)
    /\ UNCHANGED <<g_target_lock, lineVars, panic>>

\* Mutant: the result of calloc is not checked.
TargetNew_NoHeapCheck ==
    /\ created' = created + 1
    /\ target_list' = Append(target_list, created + 1)
    /\ UNCHANGED <<tc, attached>>

\* target_new appends a target nobody has attached.
TargetNew ==
    /\ created < MaxTargets
    /\ created' = created + 1
    /\ target_list' = Append(target_list, created + 1)
    /\ UNCHANGED <<tc, attached>>

ScanFound(task) ==
    /\ panic = "no"
    /\ pc[task] = "incall"
    /\ op[task] = "scan"
    /\ TargetNew
    /\ UNCHANGED <<gdbVars, g_target_lock, lineVars, taskVars, panic, hostTarget>>

ScanEnd(task) ==
    /\ panic = "no"
    /\ pc[task] = "incall"
    /\ op[task] = "scan"
    /\ Idle(task)
    /\ UNCHANGED <<listVars, gdbVars, g_target_lock, lineVars, panic, hostTarget>>

\* emu_scan registers its target without freeing the list.
Emulate(task) ==
    /\ Start(task)
    /\ TargetNew
    /\ UNCHANGED <<gdbVars, g_target_lock, lineVars, taskVars, panic, hostTarget>>

\* cmd_reset of command.c.
MonitorReset(task) ==
    /\ Start(task)
    /\ TargetListFree
    /\ UNCHANGED <<g_target_lock, lineVars, taskVars, panic>>

-----------------------------------------------------------------------------
(* The host's port, and the way out of a panic *)

\* A host that opens the port has been told nothing yet.
HostOpen ==
    /\ ~dtr
    /\ dtr' = TRUE
    /\ hostTarget' = Null
    /\ UNCHANGED <<listVars, gdbVars, g_target_lock, host_session_active, taskVars, panic>>

\* on_gdb_line_state, 200 ms later, when the port is still open.
LineState ==
    /\ dtr
    /\ ~host_session_active
    /\ host_session_active' = TRUE
    /\ UNCHANGED <<listVars, gdbVars, g_target_lock, dtr, taskVars, panic, hostTarget>>

HostClose ==
    /\ dtr
    /\ dtr' = FALSE
    /\ host_session_active' = FALSE
    /\ hostTarget' = Null
    /\ UNCHANGED <<listVars, gdbVars, g_target_lock, taskVars, panic>>

\* The cable is pulled: a bus reset reports no line state.
Unplug ==
    /\ dtr
    /\ dtr' = FALSE
    /\ hostTarget' = Null
    /\ UNCHANGED <<listVars, gdbVars, g_target_lock, host_session_active, taskVars, panic>>

Init ==
    /\ created = 0
    /\ target_list = <<>>
    /\ tc = [t \in Targets |-> "none"]
    /\ attached = [t \in Targets |-> FALSE]
    /\ cur_target = Null
    /\ last_target = Null
    /\ gdb_needs_detach_notify = FALSE
    /\ gdb_target_running = FALSE
    /\ g_target_lock = "null"
    /\ dtr = FALSE
    /\ host_session_active = FALSE
    /\ pc = [task \in Tasks |-> "idle"]
    /\ op = [task \in Tasks |-> "none"]
    /\ ptr = [task \in Tasks |-> Null]
    /\ panic = "no"
    /\ hostTarget = Null

\* A panic restarts the chip.
Reboot ==
    /\ panic # "no"
    /\ created' = 0
    /\ target_list' = <<>>
    /\ tc' = [t \in Targets |-> "none"]
    /\ attached' = [t \in Targets |-> FALSE]
    /\ cur_target' = Null
    /\ last_target' = Null
    /\ gdb_needs_detach_notify' = FALSE
    /\ gdb_target_running' = FALSE
    /\ g_target_lock' = "null"
    /\ dtr' = FALSE
    /\ host_session_active' = FALSE
    /\ pc' = [task \in Tasks |-> "idle"]
    /\ op' = [task \in Tasks |-> "none"]
    /\ ptr' = [task \in Tasks |-> Null]
    /\ panic' = "no"
    /\ hostTarget' = Null

Progress(task) ==
    \/ Crash(task)
    \/ UseCall(task)
    \/ UseReturn(task)
    \/ AttachReturn(task)
    \/ DetachReturn(task)
    \/ ScanFound(task)
    \/ ScanEnd(task)

Command(task) ==
    \/ UseCheck(task)
    \/ UncheckedCall(task)
    \/ AttachStart(task)
    \/ ScanStart(task)
    \/ Emulate(task)
    \/ MonitorReset(task)

GdbNext == ResumeReturn \/ QueryHalt \/ VStopped \/ AttachNoSuch \/ RerunStart \/ RerunReturn

UiNext == ReadNext \/ PollLost \/ UiAssign

Next ==
    \/ \E task \in Tasks : Progress(task) \/ Command(task)
    \/ GdbNext
    \/ UiNext
    \/ HostOpen
    \/ LineState
    \/ HostClose
    \/ Unplug
    \/ Reboot

Spec == Init /\ [][Next]_vars

-----------------------------------------------------------------------------
(* Properties *)

\* Every variable has its type; lists and pointers name targets the heap has room for.
TypeOK ==
    /\ created \in 0 .. MaxTargets
    /\ target_list \in Seq(Targets)
    /\ tc \in [Targets -> {"none", "gdb", "ui"}]
    /\ attached \in [Targets -> BOOLEAN]
    /\ cur_target \in Targets \cup {Null}
    /\ last_target \in Targets \cup {Null}
    /\ gdb_needs_detach_notify \in BOOLEAN
    /\ gdb_target_running \in BOOLEAN
    /\ g_target_lock \in {"null", "free", "ui"}
    /\ dtr \in BOOLEAN
    /\ host_session_active \in BOOLEAN
    /\ pc \in [Tasks -> {"idle", "checked", "incall", "assign"}]
    /\ op \in [Tasks -> {"none", "use", "resume", "read", "poll", "detach",
                         "attach", "R", "vRun", "scan"}]
    /\ ptr \in [Tasks -> Targets \cup {Null}]
    /\ panic \in {"no", "null", "freed"}
    /\ hostTarget \in Targets \cup {Null}

\* cur_target is NULL or a target of the list that is attached and has a
\* controller, so that target_list_free will clear the pointer when it frees the
\* target (gdb_main.c:91-104, ui_debug.c:58-63, target.c:109-136).
CurTargetHeld ==
    cur_target # Null =>
      /\ cur_target \in Live
      /\ attached[cur_target]
      /\ tc[cur_target] # "none"

\* target_lock.h:4-8: at most one task is in a call that touches the target.
TargetExclusive == ~(pc["gdb"] = "incall" /\ pc["ui"] = "incall")

=============================================================================
