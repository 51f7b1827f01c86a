------------------------ MODULE TargetSession_proofs ------------------------
(***************************************************************************)
(* While the GDB task and ui_task take turns, cur_target never dangles:    *)
(* for any number of targets and whichever of the two tasks is used.       *)
(*                                                                         *)
(* The last part is what the GDB task keeps for its host as long as no     *)
(* target was attached from the keyboard: every controller in the list is  *)
(* then gdb_controller, whose destroy callback clears both pointers and    *)
(* tells the host.  An attach from the keyboard ends this until the next   *)
(* reboot, because ui_ctrl_destroy looks at cur_target only and tells      *)
(* nobody.                                                                 *)
(***************************************************************************)
EXTENDS MCTargetSession, TLAPS

\* Only one task is in a command: none of the REPL's starts while the host is
\* in one, and the other way round.  An attach does not check cur_target.
OneAtATime ==
    /\ pc["gdb"] = "idle" \/ pc["ui"] = "idle"
    /\ \A task \in Tasks : pc[task] = "checked" => op[task] \notin {"attach", "R", "vRun"}

\* target_list_free clears a pointer to such a target.
Secure(t) == t \in Live /\ attached[t] /\ tc[t] # "none"

Attaching(task) == pc[task] = "incall" /\ op[task] \in {"attach", "R", "vRun"}

\* A target being attached already has its new controller.
AttachingControlled ==
    \A task \in Tasks :
      Attaching(task) /\ ptr[task] \in Live => tc[ptr[task]] # "none"

\* Between target_unlock and the assignment of v_attach its target stays secure.
AssignHeld == pc["ui"] = "assign" => Secure(ptr["ui"])

SessionInv ==
    /\ TypeOK
    /\ OneAtATime
    /\ AttachingControlled
    /\ AssignHeld
    /\ CurTargetHeld

-----------------------------------------------------------------------------

\* Every step keeps the types.
LEMMA TypeStep == TypeOK /\ [Next]_vars => TypeOK'
<1> SUFFICES ASSUME TypeOK, [Next]_vars PROVE TypeOK'
  OBVIOUS
<1> USE TargetsAssumption DEF TypeOK, Tasks, Null, Targets
<1>1. ASSUME NEW task \in Tasks, Crash(task) PROVE TypeOK'
  BY <1>1 DEF Crash, BadPointer, listVars, gdbVars, lineVars, taskVars, Live
<1>2. ASSUME NEW task \in Tasks, UseCall(task) PROVE TypeOK'
  BY <1>2 DEF UseCall, Lock, Goto, listVars, gdbVars, lineVars
<1>3. ASSUME NEW task \in Tasks, UseReturn(task) PROVE TypeOK'
  BY <1>3 DEF UseReturn, Running, Unlock, Idle, listVars, gdbVars, lineVars,
       Live, Goto
<1>4. ASSUME NEW task \in Tasks, AttachReturn(task) PROVE TypeOK'
  BY <1>4 DEF AttachReturn, Running, Unlock, Idle, Goto, lineVars, Live, Heard
<1>5. ASSUME NEW task \in Tasks, DetachReturn(task) PROVE TypeOK'
  BY <1>5 DEF DetachReturn, Running, Unlock, Idle, lineVars, Live, Goto
<1>6. ASSUME NEW task \in Tasks, ScanFound(task) PROVE TypeOK'
  BY <1>6 DEF ScanFound, TargetNew, gdbVars, lineVars, taskVars
<1>7. ASSUME NEW task \in Tasks, ScanEnd(task) PROVE TypeOK'
  BY <1>7 DEF ScanEnd, Idle, listVars, gdbVars, lineVars, Goto
<1>8. ASSUME NEW task \in Tasks, UseCheck(task) PROVE TypeOK'
  BY <1>8 DEF UseCheck, Start, Checks, Goto, listVars, gdbVars, lineVars,
       Other
<1>9. ASSUME NEW task \in Tasks, UncheckedCall(task) PROVE TypeOK'
  BY <1>9 DEF UncheckedCall, Start, Goto, listVars, gdbVars, lineVars, Other
<1>10. ASSUME NEW task \in Tasks, AttachStart(task) PROVE TypeOK'
  BY <1>10 DEF AttachStart, Start, TakeOver, Goto, Lock, lineVars, Other,
       CurAfter, LastAfter, Told
<1>11. ASSUME NEW task \in Tasks, ScanStart(task) PROVE TypeOK'
  BY <1>11 DEF ScanStart, Start, TargetListFree, Goto, lineVars, Other,
       CurByFree, LastByFree, ToldByFree, Live, Told
<1>12. ASSUME NEW task \in Tasks, Emulate(task) PROVE TypeOK'
  BY <1>12 DEF Emulate, Start, TargetNew, gdbVars, lineVars, taskVars, Other
<1>13. ASSUME NEW task \in Tasks, MonitorReset(task) PROVE TypeOK'
  BY <1>13 DEF MonitorReset, Start, TargetListFree, lineVars, taskVars, Other,
       CurByFree, LastByFree, ToldByFree, Live, Told
<1>14. CASE ResumeReturn
  BY <1>14 DEF ResumeReturn, Running, Idle, listVars, lineVars, Live, Goto
<1>15. CASE QueryHalt
  BY <1>15 DEF QueryHalt, Start, listVars, lineVars, taskVars, Other
<1>16. CASE VStopped
  BY <1>16 DEF VStopped, Start, listVars, lineVars, taskVars, Other
<1>17. CASE AttachNoSuch
  BY <1>17 DEF AttachNoSuch, Start, listVars, lineVars, taskVars, Other
<1>18. CASE RerunStart
  BY <1>18 DEF RerunStart, Start, Live, TakeOver, listVars, gdbVars, Goto,
       lineVars, Other, CurAfter, LastAfter, Told
<1>19. CASE RerunReturn
  BY <1>19 DEF RerunReturn, Running, Goto, Idle, lineVars, Live, Heard
<1>20. CASE ReadNext
  BY <1>20 DEF ReadNext, Running, Unlock, Goto, listVars, gdbVars, lineVars,
       Live
<1>21. CASE PollLost
  BY <1>21 DEF PollLost, Running, TargetListFree, Unlock, Idle, lineVars,
       Live, CurByFree, LastByFree, ToldByFree, Goto, Told
<1>22. CASE UiAssign
  BY <1>22 DEF UiAssign, Idle, listVars, lineVars, Goto
<1>23. CASE HostOpen
  BY <1>23 DEF HostOpen, listVars, gdbVars, taskVars
<1>24. CASE LineState
  BY <1>24 DEF LineState, listVars, gdbVars, taskVars
<1>25. CASE HostClose
  BY <1>25 DEF HostClose, listVars, gdbVars, taskVars
<1>26. CASE Unplug
  BY <1>26 DEF Unplug, listVars, gdbVars, taskVars
<1>27. CASE Reboot
  <2>1. target_list' \in Seq(Targets) /\ created' \in 0 .. MaxTargets
    BY <1>27 DEF Reboot
  <2>2. /\ tc' \in [Targets -> {"none", "gdb", "ui"}]
        /\ attached' \in [Targets -> BOOLEAN]
    BY <1>27, Zenon DEF Reboot
  <2>3. /\ pc' \in [Tasks -> {"idle", "checked", "incall", "assign"}]
        /\ op' \in [Tasks -> {"none", "use", "resume", "read", "poll", "detach",
                             "attach", "R", "vRun", "scan"}]
        /\ ptr' \in [Tasks -> Targets \cup {Null}]
    BY <1>27, Zenon DEF Reboot
  <2> QED
    BY <1>27, <2>1, <2>2, <2>3, Zenon DEF Reboot
<1>28. CASE UNCHANGED vars
  BY <1>28, Zenon DEF vars, listVars, gdbVars, lineVars, taskVars
<1> QED
  BY <1>1, <1>2, <1>3, <1>4, <1>5, <1>6, <1>7, <1>8, <1>9, <1>10, <1>11,
       <1>12, <1>13, <1>14, <1>15, <1>16, <1>17, <1>18, <1>19, <1>20, <1>21,
       <1>22, <1>23, <1>24, <1>25, <1>26, <1>27, <1>28 DEF Next, Progress,
       Command, GdbNext, UiNext

\* A command only starts while the other task is idle.
LEMMA OneAtATimeStep ==
    ASSUME Overlap = FALSE, TypeOK, OneAtATime, [Next]_vars
    PROVE  OneAtATime'
<1> USE DEF OneAtATime, Tasks
<1>1. ASSUME NEW task \in Tasks, Crash(task) PROVE OneAtATime'
  BY <1>1, Overlap = FALSE, TypeOK DEF Crash, taskVars
<1>2. ASSUME NEW task \in Tasks, UseCall(task) PROVE OneAtATime'
  BY <1>2, Overlap = FALSE, TypeOK DEF UseCall, Goto
<1>3. ASSUME NEW task \in Tasks, UseReturn(task) PROVE OneAtATime'
  BY <1>3, Overlap = FALSE, TypeOK DEF UseReturn, Running, Idle, Goto
<1>4. ASSUME NEW task \in Tasks, AttachReturn(task) PROVE OneAtATime'
  <2>1. /\ pc[task] = "incall"
        /\ \E place, operation : /\ place # "checked"
                                 /\ pc' = [pc EXCEPT ![task] = place]
                                 /\ op' = [op EXCEPT ![task] = operation]
    <3>1. Goto(task, "assign", "attach", ptr[task]) \/ Idle(task)
      BY <1>4, Zenon DEF AttachReturn
    <3>2. pc[task] = "incall"
      BY <1>4 DEF AttachReturn, Running
    <3>3. CASE Goto(task, "assign", "attach", ptr[task])
      BY <3>2, <3>3, "assign" # "checked", Zenon DEF Goto
    <3>4. CASE Idle(task)
      BY <3>2, <3>4, "idle" # "checked", Zenon DEF Goto, Idle
    <3> QED
      BY <3>1, <3>3, <3>4
  <2> QED
    BY <2>1, TypeOK DEF TypeOK
<1>5. ASSUME NEW task \in Tasks, DetachReturn(task) PROVE OneAtATime'
  BY <1>5, Overlap = FALSE, TypeOK DEF DetachReturn, Running, Idle, Goto
<1>6. ASSUME NEW task \in Tasks, ScanFound(task) PROVE OneAtATime'
  BY <1>6, Overlap = FALSE, TypeOK DEF ScanFound, taskVars
<1>7. ASSUME NEW task \in Tasks, ScanEnd(task) PROVE OneAtATime'
  BY <1>7, Overlap = FALSE, TypeOK DEF ScanEnd, Idle, Goto
<1>8. ASSUME NEW task \in Tasks, UseCheck(task) PROVE OneAtATime'
  <2>1. PICK operation \in Checks(task) : Goto(task, "checked", operation, Null)
    BY <1>8 DEF UseCheck
  <2>2. pc[Other(task)] = "idle"
    BY <1>8, Overlap = FALSE DEF UseCheck, Start
  <2> QED
    BY <2>1, <2>2, TypeOK DEF Goto, Checks, TypeOK, Other
<1>9. ASSUME NEW task \in Tasks, UncheckedCall(task) PROVE OneAtATime'
  <2>1. /\ pc[Other(task)] = "idle"
        /\ pc' = [pc EXCEPT ![task] = "incall"]
        /\ op' = [op EXCEPT ![task] = "use"]
    BY <1>9, Overlap = FALSE, Zenon DEF UncheckedCall, Start, Goto
  <2> QED
    BY <2>1, TypeOK DEF TypeOK, Other
<1>10. ASSUME NEW task \in Tasks, AttachStart(task) PROVE OneAtATime'
  BY <1>10, Overlap = FALSE, TypeOK DEF AttachStart, Start, Goto, Other
<1>11. ASSUME NEW task \in Tasks, ScanStart(task) PROVE OneAtATime'
  BY <1>11, Overlap = FALSE, TypeOK DEF ScanStart, Start, Goto, Other
<1>12. ASSUME NEW task \in Tasks, Emulate(task) PROVE OneAtATime'
  BY <1>12, Overlap = FALSE, TypeOK DEF Emulate, Start, taskVars, Other
<1>13. ASSUME NEW task \in Tasks, MonitorReset(task) PROVE OneAtATime'
  BY <1>13, Overlap = FALSE, TypeOK DEF MonitorReset, Start, taskVars, Other
<1>14. CASE ResumeReturn
  BY <1>14, Overlap = FALSE, TypeOK DEF ResumeReturn, Running, Idle, Goto
<1>15. CASE QueryHalt
  BY <1>15, Overlap = FALSE, TypeOK DEF QueryHalt, Start, taskVars, Other
<1>16. CASE VStopped
  BY <1>16, Overlap = FALSE, TypeOK DEF VStopped, Start, taskVars, Other
<1>17. CASE AttachNoSuch
  BY <1>17, Overlap = FALSE, TypeOK DEF AttachNoSuch, Start, taskVars, Other
<1>18. CASE RerunStart
  BY <1>18, Overlap = FALSE, TypeOK DEF RerunStart, Start, Goto, Other
<1>19. CASE RerunReturn
  <2>1. /\ pc["gdb"] = "incall"
        /\ \E place, operation : /\ place # "checked"
                                 /\ pc' = [pc EXCEPT !["gdb"] = place]
                                 /\ op' = [op EXCEPT !["gdb"] = operation]
    <3>1. Goto("gdb", "incall", "use", Null) \/ Idle("gdb")
      BY <1>19, Zenon DEF RerunReturn
    <3>2. pc["gdb"] = "incall"
      BY <1>19 DEF RerunReturn, Running
    <3> QED
      BY <3>1, <3>2, "incall" # "checked", "idle" # "checked", Zenon DEF Goto, Idle
  <2> QED
    BY <2>1, TypeOK DEF TypeOK
<1>20. CASE ReadNext
  BY <1>20, Overlap = FALSE, TypeOK DEF ReadNext, Running, Goto
<1>21. CASE PollLost
  BY <1>21, Overlap = FALSE, TypeOK DEF PollLost, Running, Idle, Goto
<1>22. CASE UiAssign
  BY <1>22, Overlap = FALSE, TypeOK DEF UiAssign, Idle, Goto
<1>23. CASE HostOpen
  BY <1>23, Overlap = FALSE, TypeOK DEF HostOpen, taskVars
<1>24. CASE LineState
  BY <1>24, Overlap = FALSE, TypeOK DEF LineState, taskVars
<1>25. CASE HostClose
  BY <1>25, Overlap = FALSE, TypeOK DEF HostClose, taskVars
<1>26. CASE Unplug
  BY <1>26, Overlap = FALSE, TypeOK DEF Unplug, taskVars
<1>27. CASE Reboot
  BY <1>27, Overlap = FALSE, TypeOK DEF Reboot
<1>28. CASE UNCHANGED vars
  BY <1>28 DEF vars, listVars, gdbVars, lineVars, taskVars, Live
<1> QED
  BY <1>1, <1>2, <1>3, <1>4, <1>5, <1>6, <1>7, <1>8, <1>9, <1>10, <1>11,
       <1>12, <1>13, <1>14, <1>15, <1>16, <1>17, <1>18, <1>19, <1>20, <1>21,
       <1>22, <1>23, <1>24, <1>25, <1>26, <1>27, <1>28 DEF Next, Progress,
       Command, GdbNext, UiNext

\* The targets of the list are targets.
LEMMA LiveType == TypeOK => Live \subseteq Targets
BY DEF TypeOK, Live

\* A task that was not in an attach, or stays in the same one.
QuietTasks ==
    /\ pc'["ui"] = "assign" => pc["ui"] = "assign" /\ ptr'["ui"] = ptr["ui"]
    /\ \A task \in Tasks : Attaching(task)' => Attaching(task) /\ ptr'[task] = ptr[task]

Held == AttachingControlled /\ AssignHeld /\ CurTargetHeld

\* Steps that leave the list alone and at most clear cur_target.
LEMMA QuietStep ==
    ASSUME Held, UNCHANGED <<target_list, tc, attached>>, QuietTasks,
           cur_target' = cur_target \/ cur_target' = Null
    PROVE  Held'
<1>1. Live' = Live
  BY DEF Live
<1>2. \A t : Secure(t) => Secure(t)'
  BY <1>1, Zenon DEF Secure
<1>3. AttachingControlled'
  BY <1>1, Zenon DEF Held, AttachingControlled, QuietTasks
<1>4. AssignHeld'
  BY <1>2, Zenon DEF Held, AssignHeld, QuietTasks
<1>5. CurTargetHeld'
  BY <1>2, Zenon DEF Held, CurTargetHeld, Secure, Null
<1> QED
  BY <1>3, <1>4, <1>5 DEF Held

\* Freeing the list clears a held cur_target: its controller is called, and each
\* of the two controllers clears it.
LEMMA FreeClears ==
    ASSUME TypeOK, CurTargetHeld
    PROVE  CurByFree = Null
<1>1. CASE cur_target = Null
  BY <1>1 DEF CurByFree
<1>2. CASE cur_target # Null
  <2>1. cur_target \in Live /\ tc[cur_target] # "none"
    BY <1>2, Zenon DEF CurTargetHeld
  <2>2. tc[cur_target] \in {"gdb", "ui"}
    BY <2>1, TypeOK, LiveType DEF TypeOK
  <2> QED
    BY <2>1, <2>2 DEF CurByFree, Told
<1> QED
  BY <1>1, <1>2

\* After the list was freed by a task, nothing is held.
LEMMA FreeStep ==
    ASSUME TypeOK, CurTargetHeld, TargetListFree, pc'["ui"] # "assign"
    PROVE  Held'
<1>1. Live' = {}
  BY DEF TargetListFree, Live
<1>2. cur_target' = Null
  BY FreeClears DEF TargetListFree
<1> QED
  BY <1>1, <1>2 DEF Held, AttachingControlled, AssignHeld, CurTargetHeld

\* A new target at the end of the list leaves the others in it.
LEMMA NewKeepsLive ==
    ASSUME TypeOK, TargetNew
    PROVE  Live \subseteq Live'
<1>1. target_list \in Seq(Targets) /\ target_list' = Append(target_list, created + 1)
  BY DEF TypeOK, TargetNew
<1>2. \A i \in DOMAIN target_list : i \in DOMAIN target_list' /\ target_list'[i] = target_list[i]
  BY <1>1
<1> QED
  BY <1>2 DEF Live

\* A new target while no task is attaching.
LEMMA NewStep ==
    ASSUME TypeOK, Held, TargetNew, UNCHANGED cur_target,
           pc'["ui"] # "assign", \A task \in Tasks : ~Attaching(task)'
    PROVE  Held'
<1>1. \A t : Secure(t) => Secure(t)'
  BY NewKeepsLive, Zenon DEF Secure, TargetNew
<1>2. CurTargetHeld'
  BY <1>1, Zenon DEF Held, CurTargetHeld, Secure, Null
<1> QED
  BY <1>2 DEF Held, AttachingControlled, AssignHeld

\* target_attach up to the driver: the old controller gives up cur_target if it
\* points to the target that changes hands.
LEMMA TakeOverStep ==
    ASSUME TypeOK, CurTargetHeld, NEW task \in Tasks, NEW t \in Live, TakeOver(task, t),
           ptr' = [ptr EXCEPT ![task] = t], pc'["ui"] # "assign",
           \A other \in Tasks : Attaching(other)' => other = task
    PROVE  Held'
<1>1. Live' = Live /\ attached' = attached
  BY DEF Live, TakeOver
<1>2. t \in Targets /\ tc' = [tc EXCEPT ![t] = task] /\ tc \in [Targets -> {"none", "gdb", "ui"}]
  BY LiveType DEF TypeOK, TakeOver
<1>3. ptr'[task] = t
  BY DEF TypeOK
<1>4. AttachingControlled'
  BY <1>2, <1>3 DEF AttachingControlled, Tasks
<1>5. cur_target' = Null \/ (cur_target' = cur_target /\ cur_target # t)
  <2>1. cur_target = t => tc[t] \in {"gdb", "ui"}
    <3> SUFFICES ASSUME cur_target = t PROVE tc[t] # "none"
      BY <1>2
    <3>1. t # Null
      BY <1>2, TargetsAssumption DEF Targets, Null
    <3> QED
      BY <3>1, Zenon DEF CurTargetHeld
  <2> QED
    BY <2>1 DEF TakeOver, CurAfter, Told
<1>6. cur_target' # Null => tc'[cur_target'] = tc[cur_target]
  BY <1>2, <1>5, LiveType DEF CurTargetHeld, TypeOK
<1>7. CurTargetHeld'
  BY <1>1, <1>5, <1>6, Zenon DEF CurTargetHeld, Null
<1> QED
  BY <1>4, <1>7 DEF Held, AssignHeld

\* The driver of an attach has returned with success: the target is secure.
LEMMA AttachedSecure ==
    ASSUME TypeOK, AttachingControlled, NEW task \in Tasks, Attaching(task),
           NEW t \in Live, t = ptr[task], UNCHANGED <<target_list, tc>>,
           attached' = [attached EXCEPT ![t] = TRUE]
    PROVE  Secure(t)'
<1>1. tc[t] # "none"
  BY Zenon DEF AttachingControlled
<1>2. attached'[t] = TRUE
  BY LiveType DEF TypeOK
<1>3. t \in Live'
  BY DEF Live
<1> QED
  BY <1>1, <1>2, <1>3, Zenon DEF Secure

\* Either way no other target changes, and cur_target stays held.
LEMMA AttachKeeps ==
    ASSUME TypeOK, NEW t \in Live, NEW ok \in BOOLEAN, UNCHANGED <<target_list, tc>>,
           attached' = [attached EXCEPT ![t] = ok \/ @]
    PROVE  /\ Live' = Live
           /\ \A u : Secure(u) => Secure(u)'
           /\ ok => attached' = [attached EXCEPT ![t] = TRUE]
<1>1. Live' = Live
  BY DEF Live
<1>2. \A u \in Targets : attached[u] => attached'[u]
  BY LiveType, Zenon DEF TypeOK
<1>3. \A u : Secure(u) => Secure(u)'
  BY <1>1, <1>2, LiveType, Zenon DEF Secure
<1>4. ok => (ok \/ attached[t]) = TRUE
  OBVIOUS
<1>5. ok => attached' = [attached EXCEPT ![t] = TRUE]
  BY <1>4
<1> QED
  BY <1>1, <1>3, <1>5

-----------------------------------------------------------------------------

\* Every step keeps what makes cur_target safe.
LEMMA HeldStep ==
    ASSUME Overlap = FALSE, TypeOK, OneAtATime, Held, [Next]_vars
    PROVE  Held'
<1>1. ASSUME NEW task \in Tasks, Crash(task) PROVE Held'
  <2>1. QuietTasks
    BY <1>1 DEF QuietTasks, Attaching, OneAtATime, Tasks, TypeOK, Crash, taskVars
  <2> QED
    BY <1>1, <2>1, QuietStep DEF Crash, listVars, gdbVars
<1>2. ASSUME NEW task \in Tasks, UseCall(task) PROVE Held'
  <2>1. QuietTasks
    BY <1>2 DEF QuietTasks, Attaching, OneAtATime, Tasks, TypeOK, UseCall, Goto
  <2> QED
    BY <1>2, <2>1, QuietStep DEF UseCall, listVars, gdbVars
<1>3. ASSUME NEW task \in Tasks, UseReturn(task) PROVE Held'
  <2>1. QuietTasks
    BY <1>3 DEF QuietTasks, Attaching, OneAtATime, Tasks, TypeOK, UseReturn,
       Running, Idle, Goto
  <2> QED
    BY <1>3, <2>1, QuietStep DEF UseReturn, listVars, gdbVars
<1>4. ASSUME NEW task \in Tasks, AttachReturn(task) PROVE Held'
  <2> DEFINE t == ptr[task]
  <2>1. Attaching(task) /\ t \in Live /\ UNCHANGED <<target_list, tc>>
    BY <1>4 DEF AttachReturn, Running, Attaching
  <2>2. PICK ok \in BOOLEAN :
           /\ attached' = [attached EXCEPT ![t] = ok \/ @]
           /\ IF task = "gdb"
              THEN /\ cur_target' = IF ok THEN t ELSE Null
                   /\ Idle(task)
              ELSE /\ UNCHANGED cur_target
                   /\ IF ok THEN Goto(task, "assign", "attach", t) ELSE Idle(task)
    BY <1>4, Zenon DEF AttachReturn
  <2>3. /\ Live' = Live
        /\ \A u : Secure(u) => Secure(u)'
        /\ ok => attached' = [attached EXCEPT ![t] = TRUE]
    BY <2>1, <2>2, AttachKeeps
  <2>4. ok => \A u : u = t => Secure(u)'
    BY <2>1, <2>3, AttachedSecure DEF Held
  <2>5. \E place, v :
           /\ pc' = [pc EXCEPT ![task] = place]
           /\ ptr' = [ptr EXCEPT ![task] = v]
           /\ place # "incall"
           /\ place = "assign" => ok /\ task = "ui" /\ v = t
    <3>1. CASE Idle(task)
      BY <3>1, "idle" # "incall", "idle" # "assign", Zenon DEF Idle, Goto
    <3>2. CASE Goto(task, "assign", "attach", t) /\ ok /\ task # "gdb"
      BY <3>2 DEF Goto, Tasks
    <3> QED
      BY <2>2, <3>1, <3>2, Zenon
  <2>6. \A other \in Tasks : ~Attaching(other)'
    BY <2>1, <2>5 DEF Attaching, OneAtATime, Tasks, TypeOK
  <2>7. pc'["ui"] = "assign" => ok /\ ptr'["ui"] = t
    BY <2>1, <2>5 DEF Attaching, OneAtATime, Tasks, TypeOK
  <2>8. cur_target' # Null => cur_target' = cur_target \/ (ok /\ cur_target' = t)
    BY <2>2
  <2>9. CurTargetHeld'
    <3>1. cur_target # Null => Secure(cur_target)
      BY Zenon DEF Held, CurTargetHeld, Secure
    <3>2. \A u : u = cur_target' /\ u # Null => Secure(u)'
      BY <2>3, <2>4, <2>8, <3>1, Zenon
    <3> QED
      BY <3>2, Zenon DEF CurTargetHeld, Secure, Null
  <2>10. AssignHeld'
    BY <2>4, <2>7, Zenon DEF AssignHeld, Secure
  <2> QED
    BY <2>6, <2>9, <2>10 DEF Held, AttachingControlled
<1>5. ASSUME NEW task \in Tasks, DetachReturn(task) PROVE Held'
  <2>1. cur_target' = Null /\ UNCHANGED <<target_list, tc>>
    BY <1>5 DEF DetachReturn
  <2>2. pc'["ui"] # "assign" /\ \A other \in Tasks : ~Attaching(other)'
    BY <1>5 DEF DetachReturn, Running, Idle, Goto, Attaching, OneAtATime, Tasks, TypeOK
  <2> QED
    BY <2>1, <2>2 DEF Held, AttachingControlled, AssignHeld, CurTargetHeld
<1>6. ASSUME NEW task \in Tasks, ScanFound(task) PROVE Held'
  <2>1. TargetNew /\ UNCHANGED cur_target
    BY <1>6 DEF ScanFound, gdbVars
  <2>2. pc'["ui"] # "assign" /\ \A other \in Tasks : ~Attaching(other)'
    BY <1>6, Overlap = FALSE DEF ScanFound, taskVars, Attaching, OneAtATime,
       Tasks, TypeOK
  <2> QED
    BY <2>1, <2>2, NewStep
<1>7. ASSUME NEW task \in Tasks, ScanEnd(task) PROVE Held'
  <2>1. QuietTasks
    BY <1>7 DEF QuietTasks, Attaching, OneAtATime, Tasks, TypeOK, ScanEnd, Idle,
       Goto
  <2> QED
    BY <1>7, <2>1, QuietStep DEF ScanEnd, listVars, gdbVars
<1>8. ASSUME NEW task \in Tasks, UseCheck(task) PROVE Held'
  <2>1. QuietTasks
    BY <1>8 DEF QuietTasks, Attaching, OneAtATime, Tasks, TypeOK, UseCheck, Start,
       Goto
  <2> QED
    BY <1>8, <2>1, QuietStep DEF UseCheck, listVars, gdbVars
<1>9. ASSUME NEW task \in Tasks, UncheckedCall(task) PROVE Held'
  <2>1. QuietTasks
    BY <1>9 DEF QuietTasks, Attaching, OneAtATime, Tasks, TypeOK, UncheckedCall,
       Start, Goto
  <2> QED
    BY <1>9, <2>1, QuietStep DEF UncheckedCall, listVars, gdbVars
<1>10. ASSUME NEW task \in Tasks, AttachStart(task) PROVE Held'
  <2>1. PICK n \in DOMAIN target_list :
           /\ TakeOver(task, target_list[n])
           /\ Goto(task, "incall", "attach", target_list[n])
    BY <1>10 DEF AttachStart
  <2>2. target_list[n] \in Live
    BY <2>1 DEF Live
  <2>3. /\ pc'["ui"] # "assign"
        /\ ptr' = [ptr EXCEPT ![task] = target_list[n]]
        /\ \A other \in Tasks : Attaching(other)' => other = task
    BY <1>10, <2>1, Overlap = FALSE
       DEF AttachStart, Start, Other, Goto, Attaching, Tasks, TypeOK
  <2> QED
    BY <2>1, <2>2, <2>3, TakeOverStep DEF Held
<1>11. ASSUME NEW task \in Tasks, ScanStart(task) PROVE Held'
  <2>1. TargetListFree /\ pc'["ui"] # "assign"
    BY <1>11, Overlap = FALSE DEF ScanStart, Start, Other, Goto, Tasks, TypeOK
  <2> QED
    BY <2>1, FreeStep DEF Held
<1>12. ASSUME NEW task \in Tasks, Emulate(task) PROVE Held'
  <2>1. TargetNew /\ UNCHANGED cur_target
    BY <1>12 DEF Emulate, gdbVars
  <2>2. pc'["ui"] # "assign" /\ \A other \in Tasks : ~Attaching(other)'
    BY <1>12, Overlap = FALSE DEF Emulate, taskVars, Start, Other, Attaching,
       OneAtATime, Tasks, TypeOK
  <2> QED
    BY <2>1, <2>2, NewStep
<1>13. ASSUME NEW task \in Tasks, MonitorReset(task) PROVE Held'
  <2>1. TargetListFree /\ pc'["ui"] # "assign"
    BY <1>13, Overlap = FALSE DEF MonitorReset, Start, Other, taskVars, Tasks,
       TypeOK
  <2> QED
    BY <2>1, FreeStep DEF Held
<1>14. CASE ResumeReturn
  <2>1. QuietTasks
    BY <1>14 DEF QuietTasks, Attaching, OneAtATime, Tasks, TypeOK, ResumeReturn,
       Running, Idle, Goto
  <2> QED
    BY <1>14, <2>1, QuietStep DEF ResumeReturn, listVars
<1>15. CASE QueryHalt
  <2>1. QuietTasks
    BY <1>15 DEF QuietTasks, Attaching, OneAtATime, Tasks, TypeOK, QueryHalt,
       Start, taskVars
  <2> QED
    BY <1>15, <2>1, QuietStep DEF QueryHalt, listVars
<1>16. CASE VStopped
  <2>1. QuietTasks
    BY <1>16 DEF QuietTasks, Attaching, OneAtATime, Tasks, TypeOK, VStopped, Start,
       taskVars
  <2> QED
    BY <1>16, <2>1, QuietStep DEF VStopped, listVars
<1>17. CASE AttachNoSuch
  <2>1. QuietTasks
    BY <1>17 DEF QuietTasks, Attaching, OneAtATime, Tasks, TypeOK, AttachNoSuch,
       Start, taskVars
  <2> QED
    BY <1>17, <2>1, QuietStep DEF AttachNoSuch, listVars
<1>18. CASE RerunStart
  <2>1. /\ pc'["ui"] # "assign"
        /\ ptr' = [ptr EXCEPT !["gdb"] = last_target]
        /\ \A other \in Tasks : Attaching(other)' => other = "gdb"
    BY <1>18, Overlap = FALSE DEF RerunStart, Start, Other, Goto, Attaching, Tasks, TypeOK
  <2>2. CASE last_target \in Live
    BY <1>18, <2>1, <2>2, TakeOverStep DEF RerunStart, Held, Tasks
  <2>3. CASE last_target \notin Live
    <3>1. UNCHANGED <<target_list, tc, attached, cur_target>>
      BY <1>18, <2>3 DEF RerunStart, listVars, gdbVars
    <3>2. Live' = Live /\ ptr'["gdb"] = last_target
      BY <2>1, <3>1 DEF Live, TypeOK, Tasks
    <3>3. AttachingControlled'
      BY <2>1, <2>3, <3>2 DEF AttachingControlled
    <3>4. CurTargetHeld'
      BY <3>1, <3>2, Zenon DEF Held, CurTargetHeld, Null
    <3> QED
      BY <2>1, <3>3, <3>4 DEF Held, AssignHeld
  <2> QED
    BY <2>2, <2>3
<1>19. CASE RerunReturn
  <2> DEFINE t == ptr["gdb"]
  <2>1. Attaching("gdb") /\ t \in Live /\ UNCHANGED <<target_list, tc>>
    BY <1>19 DEF RerunReturn, Running, Attaching
  <2>2. PICK ok \in BOOLEAN :
           /\ attached' = [attached EXCEPT ![t] = ok \/ @]
           /\ cur_target' = IF ok THEN t ELSE Null
           /\ Goto("gdb", "incall", "use", Null) \/ Idle("gdb")
    BY <1>19, Zenon DEF RerunReturn
  <2>3. /\ Live' = Live
        /\ \A u : Secure(u) => Secure(u)'
        /\ ok => attached' = [attached EXCEPT ![t] = TRUE]
    BY <2>1, <2>2, AttachKeeps
  <2>4. ok => \A u : u = t => Secure(u)'
    BY <2>1, <2>3, AttachedSecure DEF Held, Tasks
  <2>5. \A other \in Tasks : ~Attaching(other)'
    BY <2>1, <2>2 DEF Goto, Idle, Attaching, OneAtATime, Tasks, TypeOK
  <2>6. pc'["ui"] # "assign"
    BY <2>1, <2>2 DEF Goto, Idle, Attaching, OneAtATime, Tasks, TypeOK
  <2>7. cur_target' # Null => ok /\ cur_target' = t
    BY <2>2
  <2>8. CurTargetHeld'
    BY <2>4, <2>7, Zenon DEF CurTargetHeld, Secure, Null
  <2> QED
    BY <2>5, <2>6, <2>8 DEF Held, AttachingControlled, AssignHeld
<1>20. CASE ReadNext
  <2>1. QuietTasks
    BY <1>20 DEF QuietTasks, Attaching, OneAtATime, Tasks, TypeOK, ReadNext,
       Running, Goto
  <2> QED
    BY <1>20, <2>1, QuietStep DEF ReadNext, listVars, gdbVars
<1>21. CASE PollLost
  <2>1. TargetListFree /\ pc'["ui"] # "assign"
    BY <1>21, Overlap = FALSE DEF PollLost, Idle, Goto, Tasks, TypeOK
  <2> QED
    BY <2>1, FreeStep DEF Held
<1>22. CASE UiAssign
  <2>1. pc["ui"] = "assign" /\ cur_target' = ptr["ui"] /\ UNCHANGED <<target_list, tc, attached>>
    BY <1>22 DEF UiAssign, listVars
  <2>2. pc'["ui"] # "assign" /\ \A other \in Tasks : ~Attaching(other)'
    BY <1>22 DEF UiAssign, Idle, Goto, Attaching, OneAtATime, Tasks, TypeOK
  <2>3. \A u : Secure(u) => Secure(u)'
    BY <2>1, Zenon DEF Secure, Live
  <2>4. CurTargetHeld'
    BY <2>1, <2>3, Zenon DEF Held, AssignHeld, CurTargetHeld, Secure
  <2> QED
    BY <2>2, <2>4 DEF Held, AttachingControlled, AssignHeld
<1>23. CASE HostOpen
  <2>1. QuietTasks
    BY <1>23 DEF QuietTasks, Attaching, OneAtATime, Tasks, TypeOK, HostOpen,
       taskVars
  <2> QED
    BY <1>23, <2>1, QuietStep DEF HostOpen, listVars, gdbVars
<1>24. CASE LineState
  <2>1. QuietTasks
    BY <1>24 DEF QuietTasks, Attaching, OneAtATime, Tasks, TypeOK, LineState,
       taskVars
  <2> QED
    BY <1>24, <2>1, QuietStep DEF LineState, listVars, gdbVars
<1>25. CASE HostClose
  <2>1. QuietTasks
    BY <1>25 DEF QuietTasks, Attaching, OneAtATime, Tasks, TypeOK, HostClose,
       taskVars
  <2> QED
    BY <1>25, <2>1, QuietStep DEF HostClose, listVars, gdbVars
<1>26. CASE Unplug
  <2>1. QuietTasks
    BY <1>26 DEF QuietTasks, Attaching, OneAtATime, Tasks, TypeOK, Unplug, taskVars
  <2> QED
    BY <1>26, <2>1, QuietStep DEF Unplug, listVars, gdbVars
<1>27. CASE Reboot
  BY <1>27 DEF Reboot, Held, AttachingControlled, Attaching, AssignHeld,
       CurTargetHeld, Tasks
<1>28. CASE UNCHANGED vars
  BY <1>28, QuietStep DEF QuietTasks, Attaching, Tasks, vars, listVars, gdbVars,
       taskVars
<1> QED
  BY <1>1, <1>2, <1>3, <1>4, <1>5, <1>6, <1>7, <1>8, <1>9, <1>10, <1>11,
       <1>12, <1>13, <1>14, <1>15, <1>16, <1>17, <1>18, <1>19, <1>20, <1>21,
       <1>22, <1>23, <1>24, <1>25, <1>26, <1>27, <1>28 DEF Next, Progress,
       Command, GdbNext, UiNext

\* The reset state satisfies the invariant.
LEMMA SessionInit == Init => SessionInv
<1> SUFFICES ASSUME Init PROVE SessionInv
  OBVIOUS
<1>1. target_list \in Seq(Targets) /\ created \in 0 .. MaxTargets
  BY TargetsAssumption DEF Init
<1>2. /\ tc \in [Targets -> {"none", "gdb", "ui"}]
      /\ attached \in [Targets -> BOOLEAN]
  BY Zenon DEF Init
<1>3. /\ pc \in [Tasks -> {"idle", "checked", "incall", "assign"}]
      /\ op \in [Tasks -> {"none", "use", "resume", "read", "poll", "detach",
                           "attach", "R", "vRun", "scan"}]
      /\ ptr \in [Tasks -> Targets \cup {Null}]
  BY Zenon DEF Init
<1>4. TypeOK
  BY <1>1, <1>2, <1>3, Zenon DEF Init, TypeOK
<1>5. OneAtATime /\ AttachingControlled /\ AssignHeld /\ CurTargetHeld
  BY DEF Init, OneAtATime, AttachingControlled, Attaching, AssignHeld, CurTargetHeld, Tasks
<1> QED
  BY <1>4, <1>5 DEF SessionInv

\* Types hold in every run, with or without overlapping commands (all variables
\* of gdb_main.c, target.c and ui.c the model keeps).
THEOREM Typing == Spec => []TypeOK
<1>1. Init => TypeOK
  BY SessionInit DEF SessionInv
<1>2. TypeOK /\ [Next]_vars => TypeOK'
  BY TypeStep
<1> QED
  BY <1>1, <1>2, PTL DEF Spec

\* The invariant is inductive.
LEMMA SessionStep ==
    ASSUME Overlap = FALSE, SessionInv, [Next]_vars
    PROVE  SessionInv'
<1>1. TypeOK'
  BY TypeStep DEF SessionInv
<1>2. OneAtATime'
  BY OneAtATimeStep, Overlap = FALSE DEF SessionInv
<1>3. Held'
  BY HeldStep, Overlap = FALSE DEF SessionInv, Held
<1> QED
  BY <1>1, <1>2, <1>3 DEF SessionInv, Held

\* While the host and the keyboard take turns, cur_target is NULL or points to an
\* attached target of the list whose controller will clear it: no command that
\* checks cur_target first works on a freed target.
THEOREM CurTargetSafe ==
    ASSUME Overlap = FALSE
    PROVE  Spec => []CurTargetHeld
<1>1. Init => SessionInv
  BY SessionInit
<1>2. SessionInv /\ [Next]_vars => SessionInv'
  BY SessionStep, Overlap = FALSE
<1>3. SessionInv => CurTargetHeld
  BY DEF SessionInv
<1> QED
  BY <1>1, <1>2, <1>3, PTL DEF Spec

-----------------------------------------------------------------------------
(* The host and the last target *)

\* Nothing in the list belongs to ui_task, and nothing is about to.
NoUiTarget ==
    /\ \A t \in Targets : tc[t] # "ui"
    /\ pc["ui"] # "assign"
    /\ ~Attaching("ui")

\* gdb_target_destroy_callback will be called for last_target.
LastHeld == last_target # Null => last_target \in Live /\ tc[last_target] = "gdb"

\* A host that was told of a target has the session, so that no command of
\* ui_task is running or can start behind its back.
HostHeld ==
    dtr /\ hostTarget # Null =>
      /\ hostTarget = cur_target
      /\ host_session_active
      /\ pc["ui"] = "idle"

Alone == NoUiTarget /\ LastHeld /\ HostHeld

-----------------------------------------------------------------------------

\* ui_task neither starts an attach nor ends one, and starts nothing at all
\* while the host has the session.
UiSettles ==
    /\ pc'["ui"] # "assign"
    /\ ~Attaching("ui")'
    /\ pc["ui"] = "idle" /\ host_session_active => pc'["ui"] = "idle"

\* No step but an attach from the keyboard moves ui_task towards holding a target.
LEMMA UiStep ==
    ASSUME TypeOK, OneAtATime, NoUiTarget, [Next]_vars, ~AttachStart("ui")
    PROVE  UiSettles
<1> USE DEF UiSettles, NoUiTarget, Attaching, OneAtATime, Tasks, TypeOK
<1>1. ASSUME NEW task \in Tasks, Crash(task) PROVE UiSettles
  BY <1>1 DEF Crash, taskVars
<1>2. ASSUME NEW task \in Tasks, UseCall(task) PROVE UiSettles
  BY <1>2 DEF UseCall, Goto
<1>3. ASSUME NEW task \in Tasks, UseReturn(task) PROVE UiSettles
  BY <1>3 DEF UseReturn, Running, Idle, Goto
<1>4. ASSUME NEW task \in Tasks, AttachReturn(task) PROVE UiSettles
  <2>1. task = "gdb"
    BY <1>4 DEF AttachReturn, Running
  <2>2. Idle(task)
    BY <1>4, <2>1, Zenon DEF AttachReturn
  <2> QED
    BY <2>1, <2>2 DEF Idle, Goto
<1>5. ASSUME NEW task \in Tasks, DetachReturn(task) PROVE UiSettles
  BY <1>5 DEF DetachReturn, Running, Idle, Goto
<1>6. ASSUME NEW task \in Tasks, ScanFound(task) PROVE UiSettles
  BY <1>6 DEF ScanFound, taskVars
<1>7. ASSUME NEW task \in Tasks, ScanEnd(task) PROVE UiSettles
  BY <1>7 DEF ScanEnd, Idle, Goto
<1>8. ASSUME NEW task \in Tasks, UseCheck(task) PROVE UiSettles
  BY <1>8 DEF UseCheck, Start, Goto, Checks
<1>9. ASSUME NEW task \in Tasks, UncheckedCall(task) PROVE UiSettles
  BY <1>9 DEF UncheckedCall, Start, Goto
<1>10. ASSUME NEW task \in Tasks, AttachStart(task) PROVE UiSettles
  <2>1. task = "gdb"
    BY <1>10, Zenon DEF Tasks
  <2> QED
    BY <1>10, <2>1 DEF AttachStart, Start, Goto
<1>11. ASSUME NEW task \in Tasks, ScanStart(task) PROVE UiSettles
  BY <1>11 DEF ScanStart, Start, Goto
<1>12. ASSUME NEW task \in Tasks, Emulate(task) PROVE UiSettles
  BY <1>12 DEF Emulate, taskVars
<1>13. ASSUME NEW task \in Tasks, MonitorReset(task) PROVE UiSettles
  BY <1>13 DEF MonitorReset, taskVars
<1>14. CASE ResumeReturn
  BY <1>14 DEF ResumeReturn, Running, Idle, Goto
<1>15. CASE QueryHalt
  BY <1>15 DEF QueryHalt, taskVars
<1>16. CASE VStopped
  BY <1>16 DEF VStopped, taskVars
<1>17. CASE AttachNoSuch
  BY <1>17 DEF AttachNoSuch, taskVars
<1>18. CASE RerunStart
  BY <1>18 DEF RerunStart, Goto
<1>19. CASE RerunReturn
  <2>1. Goto("gdb", "incall", "use", Null) \/ Idle("gdb")
    BY <1>19, Zenon DEF RerunReturn
  <2> QED
    BY <2>1 DEF Idle, Goto
<1>20. CASE ReadNext
  BY <1>20 DEF ReadNext, Running, Goto
<1>21. CASE PollLost
  BY <1>21 DEF PollLost, Idle, Goto
<1>22. CASE UiAssign
  BY <1>22 DEF UiAssign
<1>23. CASE HostOpen
  BY <1>23 DEF HostOpen, taskVars
<1>24. CASE LineState
  BY <1>24 DEF LineState, taskVars
<1>25. CASE HostClose
  BY <1>25 DEF HostClose, taskVars
<1>26. CASE Unplug
  BY <1>26 DEF Unplug, taskVars
<1>27. CASE Reboot
  BY <1>27 DEF Reboot
<1>28. CASE UNCHANGED vars
  BY <1>28 DEF vars, taskVars
<1> QED
  BY <1>1, <1>2, <1>3, <1>4, <1>5, <1>6, <1>7, <1>8, <1>9, <1>10, <1>11,
       <1>12, <1>13, <1>14, <1>15, <1>16, <1>17, <1>18, <1>19, <1>20, <1>21, <1>22,
       <1>23, <1>24, <1>25, <1>26, <1>27, <1>28
     DEF Next, Progress, Command, GdbNext, UiNext

\* A held cur_target is the GDB task's.
LEMMA CurIsGdbs ==
    ASSUME TypeOK, CurTargetHeld, NoUiTarget, cur_target # Null
    PROVE  cur_target \in Live /\ tc[cur_target] = "gdb"
<1>1. cur_target \in Live /\ tc[cur_target] # "none"
  BY Zenon DEF CurTargetHeld
<1>2. cur_target \in Targets
  BY <1>1, LiveType
<1> QED
  BY <1>1, <1>2 DEF NoUiTarget, TypeOK

\* Steps that free nothing and give no target to anybody.
LEMMA AloneQuiet ==
    ASSUME Alone, UiSettles, Live \subseteq Live', UNCHANGED <<tc, last_target>>,
           dtr' /\ hostTarget' # Null =>
             /\ UNCHANGED <<hostTarget, cur_target>>
             /\ dtr /\ (host_session_active => host_session_active')
    PROVE  Alone'
<1>1. NoUiTarget'
  BY DEF Alone, NoUiTarget, UiSettles
<1>2. LastHeld'
  BY Zenon DEF Alone, LastHeld, Null
<1>3. HostHeld'
  BY DEF Alone, HostHeld, UiSettles, Null
<1> QED
  BY <1>1, <1>2, <1>3 DEF Alone

\* target_list_free calls gdb_target_destroy_callback for every target of the
\* list: both pointers go, and a host that had a target is told.
LEMMA AloneFree ==
    ASSUME TypeOK, CurTargetHeld, Alone, UiSettles, TargetListFree, UNCHANGED dtr
    PROVE  Alone'
<1>1. NoUiTarget'
  BY DEF NoUiTarget, UiSettles, TargetListFree
<1>2. last_target' = Null
  BY DEF TargetListFree, LastByFree, Alone, LastHeld
<1>3. cur_target # Null => ToldByFree
  <2> SUFFICES ASSUME cur_target # Null PROVE ToldByFree
    OBVIOUS
  <2>1. cur_target \in Live /\ tc[cur_target] = "gdb"
    BY CurIsGdbs DEF Alone
  <2>2. PICK i \in DOMAIN target_list : target_list[i] = cur_target
    BY <2>1 DEF Live
  <2>3. \A j \in DOMAIN target_list : tc[target_list[j]] # "ui"
    BY LiveType DEF Live, Alone, NoUiTarget
  <2> QED
    BY <2>1, <2>2, <2>3 DEF ToldByFree, Told
<1>4. dtr' => hostTarget' = Null
  BY <1>3 DEF TargetListFree, Alone, HostHeld
<1> QED
  BY <1>1, <1>2, <1>4 DEF Alone, LastHeld, HostHeld

\* vAttach, R and vRun of a target the GDB task holds already: the callback lets
\* go of both pointers first and tells the host if it had the target.
LEMMA AloneTakeOver ==
    ASSUME TypeOK, Alone, UiSettles, NEW t \in Live, TakeOver("gdb", t),
           UNCHANGED lineVars
    PROVE  Alone'
<1>1. t \in Targets /\ tc' = [tc EXCEPT ![t] = "gdb"] /\ Live' = Live
  BY LiveType DEF TakeOver, Live
<1>2. NoUiTarget'
  BY <1>1 DEF Alone, NoUiTarget, UiSettles, TypeOK
<1>3. LastHeld'
  <2>1. last_target' = Null \/ (last_target' = last_target /\ last_target # t)
    BY DEF TakeOver, LastAfter, Alone, LastHeld
  <2> QED
    BY <1>1, <2>1 DEF Alone, LastHeld, TypeOK
<1>4. HostHeld'
  <2>1. hostTarget' = Null \/ (hostTarget' = hostTarget /\ cur_target' = cur_target)
    BY <1>1 DEF TakeOver, CurAfter, Told, Alone, NoUiTarget
  <2> QED
    BY <2>1 DEF Alone, HostHeld, UiSettles, lineVars
<1> QED
  BY <1>2, <1>3, <1>4 DEF Alone

\* The answer to an attach: what the host hears is what cur_target becomes.
LEMMA AloneAttached ==
    ASSUME TypeOK, OneAtATime, Alone, UiSettles, pc["gdb"] # "idle",
           UNCHANGED <<target_list, tc, last_target, dtr, host_session_active>>,
           hostTarget' \in {cur_target', Null},
           hostTarget' # Null => host_session_active
    PROVE  Alone'
<1>1. Live' = Live
  BY DEF Live
<1>2. NoUiTarget'
  BY DEF Alone, NoUiTarget, UiSettles
<1>3. LastHeld'
  BY <1>1, Zenon DEF Alone, LastHeld, Null
<1>4. HostHeld'
  BY DEF HostHeld, UiSettles, OneAtATime
<1> QED
  BY <1>2, <1>3, <1>4 DEF Alone

-----------------------------------------------------------------------------

\* Every step but an attach from the keyboard keeps it.
LEMMA AloneStep ==
    ASSUME Overlap = FALSE, SessionInv, Alone, [Next]_vars, ~AttachStart("ui")
    PROVE  Alone'
<1> USE DEF SessionInv
<1>0. UiSettles
  BY UiStep DEF Alone
<1>1. ASSUME NEW task \in Tasks, Crash(task) PROVE Alone'
  BY <1>1, <1>0, AloneQuiet DEF Crash, listVars, gdbVars, lineVars, Live
<1>2. ASSUME NEW task \in Tasks, UseCall(task) PROVE Alone'
  BY <1>2, <1>0, AloneQuiet DEF UseCall, listVars, gdbVars, lineVars, Live
<1>3. ASSUME NEW task \in Tasks, UseReturn(task) PROVE Alone'
  BY <1>3, <1>0, AloneQuiet DEF UseReturn, listVars, gdbVars, lineVars, Live
<1>4. ASSUME NEW task \in Tasks, AttachReturn(task) PROVE Alone'
  <2>1. task = "gdb" /\ pc["gdb"] # "idle"
    BY <1>4 DEF AttachReturn, Running, Tasks, Alone, NoUiTarget, Attaching
  <2>2. hostTarget' = Heard(cur_target') /\ UNCHANGED <<target_list, tc, last_target, lineVars>>
    BY <1>4, <2>1, Zenon DEF AttachReturn
  <2> QED
    BY <2>1, <2>2, <1>0, AloneAttached DEF Heard, lineVars
<1>5. ASSUME NEW task \in Tasks, DetachReturn(task) PROVE Alone'
  <2>1. /\ pc[task] = "incall"
        /\ cur_target' = Null
        /\ UNCHANGED <<target_list, tc, dtr>>
        /\ IF task = "gdb" THEN last_target' = cur_target /\ hostTarget' = Null
                           ELSE UNCHANGED <<last_target, hostTarget>>
    BY <1>5 DEF DetachReturn, Running, lineVars
  <2>2. NoUiTarget'
    BY <1>0, <2>1 DEF Alone, NoUiTarget, UiSettles
  <2>3. Live' = Live
    BY <2>1 DEF Live
  <2>4. LastHeld'
    BY <2>1, <2>3, CurIsGdbs DEF Alone, LastHeld
  <2>5. HostHeld'
    BY <2>1 DEF Alone, HostHeld, Tasks
  <2> QED
    BY <2>2, <2>4, <2>5 DEF Alone
<1>6. ASSUME NEW task \in Tasks, ScanFound(task) PROVE Alone'
  <2>1. TargetNew /\ UNCHANGED <<gdbVars, lineVars, hostTarget>>
    BY <1>6 DEF ScanFound
  <2> QED
    BY <2>1, <1>0, NewKeepsLive, AloneQuiet DEF TargetNew, gdbVars, lineVars
<1>7. ASSUME NEW task \in Tasks, ScanEnd(task) PROVE Alone'
  BY <1>7, <1>0, AloneQuiet DEF ScanEnd, listVars, gdbVars, lineVars, Live
<1>8. ASSUME NEW task \in Tasks, UseCheck(task) PROVE Alone'
  BY <1>8, <1>0, AloneQuiet DEF UseCheck, listVars, gdbVars, lineVars, Live
<1>9. ASSUME NEW task \in Tasks, UncheckedCall(task) PROVE Alone'
  BY <1>9, <1>0, AloneQuiet DEF UncheckedCall, listVars, gdbVars, lineVars, Live
<1>10. ASSUME NEW task \in Tasks, AttachStart(task) PROVE Alone'
  <2>1. task = "gdb"
    BY <1>10 DEF Tasks
  <2>2. PICK n \in DOMAIN target_list : TakeOver("gdb", target_list[n])
    BY <1>10, <2>1 DEF AttachStart
  <2>3. target_list[n] \in Live /\ UNCHANGED lineVars
    BY <1>10, <2>2 DEF AttachStart, Live
  <2> QED
    BY <2>2, <2>3, <1>0, AloneTakeOver
<1>11. ASSUME NEW task \in Tasks, ScanStart(task) PROVE Alone'
  BY <1>11, <1>0, AloneFree DEF ScanStart, lineVars
<1>12. ASSUME NEW task \in Tasks, Emulate(task) PROVE Alone'
  <2>1. TargetNew /\ UNCHANGED <<gdbVars, lineVars, hostTarget>>
    BY <1>12 DEF Emulate
  <2> QED
    BY <2>1, <1>0, NewKeepsLive, AloneQuiet DEF TargetNew, gdbVars, lineVars
<1>13. ASSUME NEW task \in Tasks, MonitorReset(task) PROVE Alone'
  BY <1>13, <1>0, AloneFree DEF MonitorReset, lineVars
<1>14. CASE ResumeReturn
  BY <1>14, <1>0, AloneQuiet DEF ResumeReturn, listVars, lineVars, Live
<1>15. CASE QueryHalt
  BY <1>15, <1>0, AloneQuiet DEF QueryHalt, listVars, lineVars, Live
<1>16. CASE VStopped
  BY <1>16, <1>0, AloneQuiet DEF VStopped, listVars, lineVars, Live
<1>17. CASE AttachNoSuch
  BY <1>17, <1>0, AloneQuiet DEF AttachNoSuch, listVars, lineVars, Live
<1>18. CASE RerunStart
  <2>1. last_target \in Live
    BY <1>18 DEF RerunStart, Alone, LastHeld
  <2> QED
    BY <1>18, <2>1, <1>0, AloneTakeOver DEF RerunStart
<1>19. CASE RerunReturn
  <2>1. pc["gdb"] # "idle"
    BY <1>19 DEF RerunReturn, Running
  <2>2. hostTarget' = Heard(cur_target') /\ UNCHANGED <<target_list, tc, last_target, lineVars>>
    BY <1>19, Zenon DEF RerunReturn
  <2> QED
    BY <2>1, <2>2, <1>0, AloneAttached DEF Heard, lineVars
<1>20. CASE ReadNext
  BY <1>20, <1>0, AloneQuiet DEF ReadNext, listVars, gdbVars, lineVars, Live
<1>21. CASE PollLost
  BY <1>21, <1>0, AloneFree DEF PollLost, lineVars
<1>22. CASE UiAssign
  BY <1>22 DEF UiAssign, Alone, NoUiTarget
<1>23. CASE HostOpen
  BY <1>23, <1>0, AloneQuiet DEF HostOpen, listVars, gdbVars, Live
<1>24. CASE LineState
  BY <1>24, <1>0, AloneQuiet DEF LineState, listVars, gdbVars, Live
<1>25. CASE HostClose
  BY <1>25, <1>0, AloneQuiet DEF HostClose, listVars, gdbVars, Live
<1>26. CASE Unplug
  BY <1>26, <1>0, AloneQuiet DEF Unplug, listVars, gdbVars, Live
<1>27. CASE Reboot
  BY <1>27 DEF Reboot, Alone, NoUiTarget, Attaching, LastHeld, HostHeld, Tasks
<1>28. CASE UNCHANGED vars
  BY <1>28, <1>0, AloneQuiet DEF vars, listVars, gdbVars, lineVars, Live
<1> QED
  BY <1>1, <1>2, <1>3, <1>4, <1>5, <1>6, <1>7, <1>8, <1>9, <1>10, <1>11,
       <1>12, <1>13, <1>14, <1>15, <1>16, <1>17, <1>18, <1>19, <1>20, <1>21, <1>22,
       <1>23, <1>24, <1>25, <1>26, <1>27, <1>28
     DEF Next, Progress, Command, GdbNext, UiNext

\* A reboot forgets the keyboard's attach, and everything else.
LEMMA AloneReboot == Reboot => Alone'
BY DEF Reboot, Alone, NoUiTarget, Attaching, LastHeld, HostHeld, Tasks

\* The inductive invariant of the runs that remember an attach from the keyboard.
SharedInv == SessionInv /\ (~shared => Alone)

LEMMA SharedStart == SharedInit => SharedInv
<1> SUFFICES ASSUME SharedInit PROVE SharedInv
  OBVIOUS
<1>1. SessionInv
  BY SessionInit DEF SharedInit
<1>2. Alone
  BY DEF SharedInit, Init, Alone, NoUiTarget, Attaching, LastHeld, HostHeld, Tasks
<1> QED
  BY <1>1, <1>2 DEF SharedInv

LEMMA SharedStep ==
    ASSUME Overlap = FALSE, SharedInv, [SharedNext]_<<vars, shared>>
    PROVE  SharedInv'
<1>1. [Next]_vars
  BY DEF SharedNext
<1>2. SessionInv'
  BY <1>1, SessionStep DEF SharedInv
<1>3. ASSUME ~shared' PROVE Alone'
  <2>1. CASE SharedNext
    <3>1. CASE Reboot
      BY <3>1, AloneReboot
    <3>2. CASE ~Reboot
      <4>1. ~shared /\ ~AttachStart("ui")
        BY <1>3, <2>1, <3>2, Zenon DEF SharedNext
      <4> QED
        BY <1>1, <4>1, AloneStep DEF SharedInv
    <3> QED
      BY <3>1, <3>2
  <2>2. CASE UNCHANGED <<vars, shared>>
    <3>1. ~shared /\ UNCHANGED vars
      BY <1>3, <2>2
    <3>2. Live' = Live /\ UiSettles
      BY <3>1, Zenon DEF SharedInv, Alone, NoUiTarget, UiSettles, Attaching, Live, vars, listVars, taskVars
    <3> QED
      BY <3>1, <3>2, AloneQuiet DEF SharedInv, vars, listVars, gdbVars, lineVars
  <2> QED
    BY <2>1, <2>2
<1> QED
  BY <1>2, <1>3 DEF SharedInv

\* Until a target is attached from the keyboard last_target never dangles: R, vRun
\* and qXfer, which use it without a current target, work on a target of the list
\* (gdb_main.c:319-329, 448-480, 669-687).
THEOREM LastTargetSafe ==
    ASSUME Overlap = FALSE
    PROVE  SharedSpec => []LastTargetLive
<1>1. SharedInit => SharedInv
  BY SharedStart
<1>2. SharedInv /\ [SharedNext]_<<vars, shared>> => SharedInv'
  BY SharedStep, Overlap = FALSE
<1>3. SharedInv => LastTargetLive
  BY DEF SharedInv, LastTargetLive, Alone, LastHeld
<1> QED
  BY <1>1, <1>2, <1>3, PTL DEF SharedSpec

\* Until a target is attached from the keyboard a connected host is right about
\* the target it has: whatever takes cur_target away answers or notifies it
\* (gdb_main.c:91-104).
THEOREM HostIsTold ==
    ASSUME Overlap = FALSE
    PROVE  SharedSpec => []HostKnows
<1>1. SharedInit => SharedInv
  BY SharedStart
<1>2. SharedInv /\ [SharedNext]_<<vars, shared>> => SharedInv'
  BY SharedStep, Overlap = FALSE
<1>3. SharedInv => HostKnows
  BY DEF SharedInv, HostKnows, Alone, HostHeld
<1> QED
  BY <1>1, <1>2, <1>3, PTL DEF SharedSpec

=============================================================================
