----------------------------- MODULE FlashCall -----------------------------
(***************************************************************************)
(* A driver's flash routines in action: target_flash.c calls them in its    *)
(* order (enter, prepare, erase or write, done, exit; a mass erase and the  *)
(* option commands outside of flash mode), the controller works at its own  *)
(* pace and may fail or stay locked, and one access may find the debug link *)
(* dead.  A fault is latched (MemAp): until target_check_error is called,   *)
(* writes are dropped and reads return zero.                               *)
(***************************************************************************)
EXTENDS FlashDrivers, FiniteSets

CONSTANTS
    Tried,      \* the drivers of this instance
    MaxFaults,  \* bound: link faults in a behaviour
    MaxCalls    \* bound: routines called

ASSUME TriedAssumption == Tried \subseteq DOMAIN Drivers
ASSUME BoundAssumption == MaxFaults \in Nat /\ MaxCalls \in Nat

VARIABLES
    drv,      \* the target's driver
    mode,     \* target->flash_mode
    oper,     \* flash->operation: "none", "erase", "write"; "failed" after an erase that did
    op,       \* the routine that runs, or ran last
    code,     \* what is left of it
    ret,      \* "none" while it runs, then what it returned
    ctl,      \* the flash controller of each bank
    stuck,    \* the controller cannot be unlocked (protected part)
    sr,       \* the status the routine read last
    link,     \* "ok", "latched"
    want, did,  \* jobs of this call: asked for, done by the controller
    old,      \* the banks at work on a job of an earlier call
    bad,      \* what went wrong in this call
    hurt,     \* an earlier call was given up while the controller may have been busy
    clash,    \* a command was issued while the controller was busy
    faults, calls

vars == <<drv, mode, oper, op, code, ret, ctl, stuck, sr, link, want, did, old, bad, hurt, clash, faults, calls>>

Banks == {1, 2}
Flags == [locked : BOOLEAN, busy : BOOLEAN, err : BOOLEAN, eop : BOOLEAN]
Seen == [locked : BOOLEAN, busy : BOOLEAN, err : BOOLEAN, eop : BOOLEAN, ready : BOOLEAN, alive : BOOLEAN]
Blank == [locked |-> FALSE, busy |-> FALSE, err |-> FALSE, eop |-> FALSE, ready |-> FALSE, alive |-> FALSE]
Routines == {"enter", "exit", "prepare", "done", "erase", "write", "mass", "option"}
Jobs == {"start", "launch", "store", "poke", "load", "loador"}
Accesses == {"key", "keyed", "lock", "clear", "clearseen", "cleareop", "reset", "read", "if", "wait", "bus"} \union Jobs

\* A part whose driver never unlocks it has no lock.
HasLock(d) ==
    \E r \in Routines : \E p \in Drivers[d][r] : \E i \in DOMAIN p : p[i].do \in {"key", "keyed"}

AfterReset(d) == [locked |-> HasLock(d), busy |-> FALSE, err |-> FALSE, eop |-> FALSE]

\* The firmware that ran before may have left flags behind.
Init ==
    /\ drv \in Tried
    /\ mode = "out" /\ oper = "none" /\ op = "none" /\ code = <<>> /\ ret = "true"
    /\ \E e, f \in BOOLEAN : ctl = [b \in Banks |-> [AfterReset(drv) EXCEPT !.err = e, !.eop = f]]
    /\ stuck \in (IF HasLock(drv) THEN BOOLEAN ELSE {FALSE})
    /\ sr = Blank /\ link = "ok"
    /\ want = 0 /\ did = 0 /\ old = {} /\ bad = {} /\ hurt = FALSE /\ clash = FALSE
    /\ faults = 0 /\ calls = 0

-----------------------------------------------------------------------------
(* target_flash.c *)

\* The routines target_flash.c may call next; a routine's failure keeps the state it was called in.
Allowed ==
    IF mode = "out" THEN {"enter", "mass", "option"}
    ELSE CASE oper = "none"   -> {"prepare", "exit"}
           [] oper = "erase"  -> {"erase", "done"}
           [] oper = "write"  -> {"write", "done"}
           [] oper = "failed" -> {"done"}

Idle == ret # "none"

Call(r, o, p) ==
    /\ Idle /\ calls < MaxCalls
    /\ r \in Allowed /\ p \in Drivers[drv][r]
    /\ op' = r /\ code' = p /\ ret' = "none"
    /\ o \in (IF r = "prepare" THEN {"erase", "write"} ELSE {oper})
    /\ oper' = o
    /\ want' = Cardinality({i \in DOMAIN p : p[i].do \in Jobs})
    /\ did' = 0
    /\ old' = {b \in Banks : ctl[b].busy}
    /\ bad' = IF link = "ok" THEN {} ELSE {"link"}
    /\ sr' = Blank
    /\ calls' = calls + 1
    /\ UNCHANGED <<drv, mode, ctl, stuck, link, hurt, clash, faults>>

\* The routine returns v, and target_flash.c takes note.
Return(v) ==
    /\ ret' = v
    /\ code' = <<>>
    /\ mode' = CASE op = "enter" /\ v = "true" -> "in" [] op = "exit" -> "out" [] OTHER -> mode
    /\ oper' = CASE op = "prepare" /\ v = "false" -> "none"
                 [] op = "erase" /\ v = "false" -> "failed"
                 [] op \in {"done", "exit"} -> "none"
                 [] OTHER -> oper
    /\ hurt' = (hurt \/ bad' \intersect {"link", "time"} # {})
    /\ UNCHANGED <<drv, op, stuck, want, old, faults, calls>>

-----------------------------------------------------------------------------
(* One instruction *)

Now == Head(code)
Bank == Now.b
C == ctl[Bank]
Here(d) == ~Idle /\ code # <<>> /\ Now.do = d
Alive == link = "ok"

View == IF Alive THEN [locked |-> C.locked, busy |-> C.busy, err |-> C.err, eop |-> C.eop, ready |-> ~C.busy, alive |-> TRUE]
        ELSE Blank

Shows(v, c) ==
    CASE c = "err"      -> v.err
      [] c = "noerr"    -> ~v.err
      [] c = "locked"   -> v.locked
      [] c = "unlocked" -> v.alive /\ ~v.locked
      [] c = "unset"    -> ~v.alive \/ v.locked      \* a bit that unlocking sets
      [] c = "busy"     -> v.busy
      [] c = "ack"      -> v.busy \/ v.eop
      [] c = "notready" -> ~v.ready
      [] c = "dead"     -> ~v.alive                 \* a register does not read back
      [] c \in {"idle", "idle1"}   -> ~v.busy
      [] c \in {"ready", "ready1"} -> v.ready
      [] c = "eop"      -> v.eop
      [] c = "either"   -> v.eop \/ ~v.busy
      [] c = "open1"    -> v.ready /\ ~v.locked
      [] c = "shut1"    -> v.ready /\ v.locked

\* Behind the label that follows.
Behind(label) ==
    LET at == CHOOSE i \in 2 .. Len(code) : code[i].do = label /\ \A j \in 2 .. i - 1 : code[j].do # label
    IN  SubSeq(code, at + 1, Len(code))

\* Go on, or leave with what the instruction says.
Go(rest) == code' = rest /\ UNCHANGED <<drv, mode, oper, op, ret, stuck, want, hurt, faults, calls>>
GoTo(rest) == Go(rest) /\ UNCHANGED old
Leave(v) ==
    CASE v = "go" -> GoTo(Tail(code))
      [] v \in {"exit", "over"} -> GoTo(Behind(v))
      [] OTHER -> Return(v)
Advance == GoTo(Tail(code))

\* A write to the controller.
Set(d, c) ==
    /\ Here(d)
    /\ ctl' = IF Alive THEN [ctl EXCEPT ![Bank] = c] ELSE ctl
    /\ Advance
    /\ UNCHANGED <<sr, link, did, bad, clash>>

Key_ == Set("key", [C EXCEPT !.locked = stuck])
Keyed_ == Set("keyed", [C EXCEPT !.locked = @ /\ stuck])
Lock_ == Set("lock", [C EXCEPT !.locked = TRUE])
Clear_ == Set("clear", [C EXCEPT !.err = FALSE, !.eop = FALSE])
ClearSeen_ == Set("clearseen", [C EXCEPT !.err = @ /\ ~sr.err, !.eop = FALSE])
ClearEop_ == Set("cleareop", [C EXCEPT !.eop = FALSE])

Reset_ ==
    /\ Here("reset")
    /\ ctl' = IF Alive THEN [b \in Banks |-> AfterReset(drv)] ELSE ctl
    /\ did' = did + (IF Alive THEN Cardinality({b \in Banks \ old : ctl[b].busy}) ELSE 0)
    /\ old' = IF Alive THEN {} ELSE old
    /\ Go(Tail(code))
    /\ UNCHANGED <<sr, link, bad, clash>>

\* A job is asked for.  A locked controller ignores it or reports an error.
Begin(c) ==
    \/ C.locked /\ ctl' = [ctl EXCEPT ![Bank] = c] /\ bad' = bad \union {"lock"} /\ UNCHANGED clash
    \/ C.locked /\ ctl' = [ctl EXCEPT ![Bank] = [c EXCEPT !.err = TRUE, !.eop = TRUE]] /\ bad' = bad \union {"lock"} /\ UNCHANGED clash
    \/ ~C.locked /\ C.busy /\ clash' = TRUE /\ ctl' = [ctl EXCEPT ![Bank].err = TRUE] /\ UNCHANGED bad
    \/ ~C.locked /\ ~C.busy /\ ctl' = [ctl EXCEPT ![Bank] = [c EXCEPT !.busy = TRUE]] /\ UNCHANGED <<bad, clash>>

Start_ ==
    /\ Here("start") \/ Here("launch")
    /\ IF Alive THEN Begin(IF Now.do = "launch" THEN [C EXCEPT !.err = FALSE, !.eop = FALSE] ELSE C)
       ELSE UNCHANGED <<ctl, bad, clash>>
    /\ Advance
    /\ UNCHANGED <<sr, link, did>>

\* A write into the flash array: the bus holds it until the controller is idle.
Store_ ==
    /\ Here("store") \/ Here("poke")
    /\ Alive => ~C.busy
    /\ IF Alive THEN Begin(C) ELSE UNCHANGED <<ctl, bad, clash>>
    /\ link' = IF Now.do = "poke" THEN "ok" ELSE link
    /\ Advance
    /\ UNCHANGED <<sr, did>>

\* A write into a buffer: target_mem_write checks, most callers ignore the result.
Load_ ==
    /\ Here("load") \/ Here("loador")
    /\ did' = did + (IF Alive THEN 1 ELSE 0)
    /\ link' = "ok"
    /\ UNCHANGED <<ctl, sr, bad, clash>>
    /\ Leave(IF Alive THEN "go" ELSE Now.v)

Read_ ==
    /\ Here("read")
    /\ sr' = View
    /\ Advance
    /\ UNCHANGED <<ctl, link, did, bad, clash>>

If_ ==
    /\ Here("if") \/ Here("sr")
    /\ UNCHANGED <<ctl, sr, link, did, bad, clash>>
    /\ Leave(IF Shows(IF Now.do = "if" THEN View ELSE sr, Now.until) THEN Now.v ELSE "go")

Check_ ==
    /\ Here("check") \/ Here("drop")
    /\ link' = "ok"
    /\ UNCHANGED <<ctl, sr, did, bad, clash>>
    /\ Leave(IF Alive THEN "go" ELSE Now.v)

\* A choice of the caller's arguments, or between errors the model does not tell apart.
Choice_ ==
    /\ Here("maybe") \/ Here("either")
    /\ \/ Advance /\ bad' = bad
       \/ bad' = bad \union (IF Now.do = "maybe" THEN {"user"} ELSE {}) /\ Leave(Now.v)
    /\ UNCHANGED <<ctl, sr, link, did, clash>>

Jump_ ==
    /\ Here("ret") \/ Here("exit") \/ Here("over")
    /\ UNCHANGED <<ctl, sr, link, did, bad, clash>>
    /\ Leave(Now.v)

\* A wait for the port itself does not end on a dead link.
Bus_ ==
    /\ Here("bus") /\ Alive
    /\ Advance
    /\ UNCHANGED <<ctl, sr, link, did, bad, clash>>

\* One turn of a polling loop that ends it.  The loops marked 1 test the
\* status before anything else, the others after the other tests.
First(u) == u \in {"idle1", "ready1", "open1", "shut1"}
Wait_ ==
    LET w == Now
        out == Shows(View, w.until)
        dead == "link" \in w.stops /\ ~Alive
        err == "err" \in w.stops /\ View.err
    IN  /\ Here("wait")
        /\ \/ /\ out /\ (First(w.until) \/ ~(dead \/ err))
              /\ Advance /\ sr' = View /\ UNCHANGED <<link, bad>>
           \/ /\ (dead \/ err) /\ ~(out /\ First(w.until))
              /\ link' = IF dead THEN "ok" ELSE link
              /\ bad' = bad /\ sr' = View
              /\ Leave(w.v)
           \/ /\ "time" \in w.stops /\ ~out
              /\ bad' = bad \union {"time"} /\ sr' = View /\ UNCHANGED link
              /\ Leave(w.v)
        /\ UNCHANGED <<ctl, did, clash>>

\* A routine that runs off its end returns true.
End_ == ~Idle /\ code = <<>> /\ UNCHANGED <<ctl, sr, link, did, bad, clash>> /\ Return("true")

Step ==
    Key_ \/ Keyed_ \/ Lock_ \/ Clear_ \/ ClearSeen_ \/ ClearEop_ \/ Reset_ \/ Start_ \/ Store_ \/ Load_
    \/ Read_ \/ If_ \/ Check_ \/ Choice_ \/ Jump_ \/ Bus_ \/ Wait_ \/ End_

-----------------------------------------------------------------------------
(* The hardware, external *)

\* The controller ends a job, well or not.
Finish(b) ==
    /\ ctl[b].busy
    /\ \/ /\ ctl' = [ctl EXCEPT ![b].busy = FALSE, ![b].eop = TRUE]
          /\ did' = did + (IF b \in old THEN 0 ELSE 1) /\ bad' = bad
       \/ /\ ctl' = [ctl EXCEPT ![b].busy = FALSE, ![b].eop = TRUE, ![b].err = TRUE]
          /\ bad' = bad \union (IF b \in old THEN {"old"} ELSE {"err"}) /\ did' = did
    /\ old' = old \ {b}
    /\ UNCHANGED <<drv, mode, oper, op, code, ret, stuck, sr, link, want, hurt, clash, faults, calls>>

\* The access that comes next is not acknowledged.
LinkFault ==
    /\ ~Idle /\ code # <<>> /\ Now.do \in Accesses
    /\ Alive /\ faults < MaxFaults
    /\ faults' = faults + 1 /\ link' = "latched" /\ bad' = bad \union {"link"}
    /\ UNCHANGED <<drv, mode, oper, op, code, ret, ctl, stuck, sr, want, did, old, hurt, clash, calls>>

Next ==
    \/ \E r \in Routines, o \in {"none", "erase", "write", "failed"} : \E p \in Drivers[drv][r] : Call(r, o, p)
    \/ Step
    \/ \E b \in Banks : Finish(b)
    \/ LinkFault

\* The probe's task runs on and the controller ends its jobs.
Fairness == WF_vars(Step) /\ \A b \in Banks : WF_vars(Finish(b))

Spec == Init /\ [][Next]_vars /\ Fairness

-----------------------------------------------------------------------------
(* What the routines are known not to notice, found by checking the         *)
(* properties below without them.                                           *)

Of(ds, rs) == ds \X rs
Jobbing == {"erase", "write", "mass", "option"}

\* No error flag of the controller is looked at.  (nxpke04, samx5x, stm32f1, stm32g0 and
\* stm32l4: not in the option command; samd_mass_erase: not the protection error.)
ErrBlind ==
    Of({"hc32l110", "imxrt", "lpc43x0", "msp432e4", "nrf51", "nrf91", "renesas_rz", "samd"}, Jobbing)
    \union Of({"efm32", "lmi", "lpc43xx", "rp"}, {"erase", "mass"})
    \union Of({"efm32_aap", "lpc546xx", "lpc55xx", "nrf51_mdm", "nxpke04", "samx5x"}, {"mass"})
    \union Of({"nxpke04", "samx5x", "stm32f1", "stm32g0", "stm32l4"}, {"option"})
    \union {<<"kinetis", "done">>, <<"lpc55xx", "enter">>}

\* A dropped access goes unnoticed: the result of target_mem_write is not
\* looked at, or a status that reads as zero shows no error and not busy.
LinkBlind ==
    Of(Tried \ {"hc32l110", "kinetis", "nxpke04", "stm32lx_data"}, {"write"})
    \union Of({"ch32f1", "efm32", "imxrt", "lmi", "lpc17xx", "lpc40xx", "lpc43x0", "lpc43xx", "lpc546xx", "lpc55xx",
               "msp432e4", "msp432p4", "renesas_ra", "renesas_rz", "rp", "samx5x", "stm32g0"}, {"erase"})
    \union Of({"efm32", "efm32_aap", "imxrt", "lmi", "lpc17xx", "lpc40xx", "lpc43x0", "lpc43xx", "lpc55xx", "msp432e4",
               "nrf51_mdm", "nxpke04", "rp", "stm32g0", "stm32h7", "stm32lx_data"}, {"mass"})
    \union Of({"nxpke04", "samx5x", "stm32g0", "stm32l4"}, {"option"})
    \union {<<"lpc55xx", "prepare">>}

\* The lock is not read back after the unlock sequence.
LockBlind ==
    Of({"efm32", "hc32l110", "msp432p4", "nrf51", "nrf91", "samd", "samx5x", "stm32f4", "stm32g0", "stm32l4"}, Jobbing)
    \union {<<"efm32_aap", "mass">>, <<"rp", "write">>, <<"stm32f1", "write">>, <<"stm32lx_data", "mass">>}

\* cortexm_run_stub's false is compared with 0 and taken for success.
TimeBlind == Of({"efm32", "lmi"}, {"write"})

\* The end of a job that an earlier call gave up is taken for this call's.
EopBlind == Of({"at32f43x", "ch32f1", "stm32f1", "stm32h5"}, Jobbing)

\* Returns while its last job is under way.
Async == Of({"sam4l"}, {"erase", "write"}) \union {<<"samd", "option">>, <<"kinetis_mdm", "mass">>}

\* The result says the opposite, or is always true.
Wrong == {<<"stm32lx", "mass">>, <<"stm32lx", "option">>, <<"lpc546xx", "mass">>}

\* An error flag left by an earlier job is taken for this one's (for the acknowledge bit, kinetis_mdm).
StaleErr ==
    Of({"ch32f1", "stm32f4", "stm32lx_data"}, Jobbing) \union Of({"stm32g0", "stm32l4", "stm32lx"}, {"write", "mass", "option"})
    \union {<<"kinetis_mdm", "mass">>, <<"stm32h7", "mass">>}

\* Drivers that leave a routine while their own job is under way: an
\* asynchronous one, or one that gives up on an error flag older than the job.
Overlapping == {"samd", "samx5x", "stm32f4", "stm32l4"}

\* Drivers whose waits end neither on a dead link nor on a timeout.
Endless ==
    {"lpc43xx", "lpc546xx", "lpc17xx", "lpc40xx", "lpc55xx", "msp432p4", "kinetis", "nxpke04", "imxrt", "renesas_rz", "rp"}

Unnoticed ==
    \/ "user" \in bad
    \/ "err" \in bad /\ <<drv, op>> \in ErrBlind
    \/ "link" \in bad /\ <<drv, op>> \in LinkBlind
    \/ "lock" \in bad /\ <<drv, op>> \in LockBlind
    \/ "time" \in bad /\ <<drv, op>> \in TimeBlind
    \/ hurt /\ <<drv, op>> \in EopBlind

-----------------------------------------------------------------------------
\* The shape of the state.
TypeOK ==
    /\ drv \in Tried /\ mode \in {"out", "in"} /\ oper \in {"none", "erase", "write", "failed"}
    /\ op \in Routines \union {"none"} /\ ret \in {"none", "true", "false"}
    /\ ctl \in [Banks -> Flags] /\ stuck \in BOOLEAN /\ sr \in Seen /\ link \in {"ok", "latched"}
    /\ want \in Nat /\ did \in 0 .. want /\ old \subseteq Banks
    /\ bad \subseteq {"link", "err", "lock", "time", "user", "old"}
    /\ hurt \in BOOLEAN /\ clash \in BOOLEAN /\ faults \in 0 .. MaxFaults /\ calls \in 0 .. MaxCalls

\* A routine that returns true has had every job done that it is there to do,
\* whatever the controller, the lock and the link did meanwhile, but for the
\* blind spots listed above.
TrueIsDone ==
    Idle /\ ret = "true" /\ did < want => Unnoticed \/ clash \/ <<drv, op>> \in Async \union Wrong

\* No driver gives the controller a command while it is at work on one, unless
\* a call before was given up over the link or a timeout.  Not so for the four
\* Overlapping drivers (samd, samx5x, stm32f4, stm32l4), which leave a routine
\* with their own job under way.
NoClash == clash => hurt \/ drv \in Overlapping

\* A failure is over when its call is: a later call in which nothing goes
\* wrong succeeds, on a part that can be unlocked.
FailureEnds ==
    ret = "false" /\ bad = {} /\ ~stuck => hurt \/ clash \/ <<drv, op>> \in StaleErr \union Wrong

\* Every routine returns while the link lives, however the controller behaves,
\* and for most drivers also if the link dies in the middle of it.  Exceptions:
\* kinetis_mdm, whose wait ends on nothing but the right answer, and, once the
\* link is dead, the waits of the 11 Endless drivers (lpc43xx, lpc546xx, lpc17xx,
\* lpc40xx, lpc55xx, msp432p4, kinetis, nxpke04, imxrt, renesas_rz, rp).
Returns == ~Idle ~> (Idle \/ drv = "kinetis_mdm" \/ (drv \in Endless /\ "link" \in bad))
=============================================================================
