----------------------------- MODULE ProbeChain -----------------------------
(***************************************************************************)
(* A part is recognised by offering it to the drivers of its designer and   *)
(* core, one probe after another, until one claims it (cortexm_probe and    *)
(* its like).  A probe that gives up hands the same target_s, and the same  *)
(* part, to the next.  The claimed target is then attached, used through    *)
(* its monitor commands, detached, and attached again without a detach in   *)
(* between.  One upset may happen on the way: an access that finds the link *)
(* dead (the fault stays latched until target_check_error) or a calloc      *)
(* that fails.                                                              *)
(***************************************************************************)
EXTENDS DriverProbes, FiniteSets

CONSTANTS
    MaxUpsets,   \* bound: link faults and failed allocations
    MaxSessions  \* bound: attaches of the claimed target

VARIABLES
    part,      \* whose part is connected
    known,     \* that driver has this member in its tables
    chain,     \* the drivers still to be asked
    who,       \* the driver whose code runs, or ran last
    phase,     \* "scan", "idle", "attach", "attached", "detach", "cmd"; "dead" after a NULL dereference
    code,      \* what is left of the routine
    tgt,       \* what was put into target_s: [k : slot, by : driver]
    store,     \* target_storage
    core,      \* "halted", "running"
    cfg,       \* the part's configuration: "own", "set"
    saved,     \* the driver's copy of it
    before,    \* tgt, store and cfg when this routine began
    link,      \* "ok", "latched"
    trouble,   \* what went wrong: <<what, driver>>
    upsets, sessions

vars == <<part, known, chain, who, phase, code, tgt, store, core, cfg, saved, before, link, trouble, upsets, sessions>>

-----------------------------------------------------------------------------
(* Who is asked, in which order *)

\* cortexm_probe, by designer and part number.
\* Mutant: the STM32F1 is asked before the CH32F1.
cortexm_chains_Clone == {<<"lmi", "stm32f1", "ch32f1", "lpc15xx", "mm32f3xx">>}
cortexm_chains == {
    <<"imxrt", "kinetis">>, <<"gd32f1", "gd32f4">>,
    <<"stm32f1", "stm32f4", "stm32h5", "stm32h7", "stm32mp15_cm4", "stm32l0", "stm32l4", "stm32g0">>,
    <<"nrf51", "nrf91">>, <<"samx7x", "sam4l", "samd", "samx5x">>, <<"efm32">>, <<"msp432p4">>, <<"lpc11xx">>,
    <<"rp">>, <<"renesas_ra">>, <<"lpc55xx">>, <<"mm32f3xx">>, <<"lpc11xx", "hc32l110">>,
    <<"lmi", "ch32f1", "stm32f1", "lpc15xx", "mm32f3xx">>, <<"lpc11xx", "lpc43xx", "mm32l0xx">>,
    <<"sam3x", "lmi", "lpc546xx", "lpc43xx", "at32f40x", "at32f43x", "lpc40xx", "kinetis", "msp432e4">>,
    <<"gd32f1">>, <<"sam3x", "ke04", "lpc17xx", "lpc11xx">>}

cortexar_chains == {<<"stm32mp15_ca7">>, <<"zynq7">>, <<"renesas_rz">>}
riscv32_chains == {<<"gd32vf1">>}
\* Probes of an access port make a target of their own.
ap_chains == {<<"kinetis_mdm">>, <<"nrf51_mdm">>, <<"efm32_aap">>, <<"lpc55_dmap">>, <<"rp_rescue">>}

Chains == cortexm_chains \union cortexar_chains \union riscv32_chains \union ap_chains
Asked(c) == {c[i] : i \in DOMAIN c}

\* A CH32F1 answers the STM32F1's identification; an STM32F1 may answer the CH32F1's first test.
Alike(p, w) == p = "stm32f1" /\ w = "ch32f1"
Answers(w) == part = w \/ (part = "ch32f1" /\ w = "stm32f1")

\* cortexm.c: the first accesses of one driver lock up the part of the other,
\* and a part does not survive the other's call into ROM.
Lethal(w, do, p) ==
    \/ w = "lpc43xx" /\ p = "lpc546xx" /\ do = "is"
    \/ w = "lpc40xx" /\ p = "at32f43x" /\ do = "call"

Maps == {"ram", "flash"}
Slots == ({"name", "opt", "cmds", "attach", "detach", "reset", "enter", "exit", "mass", "resume", "mem_write"} \X {1})
         \union (Maps \X (1 .. 7))

Init ==
    /\ chain \in Chains
    /\ part \in Asked(chain) \union {"other"}
    /\ known \in IF part = "other" THEN {FALSE} ELSE BOOLEAN
    /\ who = "none" /\ phase = "scan" /\ code = <<>>
    /\ tgt = {} /\ store = FALSE /\ core = "halted"
    /\ cfg = "own" /\ saved = "none" /\ before = [tgt |-> {}, store |-> FALSE, cfg |-> "own"]
    /\ link = "ok" /\ trouble = {} /\ upsets = 0 /\ sessions = 0

Here == [tgt |-> tgt, store |-> store, cfg |-> cfg]
Running == code # <<>>
Owner(slot) == {x.by : x \in {y \in tgt : y.k[1] = slot}}

-----------------------------------------------------------------------------
(* Calls *)

Begin(w, ph, prog) ==
    /\ who' = w /\ phase' = ph /\ code' = prog /\ before' = Here
    /\ UNCHANGED <<part, known, tgt, store, core, cfg, saved, link, trouble, upsets>>

\* PROBE: the next driver.
Ask1 ==
    /\ phase = "scan" /\ ~Running /\ chain # <<>>
    /\ Begin(Head(chain), "scan", Probe[Head(chain)])
    /\ chain' = Tail(chain)
    /\ UNCHANGED sessions

\* Nobody claimed it: an unknown Cortex-M is a target all the same.
Unclaimed ==
    /\ phase = "scan" /\ ~Running /\ chain = <<>>
    /\ phase' = "idle" /\ who' = "core"
    /\ UNCHANGED <<part, known, chain, code, tgt, store, core, cfg, saved, before, link, trouble, upsets, sessions>>

AttachCode == UNION {IF w \in DOMAIN Attach THEN Attach[w] ELSE {} : w \in Owner("attach")}
DetachCode == {IF w \in DOMAIN Detach THEN Detach[w] ELSE <<CoreDetach>> : w \in Owner("detach")}
CommandCode == UNION {IF w \in DOMAIN Commands THEN Commands[w] ELSE {} : w \in Owner("cmds")}
ResetCode == {Reset[w] : w \in Owner("reset")}
Culprit(slot) == IF Owner(slot) = {} THEN "core" ELSE CHOOSE w \in Owner(slot) : TRUE

\* target_attach calls the callback that is set, cortexm_attach when none was.
target_attach ==
    /\ phase \in {"idle", "attached"} /\ ~Running /\ sessions < MaxSessions
    /\ sessions' = sessions + 1
    /\ \E p \in IF AttachCode = {} THEN {<<CoreAttach("false")>> \o True} ELSE AttachCode : Begin(Culprit("attach"), "attach", p)
    /\ UNCHANGED chain

target_detach ==
    /\ phase = "attached" /\ ~Running
    /\ \E p \in IF DetachCode = {} THEN {<<CoreDetach>>} ELSE DetachCode : Begin(Culprit("detach"), "detach", p)
    /\ UNCHANGED <<chain, sessions>>

target_command ==
    /\ phase = "attached" /\ ~Running
    /\ \E p \in CommandCode : Begin(Culprit("cmds"), "cmd", p)
    /\ UNCHANGED <<chain, sessions>>

target_reset ==
    /\ phase = "attached" /\ ~Running
    /\ \E p \in ResetCode : Begin(Culprit("reset"), "cmd", p)
    /\ UNCHANGED <<chain, sessions>>

\* What the caller does with the result; a probe that says no is followed by target_check_error.
Over(v) ==
    /\ code' = <<>>
    /\ phase' = CASE phase = "scan"   -> IF v = "true" THEN "idle" ELSE "scan"
                  [] phase = "attach" -> IF v = "true" THEN "attached" ELSE "idle"
                  [] phase = "detach" -> "idle"
                  [] phase = "cmd"    -> "attached"
    /\ link' = IF phase = "scan" /\ v = "false" THEN "ok" ELSE link

-----------------------------------------------------------------------------
(* One instruction *)

Now == Head(code)
At(d) == Running /\ phase # "dead" /\ Now.do \in d
Alive == link = "ok"
Rest == Tail(code)
After(n) == SubSeq(code, n + 2, Len(code))
Behind ==
    LET at == CHOOSE i \in 2 .. Len(code) : code[i].do = "exit" /\ \A j \in 2 .. i - 1 : code[j].do # "exit"
    IN  SubSeq(code, at + 1, Len(code))

\* Falling off the end is the end of a routine without a result.
Goto(rest) == IF rest = <<>> THEN Over("true") ELSE code' = rest /\ UNCHANGED <<phase, link>>
Leave(v) == CASE v = "go" -> Goto(Rest) [] v = "exit" -> Goto(Behind) [] OTHER -> Over(v)

Fixed == UNCHANGED <<part, known, chain, who, before, sessions>>
Part == <<core, cfg, saved>>
Target == <<tgt, store>>
Faultless == UNCHANGED <<trouble, upsets>>
Note(what) == trouble' = trouble \union {<<what, who>>}

\* A test that may fail, and the driver it is for.
Passes ==
    CASE Now.do = "id"    -> {part = who}
      [] Now.do = "cpu"   -> IF part = who THEN {TRUE} ELSE BOOLEAN
      [] Now.do = "is"    -> {Alive /\ Answers(who)}
      [] Now.do = "like"  -> IF Alive /\ Alike(part, who) THEN BOOLEAN ELSE {Alive /\ part = who /\ known}
      [] Now.do = "ask"   -> IF part = who /\ Alive THEN {TRUE} ELSE BOOLEAN
      [] Now.do = "known" -> {Alive /\ Answers(who) /\ (part = who => known)}
      [] Now.do = "arg"   -> BOOLEAN

Test ==
    /\ At({"id", "cpu", "is", "like", "ask", "known", "arg"})
    /\ \E yes \in Passes : IF yes THEN Goto(Rest) ELSE Leave(Now.v)
    /\ IF Lethal(who, Now.do, part) /\ Alive THEN Note("lethal") ELSE UNCHANGED trouble
    /\ Fixed /\ UNCHANGED <<Part, Target, upsets>>

CheckError ==
    /\ At({"check"})
    /\ IF Alive \/ Now.v = "go" THEN code' = Rest /\ UNCHANGED phase
       ELSE /\ phase' = IF phase = "scan" THEN "scan" ELSE IF phase = "attach" THEN "idle" ELSE "attached"
            /\ code' = <<>>
    /\ link' = "ok"
    /\ Fixed /\ Faultless /\ UNCHANGED <<Part, Target>>

Return == At({"ret"}) /\ Leave(Now.v) /\ Fixed /\ Faultless /\ UNCHANGED <<Part, Target>>

Choose ==
    /\ At({"skip", "jump", "ifstore", "exit"})
    /\ \E n \in CASE Now.do = "skip" -> {0, Now.k} [] Now.do = "jump" -> {Now.k}
                  [] Now.do = "ifstore" -> {IF store THEN Now.k ELSE 0} [] Now.do = "exit" -> {0} :
           Goto(After(n))
    /\ Fixed /\ Faultless /\ UNCHANGED <<Part, Target>>

\* Writes to a dead link are dropped.
Access ==
    /\ At({"look", "save", "touch", "write", "mend", "smash", "halt", "run", "coredetach"})
    /\ Goto(Rest)
    /\ saved' = IF Now.do = "save" /\ Alive THEN cfg ELSE saved
    /\ cfg' = CASE ~Alive -> cfg [] Now.do = "touch" -> "set"
                [] Now.do = "mend" /\ saved # "none" -> saved [] OTHER -> cfg
    /\ core' = CASE ~Alive -> core [] Now.do = "halt" -> "halted"
                 [] Now.do \in {"run", "coredetach"} -> "running" [] OTHER -> core
    /\ IF Now.do = "smash" /\ Alive /\ part # who THEN Note("smashed") ELSE UNCHANGED trouble
    /\ Fixed /\ UNCHANGED <<Target, upsets>>

\* A loop that nothing but success ends does not end on a dead link.
Wait ==
    /\ At({"poll", "call"})
    /\ IF Alive THEN Goto(Rest) /\ UNCHANGED trouble
       ELSE IF Now.v = "hang" THEN Note(IF phase = "scan" THEN "hung scan" ELSE "hung") /\ phase' = "dead" /\ code' = <<>> /\ UNCHANGED link
       ELSE Leave(Now.v) /\ UNCHANGED trouble
    /\ Fixed /\ UNCHANGED <<Part, Target, upsets>>

\* A ROM call on a part that has no such ROM ends in the caller's timeout.
CallLost ==
    /\ At({"call"}) /\ Alive /\ part # who
    /\ Leave(Now.v)
    /\ IF Lethal(who, "call", part) THEN Note("lethal") ELSE UNCHANGED trouble
    /\ Fixed /\ UNCHANGED <<Part, Target, upsets>>

AttachCore ==
    /\ At({"coreattach"})
    /\ IF Alive THEN Goto(Rest) /\ core' = "halted" ELSE Leave(Now.v) /\ UNCHANGED core
    /\ Fixed /\ Faultless /\ UNCHANGED <<cfg, saved, Target>>

\* target_s: a slot holds what was put last; the map grows.
Describe ==
    /\ At({"put", "cut", "cmds", "freemap", "cutflash", "cutram"})
    /\ Goto(Rest)
    /\ LET others == {x \in tgt : x.k # Now.k}
       IN  tgt' = CASE Now.do \in {"put", "cmds"} -> others \union {[k |-> Now.k, by |-> who]}
                    [] Now.do = "cut" -> others
                    [] Now.do = "freemap" -> {x \in tgt : x.k[1] \notin Maps}
                    [] OTHER -> {x \in tgt : x.k[1] # Now.k}
    /\ Fixed /\ Faultless /\ UNCHANGED <<Part, store>>

AddRegion ==
    /\ At({"region", "regionnull"})
    /\ Goto(Rest)
    /\ IF \E x \in tgt : x.k = Now.k THEN Note("twice") ELSE UNCHANGED trouble
    /\ tgt' = tgt \union {[k |-> Now.k, by |-> who]}
    /\ Fixed /\ UNCHANGED <<Part, store, upsets>>

Die(what) == Note(what) /\ phase' = "dead" /\ code' = <<>> /\ UNCHANGED link

\* calloc; what is not the driver's block is freed by its routine.
Storage ==
    /\ At({"new", "keep", "drop", "release"})
    /\ Goto(Rest)
    /\ store' = CASE Now.do = "keep" -> TRUE [] Now.do = "drop" -> FALSE [] OTHER -> store
    /\ IF Now.do = "keep" /\ store THEN Note("leak") ELSE UNCHANGED trouble
    /\ Fixed /\ UNCHANGED <<Part, tgt, upsets>>

Use ==
    /\ At({"deref", "useflash"})
    /\ IF (Now.do = "deref" /\ store) \/ (Now.do = "useflash" /\ \E x \in tgt : x.k = <<"flash", 1>>)
       THEN Goto(Rest) /\ UNCHANGED trouble
       ELSE Die("null")
    /\ Fixed /\ UNCHANGED <<Part, Target, upsets>>

-----------------------------------------------------------------------------
(* Upsets *)

LinkFault ==
    /\ At({"is", "like", "known", "look", "save", "touch", "mend", "write", "poll", "call", "coreattach"})
    /\ Alive /\ upsets < MaxUpsets
    /\ upsets' = upsets + 1 /\ link' = "latched"
    /\ Fixed /\ UNCHANGED <<phase, code, Part, Target, trouble>>

HeapFault ==
    /\ At({"new", "region", "regionnull", "cmds"})
    /\ upsets < MaxUpsets
    /\ upsets' = upsets + 1
    /\ CASE Now.do = "new" /\ Now.v # "null" -> Leave(Now.v) /\ UNCHANGED trouble
         [] Now.v = "null" \/ Now.do = "regionnull" -> Die("null")
         [] OTHER -> Goto(Rest) /\ UNCHANGED trouble
    /\ Fixed /\ UNCHANGED <<Part, Target>>

Next ==
    \/ Ask1 \/ Unclaimed \/ target_attach \/ target_detach \/ target_command \/ target_reset
    \/ Test \/ CheckError \/ Return \/ Choose \/ Access \/ Wait \/ CallLost \/ AttachCore
    \/ Describe \/ AddRegion \/ Storage \/ Use
    \/ LinkFault \/ HeapFault

Spec == Init /\ [][Next]_vars

-----------------------------------------------------------------------------
(* Properties *)

TypeOK ==
    /\ part \in DOMAIN Probe \union {"other"} /\ known \in BOOLEAN
    /\ who \in DOMAIN Probe \union {"none", "core"}
    /\ phase \in {"scan", "idle", "attach", "attached", "detach", "cmd", "dead"}
    /\ tgt \subseteq [k : Slots, by : DOMAIN Probe]
    /\ store \in BOOLEAN /\ core \in {"halted", "running"}
    /\ cfg \in {"own", "set"} /\ saved \in {"none", "own", "set"} /\ link \in {"ok", "latched"}
    /\ upsets \in 0 .. MaxUpsets /\ sessions \in 0 .. MaxSessions

Calm == upsets = 0
Guilty(what) == {t[2] : t \in {u \in trouble : u[1] = what}}
Rejected == phase = "scan" /\ ~Running /\ who # "none"

\* Drivers that write to the part or to target_s before they know the part.
Untidy == {"lpc11xx", "lpc17xx", "lpc40xx", "lpc43xx", "lpc55xx", "imxrt", "kinetis", "renesas_ra", "ch32f1"}

(* A probe that says no has left the part's configuration and target_s as it
   found them, for the next driver: all but the drivers in Untidy. *)
RejectedIsClean == Rejected /\ Calm /\ who \notin Untidy => before = Here

(* A part whose member is in its driver's tables is claimed by that driver,
   whatever stands before it in the chain, when nothing goes wrong. *)
RightDriver == phase = "idle" /\ sessions = 0 /\ Calm /\ known => who = part /\ Owner("name") \subseteq {part}

(* No probe that is asked before the part's own driver has locked the part up. *)
NoHarm == Calm /\ known => Guilty("lethal") = {}

(* No region is put into the memory map twice; the exception is the LPC43x0
   that is attached again without a detach. *)
MapOnce == Guilty("twice") \subseteq {"lpc43xx"}

(* A detach gives the part back with the configuration the attach found, for
   the drivers that save it in the attach and put it back in the detach. *)
DetachRestores ==
    phase = "idle" /\ sessions = 1 /\ Calm /\ part \in {"stm32f4", "stm32g0", "stm32mp15_cm4"} => cfg = "own"

(* A driver that drops its block when it gives up does not lose one: only
   stm32f4_attach overwrites the block of the attach before. *)
StorageKept == Calm => Guilty("leak") \subseteq {"stm32f4"}

(* A scan ends: no probe waits for a part that no longer answers, but the
   LPC55xx, which has code run on it to set its flash up. *)
ProbesReturn == Guilty("hung scan") \subseteq {"lpc55xx"}

(* A failed allocation is noticed: the drivers that use the NULL are the ones
   listed.  The STM32G0, H7 and MP15 set their callbacks before they allocate,
   so that the target they gave up is attached with them all the same. *)
NullNoticed ==
    Guilty("null") \subseteq
        {"stm32l4", "samd", "samx5x", "efm32_aap", "rp", "ke04", "msp432p4", "stm32g0", "stm32h7", "stm32mp15_cm4",
         "lpc11xx", "lpc15xx", "lpc17xx", "lpc40xx", "lpc43xx", "lpc546xx"}
=============================================================================
