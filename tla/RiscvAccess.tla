----------------------------- MODULE RiscvAccess -----------------------------
(***************************************************************************)
(* RISC-V harts behind a JTAG transport module: the DMI transfers with      *)
(* their retries (riscv_jtag_dtm.c), the debug modules and their harts,     *)
(* abstract commands, triggers (riscv_debug.c) and memory by abstract       *)
(* commands or the system bus (riscv32.c, riscv64.c).                       *)
(*                                                                         *)
(* A handler runs to its end without another task of the probe on the line, *)
(* so that one action is one handler.  What may go wrong in the middle is   *)
(* its upset: at the n-th transfer or allocation, of some kind.             *)
(*                                                                         *)
(* The machine m is one record that the operators pass on:                  *)
(*   c, dev       the chain and the position of the transport module on it   *)
(*   line         "live", or stuck at "zeros" or "ones"                     *)
(*   idle         dmi->idle_cycles                                          *)
(*   dmi, dms     reference counts and lifetimes                            *)
(*   list         the harts listed as targets                               *)
(*   fw           per hart, what the driver keeps                           *)
(*   sel, hw      the hart each debug module has selected; the harts        *)
(*   ab, sb, mem  abstract command and system bus registers, memory          *)
(*   ok, val      result of the last call, value of the last read            *)
(*   n, upset     transfers until the upset, and its kind                   *)
(***************************************************************************)
EXTENDS JtagChain

CONSTANTS
    Boards,      \* bound: [chain, widths]: the chain on the connector, with at most one "rv", and the
                 \* access widths (1, 2, 4) of the system bus, {} for none
    HartsOf,     \* harts of each debug module
    Xlen,        \* hart -> 32 or 64
    DataRegs,    \* abstract data registers of the modules: 1, 2 or 4
    T,           \* triggers of a hart, RV_TRIGGERS_MAX at most
    MaxMarks,    \* bound: registers changed, triggers set and handlers upset at one time
    Modes,       \* bound: what triggers are set to, "break" and "watch"
    Values,      \* bound: values written to a register and addresses of breakpoints, not 0
    MaxAddr,     \* bound: bytes of memory
    Lens,        \* bound: lengths of transfers
    Bad,         \* addresses that answer with a bus error
    MaxIdle,     \* idle cycles after which a transport that is too slow has failed (8)
    Upsets,      \* bound: kinds of upset
    Ats,         \* bound: after how many transfers of a handler an upset falls
    MaxUpsets    \* bound: handlers that are upset, before registers and triggers are changed

ASSUME HartAssumption == /\ \A d \in DOMAIN HartsOf : HartsOf[d] \in Nat \ {0}
                         /\ DataRegs \in {1, 2, 4} /\ T \in Nat \ {0} /\ MaxIdle \in Nat \ {0}
ASSUME UpsetAssumption == Upsets \subseteq {"soon", "late", "fail", "zeros", "ones", "starve"} /\ Ats \subseteq Nat
ASSUME ChainAssumption == \A b \in Boards : Cardinality({i \in DOMAIN b.chain : b.chain[i] = "rv"}) <= 1

VARIABLES m, last
rvVars == <<m, last>>

Dms == DOMAIN HartsOf
Harts == UNION {{<<d, i>> : i \in 0 .. HartsOf[d] - 1} : d \in Dms}
NoHart == <<0, 0>>
Off == [mode |-> "unused", addr |-> 0]
Fw0 == [status |-> "ok", width |-> 0, bus |-> {}, sys |-> FALSE, triggers |-> 0, ready |-> FALSE,
        uses |-> [t \in 1 .. T |-> "unused"]]
Hw0 == [halted |-> FALSE, step |-> FALSE, gpr |-> 0, tsel |-> 0, trig |-> [t \in 1 .. T |-> Off]]
Sb0 == [acc |-> 1, onaddr |-> FALSE, ondata |-> FALSE, inc |-> FALSE, addr |-> 0, data |-> <<>>, err |-> "ok"]
Ab0 == [err |-> "ok", data |-> <<>>, addr |-> 0, csr |-> 0]
Gone == [st |-> "none", ref |-> 0]
Original == [a \in 0 .. MaxAddr - 1 |-> a]
RvIdle == [op |-> "none", h |-> NoHart, clean |-> TRUE, addr |-> 0, len |-> 0, buf |-> <<>>, before |-> <<>>,
         held |-> {}, fresh |-> TRUE, told |-> TRUE]

Fresh(chain, widths) ==
    [c |-> [chain |-> chain, irs |-> [i \in DOMAIN chain |-> "reset"], devs |-> NoDevs, count |-> 0, ok |-> FALSE, seen |-> 0],
     dev |-> 0, line |-> "live", idle |-> 0, dmi |-> Gone, dms |-> [d \in Dms |-> Gone], list |-> <<>>, attached |-> {},
     cur |-> NoHart, fw |-> [h \in Harts |-> Fw0], sel |-> [d \in Dms |-> 0], hw |-> [h \in Harts |-> Hw0],
     ab |-> Ab0, sb |-> Sb0, widths |-> widths, mem |-> Original, touched |-> {},
     ok |-> TRUE, val |-> <<>>, n |-> 0, upset |-> "none", clean |-> TRUE, upsets |-> 0]

RvInit == \E b \in Boards : m = Fresh(b.chain, b.widths) /\ last = RvIdle

NoUpset == [at |-> 0, kind |-> "none"]
\* A handler begins: what may upset it.
Begin(x, upset) == [x EXCEPT !.ok = TRUE, !.n = upset.at, !.upset = upset.kind, !.clean = TRUE, !.touched = {},
                            !.upsets = @ + (IF upset = NoUpset THEN 0 ELSE 1)]
\* Registers that are not 0 and triggers that are armed.
Marks(x) == Cardinality({h \in Harts : x.hw[h].gpr # 0}) + Cardinality({ht \in Harts \X (1 .. T) : x.hw[ht[1]].trig[ht[2]] # Off})
Plan == {NoUpset} \union {p \in [at : Ats, kind : Upsets] : m.upsets < MaxUpsets /\ Marks(m) = 0}
Anyway(x) == [x EXCEPT !.ok = TRUE]      \* a result that the caller does not look at
\* A handler ends.  Data and address registers are set before every use, so that what stays in them is dropped.
Rest(x) == [x EXCEPT !.n = 0, !.upset = "none", !.val = <<>>, !.ok = TRUE, !.clean = TRUE,
                     !.ab = [Ab0 EXCEPT !.err = x.ab.err], !.sb = [Sb0 EXCEPT !.err = x.sb.err]]
Hit(x) == x.n = 0 /\ x.upset # "none"
Tick(x) == [x EXCEPT !.n = @ - 1]

-----------------------------------------------------------------------------
(* The debug module, external *)

At(x, d) == <<d, x.sel[d]>>
Bytes(x, a, w) == [i \in 1 .. w |-> IF a + i - 1 \in DOMAIN x.mem THEN x.mem[a + i - 1] ELSE 0]
Touch(a, w) == {a + i : i \in 0 .. w - 1}
Poked(x, a, data) == [b \in DOMAIN x.mem |-> IF b - a + 1 \in DOMAIN data THEN data[b - a + 1] ELSE x.mem[b]]

\* The system bus reads, or writes, where its address stands; an error stops it until it is cleared.
BusErr(x, a, w) == IF w \notin x.widths THEN "size" ELSE IF a % w # 0 THEN "align" ELSE IF Touch(a, w) \cap Bad # {} THEN "bus" ELSE "ok"
BusMove(x, wr, data) ==
    LET s == x.sb
        err == BusErr(x, s.addr, s.acc)
    IN  IF s.err # "ok" THEN x
        ELSE IF err # "ok" THEN [x EXCEPT !.sb.err = err]
        ELSE [x EXCEPT !.sb.data = IF wr THEN @ ELSE Bytes(x, s.addr, s.acc),
                       !.mem = IF wr THEN Poked(x, s.addr, [i \in 1 .. s.acc |-> data[i]]) ELSE @,
                       !.touched = @ \union Touch(s.addr, s.acc),
                       !.sb.addr = IF s.inc THEN @ + s.acc ELSE @]

\* An abstract command on the selected hart, which has to be halted.
AbstractCommand(x, d, c) ==
    LET h == At(x, d)
    IN  IF x.ab.err # "ok" THEN x
        ELSE IF h \notin Harts \/ ~x.hw[h].halted THEN [x EXCEPT !.ab.err = "state"]
        ELSE IF c.kind = "mem" THEN
             IF Touch(x.ab.addr, c.width) \cap Bad # {} THEN [x EXCEPT !.ab.err = "exception"]
             ELSE [x EXCEPT !.ab.data = IF c.wr THEN @ ELSE Bytes(x, x.ab.addr, c.width),
                            !.mem = IF c.wr THEN Poked(x, x.ab.addr, [i \in 1 .. c.width |-> x.ab.data[i]]) ELSE @,
                            !.touched = @ \union Touch(x.ab.addr, c.width),
                            !.ab.addr = IF c.inc THEN @ + c.width ELSE @]
        ELSE IF c.width > Xlen[h] THEN [x EXCEPT !.ab.err = "unsupported"]
        ELSE CASE c.reg = "misa" -> [x EXCEPT !.ab.csr = Xlen[h]]
               [] c.reg = "gpr" /\ c.wr -> [x EXCEPT !.hw[h].gpr = x.ab.csr]
               [] c.reg = "gpr" -> [x EXCEPT !.ab.csr = x.hw[h].gpr]
               [] c.reg = "dcsr" /\ c.wr -> [x EXCEPT !.hw[h].step = x.ab.csr = 1]
               [] c.reg = "dcsr" -> [x EXCEPT !.ab.csr = IF x.hw[h].step THEN 1 ELSE 0]
               [] c.reg = "tselect" /\ c.wr -> [x EXCEPT !.hw[h].tsel = IF x.ab.csr >= T THEN T - 1 ELSE x.ab.csr]
               [] c.reg = "tselect" -> [x EXCEPT !.ab.csr = x.hw[h].tsel]
               [] c.reg = "tdata1" /\ c.wr -> [x EXCEPT !.hw[h].trig[x.hw[h].tsel + 1].mode = x.ab.csr]
               [] c.reg = "tdata2" /\ c.wr -> [x EXCEPT !.hw[h].trig[x.hw[h].tsel + 1].addr = x.ab.csr]
               [] OTHER -> [x EXCEPT !.ab.csr = 0]

\* What an access sets or reads in the module.
Latched(x, d, op, v) ==
    CASE op = "control" ->
            LET h == <<d, v.sel>> IN
            IF h \notin Harts THEN [x EXCEPT !.sel[d] = HartsOf[d]]
            ELSE [x EXCEPT !.sel[d] = v.sel, !.hw[h].halted = IF v.req = "halt" THEN TRUE ELSE IF v.req = "resume" THEN FALSE ELSE @]
      [] op = "command" -> AbstractCommand(x, d, v)
      [] op = "data0" -> [x EXCEPT !.ab.csr = v]
      [] op = "data0mem" -> [x EXCEPT !.ab.data = v]
      [] op = "data1" -> [x EXCEPT !.ab.addr = v]
      [] op = "abstractcs" -> [x EXCEPT !.ab.err = "ok"]
      [] op = "sbcs" -> [x EXCEPT !.sb = [v EXCEPT !.addr = x.sb.addr, !.data = x.sb.data,
                                          !.err = IF v.err = "clear" THEN "ok" ELSE x.sb.err]]
      [] op = "sbaddress" -> [x EXCEPT !.sb.addr = v]
      [] op = "rd_sbdata" -> [x EXCEPT !.val = x.sb.data]
      [] op = "rd_data0mem" -> [x EXCEPT !.val = x.ab.data]
      [] op = "rd_data0" -> [x EXCEPT !.val = x.ab.csr]
      [] op = "rd_abstractcs" -> [x EXCEPT !.val = x.ab.err]
      [] op = "rd_sbcs" -> [x EXCEPT !.val = x.sb.err]
      [] op = "rd_status" -> [x EXCEPT !.val = IF At(x, d) \in Harts THEN "there" ELSE "nonexistent"]
      [] OTHER -> x
\* The accesses that make the system bus move.
StartsBus(x, op) == op = "sbdata" \/ (op = "sbaddress" /\ x.sb.onaddr) \/ (op = "rd_sbdata" /\ x.sb.ondata)
\* One access that reaches the module.
BusMoved(y, x, op, v) == IF StartsBus(x, op) THEN BusMove(y, op = "sbdata", v) ELSE y
Exec(x, d, op, v) == BusMoved(Latched(x, d, op, v), x, op, v)

\* What a read leaves when the line only delivers zeros.
Zero(op) ==
    CASE op \in {"rd_sbdata", "rd_data0mem"} -> <<0, 0, 0, 0>>
      [] op = "rd_data0" -> 0
      [] op = "rd_status" -> "zero"
      [] OTHER -> "ok"
IsRead(op) == op \in {"rd_sbdata", "rd_data0mem", "rd_data0", "rd_abstractcs", "rd_sbcs", "rd_status", "rd_next"}

-----------------------------------------------------------------------------
(* DMI transfers *)

IR_DMI == "dmi"
WriteIr(x, ir) == [x EXCEPT !.c = jtag_dev_write_ir(x.c, x.dev, ir)]
\* The interface is reset through DTMCS and the instruction set back to DMI.
riscv_dmi_reset(x) == WriteIr(WriteIr(x, "dtmcs"), IR_DMI)

\* A device that holds another instruction answers from a one bit register: a read's opcode comes
\* back as a failure, a write's as success.
Unanswered(x, op) ==
    CASE x.line = "ones" -> [x EXCEPT !.ok = FALSE, !.idle = MaxIdle, !.clean = FALSE]
      [] x.line = "zeros" -> [x EXCEPT !.val = IF IsRead(op) THEN Zero(op) ELSE @, !.clean = FALSE]
      [] OTHER -> [x EXCEPT !.ok = ~IsRead(op), !.clean = FALSE]

\* Too soon: one more idle cycle and the whole access again, or a failure.
Again(x) == x.idle < MaxIdle
Slower(x) == [x EXCEPT !.idle = IF Again(x) THEN @ + 1 ELSE @, !.ok = Again(x), !.clean = @ /\ x.upset = "soon" /\ Again(x)]

\* riscv_jtag_dmi_read and riscv_jtag_dmi_write: the access, and a no-op that fetches its status.
\* Being told "too soon" by the first shift means the access was dropped; by the second, that it is
\* still being done, and it is repeated all the same.
Times(x) ==
    CASE ~Hit(x) \/ x.upset = "starve" -> 1
      [] x.upset = "soon" -> IF Again(x) THEN 1 ELSE 0
      [] x.upset = "late" -> IF Again(x) THEN 2 ELSE 1
      [] OTHER -> 0
\* What the upset leaves: the interface is reset, the access tried again or given up.
riscv_dmi_transfer(x) ==
    CASE x.upset \in {"soon", "late"} -> riscv_dmi_reset(Slower(x))
      [] x.upset = "fail" -> riscv_dmi_reset([x EXCEPT !.ok = FALSE, !.clean = FALSE])
      [] OTHER -> x
Cuts(x) == Hit(x) /\ x.upset \in {"zeros", "ones"}
Repeated(x, n, d, op, v) ==
    IF n = 0 THEN x ELSE Exec(IF n = 2 THEN Exec(x, d, op, v) ELSE x, d, op, v)
Dmi(x, d, op, v) ==
    IF ~x.ok THEN x
    ELSE IF x.line # "live" \/ ~jtag_dev_shift_dr(x.c, x.dev, IR_DMI) THEN Unanswered(Tick(x), op)
    ELSE IF Cuts(x) THEN Unanswered([Tick(x) EXCEPT !.line = x.upset], op)
    ELSE IF Hit(x) THEN riscv_dmi_transfer(Repeated(Tick(x), Times(x), d, op, v))
    ELSE Exec(Tick(x), d, op, v)

\* riscv_jtag_prepare, riscv_jtag_quiesce
riscv_jtag_quiesce(x) == WriteIr(x, IR_BYPASS)
riscv_jtag_prepare(x) == WriteIr(x, IR_DMI)

-----------------------------------------------------------------------------
(* Abstract commands.  What a function does on the line is a sequence of steps, each taken when the *)
(* one before it succeeded: accesses, and what the probe makes of the value it read.               *)

riscv_dm_write(op, v) == <<[op |-> op, v |-> v]>>
riscv_dm_read(op) == riscv_dm_write(op, 0)
Local(what) == riscv_dm_write(what, 0)

Do(x, h, s) ==
    CASE s.op = "note" -> [x EXCEPT !.fw[h].status = IF x.ok THEN x.val ELSE @]
      [] s.op = "judge" -> [x EXCEPT !.ok = @ /\ x.fw[h].status = "ok"]
      [] s.op = "reached" -> [x EXCEPT !.ok = @ /\ x.val = "there"]
      [] s.op = "anyway" -> Anyway(x)
      [] OTHER -> Dmi(x, h[1], s.op, s.v)
RECURSIVE Run(_, _, _)
Run(x, h, steps) == IF steps = <<>> THEN x ELSE Run(Do(x, h, Head(steps)), h, Tail(steps))

\* The status that was read is kept in the hart, and the error cleared.
riscv_command_wait_complete ==
    riscv_dm_read("rd_abstractcs") \o Local("note") \o riscv_dm_write("abstractcs", 0) \o Local("judge")

Reg(reg, width, wr) == [kind |-> "reg", reg |-> reg, width |-> width, wr |-> wr]
riscv_csr_read(reg, width) ==
    riscv_dm_write("command", Reg(reg, width, FALSE)) \o riscv_command_wait_complete \o riscv_dm_read("rd_data0")
riscv_csr_write(reg, width, v) ==
    riscv_dm_write("data0", v) \o riscv_dm_write("command", Reg(reg, width, TRUE)) \o riscv_command_wait_complete

Control(h, req) == riscv_dm_write("control", [sel |-> h[2], req |-> req])
\* riscv_dm_poll_state: the state is reached, or a silent line times out.
riscv_dm_poll_state == riscv_dm_read("rd_status") \o Local("reached")
riscv_halt_request(h) == Control(h, "halt") \o riscv_dm_poll_state \o Control(h, "none") \o Local("anyway")
riscv_halt_resume(h, step) ==
    riscv_csr_read("dcsr", 32) \o riscv_csr_write("dcsr", 32, IF step THEN 1 ELSE 0)
    \o Control(h, "resume") \o riscv_dm_poll_state \o Control(h, "none") \o Local("anyway")

-----------------------------------------------------------------------------
(* Discovery *)

Starved(x) == Hit(x) /\ x.upset = "starve"
Denied(x) == [Tick(x) EXCEPT !.clean = FALSE]

\* Down from what the data registers can carry to the first width the hart accepts.
NextWidth(w) == IF w = 128 THEN 64 ELSE IF w = 64 THEN 32 ELSE 0

Tried(y, h) ==
    IF y.ok THEN [y EXCEPT !.val = <<y.val>>]
    ELSE IF y.fw[h].status \in {"bus", "exception", "unsupported"}
         THEN [y EXCEPT !.fw[h].width = NextWidth(@), !.val = <<>>]
    ELSE [y EXCEPT !.val = <<"quit">>, !.ok = TRUE]
RECURSIVE TryWidths(_, _)
TryWidths(x, h) ==
    IF x.fw[h].width = 0 \/ (x.ok /\ x.val # <<>>) THEN x
    ELSE TryWidths(Tried(Run(Anyway(x), h, riscv_csr_read("misa", x.fw[h].width)), h), h)
Widest(x, h) == [x EXCEPT !.fw[h].width = CASE DataRegs = 4 -> 128 [] DataRegs = 2 -> 64 [] OTHER -> 32, !.val = <<>>]
WidthFound(x, h) == IF ~x.ok \/ x.line = "zeros" THEN x ELSE TryWidths(Widest(x, h), h)
riscv_hart_discover_isa(x, h) == Anyway(WidthFound(Run(x, h, riscv_dm_read("rd_abstractcs")), h))

HasBus(x) == x.ok /\ x.line = "live" /\ x.widths # {}
BusFound(x, h) ==
    IF HasBus(x) THEN Run([x EXCEPT !.fw[h].sys = TRUE, !.fw[h].bus = x.widths], h, riscv_dm_write("sbcs", [Sb0 EXCEPT !.err = "clear"]))
    ELSE [x EXCEPT !.fw[h].sys = FALSE, !.fw[h].bus = {}]
riscv_hart_memory_access_type(x, h) == Anyway(BusFound(Run(x, h, riscv_dm_read("rd_sbcs")), h))

riscv_hart_read_ids(x, h) ==
    Run(x, h, riscv_csr_read("ids", 32) \o Local("anyway") \o riscv_csr_read("ids", x.fw[h].width) \o Local("anyway"))

\* Select the highest, see what is left, then look at each (one without tinfo tells in tdata1).
LookAt(t, width) ==
    riscv_csr_write("tselect", 32, t) \o Local("anyway") \o riscv_csr_read("tinfo", 32) \o Local("anyway")
    \o riscv_csr_read("tdata1", width) \o Local("anyway")
Counted(x, h, count) ==
    Run([Anyway(x) EXCEPT !.fw[h].triggers = count], h, FlattenSeq([t \in 1 .. count |-> LookAt(t - 1, x.fw[h].width)]))
TriggersFound(x, h) == Counted(x, h, IF x.ok THEN (IF x.val + 1 > T THEN T ELSE x.val + 1) ELSE 0)
riscv_hart_discover_triggers(x, h) ==
    TriggersFound(Run(x, h, riscv_csr_write("tselect", 32, 99) \o riscv_csr_read("tselect", 32)), h)

riscv_dm_ref(x, d) ==
    [x EXCEPT !.dms[d].ref = @ + 1, !.dmi.ref = IF x.dms[d].ref = 0 THEN @ + 1 ELSE @]

Released(r) == [ref |-> r.ref - 1, st |-> IF r.ref = 1 THEN "freed" ELSE r.st]
riscv_dm_unref(x, d) ==
    [x EXCEPT !.dms[d] = Released(@), !.dmi = IF x.dms[d].ref = 1 THEN Released(@) ELSE @]

\* All methods, or for a 64 bit hart registers and memory reads only.
riscv32_probe(x, h) == [x EXCEPT !.fw[h].ready = x.fw[h].width = 32]
riscv64_probe(fw) == fw.width \in {32, 64}

\* An unusable width leaves a target without methods; 128 bit harts stay halted.
Probed(x, h) ==
    IF x.fw[h].width = 128 THEN x
    ELSE Run(riscv32_probe(riscv_hart_discover_triggers(x, h), h), h, riscv_halt_resume(h, FALSE))
Named(x, h) == riscv_dm_ref([Tick(x) EXCEPT !.list = Append(@, h), !.fw[h] = Fw0], h[1])
riscv_hart_init(x, h) ==
    IF Starved(x) THEN Denied(x)
    ELSE Probed(riscv_hart_read_ids(riscv_hart_memory_access_type(
                    riscv_hart_discover_isa(Run(Named(x, h), h, riscv_halt_request(h)), h), h), h), h)

\* The harts of a module, up to the first that is not there.
HartPicked(x, h) ==
    IF ~x.ok \/ x.val = "nonexistent" \/ h \notin Harts THEN [x EXCEPT !.ok = FALSE]
    ELSE IF Starved(x) THEN [Denied(x) EXCEPT !.ok = FALSE]
    ELSE riscv_hart_init(Tick(x), h)
RECURSIVE HartsFrom(_, _)
HartsFrom(x, h) ==
    IF ~x.ok THEN x
    ELSE HartsFrom(HartPicked(Run(x, h, Control(h, "none") \o riscv_dm_read("rd_status")), h), <<h[1], h[2] + 1>>)
riscv_dm_init(x, d) ==
    LET first == <<d, 0>>
    IN  Anyway(HartsFrom(Run(x, first, Control(first, "none") \o Control(first, "none") \o riscv_dm_read("rd_sbcs")), first))

\* The status of a module that is not there reads as zero.
riscv_dm_version(x) == IF x.val = "zero" THEN "none" ELSE "0.13"

\* One module after the other, to the end of their list; a module no hart counts on is freed again.
DmKept(x, d) == IF x.dms[d].ref = 0 THEN [x EXCEPT !.dms[d] = Gone] ELSE x
DmSeen(x, d) ==
    IF ~x.ok \/ riscv_dm_version(x) = "none" THEN [x EXCEPT !.ok = FALSE]
    ELSE IF Starved(x) THEN [Denied(x) EXCEPT !.ok = FALSE]
    ELSE Run(DmKept(riscv_dm_init([Tick(x) EXCEPT !.dms[d] = [st |-> "live", ref |-> 0]], d), d), <<d, 0>>, riscv_dm_read("rd_next"))
RECURSIVE DmsFrom(_, _)
DmsFrom(x, d) ==
    IF ~x.ok \/ d \notin Dms THEN x ELSE DmsFrom(DmSeen(Run(x, <<d, 0>>, riscv_dm_read("rd_status")), d), d + 1)
riscv_dmi_init(x) == Anyway(DmsFrom(x, 1))

\* riscv_jtag_dtm_init: version and idle cycles come from DTMCS; a silent module has version 0.11.
riscv_dtmcs_version(answered) == IF answered THEN "0.13" ELSE "0.11"
DtmStarted(x) ==
    IF riscv_dtmcs_version(x.line = "live" /\ jtag_dev_shift_dr(x.c, x.dev, "dtmcs")) = "0.13"
    THEN riscv_dmi_init(WriteIr(x, IR_DMI)) ELSE WriteIr(x, IR_DMI)
riscv_jtag_dtm_init(x) == DtmStarted(WriteIr([x EXCEPT !.idle = 0], "dtmcs"))

DmiKept(x) == IF x.dmi.ref = 0 THEN [x EXCEPT !.dmi = Gone] ELSE x
riscv_jtag_dtm_handler(x, i) ==
    IF Starved(x) THEN Denied(x)
    ELSE WriteIr(DmiKept(riscv_jtag_dtm_init([Tick(x) EXCEPT !.dev = i, !.dmi = [st |-> "live", ref |-> 0]])), IR_BYPASS)

-----------------------------------------------------------------------------
(* Sessions *)

\* Mutant: the session begins although the hart could not be selected.
HaltPicked_Unchecked(x, h) == [Run(x, h, riscv_halt_request(h)) EXCEPT !.attached = @ \union {h}, !.cur = h]

HaltPicked(x, h) == IF x.ok THEN [Run(x, h, riscv_halt_request(h)) EXCEPT !.attached = @ \union {h}, !.cur = h] ELSE x

riscv_attach(x, h) == HaltPicked(Run(riscv_jtag_prepare(x), h, Control(h, "none")), h)

riscv_detach(x, h) == riscv_jtag_quiesce(Run(x, h, riscv_halt_resume(h, FALSE)))

\* target_list_free
riscv_hart_free(x, h) ==
    riscv_dm_unref([(IF h \in x.attached THEN riscv_detach(x, h) ELSE x) EXCEPT !.attached = @ \ {h}], h[1])
FreeAll(x) == [FoldLeft(riscv_hart_free, x, x.list) EXCEPT !.list = <<>>, !.cur = NoHart]

AllLive == <<"live", "live", "live">>
\* jtag_scan: every device goes to the handler of its identification code.
ChainFound(x, chain, lines) ==
    [x EXCEPT !.c = ScanChain(chain, x.c.irs, lines), !.line = lines[3], !.clean = @ /\ lines = AllLive,
              !.upsets = IF lines = AllLive THEN @ ELSE @ + 1]
HandlerOf(c, i) == IF ~c.ok \/ c.devs[i].id \notin DOMAIN Kinds THEN "none" ELSE Kinds[c.devs[i].id].handler
Handle(x, i) ==
    CASE HandlerOf(x.c, i) = "dtm" -> riscv_jtag_dtm_handler(x, i)
      [] HandlerOf(x.c, i) = "dp" -> [x EXCEPT !.c = jtag_dev_write_ir(x.c, i, "dpacc")]
      [] OTHER -> x
RECURSIVE HandleFrom(_, _)
HandleFrom(x, i) == IF i >= x.c.count THEN x ELSE HandleFrom(Handle(x, i), i + 1)
jtag_scan(x, lines) == HandleFrom(ChainFound(FreeAll(x), x.c.chain, lines), 0)

Done(op, x, h, before) == [RvIdle EXCEPT !.op = op, !.h = h, !.clean = x.clean, !.before = before]
LineSets == {AllLive} \union
            {[i \in 1 .. 3 |-> IF i >= k THEN l ELSE "live"] : k \in 1 .. 3, l \in Lines}

Scan ==
    \E lines \in LineSets, p \in Plan :
        /\ last = RvIdle
        /\ lines = AllLive \/ (p = NoUpset /\ m.upsets < MaxUpsets)
        /\ \E x \in {jtag_scan(Begin(m, p), lines)} :
              m' = Rest(x) /\ last' = Done("scan", x, NoHart, <<>>)

Attach ==
    \E h \in Harts, p \in Plan :
        /\ last = RvIdle /\ h \in ToSet(m.list)
        /\ \E x \in {riscv_attach(Begin(m, p), h)} :
              m' = Rest(x) /\ last' = Done("attach", x, h, <<>>)

\* The session's own hart, that was attached last.
Detach ==
    \E p \in Plan :
        /\ last = RvIdle /\ m.cur # NoHart
        /\ \E x \in {riscv_detach(Begin(m, p), m.cur)} :
              /\ m' = Rest([x EXCEPT !.attached = @ \ {m.cur}, !.cur = NoHart])
               /\ last' = Done("detach", x, m.cur, <<>>)

\* A debug port on the same chain is used by its own targets.
DpAccess ==
    \E i \in 0 .. m.c.count - 1 :
        /\ last = RvIdle /\ m.c.ok /\ m.cur = NoHart /\ Kinds[m.c.chain[i + 1]].handler = "dp"
        /\ m' = [m EXCEPT !.c = jtag_dev_write_ir(m.c, i, "apacc")]
        /\ UNCHANGED last

-----------------------------------------------------------------------------
(* Registers and triggers *)

Gprs(x) == [h \in Harts |-> x.hw[h].gpr]
Trigs(x) == [h \in Harts |-> x.hw[h].trig]

\* riscv32_reg_write, riscv32_regs_write, riscv64_regs_write
WriteReg ==
    \E v \in Values, p \in Plan :
        /\ last = RvIdle /\ m.cur # NoHart /\ riscv64_probe(m.fw[m.cur]) /\ Marks(m) + m.upsets < MaxMarks
        /\ \E x \in {Run(Begin(m, p), m.cur, riscv_csr_write("gpr", m.fw[m.cur].width, v))} :
              /\ m' = Rest(x)
               /\ last' = [Done("write", x, m.cur, Gprs(m)) EXCEPT !.buf = <<v>>, !.told = x.ok]

\* riscv32_reg_read, riscv32_regs_read, riscv64_regs_read
ReadReg ==
    \E p \in Plan :
        /\ last = RvIdle /\ m.cur # NoHart /\ riscv64_probe(m.fw[m.cur])
        /\ \E x \in {Run(Begin(m, p), m.cur, riscv_csr_read("gpr", m.fw[m.cur].width))} :
              /\ m' = Rest(x)
               /\ last' = [Done("read", x, m.cur, Gprs(m)) EXCEPT !.buf = IF x.ok THEN <<x.val>> ELSE <<>>, !.told = x.ok]

Used(x, h, t, mode) == [x EXCEPT !.fw[h].uses[t] = IF x.ok THEN mode ELSE @]
riscv_config_trigger(x, h, t, mode, addr) ==
    Used(Run(x, h, riscv_csr_write("tselect", 32, t - 1) \o riscv_csr_write("tdata1", x.fw[h].width, mode)
                   \o riscv_csr_write("tdata2", x.fw[h].width, addr)), h, t, mode)

FreeTriggers(x, h) == {t \in 1 .. x.fw[h].triggers : x.fw[h].uses[t] = "unused"}
\* riscv32_breakwatch_set
SetTrigger ==
    \E mode \in Modes, addr \in Values, p \in Plan :
        /\ last = RvIdle /\ m.cur # NoHart /\ m.fw[m.cur].ready /\ FreeTriggers(m, m.cur) # {} /\ Marks(m) + m.upsets < MaxMarks
        /\ \E x \in {riscv_config_trigger(Begin(m, p), m.cur, Min(FreeTriggers(m, m.cur)), mode, addr)} :
              /\ m' = Rest(x)
               /\ last' = [Done("set", x, m.cur, Trigs(m)) EXCEPT !.buf = <<mode, addr>>, !.told = x.ok,
                                                                  !.held = 1 .. T \ FreeTriggers(m, m.cur)]

\* riscv32_breakwatch_clear
ClearTrigger ==
    \E t \in 1 .. T, p \in Plan :
        /\ last = RvIdle /\ m.cur # NoHart /\ m.fw[m.cur].ready /\ m.fw[m.cur].uses[t] # "unused"
        /\ \E x \in {riscv_config_trigger(Begin(m, p), m.cur, t, "unused", 0)} :
              /\ m' = Rest(x)
               /\ last' = [Done("clear", x, m.cur, Trigs(m)) EXCEPT !.addr = t, !.told = x.ok]

=============================================================================
