------------------------------- MODULE Remote -------------------------------
(***************************************************************************)
(* The remote protocol: Black Magic Debug App on a host (platforms/hosted)  *)
(* drives this firmware's wires through '!' packets answered with '&'.     *)
(*                                                                         *)
(* The host writes a request and reads one answer, or gives up after a     *)
(* time; nothing numbers requests or answers, so an answer given up on is  *)
(* the next one read.  One step is one call's request, one request served  *)
(* by the probe, or one answer read (with the request that follows it in   *)
(* the same call).  Sizes are in characters: a byte is two of them.        *)
(***************************************************************************)
EXTENDS Integers, Sequences, FiniteSetsExt, SequencesExt

CONSTANTS
    Versions,     \* firmware the host may meet: "v0", "v0+", "v1", "v2", "v3", "v4"
    MaxMsg,       \* REMOTE_MAX_MSG_SIZE and GDB_PACKET_BUFFER_SIZE (1024)
    WriteHead,    \* REMOTE_ADIv5_MEM_WRITE_LENGTH (34)
    Chunk,        \* JTAG clock cycles of one request (32)
    MaxAddr,      \* bound: bytes of target memory
    Transfers,    \* bound: <<address, length, alignment>> tried
    Cycles,       \* bound: numbers of JTAG cycles tried
    MaxCalls, MaxUpsets    \* bounds: calls; answers given up on and failures of the probe or target

ASSUME MessageAssumption == /\ MaxMsg \in Nat /\ WriteHead \in Nat \ {0, 1} /\ WriteHead + 16 <= MaxMsg
                         /\ Chunk \in Nat \ {0} /\ 2 * Chunk < MaxMsg /\ MaxMsg >= 30      \* no other request is longer
ASSUME VersionAssumption == Versions \subseteq {"v0", "v0+", "v1", "v2", "v3", "v4"}
ASSUME TransferAssumption == \A t \in Transfers : /\ t \in Nat \X Nat \X (0 .. 3) /\ t[1] + t[2] <= MaxAddr
                                               /\ t[1] % 2^t[3] = 0 /\ t[2] % 2^t[3] = 0
ASSUME BoundAssumption == MaxAddr \in Nat /\ Cycles \subseteq Nat /\ MaxCalls \in Nat /\ MaxUpsets \in Nat

VARIABLES
    app,     \* the application: protocol tables, dp->fault, requests sent, whether it called exit
    call,     \* the call in progress, or the one that ended last
    req,      \* requests the probe has not served
    answers,       \* answers the host has not read
    probe,    \* the firmware: version, remote_dp (functions and fault), jtag_devs, hung
    target,   \* what the wires reached: memory, TAP cycles, reset and power
    late,     \* answers the host gave up on and has not read
    before,   \* history: the target's memory when the call began
    upsets, calls

remoteVars == <<app, call, req, answers, probe, target, late, before, upsets, calls>>

Devs == {0, 1}              \* two debug ports of one JTAG chain
Addrs == 0 .. MaxAddr - 1
Original(d, a) == 1 + a + d * MaxAddr
Payload(i) == 100 + i
Junk == -1                  \* what was never received

-----------------------------------------------------------------------------
(* The host's tables: what each protocol version makes of the probe.       *)

NoFuncs == [adiv5 |-> "none", cycle |-> FALSE, add |-> FALSE, comms |-> FALSE]

remote_v0_init == [NoFuncs EXCEPT !.adiv5 = "wires"]
remote_v0_plus_init == [NoFuncs EXCEPT !.adiv5 = "v0"]
remote_v1_init == [NoFuncs EXCEPT !.adiv5 = "v1", !.add = TRUE]

remote_v2_init == [NoFuncs EXCEPT !.adiv5 = "v1", !.add = TRUE, !.cycle = TRUE, !.comms = TRUE]
remote_v3_init == [remote_v2_init EXCEPT !.adiv5 = "v3"]

(* What firmware of each version serves; the one in this tree is v3.       *)
Swd == {"SS", "Si", "SI", "So", "SO"}
Jtag == {"JS", "JR", "JT", "JD", "Jd", "JN", "Jc"}
General == {"GA", "GV", "GZ", "Gz", "GP", "Gp", "GF", "Gf", "GE"}
Adiv5 == {"dp_read", "raw", "raw_ap", "ap_read", "ap_write", "mem_read", "mem_write"}
Spi == {"sB", "sE", "sC", "sX", "sr", "sw", "sI", "sc"}
Old == (Swd \union Jtag \union General) \ {"Jc", "GF", "Gf", "GE"}
Serves(v) ==
    CASE v = "v0" -> Old
      [] v = "v0+" -> Old \union {"HC"} \union Adiv5
      [] v = "v1" -> Old \union {"HC", "HJ"} \union Adiv5
      [] v = "v2" -> Swd \union Jtag \union General \union {"HC", "HJ"} \union Adiv5
      [] OTHER -> Swd \union Jtag \union General \union {"HC", "HJ"} \union Adiv5 \union Spi
Form(v) == CASE v = "v0+" -> "v0" [] v \in {"v1", "v2"} -> "v1" [] OTHER -> "v3"
HlVersion(v) == CASE v = "v0+" -> 0 [] v = "v1" -> 1 [] v = "v2" -> 2 [] v = "v3" -> 3 [] OTHER -> 4

-----------------------------------------------------------------------------
(* Calls and the requests they send.                                       *)

NoCall == [op |-> "none", st |-> "done", res |-> "ok", dev |-> 0, addr |-> 0, len |-> 0, align |-> 0,
           size |-> 0, off |-> 0, buf |-> <<>>, own |-> TRUE, did |-> TRUE]
Call(op, size) == [NoCall EXCEPT !.op = op, !.st = "wait", !.size = size]

(* The bytes of one memory request.                                        *)
ReadBlock == (MaxMsg - 2) \div 2

WriteBlock_Whole(align) == LET b == MaxMsg \div 2 IN b - (b % 2^align)

WriteBlock(align) == LET b == (MaxMsg - WriteHead) \div 2 IN b - (b % 2^align)

(* TMS goes high with the last cycle of the last request of a shift.       *)
ShiftLetter(last) == IF last THEN "JD" ELSE "Jd"

(* What one request of a call moves: bytes, or cycles of the TAP.          *)
Amount(h, c) ==
    CASE c.op = "mem_read" -> Min({c.len - c.off, ReadBlock})
      [] c.op = "mem_write" -> Min({c.len - c.off, WriteBlock(c.align)})
      [] c.op = "shift" -> Min({c.len - c.off, Chunk})
      [] c.op = "cycle" -> IF h.funcs.cycle THEN c.len ELSE 1
      [] OTHER -> c.len

Letter(h, c) ==
    CASE c.op = "shift" -> ShiftLetter(c.off + Amount(h, c) = c.len)
      [] c.op = "cycle" -> IF h.funcs.cycle THEN "Jc" ELSE "JN"
      [] OTHER -> c.op

(* The first ADIv5 requests had no device index: the probe used device 0.   *)
remote_v0_adiv5_access(c) == [form |-> "v0", dev |-> 0]
remote_v1_adiv5_access(c) == [form |-> "v1", dev |-> c.dev]
remote_v3_adiv5_access(c) == [form |-> "v3", dev |-> c.dev]

Addressed(h, c) ==
    CASE h.funcs.adiv5 = "v1" -> remote_v1_adiv5_access(c)
      [] h.funcs.adiv5 = "v3" -> remote_v3_adiv5_access(c)
      [] OTHER -> remote_v0_adiv5_access(c)

RequestOf(h, c) ==
    LET amount == Amount(h, c) IN
    [op |-> Letter(h, c), form |-> Addressed(h, c).form, dev |-> Addressed(h, c).dev,
     addr |-> c.addr + c.off, len |-> amount, from |-> c.off, align |-> c.align, n |-> h.sent + 1,
     size |-> IF c.op = "mem_write" THEN WriteHead - 2 + 2 * amount ELSE c.size]

(* platform_buffer_write, and consume_remote_packet at the other end, which *)
(* drops a packet longer than its buffer without an answer.                *)
Ask(h, c) ==
    LET r == RequestOf(h, c) IN
    /\ app' = [h EXCEPT !.sent = @ + 1]
    /\ call' = c
    /\ req' = IF r.size <= MaxMsg THEN Append(req, r) ELSE req

Finish(c, res) == [c EXCEPT !.st = "done", !.res = res]

-----------------------------------------------------------------------------
(* The probe: remote_packet_process and what it calls.  A served request is *)
(* an answer with the probe and the target it leaves.                      *)

OK == "K"
PARERR == "P"
ERR == "E"
NOTSUP == "N"
UNRECOGNISED == 1
WRONGLEN == 2
FAULT == 3
EXCEPTION == 4

WAIT == 2
NO_RESPONSE == 7

Answer(code, err, val) == [code |-> code, err |-> err, fault |-> 0, val |-> val, did |-> TRUE]
Served(a) == [a |-> a, p |-> probe, t |-> target]
remote_respond(code, err) == Served(Answer(code, err, <<0>>))
remote_respond_buf(val) == Served(Answer(OK, 0, val))

Clocked(r, tms) == [i \in 1 .. r.len |-> <<r.from + i, tms /\ i = r.len>>]
Moved == <<<<0, TRUE>>>>      \* the TAP led to some state, no data shifted
Tap(r, tms) == [target EXCEPT !.tap = IF r.from = 0 THEN Clocked(r, tms) ELSE @ \o Clocked(r, tms)]

(* SS, SI, Si, So, SO: a parity error of the target is told as PARERR.      *)
remote_packet_process_swd(r, o) ==
    CASE r.op = "SS" /\ r.size # 2 -> remote_respond(ERR, WRONGLEN)
      [] r.op = "SS" /\ r.size = 2 -> [remote_respond(OK, 0) EXCEPT !.p.iface = "swd"]
      [] r.op = "SI" /\ o # "ok" -> remote_respond(PARERR, 0)
      [] OTHER -> remote_respond(OK, 0)

ShortJtag(r) == \/ r.op = "JT" /\ r.size < 4
                \/ r.op \in {"JD", "Jd"} /\ r.size < 5
                \/ r.op = "JN" /\ r.size # 4

(* JS, JR, JT, Jc, JD, Jd, JN.                                             *)
remote_packet_process_jtag(r) ==
    CASE ShortJtag(r) -> remote_respond(ERR, WRONGLEN)
      [] ~ShortJtag(r) /\ r.op = "JS" -> [remote_respond(OK, 0) EXCEPT !.p.iface = "jtag"]
      [] ~ShortJtag(r) /\ r.op \in {"JD", "Jd"} ->
            [remote_respond_buf([i \in 1 .. r.len |-> Payload(r.from + i)]) EXCEPT !.t = Tap(r, r.op = "JD")]
      [] ~ShortJtag(r) /\ r.op \in {"JN", "Jc"} -> [remote_respond(OK, 0) EXCEPT !.t = Tap(r, FALSE)]
      [] OTHER -> [remote_respond(OK, 0) EXCEPT !.t.tap = Moved]

(* GA, GZ, Gz, GF, Gf, GP, Gp, GE; this platform has no power switch.       *)
remote_packet_process_general(r) ==
    CASE r.op = "GZ" -> [remote_respond(OK, 0) EXCEPT !.t.nrst = r.len]
      [] r.op = "Gz" -> remote_respond_buf(<<target.nrst>>)
      [] r.op \in {"GP", "Gp"} -> remote_respond(NOTSUP, 0)
      [] OTHER -> remote_respond(OK, 0)

(* jtag_add_device starts the table anew at device 0.                      *)
AddDevice(devs, d) == (IF d = 0 THEN {} ELSE devs) \union {d}

(* HC and HJ.                                                              *)
remote_packet_process_high_level(r) ==
    CASE r.op = "HC" -> remote_respond_buf(<<HlVersion(probe.version)>>)
      [] r.op = "HJ" /\ r.size < 22 -> remote_respond(ERR, WRONGLEN)
      [] OTHER -> [remote_respond(OK, 0) EXCEPT !.p.devs = AddDevice(@, r.dev)]

(* The access of an ADIv5 request.  A latched fault lets the accesses to    *)
(* the access port pass without being made; no answer at all is recovered  *)
(* from by the next request that selects a bank or reads the debug port.   *)
Latched(r) == IF probe.fault = NO_RESPONSE /\ r.op \notin {"raw", "raw_ap"} THEN 0 ELSE probe.fault
FaultAfter(r, o) ==
    CASE o = "wait" -> WAIT
      [] o = "silent" -> NO_RESPONSE
      [] o = "parity" -> 1
      [] OTHER -> Latched(r)
Reached(r) == r.op \in {"dp_read", "raw"} \/ Latched(r) = 0

(* Bytes of the target a request reads, or writes before it is stopped.     *)
Data(r) == CASE r.op = "mem_read" -> [i \in 1 .. r.len |-> target.mem[r.dev][r.addr + i - 1]]
             [] r.op = "mem_write" -> <<0>>
             [] OTHER -> <<Original(r.dev, 0)>>
Written(r, k) ==
    IF r.op # "mem_write" \/ ~Reached(r) THEN target
    ELSE [target EXCEPT !.mem[r.dev] = [a \in Addrs |-> IF a \in r.addr .. r.addr + k - 1
                                                        THEN Payload(r.from + a - r.addr + 1) ELSE @[a]]]

(* What is answered when the access latched a fault, raised, or was made.   *)
remote_adiv5_respond(fault, val) ==
    IF fault # 0 THEN [Answer(ERR, FAULT, <<0>>) EXCEPT !.fault = fault] ELSE Answer(OK, 0, val)

Overlong(r) == r.len > MaxMsg
Misaligned(r) == r.len % 2^r.align # 0

(* Ad, AR, Aa, AA, Am, AM, within TRY_CATCH.                               *)
remote_packet_process_adiv5(r, o, k) ==
    CASE r.size < 8 -> remote_respond(PARERR, 0)
      [] r.size >= 8 /\ r.op \in {"mem_read", "mem_write"} /\ Overlong(r) -> remote_respond(PARERR, 0)
      [] r.size >= 8 /\ r.op = "mem_write" /\ ~Overlong(r) /\ Misaligned(r) -> remote_respond(PARERR, 0)
      [] OTHER ->
            [a |-> IF o \in {"raise", "parity"}
                   THEN [Answer(ERR, EXCEPTION, <<0>>) EXCEPT !.did = FALSE]
                   ELSE [remote_adiv5_respond(FaultAfter(r, o), Data(r)) EXCEPT !.did = Reached(r) /\ o = "ok"],
             p |-> [probe EXCEPT !.fault = FaultAfter(r, o)],
             t |-> Written(r, IF o = "ok" THEN r.len ELSE k)]

(* sB, sE, sC, sX, sr, sw, sI, sc; this platform has no SPI bus.            *)
remote_packet_process_spi(r) ==
    CASE r.size < 4 -> remote_respond(PARERR, 0)
      [] r.size >= 4 /\ r.op \in {"sB", "sE", "sC"} -> remote_respond(ERR, FAULT)
      [] r.size >= 4 /\ r.op \in {"sr", "sw"} /\ r.len > MaxMsg \div 4 -> remote_respond(PARERR, 0)
      [] OTHER -> remote_respond(OK, 0)

Result(r, o, k) ==
    CASE r.op \notin Serves(probe.version) \/ (r.op \in Adiv5 /\ r.form # Form(probe.version)) -> remote_respond(ERR, UNRECOGNISED)
      [] r.op \in Serves(probe.version) /\ r.op \in Swd -> remote_packet_process_swd(r, o)
      [] r.op \in Serves(probe.version) /\ r.op \in Jtag -> remote_packet_process_jtag(r)
      [] r.op \in Serves(probe.version) /\ r.op \in General -> remote_packet_process_general(r)
      [] r.op \in Serves(probe.version) /\ r.op \in {"HC", "HJ"} -> remote_packet_process_high_level(r)
      [] r.op \in Serves(probe.version) /\ r.op \in Adiv5 /\ r.form = Form(probe.version) -> remote_packet_process_adiv5(r, o, k)
      [] OTHER -> remote_packet_process_spi(r)

Upset(r, o) ==
    IF r.op \in Adiv5 THEN o \in {"wait", "silent", "parity", "raise"} /\ Reached(r) ELSE r.op = "SI" /\ o = "parity"

(* consume_remote_packet hands the packet over.  The voltage of a platform  *)
(* that measures none is a null string: the firmware stops there.          *)
Serve ==
    /\ ~probe.hung /\ req # <<>>
    /\ LET r == Head(req) IN
       IF r.op = "GV" THEN probe' = [probe EXCEPT !.hung = TRUE] /\ UNCHANGED <<req, answers, target, upsets>>
       ELSE \E o \in {"ok", "wait", "silent", "parity", "raise"}, k \in (IF r.op = "mem_write" THEN {0, r.len \div 2, r.len} ELSE {0}) :
            /\ o # "ok" => Upset(r, o) /\ late + upsets < MaxUpsets
            /\ o = "ok" => k = 0
            /\ LET s == Result(r, o, k) IN
               /\ answers' = Append(answers, [code |-> s.a.code, err |-> s.a.err, fault |-> s.a.fault, val |-> s.a.val, did |-> s.a.did, n |-> r.n])
               /\ probe' = s.p /\ target' = s.t
            /\ req' = Tail(req)
            /\ upsets' = IF o = "ok" THEN upsets ELSE upsets + 1
    /\ UNCHANGED <<app, call, late, before, calls>>

(* An operation of the firmware that never ends: many wait without limit.   *)
Hang ==
    /\ ~probe.hung /\ late + upsets < MaxUpsets
    /\ probe' = [probe EXCEPT !.hung = TRUE]
    /\ upsets' = upsets + 1
    /\ UNCHANGED <<app, call, req, answers, target, late, before, calls>>

-----------------------------------------------------------------------------
(* The host reads: what a call makes of an answer, or of none.             *)

NoAnswer == [code |-> "-4", err |-> 0, fault |-> 0, val |-> <<>>, did |-> TRUE, n |-> 0]

(* platform_buffer_read keeps no more than the caller's buffer holds.       *)
platform_buffer_read(a) == [a EXCEPT !.val = [i \in DOMAIN a.val |-> IF 2 * i + 1 <= MaxMsg THEN a.val[i] ELSE Junk]]

Lax == (Jtag \ {"JS"}) \union {"SS", "JS", "shift", "cycle"}
Exits == (Swd \ {"SS"}) \union (Jtag \ {"JS"}) \union {"shift", "cycle", "GV", "GZ", "Gz", "Gp"}

(* Whether a call takes an answer for a failure.  Those that only test for  *)
(* no characters go on after a timeout with whatever was in the buffer.    *)
Failures(c, a) ==
    CASE c.op = "HJ" -> {FALSE}
      [] c.op = "SO" -> {a.code = "-4"}
      [] c.op \in Lax /\ a.code = "-4" -> BOOLEAN
      [] OTHER -> {a.code \in {"-4", ERR}}

(* remote_adiv5_check_error of each protocol: a result, and dp->fault.      *)
v0_check_error(h, a) == [h |-> h, res |-> IF a.code = OK THEN "ok" ELSE "failed"]
v1_check_error(h, a) == [h |-> h, res |-> IF a.code = OK THEN "ok" ELSE "failed"]
v3_check_error(h, a) ==
    [h |-> IF a.code = ERR /\ a.err = FAULT THEN [h EXCEPT !.fault = a.fault] ELSE h,
     res |-> IF a.code = OK THEN "ok" ELSE IF a.code = ERR /\ a.err = EXCEPTION THEN "raised" ELSE "failed"]

remote_adiv5_check_error(h, a) ==
    CASE h.funcs.adiv5 = "v0" -> v0_check_error(h, a)
      [] h.funcs.adiv5 = "v1" -> v1_check_error(h, a)
      [] OTHER -> v3_check_error(h, a)

(* The table the answer to HC selects, or none for a protocol not known.    *)
Protocol(a) ==
    CASE a.code # OK -> remote_v0_init
      [] a.code = OK /\ a.val = <<0>> -> remote_v0_plus_init
      [] a.code = OK /\ a.val = <<1>> -> remote_v1_init
      [] a.code = OK /\ a.val = <<2>> -> remote_v2_init
      [] a.code = OK /\ a.val = <<3>> -> remote_v3_init
      [] OTHER -> NoFuncs

Over(h, c) == app' = h /\ call' = c /\ UNCHANGED req

(* remote_init: GA, then HC, then the power of the target; platform_init    *)
(* exits when it fails, and no failure of the last request is looked at.   *)
remote_init(h, c, a) ==
    CASE c.op = "GA" /\ c.off = 0 ->
            IF a.code \in {"-4", ERR} THEN Over([h EXCEPT !.dead = TRUE], Finish(c, "failed")) ELSE Ask(h, [c EXCEPT !.op = "HC"])
      [] c.op = "HC" ->
            IF a.code = "-4" \/ Protocol(a) = NoFuncs THEN Over([h EXCEPT !.dead = TRUE], Finish(c, "failed"))
            ELSE Ask([h EXCEPT !.funcs = Protocol(a)], [c EXCEPT !.op = "GP", !.off = 1])
      [] OTHER -> Over(h, Finish(c, "ok"))

MemBlock_GoesOn(h, c, a, k) ==
    LET amount == Amount(h, c)
        got == IF c.op = "mem_write" THEN <<>> ELSE [i \in 1 .. amount |-> IF i \in DOMAIN a.val THEN a.val[i] ELSE Junk]
        c1 == [c EXCEPT !.buf = @ \o got, !.off = @ + amount]
    IN  IF c1.off < c1.len THEN Ask(k.h, c1) ELSE Over(k.h, Finish(c1, k.res))

(* A block of a memory transfer, k being what the check made of its answer: *)
(* block after block, until one fails.                                     *)
MemBlock(h, c, a, k) ==
    LET amount == Amount(h, c)
        got == IF c.op = "mem_write" THEN <<>> ELSE [i \in 1 .. amount |-> IF i \in DOMAIN a.val THEN a.val[i] ELSE Junk]
        c1 == [c EXCEPT !.buf = @ \o got, !.off = @ + amount]
    IN  IF k.res # "ok" THEN Over(k.h, Finish(c, k.res))
        ELSE IF c1.off < c1.len THEN Ask(k.h, c1)
        ELSE Over(k.h, Finish(c1, "ok"))

remote_v0_adiv5_mem(h, c, a) == MemBlock(h, c, a, v0_check_error(h, a))
remote_v1_adiv5_mem(h, c, a) == MemBlock(h, c, a, v1_check_error(h, a))
remote_v3_adiv5_mem(h, c, a) == MemBlock(h, c, a, v3_check_error(h, a))

(* remote_v0_jtag_tdi_tdo_seq and remote_v0_jtag_cycle: chunk after chunk.  *)
TapChunk(h, c, a) ==
    LET amount == Amount(h, c)
        got == [i \in 1 .. amount |-> IF i \in DOMAIN a.val THEN a.val[i] ELSE Junk]
        c1 == [c EXCEPT !.buf = IF c.op = "shift" THEN @ \o got ELSE @, !.off = @ + amount]
    IN  IF c1.off < c1.len THEN Ask(h, c1) ELSE Over(h, Finish(c1, "ok"))

SwdInit(h, op) == IF op = "SS" THEN [h EXCEPT !.iface = "swd"] ELSE h
JtagInit(h, op) == IF op = "JS" THEN [h EXCEPT !.iface = "jtag"] ELSE h

(* The remaining calls: one request, one answer.                           *)
Single(h, c, a, failed) ==
    CASE failed /\ c.op \in Exits -> Over([h EXCEPT !.dead = TRUE], Finish(c, "failed"))
      [] failed /\ c.op \notin Exits -> Over(h, Finish(c, "failed"))
      [] OTHER -> Over(SwdInit(JtagInit(h, c.op), c.op), Finish([c EXCEPT !.buf = a.val], "ok"))

Take(a0) ==
    LET a == platform_buffer_read(a0)
        h == app
        c == [call EXCEPT !.own = @ /\ a.n = app.sent, !.did = @ /\ a.did]
    IN  CASE call.op \in {"GA", "HC"} \/ (call.op = "GP" /\ call.off = 1) -> remote_init(h, c, a)
          [] call.op \in {"mem_read", "mem_write"} /\ h.funcs.adiv5 = "v0" -> remote_v0_adiv5_mem(h, c, a)
          [] call.op \in {"mem_read", "mem_write"} /\ h.funcs.adiv5 = "v1" -> remote_v1_adiv5_mem(h, c, a)
          [] call.op \in {"mem_read", "mem_write"} /\ h.funcs.adiv5 = "v3" -> remote_v3_adiv5_mem(h, c, a)
          [] call.op \in Adiv5 \ {"mem_read", "mem_write"} ->
                LET k == remote_adiv5_check_error(h, a) IN Over(k.h, Finish([c EXCEPT !.buf = a.val], k.res))
          [] call.op \in {"shift", "cycle"} -> \E f \in Failures(c, a) : IF f THEN Single(h, c, a, TRUE) ELSE TapChunk(h, c, a)
          [] OTHER -> \E f \in Failures(c, a) : Single(h, c, a, f)

Waiting == call.st = "wait"

Read ==
    /\ Waiting /\ answers # <<>>
    /\ Take(Head(answers))
    /\ answers' = Tail(answers)
    /\ UNCHANGED <<probe, target, late, before, upsets, calls>>

GiveUp_Never ==
    /\ Waiting /\ answers = <<>> /\ ~probe.hung
    /\ late + upsets < MaxUpsets
    /\ Take(NoAnswer)
    /\ late' = late + 1
    /\ UNCHANGED <<answers, probe, target, before, upsets, calls>>

(* bmda_read_more_data gives up before the answer begins: it will be read   *)
(* in place of the next one.                                               *)
GiveUp ==
    /\ Waiting /\ answers = <<>>
    /\ probe.hung \/ late + upsets < MaxUpsets
    /\ Take(NoAnswer)
    /\ late' = late + 1
    /\ UNCHANGED <<answers, probe, target, before, upsets, calls>>

(* ... or in the middle of it: the next read skips the rest.                *)
GiveUpWithin ==
    /\ Waiting /\ answers # <<>> /\ late + upsets < MaxUpsets
    /\ Take(NoAnswer)
    /\ answers' = Tail(answers)
    /\ upsets' = upsets + 1
    /\ UNCHANGED <<probe, target, late, before, calls>>

(* The calls the application makes, by what its tables offer; those that    *)
(* touch no target wire are made before an interface is chosen (a bound).   *)
MemCall(op, t, d) == [Call(op, 30) EXCEPT !.addr = t[1], !.len = t[2], !.align = t[3], !.dev = d]
TapCall(op, n) == [Call(op, 6) EXCEPT !.len = n]
DevsOf(h) == IF h.iface = "jtag" THEN Devs ELSE {0}
SwdCalls == {Call("Si", 4), Call("SI", 4), Call("So", 5), Call("SO", 5)}
JtagCalls == {Call("JR", 2), Call("JT", 6), Call("JN", 4)} \union {TapCall(op, n) : op \in {"shift", "cycle"}, n \in Cycles}
PlainCalls == {Call(op, 2) : op \in {"SS", "JS", "GV", "Gz", "GP", "Gp"}} \union {[Call("GZ", 3) EXCEPT !.len = n] : n \in {0, 1}}
CommsCalls == {Call("GF", 10), Call("Gf", 2), Call("GE", 3)}
Adiv5Calls(h) ==
    {[Call(op, 10) EXCEPT !.dev = d] : op \in Adiv5 \ {"mem_read", "mem_write"}, d \in DevsOf(h)}
    \union {MemCall(op, t, d) : op \in {"mem_read", "mem_write"}, t \in Transfers, d \in DevsOf(h)}

(* Requests of other programs: short, overlong, misaligned, unknown, SPI.   *)
Foreign ==
    {Call("SS", 3), Call("JT", 3), [TapCall("JD", 1) EXCEPT !.size = 4], Call("JN", 3), Call("HJ", 21), Call("ap_read", 7), Call("G?", 2),
     [Call("mem_read", 30) EXCEPT !.len = MaxMsg + 1], [Call("mem_write", 38) EXCEPT !.len = 3, !.align = 1]}
    \union {Call(op, 6) : op \in Spi \ {"sr", "sw"}} \union {[Call(op, 20) EXCEPT !.len = n] : op \in {"sr", "sw"}, n \in {1, MaxMsg}}
    \union {Call("sB", 3)}

Callable(h) ==
    IF h.funcs = NoFuncs THEN {Call("GA", 2)}
    ELSE (IF h.iface = "none" THEN PlainCalls ELSE {})
         \union (IF h.iface = "swd" THEN SwdCalls ELSE IF h.iface = "jtag" THEN JtagCalls ELSE {})
         \union (IF h.iface = "jtag" /\ h.funcs.add THEN {[Call("HJ", 22) EXCEPT !.dev = d] : d \in Devs} ELSE {})
         \union (IF h.funcs.comms THEN CommsCalls ELSE {})
         \union (IF h.iface # "none" /\ h.funcs.adiv5 # "wires" THEN Adiv5Calls(h) ELSE {})

Begin ==
    /\ ~Waiting /\ ~app.dead /\ calls < MaxCalls
    /\ calls' = calls + 1
    /\ \E c \in Callable(app) :
          IF c.op \in {"mem_read", "mem_write", "shift", "cycle"} /\ c.len = 0
          THEN Over(app, Finish(c, "ok"))
          ELSE Ask(app, c)
    /\ before' = target.mem
    /\ UNCHANGED <<answers, probe, target, late, upsets>>

(* Another program on the same port, before this one begins.                *)
Other ==
    /\ ~Waiting /\ calls < MaxCalls /\ req = <<>> /\ answers = <<>> /\ ~probe.hung /\ probe.version = "v3" /\ app.iface = "none"
    /\ \E c \in Foreign :
          LET r == [op |-> c.op, form |-> "v3", dev |-> 0, addr |-> 0, len |-> c.len, from |-> 0, align |-> c.align, size |-> c.size, n |-> 0]
              s == Result(r, "ok", 0)
          IN  probe' = s.p /\ target' = s.t /\ call' = Finish(c, s.a.code)
    /\ calls' = calls + 1 /\ before' = target.mem
    /\ UNCHANGED <<app, req, answers, late, upsets>>

(* The application's dp->error: adiv5_swd_clear_error over the wires.       *)
Clear ==
    /\ ~Waiting /\ app.fault # 0
    /\ app' = [app EXCEPT !.fault = 0] /\ call' = NoCall /\ before' = target.mem
    /\ UNCHANGED <<req, answers, probe, target, late, upsets, calls>>

RemoteInit ==
    /\ app = [funcs |-> NoFuncs, fault |-> 0, iface |-> "none", sent |-> 0, dead |-> FALSE]
    /\ call = NoCall /\ req = <<>> /\ answers = <<>>
    /\ \E v \in Versions : probe = [version |-> v, iface |-> "none", fault |-> 0, devs |-> {}, hung |-> FALSE]
    /\ target = [mem |-> [d \in Devs |-> [a \in Addrs |-> Original(d, a)]], tap |-> <<>>, nrst |-> 0]
    /\ before = target.mem
    /\ late = 0 /\ upsets = 0 /\ calls = 0

RemoteNext == Begin \/ Serve \/ Hang \/ Read \/ GiveUp \/ GiveUpWithin \/ Other \/ Clear

(* The two programs run; a wait for an answer ends (select has a timeout).  *)
RemoteFairness == WF_remoteVars(Serve \/ Read \/ GiveUp)

-----------------------------------------------------------------------------
(* Properties.                                                             *)

RemoteTypeOK ==
    /\ app.fault \in {0, 1, WAIT, NO_RESPONSE} /\ app.iface \in {"none", "swd", "jtag"} /\ app.dead \in BOOLEAN
    /\ app.funcs.adiv5 \in {"none", "wires", "v0", "v1", "v3"}
    /\ call.st \in {"wait", "done"} /\ call.off <= call.len + 1
    /\ probe.fault \in {0, 1, WAIT, NO_RESPONSE} /\ probe.devs \subseteq Devs
    /\ \A d \in Devs, a \in Addrs : target.mem[d][a] \in {Original(d, a)} \union (101 .. 100 + MaxAddr)
    /\ late \in Nat /\ upsets <= MaxUpsets /\ calls <= MaxCalls

(* Every request gets one answer, in order: what is outstanding is the      *)
(* request waited for and the ones given up on, so that without a timeout   *)
(* an answer is the answer to its request (remote_packet_process and every  *)
(* handler under it; platform_buffer_read).                                 *)
AnswersPaired ==
    LET ns == [i \in DOMAIN answers |-> answers[i].n] \o [i \in DOMAIN req |-> req[i].n] IN
    /\ Len(ns) = late + (IF Waiting THEN 1 ELSE 0)
    /\ \A i \in DOMAIN ns : ns[i] = app.sent - Len(ns) + i

Ended(op) == call.st = "done" /\ call.op = op /\ call.own

(* A memory transfer that succeeded moved exactly the bytes asked for,      *)
(* whatever blocks it was cut into; a protocol with a device index reaches  *)
(* the device meant (remote_v*_adiv5_mem_read_bytes, ..write_bytes).        *)
MovedExactly ==
    LET range == call.addr .. call.addr + call.len - 1
        mem == target.mem[call.dev]
    IN  (app.funcs.adiv5 # "v0" \/ call.dev = 0) =>
        /\ (Ended("mem_read") /\ call.res = "ok") => call.buf = [i \in 1 .. call.len |-> mem[call.addr + i - 1]]
        /\ (Ended("mem_write") /\ call.res = "ok") => \A a \in range : mem[a] = Payload(a - call.addr + 1)

(* A write, in progress or ended in any way, has moved every block before   *)
(* the one it is at, and until an answer is given up on no call has changed *)
(* a byte but a write the bytes from its address to the end of that block:  *)
(* the first failing block leaves the rest and everything outside alone     *)
(* (the loop of remote_v*_adiv5_mem_write_bytes).                           *)
WriteConfined ==
    LET dev == Addressed(app, call).dev
        end == call.addr + call.off + Amount(app, call)      \* of the block it is at; none is left after success
    IN  /\ call.op = "mem_write" /\ call.own => \A i \in 1 .. call.off : target.mem[dev][call.addr + i - 1] = Payload(i)
        /\ late = 0 => \A d \in Devs, a \in Addrs :
              target.mem[d][a] # before[d][a] => call.op = "mem_write" /\ d = dev /\ call.addr <= a /\ a < end

(* Blocks of a write keep the alignment of the access: the probe uses it    *)
(* for the size of its bus accesses and checks the length only.             *)
BlocksAligned == \A i \in DOMAIN req : req[i].op = "mem_write" => req[i].addr % 2^req[i].align = 0 /\ req[i].len % 2^req[i].align = 0

(* A shift reaches the TAP bit for bit, with TMS high at its last bit only, *)
(* and its TDO bits come back in order (remote_v0_jtag_tdi_tdo_seq).        *)
ShiftExact ==
    (Ended("shift") /\ call.res = "ok" /\ call.len > 0) =>
        /\ target.tap = [i \in 1 .. call.len |-> <<i, i = call.len>>]
        /\ call.buf = [i \in 1 .. call.len |-> Payload(i)]

(* With the current protocol the host knows of every access that was not    *)
(* made: it has a fault or an exception, never a value taken for a result   *)
(* (remote_adiv5_respond, remote_adiv5_check_error).                        *)
FailureTold ==
    (call.st = "done" /\ call.own /\ call.op \in Adiv5 /\ ~call.did) =>
        /\ call.res # "ok"
        /\ (call.res = "failed" /\ app.funcs.adiv5 = "v3") => app.fault # 0

(* What a call reports is what happened on the target: memory and shifts    *)
(* moved exactly, a failed write confined, blocks aligned, failures told.   *)
CallTrue == RemoteTypeOK /\ MovedExactly /\ WriteConfined /\ BlocksAligned /\ ShiftExact /\ FailureTold
=============================================================================
