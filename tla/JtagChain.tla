------------------------------ MODULE JtagChain ------------------------------
(***************************************************************************)
(* The JTAG scan chain (jtag_scan.c): reading the identification codes,     *)
(* cutting the captured instruction registers into devices, checking the    *)
(* count in BYPASS, and addressing one device afterwards with the pre- and  *)
(* post-scan lengths that were worked out.                                  *)
(*                                                                         *)
(* A state of the chain is a record:                                        *)
(*   chain   the devices, nearest TDO first (hardware)                      *)
(*   irs     what instruction each device holds (hardware)                  *)
(*   devs    jtag_devs[0 .. JTAG_MAX_DEVS]; the last entry is what lies      *)
(*           behind the array                                               *)
(*   count   jtag_dev_count                                                 *)
(***************************************************************************)
EXTENDS Integers, Sequences, FiniteSets, SequencesExt

CONSTANTS
    JTAG_MAX_DEVS, JTAG_MAX_IR_LEN,
    Kinds      \* device kind -> [cap : captured IR, bit 0 first, quirk : BOOLEAN, handler]

ASSUME LimitAssumption == JTAG_MAX_DEVS \in Nat \ {0} /\ JTAG_MAX_IR_LEN \in Nat \ {0}
ASSUME KindsAssumption ==
    \A k \in DOMAIN Kinds : /\ Len(Kinds[k].cap) > 1
                            /\ \A i \in DOMAIN Kinds[k].cap : Kinds[k].cap[i] \in {0, 1}

NoIr == "unknown"                 \* current_ir = UINT32_MAX
IR_BYPASS == "bypass"
Blank == [id |-> "none", len |-> 0, pre |-> 0, post |-> 0, dpre |-> 0, dpost |-> 0, ir |-> "zero"]
Slots == 0 .. JTAG_MAX_DEVS       \* the last is not part of the array
NoDevs == [i \in Slots |-> Blank]

\* What the line delivers in one phase of the scan: the chain itself, or a line stuck at 0 or 1.
Lines == {"live", "ones", "zeros"}
CapturedIrs(chain) == FlattenSeq([i \in DOMAIN chain |-> Kinds[chain[i]].cap])
\* The bits read one after the other, all ones behind the chain.
Bits(bits, line, n) ==
    [i \in 1 .. n |-> CASE line = "ones" -> 1 [] line = "zeros" -> 0
                        [] OTHER -> IF i <= Len(bits) THEN bits[i] ELSE 1]

\* FALSE when more devices answer than the table holds.
jtag_read_idcodes(c, line) ==
    LET n == CASE line = "ones" -> 0 [] line = "zeros" -> JTAG_MAX_DEVS + 1 [] OTHER -> Len(c.chain)
    IN  IF n > JTAG_MAX_DEVS THEN [c EXCEPT !.count = 0, !.ok = FALSE]
        ELSE [c EXCEPT !.count = n,
                       !.devs = [i \in Slots |-> [Blank EXCEPT !.id = IF i < n THEN c.chain[i + 1] ELSE "none"]]]

\* The length the table of quirks gives for an identification code, 0 for none, and its bits.
jtag_device_get_quirks(id) == IF id \in DOMAIN Kinds /\ Kinds[id].quirk THEN Kinds[id].cap ELSE <<>>

\* Without quirks the end of a register is seen one bit late, on the first of the next.
Overrun(quirk) == IF quirk = <<>> THEN 1 ELSE 0

\* One bit of the instruction registers.  r is the state of the loop: the device, the bits of its
\* register so far, the bits before it.
NextIrBit(r, bit) ==
    IF r.st # "reading" THEN r
    ELSE LET quirk == jtag_device_get_quirks(r.devs[r.dev].id)
             len == r.len + 1
             own == len - Overrun(quirk)
             cut == (quirk = <<>> /\ bit = 1 /\ len > 1) \/ len = Len(quirk)
         IN  IF quirk # <<>> /\ quirk[len] # bit THEN [r EXCEPT !.st = "mismatch"]
             ELSE IF ~cut THEN [r EXCEPT !.len = len, !.st = IF len > JTAG_MAX_IR_LEN THEN "overlong" ELSE @]
             ELSE IF quirk = <<>> /\ len = 2 THEN [r EXCEPT !.st = "end"]
             ELSE [r EXCEPT !.devs[r.dev] = [@ EXCEPT !.len = own, !.pre = r.pre, !.ir = NoIr],
                            !.pre = @ + own, !.dev = @ + 1, !.len = Overrun(quirk),
                            !.st = IF r.dev + 1 \in Slots THEN @ ELSE "overrun"]

\* Ones are shifted in meanwhile, which is BYPASS in every device.
jtag_read_irs(c, line) ==
    IF ~c.ok THEN c
    ELSE LET bits == CapturedIrs(c.chain)
             start == [dev |-> 0, len |-> 0, pre |-> 0, devs |-> c.devs, st |-> "reading"]
             r == FoldLeft(NextIrBit, start, Bits(bits, line, Len(bits) + JTAG_MAX_IR_LEN + 2))
             ok == r.st = "end"
         IN  [c EXCEPT !.devs = r.devs, !.ok = ok, !.count = IF ok THEN @ ELSE 0, !.seen = r.dev,
                       !.irs = [i \in DOMAIN c.chain |-> IR_BYPASS]]

\* Every device now shows one 0: their number has to be that of the identification codes.
jtag_sanity_check(c, line) ==
    IF ~c.ok THEN c
    ELSE LET zeros == CASE line = "ones" -> 0 [] line = "zeros" -> c.count + 1
                        [] OTHER -> IF Len(c.chain) > c.count THEN c.count + 1 ELSE Len(c.chain)
             written == [i \in Slots |-> IF i < zeros THEN [c.devs[i] EXCEPT !.dpre = i, !.dpost = c.count - i - 1]
                                         ELSE c.devs[i]]
         IN  [c EXCEPT !.devs = written, !.ok = zeros = c.count /\ c.count > 0,
                       !.count = IF zeros = c.count THEN @ ELSE 0]

ir_postscan(c) ==
    [i \in Slots |-> IF i >= c.count THEN c.devs[i]
                     ELSE [c.devs[i] EXCEPT !.post = FoldLeft(LAMBDA s, k : s + c.devs[k].len, 0,
                                                              [k \in 1 .. c.count - i - 1 |-> i + k])]]

\* jtag_scan up to the handlers; lines says what each of its three phases reads.
ScanChain(chain, irs, lines) ==
    LET fresh == [chain |-> chain, irs |-> irs, devs |-> NoDevs, count |-> 0, ok |-> TRUE, seen |-> 0]
        checked == jtag_sanity_check(jtag_read_irs(jtag_read_idcodes(fresh, lines[1]), lines[2]), lines[3])
    IN  IF checked.ok THEN [checked EXCEPT !.devs = ir_postscan(checked)] ELSE checked

-----------------------------------------------------------------------------
(* One device *)

IrLen(chain, i) == Len(Kinds[chain[i + 1]].cap)
Before(chain, i) == FoldLeft(LAMBDA s, k : s + IrLen(chain, k - 1), 0, [k \in 1 .. i |-> k])
Total(chain) == Before(chain, Len(chain))

\* The lengths the table gives device i are those of the chain.
Placed(c, i) ==
    LET d == c.devs[i] IN /\ d.len = IrLen(c.chain, i) /\ d.pre = Before(c.chain, i)
                          /\ d.pre + d.len + d.post = Total(c.chain)
                          /\ d.dpre = i /\ d.dpost = Len(c.chain) - i - 1

\* Nothing is shifted when the device is known to hold the instruction.  Misplaced bits leave some
\* other instruction everywhere.
\* Mutant: the other devices, now in BYPASS, are still believed to hold theirs.
Forget_None(c) == c.devs
Forget(c) == [k \in Slots |-> IF k < c.count THEN [c.devs[k] EXCEPT !.ir = NoIr] ELSE c.devs[k]]

jtag_dev_write_ir(c, i, ir) ==
    IF c.devs[i].ir = ir THEN c
    ELSE [c EXCEPT !.devs = [Forget(c) EXCEPT ![i].ir = ir],
                   !.irs = [k \in DOMAIN c.chain |-> IF ~Placed(c, i) THEN "stray"
                                                     ELSE IF k = i + 1 THEN ir ELSE IR_BYPASS]]

\* A data register shift reaches device i when it holds the instruction meant and the lengths are right.
jtag_dev_shift_dr(c, i, ir) == Placed(c, i) /\ c.irs[i + 1] = ir

\* A chain whose registers capture 1 and then zeros, or what the table of quirks expects.  A register
\* that does not begin with 1 (jtag_scan.c:244) is told from the one before only if that one's length
\* is known: it is the first, or follows a device of the table.
Regular(chain) ==
    \A i \in DOMAIN chain :
        LET k == Kinds[chain[i]]
        IN  /\ k.quirk \/ \A b \in 2 .. Len(k.cap) : k.cap[b] = 0
            /\ k.cap[1] = 1 \/ i = 1 \/ Kinds[chain[i - 1]].quirk

=============================================================================
