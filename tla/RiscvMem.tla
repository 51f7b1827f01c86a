------------------------------- MODULE RiscvMem -------------------------------
(***************************************************************************)
(* Memory of a RISC-V hart (riscv32.c, riscv64.c): abstract commands, or     *)
(* the system bus in an access width it has.  A transfer narrower than the   *)
(* bus is cut into pieces that are read, or read, changed and written, in    *)
(* the bus's own width.  And the properties of RISC-V access as a whole.     *)
(***************************************************************************)
EXTENDS RiscvAccess

Payload(i) == 100 + i                          \* byte i of the caller's buffer
Unset == 255                                   \* a byte of the caller's buffer that was not stored
Stored(out, at, bytes) == [i \in DOMAIN out |-> IF i - at \in DOMAIN bytes THEN bytes[i - at] ELSE out[i]]

\* The widest access that the address and the length allow.
riscv_mem_access_width(fw, addr, len) ==
    LET fits(w) == addr % w = 0 /\ len % w = 0 /\ w * 8 <= fw.width
    IN  CHOOSE w \in {1, 2, 4, 8} : fits(w) /\ \A v \in {1, 2, 4, 8} : fits(v) => v <= w

Mem(w, wr, len) == [kind |-> "mem", width |-> w, wr |-> wr, inc |-> w < len]

\* y is [m, out]: the machine and the caller's buffer.  Word after word of a transfer, each with its
\* steps, is stored in the buffer from at on.
Kept(x, out, at, w) ==
    [m |-> x, out |-> IF x.ok THEN Stored(out, at, [i \in 1 .. w |-> IF i \in DOMAIN x.val THEN x.val[i] ELSE 0]) ELSE out]
RECURSIVE Words(_, _, _, _, _)
Words(y, h, scripts, w, at) ==
    IF scripts = <<>> THEN y ELSE Words(Kept(Run(y.m, h, Head(scripts)), y.out, at, w), h, Tail(scripts), w, at + w)
Buffer(n, byte) == [i \in 1 .. n |-> byte]

\* riscv32_abstract_mem_read, riscv64_mem_read
ReadMem(w, len) == riscv_dm_write("command", Mem(w, FALSE, len)) \o riscv_command_wait_complete \o riscv_dm_read("rd_data0mem")
riscv32_abstract_mem_read(x, h, src, len) ==
    LET w == riscv_mem_access_width(x.fw[h], src, len)
    IN  Words([m |-> Run(x, h, riscv_dm_write("data1", src)), out |-> Buffer(len, Unset)], h,
              [i \in 1 .. len \div w |-> ReadMem(w, len)], w, 0)

WriteMem(off, w, len) ==
    riscv_dm_write("data0mem", [i \in 1 .. w |-> Payload(off + i)]) \o riscv_dm_write("command", Mem(w, TRUE, len))
    \o riscv_command_wait_complete
riscv32_abstract_mem_write(x, h, dest, len) ==
    LET w == riscv_mem_access_width(x.fw[h], dest, len)
    IN  Run(x, h, riscv_dm_write("data1", dest) \o FlattenSeq([i \in 1 .. len \div w |-> WriteMem((i - 1) * w, w, len)]))

-----------------------------------------------------------------------------
(* The system bus *)

riscv_sysbus_check ==
    riscv_dm_read("rd_sbcs") \o Local("note") \o riscv_dm_write("sbcs", [Sb0 EXCEPT !.err = "clear"]) \o Local("anyway")

\* Reading one word makes the bus fetch the next, so the last is read with that turned off.
\* Mutant: it stays on for the last word.
LastWord_On == <<>>

LastWord == riscv_dm_write("sbcs", Sb0)

\* y.out holds the bytes of the transfer from base on.
BusRead(off, w, len) ==
    riscv_dm_read("rd_sbcs") \o (IF off + w = len /\ w < len THEN LastWord ELSE <<>>) \o riscv_dm_read("rd_sbdata")
Checked(y, h) == [y EXCEPT !.m = Run(@, h, riscv_sysbus_check)]
riscv32_sysbus_mem_native_read(y, h, src, len, w, base) ==
    LET cfg == [Sb0 EXCEPT !.acc = w, !.onaddr = TRUE, !.ondata = w < len, !.inc = w < len]
    IN  Checked(Words([y EXCEPT !.m = Run(@, h, riscv_dm_write("sbcs", cfg) \o riscv_dm_write("sbaddress", src))], h,
                      [i \in 1 .. len \div w |-> BusRead((i - 1) * w, w, len)], w, base), h)

BusWrite(off, w, data) == riscv_dm_write("sbdata", [i \in 1 .. w |-> data[off + i]]) \o riscv_dm_read("rd_sbcs")
riscv32_sysbus_mem_native_write(x, h, dest, data, w) ==
    LET cfg == [Sb0 EXCEPT !.acc = w, !.inc = w < Len(data)]
    IN  Run(x, h, riscv_dm_write("sbcs", cfg) \o riscv_dm_write("sbaddress", dest)
                  \o FlattenSeq([i \in 1 .. Len(data) \div w |-> BusWrite((i - 1) * w, w, data)]) \o riscv_sysbus_check)

\* adiv5_unpack_data and adiv5_pack_data count lanes in a 32 bit word; packing clears the others.
Lane(word, i) == IF i \in DOMAIN word THEN word[i] ELSE 0
UnpackByte(word, a) == <<Lane(word, (a % 4) + 1)>>
UnpackHalf(word, a) == LET l == (a % 4) - (a % 2) IN <<Lane(word, l + 1), Lane(word, l + 2)>>
PackByte(b, lane) == [i \in 1 .. 4 |-> IF i = lane + 1 THEN b ELSE 0]
PackHalf(b, lane) == [i \in 1 .. 4 |-> IF i - lane \in 1 .. 2 THEN b[i - lane] ELSE 0]

\* A piece of len bytes inside one bus word of nw bytes.
Unpacked(whole, out, src, len, nw, base) ==
    LET pair == len - (len % 2)
        half == IF pair > 0 THEN Stored(out, base, UnpackHalf(whole.out, src)) ELSE out
    IN  [whole EXCEPT !.out = CASE nw = 2 -> Stored(out, base, UnpackByte(@, src))
                                [] nw # 2 /\ len % 2 = 1 -> Stored(half, base + pair, UnpackByte(@, src + pair))
                                [] OTHER -> half]
ReadWord(x, h, a, nw) == riscv32_sysbus_mem_native_read([m |-> x, out |-> Buffer(nw, 0)], h, a - (a % nw), nw, nw, 0)
riscv32_sysbus_mem_adjusted_read(y, h, src, len, nw, base) == Unpacked(ReadWord(y.m, h, src, nw), y.out, src, len, nw, base)

Packed(dest, data, nw) ==
    LET pair == Len(data) - (Len(data) % 2)
    IN  CASE nw = 2 -> PackByte(data[1], dest % 2)
          [] nw # 2 /\ Len(data) % 2 = 1 -> PackByte(data[IF pair > 0 THEN 3 ELSE 1], (dest + pair) % 4)
          [] OTHER -> PackHalf(data, (dest % 4) - (dest % 2))
riscv32_sysbus_mem_adjusted_write(x, h, dest, data, nw) ==
    riscv32_sysbus_mem_native_write(ReadWord(x, h, dest, nw).m, h, dest - (dest % nw), SubSeq(Packed(dest, data, nw), 1, nw), nw)

\* The pieces of a transfer that the bus cannot do in the width it asks for: [at, len, narrow].
NativeWidth(bus, w) ==
    LET wider == {v \in bus : v >= w} IN IF wider = {} THEN 4 ELSE CHOOSE v \in wider : \A u \in wider : v <= u
Pieces(bus, w, addr, len) ==
    IF w \in bus THEN <<[at |-> 0, len |-> len, narrow |-> FALSE]>>
    ELSE LET nw == NativeWidth(bus, w)
             head == IF len + (addr % nw) <= nw THEN len ELSE nw - (addr % nw)
             body == (len - head) - ((len - head) % nw)
             tail == len - head - body
             all == <<[at |-> 0, len |-> head, narrow |-> TRUE], [at |-> head, len |-> body, narrow |-> FALSE],
                      [at |-> head + body, len |-> tail, narrow |-> TRUE]>>
         IN  SelectSeq(all, LAMBDA p : p.len > 0)

Native(bus, w) == IF w \in bus THEN w ELSE NativeWidth(bus, w)

RECURSIVE ReadPieces(_, _, _, _, _)
ReadPieces(y, h, src, nw, ps) ==
    IF ps = <<>> THEN y
    ELSE LET p == Head(ps)
         IN  ReadPieces(IF p.narrow THEN riscv32_sysbus_mem_adjusted_read(y, h, src + p.at, p.len, nw, p.at)
                        ELSE riscv32_sysbus_mem_native_read(y, h, src + p.at, p.len, nw, p.at), h, src, nw, Tail(ps))
riscv32_sysbus_mem_read(x, h, src, len) ==
    LET bus == x.fw[h].bus
        w == riscv_mem_access_width(x.fw[h], src, len)
    IN  ReadPieces([m |-> x, out |-> Buffer(len, Unset)], h, src, Native(bus, w), Pieces(bus, w, src, len))

RECURSIVE WritePieces(_, _, _, _, _)
WritePieces(x, h, dest, nw, ps) ==
    IF ps = <<>> THEN x
    ELSE LET p == Head(ps)
             data == [i \in 1 .. p.len |-> Payload(p.at + i)]
         IN  WritePieces(IF p.narrow THEN riscv32_sysbus_mem_adjusted_write(x, h, dest + p.at, data, nw)
                         ELSE riscv32_sysbus_mem_native_write(x, h, dest + p.at, data, nw), h, dest, nw, Tail(ps))
riscv32_sysbus_mem_write(x, h, dest, len) ==
    LET bus == x.fw[h].bus
        w == riscv_mem_access_width(x.fw[h], dest, len)
    IN  WritePieces(x, h, dest, Native(bus, w), Pieces(bus, w, dest, len))

riscv_check_error(x, h) == x.fw[h].status # "ok"

\* Bound: transfers are tried in a session with nothing else changed, and upset at one address.
Plain == /\ m.cur # NoHart /\ m.attached = {m.cur} /\ last = RvIdle
         /\ m.hw[m.cur].gpr = 0 /\ \A t \in 1 .. T : m.fw[m.cur].uses[t] = "unused"

\* riscv32_mem_read, riscv64_mem_read, and target_mem_read's look at the error
MemRead ==
    \E src \in 0 .. MaxAddr - 1, len \in Lens, p \in Plan :
        /\ Plain /\ (p = NoUpset \/ src = 1) /\ src + len <= MaxAddr /\ (m.fw[m.cur].ready \/ m.fw[m.cur].width = 64)
        /\ \E y \in {IF m.fw[m.cur].sys /\ m.fw[m.cur].ready
                     THEN riscv32_sysbus_mem_read(Begin(m, p), m.cur, src, len)
                     ELSE riscv32_abstract_mem_read(Begin(m, p), m.cur, src, len)} :
              /\ m' = Rest(y.m)
               /\ last' = [Done("memread", y.m, m.cur, <<>>) EXCEPT !.addr = src, !.len = len, !.buf = y.out,
                                                                    !.fresh = m.sb.err = "ok",
                                                                    !.told = riscv_check_error(y.m, m.cur)]

\* riscv32_mem_write
MemWrite ==
    \E dest \in 0 .. MaxAddr - 1, len \in Lens, p \in Plan :
        /\ Plain /\ (p = NoUpset \/ dest = 1) /\ dest + len <= MaxAddr /\ m.fw[m.cur].ready
        /\ \E x \in {IF m.fw[m.cur].sys THEN riscv32_sysbus_mem_write(Begin(m, p), m.cur, dest, len)
                     ELSE riscv32_abstract_mem_write(Begin(m, p), m.cur, dest, len)} :
              /\ m' = Rest(x)
               /\ last' = [Done("memwrite", x, m.cur, <<>>) EXCEPT !.addr = dest, !.len = len,
                                                                   !.fresh = m.sb.err = "ok",
                                                                   !.told = riscv_check_error(x, m.cur)]

\* The answer has gone out and the next request may come.  Bound: what was written to memory is put back.
Answered ==
    /\ last # RvIdle
    /\ m' = [m EXCEPT !.mem = Original, !.touched = {}]
    /\ last' = RvIdle

RvNext == Scan \/ Attach \/ Detach \/ DpAccess \/ WriteReg \/ ReadReg \/ SetTrigger \/ ClearTrigger
          \/ MemRead \/ MemWrite \/ Answered
RvSpec == RvInit /\ [][RvNext]_rvVars

-----------------------------------------------------------------------------
(* Properties *)

\* Counts stay small, the registers and records keep their shape.
RvTypeOK ==
    /\ m.c.count \in 0 .. JTAG_MAX_DEVS /\ m.idle \in 0 .. MaxIdle
    /\ m.dmi.st \in {"none", "live", "freed"} /\ m.dmi.ref \in 0 .. Len(HartsOf)
    /\ \A d \in Dms : m.dms[d].ref \in 0 .. HartsOf[d] /\ m.sel[d] \in 0 .. HartsOf[d]
    /\ m.attached \subseteq ToSet(m.list) /\ m.cur \in m.attached \union {NoHart}
    /\ \A h \in Harts : m.fw[h].width \in {0, 32, 64, 128} /\ m.fw[h].triggers \in 0 .. T

\* A scan of a chain whose registers capture what the code can make out leaves every device with the
\* lengths that address it and no other (jtag_read_irs, jtag_sanity_check, jtag_scan).
ChainPlaced ==
    m.c.ok /\ Regular(m.c.chain) /\ m.c.count = Len(m.c.chain) => \A i \in 0 .. m.c.count - 1 : Placed(m.c, i)

\* The cache of jtag_dev_write_ir is true: a device believed to hold an instruction holds it, and is
\* the only one that is not in BYPASS, whichever drivers have used the chain in between.
IrCacheTrue ==
    \A i \in 0 .. m.c.count - 1 :
        Regular(m.c.chain) /\ m.c.devs[i].ir \notin {NoIr, "zero"} =>
            \A k \in DOMAIN m.c.chain : m.c.irs[k] = IF k = i + 1 THEN m.c.devs[i].ir ELSE IR_BYPASS

\* The listed harts, and they alone, keep their debug module, and it the interface, whatever
\* allocation or access failed during the scan (riscv_dm_ref, riscv_dm_unref and the handlers' frees).
RefsExact ==
    /\ \A d \in Dms : LET mine == Cardinality({h \in ToSet(m.list) : h[1] = d})
                      IN  m.dms[d].ref = mine /\ (mine > 0 <=> m.dms[d].st = "live")
    /\ LET used == Cardinality({d \in Dms : m.dms[d].ref > 0})
       IN  m.dmi.ref = used /\ (used > 0 <=> m.dmi.st = "live")

\* An undisturbed scan lists every hart of a chain it can read, in its own width, and leaves it running.
ScanFinds ==
    last.op = "scan" /\ last.clean /\ m.c.ok /\ Regular(m.c.chain) /\ "rv" \in ToSet(m.c.chain) =>
        /\ ToSet(m.list) = Harts
        /\ \A h \in Harts : m.fw[h].width = Xlen[h] /\ m.fw[h].triggers = T /\ ~m.hw[h].halted

\* What a session does to the registers and triggers of its hart reaches that hart and leaves the
\* others alone: the module acts on the hart selected last, and several targets share it.
OwnHart ==
    /\ last.op = "write" /\ last.clean =>
          Gprs(m) = IF last.told THEN [last.before EXCEPT ![last.h] = last.buf[1]] ELSE last.before
    /\ last.op = "read" /\ last.clean /\ last.told => last.buf = <<last.before[last.h]>>
    /\ last.op \in {"set", "clear"} => \A h \in Harts \ {last.h} : m.hw[h].trig = last.before[h]

\* A breakpoint the host was told is set is in a trigger of its hart, and none it holds was given up for it.
TriggersTrue ==
    last.op = "set" /\ last.clean /\ last.told =>
        LET was == last.before[last.h] IN
           \E t \in 1 .. T : /\ m.hw[last.h].trig = [was EXCEPT ![t] = [mode |-> last.buf[1], addr |-> last.buf[2]]]
                             /\ t \notin last.held /\ m.fw[last.h].uses[t] = last.buf[1]

Span(a, n) == {a + i : i \in 0 .. n - 1}
\* The pieces the lane arithmetic of the narrow accesses handles.
PieceOk(bus, w, addr, p) ==
    \/ ~p.narrow
    \/ NativeWidth(bus, w) = 2 /\ (addr + p.at) % 4 < 2
    \/ NativeWidth(bus, w) = 4 /\ (p.len = 1 \/ (p.len < 4 /\ (addr + p.at) % 2 = 0))
ByBus == m.fw[last.h].sys /\ m.fw[last.h].ready
Handled ==
    LET w == riscv_mem_access_width(m.fw[last.h], last.addr, last.len)
        ps == Pieces(m.fw[last.h].bus, w, last.addr, last.len)
    IN  ByBus => \A i \in DOMAIN ps : PieceOk(m.fw[last.h].bus, w, last.addr, ps[i])
Direct == ByBus => riscv_mem_access_width(m.fw[last.h], last.addr, last.len) \in m.fw[last.h].bus

\* The bytes an error on which concerns the transfer: those of the 32 bit words it lies in.
Exposed == IF Direct THEN Span(last.addr, last.len)
           ELSE Span(last.addr - (last.addr % 4), last.len + 6)
\* A transfer without upset, with no error to report, moves exactly the bytes asked for: reads in every
\* piece the narrow accesses handle and with no error left over from an upset transfer if there are
\* several (the status of the last piece hides that of the others), writes in the bus's own widths.
RvTransferExact ==
    last.op \in {"memread", "memwrite"} /\ last.clean /\ ~last.told /\ Exposed \cap Bad = {} =>
        /\ last.op = "memread" /\ Handled /\ (Direct \/ last.fresh) => \A i \in 1 .. last.len : last.buf[i] = Original[last.addr + i - 1]
        /\ last.op = "memwrite" /\ Direct =>
              \A a \in DOMAIN m.mem : m.mem[a] = IF a \in Span(last.addr, last.len) THEN Payload(a - last.addr + 1)
                                                 ELSE Original[a]

\* The bus is never driven outside the words the transfer lies in: no read-ahead beyond the end, where
\* a register with side effects may be.
NothingBeyond ==
    last.op \in {"memread", "memwrite"} /\ last.clean =>
        \A a \in m.touched : a - (a % 4) <= last.addr + last.len - 1 /\ (a - (a % 4)) + 3 >= last.addr
                             /\ (Direct => a \in Span(last.addr, last.len))

\* A transfer in the bus's own width that ran into a bus error is reported by riscv_check_error.
BusErrorTold ==
    last.op \in {"memread", "memwrite"} /\ last.clean /\ Direct /\ Span(last.addr, last.len) \cap Bad # {} => last.told

\* The chain is as jtag_scan.c believes: every device placed, every cached instruction held.
ChainTrue == ChainPlaced /\ IrCacheTrue

\* The harts listed are the harts there are, each kept by its references, and what a session
\* does reaches its own hart only.
HartsTrue == RvTypeOK /\ RefsExact /\ ScanFinds /\ OwnHart /\ TriggersTrue

\* Memory transfers over the system bus are exact, contained and their errors told.
RvTransfers == RvTransferExact /\ NothingBeyond /\ BusErrorTold
=============================================================================
