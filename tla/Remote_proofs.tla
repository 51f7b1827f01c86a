---------------------------- MODULE Remote_proofs ----------------------------
(***************************************************************************)
(* The remote protocol keeps requests and answers paired although neither   *)
(* carries a number, and a call the host believes in has done on the target *)
(* what it reports: for every size of the buffers, any transfers and shifts *)
(* and any number of calls, timeouts and failures.                          *)
(***************************************************************************)
EXTENDS Remote, SequenceTheorems, TLAPS

RemoteSpec == RemoteInit /\ [][RemoteNext]_remoteVars

-----------------------------------------------------------------------------
(* The inductive invariant.                                                *)

MemOps == {"mem_read", "mem_write"}
Blocks == MemOps \union {"shift", "cycle"}
Ops == Blocks \union Swd \union Jtag \union General \union Adiv5 \union Spi \union {"HC", "HJ", "G?", "none"}
Forms == {"v0", "v1", "v3"}
Codes == {OK, PARERR, ERR, NOTSUP, "-4"}
Results == {"ok", "failed", "raised"} \union Codes

Faults == {0, 1, WAIT, NO_RESPONSE}
FuncSet == {f \in [adiv5 : {"none", "wires"} \union Forms, cycle : BOOLEAN, add : BOOLEAN, comms : BOOLEAN] :
               f.adiv5 = "none" => f = NoFuncs}
AppSet == [funcs : FuncSet, fault : Faults, iface : {"none", "swd", "jtag"}, sent : Nat, dead : BOOLEAN]
CallSet == [op : Ops, st : {"wait", "done"}, res : Results, dev : Devs, addr : Nat, len : Nat, align : 0 .. 3,
            size : Nat, off : Nat, buf : Seq(Int), own : BOOLEAN, did : BOOLEAN]
RequestSet == [op : Ops, form : Forms, dev : Devs, addr : Nat, len : Nat, from : Nat, align : 0 .. 3, n : Nat, size : Nat]
AnswerSet == [code : Codes, err : Nat, fault : Faults, val : Seq(Int), did : BOOLEAN, n : Nat]
ProbeSet == [version : Versions, iface : {"none", "swd", "jtag"}, fault : Faults, devs : SUBSET Devs, hung : BOOLEAN]
TargetSet == [mem : [Devs -> [Addrs -> Int]], tap : Seq(Nat \X BOOLEAN), nrst : Nat]

\* Every byte of the target is the one it had or one a transfer wrote.
Known(t) == \A d \in Devs, a \in Addrs : t.mem[d][a] \in {Original(d, a)} \union (101 .. 100 + MaxAddr)

\* A request stays within the memory, and a write moves whole elements.
Contained(r) ==
    /\ r.op \in MemOps => r.from <= r.addr /\ r.addr + r.len <= MaxAddr
    /\ r.op = "mem_write" => r.addr % 2^r.align = 0 /\ r.len % 2^r.align = 0

\* A call in progress: its next block is within what was asked for.
Underway(h, c) ==
    /\ c \in CallSet /\ c.st = "wait" /\ c.size <= 30 /\ c.off <= c.len + 1
    /\ c.op \in Adiv5 => h.funcs.adiv5 \in Forms
    /\ c.op \in Blocks => c.off < c.len
    /\ c.op \in MemOps => /\ c.addr + c.len <= MaxAddr
                          /\ c.addr % 2^c.align = 0 /\ c.len % 2^c.align = 0
    /\ c.op = "mem_write" => c.off % 2^c.align = 0
    /\ c.op = "shift" => c.size = 6
    /\ c.op = "cycle" /\ h.funcs.cycle => c.off = 0

Shape ==
    /\ app \in AppSet /\ call \in CallSet /\ req \in Seq(RequestSet) /\ answers \in Seq(AnswerSet)
    /\ probe \in ProbeSet /\ target \in TargetSet
    /\ late \in Nat /\ upsets \in 0 .. MaxUpsets /\ calls \in 0 .. MaxCalls
    /\ call.off <= call.len + 1
    /\ Known(target)
    /\ \A i \in 1 .. Len(req) : Contained(req[i])
    /\ Waiting => Underway(app, call) /\ app.sent >= 1

\* What is outstanding, and its numbers.
Pending == Len(answers) + Len(req)
Paired ==
    /\ Pending = late + (IF Waiting THEN 1 ELSE 0)
    /\ \A i \in 1 .. Len(answers) : answers[i].n = (app.sent - Pending) + i
    /\ \A i \in 1 .. Len(req) : req[i].n = (app.sent - Len(req)) + i

\* The request the call waits for.
Asked(r) ==
    LET amount == Amount(app, call) IN
    /\ r.op = Letter(app, call) /\ r.dev = Addressed(app, call).dev
    /\ r.addr = call.addr + call.off /\ r.len = amount /\ r.from = call.off
    /\ call.op = "shift" => r.size = 6

Cell(i) == target.mem[Addressed(app, call).dev][(call.addr + i) - 1]

\* The first n cycles of the shift are what reached the TAP.
Shifted(n) == Len(target.tap) = n /\ \A i \in 1 .. n : target.tap[i] = <<i, i = call.len>>

\* An answer to the block the call waits for is true of the target.
Truthful(a) ==
    LET amount == Amount(app, call) IN
    /\ call.op = "mem_read" /\ a.code = OK =>
          Len(a.val) = amount /\ \A i \in 1 .. amount : a.val[i] = Cell(call.off + i)
    /\ call.op = "mem_write" /\ a.code = OK => \A i \in 1 .. amount : Cell(call.off + i) = Payload(call.off + i)
    /\ call.op \in Adiv5 /\ ~a.did => a.code = ERR /\ (a.err = EXCEPTION \/ (a.err = FAULT /\ a.fault # 0))
    /\ call.op = "shift" =>
          /\ a.code = OK /\ Len(a.val) = amount /\ \A i \in 1 .. amount : a.val[i] = Payload(call.off + i)
          /\ (call.own \/ call.off = 0) => Shifted(call.off + amount)

\* The blocks before it were moved, if the answers read so far were the call's own.
Prefix ==
    /\ call.op = "mem_read" => Len(call.buf) = call.off /\ \A i \in 1 .. call.off : call.buf[i] = Cell(i)
    /\ call.op = "mem_write" => \A i \in 1 .. call.off : Cell(i) = Payload(i)
    /\ call.op = "shift" => Len(call.buf) = call.off /\ \A i \in 1 .. call.off : call.buf[i] = Payload(i)

Progress ==
    Waiting =>
        /\ IF req # <<>> THEN Asked(req[Len(req)]) ELSE Truthful(answers[Len(answers)])
        /\ call.op \in Blocks /\ call.own => /\ call.off > 0 => late = 0
                                             /\ Prefix
                                             /\ call.op = "shift" /\ req # <<>> /\ call.off > 0 => Shifted(call.off)
        /\ call.op \in Adiv5 /\ call.own => call.did

\* What a call that succeeded on its own answers has moved; nothing is outstanding
\* then that could change the target.
Succeeded(ops) == call.own /\ call.op \in ops /\ call.res = "ok"
Delivered ==
    /\ Succeeded({"mem_read"}) =>
          /\ Len(call.buf) = call.len
          /\ app.funcs.adiv5 # "v0" \/ call.dev = 0 =>
                \A i \in 1 .. call.len : call.buf[i] = target.mem[call.dev][(call.addr + i) - 1]
    /\ Succeeded({"mem_write"}) =>
          (app.funcs.adiv5 # "v0" \/ call.dev = 0 =>
                \A i \in 1 .. call.len : target.mem[call.dev][(call.addr + i) - 1] = Payload(i))
    /\ Succeeded({"shift"}) /\ call.len > 0 =>
          /\ Shifted(call.len)
          /\ Len(call.buf) = call.len /\ \A i \in 1 .. call.len : call.buf[i] = Payload(i)
Moves ==
    /\ Succeeded({"mem_read", "mem_write", "shift"}) /\ call.len > 0 => late = 0
    /\ Delivered

Ending == ~Waiting => Moves /\ FailureTold

RInv == Shape /\ Paired /\ Progress /\ Ending

\* A write has moved the blocks before the one it is at, however it ended.
Stopped ==
    call.op = "mem_write" /\ call.own => (call.off > 0 => late = 0) /\ \A i \in 1 .. call.off : Cell(i) = Payload(i)

\* Until an answer is given up on, nothing changed since the call began but the bytes up to
\* the end of that block.
Changed(d, a) == target.mem[d][a] # before[d][a]
Within(d, a) ==
    /\ call.op = "mem_write" /\ d = Addressed(app, call).dev
    /\ call.addr <= a /\ a < (call.addr + call.off) + Amount(app, call)
Confined == late = 0 => \A d \in Devs, a \in Addrs : Changed(d, a) => Within(d, a)

WInv == RInv /\ Stopped /\ Confined

-----------------------------------------------------------------------------
(* Arithmetic and records.                                                 *)

LEMMA PowersAre ==
    ASSUME NEW k \in 0 .. 3
    PROVE  2^k = IF k = 0 THEN 1 ELSE IF k = 1 THEN 2 ELSE IF k = 2 THEN 4 ELSE 8
<1>1. CASE k = 0
  BY <1>1
<1>2. CASE k = 1
  BY <1>2
<1>3. CASE k = 2
  BY <1>3
<1>4. CASE k = 3
  BY <1>4
<1> QED
  BY <1>1, <1>2, <1>3, <1>4

LEMMA Multiples ==
    ASSUME NEW k \in 0 .. 3, NEW a \in Nat, NEW b \in Nat, a % 2^k = 0, b % 2^k = 0
    PROVE  (a + b) % 2^k = 0 /\ (b <= a => (a - b) % 2^k = 0)
<1> DEFINE m == 2^k
<1>1. m \in {1, 2, 4, 8}
  BY PowersAre
<1>2. a % m = 0 /\ b % m = 0
  OBVIOUS
<1>3. (a + b) % m = 0 /\ (b <= a => (a - b) % m = 0)
  <2> HIDE DEF m
  <2> QED
    BY <1>1, <1>2
<1> QED
  BY <1>3

LEMMA ZeroMultiple == \A k \in 0 .. 3 : 0 % 2^k = 0
<1> SUFFICES ASSUME NEW k \in 0 .. 3
             PROVE  0 % 2^k = 0
  OBVIOUS
<1> DEFINE m == 2^k
<1>1. m \in {1, 2, 4, 8}
  BY PowersAre
<1>2. 0 % m = 0
  <2> HIDE DEF m
  <2> QED
    BY <1>1
<1> QED
  BY <1>2

LEMMA RoundedDown ==
    ASSUME NEW k \in 0 .. 3, NEW b \in Nat
    PROVE  b - (b % 2^k) \in 0 .. b /\ (b - (b % 2^k)) % 2^k = 0
<1> DEFINE m == 2^k
<1>1. m \in {1, 2, 4, 8}
  BY PowersAre
<1>2. b - (b % m) \in 0 .. b /\ (b - (b % m)) % m = 0
  <2> HIDE DEF m
  <2> QED
    BY <1>1
<1> QED
  BY <1>2

LEMMA MinPair ==
    ASSUME NEW a \in Int, NEW b \in Int
    PROVE  Min({a, b}) = IF a <= b THEN a ELSE b
BY DEF Min

LEMMA Joined ==
    ASSUME NEW s \in Seq(Int), NEW t \in Seq(Int)
    PROVE  /\ s \o t \in Seq(Int) /\ Len(s \o t) = Len(s) + Len(t)
           /\ \A i \in 1 .. Len(s) + Len(t) : (s \o t)[i] = IF i <= Len(s) THEN s[i] ELSE t[i - Len(s)]
OBVIOUS

-----------------------------------------------------------------------------
(* What a call asks for.                                                   *)

LEMMA BlockSizes ==
    /\ ReadBlock \in Nat /\ 2 * ReadBlock + 1 <= MaxMsg
    /\ \A k \in 0 .. 3 : /\ WriteBlock(k) \in Nat /\ WriteHead - 2 + 2 * WriteBlock(k) <= MaxMsg
                         /\ WriteBlock(k) % 2^k = 0
<1>1. ReadBlock \in Nat /\ 2 * ReadBlock + 1 <= MaxMsg
  BY MessageAssumption DEF ReadBlock
<1>2. ASSUME NEW k \in 0 .. 3
      PROVE  WriteBlock(k) \in Nat /\ WriteHead - 2 + 2 * WriteBlock(k) <= MaxMsg /\ WriteBlock(k) % 2^k = 0
  <2> DEFINE b == (MaxMsg - WriteHead) \div 2
  <2>1. b \in Nat /\ WriteHead + 2 * b <= MaxMsg
    BY MessageAssumption
  <2>2. WriteBlock(k) = b - (b % 2^k)
    BY DEF WriteBlock
  <2>3. WriteBlock(k) \in 0 .. b /\ WriteBlock(k) % 2^k = 0
    BY <2>1, <2>2, RoundedDown
  <2> QED
    BY <2>1, <2>3, MessageAssumption
<1> QED
  BY <1>1, <1>2

LEMMA AmountCases ==
    ASSUME NEW h, NEW c
    PROVE  /\ c.op = "mem_read" => Amount(h, c) = Min({c.len - c.off, ReadBlock})
           /\ c.op = "mem_write" => Amount(h, c) = Min({c.len - c.off, WriteBlock(c.align)})
           /\ c.op = "shift" => Amount(h, c) = Min({c.len - c.off, Chunk})
           /\ c.op = "cycle" => Amount(h, c) = IF h.funcs.cycle THEN c.len ELSE 1
           /\ c.op \notin Blocks => Amount(h, c) = c.len
<1>1. c.op = "mem_read" => Amount(h, c) = Min({c.len - c.off, ReadBlock})
  BY Zenon DEF Amount
<1>2. c.op = "mem_write" => Amount(h, c) = Min({c.len - c.off, WriteBlock(c.align)})
  BY Zenon DEF Amount
<1>3. c.op = "shift" => Amount(h, c) = Min({c.len - c.off, Chunk})
  BY Zenon DEF Amount
<1>4. c.op = "cycle" => Amount(h, c) = IF h.funcs.cycle THEN c.len ELSE 1
  BY Zenon DEF Amount
<1>5. c.op \notin Blocks => Amount(h, c) = c.len
  BY Zenon DEF Amount, Blocks, MemOps
<1> QED
  BY <1>1, <1>2, <1>3, <1>4, <1>5

\* A block is within what is left, and fits the buffers on both sides.
LEMMA AmountFits ==
    ASSUME NEW h \in AppSet, NEW c, Underway(h, c)
    PROVE  /\ Amount(h, c) \in Nat
           /\ c.op \in Blocks => c.off + Amount(h, c) <= c.len
           /\ c.op = "mem_read" => 2 * Amount(h, c) + 1 <= MaxMsg
           /\ c.op = "mem_write" => WriteHead - 2 + 2 * Amount(h, c) <= MaxMsg /\ Amount(h, c) % 2^c.align = 0
<1>1. c.off \in Nat /\ c.len \in Nat /\ c.align \in 0 .. 3 /\ h.funcs.cycle \in BOOLEAN
  BY DEF Underway, CallSet, AppSet, FuncSet
<1>2. CASE c.op = "mem_read"
  <2>0. c.len - c.off \in Int /\ ReadBlock \in Int
    BY <1>1, BlockSizes
  <2>1. Amount(h, c) = IF c.len - c.off <= ReadBlock THEN c.len - c.off ELSE ReadBlock
    <3>1. Amount(h, c) = Min({c.len - c.off, ReadBlock})
      BY <1>2, AmountCases, Zenon
    <3>2. Min({c.len - c.off, ReadBlock}) = IF c.len - c.off <= ReadBlock THEN c.len - c.off ELSE ReadBlock
      BY <2>0, MinPair, Zenon
    <3> QED
      BY <3>1, <3>2, Zenon
  <2>2. c.off < c.len
    BY <1>2 DEF Underway, Blocks, MemOps
  <2> QED
    BY <1>1, <1>2, <2>1, <2>2, BlockSizes, MessageAssumption
<1>3. CASE c.op = "mem_write"
  <2>0. c.len - c.off \in Int /\ WriteBlock(c.align) \in Int
    BY <1>1, BlockSizes
  <2>1. Amount(h, c) = IF c.len - c.off <= WriteBlock(c.align) THEN c.len - c.off ELSE WriteBlock(c.align)
    <3>1. Amount(h, c) = Min({c.len - c.off, WriteBlock(c.align)})
      BY <1>3, AmountCases, Zenon
    <3>2. Min({c.len - c.off, WriteBlock(c.align)})
            = IF c.len - c.off <= WriteBlock(c.align) THEN c.len - c.off ELSE WriteBlock(c.align)
      BY <2>0, MinPair, Zenon
    <3> QED
      BY <3>1, <3>2, Zenon
  <2>2. c.off < c.len /\ c.len % 2^c.align = 0 /\ c.off % 2^c.align = 0
    BY <1>3 DEF Underway, Blocks, MemOps
  <2>6. c.off <= c.len
    BY <1>1, <2>2
  <2>3. (c.len - c.off) % 2^c.align = 0
    BY <1>1, <2>2, <2>6, Multiples, Zenon
  <2>4. Amount(h, c) % 2^c.align = 0
    BY <1>1, <2>1, <2>3, BlockSizes
  <2> QED
    BY <1>1, <1>3, <2>1, <2>2, <2>4, BlockSizes, MessageAssumption
<1>4. CASE c.op = "shift"
  <2>0. c.len - c.off \in Int /\ Chunk \in Int
    BY <1>1, MessageAssumption
  <2>1. Amount(h, c) = IF c.len - c.off <= Chunk THEN c.len - c.off ELSE Chunk
    <3>1. Amount(h, c) = Min({c.len - c.off, Chunk})
      BY <1>4, AmountCases, Zenon
    <3>2. Min({c.len - c.off, Chunk}) = IF c.len - c.off <= Chunk THEN c.len - c.off ELSE Chunk
      BY <2>0, MinPair, Zenon
    <3> QED
      BY <3>1, <3>2, Zenon
  <2>2. c.off < c.len
    BY <1>4 DEF Underway, Blocks, MemOps
  <2> QED
    BY <1>1, <1>4, <2>1, <2>2, MessageAssumption
<1>5. CASE c.op = "cycle"
  <2>1. Amount(h, c) = IF h.funcs.cycle THEN c.len ELSE 1
    BY <1>5, AmountCases
  <2>2. c.off < c.len /\ (h.funcs.cycle => c.off = 0)
    BY <1>5 DEF Underway, Blocks, MemOps
  <2> QED
    BY <1>1, <1>5, <2>1, <2>2
<1>6. CASE c.op \notin Blocks
  BY <1>1, <1>6, AmountCases DEF Blocks, MemOps
<1> QED
  BY <1>2, <1>3, <1>4, <1>5, <1>6 DEF Blocks, MemOps

LEMMA LetterCases ==
    ASSUME NEW h, NEW c
    PROVE  /\ c.op = "shift" => Letter(h, c) = IF c.off + Amount(h, c) = c.len THEN "JD" ELSE "Jd"
           /\ c.op = "cycle" => Letter(h, c) \in {"Jc", "JN"}
           /\ c.op \notin {"shift", "cycle"} => Letter(h, c) = c.op
<1>1. c.op = "shift" => Letter(h, c) = IF c.off + Amount(h, c) = c.len THEN "JD" ELSE "Jd"
  BY Zenon DEF Letter, ShiftLetter
<1>2. c.op = "cycle" => Letter(h, c) = IF h.funcs.cycle THEN "Jc" ELSE "JN"
  BY Zenon DEF Letter
<1>3. c.op \notin {"shift", "cycle"} => Letter(h, c) = c.op
  BY Zenon DEF Letter
<1> QED
  BY <1>1, <1>2, <1>3

LEMMA AddressedIs ==
    ASSUME NEW h, NEW c \in CallSet
    PROVE  /\ Addressed(h, c).dev \in Devs /\ Addressed(h, c).form \in Forms
           /\ h.funcs.adiv5 \in {"v1", "v3"} => Addressed(h, c).dev = c.dev
           /\ h.funcs.adiv5 \notin {"v1", "v3"} => Addressed(h, c).dev = 0
<1>0. c.dev \in Devs
  BY DEF CallSet
<1>1. h.funcs.adiv5 = "v1" => Addressed(h, c) = remote_v1_adiv5_access(c)
  BY Zenon DEF Addressed
<1>2. h.funcs.adiv5 = "v3" => Addressed(h, c) = remote_v3_adiv5_access(c)
  BY Zenon DEF Addressed
<1>3. h.funcs.adiv5 \notin {"v1", "v3"} => Addressed(h, c) = remote_v0_adiv5_access(c)
  BY Zenon DEF Addressed
<1>4. CASE h.funcs.adiv5 = "v1"
  <2>1. Addressed(h, c).dev = c.dev /\ Addressed(h, c).form = "v1"
    BY <1>1, <1>4 DEF remote_v1_adiv5_access
  <2> QED
    BY <1>0, <1>4, <2>1 DEF Forms
<1>5. CASE h.funcs.adiv5 = "v3"
  <2>1. Addressed(h, c).dev = c.dev /\ Addressed(h, c).form = "v3"
    BY <1>2, <1>5 DEF remote_v3_adiv5_access
  <2> QED
    BY <1>0, <1>5, <2>1 DEF Forms
<1>6. CASE h.funcs.adiv5 \notin {"v1", "v3"}
  <2>1. Addressed(h, c).dev = 0 /\ Addressed(h, c).form = "v0"
    BY <1>3, <1>6 DEF remote_v0_adiv5_access
  <2> QED
    BY <1>6, <2>1 DEF Devs, Forms
<1> QED
  BY <1>4, <1>5, <1>6

\* A request depends on the application's tables only, besides its number.
LEMMA SameTables ==
    ASSUME NEW h, NEW g, NEW c, h.funcs = g.funcs
    PROVE  /\ Amount(h, c) = Amount(g, c) /\ Letter(h, c) = Letter(g, c)
           /\ Addressed(h, c) = Addressed(g, c)
<1>1. Amount(h, c) = Amount(g, c)
  BY ZenonT(60) DEF Amount
<1>2. Letter(h, c) = Letter(g, c)
  BY <1>1, Zenon DEF Letter
<1>3. Addressed(h, c) = Addressed(g, c)
  BY Zenon DEF Addressed
<1> QED
  BY <1>1, <1>2, <1>3

\* Every request is well formed and short enough for the probe not to drop it.
LEMMA RequestFits ==
    ASSUME NEW h \in AppSet, NEW c, Underway(h, c)
    PROVE  /\ RequestOf(h, c) \in RequestSet /\ Contained(RequestOf(h, c)) /\ RequestOf(h, c).size <= MaxMsg
           /\ RequestOf(h, c).n = h.sent + 1
           /\ RequestOf(h, c).op = Letter(h, c) /\ RequestOf(h, c).dev = Addressed(h, c).dev
           /\ RequestOf(h, c).addr = c.addr + c.off /\ RequestOf(h, c).len = Amount(h, c)
           /\ RequestOf(h, c).from = c.off /\ (c.op = "shift" => RequestOf(h, c).size = 6)
<1> DEFINE r == RequestOf(h, c)
           m == Amount(h, c)
<1>1. c \in CallSet /\ c.size <= 30 /\ h.sent \in Nat
  BY DEF Underway, AppSet
<1>2. /\ c.op \in Ops /\ c.addr \in Nat /\ c.off \in Nat /\ c.len \in Nat /\ c.align \in 0 .. 3 /\ c.size \in Nat
  BY <1>1 DEF CallSet
<1>3. m \in Nat /\ (c.op \in Blocks => c.off + m <= c.len)
      /\ (c.op = "mem_write" => WriteHead - 2 + 2 * m <= MaxMsg /\ m % 2^c.align = 0)
  BY AmountFits
<1>4. Letter(h, c) \in Ops /\ (Letter(h, c) \in MemOps => Letter(h, c) = c.op)
  <2>1. CASE c.op = "shift"
    <3>1. Letter(h, c) \in {"JD", "Jd"}
      BY <2>1, LetterCases, Zenon
    <3> QED
      BY <3>1 DEF MemOps, Ops, Jtag
  <2>2. CASE c.op = "cycle"
    <3>1. Letter(h, c) \in {"Jc", "JN"}
      BY <2>2, LetterCases, Zenon
    <3> QED
      BY <3>1 DEF MemOps, Ops, Jtag
  <2>3. CASE c.op \notin {"shift", "cycle"}
    BY <1>2, <2>3, LetterCases, Zenon
  <2> QED
    BY <2>1, <2>2, <2>3
<1>5. Addressed(h, c).dev \in Devs /\ Addressed(h, c).form \in Forms
  BY <1>1, AddressedIs
<1>6. r = [op |-> Letter(h, c), form |-> Addressed(h, c).form, dev |-> Addressed(h, c).dev,
           addr |-> c.addr + c.off, len |-> m, from |-> c.off, align |-> c.align, n |-> h.sent + 1,
           size |-> IF c.op = "mem_write" THEN WriteHead - 2 + 2 * m ELSE c.size]
  BY DEF RequestOf
<1> HIDE DEF r, m
<1>7. r \in RequestSet
  <2>1. (IF c.op = "mem_write" THEN WriteHead - 2 + 2 * m ELSE c.size) \in Nat
    BY <1>2, <1>3, MessageAssumption
  <2>2. c.addr + c.off \in Nat /\ h.sent + 1 \in Nat
    BY <1>1, <1>2
  <2> QED
    BY <1>2, <1>3, <1>4, <1>5, <1>6, <2>1, <2>2 DEF RequestSet
<1>8. r.size <= MaxMsg
  BY <1>1, <1>2, <1>3, <1>6, MessageAssumption
<1>9. Contained(r)
  <2>1. ASSUME r.op \in MemOps
        PROVE  r.from <= r.addr /\ r.addr + r.len <= MaxAddr
    <3>1. c.op \in MemOps
      BY <1>4, <1>6, <2>1
    <3>2. c.addr + c.len <= MaxAddr
      BY <3>1 DEF Underway
    <3> QED
      BY <1>2, <1>3, <1>6, <3>1, <3>2, BoundAssumption DEF Blocks
  <2>2. ASSUME r.op = "mem_write"
        PROVE  r.addr % 2^r.align = 0 /\ r.len % 2^r.align = 0
    <3>1. c.op = "mem_write"
      BY <1>4, <1>6, <2>2 DEF MemOps
    <3>2. c.addr % 2^c.align = 0 /\ c.off % 2^c.align = 0
      BY <3>1 DEF Underway, MemOps
    <3>3. (c.addr + c.off) % 2^c.align = 0
      BY <1>2, <3>2, Multiples, Zenon
    <3> QED
      BY <1>3, <1>6, <3>1, <3>3
  <2> QED
    BY <2>1, <2>2 DEF Contained
<1>10. r.n = h.sent + 1 /\ r.op = Letter(h, c) /\ r.dev = Addressed(h, c).dev
  BY <1>6
<1>11. r.addr = c.addr + c.off /\ r.len = m /\ r.from = c.off /\ (c.op = "shift" => r.size = 6)
  <2>1. c.op = "shift" => c.size = 6
    BY DEF Underway
  <2> QED
    BY <1>6, <2>1
<1> QED
  BY <1>7, <1>8, <1>9, <1>10, <1>11 DEF r, m

LEMMA AskIs ==
    ASSUME NEW h \in AppSet, NEW c, Underway(h, c), Ask(h, c)
    PROVE  /\ app' \in AppSet /\ app'.funcs = h.funcs /\ app'.fault = h.fault /\ app'.sent = h.sent + 1
           /\ call' = c /\ Waiting' /\ req' = Append(req, RequestOf(h, c))
           /\ Underway(app', c) /\ Asked(RequestOf(h, c))'
<1>1. app' = [h EXCEPT !.sent = @ + 1] /\ call' = c /\ req' = Append(req, RequestOf(h, c))
  BY RequestFits DEF Ask
<1>2. app' \in AppSet /\ app'.funcs = h.funcs /\ app'.sent = h.sent + 1 /\ app'.fault = h.fault
  BY <1>1 DEF AppSet
<1>3. Waiting' /\ Underway(app', c)
  BY <1>1, <1>2 DEF Underway, Waiting
<1>4. Asked(RequestOf(h, c))'
  <2>1. Amount(app', c) = Amount(h, c) /\ Letter(app', c) = Letter(h, c) /\ Addressed(app', c) = Addressed(h, c)
    BY <1>2, SameTables
  <2>2. RequestOf(h, c)' = RequestOf(h, c)
    OBVIOUS
  <2> QED
    BY <1>1, <2>1, RequestFits DEF Asked
<1> QED
  BY <1>1, <1>2, <1>3, <1>4

-----------------------------------------------------------------------------
(* What the probe makes of a request.                                      *)

ReplySet == [code : Codes, err : Nat, fault : Faults, val : Seq(Int), did : BOOLEAN]
ServedSet == [a : ReplySet, p : ProbeSet, t : TargetSet]

LEMMA CodesDiffer == OK = "K" /\ PARERR = "P" /\ ERR = "E" /\ NOTSUP = "N"
BY DEF OK, PARERR, ERR, NOTSUP

LEMMA Responds ==
    ASSUME probe \in ProbeSet, target \in TargetSet, NEW code \in Codes, NEW err \in Nat, NEW val \in Seq(Int)
    PROVE  /\ Served(Answer(code, err, val)) \in ServedSet
           /\ Served(Answer(code, err, val)).a = [code |-> code, err |-> err, fault |-> 0, val |-> val, did |-> TRUE]
           /\ Served(Answer(code, err, val)).p = probe /\ Served(Answer(code, err, val)).t = target
<1>1. Answer(code, err, val) \in ReplySet
  BY DEF Answer, ReplySet, Faults
<1> QED
  BY <1>1 DEF Served, ServedSet, Answer

LEMMA RespondIs ==
    ASSUME probe \in ProbeSet, target \in TargetSet, NEW code \in Codes, NEW err \in Nat
    PROVE  /\ remote_respond(code, err) \in ServedSet
           /\ remote_respond(code, err).a.code = code /\ remote_respond(code, err).a.err = err
           /\ remote_respond(code, err).a.did
           /\ remote_respond(code, err).p = probe /\ remote_respond(code, err).t = target
<1>0. <<0>> \in Seq(Int)
  OBVIOUS
<1>1. PICK v \in Seq(Int) : v = <<0>>
  BY <1>0, Zenon
<1>2. remote_respond(code, err) = Served(Answer(code, err, v))
  BY <1>1 DEF remote_respond
<1>3. /\ remote_respond(code, err) \in ServedSet
      /\ remote_respond(code, err).a = [code |-> code, err |-> err, fault |-> 0, val |-> v, did |-> TRUE]
      /\ remote_respond(code, err).p = probe /\ remote_respond(code, err).t = target
  <2>1. /\ Served(Answer(code, err, v)) \in ServedSet
        /\ Served(Answer(code, err, v)).a = [code |-> code, err |-> err, fault |-> 0, val |-> v, did |-> TRUE]
        /\ Served(Answer(code, err, v)).p = probe /\ Served(Answer(code, err, v)).t = target
    BY Responds
  <2> QED
    BY <1>2, <2>1, Zenon
<1> QED
  BY <1>3

\* Errors as numbers, and the codes among the codes.
LEMMA Errors ==
    /\ UNRECOGNISED \in Nat /\ WRONGLEN \in Nat /\ FAULT \in Nat /\ EXCEPTION \in Nat
    /\ OK \in Codes /\ PARERR \in Codes /\ ERR \in Codes /\ NOTSUP \in Codes /\ WAIT \in Faults /\ NO_RESPONSE \in Faults
    /\ WAIT # 0 /\ NO_RESPONSE # 0
BY DEF UNRECOGNISED, WRONGLEN, FAULT, EXCEPTION, Codes, Faults, WAIT, NO_RESPONSE

\* A handler that leaves memory and TAP alone.
Harmless(s) == s \in ServedSet /\ s.t.mem = target.mem /\ s.t.tap = target.tap

LEMMA SwdHarmless ==
    ASSUME probe \in ProbeSet, target \in TargetSet, NEW r, NEW o
    PROVE  Harmless(remote_packet_process_swd(r, o))
<1> DEFINE s == remote_respond(OK, 0)
<1>1. s \in ServedSet /\ s.p = probe /\ s.t = target
  BY RespondIs, Errors
<1>2. Harmless(s)
  BY <1>1 DEF Harmless
<1>3. Harmless([s EXCEPT !.p.iface = "swd"])
  <2> HIDE DEF s
  <2> QED
    BY <1>1 DEF Harmless, ServedSet, ProbeSet
<1>4. Harmless(remote_respond(ERR, WRONGLEN)) /\ Harmless(remote_respond(PARERR, 0))
  BY RespondIs, Errors DEF Harmless
<1>5. \/ remote_packet_process_swd(r, o) \in {s, [s EXCEPT !.p.iface = "swd"]}
      \/ remote_packet_process_swd(r, o) \in {remote_respond(ERR, WRONGLEN), remote_respond(PARERR, 0)}
  BY Zenon DEF remote_packet_process_swd, s
<1> QED
  BY <1>2, <1>3, <1>4, <1>5

LEMMA GeneralHarmless ==
    ASSUME probe \in ProbeSet, target \in TargetSet, NEW r \in RequestSet
    PROVE  Harmless(remote_packet_process_general(r))
<1> DEFINE s == remote_respond(OK, 0)
<1>1. s \in ServedSet /\ s.p = probe /\ s.t = target
  BY RespondIs, Errors
<1>2. Harmless(s)
  BY <1>1 DEF Harmless
<1>3. Harmless([s EXCEPT !.t.nrst = r.len])
  <2> HIDE DEF s
  <2> QED
    BY <1>1 DEF Harmless, ServedSet, TargetSet, RequestSet
<1>4. Harmless(remote_respond(NOTSUP, 0))
  BY RespondIs, Errors DEF Harmless
<1>5. Harmless(remote_respond_buf(<<target.nrst>>))
  <2>1. <<target.nrst>> \in Seq(Int)
    BY DEF TargetSet
  <2> QED
    BY <2>1, Responds, Errors DEF Harmless, remote_respond_buf
<1>6. \/ remote_packet_process_general(r) \in {s, [s EXCEPT !.t.nrst = r.len]}
      \/ remote_packet_process_general(r) \in {remote_respond(NOTSUP, 0), remote_respond_buf(<<target.nrst>>)}
  BY Zenon DEF remote_packet_process_general, s
<1> QED
  BY <1>2, <1>3, <1>4, <1>5, <1>6

LEMMA HighLevelHarmless ==
    ASSUME probe \in ProbeSet, target \in TargetSet, NEW r \in RequestSet
    PROVE  Harmless(remote_packet_process_high_level(r))
<1> DEFINE s == remote_respond(OK, 0)
           e == [s EXCEPT !.p.devs = AddDevice(@, r.dev)]
<1>1. s \in ServedSet /\ s.p = probe /\ s.t = target
  BY RespondIs, Errors
<1>2. AddDevice(s.p.devs, r.dev) \in SUBSET Devs
  <2>1. s.p.devs \subseteq Devs /\ r.dev \in Devs
    BY <1>1 DEF ProbeSet, RequestSet
  <2> QED
    BY <2>1 DEF AddDevice
<1>3. Harmless(e)
  <2> HIDE DEF s
  <2> QED
    BY <1>1, <1>2 DEF Harmless, ServedSet, ProbeSet
<1>4. Harmless(remote_respond(ERR, WRONGLEN))
  BY RespondIs, Errors DEF Harmless
<1>5. Harmless(remote_respond_buf(<<HlVersion(probe.version)>>))
  <2>1. HlVersion(probe.version) \in {0, 1, 2, 3, 4}
    BY Zenon DEF HlVersion
  <2>2. <<HlVersion(probe.version)>> \in Seq(Int)
    BY <2>1
  <2> QED
    BY <2>2, Responds, Errors DEF Harmless, remote_respond_buf
<1>6. \/ remote_packet_process_high_level(r) \in {e, remote_respond(ERR, WRONGLEN)}
      \/ remote_packet_process_high_level(r) = remote_respond_buf(<<HlVersion(probe.version)>>)
  BY Zenon DEF remote_packet_process_high_level
<1> QED
  BY <1>3, <1>4, <1>5, <1>6

LEMMA SpiHarmless ==
    ASSUME probe \in ProbeSet, target \in TargetSet, NEW r
    PROVE  Harmless(remote_packet_process_spi(r))
<1>1. /\ Harmless(remote_respond(PARERR, 0)) /\ Harmless(remote_respond(ERR, FAULT))
      /\ Harmless(remote_respond(OK, 0))
  BY RespondIs, Errors DEF Harmless
<1>2. remote_packet_process_spi(r) \in {remote_respond(PARERR, 0), remote_respond(ERR, FAULT), remote_respond(OK, 0)}
  BY Zenon DEF remote_packet_process_spi
<1> QED
  BY <1>1, <1>2

LEMMA ClockedIs ==
    ASSUME NEW r \in RequestSet, NEW tms \in BOOLEAN
    PROVE  /\ Clocked(r, tms) \in Seq(Nat \X BOOLEAN) /\ Len(Clocked(r, tms)) = r.len
           /\ \A i \in 1 .. r.len : Clocked(r, tms)[i] = <<r.from + i, tms /\ i = r.len>>
<1>1. r.len \in Nat /\ r.from \in Nat
  BY DEF RequestSet
<1> DEFINE S == Nat \X BOOLEAN
           e(i) == <<r.from + i, tms /\ i = r.len>>
           f == [i \in 1 .. r.len |-> e(i)]
<1>2. ASSUME NEW i \in 1 .. r.len
      PROVE  e(i) \in S
  <2>1. r.from + i \in Nat
    BY <1>1
  <2> QED
    BY <2>1
<1>3. f = Clocked(r, tms)
  BY DEF Clocked
<1>4. f \in Seq(S) /\ Len(f) = r.len /\ \A i \in 1 .. r.len : f[i] = e(i)
  <2> HIDE DEF e, S
  <2> QED
    BY <1>1, <1>2
<1> QED
  BY <1>3, <1>4

LEMMA TapIs ==
    ASSUME target \in TargetSet, NEW r \in RequestSet, NEW tms \in BOOLEAN
    PROVE  /\ Tap(r, tms) \in TargetSet /\ Tap(r, tms).mem = target.mem
           /\ Tap(r, tms).tap = IF r.from = 0 THEN Clocked(r, tms) ELSE target.tap \o Clocked(r, tms)
<1> DEFINE k == Clocked(r, tms)
           u == IF r.from = 0 THEN k ELSE target.tap \o k
<1>1. target.tap \in Seq(Nat \X BOOLEAN) /\ k \in Seq(Nat \X BOOLEAN)
  BY ClockedIs DEF TargetSet
<1>2. u \in Seq(Nat \X BOOLEAN)
  <2> HIDE DEF k
  <2> QED
    BY <1>1
<1>3. Tap(r, tms) = [target EXCEPT !.tap = u]
  BY DEF Tap
<1> HIDE DEF u
<1>4. Tap(r, tms) \in TargetSet /\ Tap(r, tms).mem = target.mem /\ Tap(r, tms).tap = u
  BY <1>2, <1>3 DEF TargetSet
<1> QED
  BY <1>4 DEF u

\* A request that shifts clocks exactly its cycles and answers with their TDO bits.
LEMMA JtagServed ==
    ASSUME probe \in ProbeSet, target \in TargetSet, NEW r \in RequestSet
    PROVE  /\ remote_packet_process_jtag(r) \in ServedSet /\ remote_packet_process_jtag(r).t.mem = target.mem
           /\ r.op \in {"JD", "Jd"} /\ r.size = 6 =>
                /\ remote_packet_process_jtag(r).a.code = OK
                /\ remote_packet_process_jtag(r).a.val = [i \in 1 .. r.len |-> Payload(r.from + i)]
                /\ remote_packet_process_jtag(r).t.tap = Tap(r, r.op = "JD").tap
<1> DEFINE j == remote_packet_process_jtag(r)
           s == remote_respond(OK, 0)
           v == [i \in 1 .. r.len |-> Payload(r.from + i)]
           b == remote_respond_buf(v)
           d == [b EXCEPT !.t = Tap(r, r.op = "JD")]
           n == [s EXCEPT !.t = Tap(r, FALSE)]
           i == [s EXCEPT !.p.iface = "jtag"]
           m == [s EXCEPT !.t.tap = Moved]
           e == remote_respond(ERR, WRONGLEN)
<1>1. s \in ServedSet /\ s.p = probe /\ s.t = target /\ e \in ServedSet /\ e.t = target
  BY RespondIs, Errors
<1>2. v \in Seq(Int)
  BY DEF Payload, RequestSet
<1>3. b \in ServedSet /\ b.a.code = OK /\ b.a.val = v
  <2> HIDE DEF v
  <2>1. b = Served(Answer(OK, 0, v))
    BY DEF remote_respond_buf
  <2>2. b \in ServedSet /\ b.a = [code |-> OK, err |-> 0, fault |-> 0, val |-> v, did |-> TRUE]
    BY <1>2, <2>1, Responds, Errors, Zenon
  <2> HIDE DEF b
  <2> QED
    BY <2>2
<1>4. /\ Tap(r, r.op = "JD") \in TargetSet /\ Tap(r, FALSE) \in TargetSet
      /\ Tap(r, r.op = "JD").mem = target.mem /\ Tap(r, FALSE).mem = target.mem
  BY TapIs
<1>5. d \in ServedSet /\ d.t.mem = target.mem /\ d.a.code = OK /\ d.a.val = v /\ d.t.tap = Tap(r, r.op = "JD").tap
  <2> HIDE DEF b, v
  <2> QED
    BY <1>3, <1>4 DEF ServedSet
<1>6. n \in ServedSet /\ n.t.mem = target.mem
  <2> HIDE DEF s
  <2> QED
    BY <1>1, <1>4 DEF ServedSet
<1>7. i \in ServedSet /\ i.t.mem = target.mem
  <2> HIDE DEF s
  <2> QED
    BY <1>1 DEF ServedSet, ProbeSet
<1>8. m \in ServedSet /\ m.t.mem = target.mem
  <2>1. Moved \in Seq(Nat \X BOOLEAN)
    <3>1. <<0, TRUE>> \in Nat \X BOOLEAN
      OBVIOUS
    <3> DEFINE x == <<0, TRUE>>
               S == Nat \X BOOLEAN
    <3>2. <<x>> \in Seq(S)
      <4> HIDE DEF x, S
      <4>1. x \in S
        BY <3>1 DEF x, S
      <4> QED
        BY <4>1
    <3> QED
      BY <3>2 DEF Moved
  <2> HIDE DEF s
  <2> QED
    BY <1>1, <2>1 DEF ServedSet, TargetSet
<1>9. j \in {e, i, d, n, m}
  BY Zenon DEF remote_packet_process_jtag
<1>10. ASSUME r.op \in {"JD", "Jd"}, r.size = 6
       PROVE  j = d
  <2>1. ~ShortJtag(r) /\ r.op # "JS" /\ r.op \notin {"JN", "Jc"}
    BY <1>10 DEF ShortJtag
  <2> QED
    BY <1>10, <2>1, Zenon DEF remote_packet_process_jtag
<1> HIDE DEF j, e, i, d, n, m
<1>11. j \in ServedSet /\ j.t.mem = target.mem
  BY <1>1, <1>5, <1>6, <1>7, <1>8, <1>9
<1>12. r.op \in {"JD", "Jd"} /\ r.size = 6 => j.a.code = OK /\ j.a.val = v /\ j.t.tap = Tap(r, r.op = "JD").tap
  BY <1>5, <1>10
<1> QED
  BY <1>11, <1>12 DEF j, v

LEMMA FaultIs ==
    ASSUME probe \in ProbeSet, NEW r, NEW o
    PROVE  /\ Latched(r) \in Faults /\ FaultAfter(r, o) \in Faults
           /\ o \notin {"wait", "silent", "parity"} => FaultAfter(r, o) = Latched(r)
           /\ o \in {"wait", "silent", "parity"} => FaultAfter(r, o) # 0
           /\ FaultAfter(r, o) = 0 => Reached(r)
<1>1. Latched(r) \in Faults
  BY DEF Latched, ProbeSet, Faults
<1>2. /\ o = "wait" => FaultAfter(r, o) = WAIT
      /\ o = "silent" => FaultAfter(r, o) = NO_RESPONSE
      /\ o = "parity" => FaultAfter(r, o) = 1
      /\ o \notin {"wait", "silent", "parity"} => FaultAfter(r, o) = Latched(r)
  BY Zenon DEF FaultAfter
<1>3. /\ o \notin {"wait", "silent", "parity"} => FaultAfter(r, o) = Latched(r)
      /\ o \in {"wait", "silent", "parity"} => FaultAfter(r, o) # 0
      /\ FaultAfter(r, o) \in Faults
  BY <1>1, <1>2, Errors DEF Faults
<1> QED
  BY <1>1, <1>3 DEF Reached

\* A write puts its bytes where they belong and touches nothing else.
LEMMA WrittenIs ==
    ASSUME target \in TargetSet, Known(target), NEW r \in RequestSet, Contained(r), NEW k \in 0 .. r.len
    PROVE  /\ Written(r, k) \in TargetSet /\ Known(Written(r, k)) /\ Written(r, k).tap = target.tap
           /\ r.op # "mem_write" => Written(r, k) = target
           /\ \A d \in Devs, a \in Addrs :
                 d # r.dev \/ a < r.addr \/ a >= r.addr + k => Written(r, k).mem[d][a] = target.mem[d][a]
           /\ r.op = "mem_write" /\ Reached(r) =>
                 \A a \in Addrs : r.addr <= a /\ a < r.addr + k => Written(r, k).mem[r.dev][a] = Payload((r.from + (a - r.addr)) + 1)
<1> DEFINE w == Written(r, k)
           g == [a \in Addrs |-> IF a \in r.addr .. r.addr + k - 1
                                 THEN Payload(r.from + a - r.addr + 1) ELSE target.mem[r.dev][a]]
<1>1. CASE r.op # "mem_write" \/ ~Reached(r)
  <2>1. w = target
    BY <1>1 DEF Written
  <2> QED
    BY <1>1, <2>1
<1>2. CASE ~(r.op # "mem_write" \/ ~Reached(r))
  <2>1. w = [target EXCEPT !.mem[r.dev] = g]
    BY <1>2 DEF Written
  <2>2. r.dev \in Devs /\ r.addr \in Nat /\ r.len \in Nat /\ r.from \in Nat
    BY DEF RequestSet
  <2>3. r.from <= r.addr /\ r.addr + r.len <= MaxAddr
    BY <1>2 DEF Contained, MemOps
  <2>4. target.mem \in [Devs -> [Addrs -> Int]]
    BY DEF TargetSet
  <2>5. \A a \in Addrs : a \in 0 .. MaxAddr - 1
    BY DEF Addrs
  <2>6. /\ g \in [Addrs -> Int]
        /\ \A a \in Addrs : g[a] = IF r.addr <= a /\ a < r.addr + k THEN Payload((r.from + (a - r.addr)) + 1)
                                   ELSE target.mem[r.dev][a]
    BY <2>2, <2>4, <2>5, BoundAssumption DEF Payload
  <2> HIDE DEF g, w
  <2>7. w \in TargetSet /\ w.tap = target.tap /\ w.mem = [target.mem EXCEPT ![r.dev] = g]
    <3> DEFINE m == [target.mem EXCEPT ![r.dev] = g]
    <3>1. m \in [Devs -> [Addrs -> Int]]
      BY <2>2, <2>4, <2>6
    <3>2. w = [target EXCEPT !.mem = m]
      BY <2>1
    <3> HIDE DEF m
    <3>3. w \in TargetSet /\ w.tap = target.tap /\ w.mem = m
      BY <3>1, <3>2 DEF TargetSet
    <3> QED
      BY <3>3 DEF m
  <2>8. \A d \in Devs, a \in Addrs : w.mem[d][a] = IF d = r.dev THEN g[a] ELSE target.mem[d][a]
    BY <2>2, <2>4, <2>7
  <2>9. Known(w)
    <3> SUFFICES ASSUME NEW d \in Devs, NEW a \in Addrs
                 PROVE  w.mem[d][a] \in {Original(d, a)} \union (101 .. 100 + MaxAddr)
      BY DEF Known
    <3>1. target.mem[d][a] \in {Original(d, a)} \union (101 .. 100 + MaxAddr)
      BY DEF Known
    <3>2. CASE d = r.dev /\ r.addr <= a /\ a < r.addr + k
      <4>1. w.mem[d][a] = Payload((r.from + (a - r.addr)) + 1)
        BY <2>6, <2>8, <3>2
      <4>2. Payload((r.from + (a - r.addr)) + 1) \in 101 .. 100 + MaxAddr
        BY <2>2, <2>3, <2>5, <3>2, BoundAssumption DEF Payload
      <4> QED
        BY <4>1, <4>2
    <3>3. CASE ~(d = r.dev /\ r.addr <= a /\ a < r.addr + k)
      BY <2>6, <2>8, <3>1, <3>3
    <3> QED
      BY <3>2, <3>3
  <2>10. \A d \in Devs, a \in Addrs : d # r.dev \/ a < r.addr \/ a >= r.addr + k => w.mem[d][a] = target.mem[d][a]
    BY <2>2, <2>5, <2>6, <2>8
  <2>11. \A a \in Addrs : r.addr <= a /\ a < r.addr + k => w.mem[r.dev][a] = Payload((r.from + (a - r.addr)) + 1)
    BY <2>2, <2>6, <2>8
  <2> QED
    BY <1>2, <2>7, <2>9, <2>10, <2>11 DEF w
<1> QED
  BY <1>1, <1>2

LEMMA DataIs ==
    ASSUME target \in TargetSet, NEW r \in RequestSet, Contained(r)
    PROVE  /\ Data(r) \in Seq(Int)
           /\ r.op = "mem_read" => /\ Len(Data(r)) = r.len
                                   /\ \A i \in 1 .. r.len : Data(r)[i] = target.mem[r.dev][r.addr + i - 1]
<1>1. r.dev \in Devs /\ r.addr \in Nat /\ r.len \in Nat
  BY DEF RequestSet
<1>2. target.mem \in [Devs -> [Addrs -> Int]]
  BY DEF TargetSet
<1>3. CASE r.op = "mem_read"
  <2>1. Data(r) = [i \in 1 .. r.len |-> target.mem[r.dev][r.addr + i - 1]]
    BY <1>3, Zenon DEF Data
  <2>2. r.addr + r.len <= MaxAddr
    BY <1>3 DEF Contained, MemOps
  <2> DEFINE e(i) == target.mem[r.dev][r.addr + i - 1]
  <2>3. ASSUME NEW i \in 1 .. r.len
        PROVE  e(i) \in Int
    <3>1. r.addr + i - 1 \in Addrs
      BY <1>1, <2>2, BoundAssumption DEF Addrs
    <3>2. target.mem[r.dev] \in [Addrs -> Int]
      BY <1>1, <1>2
    <3> QED
      BY <3>1, <3>2
  <2>4. Data(r) = [i \in 1 .. r.len |-> e(i)]
    BY <2>1
  <2>5. Data(r) \in Seq(Int) /\ Len(Data(r)) = r.len /\ \A i \in 1 .. r.len : Data(r)[i] = e(i)
    <3> HIDE DEF e
    <3> QED
      BY <1>1, <2>3, <2>4
  <2> QED
    BY <2>5
<1>4. CASE r.op = "mem_write"
  <2>1. Data(r) = <<0>>
    BY <1>4, Zenon DEF Data
  <2> QED
    BY <1>4, <2>1
<1>5. CASE r.op \notin MemOps
  <2>1. Data(r) = <<Original(r.dev, 0)>>
    BY <1>5, Zenon DEF Data, MemOps
  <2>2. r.dev * MaxAddr \in Int
    <3>1. r.dev \in Int /\ MaxAddr \in Int
      BY <1>1, BoundAssumption DEF Devs
    <3> QED
      BY <3>1
  <2>3. Original(r.dev, 0) \in Int
    BY <2>2 DEF Original
  <2> QED
    BY <1>5, <2>1, <2>3 DEF MemOps
<1> QED
  BY <1>3, <1>4, <1>5 DEF MemOps

\* What every answered request keeps and tells.
Faithful(r, s) ==
    /\ s \in ServedSet /\ Known(s.t)
    /\ r.op \notin Jtag => s.t.tap = target.tap
    /\ \A d \in Devs, a \in Addrs :
          ~(r.op = "mem_write" /\ d = r.dev /\ r.addr <= a /\ a < r.addr + r.len) => s.t.mem[d][a] = target.mem[d][a]
    /\ r.op = "mem_read" /\ s.a.code = OK =>
          Len(s.a.val) = r.len /\ \A i \in 1 .. r.len : s.a.val[i] = target.mem[r.dev][r.addr + i - 1]
    /\ r.op = "mem_write" /\ s.a.code = OK =>
          \A a \in Addrs : r.addr <= a /\ a < r.addr + r.len => s.t.mem[r.dev][a] = Payload((r.from + (a - r.addr)) + 1)
    /\ r.op \in Adiv5 /\ ~s.a.did => s.a.code = ERR /\ (s.a.err = EXCEPTION \/ (s.a.err = FAULT /\ s.a.fault # 0))
    /\ r.op \in {"JD", "Jd"} /\ r.size = 6 =>
          /\ s.a.code = OK /\ s.a.val = [i \in 1 .. r.len |-> Payload(r.from + i)]
          /\ s.t.tap = Tap(r, r.op = "JD").tap

LEMMA Classes ==
    ASSUME NEW x
    PROVE  /\ x \in Swd => x \notin Jtag /\ x \notin General /\ x \notin {"HC", "HJ"} /\ x \notin Adiv5
           /\ x \in Jtag => x \notin Swd /\ x \notin General /\ x \notin {"HC", "HJ"} /\ x \notin Adiv5
           /\ x \in General => x \notin Swd /\ x \notin Jtag /\ x \notin {"HC", "HJ"} /\ x \notin Adiv5
           /\ x \in {"HC", "HJ"} => x \notin Swd /\ x \notin General /\ x \notin Jtag /\ x \notin Adiv5
           /\ x \in Adiv5 => x \notin Swd /\ x \notin General /\ x \notin Jtag /\ x \notin {"HC", "HJ"}
           /\ x \in MemOps => x \in Adiv5
           /\ x \in {"JD", "Jd"} => x \in Jtag
BY DEF Swd, Jtag, General, Adiv5, MemOps

LEMMA RefusedFaithful ==
    ASSUME probe \in ProbeSet, target \in TargetSet, Known(target), NEW r, r.op \notin {"JD", "Jd"},
           NEW code \in Codes, code # OK, NEW err \in Nat
    PROVE  Faithful(r, remote_respond(code, err))
<1> DEFINE s == remote_respond(code, err)
<1>1. s \in ServedSet /\ s.a.code = code /\ s.a.did /\ s.t = target
  BY RespondIs
<1> HIDE DEF s
<1>2. Faithful(r, s)
  BY <1>1 DEF Faithful
<1> QED
  BY <1>2 DEF s

LEMMA HarmlessFaithful ==
    ASSUME target \in TargetSet, Known(target), NEW r, r.op \notin Adiv5, r.op \notin {"JD", "Jd"},
           NEW s, Harmless(s)
    PROVE  Faithful(r, s)
<1>1. r.op # "mem_read" /\ r.op # "mem_write"
  BY DEF Adiv5
<1>2. s \in ServedSet /\ s.t.mem = target.mem /\ s.t.tap = target.tap
  BY DEF Harmless
<1>3. Known(s.t)
  BY <1>2 DEF Known
<1> QED
  BY <1>1, <1>2, <1>3 DEF Faithful

LEMMA AnswerIs ==
    ASSUME NEW code \in Codes, NEW err \in Nat, NEW val \in Seq(Int)
    PROVE  /\ Answer(code, err, val) \in ReplySet /\ Answer(code, err, val).code = code
           /\ Answer(code, err, val).err = err /\ Answer(code, err, val).val = val
BY DEF Answer, ReplySet, Faults

LEMMA EmptyAnswerIs ==
    ASSUME NEW code \in Codes, NEW err \in Nat
    PROVE  /\ Answer(code, err, <<0>>) \in ReplySet /\ Answer(code, err, <<0>>).code = code
           /\ Answer(code, err, <<0>>).err = err
<1> DEFINE v == <<0>>
<1>1. v \in Seq(Int)
  OBVIOUS
<1> HIDE DEF v
<1>2. /\ Answer(code, err, v) \in ReplySet /\ Answer(code, err, v).code = code
      /\ Answer(code, err, v).err = err
  BY <1>1, AnswerIs
<1> QED
  BY <1>2 DEF v

LEMMA FaultSet ==
    ASSUME NEW a \in ReplySet, NEW f \in Faults
    PROVE  /\ [a EXCEPT !.fault = f] \in ReplySet /\ [a EXCEPT !.fault = f].code = a.code
           /\ [a EXCEPT !.fault = f].err = a.err /\ [a EXCEPT !.fault = f].fault = f
BY DEF ReplySet

LEMMA DidSet ==
    ASSUME NEW a \in ReplySet, NEW q \in BOOLEAN
    PROVE  /\ [a EXCEPT !.did = q] \in ReplySet /\ [a EXCEPT !.did = q].code = a.code
           /\ [a EXCEPT !.did = q].err = a.err /\ [a EXCEPT !.did = q].fault = a.fault
           /\ [a EXCEPT !.did = q].val = a.val /\ [a EXCEPT !.did = q].did = q
BY DEF ReplySet

\* An access to a debug port: it is made and its data comes back, or the fault is told.
LEMMA Adiv5Faithful ==
    ASSUME probe \in ProbeSet, target \in TargetSet, Known(target), NEW r \in RequestSet, r.op \in Adiv5, Contained(r),
           NEW o \in {"ok", "wait", "silent", "parity", "raise"}, NEW k \in 0 .. r.len
    PROVE  Faithful(r, remote_packet_process_adiv5(r, o, k))
<1> DEFINE refused == remote_respond(PARERR, 0)
           n == IF o = "ok" THEN r.len ELSE k
           F == FaultAfter(r, o)
           x == [Answer(ERR, EXCEPTION, <<0>>) EXCEPT !.did = FALSE]
           y == [remote_adiv5_respond(F, Data(r)) EXCEPT !.did = Reached(r) /\ o = "ok"]
           made == [a |-> IF o \in {"raise", "parity"} THEN x ELSE y, p |-> [probe EXCEPT !.fault = F], t |-> Written(r, n)]
<1>1. r.op \notin {"JD", "Jd"} /\ r.op \notin Jtag
  BY DEF Adiv5, Jtag
<1>2. Faithful(r, refused)
  BY <1>1, RefusedFaithful, Errors DEF PARERR, OK
<1>3. remote_packet_process_adiv5(r, o, k) \in {refused, made}
  BY Zenon DEF remote_packet_process_adiv5
<1>4. Faithful(r, made)
  <2>1. n \in 0 .. r.len /\ r.len \in Nat
    BY DEF RequestSet
  <2>2. x \in ReplySet /\ x.code = ERR /\ x.err = EXCEPTION
    <3>2. /\ Answer(ERR, EXCEPTION, <<0>>) \in ReplySet /\ Answer(ERR, EXCEPTION, <<0>>).code = ERR
          /\ Answer(ERR, EXCEPTION, <<0>>).err = EXCEPTION
      BY EmptyAnswerIs, Errors
    <3> QED
      BY <3>2, DidSet
  <2>3. F \in Faults /\ (F = 0 => Reached(r) /\ o \notin {"wait", "silent", "parity"})
    BY FaultIs
  <2>4. Data(r) \in Seq(Int)
    BY DataIs
  <2>5. Reached(r) \in BOOLEAN
    BY DEF Reached
  <2> HIDE DEF F
  <2>6. /\ y \in ReplySet /\ y.did = (Reached(r) /\ o = "ok")
        /\ F # 0 => y.code = ERR /\ y.err = FAULT /\ y.fault = F
        /\ F = 0 => y.code = OK /\ y.val = Data(r)
    <3> DEFINE q == Reached(r) /\ o = "ok"
               z == remote_adiv5_respond(F, Data(r))
    <3>0. q \in BOOLEAN /\ <<0>> \in Seq(Int) /\ 0 \in Nat
      BY <2>5
    <3>1. z \in ReplySet /\ (F # 0 => z.code = ERR /\ z.err = FAULT /\ z.fault = F) /\ (F = 0 => z.code = OK /\ z.val = Data(r))
      <4>1. CASE F # 0
        <5>1. z = [Answer(ERR, FAULT, <<0>>) EXCEPT !.fault = F]
          BY <4>1 DEF remote_adiv5_respond
        <5>2. /\ Answer(ERR, FAULT, <<0>>) \in ReplySet /\ Answer(ERR, FAULT, <<0>>).code = ERR
              /\ Answer(ERR, FAULT, <<0>>).err = FAULT
          BY EmptyAnswerIs, Errors
        <5>3. z \in ReplySet /\ z.code = ERR /\ z.err = FAULT /\ z.fault = F
          <6> HIDE DEF z
          <6> QED
            BY <2>3, <5>1, <5>2, FaultSet
        <5> QED
          BY <4>1, <5>3, Zenon
      <4>2. CASE F = 0
        <5>1. z = Answer(OK, 0, Data(r))
          BY <4>2 DEF remote_adiv5_respond
        <5>2. z \in ReplySet /\ z.code = OK /\ z.val = Data(r)
          <6> HIDE DEF z
          <6> QED
            BY <2>4, <5>1, AnswerIs, Errors
        <5> QED
          BY <4>2, <5>2, Zenon
      <4> QED
        BY <4>1, <4>2
    <3>2. /\ y \in ReplySet /\ y.code = z.code /\ y.err = z.err /\ y.fault = z.fault /\ y.val = z.val /\ y.did = q
      <4> HIDE DEF q, z
      <4>1. y = [z EXCEPT !.did = q]
        BY DEF q, z
      <4>2. /\ [z EXCEPT !.did = q] \in ReplySet /\ [z EXCEPT !.did = q].code = z.code
            /\ [z EXCEPT !.did = q].err = z.err /\ [z EXCEPT !.did = q].fault = z.fault
            /\ [z EXCEPT !.did = q].val = z.val /\ [z EXCEPT !.did = q].did = q
        BY <3>0, <3>1, DidSet
      <4> HIDE DEF y
      <4> QED
        BY <4>1, <4>2, Zenon
    <3> HIDE DEF z, y
    <3> QED
      BY <3>1, <3>2
  <2>7. [probe EXCEPT !.fault = F] \in ProbeSet
    BY <2>3 DEF ProbeSet
  <2>8. Written(r, n) \in TargetSet /\ Known(Written(r, n)) /\ Written(r, n).tap = target.tap
    BY <2>1, WrittenIs
  <2>9. \A d \in Devs, a \in Addrs :
          ~(r.op = "mem_write" /\ d = r.dev /\ r.addr <= a /\ a < r.addr + r.len) => Written(r, n).mem[d][a] = target.mem[d][a]
    <3>1. CASE r.op # "mem_write"
      BY <2>1, <3>1, WrittenIs
    <3>2. CASE r.op = "mem_write"
      <4>1. \A d \in Devs, a \in Addrs :
              d # r.dev \/ a < r.addr \/ a >= r.addr + n => Written(r, n).mem[d][a] = target.mem[d][a]
        BY <2>1, WrittenIs
      <4>2. r.addr \in Nat /\ Addrs \subseteq Int
        BY BoundAssumption DEF RequestSet, Addrs
      <4> HIDE DEF n
      <4> QED
        BY <2>1, <3>2, <4>1, <4>2
    <3> QED
      BY <3>1, <3>2
  <2> DEFINE b == IF o \in {"raise", "parity"} THEN x ELSE y
  <2> HIDE DEF x, y
  <2>10. b \in ReplySet
    BY <2>2, <2>6
  <2>11. made.a = b /\ made.t = Written(r, n) /\ made \in ServedSet
    <3> HIDE DEF b, n
    <3>1. made = [a |-> b, p |-> [probe EXCEPT !.fault = F], t |-> Written(r, n)]
      BY DEF b
    <3> QED
      BY <2>7, <2>8, <2>10, <3>1 DEF ServedSet
  <2>12. b.code = OK => b = y /\ F = 0 /\ o = "ok" /\ Reached(r) /\ y.val = Data(r)
    BY <2>2, <2>3, <2>6, Errors, CodesDiffer
  <2>13. ~b.did => b.code = ERR /\ (b.err = EXCEPTION \/ (b.err = FAULT /\ b.fault # 0))
    <3>1. CASE o \in {"raise", "parity"}
      BY <2>2, <3>1
    <3>2. CASE o \notin {"raise", "parity"} /\ F # 0
      BY <2>6, <3>2
    <3>3. CASE o \notin {"raise", "parity"} /\ F = 0
      BY <2>3, <2>6, <3>3
    <3> QED
      BY <3>1, <3>2, <3>3
  <2>14. r.op = "mem_read" /\ b.code = OK =>
           Len(b.val) = r.len /\ \A i \in 1 .. r.len : b.val[i] = target.mem[r.dev][r.addr + i - 1]
    BY <2>12, DataIs
  <2>15. r.op = "mem_write" /\ b.code = OK =>
           \A a \in Addrs : r.addr <= a /\ a < r.addr + r.len => Written(r, n).mem[r.dev][a] = Payload((r.from + (a - r.addr)) + 1)
    <3> SUFFICES ASSUME r.op = "mem_write", b.code = OK
                 PROVE  \A a \in Addrs : r.addr <= a /\ a < r.addr + r.len
                            => Written(r, n).mem[r.dev][a] = Payload((r.from + (a - r.addr)) + 1)
      OBVIOUS
    <3>1. n = r.len /\ Reached(r)
      BY <2>12
    <3> QED
      BY <2>1, <3>1, WrittenIs
  <2> HIDE DEF b, n, made
  <2> QED
    BY <1>1, <2>8, <2>9, <2>11, <2>13, <2>14, <2>15 DEF Faithful
<1> QED
  BY <1>2, <1>3, <1>4

\* Firmware of every version serves the shifts.
LEMMA ServesShifts ==
    ASSUME NEW v, NEW x \in {"JD", "Jd"}
    PROVE  x \in Serves(v)
<1>1. x \in Old /\ x \in Jtag
  BY DEF Old, Jtag
<1>2. Serves(v) \in {Old, Old \union {"HC"} \union Adiv5, Old \union {"HC", "HJ"} \union Adiv5,
                     Swd \union Jtag \union General \union {"HC", "HJ"} \union Adiv5,
                     Swd \union Jtag \union General \union {"HC", "HJ"} \union Adiv5 \union Spi}
  BY Zenon DEF Serves
<1> QED
  BY <1>1, <1>2

LEMMA ResultFaithful ==
    ASSUME probe \in ProbeSet, target \in TargetSet, Known(target), NEW r \in RequestSet, Contained(r),
           NEW o \in {"ok", "wait", "silent", "parity", "raise"}, NEW k \in 0 .. r.len
    PROVE  Faithful(r, Result(r, o, k))
<1> DEFINE unserved == r.op \notin Serves(probe.version) \/ (r.op \in Adiv5 /\ r.form # Form(probe.version))
<1>0. ERR \in Codes /\ ERR # OK /\ UNRECOGNISED \in Nat
  BY Errors, CodesDiffer
<1>1. CASE unserved
  <2>1. Result(r, o, k) = remote_respond(ERR, UNRECOGNISED)
    <3>1. r.op \in Adiv5 => r.op \notin Swd /\ r.op \notin General /\ r.op \notin Jtag /\ r.op \notin {"HC", "HJ"}
      BY Classes
    <3> QED
      BY <1>1, <3>1, Zenon DEF Result
  <2>2. r.op \notin {"JD", "Jd"}
    BY <1>1, ServesShifts DEF Adiv5
  <2> QED
    BY <1>0, <2>1, <2>2, RefusedFaithful
<1>2. CASE ~unserved /\ r.op \in Swd
  <2>1. r.op \notin Jtag /\ r.op \notin General /\ r.op \notin {"HC", "HJ"} /\ r.op \notin Adiv5 /\ r.op \notin {"JD", "Jd"}
    BY <1>2, Classes DEF Jtag
  <2>2. Result(r, o, k) = remote_packet_process_swd(r, o)
    BY <1>2, <2>1, Zenon DEF Result
  <2> QED
    BY <2>1, <2>2, SwdHarmless, HarmlessFaithful
<1>3. CASE ~unserved /\ r.op \in Jtag
  <2>1. r.op \notin Swd /\ r.op \notin General /\ r.op \notin {"HC", "HJ"} /\ r.op \notin Adiv5
    BY <1>3, Classes
  <2>2. Result(r, o, k) = remote_packet_process_jtag(r)
    BY <1>3, <2>1, Zenon DEF Result
  <2> DEFINE j == remote_packet_process_jtag(r)
  <2>3. /\ j \in ServedSet /\ j.t.mem = target.mem
        /\ r.op \in {"JD", "Jd"} /\ r.size = 6 =>
             j.a.code = OK /\ j.a.val = [i \in 1 .. r.len |-> Payload(r.from + i)] /\ j.t.tap = Tap(r, r.op = "JD").tap
    BY JtagServed
  <2> HIDE DEF j
  <2>4. Known(j.t) /\ r.op \notin MemOps
    BY <1>3, <2>3 DEF Known, Jtag, MemOps
  <2>5. Faithful(r, j)
    BY <1>3, <2>1, <2>3, <2>4 DEF Faithful, MemOps
  <2> QED
    BY <2>2, <2>5 DEF j
<1>4. CASE ~unserved /\ r.op \in General
  <2>1. r.op \notin Jtag /\ r.op \notin Swd /\ r.op \notin {"HC", "HJ"} /\ r.op \notin Adiv5 /\ r.op \notin {"JD", "Jd"}
    BY <1>4, Classes DEF Jtag
  <2>2. Result(r, o, k) = remote_packet_process_general(r)
    BY <1>4, <2>1, Zenon DEF Result
  <2> QED
    BY <2>1, <2>2, GeneralHarmless, HarmlessFaithful
<1>5. CASE ~unserved /\ r.op \in {"HC", "HJ"}
  <2>1. r.op \notin Jtag /\ r.op \notin Swd /\ r.op \notin General /\ r.op \notin Adiv5 /\ r.op \notin {"JD", "Jd"}
    BY <1>5, Classes DEF Jtag
  <2>2. Result(r, o, k) = remote_packet_process_high_level(r)
    BY <1>5, <2>1, Zenon DEF Result
  <2> QED
    BY <2>1, <2>2, HighLevelHarmless, HarmlessFaithful
<1>6. CASE ~unserved /\ r.op \in Adiv5
  <2>1. r.op \notin Jtag /\ r.op \notin Swd /\ r.op \notin General /\ r.op \notin {"HC", "HJ"}
    BY <1>6, Classes
  <2>2. Result(r, o, k) = remote_packet_process_adiv5(r, o, k)
    BY <1>6, <2>1, Zenon DEF Result
  <2> QED
    BY <1>6, <2>2, Adiv5Faithful
<1>7. CASE ~unserved /\ r.op \notin Swd /\ r.op \notin Jtag /\ r.op \notin General /\ r.op \notin {"HC", "HJ"} /\ r.op \notin Adiv5
  <2>1. Result(r, o, k) = remote_packet_process_spi(r)
    BY <1>7, Zenon DEF Result
  <2>2. r.op \notin {"JD", "Jd"}
    BY <1>7 DEF Jtag
  <2> QED
    BY <1>7, <2>1, <2>2, SpiHarmless, HarmlessFaithful
<1> QED
  BY <1>1, <1>2, <1>3, <1>4, <1>5, <1>6, <1>7

-----------------------------------------------------------------------------
(* The probe's steps.                                                      *)

LEMMA Queues ==
    ASSUME NEW S, NEW s \in Seq(S), NEW x \in S
    PROVE  /\ Append(s, x) \in Seq(S) /\ Len(Append(s, x)) = Len(s) + 1
           /\ \A i \in 1 .. Len(s) : Append(s, x)[i] = s[i]
           /\ Append(s, x)[Len(s) + 1] = x
           /\ Append(s, x) # <<>>
           /\ s # <<>> => /\ Head(s) = s[1] /\ Head(s) \in S /\ Len(s) >= 1
                          /\ Tail(s) \in Seq(S) /\ Len(Tail(s)) = Len(s) - 1
                          /\ \A i \in 1 .. Len(s) - 1 : Tail(s)[i] = s[i + 1]
                          /\ (Tail(s) = <<>> <=> Len(s) = 1)
           /\ (s = <<>> <=> Len(s) = 0) /\ Len(s) \in Nat
<1>1. /\ Append(s, x) \in Seq(S) /\ Len(Append(s, x)) = Len(s) + 1
      /\ \A i \in 1 .. Len(s) : Append(s, x)[i] = s[i]
      /\ Append(s, x)[Len(s) + 1] = x /\ Len(s) \in Nat
  OBVIOUS
<1>2. \A t \in Seq(S) : t = <<>> <=> Len(t) = 0
  BY EmptySeq
<1>3. Append(s, x) # <<>>
  BY <1>1, <1>2
<1>4. s # <<>> => /\ Head(s) = s[1] /\ Head(s) \in S /\ Len(s) >= 1
                  /\ Tail(s) \in Seq(S) /\ Len(Tail(s)) = Len(s) - 1
                  /\ \A i \in 1 .. Len(s) - 1 : Tail(s)[i] = s[i + 1]
  OBVIOUS
<1>5. s # <<>> => (Tail(s) = <<>> <=> Len(s) = 1)
  <2> SUFFICES ASSUME s # <<>>
               PROVE  Tail(s) = <<>> <=> Len(s) = 1
    OBVIOUS
  <2>1. Tail(s) \in Seq(S) /\ Len(Tail(s)) = Len(s) - 1
    BY <1>4
  <2>2. Tail(s) = <<>> <=> Len(Tail(s)) = 0
    BY <1>2, <2>1
  <2>3. Len(s) - 1 = 0 <=> Len(s) = 1
    BY <1>1
  <2> QED
    BY <2>1, <2>2, <2>3
<1> QED
  BY <1>1, <1>2, <1>3, <1>4, <1>5

\* Numbers shifted by one on both sides.
LEMMA ShiftBoth ==
    ASSUME NEW a \in Int, NEW b \in Int, NEW i \in Int
    PROVE  ((a + 1) - (b + 1)) + i = (a - b) + i
OBVIOUS

LEMMA Shifts ==
    ASSUME NEW a \in Int, NEW b \in Int, NEW c \in Int, NEW i \in Int
    PROVE  /\ (a - b) + (i + 1) = (a - (b - 1)) + i
           /\ (a - b) + 1 = (a - (c + b)) + (c + 1)
           /\ ((a + 1) - (c + (b + 1))) + i = (a - (c + b)) + i
           /\ ((a + 1) - (b + 1)) + i = (a - b) + i
OBVIOUS

LEMMA StepBack == \A a, b, i \in Int : (a - (b + 1)) + (i + 1) = (a - b) + i
OBVIOUS

LEMMA PlusZero == \A n \in Nat : n + 0 = n
OBVIOUS

\* A request taken from the queue and answered: what Serve does but for a voltage.
Served1(r, s) ==
    /\ req # <<>> /\ r = Head(req) /\ Faithful(r, s)
    /\ answers' = Append(answers, [code |-> s.a.code, err |-> s.a.err, fault |-> s.a.fault, val |-> s.a.val, did |-> s.a.did, n |-> r.n])
    /\ probe' = s.p /\ target' = s.t /\ req' = Tail(req)
    /\ upsets' \in 0 .. MaxUpsets
    /\ UNCHANGED <<app, call, late, calls>>

LEMMA ServedShape ==
    ASSUME Shape, Paired, NEW r, NEW s, Served1(r, s)
    PROVE  /\ Shape' /\ Paired'
           /\ r \in RequestSet /\ r = req[1]
           /\ answers' # <<>> /\ answers'[Len(answers')].code = s.a.code /\ answers'[Len(answers')].val = s.a.val
           /\ answers'[Len(answers')].err = s.a.err /\ answers'[Len(answers')].fault = s.a.fault
           /\ answers'[Len(answers')].did = s.a.did
<1> DEFINE x == [code |-> s.a.code, err |-> s.a.err, fault |-> s.a.fault, val |-> s.a.val, did |-> s.a.did, n |-> r.n]
<1>1. req \in Seq(RequestSet) /\ answers \in Seq(AnswerSet) /\ req # <<>>
  BY DEF Shape, Served1
<1>2. r \in RequestSet /\ r = req[1] /\ req' \in Seq(RequestSet) /\ Len(req') = Len(req) - 1
      /\ Len(req) \in Nat /\ Len(req) >= 1 /\ \A i \in 1 .. Len(req') : req'[i] = req[i + 1]
  BY <1>1, Queues DEF Served1
<1>3. s \in ServedSet /\ Known(s.t)
  BY DEF Served1, Faithful
<1>4. x \in AnswerSet
  <2>1. s.a \in ReplySet /\ r.n \in Nat
    BY <1>2, <1>3 DEF ServedSet, RequestSet
  <2> QED
    BY <2>1 DEF ReplySet, AnswerSet
<1>5. answers' = Append(answers, x)
  BY DEF Served1
<1>6. /\ x.code = s.a.code /\ x.val = s.a.val /\ x.err = s.a.err /\ x.fault = s.a.fault /\ x.did = s.a.did /\ x.n = r.n
  OBVIOUS
<1> HIDE DEF x
<1>7. /\ answers' \in Seq(AnswerSet) /\ Len(answers') = Len(answers) + 1 /\ answers'[Len(answers')] = x /\ answers' # <<>>
      /\ \A i \in 1 .. Len(answers) : answers'[i] = answers[i]
      /\ Len(answers) \in Nat
  BY <1>1, <1>4, <1>5, Queues
<1>8. UNCHANGED <<app, call, late, calls>> /\ (Waiting' <=> Waiting)
  BY DEF Served1, Waiting
<1>9. Shape'
  <2>1. probe' \in ProbeSet /\ target' \in TargetSet /\ Known(target')
    BY <1>3 DEF Served1, ServedSet
  <2>2. \A i \in 1 .. Len(req') : Contained(req'[i])
    BY <1>2 DEF Shape
  <2>3. upsets' \in 0 .. MaxUpsets
    BY DEF Served1
  <2>4. Known(target)' /\ \A i \in 1 .. Len(req') : Contained(req[i])'
    <3>1. Known(target)' <=> Known(target')
      BY DEF Known
    <3>2. \A i \in 1 .. Len(req') : Contained(req'[i]) => Contained(req[i])'
      BY DEF Contained
    <3> QED
      BY <2>1, <2>2, <3>1, <3>2
  <2> QED
    BY <1>2, <1>7, <1>8, <2>1, <2>3, <2>4 DEF Shape
<1>10. Paired'
  <2>1. Pending' = Pending
    BY <1>2, <1>7 DEF Pending
  <2>2. app.sent \in Nat
    BY DEF Shape, AppSet
  <2>3. r.n = (app.sent - Len(req)) + 1
    BY <1>2 DEF Paired
  <2>4. \A i \in 1 .. Len(req') : req'[i].n = (app'.sent - Len(req')) + i
    <3> SUFFICES ASSUME NEW i \in 1 .. Len(req')
                 PROVE  req'[i].n = (app.sent - Len(req')) + i
      BY <1>8
    <3>1. i + 1 \in 1 .. Len(req) /\ req'[i] = req[i + 1]
      BY <1>2
    <3>2. req[i + 1].n = (app.sent - Len(req)) + (i + 1)
      BY <3>1 DEF Paired
    <3>3. Len(req') = Len(req) - 1 /\ Len(req) \in Int /\ i \in Int /\ app.sent \in Int
      BY <1>2, <2>2
    <3>4. (app.sent - Len(req)) + (i + 1) = (app.sent - (Len(req) - 1)) + i
      BY <3>3, Shifts
    <3> QED
      BY <3>1, <3>2, <3>3, <3>4, Zenon
  <2>5. \A i \in 1 .. Len(answers') : answers'[i].n = (app'.sent - Pending') + i
    <3> SUFFICES ASSUME NEW i \in 1 .. Len(answers')
                 PROVE  answers'[i].n = (app.sent - Pending) + i
      BY <1>8, <2>1
    <3>1. CASE i <= Len(answers)
      BY <1>7, <3>1 DEF Paired
    <3>2. CASE i = Len(answers) + 1
      <4>1. answers'[i].n = r.n
        BY <1>6, <1>7, <3>2
      <4>2. Pending = Len(answers) + Len(req)
        BY DEF Pending
      <4>3. Len(answers) \in Int /\ Len(req) \in Int /\ app.sent \in Int
        BY <1>2, <1>7, <2>2
      <4>4. (app.sent - Len(req)) + 1 = (app.sent - (Len(answers) + Len(req))) + (Len(answers) + 1)
        BY <4>3, Shifts
      <4> QED
        BY <2>3, <3>2, <4>1, <4>2, <4>4, Zenon
    <3> QED
      BY <1>7, <3>1, <3>2
  <2> QED
    BY <1>8, <2>1, <2>4, <2>5 DEF Paired
<1> QED
  BY <1>2, <1>6, <1>7, <1>9, <1>10

\* The answer to the call's own request tells the truth about the target it leaves.
LEMMA ServedTruthful ==
    ASSUME Shape, Paired, Progress, Waiting, NEW r, NEW s, Served1(r, s), Asked(r), NEW x,
           x.code = s.a.code, x.val = s.a.val, x.err = s.a.err, x.fault = s.a.fault, x.did = s.a.did
    PROVE  Truthful(x)'
<1> DEFINE m == Amount(app, call)
           D == Addressed(app, call).dev
<1>1. UNCHANGED <<app, call>> /\ target' = s.t /\ Faithful(r, s)
  BY DEF Served1
<1>2. Underway(app, call) /\ app \in AppSet /\ call \in CallSet
  BY DEF Shape
<1>3. m \in Nat /\ (call.op \in Blocks => call.off + m <= call.len)
  BY <1>2, AmountFits
<1>4. D \in Devs /\ call.addr \in Nat /\ call.off \in Nat /\ call.len \in Nat
  BY <1>2, AddressedIs DEF CallSet
<1>5. /\ r.op = Letter(app, call) /\ r.dev = D /\ r.addr = call.addr + call.off /\ r.len = m /\ r.from = call.off
      /\ call.op = "shift" => r.size = 6
  BY DEF Asked
<1>6. call.op \notin {"shift", "cycle"} => r.op = call.op
  BY <1>5, LetterCases
<1>7. r \in RequestSet
  BY ServedShape
<1> DEFINE Shift == Len(s.t.tap) = call.off + m /\ \A i \in 1 .. call.off + m : s.t.tap[i] = <<i, i = call.len>>
<1>8. /\ Amount(app, call)' = m /\ (\A i : Cell(call.off + i)' = s.t.mem[D][(call.addr + (call.off + i)) - 1])
      /\ Shifted(call.off + Amount(app, call))' <=> Shift
  BY <1>1 DEF Cell, Shifted
<1>9. call.op \in MemOps => call.addr + call.len <= MaxAddr /\ call.off < call.len
  BY <1>2 DEF Underway, Blocks
<1> HIDE DEF m, D, Shift
<1>10. ASSUME call.op = "mem_read", x.code = OK
       PROVE  Len(x.val) = m /\ \A i \in 1 .. m : x.val[i] = s.t.mem[D][(call.addr + (call.off + i)) - 1]
  <2>1. r.op = "mem_read"
    BY <1>6, <1>10
  <2>2. Len(x.val) = m /\ \A i \in 1 .. m : x.val[i] = target.mem[D][r.addr + i - 1]
    BY <1>1, <1>5, <1>10, <2>1 DEF Faithful
  <2>3. ASSUME NEW i \in 1 .. m
        PROVE  x.val[i] = s.t.mem[D][(call.addr + (call.off + i)) - 1]
    <3>1. r.addr + i - 1 = (call.addr + (call.off + i)) - 1 /\ r.addr + i - 1 \in Addrs
      BY <1>3, <1>4, <1>5, <1>9, <1>10, BoundAssumption DEF Addrs, MemOps, Blocks
    <3>2. s.t.mem[D][r.addr + i - 1] = target.mem[D][r.addr + i - 1]
      BY <1>1, <1>4, <2>1, <3>1 DEF Faithful
    <3> QED
      BY <2>2, <3>1, <3>2
  <2> QED
    BY <2>2, <2>3
<1>11. ASSUME call.op = "mem_write", x.code = OK
       PROVE  \A i \in 1 .. m : s.t.mem[D][(call.addr + (call.off + i)) - 1] = Payload(call.off + i)
  <2>1. r.op = "mem_write"
    BY <1>6, <1>11
  <2>2. \A a \in Addrs : r.addr <= a /\ a < r.addr + r.len => s.t.mem[D][a] = Payload((r.from + (a - r.addr)) + 1)
    BY <1>1, <1>5, <1>11, <2>1 DEF Faithful
  <2>3. ASSUME NEW i \in 1 .. m
        PROVE  s.t.mem[D][(call.addr + (call.off + i)) - 1] = Payload(call.off + i)
    <3> DEFINE a == (call.addr + (call.off + i)) - 1
    <3>1. a \in Addrs /\ r.addr <= a /\ a < r.addr + r.len
      BY <1>3, <1>4, <1>5, <1>9, <1>11, BoundAssumption DEF Addrs, MemOps, Blocks
    <3>2. (r.from + (a - r.addr)) + 1 = call.off + i
      BY <1>4, <1>5
    <3> HIDE DEF a
    <3>3. s.t.mem[D][a] = Payload((r.from + (a - r.addr)) + 1)
      BY <2>2, <3>1
    <3> QED
      BY <3>2, <3>3 DEF a
  <2> QED
    BY <2>3
<1>12. ASSUME call.op \in Adiv5, ~x.did
       PROVE  x.code = ERR /\ (x.err = EXCEPTION \/ (x.err = FAULT /\ x.fault # 0))
  <2>1. r.op \in Adiv5
    BY <1>6, <1>12 DEF Adiv5
  <2> QED
    BY <1>1, <1>12, <2>1 DEF Faithful
<1>13. ASSUME call.op = "shift"
       PROVE  /\ x.code = OK /\ Len(x.val) = m /\ \A i \in 1 .. m : x.val[i] = Payload(call.off + i)
              /\ (call.own \/ call.off = 0) => Shift
  <2>1. r.op = IF call.off + m = call.len THEN "JD" ELSE "Jd"
    BY <1>5, <1>13, LetterCases DEF m
  <2>2. /\ x.code = OK /\ x.val = [i \in 1 .. m |-> Payload(call.off + i)]
        /\ s.t.tap = Tap(r, r.op = "JD").tap
    BY <1>1, <1>5, <1>13, <2>1 DEF Faithful
  <2>3. Len(x.val) = m /\ \A i \in 1 .. m : x.val[i] = Payload(call.off + i)
    BY <1>3, <2>2
  <2>4. ASSUME call.own \/ call.off = 0
        PROVE  Shift
    <3> DEFINE k == Clocked(r, r.op = "JD")
    <3>1. (r.op = "JD") \in BOOLEAN /\ (r.op = "JD" <=> call.off + m = call.len)
      BY <2>1
    <3>2. target \in TargetSet
      BY DEF Shape
    <3>3. s.t.tap = IF call.off = 0 THEN k ELSE target.tap \o k
      BY <1>5, <1>7, <2>2, <3>1, <3>2, TapIs
    <3> DEFINE tms == r.op = "JD"
    <3>4. k \in Seq(Nat \X BOOLEAN) /\ Len(k) = m /\ \A i \in 1 .. m : k[i] = <<call.off + i, tms /\ i = m>>
      <4>1. tms \in BOOLEAN /\ k = Clocked(r, tms)
        OBVIOUS
      <4> HIDE DEF tms, k
      <4>2. /\ k \in Seq(Nat \X BOOLEAN) /\ Len(k) = r.len
            /\ \A i \in 1 .. r.len : k[i] = <<r.from + i, tms /\ i = r.len>>
        BY <1>7, <4>1, ClockedIs, Zenon
      <4> QED
        BY <1>5, <4>2, Zenon
    <3> HIDE DEF k
    <3>5. \A i \in 1 .. m : k[i] = <<call.off + i, call.off + i = call.len>>
      <4> SUFFICES ASSUME NEW i \in 1 .. m
                   PROVE  k[i] = <<call.off + i, call.off + i = call.len>>
        OBVIOUS
      <4>1. (tms /\ i = m) <=> call.off + i = call.len
        BY <1>3, <1>4, <1>13, <3>1 DEF Blocks
      <4>2. (tms /\ i = m) = (call.off + i = call.len)
        BY <4>1
      <4> QED
        BY <3>4, <4>2
    <3>6. CASE call.off = 0
      <4>1. Len(s.t.tap) = call.off + m
        BY <1>3, <3>3, <3>4, <3>6
      <4>2. ASSUME NEW i \in 1 .. call.off + m
            PROVE  s.t.tap[i] = <<i, i = call.len>>
        <5>1. call.off + i = i /\ i \in 1 .. m
          BY <1>3, <3>6
        <5>2. s.t.tap = k
          BY <3>3, <3>6
        <5>3. k[i] = <<call.off + i, call.off + i = call.len>>
          BY <3>5, <5>1
        <5> QED
          BY <5>1, <5>2, <5>3, Zenon
      <4> QED
        BY <4>1, <4>2 DEF Shift
    <3>7. CASE call.off > 0
      <4>1. Shifted(call.off)
        BY <1>13, <2>4, <3>7 DEF Progress, Served1, Blocks
      <4>2. target.tap \in Seq(Nat \X BOOLEAN) /\ Len(target.tap) = call.off
            /\ \A i \in 1 .. call.off : target.tap[i] = <<i, i = call.len>>
        BY <3>2, <4>1 DEF Shifted, TargetSet
      <4>3. s.t.tap = target.tap \o k
        BY <3>3, <3>7
      <4>4. /\ Len(s.t.tap) = call.off + m
            /\ \A i \in 1 .. call.off + m : s.t.tap[i] = IF i <= call.off THEN target.tap[i] ELSE k[i - call.off]
        <5> DEFINE S == Nat \X BOOLEAN
        <5>1. target.tap \in Seq(S) /\ k \in Seq(S)
          BY <3>4, <4>2
        <5> HIDE DEF S
        <5>2. /\ Len(target.tap \o k) = Len(target.tap) + Len(k)
              /\ \A i \in 1 .. Len(target.tap) + Len(k) :
                    (target.tap \o k)[i] = IF i <= Len(target.tap) THEN target.tap[i] ELSE k[i - Len(target.tap)]
          BY <5>1, ConcatProperties, Zenon
        <5>3. Len(target.tap) = call.off /\ Len(k) = m
          BY <3>4, <4>2
        <5> QED
          BY <4>3, <5>2, <5>3
      <4>5. ASSUME NEW i \in 1 .. call.off + m
            PROVE  s.t.tap[i] = <<i, i = call.len>>
        <5>1. CASE i <= call.off
          <6>1. i \in 1 .. call.off
            BY <1>3, <1>4, <5>1
          <6>2. s.t.tap[i] = target.tap[i]
            BY <4>4, <5>1, Zenon
          <6> QED
            BY <4>2, <6>1, <6>2, Zenon
        <5>2. CASE i > call.off
          <6>1. i - call.off \in 1 .. m /\ call.off + (i - call.off) = i /\ ~(i <= call.off)
            BY <1>3, <1>4, <5>2
          <6>2. k[i - call.off] = <<call.off + (i - call.off), call.off + (i - call.off) = call.len>>
            BY <3>5, <6>1, Zenon
          <6>3. s.t.tap[i] = k[i - call.off]
            BY <4>4, <6>1, Zenon
          <6> QED
            BY <6>1, <6>2, <6>3, Zenon
        <5> QED
          BY <1>4, <5>1, <5>2
      <4> QED
        BY <4>4, <4>5 DEF Shift
    <3> QED
      BY <1>4, <3>6, <3>7
  <2> QED
    BY <2>2, <2>3, <2>4
<1>14. call' = call
  BY <1>1
<1> QED
  BY <1>8, <1>10, <1>11, <1>12, <1>13, <1>14, Zenon DEF Truthful

LEMMA ServedKeeps ==
    ASSUME RInv, NEW r, NEW s, Served1(r, s)
    PROVE  RInv'
<1>0. Shape /\ Paired /\ Progress /\ Ending
  BY DEF RInv
<1> DEFINE x == answers'[Len(answers')]
<1>1. /\ Shape' /\ Paired' /\ r \in RequestSet /\ r = req[1] /\ answers' # <<>>
      /\ x.code = s.a.code /\ x.val = s.a.val /\ x.err = s.a.err /\ x.fault = s.a.fault /\ x.did = s.a.did
  BY <1>0, ServedShape
<1>2. UNCHANGED <<app, call, late>> /\ target' = s.t /\ Faithful(r, s) /\ req # <<>> /\ req' = Tail(req)
  BY DEF Served1
<1>3. /\ req \in Seq(RequestSet) /\ Len(req) \in Nat /\ Len(req) >= 1 /\ (req' = <<>> <=> Len(req) = 1) /\ Len(req') = Len(req) - 1
      /\ \A i \in 1 .. Len(req) - 1 : req'[i] = req[i + 1]
      /\ Len(answers) \in Nat
  BY <1>0, <1>1, <1>2, Queues DEF Shape
<1>4. Waiting' <=> Waiting
  BY <1>2 DEF Waiting
<1>5. Progress'
  <2> SUFFICES ASSUME Waiting
               PROVE  Progress'
    BY <1>4 DEF Progress
  <2>1. Asked(req[Len(req)])
    BY <1>0, <1>2 DEF Progress
  <2>2. IF req' # <<>> THEN Asked(req[Len(req)])' ELSE Truthful(answers[Len(answers)])'
    <3>1. CASE req' # <<>>
      <4>1. Len(req) - 1 \in 1 .. Len(req) - 1 /\ (Len(req) - 1) + 1 = Len(req)
        BY <1>3, <3>1
      <4>2. req'[Len(req')] = req[Len(req)]
        BY <1>3, <4>1
      <4>3. Asked(req[Len(req)])' <=> Asked(req'[Len(req')])
        BY <1>2 DEF Asked
      <4> QED
        BY <2>1, <3>1, <4>2, <4>3
    <3>2. CASE req' = <<>>
      <4>1. r = req[Len(req)]
        BY <1>1, <1>3, <3>2
      <4>2. PICK y : y = x
        OBVIOUS
      <4>3. Truthful(y)'
        <5> HIDE DEF x
        <5>1. y.code = s.a.code /\ y.val = s.a.val /\ y.err = s.a.err /\ y.fault = s.a.fault /\ y.did = s.a.did
          BY <1>1, <4>2
        <5> QED
          BY <1>0, <2>1, <4>1, <5>1, ServedTruthful
      <4>4. Truthful(answers[Len(answers)])' <=> Truthful(y)'
        BY <4>2 DEF Truthful
      <4> QED
        BY <3>2, <4>3, <4>4
    <3> QED
      BY <3>1, <3>2
  <2>3. ASSUME call.op \in Blocks, call.own
        PROVE  Prefix' /\ ~(req' # <<>> /\ call.off > 0)
    <3>1. Prefix /\ (call.off > 0 => late = 0)
      BY <1>0, <2>3 DEF Progress
    <3>2. call.off > 0 => Len(req) = 1
      BY <1>0, <1>3, <3>1 DEF Paired, Pending
    <3>3. call \in CallSet /\ app \in AppSet /\ Underway(app, call)
      BY <1>0 DEF Shape
    <3>4. call.off \in Nat /\ call.addr \in Nat /\ call.len \in Nat /\ call.off < call.len
      BY <2>3, <3>3 DEF CallSet, Underway
    <3>5. Addressed(app, call).dev \in Devs
      BY <3>3, AddressedIs
    <3>6. ASSUME call.op \in MemOps, NEW i \in 1 .. call.off
          PROVE  Cell(i)' = Cell(i)
      <4>1. Asked(r)
        BY <1>1, <2>1, <3>2, <3>4
      <4>2. r.addr = call.addr + call.off
        BY <4>1 DEF Asked
      <4>3. call.addr + call.len <= MaxAddr
        BY <3>3, <3>6 DEF Underway
      <4>4. (call.addr + i) - 1 \in Addrs /\ (call.addr + i) - 1 < r.addr
        BY <3>4, <4>2, <4>3, BoundAssumption DEF Addrs
      <4>5. r.addr \in Nat /\ Addrs \subseteq Int
        BY <3>4, <4>2, BoundAssumption DEF Addrs
      <4>6. ~(r.addr <= (call.addr + i) - 1)
        BY <3>4, <4>2, <4>4
      <4>7. s.t.mem[Addressed(app, call).dev][(call.addr + i) - 1] = target.mem[Addressed(app, call).dev][(call.addr + i) - 1]
        BY <1>2, <3>5, <4>4, <4>6 DEF Faithful
      <4> QED
        BY <1>2, <4>7 DEF Cell
    <3>7. Prefix'
      BY <1>2, <3>1, <3>6 DEF Prefix, MemOps
    <3> QED
      BY <1>3, <3>2, <3>7
  <2> QED
    BY <1>0, <1>2, <2>2, <2>3 DEF Progress
<1>6. Ending'
  <2> SUFFICES ASSUME ~Waiting
               PROVE  Moves' /\ FailureTold'
    BY <1>4 DEF Ending
  <2>1. Moves /\ FailureTold
    BY <1>0 DEF Ending
  <2>2. late > 0
    <3>1. late \in Nat /\ Len(answers) + Len(req) = late + 0
      BY <1>0 DEF Shape, Paired, Pending
    <3> QED
      BY <1>3, <3>1
  <2>3. FailureTold'
    BY <1>2, <2>1 DEF FailureTold
  <2>4. call \in CallSet
    BY <1>0 DEF Shape
  <2>5. ASSUME Succeeded({"mem_read", "mem_write", "shift"})
        PROVE  call.len = 0
    BY <2>1, <2>2, <2>4, <2>5 DEF Moves, CallSet
  <2>6. Moves'
    <3>1. \A T \in {{"mem_read", "mem_write", "shift"}, {"mem_read"}, {"mem_write"}, {"shift"}} : Succeeded(T)' <=> Succeeded(T)
      BY <1>2 DEF Succeeded
    <3>2. CASE ~Succeeded({"mem_read", "mem_write", "shift"})
      <4>1. ~Succeeded({"mem_read"}) /\ ~Succeeded({"mem_write"}) /\ ~Succeeded({"shift"})
        BY <3>2 DEF Succeeded
      <4> QED
        BY <3>1, <3>2, <4>1 DEF Moves, Delivered
    <3>3. CASE Succeeded({"mem_read", "mem_write", "shift"})
      <4>1. call.len = 0
        BY <2>5, <3>3
      <4> QED
        BY <1>2, <2>1, <3>1, <4>1 DEF Moves, Delivered
    <3> QED
      BY <3>2, <3>3
  <2> QED
    BY <2>3, <2>6
<1> QED
  BY <1>1, <1>5, <1>6 DEF RInv

\* The steps that leave everything but the firmware's state alone.
LEMMA ProbeOnly ==
    ASSUME RInv, probe' \in ProbeSet, upsets' \in 0 .. MaxUpsets,
           UNCHANGED <<app, call, req, answers, target, late, calls>>
    PROVE  RInv'
<1>1. Shape'
  <2>1. Known(target)' /\ (\A i \in 1 .. Len(req) : Contained(req[i])') /\ (Waiting' <=> Waiting) /\ Underway(app, call)' = Underway(app, call)
    BY DEF RInv, Shape, Known, Contained, Waiting, Underway
  <2> QED
    BY <2>1 DEF RInv, Shape
<1>2. Paired'
  BY DEF RInv, Paired, Pending, Waiting
<1>3. Progress'
  BY DEF RInv, Progress, Waiting, Asked, Truthful, Prefix, Cell, Shifted
<1>4. Ending'
  BY DEF RInv, Ending, Waiting, Moves, Delivered, Succeeded, Shifted, FailureTold
<1> QED
  BY <1>1, <1>2, <1>3, <1>4 DEF RInv

\* Serve but for a voltage.
LEMMA ServeServed ==
    ASSUME RInv, Serve, Head(req).op # "GV"
    PROVE  \E r, s : Served1(r, s)
<1> DEFINE r == Head(req)
<1>1. req # <<>> /\ req \in Seq(RequestSet) /\ probe \in ProbeSet /\ target \in TargetSet /\ Known(target) /\ upsets \in 0 .. MaxUpsets
      /\ late \in Nat
  BY DEF Serve, RInv, Shape
<1>2. r \in RequestSet /\ r = req[1] /\ Len(req) \in Nat /\ Len(req) >= 1
  BY <1>1, Queues
<1>3. Contained(r)
  BY <1>2 DEF RInv, Shape
<1>4. PICK o \in {"ok", "wait", "silent", "parity", "raise"},
           k \in (IF r.op = "mem_write" THEN {0, r.len \div 2, r.len} ELSE {0}) :
        /\ o # "ok" => Upset(r, o) /\ late + upsets < MaxUpsets
        /\ LET s == Result(r, o, k) IN
           /\ answers' = Append(answers, [code |-> s.a.code, err |-> s.a.err, fault |-> s.a.fault, val |-> s.a.val, did |-> s.a.did, n |-> r.n])
           /\ probe' = s.p /\ target' = s.t
        /\ req' = Tail(req)
        /\ upsets' = IF o = "ok" THEN upsets ELSE upsets + 1
  BY DEF Serve
<1>5. k \in 0 .. r.len
  <2>1. r.len \in Nat
    BY <1>2 DEF RequestSet
  <2> QED
    BY <2>1
<1>6. Faithful(r, Result(r, o, k))
  BY <1>1, <1>2, <1>3, <1>5, ResultFaithful
<1>7. upsets' \in 0 .. MaxUpsets
  BY <1>1, <1>4, BoundAssumption
<1>8. UNCHANGED <<app, call, late, calls>>
  BY DEF Serve
<1>9. Served1(r, Result(r, o, k))
  <2> DEFINE s == Result(r, o, k)
  <2>1. /\ answers' = Append(answers, [code |-> s.a.code, err |-> s.a.err, fault |-> s.a.fault, val |-> s.a.val, did |-> s.a.did, n |-> r.n])
        /\ probe' = s.p /\ target' = s.t /\ req' = Tail(req)
    BY <1>4
  <2> HIDE DEF s
  <2>2. Faithful(r, s)
    BY <1>6 DEF s
  <2>3. Served1(r, s)
    BY <1>1, <1>7, <1>8, <2>1, <2>2 DEF Served1
  <2> QED
    BY <2>3 DEF s
<1>10. PICK q, s : q = r /\ s = Result(r, o, k)
  OBVIOUS
<1>11. Served1(q, s)
  BY <1>9, <1>10
<1> QED
  BY <1>11

LEMMA ServeKeeps ==
    ASSUME RInv, Serve
    PROVE  RInv'
<1>1. CASE Head(req).op = "GV"
  <2>1. probe' = [probe EXCEPT !.hung = TRUE] /\ UNCHANGED <<req, answers, target, upsets>> /\ UNCHANGED <<app, call, late, calls>>
    BY <1>1 DEF Serve
  <2>2. probe \in ProbeSet /\ upsets \in 0 .. MaxUpsets
    BY DEF RInv, Shape
  <2>3. probe' \in ProbeSet
    BY <2>1, <2>2 DEF ProbeSet
  <2> QED
    BY <2>1, <2>2, <2>3, ProbeOnly
<1>2. CASE Head(req).op # "GV"
  <2>1. PICK r, s : Served1(r, s)
    BY <1>2, ServeServed
  <2> QED
    BY <2>1, ServedKeeps
<1> QED
  BY <1>1, <1>2

LEMMA HangKeeps ==
    ASSUME RInv, Hang
    PROVE  RInv'
<1>1. probe \in ProbeSet /\ upsets \in 0 .. MaxUpsets /\ late \in Nat
  BY DEF RInv, Shape
<1>2. probe' \in ProbeSet
  BY <1>1 DEF Hang, ProbeSet
<1>3. upsets' \in 0 .. MaxUpsets
  BY <1>1, BoundAssumption DEF Hang
<1> QED
  BY <1>2, <1>3, ProbeOnly DEF Hang

-----------------------------------------------------------------------------
(* The host's steps: what a call makes of an answer.                       *)

LEMMA BufferRead ==
    ASSUME NEW a \in AnswerSet
    PROVE  /\ platform_buffer_read(a) \in AnswerSet /\ platform_buffer_read(a).code = a.code
           /\ platform_buffer_read(a).err = a.err /\ platform_buffer_read(a).fault = a.fault
           /\ platform_buffer_read(a).did = a.did /\ platform_buffer_read(a).n = a.n
           /\ Len(platform_buffer_read(a).val) = Len(a.val)
           /\ \A i \in 1 .. Len(a.val) : 2 * i + 1 <= MaxMsg => platform_buffer_read(a).val[i] = a.val[i]
<1> DEFINE v == [i \in DOMAIN a.val |-> IF 2 * i + 1 <= MaxMsg THEN a.val[i] ELSE Junk]
<1>1. a.val \in Seq(Int) /\ Len(a.val) \in Nat /\ DOMAIN a.val = 1 .. Len(a.val)
  BY DEF AnswerSet
<1>2. /\ v \in Seq(Int) /\ Len(v) = Len(a.val)
      /\ \A i \in 1 .. Len(a.val) : 2 * i + 1 <= MaxMsg => v[i] = a.val[i]
  BY <1>1 DEF Junk
<1>3. platform_buffer_read(a) = [a EXCEPT !.val = v]
  BY DEF platform_buffer_read
<1> HIDE DEF v
<1>4. /\ platform_buffer_read(a) \in AnswerSet /\ platform_buffer_read(a).code = a.code
      /\ platform_buffer_read(a).err = a.err /\ platform_buffer_read(a).fault = a.fault
      /\ platform_buffer_read(a).did = a.did /\ platform_buffer_read(a).n = a.n
      /\ platform_buffer_read(a).val = v
  BY <1>2, <1>3 DEF AnswerSet
<1> QED
  BY <1>2, <1>4

Alike(c, d) ==
    /\ c.op = d.op /\ c.dev = d.dev /\ c.addr = d.addr /\ c.len = d.len /\ c.align = d.align /\ c.size = d.size

LEMMA FinishIs ==
    ASSUME NEW c \in CallSet, NEW res \in Results
    PROVE  /\ Finish(c, res) \in CallSet /\ Alike(Finish(c, res), c) /\ Finish(c, res).st = "done" /\ Finish(c, res).res = res
           /\ Finish(c, res).off = c.off /\ Finish(c, res).buf = c.buf
           /\ Finish(c, res).own = c.own /\ Finish(c, res).did = c.did
BY DEF Finish, CallSet, Alike

LEMMA SameBlock ==
    ASSUME NEW h, NEW c, NEW d, Alike(c, d), c.off = d.off
    PROVE  Amount(h, c) = Amount(h, d)
<1>1. c.op = d.op /\ c.len = d.len /\ c.align = d.align /\ c.off = d.off
  BY DEF Alike
<1> QED
  BY <1>1, Zenon DEF Amount

LEMMA SameAddress ==
    ASSUME NEW h, NEW c, NEW d, Alike(c, d)
    PROVE  Addressed(h, c) = Addressed(h, d)
<1>1. c.dev = d.dev
  BY DEF Alike
<1>2. /\ remote_v0_adiv5_access(c) = remote_v0_adiv5_access(d) /\ remote_v1_adiv5_access(c) = remote_v1_adiv5_access(d)
      /\ remote_v3_adiv5_access(c) = remote_v3_adiv5_access(d)
  BY <1>1 DEF remote_v0_adiv5_access, remote_v1_adiv5_access, remote_v3_adiv5_access
<1> QED
  BY <1>2, Zenon DEF Addressed

\* What a check of an answer leaves, in every version of the protocol.
Checked(h, a, k) ==
    /\ k.h \in AppSet /\ k.h.funcs = h.funcs /\ k.h.sent = h.sent
    /\ k.res \in {"ok", "failed", "raised"} /\ (k.res = "ok" <=> a.code = OK)
    /\ h.funcs.adiv5 = "v3" /\ a.code = ERR => /\ a.err = EXCEPTION => k.res = "raised"
                                               /\ a.err = FAULT => k.h.fault = a.fault

LEMMA ChecksAre ==
    ASSUME NEW h \in AppSet, NEW a \in AnswerSet
    PROVE  /\ h.funcs.adiv5 = "v0" => Checked(h, a, v0_check_error(h, a))
           /\ h.funcs.adiv5 = "v1" => Checked(h, a, v1_check_error(h, a))
           /\ Checked(h, a, v3_check_error(h, a))
<1>1. h.funcs.adiv5 = "v0" => Checked(h, a, v0_check_error(h, a))
  BY DEF Checked, v0_check_error
<1>2. h.funcs.adiv5 = "v1" => Checked(h, a, v1_check_error(h, a))
  BY DEF Checked, v1_check_error
<1>3. Checked(h, a, v3_check_error(h, a))
  <2> DEFINE k == v3_check_error(h, a)
  <2>1. OK # ERR /\ FAULT # EXCEPTION
    BY CodesDiffer DEF FAULT, EXCEPTION
  <2>2. a.fault \in Faults
    BY DEF AnswerSet
  <2>3. CASE a.code = ERR /\ a.err = FAULT
    <3>1. k = [h |-> [h EXCEPT !.fault = a.fault], res |-> "failed"]
      BY <2>1, <2>3 DEF v3_check_error
    <3>2. k.h \in AppSet /\ k.h.funcs = h.funcs /\ k.h.sent = h.sent /\ k.h.fault = a.fault /\ k.res = "failed"
      BY <2>2, <3>1 DEF AppSet
    <3> HIDE DEF k
    <3> QED
      BY <2>1, <2>3, <3>2 DEF Checked, k
  <2>4. CASE ~(a.code = ERR /\ a.err = FAULT)
    <3>1. k = [h |-> h, res |-> IF a.code = OK THEN "ok" ELSE IF a.code = ERR /\ a.err = EXCEPTION THEN "raised" ELSE "failed"]
      BY <2>4 DEF v3_check_error
    <3> HIDE DEF k
    <3>2. Checked(h, a, k)
      BY <2>1, <2>4, <3>1 DEF Checked
    <3> QED
      BY <3>2 DEF k
  <2> QED
    BY <2>3, <2>4
<1> QED
  BY <1>1, <1>2, <1>3

\* What making a call, reading an answer or giving up leaves: the call asks, or is over.
Passed ==
    /\ app' \in AppSet /\ call' \in CallSet /\ call'.off <= call'.len + 1
    /\ \/ /\ Waiting' /\ Underway(app', call') /\ app'.sent = app.sent + 1
          /\ \E q \in RequestSet : Contained(q) /\ q.n = app.sent + 1 /\ req' = Append(req, q) /\ Asked(q)'
          /\ call'.op \in Blocks /\ call'.own => Prefix' /\ (call'.op = "shift" /\ call'.off > 0 => Shifted(call.off)')
          /\ call'.op \in Adiv5 /\ call'.own => call'.did
       \/ ~Waiting' /\ app'.sent = app.sent /\ UNCHANGED req /\ Delivered' /\ FailureTold'

\* A write that read an answer: it is at the same block, or at the next one.
Wrote ==
    /\ Alike(call', call) /\ app'.funcs = app.funcs
    /\ call'.off = call.off \/ call'.off = call.off + Amount(app, call)
    /\ call'.own => \A i \in 1 .. call'.off : Cell(i) = Payload(i)

\* It is the call's own only if the answer read was the one to the last request.
Taken(a) ==
    /\ Passed
    /\ call'.own => call.own /\ a.n = app.sent
    /\ call'.op = "mem_write" => call.op = "mem_write"
    /\ call.op = "mem_write" => Wrote

\* An answer that is the call's own is a true one.
OwnTrue(a) == call.own /\ a.n = app.sent => Truthful(a)

LEMMA AskTaken ==
    ASSUME NEW h \in AppSet, NEW c, Underway(h, c), Ask(h, c), h.sent = app.sent
    PROVE  /\ app' \in AppSet /\ call' \in CallSet /\ call'.off <= call'.len + 1
           /\ Waiting' /\ Underway(app', call') /\ app'.sent = app.sent + 1 /\ app'.funcs = h.funcs /\ call' = c
           /\ \E q \in RequestSet : Contained(q) /\ q.n = app.sent + 1 /\ req' = Append(req, q) /\ Asked(q)'
<1>1. /\ app' \in AppSet /\ app'.sent = app.sent + 1 /\ app'.funcs = h.funcs /\ call' = c /\ Waiting' /\ Underway(app', c)
      /\ req' = Append(req, RequestOf(h, c)) /\ Asked(RequestOf(h, c))'
  BY AskIs
<1>2. RequestOf(h, c) \in RequestSet /\ Contained(RequestOf(h, c)) /\ RequestOf(h, c).n = app.sent + 1
  BY RequestFits
<1>3. PICK q : q = RequestOf(h, c)
  OBVIOUS
<1>4. Asked(q)'
  BY <1>1, <1>3 DEF Asked
<1>5. \E z \in RequestSet : Contained(z) /\ z.n = app.sent + 1 /\ req' = Append(req, z) /\ Asked(z)'
  BY <1>1, <1>2, <1>3, <1>4
<1> QED
  BY <1>1, <1>5 DEF Underway

\* A place in the second of two pieces.
LEMMA InSecond ==
    ASSUME NEW m \in Nat, NEW off \in Nat, NEW i \in 1 .. off + m, i > off, NEW M \in Nat, 2 * m + 1 <= M
    PROVE  i - off \in 1 .. m /\ off + (i - off) = i /\ ~(i <= off) /\ 2 * (i - off) + 1 <= M
OBVIOUS

\* One more block of a memory transfer.
LEMMA MemMoved ==
    ASSUME Shape, Waiting, call.op \in MemOps, NEW a \in AnswerSet, Truthful(a), a.code = OK, Prefix,
           NEW v \in Seq(Int), Len(v) = Len(a.val),
           \A i \in 1 .. Len(a.val) : 2 * i + 1 <= MaxMsg => v[i] = a.val[i],
           NEW got \in Seq(Int),
           call.op = "mem_read" => /\ Len(got) = Amount(app, call)
                                   /\ \A i \in 1 .. Amount(app, call) : i \in 1 .. Len(v) => got[i] = v[i]
    PROVE  LET n == call.off + Amount(app, call) IN
           /\ call.op = "mem_read" => Len(call.buf \o got) = n /\ \A i \in 1 .. n : (call.buf \o got)[i] = Cell(i)
           /\ call.op = "mem_write" => \A i \in 1 .. n : Cell(i) = Payload(i)
<1> DEFINE m == Amount(app, call)
<1>1. Underway(app, call) /\ app \in AppSet /\ call \in CallSet
  BY DEF Shape
<1>2. m \in Nat /\ (call.op = "mem_read" => 2 * m + 1 <= MaxMsg) /\ call.off \in Nat /\ call.buf \in Seq(Int)
  BY <1>1, AmountFits DEF CallSet
<1>3. /\ call.op = "mem_read" => Len(a.val) = m /\ \A i \in 1 .. m : a.val[i] = Cell(call.off + i)
      /\ call.op = "mem_write" => \A i \in 1 .. m : Cell(call.off + i) = Payload(call.off + i)
  BY DEF Truthful
<1>4. /\ call.op = "mem_read" => Len(call.buf) = call.off /\ \A i \in 1 .. call.off : call.buf[i] = Cell(i)
      /\ call.op = "mem_write" => \A i \in 1 .. call.off : Cell(i) = Payload(i)
  BY DEF Prefix
<1>5. call.op = "mem_read" => Len(got) = m /\ \A i \in 1 .. m : i \in 1 .. Len(v) => got[i] = v[i]
  OBVIOUS
<1> HIDE DEF m
<1>6. ASSUME call.op = "mem_read"
      PROVE  Len(call.buf \o got) = call.off + m /\ \A i \in 1 .. call.off + m : (call.buf \o got)[i] = Cell(i)
  <2>1. /\ Len(call.buf \o got) = call.off + m
        /\ \A i \in 1 .. call.off + m : (call.buf \o got)[i] = IF i <= call.off THEN call.buf[i] ELSE got[i - call.off]
    <3>1. Len(call.buf) = call.off /\ Len(got) = m
      BY <1>4, <1>5, <1>6
    <3>2. /\ Len(call.buf \o got) = Len(call.buf) + Len(got)
          /\ \A i \in 1 .. Len(call.buf) + Len(got) :
                (call.buf \o got)[i] = IF i <= Len(call.buf) THEN call.buf[i] ELSE got[i - Len(call.buf)]
      BY <1>2, Joined, Zenon
    <3> QED
      BY <3>1, <3>2
  <2>2. ASSUME NEW i \in 1 .. call.off + m
        PROVE  (call.buf \o got)[i] = Cell(i)
    <3>1. CASE i <= call.off
      BY <1>2, <1>4, <1>6, <2>1, <3>1
    <3>2. CASE i > call.off
      <4>1. i - call.off \in 1 .. m /\ call.off + (i - call.off) = i /\ ~(i <= call.off) /\ 2 * (i - call.off) + 1 <= MaxMsg
        <5>1. 2 * m + 1 <= MaxMsg /\ m \in Nat /\ call.off \in Nat
          BY <1>2, <1>6, Zenon
        <5>2. MaxMsg \in Nat
          BY MessageAssumption, Zenon
        <5> QED
          BY <3>2, <5>1, <5>2, InSecond
      <4>2. i - call.off \in 1 .. Len(v) /\ i - call.off \in 1 .. Len(a.val)
        BY <1>3, <1>6, <4>1
      <4>3. got[i - call.off] = v[i - call.off] /\ v[i - call.off] = a.val[i - call.off]
        BY <1>5, <1>6, <4>1, <4>2
      <4>4. a.val[i - call.off] = Cell(call.off + (i - call.off))
        BY <1>3, <1>6, <4>1
      <4>5. (call.buf \o got)[i] = got[i - call.off]
        BY <2>1, <4>1
      <4> QED
        BY <4>1, <4>3, <4>4, <4>5
    <3>3. i \in Int /\ call.off \in Int
      BY <1>2
    <3>4. i <= call.off \/ i > call.off
      BY <3>3
    <3> QED
      BY <3>1, <3>2, <3>4, Zenon
  <2> QED
    BY <2>1, <2>2
<1>7. ASSUME call.op = "mem_write", NEW i \in 1 .. call.off + m
      PROVE  Cell(i) = Payload(i)
  <2>1. CASE i <= call.off
    BY <1>2, <1>4, <1>7, <2>1
  <2>2. CASE i > call.off
    <3>1. i - call.off \in 1 .. m /\ call.off + (i - call.off) = i
      BY <1>2, <2>2
    <3>2. Cell(call.off + (i - call.off)) = Payload(call.off + (i - call.off))
      BY <1>3, <1>7, <3>1
    <3> QED
      BY <3>1, <3>2
  <2> QED
    BY <1>2, <2>1, <2>2
<1> QED
  BY <1>6, <1>7 DEF m

\* The call with what answer a says of it, and the answer as the host's buffer keeps it.
Carried(c, a) ==
    /\ c \in CallSet /\ Alike(c, call) /\ c.st = "wait" /\ c.off = call.off /\ c.buf = call.buf
    /\ c.own => call.own /\ a.n = app.sent
    /\ call.did /\ a.did => c.did
Kept(b, a) ==
    /\ b \in AnswerSet /\ b.code = a.code /\ b.err = a.err /\ b.fault = a.fault /\ b.did = a.did /\ b.n = a.n
    /\ Len(b.val) = Len(a.val) /\ \A i \in 1 .. Len(a.val) : 2 * i + 1 <= MaxMsg => b.val[i] = a.val[i]

\* A call that ended without success delivers nothing.
LEMMA NothingDelivered ==
    ASSUME call' \in CallSet, call'.res # "ok" \/ ~call'.own \/ call'.op \notin {"mem_read", "mem_write", "shift"}
    PROVE  Delivered'
<1>1. ~Succeeded({"mem_read"})' /\ ~Succeeded({"mem_write"})' /\ ~Succeeded({"shift"})'
  BY DEF Succeeded
<1> QED
  BY <1>1 DEF Delivered

\* A memory transfer that moves on: the bytes it has moved so far.
LEMMA PrefixMoves ==
    ASSUME Shape, Waiting, call.op \in MemOps, UNCHANGED target, call' \in CallSet, app' \in AppSet, app'.funcs = app.funcs,
           Alike(call', call),
           call.op = "mem_read" => Len(call'.buf) = call'.off /\ \A i \in 1 .. call'.off : call'.buf[i] = Cell(i),
           call.op = "mem_write" => \A i \in 1 .. call'.off : Cell(i) = Payload(i)
    PROVE  Prefix'
<1>1. Addressed(app', call') = Addressed(app, call)
  <2>1. Addressed(app', call') = Addressed(app, call')
    BY SameTables
  <2>2. PICK d : d = call'
    OBVIOUS
  <2>3. Alike(d, call)
    BY <2>2
  <2>4. Addressed(app, d) = Addressed(app, call)
    BY <2>3, SameAddress, Zenon
  <2> QED
    BY <2>1, <2>2, <2>4
<1>2. call'.addr = call.addr /\ call'.op = call.op
  BY DEF Alike
<1>3. \A i : Cell(i)' = Cell(i)
  BY <1>1, <1>2 DEF Cell
<1>4. call'.op # "shift"
  BY <1>2 DEF MemOps
<1> QED
  BY <1>2, <1>3, <1>4 DEF Prefix, Payload

\* A failed access the host believes to be its own is told.
LEMMA FailureKnown ==
    ASSUME Shape, Waiting, Progress, call.op \in Adiv5, NEW a \in AnswerSet, OwnTrue(a), NEW b, Kept(b, a),
           NEW c, Carried(c, a), NEW k, Checked(app, b, k), c.own, ~c.did
    PROVE  k.res # "ok" /\ (k.res = "failed" /\ app.funcs.adiv5 = "v3" => k.h.fault # 0)
<1>1. call.own /\ a.n = app.sent
  BY DEF Carried
<1>2. call.did
  BY <1>1 DEF Progress
<1>3. ~a.did
  BY <1>2 DEF Carried
<1>4. Truthful(a)
  BY <1>1 DEF OwnTrue
<1>5. a.code = ERR /\ (a.err = EXCEPTION \/ (a.err = FAULT /\ a.fault # 0))
  BY <1>3, <1>4 DEF Truthful
<1>6. b.code = ERR /\ (b.err = EXCEPTION \/ (b.err = FAULT /\ b.fault # 0))
  BY <1>5 DEF Kept
<1>7. b.code # OK
  BY <1>6, CodesDiffer
<1> QED
  BY <1>6, <1>7 DEF Checked

\* A memory transfer reads an answer to one of its blocks.
LEMMA MemTaken ==
    ASSUME Shape, Waiting, Progress, call.op \in MemOps, UNCHANGED target,
           NEW a \in AnswerSet, OwnTrue(a), NEW b, Kept(b, a), NEW c, Carried(c, a), NEW k, Checked(app, b, k),
           MemBlock(app, c, b, k)
    PROVE  Taken(a)
<1> DEFINE m == Amount(app, c)
           got == IF c.op = "mem_write" THEN <<>> ELSE [i \in 1 .. m |-> IF i \in DOMAIN b.val THEN b.val[i] ELSE Junk]
           n == c.off + m
           c1 == [c EXCEPT !.buf = c.buf \o got, !.off = n]
<1>1. /\ app \in AppSet /\ call \in CallSet /\ Underway(app, call) /\ c \in CallSet /\ Alike(c, call) /\ c.st = "wait"
      /\ c.off = call.off /\ c.buf = call.buf
  BY DEF Shape, Carried
<1>2. /\ c.op = call.op /\ c.len = call.len /\ c.addr = call.addr /\ c.align = call.align /\ c.size = call.size /\ c.dev = call.dev
  BY <1>1 DEF Alike
<1>3. m = Amount(app, call)
  BY <1>1, SameBlock, Zenon
<1>4. /\ m \in Nat /\ n \in Nat /\ n <= call.len /\ call.off \in Nat /\ call.len \in Nat /\ call.align \in 0 .. 3
      /\ n = call.off + m
      /\ (call.op = "mem_write" => m % 2^call.align = 0)
  <2>1. /\ m \in Nat /\ call.off \in Nat /\ call.len \in Nat /\ call.align \in 0 .. 3
    BY <1>1, <1>3, AmountFits DEF CallSet
  <2>2. call.off + m <= call.len /\ (call.op = "mem_write" => m % 2^call.align = 0)
    BY <1>1, <1>3, AmountFits DEF Blocks
  <2> QED
    BY <1>1, <2>1, <2>2
<1>5. b \in AnswerSet /\ b.val \in Seq(Int) /\ b.code = a.code
  BY DEF Kept, AnswerSet
<1>6. /\ got \in Seq(Int)
      /\ c.op = "mem_read" => Len(got) = m /\ \A i \in 1 .. m : i \in 1 .. Len(b.val) => got[i] = b.val[i]
  <2>1. CASE c.op = "mem_write"
    BY <2>1
  <2>2. CASE c.op # "mem_write"
    <3>1. got = [i \in 1 .. m |-> IF i \in DOMAIN b.val THEN b.val[i] ELSE Junk]
      BY <2>2
    <3>2. m \in Nat /\ b.val \in Seq(Int)
      BY <1>4, <1>5
    <3> HIDE DEF m, got, n, c1
    <3>3. got \in Seq(Int) /\ Len(got) = m /\ \A i \in 1 .. m : i \in 1 .. Len(b.val) => got[i] = b.val[i]
      BY <3>1, <3>2 DEF Junk
    <3> QED
      BY <3>3
  <2> QED
    BY <2>1, <2>2
<1>7. c.buf \o got \in Seq(Int)
  BY <1>1, <1>6, Joined DEF CallSet
<1>8. /\ c1 \in CallSet /\ Alike(c1, c) /\ c1.st = "wait" /\ c1.off = n /\ c1.buf = c.buf \o got
      /\ c1.own = c.own /\ c1.did = c.did
  <2>1. PICK x \in Seq(Int), y \in Nat : x = c.buf \o got /\ y = n
    BY <1>4, <1>7
  <2>2. /\ [c EXCEPT !.buf = x, !.off = y] \in CallSet /\ Alike([c EXCEPT !.buf = x, !.off = y], c)
        /\ [c EXCEPT !.buf = x, !.off = y].st = c.st /\ [c EXCEPT !.buf = x, !.off = y].off = y
        /\ [c EXCEPT !.buf = x, !.off = y].buf = x /\ [c EXCEPT !.buf = x, !.off = y].own = c.own
        /\ [c EXCEPT !.buf = x, !.off = y].did = c.did
    <3> HIDE DEF m, got, n, c1
    <3>1. c \in CallSet /\ x \in Seq(Int) /\ y \in Nat
      BY <1>1, <2>1
    <3> QED
      BY <3>1 DEF CallSet, Alike
  <2> QED
    BY <1>1, <2>1, <2>2
<1>9. /\ c1.op = call.op /\ c1.len = call.len /\ c1.addr = call.addr /\ c1.align = call.align /\ c1.size = call.size /\ c1.dev = call.dev
      /\ Alike(c1, call)
  BY <1>2, <1>8 DEF Alike
<1>10. /\ k.h \in AppSet /\ k.h.funcs = app.funcs /\ k.h.sent = app.sent
       /\ k.res \in {"ok", "failed", "raised"} /\ (k.res = "ok" <=> a.code = OK)
  BY <1>5 DEF Checked
<1>11. /\ k.res # "ok" => Over(k.h, Finish(c, k.res))
       /\ k.res = "ok" /\ c1.off < c1.len => Ask(k.h, c1)
       /\ k.res = "ok" /\ ~(c1.off < c1.len) => Over(k.h, Finish(c1, "ok"))
  BY Zenon DEF MemBlock
<1>12. c.own => call.own /\ a.n = app.sent
  BY DEF Carried
<1>13. call.op \in Adiv5 /\ call.op \in Blocks
  BY DEF Adiv5, Blocks, MemOps
<1>14. ASSUME c.own, k.res = "ok"
       PROVE  /\ call.op = "mem_read" => Len(c1.buf) = n /\ \A i \in 1 .. n : c1.buf[i] = Cell(i)
              /\ call.op = "mem_write" => \A i \in 1 .. n : Cell(i) = Payload(i)
              /\ c.did
  <2>1. Truthful(a) /\ Prefix /\ call.own /\ a.code = OK
    BY <1>10, <1>12, <1>13, <1>14 DEF OwnTrue, Progress
  <2>2. c.did
    <3>1. k.res = "ok"
      BY <1>14
    <3> QED
      BY <1>13, <1>14, FailureKnown
  <2>3. PICK g \in Seq(Int), v \in Seq(Int) : g = got /\ v = b.val
    BY <1>5, <1>6
  <2>4. Len(v) = Len(a.val) /\ \A i \in 1 .. Len(a.val) : 2 * i + 1 <= MaxMsg => v[i] = a.val[i]
    BY <2>3 DEF Kept
  <2>5. call.op = "mem_read" => Len(g) = Amount(app, call) /\ \A i \in 1 .. Amount(app, call) : i \in 1 .. Len(v) => g[i] = v[i]
    <3> HIDE DEF m, got
    <3> QED
      BY <1>2, <1>3, <1>6, <2>3
  <2>6. /\ call.op = "mem_read" => Len(call.buf \o g) = call.off + Amount(app, call)
                                   /\ \A i \in 1 .. call.off + Amount(app, call) : (call.buf \o g)[i] = Cell(i)
        /\ call.op = "mem_write" => \A i \in 1 .. call.off + Amount(app, call) : Cell(i) = Payload(i)
    <3> HIDE DEF m, got, n, c1
    <3> QED
      BY <2>1, <2>4, <2>5, MemMoved
  <2>7. c1.buf = call.buf \o g /\ n = call.off + Amount(app, call)
    <3> HIDE DEF m, got, n, c1
    <3> QED
      BY <1>1, <1>3, <1>4, <1>8, <2>3
  <2> HIDE DEF m, got, n, c1
  <2> QED
    BY <2>2, <2>6, <2>7
<1> HIDE DEF m, got, n, c1
<1>15. CASE k.res # "ok"
  <2>1. app' = k.h /\ call' = Finish(c, k.res) /\ req' = req
    BY <1>11, <1>15 DEF Over
  <2>2. /\ call' \in CallSet /\ Alike(call', c) /\ call'.st = "done" /\ call'.res = k.res /\ call'.off = c.off
        /\ call'.own = c.own /\ call'.did = c.did
    BY <1>1, <1>10, <2>1, FinishIs DEF Results
  <2>3. call'.op = call.op /\ call'.len = call.len /\ call'.off = call.off
    BY <1>1, <1>2, <2>2 DEF Alike
  <2>4. Delivered'
    BY <1>15, <2>2, NothingDelivered
  <2>5. FailureTold'
    <3>1. ASSUME c.own, ~c.did
          PROVE  k.res # "ok" /\ (k.res = "failed" /\ app.funcs.adiv5 = "v3" => k.h.fault # 0)
      BY <1>13, <3>1, FailureKnown
    <3> QED
      BY <1>10, <2>1, <2>2, <2>3, <3>1 DEF FailureTold
  <2>6. call.op = "mem_write" => Wrote
    <3>1. Alike(call', call)
      BY <1>1, <2>2 DEF Alike
    <3>2. c.own /\ call.op = "mem_write" => \A i \in 1 .. call.off : Cell(i) = Payload(i)
      BY <1>12, <1>13 DEF Progress, Prefix
    <3> QED
      BY <1>10, <2>1, <2>2, <2>3, <3>1, <3>2 DEF Wrote
  <2> QED
    BY <1>4, <1>10, <1>12, <2>1, <2>2, <2>3, <2>4, <2>5, <2>6 DEF Taken, Passed, Waiting
<1>16. CASE k.res = "ok" /\ c1.off < c1.len
  <2>1. Underway(k.h, c1)
    <3>1. (call.op = "mem_write" => c1.off % 2^c1.align = 0)
      <4>1. ASSUME call.op = "mem_write"
            PROVE  n % 2^call.align = 0
        <5>1. call.off % 2^call.align = 0 /\ m % 2^call.align = 0
          BY <1>1, <1>4, <4>1 DEF Underway
        <5>2. (call.off + m) % 2^call.align = 0
          BY <1>4, <5>1, Multiples, Zenon
        <5> QED
          BY <1>4, <5>2
      <4> QED
        BY <1>8, <1>9, <4>1
    <3>2. c1.off <= c1.len + 1
      BY <1>4, <1>8, <1>9
    <3>3. c1.op \notin {"shift", "cycle"}
      BY <1>9 DEF MemOps
    <3> QED
      BY <1>1, <1>8, <1>9, <1>10, <1>16, <3>1, <3>2, <3>3 DEF Underway
  <2>2. Ask(k.h, c1)
    BY <1>11, <1>16
  <2>3. PICK h, d : h \in AppSet /\ h = k.h /\ d = c1
    BY <1>10
  <2>4. /\ app' \in AppSet /\ call' \in CallSet /\ call'.off <= call'.len + 1
        /\ Waiting' /\ Underway(app', call') /\ app'.sent = app.sent + 1 /\ app'.funcs = h.funcs /\ call' = d
        /\ \E q \in RequestSet : Contained(q) /\ q.n = app.sent + 1 /\ req' = Append(req, q) /\ Asked(q)'
    BY <1>10, <2>1, <2>2, <2>3, AskTaken
  <2>5. call' = c1 /\ app'.funcs = app.funcs
    BY <1>10, <2>3, <2>4
  <2>6. ASSUME call'.own
        PROVE  Prefix' /\ call'.did
    <3>1. c.own
      BY <1>8, <2>5, <2>6
    <3>2. /\ call.op = "mem_read" => Len(c1.buf) = n /\ \A i \in 1 .. n : c1.buf[i] = Cell(i)
          /\ call.op = "mem_write" => \A i \in 1 .. n : Cell(i) = Payload(i)
          /\ c.did
      BY <1>14, <1>16, <3>1
    <3>3. Alike(call', call) /\ call'.off = n /\ call'.buf = c1.buf
      BY <1>8, <1>9, <2>5
    <3>4. Prefix'
      BY <2>4, <2>5, <3>2, <3>3, PrefixMoves
    <3> QED
      BY <1>8, <2>5, <3>2, <3>4
  <2>7. call'.op # "shift"
    BY <1>9, <2>5 DEF MemOps
  <2>8. call'.own => call.own /\ a.n = app.sent
    BY <1>8, <1>12, <2>5
  <2>9. call.op = "mem_write" => Wrote
    <3>1. Alike(call', call) /\ call'.off = call.off + Amount(app, call) /\ call'.own = c.own /\ n = call'.off
      BY <1>3, <1>4, <1>8, <1>9, <2>5
    <3>2. c.own /\ call.op = "mem_write" => \A i \in 1 .. n : Cell(i) = Payload(i)
      BY <1>14, <1>16
    <3> QED
      BY <2>5, <3>1, <3>2 DEF Wrote
  <2>10. call'.op = call.op
    BY <1>9, <2>5
  <2> QED
    BY <2>4, <2>6, <2>7, <2>8, <2>9, <2>10 DEF Taken, Passed
<1>17. CASE k.res = "ok" /\ ~(c1.off < c1.len)
  <2>1. app' = k.h /\ call' = Finish(c1, "ok") /\ req' = req
    BY <1>11, <1>17 DEF Over
  <2>2. /\ call' \in CallSet /\ Alike(call', c1) /\ call'.st = "done" /\ call'.res = "ok" /\ call'.off = n
        /\ call'.own = c.own /\ call'.did = c.did /\ call'.buf = c1.buf
    BY <1>8, <2>1, FinishIs DEF Results
  <2>3. call'.op = call.op /\ call'.len = call.len /\ call'.addr = call.addr /\ call'.dev = call.dev
    BY <1>9, <2>2 DEF Alike
  <2>4. n = call.len
    BY <1>4, <1>8, <1>9, <1>17
  <2>5. Delivered'
    <3>1. CASE ~c.own
      BY <2>2, <3>1, NothingDelivered
    <3>2. CASE c.own
      <4>1. /\ call.op = "mem_read" => Len(c1.buf) = n /\ \A i \in 1 .. n : c1.buf[i] = Cell(i)
            /\ call.op = "mem_write" => \A i \in 1 .. n : Cell(i) = Payload(i)
        BY <1>14, <1>17, <3>2
      <4>2. app'.funcs = app.funcs
        BY <1>10, <2>1
      <4>3. ASSUME app.funcs.adiv5 # "v0" \/ call.dev = 0
            PROVE  Addressed(app, call).dev = call.dev
        <5>1. app.funcs.adiv5 \in Forms
          BY <1>1, <1>13 DEF Underway
        <5> QED
          BY <1>1, <4>3, <5>1, AddressedIs DEF Forms
      <4>4. ASSUME app.funcs.adiv5 # "v0" \/ call.dev = 0, NEW i
            PROVE  Cell(i) = target'.mem[call'.dev][(call'.addr + i) - 1]
        BY <2>3, <4>3, <4>4 DEF Cell
      <4>5. call'.op # "shift"
        BY <2>3 DEF MemOps
      <4> QED
        BY <2>2, <2>3, <2>4, <4>1, <4>2, <4>4, <4>5 DEF Delivered, Succeeded, Payload
    <3> QED
      BY <3>1, <3>2
  <2>6. FailureTold'
    <3>1. c.own => c.did
      BY <1>14, <1>17
    <3> QED
      BY <2>2, <3>1 DEF FailureTold
  <2>7. call'.off <= call'.len + 1
    BY <1>4, <2>2, <2>3
  <2>8. call.op = "mem_write" => Wrote
    <3>1. Alike(call', call) /\ call'.off = call.off + Amount(app, call) /\ n = call'.off
      BY <1>3, <1>4, <1>9, <2>2 DEF Alike
    <3>2. c.own /\ call.op = "mem_write" => \A i \in 1 .. n : Cell(i) = Payload(i)
      BY <1>14, <1>17
    <3> QED
      BY <1>10, <2>1, <2>2, <3>1, <3>2 DEF Wrote
  <2> QED
    BY <1>10, <1>12, <2>1, <2>2, <2>3, <2>5, <2>6, <2>7, <2>8 DEF Taken, Passed, Waiting
<1> QED
  BY <1>15, <1>16, <1>17

\* A shift or a run of cycles reads an answer to one of its chunks and goes on.
LEMMA TapTaken ==
    ASSUME Shape, Waiting, Progress, call.op \in {"shift", "cycle"}, UNCHANGED target,
           NEW a \in AnswerSet, OwnTrue(a), NEW b, Kept(b, a), NEW c, Carried(c, a), TapChunk(app, c, b)
    PROVE  Taken(a)
<1> DEFINE m == Amount(app, c)
           got == [i \in 1 .. m |-> IF i \in DOMAIN b.val THEN b.val[i] ELSE Junk]
           n == c.off + m
           new == IF c.op = "shift" THEN c.buf \o got ELSE c.buf
           c1 == [c EXCEPT !.buf = new, !.off = n]
<1>1. /\ app \in AppSet /\ call \in CallSet /\ Underway(app, call) /\ c \in CallSet /\ Alike(c, call) /\ c.st = "wait"
      /\ c.off = call.off /\ c.buf = call.buf
  BY DEF Shape, Carried
<1>2. /\ c.op = call.op /\ c.len = call.len /\ c.addr = call.addr /\ c.align = call.align /\ c.size = call.size /\ c.dev = call.dev
  BY <1>1 DEF Alike
<1>3. m = Amount(app, call)
  BY <1>1, SameBlock, Zenon
<1>4. /\ m \in Nat /\ n \in Nat /\ n <= call.len /\ call.off \in Nat /\ call.len \in Nat
      /\ n = call.off + m
  <2>1. /\ m \in Nat /\ call.off \in Nat /\ call.len \in Nat
    BY <1>1, <1>3, AmountFits DEF CallSet
  <2>2. call.off + m <= call.len
    BY <1>1, <1>3, AmountFits DEF Blocks
  <2> QED
    BY <1>1, <2>1, <2>2
<1>5. b \in AnswerSet /\ b.val \in Seq(Int)
  BY DEF Kept, AnswerSet
<1>6. got \in Seq(Int) /\ Len(got) = m /\ \A i \in 1 .. m : i \in 1 .. Len(b.val) => got[i] = b.val[i]
  <2>1. got = [i \in 1 .. m |-> IF i \in DOMAIN b.val THEN b.val[i] ELSE Junk]
    OBVIOUS
  <2>2. m \in Nat /\ b.val \in Seq(Int)
    BY <1>4, <1>5
  <2> HIDE DEF m, got, n, new, c1
  <2> QED
    BY <2>1, <2>2 DEF Junk
<1>7. new \in Seq(Int)
  BY <1>1, <1>6, Joined DEF CallSet
<1>8. /\ c1 \in CallSet /\ Alike(c1, c) /\ c1.st = "wait" /\ c1.off = n /\ c1.buf = new
      /\ c1.own = c.own /\ c1.did = c.did
  <2>1. c \in CallSet /\ new \in Seq(Int) /\ n \in Nat /\ c.st = "wait"
    BY <1>1, <1>4, <1>7
  <2> HIDE DEF new, n
  <2> QED
    BY <2>1 DEF CallSet, Alike
<1>9. /\ c1.op = call.op /\ c1.len = call.len /\ c1.addr = call.addr /\ c1.align = call.align /\ c1.size = call.size /\ c1.dev = call.dev
  BY <1>2, <1>8 DEF Alike
<1>10. /\ c1.off < c1.len => Ask(app, c1)
       /\ ~(c1.off < c1.len) => Over(app, Finish(c1, "ok"))
  BY Zenon DEF TapChunk
<1>11. c.own => call.own /\ a.n = app.sent
  BY DEF Carried
<1>12. call.op \in Blocks /\ call.op \notin Adiv5 /\ call.op \notin MemOps
  BY DEF Adiv5, Blocks, MemOps
<1>13. ASSUME c.own, call.op = "shift"
       PROVE  /\ Len(c1.buf) = n /\ \A i \in 1 .. n : c1.buf[i] = Payload(i)
              /\ Shifted(n)
  <2>1. Truthful(a) /\ Prefix /\ call.own
    BY <1>11, <1>12, <1>13 DEF OwnTrue, Progress
  <2>2. Len(a.val) = m /\ (\A i \in 1 .. m : a.val[i] = Payload(call.off + i)) /\ Shifted(call.off + m)
    BY <1>3, <1>13, <2>1 DEF Truthful
  <2>3. Len(call.buf) = call.off /\ \A i \in 1 .. call.off : call.buf[i] = Payload(i)
    BY <1>13, <2>1 DEF Prefix
  <2>4. call.buf \in Seq(Int) /\ c1.buf = call.buf \o got
    BY <1>1, <1>2, <1>8, <1>13 DEF CallSet
  <2>5. m <= Chunk
    <3>1. m = Min({call.len - call.off, Chunk})
      BY <1>3, <1>13, AmountCases, Zenon
    <3>2. call.len - call.off \in Int /\ Chunk \in Int
      BY <1>4, MessageAssumption
    <3>3. Min({call.len - call.off, Chunk}) = IF call.len - call.off <= Chunk THEN call.len - call.off ELSE Chunk
      BY <3>2, MinPair, Zenon
    <3> HIDE DEF m
    <3> QED
      BY <3>1, <3>2, <3>3
  <2> HIDE DEF m, got, n, new, c1
  <2>6. ASSUME NEW i \in 1 .. m
        PROVE  got[i] = Payload(call.off + i)
    <3>1. 2 * i + 1 <= MaxMsg
      BY <1>4, <2>5, MessageAssumption
    <3>2. i \in 1 .. Len(a.val) /\ i \in 1 .. Len(b.val)
      BY <2>2 DEF Kept
    <3>3. b.val[i] = a.val[i]
      BY <3>1, <3>2 DEF Kept
    <3> QED
      BY <1>6, <2>2, <3>2, <3>3
  <2>7. /\ Len(c1.buf) = Len(call.buf) + Len(got)
        /\ \A i \in 1 .. Len(call.buf) + Len(got) : c1.buf[i] = IF i <= Len(call.buf) THEN call.buf[i] ELSE got[i - Len(call.buf)]
    <3>1. call.buf \in Seq(Int) /\ got \in Seq(Int)
      BY <1>6, <2>4
    <3>2. /\ Len(call.buf \o got) = Len(call.buf) + Len(got)
          /\ \A i \in 1 .. Len(call.buf) + Len(got) :
                (call.buf \o got)[i] = IF i <= Len(call.buf) THEN call.buf[i] ELSE got[i - Len(call.buf)]
      BY <3>1, Joined, Zenon
    <3> QED
      BY <2>4, <3>2, Zenon
  <2>8. ASSUME NEW i \in 1 .. n
        PROVE  c1.buf[i] = Payload(i)
    <3>1. c1.buf[i] = IF i <= call.off THEN call.buf[i] ELSE got[i - call.off]
      BY <1>4, <1>6, <2>3, <2>7
    <3>2. CASE i <= call.off
      BY <2>3, <3>1, <3>2
    <3>3. CASE ~(i <= call.off)
      <4>1. i - call.off \in 1 .. m /\ call.off + (i - call.off) = i
        BY <1>4, <3>3
      <4>2. got[i - call.off] = Payload(call.off + (i - call.off))
        BY <2>6, <4>1
      <4> QED
        BY <3>1, <3>3, <4>1, <4>2
    <3> QED
      BY <3>2, <3>3
  <2> QED
    BY <1>4, <1>6, <2>2, <2>3, <2>7, <2>8
<1> HIDE DEF m, got, n, new, c1
<1>14. CASE c1.off < c1.len
  <2>1. Underway(app, c1)
    <3>1. c1.off <= c1.len + 1 /\ c1.op \in Blocks /\ c1.op \notin MemOps /\ c1.op \notin Adiv5 /\ c1.op # "mem_write"
      BY <1>4, <1>8, <1>9, <1>12 DEF MemOps
    <3>2. c1.size <= 30 /\ (c1.op = "shift" => c1.size = 6)
      BY <1>1, <1>9 DEF Underway
    <3>3. ~(c1.op = "cycle" /\ app.funcs.cycle)
      <4> SUFFICES ASSUME call.op = "cycle", app.funcs.cycle
                   PROVE  FALSE
        BY <1>9
      <4>1. m = call.len
        BY <1>3, AmountCases
      <4> QED
        BY <1>4, <1>8, <1>9, <1>14, <4>1
    <3> QED
      BY <1>8, <1>14, <3>1, <3>2, <3>3 DEF Underway
  <2>2. Ask(app, c1)
    BY <1>10, <1>14
  <2>3. PICK h, d : h \in AppSet /\ h = app /\ d = c1
    BY <1>1
  <2>4. /\ app' \in AppSet /\ call' \in CallSet /\ call'.off <= call'.len + 1
        /\ Waiting' /\ Underway(app', call') /\ app'.sent = app.sent + 1 /\ call' = d
        /\ \E q \in RequestSet : Contained(q) /\ q.n = app.sent + 1 /\ req' = Append(req, q) /\ Asked(q)'
    BY <2>1, <2>2, <2>3, AskTaken
  <2>5. call' = c1
    BY <2>3, <2>4
  <2>6. ASSUME call'.own
        PROVE  Prefix' /\ (call'.op = "shift" => Shifted(call.off)')
    <3>1. c.own
      BY <1>8, <2>5, <2>6
    <3>2. call'.op \notin {"mem_read", "mem_write"} /\ call'.op = call.op /\ call'.len = call.len /\ call'.off = n
      BY <1>8, <1>9, <1>12, <2>5 DEF MemOps
    <3>3. CASE call.op = "shift"
      <4>1. Len(c1.buf) = n /\ (\A i \in 1 .. n : c1.buf[i] = Payload(i)) /\ Shifted(n)
        BY <1>13, <3>1, <3>3
      <4>2. Shifted(call.off)'
        BY <3>2, <4>1 DEF Shifted
      <4>3. Prefix'
        BY <2>5, <3>2, <4>1 DEF Prefix, Payload
      <4> QED
        BY <4>2, <4>3
    <3>4. CASE call.op # "shift"
      BY <3>2, <3>4 DEF Prefix
    <3> QED
      BY <3>3, <3>4
  <2>7. call'.op \notin Adiv5
    BY <1>9, <1>12, <2>5
  <2>8. call'.own => call.own /\ a.n = app.sent
    BY <1>8, <1>11, <2>5
  <2>9. call'.op # "mem_write" /\ call.op # "mem_write"
    BY <1>9, <2>5
  <2> QED
    BY <2>4, <2>6, <2>7, <2>8, <2>9 DEF Taken, Passed
<1>15. CASE ~(c1.off < c1.len)
  <2>1. app' = app /\ call' = Finish(c1, "ok") /\ req' = req
    BY <1>10, <1>15 DEF Over
  <2>2. /\ call' \in CallSet /\ Alike(call', c1) /\ call'.st = "done" /\ call'.res = "ok" /\ call'.off = n
        /\ call'.own = c.own /\ call'.did = c.did /\ call'.buf = c1.buf
    BY <1>8, <2>1, FinishIs DEF Results
  <2>3. call'.op = call.op /\ call'.len = call.len
    BY <1>9, <2>2 DEF Alike
  <2>4. n = call.len
    BY <1>4, <1>8, <1>9, <1>15
  <2>5. Delivered'
    <3>1. CASE ~c.own \/ call.op # "shift"
      BY <1>12, <2>2, <2>3, <3>1, NothingDelivered DEF MemOps
    <3>2. CASE c.own /\ call.op = "shift"
      <4>1. Len(c1.buf) = n /\ (\A i \in 1 .. n : c1.buf[i] = Payload(i)) /\ Shifted(n)
        BY <1>13, <3>2
      <4>2. Shifted(call.len)'
        BY <2>3, <2>4, <4>1 DEF Shifted
      <4> QED
        BY <2>2, <2>3, <2>4, <3>2, <4>1, <4>2 DEF Delivered, Succeeded, Payload
    <3> QED
      BY <3>1, <3>2
  <2>6. FailureTold'
    BY <1>12, <2>3 DEF FailureTold
  <2>7. call'.off <= call'.len + 1
    BY <1>4, <2>2, <2>3
  <2> QED
    BY <1>1, <1>11, <2>1, <2>2, <2>3, <2>5, <2>6, <2>7 DEF Taken, Passed, Waiting
<1> QED
  BY <1>14, <1>15

\* A call that is over and neither succeeds in a transfer nor accesses a debug port.
LEMMA OverTaken ==
    ASSUME NEW a, NEW h \in AppSet, h.sent = app.sent, NEW d \in CallSet, d.off <= d.len + 1,
           d.own => call.own /\ a.n = app.sent, NEW res \in Results, call.op \notin Adiv5,
           d.op \notin Adiv5, d.op # "shift" \/ res # "ok", Over(h, Finish(d, res))
    PROVE  Taken(a)
<1>1. app' = h /\ call' = Finish(d, res) /\ req' = req
  BY DEF Over
<1>2. /\ call' \in CallSet /\ Alike(call', d) /\ call'.st = "done" /\ call'.res = res /\ call'.off = d.off
      /\ call'.own = d.own
  BY <1>1, FinishIs
<1>3. call'.op = d.op /\ call'.len = d.len
  BY <1>2 DEF Alike
<1>4. call'.op \notin {"mem_read", "mem_write"}
  BY <1>3 DEF Adiv5
<1>5. Delivered'
  BY <1>2, <1>3, <1>4, NothingDelivered
<1>6. FailureTold'
  BY <1>3 DEF FailureTold
<1>7. call.op # "mem_write"
  BY DEF Adiv5
<1> QED
  BY <1>1, <1>2, <1>3, <1>4, <1>5, <1>6, <1>7 DEF Taken, Passed, Waiting

LEMMA AppSets ==
    ASSUME NEW h \in AppSet
    PROVE  /\ [h EXCEPT !.dead = TRUE] \in AppSet /\ [h EXCEPT !.dead = TRUE].sent = h.sent
           /\ \A f \in FuncSet : [h EXCEPT !.funcs = f] \in AppSet /\ [h EXCEPT !.funcs = f].sent = h.sent
           /\ \A i \in {"swd", "jtag"} : [h EXCEPT !.iface = i] \in AppSet /\ [h EXCEPT !.iface = i].sent = h.sent
BY DEF AppSet

\* The answer to HC selects one of the tables.
LEMMA ProtocolIs ==
    ASSUME NEW b
    PROVE  Protocol(b) \in FuncSet
<1>1. NoFuncs \in FuncSet
  BY DEF NoFuncs, FuncSet
<1>2. remote_v0_init \in FuncSet
  BY DEF NoFuncs, FuncSet, Forms, remote_v0_init
<1>3. remote_v0_plus_init \in FuncSet
  BY DEF NoFuncs, FuncSet, Forms, remote_v0_plus_init
<1>4. remote_v1_init \in FuncSet
  BY DEF NoFuncs, FuncSet, Forms, remote_v1_init
<1>5. remote_v2_init \in FuncSet
  BY DEF NoFuncs, FuncSet, Forms, remote_v2_init
<1>6. remote_v3_init \in FuncSet
  BY <1>5 DEF FuncSet, Forms, remote_v3_init
<1>7. \/ b.code # OK \/ b.val = <<0>> \/ b.val = <<1>> \/ b.val = <<2>> \/ b.val = <<3>>
      \/ (b.code = OK /\ b.val # <<0>> /\ b.val # <<1>> /\ b.val # <<2>> /\ b.val # <<3>>)
  OBVIOUS
<1>8. <<0>> # <<1>> /\ <<0>> # <<2>> /\ <<0>> # <<3>> /\ <<1>> # <<2>> /\ <<1>> # <<3>> /\ <<2>> # <<3>>
  OBVIOUS
<1>9. CASE b.code # OK
  BY <1>2, <1>9, Zenon DEF Protocol
<1>10. CASE b.code = OK /\ b.val = <<0>>
  BY <1>3, <1>8, <1>10, Zenon DEF Protocol
<1>11. CASE b.code = OK /\ b.val = <<1>>
  BY <1>4, <1>8, <1>11, Zenon DEF Protocol
<1>12. CASE b.code = OK /\ b.val = <<2>>
  BY <1>5, <1>8, <1>12, Zenon DEF Protocol
<1>13. CASE b.code = OK /\ b.val = <<3>>
  BY <1>6, <1>8, <1>13, Zenon DEF Protocol
<1>14. CASE b.code = OK /\ b.val # <<0>> /\ b.val # <<1>> /\ b.val # <<2>> /\ b.val # <<3>>
  BY <1>1, <1>14, Zenon DEF Protocol
<1> QED
  BY <1>9, <1>10, <1>11, <1>12, <1>13, <1>14

\* A call of one request that is asked again under another letter.
LEMMA NextTaken ==
    ASSUME NEW a, NEW h \in AppSet, h.sent = app.sent, NEW d \in CallSet, d.st = "wait", d.size <= 30, d.off <= d.len + 1,
           d.own => call.own /\ a.n = app.sent, d.op \in {"HC", "GP"}, call.op # "mem_write", Ask(h, d)
    PROVE  Taken(a)
<1>1. d.op \notin Adiv5 /\ d.op \notin Blocks /\ d.op \notin MemOps /\ d.op \notin {"shift", "cycle", "mem_write"}
  BY DEF Adiv5, Blocks, MemOps
<1>2. Underway(h, d)
  BY <1>1 DEF Underway
<1>3. /\ app' \in AppSet /\ call' \in CallSet /\ call'.off <= call'.len + 1
      /\ Waiting' /\ Underway(app', call') /\ app'.sent = app.sent + 1 /\ call' = d
      /\ \E q \in RequestSet : Contained(q) /\ q.n = app.sent + 1 /\ req' = Append(req, q) /\ Asked(q)'
  BY <1>2, AskTaken
<1> QED
  BY <1>1, <1>3 DEF Taken, Passed

\* remote_init reads an answer.
LEMMA InitTaken ==
    ASSUME Shape, Waiting, NEW a \in AnswerSet, NEW b, Kept(b, a), NEW c, Carried(c, a),
           call.op \in {"GA", "HC", "GP"}, remote_init(app, c, b)
    PROVE  Taken(a)
<1>1. /\ app \in AppSet /\ call \in CallSet /\ Underway(app, call) /\ c \in CallSet /\ Alike(c, call) /\ c.st = "wait"
      /\ c.off = call.off /\ (c.own => call.own /\ a.n = app.sent)
  BY DEF Shape, Carried
<1>2. c.op = call.op /\ c.len = call.len /\ c.size = call.size /\ c.off <= c.len + 1 /\ c.size <= 30
  BY <1>1 DEF Alike, Underway
<1>3. c.op \notin Adiv5 /\ c.op # "shift" /\ "failed" \in Results /\ "ok" \in Results
  BY <1>2 DEF Adiv5, Results
<1>4. [app EXCEPT !.dead = TRUE] \in AppSet /\ [app EXCEPT !.dead = TRUE].sent = app.sent
  BY <1>1, AppSets
<1>5. ASSUME Over([app EXCEPT !.dead = TRUE], Finish(c, "failed"))
      PROVE  Taken(a)
  <2>1. PICK h \in AppSet, res \in Results : h = [app EXCEPT !.dead = TRUE] /\ res = "failed"
    BY <1>3, <1>4
  <2>2. Over(h, Finish(c, res)) /\ h.sent = app.sent
    BY <1>4, <1>5, <2>1
  <2> QED
    BY <1>1, <1>2, <1>3, <2>2, OverTaken
<1>6. CASE c.op = "GA" /\ c.off = 0
  <2>1. \/ Over([app EXCEPT !.dead = TRUE], Finish(c, "failed")) \/ Ask(app, [c EXCEPT !.op = "HC"])
    BY <1>6, Zenon DEF remote_init
  <2>2. ASSUME Ask(app, [c EXCEPT !.op = "HC"])
        PROVE  Taken(a)
    <3>1. PICK d : d = [c EXCEPT !.op = "HC"]
      OBVIOUS
    <3>2. /\ d \in CallSet /\ d.st = "wait" /\ d.size = c.size /\ d.off = c.off /\ d.len = c.len /\ d.own = c.own /\ d.op = "HC"
      BY <1>1, <3>1 DEF CallSet, Ops
    <3>3. Ask(app, d)
      BY <2>2, <3>1
    <3> QED
      BY <1>1, <1>2, <3>2, <3>3, NextTaken
  <2> QED
    BY <1>5, <2>1, <2>2
<1>7. CASE c.op = "HC"
  <2>1. \/ Over([app EXCEPT !.dead = TRUE], Finish(c, "failed"))
        \/ Ask([app EXCEPT !.funcs = Protocol(b)], [c EXCEPT !.op = "GP", !.off = 1])
    <3>1. ~(c.op = "GA" /\ c.off = 0)
      BY <1>7
    <3> QED
      BY <1>7, <3>1, Zenon DEF remote_init
  <2>2. ASSUME Ask([app EXCEPT !.funcs = Protocol(b)], [c EXCEPT !.op = "GP", !.off = 1])
        PROVE  Taken(a)
    <3>1. PICK d : d = [c EXCEPT !.op = "GP", !.off = 1]
      OBVIOUS
    <3>2. /\ d \in CallSet /\ d.st = "wait" /\ d.size = c.size /\ d.off = 1 /\ d.len = c.len /\ d.own = c.own /\ d.op = "GP" /\ c.len \in Nat
      BY <1>1, <3>1 DEF CallSet, Ops, General
    <3>3. PICK h : h = [app EXCEPT !.funcs = Protocol(b)]
      OBVIOUS
    <3>4. h \in AppSet /\ h.sent = app.sent
      <4>1. PICK f \in FuncSet : f = Protocol(b)
        BY ProtocolIs
      <4> QED
        BY <1>1, <3>3, <4>1, AppSets
    <3>5. Ask(h, d) /\ d.off <= d.len + 1
      BY <2>2, <3>1, <3>2, <3>3
    <3> QED
      BY <1>1, <1>2, <3>2, <3>4, <3>5, NextTaken
  <2> QED
    BY <1>5, <2>1, <2>2
<1>8. CASE ~(c.op = "GA" /\ c.off = 0) /\ c.op # "HC"
  <2>1. Over(app, Finish(c, "ok"))
    BY <1>8, Zenon DEF remote_init
  <2>2. PICK res \in Results : res = "ok"
    BY <1>3
  <2>3. Over(app, Finish(c, res))
    BY <2>1, <2>2
  <2> QED
    BY <1>1, <1>2, <1>3, <2>3, OverTaken
<1> QED
  BY <1>6, <1>7, <1>8

\* A call of one request, or a failed shift.
LEMMA SingleTaken ==
    ASSUME Shape, Waiting, NEW a \in AnswerSet, NEW b, Kept(b, a), NEW c, Carried(c, a), NEW f \in BOOLEAN,
           call.op \notin Adiv5, call.op # "shift" \/ f, Single(app, c, b, f)
    PROVE  Taken(a)
<1>1. /\ app \in AppSet /\ call \in CallSet /\ Underway(app, call) /\ c \in CallSet /\ Alike(c, call)
      /\ c.off = call.off /\ (c.own => call.own /\ a.n = app.sent)
  BY DEF Shape, Carried
<1>2. c.op = call.op /\ c.len = call.len /\ c.off <= c.len + 1
  BY <1>1 DEF Alike, Underway
<1>3. "failed" \in Results /\ "ok" \in Results
  BY DEF Results
<1>4. [app EXCEPT !.dead = TRUE] \in AppSet /\ [app EXCEPT !.dead = TRUE].sent = app.sent
  BY <1>1, AppSets
<1>5. CASE f
  <2>1. \E h \in {app, [app EXCEPT !.dead = TRUE]} : Over(h, Finish(c, "failed"))
    <3>1. CASE c.op \in Exits
      BY <1>5, <3>1, Zenon DEF Single
    <3>2. CASE c.op \notin Exits
      BY <1>5, <3>2, Zenon DEF Single
    <3> QED
      BY <3>1, <3>2
  <2>2. PICK h \in {app, [app EXCEPT !.dead = TRUE]} : Over(h, Finish(c, "failed"))
    BY <2>1
  <2>3. PICK res \in Results : res = "failed"
    BY <1>3
  <2>4. h \in AppSet /\ h.sent = app.sent /\ Over(h, Finish(c, res)) /\ res # "ok"
    BY <1>1, <1>4, <2>2, <2>3
  <2> QED
    BY <1>1, <1>2, <2>4, OverTaken
<1>6. CASE ~f
  <2>1. Over(SwdInit(JtagInit(app, c.op), c.op), Finish([c EXCEPT !.buf = b.val], "ok"))
    BY <1>6, Zenon DEF Single
  <2>2. PICK d : d = [c EXCEPT !.buf = b.val]
    OBVIOUS
  <2>3. d \in CallSet /\ d.off = c.off /\ d.len = c.len /\ d.own = c.own /\ d.op = c.op
    <3>1. b.val \in Seq(Int)
      BY DEF Kept, AnswerSet
    <3> QED
      BY <1>1, <2>2, <3>1 DEF CallSet
  <2>4. PICK h, res : h = SwdInit(JtagInit(app, c.op), c.op) /\ res = "ok"
    OBVIOUS
  <2>5. h \in AppSet /\ h.sent = app.sent
    <3>1. CASE c.op = "SS"
      <4>1. h = [app EXCEPT !.iface = "swd"]
        BY <2>4, <3>1 DEF SwdInit, JtagInit
      <4> QED
        BY <1>1, <4>1, AppSets
    <3>2. CASE c.op = "JS"
      <4>1. h = [app EXCEPT !.iface = "jtag"]
        BY <2>4, <3>2 DEF SwdInit, JtagInit
      <4> QED
        BY <1>1, <4>1, AppSets
    <3>3. CASE c.op \notin {"SS", "JS"}
      BY <1>1, <2>4, <3>3 DEF SwdInit, JtagInit
    <3> QED
      BY <3>1, <3>2, <3>3
  <2>6. Over(h, Finish(d, res)) /\ res \in Results
    BY <1>3, <2>1, <2>2, <2>4
  <2> QED
    BY <1>1, <1>2, <1>6, <2>3, <2>5, <2>6, OverTaken
<1> QED
  BY <1>5, <1>6

\* An access to a debug or access port reads its answer.
LEMMA AccessTaken ==
    ASSUME Shape, Waiting, Progress, call.op \in Adiv5 \ MemOps, NEW a \in AnswerSet, OwnTrue(a), NEW b, Kept(b, a),
           NEW c, Carried(c, a), NEW k, Checked(app, b, k), Over(k.h, Finish([c EXCEPT !.buf = b.val], k.res))
    PROVE  Taken(a)
<1>1. /\ app \in AppSet /\ call \in CallSet /\ Underway(app, call) /\ c \in CallSet /\ Alike(c, call)
      /\ c.off = call.off /\ (c.own => call.own /\ a.n = app.sent)
  BY DEF Shape, Carried
<1>2. c.op = call.op /\ c.len = call.len /\ c.off <= c.len + 1
  BY <1>1 DEF Alike, Underway
<1>3. /\ k.h \in AppSet /\ k.h.funcs = app.funcs /\ k.h.sent = app.sent
      /\ k.res \in Results
  BY DEF Checked, Results
<1>4. PICK d : d = [c EXCEPT !.buf = b.val]
  OBVIOUS
<1>5. d \in CallSet /\ d.off = c.off /\ d.len = c.len /\ d.own = c.own /\ d.did = c.did /\ d.op = c.op
  <2>1. b.val \in Seq(Int)
    BY DEF Kept, AnswerSet
  <2> QED
    BY <1>1, <1>4, <2>1 DEF CallSet
<1>6. app' = k.h /\ call' = Finish(d, k.res) /\ req' = req
  BY <1>4 DEF Over
<1>7. /\ call' \in CallSet /\ Alike(call', d) /\ call'.st = "done" /\ call'.res = k.res /\ call'.off = d.off
      /\ call'.own = d.own /\ call'.did = d.did
  BY <1>3, <1>5, <1>6, FinishIs
<1>8. call'.op = call.op /\ call'.len = d.len
  BY <1>2, <1>5, <1>7 DEF Alike
<1>9. call'.op \notin {"mem_read", "mem_write", "shift"}
  BY <1>8 DEF Adiv5, MemOps
<1>10. Delivered'
  BY <1>7, <1>9, NothingDelivered
<1>11. FailureTold'
  <2>1. ASSUME c.own, ~c.did
        PROVE  k.res # "ok" /\ (k.res = "failed" /\ app.funcs.adiv5 = "v3" => k.h.fault # 0)
    BY <2>1, FailureKnown
  <2> QED
    BY <1>3, <1>5, <1>6, <1>7, <2>1 DEF FailureTold
<1> QED
  BY <1>1, <1>2, <1>3, <1>5, <1>6, <1>7, <1>8, <1>9, <1>10, <1>11 DEF Taken, Passed, Waiting

LEMMA FailuresAre ==
    ASSUME NEW c, NEW b, NEW f \in Failures(c, b)
    PROVE  f \in BOOLEAN
<1>1. CASE c.op = "HJ"
  <2>0. c.op # "SO" /\ c.op \notin Lax
    BY <1>1 DEF Lax, Jtag
  <2>1. f \in {FALSE}
    BY <1>1, <2>0, Zenon DEF Failures
  <2> QED
    BY <2>1
<1>2. CASE c.op = "SO"
  <2>1. f \in {b.code = "-4"}
    BY <1>2, Zenon DEF Failures, Lax, Jtag
  <2> QED
    BY <2>1
<1>3. CASE c.op \in Lax /\ b.code = "-4"
  <2>1. c.op # "HJ" /\ c.op # "SO"
    BY <1>3 DEF Lax, Jtag
  <2>2. f \in BOOLEAN
    BY <1>3, <2>1, Zenon DEF Failures
  <2> QED
    BY <2>2
<1>4. CASE c.op # "HJ" /\ c.op # "SO" /\ ~(c.op \in Lax /\ b.code = "-4")
  <2>1. f \in {b.code \in {"-4", ERR}}
    BY <1>4, Zenon DEF Failures
  <2> QED
    BY <2>1
<1> QED
  BY <1>1, <1>2, <1>3, <1>4

\* Whatever the call is, reading an answer, or none, is one of these.
LEMMA TakeTaken ==
    ASSUME Shape, Waiting, Progress, UNCHANGED target, NEW a \in AnswerSet, OwnTrue(a), Take(a)
    PROVE  Taken(a)
<1> DEFINE b == platform_buffer_read(a)
           c == [call EXCEPT !.own = @ /\ b.n = app.sent, !.did = @ /\ b.did]
<1>1. Kept(b, a)
  BY BufferRead DEF Kept
<1>2. app \in AppSet /\ call \in CallSet /\ call.st = "wait" /\ Underway(app, call)
  BY DEF Shape, Waiting
<1>3. Carried(c, a)
  <2>1. b.n = a.n /\ b.did = a.did /\ a.did \in BOOLEAN
    BY <1>1 DEF Kept, AnswerSet
  <2>2. PICK p \in BOOLEAN, q \in BOOLEAN : p = (call.own /\ b.n = app.sent) /\ q = (call.did /\ b.did)
    OBVIOUS
  <2>3. c = [call EXCEPT !.own = p, !.did = q]
    BY <1>2, <2>2, Zenon DEF CallSet
  <2> HIDE DEF b, c
  <2>4. c \in CallSet /\ Alike(c, call) /\ c.st = call.st /\ c.off = call.off /\ c.buf = call.buf /\ c.own = p /\ c.did = q
    <3>1. call \in CallSet /\ p \in BOOLEAN /\ q \in BOOLEAN
      BY <1>2, <2>2
    <3> QED
      BY <2>3, <3>1 DEF CallSet, Alike
  <2> QED
    BY <1>2, <2>1, <2>2, <2>4 DEF Carried
<1>4. b \in AnswerSet
  BY <1>1 DEF Kept
<1>5. Checked(app, b, v3_check_error(app, b))
      /\ (app.funcs.adiv5 = "v0" => Checked(app, b, v0_check_error(app, b)))
      /\ (app.funcs.adiv5 = "v1" => Checked(app, b, v1_check_error(app, b)))
  <2> HIDE DEF b
  <2> QED
    BY <1>2, <1>4, ChecksAre, Zenon
<1>6. call.op \in Adiv5 => app.funcs.adiv5 \in {"v0", "v1", "v3"}
  BY <1>2 DEF Underway, Forms
<1>7. CASE call.op \in {"GA", "HC"} \/ (call.op = "GP" /\ call.off = 1)
  <2>0. call.op \notin {"mem_read", "mem_write"} /\ call.op \notin Adiv5 /\ call.op \notin {"shift", "cycle"}
    BY <1>7 DEF Adiv5
  <2>1. remote_init(app, c, b)
    BY <1>7, <2>0, Zenon DEF Take
  <2>2. call.op \in {"GA", "HC", "GP"}
    BY <1>7
  <2>3. PICK x, y : x = b /\ y = c
    OBVIOUS
  <2>4. Kept(x, a) /\ Carried(y, a) /\ remote_init(app, y, x)
    BY <1>1, <1>3, <2>1, <2>3
  <2> QED
    BY <2>2, <2>4, InitTaken
<1>8. CASE call.op \in MemOps
  <2>1. ~(call.op \in {"GA", "HC"} \/ (call.op = "GP" /\ call.off = 1)) /\ call.op \in Adiv5
    BY <1>8 DEF MemOps, Adiv5
  <2>2. \E k : Checked(app, b, k) /\ MemBlock(app, c, b, k)
    <3>1. CASE app.funcs.adiv5 = "v0"
      <4>1. remote_v0_adiv5_mem(app, c, b)
        BY <1>8, <2>1, <3>1, Zenon DEF Take, MemOps
      <4> HIDE DEF b, c
      <4> QED
        BY <1>5, <3>1, <4>1, Zenon DEF remote_v0_adiv5_mem
    <3>2. CASE app.funcs.adiv5 = "v1"
      <4>0. "v1" # "v0"
        OBVIOUS
      <4>1. remote_v1_adiv5_mem(app, c, b)
        BY <1>8, <2>1, <3>2, <4>0, Zenon DEF Take, MemOps
      <4> HIDE DEF b, c
      <4> QED
        BY <1>5, <3>2, <4>1, Zenon DEF remote_v1_adiv5_mem
    <3>3. CASE app.funcs.adiv5 = "v3"
      <4>0. "v3" # "v0" /\ "v3" # "v1"
        OBVIOUS
      <4>1. remote_v3_adiv5_mem(app, c, b)
        BY <1>8, <2>1, <3>3, <4>0, Zenon DEF Take, MemOps
      <4> HIDE DEF b, c
      <4> QED
        BY <1>5, <3>3, <4>1, Zenon DEF remote_v3_adiv5_mem
    <3> QED
      BY <1>6, <2>1, <3>1, <3>2, <3>3
  <2>3. PICK k : Checked(app, b, k) /\ MemBlock(app, c, b, k)
    BY <2>2
  <2>4. PICK x, y : x = b /\ y = c
    OBVIOUS
  <2>5. Kept(x, a) /\ Carried(y, a) /\ Checked(app, x, k) /\ MemBlock(app, y, x, k)
    BY <1>1, <1>3, <2>3, <2>4
  <2> QED
    BY <1>8, <2>5, MemTaken
<1>9. CASE call.op \in Adiv5 \ MemOps
  <2>1. /\ ~(call.op \in {"GA", "HC"} \/ (call.op = "GP" /\ call.off = 1))
        /\ call.op \notin {"mem_read", "mem_write"} /\ call.op \in Adiv5 \ {"mem_read", "mem_write"}
        /\ call.op \notin {"shift", "cycle"}
    BY <1>9 DEF MemOps, Adiv5
  <2>2. LET k == remote_adiv5_check_error(app, b) IN Over(k.h, Finish([c EXCEPT !.buf = b.val], k.res))
    BY <2>1, Zenon DEF Take
  <2>3. Checked(app, b, remote_adiv5_check_error(app, b))
    <3> HIDE DEF b, c
    <3>0. "v1" # "v0" /\ "v3" # "v0" /\ "v3" # "v1"
      OBVIOUS
    <3>1. CASE app.funcs.adiv5 = "v0"
      BY <1>5, <3>1, Zenon DEF remote_adiv5_check_error
    <3>2. CASE app.funcs.adiv5 = "v1"
      BY <1>5, <3>0, <3>2, Zenon DEF remote_adiv5_check_error
    <3>3. CASE app.funcs.adiv5 = "v3"
      BY <1>5, <3>0, <3>3, Zenon DEF remote_adiv5_check_error
    <3> QED
      BY <1>6, <2>1, <3>1, <3>2, <3>3
  <2>4. PICK x, y, k : x = b /\ y = c /\ k = remote_adiv5_check_error(app, b)
    OBVIOUS
  <2>5. Kept(x, a) /\ Carried(y, a) /\ Checked(app, x, k) /\ Over(k.h, Finish([y EXCEPT !.buf = x.val], k.res))
    BY <1>1, <1>3, <2>2, <2>3, <2>4
  <2> QED
    BY <1>9, <2>5, AccessTaken
<1>10. CASE call.op \in {"shift", "cycle"}
  <2>1. /\ ~(call.op \in {"GA", "HC"} \/ (call.op = "GP" /\ call.off = 1))
        /\ call.op \notin {"mem_read", "mem_write"} /\ call.op \notin Adiv5
    BY <1>10 DEF Adiv5
  <2>2. \E f \in Failures(c, b) : IF f THEN Single(app, c, b, TRUE) ELSE TapChunk(app, c, b)
    BY <1>10, <2>1, Zenon DEF Take
  <2>3. PICK x, y : x = b /\ y = c
    OBVIOUS
  <2>4. Kept(x, a) /\ Carried(y, a) /\ \E f \in Failures(y, x) : IF f THEN Single(app, y, x, TRUE) ELSE TapChunk(app, y, x)
    BY <1>1, <1>3, <2>2, <2>3
  <2>5. CASE Single(app, y, x, TRUE)
    <3>1. PICK f \in BOOLEAN : f = TRUE
      OBVIOUS
    <3>2. Single(app, y, x, f) /\ f
      BY <2>5, <3>1
    <3> QED
      BY <2>1, <2>4, <3>2, SingleTaken
  <2>6. CASE TapChunk(app, y, x)
    BY <1>10, <2>4, <2>6, TapTaken
  <2> QED
    BY <2>4, <2>5, <2>6
<1>11. CASE /\ ~(call.op \in {"GA", "HC"} \/ (call.op = "GP" /\ call.off = 1))
            /\ call.op \notin Adiv5 /\ call.op \notin {"shift", "cycle"}
  <2>1. call.op \notin {"mem_read", "mem_write"} /\ call.op \notin Adiv5 \ {"mem_read", "mem_write"} /\ call.op # "shift"
    BY <1>11 DEF Adiv5
  <2>2. \E f \in Failures(c, b) : Single(app, c, b, f)
    BY <1>11, <2>1, Zenon DEF Take
  <2>3. PICK x, y : x = b /\ y = c
    OBVIOUS
  <2>4. Kept(x, a) /\ Carried(y, a) /\ \E f \in Failures(y, x) : Single(app, y, x, f)
    BY <1>1, <1>3, <2>2, <2>3
  <2>5. PICK f \in Failures(y, x) : Single(app, y, x, f)
    BY <2>4
  <2>6. f \in BOOLEAN
    BY <2>5, FailuresAre
  <2> QED
    BY <1>11, <2>1, <2>4, <2>5, <2>6, SingleTaken
<1> QED
  BY <1>7, <1>8, <1>9, <1>10, <1>11

\* What a call took, with the queue of answers and the count of late ones it leaves.
LEMMA PassedKeeps ==
    ASSUME RInv, Passed, UNCHANGED <<probe, target>>, calls' \in 0 .. MaxCalls,
           answers' \in Seq(AnswerSet), late' \in Nat, upsets' \in 0 .. MaxUpsets, Len(answers') + Len(req) = late',
           \A i \in 1 .. Len(answers') : answers'[i].n = (app.sent - late') + i,
           call'.own => late' = 0 \/ (call'.off = 0 /\ (Waiting' \/ call'.len = 0))
    PROVE  RInv'
<1>0. Shape /\ Paired
  BY DEF RInv
<1>1. /\ req \in Seq(RequestSet) /\ Len(req) \in Nat /\ Len(answers') \in Nat /\ app.sent \in Nat
      /\ (\A i \in 1 .. Len(req) : Contained(req[i])) /\ (\A i \in 1 .. Len(req) : req[i].n = (app.sent - Len(req)) + i)
      /\ probe \in ProbeSet /\ target \in TargetSet /\ Known(target)
  BY <1>0 DEF Shape, Paired, AppSet
<1>2. /\ app' \in AppSet /\ call' \in CallSet /\ call'.off <= call'.len + 1
  BY DEF Taken, Passed
<1>3. Known(target)' /\ probe' \in ProbeSet /\ target' \in TargetSet /\ calls' \in 0 .. MaxCalls
  BY <1>1 DEF Known
<1>4. CASE Waiting'
  <2>1. /\ Underway(app', call') /\ app'.sent = app.sent + 1
        /\ \E q \in RequestSet : Contained(q) /\ q.n = app.sent + 1 /\ req' = Append(req, q) /\ Asked(q)'
        /\ call'.op \in Blocks /\ call'.own => Prefix' /\ (call'.op = "shift" /\ call'.off > 0 => Shifted(call.off)')
        /\ call'.op \in Adiv5 /\ call'.own => call'.did
    BY <1>4 DEF Taken, Passed
  <2>2. PICK q \in RequestSet : Contained(q) /\ q.n = app.sent + 1 /\ req' = Append(req, q) /\ Asked(q)'
    BY <2>1
  <2>3. /\ req' \in Seq(RequestSet) /\ Len(req') = Len(req) + 1 /\ req' # <<>> /\ req'[Len(req) + 1] = q
        /\ \A i \in 1 .. Len(req) : req'[i] = req[i]
    <3>1. /\ Append(req, q) \in Seq(RequestSet) /\ Len(Append(req, q)) = Len(req) + 1 /\ Append(req, q) # <<>>
          /\ Append(req, q)[Len(req) + 1] = q /\ \A i \in 1 .. Len(req) : Append(req, q)[i] = req[i]
      <4>1. req \in Seq(RequestSet)
        BY <1>1
      <4>2. PICK S, s : S = RequestSet /\ s = req
        OBVIOUS
      <4>3. s \in Seq(S) /\ q \in S
        BY <4>1, <4>2
      <4>4. /\ Append(s, q) \in Seq(S) /\ Len(Append(s, q)) = Len(s) + 1 /\ Append(s, q) # <<>>
            /\ Append(s, q)[Len(s) + 1] = q /\ \A i \in 1 .. Len(s) : Append(s, q)[i] = s[i]
        BY <4>3, Queues
      <4> QED
        BY <4>2, <4>4, Zenon
    <3> QED
      BY <2>2, <3>1, Zenon
  <2>4. Shape'
    <3>1. \A i \in 1 .. Len(req') : Contained(req[i])'
      <4> SUFFICES ASSUME NEW i \in 1 .. Len(req')
                   PROVE  Contained(req'[i])
        BY DEF Contained
      <4>1. CASE i <= Len(req)
        <5>1. i \in 1 .. Len(req)
          BY <1>1, <4>1
        <5> QED
          BY <1>1, <2>3, <5>1, Zenon
      <4>2. CASE i = Len(req) + 1
        BY <2>2, <2>3, <4>2
      <4> QED
        BY <1>1, <2>3, <4>1, <4>2
    <3>2. app'.sent >= 1 /\ Underway(app, call)'
      BY <1>1, <2>1 DEF Underway
    <3> QED
      BY <1>2, <1>3, <2>3, <3>1, <3>2 DEF Shape
  <2>5. Paired'
    <3>1. Pending' = late' + 1 /\ Pending' = (Len(answers') + Len(req)) + 1
      <4>1. Pending' = Len(answers') + (Len(req) + 1)
        BY <2>3 DEF Pending
      <4> QED
        BY <1>1, <4>1
    <3>2. ASSUME NEW i \in 1 .. Len(answers')
          PROVE  answers'[i].n = (app'.sent - Pending') + i
      <4>1. answers'[i].n = (app.sent - late') + i
        OBVIOUS
      <4>2. late' \in Int /\ app.sent \in Int /\ i \in Int
        BY <1>1
      <4>3. ((app.sent + 1) - (late' + 1)) + i = (app.sent - late') + i
        BY <4>2
      <4> QED
        BY <2>1, <3>1, <4>1, <4>3, Zenon
    <3>3. ASSUME NEW i \in 1 .. Len(req')
          PROVE  req'[i].n = (app'.sent - Len(req')) + i
      <4>0. Len(req) \in Int /\ app.sent \in Int /\ i \in Int /\ 1 <= i /\ i <= Len(req) + 1
        BY <1>1, <2>3
      <4>1. CASE i <= Len(req)
        <5>0. i \in 1 .. Len(req)
          BY <4>0, <4>1
        <5>1. req'[i].n = (app.sent - Len(req)) + i
          BY <1>1, <2>3, <5>0, Zenon
        <5>2. ((app.sent + 1) - (Len(req) + 1)) + i = (app.sent - Len(req)) + i
          BY <4>0, ShiftBoth, Zenon
        <5> QED
          BY <2>1, <2>3, <5>1, <5>2, Zenon
      <4>2. CASE i = Len(req) + 1
        <5>1. req'[i].n = app.sent + 1
          BY <2>2, <2>3, <4>2
        <5>2. ((app.sent + 1) - (Len(req) + 1)) + (Len(req) + 1) = app.sent + 1
          BY <4>0
        <5> QED
          BY <2>1, <2>3, <4>2, <5>1, <5>2, Zenon
      <4> QED
        BY <4>0, <4>1, <4>2
    <3> QED
      BY <1>4, <3>1, <3>2, <3>3 DEF Paired
  <2>6. Progress'
    <3>1. Asked(req[Len(req)])'
      <4>1. req'[Len(req')] = q
        BY <2>3
      <4> QED
        BY <2>2, <4>1 DEF Asked
    <3>2. req' # <<>>
      BY <2>3
    <3> QED
      BY <1>2, <1>4, <2>1, <3>1, <3>2 DEF Progress, CallSet
  <2>7. Ending'
    BY <1>4 DEF Ending
  <2> QED
    BY <2>4, <2>5, <2>6, <2>7 DEF RInv
<1>5. CASE ~Waiting'
  <2>1. app'.sent = app.sent /\ req' = req /\ Delivered' /\ FailureTold'
    BY <1>5 DEF Taken, Passed
  <2>2. Shape'
    <3>1. \A i \in 1 .. Len(req') : Contained(req[i])'
      BY <1>1, <2>1 DEF Contained
    <3> QED
      BY <1>1, <1>2, <1>3, <1>5, <2>1, <3>1 DEF Shape
  <2>3. Paired'
    <3>1. Pending' = late'
      BY <2>1, Zenon DEF Pending
    <3>2. late' + 0 = late'
      BY PlusZero, Zenon
    <3> QED
      BY <1>1, <1>5, <2>1, <3>1, <3>2 DEF Paired
  <2>4. Progress'
    BY <1>5 DEF Progress
  <2>5. Moves'
    BY <1>2, <1>5, <2>1 DEF Moves, Succeeded, CallSet
  <2> QED
    BY <1>5, <2>1, <2>2, <2>3, <2>4, <2>5 DEF RInv, Ending
<1> QED
  BY <1>4, <1>5

LEMMA ReadTaken ==
    ASSUME RInv, Read
    PROVE  \E x \in AnswerSet : Taken(x) /\ (call'.own => late' = 0)
<1> DEFINE a == Head(answers)
<1>0. Shape /\ Paired /\ Progress
  BY DEF RInv
<1>1. Waiting /\ answers # <<>> /\ Take(a) /\ answers' = Tail(answers) /\ UNCHANGED <<probe, target, late, upsets, calls>>
  BY DEF Read
<1>2. /\ answers \in Seq(AnswerSet) /\ Len(answers) \in Nat /\ Len(answers) >= 1 /\ a = answers[1] /\ a \in AnswerSet
      /\ answers' \in Seq(AnswerSet) /\ Len(answers') = Len(answers) - 1
      /\ \A i \in 1 .. Len(answers) - 1 : answers'[i] = answers[i + 1]
  BY <1>0, <1>1, Queues DEF Shape
<1>3. /\ late \in Nat /\ upsets \in 0 .. MaxUpsets /\ app.sent \in Nat /\ req \in Seq(RequestSet) /\ Len(req) \in Nat
      /\ calls \in 0 .. MaxCalls
      /\ (req = <<>> <=> Len(req) = 0)
  BY <1>0, EmptySeq DEF Shape, AppSet
<1>4. Len(answers) + Len(req) = late + 1
  BY <1>0, <1>1 DEF Paired, Pending
<1>5. a.n = (app.sent - (late + 1)) + 1
  BY <1>0, <1>2, <1>4 DEF Paired, Pending
<1>6. ASSUME a.n = app.sent
      PROVE  late = 0 /\ Len(answers) = 1 /\ req = <<>>
  <2>1. late = 0
    BY <1>3, <1>5, <1>6
  <2> QED
    BY <1>2, <1>3, <1>4, <2>1
<1>7. OwnTrue(a)
  <2> SUFFICES ASSUME a.n = app.sent
               PROVE  Truthful(a)
    BY DEF OwnTrue
  <2>1. a = answers[Len(answers)] /\ req = <<>>
    BY <1>2, <1>6
  <2>2. Truthful(answers[Len(answers)])
    BY <1>0, <1>1, <2>1 DEF Progress
  <2> QED
    BY <2>1, <2>2
<1>8. PICK x \in AnswerSet : x = a
  BY <1>2
<1>9. OwnTrue(x) /\ Take(x)
  BY <1>1, <1>7, <1>8
<1>10. Taken(x)
  BY <1>0, <1>1, <1>9, TakeTaken
<1>11. call'.own => late' = 0
  BY <1>1, <1>6, <1>8, <1>10 DEF Taken, Passed
<1> QED
  BY <1>10, <1>11

LEMMA ReadKeeps ==
    ASSUME RInv, Read
    PROVE  RInv'
<1> DEFINE a == Head(answers)
<1>0. Shape /\ Paired /\ Progress
  BY DEF RInv
<1>1. Waiting /\ answers # <<>> /\ Take(a) /\ answers' = Tail(answers) /\ UNCHANGED <<probe, target, late, upsets, calls>>
  BY DEF Read
<1>2. /\ answers \in Seq(AnswerSet) /\ Len(answers) \in Nat /\ Len(answers) >= 1 /\ a = answers[1] /\ a \in AnswerSet
      /\ answers' \in Seq(AnswerSet) /\ Len(answers') = Len(answers) - 1
      /\ \A i \in 1 .. Len(answers) - 1 : answers'[i] = answers[i + 1]
  BY <1>0, <1>1, Queues DEF Shape
<1>3. /\ late \in Nat /\ upsets \in 0 .. MaxUpsets /\ app.sent \in Nat /\ req \in Seq(RequestSet) /\ Len(req) \in Nat
      /\ calls \in 0 .. MaxCalls
      /\ (req = <<>> <=> Len(req) = 0)
  BY <1>0, EmptySeq DEF Shape, AppSet
<1>4. Len(answers) + Len(req) = late + 1
  BY <1>0, <1>1 DEF Paired, Pending
<1>5. PICK x \in AnswerSet : Taken(x) /\ (call'.own => late' = 0)
  BY ReadTaken
<1>6. Len(answers') + Len(req) = late'
  BY <1>1, <1>2, <1>3, <1>4
<1>7. ASSUME NEW i \in 1 .. Len(answers')
       PROVE  answers'[i].n = (app.sent - late') + i
  <2>1. i + 1 \in 1 .. Len(answers) /\ i \in Int /\ answers'[i] = answers[i + 1]
    BY <1>2
  <2>2. answers[i + 1].n = (app.sent - (late + 1)) + (i + 1)
    BY <1>0, <1>4, <2>1 DEF Paired, Pending
  <2>3. (app.sent - (late + 1)) + (i + 1) = (app.sent - late) + i
    <3>1. app.sent \in Int /\ late \in Int /\ i \in Int
      BY <1>3, <2>1
    <3> QED
      BY <3>1, StepBack, Zenon
  <2> QED
    BY <1>1, <2>1, <2>2, <2>3, Zenon
<1> HIDE DEF a
<1> QED
  BY <1>1, <1>2, <1>3, <1>5, <1>6, <1>7, PassedKeeps DEF Taken

LEMMA NoneTaken ==
    ASSUME RInv, Waiting, UNCHANGED target, Take(NoAnswer)
    PROVE  Taken(NoAnswer) /\ ~call'.own
<1>1. NoAnswer \in AnswerSet /\ NoAnswer.n = 0
  BY DEF NoAnswer, AnswerSet, Codes, Faults
<1>2. app.sent \in Nat /\ app.sent >= 1
  BY DEF RInv, Shape, AppSet
<1>3. PICK x \in AnswerSet : x = NoAnswer
  BY <1>1
<1>4. x.n # app.sent
  BY <1>1, <1>2, <1>3
<1>5. OwnTrue(x) /\ Take(x)
  BY <1>3, <1>4 DEF OwnTrue
<1>6. Taken(x)
  BY <1>5, TakeTaken DEF RInv
<1> QED
  BY <1>3, <1>4, <1>6 DEF Taken, Passed

LEMMA GiveUpKeeps ==
    ASSUME RInv, GiveUp
    PROVE  RInv'
<1>1. Waiting /\ answers = <<>> /\ Take(NoAnswer) /\ late' = late + 1 /\ UNCHANGED <<answers, probe, target, upsets, calls>>
  BY DEF GiveUp
<1>2. Taken(NoAnswer) /\ ~call'.own
  BY <1>1, NoneTaken
<1>3. late \in Nat /\ upsets \in 0 .. MaxUpsets /\ calls \in 0 .. MaxCalls /\ answers \in Seq(AnswerSet) /\ Len(req) \in Nat /\ req \in Seq(RequestSet)
  BY DEF RInv, Shape
<1>4. Len(answers) = 0 /\ Len(answers) + Len(req) = late + 1
  BY <1>1 DEF RInv, Paired, Pending
<1>5. PICK x : x = NoAnswer
  OBVIOUS
<1>6. Taken(x)
  BY <1>2, <1>5
<1> QED
  BY <1>1, <1>2, <1>3, <1>4, <1>6, PassedKeeps DEF Taken

LEMMA GiveUpWithinKeeps ==
    ASSUME RInv, GiveUpWithin
    PROVE  RInv'
<1>1. /\ Waiting /\ answers # <<>> /\ Take(NoAnswer) /\ answers' = Tail(answers) /\ upsets' = upsets + 1
      /\ late + upsets < MaxUpsets /\ UNCHANGED <<probe, target, late, calls>>
  BY DEF GiveUpWithin
<1>2. Taken(NoAnswer) /\ ~call'.own
  BY <1>1, NoneTaken
<1>3. /\ answers \in Seq(AnswerSet) /\ Len(answers) \in Nat /\ Len(answers) >= 1
      /\ answers' \in Seq(AnswerSet) /\ Len(answers') = Len(answers) - 1
      /\ \A i \in 1 .. Len(answers) - 1 : answers'[i] = answers[i + 1]
  BY <1>1, Queues DEF RInv, Shape
<1>4. late \in Nat /\ upsets \in 0 .. MaxUpsets /\ calls \in 0 .. MaxCalls /\ app.sent \in Nat /\ Len(req) \in Nat
  BY DEF RInv, Shape, AppSet
<1>5. Len(answers) + Len(req) = late + 1
  BY <1>1 DEF RInv, Paired, Pending
<1>6. Len(answers') + Len(req) = late'
  BY <1>1, <1>3, <1>4, <1>5
<1>7. ASSUME NEW i \in 1 .. Len(answers')
      PROVE  answers'[i].n = (app.sent - late') + i
  <2>1. i + 1 \in 1 .. Len(answers) /\ i \in Int /\ answers'[i] = answers[i + 1]
    BY <1>3
  <2>2. answers[i + 1].n = (app.sent - (late + 1)) + (i + 1)
    BY <1>5, <2>1 DEF RInv, Paired, Pending
  <2>3. (app.sent - (late + 1)) + (i + 1) = (app.sent - late) + i
    <3>1. app.sent \in Int /\ late \in Int /\ i \in Int
      BY <1>4, <2>1
    <3> QED
      BY <3>1, StepBack, Zenon
  <2> QED
    BY <1>1, <2>1, <2>2, <2>3, Zenon
<1>8. upsets' \in 0 .. MaxUpsets
  BY <1>1, <1>4, BoundAssumption
<1>9. PICK x : x = NoAnswer
  OBVIOUS
<1>10. Taken(x)
  BY <1>2, <1>9
<1> QED
  BY <1>1, <1>2, <1>3, <1>4, <1>6, <1>7, <1>8, <1>10, PassedKeeps DEF Taken

-----------------------------------------------------------------------------
(* Calls begun by the application and by another program.                  *)

\* A call no answer was read for.
Fresh(c) ==
    /\ c \in CallSet /\ c.st = "wait" /\ c.res = "ok" /\ c.off = 0 /\ c.buf = <<>> /\ c.own = TRUE /\ c.did = TRUE

LEMMA CallIs ==
    ASSUME NEW op \in Ops, NEW size \in Nat
    PROVE  /\ Fresh(Call(op, size)) /\ Call(op, size).op = op /\ Call(op, size).size = size
           /\ Call(op, size).len = 0 /\ Call(op, size).align = 0
<1>1. PICK c : c = NoCall
  OBVIOUS
<1>2. "ok" \in Results /\ <<>> \in Seq(Int) /\ 0 \in Devs /\ "none" \in Ops
  BY DEF Results, Devs, Ops
<1>3. /\ c \in CallSet /\ c.res = "ok" /\ c.off = 0 /\ c.buf = <<>> /\ c.own = TRUE /\ c.did = TRUE /\ c.len = 0 /\ c.align = 0
  BY <1>1, <1>2 DEF NoCall, CallSet
<1>4. Call(op, size) = [c EXCEPT !.op = op, !.st = "wait", !.size = size]
  BY <1>1 DEF Call
<1> QED
  BY <1>3, <1>4 DEF Fresh, CallSet

\* What the first request of a call needs.
Startable(h, c) ==
    /\ Fresh(c) /\ c.size <= 30
    /\ c.op \in Adiv5 => h.funcs.adiv5 \in Forms
    /\ c.op \in MemOps => /\ c.addr + c.len <= MaxAddr
                          /\ c.addr % 2^c.align = 0 /\ c.len % 2^c.align = 0
    /\ c.op = "shift" => c.size = 6

LEMMA PlainStartable ==
    ASSUME NEW h, NEW op \in Swd \union Jtag \union General \union {"HC", "HJ"}, NEW size \in 0 .. 30, NEW n \in Nat, NEW d \in Devs
    PROVE  /\ Startable(h, Call(op, size)) /\ Startable(h, [Call(op, size) EXCEPT !.len = n])
           /\ Startable(h, [Call(op, size) EXCEPT !.dev = d])
<1>1. op \in Ops /\ op \notin Adiv5 /\ op \notin MemOps /\ op # "shift" /\ size \in Nat /\ size <= 30
  BY DEF Ops, Swd, Jtag, General, Adiv5, MemOps
<1>2. PICK c : c = Call(op, size)
  OBVIOUS
<1>3. Fresh(c) /\ c.op = op /\ c.size = size
  BY <1>1, <1>2, CallIs
<1>4. /\ Fresh([c EXCEPT !.len = n]) /\ [c EXCEPT !.len = n].op = c.op /\ [c EXCEPT !.len = n].size = c.size
      /\ Fresh([c EXCEPT !.dev = d]) /\ [c EXCEPT !.dev = d].op = c.op /\ [c EXCEPT !.dev = d].size = c.size
  BY <1>3 DEF Fresh, CallSet
<1>5. Startable(h, c) /\ Startable(h, [c EXCEPT !.len = n]) /\ Startable(h, [c EXCEPT !.dev = d])
  BY <1>1, <1>3, <1>4 DEF Startable
<1> QED
  BY <1>2, <1>5

LEMMA TapStartable ==
    ASSUME NEW h, NEW op \in {"shift", "cycle"}, NEW n \in Nat
    PROVE  Startable(h, TapCall(op, n))
<1>1. op \in Ops /\ op \notin Adiv5 /\ op \notin MemOps
  BY DEF Ops, Blocks, Adiv5, MemOps
<1>2. PICK c : c = Call(op, 6)
  OBVIOUS
<1>3. Fresh(c) /\ c.op = op /\ c.size = 6
  BY <1>1, <1>2, CallIs
<1>4. Fresh([c EXCEPT !.len = n]) /\ [c EXCEPT !.len = n].op = c.op /\ [c EXCEPT !.len = n].size = c.size
  BY <1>3 DEF Fresh, CallSet
<1>5. Startable(h, [c EXCEPT !.len = n])
  BY <1>1, <1>3, <1>4 DEF Startable
<1> QED
  BY <1>2, <1>5 DEF TapCall

LEMMA MemStartable ==
    ASSUME NEW h, h.funcs.adiv5 \in Forms, NEW op \in MemOps, NEW t \in Transfers, NEW d \in Devs
    PROVE  Startable(h, MemCall(op, t, d))
<1>1. op \in Ops /\ op \in Adiv5 /\ op # "shift"
  BY DEF Ops, Adiv5, MemOps
<1>2. t[1] \in Nat /\ t[2] \in Nat /\ t[3] \in 0 .. 3 /\ t[1] + t[2] <= MaxAddr /\ t[1] % 2^t[3] = 0 /\ t[2] % 2^t[3] = 0
  BY TransferAssumption
<1>3. PICK c, ad, n, al : c = Call(op, 30) /\ ad = t[1] /\ n = t[2] /\ al = t[3]
  OBVIOUS
<1>4. Fresh(c) /\ c.op = op /\ c.size = 30
  BY <1>1, <1>3, CallIs
<1>5. PICK e : e = [c EXCEPT !.addr = ad, !.len = n, !.align = al, !.dev = d]
  OBVIOUS
<1>6. Fresh(e) /\ e.op = c.op /\ e.size = c.size /\ e.addr = ad /\ e.len = n /\ e.align = al
  <2>1. ad \in Nat /\ n \in Nat /\ al \in 0 .. 3 /\ d \in Devs
    BY <1>2, <1>3
  <2> QED
    BY <1>4, <1>5, <2>1 DEF Fresh, CallSet
<1>7. Startable(h, e)
  <2>1. e.addr + e.len <= MaxAddr /\ e.addr % 2^e.align = 0 /\ e.len % 2^e.align = 0
    BY <1>2, <1>3, <1>6, Zenon
  <2> QED
    BY <1>1, <1>4, <1>6, <2>1 DEF Startable
<1>8. MemCall(op, t, d) = e
  BY <1>3, <1>5 DEF MemCall
<1> QED
  BY <1>7, <1>8

LEMMA CallableStartable ==
    ASSUME NEW h \in AppSet, NEW c \in Callable(h)
    PROVE  Startable(h, c)
<1> DEFINE Plain == Swd \union Jtag \union General \union {"HC", "HJ"}
           Short == {Call(op, size) : op \in Plain, size \in 0 .. 30}
           Sized == {[Call("GZ", 3) EXCEPT !.len = n] : n \in {0, 1}}
           Added == {[Call("HJ", 22) EXCEPT !.dev = d] : d \in Devs}
           Tapped == {TapCall(op, n) : op \in {"shift", "cycle"}, n \in Cycles}
           Ports == {[Call(op, 10) EXCEPT !.dev = d] : op \in Adiv5 \ MemOps, d \in Devs}
           Mems == {MemCall(op, t, d) : op \in MemOps, t \in Transfers, d \in Devs}
<1>1. ASSUME c \in Short
      PROVE  Startable(h, c)
  <2>1. PICK op \in Plain, size \in 0 .. 30 : c = Call(op, size)
    BY <1>1
  <2>2. PICK n \in Nat, d \in Devs : TRUE
    BY DEF Devs
  <2>3. Startable(h, Call(op, size))
    BY PlainStartable
  <2> QED
    BY <2>1, <2>3
<1>2. ASSUME c \in Sized
      PROVE  Startable(h, c)
  <2>1. PICK n \in Nat : c = [Call("GZ", 3) EXCEPT !.len = n]
    BY <1>2
  <2>2. PICK op, size : op = "GZ" /\ size = 3
    OBVIOUS
  <2>3. op \in Plain /\ size \in 0 .. 30
    BY <2>2 DEF General
  <2>5. PICK d \in Devs : TRUE
    BY DEF Devs
  <2>4. Startable(h, [Call(op, size) EXCEPT !.len = n])
    BY <2>3, <2>5, PlainStartable
  <2> QED
    BY <2>1, <2>2, <2>4
<1>3. ASSUME c \in Added
      PROVE  Startable(h, c)
  <2>1. PICK d \in Devs : c = [Call("HJ", 22) EXCEPT !.dev = d]
    BY <1>3
  <2>2. PICK op, size : op = "HJ" /\ size = 22
    OBVIOUS
  <2>3. op \in Plain /\ size \in 0 .. 30
    BY <2>2
  <2>4. Startable(h, [Call(op, size) EXCEPT !.dev = d])
    BY <2>3, PlainStartable
  <2> QED
    BY <2>1, <2>2, <2>4
<1>4. ASSUME c \in Tapped
      PROVE  Startable(h, c)
  <2>1. PICK op \in {"shift", "cycle"}, n \in Cycles : c = TapCall(op, n)
    BY <1>4
  <2>2. n \in Nat
    BY BoundAssumption
  <2> QED
    BY <2>1, <2>2, TapStartable
<1>5. ASSUME c \in Ports, h.funcs.adiv5 \in Forms
      PROVE  Startable(h, c)
  <2>1. PICK op \in Adiv5 \ MemOps, d \in Devs : c = [Call(op, 10) EXCEPT !.dev = d]
    BY <1>5
  <2>2. op \in Ops /\ op \notin MemOps /\ op # "shift"
    BY DEF Ops, Adiv5
  <2>3. PICK e : e = Call(op, 10)
    OBVIOUS
  <2>4. Fresh(e) /\ e.op = op /\ e.size = 10
    BY <2>2, <2>3, CallIs
  <2>5. c = [e EXCEPT !.dev = d]
    BY <2>1, <2>3
  <2>6. Fresh(c) /\ c.op = op /\ c.size = 10
    BY <2>4, <2>5 DEF Fresh, CallSet
  <2> QED
    BY <1>5, <2>2, <2>6 DEF Startable
<1>6. ASSUME c \in Mems, h.funcs.adiv5 \in Forms
      PROVE  Startable(h, c)
  BY <1>6, MemStartable
<1>7. CASE h.funcs = NoFuncs
  <2>1. c = Call("GA", 2) /\ "GA" \in Plain /\ 2 \in 0 .. 30
    BY <1>7 DEF Callable, General
  <2>2. c \in Short
    BY <2>1
  <2> QED
    BY <1>1, <2>2
<1>8. CASE h.funcs # NoFuncs
  <2>1. \/ c \in PlainCalls \/ c \in SwdCalls \/ c \in JtagCalls \/ c \in Added \/ c \in CommsCalls
        \/ c \in Adiv5Calls(h) /\ h.funcs.adiv5 # "wires"
    BY <1>8, Zenon DEF Callable
  <2>2. CASE c \in PlainCalls
    <3>1. {"SS", "JS", "GV", "Gz", "GP", "Gp"} \subseteq Plain /\ 2 \in 0 .. 30
      BY DEF Swd, Jtag, General
    <3>2. c \in Sized \/ \E op \in {"SS", "JS", "GV", "Gz", "GP", "Gp"} : c = Call(op, 2)
      BY <2>2 DEF PlainCalls
    <3>3. c \in Short \/ c \in Sized
      BY <3>1, <3>2
    <3> QED
      BY <1>1, <1>2, <3>3
  <2>3. CASE c \in SwdCalls
    <3>1. {"Si", "SI", "So", "SO"} \subseteq Plain /\ 4 \in 0 .. 30 /\ 5 \in 0 .. 30
      BY DEF Swd
    <3>2. \E op \in {"Si", "SI", "So", "SO"}, size \in {4, 5} : c = Call(op, size)
      BY <2>3, Zenon DEF SwdCalls
    <3>3. c \in Short
      BY <3>1, <3>2
    <3> QED
      BY <1>1, <3>3
  <2>4. CASE c \in JtagCalls
    <3>1. {"JR", "JT", "JN"} \subseteq Plain /\ 2 \in 0 .. 30 /\ 4 \in 0 .. 30 /\ 6 \in 0 .. 30
      BY DEF Jtag
    <3>2. c \in Tapped \/ \E op \in {"JR", "JT", "JN"}, size \in {2, 4, 6} : c = Call(op, size)
      <4>1. c \in {Call("JR", 2), Call("JT", 6), Call("JN", 4)} \/ c \in Tapped
        BY <2>4 DEF JtagCalls
      <4> HIDE DEF Tapped
      <4> QED
        BY <4>1
    <3>3. c \in Tapped \/ c \in Short
      BY <3>1, <3>2
    <3> QED
      BY <1>1, <1>4, <3>3
  <2>5. CASE c \in CommsCalls
    <3>1. {"GF", "Gf", "GE"} \subseteq Plain /\ 2 \in 0 .. 30 /\ 3 \in 0 .. 30 /\ 10 \in 0 .. 30
      BY DEF General
    <3>2. \E op \in {"GF", "Gf", "GE"}, size \in {2, 3, 10} : c = Call(op, size)
      BY <2>5, Zenon DEF CommsCalls
    <3>3. c \in Short
      BY <3>1, <3>2
    <3> QED
      BY <1>1, <3>3
  <2>6. CASE c \in Adiv5Calls(h) /\ h.funcs.adiv5 # "wires"
    <3>1. h.funcs.adiv5 \in Forms
      BY <1>8, <2>6 DEF AppSet, FuncSet
    <3>2. DevsOf(h) \subseteq Devs
      BY DEF DevsOf, Devs
    <3>3. c \in Ports \/ c \in Mems
      <4>1. \/ c \in {[Call(op, 10) EXCEPT !.dev = d] : op \in Adiv5 \ MemOps, d \in DevsOf(h)}
            \/ c \in {MemCall(op, t, d) : op \in MemOps, t \in Transfers, d \in DevsOf(h)}
        BY <2>6 DEF Adiv5Calls, MemOps
      <4>2. ASSUME c \in {[Call(op, 10) EXCEPT !.dev = d] : op \in Adiv5 \ MemOps, d \in DevsOf(h)}
            PROVE  c \in Ports
        <5>1. PICK op \in Adiv5 \ MemOps, d \in DevsOf(h) : c = [Call(op, 10) EXCEPT !.dev = d]
          BY <4>2
        <5>2. d \in Devs
          BY <3>2
        <5> QED
          BY <5>1, <5>2
      <4>3. ASSUME c \in {MemCall(op, t, d) : op \in MemOps, t \in Transfers, d \in DevsOf(h)}
            PROVE  c \in Mems
        <5>1. PICK op \in MemOps, t \in Transfers, d \in DevsOf(h) : c = MemCall(op, t, d)
          BY <4>3
        <5>2. d \in Devs
          BY <3>2
        <5> QED
          BY <5>1, <5>2
      <4> QED
        BY <4>1, <4>2, <4>3
    <3> QED
      BY <1>5, <1>6, <3>1, <3>3
  <2> QED
    BY <1>3, <2>1, <2>2, <2>3, <2>4, <2>5, <2>6
<1> QED
  BY <1>7, <1>8

LEMMA BeginKeeps ==
    ASSUME RInv, Begin
    PROVE  RInv'
<1>1. /\ ~Waiting /\ calls < MaxCalls /\ calls' = calls + 1 /\ UNCHANGED <<answers, probe, target, late, upsets>>
  BY DEF Begin
<1>2. PICK c \in Callable(app) :
          IF c.op \in {"mem_read", "mem_write", "shift", "cycle"} /\ c.len = 0 THEN Over(app, Finish(c, "ok")) ELSE Ask(app, c)
  BY DEF Begin
<1>3. app \in AppSet /\ calls \in 0 .. MaxCalls /\ late \in Nat /\ upsets \in 0 .. MaxUpsets /\ answers \in Seq(AnswerSet)
  BY DEF RInv, Shape
<1>4. Startable(app, c)
  BY <1>3, CallableStartable
<1>5. Fresh(c) /\ c.size <= 30 /\ c \in CallSet /\ c.off = 0 /\ c.len \in Nat /\ c.own /\ c.did /\ c.buf = <<>> /\ c.st = "wait"
  BY <1>4 DEF Startable, Fresh, CallSet
<1>6. calls' \in 0 .. MaxCalls
  BY <1>1, <1>3, BoundAssumption
<1>7. Len(answers) + Len(req) = late /\ \A i \in 1 .. Len(answers) : answers[i].n = (app.sent - late) + i
  <2>1. Len(answers) + Len(req) = late + 0
    BY <1>1 DEF RInv, Paired, Pending
  <2>2. Len(answers) + Len(req) = late
    BY <1>3, <2>1, PlusZero
  <2> QED
    BY <2>2 DEF RInv, Paired, Pending
<1>8. CASE c.op \in Blocks /\ c.len = 0
  <2>1. app' = app /\ call' = Finish(c, "ok") /\ req' = req
    BY <1>2, <1>8 DEF Over, Blocks, MemOps
  <2>2. /\ call' \in CallSet /\ Alike(call', c) /\ call'.st = "done" /\ call'.off = 0 /\ call'.own /\ call'.did /\ call'.buf = <<>>
    BY <1>5, <2>1, FinishIs DEF Results
  <2>3. call'.len = 0
    BY <1>8, <2>2 DEF Alike
  <2>4. Delivered' /\ FailureTold'
    BY <2>2, <2>3 DEF Delivered, FailureTold
  <2>5. Passed
    BY <1>3, <2>1, <2>2, <2>3, <2>4 DEF Passed, Waiting
  <2> QED
    BY <1>1, <1>3, <1>6, <1>7, <2>2, <2>3, <2>5, PassedKeeps
<1>9. CASE ~(c.op \in Blocks /\ c.len = 0)
  <2>1. Ask(app, c)
    BY <1>2, <1>9 DEF Blocks, MemOps
  <2>2. Underway(app, c)
    <3>1. c.op \in Blocks => c.off < c.len
      BY <1>5, <1>9
    <3>2. c.off <= c.len + 1 /\ c.off % 2^c.align = 0
      <4>1. c.align \in 0 .. 3
        BY <1>5 DEF CallSet
      <4>2. 0 % 2^c.align = 0
        BY <4>1, ZeroMultiple
      <4> QED
        BY <1>5, <4>2
    <3> QED
      BY <1>4, <1>5, <3>1, <3>2 DEF Underway, Startable
  <2>3. PICK h \in AppSet : h = app
    BY <1>3
  <2>4. /\ app' \in AppSet /\ call' \in CallSet /\ call'.off <= call'.len + 1
        /\ Waiting' /\ Underway(app', call') /\ app'.sent = app.sent + 1 /\ call' = c
        /\ \E q \in RequestSet : Contained(q) /\ q.n = app.sent + 1 /\ req' = Append(req, q) /\ Asked(q)'
    BY <2>1, <2>2, <2>3, AskTaken
  <2>5. Prefix'
    BY <1>5, <2>4 DEF Prefix
  <2>6. Passed
    BY <1>5, <2>4, <2>5 DEF Passed
  <2> QED
    BY <1>1, <1>3, <1>5, <1>6, <1>7, <2>4, <2>6, PassedKeeps
<1> QED
  BY <1>8, <1>9

\* A request of another program that names memory is one the probe refuses.
Refusable(c) ==
    /\ Fresh(c)
    /\ c.op \in MemOps => c.size >= 8 /\ (\/ c.op = "mem_read" /\ c.len > MaxMsg
                                          \/ c.op = "mem_write" /\ c.len = 3 /\ c.align = 1)

LEMMA OthersRefusable ==
    ASSUME NEW op \in Ops \ MemOps, NEW size \in Nat, NEW n \in Nat, NEW z \in Nat
    PROVE  /\ Refusable(Call(op, size)) /\ Refusable([Call(op, size) EXCEPT !.len = n])
           /\ Refusable([TapCall(op, n) EXCEPT !.size = z])
<1>1. Fresh(Call(op, size)) /\ Call(op, size).op = op /\ Fresh(Call(op, 6)) /\ Call(op, 6).op = op
  BY CallIs
<1>2. PICK c, d : c = Call(op, size) /\ d = Call(op, 6)
  OBVIOUS
<1>3. Fresh(c) /\ c.op = op /\ Fresh(d) /\ d.op = op
  BY <1>1, <1>2
<1>4. Fresh([c EXCEPT !.len = n]) /\ [c EXCEPT !.len = n].op = op
  BY <1>3 DEF Fresh, CallSet
<1>5. PICK e : e = [d EXCEPT !.len = n]
  OBVIOUS
<1>6. Fresh(e) /\ e.op = op
  BY <1>3, <1>5 DEF Fresh, CallSet
<1>7. Fresh([e EXCEPT !.size = z]) /\ [e EXCEPT !.size = z].op = op
  BY <1>6 DEF Fresh, CallSet
<1>8. Refusable(c) /\ Refusable([c EXCEPT !.len = n]) /\ Refusable([e EXCEPT !.size = z])
  BY <1>3, <1>4, <1>7 DEF Refusable
<1>9. TapCall(op, n) = e
  BY <1>2, <1>5 DEF TapCall
<1> QED
  BY <1>2, <1>8, <1>9

LEMMA ForeignRefusable ==
    ASSUME NEW c \in Foreign
    PROVE  Refusable(c)
<1> DEFINE Others == Ops \ MemOps
<1>0. /\ {"SS", "JT", "JD", "JN", "HJ", "ap_read", "G?"} \subseteq Others /\ Spi \subseteq Others
      /\ {"mem_read", "mem_write"} \subseteq Ops
  BY DEF Ops, Swd, Jtag, Adiv5, Spi, MemOps
<1>1. MaxMsg \in Nat
  BY MessageAssumption
<1>2. ASSUME NEW op \in Others, NEW size \in Nat, c = Call(op, size)
      PROVE  Refusable(c)
  BY <1>1, <1>2, OthersRefusable
<1>3. ASSUME NEW op \in Others, NEW size \in Nat, NEW n \in Nat, c = [Call(op, size) EXCEPT !.len = n]
      PROVE  Refusable(c)
  BY <1>3, OthersRefusable
<1>4. ASSUME NEW op \in Others, NEW n \in Nat, NEW z \in Nat, c = [TapCall(op, n) EXCEPT !.size = z]
      PROVE  Refusable(c)
  BY <1>4, OthersRefusable
<1>5. ASSUME c = [Call("mem_read", 30) EXCEPT !.len = MaxMsg + 1]
      PROVE  Refusable(c)
  <2>1. PICK d, n : d = Call("mem_read", 30) /\ n = MaxMsg + 1
    OBVIOUS
  <2>2. Fresh(d) /\ d.op = "mem_read" /\ d.size = 30 /\ n \in Nat /\ n > MaxMsg
    BY <1>0, <1>1, <2>1, CallIs
  <2>3. c = [d EXCEPT !.len = n]
    BY <1>5, <2>1
  <2>4. Fresh(c) /\ c.op = "mem_read" /\ c.size = 30 /\ c.len = n
    BY <2>2, <2>3 DEF Fresh, CallSet
  <2> QED
    BY <2>2, <2>4 DEF Refusable
<1>6. ASSUME c = [Call("mem_write", 38) EXCEPT !.len = 3, !.align = 1]
      PROVE  Refusable(c)
  <2>1. PICK d, n, al : d = Call("mem_write", 38) /\ n = 3 /\ al = 1
    OBVIOUS
  <2>2. Fresh(d) /\ d.op = "mem_write" /\ d.size = 38
    BY <1>0, <2>1, CallIs
  <2>3. c = [d EXCEPT !.len = n, !.align = al] /\ n \in Nat /\ al \in 0 .. 3
    BY <1>6, <2>1
  <2>4. Fresh(c) /\ c.op = "mem_write" /\ c.size = 38 /\ c.len = n /\ c.align = al
    BY <2>2, <2>3 DEF Fresh, CallSet
  <2> QED
    BY <2>1, <2>4 DEF Refusable
<1>7. ASSUME c = [TapCall("JD", 1) EXCEPT !.size = 4]
      PROVE  Refusable(c)
  <2>1. PICK op, n, z : op = "JD" /\ n = 1 /\ z = 4
    OBVIOUS
  <2>2. op \in Others /\ n \in Nat /\ z \in Nat /\ c = [TapCall(op, n) EXCEPT !.size = z]
    BY <1>0, <1>7, <2>1
  <2> QED
    BY <1>4, <2>2
<1>8. ASSUME c \in {Call(op, 6) : op \in Spi \ {"sr", "sw"}}
      PROVE  Refusable(c)
  <2>1. PICK op \in Spi : c = Call(op, 6)
    BY <1>8
  <2> QED
    BY <1>0, <1>2, <2>1
<1>9. ASSUME c \in {[Call(op, 20) EXCEPT !.len = n] : op \in {"sr", "sw"}, n \in {1, MaxMsg}}
      PROVE  Refusable(c)
  <2>1. PICK op \in {"sr", "sw"}, n \in {1, MaxMsg} : c = [Call(op, 20) EXCEPT !.len = n]
    BY <1>9
  <2>2. op \in Others /\ n \in Nat
    BY <1>0, <1>1 DEF Spi
  <2>3. PICK size : size = 20
    OBVIOUS
  <2>4. size \in Nat /\ c = [Call(op, size) EXCEPT !.len = n]
    BY <2>1, <2>3
  <2> QED
    BY <1>3, <2>2, <2>4
<1>10. ASSUME c = Call("sB", 3)
       PROVE  Refusable(c)
  <2>1. PICK op, size : op = "sB" /\ size = 3
    OBVIOUS
  <2>2. op \in Others /\ size \in Nat /\ c = Call(op, size)
    BY <1>0, <1>10, <2>1 DEF Spi
  <2> QED
    BY <1>2, <2>2
<1>11. ASSUME NEW op \in {"SS", "JT", "JN", "HJ", "ap_read", "G?"}, NEW size \in {2, 3, 7, 21}, c = Call(op, size)
       PROVE  Refusable(c)
  <2>1. op \in Others /\ size \in Nat
    BY <1>0
  <2> QED
    BY <1>2, <1>11, <2>1
<1>12. ASSUME c \in {Call("SS", 3), Call("JT", 3), [TapCall("JD", 1) EXCEPT !.size = 4], Call("JN", 3), Call("HJ", 21), Call("ap_read", 7), Call("G?", 2),
                     [Call("mem_read", 30) EXCEPT !.len = MaxMsg + 1], [Call("mem_write", 38) EXCEPT !.len = 3, !.align = 1]}
       PROVE  Refusable(c)
  <2>1. CASE c = [TapCall("JD", 1) EXCEPT !.size = 4]
    BY <1>7, <2>1
  <2>2. CASE c = [Call("mem_read", 30) EXCEPT !.len = MaxMsg + 1]
    BY <1>5, <2>2
  <2>3. CASE c = [Call("mem_write", 38) EXCEPT !.len = 3, !.align = 1]
    BY <1>6, <2>3
  <2>4. CASE c = Call("SS", 3) \/ c = Call("JT", 3) \/ c = Call("JN", 3) \/ c = Call("HJ", 21) \/ c = Call("ap_read", 7) \/ c = Call("G?", 2)
    <3>1. \E op \in {"SS", "JT", "JN", "HJ", "ap_read", "G?"}, size \in {2, 3, 7, 21} : c = Call(op, size)
      BY <2>4
    <3> QED
      BY <1>11, <3>1
  <2> QED
    BY <1>12, <2>1, <2>2, <2>3, <2>4, Zenon
<1> DEFINE A == {Call("SS", 3), Call("JT", 3), [TapCall("JD", 1) EXCEPT !.size = 4], Call("JN", 3), Call("HJ", 21), Call("ap_read", 7), Call("G?", 2),
                 [Call("mem_read", 30) EXCEPT !.len = MaxMsg + 1], [Call("mem_write", 38) EXCEPT !.len = 3, !.align = 1]}
           B == {Call(op, 6) : op \in Spi \ {"sr", "sw"}}
           C == {[Call(op, 20) EXCEPT !.len = n] : op \in {"sr", "sw"}, n \in {1, MaxMsg}}
           D == Call("sB", 3)
<1>13. Foreign = A \union B \union C \union {D}
  BY DEF Foreign
<1>14. (c \in A => Refusable(c)) /\ (c \in B => Refusable(c)) /\ (c \in C => Refusable(c)) /\ (c = D => Refusable(c))
  BY <1>8, <1>9, <1>10, <1>12
<1> HIDE DEF A, B, C, D
<1> QED
  BY <1>13, <1>14

LEMMA ForeignServed ==
    ASSUME probe \in ProbeSet, target \in TargetSet, Known(target), NEW c, Refusable(c), NEW r,
           r = [op |-> c.op, form |-> "v3", dev |-> 0, addr |-> 0, len |-> c.len, from |-> 0, align |-> c.align,
                size |-> c.size, n |-> 0]
    PROVE  /\ Result(r, "ok", 0) \in ServedSet /\ Known(Result(r, "ok", 0).t)
           /\ \A d \in Devs, a \in Addrs : Result(r, "ok", 0).t.mem[d][a] = target.mem[d][a]
<1>1. c \in CallSet
  BY DEF Refusable, Fresh
<1>2. /\ r.op = c.op /\ r.len = c.len /\ r.align = c.align /\ r.size = c.size /\ r.len \in Nat /\ r.size \in Nat
      /\ r \in RequestSet
  BY <1>1 DEF CallSet, RequestSet, Forms, Devs
<1>3. CASE c.op \notin MemOps
  <2>1. Contained(r)
    BY <1>2, <1>3 DEF Contained, MemOps
  <2>2. PICK o \in {"ok", "wait", "silent", "parity", "raise"}, k \in 0 .. r.len : o = "ok" /\ k = 0
    BY <1>2
  <2>3. Faithful(r, Result(r, o, k))
    BY <1>2, <2>1, ResultFaithful
  <2>4. r.op # "mem_write"
    BY <1>2, <1>3 DEF MemOps
  <2> QED
    BY <2>2, <2>3, <2>4 DEF Faithful
<1>4. CASE c.op \in MemOps
  <2>1. \E code \in Codes, err \in Nat : Result(r, "ok", 0) = remote_respond(code, err)
    <3>0. PARERR \in Codes /\ ERR \in Codes /\ UNRECOGNISED \in Nat /\ 0 \in Nat
      BY Errors
    <3>1. /\ r.op \in Adiv5 /\ r.op \notin Swd /\ r.op \notin Jtag /\ r.op \notin General /\ r.op \notin {"HC", "HJ"}
      BY <1>2, <1>4, Classes
    <3>2. CASE r.op \notin Serves(probe.version) \/ r.form # Form(probe.version)
      <4>1. Result(r, "ok", 0) = remote_respond(ERR, UNRECOGNISED)
        BY <3>1, <3>2, Zenon DEF Result
      <4> QED
        BY <3>0, <4>1
    <3>3. CASE r.op \in Serves(probe.version) /\ r.form = Form(probe.version)
      <4>1. Result(r, "ok", 0) = remote_packet_process_adiv5(r, "ok", 0)
        BY <3>1, <3>3, Zenon DEF Result
      <4>2. /\ r.size >= 8 /\ ~(r.size < 8) /\ r.op \in {"mem_read", "mem_write"}
            /\ Overlong(r) \/ (r.op = "mem_write" /\ ~Overlong(r) /\ Misaligned(r))
        <5>1. r.size >= 8 /\ ~(r.size < 8) /\ r.op \in {"mem_read", "mem_write"}
          BY <1>2, <1>4 DEF Refusable, MemOps
        <5>2. CASE c.op = "mem_read"
          BY <1>2, <1>4, <5>2 DEF Refusable, Overlong
        <5>3. CASE c.op = "mem_write"
          <6>1. r.len = 3 /\ r.align = 1
            BY <1>2, <1>4, <5>3 DEF Refusable
          <6>2. 3 % 2^1 # 0
            OBVIOUS
          <6>3. Misaligned(r)
            BY <6>1, <6>2 DEF Misaligned
          <6> QED
            BY <1>2, <5>1, <5>3, <6>3, Zenon
        <5> QED
          BY <1>4, <5>1, <5>2, <5>3 DEF MemOps
      <4>3. remote_packet_process_adiv5(r, "ok", 0) = remote_respond(PARERR, 0)
        BY <4>2, Zenon DEF remote_packet_process_adiv5
      <4> QED
        BY <3>0, <4>1, <4>3
    <3> QED
      BY <3>2, <3>3
  <2>2. PICK code \in Codes, err \in Nat : Result(r, "ok", 0) = remote_respond(code, err)
    BY <2>1
  <2> QED
    BY <2>2, RespondIs
<1> QED
  BY <1>3, <1>4

LEMMA OtherKeeps ==
    ASSUME RInv, Other
    PROVE  RInv'
<1>1. /\ ~Waiting /\ calls < MaxCalls /\ calls' = calls + 1 /\ UNCHANGED <<app, req, answers, late, upsets>>
  BY DEF Other
<1>2. PICK c \in Foreign : \E r :
          /\ r = [op |-> c.op, form |-> "v3", dev |-> 0, addr |-> 0, len |-> c.len, from |-> 0, align |-> c.align, size |-> c.size, n |-> 0]
          /\ probe' = Result(r, "ok", 0).p /\ target' = Result(r, "ok", 0).t /\ call' = Finish(c, Result(r, "ok", 0).a.code)
  BY DEF Other
<1>3. PICK r :
          /\ r = [op |-> c.op, form |-> "v3", dev |-> 0, addr |-> 0, len |-> c.len, from |-> 0, align |-> c.align, size |-> c.size, n |-> 0]
          /\ probe' = Result(r, "ok", 0).p /\ target' = Result(r, "ok", 0).t /\ call' = Finish(c, Result(r, "ok", 0).a.code)
  BY <1>2
<1>4. /\ app \in AppSet /\ probe \in ProbeSet /\ target \in TargetSet /\ Known(target) /\ calls \in 0 .. MaxCalls
  BY DEF RInv, Shape
<1>5. Refusable(c)
  BY ForeignRefusable
<1>6. PICK s : s = Result(r, "ok", 0)
  OBVIOUS
<1>7. s \in ServedSet /\ Known(s.t)
  BY <1>3, <1>4, <1>5, <1>6, ForeignServed
<1>8. probe' = s.p /\ target' = s.t /\ call' = Finish(c, s.a.code)
  BY <1>3, <1>6
<1>9. probe' \in ProbeSet /\ target' \in TargetSet /\ s.a.code \in Codes
  BY <1>7, <1>8 DEF ServedSet, ReplySet
<1>10. s.a.code \in Results /\ s.a.code # "ok"
  BY <1>9, CodesDiffer DEF Results, Codes
<1>11. c \in CallSet /\ c.did /\ c.off = 0 /\ c.len \in Nat
  BY <1>5 DEF Refusable, Fresh, CallSet
<1>12. /\ call' \in CallSet /\ Alike(call', c) /\ call'.st = "done" /\ call'.res = s.a.code /\ call'.off = 0 /\ call'.did
  BY <1>8, <1>10, <1>11, FinishIs
<1>13. call'.off <= call'.len + 1 /\ ~Waiting'
  BY <1>11, <1>12 DEF Alike, Waiting
<1>14. Shape'
  <2>1. Known(target)'
    BY <1>7, <1>8 DEF Known
  <2>2. \A i \in 1 .. Len(req') : Contained(req[i])'
    BY <1>1 DEF RInv, Shape, Contained
  <2>3. calls' \in 0 .. MaxCalls
    BY <1>1, <1>4, BoundAssumption
  <2> QED
    BY <1>1, <1>9, <1>12, <1>13, <2>1, <2>2, <2>3 DEF RInv, Shape
<1>15. Paired'
  BY <1>1, <1>13 DEF RInv, Paired, Pending
<1>16. Progress'
  BY <1>13 DEF Progress
<1>17. Moves' /\ FailureTold'
  <2>1. Delivered'
    BY <1>10, <1>12, NothingDelivered
  <2>2. ~Succeeded({"mem_read", "mem_write", "shift"})'
    BY <1>10, <1>12 DEF Succeeded
  <2>3. FailureTold'
    BY <1>12 DEF FailureTold
  <2> QED
    BY <2>1, <2>2, <2>3 DEF Moves
<1> QED
  BY <1>14, <1>15, <1>16, <1>17 DEF RInv, Ending

LEMMA NoCallIs ==
    /\ NoCall \in CallSet /\ NoCall.op = "none" /\ NoCall.st = "done" /\ NoCall.off <= NoCall.len + 1 /\ NoCall.did
<1>1. "ok" \in Results /\ <<>> \in Seq(Int) /\ 0 \in Devs /\ "none" \in Ops
  BY DEF Results, Devs, Ops
<1> QED
  BY <1>1 DEF NoCall, CallSet

LEMMA ClearKeeps ==
    ASSUME RInv, Clear
    PROVE  RInv'
<1>1. /\ ~Waiting /\ app' = [app EXCEPT !.fault = 0] /\ call' = NoCall
      /\ UNCHANGED <<req, answers, probe, target, late, upsets, calls>>
  BY DEF Clear
<1>2. app \in AppSet
  BY DEF RInv, Shape
<1>3. app' \in AppSet /\ app'.sent = app.sent
  BY <1>1, <1>2 DEF AppSet, Faults
<1>4. call' \in CallSet /\ call'.op = "none" /\ call'.off <= call'.len + 1 /\ call'.did /\ ~Waiting'
  BY <1>1, NoCallIs DEF Waiting
<1>5. Shape'
  <2>1. Known(target)' /\ \A i \in 1 .. Len(req') : Contained(req[i])'
    BY <1>1 DEF RInv, Shape, Contained, Known
  <2> QED
    BY <1>1, <1>3, <1>4, <2>1 DEF RInv, Shape
<1>6. Paired'
  BY <1>1, <1>3, <1>4 DEF RInv, Paired, Pending
<1>7. Progress'
  BY <1>4 DEF Progress
<1>8. Moves' /\ FailureTold'
  <2>1. Delivered'
    BY <1>4, NothingDelivered
  <2>2. ~Succeeded({"mem_read", "mem_write", "shift"})'
    BY <1>4 DEF Succeeded
  <2>3. FailureTold'
    BY <1>4 DEF FailureTold
  <2> QED
    BY <2>1, <2>2, <2>3 DEF Moves
<1> QED
  BY <1>5, <1>6, <1>7, <1>8 DEF RInv, Ending

-----------------------------------------------------------------------------
(* A write that fails leaves the rest of the memory alone.                 *)

LEMMA ServedConfined ==
    ASSUME WInv, NEW r, NEW s, Served1(r, s), UNCHANGED before
    PROVE  Stopped' /\ Confined'
<1>0. Shape /\ Paired /\ Progress /\ RInv'
  BY ServedKeeps DEF WInv, RInv
<1>1. UNCHANGED <<app, call, late>> /\ target' = s.t /\ Faithful(r, s) /\ req # <<>> /\ r = Head(req)
  BY DEF Served1
<1>2. req \in Seq(RequestSet) /\ r = req[1] /\ Len(req) \in Nat /\ Len(req) >= 1 /\ Len(answers) \in Nat /\ call \in CallSet /\ late \in Nat
      /\ call.off \in Nat /\ call.addr \in Nat
  BY <1>0, <1>1, Queues DEF Shape, CallSet
<1>3. ASSUME late = 0
      PROVE  Waiting /\ Asked(r)
  <2>0. Len(answers) + Len(req) = late + (IF Waiting THEN 1 ELSE 0)
    BY <1>0 DEF Paired, Pending
  <2>1. Waiting /\ Len(req) = 1
    <3>1. CASE Waiting
      <4>1. Len(answers) + Len(req) = late + 1
        BY <2>0, <3>1
      <4>2. PICK m \in Nat, n \in Nat : m = Len(answers) /\ n = Len(req) /\ n >= 1
        BY <1>2, Zenon
      <4>3. m + n = 0 + 1
        BY <1>3, <4>1, <4>2, Zenon
      <4>4. n = 1
        BY <4>2, <4>3
      <4> QED
        BY <3>1, <4>2, <4>4, Zenon
    <3>2. CASE ~Waiting
      <4>1. Len(answers) + Len(req) = late + 0
        BY <2>0, <3>2
      <4> QED
        BY <1>2, <1>3, <4>1
    <3> QED
      BY <3>1, <3>2
  <2>2. Asked(req[Len(req)])
    BY <1>0, <1>1, <2>1 DEF Progress
  <2> QED
    BY <1>2, <2>1, <2>2
<1>4. Stopped'
  <2>1. CASE Waiting
    <3>1. Waiting' /\ Progress'
      BY <1>0, <1>1, <2>1 DEF RInv, Waiting
    <3> QED
      BY <3>1 DEF Stopped, Progress, Prefix, Blocks, MemOps
  <2>2. CASE ~Waiting
    <3>1. late # 0
      BY <1>3, <2>2
    <3>2. call.op = "mem_write" /\ call.own => call.off = 0
      BY <1>2, <3>1 DEF WInv, Stopped
    <3> QED
      BY <1>1, <1>2, <3>2 DEF Stopped
  <2> QED
    BY <2>1, <2>2
<1>5. Confined'
  <2> SUFFICES ASSUME late = 0, NEW d \in Devs, NEW a \in Addrs, Changed(d, a)'
               PROVE  Within(d, a)'
    BY <1>1 DEF Confined
  <2>1. Within(d, a)' <=> Within(d, a)
    BY <1>1 DEF Within
  <2>2. CASE Changed(d, a)
    BY <2>1, <2>2 DEF WInv, Confined
  <2>3. CASE ~Changed(d, a)
    <3>1. s.t.mem[d][a] # target.mem[d][a]
      BY <1>1, <2>3 DEF Changed
    <3>2. r.op = "mem_write" /\ d = r.dev /\ r.addr <= a /\ a < r.addr + r.len
      BY <1>1, <3>1 DEF Faithful
    <3>3. r.op = Letter(app, call) /\ r.dev = Addressed(app, call).dev /\ r.addr = call.addr + call.off /\ r.len = Amount(app, call)
      BY <1>3 DEF Asked
    <3>4. call.op = "mem_write"
      BY <3>2, <3>3, LetterCases
    <3>5. call.addr <= a /\ a < (call.addr + call.off) + Amount(app, call)
      <4>1. a \in Int /\ call.addr <= call.addr + call.off /\ call.addr + call.off <= a
        BY <1>2, <3>2, <3>3, BoundAssumption DEF Addrs
      <4> QED
        BY <1>2, <3>2, <3>3, <4>1
    <3> QED
      BY <2>1, <3>2, <3>3, <3>4, <3>5 DEF Within
  <2> QED
    BY <2>2, <2>3
<1> QED
  BY <1>4, <1>5

\* A write that reads an answer, or gives up, goes no further than the end of the next block.
LEMMA TakenConfined ==
    ASSUME WInv, Waiting, NEW x, Taken(x), UNCHANGED <<target, before>>, late' = 0 => late = 0, call'.own => late' = 0
    PROVE  Stopped' /\ Confined'
<1>0. /\ app \in AppSet /\ call \in CallSet /\ Underway(app, call)
  BY DEF WInv, RInv, Shape
<1>1. ASSUME call.op = "mem_write"
      PROVE  /\ call'.op = call.op /\ call'.addr = call.addr /\ call'.len = call.len /\ call'.align = call.align
             /\ Addressed(app', call') = Addressed(app, call)
             /\ app'.funcs = app.funcs /\ Alike(call', call) /\ Wrote
  <2>1. Wrote
    BY <1>1 DEF Taken
  <2>2. Alike(call', call) /\ app'.funcs = app.funcs
    BY <2>1 DEF Wrote
  <2>3. Addressed(app', call') = Addressed(app, call')
    BY <2>2, SameTables
  <2>4. PICK d : d = call'
    OBVIOUS
  <2>5. Alike(d, call)
    BY <2>2, <2>4
  <2>6. Addressed(app, d) = Addressed(app, call)
    BY <2>5, SameAddress, Zenon
  <2> QED
    BY <2>1, <2>2, <2>3, <2>4, <2>6 DEF Alike
<1>2. Stopped'
  <2> SUFFICES ASSUME call'.op = "mem_write", call'.own
               PROVE  late' = 0 /\ \A i \in 1 .. call'.off : Cell(i)' = Payload(i)
    BY DEF Stopped, Payload
  <2>1. call.op = "mem_write"
    BY DEF Taken
  <2>2. \A i \in 1 .. call'.off : Cell(i) = Payload(i)
    BY <1>1, <2>1 DEF Wrote
  <2>3. \A i : Cell(i)' = Cell(i)
    BY <1>1, <2>1 DEF Cell
  <2> QED
    BY <2>2, <2>3
<1>3. Confined'
  <2> SUFFICES ASSUME late' = 0, NEW d \in Devs, NEW a \in Addrs, Changed(d, a)'
               PROVE  Within(d, a)'
    BY DEF Confined
  <2>1. Changed(d, a)
    BY DEF Changed
  <2>2. Within(d, a)
    BY <2>1 DEF WInv, Confined
  <2>3. call.op = "mem_write" /\ d = Addressed(app, call).dev /\ call.addr <= a /\ a < (call.addr + call.off) + Amount(app, call)
    BY <2>2 DEF Within
  <2>4. /\ Amount(app, call) \in Nat /\ call.off + Amount(app, call) <= call.len
        /\ call.off \in Nat /\ call.len \in Nat /\ call.addr \in Nat /\ call.align \in 0 .. 3 /\ a \in Int
    <3>1. /\ Amount(app, call) \in Nat /\ call.off + Amount(app, call) <= call.len
      BY <1>0, <2>3, AmountFits DEF Blocks, MemOps
    <3> QED
      BY <1>0, <3>1, BoundAssumption DEF CallSet, Addrs
  <2>5. Amount(app', call') = Amount(app, call')
    BY <1>1, <2>3, SameTables
  <2>6. a < (call'.addr + call'.off) + Amount(app', call')
    <3>1. CASE call'.off = call.off
      <4>1. PICK e : e = call'
        OBVIOUS
      <4>2. Alike(e, call) /\ e.off = call.off
        BY <1>1, <2>3, <3>1, <4>1
      <4>3. Amount(app, e) = Amount(app, call)
        BY <4>2, SameBlock, Zenon
      <4> QED
        BY <1>1, <2>3, <2>5, <3>1, <4>1, <4>3
    <3>2. CASE call'.off = call.off + Amount(app, call)
      <4>1. PICK e : e = call'
        OBVIOUS
      <4>2. e.op = "mem_write" /\ e.len = call.len /\ e.align = call.align /\ e.off = call.off + Amount(app, call)
        BY <1>1, <2>3, <3>2, <4>1
      <4>3. Amount(app, e) = Min({e.len - e.off, WriteBlock(e.align)})
        BY <4>2, AmountCases, Zenon
      <4>4. e.len - e.off \in Nat /\ WriteBlock(e.align) \in Nat
        BY <2>4, <4>2, BlockSizes
      <4>5. Amount(app, e) \in Nat
        BY <4>3, <4>4, MinPair
      <4> QED
        BY <1>1, <2>3, <2>4, <2>5, <3>2, <4>1, <4>5
    <3> QED
      BY <1>1, <2>3, <3>1, <3>2 DEF Wrote
  <2> QED
    BY <1>1, <2>3, <2>6 DEF Within
<1> QED
  BY <1>2, <1>3

\* A call begins: nothing has changed since, and it has moved nothing.
LEMMA FreshConfined ==
    ASSUME \A d \in Devs, a \in Addrs : target'.mem[d][a] = before'[d][a], call'.off = 0 \/ call'.op = "none"
    PROVE  Stopped' /\ Confined'
BY DEF Stopped, Confined, Changed

LEMMA BeginConfined ==
    ASSUME WInv, Begin
    PROVE  Stopped' /\ Confined'
<1>1. before' = target.mem /\ target' = target /\ app \in AppSet
  BY DEF Begin, WInv, RInv, Shape
<1>2. PICK c \in Callable(app) :
          IF c.op \in {"mem_read", "mem_write", "shift", "cycle"} /\ c.len = 0 THEN Over(app, Finish(c, "ok")) ELSE Ask(app, c)
  BY DEF Begin
<1>3. Fresh(c) /\ c \in CallSet /\ c.off = 0
  BY <1>1, CallableStartable DEF Startable, Fresh
<1>4. call' = c \/ call' = Finish(c, "ok")
  BY <1>2 DEF Over, Ask
<1>5. Finish(c, "ok").off = 0
  BY <1>3, FinishIs DEF Results
<1>6. call'.off = 0
  BY <1>3, <1>4, <1>5
<1> QED
  BY <1>1, <1>6, FreshConfined

LEMMA OtherConfined ==
    ASSUME WInv, Other
    PROVE  Stopped' /\ Confined'
<1>1. before' = target.mem
  BY DEF Other
<1>2. PICK c \in Foreign : \E r :
          /\ r = [op |-> c.op, form |-> "v3", dev |-> 0, addr |-> 0, len |-> c.len, from |-> 0, align |-> c.align, size |-> c.size, n |-> 0]
          /\ probe' = Result(r, "ok", 0).p /\ target' = Result(r, "ok", 0).t /\ call' = Finish(c, Result(r, "ok", 0).a.code)
  BY DEF Other
<1>3. PICK r :
          /\ r = [op |-> c.op, form |-> "v3", dev |-> 0, addr |-> 0, len |-> c.len, from |-> 0, align |-> c.align, size |-> c.size, n |-> 0]
          /\ probe' = Result(r, "ok", 0).p /\ target' = Result(r, "ok", 0).t /\ call' = Finish(c, Result(r, "ok", 0).a.code)
  BY <1>2
<1>4. probe \in ProbeSet /\ target \in TargetSet /\ Known(target)
  BY DEF WInv, RInv, Shape
<1>5. Refusable(c) /\ c \in CallSet /\ c.off = 0
  BY ForeignRefusable DEF Refusable, Fresh
<1>6. /\ Result(r, "ok", 0) \in ServedSet
      /\ \A d \in Devs, a \in Addrs : Result(r, "ok", 0).t.mem[d][a] = target.mem[d][a]
  BY <1>3, <1>4, <1>5, ForeignServed
<1>7. PICK s : s = Result(r, "ok", 0)
  OBVIOUS
<1>8. s.a.code \in Results /\ target' = s.t /\ call' = Finish(c, s.a.code)
  BY <1>3, <1>6, <1>7 DEF ServedSet, ReplySet, Results
<1>9. call'.off = 0
  BY <1>5, <1>8, FinishIs
<1>10. \A d \in Devs, a \in Addrs : target'.mem[d][a] = before'[d][a]
  BY <1>1, <1>6, <1>7, <1>8
<1> QED
  BY <1>9, <1>10, FreshConfined

LEMMA ClearConfined ==
    ASSUME WInv, Clear
    PROVE  Stopped' /\ Confined'
<1>1. call' = NoCall /\ before' = target.mem /\ target' = target
  BY DEF Clear
<1>2. call'.op = "none"
  BY <1>1, NoCallIs
<1> QED
  BY <1>1, <1>2, FreshConfined

LEMMA SameConfined ==
    ASSUME WInv, UNCHANGED <<app, call, target, late, before>>
    PROVE  Stopped' /\ Confined'
BY DEF WInv, Stopped, Confined, Changed, Within, Cell, Payload

LEMMA StepConfined ==
    ASSUME WInv, RemoteNext
    PROVE  Stopped' /\ Confined'
<1>0. RInv /\ late \in Nat
  BY DEF WInv, RInv, Shape
<1>1. CASE Serve
  <2>1. UNCHANGED <<app, call, late, before>>
    BY <1>1 DEF Serve
  <2>2. CASE Head(req).op = "GV"
    <3>1. UNCHANGED target
      BY <1>1, <2>2 DEF Serve
    <3> QED
      BY <2>1, <3>1, SameConfined
  <2>3. CASE Head(req).op # "GV"
    <3>1. PICK r, s : Served1(r, s)
      BY <1>0, <1>1, <2>3, ServeServed
    <3> QED
      BY <2>1, <3>1, ServedConfined
  <2> QED
    BY <2>2, <2>3
<1>2. CASE Read
  <2>1. Waiting /\ UNCHANGED <<target, late, before>>
    BY <1>2 DEF Read
  <2>2. PICK x \in AnswerSet : Taken(x) /\ (call'.own => late' = 0)
    BY <1>0, <1>2, ReadTaken
  <2> QED
    BY <2>1, <2>2, TakenConfined
<1>3. CASE GiveUp
  <2>1. Waiting /\ Take(NoAnswer) /\ UNCHANGED <<target, before>> /\ late' = late + 1
    BY <1>3 DEF GiveUp
  <2>2. PICK x : x = NoAnswer
    OBVIOUS
  <2>3. Taken(x) /\ ~call'.own
    BY <1>0, <2>1, <2>2, NoneTaken
  <2> QED
    BY <1>0, <2>1, <2>3, TakenConfined
<1>4. CASE GiveUpWithin
  <2>1. Waiting /\ Take(NoAnswer) /\ UNCHANGED <<target, late, before>>
    BY <1>4 DEF GiveUpWithin
  <2>2. PICK x : x = NoAnswer
    OBVIOUS
  <2>3. Taken(x) /\ ~call'.own
    BY <1>0, <2>1, <2>2, NoneTaken
  <2> QED
    BY <2>1, <2>3, TakenConfined
<1>5. CASE Hang
  <2>1. UNCHANGED <<app, call, target, late, before>>
    BY <1>5 DEF Hang
  <2> QED
    BY <2>1, SameConfined
<1> QED
  BY <1>1, <1>2, <1>3, <1>4, <1>5, BeginConfined, OtherConfined, ClearConfined DEF RemoteNext

-----------------------------------------------------------------------------
(* The theorems.                                                           *)

LEMMA RemoteInitHolds ==
    ASSUME RemoteInit
    PROVE  RInv
<1>1. /\ app = [funcs |-> NoFuncs, fault |-> 0, iface |-> "none", sent |-> 0, dead |-> FALSE] /\ call = NoCall
      /\ req = <<>> /\ answers = <<>> /\ late = 0 /\ upsets = 0 /\ calls = 0
      /\ target = [mem |-> [d \in Devs |-> [a \in Addrs |-> Original(d, a)]], tap |-> <<>>, nrst |-> 0]
  BY DEF RemoteInit
<1>2. NoFuncs \in FuncSet
  BY DEF NoFuncs, FuncSet
<1>3. app \in AppSet
  BY <1>1, <1>2 DEF AppSet, Faults
<1>4. call \in CallSet /\ call.op = "none" /\ call.off <= call.len + 1 /\ call.did /\ ~Waiting
  BY <1>1, NoCallIs DEF Waiting
<1>5. probe \in ProbeSet
  <2>1. PICK v \in Versions : probe = [version |-> v, iface |-> "none", fault |-> 0, devs |-> {}, hung |-> FALSE]
    BY DEF RemoteInit
  <2> QED
    BY <2>1 DEF ProbeSet, Faults
<1>6. target \in TargetSet /\ Known(target)
  <2>1. \A d \in Devs, a \in Addrs : Original(d, a) \in Int
    BY BoundAssumption DEF Devs, Addrs, Original
  <2>2. <<>> \in Seq(Nat \X BOOLEAN)
    OBVIOUS
  <2> QED
    BY <1>1, <2>1, <2>2 DEF TargetSet, Known
<1>7. Shape
  <2>1. req \in Seq(RequestSet) /\ answers \in Seq(AnswerSet) /\ Len(req) = 0 /\ Len(answers) = 0
    BY <1>1
  <2>2. late \in Nat /\ upsets \in 0 .. MaxUpsets /\ calls \in 0 .. MaxCalls
    BY <1>1, BoundAssumption
  <2> QED
    BY <1>3, <1>4, <1>5, <1>6, <2>1, <2>2 DEF Shape
<1>8. Paired
  <2>1. Len(req) = 0 /\ Len(answers) = 0
    BY <1>1
  <2> QED
    BY <1>1, <1>4, <2>1 DEF Paired, Pending
<1>9. Progress
  BY <1>4 DEF Progress
<1>10. Moves /\ FailureTold
  BY <1>4 DEF Moves, Delivered, Succeeded, FailureTold
<1> QED
  BY <1>7, <1>8, <1>9, <1>10 DEF RInv, Ending

LEMMA RemoteStepKeeps ==
    ASSUME RInv, [RemoteNext]_remoteVars
    PROVE  RInv'
<1>1. CASE RemoteNext
  BY <1>1, BeginKeeps, ServeKeeps, HangKeeps, ReadKeeps, GiveUpKeeps, GiveUpWithinKeeps, OtherKeeps, ClearKeeps
  DEF RemoteNext
<1>2. CASE UNCHANGED remoteVars
  <2>1. UNCHANGED <<app, call, req, answers, probe, target, late, upsets, calls>>
    BY <1>2 DEF remoteVars
  <2>2. probe' \in ProbeSet /\ upsets' \in 0 .. MaxUpsets
    BY <2>1 DEF RInv, Shape
  <2> QED
    BY <2>1, <2>2, ProbeOnly
<1> QED
  BY <1>1, <1>2

\* The numbers of what is outstanding, oldest first.
LEMMA PairedIs ==
    ASSUME RInv
    PROVE  AnswersPaired
<1> DEFINE s == [i \in DOMAIN answers |-> answers[i].n]
           t == [i \in DOMAIN req |-> req[i].n]
           ns == s \o t
<1>1. /\ answers \in Seq(AnswerSet) /\ req \in Seq(RequestSet) /\ Len(answers) \in Nat /\ Len(req) \in Nat /\ app.sent \in Nat
      /\ DOMAIN answers = 1 .. Len(answers) /\ DOMAIN req = 1 .. Len(req)
  BY DEF RInv, Shape, AppSet
<1>2. s \in Seq(Int) /\ Len(s) = Len(answers) /\ \A i \in 1 .. Len(answers) : s[i] = answers[i].n
  <2>1. ASSUME NEW i \in 1 .. Len(answers)
        PROVE  answers[i].n \in Int
    <3>1. answers[i] \in AnswerSet
      BY <1>1, <2>1
    <3> QED
      BY <3>1 DEF AnswerSet
  <2> QED
    BY <1>1, <2>1
<1>3. t \in Seq(Int) /\ Len(t) = Len(req) /\ \A i \in 1 .. Len(req) : t[i] = req[i].n
  <2>1. ASSUME NEW i \in 1 .. Len(req)
        PROVE  req[i].n \in Int
    <3>1. req[i] \in RequestSet
      BY <1>1, <2>1
    <3> QED
      BY <3>1 DEF RequestSet
  <2> QED
    BY <1>1, <2>1
<1> HIDE DEF s, t
<1>4. /\ Len(ns) = Len(answers) + Len(req) /\ DOMAIN ns = 1 .. Len(answers) + Len(req)
      /\ \A i \in 1 .. Len(answers) + Len(req) : ns[i] = IF i <= Len(answers) THEN s[i] ELSE t[i - Len(answers)]
  <2>1. /\ s \o t \in Seq(Int) /\ Len(s \o t) = Len(s) + Len(t)
        /\ \A i \in 1 .. Len(s) + Len(t) : (s \o t)[i] = IF i <= Len(s) THEN s[i] ELSE t[i - Len(s)]
    BY <1>2, <1>3, Joined, Zenon
  <2>2. DOMAIN (s \o t) = 1 .. Len(s \o t)
    BY <2>1
  <2> QED
    BY <1>2, <1>3, <2>1, <2>2
<1> HIDE DEF ns
<1>5. Len(ns) = late + (IF Waiting THEN 1 ELSE 0)
  BY <1>4 DEF RInv, Paired, Pending
<1>6. ASSUME NEW i \in DOMAIN ns
      PROVE  ns[i] = (app.sent - Len(ns)) + i
  <2>0. i \in 1 .. Len(answers) + Len(req) /\ i \in Int
    BY <1>4
  <2>1. CASE i <= Len(answers)
    <3>1. i \in 1 .. Len(answers)
      BY <1>1, <2>0, <2>1
    <3>2. ns[i] = answers[i].n
      BY <1>2, <1>4, <2>0, <2>1, <3>1
    <3>3. answers[i].n = (app.sent - (Len(answers) + Len(req))) + i
      BY <3>1 DEF RInv, Paired, Pending
    <3> QED
      BY <1>4, <3>2, <3>3
  <2>2. CASE ~(i <= Len(answers))
    <3>1. i - Len(answers) \in 1 .. Len(req)
      BY <1>1, <2>0, <2>2
    <3>2. ns[i] = req[i - Len(answers)].n
      BY <1>3, <1>4, <2>0, <2>2, <3>1
    <3>3. req[i - Len(answers)].n = (app.sent - Len(req)) + (i - Len(answers))
      BY <3>1 DEF RInv, Paired
    <3>4. app.sent \in Int /\ Len(req) \in Int /\ Len(answers) \in Int
      BY <1>1
    <3>5. (app.sent - Len(req)) + (i - Len(answers)) = (app.sent - (Len(answers) + Len(req))) + i
      BY <2>0, <3>4
    <3> QED
      BY <1>4, <3>2, <3>3, <3>5
  <2> QED
    BY <2>1, <2>2
<1> QED
  BY <1>5, <1>6 DEF AnswersPaired, ns, s, t

LEMMA TypedIs ==
    ASSUME RInv
    PROVE  RemoteTypeOK
<1>1. Shape
  BY DEF RInv
<1>2. app \in AppSet /\ app.funcs \in FuncSet /\ call \in CallSet /\ probe \in ProbeSet
  BY <1>1 DEF Shape, AppSet
<1>3. /\ app.fault \in {0, 1, WAIT, NO_RESPONSE} /\ app.iface \in {"none", "swd", "jtag"} /\ app.dead \in BOOLEAN
  BY <1>2 DEF AppSet, Faults
<1>4. app.funcs.adiv5 \in {"none", "wires", "v0", "v1", "v3"}
  BY <1>2 DEF FuncSet, Forms
<1>5. call.st \in {"wait", "done"} /\ call.off <= call.len + 1
  BY <1>1 DEF Shape, CallSet
<1>6. probe.fault \in {0, 1, WAIT, NO_RESPONSE} /\ probe.devs \subseteq Devs
  BY <1>2 DEF ProbeSet, Faults
<1>7. \A d \in Devs, a \in Addrs : target.mem[d][a] \in {Original(d, a)} \union (101 .. 100 + MaxAddr)
  BY <1>1 DEF Shape, Known
<1>8. late \in Nat /\ upsets <= MaxUpsets /\ calls <= MaxCalls
  BY <1>1, BoundAssumption DEF Shape
<1> QED
  BY <1>3, <1>4, <1>5, <1>6, <1>7, <1>8 DEF RemoteTypeOK

LEMMA SequenceIs ==
    ASSUME NEW S, NEW s \in Seq(S)
    PROVE  s = [i \in 1 .. Len(s) |-> s[i]]
OBVIOUS

LEMMA MovedIs ==
    ASSUME RInv
    PROVE  MovedExactly
<1>1. call \in CallSet /\ call.addr \in Nat /\ call.len \in Nat /\ call.buf \in Seq(Int)
  BY DEF RInv, Shape, CallSet
<1>2. ASSUME NEW op, Ended(op)
      PROVE  ~Waiting /\ Delivered /\ call.own /\ call.op = op
  BY <1>2 DEF Ended, Waiting, RInv, Ending, Moves
<1>3. ASSUME app.funcs.adiv5 # "v0" \/ call.dev = 0, Ended("mem_read"), call.res = "ok"
      PROVE  call.buf = [i \in 1 .. call.len |-> target.mem[call.dev][call.addr + (i - 1)]]
  <2>1. Delivered /\ Succeeded({"mem_read"})
    BY <1>2, <1>3 DEF Succeeded
  <2>2. Len(call.buf) = call.len /\ \A i \in 1 .. call.len : call.buf[i] = target.mem[call.dev][(call.addr + i) - 1]
    BY <1>3, <2>1 DEF Delivered
  <2>3. \A i \in 1 .. call.len : (call.addr + i) - 1 = call.addr + (i - 1)
    BY <1>1
  <2>4. call.buf = [i \in 1 .. Len(call.buf) |-> call.buf[i]]
    BY <1>1, SequenceIs, Zenon
  <2>5. \A i \in 1 .. call.len : call.buf[i] = target.mem[call.dev][call.addr + (i - 1)]
    BY <2>2, <2>3, Zenon
  <2> QED
    BY <2>2, <2>4, <2>5, Zenon
<1>4. ASSUME app.funcs.adiv5 # "v0" \/ call.dev = 0, Ended("mem_write"), call.res = "ok",
             NEW a \in call.addr .. call.addr + (call.len - 1)
      PROVE  target.mem[call.dev][a] = Payload((a - call.addr) + 1)
  <2>1. Delivered /\ Succeeded({"mem_write"})
    BY <1>2, <1>4 DEF Succeeded
  <2>2. \A i \in 1 .. call.len : target.mem[call.dev][(call.addr + i) - 1] = Payload(i)
    BY <1>4, <2>1 DEF Delivered
  <2>3. (a - call.addr) + 1 \in 1 .. call.len /\ (call.addr + ((a - call.addr) + 1)) - 1 = a
    BY <1>1, <1>4
  <2>4. target.mem[call.dev][(call.addr + ((a - call.addr) + 1)) - 1] = Payload((a - call.addr) + 1)
    BY <2>2, <2>3, Zenon
  <2> QED
    BY <2>3, <2>4, Zenon
<1> QED
  BY <1>3, <1>4 DEF MovedExactly

LEMMA ShiftedIs ==
    ASSUME RInv
    PROVE  ShiftExact
<1> SUFFICES ASSUME Ended("shift"), call.res = "ok", call.len > 0
             PROVE  /\ target.tap = [i \in 1 .. call.len |-> <<i, i = call.len>>]
                    /\ call.buf = [i \in 1 .. call.len |-> Payload(i)]
  BY DEF ShiftExact
<1>1. call.len \in Nat /\ call.buf \in Seq(Int) /\ target.tap \in Seq(Nat \X BOOLEAN)
  BY DEF RInv, Shape, CallSet, TargetSet
<1>2. Delivered /\ Succeeded({"shift"})
  BY DEF Ended, Waiting, RInv, Ending, Moves, Succeeded
<1>3. Shifted(call.len) /\ Len(call.buf) = call.len /\ \A i \in 1 .. call.len : call.buf[i] = Payload(i)
  BY <1>2 DEF Delivered
<1>4. call.buf = [i \in 1 .. call.len |-> Payload(i)]
  <2>1. call.buf = [i \in 1 .. Len(call.buf) |-> call.buf[i]]
    BY <1>1, SequenceIs, Zenon
  <2> QED
    BY <1>3, <2>1, Zenon
<1>5. target.tap = [i \in 1 .. call.len |-> <<i, i = call.len>>]
  <2>1. Len(target.tap) = call.len /\ \A i \in 1 .. call.len : target.tap[i] = <<i, i = call.len>>
    BY <1>3 DEF Shifted
  <2>2. target.tap = [i \in 1 .. Len(target.tap) |-> target.tap[i]]
    BY <1>1, SequenceIs, Zenon
  <2> QED
    BY <2>1, <2>2, Zenon
<1> QED
  BY <1>4, <1>5

LEMMA CallTrueIs ==
    ASSUME WInv
    PROVE  CallTrue
<1>0. RInv
  BY DEF WInv
<1>1. RemoteTypeOK /\ MovedExactly /\ ShiftExact
  BY <1>0, TypedIs, MovedIs, ShiftedIs
<1>2. BlocksAligned
  <2>1. req \in Seq(RequestSet) /\ DOMAIN req = 1 .. Len(req)
    BY <1>0 DEF RInv, Shape
  <2>2. \A i \in 1 .. Len(req) : req[i].op = "mem_write" => req[i].addr % 2^req[i].align = 0 /\ req[i].len % 2^req[i].align = 0
    BY <1>0 DEF RInv, Shape, Contained
  <2> QED
    BY <2>1, <2>2, Zenon DEF BlocksAligned
<1>3. FailureTold
  <2>1. CASE Waiting
    BY <2>1 DEF Waiting, FailureTold
  <2>2. CASE ~Waiting
    BY <1>0, <2>2 DEF RInv, Ending
  <2> QED
    BY <2>1, <2>2
<1>4. WriteConfined
  <2>1. call.op = "mem_write" /\ call.own => \A i \in 1 .. call.off : Cell(i) = Payload(i)
    BY DEF WInv, Stopped
  <2>2. late = 0 => \A d \in Devs, a \in Addrs : Changed(d, a) => Within(d, a)
    BY DEF WInv, Confined
  <2>3. call.addr \in Nat /\ call.off \in Nat
    BY <1>0 DEF RInv, Shape, CallSet
  <2>4. \A i \in 1 .. call.off : (call.addr + i) - 1 = call.addr + (i - 1)
    BY <2>3
  <2>5. call.op = "mem_write" /\ call.own =>
           \A i \in 1 .. call.off : target.mem[Addressed(app, call).dev][call.addr + (i - 1)] = Payload(i)
    BY <2>1, <2>4, Zenon DEF Cell
  <2>6. late = 0 => \A d \in Devs, a \in Addrs : target.mem[d][a] # before[d][a] =>
           /\ call.op = "mem_write" /\ d = Addressed(app, call).dev
           /\ call.addr <= a /\ a < (call.addr + call.off) + Amount(app, call)
    BY <2>2, Zenon DEF Changed, Within
  <2> QED
    BY <2>5, <2>6, Zenon DEF WriteConfined
<1> QED
  BY <1>1, <1>2, <1>3, <1>4 DEF CallTrue

\* The inductive invariant holds in every state of every behaviour.
THEOREM RemoteInvariant == RemoteSpec => []WInv
<1>1. RemoteInit => WInv
  <2> SUFFICES ASSUME RemoteInit
               PROVE  WInv
    OBVIOUS
  <2>1. before = target.mem /\ call.op = "none"
    BY NoCallIs DEF RemoteInit
  <2>2. Stopped /\ Confined
    BY <2>1 DEF Stopped, Confined, Changed
  <2> QED
    BY <2>2, RemoteInitHolds DEF WInv
<1>2. WInv /\ [RemoteNext]_remoteVars => WInv'
  <2> SUFFICES ASSUME WInv, [RemoteNext]_remoteVars
               PROVE  WInv'
    OBVIOUS
  <2>1. RInv'
    BY RemoteStepKeeps DEF WInv
  <2>2. CASE RemoteNext
    BY <2>1, <2>2, StepConfined DEF WInv
  <2>3. CASE UNCHANGED remoteVars
    <3>1. UNCHANGED <<app, call, target, late, before>>
      BY <2>3 DEF remoteVars
    <3> QED
      BY <2>1, <3>1, SameConfined DEF WInv
  <2> QED
    BY <2>2, <2>3
<1> QED
  BY <1>1, <1>2, PTL DEF RemoteSpec

\* Although nothing numbers them, what is outstanding is the request waited for and the
\* ones given up on, in order: every request gets one answer (remote_packet_process,
\* platform_buffer_read), whatever times out and whatever fails.
THEOREM PairedAlways == RemoteSpec => []AnswersPaired
<1>1. WInv => AnswersPaired
  BY PairedIs DEF WInv
<1> QED
  BY <1>1, RemoteInvariant, PTL

\* What a call reports of its own answers is what happened on the target: memory and
\* shifts moved exactly whatever blocks they were cut into, a write that fails has moved
\* the blocks before the failing one and, until an answer is given up on, touched nothing
\* outside it, writes stayed aligned, and no access that was not made is taken for one
\* that was (remote_v*_adiv5_mem_*, remote_v0_jtag_tdi_tdo_seq, remote_adiv5_check_error).
THEOREM CallsTrue == RemoteSpec => []CallTrue
<1>1. WInv => CallTrue
  BY CallTrueIs
<1> QED
  BY <1>1, RemoteInvariant, PTL
=============================================================================
