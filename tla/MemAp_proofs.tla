----------------------------- MODULE MemAp_proofs -----------------------------
(***************************************************************************)
(* The transfers of adiv5.c are exact when nothing goes wrong on the wire, *)
(* and over SWD they stay inside the bytes asked for when something does:  *)
(* for every page size, memory, set of bad addresses and any number of     *)
(* faults and transfers.                                                   *)
(***************************************************************************)
EXTENDS MemAp, SequenceTheorems, TLAPS

Kinds == {"none", "read", "write", "regs"}

Places == {"idle", "done", "raised", "select", "selected", "reselect", "csw", "tar",
           "fetch", "drw", "retar", "rdbuff", "flushed", "rerdbuff", "end"}

OpSet == [kind : Kinds, pc : Places, base : Nat, len : Nat, left : Nat, at : Nat, page : Nat,
          size : {1, 2, 4}, got : Seq(Byte), before : [Addr -> Byte],
          checked : BOOLEAN, clean : BOOLEAN, err : BOOLEAN]

\* Where a transfer stands: the elements from `at` on are still to be moved.
Counted(o) ==
    /\ o.base + o.len <= MaxAddr
    /\ o.base <= o.at
    /\ o.at + o.left * o.size = o.base + o.len
    /\ o.at % o.size = 0
    /\ o.page = o.at \div Page

\* How far a read is at each of its accesses.
ReadPlaced(o) ==
    /\ o.pc \notin {"end", "done", "raised"} => Len(o.got) = o.at - o.base /\ o.left >= 1
    /\ o.pc \in {"end", "done"} => Len(o.got) = o.len
    /\ o.pc = "drw" => o.left >= 2
    /\ o.pc = "rdbuff" => o.left = 1
    /\ o.pc \notin {"rerdbuff", "flushed"}

WritePlaced(o) ==
    /\ o.pc = "drw" => o.left >= 1
    /\ o.pc \in {"rdbuff", "rerdbuff", "flushed", "end", "done"} => o.left = 0
    /\ o.pc # "fetch"

Placed(o) ==
    /\ o \in OpSet
    /\ Len(o.got) <= o.len
    /\ o.kind \notin {"read", "write"} => o.pc = "idle"
    /\ o.kind \in {"read", "write"} => Counted(o) /\ o.pc # "idle"
    /\ o.kind = "read" => ReadPlaced(o)
    /\ o.kind = "write" => WritePlaced(o)

Shape ==
    /\ TypeOK
    /\ Placed(op)
    /\ transport = "emu" => fault = 0

\* Nothing keeps the next access from reaching the access port.
Armed == fault = 0 /\ (transport = "jtag" => op.clean)

SetUp == {"selected", "csw", "tar", "fetch", "drw", "retar", "rdbuff"}
Sized == {"tar", "fetch", "drw", "retar", "rdbuff"}

\* Then the port is set up as the transfer thinks; after a bus error TAR has stayed
\* where the error was.
Port ==
    op.kind \in {"read", "write"} =>
      /\ op.clean => fault = 0
      /\ op.clean /\ op.pc \in SetUp => ~sticky
      /\ Armed /\ op.pc \in SetUp => select = "bank0"
      /\ Armed /\ op.pc \in Sized => csw = op.size
      /\ Armed /\ (op.pc = "fetch" \/ (op.pc = "drw" /\ op.kind = "write")) =>
            tar = op.at \/ (BusError(tar) /\ ~op.clean)
      /\ op.clean /\ op.kind = "read" /\ op.pc \in {"drw", "rdbuff"} =>
            posted = OnLanes(op.at, op.size, mem)
      /\ op.clean /\ op.kind = "read" /\ op.pc = "drw" => tar = tar_autoinc(op.at, op.size)

\* What a transfer without a fault has moved so far.
ReadSoFar ==
    op.kind = "read" /\ op.clean =>
      \A i \in 1 .. Len(op.got) : op.got[i] = mem[op.base + i - 1]

WrittenSoFar ==
    op.kind = "write" /\ op.clean =>
      \A a \in Addr : mem[a] = IF a >= op.base /\ a < op.at THEN Payload(a - op.base)
                                                            ELSE op.before[a]

Moved == ReadSoFar /\ WrittenSoFar /\ WriteContained

MemInv == Shape /\ Port /\ Moved

-----------------------------------------------------------------------------
(* Arithmetic of pages and lanes *)

\* The page and the offset of an address.
LEMMA Euclid ==
    ASSUME NEW x \in Nat
    PROVE  /\ x \div Page \in Nat
           /\ x % Page \in 0 .. Page - 1
           /\ (x \div Page) * Page + (x % Page) = x
BY PageAssumption

\* tar_autoinc goes to the next address unless that lies in another page.
LEMMA AutoInc ==
    ASSUME NEW t \in Nat, NEW size \in {1, 2, 4}
    PROVE  /\ tar_autoinc(t, size) \in 0 .. t + size
           /\ (t + size) \div Page = t \div Page => tar_autoinc(t, size) = t + size
<1>1. t + size \in Nat /\ Page \in Nat
  BY PageAssumption
<1> DEFINE q == t \div Page
           p == (t + size) \div Page
           r == (t + size) % Page
<1>2. q \in Nat /\ q * Page <= t
  <2>1. q \in Nat /\ t % Page \in 0 .. Page - 1 /\ q * Page + (t % Page) = t
    BY Euclid
  <2>2. q * Page \in Nat
    BY <1>1, <2>1
  <2> QED
    BY <1>1, <2>1, <2>2
<1>3. p \in Nat /\ r \in 0 .. Page - 1 /\ p * Page + r = t + size
  BY <1>1, Euclid
<1>4. tar_autoinc(t, size) = q * Page + r
  BY DEF tar_autoinc
<1>5. q <= p
  <2> SUFFICES ASSUME p < q PROVE FALSE
    BY <1>2, <1>3
  <2> HIDE DEF q, p, r
  <2>1. (p + 1) * Page <= q * Page
    BY <1>1, <1>2, <1>3
  <2>2. (p + 1) * Page = p * Page + Page
    BY <1>1, <1>3
  <2> QED
    BY <1>1, <1>2, <1>3, <2>1, <2>2
<1>6. q * Page <= p * Page
  <2> HIDE DEF q, p, r
  <2> QED
    BY <1>1, <1>2, <1>3, <1>5
<1>7. q * Page \in Nat /\ p * Page \in Nat
  <2> HIDE DEF q, p, r
  <2> QED
    BY <1>1, <1>2, <1>3
<1> QED
  BY <1>1, <1>2, <1>3, <1>4, <1>6, <1>7

\* The element size divides the address and the length.
LEMMA Aligned ==
    ASSUME NEW a \in Nat, NEW n \in Nat
    PROVE  /\ MIN_ALIGN(a, n) \in {1, 2, 4}
           /\ a % MIN_ALIGN(a, n) = 0
           /\ n \div MIN_ALIGN(a, n) \in Nat
           /\ (n \div MIN_ALIGN(a, n)) * MIN_ALIGN(a, n) = n
           /\ n # 0 => n \div MIN_ALIGN(a, n) >= 1
BY DEF MIN_ALIGN, AlignOf

\* An aligned element lies on lanes of one word.
LEMMA LaneRoom ==
    ASSUME NEW a \in Nat, NEW size \in {1, 2, 4}, a % size = 0
    PROVE  /\ a % 4 \in Nat
           /\ (a % 4) + size <= 4
           /\ (a + size) % size = 0
           /\ \A x \in a .. a + size - 1 : (x % 4) - (a % 4) = x - a /\ x % 4 \in Lanes
<1>1. CASE size = 1
  BY <1>1 DEF Lanes
<1>2. CASE size = 2
  BY <1>2 DEF Lanes
<1>3. CASE size = 4
  BY <1>3 DEF Lanes
<1> QED
  BY <1>1, <1>2, <1>3

\* What adiv5_unpack_data takes from a word.
LEMMA UnpackSeq ==
    ASSUME NEW a \in Nat, NEW size \in {1, 2, 4}, a % size = 0, NEW w \in Word
    PROVE  /\ Unpack(a, size, w) \in Seq(Byte)
           /\ Len(Unpack(a, size, w)) = size
           /\ \A i \in 1 .. size : Unpack(a, size, w)[i] = w[(a % 4) + i - 1]
<1>1. \A i \in 1 .. size : (a % 4) + i - 1 \in Lanes
  BY LaneRoom DEF Lanes
<1>2. \A i \in 1 .. size : w[(a % 4) + i - 1] \in Byte
  BY <1>1 DEF Word
<1> QED
  BY <1>2 DEF Unpack

\* adiv5_pack_data puts the bytes of the caller's buffer on the lanes of their addresses.
LEMMA PackLanes ==
    ASSUME NEW a \in Nat, NEW size \in {1, 2, 4}, a % size = 0, NEW from \in Nat,
           NEW x \in a .. a + size - 1
    PROVE  Pack(a, size, from)[x % 4] = Payload(from + (x - a))
<1>1. x % 4 \in Lanes /\ a % 4 \in Nat /\ (x % 4) - (a % 4) = x - a
  BY LaneRoom
<1>2. x % 4 >= a % 4 /\ x % 4 < (a % 4) + size
  BY <1>1 DEF Lanes
<1> QED
  BY <1>1, <1>2 DEF Pack

LEMMA LanesWord ==
    ASSUME NEW a \in Addr, NEW size \in {1, 2, 4}, a + size <= MaxAddr,
           NEW m \in [Addr -> Byte]
    PROVE  OnLanes(a, size, m) \in Word
<1>1. a \in Nat /\ a % 4 \in Nat
  BY DEF Addr
<1>2. \A i \in Lanes : i >= a % 4 /\ i < (a % 4) + size => a + (i - (a % 4)) \in Addr
  BY <1>1, BoundAssumption DEF Addr, Lanes
<1>3. 0 \in Byte
  BY DEF Byte
<1> QED
  BY <1>2, <1>3 DEF OnLanes, Word

-----------------------------------------------------------------------------
(* The outcomes of one access *)

\* dp->low_access for a transfer that becomes zero or value, by the word it gets.
Wire(rnw, reg, n, w, zero, value) ==
    /\ \/ /\ Latched(reg)
          /\ op' = [zero EXCEPT !.clean = FALSE]
          /\ UNCHANGED <<fault, apVars, hits>>
       \/ /\ ~Latched(reg)
          /\ Carried(rnw, reg, n, w)
          /\ op' = [value EXCEPT !.clean = @ /\ ~sticky']
       \/ /\ ~Latched(reg)
          /\ \E k \in Injected(rnw) :
                /\ hits' = hits + 1
                /\ fault' = Latch(k)
                /\ op' = IF k \in Raises THEN [op EXCEPT !.pc = "raised", !.clean = FALSE]
                                         ELSE [zero EXCEPT !.clean = FALSE]
          /\ UNCHANGED apVars
    /\ UNCHANGED <<transport, ops>>

\* The transfer becomes o, but for what is known of faults.
Becomes(o) ==
    /\ op' \in OpSet
    /\ op'.kind = o.kind /\ op'.pc = o.pc
    /\ op'.base = o.base /\ op'.len = o.len
    /\ op'.left = o.left /\ op'.at = o.at /\ op'.page = o.page /\ op'.size = o.size
    /\ op'.got = o.got /\ op'.before = o.before

\* The access was not made and an acknowledgement is latched.
Skipped(o) == Becomes(o) /\ ~op'.clean /\ UNCHANGED apVars /\ fault' # 0

Raised == Becomes([op EXCEPT !.pc = "raised"]) /\ ~op'.clean /\ UNCHANGED apVars

Done(rnw, reg, n, w, o) ==
    /\ Becomes(o)
    /\ op'.clean => o.clean /\ ~sticky'
    /\ ~Latched(reg)
    /\ fault' = fault
    /\ Carried(rnw, reg, n, w)

\* A fault that is noticed is latched, one that is not raises an exception.
LEMMA Outcomes ==
    ASSUME TypeOK, op \in OpSet, transport = "emu" => fault = 0,
           NEW rnw \in {"read", "write"}, NEW reg, NEW n, NEW w,
           NEW zero \in OpSet, NEW value \in OpSet, Wire(rnw, reg, n, w, zero, value)
    PROVE  /\ Skipped(zero) \/ Raised \/ Done(rnw, reg, n, w, value)
           /\ fault' \in Acks
           /\ transport' = "emu" => fault' = 0
           /\ hits' \in 0 .. MaxHits
           /\ UNCHANGED <<transport, ops>>
<1>1. transport \in {"swd", "jtag", "emu"}
  BY TransportAssumption DEF TypeOK
<1>2. UNCHANGED <<transport, ops>>
  BY DEF Wire
<1>3. CASE Latched(reg) /\ op' = [zero EXCEPT !.clean = FALSE] /\ UNCHANGED <<fault, apVars, hits>>
  <2>1. fault # 0 /\ transport # "emu"
    BY <1>3 DEF Latched
  <2>2. Becomes(zero) /\ ~op'.clean
    BY <1>3 DEF Becomes, OpSet
  <2> QED
    BY <1>2, <1>3, <2>1, <2>2 DEF Skipped, TypeOK
<1>4. CASE /\ ~Latched(reg)
           /\ Carried(rnw, reg, n, w)
           /\ op' = [value EXCEPT !.clean = @ /\ ~sticky']
  <2>1. fault' = fault /\ hits' = hits
    BY <1>4 DEF Carried
  <2>2. (value.clean /\ ~sticky') \in BOOLEAN
    OBVIOUS
  <2>3. PICK c \in BOOLEAN : c = (value.clean /\ ~sticky')
    BY <2>2
  <2>4. op' = [value EXCEPT !.clean = c]
    BY <1>4, <2>3
  <2>5. op'.clean = c
    BY <2>4 DEF OpSet
  <2>6. op'.clean => value.clean /\ ~sticky'
    BY <2>3, <2>5, Zenon
  <2>7. Becomes(value)
    BY <2>4 DEF Becomes, OpSet
  <2> QED
    BY <1>2, <1>4, <2>1, <2>6, <2>7 DEF Done, TypeOK
<1>5. CASE /\ \E k \in Injected(rnw) :
                /\ hits' = hits + 1
                /\ fault' = Latch(k)
                /\ op' = IF k \in Raises THEN [op EXCEPT !.pc = "raised", !.clean = FALSE]
                                         ELSE [zero EXCEPT !.clean = FALSE]
           /\ UNCHANGED apVars
  <2>1. PICK k \in Injected(rnw) :
                /\ hits' = hits + 1
                /\ fault' = Latch(k)
                /\ op' = IF k \in Raises THEN [op EXCEPT !.pc = "raised", !.clean = FALSE]
                                         ELSE [zero EXCEPT !.clean = FALSE]
    BY <1>5
  <2>2. hits # MaxHits /\ transport # "emu" /\ k \in {"wait", "fault", "noresp", "invalid", "parity"}
    BY <1>1, <2>1 DEF Injected
  <2>3. hits' \in 0 .. MaxHits
    BY <2>1, <2>2, BoundAssumption DEF TypeOK
  <2>4. Latch(k) \in Acks /\ (k \notin Raises => Latch(k) # 0)
    BY <2>2 DEF Latch, Acks, Raises, TypeOK, WAIT, FAULT, NO_RESPONSE
  <2>5. CASE k \in Raises
    <3>1. op' = [op EXCEPT !.pc = "raised", !.clean = FALSE]
      BY <2>1, <2>5
    <3>2. Becomes([op EXCEPT !.pc = "raised"]) /\ ~op'.clean
      BY <3>1 DEF Becomes, OpSet, Places
    <3> QED
      BY <1>2, <1>5, <2>1, <2>2, <2>3, <2>4, <3>2 DEF Raised
  <2>6. CASE k \notin Raises
    <3>1. op' = [zero EXCEPT !.clean = FALSE]
      BY <2>1, <2>6
    <3>2. Becomes(zero) /\ ~op'.clean
      BY <3>1 DEF Becomes, OpSet
    <3> QED
      BY <1>2, <1>5, <2>1, <2>2, <2>3, <2>4, <2>6, <3>2 DEF Skipped
  <2> QED
    BY <2>5, <2>6
<1> QED
  BY <1>3, <1>4, <1>5 DEF Wire

-----------------------------------------------------------------------------
(* The steps of a transfer as accesses *)

AtPlace(p) == [op EXCEPT !.pc = p]

ReadOne(w) ==
    [op EXCEPT !.got = @ \o Unpack(op.at, op.size, w),
               !.at = op.at + op.size,
               !.left = @ - 1,
               !.page = (op.at + op.size) \div Page,
               !.pc = IF Crosses(op.at + op.size, op.page) THEN "retar"
                      ELSE IF op.left = 2 THEN "rdbuff" ELSE "drw"]

WroteOne ==
    [op EXCEPT !.at = op.at + op.size,
               !.left = @ - 1,
               !.page = (op.at + op.size) \div Page,
               !.pc = IF Crosses(op.at + op.size, op.page) THEN "retar"
                      ELSE IF op.left = 1 THEN "rdbuff" ELSE "drw"]

ReadLast(w) == [op EXCEPT !.got = @ \o Unpack(op.at, op.size, w), !.pc = "end"]

AfterSelect == IF op.pc = "select" THEN "selected" ELSE "csw"
AfterFetch == IF op.left = 1 THEN "rdbuff" ELSE "drw"
AfterFlush == IF op.pc = "rdbuff" THEN "flushed" ELSE "end"

LEMMA SelectWire ==
    SetupSelect => Wire("write", "SELECT", 0, ZeroWord, AtPlace(AfterSelect), AtPlace(AfterSelect))
BY Zenon DEF SetupSelect, Raw, LowAccess, Wire, AtPlace, AfterSelect

LEMMA CswWire ==
    SetupCsw => Wire("write", "CSW", op.size, ZeroWord, AtPlace("tar"), AtPlace("tar"))
BY Zenon DEF SetupCsw, Raw, LowAccess, Wire, AtPlace

LEMMA TarWire ==
    SetupTar \/ Retar =>
      Wire("write", "TAR", op.at, ZeroWord, AtPlace(AfterTar), AtPlace(AfterTar))
BY Zenon DEF SetupTar, Retar, Raw, LowAccess, Wire, AtPlace

LEMMA FetchWire ==
    Fetch => Wire("read", "DRW", 0, ZeroWord, AtPlace(AfterFetch), AtPlace(AfterFetch))
BY Zenon DEF Fetch, Raw, LowAccess, Wire, AtPlace, AfterFetch

LEMMA ReadWire ==
    ReadDrw => Wire("read", "DRW", 0, ZeroWord, ReadOne(ZeroWord), ReadOne(posted))
BY Zenon DEF ReadDrw, Raw, LowAccess, Wire, ReadOne

LEMMA WriteWire ==
    WriteDrw => Wire("write", "DRW", 0, Pack(op.at, op.size, op.at - op.base), WroteOne, WroteOne)
BY Zenon DEF WriteDrw, Raw, LowAccess, Wire, WroteOne

LEMMA LastWire ==
    Rdbuff /\ op.kind = "read" =>
      Wire("read", "RDBUFF", 0, ZeroWord, ReadLast(ZeroWord), ReadLast(posted))
BY DEF Rdbuff, Raw, LowAccess, Wire, ReadLast

LEMMA FlushWire ==
    Rdbuff /\ op.kind # "read" =>
      Wire("read", "RDBUFF", 0, ZeroWord, AtPlace(AfterFlush), AtPlace(AfterFlush))
BY DEF Rdbuff, Raw, LowAccess, Wire, AtPlace, AfterFlush

-----------------------------------------------------------------------------
(* What an access that is carried out does to the port *)

\* Only a write of DRW changes the target's memory.
LEMMA MemKept ==
    ASSUME NEW rnw \in {"read", "write"}, NEW reg \in {"SELECT", "CSW", "TAR", "DRW", "RDBUFF"},
           NEW n, NEW w, Carried(rnw, reg, n, w), reg # "DRW" \/ rnw = "read"
    PROVE  mem' = mem
<1>1. CASE reg \in {"SELECT", "RDBUFF"}
  BY <1>1 DEF Carried, ApRegs
<1>2. CASE reg \in {"CSW", "TAR"} /\ rnw = "write"
  BY <1>2 DEF Carried, ApWrite
<1>3. CASE rnw = "read" /\ reg \in {"CSW", "TAR", "DRW"}
  BY <1>3 DEF Carried, ApRead
<1> QED
  BY <1>1, <1>2, <1>3

\* Types of the port's registers.
PortTypes ==
    /\ sticky \in BOOLEAN
    /\ select \in {"bank0", "bank1"}
    /\ csw \in {1, 2, 4}
    /\ tar \in Addr \union {NoAddr, MaxAddr}
    /\ posted \in Word
    /\ mem \in [Addr -> Byte]

LEMMA ConstantWords == ZeroWord \in Word /\ JunkWord \in Word
BY DEF ZeroWord, JunkWord, Word, Byte

\* An address the bus accepts leaves room for the next one.
LEMMA NextTar ==
    ASSUME PortTypes, ~BusError(tar)
    PROVE  /\ tar \in Addr /\ tar + csw <= MaxAddr
           /\ tar_autoinc(tar, csw) \in Addr \union {NoAddr, MaxAddr}
<1>1. tar \in Addr /\ tar \in Nat /\ csw \in {1, 2, 4} /\ tar + csw <= MaxAddr
  BY BoundAssumption DEF PortTypes, BusError, Addr, NoAddr
<1>2. tar_autoinc(tar, csw) \in 0 .. tar + csw
  BY <1>1, AutoInc
<1> QED
  BY <1>1, <1>2, BoundAssumption DEF Addr

LEMMA ReadTypes ==
    ASSUME PortTypes, ApRead, UNCHANGED select
    PROVE  PortTypes'
<1>1. sticky' \in BOOLEAN
  BY Zenon DEF ApRead, BusError
<1>2. tar' \in Addr \union {NoAddr, MaxAddr}
  <2>1. CASE BusError(tar)
    BY <2>1 DEF ApRead, PortTypes
  <2>2. CASE ~BusError(tar)
    BY <2>2, NextTar DEF ApRead, PortTypes
  <2> QED
    BY <2>1, <2>2
<1>3. posted' \in Word
  <2>1. CASE BusError(tar)
    BY <2>1, ConstantWords DEF ApRead
  <2>2. CASE ~BusError(tar)
    BY <2>2, NextTar, LanesWord, ConstantWords DEF ApRead, PortTypes
  <2> QED
    BY <2>1, <2>2
<1> QED
  BY <1>1, <1>2, <1>3 DEF PortTypes, ApRead

LEMMA WriteTypes ==
    ASSUME PortTypes, NEW reg \in ApRegs, NEW n, NEW w \in Word, ApWrite(reg, n, w),
           reg = "CSW" => n \in {1, 2, 4},
           reg = "TAR" => n \in Addr \union {NoAddr, MaxAddr},
           UNCHANGED select
    PROVE  PortTypes'
<1>1. CASE reg = "CSW"
  BY <1>1 DEF ApWrite, PortTypes
<1>2. CASE reg = "TAR"
  BY <1>2 DEF ApWrite, PortTypes
<1>3. CASE reg = "DRW"
  <2>0. \A a \in Addr : a % 4 \in Lanes
    BY DEF Addr, Lanes
  <2>1. \A a \in Addr : w[a % 4] \in Byte /\ mem[a] \in Byte
    BY <2>0 DEF Word, PortTypes
  <2>2. CASE select = "bank0"
    <3>1. sticky' = BusError(tar) /\ UNCHANGED <<csw, posted>>
      BY <1>3, <2>2 DEF ApWrite
    <3>2. sticky' \in BOOLEAN
      BY <3>1, Zenon DEF BusError
    <3>3. mem' = IF BusError(tar) THEN mem
                 ELSE [a \in Addr |-> IF a >= tar /\ a < tar + csw THEN w[a % 4] ELSE mem[a]]
      BY <1>3, <2>2 DEF ApWrite
    <3>4. mem' \in [Addr -> Byte]
      BY <2>1, <3>3 DEF PortTypes
    <3>5. tar' = IF BusError(tar) THEN tar ELSE tar_autoinc(tar, csw)
      BY <1>3, <2>2 DEF ApWrite
    <3>6. tar' \in Addr \union {NoAddr, MaxAddr}
      BY <3>5, NextTar DEF PortTypes
    <3> QED
      BY <3>1, <3>2, <3>4, <3>6 DEF PortTypes
  <2>3. CASE select # "bank0"
    <3>1. /\ UNCHANGED <<csw, tar, posted, sticky>>
          /\ mem' = [a \in Addr |-> IF tar \in Addr /\ a \div 4 = tar \div 4 THEN w[a % 4] ELSE mem[a]]
      BY <1>3, <2>3 DEF ApWrite
    <3>2. mem' \in [Addr -> Byte]
      BY <2>1, <3>1
    <3> QED
      BY <3>1, <3>2 DEF PortTypes
  <2> QED
    BY <2>2, <2>3
<1> QED
  BY <1>1, <1>2, <1>3 DEF ApRegs

LEMMA CarriedTypes ==
    ASSUME PortTypes, NEW rnw \in {"read", "write"},
           NEW reg \in {"SELECT", "CSW", "TAR", "DRW", "RDBUFF"}, NEW n, NEW w \in Word,
           reg = "CSW" => n \in {1, 2, 4},
           reg = "TAR" => n \in Addr \union {NoAddr, MaxAddr},
           Carried(rnw, reg, n, w)
    PROVE  PortTypes'
<1>1. CASE transport = "jtag" /\ sticky /\ reg \in ApRegs
  BY <1>1, ConstantWords DEF Carried, PortTypes
<1>2. CASE reg \in {"SELECT", "RDBUFF"}
  <2>1. sticky' = (sticky /\ transport = "jtag") /\ UNCHANGED <<csw, tar, posted, mem>>
    BY <1>2 DEF Carried, ApRegs
  <2>2. sticky' \in BOOLEAN
    BY <2>1, Zenon
  <2>3. select' \in {"bank0", "bank1"}
    BY <1>2 DEF Carried, ApRegs, PortTypes
  <2> QED
    BY <2>1, <2>2, <2>3 DEF PortTypes
<1>3. CASE ~(transport = "jtag" /\ sticky /\ reg \in ApRegs) /\ reg \in ApRegs
  <2>1. UNCHANGED select /\ IF rnw = "write" THEN ApWrite(reg, n, w) ELSE ApRead
    BY <1>3 DEF Carried, ApRegs
  <2> QED
    BY <1>3, <2>1, ReadTypes, WriteTypes
<1> QED
  BY <1>1, <1>2, <1>3 DEF ApRegs

-----------------------------------------------------------------------------
(* Shape: where the transfer stands *)

LEMMA PlacedBecomes ==
    ASSUME NEW o, Placed(o), Becomes(o)
    PROVE  Placed(op')
BY DEF Becomes, Placed, Counted, ReadPlaced, WritePlaced

\* An exception may end a transfer at any access.
LEMMA RaisedPlaced ==
    ASSUME Placed(op), op.kind \in {"read", "write"}
    PROVE  Placed(AtPlace("raised"))
BY DEF Placed, Counted, ReadPlaced, WritePlaced, AtPlace, OpSet, Places

\* An access keeps the shape if its word, whichever it is, leaves a placed transfer.
LEMMA WireShape ==
    ASSUME Shape, op.kind \in {"read", "write"}, NEW rnw \in {"read", "write"},
           NEW reg \in {"SELECT", "CSW", "TAR", "DRW", "RDBUFF"}, NEW n, NEW w \in Word,
           reg = "CSW" => n \in {1, 2, 4},
           reg = "TAR" => n \in Addr \union {NoAddr, MaxAddr},
           NEW zero, Placed(zero), NEW value, Placed(value), Wire(rnw, reg, n, w, zero, value)
    PROVE  Shape'
<1>1. PortTypes /\ op \in OpSet /\ zero \in OpSet /\ value \in OpSet
  BY DEF Shape, TypeOK, PortTypes, Placed
<1>2. /\ Skipped(zero) \/ Raised \/ Done(rnw, reg, n, w, value)
      /\ fault' \in Acks
      /\ transport' = "emu" => fault' = 0
      /\ hits' \in 0 .. MaxHits
      /\ UNCHANGED <<transport, ops>>
  BY <1>1, Outcomes DEF Shape
<1>3. PortTypes' /\ Placed(op')
  <2>1. CASE Skipped(zero)
    BY <1>1, <2>1, PlacedBecomes DEF Skipped, apVars, PortTypes
  <2>2. CASE Raised
    BY <1>1, <2>2, PlacedBecomes, RaisedPlaced DEF Raised, apVars, PortTypes, AtPlace, Shape
  <2>3. CASE Done(rnw, reg, n, w, value)
    BY <1>1, <2>3, PlacedBecomes, CarriedTypes DEF Done
  <2> QED
    BY <1>2, <2>1, <2>2, <2>3
<1>4. op'.got \in Seq(Byte) /\ Len(op'.got) <= op'.len
  BY <1>3 DEF Placed, OpSet
<1>5. TypeOK'
  BY <1>2, <1>3, <1>4 DEF TypeOK, PortTypes, Shape
<1> QED
  BY <1>2, <1>3, <1>5 DEF Shape

\* The next element of a transfer that is not at its end.
LEMMA NextElement ==
    ASSUME Placed(op), op.kind \in {"read", "write"}, op.left >= 1
    PROVE  /\ op.at + op.size <= op.base + op.len
           /\ op.left - 1 \in Nat
           /\ (op.at + op.size) + (op.left - 1) * op.size = op.base + op.len
           /\ (op.at + op.size) % op.size = 0
           /\ (op.at + op.size) \div Page \in Nat
           /\ op.at \in Addr
<1>1. op \in OpSet /\ Counted(op)
  BY DEF Placed
<1>2. op.size \in {1, 2, 4} /\ op.at \in Nat /\ op.left \in Nat /\ op.base \in Nat /\ op.len \in Nat
  BY <1>1 DEF OpSet
<1>3. (op.at + op.size) % op.size = 0
  BY <1>1, <1>2, LaneRoom DEF Counted
<1>4. (op.at + op.size) \div Page \in Nat
  BY <1>2, Euclid
<1>5. op.at + op.left * op.size = op.base + op.len /\ op.base + op.len <= MaxAddr
  BY <1>1 DEF Counted
<1>6. /\ op.at + op.size <= op.base + op.len
      /\ (op.at + op.size) + (op.left - 1) * op.size = op.base + op.len
  <2>1. CASE op.size = 1
    BY <1>2, <1>5, <2>1
  <2>2. CASE op.size = 2
    BY <1>2, <1>5, <2>2
  <2>3. CASE op.size = 4
    BY <1>2, <1>5, <2>3
  <2> QED
    BY <1>2, <2>1, <2>2, <2>3
<1>7. op.at \in Addr
  BY <1>2, <1>5, <1>6, BoundAssumption DEF Addr
<1> QED
  BY <1>2, <1>3, <1>4, <1>6, <1>7

\* The bytes of the element join those read before.
LEMMA GotNext ==
    ASSUME Placed(op), op.kind = "read", NEW w \in Word
    PROVE  /\ op.got \o Unpack(op.at, op.size, w) \in Seq(Byte)
           /\ Len(op.got \o Unpack(op.at, op.size, w)) = Len(op.got) + op.size
           /\ \A i \in 1 .. Len(op.got) + op.size :
                 (op.got \o Unpack(op.at, op.size, w))[i] =
                    IF i <= Len(op.got) THEN op.got[i]
                    ELSE w[(op.at % 4) + (i - Len(op.got)) - 1]
<1>1. /\ op.got \in Seq(Byte) /\ op.at \in Nat /\ op.size \in {1, 2, 4} /\ op.at % op.size = 0
  BY DEF Placed, OpSet, Counted
<1>2. /\ Unpack(op.at, op.size, w) \in Seq(Byte)
      /\ Len(Unpack(op.at, op.size, w)) = op.size
      /\ \A i \in 1 .. op.size : Unpack(op.at, op.size, w)[i] = w[(op.at % 4) + i - 1]
  BY <1>1, UnpackSeq
<1>3. Len(op.got) \in Nat
  BY <1>1
<1>4. PICK u \in Seq(Byte) : u = Unpack(op.at, op.size, w)
  BY <1>2
<1>5. PICK g \in Seq(Byte) : g = op.got
  BY <1>1
<1>6. /\ g \o u \in Seq(Byte)
      /\ Len(g \o u) = Len(g) + Len(u)
      /\ \A i \in 1 .. Len(g) + Len(u) :
            (g \o u)[i] = IF i <= Len(g) THEN g[i] ELSE u[i - Len(g)]
  BY ConcatProperties, Zenon
<1>7. \A i \in 1 .. Len(g) + op.size : ~(i <= Len(g)) => i - Len(g) \in 1 .. op.size
  BY <1>1, <1>3, <1>5
<1>8. Len(u) = op.size /\ \A i \in 1 .. op.size : u[i] = w[(op.at % 4) + i - 1]
  BY <1>2, <1>4
<1>9. \A i \in 1 .. Len(g) + op.size :
         (g \o u)[i] = IF i <= Len(g) THEN g[i] ELSE w[(op.at % 4) + (i - Len(g)) - 1]
  BY <1>6, <1>7, <1>8
<1> QED
  BY <1>4, <1>5, <1>6, <1>8, <1>9

LEMMA ReadOnePlaced ==
    ASSUME Placed(op), op.kind = "read", op.pc = "drw", NEW w \in Word
    PROVE  Placed(ReadOne(w))
<1>1. op \in OpSet /\ Counted(op) /\ op.left >= 2 /\ Len(op.got) = op.at - op.base
  BY DEF Placed, ReadPlaced
<1>2. PICK g \in Seq(Byte) : g = op.got \o Unpack(op.at, op.size, w)
  BY GotNext
<1>3. Len(g) = (op.at + op.size) - op.base
  <2>1. Len(g) = (op.at - op.base) + op.size
    BY <1>1, <1>2, GotNext
  <2> QED
    BY <1>1, <2>1 DEF OpSet
<1>4. PICK next \in Nat : next = op.at + op.size
  BY <1>1 DEF OpSet
<1>5. /\ next <= op.base + op.len /\ op.base <= next
      /\ next + (op.left - 1) * op.size = op.base + op.len
      /\ next % op.size = 0 /\ next \div Page \in Nat
      /\ op.left - 1 \in Nat
  <2>1. op.left >= 1 /\ op.base <= op.at + op.size
    BY <1>1 DEF OpSet, Counted
  <2> QED
    BY <1>4, <2>1, NextElement
<1>6. ReadOne(w) = [op EXCEPT !.got = g, !.at = next, !.left = op.left - 1, !.page = next \div Page,
                              !.pc = IF Crosses(next, op.page) THEN "retar"
                                     ELSE IF op.left = 2 THEN "rdbuff" ELSE "drw"]
  BY <1>2, <1>4 DEF ReadOne
<1>7. Len(g) = next - op.base
  BY <1>3, <1>4
<1>8. PICK o \in OpSet : o = ReadOne(w)
  BY <1>1, <1>5, <1>6 DEF OpSet, Places
<1>9. /\ o.kind = "read" /\ o.base = op.base /\ o.len = op.len /\ o.size = op.size
      /\ o.got = g /\ o.at = next /\ o.left = op.left - 1 /\ o.page = next \div Page
      /\ o.pc = IF Crosses(next, op.page) THEN "retar" ELSE IF op.left = 2 THEN "rdbuff" ELSE "drw"
  BY <1>1, <1>6, <1>8 DEF OpSet
<1>10. Counted(o)
  BY <1>1, <1>5, <1>9 DEF Counted
<1>11. ReadPlaced(o)
  BY <1>1, <1>7, <1>9 DEF ReadPlaced, OpSet
<1>12. Len(o.got) <= o.len
  BY <1>1, <1>4, <1>5, <1>7, <1>9 DEF OpSet
<1> QED
  BY <1>8, <1>9, <1>10, <1>11, <1>12 DEF Placed

LEMMA WroteOnePlaced ==
    ASSUME Placed(op), op.kind = "write", op.pc = "drw"
    PROVE  Placed(WroteOne)
<1>1. op \in OpSet /\ Counted(op) /\ op.left >= 1 /\ Len(op.got) <= op.len
  BY DEF Placed, WritePlaced
<1>4. PICK next \in Nat : next = op.at + op.size
  BY <1>1 DEF OpSet
<1>5. /\ next <= op.base + op.len /\ op.base <= next
      /\ next + (op.left - 1) * op.size = op.base + op.len
      /\ next % op.size = 0 /\ next \div Page \in Nat
      /\ op.left - 1 \in Nat
  <2>1. op.left >= 1 /\ op.base <= op.at + op.size
    BY <1>1 DEF OpSet, Counted
  <2> QED
    BY <1>4, <2>1, NextElement
<1>6. WroteOne = [op EXCEPT !.at = next, !.left = op.left - 1, !.page = next \div Page,
                            !.pc = IF Crosses(next, op.page) THEN "retar"
                                   ELSE IF op.left = 1 THEN "rdbuff" ELSE "drw"]
  BY <1>4 DEF WroteOne
<1>8. PICK o \in OpSet : o = WroteOne
  BY <1>1, <1>5, <1>6 DEF OpSet, Places
<1>9. /\ o.kind = "write" /\ o.base = op.base /\ o.len = op.len /\ o.size = op.size
      /\ o.got = op.got /\ o.at = next /\ o.left = op.left - 1 /\ o.page = next \div Page
      /\ o.pc = IF Crosses(next, op.page) THEN "retar" ELSE IF op.left = 1 THEN "rdbuff" ELSE "drw"
  BY <1>1, <1>6, <1>8 DEF OpSet
<1>10. Counted(o)
  BY <1>1, <1>5, <1>9 DEF Counted
<1>11. WritePlaced(o)
  BY <1>1, <1>9 DEF WritePlaced, OpSet
<1> QED
  BY <1>1, <1>8, <1>9, <1>10, <1>11 DEF Placed

LEMMA ReadLastPlaced ==
    ASSUME Placed(op), op.kind = "read", op.pc = "rdbuff", NEW w \in Word
    PROVE  Placed(ReadLast(w))
<1>1. op \in OpSet /\ Counted(op) /\ op.left = 1 /\ Len(op.got) = op.at - op.base
  BY DEF Placed, ReadPlaced
<1>2. PICK g \in Seq(Byte) : g = op.got \o Unpack(op.at, op.size, w)
  BY GotNext
<1>3. Len(g) = (op.at - op.base) + op.size
  BY <1>1, <1>2, GotNext
<1>4. Len(g) = op.len
  BY <1>1, <1>3 DEF OpSet, Counted
<1>5. PICK o \in OpSet : o = ReadLast(w)
  BY <1>1, <1>2 DEF OpSet, Places, ReadLast
<1>6. /\ o.kind = "read" /\ o.base = op.base /\ o.len = op.len /\ o.size = op.size
      /\ o.got = g /\ o.at = op.at /\ o.left = op.left /\ o.page = op.page /\ o.pc = "end"
  BY <1>1, <1>2, <1>5 DEF OpSet, ReadLast
<1>7. Counted(o) /\ ReadPlaced(o)
  BY <1>1, <1>4, <1>6 DEF Counted, ReadPlaced
<1> QED
  BY <1>1, <1>4, <1>5, <1>6, <1>7 DEF Placed, OpSet

LEMMA PayloadByte ==
    ASSUME NEW at \in Nat, NEW base \in Nat, NEW len \in Nat, NEW size \in {1, 2, 4},
           base <= at, at + size <= base + len, base + len <= MaxAddr,
           NEW i \in Lanes, i >= at % 4, i < (at % 4) + size
    PROVE  Payload((at - base) + (i - (at % 4))) \in Byte
<1>1. PICK lane \in Nat : lane = at % 4
  OBVIOUS
<1>2. (at - base) + (i - lane) \in 0 .. MaxAddr
  BY <1>1, BoundAssumption DEF Lanes
<1>3. \A k \in 0 .. MaxAddr : Payload(k) \in Byte
  BY BoundAssumption DEF Payload, Byte
<1> QED
  BY <1>1, <1>2, <1>3

LEMMA PackWord ==
    ASSUME Placed(op), op.kind = "write", op.left >= 1
    PROVE  Pack(op.at, op.size, op.at - op.base) \in Word
<1>1. /\ op.at \in Nat /\ op.size \in {1, 2, 4} /\ op.at % op.size = 0
      /\ op.base \in Nat /\ op.len \in Nat /\ op.base <= op.at /\ op.base + op.len <= MaxAddr
  BY DEF Placed, OpSet, Counted
<1>2. op.at + op.size <= op.base + op.len
  BY NextElement
<1>3. \A i \in Lanes : i >= op.at % 4 /\ i < (op.at % 4) + op.size =>
         Payload((op.at - op.base) + (i - (op.at % 4))) \in Byte
  BY <1>1, <1>2, PayloadByte
<1> QED
  BY <1>3 DEF Pack, Word, Byte

\* Another place changes nothing else.
LEMMA PlaceFields ==
    ASSUME Placed(op), NEW p
    PROVE  /\ AtPlace(p).kind = op.kind /\ AtPlace(p).pc = p
           /\ AtPlace(p).base = op.base /\ AtPlace(p).len = op.len
           /\ AtPlace(p).left = op.left /\ AtPlace(p).at = op.at
           /\ AtPlace(p).page = op.page /\ AtPlace(p).size = op.size
           /\ AtPlace(p).got = op.got /\ AtPlace(p).before = op.before
           /\ AtPlace(p).clean = op.clean
BY DEF Placed, AtPlace, OpSet

\* Places that differ from the present one in nothing the shape looks at.
LEMMA PlaceMoves ==
    ASSUME Placed(op), op.kind \in {"read", "write"}, NEW p \in Places, p # "idle",
           op.kind = "read" => ReadPlaced(AtPlace(p)),
           op.kind = "write" => WritePlaced(AtPlace(p))
    PROVE  Placed(AtPlace(p))
<1>1. op \in OpSet
  BY DEF Placed
<1>2. AtPlace(p) \in OpSet /\ Counted(AtPlace(p))
  BY <1>1 DEF AtPlace, OpSet, Placed, Counted
<1>3. AtPlace(p).kind = op.kind /\ AtPlace(p).pc = p /\ AtPlace(p).got = op.got /\ AtPlace(p).len = op.len
  BY <1>1 DEF AtPlace, OpSet
<1> QED
  BY <1>2, <1>3 DEF Placed

\* Only transfers have accesses to make.
LEMMA InTransfer ==
    ASSUME Placed(op), op.pc # "idle"
    PROVE  op.kind \in {"read", "write"}
BY DEF Placed

LEMMA SelectPlaced ==
    ASSUME Placed(op), SetupSelect
    PROVE  Placed(AtPlace(AfterSelect))
<1>1. op.pc \in {"select", "reselect"} /\ op.kind \in {"read", "write"} /\ op \in OpSet
  BY InTransfer DEF SetupSelect, Placed
<1>2. AfterSelect \in {"selected", "csw"}
  BY <1>1 DEF AfterSelect
<1>3. op.kind = "read" => ReadPlaced(AtPlace(AfterSelect))
  BY <1>1, <1>2, PlaceFields DEF Placed, ReadPlaced
<1>4. op.kind = "write" => WritePlaced(AtPlace(AfterSelect))
  BY <1>2, PlaceFields DEF WritePlaced
<1> QED
  BY <1>1, <1>2, <1>3, <1>4, PlaceMoves DEF Places

LEMMA CswPlaced ==
    ASSUME Placed(op), SetupCsw
    PROVE  Placed(AtPlace("tar"))
<1>1. op.pc \in {"csw", "selected"} /\ op.kind \in {"read", "write"} /\ op \in OpSet
  BY InTransfer DEF SetupCsw, Placed
<1>2. op.kind = "read" => ReadPlaced(AtPlace("tar"))
  BY <1>1, PlaceFields DEF Placed, ReadPlaced
<1>3. op.kind = "write" => WritePlaced(AtPlace("tar"))
  BY PlaceFields DEF WritePlaced
<1> QED
  BY <1>1, <1>2, <1>3, PlaceMoves DEF Places

LEMMA TarPlaced ==
    ASSUME Placed(op), SetupTar \/ Retar
    PROVE  Placed(AtPlace(AfterTar))
<1>1. op.pc \in {"tar", "retar"} /\ op.kind \in {"read", "write"} /\ op \in OpSet
  BY InTransfer DEF SetupTar, Retar, Placed
<1>2. AfterTar \in {"fetch", "rdbuff", "drw"}
  BY DEF AfterTar
<1>3. op.kind = "read" => ReadPlaced(AtPlace(AfterTar))
  BY <1>1, PlaceFields DEF Placed, ReadPlaced, AfterTar
<1>4. op.kind = "write" => WritePlaced(AtPlace(AfterTar))
  <2>1. op.left \in Nat
    BY <1>1 DEF OpSet
  <2> QED
    BY <2>1, PlaceFields DEF WritePlaced, AfterTar
<1> QED
  BY <1>1, <1>2, <1>3, <1>4, PlaceMoves DEF Places

LEMMA FetchPlaced ==
    ASSUME Placed(op), Fetch
    PROVE  op.kind = "read" /\ Placed(AtPlace(AfterFetch))
<1>1. op.pc = "fetch" /\ op.kind = "read" /\ op \in OpSet
  BY InTransfer DEF Fetch, Placed, WritePlaced
<1>2. op.left \in Nat /\ AfterFetch \in {"rdbuff", "drw"}
  BY <1>1 DEF OpSet, AfterFetch
<1>3. ReadPlaced(AtPlace(AfterFetch))
  BY <1>1, <1>2, PlaceFields DEF Placed, ReadPlaced, AfterFetch
<1> QED
  BY <1>1, <1>2, <1>3, PlaceMoves DEF Places

LEMMA FlushPlaced ==
    ASSUME Placed(op), Rdbuff, op.kind # "read"
    PROVE  op.kind = "write" /\ Placed(AtPlace(AfterFlush))
<1>1. op.pc \in {"rdbuff", "rerdbuff"} /\ op.kind = "write" /\ op \in OpSet
  BY InTransfer DEF Rdbuff, Placed
<1>2. AfterFlush \in {"flushed", "end"}
  BY <1>1 DEF AfterFlush
<1>3. WritePlaced(AtPlace(AfterFlush))
  BY <1>1, <1>2, PlaceFields DEF Placed, WritePlaced
<1> QED
  BY <1>1, <1>2, <1>3, PlaceMoves DEF Places

\* A new transfer: nothing moved yet.
LEMMA StartPlaced ==
    ASSUME Shape, NEW kind \in {"read", "write"}, NEW a \in Addr, NEW n \in Lens,
           NEW checked \in BOOLEAN, Start(kind, a, n, checked)
    PROVE  /\ Placed(op')
           /\ op'.kind = kind /\ op'.pc \in {"select", "end"} /\ op'.at = a /\ op'.base = a
           /\ op'.got = <<>> /\ op'.before = mem
           /\ op'.clean => fault = 0
<1>1. a \in Nat /\ n \in Nat /\ a + n <= MaxAddr
  BY BoundAssumption DEF Addr, Start
<1>2. /\ MIN_ALIGN(a, n) \in {1, 2, 4}
      /\ a % MIN_ALIGN(a, n) = 0
      /\ n \div MIN_ALIGN(a, n) \in Nat
      /\ (n \div MIN_ALIGN(a, n)) * MIN_ALIGN(a, n) = n
      /\ n # 0 => n \div MIN_ALIGN(a, n) >= 1
  BY <1>1, Aligned
<1>3. a \div Page \in Nat
  BY <1>1, Euclid
<1>4. PICK size \in {1, 2, 4} : size = MIN_ALIGN(a, n)
  BY <1>2
<1>5. PICK left \in Nat : left = n \div MIN_ALIGN(a, n)
  BY <1>2
<1>6. PICK clean \in BOOLEAN : clean = (fault = 0)
  OBVIOUS
<1>7. op' = [kind |-> kind, pc |-> IF kind = "read" /\ n = 0 THEN "end" ELSE "select",
              base |-> a, len |-> n, left |-> left, at |-> a, page |-> a \div Page,
              size |-> size, got |-> <<>>, before |-> mem,
              checked |-> checked, clean |-> clean, err |-> FALSE]
  BY <1>4, <1>5, <1>6, Zenon DEF Start
<1>8. op' \in OpSet
  BY <1>1, <1>3, <1>7 DEF OpSet, Kinds, Places, Shape, TypeOK
<1>9. op'.clean => fault = 0
  <2>1. op'.clean = clean
    BY <1>7
  <2> QED
    BY <1>6, <2>1, Zenon
<1>10. Len(op'.got) = 0
  BY <1>7
<1>11. Counted(op')
  BY <1>1, <1>2, <1>4, <1>5, <1>7 DEF Counted
<1>12. kind = "read" => ReadPlaced(op')
  BY <1>1, <1>2, <1>5, <1>7, <1>10 DEF ReadPlaced
<1>13. kind = "write" => WritePlaced(op')
  BY <1>7 DEF WritePlaced
<1> QED
  BY <1>1, <1>7, <1>8, <1>9, <1>10, <1>11, <1>12, <1>13 DEF Placed

\* The state of a debug port no transfer is using.
Unused(kind, m) ==
    [kind |-> kind, pc |-> "idle", base |-> 0, len |-> 0, left |-> 0, at |-> 0,
     page |-> 0, size |-> 4, got |-> <<>>, before |-> m,
     checked |-> FALSE, clean |-> TRUE, err |-> FALSE]

LEMMA IdlePlaced ==
    ASSUME NEW m \in [Addr -> Byte], NEW kind \in {"none", "regs"}
    PROVE  /\ Placed(Unused(kind, m))
           /\ Unused(kind, m).kind = kind
           /\ Unused(kind, m).before = m
<1>1. PICK o : o = Unused(kind, m)
  OBVIOUS
<1>2. o \in OpSet /\ o.kind = kind /\ o.pc = "idle" /\ o.got = <<>> /\ o.len = 0 /\ o.before = m
  BY <1>1 DEF Unused, OpSet, Kinds, Places
<1>3. Len(o.got) = 0
  BY <1>2
<1>4. Placed(o)
  BY <1>2, <1>3 DEF Placed
<1> QED
  BY <1>1, <1>2, <1>4

LEMMA IdleUnused ==
    /\ RegsAccess => op' = Unused("regs", mem)
    /\ Rescan => op' = Unused("none", mem)
    /\ Init => op = Unused("none", mem)
BY DEF RegsAccess, Rescan, Init, Idle, Unused

\* The end of a transfer changes nothing but its place and the error it reports.
LEMMA EndBecomes ==
    ASSUME Shape, End
    PROVE  /\ Becomes(AtPlace("done")) \/ Becomes(AtPlace("raised"))
           /\ op'.clean = op.clean
           /\ op.pc \in {"end", "flushed"}
           /\ fault' \in {0, fault} /\ hits' \in 0 .. MaxHits
           /\ UNCHANGED <<transport, select, csw, tar, posted, mem, ops>>
           /\ sticky' \in BOOLEAN
<1>1. op \in OpSet /\ sticky \in BOOLEAN /\ hits \in 0 .. MaxHits
  BY DEF Shape, Placed, TypeOK
<1>2. /\ op.pc \in {"end", "flushed"}
      /\ UNCHANGED <<transport, select, csw, tar, posted, mem, ops>>
  BY DEF End
<1>3. ASSUME NEW p \in {"done", "raised"}, NEW e \in BOOLEAN,
             op' = [op EXCEPT !.pc = p, !.err = e]
      PROVE  Becomes(AtPlace(p)) /\ op'.clean = op.clean
  BY <1>1, <1>3 DEF Becomes, AtPlace, OpSet, Places
<1>4. \E p \in {"done", "raised"}, e \in BOOLEAN : op' = [op EXCEPT !.pc = p, !.err = e]
  <2>0. \A p : [op EXCEPT !.pc = p] = [op EXCEPT !.pc = p, !.err = op.err]
    BY <1>1 DEF OpSet
  <2>1. op.err \in BOOLEAN
    BY <1>1 DEF OpSet
  <2>2. CASE ~op.checked
    BY <2>0, <2>1, <2>2, Zenon DEF End
  <2>3. CASE op.checked
    <3>1. CheckError
      BY <2>3 DEF End
    <3>2. CASE \E e \in IF transport = "jtag" THEN {FALSE, sticky} ELSE {sticky} :
                  op' = [op EXCEPT !.pc = "done", !.err = e]
      BY <1>1, <3>2
    <3>3. CASE op' = [op EXCEPT !.pc = "done"]
      BY <2>0, <2>1, <3>3, Zenon
    <3>4. CASE op' = [op EXCEPT !.pc = "raised"]
      BY <2>0, <2>1, <3>4, Zenon
    <3> QED
      BY <3>1, <3>2, <3>3, <3>4, Zenon DEF CheckError
  <2> QED
    BY <2>2, <2>3
<1>5. Injected("read") # {} => hits + 1 \in 0 .. MaxHits
  BY <1>1, BoundAssumption DEF Injected
<1>6. fault' \in {0, fault} /\ hits' \in 0 .. MaxHits /\ sticky' \in BOOLEAN
  <2>1. CASE ~op.checked
    BY <1>1, <2>1 DEF End
  <2>2. CASE op.checked
    <3>1. CheckError
      BY <2>2 DEF End
    <3> QED
      BY <1>1, <1>5, <3>1 DEF CheckError
  <2> QED
    BY <2>1, <2>2
<1> QED
  BY <1>2, <1>3, <1>4, <1>6

\* Every step keeps the shape.
LEMMA ShapeStep ==
    ASSUME Shape, [Next]_vars
    PROVE  Shape'
<1> USE DEF Shape
<1>0. ZeroWord \in Word
  BY ConstantWords
<1>1. ASSUME NEW kind \in {"read", "write"}, NEW a \in Addr, NEW n \in Lens,
             NEW checked \in BOOLEAN, Start(kind, a, n, checked)
      PROVE  Shape'
  <2>1. Placed(op')
    BY <1>1, StartPlaced
  <2>2. UNCHANGED <<transport, fault, apVars, hits>> /\ ops' = ops + 1 /\ ops < MaxOps
    BY <1>1 DEF Start
  <2>3. ops' \in 0 .. MaxOps
    BY <2>2, BoundAssumption DEF TypeOK
  <2> QED
    BY <2>1, <2>2, <2>3 DEF TypeOK, apVars, Placed, OpSet
<1>2. CASE SetupSelect
  <2>1. op.kind \in {"read", "write"}
    BY <1>2, InTransfer DEF SetupSelect
  <2> QED
    BY <1>0, <1>2, <2>1, SelectWire, SelectPlaced, WireShape
<1>3. ASSUME NEW from \in {"selected", "flushed"}, NEW again \in {"reselect", "rerdbuff"},
             Recover(from, again), from = "selected" <=> again = "reselect"
      PROVE  Shape'
  <2>1. op.pc = from /\ op' = AtPlace(again) /\ op.kind \in {"read", "write"}
    BY <1>3, InTransfer DEF Recover, AtPlace
  <2>2. op.kind = "read" => ReadPlaced(AtPlace(again))
    BY <1>3, <2>1, PlaceFields DEF Placed, ReadPlaced
  <2>3. op.kind = "write" => WritePlaced(AtPlace(again))
    BY <1>3, <2>1, PlaceFields DEF Placed, WritePlaced
  <2>4. Placed(op')
    BY <2>1, <2>2, <2>3, PlaceMoves DEF Places
  <2>5. UNCHANGED <<transport, select, csw, tar, posted, mem, hits, ops>> /\ fault' = 0 /\ sticky' = FALSE
    BY <1>3 DEF Recover
  <2> QED
    BY <2>4, <2>5 DEF TypeOK, Placed, OpSet, Acks
<1>4. CASE SetupRecover
  BY <1>3, <1>4 DEF SetupRecover
<1>5. CASE SetupCsw
  <2>1. op.kind \in {"read", "write"} /\ op.size \in {1, 2, 4}
    BY <1>5, InTransfer DEF SetupCsw, Placed, OpSet
  <2> QED
    BY <1>0, <1>5, <2>1, CswWire, CswPlaced, WireShape
<1>6. CASE SetupTar \/ Retar
  <2>1. op.kind \in {"read", "write"}
    BY <1>6, InTransfer DEF SetupTar, Retar
  <2>2. op.at \in Addr \union {NoAddr, MaxAddr}
    <3>1. op.at \in Nat /\ op.left \in Nat /\ op.size \in {1, 2, 4} /\ op.at + op.left * op.size <= MaxAddr
      BY <2>1 DEF Placed, OpSet, Counted
    <3>2. op.left * op.size \in Nat
      BY <3>1
    <3>3. op.at <= MaxAddr
      BY <3>1, <3>2, BoundAssumption
    <3> QED
      BY <3>1, <3>3, BoundAssumption DEF Addr
  <2> QED
    BY <1>0, <1>6, <2>1, <2>2, TarWire, TarPlaced, WireShape
<1>7. CASE Fetch
  BY <1>0, <1>7, FetchWire, FetchPlaced, WireShape
<1>8. CASE ReadDrw
  <2>1. op.kind = "read" /\ op.pc = "drw" /\ posted \in Word
    BY <1>8 DEF ReadDrw, TypeOK
  <2> QED
    BY <1>0, <1>8, <2>1, ReadWire, ReadOnePlaced, WireShape
<1>9. CASE WriteDrw
  <2>1. op.kind = "write" /\ op.pc = "drw" /\ op.left >= 1
    BY <1>9 DEF WriteDrw, Placed, WritePlaced
  <2> QED
    BY <1>9, <2>1, PackWord, WriteWire, WroteOnePlaced, WireShape
<1>10. CASE Rdbuff
  <2>1. op.pc \in {"rdbuff", "rerdbuff"} /\ op.kind \in {"read", "write"} /\ posted \in Word
    BY <1>10, InTransfer DEF Rdbuff, TypeOK
  <2>2. CASE op.kind = "read"
    <3>1. op.pc = "rdbuff"
      BY <2>1, <2>2 DEF Placed, ReadPlaced
    <3> QED
      BY <1>0, <1>10, <2>1, <2>2, <3>1, LastWire, ReadLastPlaced, WireShape
  <2>3. CASE op.kind # "read"
    BY <1>0, <1>10, <2>1, <2>3, FlushWire, FlushPlaced, WireShape
  <2> QED
    BY <2>2, <2>3
<1>11. CASE RdbuffRecover
  BY <1>3, <1>11 DEF RdbuffRecover
<1>12. CASE End
  <2>1. /\ Becomes(AtPlace("done")) \/ Becomes(AtPlace("raised"))
        /\ op.pc \in {"end", "flushed"}
        /\ fault' \in {0, fault} /\ hits' \in 0 .. MaxHits
        /\ UNCHANGED <<transport, select, csw, tar, posted, mem, ops>>
        /\ sticky' \in BOOLEAN
    BY <1>12, EndBecomes
  <2>2. op.kind \in {"read", "write"}
    BY <2>1, InTransfer
  <2>3. Placed(AtPlace("done"))
    <3>1. op.kind = "read" => ReadPlaced(AtPlace("done"))
      BY <2>1, PlaceFields DEF Placed, ReadPlaced
    <3>2. op.kind = "write" => WritePlaced(AtPlace("done"))
      BY <2>1, PlaceFields DEF Placed, WritePlaced
    <3> QED
      BY <2>2, <3>1, <3>2, PlaceMoves DEF Places
  <2>4. Placed(op')
    BY <2>1, <2>2, <2>3, RaisedPlaced, PlacedBecomes
  <2> QED
    BY <2>1, <2>4 DEF TypeOK, Placed, OpSet, Acks
<1>13. CASE RegsAccess
  <2>1. Placed(op')
    BY <1>13, IdlePlaced, IdleUnused DEF TypeOK
  <2>2. tar' \in Addr \union {NoAddr, MaxAddr} /\ csw' \in {1, 2, 4} /\ select' = "bank1"
    BY <1>13 DEF RegsAccess, TypeOK
  <2>3. UNCHANGED <<transport, fault, sticky, posted, mem, hits, ops>>
    BY <1>13 DEF RegsAccess
  <2> QED
    BY <2>1, <2>2, <2>3 DEF TypeOK, Placed, OpSet
<1>14. CASE Rescan
  <2>2. Placed(op')
    BY <1>14, IdlePlaced, IdleUnused DEF TypeOK
  <2>3. UNCHANGED <<transport, select, csw, tar, posted, mem, hits, ops>> /\ fault' = 0 /\ sticky' = FALSE
    BY <1>14 DEF Rescan
  <2> QED
    BY <2>2, <2>3 DEF TypeOK, Placed, OpSet, Acks
<1>15. CASE UNCHANGED vars
  BY <1>15 DEF vars, apVars, TypeOK, Placed, Counted, ReadPlaced, WritePlaced
<1> QED
  BY <1>1, <1>2, <1>4, <1>5, <1>6, <1>7, <1>8, <1>9, <1>10, <1>11, <1>12, <1>13, <1>14, <1>15 DEF Next

-----------------------------------------------------------------------------
(* Port: the access port is set up as the transfer thinks *)

\* The fields of a transfer one element further.
LEMMA ReadOneFields ==
    ASSUME Placed(op), NEW w
    PROVE  /\ ReadOne(w).kind = op.kind /\ ReadOne(w).clean = op.clean
           /\ ReadOne(w).base = op.base /\ ReadOne(w).len = op.len
           /\ ReadOne(w).size = op.size /\ ReadOne(w).at = op.at + op.size
           /\ ReadOne(w).got = op.got \o Unpack(op.at, op.size, w)
           /\ ReadOne(w).before = op.before
           /\ ReadOne(w).pc = IF Crosses(op.at + op.size, op.page) THEN "retar"
                              ELSE IF op.left = 2 THEN "rdbuff" ELSE "drw"
BY DEF Placed, OpSet, ReadOne

LEMMA WroteOneFields ==
    ASSUME Placed(op)
    PROVE  /\ WroteOne.kind = op.kind /\ WroteOne.clean = op.clean
           /\ WroteOne.base = op.base /\ WroteOne.len = op.len
           /\ WroteOne.size = op.size /\ WroteOne.at = op.at + op.size
           /\ WroteOne.got = op.got /\ WroteOne.before = op.before
           /\ WroteOne.pc = IF Crosses(op.at + op.size, op.page) THEN "retar"
                            ELSE IF op.left = 1 THEN "rdbuff" ELSE "drw"
BY DEF Placed, OpSet, WroteOne

LEMMA ReadLastFields ==
    ASSUME Placed(op), NEW w
    PROVE  /\ ReadLast(w).kind = op.kind /\ ReadLast(w).clean = op.clean
           /\ ReadLast(w).base = op.base /\ ReadLast(w).len = op.len
           /\ ReadLast(w).size = op.size /\ ReadLast(w).at = op.at
           /\ ReadLast(w).got = op.got \o Unpack(op.at, op.size, w)
           /\ ReadLast(w).before = op.before /\ ReadLast(w).pc = "end"
BY DEF Placed, OpSet, ReadLast

\* An access that was skipped leaves a latch that keeps the following ones from
\* the port; after one that raised there are none.
LEMMA FaultPort ==
    ASSUME NEW o, Skipped(o) \/ Raised, op \in OpSet
    PROVE  Port'
<1>1. CASE Skipped(o)
  BY <1>1 DEF Skipped, Port, Armed
<1>2. CASE Raised
  <2>1. op'.pc = "raised" /\ ~op'.clean
    BY <1>2 DEF Raised, Becomes, OpSet
  <2> QED
    BY <2>1 DEF Port, SetUp, Sized
<1> QED
  BY <1>1, <1>2

\* What a fault-free access says of the state before it.
LEMMA DoneBefore ==
    ASSUME Port, op.kind \in {"read", "write"}, UNCHANGED transport,
           NEW rnw, NEW reg, NEW n, NEW w, NEW o, Done(rnw, reg, n, w, o), o.clean = op.clean
    PROVE  /\ op'.clean => op.clean /\ fault = 0 /\ fault' = 0 /\ ~sticky'
           /\ Armed' => Armed
BY DEF Port, Done, Armed

\* Armed, an access reaches the access port.
LEMMA PortReached ==
    ASSUME Port, op.kind \in {"read", "write"}, op.pc \in SetUp, Armed,
           NEW rnw, NEW reg \in ApRegs, NEW n, NEW w, Carried(rnw, reg, n, w)
    PROVE  UNCHANGED select /\ IF rnw = "write" THEN ApWrite(reg, n, w) ELSE ApRead
BY DEF Port, Armed, Carried, ApRegs

LEMMA SelectPort ==
    ASSUME Shape, Port, SetupSelect
    PROVE  Port'
<1>1. op.kind \in {"read", "write"} /\ op \in OpSet
  BY InTransfer DEF SetupSelect, Shape, Placed
<1>2. /\ Skipped(AtPlace(AfterSelect)) \/ Raised
         \/ Done("write", "SELECT", 0, ZeroWord, AtPlace(AfterSelect))
      /\ UNCHANGED transport
  BY SelectWire, SelectPlaced, Outcomes DEF Shape, Placed
<1>3. CASE Done("write", "SELECT", 0, ZeroWord, AtPlace(AfterSelect))
  <2>1. op'.pc \in {"selected", "csw"} /\ op'.kind = op.kind
    BY <1>3, PlaceFields DEF Done, Becomes, AfterSelect, Shape
  <2>2. op'.clean => fault' = 0 /\ ~sticky'
    BY <1>1, <1>2, <1>3, PlaceFields, DoneBefore DEF Shape
  <2>3. select' = "bank0"
    BY <1>3 DEF Done, Carried, ApRegs
  <2> QED
    BY <2>1, <2>2, <2>3 DEF Port, SetUp, Sized
<1> QED
  BY <1>1, <1>2, <1>3, FaultPort

LEMMA CswPort ==
    ASSUME Shape, Port, SetupCsw
    PROVE  Port'
<1>1. op.kind \in {"read", "write"} /\ op \in OpSet /\ op.pc \in SetUp
  BY InTransfer DEF SetupCsw, Shape, Placed, SetUp
<1>2. /\ Skipped(AtPlace("tar")) \/ Raised
         \/ Done("write", "CSW", op.size, ZeroWord, AtPlace("tar"))
      /\ UNCHANGED transport
  BY CswWire, CswPlaced, Outcomes DEF Shape, Placed
<1>3. CASE Done("write", "CSW", op.size, ZeroWord, AtPlace("tar"))
  <2>1. op'.pc = "tar" /\ op'.kind = op.kind /\ op'.size = op.size
    BY <1>3, PlaceFields DEF Done, Becomes, Shape
  <2>2. (op'.clean => fault' = 0 /\ ~sticky') /\ (Armed' => Armed)
    BY <1>1, <1>2, <1>3, PlaceFields, DoneBefore DEF Shape
  <2>3. Armed' => select' = "bank0" /\ csw' = op.size
    <3> SUFFICES ASSUME Armed' PROVE select' = "bank0" /\ csw' = op.size
      OBVIOUS
    <3>1. Armed /\ select = "bank0"
      BY <1>1, <2>2 DEF Port
    <3>2. UNCHANGED select /\ ApWrite("CSW", op.size, ZeroWord)
      BY <1>1, <1>3, <3>1, PortReached DEF Done, ApRegs
    <3> QED
      BY <3>1, <3>2 DEF ApWrite
  <2> QED
    BY <2>1, <2>2, <2>3 DEF Port, SetUp, Sized
<1> QED
  BY <1>1, <1>2, <1>3, FaultPort

LEMMA TarPort ==
    ASSUME Shape, Port, SetupTar \/ Retar
    PROVE  Port'
<1>1. op.kind \in {"read", "write"} /\ op \in OpSet /\ op.pc \in {"tar", "retar"}
  BY InTransfer DEF SetupTar, Retar, Shape, Placed
<1>2. /\ Skipped(AtPlace(AfterTar)) \/ Raised
         \/ Done("write", "TAR", op.at, ZeroWord, AtPlace(AfterTar))
      /\ UNCHANGED transport
  BY TarWire, TarPlaced, Outcomes DEF Shape, Placed
<1>3. CASE Done("write", "TAR", op.at, ZeroWord, AtPlace(AfterTar))
  <2>1. /\ op'.pc = AfterTar /\ op'.kind = op.kind /\ op'.size = op.size /\ op'.at = op.at
        /\ op.kind = "read" => op'.pc = "fetch"
    BY <1>3, PlaceFields DEF Done, Becomes, Shape, AfterTar
  <2>2. (op'.clean => fault' = 0 /\ ~sticky') /\ (Armed' => Armed)
    BY <1>1, <1>2, <1>3, PlaceFields, DoneBefore DEF Shape
  <2>3. Armed' => select' = "bank0" /\ csw' = op.size /\ tar' = op.at
    <3> SUFFICES ASSUME Armed' PROVE select' = "bank0" /\ csw' = op.size /\ tar' = op.at
      OBVIOUS
    <3>1. Armed /\ select = "bank0" /\ csw = op.size
      BY <1>1, <2>2 DEF Port, SetUp, Sized
    <3>2. UNCHANGED select /\ ApWrite("TAR", op.at, ZeroWord)
      BY <1>1, <1>3, <3>1, PortReached DEF Done, ApRegs, SetUp
    <3> QED
      BY <3>1, <3>2 DEF ApWrite
  <2>4. op'.kind = "read" => op'.pc = "fetch"
    BY <2>1
  <2> QED
    BY <2>1, <2>2, <2>3, <2>4 DEF Port
<1> QED
  BY <1>1, <1>2, <1>3, FaultPort

LEMMA FetchPort ==
    ASSUME Shape, Port, Fetch
    PROVE  Port'
<1>1. op.kind = "read" /\ op \in OpSet /\ op.pc = "fetch"
  BY FetchPlaced DEF Fetch, Shape, Placed
<1>2. /\ Skipped(AtPlace(AfterFetch)) \/ Raised
         \/ Done("read", "DRW", 0, ZeroWord, AtPlace(AfterFetch))
      /\ UNCHANGED transport
  BY FetchWire, FetchPlaced, Outcomes DEF Shape, Placed
<1>3. CASE Done("read", "DRW", 0, ZeroWord, AtPlace(AfterFetch))
  <2>1. /\ op'.pc \in {"rdbuff", "drw"} /\ op'.kind = "read" /\ op'.size = op.size /\ op'.at = op.at
    BY <1>1, <1>3, PlaceFields DEF Done, Becomes, Shape, AfterFetch
  <2>2. (op'.clean => op.clean /\ fault' = 0 /\ ~sticky') /\ (Armed' => Armed)
    BY <1>1, <1>2, <1>3, PlaceFields, DoneBefore DEF Shape
  <2>3. Armed => /\ select = "bank0" /\ csw = op.size
                 /\ UNCHANGED select /\ ApRead
    BY <1>1, <1>3, PortReached DEF Done, ApRegs, Port, SetUp, Sized
  <2>4. Armed' => select' = "bank0" /\ csw' = op.size
    BY <2>2, <2>3 DEF ApRead
  <2>5. op'.clean => posted' = OnLanes(op.at, op.size, mem') /\ tar' = tar_autoinc(op.at, op.size)
    <3> SUFFICES ASSUME op'.clean
                 PROVE  posted' = OnLanes(op.at, op.size, mem') /\ tar' = tar_autoinc(op.at, op.size)
      OBVIOUS
    <3>1. Armed /\ op.clean /\ ~sticky'
      BY <1>1, <2>2 DEF Armed, Port
    <3>2. tar = op.at
      BY <1>1, <3>1 DEF Port
    <3>3. ~BusError(tar)
      BY <2>3, <3>1, Zenon DEF ApRead
    <3> QED
      BY <2>3, <3>1, <3>2, <3>3 DEF ApRead
  <2> QED
    BY <2>1, <2>2, <2>4, <2>5 DEF Port
<1> QED
  BY <1>1, <1>2, <1>3, FaultPort

LEMMA ReadPort ==
    ASSUME Shape, Port, ReadDrw
    PROVE  Port'
<1>1. op.kind = "read" /\ op \in OpSet /\ op.pc = "drw" /\ posted \in Word
  BY DEF ReadDrw, Shape, Placed, TypeOK
<1>2. /\ Skipped(ReadOne(ZeroWord)) \/ Raised
         \/ Done("read", "DRW", 0, ZeroWord, ReadOne(posted))
      /\ UNCHANGED transport
  BY <1>1, ConstantWords, ReadWire, ReadOnePlaced, Outcomes DEF Shape, Placed
<1>3. CASE Done("read", "DRW", 0, ZeroWord, ReadOne(posted))
  <2>1. /\ op'.kind = "read" /\ op'.size = op.size /\ op'.at = op.at + op.size
        /\ op'.pc \in {"retar", "rdbuff", "drw"}
        /\ op'.pc # "retar" => ~Crosses(op.at + op.size, op.page)
    BY <1>1, <1>3, ReadOneFields DEF Done, Becomes, Shape
  <2>2. (op'.clean => op.clean /\ fault' = 0 /\ ~sticky') /\ (Armed' => Armed)
    BY <1>1, <1>2, <1>3, ReadOneFields, DoneBefore DEF Shape
  <2>3. Armed => /\ select = "bank0" /\ csw = op.size
                 /\ UNCHANGED select /\ ApRead
    BY <1>1, <1>3, PortReached DEF Done, ApRegs, Port, SetUp, Sized
  <2>4. Armed' => select' = "bank0" /\ csw' = op.size
    BY <2>2, <2>3 DEF ApRead
  <2>5. op'.clean /\ op'.pc # "retar" => /\ posted' = OnLanes(op.at + op.size, op.size, mem')
                                         /\ tar' = tar_autoinc(op.at + op.size, op.size)
    <3> SUFFICES ASSUME op'.clean, op'.pc # "retar"
                 PROVE  /\ posted' = OnLanes(op.at + op.size, op.size, mem')
                        /\ tar' = tar_autoinc(op.at + op.size, op.size)
      OBVIOUS
    <3>1. Armed /\ op.clean /\ ~sticky'
      BY <1>1, <2>2 DEF Armed, Port
    <3>2. (op.at + op.size) \div Page = op.at \div Page
      BY <1>1, <2>1 DEF Crosses, Shape, Placed, Counted
    <3>3. tar = op.at + op.size
      BY <1>1, <3>1, <3>2, AutoInc DEF Port, OpSet
    <3>4. ~BusError(tar)
      BY <2>3, <3>1, Zenon DEF ApRead
    <3> QED
      BY <2>3, <3>1, <3>3, <3>4 DEF ApRead
  <2> QED
    BY <2>1, <2>2, <2>4, <2>5 DEF Port
<1> QED
  BY <1>1, <1>2, <1>3, FaultPort

LEMMA WritePort ==
    ASSUME Shape, Port, WriteDrw
    PROVE  Port'
<1>1. op.kind = "write" /\ op \in OpSet /\ op.pc = "drw"
  BY DEF WriteDrw, Shape, Placed
<1> DEFINE word == Pack(op.at, op.size, op.at - op.base)
<1>2. /\ Skipped(WroteOne) \/ Raised \/ Done("write", "DRW", 0, word, WroteOne)
      /\ UNCHANGED transport
  BY <1>1, WriteWire, WroteOnePlaced, Outcomes DEF Shape, Placed
<1> HIDE DEF word
<1>3. CASE Done("write", "DRW", 0, word, WroteOne)
  <2>1. /\ op'.kind = "write" /\ op'.size = op.size /\ op'.at = op.at + op.size
        /\ op'.pc \in {"retar", "rdbuff", "drw"}
        /\ op'.pc # "retar" => ~Crosses(op.at + op.size, op.page)
    BY <1>1, <1>3, WroteOneFields DEF Done, Becomes, Shape
  <2>2. (op'.clean => op.clean /\ fault' = 0 /\ ~sticky') /\ (Armed' => Armed)
    BY <1>1, <1>2, <1>3, WroteOneFields, DoneBefore DEF Shape
  <2>3. Armed => /\ select = "bank0" /\ csw = op.size
                 /\ UNCHANGED select /\ ApWrite("DRW", 0, word)
    BY <1>1, <1>3, PortReached DEF Done, ApRegs, Port, SetUp, Sized
  <2>4. Armed => /\ csw' = csw
                 /\ sticky' = BusError(tar)
                 /\ tar' = IF BusError(tar) THEN tar ELSE tar_autoinc(tar, csw)
    BY <2>3 DEF ApWrite
  <2>5. Armed' /\ op'.pc # "retar" => tar' = op.at + op.size \/ (BusError(tar)' /\ ~op'.clean)
    <3> SUFFICES ASSUME Armed', op'.pc # "retar"
                 PROVE  tar' = op.at + op.size \/ (BusError(tar)' /\ ~op'.clean)
      OBVIOUS
    <3>1. CASE BusError(tar)
      <4>1. tar' = tar /\ csw' = csw /\ sticky'
        BY <2>2, <2>4, <3>1
      <4>2. BusError(tar)'
        BY <3>1, <4>1, Zenon DEF BusError
      <4> QED
        BY <2>2, <4>1, <4>2
    <3>2. CASE ~BusError(tar)
      <4>1. tar = op.at
        BY <1>1, <2>2, <3>2 DEF Port
      <4>2. (op.at + op.size) \div Page = op.at \div Page
        BY <1>1, <2>1 DEF Crosses, Shape, Placed, Counted
      <4> QED
        BY <1>1, <2>2, <2>3, <2>4, <3>2, <4>1, <4>2, AutoInc DEF OpSet
    <3> QED
      BY <3>1, <3>2
  <2> QED
    BY <2>1, <2>2, <2>3, <2>4, <2>5 DEF Port
<1> QED
  BY <1>1, <1>2, <1>3, FaultPort

LEMMA RdbuffPort ==
    ASSUME Shape, Port, Rdbuff
    PROVE  Port'
<1>1. op.kind \in {"read", "write"} /\ op \in OpSet /\ op.pc \in {"rdbuff", "rerdbuff"} /\ posted \in Word
  BY InTransfer DEF Rdbuff, Shape, Placed, TypeOK
<1>2. CASE op.kind = "read"
  <2>1. op.pc = "rdbuff"
    BY <1>1, <1>2 DEF Shape, Placed, ReadPlaced
  <2>2. /\ Skipped(ReadLast(ZeroWord)) \/ Raised
           \/ Done("read", "RDBUFF", 0, ZeroWord, ReadLast(posted))
        /\ UNCHANGED transport
    BY <1>1, <1>2, <2>1, ConstantWords, LastWire, ReadLastPlaced, Outcomes DEF Shape, Placed
  <2>3. CASE Done("read", "RDBUFF", 0, ZeroWord, ReadLast(posted))
    <3>1. op'.pc = "end" /\ (op'.clean => fault' = 0)
      BY <1>1, <2>2, <2>3, ReadLastFields, DoneBefore DEF Shape, Done, Becomes
    <3> QED
      BY <3>1 DEF Port, SetUp, Sized
  <2> QED
    BY <1>1, <2>2, <2>3, FaultPort
<1>3. CASE op.kind # "read"
  <2>1. /\ Skipped(AtPlace(AfterFlush)) \/ Raised
           \/ Done("read", "RDBUFF", 0, ZeroWord, AtPlace(AfterFlush))
        /\ UNCHANGED transport
    BY <1>3, FlushWire, FlushPlaced, Outcomes DEF Shape, Placed
  <2>2. CASE Done("read", "RDBUFF", 0, ZeroWord, AtPlace(AfterFlush))
    <3>1. op'.pc \in {"flushed", "end"} /\ (op'.clean => fault' = 0)
      BY <1>1, <2>1, <2>2, PlaceFields, DoneBefore DEF Shape, Done, Becomes, AfterFlush
    <3> QED
      BY <3>1 DEF Port, SetUp, Sized
  <2> QED
    BY <1>1, <2>1, <2>2, FaultPort
<1> QED
  BY <1>2, <1>3

\* Every step keeps the port's agreement with the transfer.
LEMMA PortStep ==
    ASSUME Shape, Port, [Next]_vars
    PROVE  Port'
<1>1. ASSUME NEW kind \in {"read", "write"}, NEW a \in Addr, NEW n \in Lens,
             NEW checked \in BOOLEAN, Start(kind, a, n, checked)
      PROVE  Port'
  <2>1. op'.pc \in {"select", "end"} /\ (op'.clean => fault = 0) /\ fault' = fault
    BY <1>1, StartPlaced DEF Start
  <2> QED
    BY <2>1 DEF Port, SetUp, Sized
<1>2. ASSUME NEW from \in {"selected", "flushed"}, NEW again \in {"reselect", "rerdbuff"},
             Recover(from, again)
      PROVE  Port'
  <2>1. op' = AtPlace(again) /\ op.kind \in {"read", "write"} /\ fault' = 0
    BY <1>2, InTransfer DEF Recover, AtPlace, Shape
  <2>2. op'.pc = again
    BY <2>1, PlaceFields DEF Shape
  <2> QED
    BY <2>1, <2>2 DEF Port, SetUp, Sized
<1>3. CASE End
  <2>1. /\ Becomes(AtPlace("done")) \/ Becomes(AtPlace("raised"))
        /\ op'.clean = op.clean /\ op.pc \in {"end", "flushed"} /\ fault' \in {0, fault}
    BY <1>3, EndBecomes
  <2>2. op.kind \in {"read", "write"}
    BY <2>1, InTransfer DEF Shape
  <2>3. op'.pc \in {"done", "raised"}
    BY <2>1, PlaceFields DEF Shape, Becomes
  <2> QED
    BY <2>1, <2>2, <2>3 DEF Port, SetUp, Sized
<1>4. CASE RegsAccess \/ Rescan
  <2>1. op'.kind \in {"none", "regs"}
    BY <1>4, IdleUnused, IdlePlaced DEF Shape, TypeOK
  <2> QED
    BY <2>1 DEF Port
<1>5. CASE UNCHANGED vars
  BY <1>5 DEF vars, apVars, Port, Armed, BusError, OnLanes
<1> QED
  BY <1>1, <1>2, <1>3, <1>4, <1>5, SelectPort, CswPort, TarPort, FetchPort, ReadPort, WritePort,
     RdbuffPort DEF Next, SetupRecover, RdbuffRecover

-----------------------------------------------------------------------------
(* Moved: what a transfer did to the caller's buffer and to the memory *)

\* Steps that move nothing.
LEMMA NothingMoved ==
    ASSUME Moved, UNCHANGED <<mem, transport>>,
           op'.kind = op.kind, op'.base = op.base, op'.len = op.len, op'.before = op.before,
           op'.clean => op.clean /\ op'.got = op.got /\ op'.at = op.at
    PROVE  Moved'
<1>1. ReadSoFar'
  BY DEF Moved, ReadSoFar
<1>2. WrittenSoFar'
  BY DEF Moved, WrittenSoFar
<1>3. WriteContained'
  BY DEF Moved, WriteContained, Span
<1> QED
  BY <1>1, <1>2, <1>3 DEF Moved

\* A skipped access, or one that raised, moves nothing.
LEMMA FaultMoved ==
    ASSUME Moved, UNCHANGED transport, op \in OpSet, NEW o,
           o.kind = op.kind, o.base = op.base, o.len = op.len, o.before = op.before,
           Skipped(o) \/ Raised
    PROVE  Moved'
<1>1. CASE Skipped(o)
  BY <1>1, NothingMoved DEF Skipped, Becomes, apVars
<1>2. CASE Raised
  <2>1. /\ op'.kind = op.kind /\ op'.base = op.base /\ op'.len = op.len /\ op'.before = op.before
        /\ ~op'.clean /\ mem' = mem
    BY <1>2 DEF Raised, Becomes, OpSet, apVars
  <2> QED
    BY <2>1, NothingMoved
<1> QED
  BY <1>1, <1>2

\* An access that only moves the transfer to another place.
LEMMA PlaceMoved ==
    ASSUME Shape, Moved, UNCHANGED transport, NEW p, NEW rnw \in {"read", "write"},
           NEW reg \in {"SELECT", "CSW", "TAR", "DRW", "RDBUFF"}, reg # "DRW" \/ rnw = "read",
           NEW n, NEW w,
           Skipped(AtPlace(p)) \/ Raised \/ Done(rnw, reg, n, w, AtPlace(p))
    PROVE  Moved'
<1>1. op \in OpSet /\ Placed(op)
  BY DEF Shape, Placed
<1>2. CASE Done(rnw, reg, n, w, AtPlace(p))
  <2>1. /\ op'.kind = op.kind /\ op'.base = op.base /\ op'.len = op.len /\ op'.before = op.before
        /\ op'.got = op.got /\ op'.at = op.at /\ (op'.clean => op.clean)
    BY <1>1, <1>2, PlaceFields DEF Done, Becomes
  <2>2. mem' = mem
    BY <1>2, MemKept DEF Done
  <2> QED
    BY <2>1, <2>2, NothingMoved
<1> QED
  BY <1>1, <1>2, PlaceFields, FaultMoved

\* The first l bytes of g are those of the memory m from base on.
Copies(g, l, m, base) == \A i \in 1 .. l : g[i] = m[base + i - 1]

\* The buffer h is g with the lanes of the element at address at behind it.
Extends(h, g, l, at, size, m) ==
    \A i \in 1 .. l + size :
       h[i] = IF i <= l THEN g[i] ELSE OnLanes(at, size, m)[(at % 4) + (i - l) - 1]

\* Appending the lanes of the next element to the bytes before it.
LEMMA ElementAppended ==
    ASSUME NEW at \in Nat, NEW base \in Nat, NEW size \in {1, 2, 4}, at % size = 0,
           NEW m, NEW g, NEW h, NEW l \in Nat, base + l = at,
           Copies(g, l, m, base), Extends(h, g, l, at, size, m)
    PROVE  Copies(h, l + size, m, base)
<1> SUFFICES \A i \in 1 .. l + size : h[i] = m[base + i - 1]
  BY DEF Copies
<1> USE DEF Copies, Extends
<1> TAKE i \in 1 .. l + size
<1>1. CASE i <= l
  BY <1>1
<1>2. CASE ~(i <= l)
  <2>1. PICK k \in 1 .. size : k = i - l
    BY <1>2
  <2>2. h[i] = OnLanes(at, size, m)[(at % 4) + k - 1]
    BY <1>2, <2>1
  <2>3. OnLanes(at, size, m)[(at % 4) + k - 1] = m[at + k - 1]
    <3>1. (at % 4) + k - 1 \in Lanes /\ at % 4 \in Nat
      BY LaneRoom DEF Lanes
    <3>2. at + (((at % 4) + k - 1) - (at % 4)) = at + k - 1
      BY <3>1
    <3> QED
      BY <3>1, <3>2 DEF OnLanes
  <2>4. at + k - 1 = base + i - 1
    BY <2>1
  <2> QED
    BY <2>2, <2>3, <2>4
<1> QED
  BY <1>1, <1>2

\* The word that comes back is the element's: its bytes are those of the memory.
LEMMA WordMoved ==
    ASSUME Shape, Port, Moved, UNCHANGED <<mem, transport>>,
           op.kind = "read", op.pc \in {"drw", "rdbuff"},
           op'.kind = op.kind, op'.base = op.base, op'.len = op.len, op'.before = op.before,
           op'.got = op.got \o Unpack(op.at, op.size, posted), op'.clean => op.clean
    PROVE  Moved'
<1>1. /\ op.at \in Nat /\ op.size \in {1, 2, 4} /\ op.at % op.size = 0 /\ posted \in Word
      /\ op.base \in Nat /\ op.base <= op.at /\ Len(op.got) = op.at - op.base /\ Placed(op)
  BY DEF Shape, Placed, Counted, ReadPlaced, OpSet, TypeOK
<1>2. ReadSoFar'
  <2> SUFFICES ASSUME op'.clean
               PROVE  \A i \in 1 .. Len(op'.got) : op'.got[i] = mem[op.base + i - 1]
    BY DEF ReadSoFar
  <2>1. op.clean
    OBVIOUS
  <2>2. posted = OnLanes(op.at, op.size, mem)
    BY <2>1 DEF Port
  <2>3. PICK l \in Nat : l = Len(op.got) /\ op.base + l = op.at
    BY <1>1
  <2>4. /\ Len(op.got \o Unpack(op.at, op.size, posted)) = Len(op.got) + op.size
        /\ \A i \in 1 .. Len(op.got) + op.size :
              (op.got \o Unpack(op.at, op.size, posted))[i] =
                 IF i <= Len(op.got) THEN op.got[i]
                 ELSE posted[(op.at % 4) + (i - Len(op.got)) - 1]
    BY <1>1, GotNext, Zenon
  <2>5. PICK h : h = op.got \o Unpack(op.at, op.size, posted)
    OBVIOUS
  <2>6. PICK g : g = op.got
    OBVIOUS
  <2>7. \A i \in 1 .. l : g[i] = mem[op.base + i - 1]
    BY <2>1, <2>3, <2>6 DEF Moved, ReadSoFar
  <2>8. Len(h) = l + op.size
    BY <2>3, <2>4, <2>5, Zenon
  <2>9. \A i \in 1 .. l + op.size :
           h[i] = IF i <= l THEN g[i]
                  ELSE OnLanes(op.at, op.size, mem)[(op.at % 4) + (i - l) - 1]
    BY <2>2, <2>3, <2>4, <2>5, <2>6, Zenon
  <2>10. \A i \in 1 .. l + op.size : h[i] = mem[op.base + i - 1]
    <3>1. PICK at \in Nat : at = op.at
      BY <1>1
    <3>2. PICK base \in Nat : base = op.base
      BY <1>1
    <3>3. PICK size \in {1, 2, 4} : size = op.size
      BY <1>1
    <3>4. at % size = 0 /\ base + l = at /\ Copies(g, l, mem, base) /\ Extends(h, g, l, at, size, mem)
      BY <1>1, <2>3, <2>7, <2>9, <3>1, <3>2, <3>3, Zenon DEF Copies, Extends
    <3>5. Copies(h, l + size, mem, base)
      BY <3>4, ElementAppended
    <3> QED
      BY <3>2, <3>3, <3>5, Zenon DEF Copies
  <2> QED
    BY <2>5, <2>8, <2>10, Zenon
<1>3. WrittenSoFar'
  BY DEF WrittenSoFar
<1>4. WriteContained'
  BY DEF Moved, WriteContained, Span
<1> QED
  BY <1>2, <1>3, <1>4 DEF Moved

LEMMA ReadMoved ==
    ASSUME Shape, Port, Moved, ReadDrw
    PROVE  Moved'
<1>1. op.kind = "read" /\ op \in OpSet /\ op.pc = "drw" /\ posted \in Word
  BY DEF ReadDrw, Shape, Placed, TypeOK
<1>2. /\ Skipped(ReadOne(ZeroWord)) \/ Raised
         \/ Done("read", "DRW", 0, ZeroWord, ReadOne(posted))
      /\ UNCHANGED transport
  BY <1>1, ConstantWords, ReadWire, ReadOnePlaced, Outcomes DEF Shape, Placed
<1>3. CASE Done("read", "DRW", 0, ZeroWord, ReadOne(posted))
  <2>1. mem' = mem
    BY <1>3, MemKept DEF Done
  <2> QED
    BY <1>1, <1>2, <1>3, <2>1, ReadOneFields, WordMoved DEF Done, Becomes, Shape
<1> QED
  BY <1>1, <1>2, <1>3, ReadOneFields, FaultMoved DEF Shape

LEMMA RdbuffMoved ==
    ASSUME Shape, Port, Moved, Rdbuff
    PROVE  Moved'
<1>1. op.kind \in {"read", "write"} /\ op \in OpSet /\ op.pc \in {"rdbuff", "rerdbuff"} /\ posted \in Word
  BY InTransfer DEF Rdbuff, Shape, Placed, TypeOK
<1>2. CASE op.kind = "read"
  <2>1. op.pc = "rdbuff"
    BY <1>1, <1>2 DEF Shape, Placed, ReadPlaced
  <2>2. /\ Skipped(ReadLast(ZeroWord)) \/ Raised
           \/ Done("read", "RDBUFF", 0, ZeroWord, ReadLast(posted))
        /\ UNCHANGED transport
    BY <1>1, <1>2, <2>1, ConstantWords, LastWire, ReadLastPlaced, Outcomes DEF Shape, Placed
  <2>3. CASE Done("read", "RDBUFF", 0, ZeroWord, ReadLast(posted))
    <3>1. mem' = mem
      BY <2>3, MemKept DEF Done
    <3> QED
      BY <1>2, <2>1, <2>2, <2>3, <3>1, ReadLastFields, WordMoved DEF Done, Becomes, Shape
  <2> QED
    BY <1>1, <2>2, <2>3, ReadLastFields, FaultMoved DEF Shape
<1>3. CASE op.kind # "read"
  <2>1. /\ Skipped(AtPlace(AfterFlush)) \/ Raised
           \/ Done("read", "RDBUFF", 0, ZeroWord, AtPlace(AfterFlush))
        /\ UNCHANGED transport
    BY <1>3, FlushWire, FlushPlaced, Outcomes DEF Shape, Placed
  <2> QED
    BY <2>1, PlaceMoved
<1> QED
  BY <1>2, <1>3

\* A word that reaches the memory reaches the element's addresses, or none when
\* the bus refuses it.
LEMMA WriteReaches ==
    ASSUME Shape, Port, op.kind = "write", op.pc = "drw", Armed, NEW w,
           Carried("write", "DRW", 0, w)
    PROVE  /\ sticky' => mem' = mem
           /\ ~sticky' => mem' = [a \in Addr |-> IF a >= op.at /\ a < op.at + op.size
                                                 THEN w[a % 4] ELSE mem[a]]
<1>1. select = "bank0" /\ csw = op.size /\ (tar = op.at \/ BusError(tar))
  BY DEF Port, SetUp, Sized
<1>2. ApWrite("DRW", 0, w)
  BY PortReached DEF SetUp, ApRegs
<1>3. sticky' = BusError(tar)
  BY <1>1, <1>2 DEF ApWrite
<1>4. mem' = IF BusError(tar) THEN mem
             ELSE [a \in Addr |-> IF a >= tar /\ a < tar + csw THEN w[a % 4] ELSE mem[a]]
  BY <1>1, <1>2 DEF ApWrite
<1>5. sticky' => mem' = mem
  BY <1>3, <1>4
<1>6. ~sticky' => mem' = [a \in Addr |-> IF a >= tar /\ a < tar + csw THEN w[a % 4] ELSE mem[a]]
  BY <1>3, <1>4
<1>7. ~sticky' => tar = op.at
  BY <1>1, <1>3
<1> QED
  BY <1>1, <1>5, <1>6, <1>7, Zenon

\* One more element written, of bytes packed from the caller's buffer.
LEMMA WriteMoved ==
    ASSUME Shape, Port, Moved, WriteDrw
    PROVE  Moved'
<1>1. op.kind = "write" /\ op \in OpSet /\ op.pc = "drw" /\ Placed(op) /\ op.left >= 1
  BY DEF WriteDrw, Shape, Placed, WritePlaced
<1>2. /\ op.at \in Nat /\ op.size \in {1, 2, 4} /\ op.at % op.size = 0
      /\ op.base \in Nat /\ op.len \in Nat /\ op.base <= op.at
      /\ mem \in [Addr -> Byte]
  BY <1>1 DEF Placed, OpSet, Counted, Shape, TypeOK
<1>3. PICK word : word = Pack(op.at, op.size, op.at - op.base)
  OBVIOUS
<1>4. /\ Skipped(WroteOne) \/ Raised \/ Done("write", "DRW", 0, word, WroteOne)
      /\ UNCHANGED transport
  BY <1>1, <1>3, WriteWire, WroteOnePlaced, Outcomes DEF Shape, Placed
<1>5. CASE Done("write", "DRW", 0, word, WroteOne)
  <2>1. /\ op'.kind = "write" /\ op'.base = op.base /\ op'.len = op.len
        /\ op'.before = op.before /\ op'.at = op.at + op.size
    BY <1>1, <1>5, WroteOneFields DEF Done, Becomes
  <2>2. op'.clean => op.clean /\ fault = 0 /\ ~sticky'
    BY <1>1, <1>4, <1>5, WroteOneFields, DoneBefore
  <2>3. Carried("write", "DRW", 0, word) /\ ~Latched("DRW")
    BY <1>5 DEF Done
  <2>4. Armed => /\ sticky' => mem' = mem
                 /\ ~sticky' => mem' = [a \in Addr |-> IF a >= op.at /\ a < op.at + op.size
                                                       THEN word[a % 4] ELSE mem[a]]
    BY <1>1, <2>3, WriteReaches
  <2>5. ReadSoFar'
    BY <2>1 DEF ReadSoFar
  <2>6. WrittenSoFar'
    <3> SUFFICES ASSUME op'.clean, NEW a \in Addr
                 PROVE  mem'[a] = IF a >= op.base /\ a < op.at + op.size THEN Payload(a - op.base)
                                                                         ELSE op.before[a]
      BY <2>1 DEF WrittenSoFar
    <3>1. op.clean /\ Armed /\ ~sticky' /\ a \in Nat
      BY <2>2 DEF Armed, Addr
    <3>2. mem'[a] = IF a >= op.at /\ a < op.at + op.size THEN word[a % 4] ELSE mem[a]
      BY <2>4, <3>1
    <3>3. mem[a] = IF a >= op.base /\ a < op.at THEN Payload(a - op.base) ELSE op.before[a]
      BY <1>1, <3>1 DEF Moved, WrittenSoFar
    <3>4. CASE a >= op.at /\ a < op.at + op.size
      <4>1. a \in op.at .. op.at + op.size - 1 /\ op.at - op.base \in Nat
        BY <1>2, <3>1, <3>4
      <4>2. word[a % 4] = Payload((op.at - op.base) + (a - op.at))
        <5>1. PICK at \in Nat : at = op.at
          BY <1>2
        <5>2. PICK size \in {1, 2, 4} : size = op.size
          BY <1>2
        <5>3. PICK from \in Nat : from = op.at - op.base
          BY <4>1
        <5>4. Pack(at, size, from)[a % 4] = Payload(from + (a - at))
          <6>1. at % size = 0 /\ a \in at .. at + size - 1
            BY <1>2, <4>1, <5>1, <5>2
          <6> QED
            BY <6>1, PackLanes, Zenon
        <5> QED
          BY <1>3, <5>1, <5>2, <5>3, <5>4
      <4>3. (op.at - op.base) + (a - op.at) = a - op.base /\ a >= op.base
        BY <1>2, <3>1, <3>4
      <4> QED
        BY <3>2, <3>4, <4>2, <4>3
    <3>5. CASE ~(a >= op.at /\ a < op.at + op.size)
      <4>1. (a >= op.base /\ a < op.at + op.size) <=> (a >= op.base /\ a < op.at)
        BY <1>2, <3>1, <3>5
      <4> QED
        BY <3>2, <3>3, <3>5, <4>1
    <3> QED
      BY <3>4, <3>5
  <2>7. WriteContained'
    <3> SUFFICES ASSUME transport # "jtag", NEW a \in Addr, mem'[a] # op.before[a]
                 PROVE  a \in Span(op.base, op.len)
      BY <1>4, <2>1 DEF WriteContained, Span
    <3>1. Armed
      BY <2>3, TransportAssumption DEF Latched, ApRegs, Armed, Shape, TypeOK
    <3>2. CASE mem'[a] = mem[a]
      BY <3>2 DEF Moved, WriteContained
    <3>3. CASE mem'[a] # mem[a]
      <4>1. ~sticky'
        BY <2>4, <3>1, <3>3
      <4>2. a >= op.at /\ a < op.at + op.size
        BY <2>4, <3>1, <3>3, <4>1
      <4>3. op.at + op.size <= op.base + op.len
        BY <1>1, NextElement
      <4>4. a \in Nat
        BY DEF Addr
      <4> QED
        BY <1>2, <4>2, <4>3, <4>4 DEF Span
    <3> QED
      BY <3>2, <3>3
  <2> QED
    BY <2>5, <2>6, <2>7 DEF Moved
<1> QED
  BY <1>1, <1>4, <1>5, WroteOneFields, FaultMoved

\* A transfer that starts, and a port that is not used, have moved nothing.
LEMMA FreshMoved ==
    ASSUME UNCHANGED mem, op'.before = mem, op'.at = op'.base, op'.got = <<>>, op'.base \in Nat
    PROVE  Moved'
<1>1. Len(op'.got) = 0
  OBVIOUS
<1>2. ReadSoFar'
  BY <1>1 DEF ReadSoFar
<1>3. WrittenSoFar'
  BY DEF WrittenSoFar, Addr
<1>4. WriteContained'
  BY DEF WriteContained
<1> QED
  BY <1>2, <1>3, <1>4 DEF Moved

LEMMA MovedStep ==
    ASSUME Shape, Port, Moved, [Next]_vars
    PROVE  Moved'
<1>0. Placed(op) /\ op \in OpSet /\ mem \in [Addr -> Byte]
  BY DEF Shape, Placed, TypeOK
<1>1. ASSUME NEW kind \in {"read", "write"}, NEW a \in Addr, NEW n \in Lens,
             NEW checked \in BOOLEAN, Start(kind, a, n, checked)
      PROVE  Moved'
  <2>1. /\ op'.at = a /\ op'.base = a /\ op'.got = <<>> /\ op'.before = mem
        /\ UNCHANGED mem /\ a \in Nat
    BY <1>1, StartPlaced DEF Start, apVars, Addr
  <2> QED
    BY <2>1, FreshMoved
<1>2. CASE SetupSelect
  <2>1. /\ Skipped(AtPlace(AfterSelect)) \/ Raised
           \/ Done("write", "SELECT", 0, ZeroWord, AtPlace(AfterSelect))
        /\ UNCHANGED transport
    BY <1>0, <1>2, SelectWire, SelectPlaced, Outcomes DEF Shape, Placed
  <2> QED
    BY <2>1, PlaceMoved
<1>3. CASE SetupCsw
  <2>1. /\ Skipped(AtPlace("tar")) \/ Raised
           \/ Done("write", "CSW", op.size, ZeroWord, AtPlace("tar"))
        /\ UNCHANGED transport
    BY <1>0, <1>3, CswWire, CswPlaced, Outcomes DEF Shape, Placed
  <2> QED
    BY <2>1, PlaceMoved
<1>4. CASE SetupTar \/ Retar
  <2>1. /\ Skipped(AtPlace(AfterTar)) \/ Raised
           \/ Done("write", "TAR", op.at, ZeroWord, AtPlace(AfterTar))
        /\ UNCHANGED transport
    BY <1>0, <1>4, TarWire, TarPlaced, Outcomes DEF Shape, Placed
  <2> QED
    BY <2>1, PlaceMoved
<1>5. CASE Fetch
  <2>1. /\ Skipped(AtPlace(AfterFetch)) \/ Raised
           \/ Done("read", "DRW", 0, ZeroWord, AtPlace(AfterFetch))
        /\ UNCHANGED transport
    BY <1>0, <1>5, FetchWire, FetchPlaced, Outcomes DEF Shape, Placed
  <2> QED
    BY <2>1, PlaceMoved
<1>6. ASSUME NEW from, NEW again, Recover(from, again) PROVE Moved'
  <2>1. op' = AtPlace(again) /\ UNCHANGED <<mem, transport>>
    BY <1>6 DEF Recover, AtPlace
  <2> QED
    BY <1>0, <2>1, PlaceFields, NothingMoved
<1>7. CASE End
  <2>1. /\ Becomes(AtPlace("done")) \/ Becomes(AtPlace("raised"))
        /\ op'.clean = op.clean /\ UNCHANGED <<mem, transport>>
    BY <1>7, EndBecomes
  <2> QED
    BY <1>0, <2>1, PlaceFields, NothingMoved DEF Becomes
<1>8. CASE RegsAccess \/ Rescan
  <2>1. \E kind \in {"none", "regs"} : op' = Unused(kind, mem)
    BY <1>8, IdleUnused
  <2>2. /\ op'.at = op'.base /\ op'.base = 0 /\ op'.got = <<>> /\ op'.before = mem
    BY <2>1 DEF Unused
  <2>3. UNCHANGED mem
    BY <1>8 DEF RegsAccess, Rescan
  <2> QED
    BY <2>2, <2>3, FreshMoved
<1>9. CASE UNCHANGED vars
  BY <1>9, NothingMoved DEF vars, apVars
<1> QED
  BY <1>1, <1>2, <1>3, <1>4, <1>5, <1>6, <1>7, <1>8, <1>9, ReadMoved, WriteMoved, RdbuffMoved
     DEF Next, SetupRecover, RdbuffRecover

-----------------------------------------------------------------------------

LEMMA MemInit == Init => MemInv
<1> SUFFICES ASSUME Init PROVE MemInv
  OBVIOUS
<1>1. mem \in [Addr -> Byte]
  BY BoundAssumption DEF Init, Original, Addr, Byte
<1>2. op = Unused("none", mem) /\ Placed(op) /\ op.kind = "none" /\ op.before = mem
  BY <1>1, IdleUnused, IdlePlaced
<1>3. TypeOK
  <2>1. posted \in Word
    BY ConstantWords DEF Init
  <2>2. op.got \in Seq(Byte) /\ Len(op.got) <= op.len
    BY <1>2 DEF Placed, OpSet
  <2>3. /\ transport \in Transports /\ fault \in Acks /\ sticky \in BOOLEAN
        /\ select \in {"bank0", "bank1"} /\ csw \in {1, 2, 4}
        /\ tar \in Addr \union {NoAddr, MaxAddr}
    BY Zenon DEF Init, Acks
  <2>4. hits \in 0 .. MaxHits /\ ops \in 0 .. MaxOps
    BY BoundAssumption DEF Init
  <2> QED
    BY <1>1, <2>1, <2>2, <2>3, <2>4 DEF TypeOK
<1>4. Shape
  BY <1>2, <1>3 DEF Shape, Init
<1>5. Port /\ Moved
  BY <1>2 DEF Port, Moved, ReadSoFar, WrittenSoFar, WriteContained
<1> QED
  BY <1>4, <1>5 DEF MemInv

LEMMA MemStep == MemInv /\ [Next]_vars => MemInv'
BY ShapeStep, PortStep, MovedStep DEF MemInv

\* Registers, memory and transfers keep their types whatever faults the wire has
\* (adiv5.c, adiv5_swd.c, adiv5_jtag.c, emu_shim.c).
THEOREM PortTyped == Spec => []TypeOK
<1>1. MemInv => TypeOK
  BY DEF MemInv, Shape
<1> QED
  BY MemInit, MemStep, <1>1, PTL DEF Spec

\* Over SWD and the emulator no fault at any access makes a write reach memory it
\* was not asked to write, for every page size, memory and number of faults: the
\* latch of firmware_swdp_low_access keeps DRW back once SELECT, CSW or TAR was not
\* written, and a bus error leaves TAR where the bus refuses it again.
THEOREM WritesContained == Spec => []WriteContained
<1>1. MemInv => WriteContained
  BY DEF MemInv, Moved
<1> QED
  BY MemInit, MemStep, <1>1, PTL DEF Spec

\* A transfer that met no fault is exact, for every page size, alignment and length,
\* and whatever was left in SELECT, CSW and TAR before it
\* (advi5_mem_read_bytes, adiv5_mem_write_bytes).
THEOREM TransfersExact == Spec => []TransferExact
<1>1. MemInv => TransferExact
  <2> SUFFICES ASSUME MemInv, op.pc = "done", op.clean PROVE TransferExact
    BY DEF TransferExact
  <2>1. Placed(op) /\ op \in OpSet /\ mem \in [Addr -> Byte]
    BY DEF MemInv, Shape, Placed, TypeOK
  <2>2. op.kind = "read" => op.got = [i \in 1 .. op.len |-> mem[op.base + i - 1]]
    <3> SUFFICES ASSUME op.kind = "read"
                 PROVE  op.got = [i \in 1 .. op.len |-> mem[op.base + i - 1]]
      OBVIOUS
    <3>1. op.got \in Seq(Byte) /\ Len(op.got) = op.len
      BY <2>1 DEF Placed, ReadPlaced, OpSet
    <3>2. \A i \in 1 .. op.len : op.got[i] = mem[op.base + i - 1]
      BY <3>1 DEF MemInv, Moved, ReadSoFar
    <3> QED
      BY <3>1, <3>2
  <2>3. op.kind = "write" =>
           mem = [a \in Addr |-> IF a \in Span(op.base, op.len) THEN Payload(a - op.base)
                                 ELSE op.before[a]]
    <3> SUFFICES ASSUME op.kind = "write"
                 PROVE  mem = [a \in Addr |-> IF a \in Span(op.base, op.len) THEN Payload(a - op.base)
                                              ELSE op.before[a]]
      OBVIOUS
    <3>1. op.left = 0 /\ op.at = op.base + op.len
      BY <2>1 DEF Placed, WritePlaced, Counted, OpSet
    <3>2. \A a \in Addr : mem[a] = IF a >= op.base /\ a < op.at THEN Payload(a - op.base)
                                                                ELSE op.before[a]
      BY DEF MemInv, Moved, WrittenSoFar
    <3>3. \A a \in Addr : a \in Span(op.base, op.len) <=> a >= op.base /\ a < op.at
      BY <3>1 DEF Span
    <3> QED
      BY <2>1, <3>2, <3>3
  <2> QED
    BY <2>2, <2>3 DEF TransferExact
<1> QED
  BY MemInit, MemStep, <1>1, PTL DEF Spec
=============================================================================
