---------------------------- MODULE Loader_proofs ----------------------------
(***************************************************************************)
(* What is proved of the flash programming of the two clients, for every   *)
(* layout of regions, every size of block, buffer and write unit, every    *)
(* range and every image.                                                  *)
(*                                                                         *)
(* A load from GDB rests on three invariants that every step of            *)
(* TargetFlash keeps:                                                      *)
(*                                                                         *)
(*   TypeInv  types, and the region and the buffer a call is at;           *)
(*   SafeInv  the marks of every buffer lie in its window, a buffer with   *)
(*            data never meets a region being erased, and a complete has   *)
(*            left the regions before its cursor;                          *)
(*   DataInv  while nothing has failed, a cell holds what was asked for or *)
(*            is erased with the buffer holding it.                        *)
(*                                                                         *)
(* The first one holds for either client, as does IdleInv: flash mode      *)
(* lasts as long as a call or an operation.  A load on the device is only  *)
(* believed after its read-back, so that its invariant, in the last part,  *)
(* is about the read-back alone.                                           *)
(***************************************************************************)
EXTENDS Loader, WellFoundedInduction, TLAPS

-----------------------------------------------------------------------------
(* Alignment *)

\* Division with remainder.
LEMMA Quotient ==
    ASSUME NEW n \in Nat \ {0}, NEW a \in Nat, NEW k \in Nat, a % n = k
    PROVE  \E q \in Int : a = n * q + k
OBVIOUS

\* Rounding down to a multiple (the code's addr & ~(size - 1)).
LEMMA AlignedBelow ==
    ASSUME NEW n \in Nat \ {0}, NEW a \in Nat
    PROVE  /\ Aligned(a, n) \in Nat
           /\ Aligned(a, n) <= a
           /\ a < Aligned(a, n) + n
           /\ Aligned(a, n) % n = 0
<1>1. a % n \in 0 .. n - 1 /\ a % n <= a
  OBVIOUS
<1>2. PICK k \in Nat : a % n = k
  BY <1>1
<1>3. PICK q \in Int : a = n * q + k
  BY <1>2, Quotient
<1>4. Aligned(a, n) = n * q
  BY <1>2, <1>3 DEF Aligned
<1>5. (n * q) % n = 0
  OBVIOUS
<1>. QED BY <1>1, <1>4, <1>5 DEF Aligned

\* A multiple has a factor.
LEMMA Factor ==
    ASSUME NEW n \in Nat \ {0}, NEW x \in Nat, x % n = 0
    PROVE  \E i \in Nat : x = n * i
OBVIOUS

\* Two multiples of a size are at least that size apart.
LEMMA MultiplesApart ==
    ASSUME NEW n \in Nat \ {0}, NEW x \in Nat, NEW y \in Nat,
           x % n = 0, y % n = 0, x < y
    PROVE  x + n <= y
<1>1. PICK i \in Nat : x = n * i
  BY Factor
<1>2. PICK j \in Nat : y = n * j
  BY Factor
<1>3. i < j
  BY <1>1, <1>2
<1>4. n * (j - i - 1) >= 0
  BY <1>3
<1>. QED BY <1>1, <1>2, <1>4

\* Rounding down does not pass a multiple.
LEMMA AlignedAbove ==
    ASSUME NEW n \in Nat \ {0}, NEW s \in Nat, NEW a \in Nat, s % n = 0, s <= a
    PROVE  s <= Aligned(a, n)
<1>1. SUFFICES ASSUME Aligned(a, n) < s PROVE FALSE
  BY AlignedBelow
<1>. QED BY <1>1, AlignedBelow, MultiplesApart

\* A sum of multiples is a multiple.
LEMMA MultiplesAdd ==
    ASSUME NEW n \in Nat \ {0}, NEW x \in Nat, NEW y \in Nat, x % n = 0, y % n = 0
    PROVE  (x + y) % n = 0
<1>1. PICK i \in Nat : x = n * i
  BY Factor
<1>2. PICK j \in Nat : y = n * j
  BY Factor
<1>3. PICK k \in Nat : k = i + j
  OBVIOUS
<1>4. x + y = n * i + n * j
  BY <1>1, <1>2
<1>5. n * i + n * j = n * k
  BY <1>3
<1>6. (n * k) % n = 0
  OBVIOUS
<1>. QED BY <1>4, <1>5, <1>6

-----------------------------------------------------------------------------
(* Regions and addresses *)

\* The sizes of a region's parts.
LEMMA RegionBounds ==
    ASSUME NEW f \in Regions
    PROVE  /\ Start[f] \in Nat
           /\ Length[f] \in Nat \ {0}
           /\ Start[f] + Length[f] <= UINT32_MAX
           /\ Start[f] % BufSize = 0
           /\ BlockSize[f] \in Nat \ {0}
           /\ Start[f] % BlockSize[f] = 0
BY SizesAssumption, LayoutAssumption DEF UINT32_MAX

\* An address belongs to its own window.
LEMMA WindowHolds == ASSUME NEW a \in Nat PROVE a \in WindowOf(a)
BY SizesAssumption, AlignedBelow DEF WindowOf

\* The regions share no cell.
LEMMA CellsApart ==
    ASSUME NEW f \in Regions, NEW g \in Regions, NEW a \in Cells(f), a \in Cells(g)
    PROVE  f = g
<1>1. a \in Nat
  BY RegionBounds DEF Cells
<1>. QED BY <1>1, WindowHolds, LayoutAssumption

\* target_flash_for_addr finds the region of an address, and there is only one.
LEMMA FlashFound ==
    ASSUME NEW a \in Nat
    PROVE  /\ a \in Mapped => FlashForAddr(a) \in Regions /\ a \in Cells(FlashForAddr(a))
           /\ a \notin Mapped => FlashForAddr(a) = 0
           /\ \A f \in Regions : a \in Cells(f) => a \in Mapped /\ FlashForAddr(a) = f
<1>1. a \in Mapped => \E f \in Regions : a \in Cells(f)
  BY DEF Mapped
<1>2. a \in Mapped => FlashForAddr(a) \in Regions /\ a \in Cells(FlashForAddr(a))
  BY <1>1 DEF FlashForAddr
<1>3. \A f \in Regions : a \in Cells(f) => a \in Mapped
  BY DEF Mapped
<1>4. \A f, g \in Regions : a \in Cells(f) /\ a \in Cells(g) => f = g
  BY CellsApart
<1>. QED BY <1>2, <1>3, <1>4 DEF FlashForAddr

\* Region numbers are not 0.
LEMMA RegionNumbers == Regions \subseteq Nat \ {0} /\ 1 \in Regions /\ 0 \notin Regions
BY SizesAssumption DEF Regions

\* The mapped addresses are addresses.
LEMMA MappedAddrs == Mapped \subseteq Addrs
BY RegionBounds, SizesAssumption DEF Mapped, Cells, Addrs, UINT32_MAX

\* The window and the block of a cell start in its region, and their mapped part lies in it.
LEMMA WindowInside ==
    ASSUME NEW f \in Regions, NEW a \in Cells(f)
    PROVE  /\ a \in Nat
           /\ Start[f] <= a
           /\ a < Start[f] + Length[f]
           /\ Start[f] <= Aligned(a, BufSize)
           /\ WindowOf(a) \cap Mapped \subseteq Cells(f)
           /\ Block(f, a) \cap Mapped \subseteq Cells(f)
<1>1. a \in Nat /\ Start[f] <= a /\ a < Start[f] + Length[f]
  BY RegionBounds DEF Cells
<1>2. Start[f] <= Aligned(a, BufSize)
  BY <1>1, RegionBounds, SizesAssumption, AlignedAbove
<1>3. \A b \in Mapped : b \in Block(f, a) \cup WindowOf(a) => b \in Cells(f)
  <2> SUFFICES ASSUME NEW b \in Mapped, b \in Block(f, a) \cup WindowOf(a)
               PROVE  b \in Cells(f)
    OBVIOUS
  <2>1. PICK g \in Regions : b \in Cells(g)
    BY DEF Mapped
  <2>2. f # g => (Block(f, a) \cup WindowOf(a)) \cap Cells(g) = {}
    BY LayoutAssumption
  <2>. QED BY <2>1, <2>2
<1>. QED BY <1>1, <1>2, <1>3

-----------------------------------------------------------------------------
(* What the steps of a call may do to one region *)

RegionType == [operation : {"none", "erase", "write"}, buf : {NoBuf} \cup Windows,
               base : 0 .. UINT32_MAX, low : 0 .. UINT32_MAX, high : 0 .. UINT32_MAX]

\* A buffer is not the NULL pointer.
LEMMA WindowIsBuffer == NoBuf \notin Windows
<1>1. 0 \in Window
  BY SizesAssumption DEF Window
<1>2. SUFFICES ASSUME NoBuf \in Windows PROVE FALSE
  OBVIOUS
<1>3. DOMAIN NoBuf = Window
  BY <1>2 DEF Windows
<1>4. DOMAIN NoBuf = {}
  BY DEF NoBuf
<1>. QED BY <1>1, <1>3, <1>4

\* What the driver's functions return is a Boolean.
LEMMA ResultType == \A function : Result(function) \subseteq BOOLEAN /\ TRUE \in Result(function)
BY DEF Result

\* flash_done: the region is out of its operation, its marks stay.
LEMMA DoneOutcome ==
    ASSUME NEW r \in RegionType, NEW d \in Done(r)
    PROVE  /\ d.r \in RegionType
           /\ d.ok \in BOOLEAN
           /\ d.r.operation = "none"
           /\ d.r.buf = r.buf \/ d.r.buf = NoBuf
           /\ d.r.base = r.base /\ d.r.low = r.low /\ d.r.high = r.high
           /\ r.operation = "none" => d.r = r /\ d.ok
<1>1. CASE r.operation = "none"
  <2>1. d.r = r /\ d.ok = TRUE
    BY <1>1 DEF Done
  <2>. QED BY <1>1, <2>1
<1>2. CASE r.operation # "none"
  <2>1. PICK b \in BOOLEAN : d = [r |-> [r EXCEPT !.operation = "none", !.buf = NoBuf], ok |-> b]
    BY <1>2, ResultType DEF Done
  <2>. QED BY <1>2, <2>1 DEF RegionType
<1>. QED BY <1>1, <1>2

\* flash_prepare: the region is in the new operation, or in none after a failure.
LEMMA PrepareOutcome ==
    ASSUME NEW r \in RegionType, NEW new \in {"erase", "write"}, NEW p \in Prepare(r, new)
    PROVE  /\ p.r \in RegionType
           /\ p.ok \in BOOLEAN
           /\ p.ok => p.r.operation = new
           /\ ~p.ok => p.r.operation = "none"
           /\ p.r.buf = r.buf \/ p.r.buf = NoBuf
           /\ p.r.base = r.base /\ p.r.low = r.low /\ p.r.high = r.high
           /\ r.operation \in {"none", new} => p.r.buf = r.buf
<1>1. CASE r.operation = new
  <2>1. p.r = r /\ p.ok = TRUE
    BY <1>1 DEF Prepare
  <2>. QED BY <1>1, <2>1
<1>2. CASE r.operation # new
  <2>1. PICK d \in Done(r) : p \in IF d.ok THEN Prepared(d.r, new) ELSE {d}
    BY <1>2 DEF Prepare
  <2>2. CASE ~d.ok
    BY <1>2, <2>1, <2>2, DoneOutcome
  <2>3. CASE d.ok
    <3>1. PICK b \in BOOLEAN :
            p = [r |-> [d.r EXCEPT !.operation = IF b THEN new ELSE "none"], ok |-> b]
      BY <2>1, <2>3, ResultType DEF Prepared
    <3>. QED BY <1>2, <3>1, DoneOutcome DEF RegionType
  <2>. QED BY <2>2, <2>3, DoneOutcome
<1>. QED BY <1>1, <1>2

\* Emptying the marks.
LEMMA EmptiedType ==
    ASSUME NEW r \in RegionType
    PROVE  /\ Emptied(r) \in RegionType
           /\ Emptied(r).operation = r.operation
           /\ Emptied(r).buf = r.buf
           /\ Emptied(r).base = UINT32_MAX
           /\ Emptied(r).low = UINT32_MAX
           /\ Emptied(r).high = 0
<1>1. UINT32_MAX \in 0 .. UINT32_MAX /\ 0 \in 0 .. UINT32_MAX
  BY SizesAssumption DEF UINT32_MAX
<1>. QED BY <1>1 DEF Emptied, RegionType

\* A flushed byte is data, erased, or not known.
LEMMA WrittenType ==
    ASSUME NEW m \in [Mapped -> Contents], NEW r \in RegionType, r.buf # NoBuf, NEW done
    PROVE  Written(m, r, done) \in [Mapped -> Contents]
<1>1. r.buf \in [Window -> Data \cup {Erased}]
  BY DEF RegionType, Windows
<1>2. \A a \in Mapped : Byte(r, a) \in Contents
  BY <1>1 DEF Byte, Contents
<1>. QED BY <1>2 DEF Written, Programmed, Contents

\* flash_buffered_flush: nothing to do, or a failed prepare, or the units written.
LEMMA FlushCases ==
    ASSUME NEW r \in RegionType, NEW x \in Flush(r)
    PROVE  \/ /\ ~Pending(r)
              /\ x = [r |-> r, ok |-> TRUE, bad |-> FALSE, m |-> mem]
           \/ /\ Pending(r)
              /\ \E p \in Prepare(r, "write") :
                   \/ /\ ~(p.ok /\ p.r.buf # NoBuf)
                      /\ x = [r |-> p.r, ok |-> FALSE, bad |-> p.ok, m |-> mem]
                   \/ /\ p.ok /\ p.r.buf # NoBuf
                      /\ \E o \in WriteOutcomes(p.r) :
                           x = [r |-> Emptied(p.r), ok |-> o.ok, bad |-> FALSE,
                                m |-> Written(mem, p.r, Units(p.r) \ o.lost)]
<1>1. CASE ~Pending(r)
  BY <1>1 DEF Flush
<1>2. CASE Pending(r)
  <2>1. PICK p \in Prepare(r, "write") :
          x \in IF p.ok /\ p.r.buf # NoBuf
                THEN WriteOut(p.r)
                ELSE {[r |-> p.r, ok |-> FALSE, bad |-> p.ok, m |-> mem]}
    BY <1>2 DEF Flush
  <2>. QED BY <1>2, <2>1 DEF WriteOut
<1>. QED BY <1>1, <1>2

LEMMA FlushType ==
    ASSUME mem \in [Mapped -> Contents], NEW r \in RegionType, NEW x \in Flush(r)
    PROVE  /\ x.r \in RegionType
           /\ x.ok \in BOOLEAN
           /\ x.bad \in BOOLEAN
           /\ x.m \in [Mapped -> Contents]
           /\ x.r.buf = r.buf \/ x.r.buf = NoBuf
           /\ x = [r |-> x.r, ok |-> x.ok, bad |-> x.bad, m |-> x.m]
<1>1. CASE x = [r |-> r, ok |-> TRUE, bad |-> FALSE, m |-> mem]
  BY <1>1
<1>2. ASSUME NEW p \in Prepare(r, "write"),
             x = [r |-> p.r, ok |-> FALSE, bad |-> p.ok, m |-> mem]
      PROVE  /\ x.r \in RegionType
             /\ x.ok \in BOOLEAN
             /\ x.bad \in BOOLEAN
             /\ x.m \in [Mapped -> Contents]
             /\ x.r.buf = r.buf \/ x.r.buf = NoBuf
             /\ x = [r |-> x.r, ok |-> x.ok, bad |-> x.bad, m |-> x.m]
  BY <1>2, PrepareOutcome
<1>3. ASSUME NEW p \in Prepare(r, "write"), p.r.buf # NoBuf,
             NEW o \in WriteOutcomes(p.r),
             x = [r |-> Emptied(p.r), ok |-> o.ok, bad |-> FALSE,
                  m |-> Written(mem, p.r, Units(p.r) \ o.lost)]
      PROVE  /\ x.r \in RegionType
             /\ x.ok \in BOOLEAN
             /\ x.bad \in BOOLEAN
             /\ x.m \in [Mapped -> Contents]
             /\ x.r.buf = r.buf \/ x.r.buf = NoBuf
             /\ x = [r |-> x.r, ok |-> x.ok, bad |-> x.bad, m |-> x.m]
  <2>1. p.r \in RegionType /\ (p.r.buf = r.buf \/ p.r.buf = NoBuf)
    BY PrepareOutcome
  <2>2. Written(mem, p.r, Units(p.r) \ o.lost) \in [Mapped -> Contents]
    BY <1>3, <2>1, WrittenType
  <2>3. o.ok \in BOOLEAN
    BY DEF WriteOutcomes
  <2>. QED BY <1>3, <2>1, <2>2, <2>3, EmptiedType
<1>. QED BY <1>1, <1>2, <1>3, FlushCases

\* flash_buffered_flush and flash_done after it.
LEMMA FlushDoneCases ==
    ASSUME mem \in [Mapped -> Contents], NEW r \in RegionType, NEW y \in FlushDone(r)
    PROVE  \E x \in Flush(r) : \E d \in Done(x.r) :
             /\ y.r = d.r
             /\ y.ok = (x.ok /\ d.ok)
             /\ y.bad = x.bad
             /\ y.m = x.m
<1>1. PICK x \in Flush(r) :
        y \in {[r |-> d.r, ok |-> x.ok /\ d.ok, bad |-> x.bad, m |-> x.m] : d \in Done(x.r)}
  BY DEF FlushDone
<1>2. PICK d \in Done(x.r) : y = [r |-> d.r, ok |-> x.ok /\ d.ok, bad |-> x.bad, m |-> x.m]
  BY <1>1
<1>. QED BY <1>2

LEMMA FlushDoneType ==
    ASSUME mem \in [Mapped -> Contents], NEW r \in RegionType, NEW y \in FlushDone(r)
    PROVE  /\ y.r \in RegionType
           /\ y.ok \in BOOLEAN
           /\ y.bad \in BOOLEAN
           /\ y.m \in [Mapped -> Contents]
<1>1. PICK x \in Flush(r) : \E d \in Done(x.r) :
        y.r = d.r /\ y.ok = (x.ok /\ d.ok) /\ y.bad = x.bad /\ y.m = x.m
  BY FlushDoneCases
<1>2. PICK d \in Done(x.r) :
        y.r = d.r /\ y.ok = (x.ok /\ d.ok) /\ y.bad = x.bad /\ y.m = x.m
  BY <1>1
<1>. QED BY <1>2, FlushType, DoneOutcome

\* Region(f) and SetRegion(f, r) as one record.
LEMMA RegionTyped ==
    ASSUME TypeOK, NEW f \in Regions
    PROVE  Region(f) \in RegionType
BY DEF TypeOK, Region, RegionType

LEMMA RegionSet ==
    ASSUME TypeOK, NEW f \in Regions, NEW r \in RegionType, SetRegion(f, r)
    PROVE  /\ operation' \in [Regions -> {"none", "erase", "write"}]
           /\ buf' \in [Regions -> {NoBuf} \cup Windows]
           /\ base' \in [Regions -> 0 .. UINT32_MAX]
           /\ low' \in [Regions -> 0 .. UINT32_MAX]
           /\ high' \in [Regions -> 0 .. UINT32_MAX]
           /\ Region(f)' = r
           /\ \A g \in Regions \ {f} : Region(g)' = Region(g)
<1>1. r = [operation |-> r.operation, buf |-> r.buf, base |-> r.base, low |-> r.low, high |-> r.high]
  BY DEF RegionType
<1>2. /\ operation' \in [Regions -> {"none", "erase", "write"}]
      /\ buf' \in [Regions -> {NoBuf} \cup Windows]
      /\ base' \in [Regions -> 0 .. UINT32_MAX]
      /\ low' \in [Regions -> 0 .. UINT32_MAX]
      /\ high' \in [Regions -> 0 .. UINT32_MAX]
  BY DEF SetRegion, RegionType, TypeOK
<1>3. Region(f)' = r
  BY <1>1 DEF SetRegion, TypeOK, Region
<1>4. \A g \in Regions \ {f} : Region(g)' = Region(g)
  BY DEF SetRegion, TypeOK, Region
<1>. QED BY <1>2, <1>3, <1>4

-----------------------------------------------------------------------------
(* Typing: TypeOK, with what the steps of a call rely on *)

\* The region of an erase or a write is a region, and a window is only copied
\* into a buffer that is there.
CallOK ==
    /\ call.op \in {"erase", "write"} => call.active \in Regions
    /\ call.op = "write" /\ call.inner /\ ~panic => buf[call.active] # NoBuf
    /\ call.op = "settle" => ~call.inner

TypeInv == TypeOK /\ CallOK

CallType == [op : {"none", "refuse", "erase", "settle", "write", "complete"},
             addr : Nat, len : 0 .. UINT32_MAX, data : Data \cup {Erased},
             active : 0 .. Flashes + 1, ok : BOOLEAN, inner : BOOLEAN]

\* Numbers that fit.
LEMMA Bounds ==
    /\ UINT32_MAX \in Nat
    /\ 0 \in 0 .. UINT32_MAX
    /\ 0 \in 0 .. Flashes + 1
    /\ 1 \in 0 .. Flashes + 1
    /\ UINT32_MAX \in 0 .. UINT32_MAX
    /\ Regions \subseteq 0 .. Flashes + 1
BY SizesAssumption DEF UINT32_MAX, Regions

LEMMA NoCallType ==
    /\ NoCall \in CallType
    /\ \A b \in BOOLEAN : [NoCall EXCEPT !.ok = b] \in CallType
BY Bounds DEF NoCall, CallType

\* The boot state has its types.
LEMMA InitType == Init => TypeInv
<1> SUFFICES ASSUME Init PROVE TypeInv OBVIOUS
<1>1. call \in CallType
  BY NoCallType DEF Init
<1>2. mem \in [Mapped -> Contents] /\ want \in [Mapped -> Contents]
  BY DEF Init, Contents
<1>3. TypeOK
  BY <1>1, <1>2, Bounds DEF Init, TypeOK, CallType
<1>. QED BY <1>3 DEF TypeInv, CallOK, Init, NoCall

\* A call that returns.
LEMMA ReturnType ==
    ASSUME TypeInv, NEW ok \in BOOLEAN, Return(ok)
    PROVE  /\ call' \in CallType
           /\ clean' \in BOOLEAN
           /\ fresh' \subseteq Mapped
           /\ CallOK'
           /\ call'.op = "none"
           /\ clean' = (clean /\ ok)
<1>1. call' = [NoCall EXCEPT !.ok = ok]
  BY DEF Return
<1>2. call'.op = "none"
  BY <1>1 DEF NoCall
<1>3. CallOK'
  BY <1>2 DEF CallOK
<1>4. clean' \in BOOLEAN /\ clean' = (clean /\ ok)
  BY Zenon DEF Return, TypeInv, TypeOK
<1>5. fresh' \subseteq Mapped
  BY DEF Return, TypeInv, TypeOK
<1>. QED BY <1>1, <1>2, <1>3, <1>4, <1>5, NoCallType

\* A call that begins: target_enter_flash_mode and what follows it.
LEMMA EnterType ==
    ASSUME TypeInv, NEW next \in CallType, Enter(next),
           next.op \in {"erase", "write"} => next.active \in Regions,
           next.inner = FALSE
    PROVE  TypeInv'
<1>1. /\ call' \in CallType
      /\ CallOK'
      /\ clean' \in BOOLEAN
      /\ fresh' \subseteq Mapped
      /\ flash_mode' \in BOOLEAN
  <2>1. CASE flash_mode' = TRUE /\ call' = next /\ UNCHANGED <<clean, fresh>>
    BY <2>1 DEF TypeInv, TypeOK, CallOK
  <2>2. CASE Return(FALSE) /\ UNCHANGED flash_mode
    BY <2>2, ReturnType DEF TypeInv, TypeOK
  <2>. QED BY <2>1, <2>2 DEF Enter
<1>. QED BY <1>1 DEF Enter, TypeInv, TypeOK, CallType, bufVars

LEMMA EraseBeginType ==
    ASSUME TypeInv, NEW a \in Nat, NEW n \in 0 .. UINT32_MAX, EraseBegin(a, n)
    PROVE  TypeInv'
<1> DEFINE next == [NoCall EXCEPT !.op = IF FlashForAddr(a) = 0 THEN "refuse" ELSE "erase",
                                  !.addr = a, !.len = n, !.active = FlashForAddr(a)]
<1>2. FlashForAddr(a) \in Regions \cup {0}
  BY FlashFound
<1>3. FlashForAddr(a) \in 0 .. Flashes + 1
  BY <1>2, Bounds
<1>4. /\ next \in CallType
      /\ next.op \in {"erase", "write"} => next.active \in Regions
      /\ next.inner = FALSE
  <2>1. CASE FlashForAddr(a) = 0
    <3>1. next = [NoCall EXCEPT !.op = "refuse", !.addr = a, !.len = n, !.active = FlashForAddr(a)]
      BY <2>1
    <3>. QED BY <1>3, <3>1, Bounds DEF NoCall, CallType
  <2>2. CASE FlashForAddr(a) # 0
    <3>1. next = [NoCall EXCEPT !.op = "erase", !.addr = a, !.len = n, !.active = FlashForAddr(a)]
      BY <2>2
    <3>2. FlashForAddr(a) \in Regions
      BY <1>2, <2>2
    <3>. QED BY <1>3, <3>1, <3>2, Bounds DEF NoCall, CallType
  <2>. QED BY <2>1, <2>2
<1>. QED BY <1>4, EnterType DEF EraseBegin

LEMMA WriteBeginType ==
    ASSUME TypeInv, NEW a \in Nat, NEW n \in 0 .. UINT32_MAX, NEW d \in Data, WriteBegin(a, n, d)
    PROVE  TypeInv'
<1> DEFINE next == [NoCall EXCEPT !.op = "settle", !.addr = a, !.len = n, !.data = d]
<1>2. next \in CallType /\ next.op = "settle" /\ next.inner = FALSE
  BY Bounds DEF NoCall, CallType
<1>. QED BY <1>2, EnterType DEF WriteBegin

LEMMA RefuseType == ASSUME TypeInv, Refuse PROVE TypeInv'
<1>1. /\ call' \in CallType
      /\ CallOK'
      /\ clean' \in BOOLEAN
      /\ fresh' \subseteq Mapped
  BY ReturnType DEF Refuse
<1>. QED BY <1>1 DEF Refuse, TypeInv, TypeOK, CallType, bufVars

\* An erase only touches the operation and the buffer of its region.
LEMMA EraseBlockType == ASSUME TypeInv, EraseBlock PROVE TypeInv'
<1> DEFINE f == call.active
           block == Block(f, call.addr) \cap Mapped
           end   == Aligned(call.addr, BlockSize[f]) + BlockSize[f]
           left  == call.len - (end - call.addr)
<1>1. /\ f \in Regions
      /\ call \in CallType
      /\ Region(f) \in RegionType
  BY RegionTyped DEF EraseBlock, TypeInv, TypeOK, CallOK, CallType
<1>2. PICK p \in Prepare(Region(f), "erase") :
        /\ SetRegion(f, p.r)
        /\ IF p.ok
           THEN \E erased \in Result("erase") :
                  /\ mem' = IF erased THEN [a \in Mapped |-> IF a \in block THEN Erased ELSE mem[a]]
                                      ELSE mem
                  /\ want' = [a \in Mapped |-> IF a \in block THEN Erased ELSE want[a]]
                  /\ call' = [call EXCEPT !.ok = @ /\ erased,
                                          !.inner = FALSE,
                                          !.addr = IF erased THEN end ELSE @,
                                          !.len = IF ~erased THEN @ ELSE IF left < 0 THEN 0 ELSE left]
                  /\ fresh' = fresh \cup block
                  /\ UNCHANGED clean
           ELSE /\ Return(FALSE)
                /\ UNCHANGED <<mem, want>>
  BY DEF EraseBlock
<1>3. p.r \in RegionType /\ p.ok \in BOOLEAN
  BY <1>1, <1>2, PrepareOutcome
<1>4. /\ operation' \in [Regions -> {"none", "erase", "write"}]
      /\ buf' \in [Regions -> {NoBuf} \cup Windows]
      /\ base' \in [Regions -> 0 .. UINT32_MAX]
      /\ low' \in [Regions -> 0 .. UINT32_MAX]
      /\ high' \in [Regions -> 0 .. UINT32_MAX]
  BY <1>1, <1>2, <1>3, RegionSet DEF TypeInv
<1>6. call.addr \in Nat /\ end \in Nat /\ call.addr < end
  <2>1. PICK n \in Nat \ {0} : n = BlockSize[f]
    BY <1>1, RegionBounds
  <2>2. call.addr \in Nat
    BY <1>1 DEF CallType
  <2>3. Aligned(call.addr, n) \in Nat /\ call.addr < Aligned(call.addr, n) + n
    BY <2>2, AlignedBelow
  <2>. QED BY <2>1, <2>2, <2>3
<1>9. block \subseteq Mapped
  OBVIOUS
<1>10. call.len \in Nat /\ left <= call.len /\ left \in Int
  BY <1>1, <1>6, Bounds DEF CallType
<1>11. /\ call' \in CallType
       /\ CallOK'
       /\ clean' \in BOOLEAN
       /\ fresh' \subseteq Mapped
       /\ mem' \in [Mapped -> Contents]
       /\ want' \in [Mapped -> Contents]
  <2>1. CASE ~p.ok
    BY <1>2, <2>1, ReturnType DEF TypeInv, TypeOK
  <2>2. CASE p.ok
    <3>1. PICK erased \in BOOLEAN :
            /\ mem' = IF erased THEN [a \in Mapped |-> IF a \in block THEN Erased ELSE mem[a]]
                                ELSE mem
            /\ want' = [a \in Mapped |-> IF a \in block THEN Erased ELSE want[a]]
            /\ call' = [call EXCEPT !.ok = @ /\ erased,
                                    !.inner = FALSE,
                                    !.addr = IF erased THEN end ELSE @,
                                    !.len = IF ~erased THEN @ ELSE IF left < 0 THEN 0 ELSE left]
            /\ fresh' = fresh \cup block
            /\ UNCHANGED clean
      BY <1>2, <2>2, ResultType
    <3>2. /\ mem' \in [Mapped -> Contents]
          /\ want' \in [Mapped -> Contents]
      BY <3>1 DEF TypeInv, TypeOK, Contents
    <3>3. (IF ~erased THEN call.len ELSE IF left < 0 THEN 0 ELSE left) \in 0 .. UINT32_MAX
      BY <1>1, <1>10, Bounds DEF CallType
    <3>4. (call.ok /\ erased) \in BOOLEAN
      BY Zenon
    <3>5. call' \in CallType
      BY <1>1, <1>6, <3>1, <3>3, <3>4 DEF CallType
    <3>6. call'.op = "erase" /\ call'.active = f
      BY <1>1, <3>1 DEF CallType, EraseBlock
    <3>7. CallOK'
      BY <1>1, <3>6 DEF CallOK
    <3>. QED BY <1>9, <3>1, <3>2, <3>5, <3>7 DEF TypeInv, TypeOK
  <2>. QED BY <1>3, <2>1, <2>2
<1>. QED BY <1>4, <1>11 DEF EraseBlock, TypeInv, TypeOK, CallType

LEMMA EraseSwitchType == ASSUME TypeInv, EraseSwitch PROVE TypeInv'
<1>1. /\ call.active \in Regions
      /\ call \in CallType
      /\ Region(call.active) \in RegionType
  BY RegionTyped DEF EraseSwitch, TypeInv, TypeOK, CallOK, CallType
<1>2. CASE FlashForAddr(call.addr) = 0
  <2>1. Return(FALSE) /\ UNCHANGED bufVars
    BY <1>2 DEF EraseSwitch
  <2>. QED BY <2>1, ReturnType DEF EraseSwitch, TypeInv, TypeOK, CallType, bufVars
<1>3. CASE FlashForAddr(call.addr) # 0
  <2>1. PICK d \in Done(Region(call.active)) :
          /\ SetRegion(call.active, d.r)
          /\ call' = [call EXCEPT !.ok = d.ok, !.inner = TRUE, !.active = FlashForAddr(call.addr)]
    BY <1>3 DEF EraseSwitch
  <2>2. d.r \in RegionType /\ d.ok \in BOOLEAN
    BY <1>1, DoneOutcome
  <2>3. FlashForAddr(call.addr) \in Regions
    BY <1>1, <1>3, FlashFound DEF CallType
  <2>4. call' \in CallType
    BY <1>1, <2>1, <2>2, <2>3, Bounds DEF CallType
  <2>5. CallOK'
    BY <1>1, <2>1, <2>3 DEF CallOK, CallType, EraseSwitch
  <2>6. UNCHANGED <<clean, fresh>>
    BY <1>3 DEF EraseSwitch
  <2>. QED BY <1>1, <2>1, <2>2, <2>4, <2>5, <2>6, RegionSet DEF EraseSwitch, TypeInv, TypeOK, CallType
<1>. QED BY <1>2, <1>3

LEMMA EraseEndType == ASSUME TypeInv, EraseEnd PROVE TypeInv'
<1>1. /\ call.active \in Regions
      /\ call \in CallType
      /\ Region(call.active) \in RegionType
  BY RegionTyped DEF EraseEnd, TypeInv, TypeOK, CallOK, CallType
<1>2. PICK d \in Done(Region(call.active)) :
        /\ SetRegion(call.active, d.r)
        /\ Return(call.ok /\ d.ok)
  BY DEF EraseEnd
<1>3. d.r \in RegionType /\ (call.ok /\ d.ok) \in BOOLEAN
  BY <1>1, DoneOutcome, Zenon
<1>4. /\ call' \in CallType
      /\ CallOK'
      /\ clean' \in BOOLEAN
      /\ fresh' \subseteq Mapped
  BY <1>2, <1>3, ReturnType
<1>. QED BY <1>1, <1>2, <1>3, <1>4, RegionSet DEF EraseEnd, TypeInv, TypeOK, CallType

LEMMA SettleType == ASSUME TypeInv, Settle PROVE TypeInv'
<1> DEFINE f == call.active
<1>1. /\ f \in Regions
      /\ call \in CallType
      /\ Region(f) \in RegionType
  BY RegionTyped DEF Settle, TypeInv, TypeOK, CallType
<1>a. f + 1 \in 0 .. Flashes + 1
  BY <1>1, SizesAssumption DEF Regions
<1>2. CASE call.addr \in Cells(f) \/ buf[f] = NoBuf
  <2>1. call' = [call EXCEPT !.active = @ + 1] /\ UNCHANGED <<bufVars, mem, panic>>
    BY <1>2 DEF Settle
  <2>2. call' \in CallType /\ call'.op = "settle" /\ call'.inner = call.inner
    BY <1>1, <1>a, <2>1 DEF CallType, Settle
  <2>. QED BY <2>1, <2>2 DEF Settle, TypeInv, TypeOK, CallOK, CallType, bufVars, history
<1>3. CASE ~(call.addr \in Cells(f) \/ buf[f] = NoBuf)
  <2>1. PICK x \in FlushDone(Region(f)) :
          /\ SetRegion(f, x.r)
          /\ mem' = x.m
          /\ panic' = x.bad
          /\ call' = [call EXCEPT !.active = @ + 1, !.ok = @ /\ x.ok]
    BY <1>3 DEF Settle
  <2>2. /\ x.r \in RegionType
        /\ x.bad \in BOOLEAN
        /\ x.m \in [Mapped -> Contents]
    BY <1>1, FlushDoneType DEF TypeInv, TypeOK
  <2>3. (call.ok /\ x.ok) \in BOOLEAN
    BY Zenon
  <2>4. call' \in CallType /\ call'.op = "settle" /\ call'.inner = call.inner
    BY <1>1, <1>a, <2>1, <2>3 DEF CallType, Settle
  <2>5. CallOK'
    BY <2>4 DEF CallOK, TypeInv, Settle
  <2>. QED BY <1>1, <2>1, <2>2, <2>4, <2>5, RegionSet DEF Settle, TypeInv, TypeOK, CallType, history
<1>. QED BY <1>2, <1>3

LEMMA SettleEndType == ASSUME TypeInv, SettleEnd PROVE TypeInv'
<1>1. call \in CallType
  BY DEF TypeInv, TypeOK, CallType
<1>2. CASE FlashForAddr(call.addr) = 0 \/ ~call.ok
  <2>1. Return(FALSE)
    BY <1>2 DEF SettleEnd
  <2>. QED BY <2>1, ReturnType DEF SettleEnd, TypeInv, TypeOK, CallType, bufVars
<1>3. CASE ~(FlashForAddr(call.addr) = 0 \/ ~call.ok)
  <2>1. /\ call' = [call EXCEPT !.op = "write", !.active = FlashForAddr(call.addr)]
        /\ UNCHANGED <<clean, fresh>>
    BY <1>3 DEF SettleEnd
  <2>2. FlashForAddr(call.addr) \in Regions
    BY <1>1, <1>3, FlashFound DEF CallType
  <2>3. call' \in CallType /\ call'.active \in Regions /\ call'.op = "write" /\ call'.inner = call.inner
    BY <1>1, <2>1, <2>2, Bounds DEF CallType
  <2>4. ~call.inner
    BY DEF SettleEnd, TypeInv, TypeOK, CallOK
  <2>. QED BY <2>1, <2>3, <2>4 DEF SettleEnd, TypeInv, TypeOK, CallOK, CallType, bufVars
<1>. QED BY <1>2, <1>3

LEMMA WriteSwitchType == ASSUME TypeInv, WriteSwitch PROVE TypeInv'
<1> DEFINE f == call.active
<1>1. /\ f \in Regions
      /\ call \in CallType
      /\ Region(f) \in RegionType
  BY RegionTyped DEF WriteSwitch, TypeInv, TypeOK, CallOK, CallType
<1>2. CASE FlashForAddr(call.addr) = 0
  <2>1. Return(FALSE) /\ UNCHANGED <<bufVars, mem, panic>>
    BY <1>2 DEF WriteSwitch
  <2>. QED BY <2>1, ReturnType DEF WriteSwitch, TypeInv, TypeOK, CallType, bufVars
<1>3. CASE FlashForAddr(call.addr) # 0
  <2>1. PICK x \in FlushDone(Region(f)) :
          /\ SetRegion(f, x.r)
          /\ mem' = x.m
          /\ panic' = x.bad
          /\ call' = [call EXCEPT !.active = FlashForAddr(call.addr), !.ok = x.ok]
          /\ UNCHANGED <<clean, fresh>>
    BY <1>3 DEF WriteSwitch
  <2>2. /\ x.r \in RegionType
        /\ x.ok \in BOOLEAN
        /\ x.bad \in BOOLEAN
        /\ x.m \in [Mapped -> Contents]
    BY <1>1, FlushDoneType DEF TypeInv, TypeOK
  <2>3. FlashForAddr(call.addr) \in Regions
    BY <1>1, <1>3, FlashFound DEF CallType
  <2>4. call' \in CallType /\ call'.active \in Regions /\ call'.inner = call.inner
    BY <1>1, <2>1, <2>2, <2>3, Bounds DEF CallType
  <2>5. CallOK'
    BY <2>4 DEF CallOK, WriteSwitch
  <2>. QED BY <1>1, <2>1, <2>2, <2>4, <2>5, RegionSet DEF WriteSwitch, TypeInv, TypeOK, CallType
<1>. QED BY <1>2, <1>3

LEMMA WriteRegionType == ASSUME TypeInv, WriteRegion PROVE TypeInv'
<1>0. PICK f \in Regions : f = call.active
  BY DEF WriteRegion, TypeInv, CallOK
<1> DEFINE new == [Emptied(Region(f)) EXCEPT !.buf = [i \in Window |-> Erased]]
<1>1. /\ call \in CallType
      /\ Region(f) \in RegionType
  BY RegionTyped DEF WriteRegion, TypeInv, TypeOK, CallOK, CallType
<1>2. new \in RegionType /\ new.buf # NoBuf
  <2>1. [i \in Window |-> Erased] \in Windows
    BY DEF Windows
  <2>. QED BY <1>1, <2>1, EmptiedType, WindowIsBuffer DEF RegionType
<1>3. PICK allocated \in BOOLEAN :
        /\ buf[f] # NoBuf => allocated
        /\ IF allocated /\ buf[f] = NoBuf THEN SetRegion(f, new) ELSE UNCHANGED bufVars
        /\ IF call.ok /\ allocated
           THEN call' = [call EXCEPT !.inner = TRUE] /\ UNCHANGED <<clean, fresh>>
           ELSE Return(FALSE)
  BY <1>0, ResultType DEF WriteRegion
<1>4. /\ operation' \in [Regions -> {"none", "erase", "write"}]
      /\ buf' \in [Regions -> {NoBuf} \cup Windows]
      /\ base' \in [Regions -> 0 .. UINT32_MAX]
      /\ low' \in [Regions -> 0 .. UINT32_MAX]
      /\ high' \in [Regions -> 0 .. UINT32_MAX]
      /\ allocated => buf'[f] # NoBuf
  <2>1. CASE allocated /\ buf[f] = NoBuf
    <3>1. SetRegion(f, new)
      BY <1>3, <2>1
    <3>2. Region(f)' = new
      BY <1>1, <1>2, <3>1, RegionSet DEF TypeInv
    <3>3. buf'[f] = new.buf
      BY <3>2 DEF Region
    <3>. QED BY <1>1, <1>2, <3>1, <3>3, RegionSet DEF TypeInv
  <2>2. CASE ~(allocated /\ buf[f] = NoBuf)
    BY <1>3, <2>2 DEF TypeInv, TypeOK, bufVars
  <2>. QED BY <2>1, <2>2
<1>5. /\ call' \in CallType
      /\ CallOK'
      /\ clean' \in BOOLEAN
      /\ fresh' \subseteq Mapped
  <2>1. CASE call.ok /\ allocated
    <3>1. call' = [call EXCEPT !.inner = TRUE] /\ UNCHANGED <<clean, fresh>>
      BY <1>3, <2>1
    <3>2. call' \in CallType /\ call'.op = "write" /\ call'.active = f
      BY <1>0, <1>1, <3>1 DEF CallType, WriteRegion
    <3>. QED BY <1>1, <1>4, <2>1, <3>1, <3>2 DEF CallOK, TypeInv, TypeOK
  <2>2. CASE ~(call.ok /\ allocated)
    BY <1>3, <2>2, ReturnType
  <2>. QED BY <2>1, <2>2
<1>. QED BY <1>4, <1>5 DEF WriteRegion, TypeInv, TypeOK, CallType

\* A piece of a window ends in the window.
LEMMA LocalLenBounds ==
    ASSUME TypeInv, call.active \in Regions, call.len > 0, call.addr \in Cells(call.active)
    PROVE  /\ LocalLen \in Nat \ {0}
           /\ LocalLen <= call.len
           /\ call.addr + LocalLen <= Aligned(call.addr, BufSize) + BufSize
           /\ call.addr + LocalLen <= Start[call.active] + Length[call.active]
           /\ call.addr + LocalLen \in 0 .. UINT32_MAX
           /\ call.addr \in Nat
           /\ call.addr .. call.addr + LocalLen - 1 \subseteq Cells(call.active)
<1> DEFINE f == call.active
           a == call.addr
           top == Aligned(a, BufSize) + BufSize
<1>0. a \in Nat /\ call.len \in Nat
  BY Bounds DEF TypeInv, TypeOK
<1>1. /\ a \in Nat
      /\ call.len \in Nat
      /\ BufSize \in Nat \ {0}
      /\ a % BufSize \in 0 .. BufSize - 1
  BY <1>0, SizesAssumption
<1>2. /\ Start[f] + Length[f] <= UINT32_MAX
      /\ Start[f] \in Nat
      /\ Length[f] \in Nat
      /\ UINT32_MAX \in Nat
  BY RegionBounds, Bounds
<1>3. Start[f] <= a /\ a < Start[f] + Length[f]
  BY WindowInside
<1>4. /\ RegionRoom \in Nat \ {0} /\ a + RegionRoom = Start[f] + Length[f]
      /\ WindowRoom \in Nat \ {0} /\ a + WindowRoom = top
  BY <1>1, <1>2, <1>3 DEF RegionRoom, WindowRoom, Aligned
<1>5. /\ LocalLen \in Nat \ {0}
      /\ LocalLen <= call.len
      /\ LocalLen <= RegionRoom
      /\ LocalLen <= WindowRoom
  BY <1>1, <1>4 DEF LocalLen, Lesser
<1>6. a + LocalLen <= top /\ a + LocalLen <= Start[f] + Length[f]
  <2> HIDE DEF top, a
  <2>. QED BY <1>1, <1>2, <1>4, <1>5
<1> HIDE DEF top, a
<1>7. a + LocalLen \in 0 .. UINT32_MAX
  BY <1>1, <1>2, <1>5, <1>6
<1>8. a .. a + LocalLen - 1 \subseteq Cells(f)
  BY <1>1, <1>2, <1>3, <1>5, <1>6 DEF Cells
<1>. QED BY <1>1, <1>5, <1>6, <1>7, <1>8 DEF a, top

\* The buffer covers the address, or there is none left.
LEMMA BufferReadyType ==
    ASSUME TypeInv, NEW r \in RegionType, NEW a \in Mapped, NEW x \in BufferReady(r, a)
    PROVE  /\ x.r \in RegionType
           /\ x.ok \in BOOLEAN
           /\ x.bad \in BOOLEAN
           /\ x.m \in [Mapped -> Contents]
           /\ r.buf # NoBuf /\ ~x.bad => x.r.buf # NoBuf
<1>1. CASE r.base = Aligned(a, BufSize)
  <2>1. x = [r |-> r, ok |-> TRUE, bad |-> FALSE, m |-> mem]
    BY <1>1 DEF BufferReady
  <2>. QED BY <2>1 DEF TypeInv, TypeOK
<1>2. CASE r.base # Aligned(a, BufSize)
  <2> DEFINE Ready(q) == [q EXCEPT !.base = Aligned(a, BufSize), !.buf = [i \in Window |-> Erased]]
  <2>1. PICK y \in Flush(r) :
          x = [y EXCEPT !.bad = @ \/ y.r.buf = NoBuf, !.r = IF y.r.buf = NoBuf THEN y.r ELSE Ready(y.r)]
    BY <1>2 DEF BufferReady
  <2>2. /\ y.r \in RegionType
        /\ y.ok \in BOOLEAN
        /\ y.bad \in BOOLEAN
        /\ y.m \in [Mapped -> Contents]
    BY FlushType DEF TypeInv, TypeOK
  <2>3. y = [r |-> y.r, ok |-> y.ok, bad |-> y.bad, m |-> y.m]
    BY FlushType DEF TypeInv, TypeOK
  <2>4. /\ x.r = IF y.r.buf = NoBuf THEN y.r ELSE Ready(y.r)
        /\ x.ok = y.ok
        /\ x.bad = (y.bad \/ y.r.buf = NoBuf)
        /\ x.m = y.m
    BY <2>1, <2>3
  <2>5. x.bad \in BOOLEAN
    BY <2>4, Zenon
  <2>6. Aligned(a, BufSize) \in 0 .. UINT32_MAX
    <3>1. a \in Nat /\ a <= UINT32_MAX
      BY MappedAddrs, SizesAssumption DEF Addrs, UINT32_MAX
    <3>2. BufSize \in Nat \ {0}
      BY SizesAssumption
    <3>3. Aligned(a, BufSize) \in Nat /\ Aligned(a, BufSize) <= a
      BY <3>1, <3>2, AlignedBelow
    <3>. QED BY <3>1, <3>3, Bounds
  <2>7. [i \in Window |-> Erased] \in Windows /\ [i \in Window |-> Erased] # NoBuf
    BY WindowIsBuffer DEF Windows
  <2>8. Ready(y.r) \in RegionType /\ Ready(y.r).buf # NoBuf
    BY <2>2, <2>6, <2>7 DEF RegionType
  <2>. QED BY <2>2, <2>4, <2>5, <2>8
<1>. QED BY <1>1, <1>2

\* One piece of a window copied: the marks stay addresses.
LEMMA WriteWindowType == ASSUME TypeInv, WriteWindow PROVE TypeInv'
<1>1. PICK f \in Regions : f = call.active
  BY DEF WriteWindow, TypeInv, CallOK
<1> DEFINE cells == call.addr .. call.addr + LocalLen - 1
           Copied(r) == [r EXCEPT !.buf = [i \in Window |-> IF r.base + i \in cells THEN call.data ELSE @[i]],
                                  !.low = IF call.addr < @ THEN call.addr ELSE @,
                                  !.high = IF call.addr + LocalLen > @ THEN call.addr + LocalLen ELSE @]
<1>2. /\ call \in CallType
      /\ Region(f) \in RegionType
      /\ call.addr \in Mapped
      /\ Region(f).buf # NoBuf
  BY <1>1, RegionTyped DEF WriteWindow, TypeInv, TypeOK, CallType, CallOK, Mapped, Region
<1>3. PICK x \in BufferReady(Region(f), call.addr) :
        /\ panic' = x.bad
        /\ mem' = x.m
        /\ IF x.bad
           THEN UNCHANGED <<bufVars, call, want, fresh>>
           ELSE /\ SetRegion(f, Copied(x.r))
                /\ want' = [a \in Mapped |-> IF a \in cells THEN call.data ELSE want[a]]
                /\ fresh' = fresh \ cells
                /\ call' = [call EXCEPT !.addr = @ + LocalLen, !.len = @ - LocalLen, !.ok = @ /\ x.ok]
  BY <1>1 DEF WriteWindow
<1>4. /\ x.r \in RegionType
      /\ x.ok \in BOOLEAN
      /\ x.bad \in BOOLEAN
      /\ x.m \in [Mapped -> Contents]
      /\ ~x.bad => x.r.buf # NoBuf
  BY <1>2, BufferReadyType
<1>5. CASE x.bad
  BY <1>3, <1>4, <1>5 DEF TypeInv, TypeOK, CallOK, WriteWindow, bufVars
<1>6. CASE ~x.bad
  <2>1. /\ LocalLen \in Nat \ {0}
        /\ LocalLen <= call.len
        /\ call.addr + LocalLen \in 0 .. UINT32_MAX
        /\ call.addr \in Nat
    BY <1>1, LocalLenBounds DEF WriteWindow
  <2>2. /\ x.r.buf \in [Window -> Data \cup {Erased}]
        /\ x.r.low \in 0 .. UINT32_MAX
        /\ x.r.high \in 0 .. UINT32_MAX
        /\ call.data \in Data \cup {Erased}
        /\ call.addr \in 0 .. UINT32_MAX
        /\ call.len \in 0 .. UINT32_MAX
    BY <1>2, <1>4, <1>6, MappedAddrs, SizesAssumption DEF RegionType, Windows, CallType, Addrs, UINT32_MAX
  <2>3. [i \in Window |-> IF x.r.base + i \in cells THEN call.data ELSE x.r.buf[i]] \in Windows
    BY <2>2 DEF Windows
  <2>4. Copied(x.r) \in RegionType /\ Copied(x.r).buf # NoBuf
    BY <1>4, <2>1, <2>2, <2>3, WindowIsBuffer DEF RegionType
  <2>5. SetRegion(f, Copied(x.r))
    BY <1>3, <1>6
  <2>6. Region(f)' = Copied(x.r)
    BY <2>4, <2>5, RegionSet DEF TypeInv
  <2>7. buf'[f] # NoBuf
    BY <2>4, <2>6 DEF Region
  <2>8. call' = [call EXCEPT !.addr = @ + LocalLen, !.len = @ - LocalLen, !.ok = @ /\ x.ok]
    BY <1>3, <1>6
  <2>9. (call.ok /\ x.ok) \in BOOLEAN /\ call.len - LocalLen \in 0 .. UINT32_MAX
    <3>1. (call.ok /\ x.ok) \in BOOLEAN
      BY Zenon
    <3>2. call.len - LocalLen \in 0 .. UINT32_MAX
      BY <2>1, <2>2, Bounds
    <3>. QED BY <3>1, <3>2
  <2>10. call' \in CallType /\ call'.active = f /\ call'.op = "write"
    <3>1. call.addr + LocalLen \in Nat
      BY <2>1
    <3>. QED BY <1>1, <1>2, <2>8, <2>9, <3>1 DEF CallType, WriteWindow
  <2>11. CallOK'
    BY <2>7, <2>10 DEF CallOK
  <2>12. want' \in [Mapped -> Contents] /\ fresh' \subseteq Mapped
    BY <1>3, <1>6, <2>2 DEF TypeInv, TypeOK, Contents
  <2>. QED BY <1>3, <1>4, <2>4, <2>5, <2>10, <2>11, <2>12, RegionSet
           DEF WriteWindow, TypeInv, TypeOK, CallType
<1>. QED BY <1>4, <1>5, <1>6

LEMMA WriteEndType == ASSUME TypeInv, WriteEnd PROVE TypeInv'
<1>1. call \in CallType
  BY DEF TypeInv, TypeOK, CallType
<1>2. CASE call.ok /\ call.len > 0
  <2>1. call' = [call EXCEPT !.inner = FALSE] /\ UNCHANGED <<clean, fresh>>
    BY <1>2 DEF WriteEnd
  <2>2. call' \in CallType /\ call'.active = call.active /\ call'.op = call.op /\ ~call'.inner
    BY <1>1, <2>1 DEF CallType
  <2>. QED BY <2>1, <2>2 DEF WriteEnd, TypeInv, TypeOK, CallOK, CallType, bufVars
<1>3. CASE ~(call.ok /\ call.len > 0)
  <2>1. Return(call.ok) /\ call.ok \in BOOLEAN
    BY <1>1, <1>3 DEF WriteEnd, CallType
  <2>. QED BY <2>1, ReturnType DEF WriteEnd, TypeInv, TypeOK, CallType, bufVars
<1>. QED BY <1>2, <1>3

\* A session that ends.
LEMMA SessionOverType ==
    ASSUME TypeInv, NEW ok \in BOOLEAN, SessionOver(ok)
    PROVE  /\ call' \in CallType
           /\ CallOK'
           /\ completed' \in BOOLEAN
           /\ want' \in [Mapped -> Contents]
           /\ clean' \in BOOLEAN
           /\ fresh' \subseteq Mapped
<1>1. call' \in CallType /\ call'.op = "none"
  BY NoCallType DEF SessionOver, NoCall
<1>2. CallOK'
  BY <1>1 DEF CallOK
<1>3. completed' \in BOOLEAN
  BY Zenon DEF SessionOver
<1>4. want' \in [Mapped -> Contents] /\ clean' \in BOOLEAN /\ fresh' \subseteq Mapped
  BY DEF SessionOver, TypeInv, TypeOK
<1>. QED BY <1>1, <1>2, <1>3, <1>4

LEMMA CompleteBeginType == ASSUME TypeInv, CompleteBegin PROVE TypeInv'
<1>1. CASE flash_mode
  <2>1. /\ call' = [NoCall EXCEPT !.op = "complete"]
        /\ completed' = FALSE
        /\ UNCHANGED <<want, clean, fresh>>
    BY <1>1 DEF CompleteBegin
  <2>2. call' \in CallType /\ call'.op = "complete"
    BY <2>1, Bounds DEF NoCall, CallType
  <2>. QED BY <2>1, <2>2 DEF CompleteBegin, TypeInv, TypeOK, CallOK, CallType, bufVars
<1>2. CASE ~flash_mode
  <2>1. SessionOver(FALSE)
    BY <1>2 DEF CompleteBegin
  <2>. QED BY <2>1, SessionOverType DEF CompleteBegin, TypeInv, TypeOK, CallType, bufVars
<1>. QED BY <1>1, <1>2

LEMMA CompleteRegionType == ASSUME TypeInv, CompleteRegion PROVE TypeInv'
<1> DEFINE f == call.active
<1>1. /\ f \in Regions
      /\ call \in CallType
      /\ Region(f) \in RegionType
  BY RegionTyped DEF CompleteRegion, TypeInv, TypeOK, CallType
<1>2. f + 1 \in 0 .. Flashes + 1
  BY <1>1, SizesAssumption DEF Regions
<1>3. PICK x \in FlushDone(Region(f)) :
        /\ SetRegion(f, x.r)
        /\ mem' = x.m
        /\ panic' = x.bad
        /\ call' = [call EXCEPT !.active = @ + 1, !.ok = @ /\ x.ok]
  BY DEF CompleteRegion
<1>4. /\ x.r \in RegionType
      /\ x.bad \in BOOLEAN
      /\ x.m \in [Mapped -> Contents]
  BY <1>1, FlushDoneType DEF TypeInv, TypeOK
<1>5. (call.ok /\ x.ok) \in BOOLEAN
  BY Zenon
<1>6. call' \in CallType /\ call'.op = "complete"
  BY <1>1, <1>2, <1>3, <1>5 DEF CallType, CompleteRegion
<1>7. CallOK'
  BY <1>6 DEF CallOK
<1>. QED BY <1>1, <1>3, <1>4, <1>6, <1>7, RegionSet DEF CompleteRegion, TypeInv, TypeOK, CallType, history

LEMMA CompleteEndType == ASSUME TypeInv, CompleteEnd PROVE TypeInv'
<1>1. SessionOver(call.ok) /\ call.ok \in BOOLEAN
  BY DEF CompleteEnd, TypeInv, TypeOK
<1>. QED BY <1>1, SessionOverType DEF CompleteEnd, TypeInv, TypeOK, CallType, bufVars

\* Every step of a call keeps the types.
LEMMA StepType == ASSUME TypeInv, Step PROVE TypeInv'
BY RefuseType, EraseBlockType, EraseSwitchType, EraseEndType, SettleType, SettleEndType, WriteSwitchType,
   WriteRegionType, WriteWindowType, WriteEndType, CompleteRegionType, CompleteEndType
DEF Step

\* So does every step of GDB's load.
LEMMA NextType == ASSUME TypeInv, Next PROVE TypeInv'
<1>1. \A q \in Ranges : q[1] \in Nat /\ q[2] \in 0 .. UINT32_MAX
  <2> TAKE q \in Ranges
  <2>1. q[1] \in Addrs /\ q[2] \in Nat /\ q[1] + q[2] <= MaxAddr + 1
    BY RangesAssumption
  <2>2. q[1] \in Nat
    BY <2>1 DEF Addrs
  <2>. QED BY <2>1, <2>2, SizesAssumption DEF UINT32_MAX
<1>2. CASE ClientErase
  BY <1>1, <1>2, EraseBeginType DEF ClientErase
<1>3. CASE ClientWrite
  BY <1>1, <1>3, WriteBeginType DEF ClientWrite
<1>. QED BY <1>2, <1>3, CompleteBeginType, StepType DEF Next

-----------------------------------------------------------------------------
(* The marks of the buffers: what makes every flush of a steady load safe *)

\* An empty buffer, and one whose marks lie in its window.  Bytes outside the marks
\* are erased, so that a flush of whole units changes nothing beside the data.
Blank(r) == r.base = UINT32_MAX /\ r.low = UINT32_MAX /\ r.high = 0

Covers(f, r) ==
    /\ r.base % BufSize = 0
    /\ Start[f] <= r.base
    /\ r.base < Start[f] + Length[f]
    /\ r.base <= r.low
    /\ r.low < r.high
    /\ r.high <= r.base + BufSize
    /\ r.high <= Start[f] + Length[f]
    /\ \A i \in Window : r.buf[i] # Erased => r.low <= r.base + i /\ r.base + i < r.high

MarksOK(f, r) == r.buf # NoBuf => Blank(r) \/ Covers(f, r)

Left(r) == r.operation = "none" /\ ~Pending(r)

\* A buffer with data never meets a region that is being erased: the flush would free
\* it first.
EraseAlone ==
    \A f \in Regions :
      Region(f).operation = "erase" => /\ ~Pending(Region(f))
                                       /\ clean => call.op = "erase" /\ call.active = f

\* A complete has left the regions before its cursor.
Swept ==
    call.op = "complete" => /\ call.active >= 1
                            /\ \A f \in Regions : f < call.active => Left(Region(f))

SafeInv ==
    /\ ~panic
    /\ \A f \in Regions : MarksOK(f, Region(f))
    /\ EraseAlone
    /\ ~clean => call.op \in {"none", "complete"}
    /\ call.op = "erase" => NothingPending
    /\ Swept
    /\ ~flash_mode => call.op = "none" /\ \A f \in Regions : Left(Region(f))

\* Blank buffers have nothing to write, covering ones do.
LEMMA MarksPending ==
    ASSUME NEW f \in Regions, NEW r \in RegionType, r.buf # NoBuf
    PROVE  /\ Blank(r) => ~Pending(r)
           /\ Covers(f, r) => Pending(r)
<1>1. Start[f] + Length[f] <= UINT32_MAX /\ Start[f] \in Nat /\ Length[f] \in Nat /\ BufSize \in Nat \ {0}
  BY RegionBounds, SizesAssumption
<1>2. r.base \in Nat /\ r.low \in Nat /\ r.high \in Nat /\ UINT32_MAX \in Nat
  BY Bounds DEF RegionType
<1>. QED BY <1>1, <1>2 DEF Blank, Covers, Pending

\* The region that flash_done leaves has nothing more to write than before.
LEMMA FreedMarks ==
    ASSUME NEW f \in Regions, NEW r \in RegionType, NEW q \in RegionType,
           q.buf = r.buf \/ q.buf = NoBuf,
           q.base = r.base, q.low = r.low, q.high = r.high
    PROVE  /\ MarksOK(f, r) => MarksOK(f, q)
           /\ ~Pending(r) => ~Pending(q)
BY DEF MarksOK, Blank, Covers, Pending

\* A prepare that cannot fail does not, unless it has to end another operation first.
LEMMA PrepareSteady ==
    ASSUME "prepare" \notin Faults[client], NEW r \in RegionType, NEW new \in {"erase", "write"},
           r.operation \in {"none", new}, NEW p \in Prepare(r, new)
    PROVE  p.ok
<1>1. CASE r.operation = new
  BY <1>1 DEF Prepare
<1>2. CASE r.operation = "none" /\ r.operation # new
  <2>1. PICK d \in Done(r) : p \in IF d.ok THEN Prepared(d.r, new) ELSE {d}
    BY <1>2 DEF Prepare
  <2>2. d.ok
    BY <1>2, DoneOutcome
  <2>3. Result("prepare") = {TRUE}
    BY DEF Result
  <2>4. PICK b \in Result("prepare") :
          p = [r |-> [d.r EXCEPT !.operation = IF b THEN new ELSE "none"], ok |-> b]
    BY <2>1, <2>2 DEF Prepared
  <2>. QED BY <2>3, <2>4
<1>. QED BY <1>1, <1>2

\* flash_buffered_flush in a steady load: the buffer is still there when its units are
\* written, and it is empty after that.
LEMMA FlushSteady ==
    ASSUME mem \in [Mapped -> Contents], "prepare" \notin Faults[client],
           NEW r \in RegionType, Pending(r) => r.operation # "erase",
           NEW x \in Flush(r)
    PROVE  /\ x.bad = FALSE
           /\ x.r \in RegionType
           /\ x.r.buf = r.buf
           /\ x.r.operation = r.operation \/ x.r.operation = "write"
           /\ Pending(r) => /\ Blank(x.r)
                            /\ \E lost \in SUBSET Units(r) :
                                 /\ x.m = Written(mem, r, Units(r) \ lost)
                                 /\ x.ok /\ "silent" \notin Faults[client] => lost = {}
           /\ ~Pending(r) => x.r = r /\ x.ok = TRUE /\ x.m = mem
<1>1. CASE ~Pending(r)
  <2>1. x = [r |-> r, ok |-> TRUE, bad |-> FALSE, m |-> mem]
    BY <1>1, FlushCases
  <2>. QED BY <1>1, <2>1
<1>2. CASE Pending(r)
  <2>1. PICK p \in Prepare(r, "write") :
          \/ /\ ~(p.ok /\ p.r.buf # NoBuf)
             /\ x = [r |-> p.r, ok |-> FALSE, bad |-> p.ok, m |-> mem]
          \/ /\ p.ok /\ p.r.buf # NoBuf
             /\ \E o \in WriteOutcomes(p.r) :
                  x = [r |-> Emptied(p.r), ok |-> o.ok, bad |-> FALSE,
                       m |-> Written(mem, p.r, Units(p.r) \ o.lost)]
    BY <1>2, FlushCases
  <2>2. r.operation \in {"none", "write"}
    BY <1>2 DEF RegionType
  <2>3. p.ok /\ p.r.buf = r.buf /\ p.r \in RegionType /\ p.r.operation = "write"
        /\ p.r.base = r.base /\ p.r.low = r.low /\ p.r.high = r.high
    BY <2>2, PrepareSteady, PrepareOutcome
  <2>4. r.buf # NoBuf
    BY <1>2 DEF Pending
  <2>5. PICK o \in WriteOutcomes(p.r) :
          x = [r |-> Emptied(p.r), ok |-> o.ok, bad |-> FALSE,
               m |-> Written(mem, p.r, Units(p.r) \ o.lost)]
    BY <2>1, <2>3, <2>4
  <2>6. Units(p.r) = Units(r)
    BY <2>3 DEF Units, AlignedLow
  <2>7. \A D : Written(mem, p.r, D) = Written(mem, r, D)
    BY <2>3 DEF Written, Byte
  <2>8. /\ o.lost \in SUBSET Units(r)
        /\ o.ok /\ "silent" \notin Faults[client] => o.lost = {}
    BY <2>6 DEF WriteOutcomes
  <2>9. x.m = Written(mem, r, Units(r) \ o.lost) /\ x.ok = o.ok
    BY <2>5, <2>6, <2>7
  <2>10. x.bad = FALSE /\ x.r = Emptied(p.r)
    BY <2>5
  <2>11. /\ x.r \in RegionType
         /\ x.r.buf = r.buf
         /\ x.r.operation = "write"
         /\ Blank(x.r)
    BY <2>3, <2>10, EmptiedType DEF Blank
  <2>. QED BY <1>2, <2>8, <2>9, <2>10, <2>11
<1>. QED BY <1>1, <1>2

\* The same with flash_done after it: the region is left.
LEMMA FlushDoneSteady ==
    ASSUME mem \in [Mapped -> Contents], "prepare" \notin Faults[client],
           NEW f \in Regions, NEW r \in RegionType, Pending(r) => r.operation # "erase",
           MarksOK(f, r), NEW y \in FlushDone(r)
    PROVE  /\ y.bad = FALSE
           /\ y.r \in RegionType
           /\ MarksOK(f, y.r)
           /\ Left(y.r)
           /\ Pending(r) => \E lost \in SUBSET Units(r) :
                              /\ y.m = Written(mem, r, Units(r) \ lost)
                              /\ y.ok /\ "silent" \notin Faults[client] => lost = {}
           /\ ~Pending(r) => y.m = mem
<1>1. PICK x \in Flush(r) : \E d \in Done(x.r) :
        y.r = d.r /\ y.ok = (x.ok /\ d.ok) /\ y.bad = x.bad /\ y.m = x.m
  BY FlushDoneCases
<1>2. PICK d \in Done(x.r) :
        y.r = d.r /\ y.ok = (x.ok /\ d.ok) /\ y.bad = x.bad /\ y.m = x.m
  BY <1>1
<1>3. /\ x.bad = FALSE
      /\ x.r \in RegionType
      /\ x.r.buf = r.buf
      /\ Pending(r) => /\ Blank(x.r)
                       /\ \E lost \in SUBSET Units(r) :
                            /\ x.m = Written(mem, r, Units(r) \ lost)
                            /\ x.ok /\ "silent" \notin Faults[client] => lost = {}
      /\ ~Pending(r) => x.r = r /\ x.m = mem
  BY FlushSteady
<1>4. MarksOK(f, x.r) /\ ~Pending(x.r)
  BY <1>3, MarksPending DEF MarksOK, Blank, Pending
<1>5. /\ d.r \in RegionType
      /\ d.r.operation = "none"
      /\ d.r.buf = x.r.buf \/ d.r.buf = NoBuf
      /\ d.r.base = x.r.base /\ d.r.low = x.r.low /\ d.r.high = x.r.high
  BY <1>3, DoneOutcome
<1>6. MarksOK(f, d.r) /\ ~Pending(d.r)
  BY <1>3, <1>4, <1>5, FreedMarks
<1>. QED BY <1>2, <1>3, <1>5, <1>6 DEF Left

\* What is in the marks of a steady load is all a flush reads.
LEMMA UnitsInside ==
    ASSUME NEW f \in Regions, NEW r \in RegionType, Pending(r), MarksOK(f, r), NEW a \in Units(r)
    PROVE  r.base <= a /\ a + WriteSize <= r.base + BufSize
<1>1. Covers(f, r)
  BY MarksPending DEF MarksOK, Pending
<1>2. /\ r.base \in Nat /\ r.low \in Nat /\ r.high \in Nat
      /\ BufSize \in Nat \ {0} /\ WriteSize \in Nat \ {0}
      /\ BufSize % WriteSize = 0
  BY SizesAssumption, Bounds DEF RegionType
<1>3. r.base % WriteSize = 0
  <2>1. PICK i \in Nat : r.base = BufSize * i
    BY <1>1, <1>2, Factor DEF Covers
  <2>2. PICK j \in Nat : BufSize = WriteSize * j
    BY <1>2, Factor
  <2>3. PICK k \in Nat : k = j * i
    OBVIOUS
  <2>4. r.base = WriteSize * k
    BY <1>2, <2>1, <2>2, <2>3
  <2>. QED BY <1>2, <2>4
<1>4. (r.base + BufSize) % WriteSize = 0
  BY <1>2, <1>3, MultiplesAdd
<1>5. r.base <= Aligned(r.low, WriteSize) /\ Aligned(r.low, WriteSize) \in Nat
  BY <1>1, <1>2, <1>3, AlignedAbove, AlignedBelow DEF Covers
<1>6. a \in Nat /\ Aligned(r.low, WriteSize) <= a /\ a < r.high /\ a % WriteSize = 0
  BY <1>2, <1>5 DEF Units, AlignedLow
<1>7. a < r.base + BufSize /\ r.base + BufSize \in Nat
  BY <1>1, <1>2, <1>6 DEF Covers
<1>8. a + WriteSize <= r.base + BufSize
  BY <1>2, <1>4, <1>6, <1>7, MultiplesApart
<1>. QED BY <1>2, <1>5, <1>6, <1>8

-----------------------------------------------------------------------------
(* What the flash holds, as long as nothing has failed *)

\* The buffer has a byte for address a.
Buffered(r, a) == Pending(r) /\ a - r.base \in Window /\ r.buf[a - r.base] # Erased

NothingFailed == clean /\ (call.op = "none" \/ call.ok)

\* A cell holds what was asked for, or is erased and the buffer holds it.
CellsTrue ==
    \A f \in Regions : \A a \in Cells(f) :
      IF Buffered(Region(f), a) THEN mem[a] = Erased /\ want[a] = Byte(Region(f), a)
                                ELSE mem[a] = want[a]

\* Nothing was asked of a cell that may still be written.
FreshErased ==
    \A f \in Regions : \A a \in Cells(f) \cap fresh : want[a] = Erased /\ ~Buffered(Region(f), a)

\* What is still to be written may be written.
ToWrite ==
    call.op \in {"settle", "write"} =>
      /\ Mapped \cap (call.addr .. call.addr + call.len - 1) \subseteq fresh
      /\ call.data \in Data

\* A switch of regions, which takes the result of its own flush, comes after success.
SwitchedOk == call.op = "write" /\ ~call.inner => call.ok \/ FlashForAddr(call.addr) = call.active

DataInv ==
    /\ NothingFailed => CellsTrue /\ FreshErased
    /\ ToWrite
    /\ SwitchedOk
    /\ completed => call.op = "none" /\ \A a \in Mapped : mem[a] = want[a]

-----------------------------------------------------------------------------
(* Every step of a steady load keeps SafeInv *)

LEMMA RegionsSame == ASSUME UNCHANGED bufVars PROVE \A f \in Regions : Region(f)' = Region(f)
BY DEF bufVars, Region

\* Outside an erase of a clean session no region is being erased.
LEMMA NotErasing ==
    ASSUME SafeInv, clean, call.op # "erase"
    PROVE  \A f \in Regions : Region(f).operation # "erase"
BY DEF SafeInv, EraseAlone

LEMMA InitSafe == ASSUME Init PROVE SafeInv
<1>1. \A f \in Regions : Region(f).buf = NoBuf /\ Region(f).operation = "none"
  BY DEF Init, Region
<1>2. \A f \in Regions : Left(Region(f)) /\ MarksOK(f, Region(f))
  BY <1>1 DEF Left, Pending, MarksOK
<1>. QED BY <1>1, <1>2 DEF Init, SafeInv, EraseAlone, Swept, NoCall

\* A call that returns without a region touched.
LEMMA ReturnSafe ==
    ASSUME TypeInv, SafeInv, NEW ok \in BOOLEAN, Return(ok), UNCHANGED <<bufVars, flash_mode, panic>>,
           call.op \notin {"none", "complete"}, ok => call.op # "erase"
    PROVE  SafeInv'
<1>1. call'.op = "none" /\ clean' = (clean /\ ok)
  BY ReturnType
<1>2. \A f \in Regions : Region(f)' = Region(f)
  BY RegionsSame
<1>3. clean /\ flash_mode
  BY DEF SafeInv, TypeInv, TypeOK
<1>4. EraseAlone'
  BY <1>1, <1>2, <1>3, NotErasing DEF EraseAlone, SafeInv
<1>. QED BY <1>1, <1>2, <1>3, <1>4 DEF SafeInv, Swept

\* A call that begins, by a client whose session is clean.
LEMMA EnterSafe ==
    ASSUME TypeInv, SafeInv, clean, NEW next, Enter(next),
           next.op \in {"refuse", "erase", "settle"},
           next.op = "erase" => NothingPending
    PROVE  SafeInv'
<1>1. /\ \A f \in Regions : Region(f)' = Region(f)
      /\ UNCHANGED panic
      /\ call.op = "none"
  BY RegionsSame DEF Enter, Idle
<1>2. \A f \in Regions : Region(f).operation # "erase"
  BY <1>1, NotErasing
<1>3. CASE flash_mode' = TRUE /\ call' = next /\ UNCHANGED <<clean, fresh>>
  BY <1>1, <1>2, <1>3 DEF SafeInv, EraseAlone, Swept, NothingPending
<1>4. CASE ~flash_mode /\ Return(FALSE) /\ UNCHANGED flash_mode
  <2>1. call'.op = "none" /\ clean' = FALSE
    BY <1>4, ReturnType
  <2>. QED BY <1>1, <1>2, <1>4, <2>1 DEF SafeInv, EraseAlone, Swept
<1>. QED BY <1>3, <1>4 DEF Enter

LEMMA EraseBlockSafe == ASSUME TypeInv, SafeInv, Steady, EraseBlock PROVE SafeInv'
<1>1. PICK f \in Regions : f = call.active
  BY DEF EraseBlock, TypeInv, CallOK
<1> DEFINE end  == Aligned(call.addr, BlockSize[f]) + BlockSize[f]
           left == call.len - (end - call.addr)
<1>2. Region(f) \in RegionType /\ MarksOK(f, Region(f)) /\ NothingPending /\ clean /\ flash_mode /\ call.op = "erase"
  BY RegionTyped DEF EraseBlock, TypeInv, TypeOK, SafeInv
<1>3. PICK p \in Prepare(Region(f), "erase") :
        /\ SetRegion(f, p.r)
        /\ IF p.ok
           THEN \E erased \in Result("erase") :
                  /\ call' = [call EXCEPT !.ok = @ /\ erased,
                                          !.inner = FALSE,
                                          !.addr = IF erased THEN end ELSE @,
                                          !.len = IF ~erased THEN @ ELSE IF left < 0 THEN 0 ELSE left]
                  /\ UNCHANGED clean
           ELSE Return(FALSE)
  BY <1>1 DEF EraseBlock
<1>4. /\ p.r \in RegionType
      /\ p.ok \in BOOLEAN
      /\ p.ok => p.r.operation = "erase"
      /\ ~p.ok => p.r.operation = "none"
      /\ p.r.buf = Region(f).buf \/ p.r.buf = NoBuf
      /\ p.r.base = Region(f).base /\ p.r.low = Region(f).low /\ p.r.high = Region(f).high
  BY <1>2, PrepareOutcome
<1>5. Region(f)' = p.r /\ \A g \in Regions \ {f} : Region(g)' = Region(g)
  BY <1>3, <1>4, RegionSet DEF TypeInv
<1>6. ~Pending(p.r) /\ MarksOK(f, p.r)
  BY <1>2, <1>4, FreedMarks DEF NothingPending
<1>7. \A g \in Regions : ~Pending(Region(g)') /\ MarksOK(g, Region(g)')
  BY <1>2, <1>5, <1>6 DEF NothingPending, SafeInv
<1>8. \A g \in Regions \ {f} : Region(g).operation # "erase"
  BY <1>1, <1>2 DEF SafeInv, EraseAlone
<1>9. UNCHANGED <<flash_mode, panic>>
  BY DEF EraseBlock
<1>10. CASE p.ok
  <2>1. call'.op = "erase" /\ call'.active = f /\ clean'
    BY <1>1, <1>2, <1>3, <1>10 DEF TypeInv, TypeOK
  <2>. QED BY <1>2, <1>5, <1>7, <1>8, <1>9, <2>1 DEF SafeInv, EraseAlone, Swept, NothingPending
<1>11. CASE ~p.ok
  <2>1. call'.op = "none" /\ clean' = FALSE
    BY <1>2, <1>3, <1>11, ReturnType
  <2>. QED BY <1>2, <1>4, <1>5, <1>7, <1>8, <1>9, <1>11, <2>1 DEF SafeInv, EraseAlone, Swept
<1>. QED BY <1>4, <1>10, <1>11

\* flash_done on the region of an erase: no region is being erased any more.
LEMMA ErasedDone ==
    ASSUME TypeInv, SafeInv, call.op = "erase", NEW f \in Regions, f = call.active,
           NEW d \in Done(Region(f)), SetRegion(f, d.r)
    PROVE  /\ \A g \in Regions : ~Pending(Region(g)') /\ MarksOK(g, Region(g)')
           /\ \A g \in Regions : Region(g)'.operation # "erase"
<1>1. Region(f) \in RegionType /\ MarksOK(f, Region(f)) /\ NothingPending /\ clean
  BY RegionTyped DEF TypeInv, SafeInv
<1>2. /\ d.r \in RegionType
      /\ d.r.operation = "none"
      /\ d.r.buf = Region(f).buf \/ d.r.buf = NoBuf
      /\ d.r.base = Region(f).base /\ d.r.low = Region(f).low /\ d.r.high = Region(f).high
  BY <1>1, DoneOutcome
<1>3. Region(f)' = d.r /\ \A g \in Regions \ {f} : Region(g)' = Region(g)
  BY <1>2, RegionSet DEF TypeInv
<1>4. ~Pending(d.r) /\ MarksOK(f, d.r)
  BY <1>1, <1>2, FreedMarks DEF NothingPending
<1>5. \A g \in Regions : ~Pending(Region(g)') /\ MarksOK(g, Region(g)')
  BY <1>1, <1>3, <1>4 DEF NothingPending, SafeInv
<1>6. \A g \in Regions \ {f} : Region(g).operation # "erase"
  BY <1>1 DEF SafeInv, EraseAlone
<1>. QED BY <1>2, <1>3, <1>5, <1>6

LEMMA EraseSwitchSafe == ASSUME TypeInv, SafeInv, Steady, EraseSwitch PROVE SafeInv'
<1>1. PICK f \in Regions : f = call.active
  BY DEF EraseSwitch, TypeInv, CallOK
<1>2. CASE FlashForAddr(call.addr) = 0
  <2>1. Return(FALSE) /\ UNCHANGED <<bufVars, flash_mode, panic>> /\ call.op = "erase"
    BY <1>2 DEF EraseSwitch
  <2>. QED BY <2>1, ReturnSafe
<1>3. CASE FlashForAddr(call.addr) # 0
  <2>1. PICK d \in Done(Region(f)) :
          /\ SetRegion(f, d.r)
          /\ call' = [call EXCEPT !.ok = d.ok, !.inner = TRUE, !.active = FlashForAddr(call.addr)]
          /\ UNCHANGED <<clean, fresh>>
    BY <1>1, <1>3 DEF EraseSwitch
  <2>2. call'.op = "erase"
    BY <2>1 DEF EraseSwitch, TypeInv, TypeOK
  <2>3. UNCHANGED <<flash_mode, panic>> /\ call.op = "erase"
    BY DEF EraseSwitch
  <2>4. /\ \A g \in Regions : ~Pending(Region(g)') /\ MarksOK(g, Region(g)')
        /\ \A g \in Regions : Region(g)'.operation # "erase"
    BY <1>1, <2>1, <2>3, ErasedDone
  <2>. QED BY <2>1, <2>2, <2>3, <2>4 DEF SafeInv, EraseAlone, Swept, NothingPending
<1>. QED BY <1>2, <1>3

LEMMA EraseEndSafe == ASSUME TypeInv, SafeInv, Steady, EraseEnd PROVE SafeInv'
<1>1. PICK f \in Regions : f = call.active
  BY DEF EraseEnd, TypeInv, CallOK
<1>2. PICK d \in Done(Region(f)) : SetRegion(f, d.r) /\ Return(call.ok /\ d.ok)
  BY <1>1 DEF EraseEnd
<1>3. UNCHANGED <<flash_mode, panic>> /\ call.op = "erase"
  BY DEF EraseEnd
<1>4. /\ \A g \in Regions : ~Pending(Region(g)') /\ MarksOK(g, Region(g)')
      /\ \A g \in Regions : Region(g)'.operation # "erase"
  BY <1>1, <1>2, <1>3, ErasedDone
<1>5. call'.op = "none"
  BY <1>2 DEF Return, NoCall
<1>6. flash_mode'
  BY <1>3 DEF SafeInv, TypeInv, TypeOK
<1>. QED BY <1>3, <1>4, <1>5, <1>6 DEF SafeInv, EraseAlone, Swept

LEMMA RefuseSafe == ASSUME TypeInv, SafeInv, Refuse PROVE SafeInv'
<1>1. Return(FALSE) /\ UNCHANGED <<bufVars, flash_mode, panic>> /\ call.op = "refuse"
  BY DEF Refuse
<1>. QED BY <1>1, ReturnSafe

\* A region flushed and left by a steady load, whatever the driver's writes return.
LEMMA FlushedRegion ==
    ASSUME TypeInv, SafeInv, Steady, NEW f \in Regions,
           NEW x \in FlushDone(Region(f)), SetRegion(f, x.r)
    PROVE  /\ x.bad = FALSE
           /\ \A g \in Regions : MarksOK(g, Region(g)')
           /\ Left(Region(f)')
           /\ \A g \in Regions \ {f} : Region(g)' = Region(g)
<1>1. Region(f) \in RegionType /\ MarksOK(f, Region(f)) /\ (Pending(Region(f)) => Region(f).operation # "erase")
  BY RegionTyped DEF TypeInv, SafeInv, EraseAlone
<1>2. x.bad = FALSE /\ x.r \in RegionType /\ MarksOK(f, x.r) /\ Left(x.r)
  BY <1>1, FlushDoneSteady DEF TypeInv, TypeOK, Steady
<1>3. Region(f)' = x.r /\ \A g \in Regions \ {f} : Region(g)' = Region(g)
  BY <1>2, RegionSet DEF TypeInv
<1>. QED BY <1>2, <1>3 DEF SafeInv

\* The same in a call of a clean session: no region is being erased, before or after.
LEMMA FlushedSafe ==
    ASSUME TypeInv, SafeInv, Steady, NEW f \in Regions, NEW x \in FlushDone(Region(f)), SetRegion(f, x.r),
           call.op \in {"settle", "write"}, call'.op \in {"settle", "write"},
           panic' = x.bad, UNCHANGED <<flash_mode, clean>>
    PROVE  SafeInv'
<1>1. /\ x.bad = FALSE
      /\ \A g \in Regions : MarksOK(g, Region(g)')
      /\ Left(Region(f)')
      /\ \A g \in Regions \ {f} : Region(g)' = Region(g)
  BY FlushedRegion
<1>2. clean /\ flash_mode
  BY DEF SafeInv, TypeInv, TypeOK
<1>3. \A g \in Regions : Region(g)'.operation # "erase"
  BY <1>1, <1>2, NotErasing DEF Left
<1>. QED BY <1>1, <1>2, <1>3 DEF SafeInv, EraseAlone, Swept

\* A step of a call that touches no region and no flag.
LEMMA CallMoves ==
    ASSUME TypeInv, SafeInv, call.op \in {"settle", "write"}, call'.op \in {"settle", "write"},
           UNCHANGED <<bufVars, flash_mode, panic, clean>>
    PROVE  SafeInv'
<1>1. \A g \in Regions : Region(g)' = Region(g)
  BY RegionsSame
<1>2. clean /\ flash_mode
  BY DEF SafeInv, TypeInv, TypeOK
<1>3. \A g \in Regions : Region(g).operation # "erase"
  BY <1>2, NotErasing
<1>. QED BY <1>1, <1>2, <1>3 DEF SafeInv, EraseAlone, Swept

LEMMA SettleSafe == ASSUME TypeInv, SafeInv, Steady, Settle PROVE SafeInv'
<1>1. PICK f \in Regions : f = call.active
  BY DEF Settle
<1>2. call \in CallType /\ call.op = "settle" /\ UNCHANGED <<flash_mode, clean>>
  BY DEF Settle, history, TypeInv, TypeOK, CallType
<1>3. CASE call.addr \in Cells(f) \/ buf[f] = NoBuf
  <2>1. call' = [call EXCEPT !.active = @ + 1] /\ UNCHANGED <<bufVars, panic>>
    BY <1>1, <1>3 DEF Settle
  <2>2. call'.op = "settle"
    BY <1>2, <2>1 DEF CallType
  <2>. QED BY <1>2, <2>1, <2>2, CallMoves
<1>4. CASE ~(call.addr \in Cells(f) \/ buf[f] = NoBuf)
  <2>1. PICK x \in FlushDone(Region(f)) :
          /\ SetRegion(f, x.r)
          /\ panic' = x.bad
          /\ call' = [call EXCEPT !.active = @ + 1, !.ok = @ /\ x.ok]
    BY <1>1, <1>4 DEF Settle
  <2>2. call'.op = "settle"
    BY <1>2, <2>1 DEF CallType
  <2>. QED BY <1>2, <2>1, <2>2, FlushedSafe
<1>. QED BY <1>3, <1>4

LEMMA SettleEndSafe == ASSUME TypeInv, SafeInv, SettleEnd PROVE SafeInv'
<1>1. UNCHANGED <<bufVars, flash_mode, panic>> /\ call.op = "settle" /\ call \in CallType
  BY DEF SettleEnd, TypeInv, TypeOK, CallType
<1>2. CASE Return(FALSE)
  BY <1>1, <1>2, ReturnSafe
<1>3. CASE call' = [call EXCEPT !.op = "write", !.active = FlashForAddr(call.addr)] /\ UNCHANGED <<clean, fresh>>
  <2>1. call'.op = "write"
    BY <1>1, <1>3 DEF CallType
  <2>. QED BY <1>1, <1>3, <2>1, CallMoves
<1>. QED BY <1>2, <1>3 DEF SettleEnd

LEMMA WriteSwitchSafe == ASSUME TypeInv, SafeInv, Steady, WriteSwitch PROVE SafeInv'
<1>1. PICK f \in Regions : f = call.active
  BY DEF WriteSwitch, TypeInv, CallOK
<1>2. call \in CallType /\ call.op = "write" /\ UNCHANGED flash_mode
  BY DEF WriteSwitch, TypeInv, TypeOK, CallType
<1>3. CASE FlashForAddr(call.addr) = 0
  <2>1. Return(FALSE) /\ UNCHANGED <<bufVars, panic>>
    BY <1>3 DEF WriteSwitch
  <2>. QED BY <1>2, <2>1, ReturnSafe
<1>4. CASE FlashForAddr(call.addr) # 0
  <2>1. PICK x \in FlushDone(Region(f)) :
          /\ SetRegion(f, x.r)
          /\ panic' = x.bad
          /\ call' = [call EXCEPT !.active = FlashForAddr(call.addr), !.ok = x.ok]
          /\ UNCHANGED <<clean, fresh>>
    BY <1>1, <1>4 DEF WriteSwitch
  <2>2. call'.op = "write"
    BY <1>2, <2>1 DEF CallType
  <2>. QED BY <1>2, <2>1, <2>2, FlushedSafe
<1>. QED BY <1>3, <1>4

\* flash_buffer_alloc gives a blank buffer.
LEMMA WriteRegionSafe == ASSUME TypeInv, SafeInv, WriteRegion PROVE SafeInv'
<1>0. PICK f \in Regions : f = call.active
  BY DEF WriteRegion, TypeInv, CallOK
<1> DEFINE new == [Emptied(Region(f)) EXCEPT !.buf = [i \in Window |-> Erased]]
<1>1. call \in CallType /\ Region(f) \in RegionType /\ call.op = "write" /\ UNCHANGED <<flash_mode, panic>>
  BY RegionTyped DEF WriteRegion, TypeInv, TypeOK, CallType
<1>2. new \in RegionType /\ Blank(new) /\ new.operation = Region(f).operation /\ new.buf # NoBuf
  <2>1. [i \in Window |-> Erased] \in Windows
    BY DEF Windows
  <2>. QED BY <1>1, <2>1, EmptiedType, WindowIsBuffer DEF RegionType, Blank, Emptied
<1>3. PICK allocated \in BOOLEAN :
        /\ IF allocated /\ buf[f] = NoBuf THEN SetRegion(f, new) ELSE UNCHANGED bufVars
        /\ IF call.ok /\ allocated
           THEN call' = [call EXCEPT !.inner = TRUE] /\ UNCHANGED <<clean, fresh>>
           ELSE Return(FALSE)
  BY <1>0, ResultType DEF WriteRegion
<1>4. /\ \A g \in Regions : MarksOK(g, Region(g)') /\ Region(g)'.operation = Region(g).operation
  <2>1. CASE allocated /\ buf[f] = NoBuf
    <3>1. Region(f)' = new /\ \A g \in Regions \ {f} : Region(g)' = Region(g)
      BY <1>2, <1>3, <2>1, RegionSet DEF TypeInv
    <3>2. MarksOK(f, new)
      BY <1>2 DEF MarksOK
    <3>. QED BY <1>2, <3>1, <3>2 DEF SafeInv
  <2>2. CASE ~(allocated /\ buf[f] = NoBuf)
    BY <1>3, <2>2, RegionsSame DEF SafeInv
  <2>. QED BY <2>1, <2>2
<1>5. clean /\ flash_mode
  BY <1>1 DEF SafeInv, TypeInv, TypeOK
<1>6. \A g \in Regions : Region(g)'.operation # "erase"
  BY <1>1, <1>4, <1>5, NotErasing
<1>7. call'.op \in {"write", "none"} /\ (call'.op = "write" => clean')
  BY <1>1, <1>3, <1>5 DEF Return, NoCall, CallType
<1>. QED BY <1>1, <1>4, <1>5, <1>6, <1>7 DEF SafeInv, EraseAlone, Swept

\* What WriteWindow puts into a buffer that covers the address.
Piece == call.addr .. call.addr + LocalLen - 1

Copied(r) == [r EXCEPT !.buf = [i \in Window |-> IF r.base + i \in Piece THEN call.data ELSE @[i]],
                       !.low = IF call.addr < @ THEN call.addr ELSE @,
                       !.high = IF call.addr + LocalLen > @ THEN call.addr + LocalLen ELSE @]

\* A buffer that was just started for a window.
Started(r) == r.low = UINT32_MAX /\ r.high = 0 /\ r.buf = [i \in Window |-> Erased]

\* A flush that reports success has written every unit, unless a write fails silently.
WrittenOut(r, x) ==
    IF Pending(r) THEN \E lost \in SUBSET Units(r) :
                         /\ x.m = Written(mem, r, Units(r) \ lost)
                         /\ x.ok /\ "silent" \notin Faults[client] => lost = {}
    ELSE x.m = mem

\* The buffer covers the address: as it was, or started after a flush.
LEMMA BufferReadySteady ==
    ASSUME TypeInv, Steady, NEW f \in Regions, NEW a \in Cells(f), NEW r \in RegionType,
           r.buf # NoBuf, MarksOK(f, r), Pending(r) => r.operation # "erase", NEW x \in BufferReady(r, a)
    PROVE  /\ x.bad = FALSE
           /\ x.r \in RegionType
           /\ x.r.buf # NoBuf
           /\ x.r.base = Aligned(a, BufSize)
           /\ x.r.operation = r.operation \/ x.r.operation = "write"
           /\ \/ Covers(f, r) /\ x.r = r /\ x.m = mem
              \/ /\ Started(x.r)
                 /\ WrittenOut(r, x)
<1>0. a \in Nat /\ a < UINT32_MAX /\ BufSize \in Nat \ {0}
  <2>1. a \in Mapped
    BY DEF Mapped
  <2>. QED BY <2>1, MappedAddrs, SizesAssumption DEF Addrs, UINT32_MAX
<1>1. Aligned(a, BufSize) \in Nat /\ Aligned(a, BufSize) <= a /\ Aligned(a, BufSize) \in 0 .. UINT32_MAX
  <2>1. Aligned(a, BufSize) \in Nat /\ Aligned(a, BufSize) <= a
    BY <1>0, AlignedBelow
  <2>. QED BY <1>0, <2>1, Bounds
<1>2. CASE r.base = Aligned(a, BufSize)
  <2>1. x = [r |-> r, ok |-> TRUE, bad |-> FALSE, m |-> mem]
    BY <1>2 DEF BufferReady
  <2>2. Covers(f, r)
    <3>1. r.base # UINT32_MAX
      BY <1>0, <1>1, <1>2, Bounds
    <3>. QED BY <3>1 DEF MarksOK, Blank
  <2>. QED BY <1>2, <2>1, <2>2
<1>3. CASE r.base # Aligned(a, BufSize)
  <2> DEFINE Ready(q) == [q EXCEPT !.base = Aligned(a, BufSize), !.buf = [i \in Window |-> Erased]]
  <2>1. PICK y \in Flush(r) :
          x = [y EXCEPT !.bad = @ \/ y.r.buf = NoBuf, !.r = IF y.r.buf = NoBuf THEN y.r ELSE Ready(y.r)]
    BY <1>3 DEF BufferReady
  <2>2. /\ y.bad = FALSE
        /\ y.r \in RegionType
        /\ y.r.buf = r.buf
        /\ y.r.operation = r.operation \/ y.r.operation = "write"
        /\ Pending(r) => /\ Blank(y.r)
                         /\ \E lost \in SUBSET Units(r) :
                              /\ y.m = Written(mem, r, Units(r) \ lost)
                              /\ y.ok /\ "silent" \notin Faults[client] => lost = {}
        /\ ~Pending(r) => y.r = r /\ y.ok = TRUE /\ y.m = mem
    BY FlushSteady DEF TypeInv, TypeOK, Steady
  <2>3. y = [r |-> y.r, ok |-> y.ok, bad |-> y.bad, m |-> y.m]
    BY FlushType DEF TypeInv, TypeOK
  <2>4. /\ x.r = Ready(y.r)
        /\ x.ok = y.ok
        /\ x.bad = y.bad
        /\ x.m = y.m
    BY <2>1, <2>2, <2>3
  <2>5. [i \in Window |-> Erased] \in Windows /\ [i \in Window |-> Erased] # NoBuf
    BY WindowIsBuffer DEF Windows
  <2>6. Blank(y.r)
    <3>1. CASE ~Pending(r)
      BY <2>2, <3>1, MarksPending DEF MarksOK
    <3>. QED BY <2>2, <3>1
  <2>7. /\ x.r \in RegionType
        /\ x.r.buf # NoBuf
        /\ x.r.base = Aligned(a, BufSize)
        /\ x.r.operation = y.r.operation
        /\ Started(x.r)
    BY <1>1, <2>2, <2>4, <2>5, <2>6 DEF RegionType, Blank, Started
  <2>8. WrittenOut(r, x)
    BY <2>2, <2>4 DEF WrittenOut
  <2>. QED BY <2>2, <2>4, <2>7, <2>8
<1>. QED BY <1>2, <1>3

\* The marks follow the piece that was copied, and stay in the window.
LEMMA CopiedCovers ==
    ASSUME TypeInv, NEW f \in Regions, f = call.active, call.len > 0, call.addr \in Cells(f),
           NEW r \in RegionType, r.buf # NoBuf, r.base = Aligned(call.addr, BufSize), Covers(f, r) \/ Started(r)
    PROVE  /\ Copied(r) \in RegionType
           /\ Copied(r).buf = [i \in Window |-> IF r.base + i \in Piece THEN call.data ELSE r.buf[i]]
           /\ Copied(r).buf # NoBuf
           /\ Copied(r).operation = r.operation
           /\ Copied(r).base = r.base
           /\ Covers(f, Copied(r))
<1>1. /\ LocalLen \in Nat \ {0}
      /\ call.addr + LocalLen <= r.base + BufSize
      /\ call.addr + LocalLen \in 0 .. UINT32_MAX
      /\ call.addr \in Nat
  BY LocalLenBounds
<1>2. /\ r.buf \in [Window -> Data \cup {Erased}]
      /\ r.base \in Nat /\ r.low \in 0 .. UINT32_MAX /\ r.high \in 0 .. UINT32_MAX
      /\ call.data \in Data \cup {Erased}
      /\ BufSize \in Nat \ {0} /\ UINT32_MAX \in Nat
  BY Bounds, SizesAssumption DEF RegionType, Windows, TypeInv, TypeOK
<1>3. r.base <= call.addr /\ r.base % BufSize = 0
  BY <1>1, <1>2, AlignedBelow
<1>4. /\ Start[f] <= r.base
      /\ r.base < Start[f] + Length[f]
      /\ call.addr + LocalLen <= Start[f] + Length[f]
      /\ Start[f] + Length[f] \in Nat
  BY <1>1, <1>2, <1>3, WindowInside, RegionBounds, LocalLenBounds
<1> DEFINE new == [i \in Window |-> IF r.base + i \in Piece THEN call.data ELSE r.buf[i]]
           bot == IF call.addr < r.low THEN call.addr ELSE r.low
           top == IF call.addr + LocalLen > r.high THEN call.addr + LocalLen ELSE r.high
<1>5. new \in Windows /\ new # NoBuf
  BY <1>2, WindowIsBuffer DEF Windows
<1>6. bot \in 0 .. UINT32_MAX /\ top \in 0 .. UINT32_MAX
  BY <1>1, <1>2
<1>7. Copied(r) = [r EXCEPT !.buf = new, !.low = bot, !.high = top]
  BY DEF Copied
<1>8. /\ Copied(r) \in RegionType
      /\ Copied(r).buf = new /\ Copied(r).low = bot /\ Copied(r).high = top
      /\ Copied(r).operation = r.operation /\ Copied(r).base = r.base
  BY <1>5, <1>6, <1>7 DEF RegionType
<1>9. r.base <= bot /\ bot < top /\ top <= r.base + BufSize /\ bot <= call.addr /\ call.addr + LocalLen <= top
  <2>1. CASE Covers(f, r)
    BY <1>1, <1>2, <1>3, <2>1 DEF Covers
  <2>2. CASE Started(r)
    BY <1>1, <1>2, <1>3, <2>2 DEF Started
  <2>. QED BY <2>1, <2>2
<1>9a. top <= Start[f] + Length[f]
  <2>1. CASE Covers(f, r)
    BY <1>4, <2>1 DEF Covers
  <2>2. CASE Started(r)
    BY <1>1, <1>4, <2>2 DEF Started
  <2>. QED BY <2>1, <2>2
<1>10. ASSUME NEW i \in Window, new[i] # Erased
       PROVE  bot <= r.base + i /\ r.base + i < top
  <2>0. i \in Nat
    BY <1>2 DEF Window
  <2>1. CASE r.base + i \in Piece
    BY <1>1, <1>2, <1>6, <1>9, <2>0, <2>1 DEF Piece
  <2>2. CASE r.base + i \notin Piece
    <3>1. r.buf[i] # Erased
      BY <1>10, <2>2
    <3>2. Covers(f, r)
      BY <3>1 DEF Started
    <3>3. r.low <= r.base + i /\ r.base + i < r.high
      BY <3>1, <3>2 DEF Covers
    <3>. QED BY <1>1, <1>2, <2>0, <3>3
  <2>. QED BY <2>1, <2>2
<1>11. Covers(f, Copied(r))
  BY <1>3, <1>4, <1>8, <1>9, <1>9a, <1>10 DEF Covers
<1>. QED BY <1>5, <1>8, <1>11

\* One step of flash_buffered_write, in a steady load.
LEMMA WriteWindowStep ==
    ASSUME TypeInv, SafeInv, Steady, WriteWindow, NEW f \in Regions, f = call.active
    PROVE  \E x \in BufferReady(Region(f), call.addr) :
             /\ x.bad = FALSE
             /\ x.r \in RegionType
             /\ x.r.base = Aligned(call.addr, BufSize)
             /\ x.r.buf # NoBuf
             /\ x.r.operation # "erase"
             /\ \/ Covers(f, Region(f)) /\ x.r = Region(f) /\ x.m = mem
                \/ /\ Started(x.r)
                   /\ WrittenOut(Region(f), x)
             /\ Covers(f, Copied(x.r))
             /\ Copied(x.r).base = x.r.base
             /\ Copied(x.r).operation = x.r.operation
             /\ Copied(x.r).buf = [i \in Window |-> IF x.r.base + i \in Piece THEN call.data ELSE x.r.buf[i]]
             /\ Copied(x.r).buf # NoBuf
             /\ Region(f)' = Copied(x.r)
             /\ \A g \in Regions \ {f} : Region(g)' = Region(g)
             /\ panic' = FALSE
             /\ mem' = x.m
             /\ want' = [a \in Mapped |-> IF a \in Piece THEN call.data ELSE want[a]]
             /\ fresh' = fresh \ Piece
             /\ call' = [call EXCEPT !.addr = @ + LocalLen, !.len = @ - LocalLen, !.ok = @ /\ x.ok]
             /\ UNCHANGED <<flash_mode, clean, completed>>
<1>1. /\ Region(f) \in RegionType
      /\ Region(f).buf # NoBuf
      /\ MarksOK(f, Region(f))
      /\ call.addr \in Cells(f)
      /\ call.len > 0
      /\ call.op = "write"
  BY RegionTyped DEF WriteWindow, TypeInv, TypeOK, CallOK, Region, SafeInv
<1>2. Region(f).operation # "erase"
  BY <1>1, NotErasing DEF SafeInv
<1>3. PICK x \in BufferReady(Region(f), call.addr) :
        /\ panic' = x.bad
        /\ mem' = x.m
        /\ ~x.bad =>
             /\ SetRegion(f, Copied(x.r))
             /\ want' = [a \in Mapped |-> IF a \in Piece THEN call.data ELSE want[a]]
             /\ fresh' = fresh \ Piece
             /\ call' = [call EXCEPT !.addr = @ + LocalLen, !.len = @ - LocalLen, !.ok = @ /\ x.ok]
  BY DEF WriteWindow, Piece, Copied
<1>4. /\ x.bad = FALSE
      /\ x.r \in RegionType
      /\ x.r.buf # NoBuf
      /\ x.r.base = Aligned(call.addr, BufSize)
      /\ x.r.operation = Region(f).operation \/ x.r.operation = "write"
      /\ \/ Covers(f, Region(f)) /\ x.r = Region(f) /\ x.m = mem
         \/ /\ Started(x.r)
            /\ WrittenOut(Region(f), x)
  BY <1>1, <1>2, BufferReadySteady
<1>5. /\ Copied(x.r) \in RegionType
      /\ Covers(f, Copied(x.r))
      /\ Copied(x.r).base = x.r.base
      /\ Copied(x.r).operation = x.r.operation
      /\ Copied(x.r).buf = [i \in Window |-> IF x.r.base + i \in Piece THEN call.data ELSE x.r.buf[i]]
      /\ Copied(x.r).buf # NoBuf
  BY <1>1, <1>4, CopiedCovers
<1>6. Region(f)' = Copied(x.r) /\ \A g \in Regions \ {f} : Region(g)' = Region(g)
  BY <1>3, <1>4, <1>5, RegionSet DEF TypeInv
<1>7. UNCHANGED <<flash_mode, clean, completed>>
  BY DEF WriteWindow
<1> WITNESS x \in BufferReady(Region(f), call.addr)
<1>. QED BY <1>2, <1>3, <1>4, <1>5, <1>6, <1>7

LEMMA WriteWindowSafe == ASSUME TypeInv, SafeInv, Steady, WriteWindow PROVE SafeInv'
<1>1. PICK f \in Regions : f = call.active
  BY DEF WriteWindow, TypeInv, CallOK
<1>2. call \in CallType /\ call.op = "write" /\ clean /\ flash_mode
  BY DEF WriteWindow, TypeInv, TypeOK, CallType, SafeInv
<1>3. PICK x \in BufferReady(Region(f), call.addr) :
        /\ x.r.operation # "erase"
        /\ Covers(f, Copied(x.r))
        /\ Copied(x.r).operation = x.r.operation
        /\ Region(f)' = Copied(x.r)
        /\ \A g \in Regions \ {f} : Region(g)' = Region(g)
        /\ panic' = FALSE
        /\ call' = [call EXCEPT !.addr = @ + LocalLen, !.len = @ - LocalLen, !.ok = @ /\ x.ok]
        /\ UNCHANGED <<flash_mode, clean>>
  BY <1>1, WriteWindowStep
<1>4. call'.op = "write"
  BY <1>2, <1>3 DEF CallType
<1>5. \A g \in Regions : Region(g)'.operation # "erase"
  BY <1>2, <1>3, NotErasing
<1>6. \A g \in Regions : MarksOK(g, Region(g)')
  BY <1>3 DEF SafeInv, MarksOK
<1>. QED BY <1>2, <1>3, <1>4, <1>5, <1>6 DEF SafeInv, EraseAlone, Swept

LEMMA WriteEndSafe == ASSUME TypeInv, SafeInv, WriteEnd PROVE SafeInv'
<1>1. UNCHANGED <<bufVars, flash_mode, panic>> /\ call.op = "write" /\ call \in CallType
  BY DEF WriteEnd, TypeInv, TypeOK, CallType
<1>2. CASE Return(call.ok)
  BY <1>1, <1>2, ReturnSafe DEF CallType
<1>3. CASE call' = [call EXCEPT !.inner = FALSE] /\ UNCHANGED <<clean, fresh>>
  <2>1. call'.op = "write"
    BY <1>1, <1>3 DEF CallType
  <2>. QED BY <1>1, <1>3, <2>1, CallMoves
<1>. QED BY <1>2, <1>3 DEF WriteEnd

\* Outside flash mode every region has been left already.
LEMMA CompleteBeginSafe == ASSUME TypeInv, SafeInv, CompleteBegin PROVE SafeInv'
<1>1. /\ \A g \in Regions : Region(g)' = Region(g)
      /\ UNCHANGED <<flash_mode, panic>>
      /\ call.op = "none"
  BY RegionsSame DEF CompleteBegin, Idle
<1>2. CASE flash_mode
  <2>1. call' = [NoCall EXCEPT !.op = "complete"] /\ UNCHANGED clean
    BY <1>2 DEF CompleteBegin
  <2>2. call'.op = "complete" /\ call'.active = 1
    BY <2>1 DEF NoCall
  <2>3. \A g \in Regions : Region(g).operation = "erase" => ~Pending(Region(g)) /\ ~clean
    BY <1>1 DEF SafeInv, EraseAlone
  <2>4. \A g \in Regions : ~(g < 1)
    BY RegionNumbers
  <2>. QED BY <1>1, <1>2, <2>1, <2>2, <2>3, <2>4 DEF SafeInv, EraseAlone, Swept
<1>3. CASE ~flash_mode
  <2>1. call'.op = "none" /\ clean' = TRUE
    BY <1>3 DEF CompleteBegin, SessionOver, NoCall
  <2>2. \A g \in Regions : Left(Region(g))
    BY <1>3 DEF SafeInv
  <2>3. \A g \in Regions : Region(g).operation # "erase"
    BY <2>2 DEF Left
  <2>. QED BY <1>1, <1>3, <2>1, <2>2, <2>3 DEF SafeInv, EraseAlone, Swept
<1>. QED BY <1>2, <1>3

LEMMA CompleteRegionSafe == ASSUME TypeInv, SafeInv, Steady, CompleteRegion PROVE SafeInv'
<1>1. PICK f \in Regions : f = call.active
  BY DEF CompleteRegion
<1>2. call \in CallType /\ call.op = "complete" /\ flash_mode /\ UNCHANGED <<flash_mode, clean>>
  BY DEF CompleteRegion, TypeInv, TypeOK, CallType, SafeInv, history
<1>3. PICK x \in FlushDone(Region(f)) :
        /\ SetRegion(f, x.r)
        /\ panic' = x.bad
        /\ call' = [call EXCEPT !.active = @ + 1, !.ok = @ /\ x.ok]
  BY <1>1 DEF CompleteRegion
<1>4. /\ x.bad = FALSE
      /\ \A g \in Regions : MarksOK(g, Region(g)')
      /\ Left(Region(f)')
      /\ \A g \in Regions \ {f} : Region(g)' = Region(g)
  BY <1>3, FlushedRegion
<1>5. call'.op = "complete" /\ call'.active = f + 1
  BY <1>1, <1>2, <1>3 DEF CallType
<1>6. \A g \in Regions : g < f + 1 => g = f \/ g < f
  BY RegionNumbers
<1>7. \A g \in Regions : g < f + 1 => Left(Region(g)')
  BY <1>1, <1>2, <1>4, <1>6 DEF SafeInv, Swept
<1>8. EraseAlone'
  BY <1>2, <1>4 DEF EraseAlone, SafeInv, Left
<1>9. f + 1 >= 1
  BY RegionNumbers
<1>. QED BY <1>2, <1>3, <1>4, <1>5, <1>7, <1>8, <1>9 DEF SafeInv, Swept

LEMMA CompleteEndSafe == ASSUME TypeInv, SafeInv, CompleteEnd PROVE SafeInv'
<1>1. /\ \A g \in Regions : Region(g)' = Region(g)
      /\ UNCHANGED panic
      /\ call.op = "complete"
      /\ call.active \notin Regions
  BY RegionsSame DEF CompleteEnd
<1>2. call'.op = "none" /\ clean' = TRUE
  BY DEF CompleteEnd, SessionOver, NoCall
<1>3. \A g \in Regions : g < call.active
  <2>1. call.active \in Nat /\ call.active >= 1 /\ Flashes \in Nat
    BY <1>1, SizesAssumption, Bounds DEF TypeInv, TypeOK, SafeInv, Swept
  <2>. QED BY <1>1, <2>1 DEF Regions
<1>4. \A g \in Regions : Left(Region(g))
  BY <1>1, <1>3 DEF SafeInv, Swept
<1>5. \A g \in Regions : Region(g).operation # "erase"
  BY <1>4 DEF Left
<1>. QED BY <1>1, <1>2, <1>4, <1>5 DEF SafeInv, EraseAlone, Swept

LEMMA StepSafe == ASSUME TypeInv, SafeInv, Steady, Step PROVE SafeInv'
BY RefuseSafe, EraseBlockSafe, EraseSwitchSafe, EraseEndSafe, SettleSafe, SettleEndSafe, WriteSwitchSafe,
   WriteRegionSafe, WriteWindowSafe, WriteEndSafe, CompleteRegionSafe, CompleteEndSafe
DEF Step

\* Every step of a steady load keeps it.
LEMMA NextSafe == ASSUME TypeInv, SafeInv, Steady, Next PROVE SafeInv'
<1>1. CASE ClientErase
  <2>1. PICK q \in Ranges : EraseBegin(q[1], q[2])
    BY <1>1 DEF ClientErase
  <2> DEFINE next == [NoCall EXCEPT !.op = IF FlashForAddr(q[1]) = 0 THEN "refuse" ELSE "erase",
                                    !.addr = q[1], !.len = q[2], !.active = FlashForAddr(q[1])]
  <2>2. Enter(next) /\ next.op \in {"refuse", "erase"}
    BY <2>1 DEF EraseBegin, NoCall
  <2> HIDE DEF next
  <2>. QED BY <1>1, <2>2, EnterSafe DEF ClientErase
<1>2. CASE ClientWrite
  <2>1. PICK q \in Ranges, d \in Data : WriteBegin(q[1], q[2], d)
    BY <1>2 DEF ClientWrite
  <2> DEFINE next == [NoCall EXCEPT !.op = "settle", !.addr = q[1], !.len = q[2], !.data = d]
  <2>2. Enter(next) /\ next.op = "settle"
    BY <2>1 DEF WriteBegin, NoCall
  <2> HIDE DEF next
  <2>. QED BY <1>2, <2>2, EnterSafe DEF ClientWrite
<1>. QED BY <1>1, <1>2, CompleteBeginSafe, StepSafe DEF Next

-----------------------------------------------------------------------------
(* Every step of a steady load without silent failures keeps DataInv *)

\* Cells of another region are other cells.
LEMMA OtherCells ==
    ASSUME NEW f \in Regions, NEW g \in Regions, f # g, NEW a \in Cells(f)
    PROVE  a \notin Cells(g) /\ a \in Mapped
BY CellsApart DEF Mapped

\* A flush reads the units of its window, and their cells belong to the region.
LEMMA UnitOf ==
    ASSUME NEW f \in Regions, NEW r \in RegionType, Pending(r), MarksOK(f, r), NEW a \in Mapped
    PROVE  /\ Aligned(a, WriteSize) \in Units(r) => a - r.base \in Window /\ a \in Cells(f)
           /\ Buffered(r, a) => Aligned(a, WriteSize) \in Units(r)
<1>1. Covers(f, r)
  BY MarksPending DEF MarksOK, Pending
<1>2. /\ r.base \in Nat /\ r.low \in Nat /\ r.high \in Nat
      /\ BufSize \in Nat \ {0} /\ WriteSize \in Nat \ {0}
      /\ Start[f] \in Nat /\ Length[f] \in Nat
  BY SizesAssumption, Bounds DEF RegionType
<1>3. a \in Nat
  BY MappedAddrs, SizesAssumption DEF Addrs
<1>4. PICK u \in Nat : /\ u = Aligned(a, WriteSize)
                       /\ u <= a
                       /\ a < u + WriteSize
                       /\ u % WriteSize = 0
  BY <1>2, <1>3, AlignedBelow
<1>5. ASSUME u \in Units(r) PROVE a - r.base \in Window /\ a \in Cells(f)
  <2>1. r.base <= u /\ u + WriteSize <= r.base + BufSize
    BY <1>5, UnitsInside
  <2>2. r.base <= a /\ a < r.base + BufSize
    BY <1>2, <1>3, <1>4, <2>1
  <2>3. r.base \in Cells(f) /\ r.base % BufSize = 0
    BY <1>1, <1>2 DEF Covers, Cells
  <2>4. Aligned(r.base, BufSize) = r.base
    BY <1>2, <2>3 DEF Aligned
  <2>5. a \in WindowOf(r.base)
    BY <1>2, <1>3, <2>2, <2>4 DEF WindowOf
  <2>6. a \in Cells(f)
    BY <2>3, <2>5, WindowInside
  <2>. QED BY <1>2, <1>3, <2>2, <2>6 DEF Window
<1>6. ASSUME Buffered(r, a) PROVE u \in Units(r)
  <2>1. a - r.base \in Window /\ r.buf[a - r.base] # Erased
    BY <1>6 DEF Buffered
  <2>2. r.low <= r.base + (a - r.base) /\ r.base + (a - r.base) < r.high
    BY <1>1, <2>1 DEF Covers
  <2>3. r.low <= a /\ a < r.high
    BY <1>2, <1>3, <2>2
  <2>4. PICK v \in Nat : v = Aligned(r.low, WriteSize) /\ v <= r.low /\ v % WriteSize = 0
    BY <1>2, AlignedBelow
  <2>5. v <= a
    BY <1>2, <1>3, <2>3, <2>4
  <2>6. v <= u
    BY <1>2, <1>3, <1>4, <2>4, <2>5, AlignedAbove
  <2>7. u \in v .. r.high - 1
    BY <1>2, <1>3, <1>4, <2>3, <2>6
  <2>. QED BY <1>4, <2>4, <2>7 DEF Units, AlignedLow
<1>. QED BY <1>4, <1>5, <1>6

\* CellsTrue for one region.
RegionTrue(f) ==
    \A a \in Cells(f) :
      IF Buffered(Region(f), a) THEN mem[a] = Erased /\ want[a] = Byte(Region(f), a) ELSE mem[a] = want[a]

\* A flush of every unit brings the cells to what was asked for, and changes no others.
LEMMA FlushedCells ==
    ASSUME TypeInv, NEW f \in Regions, MarksOK(f, Region(f)), RegionTrue(f), NEW m,
           IF Pending(Region(f)) THEN m = Written(mem, Region(f), Units(Region(f))) ELSE m = mem
    PROVE  /\ \A a \in Cells(f) : m[a] = want[a]
           /\ \A a \in Mapped : a \notin Cells(f) => m[a] = mem[a]
<1>1. PICK r \in RegionType : r = Region(f)
  BY RegionTyped DEF TypeInv
<1>2. CASE ~Pending(r)
  BY <1>1, <1>2 DEF RegionTrue, Buffered
<1>3. CASE Pending(r)
  <2>1. \A a \in Mapped : m[a] = IF Aligned(a, WriteSize) \in Units(r) THEN Programmed(mem[a], Byte(r, a)) ELSE mem[a]
    BY <1>1, <1>3 DEF Written
  <2>2. ASSUME NEW a \in Cells(f) PROVE m[a] = want[a]
    <3>0. a \in Mapped
      BY DEF Mapped
    <3>1. CASE Buffered(r, a)
      <4>1. mem[a] = Erased /\ want[a] = Byte(r, a)
        BY <1>1, <3>1 DEF RegionTrue
      <4>2. m[a] = Programmed(mem[a], Byte(r, a))
        BY <1>1, <1>3, <2>1, <3>0, <3>1, UnitOf
      <4>. QED BY <4>1, <4>2 DEF Programmed
    <3>2. CASE ~Buffered(r, a)
      <4>1. mem[a] = want[a]
        BY <1>1, <3>2 DEF RegionTrue
      <4>2. CASE Aligned(a, WriteSize) \in Units(r)
        <5>1. a - r.base \in Window
          BY <1>1, <1>3, <3>0, <4>2, UnitOf
        <5>2. Byte(r, a) = Erased
          BY <1>3, <3>2, <5>1 DEF Byte, Buffered
        <5>. QED BY <2>1, <3>0, <4>1, <4>2, <5>2 DEF Programmed
      <4>. QED BY <2>1, <3>0, <4>1, <4>2
    <3>. QED BY <3>1, <3>2
  <2>3. ASSUME NEW a \in Mapped, a \notin Cells(f) PROVE m[a] = mem[a]
    BY <1>1, <1>3, <2>1, <2>3, UnitOf
  <2>. QED BY <2>2, <2>3
<1>. QED BY <1>1, <1>2, <1>3

\* A region flushed and left with success.
LEMMA FlushedData ==
    ASSUME TypeInv, SafeInv, Steady, "silent" \notin Faults[client], CellsTrue, FreshErased,
           NEW f \in Regions, NEW x \in FlushDone(Region(f)), SetRegion(f, x.r), mem' = x.m, x.ok = TRUE,
           UNCHANGED <<want, fresh>>
    PROVE  CellsTrue' /\ FreshErased'
<1>1. Region(f) \in RegionType /\ MarksOK(f, Region(f)) /\ (Pending(Region(f)) => Region(f).operation # "erase")
  BY RegionTyped DEF TypeInv, SafeInv, EraseAlone
<1>2. /\ x.r \in RegionType
      /\ Pending(Region(f)) => \E lost \in SUBSET Units(Region(f)) :
                                 /\ x.m = Written(mem, Region(f), Units(Region(f)) \ lost)
                                 /\ x.ok /\ "silent" \notin Faults[client] => lost = {}
      /\ ~Pending(Region(f)) => x.m = mem
  BY <1>1, FlushDoneSteady DEF TypeInv, TypeOK, Steady
<1>3. IF Pending(Region(f)) THEN mem' = Written(mem, Region(f), Units(Region(f))) ELSE mem' = mem
  <2>1. Units(Region(f)) \ {} = Units(Region(f))
    OBVIOUS
  <2>. QED BY <1>2, <2>1
<1>4. RegionTrue(f)
  BY DEF CellsTrue, RegionTrue
<1>5. /\ \A a \in Cells(f) : mem'[a] = want[a]
      /\ \A a \in Mapped : a \notin Cells(f) => mem'[a] = mem[a]
  BY <1>1, <1>3, <1>4, FlushedCells
<1>6. Left(Region(f)') /\ \A g \in Regions \ {f} : Region(g)' = Region(g)
  BY FlushedRegion
<1>7. \A a : ~Buffered(Region(f)', a)
  BY <1>6 DEF Left, Buffered
<1>8. ASSUME NEW g \in Regions, NEW a \in Cells(g)
      PROVE  IF Buffered(Region(g)', a) THEN mem'[a] = Erased /\ want'[a] = Byte(Region(g)', a)
                                        ELSE mem'[a] = want'[a]
  <2>1. CASE g = f
    BY <1>5, <1>7, <2>1
  <2>2. CASE g # f
    <3>1. mem'[a] = mem[a] /\ Region(g)' = Region(g)
      BY <1>5, <1>6, <2>2, OtherCells
    <3>. QED BY <3>1 DEF CellsTrue
  <2>. QED BY <2>1, <2>2
<1>9. \A g \in Regions : \A a \in Cells(g) \cap fresh' : want'[a] = Erased /\ ~Buffered(Region(g)', a)
  BY <1>6, <1>7 DEF FreshErased
<1>. QED BY <1>8, <1>9 DEF CellsTrue, FreshErased

\* A call that failed: nothing is claimed until the session is over.
LEMMA FailedData ==
    ASSUME clean' = FALSE, call'.op = "none", completed' = FALSE
    PROVE  DataInv'
BY DEF DataInv, NothingFailed, ToWrite, SwitchedOk

\* No data is in a buffer, before and after.
LEMMA QuietData ==
    ASSUME NothingPending, NothingPending', CellsTrue, FreshErased,
           UNCHANGED <<mem, want>>, fresh' \subseteq fresh
    PROVE  CellsTrue' /\ FreshErased'
<1>1. \A g \in Regions : \A a : ~Buffered(Region(g), a) /\ ~Buffered(Region(g)', a)
  BY DEF NothingPending, Buffered
<1>2. \A g \in Regions : \A a \in Cells(g) : mem'[a] = want'[a]
  BY <1>1 DEF CellsTrue
<1>3. \A g \in Regions : \A a \in Cells(g) \cap fresh' : want'[a] = Erased
  BY DEF FreshErased
<1>. QED BY <1>1, <1>2, <1>3 DEF CellsTrue, FreshErased

\* The buffers and the flash stay as they are.
LEMMA SameData ==
    ASSUME \A g \in Regions : Region(g)' = Region(g), CellsTrue, FreshErased,
           UNCHANGED <<mem, want>>, fresh' \subseteq fresh
    PROVE  CellsTrue' /\ FreshErased'
BY DEF CellsTrue, FreshErased

LEMMA InitData == ASSUME Init PROVE DataInv
<1>1. \A f \in Regions : \A a : ~Buffered(Region(f), a)
  BY DEF Init, Region, Buffered, Pending
<1>2. CellsTrue /\ FreshErased
  BY <1>1 DEF CellsTrue, FreshErased, Init
<1>. QED BY <1>2 DEF DataInv, ToWrite, SwitchedOk, Init, NoCall

\* A call that returns without a region or the flash touched.
LEMMA ReturnData ==
    ASSUME DataInv, NEW ok \in BOOLEAN, Return(ok), ok => call.ok, call.op # "none",
           UNCHANGED <<bufVars, mem, want, completed>>
    PROVE  DataInv'
<1>1. /\ call'.op = "none"
      /\ clean' = (clean /\ ok)
      /\ fresh' \subseteq fresh
  BY DEF Return, NoCall
<1>2. completed' = completed /\ ~completed
  BY DEF DataInv
<1>3. ASSUME NothingFailed' PROVE CellsTrue' /\ FreshErased'
  <2>1. NothingFailed
    BY <1>1, <1>3 DEF NothingFailed
  <2>. QED BY <1>1, <2>1, RegionsSame, SameData DEF DataInv
<1>. QED BY <1>1, <1>2, <1>3 DEF DataInv, ToWrite, SwitchedOk

\* A call that begins.
LEMMA EnterData ==
    ASSUME DataInv, clean, NEW next, Enter(next), next.op \in {"refuse", "erase", "settle"},
           next.op = "settle" => /\ Mapped \cap (next.addr .. next.addr + next.len - 1) \subseteq fresh
                                 /\ next.data \in Data
    PROVE  DataInv'
<1>1. /\ call.op = "none"
      /\ completed' = FALSE
      /\ \A g \in Regions : Region(g)' = Region(g)
      /\ UNCHANGED <<mem, want>>
  BY RegionsSame DEF Enter, Idle
<1>2. CASE call' = next /\ UNCHANGED <<clean, fresh>>
  <2>1. NothingFailed
    BY <1>1 DEF NothingFailed
  <2>2. CellsTrue' /\ FreshErased'
    BY <1>1, <1>2, <2>1, SameData DEF DataInv
  <2>. QED BY <1>1, <1>2, <2>2 DEF DataInv, ToWrite, SwitchedOk
<1>3. CASE Return(FALSE)
  <2>1. clean' = FALSE /\ call'.op = "none"
    BY <1>3 DEF Return, NoCall
  <2>. QED BY <1>1, <2>1, FailedData
<1>. QED BY <1>2, <1>3 DEF Enter

LEMMA RefuseData == ASSUME DataInv, Refuse PROVE DataInv'
<1>1. Return(FALSE) /\ UNCHANGED <<bufVars, mem, want, completed>> /\ call.op # "none"
  BY DEF Refuse
<1>. QED BY <1>1, ReturnData

\* A block erased, and wanted erased; nothing is in a buffer.
LEMMA EraseBlockData == ASSUME TypeInv, SafeInv, SafeInv', DataInv, EraseBlock PROVE DataInv'
<1>1. call \in CallType /\ call.op = "erase" /\ UNCHANGED completed /\ ~completed
  BY DEF EraseBlock, TypeInv, TypeOK, CallType, DataInv
<1>2. PICK p \in Prepare(Region(call.active), "erase") :
        /\ p.ok => \E erased \in Result("erase"), block \in SUBSET Int :
                     /\ mem' = IF erased THEN [a \in Mapped |-> IF a \in block THEN Erased ELSE mem[a]] ELSE mem
                     /\ want' = [a \in Mapped |-> IF a \in block THEN Erased ELSE want[a]]
                     /\ call'.op = "erase"
                     /\ call'.ok = (call.ok /\ erased)
                     /\ fresh' = fresh \cup block
                     /\ UNCHANGED clean
        /\ ~p.ok => Return(FALSE)
  <2>1. (Block(call.active, call.addr) \cap Mapped) \in SUBSET Int
    <3>1. Mapped \subseteq Int
      BY MappedAddrs, SizesAssumption DEF Addrs
    <3>. QED BY <3>1
  <2>2. PICK p \in Prepare(Region(call.active), "erase") :
          /\ p.ok => \E erased \in Result("erase") :
               /\ mem' = IF erased THEN [a \in Mapped |-> IF a \in Block(call.active, call.addr) \cap Mapped
                                                        THEN Erased ELSE mem[a]]
                                   ELSE mem
               /\ want' = [a \in Mapped |-> IF a \in Block(call.active, call.addr) \cap Mapped
                                             THEN Erased ELSE want[a]]
               /\ call'.op = "erase"
               /\ call'.ok = (call.ok /\ erased)
               /\ fresh' = fresh \cup (Block(call.active, call.addr) \cap Mapped)
               /\ UNCHANGED clean
          /\ ~p.ok => Return(FALSE)
    BY <1>1 DEF EraseBlock, CallType
  <2>. QED BY <2>1, <2>2
<1>3. CASE p.ok
  <2>1. PICK erased \in Result("erase"), block \in SUBSET Int :
          /\ mem' = IF erased THEN [a \in Mapped |-> IF a \in block THEN Erased ELSE mem[a]] ELSE mem
          /\ want' = [a \in Mapped |-> IF a \in block THEN Erased ELSE want[a]]
          /\ call'.op = "erase"
          /\ call'.ok = (call.ok /\ erased)
          /\ fresh' = fresh \cup block
          /\ UNCHANGED clean
    BY <1>2, <1>3
  <2>2. NothingPending /\ NothingPending'
    BY <1>1, <2>1 DEF SafeInv
  <2>3. \A g \in Regions : \A a : ~Buffered(Region(g), a) /\ ~Buffered(Region(g)', a)
    BY <2>2 DEF NothingPending, Buffered
  <2>4. ASSUME NothingFailed' PROVE CellsTrue' /\ FreshErased'
    <3>1. call.ok /\ erased /\ NothingFailed
      BY <1>1, <2>1, <2>4 DEF NothingFailed
    <3>2. CellsTrue /\ FreshErased
      BY <3>1 DEF DataInv
    <3>3. ASSUME NEW g \in Regions, NEW a \in Cells(g)
          PROVE  mem'[a] = want'[a] /\ (a \in fresh' => want'[a] = Erased)
      <4>1. a \in Mapped /\ mem[a] = want[a] /\ (a \in fresh => want[a] = Erased)
        BY <2>3, <3>2 DEF Mapped, CellsTrue, FreshErased
      <4>. QED BY <2>1, <3>1, <4>1
    <3>. QED BY <2>3, <3>3 DEF CellsTrue, FreshErased
  <2>. QED BY <1>1, <2>1, <2>4 DEF DataInv, ToWrite, SwitchedOk
<1>4. CASE ~p.ok
  <2>1. clean' = FALSE /\ call'.op = "none"
    BY <1>2, <1>4 DEF Return, NoCall
  <2>. QED BY <1>1, <2>1, FailedData DEF DataInv, TypeInv, TypeOK
<1>. QED BY <1>3, <1>4

LEMMA EraseSwitchData == ASSUME TypeInv, SafeInv, SafeInv', DataInv, EraseSwitch PROVE DataInv'
<1>1. call \in CallType /\ call.op = "erase" /\ UNCHANGED <<mem, want, completed>> /\ ~completed /\ call.ok
  BY DEF EraseSwitch, TypeInv, TypeOK, CallType, DataInv
<1>2. CASE FlashForAddr(call.addr) = 0
  BY <1>1, <1>2, ReturnData DEF EraseSwitch
<1>3. CASE FlashForAddr(call.addr) # 0
  <2>1. call'.op = "erase" /\ UNCHANGED <<clean, fresh>>
    BY <1>1, <1>3 DEF EraseSwitch, CallType
  <2>2. NothingPending /\ NothingPending'
    BY <1>1, <2>1 DEF SafeInv
  <2>3. ASSUME NothingFailed' PROVE CellsTrue' /\ FreshErased'
    <3>1. CellsTrue /\ FreshErased
      BY <1>1, <2>1, <2>3 DEF NothingFailed, DataInv
    <3>. QED BY <1>1, <2>1, <2>2, <3>1, QuietData
  <2>. QED BY <1>1, <2>1, <2>3 DEF DataInv, ToWrite, SwitchedOk
<1>. QED BY <1>2, <1>3

LEMMA EraseEndData == ASSUME TypeInv, SafeInv, DataInv, EraseEnd PROVE DataInv'
<1>1. PICK f \in Regions : f = call.active
  BY DEF EraseEnd, TypeInv, CallOK
<1>2. PICK d \in Done(Region(f)) : SetRegion(f, d.r) /\ Return(call.ok /\ d.ok)
  BY <1>1 DEF EraseEnd
<1>3. call.op = "erase" /\ UNCHANGED <<mem, want, completed>> /\ ~completed
  BY DEF EraseEnd, DataInv
<1>4. NothingPending /\ NothingPending'
  BY <1>1, <1>2, <1>3, ErasedDone DEF SafeInv, NothingPending
<1>5. call'.op = "none" /\ clean' = (clean /\ call.ok /\ d.ok) /\ fresh' \subseteq fresh
  BY <1>2 DEF Return, NoCall
<1>6. ASSUME NothingFailed' PROVE CellsTrue' /\ FreshErased'
  <2>1. CellsTrue /\ FreshErased
    BY <1>5, <1>6 DEF NothingFailed, DataInv
  <2>. QED BY <1>3, <1>4, <1>5, <2>1, QuietData
<1>. QED BY <1>3, <1>5, <1>6 DEF DataInv, ToWrite, SwitchedOk

\* A region flushed: if that succeeded, what was true of the cells still is.
LEMMA FlushStepData ==
    ASSUME TypeInv, SafeInv, Steady, "silent" \notin Faults[client], DataInv,
           NEW f \in Regions, NEW x \in FlushDone(Region(f)), SetRegion(f, x.r), mem' = x.m,
           call.op # "none", call'.op # "none", call'.ok => call.ok /\ x.ok, x.ok \in BOOLEAN,
           UNCHANGED <<want, fresh, clean>>, NothingFailed'
    PROVE  CellsTrue' /\ FreshErased'
<1>1. CellsTrue /\ FreshErased /\ x.ok = TRUE
  BY DEF NothingFailed, DataInv
<1>. QED BY <1>1, FlushedData

LEMMA SettleData ==
    ASSUME TypeInv, SafeInv, Steady, "silent" \notin Faults[client], DataInv, Settle
    PROVE  DataInv'
<1>1. PICK f \in Regions : f = call.active
  BY DEF Settle
<1>2. call \in CallType /\ call.op = "settle" /\ UNCHANGED <<want, fresh, clean, completed>> /\ ~completed
  BY DEF Settle, history, TypeInv, TypeOK, CallType, DataInv
<1>3. CASE call.addr \in Cells(f) \/ buf[f] = NoBuf
  <2>1. call' = [call EXCEPT !.active = @ + 1] /\ UNCHANGED <<bufVars, mem>>
    BY <1>1, <1>3 DEF Settle
  <2>2. call'.op = "settle" /\ call'.ok = call.ok /\ call'.addr = call.addr /\ call'.len = call.len /\ call'.data = call.data
    BY <1>2, <2>1 DEF CallType
  <2>3. ASSUME NothingFailed' PROVE CellsTrue' /\ FreshErased'
    <3>1. CellsTrue /\ FreshErased
      BY <1>2, <2>2, <2>3 DEF NothingFailed, DataInv
    <3>. QED BY <1>2, <2>1, <3>1, RegionsSame, SameData
  <2>. QED BY <1>2, <2>2, <2>3 DEF DataInv, ToWrite, SwitchedOk
<1>4. CASE ~(call.addr \in Cells(f) \/ buf[f] = NoBuf)
  <2>1. PICK x \in FlushDone(Region(f)) :
          /\ SetRegion(f, x.r)
          /\ mem' = x.m
          /\ call' = [call EXCEPT !.active = @ + 1, !.ok = @ /\ x.ok]
    BY <1>1, <1>4 DEF Settle
  <2>2. /\ call'.op = "settle" /\ call'.ok = (call.ok /\ x.ok)
        /\ call'.addr = call.addr /\ call'.len = call.len /\ call'.data = call.data
    BY <1>2, <2>1 DEF CallType
  <2>3. x.ok \in BOOLEAN
    BY <2>1, RegionTyped, FlushDoneType DEF TypeInv, TypeOK
  <2>4. ASSUME NothingFailed' PROVE CellsTrue' /\ FreshErased'
    BY <1>2, <2>1, <2>2, <2>3, <2>4, FlushStepData
  <2>. QED BY <1>2, <2>2, <2>4 DEF DataInv, ToWrite, SwitchedOk
<1>. QED BY <1>3, <1>4

LEMMA SettleEndData == ASSUME TypeInv, DataInv, SettleEnd PROVE DataInv'
<1>1. UNCHANGED <<bufVars, mem, want, completed>> /\ call.op = "settle" /\ ~completed /\ call \in CallType
  BY DEF SettleEnd, TypeInv, TypeOK, CallType, DataInv
<1>2. CASE Return(FALSE)
  BY <1>1, <1>2, ReturnData
<1>3. CASE /\ call.ok
           /\ call' = [call EXCEPT !.op = "write", !.active = FlashForAddr(call.addr)]
           /\ UNCHANGED <<clean, fresh>>
  <2>1. /\ call'.op = "write" /\ call'.ok
        /\ call'.addr = call.addr /\ call'.len = call.len /\ call'.data = call.data
    BY <1>1, <1>3 DEF CallType
  <2>2. ASSUME NothingFailed' PROVE CellsTrue' /\ FreshErased'
    <3>1. CellsTrue /\ FreshErased
      BY <1>1, <1>3, <2>2 DEF NothingFailed, DataInv
    <3>. QED BY <1>1, <1>3, <3>1, RegionsSame, SameData
  <2>. QED BY <1>1, <1>3, <2>1, <2>2 DEF DataInv, ToWrite, SwitchedOk
<1>. QED BY <1>1, <1>2, <1>3 DEF SettleEnd

LEMMA WriteSwitchData ==
    ASSUME TypeInv, SafeInv, Steady, "silent" \notin Faults[client], DataInv, WriteSwitch
    PROVE  DataInv'
<1>1. PICK f \in Regions : f = call.active
  BY DEF WriteSwitch, TypeInv, CallOK
<1>2. call \in CallType /\ call.op = "write" /\ UNCHANGED <<want, completed>> /\ ~completed /\ call.ok
  BY DEF WriteSwitch, TypeInv, TypeOK, CallType, DataInv, SwitchedOk
<1>3. CASE FlashForAddr(call.addr) = 0
  BY <1>2, <1>3, ReturnData DEF WriteSwitch
<1>4. CASE FlashForAddr(call.addr) # 0
  <2>1. PICK x \in FlushDone(Region(f)) :
          /\ SetRegion(f, x.r)
          /\ mem' = x.m
          /\ call' = [call EXCEPT !.active = FlashForAddr(call.addr), !.ok = x.ok]
          /\ UNCHANGED <<clean, fresh>>
    BY <1>1, <1>4 DEF WriteSwitch
  <2>2. /\ call'.op = "write" /\ call'.ok = x.ok /\ call'.active = FlashForAddr(call.addr)
        /\ call'.addr = call.addr /\ call'.len = call.len /\ call'.data = call.data
    BY <1>2, <2>1 DEF CallType
  <2>3. x.ok \in BOOLEAN
    BY <2>1, RegionTyped, FlushDoneType DEF TypeInv, TypeOK
  <2>4. ASSUME NothingFailed' PROVE CellsTrue' /\ FreshErased'
    BY <1>2, <2>1, <2>2, <2>3, <2>4, FlushStepData
  <2>5. FlashForAddr(call'.addr) = FlashForAddr(call.addr)
    BY <2>2
  <2>. QED BY <1>2, <2>1, <2>2, <2>4, <2>5 DEF DataInv, ToWrite, SwitchedOk, FlashForAddr
<1>. QED BY <1>3, <1>4

\* A buffer that was just allocated has nothing to write.
LEMMA WriteRegionData == ASSUME TypeInv, SafeInv, DataInv, WriteRegion PROVE DataInv'
<1>0. PICK f \in Regions : f = call.active
  BY DEF WriteRegion, TypeInv, CallOK
<1> DEFINE new == [Emptied(Region(f)) EXCEPT !.buf = [i \in Window |-> Erased]]
<1>1. /\ call \in CallType /\ Region(f) \in RegionType /\ call.op = "write"
      /\ UNCHANGED <<mem, want, completed>> /\ ~completed
  BY RegionTyped DEF WriteRegion, TypeInv, TypeOK, CallType, DataInv
<1>2. PICK allocated \in BOOLEAN :
        /\ IF allocated /\ buf[f] = NoBuf THEN SetRegion(f, new) ELSE UNCHANGED bufVars
        /\ IF call.ok /\ allocated
           THEN call' = [call EXCEPT !.inner = TRUE] /\ UNCHANGED <<clean, fresh>>
           ELSE Return(FALSE)
  BY <1>0, ResultType DEF WriteRegion
<1>3. CASE ~(call.ok /\ allocated)
  <2>1. clean' = FALSE /\ call'.op = "none"
    BY <1>2, <1>3 DEF Return, NoCall
  <2>. QED BY <1>1, <2>1 DEF DataInv, NothingFailed, ToWrite, SwitchedOk
<1>4. CASE call.ok /\ allocated
  <2>1. /\ call'.op = "write" /\ call'.ok /\ call'.inner
        /\ call'.addr = call.addr /\ call'.len = call.len /\ call'.data = call.data
        /\ UNCHANGED <<clean, fresh>>
    BY <1>1, <1>2, <1>4 DEF CallType
  <2>2. ASSUME NEW g \in Regions
        PROVE  Region(g)' = Region(g) \/ (~Pending(Region(g)) /\ ~Pending(Region(g)'))
    <3>1. CASE buf[f] = NoBuf
      <4>1. new \in RegionType
        <5>1. [i \in Window |-> Erased] \in Windows
          BY DEF Windows
        <5>. QED BY <1>1, <5>1, EmptiedType DEF RegionType
      <4>2. ~Pending(new)
        BY <1>1 DEF Pending, Emptied, RegionType
      <4>3. Region(f)' = new /\ \A h \in Regions \ {f} : Region(h)' = Region(h)
        BY <1>2, <1>4, <3>1, <4>1, RegionSet DEF TypeInv
      <4>4. ~Pending(Region(f))
        BY <3>1 DEF Pending, Region
      <4>. QED BY <4>2, <4>3, <4>4
    <3>2. CASE buf[f] # NoBuf
      BY <1>2, <3>2, RegionsSame
    <3>. QED BY <3>1, <3>2
  <2>3. ASSUME NothingFailed' PROVE CellsTrue' /\ FreshErased'
    <3>1. CellsTrue /\ FreshErased
      BY <1>4, <2>1, <2>3 DEF NothingFailed, DataInv
    <3>2. \A g \in Regions : Region(g)' = Region(g) \/ \A a : ~Buffered(Region(g), a) /\ ~Buffered(Region(g)', a)
      BY <2>2 DEF Buffered
    <3>. QED BY <1>1, <2>1, <3>1, <3>2 DEF CellsTrue, FreshErased
  <2>. QED BY <1>1, <2>1, <2>3 DEF DataInv, ToWrite, SwitchedOk
<1>. QED BY <1>3, <1>4

\* A byte in a buffer that has started.
Holds(r, a) == a - r.base \in Window /\ r.buf[a - r.base] # Erased

\* The buffer is ready for the piece: a cell of the region is true of the flash and the
\* ready buffer, and what may still be written is not in it.
LEMMA ReadyCells ==
    ASSUME TypeInv, SafeInv, NEW f \in Regions, CellsTrue, FreshErased,
           "silent" \notin Faults[client], NEW x, x.ok = TRUE,
           \/ Covers(f, Region(f)) /\ x.r = Region(f) /\ x.m = mem /\ Region(f).buf # NoBuf
           \/ Started(x.r) /\ WrittenOut(Region(f), x)
    PROVE  /\ \A a \in Cells(f) : IF Holds(x.r, a) THEN x.m[a] = Erased /\ want[a] = x.r.buf[a - x.r.base]
                                                   ELSE x.m[a] = want[a]
           /\ \A a \in Cells(f) \cap fresh : want[a] = Erased /\ ~Holds(x.r, a)
           /\ \A a \in Mapped : a \notin Cells(f) => x.m[a] = mem[a]
<1>1. Region(f) \in RegionType /\ MarksOK(f, Region(f))
  BY RegionTyped DEF TypeInv, SafeInv
<1>2. CASE Covers(f, Region(f)) /\ x.r = Region(f) /\ x.m = mem /\ Region(f).buf # NoBuf
  <2>1. Pending(Region(f))
    BY <1>1, <1>2, MarksPending
  <2>2. \A a : Holds(x.r, a) <=> Buffered(Region(f), a)
    BY <1>2, <2>1 DEF Holds, Buffered
  <2>3. \A a : Holds(x.r, a) => Byte(Region(f), a) = x.r.buf[a - x.r.base]
    BY <1>2 DEF Holds, Byte
  <2>. QED BY <1>2, <2>2, <2>3 DEF CellsTrue, FreshErased
<1>3. CASE Started(x.r) /\ WrittenOut(Region(f), x)
  <2>1. \A a : ~Holds(x.r, a)
    BY <1>3 DEF Holds, Started
  <2>2. IF Pending(Region(f)) THEN x.m = Written(mem, Region(f), Units(Region(f))) ELSE x.m = mem
    <3>1. Units(Region(f)) \ {} = Units(Region(f))
      OBVIOUS
    <3>. QED BY <1>3, <3>1 DEF WrittenOut
  <2>3. RegionTrue(f)
    BY DEF CellsTrue, RegionTrue
  <2>4. /\ \A a \in Cells(f) : x.m[a] = want[a]
        /\ \A a \in Mapped : a \notin Cells(f) => x.m[a] = mem[a]
    BY <1>1, <2>2, <2>3, FlushedCells
  <2>. QED BY <2>1, <2>4 DEF FreshErased
<1>. QED BY <1>2, <1>3

\* The bytes of the piece are in the buffer; the other cells are as they were.
LEMMA WriteWindowData ==
    ASSUME TypeInv, SafeInv, Steady, "silent" \notin Faults[client], DataInv, WriteWindow
    PROVE  DataInv'
<1>1. PICK f \in Regions : f = call.active
  BY DEF WriteWindow, TypeInv, CallOK
<1>2. call \in CallType /\ call.op = "write" /\ call.inner /\ call.len > 0 /\ call.addr \in Cells(f) /\ ~completed
  BY <1>1 DEF WriteWindow, TypeInv, TypeOK, CallType, DataInv
<1>3. PICK x \in BufferReady(Region(f), call.addr) :
        /\ x.r \in RegionType
        /\ x.r.base = Aligned(call.addr, BufSize)
        /\ \/ Covers(f, Region(f)) /\ x.r = Region(f) /\ x.m = mem
           \/ /\ Started(x.r)
              /\ WrittenOut(Region(f), x)
        /\ Covers(f, Copied(x.r))
        /\ Copied(x.r).base = x.r.base
        /\ Copied(x.r).buf = [i \in Window |-> IF x.r.base + i \in Piece THEN call.data ELSE x.r.buf[i]]
        /\ Copied(x.r).buf # NoBuf
        /\ Region(f)' = Copied(x.r)
        /\ \A g \in Regions \ {f} : Region(g)' = Region(g)
        /\ mem' = x.m
        /\ want' = [a \in Mapped |-> IF a \in Piece THEN call.data ELSE want[a]]
        /\ fresh' = fresh \ Piece
        /\ call' = [call EXCEPT !.addr = @ + LocalLen, !.len = @ - LocalLen, !.ok = @ /\ x.ok]
        /\ UNCHANGED <<clean, completed>>
  BY <1>1, WriteWindowStep
<1>4. /\ LocalLen \in Nat \ {0}
      /\ LocalLen <= call.len
      /\ call.addr + LocalLen <= x.r.base + BufSize
      /\ Piece \subseteq Cells(f)
      /\ call.addr \in Nat /\ call.len \in Nat
  BY <1>1, <1>2, <1>3, LocalLenBounds, Bounds DEF Piece, CallType
<1>5. Piece \subseteq fresh /\ Cells(f) \subseteq Mapped /\ call.data \in Data
  <2>1. Cells(f) \subseteq Mapped
    BY DEF Mapped
  <2>2. Piece \subseteq call.addr .. call.addr + call.len - 1
    BY <1>4 DEF Piece
  <2>3. Mapped \cap (call.addr .. call.addr + call.len - 1) \subseteq fresh /\ call.data \in Data
    BY <1>2 DEF DataInv, ToWrite
  <2>. QED BY <1>4, <2>1, <2>2, <2>3
<1>6. /\ call'.op = "write" /\ call'.inner /\ call'.ok = (call.ok /\ x.ok)
      /\ call'.addr = call.addr + LocalLen /\ call'.len = call.len - LocalLen /\ call'.data = call.data
  BY <1>2, <1>3 DEF CallType
<1>7. ToWrite'
  <2>1. Mapped \cap (call.addr .. call.addr + call.len - 1) \subseteq fresh
    BY <1>2 DEF DataInv, ToWrite
  <2>2. ASSUME NEW a \in call'.addr .. call'.addr + call'.len - 1
        PROVE  a \in call.addr .. call.addr + call.len - 1 /\ a \notin Piece
    BY <1>4, <1>6, <2>2 DEF Piece
  <2>. QED BY <1>3, <1>5, <1>6, <2>1, <2>2 DEF ToWrite
<1>8. ASSUME NothingFailed' PROVE CellsTrue' /\ FreshErased'
  <2>1. x.ok /\ CellsTrue /\ FreshErased
    BY <1>2, <1>3, <1>6, <1>8 DEF NothingFailed, DataInv
  <2>2. x.ok = TRUE /\ Region(f).buf # NoBuf
    <3>1. x.ok \in BOOLEAN
      <4>1. Region(f) \in RegionType /\ call.addr \in Mapped
        BY <1>2, <1>5, RegionTyped DEF TypeInv
      <4>. QED BY <4>1, BufferReadyType
    <3>2. Region(f).buf # NoBuf
      BY <1>1, <1>2 DEF TypeInv, CallOK, Region, SafeInv
    <3>. QED BY <2>1, <3>1, <3>2
  <2>3. /\ \A a \in Cells(f) : IF Holds(x.r, a) THEN x.m[a] = Erased /\ want[a] = x.r.buf[a - x.r.base]
                                                ELSE x.m[a] = want[a]
        /\ \A a \in Cells(f) \cap fresh : want[a] = Erased /\ ~Holds(x.r, a)
        /\ \A a \in Mapped : a \notin Cells(f) => x.m[a] = mem[a]
    <3>1. \/ Covers(f, Region(f)) /\ x.r = Region(f) /\ x.m = mem /\ Region(f).buf # NoBuf
          \/ Started(x.r) /\ WrittenOut(Region(f), x)
      BY <1>3, <2>2
    <3>. QED BY <2>1, <2>2, <3>1, ReadyCells
  <2>4. Pending(Region(f)') /\ Region(f)'.base = x.r.base /\ x.r.base \in Nat
    <3>1. x.r.base \in Nat
      BY <1>3, Bounds DEF RegionType
    <3>2. Copied(x.r) \in RegionType
      <4>1. x.r.buf # NoBuf /\ (Covers(f, x.r) \/ Started(x.r))
        BY <1>3, <2>2, WindowIsBuffer DEF Started, Windows
      <4>. QED BY <1>1, <1>2, <1>3, <4>1, CopiedCovers
    <3>. QED BY <1>3, <3>1, <3>2, MarksPending
  <2>5. ASSUME NEW a \in Piece
        PROVE  a - x.r.base \in Window /\ Region(f)'.buf[a - x.r.base] = call.data
    <3>1. x.r.base <= call.addr /\ BufSize \in Nat \ {0}
      BY <1>3, <1>4, SizesAssumption, AlignedBelow
    <3>2. a - x.r.base \in Window /\ x.r.base + (a - x.r.base) = a
      BY <1>4, <2>4, <3>1 DEF Piece, Window
    <3>. QED BY <1>3, <3>2
  <2>6. ASSUME NEW a \in Cells(f), a \notin Piece
        PROVE  Buffered(Region(f)', a) <=> Holds(x.r, a)
    <3>1. a \in Int
      BY <1>4, SizesAssumption DEF Cells
    <3>2. a - x.r.base \in Window => Region(f)'.buf[a - x.r.base] = x.r.buf[a - x.r.base]
      BY <1>3, <2>4, <2>6, <3>1
    <3>. QED BY <2>4, <3>2 DEF Buffered, Holds
  <2>7. ASSUME NEW g \in Regions, NEW a \in Cells(g)
        PROVE  IF Buffered(Region(g)', a) THEN mem'[a] = Erased /\ want'[a] = Byte(Region(g)', a)
                                          ELSE mem'[a] = want'[a]
    <3>1. CASE g = f /\ a \in Piece
      <4>1. mem'[a] = Erased
        BY <1>3, <1>4, <1>5, <2>3, <3>1
      <4>2. want'[a] = call.data
        BY <1>3, <1>4, <1>5, <3>1
      <4>3. Buffered(Region(g)', a) /\ Byte(Region(g)', a) = call.data
        BY <1>5, <2>4, <2>5, <3>1, DataAssumption DEF Buffered, Byte
      <4>. QED BY <4>1, <4>2, <4>3
    <3>2. CASE g = f /\ a \notin Piece
      <4>1. want'[a] = want[a]
        BY <1>3, <1>5, <3>2
      <4>2. Buffered(Region(f)', a) <=> Holds(x.r, a)
        BY <2>6, <3>2
      <4>3. Holds(x.r, a) => Byte(Region(f)', a) = x.r.buf[a - x.r.base]
        <5>1. a \in Int
          BY <1>4, SizesAssumption, <3>2 DEF Cells
        <5>. QED BY <1>3, <2>4, <3>2, <5>1 DEF Holds, Byte
      <4>. QED BY <1>3, <2>3, <3>2, <4>1, <4>2, <4>3
    <3>3. CASE g # f
      <4>1. a \in Mapped /\ a \notin Cells(f)
        BY <3>3, OtherCells
      <4>2. mem'[a] = mem[a] /\ want'[a] = want[a] /\ Region(g)' = Region(g)
        BY <1>3, <1>4, <2>3, <3>3, <4>1
      <4>. QED BY <2>1, <4>2 DEF CellsTrue
    <3>. QED BY <3>1, <3>2, <3>3
  <2>8. ASSUME NEW g \in Regions, NEW a \in Cells(g) \cap fresh'
        PROVE  want'[a] = Erased /\ ~Buffered(Region(g)', a)
    <3>1. a \in fresh /\ a \notin Piece /\ a \in Mapped
      BY <1>3, <2>8 DEF Mapped
    <3>2. want'[a] = want[a]
      BY <1>3, <3>1
    <3>3. CASE g = f
      BY <2>3, <2>6, <3>1, <3>2, <3>3
    <3>4. CASE g # f
      BY <1>3, <2>1, <3>1, <3>2, <3>4 DEF FreshErased
    <3>. QED BY <3>3, <3>4
  <2>. QED BY <2>7, <2>8 DEF CellsTrue, FreshErased
<1>. QED BY <1>2, <1>3, <1>6, <1>7, <1>8 DEF DataInv, SwitchedOk

LEMMA WriteEndData == ASSUME TypeInv, DataInv, WriteEnd PROVE DataInv'
<1>1. UNCHANGED <<bufVars, mem, want, completed>> /\ call.op = "write" /\ ~completed /\ call \in CallType
  BY DEF WriteEnd, TypeInv, TypeOK, CallType, DataInv
<1>2. CASE Return(call.ok)
  <2>1. call.ok \in BOOLEAN
    BY <1>1 DEF CallType
  <2>. QED BY <1>1, <1>2, <2>1, ReturnData
<1>3. CASE call.ok /\ call' = [call EXCEPT !.inner = FALSE] /\ UNCHANGED <<clean, fresh>>
  <2>1. /\ call'.op = "write" /\ call'.ok
        /\ call'.addr = call.addr /\ call'.len = call.len /\ call'.data = call.data
    BY <1>1, <1>3 DEF CallType
  <2>2. ASSUME NothingFailed' PROVE CellsTrue' /\ FreshErased'
    <3>1. CellsTrue /\ FreshErased
      BY <1>1, <1>3, <2>2 DEF NothingFailed, DataInv
    <3>. QED BY <1>1, <1>3, <3>1, RegionsSame, SameData
  <2>. QED BY <1>1, <1>3, <2>1, <2>2 DEF DataInv, ToWrite, SwitchedOk
<1>. QED BY <1>2, <1>3 DEF WriteEnd

\* The session is over with every region left: what the flash holds is what is wanted,
\* because it was asked for or because the next session starts from it.
LEMMA SessionOverData ==
    ASSUME TypeInv, DataInv, \A g \in Regions : Left(Region(g)), NEW ok \in BOOLEAN, SessionOver(ok),
           ok => (call.op = "none" \/ call.ok), UNCHANGED <<bufVars, mem>>
    PROVE  DataInv'
<1>1. \A g \in Regions : Region(g)' = Region(g)
  BY RegionsSame
<1>2. \A g \in Regions : \A a : ~Buffered(Region(g), a) /\ ~Buffered(Region(g)', a)
  BY <1>1 DEF Left, Buffered
<1>3. \A a \in Mapped : mem'[a] = want'[a]
  <2>1. CASE clean /\ ok
    <3>1. NothingFailed
      BY <2>1 DEF NothingFailed
    <3>2. \A g \in Regions : \A a \in Cells(g) : mem[a] = want[a]
      BY <1>2, <3>1 DEF DataInv, CellsTrue
    <3>3. want' = want
      BY <2>1 DEF SessionOver
    <3>. QED BY <3>2, <3>3 DEF Mapped
  <2>2. CASE ~(clean /\ ok)
    BY <2>2 DEF SessionOver
  <2>. QED BY <2>1, <2>2
<1>4. CellsTrue' /\ FreshErased'
  <2>1. \A g \in Regions : \A a \in Cells(g) : a \in Mapped
    BY DEF Mapped
  <2>2. fresh' = {}
    BY DEF SessionOver
  <2>. QED BY <1>2, <1>3, <2>1, <2>2 DEF CellsTrue, FreshErased
<1>5. call'.op = "none"
  BY DEF SessionOver, NoCall
<1>. QED BY <1>3, <1>4, <1>5 DEF DataInv, ToWrite, SwitchedOk

LEMMA CompleteBeginData == ASSUME TypeInv, SafeInv, DataInv, CompleteBegin PROVE DataInv'
<1>1. UNCHANGED <<bufVars, mem>> /\ call.op = "none"
  BY DEF CompleteBegin, Idle
<1>2. CASE flash_mode
  <2>1. call' = [NoCall EXCEPT !.op = "complete"] /\ completed' = FALSE /\ UNCHANGED <<want, clean, fresh>>
    BY <1>2 DEF CompleteBegin
  <2>2. call'.op = "complete"
    BY <2>1 DEF NoCall
  <2>3. ASSUME NothingFailed' PROVE CellsTrue' /\ FreshErased'
    <3>1. CellsTrue /\ FreshErased
      BY <1>1, <2>1, <2>3 DEF NothingFailed, DataInv
    <3>. QED BY <1>1, <2>1, <3>1, RegionsSame, SameData
  <2>. QED BY <2>1, <2>2, <2>3 DEF DataInv, ToWrite, SwitchedOk
<1>3. CASE ~flash_mode
  <2>1. SessionOver(FALSE) /\ \A g \in Regions : Left(Region(g))
    BY <1>3 DEF CompleteBegin, SafeInv
  <2>. QED BY <1>1, <2>1, SessionOverData
<1>. QED BY <1>2, <1>3

LEMMA CompleteRegionData ==
    ASSUME TypeInv, SafeInv, Steady, "silent" \notin Faults[client], DataInv, CompleteRegion
    PROVE  DataInv'
<1>1. PICK f \in Regions : f = call.active
  BY DEF CompleteRegion
<1>2. call \in CallType /\ call.op = "complete" /\ UNCHANGED <<want, fresh, clean, completed>> /\ ~completed
  BY DEF CompleteRegion, history, TypeInv, TypeOK, CallType, DataInv
<1>3. PICK x \in FlushDone(Region(f)) :
        /\ SetRegion(f, x.r)
        /\ mem' = x.m
        /\ call' = [call EXCEPT !.active = @ + 1, !.ok = @ /\ x.ok]
  BY <1>1 DEF CompleteRegion
<1>4. call'.op = "complete" /\ call'.ok = (call.ok /\ x.ok)
  BY <1>2, <1>3 DEF CallType
<1>5. x.ok \in BOOLEAN
  BY <1>3, RegionTyped, FlushDoneType DEF TypeInv, TypeOK
<1>6. ASSUME NothingFailed' PROVE CellsTrue' /\ FreshErased'
  BY <1>2, <1>3, <1>4, <1>5, <1>6, FlushStepData
<1>. QED BY <1>2, <1>4, <1>6 DEF DataInv, ToWrite, SwitchedOk

LEMMA CompleteEndData == ASSUME TypeInv, SafeInv, DataInv, CompleteEnd PROVE DataInv'
<1>1. UNCHANGED <<bufVars, mem>> /\ call.op = "complete" /\ call.active \notin Regions /\ SessionOver(call.ok)
  BY DEF CompleteEnd
<1>2. call.ok \in BOOLEAN
  BY DEF TypeInv, TypeOK
<1>3. \A g \in Regions : g < call.active
  <2>1. call.active \in Nat /\ call.active >= 1 /\ Flashes \in Nat
    BY <1>1, SizesAssumption, Bounds DEF TypeInv, TypeOK, SafeInv, Swept
  <2>. QED BY <1>1, <2>1 DEF Regions
<1>4. \A g \in Regions : Left(Region(g))
  BY <1>1, <1>3 DEF SafeInv, Swept
<1>. QED BY <1>1, <1>2, <1>4, SessionOverData

LEMMA StepData ==
    ASSUME TypeInv, SafeInv, SafeInv', Steady, "silent" \notin Faults[client], DataInv, Step
    PROVE  DataInv'
BY RefuseData, EraseBlockData, EraseSwitchData, EraseEndData, SettleData, SettleEndData, WriteSwitchData,
   WriteRegionData, WriteWindowData, WriteEndData, CompleteRegionData, CompleteEndData
DEF Step

\* Every step of a steady load without silent failures keeps it.
LEMMA NextData ==
    ASSUME TypeInv, SafeInv, SafeInv', Steady, "silent" \notin Faults[client], DataInv, Next
    PROVE  DataInv'
<1>1. CASE ClientErase
  <2>1. PICK q \in Ranges : EraseBegin(q[1], q[2])
    BY <1>1 DEF ClientErase
  <2> DEFINE next == [NoCall EXCEPT !.op = IF FlashForAddr(q[1]) = 0 THEN "refuse" ELSE "erase",
                                    !.addr = q[1], !.len = q[2], !.active = FlashForAddr(q[1])]
  <2>2. Enter(next) /\ next.op \in {"refuse", "erase"}
    BY <2>1 DEF EraseBegin, NoCall
  <2> HIDE DEF next
  <2>. QED BY <1>1, <2>2, EnterData DEF ClientErase
<1>2. CASE ClientWrite
  <2>1. PICK q \in Ranges, d \in Data :
          Mapped \cap (q[1] .. q[1] + q[2] - 1) \subseteq fresh /\ WriteBegin(q[1], q[2], d)
    BY <1>2 DEF ClientWrite
  <2> DEFINE next == [NoCall EXCEPT !.op = "settle", !.addr = q[1], !.len = q[2], !.data = d]
  <2>2. Enter(next) /\ next.op = "settle" /\ next.addr = q[1] /\ next.len = q[2] /\ next.data = d
    BY <2>1 DEF WriteBegin, NoCall
  <2> HIDE DEF next
  <2>. QED BY <1>2, <2>1, <2>2, EnterData DEF ClientWrite
<1>. QED BY <1>1, <1>2, CompleteBeginData, StepData DEF Next

-----------------------------------------------------------------------------
(* Either client: types, and regions that a complete has left *)

\* A set of numbers has a least one.
LEMMA LeastNat ==
    ASSUME NEW S, S \subseteq Nat, S # {}
    PROVE  \E x \in S : \A y \in S : x <= y
<1>1. IsWellFoundedOn(OpToRel(<, Nat), Nat)
  BY NatLessThanWellFounded, Zenon
<1>2. PICK x \in S : \A y \in S : ~(<<y, x>> \in OpToRel(<, Nat))
  BY <1>1, WFMin, Zenon
<1>3. \A y \in S : ~(y < x)
  BY <1>2 DEF OpToRel
<1>. QED BY <1>3

\* And a greatest one, if it is bounded.
LEMMA GreatestNat ==
    ASSUME NEW S, S \subseteq Nat, S # {}, NEW top \in Nat, \A x \in S : x <= top
    PROVE  \E x \in S : \A y \in S : x >= y
<1> DEFINE T == {top - x : x \in S}
<1>1. T \subseteq Nat
  OBVIOUS
<1>1a. T # {}
  <2>1. PICK x \in S : TRUE
    OBVIOUS
  <2>2. top - x \in T
    BY <2>1
  <2>. QED BY <2>2
<1> HIDE DEF T
<1>2. PICK t \in T : \A u \in T : t <= u
  BY <1>1, <1>1a, LeastNat
<1>3. PICK x \in S : t = top - x
  BY DEF T
<1>4. \A y \in S : top - y \in T
  BY DEF T
<1>5. \A y \in S : top - x <= top - y /\ x \in Nat /\ y \in Nat
  BY <1>2, <1>3, <1>4
<1>6. \A y \in S : x >= y
  BY <1>5
<1>. QED BY <1>6

\* What an image is made of.
Segments == [addr : Addrs, len : Nat \ {0}, data : Data, load : BOOLEAN]

\* The span that pass 1 finds is a range of addresses.
LEMMA Span ==
    ASSUME NEW image \in Images, Flashable(image) # {}
    PROVE  Lo(image) \in Nat /\ Hi(image) - Lo(image) \in 0 .. UINT32_MAX
<1> DEFINE L == {image[s].addr : s \in Flashable(image)}
           H == {image[s].addr + image[s].len : s \in Flashable(image)}
<1>1. ASSUME NEW s \in Flashable(image)
      PROVE  /\ image[s].addr \in Nat /\ image[s].len \in Nat
             /\ image[s].addr + image[s].len <= UINT32_MAX
  <2>1. s \in DOMAIN image /\ image \in Seq(Segments)
    BY ImagesAssumption DEF Flashable, Segments
  <2>2. image[s] \in Segments
    BY <2>1
  <2>3. image[s].addr + image[s].len <= MaxAddr + 1
    BY <2>1, ImagesAssumption
  <2>. QED BY <2>2, <2>3, SizesAssumption DEF Segments, Addrs, UINT32_MAX
<1>2. PICK s \in Flashable(image) : TRUE
  OBVIOUS
<1>3. L \subseteq Nat /\ image[s].addr \in L
  BY <1>1
<1>4. H \subseteq Nat /\ image[s].addr + image[s].len \in H /\ \A x \in H : x <= UINT32_MAX
  BY <1>1
<1>5. Lo(image) = Min(L) /\ Hi(image) = Max(H)
  BY DEF Lo, Hi
<1> HIDE DEF L, H
<1>6. Min(L) \in L /\ \A y \in L : Min(L) <= y
  BY <1>3, LeastNat DEF Min
<1>7. Max(H) \in H /\ \A y \in H : Max(H) >= y
  BY <1>4, GreatestNat, Bounds DEF Max
<1>8. Lo(image) \in Nat /\ Hi(image) \in Nat /\ Lo(image) <= image[s].addr
      /\ image[s].addr + image[s].len <= Hi(image) /\ Hi(image) <= UINT32_MAX
  BY <1>3, <1>4, <1>5, <1>6, <1>7
<1>. QED BY <1>1, <1>8, Bounds

\* The file is one of the images.
FileInv == at \in Nat /\ file \in Images \cup {NoImage}

\* Flash mode lasts as long as a call or an operation, and a complete has ended the
\* operations of the regions before its cursor.
IdleInv ==
    /\ ~flash_mode => call.op = "none" /\ \A f \in Regions : operation[f] = "none"
    /\ call.op = "complete" => /\ call.active >= 1
                               /\ \A f \in Regions : f < call.active => operation[f] = "none"

\* The next chunk is a range of addresses.
LEMMA ChunkBounds ==
    ASSUME FileInv, seg \in Flashable(file), at < file[seg].len,
           NEW n, n = Min({CHUNK, file[seg].len - at})
    PROVE  file[seg].addr + at \in Nat /\ n \in 0 .. UINT32_MAX /\ file[seg].data \in Data
<1>1. file \in Images /\ seg \in DOMAIN file
  BY DEF FileInv, Flashable, NoImage
<1>2. file \in Seq(Segments) /\ file[seg].addr + file[seg].len <= MaxAddr + 1
  BY <1>1, ImagesAssumption DEF Segments
<1>3. file[seg] \in Segments
  BY <1>1, <1>2
<1>4. PICK m \in Nat, a \in Nat : m = file[seg].len /\ a = file[seg].addr /\ m <= UINT32_MAX
  BY <1>2, <1>3, SizesAssumption DEF Segments, Addrs, UINT32_MAX
<1>5. CHUNK \in Nat /\ m - at \in Nat
  BY <1>4, ChunkAssumption DEF FileInv
<1>6. n \in {CHUNK, m - at} /\ n <= m - at
  <2>1. {CHUNK, m - at} \subseteq Nat
    BY <1>5
  <2>2. n \in {CHUNK, m - at} /\ \A y \in {CHUNK, m - at} : n <= y
    BY <1>4, <2>1, LeastNat DEF Min
  <2>. QED BY <2>2
<1>. QED BY <1>3, <1>4, <1>5, <1>6, Bounds DEF Segments, FileInv

\* A call begins in flash mode, or not at all.
LEMMA EnterIdle ==
    ASSUME IdleInv, NEW next, Enter(next), next.op \notin {"none", "complete"}
    PROVE  IdleInv'
<1>1. UNCHANGED operation /\ call.op = "none"
  BY DEF Enter, bufVars, Idle
<1>2. CASE flash_mode' = TRUE /\ call' = next
  BY <1>2 DEF IdleInv
<1>3. CASE ~flash_mode /\ Return(FALSE) /\ UNCHANGED flash_mode
  <2>1. call'.op = "none"
    BY <1>3 DEF Return, NoCall
  <2>. QED BY <1>1, <1>3, <2>1 DEF IdleInv
<1>. QED BY <1>2, <1>3 DEF Enter

\* No step but the last one of a complete leaves flash mode.
LEMMA StepIdle == ASSUME TypeInv, IdleInv, Step PROVE IdleInv'
<1>1. call \in CallType /\ call.op # "none" /\ flash_mode
  BY DEF TypeInv, TypeOK, CallType, IdleInv, Step, Refuse, EraseBlock, EraseSwitch, EraseEnd, Settle, SettleEnd,
     WriteSwitch, WriteRegion, WriteWindow, WriteEnd, CompleteRegion, CompleteEnd
<1>2. \A ok : Return(ok) => call'.op = "none"
  BY DEF Return, NoCall
<1>3. CASE Refuse \/ EraseBlock \/ EraseSwitch \/ EraseEnd \/ SettleEnd \/ WriteSwitch \/ WriteRegion \/ WriteEnd
  <2>1. call'.op # "complete" /\ flash_mode'
    BY <1>1, <1>2, <1>3 DEF Refuse, EraseBlock, EraseSwitch, EraseEnd, SettleEnd, WriteSwitch, WriteRegion,
       WriteEnd, CallType
  <2>. QED BY <2>1 DEF IdleInv
<1>4. CASE Settle \/ WriteWindow
  <2>1. call'.op # "complete" /\ flash_mode'
    BY <1>1, <1>4 DEF Settle, WriteWindow, CallType
  <2>. QED BY <2>1 DEF IdleInv
<1>5. CASE CompleteRegion
  <2>1. PICK f \in Regions : f = call.active
    BY <1>5 DEF CompleteRegion
  <2>2. PICK y \in FlushDone(Region(f)) :
          SetRegion(f, y.r) /\ call' = [call EXCEPT !.active = @ + 1, !.ok = @ /\ y.ok]
    BY <1>5, <2>1 DEF CompleteRegion
  <2>3. PICK x \in Flush(Region(f)) : \E d \in Done(x.r) : y.r = d.r
    <3>1. Region(f) \in RegionType /\ mem \in [Mapped -> Contents]
      BY RegionTyped DEF TypeInv, TypeOK
    <3>. QED BY <3>1, FlushDoneCases
  <2>4. x.r \in RegionType
    BY <2>1, RegionTyped, FlushType DEF TypeInv, TypeOK
  <2>5. y.r.operation = "none"
    BY <2>3, <2>4, DoneOutcome
  <2>6. operation' = [operation EXCEPT ![f] = "none"] /\ operation \in [Regions -> {"none", "erase", "write"}]
    BY <2>2, <2>5 DEF SetRegion, TypeInv, TypeOK
  <2>7. call'.op = "complete" /\ call'.active = f + 1 /\ call.op = "complete" /\ flash_mode'
    BY <1>1, <1>5, <2>1, <2>2 DEF CallType, CompleteRegion
  <2>8. \A g \in Regions : g < f + 1 => g = f \/ g < f
    BY RegionNumbers
  <2>9. f + 1 >= 1
    BY RegionNumbers
  <2>. QED BY <2>1, <2>6, <2>7, <2>8, <2>9 DEF IdleInv
<1>6. CASE CompleteEnd
  <2>1. call'.op = "none" /\ UNCHANGED operation /\ call.op = "complete" /\ call.active \notin Regions
    BY <1>6 DEF CompleteEnd, SessionOver, NoCall, bufVars
  <2>2. call.active \in Nat /\ call.active >= 1 /\ Flashes \in Nat
    BY <1>1, <2>1, SizesAssumption, Bounds DEF CallType, IdleInv
  <2>3. \A g \in Regions : g < call.active
    BY <2>1, <2>2 DEF Regions
  <2>. QED BY <2>1, <2>3 DEF IdleInv
<1>. QED BY <1>3, <1>4, <1>5, <1>6 DEF Step

LEMMA CompleteBeginIdle == ASSUME IdleInv, CompleteBegin PROVE IdleInv'
<1>1. UNCHANGED <<operation, flash_mode>>
  BY DEF CompleteBegin, bufVars
<1>2. CASE flash_mode
  <2>1. call'.op = "complete" /\ call'.active = 1
    BY <1>2 DEF CompleteBegin, NoCall
  <2>2. \A g \in Regions : ~(g < 1)
    BY RegionNumbers
  <2>. QED BY <1>1, <1>2, <2>1, <2>2 DEF IdleInv
<1>3. CASE ~flash_mode
  <2>1. call'.op = "none"
    BY <1>3 DEF CompleteBegin, SessionOver, NoCall
  <2>. QED BY <1>1, <1>3, <2>1 DEF IdleInv
<1>. QED BY <1>2, <1>3

LEMMA BeginIdle ==
    ASSUME IdleInv, NEW a, NEW n, NEW d, EraseBegin(a, n) \/ WriteBegin(a, n, d)
    PROVE  IdleInv'
<1>1. CASE EraseBegin(a, n)
  <2> DEFINE next == [NoCall EXCEPT !.op = IF FlashForAddr(a) = 0 THEN "refuse" ELSE "erase",
                                    !.addr = a, !.len = n, !.active = FlashForAddr(a)]
  <2>1. Enter(next) /\ next.op \in {"refuse", "erase"}
    BY <1>1 DEF EraseBegin, NoCall
  <2> HIDE DEF next
  <2>. QED BY <2>1, EnterIdle
<1>2. CASE WriteBegin(a, n, d)
  <2> DEFINE next == [NoCall EXCEPT !.op = "settle", !.addr = a, !.len = n, !.data = d]
  <2>1. Enter(next) /\ next.op = "settle"
    BY <1>2 DEF WriteBegin, NoCall
  <2> HIDE DEF next
  <2>. QED BY <2>1, EnterIdle
<1>. QED BY <1>1, <1>2

\* The probe restarts.
LEMMA RebootType == ASSUME TypeInv, Reboot PROVE TypeInv' /\ IdleInv'
<1>1. call' \in CallType /\ call'.op = "none"
  BY NoCallType DEF Reboot, NoCall
<1>2. TypeOK'
  BY <1>1, Bounds DEF Reboot, TypeInv, TypeOK, CallType
<1>. QED BY <1>1, <1>2 DEF TypeInv, CallOK, IdleInv, Reboot

AnyInv == TypeInv /\ IdleInv /\ FileInv

LEMMA InitAny == LoaderInit => AnyInv
<1> SUFFICES ASSUME LoaderInit PROVE AnyInv OBVIOUS
<1>1. IdleInv /\ FileInv
  BY DEF LoaderInit, Init, NoCall, IdleInv, FileInv
<1>. QED BY <1>1, InitType DEF LoaderInit, AnyInv

LEMMA StutterAny ==
    ASSUME TypeInv, IdleInv, UNCHANGED vars PROVE TypeInv' /\ IdleInv'
BY DEF vars, bufVars, history, TypeInv, TypeOK, CallOK, IdleInv

\* Steps of the loader that call nothing.
LEMMA QuietAny ==
    ASSUME AnyInv, UNCHANGED vars, at' \in Nat, file' \in {file, NoImage} \cup Images
    PROVE  AnyInv'
BY StutterAny DEF AnyInv, FileInv

LEMMA StepAny == ASSUME AnyInv, [LoaderNext]_allVars PROVE AnyInv'
<1> USE DEF AnyInv
<1>1. CASE Next /\ UNCHANGED loaderVars
  <2>1. FileInv'
    BY <1>1 DEF FileInv, loaderVars
  <2>2. IdleInv'
    BY <1>1, StepIdle, CompleteBeginIdle, BeginIdle DEF Next, ClientErase, ClientWrite
  <2>. QED BY <1>1, <2>1, <2>2, NextType
<1>2. CASE Refused
  BY <1>2, QuietAny DEF Refused, FileInv
<1>3. ASSUME NEW image \in Images, Load(image) PROVE AnyInv'
  <2>1. Lo(image) \in Nat /\ Hi(image) - Lo(image) \in 0 .. UINT32_MAX
    BY <1>3, Span DEF Load
  <2>2. EraseBegin(Lo(image), Hi(image) - Lo(image)) /\ FileInv'
    BY <1>3 DEF Load, FileInv
  <2>. QED BY <2>1, <2>2, EraseBeginType, BeginIdle
<1>4. CASE Step /\ UNCHANGED loaderVars
  BY <1>4, StepType, StepIdle DEF FileInv, loaderVars
<1>5. CASE CallFailed \/ ShortRead \/ EraseOk \/ NextSegment \/ CompleteOk \/ Verify \/ FlashOk
  <2>1. UNCHANGED vars /\ at' \in Nat /\ file' \in {file, NoImage}
    BY <1>5 DEF CallFailed, ShortRead, EraseOk, NextSegment, CompleteOk, Verify, FlashOk, Fail, At
  <2>. QED BY <2>1, QuietAny
<1>6. CASE WriteChunk
  <2>1. PICK n : n = Min({CHUNK, file[seg].len - at})
    OBVIOUS
  <2>2. /\ seg \in Flashable(file) /\ at < file[seg].len
        /\ WriteBegin(file[seg].addr + at, n, file[seg].data)
        /\ at' = at + n /\ UNCHANGED file
    BY <1>6, <2>1 DEF WriteChunk, At
  <2>3. file[seg].addr + at \in Nat /\ n \in 0 .. UINT32_MAX /\ file[seg].data \in Data
    BY <2>1, <2>2, ChunkBounds
  <2>4. FileInv'
    BY <2>2, <2>3, Bounds DEF FileInv
  <2>. QED BY <2>2, <2>3, <2>4, WriteBeginType, BeginIdle
<1>7. CASE Complete
  <2>1. CompleteBegin /\ at' = 0 /\ UNCHANGED file
    BY <1>7 DEF Complete, At
  <2>. QED BY <2>1, CompleteBeginType, CompleteBeginIdle DEF FileInv
<1>8. CASE Reboot
  BY <1>8, RebootType DEF Reboot, FileInv
<1>9. CASE UNCHANGED allVars
  BY <1>9, QuietAny DEF allVars, loaderVars, FileInv
<1>. QED BY <1>1, <1>2, <1>3, <1>4, <1>5, <1>6, <1>7, <1>8, <1>9 DEF LoaderNext, Work

LEMMA AnyAlways == LoaderSpec => []AnyInv
<1>. QED BY InitAny, StepAny, PTL DEF LoaderSpec

\* Every variable keeps its type, whoever calls and whatever the driver's functions
\* return (target_flash.c, bmp_standalone_load.c).
THEOREM LoadTyped == LoaderSpec => []TypeOK
<1>1. AnyInv => TypeOK
  BY DEF AnyInv, TypeInv
<1>. QED BY <1>1, AnyAlways, PTL

-----------------------------------------------------------------------------
(* The load from GDB *)

GdbInv ==
    client = "gdb" =>
      /\ TypeInv
      /\ "prepare" \notin Faults[client] => SafeInv
      /\ "prepare" \notin Faults[client] /\ "silent" \notin Faults[client] => DataInv

LEMMA NextClient == ASSUME Next PROVE client' = client /\ client = "gdb"
BY DEF Next, ClientErase, ClientWrite, CompleteBegin, EraseBegin, WriteBegin, Enter, Step

\* The on-device command never changes who the client is.
LEMMA UiClient == ASSUME LoaderNext, client = "ui" PROVE client' = client
<1>1. ~Next
  BY DEF Next
<1>2. \A next : Enter(next) => client' = client
  BY DEF Enter
<1>. QED
  BY <1>1, <1>2 DEF LoaderNext, Refused, Load, Work, EraseBegin, WriteBegin, Step, CallFailed, EraseOk, ShortRead,
     WriteChunk, NextSegment, Complete, CompleteBegin, CompleteOk, Verify, FlashOk, Reboot, Fail, vars

LEMMA InitGdb == LoaderInit => GdbInv
BY InitType, InitSafe, InitData DEF LoaderInit, GdbInv

LEMMA StutterGdb == ASSUME GdbInv, UNCHANGED vars PROVE GdbInv'
<1>1. UNCHANGED <<client, operation, buf, base, low, high, flash_mode, mem, call, panic, want, clean, fresh, completed>>
  BY DEF vars, bufVars, history
<1>2. \A f : Region(f)' = Region(f)
  BY <1>1 DEF Region
<1>3. TypeInv' <=> TypeInv
  BY <1>1 DEF TypeInv, TypeOK, CallOK
<1>4. SafeInv' <=> SafeInv
  BY <1>1, <1>2 DEF SafeInv, EraseAlone, Swept, NothingPending
<1>5. DataInv' <=> DataInv
  BY <1>1, <1>2 DEF DataInv, NothingFailed, CellsTrue, FreshErased, ToWrite, SwitchedOk
<1>. QED BY <1>1, <1>3, <1>4, <1>5 DEF GdbInv

LEMMA StepGdb == ASSUME GdbInv, [LoaderNext]_allVars PROVE GdbInv'
<1>1. CASE Next
  <2>1. client' = client /\ client = "gdb"
    BY <1>1, NextClient
  <2>2. TypeInv'
    BY <1>1, <2>1, NextType DEF GdbInv
  <2>3. ASSUME "prepare" \notin Faults[client] PROVE SafeInv'
    BY <1>1, <2>1, <2>3, NextSafe DEF GdbInv, Steady
  <2>4. ASSUME "prepare" \notin Faults[client], "silent" \notin Faults[client] PROVE DataInv'
    BY <1>1, <2>1, <2>3, <2>4, NextData DEF GdbInv, Steady
  <2>. QED BY <2>1, <2>2, <2>3, <2>4 DEF GdbInv
<1>2. CASE LoaderNext /\ client = "ui"
  BY <1>2, UiClient DEF GdbInv
<1>3. CASE UNCHANGED allVars
  BY <1>3, StutterGdb DEF allVars
<1>. QED BY <1>1, <1>2, <1>3 DEF LoaderNext

LEMMA GdbAlways == LoaderSpec => []GdbInv
<1>. QED BY InitGdb, StepGdb, PTL DEF LoaderSpec

\* What a flush of a steady load reads lies inside the write buffer (target_flash.c:201-243).
THEOREM MarksInWindow == LoaderSpec => []BufferWindow
<1>1. ASSUME GdbInv PROVE BufferWindow
  <2>1. ASSUME Steady, NEW f \in Regions, Pending(Region(f)), NEW a \in Units(Region(f))
        PROVE  Region(f).base <= a /\ a + WriteSize <= Region(f).base + BufSize
    <3>1. Region(f) \in RegionType /\ MarksOK(f, Region(f))
      BY <1>1, <2>1, RegionTyped DEF GdbInv, Steady, TypeInv, SafeInv
    <3>. QED BY <2>1, <3>1, UnitsInside
  <2>. QED BY <2>1 DEF BufferWindow
<1>. QED BY <1>1, GdbAlways, PTL

\* No flush of a steady load goes through a buffer that flash_prepare has freed
\* (target_flash.c:186-231).
THEOREM NoFreedBuffer == LoaderSpec => []NoBadAccess
<1>1. GdbInv => NoBadAccess
  BY DEF GdbInv, Steady, SafeInv, NoBadAccess
<1>. QED BY <1>1, GdbAlways, PTL

\* Outside flash mode no region is in an operation, whoever called and whatever failed; and
\* none has data left after a load from GDB whose driver can prepare every region: the flush
\* of a region that cannot be prepared leaves its data pending (target_flash.c:198, :115,
\* :246-268, :308-312).
THEOREM CompleteIdle == LoaderSpec => []CompleteLeavesIdle
<1>1. ASSUME AnyInv, GdbInv PROVE CompleteLeavesIdle
  <2>1. ~flash_mode => \A f \in Regions : operation[f] = "none"
    BY <1>1 DEF AnyInv, IdleInv
  <2>2. ~flash_mode /\ Steady => \A f \in Regions : ~Pending(Region(f))
    BY <1>1 DEF GdbInv, Steady, SafeInv, Left
  <2>. QED BY <2>1, <2>2 DEF CompleteLeavesIdle
<1>. QED BY <1>1, AnyAlways, GdbAlways, PTL

\* A complete that reports success at the end of a session without a failure leaves in
\* every cell what the session asked for (target_flash.c).
THEOREM CompleteTrue == LoaderSpec => []CompletedIsProgrammed
<1>1. GdbInv => CompletedIsProgrammed
  BY DEF GdbInv, Steady, DataInv, CompletedIsProgrammed
<1>. QED BY <1>1, GdbAlways, PTL

-----------------------------------------------------------------------------
(* The load on the device *)

\* The segments read back so far match; nothing is programmed between the read-back and
\* the next command.
LoaderInv ==
    /\ client = "gdb" => loaded = NoImage /\ phase = "idle"
    /\ client = "ui" /\ phase \in {"idle", "verify"} => call.op = "none"
    /\ phase # "idle" => loaded = NoImage
    /\ file \in Seq(Segments)
    /\ phase = "verify" => /\ seg \in Nat \ {0}
                           /\ \A s \in Flashable(file) : s < seg => Matches(file[s])
    /\ LoadedIsFile

\* Nothing is loaded: nothing is claimed.
LEMMA NothingLoaded == (loaded = NoImage => LoadedIsFile) /\ (loaded' = NoImage => LoadedIsFile')
<1>1. Flashable(NoImage) = {}
  BY DEF Flashable, NoImage
<1>. QED BY <1>1 DEF LoadedIsFile

LEMMA NoSegments == NoImage \in Seq(Segments)
BY DEF NoImage

LEMMA InitLoader == LoaderInit => LoaderInv
BY NothingLoaded, NoSegments DEF LoaderInit, LoaderInv, Init, NoCall

\* A step of a call is a step of a call.
LEMMA StepBusy == ASSUME Step PROVE call.op # "none"
BY DEF Step, Refuse, EraseBlock, EraseSwitch, EraseEnd, Settle, SettleEnd, WriteSwitch, WriteRegion,
   WriteWindow, WriteEnd, CompleteRegion, CompleteEnd

\* The load stops where it is.
LEMMA FailLoader == ASSUME LoaderInv, Fail, call.op = "none" PROVE LoaderInv'
<1>1. UNCHANGED <<client, call, mem, loaded>> /\ phase' = "idle" /\ file' = NoImage
  BY DEF Fail, vars
<1>2. LoadedIsFile'
  BY <1>1 DEF LoaderInv, LoadedIsFile
<1>. QED BY <1>1, <1>2, NoSegments DEF LoaderInv

\* A phase other than the read-back, of a load that has begun.
LEMMA BeginLoader ==
    ASSUME LoaderInv, client = "ui", client' = client, phase' \in {"erase", "write", "complete"},
           loaded' = NoImage, file' \in Seq(Segments)
    PROVE  LoaderInv'
<1>1. LoadedIsFile'
  BY NothingLoaded
<1>. QED BY <1>1 DEF LoaderInv

LEMMA StepLoader == ASSUME LoaderInv, LoaderNext PROVE LoaderInv'
<1>1. CASE Next /\ UNCHANGED loaderVars
  <2>1. client' = client /\ client = "gdb" /\ UNCHANGED <<phase, file, loaded>> /\ loaded' = NoImage /\ phase' = "idle"
    BY <1>1, NextClient DEF loaderVars, LoaderInv
  <2>2. LoadedIsFile'
    BY <2>1, NothingLoaded
  <2>. QED BY <2>1, <2>2 DEF LoaderInv
<1>2. ASSUME client = "ui" PROVE client' = client
  BY <1>2, UiClient
<1>3. CASE client = "ui" /\ Refused
  <2>1. loaded' = NoImage /\ UNCHANGED <<client, call, phase, file>> /\ phase = "idle"
    BY <1>3 DEF Refused, vars
  <2>2. LoadedIsFile'
    BY <2>1, NothingLoaded
  <2>. QED BY <1>3, <2>1, <2>2 DEF LoaderInv
<1>4. ASSUME client = "ui", NEW image \in Images, Load(image) PROVE LoaderInv'
  <2>1. phase' = "erase" /\ loaded' = NoImage /\ file' \in Seq(Segments)
    BY <1>4, ImagesAssumption DEF Load, Segments
  <2>. QED BY <1>2, <1>4, <2>1, BeginLoader
<1>5. CASE client = "ui" /\ Step /\ UNCHANGED loaderVars
  <2>1. UNCHANGED <<phase, file, loaded>> /\ call.op # "none"
    BY <1>5, StepBusy DEF loaderVars
  <2>2. phase \notin {"idle", "verify"} /\ loaded = NoImage
    BY <1>5, <2>1 DEF LoaderInv
  <2>3. LoadedIsFile'
    BY <2>1, <2>2, NothingLoaded
  <2>. QED BY <1>2, <1>5, <2>1, <2>2, <2>3 DEF LoaderInv
<1>6. CASE client = "ui" /\ (CallFailed \/ ShortRead)
  BY <1>6, FailLoader DEF CallFailed, ShortRead, Returned, Idle
<1>7. CASE client = "ui" /\ (EraseOk \/ WriteChunk \/ NextSegment \/ Complete)
  <2>1. phase # "idle" /\ phase' \in {"write", "complete"} /\ UNCHANGED <<file, loaded>>
    BY <1>7 DEF EraseOk, WriteChunk, NextSegment, Complete, Returned, At
  <2>2. loaded' = NoImage /\ file' \in Seq(Segments)
    BY <2>1 DEF LoaderInv
  <2>. QED BY <1>2, <1>7, <2>1, <2>2, BeginLoader
<1>8. CASE client = "ui" /\ CompleteOk
  <2>1. /\ phase # "idle" /\ call.op = "none" /\ phase' = "verify" /\ seg' = 1
        /\ UNCHANGED <<file, loaded, call>>
    BY <1>8 DEF CompleteOk, Returned, Idle, At, vars
  <2>2. LoadedIsFile'
    BY <2>1, NothingLoaded DEF LoaderInv
  <2>3. \A s \in Flashable(file') : ~(s < 1)
    BY <2>1 DEF LoaderInv, Flashable
  <2>. QED BY <1>2, <1>8, <2>1, <2>2, <2>3 DEF LoaderInv
<1>9. CASE client = "ui" /\ Verify
  <2>1. CASE Fail
    BY <1>9, <2>1, FailLoader DEF Verify, Idle
  <2>2. CASE (seg \in Flashable(file) => Matches(file[seg])) /\ At("verify", seg + 1, 0) /\ UNCHANGED vars
    <3>1. /\ phase = "verify" /\ phase' = "verify" /\ seg' = seg + 1 /\ call.op = "none"
          /\ UNCHANGED <<client, file, loaded, call, mem>> /\ seg \in Nat \ {0}
      BY <1>9, <2>2 DEF Verify, Idle, At, vars, LoaderInv
    <3>2. LoadedIsFile'
      BY <3>1 DEF LoaderInv, LoadedIsFile
    <3>3. \A s \in Flashable(file) : s < seg + 1 => s < seg \/ s = seg
      BY <3>1 DEF LoaderInv, Flashable
    <3>4. \A s \in Flashable(file) : s < seg' => Matches(file[s])
      BY <2>2, <3>1, <3>3 DEF LoaderInv
    <3>. QED BY <3>1, <3>2, <3>4 DEF LoaderInv, Matches
  <2>. QED BY <1>9, <2>1, <2>2 DEF Verify
<1>10. CASE client = "ui" /\ FlashOk
  <2>1. /\ phase = "verify" /\ seg \notin DOMAIN file /\ call.op = "none"
        /\ loaded' = file /\ phase' = "idle" /\ file' = NoImage
        /\ UNCHANGED <<client, call, mem>>
    BY <1>10 DEF FlashOk, Idle, vars
  <2>2. \A s \in Flashable(file) : s < seg
    <3>1. seg \in Nat \ {0} /\ file \in Seq(Segments)
      BY <2>1 DEF LoaderInv
    <3>2. DOMAIN file = 1 .. Len(file) /\ Len(file) \in Nat
      BY <3>1
    <3>. QED BY <2>1, <3>1, <3>2 DEF Flashable
  <2>3. LoadedIsFile'
    BY <2>1, <2>2 DEF LoaderInv, Matches, LoadedIsFile
  <2>. QED BY <1>10, <2>1, <2>3, NoSegments DEF LoaderInv
<1>11. CASE client = "ui" /\ Reboot
  <2>1. loaded' = NoImage /\ phase' = "idle" /\ file' = NoImage /\ call'.op = "none" /\ client' = client
    BY <1>11 DEF Reboot, NoCall
  <2>2. LoadedIsFile'
    BY <2>1, NothingLoaded
  <2>. QED BY <1>11, <2>1, <2>2, NoSegments DEF LoaderInv
<1>. QED BY <1>1, <1>3, <1>4, <1>5, <1>6, <1>7, <1>8, <1>9, <1>10, <1>11 DEF LoaderNext, Work

\* "flash ok" means that every loadable segment is in the flash, whatever the driver said
\* (bmp_standalone_load.c:132-172): the segments read back match, and nothing is
\* programmed between the read-back and the next command.
THEOREM FlashOkTrue == LoaderSpec => []LoadedIsFile
<1>1. ASSUME LoaderInv, UNCHANGED allVars PROVE LoaderInv'
  BY <1>1 DEF LoaderInv, LoadedIsFile, Matches, allVars, loaderVars, vars
<1>2. LoaderInv /\ [LoaderNext]_allVars => LoaderInv'
  BY <1>1, StepLoader
<1>3. LoaderInv => LoadedIsFile
  BY DEF LoaderInv
<1>. QED BY <1>2, <1>3, InitLoader, PTL DEF LoaderSpec

=============================================================================
