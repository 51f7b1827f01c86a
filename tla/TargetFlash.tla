----------------------------- MODULE TargetFlash -----------------------------
(***************************************************************************)
(* target_flash.c: erasing and programming the flash of a target through   *)
(* one write buffer per flash region.  target_flash_write only copies into *)
(* the buffer; the buffer is written out when the address leaves its       *)
(* window, when another region is written, or by target_flash_complete.    *)
(*                                                                         *)
(* A call is a sequence of steps: one per block erased, one per window     *)
(* copied, one per region flushed.  The driver's own functions may fail,   *)
(* each kind if Faults names it.                                           *)
(***************************************************************************)
EXTENDS Integers, FiniteSets

CONSTANTS
    Flashes,     \* the regions are 1 .. Flashes, in list order
    Start,       \* per region: its first address
    Length,      \* per region: its size
    BlockSize,   \* per region: the unit of erasing
    BufSize,     \* writebufsize, the window of the write buffer
    WriteSize,   \* the unit of programming
    MaxAddr,     \* bound on the addresses; the last ones may be unmapped
    Ranges,      \* the <<address, length>> of GDB's packets
    Data,        \* what a client writes
    Faults       \* per client: the driver functions that may fail, and "silent" if a
                 \* write may report success without having programmed its unit

Regions == 1 .. Flashes
Addrs == 0 .. MaxAddr
Cells(f) == Start[f] .. Start[f] + Length[f] - 1
Mapped == UNION {Cells(f) : f \in Regions}

\* Contents of a cell that is not data of this session: erased (0xff), or unknown
\* (the old image, or programmed twice).
Erased == "erased"
Unknown == "unknown"
Contents == Data \cup {Erased, Unknown}

\* buf_addr_base and buf_addr_low of an empty buffer, and flash->buf == NULL.
UINT32_MAX == MaxAddr + 1

Aligned(a, size) == a - (a % size)

NoBuf == <<>>
Window == 0 .. BufSize - 1

\* The block and the window of the write buffer that an address belongs to.
Block(f, a) == Aligned(a, BlockSize[f]) .. Aligned(a, BlockSize[f]) + BlockSize[f] - 1
WindowOf(a) == Aligned(a, BufSize) .. Aligned(a, BufSize) + BufSize - 1

\* Sizes are powers of two in every driver: the code masks addresses with size - 1.
\* A region starts with a block and a window; it need not end with one (kinetis.c:250-262),
\* but its last block and window reach into no other region.
ASSUME SizesAssumption ==
    /\ Flashes \in Nat \ {0}
    /\ MaxAddr \in Nat
    /\ BlockSize \in [Regions -> Nat \ {0}]
    /\ WriteSize \in Nat \ {0}
    /\ BufSize \in Nat \ {0}
    /\ BufSize % WriteSize = 0
    /\ Start \in [Regions -> Nat]
    /\ Length \in [Regions -> Nat \ {0}]
ASSUME LayoutAssumption ==
    /\ \A f \in Regions : /\ Start[f] % BufSize = 0
                          /\ Start[f] % BlockSize[f] = 0
                          /\ Start[f] + Length[f] <= MaxAddr + 1
    /\ \A f, g \in Regions : f # g =>
         \A a \in Cells(f) : (Block(f, a) \cup WindowOf(a)) \cap Cells(g) = {}
ASSUME DataAssumption == Erased \notin Data /\ Unknown \notin Data
ASSUME RangesAssumption ==
    \A q \in Ranges : q[1] \in Addrs /\ q[2] \in Nat \ {0} /\ q[1] + q[2] <= MaxAddr + 1

VARIABLES
    client,      \* who calls in this behaviour: GDB's packets or the on-device command
    operation,   \* per region: "none", "erase" or "write"
    buf,         \* per region: NoBuf or the window's contents
    base, low, high,  \* per region: buf_addr_base, buf_addr_low, buf_addr_high
    flash_mode,
    mem,         \* per mapped address: what the flash holds
    call,        \* the call in progress; between two calls, ok is what the last one
                 \* returned
    panic,       \* a call went through a NULL buffer
    want,        \* history: what the calls of this session asked for
    clean,       \* history: no call of this session has failed
    fresh,       \* history: the cells a client may write, erased and not yet written
    completed    \* history: the last call was a complete that reported success
                 \* in a clean session

bufVars == <<operation, buf, base, low, high>>
history == <<want, clean, fresh, completed>>
vars == <<client, bufVars, flash_mode, mem, call, panic, history>>

NoCall == [op |-> "none", addr |-> 0, len |-> 0, data |-> Erased, active |-> 1,
           ok |-> TRUE, inner |-> FALSE]

\* What a driver function may return.
Result(function) == IF function \in Faults[client] THEN BOOLEAN ELSE {TRUE}

\* target_flash_for_addr, with no region as 0.
FlashForAddr(a) == IF a \in Mapped THEN CHOOSE f \in Regions : a \in Cells(f) ELSE 0

\* NOR programming: writing 0xff changes nothing, writing twice is undefined.
Programmed(old, new) ==
    IF new = Erased THEN old ELSE IF old \in {Erased, new} THEN new ELSE Unknown

-----------------------------------------------------------------------------
(* flash_prepare, flash_done, flash_buffered_flush: what each may do to one  *)
(* region r = [operation, buf, base, low, high].                             *)

Region(f) == [operation |-> operation[f], buf |-> buf[f], base |-> base[f],
              low |-> low[f], high |-> high[f]]

\* flash_done frees the buffer unless the region is idle already.
Done(r) ==
    IF r.operation = "none"
    THEN {[r |-> r, ok |-> TRUE]}
    ELSE {[r |-> [r EXCEPT !.operation = "none", !.buf = NoBuf], ok |-> b] : b \in Result("done")}

\* flash_prepare ends another operation first, and with it the buffer.
Prepared(r, new) ==
    {[r |-> [r EXCEPT !.operation = IF b THEN new ELSE "none"], ok |-> b] : b \in Result("prepare")}

Prepare(r, new) ==
    IF r.operation = new
    THEN {[r |-> r, ok |-> TRUE]}
    ELSE UNION {IF d.ok THEN Prepared(d.r, new) ELSE {d} : d \in Done(r)}

\* A buffer with something to write.
Pending(r) ==
    /\ r.buf # NoBuf
    /\ r.base # UINT32_MAX
    /\ r.low # UINT32_MAX
    /\ r.low < r.high

AlignedLow(r) == Aligned(r.low, WriteSize)

\* The writes of a flush, each of WriteSize.
Units(r) == {a \in AlignedLow(r) .. r.high - 1 : a % WriteSize = 0}

\* Mutant: the flush forgets to reset buf_addr_low.
Emptied_KeepsLow(r) == [r EXCEPT !.base = UINT32_MAX, !.high = 0]

Emptied(r) == [r EXCEPT !.base = UINT32_MAX, !.low = UINT32_MAX, !.high = 0]

\* The byte a flush reads for address a: anything, when it is not in the buffer.
Byte(r, a) == IF a - r.base \in Window THEN r.buf[a - r.base] ELSE Unknown

\* The memory after the units in done were programmed.
Written(m, r, done) ==
    [a \in Mapped |-> IF Aligned(a, WriteSize) \in done THEN Programmed(m[a], Byte(r, a)) ELSE m[a]]

\* After a failed unit the loop goes on, so that any set of units may be missing.
WriteOutcomes(r) ==
    {o \in [lost : SUBSET Units(r), ok : BOOLEAN] :
       IF o.lost = {} THEN o.ok ELSE IF o.ok THEN "silent" \in Faults[client] ELSE "write" \in Faults[client]}

WriteOut(r) ==
    {[r |-> Emptied(r), ok |-> o.ok, bad |-> FALSE, m |-> Written(mem, r, Units(r) \ o.lost)] :
       o \in WriteOutcomes(r)}

\* A flush of a buffer that flash_prepare has just freed reads through NULL.
Flush(r) ==
    IF Pending(r)
    THEN UNION {IF p.ok /\ p.r.buf # NoBuf
                THEN WriteOut(p.r)
                ELSE {[r |-> p.r, ok |-> FALSE, bad |-> p.ok, m |-> mem]} :
                  p \in Prepare(r, "write")}
    ELSE {[r |-> r, ok |-> TRUE, bad |-> FALSE, m |-> mem]}

\* Mutant: the region is not left after its flush.
FlushDone_NoDone(r) == Flush(r)

\* flash_buffered_flush followed by flash_done.
FlushDone(r) ==
    UNION {{[r |-> d.r, ok |-> x.ok /\ d.ok, bad |-> x.bad, m |-> x.m] : d \in Done(x.r)} :
             x \in Flush(r)}

SetRegion(f, r) ==
    /\ operation' = [operation EXCEPT ![f] = r.operation]
    /\ buf' = [buf EXCEPT ![f] = r.buf]
    /\ base' = [base EXCEPT ![f] = r.base]
    /\ low' = [low EXCEPT ![f] = r.low]
    /\ high' = [high EXCEPT ![f] = r.high]

-----------------------------------------------------------------------------
(* Calls *)

Init ==
    /\ client \in DOMAIN Faults
    /\ operation = [f \in Regions |-> "none"]
    /\ buf = [f \in Regions |-> NoBuf]
    /\ base = [f \in Regions |-> UINT32_MAX]
    /\ low = [f \in Regions |-> UINT32_MAX]
    /\ high = [f \in Regions |-> 0]
    /\ flash_mode = FALSE
    /\ mem = [a \in Mapped |-> Unknown]
    /\ call = NoCall
    /\ panic = FALSE
    /\ want = mem
    /\ clean = TRUE
    /\ fresh = {}
    /\ completed = FALSE

Idle == call.op = "none" /\ ~panic

Return(ok) ==
    /\ call' = [NoCall EXCEPT !.ok = ok]
    /\ clean' = (clean /\ ok)
    /\ fresh' = IF ok THEN fresh ELSE {}

\* target_enter_flash_mode; the call ends here if it fails.
Enter(next) ==
    /\ Idle
    /\ completed' = FALSE
    /\ \/ /\ flash_mode' = TRUE
          /\ call' = next
          /\ UNCHANGED <<clean, fresh>>
       \/ /\ ~flash_mode
          /\ FALSE \in Result("enter")
          /\ Return(FALSE)
          /\ UNCHANGED flash_mode
    /\ UNCHANGED <<client, bufVars, mem, panic, want>>

\* target_flash_erase: the first block's region must exist.
EraseBegin(a, n) ==
    Enter([NoCall EXCEPT !.op = IF FlashForAddr(a) = 0 THEN "refuse" ELSE "erase",
                         !.addr = a, !.len = n, !.active = FlashForAddr(a)])

\* Out of the memory map, in flash mode.
Refuse ==
    /\ ~panic
    /\ call.op = "refuse"
    /\ Return(FALSE)
    /\ UNCHANGED <<bufVars, flash_mode, mem, panic, want, completed>>

\* One block: leave the previous region, prepare this one, erase.
EraseBlock ==
    /\ ~panic
    /\ call.op = "erase"
    /\ call.ok \/ call.inner
    /\ call.len > 0
    /\ FlashForAddr(call.addr) = call.active
    /\ \E p \in Prepare(Region(call.active), "erase") :
         /\ SetRegion(call.active, p.r)
         /\ IF p.ok
            THEN \E erased \in Result("erase") :
                   LET block == Block(call.active, call.addr) \cap Mapped
                       end   == Aligned(call.addr, BlockSize[call.active]) + BlockSize[call.active]
                       left  == call.len - (end - call.addr)
                   IN  /\ mem' = IF erased THEN [a \in Mapped |-> IF a \in block THEN Erased ELSE mem[a]]
                                           ELSE mem
                       /\ want' = [a \in Mapped |-> IF a \in block THEN Erased ELSE want[a]]
                       /\ call' = [call EXCEPT !.ok = @ /\ erased,
                                               !.inner = FALSE,
                                               !.addr = IF erased THEN end ELSE @,
                                               !.len = IF ~erased THEN @ ELSE IF left < 0 THEN 0 ELSE left]
                       /\ fresh' = fresh \cup block
                       /\ UNCHANGED clean
            ELSE /\ Return(FALSE)
                 /\ UNCHANGED <<mem, want>>
    /\ UNCHANGED <<flash_mode, panic, completed>>

\* The next block is in another region, or in none.  A failed flash_done does not
\* stop this block from being erased.
EraseSwitch ==
    /\ ~panic
    /\ call.op = "erase"
    /\ call.ok
    /\ call.len > 0
    /\ FlashForAddr(call.addr) # call.active
    /\ IF FlashForAddr(call.addr) = 0
       THEN /\ Return(FALSE)
            /\ UNCHANGED bufVars
       ELSE /\ \E d \in Done(Region(call.active)) :
                 /\ SetRegion(call.active, d.r)
                 /\ call' = [call EXCEPT !.ok = d.ok, !.inner = TRUE,
                                         !.active = FlashForAddr(call.addr)]
            /\ UNCHANGED <<clean, fresh>>
    /\ UNCHANGED <<flash_mode, mem, panic, want, completed>>

\* Mutant: an erase returns without flash_done.
EraseEnd_NoDone ==
    /\ ~panic
    /\ call.op = "erase"
    /\ ~call.inner
    /\ call.len = 0 \/ ~call.ok
    /\ Return(call.ok)
    /\ UNCHANGED <<bufVars, flash_mode, mem, panic, want, completed>>

\* flash_done on the last region erased.
EraseEnd ==
    /\ ~panic
    /\ call.op = "erase"
    /\ ~call.inner
    /\ call.len = 0 \/ ~call.ok
    /\ \E d \in Done(Region(call.active)) :
         /\ SetRegion(call.active, d.r)
         /\ Return(call.ok /\ d.ok)
    /\ UNCHANGED <<flash_mode, mem, panic, want, completed>>

\* target_flash_write first walks the list: regions other than dest's are flushed.
WriteBegin(a, n, d) ==
    Enter([NoCall EXCEPT !.op = "settle", !.addr = a, !.len = n, !.data = d])

\* One region of that walk; active is the cursor.  A region whose buffer was not
\* allocated is skipped.
Settle ==
    /\ ~panic
    /\ call.op = "settle"
    /\ call.active \in Regions
    /\ IF call.addr \in Cells(call.active) \/ buf[call.active] = NoBuf
       THEN /\ call' = [call EXCEPT !.active = @ + 1]
            /\ UNCHANGED <<bufVars, mem, panic>>
       ELSE \E x \in FlushDone(Region(call.active)) :
              /\ SetRegion(call.active, x.r)
              /\ mem' = x.m
              /\ panic' = x.bad
              /\ call' = [call EXCEPT !.active = @ + 1, !.ok = @ /\ x.ok]
    /\ UNCHANGED <<flash_mode, history>>

SettleEnd ==
    /\ ~panic
    /\ call.op = "settle"
    /\ call.active \notin Regions
    /\ IF FlashForAddr(call.addr) = 0 \/ ~call.ok
       THEN Return(FALSE)
       ELSE /\ call' = [call EXCEPT !.op = "write", !.active = FlashForAddr(call.addr)]
            /\ UNCHANGED <<clean, fresh>>
    /\ UNCHANGED <<bufVars, flash_mode, mem, panic, want, completed>>

\* The data goes on in another region: flush and leave this one.
WriteSwitch ==
    /\ ~panic
    /\ call.op = "write"
    /\ ~call.inner
    /\ call.len > 0
    /\ FlashForAddr(call.addr) # call.active
    /\ IF FlashForAddr(call.addr) = 0
       THEN /\ Return(FALSE)
            /\ UNCHANGED <<bufVars, mem, panic>>
       ELSE \E x \in FlushDone(Region(call.active)) :
              /\ SetRegion(call.active, x.r)
              /\ mem' = x.m
              /\ panic' = x.bad
              /\ call' = [call EXCEPT !.active = FlashForAddr(call.addr), !.ok = x.ok]
              /\ UNCHANGED <<clean, fresh>>
    /\ UNCHANGED <<flash_mode, want, completed>>

\* flash_buffer_alloc, when the region has no buffer; then the early exit for
\* what failed so far.
WriteRegion ==
    /\ ~panic
    /\ call.op = "write"
    /\ ~call.inner
    /\ call.len > 0
    /\ FlashForAddr(call.addr) = call.active
    /\ \E allocated \in IF buf[call.active] # NoBuf THEN {TRUE} ELSE Result("malloc") :
         /\ IF allocated /\ buf[call.active] = NoBuf
            THEN SetRegion(call.active, [Emptied(Region(call.active)) EXCEPT
                                           !.buf = [i \in Window |-> Erased]])
            ELSE UNCHANGED bufVars
         /\ IF call.ok /\ allocated
            THEN /\ call' = [call EXCEPT !.inner = TRUE]
                 /\ UNCHANGED <<clean, fresh>>
            ELSE Return(FALSE)
    /\ UNCHANGED <<flash_mode, mem, panic, want, completed>>

Lesser(m, n) == IF m < n THEN m ELSE n

\* What is left of the data, of the region and of the window.
RegionRoom == Start[call.active] + Length[call.active] - call.addr
WindowRoom == BufSize - (call.addr % BufSize)

\* Mutant: the window is taken one byte short.
LocalLen_ShortRoom == Lesser(Lesser(call.len, RegionRoom), WindowRoom - 1)

\* A window of one call: the part of it that goes into the buffer at once.
LocalLen == Lesser(Lesser(call.len, RegionRoom), WindowRoom)

\* Mutant: the window is not flushed before the buffer moves on.
BufferReady_NoFlush(r, a) ==
    {[r |-> IF r.base = Aligned(a, BufSize) THEN r
            ELSE [Emptied(r) EXCEPT !.base = Aligned(a, BufSize), !.buf = [i \in Window |-> Erased]],
      ok |-> TRUE, bad |-> FALSE, m |-> mem]}

\* The buffer covers address a: flush it and start again unless it already does.
\* memset on a buffer that flash_prepare freed is a bad access too.
BufferReady(r, a) ==
    IF r.base = Aligned(a, BufSize)
    THEN {[r |-> r, ok |-> TRUE, bad |-> FALSE, m |-> mem]}
    ELSE {[x EXCEPT !.bad = @ \/ x.r.buf = NoBuf,
                    !.r = IF x.r.buf = NoBuf THEN x.r
                          ELSE [x.r EXCEPT !.base = Aligned(a, BufSize), !.buf = [i \in Window |-> Erased]]] :
             x \in Flush(r)}

\* One pass of the loop of flash_buffered_write.
WriteWindow ==
    LET f == call.active
        cells == call.addr .. call.addr + LocalLen - 1
    IN  /\ ~panic
        /\ call.op = "write"
        /\ call.inner
        /\ call.len > 0
        /\ call.addr \in Cells(f)
        /\ \E x \in BufferReady(Region(f), call.addr) :
             /\ panic' = x.bad
             /\ mem' = x.m
             /\ IF x.bad
                THEN UNCHANGED <<bufVars, call, want, fresh>>
                ELSE /\ SetRegion(f, [x.r EXCEPT
                            !.buf = [i \in Window |-> IF x.r.base + i \in cells THEN call.data ELSE @[i]],
                            !.low = IF call.addr < @ THEN call.addr ELSE @,
                            !.high = IF call.addr + LocalLen > @ THEN call.addr + LocalLen ELSE @])
                     /\ want' = [a \in Mapped |-> IF a \in cells THEN call.data ELSE want[a]]
                     /\ fresh' = fresh \ cells
                     /\ call' = [call EXCEPT !.addr = @ + LocalLen, !.len = @ - LocalLen,
                                             !.ok = @ /\ x.ok]
        /\ UNCHANGED <<flash_mode, clean, completed>>

\* flash_buffered_write returns at the end of the data or of the region.
WriteEnd ==
    /\ ~panic
    /\ call.op = "write"
    /\ call.inner
    /\ call.len = 0 \/ call.addr \notin Cells(call.active)
    /\ IF call.ok /\ call.len > 0
       THEN /\ call' = [call EXCEPT !.inner = FALSE]
            /\ UNCHANGED <<clean, fresh>>
       ELSE Return(call.ok)
    /\ UNCHANGED <<bufVars, flash_mode, mem, panic, want, completed>>

\* What the session asked for is settled; the next one starts from what the flash
\* holds.
SessionOver(ok) ==
    /\ call' = [NoCall EXCEPT !.ok = ok]
    /\ completed' = (clean /\ ok)
    /\ want' = IF clean /\ ok THEN want ELSE mem
    /\ clean' = TRUE
    /\ fresh' = {}

\* target_flash_complete outside flash mode fails at once.
CompleteBegin ==
    /\ Idle
    /\ IF flash_mode THEN /\ call' = [NoCall EXCEPT !.op = "complete"]
                          /\ completed' = FALSE
                          /\ UNCHANGED <<want, clean, fresh>>
                     ELSE SessionOver(FALSE)
    /\ UNCHANGED <<client, bufVars, flash_mode, mem, panic>>

\* Flush and leave one region.
CompleteRegion ==
    /\ ~panic
    /\ call.op = "complete"
    /\ call.active \in Regions
    /\ \E x \in FlushDone(Region(call.active)) :
         /\ SetRegion(call.active, x.r)
         /\ mem' = x.m
         /\ panic' = x.bad
         /\ call' = [call EXCEPT !.active = @ + 1, !.ok = @ /\ x.ok]
    /\ UNCHANGED <<flash_mode, history>>

\* target_exit_flash_mode, whose result is ignored.
CompleteEnd ==
    /\ ~panic
    /\ call.op = "complete"
    /\ call.active \notin Regions
    /\ flash_mode' = FALSE
    /\ SessionOver(call.ok)
    /\ UNCHANGED <<bufVars, mem, panic>>

-----------------------------------------------------------------------------
(* The client: GDB's `load` erases everything it is going to write before it   *)
(* writes, and writes no cell twice.  gdb_main.c completes after a failure.     *)

NothingPending == \A f \in Regions : ~Pending(Region(f))

ClientErase ==
    /\ clean
    /\ NothingPending
    /\ \E q \in Ranges : EraseBegin(q[1], q[2])

ClientWrite ==
    /\ clean
    /\ \E q \in Ranges, d \in Data :
         /\ Mapped \cap (q[1] .. q[1] + q[2] - 1) \subseteq fresh
         /\ WriteBegin(q[1], q[2], d)

\* The call in progress gets on.
Step ==
    /\ UNCHANGED client
    /\ \/ Refuse
       \/ EraseBlock
       \/ EraseSwitch
       \/ EraseEnd
       \/ Settle
       \/ SettleEnd
       \/ WriteSwitch
       \/ WriteRegion
       \/ WriteWindow
       \/ WriteEnd
       \/ CompleteRegion
       \/ CompleteEnd

Next ==
    /\ client = "gdb"
    /\ ClientErase \/ ClientWrite \/ CompleteBegin \/ Step

-----------------------------------------------------------------------------
(* Properties *)

Windows == [Window -> Data \cup {Erased}]

\* Every variable has its type.
TypeOK ==
    /\ operation \in [Regions -> {"none", "erase", "write"}]
    /\ buf \in [Regions -> {NoBuf} \cup Windows]
    /\ base \in [Regions -> 0 .. UINT32_MAX]
    /\ low \in [Regions -> 0 .. UINT32_MAX]
    /\ high \in [Regions -> 0 .. UINT32_MAX]
    /\ flash_mode \in BOOLEAN
    /\ mem \in [Mapped -> Contents]
    /\ call \in [op : {"none", "refuse", "erase", "settle", "write", "complete"},
                  addr : Nat, len : 0 .. UINT32_MAX, data : Data \cup {Erased},
                  active : 0 .. Flashes + 1, ok : BOOLEAN, inner : BOOLEAN]
    /\ panic \in BOOLEAN
    /\ want \in [Mapped -> Contents]
    /\ clean \in BOOLEAN
    /\ fresh \subseteq Mapped
    /\ completed \in BOOLEAN

\* A load from GDB whose driver can prepare every region: a prepare that fails inside a
\* flush moves the buffer on with the old marks (target_flash.c:225-231).
Steady == client = "gdb" /\ "prepare" \notin Faults[client]

\* What a flush would read lies inside the buffer: buf_addr_low and buf_addr_high
\* belong to the window at buf_addr_base (target_internal.h:70-72, target_flash.c:201-243).
BufferWindow ==
    Steady =>
      \A f \in Regions : LET r == Region(f) IN
        Pending(r) => \A a \in Units(r) : r.base <= a /\ a + WriteSize <= r.base + BufSize

\* No flush of a load from GDB works on a buffer that flash_prepare has freed under it.
NoBadAccess == Steady => ~panic

\* When target_flash_complete reports success to GDB, and so did every call before it,
\* the flash holds exactly what was asked for, in every cell of every region: nothing
\* is left in a buffer, nothing else was touched.  A driver whose write reports success
\* without having programmed is not noticed here.
CompletedIsProgrammed ==
    Steady /\ "silent" \notin Faults[client] /\ completed => \A a \in Mapped : mem[a] = want[a]

\* After target_flash_complete no region is in an operation, whoever called and whatever
\* failed; and after a load from GDB none has data left that a later session would write,
\* whatever failed but a prepare.  A prepare that fails in the flush makes it return early
\* (target_flash.c:198), and the buffer of a region without an operation is not freed
\* (:115): its data stays pending after the complete (:308-312).
CompleteLeavesIdle ==
    ~flash_mode => \A f \in Regions : operation[f] = "none" /\ (Steady => ~Pending(Region(f)))

==============================================================================
