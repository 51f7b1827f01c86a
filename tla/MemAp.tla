-------------------------------- MODULE MemAp --------------------------------
(***************************************************************************)
(* Target memory through the debug port: the byte transfers of adiv5.c over *)
(* the SWD, JTAG and emulated transports, and the error reporting of        *)
(* target_mem_read and target_mem_write around them.                       *)
(*                                                                         *)
(* One step is one register access on the wire with its acknowledgement,   *)
(* so that a fault may fall between any two accesses of a transfer.  The   *)
(* memory access port posts its reads (an access returns what the one      *)
(* before it fetched) and increments its address within one page only:     *)
(* that is what emu_shim.c emulates and what the hardware does.            *)
(***************************************************************************)
EXTENDS Integers, Sequences

CONSTANTS
    Transports,   \* the ways to reach a target: "swd", "jtag", "emu"
    Page,         \* bytes the address register counts through before it wraps (1 KiB)
    MaxAddr,      \* bound: bytes of target memory
    Unmapped,     \* addresses that answer with a bus error
    Lens,         \* bound: the lengths of transfers tried
    MaxHits,      \* bound: faults on the wire
    MaxOps        \* bound: transfers

ASSUME TransportAssumption == Transports \subseteq {"swd", "jtag", "emu"}
ASSUME PageAssumption == Page \in Nat \ {0} /\ Page % 4 = 0
ASSUME BoundAssumption == MaxAddr \in Nat /\ Lens \subseteq 0 .. MaxAddr /\ MaxHits \in Nat /\ MaxOps \in Nat
ASSUME UnmappedAssumption == Unmapped \subseteq 0 .. MaxAddr - 1

VARIABLES
    transport,  \* how dp->low_access reaches the target (fixed by the scan)
    fault,      \* dp->fault: 0 or the acknowledgement that was latched
    sticky,     \* the target's sticky error flag in CTRL/STAT
    select,     \* DP SELECT: the register bank of the access port
    csw,        \* AP CSW: bytes per access
    tar,        \* AP TAR
    posted,     \* the word the last AP read fetched
    mem,        \* the target's memory
    op,         \* the transfer in progress, or the one that ended last
    hits, ops   \* faults and transfers so far

apVars == <<sticky, select, csw, tar, posted, mem>>
vars == <<transport, fault, apVars, op, hits, ops>>

Addr == 0 .. MaxAddr - 1
NoAddr == -1          \* the debug registers, outside the modelled memory
Lanes == 0 .. 3
Junk == -2            \* what a failed or stale read shifts out
Byte == {Junk, 0} \union (1 .. MaxAddr) \union (100 .. 100 + MaxAddr)
Word == [Lanes -> Byte]
ZeroWord == [i \in Lanes |-> 0]
JunkWord == [i \in Lanes |-> Junk]
ApRegs == {"CSW", "TAR", "DRW"}
Acks == {0, 1, 2, 4, 7}
WAIT == 2
FAULT == 4
NO_RESPONSE == 7

Payload(i) == 100 + i          \* byte i of the caller's buffer
Original(a) == a + 1           \* what the target holds at first

Idle == [kind |-> "none", pc |-> "idle", base |-> 0, len |-> 0, left |-> 0, at |-> 0, page |-> 0,
         size |-> 4, got |-> <<>>, before |-> [a \in Addr |-> Original(a)],
         checked |-> FALSE, clean |-> TRUE, err |-> FALSE]

Init ==
    /\ transport \in Transports
    /\ fault = 0
    /\ sticky = FALSE
    /\ select = "bank0"
    /\ csw = 4
    /\ tar = NoAddr
    /\ posted = ZeroWord
    /\ mem = [a \in Addr |-> Original(a)]
    /\ op = Idle
    /\ hits = 0
    /\ ops = 0

-----------------------------------------------------------------------------
(* The access port, external but for the emulator *)

\* tar_autoinc: the low bits count, the page stays.
tar_autoinc(t, size) == (t \div Page) * Page + ((t + size) % Page)

\* The bytes of an access appear on the lanes of their addresses.
OnLanes(t, size, m) ==
    LET lane == t % 4
    IN  [i \in Lanes |-> IF i >= lane /\ i < lane + size THEN m[t + (i - lane)] ELSE 0]

BusError(t) == t \notin Addr \/ t + csw > MaxAddr \/ \E a \in Unmapped : a >= t /\ a < t + csw

\* A write to a register of the access port, w for DRW and n for CSW and TAR.
ApWrite(reg, n, w) ==
    CASE reg = "CSW" -> /\ csw' = IF select = "bank0" THEN n ELSE csw
                        /\ UNCHANGED <<sticky, tar, mem, posted>>
      [] reg = "TAR" -> /\ tar' = IF select = "bank0" THEN n ELSE tar
                        /\ UNCHANGED <<sticky, csw, mem, posted>>
      [] reg = "DRW" /\ select = "bank0" ->
            /\ sticky' = BusError(tar)
            /\ mem' = IF BusError(tar) THEN mem
                      ELSE [a \in Addr |-> IF a >= tar /\ a < tar + csw THEN w[a % 4] ELSE mem[a]]
            /\ tar' = IF BusError(tar) THEN tar ELSE tar_autoinc(tar, csw)
            /\ UNCHANGED <<csw, posted>>
      [] OTHER ->               \* the banked data register of the word that holds TAR
            /\ UNCHANGED <<csw, tar, posted, sticky>>
            /\ mem' = [a \in Addr |-> IF tar \in Addr /\ a \div 4 = tar \div 4 THEN w[a % 4] ELSE mem[a]]

\* A read of DRW: the caller gets what was posted, the port fetches the next.
ApRead ==
    /\ sticky' = BusError(tar)
    /\ posted' = IF BusError(tar) \/ select # "bank0" THEN JunkWord ELSE OnLanes(tar, csw, mem)
    /\ tar' = IF BusError(tar) \/ select # "bank0" THEN tar ELSE tar_autoinc(tar, csw)
    /\ UNCHANGED <<csw, mem>>

-----------------------------------------------------------------------------
(* One access on the wire *)

\* firmware_swdp_low_access skips an AP access while a fault is latched;
\* fw_adiv5_jtagdp_low_access and emu_shim_low_access have no such latch.
\* Mutant: AP accesses go out whatever is latched.
Latched_Dropped(reg) == FALSE
Latched(reg) == transport = "swd" /\ reg \in ApRegs /\ fault # 0

\* What the wire may do to an access besides carrying it out.
Injected(rnw) ==
    IF hits = MaxHits THEN {}
    ELSE CASE transport = "swd"  -> {"wait", "fault", "noresp", "invalid"}
                                    \union (IF rnw = "read" THEN {"parity"} ELSE {})
           [] transport = "jtag" -> {"wait", "invalid"}
           [] transport = "emu"  -> {}

\* The acknowledgement the code latches for each of them.
Latch(k) ==
    CASE k = "wait"   -> IF transport = "swd" THEN WAIT ELSE 1
      [] k = "fault"  -> FAULT
      [] k = "noresp" -> NO_RESPONSE
      [] k = "parity" -> 1
      [] k = "invalid" -> fault

Raises == {"invalid", "parity"}

\* The access is carried out.  On SWD a sticky error of the access before it is
\* answered with FAULT, the loop clears it through ABORT and repeats the access;
\* on JTAG the flag stays and the access port ignores what follows.
Carried(rnw, reg, n, w) ==
    /\ fault' = fault
    /\ hits' = hits
    /\ IF transport = "jtag" /\ sticky /\ reg \in ApRegs
       THEN posted' = JunkWord /\ UNCHANGED <<sticky, select, csw, tar, mem>>
       ELSE CASE reg = "SELECT" ->
                   /\ select' = "bank0"
                   /\ sticky' = (sticky /\ transport = "jtag")
                   /\ UNCHANGED <<csw, tar, posted, mem>>
              [] reg = "RDBUFF" ->
                   /\ sticky' = (sticky /\ transport = "jtag")
                   /\ UNCHANGED <<select, csw, tar, posted, mem>>
              [] OTHER ->
                   /\ IF rnw = "write" THEN ApWrite(reg, n, w) ELSE ApRead
                   /\ UNCHANGED select

\* dp->low_access: a word comes back to the transfer (After), zero when the access is
\* skipped or given up after 250 ms, or an exception ends it.
LowAccess(rnw, reg, n, w, After(_)) ==
    \/ /\ Latched(reg)
       /\ op' = [After(ZeroWord) EXCEPT !.clean = FALSE]
       /\ UNCHANGED <<fault, apVars, hits>>
    \/ /\ ~Latched(reg)
       /\ Carried(rnw, reg, n, w)
       /\ op' = [After(posted) EXCEPT !.clean = @ /\ ~sticky']
    \/ /\ ~Latched(reg)
       /\ \E k \in Injected(rnw) :
             /\ hits' = hits + 1
             /\ fault' = Latch(k)
             /\ op' = IF k \in Raises THEN [op EXCEPT !.pc = "raised", !.clean = FALSE]
                                      ELSE [After(ZeroWord) EXCEPT !.clean = FALSE]
       /\ UNCHANGED apVars

Raw(rnw, reg, n, w, After(_)) ==
    LowAccess(rnw, reg, n, w, After) /\ UNCHANGED <<transport, ops>>

\* adiv5_dp_recoverable_access after its first try: dp->error resets the line and clears
\* what is latched, of this access or of an earlier one, and the access is made again.
Recover(from, again) ==
    /\ op.pc = from
    /\ fault = NO_RESPONSE
    /\ fault' = 0
    /\ sticky' = FALSE
    /\ op' = [op EXCEPT !.pc = again]
    /\ UNCHANGED <<transport, select, csw, tar, posted, mem, hits, ops>>

-----------------------------------------------------------------------------
(* A transfer *)

AlignOf(x) == IF x % 4 = 0 THEN 4 ELSE IF x % 2 = 0 THEN 2 ELSE 1
MIN_ALIGN(x, y) == IF AlignOf(x) < AlignOf(y) THEN AlignOf(x) ELSE AlignOf(y)

\* adiv5_unpack_data and adiv5_pack_data: the lanes of the element at address a.
Unpack(a, size, w) == [i \in 1 .. size |-> w[(a % 4) + i - 1]]

Pack(a, size, from) == [i \in Lanes |-> IF i >= a % 4 /\ i < (a % 4) + size THEN Payload(from + (i - (a % 4))) ELSE 0]

\* The next address lies in another page than the last TAR write.
Crosses(a, page) == a \div Page # page

\* target_mem_read and target_mem_write (checked), target_mem_read32 and
\* target_mem_write32 (not checked) start a transfer; a read of nothing makes no access.
Start(kind, a, n, checked) ==
    /\ op.pc \in {"idle", "done"}
    /\ ops < MaxOps
    /\ a + n <= MaxAddr
    /\ checked \/ (n \in {1, 2, 4} /\ a % n = 0)
    /\ op' = [kind |-> kind, pc |-> IF kind = "read" /\ n = 0 THEN "end" ELSE "select",
              base |-> a, len |-> n, left |-> n \div MIN_ALIGN(a, n), at |-> a, page |-> a \div Page,
              size |-> MIN_ALIGN(a, n), got |-> <<>>, before |-> mem,
              checked |-> checked, clean |-> fault = 0, err |-> FALSE]
    /\ ops' = ops + 1
    /\ UNCHANGED <<transport, fault, apVars, hits>>

\* A read fetches before it takes, a write starts with its first element.
\* Mutant: the value the port held before is taken for the first element.
AfterTar_NoFetch ==
    IF op.kind = "read" THEN (IF op.left = 1 THEN "rdbuff" ELSE "drw")
    ELSE IF op.left = 0 THEN "rdbuff" ELSE "drw"
AfterTar == IF op.kind = "read" THEN "fetch" ELSE IF op.left = 0 THEN "rdbuff" ELSE "drw"

\* ap_mem_access_setup: SELECT (with recovery), CSW, TAR.
SetupSelect ==
    /\ op.pc \in {"select", "reselect"}
    /\ Raw("write", "SELECT", 0, ZeroWord,
           LAMBDA w : [op EXCEPT !.pc = IF @ = "select" THEN "selected" ELSE "csw"])

SetupRecover == Recover("selected", "reselect")

SetupCsw ==
    /\ op.pc = "csw" \/ (op.pc = "selected" /\ fault # NO_RESPONSE)
    /\ Raw("write", "CSW", op.size, ZeroWord, LAMBDA w : [op EXCEPT !.pc = "tar"])

SetupTar ==
    /\ op.pc = "tar"
    /\ Raw("write", "TAR", op.at, ZeroWord,
           LAMBDA w : [op EXCEPT !.pc = AfterTar])

\* The first DRW read of a run only posts; its value belongs to nobody.
Fetch ==
    /\ op.pc = "fetch"
    /\ Raw("read", "DRW", 0, ZeroWord,
           LAMBDA w : [op EXCEPT !.pc = IF op.left = 1 THEN "rdbuff" ELSE "drw"])

\* One turn of advi5_mem_read_bytes' loop: the value of the element before.
ReadDrw ==
    /\ op.pc = "drw" /\ op.kind = "read"
    /\ LET next == op.at + op.size IN
       Raw("read", "DRW", 0, ZeroWord,
           LAMBDA w : [op EXCEPT !.got = @ \o Unpack(op.at, op.size, w),
                                 !.at = next,
                                 !.left = @ - 1,
                                 !.page = next \div Page,
                                 !.pc = IF Crosses(next, op.page) THEN "retar"
                                        ELSE IF op.left = 2 THEN "rdbuff" ELSE "drw"])

\* One turn of adiv5_mem_write_bytes' loop.
WriteDrw ==
    /\ op.pc = "drw" /\ op.kind = "write"
    /\ LET next == op.at + op.size IN
       Raw("write", "DRW", 0, Pack(op.at, op.size, op.at - op.base),
           LAMBDA w : [op EXCEPT !.at = next,
                                 !.left = @ - 1,
                                 !.page = next \div Page,
                                 !.pc = IF Crosses(next, op.page) THEN "retar"
                                        ELSE IF op.left = 1 THEN "rdbuff" ELSE "drw"])

\* Beyond the page: TAR again, and for a read another fetch.
Retar ==
    /\ op.pc = "retar"
    /\ Raw("write", "TAR", op.at, ZeroWord,
           LAMBDA w : [op EXCEPT !.pc = AfterTar])

\* RDBUFF: the last element of a read (raw), or the dummy read that waits for the
\* last write (adiv5_dp_read, with recovery).
Rdbuff ==
    /\ op.pc \in {"rdbuff", "rerdbuff"}
    /\ Raw("read", "RDBUFF", 0, ZeroWord,
           LAMBDA w : IF op.kind = "read"
                      THEN [op EXCEPT !.got = @ \o Unpack(op.at, op.size, w), !.pc = "end"]
                      ELSE [op EXCEPT !.pc = IF @ = "rdbuff" THEN "flushed" ELSE "end"])

RdbuffRecover == Recover("flushed", "rerdbuff")

\* target_check_error reads CTRL/STAT, clears the sticky flag and the latch, and reports
\* the sticky flag only.  The SWD version takes an unanswered read for "no error"; what the
\* JTAG version returns is the word its last scan shifts out, which is the target's.
CheckError ==
    \/ /\ sticky' = FALSE
       /\ fault' = 0
       /\ hits' = hits
       /\ \E e \in IF transport = "jtag" THEN {FALSE, sticky} ELSE {sticky} :
             op' = [op EXCEPT !.pc = "done", !.err = e]
    \/ /\ Injected("read") # {}
       /\ hits' = hits + 1
       /\ sticky' = sticky
       /\ \/ /\ fault' = 0
             /\ op' = [op EXCEPT !.pc = "done"]
          \/ /\ transport = "jtag"
             /\ fault' = fault
             /\ op' = [op EXCEPT !.pc = "raised"]

End ==
    /\ op.pc = "end" \/ (op.pc = "flushed" /\ fault # NO_RESPONSE)
    /\ IF op.checked THEN CheckError
       ELSE op' = [op EXCEPT !.pc = "done"] /\ UNCHANGED <<fault, sticky, hits>>
    /\ UNCHANGED <<transport, select, csw, tar, posted, mem, ops>>

\* cortexm_regs_read and cortexm_regs_write leave the banked data registers selected; with
\* a fault latched only SELECT, a DP register, is written.
RegsAccess ==
    /\ op.pc \in {"idle", "done"}
    /\ select' = "bank1"
    /\ tar' = IF Latched("TAR") THEN tar ELSE NoAddr
    /\ csw' = IF Latched("CSW") THEN csw ELSE 4
    /\ op' = [Idle EXCEPT !.kind = "regs", !.before = mem]
    /\ UNCHANGED <<transport, fault, sticky, posted, mem, hits, ops>>

\* An exception ends the transfer: every frame that catches it drops the target, and with
\* no frame the probe reboots.  The next scan allocates a new DP (fault 0).
Rescan ==
    /\ op.pc = "raised"
    /\ op' = [Idle EXCEPT !.before = mem]
    /\ fault' = 0
    /\ sticky' = FALSE
    /\ UNCHANGED <<transport, select, csw, tar, posted, mem, hits, ops>>

Next ==
    \/ \E kind \in {"read", "write"}, a \in Addr, n \in Lens, checked \in BOOLEAN :
          Start(kind, a, n, checked)
    \/ SetupSelect \/ SetupRecover \/ SetupCsw \/ SetupTar
    \/ Fetch \/ ReadDrw \/ WriteDrw \/ Retar \/ Rdbuff \/ RdbuffRecover \/ End
    \/ RegsAccess \/ Rescan

Spec == Init /\ [][Next]_vars

-----------------------------------------------------------------------------
(* Properties *)

\* Types of the port's and the transfer's state.
TypeOK ==
    /\ transport \in Transports
    /\ fault \in Acks
    /\ sticky \in BOOLEAN
    /\ select \in {"bank0", "bank1"}
    /\ csw \in {1, 2, 4}
    /\ tar \in Addr \union {NoAddr, MaxAddr}
    /\ posted \in Word
    /\ mem \in [Addr -> Byte]
    /\ op.got \in Seq(Byte) /\ Len(op.got) <= op.len
    /\ hits \in 0 .. MaxHits /\ ops \in 0 .. MaxOps

Span(a, n) == {x \in Addr : x >= a /\ x < a + n}

\* A transfer that met no fault moved exactly the bytes asked for, whatever their
\* alignment, the lanes, the page boundaries they cross and the state the accesses
\* before it left the port in (advi5_mem_read_bytes, adiv5_mem_write_bytes).
TransferExact ==
    op.pc = "done" /\ op.clean =>
        /\ op.kind = "read" => op.got = [i \in 1 .. op.len |-> mem[op.base + i - 1]]
        /\ op.kind = "write" =>
              mem = [a \in Addr |-> IF a \in Span(op.base, op.len) THEN Payload(a - op.base)
                                    ELSE op.before[a]]

\* Over SWD and the emulator no fault, at whatever access of a transfer it falls, lets a
\* write reach memory outside the bytes it was asked to write: once TAR or SELECT could
\* not be written, the latch keeps DRW from being written too.
WriteContained ==
    transport # "jtag" =>
        \A a \in Addr : mem[a] # op.before[a] => op.kind = "write" /\ a \in Span(op.base, op.len)
=============================================================================
