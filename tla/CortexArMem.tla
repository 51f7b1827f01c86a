---------------------------- MODULE CortexArMem ----------------------------
(***************************************************************************)
(* Memory and coprocessor accesses through a Cortex-A or Cortex-R core      *)
(* (cortexar.c): the debugger feeds loads and stores to the halted core     *)
(* through the access port's banked window on its debug registers.         *)
(*                                                                         *)
(* A transfer is one step: the core is halted and nothing else uses the    *)
(* port meanwhile.  What the steps share is what may go stale: the flag     *)
(* that says the window is in place (on the debug port, which another core *)
(* may use), the copy of the program's fault registers and its validity    *)
(* bit, and the fault bits of the transfer before.                         *)
(***************************************************************************)
EXTENDS Integers, Sequences

CONSTANTS
    ArTop,      \* bound: bytes of memory
    ArStarts, ArLens,   \* bound: addresses and lengths of transfers
    ArBad,      \* addresses that abort
    MaxWrites   \* bound: transfers that write

ASSUME ArAssumption == ArTop \in Nat /\ ArBad \subseteq 0 .. ArTop - 1 /\ ArStarts \subseteq 0 .. ArTop - 1 /\ ArLens \subseteq 1 .. ArTop /\ MaxWrites \in Nat

VARIABLES
    held,       \* the cores this firmware has attached to: "ar" and "m", another on the port
    cur,        \* the one GDB works on, or "none"
    halted,     \* the A/R core is in debug state
    drv,        \* the driver and the port, see Driver
    store,      \* the memory
    done,       \* the transfer that ended last
    left,       \* history: the fault registers as the program left them
    early,      \* history: since the last resume the copy was taken for valid before it was made
    writes

arVars == <<held, cur, halted, drv, store, done, left, early, writes>>

Bytes == 0 .. ArTop - 1
Unread == -1
First(a) == a + 1
Given(i) == 100 + i
Faults == {"data", "mmu"}
FaultValues == {"zero", "run1", "run2", "abort"}

\* banked: the quirk ADIV5_AP_ACCESS_BANKED; window: the port really shows the debug
\* registers; status: priv->core_status; regs: the core's DFSR and DFAR; cache: the
\* driver's copy; astray: history, an access through a window that was not there.
Driver == [banked : BOOLEAN, window : BOOLEAN, status : SUBSET (Faults \union {"cached"}),
           regs : FaultValues, cache : FaultValues, astray : BOOLEAN]
Quiet == [kind |-> "none", addr |-> 0, len |-> 0, got |-> <<>>, before |-> <<>>, err |-> FALSE]

ArInit ==
    /\ held = {} /\ cur = "none" /\ halted = FALSE
    /\ drv = [banked |-> FALSE, window |-> FALSE, status |-> {}, regs |-> "run1", cache |-> "zero", astray |-> FALSE]
    /\ store = [a \in Bytes |-> First(a)]
    /\ done = Quiet
    /\ left = "run1" /\ early = FALSE
    /\ writes = 0

-----------------------------------------------------------------------------
(* What the primitives do to the driver's state *)

\* cortex_dbg_read32 and _write32 move the port elsewhere, and say so.
\* Mutant: without saying so.
Dbg_Silent(d) == [d EXCEPT !.window = FALSE]
Dbg(d) == [d EXCEPT !.window = FALSE, !.banked = FALSE]

\* cortexar_banked_dcc_mode, then accesses through the window.
cortexar_run_insn(d) ==
    LET there == d.window \/ ~d.banked
    IN  [d EXCEPT !.banked = TRUE, !.window = there, !.astray = @ \/ ~there]

\* A load or store that aborts; the sticky flag is cleared through cortex_dbg_write32.
cortexar_check_data_abort(d) ==
    Dbg([cortexar_run_insn(d) EXCEPT !.status = @ \union {"data"}, !.regs = "abort"])

CacheFaults(d) ==
    IF "cached" \in d.status THEN d
    ELSE [cortexar_run_insn(d) EXCEPT !.cache = d.regs, !.status = @ \union {"cached"}]

cortexar_mem_handle_fault(d) ==
    IF "data" \in d.status THEN [cortexar_run_insn(d) EXCEPT !.regs = d.cache] ELSE d

\* Assigns the complement of the fault bits where it means to clear them: the copy
\* counts as valid from here on.
cortexar_check_error(d) == [d EXCEPT !.status = {"cached"}]
Failing(d) == d.status \cap Faults # {}

\* cortexar_virt_to_phys: on a core with an MMU the translation may fail.
cortexar_virt_to_phys(d) == {d, cortexar_run_insn(d), [cortexar_run_insn(d) EXCEPT !.status = @ \union {"mmu"}]}

-----------------------------------------------------------------------------
(* The pieces of a transfer: size bytes at addr, to or from offset at of the buffer *)

Least(S) == CHOOSE i \in S : \A j \in S : i <= j
Most(S) == CHOOSE i \in S : \A j \in S : i >= j

Piece(addr, size, at) == [addr |-> addr, size |-> size, at |-> at]
When(c, p) == IF c THEN <<p>> ELSE <<>>
\* Mutant: the word still in the transfer register when the fast mode ends is left there.
Words_Short(addr, at, count) ==
    [i \in 1 .. (IF count > 2 THEN count - 1 ELSE count) |-> Piece(addr + 4 * (i - 1), 4, at + 4 * (i - 1))]
Words(addr, at, count) == [i \in 1 .. count |-> Piece(addr + 4 * (i - 1), 4, at + 4 * (i - 1))]

\* A halfword gets onto a word boundary if there is that much to transfer.
HalfFirst(addr, rest) == addr % 4 >= 2 /\ rest >= 2

\* The slow path: byte, halfword, words, then a halfword and a byte for what remains.
\* The words do not advance the offset, r0 goes on by itself.
SlowPieces(addr, len) ==
    LET odd == addr % 2
        half == IF HalfFirst(addr + odd, len - odd) THEN 2 ELSE 0
        at == odd + half
        count == (len - at) \div 4
        rest == (len - at) % 4
        two == IF rest >= 2 THEN 2 ELSE 0
    IN  When(odd = 1, Piece(addr, 1, 0)) \o When(half = 2, Piece(addr + odd, 2, odd))
        \o Words(addr + at, at, count)
        \o When(two = 2, Piece(addr + at + 4 * count, 2, at))
        \o When(rest % 2 = 1, Piece(addr + at + 4 * count + two, 1, at + two))

Pieces(addr, len) ==
    IF addr % 4 = 0 /\ len % 4 = 0 THEN Words(addr, 0, len \div 4) ELSE SlowPieces(addr, len)

\* The shapes whose offsets come out right: no words, or nothing after them.
Sound(addr, len) ==
    \A i, j \in 1 .. Len(Pieces(addr, len)) :
        i < j => Pieces(addr, len)[j].at = Pieces(addr, len)[i].at + (Pieces(addr, len)[j].addr - Pieces(addr, len)[i].addr)

Aborts(p) == \E a \in ArBad : a >= p.addr /\ a < p.addr + p.size

\* How many pieces are done: up to the first that aborts.
Done(ps) == LET bad == {i \in DOMAIN ps : Aborts(ps[i])} IN IF bad = {} THEN Len(ps) ELSE Least(bad) - 1

\* A transfer begins with the faults of the one before cleared.
Cleared(s) == s \ Faults

\* The driver after a transfer of these pieces: start address to r0, pieces, abort if any.
Transferred(d, ps) ==
    LET cached == CacheFaults(d)
        loaded == cortexar_run_insn([cached EXCEPT !.status = Cleared(@)])
    IN  cortexar_mem_handle_fault(
          IF Done(ps) < Len(ps) THEN cortexar_check_data_abort(loaded) ELSE loaded)

\* The buffer after a read; bytes past the end are the caller's.
Gathered(ps, len) ==
    [i \in 1 .. len |->
       LET hits == {k \in 1 .. Done(ps) : ps[k].at <= i - 1 /\ i - 1 < ps[k].at + ps[k].size}
       IN  IF hits = {} THEN Unread
           ELSE LET p == ps[Most(hits)] IN store[p.addr + (i - 1 - p.at)]]

Scattered(ps) ==
    [a \in Bytes |->
       LET hits == {k \in 1 .. Done(ps) : ps[k].addr <= a /\ a < ps[k].addr + ps[k].size}
       IN  IF hits = {} THEN store[a] ELSE Given(ps[Most(hits)].at + (a - ps[Most(hits)].addr))]

-----------------------------------------------------------------------------
(* Operations *)

Accessible == cur = "ar" /\ halted

\* The end of target_mem_read and _write, if the caller uses the checked form.
Ended(d, checked) == IF checked THEN cortexar_check_error(d) ELSE d

MemRead(addr, len, checked) ==
    /\ Accessible
    /\ addr + len <= ArTop
    /\ LET ps == Pieces(addr, len)
           d == Transferred(drv, ps) IN
       /\ drv' = Ended(d, checked)
       /\ done' = IF ~checked THEN Quiet
                  ELSE [kind |-> "read", addr |-> addr, len |-> len, got |-> Gathered(ps, len),
                        before |-> <<>>, err |-> Failing(d)]
    /\ UNCHANGED <<held, cur, halted, store, left, early, writes>>

MemWrite(addr, len, checked) ==
    /\ Accessible
    /\ addr + len <= ArTop /\ writes < MaxWrites
    /\ LET ps == Pieces(addr, len)
           d == Transferred(drv, ps) IN
       /\ drv' = Ended(d, checked)
       /\ store' = Scattered(ps)
       /\ done' = IF ~checked THEN Quiet
                  ELSE [kind |-> "write", addr |-> addr, len |-> len, got |-> <<>>,
                        before |-> store, err |-> Failing(d)]
    /\ writes' = writes + 1
    /\ UNCHANGED <<held, cur, halted, left, early>>

\* target_check_error by itself.
CheckStatus ==
    /\ cur = "ar"
    /\ drv' = cortexar_check_error(drv)
    /\ early' = (early \/ "cached" \notin drv.status)
    /\ done' = Quiet
    /\ UNCHANGED <<held, cur, halted, store, left, writes>>

\* cortexar_breakwatch_set: the translation's accesses, then the comparator's; _clear
\* makes the latter only.
BreakWatch ==
    /\ Accessible
    /\ \E d \in cortexar_virt_to_phys(drv) : drv' = Dbg(d)
    /\ done' = Quiet
    /\ UNCHANGED <<held, cur, halted, store, left, early, writes>>

\* cortexar_halt_poll on a halted core saves the registers.
Poll ==
    /\ Accessible
    /\ drv' = cortexar_run_insn(Dbg(drv))
    /\ done' = Quiet
    /\ UNCHANGED <<held, cur, halted, store, left, early, writes>>

\* cortexar_halt_resume: the flag cleared by hand, registers fed back, the step
\* breakpoint, the copy of the fault registers forgotten.
\* Mutant: it is kept.
Forget_Kept(s) == s
Forget(s) == s \ {"cached"}

Resumed(d) ==
    LET fed == cortexar_run_insn([d EXCEPT !.banked = FALSE])
    IN  Dbg([fed EXCEPT !.status = Forget(@)])

Resume ==
    /\ Accessible
    /\ drv' = Resumed(drv)
    /\ halted' = FALSE
    /\ early' = FALSE
    /\ done' = Quiet
    /\ UNCHANGED <<held, cur, store, left, writes>>

\* The program runs and stops again, having taken a data abort of its own or not.
Stop ==
    /\ ~halted /\ "ar" \in held
    /\ halted' = TRUE
    /\ left' \in {"run1", "run2"}
    /\ drv' = [drv EXCEPT !.regs = left']
    /\ done' = Quiet
    /\ UNCHANGED <<held, cur, store, early, writes>>

\* cortexar_attach to a core that halts in time: recovery first, then the debug registers,
\* and a poll that saves the registers, last the comparators.
AttachAr ==
    /\ cur # "ar"
    /\ cur' = "ar" /\ held' = held \union {"ar"}
    /\ halted' = TRUE
    /\ drv' = Dbg(cortexar_run_insn(Dbg(cortexar_check_error(drv))))
    /\ early' = (early \/ ~halted \/ "cached" \notin drv.status)
    /\ done' = Quiet
    /\ UNCHANGED <<store, left, writes>>

\* cortexar_detach: the comparators, then the resume.
DetachAr ==
    /\ "ar" \in held /\ halted
    /\ held' = held \ {"ar"}
    /\ cur' = IF cur = "ar" THEN "none" ELSE cur
    /\ drv' = Resumed(Dbg(drv))
    /\ halted' = FALSE
    /\ early' = FALSE
    /\ done' = Quiet
    /\ UNCHANGED <<store, left, writes>>

\* GDB attaches to the other core with the first still held; its memory accesses
\* (adiv5_mem_read and _write) move the port and leave the flag alone.
OtherCore ==
    /\ cur' = "m" /\ held' = held \union {"m"}
    /\ drv' = [drv EXCEPT !.window = FALSE]
    /\ done' = Quiet
    /\ UNCHANGED <<halted, store, left, early, writes>>

\* cortexar_reset; its last step ignores errors out of reset.
Reset ==
    /\ cur = "ar"
    /\ drv' = cortexar_check_error(Dbg(drv))
    /\ halted' = FALSE
    /\ early' = TRUE
    /\ done' = Quiet
    /\ UNCHANGED <<held, cur, store, left, writes>>

ArNext ==
    \/ \E addr \in ArStarts, len \in ArLens, checked \in BOOLEAN : MemRead(addr, len, checked) \/ MemWrite(addr, len, checked)
    \/ CheckStatus \/ BreakWatch \/ Poll \/ Resume \/ Stop \/ AttachAr \/ DetachAr \/ OtherCore \/ Reset

ArSpec == ArInit /\ [][ArNext]_arVars

-----------------------------------------------------------------------------
(* Properties *)

\* Every access meant for the core's debug registers reaches them: the flag that spares
\* the set-up of the window never survives an access that moved the port, another core's
\* included (ADIV5_AP_ACCESS_BANKED in cortexar_banked_dcc_mode and cortex_dbg_read32).
WindowTrue == drv \in Driver /\ ~drv.astray

Extent == {a \in Bytes : a >= done.addr /\ a < done.addr + done.len}

\* A transfer without an error is exact in the shapes whose offsets come out right, a
\* final byte or halfword with no words before it included, and no transfer, complete or
\* aborted, writes outside its extent (cortexar_mem_read and _write, fast and slow paths).
\* An error is reported exactly if an address aborted, whatever an unchecked transfer or a
\* failed translation before it left in core_status.
ArTransferExact ==
    /\ done.kind # "none" => (done.err <=> Extent \cap ArBad # {})
    /\ done.kind = "read" /\ ~done.err /\ Sound(done.addr, done.len) =>
         \A i \in 1 .. done.len : done.got[i] = store[done.addr + i - 1]
    /\ done.kind = "write" =>
         /\ \A a \in Bytes \ Extent : store[a] = done.before[a]
         /\ ~done.err /\ Sound(done.addr, done.len) =>
              \A a \in Extent : store[a] = Given(a - done.addr)

\* Accesses that abort leave no trace in the program's fault registers, unless an attach, a
\* reset or a target_check_error of its own came before the first transfer of the stop (cortexar_mem_handle_fault;
\* "grab the reason and restore DFSR/DFAR").
FaultRegsKept == halted /\ ~early => drv.regs = left
=============================================================================
