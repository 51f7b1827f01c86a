------------------------- MODULE CortexArMem_proofs -------------------------
(***************************************************************************)
(* Accesses through a Cortex-A or Cortex-R core, for every memory size, set *)
(* of aborting addresses and number of transfers: the banked window is     *)
(* there whenever the driver relies on it, the program's fault registers   *)
(* survive the debugger's aborts, and a transfer moves the bytes it was    *)
(* asked for.                                                              *)
(***************************************************************************)
EXTENDS CortexArMem, SequenceTheorems, WellFoundedInduction, TLAPS

-----------------------------------------------------------------------------
(* The driver's state *)

\* GDB works on the core: then the flag is right.  On another core it may be out of date,
\* and attaching again does not rely on it.
FlagRight == cur = "ar" => (drv.banked => drv.window)

\* The copy of the fault registers, where it counts as valid, is what the program left.
CopyRight == ~early /\ "cached" \in drv.status => halted /\ drv.cache = left

DriverInv ==
    /\ WindowTrue
    /\ FlagRight
    /\ left \in {"run1", "run2"}
    /\ CopyRight
    /\ FaultRegsKept

\* An access through a window the flag is right about.
LEMMA InsnKeeps ==
    ASSUME NEW d \in Driver, ~d.astray, d.banked => d.window
    PROVE  LET e == cortexar_run_insn(d) IN
           /\ e \in Driver /\ ~e.astray /\ e.banked /\ e.window
           /\ e.status = d.status /\ e.regs = d.regs /\ e.cache = d.cache
<1> QED
  BY DEF cortexar_run_insn, Driver

LEMMA DbgKeeps ==
    ASSUME NEW d \in Driver
    PROVE  /\ Dbg(d) \in Driver /\ Dbg(d).astray = d.astray
           /\ ~Dbg(d).banked /\ ~Dbg(d).window
           /\ Dbg(d).status = d.status /\ Dbg(d).regs = d.regs /\ Dbg(d).cache = d.cache
<1> QED
  BY DEF Dbg, Driver

LEMMA ErrorKeeps ==
    ASSUME NEW d \in Driver
    PROVE  LET e == cortexar_check_error(d) IN
           /\ e \in Driver /\ e.astray = d.astray /\ e.banked = d.banked /\ e.window = d.window
           /\ e.status = {"cached"} /\ e.regs = d.regs /\ e.cache = d.cache
<1> QED
  BY DEF cortexar_check_error, Driver

\* A transfer, aborted or not, on a driver whose flag is right.  The copy is made before the
\* first access that can abort, and goes back after it; the fault bits tell this transfer's
\* abort and no other.
LEMMA TransferKeeps ==
    ASSUME NEW d \in Driver, ~d.astray, d.banked => d.window, NEW ps
    PROVE  LET e == Transferred(d, ps)
               kept == IF "cached" \in d.status THEN d.cache ELSE d.regs IN
           /\ e \in Driver /\ ~e.astray /\ (e.banked => e.window)
           /\ "cached" \in e.status /\ e.cache = kept
           /\ e.regs = IF Done(ps) < Len(ps) THEN kept ELSE d.regs
           /\ Failing(e) <=> Done(ps) < Len(ps)
<1> DEFINE kept == IF "cached" \in d.status THEN d.cache ELSE d.regs
           c == CacheFaults(d)
           s == [c EXCEPT !.status = Cleared(@)]
           l == cortexar_run_insn(s)
           b == [cortexar_run_insn(l) EXCEPT !.status = @ \union {"data"}, !.regs = "abort"]
           a == cortexar_check_data_abort(l)
<1>1. /\ c \in Driver /\ ~c.astray /\ (c.banked => c.window)
      /\ "cached" \in c.status /\ c.cache = kept /\ c.regs = d.regs
  <2>1. CASE "cached" \in d.status
    BY <2>1 DEF CacheFaults
  <2>2. CASE "cached" \notin d.status
    <3> DEFINE r == cortexar_run_insn(d)
    <3>1. /\ r \in Driver /\ ~r.astray /\ r.banked /\ r.window
          /\ r.status = d.status /\ r.regs = d.regs /\ r.cache = d.cache
      BY InsnKeeps
    <3>2. c = [r EXCEPT !.cache = d.regs, !.status = @ \union {"cached"}]
      BY <2>2 DEF CacheFaults
    <3>3. d.regs \in FaultValues
      BY DEF Driver
    <3> HIDE DEF r, c
    <3> QED
      BY <2>2, <3>1, <3>2, <3>3 DEF Driver
  <2> QED
    BY <2>1, <2>2
<1>2. /\ s \in Driver /\ ~s.astray /\ (s.banked => s.window)
      /\ "cached" \in s.status /\ s.status \cap Faults = {} /\ s.cache = kept /\ s.regs = d.regs
  <2> HIDE DEF c, kept
  <2> QED
    BY <1>1 DEF Driver, Cleared, Faults
<1> HIDE DEF c, s, kept
<1>3. /\ l \in Driver /\ ~l.astray /\ l.banked /\ l.window
      /\ "cached" \in l.status /\ l.status \cap Faults = {} /\ l.cache = kept /\ l.regs = d.regs
  BY <1>2, InsnKeeps
<1> HIDE DEF l
<1>4. /\ b \in Driver /\ ~b.astray
      /\ b.status = l.status \union {"data"} /\ b.cache = kept
  <2> DEFINE r == cortexar_run_insn(l)
  <2>1. /\ r \in Driver /\ ~r.astray /\ r.status = l.status /\ r.cache = l.cache
    BY <1>3, InsnKeeps
  <2> HIDE DEF r
  <2>2. b = [r EXCEPT !.status = @ \union {"data"}, !.regs = "abort"]
    BY DEF r
  <2> HIDE DEF b
  <2> QED
    BY <1>3, <2>1, <2>2 DEF Driver, Faults, FaultValues
<1>5. a = Dbg(b)
  BY DEF cortexar_check_data_abort
<1> HIDE DEF b, a
<1>6. /\ a \in Driver /\ ~a.astray /\ ~a.banked /\ ~a.window
      /\ a.status = l.status \union {"data"} /\ a.cache = kept
  BY <1>4, <1>5, DbgKeeps
<1>7. CASE Done(ps) < Len(ps)
  <2> DEFINE r == cortexar_run_insn(a)
  <2>1. Transferred(d, ps) = [r EXCEPT !.regs = a.cache]
    BY <1>6, <1>7 DEF Transferred, c, s, l, a, cortexar_mem_handle_fault
  <2>2. /\ r \in Driver /\ ~r.astray /\ r.banked /\ r.window
        /\ r.status = a.status /\ r.cache = a.cache
    BY <1>6, InsnKeeps
  <2> HIDE DEF r
  <2> QED
    BY <1>3, <1>6, <1>7, <2>1, <2>2 DEF Driver, Failing, Faults, kept
<1>8. CASE ~(Done(ps) < Len(ps))
  <2>1. Transferred(d, ps) = l
    BY <1>3, <1>8 DEF Transferred, c, s, l, cortexar_mem_handle_fault, Faults
  <2> QED
    BY <1>3, <1>8, <2>1 DEF Failing, kept
<1> QED
  BY <1>7, <1>8

\* A transfer from a state of the invariant leads to one, checked or not.
LEMMA AccessKeeps ==
    ASSUME DriverInv, Accessible, NEW ps, NEW checked \in BOOLEAN,
           drv' = Ended(Transferred(drv, ps), checked),
           UNCHANGED <<cur, halted, left, early>>
    PROVE  DriverInv'
<1> DEFINE e == Transferred(drv, ps)
           kept == IF "cached" \in drv.status THEN drv.cache ELSE drv.regs
<1>1. /\ e \in Driver /\ ~e.astray /\ (e.banked => e.window)
      /\ "cached" \in e.status /\ e.cache = kept
      /\ e.regs = IF Done(ps) < Len(ps) THEN kept ELSE drv.regs
  BY TransferKeeps DEF DriverInv, WindowTrue, FlagRight, Accessible
<1> HIDE DEF e
<1>2. /\ drv' \in Driver /\ ~drv'.astray /\ (drv'.banked => drv'.window)
      /\ drv'.cache = kept /\ drv'.regs = e.regs
  BY <1>1, ErrorKeeps DEF Ended, e
<1>3. ~early => kept = left /\ drv.regs = left
  BY DEF DriverInv, CopyRight, FaultRegsKept, Accessible
<1> HIDE DEF kept
<1> QED
  BY <1>1, <1>2, <1>3 DEF DriverInv, WindowTrue, FlagRight, CopyRight, FaultRegsKept, Accessible

LEMMA ResumedKeeps ==
    ASSUME NEW d \in Driver, ~d.astray
    PROVE  LET e == Resumed(d) IN
           e \in Driver /\ ~e.astray /\ ~e.banked /\ "cached" \notin e.status
<1> DEFINE o == [d EXCEPT !.banked = FALSE]
           r == cortexar_run_insn(o)
           f == [r EXCEPT !.status = Forget(@)]
<1>1. o \in Driver /\ ~o.astray /\ ~o.banked
  BY DEF Driver
<1> HIDE DEF o
<1>2. r \in Driver /\ ~r.astray
  BY <1>1, InsnKeeps
<1> HIDE DEF r
<1>3. f \in Driver /\ ~f.astray /\ "cached" \notin f.status
  BY <1>2 DEF Driver, Forget
<1>4. Resumed(d) = Dbg(f)
  BY DEF Resumed, r, o
<1> HIDE DEF f
<1> QED
  BY <1>3, <1>4, DbgKeeps

LEMMA DriverStep ==
    ASSUME DriverInv, [ArNext]_arVars
    PROVE  DriverInv'
<1> USE DEF DriverInv
<1>0. drv \in Driver /\ ~drv.astray
  BY DEF WindowTrue
<1>1. ASSUME NEW addr \in ArStarts, NEW len \in ArLens, NEW checked \in BOOLEAN, MemRead(addr, len, checked)
      PROVE  DriverInv'
  BY <1>1, AccessKeeps DEF MemRead
<1>2. ASSUME NEW addr \in ArStarts, NEW len \in ArLens, NEW checked \in BOOLEAN, MemWrite(addr, len, checked)
      PROVE  DriverInv'
  BY <1>2, AccessKeeps DEF MemWrite
<1>3. CASE CheckStatus
  <2>1. /\ drv' \in Driver /\ ~drv'.astray /\ drv'.banked = drv.banked /\ drv'.window = drv.window
        /\ drv'.regs = drv.regs /\ drv'.cache = drv.cache
    BY <1>0, <1>3, ErrorKeeps DEF CheckStatus
  <2> QED
    BY <1>3, <2>1 DEF CheckStatus, WindowTrue, FlagRight, CopyRight, FaultRegsKept
<1>4. CASE BreakWatch
  <2>1. PICK d \in cortexar_virt_to_phys(drv) : drv' = Dbg(d)
    BY <1>4 DEF BreakWatch
  <2> DEFINE r == cortexar_run_insn(drv)
  <2>2. /\ r \in Driver /\ ~r.astray /\ r.status = drv.status /\ r.regs = drv.regs /\ r.cache = drv.cache
    BY <1>0, <1>4, InsnKeeps DEF BreakWatch, Accessible, FlagRight
  <2>3. d \in {drv, r, [r EXCEPT !.status = @ \union {"mmu"}]}
    BY <2>1 DEF cortexar_virt_to_phys
  <2> HIDE DEF r
  <2>4. /\ d \in Driver /\ ~d.astray /\ d.regs = drv.regs /\ d.cache = drv.cache
        /\ "cached" \in d.status <=> "cached" \in drv.status
    BY <1>0, <2>2, <2>3 DEF Driver, Faults
  <2>5. /\ drv' \in Driver /\ ~drv'.astray /\ ~drv'.banked /\ drv'.status = d.status
        /\ drv'.regs = d.regs /\ drv'.cache = d.cache
    BY <2>1, <2>4, DbgKeeps
  <2> QED
    BY <1>4, <2>4, <2>5 DEF BreakWatch, WindowTrue, FlagRight, CopyRight, FaultRegsKept
<1>5. CASE Poll
  <2> DEFINE d == Dbg(drv)
  <2>1. /\ d \in Driver /\ ~d.astray /\ ~d.banked /\ d.status = drv.status
        /\ d.regs = drv.regs /\ d.cache = drv.cache
    BY <1>0, DbgKeeps
  <2>2. drv' = cortexar_run_insn(d)
    BY <1>5 DEF Poll
  <2> HIDE DEF d
  <2>3. /\ drv' \in Driver /\ ~drv'.astray /\ drv'.window /\ drv'.status = drv.status
        /\ drv'.regs = drv.regs /\ drv'.cache = drv.cache
    BY <2>1, <2>2, InsnKeeps
  <2> QED
    BY <1>5, <2>3 DEF Poll, WindowTrue, FlagRight, CopyRight, FaultRegsKept
<1>6. CASE Resume
  <2>1. drv' \in Driver /\ ~drv'.astray /\ ~drv'.banked /\ "cached" \notin drv'.status
    BY <1>0, <1>6, ResumedKeeps DEF Resume
  <2> QED
    BY <1>6, <2>1 DEF Resume, WindowTrue, FlagRight, CopyRight, FaultRegsKept
<1>7. CASE Stop
  <2>1. /\ drv' \in Driver /\ drv'.astray = drv.astray /\ drv'.banked = drv.banked
        /\ drv'.window = drv.window /\ drv'.status = drv.status /\ drv'.regs = left'
        /\ left' \in {"run1", "run2"}
    BY <1>0, <1>7 DEF Stop, Driver, FaultValues
  <2> QED
    BY <1>7, <2>1 DEF Stop, WindowTrue, FlagRight, CopyRight, FaultRegsKept
<1>8. CASE AttachAr
  <2> DEFINE c == cortexar_check_error(drv)
             d == Dbg(c)
             r == cortexar_run_insn(d)
  <2>1. /\ c \in Driver /\ ~c.astray /\ c.regs = drv.regs /\ c.cache = drv.cache
    BY <1>0, ErrorKeeps
  <2> HIDE DEF c
  <2>2. /\ d \in Driver /\ ~d.astray /\ ~d.banked /\ d.regs = drv.regs /\ d.cache = drv.cache
    BY <2>1, DbgKeeps
  <2> HIDE DEF d
  <2>3. /\ r \in Driver /\ ~r.astray /\ r.regs = drv.regs /\ r.cache = drv.cache
    BY <2>2, InsnKeeps
  <2>4. drv' = Dbg(r)
    BY <1>8 DEF AttachAr, c, d
  <2> HIDE DEF r
  <2>5. /\ drv' \in Driver /\ ~drv'.astray /\ ~drv'.banked /\ drv'.regs = drv.regs /\ drv'.cache = drv.cache
    BY <2>3, <2>4, DbgKeeps
  <2> QED
    BY <1>8, <2>5 DEF AttachAr, WindowTrue, FlagRight, CopyRight, FaultRegsKept
<1>9. CASE DetachAr
  <2> DEFINE d == Dbg(drv)
  <2>1. d \in Driver /\ ~d.astray
    BY <1>0, DbgKeeps
  <2> HIDE DEF d
  <2>2. drv' = Resumed(d)
    BY <1>9 DEF DetachAr, d
  <2>3. drv' \in Driver /\ ~drv'.astray /\ ~drv'.banked /\ "cached" \notin drv'.status
    BY <2>1, <2>2, ResumedKeeps
  <2> QED
    BY <1>9, <2>3 DEF DetachAr, WindowTrue, FlagRight, CopyRight, FaultRegsKept
<1>10. CASE OtherCore
  <2>1. /\ drv' \in Driver /\ ~drv'.astray /\ drv'.status = drv.status
        /\ drv'.regs = drv.regs /\ drv'.cache = drv.cache
    BY <1>0, <1>10 DEF OtherCore, Driver
  <2> QED
    BY <1>10, <2>1 DEF OtherCore, WindowTrue, FlagRight, CopyRight, FaultRegsKept
<1>11. CASE Reset
  <2> DEFINE d == Dbg(drv)
  <2>1. d \in Driver /\ ~d.astray /\ ~d.banked
    BY <1>0, DbgKeeps
  <2> HIDE DEF d
  <2>2. drv' = cortexar_check_error(d)
    BY <1>11 DEF Reset, d
  <2>3. drv' \in Driver /\ ~drv'.astray /\ ~drv'.banked
    BY <2>1, <2>2, ErrorKeeps
  <2> QED
    BY <1>11, <2>3 DEF Reset, WindowTrue, FlagRight, CopyRight, FaultRegsKept
<1>12. CASE UNCHANGED arVars
  BY <1>12 DEF arVars, WindowTrue, FlagRight, CopyRight, FaultRegsKept
<1> QED
  BY <1>1, <1>2, <1>3, <1>4, <1>5, <1>6, <1>7, <1>8, <1>9, <1>10, <1>11, <1>12 DEF ArNext

LEMMA DriverInit ==
    ASSUME ArInit
    PROVE  DriverInv
<1> QED
  BY DEF ArInit, DriverInv, WindowTrue, FlagRight, CopyRight, FaultRegsKept, Driver, FaultValues, Faults

\* WindowTrue for every memory and any number of transfers: whatever attaches, resumes,
\* resets and accesses of another core come between, cortexar_run_insn never goes through
\* a window that is not there.
THEOREM WindowKept == ArSpec => []WindowTrue
<1>1. DriverInv => WindowTrue
  BY DEF DriverInv
<1> QED
  BY <1>1, DriverInit, DriverStep, PTL DEF ArSpec

\* FaultRegsKept for every set of aborting addresses: cortexar_mem_handle_fault puts back
\* what the program left, as long as the copy was not declared valid before it was made.
THEOREM FaultsKept == ArSpec => []FaultRegsKept
<1>1. DriverInv => FaultRegsKept
  BY DEF DriverInv
<1> QED
  BY <1>1, DriverInit, DriverStep, PTL DEF ArSpec

-----------------------------------------------------------------------------
(* The pieces of a transfer cover its extent, and nothing else *)

LEMMA LeastNat ==
    ASSUME NEW S, S \subseteq Nat, S # {}
    PROVE  \E x \in S : \A y \in S : x <= y
<1>1. IsWellFoundedOn(OpToRel(<, Nat), Nat)
  BY NatLessThanWellFounded, Zenon
<1>2. PICK x \in S : \A y \in S : ~(<<y, x>> \in OpToRel(<, Nat))
  BY <1>1, WFMin, Zenon
<1>3. \A y \in S : ~(y < x)
  BY <1>2 DEF OpToRel
<1> QED
  BY <1>3

LEMMA MostIn ==
    ASSUME NEW n \in Nat, NEW S, S \subseteq 1 .. n, S # {}
    PROVE  Most(S) \in S
<1> DEFINE T == {n - i : i \in S}
<1>1. T \subseteq Nat /\ T # {}
  <2>1. \A i \in S : n - i \in Nat
    OBVIOUS
  <2>2. PICK i \in S : TRUE
    OBVIOUS
  <2>3. n - i \in T
    OBVIOUS
  <2> QED
    BY <2>1, <2>3
<1>2. PICK x \in T : \A y \in T : x <= y
  BY <1>1, LeastNat
<1>3. PICK i \in S : x = n - i
  BY <1>2
<1>4. \A j \in S : i >= j
  <2> TAKE j \in S
  <2>1. n - j \in T
    OBVIOUS
  <2> QED
    BY <1>2, <1>3, <2>1
<1> QED
  BY <1>4 DEF Most

PieceSet == [addr : Nat, size : {1, 2, 4}, at : Nat]
Covers(p, a) == p.addr <= a /\ a < p.addr + p.size

\* Pieces ps make up the addresses from lo to hi, the first of them at offset at.
Tiles(ps, lo, hi, at) ==
    /\ ps \in Seq(PieceSet)
    /\ \A k \in 1 .. Len(ps) : lo <= ps[k].addr /\ ps[k].addr + ps[k].size <= hi
    /\ \A a \in lo .. hi - 1 : \E k \in 1 .. Len(ps) : Covers(ps[k], a)
    /\ Len(ps) > 0 => ps[1].addr = lo /\ ps[1].at = at

LEMMA TilesReach ==
    ASSUME NEW ps, NEW lo, NEW hi, NEW at, Tiles(ps, lo, hi, at), NEW a, a \in lo .. hi - 1
    PROVE  \E k \in 1 .. Len(ps) : Covers(ps[k], a)
<1> QED
  BY Zenon DEF Tiles

LEMMA TilesCat ==
    ASSUME NEW lo \in Nat, NEW mid \in Nat, NEW hi \in Nat, lo <= mid, mid <= hi,
           NEW at \in Nat, NEW next \in Nat, lo = mid => next = at,
           NEW p, NEW q, Tiles(p, lo, mid, at), Tiles(q, mid, hi, next)
    PROVE  Tiles(p \o q, lo, hi, at)
<1>1. p \in Seq(PieceSet) /\ q \in Seq(PieceSet)
  BY DEF Tiles
<1>2. /\ p \o q \in Seq(PieceSet)
      /\ Len(p \o q) = Len(p) + Len(q)
      /\ \A k \in 1 .. Len(p) + Len(q) : (p \o q)[k] = IF k <= Len(p) THEN p[k] ELSE q[k - Len(p)]
  BY <1>1, ConcatProperties
<1>3. Len(p) \in Nat /\ Len(q) \in Nat
  BY <1>1, LenProperties
<1> DEFINE r == p \o q
<1> HIDE DEF r
<1>4. \A k \in 1 .. Len(p) : p[k] \in PieceSet
  BY <1>1, ElementOfSeq
<1>5. \A k \in 1 .. Len(q) : q[k] \in PieceSet
  BY <1>1, ElementOfSeq
<1>6. \A k \in 1 .. Len(r) : lo <= r[k].addr /\ r[k].addr + r[k].size <= hi
  <2> TAKE k \in 1 .. Len(r)
  <2>1. CASE k <= Len(p)
    <3>1. r[k] = p[k] /\ k \in 1 .. Len(p)
      BY <1>2, <1>3, <2>1 DEF r
    <3>2. lo <= p[k].addr /\ p[k].addr + p[k].size <= mid /\ p[k] \in PieceSet
      BY <3>1, <1>4 DEF Tiles
    <3> QED
      BY <3>1, <3>2 DEF PieceSet
  <2>2. CASE ~(k <= Len(p))
    <3>1. r[k] = q[k - Len(p)] /\ k - Len(p) \in 1 .. Len(q)
      BY <1>2, <1>3, <2>2 DEF r
    <3>2. PICK j \in 1 .. Len(q) : j = k - Len(p)
      BY <3>1
    <3>3. mid <= q[j].addr /\ q[j].addr + q[j].size <= hi /\ q[j] \in PieceSet
      BY <1>5 DEF Tiles
    <3> QED
      BY <3>1, <3>2, <3>3 DEF PieceSet
  <2> QED
    BY <2>1, <2>2
<1>7. \A a \in lo .. hi - 1 : \E k \in 1 .. Len(r) : Covers(r[k], a)
  <2> TAKE a \in lo .. hi - 1
  <2>1. CASE a < mid
    <3>1. PICK k \in 1 .. Len(p) : Covers(p[k], a)
      BY <2>1 DEF Tiles
    <3>2. k \in 1 .. Len(r) /\ r[k] = p[k]
      BY <1>2, <1>3, <3>1 DEF r
    <3> QED
      BY <3>1, <3>2
  <2>2. CASE ~(a < mid)
    <3>1. PICK k \in 1 .. Len(q) : Covers(q[k], a)
      BY <2>2 DEF Tiles
    <3>2. k + Len(p) \in 1 .. Len(r) /\ r[k + Len(p)] = q[k]
      BY <1>2, <1>3, <3>1 DEF r
    <3> QED
      BY <3>1, <3>2
  <2> QED
    BY <2>1, <2>2
<1>8. Len(r) > 0 => r[1].addr = lo /\ r[1].at = at
  <2>1. CASE Len(p) > 0
    <3>1. r[1] = p[1]
      BY <1>2, <1>3, <2>1 DEF r
    <3> QED
      BY <2>1, <3>1 DEF Tiles
  <2>2. CASE Len(p) = 0 /\ Len(q) > 0
    <3>1. r[1] = q[1]
      BY <1>2, <1>3, <2>2 DEF r
    <3>2. lo = mid
      <4> SUFFICES ASSUME lo < mid PROVE FALSE
        OBVIOUS
      <4>1. lo \in lo .. mid - 1
        OBVIOUS
      <4> QED
        BY <2>2, <4>1 DEF Tiles
    <3> QED
      BY <2>2, <3>1, <3>2 DEF Tiles
  <2> QED
    BY <1>2, <1>3, <2>1, <2>2 DEF r
<1> QED
  BY <1>2, <1>6, <1>7, <1>8 DEF Tiles, r

LEMMA TilesWhen ==
    ASSUME NEW lo \in Nat, NEW at \in Nat, NEW size \in {1, 2, 4}, NEW c \in BOOLEAN
    PROVE  Tiles(When(c, Piece(lo, size, at)), lo, IF c THEN lo + size ELSE lo, at)
<1> DEFINE p == Piece(lo, size, at)
<1>1. p \in PieceSet /\ p.addr = lo /\ p.size = size /\ p.at = at
  BY DEF Piece, PieceSet
<1> HIDE DEF p
<1>2. CASE c
  <2>1. When(c, p) = <<p>>
    BY <1>2 DEF When
  <2>2. <<p>> \in Seq(PieceSet) /\ Len(<<p>>) = 1 /\ <<p>>[1] = p
    BY <1>1
  <2>3. \A a \in lo .. (lo + size) - 1 : Covers(p, a)
    BY <1>1 DEF Covers
  <2>4. Tiles(<<p>>, lo, lo + size, at)
    BY <1>1, <2>2, <2>3 DEF Tiles
  <2> QED
    BY <1>2, <2>1, <2>4 DEF p
<1>3. CASE ~c
  <2>1. When(c, p) = <<>>
    BY <1>3 DEF When
  <2>2. <<>> \in Seq(PieceSet) /\ Len(<<>>) = 0
    OBVIOUS
  <2>3. Tiles(<<>>, lo, lo, at)
    BY <2>2 DEF Tiles
  <2> QED
    BY <1>3, <2>1, <2>3 DEF p
<1> QED
  BY <1>2, <1>3

LEMMA TilesWords ==
    ASSUME NEW lo \in Nat, NEW at \in Nat, NEW count \in Nat
    PROVE  Tiles(Words(lo, at, count), lo, lo + 4 * count, at)
<1> DEFINE w == Words(lo, at, count)
<1>1. \A i \in 1 .. count : Piece(lo + 4 * (i - 1), 4, at + 4 * (i - 1)) \in PieceSet
  BY DEF Piece, PieceSet
<1>2. w \in [1 .. count -> PieceSet]
  BY <1>1 DEF Words
<1>3. w \in Seq(PieceSet) /\ Len(w) = count
  BY <1>2, SeqDef, LenProperties
<1>4. \A k \in 1 .. count : w[k].addr = lo + 4 * (k - 1) /\ w[k].size = 4 /\ w[k].at = at + 4 * (k - 1)
  BY DEF Words, Piece
<1> HIDE DEF w
<1>5. \A k \in 1 .. count : lo <= w[k].addr /\ w[k].addr + w[k].size <= lo + 4 * count
  BY <1>4
<1>6. \A a \in lo .. (lo + 4 * count) - 1 : \E k \in 1 .. count : Covers(w[k], a)
  <2> TAKE a \in lo .. (lo + 4 * count) - 1
  <2> DEFINE k == (a - lo) \div 4 + 1
  <2>1. k \in 1 .. count /\ 4 * (k - 1) <= a - lo /\ a - lo < 4 * (k - 1) + 4
    OBVIOUS
  <2> HIDE DEF k
  <2>2. Covers(w[k], a)
    BY <1>4, <2>1 DEF Covers
  <2> QED
    BY <2>1, <2>2
<1>7. count > 0 => w[1].addr = lo /\ w[1].at = at
  BY <1>4
<1> QED
  BY <1>3, <1>5, <1>6, <1>7 DEF Tiles, w

LEMMA TilesPieces ==
    ASSUME NEW addr \in Nat, NEW len \in Nat, len > 0
    PROVE  Tiles(Pieces(addr, len), addr, addr + len, 0)
<1>1. CASE addr % 4 = 0 /\ len % 4 = 0
  <2>1. len \div 4 \in Nat /\ addr + 4 * (len \div 4) = addr + len
    BY <1>1
  <2> QED
    BY <1>1, <2>1, TilesWords DEF Pieces
<1>2. CASE ~(addr % 4 = 0 /\ len % 4 = 0)
  <2> DEFINE odd == addr % 2
             half == IF HalfFirst(addr + odd, len - odd) THEN 2 ELSE 0
             at == odd + half
             count == (len - at) \div 4
             rest == (len - at) % 4
             two == IF rest >= 2 THEN 2 ELSE 0
             p1 == When(odd = 1, Piece(addr, 1, 0))
             p2 == When(half = 2, Piece(addr + odd, 2, odd))
             p3 == Words(addr + at, at, count)
             p4 == When(two = 2, Piece(addr + at + 4 * count, 2, at))
             p5 == When(rest % 2 = 1, Piece(addr + at + 4 * count + two, 1, at + two))
  <2>1. Pieces(addr, len) = p1 \o p2 \o p3 \o p4 \o p5
    BY <1>2 DEF Pieces, SlowPieces
  <2>2. odd \in {0, 1} /\ odd <= len
    OBVIOUS
  <2>3. half \in {0, 2} /\ odd + half <= len
    <3> HIDE DEF odd
    <3> QED
      BY <2>2 DEF HalfFirst
  <2> HIDE DEF odd, half
  <2>4. at \in Nat /\ at <= len /\ (at = 0 <=> odd = 0 /\ half = 0)
    BY <2>2, <2>3
  <2> HIDE DEF at
  <2>5. count \in Nat /\ rest \in 0 .. 3 /\ len = at + 4 * count + rest
    BY <2>4
  <2> HIDE DEF count, rest
  <2>6. two \in {0, 2} /\ two <= rest /\ rest = IF rest % 2 = 1 THEN two + 1 ELSE two
    BY <2>5
  <2> HIDE DEF two
  <2>7. Tiles(p1, addr, addr + odd, 0)
    <3>1. Tiles(p1, addr, IF odd = 1 THEN addr + 1 ELSE addr, 0)
      BY TilesWhen
    <3>2. (IF odd = 1 THEN addr + 1 ELSE addr) = addr + odd
      BY <2>2
    <3> QED
      BY <3>1, <3>2
  <2>8. Tiles(p2, addr + odd, addr + at, odd)
    <3>1. addr + odd \in Nat /\ odd \in Nat
      BY <2>2
    <3>2. Tiles(p2, addr + odd, IF half = 2 THEN addr + odd + 2 ELSE addr + odd, odd)
      BY <3>1, TilesWhen
    <3>3. (IF half = 2 THEN addr + odd + 2 ELSE addr + odd) = addr + at
      BY <2>2, <2>3 DEF at
    <3> QED
      BY <3>2, <3>3
  <2>9. Tiles(p3, addr + at, addr + at + 4 * count, at)
    <3>1. addr + at \in Nat
      BY <2>4
    <3> QED
      BY <2>4, <2>5, <3>1, TilesWords
  <2> DEFINE m == addr + at + 4 * count
  <2>10. m \in Nat
    BY <2>4, <2>5
  <2>11. Tiles(p4, m, m + two, at)
    <3>1. Tiles(p4, m, IF two = 2 THEN m + 2 ELSE m, at)
      BY <2>4, <2>10, TilesWhen
    <3>2. (IF two = 2 THEN m + 2 ELSE m) = m + two
      BY <2>6, <2>10
    <3> QED
      BY <3>1, <3>2
  <2>12. Tiles(p5, m + two, addr + len, at + two)
    <3>1. m + two \in Nat /\ at + two \in Nat
      BY <2>4, <2>6, <2>10
    <3>2. Tiles(p5, m + two, IF rest % 2 = 1 THEN m + two + 1 ELSE m + two, at + two)
      BY <3>1, TilesWhen
    <3>3. (IF rest % 2 = 1 THEN m + two + 1 ELSE m + two) = addr + len
      BY <2>4, <2>5, <2>6
    <3> QED
      BY <3>2, <3>3
  <2> HIDE DEF p1, p2, p3, p4, p5
  <2>13. /\ addr + odd \in Nat /\ addr <= addr + odd /\ addr + at \in Nat /\ addr + odd <= addr + at
         /\ addr + at <= m /\ m + two \in Nat /\ m <= m + two /\ addr + len \in Nat /\ m + two <= addr + len
         /\ (addr = addr + odd => odd = 0) /\ (addr = addr + at => at = 0)
         /\ (addr = m => at = 0) /\ (addr = m + two => at + two = 0)
         /\ odd \in Nat /\ at + two \in Nat
    BY <2>2, <2>3, <2>4, <2>5, <2>6 DEF at
  <2> HIDE DEF m
  <2>14. Tiles(p1 \o p2, addr, addr + at, 0)
    BY <2>7, <2>8, <2>13, TilesCat
  <2>15. Tiles(p1 \o p2 \o p3, addr, m, 0)
    <3>1. Tiles(p3, addr + at, m, at)
      BY <2>9 DEF m
    <3>2. addr <= addr + at
      BY <2>4
    <3> QED
      BY <2>4, <2>10, <2>13, <2>14, <3>1, <3>2, TilesCat
  <2>16. Tiles(p1 \o p2 \o p3 \o p4, addr, m + two, 0)
    <3>1. addr <= m
      BY <2>4, <2>5 DEF m
    <3> QED
      BY <2>4, <2>10, <2>11, <2>13, <2>15, <3>1, TilesCat
  <2>17. addr <= m + two
    BY <2>4, <2>5, <2>6 DEF m
  <2>18. Tiles(p1 \o p2 \o p3 \o p4 \o p5, addr, addr + len, 0)
    BY <2>12, <2>13, <2>16, <2>17, TilesCat
  <2> QED
    BY <2>1, <2>18
<1> QED
  BY <1>1, <1>2

-----------------------------------------------------------------------------
(* Transfers *)

LEMMA DoneIs ==
    ASSUME NEW ps \in Seq(PieceSet)
    PROVE  /\ Done(ps) \in 0 .. Len(ps)
           /\ Done(ps) < Len(ps) <=> \E k \in 1 .. Len(ps) : Aborts(ps[k])
<1> DEFINE bad == {i \in DOMAIN ps : Aborts(ps[i])}
<1>1. DOMAIN ps = 1 .. Len(ps) /\ Len(ps) \in Nat
  BY LenProperties
<1>2. Done(ps) = IF bad = {} THEN Len(ps) ELSE Least(bad) - 1
  BY DEF Done
<1>3. CASE bad = {}
  BY <1>1, <1>2, <1>3
<1>4. CASE bad # {}
  <2>1. bad \subseteq Nat
    BY <1>1
  <2>2. \E i \in bad : \A j \in bad : i <= j
    BY <1>4, <2>1, LeastNat
  <2>3. Least(bad) \in bad
    BY <2>2 DEF Least
  <2>4. Least(bad) \in 1 .. Len(ps) /\ Aborts(ps[Least(bad)])
    BY <1>1, <2>3
  <2> QED
    BY <1>1, <1>2, <1>4, <2>4
<1> QED
  BY <1>3, <1>4

\* A transfer of len bytes at addr inside the memory.
Fits(addr, len) == addr \in ArStarts /\ len \in ArLens /\ addr + len <= ArTop

LEMMA FitsTiles ==
    ASSUME NEW addr, NEW len, Fits(addr, len)
    PROVE  /\ addr \in Nat /\ len \in Nat /\ len > 0 /\ ArTop \in Nat
           /\ Tiles(Pieces(addr, len), addr, addr + len, 0)
<1>1. addr \in Nat /\ len \in Nat /\ len > 0 /\ ArTop \in Nat
  BY ArAssumption DEF Fits
<1> QED
  BY <1>1, TilesPieces

\* An aborting address in the extent stops the transfer, and no other does.
LEMMA StopsAtBad ==
    ASSUME NEW addr, NEW len, Fits(addr, len)
    PROVE  Done(Pieces(addr, len)) < Len(Pieces(addr, len))
             <=> {a \in Bytes : a >= addr /\ a < addr + len} \cap ArBad # {}
<1> DEFINE ps == Pieces(addr, len)
<1>1. addr \in Nat /\ len \in Nat /\ ArTop \in Nat /\ addr + len <= ArTop /\ ArBad \subseteq Bytes
  BY FitsTiles, ArAssumption DEF Fits, Bytes
<1>2. Tiles(ps, addr, addr + len, 0)
  BY FitsTiles
<1> HIDE DEF ps
<1>3. ps \in Seq(PieceSet) /\ \A k \in 1 .. Len(ps) : ps[k] \in PieceSet
  BY <1>2, ElementOfSeq DEF Tiles
<1>4. ASSUME NEW k \in 1 .. Len(ps), Aborts(ps[k])
      PROVE  \E a \in ArBad : a \in Bytes /\ a >= addr /\ a < addr + len
  <2>1. PICK a \in ArBad : a >= ps[k].addr /\ a < ps[k].addr + ps[k].size
    BY <1>4 DEF Aborts
  <2>2. addr <= ps[k].addr /\ ps[k].addr + ps[k].size <= addr + len /\ ps[k] \in PieceSet
    BY <1>2, <1>3 DEF Tiles
  <2>3. a \in Bytes /\ a \in Int
    BY <1>1, <2>1 DEF Bytes
  <2> QED
    BY <1>1, <2>1, <2>2, <2>3 DEF PieceSet
<1>5. ASSUME NEW a \in ArBad, a \in Bytes, a >= addr, a < addr + len
      PROVE  \E k \in 1 .. Len(ps) : Aborts(ps[k])
  <2>1. a \in addr .. (addr + len) - 1
    BY <1>1, <1>5 DEF Bytes
  <2>2. PICK k \in 1 .. Len(ps) : Covers(ps[k], a)
    BY <1>2, <2>1, TilesReach, Zenon
  <2>3. a >= ps[k].addr /\ a < ps[k].addr + ps[k].size
    <3>1. a \in Int /\ ps[k].addr \in Nat
      BY <1>1, <1>3, <2>1 DEF PieceSet
    <3> QED
      BY <2>2, <3>1 DEF Covers
  <2>4. Aborts(ps[k])
    BY <2>3 DEF Aborts
  <2> QED
    BY <2>4
<1>6. Done(ps) < Len(ps) <=> \E k \in 1 .. Len(ps) : Aborts(ps[k])
  BY <1>3, DoneIs
<1> QED
  BY <1>4, <1>5, <1>6 DEF ps

\* In a sound shape every piece has the offset of its address.
LEMMA SoundOffsets ==
    ASSUME NEW addr, NEW len, Fits(addr, len), Sound(addr, len),
           NEW k \in 1 .. Len(Pieces(addr, len))
    PROVE  Pieces(addr, len)[k].at = Pieces(addr, len)[k].addr - addr
<1> DEFINE ps == Pieces(addr, len)
<1>1. Tiles(ps, addr, addr + len, 0) /\ addr \in Nat
  BY FitsTiles
<1>2. \A i, j \in 1 .. Len(ps) : i < j => ps[j].at = ps[i].at + (ps[j].addr - ps[i].addr)
  BY DEF Sound
<1> HIDE DEF ps
<1>3. Len(ps) \in Nat /\ k \in 1 .. Len(ps) /\ ps[k] \in PieceSet
  BY <1>1, LenProperties, ElementOfSeq DEF Tiles, ps
<1>4. ps[1].addr = addr /\ ps[1].at = 0
  BY <1>1, <1>3 DEF Tiles
<1>5. CASE k = 1
  BY <1>1, <1>4, <1>5 DEF ps
<1>6. CASE k # 1
  <2>1. 1 \in 1 .. Len(ps) /\ 1 < k
    BY <1>3, <1>6
  <2>2. ps[k].at = ps[1].at + (ps[k].addr - ps[1].addr)
    BY <1>2, <1>3, <2>1
  <2> QED
    BY <1>1, <1>3, <1>4, <2>2 DEF PieceSet, ps
<1> QED
  BY <1>5, <1>6

\* A read that no address stops.
LEMMA ReadExact ==
    ASSUME NEW addr, NEW len, Fits(addr, len), Sound(addr, len),
           ~(Done(Pieces(addr, len)) < Len(Pieces(addr, len))),
           NEW i \in 1 .. len
    PROVE  Gathered(Pieces(addr, len), len)[i] = store[addr + i - 1]
<1> DEFINE ps == Pieces(addr, len)
           hits == {k \in 1 .. Done(ps) : ps[k].at <= i - 1 /\ i - 1 < ps[k].at + ps[k].size}
<1>1. Tiles(ps, addr, addr + len, 0) /\ addr \in Nat /\ len \in Nat
  BY FitsTiles
<1>2. \A k \in 1 .. Len(ps) : ps[k].at = ps[k].addr - addr
  BY SoundOffsets
<1>3. Gathered(ps, len)[i] = IF hits = {} THEN Unread
                             ELSE LET p == ps[Most(hits)] IN store[p.addr + (i - 1 - p.at)]
  BY DEF Gathered
<1> HIDE DEF ps
<1>4. ps \in Seq(PieceSet) /\ Len(ps) \in Nat /\ \A k \in 1 .. Len(ps) : ps[k] \in PieceSet
  BY <1>1, LenProperties, ElementOfSeq DEF Tiles
<1>5. Done(ps) = Len(ps)
  BY <1>4, DoneIs DEF ps
<1>6. hits # {}
  <2>1. addr + i - 1 \in addr .. (addr + len) - 1
    BY <1>1
  <2>2. PICK k \in 1 .. Len(ps) : Covers(ps[k], addr + i - 1)
    BY <1>1, <2>1, TilesReach, Zenon
  <2>3. ps[k].at <= i - 1 /\ i - 1 < ps[k].at + ps[k].size
    <3>1. ps[k] \in PieceSet /\ ps[k].at = ps[k].addr - addr
      BY <1>2, <1>4
    <3> QED
      BY <1>1, <2>2, <3>1 DEF Covers, PieceSet
  <2> QED
    BY <1>5, <2>2, <2>3
<1>7. hits \subseteq 1 .. Len(ps)
  BY <1>5
<1>8. Most(hits) \in 1 .. Len(ps)
  <2> HIDE DEF hits
  <2> QED
    BY <1>4, <1>6, <1>7, MostIn
<1> HIDE DEF hits
<1> DEFINE m == Most(hits)
<1>9. ps[m] \in PieceSet /\ ps[m].at = ps[m].addr - addr
  BY <1>2, <1>4, <1>8
<1>10. ps[m].addr + (i - 1 - ps[m].at) = addr + i - 1
  BY <1>1, <1>9 DEF PieceSet
<1> QED
  BY <1>3, <1>6, <1>10 DEF ps

\* No write, complete or not, touches a byte outside its extent.
LEMMA WriteInside ==
    ASSUME NEW addr, NEW len, Fits(addr, len),
           NEW a \in Bytes, ~(a >= addr /\ a < addr + len)
    PROVE  Scattered(Pieces(addr, len))[a] = store[a]
<1> DEFINE ps == Pieces(addr, len)
           hits == {k \in 1 .. Done(ps) : ps[k].addr <= a /\ a < ps[k].addr + ps[k].size}
<1>1. Tiles(ps, addr, addr + len, 0) /\ addr \in Nat /\ len \in Nat
  BY FitsTiles
<1>2. Scattered(ps)[a] = IF hits = {} THEN store[a]
                         ELSE Given(ps[Most(hits)].at + (a - ps[Most(hits)].addr))
  BY DEF Scattered
<1> HIDE DEF ps
<1>3. ps \in Seq(PieceSet) /\ Len(ps) \in Nat /\ \A k \in 1 .. Len(ps) : ps[k] \in PieceSet
  BY <1>1, LenProperties, ElementOfSeq DEF Tiles
<1>4. Done(ps) \in 0 .. Len(ps)
  BY <1>3, DoneIs
<1>5. a \in Int
  BY ArAssumption DEF Bytes
<1>6. ASSUME NEW k \in 1 .. Done(ps), ps[k].addr <= a, a < ps[k].addr + ps[k].size
      PROVE  FALSE
  <2>1. k \in 1 .. Len(ps)
    BY <1>3, <1>4
  <2>2. addr <= ps[k].addr /\ ps[k].addr + ps[k].size <= addr + len /\ ps[k] \in PieceSet
    BY <1>1, <1>3, <2>1 DEF Tiles
  <2> QED
    BY <1>1, <1>5, <1>6, <2>2 DEF PieceSet
<1>7. hits = {}
  BY <1>6
<1> QED
  BY <1>2, <1>7 DEF ps

\* A write that no address stops.
LEMMA WriteExact ==
    ASSUME NEW addr, NEW len, Fits(addr, len), Sound(addr, len),
           ~(Done(Pieces(addr, len)) < Len(Pieces(addr, len))),
           NEW a \in Bytes, a >= addr, a < addr + len
    PROVE  Scattered(Pieces(addr, len))[a] = Given(a - addr)
<1> DEFINE ps == Pieces(addr, len)
           hits == {k \in 1 .. Done(ps) : ps[k].addr <= a /\ a < ps[k].addr + ps[k].size}
<1>1. Tiles(ps, addr, addr + len, 0) /\ addr \in Nat /\ len \in Nat
  BY FitsTiles
<1>2. \A k \in 1 .. Len(ps) : ps[k].at = ps[k].addr - addr
  BY SoundOffsets
<1>3. Scattered(ps)[a] = IF hits = {} THEN store[a]
                         ELSE Given(ps[Most(hits)].at + (a - ps[Most(hits)].addr))
  BY DEF Scattered
<1> HIDE DEF ps
<1>4. ps \in Seq(PieceSet) /\ Len(ps) \in Nat /\ \A k \in 1 .. Len(ps) : ps[k] \in PieceSet
  BY <1>1, LenProperties, ElementOfSeq DEF Tiles
<1>5. Done(ps) = Len(ps)
  BY <1>4, DoneIs DEF ps
<1>6. a \in Int
  BY ArAssumption DEF Bytes
<1>7. hits # {}
  <2>1. a \in addr .. (addr + len) - 1
    BY <1>1, <1>6
  <2>2. PICK k \in 1 .. Len(ps) : Covers(ps[k], a)
    BY <1>1, <2>1, TilesReach, Zenon
  <2> QED
    BY <1>5, <2>2 DEF Covers
<1>8. hits \subseteq 1 .. Len(ps)
  BY <1>5
<1>9. Most(hits) \in 1 .. Len(ps)
  <2> HIDE DEF hits
  <2> QED
    BY <1>4, <1>7, <1>8, MostIn
<1> HIDE DEF hits
<1> DEFINE m == Most(hits)
<1>10. ps[m] \in PieceSet /\ ps[m].at = ps[m].addr - addr
  BY <1>2, <1>4, <1>9
<1>11. ps[m].at + (a - ps[m].addr) = a - addr
  BY <1>1, <1>6, <1>10 DEF PieceSet
<1> QED
  BY <1>3, <1>7, <1>11 DEF ps

\* A step that reports no transfer.
LEMMA QuietExact ==
    ASSUME done' = Quiet
    PROVE  ArTransferExact'
<1>1. done'.kind = "none"
  BY DEF Quiet
<1> QED
  BY <1>1 DEF ArTransferExact

LEMMA ExactStep ==
    ASSUME DriverInv, ArTransferExact, [ArNext]_arVars
    PROVE  ArTransferExact'
<1>1. ASSUME NEW addr \in ArStarts, NEW len \in ArLens, NEW checked \in BOOLEAN, MemRead(addr, len, checked)
      PROVE  ArTransferExact'
  <2> DEFINE ps == Pieces(addr, len)
             d == Transferred(drv, ps)
  <2>1. CASE ~checked
    BY <1>1, <2>1, QuietExact DEF MemRead
  <2>2. CASE checked
    <3>1. Fits(addr, len)
      BY <1>1 DEF MemRead, Fits
    <3>2. Failing(d) <=> Done(ps) < Len(ps)
      BY <1>1, TransferKeeps DEF MemRead, DriverInv, WindowTrue, FlagRight, Accessible
    <3>3. /\ done'.kind = "read" /\ done'.addr = addr /\ done'.len = len
          /\ done'.got = Gathered(ps, len) /\ done'.err = Failing(d) /\ store' = store
      BY <1>1, <2>2 DEF MemRead
    <3>4. Extent' = {a \in Bytes : a >= addr /\ a < addr + len}
      BY <3>3 DEF Extent
    <3>5. done'.err <=> Extent' \cap ArBad # {}
      BY <3>1, <3>2, <3>3, <3>4, StopsAtBad
    <3>6. ASSUME ~done'.err, Sound(addr, len), NEW i \in 1 .. len
          PROVE  done'.got[i] = store'[addr + i - 1]
      BY <3>1, <3>2, <3>3, <3>6, ReadExact
    <3> HIDE DEF ps, d
    <3> QED
      BY <3>3, <3>5, <3>6 DEF ArTransferExact
  <2> QED
    BY <2>1, <2>2
<1>2. ASSUME NEW addr \in ArStarts, NEW len \in ArLens, NEW checked \in BOOLEAN, MemWrite(addr, len, checked)
      PROVE  ArTransferExact'
  <2> DEFINE ps == Pieces(addr, len)
             d == Transferred(drv, ps)
  <2>1. CASE ~checked
    BY <1>2, <2>1, QuietExact DEF MemWrite
  <2>2. CASE checked
    <3>1. Fits(addr, len)
      BY <1>2 DEF MemWrite, Fits
    <3>2. Failing(d) <=> Done(ps) < Len(ps)
      BY <1>2, TransferKeeps DEF MemWrite, DriverInv, WindowTrue, FlagRight, Accessible
    <3>3. /\ done'.kind = "write" /\ done'.addr = addr /\ done'.len = len
          /\ done'.before = store /\ done'.err = Failing(d) /\ store' = Scattered(ps)
      BY <1>2, <2>2 DEF MemWrite
    <3>4. Extent' = {a \in Bytes : a >= addr /\ a < addr + len}
      BY <3>3 DEF Extent
    <3>5. done'.err <=> Extent' \cap ArBad # {}
      BY <3>1, <3>2, <3>3, <3>4, StopsAtBad
    <3>6. ASSUME NEW a \in Bytes \ Extent'
          PROVE  store'[a] = done'.before[a]
      BY <3>1, <3>3, <3>4, <3>6, WriteInside
    <3>7. ASSUME ~done'.err, Sound(addr, len), NEW a \in Extent'
          PROVE  store'[a] = Given(a - addr)
      BY <3>1, <3>2, <3>3, <3>4, <3>7, WriteExact
    <3> HIDE DEF ps, d
    <3> QED
      BY <3>3, <3>5, <3>6, <3>7 DEF ArTransferExact
  <2> QED
    BY <2>1, <2>2
<1>3. CASE CheckStatus \/ BreakWatch \/ Poll \/ Resume \/ Stop \/ AttachAr \/ DetachAr \/ OtherCore \/ Reset
  BY <1>3, QuietExact DEF CheckStatus, BreakWatch, Poll, Resume, Stop, AttachAr, DetachAr, OtherCore, Reset
<1>4. CASE UNCHANGED arVars
  BY <1>4 DEF arVars, ArTransferExact, Extent
<1> QED
  BY <1>1, <1>2, <1>3, <1>4 DEF ArNext

\* ArTransferExact for every memory, alignment, length and set of aborting addresses.
THEOREM ArTransfersExact == ArSpec => []ArTransferExact
<1>1. ArInit => ArTransferExact
  BY DEF ArInit, ArTransferExact, Quiet
<1> QED
  BY <1>1, DriverInit, DriverStep, ExactStep, PTL DEF ArSpec

=============================================================================
