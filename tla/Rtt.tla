-------------------------------- MODULE Rtt --------------------------------
(***************************************************************************)
(* Real-time transfer (RTT): the firmware finds a control block in the      *)
(* target's memory and moves bytes between the rings it describes and the   *)
(* host, while the target runs (Arm) or while it is briefly halted (RISC-V).*)
(* The target owns the head of an up ring and the tail of a down ring, the  *)
(* probe the other two.                                                    *)
(*                                                                         *)
(* poll_rtt is a sequence of memory accesses; the running target steps      *)
(* between them.  Time is left out: a poll may be due or not.              *)
(***************************************************************************)
EXTENDS Semihosting

CONSTANTS
    Stride,       \* bytes read at a time by the search (128)
    IdLen,        \* length of the identifier (16)
    HeadLen,      \* bytes of the control block ahead of the rings (24)
    Ram,          \* <<start, end>> of the target's RAM
    Places,       \* addresses the control block may have, 0 for a program without one
    Programs,     \* programs and cores tried: where the control block is, its <<up, down>> channels,
                  \* the flag of its down channel, whether memory is only reached halted
    Ranges,       \* `monitor rtt ram` limits tried, with Ram for none
    MaxChan,      \* MAX_RTT_CHAN (16)
    RingLen, RingAt,   \* length of a ring, address of its first byte
    XmitFree,     \* RTT_UP_BUF_SIZE without the 8 bytes of padding
    RecvLen,      \* RTT_DOWN_BUF_SIZE
    Packet,       \* CDCACM_PACKET_SIZE
    MaxErrs,      \* rtt_max_poll_errs (10)
    MaxMade, MaxTyped,   \* bounds: bytes put by the target, typed by the user
    MaxTraffic           \* bound: both together

ASSUME SearchAssumption == 0 < IdLen /\ 2 * IdLen <= Stride /\ IdLen + 2 <= HeadLen
ASSUME PlaceAssumption == \A p \in Places : 0 < Ram[1] /\ Ram[1] <= p /\ p + HeadLen <= Ram[2]
ASSUME RecvAssumption == RecvLen > 2 * Packet

VARIABLES
    tgt,    \* the target: control block, rings, bytes made and taken by the program
    rtt,    \* the firmware: switches, the block found, its copy of the channels, the poll at hand
    usb,    \* the receive buffer, flow control, bytes typed, bytes shown
    core    \* "run", "req" (halted on request), "stop" (on its own), "brk" (at an ebreak of a RISC-V program,
            \* reported like a request), "call" (semihosting)

rttVars == <<tgt, rtt, usb, core>>

Traffic == usb.typed + MapThenSumSet(LAMBDA c : tgt.made[c], DOMAIN tgt.made)
Zeros == [addr |-> 0, size |-> 0, head |-> 0, tail |-> 0]
Chans == 0 .. MaxChan - 1
EmptyRing == [buf |-> [i \in 0 .. RingLen - 1 |-> 0], head |-> 0, tail |-> 0]

-----------------------------------------------------------------------------
(* Searching the control block: by a hash of every IdLen bytes, or by the  *)
(* identifier the user gave.  A set of addresses cannot be read.           *)

Cell(a) == IF tgt.cb # 0 /\ a \in tgt.cb .. tgt.cb + IdLen - 1 THEN a - tgt.cb + 1 ELSE 0
Ident == [i \in 1 .. IdLen |-> i]
Bytes(from, n) == [i \in 1 .. n |-> Cell(from + i - 1)]
Blocks(range, step) == {a \in range[1] .. range[2] - 1 : (a - range[1]) % step = 0}

(* The window slides over the block after the last IdLen bytes of the one  *)
(* before; the first block follows zeros.                                  *)
Window(range, a) ==
    LET n == Min({Stride, range[2] - a})
        before == IF a = range[1] THEN [i \in 1 .. IdLen |-> 0] ELSE Bytes(a - IdLen, IdLen)
    IN before \o Bytes(a, n)

fast_search(range, bad) ==
    LET blocks == {a \in Blocks(range, Stride) : \A b \in bad : a < b}
        hits == UNION {{a + i - IdLen + 1 : i \in {j \in 0 .. Min({Stride, range[2] - a}) - 1 :
                            SubSeq(Window(range, a), j + 2, j + 1 + IdLen) = Ident}} : a \in blocks}
    IN IF hits = {} THEN 0 ELSE Min(hits)

memory_search(range, bad) ==
    LET blocks == Blocks(range, Stride - IdLen - 1) \ bad
        hits == UNION {{a + i : i \in {j \in 0 .. Stride - 1 :
                            /\ j + IdLen + 1 < Min({Stride, range[2] - a})
                            /\ Bytes(a + j, IdLen) = Ident}} : a \in blocks}
    IN IF hits = {} THEN 0 ELSE Min(hits)

Search(bad) == IF sh.redirect THEN 0 ELSE IF rtt.ident THEN memory_search(rtt.range, bad) ELSE fast_search(rtt.range, bad)

(* The block found: how many channels, which ones are shown, its header.   *)
Clamped(layout) ==
    LET up == Min({layout[1], MaxChan})
    IN [up |-> up, down |-> Min({layout[2], MaxChan - up})]

AutoChannels(n) ==
    {c \in Chans : (c < 2 /\ c < n.up) \/ (c = n.up /\ n.down > 0)}

find_rtt(bad, readable) ==
    LET at == Search(bad)
        lost == [rtt EXCEPT !.found = FALSE, !.errs = 0, !.cb = at]
        n == Clamped(tgt.layout)
    IN IF at = 0 \/ ~readable THEN lost
       ELSE IF n.up + n.down = 0 THEN [lost EXCEPT !.up = 0, !.down = 0, !.enabled = FALSE]
       ELSE [lost EXCEPT !.up = n.up, !.down = n.down, !.found = TRUE, !.header = <<at, tgt.layout>>,
                         !.shown = IF rtt.auto THEN AutoChannels(n) ELSE @]

-----------------------------------------------------------------------------
(* One poll.  An access may fail (fault TRUE).                             *)

NotPolling == [pc |-> "off", resume |-> FALSE, i |-> 0, chan |-> [c \in {} |-> Zeros], xmit |-> <<>>,
               moved |-> <<>>, err |-> FALSE]

(* What stops the target of this program by itself: a breakpoint unit or a *)
(* watchpoint, and on RISC-V an ebreak.                                    *)
OwnStops == {"stop"} \union (IF tgt.needsHalt THEN {"brk"} ELSE {})

(* The poll is due.  A target whose memory can only be reached halted is   *)
(* asked to halt if a look at it finds it running; it may stop by itself   *)
(* before the request arrives.  When the look fails the poll goes on with  *)
(* the target as it is, when the request fails it may still be running.    *)
PollHalt(fault) ==
    /\ rtt.enabled /\ rtt.poll.pc = "off"
    /\ LET halt == IF rtt.found THEN rtt.halt ELSE tgt.needsHalt
           Begin(pc) == rtt' = [rtt EXCEPT !.halt = halt, !.poll.pc = pc]
       IN \/ /\ ~halt \/ core # "run" \/ fault
             /\ Begin("find") /\ UNCHANGED core
          \/ /\ halt /\ core = "run" /\ Begin("wait")
             /\ core' \in {"req"} \union OwnStops \union (IF fault THEN {"run"} ELSE {})
    /\ UNCHANGED <<tgt, usb>>

PollWait_AnyReason(fault) ==
    /\ rtt.poll.pc = "wait"
    /\ core' \in IF core = "run" THEN {"run", "req"} ELSE {core}
    /\ rtt' = IF core = "run" /\ ~fault THEN rtt
              ELSE [rtt EXCEPT !.poll.pc = "find", !.poll.resume = ~fault]
    /\ UNCHANGED <<tgt, usb>>

(* Waiting, without a limit, for the target to halt; a request that failed *)
(* half way may take hold late.  The target is resumed later only if it    *)
(* reports a halt on request (an ebreak is reported so too); an error ends *)
(* the wait and leaves the target as it is.                                *)
PollWait(fault) ==
    /\ rtt.poll.pc = "wait"
    /\ core' \in IF core = "run" THEN {"run", "req"} ELSE {core}
    /\ rtt' = IF core = "run" /\ ~fault THEN rtt
              ELSE [rtt EXCEPT !.poll.pc = "find", !.poll.resume = (~fault /\ core \in {"req", "brk"})]
    /\ UNCHANGED <<tgt, usb>>

PollFind(fault) ==
    /\ rtt.poll.pc = "find"
    /\ \E bad \in {{}} \union (IF fault THEN {{a} : a \in Blocks(rtt.range, 1)} ELSE {}), readable \in {TRUE, ~fault} :
        LET r == IF rtt.found THEN rtt ELSE find_rtt(bad, readable)
            same == r.found /\ ~sh.redirect /\ r.header = <<tgt.cb, tgt.layout>> /\ (rtt.found => readable)
        IN rtt' = [r EXCEPT !.found = same, !.poll.pc = IF same THEN "chans" ELSE "end"]
    /\ UNCHANGED <<tgt, usb, core>>

(* The copy of the channels; what is not at this address any more is taken *)
(* for channels without a buffer.                                          *)
PollChannels(fault) ==
    /\ rtt.poll.pc = "chans"
    /\ rtt' = IF fault THEN [rtt EXCEPT !.poll.err = TRUE, !.poll.pc = "end"]
              ELSE [rtt EXCEPT !.poll.pc = "io", !.poll.i = 0, !.poll.chan =
                        [c \in 0 .. rtt.up + rtt.down - 1 |->
                            IF tgt.cb # rtt.cb \/ c \notin DOMAIN tgt.ring THEN Zeros
                            ELSE [addr |-> RingAt, size |-> RingLen, head |-> tgt.ring[c].head, tail |-> tgt.ring[c].tail]]]
    /\ UNCHANGED <<tgt, usb, core>>

NoRing(c) == c.addr = 0 \/ c.size = 0
BadRing(c) == c.head >= c.size \/ c.tail >= c.size
Idle(p) == [p EXCEPT !.i = @ + 1, !.pc = "io"]
Failed(p) == [Idle(p) EXCEPT !.err = TRUE, !.moved = <<>>, !.xmit = <<>>]

(* Reading whole words around the bytes wanted, then moving these to the   *)
(* front.                                                                  *)
rtt_aligned_mem_read(i, src, len) ==
    LET offset == src % 4
        src0 == src - offset
        len0 == IF (len + offset) % 4 = 0 THEN len + offset ELSE ((len + offset + 4) \div 4) * 4
        word(a) == IF tgt.cb = rtt.cb /\ i \in DOMAIN tgt.ring /\ a \in RingAt .. RingAt + RingLen - 1
                   THEN tgt.ring[i].buf[a - RingAt] ELSE 0
        dest == [k \in 1 .. len0 |-> word(src0 + k - 1)]
    IN SubSeq(dest, offset + 1, offset + len)

(* Up to the end of the ring, then from its start, as far as the buffer    *)
(* allows.                                                                 *)
print_rtt(i, c, p) ==
    LET len1 == IF c.tail > c.head THEN Min({c.size - c.tail, XmitFree}) ELSE 0
        part1 == rtt_aligned_mem_read(i, c.addr + c.tail, len1)
        tail1 == (c.tail + len1) % c.size
        len2 == IF c.head > tail1 THEN Min({c.head - tail1, XmitFree - len1}) ELSE 0
        part2 == rtt_aligned_mem_read(i, c.addr + tail1, len2)
    IN [p EXCEPT !.pc = "publish", !.xmit = part1 \o part2,
                 !.chan[i].tail = (tail1 + len2) % c.size]

PrintRtt(fault) ==
    /\ rtt.poll.pc = "io" /\ rtt.poll.i \in rtt.shown /\ rtt.poll.i < rtt.up
    /\ LET i == rtt.poll.i
           c == rtt.poll.chan[i]
           p == rtt.poll
       IN rtt' = [rtt EXCEPT !.poll =
                    CASE NoRing(c) -> Idle(p)
                      [] ~NoRing(c) /\ BadRing(c) -> Failed(p)
                      [] ~NoRing(c) /\ ~BadRing(c) /\ c.head = c.tail -> Idle(p)
                      [] OTHER -> IF fault THEN Failed(p) ELSE print_rtt(i, c, p)]
    /\ UNCHANGED <<tgt, usb, core>>

PublishTail_ShownFirst(fault) ==
    /\ rtt.poll.pc = "publish" /\ rtt.poll.i < rtt.up
    /\ LET i == rtt.poll.i
       IN /\ tgt' = IF ~fault /\ tgt.cb = rtt.cb /\ i \in DOMAIN tgt.ring
                    THEN [tgt EXCEPT !.ring[i].tail = rtt.poll.chan[i].tail] ELSE tgt
          /\ usb' = [usb EXCEPT !.out[i] = @ \o rtt.poll.xmit]
          /\ rtt' = [rtt EXCEPT !.poll = [Idle(rtt.poll) EXCEPT !.xmit = <<>>]]
    /\ UNCHANGED core

(* The new tail goes to the target, then the bytes to the host.            *)
PublishTail(fault) ==
    /\ rtt.poll.pc = "publish" /\ rtt.poll.i < rtt.up
    /\ LET i == rtt.poll.i
       IN IF fault THEN rtt' = [rtt EXCEPT !.poll = Failed(rtt.poll)] /\ UNCHANGED <<tgt, usb>>
          ELSE /\ tgt' = IF tgt.cb = rtt.cb /\ i \in DOMAIN tgt.ring
                         THEN [tgt EXCEPT !.ring[i].tail = rtt.poll.chan[i].tail] ELSE tgt
               /\ usb' = [usb EXCEPT !.out[i] = @ \o rtt.poll.xmit]
               /\ rtt' = [rtt EXCEPT !.poll = [Idle(rtt.poll) EXCEPT !.xmit = <<>>]]
    /\ UNCHANGED core

-----------------------------------------------------------------------------
(* From the host to the target.                                            *)

recv_bytes_free(u) == RecvLen - 1 - Len(u.recv)
recv_set_nak(u) == recv_bytes_free(u) < 2 * Packet

(* A packet from the host; one too many is dropped, or cut.                *)
rtt_serial_receive_callback(n) ==
    LET bytes == [i \in 1 .. n |-> usb.typed + i]
        kept == IF rtt.skip /\ n > recv_bytes_free(usb) THEN 0 ELSE Min({n, recv_bytes_free(usb)})
        u == [usb EXCEPT !.recv = @ \o SubSeq(bytes, 1, kept), !.typed = @ + n,
                         !.lost = @ \/ (kept < n /\ ~rtt.block)]
    IN usb' = [u EXCEPT !.nak = rtt.block /\ recv_set_nak(u)]

HostTypes ==
    /\ rtt.enabled /\ ~usb.nak
    /\ \E n \in 1 .. Packet : usb.typed + n <= MaxTyped /\ Traffic + n <= MaxTraffic /\ rtt_serial_receive_callback(n)
    /\ UNCHANGED <<tgt, rtt, core>>

(* n bytes taken; flow control opens once there is room for two packets.   *)
rtt_getchar(u, n) ==
    LET v == [u EXCEPT !.recv = SubSeq(@, n + 1, Len(@))]
    IN IF n = 0 THEN u ELSE [v EXCEPT !.nak = @ /\ recv_set_nak(v)]

(* The bytes go into the ring up to the one cell kept free.                *)
Space(c) == (c.tail - c.head - 1) % c.size

ReadRtt(fault) ==
    /\ rtt.poll.pc = "io" /\ rtt.poll.i \in rtt.shown /\ rtt.poll.i \in rtt.up .. rtt.up + rtt.down - 1
    /\ LET i == rtt.poll.i
           c == rtt.poll.chan[i]
           n == Min({Space(c), Len(usb.recv)})
           bytes == SubSeq(usb.recv, 1, n)
           flagged == [rtt EXCEPT !.skip = (tgt.flag = 0), !.block = (tgt.flag = 2)]
           Keep(p) == rtt' = [flagged EXCEPT !.poll = p] /\ UNCHANGED <<tgt, usb>>
       IN CASE usb.recv = <<>> \/ NoRing(c) -> Keep(Idle(rtt.poll))
            [] usb.recv # <<>> /\ ~NoRing(c) /\ BadRing(c) -> Keep(Failed(rtt.poll))
            [] OTHER ->
                 IF fault /\ n > 0
                 THEN \E k \in 1 .. n : /\ usb' = [rtt_getchar(usb, k) EXCEPT !.lost = TRUE]
                                        /\ rtt' = [flagged EXCEPT !.poll = Failed(rtt.poll)] /\ UNCHANGED tgt
                 ELSE /\ usb' = rtt_getchar(usb, n)
                      /\ rtt' = [flagged EXCEPT !.poll.pc = "publish", !.poll.moved = bytes,
                                               !.poll.chan[i].head = (c.head + n) % c.size]
                      /\ tgt' = IF tgt.cb = rtt.cb /\ i \in DOMAIN tgt.ring
                                THEN [tgt EXCEPT !.ring[i].buf = [k \in 0 .. RingLen - 1 |->
                                        LET d == (k - c.head) % RingLen IN IF d < n THEN bytes[d + 1] ELSE @[k]]]
                                ELSE tgt
    /\ UNCHANGED core

PublishHead(fault) ==
    /\ rtt.poll.pc = "publish" /\ rtt.poll.i >= rtt.up
    /\ LET i == rtt.poll.i
       IN IF fault
          THEN /\ rtt' = [rtt EXCEPT !.poll = Failed(rtt.poll)]
               /\ usb' = [usb EXCEPT !.lost = @ \/ rtt.poll.moved # <<>>] /\ UNCHANGED tgt
          ELSE /\ tgt' = IF tgt.cb = rtt.cb /\ i \in DOMAIN tgt.ring
                         THEN [tgt EXCEPT !.ring[i].head = rtt.poll.chan[i].head] ELSE tgt
               /\ rtt' = [rtt EXCEPT !.poll = [Idle(rtt.poll) EXCEPT !.moved = <<>>]]
               /\ UNCHANGED usb
    /\ UNCHANGED core

SkipChannel ==
    /\ rtt.poll.pc = "io"
    /\ rtt' = IF rtt.poll.i >= rtt.up + rtt.down THEN [rtt EXCEPT !.poll.pc = "end"]
              ELSE [rtt EXCEPT !.poll.i = @ + 1]
    /\ rtt.poll.i < rtt.up + rtt.down => rtt.poll.i \notin rtt.shown
    /\ UNCHANGED <<tgt, usb, core>>

(* The target goes on if it was halted for this poll, unless an access of  *)
(* the resume fails before the hart is told; a hart resumed at an ebreak   *)
(* meets it again at once.  Too many errors turn RTT off.                  *)
Resumed == IF core = "brk" THEN "brk" ELSE "run"
PollEnd(fault) ==
    /\ rtt.poll.pc = "end"
    /\ core' \in (IF rtt.poll.resume THEN {Resumed} ELSE {core}) \union (IF fault THEN {core} ELSE {})
    /\ LET errs == rtt.errs + (IF rtt.poll.err THEN 1 ELSE 0)
       IN rtt' = [rtt EXCEPT !.poll = NotPolling, !.errs = errs,
                            !.enabled = @ /\ ~(rtt.poll.err /\ MaxErrs # 0 /\ errs > MaxErrs)]
    /\ UNCHANGED <<tgt, usb>>

-----------------------------------------------------------------------------
(* The program on the target (external): it puts bytes into up rings and   *)
(* takes them from the down ring, and may start again at any time.         *)

IsUp(c) == c < tgt.layout[1]
TargetPuts ==
    /\ core = "run"
    /\ \E c \in DOMAIN tgt.ring \intersect Chans :
        LET r == tgt.ring[c]
        IN /\ IsUp(c) /\ tgt.made[c] < MaxMade /\ Traffic < MaxTraffic /\ (r.head + 1) % RingLen # r.tail
           /\ tgt' = [tgt EXCEPT !.made[c] = @ + 1,
                        !.ring[c] = [r EXCEPT !.buf[r.head] = tgt.made[c] + 1, !.head = (r.head + 1) % RingLen]]
    /\ UNCHANGED <<rtt, usb, core>>

TargetTakes ==
    /\ core = "run"
    /\ \E c \in DOMAIN tgt.ring \intersect Chans :
        LET r == tgt.ring[c]
        IN /\ ~IsUp(c) /\ r.head # r.tail
           /\ tgt' = [tgt EXCEPT !.got = Append(@, r.buf[r.tail]), !.ring[c].tail = (r.tail + 1) % RingLen]
    /\ UNCHANGED <<rtt, usb, core>>

Boot(cb, layout) ==
    [tgt EXCEPT !.cb = cb, !.layout = layout, !.ring = [c \in 0 .. layout[1] + layout[2] - 1 |-> EmptyRing],
                !.made = [c \in Chans |-> 0], !.got = <<>>]

(* A poll under way when the target starts again goes on with what it read. *)
TargetBoots ==
    /\ \E cb \in IF tgt.cb = 0 THEN {0} ELSE Places : tgt' = [Boot(cb, tgt.layout) EXCEPT !.torn = (rtt.poll.pc # "off")]
    /\ usb' = [usb EXCEPT !.out = [c \in Chans |-> <<>>], !.lost = TRUE]

RttInit ==
    /\ \E p \in Programs :
        tgt = [cb |-> p.cb, layout |-> p.layout, flag |-> p.flag, needsHalt |-> p.needsHalt,
               ring |-> [c \in 0 .. p.layout[1] + p.layout[2] - 1 |-> EmptyRing],
               made |-> [c \in Chans |-> 0], got |-> <<>>, torn |-> FALSE]
    /\ rtt = [enabled |-> FALSE, found |-> FALSE, halt |-> FALSE, cb |-> 0, up |-> 0, down |-> 0, header |-> <<0, <<0, 0>>>>,
              auto |-> TRUE, shown |-> {}, ident |-> FALSE, range |-> Ram, errs |-> 0, skip |-> FALSE, block |-> FALSE,
              poll |-> NotPolling]
    /\ usb = [recv |-> <<>>, nak |-> FALSE, typed |-> 0, lost |-> FALSE, out |-> [c \in Chans |-> <<>>]]
    /\ core = "stop"

(* The monitor commands, given while the target is stopped.                *)
cmd_rtt ==
    /\ rtt' \in {[rtt EXCEPT !.enabled = TRUE, !.found = FALSE],
                 [rtt EXCEPT !.enabled = FALSE, !.found = FALSE],
                 [rtt EXCEPT !.shown = {}, !.auto = TRUE],
                 [rtt EXCEPT !.ident = ~@]}
                \union {[rtt EXCEPT !.shown = s, !.auto = FALSE] : s \in {{c} : c \in Chans}}
                \union {[rtt EXCEPT !.range = r] : r \in Ranges}
    /\ UNCHANGED <<tgt, usb, core>>

-----------------------------------------------------------------------------
(* Properties.                                                             *)

Count(n) == [i \in 1 .. n |-> i]

(* Every byte the target puts into an up ring reaches the host once and in *)
(* order, whatever the target puts while a poll is under way: the host has *)
(* a beginning of what was made.  (A target that starts again inside a     *)
(* poll is left out: the tail read before goes to the new ring.)           *)
UpExact ==
    ~tgt.torn => \A c \in Chans : Len(usb.out[c]) <= tgt.made[c] /\ usb.out[c] = Count(Len(usb.out[c]))

Ringed == LET c == tgt.layout[1] IN
          IF c \notin DOMAIN tgt.ring THEN <<>>
          ELSE [i \in 1 .. (tgt.ring[c].head - tgt.ring[c].tail) % RingLen |-> tgt.ring[c].buf[(tgt.ring[c].tail + i - 1) % RingLen]]

(* What the user types reaches the program in order and none of it twice,  *)
(* from the receive buffer through the ring; all of it does while no       *)
(* memory access failed, if the program asked for blocking, or if it fits. *)
DownExact ==
    ~tgt.torn =>
        LET line == tgt.got \o Ringed \o rtt.poll.moved \o usb.recv
        IN /\ \A i \in 1 .. Len(line) - 1 : line[i] < line[i + 1]
           /\ ~usb.lost => line = Count(usb.typed)

=============================================================================
