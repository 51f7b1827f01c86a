---------------------------- MODULE HostIo_proofs ----------------------------
(***************************************************************************)
(* RTT halts the target and lets it go again while the user and the target *)
(* itself may stop it at any moment and any access may fail: the proof     *)
(* that no stop is taken back, and that no running target is left halted   *)
(* but by a failed access, for every program, control block and bound.     *)
(***************************************************************************)
EXTENDS HostIo, TLAPS

(* The firmware's record of a poll: whether one is under way and whether   *)
(* the target was halted for it.                                           *)
PollShape(r) == "poll" \in DOMAIN r /\ {"pc", "resume"} \subseteq DOMAIN r.poll

(* The inductive invariant: a poll is under way only in the main loop's RTT *)
(* step; the target is to be resumed only if that poll found it halted on  *)
(* request or at an ebreak, and a halt on request is then wanted by nobody *)
(* else; a halt on request that neither belongs to a poll nor has been     *)
(* told to GDB is one the user waits for, or one a failed access left.     *)
HaltOwned ==
    /\ core \in {"run", "req", "stop", "brk", "call"} /\ wanted \in BOOLEAN /\ left \in BOOLEAN
    /\ PollShape(rtt) /\ rtt.poll.resume \in BOOLEAN
    /\ rtt.poll.pc \in {"off", "wait"} => ~rtt.poll.resume
    /\ rtt.poll.pc # "off" => loop = "rtt"
    /\ rtt.poll.resume => core \in {"req", "brk"}
    /\ core = "req" /\ (rtt.poll.resume \/ rtt.poll.pc = "wait") => ~wanted
    /\ core = "req" /\ ~rtt.poll.resume /\ rtt.poll.pc # "wait" /\ loop \notin {"gdb", "lost"} => wanted \/ left
    /\ loop = "gdb" => core \in {"stop", "req", "brk"} /\ ~wanted
    /\ loop = "serve" => core = "call"
    /\ wanted => core \in {"stop", "req", "brk"}

(* A record of the firmware after a step of the poll under way: the poll   *)
(* goes on and remembers whether it halted the target.                     *)
GoesOn(r) == PollShape(r) /\ r.poll.resume = rtt.poll.resume /\ r.poll.pc \notin {"off", "wait"}

-----------------------------------------------------------------------------
(* The operators a poll is made of.                                        *)

(* Replacing the poll of a record.                                         *)
LEMMA PollReplaced ==
    ASSUME NEW r, PollShape(r), NEW p, {"pc", "resume"} \subseteq DOMAIN p
    PROVE  PollShape([r EXCEPT !.poll = p]) /\ [r EXCEPT !.poll = p].poll = p
<1>1. "poll" \in DOMAIN r
  BY DEF PollShape
<1>2. [r EXCEPT !.poll = p].poll = p /\ DOMAIN [r EXCEPT !.poll = p] = DOMAIN r
  BY <1>1, SMT
<1> QED BY <1>1, <1>2 DEF PollShape

(* Going to the next channel, after a failed access too, keeps what the    *)
(* poll did to the target.                                                 *)
LEMMA IdleKeeps ==
    ASSUME NEW p, {"pc", "resume"} \subseteq DOMAIN p
    PROVE  /\ {"pc", "resume"} \subseteq DOMAIN Idle(p)
           /\ Idle(p).pc = "io" /\ Idle(p).resume = p.resume
BY SMT DEF Idle

LEMMA FailedKeeps ==
    ASSUME NEW p, {"pc", "resume"} \subseteq DOMAIN p
    PROVE  /\ {"pc", "resume"} \subseteq DOMAIN Failed(p)
           /\ Failed(p).pc = "io" /\ Failed(p).resume = p.resume
<1>1. PICK q : q = Idle(p)
  OBVIOUS
<1>2. {"pc", "resume"} \subseteq DOMAIN q /\ q.pc = "io" /\ q.resume = p.resume
  BY <1>1, IdleKeeps
<1>3. Failed(p) = [q EXCEPT !.err = TRUE, !.moved = <<>>, !.xmit = <<>>]
  BY <1>1 DEF Failed
<1> QED BY <1>2, <1>3, SMT

(* The bytes of an up channel fetched.                                     *)
LEMMA PrintKeeps ==
    ASSUME NEW p, {"pc", "resume"} \subseteq DOMAIN p, NEW i, NEW c
    PROVE  /\ {"pc", "resume"} \subseteq DOMAIN print_rtt(i, c, p)
           /\ print_rtt(i, c, p).pc = "publish" /\ print_rtt(i, c, p).resume = p.resume
<1>1. PICK x, n : print_rtt(i, c, p) = [p EXCEPT !.pc = "publish", !.xmit = x, !.chan[i].tail = n]
  BY Zenon DEF print_rtt
<1> QED BY <1>1, SMT

(* The search for the control block leaves the poll alone.                 *)
LEMMA FindKeeps ==
    ASSUME PollShape(rtt), NEW bad, NEW readable
    PROVE  PollShape(find_rtt(bad, readable)) /\ find_rtt(bad, readable).poll = rtt.poll
<1> DEFINE n == Clamped(tgt.layout)
           gone == [rtt EXCEPT !.found = FALSE, !.errs = 0, !.cb = Search(bad)]
           full(s) == [gone EXCEPT !.up = n.up, !.down = n.down, !.found = TRUE,
                                   !.header = <<Search(bad), tgt.layout>>, !.shown = s]
           none == [gone EXCEPT !.up = 0, !.down = 0, !.enabled = FALSE]
<1>1. "poll" \in DOMAIN gone /\ gone.poll = rtt.poll
  BY SMT DEF PollShape
<1>2. \/ find_rtt(bad, readable) = gone
      \/ find_rtt(bad, readable) = none
      \/ find_rtt(bad, readable) = full(AutoChannels(n))
      \/ find_rtt(bad, readable) = full(gone.shown)
  BY Zenon DEF find_rtt
<1> HIDE DEF gone, n
<1>3. ASSUME NEW s
      PROVE  "poll" \in DOMAIN full(s) /\ full(s).poll = gone.poll
  BY <1>1, SMT
<1>4. "poll" \in DOMAIN none /\ none.poll = gone.poll
  BY <1>1, SMT
<1> HIDE DEF full, none
<1>5. "poll" \in DOMAIN find_rtt(bad, readable) /\ find_rtt(bad, readable).poll = rtt.poll
  BY <1>1, <1>2, <1>3, <1>4, Zenon
<1> QED BY <1>5, Zenon DEF PollShape

-----------------------------------------------------------------------------
(* The steps of a poll.                                                    *)

(* Replacing the poll of a record like the firmware's by one that goes on. *)
LEMMA GoesOnWith ==
    ASSUME PollShape(rtt), NEW r, PollShape(r), NEW p, {"pc", "resume"} \subseteq DOMAIN p,
           p.pc \notin {"off", "wait"}, p.resume = rtt.poll.resume
    PROVE  GoesOn([r EXCEPT !.poll = p])
BY PollReplaced, Zenon DEF GoesOn

LEMMA FindGoesOn ==
    ASSUME PollShape(rtt), NEW fault, PollFind(fault)
    PROVE  GoesOn(rtt') /\ core' = core
<1>1. PICK bad \in {{}} \union (IF fault THEN {{a} : a \in Blocks(rtt.range, 1)} ELSE {}), readable \in {TRUE, ~fault} :
        LET r == IF rtt.found THEN rtt ELSE find_rtt(bad, readable)
            same == r.found /\ ~sh.redirect /\ r.header = <<tgt.cb, tgt.layout>> /\ (rtt.found => readable)
        IN rtt' = [r EXCEPT !.found = same, !.poll.pc = IF same THEN "chans" ELSE "end"]
  BY DEF PollFind
<1>2. PICK r : r = IF rtt.found THEN rtt ELSE find_rtt(bad, readable)
  OBVIOUS
<1>3. PollShape(r) /\ r.poll = rtt.poll
  BY <1>2, FindKeeps, Zenon
<1>4. PICK same : same = (r.found /\ ~sh.redirect /\ r.header = <<tgt.cb, tgt.layout>> /\ (rtt.found => readable))
  OBVIOUS
<1>5. PICK x : x = IF same THEN "chans" ELSE "end"
  OBVIOUS
<1>6. rtt' = [r EXCEPT !.found = same, !.poll.pc = x]
  BY <1>1, <1>2, <1>4, <1>5, Zenon
<1>7. x \notin {"off", "wait"}
  BY <1>5
<1>8. GoesOn(rtt')
  BY <1>3, <1>6, <1>7, SMT DEF GoesOn, PollShape
<1> QED BY <1>8 DEF PollFind

LEMMA ChannelsGoOn ==
    ASSUME PollShape(rtt), NEW fault, PollChannels(fault)
    PROVE  GoesOn(rtt') /\ core' = core
<1>1. CASE rtt' = [rtt EXCEPT !.poll.err = TRUE, !.poll.pc = "end"]
  BY <1>1, SMT DEF GoesOn, PollShape, PollChannels
<1>2. ASSUME NEW m, rtt' = [rtt EXCEPT !.poll.pc = "io", !.poll.i = 0, !.poll.chan = m]
      PROVE  GoesOn(rtt') /\ core' = core
  BY <1>2, SMT DEF GoesOn, PollShape, PollChannels
<1> QED BY <1>1, <1>2, Zenon DEF PollChannels

LEMMA PrintGoesOn ==
    ASSUME PollShape(rtt), NEW fault, PrintRtt(fault)
    PROVE  GoesOn(rtt') /\ core' = core
<1> DEFINE i == rtt.poll.i
           c == rtt.poll.chan[i]
<1>1. {"pc", "resume"} \subseteq DOMAIN rtt.poll
  BY DEF PollShape
<1>2. PICK q : /\ rtt' = [rtt EXCEPT !.poll = q]
               /\ q = CASE NoRing(c) -> Idle(rtt.poll)
                       [] ~NoRing(c) /\ BadRing(c) -> Failed(rtt.poll)
                       [] ~NoRing(c) /\ ~BadRing(c) /\ c.head = c.tail -> Idle(rtt.poll)
                       [] OTHER -> IF fault THEN Failed(rtt.poll) ELSE print_rtt(i, c, rtt.poll)
  BY Zenon DEF PrintRtt
<1>3. q \in {Idle(rtt.poll), Failed(rtt.poll), print_rtt(i, c, rtt.poll)}
  BY <1>2, Zenon
<1>4. {"pc", "resume"} \subseteq DOMAIN q /\ q.pc \notin {"off", "wait"} /\ q.resume = rtt.poll.resume
  <2>1. CASE q = Idle(rtt.poll)
    BY <1>1, <2>1, IdleKeeps, Zenon
  <2>2. CASE q = Failed(rtt.poll)
    BY <1>1, <2>2, FailedKeeps, Zenon
  <2>3. CASE q = print_rtt(i, c, rtt.poll)
    <3>1. {"pc", "resume"} \subseteq DOMAIN q /\ q.pc = "publish" /\ q.resume = rtt.poll.resume
      BY <1>1, <2>3, PrintKeeps, Zenon
    <3> QED BY <3>1
  <2> QED BY <1>3, <2>1, <2>2, <2>3, Zenon
<1>5. GoesOn(rtt')
  BY <1>2, <1>4, GoesOnWith, Zenon
<1> QED BY <1>5 DEF PrintRtt

LEMMA PublishTailGoesOn ==
    ASSUME PollShape(rtt), NEW fault, PublishTail(fault)
    PROVE  GoesOn(rtt') /\ core' = core
<1>1. {"pc", "resume"} \subseteq DOMAIN rtt.poll
  BY DEF PollShape
<1>2. rtt' = [rtt EXCEPT !.poll = Failed(rtt.poll)] \/ rtt' = [rtt EXCEPT !.poll = [Idle(rtt.poll) EXCEPT !.xmit = <<>>]]
  BY Zenon DEF PublishTail
<1>3. CASE rtt' = [rtt EXCEPT !.poll = Failed(rtt.poll)]
  BY <1>1, <1>3, FailedKeeps, GoesOnWith, Zenon DEF PublishTail
<1>4. CASE rtt' = [rtt EXCEPT !.poll = [Idle(rtt.poll) EXCEPT !.xmit = <<>>]]
  <2>1. PICK q : q = Idle(rtt.poll)
    OBVIOUS
  <2>2. {"pc", "resume"} \subseteq DOMAIN q /\ q.pc = "io" /\ q.resume = rtt.poll.resume
    BY <1>1, <2>1, IdleKeeps, Zenon
  <2>3. PICK y : y = [q EXCEPT !.xmit = <<>>]
    OBVIOUS
  <2>4. {"pc", "resume"} \subseteq DOMAIN y /\ y.pc \notin {"off", "wait"} /\ y.resume = rtt.poll.resume
    BY <2>2, <2>3, SMT
  <2> QED BY <1>4, <2>1, <2>3, <2>4, GoesOnWith, Zenon DEF PublishTail
<1> QED BY <1>2, <1>3, <1>4

LEMMA PublishHeadGoesOn ==
    ASSUME PollShape(rtt), NEW fault, PublishHead(fault)
    PROVE  GoesOn(rtt') /\ core' = core
<1>1. {"pc", "resume"} \subseteq DOMAIN rtt.poll
  BY DEF PollShape
<1>2. rtt' = [rtt EXCEPT !.poll = Failed(rtt.poll)] \/ rtt' = [rtt EXCEPT !.poll = [Idle(rtt.poll) EXCEPT !.moved = <<>>]]
  BY Zenon DEF PublishHead
<1>3. CASE rtt' = [rtt EXCEPT !.poll = Failed(rtt.poll)]
  BY <1>1, <1>3, FailedKeeps, GoesOnWith, Zenon DEF PublishHead
<1>4. CASE rtt' = [rtt EXCEPT !.poll = [Idle(rtt.poll) EXCEPT !.moved = <<>>]]
  <2>1. PICK q : q = Idle(rtt.poll)
    OBVIOUS
  <2>2. {"pc", "resume"} \subseteq DOMAIN q /\ q.pc = "io" /\ q.resume = rtt.poll.resume
    BY <1>1, <2>1, IdleKeeps, Zenon
  <2>3. PICK y : y = [q EXCEPT !.moved = <<>>]
    OBVIOUS
  <2>4. {"pc", "resume"} \subseteq DOMAIN y /\ y.pc \notin {"off", "wait"} /\ y.resume = rtt.poll.resume
    BY <2>2, <2>3, SMT
  <2> QED BY <1>4, <2>1, <2>3, <2>4, GoesOnWith, Zenon DEF PublishHead
<1> QED BY <1>2, <1>3, <1>4

(* The bytes b are in the down ring of channel k; its new head is to be    *)
(* published.                                                              *)
RingFilled(r, b, k, h) == [r EXCEPT !.poll.pc = "publish", !.poll.moved = b, !.poll.chan[k].head = h]

LEMMA PublishStarts ==
    ASSUME NEW r, PollShape(r), NEW b, NEW k, NEW h
    PROVE  /\ PollShape(RingFilled(r, b, k, h))
           /\ RingFilled(r, b, k, h).poll.resume = r.poll.resume /\ RingFilled(r, b, k, h).poll.pc = "publish"
<1> DEFINE r1 == [r EXCEPT !.poll.pc = "publish"]
           r2 == [r1 EXCEPT !.poll.moved = b]
           r3 == [r2 EXCEPT !.poll.chan[k].head = h]
<1>1. PollShape(r1) /\ r1.poll.resume = r.poll.resume /\ r1.poll.pc = "publish"
  BY SMT DEF PollShape
<1>2. RingFilled(r, b, k, h) = r3
  BY DEF RingFilled
<1> HIDE DEF r1
<1>3. PollShape(r2) /\ r2.poll.resume = r1.poll.resume /\ r2.poll.pc = r1.poll.pc
  BY <1>1, SMT DEF PollShape
<1> HIDE DEF r2
<1>4. PollShape(r3) /\ r3.poll.resume = r2.poll.resume /\ r3.poll.pc = r2.poll.pc
  <2>1. PICK ch : ch = [r2.poll.chan EXCEPT ![k].head = h]
    OBVIOUS
  <2>2. r3 = [r2 EXCEPT !.poll.chan = ch]
    BY <2>1, Zenon
  <2> QED BY <1>3, <2>2, SMT DEF PollShape
<1> QED BY <1>1, <1>2, <1>3, <1>4, Zenon

LEMMA ReadGoesOn ==
    ASSUME PollShape(rtt), NEW fault, ReadRtt(fault)
    PROVE  GoesOn(rtt') /\ core' = core
<1> DEFINE i == rtt.poll.i
           c == rtt.poll.chan[i]
           flagged == [rtt EXCEPT !.skip = (tgt.flag = 0), !.block = (tgt.flag = 2)]
<1>1. {"pc", "resume"} \subseteq DOMAIN rtt.poll
  BY DEF PollShape
<1> DEFINE n == Min({Space(c), Len(usb.recv)})
           bytes == SubSeq(usb.recv, 1, n)
<1>2. \/ rtt' = [flagged EXCEPT !.poll = Idle(rtt.poll)]
      \/ rtt' = [flagged EXCEPT !.poll = Failed(rtt.poll)]
      \/ rtt' = RingFilled(flagged, bytes, i, (c.head + n) % c.size)
  <2>1. CASE usb.recv = <<>> \/ NoRing(c)
    BY <2>1, Zenon DEF ReadRtt
  <2>2. CASE usb.recv # <<>> /\ ~NoRing(c) /\ BadRing(c)
    BY <2>2, Zenon DEF ReadRtt
  <2>3. CASE ~(usb.recv = <<>> \/ NoRing(c)) /\ ~(usb.recv # <<>> /\ ~NoRing(c) /\ BadRing(c))
    BY <2>3, Zenon DEF ReadRtt, RingFilled
  <2> QED BY <2>1, <2>2, <2>3, Zenon
<1>3. PollShape(flagged) /\ flagged.poll = rtt.poll
  BY SMT DEF PollShape
<1>4. core' = core
  BY Zenon DEF ReadRtt
<1> HIDE DEF flagged, n, bytes
<1>5. CASE rtt' = [flagged EXCEPT !.poll = Idle(rtt.poll)]
  BY <1>1, <1>3, <1>4, <1>5, IdleKeeps, GoesOnWith, Zenon
<1>6. CASE rtt' = [flagged EXCEPT !.poll = Failed(rtt.poll)]
  BY <1>1, <1>3, <1>4, <1>6, FailedKeeps, GoesOnWith, Zenon
<1>7. ASSUME NEW b, NEW h, rtt' = RingFilled(flagged, b, i, h)
      PROVE  GoesOn(rtt')
  <2>1. PollShape(rtt') /\ rtt'.poll.resume = flagged.poll.resume /\ rtt'.poll.pc = "publish"
    <3>1. PICK s, f, k : s = rtt' /\ f = flagged /\ k = i
      OBVIOUS
    <3>2. s = RingFilled(f, b, k, h) /\ PollShape(f)
      BY <1>3, <1>7, <3>1, Zenon
    <3>3. /\ PollShape(RingFilled(f, b, k, h)) /\ RingFilled(f, b, k, h).poll.resume = f.poll.resume
          /\ RingFilled(f, b, k, h).poll.pc = "publish"
      BY <3>2, PublishStarts
    <3> QED BY <3>1, <3>2, <3>3, Zenon
  <2> QED BY <1>3, <2>1 DEF GoesOn
<1> QED BY <1>2, <1>4, <1>5, <1>6, <1>7, Zenon

LEMMA SkipGoesOn ==
    ASSUME PollShape(rtt), SkipChannel
    PROVE  GoesOn(rtt') /\ core' = core
<1>1. rtt.poll.pc = "io" /\ core' = core
  BY DEF SkipChannel
<1>2. rtt' = [rtt EXCEPT !.poll.pc = "end"] \/ rtt' = [rtt EXCEPT !.poll.i = @ + 1]
  BY Zenon DEF SkipChannel
<1>3. CASE rtt' = [rtt EXCEPT !.poll.pc = "end"]
  BY <1>1, <1>3, SMT DEF GoesOn, PollShape
<1>4. CASE rtt' = [rtt EXCEPT !.poll.i = @ + 1]
  BY <1>1, <1>4, SMT DEF GoesOn, PollShape
<1> QED BY <1>2, <1>3, <1>4

(* A step of the poll under way, whatever it reads, writes or fails at.    *)
LEMMA PollGoesOn ==
    ASSUME PollShape(rtt), NEW fault, RttSteps(fault) \/ SkipChannel
    PROVE  GoesOn(rtt') /\ core' = core
<1>1. CASE PollFind(fault)
  BY <1>1, FindGoesOn, Zenon
<1>2. CASE PollChannels(fault)
  BY <1>2, ChannelsGoOn, Zenon
<1>3. CASE PrintRtt(fault)
  BY <1>3, PrintGoesOn, Zenon
<1>4. CASE PublishTail(fault)
  BY <1>4, PublishTailGoesOn, Zenon
<1>5. CASE ReadRtt(fault)
  BY <1>5, ReadGoesOn, Zenon
<1>6. CASE PublishHead(fault)
  BY <1>6, PublishHeadGoesOn, Zenon
<1>7. CASE SkipChannel
  BY <1>7, SkipGoesOn, Zenon
<1> QED BY <1>1, <1>2, <1>3, <1>4, <1>5, <1>6, <1>7, Zenon DEF RttSteps

-----------------------------------------------------------------------------
(* The invariant step by step.                                             *)

LEMMA HaltOwnedInit ==
    ASSUME Init
    PROVE  HaltOwned
<1>1. core = "stop" /\ loop = "gdb" /\ wanted = FALSE /\ left = FALSE
  BY DEF Init, RttInit
<1>2. "poll" \in DOMAIN rtt /\ rtt.poll = NotPolling
  BY SMT DEF Init, RttInit
<1>3. {"pc", "resume"} \subseteq DOMAIN NotPolling /\ NotPolling.pc = "off" /\ NotPolling.resume = FALSE
  BY SMT DEF NotPolling
<1> QED BY <1>1, <1>2, <1>3 DEF HaltOwned, PollShape

(* Steps that leave the poll alone and the target as it is, or only change *)
(* what HaltOwned says of the loop.                                        *)
LEMMA LoopSteps ==
    ASSUME HaltOwned, PollRunning \/ PollStopped \/ PollLost \/ PollCall \/ ServePacket \/ ServeReply \/ cortexm_hostio_request
                      \/ CharNone \/ CharBreak \/ RttNotDue
    PROVE  HaltOwned'
<1>1. rtt' = rtt
  BY DEF PollRunning, PollStopped, PollLost, PollCall, ServePacket, ServeReply, cortexm_hostio_request, CharNone, CharBreak,
         RttNotDue, rttVars
<1>2. PollShape(rtt)'
  BY <1>1 DEF HaltOwned, PollShape
<1>3. CASE PollRunning
  BY <1>1, <1>2, <1>3 DEF HaltOwned, PollRunning, rttVars
<1>4. CASE PollStopped
  BY <1>1, <1>2, <1>4 DEF HaltOwned, PollStopped, rttVars
<1>5. CASE PollCall
  BY <1>1, <1>2, <1>5 DEF HaltOwned, PollCall, rttVars
<1>6. CASE ServePacket
  BY <1>1, <1>2, <1>6 DEF HaltOwned, ServePacket, rttVars
<1>7. CASE ServeReply
  BY <1>1, <1>2, <1>7 DEF HaltOwned, ServeReply, rttVars
<1>8. CASE cortexm_hostio_request
  BY <1>1, <1>2, <1>8 DEF HaltOwned, cortexm_hostio_request, rttVars
<1>9. CASE CharNone
  BY <1>1, <1>2, <1>9 DEF HaltOwned, CharNone, rttVars
<1>10. CASE CharBreak
  BY <1>1, <1>2, <1>10 DEF HaltOwned, CharBreak
<1>11. CASE RttNotDue
  BY <1>1, <1>2, <1>11 DEF HaltOwned, RttNotDue, Quiet, rttVars
<1>12. CASE PollLost
  BY <1>1, <1>2, <1>12 DEF HaltOwned, PollLost, rttVars
<1> QED BY <1>3, <1>4, <1>5, <1>6, <1>7, <1>8, <1>9, <1>10, <1>11, <1>12

(* The record of a poll that begins, and of one that has waited.           *)
Begun(r, halt, x) == [r EXCEPT !.halt = halt, !.poll.pc = x]
Waited(r, b) == [r EXCEPT !.poll.pc = "find", !.poll.resume = b]

LEMMA Begins ==
    ASSUME NEW r, PollShape(r), NEW halt, NEW x
    PROVE  PollShape(Begun(r, halt, x)) /\ Begun(r, halt, x).poll.pc = x /\ Begun(r, halt, x).poll.resume = r.poll.resume
<1> DEFINE r1 == [r EXCEPT !.halt = halt]
           r2 == [r1 EXCEPT !.poll.pc = x]
<1>1. PollShape(r1) /\ r1.poll = r.poll
  BY SMT DEF PollShape
<1> HIDE DEF r1
<1>2. PollShape(r2) /\ r2.poll.pc = x /\ r2.poll.resume = r1.poll.resume
  BY <1>1, SMT DEF PollShape
<1> HIDE DEF r2
<1>3. PollShape(r2) /\ r2.poll.pc = x /\ r2.poll.resume = r.poll.resume
  BY <1>1, <1>2
<1> QED BY <1>3, Zenon DEF r1, r2, Begun

LEMMA Waits ==
    ASSUME NEW r, PollShape(r), NEW b
    PROVE  PollShape(Waited(r, b)) /\ Waited(r, b).poll.pc = "find" /\ Waited(r, b).poll.resume = b
<1> DEFINE r2 == [r EXCEPT !.poll.pc = "find"]
           r3 == [r2 EXCEPT !.poll.resume = b]
<1>2. PollShape(r2) /\ r2.poll.pc = "find"
  BY SMT DEF PollShape
<1> HIDE DEF r2
<1>3. PICK p : p = [r2.poll EXCEPT !.resume = b]
  OBVIOUS
<1>4. {"pc", "resume"} \subseteq DOMAIN p /\ p.pc = "find" /\ p.resume = b
  BY <1>2, <1>3, SMT DEF PollShape
<1>5. r3 = [r2 EXCEPT !.poll = p]
  BY <1>3, Zenon
<1>6. PollShape(r3) /\ r3.poll = p
  BY <1>2, <1>4, <1>5, PollReplaced, Zenon
<1>7. PollShape(r3) /\ r3.poll.pc = "find" /\ r3.poll.resume = b
  BY <1>4, <1>6, Zenon
<1> QED BY <1>7, Zenon DEF r2, Waited

(* A poll begins: it finds the target stopped, cannot tell, or asks it to  *)
(* halt while it may stop by itself.                                       *)
LEMMA HaltStep ==
    ASSUME HaltOwned, RttDue \/ RttDueFault
    PROVE  HaltOwned'
<1>1. /\ rtt.poll.pc = "off" /\ loop = "rtt" /\ loop' = loop /\ left' = left
      /\ wanted' = (wanted \/ StopsItself) /\ rtt.poll.resume = FALSE
  BY DEF HaltOwned, RttDue, RttDueFault, PollHalt
<1>2. PICK halt, x : /\ rtt' = Begun(rtt, halt, x)
                     /\ \/ x = "find" /\ core' = core
                        \/ x = "wait" /\ core = "run" /\ core' \in {"req", "run"} \union OwnStops
  BY Zenon DEF RttDue, RttDueFault, PollHalt, Begun
<1>3. PollShape(rtt') /\ rtt'.poll.pc = x /\ rtt'.poll.resume = rtt.poll.resume
  <2>1. PollShape(rtt)
    BY DEF HaltOwned
  <2>2. /\ PollShape(Begun(rtt, halt, x)) /\ Begun(rtt, halt, x).poll.pc = x
        /\ Begun(rtt, halt, x).poll.resume = rtt.poll.resume
    BY <2>1, Begins
  <2> QED BY <1>2, <2>2, Zenon
<1>4. PollShape(rtt)'
  BY <1>3 DEF PollShape
<1>5. OwnStops \subseteq {"stop", "brk"}
  BY DEF OwnStops
<1>6. core' = core => wanted' = wanted
  BY <1>1, <1>5 DEF StopsItself, HaltOwned
<1>7. CASE x = "find" /\ core' = core
  BY <1>1, <1>3, <1>4, <1>6, <1>7 DEF HaltOwned
<1>8. CASE x = "wait" /\ core = "run" /\ core' \in {"req", "run"} \union OwnStops
  <2>1. wanted = FALSE
    BY <1>8 DEF HaltOwned
  <2>2. wanted' \in BOOLEAN /\ (wanted' => core' \in {"stop", "brk"})
    BY <1>1, <1>5, <2>1 DEF StopsItself
  <2> QED BY <1>1, <1>3, <1>4, <1>5, <1>8, <2>2 DEF HaltOwned
<1> QED BY <1>2, <1>7, <1>8

(* The wait for the halt, and its end by an error.                         *)
LEMMA WaitStep ==
    ASSUME HaltOwned, RttWait \/ RttWaitFault
    PROVE  HaltOwned'
<1>1. /\ rtt.poll.pc = "wait" /\ loop = "rtt" /\ loop' = loop /\ wanted' = wanted /\ rtt.poll.resume = FALSE
      /\ core' \in IF core = "run" THEN {"run", "req"} ELSE {core}
  BY DEF HaltOwned, RttWait, RttWaitFault, PollWait
<1>2. CASE rtt' = rtt
  <2>1. PollShape(rtt)'
    BY <1>2 DEF HaltOwned, PollShape
  <2>2. left' \in BOOLEAN
    BY DEF HaltOwned, RttWait, RttWaitFault
  <2> QED BY <1>1, <1>2, <2>1, <2>2 DEF HaltOwned
<1>3. CASE rtt' # rtt
  <2>1. PICK b : /\ rtt' = Waited(rtt, b)
                 /\ \/ b = (core \in {"req", "brk"}) /\ core # "run" /\ left' = left
                    \/ b = FALSE /\ left' = (core' = "req")
    <3>1. CASE RttWait
      <4>1. core # "run" /\ rtt' = Waited(rtt, ~FALSE /\ core \in {"req", "brk"})
        BY <1>3, <3>1, Zenon DEF RttWait, PollWait, Waited
      <4>2. left' = left
        BY <3>1 DEF RttWait
      <4>3. (~FALSE /\ core \in {"req", "brk"}) = (core \in {"req", "brk"})
        OBVIOUS
      <4> QED BY <4>1, <4>2, <4>3, Zenon
    <3>2. CASE RttWaitFault
      <4>1. rtt' = Waited(rtt, ~TRUE /\ core \in {"req", "brk"})
        BY <3>2, Zenon DEF RttWaitFault, PollWait, Waited
      <4>2. left' = (core' = "req")
        BY <3>2 DEF RttWaitFault
      <4>3. (~TRUE /\ core \in {"req", "brk"}) = FALSE
        OBVIOUS
      <4> QED BY <4>1, <4>2, <4>3, Zenon
    <3> QED BY <3>1, <3>2
  <2>2. PollShape(rtt') /\ rtt'.poll.pc = "find" /\ rtt'.poll.resume = b
    <3>1. PollShape(rtt)
      BY DEF HaltOwned
    <3>2. PollShape(Waited(rtt, b)) /\ Waited(rtt, b).poll.pc = "find" /\ Waited(rtt, b).poll.resume = b
      BY <3>1, Waits
    <3> QED BY <2>1, <3>2, Zenon
  <2>3. PollShape(rtt)'
    BY <2>2 DEF PollShape
  <2>4. (core \in {"req", "brk"}) \in BOOLEAN /\ (core' = "req") \in BOOLEAN /\ left \in BOOLEAN
    BY DEF HaltOwned
  <2>5. b \in BOOLEAN /\ left' \in BOOLEAN
    BY <2>1, <2>4, Zenon
  <2> QED BY <1>1, <2>1, <2>2, <2>3, <2>5 DEF HaltOwned
<1> QED BY <1>2, <1>3

LEMMA PollSteps ==
    ASSUME HaltOwned, RttStep \/ RttFault \/ RttEnd \/ RttEndFault
    PROVE  HaltOwned'
<1>1. CASE RttStep \/ RttFault
  <2>1. PollShape(rtt) /\ loop = "rtt" /\ loop' = loop /\ wanted' = wanted /\ left' = left
    BY <1>1 DEF HaltOwned, RttStep, RttFault
  <2>2. GoesOn(rtt') /\ core' = core
    BY <1>1, <2>1, PollGoesOn, Zenon DEF RttStep, RttFault
  <2>3. PollShape(rtt)'
    BY <2>2 DEF GoesOn, PollShape
  <2>4. rtt.poll.pc \notin {"off", "wait"}
    BY <1>1, Zenon DEF RttStep, RttFault, RttSteps, PollFind, PollChannels, PrintRtt, PublishTail, ReadRtt, PublishHead,
                       SkipChannel
  <2> QED BY <2>1, <2>2, <2>3, <2>4 DEF HaltOwned, GoesOn
<1>2. CASE RttEnd \/ RttEndFault
  <2>1. /\ wanted' = wanted /\ loop' = "poll" /\ loop = "rtt" /\ rtt.poll.pc = "end"
        /\ \/ left' = left /\ core' = IF rtt.poll.resume THEN Resumed ELSE core
           \/ /\ left' = (core' = "req") /\ rtt.poll.resume
              /\ core' \in {Resumed, core}
    BY <1>2 DEF RttEnd, RttEndFault, PollEnd
  <2>2. PICK p, e, x : rtt' = [rtt EXCEPT !.poll = p, !.errs = e, !.enabled = x] /\ p = NotPolling
    <3>1. PICK fault : PollEnd(fault)
      BY <1>2, Zenon DEF RttEnd, RttEndFault
    <3> QED BY <3>1, Zenon DEF PollEnd
  <2>3. "poll" \in DOMAIN rtt' /\ rtt'.poll = p
    BY <2>2, SMT DEF HaltOwned, PollShape
  <2>4. {"pc", "resume"} \subseteq DOMAIN p /\ p.pc = "off" /\ p.resume = FALSE
    BY <2>2, SMT DEF NotPolling
  <2>5. PollShape(rtt)'
    BY <2>3, <2>4 DEF PollShape
  <2>6. rtt'.poll.pc = "off" /\ rtt'.poll.resume = FALSE
    BY <2>3, <2>4
  <2>7. left' \in BOOLEAN
    BY <2>1 DEF HaltOwned
  <2> QED BY <2>1, <2>5, <2>6, <2>7 DEF HaltOwned, Resumed
<1> QED BY <1>1, <1>2

(* GDB, the program and the user.                                          *)
LEMMA OtherSteps ==
    ASSUME HaltOwned, GdbContinues \/ GdbReattaches \/ GdbCommand \/ GdbRuns \/ ProgramCalls \/ ProgramStops \/ TargetRuns
                      \/ TargetRestarts \/ UserTypes
    PROVE  HaltOwned'
<1>1. CASE GdbContinues
  BY <1>1 DEF HaltOwned, GdbContinues, PollShape
<1>2. CASE ProgramCalls
  BY <1>2 DEF HaltOwned, ProgramCalls, PollShape
<1>3. CASE ProgramStops
  BY <1>3 DEF HaltOwned, ProgramStops, PollShape, OwnStops
<1>4. CASE TargetRuns
  <2>1. UNCHANGED <<rtt, core, loop, wanted, left>>
    BY <1>4 DEF TargetRuns, TargetPuts, TargetTakes
  <2> QED BY <2>1 DEF HaltOwned, PollShape
<1>5. CASE TargetRestarts
  BY <1>5 DEF HaltOwned, TargetRestarts, PollShape
<1>6. CASE UserTypes
  <2>1. UNCHANGED <<rtt, core, loop, wanted, left>>
    BY <1>6 DEF UserTypes, HostTypes
  <2> QED BY <2>1 DEF HaltOwned, PollShape
<1>7. ASSUME UNCHANGED <<core, loop, wanted, left>>, "poll" \in DOMAIN rtt', rtt'.poll = rtt.poll
      PROVE  HaltOwned'
  BY <1>7 DEF HaltOwned, PollShape
<1>8. CASE GdbRuns
  <2>1. UNCHANGED <<core, loop, wanted, left>> /\ rtt' = [rtt EXCEPT !.found = FALSE]
    BY <1>8 DEF GdbRuns
  <2>2. "poll" \in DOMAIN rtt' /\ rtt'.poll = rtt.poll
    BY <2>1, SMT DEF HaltOwned, PollShape
  <2> QED BY <1>7, <2>1, <2>2
<1>9. CASE GdbCommand
  <2>1. UNCHANGED <<core, loop, wanted, left>> /\ (rtt' = rtt \/ cmd_rtt)
    BY <1>9 DEF GdbCommand, cmd_rtt, rttVars
  <2>2. "poll" \in DOMAIN rtt
    BY DEF HaltOwned, PollShape
  <2>3. CASE rtt' = rtt
    BY <1>7, <2>1, <2>2, <2>3
  <2>4. CASE cmd_rtt
    <3>1. ASSUME NEW a, NEW b
          PROVE  /\ "poll" \in DOMAIN [rtt EXCEPT !.enabled = a, !.found = b]
                 /\ [rtt EXCEPT !.enabled = a, !.found = b].poll = rtt.poll
                 /\ "poll" \in DOMAIN [rtt EXCEPT !.shown = a, !.auto = b]
                 /\ [rtt EXCEPT !.shown = a, !.auto = b].poll = rtt.poll
      BY <2>2, SMT
    <3>2. ASSUME NEW a
          PROVE  /\ "poll" \in DOMAIN [rtt EXCEPT !.ident = a] /\ [rtt EXCEPT !.ident = a].poll = rtt.poll
                 /\ "poll" \in DOMAIN [rtt EXCEPT !.range = a] /\ [rtt EXCEPT !.range = a].poll = rtt.poll
      BY <2>2, SMT
    <3>3. "poll" \in DOMAIN rtt' /\ rtt'.poll = rtt.poll
      <4>1. \/ rtt' \in {[rtt EXCEPT !.enabled = TRUE, !.found = FALSE], [rtt EXCEPT !.enabled = FALSE, !.found = FALSE],
                        [rtt EXCEPT !.shown = {}, !.auto = TRUE], [rtt EXCEPT !.ident = ~@]}
            \/ rtt' \in {[rtt EXCEPT !.shown = s, !.auto = FALSE] : s \in {{c} : c \in Chans}}
            \/ rtt' \in {[rtt EXCEPT !.range = r] : r \in Ranges}
        BY <2>4, Zenon DEF cmd_rtt
      <4>2. CASE rtt' \in {[rtt EXCEPT !.enabled = TRUE, !.found = FALSE], [rtt EXCEPT !.enabled = FALSE, !.found = FALSE],
                        [rtt EXCEPT !.shown = {}, !.auto = TRUE], [rtt EXCEPT !.ident = ~@]}
        BY <3>1, <3>2, <4>2, Zenon
      <4>3. CASE rtt' \in {[rtt EXCEPT !.shown = s, !.auto = FALSE] : s \in {{c} : c \in Chans}}
        BY <3>1, <4>3, Zenon
      <4>4. CASE rtt' \in {[rtt EXCEPT !.range = r] : r \in Ranges}
        BY <3>2, <4>4, Zenon
      <4> QED BY <4>1, <4>2, <4>3, <4>4
    <3> QED BY <1>7, <2>1, <3>3
  <2> QED BY <2>1, <2>3, <2>4
<1>10. CASE GdbReattaches
  BY <1>10 DEF HaltOwned, GdbReattaches, PollShape
<1> QED BY <1>1, <1>2, <1>3, <1>4, <1>5, <1>6, <1>8, <1>9, <1>10

(* HaltOwned is an invariant: who halted the target is known in every      *)
(* state, in spite of all the ways bmp_poll_loop, poll_rtt, the user and   *)
(* the program interleave.                                                 *)
THEOREM HaltOwnedAlways == Spec => []HaltOwned
<1>1. Init => HaltOwned
  BY HaltOwnedInit
<1>2. HaltOwned /\ [Next]_vars => HaltOwned'
  <2> SUFFICES ASSUME HaltOwned, [Next]_vars PROVE HaltOwned'
    OBVIOUS
  <2>1. CASE UNCHANGED vars
    BY <2>1 DEF HaltOwned, PollShape, vars, rttVars
  <2>2. CASE Next
    BY <2>2, LoopSteps, HaltStep, WaitStep, PollSteps, OtherSteps DEF Next
  <2> QED BY <2>1, <2>2
<1> QED BY <1>1, <1>2, PTL DEF Spec

(* No stop the user asked for or the target made is taken back by a poll   *)
(* of RTT, and a poll leaves halted a target that was running only when a  *)
(* debug access of its own failed.                                         *)
THEOREM StopsKeptAlways == Spec => []StopsKept
<1>1. HaltOwned => StopsKept
  BY DEF HaltOwned, StopsKept
<1> QED BY <1>1, HaltOwnedAlways, PTL

=============================================================================
