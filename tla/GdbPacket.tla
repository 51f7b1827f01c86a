------------------------------ MODULE GdbPacket ------------------------------
(***************************************************************************)
(* The packet layer of gdb_packet.c between a GDB host and gdb_main: the   *)
(* receive state machine, one step per character, escapes and checksums,   *)
(* acknowledgements with their retries, and no-acknowledgement mode, which *)
(* outlives a host that goes away without detaching.                       *)
(*                                                                         *)
(* The host is external: it sends one request at a time, resends what was  *)
(* not acknowledged, and may die at any point of a packet.  Characters are *)
(* their codes.                                                            *)
(***************************************************************************)
EXTENDS Integers, SequencesExt, Bitwise

CONSTANTS
    Size,          \* GDB_PACKET_BUFFER_SIZE
    Requests,      \* what the host may send besides the packets below
    OtherBytes,    \* what a program that is not GDB may write to the port
    MaxSessions    \* bound on the number of hosts that come one after another

\* gdb_packet.h and remote.h
ACK == 43
NACK == 45
START == 36
END == 35
ESCAPE == 125
RUNLENGTH == 42
SOM == 33
EOT == 4

\* The requests gdb_main answers by changing the mode; all other ones, and the
\* connection's end, by their first character.
QSupported == <<113>>
QStartNoAckMode == <<81>>
Detach == <<68>>
Closed == <<EOT>>

ASSUME SizeAssumption == Size \in Nat \ {0}
ASSUME RequestsAssumption == \A r \in Requests : Len(r) \in 1 .. Size - 1
ASSUME SessionsAssumption == MaxSessions \in Nat

VARIABLES
    rx, tx,        \* the characters on their way to the probe, the items to the host
    state,         \* "idle", "remote", "capture", "escape", "upper", "lower";
                   \* then "handle" (gdb_main has the packet) and "await" (putpacket
                   \* waits for the acknowledgement)
    packet,        \* the packet buffer up to offset
    checksum, rx_checksum,
    noackmode,
    tries,         \* of the reply being sent
    host,          \* "closed", "ready", "ack" (sent, not acknowledged) or "reply"
    hostNoAck,     \* the host's side of the mode
    request,       \* the host's last request
    sessions       \* number of hosts so far

recvVars == <<state, packet, checksum, rx_checksum>>
probeVars == <<recvVars, noackmode, tries>>
hostVars == <<host, hostNoAck, request, sessions>>
vars == <<rx, tx, probeVars, hostVars>>

-----------------------------------------------------------------------------
(* Framing: gdb_next_char and gdb_putpacket, used by both sides *)

Xor32(c) == IF (c \div 32) % 2 = 1 THEN c - 32 ELSE c + 32

Escaped(c) == IF c \in {START, END, ESCAPE, RUNLENGTH} THEN <<ESCAPE, Xor32(c)>> ELSE <<c>>

Encoded(p) == FlattenSeq([i \in DOMAIN p |-> Escaped(p[i])])

Checksum(chars) == FoldSeq(LAMBDA c, sum : (sum + c) % 256, 0, chars)

HexDigit(n) == IF n < 10 THEN 48 + n ELSE 55 + n

Frame(p) ==
    LET body == Encoded(p)
        sum == Checksum(body)
    IN  <<START>> \o body \o <<END, HexDigit(sum \div 16), HexDigit(sum % 16)>>

\* Defined for every character; only that of a digit is below 16.
unhex_digit(c) ==
    LET digit == (c - 48) % 256
        letter == (digit - 7) % 256
    IN  IF digit <= 9 THEN digit ELSE IF letter > 16 THEN (letter - 32) % 256 ELSE letter

\* What the probe sends: an acknowledgement, or the reply to a packet.
Mark(c) == [kind |-> c, to |-> <<>>]
Reply(p) == [kind |-> START, to |-> p]

-----------------------------------------------------------------------------
(* gdb_getpacket: one character *)

Init ==
    /\ rx = <<>>
    /\ tx = <<>>
    /\ state = "idle"
    /\ packet = <<>>
    /\ checksum = 0
    /\ rx_checksum = 0
    /\ noackmode = FALSE
    /\ tries = 0
    /\ host = "closed"
    /\ hostNoAck = FALSE
    /\ request = <<>>
    /\ sessions = 0

Getchar(s) ==
    /\ state = s
    /\ rx # <<>>
    /\ rx' = Tail(rx)
    /\ UNCHANGED <<noackmode, tries, hostVars>>

Restart(s) ==
    /\ state' = s
    /\ packet' = <<>>
    /\ checksum' = 0

\* Between two packets everything but a start is skipped.  A remote packet has a
\* loop of its own.
Idle ==
    /\ Getchar("idle")
    /\ CASE Head(rx) = START -> Restart("capture")
         [] Head(rx) = SOM -> Restart("remote")
         [] Head(rx) = EOT -> /\ state' = "handle"
                              /\ packet' = Closed
                              /\ UNCHANGED checksum
         [] OTHER -> UNCHANGED <<state, packet, checksum>>
    /\ UNCHANGED <<tx, rx_checksum>>

\* consume_remote_packet; remote_packet_process is another component.
Remote ==
    /\ Getchar("remote")
    /\ CASE Head(rx) = START -> Restart("capture")
         [] Head(rx) = SOM -> Restart("remote")
         [] Head(rx) = END -> Restart("idle")
         [] Head(rx) = EOT -> /\ state' = "handle"
                              /\ packet' = Closed
                              /\ checksum' = 0
         [] OTHER -> IF Len(packet) < Size THEN /\ packet' = Append(packet, Head(rx))
                                                /\ UNCHANGED <<state, checksum>>
                                           ELSE Restart("idle")
    /\ UNCHANGED <<tx, rx_checksum>>

\* A character of the packet; one that fills the buffer ends the capture.
Stored(c, s) ==
    /\ packet' = Append(packet, c)
    /\ state' = IF Len(packet) + 1 >= Size THEN "idle" ELSE s

\* Mutant: a start inside a packet is taken for data.
Capture_NoRestart ==
    /\ Getchar("capture")
    /\ CASE Head(rx) = END -> state' = "upper" /\ UNCHANGED <<packet, checksum>>
         [] Head(rx) = ESCAPE -> /\ state' = "escape"
                                 /\ checksum' = (checksum + ESCAPE) % 256
                                 /\ UNCHANGED packet
         [] OTHER -> /\ Stored(Head(rx), "capture")
                     /\ checksum' = (checksum + Head(rx)) % 256
    /\ UNCHANGED <<tx, rx_checksum>>

Capture ==
    /\ Getchar("capture")
    /\ CASE Head(rx) = START -> Restart("capture")
         [] Head(rx) = END -> state' = "upper" /\ UNCHANGED <<packet, checksum>>
         [] Head(rx) = ESCAPE -> /\ state' = "escape"
                                 /\ checksum' = (checksum + ESCAPE) % 256
                                 /\ UNCHANGED packet
         [] OTHER -> /\ Stored(Head(rx), "capture")
                     /\ checksum' = (checksum + Head(rx)) % 256
    /\ UNCHANGED <<tx, rx_checksum>>

Escape ==
    /\ Getchar("escape")
    /\ Stored(Xor32(Head(rx)), "capture")
    /\ checksum' = (checksum + Head(rx)) % 256
    /\ UNCHANGED <<tx, rx_checksum>>

ChecksumUpper ==
    /\ Getchar("upper")
    /\ rx_checksum' = IF noackmode THEN rx_checksum ELSE (unhex_digit(Head(rx)) * 16) % 256
    /\ state' = "lower"
    /\ UNCHANGED <<tx, packet, checksum>>

\* The packet is complete: acknowledge it, then hand it over or start again.
ChecksumLower ==
    LET sum == rx_checksum | unhex_digit(Head(rx))
    IN  /\ Getchar("lower")
        /\ rx_checksum' = IF noackmode THEN rx_checksum ELSE sum
        /\ tx' = IF noackmode THEN tx ELSE Append(tx, Mark(IF sum = checksum THEN ACK ELSE NACK))
        /\ state' = IF noackmode \/ sum = checksum THEN "handle" ELSE "idle"
        /\ UNCHANGED <<packet, checksum>>

-----------------------------------------------------------------------------
(* gdb_main: what the packet does to the packet layer, and the reply *)

Handled(replies, noack) ==
    /\ state = "handle"
    /\ tx' = tx \o replies
    /\ noackmode' = noack
    /\ tries' = 0
    /\ state' = IF noack \/ Reply(packet) \notin ToSet(replies) THEN "idle" ELSE "await"
    /\ UNCHANGED <<rx, packet, checksum, rx_checksum, hostVars>>

\* gdb_set_noackmode(false): the packet was received in the old mode.
LateAck == IF noackmode THEN <<Mark(ACK)>> ELSE <<>>

\* Mutant: a new host finds the mode its predecessor left behind.
HandleSupported_KeepsMode ==
    /\ packet = QSupported
    /\ Handled(<<Reply(packet)>>, noackmode)

HandleSupported ==
    /\ packet = QSupported
    /\ Handled(LateAck \o <<Reply(packet)>>, FALSE)

HandleNoAckMode ==
    /\ packet = QStartNoAckMode
    /\ Handled(<<Reply(packet)>>, TRUE)

\* In no-acknowledgement mode the reply does not wait and the mode ends after it.
HandleDetach ==
    /\ packet = Detach
    /\ IF noackmode
       THEN /\ state = "handle"
            /\ tx' = tx \o <<Reply(packet), Mark(ACK)>>
            /\ noackmode' = FALSE
            /\ state' = "idle"
            /\ UNCHANGED <<rx, packet, checksum, rx_checksum, tries, hostVars>>
       ELSE Handled(<<Reply(packet)>>, FALSE)

HandleClosed ==
    /\ packet = Closed
    /\ Handled(LateAck, FALSE)

\* Mutant: every request ends the mode.
HandleOther_EndsMode ==
    /\ packet \notin {QSupported, QStartNoAckMode, Detach, Closed}
    /\ Handled(<<Reply(packet)>>, FALSE)

HandleOther ==
    /\ packet \notin {QSupported, QStartNoAckMode, Detach, Closed}
    /\ Handled(<<Reply(packet)>>, noackmode)

\* The loop of gdb_putpacket: anything but an acknowledgement, read or timed out,
\* sends the reply again, three times.
Again ==
    /\ IF tries < 3 THEN /\ tx' = Append(tx, Reply(packet))
                         /\ tries' = tries + 1
                         /\ UNCHANGED state
                    ELSE /\ state' = "idle"
                         /\ UNCHANGED <<tx, tries>>
    /\ UNCHANGED <<packet, checksum, rx_checksum, noackmode, hostVars>>

AckRead ==
    /\ state = "await"
    /\ rx # <<>>
    /\ rx' = Tail(rx)
    /\ IF Head(rx) = ACK THEN /\ state' = "idle"
                              /\ UNCHANGED <<tx, packet, checksum, rx_checksum, noackmode, tries, hostVars>>
                         ELSE Again

\* A host that is reading and has the reply in its queue answers within the 2000 ticks.
HostWillAck ==
    /\ ~hostNoAck
    /\ host \in {"ack", "reply"}
    /\ \E i \in DOMAIN tx : tx[i].kind = START

AckTimeout ==
    /\ state = "await"
    /\ rx = <<>>
    /\ ~HostWillAck
    /\ Again
    /\ UNCHANGED rx

-----------------------------------------------------------------------------
(* The host *)

Send(p) ==
    /\ request' = p
    /\ rx' = rx \o Frame(p)
    /\ host' = IF hostNoAck THEN "reply" ELSE "ack"
    /\ UNCHANGED <<tx, probeVars, hostNoAck, sessions>>

\* A new host comes when the probe is done with all that its predecessor sent.  It
\* drops what the port still holds and starts in acknowledgement mode.
HostConnect ==
    /\ host = "closed"
    /\ rx = <<>>
    /\ state # "handle"
    /\ sessions < MaxSessions
    /\ sessions' = sessions + 1
    /\ hostNoAck' = FALSE
    /\ request' = QSupported
    /\ rx' = rx \o <<ACK>> \o Frame(QSupported)
    /\ tx' = <<>>
    /\ host' = "ack"
    /\ UNCHANGED probeVars

\* A program of another kind opens the port, writes something and leaves: a remote
\* protocol client, a terminal.  Not after a host that died within a packet in
\* no-acknowledgement mode: nothing is checked then and its characters would be taken
\* for the rest of that packet.
OtherClient ==
    /\ host = "closed"
    /\ rx = <<>>
    /\ state # "handle"
    /\ noackmode => state \in {"idle", "remote"}
    /\ sessions < MaxSessions
    /\ sessions' = sessions + 1
    /\ \E chars \in OtherBytes : rx' = chars
    /\ tx' = <<>>
    /\ UNCHANGED <<probeVars, host, hostNoAck, request>>

HostSend ==
    /\ host = "ready"
    /\ \E p \in Requests \cup {Detach} \cup (IF hostNoAck THEN {} ELSE {QStartNoAckMode}) : Send(p)

\* The request was not acknowledged: nothing is left of it on either side.
HostResend ==
    /\ host = "ack"
    /\ rx = <<>>
    /\ tx = <<>>
    /\ state \notin {"handle", "await"}
    /\ Send(request)

\* The host takes the next item.  While it waits for an acknowledgement a reply can
\* only be an old one, which it acknowledges and drops.
HostTakesAck ==
    /\ host = "ack"
    /\ tx # <<>>
    /\ CASE Head(tx).kind = ACK -> /\ host' = "reply"
                                   /\ UNCHANGED rx
         [] Head(tx).kind = NACK -> /\ rx' = rx \o Frame(request)
                                    /\ UNCHANGED host
         [] OTHER -> /\ rx' = Append(rx, ACK)
                     /\ UNCHANGED host
    /\ tx' = Tail(tx)
    /\ UNCHANGED <<probeVars, hostNoAck, request, sessions>>

\* After `D` the host closes the port (target remote).
HostTakesReply ==
    /\ host = "reply"
    /\ tx # <<>>
    /\ IF Head(tx).kind # START
       THEN UNCHANGED <<rx, host, hostNoAck>>
       ELSE /\ rx' = IF hostNoAck THEN rx ELSE Append(rx, ACK)
            /\ hostNoAck' = (hostNoAck \/ request = QStartNoAckMode)
            /\ host' = IF request = Detach THEN "closed" ELSE "ready"
    /\ tx' = Tail(tx)
    /\ UNCHANGED <<probeVars, request, sessions>>

\* The host dies; what it had not sent yet is lost.  Left out is the one cut the next
\* host would not survive: in the checksum of a detach in no-acknowledgement mode the
\* probe takes the next host's first two characters for it, and the acknowledgement
\* that follows for that of the request these characters belonged to.
HostDies ==
    /\ host # "closed"
    /\ sessions < MaxSessions
    /\ host' = "closed"
    /\ \E lost \in 0 .. Len(rx) :
          /\ ~(noackmode /\ request = Detach /\ lost \in 1 .. 2)
          /\ rx' = SubSeq(rx, 1, Len(rx) - lost)
    /\ UNCHANGED <<tx, probeVars, hostNoAck, request, sessions>>

Probe ==
    \/ Idle
    \/ Remote
    \/ Capture
    \/ Escape
    \/ ChecksumUpper
    \/ ChecksumLower
    \/ HandleSupported
    \/ HandleNoAckMode
    \/ HandleDetach
    \/ HandleClosed
    \/ HandleOther
    \/ AckRead
    \/ AckTimeout

HostReads == HostTakesAck \/ HostTakesReply \/ HostResend

\* No host left: the probe waits for the next character.
AllOver ==
    /\ host = "closed"
    /\ sessions = MaxSessions
    /\ rx = <<>>
    /\ UNCHANGED vars

Next == Probe \/ HostReads \/ HostConnect \/ OtherClient \/ HostSend \/ HostDies \/ AllOver

\* The GDB task runs, and so does a host that waits for an answer.
Fairness == WF_vars(Probe) /\ WF_vars(HostReads)

-----------------------------------------------------------------------------
(* Properties *)

Sent == Requests \cup {QSupported, QStartNoAckMode, Detach}

\* Every variable has its type; the packet and its terminating NUL fit in the buffer
\* of GDB_PACKET_BUFFER_SIZE + 1 characters.
TypeOK ==
    /\ rx \in Seq(0 .. 255)
    /\ \A i \in DOMAIN tx : tx[i].kind \in {ACK, NACK, START}
    /\ state \in {"idle", "remote", "capture", "escape", "upper", "lower", "handle", "await"}
    /\ Len(packet) <= Size
    /\ checksum \in 0 .. 255
    /\ rx_checksum \in 0 .. 255
    /\ noackmode \in BOOLEAN
    /\ tries \in 0 .. 3
    /\ host \in {"closed", "ready", "ack", "reply"}
    /\ hostNoAck \in BOOLEAN
    /\ request \in Sent \cup {<<>>}
    /\ sessions \in 0 .. MaxSessions

\* gdb_main gets only packets that a host has sent, whole and unescaped: a packet that
\* breaks off is never joined to what the next host sends (gdb_packet.c:159-195), and
\* no character of a request is taken for the end of the connection, nor does the buffer
\* overflow (TypeOK).
DeliveredWasSent ==
    TypeOK /\ (state = "handle" => packet \in Sent \/ (packet = Closed /\ host = "closed"))

\* The reply a host takes is the reply to its request: what an earlier host left
\* behind, and what was sent twice, is never taken for it.
ReplyMatches ==
    host = "reply" /\ tx # <<>> /\ Head(tx).kind = START => Head(tx).to = request
==============================================================================
