------------------------------- MODULE MCPort -------------------------------
(***************************************************************************)
(* The two protocols of the GDB port, one or the other in a behaviour.     *)
(* GdbPacket: a buffer of six characters, a binary write whose data needs  *)
(* every kind of escape or looks like a control character, a short         *)
(* request, and whole, broken and overlong remote packets.  Remote: every  *)
(* version of the firmware, transfers of bytes, halfwords and words that   *)
(* take several requests, and shifts of several chunks.                    *)
(***************************************************************************)
EXTENDS GdbPacket, Remote

VARIABLE client   \* who has the port: GDB (and others, by mistake) or the hosted application

Binary == {<<88, ESCAPE, START, SOM, EOT>>, <<109>>}
Remotes == {<<SOM, 66, END>>, <<SOM, 66>>, <<SOM, 66, SOM, EOT>>, <<EOT>>,
            <<SOM>> \o [i \in 1 .. Size + 1 |-> 66]}

MCVersions == {"v0", "v0+", "v1", "v2", "v3", "v4"}
MCTransfers == {<<0, 27, 0>>, <<2, 20, 1>>, <<4, 0, 2>>}
MCCycles == {0, 5}

PortInit ==
    /\ client \in {"gdb", "app"}
    /\ Init
    /\ RemoteInit
    /\ client = "gdb" => probe.version = "v3"

PortNext ==
    \/ client = "gdb" /\ Next /\ UNCHANGED <<client, remoteVars>>
    \/ client = "app" /\ RemoteNext /\ UNCHANGED <<client, vars>>

PortSpec == PortInit /\ [][PortNext]_<<client, vars, remoteVars>> /\ Fairness /\ RemoteFairness

\* Every request is answered, by the probe or by a failure the caller sees: GDB's first
\* one after another host left a mode behind included (gdb_packet.c:47-56,
\* gdb_main.c:437-441), and every call of the hosted application returns, whatever
\* becomes of the probe (bmda_read_more_data).
Unanswered == host \in {"ack", "reply"} \/ Waiting
PortAnswers == Unanswered ~> ~Unanswered
=============================================================================
