------------------------------- MODULE HostIo -------------------------------
(***************************************************************************)
(* The main loop that polls a running target (bmp_poll_loop of the          *)
(* firmware's main.c, gdb_poll_target): it serves the semihosting calls the *)
(* target stops for, watches for Ctrl-C, polls RTT, and tells GDB when the  *)
(* target stops.                                                           *)
(*                                                                         *)
(* The port compiles that main.c but runs a thread of its own               *)
(* (gdb_application_thread), which waits for the next packet and never      *)
(* polls: Polls tells the two apart.                                       *)
(***************************************************************************)
EXTENDS Rtt

CONSTANTS
    Polls,        \* TRUE: bmp_poll_loop; FALSE: gdb_application_thread of the port
    MixedCalls,   \* bound: the calls of a program with RTT
    MaxCalls, MaxMixed,    \* bounds: calls of a program without RTT, and with it
    MaxEvents              \* bound: monitor commands, stops, restarts, failed accesses, and calls with RTT, together

ASSUME PollsAssumption == Polls \in BOOLEAN

VARIABLES
    loop,     \* "poll", "serve", "char", "rtt"; "gdb" when GDB has been told of a stop, "lost" when it has been
              \* told that the target is lost; "packet" when the port waits for GDB with the target running
    wanted,   \* a stop of the target that GDB has not been told of
    left,     \* history: a failed access of a poll left the target halted, and GDB has not been told
    used      \* what was used of the bounds

vars == <<semihostingVars, rttVars, loop, wanted, left, used>>

Spend(what) == used' = [used EXCEPT ![what] = @ + 1]
Mixed == tgt.cb # 0 \/ used.rtt      \* a program with RTT, or one debugged with RTT
Quiet == rtt.poll.pc = "off"

-----------------------------------------------------------------------------
(* gdb_poll_target.                                                        *)

PollRunning ==
    /\ loop = "poll" /\ core = "run"
    /\ loop' = "char"
    /\ UNCHANGED <<semihostingVars, rttVars, wanted, left, used>>

PollStopped ==
    /\ loop = "poll" /\ core \in {"stop", "req", "brk"}
    /\ loop' = "gdb" /\ wanted' = FALSE /\ left' = FALSE
    /\ UNCHANGED <<semihostingVars, rttVars, used>>

(* The target's state cannot be read (TARGET_HALT_ERROR): GDB is told that *)
(* it is lost, whatever it does; a Cortex-M's target list is freed.        *)
PollLost ==
    /\ loop = "poll" /\ used.events < MaxEvents
    /\ loop' = "lost" /\ wanted' = FALSE /\ left' = FALSE
    /\ Spend("events")
    /\ UNCHANGED <<semihostingVars, rttVars>>

(* cortexm_halt_poll finds a semihosting call.                             *)
PollCall ==
    /\ loop = "poll" /\ core = "call"
    /\ \E c \in Calls : (Mixed => c.op \in MixedCalls) /\ semihosting_request(c)
    /\ loop' = "serve"
    /\ UNCHANGED <<rttVars, wanted, left, used>>

(* The nested loop serves GDB's packets.                                   *)
ServePacket ==
    /\ loop = "serve"
    /\ GdbWritesByte \/ GdbWritesStruct \/ GdbReadsBuffer
    /\ UNCHANGED <<rttVars, loop, wanted, left, used>>

ServeReply ==
    /\ loop = "serve"
    /\ GdbReply \/ GdbGone
    /\ UNCHANGED <<rttVars, loop, wanted, left, used>>

(* The result is in the program's register; it goes on unless the user     *)
(* broke in, or stops at once after SYS_EXIT.                              *)
cortexm_hostio_request ==
    /\ loop = "serve" /\ call.st = "done"
    /\ call' = NoCall /\ prog' = [prog EXCEPT !.mem = Fresh]
    /\ UNCHANGED left
    /\ IF sh.interrupted THEN core' = "req" /\ loop' = "gdb" /\ wanted' = FALSE
       ELSE IF call.op = "EXIT" THEN core' = "stop" /\ loop' = "char" /\ wanted' = TRUE
       ELSE core' = "run" /\ loop' = "char" /\ UNCHANGED wanted
    /\ UNCHANGED <<sh, gdb, tgt, rtt, usb, used>>

-----------------------------------------------------------------------------
(* bmp_poll_loop after gdb_poll_target.                                    *)

CharNone ==
    /\ loop = "char"
    /\ loop' = IF rtt.enabled THEN "rtt" ELSE "poll"
    /\ UNCHANGED <<semihostingVars, rttVars, wanted, left, used>>

(* Ctrl-C: the target is asked to halt; the request may fail silently.     *)
CharBreak ==
    /\ loop = "char" /\ used.events < MaxEvents
    /\ core' \in IF core = "run" THEN {"req", "run"} ELSE {core}
    /\ wanted' = (wanted \/ core' # core)
    /\ loop' = IF rtt.enabled THEN "rtt" ELSE "poll"
    /\ Spend("events")
    /\ UNCHANGED <<semihostingVars, tgt, rtt, usb, left>>

RttNotDue ==
    /\ loop = "rtt" /\ Quiet
    /\ loop' = "poll"
    /\ UNCHANGED <<semihostingVars, rttVars, wanted, left, used>>

(* A poll begins.  That the target stops by itself at this moment, or that *)
(* an access fails, is an event.                                           *)
StopsItself == core = "run" /\ core' \in OwnStops
RttDue ==
    /\ loop = "rtt" /\ PollHalt(FALSE)
    /\ StopsItself => used.events < MaxEvents
    /\ wanted' = (wanted \/ StopsItself)
    /\ used' = IF StopsItself THEN [used EXCEPT !.events = @ + 1] ELSE used
    /\ UNCHANGED <<semihostingVars, loop, left>>

RttDueFault ==
    /\ loop = "rtt" /\ used.events < MaxEvents /\ tgt.needsHalt
    /\ PollHalt(TRUE)
    /\ wanted' = (wanted \/ StopsItself)
    /\ Spend("events")
    /\ UNCHANGED <<semihostingVars, loop, left>>

RttSteps(fault) ==
    PollFind(fault) \/ PollChannels(fault) \/ PrintRtt(fault) \/ PublishTail(fault) \/ ReadRtt(fault) \/ PublishHead(fault)

RttWait ==
    /\ loop = "rtt" /\ PollWait(FALSE)
    /\ UNCHANGED <<semihostingVars, loop, wanted, left, used>>

RttWaitFault ==
    /\ loop = "rtt" /\ used.events < MaxEvents
    /\ PollWait(TRUE)
    /\ left' = (core' = "req")
    /\ Spend("events")
    /\ UNCHANGED <<semihostingVars, loop, wanted>>

RttStep ==
    /\ loop = "rtt"
    /\ RttSteps(FALSE) \/ SkipChannel
    /\ UNCHANGED <<semihostingVars, loop, wanted, left, used>>

RttFault ==
    /\ loop = "rtt" /\ used.events < MaxEvents
    /\ RttSteps(TRUE)
    /\ Spend("events")
    /\ UNCHANGED <<semihostingVars, loop, wanted, left>>

RttEnd ==
    /\ loop = "rtt" /\ PollEnd(FALSE)
    /\ loop' = "poll"
    /\ UNCHANGED <<semihostingVars, wanted, left, used>>

RttEndFault ==
    /\ loop = "rtt" /\ used.events < MaxEvents /\ rtt.poll.resume
    /\ PollEnd(TRUE)
    /\ loop' = "poll" /\ left' = (core' = "req")
    /\ Spend("events")
    /\ UNCHANGED <<semihostingVars, wanted>>

-----------------------------------------------------------------------------
(* GDB has been told of a stop.                                            *)

GdbContinues ==
    /\ loop = "gdb"
    /\ core' = "run" /\ loop' = IF Polls THEN "poll" ELSE "packet"
    /\ UNCHANGED <<semihostingVars, tgt, rtt, usb, wanted, left, used>>

(* After a loss the user scans and attaches again, which halts the target. *)
GdbReattaches ==
    /\ loop = "lost"
    /\ core' = "req" /\ loop' = "gdb" /\ wanted' = FALSE
    /\ UNCHANGED <<semihostingVars, tgt, rtt, usb, left, used>>

GdbCommand ==
    /\ loop = "gdb" /\ used.events < MaxEvents
    /\ \/ /\ cmd_rtt /\ used.calls <= MaxMixed /\ UNCHANGED sh
          /\ used' = [used EXCEPT !.events = @ + 1, !.rtt = TRUE]
       \/ cmd_redirect_stdout /\ Spend("events") /\ UNCHANGED rttVars
    /\ UNCHANGED <<call, prog, gdb, loop, wanted, left>>

(* vRun: the control block is searched again, the clock starts again.      *)
GdbRuns ==
    /\ loop = "gdb" /\ used.events < MaxEvents
    /\ RunAgain /\ TargetBoots
    /\ rtt' = [rtt EXCEPT !.found = FALSE]
    /\ Spend("events")
    /\ UNCHANGED <<core, loop, wanted, left>>

-----------------------------------------------------------------------------
(* The target and the user.                                                *)

ProgramCalls ==
    /\ core = "run" /\ ~tgt.needsHalt /\ call.st = "idle"
    /\ IF Mixed THEN used.calls < MaxMixed /\ used.events < MaxEvents ELSE used.calls < MaxCalls
    /\ core' = "call"
    /\ used' = [used EXCEPT !.calls = @ + 1, !.events = IF Mixed THEN @ + 1 ELSE @]
    /\ UNCHANGED <<semihostingVars, tgt, rtt, usb, loop, wanted, left>>

ProgramStops ==
    /\ core = "run" /\ used.events < MaxEvents
    /\ core' \in OwnStops /\ wanted' = (loop # "lost")
    /\ Spend("events")
    /\ UNCHANGED <<semihostingVars, tgt, rtt, usb, loop, left>>

TargetRuns ==
    /\ TargetPuts \/ TargetTakes
    /\ UNCHANGED <<semihostingVars, loop, wanted, left, used>>

TargetRestarts ==
    /\ core = "run" /\ used.events < MaxEvents /\ rtt.enabled
    /\ TargetBoots
    /\ prog' = [prog EXCEPT !.open = <<>>]
    /\ Spend("events")
    /\ UNCHANGED <<sh, call, gdb, rtt, core, loop, wanted, left>>

UserTypes == HostTypes /\ UNCHANGED <<semihostingVars, loop, wanted, left, used>>

Init ==
    /\ SemihostingInit /\ RttInit
    /\ loop = "gdb" /\ wanted = FALSE /\ left = FALSE
    /\ used = [calls |-> 0, events |-> 0, rtt |-> FALSE]

Next ==
    \/ PollRunning \/ PollStopped \/ PollLost \/ PollCall \/ ServePacket \/ ServeReply \/ cortexm_hostio_request
    \/ CharNone \/ CharBreak \/ RttNotDue \/ RttDue \/ RttDueFault \/ RttWait \/ RttWaitFault
    \/ RttStep \/ RttFault \/ RttEnd \/ RttEndFault
    \/ GdbContinues \/ GdbReattaches \/ GdbCommand \/ GdbRuns
    \/ ProgramCalls \/ ProgramStops \/ TargetRuns \/ TargetRestarts \/ UserTypes

(* Serving a call: GDB answers what it is asked, and the call goes on.     *)
Fairness ==
    /\ WF_vars(ServeReply /\ call.ask # "none")
    /\ WF_vars(cortexm_hostio_request)

Spec == Init /\ [][Next]_vars /\ Fairness

(* The thread takes every step it can: nothing but GDB and the target      *)
(* keeps it waiting.                                                       *)
ThreadSpec ==
    /\ Spec
    /\ WF_vars(PollRunning \/ PollStopped \/ PollCall \/ CharNone \/ RttNotDue \/ RttDue \/ RttWait \/ RttStep \/ RttEnd)
    /\ WF_vars(GdbContinues)

-----------------------------------------------------------------------------
(* Properties of the whole.                                                *)

TypeOK ==
    /\ core \in {"run", "req", "stop", "brk", "call"}
    /\ loop \in {"poll", "serve", "char", "rtt", "gdb", "lost", "packet"}
    /\ rtt.poll.pc \in {"off", "wait", "find", "chans", "io", "publish", "end"} /\ (rtt.poll.pc # "off" => loop = "rtt")
    /\ rtt.shown \subseteq Chans /\ rtt.up + rtt.down <= MaxChan /\ Len(usb.recv) < RecvLen
    /\ call.st \in {"idle", "wait", "done"} /\ prog.mem \in [Cells -> Int] /\ sh.off \in 0 .. FeatLen

(* A stop the user asked for, or the target made by itself, is never taken *)
(* back by RTT, which halts the target and lets it go again, not even one  *)
(* at an ebreak, which poll_rtt takes for its own halt.  And a poll leaves *)
(* halted no target that was running, unless a debug access of that very   *)
(* poll failed: an error ends the wait for the halt, and a failed resume   *)
(* is not tried again.  GDB is then told of a stop nobody asked for.       *)
StopsKept ==
    /\ wanted => core \in {"stop", "req", "brk"}
    /\ loop = "poll" /\ core = "req" => wanted \/ left


(* What the comment in gdb_main_loop says of a target that was continued:  *)
(* its state is polled while it runs, so that GDB is told when it stops.   *)
StopTold == wanted ~> ~wanted

(* A semihosting call moves the bytes the program asked for, of the file   *)
(* it opened, and returns what the host said.                              *)
CallsExact == TypeOK /\ HandlesName /\ ReadExact /\ ProbeReadsApart /\ WriteExact /\ BreakTold /\ ClockElapsed

(* A poll that reads the target without a fault finds the control block    *)
(* wherever it is in the range searched.                                   *)
FindsBlock ==
    [][ /\ rtt.poll.pc = "find" /\ rtt'.poll.pc # "find" /\ used' = used
        /\ rtt.range[1] <= tgt.cb /\ tgt.cb + HeadLen <= rtt.range[2] /\ tgt.cb # 0 /\ tgt.layout # <<0, 0>>
        /\ ~rtt.found
        => rtt'.found /\ rtt'.cb = tgt.cb ]_vars

(* Both directions of RTT keep every byte, in order and once, and the      *)
(* control block that says where the rings are is found.                   *)
RttExact == [](UpExact /\ DownExact) /\ FindsBlock
=============================================================================
