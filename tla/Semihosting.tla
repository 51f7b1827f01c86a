----------------------------- MODULE Semihosting -----------------------------
(***************************************************************************)
(* Semihosting: a program stopped at BKPT 0xab asks its debugger for a      *)
(* file operation.  The firmware either answers by itself (the console and  *)
(* the features "file", the command line, errno) or sends GDB an F request  *)
(* and serves GDB's packets in a nested loop until the F reply arrives.     *)
(* While GDB answers a call whose answer the firmware needs for itself, the *)
(* memory layer (target_mem_read, target_mem_write) is redirected from the  *)
(* target to a buffer of the firmware.                                      *)
(*                                                                         *)
(* Handlers are operators: what a call does before GDB is asked, and what   *)
(* it makes of GDB's reply.  GDB and the program are external.  A byte is a *)
(* number that says where it comes from (a file and a position in it).      *)
(***************************************************************************)
EXTENDS Integers, Sequences, FiniteSetsExt, SequencesExt

CONSTANTS
    Files,        \* files of GDB's host, as numbers from 1
    HugeFiles,    \* the ones longer than 2 GiB
    FileLen,      \* bytes in a file
    FeatLen,      \* SEMIHOSTING_FEATURES_LENGTH (5)
    BufLen,       \* bytes of the program's buffer
    StdoutChunk,  \* STDOUT_READ_BUF_SIZE (64)
    Wrap,         \* values of the centisecond counter (2^32)
    Times,        \* bound: values of GDB's clock, in centiseconds
    MaxFd         \* bound: GDB's descriptors

ASSUME FilesAssumption == Files \subseteq 1 .. 7 /\ HugeFiles \subseteq Files /\ FileLen \in 1 .. 9 /\ FeatLen \in 1 .. 9
ASSUME BufferAssumption == BufLen \in Nat \ {0} /\ StdoutChunk \in Nat \ {0}
ASSUME ClockAssumption == Wrap \in Nat /\ Wrap % 2 = 0 /\ Wrap > 2 /\ Times \subseteq Nat /\ Times # {}

VARIABLES
    sh,     \* the firmware: redirection, semihosting_features_offset, epoch, interrupted
    call,   \* the call being served, or the one that ended last
    prog,   \* the program: its buffer, the word at ram->start, the files it holds open
    gdb     \* GDB: its descriptors, its clock, the request it works on

semihostingVars == <<sh, call, prog, gdb>>

TT == 8                     \* the name ":tt"
Features == 9               \* the name ":semihosting-features"
INT32_MAX == 99             \* the handle of the features file
STDIN == 0
STDOUT == 1
STDERR == 2
Byte(name, pos) == 10 * name + pos
Junk == -98                 \* an uninitialised buffer
Question == -63             \* the '?' that SYS_READC starts from
Huge == -97                 \* a length whose upper half is not zero
Pending == -99              \* no result yet

Modes == {"r", "w", "a"}    \* open_mode_flags: RDONLY; CREAT and TRUNC; CREAT and APPEND

-----------------------------------------------------------------------------
(* The target's memory as the firmware reaches it.                         *)

Cells == 0 .. BufLen        \* the word at ram->start, and the program's buffer
Fresh == [i \in Cells |-> i]

(* A write of one byte, the i-th of a transfer: redirected it always lands *)
(* at the start of the firmware's buffer.                                  *)
target_mem_write(m, i, b) ==
    IF sh.redirect THEN [mem |-> m, buf |-> b] ELSE [mem |-> [m EXCEPT ![i] = b], buf |-> sh.buf]

target_mem_read(m, i) == IF sh.redirect THEN sh.buf ELSE m[i]

-----------------------------------------------------------------------------
(* Handlers up to the F request: an answer, or what GDB is asked.          *)

Answer(res) == [res |-> res, ask |-> "none", sh |-> sh, mem |-> prog.mem, sent |-> <<>>]
Ask(what) == [Answer(Pending) EXCEPT !.ask = what]
AskForProbe(what, initial) ==
    [Ask(what) EXCEPT !.sh = [sh EXCEPT !.redirect = TRUE, !.buf = initial]]

IsConsole(h) == h - 1 \in {STDIN, STDOUT, STDERR}

semihosting_open(c) ==
    CASE c.name = TT -> Answer((CASE c.mode = "r" -> STDIN [] c.mode = "w" -> STDOUT [] OTHER -> STDERR) + 1)
      [] c.name = Features ->
            IF c.mode = "r" THEN [Answer(INT32_MAX) EXCEPT !.sh.off = 0] ELSE Answer(-1)
      [] OTHER -> Ask("Fopen")

semihosting_close(c) == IF IsConsole(c.h) \/ c.h = INT32_MAX THEN Answer(0) ELSE Ask("Fclose")

FeaturesRead(c) ==
    LET amount == Min({c.len, FeatLen - sh.off})
    IN [Answer(c.len - amount) EXCEPT
            !.sh.off = sh.off + amount,
            !.mem = [i \in Cells |-> IF i \in 1 .. amount THEN Byte(Features, sh.off + i - 1) ELSE prog.mem[i]]]

semihosting_read(c) == IF c.h = INT32_MAX THEN FeaturesRead(c) ELSE Ask("Fread")

(* The redirected standard output goes to the probe's own serial port in   *)
(* pieces; the address read is the same for each piece.                    *)
semihosting_remote_write(fd, len) ==
    IF sh.redirected /\ fd \in {STDOUT, STDERR}
    THEN [Answer(0) EXCEPT
            !.sent = [i \in 1 .. len |-> target_mem_read(prog.mem, ((i - 1) % StdoutChunk) + 1)]]
    ELSE Ask("Fwrite")

semihosting_write(c) ==
    IF c.h = INT32_MAX THEN Answer(-1) ELSE semihosting_remote_write(c.h - 1, c.len)

semihosting_writec(c) == semihosting_remote_write(STDOUT, 1)
semihosting_write0(c) == semihosting_remote_write(STDOUT, c.len)

semihosting_seek(c) ==
    IF c.h = INT32_MAX
    THEN [Answer(0) EXCEPT !.sh.off = IF c.pos < FeatLen THEN c.pos ELSE FeatLen]
    ELSE Ask("Flseek")

semihosting_file_length_NotRedirected(c) ==
    IF c.h = INT32_MAX THEN Answer(FeatLen) ELSE Ask("Ffstat")

semihosting_file_length(c) ==
    IF c.h = INT32_MAX THEN Answer(FeatLen) ELSE AskForProbe("Ffstat", Junk)

semihosting_get_time == AskForProbe("Fgettimeofday", Junk)
semihosting_readc == AskForProbe("Fread", Question)

(* Answers written into the program's buffer by the firmware itself.  The  *)
(* heap information and temporary names are given in the same way, and     *)
(* SYS_ISERROR answers like SYS_ERRNO: the command line and SYS_ERRNO      *)
(* stand for them.                                                         *)
Filled(c, n) == [Answer(0) EXCEPT !.mem = [i \in Cells |-> IF i \in 1 .. n THEN Byte(TT, 0) ELSE prog.mem[i]]]
semihosting_get_command_line(c) == IF c.len < BufLen THEN Answer(-1) ELSE Filled(c, BufLen)

Ignored(c) == Answer(-1)     \* SYS_ELAPSED, SYS_TICKFREQ and unknown calls

semihosting_handle_request(c) ==
    CASE c.op = "OPEN" -> semihosting_open(c)
      [] c.op = "CLOSE" -> semihosting_close(c)
      [] c.op = "READ" -> semihosting_read(c)
      [] c.op = "WRITE" -> semihosting_write(c)
      [] c.op = "WRITEC" -> semihosting_writec(c)
      [] c.op = "WRITE0" -> semihosting_write0(c)
      [] c.op = "ISTTY" -> Ask("Fisatty")
      [] c.op = "SEEK" -> semihosting_seek(c)
      [] c.op = "RENAME" -> Ask("Frename")
      [] c.op = "REMOVE" -> Ask("Funlink")
      [] c.op = "SYSTEM" -> Ask("Fsystem")
      [] c.op = "FLEN" -> semihosting_file_length(c)
      [] c.op \in {"CLOCK", "TIME"} -> semihosting_get_time
      [] c.op = "READC" -> semihosting_readc
      [] c.op = "ERRNO" -> Answer(0)      \* or the number of the last reply
      [] c.op = "EXIT" -> Answer(0)
      [] c.op = "GET_CMDLINE" -> semihosting_get_command_line(c)
      [] OTHER -> Ignored(c)

-----------------------------------------------------------------------------
(* GDB at work on a request (external): its packets go through             *)
(* gdb_main_loop to the memory layer.                                      *)

Console == [name |-> TT, pos |-> 1]
ReadFd == IF call.op = "READC" THEN STDIN ELSE call.h - 1
FileAt(fd) == IF fd \in DOMAIN gdb.fds THEN gdb.fds[fd] ELSE Console
Asked(what) == call.st = "wait" /\ call.ask = what

WriteByte(i, b) ==
    LET w == target_mem_write(prog.mem, i, b)
    IN prog' = [prog EXCEPT !.mem = w.mem] /\ sh' = [sh EXCEPT !.buf = w.buf]

(* One byte of a read; the console may give any number of them.            *)
GdbWritesByte ==
    /\ Asked("Fread") /\ call.n < (IF call.op = "READC" THEN 1 ELSE call.len)
    /\ LET f == FileAt(ReadFd)
       IN /\ f.name = TT \/ f.pos + call.n < FileLen
          /\ WriteByte(IF call.op = "READC" THEN 0 ELSE call.n + 1,
                       Byte(f.name, IF f.name = TT THEN 1 ELSE f.pos + call.n))
    /\ call' = [call EXCEPT !.n = @ + 1]
    /\ UNCHANGED gdb

(* The structures of fstat and gettimeofday, at the address they were sent. *)
GdbWritesStruct ==
    /\ call.n = 0
    /\ \/ /\ Asked("Ffstat")
          /\ LET f == FileAt(call.h - 1)
             IN WriteByte(0, IF f.name \in HugeFiles THEN Huge ELSE FileLen)
          /\ UNCHANGED gdb
       \/ /\ Asked("Fgettimeofday")
          /\ \E t \in {u \in Times : u >= gdb.time} : WriteByte(0, t) /\ gdb' = [gdb EXCEPT !.time = t]
    /\ call' = [call EXCEPT !.n = 1]

GdbReadsBuffer ==
    /\ Asked("Fwrite") /\ call.n = 0
    /\ call' = [call EXCEPT !.n = 1, !.sent = [i \in 1 .. call.len |-> target_mem_read(prog.mem, i)]]
    /\ UNCHANGED <<sh, prog, gdb>>

FreeFds == {fd \in 3 .. MaxFd : fd \notin DOMAIN gdb.fds}
Without(f, x) == [y \in DOMAIN f \ {x} |-> f[y]]

(* What GDB did and the value it replies with.                             *)
GdbDone(fds, val) == [fds |-> fds, val |-> val]
GdbOutcomes ==
    CASE call.ask = "Fopen" ->
            {GdbDone([fd \in DOMAIN gdb.fds \union {Min(FreeFds)} |->
                        IF fd \in DOMAIN gdb.fds THEN gdb.fds[fd] ELSE [name |-> call.name, pos |-> 0]], Min(FreeFds)) :
                x \in {1} \ (IF FreeFds = {} THEN {1} ELSE {})}
      [] call.ask = "Fclose" -> {GdbDone(Without(gdb.fds, call.h - 1), 0)}
      [] call.ask = "Fread" ->
            {GdbDone([fd \in DOMAIN gdb.fds |->
                        IF fd = ReadFd THEN [gdb.fds[fd] EXCEPT !.pos = @ + call.n] ELSE gdb.fds[fd]], call.n)}
      [] call.ask = "Fwrite" -> {GdbDone(gdb.fds, n) : n \in IF call.n = 1 THEN {call.len, call.len \div 2} ELSE {}}
      [] call.ask = "Flseek" ->
            {GdbDone([fd \in DOMAIN gdb.fds |->
                        IF fd = call.h - 1 THEN [gdb.fds[fd] EXCEPT !.pos = call.pos] ELSE gdb.fds[fd]], call.pos)}
      [] call.ask \in {"Ffstat", "Fgettimeofday"} -> {GdbDone(gdb.fds, 0) : x \in {1} \intersect {call.n}}
      [] call.ask = "Fisatty" -> {GdbDone(gdb.fds, IF FileAt(call.h - 1).name = TT THEN 1 ELSE 0)}
      [] OTHER -> {GdbDone(gdb.fds, 0)}

-----------------------------------------------------------------------------
(* The reply: F result, errno (not told apart here) and the flag of a      *)
(* Ctrl-C; or one that does not parse; or the link closed.                 *)

semihosting_reply(kind, val, ctrl_c) ==
    IF kind = "garbled" THEN [res |-> -1, interrupted |-> FALSE]
    ELSE [res |-> IF kind = "ok" THEN val ELSE -1, interrupted |-> ctrl_c]

semihosting_open_reply(r) == IF r # -1 THEN r + 1 ELSE r

semihosting_read_reply(c, r) == IF r >= 0 THEN c.len - r ELSE r

semihosting_write_reply(c, r) == IF r >= 0 THEN c.len - r ELSE r
semihosting_write0_reply(c, r) == IF r # c.len THEN -1 ELSE 0
semihosting_seek_reply(c, r) == IF r = c.pos THEN 0 ELSE -1
semihosting_file_length_reply(r) == IF r # 0 \/ sh.buf = Huge THEN -1 ELSE sh.buf
semihosting_readc_reply(r) == IF r # 1 THEN -1 ELSE sh.buf
semihosting_time_reply(r) == IF r # 0 THEN -1 ELSE sh.buf

Centiseconds == sh.buf % Wrap
ClockEpoch == IF sh.epoch > Centiseconds THEN Centiseconds ELSE sh.epoch

semihosting_clock(r) == IF r # 0 THEN -1 ELSE (Centiseconds - ClockEpoch) % (Wrap \div 2)

Result(c, r) ==
    CASE c.op = "OPEN" -> semihosting_open_reply(r)
      [] c.op = "READ" -> semihosting_read_reply(c, r)
      [] c.op = "WRITE" -> semihosting_write_reply(c, r)
      [] c.op = "WRITEC" -> 0
      [] c.op = "WRITE0" -> semihosting_write0_reply(c, r)
      [] c.op = "SEEK" -> semihosting_seek_reply(c, r)
      [] c.op = "FLEN" -> semihosting_file_length_reply(r)
      [] c.op = "CLOCK" -> semihosting_clock(r)
      [] c.op = "TIME" -> semihosting_time_reply(r)
      [] c.op = "READC" -> semihosting_readc_reply(r)
      [] OTHER -> r

(* Redirection ends before the result is worked out.                       *)
semihosting_get_gdb_response(res, interrupted) ==
    sh' = [sh EXCEPT !.redirect = FALSE, !.buf = Junk, !.interrupted = interrupted,
                     !.epoch = IF call.op = "CLOCK" /\ res = 0 THEN ClockEpoch ELSE @]

(* What the program makes of a result: the files it holds open, where it   *)
(* believes to be in them, and the clock it saw first (not the firmware's).*)
ProgAfter(c, res, fds, fresh) ==
    LET known == [h \in DOMAIN prog.open |->
                    IF h - 1 \in DOMAIN fds /\ c.st = "wait" /\ h = c.h /\ res = -1
                    THEN [prog.open[h] EXCEPT !.pos = fds[h - 1].pos] ELSE prog.open[h]]
    IN CASE c.op = "OPEN" /\ res # -1 ->
                [prog EXCEPT !.open = [h \in DOMAIN known \union {res} |->
                                         IF h = res THEN [name |-> c.name, pos |-> 0] ELSE known[h]]]
         [] c.op = "CLOSE" -> [prog EXCEPT !.open = Without(known, c.h)]
         [] c.op = "READ" /\ res # -1 /\ known[c.h].name # TT -> [prog EXCEPT !.open = [known EXCEPT ![c.h].pos = @ + c.len - res]]
         [] c.op = "SEEK" /\ res # -1 -> [prog EXCEPT !.open = [known EXCEPT ![c.h].pos = c.pos]]
         [] c.op = "CLOCK" /\ res # -1 /\ prog.first = Junk -> [prog EXCEPT !.open = known, !.first = fresh]
         [] OTHER -> [prog EXCEPT !.open = known]

-----------------------------------------------------------------------------
(* Steps.                                                                  *)

NoCall == [op |-> "none", h |-> 0, len |-> 0, mode |-> "r", name |-> 0, pos |-> 0, st |-> "idle",
           res |-> 0, ask |-> "none", n |-> 0, sent |-> <<>>, from |-> Console, broke |-> FALSE]

Held == DOMAIN prog.open
Calls ==
    {[NoCall EXCEPT !.op = "OPEN", !.name = f, !.mode = m] : f \in {TT, Features}, m \in Modes}
        \union {[NoCall EXCEPT !.op = "OPEN", !.name = f] : f \in Files}
        \union {[NoCall EXCEPT !.op = o, !.h = h, !.len = n] : o \in {"READ", "WRITE"}, h \in Held, n \in 1 .. BufLen}
        \union {[NoCall EXCEPT !.op = "SEEK", !.h = h, !.pos = p] : h \in Held, p \in {0, 1, FeatLen}}
        \union {[NoCall EXCEPT !.op = o, !.h = h] : o \in {"CLOSE", "ISTTY", "FLEN"}, h \in Held}
        \union {[NoCall EXCEPT !.op = "GET_CMDLINE", !.len = n] : n \in {BufLen - 1, BufLen}}
        \union {[NoCall EXCEPT !.op = o] : o \in {"CLOCK", "TIME", "READC", "ERRNO", "EXIT", "RENAME", "REMOVE",
                                                "SYSTEM", "ELAPSED"}}
        \union {[NoCall EXCEPT !.op = "WRITEC", !.len = 1], [NoCall EXCEPT !.op = "WRITE0", !.len = BufLen]}

semihosting_request(c) ==
    LET a == semihosting_handle_request(c)
        done == a.ask = "none"
    IN /\ sh' = [a.sh EXCEPT !.interrupted = FALSE]
       /\ call' = [c EXCEPT !.st = IF done THEN "done" ELSE "wait", !.res = a.res, !.ask = a.ask, !.sent = a.sent,
                            !.from = IF c.h \in Held THEN prog.open[c.h] ELSE @]
       /\ prog' = IF done THEN [ProgAfter(c, a.res, gdb.fds, Junk) EXCEPT !.mem = a.mem] ELSE prog
       /\ UNCHANGED gdb

Finish(r, fds, broke) ==
    LET res == Result(call, r.res)
    IN /\ semihosting_get_gdb_response(r.res, r.interrupted)
       /\ call' = [call EXCEPT !.st = "done", !.res = res, !.n = 0, !.broke = broke]
       /\ prog' = ProgAfter(call, res, fds, sh.buf)
       /\ gdb' = [gdb EXCEPT !.fds = fds]

(* GDB's answer: the call done, failed, or done with a reply that does not *)
(* parse; the user may have pressed Ctrl-C meanwhile.                      *)
GdbReply ==
    /\ call.st = "wait" /\ call.ask # "none"
    /\ \/ \E o \in GdbOutcomes, kind \in {"ok", "garbled"}, ctrl_c \in BOOLEAN :
            Finish(semihosting_reply(kind, o.val, ctrl_c), o.fds, ctrl_c /\ kind = "ok")
       \/ \E ctrl_c \in BOOLEAN : Finish(semihosting_reply("error", -1, ctrl_c), gdb.fds, ctrl_c)


(* The link closes: the call fails, and the files are gone with GDB.       *)
GdbGone ==
    /\ call.st = "wait"
    /\ semihosting_get_gdb_response(-1, FALSE)
    /\ call' = [call EXCEPT !.st = "done", !.res = Result(call, -1), !.n = 0]
    /\ prog' = [prog EXCEPT !.open = [h \in {g \in Held : prog.open[g].name \notin Files} |-> prog.open[h]]]
    /\ gdb' = [gdb EXCEPT !.fds = <<>>]

SemihostingInit ==
    /\ sh = [redirect |-> FALSE, buf |-> Junk, off |-> 0, epoch |-> Wrap - 1, interrupted |-> FALSE,
             redirected |-> FALSE]
    /\ call = NoCall
    /\ prog = [mem |-> Fresh, open |-> <<>>, first |-> Junk]
    /\ gdb = [fds |-> <<>>, time |-> Min(Times)]

cmd_redirect_stdout == sh' = [sh EXCEPT !.redirected = ~@]

(* vRun: the clock starts again, the program starts again, GDB forgets.    *)
RunAgain ==
    /\ sh' = [sh EXCEPT !.epoch = Wrap - 1]
    /\ call' = NoCall
    /\ prog' = [prog EXCEPT !.open = <<>>, !.first = Junk]
    /\ gdb' = [gdb EXCEPT !.fds = <<>>]

-----------------------------------------------------------------------------
(* Properties, at the moment a call returns to the program.                *)

Returned(ops) == call.st = "done" /\ call.op \in ops

(* A handle the program holds reaches the file the program opened with it: *)
(* the console and the features file never stand for one of GDB's files,   *)
(* and closing one handle never takes away another.                        *)
HandlesName ==
    \A h \in Held :
        LET name == prog.open[h].name
        IN CASE name = TT -> IsConsole(h)
             [] name = Features -> h = INT32_MAX
             [] OTHER -> h - 1 \in DOMAIN gdb.fds /\ gdb.fds[h - 1].name = name

(* A read the program is told of moved exactly that many bytes, the next   *)
(* ones of that file, into the program's buffer and nowhere else; a failed *)
(* one touched no more than the buffer it was given.                       *)
ReadExact ==
    Returned({"READ"}) =>
        LET moved == call.len - call.res
        IN IF call.res = -1 THEN \A i \in Cells \ (1 .. call.len) : prog.mem[i] = i
           ELSE \A i \in Cells :
                   prog.mem[i] = IF i \notin 1 .. moved THEN i
                                 ELSE Byte(call.from.name, IF call.from.name = TT THEN 1 ELSE call.from.pos + i - 1)

(* What GDB sends for the firmware's own use (a length, the time, one      *)
(* character) never reaches the target's memory, and the program gets it.  *)
ProbeReadsApart ==
    Returned({"FLEN", "CLOCK", "TIME", "READC"}) =>
        /\ prog.mem = Fresh
        /\ call.res # -1 =>
            CASE call.op = "FLEN" -> call.res = IF call.from.name = Features THEN FeatLen
                                               ELSE FileLen
              [] call.op = "TIME" -> call.res = gdb.time
              [] call.op = "READC" -> call.res = Byte(TT, 1)
              [] OTHER -> TRUE

(* The bytes sent for a write are the program's, in order.  Standard       *)
(* output redirected to the probe repeats its first piece: only its first  *)
(* piece is claimed.                                                       *)
WriteExact ==
    Returned({"WRITE", "WRITEC", "WRITE0"}) /\ call.res # -1 =>
        LET moved == IF call.op = "WRITE" THEN call.len - call.res ELSE Len(call.sent)
            own == sh.redirected /\ (call.op # "WRITE" \/ call.h - 1 \in {STDOUT, STDERR})
        IN \A i \in 1 .. (IF own THEN Min({moved, StdoutChunk}) ELSE moved) : call.sent[i] = i

(* The target is held after a call only if the user broke in during that   *)
(* very call, and then always.                                             *)
BreakTold == call.st = "done" => (sh.interrupted <=> call.broke)

(* SYS_CLOCK counts from the first call of this run of the program: never  *)
(* ahead of the time gone by, and exactly it (to the width of the result)  *)
(* as long as the counter of centiseconds has not wrapped.                 *)
ClockElapsed ==
    Returned({"CLOCK"}) /\ call.res # -1 =>
        LET elapsed == gdb.time - prog.first
        IN /\ call.res <= elapsed
           /\ prog.first \div Wrap = gdb.time \div Wrap => call.res = elapsed % (Wrap \div 2)

=============================================================================
