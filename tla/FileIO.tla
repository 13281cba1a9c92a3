------------------------------- MODULE FileIO -------------------------------
(***************************************************************************)
(* Files as file.c, io.c and builtin-file.c handle them: a file read and a *)
(* file written by the threads of the program, both pipes to processes     *)
(* outside it.  A builtin that would block puts its file on the list of    *)
(* blocked files and its thread to sleep, and is executed again when the   *)
(* file has become ready; what it printed is in the buffers by then.       *)
(*                                                                         *)
(* The functions of file.c take the state io and return <<result, io>>;    *)
(* what they do with the pair r that another has returned is a definition  *)
(* of its own, applied to the call.                                        *)
(***************************************************************************)
EXTENDS Integers, Sequences, FiniteSets

CONSTANTS
    Threads,
    FileBufferSize,    \* bytes in a buffer, 4096 in the code
    PipeSize,          \* bytes in a pipe: writable as long as a buffer fits
    Incoming,          \* the bytes that are written to R, in order
    Outgoing,          \* the characters the threads write to W, in order
    Builtins,          \* the builtins each thread executes: do, file and flags
    PeerCloses         \* whether the process that writes to R is sure to end

R == "R"
W == "W"
Files == {R, W}
None == "none"
NoBuiltin == [do |-> None, file |-> None, flags |-> {}]
FileEOF == -1
FileBlocked == -2
FileError == -3
\* do_File_end pushes the result of a read at the end of the file back as a byte.
Stray == 255

VARIABLES
    io,        \* the files, the pipes and the list of blocked files: see IoInit
    op,        \* the builtin a thread is in: executed again after a sleep
    wait,      \* the file a thread sleeps for
    puts,      \* characters written so far, the ones being written again included
    main       \* "run", "exit" in the loop of FileFini, "over"

vars == <<io, op, wait, puts, main>>

NewFile == [open |-> TRUE,       \* fd >= 0
            flags |-> {},
            input |-> <<>>,      \* chunks: room in front, bytes not read yet
            output |-> <<>>]     \* chunks, the newest first: used, bytes not sent yet
InitialIo ==
    [file |-> [f \in Files |-> NewFile],
     fileBlocked |-> <<>>, anyFileWriteBlocked |-> FALSE, ioTimeoutQueued |-> FALSE, signalIo |-> FALSE,
     pipe |-> [f \in Files |-> <<>>], peer |-> [f \in Files |-> TRUE],
     refs |-> Files,             \* files the program still refers to
     freed |-> {},
     sent |-> <<>>, got |-> <<>>,     \* bytes written to R, and those of them read
     put |-> <<>>, taken |-> <<>>]    \* bytes output to W, and those of them taken from the pipe

Flags(s, f) == s.file[f].flags
Has(s, f, flag) == flag \in Flags(s, f)
WithFlag(s, f, flag) == [s EXCEPT !.file[f].flags = @ \cup {flag}]
WithoutFlags(s, f, flags) == [s EXCEPT !.file[f].flags = @ \ flags]
Blocking == {"InputBlocked", "OutputBlocked"}
Listed(s, f) == \E i \in DOMAIN s.fileBlocked : s.fileBlocked[i] = f
Front(s) == SubSeq(s, 1, Len(s) - 1)
Last(s) == s[Len(s)]
Smaller(m, n) == IF m < n THEN m ELSE n

FileIsReadable(s, f) == s.pipe[f] # <<>> \/ ~s.peer[f]
FileIsWritable(s, f) == Len(s.pipe[f]) + FileBufferSize <= PipeSize \/ ~s.peer[f]

\* Output that blocks is polled by a timer as well.
FileSetBlocked_NoTimer(s, f, flag) ==
    [WithFlag(s, f, flag) EXCEPT !.fileBlocked = IF Flags(s, f) \cap Blocking # {} THEN @ ELSE <<f>> \o @]
FileSetBlocked(s, f, flag) ==
    LET notice == flag = "OutputBlocked" /\ ~s.anyFileWriteBlocked
    IN  [WithFlag(s, f, flag) EXCEPT
            !.anyFileWriteBlocked = @ \/ notice,
            !.ioTimeoutQueued = @ \/ notice,
            !.fileBlocked = IF Flags(s, f) \cap Blocking # {} THEN @ ELSE <<f>> \o @]

---------------------------------------------------------------------------
(* Input.                                                                  *)

\* One read into the buffer, which has been read to its end.
FileRead(s, f) ==
    LET n == Smaller(Len(s.pipe[f]), IF Has(s, f, "UnBuf") THEN 1 ELSE FileBufferSize)
        bytes == SubSeq(s.pipe[f], 1, n)
        t == WithoutFlags(s, f, {"End"})
    IN  CASE ~FileIsReadable(s, f) -> <<FileBlocked, FileSetBlocked(s, f, "InputBlocked")>>
          [] n = 0 -> <<FileEOF, WithFlag(t, f, "End")>>
          [] OTHER -> <<Head(bytes), [t EXCEPT !.pipe[f] = SubSeq(@, n + 1, Len(@)),
                                               !.file[f].input = <<[room |-> 1, unread |-> Tail(bytes)]>>]>>

RECURSIVE FileInputFrom(_, _)
FileInputFrom(s, f) ==
    LET ic == s.file[f].input
    IN  IF ic = <<>> THEN FileRead(s, f)
        ELSE IF ic[1].unread # <<>>
             THEN <<Head(ic[1].unread), [s EXCEPT !.file[f].input[1].unread = Tail(@), !.file[f].input[1].room = @ + 1]>>
        ELSE IF Len(ic) > 1 THEN FileInputFrom([s EXCEPT !.file[f].input = Tail(@)], f)
        ELSE FileRead(s, f)
FileInput(s, f) == IF Has(s, f, "Closed") THEN <<FileError, s>> ELSE FileInputFrom(s, f)

\* Into the buffer when there is room in front, into a new one before it otherwise.
FileUnput(s, f, c) ==
    LET ic == s.file[f].input
    IN  [s EXCEPT !.file[f].input =
            IF ic = <<>> \/ ic[1].room = 0
            THEN <<[room |-> FileBufferSize - 1, unread |-> <<c>>]>> \o ic
            ELSE <<[room |-> ic[1].room - 1, unread |-> <<c>> \o ic[1].unread]>> \o Tail(ic)]

RECURSIVE Unputs(_, _, _)
Unputs(s, f, bytes) == IF bytes = <<>> THEN s ELSE Unputs(FileUnput(s, f, Last(bytes)), f, Front(bytes))

---------------------------------------------------------------------------
(* Output.                                                                 *)

\* What is left of a chunk goes into the pipe in one write.
FileFlushChain(s, f) ==
    LET ic == Last(s.file[f].output)
        n == Len(s.file[f].output)
    IN  CASE ic.unread = <<>> -> <<0, s>>
          [] ic.unread # <<>> /\ ~FileIsWritable(s, f) -> <<FileBlocked, FileSetBlocked(s, f, "OutputBlocked")>>
          [] ic.unread # <<>> /\ FileIsWritable(s, f) /\ ~s.peer[f] -> <<FileError, WithFlag(s, f, "OutputError")>>
          [] OTHER -> <<0, [s EXCEPT !.pipe[f] = @ \o ic.unread, !.file[f].output[n].unread = <<>>]>>

\* The oldest chunk first; the last one is left for new output.
RECURSIVE FlushChains(_, _)
FlushChains(s, f) ==
    LET Onwards(r) ==
            IF r[1] # 0 THEN r
            ELSE IF Len(s.file[f].output) = 1
                 THEN <<0, [r[2] EXCEPT !.file[f].output = <<[used |-> 0, unread |-> <<>>]>>]>>
            ELSE FlushChains([r[2] EXCEPT !.file[f].output = Front(@)], f)
    IN  IF s.file[f].output = <<>> THEN <<0, s>> ELSE Onwards(FileFlushChain(s, f))

\* A closed file is let go as soon as its output is not blocked.
FileFlush(s, f) ==
    LET LetGo(r) ==
            IF Has(s, f, "Closed") /\ r[1] # FileBlocked THEN <<r[1], [r[2] EXCEPT !.file[f].open = FALSE]>> ELSE r
    IN  LetGo(FlushChains(s, f))

FileClose(s, f) == FileFlush(WithFlag(s, f, "Closed"), f)

FileOutput(s, f, c) ==
    LET full(t) == t.file[f].output[1].used = FileBufferSize
        New(t) == [t EXCEPT !.file[f].output = <<[used |-> 0, unread |-> <<>>]>> \o @]
        Add(t) == [t EXCEPT !.file[f].output[1].used = @ + 1, !.file[f].output[1].unread = Append(@, c),
                            !.put = Append(@, c)]
        Flushed(t) == IF full(t) THEN FileFlush(t, f) ELSE <<0, t>>
        WithRoom(t) == IF full(t) THEN New(t) ELSE t
        BlocksLater(r) == <<IF r[1] = FileError THEN FileError ELSE 0, r[2]>>
        Written(t) == IF Has(s, f, "UnBuf") THEN BlocksLater(FileFlush(t, f)) ELSE <<0, t>>
        Added(r) == IF r[1] = FileError THEN r ELSE Written(Add(WithRoom(r[2])))
    IN  IF Has(s, f, "Closed") THEN <<FileError, WithFlag(s, f, "OutputError")>>
        ELSE Added(Flushed(IF s.file[f].output = <<>> THEN New(s) ELSE s))

---------------------------------------------------------------------------
(* Characters: UTF-8, with up to five bytes after the first.               *)

\* Bits of a character that its first byte leaves to the others, six each.
Bits(c) == IF c < 128 THEN 0 ELSE IF c < 2048 THEN 6 ELSE IF c < 65536 THEN 12 ELSE IF c < 2097152 THEN 18
           ELSE IF c < 67108864 THEN 24 ELSE 30
FirstByte(c) ==
    LET mark == CASE Bits(c) = 0 -> 0 [] Bits(c) = 6 -> 192 [] Bits(c) = 12 -> 224 [] Bits(c) = 18 -> 240
                  [] Bits(c) = 24 -> 248 [] Bits(c) = 30 -> 252
    IN  mark + c \div 2 ^ Bits(c)
Encoded(c) == <<FirstByte(c)>> \o [i \in 1..(Bits(c) \div 6) |-> 128 + ((c \div 2 ^ (Bits(c) - 6 * i)) % 64)]

RECURSIVE Outputs(_, _, _)
Outputs(s, f, bytes) ==
    LET Onwards(r) == IF r[1] < 0 THEN r ELSE Outputs(r[2], f, Tail(bytes))
    IN  IF bytes = <<>> THEN <<0, s>> ELSE Onwards(FileOutput(s, f, Head(bytes)))
FileOutchar(s, f, c) == Outputs(s, f, Encoded(c))
FileUnchar(s, f, c) == Unputs(s, f, Encoded(c))

\* How many bytes follow, and the bits of the first byte.
RECURSIVE Extra(_, _)
Extra(result, mask) == IF mask # 0 /\ (result \div mask) % 2 = 1 THEN 1 + Extra(result, mask \div 2) ELSE 1
LowBits(c, extra) == IF extra > 6 THEN c ELSE c % 2 ^ (6 - extra)
RECURSIVE Follow(_, _, _, _, _)
\* Bytes that have been read go back when the rest of the character is not there.
Follow(s, f, buf, extra, result) ==
    LET Onwards(r) ==
            IF r[1] < 0 THEN <<r[1], Unputs(r[2], f, buf), <<>>>>
            ELSE IF r[1] \div 64 # 2 THEN <<FileError, r[2], Append(buf, r[1])>>
            ELSE Follow(r[2], f, Append(buf, r[1]), extra - 1, result * 64 + (r[1] % 64))
    IN  IF extra = 0 THEN <<result, s, buf>> ELSE Onwards(FileInput(s, f))
\* The bytes that are read are not put back.
FileInchar_KeepsBytes(s, f) ==
    LET Whole(c, w) == <<w[1], w[2], IF w[3] = <<>> THEN <<>> ELSE <<c>> \o w[3]>>
        From(c, t, extra) ==
            IF c < 128 THEN <<c, t, IF c < 0 THEN <<>> ELSE <<c>>>>
            ELSE IF c \div 64 # 3 THEN <<FileError, t, <<c>>>>
            ELSE Whole(c, Follow(t, f, <<>>, extra, LowBits(c, extra)))
        First(r) == From(r[1], r[2], Extra(r[1], 32))
    IN  First(FileInput(s, f))
\* As <<character, io, the bytes it took>>.
FileInchar(s, f) ==
    LET From(c, t, extra) ==
            IF c < 128 THEN <<c, t, IF c < 0 THEN <<>> ELSE <<c>>>>
            ELSE IF c \div 64 # 3 THEN <<FileError, t, <<c>>>>
            ELSE Follow(t, f, <<c>>, extra, LowBits(c, extra))
        First(r) == From(r[1], r[2], Extra(r[1], 32))
    IN  First(FileInput(s, f))

---------------------------------------------------------------------------
(* The builtins, as [res, io]: "done", "sleep" for the file, or "raise".   *)

Done(s) == [res |-> "done", io |-> s]
Result(r) ==
    [res |-> CASE r[1] = FileBlocked -> "sleep" [] r[1] = FileError -> "raise" [] OTHER -> "done", io |-> r[2]]
Got(r, bytes) == <<r[1], [r[2] EXCEPT !.got = @ \o bytes]>>

do_File_getb(s, f) ==
    LET Byte(r) == IF r[1] < 0 THEN r ELSE Got(r, <<r[1]>>) IN Result(Byte(FileInput(s, f)))
\* The end of the file raises an exception of its own.
do_File_getc(s, f) == LET Character(r) == Got(r, r[3]) IN Result(Character(FileInchar(s, f)))
\* By a read, whose result is pushed back whatever it is.
do_File_end(s, f) ==
    LET Back(r) == IF r[1] \in {FileBlocked, FileError} THEN Result(r)
                   ELSE Done(FileUnput(r[2], f, IF r[1] = FileEOF THEN Stray ELSE r[1]))
    IN  IF Has(s, f, "End") THEN Done(s) ELSE Back(FileInput(s, f))
do_File_setbuf(s, f, flags) == Done([WithoutFlags(s, f, {"LineBuf", "UnBuf"}) EXCEPT !.file[f].flags = @ \cup flags])
do_File_putc(s, f, c) ==
    IF Has(s, f, "OutputBlocked") THEN [res |-> "sleep", io |-> s] ELSE Result(FileOutchar(s, f, c))
do_File_flush(s, f) == Result(FileFlush(s, f))
\* Closed only when there is nothing left to write.
do_File_close(s, f) ==
    LET Closed(r) == <<IF r[1] = FileError THEN FileError ELSE 0, r[2]>>
        Flushed(r) == IF r[1] < 0 THEN r ELSE Closed(FileClose(r[2], f))
    IN  Result(Flushed(FileFlush(s, f)))

---------------------------------------------------------------------------
(* Blocked files that have become ready.                                   *)

\* Those with a descriptor; the others leave the list.
Selectable(s) == SelectSeq(s.fileBlocked, LAMBDA f : s.file[f].open)
ReadReady(s, f) == Has(s, f, "InputBlocked") /\ FileIsReadable(s, f)
WriteReady(s, f) == Has(s, f, "OutputBlocked") /\ FileIsWritable(s, f)
AnyReady(s) == \E i \in DOMAIN s.fileBlocked :
                   LET f == s.fileBlocked[i] IN s.file[f].open /\ (ReadReady(s, f) \/ WriteReady(s, f))

\* The files of the list, as <<io, files whose sleepers wake>>.
RECURSIVE CheckEach(_, _, _)
CheckEach(s, files, woken) ==
    LET f == Head(files)
        read == ReadReady(s, f)
        Read(t) == IF read THEN WithoutFlags(t, f, {"InputBlocked"}) ELSE t
        Write(t) == IF WriteReady(s, f) THEN FileFlush(t, f) ELSE <<FileBlocked, t>>
        Free(t) == IF Flags(t, f) \cap Blocking # {} THEN t
                   ELSE [t EXCEPT !.fileBlocked = SelectSeq(@, LAMBDA g : g # f)]
        Onwards(r) ==
            CheckEach(Free(IF r[1] # FileBlocked THEN WithoutFlags(r[2], f, {"OutputBlocked"}) ELSE r[2]), Tail(files),
                      IF read \/ r[1] # FileBlocked THEN woken \cup {f} ELSE woken)
    IN  IF files = <<>> THEN <<s, woken>> ELSE Onwards(Write(Read(s)))

Noticed(s) == [s EXCEPT !.anyFileWriteBlocked = \E f \in Files : Listed(s, f) /\ Has(s, f, "OutputBlocked")]
\* Only the files that are ready to read are looked at.
FileCheckBlocked_ReadersOnly(s) ==
    LET Checked(r) == <<Noticed(r[1]), r[2]>>
        Readers(t) == SelectSeq(t.fileBlocked, LAMBDA f : ReadReady(t, f))
        Check(t) == IF t.fileBlocked = <<>> THEN <<[t EXCEPT !.anyFileWriteBlocked = FALSE], {}>>
                    ELSE IF Readers(t) = <<>> THEN <<t, {}>>
                    ELSE Checked(CheckEach(t, Readers(t), {}))
    IN  Check([s EXCEPT !.fileBlocked = Selectable(s)])
FileCheckBlocked(s) ==
    LET Checked(r) == <<Noticed(r[1]), r[2]>>
        Check(t) == IF t.fileBlocked = <<>> THEN <<[t EXCEPT !.anyFileWriteBlocked = FALSE], {}>>
                    ELSE IF ~AnyReady(t) THEN <<t, {}>>
                    ELSE Checked(CheckEach(t, t.fileBlocked, {}))
    IN  Check([s EXCEPT !.fileBlocked = Selectable(s)])

Woken(files) == [t \in Threads |-> IF wait[t] \in files THEN None ELSE wait[t]]
ThreadsWakeup(files) == wait' = Woken(files)
Served(r) == io' = r[1] /\ ThreadsWakeup(r[2])
Changes(r) == r[1] # io \/ Woken(r[2]) # wait

---------------------------------------------------------------------------
(* The collector: files that are reached are flushed, the others closed.   *)

FileMark(s, f) == FileFlush(s, f)[2]
\* Kept when its output is blocked.
FileFree(s, f) ==
    LET Freed(r) == IF r[1] = FileBlocked THEN r[2]
                    ELSE [r[2] EXCEPT !.freed = @ \cup {f}, !.file[f].input = <<>>, !.file[f].output = <<>>]
    IN  Freed(IF s.file[f].open THEN FileClose(s, f) ELSE <<0, s>>)
MemCollect(s) ==
    LET reached == {f \in Files : f \in s.refs \/ Listed(s, f)}
        Collected(t, f) == IF f \in s.freed THEN t ELSE IF f \in reached THEN FileMark(t, f) ELSE FileFree(t, f)
    IN  Collected(Collected(s, R), W)

---------------------------------------------------------------------------
(* What happens.                                                           *)

IoInit ==
    /\ io = InitialIo
    /\ op = [t \in Threads |-> NoBuiltin]
    /\ wait = [t \in Threads |-> None]
    /\ puts = 0
    /\ main = "run"

\* Room for one more builtin of each kind.
Bounded(o) ==
    CASE o.do = "putc"   -> puts < Len(Outgoing)
      [] OTHER           -> TRUE
Executed(o) ==
    CASE o.do = "getb"   -> do_File_getb(io, R)
      [] o.do = "getc"   -> do_File_getc(io, R)
      [] o.do = "end"    -> do_File_end(io, R)
      [] o.do = "putc"   -> do_File_putc(io, W, Outgoing[o.c])
      [] o.do = "flush"  -> do_File_flush(io, W)
      [] o.do = "close"  -> do_File_close(io, o.file)
      [] o.do = "setbuf" -> do_File_setbuf(io, o.file, o.flags)

\* With the character that is due.
Given(b) == IF b.do = "putc" THEN [do |-> "putc", file |-> W, flags |-> {}, c |-> puts + 1] ELSE b

\* A thread executes a builtin, for the first time or again.
Execute(t) ==
    /\ main = "run" /\ wait[t] = None
    /\ \E o \in IF op[t] = NoBuiltin THEN {Given(b) : b \in {b \in Builtins[t] : b.file \in io.refs /\ Bounded(b)}} ELSE {op[t]} :
           \E r \in {Executed(o)} :
               /\ io' = r.io
               /\ op' = [op EXCEPT ![t] = IF r.res = "sleep" THEN o ELSE NoBuiltin]
               /\ wait' = [wait EXCEPT ![t] = IF r.res = "sleep" THEN o.file ELSE None]
               /\ puts' = puts + IF op[t] = NoBuiltin /\ o.do = "putc" THEN 1 ELSE 0
    /\ UNCHANGED main

\* The program lets go of its last reference to a file, and storage is reclaimed.
Drop(f) ==
    /\ main = "run" /\ f \in io.refs
    /\ \A t \in Threads : op[t].file # f
    /\ io' = [io EXCEPT !.refs = @ \ {f}]
    /\ UNCHANGED <<op, wait, puts, main>>
Collect ==
    /\ main = "run"
    /\ io' = MemCollect(io)
    /\ UNCHANGED <<op, wait, puts, main>>

\* IoInterrupt, when the interpreter looks at its signals.
Interrupted == FileCheckBlocked([io EXCEPT !.signalIo = FALSE])
IoInterrupt ==
    /\ main = "run" /\ io.signalIo
    /\ Served(Interrupted)
    /\ UNCHANGED <<op, puts, main>>
\* The timer goes on as long as a file is write blocked.
TimedOut ==
    LET Requeued(r) == <<[r[1] EXCEPT !.ioTimeoutQueued = r[1].anyFileWriteBlocked], r[2]>>
    IN  Requeued(FileCheckBlocked(io))
IoTimeout ==
    /\ main = "run" /\ io.ioTimeoutQueued
    /\ Served(TimedOut)
    /\ UNCHANGED <<op, puts, main>>

\* select returns, or there is nothing to select.
Returns(s) == AnyReady(s) \/ Selectable(s) = <<>>
\* No thread can run: ThreadsBlock waits for the files.
Stuck == main = "run" /\ \A t \in Threads : wait[t] # None
Idle ==
    /\ Stuck /\ Returns(io)
    /\ Served(FileCheckBlocked(io))
    /\ UNCHANGED <<op, puts, main>>

\* exit: FileFini collects and waits until no output is blocked.
Exit(t) ==
    /\ main = "run" /\ wait[t] = None /\ op[t] = NoBuiltin
    /\ io' = MemCollect(io)
    /\ main' = "exit"
    /\ UNCHANGED <<op, wait, puts>>
FileFini ==
    /\ main = "exit" /\ io.anyFileWriteBlocked
    /\ Returns(io)
    /\ Served(FileCheckBlocked(io))
    /\ UNCHANGED <<op, puts, main>>
Over ==
    /\ main = "exit" /\ ~io.anyFileWriteBlocked
    /\ main' = "over"
    /\ UNCHANGED <<io, op, wait, puts>>

\* The processes at the other ends; SIGIO is sent when a pipe is no longer empty, or full.
PeerWrites ==
    /\ io.peer[R] /\ Len(io.sent) < Len(Incoming) /\ Len(io.pipe[R]) < PipeSize
    /\ LET c == Incoming[Len(io.sent) + 1]
       IN  io' = [io EXCEPT !.pipe[R] = Append(@, c), !.sent = Append(@, c), !.signalIo = @ \/ io.file[R].open]
    /\ UNCHANGED <<op, wait, puts, main>>
PeerEnds(f) ==
    /\ io.peer[f]
    /\ io' = [io EXCEPT !.peer[f] = FALSE, !.signalIo = @ \/ io.file[f].open]
    /\ UNCHANGED <<op, wait, puts, main>>
PeerReads ==
    /\ io.peer[W] /\ io.pipe[W] # <<>>
    /\ io' = [io EXCEPT !.taken = @ \o io.pipe[W], !.pipe[W] = <<>>, !.signalIo = @ \/ io.file[W].open]
    /\ UNCHANGED <<op, wait, puts, main>>

Next ==
    \/ \E t \in Threads : Execute(t) \/ Exit(t)
    \/ \E f \in Files : Drop(f) \/ PeerEnds(f)
    \/ Collect \/ IoInterrupt \/ IoTimeout \/ Idle \/ FileFini \/ Over \/ PeerReads \/ PeerWrites

\* The interpreter serves its signals and timers between any two instructions and waits for files
\* when it has nothing to run; who reads W reads on.  The first four are WF_vars of the actions, with
\* what enables them spelled out.
Fairness ==
    /\ []<>~(main = "run" /\ io.signalIo) \/ []<><<IoInterrupt>>_vars
    /\ []<>~(main = "run" /\ io.ioTimeoutQueued /\ Changes(TimedOut)) \/ []<><<IoTimeout>>_vars
    /\ []<>~(Stuck /\ Returns(io) /\ Changes(FileCheckBlocked(io))) \/ []<><<Idle>>_vars
    /\ []<>~(main = "exit" /\ io.anyFileWriteBlocked /\ Returns(io) /\ Changes(FileCheckBlocked(io)))
       \/ []<><<FileFini>>_vars
    /\ WF_vars(Over) /\ WF_vars(PeerReads)
    /\ PeerCloses => WF_vars(PeerEnds(R))
Spec == IoInit /\ [][Next]_vars /\ Fairness

---------------------------------------------------------------------------
FlagNames == Blocking \cup {"UnBuf", "Closed", "End", "OutputError"}
FilesTypeOK ==
    /\ \A f \in Files :
           /\ io.file[f].open \in BOOLEAN /\ Flags(io, f) \subseteq FlagNames
           /\ \A i \in DOMAIN io.file[f].output :
                  LET c == io.file[f].output[i] IN Len(c.unread) <= c.used /\ c.used <= FileBufferSize
           /\ \A i \in DOMAIN io.file[f].input :
                  LET c == io.file[f].input[i] IN c.room + Len(c.unread) <= FileBufferSize
    /\ io.freed \subseteq Files \ io.refs
    /\ \A t \in Threads : wait[t] # None => op[t] # NoBuiltin

RECURSIVE Unread(_)
Unread(chunks) == IF chunks = <<>> THEN <<>> ELSE chunks[1].unread \o Unread(Tail(chunks))
RECURSIVE Unsent(_)
Unsent(chunks) == IF chunks = <<>> THEN <<>> ELSE Unsent(Tail(chunks)) \o chunks[1].unread
NoStrays(bytes) == SelectSeq(bytes, LAMBDA c : c # Stray)

\* Bytes are read in the order they were written, none twice and none left out, although reads are
\* cut short, pushed back and executed again (all but what do_File_end makes up at the end).
InputInOrder ==
    R \notin io.freed => NoStrays(io.got \o Unread(io.file[R].input)) \o io.pipe[R] = io.sent

\* Bytes are written in the order they were output, none twice; none is lost, unless the file was
\* collected after a write had failed.
OutputInOrder ==
    LET out == io.taken \o io.pipe[W]
    IN  IF W \in io.freed THEN Has(io, W, "OutputError") \/ ~io.peer[W] \/ out = io.put
        ELSE out \o Unsent(io.file[W].output) = io.put

\* The list has each file whose flags say it is blocked, once, and the closed ones that have not been
\* dropped from it: FileSetBlocked relies on that, it looks at the flags only.
BlockedListed ==
    /\ \A f \in Files : io.file[f].open => (Listed(io, f) <=> Flags(io, f) \cap Blocking # {})
    /\ \A i, j \in DOMAIN io.fileBlocked : io.fileBlocked[i] = io.fileBlocked[j] => i = j

\* A thread sleeps for a file that will be checked for it: nobody wakes those that wait for a file
\* somebody else closes.
SleepersChecked ==
    \A t \in Threads : LET f == wait[t]
                       IN  f # None => \/ ~io.file[f].open
                                       \/ Listed(io, f) /\ Has(io, f, IF f = R THEN "InputBlocked" ELSE "OutputBlocked")

\* As long as the output of a file is blocked the timer that polls it is queued.
WriteBlockedPolled ==
    \A f \in Files : Listed(io, f) /\ io.file[f].open /\ Has(io, f, "OutputBlocked")
                     => io.anyFileWriteBlocked /\ io.ioTimeoutQueued

\* A character at the ends of each length of encoding comes back from its bytes.
Boundaries == {0, 127, 128, 2047, 2048, 65535, 65536, 2097151, 2097152, 67108863, 67108864, 2147483647}
CharactersComeBack ==
    main = "over" => \A c \in Boundaries :
        LET s == FileUnchar(InitialIo, R, c) IN FileInchar(s, R)[1] = c /\ FileInchar(s, R)[3] = Encoded(c)

\* A thread that sleeps for a file that is ready goes on, unless the file is read empty or filled
\* again, or closed, before: it does not sleep on for ever beside a file that is ready.
SleepsBeside(t, f) ==
    /\ main = "run" /\ wait[t] = f /\ io.file[f].open
    /\ IF f = R THEN FileIsReadable(io, f) ELSE FileIsWritable(io, f)
SleepersWake == \A t \in Threads, f \in Files : []<>~SleepsBeside(t, f)

\* exit ends when what was output has been written.
ExitEnds == []<>(main # "exit")
\* and nothing that was output and could be written is left behind.
ExitFlushes ==
    main = "over" => Has(io, W, "OutputError") \/ ~io.peer[W] \/ io.taken \o io.pipe[W] = io.put

\* No byte is lost, doubled or out of order on its way through the buffers, exit included.
BytesInOrder == FilesTypeOK /\ InputInOrder /\ OutputInOrder /\ CharactersComeBack /\ ExitFlushes

\* Whoever sleeps for a file is on a list that is looked at.
SleepersServed == BlockedListed /\ SleepersChecked /\ WriteBlockedPolled
=============================================================================
