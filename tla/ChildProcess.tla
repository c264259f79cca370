---------------------------- MODULE ChildProcess ----------------------------
(***************************************************************************)
(* tpl::Process on POSIX: a child process whose stdout and stderr are      *)
(* pipes, and the thread of the parent that reads both of them.            *)
(*                                                                         *)
(* The parent blocks in waitpid() and joins the reader afterwards, so the  *)
(* child can only end if the reader drains both pipes, and the output is   *)
(* only complete if the reader does not stop before it has seen all of it. *)
(* The reader works in rounds: one poll() of both pipes, then one read()   *)
(* of each pipe that was readable, then a pipe that was reported closed is *)
(* polled no more, whatever it still holds.                                *)
(*                                                                         *)
(* The child is /bin/sh running a command.  The program it runs is left    *)
(* open: it writes a given text to each stream in any interleaving, and    *)
(* may be killed; a killed shell can leave the command behind, with the    *)
(* pipes open, for a while.                                                *)
(***************************************************************************)
EXTENDS Naturals, Sequences

CONSTANTS
    Token,          \* pieces of output
    PipeCapacity,   \* what a pipe holds before a writer blocks
    BufferSize      \* Config::buffer_size, what one read() takes at most

\* A pipe of Linux holds 64 kB, the buffer 128 kB.  See Serve for what it is good for.
ASSUME BufferAssumption ==
    /\ PipeCapacity \in Nat \ {0}
    /\ BufferSize \in Nat
    /\ BufferSize >= PipeCapacity

VARIABLES
    child,      \* "none", "running", "exited" (a zombie) or "reaped"
    success,    \* the exit status is 0
    todo,       \* what the command has still to write, per stream
    emitted,    \* auxiliary: what it has written, per stream
    writers,    \* some process has the write ends of the pipes open
    pipe,       \* what has been written and not been read, per stream
    reader,     \* where stdout_stderr_thread is
    polled,     \* pollfds[i].fd >= 0, per stream
    revents     \* pollfds[i].revents, per stream

childVars == <<child, success, todo, emitted, writers>>
readerVars == <<reader, polled, revents>>
processVars == <<childVars, pipe, readerVars>>

Stream == {"out", "err"}
Nothing == [s \in Stream |-> <<>>]

\* What a command will do if nobody kills it.
Program == [out : Seq(Token), err : Seq(Token), success : BOOLEAN]

----------------------------------------------------------------------------
(* Starting the process. *)

\* The constructor: open() succeeds and async_read() starts the reader.
StartProcess(p) ==
    /\ child' = "running"
    /\ success' = p.success
    /\ todo' = [s \in Stream |-> p[s]]
    /\ emitted' = Nothing
    /\ writers' = TRUE
    /\ pipe' = Nothing
    /\ reader' = "poll"
    /\ polled' = [s \in Stream |-> TRUE]
    /\ revents' = [s \in Stream |-> {}]

\* pipe() or fork() fails: data.id stays below 1, and no thread is started.
StartProcessFails ==
    /\ child' = "none"
    /\ success' = FALSE
    /\ todo' = Nothing
    /\ emitted' = Nothing
    /\ writers' = FALSE
    /\ pipe' = Nothing
    /\ reader' = "none"
    /\ polled' = [s \in Stream |-> FALSE]
    /\ revents' = [s \in Stream |-> {}]

----------------------------------------------------------------------------
(* The child. *)

\* write(): blocks while the pipe is full.
Write(s) ==
    /\ writers
    /\ todo[s] # <<>>
    /\ Len(pipe[s]) < PipeCapacity
    /\ pipe' = [pipe EXCEPT ![s] = Append(@, Head(todo[s]))]
    /\ emitted' = [emitted EXCEPT ![s] = Append(@, Head(todo[s]))]
    /\ todo' = [todo EXCEPT ![s] = Tail(@)]
    /\ UNCHANGED <<child, success, writers, readerVars>>

\* The command ends, having written everything or left behind by the shell.
CloseWriters ==
    /\ writers
    /\ todo = Nothing \/ child = "exited" \/ child = "reaped"
    /\ writers' = FALSE
    /\ UNCHANGED <<child, success, todo, emitted, pipe, readerVars>>

Exit ==
    /\ child = "running"
    /\ ~writers
    /\ child' = "exited"
    /\ UNCHANGED <<success, todo, emitted, writers, pipe, readerVars>>

\* A signal kills the shell.
Die ==
    /\ child = "running"
    /\ child' = "exited"
    /\ success' = FALSE
    /\ UNCHANGED <<todo, emitted, writers, pipe, readerVars>>

ChildStep == (\E s \in Stream : Write(s)) \/ CloseWriters \/ Exit

----------------------------------------------------------------------------
(* The reader. *)

Ready(s) ==
    (IF pipe[s] # <<>> THEN {"in"} ELSE {}) \cup (IF writers THEN {} ELSE {"hup"})

\* poll() without a timeout.
Poll ==
    /\ reader = "poll"
    /\ \E s \in Stream : polled[s] /\ Ready(s) # {}
    /\ revents' = [s \in Stream |-> IF polled[s] THEN Ready(s) ELSE {}]
    /\ reader' = "out"
    /\ UNCHANGED <<childVars, pipe, polled>>

ShorterOf(m, n) == IF m < n THEN m ELSE n

\* A seeded fault: a pipe that was reported closed is not read any more.
ChunkOfOpen(s) ==
    IF "in" \in revents[s] /\ "hup" \notin revents[s]
    THEN SubSeq(pipe[s], 1, ShorterOf(Len(pipe[s]), BufferSize))
    ELSE <<>>

\* What read() returns if stream s is served now.
Chunk(s) ==
    IF "in" \in revents[s] THEN SubSeq(pipe[s], 1, ShorterOf(Len(pipe[s]), BufferSize))
    ELSE <<>>

\* The stream served after s, or the next round, or the end of the thread.
AfterServing(s) ==
    IF s = "out" THEN "err"
    ELSE IF \E r \in Stream : polled'[r] THEN "poll" ELSE "ended"

\* A seeded fault: any_open keeps the answer for the last pipe.
ServeLastOpen(s) ==
    /\ reader = s
    /\ pipe' = [pipe EXCEPT ![s] = SubSeq(@, Len(Chunk(s)) + 1, Len(@))]
    /\ polled' = [polled EXCEPT ![s] = @ /\ "hup" \notin revents[s]]
    /\ reader' = IF s = "out" THEN "err" ELSE IF revents[s] # {} THEN "poll" ELSE "ended"
    /\ UNCHANGED <<childVars, revents>>

\* One iteration of the loop over the pollfds: read() at most once, call the handler
\* of the stream with what was read (the composing module adds that), and give the
\* pipe up if poll() reported it closed.  That loses nothing only because one read()
\* takes all that a pipe without writers can hold.
Serve(s) ==
    /\ reader = s
    /\ pipe' = [pipe EXCEPT ![s] = SubSeq(@, Len(Chunk(s)) + 1, Len(@))]
    /\ polled' = [polled EXCEPT ![s] = @ /\ "hup" \notin revents[s]]
    /\ reader' = AfterServing(s)
    /\ UNCHANGED <<childVars, revents>>

----------------------------------------------------------------------------
(* get_exit_status(). *)

\* waitpid() returns the exit status.
WaitForChild ==
    /\ child = "exited"
    /\ child' = "reaped"
    /\ UNCHANGED <<success, todo, emitted, writers, pipe, readerVars>>

\* A seeded fault: the descriptors are closed under a reader that is still running.
CloseFdsWithoutJoin ==
    UNCHANGED processVars

\* close_fds(): join the reader, then close the read ends.
CloseFds ==
    /\ reader \in {"none", "ended"}
    /\ UNCHANGED processVars

----------------------------------------------------------------------------
ProcessInit ==
    /\ child = "none"
    /\ success = FALSE
    /\ todo = Nothing
    /\ emitted = Nothing
    /\ writers = FALSE
    /\ pipe = Nothing
    /\ reader = "none"
    /\ polled = [s \in Stream |-> FALSE]
    /\ revents = [s \in Stream |-> {}]

ProcessTypeOK ==
    /\ child \in {"none", "running", "exited", "reaped"}
    /\ success \in BOOLEAN
    /\ todo \in [Stream -> Seq(Token)]
    /\ emitted \in [Stream -> Seq(Token)]
    /\ writers \in BOOLEAN
    /\ pipe \in [Stream -> Seq(Token)]
    /\ \A s \in Stream : Len(pipe[s]) <= PipeCapacity
    /\ reader \in {"none", "poll", "out", "err", "ended"}
    /\ polled \in [Stream -> BOOLEAN]
    /\ revents \in [Stream -> SUBSET {"in", "hup"}]
    \* the thread ends when both pipes have been given up, and not before
    /\ reader \in {"none", "ended"} => \A s \in Stream : ~polled[s]
=============================================================================
