------------------------- MODULE PreprocessRunProofs -------------------------
(***************************************************************************)
(* Proofs about PreprocessRun, for any outputs of the commands and any     *)
(* capacity of the pipes that one read() can empty.                        *)
(***************************************************************************)
EXTENDS PreprocessRun, SequenceTheorems, TLAPS

----------------------------------------------------------------------------
(* Facts about what is in a pipe. *)

\* Reading n tokens cuts the content of the pipe in two.
LEMMA CutFacts ==
    ASSUME NEW q \in Seq(Token), NEW n \in 0 .. Len(q)
    PROVE  /\ SubSeq(q, 1, n) \in Seq(Token)
           /\ SubSeq(q, n + 1, Len(q)) \in Seq(Token)
           /\ Len(SubSeq(q, 1, n)) = n
           /\ Len(SubSeq(q, n + 1, Len(q))) = Len(q) - n
           /\ SubSeq(q, 1, n) \o SubSeq(q, n + 1, Len(q)) = q
<1>1. /\ Len(q) \in Nat
      /\ \A i \in 1 .. Len(q) : q[i] \in Token
  OBVIOUS
<1>2. /\ SubSeq(q, 1, n) \in Seq(Token)
      /\ Len(SubSeq(q, 1, n)) = IF 1 <= n THEN n - 1 + 1 ELSE 0
  <2>1. 1 \in Int /\ n \in Int /\ \A i \in 1 .. n : q[i] \in Token
    BY <1>1
  <2> QED
    BY <2>1, SubSeqProperties
<1>3. /\ SubSeq(q, n + 1, Len(q)) \in Seq(Token)
      /\ Len(SubSeq(q, n + 1, Len(q))) =
             IF n + 1 <= Len(q) THEN Len(q) - (n + 1) + 1 ELSE 0
  <2>1. n + 1 \in Int /\ Len(q) \in Int /\ \A i \in n + 1 .. Len(q) : q[i] \in Token
    BY <1>1
  <2> QED
    BY <2>1, SubSeqProperties
<1>4. SubSeq(q, 1, n) \o SubSeq(q, n + 1, Len(q)) = SubSeq(q, 1, Len(q))
  <2>1. 1 \in 1 .. Len(q) + 1 /\ n \in 1 - 1 .. Len(q) /\ Len(q) \in n .. Len(q)
    BY <1>1
  <2> QED
    BY <2>1, ConcatAdjacentSubSeq
<1>5. SubSeq(q, 1, Len(q)) = q
  BY SubSeqFull
<1>6. Len(SubSeq(q, 1, n)) = n
  <2>1. Len(SubSeq(q, 1, n)) = IF 1 <= n THEN n - 1 + 1 ELSE 0
    BY <1>2
  <2>2. n \in Nat
    BY <1>1
  <2> QED
    BY <2>1, <2>2
<1>7. Len(SubSeq(q, n + 1, Len(q))) = Len(q) - n
  <2>1. Len(SubSeq(q, n + 1, Len(q))) = IF n + 1 <= Len(q) THEN Len(q) - (n + 1) + 1 ELSE 0
    BY <1>3
  <2>2. n \in Nat /\ Len(q) \in Nat /\ n <= Len(q)
    BY <1>1
  <2> QED
    BY <2>1, <2>2
<1>8. SubSeq(q, 1, n) \o SubSeq(q, n + 1, Len(q)) = q
  BY <1>4, <1>5
<1> QED
  BY <1>2, <1>3, <1>6, <1>7, <1>8

\* The empty sequence is the one of length 0.
LEMMA EmptyFacts ==
    ASSUME NEW q \in Seq(Token)
    PROVE  /\ Len(q) \in Nat
           /\ q = <<>> <=> Len(q) = 0
  OBVIOUS

\* Appending an element and concatenating sequences commute.
LEMMA SnocFacts ==
    ASSUME NEW r \in Seq(Token), NEW q \in Seq(Token), NEW x \in Token
    PROVE  r \o Append(q, x) = Append(r \o q, x)
<1>1. <<x>> \in Seq(Token) /\ r \o q \in Seq(Token)
  BY ConcatProperties
<1>2. Append(q, x) = q \o <<x>> /\ Append(r \o q, x) = (r \o q) \o <<x>>
  BY <1>1, AppendIsConcat
<1>3. (r \o q) \o <<x>> = r \o (q \o <<x>>)
  BY <1>1, ConcatAssociative
<1> QED
  BY <1>2, <1>3

\* Concatenation of token sequences.
LEMMA ConcatFacts ==
    ASSUME NEW r \in Seq(Token), NEW c \in Seq(Token), NEW q \in Seq(Token)
    PROVE  r \o c \in Seq(Token) /\ (r \o c) \o q = r \o (c \o q)
<1>1. r \o c \in Seq(Token)
  BY ConcatProperties
<1>2. (r \o c) \o q = r \o (c \o q)
  BY ConcatAssociative
<1> QED
  BY <1>1, <1>2

\* The macro file holds the output of the command and the #undef.
FileToken == Token \cup {UndefGuard}

\* Concatenation of the parts of a macro file.
LEMMA FileConcatFacts ==
    ASSUME NEW r \in Seq(FileToken), NEW c \in Seq(FileToken), NEW q \in Seq(FileToken)
    PROVE  r \o c \in Seq(FileToken) /\ (r \o c) \o q = r \o (c \o q)
<1>1. r \o c \in Seq(FileToken)
  BY ConcatProperties
<1>2. (r \o c) \o q = r \o (c \o q)
  BY ConcatAssociative
<1> QED
  BY <1>1, <1>2

----------------------------------------------------------------------------
(* The process and its reader. *)

\* What poll() reported of a pipe that is still to be served in this round: if it was
\* closed, nothing can be added to it, and what it holds will be read.
HangupSeen(s) ==
    "hup" \in revents[s] =>
        /\ ~writers
        /\ pipe[s] # <<>> => "in" \in revents[s]

ReportsValid ==
    /\ reader = "out" => HangupSeen("out") /\ HangupSeen("err")
    /\ reader = "err" => HangupSeen("err")

\* A pipe that is polled no more is closed and empty.
GivenUpEmpty ==
    \A s \in Stream : ~polled[s] => ~writers /\ pipe[s] = <<>>

ProcessInv ==
    /\ ProcessTypeOK
    /\ ReportsValid
    /\ GivenUpEmpty
    /\ child = "none" => reader = "none"

\* A command starts with empty pipes and nothing emitted.
LEMMA StartsClean ==
    ASSUME NEW p \in Program, StartProcess(p)
    PROVE  /\ ProcessInv'
           /\ \A o \in Stream : pipe'[o] = <<>> /\ emitted'[o] = <<>>
<1>1. PipeCapacity \in Nat
  BY BufferAssumption
<1>2. p.out \in Seq(Token) /\ p.err \in Seq(Token) /\ p.success \in BOOLEAN
  BY DEF Program
<1>3. Nothing \in [Stream -> Seq(Token)] /\ \A s \in Stream : Nothing[s] = <<>> /\ Len(Nothing[s]) = 0
  BY DEF Nothing
<1>4. todo' \in [Stream -> Seq(Token)]
  BY <1>2 DEF StartProcess, Stream
<1>5. ProcessTypeOK'
  BY <1>1, <1>2, <1>3, <1>4 DEF StartProcess, ProcessTypeOK
<1>6. (ReportsValid /\ GivenUpEmpty)'
  BY DEF StartProcess, ReportsValid, GivenUpEmpty
<1> QED
  BY <1>3, <1>5, <1>6 DEF StartProcess, ProcessInv, Stream

\* A command that does not start leaves no pipe behind.
LEMMA FailsClean ==
    ASSUME StartProcessFails
    PROVE  /\ ProcessInv'
           /\ \A o \in Stream : pipe'[o] = <<>> /\ emitted'[o] = <<>>
           /\ reader' = "none"
<1>1. PipeCapacity \in Nat
  BY BufferAssumption
<1>3. Nothing \in [Stream -> Seq(Token)] /\ \A s \in Stream : Nothing[s] = <<>> /\ Len(Nothing[s]) = 0
  BY DEF Nothing
<1>5. ProcessTypeOK'
  <2>1. /\ todo' \in [Stream -> Seq(Token)] /\ emitted' \in [Stream -> Seq(Token)]
        /\ pipe' \in [Stream -> Seq(Token)]
        /\ \A s \in Stream : Len(pipe'[s]) <= PipeCapacity
    BY <1>1, <1>3 DEF StartProcessFails
  <2>2. /\ polled' \in [Stream -> BOOLEAN] /\ \A s \in Stream : ~polled'[s]
        /\ revents' \in [Stream -> SUBSET {"in", "hup"}]
    BY DEF StartProcessFails
  <2>3. success' \in BOOLEAN /\ writers' \in BOOLEAN /\ child' = "none" /\ reader' = "none"
    BY DEF StartProcessFails
  <2> QED
    BY <2>1, <2>2, <2>3 DEF ProcessTypeOK
<1>6. (ReportsValid /\ GivenUpEmpty)'
  BY <1>3 DEF StartProcessFails, ReportsValid, GivenUpEmpty
<1> QED
  BY <1>3, <1>5, <1>6 DEF StartProcessFails, ProcessInv, Stream

\* The child writes only into pipes the reader polls, and what it writes is either in
\* the pipe or has been read.
LEMMA WriteStep ==
    ASSUME ProcessInv, NEW s \in Stream, Write(s)
    PROVE  /\ ProcessInv'
           /\ reader' = reader
           /\ \A o \in Stream : \A r \in Seq(Token) :
                 r \o pipe[o] = emitted[o] => r \o pipe'[o] = emitted'[o]
<1> DEFINE x == Head(todo[s])
<1>1. /\ PipeCapacity \in Nat
      /\ todo \in [Stream -> Seq(Token)] /\ emitted \in [Stream -> Seq(Token)]
      /\ pipe \in [Stream -> Seq(Token)]
      /\ polled \in [Stream -> BOOLEAN]
      /\ \A r \in Stream : Len(pipe[r]) <= PipeCapacity
  BY BufferAssumption DEF ProcessInv, ProcessTypeOK
<1>2. x \in Token /\ Tail(todo[s]) \in Seq(Token)
  BY <1>1, HeadTailProperties DEF Write
<1>3. /\ pipe' = [pipe EXCEPT ![s] = Append(@, x)]
      /\ emitted' = [emitted EXCEPT ![s] = Append(@, x)]
      /\ todo' = [todo EXCEPT ![s] = Tail(@)]
      /\ Len(pipe[s]) < PipeCapacity
      /\ writers
      /\ UNCHANGED <<child, success, writers, reader, polled, revents>>
  BY DEF Write, readerVars
<1> HIDE DEF x
<1>4. /\ Append(pipe[s], x) \in Seq(Token) /\ Append(emitted[s], x) \in Seq(Token)
      /\ Len(Append(pipe[s], x)) = Len(pipe[s]) + 1
  BY <1>1, <1>2, AppendProperties
<1>5. ProcessTypeOK'
  <2>1. /\ pipe' \in [Stream -> Seq(Token)]
        /\ emitted' \in [Stream -> Seq(Token)]
        /\ todo' \in [Stream -> Seq(Token)]
    BY <1>1, <1>2, <1>3, <1>4
  <2>2. \A r \in Stream : Len(pipe'[r]) <= PipeCapacity
    <3>1. Len(pipe[s]) + 1 <= PipeCapacity
      BY <1>1, <1>3, EmptyFacts
    <3> QED
      BY <1>1, <1>3, <1>4, <3>1
  <2> QED
    BY <1>3, <2>1, <2>2 DEF ProcessInv, ProcessTypeOK
<1>6. \A r \in Stream : polled[r]
  BY <1>3 DEF ProcessInv, GivenUpEmpty
<1>7. (ReportsValid /\ GivenUpEmpty)'
  BY <1>3, <1>6 DEF ProcessInv, ReportsValid, HangupSeen, GivenUpEmpty
<1>8. reader # "none"
  BY <1>6 DEF ProcessInv, ProcessTypeOK, Stream
<1>9. ASSUME NEW o \in Stream, NEW r \in Seq(Token), r \o pipe[o] = emitted[o]
      PROVE  r \o pipe'[o] = emitted'[o]
  <2>1. CASE s = o
    <3>1. pipe'[o] = Append(pipe[o], x) /\ emitted'[o] = Append(emitted[o], x)
      BY <1>1, <1>3, <2>1
    <3>2. pipe[o] \in Seq(Token)
      BY <1>1, <2>1
    <3>3. r \o Append(pipe[o], x) = Append(r \o pipe[o], x)
      BY <1>2, <3>2, SnocFacts
    <3> QED
      BY <1>9, <3>1, <3>3
  <2>2. CASE s # o
    BY <1>1, <1>3, <1>9, <2>2
  <2> QED
    BY <2>1, <2>2
<1> QED
  BY <1>3, <1>5, <1>7, <1>8, <1>9 DEF ProcessInv

\* The other steps of the child, and waitpid, leave pipes and reader alone.
LEMMA ChildEndStep ==
    ASSUME ProcessInv, CloseWriters \/ Exit \/ Die \/ WaitForChild
    PROVE  /\ ProcessInv'
           /\ UNCHANGED <<reader, pipe, emitted>>
<1>1. UNCHANGED <<todo, emitted, pipe, reader, polled, revents>>
  BY DEF CloseWriters, Exit, Die, WaitForChild, readerVars
<1>2. /\ writers' \in BOOLEAN /\ (writers' => writers)
      /\ success' \in BOOLEAN
      /\ child' \in {"none", "running", "exited", "reaped"}
      /\ child' = "none" => child = "none"
  <2>1. /\ writers \in BOOLEAN /\ success \in BOOLEAN
        /\ child \in {"none", "running", "exited", "reaped"}
    BY DEF ProcessInv, ProcessTypeOK
  <2>2. CASE CloseWriters
    BY <2>1, <2>2 DEF CloseWriters
  <2>3. CASE Exit
    BY <2>1, <2>3 DEF Exit
  <2>4. CASE Die
    BY <2>1, <2>4 DEF Die
  <2>5. CASE WaitForChild
    BY <2>1, <2>5 DEF WaitForChild
  <2> QED
    BY <2>2, <2>3, <2>4, <2>5
<1>3. ProcessTypeOK'
  BY <1>1, <1>2 DEF ProcessInv, ProcessTypeOK
<1>4. (ReportsValid /\ GivenUpEmpty)'
  BY <1>1, <1>2 DEF ProcessInv, ReportsValid, HangupSeen, GivenUpEmpty
<1> QED
  BY <1>1, <1>2, <1>3, <1>4 DEF ProcessInv

\* poll() reports what the pipes are like.
LEMMA PollStep ==
    ASSUME ProcessInv, Poll
    PROVE  /\ ProcessInv'
           /\ reader' = "out" /\ reader = "poll"
           /\ UNCHANGED <<pipe, emitted>>
<1>1. /\ reader = "poll" /\ reader' = "out"
      /\ revents' = [s \in Stream |-> IF polled[s] THEN Ready(s) ELSE {}]
      /\ UNCHANGED <<child, success, todo, emitted, writers, pipe, polled>>
  BY DEF Poll, childVars
<1>2. \A s \in Stream : Ready(s) \in SUBSET {"in", "hup"}
  BY DEF Ready
<1>3. ProcessTypeOK'
  BY <1>1, <1>2 DEF ProcessInv, ProcessTypeOK
<1>4. \A s \in Stream : HangupSeen(s)'
  BY <1>1 DEF HangupSeen, Ready
<1>5. (ReportsValid /\ GivenUpEmpty)'
  BY <1>1, <1>4 DEF ProcessInv, ReportsValid, GivenUpEmpty, Stream
<1> QED
  BY <1>1, <1>3, <1>5 DEF ProcessInv, ProcessTypeOK

\* Serving a pipe moves the head of its content to the handler, and a pipe is given up
\* only if that was all of it.
LEMMA ServeStep ==
    ASSUME ProcessInv, NEW s \in Stream, Serve(s)
    PROVE  /\ ProcessInv'
           /\ reader = s /\ reader' # "none"
           /\ UNCHANGED emitted
           /\ Chunk(s) \in Seq(Token)
           /\ Chunk(s) \o pipe'[s] = pipe[s]
           /\ \A r \in Stream \ {s} : pipe'[r] = pipe[r]
<1> DEFINE q == pipe[s]
           n == IF "in" \in revents[s] THEN ShorterOf(Len(q), BufferSize) ELSE 0
<1>1. /\ PipeCapacity \in Nat /\ BufferSize \in Nat /\ BufferSize >= PipeCapacity
      /\ pipe \in [Stream -> Seq(Token)] /\ q \in Seq(Token) /\ Len(q) \in Nat
      /\ Len(q) <= PipeCapacity
      /\ polled \in [Stream -> BOOLEAN]
      /\ \A r \in Stream : Len(pipe[r]) <= PipeCapacity
  BY BufferAssumption, EmptyFacts DEF ProcessInv, ProcessTypeOK
<1>2. /\ n \in 0 .. Len(q)
      /\ "in" \in revents[s] => n = Len(q)
  BY <1>1 DEF ShorterOf
<1>3. Chunk(s) = SubSeq(q, 1, n)
  <2>1. CASE "in" \in revents[s]
    BY <2>1 DEF Chunk
  <2>2. CASE "in" \notin revents[s]
    <3>1. SubSeq(q, 1, 0) = <<>>
      <4>1. Len(SubSeq(q, 1, 0)) = 0 /\ SubSeq(q, 1, 0) \in Seq(Token)
        BY <1>1, CutFacts
      <4> QED
        BY <4>1, EmptyFacts
    <3> QED
      BY <2>2, <3>1 DEF Chunk
  <2> QED
    BY <2>1, <2>2
<1> HIDE DEF n
<1>4. /\ Chunk(s) \in Seq(Token) /\ Len(Chunk(s)) = n
      /\ SubSeq(q, n + 1, Len(q)) \in Seq(Token)
      /\ Len(SubSeq(q, n + 1, Len(q))) = Len(q) - n
      /\ Chunk(s) \o SubSeq(q, n + 1, Len(q)) = q
  <2>1. n \in 0 .. Len(q) /\ q \in Seq(Token)
    BY <1>1, <1>2
  <2> HIDE DEF q
  <2> QED
    BY <1>3, <2>1, CutFacts
<1>5. /\ reader = s
      /\ pipe' = [pipe EXCEPT ![s] = SubSeq(q, n + 1, Len(q))]
      /\ polled' = [polled EXCEPT ![s] = @ /\ "hup" \notin revents[s]]
      /\ reader' = AfterServing(s)
      /\ UNCHANGED <<child, success, todo, emitted, writers, revents>>
  BY <1>1, <1>4 DEF Serve, childVars
<1>6. pipe'[s] = SubSeq(q, n + 1, Len(q)) /\ \A r \in Stream \ {s} : pipe'[r] = pipe[r]
  BY <1>1, <1>5
<1>7. /\ reader' \in {"poll", "out", "err", "ended"}
      /\ reader' = "err" <=> s = "out"
      /\ reader' # "out"
      /\ reader' = "ended" => \A r \in Stream : ~polled'[r]
  BY <1>5 DEF AfterServing, Stream
<1>8. ProcessTypeOK'
  <2>1. pipe' \in [Stream -> Seq(Token)]
    BY <1>1, <1>4, <1>5
  <2>2. \A r \in Stream : Len(pipe'[r]) <= PipeCapacity
    <3>1. Len(pipe'[s]) <= PipeCapacity
      BY <1>1, <1>2, <1>4, <1>6
    <3> QED
      BY <1>1, <1>6, <3>1
  <2>3. polled' \in [Stream -> BOOLEAN]
    BY <1>1, <1>5
  <2> QED
    BY <1>5, <1>7, <2>1, <2>2, <2>3 DEF ProcessInv, ProcessTypeOK
<1>9. HangupSeen(s)
  BY <1>5 DEF ProcessInv, ReportsValid, Stream
<1>10. (~polled'[s]) => ~writers' /\ pipe'[s] = <<>>
  <2>1. CASE ~polled[s]
    <3>1. ~writers /\ Len(q) = 0
      BY <1>1, <2>1, EmptyFacts DEF ProcessInv, GivenUpEmpty
    <3>2. Len(pipe'[s]) = 0
      BY <1>2, <1>4, <1>6, <3>1
    <3> QED
      BY <1>4, <1>5, <1>6, <3>1, <3>2, EmptyFacts
  <2>2. CASE "hup" \in revents[s]
    <3>1. ~writers /\ (q # <<>> => "in" \in revents[s])
      BY <1>9, <2>2 DEF HangupSeen
    <3>2. n = Len(q)
      BY <1>1, <1>2, <3>1, EmptyFacts
    <3>3. Len(pipe'[s]) = 0
      BY <1>1, <1>4, <1>6, <3>2
    <3> QED
      BY <1>4, <1>5, <1>6, <3>1, <3>3, EmptyFacts
  <2>3. CASE polled[s] /\ "hup" \notin revents[s]
    BY <1>1, <1>5, <2>3
  <2> QED
    BY <1>1, <2>1, <2>2, <2>3
<1>11. GivenUpEmpty'
  BY <1>1, <1>5, <1>6, <1>10 DEF ProcessInv, GivenUpEmpty
<1>12. ReportsValid'
  BY <1>5, <1>6, <1>7 DEF ProcessInv, ReportsValid, HangupSeen, Stream
<1> QED
  <2>1. reader # "none"
    BY <1>5 DEF Stream
  <2>2. ProcessInv'
    BY <1>5, <1>8, <1>11, <1>12, <2>1 DEF ProcessInv
  <2>3. reader' # "none"
    BY <1>7
  <2> QED
    BY <1>4, <1>5, <1>6, <2>2, <2>3

\* When no reader is running, both pipes have been drained.
LEMMA Drained ==
    ASSUME ProcessInv, reader \in {"none", "ended"}
    PROVE  pipe["out"] = <<>> /\ pipe["err"] = <<>>
  BY DEF ProcessInv, ProcessTypeOK, GivenUpEmpty, Stream

----------------------------------------------------------------------------
(* The call. *)

\* The reader does not outlive the wait for the process.
Joined ==
    main \in {"start", "macro check", "launch", "check", "cleanup", "cleanup and throw",
              "returned", "threw"} => reader \in {"none", "ended"}

\* content is output, with or without the #undef between two parts of it.
Interleaved(content, output) ==
    \/ content = output
    \/ \E a, b \in Seq(Token) :
          output = a \o b /\ content = (a \o <<UndefGuard>>) \o b

\* What the macro command has written is in the file or still in the pipe.
MacroStream ==
    (InMacro \/ (main = "launch" /\ fast)) =>
        \E r \in Seq(Token) :
            /\ r \o pipe["out"] = emitted["out"]
            /\ Interleaved(macro_file, r)
            /\ main = "macro guard" => macro_file = r

\* What the preprocess command has written is in the result or still in the pipe.
TextStream ==
    IF main \in {"wait", "join", "check", "cleanup", "cleanup and throw", "returned"}
    THEN text \in Seq(Token) /\ text \o pipe["out"] = emitted["out"]
    ELSE main \in {"threw", "terminated"} \/ text = <<>>

RunInv ==
    /\ ProcessInv
    /\ main \in Main
    /\ Joined
    /\ MacroStream
    /\ TextStream

\* A chunk at the end of a text keeps the #undef at one place in it.
LEMMA InterleavedChunk ==
    ASSUME NEW content, NEW r \in Seq(Token), NEW c \in Seq(Token), Interleaved(content, r)
    PROVE  Interleaved(content \o c, r \o c)
<1>1. CASE content = r
  BY <1>1 DEF Interleaved
<1>2. CASE \E a, b \in Seq(Token) : r = a \o b /\ content = (a \o <<UndefGuard>>) \o b
  <2>1. PICK a \in Seq(Token), b \in Seq(Token) :
             r = a \o b /\ content = (a \o <<UndefGuard>>) \o b
    BY <1>2
  <2>2. /\ a \in Seq(FileToken) /\ b \in Seq(FileToken) /\ c \in Seq(FileToken)
        /\ <<UndefGuard>> \in Seq(FileToken)
    <3>1. Seq(Token) \subseteq Seq(FileToken)
      BY SeqMonotonic DEF FileToken
    <3>2. <<UndefGuard>> \in Seq(FileToken)
      BY DEF FileToken
    <3> QED
      BY <3>1, <3>2
  <2>3. a \o <<UndefGuard>> \in Seq(FileToken)
    BY <2>2, FileConcatFacts
  <2>6. b \o c \in Seq(Token) /\ r \o c = a \o (b \o c)
    BY <2>1, ConcatFacts
  <2>5. ((a \o <<UndefGuard>>) \o b) \o c = (a \o <<UndefGuard>>) \o (b \o c)
    <3> DEFINE d == a \o <<UndefGuard>>
    <3>1. d \in Seq(FileToken)
      BY <2>3
    <3> HIDE DEF d
    <3>2. (d \o b) \o c = d \o (b \o c)
      BY <2>2, <3>1, FileConcatFacts
    <3> QED
      BY <3>2 DEF d
  <2>7. b \o c \in Seq(Token) /\ content \o c = (a \o <<UndefGuard>>) \o (b \o c)
    BY <2>1, <2>5, <2>6
  <2> QED
    BY <2>6, <2>7 DEF Interleaved
<1> QED
  BY <1>1, <1>2 DEF Interleaved

\* With the output read completely, that is the form HoldsOutput describes.
LEMMA InterleavedHolds ==
    ASSUME NEW content, NEW output \in Seq(Token), Interleaved(content, output)
    PROVE  HoldsOutput(content, output)
<1>1. CASE content = output
  BY <1>1 DEF HoldsOutput
<1>2. CASE \E a, b \in Seq(Token) : output = a \o b /\ content = (a \o <<UndefGuard>>) \o b
  <2>1. PICK a \in Seq(Token), b \in Seq(Token) :
             output = a \o b /\ content = (a \o <<UndefGuard>>) \o b
    BY <1>2
  <2> DEFINE k == Len(a)
  <2>2. k \in Nat /\ Len(b) \in Nat /\ Len(output) = k + Len(b) /\ k \in 0 .. Len(output)
    BY <2>1, ConcatProperties, EmptyFacts
  <2>3. \A i \in 1 .. k + Len(b) : output[i] = IF i <= k THEN a[i] ELSE b[i - k]
    BY <2>1, ConcatProperties
  <2>4. /\ SubSeq(output, 1, k) \in Seq(Token) /\ Len(SubSeq(output, 1, k)) = k
        /\ SubSeq(output, k + 1, Len(output)) \in Seq(Token)
        /\ Len(SubSeq(output, k + 1, Len(output))) = Len(output) - k
        /\ SubSeq(output, 1, k) \o SubSeq(output, k + 1, Len(output)) = output
    BY <2>2, CutFacts
  <2> DEFINE x == SubSeq(output, 1, k)
             y == SubSeq(output, k + 1, Len(output))
  <2>5. /\ x \in Seq(Token) /\ y \in Seq(Token) /\ Len(x) = k
        /\ Len(y) = Len(output) - k
        /\ x \o y = output
    BY <2>4
  <2> HIDE DEF x, y, k
  <2>9. Len(y) = Len(b)
    <3>1. Len(y) = Len(output) - k
      BY <2>5
    <3> QED
      BY <2>2, <3>1
  <2>6. \A i \in 1 .. k + Len(b) : output[i] = IF i <= k THEN x[i] ELSE y[i - k]
    BY <2>5, <2>9, ConcatProperties
  <2>7. x = a
    <3>1. \A i \in 1 .. k : x[i] = a[i]
      BY <2>2, <2>3, <2>6
    <3> QED
      BY <2>5, <3>1, SeqEqual DEF k
  <2>8. y = b
    <3>1. \A i \in 1 .. Len(b) : y[i] = b[i]
      <4>1. TAKE i \in 1 .. Len(b)
      <4>2. /\ i + k \in 1 .. k + Len(b) /\ ~(i + k <= k) /\ (i + k) - k = i
        BY <2>2
      <4> QED
        BY <2>3, <2>6, <4>2
    <3> QED
      BY <2>5, <2>9, <3>1, SeqEqual
  <2> QED
    BY <2>1, <2>2, <2>7, <2>8 DEF HoldsOutput, x, y
<1> QED
  BY <1>1, <1>2 DEF Interleaved

\* The initial state satisfies RunInv.
LEMMA InitRun ==
    ASSUME Init
    PROVE  RunInv
<1>1. PipeCapacity \in Nat
  BY BufferAssumption
<1>2. Nothing \in [Stream -> Seq(Token)] /\ \A s \in Stream : Nothing[s] = <<>> /\ Len(Nothing[s]) = 0
  BY DEF Nothing
<1>3. ProcessTypeOK
  <2>1. /\ todo \in [Stream -> Seq(Token)] /\ emitted \in [Stream -> Seq(Token)]
        /\ pipe \in [Stream -> Seq(Token)]
        /\ \A s \in Stream : Len(pipe[s]) <= PipeCapacity
    BY <1>1, <1>2 DEF Init, ProcessInit
  <2>2. /\ polled \in [Stream -> BOOLEAN] /\ \A s \in Stream : ~polled[s]
        /\ revents \in [Stream -> SUBSET {"in", "hup"}]
    BY DEF Init, ProcessInit
  <2>3. success \in BOOLEAN /\ writers \in BOOLEAN /\ child = "none" /\ reader = "none"
    BY DEF Init, ProcessInit
  <2> QED
    BY <2>1, <2>2, <2>3 DEF ProcessTypeOK
<1>4. ProcessInv
  BY <1>2, <1>3 DEF Init, ProcessInit, ProcessInv, ReportsValid, GivenUpEmpty
<1> QED
  BY <1>4 DEF Init, ProcessInit, RunInv, Joined, MacroStream, InMacro, TextStream, Main

\* Steps of the command.
LEMMA CommandSteps ==
    ASSUME RunInv, OutsideStep(ChildStep) \/ OutsideStep(Die)
    PROVE  RunInv'
<1>1. UNCHANGED <<main, fast, macro_file, text>>
  BY DEF OutsideStep, inputVars, resultVars
<1>2. CASE \E s \in Stream : Write(s)
  <2>1. PICK s \in Stream : Write(s)
    BY <1>2
  <2>2. /\ ProcessInv' /\ reader' = reader
        /\ \A r \in Seq(Token) :
              r \o pipe["out"] = emitted["out"] => r \o pipe'["out"] = emitted'["out"]
    BY <2>1, WriteStep DEF RunInv, Stream
  <2>3. MacroStream'
    BY <1>1, <2>2 DEF RunInv, MacroStream, InMacro
  <2>4. TextStream'
    BY <1>1, <2>2 DEF RunInv, TextStream
  <2> QED
    BY <1>1, <2>2, <2>3, <2>4 DEF RunInv, Joined
<1>3. CASE CloseWriters \/ Exit \/ Die
  <2>1. ProcessInv' /\ UNCHANGED <<reader, pipe, emitted>>
    BY <1>3, ChildEndStep DEF RunInv
  <2> QED
    BY <1>1, <2>1 DEF RunInv, Joined, MacroStream, InMacro, TextStream
<1> QED
  BY <1>2, <1>3 DEF OutsideStep, ChildStep

\* Steps of the reader, with the handlers they call.
LEMMA ReaderSteps ==
    ASSUME RunInv, ReaderStep
    PROVE  RunInv'
<1>1. CASE Poll /\ UNCHANGED <<main, inputVars, macro_file, resultVars>>
  <2>1. ProcessInv' /\ reader' = "out" /\ reader = "poll" /\ UNCHANGED <<pipe, emitted>>
    BY <1>1, PollStep DEF RunInv
  <2>2. UNCHANGED <<main, fast, macro_file, text>>
    BY <1>1 DEF inputVars, resultVars
  <2> QED
    BY <2>1, <2>2 DEF RunInv, Joined, MacroStream, InMacro, TextStream
<1>2. CASE ReadOut
  <2> DEFINE c == Chunk("out")
  <2>1. /\ ProcessInv' /\ reader = "out" /\ UNCHANGED emitted
        /\ c \in Seq(Token) /\ c \o pipe'["out"] = pipe["out"]
    BY <1>2, ServeStep DEF RunInv, ReadOut, Stream
  <2>2. /\ ~Ended
        /\ IF InMacro THEN macro_file' = macro_file \o c /\ UNCHANGED text
           ELSE text' = text \o c /\ UNCHANGED macro_file
        /\ UNCHANGED <<main, fast>>
    BY <1>2 DEF ReadOut, HandleOut, inputVars, resultVars
  <2> HIDE DEF c
  <2>3. pipe'["out"] \in Seq(Token)
    BY <2>1 DEF ProcessInv, ProcessTypeOK, Stream
  <2>4. \A r \in Seq(Token) :
            r \o pipe["out"] = emitted["out"] =>
                r \o c \in Seq(Token) /\ (r \o c) \o pipe'["out"] = emitted'["out"]
    <3>1. TAKE r \in Seq(Token)
    <3>2. /\ r \o c \in Seq(Token)
          /\ (r \o c) \o pipe'["out"] = r \o (c \o pipe'["out"])
      BY <2>1, <2>3, ConcatFacts
    <3> QED
      BY <2>1, <3>2
  <2>5. main \in {"macro guard", "macro wait", "macro join", "wait", "join"}
    BY <2>1, <2>2 DEF RunInv, Joined, Main, Ended
  <2>6. CASE InMacro
    <3>1. PICK r \in Seq(Token) :
               /\ r \o pipe["out"] = emitted["out"]
               /\ Interleaved(macro_file, r)
               /\ main = "macro guard" => macro_file = r
      BY <2>6 DEF RunInv, MacroStream
    <3>2. Interleaved(macro_file', r \o c)
      BY <2>1, <2>2, <2>6, <3>1, InterleavedChunk
    <3>3. main' = "macro guard" => macro_file' = r \o c
      BY <2>2, <2>6, <3>1
    <3>4. MacroStream'
      BY <2>4, <3>1, <3>2, <3>3 DEF MacroStream
    <3>5. TextStream'
      BY <2>2, <2>6 DEF RunInv, TextStream, InMacro
    <3> QED
      BY <2>1, <2>2, <2>5, <3>4, <3>5 DEF RunInv, Joined
  <2>7. CASE ~InMacro
    <3>1. main \in {"wait", "join"}
      BY <2>5, <2>7 DEF InMacro
    <3>2. text \in Seq(Token) /\ text \o pipe["out"] = emitted["out"]
      BY <3>1 DEF RunInv, TextStream
    <3>3. TextStream'
      BY <2>2, <2>4, <2>7, <3>1, <3>2 DEF TextStream
    <3>4. MacroStream'
      BY <2>2, <3>1 DEF MacroStream, InMacro
    <3> QED
      BY <2>1, <2>2, <2>5, <3>3, <3>4 DEF RunInv, Joined
  <2> QED
    BY <2>6, <2>7
<1>3. CASE ReadErr
  <2>1. /\ ProcessInv' /\ reader = "err" /\ UNCHANGED emitted
        /\ pipe'["out"] = pipe["out"]
    BY <1>3, ServeStep DEF RunInv, ReadErr, Stream
  <2>2. main' \in {main, "terminated"} /\ ~Ended /\ UNCHANGED <<fast, macro_file, text>>
    BY <1>3 DEF ReadErr, HandleErr, inputVars
  <2>3. main \in {"macro guard", "macro wait", "macro join", "wait", "join"}
    BY <2>1, <2>2 DEF RunInv, Joined, Main, Ended
  <2>4. CASE main' = main
    BY <2>1, <2>2, <2>3, <2>4 DEF RunInv, Joined, MacroStream, InMacro, TextStream
  <2>5. CASE main' = "terminated"
    BY <2>1, <2>5 DEF RunInv, Joined, MacroStream, InMacro, TextStream, Main
  <2> QED
    BY <2>2, <2>4, <2>5
<1> QED
  BY <1>1, <1>2, <1>3 DEF ReaderStep

\* Starting a process: nothing of its output has been written, or read.
LEMMA Started ==
    ASSUME ProcessInv,
           NEW P \in SUBSET Program,
           StartProcessFails \/ \E p \in P : StartProcess(p)
    PROVE  ProcessInv' /\ \A o \in Stream : pipe'[o] = <<>> /\ emitted'[o] = <<>>
<1>1. CASE StartProcessFails
  BY <1>1, FailsClean
<1>2. CASE \E p \in P : StartProcess(p)
  <2>1. PICK p \in P : StartProcess(p)
    BY <1>2
  <2> QED
    BY <2>1, StartsClean
<1> QED
  BY <1>1, <1>2

\* Nothing written before adds nothing.
LEMMA EmptyOutput ==
    /\ <<>> \in Seq(Token)
    /\ <<>> \o <<>> = <<>>
    /\ \A q \in Seq(Token) : q \o <<>> = q
  BY ConcatEmptySeq, EmptySeq

\* Steps of the calling thread that leave the process alone: what holds of the reader
\* stays, and only the two streams are to be looked at.
LEMMA SameProcess ==
    ASSUME RunInv, UNCHANGED processVars,
           main' \in Main, Joined', MacroStream', TextStream'
    PROVE  RunInv'
  BY DEF RunInv, processVars, childVars, readerVars, ProcessInv, ProcessTypeOK,
         ReportsValid, HangupSeen, GivenUpEmpty

\* The #undef keeps RunInv.
LEMMA AppendUndefStep ==
    ASSUME RunInv, AppendUndef
    PROVE  RunInv'
<1>1. /\ main = "macro guard" /\ main' = "macro wait"
      /\ macro_file' = IF hasGuard THEN Append(macro_file, UndefGuard) ELSE macro_file
      /\ UNCHANGED <<pipe, emitted, reader, text, fast>>
  BY DEF AppendUndef, processVars, readerVars, childVars, resultVars, inputVars
<1>2. PICK r \in Seq(Token) : r \o pipe["out"] = emitted["out"] /\ macro_file = r
  BY <1>1 DEF RunInv, MacroStream, InMacro
<1>3. Interleaved(macro_file', r)
  <2>1. CASE hasGuard
    <3> DEFINE S == Token \cup {UndefGuard}
    <3>1. r \in Seq(S)
      BY SeqMonotonic
    <3>2. Append(r, UndefGuard) = r \o <<UndefGuard>> /\ r \o <<UndefGuard>> \in Seq(S)
      BY <3>1, AppendIsConcat, ConcatProperties
    <3>3. (r \o <<UndefGuard>>) \o <<>> = r \o <<UndefGuard>>
      BY <3>2, ConcatEmptySeq
    <3>4. macro_file' = (r \o <<UndefGuard>>) \o <<>> /\ r = r \o <<>> /\ <<>> \in Seq(Token)
      BY <1>1, <1>2, <2>1, <3>2, <3>3, EmptyOutput
    <3> QED
      BY <3>4 DEF Interleaved
  <2>2. CASE ~hasGuard
    BY <1>1, <1>2, <2>2 DEF Interleaved
  <2> QED
    BY <2>1, <2>2
<1>4. MacroStream'
  BY <1>1, <1>2, <1>3 DEF MacroStream
<1>5. Joined' /\ TextStream' /\ main' \in Main
  BY <1>1 DEF RunInv, Joined, TextStream, Main
<1> QED
  BY <1>4, <1>5, SameProcess DEF AppendUndef

\* Waiting moves on with the reader joined, be it because there is none.
LEMMA WaitStep ==
    ASSUME RunInv,
           NEW here, NEW joining, NEW checking,
           \/ here = "macro wait" /\ joining = "macro join" /\ checking = "macro check"
           \/ here = "wait" /\ joining = "join" /\ checking = "check",
           Wait(here, joining, checking)
    PROVE  RunInv'
<1>1. main = here /\ UNCHANGED <<fast, macro_file, text>>
  BY DEF Wait, inputVars, resultVars
<1>2. CASE child = "none"
  <2>1. main' = checking /\ UNCHANGED <<processVars, reader, pipe, emitted>> /\ reader = "none"
    BY <1>2 DEF Wait, processVars, childVars, readerVars, RunInv, ProcessInv
  <2>2. main' \in Main /\ Joined' /\ MacroStream' /\ TextStream'
    BY <1>1, <2>1 DEF RunInv, Main, Joined, MacroStream, InMacro, TextStream
  <2> QED
    BY <2>1, <2>2, SameProcess
<1>3. CASE child # "none"
  <2>1. main' = joining /\ WaitForChild
    BY <1>3 DEF Wait
  <2>2. ProcessInv' /\ UNCHANGED <<reader, pipe, emitted>>
    BY <2>1, ChildEndStep DEF RunInv
  <2>3. main' \in Main /\ Joined' /\ MacroStream' /\ TextStream'
    BY <1>1, <2>1, <2>2 DEF RunInv, Main, Joined, MacroStream, InMacro, TextStream
  <2> QED
    BY <2>2, <2>3 DEF RunInv
<1> QED
  BY <1>2, <1>3

\* The end of get_exit_status() keeps RunInv.
LEMMA JoinStep ==
    ASSUME RunInv,
           NEW here, NEW checking,
           \/ here = "macro join" /\ checking = "macro check"
           \/ here = "join" /\ checking = "check",
           Join(here, checking)
    PROVE  RunInv'
<1>1. /\ main = here /\ main' = checking /\ reader \in {"none", "ended"}
      /\ UNCHANGED <<processVars, reader, pipe, emitted, fast, macro_file, text>>
  BY DEF Join, CloseFds, processVars, childVars, readerVars, inputVars, resultVars
<1>2. main' \in Main /\ Joined' /\ MacroStream' /\ TextStream'
  BY <1>1 DEF RunInv, Main, Joined, MacroStream, InMacro, TextStream
<1> QED
  BY <1>1, <1>2, SameProcess

\* Steps of the calling thread.
LEMMA MainSteps ==
    ASSUME RunInv, MainStep
    PROVE  RunInv'
<1>1. CASE RefuseMissingFile \/ SkipMacros
  <2>1. /\ main = "start" /\ main' \in {"threw", "launch"} /\ (main' = "launch" => ~fast)
        /\ UNCHANGED <<processVars, reader, pipe, emitted, fast, macro_file, text>>
    BY <1>1 DEF RefuseMissingFile, SkipMacros, processVars, childVars, readerVars,
                inputVars, resultVars
  <2>2. main' \in Main /\ Joined' /\ MacroStream' /\ TextStream'
    BY <2>1 DEF RunInv, Main, Joined, MacroStream, InMacro, TextStream
  <2> QED
    BY <2>1, <2>2, SameProcess
<1>2. CASE StartMacros
  <2>1. /\ main = "start" /\ main' = "macro guard" /\ macro_file' = <<>>
        /\ text' = text
        /\ StartProcessFails \/ \E p \in MacroProgram : StartProcess(p)
    BY <1>2 DEF StartMacros, resultVars
  <2>2. ProcessInv' /\ pipe'["out"] = <<>> /\ emitted'["out"] = <<>>
    BY <2>1, Started, PreprocessAssumption DEF RunInv, Stream
  <2>3. MacroStream'
    BY <2>1, <2>2, EmptyOutput DEF MacroStream, Interleaved
  <2>4. main' \in Main /\ Joined' /\ TextStream'
    BY <2>1 DEF RunInv, Main, Joined, TextStream
  <2> QED
    BY <2>2, <2>3, <2>4 DEF RunInv
<1>3. CASE AppendUndef
  BY <1>3, AppendUndefStep
<1>4. CASE Wait("macro wait", "macro join", "macro check") \/ Wait("wait", "join", "check")
  BY <1>4, WaitStep
<1>5. CASE Join("macro join", "macro check") \/ Join("join", "check")
  BY <1>5, JoinStep
<1>6. CASE CheckMacros
  <2>1. /\ main = "macro check" /\ main' \in {"launch", "threw"}
        /\ UNCHANGED <<processVars, reader, pipe, emitted, fast, macro_file, text>>
    BY <1>6 DEF CheckMacros, processVars, childVars, readerVars, inputVars
  <2>2. main' \in Main /\ Joined' /\ MacroStream' /\ TextStream'
    BY <2>1 DEF RunInv, Main, Joined, MacroStream, InMacro, TextStream
  <2> QED
    BY <2>1, <2>2, SameProcess
<1>7. CASE Launch
  <2>1. /\ main = "launch" /\ main' = "wait" /\ text' = text
        /\ StartProcessFails \/ \E p \in PreprocessProgram : StartProcess(p)
    BY <1>7 DEF Launch
  <2>2. ProcessInv' /\ pipe'["out"] = <<>> /\ emitted'["out"] = <<>>
    BY <2>1, Started, PreprocessAssumption DEF RunInv, Stream
  <2>3. text = <<>>
    BY <2>1 DEF RunInv, TextStream
  <2>4. main' \in Main /\ Joined' /\ MacroStream' /\ TextStream'
    BY <2>1, <2>2, <2>3, EmptyOutput DEF Main, Joined, MacroStream, InMacro, TextStream
  <2> QED
    BY <2>2, <2>4 DEF RunInv
<1>8. CASE Check \/ Cleanup
  <2>1. /\ \/ main = "check" /\ main' \in {"cleanup", "cleanup and throw"}
           \/ main \in {"cleanup", "cleanup and throw"} /\ main' \in {"returned", "threw"}
        /\ UNCHANGED <<processVars, reader, pipe, emitted, fast, text>>
    BY <1>8 DEF Check, Cleanup, processVars, childVars, readerVars, inputVars, resultVars
  <2>2. main' \in Main /\ Joined' /\ MacroStream' /\ TextStream'
    BY <2>1 DEF RunInv, Main, Joined, MacroStream, InMacro, TextStream
  <2> QED
    BY <2>1, <2>2, SameProcess
<1> QED
  BY <1>1, <1>2, <1>3, <1>4, <1>5, <1>6, <1>7, <1>8 DEF MainStep

----------------------------------------------------------------------------
(* Theorems *)

\* Along every run: a pipe is given up only when it is closed and empty, no reader
\* outlives the wait for its process, and the handlers' text with what the pipe still
\* holds is what the command has written (tpl::Process, clang_preprocess).
THEOREM RunInvariant == Spec => []RunInv
<1>1. Init => RunInv
  BY InitRun
<1>2. RunInv /\ [Next]_vars => RunInv'
  <2> SUFFICES ASSUME RunInv, [Next]_vars
               PROVE  RunInv'
    OBVIOUS
  <2>1. CASE MainStep
    BY <2>1, MainSteps
  <2>2. CASE ReaderStep
    BY <2>2, ReaderSteps
  <2>3. CASE OutsideStep(ChildStep) \/ OutsideStep(Die)
    BY <2>3, CommandSteps
  <2>4. CASE UNCHANGED vars
    <3>1. UNCHANGED <<processVars, main, pipe, emitted, reader, fast, macro_file, text>>
      BY <2>4 DEF vars, processVars, childVars, readerVars, inputVars, resultVars
    <3>2. main' \in Main /\ Joined' /\ MacroStream' /\ TextStream'
      BY <3>1 DEF RunInv, Joined, MacroStream, InMacro, TextStream
    <3> QED
      BY <3>1, <3>2, SameProcess
  <2> QED
    BY <2>1, <2>2, <2>3, <2>4 DEF Next
<1> QED
  BY <1>1, <1>2, PTL DEF Spec

\* Everything a command writes to stdout reaches the macro file, or the result, in
\* order and exactly once, for any output, any cutting into chunks and any moment of
\* the command's end, if one read() can empty a pipe (stdout_stderr_thread).
THEOREM OutputArrives == Spec => []OutputComplete
<1>1. RunInv => OutputComplete
  <2> SUFFICES ASSUME RunInv
               PROVE  OutputComplete
    OBVIOUS
  <2>1. ASSUME main \in {"launch", "cleanup", "returned"}
        PROVE  pipe["out"] = <<>>
    BY <2>1, Drained DEF RunInv, Joined
  <2>2. ASSUME main = "launch", fast
        PROVE  HoldsOutput(macro_file, emitted["out"])
    <3>1. PICK r \in Seq(Token) :
               r \o pipe["out"] = emitted["out"] /\ Interleaved(macro_file, r)
      BY <2>2 DEF RunInv, MacroStream
    <3>2. emitted["out"] = r
      BY <2>1, <2>2, <3>1, EmptyOutput
    <3> QED
      BY <3>1, <3>2, InterleavedHolds
  <2>3. ASSUME main \in {"cleanup", "returned"}
        PROVE  text = emitted["out"]
    <3>1. text \in Seq(Token) /\ text \o pipe["out"] = emitted["out"]
      BY <2>3 DEF RunInv, TextStream
    <3> QED
      BY <2>1, <2>3, <3>1, EmptyOutput
  <2> QED
    BY <2>2, <2>3 DEF OutputComplete
<1> QED
  BY <1>1, RunInvariant, PTL

\* The handlers, which refer to locals of write_macro_file and clang_preprocess_impl,
\* are called only while those functions run (get_exit_status joins the reader).
THEOREM HandlersStayInScope == Spec => []HandlersInScope
<1>1. RunInv => HandlersInScope
  BY DEF RunInv, Joined, Main, HandlersInScope, InMacro, InImpl
<1> QED
  BY <1>1, RunInvariant, PTL

----------------------------------------------------------------------------
(* The stderr of the commands: how the handlers put its lines together, and *)
(* what they do with them, for any cutting of the text into chunks.         *)

CharFold == INSTANCE FoldProofs WITH Op <- Consumed
LineFold == INSTANCE FoldProofs WITH Op <- Noted, Token <- Seq(Token)

----------------------------------------------------------------------------
(* The two walks: over the tokens of a text, and over its lines.            *)

Walk(b, q) == FoldLeft(Consumed, b, q)
Found(b, lines) == FoldLeft(Noted, b, lines)

\* Walk is the fold the general lemmas are about.
LEMMA WalkIsFold == \A b, q : Walk(b, q) = CharFold!Fold(b, q)
  BY DEF Walk, CharFold!Fold, CharFold!FoldLeft, CharFold!MapThenFoldSet, CharFold!Max,
         FoldLeft, MapThenFoldSet, Max

\* Found is the fold the general lemmas are about.
LEMMA FoundIsFold == \A b, q : Found(b, q) = LineFold!Fold(b, q)
  BY DEF Found, LineFold!Fold, LineFold!FoldLeft, LineFold!MapThenFoldSet, LineFold!Max,
         FoldLeft, MapThenFoldSet, Max

\* The handlers take a text character by character, cut anywhere.
LEMMA WalkFacts ==
    /\ \A b : Walk(b, <<>>) = b
    /\ \A b : \A q \in Seq(Token), x \in Token : Walk(b, Append(q, x)) = Consumed(Walk(b, q), x)
    /\ \A b : \A q, r \in Seq(Token) : Walk(b, q \o r) = Walk(Walk(b, q), r)
  BY WalkIsFold, CharFold!FoldEmpty, CharFold!FoldAppend, CharFold!FoldConcat

\* Missing files are noted line by line.
LEMMA FoundFacts ==
    /\ \A b : Found(b, <<>>) = b
    /\ \A b : \A q \in Seq(Seq(Token)), x \in Seq(Token) : Found(b, Append(q, x)) = Noted(Found(b, q), x)
    /\ \A b : \A q, r \in Seq(Seq(Token)) : Found(b, q \o r) = Found(Found(b, q), r)
  BY FoundIsFold, LineFold!FoldEmpty, LineFold!FoldAppend, LineFold!FoldConcat

----------------------------------------------------------------------------
(* What a handler has made of the text so far.                              *)

LineState == [line : Seq(Token), lines : Seq(Seq(Token))]

Fresh == [line |-> <<>>, lines |-> <<>>]

\* One character ends the current line or extends it.
LEMMA ConsumedFacts ==
    ASSUME NEW st \in LineState, NEW x \in Token
    PROVE  /\ Consumed(st, x) \in LineState
           /\ x = NewLine => Consumed(st, x).line = <<>> /\ Consumed(st, x).lines = Append(st.lines, st.line)
           /\ x # NewLine => Consumed(st, x).line = Append(st.line, x) /\ Consumed(st, x).lines = st.lines
<1>1. /\ st.line \in Seq(Token) /\ st.lines \in Seq(Seq(Token))
      /\ Append(st.line, x) \in Seq(Token) /\ Append(st.lines, st.line) \in Seq(Seq(Token))
      /\ <<>> \in Seq(Token)
  BY AppendProperties, EmptySeq DEF LineState
<1>2. CASE x = NewLine
  BY <1>1, <1>2 DEF Consumed, LineState
<1>3. CASE x # NewLine
  <2>1. Consumed(st, x) = [st EXCEPT !.line = Append(st.line, x)]
    BY <1>3 DEF Consumed
  <2> QED
    BY <1>1, <1>3, <2>1 DEF LineState
<1> QED
  BY <1>2, <1>3

\* Two states with the same line, one of which has seen more lines before.
Behind(st, before, su) == st.line = su.line /\ st.lines = before \o su.lines

\* The same character leaves a state that has seen more lines before as far behind.
LEMMA ConsumedBehind ==
    ASSUME NEW st \in LineState, NEW su \in LineState, NEW before \in Seq(Seq(Token)),
           NEW x \in Token, Behind(st, before, su)
    PROVE  Behind(Consumed(st, x), before, Consumed(su, x))
<1>1. CASE x = NewLine
  <2>0. PICK line, lines : line = su.line /\ lines = su.lines
    OBVIOUS
  <2>1. lines \in Seq(Seq(Token)) /\ line \in Seq(Token)
    BY <2>0 DEF LineState
  <2>2. Append(before \o lines, line) = before \o Append(lines, line)
    <3>1. <<line>> \in Seq(Seq(Token)) /\ before \o lines \in Seq(Seq(Token))
      BY <2>1, ConcatProperties
    <3>2. /\ Append(before \o lines, line) = (before \o lines) \o <<line>>
          /\ Append(lines, line) = lines \o <<line>>
      BY <2>1, <3>1, AppendIsConcat
    <3>3. (before \o lines) \o <<line>> = before \o (lines \o <<line>>)
      BY <2>1, <3>1, ConcatAssociative
    <3> QED
      BY <3>2, <3>3
  <2>3. /\ Consumed(su, x).line = <<>> /\ Consumed(su, x).lines = Append(lines, line)
        /\ Consumed(st, x).line = <<>> /\ Consumed(st, x).lines = Append(st.lines, st.line)
    BY <1>1, <2>0, ConsumedFacts
  <2>4. st.lines = before \o lines /\ st.line = line
    BY <2>0 DEF Behind
  <2> QED
    BY <2>2, <2>3, <2>4 DEF Behind
<1>2. CASE x # NewLine
  <2>1. /\ Consumed(su, x).line = Append(su.line, x) /\ Consumed(su, x).lines = su.lines
        /\ Consumed(st, x).line = Append(st.line, x) /\ Consumed(st, x).lines = st.lines
    BY <1>2, ConsumedFacts
  <2>2. st.lines = before \o su.lines /\ st.line = su.line
    BY DEF Behind
  <2> QED
    BY <2>1, <2>2 DEF Behind
<1> QED
  BY <1>1, <1>2

\* What is true of every walk: its type, that its start does not matter for the lines
\* it adds, and that a line that has just ended leaves nothing behind.
LEMMA WalkShape ==
    ASSUME NEW st \in LineState, NEW q \in Seq(Token)
    PROVE  /\ Walk(st, q) \in LineState
           /\ \A su \in LineState, before \in Seq(Seq(Token)) :
                 Behind(su, before, st) => Behind(Walk(su, q), before, Walk(st, q))
           /\ q # <<>> /\ Last(q) = NewLine => Walk(st, q).line = <<>>
<1> DEFINE Good(u) ==
             /\ Walk(st, u) \in LineState
             /\ \A su \in LineState, before \in Seq(Seq(Token)) :
                   Behind(su, before, st) =>
                      Walk(su, u) \in LineState /\ Behind(Walk(su, u), before, Walk(st, u))
             /\ u # <<>> /\ Last(u) = NewLine => Walk(st, u).line = <<>>
           T == {n \in Nat : \A u \in Seq(Token) : Len(u) = n => Good(u)}
<1>1. 0 \in T
  <2>1. ASSUME NEW u \in Seq(Token), Len(u) = 0 PROVE Good(u)
    <3>1. u = <<>>
      BY <2>1, EmptyFacts
    <3> QED
      BY <3>1, WalkFacts
  <2> QED
    BY <2>1
<1>2. ASSUME NEW n \in T PROVE n + 1 \in T
  <2>1. ASSUME NEW u \in Seq(Token), Len(u) = n + 1 PROVE Good(u)
    <3>1. PICK v \in Seq(Token), x \in Token : u = Append(v, x) /\ Len(v) = n
      BY <2>1, CharFold!SnocForm
    <3>2. Good(v)
      BY <3>1
    <3>3. \A b : Walk(b, u) = Consumed(Walk(b, v), x)
      BY <3>1, WalkFacts
    <3>4. Walk(st, u) \in LineState
      BY <3>2, <3>3, ConsumedFacts
    <3>5. ASSUME NEW su \in LineState, NEW before \in Seq(Seq(Token)), Behind(su, before, st)
          PROVE  Walk(su, u) \in LineState /\ Behind(Walk(su, u), before, Walk(st, u))
      BY <3>2, <3>3, <3>5, ConsumedFacts, ConsumedBehind
    <3>6. Last(u) = x
      BY <3>1 DEF Last
    <3>7. Last(u) = NewLine => Walk(st, u).line = <<>>
      BY <3>2, <3>3, <3>6, ConsumedFacts
    <3> QED
      BY <3>4, <3>5, <3>7
  <2> QED
    BY <2>1
<1>3. T = Nat
  <2> HIDE DEF T
  <2>1. T \subseteq Nat
    BY DEF T
  <2> QED
    BY <1>1, <1>2, <2>1, CharFold!NatSetInduction
<1> QED
  <2>1. Len(q) \in T
    BY <1>3
  <2> QED
    BY <2>1

----------------------------------------------------------------------------
(* The inductive invariant *)

InHandlers == InMacro \/ main \in {"wait", "join", "check", "cleanup", "cleanup and throw", "returned"}

\* What has been read of stderr is the lines consumed and the one that is not complete.
ErrStream ==
    InHandlers =>
        \E r \in Seq(Token) :
            /\ r \o pipe["err"] = emitted["err"]
            /\ Walk(Fresh, r) = [line |-> diagnostic, lines |-> logged]

\* What clang_preprocess_impl has made of the lines.
ErrUsed ==
    IF main \in {"wait", "join", "check", "cleanup", "cleanup and throw", "returned"}
    THEN /\ fast => included_files = Found(<<>>, logged)
         /\ expect_bad_exit_code => fast /\ logged # <<>>
    ELSE main \in {"threw", "terminated"} \/ (included_files = <<>> /\ ~expect_bad_exit_code)

\* No line is under way when a command is started.
ErrFresh ==
    /\ main \in {"start", "launch"} => diagnostic = <<>>
    /\ main = "start" => logged = <<>>

\* The text of a command ends with the end of a line.
ErrEnds ==
    InHandlers =>
        LET whole == emitted["err"] \o todo["err"]
        IN  whole # <<>> => Last(whole) = NewLine

\* Nobody kills a command that has been waited for.
Waited ==
    main \in {"macro join", "macro check", "join", "check", "cleanup", "returned"} =>
        child \in {"none", "reaped"}

Decided == main \in {"cleanup", "returned"} => success \/ expect_bad_exit_code

ResultTypeOK ==
    /\ fast \in BOOLEAN /\ hasGuard \in BOOLEAN
    /\ macro_file \in Seq(FileToken) \cup {NoFile}
    /\ InMacro => macro_file \in Seq(FileToken)
    /\ text \in Seq(Token)
    /\ included_files \in Seq(Seq(Token))
    /\ diagnostic \in Seq(Token)
    /\ logged \in Seq(Seq(Token))
    /\ expect_bad_exit_code \in BOOLEAN

LinesInv ==
    /\ ErrStream
    /\ ErrUsed
    /\ ErrFresh
    /\ ErrEnds
    /\ Waited
    /\ Decided
    /\ ResultTypeOK

----------------------------------------------------------------------------
(* The handlers *)

\* The included files are lines.
LEMMA FoundType ==
    ASSUME NEW b \in Seq(Seq(Token)), NEW q \in Seq(Seq(Token))
    PROVE  Found(b, q) \in Seq(Seq(Token))
<1> DEFINE T == {n \in Nat : \A u \in Seq(Seq(Token)) : Len(u) = n => Found(b, u) \in Seq(Seq(Token))}
<1>1. 0 \in T
  <2>1. ASSUME NEW u \in Seq(Seq(Token)), Len(u) = 0 PROVE Found(b, u) \in Seq(Seq(Token))
    <3>1. u = <<>>
      BY <2>1
    <3> QED
      BY <3>1, FoundFacts
  <2> QED
    BY <2>1
<1>2. ASSUME NEW n \in T PROVE n + 1 \in T
  <2>1. ASSUME NEW u \in Seq(Seq(Token)), Len(u) = n + 1 PROVE Found(b, u) \in Seq(Seq(Token))
    <3>1. PICK v \in Seq(Seq(Token)), x \in Seq(Token) : u = Append(v, x) /\ Len(v) = n
      BY <2>1, LineFold!SnocForm
    <3>2. Found(b, v) \in Seq(Seq(Token)) /\ Found(b, u) = Noted(Found(b, v), x)
      BY <3>1, FoundFacts
    <3> QED
      BY <3>2, AppendProperties DEF Noted
  <2> QED
    BY <2>1
<1>3. T = Nat
  <2> HIDE DEF T
  <2>1. T \subseteq Nat
    BY DEF T
  <2> QED
    BY <1>1, <1>2, <2>1, CharFold!NatSetInduction
<1> QED
  <2>1. Len(q) \in T
    BY <1>3
  <2> QED
    BY <2>1

\* What a handler makes of a chunk continues what it has made of the text before.
LEMMA Diagnosing ==
    ASSUME NEW r \in Seq(Token), NEW c \in Seq(Token), ResultTypeOK,
           Walk(Fresh, r) = [line |-> diagnostic, lines |-> logged]
    PROVE  /\ Diagnosed(c) \in LineState
           /\ Walk(Fresh, r \o c) =
                 [line |-> Diagnosed(c).line, lines |-> logged \o Diagnosed(c).lines]
<1> DEFINE here == [line |-> diagnostic, lines |-> <<>>]
           all == [line |-> diagnostic, lines |-> logged]
<1>1. here \in LineState /\ all \in LineState /\ logged \in Seq(Seq(Token)) /\ logged \o <<>> = logged
  <2>1. diagnostic \in Seq(Token) /\ logged \in Seq(Seq(Token)) /\ <<>> \in Seq(Seq(Token))
    BY DEF ResultTypeOK
  <2> QED
    BY <2>1, ConcatEmptySeq DEF LineState
<1>2. Behind(all, logged, here)
  BY <1>1 DEF Behind
<1>3. Diagnosed(c) = Walk(here, c)
  BY DEF Diagnosed, Walk
<1>4. Walk(Fresh, r \o c) = Walk(all, c)
  BY WalkFacts
<1> HIDE DEF here, all
<1>5. Walk(here, c) \in LineState /\ Walk(all, c) \in LineState
  BY <1>1, WalkShape
<1>6. Behind(Walk(all, c), logged, Walk(here, c))
  BY <1>1, <1>2, WalkShape
<1>7. Walk(all, c) = [line |-> Walk(here, c).line, lines |-> logged \o Walk(here, c).lines]
  BY <1>5, <1>6 DEF Behind, LineState
<1> QED
  BY <1>3, <1>4, <1>5, <1>7

\* A chunk of stderr keeps LinesInv.
LEMMA ReadErrLines ==
    ASSUME RunInv, LinesInv, ReadErr
    PROVE  LinesInv'
<1> DEFINE c == Chunk("err")
           new == Diagnosed(c)
<1>1. /\ reader = "err" /\ UNCHANGED emitted /\ c \in Seq(Token) /\ c \o pipe'["err"] = pipe["err"]
      /\ pipe'["err"] \in Seq(Token)
  <2>1. /\ ProcessInv' /\ reader = "err" /\ UNCHANGED emitted /\ c \in Seq(Token)
        /\ c \o pipe'["err"] = pipe["err"]
    BY ServeStep DEF RunInv, ReadErr, Stream
  <2> QED
    BY <2>1 DEF ProcessInv, ProcessTypeOK, Stream
<1>2. /\ ~Ended /\ UNCHANGED <<child, success, todo, fast, hasGuard, macro_file, text>>
      /\ diagnostic' = new.line /\ logged' = logged \o new.lines
      /\ main' \in {main, "terminated"}
      /\ InMacro \/ ~fast => main' = main /\ UNCHANGED <<included_files, expect_bad_exit_code>>
      /\ ~(InMacro \/ ~fast) =>
            /\ included_files' = Found(included_files, new.lines)
            /\ expect_bad_exit_code' = (expect_bad_exit_code \/ new.lines # <<>>)
  BY DEF ReadErr, HandleErr, Serve, childVars, inputVars, Found
<1>3. main \in {"macro guard", "macro wait", "macro join", "wait", "join"}
  BY <1>1, <1>2 DEF RunInv, Joined, Main, Ended
<1>4. PICK r \in Seq(Token) :
         /\ r \o pipe["err"] = emitted["err"]
         /\ Walk(Fresh, r) = [line |-> diagnostic, lines |-> logged]
  BY <1>3 DEF LinesInv, ErrStream, InHandlers, InMacro
<1>5. r \o c \in Seq(Token) /\ (r \o c) \o pipe'["err"] = emitted'["err"]
  <2>1. PICK q \in Seq(Token) : q = pipe'["err"]
    BY <1>1
  <2>2. r \o c \in Seq(Token) /\ (r \o c) \o q = r \o (c \o q)
    BY <1>1, ConcatFacts
  <2> QED
    BY <1>1, <1>4, <2>1, <2>2
<1>6. /\ new \in LineState
      /\ Walk(Fresh, r \o c) = [line |-> diagnostic', lines |-> logged']
  BY <1>1, <1>2, <1>4, Diagnosing DEF LinesInv
<1> HIDE DEF c, new
<1>7. /\ new.line \in Seq(Token) /\ new.lines \in Seq(Seq(Token))
      /\ logged \in Seq(Seq(Token)) /\ logged' \in Seq(Seq(Token))
      /\ logged' # <<>> <=> logged # <<>> \/ new.lines # <<>>
  <2>1. new.line \in Seq(Token) /\ new.lines \in Seq(Seq(Token)) /\ logged \in Seq(Seq(Token))
    BY <1>6 DEF LineState, LinesInv, ResultTypeOK
  <2>2. PICK lines \in Seq(Seq(Token)) : lines = new.lines
    BY <2>1
  <2>3. /\ logged \o lines \in Seq(Seq(Token)) /\ Len(logged \o lines) = Len(logged) + Len(lines)
        /\ Len(logged) \in Nat /\ Len(lines) \in Nat
    BY <2>1, ConcatProperties
  <2>4. \A q \in Seq(Seq(Token)) : q # <<>> <=> Len(q) # 0
    OBVIOUS
  <2>5. logged \o lines # <<>> <=> logged # <<>> \/ lines # <<>>
    BY <2>1, <2>3, <2>4
  <2> QED
    BY <1>2, <2>1, <2>2, <2>3, <2>5
<1>8. ErrStream'
  BY <1>5, <1>6 DEF ErrStream
<1>9. ErrUsed'
  <2>1. CASE main' = "terminated"
    BY <2>1 DEF ErrUsed
  <2>2. CASE main' = main /\ InMacro
    <3>1. main \in {"macro guard", "macro wait", "macro join", "macro check"}
      BY <2>2 DEF InMacro
    <3>2. included_files = <<>> /\ ~expect_bad_exit_code
      BY <3>1 DEF LinesInv, ErrUsed
    <3>3. included_files' = <<>> /\ ~expect_bad_exit_code'
      BY <1>2, <2>2, <3>2
    <3> QED
      BY <2>2, <3>1, <3>3 DEF ErrUsed
  <2>3. CASE main' = main /\ ~InMacro
    <3>1. main \in {"wait", "join"}
      BY <1>3, <2>3 DEF InMacro
    <3>2. /\ fast => included_files = Found(<<>>, logged)
          /\ expect_bad_exit_code => fast /\ logged # <<>>
      BY <3>1 DEF LinesInv, ErrUsed
    <3>3. fast => included_files' = Found(<<>>, logged')
      <4>1. Found(Found(<<>>, logged), new.lines) = Found(<<>>, logged \o new.lines)
        BY <1>7, FoundFacts
      <4> QED
        BY <1>2, <2>3, <3>2, <4>1
    <3>4. expect_bad_exit_code' => fast /\ logged' # <<>>
      BY <1>2, <1>7, <2>3, <3>2
    <3> QED
      BY <1>2, <2>3, <3>1, <3>3, <3>4 DEF ErrUsed
  <2> QED
    BY <1>2, <2>1, <2>2, <2>3
<1>10. ErrFresh' /\ Waited' /\ Decided'
  BY <1>2, <1>3 DEF LinesInv, ErrFresh, Waited, Decided
<1>11. ErrEnds'
  BY <1>1, <1>2, <1>3 DEF LinesInv, ErrEnds, InHandlers, InMacro
<1>12. ResultTypeOK'
  <2>1. included_files' \in Seq(Seq(Token))
    BY <1>2, <1>7, FoundType DEF LinesInv, ResultTypeOK
  <2>2. expect_bad_exit_code' \in BOOLEAN
    BY <1>2 DEF LinesInv, ResultTypeOK
  <2> QED
    BY <1>2, <1>3, <1>7, <2>1, <2>2 DEF LinesInv, ResultTypeOK, InMacro
<1> QED
  BY <1>8, <1>9, <1>10, <1>11, <1>12 DEF LinesInv

\* LinesInv is about stderr: steps that do not touch it keep it, but for the types of the
\* macro file and the text.
LEMMA SameLines ==
    ASSUME LinesInv,
           UNCHANGED <<emitted, todo, child, success, main, fast,
                       included_files, diagnostic, logged, expect_bad_exit_code>>,
           pipe'["err"] = pipe["err"],
           ResultTypeOK'
    PROVE  LinesInv'
<1>1. ErrStream'
  BY DEF LinesInv, ErrStream, InHandlers, InMacro
<1>2. ErrEnds'
  BY DEF LinesInv, ErrEnds, InHandlers, InMacro
<1>3. ErrUsed' /\ ErrFresh'
  BY DEF LinesInv, ErrUsed, ErrFresh
<1>4. Waited' /\ Decided'
  BY DEF LinesInv, Waited, Decided
<1> QED
  BY <1>1, <1>2, <1>3, <1>4 DEF LinesInv

\* The steps of poll() and of the stdout handlers do not touch stderr.
LEMMA OtherReaderLines ==
    ASSUME RunInv, LinesInv,
           ReadOut \/ (Poll /\ UNCHANGED <<main, inputVars, macro_file, resultVars>>)
    PROVE  LinesInv'
<1>1. CASE Poll /\ UNCHANGED <<main, inputVars, macro_file, resultVars>>
  <2>1. /\ UNCHANGED <<pipe, emitted, todo, child, success, main, fast, hasGuard, macro_file, text>>
        /\ UNCHANGED <<included_files, diagnostic, logged, expect_bad_exit_code>>
    BY <1>1 DEF Poll, childVars, inputVars, resultVars
  <2>2. ResultTypeOK'
    BY <2>1 DEF LinesInv, ResultTypeOK, InMacro
  <2> QED
    BY <2>1, <2>2, SameLines
<1>2. CASE ReadOut
  <2> DEFINE c == Chunk("out")
  <2>1. /\ UNCHANGED emitted /\ c \in Seq(Token) /\ pipe'["err"] = pipe["err"]
    BY <1>2, ServeStep DEF RunInv, ReadOut, Stream
  <2>2. /\ UNCHANGED <<child, success, todo, main, fast, hasGuard>>
        /\ UNCHANGED <<included_files, diagnostic, logged, expect_bad_exit_code>>
        /\ IF InMacro THEN macro_file' = macro_file \o c /\ UNCHANGED text
           ELSE text' = text \o c /\ UNCHANGED macro_file
    BY <1>2 DEF ReadOut, HandleOut, Serve, childVars, inputVars, resultVars
  <2> HIDE DEF c
  <2>3. InMacro => macro_file' \in Seq(FileToken)
    <3>1. c \in Seq(FileToken)
      BY <2>1, SeqMonotonic DEF FileToken
    <3>2. InMacro => macro_file \in Seq(FileToken)
      BY DEF LinesInv, ResultTypeOK
    <3>3. InMacro => macro_file \o c \in Seq(FileToken)
      BY <3>1, <3>2, FileConcatFacts
    <3> QED
      BY <2>2, <3>3
  <2>4. text' \in Seq(Token)
    <3>1. text \in Seq(Token) /\ text \o c \in Seq(Token)
      BY <2>1, ConcatFacts DEF LinesInv, ResultTypeOK
    <3> QED
      BY <2>2, <3>1
  <2>5. ResultTypeOK'
    BY <2>2, <2>3, <2>4 DEF LinesInv, ResultTypeOK, InMacro
  <2> QED
    BY <2>1, <2>2, <2>5, SameLines
<1> QED
  BY <1>1, <1>2

\* What a command writes moves from what it will write to what it has written.
LEMMA WriteLines ==
    ASSUME RunInv, LinesInv, NEW s \in Stream, Write(s),
           UNCHANGED <<main, inputVars, macro_file, resultVars>>
    PROVE  LinesInv'
<1>1. /\ \A r \in Seq(Token) : r \o pipe["err"] = emitted["err"] => r \o pipe'["err"] = emitted'["err"]
      /\ UNCHANGED <<child, success>>
      /\ UNCHANGED <<main, fast, hasGuard, macro_file, text, included_files, diagnostic, logged,
                     expect_bad_exit_code>>
  BY WriteStep DEF RunInv, Stream, Write, inputVars, resultVars
<1>2. emitted'["err"] \o todo'["err"] = emitted["err"] \o todo["err"]
  <2>1. /\ todo \in [Stream -> Seq(Token)] /\ emitted \in [Stream -> Seq(Token)]
        /\ todo[s] # <<>>
        /\ emitted' = [emitted EXCEPT ![s] = Append(@, Head(todo[s]))]
        /\ todo' = [todo EXCEPT ![s] = Tail(@)]
    BY DEF Write, RunInv, ProcessInv, ProcessTypeOK
  <2>2. CASE s = "err"
    <3>1. PICK e \in Seq(Token), q \in Seq(Token) : e = emitted["err"] /\ q = todo["err"] /\ q # <<>>
      BY <2>1, <2>2
    <3>2. PICK x \in Token, rest \in Seq(Token) : x = Head(q) /\ rest = Tail(q) /\ q = <<x>> \o rest
      <4>1. Head(q) \in Token /\ Tail(q) \in Seq(Token) /\ q = <<Head(q)>> \o Tail(q)
        BY <3>1
      <4> QED
        BY <4>1
    <3>3. emitted'["err"] = Append(e, x) /\ todo'["err"] = rest
      BY <2>1, <2>2, <3>1, <3>2
    <3>4. Append(e, x) = e \o <<x>> /\ <<x>> \in Seq(Token)
      BY AppendIsConcat
    <3>5. (e \o <<x>>) \o rest = e \o (<<x>> \o rest)
      BY <3>4, ConcatFacts
    <3> QED
      BY <3>1, <3>2, <3>3, <3>4, <3>5
  <2>3. CASE s # "err"
    BY <2>1, <2>3 DEF Stream
  <2> QED
    BY <2>2, <2>3
<1>3. ErrStream'
  BY <1>1 DEF LinesInv, ErrStream, InHandlers, InMacro
<1>4. ErrEnds'
  BY <1>1, <1>2 DEF LinesInv, ErrEnds, InHandlers, InMacro
<1> QED
  BY <1>1, <1>3, <1>4 DEF LinesInv, ErrUsed, ErrFresh, Waited, Decided, ResultTypeOK, InMacro

\* A command that has been waited for does not end again.
LEMMA EndLines ==
    ASSUME LinesInv, CloseWriters \/ Exit \/ Die,
           UNCHANGED <<main, inputVars, macro_file, resultVars>>
    PROVE  LinesInv'
<1>1. /\ UNCHANGED <<todo, emitted, pipe>>
      /\ UNCHANGED <<main, fast, hasGuard, macro_file, text, included_files, diagnostic, logged,
                     expect_bad_exit_code>>
  BY DEF CloseWriters, Exit, Die, inputVars, resultVars
<1>2. UNCHANGED <<child, success>> \/ child = "running"
  BY DEF CloseWriters, Exit, Die
<1>3. Waited' /\ Decided'
  BY <1>1, <1>2 DEF LinesInv, Waited, Decided
<1> QED
  BY <1>1, <1>3 DEF LinesInv, ErrStream, ErrUsed, ErrFresh, ErrEnds, ResultTypeOK, InHandlers, InMacro

----------------------------------------------------------------------------
(* The calling thread *)

\* The text of a command that has just been started ends with the end of a line.
LEMMA StartEnds ==
    ASSUME NEW P \in SUBSET (MacroProgram \cup PreprocessProgram),
           StartProcessFails \/ \E p \in P : StartProcess(p)
    PROVE  /\ pipe'["err"] = <<>> /\ emitted'["err"] = <<>>
           /\ emitted'["err"] \o todo'["err"] # <<>> => Last(emitted'["err"] \o todo'["err"]) = NewLine
<1>1. Nothing["err"] = <<>> /\ <<>> \o <<>> = <<>>
  BY EmptyOutput DEF Nothing, Stream
<1>2. CASE StartProcessFails
  BY <1>1, <1>2 DEF StartProcessFails
<1>3. CASE \E p \in P : StartProcess(p)
  <2>1. PICK p \in P : StartProcess(p)
    BY <1>3
  <2>2. p \in MacroProgram \cup PreprocessProgram /\ p \in Program
    BY PreprocessAssumption
  <2>3. PICK e \in Seq(Token) : e = p.err
    BY <2>2 DEF Program
  <2>4. todo'["err"] = e /\ emitted'["err"] = <<>> /\ pipe'["err"] = <<>>
    BY <1>1, <2>1, <2>3 DEF StartProcess, Stream
  <2>5. <<>> \o e = e
    BY ConcatEmptySeq
  <2>6. e # <<>> => Last(e) = NewLine
    BY <2>2, <2>3, CompleteLines
  <2> QED
    BY <2>4, <2>5, <2>6
<1> QED
  BY <1>2, <1>3

\* A command that is started, or fails to start, keeps LinesInv.
LEMMA StartLines ==
    ASSUME LinesInv, StartMacros \/ Launch
    PROVE  LinesInv'
<1>1. /\ pipe'["err"] = <<>> /\ emitted'["err"] = <<>>
      /\ emitted'["err"] \o todo'["err"] # <<>> => Last(emitted'["err"] \o todo'["err"]) = NewLine
  BY StartEnds DEF StartMacros, Launch
<1>2. /\ main \in {"start", "launch"}
      /\ main = "start" => main' = "macro guard" /\ macro_file' = <<>> /\ logged' = logged
      /\ main = "launch" => main' = "wait" /\ macro_file' = macro_file /\ logged' = <<>>
      /\ UNCHANGED <<fast, hasGuard, text, included_files, diagnostic, expect_bad_exit_code>>
  BY DEF StartMacros, Launch, inputVars, resultVars
<1>3. diagnostic' = <<>> /\ logged' = <<>>
  BY <1>2 DEF LinesInv, ErrFresh
<1>4. ErrStream'
  <2>1. Walk(Fresh, <<>>) = [line |-> diagnostic', lines |-> logged']
    BY <1>3, WalkFacts DEF Fresh
  <2>2. <<>> \in Seq(Token) /\ <<>> \o pipe'["err"] = emitted'["err"]
    BY <1>1, EmptyOutput
  <2> QED
    BY <2>1, <2>2 DEF ErrStream
<1>5. ErrUsed'
  <2>1. included_files' = <<>> /\ ~expect_bad_exit_code'
    BY <1>2 DEF LinesInv, ErrUsed
  <2>2. Found(<<>>, logged') = <<>>
    BY <1>3, FoundFacts
  <2> QED
    BY <1>2, <2>1, <2>2 DEF ErrUsed
<1>6. ErrEnds'
  BY <1>1 DEF ErrEnds
<1>7. ResultTypeOK'
  <2>1. <<>> \in Seq(FileToken) /\ <<>> \in Seq(Seq(Token))
    BY EmptySeq
  <2> QED
    BY <1>2, <1>3, <2>1 DEF LinesInv, ResultTypeOK, InMacro
<1> QED
  BY <1>2, <1>4, <1>5, <1>6, <1>7 DEF LinesInv, ErrFresh, Waited, Decided

\* get_exit_status() keeps LinesInv.
LEMMA WaitLines ==
    ASSUME RunInv, LinesInv,
           NEW here, NEW joining, NEW checking,
           \/ here = "macro wait" /\ joining = "macro join" /\ checking = "macro check"
           \/ here = "wait" /\ joining = "join" /\ checking = "check",
           Wait(here, joining, checking)
    PROVE  LinesInv'
<1>1. /\ main = here /\ main' \in {joining, checking}
      /\ child' \in {"none", "reaped"}
      /\ UNCHANGED <<success, todo, emitted, pipe>>
      /\ UNCHANGED <<fast, hasGuard, macro_file, text, included_files, diagnostic, logged,
                     expect_bad_exit_code>>
  BY DEF Wait, WaitForChild, processVars, childVars, inputVars, resultVars
<1> QED
  BY <1>1 DEF LinesInv, ErrStream, ErrUsed, ErrFresh, ErrEnds, Waited, Decided, ResultTypeOK,
              InHandlers, InMacro

\* The steps of the caller that leave the process and the result alone.
LEMMA PlainLines ==
    ASSUME RunInv, LinesInv,
           \/ RefuseMissingFile \/ SkipMacros \/ Check
           \/ Join("macro join", "macro check") \/ Join("join", "check")
    PROVE  LinesInv'
<1>1. /\ UNCHANGED <<child, success, todo, emitted, pipe>>
      /\ UNCHANGED <<fast, hasGuard, macro_file, text, included_files, diagnostic, logged,
                     expect_bad_exit_code>>
  BY DEF RefuseMissingFile, SkipMacros, Check, Join, CloseFds, processVars, childVars, inputVars, resultVars
<1>2. \/ main = "start" /\ main' \in {"threw", "launch"}
      \/ main = "check" /\ main' = "cleanup and throw"
      \/ main = "check" /\ main' = "cleanup" /\ (success \/ expect_bad_exit_code)
      \/ main = "macro join" /\ main' = "macro check"
      \/ main = "join" /\ main' = "check"
  BY DEF RefuseMissingFile, SkipMacros, Check, Join
<1>3. ErrStream' /\ ErrEnds'
  BY <1>1, <1>2 DEF LinesInv, ErrStream, ErrEnds, InHandlers, InMacro
<1>4. ErrUsed' /\ ErrFresh'
  BY <1>1, <1>2 DEF LinesInv, ErrUsed, ErrFresh
<1>5. Waited' /\ Decided'
  BY <1>1, <1>2 DEF LinesInv, Waited, Decided
<1>6. ResultTypeOK'
  BY <1>1, <1>2 DEF LinesInv, ResultTypeOK, InMacro
<1> QED
  BY <1>3, <1>4, <1>5, <1>6 DEF LinesInv

\* The #undef keeps LinesInv.
LEMMA AppendUndefLines ==
    ASSUME LinesInv, AppendUndef
    PROVE  LinesInv'
<1>1. /\ main = "macro guard" /\ main' = "macro wait"
      /\ macro_file' = IF hasGuard THEN Append(macro_file, UndefGuard) ELSE macro_file
      /\ UNCHANGED <<child, success, todo, emitted, pipe>>
      /\ UNCHANGED <<fast, hasGuard, text, included_files, diagnostic, logged, expect_bad_exit_code>>
  BY DEF AppendUndef, processVars, childVars, inputVars, resultVars
<1>2. macro_file' \in Seq(FileToken)
  <2>1. macro_file \in Seq(FileToken) /\ UndefGuard \in FileToken
    BY <1>1 DEF LinesInv, ResultTypeOK, InMacro, FileToken
  <2> QED
    BY <1>1, <2>1, AppendProperties
<1> QED
  BY <1>1, <1>2 DEF LinesInv, ErrStream, ErrUsed, ErrFresh, ErrEnds, Waited, Decided, ResultTypeOK,
                    InHandlers, InMacro

\* The check of the macro command's exit code keeps LinesInv.
LEMMA CheckMacrosLines ==
    ASSUME LinesInv, CheckMacros
    PROVE  LinesInv'
<1>1. /\ main = "macro check" /\ main' \in {"launch", "threw"} /\ diagnostic' = <<>>
      /\ UNCHANGED <<fast, hasGuard, macro_file, text, included_files, logged, expect_bad_exit_code>>
  BY DEF CheckMacros, inputVars
<1>2. <<>> \in Seq(Token)
  BY EmptySeq
<1> QED
  BY <1>1, <1>2 DEF LinesInv, ErrStream, ErrUsed, ErrFresh, ErrEnds, Waited, Decided, ResultTypeOK,
                    InHandlers, InMacro

\* The clean-up keeps LinesInv.
LEMMA CleanupLines ==
    ASSUME LinesInv, Cleanup
    PROVE  LinesInv'
<1>1. /\ \/ main = "cleanup" /\ main' = "returned"
         \/ main = "cleanup and throw" /\ main' = "threw"
      /\ macro_file' \in {macro_file, NoFile}
      /\ UNCHANGED <<child, success, todo, emitted, pipe>>
      /\ UNCHANGED <<fast, hasGuard, text, included_files, diagnostic, logged, expect_bad_exit_code>>
  BY DEF Cleanup, processVars, childVars, inputVars, resultVars
<1> QED
  BY <1>1 DEF LinesInv, ErrStream, ErrUsed, ErrFresh, ErrEnds, Waited, Decided, ResultTypeOK,
              InHandlers, InMacro

----------------------------------------------------------------------------
(* Theorems *)

\* Along every run: the lines the handlers have consumed and the one they have begun are
\* what has been read of stderr, and the included files and expect_bad_exit_code are
\* what these lines say (clang_preprocess_impl, write_macro_file).
THEOREM LinesInvariant == Spec => []LinesInv
<1>1. Init => LinesInv
  <2> SUFFICES ASSUME Init PROVE LinesInv
    OBVIOUS
  <2>1. main = "start" /\ fast \in BOOLEAN /\ hasGuard \in BOOLEAN /\ child = "none"
        /\ macro_file = NoFile /\ text = <<>> /\ included_files = <<>> /\ diagnostic = <<>>
        /\ logged = <<>> /\ expect_bad_exit_code = FALSE
    BY DEF Init, ProcessInit
  <2>2. <<>> \in Seq(Token) /\ <<>> \in Seq(Seq(Token))
    BY EmptySeq
  <2> QED
    BY <2>1, <2>2 DEF LinesInv, ErrStream, ErrUsed, ErrFresh, ErrEnds, Waited, Decided, ResultTypeOK,
                      InHandlers, InMacro
<1>2. RunInv /\ LinesInv /\ [Next]_vars => LinesInv'
  <2> SUFFICES ASSUME RunInv, LinesInv, [Next]_vars PROVE LinesInv'
    OBVIOUS
  <2>1. CASE MainStep
    BY <2>1, PlainLines, StartLines, AppendUndefLines, WaitLines, CheckMacrosLines, CleanupLines
       DEF MainStep
  <2>2. CASE ReaderStep
    BY <2>2, OtherReaderLines, ReadErrLines DEF ReaderStep
  <2>3. CASE OutsideStep(ChildStep) \/ OutsideStep(Die)
    BY <2>3, WriteLines, EndLines DEF OutsideStep, ChildStep
  <2>4. CASE UNCHANGED vars
    BY <2>4 DEF vars, processVars, childVars, inputVars, resultVars, LinesInv, ErrStream, ErrUsed,
                ErrFresh, ErrEnds, Waited, Decided, ResultTypeOK, InHandlers, InMacro
  <2> QED
    BY <2>1, <2>2, <2>3, <2>4 DEF Next
<1> QED
  BY <1>1, <1>2, RunInvariant, PTL DEF Spec

\* The variables of the call have the types its declarations give them.
THEOREM RunTypeCorrect == Spec => []TypeOK
<1>1. RunInv /\ LinesInv => TypeOK
  BY DEF RunInv, ProcessInv, LinesInv, ResultTypeOK, FileToken, TypeOK
<1> QED
  BY <1>1, RunInvariant, LinesInvariant, PTL

\* When nothing reads any more, all of stderr has gone through the handlers.
LEMMA AllConsumed ==
    ASSUME RunInv, LinesInv, main \in {"macro check", "check", "cleanup", "returned"}
    PROVE  /\ emitted["err"] \in Seq(Token)
           /\ Walk(Fresh, emitted["err"]).line = diagnostic
           /\ Walk(Fresh, emitted["err"]).lines = logged
<1>1. pipe["err"] = <<>>
  BY Drained DEF RunInv, Joined
<1>2. PICK r \in Seq(Token) :
         /\ r \o pipe["err"] = emitted["err"]
         /\ Walk(Fresh, r) = [line |-> diagnostic, lines |-> logged]
  BY DEF LinesInv, ErrStream, InHandlers, InMacro
<1>3. r = emitted["err"]
  BY <1>1, <1>2, EmptyOutput
<1>4. PICK w : w = Walk(Fresh, emitted["err"])
  OBVIOUS
<1>5. w = [line |-> diagnostic, lines |-> logged]
  BY <1>2, <1>3, <1>4
<1>6. w.line = diagnostic /\ w.lines = logged
  BY <1>5
<1> QED
  BY <1>3, <1>4, <1>6

\* Every complete line of stderr reaches the handler once and in order, wherever read()
\* has cut the text; with fast preprocessing the included files are the missing headers
\* among them.
THEOREM LinesArrive == Spec => []DiagnosticsComplete
<1>1. RunInv /\ LinesInv => DiagnosticsComplete
  <2> SUFFICES ASSUME RunInv, LinesInv, main \in {"cleanup", "returned"}
               PROVE  /\ logged = Lines(emitted["err"])
                      /\ fast => included_files = FoldLeft(Noted, <<>>, Lines(emitted["err"]))
    BY DEF DiagnosticsComplete
  <2>1. Lines(emitted["err"]) = Walk(Fresh, emitted["err"]).lines
    BY DEF Lines, Walk, Fresh
  <2>2. logged = Lines(emitted["err"])
    BY <2>1, AllConsumed
  <2>3. fast => included_files = Found(<<>>, logged)
    BY DEF LinesInv, ErrUsed
  <2> QED
    BY <2>2, <2>3 DEF Found
<1> QED
  BY <1>1, RunInvariant, LinesInvariant, PTL

\* DEBUG_ASSERT(diagnostic.empty()) holds in both functions if the command has written
\* everything it had to: no part of a line is left over.
THEOREM NoLineLeft == Spec => []DiagnosticEmpty
<1>1. RunInv /\ LinesInv => DiagnosticEmpty
  <2> SUFFICES ASSUME RunInv, LinesInv, main \in {"macro check", "check"}, todo["err"] = <<>>
               PROVE  diagnostic = <<>>
    BY DEF DiagnosticEmpty
  <2>1. PICK e \in Seq(Token) : e = emitted["err"] /\ Walk(Fresh, e).line = diagnostic
    BY AllConsumed
  <2>2. e \o <<>> = e
    BY ConcatEmptySeq
  <2>3. e # <<>> => Last(e) = NewLine
    BY <2>1, <2>2 DEF LinesInv, ErrEnds, InHandlers, InMacro
  <2>4. Fresh \in LineState
    BY EmptySeq DEF Fresh, LineState
  <2>5. Walk(Fresh, e).line = <<>>
    <3>1. CASE e = <<>>
      <4>1. Walk(Fresh, e) = Fresh
        BY <3>1, WalkFacts
      <4>2. Fresh.line = <<>>
        BY DEF Fresh
      <4> QED
        BY <4>1, <4>2
    <3>2. CASE e # <<>>
      BY <2>3, <2>4, <3>2, WalkShape
    <3> QED
      BY <3>1, <3>2
  <2> QED
    BY <2>1, <2>5
<1> QED
  BY <1>1, RunInvariant, LinesInvariant, PTL

\* clang_preprocess returns only if the command exited with 0, or, with fast
\* preprocessing, after it has printed a diagnostic that accounts for its exit code.
THEOREM FailuresReported == Spec => []FailureReported
<1>1. RunInv /\ LinesInv => FailureReported
  <2> SUFFICES ASSUME RunInv, LinesInv, main = "returned"
               PROVE  success \/ (fast /\ Lines(emitted["err"]) # <<>>)
    BY DEF FailureReported
  <2>1. success \/ expect_bad_exit_code
    BY DEF LinesInv, Decided
  <2>2. expect_bad_exit_code => fast /\ logged # <<>>
    BY DEF LinesInv, ErrUsed
  <2>3. logged = Walk(Fresh, emitted["err"]).lines
    BY AllConsumed
  <2>4. Lines(emitted["err"]) = Walk(Fresh, emitted["err"]).lines
    BY DEF Lines, Walk, Fresh
  <2> QED
    BY <2>1, <2>2, <2>3, <2>4
<1> QED
  BY <1>1, RunInvariant, LinesInvariant, PTL
=============================================================================
