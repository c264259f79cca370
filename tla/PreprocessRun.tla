---------------------------- MODULE PreprocessRun ----------------------------
(***************************************************************************)
(* One call of clang_preprocess (preprocessor.cpp): the thread that calls  *)
(* it, and the child processes whose output the reader thread of           *)
(* ChildProcess hands to the handlers of the call while it waits.          *)
(*                                                                         *)
(* With fast preprocessing there are two children.  The first one prints   *)
(* all macros of the translation unit, and its output becomes a macro      *)
(* file; the second one preprocesses the file without its includes, with   *)
(* the macro file in front.  Without it there is only the second one.      *)
(*                                                                         *)
(* Whitespace that the handlers rewrite (tabs, carriage returns) is left   *)
(* out; a line of stderr is one token for its text and NewLine.            *)
(***************************************************************************)
EXTENDS ChildProcess, SequencesExt

CONSTANTS
    MacroProgram,       \* what the macro command may do
    PreprocessProgram,  \* what the preprocess command may do
    NewLine,            \* end of a line of stderr
    Missing,            \* "'file' file not found", in the preprocessed file
    Odd,                \* another diagnostic of that file that starts with a quote
    Guard,              \* the line of the macro file that defines the include guard
    UndefGuard,         \* the "#undef" of it, written without a line end
    NoFile              \* the macro file does not exist

ASSUME PreprocessAssumption ==
    /\ MacroProgram \subseteq Program
    /\ PreprocessProgram \subseteq Program
    /\ {NewLine, Missing, Odd, Guard} \subseteq Token
    /\ UndefGuard \notin Token
    /\ NoFile \notin Seq(Token \cup {UndefGuard})

\* clang ends every diagnostic with a line end.
ASSUME CompleteLines ==
    \A p \in MacroProgram \cup PreprocessProgram : p.err # <<>> => Last(p.err) = NewLine

VARIABLES
    main,       \* where the calling thread is
    fast,       \* fast_preprocessing of the configuration
    hasGuard,   \* get_include_guard_macro() finds one
    macro_file, \* the content of the macro file
    text,       \* result.file
    included_files, \* result.included_files
    diagnostic, \* the line of stderr that is not complete yet
    logged,     \* auxiliary: the complete lines the handlers have consumed
    expect_bad_exit_code

inputVars == <<fast, hasGuard>>
resultVars == <<text, included_files, diagnostic, logged, expect_bad_exit_code>>
vars == <<processVars, main, inputVars, macro_file, resultVars>>

\* write_macro_file() is running.
InMacro == main \in {"macro guard", "macro wait", "macro join", "macro check"}

\* clang_preprocess_impl() is running.
InImpl == main \in {"wait", "join", "check"}

Ended == main \in {"returned", "threw", "terminated"}

----------------------------------------------------------------------------
(* The handlers, called by the reader. *)

\* One character of stderr: state is the line so far and the lines consumed.
Consumed(state, token) ==
    IF token = NewLine
    THEN [line |-> <<>>, lines |-> Append(state.lines, state.line)]
    ELSE [state EXCEPT !.line = Append(@, token)]

\* A seeded fault: diagnostic.clear() is forgotten.
DiagnosedUncleared(chunk) ==
    FoldLeft(LAMBDA state, token :
                IF token = NewLine
                THEN [state EXCEPT !.lines = Append(@, state.line)]
                ELSE [state EXCEPT !.line = Append(@, token)],
             [line |-> diagnostic, lines |-> <<>>], chunk)

\* A chunk ends anywhere in a line; the rest of the line comes with a later one.
Diagnosed(chunk) ==
    FoldLeft(Consumed, [line |-> diagnostic, lines |-> <<>>], chunk)

IsMissing(line) == line = <<Missing>>
IsOdd(line) == line = <<Odd>>

\* if (file) result.included_files.push_back(file.value()).
Noted(found, line) == IF IsMissing(line) THEN Append(found, line) ELSE found

\* The stdout handler of write_macro_file, or of clang_preprocess_impl.
HandleOut(chunk) ==
    IF InMacro
    THEN /\ macro_file' = macro_file \o chunk
         /\ UNCHANGED <<main, inputVars, resultVars>>
    ELSE /\ text' = text \o chunk
         /\ UNCHANGED <<main, inputVars, macro_file, included_files, diagnostic, logged,
                        expect_bad_exit_code>>

\* The stderr handlers.  Both log complete lines, but with fast preprocessing that of
\* clang_preprocess_impl looks for missing headers instead; the libclang_error that
\* parse_missing_file throws at an odd line leaves the reader's thread function, and
\* the process is terminated.
HandleErr(chunk) ==
    LET new == Diagnosed(chunk) IN
    /\ diagnostic' = new.line
    /\ logged' = logged \o new.lines
    /\ IF InMacro \/ ~fast
       THEN UNCHANGED <<main, included_files, expect_bad_exit_code>>
       ELSE /\ included_files' = FoldLeft(Noted, included_files, new.lines)
            /\ expect_bad_exit_code' = (expect_bad_exit_code \/ new.lines # <<>>)
            /\ IF \E i \in DOMAIN new.lines : IsOdd(new.lines[i])
               THEN main' = "terminated"
               ELSE UNCHANGED main
    /\ UNCHANGED <<inputVars, macro_file, text>>

ReadOut ==
    /\ ~Ended
    /\ Serve("out")
    /\ HandleOut(Chunk("out"))

ReadErr ==
    /\ ~Ended
    /\ Serve("err")
    /\ HandleErr(Chunk("err"))

ReaderStep ==
    \/ Poll /\ ~Ended /\ UNCHANGED <<main, inputVars, macro_file, resultVars>>
    \/ ReadOut
    \/ ReadErr

----------------------------------------------------------------------------
(* The calling thread. *)

\* The file to preprocess cannot be opened.
RefuseMissingFile ==
    /\ main = "start"
    /\ main' = "threw"
    /\ UNCHANGED <<processVars, inputVars, macro_file, resultVars>>

SkipMacros ==
    /\ main = "start"
    /\ ~fast
    /\ main' = "launch"
    /\ UNCHANGED <<processVars, inputVars, macro_file, resultVars>>

\* write_macro_file: the stream is opened, then the process is started.
StartMacros ==
    /\ main = "start"
    /\ fast
    /\ macro_file' = <<>>
    /\ StartProcessFails \/ \E p \in MacroProgram : StartProcess(p)
    /\ main' = "macro guard"
    /\ UNCHANGED <<inputVars, resultVars>>

\* stream << "#undef " << guard, while the reader may be writing to the same stream.
\* Of the outcomes of this data race the model has those in which the two calls
\* exclude each other.
AppendUndef ==
    /\ main = "macro guard"
    /\ macro_file' = IF hasGuard THEN Append(macro_file, UndefGuard) ELSE macro_file
    /\ main' = "macro wait"
    /\ UNCHANGED <<processVars, inputVars, resultVars>>

\* get_exit_status(): -1 if there is no child, else wait for it.
Wait(here, joining, checking) ==
    /\ main = here
    /\ IF child = "none"
       THEN main' = checking /\ UNCHANGED processVars
       ELSE main' = joining /\ WaitForChild
    /\ UNCHANGED <<inputVars, macro_file, resultVars>>

Join(here, checking) ==
    /\ main = here
    /\ CloseFds
    /\ main' = checking
    /\ UNCHANGED <<inputVars, macro_file, resultVars>>

\* write_macro_file returns, or throws and leaves the macro file behind.
CheckMacros ==
    /\ main = "macro check"
    /\ main' = IF success THEN "launch" ELSE "threw"
    /\ diagnostic' = <<>>
    /\ UNCHANGED <<processVars, inputVars, macro_file, text, included_files, logged,
                   expect_bad_exit_code>>

\* clang_preprocess_impl starts its process.
Launch ==
    /\ main = "launch"
    /\ StartProcessFails \/ \E p \in PreprocessProgram : StartProcess(p)
    /\ logged' = <<>>
    /\ main' = "wait"
    /\ UNCHANGED <<inputVars, macro_file, text, included_files, diagnostic,
                   expect_bad_exit_code>>

\* A seeded fault: an exit code is taken for expected whenever the mode is fast.
CheckLenient ==
    /\ main = "check"
    /\ main' = IF ~success /\ ~fast THEN "cleanup and throw" ELSE "cleanup"
    /\ UNCHANGED <<processVars, inputVars, macro_file, resultVars>>

Check ==
    /\ main = "check"
    /\ main' = IF ~success /\ ~expect_bad_exit_code THEN "cleanup and throw" ELSE "cleanup"
    /\ UNCHANGED <<processVars, inputVars, macro_file, resultVars>>

\* A seeded fault: nothing is removed on the way of the exception.
CleanupOnSuccess ==
    /\ main \in {"cleanup", "cleanup and throw"}
    /\ macro_file' = IF main = "cleanup" THEN NoFile ELSE macro_file
    /\ main' = IF main = "cleanup" THEN "returned" ELSE "threw"
    /\ UNCHANGED <<processVars, inputVars, resultVars>>

\* std::remove of the macro file, in the handler of the exception or after the try.
Cleanup ==
    /\ main \in {"cleanup", "cleanup and throw"}
    /\ macro_file' = IF fast THEN NoFile ELSE macro_file
    /\ main' = IF main = "cleanup" THEN "returned" ELSE "threw"
    /\ UNCHANGED <<processVars, inputVars, resultVars>>

MainStep ==
    \/ RefuseMissingFile
    \/ SkipMacros
    \/ StartMacros
    \/ AppendUndef
    \/ Wait("macro wait", "macro join", "macro check")
    \/ Join("macro join", "macro check")
    \/ CheckMacros
    \/ Launch
    \/ Wait("wait", "join", "check")
    \/ Join("join", "check")
    \/ Check
    \/ Cleanup

----------------------------------------------------------------------------
OutsideStep(Step) == Step /\ ~Ended /\ UNCHANGED <<main, inputVars, macro_file, resultVars>>

Init ==
    /\ ProcessInit
    /\ main = "start"
    /\ fast \in BOOLEAN
    /\ hasGuard \in BOOLEAN
    /\ macro_file = NoFile
    /\ text = <<>>
    /\ included_files = <<>>
    /\ diagnostic = <<>>
    /\ logged = <<>>
    /\ expect_bad_exit_code = FALSE

Next ==
    \/ MainStep
    \/ ReaderStep
    \/ OutsideStep(ChildStep)
    \/ OutsideStep(Die)

\* The threads of the process are scheduled, and so is the command; that the command
\* ends by itself is an assumption on the compiler.  Nobody has to kill it.
Fairness ==
    /\ WF_vars(MainStep)
    /\ WF_vars(ReaderStep)
    /\ WF_vars(OutsideStep(ChildStep))

Spec == Init /\ [][Next]_vars /\ Fairness

----------------------------------------------------------------------------
(* Correctness *)

Main == {"start", "macro guard", "macro wait", "macro join", "macro check", "launch",
         "wait", "join", "check", "cleanup", "cleanup and throw",
         "returned", "threw", "terminated"}

TypeOK ==
    /\ ProcessTypeOK
    /\ main \in Main
    /\ fast \in BOOLEAN /\ hasGuard \in BOOLEAN
    /\ macro_file \in Seq(Token \cup {UndefGuard}) \cup {NoFile}
    /\ text \in Seq(Token)
    /\ included_files \in Seq(Seq(Token))
    /\ diagnostic \in Seq(Token)
    /\ logged \in Seq(Seq(Token))
    /\ expect_bad_exit_code \in BOOLEAN

\* The lines of a text that are complete.
Lines(output) ==
    FoldLeft(Consumed, [line |-> <<>>, lines |-> <<>>], output).lines

\* What the reader hands to the stdout handlers, with or without the #undef somewhere.
HoldsOutput(content, output) ==
    \/ content = output
    \/ \E k \in 0 .. Len(output) :
          content = SubSeq(output, 1, k) \o <<UndefGuard>> \o SubSeq(output, k + 1, Len(output))

\* When a child has been waited for, everything it wrote to stdout has reached the
\* handler, in order and once, however it was cut into chunks and whether the child
\* ended before, while or after it was read.
OutputComplete ==
    /\ (main = "launch" /\ fast) => HoldsOutput(macro_file, emitted["out"])
    /\ main \in {"cleanup", "returned"} => text = emitted["out"]

\* The same of the lines of stderr, each of which is logged or searched for a missing
\* header exactly once.
DiagnosticsComplete ==
    main \in {"cleanup", "returned"} =>
        /\ logged = Lines(emitted["err"])
        /\ fast => included_files = FoldLeft(Noted, <<>>, Lines(emitted["err"]))

\* DEBUG_ASSERT(diagnostic.empty()), in both functions: no diagnostic is left over,
\* unless the child itself did not finish its last line.
DiagnosticEmpty ==
    (main \in {"macro check", "check"} /\ todo["err"] = <<>>) => diagnostic = <<>>

\* A failed command never passes for a good one: clang_preprocess returns only if it
\* exited with 0 or, with fast preprocessing, after it printed a diagnostic.
FailureReported ==
    main = "returned" => success \/ (fast /\ Lines(emitted["err"]) # <<>>)

\* A macro file that write_macro_file has delivered is removed, on every path out of
\* the call.  (If write_macro_file itself throws, the file stays.)
MacroFileRemoved ==
    (main = "launch" /\ fast) ~> (macro_file = NoFile \/ main = "terminated")

\* The handlers refer to locals of the function that started the process: the reader
\* runs only while that function does.
HandlersInScope ==
    reader \in {"poll", "out", "err"} => InMacro \/ InImpl \/ main = "terminated"

\* The call ends: no interleaving of a child that blocks on a full pipe, a reader that
\* blocks in poll and a caller that blocks in waitpid or join is a deadlock.
CallEnds == <>Ended

\* "undefine include guard": the preprocessed file does not see its own guard defined.
\* A definition appended behind the unterminated #undef line is part of that line.
Defines(content, i) ==
    content[i] = Guard /\ (i > 1 => content[i - 1] # UndefGuard)

GuardUndefined ==
    (main = "launch" /\ fast /\ hasGuard) =>
        \A i \in DOMAIN macro_file :
            Defines(macro_file, i) =>
                \E j \in DOMAIN macro_file : j > i /\ macro_file[j] = UndefGuard

\* A fatal error is an exception that the caller of the parser can catch.
ErrorsAreExceptions == main # "terminated"
=============================================================================
