----------------------------- MODULE SourceText ------------------------------
(***************************************************************************)
(* From the output of clang -E to a parsed file: detail::preprocess of     *)
(* preprocessor.cpp strips comments, linemarkers and the content of        *)
(* headers from the text, and keeps what it learns on the way (macros,     *)
(* includes, documentation comments, each with its line); then             *)
(* libclang_parser::do_parse puts these back together with the entities    *)
(* that libclang finds in the stripped text.  All of it is matched by      *)
(* nothing but line numbers.                                               *)
(*                                                                         *)
(* The loop of preprocess takes one lexeme or one directive in each        *)
(* iteration, in the order of its if-chain; the text inside of comments    *)
(* and macros is left out, except for line ends.                           *)
(***************************************************************************)
EXTENDS ClangOutput, FiniteSets

CONSTANT Files  \* the source files

ASSUME FilesAssumption == Files \subseteq Seq(Part)

VARIABLES
    file,       \* the source file, as parts
    fast,       \* fast_preprocessing of the configuration
    phase,      \* "preprocess", "includes", "entities" or "done"
    rest,       \* what is behind p.ptr()
    previous,   \* p.ptr()[-1]
    source,     \* output.source
    cur_line,
    write_disabled_count,
    in_string,
    in_char,
    first_line,
    indirect_includes,
    includes,   \* output.includes
    macros,     \* output.macros
    comments,   \* output.comments
    cur,        \* comment_context::cur_
    macro_iter,
    include_iter,
    children    \* of the cpp_file

positionVars == <<rest, previous, source, cur_line, write_disabled_count>>
flagVars == <<in_string, in_char, first_line>>
outputVars == <<indirect_includes, includes, macros, comments>>
parseVars == <<cur, macro_iter, include_iter, children>>
vars == <<file, fast, phase, positionVars, flagVars, outputVars, parseVars>>

None == "none"

----------------------------------------------------------------------------
(* class position *)

write_enabled == write_disabled_count = 0
was_newl == source = <<>> \/ Last(source).tok = "nl"

Next1 == Head(rest).tok
StartsWith(toks) == rest # <<>> /\ Next1 \in toks

\* Lexemes up to the next one of the given kind.
Until(tok) == CHOOSE n \in 0 .. Len(rest) - 1 :
                 rest[n + 1].tok = tok /\ \A i \in 1 .. n : rest[i].tok # tok

LineEnds(lexemes) == SelectSeq(lexemes, LAMBDA l : l.tok = "nl")

\* Go on by n lexemes; what is written of them is another matter.
Advance(n) ==
    /\ rest' = SubSeq(rest, n + 1, Len(rest))
    /\ previous' = rest[n].tok

\* result_->push_back(), if writing is enabled, with the lines counted.
Written(lexemes) ==
    IF write_enabled
    THEN /\ source' = source \o lexemes
         /\ cur_line' = cur_line + Len(LineEnds(lexemes))
    ELSE UNCHANGED <<source, cur_line>>

Bump(n) == Advance(n) /\ Written(SubSeq(rest, 1, n)) /\ UNCHANGED write_disabled_count

\* Neither written nor counted.
Skip(n) == Advance(n) /\ UNCHANGED <<source, cur_line, write_disabled_count>>

\* A seeded fault: a skipped comment takes its line ends with it.
SkipWithLineCountForgetting(n) == Skip(n)

\* Nothing is written but the line ends.
SkipWithLineCount(n) ==
    /\ Advance(n)
    /\ Written(LineEnds(SubSeq(rest, 1, n)))
    /\ UNCHANGED write_disabled_count

Iteration == phase = "preprocess" /\ rest # <<>>
SameParse == UNCHANGED <<file, fast, phase, parseVars>>

----------------------------------------------------------------------------
(* Text: literals and everything else. *)

InLiteral == in_string \/ in_char

Escape ==
    /\ Iteration /\ Next1 = "esc"
    /\ Bump(1)
    /\ SameParse /\ UNCHANGED <<flagVars, outputVars>>

Quote ==
    /\ Iteration /\ Next1 = "quote" /\ ~in_char
    /\ Bump(1)
    /\ in_string' = ~in_string
    /\ SameParse /\ UNCHANGED <<in_char, first_line, outputVars>>

Tick ==
    /\ Iteration /\ Next1 = "tick" /\ ~in_string
    /\ in_char' = IF ~in_char /\ previous = "digit" THEN in_char ELSE ~in_char
    /\ Bump(1)
    /\ SameParse /\ UNCHANGED <<in_string, first_line, outputVars>>

\* Ordinary text, and all text of a literal that does not end it.
Plain ==
    /\ Iteration
    /\ \/ InLiteral /\ Next1 # "esc" /\ ~(Next1 = "quote" /\ ~in_char) /\ ~(Next1 = "tick" /\ ~in_string)
       \/ ~InLiteral /\ Next1 \in {"text", "entity", "digit", "nl"}
    /\ Bump(1)
    /\ SameParse /\ UNCHANGED <<flagVars, outputVars>>

----------------------------------------------------------------------------
(* Documentation comments. *)

\* A comment is known by the lines it begins in; more than one after a merge.
Comment(kind, from, line) == [kind |-> kind, from |-> from, line |-> line]
Empty(comment) == comment.from = {}

Matches(comment, line) ==
    IF comment.kind = "end_of_line" THEN comment.line = line ELSE comment.line + 1 = line

can_merge_comment(comment, line) ==
    comment.line + 1 = line /\ comment.kind \in {"cpp", "end_of_line"}

\* A seeded fault: a merged comment keeps its line.
MergedKeepingLine(comment) ==
    LET back == Last(comments) IN
    IF comments # <<>> /\ can_merge_comment(back, comment.line)
    THEN Append(Front(comments), Comment(back.kind, back.from \cup comment.from, back.line))
    ELSE Append(comments, comment)

\* merge_or_add
Merged(comment) ==
    LET back == Last(comments) IN
    IF comments # <<>> /\ can_merge_comment(back, comment.line)
    THEN Append(Front(comments),
                Comment(back.kind, back.from \cup comment.from,
                        IF back.kind = "end_of_line" THEN back.line ELSE comment.line))
    ELSE Append(comments, comment)

\* skip_c_comment: the line of a doc comment is the one it ends in.
CComment ==
    /\ Iteration /\ ~InLiteral /\ Next1 \in {"/*", "/**"}
    /\ LET n == Until("*/") IN
       /\ SkipWithLineCount(n + 1)
       /\ comments' = IF Next1 = "/**" /\ write_enabled
                      THEN Append(comments, Comment("c", {Head(rest).val}, cur_line'))
                      ELSE comments
    /\ SameParse /\ UNCHANGED <<flagVars, indirect_includes, includes, macros>>

\* skip_cpp_comment: all but the line end.
CppComment ==
    /\ Iteration /\ ~InLiteral /\ Next1 \in {"//", "///", "//<"}
    /\ Skip(Until("nl"))
    /\ comments' = CASE ~write_enabled \/ Next1 = "//" -> comments
                     [] write_enabled /\ Next1 = "///" ->
                            Merged(Comment("cpp", {Head(rest).val}, cur_line))
                     [] write_enabled /\ Next1 = "//<" ->
                            Append(comments, Comment("end_of_line", {Head(rest).val}, cur_line))
    /\ SameParse /\ UNCHANGED <<flagVars, indirect_includes, includes, macros>>

----------------------------------------------------------------------------
(* Directives. *)

AtDirective(tok) == Iteration /\ ~InLiteral /\ was_newl /\ Next1 = tok

\* parse_macro: the definition stays in the text, and takes the comment above it.  In a
\* header it is only skipped, together with the lexeme behind it.
Macro ==
    /\ AtDirective("define")
    /\ IF ~write_enabled
       THEN Bump(2) /\ UNCHANGED <<macros, comments>>
       ELSE LET matched == comments # <<>> /\ Matches(Last(comments), cur_line) IN
            /\ Bump(1)
            /\ macros' = Append(macros,
                                [name |-> Head(rest).val, line |-> cur_line,
                                 comment |-> IF matched THEN Last(comments).from ELSE {}])
            /\ comments' = IF matched THEN Front(comments) ELSE comments
    /\ SameParse /\ UNCHANGED <<flagVars, indirect_includes, includes>>

\* A seeded fault: an #undef in a header removes a macro of the file.
UndefAnywhere ==
    /\ Iteration /\ ~InLiteral /\ Next1 = "undef"
    /\ Bump(1)
    /\ macros' = SelectSeq(macros, LAMBDA m : m.name # Head(rest).val)
    /\ SameParse /\ UNCHANGED <<flagVars, indirect_includes, includes, comments>>

\* parse_undef
Undef ==
    /\ Iteration /\ ~InLiteral /\ Next1 = "undef"
    /\ Bump(1)
    /\ macros' = IF write_enabled THEN SelectSeq(macros, LAMBDA m : m.name # Head(rest).val)
                 ELSE macros
    /\ SameParse /\ UNCHANGED <<flagVars, indirect_includes, includes, comments>>

\* parse_include
Include ==
    /\ AtDirective("include")
    /\ IF write_enabled
       THEN /\ Bump(1)
            /\ includes' = Append(includes,
                                  [file_name |-> Head(rest).val, full_path |-> None, line |-> cur_line])
       ELSE Bump(2) /\ UNCHANGED includes
    /\ SameParse /\ UNCHANGED <<flagVars, indirect_includes, macros, comments>>

\* bump_pragma
Pragma ==
    /\ AtDirective("pragma")
    /\ Bump(1)
    /\ SameParse /\ UNCHANGED <<flagVars, outputVars>>

LineMarker(flag) == AtDirective("marker") /\ Head(rest).val.flag = flag
marker == Head(rest).val

\* A seeded fault: the path of any header is taken for that of the last include.
EnterNewAnywhere ==
    /\ LineMarker("enter_new")
    /\ Advance(1)
    /\ write_disabled_count' = write_disabled_count + 1
    /\ includes' = IF includes = <<>> THEN includes
                   ELSE [includes EXCEPT ![Len(includes)].full_path = marker.file]
    /\ SameParse /\ UNCHANGED <<source, cur_line, flagVars, indirect_includes, macros, comments>>

\* A header begins.  If it is the file that includes it, this is the full path of the
\* last include; otherwise the path may be needed later.
EnterNew ==
    /\ LineMarker("enter_new")
    /\ Advance(1)
    /\ write_disabled_count' = write_disabled_count + 1
    /\ IF write_enabled
       THEN /\ includes' = IF includes = <<>> THEN includes
                           ELSE [includes EXCEPT ![Len(includes)].full_path = marker.file]
            /\ UNCHANGED indirect_includes
       ELSE /\ indirect_includes' = indirect_includes \cup {marker.file}
            /\ UNCHANGED includes
    /\ SameParse /\ UNCHANGED <<source, cur_line, flagVars, macros, comments>>

\* The end of a header: enable_write() and set_line().
EnterOld ==
    /\ LineMarker("enter_old")
    /\ Advance(1)
    /\ write_disabled_count' = write_disabled_count - 1
    /\ IF write_disabled_count = 1 /\ cur_line # marker.line
       THEN /\ source' = source \o <<Lexeme("line", marker.line), NewLine>>
            /\ cur_line' = marker.line
       ELSE UNCHANGED <<source, cur_line>>
    /\ SameParse /\ UNCHANGED <<flagVars, outputVars>>

\* The first marker: everything up to the point where the file begins again is skipped.
FirstMarker ==
    /\ LineMarker("line_directive") /\ write_enabled
    /\ first_line /\ marker.file = "main" /\ marker.line = 1
    /\ Skip(CHOOSE n \in 1 .. Len(rest) :
                /\ rest[n] = Marker(1, "main", "enter_old")
                /\ \A i \in 1 .. n - 1 : rest[i] # Marker(1, "main", "enter_old"))
    /\ first_line' = FALSE
    /\ SameParse /\ UNCHANGED <<in_string, in_char, outputVars>>

\* A marker in a header, the one behind an include, or one that stands for empty lines.
LineDirective ==
    /\ LineMarker("line_directive")
    /\ ~(write_enabled /\ first_line /\ marker.file = "main" /\ marker.line = 1)
    /\ Advance(1)
    /\ IF marker.line + 1 = cur_line THEN UNCHANGED <<source, cur_line>>
       ELSE Written([i \in 1 .. (IF marker.line > cur_line THEN marker.line - cur_line ELSE 0) |-> NewLine])
    /\ first_line' = (first_line /\ ~write_enabled)
    /\ SameParse /\ UNCHANGED <<write_disabled_count, in_string, in_char, outputVars>>

\* The end of the text.  Without fast preprocessing the path of an include whose header
\* was not entered is known if another header included it.
FinishPreprocess ==
    /\ phase = "preprocess" /\ rest = <<>>
    /\ includes' = [i \in DOMAIN includes |->
                       LET include == includes[i] IN
                       IF ~fast /\ include.full_path = None /\ include.file_name \in indirect_includes
                       THEN [include EXCEPT !.full_path = include.file_name]
                       ELSE include]
    /\ phase' = "includes"
    /\ UNCHANGED <<file, fast, positionVars, flagVars, indirect_includes, macros, comments, parseVars>>

PreprocessStep ==
    \/ Escape \/ Quote \/ Tick \/ Plain
    \/ CComment \/ CppComment
    \/ Macro \/ Undef \/ Include \/ Pragma
    \/ EnterNew \/ EnterOld \/ FirstMarker \/ LineDirective
    \/ FinishPreprocess

----------------------------------------------------------------------------
(* libclang, on the stripped text: the presumed line of every lexeme. *)

Presumed ==
    FoldLeft(LAMBDA state, l :
                IF l.tok = "line" THEN [state EXCEPT !.line = l.val - 1]
                ELSE IF l.tok = "nl" THEN [state EXCEPT !.line = @ + 1]
                ELSE IF l.tok = "entity"
                THEN [state EXCEPT !.found = Append(@, [entity |-> l.val, line |-> state.line])]
                ELSE IF l.tok = "include"
                THEN [state EXCEPT !.included = Append(@, state.line)]
                ELSE state,
             [line |-> 0, found |-> <<>>, included |-> <<>>], source)

\* The entities libclang reports, with the lines it gives them.
Cursors == Presumed.found

----------------------------------------------------------------------------
(* do_parse *)

\* comment_context::match: the comment of an entity in this line, and cur_ after it.
MatchAt(line) ==
    LET n == Len(comments) + 1 IN
    CHOOSE i \in cur .. n :
        /\ i = n \/ comments[i].line + 1 >= line
        /\ \A j \in cur .. i - 1 : comments[j].line + 1 < line

\* A seeded fault: the comment is copied, not moved.
MatchedCopying(line) ==
    LET i == MatchAt(line) IN
    IF i <= Len(comments) /\ Matches(comments[i], line)
    THEN [comment |-> comments[i].from, taken |-> comments, cur |-> i + 1]
    ELSE [comment |-> {}, taken |-> comments, cur |-> i]

Matched(line) ==
    LET i == MatchAt(line) IN
    IF i <= Len(comments) /\ Matches(comments[i], line)
    THEN [comment |-> comments[i].from, taken |-> [comments EXCEPT ![i].from = {}], cur |-> i + 1]
    ELSE [comment |-> {}, taken |-> comments, cur |-> i]

Child(kind, line, comment) == [kind |-> kind, line |-> line, comment |-> comment]

\* The cursor of an inclusion directive; these come first, so that cur_ is set back.
VisitInclude ==
    /\ phase = "includes"
    /\ include_iter <= Len(Presumed.included)
    /\ LET include == includes[include_iter]
           match == Matched(include.line) IN
       /\ children' = Append(children, Child("include", include.line, match.comment))
       /\ comments' = match.taken
    /\ include_iter' = include_iter + 1
    /\ UNCHANGED <<file, fast, phase, positionVars, flagVars, indirect_includes, includes, macros,
                   cur, macro_iter>>

VisitedIncludes ==
    /\ phase = "includes"
    /\ include_iter > Len(Presumed.included)
    /\ phase' = "entities"
    /\ UNCHANGED <<file, fast, positionVars, flagVars, outputVars, parseVars>>

MacroChildren(from, to) ==
    [i \in 1 .. to - from |-> Child("macro", macros[from + i - 1].line, macros[from + i - 1].comment)]

Visited == Len(SelectSeq(children, LAMBDA c : c.kind = "entity"))

\* Another entity: first the macros above it, then the entity with its comment.
VisitEntity ==
    /\ phase = "entities"
    /\ Visited < Len(Cursors)
    /\ LET cursor == Cursors[Visited + 1]
           above == CHOOSE i \in macro_iter .. Len(macros) + 1 :
                       /\ i = Len(macros) + 1 \/ macros[i].line > cursor.line
                       /\ \A j \in macro_iter .. i - 1 : macros[j].line <= cursor.line
           match == Matched(cursor.line) IN
       /\ macro_iter' = above
       /\ children' = children \o MacroChildren(macro_iter, above)
                               \o <<Child("entity", cursor.entity[1], match.comment)>>
       /\ comments' = match.taken
       /\ cur' = match.cur
    /\ UNCHANGED <<file, fast, phase, positionVars, flagVars, indirect_includes, includes, macros,
                   include_iter>>

\* The remaining macros; what is left of the comments is unmatched.
FinishParse ==
    /\ phase = "entities"
    /\ Visited = Len(Cursors)
    /\ children' = children \o MacroChildren(macro_iter, Len(macros) + 1)
    /\ macro_iter' = Len(macros) + 1
    /\ comments' = SelectSeq(comments, LAMBDA c : ~Empty(c))
    /\ phase' = "done"
    /\ UNCHANGED <<file, fast, positionVars, flagVars, indirect_includes, includes, macros, cur,
                   include_iter>>

ParseStep == VisitInclude \/ VisitedIncludes \/ VisitEntity \/ FinishParse

----------------------------------------------------------------------------
Init ==
    /\ file \in Files
    /\ fast \in BOOLEAN
    /\ phase = "preprocess"
    /\ rest = ClangOutput(file, fast)
    /\ previous = None
    /\ source = <<Lexeme("pragma", 0), NewLine, Lexeme("line", 1), NewLine>>
    /\ cur_line = 1
    /\ write_disabled_count = 0
    /\ in_string = FALSE /\ in_char = FALSE /\ first_line = TRUE
    /\ indirect_includes = {}
    /\ includes = <<>> /\ macros = <<>> /\ comments = <<>>
    /\ cur = 1 /\ macro_iter = 1 /\ include_iter = 1
    /\ children = <<>>

Next == PreprocessStep \/ ParseStep

Spec == Init /\ [][Next]_vars

----------------------------------------------------------------------------
(* Correctness, against the file itself. *)

Parts(kinds) == {i \in DOMAIN file : file[i] \in kinds}
LastLine(i) == FirstLine(file, i) + Height(file[i]) - 1

\* Where the entities of the file begin and end.
EntityParts == {"decl", "decl //<", "decl/2 //<", "strings", "/*/2 decl"}
BeginLine(i) == IF file[i] = "/*/2 decl" THEN LastLine(i) ELSE FirstLine(file, i)

\* The stripped text has exactly the entities of the file, each in the line it is
\* written in: line ends of comments, gaps and headers are all accounted for, and no
\* literal is taken for a comment (preprocess, position).
LinesPreserved ==
    phase = "includes" =>
        /\ \A i \in DOMAIN Cursors : Cursors[i].line = Cursors[i].entity[1]
        /\ {Cursors[i].entity : i \in DOMAIN Cursors} =
              {<<BeginLine(i), LastLine(i)>> : i \in Parts(EntityParts)}

\* The documentation comments, by the line they begin in.
EndOfLineComments == {LastLine(i) : i \in Parts({"decl //<", "decl/2 //<"})}
CppComments == {FirstLine(file, i) : i \in Parts({"///"})}
CComments == {FirstLine(file, i) : i \in Parts({"/**/2"})}
DocComments == EndOfLineComments \cup CppComments \cup CComments

\* All lines of C++ and C style comments.
CommentLines == CppComments \cup CComments \cup {n + 1 : n \in CComments}

\* A comment above a macro that is undefined later goes with the macro.
GoneWithMacro(n) ==
    \E i \in Parts({"define M"}) :
        /\ \E j \in Parts({"undef M"}) : j > i
        /\ n < FirstLine(file, i)
        /\ n + 1 .. FirstLine(file, i) - 1 \subseteq CommentLines

\* Every documentation comment of the file ends up in one place, with an entity or among
\* the unmatched ones: none is lost, none is there twice, none comes from a header.
CommentsKept ==
    phase = "done" =>
        LET places(n) == {<<"child", i>> : i \in {i \in DOMAIN children : n \in children[i].comment}}
                         \cup {<<"unmatched", i>> : i \in {i \in DOMAIN comments : n \in comments[i].from}}
        IN /\ \A n \in DocComments :
                 Cardinality(places(n)) = 1 \/ (places(n) = {} /\ GoneWithMacro(n))
           /\ \A i \in DOMAIN children : children[i].comment \subseteq DocComments
           /\ \A i \in DOMAIN comments : comments[i].from \subseteq DocComments

\* Lines n of a comment that ends in the line above line l.
Above(from, l) ==
    /\ from \subseteq CppComments \cup CComments
    /\ l - 1 \in from \/ l - 2 \in from \cap CComments
    /\ \A n \in from : n .. l - 1 \subseteq CommentLines

\* An end of line comment in line l, with the C++ style comment of the next line.
Beside(from, l) == l \in from /\ l \in EndOfLineComments /\ from \ {l} \subseteq CppComments \cap {l + 1}

\* End of line comments that nobody got.
Unclaimed == {n \in EndOfLineComments : \A i \in DOMAIN children : n \notin children[i].comment}

\* What cpp_entity.hpp says of matching: a comment belongs to what begins in the line
\* after its last line, and an end of line comment to what is in its line.  Neither the
\* forward-only cursor of comment_context nor the order in which macros, includes and
\* entities are looked at gives an entity the comment of another one, or leaves one
\* without its own; except for end of line comments, see EndOfLineDocuments.
CommentsDocument ==
    phase = "done" =>
        \A i \in DOMAIN children :
            LET c == children[i] IN
            /\ c.comment # {} => Above(c.comment, c.line) \/ Beside(c.comment, c.line)
            /\ c.comment = {} =>
                  /\ c.line - 1 \in CommentLines => c.line - 2 \in EndOfLineComments
                  /\ c.line \in EndOfLineComments => c.line - 1 \in Unclaimed

\* Exactly the includes of the file itself are kept, in order and with their lines.  The
\* path of an include is never that of another header, and known if the header was
\* entered.
IncludesKept ==
    phase = "includes" =>
        LET of == SelectSeq([i \in DOMAIN file |-> i],
                            LAMBDA i : file[i] \in {"include a", "include b"}) IN
        /\ Len(includes) = Len(of)
        /\ \A i \in DOMAIN of :
              LET include == includes[i] IN
              /\ include.line = FirstLine(file, of[i])
              /\ include.file_name = IF file[of[i]] = "include a" THEN "a" ELSE "b"
              /\ include.full_path \in {include.file_name, None}
              /\ (~fast /\ ~SeenB(file, of[i])) => include.full_path = include.file_name
              /\ fast => include.full_path = None

\* The macros of the file are those it defines and does not undefine afterwards, and
\* macros and entities are in the order of the file.
FileInOrder ==
    phase = "done" =>
        LET inOrder == SelectSeq(children, LAMBDA c : c.kind # "include")
            live == {i \in Parts({"define M", "define N"}) :
                        ~ \E j \in Parts({"undef M"}) : j > i /\ file[i] = "define M"}
        IN /\ \A i, j \in DOMAIN inOrder : i < j => inOrder[i].line < inOrder[j].line
           /\ {c.line : c \in {inOrder[i] : i \in {i \in DOMAIN inOrder : inOrder[i].kind = "macro"}}}
                = {FirstLine(file, i) : i \in live}

\* "for an end of line comment, the entity declaration ends on the same line as the end
\* of line comment"
EndOfLineDocuments ==
    phase = "done" =>
        \A i \in Parts({"decl //<", "decl/2 //<"}) :
            \E j \in DOMAIN children :
                children[j].line = BeginLine(i) /\ LastLine(i) \in children[j].comment
=============================================================================
