----------------------------- MODULE ClangOutput -----------------------------
(***************************************************************************)
(* What "clang -E -dD -CC -Xclang -dI" prints for a source file, as far as *)
(* detail::preprocess depends on it.                                       *)
(*                                                                         *)
(* A source file is a sequence of parts, each of one or more lines.  The   *)
(* output is a sequence of lexemes: the strings the preprocessor looks     *)
(* for, and "text" for everything else.  The value of a lexeme is what a   *)
(* reader of the file knows about it: the line an entity begins and ends   *)
(* in, the line a comment begins in, a name, a linemarker.                 *)
(***************************************************************************)
EXTENDS Naturals, Sequences, SequencesExt

Lexeme(tok, val) == [tok |-> tok, val |-> val]
NewLine == Lexeme("nl", 0)
Text == Lexeme("text", 0)
Entity(first, last) == Lexeme("entity", <<first, last>>)
Marker(line, file, flag) == Lexeme("marker", [line |-> line, file |-> file, flag |-> flag])

\* Header "a" has content of every kind and includes "b", which may be included only
\* once; its entity is in line 0 to tell it from those of the file.
HeaderLexemes(h, enterB) ==
    IF h = "b" THEN <<Lexeme("pragma", 0), NewLine>>
    ELSE <<Lexeme("///", 0), NewLine, Lexeme("define", "M"), NewLine,
           Lexeme("include", "b"), NewLine>>
         \o (IF enterB
             THEN <<Marker(3, "a", "line_directive"), Marker(1, "b", "enter_new"),
                    Lexeme("pragma", 0), NewLine, Marker(4, "a", "enter_old")>>
             ELSE <<>>)
         \o <<Lexeme("undef", "N"), NewLine,
              Lexeme("/*", 0), NewLine, Lexeme("*/", 0),
              Entity(0, 0), Lexeme("quote", 0), Lexeme("//", 0), Lexeme("quote", 0), NewLine,
              Lexeme("//", 0), NewLine>>

\* The parts a file is put together from.
Part ==
    {"blank",           \* an empty line
     "gap",             \* so many of them that clang prints a marker instead
     "decl",            \* an entity
     "decl //<",        \* an entity and an end of line comment
     "decl/2 //<",      \* an entity of two lines, with the comment at its end
     "strings",         \* an entity with literals that look like comments
     "///",             \* a C++ style doc comment
     "/**/2",           \* a C style doc comment of two lines
     "/*/2 decl",       \* an ordinary comment of two lines, and an entity behind it
     "// decl",         \* an ordinary comment
     "define M", "define N", "undef M",
     "pragma",
     "include a", "include b"}

Height(part) ==
    IF part = "gap" THEN 9
    ELSE IF part \in {"decl/2 //<", "/**/2", "/*/2 decl"} THEN 2 ELSE 1

\* The line in which part i of a file begins.
FirstLine(file, i) == FoldLeft(LAMBDA n, part : n + Height(part), 1, SubSeq(file, 1, i - 1))

\* Header "b" has been entered before part i.
SeenB(file, i) == \E j \in 1 .. i - 1 : file[j] \in {"include a", "include b"}

\* With fast preprocessing no header is found, hence none is entered.
IncludeLexemes(h, line, entered, enterB) ==
    <<Lexeme("include", h), NewLine>> \o
    IF ~entered THEN <<>>
    ELSE <<Marker(line, "main", "line_directive"), Marker(1, h, "enter_new")>>
         \o HeaderLexemes(h, enterB) \o <<Marker(line + 1, "main", "enter_old")>>

PartLexemes(file, fast, i) ==
    LET part == file[i]
        n == FirstLine(file, i) IN
    CASE part = "blank" -> <<NewLine>>
      [] part = "gap" -> <<Marker(n + 9, "main", "line_directive")>>
      [] part = "decl" -> <<Entity(n, n), NewLine>>
      [] part = "decl //<" -> <<Entity(n, n), Lexeme("//<", n), NewLine>>
      [] part = "decl/2 //<" -> <<Entity(n, n + 1), NewLine, Text, Lexeme("//<", n + 1), NewLine>>
      [] part = "strings" ->
            <<Entity(n, n), Lexeme("quote", 0), Lexeme("/**", 0), Lexeme("tick", 0),
              Lexeme("esc", 0), Lexeme("quote", 0), Lexeme("digit", 0), Lexeme("tick", 0),
              Text, Lexeme("tick", 0), Lexeme("quote", 0), Lexeme("tick", 0), NewLine>>
      [] part = "///" -> <<Lexeme("///", n), NewLine>>
      [] part = "/**/2" -> <<Lexeme("/**", n), NewLine, Lexeme("*/", 0), NewLine>>
      [] part = "/*/2 decl" ->
            <<Lexeme("/*", 0), NewLine, Lexeme("tick", 0), Lexeme("*/", 0), Entity(n + 1, n + 1), NewLine>>
      [] part = "// decl" -> <<Lexeme("//", 0), Lexeme("quote", 0), Text, NewLine>>
      [] part = "define M" -> <<Lexeme("define", "M"), NewLine>>
      [] part = "define N" -> <<Lexeme("define", "N"), NewLine>>
      [] part = "undef M" -> <<Lexeme("undef", "M"), NewLine>>
      [] part = "pragma" -> <<Lexeme("pragma", 0), NewLine>>
      [] part = "include a" -> IncludeLexemes("a", n, ~fast, ~SeenB(file, i))
      [] part = "include b" -> IncludeLexemes("b", n, ~fast /\ ~SeenB(file, i), TRUE)

\* Everything in front of the file: builtin macros and, with fast preprocessing, the
\* macro file.
Preamble ==
    <<Marker(1, "main", "line_directive"), Marker(1, "<built-in>", "enter_new"),
      Lexeme("define", "M"), NewLine, Marker(1, "<built-in>", "enter_old"),
      Marker(1, "main", "enter_old")>>

ClangOutput(file, fast) ==
    Preamble \o FlattenSeq([i \in DOMAIN file |-> PartLexemes(file, fast, i)])
=============================================================================
