---------------------------- MODULE TokenStream ----------------------------
(***************************************************************************)
(* The tokens of a declaration and the helpers every parser of cppast reads *)
(* them with: src/src/libclang/cxtokenizer.cpp.  A stream is a sequence ts  *)
(* and a position i in 1 .. Len(ts) + 1; a helper that moves the stream     *)
(* returns the new position, and Error where the code throws parse_error.   *)
(* A token is its spelling, a string that is never taken apart.             *)
(***************************************************************************)
EXTENDS Integers, Sequences

CONSTANTS Identifiers, Keywords, Literals

ASSUME TokensAssumption ==
  /\ Identifiers \cap Keywords = {}
  /\ Identifiers \cap Literals = {}
  /\ Keywords \cap Literals = {}

Error == 0

Kind(t) ==
  IF t \in Identifiers THEN "identifier"
  ELSE IF t \in Keywords THEN "keyword"
  ELSE IF t \in Literals THEN "literal" ELSE "punctuation"

Done(ts, i) == i > Len(ts)

\* peek() of an exhausted stream is its last token
Peek(ts, i) == IF Done(ts, i) THEN ts[Len(ts)] ELSE ts[i]

Bump(ts, i) == IF Done(ts, i) THEN i ELSE i + 1

At(ts, i, t) == i \in DOMAIN ts /\ ts[i] = t

SkipIf(ts, i, t) == IF At(ts, i, t) THEN i + 1 ELSE i

\* skip() and the assertion in it
Skip(ts, i, t) == IF At(ts, i, t) THEN i + 1 ELSE Error

\* skip_if() of a name that has several tokens
AtAll(ts, i, name) ==
  /\ i + Len(name) <= Len(ts) + 1
  /\ \A k \in 1 .. Len(name) : ts[i + k - 1] = name[k]

-----------------------------------------------------------------------------
Opening == {"(", "{", "[", "<"}

Closing == [b \in Opening |->
  CASE b = "(" -> ")" [] b = "{" -> "}" [] b = "[" -> "]" [] b = "<" -> ">"]

IsComparisonOnlyGreater(ts, j, start) == ts[j] = ">" /\ Kind(Peek(ts, j + 1)) = "literal"

IsComparison(ts, j, start) ==
  \/ ts[j] = "<" /\ j > start /\ Kind(ts[j - 1]) = "literal"
  \/ ts[j] = ">" /\ Kind(Peek(ts, j + 1)) = "literal"

\* What one token does to the count of brackets of the kind searched for.
BracketDelta(ts, j, open, start) ==
  IF IsComparison(ts, j, start) THEN 0
  ELSE IF ts[j] = open THEN 1
  ELSE IF ts[j] = Closing[open] THEN -1
  ELSE IF open = "<" /\ ts[j] = ">>" THEN -2 ELSE 0

\* And to the count of brackets of other kinds nested in them.
ParenDelta(t) ==
  IF t \in {"(", "{", "["} THEN 1 ELSE IF t \in {")", "}", "]"} THEN -1 ELSE 0

\* ">>" may close two brackets at once: it is then after the closing bracket
\* as well as part of it (unmunch).
BracketAt(ts, j, munched) == [bracket |-> IF munched THEN j ELSE j - 1, after |-> j, unmunch |-> munched]
NoBracket == [bracket |-> Error, after |-> Error, unmunch |-> FALSE]

\* q: the position, and the brackets open of the kind searched for and of others.
FindClosingBracket(ts, i) ==
  LET scan[q \in Int \X Int \X Int] ==
        IF q[2] = 0 THEN IF q[3] = 0 THEN BracketAt(ts, q[1], ts[q[1] - 1] = ">>") ELSE NoBracket
        ELSE IF Done(ts, q[1]) THEN NoBracket
        ELSE IF q[3] # 0 \/ BracketDelta(ts, q[1], ts[i], i + 1) = 0
        THEN scan[<<q[1] + 1, q[2], q[3] + ParenDelta(ts[q[1]])>>]
        ELSE scan[<<q[1] + 1, q[2] + BracketDelta(ts, q[1], ts[i], i + 1), q[3]>>]
  IN  IF i \in DOMAIN ts /\ ts[i] \in Opening THEN scan[<<i + 1, 1, 0>>] ELSE NoBracket

SkipBrackets(ts, i) == FindClosingBracket(ts, i).after

-----------------------------------------------------------------------------
\* One attribute inside of the brackets: name or scope::name, arguments, "...".
AttributeEnd(ts, i) ==
  LET name == IF At(ts, i + 1, "::") THEN i + 3 ELSE i + 1
  IN  IF Kind(Peek(ts, i)) \notin {"identifier", "keyword"} THEN Error
      ELSE SkipIf(ts, IF Peek(ts, name) = "(" THEN SkipBrackets(ts, name) ELSE name, "...")

AttributeName(ts, i) == IF At(ts, i + 1, "::") THEN ts[i + 2] ELSE ts[i]

\* using scope:
SkipAttributeUsing(ts, i) == IF At(ts, i, "using") THEN Skip(ts, i + 2, ":") ELSE i

\* What was read: up to where, and whether the caller's loop looks for another one.
Read(cur, list, again) == [cur |-> cur, list |-> list, again |-> again]

\* The attributes up to the token that closes them.
AttributesUntil(ts, i, close) ==
  LET read[q \in Int] ==
        IF q = Error \/ At(ts, q, close) THEN Read(Skip(ts, q, close), <<>>, TRUE)
        ELSE [read[SkipIf(ts, AttributeEnd(ts, q), ",")] EXCEPT !.list = <<AttributeName(ts, q)>> \o @]
  IN  read[SkipAttributeUsing(ts, i)]

\* The closing token a second time.
AndSkip(ts, read, t) == [read EXCEPT !.cur = Skip(ts, @, t)]

\* One attribute specifier.  A "[" that begins no attribute is consumed all the same.
ParseAttributeImpl(ts, i) ==
  LET j    == SkipIf(ts, i, "[")
      gnu  == SkipIf(ts, j, "__attribute__")
  IN  IF j # i /\ Peek(ts, j) = "["
      THEN AndSkip(ts, AttributesUntil(ts, j + 1, "]"), "]")
      ELSE IF At(ts, j, "alignas") THEN Read(SkipBrackets(ts, j + 1), <<"alignas">>, FALSE)
      ELSE IF gnu # j /\ Peek(ts, gnu) = "("
      THEN AndSkip(ts, AttributesUntil(ts, Skip(ts, gnu + 1, "("), ")"), ")")
      ELSE IF At(ts, gnu, "__declspec") THEN AttributesUntil(ts, Skip(ts, gnu + 1, "("), ")")
      ELSE Read(gnu, <<>>, FALSE)

\* parse_attributes(): with skip_anyway a stream at no attribute moves on.
ParseAttributes(ts, i, skipAnyway) ==
  LET Result == [cur : Int, list : Seq(STRING), again : BOOLEAN]
      Join(list, one) == [one EXCEPT !.list = list \o @]
      read[q \in Result \X BOOLEAN] ==
        IF q[1].cur = Error THEN q[1]
        ELSE IF ~q[1].again THEN IF q[2] THEN [q[1] EXCEPT !.cur = Bump(ts, @)] ELSE q[1]
        ELSE read[<<Join(q[1].list, ParseAttributeImpl(ts, q[1].cur)), FALSE>>]
  IN  read[<<ParseAttributeImpl(ts, i), skipAnyway>>]

-----------------------------------------------------------------------------
\* append_scope(): the qualified name read so far as a sequence of tokens.
AppendScope(ts, i, scope) ==
  LET t == Peek(ts, i)
      ends(x) == scope # <<>> /\ (scope[Len(scope)] = "::") = x
      pos == FindClosingBracket(ts, i)
  IN  IF Kind(t) = "identifier"
      THEN [ok |-> TRUE, cur |-> Bump(ts, i), scope |-> (IF ends(FALSE) THEN <<>> ELSE scope) \o <<t>>]
      ELSE IF t = "::"
      THEN [ok |-> TRUE, cur |-> Bump(ts, i), scope |-> (IF ends(TRUE) THEN <<>> ELSE scope) \o <<t>>]
      ELSE IF t = "<"
      THEN [ok |-> TRUE,
            cur |-> IF pos.bracket = Error THEN Error
                    ELSE IF At(ts, pos.bracket, ">>") THEN pos.bracket + 1
                    ELSE Skip(ts, pos.bracket, ">"),
            scope |-> scope \o SubSeq(ts, i, pos.bracket - 1) \o <<">">>]
      ELSE [ok |-> FALSE, cur |-> i, scope |-> <<>>]
=============================================================================
