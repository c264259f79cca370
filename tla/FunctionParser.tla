--------------------------- MODULE FunctionParser ---------------------------
(***************************************************************************)
(* Declarations from their tokens to the entity and back: get_extent() of   *)
(* cxtokenizer.cpp, function_parser.cpp and variable_parser.cpp, and the     *)
(* functions and variables of code_generator.cpp.                           *)
(*                                                                         *)
(* A declaration is parsed, the entity is written by the code generator,    *)
(* and what was written is parsed again in the place of the declaration.    *)
(***************************************************************************)
EXTENDS TokenStream, CppDeclaration, FunctionGenerator, FiniteSets

CONSTANT Declarations  \* those that are parsed

VARIABLES
  decl,    \* the declaration
  ts,      \* its tokens, as the tokenizer has them
  pos,     \* the position of the stream
  pc,      \* what is parsed next
  prefix,  \* prefix_info
  suffix,  \* suffix_info
  entity,  \* the entity of the declaration
  text,    \* what the code generator wrote
  again    \* the entity of that

vars == <<decl, ts, pos, pc, prefix, suffix, entity, text, again>>

NotFound == -1
NoEntity == [kind |-> "none"]

EmptyPrefix == [attributes |-> <<>>, specifiers |-> {}]
EmptySuffix == [attributes |-> <<>>, cv |-> {}, ref |-> <<>>, noexcept |-> <<>>, virtual |-> {}, body |-> "declaration"]

IsVariable == decl.kind \in VariableKinds
IsCtorDtor == decl.kind \in {"constructor", "destructor"}
AllowQualifier == decl.kind \in {"method", "conversion"}
AllowVirtual == decl.kind \in MemberKinds
Defined == text = <<>> /\ IsDefinition(decl)

Init ==
  /\ decl \in Declarations
  /\ ts = <<>> /\ pos = 1 /\ pc = "extent"
  /\ prefix = EmptyPrefix /\ suffix = EmptySuffix
  /\ entity = NoEntity /\ text = <<>> /\ again = NoEntity

-----------------------------------------------------------------------------
\* get_extent()

\* What is in front of a "[[" that "]]" closes, and of an alignas that ")" closes.
BeforeAttribute(head) ==
  SubSeq(head, 1, -1 + CHOOSE j \in DOMAIN head :
                         /\ head[j] = "[" /\ head[j + 1] = "["
                         /\ \A k \in j + 1 .. Len(head) - 1 : ~(head[k] = "[" /\ head[k + 1] = "["))

BeforeAlignas(head) ==
  LET match[q \in Int \X Int] ==
        IF q[2] = 0 \/ q[1] = 1 THEN q[1] - 1
        ELSE match[<<q[1] - 1, q[2] + (IF head[q[1] - 1] = ")" THEN 1 ELSE IF head[q[1] - 1] = "(" THEN -1 ELSE 0)>>]
  IN  SubSeq(head, 1, match[<<Len(head), 1>>])

\* The extent starts with the attributes in front of that of the cursor.
ExtentBegin(f, first) ==
  LET begin[head \in Seq(STRING)] ==
        LET n == Len(head)
            alignas == BeforeAlignas(head)
        IN  IF n > 1 /\ head[n] = "]" /\ head[n - 1] = "]" THEN begin[BeforeAttribute(head)]
            ELSE IF n > 0 /\ head[n] = ")" /\ alignas # <<>> /\ Last(alignas) = "alignas"
            THEN begin[Front(alignas)] ELSE n + 1
  IN  begin[SubSeq(f, 1, first - 1)]

\* It ends before the body, or before the semicolon.  libclang may return the token
\* after the end as well, depending on the spaces in between.
ExtentEnd(f, body) ==
  IF decl.body = "delete" THEN body + 1
  ELSE IF IsDefinition(decl) /\ ~IsVariable THEN body - 1
  ELSE (CHOOSE j \in body .. Len(f) : f[j] = ";" /\ \A k \in body .. j - 1 : f[k] # ";") - 1

Extent ==
  /\ pc = "extent"
  /\ LET f == SourceFile(decl)
         end == ExtentEnd(f.tokens, f.body)
     IN  \E more \in 0 .. 1 : ts' = SubSeq(f.tokens, ExtentBegin(f.tokens, f.first), end + more)
  /\ pc' = IF IsVariable THEN "variable" ELSE "prefix"
  /\ UNCHANGED <<decl, pos, prefix, suffix, entity, text, again>>

-----------------------------------------------------------------------------
\* parse_prefix_info()
Name ==
  CASE decl.kind = "conversion" -> <<"operator">>
    [] decl.kind = "destructor" -> <<"~">>
    [] OTHER -> decl.name

\* Arguments after the name of a constructor are those of the class if no parameters
\* follow.  If they follow the stream is set back to the name all the same.
PrefixEnd(i) ==
  LET j == i + Len(Name)
      next == Peek(ts, j)
  IN  IF ~AtAll(ts, i, Name) \/ next \in {",", ">", ">>"} THEN NotFound
      ELSE IF IsCtorDtor /\ next = "<"
      THEN CASE SkipBrackets(ts, j) = Error -> Error
             [] OTHER -> IF Peek(ts, SkipBrackets(ts, j)) = "(" THEN i ELSE NotFound
      ELSE IF IsCtorDtor THEN IF next = "::" THEN NotFound ELSE j
      ELSE IF Name # <<"operator">> /\ Kind(next) = "identifier" THEN NotFound ELSE j

Fail ==
  /\ pc' = "error"
  /\ UNCHANGED <<decl, ts, pos, prefix, suffix, entity, text, again>>

Goto(step) == pc' = step /\ UNCHANGED <<decl, ts, entity, text, again>>

PrefixStepInPlace ==
  /\ pc = "prefix" /\ ~Done(ts, pos) /\ PrefixEnd(pos) = NotFound
  /\ \E read \in {ParseAttributes(ts, pos, FALSE)} :
       /\ read.cur # Error
       /\ prefix' = [prefix EXCEPT !.attributes = @ \o read.list]
       /\ pos' = read.cur
       /\ UNCHANGED suffix /\ Goto("prefix")

PrefixStep ==
  /\ pc = "prefix" /\ ~Done(ts, pos) /\ PrefixEnd(pos) = NotFound
  /\ \/ /\ ts[pos] \in {"consteval", "constexpr", "virtual", "explicit"}
        /\ prefix' = [prefix EXCEPT !.specifiers = @ \cup {ts[pos]}]
        /\ pos' = pos + 1
        /\ UNCHANGED suffix /\ Goto("prefix")
     \/ \E read \in {ParseAttributes(ts, pos, TRUE)} :
        /\ ts[pos] \notin {"consteval", "constexpr", "virtual", "explicit"}
        /\ IF read.cur = Error THEN Fail
           ELSE /\ prefix' = [prefix EXCEPT !.attributes = @ \o read.list]
                /\ pos' = read.cur
                /\ UNCHANGED suffix /\ Goto("prefix")

\* The specifiers that are no parse_error.  For a destructor there is only an assertion,
\* which is off unless CPPAST_ASSERTION_LEVEL is set: what it does not expect is dropped.
SpecifiersAllowed(s) ==
  CASE decl.kind \in {"function", "static"} ->
         s \cap {"virtual", "explicit"} = {} /\ ~({"constexpr", "consteval"} \subseteq s)
    [] decl.kind = "method" -> "explicit" \notin s
    [] decl.kind = "constructor" -> "virtual" \notin s
    [] OTHER -> TRUE

SkipParens(i) ==
  LET skip[j \in Int] == IF At(ts, j, ")") THEN skip[j + 1] ELSE j IN skip[i]

PrefixName ==
  /\ pc = "prefix" /\ ~Done(ts, pos)
  /\ \E end \in {PrefixEnd(pos)} \ {NotFound, Error} :
     \E read \in {ParseAttributes(ts, SkipParens(end), FALSE)} :
       IF Done(ts, end) \/ read.cur = Error \/ ~SpecifiersAllowed(prefix.specifiers) THEN Fail
       ELSE /\ prefix' = [prefix EXCEPT !.attributes = @ \o read.list]
            /\ pos' = read.cur
            /\ UNCHANGED suffix /\ Goto("parameters")

\* No end of the prefix.
PrefixFails == pc = "prefix" /\ (Done(ts, pos) \/ PrefixEnd(pos) = Error) /\ Fail

-----------------------------------------------------------------------------
\* skip_parameters(), and what stands in its place for conversions and destructors.
SkipParameters(i) ==
  LET j == IF Peek(ts, i) = "<" THEN SkipBrackets(ts, i) ELSE i
  IN  IF j = Error THEN Error ELSE SkipBrackets(ts, j)


\* The type of a conversion ends with the first pair of empty parentheses.  A "(" has been
\* skipped when no ")" follows it, so the brackets are looked for behind it.
ConversionTypeEnd(i) ==
  LET find[j \in Int] ==
        IF j = Error \/ Done(ts, j) THEN Error
        ELSE IF At(ts, j, "(") /\ At(ts, j + 1, ")") THEN j + 2
        ELSE IF At(ts, j, "(") THEN find[SkipBrackets(ts, j + 1)]
        ELSE IF ts[j] \in Opening THEN find[SkipBrackets(ts, j)] ELSE find[j + 1]
  IN  find[i]

ParametersEnd ==
  CASE decl.kind = "conversion" ->
         ConversionTypeEnd(pos)
    [] decl.kind = "destructor" -> Skip(ts, Skip(ts, Bump(ts, pos), "("), ")")
    [] OTHER -> SkipParameters(pos)

ParsedName(end) ==
  IF decl.kind = "destructor" THEN <<"~", ts[pos]>>
  ELSE IF decl.kind = "conversion" THEN <<"operator">> \o SubSeq(ts, pos, end - 3)
  ELSE decl.name

ParameterList ==
  /\ pc = "parameters"
  /\ \E end \in {ParametersEnd} :
       IF end = Error THEN Fail
       ELSE /\ prefix' = [attributes |-> prefix.attributes, specifiers |-> prefix.specifiers, name |-> ParsedName(end)]
            /\ pos' = end
            /\ suffix' = [EmptySuffix EXCEPT !.body = IF Defined THEN "definition" ELSE "declaration"]
            /\ Goto("qualifiers")

-----------------------------------------------------------------------------
\* parse_suffix_info()

ParseCvOnce(i) ==
  IF At(ts, i, "const") \/ At(ts, i, "volatile") THEN [cur |-> i + 1, cv |-> {ts[i]}] ELSE [cur |-> i, cv |-> {}]

ParseCv(i) ==
  LET t == IF Done(ts, i) THEN "" ELSE ts[i]
      other == IF t = "const" THEN "volatile" ELSE "const"
  IN  IF t \notin {"const", "volatile"} THEN [cur |-> i, cv |-> {}]
      ELSE IF At(ts, i + 1, other) THEN [cur |-> i + 2, cv |-> {t, other}]
      ELSE [cur |-> i + 1, cv |-> {t}]

ParseRef(i) ==
  IF At(ts, i, "&") \/ At(ts, i, "&&") THEN [cur |-> i + 1, ref |-> <<ts[i]>>] ELSE [cur |-> i, ref |-> <<>>]

Qualifiers ==
  /\ pc = "qualifiers"
  /\ \E read \in {ParseAttributes(ts, pos, FALSE)} :
     LET cv == IF AllowQualifier THEN ParseCv(read.cur) ELSE [cur |-> read.cur, cv |-> {}]
         ref == IF AllowQualifier THEN ParseRef(cv.cur) ELSE [cur |-> cv.cur, ref |-> <<>>]
     IN  IF read.cur = Error THEN Fail
         ELSE /\ suffix' = [suffix EXCEPT !.attributes = @ \o read.list, !.cv = cv.cv, !.ref = ref.ref]
              /\ pos' = ref.cur
              /\ UNCHANGED prefix /\ Goto("exception")

ParseNoexcept(i) ==
  LET Condition(close) == [cur |-> Skip(ts, close, ")"), condition |-> <<"(">> \o SubSeq(ts, i + 2, close - 1) \o <<")">>]
  IN  IF ~At(ts, i, "noexcept") THEN [cur |-> i, condition |-> <<>>]
      ELSE IF Peek(ts, i + 1) # "(" THEN [cur |-> i + 1, condition |-> <<"true">>]
      ELSE Condition(FindClosingBracket(ts, i + 1).bracket)

SkipSuffix(i) == IF At(ts, i, ")") THEN SkipBrackets(ts, i + 1) ELSE i

\* The exception specification, and one part of the return type that is behind the
\* parameters.
Exception ==
  /\ pc = "exception"
  /\ \E noexcept \in {ParseNoexcept(IF At(ts, pos, "throw") THEN SkipBrackets(ts, pos + 1) ELSE pos)} :
     \E rest \in {SkipSuffix(noexcept.cur)} :
       IF rest = Error THEN Fail
       ELSE /\ suffix' = [suffix EXCEPT !.noexcept = noexcept.condition]
            /\ pos' = SkipIf(ts, rest, "->")
            /\ UNCHANGED prefix
            /\ Goto(IF At(ts, rest, "->") THEN "trailing" ELSE "virtuals")

\* parse_body() behind the "=".
ParseBody(i, info) ==
  LET t == IF Done(ts, i) THEN "" ELSE ts[i] IN
  IF t \in {"default", "delete"} THEN [info EXCEPT !.body = t]
  ELSE IF t = "0" /\ AllowVirtual
  THEN [info EXCEPT !.body = "declaration", !.virtual = @ \cup {"virtual", "pure"}]
  ELSE NoEntity

\* One round of the loop over the tokens of a trailing return type.
TrailingStep ==
  /\ pc = "trailing" /\ ~Done(ts, pos)
  /\ \E read \in {ParseAttributes(ts, pos, FALSE)} :
     LET i == read.cur
         Move(to, info) == pos' = to /\ suffix' = info /\ UNCHANGED prefix /\ Goto("trailing")
     IN  IF i = Error THEN Fail
         ELSE IF read.list # <<>> THEN Move(i, [suffix EXCEPT !.attributes = @ \o read.list])
         ELSE IF Peek(ts, i) \in {"(", "[", "<"}
         THEN IF SkipBrackets(ts, i) = Error THEN Fail ELSE Move(SkipBrackets(ts, i), suffix)
         ELSE IF Peek(ts, i) = "{"
         THEN /\ suffix' = [suffix EXCEPT !.body = "definition"]
              /\ UNCHANGED <<pos, prefix>> /\ Goto("build")
         ELSE IF Done(ts, i) THEN Move(i, suffix)
         ELSE IF ts[i] \in {"override", "final"}
         THEN IF ~AllowVirtual THEN Fail
              ELSE Move(i + 1, [suffix EXCEPT !.virtual = @ \cup {"virtual", ts[i]}])
         ELSE IF ts[i] = "="
         THEN IF ParseBody(i + 1, suffix) = NoEntity THEN Fail
              ELSE Move(i + 2, ParseBody(i + 1, suffix))
         ELSE Move(i + 1, suffix)

TrailingEnd ==
  /\ pc = "trailing" /\ Done(ts, pos)
  /\ suffix' = IF Peek(ts, pos) \in {"{", ":", "try"} THEN [suffix EXCEPT !.body = "definition"] ELSE suffix
  /\ UNCHANGED <<pos, prefix>> /\ Goto("build")

\* override and final, once each, in either order; attributes; the body.
Virtuals ==
  /\ pc = "virtuals"
  /\ LET first == {t \in {"override", "final"} : At(ts, pos, t)}
         both == first \cup {t \in {"override", "final"} \ first : first # {} /\ At(ts, pos + 1, t)}
     IN  \E read \in {ParseAttributes(ts, pos + Cardinality(both), FALSE)} :
         LET info == [suffix EXCEPT !.virtual = IF both = {} THEN {} ELSE {"virtual"} \cup both,
                                    !.attributes = @ \o read.list]
             end == ParseBody(read.cur + 1, info)
         IN  IF (both # {} /\ ~AllowVirtual) \/ read.cur = Error \/ (At(ts, read.cur, "=") /\ end = NoEntity) THEN Fail
             ELSE /\ suffix' = IF At(ts, read.cur, "=") THEN end
                               ELSE IF ~Done(ts, read.cur) /\ ts[read.cur] \in {"{", ":", "try"}
                               THEN [info EXCEPT !.body = "definition"] ELSE info
                  /\ pos' = IF At(ts, read.cur, "=") THEN read.cur + 2 ELSE read.cur
                  /\ UNCHANGED prefix /\ Goto("build")

-----------------------------------------------------------------------------
\* parse_default_value()

\* parse_raw_expression() up to the end, or the semicolon.
RawExpression(tokens) == IF Last(tokens) = ";" THEN Front(tokens) ELSE tokens

\* The first "=" behind the name and outside of parentheses begins the value.
ParseDefaultValue(tokens, name) ==
  LET Found(ok, attributes, value) == [ok |-> ok, attributes |-> attributes, value |-> value]
      From(rest, i) == SubSeq(rest, i, Len(rest))
      find[q \in Seq(STRING) \X Int \X BOOLEAN \X Seq(STRING)] ==
        LET rest == q[1]
            read == ParseAttributes(rest, 1, TRUE)
        IN  IF rest = <<>> THEN Found(TRUE, q[4], <<>>)
            ELSE IF Head(rest) = "(" THEN find[<<Tail(rest), q[2] + 1, q[3], q[4]>>]
            ELSE IF Head(rest) = ")" THEN find[<<Tail(rest), q[2] - 1, q[3], q[4]>>]
            ELSE IF ~q[3] /\ AtAll(rest, 1, name) THEN find[<<From(rest, Len(name) + 1), q[2], TRUE, q[4]>>]
            ELSE IF q[2] = 0 /\ q[3] /\ Head(rest) = "=" THEN Found(TRUE, q[4], RawExpression(Tail(rest)))
            ELSE IF read.cur = Error THEN Found(FALSE, q[4], <<>>)
            ELSE find[<<From(rest, read.cur), q[2], q[3], q[4] \o read.list>>]
  IN  find[<<tokens, 0, name = <<>>, <<>> >>]

ParseParameter(p) ==
  [type |-> ParseType(p.type), name |-> p.name, default |-> ParseDefaultValue(ParameterTokens(p), p.name).value]

-----------------------------------------------------------------------------
\* get_semantic_parent()

\* The scope a friend is declared in is the one its classes are in.
DefinitionScope ==
  IF ~decl.friend THEN decl.lex
  ELSE SubSeq(decl.lex, 1, CHOOSE n \in 0 .. Len(decl.lex) :
                             /\ \A k \in n + 1 .. Len(decl.lex) : IsClass(decl.lex[k])
                             /\ n > 0 => ~IsClass(decl.lex[n]))

CommonParents(a, b) ==
  CHOOSE n \in 0 .. Len(a) : /\ n <= Len(b) /\ SubSeq(a, 1, n) = SubSeq(b, 1, n)
                             /\ n < Len(a) /\ n < Len(b) => a[n + 1] # b[n + 1]

SemanticParentReversed ==
  LET common == CommonParents(decl.sem, DefinitionScope)
  IN  [ok |-> (decl.friend /\ decl.known) \/ common = Len(DefinitionScope),
       scope |-> [k \in 1 .. Len(decl.sem) - common |-> ScopeTokens(<<decl.sem[Len(decl.sem) + 1 - k]>>)]]

\* A known friend is named from the parents it has in common with the scope, anything
\* else from the scope, in which it must be.
SemanticParent ==
  LET common == CommonParents(decl.sem, DefinitionScope)
  IN  [ok |-> (decl.friend /\ decl.known) \/ common = Len(DefinitionScope),
       scope |-> [k \in 1 .. Len(decl.sem) - common |-> ScopeTokens(<<decl.sem[common + k]>>)]]

-----------------------------------------------------------------------------
\* parse_cpp_function() and the like, from the parts.

CalculateVirtual ==
  IF ~IsVirtual(decl) /\ "virtual" \notin prefix.specifiers /\ suffix.virtual = {}
  THEN [ok |-> TRUE, flags |-> {}]
  ELSE IF IsPureVirtual(decl) THEN [ok |-> "pure" \in suffix.virtual, flags |-> suffix.virtual]
  ELSE [ok |-> "pure" \notin suffix.virtual,
        flags |-> {"virtual"} \cup suffix.virtual
                    \cup (IF \/ "virtual" \notin prefix.specifiers
                             \/ OverridesFunction(decl) THEN {"override"} ELSE {})]

\* Of several specifiers the builders are told of the first.
BuiltSpecifiers ==
  LET first(order) == {s \in prefix.specifiers :
                         \E k \in DOMAIN order : order[k] = s /\ \A j \in 1 .. k - 1 : order[j] \notin prefix.specifiers}
  IN  CASE decl.kind \in {"function", "static", "method"} -> first(<<"constexpr", "consteval">>)
        [] decl.kind = "conversion" -> first(<<"explicit", "constexpr", "consteval">>)
        [] decl.kind = "constructor" -> first(<<"constexpr", "explicit", "consteval">>)
        [] decl.kind = "destructor" -> {}

HasReturn == decl.kind \notin {"constructor", "destructor"}

Function ==
  [kind |-> decl.kind, friend |-> decl.friend, scope |-> SemanticParent.scope,
   name |-> prefix.name, args |-> decl.args,
   type |-> IF HasReturn THEN ParseType(decl.ret) ELSE <<>>,
   params |-> [k \in DOMAIN decl.params |-> ParseParameter(decl.params[k])],
   storage |-> IF decl.kind = "function" THEN StorageClass(decl)
               ELSE IF decl.kind = "static" THEN {"static"} ELSE {},
   specifiers |-> BuiltSpecifiers,
   virtual |-> IF AllowVirtual THEN CalculateVirtual.flags ELSE {},
   cv |-> suffix.cv, ref |-> suffix.ref, noexcept |-> suffix.noexcept,
   body |-> suffix.body, defined |-> suffix.body # "declaration",
   attributes |-> prefix.attributes \o suffix.attributes]

Buildable == SemanticParent.ok /\ (AllowVirtual => CalculateVirtual.ok)

Finish(e) ==
  /\ IF text = <<>> THEN entity' = e /\ pc' = "built" /\ UNCHANGED again
     ELSE again' = e /\ pc' = "done" /\ UNCHANGED entity
  /\ UNCHANGED <<decl, ts, pos, prefix, suffix, text>>

Build == pc = "build" /\ Buildable /\ Finish(Function)

BuildFails == pc = "build" /\ ~Buildable /\ Fail

\* parse_cpp_variable() and parse_cpp_member_variable()
Variable(default) ==
  [kind |-> decl.kind, name |-> decl.name, type |-> ParseType(decl.ret),
   scope |-> IF decl.kind = "variable" THEN SemanticParent.scope ELSE <<>>,
   storage |-> IF decl.kind = "variable"
               THEN StorageClass(decl) \cup ({"thread_local"} \cap Range(ts)) ELSE {},
   specifiers |-> IF decl.kind = "variable" THEN {"constexpr"} \cap Range(ts)
                  ELSE {s \in {"mutable"} : Has(decl, s)},
   default |-> IF decl.kind = "bitfield" \/ (decl.kind = "variable" /\ decl.body # "definition")
               THEN <<>> ELSE default.value,
   attributes |-> default.attributes]

ParseVariable ==
  /\ pc = "variable"
  /\ \E default \in {ParseDefaultValue(ts, decl.name)} :
       IF default.ok /\ (decl.kind = "variable" => SemanticParent.ok) THEN Finish(Variable(default)) ELSE Fail

-----------------------------------------------------------------------------
\* generate_code() of the entity; what it writes is parsed again.
Generate ==
  /\ pc = "built"
  /\ text' = GenerateCode(entity, {})
  /\ ts' = text' /\ pos' = 1
  /\ prefix' = EmptyPrefix /\ suffix' = EmptySuffix
  /\ pc' = IF IsVariable THEN "variable" ELSE "prefix"
  /\ UNCHANGED <<decl, entity, again>>

Next ==
  \/ Extent
  \/ PrefixStep \/ PrefixName \/ PrefixFails
  \/ ParameterList
  \/ Qualifiers \/ Exception \/ TrailingStep \/ TrailingEnd \/ Virtuals
  \/ Build \/ BuildFails \/ ParseVariable
  \/ Generate

\* The parser is one thread that does not block.
Spec == Init /\ [][Next]_vars /\ WF_vars(Next)
=============================================================================
