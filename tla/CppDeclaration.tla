--------------------------- MODULE CppDeclaration ---------------------------
(***************************************************************************)
(* Declarations of functions and variables as they stand in a file, and     *)
(* what libclang says of them.  A declaration is a record of its parts, in  *)
(* the order the grammar of C++ has them.  A part is a sequence of tokens;  *)
(* before, front, nameAttr and attr are sequences of such: attributes, and  *)
(* specifiers in between.                                                   *)
(***************************************************************************)
EXTENDS Types

VariableKinds == {"variable", "member", "bitfield"}
MemberKinds == {"method", "conversion", "destructor"}

Scopes == [N |-> <<"N">>, A |-> <<"A">>, V |-> <<"V", "<", "T", ">">>]
IsClass(scope) == scope # "N"

ScopeTokens(path) == FlattenSeq([k \in DOMAIN path |-> Scopes[path[k]] \o <<"::">>])

\* A definition outside of its class and the declaration of a friend name the scope.
WrittenScope(d) ==
  IF d.friend THEN ScopeTokens(d.sem)
  ELSE ScopeTokens(SubSeq(d.sem, Len(d.lex) + 1, Len(d.sem)))

ParameterTokens(p) ==
  LET s == SpellType(p.type, FALSE)
  IN  s.pre \o p.name \o s.suf \o (IF p.default = <<>> THEN <<>> ELSE <<"=">> \o p.default)

CommaSeparated(lists) ==
  FlattenSeq([k \in DOMAIN lists |-> (IF k = 1 THEN <<>> ELSE <<",">>) \o lists[k]])

Parameters(d) == <<"(">> \o CommaSeparated([k \in DOMAIN d.params |-> ParameterTokens(d.params[k])]) \o <<")">>

Body(d) ==
  CASE d.body = "declaration" -> <<";">>
    [] d.body = "pure" -> <<"=", "0", ";">>
    [] d.body = "default" -> <<"=", "default", ";">>
    [] d.body = "delete" -> <<"=", "delete", ";">>
    [] d.body = "definition" -> <<"{", "}">>
    [] d.body = "initialisers" -> <<":", "a", "(", "1", ")", "{", "}">>
    [] d.body = "try" -> <<"try", "{", "}">>

\* Everything of a function from the first specifier to the body.
FunctionTokens(d) ==
  LET ret == SpellType(d.ret, FALSE)
      name == d.name \o d.args \o FlattenSeq(d.nameAttr)
      before == IF d.kind \in {"constructor", "destructor"} THEN WrittenScope(d) \o name
                ELSE IF d.kind = "conversion" THEN WrittenScope(d) \o <<"operator">> \o ret.pre
                ELSE (IF d.trailing THEN <<"auto">> ELSE ret.pre) \o
                     (IF d.paren THEN <<"(">> \o WrittenScope(d) \o d.name \o d.args \o <<")">> \o FlattenSeq(d.nameAttr)
                      ELSE WrittenScope(d) \o name)
      after == IF d.kind \notin {"function", "static", "method"} THEN <<>>
               ELSE IF d.trailing THEN <<"->">> \o ret.pre \o ret.suf ELSE ret.suf
  IN  (IF d.friend THEN <<"friend">> ELSE <<>>) \o FlattenSeq(d.front) \o before \o Parameters(d)
        \o d.cv \o d.ref \o d.except \o FlattenSeq(d.attr) \o after \o d.virt

VariableTokens(d) ==
  LET s == SpellType(d.ret, FALSE)
  IN  FlattenSeq(d.front) \o s.pre \o WrittenScope(d) \o d.name \o FlattenSeq(d.nameAttr) \o s.suf
        \o (IF d.kind = "bitfield" THEN <<":", "3">> ELSE <<>>)
        \o (IF d.default = <<>> THEN <<>> ELSE <<"=">> \o d.default)

DeclarationTokens(d) == IF d.kind \in VariableKinds THEN VariableTokens(d) ELSE FunctionTokens(d)

IsDefinition(d) == d.body \in {"definition", "initialisers", "try"}

\* The file: first is the token the extent of the cursor begins with, body the one
\* the body of a function or the rest of a declaration begins with.
SourceFile(d) ==
  LET body == IF d.kind \in VariableKinds THEN <<";">> ELSE Body(d)
      head == d.previous \o FlattenSeq(d.before)
      initialisers == IF d.body = "initialisers" THEN 5 ELSE 0
  IN  [tokens |-> head \o DeclarationTokens(d) \o body \o <<"int", "next", ";">>,
       first |-> Len(head) + 1,
       body |-> Len(head) + Len(DeclarationTokens(d)) + 1 + initialisers]

-----------------------------------------------------------------------------
\* What libclang says of the cursor.
IsPureVirtual(d) == d.body = "pure"
OverridesFunction(d) == d.overrides
IsVirtual(d) == <<"virtual">> \in Range(d.front) \/ d.overrides \/ d.virtualBefore
StorageClass(d) == {s \in {"static", "extern"} : <<s>> \in Range(d.front)}
IsTemplated(d) == d.args # <<>>

\* And what a reader of the declaration knows besides.
AttributeNames(item) ==
  CASE item \in {<<"[", "[", "a", "]", "]">>, <<"__attribute__", "(", "(", "a", ")", ")">>,
                 <<"__declspec", "(", "a", ")">>} -> <<"a">>
    [] item = <<"[", "[", "using", "gnu", ":", "b", "]", "]">> -> <<"b">>
    [] item = <<"[", "[", "gnu", "::", "b", "(", "1", ")", ",", "a", "...", "]", "]">> -> <<"b", "a">>
    [] item = <<"alignas", "(", "8", ")">> -> <<"alignas">>
    [] OTHER -> <<>>

Attributes(d) ==
  LET items == d.before \o d.front \o d.nameAttr \o d.attr
  IN  FlattenSeq([k \in DOMAIN items |-> AttributeNames(items[k])])

Has(d, specifier) == <<specifier>> \in Range(d.front)
=============================================================================
