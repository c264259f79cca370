--------------------------- MODULE MCDeclarations ---------------------------
EXTENDS Declarations, TLC

MCKeywords ==
  {"virtual", "explicit", "constexpr", "consteval", "static", "extern", "inline", "friend", "const",
   "volatile", "noexcept", "throw", "default", "delete", "operator", "auto", "int", "bool", "typename",
   "decltype", "alignas", "using", "try", "true", "false", "thread_local", "mutable", "__attribute__", "__declspec"}
MCIdentifiers ==
  {"f", "A", "B", "N", "V", "T", "S", "C", "P", "a", "b", "x", "p", "gnu", "next", "vec", "member", "type",
   "is_const", "is_", "override", "final", "MACRO"}
MCLiterals == {"0", "1", "2", "3", "8"}

IntType == <<Plain("int")>>
PointerTo(to) == to \o <<Plain("*")>>
PointerToArray == <<Plain("int"), Plain("[]"), Plain("*")>>
PointerToFunction == <<Plain("int"), Plain("()"), Plain("*")>>
Nested == PointerToArray \o <<Plain("[]"), Plain("*")>>

A1 == <<"[", "[", "a", "]", "]">>
A2 == <<"[", "[", "gnu", "::", "b", "(", "1", ")", ",", "a", "...", "]", "]">>
A3 == <<"[", "[", "using", "gnu", ":", "b", "]", "]">>
Gnu == <<"__attribute__", "(", "(", "a", ")", ")">>
Declspec == <<"__declspec", "(", "a", ")">>
Align == <<"alignas", "(", "8", ")">>

Param(type, name, default) == [type |-> type, name |-> name, default |-> default]

Base ==
  [kind |-> "function", friend |-> FALSE, known |-> FALSE, lex |-> <<"N">>, sem |-> <<"N">>,
   previous |-> <<";">>, before |-> <<>>, front |-> <<>>, ret |-> IntType, trailing |-> FALSE, name |-> <<"f">>,
   nameAttr |-> <<>>, paren |-> FALSE, args |-> <<>>, params |-> <<>>, cv |-> <<>>, ref |-> <<>>,
   except |-> <<>>, attr |-> <<>>, virt |-> <<>>, body |-> "declaration", overrides |-> FALSE,
   virtualBefore |-> FALSE, default |-> <<>>]

InClass == [lex |-> <<"N", "A">>, sem |-> <<"N", "A">>]

With(list) == [front |-> [k \in DOMAIN list |-> <<list[k]>>]]

\* What any function may have.
Common ==
  {[previous |-> <<"MACRO", "(", "x", ")">>],
   [before |-> <<A1>>], [before |-> <<A2, A1>>], [front |-> <<A3>>], [front |-> <<Gnu>>],
   [nameAttr |-> <<A1>>], [attr |-> <<A1>>],
   [except |-> <<"noexcept">>], [except |-> <<"noexcept", "(", "false", ")">>],
   [except |-> <<"noexcept", "(", "x", "<", "1", ")">>], [except |-> <<"throw", "(", ")">>],
   [body |-> "definition"], [body |-> "delete"]}

Parameterised ==
  {[params |-> <<Param(IntType, <<"p">>, <<>>), Param(PointerToFunction, <<"a">>, <<"0">>)>>],
   [params |-> <<Param(<<Plain("int"), Plain("[]")>>, <<>>, <<>>), Param(IntType, <<"x">>, <<"f", "(", "1", ")">>)>>],
   [params |-> <<Param(<<Plain("decl")>>, <<"p">>, <<"vec", "<", "int", ">", "(", ")">>)>>]}

Returning ==
  {[ret |-> r, trailing |-> t] : t \in BOOLEAN,
     r \in {IntType, <<Plain("T")>>, PointerTo(<<Layer("T", {"const"}, <<>>)>>), PointerToArray, PointerToFunction, Nested, <<Plain("vec")>>, <<Plain("decl")>>}}

Constant == {With(<<"constexpr">>), With(<<"consteval">>)}

Virtual ==
  {With(<<"virtual">>), With(<<"virtual", "constexpr">>), [overrides |-> TRUE],
   [overrides |-> TRUE, virt |-> <<"override">>], [overrides |-> TRUE, virt |-> <<"override", "final">>],
   [overrides |-> TRUE, virt |-> <<"final", "override">>] @@ With(<<"virtual">>),
   [virt |-> <<"final">>] @@ With(<<"virtual">>),
   [body |-> "pure"] @@ With(<<"virtual">>), [body |-> "pure", overrides |-> TRUE],
   [body |-> "pure", overrides |-> TRUE, virt |-> <<"override">>],
   [lex |-> <<"N">>, virtualBefore |-> TRUE, body |-> "definition"],
   [lex |-> <<"N">>, overrides |-> TRUE, body |-> "definition"]}

Qualified2 ==
  {[cv |-> <<"const">>], [cv |-> <<"volatile", "const">>, ref |-> <<"&&">>], [ref |-> <<"&">>],
   [cv |-> <<"const">>, except |-> <<"noexcept">>], [cv |-> <<"const">>, attr |-> <<A1>>]}

OutOfClass == {[lex |-> <<"N">>], [lex |-> <<>>], [lex |-> <<>>, sem |-> <<"V">>]}

Befriending ==
  {[friend |-> TRUE, lex |-> <<"N", "A">>, sem |-> s, known |-> k] : s \in {<<"N">>}, k \in BOOLEAN}
    \cup {[friend |-> TRUE, lex |-> <<"N", "A">>, sem |-> <<>>, known |-> TRUE]}

BefriendingMembers ==
  {[friend |-> TRUE, lex |-> l, sem |-> s, known |-> TRUE] :
     l \in {<<"N", "A">>, <<"A">>}, s \in {<<"N", "V">>, <<"V">>}}

Variations(kind) ==
  CASE kind = "function" -> Common \cup Parameterised \cup Returning \cup Constant \cup Befriending
         \cup {[previous |-> <<"}">>], [front |-> <<Declspec, <<"inline">> >>], [body |-> "try"],
               With(<<"static">>), With(<<"extern">>), With(<<"static", "constexpr">>), [paren |-> TRUE],
               [args |-> <<"<", "vec", "<", "int", ">>">>], [args |-> <<"<", "1", "<", "2", ">">>],
               [args |-> <<"<", "(", "x", ">", "1", ")", ">">>], [name |-> <<"operator", "==">>], [lex |-> <<>>], [name |-> <<"T">>]}
    [] kind = "static" -> Common \cup Parameterised \cup Returning \cup Constant \cup OutOfClass
    [] kind = "method" -> Common \cup Parameterised \cup Returning \cup Constant \cup Virtual \cup Qualified2
         \cup OutOfClass \cup BefriendingMembers
         \cup {[name |-> <<"operator", "(", ")">>], [body |-> "default", name |-> <<"operator", "==">>]}
    [] kind = "conversion" -> Common \cup Constant \cup Virtual \cup Qualified2 \cup OutOfClass
         \cup {With(<<"explicit">>), With(<<"explicit", "constexpr">>), [front |-> << <<"explicit", "(", "false", ")">> >>],
               [ret |-> PointerTo(<<Layer("T", {"const"}, <<>>)>>)], [ret |-> <<Plain("vec")>>], [ret |-> <<Plain("decl")>>],
               [ret |-> <<Plain("parens")>>]}
    [] kind = "constructor" -> Common \cup Parameterised \cup Constant \cup OutOfClass
         \cup {With(<<"explicit">>), With(<<"explicit", "constexpr">>), With(<<"consteval", "explicit">>),
               [front |-> << <<"explicit", "(", "false", ")">> >>], [args |-> <<"<", "T", ">">>],
               [body |-> "default"], [body |-> "initialisers"]}
    [] kind = "destructor" -> Common \cup Virtual \cup OutOfClass \cup {With(<<"constexpr">>), [body |-> "default"]}
    [] OTHER -> {[before |-> <<A1>>], [before |-> <<Align, A2>>], [front |-> <<A3>>], [front |-> <<Align>>], [nameAttr |-> <<A1>>], [nameAttr |-> <<Align>>],
                 [previous |-> <<"MACRO", "(", "x", ")">>]}
         \cup (IF kind = "bitfield" THEN {} ELSE
               {[ret |-> PointerToFunction], [ret |-> <<Plain("int"), Plain("[]")>>],
                [default |-> <<"1">>], [default |-> <<"x", "==", "1">>], [default |-> <<"(", "x", ")", "=", "1">>]})
         \cup (IF kind = "variable"
               THEN {With(<<"static">>), With(<<"thread_local">>), With(<<"static", "constexpr">>),
                     With(<<"extern">>) @@ [body |-> "declaration"], [lex |-> <<"N">>, sem |-> <<"N", "A">>],
                     [default |-> <<"[", "]", "(", ")", "constexpr", "{", "}">>]}
               ELSE {With(<<"mutable">>)})

BaseOf(kind) ==
  CASE kind = "function" -> Base
    [] kind = "conversion" -> InClass @@ [kind |-> kind, name |-> <<"operator">>] @@ Base
    [] kind = "constructor" -> InClass @@ [kind |-> kind, name |-> <<"A">>] @@ Base
    [] kind = "destructor" -> InClass @@ [kind |-> kind, name |-> <<"~", "A">>] @@ Base
    [] kind = "variable" -> [kind |-> kind, name |-> <<"x">>, body |-> "definition"] @@ Base
    [] kind \in {"member", "bitfield"} -> InClass @@ [kind |-> kind, name |-> <<"x">>, body |-> "definition"] @@ Base
    [] OTHER -> InClass @@ [kind |-> kind] @@ Base

\* The name of the constructor or destructor of V<T> is V.
Renamed(d) ==
  IF d.sem # <<>> /\ Last(d.sem) = "V" /\ d.kind = "constructor" THEN [d EXCEPT !.name = <<"V">>]
  ELSE IF d.sem # <<>> /\ Last(d.sem) = "V" /\ d.kind = "destructor" THEN [d EXCEPT !.name = <<"~", "V">>] ELSE d

Legal(d) ==
  /\ d.trailing => ~d.paren
  /\ d.friend \/ d.lex = SubSeq(d.sem, 1, Len(d.lex))
  /\ d.overrides \/ d.virtualBefore \/ Has(d, "virtual") \/ (d.virt = <<>> /\ d.body # "pure")
  /\ Range(d.virt) # {} \/ d.body = "pure" \/ Has(d, "virtual") => d.lex = d.sem /\ ~d.friend
  /\ "override" \in Range(d.virt) => d.overrides
  /\ d.friend => d.before = <<>> /\ d.body = "declaration" /\ d.front = <<>>
  /\ d.body = "default" => d.ret = IntType
  /\ d.kind = "conversion" => d.nameAttr = <<>>
  /\ d.kind = "variable" /\ d.default # <<>> => d.body = "definition"

Kinds == {"function", "static", "method", "conversion", "constructor", "destructor"} \cup VariableKinds

\* Types of up to three layers, and pointers to member functions.
Constness == {{}, {"const"}}

Over(type) ==
  LET op == Last(type).op IN
  IF op \in {"&", "&&"} THEN {}
  ELSE {Append(type, Layer(o, cv, <<>>)) : o \in {"*", "S::*"}, cv \in Constness}
         \cup {Append(type, Plain(o)) : o \in {"&", "&&"} \cup (IF op = "()" THEN {} ELSE {"[]"})
                                                     \cup (IF op \in {"()", "[]"} THEN {} ELSE {"()"})}

LeafTypes == {<<Layer(op, cv, <<>>)>> : op \in Leaves, cv \in Constness \cup {{"const", "volatile"}}}

MemberFunctions ==
  {<<Plain("int"), Layer("()", cv, ref), Layer("S::*", own, <<>>)>> :
     cv \in SUBSET {"const", "volatile"}, ref \in {<<>>, <<"&">>, <<"&&">>}, own \in Constness}

Types2 == UNION {Over(t) : t \in LeafTypes}

MCTypes ==
  {t \in LeafTypes \cup Types2 \cup UNION {Over(t) : t \in {t \in Types2 : t[1].op \in {"int", "member", "is_const"}}}
           \cup MemberFunctions \cup UNION {Over(t) : t \in MemberFunctions} : Last(t).op # "()"}

\* Every two variations of a declaration of every kind, but of a static member function
\* one, since it is parsed as a method is and written as a function; and a variable of
\* every type.
Varied(kind) ==
  {Renamed(v @@ w @@ BaseOf(kind)) :
     v \in Variations(kind), w \in IF kind = "static" THEN {[name |-> <<"f">>]} ELSE Variations(kind)}

MCDeclarations ==
  UNION {{d \in Varied(kind) : Legal(d)} : kind \in Kinds} \cup {[ret |-> t] @@ BaseOf("variable") : t \in MCTypes}
=============================================================================
