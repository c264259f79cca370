-------------------------------- MODULE Types --------------------------------
(***************************************************************************)
(* Types: how libclang spells one, what type_parser.cpp makes of it, and    *)
(* what cpp_type.cpp writes.                                                *)
(*                                                                         *)
(* A C++ type is a sequence of layers from the name outwards: int *const is *)
(* the layer "int" and a layer "*" with cv {const}.  The types of cppast    *)
(* are sequences as well, but with a layer of its own for qualifiers, and   *)
(* "mfun" and "mobj" below the pointer of a pointer to member.              *)
(***************************************************************************)
EXTENDS Integers, Sequences, SequencesExt

Layer(op, cv, ref) == [op |-> op, cv |-> cv, ref |-> ref]
Plain(op) == Layer(op, {}, <<>>)

CvTokens(cv) == SelectSeq(<<"const", "volatile">>, LAMBDA t : t \in cv)

\* The names a type is built from, by the kind libclang gives them.
LeafKind ==
  [int |-> "builtin", T |-> "typedef", is_const |-> "record", member |-> "typedef",
   vec |-> "instantiation", decl |-> "decltype", parens |-> "decltype", P |-> "parameter", dependent |-> "unexposed"]

Leaves == DOMAIN LeafKind

LeafTokens(leaf) ==
  CASE leaf = "member" -> <<"C", "::", "member">>
    [] leaf = "vec" -> <<"vec", "<", "int", ">">>
    [] leaf = "decl" -> <<"decltype", "(", "x", ")">>
    [] leaf = "parens" -> <<"decltype", "(", "(", "x", ")", ")">>
    [] leaf = "dependent" -> <<"typename", "P", "::", "type">>
    [] OTHER -> <<leaf>>

\* What the layers of a type put in front of the name and behind it.
InFront(type, Tokens(_)) == FlattenSeq([n \in DOMAIN type |-> Tokens(n)])
Behind(type, Tokens(_)) == FlattenSeq(Reverse([n \in DOMAIN type |-> Tokens(n)]))

\* The spelling of a C++ type.  east: qualifiers follow the name, and a pointer to
\* a data member is in parentheses, the way cppast writes types.
SpellType(type, east) ==
  LET Leaf(l) == IF east /\ LeafKind[l.op] # "unexposed"
                 THEN (IF l.op = "member" THEN <<"member">> ELSE LeafTokens(l.op)) \o CvTokens(l.cv)
                 ELSE CvTokens(l.cv) \o LeafTokens(l.op)
      Suffixed(n) == type[n].op \in {"[]", "()"}
      Paren(n) == Suffixed(n - 1) \/ (east /\ type[n].op = "S::*")
      Pre(n) == IF n = 1 THEN Leaf(type[1])
                  ELSE IF Suffixed(n) THEN <<>>
                  ELSE (IF Paren(n) THEN <<"(">> ELSE <<>>)
                         \o (IF type[n].op = "S::*" THEN <<"S", "::", "*">> ELSE <<type[n].op>>) \o CvTokens(type[n].cv)
      Suf(n) == IF n = 1 THEN <<>>
                 ELSE IF type[n].op = "[]" THEN <<"[", "2", "]">>
                 ELSE IF type[n].op = "()" THEN <<"(", ")">> \o CvTokens(type[n].cv) \o type[n].ref
                 ELSE IF Paren(n) THEN <<")">> ELSE <<>>
  IN  [pre |-> InFront(type, Pre), suf |-> Behind(type, Suf)]

\* The declaration of name with the type.
WrittenType(type, name) == LET s == SpellType(type, TRUE) IN s.pre \o name \o s.suf

Spelling(type) == LET s == SpellType(type, FALSE) IN s.pre \o s.suf

-----------------------------------------------------------------------------
\* type_parser.cpp

\* remove_suffix() of "const" also shortens a name that ends in it.
Split(name) == IF name = "is_const" THEN <<"is_", "const">> ELSE <<name>>

\* const and volatile, once each, in either order.
Cv == {"const", "volatile"}

SuffixCv(s) ==
  LET strip[q \in Seq(STRING) \X SUBSET Cv] ==
        LET c == IF q[1] = <<>> THEN <<"">> ELSE Front(q[1]) \o Split(Last(q[1]))
        IN  IF Last(c) \in Cv \ q[2] THEN strip[<<Front(c), q[2] \cup {Last(c)}>>]
            ELSE [rest |-> q[1], cv |-> q[2]]
  IN  strip[<<s, {}>>]

PrefixCv(s) ==
  LET strip[q \in Seq(STRING) \X SUBSET Cv] ==
        IF q[1] # <<>> /\ Head(q[1]) \in Cv \ q[2] THEN strip[<<Tail(q[1]), q[2] \cup {Head(q[1])}>>]
        ELSE [rest |-> q[1], cv |-> q[2]]
  IN  strip[<<s, {}>>]

\* A typedef of the same class is spelled with scopes, which are cut off with
\* everything in front of them.
GetTypeSpelling(l) ==
  IF l.op = "member" THEN <<"member">> ELSE CvTokens(l.cv) \o LeafTokens(l.op)

Qualified(cv) == IF cv = {} THEN <<>> ELSE <<Layer("cv", cv, <<>>)>>

\* The text of the name that remains is kept for every kind but builtins.
MakeLeaveType(l) ==
  LET prefix == PrefixCv(GetTypeSpelling(l))
      suffix == SuffixCv(prefix.rest)
  IN  IF LeafKind[l.op] = "unexposed" THEN <<[op |-> "leaf", text |-> GetTypeSpelling(l)]>>
      ELSE <<[op |-> "leaf", text |-> suffix.rest]>> \o Qualified(prefix.cv \cup suffix.cv)

\* The ref-qualifier and then the qualifiers at the end of the spelling of a pointer
\* to member are those of the class.
MemberPointee(type, n) ==
  LET s == Spelling(SubSeq(type, 1, n))
      ref == IF Last(s) \in {"&", "&&"} THEN <<Last(s)>> ELSE <<>>
      cv == SuffixCv(IF ref = <<>> THEN s ELSE Front(s)).cv
  IN  Layer(IF type[n - 1].op = "()" THEN "mfun" ELSE "mobj", cv, ref)

ParsedLayer(type, n) ==
  LET l == type[n] IN
  CASE n = 1 -> MakeLeaveType(l)
    [] l.op = "*" -> <<Plain("*")>> \o Qualified(SuffixCv(Spelling(SubSeq(type, 1, n))).cv)
    [] l.op = "S::*" -> <<MemberPointee(type, n), Plain("*")>>
    [] l.op = "()" /\ n < Len(type) /\ type[n + 1].op = "S::*" -> <<>>
    [] OTHER -> <<Plain(l.op)>>

ParseType(type) == FlattenSeq([n \in 1 .. Len(type) |-> ParsedLayer(type, n)])

-----------------------------------------------------------------------------
\* cpp_type.cpp

IsDirectComplex(l) == l.op \in {"[]", "()", "mfun", "mobj"}

IsComplexType(type) == \E n \in DOMAIN type : IsDirectComplex(type[n])

PointerRequiresParenIfFunction(pointee) == pointee.op = "()"

PointerRequiresParen(pointee) == pointee.op \in {"()", "[]"}

WriteParen(type, n) ==
  CASE type[n].op \in {"cv", "&", "&&"} -> IsDirectComplex(type[n - 1])
    [] type[n].op = "*" -> PointerRequiresParen(type[n - 1])
    [] OTHER -> FALSE

\* The parenthesis a member type opens is closed by its own suffix.
WriteTypePrefix(type) ==
  LET Tokens(n) ==
        LET l == type[n] IN
        CASE n = 1 -> l.text
          [] n > 1 /\ l.op \in {"[]", "()"} -> <<>>
          [] n > 1 /\ l.op = "mfun" -> <<"(", "S", "::">>
          [] n > 1 /\ l.op = "mobj" -> <<"(", "S">> \o CvTokens(l.cv) \o <<"::">>
          [] OTHER -> (IF WriteParen(type, n) THEN <<"(">> ELSE <<>>)
                        \o (IF l.op = "cv" THEN CvTokens(l.cv) ELSE <<l.op>>)
  IN  InFront(type, Tokens)

\* And for a data member that is all of the suffix.
WriteTypeSuffix(type) ==
  LET Tokens(n) ==
        LET l == type[n] IN
        CASE n = 1 \/ (\E k \in n + 1 .. Len(type) : type[k].op = "mobj") -> <<>>
          [] OTHER -> CASE l.op = "[]" -> <<"[", "2", "]">>
                        [] l.op = "()" -> <<"(", ")">>
                        [] l.op = "mfun" -> <<")", "(", ")">> \o CvTokens(l.cv) \o l.ref
                        [] l.op = "mobj" \/ WriteParen(type, n) -> <<")">>
                        [] OTHER -> <<>>
  IN  Behind(type, Tokens)

WriteType(type, name) == WriteTypePrefix(type) \o name \o WriteTypeSuffix(type)

-----------------------------------------------------------------------------
\* The types that do not survive, each for a reason of its own: the name ends in const;
\* the scope is cut off with the qualifier; the qualifier of a pointer is not at the end
\* of the spelling, or not that of the pointer; a suffix is behind a data member.
NameShortened(type) == type[1].op = "is_const"
QualifierCutOff(type) == type[1].op = "member" /\ type[1].cv # {}
PointerQualifierLost(type) ==
  \E n \in 2 .. Len(type) :
    LET suf == SpellType(SubSeq(type, 1, n), FALSE).suf IN
    \/ type[n].op = "S::*" /\ type[n].cv # {}
    \/ type[n].op = "*" /\ suf # <<>> /\ SuffixCv(suf).cv # type[n].cv
MemberSuffixLost(type) ==
  \E n \in 2 .. Len(type) : /\ type[n].op = "S::*" /\ type[n - 1].op # "()"
                            /\ SpellType(SubSeq(type, 1, n - 1), TRUE).suf # <<>>

TypeChanged(type) ==
  NameShortened(type) \/ QualifierCutOff(type) \/ PointerQualifierLost(type) \/ MemberSuffixLost(type)
=============================================================================
