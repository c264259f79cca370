---------------------------- MODULE Declarations ----------------------------
(***************************************************************************)
(* The entity of a declaration against what the declaration means, and what *)
(* is written for the entity against both.                                  *)
(***************************************************************************)
EXTENDS FunctionParser

-----------------------------------------------------------------------------
\* The meaning of a declaration, as the documentation of the entities has it.
Meaning(d) ==
  [scope |-> WrittenScope(d),
   storage |-> {s \in {"static", "extern", "thread_local"} : Has(d, s) \/ (s = "static" /\ d.kind = "static")},
   specifiers |-> {s \in {"constexpr", "consteval", "explicit", "mutable"} : Has(d, s)},
   virtual |-> IF d.kind \notin MemberKinds \/ ~IsVirtual(d) THEN {}
               ELSE {"virtual"} \cup {s \in {"override"} : d.overrides}
                      \cup ({"final"} \cap Range(d.virt)) \cup ({"pure"} \cap {d.body}),
   cv |-> Range(d.cv),
   ref |-> d.ref,
   noexcept |-> IF d.except = <<>> \/ d.except[1] = "throw" THEN <<>>
                ELSE IF Len(d.except) = 1 THEN <<"true">> ELSE Tail(d.except),
   body |-> IF IsDefinition(d) THEN "definition" ELSE IF d.body = "pure" THEN "declaration" ELSE d.body,
   default |-> d.default,
   attributes |-> Attributes(d)]

ParsedFields(d) ==
  {"storage", "specifiers", "attributes"}
    \cup (IF d.kind \in VariableKinds THEN {"default"} ELSE {"virtual", "cv", "ref", "noexcept", "body"})

-----------------------------------------------------------------------------
\* What is known not to be parsed, or to be parsed as something else.

\* Parentheses around a declarator in parentheses: only the first is skipped.
SuffixUnread(d) ==
  ~d.trailing /\ 1 < Cardinality({n \in 2 .. Len(d.ret) : /\ d.ret[n].op \notin {"[]", "()"}
                                                         /\ d.ret[n - 1].op \in {"[]", "()"}})

\* An attribute is expected in front of the qualifiers, not behind them.
VirtualsUnread(d) == SuffixUnread(d) \/ (d.attr # <<>> /\ d.virt # <<>> /\ d.cv \o d.ref \o d.except # <<>>)

\* The arguments of the class after the name of a constructor; attributes where the "(" of
\* a destructor is expected; a conversion to a type in which parentheses follow that are
\* neither empty nor begin with another bracket; a name that begins the return type as well.
Rejected(d) ==
  \/ d.kind = "constructor" /\ d.args # <<>>
  \/ d.kind = "destructor" /\ d.nameAttr # <<>>
  \/ d.kind = "conversion" /\ d.ret[1].op = "decl"
  \/ d.body = "pure" /\ VirtualsUnread(d)
  \/ d.paren /\ d.args # <<>>
  \/ d.kind = "function" /\ d.name = <<d.ret[1].op>> /\ Len(d.ret) > 1

\* explicit is not explicit(false); a builder is told of one specifier only, that of a
\* destructor of none; the constexpr of a lambda is taken for one of the variable.
SpecifiersLost(d) ==
  \/ \E k \in DOMAIN d.front : Head(d.front[k]) = "explicit" /\ Len(d.front[k]) > 1
  \/ d.kind \in {"constructor", "conversion"} /\ Cardinality(Meaning(d).specifiers) > 1
  \/ d.kind = "destructor" /\ Has(d, "constexpr")
  \/ d.kind = "variable" /\ ~Has(d, "constexpr") /\ "constexpr" \in Range(d.default)

\* A pure function is not asked whether it overrides, any other that is virtual without
\* saying so is taken to override.
VirtualLost(d) ==
  \/ d.body = "pure" /\ d.overrides /\ "override" \notin Range(d.virt)
  \/ d.kind \in MemberKinds /\ d.virtualBefore /\ ~d.overrides
  \/ VirtualsUnread(d) /\ "final" \in Range(d.virt)

\* alignas ends a sequence of attributes, and a "[" that begins none is skipped.
AttributesLost(d) ==
  \/ \E k \in 1 .. Len(d.before) - 1 : Head(d.before[k]) = "alignas" /\ Head(d.before[k + 1]) = "["
  \/ d.args # <<>> /\ d.nameAttr # <<>>

Lost(d) ==
  {f \in ParsedFields(d) :
     CASE f = "specifiers" -> SpecifiersLost(d)
       [] f = "virtual" -> VirtualLost(d)
       [] f = "body" -> VirtualsUnread(d) /\ d.body \in {"delete", "default"}
       [] f = "attributes" -> AttributesLost(d)
       [] f = "default" -> d.default # <<>> /\ \E k \in DOMAIN d.nameAttr : Head(d.nameAttr[k]) = "alignas"
       [] OTHER -> FALSE}

-----------------------------------------------------------------------------
Parsed == pc = "built"
Finished == pc = "done"

\* The heuristics that find the end of the prefix, of the parameters and of the type reject
\* no declaration but those listed, and do not let those through half parsed: nothing
\* of a well-formed file is dropped silently.
AcceptsDeclarations ==
  /\ pc = "error" => Rejected(decl)
  /\ Finished => ~Rejected(decl)

\* What the parser finds in the tokens in front of the name and behind the parameters,
\* wherever attributes, macros and other declarations stand next to them, is what the
\* declaration says, with the exceptions listed.
ParsedAsWritten ==
  Parsed => \A f \in ParsedFields(decl) : entity[f] = Meaning(decl)[f] <=> f \notin Lost(decl)

\* A type is written with the tokens it had, qualifiers behind the name and parentheses
\* where precedence demands them, unless it is one of those the spelling of libclang
\* hides something of (TypeChanged); those are all written differently.
TypesSurvive ==
  Parsed =>
    /\ entity.type # <<>> =>
         (WriteType(entity.type, <<"x">>) = WrittenType(decl.ret, <<"x">>) <=> ~TypeChanged(decl.ret))
    /\ decl.kind \notin VariableKinds => \A k \in DOMAIN decl.params :
         /\ entity.params[k].default = decl.params[k].default
         /\ \/ TypeChanged(decl.params[k].type)
            \/ WriteType(entity.params[k].type, <<>>) = WrittenType(decl.params[k].type, <<>>)

\* The scope written in front of the name of a definition or of a friend names, looked up
\* from where the entity is, what libclang says its parent is.
ScopeResolves ==
  Parsed /\ decl.kind \notin {"member", "bitfield"} =>
    \E n \in 0 .. Len(DefinitionScope) :
      /\ SubSeq(DefinitionScope, 1, n) = SubSeq(decl.sem, 1, n)
      /\ FlattenSeq(entity.scope) = ScopeTokens(SubSeq(decl.sem, n + 1, Len(decl.sem)))
      /\ ~decl.friend => n = Len(decl.lex)

\* What the code generator writes for an entity is parsed as the same entity again: the
\* two components agree on the syntax of every part.  A definition is written as a
\* declaration on purpose; its virtual specifiers are not, nor is virtual next to constexpr.
WrittenParsesBack ==
  Finished =>
    \A f \in ParsedFields(decl) \ {"attributes"} :
      \/ again[f] = entity[f]
      \/ f = "body" /\ entity.body = "definition" /\ again.body = "declaration"
      \/ f = "virtual" /\ (entity.defined \/ WriteConstant(entity) # <<>>)

\* What the user of the generator excludes does not influence the text: with
\* exclude_return no type is told from another, with exclude_noexcept_condition no
\* condition from another.
ExcludedIsHidden ==
  Parsed /\ HasReturn /\ ~IsVariable =>
    LET Written(e) == GenerateCode(e, {"exclude_return", "exclude_noexcept_condition"}) IN
    /\ \A other \in {<<Plain("int")>>, <<Plain("int"), Plain("[]"), Plain("*")>>} :
         Written(entity) = Written([entity EXCEPT !.type = ParseType(other)])
    /\ Len(entity.noexcept) > 1 /\ entity.noexcept[2] # "false" =>
         Written(entity) = Written([entity EXCEPT !.noexcept = <<"(", "other", ")">>])

\* The loops over the tokens end: each round moves the stream or gives up, whatever
\* tokens are next.
ParsingEnds == <>(pc \in {"done", "error"})

\* An explicit constructor is parsed as explicit.
ExplicitKept ==
  Parsed /\ decl.kind = "constructor" /\ Has(decl, "explicit") => "explicit" \in entity.specifiers
=============================================================================
