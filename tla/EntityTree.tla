----------------------------- MODULE EntityTree -----------------------------
(***************************************************************************)
(* One file through the program: it is parsed, and then its tree is        *)
(* visited, or code is generated for it, or it is asked for definitions    *)
(* and classes.                                                            *)
(***************************************************************************)
EXTENDS CodeGenerator

CONSTANTS
    MaxFilters,     \* bound on the entities a filter does not include (model checking only)
    MaxOptions      \* bound on the entities with options (model checking only)

vars == <<mode, treeVars, parseVars, indexVars, visitVars, generatorVars>>

\* The entities that can be reached from the file, which owns them.
Tree == {e \in DOMAIN entities : e = 1 \/ 1 \in Ancestors(e)}

\* All entities the same but for a few; after an error for none (model checking only).
Assignments(default, others, most) ==
  LET tree == Tree
      differing[n \in 0 .. most] ==
        IF n = 0 THEN {[e \in DOMAIN entities |-> default]}
        ELSE LET fewer == differing[n - 1]
             IN fewer \cup {[f EXCEPT ![e] = o] : f \in fewer, e \in tree, o \in others}
  IN differing[IF error THEN 0 ELSE most]

Init ==
  /\ ParseInit
  /\ open = <<>> /\ events = <<>> /\ filter = <<>> /\ refused = {}
  /\ options = <<>> /\ writing = <<>> /\ text = <<>>

Parse == ParseNext /\ UNCHANGED <<visitVars, generatorVars>>

BeginVisit ==
  /\ mode = "parsed"
  /\ \E f \in Assignments("include", {"exclude", "exclude_and_children"}, MaxFilters) : StartVisit(1, f)
  /\ UNCHANGED generatorVars

ContinueVisit == VisitNext /\ UNCHANGED generatorVars

BeginGenerate ==
  /\ mode = "parsed"
  /\ \E o \in Assignments("none", {"exclude", "custom", "declaration"}, MaxOptions) : StartGenerate(1, o)

Stop == mode \in {"visited", "generated", "crashed"} /\ UNCHANGED vars

Next == Parse \/ BeginVisit \/ ContinueVisit \/ BeginGenerate \/ GenerateNext \/ Stop

Spec == Init /\ [][Next]_vars

-----------------------------------------------------------------------------
(* The tree and the file it was made from. *)

\* The cursors that become a part of what is above them.
PartKinds == {"base"} \cup ParameterKinds

\* A cursor the parser understands, with all that is needed for it.
Sound(c) ==
  LET sound[k \in Cursors] ==
        /\ Cursor(k).bad = ""
        /\ \A j \in Cursors :
             Cursor(j).parent = k /\ (KindOf(j) \in PartKinds \/ KindOf(k) = "alias_template") => sound[j]
        /\ KindOf(k) = "friend" =>
             \E j \in Cursors : Cursor(j).parent = k /\ KindOf(j) \notin {"namespace_ref", "expression"} /\ sound[j]
  IN sound[c]

\* The class or alias that a friend declares without a declaration.
Alone(c) ==
  \E r \in Cursors :
    /\ KindOf(r) = "type_ref" /\ Cursor(r).target = c
    /\ \A k \in Cursors : Cursor(k).parent = Cursor(r).parent => k = r

OnlyNamed(e) ==
  /\ Parent(e) # NoObject /\ entities[Parent(e)].kind = "friend"
  /\ Cursor(entities[e].cursor).parent # entities[Parent(e)].cursor

MemberKinds ==
  LeafKinds \cup ContainerKinds \cup ClassKinds \cup TemplateKinds \cup {"friend", "access_specifier", "include", "macro"}

Sounds(c, kinds) == SelectSeq(Below(c, kinds), Sound)
Kinds(cursors) == [k \in DOMAIN cursors |-> <<KindOf(cursors[k]), cursors[k]>>]

\* What C++ has below an entity: the kind and the cursor of each.
Meant(e, role) ==
  LET c == entities[e].cursor
      kind == entities[e].kind
      members == Kinds(Sounds(c, MemberKinds))
  IN CASE role = "base" -> IF kind = "class" /\ ~OnlyNamed(e) THEN Kinds(Sounds(c, {"base"})) ELSE <<>>
       [] role = "parameter" ->
            IF kind = "macro" THEN Kinds(Below(c, {"macro_parameter"}))
            ELSE IF kind \in TemplateKinds \cup {"template_parameter"} THEN Kinds(Sounds(c, ParameterKinds))
            ELSE <<>>
       [] kind = "file" -> Kinds(Sounds(0, {"include"})) \o Kinds(Sounds(0, MemberKinds \ {"include"}))
       [] kind \in ClassKinds \ {"class"} -> <<<<"class", c>>>>
       [] kind \in FunctionTemplateKinds -> <<<<"function", c>>>>
       [] kind = "friend" ->
            members \o (LET refs == Below(c, {"type_ref"})
                        IN IF refs # <<>> /\ Alone(Cursor(refs[1]).target) /\ KindOf(Cursor(refs[1]).target) # "type_parameter"
                              /\ Below(c, ReferenceKinds) = refs
                           THEN Kinds(<<Cursor(refs[1]).target>>) ELSE <<>>)
       [] kind \in ContainerKinds \cup {"class", "alias_template"} /\ ~OnlyNamed(e) -> members
       [] OTHER -> <<>>

\* The tree that is parsed is the one C++ has: every declaration the parser understands is an
\* entity in the place it is declared in, in order, a template around what it is a template
\* of; what it does not understand is missing as a whole and reported; and nothing else is
\* there.  libclang_parser::do_parse, parse_entity and the builders it calls.  Includes come
\* before all the rest; and a friend that names alone a class which is not understood
\* dereferences a null pointer (parse_cpp_friend).
TreeMatchesFile ==
  /\ mode = "parsed" =>
       /\ \A e \in Tree, role \in {"child", "base", "parameter"} :
            LET below == ChildrenOf(e, role)
            IN [k \in DOMAIN below |-> <<entities[below[k]].kind, entities[below[k]].cursor>>] = Meant(e, role)
       /\ error <=> \E c \in Cursors : ~Sound(c)
  /\ mode \in {"parsed", "crashed"} =>
       (mode = "crashed" <=> \E c \in Cursors : Alone(c) /\ Cursor(c).bad = "declaration")

-----------------------------------------------------------------------------
(* Comments. *)

\* What a comment can be about: of a template the template, of a friend declaration the
\* friend, of namespaces that are opened at once the last.
Documentable(e) ==
  /\ entities[e].kind \in MemberKinds \ {"access_specifier", "macro", "concept"}
  /\ ~Templated(e) /\ entities[Parent(e)].kind # "friend"
  /\ \A n \in Tree : Parent(n) = e => ~(entities[n].kind = "namespace" /\ Cursor(entities[n].cursor).nested)

Beside(k, c) == Comments[k].line + (IF Comments[k].eol THEN 0 ELSE 1) = Cursor(c).line

\* A documentation comment in the line before an entity, or at the end of its line, is given
\* to that entity and to no other, although includes are parsed out of order, templates and
\* friends take the comment of what they wrap, and a comment that was passed never comes
\* back; unless the comment is lost with a declaration that is not understood.
\* comment_context::match, handle_comment_attributes, parse_cpp_friend, the builder of
\* namespaces.  A concept never gets its comment.
CommentsFound == mode = "parsed" =>
  /\ \A e \in Tree : entities[e].comment # 0 =>
       /\ Documentable(e) /\ Beside(entities[e].comment, entities[e].cursor)
       /\ \A other \in Tree : entities[other].comment = entities[e].comment => other = e
  /\ \A k \in DOMAIN Comments :
       (\E e \in Tree \ {1} : Documentable(e) /\ Beside(k, entities[e].cursor)) =>
         \/ \E e \in Tree : entities[e].comment = k
         \/ \E c \in Cursors : ~Sound(c) /\ Beside(k, c)

-----------------------------------------------------------------------------
(* References. *)

\* The definitions of an id that are in the tree.
Definitions(id) ==
  {d \in Tree \ {1} : Cursor(entities[d].cursor).usr = id /\ ~Templated(d) /\ IsDefinition(d)}

\* For every declaration the index gives the definition, the latest if there are more, or
\* nothing if there is none; of its kind, but for the declaration inside a template, for
\* which it gives the template.  get_definition and get_definition_impl, with what the
\* builders have registered.  Only after an error may it be an entity that is destroyed: the
\* member of a template whose parameters were not understood.
DefinitionsResolve == mode = "parsed" =>
  \A e \in Tree : Declarable(e) # NoObject /\ ~IsDefinition(e) =>
    LET found == GetDefinition(e)
        definitions == Definitions(entities[Declarable(e)].declares)
    IN /\ IF found \in Tree \cup {NoObject}
          THEN found = (IF definitions = {} THEN NoObject ELSE Max(definitions))
          ELSE error
       /\ GetDefinitionOfKind(e) = Assertion <=> Templated(e) /\ found # NoObject

\* The type an alias stands for when the aliases it is made of are followed; the parser has
\* seen them before.
Underlying(type) ==
  LET named(t) ==
        {a \in Cursors :
           t.kind \in TypeNaming /\ Sound(a) /\ KindOf(a) \in {"type_alias", "alias_template"} /\ Cursor(a).usr = t.id}
      aliased(a) == Cursor(IF KindOf(a) = "type_alias" THEN a ELSE Below(a, {"type_alias"})[1]).type
      meant[a \in Cursors] ==
        IF named(aliased(a)) = {} THEN aliased(a) ELSE meant[CHOOSE b \in named(aliased(a)) : TRUE]
  IN IF named(type) = {} THEN type ELSE meant[CHOOSE a \in named(type) : TRUE]

\* The class of a base is found through any number of aliases and alias templates, in its
\* template if it has one; of a type that depends on a parameter, and of a class the file
\* does not have, there is none.  get_class.  An alias of a qualified type ends in an
\* assertion instead.  Only after an error may a class be found that is destroyed: the member
\* of a specialization whose arguments were not understood.
BasesResolve == mode = "parsed" =>
  \A b \in Tree : entities[b].kind = "base" =>
    LET type == Underlying(Cursor(entities[b].cursor).type)
        found == GetClass(Cursor(entities[b].cursor).type)
        classes == {e \in Tree : entities[e].kind = "class" /\ Cursor(entities[e].cursor).usr = type.id /\ ~OnlyNamed(e)}
    IN CASE type.kind \in TypeNaming /\ classes # {} -> found \in classes
         [] type.kind \in TypeNaming /\ classes = {} -> found = NoObject \/ (found \notin Tree /\ error)
         [] type.kind \in TypeDependent -> found = NoObject
         [] OTHER -> found = Assertion

-----------------------------------------------------------------------------
(* The visit. *)

\* Of the two, the one that is before the other in the file or is around it.
Before(a, b) ==
  \E x \in {a} \cup Ancestors(a), y \in {b} \cup Ancestors(b) : Parent(x) = Parent(y) /\ x < y

Skipping(e) ==
  filter[e] = "exclude_and_children" \/ \E k \in refused : events[k].type = "enter" /\ events[k].entity = e

\* What the callback should be told about: no bases, no parameters and not what a friend
\* declares, nothing that is filtered out and nothing below what is skipped.
Shown(e) ==
  /\ filter[e] = "include"
  /\ \A k \in {e} \cup Ancestors(e) : entities[k].role = "child"
  /\ \A a \in Ancestors(e) : entities[a].kind # "friend" /\ ~Skipping(a)

Aborted == \E k \in refused : events[k].type # "enter"

\* The callback is told about every entity that is not filtered out or skipped exactly once,
\* about a container when it is entered and, skipped or not, when it is left; with
\* everything below it in between, in the order of the file; the last child of a parent, and
\* no other, is called so; and an answer that aborts is the end.  detail::visit,
\* handle_container and the filter.  An abort leaves containers without their exit event.
EventsNest == mode = "visited" =>
  /\ \A i, j \in DOMAIN events : i < j =>
       LET a == events[i]
           b == events[j]
       IN \/ a.entity = b.entity /\ a.type = "enter" /\ b.type = "exit"
          \/ a.entity \in Ancestors(b.entity) /\ a.type = "enter"
          \/ b.entity \in Ancestors(a.entity) /\ b.type = "exit"
          \/ Before(a.entity, b.entity)
  /\ \A i \in DOMAIN events :
       LET e == events[i].entity
       IN /\ Shown(e)
          /\ events[i].last <=> e # 1 /\ e = Last(ChildrenOf(Parent(e), "child"))
  /\ IF Aborted THEN Len(events) \in refused
     ELSE \A e \in Tree : Shown(e) =>
            {events[i].type : i \in {k \in DOMAIN events : events[k].entity = e}} =
              (IF IsContainer(e) THEN {"enter", "exit"} ELSE {"leaf"})

-----------------------------------------------------------------------------
(* Access and text. *)

\* The access C++ gives to a member: that of the last specifier before it, if there is one.
MemberAccess(e) ==
  LET c == entities[Parent(e)].cursor
      specifiers ==
        {k \in Cursors : KindOf(k) = "access_specifier" /\ Cursor(k).parent = c /\ k <= entities[e].cursor}
  IN IF entities[Parent(e)].kind # "class" THEN "public"
     ELSE IF specifiers # {} THEN Cursor(Max(specifiers)).access
     ELSE IF Cursor(c).struct THEN "public" ELSE "private"

\* A member is visited with the access C++ gives it; and in the code that is generated it
\* stands behind the specifier of that access, or behind none if it has the default one,
\* whatever members are left out in between.  detail::visit and generate_class.  What is
\* inside a template is visited as public, also when the template is a private member.
AccessAgrees ==
  /\ mode = "visited" => \A i \in DOMAIN events :
       events[i].access = (IF events[i].entity = 1 THEN "public" ELSE MemberAccess(events[i].entity))
  /\ mode = "generated" => \A i \in DOMAIN text :
       LET e == text[i].entity
           class == Parent(e)
           written == {k \in 1 .. i : text[k].mark = "access" /\ text[k].entity = class}
       IN text[i].mark = "begin" /\ e # 1 /\ entities[class].kind = "class" /\ entities[e].role = "child" =>
            /\ text[i].access = MemberAccess(e)
            /\ MemberAccess(e) = (IF written = {} THEN InitialAccess(class) ELSE text[Max(written)].access)

\* What there is of a list in the text: its separators, its items, and the ellipsis.
Separates(e, role) == IF role = "child" /\ entities[e].kind # "enum" THEN "newline" ELSE ","
Listed(e, role) ==
  SelectSeq(text, LAMBDA m :
    \/ m.entity = e /\ m.mark \in {Separates(e, role), "..."}
    \/ m.mark = "begin" /\ Parent(m.entity) = e /\ entities[m.entity].role = role)

\* In the code that is generated there is one separator between two items of a list that are
\* written one after the other, and none before the first, behind the last or in the place
\* of an item that is left out.  write_container, write_template_parameters, write_bases and
\* generate_macro_definition.  There are two exceptions: no separator is written behind an
\* item the callback writes itself, and one is left behind if the bases after it are
\* excluded.
SeparatorsBetween == mode = "generated" =>
  \A e \in Tree, role \in {"child", "base", "parameter"} :
    LET listed == Listed(e, role)
        separator(i) == listed[i].mark = Separates(e, role)
        output(i) == listed[i].mark = "..." \/ (listed[i].mark = "begin" /\ OutputTrue(listed[i].entity))
        excluded(i) == listed[i].mark = "begin" /\ Excluded(listed[i].entity)
    IN ChildrenOf(e, role) # <<>> =>
       /\ \A i \in DOMAIN listed : separator(i) =>
            /\ i > 1 /\ output(i - 1)
            /\ i < Len(listed) /\ ~separator(i + 1) /\ (excluded(i + 1) => role = "base")
       /\ \A i \in 1 .. Len(listed) - 1 : output(i) => separator(i + 1)

\* What is generated of an entity, in the places of the text.
Own(e) == {i \in DOMAIN text : text[i].entity = e}
At(mark, e) == {i \in Own(e) : text[i].mark = mark}

Reached(e) ==
  \A a \in Ancestors(e) : OutputTrue(a) /\ ~(entities[a].kind \in {"class", "enum"} /\ OnlyDeclared(a))

\* Every entity that is neither excluded nor written by the callback is generated exactly
\* once, between its on_begin and its on_end, and so is all that is below it; of any other
\* entity, and below it, and inside of what is only declared, there is nothing but the
\* question to the callback.  code_generator::output and the generate functions.
WrittenOnce == mode = "generated" =>
  /\ \A e \in Tree :
       IF Reached(e) /\ OutputTrue(e) /\ entities[e].kind # "access_specifier"
       THEN \E begin, end \in Own(e) :
              /\ At("begin", e) = {begin} /\ At("end", e) = {end}
              /\ \A d \in Tree : d = e \/ e \in Ancestors(d) => Own(d) \subseteq begin .. end
       ELSE Own(e) = At("begin", e) /\ Cardinality(Own(e)) <= (IF Reached(e) THEN 1 ELSE 0)
  /\ \A i \in DOMAIN text : text[i].entity \in Tree
=============================================================================
