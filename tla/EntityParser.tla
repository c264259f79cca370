---------------------------- MODULE EntityParser ----------------------------
(***************************************************************************)
(* From the cursors of a translation unit to the tree of entities: the loop *)
(* of do_parse over the top-level cursors, parse_entity with the builders   *)
(* of the containers, and the comments that are given to entities on the    *)
(* way.  A call of parse_entity that is under way is a frame of the stack;  *)
(* what it throws unwinds the stack to the frame that catches it.           *)
(*                                                                         *)
(* A cursor is in the file in preorder and names the cursor it is below (0  *)
(* for the translation unit).  bad says that its tokens are not what the    *)
(* parser expects; types, names and tokens are otherwise left out here and  *)
(* are the subject of Declarations.                                         *)
(***************************************************************************)
EXTENDS EntityIndex, SequencesExt, FiniteSetsExt

CONSTANTS
    Files,      \* the source files, each with its path, comments and cursors
    NoId        \* the empty optional<cpp_entity_id>

ASSUME ParserAssumption == NoId \notin Id /\ NoObject = 0

VARIABLES
    mode,       \* what the program is doing
    file,       \* the source file
    entities,   \* the entities, in the order they were created
    stack,      \* the calls of parse_entity under way, outermost first
    macro,      \* number of macros that have been added
    comment,    \* comment_context::cur_
    matched,    \* the comments that were given to an entity
    error       \* parse_context::error

treeVars == <<file, entities>>
parseVars == <<stack, macro, comment, matched, error>>

-----------------------------------------------------------------------------
(* Cursors. *)

ParameterKinds == {"type_parameter", "non_type_parameter", "template_parameter"}
SpecializationKinds == {"class_specialization", "function_specialization"}
ClassKinds == {"class", "class_template", "class_specialization"}
FunctionTemplateKinds == {"function_template", "function_specialization"}
TemplateKinds == {"class_template", "alias_template"} \cup SpecializationKinds \cup FunctionTemplateKinds
ReferenceKinds == {"type_ref", "template_ref", "namespace_ref"}

\* The types a friend names.
TypeKinds == {"class", "type_alias", "type_parameter"}

\* Cursors parse_entity makes nothing of.
NullKinds == {"semicolon", "attribute"}

\* Cursors that become a single entity.
LeafKinds ==
  {"type_alias", "namespace_alias", "using_directive", "using_declaration", "variable", "member_variable",
   "function", "enum_value", "concept", "static_assert", "unexposed"}

ContainerKinds == {"linkage", "namespace", "enum"}

MacroKinds == {"macro"}

CursorKinds ==
  LeafKinds \cup ContainerKinds \cup ClassKinds \cup TemplateKinds \cup ParameterKinds \cup ReferenceKinds \cup NullKinds
    \cup {"include", "macro", "macro_parameter", "access_specifier", "base", "friend", "expression", "reference"}

\* What libclang reports: each cursor behind the one it is below of, bases and access
\* specifiers below classes, parameters below templates, a reference below a friend that
\* names a class, and all that the preprocessor records at the top.
WellFormed(cursors, c) ==
  LET parent == cursors[c].parent
      kind == cursors[c].kind
  IN /\ parent \in 0 .. c - 1
     /\ kind \in CursorKinds /\ cursors[c].line \in Nat /\ cursors[c].usr \in Id
     /\ kind \in {"include", "macro"} => parent = 0
     /\ kind \in {"access_specifier", "base"} => parent # 0 /\ cursors[parent].kind \in ClassKinds
     /\ kind = "class" => parent = 0 \/ cursors[parent].kind # "friend"
     /\ kind = "namespace" /\ cursors[c].nested => parent # 0 /\ cursors[parent].kind = "namespace"
     /\ kind \in ParameterKinds =>
          parent # 0 /\ cursors[parent].kind \in (TemplateKinds \ {"function_specialization"}) \cup {"template_parameter"}
     /\ kind = "macro_parameter" => parent # 0 /\ cursors[parent].kind = "macro" /\ cursors[parent].function
     /\ kind = "alias_template" => \E k \in DOMAIN cursors : cursors[k].parent = c /\ cursors[k].kind = "type_alias"
     /\ kind = "type_ref" => cursors[c].target \in DOMAIN cursors /\ cursors[cursors[c].target].kind \in TypeKinds

ASSUME FilesAssumption ==
  \A f \in Files :
    /\ Len(f.cursors) \in Nat /\ DOMAIN f.cursors = 1 .. Len(f.cursors)
    /\ \A c \in DOMAIN f.cursors : WellFormed(f.cursors, c)
    /\ f.comments \in Seq([line : Nat, eol : BOOLEAN])

Cursor(c) == file.cursors[c]
KindOf(c) == Cursor(c).kind
Cursors == DOMAIN file.cursors

\* Some cursors, or entities, in the order of the file.
InOrder(S) == [n \in 1 .. Cardinality(S) |-> CHOOSE k \in S : Cardinality({j \in S : j < k}) = n - 1]

Children(c) == InOrder({k \in Cursors : Cursor(k).parent = c})
Below(c, kinds) == InOrder({k \in Cursors : Cursor(k).parent = c /\ KindOf(k) \in kinds})

\* The order in which clang_visitChildren goes through the translation unit: what the
\* preprocessor has recorded comes first.
TopLevel ==
  Below(0, {"include"}) \o InOrder({k \in Cursors : Cursor(k).parent = 0 /\ KindOf(k) \notin {"include", "macro"}})

-----------------------------------------------------------------------------
(* Entities. *)

\* A new entity: it has no parent yet and is taken for a definition.
Entity(kind, c) ==
  [kind |-> kind, cursor |-> c, parent |-> NoObject, role |-> "child", comment |-> 0, declares |-> NoId]

Next1 == Len(entities) + 1
ChildrenOf(e, role) == InOrder({k \in DOMAIN entities : entities[k].parent = e /\ entities[k].role = role})

Templated(e) == entities[e].parent # NoObject /\ entities[e].role = "child" /\ entities[entities[e].parent].kind \in TemplateKinds

Parent(e) == entities[e].parent

\* The entities e is below of.
Ancestors(e) ==
  LET above[d \in DOMAIN entities] == IF Parent(d) = NoObject THEN {} ELSE {Parent(d)} \cup above[Parent(d)]
  IN above[e]

-----------------------------------------------------------------------------
(* The call under way, and the cursor it visits next. *)

Frame(kind, c, e, todo) ==
  [kind |-> kind, cursor |-> c, entity |-> e, todo |-> todo, comment |-> 0, holds |-> {}]

Top == Last(stack)
Parsing == mode = "parse"

\* The macros that come before the next declaration, or after the last one.
Macros == Below(0, MacroKinds)
MacroDue ==
  /\ Len(stack) = 1 /\ macro < Len(Macros)
  /\ IF Top.todo = <<>> THEN TRUE
     ELSE KindOf(Head(Top.todo)) # "include" /\ Cursor(Macros[macro + 1]).line <= Cursor(Head(Top.todo)).line

Visited(kinds) ==
  IF Parsing /\ Top.todo # <<>> /\ KindOf(Head(Top.todo)) \in kinds /\ ~MacroDue THEN {Head(Top.todo)} ELSE {}

Advanced == [stack EXCEPT ![Len(stack)].todo = Tail(@)]

\* The end of a call that parses an entity of such a kind.
Finished(kinds) == Parsing /\ Top.todo = <<>> /\ Top.kind \in kinds /\ ~MacroDue

\* What parse_entity returns is added to the entity of the calling builder; a friend
\* holds it, and takes its comment.
Added(es, fs, e) ==
  IF Last(fs).kind = "friend" THEN [es EXCEPT ![e].comment = 0] ELSE [es EXCEPT ![e].parent = Last(fs).entity]

Holding(es, fs, e) ==
  IF Last(fs).kind # "friend" THEN fs ELSE [fs EXCEPT ![Len(fs)].entity = e, ![Len(fs)].comment = es[e].comment]

Return(es, fs, e) == entities' = Added(es, fs, e) /\ stack' = Holding(es, fs, e)

-----------------------------------------------------------------------------
(* comment_context::match. *)

Comments == file.comments

Skipped(line) ==
  LET ahead == {k \in comment .. Len(Comments) : line <= Comments[k].line + 1}
  IN IF ahead = {} THEN Len(Comments) + 1 ELSE Min(ahead)

Matching(line) ==
  IF Skipped(line) > Len(Comments) THEN 0
  ELSE IF Comments[Skipped(line)].line + (IF Comments[Skipped(line)].eol THEN 0 ELSE 1) = line THEN Skipped(line) ELSE 0

CommentAt(c) == Matching(Cursor(c).line)

\* Seeded fault: an include, which is not reported in order, skips comments as well.
MatchAlwaysSkipping(c, skip) ==
  /\ matched' = matched \cup ({CommentAt(c)} \ {0})
  /\ comment' = Skipped(Cursor(c).line) + (IF CommentAt(c) = 0 THEN 0 ELSE 1)

Match(c, skip) ==
  /\ matched' = matched \cup ({CommentAt(c)} \ {0})
  /\ comment' = IF skip THEN Skipped(Cursor(c).line) + (IF CommentAt(c) = 0 THEN 0 ELSE 1) ELSE comment

NoMatch == UNCHANGED <<comment, matched>>

-----------------------------------------------------------------------------
(* Registration. *)

DeclarableKinds == {"variable", "function", "class", "enum"}

\* What is no definition declares its id; a friend declares a class whatever the cursor is.
Declares(kind, c, friend) ==
  IF kind \in DeclarableKinds /\ (friend \/ ~Cursor(c).definition) THEN Cursor(c).usr ELSE NoId

\* finish, or finish_declaration, of a builder.
Registers(c, e, definition) ==
  IF definition THEN RegisterDefinition(Cursor(c).usr, e) ELSE RegisterForwardDeclaration(Cursor(c).usr, e)

-----------------------------------------------------------------------------
(* do_parse *)

ParseInit ==
  /\ IndexInit
  /\ mode = "parse" /\ file \in Files
  /\ entities = <<Entity("file", 0)>>
  /\ stack = <<Frame("file", 0, 1, TopLevel)>>
  /\ macro = 0 /\ comment = 1 /\ matched = {} /\ error = FALSE

\* The macro and its parameters come from the preprocessor.
AddMacro ==
  /\ Parsing /\ MacroDue
  /\ LET m == Macros[macro + 1]
         parameters == Below(m, {"macro_parameter"})
     IN entities' = Append(entities, [Entity("macro", m) EXCEPT !.parent = Top.entity])
                      \o [k \in DOMAIN parameters |-> [Entity("macro_parameter", parameters[k]) EXCEPT !.parent = Next1, !.role = "parameter"]]
  /\ macro' = macro + 1
  /\ UNCHANGED <<mode, file, stack, comment, matched, error, indexVars>>

AddInclude == \E c \in Visited({"include"}) :
  /\ Match(c, FALSE)
  /\ entities' = Append(entities, [Entity("include", c) EXCEPT !.parent = Top.entity, !.comment = CommentAt(c)])
  /\ stack' = Advanced
  /\ UNCHANGED <<mode, file, macro, error, indexVars>>

FinishFile ==
  /\ Finished({"file"})
  /\ RegisterFile(file.path, Top.entity)
  /\ stack' = <<>> /\ mode' = "parsed"
  /\ UNCHANGED <<treeVars, macro, comment, matched, error>>

-----------------------------------------------------------------------------
(* parse_entity *)

\* parse_error is caught for each entity.
CatchError == \E c \in Visited(LeafKinds \cup ContainerKinds \cup ClassKinds \cup TemplateKinds) :
  /\ Cursor(c).bad = "declaration"
  /\ error' = TRUE /\ stack' = Advanced
  /\ UNCHANGED <<mode, treeVars, macro, comment, matched, indexVars>>

\* What follows the name of a function is parsed when its comment has been taken.
FailFunction == \E c \in Visited({"function"} \cup FunctionTemplateKinds) :
  /\ Cursor(c).bad = "suffix"
  /\ Match(c, TRUE)
  /\ error' = TRUE /\ stack' = Advanced
  /\ UNCHANGED <<mode, treeVars, macro, indexVars>>

ParseNothing == \E c \in Visited(NullKinds) :
  /\ stack' = Advanced
  /\ UNCHANGED <<mode, treeVars, macro, comment, matched, error, indexVars>>

\* An entity with nothing below it; those that are to be registered are before they have
\* a parent.
Leaf(c) ==
  /\ Cursor(c).bad # "declaration"
  /\ Match(c, TRUE)
  /\ Return(Append(entities, [Entity(KindOf(c), c) EXCEPT !.comment = CommentAt(c),
                                                         !.declares = Declares(KindOf(c), c, FALSE)]),
            Advanced, Next1)
  /\ UNCHANGED <<mode, file, macro, error>>

ParseNamespaceAlias == \E c \in Visited({"namespace_alias"}) : Leaf(c) /\ Registers(c, Next1, FALSE)
ParseUsingDirective == \E c \in Visited({"using_directive"}) : Leaf(c) /\ UNCHANGED indexVars
ParseUsingDeclaration == \E c \in Visited({"using_declaration"}) : Leaf(c) /\ UNCHANGED indexVars
ParseTypeAlias == \E c \in Visited({"type_alias"}) : Leaf(c) /\ Registers(c, Next1, FALSE)

\* The declaration of a variable is not registered.
ParseVariable == \E c \in Visited({"variable"}) :
  Leaf(c) /\ IF Cursor(c).definition THEN Registers(c, Next1, TRUE) ELSE UNCHANGED indexVars

\* A bit-field without a name is not registered.
ParseMemberVariable == \E c \in Visited({"member_variable"}) :
  Leaf(c) /\ IF Cursor(c).usr # "" THEN Registers(c, Next1, TRUE) ELSE UNCHANGED indexVars
ParseFunction == \E c \in Visited({"function"}) :
  Cursor(c).bad # "suffix" /\ Leaf(c) /\ Registers(c, Next1, Cursor(c).definition)
ParseEnumValue == \E c \in Visited({"enum_value"}) : Leaf(c) /\ Registers(c, Next1, TRUE)
ParseStaticAssert == \E c \in Visited({"static_assert"}) : Leaf(c) /\ UNCHANGED indexVars

\* What has no name is not registered.
ParseUnexposed == \E c \in Visited({"unexposed"}) :
  Leaf(c) /\ IF Cursor(c).usr # "" THEN Registers(c, Next1, FALSE) ELSE UNCHANGED indexVars

\* No comment is looked for.
ParseConcept == \E c \in Visited({"concept"}) :
  /\ Cursor(c).bad # "declaration"
  /\ Registers(c, Next1, TRUE)
  /\ Return(Append(entities, Entity("concept", c)), Advanced, Next1)
  /\ UNCHANGED <<mode, file, macro, comment, matched, error>>

\* The call for a container, up to what is below it.
Enter(c, kind) ==
  /\ Cursor(c).bad # "declaration"
  /\ Match(c, TRUE)
  /\ entities' = Append(entities, [Entity(kind, c) EXCEPT !.comment = CommentAt(c)])
  /\ stack' = Append(Advanced, Frame(kind, c, Next1, Children(c)))
  /\ UNCHANGED <<mode, file, macro, error, indexVars>>

EnterLinkage == \E c \in Visited({"linkage"}) : Enter(c, "linkage")
EnterEnum == \E c \in Visited({"enum"}) : Enter(c, "enum")
EnterNamespace == \E c \in Visited({"namespace"}) : ~Cursor(c).nested /\ Enter(c, "namespace")

\* A nested namespace steals the comment from its parent.
EnterNestedNamespace == \E c \in Visited({"namespace"}) :
  /\ Cursor(c).nested /\ Cursor(c).bad # "declaration"
  /\ entities' = Append([entities EXCEPT ![Top.entity].comment = 0],
                        [Entity("namespace", c) EXCEPT !.comment = entities[Top.entity].comment])
  /\ stack' = Append(Advanced, Frame("namespace", c, Next1, Children(c)))
  /\ UNCHANGED <<mode, file, macro, comment, matched, error, indexVars>>

FinishLinkage ==
  /\ Finished({"linkage"})
  /\ Return(entities, Front(stack), Top.entity)
  /\ UNCHANGED <<mode, file, macro, comment, matched, error, indexVars>>

FinishNamespace ==
  /\ Finished({"namespace"})
  /\ RegisterNamespace(Cursor(Top.cursor).usr, Top.entity)
  /\ Return(entities, Front(stack), Top.entity)
  /\ UNCHANGED <<mode, file, macro, comment, matched, error>>

FinishEnum ==
  /\ Finished({"enum"})
  /\ Registers(Top.cursor, Top.entity, Cursor(Top.cursor).definition)
  /\ Return([entities EXCEPT ![Top.entity].declares = Declares("enum", Top.cursor, FALSE)], Front(stack), Top.entity)
  /\ UNCHANGED <<mode, file, macro, comment, matched, error>>
=============================================================================
