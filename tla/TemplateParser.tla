--------------------------- MODULE TemplateParser ---------------------------
(***************************************************************************)
(* The rest of parse_entity: classes, the templates that wrap a class, a   *)
(* function or an alias, and friends.                                      *)
(***************************************************************************)
EXTENDS EntityParser

-----------------------------------------------------------------------------
(* parse_cpp_class *)

EnterClass == \E c \in Visited(ClassKinds) : Enter(c, "class")

AddPart == \E c \in Visited({"access_specifier", "base"}) :
  /\ Cursor(c).bad # "part"
  /\ stack' = Advanced
  /\ entities' = Append(entities, [Entity(KindOf(c), c) EXCEPT !.parent = Top.entity,
                                                              !.role = IF KindOf(c) = "base" THEN "base" ELSE "child"])
  /\ UNCHANGED <<mode, file, macro, comment, matched, error, indexVars>>

\* What belongs to the template is none of the business of its class.
SkipPart == \E c \in Visited({"reference"} \cup ParameterKinds) :
  /\ Top.kind = "class"
  /\ stack' = Advanced
  /\ UNCHANGED <<mode, treeVars, macro, comment, matched, error, indexVars>>

-----------------------------------------------------------------------------
(* Templates: the entity comes first, then the template that owns it, then the *)
(* parameters of the template.                                                 *)

\* The template of entity e, which moves its comment to it.
Wrapped(es, c, e) ==
  Append([es EXCEPT ![e].parent = Len(es) + 1, ![e].comment = 0], [Entity(KindOf(c), c) EXCEPT !.comment = es[e].comment])

TemplateFrame(c, t) == Frame("template", c, t, Below(c, ParameterKinds))

FinishClass ==
  /\ Finished({"class"})
  /\ LET c == Top.cursor
         es == [entities EXCEPT ![Top.entity].declares = Declares("class", c, FALSE)]
     IN IF KindOf(c) \in TemplateKinds
        THEN /\ entities' = Wrapped(es, c, Top.entity)
             /\ stack' = Append(Front(stack), TemplateFrame(c, Next1))
             /\ UNCHANGED indexVars
        ELSE /\ Registers(c, Top.entity, Cursor(c).definition)
             /\ Return(es, Front(stack), Top.entity)
  /\ UNCHANGED <<mode, file, macro, comment, matched, error>>

ParseFunctionTemplate == \E c \in Visited(FunctionTemplateKinds) :
  /\ Cursor(c).bad \notin {"declaration", "suffix"}
  /\ Match(c, TRUE)
  /\ LET function == [Entity("function", c) EXCEPT !.comment = CommentAt(c), !.declares = Declares("function", c, FALSE)]
     IN entities' = Wrapped(Append(entities, function), c, Next1)
  /\ stack' = Append(Advanced, TemplateFrame(c, Next1 + 1))
  /\ UNCHANGED <<mode, file, macro, error, indexVars>>

\* The alias is a call of parse_entity of its own, for the cursor below.
ParseAliasTemplate == \E c \in Visited({"alias_template"}) :
  LET alias == Below(c, {"type_alias"})[1]
  IN /\ Cursor(c).bad # "declaration"
     /\ IF Cursor(alias).bad = "declaration"
        THEN /\ error' = TRUE /\ stack' = Advanced
             /\ NoMatch /\ UNCHANGED entities
        ELSE /\ Match(c, TRUE)
             /\ entities' = Wrapped(Append(entities, [Entity("type_alias", alias) EXCEPT !.comment = CommentAt(c)]), c, Next1)
             /\ stack' = Append(Advanced, TemplateFrame(c, Next1 + 1))
             /\ UNCHANGED error
     /\ UNCHANGED <<mode, file, macro, indexVars>>

AddParameter == \E c \in Visited({"type_parameter", "non_type_parameter"}) :
  /\ Top.kind \in {"template", "template_parameter"} /\ Cursor(c).bad # "part"
  /\ entities' = Append(entities, [Entity(KindOf(c), c) EXCEPT !.parent = Top.entity, !.role = "parameter"])
  /\ Registers(c, Next1, TRUE)
  /\ stack' = Advanced
  /\ UNCHANGED <<mode, file, macro, comment, matched, error>>

EnterTemplateParameter == \E c \in Visited({"template_parameter"}) :
  /\ Top.kind \in {"template", "template_parameter"} /\ Cursor(c).bad # "part"
  /\ entities' = Append(entities, [Entity(KindOf(c), c) EXCEPT !.role = "parameter"])
  /\ stack' = Append(Advanced, Frame("template_parameter", c, Next1, Below(c, ParameterKinds)))
  /\ UNCHANGED <<mode, file, macro, comment, matched, error, indexVars>>

FinishTemplateParameter ==
  /\ Finished({"template_parameter"})
  /\ Registers(Top.cursor, Top.entity, TRUE)
  /\ Return(entities, Front(stack), Top.entity)
  /\ UNCHANGED <<mode, file, macro, comment, matched, error>>

\* Of an alias template there is no definition. The arguments of a specialization are
\* read last.
FinishTemplate ==
  /\ Finished({"template"})
  /\ Cursor(Top.cursor).bad # "arguments"
  /\ Registers(Top.cursor, Top.entity, KindOf(Top.cursor) # "alias_template" /\ Cursor(Top.cursor).definition)
  /\ Return(entities, Front(stack), Top.entity)
  /\ UNCHANGED <<mode, file, macro, comment, matched, error>>

-----------------------------------------------------------------------------
\* What is thrown in the middle of a call: at the arguments of a specialization, at a base,
\* at a parameter.
Throws ==
  \/ Finished({"template"}) /\ Cursor(Top.cursor).bad = "arguments"
  \/ \E c \in Visited({"base"} \cup ParameterKinds) : Cursor(c).bad = "part" /\ (KindOf(c) = "base" \/ Top.kind # "class")

\* Seeded fault: the exception is caught by the call next to where it is thrown.
UnwindNext ==
  /\ Throws
  /\ stack' = Front(stack)
  /\ error' = TRUE
  /\ UNCHANGED <<mode, treeVars, macro, comment, matched, indexVars>>

\* An exception unwinds to the parse_entity it was thrown in, and what that call has built
\* is destroyed; the index is not told.
Unwind ==
  /\ Throws
  /\ stack' = SubSeq(stack, 1, SelectLastInSeq(stack, LAMBDA f : f.kind # "template_parameter") - 1)
  /\ error' = TRUE
  /\ UNCHANGED <<mode, treeVars, macro, comment, matched, indexVars>>

-----------------------------------------------------------------------------
(* parse_cpp_friend *)

EnterFriend == \E c \in Visited({"friend"}) :
  /\ stack' = Append(Advanced, Frame("friend", c, NoObject, Children(c)))
  /\ UNCHANGED <<mode, treeVars, macro, comment, matched, error, indexVars>>

\* What a reference below a friend adds to the type that is befriended.
Holds(c) ==
  CASE KindOf(c) = "namespace_ref" -> Top.holds \cup {"namespace"}
    [] KindOf(c) = "template_ref" -> (Top.holds \ {"namespace"}) \cup {"instantiation"}
    [] "instantiation" \in Top.holds -> Top.holds \ {"namespace"}
    [] KindOf(c) = "type_ref" -> Top.holds \cup {"type"}
    [] OTHER -> Top.holds

\* A type that is named alone is declared by the friend, unless it is a parameter.
Befriended ==
  {c \in Visited({"type_ref"}) :
     /\ Top.kind = "friend"
     /\ Top.holds \cap {"namespace", "instantiation"} = {} /\ KindOf(Cursor(c).target) # "type_parameter"}

NameFriend == \E c \in Visited(ReferenceKinds \cup {"expression"}) \ Befriended :
  /\ Top.kind = "friend"
  /\ stack' = [Advanced EXCEPT ![Len(stack)].holds = Holds(c)]
  /\ UNCHANGED <<mode, treeVars, macro, comment, matched, error, indexVars>>

\* The referenced cursor is parsed as a friend: a class is only declared, an alias is not
\* registered.
DeclareFriend == \E c \in Befriended :
  LET r == Cursor(c).target
      kind == KindOf(r)
  IN /\ Cursor(r).bad # "declaration"
     /\ IF kind = "class" THEN Registers(r, Next1, FALSE) ELSE UNCHANGED indexVars
     /\ Return(Append(entities, [Entity(kind, r) EXCEPT !.declares = Declares(kind, r, TRUE)]), Advanced, Next1)
     /\ UNCHANGED <<mode, file, macro, comment, matched, error>>

\* The entity is asked for its comment even when there is none.
DereferenceNull == \E c \in Befriended :
  /\ Cursor(Cursor(c).target).bad = "declaration"
  /\ mode' = "crashed" /\ error' = TRUE
  /\ UNCHANGED <<treeVars, stack, macro, comment, matched, indexVars>>

\* A comment in front of the friend itself overrides the one of the entity.
FriendComment(f) == IF CommentAt(f) # 0 THEN CommentAt(f) ELSE Top.comment

FinishFriend ==
  /\ Finished({"friend"})
  /\ Top.entity # NoObject \/ Top.holds \cap {"type", "instantiation"} # {}
  /\ Match(Top.cursor, TRUE)
  /\ LET es == Append(entities, [Entity("friend", Top.cursor) EXCEPT !.comment = FriendComment(Top.cursor)])
     IN Return(IF Top.entity = NoObject THEN es ELSE [es EXCEPT ![Top.entity].parent = Next1], Front(stack), Next1)
  /\ UNCHANGED <<mode, file, macro, error, indexVars>>

FailFriend ==
  /\ Finished({"friend"})
  /\ Top.entity = NoObject /\ Top.holds \cap {"type", "instantiation"} = {}
  /\ stack' = Front(stack) /\ error' = TRUE
  /\ UNCHANGED <<mode, treeVars, macro, comment, matched, indexVars>>

-----------------------------------------------------------------------------
ParseNext ==
  \/ AddMacro \/ AddInclude \/ FinishFile
  \/ CatchError \/ FailFunction \/ ParseNothing
  \/ ParseNamespaceAlias \/ ParseUsingDirective \/ ParseUsingDeclaration \/ ParseTypeAlias
  \/ ParseVariable \/ ParseMemberVariable \/ ParseFunction \/ ParseEnumValue
  \/ ParseStaticAssert \/ ParseUnexposed \/ ParseConcept
  \/ EnterLinkage \/ EnterEnum \/ EnterNamespace \/ EnterNestedNamespace
  \/ FinishLinkage \/ FinishNamespace \/ FinishEnum
  \/ EnterClass \/ AddPart \/ SkipPart \/ FinishClass
  \/ ParseFunctionTemplate \/ ParseAliasTemplate \/ AddParameter
  \/ EnterTemplateParameter \/ FinishTemplateParameter \/ FinishTemplate \/ Unwind
  \/ EnterFriend \/ NameFriend \/ DeclareFriend \/ DereferenceNull \/ FinishFriend \/ FailFriend
=============================================================================
