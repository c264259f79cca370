-------------------------- MODULE EntityReferences --------------------------
(***************************************************************************)
(* What a parsed entity refers to: the definition of a declaration and the *)
(* class a base is.  Entities refer to each other by id, so every answer   *)
(* is the index's at the time of the question.                             *)
(***************************************************************************)
EXTENDS TemplateParser

CONSTANTS
    Assertion   \* what comes of a DEBUG_ASSERT that fails

-----------------------------------------------------------------------------
(* cpp_forward_declarable.cpp *)

\* The entity that says whether it is a definition, of a template the templated one.
Declarable(e) ==
  IF entities[e].kind \in TemplateKinds \ {"alias_template"} THEN Head(ChildrenOf(e, "child"))
  ELSE IF entities[e].kind \in DeclarableKinds THEN e ELSE NoObject

IsDefinition(e) == Declarable(e) # NoObject /\ entities[Declarable(e)].declares = NoId

\* Seeded fault: the first thing the index has, be it a definition or not.
GetAnyDeclaration(e) ==
  IF Declarable(e) = NoObject \/ entities[Declarable(e)].declares = NoId THEN e
  ELSE Lookup(entities[Declarable(e)].declares)

GetDefinition(e) ==
  IF Declarable(e) = NoObject \/ entities[Declarable(e)].declares = NoId THEN e
  ELSE LookupDefinition(entities[Declarable(e)].declares)

\* The overload for a kind of entity, which expects nothing else.
GetDefinitionOfKind(e) ==
  IF GetDefinition(e) # NoObject /\ entities[GetDefinition(e)].kind # entities[e].kind THEN Assertion ELSE GetDefinition(e)

-----------------------------------------------------------------------------
(* get_class *)

TypeNaming == {"class", "instantiation"}
TypeDependent == {"parameter", "decltype", "unexposed"}

\* A type: how it is written, and the id of what it names.
GetTypeRef(type) ==
  IF type.kind \in TypeNaming THEN type.id ELSE IF type.kind \in TypeDependent THEN NoId ELSE Assertion

\* cpp_entity_ref::get and get_entity_impl: classes are found in their templates.
GetEntity(id) ==
  IF id = NoId THEN NoObject
  ELSE LET e == Lookup(id)
       IN IF e # NoObject /\ entities[e].kind \in {"class_template", "class_specialization"}
          THEN Head(ChildrenOf(e, "child")) ELSE e

\* The alias that is meant, of an alias template the one below it.
AliasOf(e) ==
  IF e = NoObject THEN NoObject
  ELSE IF entities[e].kind = "alias_template" THEN Head(ChildrenOf(e, "child"))
  ELSE IF entities[e].kind = "type_alias" THEN e ELSE NoObject

\* The class a type names itself; of anything else an assertion fails.
ClassNamed(type) ==
  IF GetTypeRef(type) = Assertion THEN Assertion
  ELSE LET e == GetEntity(GetTypeRef(type))
       IN IF e # NoObject /\ entities[e].kind # "class" THEN Assertion ELSE e

AliasNamed(type) == IF GetTypeRef(type) = Assertion THEN NoObject ELSE AliasOf(GetEntity(GetTypeRef(type)))

\* Seeded fault: an alias of an alias is not unwrapped.
GetClassOnce(type) ==
  ClassNamed(IF AliasNamed(type) = NoObject THEN type ELSE Cursor(entities[AliasNamed(type)].cursor).type)

\* Aliases are unwrapped one by one.
GetClass(type) ==
  LET unwrapped[n \in 0 .. Len(entities)] ==
        IF n = 0 THEN type
        ELSE LET outer == unwrapped[n - 1]
             IN IF AliasNamed(outer) = NoObject THEN outer ELSE Cursor(entities[AliasNamed(outer)].cursor).type
  IN ClassNamed(unwrapped[Len(entities)])
=============================================================================
