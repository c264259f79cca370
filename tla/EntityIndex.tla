---------------------------- MODULE EntityIndex ----------------------------
(***************************************************************************)
(* cppast::cpp_entity_index: the registry, shared by all parses, that maps *)
(* the id of an entity to a reference to the entity object, and the id of  *)
(* a namespace to the references of all its blocks.                        *)
(*                                                                         *)
(* Every member function runs under one mutex from its first to its last   *)
(* statement, so each of them is one atomic action.  The index never looks *)
(* at time or order: what a call does depends on map and ns alone, and, in *)
(* register_definition, on three facts it reads from entity objects, which *)
(* the caller of RejectsDefinition supplies.                               *)
(*                                                                         *)
(* This module has the state and the operations; IndexHistory drives them  *)
(* with arbitrary clients and ParseFiles with the libclang parser.         *)
(***************************************************************************)
EXTENDS Naturals, Sequences

CONSTANTS
    Id,         \* cpp_entity_id values: hashes of USRs and of file paths
    Object,     \* cpp_entity objects (addresses)
    NoObject    \* the empty optional_ref

ASSUME NoObjectAssumption == NoObject \notin Object

VARIABLES
    map,        \* map_: id -> the referenced entity and whether it is a definition
    ns          \* ns_: id -> the namespace blocks, in registration order

indexVars == <<map, ns>>

----------------------------------------------------------------------------
Value == [entity : Object \cup {NoObject}, is_definition : BOOLEAN]

\* The value of an id that is no key of map_.
Absent == [entity |-> NoObject, is_definition |-> FALSE]

EmptyMap == [id \in Id |-> Absent]
EmptyNs == [id \in Id |-> <<>>]

Registered(id) == map[id].entity # NoObject

\* Seeded faults: insert_or_assign instead of emplace; operator[] that inserts the
\* value and sets only its flag.
EmplacedAlways(id, e, def) ==
    [map EXCEPT ![id] = [entity |-> e, is_definition |-> def]]

EmplacedFlagOnly(id, e, def) == [map EXCEPT ![id].is_definition = def]

\* unordered_map::emplace: inserts nothing when the key is there already.
Emplaced(id, e, def) ==
    IF Registered(id) THEN map
    ELSE [map EXCEPT ![id] = [entity |-> e, is_definition |-> def]]

----------------------------------------------------------------------------
\* The condition under which register_definition throws
\* duplicate_definition_error.  oldIsTemplate is what kind() says of the entity
\* registered so far; hasPlainParent, read from the new entity, says that it has
\* a parent and the parent is no template.
RejectsDefinition(id, oldIsTemplate, hasPlainParent) ==
    map[id].is_definition /\ ~oldIsTemplate /\ hasPlainParent

\* A seeded fault: a definition is emplaced like a declaration and overrides nothing.
RegisterDefinitionKeeping(id, e) ==
    /\ map' = Emplaced(id, e, TRUE)
    /\ UNCHANGED ns

\* register_definition when it does not throw: insert, or override in place.
RegisterDefinition(id, e) ==
    /\ map' = [map EXCEPT ![id] = [entity |-> e, is_definition |-> TRUE]]
    /\ UNCHANGED ns

\* A seeded fault: a caller that takes every registration for a success.
FileInsertedAlways(id) == id \in Id

\* The boolean register_file returns.
FileInserted(id) == ~Registered(id)

\* A seeded fault: map_[id] = value(file, true).
RegisterFileAssigning(id, f) ==
    /\ map' = EmplacedAlways(id, f, TRUE)
    /\ UNCHANGED ns

RegisterFile(id, f) ==
    /\ map' = Emplaced(id, f, TRUE)
    /\ UNCHANGED ns

\* A seeded fault: the last declaration wins, even over a definition.
RegisterForwardDeclarationLast(id, e) ==
    /\ map' = EmplacedAlways(id, e, FALSE)
    /\ UNCHANGED ns

RegisterForwardDeclaration(id, e) ==
    /\ map' = Emplaced(id, e, FALSE)
    /\ UNCHANGED ns

\* A seeded fault: a block replaces the earlier ones.
RegisterNamespaceOver(id, n) ==
    /\ ns' = [ns EXCEPT ![id] = <<n>>]
    /\ UNCHANGED map

RegisterNamespace(id, n) ==
    /\ ns' = [ns EXCEPT ![id] = Append(@, n)]
    /\ UNCHANGED map

----------------------------------------------------------------------------
(* The queries. NoObject is the empty result. *)

Lookup(id) == map[id].entity

LookupDefinition(id) == IF map[id].is_definition THEN map[id].entity ELSE NoObject

LookupNamespace(id) == ns[id]

----------------------------------------------------------------------------
IndexInit ==
    /\ map = EmptyMap
    /\ ns = EmptyNs

IndexTypeOK ==
    /\ map \in [Id -> Value]
    /\ ns \in [Id -> Seq(Object)]
    \* only a registered id can be flagged as a definition
    /\ \A id \in Id : map[id].is_definition => Registered(id)
=============================================================================
