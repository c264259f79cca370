---------------------------- MODULE IndexHistory ----------------------------
(***************************************************************************)
(* The contract of cpp_entity_index, as a statement about histories.       *)
(*                                                                         *)
(* Clients call the registration functions in any order and on any entity, *)
(* before or after it got a parent.  The auxiliary variable log records    *)
(* the calls that were accepted, per id.  The contract says what a lookup  *)
(* answers as a function of the log alone: "no definition has been         *)
(* registered ... the first declaration" (cpp_entity_index.hpp), and a     *)
(* definition "will override any previously registered declarations".      *)
(***************************************************************************)
EXTENDS EntityIndex

CONSTANTS
    MaxCalls,   \* bound on the accepted calls per id (model checking only)
    MaxBlocks   \* bound on the namespace blocks per id (model checking only)

ASSUME BoundsAssumption == MaxCalls \in Nat /\ MaxBlocks \in Nat

VARIABLES
    log         \* id -> the accepted calls that insert or override, oldest first

vars == <<map, ns, log>>

Call == [entity : Object, is_definition : BOOLEAN, is_file : BOOLEAN]

Record(id, e, def, file) ==
    log' = [log EXCEPT ![id] =
                Append(@, [entity |-> e, is_definition |-> def, is_file |-> file])]

Within(id) == Len(log[id]) < MaxCalls

----------------------------------------------------------------------------
Init ==
    /\ IndexInit
    /\ log = [id \in Id |-> <<>>]

DefinitionCall(id, e, oldIsTemplate, hasPlainParent) ==
    /\ Within(id)
    /\ ~RejectsDefinition(id, oldIsTemplate, hasPlainParent)
    /\ RegisterDefinition(id, e)
    /\ Record(id, e, TRUE, FALSE)

\* The throwing call changes nothing and is not recorded.
RejectedDefinitionCall(id, oldIsTemplate, hasPlainParent) ==
    /\ RejectsDefinition(id, oldIsTemplate, hasPlainParent)
    /\ UNCHANGED vars

FileCall(id, f) ==
    /\ Within(id)
    /\ RegisterFile(id, f)
    /\ IF FileInserted(id) THEN Record(id, f, TRUE, TRUE) ELSE UNCHANGED log

ForwardDeclarationCall(id, e) ==
    /\ Within(id)
    /\ RegisterForwardDeclaration(id, e)
    /\ Record(id, e, FALSE, FALSE)

NamespaceCall(id, n) ==
    /\ Len(ns[id]) < MaxBlocks
    /\ RegisterNamespace(id, n)
    /\ UNCHANGED log

Next ==
    \E id \in Id, e \in Object :
        \/ \E oldIsTemplate, hasPlainParent \in BOOLEAN :
              \/ DefinitionCall(id, e, oldIsTemplate, hasPlainParent)
              \/ RejectedDefinitionCall(id, oldIsTemplate, hasPlainParent)
        \/ FileCall(id, e)
        \/ ForwardDeclarationCall(id, e)
        \/ NamespaceCall(id, e)

Spec == Init /\ [][Next]_vars

----------------------------------------------------------------------------
TypeOK ==
    /\ IndexTypeOK
    /\ log \in [Id -> Seq(Call)]

Definitions(id) == {i \in DOMAIN log[id] : log[id][i].is_definition}

\* i is the position of the last definition in the log of id.
LastDefinition(id, i) ==
    /\ i \in Definitions(id)
    /\ \A j \in Definitions(id) : j <= i

\* An id that saw a definition answers, to both lookups, with the last one,
\* whatever declarations arrived before, between or after.
AnswersLastDefinition ==
    \A id \in Id : \A i \in DOMAIN log[id] :
        LastDefinition(id, i) =>
            /\ Lookup(id) = log[id][i].entity
            /\ LookupDefinition(id) = log[id][i].entity

\* An id that saw only declarations answers with the first one, and has no definition.
AnswersFirstDeclaration ==
    \A id \in Id :
        (log[id] # <<>> /\ Definitions(id) = {}) =>
            /\ Lookup(id) = log[id][1].entity
            /\ LookupDefinition(id) = NoObject

\* An id nobody registered answers with nothing.
AnswersNothing ==
    \A id \in Id : log[id] = <<>> => Lookup(id) = NoObject /\ LookupDefinition(id) = NoObject

\* The contract of the two lookups: the answer is the function of the history of
\* accepted calls that the documentation of register_* and lookup* describes.
LookupContract ==
    /\ AnswersLastDefinition
    /\ AnswersFirstDeclaration
    /\ AnswersNothing

\* At most one register_file per id is accepted, and only as the first call ever
\* made for that id: the boolean it returns elects one owner of a path.
OneFilePerId ==
    \A id \in Id : \A i \in DOMAIN log[id] : log[id][i].is_file => i = 1

\* No call ever takes back an answer: a definition stays a definition, an id that
\* answers keeps answering, and its object changes only by a definition call.
NeverDemoted ==
    \A id \in Id :
        /\ map[id].is_definition => map'[id].is_definition
        /\ Registered(id) =>
              map'[id].entity = map[id].entity \/ map'[id].is_definition

NoStepDemotes == [][NeverDemoted]_vars
=============================================================================
