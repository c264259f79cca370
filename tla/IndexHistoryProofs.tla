------------------------ MODULE IndexHistoryProofs ------------------------
(***************************************************************************)
(* The contract of cpp_entity_index, proved for every set of ids, every    *)
(* set of objects and histories of every length.                           *)
(*                                                                         *)
(* LookupContract is not inductive: a lookup answers with the last         *)
(* definition only if the flag of the entry says that there is one.        *)
(* Summary adds what ties the flag and the presence of an entry to the     *)
(* log, and the contract follows from it.                                  *)
(***************************************************************************)
EXTENDS IndexHistory, TLAPS

\* What the entry of id remembers of the history of id.
Summary(id) ==
    /\ Registered(id) <=> log[id] # <<>>
    /\ map[id].is_definition =>
          \E i \in DOMAIN log[id] : LastDefinition(id, i) /\ map[id].entity = log[id][i].entity
    /\ ~map[id].is_definition =>
          /\ Definitions(id) = {}
          /\ log[id] # <<>> => map[id].entity = log[id][1].entity

IndInv ==
    /\ TypeOK
    /\ OneFilePerId
    /\ \A id \in Id : Summary(id)

----------------------------------------------------------------------------
\* Appending to a sequence keeps its elements and adds one position.
LEMMA AppendFacts ==
    ASSUME NEW S, NEW s \in Seq(S), NEW c \in S
    PROVE  /\ Append(s, c) \in Seq(S)
           /\ Len(Append(s, c)) = Len(s) + 1
           /\ DOMAIN Append(s, c) = 1 .. Len(s) + 1
           /\ DOMAIN s = 1 .. Len(s)
           /\ Len(s) \in Nat
           /\ \A i \in DOMAIN s : Append(s, c)[i] = s[i]
           /\ Append(s, c)[Len(s) + 1] = c
           /\ Append(s, c) # <<>>
           /\ s = <<>> => Len(s) = 0
           /\ s # <<>> => Len(s) > 0
  OBVIOUS

\* A state with the summary answers lookups as documented.
LEMMA SummaryGivesContract ==
    ASSUME TypeOK, \A id \in Id : Summary(id)
    PROVE  LookupContract
<1>1. AnswersLastDefinition
  <2> SUFFICES ASSUME NEW id \in Id, NEW i \in DOMAIN log[id], LastDefinition(id, i)
               PROVE  Lookup(id) = log[id][i].entity /\ LookupDefinition(id) = log[id][i].entity
    BY DEF AnswersLastDefinition
  <2>1. Summary(id)
    OBVIOUS
  <2>2. map[id].is_definition
    BY <2>1 DEF Summary, LastDefinition
  <2>3. PICK j \in DOMAIN log[id] : LastDefinition(id, j) /\ map[id].entity = log[id][j].entity
    BY <2>1, <2>2 DEF Summary
  <2>4. i <= j /\ j <= i
    BY <2>3 DEF LastDefinition
  <2>5. i \in Nat /\ j \in Nat
    BY DEF TypeOK
  <2>6. i = j
    BY <2>4, <2>5
  <2> QED
    BY <2>2, <2>3, <2>6 DEF Lookup, LookupDefinition
<1>2. AnswersFirstDeclaration
  <2> SUFFICES ASSUME NEW id \in Id, log[id] # <<>>, Definitions(id) = {}
               PROVE  Lookup(id) = log[id][1].entity /\ LookupDefinition(id) = NoObject
    BY DEF AnswersFirstDeclaration
  <2>1. ~map[id].is_definition
    BY DEF Summary, LastDefinition
  <2> QED
    BY <2>1 DEF Summary, Lookup, LookupDefinition
<1>3. AnswersNothing
  <2> SUFFICES ASSUME NEW id \in Id, log[id] = <<>>
               PROVE  Lookup(id) = NoObject /\ LookupDefinition(id) = NoObject
    BY DEF AnswersNothing
  <2>1. ~Registered(id)
    BY DEF Summary
  <2> QED
    BY <2>1 DEF Registered, Lookup, LookupDefinition
<1> QED
  BY <1>1, <1>2, <1>3 DEF LookupContract

----------------------------------------------------------------------------
\* The empty index satisfies IndInv.
LEMMA InitIndInv == Init => IndInv
<1> SUFFICES ASSUME Init PROVE IndInv
  OBVIOUS
<1>1. TypeOK
  BY DEF Init, IndexInit, EmptyMap, EmptyNs, Absent, TypeOK, IndexTypeOK, Value
<1>2. OneFilePerId
  BY DEF Init, OneFilePerId
<1>3. ASSUME NEW id \in Id PROVE Summary(id)
  <2>1. map[id] = Absent /\ log[id] = <<>>
    BY DEF Init, IndexInit, EmptyMap
  <2>2. ~Registered(id) /\ ~map[id].is_definition
    BY <2>1 DEF Registered, Absent
  <2>3. Definitions(id) = {}
    BY <2>1 DEF Definitions
  <2> QED
    BY <2>1, <2>2, <2>3 DEF Summary
<1> QED
  BY <1>1, <1>2, <1>3 DEF IndInv

\* A call that leaves map and log alone keeps the invariant.
LEMMA QuietStep ==
    ASSUME IndInv, UNCHANGED <<map, log>>, ns' \in [Id -> Seq(Object)]
    PROVE  IndInv'
<1>1. TypeOK'
  BY DEF IndInv, TypeOK, IndexTypeOK, Registered
<1>2. OneFilePerId'
  BY DEF IndInv, OneFilePerId
<1>3. (\A id \in Id : Summary(id))'
  BY DEF IndInv, Summary, Registered, LastDefinition, Definitions
<1> QED
  BY <1>1, <1>2, <1>3 DEF IndInv

\* An accepted call for one id: it inserts or overrides the entry of that id as the
\* hypothesis says, and is recorded.  Every accepted call is of this form.
LEMMA AcceptedStep ==
    ASSUME IndInv,
           NEW id \in Id, NEW e \in Object, NEW def \in BOOLEAN, NEW file \in BOOLEAN,
           Record(id, e, def, file),
           UNCHANGED ns,
           file => log[id] = <<>>,
           \/ /\ def \/ ~Registered(id)
              /\ map' = [map EXCEPT ![id] = [entity |-> e, is_definition |-> def]]
           \/ ~def /\ Registered(id) /\ map' = map
    PROVE  IndInv'
<1> DEFINE c == [entity |-> e, is_definition |-> def, is_file |-> file]
<1>1. /\ map \in [Id -> Value]
      /\ log \in [Id -> Seq(Call)]
      /\ ns \in [Id -> Seq(Object)]
      /\ \A k \in Id : map[k].is_definition => Registered(k)
  BY DEF IndInv, TypeOK, IndexTypeOK
<1>2. c \in Call
  BY DEF Call
<1>3. log' = [log EXCEPT ![id] = Append(log[id], c)]
  BY DEF Record
<1> HIDE DEF c
<1>4. log'[id] = Append(log[id], c) /\ \A k \in Id \ {id} : log'[k] = log[k]
  BY <1>1, <1>3
<1>5. \A k \in Id \ {id} : map'[k] = map[k]
  BY <1>1
<1>6. map'[id] = IF ~def /\ Registered(id) THEN map[id]
                 ELSE [entity |-> e, is_definition |-> def]
  BY <1>1
<1>7. log[id] \in Seq(Call)
  BY <1>1
<1>8. e # NoObject
  BY NoObjectAssumption
<1>9. c.entity = e /\ c.is_definition = def /\ c.is_file = file
  BY DEF c
<1>10. TypeOK'
  <2>1. map' \in [Id -> Value]
    <3>1. [entity |-> e, is_definition |-> def] \in Value
      BY DEF Value
    <3> QED
      BY <1>1, <3>1
  <2>2. log' \in [Id -> Seq(Call)]
    BY <1>1, <1>2, <1>3, <1>7, AppendFacts
  <2>3. (\A k \in Id : map[k].is_definition => Registered(k))'
    <3> SUFFICES ASSUME NEW k \in Id, map'[k].is_definition PROVE Registered(k)'
      OBVIOUS
    <3>1. CASE k # id \/ (~def /\ Registered(id))
      BY <3>1, <1>1, <1>5, <1>6 DEF Registered
    <3>2. CASE k = id /\ ~(~def /\ Registered(id))
      BY <3>2, <1>6, <1>8 DEF Registered
    <3> QED
      BY <3>1, <3>2
  <2> QED
    BY <1>1, <2>1, <2>2, <2>3 DEF TypeOK, IndexTypeOK
<1>11. OneFilePerId'
  <2> SUFFICES ASSUME NEW k \in Id, NEW i \in DOMAIN log'[k], log'[k][i].is_file
               PROVE  i = 1
    BY DEF OneFilePerId
  <2>1. CASE k # id
    BY <2>1, <1>4 DEF IndInv, OneFilePerId
  <2>2. CASE k = id /\ i \in DOMAIN log[id]
    <3>1. log'[k][i] = log[id][i]
      BY <2>2, <1>2, <1>4, <1>7, AppendFacts
    <3> QED
      BY <2>2, <3>1 DEF IndInv, OneFilePerId
  <2>3. CASE k = id /\ i \notin DOMAIN log[id]
    <3>1. i = Len(log[id]) + 1 /\ log'[k][i] = c
      BY <2>3, <1>2, <1>4, <1>7, AppendFacts
    <3>2. file
      BY <3>1, <1>9
    <3> QED
      BY <3>1, <3>2, <1>2, <1>7, AppendFacts
  <2> QED
    BY <2>1, <2>2, <2>3
<1>12. (\A k \in Id : Summary(k))'
  <2> SUFFICES ASSUME NEW k \in Id PROVE Summary(k)'
    OBVIOUS
  <2>0. Summary(k)
    BY DEF IndInv
  <2>1. CASE k # id
    BY <2>0, <2>1, <1>4, <1>5 DEF Summary, Registered, LastDefinition, Definitions
  <2>2. CASE k = id
    <3>0. PICK n : n = Len(log[id]) + 1
      OBVIOUS
    <3>1. /\ log'[k] = Append(log[id], c)
          /\ DOMAIN log'[k] = 1 .. n
          /\ DOMAIN log[k] = 1 .. Len(log[id])
          /\ n \in Nat /\ n = Len(log[id]) + 1 /\ Len(log[id]) \in Nat
          /\ log'[k] # <<>>
          /\ \A i \in DOMAIN log[k] : log'[k][i] = log[k][i]
          /\ log'[k][n] = c
          /\ log[k] = <<>> => n = 1
          /\ log[k] # <<>> => 1 \in DOMAIN log[k]
      BY <2>2, <3>0, <1>2, <1>4, <1>7, AppendFacts
    <3>2. Registered(k)'
      BY <2>2, <1>6, <1>8 DEF Registered
    <3>3. Definitions(k)' = IF def THEN Definitions(k) \cup {n} ELSE Definitions(k)
      BY <3>1, <1>9, <2>2 DEF Definitions
    <3>4. CASE def
      <4>1. map'[k] = [entity |-> e, is_definition |-> TRUE]
        BY <3>4, <2>2, <1>6
      <4>2. LastDefinition(k, n)'
        BY <3>4, <3>3, <3>1, <3>0 DEF LastDefinition, Definitions
      <4>3. n \in DOMAIN log'[k] /\ map'[k].entity = log'[k][n].entity
        BY <4>1, <3>1, <1>9
      <4> QED
        BY <3>1, <3>2, <4>1, <4>2, <4>3 DEF Summary
    <3>5. CASE ~def /\ Registered(k)
      <4>1. map'[k] = map[k]
        BY <3>5, <2>2, <1>6
      <4>2. Definitions(k)' = Definitions(k)
        BY <3>5, <3>3
      <4>3. map[k].is_definition =>
              \E i \in DOMAIN log'[k] : LastDefinition(k, i)' /\ map'[k].entity = log'[k][i].entity
        BY <4>1, <4>2, <3>1, <2>0 DEF Summary, LastDefinition
      <4>4. ~map[k].is_definition =>
              Definitions(k)' = {} /\ map'[k].entity = log'[k][1].entity
        BY <4>1, <4>2, <3>1, <3>5, <2>0 DEF Summary
      <4> QED
        BY <3>1, <3>2, <4>1, <4>3, <4>4 DEF Summary
    <3>6. CASE ~def /\ ~Registered(k)
      <4>1. map'[k] = [entity |-> e, is_definition |-> FALSE]
        BY <3>6, <2>2, <1>6
      <4>2. log[k] = <<>>
        BY <3>6, <2>0 DEF Summary
      <4>3. Definitions(k)' = {}
        BY <3>6, <3>3, <4>2, <3>1 DEF Definitions
      <4> QED
        BY <3>1, <3>2, <4>1, <4>2, <4>3, <1>9 DEF Summary
    <3> QED
      BY <3>4, <3>5, <3>6
  <2> QED
    BY <2>1, <2>2
<1> QED
  BY <1>10, <1>11, <1>12 DEF IndInv

----------------------------------------------------------------------------
\* Every call keeps IndInv.
LEMMA NextIndInv == IndInv /\ [Next]_vars => IndInv'
<1> SUFFICES ASSUME IndInv, [Next]_vars PROVE IndInv'
  OBVIOUS
<1>0. ns \in [Id -> Seq(Object)] /\ map \in [Id -> Value]
  BY DEF IndInv, TypeOK, IndexTypeOK
<1>1. ASSUME NEW id \in Id, NEW e \in Object, NEW o \in BOOLEAN, NEW p \in BOOLEAN,
             DefinitionCall(id, e, o, p)
      PROVE  IndInv'
  BY <1>1, AcceptedStep DEF DefinitionCall, RegisterDefinition
<1>2. ASSUME NEW id \in Id, NEW o \in BOOLEAN, NEW p \in BOOLEAN,
             RejectedDefinitionCall(id, o, p)
      PROVE  IndInv'
  BY <1>2, <1>0, QuietStep DEF RejectedDefinitionCall, vars
<1>3. ASSUME NEW id \in Id, NEW e \in Object, FileCall(id, e)
      PROVE  IndInv'
  <2>1. CASE Registered(id)
    BY <1>3, <2>1, <1>0, QuietStep DEF FileCall, RegisterFile, FileInserted, Emplaced
  <2>2. CASE ~Registered(id)
    <3>1. log[id] = <<>>
      BY <2>2 DEF IndInv, Summary
    <3>2. /\ map' = [map EXCEPT ![id] = [entity |-> e, is_definition |-> TRUE]]
          /\ Record(id, e, TRUE, TRUE)
          /\ UNCHANGED ns
      BY <1>3, <2>2 DEF FileCall, RegisterFile, FileInserted, Emplaced
    <3> QED
      BY <3>1, <3>2, <2>2, AcceptedStep
  <2> QED
    BY <2>1, <2>2
<1>4. ASSUME NEW id \in Id, NEW e \in Object, ForwardDeclarationCall(id, e)
      PROVE  IndInv'
  BY <1>4, AcceptedStep DEF ForwardDeclarationCall, RegisterForwardDeclaration, Emplaced
<1>5. ASSUME NEW id \in Id, NEW n \in Object, NamespaceCall(id, n)
      PROVE  IndInv'
  <2>1. ns' \in [Id -> Seq(Object)]
    BY <1>5, <1>0, AppendFacts DEF NamespaceCall, RegisterNamespace
  <2> QED
    BY <1>5, <2>1, QuietStep DEF NamespaceCall, RegisterNamespace
<1>6. CASE UNCHANGED vars
  BY <1>6, <1>0, QuietStep DEF vars
<1> QED
  BY <1>1, <1>2, <1>3, <1>4, <1>5, <1>6 DEF Next

\* IndInv holds after every history of calls.
THEOREM IndInvInvariant == Spec => []IndInv
  BY InitIndInv, NextIndInv, PTL DEF Spec

\* The state always has its types; an id flagged as a definition is registered.
THEOREM TypeCorrectness == Spec => []TypeOK
<1>1. IndInv => TypeOK
  BY DEF IndInv
<1> QED
  BY <1>1, IndInvInvariant, PTL

\* lookup and lookup_definition answer with the function of the history of accepted
\* register_* calls that cpp_entity_index.hpp documents.
THEOREM LookupCorrect == Spec => []LookupContract
<1>1. IndInv => LookupContract
  BY SummaryGivesContract DEF IndInv
<1> QED
  BY <1>1, IndInvInvariant, PTL

\* register_file returns true at most once per id, and only for a fresh id.
THEOREM FileOwnerUnique == Spec => []OneFilePerId
<1>1. IndInv => OneFilePerId
  BY DEF IndInv
<1> QED
  BY <1>1, IndInvInvariant, PTL

\* No call withdraws a definition, forgets an id or moves one off its first
\* declaration other than to a definition.
THEOREM NeverDemotes == Spec => NoStepDemotes
<1>1. IndInv /\ [Next]_vars => [NeverDemoted]_vars
  <2> SUFFICES ASSUME IndInv, Next, NEW k \in Id
               PROVE  /\ map[k].is_definition => map'[k].is_definition
                      /\ Registered(k) =>
                            map'[k].entity = map[k].entity \/ map'[k].is_definition
    BY DEF NeverDemoted
  <2>0. map \in [Id -> Value]
    BY DEF IndInv, TypeOK, IndexTypeOK
  <2>1. ASSUME NEW id \in Id, NEW e \in Object,
               map' = [map EXCEPT ![id] = [entity |-> e, is_definition |-> TRUE]]
        PROVE  map'[k] = map[k] \/ map'[k].is_definition
    BY <2>0, <2>1
  <2>2. ASSUME NEW id \in Id, NEW e \in Object, NEW def \in BOOLEAN,
               map' = Emplaced(id, e, def)
        PROVE  map'[k] = map[k] \/ ~Registered(k)
    BY <2>0, <2>2 DEF Emplaced
  <2>3. \/ \E id \in Id, e \in Object :
              map' = [map EXCEPT ![id] = [entity |-> e, is_definition |-> TRUE]]
        \/ \E id \in Id, e \in Object, def \in BOOLEAN : map' = Emplaced(id, e, def)
        \/ map' = map
    BY DEF Next, DefinitionCall, RejectedDefinitionCall, FileCall, ForwardDeclarationCall,
           NamespaceCall, RegisterDefinition, RegisterFile, RegisterForwardDeclaration,
           RegisterNamespace, vars
  <2>4. map'[k] = map[k] \/ map'[k].is_definition \/ ~Registered(k)
    BY <2>1, <2>2, <2>3
  <2>5. map[k].is_definition => Registered(k)
    BY DEF IndInv, TypeOK, IndexTypeOK
  <2> QED
    BY <2>4, <2>5
<1> QED
  BY <1>1, IndInvInvariant, PTL DEF Spec, NoStepDemotes
=============================================================================
