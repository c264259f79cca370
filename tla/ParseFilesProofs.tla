-------------------------- MODULE ParseFilesProofs --------------------------
(***************************************************************************)
(* Proofs about ParseFiles: its type invariant, its safety properties, and *)
(* that it implements ParseService, for any number of threads, paths, ids  *)
(* and entities, with and without failures and with and without reparsing. *)
(***************************************************************************)
EXTENDS ParseFiles, SequenceTheorems, TLAPS

----------------------------------------------------------------------------
(* Facts about the stacks of open builders. *)

\* A stack that is pushed to.
LEMMA PushFacts ==
    ASSUME NEW S, NEW s \in Seq(S), NEW x \in S
    PROVE  /\ Append(s, x) \in Seq(S)
           /\ Len(Append(s, x)) = Len(s) + 1
           /\ \A i \in 1 .. Len(s) : Append(s, x)[i] = s[i]
           /\ Append(s, x)[Len(s) + 1] = x
  OBVIOUS

\* A stack that is popped.
LEMMA PopFacts ==
    ASSUME NEW S, NEW s \in Seq(S), Len(s) > 0
    PROVE  /\ Front(s) \in Seq(S)
           /\ Len(Front(s)) = Len(s) - 1
           /\ \A i \in 1 .. Len(s) - 1 : Front(s)[i] = s[i]
           /\ Last(s) \in S
<1>1. Len(s) \in Nat /\ \A i \in 1 .. Len(s) : s[i] \in S
  OBVIOUS
<1>3. PICK n \in Nat : n = Len(s) - 1
  BY <1>1
<1>4. PICK f : f = SubSeq(s, 1, n)
  OBVIOUS
<1>5. /\ f \in Seq(S)
      /\ Len(f) = IF 1 <= n THEN n - 1 + 1 ELSE 0
      /\ \A i \in 1 .. n - 1 + 1 : f[i] = s[1 + i - 1]
  <2>1. 1 \in Int /\ n \in Int /\ \A i \in 1 .. n : s[i] \in S
    BY <1>1, <1>3
  <2> QED
    BY <2>1, <1>4, SubSeqProperties
<1>6. Front(s) = f
  BY <1>3, <1>4, Zenon DEF Front
<1>7. Len(f) = n
  BY <1>5
<1>8. \A i \in 1 .. n : f[i] = s[i]
  BY <1>5
<1>9. Last(s) \in S
  BY <1>1 DEF Last
<1> QED
  BY <1>3, <1>5, <1>6, <1>7, <1>8, <1>9

\* A sequence of one element.
LEMMA PrependFacts ==
    ASSUME NEW S, NEW x \in S
    PROVE  <<x>> \in Seq(S) /\ Len(<<x>>) = 1 /\ <<x>>[1] = x
  OBVIOUS

\* add_child extends what the innermost builder owns and nothing else.
LEMMA ExtendFacts ==
    ASSUME NEW s \in Seq(Tree), Len(s) > 0, NEW m \in SUBSET Object
    PROVE  LET r == [s EXCEPT ![Len(s)].members = @ \cup m]
           IN  /\ r \in Seq(Tree)
               /\ Len(r) = Len(s)
               /\ \A i \in 1 .. Len(s) : r[i].root = s[i].root
<1> DEFINE r == [s EXCEPT ![Len(s)].members = @ \cup m]
<1>1. s[Len(s)] \in Tree
  OBVIOUS
<1>2. [s[Len(s)] EXCEPT !.members = @ \cup m] \in Tree
  BY <1>1 DEF Tree
<1>3. [s[Len(s)] EXCEPT !.members = @ \cup m].root = s[Len(s)].root
  BY <1>1 DEF Tree
<1>4. r = [s EXCEPT ![Len(s)] = [s[Len(s)] EXCEPT !.members = @ \cup m]]
  OBVIOUS
<1>5. \A i \in 1 .. Len(s) : r[i] = IF i = Len(s) THEN [s[Len(s)] EXCEPT !.members = @ \cup m]
                                    ELSE s[i]
  BY <1>4
<1> QED
  BY <1>1, <1>2, <1>3, <1>4, <1>5
----------------------------------------------------------------------------
(* Type correctness *)

\* The open builders of a thread match the point it has reached in do_parse.
Shape(t) ==
    /\ phase[t] = "idle" <=> path[t] = NoPath
    /\ phase[t] \in {"visit", "register", "deliver"} => Len(stack[t]) > 0

TypeInv == TypeOK /\ \A t \in Thread : Shape(t)

\* The tree of one entity is a tree.
LEMMA LeafType == \A o \in Object : Leaf(o) \in Tree /\ Leaf(o).root = o
  BY DEF Leaf, Tree

\* A new entity is an object.
LEMMA NewObjectType ==
    ASSUME TypeOK, NEW t \in Thread, created[t] < Capacity[t]
    PROVE  NewObject(t) \in Object
  BY ParseAssumption DEF TypeOK, NewObject

\* The initial state has its types.
LEMMA InitTypeInv == Init => TypeInv
<1> SUFFICES ASSUME Init PROVE TypeInv
  OBVIOUS
<1>1. IndexTypeOK
  BY DEF Init, IndexInit, EmptyMap, EmptyNs, Absent, IndexTypeOK, Value
<1>2. created \in [Thread -> Nat] /\ \A t \in Thread : created[t] <= Capacity[t]
  BY ParseAssumption DEF Init
<1>4. /\ kind \in [Object -> Kind] /\ parent \in [Object -> Object \cup {NoObject}]
      /\ alive \subseteq Object /\ phase \in [Thread -> Phase]
      /\ path \in [Thread -> Path \cup {NoPath}]
  BY DEF Init, Kind, Phase
<1>5. /\ stack \in [Thread -> Seq(Tree)] /\ done \in [Thread -> Tree \cup {NoTree}]
      /\ spent \subseteq Path
      /\ files \subseteq [file : Object, path : Path, members : SUBSET Object, lossy : BOOLEAN]
  BY DEF Init
<1>6. /\ context_error \in [Thread -> BOOLEAN] /\ lossy \in [Thread -> BOOLEAN]
      /\ error \in BOOLEAN /\ everError \in BOOLEAN /\ refused \in BOOLEAN
  BY DEF Init
<1>7. TypeOK
  BY <1>1, <1>2, <1>4, <1>5, <1>6, Zenon DEF TypeOK
<1>3. \A t \in Thread : Shape(t)
  BY DEF Init, Shape
<1> QED
  BY <1>7, <1>3 DEF TypeInv

\* The registration functions keep the types of the index.
LEMMA IndexTypes ==
    ASSUME IndexTypeOK, NEW id \in Id, NEW e \in Object
    PROVE  /\ RegisterDefinition(id, e) => IndexTypeOK'
           /\ RegisterForwardDeclaration(id, e) => IndexTypeOK'
           /\ RegisterFile(id, e) => IndexTypeOK'
           /\ RegisterNamespace(id, e) => IndexTypeOK'
           /\ UNCHANGED indexVars => IndexTypeOK'
<1>1. \A def \in BOOLEAN : [entity |-> e, is_definition |-> def] \in Value
  BY DEF Value
<1>2. e # NoObject
  BY NoObjectAssumption
<1>3. RegisterDefinition(id, e) => IndexTypeOK'
  <2>1. SUFFICES ASSUME RegisterDefinition(id, e) PROVE IndexTypeOK'
    OBVIOUS
  <2>2. PICK v \in Value : v = [entity |-> e, is_definition |-> TRUE]
    BY <1>1
  <2>3. v.entity = e
    BY <2>2
  <2>4. map' = [map EXCEPT ![id] = v] /\ ns' = ns
    BY <2>1, <2>2 DEF RegisterDefinition
  <2>5. \A j \in Id : map'[j] = IF j = id THEN v ELSE map[j]
    BY <2>4 DEF IndexTypeOK
  <2>6. \A j \in Id : map'[j].is_definition => map'[j].entity # NoObject
    BY <2>3, <2>5, <1>2 DEF IndexTypeOK, Registered
  <2>7. map' \in [Id -> Value]
    BY <2>4 DEF IndexTypeOK
  <2> QED
    BY <2>4, <2>6, <2>7 DEF IndexTypeOK, Registered
<1>4. ASSUME NEW def \in BOOLEAN, map' = Emplaced(id, e, def), ns' = ns
      PROVE  IndexTypeOK'
  <2>1. CASE Registered(id)
    BY <1>4, <2>1 DEF IndexTypeOK, Emplaced, Registered
  <2>2. CASE ~Registered(id)
    BY <1>4, <2>2, <1>1, <1>2 DEF IndexTypeOK, Emplaced, Registered
  <2> QED
    BY <2>1, <2>2
<1>5. RegisterNamespace(id, e) => IndexTypeOK'
  <2>1. IndexTypeOK /\ RegisterNamespace(id, e) => ns' \in [Id -> Seq(Object)]
    BY PushFacts DEF IndexTypeOK, RegisterNamespace
  <2> QED
    BY <2>1 DEF IndexTypeOK, RegisterNamespace, Registered
<1>6. UNCHANGED indexVars => IndexTypeOK'
  BY DEF IndexTypeOK, indexVars, Registered
<1> QED
  BY <1>3, <1>4, <1>5, <1>6 DEF RegisterForwardDeclaration, RegisterFile

\* Creating an entity keeps the types of the entity state.
LEMMA CreateTypes ==
    ASSUME TypeOK, NEW t \in Thread, NEW k \in Kind, Create(t, k)
    PROVE  /\ NewObject(t) \in Object
           /\ kind' \in [Object -> Kind]
           /\ alive' \subseteq Object
           /\ created' \in [Thread -> Nat] /\ \A u \in Thread : created'[u] <= Capacity[u]
<1>1. NewObject(t) \in Object
  BY NewObjectType DEF Create
<1>5. Capacity[t] \in Nat
  BY ParseAssumption
<1>6. created[t] \in Nat /\ created[t] < Capacity[t]
  BY DEF Create, TypeOK
<1>2. created[t] + 1 \in Nat /\ created[t] + 1 <= Capacity[t]
  BY <1>5, <1>6
<1>3. created' \in [Thread -> Nat] /\ \A u \in Thread : created'[u] <= Capacity[u]
  BY <1>2 DEF Create, TypeOK
<1>4. kind' \in [Object -> Kind] /\ alive' \subseteq Object
  BY <1>1 DEF Create, TypeOK
<1> QED
  BY <1>1, <1>3, <1>4

\* Handing a finished entity to its parent's callback keeps the types of the trees.
LEMMA ReturnTypes ==
    ASSUME TypeOK, NEW t \in Thread, Len(stack[t]) > 1, NEW r \in BOOLEAN, ReturnEntity(t, r)
    PROVE  /\ stack' \in [Thread -> Seq(Tree)]
           /\ done' \in [Thread -> Tree \cup {NoTree}]
           /\ Len(stack'[t]) > 0
           /\ \A u \in Thread \ {t} : stack'[u] = stack[u]
<1>1. stack[t] \in Seq(Tree) /\ Len(stack[t]) \in Nat
  BY DEF TypeOK
<1>2. /\ Front(stack[t]) \in Seq(Tree)
      /\ Len(Front(stack[t])) > 0
      /\ Top(t) \in Tree
  BY <1>1, PopFacts DEF Top
<1>3. [Top(t) EXCEPT !.registered = r] \in Tree
  BY <1>2 DEF Tree
<1> QED
  BY <1>2, <1>3 DEF ReturnEntity, TypeOK

\* Unwinding one builder keeps the types of the trees.
LEMMA DropTypes ==
    ASSUME TypeOK, NEW t \in Thread, Len(stack[t]) > 1, DropEntity(t)
    PROVE  /\ stack' \in [Thread -> Seq(Tree)]
           /\ Len(stack'[t]) > 0
           /\ \A u \in Thread \ {t} : stack'[u] = stack[u]
           /\ alive' \subseteq Object
           /\ context_error' \in [Thread -> BOOLEAN] /\ lossy' \in [Thread -> BOOLEAN]
<1>1. stack[t] \in Seq(Tree) /\ Len(stack[t]) \in Nat
  BY DEF TypeOK
<1>2. Front(stack[t]) \in Seq(Tree) /\ Len(Front(stack[t])) > 0
  BY <1>1, PopFacts
<1> QED
  BY <1>2 DEF DropEntity, TypeOK

\* The root of the innermost builder is an entity.
LEMMA TopType ==
    ASSUME TypeOK, NEW t \in Thread, Len(stack[t]) > 0
    PROVE  Top(t) \in Tree /\ Top(t).root \in Object /\ Top(t).members \in SUBSET Object
<1>1. stack[t] \in Seq(Tree)
  BY DEF TypeOK
<1>2. Top(t) \in Tree
  BY <1>1, PopFacts DEF Top
<1> QED
  BY <1>2 DEF Tree

\* The end of a call resets its locals.
LEMMA EndTypes ==
    ASSUME TypeOK, NEW t \in Thread, EndParse(t)
    PROVE  /\ phase' \in [Thread -> Phase]
           /\ path' \in [Thread -> Path \cup {NoPath}]
           /\ stack' \in [Thread -> Seq(Tree)]
           /\ context_error' \in [Thread -> BOOLEAN] /\ lossy' \in [Thread -> BOOLEAN]
           /\ phase'[t] = "idle" /\ path'[t] = NoPath
           /\ \A u \in Thread \ {t} :
                 phase'[u] = phase[u] /\ path'[u] = path[u] /\ stack'[u] = stack[u]
  BY DEF EndParse, TypeOK, Phase

\* Every step keeps the types.
LEMMA NextTypeInv == TypeInv /\ [Next]_vars => TypeInv'
<1> SUFFICES ASSUME TypeInv, [Next]_vars PROVE TypeInv'
  OBVIOUS
<1>0. TypeOK /\ IndexTypeOK /\ \A t \in Thread : Shape(t)
  BY DEF TypeOK, TypeInv
<1>a. UNCHANGED indexVars => IndexTypeOK'
  BY <1>0 DEF IndexTypeOK, indexVars, Registered
<1>1. ASSUME NEW t \in Thread, NEW p \in Path, BeginParse(t, p) PROVE TypeInv'
  <2>1. TypeOK'
    BY <1>0, <1>1, <1>a DEF TypeOK, BeginParse, entityVars, treeVars, flagVars, Phase
  <2>2. (\A u \in Thread : Shape(u))'
    BY <1>0, <1>1, ParseAssumption DEF TypeOK, BeginParse, treeVars, Shape
  <2> QED
    BY <2>1, <2>2 DEF TypeInv
<1>2. ASSUME NEW t \in Thread, EscapeParse(t) PROVE TypeInv'
  <2>1. TypeOK'
    BY <1>0, <1>2, <1>a DEF TypeOK, EscapeParse, entityVars, treeVars, flagVars, Phase
  <2>2. (\A u \in Thread : Shape(u))'
    BY <1>0, <1>2 DEF TypeOK, EscapeParse, treeVars, Shape
  <2> QED
    BY <2>1, <2>2 DEF TypeInv
<1>3. ASSUME NEW t \in Thread, OpenFile(t) PROVE TypeInv'
  <2>1. /\ NewObject(t) \in Object /\ kind' \in [Object -> Kind] /\ alive' \subseteq Object
        /\ created' \in [Thread -> Nat] /\ \A u \in Thread : created'[u] <= Capacity[u]
    BY <1>0, <1>3, CreateTypes DEF OpenFile, Kind
  <2>2. <<Leaf(NewObject(t))>> \in Seq(Tree) /\ Len(<<Leaf(NewObject(t))>>) = 1
    BY <2>1, LeafType, PrependFacts
  <2>3. stack' \in [Thread -> Seq(Tree)] /\ phase' \in [Thread -> Phase]
    BY <1>0, <1>3, <2>2 DEF OpenFile, TypeOK, Phase
  <2>4. TypeOK'
    BY <1>0, <1>3, <1>a, <2>1, <2>3 DEF TypeOK, OpenFile, flagVars
  <2>5. (\A u \in Thread : Shape(u))'
    BY <1>0, <1>3, <2>2 DEF TypeOK, OpenFile, Shape
  <2> QED
    BY <2>4, <2>5 DEF TypeInv
<1>4. ASSUME NEW t \in Thread, NEW k \in {"namespace", "plain"}, BeginEntity(t, k)
      PROVE  TypeInv'
  <2>1. /\ NewObject(t) \in Object /\ kind' \in [Object -> Kind] /\ alive' \subseteq Object
        /\ created' \in [Thread -> Nat] /\ \A u \in Thread : created'[u] <= Capacity[u]
    BY <1>0, <1>4, CreateTypes DEF BeginEntity, Kind
  <2>2. /\ stack[t] \in Seq(Tree) /\ Leaf(NewObject(t)) \in Tree
        /\ Append(stack[t], Leaf(NewObject(t))) \in Seq(Tree)
        /\ Len(Append(stack[t], Leaf(NewObject(t)))) > 0
    BY <1>0, <2>1, LeafType, PushFacts DEF TypeOK
  <2>3. TypeOK'
    BY <1>0, <1>4, <1>a, <2>1, <2>2 DEF TypeOK, BeginEntity, flagVars, callVars
  <2>4. (\A u \in Thread : Shape(u))'
    BY <1>0, <1>4, <2>2 DEF TypeOK, BeginEntity, callVars, Shape
  <2> QED
    BY <2>3, <2>4 DEF TypeInv
<1>5. ASSUME NEW t \in Thread, NEW id \in EntityId, FinishDefinition(t, id) PROVE TypeInv'
  <2>0. Len(stack[t]) > 1 /\ id \in Id /\ Top(t).root \in Object
    BY <1>0, <1>5, TopType DEF FinishDefinition, InEntity, EntityId, TypeOK
  <2>1. CASE DropEntity(t) /\ UNCHANGED indexVars
    <3>1. TypeOK'
      BY <1>0, <1>5, <1>a, <2>0, <2>1, DropTypes DEF TypeOK, FinishDefinition, callVars, DropEntity
    <3>2. (\A u \in Thread : Shape(u))'
      BY <1>0, <1>5, <2>0, <2>1, DropTypes DEF FinishDefinition, callVars, Shape
    <3> QED
      BY <3>1, <3>2 DEF TypeInv
  <2>2. CASE /\ RegisterDefinition(id, Top(t).root)
             /\ ReturnEntity(t, TRUE)
             /\ UNCHANGED <<alive, flagVars>>
    <3>1. IndexTypeOK'
      BY <1>0, <2>0, <2>2, IndexTypes
    <3>2. TypeOK'
      BY <1>0, <1>5, <2>0, <2>2, <3>1, ReturnTypes DEF TypeOK, FinishDefinition, callVars, flagVars
    <3>3. (\A u \in Thread : Shape(u))'
      BY <1>0, <1>5, <2>0, <2>2, ReturnTypes DEF FinishDefinition, callVars, Shape
    <3> QED
      BY <3>2, <3>3 DEF TypeInv
  <2> QED
    BY <1>5, <2>1, <2>2 DEF FinishDefinition
<1>6. ASSUME NEW t \in Thread, NEW id \in EntityId,
             FinishDeclaration(t, id) \/ FinishNamespace(t, id)
      PROVE  TypeInv'
  <2>a. Len(stack[t]) > 1 /\ id \in Id
    BY <1>6 DEF FinishDeclaration, FinishNamespace, InEntity, EntityId
  <2>b. Len(stack[t]) \in Nat
    BY <1>0 DEF TypeOK
  <2>0. Len(stack[t]) > 1 /\ id \in Id /\ Top(t).root \in Object
    BY <1>0, <2>a, <2>b, TopType
  <2>1. IndexTypeOK'
    BY <1>0, <1>6, <2>0, IndexTypes DEF FinishDeclaration, FinishNamespace
  <2>2. /\ UNCHANGED <<entityVars, flagVars, callVars>>
        /\ \E r \in BOOLEAN : ReturnEntity(t, r)
    BY <1>6 DEF FinishDeclaration, FinishNamespace
  <2>3. TypeOK'
    BY <1>0, <2>0, <2>1, <2>2, ReturnTypes DEF TypeOK, entityVars, callVars, flagVars
  <2>4. (\A u \in Thread : Shape(u))'
    BY <1>0, <2>0, <2>2, ReturnTypes DEF callVars, Shape
  <2> QED
    BY <2>3, <2>4 DEF TypeInv
<1>7. ASSUME NEW t \in Thread, FinishUnregistered(t) PROVE TypeInv'
  <2>0. Len(stack[t]) > 1
    BY <1>7 DEF FinishUnregistered, InEntity
  <2>1. ReturnEntity(t, FALSE)
    BY <1>7 DEF FinishUnregistered
  <2>2. TypeOK'
    BY <1>0, <1>7, <1>a, <2>0, <2>1, ReturnTypes
    DEF FinishUnregistered, TypeOK, entityVars, callVars, flagVars
  <2>3. (\A u \in Thread : Shape(u))'
    BY <1>0, <1>7, <2>0, <2>1, ReturnTypes DEF FinishUnregistered, callVars, Shape
  <2> QED
    BY <2>2, <2>3 DEF TypeInv
<1>8. ASSUME NEW t \in Thread, NEW k \in {"template", "friend"}, WrapEntity(t, k) PROVE TypeInv'
  <2>1. /\ NewObject(t) \in Object /\ kind' \in [Object -> Kind] /\ alive' \subseteq Object
        /\ created' \in [Thread -> Nat] /\ \A u \in Thread : created'[u] <= Capacity[u]
    BY <1>0, <1>8, CreateTypes DEF WrapEntity, Kind
  <2>2. done[t] \in Tree
    BY <1>0, <1>8 DEF WrapEntity, TypeOK
  <2> DEFINE w == [Leaf(NewObject(t)) EXCEPT !.members = @ \cup done[t].members]
  <2>3. w \in Tree
    BY <2>1, <2>2 DEF Leaf, Tree
  <2>4. /\ Append(stack[t], w) \in Seq(Tree)
        /\ Len(Append(stack[t], w)) > 0
    BY <1>0, <2>3, PushFacts DEF TypeOK
  <2>5. stack' = [stack EXCEPT ![t] = Append(stack[t], w)]
    BY <1>8 DEF WrapEntity
  <2>6. stack' \in [Thread -> Seq(Tree)] /\ \A u \in Thread : Len(stack[u]) > 0 => Len(stack'[u]) > 0
    BY <1>0, <2>4, <2>5 DEF TypeOK
  <2>7. parent' \in [Object -> Object \cup {NoObject}]
    BY <1>0, <1>8, <2>1 DEF WrapEntity, TypeOK
  <2>8. done' \in [Thread -> Tree \cup {NoTree}]
    BY <1>0, <1>8 DEF WrapEntity, TypeOK
  <2>9. TypeOK'
    BY <1>0, <1>8, <1>a, <2>1, <2>6, <2>7, <2>8 DEF WrapEntity, TypeOK, flagVars, callVars
  <2>10. (\A u \in Thread : Shape(u))'
    BY <1>0, <1>8, <2>6 DEF WrapEntity, callVars, Shape
  <2> QED
    BY <2>9, <2>10 DEF TypeInv
<1>9. ASSUME NEW t \in Thread, AddChild(t) PROVE TypeInv'
  <2>1. Len(stack[t]) > 0 /\ stack[t] \in Seq(Tree) /\ Top(t).root \in Object
    BY <1>0, <1>9, TopType DEF AddChild, Shape, TypeOK
  <2>2. done[t].members \in SUBSET Object
    BY <1>0, <1>9 DEF AddChild, TypeOK, Tree
  <2> DEFINE r == [stack[t] EXCEPT ![Len(stack[t])].members = @ \cup done[t].members]
  <2>3. r \in Seq(Tree) /\ Len(r) = Len(stack[t])
    BY <2>1, <2>2, ExtendFacts
  <2>4. stack' = [stack EXCEPT ![t] = r]
    BY <1>9 DEF AddChild
  <2>5. stack' \in [Thread -> Seq(Tree)] /\ \A u \in Thread : Len(stack[u]) > 0 => Len(stack'[u]) > 0
    BY <1>0, <2>3, <2>4 DEF TypeOK
  <2>6. parent' \in [Object -> Object \cup {NoObject}] /\ done' \in [Thread -> Tree \cup {NoTree}]
    BY <1>0, <1>9, <2>1 DEF AddChild, TypeOK
  <2>7. TypeOK'
    BY <1>0, <1>9, <1>a, <2>5, <2>6 DEF AddChild, TypeOK, flagVars, callVars
  <2>8. (\A u \in Thread : Shape(u))'
    BY <1>0, <1>9, <2>5 DEF AddChild, callVars, Shape
  <2> QED
    BY <2>7, <2>8 DEF TypeInv
<1>10. ASSUME NEW t \in Thread, ParseError(t) PROVE TypeInv'
  <2>1. Len(stack[t]) > 1 /\ DropEntity(t)
    BY <1>10 DEF ParseError, InEntity
  <2>2. TypeOK'
    BY <1>0, <1>10, <1>a, <2>1, DropTypes DEF TypeOK, ParseError, callVars, DropEntity
  <2>3. (\A u \in Thread : Shape(u))'
    BY <1>0, <1>10, <2>1, DropTypes DEF ParseError, callVars, Shape
  <2> QED
    BY <2>2, <2>3 DEF TypeInv
<1>15. ASSUME NEW t \in Thread, ParseErrorLate(t) PROVE TypeInv'
  <2>1. done' \in [Thread -> Tree \cup {NoTree}] /\ alive' \subseteq Object
    BY <1>0, <1>15 DEF TypeOK, ParseErrorLate
  <2>2. TypeOK'
    BY <1>0, <1>15, <1>a, <2>1 DEF TypeOK, ParseErrorLate, callVars
  <2>3. (\A u \in Thread : Shape(u))'
    BY <1>0, <1>15 DEF ParseErrorLate, callVars, Shape
  <2> QED
    BY <2>2, <2>3 DEF TypeInv
<1>11. ASSUME NEW t \in Thread, FinishVisit(t) PROVE TypeInv'
  <2>1. TypeOK'
    BY <1>0, <1>11, <1>a DEF TypeOK, FinishVisit, entityVars, treeVars, Phase
  <2>2. (\A u \in Thread : Shape(u))'
    BY <1>0, <1>11 DEF TypeOK, FinishVisit, Visiting, treeVars, Shape
  <2> QED
    BY <2>1, <2>2 DEF TypeInv
<1>12. ASSUME NEW t \in Thread, FinishFile(t) PROVE TypeInv'
  <2>0. Len(stack[t]) > 0 /\ Top(t).root \in Object /\ path[t] \in Path /\ path[t] \in Id
    BY <1>0, <1>12, TopType, ParseAssumption DEF FinishFile, Shape, TypeOK
  <2>1. IndexTypeOK'
    BY <1>0, <1>12, <2>0, IndexTypes DEF FinishFile
  <2>2. CASE FileInserted(path[t])
    <3>1. TypeOK'
      BY <1>0, <1>12, <2>1, <2>2 DEF TypeOK, FinishFile, Phase
    <3>2. (\A u \in Thread : Shape(u))'
      BY <1>0, <1>12, <2>2 DEF TypeOK, FinishFile, Shape
    <3> QED
      BY <3>1, <3>2 DEF TypeInv
  <2>3. CASE ~FileInserted(path[t])
    <3>1. TypeOK'
      BY <1>0, <1>12, <2>1, <2>3, EndTypes DEF TypeOK, FinishFile
    <3>2. (\A u \in Thread : Shape(u))'
      BY <1>0, <1>12, <2>3, EndTypes DEF FinishFile, Shape
    <3> QED
      BY <3>1, <3>2 DEF TypeInv
  <2> QED
    BY <2>2, <2>3
<1>13. ASSUME NEW t \in Thread, Deliver(t) PROVE TypeInv'
  <2>0. Len(stack[t]) > 0 /\ Top(t).root \in Object /\ Top(t).members \in SUBSET Object
        /\ path[t] \in Path /\ lossy[t] \in BOOLEAN
    BY <1>0, <1>13, TopType DEF Deliver, Shape, TypeOK
  <2>1. files' \subseteq [file : Object, path : Path, members : SUBSET Object, lossy : BOOLEAN]
    BY <1>0, <1>13, <2>0 DEF Deliver, TypeOK
  <2>2. TypeOK'
    BY <1>0, <1>13, <1>a, <2>1, EndTypes DEF TypeOK, Deliver, entityVars
  <2>3. (\A u \in Thread : Shape(u))'
    BY <1>0, <1>13, EndTypes DEF Deliver, Shape
  <2> QED
    BY <2>2, <2>3 DEF TypeInv
<1>14. ASSUME ResetError \/ UNCHANGED vars PROVE TypeInv'
  <2>1. TypeOK'
    BY <1>0, <1>14, <1>a
    DEF TypeOK, ResetError, vars, entityVars, treeVars, flagVars, callVars
  <2>2. (\A u \in Thread : Shape(u))'
    BY <1>0, <1>14 DEF ResetError, vars, treeVars, callVars, Shape
  <2> QED
    BY <2>1, <2>2 DEF TypeInv
<1> QED
  BY <1>1, <1>2, <1>3, <1>4, <1>5, <1>6, <1>7, <1>8, <1>9, <1>10, <1>11, <1>12, <1>13, <1>14,
     <1>15
  DEF Next, ThreadStep, EntityStep

\* Every variable keeps its type, and the builders match the phase of their thread.
THEOREM TypeInvariant == Spec => []TypeInv
  BY InitTypeInv, NextTypeInv, PTL DEF Spec

\* The type invariant of the runs.
THEOREM TypeCorrect == Spec => []TypeOK
<1>1. TypeInv => TypeOK
  BY DEF TypeInv
<1> QED
  BY <1>1, TypeInvariant, PTL

----------------------------------------------------------------------------
(* No destroyed entity is reachable unless somebody was told.              *)
(*                                                                         *)
(* DanglingIsAnnounced is not inductive: the step that registers an entity *)
(* needs that the entity, the root of the innermost builder, is alive, and *)
(* the step that resets the flag of a context needs that the flag was      *)
(* handed on to the parser before.                                         *)

\* IndexReferencesAlive, entry by entry.
RefsAlive ==
    /\ \A id \in Id : Registered(id) => map[id].entity \in alive
    /\ \A id \in Id : \A i \in 1 .. Len(ns[id]) : ns[id][i] \in alive

\* The entities under construction are alive.
RootsAlive == \A t \in Thread : \A i \in 1 .. Len(stack[t]) : stack[t][i].root \in alive

Trouble == everError \/ refused \/ \E t \in Thread : context_error[t]

\* The flag of a parse_context reaches the parser before the context is gone.
Reported == \A t \in Thread : context_error[t] => phase[t] = "visit" \/ everError

AliveInv == Reported /\ (~Trouble => RefsAlive /\ RootsAlive)

\* RefsAlive is IndexReferencesAlive, said of the map and the blocks.
LEMMA RefsAliveMeaning == IndexTypeOK => (RefsAlive <=> IndexReferencesAlive)
<1> SUFFICES ASSUME IndexTypeOK PROVE RefsAlive <=> IndexReferencesAlive
  OBVIOUS
<1>1. \A id \in Id : DOMAIN ns[id] = 1 .. Len(ns[id])
  <2>1. \A s \in Seq(Object) : DOMAIN s = 1 .. Len(s)
    BY LenProperties
  <2> QED
    BY <2>1 DEF IndexTypeOK
<1>2. \A id \in Id : (\A i \in 1 .. Len(ns[id]) : ns[id][i] \in alive) <=> Range(ns[id]) \subseteq alive
  BY <1>1 DEF Range
<1>3. ASSUME RefsAlive, NEW o \in References PROVE o \in alive
  <2>1. CASE \E id \in Id : Registered(id) /\ o = map[id].entity
    BY <1>3, <2>1 DEF RefsAlive
  <2>2. CASE \E id \in Id : o \in Range(ns[id])
    BY <1>2, <1>3, <2>2 DEF RefsAlive
  <2> QED
    BY <2>1, <2>2 DEF References
<1>4. ASSUME IndexReferencesAlive PROVE RefsAlive
  <2>1. \A id \in Id : Registered(id) => map[id].entity \in References
    BY DEF References
  <2>2. \A id \in Id : Range(ns[id]) \subseteq References
    BY DEF References
  <2> QED
    BY <1>2, <1>4, <2>1, <2>2 DEF RefsAlive, IndexReferencesAlive
<1> QED
  BY <1>3, <1>4 DEF IndexReferencesAlive

\* An empty index refers to nothing.
LEMMA InitAlive == Init => AliveInv
<1> SUFFICES ASSUME Init PROVE AliveInv
  OBVIOUS
<1>1. Reported
  BY DEF Init, Reported
<1>2. RefsAlive
  BY DEF Init, IndexInit, EmptyMap, EmptyNs, Absent, RefsAlive, Registered
<1>3. RootsAlive
  BY DEF Init, RootsAlive
<1> QED
  BY <1>1, <1>2, <1>3 DEF AliveInv

\* A step of thread t that destroys nothing, and registers live entities only.
LEMMA RefsStep ==
    ASSUME IndexTypeOK, RefsAlive, alive \subseteq alive', NEW o \in Object, o \in alive',
           NEW k \in Id,
           \/ UNCHANGED map
           \/ \E def \in BOOLEAN : map' = [map EXCEPT ![k] = [entity |-> o, is_definition |-> def]],
           ns' = ns \/ ns' = [ns EXCEPT ![k] = Append(@, o)]
    PROVE  RefsAlive'
<1>1. ASSUME NEW id \in Id, Registered(id)' PROVE map'[id].entity \in alive'
  <2>1. CASE map' = map
    BY <1>1, <2>1 DEF RefsAlive, Registered
  <2>2. CASE \E def \in BOOLEAN : map' = [map EXCEPT ![k] = [entity |-> o, is_definition |-> def]]
    <3>1. map'[id] = map[id] \/ map'[id].entity = o
      BY <2>2 DEF IndexTypeOK
    <3> QED
      BY <1>1, <3>1 DEF RefsAlive, Registered
  <2> QED
    BY <2>1, <2>2
<1>2. ASSUME NEW id \in Id, NEW i \in 1 .. Len(ns'[id]) PROVE ns'[id][i] \in alive'
  <2>1. CASE ns'[id] = ns[id]
    BY <1>2, <2>1 DEF RefsAlive
  <2>2. CASE ns'[id] = Append(ns[id], o)
    <3>1. ns[id] \in Seq(Object)
      BY DEF IndexTypeOK
    <3>2. /\ Len(ns'[id]) = Len(ns[id]) + 1 /\ Len(ns[id]) \in Nat
          /\ \A j \in 1 .. Len(ns[id]) : ns'[id][j] = ns[id][j]
          /\ ns'[id][Len(ns[id]) + 1] = o
      BY <2>2, <3>1, PushFacts
    <3>3. i \in 1 .. Len(ns[id]) \/ i = Len(ns[id]) + 1
      BY <3>2
    <3> QED
      BY <3>2, <3>3 DEF RefsAlive
  <2>3. ns'[id] = ns[id] \/ ns'[id] = Append(ns[id], o)
    BY DEF IndexTypeOK
  <2> QED
    BY <2>1, <2>2, <2>3
<1> QED
  BY <1>1, <1>2 DEF RefsAlive

\* The index is left alone and nothing is destroyed.
LEMMA RefsKept == RefsAlive /\ UNCHANGED indexVars /\ alive \subseteq alive' => RefsAlive'
  BY DEF RefsAlive, indexVars, Registered

\* The innermost builder builds a live entity.
LEMMA TopAlive ==
    ASSUME TypeOK, RootsAlive, NEW t \in Thread, Len(stack[t]) > 0
    PROVE  Top(t).root \in alive
<1>1. Len(stack[t]) \in 1 .. Len(stack[t])
  BY DEF TypeOK
<1> QED
  BY <1>1 DEF RootsAlive, Top, Last

\* Closing a builder keeps the rest of the stack.
LEMMA RootsPopped ==
    ASSUME TypeOK, RootsAlive, alive' = alive, NEW t \in Thread, Len(stack[t]) > 1,
           stack' = [stack EXCEPT ![t] = Front(@)]
    PROVE  RootsAlive'
<1>1. stack[t] \in Seq(Tree) /\ Len(stack[t]) \in Nat /\ stack'[t] = Front(stack[t])
  BY DEF TypeOK
<1>2. /\ Len(stack'[t]) = Len(stack[t]) - 1
      /\ \A i \in 1 .. Len(stack[t]) - 1 : stack'[t][i] = stack[t][i]
  BY <1>1, PopFacts
<1>3. \A i \in 1 .. Len(stack'[t]) : stack'[t][i].root \in alive
  BY <1>1, <1>2 DEF RootsAlive
<1>4. \A u \in Thread \ {t} : stack'[u] = stack[u]
  BY DEF TypeOK
<1> QED
  BY <1>3, <1>4 DEF RootsAlive

\* Opening a builder for a new entity.
LEMMA RootsPushed ==
    ASSUME TypeOK, RootsAlive, NEW t \in Thread, NEW w \in Tree,
           alive' = alive \cup {w.root}, stack' = [stack EXCEPT ![t] = Append(@, w)]
    PROVE  RootsAlive'
<1>1. stack[t] \in Seq(Tree) /\ Len(stack[t]) \in Nat /\ stack'[t] = Append(stack[t], w)
  BY DEF TypeOK
<1>2. /\ Len(stack'[t]) = Len(stack[t]) + 1
      /\ \A i \in 1 .. Len(stack[t]) : stack'[t][i] = stack[t][i]
      /\ stack'[t][Len(stack[t]) + 1] = w
  BY <1>1, PushFacts
<1>3. \A i \in 1 .. Len(stack'[t]) : i \in 1 .. Len(stack[t]) \/ i = Len(stack[t]) + 1
  BY <1>1, <1>2
<1>4. \A i \in 1 .. Len(stack'[t]) : stack'[t][i].root \in alive'
  BY <1>2, <1>3 DEF RootsAlive
<1>5. \A u \in Thread \ {t} : stack'[u] = stack[u]
  BY DEF TypeOK
<1> QED
  BY <1>4, <1>5 DEF RootsAlive

\* Adding to what the innermost builder owns changes no root.
LEMMA RootsExtended ==
    ASSUME TypeOK, RootsAlive, alive' = alive, NEW t \in Thread, Len(stack[t]) > 0,
           NEW m \in SUBSET Object,
           stack' = [stack EXCEPT ![t][Len(stack[t])].members = @ \cup m]
    PROVE  RootsAlive'
<1>1. stack[t] \in Seq(Tree)
  BY DEF TypeOK
<1>2. stack'[t] = [stack[t] EXCEPT ![Len(stack[t])].members = @ \cup m]
  BY DEF TypeOK
<1>3. Len(stack'[t]) = Len(stack[t]) /\ \A i \in 1 .. Len(stack[t]) : stack'[t][i].root = stack[t][i].root
  BY <1>1, <1>2, ExtendFacts
<1>4. \A u \in Thread \ {t} : stack'[u] = stack[u]
  BY DEF TypeOK
<1> QED
  BY <1>3, <1>4 DEF RootsAlive

\* The builders of a call that ends are gone, the others stay.
LEMMA RootsCleared ==
    ASSUME TypeOK, RootsAlive, alive' = alive, NEW t \in Thread,
           stack' = [stack EXCEPT ![t] = <<>>]
    PROVE  RootsAlive'
<1>1. stack'[t] = <<>> /\ \A u \in Thread \ {t} : stack'[u] = stack[u]
  BY DEF TypeOK
<1>2. \A i \in 1 .. Len(stack'[t]) : FALSE
  BY <1>1
<1> QED
  BY <1>1, <1>2 DEF RootsAlive

----------------------------------------------------------------------------
(* The steps by what they do to the index and to the entities. *)

\* Nothing is registered and nothing destroyed.
QuietStep(t) ==
    \/ \E p \in Path : BeginParse(t, p)
    \/ EscapeParse(t)
    \/ OpenFile(t)
    \/ \E k \in {"namespace", "plain"} : BeginEntity(t, k)
    \/ FinishUnregistered(t)
    \/ \E k \in {"template", "friend"} : WrapEntity(t, k)
    \/ AddChild(t)
    \/ FinishVisit(t)
    \/ Deliver(t)

\* An entity is destroyed with what it owns, and its context is told.
DropStep(t) ==
    /\ phase[t] = "visit"
    /\ context_error' = [context_error EXCEPT ![t] = TRUE]
    /\ lossy' = [lossy EXCEPT ![t] = TRUE]
    /\ \E s : stack' = [stack EXCEPT ![t] = s]
    /\ UNCHANGED <<indexVars, callVars, error, everError, refused>>

\* The innermost entity is finished and registered.
RegisterStep(t) ==
    /\ InEntity(t)
    /\ \E id \in EntityId :
          \/ RegisterDefinition(id, Top(t).root)
          \/ RegisterForwardDeclaration(id, Top(t).root)
          \/ RegisterNamespace(id, Top(t).root)
    /\ \E r \in BOOLEAN : ReturnEntity(t, r)
    /\ UNCHANGED <<entityVars, flagVars, callVars>>

\* What register_definition does: it registers, or refuses and unwinds.
LEMMA DefinitionKinds ==
    ASSUME NEW t \in Thread, NEW id \in EntityId,
           FinishDefinition(t, id) \/ FinishDeclaration(t, id) \/ FinishNamespace(t, id)
    PROVE  DropStep(t) \/ RegisterStep(t)
<1>1. CASE FinishDefinition(t, id)
  <2>1. CASE DropEntity(t) /\ UNCHANGED indexVars
    BY <1>1, <2>1 DEF FinishDefinition, DropEntity, DropStep, InEntity, Visiting, callVars
  <2>2. CASE /\ RegisterDefinition(id, Top(t).root)
             /\ ReturnEntity(t, TRUE)
             /\ UNCHANGED <<alive, flagVars>>
    BY <1>1, <2>2 DEF FinishDefinition, RegisterStep, callVars, flagVars, entityVars
  <2> QED
    BY <1>1, <2>1, <2>2 DEF FinishDefinition
<1>2. CASE FinishDeclaration(t, id)
  BY <1>2 DEF FinishDeclaration, RegisterStep, callVars, flagVars, entityVars
<1>3. CASE FinishNamespace(t, id)
  BY <1>3 DEF FinishNamespace, RegisterStep, callVars, flagVars, entityVars
<1> QED
  BY <1>1, <1>2, <1>3

\* Every step by what it does to the index and to the living.
LEMMA StepKinds ==
    ASSUME TypeInv, NEW t \in Thread, ThreadStep(t)
    PROVE  QuietStep(t) \/ DropStep(t) \/ RegisterStep(t) \/ FinishFile(t)
<1>0. TypeOK
  BY DEF TypeInv
<1>1. CASE \E id \in EntityId : \/ FinishDefinition(t, id)
                               \/ FinishDeclaration(t, id)
                               \/ FinishNamespace(t, id)
  BY <1>1, DefinitionKinds
<1>2. CASE ParseError(t)
  BY <1>2 DEF ParseError, DropEntity, DropStep, InEntity, Visiting, callVars, indexVars
<1>3. CASE ParseErrorLate(t)
  <2>1. stack' = [stack EXCEPT ![t] = stack[t]]
    BY <1>0, <1>3 DEF ParseErrorLate, TypeOK
  <2> QED
    BY <1>3, <2>1 DEF ParseErrorLate, DropStep, callVars, indexVars
<1> QED
  BY <1>1, <1>2, <1>3, Zenon DEF ThreadStep, EntityStep, QuietStep

\* A thread that drops an entity raises the flag of its context.
LEMMA DropTrouble == ASSUME TypeOK, NEW t \in Thread, DropStep(t) PROVE Trouble'
<1>1. context_error'[t] = TRUE
  BY DEF DropStep, TypeOK
<1> QED
  BY <1>1 DEF Trouble

\* The end of a call drops the flag of its context after it has been reported.
LEMMA EndReported ==
    ASSUME TypeOK, Reported, NEW t \in Thread, EndParse(t), everError' = everError
    PROVE  Reported'
<1>1. phase'[t] = "idle" /\ context_error'[t] = FALSE
  BY DEF EndParse, TypeOK
<1>2. \A u \in Thread \ {t} : phase'[u] = phase[u] /\ context_error'[u] = context_error[u]
  BY DEF EndParse, TypeOK
<1> QED
  BY <1>1, <1>2 DEF Reported

\* The flag of a context is set while its thread visits, and handed on before it falls.
LEMMA QuietFlags ==
    ASSUME TypeInv, Reported, NEW t \in Thread, QuietStep(t)
    PROVE  Reported' /\ (Trouble => Trouble')
<1>0. TypeOK
  BY DEF TypeInv
<1>1. CASE (\E p \in Path : BeginParse(t, p)) \/ EscapeParse(t)
  BY <1>0, <1>1 DEF BeginParse, EscapeParse, flagVars, Reported, Trouble, TypeOK
<1>2. CASE OpenFile(t)
  <2>1. /\ context_error' = [context_error EXCEPT ![t] = FALSE]
        /\ phase[t] = "preprocess" /\ phase' = [phase EXCEPT ![t] = "visit"]
        /\ everError' = everError /\ refused' = refused
    BY <1>2 DEF OpenFile
  <2>2. context_error[t] => everError
    BY <2>1 DEF Reported
  <2>3. \A u \in Thread \ {t} : context_error'[u] = context_error[u] /\ phase'[u] = phase[u]
    BY <1>0, <2>1 DEF TypeOK
  <2>4. context_error'[t] = FALSE
    BY <1>0, <2>1 DEF TypeOK
  <2> QED
    BY <2>1, <2>2, <2>3, <2>4 DEF Reported, Trouble
<1>3. CASE \/ \E k \in {"namespace", "plain"} : BeginEntity(t, k)
           \/ FinishUnregistered(t)
           \/ \E k \in {"template", "friend"} : WrapEntity(t, k)
           \/ AddChild(t)
  <2>1. UNCHANGED <<flagVars, callVars>>
    BY <1>3 DEF BeginEntity, FinishUnregistered, WrapEntity, AddChild
  <2> QED
    BY <1>0, <2>1 DEF flagVars, callVars, Reported, Trouble
<1>4. CASE FinishVisit(t)
  BY <1>0, <1>4 DEF FinishVisit, Reported, Trouble, TypeOK
<1>5. CASE Deliver(t)
  <2>1. EndParse(t) /\ everError' = everError /\ refused' = refused /\ phase[t] = "deliver"
    BY <1>5 DEF Deliver
  <2>2. context_error[t] => everError
    BY <2>1 DEF Reported
  <2>3. \A u \in Thread \ {t} : context_error'[u] = context_error[u]
    BY <1>0, <2>1 DEF EndParse, TypeOK
  <2> QED
    BY <1>0, <2>1, <2>2, <2>3, EndReported DEF Trouble
<1> QED
  BY <1>1, <1>2, <1>3, <1>4, <1>5, Zenon DEF QuietStep

\* The end of a file keeps what is reported.
LEMMA FinishFileFlags ==
    ASSUME TypeInv, Reported, NEW t \in Thread, FinishFile(t)
    PROVE  Reported' /\ (Trouble => Trouble')
<1>0. TypeOK
  BY DEF TypeInv
<1>1. CASE FileInserted(path[t])
  BY <1>0, <1>1 DEF FinishFile, Reported, Trouble, TypeOK
<1>2. CASE ~FileInserted(path[t])
  <2>1. EndParse(t) /\ everError' = everError /\ refused'
    BY <1>2 DEF FinishFile
  <2> QED
    BY <1>0, <2>1, EndReported DEF Trouble
<1> QED
  BY <1>1, <1>2

----------------------------------------------------------------------------
\* The steps that destroy no entity.
LEMMA QuietAlive ==
    ASSUME TypeInv, TypeInv', RefsAlive, RootsAlive, NEW t \in Thread, QuietStep(t)
    PROVE  RefsAlive' /\ RootsAlive'
<1>0. TypeOK /\ Shape(t) /\ stack[t] \in Seq(Tree) /\ Len(stack[t]) \in Nat
  BY DEF TypeInv, TypeOK
<1>1. CASE (\E p \in Path : BeginParse(t, p)) \/ EscapeParse(t) \/ FinishVisit(t)
  BY <1>1 DEF BeginParse, EscapeParse, FinishVisit, entityVars, treeVars, indexVars,
              RefsAlive, RootsAlive, Registered
<1>2. CASE OpenFile(t)
  <2>1. UNCHANGED indexVars /\ alive' = alive \cup {NewObject(t)} /\ NewObject(t) \in Object
    BY <1>0, <1>2, NewObjectType DEF OpenFile, Create
  <2>2. stack' = [stack EXCEPT ![t] = <<Leaf(NewObject(t))>>]
    BY <1>2 DEF OpenFile
  <2>3. stack'[t] = <<Leaf(NewObject(t))>> /\ \A u \in Thread \ {t} : stack'[u] = stack[u]
    BY <1>0, <2>2 DEF TypeOK
  <2>4. \A i \in 1 .. Len(stack'[t]) : stack'[t][i].root = NewObject(t)
    BY <2>1, <2>3, LeafType
  <2>5. RootsAlive'
    BY <2>1, <2>3, <2>4 DEF RootsAlive
  <2> QED
    BY <2>1, <2>5, RefsKept
<1>3. CASE \E k \in {"namespace", "plain"} : BeginEntity(t, k)
  <2>1. UNCHANGED indexVars /\ alive' = alive \cup {NewObject(t)} /\ NewObject(t) \in Object
    BY <1>0, <1>3, NewObjectType DEF BeginEntity, Create
  <2>2. Leaf(NewObject(t)) \in Tree /\ Leaf(NewObject(t)).root = NewObject(t)
    BY <2>1, LeafType
  <2>3. stack' = [stack EXCEPT ![t] = Append(@, Leaf(NewObject(t)))]
    BY <1>3 DEF BeginEntity
  <2> QED
    BY <1>0, <2>1, <2>2, <2>3, RootsPushed, RefsKept
<1>4. CASE FinishUnregistered(t)
  <2>1. /\ UNCHANGED indexVars /\ alive' = alive
        /\ Len(stack[t]) > 1 /\ stack' = [stack EXCEPT ![t] = Front(@)]
    BY <1>4 DEF FinishUnregistered, ReturnEntity, InEntity, entityVars
  <2> QED
    BY <1>0, <2>1, RootsPopped, RefsKept
<1>5. CASE \E k \in {"template", "friend"} : WrapEntity(t, k)
  <2>1. /\ UNCHANGED indexVars /\ alive' = alive \cup {NewObject(t)} /\ NewObject(t) \in Object
        /\ done[t] # NoTree
    BY <1>0, <1>5, NewObjectType DEF WrapEntity, Create
  <2>2. done[t].members \in SUBSET Object
    BY <1>0, <2>1 DEF TypeOK, Tree
  <2>3. PICK w : w = [Leaf(NewObject(t)) EXCEPT !.members = @ \cup done[t].members]
    OBVIOUS
  <2>4. w \in Tree /\ w.root = NewObject(t)
    BY <2>1, <2>2, <2>3 DEF Leaf, Tree
  <2>5. stack' = [stack EXCEPT ![t] = Append(@, w)]
    BY <1>5, <2>3 DEF WrapEntity
  <2> QED
    BY <1>0, <2>1, <2>4, <2>5, RootsPushed, RefsKept
<1>6. CASE AddChild(t)
  <2>1. /\ UNCHANGED indexVars /\ alive' = alive /\ done[t] # NoTree
        /\ stack' = [stack EXCEPT ![t][Len(stack[t])].members = @ \cup done[t].members]
    BY <1>6 DEF AddChild
  <2>2. done[t].members \in SUBSET Object /\ Len(stack[t]) > 0
    BY <1>0, <1>6, <2>1 DEF AddChild, Shape, TypeOK, Tree
  <2> QED
    BY <1>0, <2>1, <2>2, RootsExtended, RefsKept
<1>7. CASE Deliver(t)
  <2>1. UNCHANGED indexVars /\ alive' = alive /\ stack' = [stack EXCEPT ![t] = <<>>]
    BY <1>7 DEF Deliver, EndParse, entityVars
  <2> QED
    BY <1>0, <2>1, RootsCleared, RefsKept
<1> QED
  BY <1>1, <1>2, <1>3, <1>4, <1>5, <1>6, <1>7, Zenon DEF QuietStep

\* The steps that register an entity.
LEMMA RegisterAlive ==
    ASSUME TypeInv, RefsAlive, RootsAlive, NEW t \in Thread, NEW id \in Id,
           Len(stack[t]) > 0, alive' = alive,
           \/ RegisterDefinition(id, Top(t).root)
           \/ RegisterForwardDeclaration(id, Top(t).root)
           \/ RegisterFile(id, Top(t).root)
           \/ RegisterNamespace(id, Top(t).root)
    PROVE  RefsAlive'
<1>0. TypeOK /\ IndexTypeOK
  BY DEF TypeInv, TypeOK
<1>1. Top(t).root \in alive /\ Top(t).root \in Object
  BY <1>0, TopAlive, TopType
<1>2. PICK o \in Object : o = Top(t).root
  BY <1>1
<1>3. \/ UNCHANGED map
      \/ \E def \in BOOLEAN : map' = [map EXCEPT ![id] = [entity |-> o, is_definition |-> def]]
  BY <1>2 DEF RegisterDefinition, RegisterForwardDeclaration, RegisterFile, RegisterNamespace, Emplaced
<1>4. ns' = ns \/ ns' = [ns EXCEPT ![id] = Append(@, o)]
  BY <1>2 DEF RegisterDefinition, RegisterForwardDeclaration, RegisterFile, RegisterNamespace
<1> QED
  BY <1>0, <1>1, <1>2, <1>3, <1>4, RefsStep

\* AliveInv is inductive.
LEMMA NextAlive == TypeInv /\ TypeInv' /\ AliveInv /\ [Next]_vars => AliveInv'
<1> SUFFICES ASSUME TypeInv, TypeInv', AliveInv, [Next]_vars PROVE AliveInv'
  OBVIOUS
<1>0. TypeOK /\ Reported
  BY DEF TypeInv, AliveInv
<1>1. ASSUME NEW t \in Thread, QuietStep(t) PROVE AliveInv'
  <2>1. Reported' /\ (Trouble => Trouble')
    BY <1>0, <1>1, QuietFlags
  <2> QED
    BY <1>1, <2>1, QuietAlive DEF AliveInv
<1>2. ASSUME NEW t \in Thread, DropStep(t) PROVE AliveInv'
  <2>1. Reported'
    BY <1>0, <1>2 DEF DropStep, callVars, Reported, TypeOK
  <2> QED
    BY <1>0, <1>2, <2>1, DropTrouble DEF AliveInv
<1>3. ASSUME NEW t \in Thread, RegisterStep(t) PROVE AliveInv'
  <2>1. UNCHANGED <<alive, flagVars, callVars>>
    BY <1>3 DEF RegisterStep, entityVars, flagVars, callVars
  <2>2. Reported' /\ (Trouble => Trouble')
    BY <1>0, <2>1 DEF flagVars, callVars, Reported, Trouble
  <2>3. Len(stack[t]) > 1 /\ stack' = [stack EXCEPT ![t] = Front(@)] /\ alive' = alive
    BY <1>3 DEF RegisterStep, InEntity, ReturnEntity, entityVars
  <2>4. PICK id \in Id : \/ RegisterDefinition(id, Top(t).root)
                         \/ RegisterForwardDeclaration(id, Top(t).root)
                         \/ RegisterNamespace(id, Top(t).root)
    BY <1>3 DEF RegisterStep, EntityId
  <2>5. Len(stack[t]) > 0
    BY <1>0, <2>3 DEF TypeOK
  <2>6. RefsAlive /\ RootsAlive => RefsAlive' /\ RootsAlive'
    BY <1>0, <2>3, <2>4, <2>5, RegisterAlive, RootsPopped
  <2> QED
    BY <2>2, <2>6 DEF AliveInv
<1>4. ASSUME NEW t \in Thread, FinishFile(t) PROVE AliveInv'
  <2>1. Reported' /\ (Trouble => Trouble')
    BY <1>0, <1>4, FinishFileFlags
  <2>2. Len(stack[t]) > 0 /\ path[t] \in Id /\ RegisterFile(path[t], Top(t).root)
    BY <1>4, ParseAssumption DEF FinishFile, TypeInv, TypeOK, Shape
  <2>5. PICK id \in Id : RegisterFile(id, Top(t).root)
    BY <2>2
  <2>3. CASE FileInserted(path[t])
    <3>1. alive' = alive /\ stack' = stack
      BY <1>4, <2>3 DEF FinishFile
    <3>2. RefsAlive /\ RootsAlive => RefsAlive'
      BY <2>2, <2>5, <3>1, RegisterAlive
    <3>3. RootsAlive => RootsAlive'
      BY <3>1 DEF RootsAlive
    <3> QED
      BY <2>1, <3>2, <3>3 DEF AliveInv
  <2>4. CASE ~FileInserted(path[t])
    <3>1. Trouble'
      BY <1>4, <2>4 DEF FinishFile, Trouble
    <3> QED
      BY <2>1, <3>1 DEF AliveInv
  <2> QED
    BY <2>3, <2>4
<1>5. ASSUME ResetError \/ UNCHANGED vars PROVE AliveInv'
  BY <1>5 DEF ResetError, vars, indexVars, entityVars, treeVars, flagVars, callVars,
              AliveInv, Reported, Trouble, RefsAlive, RootsAlive, Registered
<1>6. ASSUME NEW t \in Thread, ThreadStep(t) PROVE AliveInv'
  BY <1>1, <1>2, <1>3, <1>4, <1>6, StepKinds
<1> QED
  BY <1>5, <1>6 DEF Next

\* AliveInv holds in every reachable state.
THEOREM AliveInvariant == Spec => []AliveInv
  BY TypeInvariant, InitAlive, NextAlive, PTL DEF Spec

\* For all threads, paths and trees: the index refers to a destroyed entity only after
\* a parse has lost a declaration, which error() announces, or has returned nullptr.
THEOREM DanglingAnnounced == Spec => []DanglingIsAnnounced
<1>1. TypeInv /\ AliveInv => DanglingIsAnnounced
  BY RefsAliveMeaning DEF TypeInv, TypeOK, AliveInv, Trouble, DanglingIsAnnounced
<1> QED
  BY <1>1, TypeInvariant, AliveInvariant, PTL

----------------------------------------------------------------------------
(* One file per path, and the contract of parse(). *)

\* The index knows every file a caller has received.
FilesRegistered == \A f \in files : map[f.path].entity = f.file

\* A thread about to hand out a file has won its path, alone.
Delivering ==
    \A t \in Thread : phase[t] = "deliver" =>
        /\ map[path[t]].entity = Top(t).root
        /\ \A f \in files : f.path # path[t]
        /\ \A u \in Thread \ {t} : phase[u] = "deliver" => path[u] # path[t]

\* Two files of one path are one.
FilesUnique == \A f, g \in files : f.path = g.path => f = g

PathInv == FilesRegistered /\ Delivering /\ FilesUnique

\* What the actions of ParseFiles may do to the variables PathInv looks at, before
\* a thread wins its path and after it has.
LEMMA PathKept ==
    ASSUME TypeInv, PathInv, NEW t \in Thread, phase[t] # "deliver", phase'[t] # "deliver",
           \A u \in Thread \ {t} :
                phase'[u] = phase[u] /\ path'[u] = path[u] /\ stack'[u] = stack[u],
           \A p \in Path : map'[p] = map[p],
           files' = files
    PROVE  PathInv'
<1>0. TypeOK
  BY DEF TypeInv
<1>1. \A f \in files : f.path \in Path
  BY <1>0 DEF TypeOK
<1>2. FilesRegistered' /\ FilesUnique'
  BY <1>1 DEF PathInv, FilesRegistered, FilesUnique
<1>3. ASSUME NEW u \in Thread, phase'[u] = "deliver"
      PROVE  /\ map'[path'[u]].entity = Top(u)'.root
             /\ \A f \in files' : f.path # path'[u]
             /\ \A v \in Thread \ {u} : phase'[v] = "deliver" => path'[v] # path'[u]
  <2>1. u # t /\ phase[u] = "deliver" /\ path'[u] = path[u] /\ Top(u)' = Top(u)
    BY <1>3 DEF Top
  <2>2. path[u] \in Path
    BY <2>1 DEF TypeInv, TypeOK, Shape
  <2> QED
    BY <2>1, <2>2 DEF PathInv, Delivering
<1> QED
  BY <1>2, <1>3 DEF PathInv, Delivering

\* All steps of a thread but those that win a path or hand out a file.
LEMMA PathSteps ==
    ASSUME TypeInv, NEW t \in Thread,
           (QuietStep(t) /\ ~Deliver(t)) \/ DropStep(t) \/ RegisterStep(t)
    PROVE  /\ phase[t] # "deliver" /\ phase'[t] # "deliver"
           /\ \A u \in Thread \ {t} :
                 phase'[u] = phase[u] /\ path'[u] = path[u] /\ stack'[u] = stack[u]
           /\ \A p \in Path : map'[p] = map[p]
           /\ files' = files
<1>0. TypeOK
  BY DEF TypeInv
<1>1. CASE \E p \in Path : BeginParse(t, p)
  BY <1>0, <1>1 DEF BeginParse, indexVars, treeVars, TypeOK
<1>2. CASE EscapeParse(t) \/ OpenFile(t) \/ FinishVisit(t)
  BY <1>0, <1>2 DEF EscapeParse, OpenFile, FinishVisit, Visiting, indexVars, treeVars, TypeOK
<1>3. CASE \/ \E k \in {"namespace", "plain"} : BeginEntity(t, k)
           \/ FinishUnregistered(t)
           \/ \E k \in {"template", "friend"} : WrapEntity(t, k)
           \/ AddChild(t)
  <2>1. UNCHANGED <<indexVars, callVars>> /\ phase[t] = "visit"
    BY <1>3 DEF BeginEntity, FinishUnregistered, WrapEntity, AddChild, InEntity, Visiting
  <2>2. \E s : stack' = [stack EXCEPT ![t] = s]
    BY <1>3 DEF BeginEntity, FinishUnregistered, ReturnEntity, WrapEntity, AddChild
  <2> QED
    BY <1>0, <2>1, <2>2 DEF indexVars, callVars, TypeOK
<1>4. CASE DropStep(t)
  BY <1>0, <1>4 DEF DropStep, indexVars, callVars, TypeOK
<1>5. CASE RegisterStep(t)
  <2>1. UNCHANGED callVars /\ phase[t] = "visit" /\ \E s : stack' = [stack EXCEPT ![t] = s]
    BY <1>5 DEF RegisterStep, InEntity, Visiting, ReturnEntity, entityVars, flagVars, callVars
  <2>2. PICK id \in EntityId : map' = map \/ \E v : map' = [map EXCEPT ![id] = v]
    BY <1>5 DEF RegisterStep, RegisterDefinition, RegisterForwardDeclaration, Emplaced,
                RegisterNamespace
  <2>3. \A p \in Path : p # id /\ p \in Id
    BY ParseAssumption DEF EntityId
  <2>4. \A p \in Path : map'[p] = map[p]
    BY <1>0, <2>2, <2>3 DEF TypeOK, IndexTypeOK
  <2> QED
    BY <1>0, <2>1, <2>4 DEF callVars, TypeOK
<1> QED
  BY <1>1, <1>2, <1>3, <1>4, <1>5, Zenon DEF QuietStep

\* A thread wins its path.
LEMMA WinPath ==
    ASSUME TypeInv, PathInv, NEW t \in Thread, FinishFile(t), FileInserted(path[t])
    PROVE  PathInv'
<1>0. TypeOK /\ path[t] \in Path /\ Top(t).root \in Object /\ path[t] \in Id
  BY TopType, ParseAssumption DEF TypeInv, TypeOK, Shape, FinishFile
<1>1. /\ map[path[t]].entity = NoObject
      /\ map' = [map EXCEPT ![path[t]] = [entity |-> Top(t).root, is_definition |-> TRUE]]
      /\ phase' = [phase EXCEPT ![t] = "deliver"] /\ UNCHANGED <<stack, path, files>>
  BY DEF FinishFile, FileInserted, Registered, RegisterFile, Emplaced
<1>2. /\ map'[path[t]].entity = Top(t).root
      /\ \A p \in Path : p # path[t] => map'[p] = map[p]
  BY <1>0, <1>1, ParseAssumption DEF TypeOK, IndexTypeOK
<1>3. \A f \in files : f.path \in Path /\ f.file \in Object
  BY <1>0 DEF TypeOK
<1>4. \A f \in files : f.path # path[t]
  BY <1>1, <1>3, NoObjectAssumption DEF PathInv, FilesRegistered
<1>5. FilesRegistered' /\ FilesUnique'
  BY <1>1, <1>2, <1>3, <1>4 DEF PathInv, FilesRegistered, FilesUnique
<1>6. \A u \in Thread \ {t} : phase'[u] = phase[u]
  BY <1>0, <1>1 DEF TypeOK
<1>7. ASSUME NEW u \in Thread \ {t}, phase[u] = "deliver" PROVE path[u] # path[t] /\ path[u] \in Path
  <2>1. map[path[u]].entity = Top(u).root
    BY <1>7 DEF PathInv, Delivering
  <2>2. Len(stack[u]) > 0 /\ path[u] \in Path
    BY <1>7 DEF TypeInv, TypeOK, Shape
  <2>3. Top(u).root \in Object
    BY <1>0, <2>2, TopType
  <2> QED
    BY <1>1, <2>1, <2>2, <2>3, NoObjectAssumption
<1>8. ASSUME NEW u \in Thread, phase'[u] = "deliver"
      PROVE  /\ map'[path'[u]].entity = Top(u)'.root
             /\ \A f \in files' : f.path # path'[u]
             /\ \A v \in Thread \ {u} : phase'[v] = "deliver" => path'[v] # path'[u]
  <2>1. Top(u)' = Top(u) /\ path'[u] = path[u] /\ files' = files
    BY <1>1 DEF Top
  <2>2. CASE u = t
    BY <1>1, <1>2, <1>4, <1>6, <1>7, <2>1, <2>2
  <2>3. CASE u # t
    BY <1>1, <1>2, <1>6, <1>7, <1>8, <2>1, <2>3 DEF PathInv, Delivering
  <2> QED
    BY <2>2, <2>3
<1> QED
  BY <1>5, <1>8 DEF PathInv, Delivering

\* A thread hands out the file it has won.
LEMMA DeliverPath ==
    ASSUME TypeInv, PathInv, NEW t \in Thread, Deliver(t)
    PROVE  PathInv'
<1>0. TypeOK /\ path[t] \in Path
  BY DEF TypeInv, TypeOK, Shape, Deliver
<1>1. /\ map[path[t]].entity = Top(t).root
      /\ \A f \in files : f.path # path[t]
      /\ \A u \in Thread \ {t} : phase[u] = "deliver" => path[u] # path[t]
  BY DEF PathInv, Delivering, Deliver
<1>2. PICK g : g = [file |-> Top(t).root, path |-> path[t],
                    members |-> Top(t).members, lossy |-> lossy[t]]
  OBVIOUS
<1>3. files' = files \cup {g} /\ g.path = path[t] /\ g.file = Top(t).root /\ map' = map
  BY <1>2 DEF Deliver, indexVars
<1>4. FilesRegistered' /\ FilesUnique'
  BY <1>1, <1>3 DEF PathInv, FilesRegistered, FilesUnique
<1>5. /\ phase'[t] = "idle"
      /\ \A u \in Thread \ {t} : phase'[u] = phase[u] /\ path'[u] = path[u] /\ stack'[u] = stack[u]
  BY <1>0 DEF Deliver, EndParse, TypeOK
<1>6. ASSUME NEW u \in Thread, phase'[u] = "deliver"
      PROVE  /\ map'[path'[u]].entity = Top(u)'.root
             /\ \A f \in files' : f.path # path'[u]
             /\ \A v \in Thread \ {u} : phase'[v] = "deliver" => path'[v] # path'[u]
  <2>1. u # t /\ phase[u] = "deliver" /\ path'[u] = path[u] /\ Top(u)' = Top(u)
    BY <1>5, <1>6 DEF Top
  <2> QED
    BY <1>1, <1>3, <1>5, <2>1 DEF PathInv, Delivering
<1> QED
  BY <1>4, <1>6 DEF PathInv, Delivering

\* PathInv is inductive.
LEMMA NextPath == TypeInv /\ PathInv /\ [Next]_vars => PathInv'
<1> SUFFICES ASSUME TypeInv, PathInv, [Next]_vars PROVE PathInv'
  OBVIOUS
<1>0. TypeOK
  BY DEF TypeInv
<1>1. ASSUME NEW t \in Thread, QuietStep(t) \/ DropStep(t) \/ RegisterStep(t) PROVE PathInv'
  <2>1. CASE Deliver(t)
    BY <2>1, DeliverPath
  <2>2. CASE ~Deliver(t)
    BY <1>1, <2>2, PathSteps, PathKept
  <2> QED
    BY <2>1, <2>2
<1>2. ASSUME NEW t \in Thread, FinishFile(t) PROVE PathInv'
  <2>1. CASE ~FileInserted(path[t])
    <3>1. phase[t] # "deliver" /\ EndParse(t) /\ files' = files /\ map' = map
      BY <1>2, <2>1 DEF FinishFile, FileInserted, RegisterFile, Emplaced
    <3>2. phase'[t] # "deliver"
      BY <1>0, <3>1 DEF EndParse, TypeOK
    <3> QED
      BY <1>0, <3>1, <3>2, PathKept, EndTypes
  <2> QED
    BY <1>2, <2>1, WinPath
<1>3. ASSUME ResetError \/ UNCHANGED vars PROVE PathInv'
  BY <1>3 DEF ResetError, vars, indexVars, treeVars, callVars, PathInv, FilesRegistered,
              FilesUnique, Delivering, Top
<1>4. ASSUME NEW t \in Thread, ThreadStep(t) PROVE PathInv'
  BY <1>1, <1>2, <1>4, StepKinds
<1> QED
  BY <1>3, <1>4 DEF Next

\* PathInv holds in every reachable state.
THEOREM PathInvariant == Spec => []PathInv
<1>1. Init => PathInv
  BY DEF Init, PathInv, FilesRegistered, Delivering, FilesUnique
<1> QED
  BY <1>1, TypeInvariant, NextPath, PTL DEF Spec

\* However many threads race on a path, and whatever fails, the callers hold at most one
\* file per path, and the index names that file.
THEOREM OneFilePath == Spec => []OneFilePerPath
<1>1. PathInv => OneFilePerPath
  BY DEF PathInv, FilesRegistered, FilesUnique, OneFilePerPath, Lookup
<1> QED
  BY <1>1, PathInvariant, PTL
----------------------------------------------------------------------------
(* An incomplete file is reported. *)

\* A call that has lost a declaration has flagged its context, and from the end of the
\* visit on the parser; nobody resets the parser while the call is under way.
LossInv ==
    \A t \in Thread : lossy[t] =>
        \/ phase[t] = "visit" /\ context_error[t]
        \/ phase[t] \in {"register", "deliver"} /\ error

\* A step of thread t, as far as LossInv is concerned.
LEMMA LossStep ==
    ASSUME LossInv, NEW t \in Thread, error => error',
           \A u \in Thread \ {t} : phase'[u] = phase[u] /\ lossy'[u] = lossy[u]
                                   /\ context_error'[u] = context_error[u],
           lossy'[t] => \/ phase'[t] = "visit" /\ context_error'[t]
                        \/ phase'[t] \in {"register", "deliver"} /\ error'
    PROVE  LossInv'
<1>1. ASSUME NEW u \in Thread, lossy'[u]
      PROVE  \/ phase'[u] = "visit" /\ context_error'[u]
             \/ phase'[u] \in {"register", "deliver"} /\ error'
  BY <1>1 DEF LossInv
<1> QED
  BY <1>1 DEF LossInv

\* Steps that destroy nothing keep what is reported.
LEMMA QuietLoss ==
    ASSUME TypeInv, LossInv, NEW t \in Thread, QuietStep(t)
    PROVE  LossInv'
<1>0. TypeOK
  BY DEF TypeInv
<1>1. CASE (\E p \in Path : BeginParse(t, p)) \/ EscapeParse(t)
  BY <1>0, <1>1 DEF BeginParse, EscapeParse, flagVars, LossInv, TypeOK
<1>2. CASE OpenFile(t) \/ FinishVisit(t)
  <2>1. error => error'
    BY <1>2 DEF OpenFile, FinishVisit
  <2>2. \A u \in Thread \ {t} : /\ phase'[u] = phase[u] /\ lossy'[u] = lossy[u]
                                 /\ context_error'[u] = context_error[u]
    BY <1>0, <1>2 DEF OpenFile, FinishVisit, TypeOK
  <2>3. lossy'[t] => phase'[t] = "register" /\ error'
    BY <1>0, <1>2 DEF OpenFile, FinishVisit, Visiting, LossInv, TypeOK
  <2> QED
    BY <2>1, <2>2, <2>3, LossStep
<1>3. CASE \/ \E k \in {"namespace", "plain"} : BeginEntity(t, k)
           \/ FinishUnregistered(t)
           \/ \E k \in {"template", "friend"} : WrapEntity(t, k)
           \/ AddChild(t)
  <2>1. UNCHANGED <<flagVars, callVars>>
    BY <1>3 DEF BeginEntity, FinishUnregistered, WrapEntity, AddChild
  <2> QED
    BY <2>1 DEF flagVars, callVars, LossInv
<1>4. CASE Deliver(t)
  <2>1. EndParse(t) /\ error' = error
    BY <1>4 DEF Deliver
  <2>2. lossy'[t] = FALSE
    BY <1>0, <2>1 DEF EndParse, TypeOK
  <2>3. \A u \in Thread \ {t} : /\ phase'[u] = phase[u] /\ lossy'[u] = lossy[u]
                                 /\ context_error'[u] = context_error[u]
    BY <1>0, <2>1 DEF EndParse, TypeOK
  <2> QED
    BY <2>1, <2>2, <2>3, LossStep
<1> QED
  BY <1>1, <1>2, <1>3, <1>4, Zenon DEF QuietStep

\* LossInv is inductive.
LEMMA NextLoss == TypeInv /\ LossInv /\ [Next]_vars => LossInv'
<1> SUFFICES ASSUME TypeInv, LossInv, [Next]_vars PROVE LossInv'
  OBVIOUS
<1>0. TypeOK
  BY DEF TypeInv
<1>1. ASSUME NEW t \in Thread, DropStep(t) PROVE LossInv'
  BY <1>0, <1>1 DEF DropStep, callVars, LossInv, TypeOK
<1>2. ASSUME NEW t \in Thread, RegisterStep(t) PROVE LossInv'
  <2>1. UNCHANGED <<flagVars, callVars>>
    BY <1>2 DEF RegisterStep
  <2> QED
    BY <2>1 DEF flagVars, callVars, LossInv
<1>3. ASSUME NEW t \in Thread, FinishFile(t) PROVE LossInv'
  <2>1. CASE FileInserted(path[t])
    BY <1>0, <1>3, <2>1 DEF FinishFile, LossInv, TypeOK
  <2>2. CASE ~FileInserted(path[t])
    <3>1. EndParse(t) /\ error' = error
      BY <1>3, <2>2 DEF FinishFile
    <3>2. lossy'[t] = FALSE
      BY <1>0, <3>1 DEF EndParse, TypeOK
    <3>3. \A u \in Thread \ {t} : /\ phase'[u] = phase[u] /\ lossy'[u] = lossy[u]
                                   /\ context_error'[u] = context_error[u]
      BY <1>0, <3>1 DEF EndParse, TypeOK
    <3> QED
      BY <3>1, <3>2, <3>3, LossStep
  <2> QED
    BY <2>1, <2>2
<1>4. ASSUME ResetError \/ UNCHANGED vars PROVE LossInv'
  BY <1>4 DEF ResetError, vars, flagVars, callVars, LossInv
<1>5. ASSUME NEW t \in Thread, ThreadStep(t) PROVE LossInv'
  BY <1>1, <1>2, <1>3, <1>5, QuietLoss, StepKinds
<1> QED
  BY <1>4, <1>5 DEF Next

\* LossInv holds in every reachable state.
THEOREM LossInvariant == Spec => []LossInv
<1>1. Init => LossInv
  BY DEF Init, LossInv
<1> QED
  BY <1>1, TypeInvariant, NextLoss, PTL DEF Spec

\* Only a delivery changes what the callers hold.
LEMMA FilesKept ==
    ASSUME TypeInv, [Next]_vars, files' # files
    PROVE  \E t \in Thread : Deliver(t)
<1>1. ASSUME NEW t \in Thread, QuietStep(t) \/ DropStep(t) \/ RegisterStep(t), ~Deliver(t)
      PROVE  FALSE
  BY <1>1, PathSteps
<1>2. ASSUME NEW t \in Thread, FinishFile(t) PROVE FALSE
  BY <1>2 DEF FinishFile
<1>3. ~ResetError /\ ~UNCHANGED vars
  BY DEF ResetError, vars, callVars
<1> QED
  BY <1>1, <1>2, <1>3, StepKinds DEF Next

\* Whatever the other threads do between the loss of a declaration and the return of
\* parse(), a caller that receives an incomplete file finds error() set.
THEOREM IncompleteReported == Spec => IncompleteFileIsReported
<1>1. ASSUME TypeInv, LossInv, [Next]_vars, NEW f \in files' \ files, f.lossy PROVE error'
  <2>1. PICK t \in Thread : Deliver(t)
    BY <1>1, FilesKept
  <2>2. f.lossy = lossy[t]
    <3>1. f = [file |-> Top(t).root, path |-> path[t],
               members |-> Top(t).members, lossy |-> lossy[t]]
      BY <1>1, <2>1 DEF Deliver
    <3> QED
      BY <3>1
  <2>3. phase[t] = "deliver" /\ error' = error
    BY <2>1 DEF Deliver
  <2> QED
    BY <1>1, <2>2, <2>3 DEF LossInv
<1>2. TypeInv /\ LossInv /\ [Next]_vars => [\A f \in files' \ files : f.lossy => error']_vars
  BY <1>1
<1> QED
  BY <1>2, TypeInvariant, LossInvariant, PTL DEF Spec, IncompleteFileIsReported

----------------------------------------------------------------------------
(* ParseFiles implements ParseService: for its callers parse() is the       *)
(* abstract service, however many threads call it and whatever the files    *)
(* contain.                                                                 *)

Catalog == [p \in Path |-> map[p].entity]
Started == {t \in Thread : phase[t] \in {"visit", "register", "deliver"}}
Winner == [t \in Thread |-> IF phase[t] = "deliver" THEN Top(t).root ELSE NoObject]
Held == {<<f.path, f.file>> : f \in files}

\* The initial states.
LEMMA InitService == Init => Contract!ServiceInit
<1> SUFFICES ASSUME Init PROVE Contract!ServiceInit
  OBVIOUS
<1>1. Catalog = [p \in Path |-> NoObject]
  BY ParseAssumption DEF Init, IndexInit, EmptyMap, Absent, Catalog
<1>2. path = [t \in Thread |-> NoPath] /\ Started = {}
  BY DEF Init, Started
<1>3. Winner = [t \in Thread |-> NoObject] /\ Held = {}
  BY DEF Init, Winner, Held
<1> QED
  BY <1>1, <1>2, <1>3 DEF Contract!ServiceInit, Catalog, Started, Winner, Held

\* A thread that does not win a path and hands out nothing leaves the catalog, the
\* winners and what the callers hold alone.
LEMMA ServiceKept ==
    ASSUME TypeInv, NEW t \in Thread, phase[t] # "deliver", phase'[t] # "deliver",
           \A u \in Thread \ {t} :
                phase'[u] = phase[u] /\ path'[u] = path[u] /\ stack'[u] = stack[u],
           \A p \in Path : map'[p] = map[p],
           files' = files
    PROVE  Catalog' = Catalog /\ Winner' = Winner /\ Held' = Held
<1>1. Catalog' = Catalog /\ Held' = Held
  BY DEF Catalog, Held
<1>2. \A u \in Thread \ {t} : phase'[u] = phase[u] /\ Top(u)' = Top(u)
  BY DEF Top
<1>3. Winner' = Winner
  BY <1>2 DEF Winner
<1> QED
  BY <1>1, <1>3

\* The visible part of the steps of a thread.
LEMMA QuietService ==
    ASSUME TypeInv, NEW t \in Thread,
           (QuietStep(t) /\ ~Deliver(t)) \/ DropStep(t) \/ RegisterStep(t)
    PROVE  [Contract!ServiceNext]_Contract!serviceVars
<1>0. TypeOK /\ Catalog' = Catalog /\ Winner' = Winner /\ Held' = Held
  BY PathSteps, ServiceKept DEF TypeInv
<1>1. CASE \E p \in Path : BeginParse(t, p)
  <2>1. PICK p \in Path : BeginParse(t, p)
    BY <1>1
  <2>2. path[t] = NoPath /\ path' = [path EXCEPT ![t] = p]
    BY <2>1 DEF BeginParse, TypeInv, Shape
  <2>3. Started' = Started
    BY <1>0, <2>1 DEF BeginParse, Started, TypeOK
  <2>4. Contract!Request(t, p)
    BY <1>0, <2>2, <2>3 DEF Contract!Request, Catalog, Started, Winner, Held
  <2> QED
    BY <2>4 DEF Contract!ServiceNext
<1>2. CASE EscapeParse(t)
  <2>1. path[t] # NoPath /\ path' = [path EXCEPT ![t] = NoPath]
    BY <1>2 DEF EscapeParse, TypeInv, Shape
  <2>2. t \notin Started /\ Started' = Started
    BY <1>0, <1>2 DEF EscapeParse, Started, TypeOK
  <2>3. Contract!Escape(t)
    BY <1>0, <2>1, <2>2 DEF Contract!Escape, Catalog, Started, Winner, Held
  <2> QED
    BY <2>3 DEF Contract!ServiceNext
<1>3. CASE OpenFile(t)
  <2>1. path[t] # NoPath /\ path' = path
    BY <1>3 DEF OpenFile, TypeInv, Shape
  <2>2. t \notin Started /\ Started' = Started \cup {t}
    BY <1>0, <1>3 DEF OpenFile, Started, TypeOK
  <2>3. Contract!Start(t)
    BY <1>0, <2>1, <2>2 DEF Contract!Start, Catalog, Started, Winner, Held
  <2> QED
    BY <2>3 DEF Contract!ServiceNext
<1>4. CASE FinishVisit(t)
  <2>1. path' = path /\ Started' = Started
    BY <1>0, <1>4 DEF FinishVisit, Visiting, Started, TypeOK
  <2> QED
    BY <1>0, <2>1 DEF Contract!serviceVars, Catalog, Started, Winner, Held
<1>5. CASE \/ \E k \in {"namespace", "plain"} : BeginEntity(t, k)
           \/ FinishUnregistered(t)
           \/ \E k \in {"template", "friend"} : WrapEntity(t, k)
           \/ AddChild(t)
           \/ DropStep(t)
           \/ RegisterStep(t)
  <2>1. UNCHANGED callVars
    BY <1>5 DEF BeginEntity, FinishUnregistered, WrapEntity, AddChild, DropStep, RegisterStep,
                callVars, entityVars, flagVars, indexVars
  <2>2. path' = path /\ Started' = Started
    BY <2>1 DEF callVars, Started
  <2> QED
    BY <1>0, <2>2 DEF Contract!serviceVars, Catalog, Started, Winner, Held
<1> QED
  BY <1>1, <1>2, <1>3, <1>4, <1>5, Zenon DEF QuietStep

\* register_file returned true: the file wins the path.
LEMMA WinService ==
    ASSUME TypeInv, NEW t \in Thread, FinishFile(t), FileInserted(path[t])
    PROVE  Contract!ServiceNext
<1>0. TypeOK /\ path[t] \in Path /\ Top(t).root \in Object /\ path[t] \in Id
  BY TopType, ParseAssumption DEF TypeInv, TypeOK, Shape, FinishFile
<1>1. /\ phase[t] = "register" /\ map[path[t]].entity = NoObject
      /\ map' = [map EXCEPT ![path[t]] = [entity |-> Top(t).root, is_definition |-> TRUE]]
      /\ phase' = [phase EXCEPT ![t] = "deliver"] /\ UNCHANGED <<stack, path, files>>
  BY DEF FinishFile, FileInserted, Registered, RegisterFile, Emplaced
<1>2. PICK f \in Object : f = Top(t).root
  BY <1>0
<1>3. /\ map'[path[t]].entity = f
      /\ \A p \in Path : p # path[t] => map'[p].entity = map[p].entity
  BY <1>0, <1>1, <1>2, ParseAssumption DEF TypeOK, IndexTypeOK
<1>4. Catalog[path[t]] = NoObject /\ Catalog' = [Catalog EXCEPT ![path[t]] = f]
  BY <1>0, <1>1, <1>3 DEF Catalog
<1>5. t \in Started /\ Started' = Started /\ Held' = Held
  BY <1>0, <1>1 DEF Started, Held, TypeOK
<1>6. Winner[t] = NoObject /\ Winner' = [Winner EXCEPT ![t] = f]
  <2>1. \A u \in Thread : Top(u)' = Top(u)
    BY <1>1 DEF Top
  <2> QED
    BY <1>0, <1>1, <1>2, <2>1 DEF Winner, TypeOK
<1>7. Contract!Win(t, f)
  BY <1>1, <1>4, <1>5, <1>6 DEF Contract!Win, Catalog, Started, Winner, Held
<1> QED
  BY <1>7 DEF Contract!ServiceNext

\* register_file returned false: the path is taken.
LEMMA LoseService ==
    ASSUME TypeInv, NEW t \in Thread, FinishFile(t), ~FileInserted(path[t])
    PROVE  Contract!ServiceNext
<1>0. TypeOK /\ path[t] \in Path
  BY DEF TypeInv, TypeOK, Shape, FinishFile
<1>1. /\ phase[t] = "register" /\ map[path[t]].entity # NoObject /\ map' = map
      /\ EndParse(t) /\ files' = files
  BY DEF FinishFile, FileInserted, Registered, RegisterFile, Emplaced
<1>2. phase'[t] = "idle" /\ path' = [path EXCEPT ![t] = NoPath]
  BY <1>0, <1>1 DEF EndParse, TypeOK
<1>3. Catalog' = Catalog /\ Winner' = Winner /\ Held' = Held
  BY <1>0, <1>1, <1>2, EndTypes, ServiceKept
<1>4. t \in Started /\ Started' = Started \ {t}
  BY <1>0, <1>1 DEF EndParse, Started, TypeOK
<1>5. Catalog[path[t]] # NoObject /\ Winner[t] = NoObject
  BY <1>0, <1>1 DEF Catalog, Winner
<1>6. Contract!Lose(t)
  BY <1>2, <1>3, <1>4, <1>5 DEF Contract!Lose, Catalog, Started, Winner, Held
<1> QED
  BY <1>6 DEF Contract!ServiceNext

\* The caller receives the file.
LEMMA ReturnService ==
    ASSUME TypeInv, NEW t \in Thread, Deliver(t)
    PROVE  Contract!ServiceNext
<1>0. TypeOK /\ path[t] \in Path /\ Top(t).root \in Object
  BY TopType DEF TypeInv, TypeOK, Shape, Deliver
<1>1. /\ phase[t] = "deliver" /\ map' = map /\ EndParse(t)
      /\ files' = files \cup {[file |-> Top(t).root, path |-> path[t],
                               members |-> Top(t).members, lossy |-> lossy[t]]}
  BY DEF Deliver, indexVars
<1>2. /\ phase'[t] = "idle" /\ path' = [path EXCEPT ![t] = NoPath]
      /\ \A u \in Thread \ {t} : phase'[u] = phase[u] /\ stack'[u] = stack[u]
  BY <1>0, <1>1 DEF EndParse, TypeOK
<1>3. Winner[t] # NoObject /\ Winner[t] = Top(t).root
  BY <1>0, <1>1, NoObjectAssumption DEF Winner
<1>4. Winner' = [Winner EXCEPT ![t] = NoObject]
  <2>1. \A u \in Thread \ {t} : Top(u)' = Top(u)
    BY <1>2 DEF Top
  <2> QED
    BY <1>2, <2>1 DEF Winner
<1>5. Catalog' = Catalog
  BY <1>1 DEF Catalog
<1>6. Started' = Started \ {t}
  BY <1>1, <1>2 DEF Started
<1>7. Held' = Held \cup {<<path[t], Winner[t]>>}
  <2>1. PICK g : g = [file |-> Top(t).root, path |-> path[t],
                      members |-> Top(t).members, lossy |-> lossy[t]]
    OBVIOUS
  <2>2. files' = files \cup {g} /\ g.path = path[t] /\ g.file = Winner[t]
    BY <1>1, <1>3, <2>1
  <2>3. <<g.path, g.file>> = <<path[t], Winner[t]>>
    BY <2>2
  <2>4. {<<f.path, f.file>> : f \in files \cup {g}}
           = {<<f.path, f.file>> : f \in files} \cup {<<g.path, g.file>>}
    OBVIOUS
  <2> QED
    BY <2>2, <2>3, <2>4 DEF Held
<1>8. Contract!Return(t)
  BY <1>2, <1>3, <1>4, <1>5, <1>6, <1>7 DEF Contract!Return, Catalog, Started, Winner, Held
<1> QED
  BY <1>8 DEF Contract!ServiceNext

\* Every step is a step of the abstract service or a stutter.
LEMMA StepService ==
    TypeInv /\ [Next]_vars => [Contract!ServiceNext]_Contract!serviceVars
<1> SUFFICES ASSUME TypeInv, [Next]_vars
             PROVE  [Contract!ServiceNext]_Contract!serviceVars
  OBVIOUS
<1>1. ASSUME NEW t \in Thread, QuietStep(t) \/ DropStep(t) \/ RegisterStep(t)
      PROVE  [Contract!ServiceNext]_Contract!serviceVars
  <2>1. CASE Deliver(t)
    BY <2>1, ReturnService
  <2> QED
    BY <1>1, <2>1, QuietService
<1>2. ASSUME NEW t \in Thread, FinishFile(t)
      PROVE  [Contract!ServiceNext]_Contract!serviceVars
  BY <1>2, WinService, LoseService
<1>3. CASE ResetError \/ UNCHANGED vars
  <2>1. UNCHANGED <<indexVars, treeVars, callVars>>
    BY <1>3 DEF ResetError, vars
  <2>2. Catalog' = Catalog /\ Started' = Started /\ Held' = Held /\ path' = path
    BY <2>1 DEF indexVars, callVars, Catalog, Started, Held
  <2>3. Winner' = Winner
    BY <2>1 DEF treeVars, callVars, Winner, Top
  <2> QED
    BY <2>2, <2>3 DEF Contract!serviceVars, Catalog, Started, Winner, Held
<1>4. ASSUME NEW t \in Thread, ThreadStep(t)
      PROVE  [Contract!ServiceNext]_Contract!serviceVars
  BY <1>1, <1>2, <1>4, StepKinds
<1> QED
  BY <1>3, <1>4 DEF Next

\* Every behaviour of the parser is one of the documented service: a path is won once
\* and for ever, and a call that reads its file to the end is given that file or nullptr.
THEOREM ServiceImplemented == Spec => ImplementsService
  BY InitService, StepService, TypeInvariant, PTL DEF Spec, ImplementsService, Contract!Service

----------------------------------------------------------------------------
(* Ownership: who owns an entity, what its parent is, and how often the    *)
(* index lists it.                                                         *)

\* The entities constructed so far.
Made == {o \in Object : \E t \in Thread : \E n \in 1 .. created[t] : o = <<t, n>>}

\* What a thread owns when it is between two of its calls, and at the end of one.
Locals(t) ==
    /\ phase[t] \in {"idle", "preprocess"} => stack[t] = <<>> /\ done[t] = NoTree
    /\ phase[t] \in {"register", "deliver"} => Len(stack[t]) = 1 /\ done[t] = NoTree

OwnInv ==
    /\ alive \subseteq Made
    /\ \A t \in Thread : Locals(t)
    /\ OwnershipUnique

\* parent() inside one tree: from every entity but the root to another of the tree.
Rooted(parents, root, members) ==
    /\ root \in members
    /\ parents[root] = NoObject
    /\ \A o \in members \ {root} : parents[o] \in members \ {o}

ParentInv ==
    /\ \A o \in Object \ Made : parent[o] = NoObject
    /\ \A t \in Thread : \A i \in 1 .. Len(stack[t]) : Rooted(parent, stack[t][i].root, stack[t][i].members)
    /\ \A t \in Thread : done[t] # NoTree => Rooted(parent, done[t].root, done[t].members)
    /\ \A f \in files : Rooted(parent, f.file, f.members)

\* How often the index lists a namespace block.
Unlisted(lists, o) == \A id \in Id : \A i \in 1 .. Len(lists[id]) : lists[id][i] # o

ListedOnce(lists, o) ==
    \E id \in Id : \E i \in 1 .. Len(lists[id]) :
        /\ lists[id][i] = o
        /\ \A jd \in Id : \A j \in 1 .. Len(lists[jd]) : lists[jd][j] = o => jd = id /\ j = i

\* A block is listed when its builder is finished, not before.
ListInv ==
    /\ \A o \in Object \ Made : Unlisted(ns, o)
    /\ \A t \in Thread : \A i \in 1 .. Len(stack[t]) :
          /\ Unlisted(ns, stack[t][i].root)
          /\ \A o \in stack[t][i].members \ {stack[t][i].root} :
                kind[o] = "namespace" => ListedOnce(ns, o)
    /\ \A t \in Thread : Len(stack[t]) > 0 => kind[stack[t][1].root] = "file"
    /\ \A t \in Thread : \A o \in done[t].members : kind[o] = "namespace" => ListedOnce(ns, o)
    /\ \A f \in files : \A o \in f.members : kind[o] = "namespace" => ListedOnce(ns, o)

----------------------------------------------------------------------------
(* What one call owns: the builders s and the returned entity d. *)

Owned(s, d) == (UNION {tree.members : tree \in Range(s)}) \cup d.members

\* Nothing is owned twice.
Apart(s, d) ==
    /\ \A i, j \in 1 .. Len(s) : i # j => s[i].members \cap s[j].members = {}
    /\ \A i \in 1 .. Len(s) : s[i].members \cap d.members = {}

\* The indices of a sequence.
LEMMA SeqDomain == ASSUME NEW S, NEW s \in Seq(S) PROVE DOMAIN s = 1 .. Len(s)
  OBVIOUS

\* What a thread owns, element by element.
LEMMA OwnedMeaning ==
    ASSUME NEW s \in Seq(Tree), NEW d \in Tree \cup {NoTree}
    PROVE  \A o : o \in Owned(s, d) <=>
                     (\E i \in 1 .. Len(s) : o \in s[i].members) \/ o \in d.members
<1>1. DOMAIN s = 1 .. Len(s)
  BY SeqDomain
<1>2. Range(s) = {s[i] : i \in 1 .. Len(s)}
  BY <1>1 DEF Range
<1> QED
  BY <1>2 DEF Owned

\* A thread without a finished entity owns nothing there.
LEMMA NoTreeOwnsNothing == NoTree.members = {} /\ NoTree.root = NoObject /\ NoTree \notin Tree
  BY NoObjectAssumption DEF NoTree, Tree

\* A builder is opened for a new entity, which may wrap the returned one.
LEMMA PushOwned ==
    ASSUME NEW s \in Seq(Tree), NEW d \in Tree \cup {NoTree}, Apart(s, d),
           NEW o \in Object, o \notin Owned(s, d),
           NEW w \in Tree, w.members = {o} \cup d.members
    PROVE  /\ Append(s, w) \in Seq(Tree)
           /\ Apart(Append(s, w), NoTree)
           /\ Owned(Append(s, w), NoTree) = Owned(s, d) \cup {o}
<1>1. PICK r : r = Append(s, w)
  OBVIOUS
<1>2. /\ r \in Seq(Tree) /\ Len(r) = Len(s) + 1 /\ Len(s) \in Nat
      /\ \A i \in 1 .. Len(s) : r[i] = s[i]
      /\ r[Len(s) + 1] = w
  BY <1>1, PushFacts
<1>3. \A i \in 1 .. Len(r) : i \in 1 .. Len(s) \/ i = Len(s) + 1
  BY <1>2
<1>4. \A i \in 1 .. Len(s) : i \in 1 .. Len(r) /\ i # Len(s) + 1
  BY <1>2
<1>5. \A i \in 1 .. Len(s) : o \notin s[i].members
  BY OwnedMeaning
<1>6. \A i \in 1 .. Len(s) : s[i].members \cap w.members = {}
  BY <1>5 DEF Apart
<1>7. Apart(r, NoTree)
  BY <1>2, <1>3, <1>6, NoTreeOwnsNothing DEF Apart
<1>8. \A x : x \in Owned(r, NoTree) <=> (\E i \in 1 .. Len(s) : x \in s[i].members) \/ x \in w.members
  <2>1. Len(s) + 1 \in 1 .. Len(r)
    BY <1>2
  <2> QED
    BY <1>2, <1>3, <1>4, <2>1, OwnedMeaning, NoTreeOwnsNothing
<1>9. Owned(r, NoTree) = Owned(s, d) \cup {o}
  BY <1>8, OwnedMeaning
<1> QED
  BY <1>1, <1>2, <1>7, <1>9

\* The innermost builder is closed: what it owns goes with the returned entity d, or,
\* when d stays NoTree, is destroyed.
LEMMA PopOwned ==
    ASSUME NEW s \in Seq(Tree), Len(s) > 0, Apart(s, NoTree), NEW d \in Tree,
           d.members = Last(s).members
    PROVE  /\ Front(s) \in Seq(Tree)
           /\ Apart(Front(s), d) /\ Owned(Front(s), d) = Owned(s, NoTree)
           /\ Apart(Front(s), NoTree)
           /\ Owned(Front(s), NoTree) = Owned(s, NoTree) \ Last(s).members
           /\ Last(s).members \subseteq Owned(s, NoTree)
<1>1. PICK r : r = Front(s)
  OBVIOUS
<1>2. /\ r \in Seq(Tree) /\ Len(r) = Len(s) - 1 /\ Len(s) \in Nat
      /\ \A i \in 1 .. Len(s) - 1 : r[i] = s[i]
  BY <1>1, PopFacts
<1>3. Last(s) = s[Len(s)] /\ Len(s) \in 1 .. Len(s)
  BY <1>2 DEF Last
<1>4. \A i \in 1 .. Len(s) : i \in 1 .. Len(r) \/ i = Len(s)
  BY <1>2
<1>5. \A i \in 1 .. Len(r) : i \in 1 .. Len(s) /\ i # Len(s) /\ r[i] = s[i]
  BY <1>2
<1>6. \A i \in 1 .. Len(r) : r[i].members \cap d.members = {}
  BY <1>3, <1>5 DEF Apart
<1>7. Apart(r, d) /\ Apart(r, NoTree)
  BY <1>5, <1>6, NoTreeOwnsNothing DEF Apart
<1>8. \A x : x \in Owned(s, NoTree) <=> (\E i \in 1 .. Len(r) : x \in r[i].members) \/ x \in d.members
  BY <1>3, <1>4, <1>5, OwnedMeaning, NoTreeOwnsNothing
<1>9. \A x : x \in Owned(r, NoTree) <=> \E i \in 1 .. Len(r) : x \in r[i].members
  BY <1>2, OwnedMeaning, NoTreeOwnsNothing
<1>10. \A x : x \in Owned(r, d) <=> (\E i \in 1 .. Len(r) : x \in r[i].members) \/ x \in d.members
  BY <1>2, OwnedMeaning
<1>11. Owned(r, d) = Owned(s, NoTree)
  BY <1>8, <1>10
<1>12. Owned(r, NoTree) = Owned(s, NoTree) \ d.members /\ d.members \subseteq Owned(s, NoTree)
  BY <1>6, <1>8, <1>9
<1> QED
  BY <1>1, <1>2, <1>7, <1>11, <1>12

\* add_child extends what the innermost builder owns.
Extended(s, m, r) ==
    /\ r \in Seq(Tree) /\ Len(r) = Len(s)
    /\ \A i \in 1 .. Len(s) :
          /\ r[i].root = s[i].root
          /\ r[i].members = IF i = Len(s) THEN s[i].members \cup m ELSE s[i].members

\* A tree on the stack that takes members over extends the stack by them.
LEMMA ExtendMembers ==
    ASSUME NEW s \in Seq(Tree), Len(s) > 0, NEW m \in SUBSET Object
    PROVE  Extended(s, m, [s EXCEPT ![Len(s)].members = @ \cup m])
<1>0. PICK r : r = [s EXCEPT ![Len(s)].members = @ \cup m]
  OBVIOUS
<1>1. r \in Seq(Tree) /\ Len(r) = Len(s) /\ \A i \in 1 .. Len(s) : r[i].root = s[i].root
  BY <1>0, ExtendFacts
<1>2. \A i \in 1 .. Len(s) : s[i] \in Tree
  OBVIOUS
<1>3. r = [s EXCEPT ![Len(s)] = [s[Len(s)] EXCEPT !.members = @ \cup m]]
  BY <1>0
<1>4. \A i \in 1 .. Len(s) :
          r[i] = IF i = Len(s) THEN [s[Len(s)] EXCEPT !.members = @ \cup m] ELSE s[i]
  BY <1>3
<1>5. \A x \in Tree : [x EXCEPT !.members = @ \cup m].members = x.members \cup m
  BY DEF Tree
<1>6. \A i \in 1 .. Len(s) : r[i].members = IF i = Len(s) THEN s[i].members \cup m
                                            ELSE s[i].members
  BY <1>2, <1>4, <1>5
<1>7. Extended(s, m, r)
  BY <1>1, <1>6 DEF Extended
<1> QED
  BY <1>0, <1>7, Zenon

\* The innermost builder takes the returned entity over.
LEMMA ExtendOwned ==
    ASSUME NEW s \in Seq(Tree), Len(s) > 0, NEW d \in Tree, Apart(s, d),
           NEW r, Extended(s, d.members, r)
    PROVE  Apart(r, NoTree) /\ Owned(r, NoTree) = Owned(s, d)
<1>1. Len(s) \in 1 .. Len(s)
  OBVIOUS
<1>2. r \in Seq(Tree) /\ Len(r) = Len(s)
  BY DEF Extended
<1>3. \A i \in 1 .. Len(s) : r[i].members = IF i = Len(s) THEN s[i].members \cup d.members
                                            ELSE s[i].members
  BY DEF Extended
<1>4. Apart(r, NoTree)
  <2>1. ASSUME NEW i \in 1 .. Len(s), NEW j \in 1 .. Len(s), i # j
        PROVE  r[i].members \cap r[j].members = {}
    <3>1. /\ s[i].members \cap s[j].members = {}
          /\ s[i].members \cap d.members = {} /\ s[j].members \cap d.members = {}
      BY <2>1 DEF Apart
    <3> QED
      BY <1>3, <2>1, <3>1
  <2> QED
    BY <1>2, <2>1, NoTreeOwnsNothing DEF Apart
<1>5. \A x : x \in Owned(r, NoTree) <=> \E i \in 1 .. Len(s) : x \in r[i].members
  BY <1>2, OwnedMeaning, NoTreeOwnsNothing
<1>6. \A x : x \in Owned(r, NoTree) <=> (\E i \in 1 .. Len(s) : x \in s[i].members) \/ x \in d.members
  BY <1>1, <1>3, <1>5
<1>7. Owned(r, NoTree) = Owned(s, d)
  BY <1>6, OwnedMeaning
<1> QED
  BY <1>4, <1>7

\* The returned entity is destroyed.
LEMMA DropOwned ==
    ASSUME NEW s \in Seq(Tree), NEW d \in Tree, Apart(s, d)
    PROVE  /\ Apart(s, NoTree)
           /\ Owned(s, NoTree) = Owned(s, d) \ d.members
           /\ d.members \subseteq Owned(s, d)
<1>1. Apart(s, NoTree)
  BY NoTreeOwnsNothing DEF Apart
<1>2. \A x : x \in Owned(s, NoTree) <=> \E i \in 1 .. Len(s) : x \in s[i].members
  BY OwnedMeaning, NoTreeOwnsNothing
<1>3. \A x : x \in Owned(s, d) <=> (\E i \in 1 .. Len(s) : x \in s[i].members) \/ x \in d.members
  BY OwnedMeaning
<1> QED
  BY <1>1, <1>2, <1>3 DEF Apart

----------------------------------------------------------------------------
(* OwnershipUnique, thread by thread. *)

Alone ==
    /\ \A o : o \in alive <=> \/ \E t \in Thread : o \in Owned(stack[t], done[t])
                              \/ \E f \in files : o \in f.members
    /\ \A t \in Thread : Apart(stack[t], done[t])
    /\ \A t, u \in Thread : t # u => Owned(stack[t], done[t]) \cap Owned(stack[u], done[u]) = {}
    /\ \A t \in Thread : \A f \in files : Owned(stack[t], done[t]) \cap f.members = {}
    /\ \A f, g \in files : f # g => f.members \cap g.members = {}

\* Alone is OwnershipUnique, said of each pair of owners.
LEMMA AloneMeaning == TypeOK => (Alone <=> OwnershipUnique)
<1> SUFFICES ASSUME TypeOK PROVE Alone <=> OwnershipUnique
  OBVIOUS
<1>1. \A t \in Thread : OwnedBy(t) = Owned(stack[t], done[t])
  BY DEF OwnedBy, Owned
<1>2. \A t \in Thread : DOMAIN stack[t] = 1 .. Len(stack[t])
  BY SeqDomain DEF TypeOK
<1>3. \A t \in Thread :
         Apart(stack[t], done[t]) <=>
            /\ \A i, j \in DOMAIN stack[t] : i # j => stack[t][i].members \cap stack[t][j].members = {}
            /\ \A i \in DOMAIN stack[t] : stack[t][i].members \cap done[t].members = {}
  BY <1>2 DEF Apart
<1>4. alive = (UNION {OwnedBy(t) : t \in Thread}) \cup (UNION {f.members : f \in files})
        <=> \A o : o \in alive <=> \/ \E t \in Thread : o \in Owned(stack[t], done[t])
                                  \/ \E f \in files : o \in f.members
  BY <1>1
<1> QED
  BY <1>1, <1>3, <1>4 DEF Alone, OwnershipUnique

\* A step of thread t that destroys the entities gone and constructs the entities fresh.
LEMMA AloneStep ==
    ASSUME Alone, NEW t \in Thread, NEW gone, NEW fresh,
           \A u \in Thread \ {t} : stack'[u] = stack[u] /\ done'[u] = done[u],
           files' = files,
           gone \subseteq Owned(stack[t], done[t]),
           fresh \cap alive = {},
           alive' = (alive \ gone) \cup fresh,
           Apart(stack'[t], done'[t]),
           Owned(stack'[t], done'[t]) = (Owned(stack[t], done[t]) \ gone) \cup fresh
    PROVE  Alone'
<1>1. \A u \in Thread \ {t} : Owned(stack'[u], done'[u]) = Owned(stack[u], done[u])
  OBVIOUS
<1>2. \A u \in Thread : Apart(stack'[u], done'[u])
  BY DEF Alone
<1>3. \A u \in Thread \ {t} : Owned(stack[u], done[u]) \cap Owned(stack[t], done[t]) = {}
                              /\ Owned(stack[u], done[u]) \cap fresh = {}
  BY DEF Alone
<1>4. \A f \in files : f.members \cap Owned(stack[t], done[t]) = {} /\ f.members \cap fresh = {}
  BY DEF Alone
<1>5. ASSUME NEW o
      PROVE  o \in alive' <=> \/ \E u \in Thread : o \in Owned(stack'[u], done'[u])
                              \/ \E f \in files' : o \in f.members
  <2>1. o \in alive <=> \/ o \in Owned(stack[t], done[t])
                        \/ \E u \in Thread \ {t} : o \in Owned(stack[u], done[u])
                        \/ \E f \in files : o \in f.members
    BY DEF Alone
  <2>2. o \in gone => /\ \A u \in Thread \ {t} : o \notin Owned(stack[u], done[u])
                      /\ \A f \in files : o \notin f.members
    BY <1>3, <1>4
  <2> QED
    BY <1>1, <2>1, <2>2
<1>6. \A u, v \in Thread : u # v => Owned(stack'[u], done'[u]) \cap Owned(stack'[v], done'[v]) = {}
  <2>1. \A u \in Thread \ {t} : Owned(stack'[u], done'[u]) \cap Owned(stack'[t], done'[t]) = {}
    BY <1>1, <1>3
  <2>2. \A u, v \in Thread \ {t} :
            u # v => Owned(stack'[u], done'[u]) \cap Owned(stack'[v], done'[v]) = {}
    BY <1>1 DEF Alone
  <2> QED
    BY <2>1, <2>2
<1>7. \A u \in Thread : \A f \in files' : Owned(stack'[u], done'[u]) \cap f.members = {}
  BY <1>1, <1>4 DEF Alone
<1> QED
  BY <1>2, <1>5, <1>6, <1>7 DEF Alone

\* A step of thread t that destroys the entities gone and constructs none.
LEMMA AloneShrinks ==
    ASSUME Alone, NEW t \in Thread, NEW gone,
           \A u \in Thread \ {t} : stack'[u] = stack[u] /\ done'[u] = done[u],
           files' = files,
           gone \subseteq Owned(stack[t], done[t]),
           alive' = alive \ gone,
           Apart(stack'[t], done'[t]),
           Owned(stack'[t], done'[t]) = Owned(stack[t], done[t]) \ gone
    PROVE  Alone'
<1>1. PICK fresh : fresh = {}
  OBVIOUS
<1>2. /\ fresh \cap alive = {}
      /\ alive' = (alive \ gone) \cup fresh
      /\ Owned(stack'[t], done'[t]) = (Owned(stack[t], done[t]) \ gone) \cup fresh
  BY <1>1
<1> QED
  BY <1>2, AloneStep

\* A step of thread t that passes entities from one of its owners to another.
LEMMA AlonePasses ==
    ASSUME Alone, NEW t \in Thread,
           \A u \in Thread \ {t} : stack'[u] = stack[u] /\ done'[u] = done[u],
           files' = files,
           alive' = alive,
           Apart(stack'[t], done'[t]),
           Owned(stack'[t], done'[t]) = Owned(stack[t], done[t])
    PROVE  Alone'
<1>1. PICK gone : gone = {}
  OBVIOUS
<1>2. /\ gone \subseteq Owned(stack[t], done[t])
      /\ alive' = alive \ gone
      /\ Owned(stack'[t], done'[t]) = Owned(stack[t], done[t]) \ gone
  BY <1>1
<1> QED
  BY <1>2, AloneShrinks

\* The entity that a thread constructs next does not exist yet.
LEMMA NewObjectFresh ==
    ASSUME TypeOK, OwnInv, NEW t \in Thread, created[t] < Capacity[t]
    PROVE  NewObject(t) \in Object /\ NewObject(t) \notin Made /\ NewObject(t) \notin alive
<1>1. NewObject(t) \in Object
  BY NewObjectType
<1>2. created[t] \in Nat
  BY DEF TypeOK
<1>3. NewObject(t) \notin Made
  BY <1>2 DEF Made, NewObject
<1> QED
  BY <1>1, <1>3 DEF OwnInv

\* Constructing an entity adds it, and nothing else, to the entities made.
LEMMA MadeGrows ==
    ASSUME TypeOK, OwnInv, NEW t \in Thread, NEW k \in Kind, Create(t, k)
    PROVE  /\ NewObject(t) \in Object \ Made /\ NewObject(t) \notin alive
           /\ Made' = Made \cup {NewObject(t)}
           /\ alive' \subseteq Made'
           /\ \A o \in Made : kind'[o] = kind[o]
<1>1. NewObject(t) \in Object \ Made /\ NewObject(t) \notin alive /\ created[t] \in Nat
  BY NewObjectFresh DEF Create, TypeOK
<1>2. created' = [created EXCEPT ![t] = @ + 1]
  BY DEF Create
<1>3. \A u \in Thread : created'[u] = IF u = t THEN created[t] + 1 ELSE created[u]
  BY <1>2 DEF TypeOK
<1>4. 1 .. created[t] + 1 = (1 .. created[t]) \cup {created[t] + 1}
  BY <1>1
<1>5. Made' = Made \cup {NewObject(t)}
  <2>1. ASSUME NEW o \in Object
        PROVE  (\E u \in Thread : \E n \in 1 .. created'[u] : o = <<u, n>>)
                  <=> o \in Made \/ o = <<t, created[t] + 1>>
    BY <1>3, <1>4 DEF Made
  <2> QED
    BY <1>1, <2>1 DEF Made, NewObject
<1>6. \A o \in Made : kind'[o] = kind[o]
  BY <1>1 DEF Create, TypeOK, Made
<1> QED
  BY <1>1, <1>5, <1>6 DEF Create, OwnInv

----------------------------------------------------------------------------
(* OwnInv, action by action. *)

\* A step of thread t that leaves the other threads alone.
LEMMA OwnStep ==
    ASSUME TypeOK, TypeOK', OwnInv, NEW t \in Thread,
           \A u \in Thread \ {t} : phase'[u] = phase[u] /\ stack'[u] = stack[u] /\ done'[u] = done[u],
           Locals(t)', alive' \subseteq Made', Alone'
    PROVE  OwnInv'
<1>1. \A u \in Thread \ {t} : Locals(u)'
  BY DEF OwnInv, Locals
<1>2. (\A u \in Thread : Locals(u))'
  BY <1>1
<1>3. OwnershipUnique'
  <2>1. TypeOK' => (Alone' <=> OwnershipUnique')
    BY AloneMeaning, PTL
  <2> QED
    BY <2>1
<1> QED
  BY <1>2, <1>3 DEF OwnInv

\* No tree and no entity changes.
LEMMA OwnKept ==
    ASSUME OwnInv, UNCHANGED <<alive, created, stack, done, files>>,
           \A u \in Thread : Locals(u)'
    PROVE  OwnInv'
<1>1. Made' = Made
  BY DEF Made
<1>2. OwnershipUnique'
  BY DEF OwnInv, OwnershipUnique, OwnedBy
<1> QED
  BY <1>1, <1>2 DEF OwnInv

\* The trees of a thread while it visits.
LEMMA VisitTypes ==
    ASSUME TypeInv, NEW t \in Thread, phase[t] = "visit"
    PROVE  /\ stack[t] \in Seq(Tree) /\ Len(stack[t]) \in Nat /\ Len(stack[t]) > 0
           /\ done[t] \in Tree \cup {NoTree}
           /\ Top(t) = stack[t][Len(stack[t])] /\ Top(t) \in Tree
<1>1. stack[t] \in Seq(Tree) /\ Len(stack[t]) > 0 /\ done[t] \in Tree \cup {NoTree}
  BY DEF TypeInv, TypeOK, Shape
<1>2. Top(t) = stack[t][Len(stack[t])]
  BY DEF Top, Last
<1>3. Top(t) \in Tree
  BY <1>1, TopType DEF TypeInv
<1>4. Len(stack[t]) \in Nat
  BY <1>1
<1> QED
  BY <1>1, <1>2, <1>3, <1>4

\* A builder is opened for a new entity that may own the returned one.
Opens(t, k, w) ==
    /\ Create(t, k)
    /\ w.root = NewObject(t)
    /\ w.members = {NewObject(t)} \cup done[t].members
    /\ stack' = [stack EXCEPT ![t] = Append(@, w)]
    /\ done' = [done EXCEPT ![t] = NoTree]
    /\ files' = files

\* The builder of a file opens a tree of one new entity.
LEMMA OpenFileOpens ==
    ASSUME TypeInv, OwnInv, NEW t \in Thread, OpenFile(t)
    PROVE  \E w \in Tree : Opens(t, "file", w)
<1>0. TypeOK /\ Locals(t)
  BY DEF TypeInv, OwnInv
<1>1. Create(t, "file") /\ NewObject(t) \in Object
  BY <1>0, NewObjectType DEF OpenFile, Create
<1>2. stack[t] = <<>> /\ done[t] = NoTree
  BY <1>0 DEF OpenFile, Locals
<1>3. <<Leaf(NewObject(t))>> = Append(stack[t], Leaf(NewObject(t)))
  BY <1>2
<1>4. done' = [done EXCEPT ![t] = NoTree]
  BY <1>0, <1>2 DEF OpenFile, TypeOK
<1>5. Leaf(NewObject(t)) \in Tree /\ Leaf(NewObject(t)).root = NewObject(t)
      /\ Leaf(NewObject(t)).members = {NewObject(t)} \cup done[t].members
  BY <1>1, <1>2, LeafType, NoTreeOwnsNothing DEF Leaf
<1>6. stack' = [stack EXCEPT ![t] = Append(@, Leaf(NewObject(t)))] /\ files' = files
  BY <1>3 DEF OpenFile
<1> QED
  BY <1>1, <1>4, <1>5, <1>6 DEF Opens

\* The steps that construct a builder.
LEMMA OpenSteps ==
    ASSUME TypeInv, OwnInv, NEW t \in Thread,
           \/ OpenFile(t)
           \/ \E k \in {"namespace", "plain"} : BeginEntity(t, k)
           \/ \E k \in {"template", "friend"} : WrapEntity(t, k)
    PROVE  \E k \in Kind, w \in Tree : Opens(t, k, w)
<1>0. TypeOK /\ Locals(t)
  BY DEF TypeInv, OwnInv
<1>1. CASE OpenFile(t)
  BY <1>1, OpenFileOpens DEF Kind
<1>2. ASSUME NEW k \in {"namespace", "plain"}, BeginEntity(t, k)
      PROVE  \E j \in Kind, w \in Tree : Opens(t, j, w)
  <2>1. Create(t, k) /\ NewObject(t) \in Object /\ done[t] = NoTree
    BY <1>0, <1>2, NewObjectType DEF BeginEntity, Create, Visiting
  <2>2. done' = [done EXCEPT ![t] = NoTree]
    BY <1>0, <1>2, <2>1 DEF BeginEntity, TypeOK
  <2>3. Leaf(NewObject(t)) \in Tree /\ Leaf(NewObject(t)).root = NewObject(t)
        /\ Leaf(NewObject(t)).members = {NewObject(t)} \cup done[t].members
    BY <2>1, LeafType, NoTreeOwnsNothing DEF Leaf
  <2>4. stack' = [stack EXCEPT ![t] = Append(@, Leaf(NewObject(t)))] /\ files' = files
    BY <1>2 DEF BeginEntity, callVars
  <2> QED
    BY <2>1, <2>2, <2>3, <2>4 DEF Opens, Kind
<1>3. ASSUME NEW k \in {"template", "friend"}, WrapEntity(t, k)
      PROVE  \E j \in Kind, w \in Tree : Opens(t, j, w)
  <2>1. Create(t, k) /\ NewObject(t) \in Object /\ done[t] \in Tree
    BY <1>0, <1>3, NewObjectType DEF WrapEntity, Create, TypeOK
  <2>2. PICK w : w = [Leaf(NewObject(t)) EXCEPT !.members = @ \cup done[t].members]
    OBVIOUS
  <2>3. w \in Tree /\ w.root = NewObject(t) /\ w.members = {NewObject(t)} \cup done[t].members
    BY <2>1, <2>2 DEF Leaf, Tree
  <2>4. stack' = [stack EXCEPT ![t] = Append(@, w)] /\ files' = files
        /\ done' = [done EXCEPT ![t] = NoTree]
    BY <1>3, <2>2 DEF WrapEntity, callVars
  <2> QED
    BY <2>1, <2>3, <2>4 DEF Opens, Kind
<1> QED
  BY <1>1, <1>2, <1>3

\* A builder owns a new entity, which nobody else owns.
LEMMA OpensOwn ==
    ASSUME TypeInv, OwnInv, NEW t \in Thread, NEW k \in Kind, NEW w \in Tree, Opens(t, k, w)
    PROVE  Alone' /\ alive' \subseteq Made'
<1>0. TypeOK /\ stack[t] \in Seq(Tree) /\ done[t] \in Tree \cup {NoTree}
  BY DEF TypeInv, TypeOK
<1>1. Alone
  BY <1>0, AloneMeaning DEF OwnInv
<1>2. /\ NewObject(t) \in Object /\ NewObject(t) \notin alive
      /\ alive' = alive \cup {NewObject(t)} /\ alive' \subseteq Made'
  BY <1>0, MadeGrows DEF Opens, Create
<1>3. /\ stack'[t] = Append(stack[t], w) /\ done'[t] = NoTree /\ files' = files
      /\ \A u \in Thread \ {t} : stack'[u] = stack[u] /\ done'[u] = done[u]
  BY <1>0 DEF Opens, TypeOK
<1>4. Apart(stack[t], done[t]) /\ NewObject(t) \notin Owned(stack[t], done[t])
  BY <1>1, <1>2 DEF Alone
<1>5. w.members = {NewObject(t)} \cup done[t].members
  BY DEF Opens
<1>6. /\ Apart(Append(stack[t], w), NoTree)
      /\ Owned(Append(stack[t], w), NoTree) = Owned(stack[t], done[t]) \cup {NewObject(t)}
  BY <1>0, <1>2, <1>4, <1>5, PushOwned
<1>7. Alone'
  <2>1. alive' = (alive \ {}) \cup {NewObject(t)} /\ {NewObject(t)} \cap alive = {}
    BY <1>2
  <2>2. Owned(stack'[t], done'[t]) = (Owned(stack[t], done[t]) \ {}) \cup {NewObject(t)}
    BY <1>3, <1>6
  <2> QED
    BY <1>1, <1>3, <1>6, <2>1, <2>2, AloneStep
<1> QED
  BY <1>2, <1>7

\* The innermost builder hands its entity over.
Closes(t) ==
    /\ InEntity(t)
    /\ \E r \in BOOLEAN : ReturnEntity(t, r)
    /\ UNCHANGED <<entityVars, files>>

\* The innermost builder is destroyed with its entity.
Unwinds(t) ==
    /\ InEntity(t)
    /\ DropEntity(t)
    /\ UNCHANGED <<kind, parent, created, files>>

\* What the index lists of the innermost entity when it is finished.
Lists(t) ==
    \/ kind[Top(t).root] # "namespace" /\ ns' = ns
    \/ \E id \in Id : RegisterNamespace(id, Top(t).root)

\* The steps that end a builder: it is finished, or unwound by an exception.
LEMMA CloseSteps ==
    ASSUME TypeInv, NEW t \in Thread,
           \/ \E id \in EntityId : \/ FinishDefinition(t, id)
                                   \/ FinishDeclaration(t, id)
                                   \/ FinishNamespace(t, id)
           \/ FinishUnregistered(t)
           \/ ParseError(t)
    PROVE  phase' = phase /\ ((Closes(t) /\ Lists(t)) \/ (Unwinds(t) /\ ns' = ns))
<1>1. ASSUME NEW id \in EntityId, FinishDefinition(t, id)
      PROVE  phase' = phase /\ ((Closes(t) /\ Lists(t)) \/ (Unwinds(t) /\ ns' = ns))
  <2>1. CASE DropEntity(t) /\ UNCHANGED indexVars
    BY <1>1, <2>1 DEF FinishDefinition, Unwinds, callVars, indexVars
  <2>2. CASE RegisterDefinition(id, Top(t).root) /\ ReturnEntity(t, TRUE) /\ UNCHANGED <<alive, flagVars>>
    BY <1>1, <2>2 DEF FinishDefinition, Closes, Lists, RegisterDefinition, callVars, entityVars
  <2> QED
    BY <1>1, <2>1, <2>2 DEF FinishDefinition
<1>2. ASSUME NEW id \in EntityId, FinishDeclaration(t, id) PROVE phase' = phase /\ Closes(t) /\ Lists(t)
  BY <1>2 DEF FinishDeclaration, Closes, Lists, RegisterForwardDeclaration, callVars
<1>3. ASSUME NEW id \in EntityId, FinishNamespace(t, id) PROVE phase' = phase /\ Closes(t) /\ Lists(t)
  BY <1>3 DEF FinishNamespace, Closes, Lists, EntityId, callVars
<1>4. CASE FinishUnregistered(t)
  BY <1>4 DEF FinishUnregistered, Closes, Lists, callVars, indexVars
<1>5. CASE ParseError(t)
  BY <1>5 DEF ParseError, Unwinds, callVars, indexVars
<1> QED
  BY <1>1, <1>2, <1>3, <1>4, <1>5

\* What Closes and Unwinds do to the trees of the thread.
LEMMA CloseFacts ==
    ASSUME TypeInv, NEW t \in Thread, Closes(t) \/ Unwinds(t)
    PROVE  /\ stack[t] \in Seq(Tree) /\ Len(stack[t]) > 1 /\ Len(stack[t]) \in Nat
           /\ phase[t] = "visit" /\ done[t] = NoTree
           /\ Top(t) = stack[t][Len(stack[t])] /\ Top(t) \in Tree
           /\ Closes(t) => done'[t] \in Tree /\ done'[t].root = Top(t).root
                                             /\ done'[t].members = Top(t).members
           /\ Unwinds(t) => done' = done
           /\ stack'[t] = Front(stack[t])
           /\ stack'[t] \in Seq(Tree) /\ Len(stack'[t]) = Len(stack[t]) - 1
           /\ \A i \in 1 .. Len(stack'[t]) : i \in 1 .. Len(stack[t]) /\ stack'[t][i] = stack[t][i]
           /\ \A u \in Thread \ {t} : stack'[u] = stack[u] /\ done'[u] = done[u]
<1>0. TypeOK /\ phase[t] = "visit" /\ done[t] = NoTree /\ Len(stack[t]) > 1
  BY DEF TypeInv, Closes, Unwinds, InEntity, Visiting
<1>1. /\ stack[t] \in Seq(Tree) /\ Len(stack[t]) \in Nat
      /\ Top(t) = stack[t][Len(stack[t])] /\ Top(t) \in Tree
  BY <1>0, VisitTypes
<1>2. stack' = [stack EXCEPT ![t] = Front(@)]
  BY DEF Closes, Unwinds, ReturnEntity, DropEntity
<1>3. stack'[t] = Front(stack[t]) /\ \A u \in Thread \ {t} : stack'[u] = stack[u]
  BY <1>0, <1>2 DEF TypeOK
<1>4. /\ stack'[t] \in Seq(Tree) /\ Len(stack'[t]) = Len(stack[t]) - 1
      /\ \A i \in 1 .. Len(stack'[t]) : i \in 1 .. Len(stack[t]) /\ stack'[t][i] = stack[t][i]
  BY <1>1, <1>3, <1>0, PopFacts
<1>5. Unwinds(t) => done' = done
  BY DEF Unwinds, DropEntity
<1>6. ASSUME Closes(t)
      PROVE  /\ done'[t] \in Tree /\ done'[t].root = Top(t).root
             /\ done'[t].members = Top(t).members
             /\ \A u \in Thread \ {t} : done'[u] = done[u]
  <2>1. PICK r \in BOOLEAN : done' = [done EXCEPT ![t] = [Top(t) EXCEPT !.registered = r]]
    BY <1>6 DEF Closes, ReturnEntity
  <2>2. done'[t] = [Top(t) EXCEPT !.registered = r] /\ \A u \in Thread \ {t} : done'[u] = done[u]
    BY <1>0, <2>1 DEF TypeOK
  <2> QED
    BY <1>1, <2>2 DEF Tree
<1> QED
  BY <1>0, <1>1, <1>3, <1>4, <1>5, <1>6

\* What an ended builder owned is passed on to one owner or destroyed.
LEMMA CloseOwn ==
    ASSUME TypeInv, OwnInv, NEW t \in Thread, Closes(t) \/ Unwinds(t)
    PROVE  Alone' /\ alive' \subseteq Made'
<1>0. /\ Len(stack[t]) > 0 /\ stack[t] \in Seq(Tree) /\ Top(t) \in Tree /\ done[t] = NoTree
      /\ stack'[t] = Front(stack[t]) /\ Top(t) = Last(stack[t])
      /\ \A u \in Thread \ {t} : stack'[u] = stack[u] /\ done'[u] = done[u]
  BY CloseFacts DEF Top
<1>1. Alone
  BY AloneMeaning DEF OwnInv, TypeInv
<1>2. Apart(stack[t], NoTree)
  BY <1>0, <1>1 DEF Alone
<1>3. files' = files /\ Made' = Made
  BY DEF Closes, Unwinds, Made, entityVars
<1>4. CASE Closes(t)
  <2>1. done'[t] \in Tree /\ done'[t].members = Last(stack[t]).members /\ alive' = alive
    BY <1>0, <1>4, CloseFacts DEF Closes, entityVars
  <2>2. Apart(stack'[t], done'[t]) /\ Owned(stack'[t], done'[t]) = Owned(stack[t], done[t])
    BY <1>0, <1>2, <2>1, PopOwned
  <2>3. Alone'
    BY <1>0, <1>1, <1>3, <2>1, <2>2, AlonePasses
  <2> QED
    BY <1>3, <2>1, <2>3 DEF OwnInv
<1>5. CASE Unwinds(t)
  <2>1. done'[t] = NoTree /\ alive' = alive \ Last(stack[t]).members
    BY <1>0, <1>5, CloseFacts DEF Unwinds, DropEntity
  <2>2. /\ Apart(stack'[t], done'[t])
        /\ Owned(stack'[t], done'[t]) = Owned(stack[t], done[t]) \ Last(stack[t]).members
        /\ Last(stack[t]).members \subseteq Owned(stack[t], done[t])
    BY <1>0, <1>2, <2>1, PopOwned
  <2>3. Alone'
    BY <1>0, <1>1, <1>3, <2>1, <2>2, AloneShrinks
  <2> QED
    BY <1>3, <2>1, <2>3 DEF OwnInv
<1> QED
  BY <1>4, <1>5

\* What add_child does to the trees of the thread.
LEMMA AddFacts ==
    ASSUME TypeInv, NEW t \in Thread, AddChild(t)
    PROVE  /\ phase[t] = "visit" /\ phase' = phase /\ files' = files
           /\ UNCHANGED <<indexVars, kind, alive, created>>
           /\ stack[t] \in Seq(Tree) /\ Len(stack[t]) > 0 /\ Len(stack[t]) \in Nat
           /\ done[t] \in Tree /\ done'[t] = NoTree
           /\ parent' = [parent EXCEPT ![done[t].root] = stack[t][Len(stack[t])].root]
           /\ Extended(stack[t], done[t].members, stack'[t])
           /\ \A u \in Thread \ {t} : stack'[u] = stack[u] /\ done'[u] = done[u]
<1>0. TypeOK /\ phase[t] = "visit" /\ done[t] # NoTree
  BY DEF TypeInv, AddChild
<1>1. /\ stack[t] \in Seq(Tree) /\ Len(stack[t]) \in Nat /\ Len(stack[t]) > 0
      /\ done[t] \in Tree /\ Top(t) = stack[t][Len(stack[t])]
  BY <1>0, VisitTypes
<1>2. stack' = [stack EXCEPT ![t] = [stack[t] EXCEPT ![Len(stack[t])].members = @ \cup done[t].members]]
      /\ done' = [done EXCEPT ![t] = NoTree]
  BY DEF AddChild
<1>3. /\ stack'[t] = [stack[t] EXCEPT ![Len(stack[t])].members = @ \cup done[t].members]
      /\ done'[t] = NoTree
      /\ \A u \in Thread \ {t} : stack'[u] = stack[u] /\ done'[u] = done[u]
  BY <1>0, <1>2 DEF TypeOK
<1>4. Extended(stack[t], done[t].members, stack'[t])
  <2>1. done[t].members \in SUBSET Object
    BY <1>1 DEF Tree
  <2>2. Extended(stack[t], done[t].members,
                 [stack[t] EXCEPT ![Len(stack[t])].members = @ \cup done[t].members])
    BY <1>1, <2>1, ExtendMembers
  <2> QED
    BY <1>3, <2>2, Zenon
<1>5. UNCHANGED <<indexVars, kind, alive, created, phase, files>>
      /\ parent' = [parent EXCEPT ![done[t].root] = Top(t).root]
  BY DEF AddChild, callVars
<1> QED
  BY <1>0, <1>1, <1>3, <1>4, <1>5

\* add_child passes the ownership on to the parent's builder.
LEMMA AddOwn ==
    ASSUME TypeInv, OwnInv, NEW t \in Thread, AddChild(t)
    PROVE  Alone' /\ alive' \subseteq Made'
<1>0. Alone
  BY AloneMeaning DEF OwnInv, TypeInv
<1>1. /\ stack[t] \in Seq(Tree) /\ Len(stack[t]) > 0 /\ done[t] \in Tree /\ done'[t] = NoTree
      /\ Extended(stack[t], done[t].members, stack'[t])
      /\ \A u \in Thread \ {t} : stack'[u] = stack[u] /\ done'[u] = done[u]
      /\ alive' = alive /\ files' = files /\ created' = created
  BY AddFacts
<1>2. Apart(stack[t], done[t])
  BY <1>0 DEF Alone
<1>3. Apart(stack'[t], done'[t]) /\ Owned(stack'[t], done'[t]) = Owned(stack[t], done[t])
  BY <1>1, <1>2, ExtendOwned
<1>4. Alone'
  BY <1>0, <1>1, <1>3, AlonePasses
<1> QED
  BY <1>1, <1>4 DEF OwnInv, Made

\* An exception after finish() destroys what the unique_ptr owned.
LEMMA LateOwn ==
    ASSUME TypeInv, OwnInv, NEW t \in Thread, ParseErrorLate(t)
    PROVE  Alone' /\ alive' \subseteq Made'
<1>0. Alone /\ TypeOK
  BY AloneMeaning DEF OwnInv, TypeInv
<1>1. /\ stack[t] \in Seq(Tree) /\ done[t] \in Tree
      /\ stack' = stack /\ done' = [done EXCEPT ![t] = NoTree]
      /\ alive' = alive \ done[t].members /\ files' = files /\ created' = created
  BY <1>0 DEF ParseErrorLate, callVars, TypeOK
<1>2. done'[t] = NoTree /\ \A u \in Thread \ {t} : stack'[u] = stack[u] /\ done'[u] = done[u]
  BY <1>0, <1>1 DEF TypeOK
<1>3. Apart(stack[t], done[t])
  BY <1>0 DEF Alone
<1>4. /\ Apart(stack'[t], done'[t])
      /\ Owned(stack'[t], done'[t]) = Owned(stack[t], done[t]) \ done[t].members
      /\ done[t].members \subseteq Owned(stack[t], done[t])
  BY <1>1, <1>2, <1>3, DropOwned
<1>5. Alone'
  BY <1>0, <1>1, <1>2, <1>4, AloneShrinks
<1> QED
  BY <1>1, <1>5 DEF OwnInv, Made

\* At the end of a call the file is all that the thread owns.
LEMMA FileOwned ==
    ASSUME NEW s \in Seq(Tree), Len(s) = 1
    PROVE  Owned(s, NoTree) = Last(s).members
<1>1. Last(s) = s[1] /\ 1 .. Len(s) = {1}
  BY DEF Last
<1> QED
  BY <1>1, OwnedMeaning, NoTreeOwnsNothing

\* An idle thread owns nothing.
LEMMA NothingOwned == Apart(<<>>, NoTree) /\ Owned(<<>>, NoTree) = {}
<1>1. <<>> \in Seq(Tree) /\ 1 .. Len(<<>>) = {}
  OBVIOUS
<1>2. Apart(<<>>, NoTree)
  BY <1>1 DEF Apart
<1>3. \A x : x \notin Owned(<<>>, NoTree)
  BY <1>1, OwnedMeaning, NoTreeOwnsNothing
<1> QED
  BY <1>2, <1>3

\* A refused file is destroyed with all of its entities.
LEMMA RefuseOwn ==
    ASSUME TypeInv, TypeOK', OwnInv, NEW t \in Thread, FinishFile(t), ~FileInserted(path[t])
    PROVE  OwnInv'
<1>0. TypeOK /\ Alone /\ Locals(t) /\ phase[t] = "register"
  BY AloneMeaning DEF OwnInv, TypeInv, FinishFile
<1>1. /\ EndParse(t) /\ alive' = alive \ Top(t).members
      /\ created' = created /\ done' = done /\ files' = files
  BY DEF FinishFile
<1>2. stack[t] \in Seq(Tree) /\ Len(stack[t]) = 1 /\ done[t] = NoTree
  BY <1>0 DEF Locals, TypeOK
<1>3. /\ stack'[t] = <<>> /\ phase'[t] = "idle"
      /\ \A u \in Thread \ {t} : stack'[u] = stack[u] /\ phase'[u] = phase[u] /\ done'[u] = done[u]
  BY <1>0, <1>1 DEF EndParse, TypeOK
<1>4. Owned(stack[t], done[t]) = Top(t).members
  BY <1>2, FileOwned DEF Top
<1>5. Apart(stack'[t], done'[t]) /\ Owned(stack'[t], done'[t]) = {}
  BY <1>1, <1>2, <1>3, NothingOwned
<1>6. Alone'
  <2>1. Owned(stack'[t], done'[t]) = Owned(stack[t], done[t]) \ Top(t).members
    BY <1>4, <1>5
  <2> QED
    BY <1>0, <1>1, <1>3, <1>4, <1>5, <2>1, AloneShrinks
<1>7. Locals(t)' /\ alive' \subseteq Made'
  BY <1>1, <1>2, <1>3 DEF Locals, OwnInv, Made
<1> QED
  BY <1>0, <1>3, <1>6, <1>7, OwnStep

\* The caller takes over what the thread owned.
LEMMA DeliverOwn ==
    ASSUME TypeInv, TypeOK', OwnInv, NEW t \in Thread, Deliver(t)
    PROVE  OwnInv'
<1>0. TypeOK /\ Alone /\ Locals(t) /\ phase[t] = "deliver"
  BY AloneMeaning DEF OwnInv, TypeInv, Deliver
<1>1. EndParse(t) /\ alive' = alive /\ created' = created /\ done' = done
  BY DEF Deliver, entityVars
<1>2. stack[t] \in Seq(Tree) /\ Len(stack[t]) = 1 /\ done[t] = NoTree
  BY <1>0 DEF Locals, TypeOK
<1>3. /\ stack'[t] = <<>> /\ phase'[t] = "idle"
      /\ \A u \in Thread \ {t} : stack'[u] = stack[u] /\ phase'[u] = phase[u] /\ done'[u] = done[u]
  BY <1>0, <1>1 DEF EndParse, TypeOK
<1>4. PICK g : g = [file |-> Top(t).root, path |-> path[t],
                    members |-> Top(t).members, lossy |-> lossy[t]]
  OBVIOUS
<1>5. files' = files \cup {g} /\ g.members = Owned(stack[t], done[t])
  BY <1>2, <1>4, FileOwned DEF Top, Deliver
<1>6. Apart(stack'[t], done'[t]) /\ Owned(stack'[t], done'[t]) = {}
  BY <1>1, <1>2, <1>3, NothingOwned
<1>7. \A u \in Thread \ {t} : Owned(stack'[u], done'[u]) = Owned(stack[u], done[u])
  BY <1>3
<1>8. Alone'
  <2>1. ASSUME NEW o
        PROVE  o \in alive' <=> \/ \E u \in Thread : o \in Owned(stack'[u], done'[u])
                                \/ \E f \in files' : o \in f.members
    <3>1. o \in alive <=> \/ o \in Owned(stack[t], done[t])
                          \/ \E u \in Thread \ {t} : o \in Owned(stack[u], done[u])
                          \/ \E f \in files : o \in f.members
      BY <1>0 DEF Alone
    <3> QED
      BY <1>1, <1>5, <1>6, <1>7, <3>1
  <2>2. \A u \in Thread : Apart(stack'[u], done'[u])
    BY <1>0, <1>3, <1>6 DEF Alone
  <2>3. \A u, v \in Thread : u # v => Owned(stack'[u], done'[u]) \cap Owned(stack'[v], done'[v]) = {}
    BY <1>0, <1>6, <1>7 DEF Alone
  <2>4. \A u \in Thread : \A f \in files' : Owned(stack'[u], done'[u]) \cap f.members = {}
    BY <1>0, <1>5, <1>6, <1>7 DEF Alone
  <2>5. \A f, h \in files' : f # h => f.members \cap h.members = {}
    <3>1. \A f \in files : f.members \cap g.members = {} /\ g.members \cap f.members = {}
      BY <1>0, <1>5 DEF Alone
    <3> QED
      BY <1>0, <1>5, <3>1 DEF Alone
  <2> QED
    BY <2>1, <2>2, <2>3, <2>4, <2>5 DEF Alone
<1>9. Locals(t)' /\ alive' \subseteq Made'
  BY <1>1, <1>2, <1>3 DEF Locals, OwnInv, Made
<1> QED
  BY <1>0, <1>3, <1>8, <1>9, OwnStep

\* OwnInv is inductive.
LEMMA NextOwn == TypeInv /\ TypeInv' /\ OwnInv /\ [Next]_vars => OwnInv'
<1> SUFFICES ASSUME TypeInv, TypeInv', OwnInv, [Next]_vars PROVE OwnInv'
  OBVIOUS
<1>0. TypeOK /\ TypeOK' /\ \A t \in Thread : Locals(t)
  BY DEF TypeInv, OwnInv
<1>1. ASSUME NEW t \in Thread,
             \/ OpenFile(t)
             \/ \E k \in {"namespace", "plain"} : BeginEntity(t, k)
             \/ \E k \in {"template", "friend"} : WrapEntity(t, k)
      PROVE  OwnInv'
  <2>1. PICK k \in Kind, w \in Tree : Opens(t, k, w)
    BY <1>1, OpenSteps
  <2>2. \A u \in Thread \ {t} : phase'[u] = phase[u] /\ stack'[u] = stack[u] /\ done'[u] = done[u]
    BY <1>0, <1>1, <2>1 DEF OpenFile, BeginEntity, WrapEntity, callVars, Opens, TypeOK
  <2>3. phase'[t] = "visit"
    BY <1>0, <1>1 DEF OpenFile, BeginEntity, WrapEntity, Visiting, callVars, TypeOK
  <2> QED
    BY <1>0, <2>1, <2>2, <2>3, OpensOwn, OwnStep DEF Locals
<1>2. ASSUME NEW t \in Thread,
             \/ \E id \in EntityId : \/ FinishDefinition(t, id)
                                     \/ FinishDeclaration(t, id)
                                     \/ FinishNamespace(t, id)
             \/ FinishUnregistered(t)
             \/ ParseError(t)
      PROVE  OwnInv'
  <2>1. (Closes(t) \/ Unwinds(t)) /\ phase' = phase
    BY <1>2, CloseSteps
  <2>2. phase[t] = "visit" /\ \A u \in Thread \ {t} : stack'[u] = stack[u] /\ done'[u] = done[u]
    BY <2>1, CloseFacts
  <2>3. Locals(t)'
    BY <2>1, <2>2 DEF Locals
  <2> QED
    BY <1>0, <2>1, <2>2, <2>3, CloseOwn, OwnStep
<1>3. ASSUME NEW t \in Thread, AddChild(t) PROVE OwnInv'
  <2>1. /\ phase[t] = "visit" /\ phase' = phase
        /\ \A u \in Thread \ {t} : stack'[u] = stack[u] /\ done'[u] = done[u]
    BY <1>3, AddFacts
  <2>2. Locals(t)'
    BY <2>1 DEF Locals
  <2> QED
    BY <1>0, <1>3, <2>1, <2>2, AddOwn, OwnStep
<1>4. ASSUME NEW t \in Thread, ParseErrorLate(t) PROVE OwnInv'
  <2>1. /\ phase[t] = "visit" /\ phase' = phase
        /\ \A u \in Thread \ {t} : stack'[u] = stack[u] /\ done'[u] = done[u]
    BY <1>0, <1>4 DEF ParseErrorLate, callVars, TypeOK
  <2>2. Locals(t)'
    BY <2>1 DEF Locals
  <2> QED
    BY <1>0, <1>4, <2>1, <2>2, LateOwn, OwnStep
<1>5. ASSUME NEW t \in Thread, FinishFile(t) PROVE OwnInv'
  <2>1. CASE FileInserted(path[t])
    <3>1. UNCHANGED <<alive, created, stack, done, files>>
          /\ phase[t] = "register" /\ phase' = [phase EXCEPT ![t] = "deliver"]
      BY <1>5, <2>1 DEF FinishFile
    <3>2. \A u \in Thread : Locals(u)'
      BY <1>0, <3>1 DEF Locals, TypeOK
    <3> QED
      BY <3>1, <3>2, OwnKept
  <2> QED
    BY <1>0, <1>5, <2>1, RefuseOwn
<1>6. ASSUME NEW t \in Thread, (\E p \in Path : BeginParse(t, p)) \/ EscapeParse(t) \/ FinishVisit(t)
      PROVE  OwnInv'
  <2>1. UNCHANGED <<alive, created, stack, done, files>>
    BY <1>6 DEF BeginParse, EscapeParse, FinishVisit, entityVars, treeVars
  <2>2. \A u \in Thread : Locals(u)'
    BY <1>0, <1>6, <2>1 DEF BeginParse, EscapeParse, FinishVisit, Visiting, Locals, TypeOK
  <2> QED
    BY <2>1, <2>2, OwnKept
<1>7. ASSUME NEW t \in Thread, Deliver(t) PROVE OwnInv'
  BY <1>0, <1>7, DeliverOwn
<1>8. ASSUME ResetError \/ UNCHANGED vars PROVE OwnInv'
  <2>1. UNCHANGED <<alive, created, stack, done, files, phase>>
    BY <1>8 DEF ResetError, vars, entityVars, treeVars, callVars
  <2>2. \A u \in Thread : Locals(u)'
    BY <1>0, <2>1 DEF Locals
  <2> QED
    BY <2>1, <2>2, OwnKept
<1> QED
  BY <1>1, <1>2, <1>3, <1>4, <1>5, <1>6, <1>7, <1>8 DEF Next, ThreadStep, EntityStep

\* At first nothing is alive and nothing is owned.
LEMMA InitOwn == Init => OwnInv
<1> SUFFICES ASSUME Init PROVE OwnInv
  OBVIOUS
<1>1. \A t \in Thread : stack[t] = <<>> /\ done[t] = NoTree /\ phase[t] = "idle"
  BY DEF Init
<1>2. alive = {} /\ files = {}
  BY DEF Init
<1>3. Alone
  BY <1>1, <1>2, NothingOwned DEF Alone
<1>4. TypeOK
  BY InitTypeInv DEF TypeInv
<1> QED
  BY <1>1, <1>2, <1>3, <1>4, AloneMeaning DEF OwnInv, Locals

\* OwnInv holds in every reachable state.
THEOREM OwnInvariant == Spec => []OwnInv
  BY InitOwn, TypeInvariant, NextOwn, PTL DEF Spec

\* At every point of every interleaving each entity is owned by one open builder, one
\* returned unique_ptr or one delivered file, and every entity alive is owned: nothing
\* leaks, nothing is destroyed twice, and no two threads share a part of a tree.
THEOREM EntitiesOwnedOnce == Spec => []OwnershipUnique
<1>1. OwnInv => OwnershipUnique
  BY DEF OwnInv
<1> QED
  BY <1>1, OwnInvariant, PTL

----------------------------------------------------------------------------
(* parent() stays inside the tree. *)

\* Whatever is in a tree has been constructed, and two trees have nothing in common.
LEMMA TreesApart ==
    ASSUME TypeOK, OwnInv, NEW t \in Thread
    PROVE  /\ done[t].members \subseteq Made
           /\ \A i \in 1 .. Len(stack[t]) : stack[t][i].members \subseteq Made
           /\ \A f \in files : f.members \subseteq Made
           /\ \A u \in Thread : \A i \in 1 .. Len(stack[u]) :
                 stack[u][i].members \cap done[t].members = {}
           /\ \A u \in Thread \ {t} : done[u].members \cap done[t].members = {}
           /\ \A f \in files : f.members \cap done[t].members = {}
           /\ \A i, j \in 1 .. Len(stack[t]) : i # j => stack[t][i].members \cap stack[t][j].members = {}
           /\ \A u \in Thread \ {t} : \A i \in 1 .. Len(stack[t]), j \in 1 .. Len(stack[u]) :
                 stack[t][i].members \cap stack[u][j].members = {}
<1>1. Alone /\ alive \subseteq Made
  BY AloneMeaning DEF OwnInv
<1>2. \A u \in Thread : /\ done[u].members \subseteq Owned(stack[u], done[u])
                        /\ \A i \in 1 .. Len(stack[u]) :
                              stack[u][i].members \subseteq Owned(stack[u], done[u])
  <2>1. ASSUME NEW u \in Thread
        PROVE  /\ done[u].members \subseteq Owned(stack[u], done[u])
               /\ \A i \in 1 .. Len(stack[u]) : stack[u][i].members \subseteq Owned(stack[u], done[u])
    <3>1. stack[u] \in Seq(Tree) /\ done[u] \in Tree \cup {NoTree}
      BY DEF TypeOK
    <3> QED
      BY <3>1, OwnedMeaning
  <2> QED
    BY <2>1
<1>3. \A u \in Thread : Owned(stack[u], done[u]) \subseteq Made
  BY <1>1 DEF Alone
<1>4. \A u \in Thread \ {t} : Owned(stack[u], done[u]) \cap Owned(stack[t], done[t]) = {}
  BY <1>1 DEF Alone
<1>5. \A f \in files : f.members \subseteq Made /\ f.members \cap Owned(stack[t], done[t]) = {}
  BY <1>1 DEF Alone
<1>6. Apart(stack[t], done[t])
  BY <1>1 DEF Alone
<1>7. \A u \in Thread : \A i \in 1 .. Len(stack[u]) : stack[u][i].members \cap done[t].members = {}
  BY <1>2, <1>4, <1>6 DEF Apart
<1>8. \A u \in Thread \ {t} : \A i \in 1 .. Len(stack[t]), j \in 1 .. Len(stack[u]) :
         stack[t][i].members \cap stack[u][j].members = {}
  BY <1>2, <1>4
<1> QED
  BY <1>2, <1>3, <1>4, <1>5, <1>6, <1>7, <1>8 DEF Apart

\* A tree is as it was if the parents of its entities are.
LEMMA RootedKept ==
    ASSUME NEW root, NEW members, Rooted(parent, root, members),
           \A o \in members : parent'[o] = parent[o]
    PROVE  Rooted(parent', root, members)
  BY DEF Rooted

\* Trees are closed, destroyed or delivered, but none is extended.
TreesMove ==
    /\ \A t \in Thread : \A i \in 1 .. Len(stack'[t]) :
          i \in 1 .. Len(stack[t]) /\ stack'[t][i] = stack[t][i]
    /\ \A t \in Thread : \/ done'[t] = done[t]
                         \/ done'[t] = NoTree
                         \/ Closes(t) /\ done'[t].root = Top(t).root
                                      /\ done'[t].members = Top(t).members
    /\ \A f \in files' : \/ f \in files
                         \/ \E t \in Thread : Deliver(t) /\ f.file = Top(t).root
                                                         /\ f.members = Top(t).members
    /\ UNCHANGED <<parent, kind, created>>

\* Ending a builder moves trees without a change of parents.
LEMMA CloseMoves ==
    ASSUME TypeInv, NEW t \in Thread, Closes(t) \/ Unwinds(t)
    PROVE  TreesMove
<1>1. /\ \A i \in 1 .. Len(stack'[t]) : i \in 1 .. Len(stack[t]) /\ stack'[t][i] = stack[t][i]
      /\ \A u \in Thread \ {t} : stack'[u] = stack[u] /\ done'[u] = done[u]
      /\ Closes(t) => done'[t].root = Top(t).root /\ done'[t].members = Top(t).members
      /\ Unwinds(t) => done' = done
  BY CloseFacts
<1>2. UNCHANGED <<parent, kind, created, files>>
  BY DEF Closes, Unwinds, entityVars
<1> QED
  BY <1>1, <1>2 DEF TreesMove

\* The steps by what they do to trees: move them, list a block, or extend them.
LEMMA MoveSteps ==
    ASSUME TypeInv, OwnInv, [Next]_vars
    PROVE  \/ TreesMove /\ ns' = ns /\ \A t \in Thread : done'[t] \in {done[t], NoTree}
           \/ \E t \in Thread : Closes(t) /\ Lists(t) /\ TreesMove
           \/ \E t \in Thread : \/ OpenFile(t)
                                \/ \E k \in {"namespace", "plain"} : BeginEntity(t, k)
                                \/ \E k \in {"template", "friend"} : WrapEntity(t, k)
                                \/ AddChild(t)
<1> DEFINE Quiet == TreesMove /\ ns' = ns /\ \A t \in Thread : done'[t] \in {done[t], NoTree}
<1>0. TypeOK
  BY DEF TypeInv
<1>1. ASSUME NEW t \in Thread,
             \/ \E id \in EntityId : \/ FinishDefinition(t, id)
                                     \/ FinishDeclaration(t, id)
                                     \/ FinishNamespace(t, id)
             \/ FinishUnregistered(t)
             \/ ParseError(t)
      PROVE  Quiet \/ (Closes(t) /\ Lists(t) /\ TreesMove)
  <2>1. TreesMove
    BY <1>1, CloseSteps, CloseMoves
  <2>2. Unwinds(t) => done' = done
    BY CloseFacts
  <2> QED
    BY <1>1, <2>1, <2>2, CloseSteps
<1>2. ASSUME NEW t \in Thread, ParseErrorLate(t) PROVE Quiet
  <2>1. /\ UNCHANGED <<ns, stack, files, parent, kind, created>>
        /\ \A u \in Thread : done'[u] = done[u] \/ done'[u] = NoTree
    BY <1>0, <1>2 DEF ParseErrorLate, callVars, indexVars, TypeOK
  <2> QED
    BY <2>1 DEF TreesMove
<1>3. ASSUME NEW t \in Thread, FinishFile(t) \/ Deliver(t) PROVE Quiet
  <2>1. UNCHANGED <<ns, done, parent, kind, created>>
    BY <1>3 DEF FinishFile, Deliver, RegisterFile, entityVars, indexVars
  <2>2. \A u \in Thread : stack'[u] = stack[u] \/ stack'[u] = <<>>
    BY <1>0, <1>3 DEF FinishFile, Deliver, EndParse, TypeOK
  <2>3. \A u \in Thread : \A i \in 1 .. Len(stack'[u]) :
           i \in 1 .. Len(stack[u]) /\ stack'[u][i] = stack[u][i]
    BY <2>2
  <2>4. \A f \in files' : \/ f \in files
                          \/ Deliver(t) /\ f.file = Top(t).root /\ f.members = Top(t).members
    <3>1. CASE FinishFile(t)
      BY <3>1 DEF FinishFile
    <3>2. CASE Deliver(t)
      BY <3>2 DEF Deliver
    <3> QED
      BY <1>3, <3>1, <3>2
  <2> QED
    BY <2>1, <2>3, <2>4 DEF TreesMove
<1>4. ASSUME NEW t \in Thread, (\E p \in Path : BeginParse(t, p)) \/ EscapeParse(t) \/ FinishVisit(t)
      PROVE  Quiet
  BY <1>4 DEF BeginParse, EscapeParse, FinishVisit, indexVars, entityVars, treeVars, TreesMove
<1>5. ASSUME ResetError \/ UNCHANGED vars PROVE Quiet
  BY <1>5 DEF ResetError, vars, indexVars, entityVars, treeVars, callVars, TreesMove
<1> QED
  BY <1>1, <1>2, <1>3, <1>4, <1>5 DEF Next, ThreadStep, EntityStep

\* The innermost builder is one of the stack.
LEMMA TopIsOpen ==
    ASSUME TypeOK, NEW t \in Thread, Len(stack[t]) > 0
    PROVE  \E i \in 1 .. Len(stack[t]) : Top(t) = stack[t][i]
  BY DEF TypeOK, Top, Last

\* Trees that only move keep their parents.
LEMMA ParentsMoved ==
    ASSUME TypeInv, ParentInv, TreesMove
    PROVE  ParentInv'
<1>1. parent' = parent /\ Made' = Made
  BY DEF TreesMove, Made
<1>2. \A t \in Thread : \A i \in 1 .. Len(stack'[t]) :
          Rooted(parent', stack'[t][i].root, stack'[t][i].members)
  BY <1>1 DEF ParentInv, TreesMove
<1>3. \A t \in Thread : Len(stack[t]) > 0 => Rooted(parent, Top(t).root, Top(t).members)
  BY TopIsOpen DEF ParentInv, TypeInv
<1>4. \A t \in Thread : Closes(t) \/ Deliver(t) => Len(stack[t]) > 0
  BY DEF Closes, InEntity, Deliver, TypeInv, TypeOK, Shape
<1>5. \A t \in Thread : done'[t] # NoTree => Rooted(parent', done'[t].root, done'[t].members)
  BY <1>1, <1>3, <1>4 DEF ParentInv, TreesMove
<1>6. \A f \in files' : Rooted(parent', f.file, f.members)
  BY <1>1, <1>3, <1>4 DEF ParentInv, TreesMove
<1> QED
  BY <1>1, <1>2, <1>5, <1>6 DEF ParentInv

\* The returned entity gets a parent: every tree but its own stays as it is.
LEMMA ParentSet ==
    ASSUME TypeOK, OwnInv, ParentInv, NEW t \in Thread, done[t] # NoTree, NEW x \in Object,
           parent' = [parent EXCEPT ![done[t].root] = x]
    PROVE  /\ \A u \in Thread : \A i \in 1 .. Len(stack[u]) :
                 Rooted(parent', stack[u][i].root, stack[u][i].members)
           /\ \A u \in Thread \ {t} : done[u] # NoTree => Rooted(parent', done[u].root, done[u].members)
           /\ \A f \in files : Rooted(parent', f.file, f.members)
           /\ done[t].root \in done[t].members /\ done[t].root \in Made
           /\ parent'[done[t].root] = x
           /\ \A o \in done[t].members \ {done[t].root} : parent'[o] \in done[t].members \ {o}
<1>1. done[t] \in Tree /\ done[t].root \in Object
  BY DEF TypeOK, Tree
<1>2. Rooted(parent, done[t].root, done[t].members)
  BY DEF ParentInv
<1>3. done[t].root \in done[t].members /\ done[t].root \in Made
  BY <1>2, TreesApart DEF Rooted
<1>4. \A o \in Object : parent'[o] = IF o = done[t].root THEN x ELSE parent[o]
  BY <1>1 DEF TypeOK
<1>5. ASSUME NEW root, NEW members, members \subseteq Made, members \cap done[t].members = {},
             Rooted(parent, root, members)
      PROVE  Rooted(parent', root, members)
  <2>1. \A o \in members : o \in Object /\ o # done[t].root
    BY <1>3, <1>5 DEF Made
  <2> QED
    BY <1>4, <1>5, <2>1, RootedKept
<1>6. \A u \in Thread : \A i \in 1 .. Len(stack[u]) : Rooted(parent', stack[u][i].root, stack[u][i].members)
  BY <1>5, TreesApart DEF ParentInv
<1>7. \A u \in Thread \ {t} : done[u] # NoTree => Rooted(parent', done[u].root, done[u].members)
  BY <1>5, TreesApart DEF ParentInv
<1>8. \A f \in files : Rooted(parent', f.file, f.members)
  BY <1>5, TreesApart DEF ParentInv
<1>9. \A o \in done[t].members \ {done[t].root} : parent'[o] \in done[t].members \ {o}
  <2>1. done[t].members \subseteq Object
    BY <1>1 DEF Tree
  <2> QED
    BY <1>2, <1>4, <2>1 DEF Rooted
<1> QED
  BY <1>1, <1>3, <1>4, <1>6, <1>7, <1>8, <1>9

\* A builder is opened; what it wraps gets the new entity as its parent.
LEMMA ParentsOpened ==
    ASSUME TypeInv, OwnInv, ParentInv, NEW t \in Thread, NEW k \in Kind, NEW w \in Tree,
           Opens(t, k, w),
           \/ done[t] = NoTree /\ parent' = parent
           \/ done[t] # NoTree /\ parent' = [parent EXCEPT ![done[t].root] = NewObject(t)]
    PROVE  ParentInv'
<1>0. TypeOK /\ stack[t] \in Seq(Tree) /\ done[t] \in Tree \cup {NoTree}
  BY DEF TypeInv, TypeOK
<1>1. NewObject(t) \in Object \ Made /\ Made' = Made \cup {NewObject(t)} /\ NewObject(t) \notin alive
  BY <1>0, MadeGrows DEF Opens
<1>2. /\ stack'[t] = Append(stack[t], w) /\ done'[t] = NoTree /\ files' = files
      /\ \A u \in Thread \ {t} : stack'[u] = stack[u] /\ done'[u] = done[u]
      /\ w.root = NewObject(t) /\ w.members = {NewObject(t)} \cup done[t].members
  BY <1>0 DEF Opens, TypeOK
<1>3. /\ Len(stack'[t]) = Len(stack[t]) + 1 /\ Len(stack[t]) \in Nat
      /\ \A i \in 1 .. Len(stack[t]) : stack'[t][i] = stack[t][i]
      /\ stack'[t][Len(stack[t]) + 1] = w
  BY <1>0, <1>2, PushFacts
<1>4. \A i \in 1 .. Len(stack'[t]) : i \in 1 .. Len(stack[t]) \/ i = Len(stack[t]) + 1
  BY <1>3
<1>5. parent[NewObject(t)] = NoObject
  BY <1>1 DEF ParentInv
<1>6. /\ \A u \in Thread : \A i \in 1 .. Len(stack[u]) :
             Rooted(parent', stack[u][i].root, stack[u][i].members)
      /\ \A u \in Thread \ {t} : done[u] # NoTree => Rooted(parent', done[u].root, done[u].members)
      /\ \A f \in files : Rooted(parent', f.file, f.members)
      /\ Rooted(parent', w.root, w.members)
      /\ \A o \in Object \ Made : parent'[o] = NoObject
  <2>1. CASE done[t] = NoTree /\ parent' = parent
    <3>1. w.members = {NewObject(t)}
      BY <1>2, <2>1, NoTreeOwnsNothing
    <3>2. Rooted(parent', w.root, w.members)
      BY <1>2, <1>5, <2>1, <3>1 DEF Rooted
    <3> QED
      BY <2>1, <3>2 DEF ParentInv
  <2>2. CASE done[t] # NoTree /\ parent' = [parent EXCEPT ![done[t].root] = NewObject(t)]
    <3>1. NewObject(t) \in Object
      BY <1>1
    <3>2. /\ done[t].root \in done[t].members /\ done[t].root \in Made
          /\ parent'[done[t].root] = NewObject(t)
          /\ \A o \in done[t].members \ {done[t].root} : parent'[o] \in done[t].members \ {o}
          /\ \A u \in Thread : \A i \in 1 .. Len(stack[u]) :
                Rooted(parent', stack[u][i].root, stack[u][i].members)
          /\ \A u \in Thread \ {t} : done[u] # NoTree => Rooted(parent', done[u].root, done[u].members)
          /\ \A f \in files : Rooted(parent', f.file, f.members)
      BY <1>0, <2>2, <3>1, ParentSet
    <3>3. \A o \in Object \ Made : parent'[o] = NoObject
      BY <1>0, <2>2, <3>2 DEF ParentInv, TypeOK
    <3>4. NewObject(t) \notin done[t].members
      BY <1>0, <1>1, TreesApart
    <3>5. Rooted(parent', w.root, w.members)
      <4>1. parent'[NewObject(t)] = NoObject
        BY <1>1, <3>3
      <4>2. \A o \in w.members \ {w.root} : o \in done[t].members
        BY <1>2
      <4>3. \A o \in w.members \ {w.root} : parent'[o] \in w.members \ {o}
        BY <1>2, <3>2, <3>4, <4>2
      <4> QED
        BY <1>2, <4>1, <4>3 DEF Rooted
    <3> QED
      BY <3>2, <3>3, <3>5
  <2> QED
    BY <2>1, <2>2
<1>7. \A u \in Thread : \A i \in 1 .. Len(stack'[u]) :
          Rooted(parent', stack'[u][i].root, stack'[u][i].members)
  BY <1>2, <1>3, <1>4, <1>6
<1>8. \A u \in Thread : done'[u] # NoTree => Rooted(parent', done'[u].root, done'[u].members)
  BY <1>2, <1>6
<1>9. \A o \in Object \ Made' : parent'[o] = NoObject
  BY <1>1, <1>6
<1> QED
  BY <1>2, <1>6, <1>7, <1>8, <1>9 DEF ParentInv

\* A returned entity becomes a child of the innermost builder's.
LEMMA ParentsAdded ==
    ASSUME TypeInv, OwnInv, ParentInv, NEW t \in Thread, AddChild(t)
    PROVE  ParentInv'
<1>0. TypeOK
  BY DEF TypeInv
<1>1. /\ stack[t] \in Seq(Tree) /\ Len(stack[t]) > 0 /\ Len(stack[t]) \in Nat
      /\ done[t] \in Tree /\ done[t] # NoTree /\ done'[t] = NoTree
      /\ files' = files /\ created' = created
      /\ parent' = [parent EXCEPT ![done[t].root] = stack[t][Len(stack[t])].root]
      /\ Extended(stack[t], done[t].members, stack'[t])
      /\ \A u \in Thread \ {t} : stack'[u] = stack[u] /\ done'[u] = done[u]
  BY AddFacts, NoTreeOwnsNothing
<1>2. PICK n \in 1 .. Len(stack[t]) : n = Len(stack[t])
  BY <1>1
<1>3. stack[t][n].root \in Object /\ Rooted(parent, stack[t][n].root, stack[t][n].members)
  <2>1. stack[t][n] \in Tree
    BY <1>1
  <2> QED
    BY <2>1 DEF Tree, ParentInv
<1>4. /\ done[t].root \in done[t].members /\ done[t].root \in Made
      /\ parent'[done[t].root] = stack[t][n].root
      /\ \A o \in done[t].members \ {done[t].root} : parent'[o] \in done[t].members \ {o}
      /\ \A u \in Thread : \A i \in 1 .. Len(stack[u]) :
            Rooted(parent', stack[u][i].root, stack[u][i].members)
      /\ \A u \in Thread \ {t} : done[u] # NoTree => Rooted(parent', done[u].root, done[u].members)
      /\ \A f \in files : Rooted(parent', f.file, f.members)
  BY <1>0, <1>1, <1>2, <1>3, ParentSet
<1>5. stack[t][n].members \cap done[t].members = {}
  BY <1>0, TreesApart
<1>6. \A i \in 1 .. Len(stack'[t]) :
          /\ i \in 1 .. Len(stack[t]) /\ stack'[t][i].root = stack[t][i].root
          /\ stack'[t][i].members = IF i = n THEN stack[t][i].members \cup done[t].members
                                    ELSE stack[t][i].members
  BY <1>1, <1>2 DEF Extended
<1>7. Rooted(parent', stack[t][n].root, stack[t][n].members \cup done[t].members)
  <2>1. Rooted(parent', stack[t][n].root, stack[t][n].members)
    BY <1>4
  <2>2. stack[t][n].root \in stack[t][n].members
    BY <1>3 DEF Rooted
  <2>3. ASSUME NEW o \in done[t].members
        PROVE  parent'[o] \in (stack[t][n].members \cup done[t].members) \ {o}
    BY <1>4, <1>5, <2>2, <2>3
  <2> QED
    BY <2>1, <2>3 DEF Rooted
<1>8. \A u \in Thread : \A i \in 1 .. Len(stack'[u]) :
          Rooted(parent', stack'[u][i].root, stack'[u][i].members)
  <2>1. ASSUME NEW i \in 1 .. Len(stack'[t])
        PROVE  Rooted(parent', stack'[t][i].root, stack'[t][i].members)
    <3>1. CASE i = n
      BY <1>6, <1>7, <3>1
    <3>2. CASE i # n
      BY <1>4, <1>6, <3>2
    <3> QED
      BY <3>1, <3>2
  <2>2. \A u \in Thread \ {t} : \A i \in 1 .. Len(stack'[u]) :
           Rooted(parent', stack'[u][i].root, stack'[u][i].members)
    BY <1>1, <1>4
  <2> QED
    BY <2>1, <2>2
<1>9. \A u \in Thread : done'[u] # NoTree => Rooted(parent', done'[u].root, done'[u].members)
  BY <1>1, <1>4
<1>10. \A o \in Object \ Made' : parent'[o] = NoObject
  BY <1>0, <1>1, <1>4 DEF ParentInv, TypeOK, Made
<1> QED
  BY <1>1, <1>4, <1>8, <1>9, <1>10 DEF ParentInv

\* ParentInv is inductive with OwnInv.
LEMMA NextParents == TypeInv /\ OwnInv /\ ParentInv /\ [Next]_vars => ParentInv'
<1> SUFFICES ASSUME TypeInv, OwnInv, ParentInv, [Next]_vars PROVE ParentInv'
  OBVIOUS
<1>1. ASSUME NEW t \in Thread,
             \/ OpenFile(t)
             \/ \E k \in {"namespace", "plain"} : BeginEntity(t, k)
             \/ \E k \in {"template", "friend"} : WrapEntity(t, k)
      PROVE  ParentInv'
  <2>1. PICK k \in Kind, w \in Tree : Opens(t, k, w)
    BY <1>1, OpenSteps
  <2>2. \/ done[t] = NoTree /\ parent' = parent
        \/ done[t] # NoTree /\ parent' = [parent EXCEPT ![done[t].root] = NewObject(t)]
    <3>1. CASE OpenFile(t)
      BY <3>1 DEF OpenFile, OwnInv, Locals
    <3>2. CASE \E j \in {"namespace", "plain"} : BeginEntity(t, j)
      BY <3>2 DEF BeginEntity, Visiting
    <3>3. CASE \E j \in {"template", "friend"} : WrapEntity(t, j)
      BY <3>3 DEF WrapEntity
    <3> QED
      BY <1>1, <3>1, <3>2, <3>3
  <2> QED
    BY <2>1, <2>2, ParentsOpened
<1> QED
  BY <1>1, MoveSteps, ParentsMoved, ParentsAdded

\* ParentInv holds in every reachable state.
THEOREM ParentInvariant == Spec => []ParentInv
<1>1. Init => ParentInv
  <2>1. Init => \A t \in Thread : stack[t] = <<>> /\ Len(stack[t]) = 0 /\ done[t] = NoTree
    BY DEF Init
  <2>2. Init => files = {} /\ \A o \in Object : parent[o] = NoObject
    BY DEF Init
  <2> QED
    BY <2>1, <2>2 DEF ParentInv
<1> QED
  BY <1>1, TypeInvariant, OwnInvariant, NextParents, PTL DEF Spec

\* Whatever the threads build, wrap, unwind and hand over, parent() leads from every
\* entity of a delivered file to another one of the same file, and only from the file
\* itself to none.
THEOREM ParentsInTheirTree == Spec => []ParentsStayInTree
<1>1. ParentInv => ParentsStayInTree
  BY DEF ParentInv, ParentsStayInTree, Rooted
<1> QED
  BY <1>1, ParentInvariant, PTL

----------------------------------------------------------------------------
(* Every namespace block is listed once. *)

\* A block appended to one list is listed once if it was unlisted; no other is affected.
LEMMA ListAppend ==
    ASSUME NEW lists \in [Id -> Seq(Object)], NEW id \in Id, NEW x \in Object,
           NEW more, more[id] = Append(lists[id], x), \A jd \in Id \ {id} : more[jd] = lists[jd]
    PROVE  /\ \A o : o # x /\ Unlisted(lists, o) => Unlisted(more, o)
           /\ \A o : o # x /\ ListedOnce(lists, o) => ListedOnce(more, o)
           /\ Unlisted(lists, x) => ListedOnce(more, x)
<1>1. /\ lists[id] \in Seq(Object) /\ Len(lists[id]) \in Nat
      /\ more[id] = Append(lists[id], x)
      /\ \A jd \in Id \ {id} : more[jd] = lists[jd]
  OBVIOUS
<1>2. PICK n \in Nat : n = Len(lists[id]) + 1
  BY <1>1
<1>3. /\ Len(more[id]) = n
      /\ \A i \in 1 .. Len(lists[id]) : more[id][i] = lists[id][i]
      /\ more[id][n] = x
  BY <1>1, <1>2, PushFacts
<1>4. n \in 1 .. Len(more[id]) /\ \A i \in 1 .. Len(more[id]) : i \in 1 .. Len(lists[id]) \/ i = n
  BY <1>1, <1>2, <1>3
<1>5. \A i \in 1 .. Len(lists[id]) : i \in 1 .. Len(more[id]) /\ i # n
  BY <1>1, <1>2, <1>3
<1>6. \A jd \in Id : \A j \in 1 .. Len(lists[jd]) : j \in 1 .. Len(more[jd]) /\ more[jd][j] = lists[jd][j]
  BY <1>1, <1>3, <1>5
<1>7. \A jd \in Id : \A j \in 1 .. Len(more[jd]) :
          j \in 1 .. Len(lists[jd]) \/ (jd = id /\ j = n)
  BY <1>1, <1>4
<1>8. ASSUME NEW o, o # x, Unlisted(lists, o) PROVE Unlisted(more, o)
  BY <1>3, <1>6, <1>7, <1>8 DEF Unlisted
<1>9. ASSUME NEW o, o # x, ListedOnce(lists, o) PROVE ListedOnce(more, o)
  <2>0. PICK kd \in Id : \E i \in 1 .. Len(lists[kd]) :
           /\ lists[kd][i] = o
           /\ \A jd \in Id : \A j \in 1 .. Len(lists[jd]) : lists[jd][j] = o => jd = kd /\ j = i
    BY <1>9 DEF ListedOnce
  <2>1. PICK i \in 1 .. Len(lists[kd]) :
           /\ lists[kd][i] = o
           /\ \A jd \in Id : \A j \in 1 .. Len(lists[jd]) : lists[jd][j] = o => jd = kd /\ j = i
    BY <2>0
  <2>2. i \in 1 .. Len(more[kd]) /\ more[kd][i] = o
    BY <1>6, <2>1
  <2>3. \A jd \in Id : \A j \in 1 .. Len(more[jd]) : more[jd][j] = o => jd = kd /\ j = i
    BY <1>3, <1>6, <1>7, <1>9, <2>1
  <2> QED
    BY <2>2, <2>3 DEF ListedOnce
<1>10. ASSUME Unlisted(lists, x) PROVE ListedOnce(more, x)
  <2>1. \A jd \in Id : \A j \in 1 .. Len(more[jd]) : more[jd][j] = x => jd = id /\ j = n
    BY <1>6, <1>7, <1>10 DEF Unlisted
  <2> QED
    BY <1>3, <1>4, <2>1 DEF ListedOnce
<1> QED
  BY <1>8, <1>9, <1>10

\* The entities of a tree keep their kind and what the index lists of them.
LEMMA ListOpened ==
    ASSUME TypeInv, OwnInv, ParentInv, ListInv, NEW t \in Thread, NEW k \in Kind, NEW w \in Tree,
           Opens(t, k, w), ns' = ns, Len(stack[t]) = 0 => k = "file"
    PROVE  ListInv'
<1>0. TypeOK /\ stack[t] \in Seq(Tree)
  BY DEF TypeInv, TypeOK
<1>1. /\ NewObject(t) \in Object \ Made /\ Made' = Made \cup {NewObject(t)}
      /\ \A o \in Made : kind'[o] = kind[o]
  BY <1>0, MadeGrows DEF Opens
<1>2. /\ stack'[t] = Append(stack[t], w) /\ done'[t] = NoTree /\ files' = files
      /\ \A u \in Thread \ {t} : stack'[u] = stack[u] /\ done'[u] = done[u]
      /\ w.root = NewObject(t) /\ w.members = {NewObject(t)} \cup done[t].members
  BY <1>0 DEF Opens, TypeOK
<1>3. /\ Len(stack'[t]) = Len(stack[t]) + 1 /\ Len(stack[t]) \in Nat
      /\ \A i \in 1 .. Len(stack[t]) : stack'[t][i] = stack[t][i]
      /\ stack'[t][Len(stack[t]) + 1] = w
  BY <1>0, <1>2, PushFacts
<1>4. \A i \in 1 .. Len(stack'[t]) : i \in 1 .. Len(stack[t]) \/ i = Len(stack[t]) + 1
  BY <1>3
<1>5. \A u \in Thread : /\ done[u].members \subseteq Made
                        /\ \A i \in 1 .. Len(stack[u]) : stack[u][i].members \subseteq Made
  BY <1>0, TreesApart
<1>6. \A f \in files : f.members \subseteq Made
  BY <1>0, TreesApart
<1>7. kind'[NewObject(t)] = k
  BY <1>0, <1>1 DEF Opens, Create, TypeOK
<1>8. \A o \in Object \ Made' : Unlisted(ns', o)
  BY <1>1 DEF ListInv
<1>9. \A o \in w.members \ {w.root} : kind'[o] = "namespace" => ListedOnce(ns', o)
  BY <1>1, <1>2, <1>5 DEF ListInv
<1>10. Unlisted(ns', w.root)
  BY <1>1, <1>2 DEF ListInv
<1>11. \A u \in Thread : \A i \in 1 .. Len(stack[u]) :
          /\ Unlisted(ns', stack[u][i].root)
          /\ \A o \in stack[u][i].members \ {stack[u][i].root} :
                kind'[o] = "namespace" => ListedOnce(ns', o)
  BY <1>1, <1>5 DEF ListInv
<1>12. \A u \in Thread : \A i \in 1 .. Len(stack'[u]) :
          /\ Unlisted(ns', stack'[u][i].root)
          /\ \A o \in stack'[u][i].members \ {stack'[u][i].root} :
                kind'[o] = "namespace" => ListedOnce(ns', o)
  <2> DEFINE Fine(tree) == /\ Unlisted(ns', tree.root)
                           /\ \A o \in tree.members \ {tree.root} :
                                 kind'[o] = "namespace" => ListedOnce(ns', o)
  <2>1. Fine(w)
    BY <1>9, <1>10
  <2>2. \A u \in Thread : \A i \in 1 .. Len(stack[u]) : Fine(stack[u][i])
    BY <1>11
  <2> HIDE DEF Fine
  <2>3. \A u \in Thread : \A i \in 1 .. Len(stack'[u]) : Fine(stack'[u][i])
    <3>1. \A i \in 1 .. Len(stack'[t]) : Fine(stack'[t][i])
      BY <1>3, <1>4, <2>1, <2>2
    <3> QED
      BY <1>2, <2>2, <3>1
  <2> QED
    BY <2>3 DEF Fine
<1>13. \A u \in Thread : Len(stack'[u]) > 0 => kind'[stack'[u][1].root] = "file"
  <2>1. \A u \in Thread : Len(stack[u]) > 0 => kind'[stack[u][1].root] = "file"
    <3>1. ASSUME NEW u \in Thread, Len(stack[u]) > 0 PROVE kind'[stack[u][1].root] = "file"
      <4>1. stack[u] \in Seq(Tree) /\ 1 \in 1 .. Len(stack[u]) /\ stack[u][1] \in Tree
        BY <1>0, <3>1 DEF TypeOK
      <4>2. kind[stack[u][1].root] = "file"
        BY <3>1 DEF ListInv
      <4>3. stack[u][1].root \in Made
        BY <1>5, <4>1 DEF ParentInv, Rooted
      <4> QED
        BY <1>1, <4>2, <4>3
    <3> QED
      BY <3>1
  <2>2. Len(stack[t]) = 0 => kind'[stack'[t][1].root] = "file"
    BY <1>2, <1>3, <1>7
  <2>3. Len(stack[t]) # 0 => Len(stack[t]) > 0 /\ stack'[t][1] = stack[t][1]
    BY <1>3
  <2> QED
    BY <1>2, <2>1, <2>2, <2>3
<1>14. \A u \in Thread : \A o \in done'[u].members : kind'[o] = "namespace" => ListedOnce(ns', o)
  BY <1>1, <1>2, <1>5, NoTreeOwnsNothing DEF ListInv
<1>15. \A f \in files' : \A o \in f.members : kind'[o] = "namespace" => ListedOnce(ns', o)
  BY <1>1, <1>2, <1>6 DEF ListInv
<1> QED
  BY <1>8, <1>12, <1>13, <1>14, <1>15 DEF ListInv

\* add_child keeps what is listed and what is not.
LEMMA ListAdded ==
    ASSUME TypeInv, ListInv, NEW t \in Thread, AddChild(t)
    PROVE  ListInv'
<1>1. /\ Len(stack[t]) > 0 /\ Len(stack[t]) \in Nat
      /\ done'[t] = NoTree /\ files' = files /\ created' = created /\ kind' = kind /\ ns' = ns
      /\ Extended(stack[t], done[t].members, stack'[t])
      /\ \A u \in Thread \ {t} : stack'[u] = stack[u] /\ done'[u] = done[u]
  BY AddFacts DEF indexVars
<1>2. Made' = Made
  BY <1>1 DEF Made
<1>3. ASSUME NEW i \in 1 .. Len(stack'[t])
      PROVE  /\ i \in 1 .. Len(stack[t])
             /\ stack'[t][i].root = stack[t][i].root
             /\ stack'[t][i].members \subseteq stack[t][i].members \cup done[t].members
  BY <1>1 DEF Extended
<1>4. ASSUME NEW u \in Thread, NEW i \in 1 .. Len(stack'[u])
      PROVE  /\ Unlisted(ns', stack'[u][i].root)
             /\ \A o \in stack'[u][i].members \ {stack'[u][i].root} :
                   kind'[o] = "namespace" => ListedOnce(ns', o)
  <2>1. CASE u = t
    BY <1>1, <1>3, <1>4, <2>1 DEF ListInv
  <2>2. CASE u # t
    BY <1>1, <1>4, <2>2 DEF ListInv
  <2> QED
    BY <2>1, <2>2
<1>5. \A u \in Thread : Len(stack'[u]) > 0 => kind'[stack'[u][1].root] = "file"
  <2>0. 1 \in 1 .. Len(stack[t])
    BY <1>1
  <2>1. stack'[t][1].root = stack[t][1].root
    BY <1>1, <2>0 DEF Extended
  <2> QED
    BY <1>1, <2>1 DEF ListInv
<1>6. \A u \in Thread : \A o \in done'[u].members : kind'[o] = "namespace" => ListedOnce(ns', o)
  BY <1>1, NoTreeOwnsNothing DEF ListInv
<1>7. /\ \A o \in Object \ Made' : Unlisted(ns', o)
      /\ \A f \in files' : \A o \in f.members : kind'[o] = "namespace" => ListedOnce(ns', o)
  BY <1>1, <1>2 DEF ListInv
<1> QED
  BY <1>4, <1>5, <1>6, <1>7 DEF ListInv

\* The bottom builder of a stack stays what it was when builders above it go.
LEMMA BottomMoved ==
    ASSUME ListInv, TreesMove, TypeInv'
    PROVE  \A u \in Thread : Len(stack'[u]) > 0 => kind'[stack'[u][1].root] = "file"
<1>1. ASSUME NEW u \in Thread, Len(stack'[u]) > 0 PROVE kind'[stack'[u][1].root] = "file"
  <2>1. stack'[u] \in Seq(Tree)
    BY DEF TypeInv, TypeOK
  <2>2. 1 \in 1 .. Len(stack'[u])
    BY <1>1, <2>1
  <2>3. 1 \in 1 .. Len(stack[u]) /\ stack'[u][1] = stack[u][1] /\ kind' = kind
    BY <2>2 DEF TreesMove
  <2> QED
    BY <2>3 DEF ListInv
<1> QED
  BY <1>1

\* Trees that only move keep what is listed and what is not.
LEMMA ListMoved ==
    ASSUME TypeInv, TypeInv', OwnInv, ListInv, TreesMove, ns' = ns,
           \A t \in Thread : done'[t] \in {done[t], NoTree}
    PROVE  ListInv'
<1>1. Made' = Made /\ kind' = kind
  BY DEF TreesMove, Made
<1>2. \A u \in Thread : \A i \in 1 .. Len(stack'[u]) :
          /\ Unlisted(ns', stack'[u][i].root)
          /\ \A o \in stack'[u][i].members \ {stack'[u][i].root} :
                kind'[o] = "namespace" => ListedOnce(ns', o)
  BY <1>1 DEF ListInv, TreesMove
<1>3. \A u \in Thread : \A o \in done'[u].members : kind'[o] = "namespace" => ListedOnce(ns', o)
  BY <1>1, NoTreeOwnsNothing DEF ListInv
<1>4. ASSUME NEW f \in files', NEW o \in f.members, kind[o] = "namespace" PROVE ListedOnce(ns, o)
  <2>1. CASE f \in files
    BY <1>4, <2>1 DEF ListInv
  <2>2. ASSUME NEW t \in Thread, Deliver(t), f.members = Top(t).members PROVE ListedOnce(ns, o)
    <3>1. stack[t] \in Seq(Tree) /\ Len(stack[t]) = 1
      BY <2>2 DEF Deliver, OwnInv, Locals, TypeInv, TypeOK
    <3>2. 1 \in 1 .. Len(stack[t]) /\ Top(t) = stack[t][1]
      BY <3>1 DEF Top, Last
    <3>3. kind[stack[t][1].root] = "file"
      BY <3>1 DEF ListInv
    <3>4. o \in stack[t][1].members \ {stack[t][1].root}
      BY <1>4, <2>2, <3>2, <3>3
    <3> QED
      BY <1>4, <3>2, <3>4 DEF ListInv
  <2> QED
    BY <2>1, <2>2 DEF TreesMove
<1>5. \A o \in Object \ Made' : Unlisted(ns', o)
  BY <1>1 DEF ListInv
<1> QED
  BY <1>1, <1>2, <1>3, <1>4, <1>5, BottomMoved DEF ListInv

\* The step that hands an entity over lists it if it is a namespace.
LEMMA ListClosed ==
    ASSUME TypeInv, TypeInv', OwnInv, ParentInv, ListInv, NEW t \in Thread,
           Closes(t), Lists(t), TreesMove
    PROVE  ListInv'
<1>0. TypeOK /\ IndexTypeOK
  BY DEF TypeInv, TypeOK
<1>1. /\ stack[t] \in Seq(Tree) /\ Len(stack[t]) > 1 /\ Len(stack[t]) \in Nat /\ done[t] = NoTree
      /\ Top(t) = stack[t][Len(stack[t])] /\ Top(t) \in Tree
      /\ done'[t].root = Top(t).root /\ done'[t].members = Top(t).members
      /\ Len(stack'[t]) = Len(stack[t]) - 1
      /\ \A i \in 1 .. Len(stack'[t]) : i \in 1 .. Len(stack[t]) /\ stack'[t][i] = stack[t][i]
      /\ \A u \in Thread \ {t} : stack'[u] = stack[u] /\ done'[u] = done[u]
  BY CloseFacts
<1>2. kind' = kind /\ Made' = Made /\ files' = files
  BY DEF Closes, TreesMove, Made
<1>3. PICK x \in Object : x = Top(t).root
  BY <1>1 DEF Tree
<1>4. Len(stack[t]) \in 1 .. Len(stack[t]) /\ \A i \in 1 .. Len(stack'[t]) : i # Len(stack[t])
  BY <1>1
<1>5. x \in Top(t).members /\ Unlisted(ns, x)
  BY <1>1, <1>3, <1>4 DEF ParentInv, Rooted, ListInv
\* no other tree holds x
<1>6. /\ x \in Made
      /\ \A u \in Thread : \A i \in 1 .. Len(stack'[u]) : x \notin stack'[u][i].members
      /\ \A u \in Thread \ {t} : x \notin done[u].members
      /\ \A f \in files : x \notin f.members
  <2>1. x \in Made
    BY <1>0, <1>1, <1>4, <1>5, TreesApart
  <2>2. \A i \in 1 .. Len(stack'[t]) : x \notin stack'[t][i].members
    BY <1>0, <1>1, <1>4, <1>5, TreesApart
  <2>0. /\ \A u \in Thread \ {t} : x \notin Owned(stack[u], done[u])
        /\ \A f \in files : x \notin f.members
    <3>1. Alone
      BY <1>0, AloneMeaning DEF OwnInv
    <3>2. x \in Owned(stack[t], done[t])
      BY <1>1, <1>4, <1>5, OwnedMeaning
    <3> QED
      BY <3>1, <3>2 DEF Alone
  <2>3. ASSUME NEW u \in Thread \ {t}
        PROVE  /\ \A i \in 1 .. Len(stack[u]) : x \notin stack[u][i].members
               /\ x \notin done[u].members
    <3>1. x \notin Owned(stack[u], done[u])
      BY <2>0, <2>3
    <3>2. stack[u] \in Seq(Tree) /\ done[u] \in Tree \cup {NoTree}
      BY <1>0, <2>3 DEF TypeOK
    <3> QED
      BY <3>1, <3>2, OwnedMeaning
  <2> QED
    BY <1>1, <2>0, <2>1, <2>2, <2>3
<1>7. /\ \A o : o # x /\ Unlisted(ns, o) => Unlisted(ns', o)
      /\ \A o : o # x /\ ListedOnce(ns, o) => ListedOnce(ns', o)
      /\ kind[x] = "namespace" => ListedOnce(ns', x)
  <2>1. CASE kind[x] # "namespace" /\ ns' = ns
    BY <2>1
  <2>2. CASE \E id \in Id : RegisterNamespace(id, x)
    <3>1. PICK id \in Id : RegisterNamespace(id, x)
      BY <2>2
    <3>2. ns \in [Id -> Seq(Object)] /\ ns' = [ns EXCEPT ![id] = Append(@, x)]
      BY <1>0, <3>1 DEF RegisterNamespace, IndexTypeOK
    <3>3. PICK lists \in [Id -> Seq(Object)] : lists = ns
      BY <3>2
    <3>4. PICK more : more = ns'
      OBVIOUS
    <3>5. more[id] = Append(lists[id], x) /\ \A jd \in Id \ {id} : more[jd] = lists[jd]
      BY <3>2, <3>3, <3>4
    <3>6. /\ \A o : o # x /\ Unlisted(lists, o) => Unlisted(more, o)
          /\ \A o : o # x /\ ListedOnce(lists, o) => ListedOnce(more, o)
          /\ Unlisted(lists, x) => ListedOnce(more, x)
      BY <3>5, ListAppend
    <3> QED
      BY <1>5, <3>3, <3>4, <3>6
  <2> QED
    BY <1>3, <2>1, <2>2 DEF Lists
<1>8. ASSUME NEW u \in Thread, NEW i \in 1 .. Len(stack'[u])
      PROVE  /\ Unlisted(ns', stack'[u][i].root)
             /\ \A o \in stack'[u][i].members \ {stack'[u][i].root} :
                   kind'[o] = "namespace" => ListedOnce(ns', o)
  <2>1. /\ i \in 1 .. Len(stack[u]) /\ stack'[u][i] = stack[u][i]
        /\ x \notin stack[u][i].members /\ stack[u][i].root \in stack[u][i].members
    BY <1>6, <1>8 DEF TreesMove, ParentInv, Rooted
  <2> QED
    BY <1>2, <1>7, <2>1 DEF ListInv
<1>9. ASSUME NEW u \in Thread, NEW o \in done'[u].members, kind[o] = "namespace" PROVE ListedOnce(ns', o)
  <2>1. CASE u = t
    <3>1. o \in Top(t).members
      BY <1>1, <1>9, <2>1
    <3>2. CASE o = x
      BY <1>7, <1>9, <3>2
    <3>3. CASE o # x
      <4>1. PICK n : n \in 1 .. Len(stack[t]) /\ Top(t) = stack[t][n]
        BY <1>1, <1>4
      <4>2. o \in stack[t][n].members \ {stack[t][n].root}
        BY <1>3, <3>1, <3>3, <4>1
      <4>3. ListedOnce(ns, o)
        BY <1>9, <4>1, <4>2 DEF ListInv
      <4> QED
        BY <1>7, <3>3, <4>3
    <3> QED
      BY <3>2, <3>3
  <2>2. CASE u # t
    BY <1>1, <1>6, <1>7, <1>9, <2>2 DEF ListInv
  <2> QED
    BY <2>1, <2>2
<1>10. \A f \in files' : \A o \in f.members : kind'[o] = "namespace" => ListedOnce(ns', o)
  BY <1>2, <1>6, <1>7 DEF ListInv
<1>11. \A o \in Object \ Made' : Unlisted(ns', o)
  BY <1>2, <1>6, <1>7 DEF ListInv
<1> QED
  BY <1>2, <1>8, <1>9, <1>10, <1>11, BottomMoved DEF ListInv

\* ListInv is inductive with OwnInv and ParentInv.
LEMMA NextList == TypeInv /\ TypeInv' /\ OwnInv /\ ParentInv /\ ListInv /\ [Next]_vars => ListInv'
<1> SUFFICES ASSUME TypeInv, TypeInv', OwnInv, ParentInv, ListInv, [Next]_vars PROVE ListInv'
  OBVIOUS
<1>1. ASSUME NEW t \in Thread,
             \/ OpenFile(t)
             \/ \E k \in {"namespace", "plain"} : BeginEntity(t, k)
             \/ \E k \in {"template", "friend"} : WrapEntity(t, k)
      PROVE  ListInv'
  <2>1. PICK k \in Kind, w \in Tree : Opens(t, k, w)
    BY <1>1, OpenSteps
  <2>2. ns' = ns
    BY <1>1 DEF OpenFile, BeginEntity, WrapEntity, indexVars
  <2>3. CASE Len(stack[t]) # 0
    BY <2>1, <2>2, <2>3, ListOpened
  <2>4. CASE OpenFile(t)
    <3>1. PICK w1 \in Tree : Opens(t, "file", w1)
      BY <2>4, OpenFileOpens
    <3>2. "file" \in Kind
      BY DEF Kind
    <3> QED
      BY <2>2, <3>1, <3>2, ListOpened
  <2>5. phase[t] = "visit" => Len(stack[t]) # 0
    BY DEF TypeInv, Shape
  <2> QED
    BY <1>1, <2>3, <2>4, <2>5 DEF BeginEntity, WrapEntity, Visiting
<1> QED
  BY <1>1, MoveSteps, ListMoved, ListClosed, ListAdded

\* A namespace block is listed when its builder is finished and never again.
THEOREM ListInvariant == Spec => []ListInv
<1>1. Init => ListInv
  <2>1. Init => \A t \in Thread : stack[t] = <<>> /\ Len(stack[t]) = 0 /\ done[t] = NoTree
    BY DEF Init
  <2>2. Init => files = {} /\ \A id \in Id : ns[id] = <<>> /\ 1 .. Len(ns[id]) = {}
    BY DEF Init, IndexInit, EmptyNs
  <2>3. Init => \A o : Unlisted(ns, o)
    BY <2>2 DEF Unlisted
  <2> QED
    BY <2>1, <2>2, <2>3, NoTreeOwnsNothing DEF ListInv
<1> QED
  BY <1>1, TypeInvariant, OwnInvariant, ParentInvariant, NextList, PTL DEF Spec

\* Every namespace block of a delivered file is in the index once and under one id,
\* whatever blocks the other threads register in the meantime and whatever they destroy.
THEOREM NamespacesListed == Spec => []NamespacesListedOnce
<1>1. ListInv /\ TypeOK => NamespacesListedOnce
  <2> SUFFICES ASSUME ListInv, TypeOK PROVE NamespacesListedOnce
    OBVIOUS
  <2>1. \A id \in Id : DOMAIN ns[id] = 1 .. Len(ns[id])
    BY SeqDomain DEF TypeOK, IndexTypeOK
  <2> QED
    BY <2>1 DEF ListInv, ListedOnce, NamespacesListedOnce
<1> QED
  BY <1>1, ListInvariant, TypeCorrect, PTL
=============================================================================
