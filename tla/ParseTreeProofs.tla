-------------------------- MODULE ParseTreeProofs --------------------------
(***************************************************************************)
(* What a parse leaves behind, whatever the file: entities that form a     *)
(* forest, of which the file is one of the roots; the members of each      *)
(* class in the order of their cursors; and comments that each belong to   *)
(* one entity.                                                             *)
(***************************************************************************)
EXTENDS EntityTree, FiniteSetTheorems, SequenceTheorems, TLAPS

Numbers == INSTANCE FoldProofs WITH Token <- Nat, Op <- +

----------------------------------------------------------------------------
(* InOrder: the elements of a set of numbers, one after the other.         *)

\* How many elements are before k.
Rank(S, k) == Cardinality({j \in S : j < k})

Increasing(s) == \A i, j \in DOMAIN s : i < j => s[i] < s[j]

\* Sets of numbers up to n are finite.
LEMMA NumbersFinite ==
    ASSUME NEW n \in Nat, NEW S \in SUBSET (1 .. n)
    PROVE  IsFiniteSet(S) /\ Cardinality(S) \in Nat
<1>1. IsFiniteSet(1 .. n)
  BY FS_Interval
<1> QED
  BY <1>1, FS_Subset, FS_CardinalityType

\* Whatever is before something is fewer.
LEMMA RankGrows ==
    ASSUME NEW n \in Nat, NEW S \in SUBSET (1 .. n), NEW k \in S, NEW l \in S, k < l
    PROVE  Rank(S, k) < Rank(S, l)
<1> DEFINE A == {j \in S : j < k}
           B == {j \in S : j < l}
<1>0. k \in 1 .. n /\ l \in 1 .. n /\ \A j \in S : j \in 1 .. n
  OBVIOUS
<1>1. A \in SUBSET (1 .. n) /\ B \in SUBSET (1 .. n) /\ k \notin A /\ A \cup {k} \in SUBSET B
  <2>1. k \in B /\ \A j \in A : j \in B
    BY <1>0
  <2>2. k \notin A
    BY <1>0
  <2>3. \A j \in B : j \in S
    OBVIOUS
  <2> HIDE DEF A, B
  <2> QED
    BY <1>0, <2>1, <2>2, <2>3
<1>2. IsFiniteSet(A) /\ IsFiniteSet(B) /\ Cardinality(A) \in Nat /\ Cardinality(B) \in Nat
  BY <1>1, NumbersFinite
<1> HIDE DEF A, B
<1>3. Cardinality(A \cup {k}) = Cardinality(A) + 1 /\ Cardinality(A \cup {k}) <= Cardinality(B)
  BY <1>1, <1>2, FS_AddElement, FS_Subset
<1> QED
  BY <1>2, <1>3 DEF Rank, A, B

\* There is an element for each place.
LEMMA EveryRank ==
    ASSUME NEW n \in Nat, NEW S \in SUBSET (1 .. n), NEW i \in 1 .. Cardinality(S)
    PROVE  \E k \in S : Rank(S, k) = i - 1
<1> DEFINE T == {m \in Nat : \A U \in SUBSET (1 .. m) : \A p \in 1 .. Cardinality(U) : \E k \in U : Rank(U, k) = p - 1}
<1>1. 0 \in T
  <2>1. ASSUME NEW U \in SUBSET (1 .. 0) PROVE Cardinality(U) = 0
    <3>1. U = {}
      OBVIOUS
    <3> QED
      BY <3>1, FS_EmptySet
  <2> QED
    BY <2>1
<1>2. ASSUME NEW m \in T PROVE m + 1 \in T
  <2>1. SUFFICES ASSUME NEW U \in SUBSET (1 .. m + 1), NEW p \in 1 .. Cardinality(U)
                 PROVE  \E k \in U : Rank(U, k) = p - 1
    OBVIOUS
  <2>2. CASE m + 1 \notin U
    <3>1. U \in SUBSET (1 .. m)
      <4>1. \A k \in U : k \in 1 .. m + 1 /\ k # m + 1
        BY <2>2
      <4> QED
        BY <4>1
    <3> QED
      BY <3>1
  <2>3. CASE m + 1 \in U
    <3> DEFINE V == U \ {m + 1}
    <3>1. V \in SUBSET (1 .. m)
      <4>1. \A k \in V : k \in 1 .. m + 1 /\ k # m + 1
        OBVIOUS
      <4> QED
        BY <4>1
    <3>2. IsFiniteSet(V) /\ Cardinality(V) \in Nat
      BY <3>1, NumbersFinite
    <3>3. U = V \cup {m + 1} /\ m + 1 \notin V
      BY <2>3
    <3> HIDE DEF V
    <3>4. Cardinality(U) = Cardinality(V) + 1
      BY <3>2, <3>3, FS_AddElement
    <3>5. CASE p = Cardinality(V) + 1
      <4>1. {j \in U : j < m + 1} = V
        <5>1. \A j \in V : j < m + 1 /\ j \in U
          BY <3>1, <3>3
        <5>2. \A j \in U : j < m + 1 => j \in V
          BY <3>3
        <5> QED
          BY <5>1, <5>2
      <4>2. Rank(U, m + 1) = Cardinality(V)
        BY <4>1 DEF Rank
      <4>3. Rank(U, m + 1) = p - 1
        BY <3>2, <3>5, <4>2
      <4> QED
        BY <2>3, <4>3
    <3>6. CASE p # Cardinality(V) + 1
      <4>1. p \in 1 .. Cardinality(V)
        BY <3>2, <3>4, <3>6
      <4>2. PICK k \in V : Rank(V, k) = p - 1
        BY <3>1, <4>1
      <4>3. {j \in U : j < k} = {j \in V : j < k}
        BY <3>1, <3>3, <4>2
      <4> QED
        BY <3>3, <4>2, <4>3 DEF Rank
    <3> QED
      BY <3>5, <3>6
  <2> QED
    BY <2>2, <2>3
<1> HIDE DEF T
<1>3. T = Nat
  <2>1. T \subseteq Nat
    BY DEF T
  <2> QED
    BY <1>1, <1>2, <2>1, Numbers!NatSetInduction
<1> QED
  BY <1>3 DEF T

\* InOrder lists the elements of a set, each once and in order.
LEMMA InOrderFacts ==
    ASSUME NEW n \in Nat, NEW S \in SUBSET (1 .. n)
    PROVE  /\ InOrder(S) \in Seq(S) /\ Len(InOrder(S)) = Cardinality(S)
           /\ Increasing(InOrder(S))
           /\ \A k \in S : \E i \in DOMAIN InOrder(S) : InOrder(S)[i] = k
<1> DEFINE c == Cardinality(S)
           s == InOrder(S)
<1>1. c \in Nat
  BY NumbersFinite
<1> HIDE DEF c
<1>2. s = [i \in 1 .. c |-> CHOOSE k \in S : Rank(S, k) = i - 1]
  BY DEF InOrder, Rank, c
<1>3. \A i \in 1 .. c : s[i] \in S /\ Rank(S, s[i]) = i - 1
  BY <1>2, EveryRank DEF c
<1> HIDE DEF s
<1>4. s \in Seq(S) /\ Len(s) = c /\ DOMAIN s = 1 .. c
  BY <1>1, <1>2, <1>3
<1>5. Increasing(s)
  <2>1. SUFFICES ASSUME NEW i \in 1 .. c, NEW j \in 1 .. c, i < j, ~ (s[i] < s[j]) PROVE FALSE
    BY <1>4 DEF Increasing
  <2>2. s[i] \in 1 .. n /\ s[j] \in 1 .. n /\ Rank(S, s[i]) = i - 1 /\ Rank(S, s[j]) = j - 1
    BY <1>3
  <2>3. s[j] < s[i]
    BY <1>1, <2>1, <2>2
  <2>4. Rank(S, s[j]) < Rank(S, s[i])
    BY <1>3, <2>3, RankGrows
  <2> QED
    BY <1>1, <2>1, <2>2, <2>4
<1>6. \A k \in S : \E i \in DOMAIN s : s[i] = k
  <2>1. SUFFICES ASSUME NEW k \in S PROVE \E i \in 1 .. c : s[i] = k
    BY <1>4
  <2> DEFINE A == {j \in S : j < k}
  <2>2. A \in SUBSET (1 .. n) /\ A \cup {k} \in SUBSET S /\ k \notin A
    <3>1. k \in 1 .. n /\ ~ (k < k)
      OBVIOUS
    <3>2. k \notin A
      BY <3>1
    <3>3. \A j \in A : j \in S
      OBVIOUS
    <3>4. \A j \in S : j \in 1 .. n
      OBVIOUS
    <3> HIDE DEF A
    <3> QED
      BY <3>2, <3>3, <3>4
  <2> HIDE DEF A
  <2>3. IsFiniteSet(S) /\ IsFiniteSet(A) /\ Cardinality(A) \in Nat
    BY <2>2, NumbersFinite
  <2>4. Cardinality(A \cup {k}) = Cardinality(A) + 1 /\ Cardinality(A \cup {k}) <= c
    BY <2>2, <2>3, FS_AddElement, FS_Subset DEF c
  <2>5. Rank(S, k) + 1 \in 1 .. c
    BY <1>1, <2>3, <2>4 DEF Rank, A
  <2>6. s[Rank(S, k) + 1] \in S /\ Rank(S, s[Rank(S, k) + 1]) = Rank(S, k)
    BY <1>3, <2>3, <2>5 DEF Rank, A
  <2>7. s[Rank(S, k) + 1] = k
    <3>1. \A a, b \in S : a < b => Rank(S, a) # Rank(S, b)
      <4>1. TAKE a, b \in S
      <4>2. Rank(S, a) \in Nat /\ Rank(S, b) \in Nat
        <5>1. {j \in S : j < a} \in SUBSET (1 .. n) /\ {j \in S : j < b} \in SUBSET (1 .. n)
          OBVIOUS
        <5> QED
          BY <5>1, NumbersFinite DEF Rank
      <4>3. a < b => Rank(S, a) < Rank(S, b)
        BY RankGrows
      <4> QED
        BY <4>2, <4>3
    <3>2. PICK l \in S : l = s[Rank(S, k) + 1]
      BY <2>6
    <3>3. l \in 1 .. n /\ k \in 1 .. n
      OBVIOUS
    <3> QED
      BY <2>6, <3>1, <3>2, <3>3
  <2> QED
    BY <2>5, <2>7
<1> QED
  BY <1>4, <1>5, <1>6 DEF s, c

----------------------------------------------------------------------------
(* Forests.                                                                *)

\* What may own children: what a visit enters, and friends.
OwnerKinds == VisitedContainers \cup {"friend"}

EntityType ==
    [kind : CursorKinds \cup {"file"}, cursor : Nat, parent : Nat, role : {"child", "base", "parameter"},
     comment : Nat, declares : Id \cup {NoId}]

\* Whoever goes from parent to parent does not go on for ever: no set of entities contains
\* the parent of each.
Grounded(es) == \A S \in SUBSET (DOMAIN es) : (\A e \in S : es[e].parent \in S) => S = {}

Forest(es) ==
    /\ es \in Seq(EntityType)
    /\ Len(es) >= 1 /\ es[1].kind = "file" /\ es[1].parent = 0 /\ es[1].role = "child"
    /\ \A e \in DOMAIN es : es[e].parent \in 0 .. Len(es)
    /\ Grounded(es)

\* An entity is made from a cursor of its kind; what is in a template, from that of the
\* template.
Made(cs, r) ==
    \/ r.kind = "file"
    \/ /\ r.cursor \in DOMAIN cs
       /\ \/ r.kind = cs[r.cursor].kind
          \/ r.kind = "class" /\ cs[r.cursor].kind \in ClassKinds
          \/ r.kind = "function" /\ cs[r.cursor].kind \in FunctionTemplateKinds

\* What an entity may own: children if it is a container or a friend, bases and access
\* specifiers if it is a class, parameters if it is a template, but no full specialization,
\* or a macro that is used like a function.
Owns(cs, owner, r) ==
    /\ r.role = "child" => owner.kind \in OwnerKinds
    /\ r.role = "base" => owner.kind = "class"
    /\ r.role = "parameter" =>
         \/ owner.kind \in (TemplateKinds \ {"function_specialization"}) \cup {"template_parameter"}
         \/ owner.kind = "macro" /\ cs[owner.cursor].function
    /\ r.kind = "access_specifier" => r.role = "child" /\ owner.kind = "class"

Placed(cs, es) ==
    \A e \in DOMAIN es : Made(cs, es[e]) /\ (es[e].parent # 0 => Owns(cs, es[es[e].parent], es[e]))

----------------------------------------------------------------------------
(* What is above an entity.                                                *)

IsAbove(f) ==
    f = [d \in DOMAIN entities |-> IF Parent(d) = NoObject THEN {} ELSE {Parent(d)} \cup f[Parent(d)]]

\* The definition of Ancestors as a choice.
LEMMA AncestorsChosen == \A e : Ancestors(e) = (CHOOSE f : IsAbove(f))[e]
  BY DEF Ancestors, IsAbove

\* There is such a function: what every set contains that contains the parent, and the
\* parent of each of its elements.
LEMMA AboveExists ==
    ASSUME Forest(entities)
    PROVE  \E f : IsAbove(f)
<1> DEFINE D == DOMAIN entities
           Up(U) == \A u \in U : Parent(u) # 0 => Parent(u) \in U
           Over(d) == {U \in SUBSET D : Up(U) /\ (Parent(d) # 0 => Parent(d) \in U)}
           f == [d \in D |-> {x \in D : \A U \in Over(d) : x \in U}]
<1>1. \A d \in D : Parent(d) \in Nat /\ (Parent(d) # 0 => Parent(d) \in D)
  BY DEF Forest, Parent
<1>2. ASSUME NEW d \in D PROVE f[d] = IF Parent(d) = 0 THEN {} ELSE {Parent(d)} \cup f[Parent(d)]
  <2>1. CASE Parent(d) = 0
    <3>1. {} \in Over(d)
      BY <2>1
    <3> QED
      BY <2>1, <3>1
  <2>2. CASE Parent(d) # 0
    <3> DEFINE p == Parent(d)
    <3>1. p \in D
      BY <1>1, <2>2
    <3>2. ASSUME NEW x \in f[d] PROVE x \in {p} \cup f[p]
      <4>1. {p} \cup f[p] \in SUBSET D
        BY <3>1
      <4>2. ASSUME NEW u \in {p} \cup f[p], Parent(u) # 0 PROVE Parent(u) \in f[p]
        <5>0. u \in D /\ Parent(u) \in D
          BY <1>1, <4>1, <4>2
        <5>1. SUFFICES ASSUME NEW U \in Over(p) PROVE Parent(u) \in U
          BY <3>1, <5>0
        <5>2. CASE u = p
          BY <4>2, <5>1, <5>2
        <5>3. CASE u \in f[p]
          <6>1. u \in U
            BY <3>1, <5>1, <5>3
          <6> QED
            BY <4>2, <5>1, <6>1
        <5> QED
          BY <5>2, <5>3
      <4>3. {p} \cup f[p] \in Over(d)
        BY <4>1, <4>2
      <4> QED
        BY <3>2, <4>3
    <3>3. ASSUME NEW x \in {p} \cup f[p] PROVE x \in f[d]
      <4>0. x \in D
        BY <3>1
      <4>1. SUFFICES ASSUME NEW U \in Over(d) PROVE x \in U
        BY <4>0
      <4>2. p \in U /\ Up(U) /\ U \in SUBSET D
        BY <2>2
      <4>3. U \in Over(p)
        BY <4>2
      <4> QED
        BY <3>1, <3>3, <4>2, <4>3
    <3> HIDE DEF f
    <3> QED
      BY <2>2, <3>2, <3>3
  <2> QED
    BY <2>1, <2>2
<1>3. f = [d \in D |-> IF Parent(d) = 0 THEN {} ELSE {Parent(d)} \cup f[Parent(d)]]
  <2>1. f = [d \in D |-> f[d]]
    OBVIOUS
  <2> HIDE DEF f
  <2> QED
    BY <1>2, <2>1
<1> HIDE DEF f
<1> QED
  BY <1>3, ParserAssumption DEF IsAbove

\* What is above an entity: its parent, and what is above that.
LEMMA AncestorsEquation ==
    ASSUME Forest(entities), NEW e \in DOMAIN entities
    PROVE  Ancestors(e) = IF Parent(e) = 0 THEN {} ELSE {Parent(e)} \cup Ancestors(Parent(e))
<1> DEFINE f == CHOOSE g : IsAbove(g)
<1>1. IsAbove(f)
  BY AboveExists
<1>2. \A d : Ancestors(d) = f[d]
  BY AncestorsChosen
<1> HIDE DEF f
<1>3. PICK g : g = [d \in DOMAIN entities |-> IF Parent(d) = NoObject THEN {} ELSE {Parent(d)} \cup f[Parent(d)]]
  OBVIOUS
<1>4. f = g
  BY <1>1, <1>3 DEF IsAbove
<1>5. g[e] = IF Parent(e) = NoObject THEN {} ELSE {Parent(e)} \cup f[Parent(e)]
  BY <1>3
<1> QED
  BY <1>2, <1>4, <1>5, ParserAssumption

\* The types of what the lemmas below are about.
LEMMA AncestorsType ==
    ASSUME Forest(entities), NEW e \in DOMAIN entities
    PROVE  /\ Parent(e) \in Nat /\ (Parent(e) # 0 => Parent(e) \in DOMAIN entities)
           /\ Ancestors(e) \subseteq DOMAIN entities
<1>1. \A d \in DOMAIN entities : Parent(d) \in Nat /\ (Parent(d) # 0 => Parent(d) \in DOMAIN entities)
  BY DEF Forest, Parent
<1> DEFINE S == {d \in DOMAIN entities : ~ (Ancestors(d) \subseteq DOMAIN entities)}
<1>2. ASSUME NEW d \in S PROVE Parent(d) \in S
  BY <1>1, AncestorsEquation
<1>3. S = {}
  <2>1. S \in SUBSET (DOMAIN entities) /\ \A d \in S : entities[d].parent \in S
    BY <1>2 DEF Parent
  <2> HIDE DEF S
  <2> QED
    BY <2>1 DEF Forest, Grounded
<1> QED
  BY <1>1, <1>3

\* What is above something that is above, is above.
LEMMA AncestorsTransitive ==
    ASSUME Forest(entities), NEW e \in DOMAIN entities, NEW a \in Ancestors(e)
    PROVE  Ancestors(a) \subseteq Ancestors(e)
<1> DEFINE S == {d \in DOMAIN entities : \E b \in Ancestors(d) : ~ (Ancestors(b) \subseteq Ancestors(d))}
<1>1. ASSUME NEW d \in S PROVE Parent(d) \in S
  <2>1. Parent(d) # 0 /\ Parent(d) \in DOMAIN entities /\ Ancestors(d) = {Parent(d)} \cup Ancestors(Parent(d))
    BY AncestorsEquation, AncestorsType
  <2> QED
    BY <2>1
<1>2. S = {}
  <2>1. S \in SUBSET (DOMAIN entities) /\ \A d \in S : entities[d].parent \in S
    BY <1>1 DEF Parent
  <2> HIDE DEF S
  <2> QED
    BY <2>1 DEF Forest, Grounded
<1> QED
  BY <1>2

\* Nothing is above itself.
LEMMA AncestorsIrreflexive ==
    ASSUME Forest(entities), NEW e \in DOMAIN entities
    PROVE  e \notin Ancestors(e)
<1> DEFINE S == {d \in DOMAIN entities : d \in Ancestors(d)}
<1>1. ASSUME NEW d \in S PROVE Parent(d) \in S
  <2>1. Parent(d) # 0 /\ Parent(d) \in DOMAIN entities /\ Ancestors(d) = {Parent(d)} \cup Ancestors(Parent(d))
    BY AncestorsEquation, AncestorsType
  <2>2. CASE d = Parent(d)
    BY <2>1, <2>2
  <2>3. CASE d \in Ancestors(Parent(d))
    BY <2>1, <2>3, AncestorsTransitive
  <2> QED
    BY <2>1, <2>2, <2>3
<1>2. S = {}
  <2>1. S \in SUBSET (DOMAIN entities) /\ \A d \in S : entities[d].parent \in S
    BY <1>1 DEF Parent
  <2> HIDE DEF S
  <2> QED
    BY <2>1 DEF Forest, Grounded
<1> QED
  BY <1>2

\* An entity and all above it.
Line(e) == {e} \cup Ancestors(e)

\* Of what is above an entity, the entity or something above it is the child.
LEMMA ChildOnTheWay ==
    ASSUME Forest(entities), NEW e \in DOMAIN entities, NEW a \in Ancestors(e)
    PROVE  \E d \in Line(e) : d \in DOMAIN entities /\ Parent(d) = a
<1> DEFINE S == {d \in DOMAIN entities : \E b \in Ancestors(d) : \A c \in Line(d) : Parent(c) # b}
<1>1. ASSUME NEW d \in S PROVE Parent(d) \in S
  <2>1. Parent(d) # 0 /\ Parent(d) \in DOMAIN entities /\ Ancestors(d) = {Parent(d)} \cup Ancestors(Parent(d))
    BY AncestorsEquation, AncestorsType
  <2>2. PICK b \in Ancestors(d) : \A c \in Line(d) : Parent(c) # b
    OBVIOUS
  <2>3. b \in Ancestors(Parent(d)) /\ \A c \in Line(Parent(d)) : Parent(c) # b
    BY <2>1, <2>2 DEF Line
  <2> QED
    BY <2>1, <2>3
<1>2. S = {}
  <2>1. S \in SUBSET (DOMAIN entities) /\ \A d \in S : entities[d].parent \in S
    BY <1>1 DEF Parent
  <2> HIDE DEF S
  <2> QED
    BY <2>1 DEF Forest, Grounded
<1>3. Line(e) \subseteq DOMAIN entities
  BY AncestorsType DEF Line
<1> QED
  BY <1>2, <1>3

\* Of siblings only one is above, or is, an entity.
LEMMA OneSibling ==
    ASSUME Forest(entities), NEW e \in DOMAIN entities, NEW a \in Line(e), NEW b \in Line(e),
           Parent(a) = Parent(b), Parent(a) # 0
    PROVE  a = b
<1> DEFINE S == {d \in DOMAIN entities : \E x, y \in Line(d) : Parent(x) = Parent(y) /\ Parent(x) # 0 /\ x # y}
<1>0. ASSUME NEW d \in DOMAIN entities, NEW y \in Ancestors(d), Parent(y) = Parent(d), Parent(d) # 0 PROVE FALSE
  <2>1. Parent(d) \in DOMAIN entities /\ Ancestors(d) = {Parent(d)} \cup Ancestors(Parent(d))
        /\ y \in DOMAIN entities /\ Parent(d) \in Ancestors(y)
    BY <1>0, AncestorsEquation, AncestorsType
  <2>2. Ancestors(y) \subseteq Ancestors(Parent(d))
    <3>1. CASE y = Parent(d)
      BY <3>1
    <3>2. CASE y \in Ancestors(Parent(d))
      BY <2>1, <3>2, AncestorsTransitive
    <3> QED
      BY <2>1, <3>1, <3>2
  <2> QED
    BY <2>1, <2>2, AncestorsIrreflexive
<1>1. ASSUME NEW d \in S PROVE Parent(d) \in S
  <2>1. PICK x, y \in Line(d) : Parent(x) = Parent(y) /\ Parent(x) # 0 /\ x # y
    OBVIOUS
  <2>2. x # d /\ y # d
    BY <2>1, <1>0 DEF Line
  <2>3. Parent(d) # 0 /\ Parent(d) \in DOMAIN entities /\ Ancestors(d) = {Parent(d)} \cup Ancestors(Parent(d))
    BY <2>1, <2>2, AncestorsEquation, AncestorsType DEF Line
  <2> QED
    BY <2>1, <2>2, <2>3 DEF Line
<1>2. S = {}
  <2>1. S \in SUBSET (DOMAIN entities) /\ \A d \in S : entities[d].parent \in S
    BY <1>1 DEF Parent
  <2> HIDE DEF S
  <2> QED
    BY <2>1 DEF Forest, Grounded
<1> QED
  BY <1>2

----------------------------------------------------------------------------
(* The calls under way, of which each holds an entity that no one owns yet. *)

FrameKinds == {"file", "linkage", "namespace", "enum", "class", "template", "template_parameter", "friend"}

\* The calls that parse parameters and nothing else.
OfParameters == {"template", "template_parameter"}

FrameType ==
    [kind : FrameKinds, cursor : Nat, entity : Nat, todo : Seq(Nat), comment : Nat,
     holds : SUBSET {"namespace", "instantiation", "type"}]

\* A call is for a cursor of its kind.
CursorFits(cs, f) ==
    \/ f.kind = "file" /\ f.cursor = 0
    \/ /\ f.kind # "file" /\ f.cursor \in DOMAIN cs
       /\ f.kind = "class" => cs[f.cursor].kind \in ClassKinds
       /\ f.kind = "template" => cs[f.cursor].kind \in TemplateKinds
       /\ f.kind \notin {"class", "template"} => cs[f.cursor].kind = f.kind

\* It visits cursors below its own.
FrameOK(cs, f) ==
    /\ f \in FrameType /\ CursorFits(cs, f)
    /\ \A m \in DOMAIN f.todo :
         /\ f.todo[m] \in DOMAIN cs /\ cs[f.todo[m]].parent = f.cursor
         /\ f.kind \in OfParameters => cs[f.todo[m]].kind \in ParameterKinds

\* A call makes calls for the cursors below its own, and a call of parameters for parameters.
Calling(cs, f, g) ==
    /\ cs[g.cursor].parent = f.cursor
    /\ g.kind = "template_parameter" <=> f.kind \in OfParameters

StackOK(cs, fs) ==
    /\ fs \in Seq(FrameType) /\ Len(fs) >= 1 /\ fs[1].entity = 1
    /\ \A n \in DOMAIN fs :
         /\ FrameOK(cs, fs[n])
         /\ fs[n].kind = "file" <=> n = 1
         /\ n # 1 => Calling(cs, fs[n - 1], fs[n])

\* The entity of a call is of its kind, and made from its cursor.
EntityFits(es, f) ==
    /\ f.kind \in {"file", "linkage", "namespace", "enum", "class", "template_parameter"} => es[f.entity].kind = f.kind
    /\ f.kind = "template" => es[f.entity].kind \in TemplateKinds
    /\ f.kind # "friend" => es[f.entity].cursor = f.cursor
    /\ f.entity # 0 =>
         /\ es[f.entity].role = (IF f.kind = "template_parameter" THEN "parameter" ELSE "child")
         /\ es[f.entity].kind # "access_specifier"

\* No two calls hold the same entity, and what they hold has no parent.
Held(es, fs) ==
    /\ \A n \in DOMAIN fs :
         /\ fs[n].entity = 0 => fs[n].kind = "friend"
         /\ fs[n].entity # 0 => fs[n].entity \in DOMAIN es /\ es[fs[n].entity].parent = 0
         /\ EntityFits(es, fs[n])
    /\ \A m, n \in DOMAIN fs : m # n /\ fs[m].entity # 0 => fs[m].entity # fs[n].entity

\* An entity that no one holds, and no one owns.
Free(es, fs, e) ==
    e \in DOMAIN es /\ es[e].parent = 0 /\ \A n \in DOMAIN fs : fs[n].entity # e

----------------------------------------------------------------------------
(* Entities are added, linked and changed.                                 *)

\* One element of a sequence is changed.
LEMMA ChangedSeq ==
    ASSUME NEW T, NEW s \in Seq(T), NEW i \in DOMAIN s, NEW x \in T
    PROVE  LET t == [s EXCEPT ![i] = x]
           IN /\ t \in Seq(T) /\ Len(t) = Len(s) /\ DOMAIN t = DOMAIN s
              /\ t[i] = x /\ \A j \in DOMAIN s : j # i => t[j] = s[j]
  OBVIOUS

\* One element is added.
LEMMA AppendedSeq ==
    ASSUME NEW T, NEW s \in Seq(T), NEW x \in T
    PROVE  LET t == Append(s, x)
           IN /\ Len(s) \in Nat /\ t \in Seq(T) /\ Len(t) = Len(s) + 1 /\ DOMAIN t = 1 .. Len(s) + 1
              /\ t[Len(s) + 1] = x /\ \A j \in 1 .. Len(s) : t[j] = s[j]
  OBVIOUS

\* A new entity, with an older parent or with none.
LEMMA AddedForest ==
    ASSUME NEW es, Forest(es), NEW r \in EntityType, r.parent \in 0 .. Len(es)
    PROVE  Forest(Append(es, r))
<1> DEFINE fs == Append(es, r)
           n == Len(es) + 1
<1>1. /\ es \in Seq(EntityType) /\ Len(es) \in Nat /\ Len(es) >= 1 /\ DOMAIN es = 1 .. Len(es)
      /\ fs \in Seq(EntityType) /\ Len(fs) = n /\ DOMAIN fs = 1 .. n
      /\ fs[n] = r /\ \A e \in 1 .. Len(es) : fs[e] = es[e]
  BY DEF Forest
<1> HIDE DEF fs
<1>2. fs[1].kind = "file" /\ fs[1].parent = 0 /\ fs[1].role = "child"
  BY <1>1 DEF Forest
<1>3. ASSUME NEW e \in DOMAIN fs PROVE fs[e].parent \in 0 .. Len(fs)
  <2>1. CASE e = n
    BY <1>1, <2>1
  <2>2. CASE e # n
    <3>1. e \in DOMAIN es /\ fs[e] = es[e]
      BY <1>1, <2>2
    <3>2. es[e].parent \in 0 .. Len(es)
      BY <3>1 DEF Forest
    <3> QED
      BY <1>1, <3>1, <3>2
  <2> QED
    BY <2>1, <2>2
<1>4. Grounded(fs)
  <2>1. SUFFICES ASSUME NEW S \in SUBSET (DOMAIN fs), \A e \in S : fs[e].parent \in S PROVE S = {}
    BY DEF Grounded
  <2>2. CASE n \in S
    <3> DEFINE U == S \ {n}
    <3>1. U \in SUBSET (DOMAIN es)
      BY <1>1
    <3>2. \A e \in U : es[e].parent \in U
      <4>1. TAKE e \in U
      <4>2. e \in DOMAIN es /\ fs[e] = es[e] /\ es[e].parent \in 0 .. Len(es)
        BY <1>1, <3>1 DEF Forest
      <4> QED
        BY <1>1, <2>1, <4>2
    <3>3. U = {}
      <4> HIDE DEF U
      <4> QED
        BY <3>1, <3>2 DEF Forest, Grounded
    <3>4. r.parent \in S /\ r.parent # n
      BY <1>1, <2>1, <2>2
    <3> QED
      BY <3>3, <3>4
  <2>3. CASE n \notin S
    <3>1. S \in SUBSET (DOMAIN es)
      BY <1>1, <2>3
    <3>2. \A e \in S : es[e].parent \in S
      BY <1>1, <2>1, <3>1
    <3> QED
      BY <3>1, <3>2 DEF Forest, Grounded
  <2> QED
    BY <2>2, <2>3
<1> QED
  BY <1>1, <1>2, <1>3, <1>4 DEF Forest, fs

\* It is placed if the parent may own it.
LEMMA AddedPlaced ==
    ASSUME NEW cs, NEW es, Forest(es), Placed(cs, es), NEW r \in EntityType, r.parent \in 0 .. Len(es),
           Made(cs, r), r.parent # 0 => Owns(cs, es[r.parent], r)
    PROVE  Placed(cs, Append(es, r))
<1> DEFINE fs == Append(es, r)
           n == Len(es) + 1
<1>1. /\ Len(es) \in Nat /\ DOMAIN es = 1 .. Len(es) /\ \A e \in DOMAIN es : es[e].parent \in 0 .. Len(es)
      /\ DOMAIN fs = 1 .. n /\ fs[n] = r /\ \A e \in 1 .. Len(es) : fs[e] = es[e]
  BY DEF Forest
<1> HIDE DEF fs
<1>2. \A p \in 0 .. Len(es) : p # 0 => fs[p] = es[p]
  BY <1>1
<1>3. \A e \in DOMAIN fs : e # n => e \in DOMAIN es /\ fs[e] = es[e] /\ es[e].parent \in 0 .. Len(es)
  BY <1>1
<1> HIDE DEF n
<1>4. ASSUME NEW e \in DOMAIN fs PROVE Made(cs, fs[e]) /\ (fs[e].parent # 0 => Owns(cs, fs[fs[e].parent], fs[e]))
  <2>1. CASE e = n
    BY <1>1, <1>2, <2>1
  <2>2. CASE e # n
    <3>1. Made(cs, es[e]) /\ (es[e].parent # 0 => Owns(cs, es[es[e].parent], es[e]))
      BY <1>3, <2>2 DEF Placed
    <3> QED
      BY <1>2, <1>3, <2>2, <3>1
  <2> QED
    BY <2>1, <2>2
<1>5. Placed(cs, fs)
  BY <1>4 DEF Placed
<1> QED
  BY <1>5 DEF fs

\* The calls hold what they held, and not the new entity.
LEMMA AddedHeld ==
    ASSUME NEW es, Forest(es), NEW r \in EntityType, NEW cs, NEW fs, StackOK(cs, fs), Held(es, fs)
    PROVE  /\ Held(Append(es, r), fs)
           /\ r.parent = 0 => Free(Append(es, r), fs, Len(es) + 1)
<1> DEFINE gs == Append(es, r)
<1>1. /\ Len(es) \in Nat /\ DOMAIN es = 1 .. Len(es)
      /\ Len(gs) = Len(es) + 1 /\ DOMAIN gs = 1 .. Len(es) + 1
      /\ gs[Len(es) + 1] = r /\ \A e \in 1 .. Len(es) : gs[e] = es[e]
  BY DEF Forest
<1> HIDE DEF gs
<1>2. \A n \in DOMAIN fs : fs[n].entity # 0 => fs[n].entity \in DOMAIN es /\ gs[fs[n].entity] = es[fs[n].entity]
  BY <1>1 DEF Held
<1>3. \A n \in DOMAIN fs : EntityFits(gs, fs[n])
  BY <1>2 DEF Held, EntityFits
<1>4. Held(gs, fs)
  BY <1>1, <1>2, <1>3 DEF Held
<1>5. r.parent = 0 => Free(gs, fs, Len(es) + 1)
  BY <1>1, <1>2 DEF Free
<1> QED
  BY <1>4, <1>5 DEF gs

\* An entity without parent is given one that has none itself.
LEMMA LinkedForest ==
    ASSUME NEW es, Forest(es), NEW e \in DOMAIN es, NEW p \in DOMAIN es, e # p, e # 1,
           es[e].parent = 0, es[p].parent = 0
    PROVE  Forest([es EXCEPT ![e].parent = p])
<1> DEFINE gs == [es EXCEPT ![e].parent = p]
<1>1. es \in Seq(EntityType) /\ Len(es) \in Nat /\ Len(es) >= 1 /\ DOMAIN es = 1 .. Len(es)
  BY DEF Forest
<1>2. /\ gs \in Seq(EntityType) /\ Len(gs) = Len(es) /\ DOMAIN gs = 1 .. Len(es)
      /\ \A d \in 1 .. Len(es) : d # e => gs[d] = es[d]
      /\ gs[e] = [es[e] EXCEPT !.parent = p]
  <2>1. es[e] \in EntityType /\ p \in Nat
    BY <1>1
  <2>2. [es[e] EXCEPT !.parent = p] \in EntityType
    BY <2>1 DEF EntityType
  <2>3. gs = [es EXCEPT ![e] = [es[e] EXCEPT !.parent = p]]
    OBVIOUS
  <2> QED
    BY <1>1, <2>2, <2>3, ChangedSeq
<1>3. gs[e].parent = p /\ gs[e].kind = es[e].kind /\ gs[e].role = es[e].role
  BY <1>1, <1>2 DEF EntityType
<1> HIDE DEF gs
<1>4. \A d \in 1 .. Len(es) : gs[d].kind = es[d].kind /\ gs[d].role = es[d].role
  BY <1>2, <1>3
<1>5. gs[1].kind = "file" /\ gs[1].parent = 0 /\ gs[1].role = "child"
  BY <1>1, <1>2 DEF Forest
<1>6. ASSUME NEW d \in DOMAIN gs PROVE gs[d].parent \in 0 .. Len(gs)
  <2>0. p \in 0 .. Len(gs)
    BY <1>1, <1>2
  <2>1. CASE d = e
    BY <1>3, <2>0, <2>1
  <2>2. CASE d # e
    <3>1. d \in DOMAIN es /\ gs[d] = es[d]
      BY <1>1, <1>2, <2>2
    <3>2. es[d].parent \in 0 .. Len(es)
      BY <3>1 DEF Forest
    <3> QED
      BY <1>1, <1>2, <3>1, <3>2
  <2> QED
    BY <2>1, <2>2
<1>7. Grounded(gs)
  <2>1. SUFFICES ASSUME NEW S \in SUBSET (DOMAIN gs), \A d \in S : gs[d].parent \in S PROVE S = {}
    BY DEF Grounded
  <2>2. e \notin S
    <3>1. SUFFICES ASSUME e \in S PROVE FALSE
      OBVIOUS
    <3>2. p \in S
      BY <1>3, <2>1, <3>1
    <3>3. gs[p].parent = 0
      BY <1>1, <1>2
    <3> QED
      BY <1>2, <2>1, <3>2, <3>3
  <2>3. S \in SUBSET (DOMAIN es) /\ \A d \in S : es[d].parent \in S
    BY <1>1, <1>2, <2>1, <2>2
  <2> QED
    BY <2>3 DEF Forest, Grounded
<1> QED
  BY <1>1, <1>2, <1>5, <1>6, <1>7 DEF Forest, gs

\* It is placed if the parent may own it.
LEMMA LinkedPlaced ==
    ASSUME NEW cs, NEW es, Forest(es), Placed(cs, es), NEW e \in DOMAIN es, NEW p \in DOMAIN es,
           Owns(cs, es[p], es[e])
    PROVE  Placed(cs, [es EXCEPT ![e].parent = p])
<1> DEFINE gs == [es EXCEPT ![e].parent = p]
<1>1. /\ es \in Seq(EntityType) /\ DOMAIN es = 1 .. Len(es) /\ Len(es) \in Nat
      /\ \A d \in DOMAIN es : es[d].parent \in 0 .. Len(es)
  BY DEF Forest
<1>2. es[e] \in EntityType
  BY <1>1
<1>3. DOMAIN gs = DOMAIN es /\ gs[e] = [es[e] EXCEPT !.parent = p] /\ \A d \in DOMAIN es : d # e => gs[d] = es[d]
  BY <1>1
<1>4. gs[e].parent = p /\ gs[e].kind = es[e].kind /\ gs[e].role = es[e].role /\ gs[e].cursor = es[e].cursor
  BY <1>2, <1>3 DEF EntityType
<1> HIDE DEF gs
<1>5. \A d \in DOMAIN es : gs[d].kind = es[d].kind /\ gs[d].role = es[d].role /\ gs[d].cursor = es[d].cursor
  BY <1>3, <1>4
<1>6. ASSUME NEW d \in DOMAIN gs PROVE Made(cs, gs[d]) /\ (gs[d].parent # 0 => Owns(cs, gs[gs[d].parent], gs[d]))
  <2>1. Made(cs, es[d]) /\ (es[d].parent # 0 => Owns(cs, es[es[d].parent], es[d]))
    BY <1>3 DEF Placed
  <2>2. Made(cs, gs[d])
    BY <1>3, <1>5, <2>1 DEF Made
  <2>3. CASE d = e
    BY <1>4, <1>5, <2>2, <2>3 DEF Owns
  <2>4. CASE d # e
    <3>1. gs[d] = es[d] /\ (es[d].parent # 0 => es[d].parent \in DOMAIN es)
      BY <1>1, <1>3, <2>4
    <3> QED
      BY <1>5, <2>1, <2>2, <3>1 DEF Owns
  <2> QED
    BY <2>3, <2>4
<1>7. Placed(cs, gs)
  BY <1>6 DEF Placed
<1> QED
  BY <1>7 DEF gs

\* The entity that is linked was held by no call.
LEMMA LinkedHeld ==
    ASSUME NEW es, Forest(es), NEW cs, NEW fs, StackOK(cs, fs), Held(es, fs), NEW e, Free(es, fs, e), NEW p
    PROVE  Held([es EXCEPT ![e].parent = p], fs)
<1> DEFINE gs == [es EXCEPT ![e].parent = p]
<1>1. DOMAIN gs = DOMAIN es /\ \A d \in DOMAIN es : d # e => gs[d] = es[d]
  BY DEF Forest
<1> HIDE DEF gs
<1>2. \A n \in DOMAIN fs : fs[n].entity # 0 => fs[n].entity \in DOMAIN es /\ gs[fs[n].entity] = es[fs[n].entity]
  BY <1>1 DEF Held, Free
<1>3. \A n \in DOMAIN fs : EntityFits(gs, fs[n])
  BY <1>2 DEF Held, EntityFits
<1> QED
  BY <1>1, <1>2, <1>3 DEF Held, gs

\* Nothing of the tree depends on comments, nor on what is declared.
SameTree(es, gs) ==
    /\ gs \in Seq(EntityType) /\ DOMAIN gs = DOMAIN es
    /\ \A e \in DOMAIN es :
         gs[e].kind = es[e].kind /\ gs[e].cursor = es[e].cursor /\ gs[e].parent = es[e].parent /\ gs[e].role = es[e].role

\* The same tree is a forest as well.
LEMMA SameForest ==
    ASSUME NEW es, Forest(es), NEW gs, SameTree(es, gs)
    PROVE  Forest(gs) /\ Len(gs) = Len(es)
<1>1. /\ es \in Seq(EntityType) /\ Len(es) \in Nat /\ Len(es) >= 1 /\ DOMAIN es = 1 .. Len(es)
      /\ \A e \in DOMAIN es : es[e].parent \in 0 .. Len(es)
  BY DEF Forest
<1>2. gs \in Seq(EntityType) /\ Len(gs) = Len(es) /\ DOMAIN gs = 1 .. Len(es)
  BY <1>1 DEF SameTree
<1>3. gs[1].kind = "file" /\ gs[1].parent = 0 /\ gs[1].role = "child"
  BY <1>1 DEF Forest, SameTree
<1>4. ASSUME NEW e \in DOMAIN gs PROVE gs[e].parent \in 0 .. Len(gs)
  BY <1>1, <1>2 DEF SameTree
<1>5. Grounded(gs)
  BY <1>1, <1>2 DEF Forest, Grounded, SameTree
<1> QED
  BY <1>1, <1>2, <1>3, <1>4, <1>5 DEF Forest

\* It is placed as it was,
LEMMA SamePlaced ==
    ASSUME NEW cs, NEW es, Forest(es), Placed(cs, es), NEW gs, SameTree(es, gs)
    PROVE  Placed(cs, gs)
<1>1. \A e \in DOMAIN es : es[e].parent # 0 => es[e].parent \in DOMAIN es
  BY DEF Forest
<1>2. ASSUME NEW e \in DOMAIN gs PROVE Made(cs, gs[e]) /\ (gs[e].parent # 0 => Owns(cs, gs[gs[e].parent], gs[e]))
  <2>1. e \in DOMAIN es /\ gs[e].kind = es[e].kind /\ gs[e].cursor = es[e].cursor /\ gs[e].parent = es[e].parent
        /\ gs[e].role = es[e].role
    BY DEF SameTree
  <2>2. Made(cs, es[e]) /\ (es[e].parent # 0 => Owns(cs, es[es[e].parent], es[e]))
    BY <2>1 DEF Placed
  <2>3. Made(cs, gs[e])
    BY <2>1, <2>2 DEF Made
  <2>4. ASSUME gs[e].parent # 0 PROVE Owns(cs, gs[gs[e].parent], gs[e])
    <3> DEFINE p == es[e].parent
    <3>1. p \in DOMAIN es /\ Owns(cs, es[p], es[e])
      BY <1>1, <2>1, <2>2, <2>4
    <3>2. gs[p].kind = es[p].kind /\ gs[p].cursor = es[p].cursor
      BY <3>1 DEF SameTree
    <3> HIDE DEF p
    <3>3. Owns(cs, gs[p], gs[e])
      BY <2>1, <3>1, <3>2 DEF Owns
    <3> QED
      BY <2>1, <3>3 DEF p
  <2> QED
    BY <2>3, <2>4
<1> QED
  BY <1>2 DEF Placed

\* and held as it was.
LEMMA SameHeld ==
    ASSUME NEW es, NEW gs, SameTree(es, gs), NEW fs
    PROVE  /\ Held(es, fs) => Held(gs, fs)
           /\ \A e : Free(es, fs, e) => Free(gs, fs, e)
<1>1. ASSUME Held(es, fs) PROVE Held(gs, fs)
  <2>1. \A n \in DOMAIN fs : fs[n].entity # 0 =>
          /\ fs[n].entity \in DOMAIN gs /\ gs[fs[n].entity].kind = es[fs[n].entity].kind
          /\ gs[fs[n].entity].parent = 0 /\ gs[fs[n].entity].role = es[fs[n].entity].role
          /\ gs[fs[n].entity].cursor = es[fs[n].entity].cursor
    BY <1>1 DEF Held, SameTree
  <2>2. \A n \in DOMAIN fs : EntityFits(gs, fs[n])
    BY <1>1, <2>1 DEF Held, EntityFits
  <2> QED
    BY <1>1, <2>1, <2>2 DEF Held
<1>2. \A e : Free(es, fs, e) => Free(gs, fs, e)
  BY DEF Free, SameTree
<1> QED
  BY <1>1, <1>2

\* A comment is given to an entity, or taken away.
LEMMA CommentedSame ==
    ASSUME NEW es, Forest(es), NEW e \in DOMAIN es, NEW c \in Nat
    PROVE  SameTree(es, [es EXCEPT ![e].comment = c])
<1> DEFINE x == [es[e] EXCEPT !.comment = c]
           gs == [es EXCEPT ![e].comment = c]
<1>1. es \in Seq(EntityType) /\ es[e] \in EntityType
  BY DEF Forest
<1>2. /\ x \in EntityType /\ x.kind = es[e].kind /\ x.cursor = es[e].cursor /\ x.parent = es[e].parent
      /\ x.role = es[e].role
  BY <1>1 DEF EntityType
<1>3. gs = [es EXCEPT ![e] = x]
  OBVIOUS
<1> HIDE DEF x, gs
<1>4. /\ gs \in Seq(EntityType) /\ DOMAIN gs = DOMAIN es /\ gs[e] = x
      /\ \A d \in DOMAIN es : d # e => gs[d] = es[d]
  BY <1>1, <1>2, <1>3, ChangedSeq
<1>5. SameTree(es, gs)
  BY <1>2, <1>4 DEF SameTree
<1> QED
  BY <1>5 DEF gs

\* An entity turns out to be a declaration.
LEMMA DeclaredSame ==
    ASSUME NEW es, Forest(es), NEW e \in DOMAIN es, NEW id \in Id \cup {NoId}
    PROVE  SameTree(es, [es EXCEPT ![e].declares = id])
<1> DEFINE x == [es[e] EXCEPT !.declares = id]
           gs == [es EXCEPT ![e].declares = id]
<1>1. es \in Seq(EntityType) /\ es[e] \in EntityType
  BY DEF Forest
<1>2. /\ x \in EntityType /\ x.kind = es[e].kind /\ x.cursor = es[e].cursor /\ x.parent = es[e].parent
      /\ x.role = es[e].role
  BY <1>1 DEF EntityType
<1>3. gs = [es EXCEPT ![e] = x]
  OBVIOUS
<1> HIDE DEF x, gs
<1>4. /\ gs \in Seq(EntityType) /\ DOMAIN gs = DOMAIN es /\ gs[e] = x
      /\ \A d \in DOMAIN es : d # e => gs[d] = es[d]
  BY <1>1, <1>2, <1>3, ChangedSeq
<1>5. SameTree(es, gs)
  BY <1>2, <1>4 DEF SameTree
<1> QED
  BY <1>5 DEF gs

----------------------------------------------------------------------------
(* Calls go on, begin and end.                                             *)

\* The cursors of a file, as libclang reports them.
CursorsOK(cs) ==
    /\ Len(cs) \in Nat /\ DOMAIN cs = 1 .. Len(cs)
    /\ \A c \in DOMAIN cs : WellFormed(cs, c)

\* The types of what a stack consists of.
LEMMA StackFacts ==
    ASSUME NEW cs, NEW fs, StackOK(cs, fs)
    PROVE  /\ fs \in Seq(FrameType) /\ Len(fs) \in Nat /\ Len(fs) >= 1 /\ DOMAIN fs = 1 .. Len(fs)
           /\ 1 \in DOMAIN fs /\ Len(fs) \in DOMAIN fs /\ fs[1].entity = 1
           /\ Last(fs) = fs[Len(fs)] /\ Last(fs) \in FrameType /\ FrameOK(cs, Last(fs))
           /\ \A n \in DOMAIN fs :
                fs[n] \in FrameType /\ FrameOK(cs, fs[n]) /\ (fs[n].kind = "file" <=> n = 1)
<1>1. fs \in Seq(FrameType) /\ Len(fs) >= 1 /\ fs[1].entity = 1
  BY DEF StackOK
<1>2. Len(fs) \in Nat /\ DOMAIN fs = 1 .. Len(fs)
  BY <1>1
<1>3. 1 \in DOMAIN fs /\ Len(fs) \in DOMAIN fs
  BY <1>1, <1>2
<1>4. \A n \in DOMAIN fs : fs[n] \in FrameType /\ FrameOK(cs, fs[n]) /\ (fs[n].kind = "file" <=> n = 1)
  <2>1. \A n \in DOMAIN fs : FrameOK(cs, fs[n])
    BY DEF StackOK
  <2>2. \A n \in DOMAIN fs : fs[n].kind = "file" <=> n = 1
    BY DEF StackOK
  <2>3. \A n \in DOMAIN fs : fs[n] \in FrameType
    BY <2>1 DEF FrameOK
  <2> QED
    BY <2>1, <2>2, <2>3
<1>5. Last(fs) = fs[Len(fs)]
  BY DEF Last
<1> QED
  BY <1>1, <1>2, <1>3, <1>4, <1>5

\* A call only changes in what it has still to do, and in what a friend has found.
LEMMA ChangedStack ==
    ASSUME NEW cs, NEW fs, StackOK(cs, fs), NEW n \in DOMAIN fs, NEW f \in FrameType,
           f.kind = fs[n].kind, f.cursor = fs[n].cursor, n = 1 => f.entity = 1,
           \A m \in DOMAIN f.todo : \E i \in DOMAIN fs[n].todo : f.todo[m] = fs[n].todo[i]
    PROVE  StackOK(cs, [fs EXCEPT ![n] = f])
<1> DEFINE gs == [fs EXCEPT ![n] = f]
<1>1. fs \in Seq(FrameType) /\ DOMAIN fs = 1 .. Len(fs) /\ Len(fs) \in Nat /\ 1 \in DOMAIN fs
      /\ fs[1].entity = 1 /\ \A m \in DOMAIN fs : FrameOK(cs, fs[m]) /\ (fs[m].kind = "file" <=> m = 1)
  BY StackFacts
<1>2. /\ gs \in Seq(FrameType) /\ Len(gs) = Len(fs) /\ DOMAIN gs = DOMAIN fs
      /\ gs[n] = f /\ \A m \in DOMAIN fs : m # n => gs[m] = fs[m]
  BY <1>1, ChangedSeq
<1> HIDE DEF gs
<1>3. FrameOK(cs, f)
  <2>1. FrameOK(cs, fs[n])
    BY <1>1
  <2>2. CursorFits(cs, f)
    BY <2>1 DEF FrameOK, CursorFits
  <2>3. ASSUME NEW m \in DOMAIN f.todo
        PROVE  /\ f.todo[m] \in DOMAIN cs /\ cs[f.todo[m]].parent = f.cursor
               /\ f.kind \in OfParameters => cs[f.todo[m]].kind \in ParameterKinds
    <3>1. PICK i \in DOMAIN fs[n].todo : f.todo[m] = fs[n].todo[i]
      OBVIOUS
    <3> QED
      BY <2>1, <3>1 DEF FrameOK
  <2> QED
    BY <2>2, <2>3 DEF FrameOK
<1>4. \A m \in DOMAIN fs : gs[m].kind = fs[m].kind /\ FrameOK(cs, gs[m])
  BY <1>1, <1>2, <1>3
<1>5. gs[1].entity = 1
  BY <1>1, <1>2
<1>6. \A m \in DOMAIN fs : m # 1 => m - 1 \in DOMAIN fs
  BY <1>1
<1>7. \A m \in DOMAIN gs :
         /\ FrameOK(cs, gs[m])
         /\ gs[m].kind = "file" <=> m = 1
         /\ m # 1 => Calling(cs, gs[m - 1], gs[m])
  <2>1. \A m \in DOMAIN fs : gs[m].cursor = fs[m].cursor
    BY <1>2
  <2>2. \A m \in DOMAIN fs : m # 1 => Calling(cs, fs[m - 1], fs[m])
    BY DEF StackOK
  <2>3. \A m \in DOMAIN fs : m # 1 => Calling(cs, gs[m - 1], gs[m])
    BY <1>4, <1>6, <2>1, <2>2 DEF Calling
  <2> QED
    BY <1>1, <1>2, <1>4, <2>3
<1>8. gs \in Seq(FrameType) /\ Len(gs) >= 1 /\ gs[1].entity = 1
  BY <1>1, <1>2, <1>5
<1> QED
  BY <1>7, <1>8 DEF StackOK, gs

\* The next cursor has been visited.
LEMMA AdvancedOK ==
    ASSUME NEW cs, StackOK(cs, stack), Top.todo # <<>>
    PROVE  /\ StackOK(cs, Advanced) /\ Len(Advanced) = Len(stack)
           /\ \A n \in DOMAIN stack : Advanced[n].kind = stack[n].kind /\ Advanced[n].entity = stack[n].entity
           /\ \A es : Held(es, stack) => Held(es, Advanced)
           /\ \A es, e : Free(es, stack, e) => Free(es, Advanced, e)
           /\ FrameOK(cs, Top) /\ Head(Top.todo) \in DOMAIN cs /\ cs[Head(Top.todo)].parent = Top.cursor
           /\ Top.kind \in OfParameters => cs[Head(Top.todo)].kind \in ParameterKinds
           /\ \A n \in DOMAIN stack : Advanced[n].cursor = stack[n].cursor
<1> DEFINE n == Len(stack)
           f == [stack[n] EXCEPT !.todo = Tail(@)]
<1>1. /\ stack \in Seq(FrameType) /\ n \in Nat /\ n >= 1 /\ DOMAIN stack = 1 .. n /\ n \in DOMAIN stack
      /\ stack[n] \in FrameType /\ Top = stack[n] /\ FrameOK(cs, stack[n])
  BY StackFacts DEF Top
<1>2. stack[n].todo \in Seq(Nat) /\ stack[n].todo # <<>>
  BY <1>1 DEF FrameType
<1>3. Tail(stack[n].todo) \in Seq(Nat)
  BY <1>2
<1>4. /\ f \in FrameType /\ f.kind = stack[n].kind /\ f.cursor = stack[n].cursor /\ f.entity = stack[n].entity
      /\ f.todo = Tail(stack[n].todo)
  BY <1>1, <1>3 DEF FrameType
<1>5. \A m \in DOMAIN Tail(stack[n].todo) : \E i \in DOMAIN stack[n].todo : Tail(stack[n].todo)[m] = stack[n].todo[i]
  BY <1>2
<1>6. Advanced = [stack EXCEPT ![n] = f]
  BY DEF Advanced
<1>7. stack[1].entity = 1
  BY StackFacts
<1> HIDE DEF f, n
<1>8. /\ n = 1 => f.entity = 1
      /\ \A m \in DOMAIN f.todo : \E i \in DOMAIN stack[n].todo : f.todo[m] = stack[n].todo[i]
  BY <1>4, <1>5, <1>7
<1>9. StackOK(cs, Advanced)
  BY <1>1, <1>4, <1>6, <1>8, ChangedStack
<1>10. /\ Len(Advanced) = n /\ DOMAIN Advanced = DOMAIN stack /\ Advanced[n] = f
       /\ \A m \in DOMAIN stack : m # n => Advanced[m] = stack[m]
  BY <1>1, <1>4, <1>6, ChangedSeq DEF n
<1>11. \A m \in DOMAIN stack : Advanced[m].kind = stack[m].kind /\ Advanced[m].entity = stack[m].entity
  BY <1>4, <1>10
<1>16. \A m \in DOMAIN stack : Advanced[m].cursor = stack[m].cursor
  BY <1>4, <1>10
<1>12. ASSUME NEW es, Held(es, stack) PROVE Held(es, Advanced)
  <2>1. \A m \in DOMAIN stack : EntityFits(es, Advanced[m])
    BY <1>11, <1>12, <1>16 DEF Held, EntityFits
  <2> QED
    BY <1>10, <1>11, <1>12, <2>1 DEF Held
<1>13. \A es, e : Free(es, stack, e) => Free(es, Advanced, e)
  BY <1>10, <1>11 DEF Free
<1>14. 1 \in DOMAIN stack[n].todo /\ Head(Top.todo) = stack[n].todo[1]
  BY <1>1, <1>2
<1>15. /\ Head(Top.todo) \in DOMAIN cs /\ cs[Head(Top.todo)].parent = Top.cursor
       /\ Top.kind \in OfParameters => cs[Head(Top.todo)].kind \in ParameterKinds
  BY <1>1, <1>14 DEF FrameOK
<1> QED
  BY <1>1, <1>9, <1>10, <1>11, <1>12, <1>13, <1>15, <1>16 DEF n

\* A call begins.
LEMMA PushedOK ==
    ASSUME NEW cs, NEW fs, StackOK(cs, fs), NEW f, FrameOK(cs, f), f.kind # "file", Calling(cs, Last(fs), f)
    PROVE  StackOK(cs, Append(fs, f))
<1> DEFINE gs == Append(fs, f)
           n == Len(fs)
<1>0. /\ fs \in Seq(FrameType) /\ n \in Nat /\ n >= 1 /\ DOMAIN fs = 1 .. n /\ fs[1].entity = 1
      /\ Last(fs) = fs[n]
  BY StackFacts
<1>1. \A m \in DOMAIN fs : FrameOK(cs, fs[m]) /\ (fs[m].kind = "file" <=> m = 1)
  BY StackFacts
<1>2. f \in FrameType
  BY DEF FrameOK
<1>3. /\ gs \in Seq(FrameType) /\ Len(gs) = n + 1 /\ DOMAIN gs = 1 .. n + 1 /\ gs[n + 1] = f
      /\ \A m \in 1 .. n : gs[m] = fs[m]
  BY <1>0, <1>2, AppendedSeq
<1> HIDE DEF gs, n
<1>4. gs[1] = fs[1] /\ Len(gs) >= 1
  BY <1>0, <1>3
<1>5. ASSUME NEW m \in DOMAIN gs
      PROVE  /\ FrameOK(cs, gs[m])
             /\ gs[m].kind = "file" <=> m = 1
             /\ m # 1 => Calling(cs, gs[m - 1], gs[m])
  <2>1. CASE m = n + 1
    <3>1. m # 1 /\ m - 1 = n /\ gs[n] = fs[n]
      BY <1>0, <1>3, <2>1
    <3> QED
      BY <1>0, <1>3, <2>1, <3>1
  <2>2. CASE m # n + 1
    <3>1. m \in DOMAIN fs /\ gs[m] = fs[m] /\ (m # 1 => gs[m - 1] = fs[m - 1])
      BY <1>0, <1>3, <2>2
    <3> QED
      BY <3>1 DEF StackOK
  <2> QED
    BY <2>1, <2>2
<1>6. StackOK(cs, gs)
  BY <1>0, <1>3, <1>4, <1>5 DEF StackOK
<1> QED
  BY <1>6 DEF gs

\* It holds an entity that is free, or none.
LEMMA PushedHeld ==
    ASSUME NEW cs, NEW fs, StackOK(cs, fs), NEW es, Held(es, fs), NEW f,
           f.entity = 0 => f.kind = "friend", f.entity # 0 => Free(es, fs, f.entity), EntityFits(es, f)
    PROVE  Held(es, Append(fs, f))
<1> DEFINE gs == Append(fs, f)
           n == Len(fs)
<1>1. fs \in Seq(FrameType) /\ n \in Nat /\ DOMAIN fs = 1 .. n
  BY StackFacts
<1>2. /\ DOMAIN gs = 1 .. n + 1 /\ gs[n + 1] = f
      /\ \A m \in 1 .. n : gs[m] = fs[m]
  <2>1. fs \in Seq({fs[i] : i \in 1 .. n} \cup {f})
    BY <1>1
  <2> QED
    BY <1>1, <2>1
<1> HIDE DEF gs, n
<1>3. \A m \in DOMAIN gs : m = n + 1 \/ (m \in DOMAIN fs /\ m # n + 1)
  BY <1>1, <1>2
<1>4. \A m \in DOMAIN gs :
        /\ gs[m].entity = 0 => gs[m].kind = "friend"
        /\ gs[m].entity # 0 => gs[m].entity \in DOMAIN es /\ es[gs[m].entity].parent = 0
        /\ EntityFits(es, gs[m])
  BY <1>1, <1>2, <1>3 DEF Held, Free
<1>5. \A l, m \in DOMAIN gs : l # m /\ gs[l].entity # 0 => gs[l].entity # gs[m].entity
  BY <1>1, <1>2, <1>3 DEF Held, Free
<1>6. Held(es, gs)
  BY <1>4, <1>5 DEF Held
<1> QED
  BY <1>6 DEF gs

\* Calls end.
LEMMA PrefixOK ==
    ASSUME NEW cs, NEW fs, StackOK(cs, fs), NEW n \in 1 .. Len(fs)
    PROVE  /\ StackOK(cs, SubSeq(fs, 1, n)) /\ Len(SubSeq(fs, 1, n)) = n
           /\ \A m \in 1 .. n : SubSeq(fs, 1, n)[m] = fs[m]
           /\ \A es : Held(es, fs) => Held(es, SubSeq(fs, 1, n))
<1> DEFINE gs == SubSeq(fs, 1, n)
<1>1. /\ fs \in Seq(FrameType) /\ Len(fs) \in Nat /\ DOMAIN fs = 1 .. Len(fs) /\ fs[1].entity = 1
      /\ \A m \in DOMAIN fs : FrameOK(cs, fs[m]) /\ (fs[m].kind = "file" <=> m = 1)
  BY StackFacts
<1>2. gs \in Seq(FrameType) /\ Len(gs) = n /\ DOMAIN gs = 1 .. n /\ \A m \in 1 .. n : gs[m] = fs[m]
  BY <1>1
<1> HIDE DEF gs
<1>3. gs[1] = fs[1] /\ Len(gs) >= 1 /\ \A m \in 1 .. n : m \in DOMAIN fs /\ (m # 1 => m - 1 \in 1 .. n)
  BY <1>1, <1>2
<1>4. \A m \in DOMAIN gs :
         /\ FrameOK(cs, gs[m])
         /\ gs[m].kind = "file" <=> m = 1
         /\ m # 1 => Calling(cs, gs[m - 1], gs[m])
  BY <1>2, <1>3 DEF StackOK
<1>5. StackOK(cs, gs)
  BY <1>1, <1>2, <1>3, <1>4 DEF StackOK
<1>6. ASSUME NEW es, Held(es, fs) PROVE Held(es, gs)
  BY <1>2, <1>3, <1>6 DEF Held
<1> QED
  BY <1>2, <1>5, <1>6 DEF gs

\* The last call ends, and what it held is free.
LEMMA PoppedOK ==
    ASSUME NEW cs, NEW fs, StackOK(cs, fs), Last(fs).kind # "file", NEW es, Held(es, fs)
    PROVE  /\ StackOK(cs, Front(fs)) /\ Held(es, Front(fs))
           /\ Last(fs).entity # 0 => Free(es, Front(fs), Last(fs).entity)
           /\ Last(Front(fs)).kind \in OfParameters <=> Last(fs).kind = "template_parameter"
           /\ cs[Last(fs).cursor].parent = Last(Front(fs)).cursor
<1> DEFINE n == Len(fs)
           gs == SubSeq(fs, 1, n - 1)
<1>1. /\ n \in Nat /\ n >= 1 /\ DOMAIN fs = 1 .. n /\ Last(fs) = fs[n]
      /\ \A m \in DOMAIN fs : fs[m].kind = "file" <=> m = 1
  BY StackFacts
<1> HIDE DEF n
<1>2. n - 1 \in 1 .. n /\ n # 1 /\ n \in DOMAIN fs
  BY <1>1
<1> HIDE DEF gs
<1>3. StackOK(cs, gs) /\ Len(gs) = n - 1 /\ Held(es, gs) /\ \A m \in 1 .. n - 1 : gs[m] = fs[m]
  BY <1>2, PrefixOK DEF gs, n
<1>4. DOMAIN gs = 1 .. n - 1 /\ Last(gs) = gs[n - 1]
  BY <1>3, StackFacts
<1>5. ASSUME fs[n].entity # 0 PROVE Free(es, gs, fs[n].entity)
  <2>1. \A m \in 1 .. n - 1 : m \in DOMAIN fs /\ m # n
    BY <1>1
  <2> QED
    BY <1>2, <1>3, <1>4, <1>5, <2>1 DEF Free, Held
<1>6. Calling(cs, Last(gs), fs[n])
  <2>1. n - 1 \in 1 .. n - 1
    BY <1>1, <1>2
  <2>2. Last(gs) = fs[n - 1]
    BY <1>3, <1>4, <2>1
  <2> QED
    BY <1>2, <2>2 DEF StackOK
<1>7. Front(fs) = gs
  BY DEF Front, gs, n
<1> QED
  BY <1>1, <1>3, <1>5, <1>6, <1>7 DEF Calling

\* What a call may return to another.
Returnable(cs, f, r) ==
    /\ r.kind # "access_specifier"
    /\ IF f.kind \in OfParameters THEN r.role = "parameter" /\ cs[f.cursor].kind # "function_specialization"
       ELSE r.role = "child"

\* What a call returns is added to the entity of the call before it, or held by the friend
\* that made the call.
LEMMA ReturnedOK ==
    ASSUME NEW cs, NEW es, NEW fs, Forest(es), Placed(cs, es), StackOK(cs, fs), Held(es, fs),
           NEW e, Free(es, fs, e), Returnable(cs, Last(fs), es[e])
    PROVE  /\ Forest(Added(es, fs, e)) /\ Placed(cs, Added(es, fs, e))
           /\ StackOK(cs, Holding(es, fs, e)) /\ Held(Added(es, fs, e), Holding(es, fs, e))
<1> DEFINE n == Len(fs)
<1>1. /\ fs \in Seq(FrameType) /\ DOMAIN fs = 1 .. n /\ n \in DOMAIN fs /\ 1 \in DOMAIN fs /\ fs[1].entity = 1
      /\ Last(fs) = fs[n] /\ fs[n] \in FrameType /\ fs[1].kind = "file"
  BY StackFacts
<1> HIDE DEF n
<1>2. e \in DOMAIN es /\ es[e].parent = 0 /\ \A m \in DOMAIN fs : fs[m].entity # e
  BY DEF Free
<1>3. CASE fs[n].kind # "friend"
  <2> DEFINE p == fs[n].entity
  <2>1. p \in DOMAIN es /\ es[p].parent = 0 /\ EntityFits(es, fs[n]) /\ e # p /\ e # 1
    BY <1>1, <1>2, <1>3 DEF Held
  <2>2. Owns(cs, es[p], es[e])
    <3>1. fs[n].kind \in FrameKinds
      BY <1>1 DEF FrameType
    <3>2. CASE fs[n].kind \notin OfParameters
      <4>1. es[p].kind \in OwnerKinds
        BY <1>3, <2>1, <3>1, <3>2 DEF EntityFits, FrameKinds, OfParameters, OwnerKinds, VisitedContainers
      <4> QED
        BY <1>1, <3>2, <4>1 DEF Returnable, Owns
    <3>3. CASE fs[n].kind \in OfParameters
      <4>1. es[p].kind \in TemplateKinds \cup {"template_parameter"} /\ es[p].cursor = fs[n].cursor
        BY <1>3, <2>1, <3>3 DEF EntityFits, OfParameters
      <4>2. Made(cs, es[p])
        BY <2>1 DEF Placed
      <4>3. es[p].kind = cs[fs[n].cursor].kind
        BY <4>1, <4>2 DEF Made, TemplateKinds, SpecializationKinds, FunctionTemplateKinds
      <4> QED
        BY <1>1, <3>3, <4>1, <4>3 DEF Returnable, Owns
    <3> QED
      BY <3>2, <3>3
  <2>3. Forest([es EXCEPT ![e].parent = p]) /\ Placed(cs, [es EXCEPT ![e].parent = p])
    BY <1>2, <2>1, <2>2, LinkedForest, LinkedPlaced
  <2>4. Held([es EXCEPT ![e].parent = p], fs)
    BY LinkedHeld
  <2> QED
    BY <1>1, <1>3, <2>3, <2>4 DEF Added, Holding
<1>4. CASE fs[n].kind = "friend"
  <2> DEFINE gs == [es EXCEPT ![e].comment = 0]
             f == [fs[n] EXCEPT !.entity = e, !.comment = es[e].comment]
             hs == [fs EXCEPT ![n] = f]
  <2>1. Forest(gs) /\ Placed(cs, gs) /\ Held(gs, fs) /\ Free(gs, fs, e) /\ gs[e].role = "child" /\ gs[e].kind # "access_specifier"
    <3>1. SameTree(es, gs)
      BY <1>2, CommentedSame
    <3>2. es[e].role = "child" /\ es[e].kind # "access_specifier"
      BY <1>1, <1>4 DEF Returnable, OfParameters
    <3> HIDE DEF gs
    <3>3. gs[e].role = "child" /\ gs[e].kind # "access_specifier"
      BY <1>2, <3>1, <3>2 DEF SameTree
    <3> QED
      BY <3>1, <3>3, SameForest, SamePlaced, SameHeld
  <2>2. e \in Nat /\ e # 0 /\ es[e] \in EntityType
    BY <1>2 DEF Forest
  <2>3. es[e].comment \in Nat
    BY <2>2 DEF EntityType
  <2>4. f \in FrameType /\ f.kind = fs[n].kind /\ f.cursor = fs[n].cursor /\ f.todo = fs[n].todo /\ f.entity = e
    BY <1>1, <2>2, <2>3 DEF FrameType
  <2>5. n # 1
    BY <1>1, <1>4
  <2> HIDE DEF f, gs
  <2>6. StackOK(cs, hs)
    BY <1>1, <2>4, <2>5, ChangedStack
  <2>7. DOMAIN hs = DOMAIN fs /\ hs[n] = f /\ \A m \in DOMAIN fs : m # n => hs[m] = fs[m]
    BY <1>1, <2>4, ChangedSeq
  <2> HIDE DEF hs
  <2>8. Held(gs, hs)
    <3>1. EntityFits(gs, f)
      BY <1>4, <2>1, <2>4 DEF EntityFits
    <3>2. \A m \in DOMAIN hs :
            /\ hs[m].entity = 0 => hs[m].kind = "friend"
            /\ hs[m].entity # 0 => hs[m].entity \in DOMAIN gs /\ gs[hs[m].entity].parent = 0
            /\ EntityFits(gs, hs[m])
      BY <2>1, <2>2, <2>4, <2>7, <3>1 DEF Held, Free
    <3>3. \A l, m \in DOMAIN hs : l # m /\ hs[l].entity # 0 => hs[l].entity # hs[m].entity
      BY <2>1, <2>4, <2>7 DEF Held, Free
    <3> QED
      BY <3>2, <3>3 DEF Held
  <2>9. Added(es, fs, e) = gs /\ Holding(es, fs, e) = hs
    <3>1. Holding(es, fs, e) = [fs EXCEPT ![n] = [fs[n] EXCEPT !.entity = e, !.comment = es[e].comment]]
      <4>1. Holding(es, fs, e) = [fs EXCEPT ![Len(fs)].entity = e, ![Len(fs)].comment = es[e].comment]
        BY <1>1, <1>4 DEF Holding
      <4> QED
        BY <1>1, <4>1 DEF n
    <3> QED
      BY <1>1, <1>4, <3>1 DEF Added, gs, hs, f
  <2> QED
    BY <2>1, <2>6, <2>8, <2>9
<1> QED
  BY <1>3, <1>4

----------------------------------------------------------------------------
(* The invariant of a parse.                                               *)

\* The entities are a forest; each call under way holds one that is its own.
TreeInv ==
    /\ file \in Files /\ macro \in Nat /\ comment \in Nat
    /\ Forest(entities) /\ Placed(file.cursors, entities)
    /\ mode = "parse" => StackOK(file.cursors, stack) /\ Held(entities, stack)

\* The cursors of the file are well-formed.
LEMMA FileFacts ==
    ASSUME file \in Files
    PROVE  CursorsOK(file.cursors) /\ Comments \in Seq([line : Nat, eol : BOOLEAN])
  BY FilesAssumption DEF CursorsOK, Comments

\* A cursor of the file is a number and has a kind, a line and an id.
LEMMA CursorFacts ==
    ASSUME file \in Files, NEW c \in DOMAIN file.cursors
    PROVE  /\ c \in Nat /\ c # 0
           /\ file.cursors[c].kind \in CursorKinds /\ file.cursors[c].line \in Nat /\ file.cursors[c].usr \in Id
           /\ KindOf(c) = file.cursors[c].kind /\ Cursor(c) = file.cursors[c]
  BY FileFacts DEF CursorsOK, WellFormed, KindOf, Cursor

\* A sequence over a set is one over a wider set.
LEMMA WiderSeq ==
    ASSUME NEW A, NEW B, A \subseteq B, NEW s \in Seq(A)
    PROVE  s \in Seq(B)
<1>1. Len(s) \in Nat /\ s = [m \in 1 .. Len(s) |-> s[m]] /\ \A m \in 1 .. Len(s) : s[m] \in B
  OBVIOUS
<1> QED
  BY <1>1

\* The cursors below one are a sequence of them.
LEMMA BelowFacts ==
    ASSUME file \in Files, NEW c, NEW kinds
    PROVE  /\ Children(c) \in Seq(Nat) /\ Below(c, kinds) \in Seq(Nat)
           /\ \A m \in DOMAIN Children(c) : Children(c)[m] \in Cursors /\ Cursor(Children(c)[m]).parent = c
           /\ \A m \in DOMAIN Below(c, kinds) :
                /\ Below(c, kinds)[m] \in Cursors /\ Cursor(Below(c, kinds)[m]).parent = c
                /\ KindOf(Below(c, kinds)[m]) \in kinds
<1> DEFINE S == {k \in Cursors : Cursor(k).parent = c}
           T == {k \in Cursors : Cursor(k).parent = c /\ KindOf(k) \in kinds}
           n == Len(file.cursors)
<1>1. n \in Nat /\ S \in SUBSET (1 .. n) /\ T \in SUBSET (1 .. n)
  <2>1. n \in Nat /\ Cursors = 1 .. n
    BY FileFacts DEF CursorsOK, Cursors
  <2> QED
    BY <2>1
<1> HIDE DEF S, T, n
<1>2. InOrder(S) \in Seq(S) /\ InOrder(T) \in Seq(T)
  BY <1>1, InOrderFacts
<1>3. InOrder(S) \in Seq(Nat) /\ InOrder(T) \in Seq(Nat)
  <2>1. S \subseteq Nat /\ T \subseteq Nat
    BY <1>1
  <2> QED
    BY <1>2, <2>1, WiderSeq
<1>4. (\A m \in DOMAIN InOrder(S) : InOrder(S)[m] \in S) /\ (\A m \in DOMAIN InOrder(T) : InOrder(T)[m] \in T)
  BY <1>2
<1>5. Children(c) = InOrder(S) /\ Below(c, kinds) = InOrder(T)
  BY DEF Children, Below, S, T
<1> QED
  BY <1>3, <1>4, <1>5 DEF S, T

\* The comments are numbered.
LEMMA CommentFacts ==
    ASSUME TreeInv, NEW line \in Nat
    PROVE  Skipped(line) \in Nat /\ Matching(line) \in Nat
<1> DEFINE n == Len(Comments)
           ahead == {k \in comment .. n : line <= Comments[k].line + 1}
<1>1. n \in Nat /\ comment \in Nat
  <2>1. Comments \in Seq([line : Nat, eol : BOOLEAN])
    BY FileFacts DEF TreeInv
  <2> QED
    BY <2>1 DEF TreeInv
<1>2. ASSUME ahead # {} PROVE Min(ahead) \in Nat
  <2>1. ahead \subseteq Nat
    BY <1>1
  <2> HIDE DEF ahead
  <2>2. PICK m \in ahead : \A k \in ahead : m <= k
    BY <1>2, <2>1, Numbers!LeastElement
  <2>3. Min(ahead) \in ahead
    BY <2>2 DEF Min
  <2> QED
    BY <2>1, <2>3
<1>3. Skipped(line) \in Nat
  <2>1. Skipped(line) = IF ahead = {} THEN n + 1 ELSE Min(ahead)
    BY DEF Skipped
  <2> HIDE DEF ahead, n
  <2> QED
    BY <1>1, <1>2, <2>1
<1> QED
  BY <1>3 DEF Matching

\* The cursor that is visited next.
LEMMA VisitedFacts ==
    ASSUME TreeInv, NEW kinds, NEW c \in Visited(kinds)
    PROVE  /\ mode = "parse" /\ Forest(entities) /\ Placed(file.cursors, entities)
           /\ StackOK(file.cursors, stack) /\ Held(entities, stack)
           /\ c \in DOMAIN file.cursors /\ KindOf(c) \in kinds /\ file.cursors[c].parent = Top.cursor
           /\ Top.kind \in OfParameters => KindOf(c) \in ParameterKinds
           /\ FrameOK(file.cursors, Top)
           /\ StackOK(file.cursors, Advanced) /\ \A es : Held(es, stack) => Held(es, Advanced)
           /\ Last(Advanced).kind = Top.kind /\ Last(Advanced).entity = Top.entity /\ Last(Advanced).cursor = Top.cursor
           /\ CommentAt(c) \in Nat
<1>1. mode = "parse" /\ Top.todo # <<>> /\ KindOf(Head(Top.todo)) \in kinds /\ c = Head(Top.todo)
  BY DEF Visited, Parsing
<1>2. /\ file \in Files /\ Forest(entities) /\ Placed(file.cursors, entities)
      /\ StackOK(file.cursors, stack) /\ Held(entities, stack)
  BY <1>1 DEF TreeInv
<1>3. /\ StackOK(file.cursors, Advanced) /\ Len(Advanced) = Len(stack)
      /\ \A n \in DOMAIN stack : Advanced[n].kind = stack[n].kind /\ Advanced[n].entity = stack[n].entity
      /\ \A es : Held(es, stack) => Held(es, Advanced)
      /\ FrameOK(file.cursors, Top) /\ c \in DOMAIN file.cursors /\ file.cursors[c].parent = Top.cursor
      /\ Top.kind \in OfParameters => file.cursors[c].kind \in ParameterKinds
      /\ \A n \in DOMAIN stack : Advanced[n].cursor = stack[n].cursor
  BY <1>1, <1>2, AdvancedOK
<1>4. Last(Advanced).kind = Top.kind /\ Last(Advanced).entity = Top.entity /\ Last(Advanced).cursor = Top.cursor
  BY <1>2, <1>3, StackFacts DEF Top
<1>5. CommentAt(c) \in Nat /\ KindOf(c) = file.cursors[c].kind
  BY <1>2, <1>3, CursorFacts, CommentFacts DEF CommentAt
<1> QED
  BY <1>1, <1>2, <1>3, <1>4, <1>5

\* What a match does to the comments.
LEMMA MatchFacts ==
    ASSUME TreeInv, NEW c \in DOMAIN file.cursors, NEW skip, Match(c, skip)
    PROVE  comment' \in Nat
<1>1. Cursor(c).line \in Nat /\ comment \in Nat
  BY CursorFacts DEF TreeInv
<1>2. Skipped(Cursor(c).line) \in Nat
  BY <1>1, CommentFacts
<1> QED
  BY <1>1, <1>2 DEF Match

\* New entities, and calls.
LEMMA NewEntity ==
    ASSUME NEW kind \in CursorKinds \cup {"file"}, NEW c \in Nat
    PROVE  /\ Entity(kind, c) \in EntityType
           /\ Entity(kind, c).kind = kind /\ Entity(kind, c).cursor = c
           /\ Entity(kind, c).parent = 0 /\ Entity(kind, c).role = "child"
           /\ Entity(kind, c).comment = 0 /\ Entity(kind, c).declares = NoId
  BY ParserAssumption DEF Entity, EntityType

\* One field of an entity is changed.
LEMMA ChangedComment ==
    ASSUME NEW x \in EntityType, NEW c \in Nat
    PROVE  LET y == [x EXCEPT !.comment = c]
           IN y \in EntityType /\ y.parent = x.parent /\ y.role = x.role /\ y.kind = x.kind /\ y.cursor = x.cursor
  BY DEF EntityType

\* So is the id it declares,
LEMMA ChangedDeclares ==
    ASSUME NEW x \in EntityType, NEW d \in Id \cup {NoId}
    PROVE  LET y == [x EXCEPT !.declares = d]
           IN y \in EntityType /\ y.parent = x.parent /\ y.role = x.role /\ y.kind = x.kind /\ y.cursor = x.cursor
  BY DEF EntityType

\* its parent,
LEMMA ChangedParent ==
    ASSUME NEW x \in EntityType, NEW p \in Nat
    PROVE  LET y == [x EXCEPT !.parent = p]
           IN y \in EntityType /\ y.parent = p /\ y.role = x.role /\ y.kind = x.kind /\ y.cursor = x.cursor
  BY DEF EntityType

\* and its role.
LEMMA ChangedRole ==
    ASSUME NEW x \in EntityType, NEW role \in {"child", "base", "parameter"}
    PROVE  LET y == [x EXCEPT !.role = role]
           IN y \in EntityType /\ y.parent = x.parent /\ y.role = role /\ y.kind = x.kind /\ y.cursor = x.cursor
  BY DEF EntityType

\* A call has the type of one if its cursor fits and it has cursors below that to do.
LEMMA NewFrame ==
    ASSUME file \in Files, NEW kind \in FrameKinds, NEW c \in Nat, NEW e \in Nat,
           NEW todo \in Seq(Nat), CursorFits(file.cursors, Frame(kind, c, e, todo)),
           \A m \in DOMAIN todo :
              /\ todo[m] \in DOMAIN file.cursors /\ file.cursors[todo[m]].parent = c
              /\ kind \in OfParameters => file.cursors[todo[m]].kind \in ParameterKinds
    PROVE  FrameOK(file.cursors, Frame(kind, c, e, todo))
<1> DEFINE f == Frame(kind, c, e, todo)
<1>1. f \in FrameType /\ f.kind = kind /\ f.cursor = c /\ f.entity = e /\ f.todo = todo
  BY DEF Frame, FrameType
<1> HIDE DEF f
<1>2. FrameOK(file.cursors, f)
  BY <1>1 DEF FrameOK, f
<1> QED
  BY <1>2 DEF f

----------------------------------------------------------------------------
(* The members of classes.                                                 *)

\* What is below an entity, bases and parameters left out.
MembersOf(es, k) == {e \in DOMAIN es : es[e].parent = k /\ es[e].role = "child"}

SpecifiersOf(cs, c) == {s \in DOMAIN cs : cs[s].parent = c /\ cs[s].kind = "access_specifier"}

\* Something is made from cursor s.
Known(es, k, s) == \E m \in MembersOf(es, k) : es[m].cursor = s

\* The members of a class are in the order of the cursors they are made from, and whatever
\* follows an access specifier does so as an entity.
ClassOK(cs, es, k) ==
    /\ \A e \in MembersOf(es, k) :
         es[e].kind # "file" /\ es[e].cursor \in DOMAIN cs /\ cs[es[e].cursor].parent = es[k].cursor
    /\ \A d, e \in MembersOf(es, k) : d < e => es[d].cursor < es[e].cursor
    /\ \A e \in MembersOf(es, k), s \in SpecifiersOf(cs, es[k].cursor) : s <= es[e].cursor => Known(es, k, s)

Ordered(cs, es) == \A k \in DOMAIN es : es[k].kind = "class" => ClassOK(cs, es, k)

\* What a call for a class has left to do comes behind the members there are.
Ready(cs, es, f) ==
    f.kind = "class" =>
      /\ Increasing(f.todo)
      /\ \A e \in MembersOf(es, f.entity), m \in DOMAIN f.todo : es[e].cursor < f.todo[m]
      /\ \A s \in SpecifiersOf(cs, f.cursor) : (\E m \in DOMAIN f.todo : f.todo[m] = s) \/ Known(es, f.entity, s)

\* Between the two is the cursor that is visited.
AwaitsCursor(cs, es, f, d) ==
    f.kind = "class" =>
      /\ Increasing(f.todo)
      /\ \A m \in DOMAIN f.todo : d < f.todo[m]
      /\ \A e \in MembersOf(es, f.entity) : es[e].cursor < d
      /\ \A s \in SpecifiersOf(cs, f.cursor) : (\E m \in DOMAIN f.todo : f.todo[m] = s) \/ s = d \/ Known(es, f.entity, s)

\* The entity of a call is younger than the members of the class it is called for; that of
\* a friend comes when the call ends.
Younger(es, f, g) == f.kind = "class" /\ g.kind # "friend" => \A e \in MembersOf(es, f.entity) : e < g.entity

Awaits(cs, es, f, g) == AwaitsCursor(cs, es, f, g.cursor) /\ Younger(es, f, g)

CallersOK(cs, es, fs) == Ordered(cs, es) /\ \A n \in DOMAIN fs : n # 1 => Awaits(cs, es, fs[n - 1], fs[n])

MembersOK(cs, es, fs) == CallersOK(cs, es, fs) /\ Ready(cs, es, Last(fs))

MembersInv == IF mode = "parse" THEN MembersOK(file.cursors, entities, stack) ELSE Ordered(file.cursors, entities)

----------------------------------------------------------------------------
(* What leaves the members of all classes alone.                           *)

SameMembers(es, gs) ==
    /\ DOMAIN es \subseteq DOMAIN gs
    /\ \A e \in DOMAIN es : gs[e].kind = es[e].kind /\ gs[e].cursor = es[e].cursor
    /\ \A k \in DOMAIN gs : gs[k].kind = "class" => MembersOf(gs, k) = MembersOf(es, k)

\* Nobody is below what is not there.
LEMMA NoMembers ==
    ASSUME NEW es, Forest(es), NEW k \in Nat, k \notin DOMAIN es, k # 0
    PROVE  MembersOf(es, k) = {}
<1>1. \A e \in DOMAIN es : es[e].parent \in 0 .. Len(es) /\ Len(es) \in Nat /\ DOMAIN es = 1 .. Len(es)
  BY DEF Forest
<1> QED
  BY <1>1 DEF MembersOf

\* The members of a class are entities whose parent it is.
LEMMA MembersFacts ==
    ASSUME NEW es, Forest(es), NEW k
    PROVE  /\ MembersOf(es, k) \subseteq DOMAIN es
           /\ \A e \in MembersOf(es, k) :
                e \in Nat /\ e \in DOMAIN es /\ es[e].cursor \in Nat /\ es[e].parent = k /\ es[e].role = "child"
<1>1. es \in Seq(EntityType)
  BY DEF Forest
<1>2. \A e \in DOMAIN es : es[e] \in EntityType /\ e \in Nat
  BY <1>1
<1>3. \A e \in DOMAIN es : es[e].cursor \in Nat
  BY <1>2 DEF EntityType
<1> QED
  BY <1>2, <1>3 DEF MembersOf

\* What is known of a class is the same when its members are.
LEMMA SameKnown ==
    ASSUME NEW es, NEW gs, SameMembers(es, gs), NEW k \in DOMAIN es, es[k].kind = "class"
    PROVE  /\ MembersOf(gs, k) = MembersOf(es, k) /\ gs[k].cursor = es[k].cursor
           /\ \A e \in MembersOf(es, k) : gs[e].cursor = es[e].cursor /\ gs[e].kind = es[e].kind
           /\ \A s : Known(gs, k, s) <=> Known(es, k, s)
<1>1. k \in DOMAIN gs /\ gs[k].kind = "class" /\ MembersOf(gs, k) = MembersOf(es, k) /\ gs[k].cursor = es[k].cursor
  BY DEF SameMembers
<1>2. \A e \in MembersOf(es, k) : gs[e].cursor = es[e].cursor /\ gs[e].kind = es[e].kind
  BY DEF SameMembers, MembersOf
<1> QED
  BY <1>1, <1>2 DEF Known

\* So is the order of the members.
LEMMA SameOrdered ==
    ASSUME NEW cs, NEW es, Forest(es), NEW gs, Forest(gs), SameMembers(es, gs), Ordered(cs, es)
    PROVE  Ordered(cs, gs)
<1>1. SUFFICES ASSUME NEW k \in DOMAIN gs, gs[k].kind = "class" PROVE ClassOK(cs, gs, k)
  BY DEF Ordered
<1>2. CASE k \in DOMAIN es
  <2>1. ClassOK(cs, es, k) /\ es[k].kind = "class"
    BY <1>1, <1>2 DEF Ordered, SameMembers
  <2> QED
    BY <1>2, <2>1, SameKnown DEF ClassOK
<1>3. CASE k \notin DOMAIN es
  <2>1. k \in Nat /\ k # 0
    BY DEF Forest
  <2>2. MembersOf(gs, k) = {}
    BY <1>1, <1>3, <2>1, NoMembers DEF SameMembers
  <2> QED
    BY <2>2 DEF ClassOK
<1> QED
  BY <1>2, <1>3

\* The class of a call.
LEMMA ClassFrame ==
    ASSUME NEW cs, NEW es, NEW fs, StackOK(cs, fs), Held(es, fs), NEW n \in DOMAIN fs, fs[n].kind = "class"
    PROVE  /\ fs[n].entity \in DOMAIN es /\ es[fs[n].entity].kind = "class" /\ es[fs[n].entity].cursor = fs[n].cursor
           /\ es[fs[n].entity].parent = 0 /\ fs[n].entity # 0
           /\ fs[n].todo \in Seq(Nat) /\ fs[n].entity \in Nat
<1>1. fs[n] \in FrameType
  BY StackFacts
<1>2. fs[n].entity # 0 /\ EntityFits(es, fs[n])
  BY DEF Held
<1>3. fs[n].entity \in DOMAIN es /\ es[fs[n].entity].parent = 0
  BY <1>2 DEF Held
<1> QED
  BY <1>1, <1>2, <1>3 DEF EntityFits, FrameType

\* What a call is ready for, and what it waits for, is the same when the members are.
LEMMA SameFrame ==
    ASSUME NEW cs, NEW es, NEW gs, SameMembers(es, gs), NEW fs, StackOK(cs, fs), Held(es, fs), NEW n \in DOMAIN fs
    PROVE  /\ Ready(cs, es, fs[n]) => Ready(cs, gs, fs[n])
           /\ \A d : AwaitsCursor(cs, es, fs[n], d) => AwaitsCursor(cs, gs, fs[n], d)
           /\ \A g : Awaits(cs, es, fs[n], g) => Awaits(cs, gs, fs[n], g)
<1>1. CASE fs[n].kind = "class"
  <2> DEFINE k == fs[n].entity
  <2>1. k \in DOMAIN es /\ es[k].kind = "class"
    BY <1>1, ClassFrame
  <2>2. /\ MembersOf(gs, k) = MembersOf(es, k)
        /\ \A e \in MembersOf(es, k) : gs[e].cursor = es[e].cursor
        /\ \A s : Known(gs, k, s) <=> Known(es, k, s)
    BY <2>1, SameKnown
  <2> QED
    BY <2>2 DEF Ready, AwaitsCursor, Awaits, Younger
<1>2. CASE fs[n].kind # "class"
  BY <1>2 DEF Ready, AwaitsCursor, Awaits, Younger
<1> QED
  BY <1>1, <1>2

\* So it is for all calls that wait.
LEMMA SameCallers ==
    ASSUME NEW cs, NEW es, Forest(es), NEW gs, Forest(gs), SameMembers(es, gs),
           NEW fs, StackOK(cs, fs), Held(es, fs), CallersOK(cs, es, fs)
    PROVE  CallersOK(cs, gs, fs)
<1>1. Ordered(cs, gs)
  BY SameOrdered DEF CallersOK
<1>2. ASSUME NEW n \in DOMAIN fs, n # 1 PROVE Awaits(cs, gs, fs[n - 1], fs[n])
  <2>1. n - 1 \in DOMAIN fs
    BY <1>2, StackFacts
  <2>2. Awaits(cs, es, fs[n - 1], fs[n])
    BY <1>2 DEF CallersOK
  <2> QED
    BY <2>1, <2>2, SameFrame
<1> QED
  BY <1>1, <1>2 DEF CallersOK

\* So it is for all calls.
LEMMA SameReady ==
    ASSUME NEW cs, NEW es, Forest(es), NEW gs, Forest(gs), SameMembers(es, gs),
           NEW fs, StackOK(cs, fs), Held(es, fs), MembersOK(cs, es, fs)
    PROVE  MembersOK(cs, gs, fs)
<1>1. Len(fs) \in DOMAIN fs /\ Last(fs) = fs[Len(fs)]
  BY StackFacts
<1> QED
  BY <1>1, SameCallers, SameFrame DEF MembersOK

\* Members that stay the same twice.
LEMMA SameTransitive ==
    ASSUME NEW es, Forest(es), NEW gs, Forest(gs), NEW hs, Forest(hs), SameMembers(es, gs), SameMembers(gs, hs)
    PROVE  SameMembers(es, hs)
<1>1. ASSUME NEW k \in DOMAIN hs, hs[k].kind = "class" PROVE MembersOf(hs, k) = MembersOf(es, k)
  <2>1. CASE k \in DOMAIN gs
    BY <1>1, <2>1 DEF SameMembers
  <2>2. CASE k \notin DOMAIN gs
    <3>1. k \in Nat /\ k # 0 /\ k \notin DOMAIN es
      BY <2>2 DEF Forest, SameMembers
    <3> QED
      BY <1>1, <2>2, <3>1, NoMembers DEF SameMembers
  <2> QED
    BY <2>1, <2>2
<1> QED
  BY <1>1 DEF SameMembers

\* The members of the same tree.
LEMMA SameTreeMembers ==
    ASSUME NEW es, NEW gs, SameTree(es, gs)
    PROVE  SameMembers(es, gs)
  BY DEF SameTree, SameMembers, MembersOf

\* A new entity that is no member of a class.
LEMMA AddedMembers ==
    ASSUME NEW es, Forest(es), NEW r \in EntityType, r.parent \in 0 .. Len(es),
           r.parent # 0 /\ r.role = "child" => es[r.parent].kind # "class"
    PROVE  SameMembers(es, Append(es, r)) /\ MembersOf(Append(es, r), Len(es) + 1) = {}
<1> DEFINE gs == Append(es, r)
<1>1. /\ Len(es) \in Nat /\ DOMAIN es = 1 .. Len(es) /\ DOMAIN gs = 1 .. Len(es) + 1
      /\ gs[Len(es) + 1] = r /\ \A e \in DOMAIN es : gs[e] = es[e] /\ es[e].parent \in 0 .. Len(es)
  BY DEF Forest
<1> HIDE DEF gs
<1>2. ASSUME NEW k \in DOMAIN gs, gs[k].kind = "class" PROVE MembersOf(gs, k) = MembersOf(es, k)
  <2>1. k # 0 /\ (k = r.parent => r.role # "child")
    BY <1>1, <1>2
  <2>2. Len(es) + 1 \notin MembersOf(gs, k)
    BY <1>1, <2>1 DEF MembersOf
  <2> QED
    BY <1>1, <2>2 DEF MembersOf
<1>3. MembersOf(gs, Len(es) + 1) = {}
  BY <1>1 DEF MembersOf
<1> QED
  BY <1>1, <1>2, <1>3 DEF SameMembers, gs

\* An entity gets a parent that is no class.
LEMMA LinkedMembers ==
    ASSUME NEW es, Forest(es), NEW e \in DOMAIN es, es[e].parent = 0, NEW p \in DOMAIN es,
           es[e].role = "child" => es[p].kind # "class"
    PROVE  SameMembers(es, [es EXCEPT ![e].parent = p])
<1> DEFINE gs == [es EXCEPT ![e].parent = p]
<1>1. /\ DOMAIN gs = DOMAIN es /\ \A d \in DOMAIN es : d # 0 /\ (d # e => gs[d] = es[d])
      /\ gs[e].parent = p /\ gs[e].role = es[e].role /\ gs[e].kind = es[e].kind /\ gs[e].cursor = es[e].cursor
  <2>1. es \in Seq(EntityType)
    BY DEF Forest
  <2>2. es[e] \in EntityType
    BY <2>1
  <2>3. gs = [es EXCEPT ![e] = [es[e] EXCEPT !.parent = p]]
    OBVIOUS
  <2>4. DOMAIN gs = DOMAIN es /\ gs[e] = [es[e] EXCEPT !.parent = p] /\ \A d \in DOMAIN es : d # 0 /\ (d # e => gs[d] = es[d])
    BY <2>1
  <2> HIDE DEF gs
  <2> QED
    BY <2>2, <2>4 DEF EntityType
<1> HIDE DEF gs
<1>2. ASSUME NEW k \in DOMAIN gs, gs[k].kind = "class" PROVE MembersOf(gs, k) = MembersOf(es, k)
  <2>1. k # 0 /\ es[k].kind = "class" /\ e \notin MembersOf(gs, k) /\ e \notin MembersOf(es, k)
    BY <1>1, <1>2 DEF MembersOf
  <2> QED
    BY <1>1, <2>1 DEF MembersOf
<1> QED
  BY <1>1, <1>2 DEF SameMembers, gs

----------------------------------------------------------------------------
(* Calls and members.                                                      *)

\* Two stacks whose calls are the same but for the last, which is for the same entity.
Alike(fs, gs) ==
    /\ DOMAIN gs = DOMAIN fs /\ Len(gs) = Len(fs)
    /\ \A n \in DOMAIN fs :
         /\ gs[n].kind = fs[n].kind /\ gs[n].cursor = fs[n].cursor
         /\ fs[n].kind # "friend" => gs[n].entity = fs[n].entity
         /\ n # Len(fs) => gs[n] = fs[n]

\* The callers wait for the same in a stack that differs at its end.
LEMMA AlikeCallers ==
    ASSUME NEW cs, NEW es, NEW fs, NEW gs, StackOK(cs, fs), Alike(fs, gs), CallersOK(cs, es, fs)
    PROVE  CallersOK(cs, es, gs)
<1>1. ASSUME NEW n \in DOMAIN gs, n # 1 PROVE Awaits(cs, es, gs[n - 1], gs[n])
  <2>1. n \in DOMAIN fs /\ n - 1 \in DOMAIN fs /\ n - 1 # Len(fs)
    BY <1>1, StackFacts DEF Alike
  <2>2. Awaits(cs, es, fs[n - 1], fs[n])
    BY <1>1, <2>1 DEF CallersOK
  <2>3. /\ gs[n - 1] = fs[n - 1] /\ gs[n].kind = fs[n].kind /\ gs[n].cursor = fs[n].cursor
        /\ fs[n].kind # "friend" => gs[n].entity = fs[n].entity
    BY <2>1 DEF Alike
  <2> QED
    BY <2>2, <2>3 DEF Awaits, Younger
<1> QED
  BY <1>1 DEF CallersOK

\* Once the cursor has been dealt with, the call goes on.
LEMMA AwaitedReady ==
    ASSUME NEW cs, NEW es, Forest(es), NEW f \in FrameType, NEW d \in Nat, AwaitsCursor(cs, es, f, d),
           d \in DOMAIN cs => cs[d].kind # "access_specifier"
    PROVE  Ready(cs, es, f)
<1>1. SUFFICES ASSUME f.kind = "class" PROVE Ready(cs, es, f)
  BY DEF Ready
<1>2. f.todo \in Seq(Nat)
  BY DEF FrameType
<1>3. \A e \in MembersOf(es, f.entity), m \in DOMAIN f.todo : es[e].cursor < f.todo[m]
  <2>1. TAKE e \in MembersOf(es, f.entity), m \in DOMAIN f.todo
  <2>2. es[e].cursor \in Nat /\ f.todo[m] \in Nat
    BY <1>2, MembersFacts
  <2>3. es[e].cursor < d /\ d < f.todo[m]
    BY <1>1 DEF AwaitsCursor
  <2> QED
    BY <2>2, <2>3
<1>4. \A s \in SpecifiersOf(cs, f.cursor) : s # d
  BY DEF SpecifiersOf
<1> QED
  BY <1>1, <1>3, <1>4 DEF Ready, AwaitsCursor

\* A cursor is visited.
LEMMA AdvancedMembers ==
    ASSUME NEW cs, StackOK(cs, stack), Top.todo # <<>>, NEW es, MembersOK(cs, es, stack)
    PROVE  /\ CallersOK(cs, es, Advanced) /\ AwaitsCursor(cs, es, Last(Advanced), Head(Top.todo))
           /\ Last(Advanced) \in FrameType /\ Head(Top.todo) \in Nat
<1> DEFINE n == Len(stack)
           f == Advanced[n]
           todo == Top.todo
<1>1. /\ stack \in Seq(FrameType) /\ n \in Nat /\ n >= 1 /\ DOMAIN stack = 1 .. n /\ n \in DOMAIN stack
      /\ stack[n] \in FrameType /\ Top = stack[n]
  BY StackFacts DEF Top
<1>2. todo \in Seq(Nat) /\ todo # <<>>
  BY <1>1 DEF FrameType
<1>3. /\ f.kind = Top.kind /\ f.cursor = Top.cursor /\ f.entity = Top.entity /\ f.todo = Tail(todo)
      /\ Advanced \in Seq(FrameType) /\ Len(Advanced) = n /\ Last(Advanced) = f /\ f \in FrameType
      /\ DOMAIN Advanced = DOMAIN stack /\ \A m \in DOMAIN stack : m # n => Advanced[m] = stack[m]
  <2>1. StackOK(cs, Advanced) /\ Len(Advanced) = Len(stack)
    BY AdvancedOK
  <2>2. Advanced = [stack EXCEPT ![n] = [stack[n] EXCEPT !.todo = Tail(stack[n].todo)]]
    BY DEF Advanced
  <2>3. f = [stack[n] EXCEPT !.todo = Tail(stack[n].todo)] /\ \A m \in DOMAIN stack : m # n => Advanced[m] = stack[m]
    BY <1>1, <2>2
  <2>4. Advanced \in Seq(FrameType) /\ Last(Advanced) = Advanced[n] /\ DOMAIN Advanced = 1 .. n /\ Advanced[n] \in FrameType
    BY <1>1, <2>1, StackFacts
  <2>5. f.kind = Top.kind /\ f.cursor = Top.cursor /\ f.entity = Top.entity /\ f.todo = Tail(todo)
    BY <1>1, <2>3 DEF FrameType
  <2> HIDE DEF f, n, todo
  <2> QED
    BY <1>1, <2>1, <2>3, <2>4, <2>5 DEF f, n
<1>4. Head(todo) = todo[1] /\ 1 \in DOMAIN todo /\ todo[1] \in Nat
  BY <1>2
<1>5. /\ \A m \in DOMAIN Tail(todo) : m + 1 \in DOMAIN todo /\ Tail(todo)[m] = todo[m + 1] /\ 1 < m + 1
      /\ \A m \in DOMAIN todo : m # 1 => m - 1 \in DOMAIN Tail(todo) /\ Tail(todo)[m - 1] = todo[m]
      /\ \A i, j \in DOMAIN Tail(todo) : i < j => i + 1 < j + 1
  BY <1>2
<1>6. ASSUME f.kind = "class" PROVE AwaitsCursor(cs, es, f, todo[1])
  <2>1. Ready(cs, es, Top) /\ Top.kind = "class"
    BY <1>3, <1>6 DEF MembersOK, Top
  <2>2. Increasing(todo)
    BY <2>1 DEF Ready
  <2>3. Increasing(f.todo) /\ \A m \in DOMAIN f.todo : todo[1] < f.todo[m]
    <3> HIDE DEF f, todo, n
    <3> QED
      BY <1>3, <1>4, <1>5, <2>2 DEF Increasing
  <2>4. \A e \in MembersOf(es, f.entity) : es[e].cursor < todo[1]
    BY <1>3, <1>4, <2>1 DEF Ready
  <2>5. \A s \in SpecifiersOf(cs, f.cursor) : (\E m \in DOMAIN f.todo : f.todo[m] = s) \/ s = todo[1] \/ Known(es, f.entity, s)
    <3>1. TAKE s \in SpecifiersOf(cs, f.cursor)
    <3>2. (\E m \in DOMAIN todo : todo[m] = s) \/ Known(es, f.entity, s)
      BY <1>3, <2>1 DEF Ready
    <3> HIDE DEF f, todo, n
    <3> QED
      BY <1>3, <1>5, <3>2
  <2> QED
    BY <2>3, <2>4, <2>5 DEF AwaitsCursor
<1>7. Alike(stack, Advanced)
  <2>1. \A m \in DOMAIN stack :
          Advanced[m].kind = stack[m].kind /\ Advanced[m].entity = stack[m].entity /\ Advanced[m].cursor = stack[m].cursor
    BY AdvancedOK
  <2> HIDE DEF f, todo
  <2> QED
    BY <1>1, <1>3, <2>1 DEF Alike
<1>8. CallersOK(cs, es, Advanced)
  BY <1>7, AlikeCallers DEF MembersOK
<1>9. AwaitsCursor(cs, es, f, todo[1])
  BY <1>6 DEF AwaitsCursor
<1> QED
  BY <1>3, <1>4, <1>8, <1>9

\* Calls end.
LEMMA PrefixMembers ==
    ASSUME NEW cs, NEW es, NEW fs, StackOK(cs, fs), CallersOK(cs, es, fs), NEW n \in 1 .. Len(fs), n # Len(fs)
    PROVE  LET gs == SubSeq(fs, 1, n)
           IN /\ CallersOK(cs, es, gs) /\ AwaitsCursor(cs, es, Last(gs), fs[n + 1].cursor)
              /\ Younger(es, Last(gs), fs[n + 1]) /\ Last(gs) = fs[n]
<1> DEFINE gs == SubSeq(fs, 1, n)
<1>1. StackOK(cs, gs) /\ Len(gs) = n /\ \A m \in 1 .. n : gs[m] = fs[m]
  BY PrefixOK
<1> HIDE DEF gs
<1>6. DOMAIN gs = 1 .. n /\ Last(gs) = gs[n]
  BY <1>1, StackFacts
<1>7. Len(fs) \in Nat /\ DOMAIN fs = 1 .. Len(fs)
  BY StackFacts
<1>2. /\ DOMAIN gs = 1 .. n /\ Last(gs) = gs[n] /\ n + 1 \in DOMAIN fs /\ n + 1 # 1 /\ (n + 1) - 1 = n
      /\ \A m \in 1 .. n : m \in DOMAIN fs /\ (m # 1 => m - 1 \in 1 .. n)
  <2> DEFINE l == Len(fs)
  <2>1. l \in Nat /\ n \in 1 .. l /\ n # l /\ DOMAIN fs = 1 .. l
    BY <1>7
  <2> HIDE DEF l
  <2> QED
    BY <1>6, <2>1
<1>3. Awaits(cs, es, fs[n], fs[n + 1])
  BY <1>2 DEF CallersOK
<1>4. CallersOK(cs, es, gs)
  BY <1>1, <1>2 DEF CallersOK
<1>5. Last(gs) = fs[n]
  BY <1>1, <1>2
<1> QED
  BY <1>3, <1>4, <1>5 DEF Awaits, gs

\* What is below a call waits for it.
LEMMA FrontMembers ==
    ASSUME NEW cs, NEW es, NEW fs, StackOK(cs, fs), Last(fs).kind # "file", CallersOK(cs, es, fs)
    PROVE  /\ CallersOK(cs, es, Front(fs)) /\ AwaitsCursor(cs, es, Last(Front(fs)), Last(fs).cursor)
           /\ Younger(es, Last(Front(fs)), Last(fs))
<1> DEFINE n == Len(fs)
           m == n - 1
<1>1. n \in Nat /\ n >= 1 /\ Last(fs) = fs[n] /\ n # 1
  BY StackFacts
<1>2. m \in 1 .. n /\ m # n /\ m + 1 = n
  <2> HIDE DEF n
  <2> QED
    BY <1>1
<1>3. Front(fs) = SubSeq(fs, 1, m)
  BY DEF Front
<1> HIDE DEF m
<1>4. /\ CallersOK(cs, es, SubSeq(fs, 1, m)) /\ AwaitsCursor(cs, es, Last(SubSeq(fs, 1, m)), fs[m + 1].cursor)
      /\ Younger(es, Last(SubSeq(fs, 1, m)), fs[m + 1])
  BY <1>2, PrefixMembers
<1> QED
  BY <1>1, <1>2, <1>3, <1>4

\* A call begins.
LEMMA PushedMembers ==
    ASSUME NEW cs, NEW es, NEW fs, StackOK(cs, fs), CallersOK(cs, es, fs),
           NEW f \in FrameType, AwaitsCursor(cs, es, Last(fs), f.cursor), Younger(es, Last(fs), f), Ready(cs, es, f)
    PROVE  MembersOK(cs, es, Append(fs, f))
<1> DEFINE gs == Append(fs, f)
           n == Len(fs)
<1>1. fs \in Seq(FrameType) /\ n \in Nat /\ n >= 1 /\ DOMAIN fs = 1 .. n /\ Last(fs) = fs[n]
  BY StackFacts
<1>2. /\ gs \in Seq(FrameType) /\ Len(gs) = n + 1 /\ DOMAIN gs = 1 .. n + 1 /\ gs[n + 1] = f
      /\ \A m \in 1 .. n : gs[m] = fs[m]
  BY <1>1, AppendedSeq
<1> HIDE DEF gs, n
<1>3. ASSUME NEW m \in DOMAIN gs, m # 1 PROVE Awaits(cs, es, gs[m - 1], gs[m])
  <2>1. CASE m = n + 1
    <3>1. gs[m - 1] = Last(fs) /\ gs[m] = f
      BY <1>1, <1>2, <2>1
    <3> QED
      BY <3>1 DEF Awaits
  <2>2. CASE m # n + 1
    <3>1. m \in DOMAIN fs /\ gs[m] = fs[m] /\ gs[m - 1] = fs[m - 1]
      BY <1>1, <1>2, <1>3, <2>2
    <3> QED
      BY <1>3, <3>1 DEF CallersOK
  <2> QED
    BY <2>1, <2>2
<1>4. Last(gs) = f
  BY <1>1, <1>2 DEF Last
<1> QED
  BY <1>3, <1>4 DEF CallersOK, MembersOK, gs

\* A class has no members yet.
LEMMA ClassReady ==
    ASSUME file \in Files, NEW es, NEW kind, NEW c \in Nat, NEW e, kind = "class" => MembersOf(es, e) = {}
    PROVE  Ready(file.cursors, es, Frame(kind, c, e, Children(c)))
<1> DEFINE S == {k \in Cursors : Cursor(k).parent = c}
           n == Len(file.cursors)
           f == Frame(kind, c, e, Children(c))
<1>1. n \in Nat /\ S \in SUBSET (1 .. n)
  <2>1. n \in Nat /\ Cursors = 1 .. n
    BY FileFacts DEF CursorsOK, Cursors
  <2> QED
    BY <2>1
<1>2. f.kind = kind /\ f.cursor = c /\ f.entity = e /\ f.todo = InOrder(S)
  BY DEF Frame, Children
<1>3. \A s \in SpecifiersOf(file.cursors, c) : s \in S
  BY DEF SpecifiersOf, Cursors, Cursor
<1> HIDE DEF S, n, f
<1>4. Increasing(InOrder(S)) /\ \A k \in S : \E i \in DOMAIN InOrder(S) : InOrder(S)[i] = k
  BY <1>1, InOrderFacts
<1>5. Ready(file.cursors, es, f)
  BY <1>2, <1>3, <1>4 DEF Ready
<1> QED
  BY <1>5 DEF f

\* The entity that is made from the cursor becomes a member of the class.
LEMMA MemberAdded ==
    ASSUME NEW cs, NEW es, Forest(es), NEW gs, Forest(gs), DOMAIN es \subseteq DOMAIN gs,
           \A d \in DOMAIN es : gs[d].kind = es[d].kind /\ gs[d].cursor = es[d].cursor,
           NEW fs, StackOK(cs, fs), Held(es, fs), CallersOK(cs, es, fs),
           NEW c \in DOMAIN cs, c \in Nat, AwaitsCursor(cs, es, Last(fs), c),
           Last(fs).kind = "class", cs[c].parent = Last(fs).cursor,
           NEW e \in DOMAIN gs, gs[e].cursor = c, gs[e].kind # "file", \A d \in MembersOf(es, Last(fs).entity) : d < e,
           \A k \in DOMAIN gs : gs[k].kind = "class" =>
             MembersOf(gs, k) = (IF k = Last(fs).entity THEN MembersOf(es, k) \cup {e} ELSE MembersOf(es, k))
    PROVE  MembersOK(cs, gs, fs)
<1> DEFINE n == Len(fs)
           f == Last(fs)
           p == f.entity
<1>1. /\ n \in DOMAIN fs /\ f = fs[n] /\ p \in DOMAIN es /\ p \in DOMAIN gs /\ p \in Nat
      /\ es[p].kind = "class" /\ gs[p].kind = "class" /\ gs[p].cursor = f.cursor /\ es[p].cursor = f.cursor
      /\ f.todo \in Seq(Nat) /\ f.kind = "class"
  <2>1. n \in DOMAIN fs /\ f = fs[n]
    BY StackFacts
  <2>2. p \in DOMAIN es /\ es[p].kind = "class" /\ es[p].cursor = f.cursor /\ f.todo \in Seq(Nat) /\ p \in Nat
    BY <2>1, ClassFrame
  <2> HIDE DEF f, n
  <2> QED
    BY <2>1, <2>2 DEF f
<1>2. MembersOf(gs, p) = MembersOf(es, p) \cup {e}
  BY <1>1
<1>3. \A d \in MembersOf(es, p) : /\ d \in DOMAIN es /\ d \in Nat /\ gs[d].kind = es[d].kind /\ gs[d].cursor = es[d].cursor
                                  /\ gs[d].cursor \in Nat /\ gs[d].cursor < c /\ d < e
  <2>1. \A d \in MembersOf(es, p) : d \in DOMAIN es /\ d \in Nat /\ es[d].cursor \in Nat
    BY MembersFacts
  <2> QED
    BY <1>1, <2>1 DEF AwaitsCursor
<1>4. e \in Nat
  BY DEF Forest
<1>5. \A s \in SpecifiersOf(cs, f.cursor) : (\E m \in DOMAIN f.todo : f.todo[m] = s) \/ Known(gs, p, s)
  <2>1. TAKE s \in SpecifiersOf(cs, f.cursor)
  <2>2. (\E m \in DOMAIN f.todo : f.todo[m] = s) \/ s = c \/ Known(es, p, s)
    BY <1>1 DEF AwaitsCursor
  <2> HIDE DEF f, p
  <2> QED
    BY <1>2, <1>3, <2>2 DEF Known
<1>6. Ready(cs, gs, f)
  <2>1. ASSUME NEW d \in MembersOf(gs, p), NEW m \in DOMAIN f.todo PROVE gs[d].cursor < f.todo[m]
    <3>1. c < f.todo[m] /\ f.todo[m] \in Nat
      BY <1>1 DEF AwaitsCursor
    <3>2. gs[d].cursor = c \/ (gs[d].cursor \in Nat /\ gs[d].cursor < c)
      BY <1>2, <1>3
    <3> HIDE DEF f, p
    <3> QED
      BY <3>1, <3>2
  <2>2. Increasing(f.todo)
    BY <1>1 DEF AwaitsCursor
  <2> HIDE DEF f
  <2> QED
    BY <1>5, <2>1, <2>2 DEF Ready
<1>7. ClassOK(cs, gs, p)
  <2> HIDE DEF f, n
  <2>0. ClassOK(cs, es, p) /\ cs[c].parent = gs[p].cursor /\ es[p].cursor = gs[p].cursor
    BY <1>1 DEF CallersOK, Ordered, f
  <2> HIDE DEF p
  <2>1. \A d \in MembersOf(gs, p) :
          gs[d].kind # "file" /\ gs[d].cursor \in DOMAIN cs /\ cs[gs[d].cursor].parent = gs[p].cursor
    BY <1>2, <1>3, <2>0 DEF ClassOK
  <2>2. \A a, b \in MembersOf(gs, p) : a < b => gs[a].cursor < gs[b].cursor
    <3>1. TAKE a, b \in MembersOf(gs, p)
    <3>2. CASE a \in MembersOf(es, p) /\ b \in MembersOf(es, p)
      BY <1>3, <2>0, <3>2 DEF ClassOK
    <3>3. CASE b = e
      BY <1>2, <1>3, <1>4, <3>3
    <3>4. CASE a = e
      BY <1>2, <1>3, <1>4, <3>4
    <3> QED
      BY <1>2, <3>2, <3>3, <3>4
  <2>3. ASSUME NEW d \in MembersOf(gs, p), NEW s \in SpecifiersOf(cs, gs[p].cursor), s <= gs[d].cursor
        PROVE  Known(gs, p, s)
    <3>1. CASE d \in MembersOf(es, p)
      <4>1. Known(es, p, s)
        BY <1>3, <2>0, <2>3, <3>1 DEF ClassOK
      <4> QED
        BY <1>2, <1>3, <4>1 DEF Known
    <3>2. CASE d = e
      <4>1. s <= c /\ s \in SpecifiersOf(cs, f.cursor)
        BY <1>1, <2>3, <3>2 DEF p
      <4>2. \A m \in DOMAIN f.todo : c < f.todo[m] /\ f.todo[m] \in Nat
        BY <1>1 DEF AwaitsCursor, f
      <4> QED
        BY <1>5, <4>1, <4>2
    <3> QED
      BY <1>2, <3>1, <3>2
  <2> QED
    BY <2>1, <2>2, <2>3 DEF ClassOK
<1>8. Ordered(cs, gs)
  <2>1. SUFFICES ASSUME NEW k \in DOMAIN gs, gs[k].kind = "class", k # p PROVE ClassOK(cs, gs, k)
    BY <1>7 DEF Ordered
  <2>2. MembersOf(gs, k) = MembersOf(es, k)
    BY <2>1
  <2>3. CASE k \in DOMAIN es
    <3>1. ClassOK(cs, es, k) /\ gs[k].cursor = es[k].cursor
      BY <2>1, <2>3 DEF CallersOK, Ordered
    <3>2. \A d \in MembersOf(es, k) : gs[d].kind = es[d].kind /\ gs[d].cursor = es[d].cursor
      BY DEF MembersOf
    <3> QED
      BY <2>2, <3>1, <3>2 DEF ClassOK, Known
  <2>4. CASE k \notin DOMAIN es
    <3>1. k \in Nat /\ k # 0
      BY DEF Forest
    <3>2. MembersOf(gs, k) = {}
      BY <2>2, <2>4, <3>1, NoMembers
    <3> QED
      BY <3>2 DEF ClassOK
  <2> QED
    BY <2>3, <2>4
<1>9. ASSUME NEW m \in DOMAIN fs, m # 1 PROVE Awaits(cs, gs, fs[m - 1], fs[m])
  <2>1. Awaits(cs, es, fs[m - 1], fs[m]) /\ m - 1 \in DOMAIN fs /\ m - 1 # n
    <3>1. n \in Nat /\ DOMAIN fs = 1 .. n
      BY StackFacts
    <3> HIDE DEF n
    <3> QED
      BY <1>9, <3>1 DEF CallersOK
  <2>2. SUFFICES ASSUME fs[m - 1].kind = "class" PROVE Awaits(cs, gs, fs[m - 1], fs[m])
    BY DEF Awaits, AwaitsCursor, Younger
  <2> DEFINE k == fs[m - 1].entity
  <2>3. k \in DOMAIN es /\ es[k].kind = "class" /\ k # 0
    BY <2>1, <2>2, ClassFrame
  <2>4. k # p
    BY <1>1, <2>1, <2>3 DEF Held
  <2>5. MembersOf(gs, k) = MembersOf(es, k)
    BY <2>3, <2>4
  <2>6. \A d \in MembersOf(es, k) : gs[d].cursor = es[d].cursor
    BY DEF MembersOf
  <2>7. \A s : Known(gs, k, s) <=> Known(es, k, s)
    BY <2>5, <2>6 DEF Known
  <2> HIDE DEF p, f, n
  <2> QED
    BY <2>1, <2>5, <2>6, <2>7 DEF Awaits, AwaitsCursor, Younger
<1> QED
  BY <1>6, <1>8, <1>9 DEF CallersOK, MembersOK

\* What is returned from a call becomes a member, or is held by a friend.
LEMMA ReturnedMembers ==
    ASSUME NEW cs, NEW es, NEW fs, Forest(es), Placed(cs, es), StackOK(cs, fs), Held(es, fs), CallersOK(cs, es, fs),
           NEW e, Free(es, fs, e), Returnable(cs, Last(fs), es[e]), es[e].kind # "file",
           NEW c \in DOMAIN cs, c \in Nat, AwaitsCursor(cs, es, Last(fs), c), cs[c].kind # "access_specifier",
           cs[c].parent = Last(fs).cursor,
           Last(fs).kind = "class" => es[e].cursor = c /\ \A d \in MembersOf(es, Last(fs).entity) : d < e
    PROVE  MembersOK(cs, Added(es, fs, e), Holding(es, fs, e))
<1> DEFINE n == Len(fs)
           f == Last(fs)
           gs == Added(es, fs, e)
<1>1. /\ n \in DOMAIN fs /\ f = fs[n] /\ f \in FrameType
      /\ e \in DOMAIN es /\ es[e].parent = 0 /\ \A m \in DOMAIN fs : fs[m].entity # e
  BY StackFacts DEF Free
<1>2. Forest(gs)
  BY ReturnedOK
<1>3. CASE f.kind = "friend"
  <2>1. SameMembers(es, gs)
    BY <1>1, <1>3, CommentedSame, SameTreeMembers DEF Added
  <2>2. CallersOK(cs, gs, fs)
    BY <1>2, <2>1, SameCallers
  <2>3. Alike(fs, Holding(es, fs, e))
    <3>1. fs \in Seq(FrameType) /\ n \in Nat /\ DOMAIN fs = 1 .. n
      BY StackFacts
    <3>2. Holding(es, fs, e) = [fs EXCEPT ![n] = [fs[n] EXCEPT !.entity = e, !.comment = es[e].comment]]
      <4>1. Holding(es, fs, e) = [fs EXCEPT ![Len(fs)].entity = e, ![Len(fs)].comment = es[e].comment]
        BY <1>3 DEF Holding
      <4> QED
        BY <1>1, <4>1
    <3> DEFINE g == [fs[n] EXCEPT !.entity = e, !.comment = es[e].comment]
    <3>3. g.kind = fs[n].kind /\ g.cursor = fs[n].cursor /\ g \in FrameType
      <4>1. e \in Nat /\ es[e] \in EntityType
        BY <1>1 DEF Forest
      <4>2. es[e].comment \in Nat
        BY <4>1 DEF EntityType
      <4> QED
        BY <1>1, <4>1, <4>2 DEF FrameType
    <3> HIDE DEF g
    <3>4. Len([fs EXCEPT ![n] = g]) = n /\ DOMAIN [fs EXCEPT ![n] = g] = DOMAIN fs /\ [fs EXCEPT ![n] = g][n] = g
          /\ \A m \in DOMAIN fs : m # n => [fs EXCEPT ![n] = g][m] = fs[m]
      BY <1>1, <3>1, <3>3, ChangedSeq
    <3>5. fs[n].kind = "friend"
      BY <1>1, <1>3
    <3> QED
      BY <3>2, <3>3, <3>4, <3>5 DEF Alike, g
  <2>4. Last(Holding(es, fs, e)).kind = "friend"
    <3>1. /\ Len(Holding(es, fs, e)) = n /\ Holding(es, fs, e)[n].kind = fs[n].kind
      BY <1>1, <2>3 DEF Alike
    <3> QED
      BY <1>1, <1>3, <3>1 DEF Last
  <2> QED
    BY <2>2, <2>3, <2>4, AlikeCallers DEF MembersOK, Ready
<1>4. CASE f.kind \notin {"friend", "class"}
  <2> DEFINE p == f.entity
  <2>1. gs = [es EXCEPT ![e].parent = p] /\ Holding(es, fs, e) = fs
    BY <1>4 DEF Added, Holding
  <2>2. p \in DOMAIN es /\ EntityFits(es, f)
    BY <1>1, <1>4 DEF Held
  <2>3. es[p].kind # "class"
    <3>1. f.kind \in FrameKinds
      BY <1>1 DEF FrameType
    <3>2. f.kind = "template" => es[p].kind \in TemplateKinds
      BY <2>2 DEF EntityFits
    <3>3. f.kind # "template" => es[p].kind = f.kind
      BY <1>4, <2>2, <3>1 DEF EntityFits, FrameKinds
    <3> QED
      BY <1>4, <3>2, <3>3 DEF TemplateKinds, SpecializationKinds, FunctionTemplateKinds
  <2>4. SameMembers(es, gs)
    <3> HIDE DEF gs, p, f
    <3>1. SameMembers(es, [es EXCEPT ![e].parent = p])
      BY <1>1, <2>2, <2>3, LinkedMembers
    <3> QED
      BY <2>1, <3>1
  <2>5. CallersOK(cs, gs, fs)
    BY <1>2, <2>4, SameCallers
  <2> QED
    BY <1>4, <2>1, <2>5 DEF MembersOK, Ready
<1>5. CASE f.kind = "class"
  <2> DEFINE p == f.entity
  <2>1. gs = [es EXCEPT ![e].parent = p] /\ Holding(es, fs, e) = fs
    BY <1>5 DEF Added, Holding
  <2>2. p \in DOMAIN es /\ p # 0 /\ es[e].role = "child"
    BY <1>1, <1>5, ClassFrame DEF Returnable, OfParameters
  <2>3. /\ DOMAIN gs = DOMAIN es /\ gs[e].parent = p /\ gs[e].role = "child" /\ gs[e].kind = es[e].kind
        /\ gs[e].cursor = es[e].cursor /\ \A d \in DOMAIN es : d # e => gs[d] = es[d]
    <3>1. es \in Seq(EntityType)
      BY DEF Forest
    <3>2. es[e] \in EntityType
      BY <1>1, <3>1
    <3> DEFINE r == [es[e] EXCEPT !.parent = p]
    <3>3. gs = [es EXCEPT ![e] = r]
      BY <2>1
    <3>4. r.parent = p /\ r.role = es[e].role /\ r.kind = es[e].kind /\ r.cursor = es[e].cursor
      BY <3>2 DEF EntityType
    <3> HIDE DEF r, gs, p
    <3>5. DOMAIN gs = DOMAIN es /\ gs[e] = r /\ \A d \in DOMAIN es : d # e => gs[d] = es[d]
      BY <1>1, <3>1, <3>3
    <3> QED
      BY <2>2, <3>4, <3>5
  <2>4. \A k \in DOMAIN gs : MembersOf(gs, k) = (IF k = p THEN MembersOf(es, k) \cup {e} ELSE MembersOf(es, k))
    <3>1. TAKE k \in DOMAIN gs
    <3>2. k # 0 /\ e \notin MembersOf(es, k)
      BY <1>1, <2>3 DEF Forest, MembersOf
    <3> HIDE DEF gs, p, f
    <3>3. \A d \in DOMAIN es : d # e => (d \in MembersOf(gs, k) <=> d \in MembersOf(es, k))
      BY <2>3 DEF MembersOf
    <3>4. e \in MembersOf(gs, k) <=> k = p
      BY <1>1, <2>3 DEF MembersOf
    <3>5. MembersOf(gs, k) \subseteq DOMAIN es /\ MembersOf(es, k) \subseteq DOMAIN es
      BY <2>3 DEF MembersOf
    <3>6. k = p => MembersOf(gs, k) = MembersOf(es, k) \cup {e}
      BY <3>2, <3>3, <3>4, <3>5
    <3>7. k # p => MembersOf(gs, k) = MembersOf(es, k)
      BY <3>2, <3>3, <3>4, <3>5
    <3> QED
      BY <3>6, <3>7
  <2>5. /\ DOMAIN es \subseteq DOMAIN gs /\ \A d \in DOMAIN es : gs[d].kind = es[d].kind /\ gs[d].cursor = es[d].cursor
        /\ e \in DOMAIN gs /\ gs[e].cursor = c /\ gs[e].kind # "file" /\ \A d \in MembersOf(es, p) : d < e
    BY <1>1, <1>5, <2>3
  <2> HIDE DEF gs
  <2>6. MembersOK(cs, gs, fs)
    BY <1>2, <1>5, <2>4, <2>5, MemberAdded
  <2> QED
    BY <2>1, <2>6 DEF gs
<1> QED
  BY <1>3, <1>4, <1>5

\* No call is for an access specifier.
LEMMA FrameCursor ==
    ASSUME NEW cs, NEW fs, StackOK(cs, fs), NEW n \in DOMAIN fs, fs[n].kind # "file"
    PROVE  fs[n].cursor \in DOMAIN cs /\ cs[fs[n].cursor].kind # "access_specifier" /\ fs[n].cursor \in Nat
<1>1. fs[n] \in FrameType /\ CursorFits(cs, fs[n])
  BY StackFacts DEF FrameOK
<1>2. fs[n].cursor \in Nat /\ fs[n].kind \in FrameKinds
  BY <1>1 DEF FrameType
<1>3. fs[n].cursor \in DOMAIN cs
  BY <1>1 DEF CursorFits
<1>4. cs[fs[n].cursor].kind # "access_specifier"
  BY <1>1, <1>2 DEF CursorFits, FrameKinds, ClassKinds, TemplateKinds, SpecializationKinds, FunctionTemplateKinds
<1> QED
  BY <1>2, <1>3, <1>4

\* A new entity is younger than the members there are.
LEMMA NewMembers ==
    ASSUME NEW cs, NEW es, Forest(es), NEW gs, Forest(gs), SameMembers(es, gs),
           NEW fs, StackOK(cs, fs), Held(es, fs), CallersOK(cs, es, fs), NEW c, AwaitsCursor(cs, es, Last(fs), c)
    PROVE  /\ CallersOK(cs, gs, fs) /\ AwaitsCursor(cs, gs, Last(fs), c)
           /\ Last(fs).kind = "class" => \A d \in MembersOf(gs, Last(fs).entity) : d \in DOMAIN es /\ d < Len(es) + 1
<1>1. Len(fs) \in DOMAIN fs /\ Last(fs) = fs[Len(fs)]
  BY StackFacts
<1>2. CallersOK(cs, gs, fs) /\ AwaitsCursor(cs, gs, Last(fs), c)
  BY <1>1, SameCallers, SameFrame
<1>3. ASSUME Last(fs).kind = "class", NEW d \in MembersOf(gs, Last(fs).entity) PROVE d \in DOMAIN es /\ d < Len(es) + 1
  <2> DEFINE k == Last(fs).entity
  <2>1. k \in DOMAIN es /\ es[k].kind = "class"
    BY <1>1, <1>3, ClassFrame
  <2>2. d \in MembersOf(es, k)
    BY <1>3, <2>1, SameKnown
  <2>3. d \in DOMAIN es
    BY <2>2, MembersFacts
  <2>4. Len(es) \in Nat /\ DOMAIN es = 1 .. Len(es)
    BY DEF Forest
  <2> QED
    BY <2>3, <2>4
<1> QED
  BY <1>2, <1>3

\* Parameters are no members.
LEMMA ConcatMembers ==
    ASSUME NEW es, Forest(es), NEW q \in Seq(EntityType), \A k \in DOMAIN q : q[k].role = "parameter"
    PROVE  SameMembers(es, es \o q)
<1> DEFINE gs == es \o q
<1>1. es \in Seq(EntityType) /\ Len(es) \in Nat /\ DOMAIN es = 1 .. Len(es) /\ Len(q) \in Nat /\ DOMAIN q = 1 .. Len(q)
  BY DEF Forest
<1>2. /\ DOMAIN gs = 1 .. Len(es) + Len(q) /\ \A e \in DOMAIN es : gs[e] = es[e]
      /\ \A e \in DOMAIN gs : e \notin DOMAIN es => gs[e].role = "parameter"
  <2>1. gs \in Seq(EntityType) /\ Len(gs) = Len(es) + Len(q)
    BY <1>1
  <2>2. \A e \in DOMAIN es : gs[e] = es[e]
    BY <1>1
  <2>3. ASSUME NEW e \in DOMAIN gs, e \notin DOMAIN es PROVE gs[e].role = "parameter"
    <3>1. e - Len(es) \in DOMAIN q /\ gs[e] = q[e - Len(es)]
      BY <1>1, <2>1, <2>3
    <3> QED
      BY <3>1
  <2> QED
    BY <1>1, <2>1, <2>2, <2>3
<1>3. DOMAIN es \subseteq DOMAIN gs
  BY <1>1, <1>2
<1> HIDE DEF gs
<1>4. ASSUME NEW k PROVE MembersOf(gs, k) = MembersOf(es, k)
  <2>1. \A e \in DOMAIN gs : e \in MembersOf(gs, k) <=> e \in MembersOf(es, k)
    BY <1>2 DEF MembersOf
  <2>2. MembersOf(gs, k) \subseteq DOMAIN gs /\ MembersOf(es, k) \subseteq DOMAIN gs
    BY <1>3 DEF MembersOf
  <2> QED
    BY <2>1, <2>2
<1> QED
  BY <1>2, <1>3, <1>4 DEF SameMembers, gs

\* A cursor is visited.
LEMMA VisitedMembers ==
    ASSUME TreeInv, MembersInv, NEW kinds, NEW c \in Visited(kinds)
    PROVE  /\ CallersOK(file.cursors, entities, Advanced) /\ AwaitsCursor(file.cursors, entities, Last(Advanced), c)
           /\ Last(Advanced) \in FrameType /\ c \in Nat /\ file.cursors[c].kind \in kinds
<1>1. mode = "parse" /\ StackOK(file.cursors, stack) /\ KindOf(c) \in kinds
  BY VisitedFacts
<1>2. MembersOK(file.cursors, entities, stack)
  BY <1>1 DEF MembersInv
<1>3. Top.todo # <<>> /\ c = Head(Top.todo)
  BY DEF Visited
<1> QED
  BY <1>1, <1>2, <1>3, AdvancedMembers DEF KindOf, Cursor

\* It is passed, and nothing else happens to a class.
LEMMA PassedMembers ==
    ASSUME TreeInv, NEW kinds, NEW c \in Visited(kinds), "access_specifier" \notin kinds,
           NEW gs, Forest(gs), SameMembers(entities, gs), MembersInv
    PROVE  MembersOK(file.cursors, gs, Advanced)
<1>1. /\ Forest(entities) /\ StackOK(file.cursors, Advanced) /\ Held(entities, Advanced)
  BY VisitedFacts
<1>2. /\ CallersOK(file.cursors, entities, Advanced) /\ AwaitsCursor(file.cursors, entities, Last(Advanced), c)
      /\ Last(Advanced) \in FrameType /\ c \in Nat /\ file.cursors[c].kind # "access_specifier"
  BY VisitedMembers
<1>3. MembersOK(file.cursors, entities, Advanced)
  BY <1>1, <1>2, AwaitedReady DEF MembersOK
<1> QED
  BY <1>1, <1>3, SameReady

----------------------------------------------------------------------------
(* The steps of a parse.                                                   *)

\* Nothing of what the invariant is about changes but this.
SameParse == mode' = mode /\ file' = file /\ macro' = macro

\* Both invariants are kept, the second where it holds.
Kept == TreeInv' /\ (MembersInv => MembersInv')

NextMembers == MembersInv => MembersOK(file.cursors, entities', stack')

\* The calls fs await the cursor c.
Awaiting(es, fs, c) ==
    MembersInv => CallersOK(file.cursors, es, fs) /\ AwaitsCursor(file.cursors, es, Last(fs), c)

\* Hence the invariant holds after a step that leaves a forest and calls that fit it.
LEMMA InvAfter ==
    ASSUME TreeInv, SameParse, comment' \in Nat, Forest(entities'), Placed(file.cursors, entities'), mode = "parse",
           StackOK(file.cursors, stack'), Held(entities', stack'), NextMembers
    PROVE  Kept
<1>1. TreeInv'
  BY DEF TreeInv, SameParse
<1>2. MembersInv => MembersInv'
  BY DEF NextMembers, MembersInv, SameParse
<1> QED
  BY <1>1, <1>2 DEF Kept

\* A cursor that is visited is awaited;
LEMMA VisitedAwaiting ==
    ASSUME TreeInv, NEW kinds, NEW c \in Visited(kinds)
    PROVE  Awaiting(entities, Advanced, c)
  BY VisitedMembers DEF Awaiting

\* so is that of a call, by the calls before.
LEMMA FrontAwaiting ==
    ASSUME TreeInv, mode = "parse", Last(stack).kind # "file"
    PROVE  Awaiting(entities, Front(stack), Last(stack).cursor)
<1>1. StackOK(file.cursors, stack)
  BY DEF TreeInv
<1>2. ASSUME MembersInv PROVE CallersOK(file.cursors, entities, stack)
  BY <1>2 DEF MembersInv, MembersOK
<1> QED
  BY <1>1, <1>2, FrontMembers DEF Awaiting

\* The members stay the same,
LEMMA SameAwaiting ==
    ASSUME NEW es, Forest(es), NEW gs, Forest(gs), SameMembers(es, gs),
           NEW fs, StackOK(file.cursors, fs), Held(es, fs), NEW c, Awaiting(es, fs, c)
    PROVE  Awaiting(gs, fs, c)
<1>1. ASSUME MembersInv PROVE CallersOK(file.cursors, gs, fs) /\ AwaitsCursor(file.cursors, gs, Last(fs), c)
  <2>1. CallersOK(file.cursors, es, fs) /\ AwaitsCursor(file.cursors, es, Last(fs), c)
    BY <1>1 DEF Awaiting
  <2> QED
    BY <2>1, NewMembers
<1> QED
  BY <1>1 DEF Awaiting

\* and the call goes on without an entity for the cursor,
LEMMA PassedOn ==
    ASSUME NEW es, Forest(es), Forest(entities'), SameMembers(es, entities'),
           StackOK(file.cursors, stack'), Held(es, stack'), NEW c \in Nat, Awaiting(es, stack', c),
           c \in DOMAIN file.cursors => file.cursors[c].kind # "access_specifier"
    PROVE  NextMembers
<1>1. SUFFICES ASSUME MembersInv PROVE MembersOK(file.cursors, entities', stack')
  BY DEF NextMembers
<1>2. CallersOK(file.cursors, es, stack') /\ AwaitsCursor(file.cursors, es, Last(stack'), c)
  BY <1>1 DEF Awaiting
<1>3. CallersOK(file.cursors, entities', stack') /\ AwaitsCursor(file.cursors, entities', Last(stack'), c)
  BY <1>2, NewMembers
<1>4. Last(stack') \in FrameType
  BY StackFacts
<1> QED
  BY <1>3, <1>4, AwaitedReady DEF MembersOK

\* or begins another for it.
LEMMA BegunMembers ==
    ASSUME NEW es, Forest(es), Forest(entities'), SameMembers(es, entities'),
           NEW fs, StackOK(file.cursors, fs), Held(es, fs), NEW f \in FrameType, Awaiting(es, fs, f.cursor),
           f.kind # "friend" => f.entity = Len(es) + 1, Ready(file.cursors, entities', f), stack' = Append(fs, f)
    PROVE  NextMembers
<1>1. SUFFICES ASSUME MembersInv PROVE MembersOK(file.cursors, entities', stack')
  BY DEF NextMembers
<1>2. CallersOK(file.cursors, es, fs) /\ AwaitsCursor(file.cursors, es, Last(fs), f.cursor)
  BY <1>1 DEF Awaiting
<1>3. /\ CallersOK(file.cursors, entities', fs) /\ AwaitsCursor(file.cursors, entities', Last(fs), f.cursor)
      /\ Last(fs).kind = "class" => \A d \in MembersOf(entities', Last(fs).entity) : d < Len(es) + 1
  BY <1>2, NewMembers
<1>4. Younger(entities', Last(fs), f)
  BY <1>3 DEF Younger
<1> QED
  BY <1>3, <1>4, PushedMembers

\* It returns an entity that is made from the cursor, and younger than the members.
LEMMA ReturnMembers ==
    ASSUME NEW es, NEW fs, Forest(es), Placed(file.cursors, es), StackOK(file.cursors, fs), Held(es, fs),
           NEW e, Free(es, fs, e), Returnable(file.cursors, Last(fs), es[e]), es[e].kind # "file",
           NEW c \in DOMAIN file.cursors, c \in Nat, file.cursors[c].kind # "access_specifier",
           file.cursors[c].parent = Last(fs).cursor, Awaiting(es, fs, c),
           Last(fs).kind = "class" =>
             es[e].cursor = c /\ (MembersInv => \A d \in MembersOf(es, Last(fs).entity) : d < e),
           entities' = Added(es, fs, e), stack' = Holding(es, fs, e)
    PROVE  NextMembers
<1>1. SUFFICES ASSUME MembersInv PROVE MembersOK(file.cursors, entities', stack')
  BY DEF NextMembers
<1>2. CallersOK(file.cursors, es, fs) /\ AwaitsCursor(file.cursors, es, Last(fs), c)
  BY <1>1 DEF Awaiting
<1> QED
  BY <1>1, <1>2, ReturnedMembers

\* A cursor is passed.
LEMMA PassedOver ==
    ASSUME TreeInv, NEW kinds, NEW c \in Visited(kinds), "access_specifier" \notin kinds,
           SameParse, comment' \in Nat, stack' = Advanced, entities' = entities
    PROVE  Kept
<1>1. /\ mode = "parse" /\ Forest(entities) /\ Placed(file.cursors, entities) /\ Held(entities, stack)
      /\ StackOK(file.cursors, Advanced) /\ \A es : Held(es, stack) => Held(es, Advanced)
  BY VisitedFacts
<1>2. NextMembers
  <2>1. SameMembers(entities, entities)
    BY DEF SameMembers
  <2> QED
    BY <1>1, <2>1, PassedMembers DEF NextMembers
<1> QED
  BY <1>1, <1>2, InvAfter

\* A new entity is owned at once.
LEMMA NewOwned ==
    ASSUME TreeInv, NEW kinds, NEW c \in Visited(kinds), SameParse, comment' \in Nat, stack' = Advanced,
           NEW r \in EntityType, entities' = Append(entities, r), r.parent = Top.entity, Top.kind # "friend",
           Made(file.cursors, r), Owns(file.cursors, entities[Top.entity], r),
           NextMembers \/ ("access_specifier" \notin kinds /\ (r.role = "child" => entities[Top.entity].kind # "class"))
    PROVE  Kept
<1>1. /\ mode = "parse" /\ Forest(entities) /\ Placed(file.cursors, entities)
      /\ Held(entities, stack) /\ StackOK(file.cursors, stack)
      /\ StackOK(file.cursors, Advanced) /\ \A es : Held(es, stack) => Held(es, Advanced)
  BY VisitedFacts
<1>2. Top.entity \in DOMAIN entities
  <2>1. Top = stack[Len(stack)] /\ Len(stack) \in DOMAIN stack
    BY <1>1, StackFacts DEF Top
  <2> QED
    BY <1>1, <2>1 DEF Held
<1>3. r.parent \in 0 .. Len(entities)
  <2>1. DOMAIN entities = 1 .. Len(entities) /\ Len(entities) \in Nat
    BY <1>1 DEF Forest
  <2> QED
    BY <1>2, <2>1
<1>4. Forest(entities') /\ Placed(file.cursors, entities')
  BY <1>1, <1>3, AddedForest, AddedPlaced
<1>5. Held(entities', Advanced)
  BY <1>1, AddedHeld
<1>6. NextMembers
  <2>1. SUFFICES ASSUME "access_specifier" \notin kinds, r.role = "child" => entities[Top.entity].kind # "class"
                 PROVE  NextMembers
    OBVIOUS
  <2>2. SameMembers(entities, entities')
    BY <1>1, <1>3, <2>1, AddedMembers
  <2> QED
    BY <1>4, <2>1, <2>2, PassedMembers DEF NextMembers
<1> QED
  BY <1>1, <1>4, <1>5, <1>6, InvAfter

\* A new entity is returned by a call of its own.
LEMMA NewReturned ==
    ASSUME TreeInv, NEW kinds, NEW c \in Visited(kinds), kinds \cap ParameterKinds = {},
           "access_specifier" \notin kinds, SameParse, comment' \in Nat,
           NEW r \in EntityType, r.parent = 0, r.role = "child", r.kind \notin {"access_specifier", "file"},
           r.cursor = c \/ Top.kind = "friend", Made(file.cursors, r),
           Return(Append(entities, r), Advanced, Next1)
    PROVE  Kept
<1> DEFINE es == Append(entities, r)
           e == Len(entities) + 1
<1>1. /\ mode = "parse" /\ Forest(entities) /\ Placed(file.cursors, entities) /\ Held(entities, stack)
      /\ StackOK(file.cursors, Advanced) /\ Held(entities, Advanced)
      /\ Last(Advanced).kind \notin OfParameters /\ Last(Advanced).kind = Top.kind
      /\ c \in DOMAIN file.cursors /\ file.cursors[c].kind # "access_specifier" /\ c \in Nat
      /\ file.cursors[c].parent = Last(Advanced).cursor
  BY VisitedFacts, CursorFacts DEF TreeInv
<1>2. Forest(es) /\ Placed(file.cursors, es) /\ es[e] = r /\ SameMembers(entities, es)
  <2>1. 0 \in 0 .. Len(entities) /\ entities \in Seq(EntityType)
    BY <1>1 DEF Forest
  <2> QED
    BY <1>1, <2>1, AddedForest, AddedPlaced, AppendedSeq, AddedMembers
<1>7. /\ Awaiting(es, Advanced, c)
      /\ Last(Advanced).kind = "class" => (MembersInv => \A d \in MembersOf(es, Last(Advanced).entity) : d < e)
  <2> HIDE DEF es
  <2>1. Awaiting(entities, Advanced, c)
    BY VisitedAwaiting
  <2> QED
    BY <1>1, <1>2, <2>1, SameAwaiting, NewMembers DEF Awaiting
<1>3. Held(es, Advanced) /\ Free(es, Advanced, e)
  BY <1>1, AddedHeld
<1>4. entities' = Added(es, Advanced, e) /\ stack' = Holding(es, Advanced, e)
  BY DEF Return, Next1
<1> HIDE DEF es, e
<1>6. Returnable(file.cursors, Last(Advanced), es[e])
  BY <1>1, <1>2 DEF Returnable
<1>5. /\ Forest(entities') /\ Placed(file.cursors, entities')
      /\ StackOK(file.cursors, stack') /\ Held(entities', stack')
  BY <1>1, <1>2, <1>3, <1>4, <1>6, ReturnedOK
<1>8. NextMembers
  <2>1. Last(Advanced).kind = "class" =>
          es[e].cursor = c /\ (MembersInv => \A d \in MembersOf(es, Last(Advanced).entity) : d < e)
    BY <1>1, <1>2, <1>7
  <2> QED
    BY <1>1, <1>2, <1>3, <1>4, <1>6, <1>7, <2>1, ReturnMembers
<1> QED
  BY <1>1, <1>5, <1>8, InvAfter

\* A leaf is one.
LEMMA LeafStep ==
    ASSUME TreeInv, NEW kinds, NEW c \in Visited(kinds), kinds \cap ParameterKinds = {}, "access_specifier" \notin kinds,
           Leaf(c)
    PROVE  Kept
<1> DEFINE r == [Entity(KindOf(c), c) EXCEPT !.comment = CommentAt(c), !.declares = Declares(KindOf(c), c, FALSE)]
<1>1. /\ file \in Files /\ c \in DOMAIN file.cursors /\ CommentAt(c) \in Nat
  BY VisitedFacts DEF TreeInv
<1>2. KindOf(c) \in CursorKinds /\ c \in Nat /\ Cursor(c).usr \in Id /\ KindOf(c) \notin {"access_specifier", "file"}
  <2>1. "file" \notin CursorKinds
    BY DEF CursorKinds, LeafKinds, ContainerKinds, ClassKinds, TemplateKinds, SpecializationKinds, FunctionTemplateKinds,
           NullKinds, ParameterKinds, ReferenceKinds, MacroKinds
  <2> QED
    BY <1>1, <2>1, CursorFacts, VisitedFacts
<1>3. Declares(KindOf(c), c, FALSE) \in Id \cup {NoId}
  BY <1>2 DEF Declares
<1>4. r \in EntityType /\ r.parent = 0 /\ r.kind = KindOf(c) /\ r.cursor = c /\ r.role = "child"
  <2> DEFINE x == Entity(KindOf(c), c)
             y == [x EXCEPT !.comment = CommentAt(c)]
  <2>1. x \in EntityType /\ x.parent = 0 /\ x.kind = KindOf(c) /\ x.cursor = c /\ x.role = "child"
    BY <1>2, NewEntity
  <2>2. r = [y EXCEPT !.declares = Declares(KindOf(c), c, FALSE)]
    OBVIOUS
  <2> HIDE DEF x
  <2>3. y \in EntityType /\ y.parent = 0 /\ y.kind = KindOf(c) /\ y.cursor = c /\ y.role = "child"
    BY <1>1, <2>1, ChangedComment
  <2> HIDE DEF y, r
  <2> QED
    BY <1>3, <2>2, <2>3, ChangedDeclares
<1>5. comment' \in Nat
  BY <1>1, MatchFacts DEF Leaf
<1>6. SameParse /\ Return(Append(entities, r), Advanced, Next1)
  BY DEF Leaf, SameParse
<1> HIDE DEF r
<1>7. r.kind \notin {"access_specifier", "file"} /\ Made(file.cursors, r)
  BY <1>1, <1>2, <1>4 DEF Made, KindOf, Cursor
<1> QED
  BY <1>4, <1>5, <1>6, <1>7, NewReturned

\* A call begins.
LEMMA CallBegins ==
    ASSUME TreeInv, mode = "parse", SameParse, comment' \in Nat,
           NEW fs, StackOK(file.cursors, fs), Forest(entities'), Placed(file.cursors, entities'), Held(entities', fs),
           NEW f, FrameOK(file.cursors, f), stack' = Append(fs, f), f.kind # "file", Calling(file.cursors, Last(fs), f),
           f.entity = 0 => f.kind = "friend", f.entity # 0 => Free(entities', fs, f.entity), EntityFits(entities', f),
           NextMembers
    PROVE  Kept
<1>1. StackOK(file.cursors, stack')
  BY PushedOK
<1>2. Held(entities', stack')
  BY PushedHeld
<1> QED
  BY <1>1, <1>2, InvAfter

\* The call for a container begins with a new entity.
LEMMA ContainerBegins ==
    ASSUME TreeInv, NEW kinds, NEW c \in Visited(kinds), kinds \cap ParameterKinds = {},
           SameParse, comment' \in Nat,
           NEW es, SameTree(entities, es), NEW r \in EntityType, r.parent = 0, r.role = "child", r.cursor = c,
           entities' = Append(es, r), NEW kind \in {"linkage", "namespace", "enum", "class"}, r.kind = kind,
           IF kind = "class" THEN KindOf(c) \in ClassKinds ELSE KindOf(c) = kind,
           stack' = Append(Advanced, Frame(kind, c, Next1, Children(c)))
    PROVE  Kept
<1> DEFINE f == Frame(kind, c, Next1, Children(c))
           e == Len(entities) + 1
<1>1. /\ mode = "parse" /\ Forest(entities) /\ Placed(file.cursors, entities) /\ file \in Files /\ c \in DOMAIN file.cursors
      /\ StackOK(file.cursors, Advanced) /\ Held(entities, Advanced)
      /\ Last(Advanced).kind \notin OfParameters
      /\ file.cursors[c].parent = Last(Advanced).cursor
  BY VisitedFacts DEF TreeInv
<1>2. Forest(es) /\ Placed(file.cursors, es) /\ Len(es) = Len(entities) /\ Held(es, Advanced)
  BY <1>1, SameForest, SamePlaced, SameHeld
<1>9. Awaiting(es, Advanced, c) /\ SameMembers(es, entities') /\ MembersOf(entities', e) = {}
  <2>1. Awaiting(es, Advanced, c)
    BY <1>1, <1>2, VisitedAwaiting, SameTreeMembers, SameAwaiting
  <2>2. r.parent \in 0 .. Len(es)
    BY <1>2 DEF Forest
  <2>3. SameMembers(es, Append(es, r)) /\ MembersOf(Append(es, r), Len(es) + 1) = {}
    BY <1>2, <2>2, AddedMembers
  <2> QED
    BY <1>2, <2>1, <2>3
<1>3. Forest(entities') /\ Placed(file.cursors, entities')
  <2>1. r.parent \in 0 .. Len(es)
    BY <1>2 DEF Forest
  <2>2. Made(file.cursors, r)
    BY <1>1 DEF Made, KindOf, Cursor
  <2>3. Forest(Append(es, r)) /\ Placed(file.cursors, Append(es, r))
    BY <1>2, <2>1, <2>2, AddedForest, AddedPlaced
  <2> QED
    BY <2>3
<1>4. Held(entities', Advanced) /\ Free(entities', Advanced, e) /\ entities'[e] = r /\ e \in Nat /\ e # 0
  <2>1. Held(entities', Advanced) /\ Free(entities', Advanced, e)
    BY <1>1, <1>2, AddedHeld
  <2>2. entities'[e] = r /\ e \in Nat /\ e # 0
    BY <1>2, AppendedSeq DEF Forest
  <2> QED
    BY <2>1, <2>2
<1>5. f.kind = kind /\ f.entity = e /\ f.cursor = c
  BY DEF Frame, Next1
<1>6. FrameOK(file.cursors, f)
  <2>1. Children(c) \in Seq(Nat) /\ \A m \in DOMAIN Children(c) : Children(c)[m] \in Cursors /\ Cursor(Children(c)[m]).parent = c
    BY <1>1, BelowFacts
  <2>2. CursorFits(file.cursors, f)
    BY <1>1, <1>5 DEF CursorFits, KindOf, Cursor
  <2>3. kind \in FrameKinds /\ c \in Nat /\ Next1 \in Nat /\ kind \notin OfParameters
    BY <1>1, <1>4, CursorFacts DEF FrameKinds, Next1, OfParameters
  <2> QED
    BY <1>1, <2>1, <2>2, <2>3, NewFrame DEF Cursors, Cursor
<1>7. EntityFits(entities', f)
  BY <1>4, <1>5 DEF EntityFits
<1>10. Ready(file.cursors, entities', f) /\ f \in FrameType
  <2>1. c \in Nat
    BY <1>1, CursorFacts
  <2>2. Ready(file.cursors, entities', Frame(kind, c, e, Children(c)))
    BY <1>1, <1>9, <2>1, ClassReady
  <2> QED
    BY <1>6, <2>2 DEF Next1, FrameOK
<1>12. Len(es) + 1 = e
  BY <1>2
<1> HIDE DEF f, e
<1>8. /\ f.kind # "file" /\ Calling(file.cursors, Last(Advanced), f)
      /\ f.entity # 0 /\ Free(entities', Advanced, f.entity) /\ stack' = Append(Advanced, f)
  BY <1>1, <1>4, <1>5 DEF f, Calling
<1>11. NextMembers
  BY <1>1, <1>2, <1>3, <1>5, <1>8, <1>9, <1>10, <1>12, BegunMembers
<1> QED
  BY <1>1, <1>3, <1>4, <1>6, <1>7, <1>8, <1>11, CallBegins

\* Linkages, namespaces, enums and classes are entered like that.
LEMMA EnterStep ==
    ASSUME TreeInv, NEW kinds, NEW c \in Visited(kinds), kinds \cap ParameterKinds = {},
           NEW kind \in {"linkage", "namespace", "enum", "class"},
           IF kind = "class" THEN kinds = ClassKinds ELSE kinds = {kind}, Enter(c, kind)
    PROVE  Kept
<1> DEFINE x == Entity(kind, c)
           r == [x EXCEPT !.comment = CommentAt(c)]
<1>1. /\ c \in DOMAIN file.cursors /\ CommentAt(c) \in Nat /\ KindOf(c) \in kinds /\ file \in Files /\ Forest(entities)
  BY VisitedFacts DEF TreeInv
<1>2. x \in EntityType /\ x.parent = 0 /\ x.kind = kind /\ x.role = "child" /\ x.cursor = c
  <2>1. kind \in CursorKinds \cup {"file"} /\ c \in Nat
    BY <1>1, CursorFacts DEF CursorKinds, ContainerKinds, ClassKinds
  <2> QED
    BY <2>1, NewEntity
<1>3. comment' \in Nat /\ SameParse
  BY <1>1, MatchFacts DEF Enter, SameParse
<1>4. entities' = Append(entities, r) /\ stack' = Append(Advanced, Frame(kind, c, Next1, Children(c)))
  BY DEF Enter
<1> HIDE DEF x
<1>5. r \in EntityType /\ r.parent = 0 /\ r.kind = kind /\ r.role = "child" /\ r.cursor = c
  BY <1>1, <1>2, ChangedComment
<1> HIDE DEF r
<1>6. SameTree(entities, entities)
  BY <1>1 DEF SameTree, Forest
<1>7. IF kind = "class" THEN KindOf(c) \in ClassKinds ELSE KindOf(c) = kind
  BY <1>1
<1> QED
  BY <1>3, <1>4, <1>5, <1>6, <1>7, ContainerBegins

\* A nested namespace is below a namespace.
LEMMA NestedNamespaceStep == ASSUME TreeInv, EnterNestedNamespace PROVE Kept
<1>1. PICK c \in Visited({"namespace"}) : EnterNestedNamespace!(c)
  BY DEF EnterNestedNamespace
<1> DEFINE t == Top.entity
           es == [entities EXCEPT ![t].comment = 0]
           x == Entity("namespace", c)
           r == [x EXCEPT !.comment = entities[t].comment]
<1>2. /\ c \in DOMAIN file.cursors /\ KindOf(c) = "namespace" /\ file \in Files /\ Forest(entities) /\ comment \in Nat
      /\ mode = "parse" /\ StackOK(file.cursors, stack) /\ Held(entities, stack)
      /\ file.cursors[c].parent = Top.cursor /\ FrameOK(file.cursors, Top)
      /\ Top.kind \in OfParameters => KindOf(c) \in ParameterKinds
  BY VisitedFacts DEF TreeInv
<1>3. Top.kind # "friend"
  <2>1. WellFormed(file.cursors, c) /\ file.cursors[c].kind = "namespace" /\ file.cursors[c].nested
    BY <1>1, <1>2, FileFacts DEF CursorsOK, KindOf, Cursor
  <2>2. file.cursors[Top.cursor].kind = "namespace"
    BY <1>2, <2>1 DEF WellFormed
  <2> QED
    BY <1>2, <2>2 DEF FrameOK, CursorFits
<1>4. t \in DOMAIN entities
  <2>1. Top = stack[Len(stack)] /\ Len(stack) \in DOMAIN stack
    BY <1>2, StackFacts DEF Top
  <2> QED
    BY <1>2, <1>3, <2>1 DEF Held
<1>5. SameTree(entities, es)
  BY <1>2, <1>4, CommentedSame
<1>6. /\ x \in EntityType /\ x.parent = 0 /\ x.kind = "namespace" /\ x.role = "child" /\ x.cursor = c
      /\ entities[t].comment \in Nat
  <2>1. entities[t] \in EntityType
    BY <1>2, <1>4 DEF Forest
  <2>2. entities[t].comment \in Nat
    BY <2>1 DEF EntityType
  <2>3. "namespace" \in CursorKinds \cup {"file"} /\ c \in Nat
    BY <1>2, CursorFacts DEF CursorKinds, ContainerKinds
  <2> QED
    BY <2>2, <2>3, NewEntity
<1>7. entities' = Append(es, r) /\ stack' = Append(Advanced, Frame("namespace", c, Next1, Children(c)))
      /\ SameParse /\ comment' \in Nat
  BY <1>1, <1>2 DEF SameParse
<1> HIDE DEF x, es, t
<1>8. r \in EntityType /\ r.parent = 0 /\ r.kind = "namespace" /\ r.role = "child" /\ r.cursor = c
  BY <1>6, ChangedComment
<1> HIDE DEF r
<1>9. {"namespace"} \cap ParameterKinds = {}
  BY DEF ParameterKinds
<1> DEFINE kind == "namespace"
<1>10. kind \in {"linkage", "namespace", "enum", "class"} /\ kind # "class" /\ r.kind = kind /\ KindOf(c) = kind
       /\ stack' = Append(Advanced, Frame(kind, c, Next1, Children(c)))
  BY <1>2, <1>7, <1>8
<1> HIDE DEF kind
<1> QED
  BY <1>5, <1>7, <1>8, <1>9, <1>10, ContainerBegins

\* A call that has nothing more to do returns its entity.
LEMMA FinishedFacts ==
    ASSUME TreeInv, NEW kinds, Finished(kinds)
    PROVE  /\ mode = "parse" /\ Top.kind \in kinds /\ file \in Files /\ comment \in Nat
           /\ Forest(entities) /\ Placed(file.cursors, entities)
           /\ StackOK(file.cursors, stack) /\ Held(entities, stack)
           /\ Top = Last(stack) /\ FrameOK(file.cursors, Top) /\ EntityFits(entities, Top)
           /\ Top.kind # "friend" => Top.entity # 0
           /\ Top.entity # 0 => Top.entity \in DOMAIN entities /\ entities[Top.entity].parent = 0
           /\ Top.kind # "file" => Top.cursor \in DOMAIN file.cursors
<1>1. /\ mode = "parse" /\ Top.kind \in kinds /\ file \in Files /\ comment \in Nat
      /\ Forest(entities) /\ Placed(file.cursors, entities)
      /\ StackOK(file.cursors, stack) /\ Held(entities, stack)
  BY DEF Finished, Parsing, TreeInv
<1>2. Top = Last(stack) /\ Top = stack[Len(stack)] /\ Len(stack) \in DOMAIN stack /\ FrameOK(file.cursors, Top)
  BY <1>1, StackFacts DEF Top
<1>3. /\ EntityFits(entities, Top) /\ (Top.kind # "friend" => Top.entity # 0)
      /\ Top.entity # 0 => Top.entity \in DOMAIN entities /\ entities[Top.entity].parent = 0
  BY <1>1, <1>2 DEF Held
<1>4. Top.kind # "file" => Top.cursor \in DOMAIN file.cursors
  BY <1>2 DEF FrameOK, CursorFits
<1> QED
  BY <1>1, <1>2, <1>3, <1>4

\* A call returns its entity: that is owned by the entity of the call before, or held by it.
LEMMA CallReturns ==
    ASSUME TreeInv, NEW kinds, Finished(kinds), "file" \notin kinds, "friend" \notin kinds,
           SameParse, comment' \in Nat, NEW es, SameTree(entities, es), Return(es, Front(stack), Top.entity)
    PROVE  Kept
<1> DEFINE e == Top.entity
           fs == Front(stack)
<1>1. /\ mode = "parse" /\ Top.kind \in kinds /\ Forest(entities) /\ Placed(file.cursors, entities)
      /\ StackOK(file.cursors, stack) /\ Held(entities, stack)
      /\ Top = Last(stack) /\ EntityFits(entities, Top) /\ Top.kind # "friend" /\ Top.kind # "file" /\ e # 0
      /\ e \in DOMAIN entities /\ FrameOK(file.cursors, Top) /\ file \in Files
  BY FinishedFacts
<1>2. /\ StackOK(file.cursors, fs) /\ Held(entities, fs) /\ Free(entities, fs, e)
      /\ Last(fs).kind \in OfParameters <=> Top.kind = "template_parameter"
      /\ file.cursors[Top.cursor].parent = Last(fs).cursor
  BY <1>1, PoppedOK
<1>3. Forest(es) /\ Placed(file.cursors, es) /\ Held(es, fs) /\ Free(es, fs, e)
  BY <1>1, <1>2, SameForest, SamePlaced, SameHeld
<1>4. Returnable(file.cursors, Last(fs), es[e])
  <2>1. /\ es[e].kind # "access_specifier"
        /\ es[e].role = (IF Top.kind = "template_parameter" THEN "parameter" ELSE "child")
    BY <1>1 DEF SameTree, EntityFits
  <2>2. CASE Top.kind = "template_parameter"
    <3>1. Top.cursor \in DOMAIN file.cursors /\ file.cursors[Top.cursor].kind = "template_parameter"
      BY <2>2 , <1>1 DEF FrameOK, CursorFits
    <3>2. WellFormed(file.cursors, Top.cursor)
      BY <1>1, <3>1, FileFacts DEF CursorsOK
    <3>3. file.cursors[Last(fs).cursor].kind # "function_specialization"
      BY <1>2, <2>2, <3>1, <3>2 DEF WellFormed, ParameterKinds
    <3> QED
      BY <1>2, <2>1, <2>2, <3>3 DEF Returnable
  <2>3. CASE Top.kind # "template_parameter"
    BY <1>2, <2>1, <2>3 DEF Returnable
  <2> QED
    BY <2>2, <2>3
<1>7. es[e].kind # "file" /\ es[e].cursor = Top.cursor
  <2>1. Top.kind \in FrameKinds /\ "file" \notin TemplateKinds
    BY <1>1 DEF FrameOK, FrameType, TemplateKinds, SpecializationKinds, FunctionTemplateKinds
  <2>2. entities[e].kind # "file" /\ entities[e].cursor = Top.cursor
    BY <1>1, <2>1 DEF EntityFits, FrameKinds
  <2> QED
    BY <1>1, <2>2 DEF SameTree
<1>8. /\ Top.cursor \in DOMAIN file.cursors /\ Top.cursor \in Nat /\ file.cursors[Top.cursor].kind # "access_specifier"
  <2>1. Len(stack) \in DOMAIN stack /\ Top = stack[Len(stack)]
    BY <1>1, StackFacts
  <2> QED
    BY <1>1, <2>1, FrameCursor
<1>9. SameMembers(entities, es)
  BY SameTreeMembers
<1>10. Awaiting(es, fs, Top.cursor)
  BY <1>1, <1>2, <1>3, <1>9, FrontAwaiting, SameAwaiting
<1>11. ASSUME Last(fs).kind = "class", MembersInv, NEW d \in MembersOf(es, Last(fs).entity) PROVE d < e
  <2>1. Younger(entities, Last(fs), Top)
    <3>1. CallersOK(file.cursors, entities, stack)
      BY <1>1, <1>11 DEF MembersInv, MembersOK
    <3> QED
      BY <1>1, <3>1, FrontMembers
  <2>2. d \in MembersOf(entities, Last(fs).entity)
    <3>1. Len(fs) \in DOMAIN fs /\ Last(fs) = fs[Len(fs)]
      BY <1>2, StackFacts
    <3>2. Last(fs).entity \in DOMAIN entities /\ entities[Last(fs).entity].kind = "class"
      BY <1>2, <1>11, <3>1, ClassFrame
    <3> QED
      BY <1>9, <1>11, <3>2, SameKnown
  <2> QED
    BY <1>1, <1>11, <2>1, <2>2 DEF Younger
<1> HIDE DEF e, fs
<1>5. /\ Forest(Added(es, fs, e)) /\ Placed(file.cursors, Added(es, fs, e))
      /\ StackOK(file.cursors, Holding(es, fs, e)) /\ Held(Added(es, fs, e), Holding(es, fs, e))
  BY <1>2, <1>3, <1>4, ReturnedOK
<1>6. entities' = Added(es, fs, e) /\ stack' = Holding(es, fs, e)
  BY DEF Return, e, fs
<1>12. NextMembers
  BY <1>2, <1>3, <1>4, <1>6, <1>7, <1>8, <1>10, <1>11, ReturnMembers
<1> QED
  BY <1>1, <1>5, <1>6, <1>12, InvAfter

\* The definition of a type may turn out to be a declaration.
LEMMA DeclaredFacts ==
    ASSUME file \in Files, NEW kind, NEW c \in DOMAIN file.cursors, NEW friend
    PROVE  Declares(kind, c, friend) \in Id \cup {NoId}
<1>1. Cursor(c).usr \in Id
  BY CursorFacts
<1> QED
  BY <1>1 DEF Declares

\* All but files, classes and friends are finished by returning their entity.
LEMMA FinishStep ==
    ASSUME TreeInv, FinishLinkage \/ FinishNamespace \/ FinishEnum \/ FinishTemplateParameter \/ FinishTemplate
    PROVE  Kept
<1>1. Forest(entities) /\ comment \in Nat
  BY DEF TreeInv
<1>2. SameTree(entities, entities)
  BY <1>1 DEF SameTree, Forest
<1>3. CASE FinishLinkage
  <2>1. Finished({"linkage"}) /\ Return(entities, Front(stack), Top.entity) /\ SameParse /\ comment' \in Nat
    BY <1>1, <1>3 DEF FinishLinkage, SameParse
  <2> QED
    BY <1>2, <2>1, CallReturns
<1>4. CASE FinishNamespace
  <2>1. Finished({"namespace"}) /\ Return(entities, Front(stack), Top.entity) /\ SameParse /\ comment' \in Nat
    BY <1>1, <1>4 DEF FinishNamespace, SameParse
  <2> QED
    BY <1>2, <2>1, CallReturns
<1>5. CASE FinishEnum
  <2> DEFINE es == [entities EXCEPT ![Top.entity].declares = Declares("enum", Top.cursor, FALSE)]
  <2>1. Finished({"enum"}) /\ Return(es, Front(stack), Top.entity) /\ SameParse /\ comment' \in Nat
    BY <1>1, <1>5 DEF FinishEnum, SameParse
  <2>2. Top.entity \in DOMAIN entities /\ Top.cursor \in DOMAIN file.cursors /\ file \in Files
    BY <2>1, FinishedFacts
  <2>3. SameTree(entities, es)
    BY <1>1, <2>2, DeclaredFacts, DeclaredSame
  <2> HIDE DEF es
  <2> QED
    BY <2>1, <2>3, CallReturns
<1>6. CASE FinishTemplateParameter
  <2>1. Finished({"template_parameter"}) /\ Return(entities, Front(stack), Top.entity) /\ SameParse /\ comment' \in Nat
    BY <1>1, <1>6 DEF FinishTemplateParameter, SameParse
  <2> QED
    BY <1>2, <2>1, CallReturns
<1>7. CASE FinishTemplate
  <2>1. Finished({"template"}) /\ Return(entities, Front(stack), Top.entity) /\ SameParse /\ comment' \in Nat
    BY <1>1, <1>7 DEF FinishTemplate, SameParse
  <2> QED
    BY <1>2, <2>1, CallReturns
<1> QED
  BY <1>3, <1>4, <1>5, <1>6, <1>7

\* The actions that make one entity without a call of their own.
LeafActions ==
    \/ ParseNamespaceAlias \/ ParseUsingDirective \/ ParseUsingDeclaration \/ ParseTypeAlias
    \/ ParseVariable \/ ParseMemberVariable \/ ParseFunction \/ ParseEnumValue
    \/ ParseStaticAssert \/ ParseUnexposed

\* Each of them returns its entity.
LEMMA LeavesStep == ASSUME TreeInv, LeafActions PROVE Kept
<1>1. PICK k \in LeafKinds : \E c \in Visited({k}) : Leaf(c)
  BY DEF LeafActions, LeafKinds, ParseNamespaceAlias, ParseUsingDirective, ParseUsingDeclaration, ParseTypeAlias,
         ParseVariable, ParseMemberVariable, ParseFunction, ParseEnumValue, ParseStaticAssert, ParseUnexposed
<1>2. {k} \cap ParameterKinds = {} /\ k # "access_specifier"
  BY DEF LeafKinds, ParameterKinds
<1> QED
  BY <1>1, <1>2, LeafStep

\* A concept is not given a comment.
LEMMA ConceptStep == ASSUME TreeInv, ParseConcept PROVE Kept
<1>1. PICK c \in Visited({"concept"}) : ParseConcept!(c)
  BY DEF ParseConcept
<1> DEFINE r == Entity("concept", c)
<1>2. c \in DOMAIN file.cursors /\ file \in Files /\ comment \in Nat
  BY VisitedFacts DEF TreeInv
<1>3. r \in EntityType /\ r.parent = 0 /\ r.kind = "concept" /\ r.role = "child" /\ r.cursor = c
  <2>1. "concept" \in CursorKinds \cup {"file"} /\ c \in Nat
    BY <1>2, CursorFacts DEF CursorKinds, LeafKinds
  <2> QED
    BY <2>1, NewEntity
<1>6. KindOf(c) = "concept"
  BY VisitedFacts
<1>4. Return(Append(entities, r), Advanced, Next1) /\ SameParse /\ comment' \in Nat
  BY <1>1, <1>2 DEF SameParse
<1> HIDE DEF r
<1>5. {"concept"} \cap ParameterKinds = {} /\ r.kind \notin {"access_specifier", "file"} /\ Made(file.cursors, r)
  BY <1>2, <1>3, <1>6 DEF ParameterKinds, Made, KindOf, Cursor
<1> QED
  BY <1>3, <1>4, <1>5, NewReturned

\* Includes are at the top, hence below the file.
LEMMA IncludeStep == ASSUME TreeInv, AddInclude PROVE Kept
<1>1. PICK c \in Visited({"include"}) : AddInclude!(c)
  BY DEF AddInclude
<1> DEFINE x == Entity("include", c)
           y == [x EXCEPT !.parent = Top.entity]
           r == [y EXCEPT !.comment = CommentAt(c)]
<1>2. /\ c \in DOMAIN file.cursors /\ KindOf(c) = "include" /\ file \in Files /\ Forest(entities) /\ comment \in Nat
      /\ StackOK(file.cursors, stack) /\ Held(entities, stack) /\ CommentAt(c) \in Nat
      /\ file.cursors[c].parent = Top.cursor /\ FrameOK(file.cursors, Top)
  BY VisitedFacts DEF TreeInv
<1>3. Top.kind = "file"
  <2>1. WellFormed(file.cursors, c) /\ file.cursors[c].kind = "include" /\ DOMAIN file.cursors = 1 .. Len(file.cursors)
        /\ Len(file.cursors) \in Nat
    BY <1>2, FileFacts DEF CursorsOK, KindOf, Cursor
  <2>2. Top.cursor = 0
    BY <1>2, <2>1 DEF WellFormed
  <2> QED
    BY <1>2, <2>1, <2>2 DEF FrameOK, CursorFits
<1>4. Top.entity \in DOMAIN entities /\ entities[Top.entity].kind = "file"
  <2>1. Top = stack[Len(stack)] /\ Len(stack) \in DOMAIN stack
    BY <1>2, StackFacts DEF Top
  <2> QED
    BY <1>2, <1>3, <2>1 DEF Held, EntityFits
<1>5. x \in EntityType /\ Top.entity \in Nat /\ x.kind = "include" /\ x.cursor = c /\ x.role = "child"
  <2>1. "include" \in CursorKinds \cup {"file"} /\ c \in Nat
    BY <1>2, CursorFacts DEF CursorKinds
  <2>2. Top.entity \in Nat
    BY <1>2, <1>4 DEF Forest
  <2> QED
    BY <2>1, <2>2, NewEntity
<1> HIDE DEF x
<1>6. y \in EntityType /\ y.parent = Top.entity /\ y.kind = "include" /\ y.cursor = c /\ y.role = "child"
  BY <1>5, ChangedParent
<1>7. r = [x EXCEPT !.parent = Top.entity, !.comment = CommentAt(c)]
  OBVIOUS
<1> HIDE DEF y
<1>8. r \in EntityType /\ r.parent = Top.entity /\ r.kind = "include" /\ r.cursor = c /\ r.role = "child"
  BY <1>2, <1>6, ChangedComment
<1> HIDE DEF r
<1>9. entities' = Append(entities, r) /\ stack' = Advanced /\ SameParse /\ comment' \in Nat
  <2>1. comment' \in Nat
    BY <1>1, <1>2, MatchFacts
  <2> QED
    BY <1>1, <1>7, <2>1 DEF SameParse, x
<1>10. /\ Top.kind # "friend" /\ Made(file.cursors, r) /\ Owns(file.cursors, entities[Top.entity], r)
       /\ "access_specifier" \notin {"include"} /\ entities[Top.entity].kind # "class"
  BY <1>2, <1>3, <1>4, <1>8 DEF OwnerKinds, VisitedContainers, Made, Owns, KindOf, Cursor
<1> QED
  BY <1>8, <1>9, <1>10, NewOwned

\* Entities with an older parent are added.
LEMMA ConcatForest ==
    ASSUME NEW es, Forest(es), NEW q \in Seq(EntityType), \A k \in DOMAIN q : q[k].parent \in DOMAIN es
    PROVE  Forest(es \o q)
<1> DEFINE gs == es \o q
           n == Len(es)
           m == Len(q)
<1>1. /\ es \in Seq(EntityType) /\ n \in Nat /\ n >= 1 /\ DOMAIN es = 1 .. n
      /\ m \in Nat /\ DOMAIN q = 1 .. m
  BY DEF Forest
<1>2. gs \in Seq(EntityType) /\ Len(gs) = n + m /\ DOMAIN gs = 1 .. n + m
      /\ (\A e \in 1 .. n : gs[e] = es[e]) /\ (\A e \in n + 1 .. n + m : gs[e] = q[e - n])
  BY <1>1
<1> HIDE DEF gs, n, m
<1>3. gs[1].kind = "file" /\ gs[1].parent = 0 /\ gs[1].role = "child"
  BY <1>1, <1>2 DEF Forest
<1>4. ASSUME NEW e \in DOMAIN gs, e \notin DOMAIN es PROVE gs[e].parent \in DOMAIN es
  <2>0. e \in n + 1 .. n + m
    BY <1>1, <1>2, <1>4
  <2>1. e - n \in DOMAIN q /\ gs[e] = q[e - n]
    BY <1>1, <1>2, <2>0
  <2> QED
    BY <2>1
<1>5. ASSUME NEW e \in DOMAIN es PROVE e \in DOMAIN gs /\ gs[e] = es[e]
  BY <1>1, <1>2
<1>6. ASSUME NEW e \in DOMAIN gs PROVE gs[e].parent \in 0 .. Len(gs)
  <2>1. CASE e \notin DOMAIN es
    BY <1>1, <1>2, <1>4, <2>1
  <2>2. CASE e \in DOMAIN es
    <3>1. gs[e] = es[e] /\ es[e].parent \in 0 .. n
      BY <1>5, <2>2 DEF Forest, n
    <3> QED
      BY <1>1, <1>2, <3>1
  <2> QED
    BY <2>1, <2>2
<1>7. Grounded(gs)
  <2>1. SUFFICES ASSUME NEW S \in SUBSET (DOMAIN gs), \A e \in S : gs[e].parent \in S PROVE S = {}
    BY DEF Grounded
  <2> DEFINE U == S \cap DOMAIN es
  <2>2. \A e \in U : es[e].parent \in U
    <3>1. TAKE e \in U
    <3>2. gs[e] = es[e] /\ es[e].parent \in S /\ es[e].parent \in 0 .. n
      BY <1>5, <2>1 DEF Forest, n
    <3>3. 0 \notin S
      BY <1>2, <2>1
    <3> QED
      BY <1>1, <3>2, <3>3
  <2>3. U = {}
    <3>1. U \in SUBSET (DOMAIN es)
      OBVIOUS
    <3> HIDE DEF U
    <3> QED
      BY <2>2, <3>1 DEF Forest, Grounded
  <2> QED
    BY <1>4, <2>1, <2>3
<1> QED
  BY <1>1, <1>2, <1>3, <1>6, <1>7 DEF Forest, gs

\* They are placed if their parents may own them.
LEMMA ConcatPlaced ==
    ASSUME NEW cs, NEW es, Forest(es), Placed(cs, es), NEW q \in Seq(EntityType),
           \A k \in DOMAIN q : q[k].parent \in DOMAIN es /\ Made(cs, q[k]) /\ Owns(cs, es[q[k].parent], q[k])
    PROVE  Placed(cs, es \o q)
<1> DEFINE gs == es \o q
<1>1. /\ es \in Seq(EntityType) /\ Len(es) \in Nat /\ DOMAIN es = 1 .. Len(es)
      /\ Len(q) \in Nat /\ DOMAIN q = 1 .. Len(q) /\ \A e \in DOMAIN es : es[e].parent \in 0 .. Len(es)
  BY DEF Forest
<1>2. /\ DOMAIN gs = 1 .. Len(es) + Len(q) /\ \A e \in 1 .. Len(es) : gs[e] = es[e]
      /\ \A e \in Len(es) + 1 .. Len(es) + Len(q) : gs[e] = q[e - Len(es)]
  BY <1>1
<1> HIDE DEF gs
<1>3. ASSUME NEW e \in DOMAIN gs PROVE Made(cs, gs[e]) /\ (gs[e].parent # 0 => Owns(cs, gs[gs[e].parent], gs[e]))
  <2>1. CASE e \in DOMAIN es
    <3>1. gs[e] = es[e] /\ Made(cs, es[e]) /\ (es[e].parent # 0 => Owns(cs, es[es[e].parent], es[e]))
      BY <1>1, <1>2, <2>1 DEF Placed
    <3>2. es[e].parent # 0 => gs[es[e].parent] = es[es[e].parent]
      BY <1>1, <1>2, <2>1
    <3> QED
      BY <3>1, <3>2
  <2>2. CASE e \notin DOMAIN es
    <3>1. e \in Len(es) + 1 .. Len(es) + Len(q)
      BY <1>1, <1>2, <2>2
    <3>2. e - Len(es) \in DOMAIN q /\ gs[e] = q[e - Len(es)]
      BY <1>1, <1>2, <3>1
    <3>3. gs[e].parent \in DOMAIN es /\ Made(cs, gs[e]) /\ Owns(cs, es[gs[e].parent], gs[e])
      BY <3>2
    <3> QED
      BY <1>1, <1>2, <3>3
  <2> QED
    BY <2>1, <2>2
<1>4. Placed(cs, gs)
  BY <1>3 DEF Placed
<1> QED
  BY <1>4 DEF gs

\* The calls under way are not concerned.
LEMMA ConcatHeld ==
    ASSUME NEW es, Forest(es), NEW q \in Seq(EntityType), NEW fs, Held(es, fs)
    PROVE  Held(es \o q, fs)
<1> DEFINE gs == es \o q
<1>1. \A e \in DOMAIN es : e \in DOMAIN gs /\ gs[e] = es[e]
  <2>1. es \in Seq(EntityType)
    BY DEF Forest
  <2> QED
    BY <2>1
<1> HIDE DEF gs
<1>2. \A n \in DOMAIN fs : fs[n].entity # 0 => fs[n].entity \in DOMAIN es
  BY DEF Held
<1>3. \A n \in DOMAIN fs : EntityFits(gs, fs[n])
  BY <1>1, <1>2 DEF Held, EntityFits
<1>4. Held(gs, fs)
  BY <1>1, <1>2, <1>3 DEF Held
<1> QED
  BY <1>4 DEF gs

\* Cursors that are passed: what the parser makes nothing of, what it does not understand,
\* and the parameters a class leaves to its template.
LEMMA PassedStep == ASSUME TreeInv, CatchError \/ ParseNothing \/ SkipPart PROVE Kept
<1>1. PICK kinds : /\ "access_specifier" \notin kinds
                   /\ \E c \in Visited(kinds) : SameParse /\ comment' = comment /\ stack' = Advanced /\ entities' = entities
  <2>4. /\ "access_specifier" \notin LeafKinds \cup ContainerKinds \cup ClassKinds \cup TemplateKinds
        /\ "access_specifier" \notin NullKinds /\ "access_specifier" \notin {"reference"} \cup ParameterKinds
    BY DEF LeafKinds, ContainerKinds, ClassKinds, TemplateKinds, SpecializationKinds, FunctionTemplateKinds, NullKinds, ParameterKinds
  <2>1. CASE CatchError
    <3>1. PICK c \in Visited(LeafKinds \cup ContainerKinds \cup ClassKinds \cup TemplateKinds) : CatchError!(c)
      BY <2>1 DEF CatchError
    <3> QED
      BY <2>4, <3>1 DEF SameParse, treeVars
  <2>2. CASE ParseNothing
    <3>1. PICK c \in Visited(NullKinds) : ParseNothing!(c)
      BY <2>2 DEF ParseNothing
    <3> QED
      BY <2>4, <3>1 DEF SameParse, treeVars
  <2>3. CASE SkipPart
    <3>1. PICK c \in Visited({"reference"} \cup ParameterKinds) : SkipPart!(c)
      BY <2>3 DEF SkipPart
    <3> QED
      BY <2>4, <3>1 DEF SameParse, treeVars
  <2> QED
    BY <2>1, <2>2, <2>3
<1>2. comment \in Nat
  BY DEF TreeInv
<1> QED
  BY <1>1, <1>2, PassedOver

\* A function that fails has had its comment, and is passed all the same.
LEMMA FailedFunctionStep == ASSUME TreeInv, FailFunction PROVE Kept
<1> DEFINE kinds == {"function"} \cup FunctionTemplateKinds
<1>1. PICK c \in Visited(kinds) : FailFunction!(c)
  BY DEF FailFunction
<1>2. "access_specifier" \notin kinds
  BY DEF FunctionTemplateKinds
<1>3. c \in DOMAIN file.cursors /\ file \in Files /\ comment \in Nat
  BY VisitedFacts DEF TreeInv
<1>4. comment' \in Nat
  BY <1>1, <1>3, MatchFacts
<1>5. SameParse /\ stack' = Advanced /\ entities' = entities
  BY <1>1 DEF SameParse, treeVars
<1> HIDE DEF kinds
<1> QED
  BY <1>2, <1>4, <1>5, PassedOver

\* The containers, and classes.
LEMMA ContainerStep == ASSUME TreeInv, EnterLinkage \/ EnterEnum \/ EnterNamespace \/ EnterClass PROVE Kept
<1>1. ASSUME NEW kind \in {"linkage", "namespace", "enum"}, NEW c \in Visited({kind}), Enter(c, kind) PROVE Kept
  <2>1. {kind} \cap ParameterKinds = {} /\ kind # "class"
    BY DEF ParameterKinds
  <2> QED
    BY <1>1, <2>1, EnterStep
<1>2. CASE EnterLinkage
  BY <1>1, <1>2 DEF EnterLinkage
<1>3. CASE EnterEnum
  BY <1>1, <1>3 DEF EnterEnum
<1>4. CASE EnterNamespace
  BY <1>1, <1>4 DEF EnterNamespace
<1>5. CASE EnterClass
  <2>1. PICK c \in Visited(ClassKinds) : Enter(c, "class")
    BY <1>5 DEF EnterClass
  <2>2. ClassKinds \cap ParameterKinds = {}
    BY DEF ParameterKinds, ClassKinds
  <2> DEFINE kind == "class"
  <2>3. kind \in {"linkage", "namespace", "enum", "class"} /\ kind = "class" /\ Enter(c, kind)
    BY <2>1
  <2> HIDE DEF kind
  <2> QED
    BY <2>1, <2>2, <2>3, EnterStep
<1> QED
  BY <1>2, <1>3, <1>4, <1>5

\* The specifiers and the bases of a class belong to the class.
LEMMA PartStep == ASSUME TreeInv, AddPart PROVE Kept
<1>1. PICK c \in Visited({"access_specifier", "base"}) : AddPart!(c)
  BY DEF AddPart
<1> DEFINE role == IF KindOf(c) = "base" THEN "base" ELSE "child"
           x == Entity(KindOf(c), c)
           y == [x EXCEPT !.parent = Top.entity]
           r == [y EXCEPT !.role = role]
<1>2. /\ c \in DOMAIN file.cursors /\ KindOf(c) \in {"access_specifier", "base"} /\ file \in Files /\ Forest(entities)
      /\ comment \in Nat /\ StackOK(file.cursors, stack) /\ Held(entities, stack)
      /\ file.cursors[c].parent = Top.cursor /\ FrameOK(file.cursors, Top)
      /\ Top.kind \in OfParameters => KindOf(c) \in ParameterKinds
  BY VisitedFacts DEF TreeInv
<1>3. Top.kind = "class"
  <2>1. WellFormed(file.cursors, c) /\ file.cursors[c].kind \in {"access_specifier", "base"}
    BY <1>2, FileFacts DEF CursorsOK, KindOf, Cursor
  <2>2. Top.cursor # 0 /\ file.cursors[Top.cursor].kind \in ClassKinds
    BY <1>2, <2>1 DEF WellFormed
  <2>3. Top.kind \notin OfParameters
    BY <1>2 DEF ParameterKinds
  <2>4. Top.kind # "file" /\ Top.kind \in FrameKinds /\ (Top.kind # "class" => file.cursors[Top.cursor].kind = Top.kind)
    BY <1>2, <2>2, <2>3 DEF FrameOK, CursorFits, FrameType, OfParameters
  <2> QED
    BY <2>2, <2>3, <2>4 DEF FrameKinds, ClassKinds, OfParameters
<1>4. Top.entity \in DOMAIN entities /\ entities[Top.entity].kind = "class"
  <2>1. Top = stack[Len(stack)] /\ Len(stack) \in DOMAIN stack
    BY <1>2, StackFacts DEF Top
  <2> QED
    BY <1>2, <1>3, <2>1 DEF Held, EntityFits
<1>5. x \in EntityType /\ Top.entity \in Nat /\ x.kind = KindOf(c) /\ x.cursor = c
  <2>1. KindOf(c) \in CursorKinds \cup {"file"} /\ c \in Nat
    BY <1>2, CursorFacts
  <2>2. Top.entity \in Nat
    BY <1>2, <1>4 DEF Forest
  <2> QED
    BY <2>1, <2>2, NewEntity
<1> HIDE DEF x
<1>6. y \in EntityType /\ y.parent = Top.entity /\ y.kind = KindOf(c) /\ y.cursor = c
  BY <1>5, ChangedParent
<1>7. r = [x EXCEPT !.parent = Top.entity, !.role = role] /\ role \in {"child", "base", "parameter"}
      /\ (KindOf(c) = "base" <=> role = "base") /\ (KindOf(c) = "access_specifier" => role = "child") /\ role # "parameter"
  OBVIOUS
<1> HIDE DEF y, role
<1>8. r \in EntityType /\ r.parent = Top.entity /\ r.kind = KindOf(c) /\ r.cursor = c /\ r.role = role
  <2>1. role \in {"child", "base", "parameter"}
    BY <1>7
  <2>2. r \in EntityType /\ r.parent = y.parent /\ r.role = role /\ r.kind = y.kind /\ r.cursor = y.cursor
    BY <1>6, <2>1, ChangedRole
  <2> HIDE DEF r
  <2> QED
    BY <1>6, <2>2
<1> HIDE DEF r
<1>9. entities' = Append(entities, r) /\ stack' = Advanced /\ SameParse /\ comment' \in Nat
  BY <1>1, <1>2, <1>7 DEF SameParse, x, role
<1>10. Top.kind # "friend" /\ Made(file.cursors, r) /\ Owns(file.cursors, entities[Top.entity], r)
  <2>1. Made(file.cursors, r)
    BY <1>2, <1>8 DEF Made, KindOf, Cursor
  <2> QED
    BY <1>3, <1>4, <1>7, <1>8, <2>1 DEF OwnerKinds, VisitedContainers, Owns
<1>11. /\ StackOK(file.cursors, Advanced) /\ Held(entities, Advanced)
       /\ Last(Advanced).kind = Top.kind /\ Last(Advanced).entity = Top.entity /\ Last(Advanced).cursor = Top.cursor
  BY <1>2, VisitedFacts
<1>12. Forest(entities')
  <2>1. r.parent \in 0 .. Len(entities)
    BY <1>2, <1>4, <1>5, <1>8 DEF Forest
  <2> QED
    BY <1>2, <1>8, <1>9, <2>1, AddedForest
<1>13. ASSUME KindOf(c) = "base" PROVE NextMembers
  <2>1. r.role = "base" /\ r.parent \in 0 .. Len(entities)
    BY <1>2, <1>4, <1>5, <1>7, <1>8, <1>13 DEF Forest
  <2>2. SameMembers(entities, entities')
    BY <1>2, <1>8, <1>9, <2>1, AddedMembers
  <2>3. c \in Visited({"base"}) /\ "access_specifier" \notin {"base"}
    BY <1>13 DEF Visited
  <2>4. MembersInv => MembersOK(file.cursors, entities', Advanced)
    BY <1>12, <2>2, <2>3, PassedMembers
  <2> QED
    BY <1>9, <2>4 DEF NextMembers
<1>14. ASSUME KindOf(c) = "access_specifier" PROVE NextMembers
  <2> DEFINE n == Len(entities) + 1
             k == Top.entity
             gs == Append(entities, r)
  <2>1. r.role = "child" /\ r.kind = "access_specifier" /\ r.parent = k /\ r.cursor = c
    BY <1>7, <1>8, <1>14
  <2>2. /\ Len(entities) \in Nat /\ DOMAIN entities = 1 .. Len(entities) /\ DOMAIN gs = 1 .. n /\ gs[n] = r
        /\ n \notin DOMAIN entities /\ \A d \in DOMAIN entities : gs[d] = entities[d] /\ d < n
        /\ \A d : d \in 1 .. n <=> d \in DOMAIN entities \/ d = n
    BY <1>2, <1>8 DEF Forest
  <2> HIDE DEF gs, n, k
  <2>3. ASSUME NEW j PROVE MembersOf(gs, j) = (IF j = k THEN MembersOf(entities, j) \cup {n} ELSE MembersOf(entities, j))
    <3>1. \A d : d \in MembersOf(gs, j) <=> (d \in DOMAIN entities \/ d = n) /\ gs[d].parent = j /\ gs[d].role = "child"
      BY <2>2 DEF MembersOf
    <3>3. \A d : d \in MembersOf(entities, j) <=> d \in DOMAIN entities /\ entities[d].parent = j /\ entities[d].role = "child"
      BY DEF MembersOf
    <3>2. \A d : d \in MembersOf(gs, j) <=> d \in MembersOf(entities, j) \/ (d = n /\ j = k)
      <4>1. TAKE d
      <4>2. CASE d = n
        BY <2>1, <2>2, <3>1, <3>3, <4>2
      <4>3. CASE d # n
        BY <2>2, <3>1, <3>3, <4>3
      <4> QED
        BY <4>2, <4>3
    <3> QED
      BY <3>2
  <2>4. \A d \in MembersOf(entities, k) : d < n
    BY <2>2 DEF MembersOf
  <2>5. n \in DOMAIN gs
    BY <2>2 DEF n
  <2>6. SUFFICES ASSUME MembersInv PROVE MembersOK(file.cursors, gs, Advanced)
    <3>1. entities' = gs /\ stack' = Advanced
      BY <1>9 DEF gs
    <3> QED
      BY <3>1 DEF NextMembers
  <2>7. /\ CallersOK(file.cursors, entities, Advanced) /\ AwaitsCursor(file.cursors, entities, Last(Advanced), c)
        /\ c \in Nat
    BY <2>6, VisitedMembers
  <2>8. Forest(gs)
    BY <1>9, <1>12 DEF gs
  <2>9. DOMAIN entities \subseteq DOMAIN gs /\ \A d \in DOMAIN entities : gs[d].kind = entities[d].kind /\ gs[d].cursor = entities[d].cursor
    BY <2>2, <2>5 DEF n
  <2>10. Last(Advanced).kind = "class" /\ Last(Advanced).entity = k /\ file.cursors[c].parent = Last(Advanced).cursor
    BY <1>2, <1>3, <1>11 DEF k
  <2>11. gs[n].cursor = c /\ gs[n].kind # "file" /\ c \in DOMAIN file.cursors
    BY <1>2, <2>1, <2>2
  <2> QED
    BY <1>2, <1>11, <2>3, <2>4, <2>5, <2>7, <2>8, <2>9, <2>10, <2>11, MemberAdded
<1> QED
  BY <1>2, <1>8, <1>9, <1>10, <1>13, <1>14, NewOwned

\* A parameter belongs to its template, or to the template parameter it is one of.
LEMMA ParameterStep == ASSUME TreeInv, AddParameter PROVE Kept
<1>1. PICK c \in Visited({"type_parameter", "non_type_parameter"}) : AddParameter!(c)
  BY DEF AddParameter
<1> DEFINE x == Entity(KindOf(c), c)
           y == [x EXCEPT !.parent = Top.entity]
           r == [y EXCEPT !.role = "parameter"]
<1>2. /\ c \in DOMAIN file.cursors /\ file \in Files /\ Forest(entities) /\ Placed(file.cursors, entities)
      /\ comment \in Nat /\ StackOK(file.cursors, stack) /\ Held(entities, stack)
      /\ KindOf(c) \in {"type_parameter", "non_type_parameter"} /\ file.cursors[c].parent = Top.cursor
  BY VisitedFacts DEF TreeInv
<1>3. Top.kind \in {"template", "template_parameter"} /\ Top.kind # "friend"
  BY <1>1
<1>4. /\ Top.entity \in DOMAIN entities /\ entities[Top.entity].kind \in TemplateKinds \cup {"template_parameter"}
      /\ entities[Top.entity].cursor = Top.cursor
  <2>1. Top = stack[Len(stack)] /\ Len(stack) \in DOMAIN stack
    BY <1>2, StackFacts DEF Top
  <2> QED
    BY <1>2, <1>3, <2>1 DEF Held, EntityFits
<1>11. entities[Top.entity].kind \in (TemplateKinds \ {"function_specialization"}) \cup {"template_parameter"}
  <2>1. WellFormed(file.cursors, c) /\ file.cursors[c].kind \in ParameterKinds
    BY <1>2, FileFacts DEF CursorsOK, KindOf, Cursor, ParameterKinds
  <2>2. file.cursors[Top.cursor].kind # "function_specialization"
    BY <1>2, <2>1 DEF WellFormed, ParameterKinds
  <2>3. Made(file.cursors, entities[Top.entity])
    BY <1>2, <1>4 DEF Placed
  <2>4. entities[Top.entity].kind = file.cursors[Top.cursor].kind
    BY <1>4, <2>3 DEF Made, TemplateKinds, SpecializationKinds, FunctionTemplateKinds
  <2> QED
    BY <1>4, <2>2, <2>4
<1>5. x \in EntityType /\ Top.entity \in Nat /\ x.kind = KindOf(c) /\ x.cursor = c
  <2>1. KindOf(c) \in CursorKinds \cup {"file"} /\ c \in Nat
    BY <1>2, CursorFacts
  <2>2. Top.entity \in Nat
    BY <1>2, <1>4 DEF Forest
  <2> QED
    BY <2>1, <2>2, NewEntity
<1> HIDE DEF x
<1>6. y \in EntityType /\ y.parent = Top.entity /\ y.kind = KindOf(c) /\ y.cursor = c
  BY <1>5, ChangedParent
<1>7. r = [x EXCEPT !.parent = Top.entity, !.role = "parameter"]
  OBVIOUS
<1> HIDE DEF y
<1>8. r \in EntityType /\ r.parent = Top.entity /\ r.role = "parameter" /\ r.kind = KindOf(c) /\ r.cursor = c
  BY <1>6, ChangedRole
<1> HIDE DEF r
<1>9. entities' = Append(entities, r) /\ stack' = Advanced /\ SameParse /\ comment' \in Nat
  BY <1>1, <1>2, <1>7 DEF SameParse, x
<1>10. Made(file.cursors, r) /\ Owns(file.cursors, entities[Top.entity], r)
  BY <1>2, <1>8, <1>11 DEF Made, Owns, KindOf, Cursor
<1> QED
  BY <1>3, <1>8, <1>9, <1>10, NewOwned

\* A call that parses parameters visits the parameters below its cursor.
LEMMA ParametersFrame ==
    ASSUME file \in Files, NEW c \in DOMAIN file.cursors, NEW e \in Nat, NEW kind \in OfParameters,
           IF kind = "template" THEN KindOf(c) \in TemplateKinds ELSE KindOf(c) = kind
    PROVE  FrameOK(file.cursors, Frame(kind, c, e, Below(c, ParameterKinds)))
<1> DEFINE todo == Below(c, ParameterKinds)
           f == Frame(kind, c, e, todo)
<1>1. todo \in Seq(Nat) /\ \A m \in DOMAIN todo :
         todo[m] \in Cursors /\ Cursor(todo[m]).parent = c /\ KindOf(todo[m]) \in ParameterKinds
  BY BelowFacts
<1>2. f.kind = kind /\ f.cursor = c
  BY DEF Frame
<1>3. kind \in FrameKinds /\ kind # "file" /\ kind # "class" /\ c \in Nat
  BY CursorFacts DEF FrameKinds, OfParameters
<1>4. CursorFits(file.cursors, f)
  BY <1>2, <1>3 DEF CursorFits, KindOf, Cursor
<1> HIDE DEF todo, f
<1>5. \A m \in DOMAIN todo :
        /\ todo[m] \in DOMAIN file.cursors /\ file.cursors[todo[m]].parent = c
        /\ kind \in OfParameters => file.cursors[todo[m]].kind \in ParameterKinds
  BY <1>1 DEF Cursors, Cursor, KindOf
<1>6. CursorFits(file.cursors, Frame(kind, c, e, todo))
  BY <1>4 DEF f
<1>7. FrameOK(file.cursors, Frame(kind, c, e, todo))
  BY <1>1, <1>3, <1>5, <1>6, NewFrame
<1> QED
  BY <1>7 DEF todo

\* A template parameter with parameters is a call of its own.
LEMMA TemplateParameterStep == ASSUME TreeInv, EnterTemplateParameter PROVE Kept
<1>1. PICK c \in Visited({"template_parameter"}) : EnterTemplateParameter!(c)
  BY DEF EnterTemplateParameter
<1> DEFINE x == Entity(KindOf(c), c)
           r == [x EXCEPT !.role = "parameter"]
           e == Len(entities) + 1
           f == Frame("template_parameter", c, e, Below(c, ParameterKinds))
<1>2. /\ c \in DOMAIN file.cursors /\ KindOf(c) = "template_parameter" /\ file \in Files /\ Forest(entities)
      /\ comment \in Nat /\ mode = "parse" /\ StackOK(file.cursors, Advanced) /\ Held(entities, Advanced)
      /\ Last(Advanced).kind = Top.kind /\ Placed(file.cursors, entities)
      /\ file.cursors[c].parent = Last(Advanced).cursor
  BY VisitedFacts DEF TreeInv
<1>3. x \in EntityType /\ x.parent = 0 /\ x.kind = "template_parameter" /\ x.cursor = c
  <2>1. KindOf(c) \in CursorKinds \cup {"file"} /\ c \in Nat
    BY <1>2, CursorFacts
  <2>2. x \in EntityType /\ x.parent = 0 /\ x.kind = KindOf(c) /\ x.cursor = c
    BY <2>1, NewEntity
  <2> QED
    BY <1>2, <2>2
<1>4. /\ entities' = Append(entities, r) /\ stack' = Append(Advanced, f) /\ SameParse /\ comment' \in Nat
      /\ Last(Advanced).kind \in OfParameters
  BY <1>1, <1>2 DEF SameParse, OfParameters, Next1
<1> HIDE DEF x
<1>5. r \in EntityType /\ r.parent = 0 /\ r.role = "parameter" /\ r.kind = "template_parameter" /\ r.cursor = c
  BY <1>3, ChangedRole
<1> HIDE DEF r
<1>6. Forest(entities') /\ Placed(file.cursors, entities')
  <2>1. r.parent \in 0 .. Len(entities)
    BY <1>2, <1>5 DEF Forest
  <2>2. Made(file.cursors, r)
    BY <1>2, <1>5 DEF Made, KindOf, Cursor
  <2>3. Forest(Append(entities, r)) /\ Placed(file.cursors, Append(entities, r))
    BY <1>2, <1>5, <2>1, <2>2, AddedForest, AddedPlaced
  <2> QED
    BY <1>4, <2>3
<1>7. Held(entities', Advanced) /\ Free(entities', Advanced, e) /\ entities'[e] = r /\ e \in Nat /\ e # 0
  <2>1. Held(entities', Advanced) /\ Free(entities', Advanced, e)
    BY <1>2, <1>4, <1>5, AddedHeld
  <2>2. entities'[e] = r /\ e \in Nat /\ e # 0
    BY <1>2, <1>4, <1>5, AppendedSeq DEF Forest
  <2> QED
    BY <2>1, <2>2
<1>8. f.kind = "template_parameter" /\ f.entity = e /\ f.cursor = c
  BY DEF Frame
<1>9. FrameOK(file.cursors, f)
  <2> DEFINE kind == "template_parameter"
  <2>1. kind \in OfParameters /\ kind # "template" /\ KindOf(c) = kind /\ f = Frame(kind, c, e, Below(c, ParameterKinds))
    BY <1>2 DEF OfParameters
  <2> HIDE DEF kind
  <2> QED
    BY <1>2, <1>7, <2>1, ParametersFrame
<1> HIDE DEF f, e
<1>10. EntityFits(entities', f)
  BY <1>5, <1>7, <1>8 DEF EntityFits
<1>11. /\ f.kind # "file" /\ f.entity # 0 /\ Free(entities', Advanced, f.entity)
       /\ Calling(file.cursors, Last(Advanced), f)
  BY <1>2, <1>4, <1>7, <1>8 DEF Calling
<1>12. NextMembers
  <2>1. SameMembers(entities, entities')
    <3>1. r.parent \in 0 .. Len(entities) /\ r.parent = 0
      BY <1>2, <1>5 DEF Forest
    <3> QED
      BY <1>2, <1>4, <1>5, <3>1, AddedMembers
  <2>2. Awaiting(entities, Advanced, f.cursor)
    BY <1>8, VisitedAwaiting
  <2>3. Ready(file.cursors, entities', f) /\ f \in FrameType
    BY <1>8, <1>9 DEF Ready, FrameOK
  <2> QED
    BY <1>2, <1>4, <1>6, <1>8, <2>1, <2>2, <2>3, BegunMembers DEF e
<1> QED
  BY <1>2, <1>4, <1>6, <1>7, <1>8, <1>9, <1>10, <1>11, <1>12, CallBegins

\* What is free stays free when an entity is added.
LEMMA StillFree ==
    ASSUME NEW es, Forest(es), NEW r \in EntityType, NEW fs, NEW e, Free(es, fs, e)
    PROVE  Free(Append(es, r), fs, e)
<1>1. e \in 1 .. Len(es) /\ Len(es) \in Nat /\ es \in Seq(EntityType)
  BY DEF Free, Forest
<1>2. Append(es, r)[e] = es[e] /\ e \in DOMAIN Append(es, r)
  BY <1>1, AppendedSeq
<1> QED
  BY <1>2 DEF Free

\* A sequence is the function of its elements.
LEMMA SeqAsFunction ==
    ASSUME NEW T, NEW s \in Seq(T)
    PROVE  s = [m \in DOMAIN s |-> s[m]]
<1>1. Len(s) \in Nat /\ DOMAIN s = 1 .. Len(s) /\ s = [m \in 1 .. Len(s) |-> s[m]]
  OBVIOUS
<1> QED
  BY <1>1

\* A template is put around an entity.
LEMMA WrappedOK ==
    ASSUME file \in Files, NEW c \in DOMAIN file.cursors, KindOf(c) \in TemplateKinds,
           NEW es, Forest(es), Placed(file.cursors, es), NEW fs, StackOK(file.cursors, fs), Held(es, fs),
           NEW e, Free(es, fs, e), es[e].role = "child", es[e].kind # "access_specifier"
    PROVE  LET gs == Wrapped(es, c, e)
               n == Len(es) + 1
           IN /\ Forest(gs) /\ Placed(file.cursors, gs) /\ Held(gs, fs) /\ Free(gs, fs, n)
              /\ gs[n].kind \in TemplateKinds /\ gs[n].cursor = c /\ gs[n].role = "child"
              /\ SameMembers(es, gs)
<1> DEFINE n == Len(es) + 1
           x == Entity(KindOf(c), c)
           r == [x EXCEPT !.comment = es[e].comment]
           hs == Append(es, r)
           ls == [hs EXCEPT ![e].parent = n]
           gs == [ls EXCEPT ![e].comment = 0]
<1>1. /\ es \in Seq(EntityType) /\ Len(es) \in Nat /\ DOMAIN es = 1 .. Len(es)
      /\ e \in 1 .. Len(es) /\ es[e] \in EntityType /\ es[e].parent = 0 /\ e # 1
  <2>1. /\ es \in Seq(EntityType) /\ Len(es) \in Nat /\ DOMAIN es = 1 .. Len(es)
        /\ e \in DOMAIN es /\ es[e].parent = 0
    BY DEF Forest, Free
  <2>2. e # 1
    BY StackFacts DEF Free
  <2> QED
    BY <2>1, <2>2
<1>2. /\ x \in EntityType /\ x.parent = 0 /\ x.kind = KindOf(c) /\ x.cursor = c /\ x.role = "child"
      /\ es[e].comment \in Nat
  <2>1. KindOf(c) \in CursorKinds \cup {"file"} /\ c \in Nat
    BY CursorFacts
  <2>2. es[e].comment \in Nat
    BY <1>1 DEF EntityType
  <2> QED
    BY <2>1, <2>2, NewEntity
<1>3. Wrapped(es, c, e) = Append([es EXCEPT ![e].parent = n, ![e].comment = 0], r)
  BY DEF Wrapped
<1> HIDE DEF x
<1>4. /\ r \in EntityType /\ r.parent = 0 /\ r.kind \in TemplateKinds /\ r.cursor = c /\ r.role = "child"
      /\ Made(file.cursors, r)
  <2>1. r \in EntityType /\ r.parent = 0 /\ r.kind = KindOf(c) /\ r.cursor = c /\ r.role = "child"
    BY <1>2, ChangedComment
  <2> HIDE DEF r
  <2> QED
    BY <2>1 DEF Made, KindOf, Cursor
<1> HIDE DEF r
<1>5. /\ hs \in Seq(EntityType) /\ Len(hs) = n /\ DOMAIN hs = 1 .. n /\ hs[n] = r
      /\ \A d \in 1 .. Len(es) : hs[d] = es[d]
  BY <1>1, <1>4, AppendedSeq
<1>6. /\ Forest(hs) /\ Placed(file.cursors, hs) /\ Held(hs, fs) /\ Free(hs, fs, n) /\ Free(hs, fs, e)
      /\ SameMembers(es, hs)
  <2>1. Forest(hs) /\ Placed(file.cursors, hs) /\ SameMembers(es, hs)
    <3>1. r.parent \in 0 .. Len(es) /\ r.parent = 0
      BY <1>1, <1>4
    <3> QED
      BY <1>4, <3>1, AddedForest, AddedPlaced, AddedMembers
  <2>2. Held(hs, fs) /\ Free(hs, fs, n)
    BY <1>4, AddedHeld
  <2> QED
    BY <1>4, <2>1, <2>2, StillFree
<1>7. e \in DOMAIN hs /\ n \in DOMAIN hs /\ e # n /\ hs[e].parent = 0 /\ hs[n].parent = 0 /\ hs[e] = es[e]
  BY <1>1, <1>4, <1>5
<1>12. Owns(file.cursors, hs[n], hs[e])
  BY <1>4, <1>5, <1>7 DEF OwnerKinds, VisitedContainers, Owns
<1>8. Wrapped(es, c, e) = gs
  <2> DEFINE ks == [es EXCEPT ![e].parent = n, ![e].comment = 0]
             y == [es[e] EXCEPT !.parent = n, !.comment = 0]
  <2>1. y \in EntityType
    <3>1. n \in Nat /\ 0 \in Nat
      BY <1>1
    <3> HIDE DEF n
    <3> QED
      BY <1>1, <3>1 DEF EntityType
  <2>2. ks = [es EXCEPT ![e] = y]
    BY <1>1
  <2> HIDE DEF y
  <2>3. ks \in Seq(EntityType) /\ Len(ks) = Len(es) /\ ks[e] = y /\ \A d \in 1 .. Len(es) : d # e => ks[d] = es[d]
    BY <1>1, <2>1, <2>2, ChangedSeq
  <2> HIDE DEF ks
  <2>4. /\ Append(ks, r) \in Seq(EntityType) /\ DOMAIN Append(ks, r) = 1 .. n
        /\ Append(ks, r)[n] = r /\ \A d \in 1 .. Len(es) : Append(ks, r)[d] = ks[d]
    BY <1>4, <2>3, AppendedSeq
  <2>5. /\ gs = [d \in 1 .. n |-> gs[d]] /\ gs[n] = r /\ gs[e] = y
        /\ \A d \in 1 .. Len(es) : d # e => gs[d] = es[d]
    <3>1. ls = [hs EXCEPT ![e] = [hs[e] EXCEPT !.parent = n]]
      OBVIOUS
    <3>2. gs = [hs EXCEPT ![e] = [es[e] EXCEPT !.parent = n, !.comment = 0]]
      BY <1>1, <1>5, <1>7
    <3> HIDE DEF gs, ls, hs
    <3>3. gs = [d \in 1 .. n |-> gs[d]] /\ gs[e] = y /\ gs[n] = r
      BY <1>5, <1>7, <3>2 DEF y
    <3>4. \A d \in 1 .. Len(es) : d # e => gs[d] = es[d]
      BY <1>1, <1>5, <3>2
    <3> QED
      BY <3>3, <3>4
  <2>6. Append(ks, r) = [d \in 1 .. n |-> Append(ks, r)[d]]
    BY <2>4, SeqAsFunction
  <2>7. \A d \in 1 .. n : Append(ks, r)[d] = gs[d]
    <3>1. \A d \in 1 .. n : d = n \/ d \in 1 .. Len(es)
      BY <1>1
    <3> HIDE DEF gs, n
    <3> QED
      BY <2>3, <2>4, <2>5, <3>1
  <2>8. Append(ks, r) = gs
    BY <2>5, <2>6, <2>7
  <2> QED
    BY <1>3, <2>8 DEF ks
<1> HIDE DEF hs
<1>9. /\ Forest(ls) /\ Placed(file.cursors, ls) /\ Held(ls, fs) /\ Free(ls, fs, n) /\ ls[n] = hs[n] /\ e \in DOMAIN ls
      /\ SameMembers(hs, ls)
  <2>5. SameMembers(hs, ls)
    <3>1. hs[n].kind # "class"
      BY <1>4, <1>5 DEF TemplateKinds, SpecializationKinds, FunctionTemplateKinds
    <3> QED
      BY <1>6, <1>7, <3>1, LinkedMembers
  <2>1. Forest(ls) /\ Placed(file.cursors, ls)
    BY <1>1, <1>6, <1>7, <1>12, LinkedForest, LinkedPlaced
  <2>2. Held(ls, fs)
    BY <1>6, LinkedHeld
  <2>3. ls[n] = hs[n] /\ DOMAIN ls = DOMAIN hs
    BY <1>7
  <2>4. Free(ls, fs, n)
    BY <1>6, <2>3 DEF Free
  <2> QED
    BY <1>7, <2>1, <2>2, <2>3, <2>4, <2>5
<1> HIDE DEF ls
<1>10. SameTree(ls, gs) /\ gs[n] = ls[n]
  <2>1. SameTree(ls, gs)
    BY <1>9, CommentedSame
  <2> QED
    BY <1>7, <1>9, <2>1 DEF SameTree
<1> HIDE DEF gs
<1>11. /\ Forest(gs) /\ Placed(file.cursors, gs) /\ Held(gs, fs) /\ Free(gs, fs, n)
       /\ gs[n].kind \in TemplateKinds /\ gs[n].cursor = c /\ gs[n].role = "child"
  BY <1>4, <1>5, <1>9, <1>10, SameForest, SamePlaced, SameHeld
<1>13. SameMembers(es, gs)
  <2>1. SameMembers(ls, gs)
    BY <1>10, SameTreeMembers
  <2>2. SameMembers(es, ls)
    BY <1>6, <1>9, SameTransitive
  <2> QED
    BY <1>9, <1>11, <2>1, <2>2, SameTransitive
<1> QED
  BY <1>8, <1>11, <1>13 DEF n

\* The call of a template goes on with its parameters.
LEMMA TemplateBegins ==
    ASSUME TreeInv, mode = "parse", SameParse, comment' \in Nat,
           NEW c \in DOMAIN file.cursors, KindOf(c) \in TemplateKinds,
           NEW es, Forest(es), Placed(file.cursors, es), NEW fs, StackOK(file.cursors, fs), Held(es, fs),
           NEW e, Free(es, fs, e), es[e].role = "child", es[e].kind # "access_specifier",
           Last(fs).kind \notin OfParameters, file.cursors[c].parent = Last(fs).cursor, Awaiting(es, fs, c),
           entities' = Wrapped(es, c, e), stack' = Append(fs, TemplateFrame(c, Len(es) + 1))
    PROVE  Kept
<1> DEFINE n == Len(es) + 1
           f == TemplateFrame(c, n)
           kind == "template"
<1>1. file \in Files /\ n \in Nat /\ n # 0
  BY DEF TreeInv, Forest
<1>2. /\ Forest(entities') /\ Placed(file.cursors, entities') /\ Held(entities', fs) /\ Free(entities', fs, n)
      /\ entities'[n].kind \in TemplateKinds /\ entities'[n].cursor = c /\ entities'[n].role = "child"
      /\ SameMembers(es, entities')
  BY <1>1, WrappedOK
<1>3. f = Frame(kind, c, n, Below(c, ParameterKinds)) /\ f.kind = "template" /\ f.entity = n /\ f.cursor = c
      /\ kind = "template" /\ kind \in OfParameters
  BY DEF TemplateFrame, Frame, OfParameters
<1> HIDE DEF f, n, kind
<1>4. FrameOK(file.cursors, f)
  BY <1>1, <1>3, ParametersFrame
<1>5. EntityFits(entities', f)
  <2>1. "access_specifier" \notin TemplateKinds
    BY DEF TemplateKinds, SpecializationKinds, FunctionTemplateKinds
  <2> QED
    BY <1>2, <1>3, <2>1 DEF EntityFits
<1>6. /\ f.kind # "file" /\ Calling(file.cursors, Last(fs), f) /\ f.entity # 0 /\ Free(entities', fs, f.entity)
      /\ stack' = Append(fs, f)
  BY <1>1, <1>2, <1>3 DEF f, n, Calling
<1>7. NextMembers
  <2>1. Ready(file.cursors, entities', f) /\ f \in FrameType /\ Awaiting(es, fs, f.cursor)
    BY <1>3, <1>4 DEF Ready, FrameOK
  <2>2. f.entity = Len(es) + 1
    BY <1>3 DEF n
  <2> QED
    BY <1>2, <1>6, <2>1, <2>2, BegunMembers
<1> QED
  BY <1>2, <1>4, <1>5, <1>6, <1>7, CallBegins

\* A new entity without parent is free.
LEMMA NewFree ==
    ASSUME TreeInv, NEW kinds, NEW c \in Visited(kinds), kinds \cap ParameterKinds = {},
           NEW r \in EntityType, r.parent = 0, Made(file.cursors, r)
    PROVE  LET es == Append(entities, r)
           IN /\ Forest(es) /\ Placed(file.cursors, es) /\ Held(es, Advanced) /\ Free(es, Advanced, Next1)
              /\ Len(es) = Next1 /\ es[Next1] = r
              /\ Last(Advanced).kind \notin OfParameters /\ file.cursors[c].parent = Last(Advanced).cursor
              /\ Awaiting(es, Advanced, c)
<1>1. /\ Forest(entities) /\ Placed(file.cursors, entities) /\ StackOK(file.cursors, Advanced) /\ Held(entities, Advanced)
      /\ Last(Advanced).kind \notin OfParameters /\ file.cursors[c].parent = Last(Advanced).cursor
  BY VisitedFacts
<1>2. /\ Forest(Append(entities, r)) /\ Placed(file.cursors, Append(entities, r))
      /\ Len(Append(entities, r)) = Next1 /\ Append(entities, r)[Next1] = r
      /\ SameMembers(entities, Append(entities, r))
  <2>1. entities \in Seq(EntityType) /\ r.parent \in 0 .. Len(entities)
    BY <1>1 DEF Forest
  <2> QED
    BY <1>1, <2>1, AddedForest, AddedPlaced, AppendedSeq, AddedMembers DEF Next1
<1>3. Held(Append(entities, r), Advanced) /\ Free(Append(entities, r), Advanced, Next1)
  BY <1>1, AddedHeld DEF Next1
<1>4. Awaiting(Append(entities, r), Advanced, c)
  BY <1>1, <1>2, VisitedAwaiting, SameAwaiting
<1> QED
  BY <1>1, <1>2, <1>3, <1>4

\* A class ends, or its template goes on.
LEMMA ClassStep == ASSUME TreeInv, FinishClass PROVE Kept
<1> DEFINE c == Top.cursor
           e == Top.entity
           fs == Front(stack)
           es == [entities EXCEPT ![e].declares = Declares("class", c, FALSE)]
<1>1. Finished({"class"}) /\ SameParse /\ comment' = comment
  BY DEF FinishClass, SameParse
<1>2. /\ mode = "parse" /\ Top.kind = "class" /\ file \in Files /\ comment \in Nat
      /\ Forest(entities) /\ Placed(file.cursors, entities) /\ StackOK(file.cursors, stack) /\ Held(entities, stack)
      /\ Top = Last(stack) /\ e # 0 /\ e \in DOMAIN entities /\ c \in DOMAIN file.cursors
      /\ entities[e].role = "child" /\ entities[e].kind # "access_specifier"
  BY <1>1, FinishedFacts DEF EntityFits
<1>3. SameTree(entities, es)
  BY <1>2, DeclaredFacts, DeclaredSame
<1>4. CASE KindOf(c) \in TemplateKinds
  <2>1. /\ StackOK(file.cursors, fs) /\ Held(entities, fs) /\ Free(entities, fs, e)
        /\ Last(fs).kind \notin OfParameters /\ file.cursors[c].parent = Last(fs).cursor
    BY <1>2, PoppedOK
  <2>2. /\ Forest(es) /\ Placed(file.cursors, es) /\ Held(es, fs) /\ Free(es, fs, e) /\ Len(es) = Len(entities)
        /\ es[e].role = "child" /\ es[e].kind # "access_specifier"
    <3> HIDE DEF es
    <3>1. es[e].role = "child" /\ es[e].kind # "access_specifier"
      BY <1>2, <1>3 DEF SameTree
    <3> QED
      BY <1>2, <1>3, <2>1, <3>1, SameForest, SamePlaced, SameHeld
  <2>4. Awaiting(es, fs, c)
    <3> HIDE DEF es
    <3>1. Awaiting(entities, fs, c)
      BY <1>2, FrontAwaiting
    <3> QED
      BY <1>2, <1>3, <2>1, <2>2, <3>1, SameTreeMembers, SameAwaiting
  <2>3. entities' = Wrapped(es, c, e) /\ stack' = Append(fs, TemplateFrame(c, Len(es) + 1))
    BY <1>4, <2>2 DEF FinishClass, Next1
  <2> HIDE DEF es, fs
  <2> QED
    BY <1>1, <1>2, <1>4, <2>1, <2>2, <2>3, <2>4, TemplateBegins
<1>5. CASE KindOf(c) \notin TemplateKinds
  <2>1. Return(es, Front(stack), e)
    BY <1>5 DEF FinishClass
  <2> HIDE DEF es
  <2> QED
    BY <1>1, <1>2, <1>3, <2>1, CallReturns
<1> QED
  BY <1>4, <1>5

\* A function template starts with its function.
LEMMA FunctionTemplateStep == ASSUME TreeInv, ParseFunctionTemplate PROVE Kept
<1>1. PICK c \in Visited(FunctionTemplateKinds) : ParseFunctionTemplate!(c)
  BY DEF ParseFunctionTemplate
<1> DEFINE x == Entity("function", c)
           y == [x EXCEPT !.comment = CommentAt(c)]
           r == [y EXCEPT !.declares = Declares("function", c, FALSE)]
           es == Append(entities, r)
<1>2. /\ c \in DOMAIN file.cursors /\ KindOf(c) \in TemplateKinds /\ file \in Files /\ comment \in Nat /\ mode = "parse"
      /\ StackOK(file.cursors, Advanced) /\ CommentAt(c) \in Nat /\ KindOf(c) \in FunctionTemplateKinds
  BY VisitedFacts DEF TreeInv, TemplateKinds
<1>3. x \in EntityType /\ x.parent = 0 /\ x.kind = "function" /\ x.role = "child" /\ x.cursor = c
  <2>1. "function" \in CursorKinds \cup {"file"} /\ c \in Nat
    BY <1>2, CursorFacts DEF CursorKinds, LeafKinds
  <2> QED
    BY <2>1, NewEntity
<1>4. Declares("function", c, FALSE) \in Id \cup {NoId}
  BY <1>2, DeclaredFacts
<1>5. r = [x EXCEPT !.comment = CommentAt(c), !.declares = Declares("function", c, FALSE)]
  OBVIOUS
<1>6. /\ entities' = Wrapped(Append(entities, r), c, Next1)
      /\ stack' = Append(Advanced, TemplateFrame(c, Next1 + 1)) /\ SameParse /\ comment' \in Nat
  BY <1>1, <1>2, <1>5, MatchFacts DEF SameParse
<1> HIDE DEF x
<1>7. y \in EntityType /\ y.parent = 0 /\ y.kind = "function" /\ y.role = "child" /\ y.cursor = c
  BY <1>2, <1>3, ChangedComment
<1> HIDE DEF y
<1>8. r \in EntityType /\ r.parent = 0 /\ r.kind = "function" /\ r.role = "child" /\ r.cursor = c
  BY <1>4, <1>7, ChangedDeclares
<1> HIDE DEF r
<1>9. FunctionTemplateKinds \cap ParameterKinds = {} /\ Made(file.cursors, r)
  <2>1. Made(file.cursors, r)
    BY <1>2, <1>8 DEF Made, KindOf, Cursor
  <2> QED
    BY <2>1 DEF FunctionTemplateKinds, SpecializationKinds, ParameterKinds
<1>10. /\ Forest(es) /\ Placed(file.cursors, es) /\ Held(es, Advanced) /\ Free(es, Advanced, Next1) /\ Len(es) = Next1
       /\ es[Next1].role = "child" /\ es[Next1].kind # "access_specifier"
       /\ Last(Advanced).kind \notin OfParameters /\ file.cursors[c].parent = Last(Advanced).cursor
       /\ Awaiting(es, Advanced, c)
  BY <1>8, <1>9, NewFree
<1>11. entities' = Wrapped(es, c, Next1) /\ stack' = Append(Advanced, TemplateFrame(c, Len(es) + 1))
  BY <1>6, <1>10
<1> HIDE DEF es
<1> QED
  BY <1>2, <1>6, <1>10, <1>11, TemplateBegins

\* What an alias template starts with is an alias.
LEMMA AliasBelow ==
    ASSUME file \in Files, NEW c \in DOMAIN file.cursors, KindOf(c) = "alias_template"
    PROVE  LET alias == Below(c, {"type_alias"})[1]
           IN alias \in Nat /\ alias \in DOMAIN file.cursors /\ file.cursors[alias].kind = "type_alias"
<1> DEFINE S == {k \in Cursors : Cursor(k).parent = c /\ KindOf(k) \in {"type_alias"}}
           n == Len(file.cursors)
           q == InOrder(S)
<1>1. n \in Nat /\ Cursors = 1 .. n /\ WellFormed(file.cursors, c)
  BY FileFacts DEF CursorsOK, Cursors
<1>2. S \in SUBSET (1 .. n) /\ S # {} /\ \A k \in S : k \in Nat
  <2>1. \E k \in Cursors : Cursor(k).parent = c /\ KindOf(k) = "type_alias"
    BY <1>1 DEF WellFormed, Cursor, KindOf, Cursors
  <2> QED
    BY <1>1, <2>1
<1>3. Below(c, {"type_alias"}) = q
  BY DEF Below
<1>7. \A k \in S : k \in DOMAIN file.cursors /\ file.cursors[k].kind = "type_alias"
  BY DEF Cursors, KindOf, Cursor
<1> HIDE DEF S, n
<1>4. q \in Seq(S) /\ \A k \in S : \E i \in DOMAIN q : q[i] = k
  BY <1>1, <1>2, InOrderFacts
<1> HIDE DEF q
<1>5. 1 \in DOMAIN q
  <2>1. \E i \in DOMAIN q : TRUE
    BY <1>2, <1>4
  <2>2. q \in Seq(S)
    BY <1>4
  <2> QED
    BY <2>1, <2>2
<1>6. q[1] \in S
  BY <1>4, <1>5
<1> QED
  BY <1>2, <1>3, <1>6, <1>7

\* An alias template starts with the alias below it, or it is not understood.
LEMMA AliasTemplateStep == ASSUME TreeInv, ParseAliasTemplate PROVE Kept
<1>1. PICK c \in Visited({"alias_template"}) : ParseAliasTemplate!(c)
  BY DEF ParseAliasTemplate
<1> DEFINE alias == Below(c, {"type_alias"})[1]
           x == Entity("type_alias", alias)
           r == [x EXCEPT !.comment = CommentAt(c)]
           es == Append(entities, r)
<1>2. /\ c \in DOMAIN file.cursors /\ KindOf(c) = "alias_template" /\ KindOf(c) \in TemplateKinds /\ file \in Files
      /\ comment \in Nat /\ mode = "parse" /\ StackOK(file.cursors, Advanced) /\ CommentAt(c) \in Nat
  BY VisitedFacts DEF TreeInv, TemplateKinds
<1>3. CASE Cursor(alias).bad = "declaration"
  <2>1. entities' = entities /\ stack' = Advanced /\ comment' = comment /\ SameParse /\ "access_specifier" \notin {"alias_template"}
    BY <1>1, <1>3 DEF NoMatch, SameParse
  <2> QED
    BY <1>2, <2>1, PassedOver
<1>4. CASE Cursor(alias).bad # "declaration"
  <2>1. alias \in Nat /\ alias \in DOMAIN file.cursors /\ file.cursors[alias].kind = "type_alias"
    BY <1>2, AliasBelow
  <2>2. x \in EntityType /\ x.parent = 0 /\ x.kind = "type_alias" /\ x.role = "child" /\ x.cursor = alias
    <3>1. "type_alias" \in CursorKinds \cup {"file"}
      BY DEF CursorKinds, LeafKinds
    <3> HIDE DEF alias
    <3> QED
      BY <2>1, <3>1, NewEntity
  <2>3. /\ entities' = Wrapped(es, c, Next1)
        /\ stack' = Append(Advanced, TemplateFrame(c, Next1 + 1)) /\ SameParse /\ comment' \in Nat
    BY <1>1, <1>2, <1>4, MatchFacts DEF SameParse
  <2> HIDE DEF x
  <2>4. r \in EntityType /\ r.parent = 0 /\ r.kind = "type_alias" /\ r.role = "child" /\ r.cursor = alias
    BY <1>2, <2>2, ChangedComment
  <2> HIDE DEF r
  <2>5. {"alias_template"} \cap ParameterKinds = {} /\ Made(file.cursors, r)
    <3> HIDE DEF alias
    <3>1. Made(file.cursors, r)
      BY <2>1, <2>4 DEF Made
    <3> QED
      BY <3>1 DEF ParameterKinds
  <2>6. /\ Forest(es) /\ Placed(file.cursors, es) /\ Held(es, Advanced) /\ Free(es, Advanced, Next1) /\ Len(es) = Next1
        /\ es[Next1].role = "child" /\ es[Next1].kind # "access_specifier"
        /\ Last(Advanced).kind \notin OfParameters /\ file.cursors[c].parent = Last(Advanced).cursor
        /\ Awaiting(es, Advanced, c)
    BY <2>4, <2>5, NewFree
  <2>7. stack' = Append(Advanced, TemplateFrame(c, Len(es) + 1))
    BY <2>3, <2>6
  <2> HIDE DEF es
  <2> QED
    BY <1>2, <2>3, <2>6, <2>7, TemplateBegins
<1> QED
  BY <1>3, <1>4

\* Of some numbers up to n one is the greatest.
LEMMA Greatest ==
    ASSUME NEW n \in Nat, NEW S \in SUBSET (1 .. n), S # {}
    PROVE  Max(S) \in S /\ \A i \in S : Max(S) >= i
<1> DEFINE T == {n - i : i \in S}
<1>1. \A i \in S : i \in 1 .. n /\ n - i \in Nat
  OBVIOUS
<1>2. T \subseteq Nat /\ T # {}
  BY <1>1
<1>3. PICK m \in T : \A k \in T : m <= k
  <2> HIDE DEF T
  <2> QED
    BY <1>2, Numbers!LeastElement
<1>4. PICK x \in S : m = n - x
  BY <1>3
<1>5. \A i \in S : x >= i
  <2>1. TAKE i \in S
  <2>2. n - x <= n - i
    BY <1>3, <1>4
  <2> QED
    BY <1>1, <2>2
<1>6. \E z \in S : \A i \in S : z >= i
  BY <1>4, <1>5
<1> QED
  BY <1>6 DEF Max

\* Nothing is thrown by the loop over the file itself.
LEMMA ThrowsBelow ==
    ASSUME TreeInv, Throws
    PROVE  mode = "parse" /\ StackOK(file.cursors, stack) /\ Held(entities, stack) /\ Len(stack) >= 2
<1>1. CASE Finished({"template"})
  <2>1. mode = "parse" /\ Top.kind = "template" /\ StackOK(file.cursors, stack) /\ Held(entities, stack) /\ Top = Last(stack)
    BY <1>1, FinishedFacts
  <2> QED
    BY <2>1, StackFacts
<1>2. ASSUME NEW c \in Visited({"base"} \cup ParameterKinds) PROVE mode = "parse" /\ StackOK(file.cursors, stack) /\ Held(entities, stack) /\ Len(stack) >= 2
  <2>1. /\ mode = "parse" /\ StackOK(file.cursors, stack) /\ Held(entities, stack) /\ c \in DOMAIN file.cursors
        /\ KindOf(c) \in {"base"} \cup ParameterKinds /\ file.cursors[c].parent = Top.cursor /\ FrameOK(file.cursors, Top)
        /\ file \in Files
    BY VisitedFacts DEF TreeInv
  <2>2. WellFormed(file.cursors, c) /\ file.cursors[c].kind \in {"base"} \cup ParameterKinds
    BY <2>1, FileFacts DEF CursorsOK, KindOf, Cursor
  <2>3. Top.cursor # 0
    BY <2>1, <2>2 DEF WellFormed
  <2>4. Top.kind # "file"
    <3>1. DOMAIN file.cursors = 1 .. Len(file.cursors)
      BY <2>1, FileFacts DEF CursorsOK
    <3> QED
      BY <2>1, <2>3 DEF FrameOK, CursorFits
  <2> QED
    BY <2>1, <2>4, StackFacts DEF Top
<1> QED
  BY <1>1, <1>2 DEF Throws

\* An exception is caught inside of the file.
LEMMA UnwindStep == ASSUME TreeInv, Unwind PROVE Kept
<1> DEFINE n == Len(stack)
           I == {i \in 1 .. n : stack[i].kind # "template_parameter"}
           k == SelectLastInSeq(stack, LAMBDA f : f.kind # "template_parameter")
<1>1. mode = "parse" /\ StackOK(file.cursors, stack) /\ Held(entities, stack) /\ n >= 2
  BY ThrowsBelow DEF Unwind
<1>2. k = IF I # {} THEN Max(I) ELSE 0
  BY DEF SelectLastInSeq
<1>3. n \in Nat /\ DOMAIN stack = 1 .. n /\ stack[1].kind = "file"
  BY <1>1, StackFacts
<1>4. 2 \in I
  <2>1. 2 \in DOMAIN stack /\ 2 - 1 = 1
    BY <1>1, <1>3
  <2>2. stack[2].kind = "template_parameter" <=> stack[2 - 1].kind \in OfParameters
    BY <1>1, <2>1 DEF StackOK, Calling
  <2> QED
    BY <1>3, <2>1, <2>2 DEF OfParameters
<1>5. I \in SUBSET (1 .. n)
  OBVIOUS
<1> HIDE DEF I, n
<1>6. Max(I) \in 1 .. n /\ Max(I) >= 2
  BY <1>3, <1>4, <1>5, Greatest
<1>7. k - 1 \in 1 .. n /\ k \in 1 .. n /\ k # 1 /\ k - 1 # n /\ (k - 1) + 1 = k
  <2> HIDE DEF k
  <2> QED
    BY <1>2, <1>3, <1>4, <1>6
<1>8. stack' = SubSeq(stack, 1, k - 1) /\ entities' = entities /\ comment' = comment /\ SameParse
  BY DEF Unwind, SameParse, treeVars
<1> HIDE DEF k
<1>9. StackOK(file.cursors, stack') /\ Held(entities', stack')
  BY <1>1, <1>7, <1>8, PrefixOK DEF n
<1>10. comment' \in Nat /\ Forest(entities') /\ Placed(file.cursors, entities')
  BY <1>8 DEF TreeInv
<1>11. NextMembers
  <2> DEFINE c == stack[k].cursor
  <2>1. stack[k].kind # "file"
    BY <1>1, <1>3, <1>7, StackFacts
  <2>2. c \in DOMAIN file.cursors /\ file.cursors[c].kind # "access_specifier" /\ c \in Nat
    BY <1>1, <1>3, <1>7, <2>1, FrameCursor
  <2>3. Awaiting(entities, stack', c)
    <3>1. SUFFICES ASSUME MembersInv
                   PROVE  CallersOK(file.cursors, entities, stack') /\ AwaitsCursor(file.cursors, entities, Last(stack'), c)
      BY DEF Awaiting
    <3>2. CallersOK(file.cursors, entities, stack)
      BY <1>1, <3>1 DEF MembersInv, MembersOK
    <3> DEFINE i == k - 1
    <3>3. i \in 1 .. n /\ i # n /\ stack' = SubSeq(stack, 1, i) /\ stack[i + 1].cursor = c
      BY <1>7, <1>8
    <3> HIDE DEF i, c
    <3> QED
      BY <1>1, <3>2, <3>3, PrefixMembers DEF n
  <2> HIDE DEF c
  <2>4. SameMembers(entities, entities') /\ Held(entities, stack') /\ Forest(entities)
    BY <1>8, <1>9, <1>10 DEF SameMembers
  <2> QED
    BY <1>9, <1>10, <2>2, <2>3, <2>4, PassedOn
<1> QED
  BY <1>1, <1>8, <1>9, <1>10, <1>11, InvAfter

\* A macro and its parameters are below the file.
LEMMA MacroStep == ASSUME TreeInv, AddMacro PROVE Kept
<1> DEFINE m == Macros[macro + 1]
           parameters == Below(m, {"macro_parameter"})
           x == Entity("macro", m)
           r == [x EXCEPT !.parent = Top.entity]
           new(k) == [Entity("macro_parameter", parameters[k]) EXCEPT !.parent = Next1, !.role = "parameter"]
           q == [k \in DOMAIN parameters |-> new(k)]
           es == Append(entities, r)
<1>1. /\ mode = "parse" /\ Len(stack) = 1 /\ macro < Len(Macros) /\ mode' = mode /\ file' = file /\ stack' = stack
      /\ comment' = comment /\ macro' = macro + 1 /\ entities' = es \o q
  BY DEF AddMacro, MacroDue, Parsing
<1>2. /\ file \in Files /\ macro \in Nat /\ comment \in Nat /\ Forest(entities) /\ Placed(file.cursors, entities)
      /\ StackOK(file.cursors, stack) /\ Held(entities, stack)
  BY <1>1 DEF TreeInv
<1>3. Top.entity = 1 /\ entities[1].kind = "file" /\ 1 \in DOMAIN entities /\ Next1 \in Nat /\ Next1 # 0
  <2>1. Top.entity = 1
    BY <1>1, <1>2, StackFacts DEF Top
  <2>2. entities[1].kind = "file" /\ 1 \in DOMAIN entities /\ Next1 \in Nat /\ Next1 # 0
    BY <1>2 DEF Forest, Next1
  <2> QED
    BY <2>1, <2>2
<1>4. m \in Nat /\ m \in DOMAIN file.cursors /\ file.cursors[m].kind = "macro"
  <2> DEFINE s == Macros
  <2>1. s \in Seq(Nat) /\ \A k \in DOMAIN s : s[k] \in Cursors /\ KindOf(s[k]) \in MacroKinds
    BY <1>2, BelowFacts DEF Macros
  <2>2. macro < Len(s) /\ m = s[macro + 1]
    BY <1>1
  <2> HIDE DEF s, m
  <2>3. macro + 1 \in DOMAIN s
    BY <1>2, <2>1, <2>2
  <2> QED
    BY <2>1, <2>2, <2>3 DEF Cursors, KindOf, Cursor, MacroKinds
<1>5. /\ parameters \in Seq(Nat)
      /\ \A k \in DOMAIN parameters :
           /\ parameters[k] \in DOMAIN file.cursors /\ file.cursors[parameters[k]].kind = "macro_parameter"
           /\ file.cursors[parameters[k]].parent = m
  <2> HIDE DEF m
  <2>1. /\ parameters \in Seq(Nat)
        /\ \A k \in DOMAIN parameters :
             /\ parameters[k] \in Cursors /\ Cursor(parameters[k]).parent = m
             /\ KindOf(parameters[k]) \in {"macro_parameter"}
    BY <1>2, BelowFacts
  <2> HIDE DEF parameters
  <2> QED
    BY <2>1 DEF Cursors, KindOf, Cursor
<1> HIDE DEF m, parameters
<1>12. DOMAIN parameters # {} => file.cursors[m].function
  <2>1. ASSUME NEW k \in DOMAIN parameters PROVE file.cursors[m].function
    <3>1. WellFormed(file.cursors, parameters[k])
      BY <1>2, <1>5, FileFacts DEF CursorsOK
    <3> QED
      BY <1>5, <3>1 DEF WellFormed
  <2> QED
    BY <2>1
<1>6. r \in EntityType /\ r.parent = 1 /\ r.kind = "macro" /\ r.role = "child" /\ r.cursor = m
  <2>1. x \in EntityType /\ x.kind = "macro" /\ x.role = "child" /\ x.cursor = m
    <3>1. "macro" \in CursorKinds \cup {"file"}
      BY DEF CursorKinds
    <3> QED
      BY <1>4, <3>1, NewEntity
  <2> HIDE DEF x
  <2> QED
    BY <1>3, <2>1, ChangedParent
<1>7. ASSUME NEW k \in DOMAIN parameters
      PROVE  /\ new(k) \in EntityType /\ new(k).parent = Next1 /\ new(k).role = "parameter"
             /\ new(k).kind = "macro_parameter" /\ new(k).cursor = parameters[k]
  <2> DEFINE u == Entity("macro_parameter", parameters[k])
             v == [u EXCEPT !.parent = Next1]
             w == [v EXCEPT !.role = "parameter"]
  <2>1. u \in EntityType /\ u.kind = "macro_parameter" /\ u.cursor = parameters[k]
    <3>1. "macro_parameter" \in CursorKinds \cup {"file"} /\ parameters[k] \in Nat
      BY <1>5 DEF CursorKinds
    <3> QED
      BY <3>1, NewEntity
  <2>2. new(k) = w
    OBVIOUS
  <2> HIDE DEF u, new
  <2>3. v \in EntityType /\ v.parent = Next1 /\ v.kind = "macro_parameter" /\ v.cursor = parameters[k]
    BY <1>3, <2>1, ChangedParent
  <2> HIDE DEF v
  <2>4. w \in EntityType /\ w.parent = Next1 /\ w.role = "parameter" /\ w.kind = "macro_parameter" /\ w.cursor = parameters[k]
    BY <2>3, ChangedRole
  <2> QED
    BY <2>2, <2>4
<1>8. q \in Seq(EntityType) /\ DOMAIN q = DOMAIN parameters /\ \A k \in DOMAIN q : q[k] = new(k)
  <2>1. DOMAIN parameters = 1 .. Len(parameters) /\ Len(parameters) \in Nat
    BY <1>5
  <2> HIDE DEF new
  <2> QED
    BY <1>7, <2>1
<1> HIDE DEF new, q, r
<1>9. /\ Forest(es) /\ Placed(file.cursors, es) /\ Held(es, stack) /\ Next1 \in DOMAIN es /\ es[Next1] = r
      /\ SameMembers(entities, es)
  <2>1. Forest(es) /\ Placed(file.cursors, es) /\ SameMembers(entities, es)
    <3>1. r.parent \in 0 .. Len(entities) /\ "file" \in OwnerKinds
      BY <1>2, <1>6 DEF Forest, OwnerKinds, VisitedContainers
    <3>2. Made(file.cursors, r) /\ Owns(file.cursors, entities[r.parent], r) /\ entities[r.parent].kind # "class"
      BY <1>3, <1>4, <1>6, <3>1 DEF Made, Owns
    <3> QED
      BY <1>2, <1>6, <3>1, <3>2, AddedForest, AddedPlaced, AddedMembers
  <2>2. Held(es, stack)
    BY <1>2, <1>6, AddedHeld
  <2>3. Next1 \in DOMAIN es /\ es[Next1] = r
    BY <1>2, <1>6, AppendedSeq DEF Forest, Next1
  <2> QED
    BY <2>1, <2>2, <2>3
<1> HIDE DEF es
<1>10. Forest(entities') /\ Placed(file.cursors, entities')
  <2>1. ASSUME NEW k \in DOMAIN q
        PROVE  q[k].parent \in DOMAIN es /\ Made(file.cursors, q[k]) /\ Owns(file.cursors, es[q[k].parent], q[k])
    <3>1. /\ k \in DOMAIN parameters /\ q[k].parent = Next1 /\ q[k].role = "parameter"
          /\ q[k].kind = "macro_parameter" /\ q[k].cursor = parameters[k]
      BY <1>7, <1>8
    <3>2. es[q[k].parent].kind = "macro" /\ es[q[k].parent].cursor = m /\ file.cursors[m].function
      BY <1>6, <1>9, <1>12, <3>1
    <3>3. Made(file.cursors, q[k])
      BY <1>5, <3>1 DEF Made
    <3> QED
      BY <1>9, <3>1, <3>2, <3>3 DEF Owns
  <2> QED
    BY <1>1, <1>8, <1>9, <2>1, ConcatForest, ConcatPlaced
<1>11. Held(entities', stack')
  BY <1>1, <1>8, <1>9, ConcatHeld
<1>13. TreeInv'
  BY <1>1, <1>2, <1>10, <1>11 DEF TreeInv
<1>14. ASSUME MembersInv PROVE MembersInv'
  <2>1. SameMembers(es, entities')
    <3>1. \A k \in DOMAIN q : q[k].role = "parameter"
      BY <1>7, <1>8
    <3> QED
      BY <1>1, <1>8, <1>9, <3>1, ConcatMembers
  <2>2. SameMembers(entities, entities')
    BY <1>2, <1>9, <1>10, <2>1, SameTransitive
  <2>3. MembersOK(file.cursors, entities, stack)
    BY <1>1, <1>14 DEF MembersInv
  <2>4. MembersOK(file.cursors, entities', stack)
    BY <1>2, <1>10, <2>2, <2>3, SameReady
  <2> QED
    BY <1>1, <2>4 DEF MembersInv
<1> QED
  BY <1>13, <1>14 DEF Kept

\* A friend is a call that holds no entity yet.
LEMMA FriendBegins == ASSUME TreeInv, EnterFriend PROVE Kept
<1>1. PICK c \in Visited({"friend"}) : EnterFriend!(c)
  BY DEF EnterFriend
<1> DEFINE f == Frame("friend", c, 0, Children(c))
           kind == "friend"
<1>2. /\ c \in DOMAIN file.cursors /\ KindOf(c) = "friend" /\ file \in Files /\ comment \in Nat /\ mode = "parse"
      /\ Forest(entities) /\ StackOK(file.cursors, Advanced) /\ Held(entities, Advanced)
      /\ Top.kind \in OfParameters => KindOf(c) \in ParameterKinds
      /\ Last(Advanced).kind = Top.kind /\ Placed(file.cursors, entities)
      /\ file.cursors[c].parent = Last(Advanced).cursor
  BY VisitedFacts DEF TreeInv
<1>3. Last(Advanced).kind \notin OfParameters
  BY <1>2 DEF ParameterKinds
<1>4. stack' = Append(Advanced, f) /\ entities' = entities /\ SameParse /\ comment' = comment
  BY <1>1, ParserAssumption DEF SameParse, treeVars
<1>5. f = Frame(kind, c, 0, Children(c)) /\ f.kind = kind /\ f.entity = 0 /\ f.cursor = c
      /\ kind = "friend" /\ kind \in FrameKinds /\ kind \notin OfParameters
  BY DEF Frame, FrameKinds, OfParameters
<1> HIDE DEF f, kind
<1>6. FrameOK(file.cursors, f)
  <2>1. Children(c) \in Seq(Nat) /\ \A m \in DOMAIN Children(c) : Children(c)[m] \in Cursors /\ Cursor(Children(c)[m]).parent = c
    BY <1>2, BelowFacts
  <2>2. CursorFits(file.cursors, f)
    BY <1>2, <1>5 DEF CursorFits, KindOf, Cursor
  <2>3. c \in Nat /\ 0 \in Nat
    BY <1>2, CursorFacts
  <2> QED
    BY <1>2, <1>5, <2>1, <2>2, <2>3, NewFrame DEF Cursors, Cursor
<1>7. EntityFits(entities', f) /\ f.kind # "file" /\ Calling(file.cursors, Last(Advanced), f)
  BY <1>2, <1>3, <1>5 DEF EntityFits, Calling
<1>8. NextMembers
  <2>1. Ready(file.cursors, entities', f) /\ f \in FrameType /\ f.kind = "friend" /\ Awaiting(entities, Advanced, f.cursor)
    BY <1>5, <1>6, VisitedAwaiting DEF Ready, FrameOK
  <2>2. SameMembers(entities, entities') /\ Forest(entities')
    BY <1>2, <1>4 DEF SameMembers
  <2> QED
    BY <1>2, <1>4, <2>1, <2>2, BegunMembers
<1> QED
  BY <1>2, <1>4, <1>5, <1>6, <1>7, <1>8, CallBegins

\* A friend finds a part of the type that is befriended.
LEMMA NameStep == ASSUME TreeInv, NameFriend PROVE Kept
<1> DEFINE kinds == ReferenceKinds \cup {"expression"}
<1>1. PICK c \in Visited(kinds) : NameFriend!(c)
  BY DEF NameFriend
<1> DEFINE n == Len(stack)
           f == [Advanced[n] EXCEPT !.holds = Holds(c)]
           gs == [Advanced EXCEPT ![n] = f]
<1>2. /\ mode = "parse" /\ Forest(entities) /\ Placed(file.cursors, entities) /\ comment \in Nat
      /\ StackOK(file.cursors, stack) /\ StackOK(file.cursors, Advanced) /\ Held(entities, Advanced)
  BY VisitedFacts DEF TreeInv
<1>3. /\ stack \in Seq(FrameType) /\ n \in DOMAIN stack /\ Top = stack[n] /\ Top \in FrameType /\ stack[1].entity = 1
      /\ Advanced[1].entity = 1 /\ Advanced \in Seq(FrameType)
  BY <1>2, StackFacts DEF Top
<1>4. n \in DOMAIN Advanced /\ Advanced[n] \in FrameType
  <2>1. DOMAIN Advanced = DOMAIN stack
    BY <1>3 DEF Advanced
  <2> QED
    BY <1>2, <1>3, <2>1, StackFacts
<1>5. Holds(c) \in SUBSET {"namespace", "instantiation", "type"}
  <2>1. Top.holds \in SUBSET {"namespace", "instantiation", "type"}
    BY <1>3 DEF FrameType
  <2> QED
    BY <2>1 DEF Holds
<1>6. /\ f \in FrameType /\ f.kind = Advanced[n].kind /\ f.cursor = Advanced[n].cursor /\ f.entity = Advanced[n].entity
      /\ f.todo = Advanced[n].todo
  BY <1>4, <1>5 DEF FrameType
<1>7. stack' = gs /\ entities' = entities /\ comment' = comment /\ SameParse
  BY <1>1 DEF SameParse, treeVars
<1>13. n = Len(Advanced) /\ Advanced[n] = Last(Advanced) /\ Advanced[n].kind = "friend"
  <2>1. DOMAIN Advanced = DOMAIN stack /\ Top.kind = "friend" /\ Last(Advanced).kind = Top.kind
    BY <1>1, <1>3, VisitedFacts DEF Advanced
  <2>2. DOMAIN stack = 1 .. Len(stack) /\ DOMAIN Advanced = 1 .. Len(Advanced) /\ Len(stack) \in Nat /\ Len(Advanced) \in Nat
    BY <1>3
  <2>3. Len(Advanced) = Len(stack)
    <3> DEFINE a == Len(stack)
               b == Len(Advanced)
    <3>1. a \in Nat /\ b \in Nat /\ 1 .. a = 1 .. b
      BY <2>1, <2>2
    <3> HIDE DEF a, b
    <3>2. a = b
      BY <3>1
    <3> QED
      BY <3>2 DEF a, b
  <2> QED
    BY <1>2, <2>1, <2>3, StackFacts
<1>14. f.kind = "friend"
  BY <1>6, <1>13
<1> HIDE DEF f, n
<1>8. \A m \in DOMAIN f.todo : \E i \in DOMAIN Advanced[n].todo : f.todo[m] = Advanced[n].todo[i]
  BY <1>6
<1>9. StackOK(file.cursors, gs)
  BY <1>2, <1>3, <1>4, <1>6, <1>8, ChangedStack
<1>10. DOMAIN gs = DOMAIN Advanced /\ gs[n] = f /\ \A m \in DOMAIN Advanced : m # n => gs[m] = Advanced[m]
  BY <1>3, <1>4, <1>6, ChangedSeq
<1> HIDE DEF gs
<1>11. Held(entities, gs)
  <2>1. \A m \in DOMAIN gs :
          gs[m].kind = Advanced[m].kind /\ gs[m].entity = Advanced[m].entity /\ gs[m].cursor = Advanced[m].cursor
    BY <1>6, <1>10
  <2>2. \A m \in DOMAIN gs : EntityFits(entities, gs[m])
    BY <1>2, <1>10, <2>1 DEF Held, EntityFits
  <2> QED
    BY <1>2, <1>10, <2>1, <2>2 DEF Held
<1>12. NextMembers
  <2>1. SUFFICES ASSUME MembersInv PROVE MembersOK(file.cursors, entities, gs)
    BY <1>7 DEF NextMembers
  <2>2. CallersOK(file.cursors, entities, Advanced)
    BY <1>1, <2>1, VisitedMembers
  <2>3. Len(gs) = Len(Advanced) /\ n = Len(gs) /\ Last(gs) = f
    BY <1>9, <1>10, <1>13, StackFacts
  <2>4. Alike(Advanced, gs)
    BY <1>6, <1>10, <2>3 DEF Alike
  <2>5. Ready(file.cursors, entities, Last(gs))
    BY <1>6, <1>14, <2>3 DEF Ready
  <2> QED
    BY <1>2, <2>2, <2>4, <2>5, AlikeCallers DEF MembersOK
<1> QED
  BY <1>2, <1>7, <1>9, <1>11, <1>12, InvAfter

\* A friend declares what it names.
LEMMA FriendDeclares == ASSUME TreeInv, DeclareFriend PROVE Kept
<1>1. PICK c \in Befriended : DeclareFriend!(c)
  BY DEF DeclareFriend
<1> DEFINE t == Cursor(c).target
           kind == KindOf(t)
           x == Entity(kind, t)
           r == [x EXCEPT !.declares = Declares(kind, t, TRUE)]
<1>2. c \in Visited({"type_ref"}) /\ file \in Files /\ comment \in Nat /\ Top.kind = "friend"
  BY DEF Befriended, TreeInv
<1>3. t \in DOMAIN file.cursors /\ kind \in TypeKinds /\ kind = file.cursors[t].kind
  <2>1. c \in DOMAIN file.cursors /\ KindOf(c) = "type_ref"
    BY <1>2, VisitedFacts
  <2>2. WellFormed(file.cursors, c) /\ file.cursors[c].kind = "type_ref"
    BY <1>2, <2>1, FileFacts DEF CursorsOK, KindOf, Cursor
  <2> QED
    BY <2>2 DEF WellFormed, Cursor, KindOf
<1>4. Return(Append(entities, r), Advanced, Next1) /\ comment' \in Nat /\ SameParse
  BY <1>1, <1>2 DEF SameParse
<1> HIDE DEF t
<1>5. x \in EntityType /\ x.parent = 0 /\ x.kind = kind /\ x.role = "child" /\ x.cursor = t
  <2>1. kind \in CursorKinds \cup {"file"} /\ t \in Nat
    BY <1>2, <1>3, CursorFacts
  <2> HIDE DEF kind
  <2> QED
    BY <2>1, NewEntity
<1>6. Declares(kind, t, TRUE) \in Id \cup {NoId}
  BY <1>2, <1>3, DeclaredFacts
<1> HIDE DEF x, kind
<1>7. r \in EntityType /\ r.parent = 0 /\ r.kind = kind /\ r.role = "child" /\ r.cursor = t
  BY <1>5, <1>6, ChangedDeclares
<1> HIDE DEF r
<1>8. /\ {"type_ref"} \cap ParameterKinds = {} /\ "access_specifier" \notin {"type_ref"}
      /\ r.kind \notin {"access_specifier", "file"} /\ Made(file.cursors, r)
  <2>1. Made(file.cursors, r)
    BY <1>3, <1>7 DEF Made
  <2> QED
    BY <1>3, <1>7, <2>1 DEF ParameterKinds, TypeKinds
<1> QED
  BY <1>2, <1>4, <1>7, <1>8, NewReturned

\* The parse ends.
LEMMA ParseEnds == ASSUME TreeInv, FinishFile \/ DereferenceNull PROVE Kept
<1>1. mode' \in {"parsed", "crashed"} /\ file' = file /\ entities' = entities /\ macro' = macro /\ comment' = comment
  BY DEF FinishFile, DereferenceNull, treeVars
<1>2. TreeInv'
  BY <1>1 DEF TreeInv
<1>3. MembersInv => Ordered(file.cursors, entities)
  BY DEF MembersInv, MembersOK, CallersOK
<1>4. MembersInv => MembersInv'
  BY <1>1, <1>3 DEF MembersInv
<1> QED
  BY <1>2, <1>4 DEF Kept

\* A friend ends, with the entity it declares or without.
LEMMA FriendStep == ASSUME TreeInv, FinishFriend PROVE Kept
<1> DEFINE c == Top.cursor
           e == Top.entity
           fs == Front(stack)
           x == Entity("friend", c)
           r == [x EXCEPT !.comment = FriendComment(c)]
           es == Append(entities, r)
           n == Len(entities) + 1
           gs == IF e = 0 THEN es ELSE [es EXCEPT ![e].parent = n]
<1>1. Finished({"friend"}) /\ SameParse /\ Match(c, TRUE) /\ Return(gs, fs, n)
  BY ParserAssumption DEF FinishFriend, SameParse, Next1
<1>2. /\ mode = "parse" /\ Top.kind = "friend" /\ file \in Files
      /\ Forest(entities) /\ Placed(file.cursors, entities) /\ StackOK(file.cursors, stack) /\ Held(entities, stack)
      /\ Top = Last(stack) /\ c \in DOMAIN file.cursors
      /\ e # 0 => e \in DOMAIN entities /\ entities[e].parent = 0
      /\ e # 0 => entities[e].role = "child" /\ entities[e].kind # "access_specifier"
      /\ Top \in FrameType /\ file.cursors[c].kind = "friend"
  BY <1>1, FinishedFacts DEF FrameOK, EntityFits, CursorFits
<1>3. comment' \in Nat /\ CommentAt(c) \in Nat /\ Top.comment \in Nat
  <2>1. Cursor(c).line \in Nat
    BY <1>2, CursorFacts
  <2> QED
    BY <1>1, <1>2, <2>1, MatchFacts, CommentFacts DEF CommentAt, FrameType
<1>4. x \in EntityType /\ x.parent = 0 /\ x.kind = "friend" /\ x.role = "child" /\ x.cursor = c /\ FriendComment(c) \in Nat
  <2>1. "friend" \in CursorKinds \cup {"file"} /\ c \in Nat
    BY <1>2, CursorFacts DEF CursorKinds
  <2>2. FriendComment(c) \in Nat
    BY <1>3 DEF FriendComment
  <2> QED
    BY <2>1, <2>2, NewEntity
<1> HIDE DEF x
<1>5. r \in EntityType /\ r.parent = 0 /\ r.kind = "friend" /\ r.role = "child" /\ r.cursor = c /\ Made(file.cursors, r)
  <2>1. r \in EntityType /\ r.parent = 0 /\ r.kind = "friend" /\ r.role = "child" /\ r.cursor = c
    BY <1>4, ChangedComment
  <2> HIDE DEF r
  <2> QED
    BY <1>2, <2>1 DEF Made
<1> HIDE DEF r
<1>6. /\ StackOK(file.cursors, fs) /\ Held(entities, fs)
      /\ e # 0 => Free(entities, fs, e)
      /\ Last(fs).kind \notin OfParameters /\ file.cursors[c].parent = Last(fs).cursor
      /\ Awaiting(entities, fs, c)
  BY <1>2, PoppedOK, FrontAwaiting
<1> HIDE DEF fs
<1>7. /\ Forest(es) /\ Placed(file.cursors, es) /\ Held(es, fs) /\ Free(es, fs, n) /\ (e # 0 => Free(es, fs, e))
      /\ SameMembers(entities, es)
  <2>1. Forest(es) /\ Placed(file.cursors, es) /\ SameMembers(entities, es)
    <3>1. r.parent \in 0 .. Len(entities) /\ r.parent = 0
      BY <1>2, <1>5 DEF Forest
    <3> QED
      BY <1>2, <1>5, <3>1, AddedForest, AddedPlaced, AddedMembers
  <2> QED
    BY <1>2, <1>5, <1>6, <2>1, AddedHeld, StillFree
<1>8. es[n] = r /\ n \in DOMAIN es /\ (e # 0 => e # n /\ e \in DOMAIN es /\ es[e] = entities[e])
  <2>1. Len(entities) \in Nat /\ DOMAIN entities = 1 .. Len(entities) /\ entities \in Seq(EntityType)
    BY <1>2 DEF Forest
  <2>2. es[n] = r /\ n \in DOMAIN es /\ \A d \in DOMAIN entities : es[d] = entities[d]
    BY <1>5, <2>1, AppendedSeq
  <2> QED
    BY <1>2, <1>7, <2>1, <2>2 DEF Free
<1> HIDE DEF es, n
<1>9. /\ Forest(gs) /\ Placed(file.cursors, gs) /\ Held(gs, fs) /\ Free(gs, fs, n)
      /\ gs[n].role = "child" /\ gs[n].kind = "friend" /\ gs[n].cursor = c /\ SameMembers(entities, gs)
  <2>1. CASE e = 0
    BY <1>5, <1>7, <1>8, <2>1
  <2>2. CASE e # 0
    <3>1. e # 1
      BY <1>6, <2>2, StackFacts DEF Free
    <3>2. es[e].parent = 0 /\ es[n].parent = 0
      BY <1>5, <1>7, <1>8, <2>2 DEF Free
    <3>6. Owns(file.cursors, es[n], es[e])
      BY <1>2, <1>5, <1>8, <2>2 DEF OwnerKinds, Owns
    <3>3. Forest([es EXCEPT ![e].parent = n]) /\ Placed(file.cursors, [es EXCEPT ![e].parent = n])
      BY <1>7, <1>8, <2>2, <3>1, <3>2, <3>6, LinkedForest, LinkedPlaced
    <3>7. [es EXCEPT ![e].parent = n][n] = r
      BY <1>8, <2>2
    <3>4. Held([es EXCEPT ![e].parent = n], fs)
      BY <1>6, <1>7, <2>2, LinkedHeld
    <3>5. Free([es EXCEPT ![e].parent = n], fs, n)
      BY <1>7, <1>8, <2>2 DEF Free
    <3>8. SameMembers(es, [es EXCEPT ![e].parent = n])
      BY <1>5, <1>7, <1>8, <2>2, <3>2, LinkedMembers
    <3>9. SameMembers(entities, [es EXCEPT ![e].parent = n])
      BY <1>2, <1>7, <3>3, <3>8, SameTransitive
    <3> QED
      BY <1>5, <2>2, <3>3, <3>4, <3>5, <3>7, <3>9
  <2> QED
    BY <2>1, <2>2
<1> HIDE DEF gs
<1>11. Returnable(file.cursors, Last(fs), gs[n]) /\ entities' = Added(gs, fs, n) /\ stack' = Holding(gs, fs, n)
  BY <1>1, <1>6, <1>9 DEF Returnable, Return
<1>10. /\ Forest(entities') /\ Placed(file.cursors, entities')
       /\ StackOK(file.cursors, stack') /\ Held(entities', stack')
  BY <1>6, <1>9, <1>11, ReturnedOK
<1>12. NextMembers
  <2>1. Awaiting(gs, fs, c)
    BY <1>2, <1>6, <1>9, SameAwaiting
  <2>2. Last(fs).kind = "class" => (MembersInv => \A d \in MembersOf(gs, Last(fs).entity) : d < n)
    BY <1>2, <1>6, <1>9, NewMembers DEF Awaiting, n
  <2>3. c \in Nat /\ file.cursors[c].kind # "access_specifier"
    BY <1>2, CursorFacts
  <2> HIDE DEF c
  <2> QED
    BY <1>2, <1>6, <1>9, <1>11, <2>1, <2>2, <2>3, ReturnMembers
<1> QED
  BY <1>1, <1>2, <1>3, <1>10, <1>12, InvAfter

\* A friend that nothing is made of leaves what it held without a parent.
LEMMA FailedStep == ASSUME TreeInv, FailFriend PROVE Kept
<1>1. Finished({"friend"}) /\ SameParse /\ stack' = Front(stack) /\ entities' = entities /\ comment' = comment
  BY DEF FailFriend, SameParse, treeVars
<1>2. /\ mode = "parse" /\ Top.kind = "friend" /\ comment \in Nat
      /\ Forest(entities) /\ Placed(file.cursors, entities)
      /\ StackOK(file.cursors, stack) /\ Held(entities, stack) /\ Top = Last(stack)
  BY <1>1, FinishedFacts
<1>3. StackOK(file.cursors, Front(stack)) /\ Held(entities, Front(stack))
  BY <1>2, PoppedOK
<1>4. NextMembers
  <2>1. /\ Top.cursor \in DOMAIN file.cursors /\ Top.cursor \in Nat /\ file.cursors[Top.cursor].kind # "access_specifier"
    <3>1. Len(stack) \in DOMAIN stack /\ Top = stack[Len(stack)]
      BY <1>2, StackFacts
    <3> QED
      BY <1>2, <3>1, FrameCursor
  <2>2. Awaiting(entities, stack', Top.cursor)
    BY <1>1, <1>2, FrontAwaiting
  <2>3. SameMembers(entities, entities')
    BY <1>1 DEF SameMembers
  <2> QED
    BY <1>1, <1>2, <1>3, <2>1, <2>2, <2>3, PassedOn
<1> QED
  BY <1>1, <1>2, <1>3, <1>4, InvAfter

\* Every step of a parse keeps the invariants.
LEMMA ParseKeeps == ASSUME TreeInv, ParseNext PROVE Kept
<1>1. CASE AddMacro \/ AddInclude \/ FinishFile \/ DereferenceNull \/ CatchError \/ FailFunction \/ ParseNothing \/ SkipPart
  BY <1>1, MacroStep, IncludeStep, ParseEnds, PassedStep, FailedFunctionStep
<1>2. CASE LeafActions \/ ParseConcept
  BY <1>2, LeavesStep, ConceptStep
<1>3. CASE EnterLinkage \/ EnterEnum \/ EnterNamespace \/ EnterClass \/ EnterNestedNamespace
  BY <1>3, ContainerStep, NestedNamespaceStep
<1>4. CASE FinishLinkage \/ FinishNamespace \/ FinishEnum \/ FinishTemplateParameter \/ FinishTemplate \/ FinishClass
  BY <1>4, FinishStep, ClassStep
<1>5. CASE AddPart \/ AddParameter \/ EnterTemplateParameter \/ ParseFunctionTemplate \/ ParseAliasTemplate \/ Unwind
  BY <1>5, PartStep, ParameterStep, TemplateParameterStep, FunctionTemplateStep, AliasTemplateStep, UnwindStep
<1>6. CASE EnterFriend \/ NameFriend \/ DeclareFriend \/ FinishFriend \/ FailFriend
  BY <1>6, FriendBegins, NameStep, FriendDeclares, FriendStep, FailedStep
<1> QED
  BY <1>1, <1>2, <1>3, <1>4, <1>5, <1>6 DEF ParseNext, LeafActions

\* That of the tree is kept by itself.
LEMMA ParseStep == ASSUME TreeInv, ParseNext PROVE TreeInv'
  BY ParseKeeps DEF Kept

----------------------------------------------------------------------------
(* The invariant.                                                          *)

\* The top-level cursors are a sequence of them.
LEMMA TopLevelFacts ==
    ASSUME file \in Files
    PROVE  TopLevel \in Seq(Nat) /\ \A m \in DOMAIN TopLevel : TopLevel[m] \in Cursors /\ Cursor(TopLevel[m]).parent = 0
<1> DEFINE S == {k \in Cursors : Cursor(k).parent = 0 /\ KindOf(k) \notin {"include", "macro"}}
           n == Len(file.cursors)
           a == Below(0, {"include"})
           b == InOrder(S)
<1>1. n \in Nat /\ S \in SUBSET (1 .. n) /\ \A k \in S : k \in Nat
  <2>1. n \in Nat /\ Cursors = 1 .. n
    BY FileFacts DEF CursorsOK, Cursors
  <2> QED
    BY <2>1
<1>2. \A k \in S : k \in Cursors /\ Cursor(k).parent = 0
  OBVIOUS
<1> HIDE DEF S, n
<1>3. b \in Seq(S)
  BY <1>1, InOrderFacts
<1> HIDE DEF b
<1>4. b \in Seq(Nat) /\ \A m \in DOMAIN b : b[m] \in S
  <2>1. S \subseteq Nat
    BY <1>1
  <2>2. b \in Seq(Nat)
    BY <1>3, <2>1, WiderSeq
  <2>3. \A m \in DOMAIN b : b[m] \in S
    BY <1>3
  <2> QED
    BY <2>2, <2>3
<1>5. a \in Seq(Nat) /\ \A m \in DOMAIN a : a[m] \in Cursors /\ Cursor(a[m]).parent = 0
  BY BelowFacts
<1>6. TopLevel = a \o b
  BY DEF TopLevel, S, b
<1> HIDE DEF a
<1>7. a \o b \in Seq(Nat) /\ \A m \in DOMAIN (a \o b) :
         (m \in DOMAIN a /\ (a \o b)[m] = a[m]) \/ (m - Len(a) \in DOMAIN b /\ (a \o b)[m] = b[m - Len(a)])
  BY <1>4, <1>5
<1> QED
  BY <1>2, <1>4, <1>5, <1>6, <1>7

\* A parse starts with the file, which is entity 1.
LEMMA TreeInit == ASSUME ParseInit PROVE TreeInv
<1> DEFINE x == Entity("file", 0)
           f == Frame("file", 0, 1, TopLevel)
<1>1. file \in Files /\ mode = "parse" /\ entities = <<x>> /\ stack = <<f>> /\ macro = 0 /\ comment = 1
  BY DEF ParseInit
<1>2. x \in EntityType /\ x.kind = "file" /\ x.parent = 0 /\ x.role = "child" /\ x.cursor = 0
  BY NewEntity
<1>3. Forest(entities) /\ Placed(file.cursors, entities) /\ entities[1] = x
  <2> HIDE DEF x
  <2>1. entities \in Seq(EntityType) /\ Len(entities) = 1 /\ DOMAIN entities = {1} /\ entities[1] = x
    BY <1>1, <1>2
  <2>2. Grounded(entities)
    <3>1. SUFFICES ASSUME NEW S \in SUBSET (DOMAIN entities), \A e \in S : entities[e].parent \in S PROVE S = {}
      BY DEF Grounded
    <3>2. 0 \notin S
      BY <2>1
    <3> QED
      BY <1>2, <2>1, <3>1, <3>2
  <2>3. Placed(file.cursors, entities)
    BY <1>2, <2>1 DEF Placed, Made
  <2> QED
    BY <1>2, <2>1, <2>2, <2>3 DEF Forest
<1>4. f.kind = "file" /\ f.cursor = 0 /\ f.entity = 1 /\ FrameOK(file.cursors, f)
  <2>1. f.kind = "file" /\ f.cursor = 0 /\ f.entity = 1
    BY DEF Frame
  <2>2. CursorFits(file.cursors, f)
    BY <2>1 DEF CursorFits
  <2>3. \A m \in DOMAIN TopLevel : TopLevel[m] \in DOMAIN file.cursors /\ file.cursors[TopLevel[m]].parent = 0
    BY <1>1, TopLevelFacts DEF Cursors, Cursor
  <2> DEFINE kind == "file"
  <2>4. kind \in FrameKinds /\ kind \notin OfParameters /\ TopLevel \in Seq(Nat) /\ 0 \in Nat /\ 1 \in Nat
        /\ f = Frame(kind, 0, 1, TopLevel)
    BY <1>1, TopLevelFacts DEF FrameKinds, OfParameters
  <2> HIDE DEF f, kind
  <2>5. FrameOK(file.cursors, Frame(kind, 0, 1, TopLevel))
    BY <1>1, <2>2, <2>3, <2>4, NewFrame
  <2> QED
    BY <2>1, <2>4, <2>5
<1> HIDE DEF f
<1>5. DOMAIN stack = {1} /\ stack[1] = f /\ Len(stack) = 1 /\ stack \in Seq(FrameType)
  BY <1>1, <1>4 DEF FrameOK
<1>6. StackOK(file.cursors, stack)
  BY <1>4, <1>5 DEF StackOK
<1>7. Held(entities, stack)
  <2>1. 1 \in DOMAIN entities /\ entities[1].kind = "file" /\ entities[1].parent = 0
    BY <1>3 DEF Forest
  <2>2. EntityFits(entities, f)
    BY <1>2, <1>3, <1>4, <2>1 DEF EntityFits
  <2> QED
    BY <1>4, <1>5, <2>1, <2>2 DEF Held
<1> QED
  BY <1>1, <1>3, <1>6, <1>7 DEF TreeInv

\* There is no class yet.
LEMMA MembersInit == ASSUME ParseInit PROVE MembersInv
<1>1. mode = "parse" /\ Len(entities) = 1 /\ Len(stack) = 1 /\ entities[1].kind = "file" /\ stack[1].kind = "file"
      /\ DOMAIN entities = {1} /\ DOMAIN stack = {1}
  <2>1. mode = "parse" /\ entities = <<Entity("file", 0)>> /\ stack = <<Frame("file", 0, 1, TopLevel)>>
    BY DEF ParseInit
  <2> QED
    BY <2>1 DEF Entity, Frame
<1>2. Ordered(file.cursors, entities)
  BY <1>1 DEF Ordered
<1>3. Last(stack) = stack[1]
  BY <1>1 DEF Last
<1> QED
  BY <1>1, <1>2, <1>3 DEF MembersInv, MembersOK, CallersOK, Ready

----------------------------------------------------------------------------
(* Lists of entities.                                                      *)

Elements(s) == {s[m] : m \in DOMAIN s}

\* What an entity owns in a role.
Owned(e, role) == {k \in DOMAIN entities : entities[k].parent = e /\ entities[k].role = role}

\* What an entity owns in a role, in order.
LEMMA OwnedFacts ==
    ASSUME Forest(entities), NEW e, NEW role
    PROVE  /\ ChildrenOf(e, role) \in Seq(Nat) /\ Increasing(ChildrenOf(e, role))
           /\ Elements(ChildrenOf(e, role)) = Owned(e, role)
           /\ \A k \in Owned(e, role) : k \in Nat /\ k \in DOMAIN entities /\ Parent(k) = e
<1> DEFINE n == Len(entities)
           q == ChildrenOf(e, role)
<1>1. n \in Nat /\ DOMAIN entities = 1 .. n
  BY DEF Forest
<1>2. Owned(e, role) \in SUBSET (1 .. n) /\ \A k \in Owned(e, role) : k \in DOMAIN entities /\ Parent(k) = e
  BY <1>1 DEF Owned, Parent
<1>3. q = InOrder(Owned(e, role))
  BY DEF ChildrenOf, Owned
<1> HIDE DEF q
<1>4. q \in Seq(Owned(e, role)) /\ Increasing(q) /\ \A k \in Owned(e, role) : \E i \in DOMAIN q : q[i] = k
  BY <1>1, <1>2, <1>3, InOrderFacts
<1>5. \A k \in Owned(e, role) : k \in Nat
  BY <1>1, <1>2
<1>6. q \in Seq(Nat)
  <2>1. Owned(e, role) \subseteq Nat
    BY <1>5
  <2> QED
    BY <1>4, <2>1, WiderSeq
<1>7. \A i \in DOMAIN q : q[i] \in Owned(e, role)
  BY <1>4
<1>8. Elements(q) = Owned(e, role)
  BY <1>4, <1>7 DEF Elements
<1> QED
  BY <1>2, <1>4, <1>5, <1>6, <1>8 DEF q

\* Front removes one.
LEMMA FrontLength ==
    ASSUME NEW T, NEW s \in Seq(T), s # <<>>
    PROVE  Len(Front(s)) = Len(s) - 1
<1> DEFINE n == Len(s) - 1
<1>1. n \in Nat /\ n <= Len(s) /\ Front(s) = SubSeq(s, 1, n)
  BY DEF Front
<1> HIDE DEF n
<1>2. Len(SubSeq(s, 1, n)) = n
  BY <1>1
<1> QED
  BY <1>1, <1>2 DEF n

----------------------------------------------------------------------------
(* The theorem.                                                            *)

\* A step of the parser begins nothing else.
LEMMA ParseModes == ASSUME mode = "parse", ParseNext PROVE mode' \in {"parse", "parsed", "crashed"}
<1>1. \A kinds, c : c \in Visited(kinds) => mode = "parse"
  BY DEF Visited, Parsing
<1>2. CASE AddMacro \/ AddInclude \/ FinishFile \/ CatchError \/ FailFunction \/ ParseNothing \/ DereferenceNull
  BY <1>2 DEF AddMacro, AddInclude, FinishFile, CatchError, FailFunction, ParseNothing, DereferenceNull
<1>3. CASE LeafActions \/ ParseConcept
  BY <1>3 DEF LeafActions, ParseNamespaceAlias, ParseUsingDirective, ParseUsingDeclaration, ParseTypeAlias, ParseVariable,
     ParseMemberVariable, ParseFunction, ParseEnumValue, ParseStaticAssert, ParseUnexposed, Leaf, ParseConcept
<1>4. CASE EnterLinkage \/ EnterEnum \/ EnterNamespace \/ EnterNestedNamespace \/ EnterClass \/ AddPart \/ SkipPart
  BY <1>4 DEF EnterLinkage, EnterEnum, EnterNamespace, EnterNestedNamespace, EnterClass, Enter, AddPart, SkipPart
<1>5. CASE FinishLinkage \/ FinishNamespace \/ FinishEnum \/ FinishClass \/ FinishTemplateParameter \/ FinishTemplate \/ Unwind
  BY <1>5 DEF FinishLinkage, FinishNamespace, FinishEnum, FinishClass, FinishTemplateParameter, FinishTemplate, Unwind
<1>6. CASE ParseFunctionTemplate \/ ParseAliasTemplate \/ AddParameter \/ EnterTemplateParameter
  BY <1>6 DEF ParseFunctionTemplate, ParseAliasTemplate, AddParameter, EnterTemplateParameter
<1>7. CASE EnterFriend \/ NameFriend \/ DeclareFriend \/ FinishFriend \/ FailFriend
  BY <1>7 DEF EnterFriend, NameFriend, DeclareFriend, FinishFriend, FailFriend
<1> QED
  BY <1>2, <1>3, <1>4, <1>5, <1>6, <1>7 DEF ParseNext, LeafActions

\* The parser runs in its own mode.
LEMMA ParseIsParsing == ASSUME ParseNext PROVE mode = "parse"
<1>1. \A kinds, c : c \in Visited(kinds) => mode = "parse"
  BY DEF Visited, Parsing
<1>2. \A kinds : Finished(kinds) => mode = "parse"
  BY DEF Finished, Parsing
<1>3. \A c : c \in Befriended => mode = "parse"
  BY <1>1 DEF Befriended
<1>4. CASE AddMacro \/ AddInclude \/ FinishFile \/ CatchError \/ FailFunction \/ ParseNothing \/ DereferenceNull
  BY <1>1, <1>2, <1>3, <1>4 DEF AddMacro, Parsing, AddInclude, FinishFile, CatchError, FailFunction, ParseNothing, DereferenceNull
<1>5. CASE LeafActions \/ ParseConcept
  BY <1>1, <1>5 DEF LeafActions, ParseNamespaceAlias, ParseUsingDirective, ParseUsingDeclaration, ParseTypeAlias,
     ParseVariable, ParseMemberVariable, ParseFunction, ParseEnumValue, ParseStaticAssert, ParseUnexposed, ParseConcept
<1>6. CASE EnterLinkage \/ EnterEnum \/ EnterNamespace \/ EnterNestedNamespace \/ EnterClass \/ AddPart \/ SkipPart
  BY <1>1, <1>6 DEF EnterLinkage, EnterEnum, EnterNamespace, EnterNestedNamespace, EnterClass, AddPart, SkipPart
<1>7. CASE FinishLinkage \/ FinishNamespace \/ FinishEnum \/ FinishClass \/ FinishTemplateParameter \/ FinishTemplate \/ Unwind
  BY <1>1, <1>2, <1>7 DEF FinishLinkage, FinishNamespace, FinishEnum, FinishClass, FinishTemplateParameter, FinishTemplate,
     Unwind, Throws
<1>8. CASE ParseFunctionTemplate \/ ParseAliasTemplate \/ AddParameter \/ EnterTemplateParameter
  BY <1>1, <1>8 DEF ParseFunctionTemplate, ParseAliasTemplate, AddParameter, EnterTemplateParameter
<1>9. CASE EnterFriend \/ NameFriend \/ DeclareFriend \/ FinishFriend \/ FailFriend
  BY <1>1, <1>2, <1>3, <1>9 DEF EnterFriend, NameFriend, DeclareFriend, FinishFriend, FailFriend
<1> QED
  BY <1>4, <1>5, <1>6, <1>7, <1>8, <1>9 DEF ParseNext, LeafActions

\* What comes after the parse leaves the tree alone.
LEMMA TreeKept ==
    ASSUME TreeInv, BeginVisit \/ ContinueVisit \/ BeginGenerate \/ GenerateNext \/ Stop \/ UNCHANGED vars
    PROVE  TreeInv'
<1>1. CASE UNCHANGED vars
  BY <1>1 DEF TreeInv, vars, treeVars, parseVars, StackOK, Held, FrameOK
<1>2. ASSUME UNCHANGED <<treeVars, parseVars>>, mode' # "parse" PROVE TreeInv'
  BY <1>2 DEF TreeInv, treeVars, parseVars
<1>3. CASE BeginVisit
  BY <1>2, <1>3 DEF BeginVisit, StartVisit
<1>4. CASE ContinueVisit
  BY <1>2, <1>4 DEF ContinueVisit, VisitNext, VisitRoot, VisitChild, LeaveContainer, Visit
<1>5. CASE BeginGenerate
  BY <1>2, <1>5 DEF BeginGenerate, StartGenerate
<1>6. CASE GenerateNext
  BY <1>2, <1>6 DEF GenerateNext, WriteDirect, SkipExcluded, WriteItem, WriteParameter, WriteBase, UpdateAccess, WriteMember,
     FinishList, FinishEntity, FinishGenerate, InList, Unchanged
<1>7. CASE Stop
  BY <1>1, <1>7 DEF Stop
<1> QED
  BY <1>1, <1>3, <1>4, <1>5, <1>6, <1>7

\* So it does the members of classes.
LEMMA MembersKept ==
    ASSUME TreeInv, MembersInv, BeginVisit \/ ContinueVisit \/ BeginGenerate \/ GenerateNext \/ Stop \/ UNCHANGED vars
    PROVE  MembersInv'
<1>1. CASE UNCHANGED vars
  BY <1>1 DEF MembersInv, vars, treeVars, parseVars, MembersOK, CallersOK, Ordered, Ready, ClassOK, Awaits, AwaitsCursor,
     Younger, Known, MembersOf, SpecifiersOf, Increasing
<1>2. ASSUME UNCHANGED <<treeVars, parseVars>>, mode # "parse", mode' # "parse" PROVE MembersInv'
  BY <1>2 DEF MembersInv, treeVars, parseVars
<1>3. CASE BeginVisit
  BY <1>2, <1>3 DEF BeginVisit, StartVisit
<1>4. CASE ContinueVisit
  BY <1>2, <1>4 DEF ContinueVisit, VisitNext, VisitRoot, VisitChild, LeaveContainer, Visit
<1>5. CASE BeginGenerate
  BY <1>2, <1>5 DEF BeginGenerate, StartGenerate
<1>6. CASE GenerateNext
  BY <1>2, <1>6 DEF GenerateNext, WriteDirect, SkipExcluded, WriteItem, WriteParameter, WriteBase, UpdateAccess, WriteMember,
     FinishList, FinishEntity, FinishGenerate, InList, Unchanged
<1>7. CASE Stop
  BY <1>1, <1>7 DEF Stop
<1> QED
  BY <1>1, <1>3, <1>4, <1>5, <1>6, <1>7

\* Whatever the file, and at every moment of the parse, of a visit and while code is
\* generated: the entities are a forest in which only containers and friends have
\* children, only classes bases and access specifiers, and only templates and macros that
\* are used like functions parameters; the file is a root of it, and what a call of
\* parse_entity has not returned yet has no owner, whatever is thrown in between.  Hence an
\* entity is added to one parent at most, and never to one that it is around of.
\* libclang_parser::do_parse, parse_entity and the builders it calls.
THEOREM TreeIsForest == Spec => []TreeInv
<1>1. Init => TreeInv
  BY TreeInit DEF Init
<1>2. TreeInv /\ [Next]_vars => TreeInv'
  BY ParseStep, TreeKept DEF Next, Parse
<1> QED
  BY <1>1, <1>2, PTL DEF Spec

\* The members of every class are in the order of the cursors they are made from, and no
\* member that is made from a cursor behind an access specifier is there without an entity
\* for the specifier: whatever is thrown, skipped or only declared in between, and although
\* the members that are calls of their own are added to their class when these return.  Hence
\* whoever goes through the members can tell the access of each by the specifiers it has
\* passed.  parse_cpp_class.
THEOREM MembersInOrder == Spec => []MembersInv
<1>1. Init => TreeInv /\ MembersInv
  BY TreeInit, MembersInit DEF Init
<1>2. TreeInv /\ MembersInv /\ [Next]_vars => (TreeInv /\ MembersInv)'
  BY ParseKeeps, ParseStep, TreeKept, MembersKept DEF Next, Parse, Kept
<1> QED
  BY <1>1, <1>2, PTL DEF Spec

----------------------------------------------------------------------------
(* Comments.                                                               *)

\* Cursor d is c or below it.
Within(d, c) == \A S \in SUBSET Cursors : c \in S /\ (\A x \in Cursors : Cursor(x).parent \in S => x \in S) => d \in S

\* A comment is beside the cursor of its entity; that of a friend may have been that of what
\* it befriends, and nested namespaces inherit theirs from a namespace around them.
Fits(r) ==
    r.comment # 0 =>
      /\ r.comment \in DOMAIN Comments
      /\ \/ Beside(r.comment, r.cursor)
         \/ r.kind = "friend" /\ \E d \in Cursors : Within(d, r.cursor) /\ Beside(r.comment, d)
         \/ /\ r.kind = "namespace" /\ KindOf(r.cursor) = "namespace" /\ Cursor(r.cursor).nested
            /\ \E d \in Cursors : KindOf(d) = "namespace" /\ Within(r.cursor, d) /\ Beside(r.comment, d)

\* The call for a friend has it from a cursor below it.
HeldFits(f) ==
    f.comment # 0 =>
      f.comment \in DOMAIN Comments /\ \E d \in Cursors : Within(d, f.cursor) /\ Beside(f.comment, d)

\* Includes look at the comments without taking them.
Given(es) == {e \in DOMAIN es : es[e].kind # "include" /\ es[e].comment # 0}

\* Comments come from before the current one, and each is with one entity or with one call
\* that parses a friend.
OnceIn(es, fs, k) ==
    /\ \A e \in DOMAIN es : Fits(es[e]) /\ (es[e].kind # "include" => es[e].comment \in 0 .. k - 1)
    /\ \A n \in DOMAIN fs : HeldFits(fs[n]) /\ fs[n].comment \in 0 .. k - 1
    /\ \A d, e \in Given(es) : es[d].comment = es[e].comment => d = e
    /\ \A n \in DOMAIN fs, e \in Given(es) : fs[n].comment # es[e].comment
    /\ \A m, n \in DOMAIN fs : fs[m].comment # 0 /\ fs[m].comment = fs[n].comment => m = n

CommentsInv == comment \in 1 .. Len(Comments) + 1 /\ OnceIn(entities, stack, comment)

\* The entities keep their comments or lose them, and what is new has none.
FewerGiven(es, gs) ==
    \A e \in DOMAIN gs :
      \/ gs[e].comment = 0
      \/ e \in DOMAIN es /\ gs[e].kind = es[e].kind /\ gs[e].cursor = es[e].cursor /\ gs[e].comment = es[e].comment

\* So do the calls under way, and some are over.
FewerHeld(fs, hs) ==
    \A n \in DOMAIN hs :
      hs[n].comment = 0 \/ (n \in DOMAIN fs /\ hs[n].comment = fs[n].comment /\ hs[n].cursor = fs[n].cursor)

\* A comment that fits still fits if it is lost.
LEMMA FewerFit == ASSUME NEW es, NEW gs, FewerGiven(es, gs), \A e \in DOMAIN es : Fits(es[e]) PROVE \A e \in DOMAIN gs : Fits(gs[e])
  BY DEF FewerGiven, Fits

\* Comments that are lost are no problem.
LEMMA OnceLess ==
    ASSUME NEW k \in Nat, NEW l \in Nat, k <= l, k >= 1, NEW es, NEW fs, OnceIn(es, fs, k),
           NEW gs, FewerGiven(es, gs), NEW hs, FewerHeld(fs, hs)
    PROVE  OnceIn(gs, hs, l)
<1>1. \A e \in DOMAIN gs : Fits(gs[e]) /\ (gs[e].kind # "include" => gs[e].comment \in 0 .. l - 1)
  <2>1. \A e \in DOMAIN gs : Fits(gs[e])
    BY FewerFit DEF OnceIn
  <2> QED
    BY <2>1 DEF OnceIn, FewerGiven
<1>2. \A n \in DOMAIN hs : HeldFits(hs[n]) /\ hs[n].comment \in 0 .. l - 1
  BY DEF OnceIn, FewerHeld, HeldFits
<1>3. \A e \in Given(gs) : e \in Given(es) /\ gs[e].comment = es[e].comment
  BY DEF FewerGiven, Given
<1>4. \A d, e \in Given(gs) : gs[d].comment = gs[e].comment => d = e
  BY <1>3 DEF OnceIn
<1>5. \A n \in DOMAIN hs, e \in Given(gs) : hs[n].comment # gs[e].comment
  BY <1>3 DEF OnceIn, FewerHeld, Given
<1>6. \A m, n \in DOMAIN hs : hs[m].comment # 0 /\ hs[m].comment = hs[n].comment => m = n
  BY DEF OnceIn, FewerHeld
<1> QED
  BY <1>1, <1>2, <1>4, <1>5, <1>6 DEF OnceIn

\* What a new entity is given, if it is nobody else's.
LEMMA OnceAdded ==
    ASSUME NEW k \in Nat, NEW es \in Seq(EntityType), NEW fs, OnceIn(es, fs, k),
           NEW r \in EntityType, Fits(r), r.kind # "include" => r.comment \in 0 .. k - 1,
           r.kind # "include" /\ r.comment # 0 =>
             /\ \A e \in Given(es) : es[e].comment # r.comment
             /\ \A n \in DOMAIN fs : fs[n].comment # r.comment
    PROVE  OnceIn(Append(es, r), fs, k)
<1> DEFINE gs == Append(es, r)
           l == Len(es) + 1
<1>1. /\ DOMAIN es = 1 .. Len(es) /\ Len(es) \in Nat /\ DOMAIN gs = 1 .. l /\ gs[l] = r
      /\ \A e \in DOMAIN es : gs[e] = es[e] /\ e \in DOMAIN gs
      /\ \A e \in DOMAIN gs : e = l \/ e \in DOMAIN es
      /\ l \notin DOMAIN es
  BY AppendedSeq
<1> HIDE DEF gs, l
<1>2. \A e \in DOMAIN gs : Fits(gs[e]) /\ (gs[e].kind # "include" => gs[e].comment \in 0 .. k - 1)
  BY <1>1 DEF OnceIn
<1>3. \A e \in Given(gs) : (e = l /\ gs[e] = r /\ r.kind # "include" /\ r.comment # 0) \/ (e \in Given(es) /\ gs[e] = es[e])
  BY <1>1 DEF Given
<1>4. \A d, e \in Given(gs) : gs[d].comment = gs[e].comment => d = e
  BY <1>3 DEF OnceIn
<1>5. \A n \in DOMAIN fs, e \in Given(gs) : fs[n].comment # gs[e].comment
  BY <1>3 DEF OnceIn
<1>6. OnceIn(gs, fs, k)
  BY <1>2, <1>4, <1>5 DEF OnceIn
<1> QED
  BY <1>6 DEF gs

\* A comment that was not passed before.
LEMMA OnceNew ==
    ASSUME NEW k \in Nat, NEW l \in Nat, k <= l, k >= 1, NEW es \in Seq(EntityType), NEW fs, OnceIn(es, fs, k),
           NEW r \in EntityType, Fits(r), r.kind = "include" \/ r.comment = 0 \/ r.comment \in k .. l - 1
    PROVE  OnceIn(Append(es, r), fs, l)
<1>1. OnceIn(es, fs, l)
  <2>1. FewerGiven(es, es) /\ FewerHeld(fs, fs)
    BY DEF FewerGiven, FewerHeld
  <2> QED
    BY <2>1, OnceLess
<1>2. \A e \in Given(es) : es[e].comment \in 0 .. k - 1
  BY DEF OnceIn, Given
<1>3. \A n \in DOMAIN fs : fs[n].comment \in 0 .. k - 1
  BY DEF OnceIn
<1>4. /\ r.kind # "include" => r.comment \in 0 .. l - 1
      /\ r.kind # "include" /\ r.comment # 0 => r.comment \notin 0 .. k - 1
  OBVIOUS
<1> QED
  BY <1>1, <1>2, <1>3, <1>4, OnceAdded

\* A comment that is handed on to a new entity.
LEMMA OnceMoved ==
    ASSUME NEW k \in Nat, k >= 1, NEW es, NEW fs, OnceIn(es, fs, k), NEW gs \in Seq(EntityType), FewerGiven(es, gs),
           NEW e \in DOMAIN es, es[e].kind # "include", gs[e].comment = 0,
           NEW r \in EntityType, Fits(r), r.comment = es[e].comment
    PROVE  OnceIn(Append(gs, r), fs, k)
<1>1. OnceIn(gs, fs, k)
  <2>1. FewerHeld(fs, fs)
    BY DEF FewerHeld
  <2> QED
    BY <2>1, OnceLess
<1>2. r.comment \in 0 .. k - 1
  BY DEF OnceIn
<1>3. ASSUME r.comment # 0
      PROVE  /\ \A d \in Given(gs) : gs[d].comment # r.comment
             /\ \A n \in DOMAIN fs : fs[n].comment # r.comment
  <2>1. e \in Given(es)
    BY <1>3 DEF Given
  <2>2. \A d \in Given(gs) : d \in Given(es) /\ gs[d].comment = es[d].comment /\ d # e
    BY DEF Given, FewerGiven
  <2> QED
    BY <2>1, <2>2 DEF OnceIn
<1> QED
  BY <1>1, <1>2, <1>3, OnceAdded

\* A comment that a friend takes from its call.
LEMMA OnceTaken ==
    ASSUME NEW k \in Nat, k >= 1, NEW es \in Seq(EntityType), NEW fs, OnceIn(es, fs, k), NEW hs, FewerHeld(fs, hs),
           NEW n \in DOMAIN fs, n \notin DOMAIN hs,
           NEW r \in EntityType, Fits(r), r.comment = fs[n].comment
    PROVE  OnceIn(Append(es, r), hs, k)
<1>1. OnceIn(es, hs, k)
  <2>1. FewerGiven(es, es)
    BY DEF FewerGiven
  <2> QED
    BY <2>1, OnceLess
<1>2. r.comment \in 0 .. k - 1
  BY DEF OnceIn
<1>3. ASSUME r.comment # 0
      PROVE  /\ \A d \in Given(es) : es[d].comment # r.comment
             /\ \A m \in DOMAIN hs : hs[m].comment # r.comment
  BY <1>3 DEF OnceIn, FewerHeld
<1> QED
  BY <1>1, <1>2, <1>3, OnceAdded

\* A comment that is handed to the call for a friend.
LEMMA OnceHeld ==
    ASSUME NEW k \in Nat, k >= 1, NEW es, NEW fs, OnceIn(es, fs, k), NEW gs, FewerGiven(es, gs),
           NEW e \in DOMAIN es, es[e].kind # "include", gs[e].comment = 0,
           NEW hs, DOMAIN hs = DOMAIN fs, NEW i \in DOMAIN fs, hs[i].comment = es[e].comment, HeldFits(hs[i]),
           \A n \in DOMAIN fs : n # i => hs[n] = fs[n]
    PROVE  OnceIn(gs, hs, k)
<1>1. \A d \in DOMAIN gs : Fits(gs[d]) /\ (gs[d].kind # "include" => gs[d].comment \in 0 .. k - 1)
  <2>1. \A d \in DOMAIN gs : Fits(gs[d])
    BY FewerFit DEF OnceIn
  <2> QED
    BY <2>1 DEF OnceIn, FewerGiven
<1>2. \A n \in DOMAIN hs : HeldFits(hs[n]) /\ hs[n].comment \in 0 .. k - 1
  BY DEF OnceIn
<1>3. \A d \in Given(gs) : d \in Given(es) /\ gs[d].comment = es[d].comment /\ d # e
  BY DEF FewerGiven, Given
<1>4. \A c, d \in Given(gs) : gs[c].comment = gs[d].comment => c = d
  BY <1>3 DEF OnceIn
<1>7. es[e].comment # 0 => e \in Given(es)
  BY DEF Given
<1>5. \A n \in DOMAIN hs, d \in Given(gs) : hs[n].comment # gs[d].comment
  <2>1. \A d \in Given(gs) : gs[d].comment # 0
    BY DEF Given
  <2> QED
    BY <1>3, <1>7, <2>1 DEF OnceIn
<1>6. \A m, n \in DOMAIN hs : hs[m].comment # 0 /\ hs[m].comment = hs[n].comment => m = n
  BY <1>7 DEF OnceIn
<1> QED
  BY <1>1, <1>2, <1>4, <1>5, <1>6 DEF OnceIn

\* A change of another field.
LEMMA LinkedGiven ==
    ASSUME NEW es, NEW e \in DOMAIN es, NEW p
    PROVE  FewerGiven(es, [es EXCEPT ![e].parent = p]) /\ FewerGiven(es, [es EXCEPT ![e].declares = p])
  BY DEF FewerGiven

\* An entity that loses its comment.
LEMMA LostGiven ==
    ASSUME NEW es \in Seq(EntityType), NEW e \in DOMAIN es
    PROVE  FewerGiven(es, [es EXCEPT ![e].comment = 0]) /\ [es EXCEPT ![e].comment = 0][e].comment = 0
<1>1. \A d \in DOMAIN es : es[d] \in EntityType
  OBVIOUS
<1> QED
  BY <1>1 DEF FewerGiven, EntityType

\* What is below a cursor is also below the one around it.
LEMMA WithinParent ==
    ASSUME NEW c \in Cursors, NEW d
    PROVE  /\ Within(c, c)
           /\ Within(d, c) => Within(d, Cursor(c).parent)
           /\ Within(Cursor(c).parent, d) => Within(c, d)
  BY DEF Within

\* A comment that is taken by the friend around the cursor it is beside of.
LEMMA FriendFits ==
    ASSUME file \in Files, NEW r, Fits(r), r.comment = 0 \/ r.cursor \in DOMAIN file.cursors,
           NEW f, f.comment = r.comment, KindOf(f.cursor) = "friend", r.comment = 0 \/ file.cursors[r.cursor].parent = f.cursor
    PROVE  HeldFits(f)
<1>1. SUFFICES ASSUME r.comment # 0
               PROVE  f.comment \in DOMAIN Comments /\ \E d \in Cursors : Within(d, f.cursor) /\ Beside(f.comment, d)
  BY DEF HeldFits
<1>2. r.cursor \in Cursors /\ Cursor(r.cursor).parent = f.cursor /\ r.comment \in DOMAIN Comments
  BY <1>1 DEF Cursors, Cursor, Fits
<1>3. ~(KindOf(r.cursor) = "namespace" /\ Cursor(r.cursor).nested)
  <2>1. WellFormed(file.cursors, r.cursor)
    BY <1>1, FileFacts DEF CursorsOK
  <2> QED
    BY <1>2, <2>1 DEF WellFormed, Cursor, KindOf
<1>4. CASE Beside(r.comment, r.cursor)
  BY <1>2, <1>4, WithinParent
<1>5. CASE r.kind = "friend" /\ \E d \in Cursors : Within(d, r.cursor) /\ Beside(r.comment, d)
  BY <1>2, <1>5, WithinParent
<1> QED
  BY <1>1, <1>3, <1>4, <1>5 DEF Fits

\* What is returned keeps its comment, or a friend takes it.
LEMMA ReturnedOnce ==
    ASSUME file \in Files, NEW es \in Seq(EntityType), NEW fs, StackOK(file.cursors, fs), NEW k \in Nat, k >= 1, OnceIn(es, fs, k),
           NEW e \in DOMAIN es, es[e].kind # "include",
           es[e].comment = 0 \/ (es[e].cursor \in DOMAIN file.cursors /\ file.cursors[es[e].cursor].parent = Last(fs).cursor)
    PROVE  OnceIn(Added(es, fs, e), Holding(es, fs, e), k)
<1>1. /\ fs \in Seq(FrameType) /\ Len(fs) \in DOMAIN fs /\ Last(fs) = fs[Len(fs)] /\ FrameOK(file.cursors, Last(fs))
  BY StackFacts
<1>2. CASE Last(fs).kind = "friend"
  <2> DEFINE gs == [es EXCEPT ![e].comment = 0]
             c == es[e].comment
             i == Len(fs)
             f == [[fs[i] EXCEPT !.entity = e] EXCEPT !.comment = c]
             hs == [fs EXCEPT ![i] = f]
  <2>1. Added(es, fs, e) = gs /\ Holding(es, fs, e) = hs
    <3>1. hs = [fs EXCEPT ![Len(fs)].entity = e, ![Len(fs)].comment = es[e].comment]
      BY <1>1
    <3> QED
      BY <1>2, <3>1 DEF Added, Holding
  <2>2. FewerGiven(es, gs) /\ gs[e].comment = 0
    BY LostGiven
  <2>3. f.comment = c /\ f.cursor = Last(fs).cursor
    <3>1. fs[i] \in FrameType
      BY <1>1
    <3>2. Last(fs) = fs[i]
      BY <1>1
    <3> HIDE DEF i, c
    <3> QED
      BY <3>1, <3>2 DEF FrameType
  <2> HIDE DEF f
  <2>7. HeldFits(f)
    <3>1. KindOf(f.cursor) = "friend"
      BY <1>1, <1>2, <2>3 DEF FrameOK, CursorFits, KindOf, Cursor
    <3>2. Fits(es[e])
      BY DEF OnceIn
    <3> QED
      BY <2>3, <3>1, <3>2, FriendFits
  <2>4. DOMAIN hs = DOMAIN fs /\ hs[i].comment = c /\ HeldFits(hs[i]) /\ \A n \in DOMAIN fs : n # i => hs[n] = fs[n]
    BY <1>1, <2>3, <2>7
  <2> HIDE DEF gs, hs
  <2>5. /\ i \in DOMAIN fs /\ hs[i].comment = es[e].comment /\ HeldFits(hs[i])
        /\ DOMAIN hs = DOMAIN fs /\ \A n \in DOMAIN fs : n # i => hs[n] = fs[n]
    BY <1>1, <2>4
  <2> HIDE DEF i, c
  <2>6. OnceIn(gs, hs, k)
    BY <2>2, <2>5, OnceHeld
  <2> QED
    BY <2>1, <2>6
<1>3. CASE Last(fs).kind # "friend"
  <2>1. Added(es, fs, e) = [es EXCEPT ![e].parent = Last(fs).entity] /\ Holding(es, fs, e) = fs
    BY <1>3 DEF Added, Holding
  <2>2. FewerGiven(es, [es EXCEPT ![e].parent = Last(fs).entity]) /\ FewerHeld(fs, fs)
    BY LinkedGiven DEF FewerHeld
  <2> QED
    BY <2>1, <2>2, OnceLess
<1> QED
  BY <1>2, <1>3

\* comment_context::match: only comments from the current one on are given, and the current
\* one is behind them afterwards.
LEMMA MatchOnce ==
    ASSUME TreeInv, CommentsInv, NEW c \in DOMAIN file.cursors
    PROVE  /\ Skipped(Cursor(c).line) \in comment .. Len(Comments) + 1
           /\ CommentAt(c) # 0 =>
                /\ CommentAt(c) = Skipped(Cursor(c).line) /\ CommentAt(c) \in DOMAIN Comments
                /\ Beside(CommentAt(c), c)
<1> DEFINE line == Cursor(c).line
           S == {k \in comment .. Len(Comments) : line <= Comments[k].line + 1}
           n == Len(Comments)
<1>1. n \in Nat /\ DOMAIN Comments = 1 .. n /\ comment \in 1 .. n + 1
  <2>1. Comments \in Seq([line : Nat, eol : BOOLEAN])
    BY FileFacts DEF TreeInv
  <2> QED
    BY <2>1 DEF CommentsInv
<1>2. Skipped(line) = IF S = {} THEN n + 1 ELSE Min(S)
  BY DEF Skipped
<1>3. S \subseteq comment .. n
  OBVIOUS
<1> HIDE DEF n, S
<1>4. ASSUME S # {} PROVE Min(S) \in S
  <2>1. S \subseteq Nat
    BY <1>1, <1>3
  <2>2. PICK m \in S : \A k \in S : m <= k
    BY <1>4, <2>1, Numbers!LeastElement
  <2> QED
    BY <2>2 DEF Min
<1>5. Skipped(line) \in comment .. n + 1
  <2>1. CASE S = {}
    BY <1>1, <1>2, <2>1
  <2>2. CASE S # {}
    <3>1. Skipped(line) \in comment .. n
      BY <1>2, <1>3, <1>4, <2>2
    <3> QED
      BY <1>1, <3>1
  <2> QED
    BY <2>1, <2>2
<1>6. CommentAt(c) # 0 =>
        /\ CommentAt(c) = Skipped(line) /\ Skipped(line) <= n
        /\ Comments[Skipped(line)].line + (IF Comments[Skipped(line)].eol THEN 0 ELSE 1) = line
  BY <1>1, <1>5 DEF CommentAt, Matching, n
<1> QED
  BY <1>1, <1>5, <1>6 DEF Beside, n

\* So it is when the comment is taken.
LEMMA MatchedOnce ==
    ASSUME TreeInv, CommentsInv, NEW c \in DOMAIN file.cursors, Match(c, TRUE)
    PROVE  /\ comment' \in 1 .. Len(Comments) + 1 /\ comment' \in Nat /\ comment \in Nat /\ comment <= comment' /\ comment >= 1
           /\ CommentAt(c) = 0 \/ CommentAt(c) \in comment .. comment' - 1
<1> DEFINE n == Len(Comments)
           s == Skipped(Cursor(c).line)
<1>1. n \in Nat /\ DOMAIN Comments = 1 .. n /\ comment \in 1 .. n + 1
  <2>1. Comments \in Seq([line : Nat, eol : BOOLEAN])
    BY FileFacts DEF TreeInv
  <2> QED
    BY <2>1 DEF CommentsInv
<1>2. s \in comment .. n + 1 /\ (CommentAt(c) # 0 => CommentAt(c) = s /\ s \in 1 .. n)
  BY <1>1, MatchOnce
<1>3. comment' = s + (IF CommentAt(c) = 0 THEN 0 ELSE 1)
  BY DEF Match
<1> HIDE DEF n, s
<1>4. /\ comment' \in 1 .. n + 1 /\ comment <= comment'
      /\ CommentAt(c) = 0 \/ CommentAt(c) \in comment .. comment' - 1
  BY <1>1, <1>2, <1>3
<1> QED
  BY <1>1, <1>4 DEF n

\* What an appended entity has.
LEMMA NewGiven ==
    ASSUME NEW es \in Seq(EntityType), NEW r, r.comment = 0
    PROVE  FewerGiven(es, Append(es, r))
<1> DEFINE gs == Append(es, r)
           l == Len(es) + 1
<1>1. gs[l] = r /\ (\A e \in DOMAIN es : gs[e] = es[e]) /\ \A e \in DOMAIN gs : e = l \/ e \in DOMAIN es
  <2>1. DOMAIN es = 1 .. Len(es) /\ es \in Seq(EntityType \cup {r}) /\ r \in EntityType \cup {r}
    BY WiderSeq
  <2> QED
    BY <2>1, AppendedSeq
<1> HIDE DEF gs, l
<1>2. FewerGiven(es, gs)
  BY <1>1 DEF FewerGiven
<1> QED
  BY <1>2 DEF gs

\* What is lost twice.
LEMMA LessGiven == ASSUME NEW es, NEW gs, NEW hs, FewerGiven(es, gs), FewerGiven(gs, hs) PROVE FewerGiven(es, hs)
  BY DEF FewerGiven

\* The calls, after a cursor or at the end of some of them.
LEMMA AdvancedHeld ==
    ASSUME NEW cs, StackOK(cs, stack)
    PROVE  FewerHeld(stack, Advanced)
<1> DEFINE n == Len(stack)
           f == [stack[n] EXCEPT !.todo = Tail(@)]
<1>1. stack \in Seq(FrameType) /\ n \in DOMAIN stack /\ stack[n] \in FrameType
  BY StackFacts
<1>2. Advanced = [stack EXCEPT ![n] = f]
  BY <1>1 DEF Advanced
<1>3. f.comment = stack[n].comment /\ f.cursor = stack[n].cursor
  BY <1>1 DEF FrameType
<1> HIDE DEF f, n
<1> QED
  BY <1>1, <1>2, <1>3 DEF FewerHeld

\* The first of the calls hold what they held.
LEMMA PrefixHeld ==
    ASSUME NEW cs, NEW fs, StackOK(cs, fs), NEW n \in 1 .. Len(fs)
    PROVE  FewerHeld(fs, SubSeq(fs, 1, n)) /\ DOMAIN SubSeq(fs, 1, n) = 1 .. n
<1> DEFINE hs == SubSeq(fs, 1, n)
<1>1. StackOK(cs, hs) /\ Len(hs) = n /\ \A m \in 1 .. n : hs[m] = fs[m]
  BY PrefixOK
<1> HIDE DEF hs
<1>2. DOMAIN hs = 1 .. n /\ DOMAIN fs = 1 .. Len(fs) /\ Len(fs) \in Nat
  BY <1>1, StackFacts
<1>3. FewerHeld(fs, hs)
  BY <1>1, <1>2 DEF FewerHeld
<1> QED
  BY <1>2, <1>3 DEF hs

\* So do all but the last one.
LEMMA FrontHeld ==
    ASSUME NEW cs, NEW fs, StackOK(cs, fs), Last(fs).kind # "file"
    PROVE  FewerHeld(fs, Front(fs)) /\ Len(fs) \notin DOMAIN Front(fs)
<1> DEFINE n == Len(fs)
<1>1. /\ n \in Nat /\ n >= 1 /\ Last(fs) = fs[n] /\ DOMAIN fs = 1 .. n
      /\ \A m \in DOMAIN fs : fs[m].kind = "file" <=> m = 1
  BY StackFacts
<1>2. n - 1 \in 1 .. n /\ n \notin 1 .. n - 1
  <2> HIDE DEF n
  <2>1. n \in DOMAIN fs
    BY <1>1
  <2>2. n # 1
    BY <1>1, <2>1
  <2> QED
    BY <1>1, <2>2
<1>3. Front(fs) = SubSeq(fs, 1, n - 1)
  BY DEF Front
<1> QED
  BY <1>2, <1>3, PrefixHeld

\* A call that begins has no comment.
LEMMA BegunHeld ==
    ASSUME NEW fs, NEW hs \in Seq(FrameType), FewerHeld(fs, hs), NEW kind \in FrameKinds, NEW c \in Nat, NEW e \in Nat, NEW todo \in Seq(Nat)
    PROVE  FewerHeld(fs, Append(hs, Frame(kind, c, e, todo)))
<1> DEFINE f == Frame(kind, c, e, todo)
           gs == Append(hs, f)
           l == Len(hs) + 1
<1>1. f \in FrameType /\ f.comment = 0
  BY DEF Frame, FrameType
<1> HIDE DEF f
<1>2. gs[l] = f /\ (\A n \in DOMAIN hs : gs[n] = hs[n]) /\ \A n \in DOMAIN gs : n = l \/ n \in DOMAIN hs
  <2>1. DOMAIN hs = 1 .. Len(hs)
    OBVIOUS
  <2> QED
    BY <1>1, <2>1, AppendedSeq
<1> HIDE DEF gs, l
<1>3. FewerHeld(fs, gs)
  BY <1>1, <1>2 DEF FewerHeld
<1> QED
  BY <1>3 DEF gs, f

\* The invariant after a step.
LEMMA CommentsAfter ==
    ASSUME file' = file, comment' \in 1 .. Len(Comments) + 1, OnceIn(entities', stack', comment')
    PROVE  CommentsInv'
<1>1. OnceIn(entities, stack, comment)'
  BY DEF OnceIn, Given, Fits, HeldFits, Beside, Within, Cursors, KindOf, Cursor, Comments
<1> QED
  BY <1>1 DEF CommentsInv, Comments

\* No comment is given.
LEMMA NothingGiven ==
    ASSUME CommentsInv, TreeInv, file' = file, comment' = comment, FewerGiven(entities, entities'), FewerHeld(stack, stack')
    PROVE  CommentsInv'
<1>1. comment \in Nat /\ comment >= 1
  BY DEF CommentsInv, TreeInv
<1>2. OnceIn(entities', stack', comment')
  BY <1>1, OnceLess DEF CommentsInv
<1> QED
  BY <1>2, CommentsAfter DEF CommentsInv

\* What is returned without another comment.
LEMMA ReturnGives ==
    ASSUME TreeInv, file' = file, comment' \in 1 .. Len(Comments) + 1, comment' \in Nat,
           NEW es \in Seq(EntityType), NEW fs, StackOK(file.cursors, fs), OnceIn(es, fs, comment'),
           NEW e \in DOMAIN es, es[e].kind # "include", Return(es, fs, e),
           es[e].comment = 0 \/ (es[e].cursor \in DOMAIN file.cursors /\ file.cursors[es[e].cursor].parent = Last(fs).cursor)
    PROVE  CommentsInv'
<1>1. OnceIn(Added(es, fs, e), Holding(es, fs, e), comment')
  BY ReturnedOnce DEF TreeInv
<1> QED
  BY <1>1, CommentsAfter DEF Return

\* The steps that make no entity.
LEMMA PassedGives == ASSUME TreeInv, CommentsInv, CatchError \/ ParseNothing \/ SkipPart PROVE CommentsInv'
<1>1. PICK kinds : \E c \in Visited(kinds) : file' = file /\ comment' = comment /\ stack' = Advanced /\ entities' = entities
  <2>1. CASE CatchError
    <3>1. PICK c \in Visited(LeafKinds \cup ContainerKinds \cup ClassKinds \cup TemplateKinds) : CatchError!(c)
      BY <2>1 DEF CatchError
    <3> QED
      BY <3>1 DEF treeVars
  <2>2. CASE ParseNothing
    <3>1. PICK c \in Visited(NullKinds) : ParseNothing!(c)
      BY <2>2 DEF ParseNothing
    <3> QED
      BY <3>1 DEF treeVars
  <2>3. CASE SkipPart
    <3>1. PICK c \in Visited({"reference"} \cup ParameterKinds) : SkipPart!(c)
      BY <2>3 DEF SkipPart
    <3> QED
      BY <3>1 DEF treeVars
  <2> QED
    BY <2>1, <2>2, <2>3
<1>2. FewerHeld(stack, Advanced)
  BY <1>1, VisitedFacts, AdvancedHeld
<1>3. FewerGiven(entities, entities)
  BY DEF FewerGiven
<1> QED
  BY <1>1, <1>2, <1>3, NothingGiven

\* The comment of a function that fails is passed with it.
LEMMA FailedFunctionGives == ASSUME TreeInv, CommentsInv, FailFunction PROVE CommentsInv'
<1>1. PICK c \in Visited({"function"} \cup FunctionTemplateKinds) : FailFunction!(c)
  BY DEF FailFunction
<1>2. c \in DOMAIN file.cursors /\ FewerHeld(stack, Advanced) /\ FewerGiven(entities, entities)
  BY VisitedFacts, AdvancedHeld DEF FewerGiven
<1>3. Match(c, TRUE) /\ stack' = Advanced /\ entities' = entities /\ file' = file
  BY <1>1 DEF treeVars
<1>4. /\ comment \in Nat /\ comment >= 1 /\ comment <= comment'
      /\ comment' \in Nat /\ comment' \in 1 .. Len(Comments) + 1
  BY <1>2, <1>3, MatchedOnce
<1>5. OnceIn(entities', stack', comment')
  BY <1>2, <1>3, <1>4, OnceLess DEF CommentsInv
<1> QED
  BY <1>3, <1>4, <1>5, CommentsAfter

\* At the end of the file nothing is given.
LEMMA EndGives == ASSUME TreeInv, CommentsInv, FinishFile \/ DereferenceNull PROVE CommentsInv'
<1>1. file' = file /\ comment' = comment /\ entities' = entities /\ (stack' = <<>> \/ stack' = stack)
  BY DEF FinishFile, DereferenceNull, treeVars
<1>2. FewerHeld(stack, <<>>) /\ FewerHeld(stack, stack) /\ FewerGiven(entities, entities)
  BY DEF FewerHeld, FewerGiven
<1> QED
  BY <1>1, <1>2, NothingGiven

\* The call for a friend begins without a comment.
LEMMA FriendBeginGives == ASSUME TreeInv, CommentsInv, EnterFriend PROVE CommentsInv'
<1>1. PICK c \in Visited({"friend"}) : EnterFriend!(c)
  BY DEF EnterFriend
<1>2. /\ c \in DOMAIN file.cursors /\ c \in Nat /\ StackOK(file.cursors, stack) /\ StackOK(file.cursors, Advanced)
      /\ Children(c) \in Seq(Nat)
  BY VisitedFacts, CursorFacts, BelowFacts DEF TreeInv
<1>3. FewerHeld(stack, Append(Advanced, Frame("friend", c, 0, Children(c))))
  <2>1. "friend" \in FrameKinds /\ 0 \in Nat /\ Advanced \in Seq(FrameType) /\ FewerHeld(stack, Advanced)
    BY <1>2, StackFacts, AdvancedHeld DEF FrameKinds
  <2> QED
    BY <1>2, <2>1, BegunHeld
<1>4. FewerHeld(stack, stack')
  BY <1>1, <1>3, ParserAssumption
<1>5. file' = file /\ comment' = comment /\ entities' = entities
  BY <1>1 DEF treeVars
<1>6. FewerGiven(entities, entities)
  BY DEF FewerGiven
<1> QED
  BY <1>4, <1>5, <1>6, NothingGiven

\* What a friend names has no comment.
LEMMA NameGives == ASSUME TreeInv, CommentsInv, NameFriend PROVE CommentsInv'
<1>1. PICK c \in Visited(ReferenceKinds \cup {"expression"}) : NameFriend!(c)
  BY DEF NameFriend
<1> DEFINE n == Len(stack)
           f == [Advanced[n] EXCEPT !.holds = Holds(c)]
           gs == [Advanced EXCEPT ![n] = f]
<1>2. /\ StackOK(file.cursors, stack) /\ StackOK(file.cursors, Advanced) /\ FewerHeld(stack, Advanced)
      /\ n \in DOMAIN stack /\ DOMAIN Advanced = DOMAIN stack
  <2>1. StackOK(file.cursors, stack) /\ StackOK(file.cursors, Advanced)
    BY VisitedFacts
  <2>2. DOMAIN Advanced = DOMAIN stack
    BY DEF Advanced
  <2> QED
    BY <2>1, <2>2, StackFacts, AdvancedHeld
<1>3. Advanced[n] \in FrameType
  BY <1>2, StackFacts
<1>4. stack' = gs /\ file' = file /\ comment' = comment /\ entities' = entities
  BY <1>1 DEF treeVars
<1>5. f.comment = Advanced[n].comment /\ f.cursor = Advanced[n].cursor
  BY <1>3 DEF FrameType
<1> HIDE DEF f, n
<1>6. FewerHeld(stack, gs)
  BY <1>2, <1>5 DEF FewerHeld
<1>7. FewerGiven(entities, entities)
  BY DEF FewerGiven
<1> QED
  BY <1>4, <1>6, <1>7, NothingGiven

\* A call that fails drops the comment it has.
LEMMA FailGives == ASSUME TreeInv, CommentsInv, FailFriend PROVE CommentsInv'
<1>1. Finished({"friend"}) /\ file' = file /\ stack' = Front(stack) /\ entities' = entities /\ comment' = comment
  BY DEF FailFriend, treeVars
<1>2. StackOK(file.cursors, stack) /\ Last(stack).kind # "file"
  BY <1>1, FinishedFacts
<1>3. FewerHeld(stack, Front(stack)) /\ FewerGiven(entities, entities)
  BY <1>2, FrontHeld DEF FewerGiven
<1> QED
  BY <1>1, <1>3, NothingGiven

\* So do the calls that are left by an exception.
LEMMA UnwindGives == ASSUME TreeInv, CommentsInv, Unwind PROVE CommentsInv'
<1> DEFINE n == Len(stack)
           I == {i \in 1 .. n : stack[i].kind # "template_parameter"}
           k == SelectLastInSeq(stack, LAMBDA f : f.kind # "template_parameter")
<1>1. StackOK(file.cursors, stack) /\ n >= 2
  BY ThrowsBelow DEF Unwind
<1>2. k = IF I # {} THEN Max(I) ELSE 0
  BY DEF SelectLastInSeq
<1>3. n \in Nat /\ DOMAIN stack = 1 .. n /\ stack[1].kind = "file"
  BY <1>1, StackFacts
<1>4. 2 \in I
  <2>1. 2 \in DOMAIN stack /\ 2 - 1 = 1
    BY <1>1, <1>3
  <2>2. stack[2].kind = "template_parameter" <=> stack[2 - 1].kind \in OfParameters
    BY <1>1, <2>1 DEF StackOK, Calling
  <2> QED
    BY <1>3, <2>1, <2>2 DEF OfParameters
<1>5. I \in SUBSET (1 .. n)
  OBVIOUS
<1> HIDE DEF I, n
<1>6. Max(I) \in 1 .. n /\ Max(I) >= 2
  BY <1>3, <1>4, <1>5, Greatest
<1>7. k - 1 \in 1 .. n
  <2> HIDE DEF k
  <2> QED
    BY <1>2, <1>3, <1>4, <1>6
<1>8. stack' = SubSeq(stack, 1, k - 1) /\ entities' = entities /\ comment' = comment /\ file' = file
  BY DEF Unwind, treeVars
<1> HIDE DEF k
<1>9. FewerHeld(stack, stack') /\ FewerGiven(entities, entities)
  BY <1>1, <1>7, <1>8, PrefixHeld DEF n, FewerGiven
<1> QED
  BY <1>8, <1>9, NothingGiven

\* Parts of a class or of a template have no comment.
LEMMA PartGives == ASSUME TreeInv, CommentsInv, AddPart \/ AddParameter PROVE CommentsInv'
<1>1. PICK r, kinds : /\ r.comment = 0 /\ entities' = Append(entities, r) /\ stack' = Advanced
                      /\ file' = file /\ comment' = comment /\ \E c : c \in Visited(kinds)
  <2>1. CASE AddPart
    <3>1. PICK c \in Visited({"access_specifier", "base"}) : AddPart!(c)
      BY <2>1 DEF AddPart
    <3> DEFINE r == [Entity(KindOf(c), c) EXCEPT !.parent = Top.entity, !.role = IF KindOf(c) = "base" THEN "base" ELSE "child"]
    <3>2. r.comment = 0
      BY DEF Entity
    <3> QED
      BY <3>1, <3>2
  <2>2. CASE AddParameter
    <3>1. PICK c \in Visited({"type_parameter", "non_type_parameter"}) : AddParameter!(c)
      BY <2>2 DEF AddParameter
    <3> DEFINE r == [Entity(KindOf(c), c) EXCEPT !.parent = Top.entity, !.role = "parameter"]
    <3>2. r.comment = 0
      BY DEF Entity
    <3> QED
      BY <3>1, <3>2
  <2> QED
    BY <2>1, <2>2
<1>2. FewerHeld(stack, stack')
  BY <1>1, VisitedFacts, AdvancedHeld
<1>3. FewerGiven(entities, entities')
  BY <1>1, NewGiven DEF TreeInv, Forest
<1> QED
  BY <1>1, <1>2, <1>3, NothingGiven

\* A template template parameter has no comment.
LEMMA ParameterGives == ASSUME TreeInv, CommentsInv, EnterTemplateParameter PROVE CommentsInv'
<1>1. PICK c \in Visited({"template_parameter"}) : EnterTemplateParameter!(c)
  BY DEF EnterTemplateParameter
<1> DEFINE r == [Entity(KindOf(c), c) EXCEPT !.role = "parameter"]
           f == Frame("template_parameter", c, Next1, Below(c, ParameterKinds))
<1>2. entities' = Append(entities, r) /\ stack' = Append(Advanced, f) /\ file' = file /\ comment' = comment
  BY <1>1
<1>3. r.comment = 0
  BY DEF Entity
<1>4. FewerGiven(entities, entities')
  BY <1>2, <1>3, NewGiven DEF TreeInv, Forest
<1>5. /\ c \in DOMAIN file.cursors /\ c \in Nat /\ StackOK(file.cursors, stack) /\ StackOK(file.cursors, Advanced)
      /\ Below(c, ParameterKinds) \in Seq(Nat) /\ Next1 \in Nat
  BY VisitedFacts, CursorFacts, BelowFacts DEF TreeInv, Forest, Next1
<1>6. FewerHeld(stack, stack')
  <2>1. "template_parameter" \in FrameKinds /\ Advanced \in Seq(FrameType) /\ FewerHeld(stack, Advanced)
    BY <1>5, StackFacts, AdvancedHeld DEF FrameKinds
  <2> QED
    BY <1>2, <1>5, <2>1, BegunHeld
<1> QED
  BY <1>2, <1>4, <1>6, NothingGiven

\* Neither have macros; theirs are the business of the preprocessor.
LEMMA MacroGives == ASSUME TreeInv, CommentsInv, AddMacro PROVE CommentsInv'
<1> DEFINE m == Macros[macro + 1]
           parameters == Below(m, {"macro_parameter"})
           r == [Entity("macro", m) EXCEPT !.parent = Top.entity]
           new(k) == [Entity("macro_parameter", parameters[k]) EXCEPT !.parent = Next1, !.role = "parameter"]
           q == [k \in DOMAIN parameters |-> new(k)]
           es == Append(entities, r)
<1>1. entities' = es \o q /\ stack' = stack /\ file' = file /\ comment' = comment
  BY DEF AddMacro
<1>2. r.comment = 0 /\ \A k : new(k).comment = 0
  BY DEF Entity
<1>3. FewerGiven(entities, es)
  BY <1>2, NewGiven DEF TreeInv, Forest
<1>4. /\ Len(es) \in Nat /\ DOMAIN es = 1 .. Len(es) /\ \E S : es \in Seq(S)
  <2>1. entities \in Seq(EntityType \cup {r}) /\ r \in EntityType \cup {r}
    BY WiderSeq DEF TreeInv, Forest
  <2>2. es \in Seq(EntityType \cup {r})
    BY <2>1, AppendedSeq
  <2> HIDE DEF es, r
  <2> QED
    BY <2>2
<1>5. /\ parameters \in Seq(Nat)
  BY BelowFacts DEF TreeInv
<1> HIDE DEF parameters, m, r
<1>6. q \in Seq({new(k) : k \in DOMAIN parameters}) /\ DOMAIN q = DOMAIN parameters /\ \A k \in DOMAIN q : q[k].comment = 0
  <2>1. DOMAIN parameters = 1 .. Len(parameters) /\ Len(parameters) \in Nat
    BY <1>5
  <2>2. DOMAIN q = DOMAIN parameters /\ \A k \in DOMAIN q : q[k] = new(k)
    OBVIOUS
  <2> HIDE DEF new
  <2>3. q \in [1 .. Len(parameters) -> {new(k) : k \in DOMAIN parameters}]
    BY <2>1
  <2>4. q \in Seq({new(k) : k \in DOMAIN parameters})
    BY <2>1, <2>3
  <2> QED
    BY <1>2, <2>2, <2>4
<1> HIDE DEF q, es, new
<1>7. \A e \in DOMAIN (es \o q) : (e \in DOMAIN es /\ (es \o q)[e] = es[e]) \/ (\E k \in DOMAIN q : (es \o q)[e] = q[k])
  BY <1>4, <1>6
<1>8. FewerGiven(es, es \o q)
  BY <1>6, <1>7 DEF FewerGiven
<1>9. FewerGiven(entities, es \o q) /\ FewerHeld(stack, stack)
  BY <1>3, <1>8, LessGiven DEF FewerHeld
<1> QED
  BY <1>1, <1>9, NothingGiven

\* A new entity is returned, with the comment that was matched or without.
LEMMA NewGives ==
    ASSUME TreeInv, CommentsInv, NEW kinds, NEW c \in Visited(kinds), file' = file,
           NEW r \in EntityType, r.kind # "include", Return(Append(entities, r), Advanced, Next1),
           \/ r.comment = 0 /\ comment' = comment
           \/ r.comment = CommentAt(c) /\ r.cursor = c /\ Match(c, TRUE)
    PROVE  CommentsInv'
<1> DEFINE es == Append(entities, r)
<1>1. /\ c \in DOMAIN file.cursors /\ StackOK(file.cursors, stack) /\ StackOK(file.cursors, Advanced)
      /\ FewerHeld(stack, Advanced) /\ entities \in Seq(EntityType) /\ comment \in Nat /\ comment >= 1
  BY VisitedFacts, AdvancedHeld DEF TreeInv, Forest, CommentsInv
<1>2. es \in Seq(EntityType) /\ Next1 \in DOMAIN es /\ es[Next1] = r
  BY <1>1, AppendedSeq DEF Next1
<1>3. OnceIn(entities, Advanced, comment)
  <2>1. FewerGiven(entities, entities)
    BY DEF FewerGiven
  <2> QED
    BY <1>1, <2>1, OnceLess DEF CommentsInv
<1>4. /\ comment' \in 1 .. Len(Comments) + 1 /\ comment' \in Nat /\ comment <= comment'
      /\ Fits(r) /\ (r.comment = 0 \/ r.comment \in comment .. comment' - 1)
  <2>1. CASE r.comment = 0 /\ comment' = comment
    BY <1>1, <2>1 DEF CommentsInv, Fits
  <2>2. CASE r.comment = CommentAt(c) /\ r.cursor = c /\ Match(c, TRUE)
    BY <1>1, <2>2, MatchOnce, MatchedOnce DEF Fits
  <2> QED
    BY <2>1, <2>2
<1>5. OnceIn(es, Advanced, comment')
  BY <1>1, <1>3, <1>4, OnceNew
<1>6. r.comment = 0 \/ (r.cursor \in DOMAIN file.cursors /\ file.cursors[r.cursor].parent = Last(Advanced).cursor)
  BY <1>1, VisitedFacts
<1> HIDE DEF es
<1> QED
  BY <1>1, <1>2, <1>4, <1>5, <1>6, ReturnGives DEF es

\* What has nothing below it takes the comment that is matched.
LEMMA LeavesGive == ASSUME TreeInv, CommentsInv, LeafActions PROVE CommentsInv'
<1>1. ASSUME NEW kinds, NEW c \in Visited(kinds), kinds \subseteq LeafKinds, Leaf(c) PROVE CommentsInv'
  <2> DEFINE x == Entity(KindOf(c), c)
             y == [x EXCEPT !.comment = CommentAt(c)]
             r == [y EXCEPT !.declares = Declares(KindOf(c), c, FALSE)]
  <2>1. /\ c \in DOMAIN file.cursors /\ c \in Nat /\ KindOf(c) \in CursorKinds /\ CommentAt(c) \in Nat
        /\ KindOf(c) # "include" /\ Declares(KindOf(c), c, FALSE) \in Id \cup {NoId}
    BY <1>1, VisitedFacts, CursorFacts, DeclaredFacts DEF TreeInv, LeafKinds
  <2>2. Return(Append(entities, r), Advanced, Next1) /\ file' = file /\ Match(c, TRUE)
    BY <1>1 DEF Leaf
  <2>3. r.comment = CommentAt(c) /\ r.kind = KindOf(c) /\ r.cursor = c
    BY DEF Entity
  <2>4. x \in EntityType
    BY <2>1, NewEntity
  <2> HIDE DEF x
  <2>5. y \in EntityType
    BY <2>1, <2>4, ChangedComment
  <2> HIDE DEF y
  <2>6. r \in EntityType
    BY <2>1, <2>5, ChangedDeclares
  <2> HIDE DEF r
  <2> QED
    BY <1>1, <2>1, <2>2, <2>3, <2>6, NewGives
<1>2. CASE ParseNamespaceAlias \/ ParseUsingDirective \/ ParseUsingDeclaration \/ ParseTypeAlias
  BY <1>1, <1>2 DEF ParseNamespaceAlias, ParseUsingDirective, ParseUsingDeclaration, ParseTypeAlias, LeafKinds
<1>3. CASE ParseVariable \/ ParseMemberVariable \/ ParseFunction
  BY <1>1, <1>3 DEF ParseVariable, ParseMemberVariable, ParseFunction, LeafKinds
<1>4. CASE ParseEnumValue \/ ParseStaticAssert \/ ParseUnexposed
  BY <1>1, <1>4 DEF ParseEnumValue, ParseStaticAssert, ParseUnexposed, LeafKinds
<1> QED
  BY <1>2, <1>3, <1>4 DEF LeafActions

\* A concept has no comment.
LEMMA ConceptGives == ASSUME TreeInv, CommentsInv, ParseConcept PROVE CommentsInv'
<1>1. PICK c \in Visited({"concept"}) : ParseConcept!(c)
  BY DEF ParseConcept
<1> DEFINE r == Entity("concept", c)
<1>2. c \in Nat
  BY VisitedFacts, CursorFacts DEF TreeInv
<1>3. r \in EntityType /\ r.kind = "concept" /\ r.comment = 0
  BY <1>2, NewEntity DEF CursorKinds, LeafKinds
<1>4. Return(Append(entities, r), Advanced, Next1) /\ file' = file /\ comment' = comment
  BY <1>1
<1> HIDE DEF r
<1> QED
  BY <1>3, <1>4, NewGives

\* What a friend declares has no comment.
LEMMA DeclareGives == ASSUME TreeInv, CommentsInv, DeclareFriend PROVE CommentsInv'
<1>1. PICK c \in Befriended : DeclareFriend!(c)
  BY DEF DeclareFriend
<1> DEFINE t == Cursor(c).target
           x == Entity(KindOf(t), t)
           r == [x EXCEPT !.declares = Declares(KindOf(t), t, TRUE)]
<1>2. c \in Visited({"type_ref"})
  BY DEF Befriended
<1>3. t \in DOMAIN file.cursors /\ t \in Nat /\ KindOf(t) \in TypeKinds /\ KindOf(t) \in CursorKinds
      /\ Declares(KindOf(t), t, TRUE) \in Id \cup {NoId}
  <2>1. c \in DOMAIN file.cursors /\ KindOf(c) = "type_ref" /\ file \in Files
    BY <1>2, VisitedFacts DEF TreeInv
  <2>2. WellFormed(file.cursors, c) /\ file.cursors[c].kind = "type_ref"
    BY <2>1, FileFacts DEF CursorsOK, KindOf, Cursor
  <2>3. t \in DOMAIN file.cursors /\ KindOf(t) \in TypeKinds
    BY <2>2 DEF WellFormed, Cursor, KindOf
  <2> HIDE DEF t
  <2> QED
    BY <2>1, <2>3, CursorFacts, DeclaredFacts
<1>4. Return(Append(entities, r), Advanced, Next1) /\ file' = file /\ comment' = comment
  BY <1>1
<1> HIDE DEF t
<1>5. r.comment = 0 /\ r.kind = KindOf(t)
  BY DEF Entity
<1>6. x \in EntityType
  BY <1>3, NewEntity
<1> HIDE DEF x
<1>7. r \in EntityType
  BY <1>3, <1>6, ChangedDeclares
<1> HIDE DEF r
<1>8. r.kind # "include"
  BY <1>3, <1>5 DEF TypeKinds
<1> QED
  BY <1>2, <1>4, <1>5, <1>7, <1>8, NewGives

\* An include looks at a comment and leaves it where it is.
LEMMA IncludeGives == ASSUME TreeInv, CommentsInv, AddInclude PROVE CommentsInv'
<1>1. PICK c \in Visited({"include"}) : AddInclude!(c)
  BY DEF AddInclude
<1> DEFINE r == [Entity("include", c) EXCEPT !.parent = Top.entity, !.comment = CommentAt(c)]
<1>2. /\ entities' = Append(entities, r) /\ stack' = Advanced /\ file' = file /\ comment' = comment
  BY <1>1 DEF Match
<1>3. /\ c \in DOMAIN file.cursors /\ StackOK(file.cursors, stack) /\ FewerHeld(stack, Advanced)
      /\ entities \in Seq(EntityType) /\ comment \in Nat /\ comment >= 1
  BY VisitedFacts, AdvancedHeld DEF TreeInv, Forest, CommentsInv
<1>4. r.comment = CommentAt(c) /\ r.cursor = c /\ r.kind = "include"
  BY DEF Entity
<1>5. r \in EntityType
  <2> DEFINE n == Len(entities) + 1
             es == Append(entities, r)
  <2>1. TreeInv'
    BY ParseStep DEF ParseNext
  <2>2. entities' \in Seq(EntityType) /\ Len(entities) \in Nat
    BY <1>3, <2>1 DEF TreeInv, Forest
  <2> HIDE DEF r
  <2>3. es \in Seq(EntityType) /\ Len(es) = n /\ es[n] = r
    <3>1. entities \in Seq(EntityType \cup {r}) /\ r \in EntityType \cup {r}
      BY <1>3, WiderSeq
    <3> QED
      BY <1>2, <2>2, <3>1, AppendedSeq
  <2> HIDE DEF es
  <2> QED
    BY <2>2, <2>3
<1> HIDE DEF r
<1>6. OnceIn(entities, Advanced, comment)
  <2>1. FewerGiven(entities, entities)
    BY DEF FewerGiven
  <2> QED
    BY <1>3, <2>1, OnceLess DEF CommentsInv
<1>7. Fits(r)
  BY <1>3, <1>4, MatchOnce DEF Fits
<1>8. OnceIn(entities', stack', comment')
  BY <1>2, <1>3, <1>4, <1>5, <1>6, <1>7, OnceNew
<1> QED
  BY <1>2, <1>8, CommentsAfter DEF CommentsInv

\* A container or a class takes its comment when it begins.
LEMMA EnterGives ==
    ASSUME TreeInv, CommentsInv, NEW kinds, NEW c \in Visited(kinds), NEW kind \in {"linkage", "namespace", "enum", "class"},
           Enter(c, kind)
    PROVE  CommentsInv'
<1> DEFINE x == Entity(kind, c)
           r == [x EXCEPT !.comment = CommentAt(c)]
           f == Frame(kind, c, Next1, Children(c))
<1>1. /\ c \in DOMAIN file.cursors /\ c \in Nat /\ StackOK(file.cursors, stack) /\ StackOK(file.cursors, Advanced)
      /\ FewerHeld(stack, Advanced) /\ entities \in Seq(EntityType) /\ comment \in Nat /\ comment >= 1
      /\ CommentAt(c) \in Nat /\ Children(c) \in Seq(Nat) /\ Next1 \in Nat
  <2>1. /\ c \in DOMAIN file.cursors /\ StackOK(file.cursors, stack) /\ StackOK(file.cursors, Advanced) /\ CommentAt(c) \in Nat
        /\ FewerHeld(stack, Advanced) /\ file \in Files
    BY VisitedFacts, AdvancedHeld DEF TreeInv
  <2>2. c \in Nat /\ Children(c) \in Seq(Nat)
    BY <2>1, CursorFacts, BelowFacts
  <2>3. entities \in Seq(EntityType) /\ comment \in Nat /\ comment >= 1 /\ Next1 \in Nat
    BY DEF TreeInv, Forest, CommentsInv, Next1
  <2> QED
    BY <2>1, <2>2, <2>3
<1>2. /\ entities' = Append(entities, r) /\ stack' = Append(Advanced, f) /\ file' = file /\ Match(c, TRUE)
  BY DEF Enter
<1>3. r.comment = CommentAt(c) /\ r.cursor = c
  BY DEF Entity
<1>4. x \in EntityType
  BY <1>1, NewEntity DEF CursorKinds, LeafKinds, ContainerKinds, ClassKinds
<1> HIDE DEF x
<1>5. r \in EntityType
  BY <1>1, <1>4, ChangedComment
<1> HIDE DEF r
<1>6. FewerHeld(stack, stack')
  <2>1. kind \in FrameKinds /\ Advanced \in Seq(FrameType)
    BY <1>1, StackFacts DEF FrameKinds
  <2> QED
    BY <1>1, <1>2, <2>1, BegunHeld
<1>7. OnceIn(entities, stack', comment)
  <2>1. FewerGiven(entities, entities)
    BY DEF FewerGiven
  <2> QED
    BY <1>1, <1>6, <2>1, OnceLess DEF CommentsInv
<1>8. /\ comment' \in 1 .. Len(Comments) + 1 /\ comment' \in Nat /\ comment <= comment'
      /\ Fits(r) /\ (r.comment = 0 \/ r.comment \in comment .. comment' - 1)
  BY <1>1, <1>2, <1>3, MatchOnce, MatchedOnce DEF Fits
<1>9. OnceIn(entities', stack', comment')
  BY <1>1, <1>2, <1>5, <1>7, <1>8, OnceNew
<1> QED
  BY <1>2, <1>8, <1>9, CommentsAfter

\* The containers of all kinds.
LEMMA ContainersGive == ASSUME TreeInv, CommentsInv, EnterLinkage \/ EnterEnum \/ EnterNamespace \/ EnterClass PROVE CommentsInv'
  BY EnterGives DEF EnterLinkage, EnterEnum, EnterNamespace, EnterClass

\* A nested namespace takes the comment from the one around it.
LEMMA NestedGives == ASSUME TreeInv, CommentsInv, EnterNestedNamespace PROVE CommentsInv'
<1>1. PICK c \in Visited({"namespace"}) : EnterNestedNamespace!(c)
  BY DEF EnterNestedNamespace
<1> DEFINE e == Top.entity
           x == Entity("namespace", c)
           r == [x EXCEPT !.comment = entities[e].comment]
           gs == [entities EXCEPT ![e].comment = 0]
           f == Frame("namespace", c, Next1, Children(c))
<1>2. /\ c \in DOMAIN file.cursors /\ c \in Nat /\ StackOK(file.cursors, stack) /\ StackOK(file.cursors, Advanced)
      /\ Held(entities, stack) /\ Placed(file.cursors, entities) /\ Forest(entities)
      /\ FewerHeld(stack, Advanced) /\ entities \in Seq(EntityType) /\ comment \in Nat /\ comment >= 1
      /\ Children(c) \in Seq(Nat) /\ Next1 \in Nat /\ FrameOK(file.cursors, Top) /\ file.cursors[c].parent = Top.cursor
      /\ KindOf(c) = "namespace" /\ Cursor(c).nested /\ file \in Files
  <2>1. /\ c \in DOMAIN file.cursors /\ StackOK(file.cursors, stack) /\ StackOK(file.cursors, Advanced)
        /\ Held(entities, stack) /\ Placed(file.cursors, entities) /\ Forest(entities)
        /\ FrameOK(file.cursors, Top) /\ file.cursors[c].parent = Top.cursor
        /\ FewerHeld(stack, Advanced) /\ file \in Files /\ KindOf(c) = "namespace"
    BY VisitedFacts, AdvancedHeld DEF TreeInv
  <2>2. c \in Nat /\ Children(c) \in Seq(Nat)
    BY <2>1, CursorFacts, BelowFacts
  <2>3. entities \in Seq(EntityType) /\ comment \in Nat /\ comment >= 1 /\ Next1 \in Nat
    BY DEF TreeInv, Forest, CommentsInv, Next1
  <2> QED
    BY <1>1, <2>1, <2>2, <2>3
<1>3. Top = stack[Len(stack)] /\ Len(stack) \in DOMAIN stack
  BY <1>2, StackFacts DEF Top
<1>4. Top.kind \in {"namespace"} /\ Top.cursor \in Cursors /\ KindOf(Top.cursor) = "namespace" /\ Cursor(c).parent = Top.cursor
  <2>1. file.cursors[Top.cursor].kind = "namespace" /\ Top.cursor # 0
    <3>1. WellFormed(file.cursors, c)
      BY <1>2, FileFacts DEF CursorsOK
    <3> QED
      BY <1>2, <3>1 DEF WellFormed, KindOf, Cursor
  <2> QED
    BY <1>2, <2>1 DEF FrameOK, CursorFits, ClassKinds, TemplateKinds, SpecializationKinds, FunctionTemplateKinds, Cursors,
       KindOf, Cursor
<1>5. e \in DOMAIN entities /\ entities[e].kind = "namespace" /\ entities[e].cursor = Top.cursor
  BY <1>2, <1>3, <1>4 DEF Held, EntityFits
<1>6. /\ entities' = Append(gs, r) /\ stack' = Append(Advanced, f) /\ file' = file /\ comment' = comment
  BY <1>1
<1>7. r.comment = entities[e].comment /\ r.cursor = c /\ r.kind = "namespace"
  BY DEF Entity
<1>8. x \in EntityType
  <2>1. "namespace" \in CursorKinds \cup {"file"}
    BY DEF CursorKinds, ContainerKinds
  <2> QED
    BY <1>2, <2>1, NewEntity
<1>9. entities[e].comment \in Nat
  <2>1. entities[e] \in EntityType
    BY <1>2, <1>5
  <2> QED
    BY <2>1 DEF EntityType
<1> HIDE DEF x, e
<1>10. r \in EntityType
  BY <1>8, <1>9, ChangedComment
<1> HIDE DEF r
<1>11. gs \in Seq(EntityType) /\ FewerGiven(entities, gs) /\ gs[e].comment = 0
  <2>1. SameTree(entities, gs)
    BY <1>2, <1>5, CommentedSame
  <2> QED
    BY <1>2, <1>5, <2>1, LostGiven DEF SameTree
<1> HIDE DEF gs
<1>12. FewerHeld(stack, stack')
  <2>1. "namespace" \in FrameKinds /\ Advanced \in Seq(FrameType)
    BY <1>2, StackFacts DEF FrameKinds
  <2> QED
    BY <1>2, <1>6, <2>1, BegunHeld
<1>13. OnceIn(entities, stack', comment)
  <2>1. FewerGiven(entities, entities)
    BY DEF FewerGiven
  <2> QED
    BY <1>2, <1>12, <2>1, OnceLess DEF CommentsInv
<1>14. Fits(r)
  <2>1. Fits(entities[e]) /\ c \in Cursors
    BY <1>2, <1>5 DEF CommentsInv, OnceIn, Cursors
  <2>2. \A d : Within(Top.cursor, d) => Within(c, d)
    BY <1>4, <2>1, WithinParent
  <2>3. Within(c, Top.cursor)
    BY <1>4, <2>2, WithinParent
  <2>4. ASSUME r.comment # 0
        PROVE  /\ r.comment \in DOMAIN Comments
               /\ \E d \in Cursors : KindOf(d) = "namespace" /\ Within(c, d) /\ Beside(r.comment, d)
    <3>1. /\ entities[e].comment = r.comment /\ r.comment # 0 /\ entities[e].kind = "namespace"
          /\ entities[e].cursor = Top.cursor
      BY <1>5, <1>7, <2>4
    <3> QED
      BY <1>4, <2>1, <2>2, <2>3, <3>1 DEF Fits
  <2> QED
    BY <1>2, <1>7, <2>4 DEF Fits
<1>15. OnceIn(Append(gs, r), stack', comment)
  BY <1>2, <1>5, <1>7, <1>10, <1>11, <1>13, <1>14, OnceMoved
<1> QED
  BY <1>6, <1>15, CommentsAfter DEF CommentsInv

\* What is finished goes to its owner with the comment it has.
LEMMA CallGives ==
    ASSUME TreeInv, CommentsInv, NEW kinds, Finished(kinds), "file" \notin kinds, "friend" \notin kinds,
           file' = file, comment' = comment, NEW es \in Seq(EntityType), DOMAIN es = DOMAIN entities, FewerGiven(entities, es),
           es[Top.entity].kind = entities[Top.entity].kind, es[Top.entity].cursor = entities[Top.entity].cursor,
           Return(es, Front(stack), Top.entity)
    PROVE  CommentsInv'
<1>1. /\ StackOK(file.cursors, stack) /\ Held(entities, stack) /\ Top = Last(stack) /\ Top.kind # "file"
      /\ Top.kind # "friend" /\ Top.entity \in DOMAIN entities /\ EntityFits(entities, Top) /\ Top \in FrameType
  BY FinishedFacts DEF FrameOK
<1>2. entities[Top.entity].kind # "include"
  BY <1>1 DEF EntityFits, FrameType, FrameKinds, TemplateKinds, ClassKinds, SpecializationKinds, FunctionTemplateKinds
<1>3. StackOK(file.cursors, Front(stack)) /\ FewerHeld(stack, Front(stack))
  BY <1>1, PoppedOK, FrontHeld
<1>4. comment \in Nat /\ comment >= 1 /\ comment \in 1 .. Len(Comments) + 1
  BY DEF TreeInv, CommentsInv
<1>5. OnceIn(es, Front(stack), comment)
  BY <1>3, <1>4, OnceLess DEF CommentsInv
<1>6. es[Top.entity].cursor \in DOMAIN file.cursors /\ file.cursors[es[Top.entity].cursor].parent = Last(Front(stack)).cursor
  <2>1. entities[Top.entity].cursor = Top.cursor /\ Top.cursor \in DOMAIN file.cursors
    BY <1>1, FinishedFacts DEF EntityFits
  <2>2. file.cursors[Top.cursor].parent = Last(Front(stack)).cursor
    BY <1>1, PoppedOK
  <2> QED
    BY <2>1, <2>2
<1> QED
  BY <1>1, <1>2, <1>3, <1>4, <1>5, <1>6, ReturnGives

DeclaredBy(es, e, d) == [es EXCEPT ![e].declares = d]

GivenAs(es, gs, e) ==
    /\ gs \in Seq(EntityType) /\ DOMAIN gs = DOMAIN es /\ FewerGiven(es, gs)
    /\ gs[e].kind = es[e].kind /\ gs[e].cursor = es[e].cursor /\ gs[e].comment = es[e].comment

\* The id that an entity declares says nothing of comments.
LEMMA DeclaresGiven ==
    ASSUME Forest(entities), file \in Files, NEW e \in DOMAIN entities, NEW kind, NEW c \in DOMAIN file.cursors
    PROVE  GivenAs(entities, DeclaredBy(entities, e, Declares(kind, c, FALSE)), e)
<1> DEFINE es == DeclaredBy(entities, e, Declares(kind, c, FALSE))
<1>1. SameTree(entities, es)
  BY DeclaredFacts, DeclaredSame DEF DeclaredBy
<1>2. es[e].comment = entities[e].comment
  <2>1. entities[e] \in EntityType
    BY DEF Forest
  <2> QED
    BY <2>1 DEF EntityType, DeclaredBy
<1>3. FewerGiven(entities, es)
  BY LinkedGiven DEF DeclaredBy
<1> QED
  BY <1>1, <1>2, <1>3 DEF SameTree, GivenAs

\* The calls that end with an entity they return.
LEMMA FinishGives ==
    ASSUME TreeInv, CommentsInv, FinishLinkage \/ FinishNamespace \/ FinishEnum \/ FinishTemplateParameter \/ FinishTemplate
    PROVE  CommentsInv'
<1>1. ASSUME NEW kinds, Finished(kinds), "file" \notin kinds, "friend" \notin kinds, file' = file, comment' = comment,
             Return(entities, Front(stack), Top.entity)
      PROVE  CommentsInv'
  <2>1. entities \in Seq(EntityType) /\ FewerGiven(entities, entities)
    BY DEF TreeInv, Forest, FewerGiven
  <2> QED
    BY <1>1, <2>1, CallGives
<1>2. CASE FinishLinkage
  BY <1>1, <1>2 DEF FinishLinkage
<1>3. CASE FinishNamespace
  BY <1>1, <1>3 DEF FinishNamespace
<1>4. CASE FinishTemplateParameter
  BY <1>1, <1>4 DEF FinishTemplateParameter
<1>5. CASE FinishTemplate
  BY <1>1, <1>5 DEF FinishTemplate
<1>6. CASE FinishEnum
  <2> DEFINE es == [entities EXCEPT ![Top.entity].declares = Declares("enum", Top.cursor, FALSE)]
  <2>1. Finished({"enum"}) /\ Return(es, Front(stack), Top.entity) /\ file' = file /\ comment' = comment
    BY <1>6 DEF FinishEnum
  <2>2. Top.entity \in DOMAIN entities /\ Top.cursor \in DOMAIN file.cursors /\ file \in Files /\ Forest(entities)
    BY <2>1, FinishedFacts
  <2>3. /\ es \in Seq(EntityType) /\ DOMAIN es = DOMAIN entities /\ FewerGiven(entities, es)
        /\ es[Top.entity].kind = entities[Top.entity].kind /\ es[Top.entity].cursor = entities[Top.entity].cursor
    <3>1. es = DeclaredBy(entities, Top.entity, Declares("enum", Top.cursor, FALSE))
      BY DEF DeclaredBy
    <3> HIDE DEF es
    <3>2. GivenAs(entities, DeclaredBy(entities, Top.entity, Declares("enum", Top.cursor, FALSE)), Top.entity)
      BY <2>2, DeclaresGiven
    <3> QED
      BY <3>1, <3>2 DEF GivenAs
  <2> HIDE DEF es
  <2> QED
    BY <2>1, <2>3, CallGives
<1> QED
  BY <1>2, <1>3, <1>4, <1>5, <1>6

\* What is left of an entity in its template, and the template.
Unwrapped(es, e) == [es EXCEPT ![e].parent = Len(es) + 1, ![e].comment = 0]
Wrapper(c, k) == [Entity(KindOf(c), c) EXCEPT !.comment = k]

\* What is left of an entity has no comment.
LEMMA UnwrappedGiven ==
    ASSUME NEW es \in Seq(EntityType), NEW e \in DOMAIN es
    PROVE  Unwrapped(es, e) \in Seq(EntityType) /\ FewerGiven(es, Unwrapped(es, e)) /\ Unwrapped(es, e)[e].comment = 0
<1> DEFINE n == Len(es) + 1
           x == [es[e] EXCEPT !.parent = n, !.comment = 0]
           zs == [es EXCEPT ![e] = x]
<1>1. es[e] \in EntityType /\ n \in Nat /\ 0 \in Nat
  OBVIOUS
<1>2. Unwrapped(es, e) = zs
  BY <1>1 DEF Unwrapped
<1> HIDE DEF n
<1>3. x \in EntityType /\ x.comment = 0
  BY <1>1 DEF EntityType
<1> HIDE DEF x
<1>4. zs \in Seq(EntityType) /\ DOMAIN zs = DOMAIN es /\ zs[e] = x /\ \A d \in DOMAIN es : d # e => zs[d] = es[d]
  BY <1>3, ChangedSeq
<1> HIDE DEF zs
<1>5. FewerGiven(es, zs)
  BY <1>3, <1>4 DEF FewerGiven
<1> QED
  BY <1>2, <1>3, <1>4, <1>5

\* The template is made from the cursor and has the comment.
LEMMA WrapperFacts ==
    ASSUME file \in Files, NEW c \in DOMAIN file.cursors, NEW k \in Nat
    PROVE  Wrapper(c, k) \in EntityType /\ Wrapper(c, k).kind = KindOf(c) /\ Wrapper(c, k).cursor = c /\ Wrapper(c, k).comment = k
<1> DEFINE x == Entity(KindOf(c), c)
<1>1. x \in EntityType /\ x.kind = KindOf(c) /\ x.cursor = c
  <2>1. KindOf(c) \in CursorKinds \cup {"file"} /\ c \in Nat
    BY CursorFacts
  <2> QED
    BY <2>1, NewEntity
<1>2. Wrapper(c, k) = [x EXCEPT !.comment = k]
  BY DEF Wrapper
<1> HIDE DEF x
<1>3. [x EXCEPT !.comment = k].comment = k
  BY <1>1 DEF EntityType
<1> QED
  BY <1>1, <1>2, <1>3, ChangedComment

\* The frame of a template has no comment.
LEMMA TemplateHeld ==
    ASSUME file \in Files, NEW cs, NEW fs, NEW hs, StackOK(cs, hs), FewerHeld(fs, hs), NEW c \in DOMAIN file.cursors, NEW t \in Nat
    PROVE  FewerHeld(fs, Append(hs, TemplateFrame(c, t)))
<1>1. hs \in Seq(FrameType) /\ c \in Nat /\ Below(c, ParameterKinds) \in Seq(Nat) /\ "template" \in FrameKinds
  BY StackFacts, CursorFacts, BelowFacts DEF FrameKinds
<1> QED
  BY <1>1, BegunHeld DEF TemplateFrame

\* A class goes to its owner with its comment, or hands it on to its template.
LEMMA ClassGives == ASSUME TreeInv, CommentsInv, FinishClass PROVE CommentsInv'
<1> DEFINE c == Top.cursor
           e == Top.entity
           es == [entities EXCEPT ![e].declares = Declares("class", c, FALSE)]
<1>1. Finished({"class"}) /\ file' = file /\ comment' = comment
  BY DEF FinishClass
<1>2. /\ e \in DOMAIN entities /\ c \in DOMAIN file.cursors /\ file \in Files /\ Forest(entities)
      /\ StackOK(file.cursors, stack) /\ Held(entities, stack) /\ Top = Last(stack) /\ Top.kind = "class" /\ entities[e].cursor = c
      /\ entities[e].kind = "class"
  BY <1>1, FinishedFacts DEF EntityFits
<1>3. GivenAs(entities, es, e)
  <2>1. es = DeclaredBy(entities, e, Declares("class", c, FALSE))
    BY DEF DeclaredBy
  <2> HIDE DEF es
  <2> QED
    BY <1>2, <2>1, DeclaresGiven
<1>4. CASE KindOf(c) \in TemplateKinds
  <2> DEFINE zs == Unwrapped(es, e)
             r == Wrapper(c, es[e].comment)
  <2>1. /\ entities' = Append(zs, r) /\ stack' = Append(Front(stack), TemplateFrame(c, Next1))
    BY <1>4 DEF FinishClass, Wrapped, Unwrapped, Wrapper
  <2> HIDE DEF es, zs, r
  <2>2. es \in Seq(EntityType) /\ e \in DOMAIN es /\ es[e].comment = entities[e].comment /\ FewerGiven(entities, es)
    BY <1>2, <1>3 DEF GivenAs
  <2>3. zs \in Seq(EntityType) /\ FewerGiven(entities, zs) /\ zs[e].comment = 0
    BY <2>2, UnwrappedGiven, LessGiven DEF zs
  <2>4. entities[e].comment \in Nat
    <3>1. entities[e] \in EntityType
      BY <1>2 DEF Forest
    <3> QED
      BY <3>1 DEF EntityType
  <2>5. r \in EntityType /\ r.cursor = c /\ r.comment = entities[e].comment
    BY <1>2, <2>2, <2>4, WrapperFacts DEF r
  <2>6. FewerHeld(stack, stack') /\ Next1 \in Nat
    <3>1. StackOK(file.cursors, Front(stack)) /\ FewerHeld(stack, Front(stack)) /\ Next1 \in Nat
      BY <1>2, PoppedOK, FrontHeld DEF Forest, Next1
    <3> QED
      BY <1>2, <2>1, <3>1, TemplateHeld
  <2>7. comment \in Nat /\ comment >= 1 /\ comment \in 1 .. Len(Comments) + 1
    BY DEF TreeInv, CommentsInv
  <2>8. OnceIn(entities, stack', comment)
    <3>1. FewerGiven(entities, entities)
      BY DEF FewerGiven
    <3> QED
      BY <2>6, <2>7, <3>1, OnceLess DEF CommentsInv
  <2>9. entities[e].kind # "include" /\ Fits(r)
    <3>1. Fits(entities[e])
      BY <1>2 DEF CommentsInv, OnceIn
    <3>2. entities[e].kind = "class"
      BY <1>2
    <3> QED
      BY <1>2, <2>5, <3>1, <3>2 DEF Fits
  <2>10. OnceIn(Append(zs, r), stack', comment)
    BY <1>2, <2>3, <2>5, <2>7, <2>8, <2>9, OnceMoved
  <2> QED
    BY <1>1, <2>1, <2>7, <2>10, CommentsAfter
<1>5. CASE KindOf(c) \notin TemplateKinds
  <2>1. Return(es, Front(stack), e)
    BY <1>5 DEF FinishClass
  <2> HIDE DEF es
  <2>2. es \in Seq(EntityType) /\ DOMAIN es = DOMAIN entities /\ FewerGiven(entities, es) /\ es[e].kind = entities[e].kind
        /\ es[e].cursor = entities[e].cursor
    BY <1>3 DEF GivenAs
  <2> QED
    BY <1>1, <2>1, <2>2, CallGives
<1> QED
  BY <1>4, <1>5

\* A template takes the comment of what it starts with.
LEMMA TemplateGives ==
    ASSUME TreeInv, CommentsInv, NEW kinds, NEW c \in Visited(kinds), file' = file, Match(c, TRUE),
           NEW r \in EntityType, r.comment = CommentAt(c), NEW es, es = Append(entities, r),
           entities' = Wrapped(es, c, Next1), stack' = Append(Advanced, TemplateFrame(c, Next1 + 1))
    PROVE  CommentsInv'
<1> DEFINE zs == Unwrapped(es, Next1)
           w == Wrapper(c, es[Next1].comment)
<1>1. /\ c \in DOMAIN file.cursors /\ StackOK(file.cursors, stack) /\ StackOK(file.cursors, Advanced) /\ file \in Files
      /\ FewerHeld(stack, Advanced) /\ entities \in Seq(EntityType) /\ comment \in Nat /\ comment >= 1 /\ CommentAt(c) \in Nat
      /\ Next1 \in Nat
  BY VisitedFacts, AdvancedHeld DEF TreeInv, Forest, CommentsInv, Next1
<1>2. /\ es \in Seq(EntityType) /\ DOMAIN es = 1 .. Next1 /\ es[Next1] = r /\ Next1 \in DOMAIN es
      /\ \A d \in DOMAIN es : d = Next1 \/ (d \in DOMAIN entities /\ es[d] = entities[d])
  <2>1. /\ es \in Seq(EntityType) /\ DOMAIN es = 1 .. Next1 /\ es[Next1] = r /\ DOMAIN entities = 1 .. Len(entities)
        /\ Len(entities) \in Nat /\ Next1 = Len(entities) + 1 /\ \A d \in 1 .. Len(entities) : es[d] = entities[d]
    BY <1>1, AppendedSeq DEF Next1
  <2> QED
    BY <2>1
<1>3. entities' = Append(zs, w)
  BY DEF Wrapped, Unwrapped, Wrapper
<1>4. zs \in Seq(EntityType) /\ FewerGiven(es, zs) /\ zs[Next1].comment = 0
  BY <1>2, UnwrappedGiven
<1> HIDE DEF zs
<1>5. FewerGiven(entities, zs)
  BY <1>2, <1>4 DEF FewerGiven
<1>6. w \in EntityType /\ w.cursor = c /\ w.comment = CommentAt(c)
  BY <1>1, <1>2, WrapperFacts
<1> HIDE DEF w
<1>7. FewerHeld(stack, stack')
  <2>1. Next1 + 1 \in Nat
    BY <1>1
  <2> QED
    BY <1>1, <2>1, TemplateHeld
<1>8. OnceIn(zs, stack', comment)
  BY <1>1, <1>5, <1>7, OnceLess DEF CommentsInv
<1>9. /\ comment' \in 1 .. Len(Comments) + 1 /\ comment' \in Nat /\ comment <= comment'
      /\ Fits(w) /\ (w.comment = 0 \/ w.comment \in comment .. comment' - 1)
  BY <1>1, <1>6, MatchOnce, MatchedOnce DEF Fits
<1>10. OnceIn(Append(zs, w), stack', comment')
  BY <1>1, <1>4, <1>6, <1>8, <1>9, OnceNew
<1> QED
  BY <1>3, <1>9, <1>10, CommentsAfter

\* The template of a function takes the comment.
LEMMA FunctionTemplateGives == ASSUME TreeInv, CommentsInv, ParseFunctionTemplate PROVE CommentsInv'
<1>1. PICK c \in Visited(FunctionTemplateKinds) : ParseFunctionTemplate!(c)
  BY DEF ParseFunctionTemplate
<1> DEFINE x == Entity("function", c)
           y == [x EXCEPT !.comment = CommentAt(c)]
           r == [y EXCEPT !.declares = Declares("function", c, FALSE)]
           es == Append(entities, r)
<1>2. c \in DOMAIN file.cursors /\ file \in Files /\ CommentAt(c) \in Nat
  BY VisitedFacts DEF TreeInv
<1>3. x \in EntityType
  <2>1. "function" \in CursorKinds \cup {"file"} /\ c \in Nat
    BY <1>2, CursorFacts DEF CursorKinds, LeafKinds
  <2> QED
    BY <2>1, NewEntity
<1>4. Declares("function", c, FALSE) \in Id \cup {NoId}
  BY <1>2, DeclaredFacts
<1>5. r = [x EXCEPT !.comment = CommentAt(c), !.declares = Declares("function", c, FALSE)]
  OBVIOUS
<1>6. /\ entities' = Wrapped(es, c, Next1) /\ Match(c, TRUE) /\ file' = file
      /\ stack' = Append(Advanced, TemplateFrame(c, Next1 + 1))
  BY <1>1, <1>5
<1>7. y \in EntityType /\ y.comment = CommentAt(c)
  <2>1. y.comment = CommentAt(c)
    BY <1>3 DEF EntityType
  <2> HIDE DEF x
  <2> QED
    BY <1>2, <1>3, <2>1, ChangedComment
<1> HIDE DEF y, x
<1>8. r \in EntityType /\ r.comment = CommentAt(c)
  BY <1>4, <1>7, ChangedDeclares DEF EntityType
<1> HIDE DEF r
<1> QED
  BY <1>6, <1>8, TemplateGives

\* So does that of an alias, unless the alias is not understood.
LEMMA AliasTemplateGives == ASSUME TreeInv, CommentsInv, ParseAliasTemplate PROVE CommentsInv'
<1>1. PICK c \in Visited({"alias_template"}) : ParseAliasTemplate!(c)
  BY DEF ParseAliasTemplate
<1> DEFINE alias == Below(c, {"type_alias"})[1]
           x == Entity("type_alias", alias)
           r == [x EXCEPT !.comment = CommentAt(c)]
           es == Append(entities, r)
<1>2. c \in DOMAIN file.cursors /\ file \in Files /\ CommentAt(c) \in Nat /\ KindOf(c) = "alias_template"
  BY VisitedFacts DEF TreeInv
<1>3. CASE Cursor(alias).bad = "declaration"
  <2>1. entities' = entities /\ stack' = Advanced /\ comment' = comment /\ file' = file
    BY <1>1, <1>3 DEF NoMatch
  <2>2. FewerHeld(stack, Advanced)
    BY VisitedFacts, AdvancedHeld
  <2>3. FewerGiven(entities, entities)
    BY DEF FewerGiven
  <2> QED
    BY <2>1, <2>2, <2>3, NothingGiven
<1>4. CASE Cursor(alias).bad # "declaration"
  <2>1. alias \in Nat
    BY <1>2, AliasBelow
  <2>2. x \in EntityType
    <3>1. "type_alias" \in CursorKinds \cup {"file"}
      BY DEF CursorKinds, LeafKinds
    <3> HIDE DEF alias
    <3> QED
      BY <2>1, <3>1, NewEntity
  <2>3. /\ entities' = Wrapped(es, c, Next1) /\ Match(c, TRUE) /\ file' = file
        /\ stack' = Append(Advanced, TemplateFrame(c, Next1 + 1))
    BY <1>1, <1>4
  <2> HIDE DEF x
  <2>4. r \in EntityType /\ r.comment = CommentAt(c)
    <3>1. r.comment = CommentAt(c)
      BY <2>2 DEF EntityType
    <3> QED
      BY <1>2, <2>2, <3>1, ChangedComment
  <2> HIDE DEF r
  <2> QED
    BY <2>3, <2>4, TemplateGives
<1> QED
  BY <1>3, <1>4

\* A friend takes the comment in front of it, or that of what it declares.
LEMMA FriendGives == ASSUME TreeInv, CommentsInv, FinishFriend PROVE CommentsInv'
<1> DEFINE c == Top.cursor
           e == Top.entity
           fs == Front(stack)
           x == Entity("friend", c)
           r == [x EXCEPT !.comment = FriendComment(c)]
           es == Append(entities, r)
           gs == IF e = 0 THEN es ELSE [es EXCEPT ![e].parent = Next1]
<1>1. Finished({"friend"}) /\ file' = file /\ Match(c, TRUE) /\ Return(gs, fs, Next1)
  BY ParserAssumption DEF FinishFriend
<1>2. /\ file.cursors[c].parent = Last(fs).cursor
      /\ file \in Files /\ StackOK(file.cursors, stack) /\ StackOK(file.cursors, fs) /\ FewerHeld(stack, fs)
      /\ Len(stack) \in DOMAIN stack /\ Len(stack) \notin DOMAIN fs /\ Top = stack[Len(stack)]
      /\ c \in DOMAIN file.cursors /\ Top.comment \in Nat /\ CommentAt(c) \in Nat
      /\ e # 0 => e \in DOMAIN entities
  <2>1. /\ file \in Files /\ StackOK(file.cursors, stack) /\ Held(entities, stack) /\ Top = Last(stack) /\ Top.kind = "friend"
        /\ c \in DOMAIN file.cursors /\ (e # 0 => e \in DOMAIN entities)
    BY <1>1, FinishedFacts
  <2>2. /\ StackOK(file.cursors, fs) /\ FewerHeld(stack, fs) /\ Len(stack) \notin DOMAIN fs
        /\ file.cursors[c].parent = Last(fs).cursor
    BY <2>1, PoppedOK, FrontHeld
  <2>3. Len(stack) \in DOMAIN stack /\ Top = stack[Len(stack)] /\ Top \in FrameType
    BY <2>1, StackFacts
  <2>4. Top.comment \in Nat
    BY <2>3 DEF FrameType
  <2>5. CommentAt(c) \in Nat
    <3>1. Cursor(c).line \in Nat /\ comment \in Nat
      BY <2>1, CursorFacts DEF TreeInv
    <3> QED
      BY <2>1, <3>1, CommentFacts DEF CommentAt
  <2> QED
    BY <2>1, <2>2, <2>3, <2>4, <2>5
<1>3. entities \in Seq(EntityType) /\ Next1 = Len(entities) + 1 /\ comment \in Nat /\ comment >= 1
  BY DEF TreeInv, Forest, CommentsInv, Next1
<1>4. x \in EntityType /\ x.kind = "friend" /\ x.cursor = c
  <2>1. "friend" \in CursorKinds \cup {"file"} /\ c \in Nat
    BY <1>2, CursorFacts DEF CursorKinds
  <2> QED
    BY <2>1, NewEntity
<1> HIDE DEF x
<1>5. r \in EntityType /\ r.kind = "friend" /\ r.comment = FriendComment(c) /\ r.cursor = c
  <2>1. FriendComment(c) \in Nat
    BY <1>2 DEF FriendComment
  <2>2. r.comment = FriendComment(c)
    BY <1>4 DEF EntityType
  <2> QED
    BY <1>4, <2>1, <2>2, ChangedComment
<1> HIDE DEF r, fs
<1>6. Fits(r)
  <2>1. HeldFits(Top)
    BY <1>2 DEF CommentsInv, OnceIn
  <2>2. CASE CommentAt(c) # 0
    BY <1>2, <1>5, <2>2, MatchOnce DEF Fits, FriendComment
  <2>3. CASE CommentAt(c) = 0
    BY <1>5, <2>1, <2>3 DEF Fits, HeldFits, FriendComment
  <2> QED
    BY <2>2, <2>3
<1>7. /\ comment' \in 1 .. Len(Comments) + 1 /\ comment' \in Nat /\ comment <= comment' /\ comment' >= 1
      /\ CommentAt(c) = 0 \/ CommentAt(c) \in comment .. comment' - 1
  <2>1. /\ comment' \in 1 .. Len(Comments) + 1 /\ comment' \in Nat /\ comment \in Nat /\ comment <= comment' /\ comment >= 1
        /\ CommentAt(c) = 0 \/ CommentAt(c) \in comment .. comment' - 1
    BY <1>1, <1>2, MatchedOnce
  <2> HIDE DEF c
  <2> QED
    BY <2>1
<1>8. OnceIn(es, fs, comment')
  <2>1. CASE CommentAt(c) # 0
    <3>1. r.comment = CommentAt(c)
      BY <1>5, <2>1 DEF FriendComment
    <3>2. OnceIn(entities, fs, comment)
      <4>1. FewerGiven(entities, entities)
        BY DEF FewerGiven
      <4> QED
        BY <1>2, <1>3, <4>1, OnceLess DEF CommentsInv
    <3> QED
      BY <1>3, <1>5, <1>6, <1>7, <2>1, <3>1, <3>2, OnceNew
  <2>2. CASE CommentAt(c) = 0
    <3>1. r.comment = stack[Len(stack)].comment
      BY <1>2, <1>5, <2>2 DEF FriendComment
    <3>2. OnceIn(es, fs, comment)
      BY <1>2, <1>3, <1>5, <1>6, <3>1, OnceTaken DEF CommentsInv
    <3>3. FewerGiven(es, es) /\ FewerHeld(fs, fs)
      BY DEF FewerGiven, FewerHeld
    <3> HIDE DEF es
    <3> QED
      BY <1>3, <1>7, <3>2, <3>3, OnceLess
  <2> QED
    BY <2>1, <2>2
<1>9. /\ es \in Seq(EntityType) /\ es[Next1] = r /\ Next1 \in DOMAIN es /\ (e # 0 => e \in DOMAIN es /\ e # Next1)
  <2>1. /\ es \in Seq(EntityType) /\ DOMAIN es = 1 .. Next1 /\ es[Next1] = r
        /\ DOMAIN entities = 1 .. Len(entities) /\ Len(entities) \in Nat
    BY <1>3, <1>5, AppendedSeq
  <2> QED
    BY <1>2, <1>3, <2>1
<1> HIDE DEF es
<1>10. gs \in Seq(EntityType) /\ Next1 \in DOMAIN gs /\ gs[Next1] = r /\ FewerGiven(es, gs)
  <2>1. CASE e = 0
    BY <1>9, <2>1 DEF FewerGiven
  <2>2. CASE e # 0
    <3> DEFINE y == [es[e] EXCEPT !.parent = Next1]
               hs == [es EXCEPT ![e] = y]
    <3>1. es[e] \in EntityType /\ Next1 \in Nat
      BY <1>3, <1>9, <2>2
    <3>2. y \in EntityType
      BY <3>1 DEF EntityType
    <3>3. gs = hs
      BY <2>2
    <3>4. FewerGiven(es, gs)
      BY <1>9, <2>2, LinkedGiven
    <3> HIDE DEF y, gs
    <3>5. hs \in Seq(EntityType) /\ DOMAIN hs = DOMAIN es /\ \A d \in DOMAIN es : d # e => hs[d] = es[d]
      BY <1>9, <2>2, <3>2, ChangedSeq
    <3> QED
      BY <1>9, <2>2, <3>3, <3>4, <3>5
  <2> QED
    BY <2>1, <2>2
<1> HIDE DEF gs
<1>11. OnceIn(gs, fs, comment')
  <2>1. FewerHeld(fs, fs)
    BY DEF FewerHeld
  <2> QED
    BY <1>7, <1>8, <1>10, <2>1, OnceLess
<1> QED
  BY <1>1, <1>2, <1>5, <1>7, <1>10, <1>11, ReturnGives

----------------------------------------------------------------------------
(* The comments of all entities.                                           *)

\* Every step of a parse keeps each comment with one entity.
LEMMA ParseGives == ASSUME TreeInv, CommentsInv, ParseNext PROVE CommentsInv'
<1>1. CASE AddMacro \/ AddInclude \/ FinishFile \/ DereferenceNull \/ CatchError \/ FailFunction \/ ParseNothing \/ SkipPart
  BY <1>1, MacroGives, IncludeGives, EndGives, PassedGives, FailedFunctionGives
<1>2. CASE LeafActions \/ ParseConcept
  BY <1>2, LeavesGive, ConceptGives
<1>3. CASE EnterLinkage \/ EnterEnum \/ EnterNamespace \/ EnterClass \/ EnterNestedNamespace
  BY <1>3, ContainersGive, NestedGives
<1>4. CASE FinishLinkage \/ FinishNamespace \/ FinishEnum \/ FinishTemplateParameter \/ FinishTemplate \/ FinishClass
  BY <1>4, FinishGives, ClassGives
<1>5. CASE AddPart \/ AddParameter \/ EnterTemplateParameter \/ ParseFunctionTemplate \/ ParseAliasTemplate \/ Unwind
  BY <1>5, PartGives, ParameterGives, FunctionTemplateGives, AliasTemplateGives, UnwindGives
<1>6. CASE EnterFriend \/ NameFriend \/ DeclareFriend \/ FinishFriend \/ FailFriend
  BY <1>6, FriendBeginGives, NameGives, DeclareGives, FriendGives, FailGives
<1> QED
  BY <1>1, <1>2, <1>3, <1>4, <1>5, <1>6 DEF ParseNext, LeafActions

\* At first there is only the file.
LEMMA CommentsInit == ASSUME ParseInit PROVE CommentsInv
<1> DEFINE r == Entity("file", 0)
           f == Frame("file", 0, 1, TopLevel)
<1>1. /\ entities = <<r>> /\ stack = <<f>> /\ comment = 1 /\ file \in Files
  BY DEF ParseInit
<1>2. r.comment = 0 /\ f.comment = 0
  BY DEF Entity, Frame
<1> HIDE DEF r, f
<1>3. /\ \A e \in DOMAIN entities : entities[e] = r
      /\ \A n \in DOMAIN stack : n = 1 /\ stack[n] = f
  <2>1. ASSUME NEW x PROVE \A n \in DOMAIN <<x>> : n = 1 /\ <<x>>[n] = x
    OBVIOUS
  <2> QED
    BY <1>1, <2>1
<1>4. Len(Comments) \in Nat
  <2>1. Comments \in Seq([line : Nat, eol : BOOLEAN])
    BY <1>1, FileFacts
  <2> QED
    BY <2>1
<1>5. \A e \in DOMAIN entities : Fits(entities[e]) /\ entities[e].comment = 0
  BY <1>2, <1>3 DEF Fits
<1>6. \A n \in DOMAIN stack : n = 1 /\ stack[n].comment = 0 /\ HeldFits(stack[n])
  BY <1>2, <1>3 DEF HeldFits
<1>7. Given(entities) = {}
  BY <1>5 DEF Given
<1>8. OnceIn(entities, stack, comment)
  <2>1. 0 \in 0 .. comment - 1
    BY <1>1
  <2> QED
    BY <1>5, <1>6, <1>7, <2>1 DEF OnceIn
<1> QED
  BY <1>1, <1>4, <1>8 DEF CommentsInv

\* What comes after the parse leaves the comments alone.
LEMMA CommentsKept ==
    ASSUME CommentsInv, BeginVisit \/ ContinueVisit \/ BeginGenerate \/ GenerateNext \/ Stop \/ UNCHANGED vars
    PROVE  CommentsInv'
<1>1. ASSUME UNCHANGED <<treeVars, parseVars>> PROVE CommentsInv'
  BY <1>1, CommentsAfter DEF CommentsInv, treeVars, parseVars
<1>2. CASE Stop \/ UNCHANGED vars
  BY <1>1, <1>2 DEF Stop, vars
<1>3. CASE BeginVisit
  BY <1>1, <1>3 DEF BeginVisit, StartVisit
<1>4. CASE ContinueVisit
  BY <1>1, <1>4 DEF ContinueVisit, VisitNext, VisitRoot, VisitChild, LeaveContainer, Visit
<1>5. CASE BeginGenerate
  BY <1>1, <1>5 DEF BeginGenerate, StartGenerate
<1>6. CASE GenerateNext
  BY <1>1, <1>6 DEF GenerateNext, WriteDirect, SkipExcluded, WriteItem, WriteParameter, WriteBase, UpdateAccess, WriteMember,
     FinishList, FinishEntity, FinishGenerate, InList, Unchanged
<1> QED
  BY <1>2, <1>3, <1>4, <1>5, <1>6

\* No comment is that of two entities, an include aside, and that of an entity is beside
\* the cursor it is made from: unless it is a friend, whose comment may have been that of
\* what it befriends, which is below it, or a nested namespace, which may have that of a
\* namespace around it.
CommentsOfOne ==
    /\ \A d, e \in DOMAIN entities :
         /\ entities[d].kind # "include" /\ entities[e].kind # "include"
         /\ entities[d].comment # 0 /\ entities[d].comment = entities[e].comment
         => d = e
    /\ \A e \in DOMAIN entities : Fits(entities[e])

\* Whatever the file, and at every moment of the parse and after it: a comment of the file is
\* that of one entity at most, although the position in the list of comments only moves on
\* when an entity is matched, a template takes the comment of what it wraps, a nested
\* namespace that of the namespace around it and a friend that of what it declares; and the
\* comment of an entity is the one in front of the cursor it is made from or at the end of
\* its line, or of the cursor it was taken over from, whatever was skipped or thrown before.
\* comment_context::match, parse_cpp_namespace, parse_cpp_class,
\* parse_cpp_function_template, parse_cpp_friend.
THEOREM CommentsGivenOnce == Spec => []CommentsOfOne
<1>1. Init => TreeInv /\ CommentsInv
  BY TreeInit, CommentsInit DEF Init
<1>2. TreeInv /\ CommentsInv /\ [Next]_vars => (TreeInv /\ CommentsInv)'
  BY ParseStep, ParseGives, TreeKept, CommentsKept DEF Next, Parse
<1>3. CommentsInv => CommentsOfOne
  BY DEF CommentsInv, OnceIn, Given, Fits, CommentsOfOne
<1> QED
  BY <1>1, <1>2, <1>3, PTL DEF Spec
=============================================================================
