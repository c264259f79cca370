--------------------------- MODULE VisitorProofs ---------------------------
(***************************************************************************)
(* The callback is told about the tree as it is, whatever it and the       *)
(* filter answer: EventsNest, for every file.                              *)
(***************************************************************************)
EXTENDS ParseTreeProofs

----------------------------------------------------------------------------
(* The properties of a visit, of the events it has caused so far.          *)

\* The children a visit goes through.
Kids(e) == {k \in DOMAIN entities : entities[k].parent = e /\ entities[k].role = "child"}

IsLast(e) == e # 1 /\ e = Last(ChildrenOf(Parent(e), "child"))

\* Skipping and Shown, for some events and the answers to them.
Skips(evs, ref, e) ==
    filter[e] = "exclude_and_children" \/ \E k \in ref : evs[k].type = "enter" /\ evs[k].entity = e

Shows(evs, ref, e) ==
    /\ filter[e] = "include"
    /\ \A k \in Line(e) : entities[k].role = "child"
    /\ \A a \in Ancestors(e) : entities[a].kind # "friend" /\ ~Skips(evs, ref, a)

\* Two events in the order of a visit.
Nests(a, b) ==
    \/ a.entity = b.entity /\ a.type = "enter" /\ b.type = "exit"
    \/ a.entity \in Ancestors(b.entity) /\ a.type = "enter"
    \/ b.entity \in Ancestors(a.entity) /\ b.type = "exit"
    \/ Before(a.entity, b.entity)

AllNest(evs) == \A i, j \in DOMAIN evs : i < j => Nests(evs[i], evs[j])

\* What is told is to be shown.
AllShown(evs, ref) ==
    \A k \in DOMAIN evs : Shows(evs, ref, evs[k].entity) /\ (evs[k].last <=> IsLast(evs[k].entity))

Types(evs, e) == {evs[i].type : i \in {k \in DOMAIN evs : evs[k].entity = e}}

\* All there is to tell about an entity.
Whole(e) == IF IsContainer(e) THEN {"enter", "exit"} ELSE {"leaf"}

\* The end of a visit.
Ended(evs, ref) ==
    /\ AllNest(evs) /\ AllShown(evs, ref)
    /\ IF \E k \in ref : evs[k].type # "enter" THEN Len(evs) \in ref
       ELSE \A e \in Tree : Shows(evs, ref, e) => Types(evs, e) = Whole(e)

\* That is what EventsNest says.
LEMMA EndedIsNested == EventsNest <=> (mode = "visited" => Ended(events, refused))
<1>1. \A e : Skips(events, refused, e) <=> Skipping(e)
  BY DEF Skips, Skipping
<1>2. \A e : Shows(events, refused, e) <=> Shown(e)
  BY <1>1 DEF Shows, Shown, Line
<1> QED
  BY <1>2 DEF EventsNest, Ended, AllNest, Nests, AllShown, IsLast, Types, Whole, Aborted

----------------------------------------------------------------------------
(* The calls of a visit.                                                   *)

Accesses == {"public", "private"} \cup {file.cursors[c].access : c \in Nat}

CallType == [entity : Nat, access : Accesses, last : BOOLEAN, child_access : Accesses, todo : Seq(Nat)]

EventType == [type : {"enter", "leaf", "exit"}, entity : Nat, access : Accesses, last : BOOLEAN]

\* The children a call has still to visit.
Rest(call) == Elements(call.todo)

\* A call visits the children of a container in order, and all of them unless they are
\* skipped; all calls but the last one are in the middle of the one behind.
VisitCallOK(evs, ref, os, i) ==
    LET e == os[i].entity
        gone == Kids(e) \ Rest(os[i])
    IN /\ e \in DOMAIN entities /\ IsContainer(e) /\ entities[e].role = "child"
       /\ os[i].last <=> IsLast(e)
       /\ Increasing(os[i].todo) /\ Rest(os[i]) \subseteq Kids(e)
       /\ \A d \in gone, t \in Rest(os[i]) : d < t
       /\ Skips(evs, ref, e) => i = Len(os) /\ os[i].todo = <<>>
       /\ i < Len(os) => os[i + 1].entity \in gone /\ \A d \in gone : d <= os[i + 1].entity

\* A child the visit is through with, and what is below such children.
VisitedBy(evs, ref, os, i, d) ==
    /\ ~Skips(evs, ref, os[i].entity)
    /\ d \in Kids(os[i].entity) \ Rest(os[i])
    /\ i < Len(os) => d # os[i + 1].entity

Through(evs, ref, os, e) == \E i \in DOMAIN os : \E d \in Line(e) : VisitedBy(evs, ref, os, i, d)

CallsOK(evs, ref, os) ==
    /\ os \in Seq(CallType) /\ Len(os) >= 1 /\ os[1].entity = 1
    /\ \A i \in DOMAIN os : VisitCallOK(evs, ref, os, i)

\* What was told is about the calls, and about what the visit is through with: all of that.
ToldOK(evs, ref, os) ==
    /\ \A k \in DOMAIN evs :
         /\ evs[k].entity \in DOMAIN entities
         /\ \/ evs[k].type = "enter" /\ \E i \in DOMAIN os : evs[k].entity = os[i].entity
            \/ Through(evs, ref, os, evs[k].entity)
    /\ \A i \in DOMAIN os : filter[os[i].entity] = "include" => Types(evs, os[i].entity) = {"enter"}
    /\ \A e \in DOMAIN entities : Through(evs, ref, os, e) /\ Shows(evs, ref, e) => Types(evs, e) = Whole(e)

EventsOK(evs, ref) ==
    /\ evs \in Seq(EventType) /\ ref \subseteq DOMAIN evs
    /\ AllNest(evs) /\ AllShown(evs, ref)

\* A visit that is under way.
Visiting(evs, ref, os) ==
    /\ EventsOK(evs, ref) /\ CallsOK(evs, ref, os) /\ ToldOK(evs, ref, os)
    /\ \A k \in ref : evs[k].type = "enter"

\* The root is visited like a child.
VisitInv ==
    /\ mode = "visit_root" => open = <<Call(1, "public", FALSE, <<>>)>> /\ events = <<>> /\ refused = {}
    /\ mode = "visit" => Visiting(events, refused, open)
    /\ mode = "visited" => Ended(events, refused)

----------------------------------------------------------------------------
(* Calls, and what they are in the middle of.                              *)

\* The types of what calls consist of.
LEMMA CallFacts ==
    ASSUME Forest(entities), NEW evs, NEW ref, NEW os, CallsOK(evs, ref, os)
    PROVE  /\ os \in Seq(CallType) /\ Len(os) \in Nat /\ Len(os) >= 1 /\ DOMAIN os = 1 .. Len(os)
           /\ Len(os) \in DOMAIN os /\ Last(os) = os[Len(os)] /\ 1 \in DOMAIN os
           /\ \A i \in DOMAIN os :
                /\ os[i] \in CallType /\ os[i].todo \in Seq(Nat) /\ os[i].entity \in DOMAIN entities
                /\ IsContainer(os[i].entity) /\ entities[os[i].entity].role = "child"
                /\ i # Len(os) => i + 1 \in DOMAIN os /\ i < Len(os) /\ ~Skips(evs, ref, os[i].entity)
                                  /\ os[i + 1].entity \in Kids(os[i].entity) \ Rest(os[i])
                                  /\ entities[os[i + 1].entity].parent = os[i].entity
<1>1. os \in Seq(CallType) /\ Len(os) >= 1
  BY DEF CallsOK
<1>2. Len(os) \in Nat /\ DOMAIN os = 1 .. Len(os) /\ Last(os) = os[Len(os)]
  BY <1>1 DEF Last
<1>3. \A i \in DOMAIN os : os[i] \in CallType
  BY <1>1
<1>4. \A i \in DOMAIN os : i # Len(os) => i + 1 \in DOMAIN os /\ i < Len(os)
  BY <1>2
<1>5. \A i \in DOMAIN os : VisitCallOK(evs, ref, os, i)
  BY DEF CallsOK
<1>6. \A i \in DOMAIN os : os[i].todo \in Seq(Nat)
  BY <1>3 DEF CallType
<1>7. ASSUME NEW i \in DOMAIN os, i # Len(os)
      PROVE  ~Skips(evs, ref, os[i].entity) /\ os[i + 1].entity \in Kids(os[i].entity) \ Rest(os[i])
             /\ entities[os[i + 1].entity].parent = os[i].entity
  BY <1>4, <1>5, <1>7 DEF VisitCallOK, Kids
<1>8. \A i \in DOMAIN os : os[i].entity \in DOMAIN entities /\ IsContainer(os[i].entity) /\ entities[os[i].entity].role = "child"
  BY <1>5 DEF VisitCallOK
<1> QED
  BY <1>1, <1>2, <1>3, <1>4, <1>6, <1>7, <1>8

\* The calls are for all that is above the entity of the last one.
LEMMA PathFacts ==
    ASSUME Forest(entities), NEW evs, NEW ref, NEW os, CallsOK(evs, ref, os)
    PROVE  \A i \in DOMAIN os : \A e : e = os[i].entity => \A x : x \in Ancestors(e) <=> \E j \in 1 .. i - 1 : x = os[j].entity
<1> DEFINE n == Len(os)
           P(j) == \A x : x \in Ancestors(os[j].entity) <=> \E l \in 1 .. j - 1 : x = os[l].entity
           T == {j \in Nat : j + 1 \in 1 .. n => P(j + 1)}
<1>0. /\ n \in Nat /\ n >= 1 /\ DOMAIN os = 1 .. n
      /\ \A j \in 1 .. n : os[j].entity \in DOMAIN entities
      /\ \A j \in 1 .. n : j # n => entities[os[j + 1].entity].parent = os[j].entity
  BY CallFacts
<1>1. 0 \in T
  <2>1. os[1].entity = 1
    BY DEF CallsOK
  <2>2. Parent(1) = 0 /\ 1 \in DOMAIN entities
    BY DEF Forest, Parent
  <2>3. Ancestors(1) = {}
    BY <2>2, AncestorsEquation
  <2> QED
    BY <2>1, <2>3
<1>2. ASSUME NEW j \in T PROVE j + 1 \in T
  <2>1. SUFFICES ASSUME j + 2 \in 1 .. n PROVE P(j + 2)
    OBVIOUS
  <2>2. j \in Nat /\ j + 1 \in 1 .. n /\ j + 1 # n /\ P(j + 1) /\ (j + 1) + 1 = j + 2
    <3>1. j \in Nat /\ (j + 1 \in 1 .. n => P(j + 1))
      OBVIOUS
    <3> HIDE DEF P, n, T
    <3> QED
      BY <1>0, <2>1, <3>1
  <2>3. os[j + 2].entity \in DOMAIN entities /\ os[j + 1].entity \in DOMAIN entities
        /\ entities[os[j + 2].entity].parent = os[j + 1].entity
    BY <1>0, <2>1, <2>2
  <2>4. os[j + 1].entity # 0
    BY <2>3 DEF Forest
  <2>5. Ancestors(os[j + 2].entity) = {os[j + 1].entity} \cup Ancestors(os[j + 1].entity)
    BY <2>3, <2>4, AncestorsEquation DEF Parent
  <2>6. \A l : l \in 1 .. (j + 2) - 1 <=> l = j + 1 \/ l \in 1 .. (j + 1) - 1
    BY <2>2
  <2>7. \A x : x \in Ancestors(os[j + 2].entity) <=> x = os[j + 1].entity \/ x \in Ancestors(os[j + 1].entity)
    BY <2>5
  <2> QED
    BY <2>2, <2>6, <2>7
<1> HIDE DEF T, P
<1>3. T = Nat
  <2>1. T \subseteq Nat
    BY DEF T
  <2> QED
    BY <1>1, <1>2, <2>1, Numbers!NatSetInduction
<1> HIDE DEF n
<1>4. ASSUME NEW i \in DOMAIN os PROVE P(i)
  <2>1. i - 1 \in T /\ i \in Nat /\ (i - 1) + 1 = i /\ i \in 1 .. n
    BY <1>0, <1>3
  <2>2. (i - 1) + 1 \in 1 .. n => P((i - 1) + 1)
    BY <2>1 DEF T
  <2> QED
    BY <2>1, <2>2
<1> QED
  BY <1>4 DEF P

\* The first of some increasing numbers, and the others.
LEMMA TailFacts ==
    ASSUME NEW s \in Seq(Nat), s # <<>>, Increasing(s)
    PROVE  /\ Head(s) \in Elements(s) /\ Tail(s) \in Seq(Nat) /\ Increasing(Tail(s))
           /\ Elements(Tail(s)) = Elements(s) \ {Head(s)}
           /\ \A t \in Elements(Tail(s)) : Head(s) < t
           /\ Tail(s) = <<>> <=> Elements(Tail(s)) = {}
<1> DEFINE n == Len(s)
           t == Tail(s)
<1>1. n \in Nat /\ n >= 1 /\ DOMAIN s = 1 .. n /\ Head(s) = s[1] /\ \A i \in 1 .. n : s[i] \in Nat
  OBVIOUS
<1>2. t \in Seq(Nat) /\ Len(t) = n - 1 /\ DOMAIN t = 1 .. n - 1 /\ \A i \in 1 .. n - 1 : t[i] = s[i + 1]
  OBVIOUS
<1>3. t = <<>> <=> n - 1 = 0
  <2>1. t = <<>> <=> Len(t) = 0
    BY <1>2, EmptySeq
  <2> QED
    BY <1>2, <2>1
<1> HIDE DEF t, n
<1>4. \A i, j \in 1 .. n : i < j => s[i] < s[j]
  BY <1>1 DEF Increasing
<1>5. Increasing(t)
  <2>1. SUFFICES ASSUME NEW i \in 1 .. n - 1, NEW j \in 1 .. n - 1, i < j PROVE t[i] < t[j]
    BY <1>2 DEF Increasing
  <2>2. i + 1 \in 1 .. n /\ j + 1 \in 1 .. n /\ i + 1 < j + 1
    BY <1>1, <2>1
  <2> QED
    BY <1>2, <1>4, <2>2
<1>6. \A x \in Elements(t) : s[1] < x /\ x \in Elements(s)
  <2>1. TAKE x \in Elements(t)
  <2>2. PICK i \in 1 .. n - 1 : x = s[i + 1]
    BY <1>2 DEF Elements
  <2>3. 1 \in 1 .. n /\ i + 1 \in 1 .. n /\ 1 < i + 1
    BY <1>1
  <2> QED
    BY <1>1, <1>4, <2>2, <2>3 DEF Elements
<1>7. \A x \in Elements(s) : x # s[1] => x \in Elements(t)
  <2>1. TAKE x \in Elements(s)
  <2>2. PICK i \in 1 .. n : x = s[i]
    BY <1>1 DEF Elements
  <2>3. SUFFICES ASSUME x # s[1] PROVE x \in Elements(t)
    OBVIOUS
  <2>4. i - 1 \in 1 .. n - 1 /\ (i - 1) + 1 = i
    BY <1>1, <2>2, <2>3
  <2> QED
    BY <1>2, <2>2, <2>4 DEF Elements
<1>8. s[1] \in Elements(s) /\ s[1] \notin Elements(t)
  <2>1. 1 \in 1 .. n /\ ~ (s[1] < s[1])
    BY <1>1
  <2> QED
    BY <1>1, <1>6, <2>1 DEF Elements
<1>9. t = <<>> <=> Elements(t) = {}
  <2>1. ASSUME n - 1 = 0 PROVE Elements(t) = {}
    BY <1>2, <2>1 DEF Elements
  <2>2. ASSUME n - 1 # 0 PROVE Elements(t) # {}
    <3>1. 1 \in DOMAIN t
      BY <1>1, <1>2, <2>2
    <3> QED
      BY <3>1 DEF Elements
  <2> QED
    BY <1>3, <2>1, <2>2
<1> QED
  BY <1>1, <1>2, <1>5, <1>6, <1>7, <1>8, <1>9 DEF t

\* The children of an entity, in order.
LEMMA KidsFacts ==
    ASSUME Forest(entities), NEW e
    PROVE  /\ ChildrenOf(e, "child") \in Seq(Nat) /\ Increasing(ChildrenOf(e, "child"))
           /\ Elements(ChildrenOf(e, "child")) = Kids(e)
           /\ \A k \in Kids(e) : k \in Nat /\ k \in DOMAIN entities /\ Parent(k) = e
  BY OwnedFacts DEF Kids, Owned

\* The last child is the greatest.
LEMMA LastKid ==
    ASSUME Forest(entities), NEW e, NEW c \in Kids(e)
    PROVE  c = Last(ChildrenOf(e, "child")) <=> \A k \in Kids(e) : k <= c
<1> DEFINE q == ChildrenOf(e, "child")
           n == Len(q)
<1>1. q \in Seq(Nat) /\ Increasing(q) /\ Elements(q) = Kids(e) /\ \A k \in Kids(e) : k \in Nat
  BY KidsFacts
<1> HIDE DEF q
<1>2. n \in Nat /\ DOMAIN q = 1 .. n /\ Last(q) = q[n]
  BY <1>1 DEF Last
<1> HIDE DEF n
<1>3. PICK i \in 1 .. n : q[i] = c
  BY <1>1, <1>2 DEF Elements
<1>4. n \in 1 .. n /\ q[n] \in Kids(e)
  BY <1>1, <1>2, <1>3 DEF Elements
<1>5. ASSUME c = q[n], NEW k \in Kids(e) PROVE k <= c
  <2>1. PICK j \in 1 .. n : q[j] = k
    BY <1>1, <1>2 DEF Elements
  <2>2. CASE j = n
    BY <1>1, <1>5, <2>1, <2>2
  <2>3. CASE j < n
    <3>1. q[j] < q[n]
      BY <1>1, <1>2, <1>4, <2>3 DEF Increasing
    <3> QED
      BY <1>1, <1>4, <1>5, <2>1, <3>1
  <2>4. j = n \/ j < n
    BY <1>2
  <2> QED
    BY <2>2, <2>3, <2>4
<1>6. ASSUME \A k \in Kids(e) : k <= c PROVE c = q[n]
  <2>1. q[n] <= c
    BY <1>4, <1>6
  <2>2. i < n => q[i] < q[n]
    BY <1>1, <1>2, <1>4 DEF Increasing
  <2> QED
    BY <1>1, <1>2, <1>3, <1>4, <2>1, <2>2
<1> QED
  BY <1>2, <1>5, <1>6 DEF q

----------------------------------------------------------------------------
(* The callback is told about something, or the filter answers for it.     *)

\* Tell, for some events and the answers to them, with any answer.
ToldEvent(evs, ref, ev, evs2, ref2) ==
    /\ evs \in Seq(EventType) /\ ref \subseteq DOMAIN evs /\ ev \in EventType
    /\ IF filter[ev.entity] = "include"
       THEN evs2 = Append(evs, ev) /\ ref2 \in {ref, ref \cup {Len(evs) + 1}}
       ELSE evs2 = evs /\ ref2 = ref

\* What was told before is not changed, nor what it was answered.
LEMMA ToldFacts ==
    ASSUME NEW evs, NEW ref, NEW ev, NEW evs2, NEW ref2, ToldEvent(evs, ref, ev, evs2, ref2)
    PROVE  /\ evs2 \in Seq(EventType) /\ ref2 \subseteq DOMAIN evs2 /\ ref \subseteq ref2
           /\ \A k \in DOMAIN evs : k \in DOMAIN evs2 /\ evs2[k] = evs[k]
           /\ \A k \in DOMAIN evs2 : k \in DOMAIN evs \/
                (filter[ev.entity] = "include" /\ k = Len(evs2) /\ evs2[k] = ev /\ \A j \in DOMAIN evs : j < k)
           /\ \A k \in ref2 : k \in ref \/
                (ref2 # ref /\ filter[ev.entity] = "include" /\ evs2[k] = ev)
           /\ filter[ev.entity] = "include" =>
                Len(evs2) \in DOMAIN evs2 /\ evs2[Len(evs2)] = ev /\ (ref2 # ref => Len(evs2) \in ref2)
<1>0. evs \in Seq(EventType) /\ ref \subseteq DOMAIN evs /\ ev \in EventType
  BY DEF ToldEvent
<1>1. CASE filter[ev.entity] = "include"
  <2> DEFINE n == Len(evs)
  <2>1. evs2 = Append(evs, ev) /\ ref2 \in {ref, ref \cup {n + 1}}
    BY <1>1 DEF ToldEvent
  <2>2. n \in Nat /\ DOMAIN evs = 1 .. n
    BY <1>0
  <2>3. evs2 \in Seq(EventType) /\ Len(evs2) = n + 1 /\ DOMAIN evs2 = 1 .. n + 1 /\ evs2[n + 1] = ev
        /\ \A k \in 1 .. n : evs2[k] = evs[k]
    BY <1>0, <2>1, AppendedSeq
  <2> HIDE DEF n
  <2>4. \A k \in 1 .. n : k \in 1 .. n + 1 /\ k < n + 1
    BY <2>2
  <2>5. \A k \in 1 .. n + 1 : k \in 1 .. n \/ k = n + 1
    BY <2>2
  <2>6. n + 1 \in 1 .. n + 1
    BY <2>2
  <2>7. ref2 \subseteq DOMAIN evs2 /\ ref \subseteq ref2
    BY <1>0, <2>1, <2>2, <2>3, <2>4, <2>6
  <2>8. \A k \in ref2 : k \in ref \/ (ref2 # ref /\ k = n + 1)
    BY <1>0, <2>1
  <2>9. ref2 # ref => n + 1 \in ref2
    BY <2>1
  <2> QED
    BY <1>1, <2>2, <2>3, <2>4, <2>5, <2>6, <2>7, <2>8, <2>9
<1>2. CASE filter[ev.entity] # "include"
  <2>1. evs2 = evs /\ ref2 = ref
    BY <1>2 DEF ToldEvent
  <2> QED
    BY <1>0, <1>2, <2>1
<1> QED
  BY <1>1, <1>2

\* What is skipped stays skipped, and only what is refused on entry is skipped as well.
LEMMA SkipsFacts ==
    ASSUME NEW evs, NEW ref, NEW ev, NEW evs2, NEW ref2, ToldEvent(evs, ref, ev, evs2, ref2)
    PROVE  /\ \A e : Skips(evs, ref, e) => Skips(evs2, ref2, e)
           /\ \A e : Skips(evs2, ref2, e) => Skips(evs, ref, e) \/ (e = ev.entity /\ ev.type = "enter" /\ ref2 # ref)
           /\ \A e : Shows(evs2, ref2, e) => Shows(evs, ref, e)
<1>1. /\ \A k \in DOMAIN evs : k \in DOMAIN evs2 /\ evs2[k] = evs[k]
      /\ ref \subseteq ref2
      /\ \A k \in ref2 : k \in ref \/ (ref2 # ref /\ filter[ev.entity] = "include" /\ evs2[k] = ev)
  BY ToldFacts
<1>2. \A k \in ref : evs2[k] = evs[k] /\ k \in ref2
  BY <1>1 DEF ToldEvent
<1>3. \A e : Skips(evs, ref, e) => Skips(evs2, ref2, e)
  BY <1>2 DEF Skips
<1>4. \A e : Skips(evs2, ref2, e) => Skips(evs, ref, e) \/ (e = ev.entity /\ ev.type = "enter" /\ ref2 # ref)
  BY <1>1, <1>2 DEF Skips
<1>5. \A e : Shows(evs2, ref2, e) => Shows(evs, ref, e)
  BY <1>3 DEF Shows
<1> QED
  BY <1>3, <1>4, <1>5

\* Nothing more is told about anything else.
LEMMA TypesFacts ==
    ASSUME NEW evs, NEW ref, NEW ev, NEW evs2, NEW ref2, ToldEvent(evs, ref, ev, evs2, ref2)
    PROVE  /\ \A e : e # ev.entity => Types(evs2, e) = Types(evs, e)
           /\ filter[ev.entity] = "include" => Types(evs2, ev.entity) = Types(evs, ev.entity) \cup {ev.type}
<1>1. /\ \A k \in DOMAIN evs : k \in DOMAIN evs2 /\ evs2[k] = evs[k]
      /\ \A k \in DOMAIN evs2 : k \in DOMAIN evs \/ (k = Len(evs2) /\ evs2[k] = ev)
      /\ filter[ev.entity] = "include" => Len(evs2) \in DOMAIN evs2 /\ evs2[Len(evs2)] = ev
  BY ToldFacts
<1>2. ASSUME NEW e, e # ev.entity PROVE Types(evs2, e) = Types(evs, e)
  <2>1. \A x : x \in Types(evs2, e) <=> x \in Types(evs, e)
    BY <1>1, <1>2 DEF Types
  <2> QED
    BY <2>1
<1>3. ASSUME filter[ev.entity] = "include" PROVE Types(evs2, ev.entity) = Types(evs, ev.entity) \cup {ev.type}
  <2>1. \A x : x \in Types(evs2, ev.entity) <=> x \in Types(evs, ev.entity) \cup {ev.type}
    BY <1>1, <1>3 DEF Types
  <2> QED
    BY <2>1
<1> QED
  BY <1>2, <1>3

\* All nests and is shown if what is new does and is.
LEMMA EventsAfter ==
    ASSUME NEW evs, NEW ref, EventsOK(evs, ref), NEW ev, NEW evs2, NEW ref2,
           ToldEvent(evs, ref, ev, evs2, ref2),
           \A k \in DOMAIN evs : Nests(evs[k], ev),
           \A k \in DOMAIN evs : Shows(evs2, ref2, evs[k].entity),
           filter[ev.entity] = "include" => Shows(evs2, ref2, ev.entity),
           ev.last <=> IsLast(ev.entity)
    PROVE  EventsOK(evs2, ref2)
<1>0. evs \in Seq(EventType) /\ ref \subseteq DOMAIN evs /\ AllNest(evs) /\ AllShown(evs, ref)
  BY DEF EventsOK
<1>1. /\ evs2 \in Seq(EventType) /\ ref2 \subseteq DOMAIN evs2
      /\ \A k \in DOMAIN evs : k \in DOMAIN evs2 /\ evs2[k] = evs[k]
      /\ \A k \in DOMAIN evs2 : k \in DOMAIN evs \/
           (filter[ev.entity] = "include" /\ k = Len(evs2) /\ evs2[k] = ev /\ \A j \in DOMAIN evs : j < k)
  BY <1>0, ToldFacts
<1>2. AllNest(evs2)
  <2>1. SUFFICES ASSUME NEW i \in DOMAIN evs2, NEW j \in DOMAIN evs2, i < j PROVE Nests(evs2[i], evs2[j])
    BY DEF AllNest
  <2>2. i \in Nat /\ j \in Nat
    BY <1>1
  <2>3. CASE j \in DOMAIN evs
    <3>1. i \in DOMAIN evs
      BY <1>0, <1>1, <2>1, <2>2, <2>3
    <3> QED
      BY <1>0, <1>1, <2>1, <2>3, <3>1 DEF AllNest
  <2>4. CASE j \notin DOMAIN evs
    <3>1. i \in DOMAIN evs
      BY <1>1, <2>1, <2>2, <2>4
    <3> QED
      BY <1>1, <2>4, <3>1
  <2> QED
    BY <2>3, <2>4
<1>3. AllShown(evs2, ref2)
  BY <1>0, <1>1 DEF AllShown
<1> QED
  BY <1>1, <1>2, <1>3 DEF EventsOK

\* What is shown stays so, unless something above it is refused.
LEMMA StillShown ==
    ASSUME NEW evs, NEW ref, NEW ev, NEW evs2, NEW ref2, ToldEvent(evs, ref, ev, evs2, ref2),
           NEW e, Shows(evs, ref, e), ev.type = "enter" => ev.entity \notin Ancestors(e)
    PROVE  Shows(evs2, ref2, e)
<1>1. \A a \in Ancestors(e) : Skips(evs2, ref2, a) => Skips(evs, ref, a)
  BY SkipsFacts
<1> QED
  BY <1>1 DEF Shows

----------------------------------------------------------------------------
(* The child that is visited next.                                         *)

IsNext(os, c) == Last(os).todo # <<>> /\ c = Head(Last(os).todo)

\* All the calls are for what is above it, and none of that is skipped.
LEMMA ChildFacts ==
    ASSUME Forest(entities), NEW evs, NEW ref, NEW os, CallsOK(evs, ref, os),
           NEW c, IsNext(os, c)
    PROVE  /\ c \in DOMAIN entities /\ c \in Nat /\ entities[c].role = "child" /\ c # 1 /\ Parent(c) = Last(os).entity
           /\ c \in Kids(Last(os).entity) /\ c \in Rest(Last(os))
           /\ Ancestors(c) = {os[j].entity : j \in DOMAIN os}
           /\ \A j \in DOMAIN os : os[j].entity \in Ancestors(c) /\ os[j].entity # c /\ ~Skips(evs, ref, os[j].entity)
           /\ \A a \in Ancestors(c) : entities[a].kind # "friend" /\ entities[a].role = "child" /\ ~Skips(evs, ref, a)
<1>0. \A i \in DOMAIN os : \A e : e = os[i].entity => \A x : x \in Ancestors(e) <=> \E j \in 1 .. i - 1 : x = os[j].entity
  BY PathFacts
<1> DEFINE n == Len(os)
           p == os[n].entity
<1>1. /\ n \in Nat /\ n >= 1 /\ DOMAIN os = 1 .. n /\ n \in DOMAIN os /\ Last(os) = os[n]
      /\ \A i \in DOMAIN os :
           /\ os[i].todo \in Seq(Nat) /\ os[i].entity \in DOMAIN entities
           /\ IsContainer(os[i].entity) /\ entities[os[i].entity].role = "child"
           /\ i # n => ~Skips(evs, ref, os[i].entity)
  BY CallFacts
<1>2. VisitCallOK(evs, ref, os, n)
  BY <1>1 DEF CallsOK
<1>3. c \in Rest(os[n]) /\ c \in Kids(p) /\ ~Skips(evs, ref, p)
  <2>1. Increasing(os[n].todo) /\ Rest(os[n]) \subseteq Kids(p) /\ (Skips(evs, ref, p) => os[n].todo = <<>>)
    BY <1>2 DEF VisitCallOK
  <2>2. c \in Elements(os[n].todo)
    BY <1>1, <2>1, TailFacts DEF IsNext
  <2>3. Rest(os[n]) = Elements(os[n].todo)
    BY DEF Rest
  <2>4. ~Skips(evs, ref, p)
    BY <1>1, <2>1 DEF IsNext
  <2> QED
    BY <2>1, <2>2, <2>3, <2>4
<1>4. c \in DOMAIN entities /\ c \in Nat /\ Parent(c) = p /\ entities[c].role = "child"
  BY <1>3, KidsFacts DEF Kids
<1> HIDE DEF n
<1>5. p \in DOMAIN entities /\ p # 0
  BY <1>1 DEF Forest
<1>6. Ancestors(c) = {os[j].entity : j \in 1 .. n}
  <2>2. \A x : x \in Ancestors(p) <=> \E j \in 1 .. n - 1 : x = os[j].entity
    BY <1>0, <1>1
  <2>3. Ancestors(c) = {p} \cup Ancestors(p)
    BY <1>4, <1>5, AncestorsEquation
  <2>4. \A j : j \in 1 .. n <=> j = n \/ j \in 1 .. n - 1
    BY <1>1
  <2> QED
    BY <2>2, <2>3, <2>4
<1>7. \A j \in 1 .. n : os[j].entity \in Ancestors(c) /\ os[j].entity # c
  BY <1>4, <1>6, AncestorsIrreflexive
<1>8. \A j \in 1 .. n : entities[os[j].entity].kind # "friend" /\ entities[os[j].entity].role = "child" /\ ~Skips(evs, ref, os[j].entity)
  BY <1>1, <1>3 DEF IsContainer, VisitedContainers, TemplateKinds, SpecializationKinds, FunctionTemplateKinds
<1>9. c # 1
  BY <1>4, <1>5 DEF Forest, Parent
<1> QED
  BY <1>1, <1>3, <1>4, <1>6, <1>7, <1>8, <1>9 DEF n

\* What the calls are for, or the visit is through with, is not below it.
LEMMA ChildFresh ==
    ASSUME Forest(entities), NEW evs, NEW ref, NEW os, CallsOK(evs, ref, os),
           NEW c, IsNext(os, c),
           NEW e \in DOMAIN entities, (\E i \in DOMAIN os : e = os[i].entity) \/ Through(evs, ref, os, e)
    PROVE  c \notin Line(e)
<1> DEFINE n == Len(os)
<1>1. /\ c \in DOMAIN entities /\ Parent(c) = os[n].entity /\ c \in Rest(os[n])
      /\ Ancestors(c) = {os[j].entity : j \in DOMAIN os}
      /\ \A j \in DOMAIN os : os[j].entity \in Ancestors(c) /\ os[j].entity # c
  BY ChildFacts, CallFacts
<1>2. /\ n \in Nat /\ DOMAIN os = 1 .. n
      /\ \A i \in DOMAIN os :
           /\ os[i].entity \in DOMAIN entities
           /\ i # n => i + 1 \in DOMAIN os /\ i < n /\ entities[os[i + 1].entity].parent = os[i].entity
  BY CallFacts
<1> HIDE DEF n
<1>3. ASSUME NEW i \in DOMAIN os, e = os[i].entity PROVE c \notin Line(e)
  <2>1. \A x : x \in Ancestors(e) <=> \E j \in 1 .. i - 1 : x = os[j].entity
    BY <1>3, PathFacts
  <2>2. \A j \in 1 .. i - 1 : j \in DOMAIN os
    BY <1>2
  <2> QED
    BY <1>1, <1>3, <2>1, <2>2 DEF Line
<1>4. ASSUME NEW i \in DOMAIN os, NEW d \in Line(e), VisitedBy(evs, ref, os, i, d), c \in Line(e) PROVE FALSE
  <2>1. Parent(d) = os[i].entity /\ os[i].entity # 0 /\ d \notin Rest(os[i])
    BY <1>2, <1>4 DEF VisitedBy, Kids, Parent, Forest
  <2>2. CASE i = n
    <3>1. d = c
      BY <1>1, <1>4, <2>1, <2>2, OneSibling
    <3> QED
      BY <1>1, <2>1, <2>2, <3>1
  <2>3. CASE i # n
    <3>1. os[i + 1].entity \in Ancestors(c) /\ Parent(os[i + 1].entity) = os[i].entity /\ i < n
      BY <1>1, <1>2, <2>3 DEF Parent
    <3>2. os[i + 1].entity \in Line(e)
      <4>1. CASE c = e
        BY <3>1, <4>1 DEF Line
      <4>2. CASE c \in Ancestors(e)
        BY <3>1, <4>2, AncestorsTransitive DEF Line
      <4> QED
        BY <1>4, <4>1, <4>2 DEF Line
    <3>3. d = os[i + 1].entity
      BY <1>4, <2>1, <3>1, <3>2, OneSibling
    <3> QED
      BY <1>4, <3>1, <3>3 DEF VisitedBy, n
  <2> QED
    BY <2>2, <2>3
<1> QED
  BY <1>3, <1>4 DEF Through

\* Whatever was told before comes before it.
LEMMA ChildNests ==
    ASSUME Forest(entities), NEW evs, NEW ref, NEW os, CallsOK(evs, ref, os),
           NEW c, IsNext(os, c),
           NEW a, (a.type = "enter" /\ \E i \in DOMAIN os : a.entity = os[i].entity) \/ Through(evs, ref, os, a.entity),
           NEW ev, ev.entity = c
    PROVE  Nests(a, ev)
<1> DEFINE n == Len(os)
<1>1. /\ Parent(c) = os[n].entity /\ c \in Rest(os[n]) /\ c \in Nat
      /\ \A j \in DOMAIN os : os[j].entity \in Ancestors(c)
  BY ChildFacts, CallFacts
<1>2. /\ n \in Nat /\ n \in DOMAIN os
      /\ \A i \in DOMAIN os :
           i # n => i + 1 \in DOMAIN os /\ i < n /\ entities[os[i + 1].entity].parent = os[i].entity
  BY CallFacts
<1> HIDE DEF n
<1>3. ASSUME NEW i \in DOMAIN os, a.type = "enter", a.entity = os[i].entity PROVE Nests(a, ev)
  BY <1>1, <1>3 DEF Nests
<1>4. ASSUME NEW i \in DOMAIN os, NEW d \in Line(a.entity), VisitedBy(evs, ref, os, i, d) PROVE Nests(a, ev)
  <2>1. Parent(d) = os[i].entity /\ d \in Kids(os[i].entity) \ Rest(os[i]) /\ d \in Nat
    BY <1>4, KidsFacts DEF VisitedBy
  <2>2. VisitCallOK(evs, ref, os, i)
    BY DEF CallsOK
  <2>3. CASE i = n
    <3>1. d < c
      BY <1>1, <2>1, <2>2, <2>3 DEF VisitCallOK
    <3> QED
      BY <1>1, <1>4, <2>1, <2>3, <3>1 DEF Nests, Before, Line
  <2>4. CASE i # n
    <3> DEFINE y == os[i + 1].entity
    <3>1. i < n /\ y \in Ancestors(c) /\ Parent(y) = os[i].entity
      BY <1>1, <1>2, <2>4 DEF Parent
    <3>2. y \in Kids(os[i].entity) /\ d <= y /\ d # y
      BY <1>4, <2>1, <2>2, <3>1 DEF VisitCallOK, VisitedBy, n
    <3>3. d < y
      <4>1. y \in Nat
        BY <3>2, KidsFacts
      <4> HIDE DEF y
      <4> QED
        BY <2>1, <3>2, <4>1
    <3> QED
      BY <1>4, <2>1, <3>1, <3>3 DEF Nests, Before, Line
  <2> QED
    BY <2>3, <2>4
<1> QED
  BY <1>3, <1>4 DEF Through

----------------------------------------------------------------------------
(* The container that is left.                                             *)

\* Whatever was told before comes before its exit.
LEMMA ExitNests ==
    ASSUME Forest(entities), NEW evs, NEW ref, NEW os, CallsOK(evs, ref, os),
           NEW a, a.entity \in DOMAIN entities,
           (a.type = "enter" /\ \E i \in DOMAIN os : a.entity = os[i].entity) \/ Through(evs, ref, os, a.entity),
           NEW ev, ev.entity = Last(os).entity, ev.type = "exit"
    PROVE  Nests(a, ev)
<1>0. \A i \in DOMAIN os : \A e : e = os[i].entity => \A x : x \in Ancestors(e) <=> \E j \in 1 .. i - 1 : x = os[j].entity
  BY PathFacts
<1> DEFINE n == Len(os)
           c == os[n].entity
<1>1. /\ n \in Nat /\ n \in DOMAIN os /\ DOMAIN os = 1 .. n /\ c \in DOMAIN entities /\ c # 0 /\ ev.entity = c
      /\ \A i \in DOMAIN os :
           i # n => i + 1 \in DOMAIN os /\ i < n /\ entities[os[i + 1].entity].parent = os[i].entity
  <2>1. c \in DOMAIN entities => c # 0
    BY DEF Forest
  <2> QED
    BY <2>1, CallFacts
<1> HIDE DEF n
<1>2. \A x : x \in Ancestors(c) <=> \E j \in 1 .. n - 1 : x = os[j].entity
  <2>1. \A e : e = os[n].entity => \A x : x \in Ancestors(e) <=> \E j \in 1 .. n - 1 : x = os[j].entity
    BY <1>0, <1>1, Zenon
  <2> QED
    BY <2>1, Zenon
<1>3. \A i \in 1 .. n : i # n => i \in 1 .. n - 1 /\ (i + 1 = n \/ i + 1 \in 1 .. n - 1)
  <2>1. n \in Nat
    BY <1>1
  <2> QED
    BY <2>1
<1>4. \A i \in DOMAIN os : i # n => os[i].entity \in Ancestors(c) /\ os[i + 1].entity \in Line(c)
  BY <1>1, <1>2, <1>3 DEF Line
<1>5. ASSUME NEW i \in DOMAIN os, a.type = "enter", a.entity = os[i].entity PROVE Nests(a, ev)
  BY <1>1, <1>4, <1>5 DEF Nests
<1>6. ASSUME NEW i \in DOMAIN os, NEW d \in Line(a.entity), VisitedBy(evs, ref, os, i, d) PROVE Nests(a, ev)
  <2>1. Parent(d) = os[i].entity /\ d \in Kids(os[i].entity) \ Rest(os[i]) /\ d \in Nat /\ d \in DOMAIN entities
    BY <1>6, KidsFacts DEF VisitedBy
  <2>2. VisitCallOK(evs, ref, os, i)
    BY DEF CallsOK
  <2>3. CASE i = n
    <3>1. c \in Ancestors(d)
      BY <1>1, <2>1, <2>3, AncestorsEquation
    <3>2. c \in Ancestors(a.entity)
      BY <1>6, <3>1, AncestorsTransitive DEF Line
    <3> QED
      BY <1>1, <3>2 DEF Nests
  <2>4. CASE i # n
    <3> DEFINE y == os[i + 1].entity
    <3>1. i < n /\ y \in Line(c) /\ Parent(y) = os[i].entity
      BY <1>1, <1>4, <2>4 DEF Parent
    <3>2. y \in Kids(os[i].entity) /\ d <= y /\ d # y
      BY <1>6, <2>1, <2>2, <3>1 DEF VisitCallOK, VisitedBy, n
    <3>3. d < y
      <4>1. y \in Nat
        BY <3>2, KidsFacts
      <4> HIDE DEF y
      <4> QED
        BY <2>1, <3>2, <4>1
    <3> HIDE DEF y
    <3>4. Before(a.entity, c)
      BY <1>6, <2>1, <3>1, <3>3 DEF Before, Line
    <3> QED
      BY <1>1, <3>4 DEF Nests
  <2> QED
    BY <2>3, <2>4
<1> QED
  BY <1>5, <1>6 DEF Through

\* A call goes on to its next child.
GoesOn(os, os2) ==
    \E a \in Accesses : os2 = [os EXCEPT ![Len(os)].todo = Tail(@), ![Len(os)].child_access = a]

\* Nothing else of the calls changes.
LEMMA GoesOnFacts ==
    ASSUME NEW os \in Seq(CallType), os # <<>>, NEW os2, GoesOn(os, os2), Last(os).todo # <<>>
    PROVE  /\ os2 \in Seq(CallType) /\ Len(os2) = Len(os) /\ DOMAIN os2 = DOMAIN os
           /\ \A i \in DOMAIN os : i # Len(os) => os2[i] = os[i]
           /\ os2[Len(os)].entity = os[Len(os)].entity /\ os2[Len(os)].last = os[Len(os)].last
           /\ os2[Len(os)].todo = Tail(os[Len(os)].todo)
<1> DEFINE n == Len(os)
           o == os[n]
<1>1. n \in Nat /\ n \in DOMAIN os /\ DOMAIN os = 1 .. n /\ o \in CallType /\ Last(os) = o
  BY DEF Last
<1>2. PICK a \in Accesses : os2 = [os EXCEPT ![n].todo = Tail(@), ![n].child_access = a]
  BY DEF GoesOn
<1> DEFINE o2 == [o EXCEPT !.todo = Tail(@), !.child_access = a]
<1>3. os2 = [os EXCEPT ![n] = o2]
  BY <1>1, <1>2
<1>4. o2 \in CallType /\ o2.entity = o.entity /\ o2.last = o.last /\ o2.todo = Tail(o.todo)
  <2>1. o.todo \in Seq(Nat) /\ o.todo # <<>>
    BY <1>1 DEF CallType
  <2>2. Tail(o.todo) \in Seq(Nat)
    BY <2>1
  <2> DEFINE s == Tail(o.todo)
             o3 == [o EXCEPT !.todo = s, !.child_access = a]
  <2>3. s \in Seq(Nat) /\ o2 = o3 /\ s = Tail(o.todo)
    BY <2>2
  <2> HIDE DEF s, o, o2
  <2>4. o3 \in CallType /\ o3.entity = o.entity /\ o3.last = o.last /\ o3.todo = s
    BY <1>1, <2>3 DEF CallType
  <2> QED
    BY <2>3, <2>4
<1> HIDE DEF o2
<1>5. os2 \in Seq(CallType) /\ Len(os2) = Len(os) /\ DOMAIN os2 = DOMAIN os
      /\ os2[n] = o2 /\ \A i \in DOMAIN os : i # n => os2[i] = os[i]
  BY <1>1, <1>3, <1>4, ChangedSeq
<1> QED
  BY <1>4, <1>5

\* It goes on with child c: the child is the next call, or is no call at all.
TakesChild(os, os3, c) ==
    \E os2 : /\ GoesOn(os, os2)
             /\ os3 = os2 \/ \E call \in CallType : call.entity = c /\ os3 = Append(os2, call)

\* What TakesChild says of each call.
LEMMA TakesFacts ==
    ASSUME NEW os \in Seq(CallType), os # <<>>, Last(os).todo # <<>>, NEW os3, NEW c, TakesChild(os, os3, c)
    PROVE  /\ os3 \in Seq(CallType) /\ Len(os3) \in {Len(os), Len(os) + 1}
           /\ Len(os3) # Len(os) => os3[Len(os) + 1].entity = c
           /\ \A i \in DOMAIN os : i # Len(os) => os3[i] = os[i]
           /\ os3[Len(os)].entity = os[Len(os)].entity /\ os3[Len(os)].last = os[Len(os)].last
           /\ os3[Len(os)].todo = Tail(os[Len(os)].todo)
<1>1. PICK os2 : GoesOn(os, os2) /\ (os3 = os2 \/ \E call \in CallType : call.entity = c /\ os3 = Append(os2, call))
  BY DEF TakesChild
<1>2. /\ os2 \in Seq(CallType) /\ Len(os2) = Len(os) /\ DOMAIN os2 = DOMAIN os
      /\ \A i \in DOMAIN os : i # Len(os) => os2[i] = os[i]
      /\ os2[Len(os)].entity = os[Len(os)].entity /\ os2[Len(os)].last = os[Len(os)].last
      /\ os2[Len(os)].todo = Tail(os[Len(os)].todo)
  BY <1>1, GoesOnFacts
<1>3. CASE os3 = os2
  BY <1>2, <1>3
<1>4. ASSUME NEW call \in CallType, call.entity = c, os3 = Append(os2, call)
      PROVE  /\ os3 \in Seq(CallType) /\ Len(os3) = Len(os) + 1 /\ os3[Len(os) + 1].entity = c
             /\ \A i \in DOMAIN os : os3[i] = os2[i]
  BY <1>2, <1>4
<1>5. Len(os) \in DOMAIN os
  OBVIOUS
<1> QED
  BY <1>1, <1>2, <1>3, <1>4, <1>5

\* The callback is told about the child; nothing was told about it before.
LEMMA ChildTold ==
    ASSUME Forest(entities), NEW evs, NEW ref, NEW os, Visiting(evs, ref, os),
           NEW c, IsNext(os, c), NEW ev, ev.entity = c, ev.last <=> IsLast(c),
           NEW evs2, NEW ref2, ToldEvent(evs, ref, ev, evs2, ref2)
    PROVE  /\ EventsOK(evs2, ref2)
           /\ Types(evs, c) = {}
           /\ \A j \in DOMAIN os : ~Skips(evs2, ref2, os[j].entity)
           /\ \A e \in DOMAIN entities : (\E i \in DOMAIN os : e = os[i].entity) \/ Through(evs, ref, os, e) => c \notin Line(e)
<1>0. EventsOK(evs, ref) /\ CallsOK(evs, ref, os) /\ ToldOK(evs, ref, os)
  BY DEF Visiting
<1>1. \A e \in DOMAIN entities : (\E i \in DOMAIN os : e = os[i].entity) \/ Through(evs, ref, os, e) => c \notin Line(e)
  BY <1>0, ChildFresh
<1>2. \A k \in DOMAIN evs :
        /\ evs[k].entity \in DOMAIN entities
        /\ (evs[k].type = "enter" /\ \E i \in DOMAIN os : evs[k].entity = os[i].entity) \/ Through(evs, ref, os, evs[k].entity)
  BY <1>0 DEF ToldOK
<1>3. \A k \in DOMAIN evs : c \notin Line(evs[k].entity)
  BY <1>1, <1>2
<1>4. Types(evs, c) = {}
  BY <1>3 DEF Types, Line
<1>5. \A k \in DOMAIN evs : Nests(evs[k], ev)
  BY <1>0, <1>2, ChildNests
<1>6. \A k \in DOMAIN evs : Shows(evs2, ref2, evs[k].entity)
  <2>1. TAKE k \in DOMAIN evs
  <2>2. Shows(evs, ref, evs[k].entity) /\ c \notin Ancestors(evs[k].entity)
    BY <1>0, <1>3 DEF EventsOK, AllShown, Line
  <2> QED
    BY <2>2, StillShown
<1>7. /\ c \in DOMAIN entities /\ entities[c].role = "child"
      /\ \A j \in DOMAIN os : os[j].entity \in Ancestors(c) /\ os[j].entity # c /\ ~Skips(evs, ref, os[j].entity)
      /\ \A a \in Ancestors(c) : entities[a].kind # "friend" /\ entities[a].role = "child" /\ ~Skips(evs, ref, a)
      /\ c \notin Ancestors(c)
  BY <1>0, ChildFacts, AncestorsIrreflexive
<1>8. \A a : Skips(evs2, ref2, a) => Skips(evs, ref, a) \/ a = c
  BY SkipsFacts
<1>9. \A j \in DOMAIN os : ~Skips(evs2, ref2, os[j].entity)
  BY <1>7, <1>8
<1>10. filter[ev.entity] = "include" => Shows(evs2, ref2, ev.entity)
  BY <1>7, <1>8 DEF Shows, Line
<1>11. EventsOK(evs2, ref2)
  BY <1>0, <1>5, <1>6, <1>10, EventsAfter
<1> QED
  BY <1>1, <1>4, <1>9, <1>11

\* The calls behind, and what the visit is through with, after one more child c.
LEMMA ChildTaken ==
    ASSUME Forest(entities), NEW evs, NEW ref, NEW os, CallsOK(evs, ref, os), NEW c, IsNext(os, c),
           NEW evs2, NEW ref2, \A j \in DOMAIN os : ~Skips(evs2, ref2, os[j].entity),
           NEW os3, TakesChild(os, os3, c)
    PROVE  /\ \A i \in DOMAIN os : i \in DOMAIN os3 /\ os3[i].entity = os[i].entity /\ VisitCallOK(evs2, ref2, os3, i)
           /\ \A i \in DOMAIN os : \A d :
                VisitedBy(evs2, ref2, os3, i, d) <=> VisitedBy(evs, ref, os, i, d) \/ (i = Len(os) /\ d = c /\ Len(os3) = Len(os))
<1> DEFINE n == Len(os)
           m == Len(os3)
           o == os[n]
           e == o.entity
<1>1. /\ os \in Seq(CallType) /\ n \in Nat /\ n >= 1 /\ DOMAIN os = 1 .. n /\ n \in DOMAIN os /\ Last(os) = o
      /\ o.todo \in Seq(Nat)
      /\ \A i \in DOMAIN os : i # n => i + 1 \in DOMAIN os /\ i < n /\ ~Skips(evs, ref, os[i].entity)
  BY CallFacts
<1>2. o.todo # <<>> /\ c = Head(o.todo)
  BY <1>1 DEF IsNext
<1>3. os # <<>>
  BY <1>1
<1>4. /\ \A i \in DOMAIN os : i # n => os3[i] = os[i]
      /\ os3[n].entity = e /\ os3[n].last = o.last /\ os3[n].todo = Tail(o.todo)
  BY <1>1, <1>2, <1>3, TakesFacts
<1>5. \A i \in DOMAIN os : os3[i].entity = os[i].entity
  BY <1>4
<1>6. \A i \in DOMAIN os : VisitCallOK(evs, ref, os, i)
  BY DEF CallsOK
<1>7. /\ e \in DOMAIN entities /\ IsContainer(e) /\ entities[e].role = "child" /\ (o.last <=> IsLast(e))
      /\ Increasing(o.todo) /\ Rest(o) \subseteq Kids(e) /\ \A d \in Kids(e) \ Rest(o), t \in Rest(o) : d < t
  BY <1>1, <1>6 DEF VisitCallOK
<1>8. /\ c \in Rest(o) /\ Increasing(Tail(o.todo)) /\ Rest(os3[n]) = Rest(o) \ {c}
      /\ \A t \in Rest(os3[n]) : c < t
  BY <1>1, <1>2, <1>4, <1>7, TailFacts DEF Rest
<1>9. \A k \in Kids(e) : k \in Nat
  BY KidsFacts
<1>10. ~Skips(evs, ref, e)
  BY <1>1, <1>2, <1>6 DEF VisitCallOK
<1>a. (m = n \/ m = n + 1) /\ DOMAIN os3 = 1 .. m /\ (m # n => os3[n + 1].entity = c)
  <2>1. Last(os).todo # <<>>
    BY <1>1, <1>2
  <2>2. os3 \in Seq(CallType)
    BY <1>1, <1>3, <2>1, TakesFacts
  <2>3. m \in {n, n + 1}
    BY <1>1, <1>3, <2>1, TakesFacts
  <2>4. m # n => os3[n + 1].entity = c
    BY <1>1, <1>3, <2>1, TakesFacts
  <2> QED
    BY <2>2, <2>3, <2>4
<1>b. n = Len(os) /\ m = Len(os3)
  OBVIOUS
<1> HIDE DEF n, m, o, e
<1>11. /\ \A d : d \in Kids(e) \ Rest(os3[n]) <=> d = c \/ d \in Kids(e) \ Rest(o)
       /\ Rest(os3[n]) \subseteq Kids(e)
  BY <1>7, <1>8
<1>12. \A d \in Kids(e) \ Rest(os3[n]) : d <= c
  BY <1>7, <1>8, <1>9, <1>11
<1>13. \A d \in Kids(e) \ Rest(os3[n]), t \in Rest(os3[n]) : d < t
  BY <1>7, <1>8, <1>11
<1>14. n < m => os3[n + 1].entity = c
  BY <1>1, <1>a
<1>15. VisitCallOK(evs2, ref2, os3, n)
  <2>1. os3[n].entity = e /\ (os3[n].last <=> IsLast(e)) /\ Increasing(os3[n].todo) /\ ~Skips(evs2, ref2, e)
    BY <1>1, <1>4, <1>7, <1>8 DEF e, o
  <2> QED
    BY <1>7, <1>8, <1>11, <1>12, <1>13, <1>14, <1>b, <2>1 DEF VisitCallOK
<1>16. \A i \in DOMAIN os : i # n => i < m /\ os3[i] = os[i] /\ os3[i + 1].entity = os[i + 1].entity /\ i < n
  <2>1. \A i \in DOMAIN os : i # n => i < m
    BY <1>1, <1>a
  <2> QED
    BY <1>1, <1>4, <1>5, <2>1
<1>17. ASSUME NEW i \in DOMAIN os, i # n PROVE VisitCallOK(evs2, ref2, os3, i)
  <2>1. ~Skips(evs2, ref2, os[i].entity) /\ VisitCallOK(evs, ref, os, i) /\ i < Len(os)
    BY <1>6, <1>16, <1>17, <1>b
  <2> QED
    BY <1>16, <1>17, <1>b, <2>1 DEF VisitCallOK
<1>18. \A i \in DOMAIN os : i \in DOMAIN os3
  BY <1>1, <1>a
<1>19. ASSUME NEW i \in DOMAIN os, i # n, NEW d PROVE VisitedBy(evs2, ref2, os3, i, d) <=> VisitedBy(evs, ref, os, i, d)
  <2>1. ~Skips(evs2, ref2, os[i].entity) /\ ~Skips(evs, ref, os[i].entity) /\ i < Len(os)
    BY <1>1, <1>16, <1>19, <1>b
  <2> QED
    BY <1>16, <1>19, <1>b, <2>1 DEF VisitedBy
<1>20. ASSUME NEW d PROVE VisitedBy(evs2, ref2, os3, n, d) <=> VisitedBy(evs, ref, os, n, d) \/ (d = c /\ m = n)
  <2>1. ~Skips(evs2, ref2, os3[n].entity) /\ ~Skips(evs, ref, os[n].entity) /\ os[n].entity = e /\ os3[n].entity = e /\ os[n] = o
    BY <1>1, <1>4, <1>10 DEF e, o
  <2>2. ~ (n < Len(os))
    BY <1>1, <1>b
  <2>3. VisitedBy(evs, ref, os, n, d) <=> d \in Kids(e) \ Rest(o)
    BY <2>1, <2>2 DEF VisitedBy
  <2>4. VisitedBy(evs2, ref2, os3, n, d) <=> d \in Kids(e) \ Rest(os3[n]) /\ (n < m => d # c)
    BY <1>14, <1>b, <2>1 DEF VisitedBy
  <2>5. n < m <=> m # n
    BY <1>1, <1>a
  <2> QED
    BY <1>8, <1>11, <2>3, <2>4, <2>5
<1> QED
  BY <1>5, <1>15, <1>17, <1>18, <1>19, <1>20, <1>b

\* The visit of a container begins with all its children to do, or with none.
Begins(evs, ref, call, c) ==
    /\ call \in CallType /\ call.entity = c
    /\ call.last <=> IsLast(c)
    /\ Skips(evs, ref, c) => call.todo = <<>>
    /\ ~Skips(evs, ref, c) => call.todo = ChildrenOf(c, "child")

BeginsCall(os, os3, call) == \E os2 : GoesOn(os, os2) /\ os3 = Append(os2, call)

\* A call that begins is one that is allowed, and it is through with nothing.
LEMMA CallBegun ==
    ASSUME Forest(entities), NEW evs, NEW ref, NEW c \in DOMAIN entities, IsContainer(c), entities[c].role = "child",
           NEW call, Begins(evs, ref, call, c), NEW os, NEW i \in Nat, Len(os) = i, os[i] = call
    PROVE  VisitCallOK(evs, ref, os, i) /\ \A d : ~VisitedBy(evs, ref, os, i, d)
<1>1. call.entity = c /\ (call.last <=> IsLast(c))
  BY DEF Begins
<1>2. Increasing(call.todo) /\ Rest(call) \subseteq Kids(c) /\ (Skips(evs, ref, c) => call.todo = <<>>)
      /\ (~Skips(evs, ref, c) => Rest(call) = Kids(c)) /\ (Skips(evs, ref, c) => Rest(call) = {})
  <2>1. CASE Skips(evs, ref, c)
    <3>1. call.todo = <<>>
      BY <2>1 DEF Begins
    <3>2. Increasing(<<>>) /\ Elements(<<>>) = {}
      BY DEF Increasing, Elements
    <3> QED
      BY <2>1, <3>1, <3>2 DEF Rest
  <2>2. CASE ~Skips(evs, ref, c)
    <3>1. call.todo = ChildrenOf(c, "child")
      BY <2>2 DEF Begins
    <3>2. Increasing(ChildrenOf(c, "child")) /\ Elements(ChildrenOf(c, "child")) = Kids(c)
      BY KidsFacts
    <3> QED
      BY <2>2, <3>1, <3>2 DEF Rest
  <2> QED
    BY <2>1, <2>2
<1>3. \A d \in Kids(c) \ Rest(call), t \in Rest(call) : d < t
  BY <1>2
<1>4. ~ (i < i)
  OBVIOUS
<1>5. VisitCallOK(evs, ref, os, i)
  BY <1>1, <1>2, <1>3, <1>4 DEF VisitCallOK
<1>6. \A d : ~VisitedBy(evs, ref, os, i, d)
  BY <1>1, <1>2 DEF VisitedBy
<1> QED
  BY <1>5, <1>6

\* A container is entered.
LEMMA ContainerEntered ==
    ASSUME Forest(entities), NEW evs, NEW ref, NEW os, Visiting(evs, ref, os),
           NEW c, IsNext(os, c), IsContainer(c),
           NEW ev, ev.entity = c, ev.type = "enter", ev.last <=> IsLast(c),
           NEW evs2, NEW ref2, ToldEvent(evs, ref, ev, evs2, ref2),
           NEW call, Begins(evs2, ref2, call, c), NEW os3, BeginsCall(os, os3, call)
    PROVE  Visiting(evs2, ref2, os3)
<1> DEFINE n == Len(os)
<1>0. EventsOK(evs, ref) /\ CallsOK(evs, ref, os) /\ ToldOK(evs, ref, os) /\ \A k \in ref : evs[k].type = "enter"
  BY DEF Visiting
<1>1. /\ os \in Seq(CallType) /\ n \in Nat /\ n >= 1 /\ DOMAIN os = 1 .. n /\ 1 \in DOMAIN os
      /\ os[1].entity = 1 /\ Last(os) = os[n]
  BY <1>0, CallFacts DEF CallsOK
<1>2. /\ EventsOK(evs2, ref2) /\ Types(evs, c) = {}
      /\ \A j \in DOMAIN os : ~Skips(evs2, ref2, os[j].entity)
      /\ \A e \in DOMAIN entities : (\E i \in DOMAIN os : e = os[i].entity) \/ Through(evs, ref, os, e) => c \notin Line(e)
  BY ChildTold
<1>3. c \in DOMAIN entities /\ entities[c].role = "child" /\ \A j \in DOMAIN os : os[j].entity # c
  BY <1>0, ChildFacts
<1>4. call \in CallType /\ call.entity = c
  BY DEF Begins
<1>5. TakesChild(os, os3, c)
  BY <1>4 DEF TakesChild, BeginsCall
<1>6. /\ \A i \in DOMAIN os : i \in DOMAIN os3 /\ os3[i].entity = os[i].entity /\ VisitCallOK(evs2, ref2, os3, i)
      /\ \A i \in DOMAIN os : \A d :
           VisitedBy(evs2, ref2, os3, i, d) <=> VisitedBy(evs, ref, os, i, d) \/ (i = n /\ d = c /\ Len(os3) = n)
  BY <1>0, <1>2, <1>5, ChildTaken
<1>7. os3 \in Seq(CallType) /\ Len(os3) = n + 1 /\ DOMAIN os3 = 1 .. n + 1 /\ os3[n + 1] = call
  <2>1. os # <<>> /\ Last(os).todo # <<>>
    BY <1>1 DEF IsNext
  <2>2. PICK os2 : GoesOn(os, os2) /\ os3 = Append(os2, call)
    BY DEF BeginsCall
  <2>3. os2 \in Seq(CallType) /\ Len(os2) = n
    BY <1>1, <2>1, <2>2, GoesOnFacts
  <2> QED
    BY <1>4, <2>2, <2>3, AppendedSeq
<1>8. VisitCallOK(evs2, ref2, os3, n + 1) /\ \A d : ~VisitedBy(evs2, ref2, os3, n + 1, d)
  <2>1. n + 1 \in Nat
    BY <1>1
  <2> QED
    BY <1>3, <1>7, <2>1, CallBegun
<1>n. \A i : i \in 1 .. n + 1 <=> i \in 1 .. n \/ i = n + 1
  BY <1>1
<1>m. Len(os3) # n /\ Len(os3) >= 1
  <2>1. n \in Nat /\ Len(os3) = n + 1
    BY <1>1, <1>7
  <2> HIDE DEF n
  <2> QED
    BY <2>1
<1> HIDE DEF n
<1>9. CallsOK(evs2, ref2, os3)
  BY <1>1, <1>6, <1>7, <1>8, <1>n, <1>m DEF CallsOK
<1>10. \A e : Through(evs2, ref2, os3, e) <=> Through(evs, ref, os, e)
  BY <1>1, <1>6, <1>7, <1>8, <1>n, <1>m DEF Through
<1>11. /\ \A k \in DOMAIN evs : k \in DOMAIN evs2 /\ evs2[k] = evs[k]
       /\ \A k \in DOMAIN evs2 : k \in DOMAIN evs \/ evs2[k] = ev
       /\ \A k \in ref2 : k \in ref \/ evs2[k] = ev
  BY ToldFacts
<1>12. /\ \A e : e # c => Types(evs2, e) = Types(evs, e)
       /\ filter[c] = "include" => Types(evs2, c) = {"enter"}
  <2>1. filter[c] = "include" => Types(evs2, c) = Types(evs, c) \cup {"enter"}
    BY TypesFacts
  <2>2. \A e : e # c => Types(evs2, e) = Types(evs, e)
    BY TypesFacts
  <2> QED
    BY <1>2, <2>1, <2>2
<1>13. \A e : Shows(evs2, ref2, e) => Shows(evs, ref, e)
  BY SkipsFacts
<1>14. ToldOK(evs2, ref2, os3)
  <2>1. ASSUME NEW k \in DOMAIN evs2
        PROVE  /\ evs2[k].entity \in DOMAIN entities
               /\ \/ evs2[k].type = "enter" /\ \E i \in DOMAIN os3 : evs2[k].entity = os3[i].entity
                  \/ Through(evs2, ref2, os3, evs2[k].entity)
    <3>1. CASE k \in DOMAIN evs
      BY <1>0, <1>6, <1>10, <1>11, <3>1 DEF ToldOK
    <3>2. CASE k \notin DOMAIN evs
      BY <1>3, <1>4, <1>7, <1>11, <1>n, <3>2
    <3> QED
      BY <3>1, <3>2
  <2>2. ASSUME NEW i \in DOMAIN os3, filter[os3[i].entity] = "include" PROVE Types(evs2, os3[i].entity) = {"enter"}
    <3>1. CASE i \in DOMAIN os
      BY <1>0, <1>3, <1>6, <1>12, <2>2, <3>1 DEF ToldOK
    <3>2. CASE i = n + 1
      BY <1>4, <1>7, <1>12, <2>2, <3>2
    <3> QED
      BY <1>1, <1>7, <1>n, <3>1, <3>2
  <2>3. ASSUME NEW e \in DOMAIN entities, Through(evs2, ref2, os3, e), Shows(evs2, ref2, e) PROVE Types(evs2, e) = Whole(e)
    <3>1. Through(evs, ref, os, e) /\ Shows(evs, ref, e) /\ e # c
      BY <1>2, <1>10, <1>13, <2>3 DEF Line
    <3> QED
      BY <1>0, <1>12, <3>1 DEF ToldOK
  <2> QED
    BY <2>1, <2>2, <2>3 DEF ToldOK
<1>15. \A k \in ref2 : evs2[k].type = "enter"
  BY <1>0, <1>11 DEF EventsOK
<1> QED
  BY <1>2, <1>9, <1>14, <1>15 DEF Visiting

\* Below an entity that is neither a container nor a friend nothing is visited.
LEMMA NothingBelow ==
    ASSUME Forest(entities), NEW cs, Placed(cs, entities), NEW evs, NEW ref, NEW c \in DOMAIN entities, ~IsContainer(c),
           NEW e \in DOMAIN entities, c \in Ancestors(e)
    PROVE  ~Shows(evs, ref, e)
<1>1. PICK d \in Line(e) : d \in DOMAIN entities /\ Parent(d) = c
  BY ChildOnTheWay
<1>2. SUFFICES ASSUME Shows(evs, ref, e) PROVE FALSE
  OBVIOUS
<1>3. entities[d].role = "child" /\ entities[c].kind # "friend"
  BY <1>1, <1>2 DEF Shows
<1>4. c # 0 /\ entities[d].parent = c
  BY <1>1 DEF Forest, Parent
<1>5. entities[c].kind \in OwnerKinds
  BY <1>1, <1>3, <1>4 DEF Placed, Owns
<1> QED
  BY <1>3, <1>5 DEF OwnerKinds, IsContainer, VisitedContainers

\* A child that is no container has been visited.
LEMMA LeafVisited ==
    ASSUME Forest(entities), NEW cs, Placed(cs, entities), NEW evs, NEW ref, NEW os, Visiting(evs, ref, os),
           NEW c, IsNext(os, c), ~IsContainer(c),
           NEW ev, ev.entity = c, ev.type = "leaf", ev.last <=> IsLast(c),
           NEW evs2, ToldEvent(evs, ref, ev, evs2, ref),
           NEW os3, GoesOn(os, os3)
    PROVE  Visiting(evs2, ref, os3)
<1> DEFINE n == Len(os)
<1>0. EventsOK(evs, ref) /\ CallsOK(evs, ref, os) /\ ToldOK(evs, ref, os) /\ \A k \in ref : evs[k].type = "enter"
  BY DEF Visiting
<1>1. /\ os \in Seq(CallType) /\ n \in Nat /\ n >= 1 /\ DOMAIN os = 1 .. n /\ 1 \in DOMAIN os /\ n \in DOMAIN os
      /\ os[1].entity = 1 /\ Last(os) = os[n]
  <2>1. os[1].entity = 1
    BY <1>0 DEF CallsOK
  <2> QED
    BY <1>0, <2>1, CallFacts
<1>2. /\ EventsOK(evs2, ref) /\ Types(evs, c) = {}
      /\ \A j \in DOMAIN os : ~Skips(evs2, ref, os[j].entity)
      /\ \A e \in DOMAIN entities : (\E i \in DOMAIN os : e = os[i].entity) \/ Through(evs, ref, os, e) => c \notin Line(e)
  BY ChildTold
<1>3. c \in DOMAIN entities /\ \A j \in DOMAIN os : os[j].entity # c
  BY <1>0, ChildFacts
<1>5. TakesChild(os, os3, c)
  BY DEF TakesChild
<1>6. /\ \A i \in DOMAIN os : i \in DOMAIN os3 /\ os3[i].entity = os[i].entity /\ VisitCallOK(evs2, ref, os3, i)
      /\ \A i \in DOMAIN os : \A d :
           VisitedBy(evs2, ref, os3, i, d) <=> VisitedBy(evs, ref, os, i, d) \/ (i = n /\ d = c /\ Len(os3) = n)
  BY SMTT(20), <1>0, <1>2, <1>5, ChildTaken
<1>7. os3 \in Seq(CallType) /\ Len(os3) = n /\ DOMAIN os3 = DOMAIN os
  <2>1. os # <<>> /\ Last(os).todo # <<>>
    BY <1>1 DEF IsNext
  <2> QED
    BY <1>1, <2>1, GoesOnFacts
<1> HIDE DEF n
<1>9. CallsOK(evs2, ref, os3)
  BY <1>1, <1>6, <1>7 DEF CallsOK
<1>10. \A e : Through(evs2, ref, os3, e) <=> Through(evs, ref, os, e) \/ c \in Line(e)
  BY <1>1, <1>6, <1>7 DEF Through
<1>11. /\ \A k \in DOMAIN evs : k \in DOMAIN evs2 /\ evs2[k] = evs[k]
       /\ \A k \in DOMAIN evs2 : k \in DOMAIN evs \/ evs2[k] = ev
       /\ \A k \in ref : evs2[k] = evs[k]
  BY <1>0, ToldFacts DEF EventsOK
<1>12. /\ \A e : e # c => Types(evs2, e) = Types(evs, e)
       /\ filter[c] = "include" => Types(evs2, c) = {"leaf"}
  <2>1. filter[c] = "include" => Types(evs2, c) = Types(evs, c) \cup {"leaf"}
    BY TypesFacts
  <2>2. \A e : e # c => Types(evs2, e) = Types(evs, e)
    BY TypesFacts
  <2> QED
    BY <1>2, <2>1, <2>2
<1>13. \A e : Shows(evs2, ref, e) => Shows(evs, ref, e)
  BY SkipsFacts
<1>14. ToldOK(evs2, ref, os3)
  <2>1. ASSUME NEW k \in DOMAIN evs2
        PROVE  /\ evs2[k].entity \in DOMAIN entities
               /\ \/ evs2[k].type = "enter" /\ \E i \in DOMAIN os3 : evs2[k].entity = os3[i].entity
                  \/ Through(evs2, ref, os3, evs2[k].entity)
    <3>1. CASE k \in DOMAIN evs
      BY <1>0, <1>6, <1>10, <1>11, <3>1 DEF ToldOK
    <3>2. CASE k \notin DOMAIN evs
      BY <1>3, <1>10, <1>11, <3>2 DEF Line
    <3> QED
      BY <3>1, <3>2
  <2>2. ASSUME NEW i \in DOMAIN os3, filter[os3[i].entity] = "include" PROVE Types(evs2, os3[i].entity) = {"enter"}
    BY <1>0, <1>3, <1>6, <1>7, <1>12, <2>2 DEF ToldOK
  <2>3. ASSUME NEW e \in DOMAIN entities, Through(evs2, ref, os3, e), Shows(evs2, ref, e) PROVE Types(evs2, e) = Whole(e)
    <3>1. CASE e = c
      BY <1>12, <2>3, <3>1 DEF Shows, Whole
    <3>2. CASE e # c
      <4>1. c \notin Ancestors(e)
        BY <1>3, <2>3, NothingBelow
      <4>2. Through(evs, ref, os, e) /\ Shows(evs, ref, e)
        BY <1>10, <1>13, <2>3, <3>2, <4>1 DEF Line
      <4> QED
        BY <1>0, <1>12, <3>2, <4>2 DEF ToldOK
    <3> QED
      BY <3>1, <3>2
  <2> QED
    BY <2>1, <2>2, <2>3 DEF ToldOK
<1>15. \A k \in ref : evs2[k].type = "enter"
  BY <1>0, <1>11
<1> QED
  BY <1>2, <1>9, <1>14, <1>15 DEF Visiting

\* The children of the last call are all done.
AtEnd(os, o) == Last(os).todo = <<>> /\ Last(os).entity = o

\* The callback is told that a container is left: there is nothing more to tell of it.
LEMMA ExitTold ==
    ASSUME Forest(entities), NEW evs, NEW ref, NEW os, Visiting(evs, ref, os), NEW o, AtEnd(os, o),
           NEW ev, ev.entity = o, ev.type = "exit", ev.last <=> IsLast(o),
           NEW evs2, NEW ref2, ToldEvent(evs, ref, ev, evs2, ref2)
    PROVE  /\ EventsOK(evs2, ref2)
           /\ \A a : Skips(evs2, ref2, a) <=> Skips(evs, ref, a)
           /\ \A e \in DOMAIN entities : o \in Line(e) /\ Shows(evs2, ref2, e) => Types(evs2, e) = Whole(e)
<1> DEFINE n == Len(os)
<1>0. EventsOK(evs, ref) /\ CallsOK(evs, ref, os) /\ ToldOK(evs, ref, os)
  BY DEF Visiting
<1>1. /\ n \in DOMAIN os /\ DOMAIN os = 1 .. n /\ n \in Nat /\ Last(os) = os[n]
      /\ \A i \in DOMAIN os :
           /\ os[i].entity \in DOMAIN entities
           /\ IsContainer(os[i].entity) /\ entities[os[i].entity].role = "child"
           /\ i # n => ~Skips(evs, ref, os[i].entity)
  BY <1>0, CallFacts
<1>2. \A i \in DOMAIN os : \A e : e = os[i].entity => \A x : x \in Ancestors(e) <=> \E j \in 1 .. i - 1 : x = os[j].entity
  BY <1>0, PathFacts
<1>o. os[n].entity = o /\ os[n].todo = <<>>
  BY <1>1 DEF AtEnd
<1>3. o \in DOMAIN entities /\ o # 0 /\ IsContainer(o) /\ entities[o].role = "child"
  BY <1>1, <1>o DEF Forest
<1>5. Rest(os[n]) = {}
  BY <1>o DEF Rest, Elements
<1>n. \A j \in 1 .. n - 1 : j \in DOMAIN os /\ j # n
  BY <1>1
<1> HIDE DEF n
<1>6. \A a \in Ancestors(o) : entities[a].kind # "friend" /\ entities[a].role = "child" /\ ~Skips(evs, ref, a)
  <2>1. TAKE a \in Ancestors(o)
  <2>2. PICK j \in 1 .. n - 1 : a = os[j].entity
    BY <1>1, <1>2, <1>o
  <2> QED
    BY <1>1, <1>n, <2>2 DEF IsContainer, VisitedContainers, TemplateKinds, SpecializationKinds, FunctionTemplateKinds
<1>7. \A a : Skips(evs2, ref2, a) <=> Skips(evs, ref, a)
  BY SkipsFacts
<1>8. \A k \in DOMAIN evs :
        /\ evs[k].entity \in DOMAIN entities
        /\ (evs[k].type = "enter" /\ \E i \in DOMAIN os : evs[k].entity = os[i].entity) \/ Through(evs, ref, os, evs[k].entity)
  BY <1>0 DEF ToldOK
<1>9. \A k \in DOMAIN evs : Nests(evs[k], ev)
  <2>1. ev.entity = Last(os).entity
    BY DEF AtEnd
  <2> QED
    BY <1>0, <1>8, <2>1, ExitNests
<1>10. \A k \in DOMAIN evs : Shows(evs2, ref2, evs[k].entity)
  BY <1>0, StillShown DEF EventsOK, AllShown
<1>11. filter[ev.entity] = "include" => Shows(evs2, ref2, ev.entity)
  BY <1>3, <1>6, <1>7 DEF Shows, Line
<1>13. EventsOK(evs2, ref2)
  BY <1>0, <1>9, <1>10, <1>11, EventsAfter
<1>14. /\ \A e : e # o => Types(evs2, e) = Types(evs, e)
       /\ filter[o] = "include" => Types(evs2, o) = Types(evs, o) \cup {"exit"}
  BY TypesFacts
<1>15. ASSUME NEW e \in DOMAIN entities, o \in Line(e), Shows(evs2, ref2, e) PROVE Types(evs2, e) = Whole(e)
  <2>1. CASE e = o
    <3>1. filter[o] = "include"
      BY <1>15, <2>1 DEF Shows
    <3>2. Types(evs, o) = {"enter"}
      BY <1>0, <1>1, <1>o, <3>1 DEF ToldOK
    <3> QED
      BY <1>3, <1>14, <2>1, <3>1, <3>2 DEF Whole
  <2>2. CASE e # o
    <3>1. o \in Ancestors(e)
      BY <1>15, <2>2 DEF Line
    <3>2. PICK d \in Line(e) : d \in DOMAIN entities /\ Parent(d) = o
      BY <3>1, ChildOnTheWay
    <3>3. d \in Kids(o) /\ ~Skips(evs, ref, o)
      BY <1>7, <1>15, <3>1, <3>2 DEF Shows, Kids, Parent
    <3>4. ~ (n < Len(os))
      BY <1>1 DEF n
    <3>5. VisitedBy(evs, ref, os, n, d)
      BY <1>o, <1>5, <3>3, <3>4 DEF VisitedBy
    <3>6. Through(evs, ref, os, e) /\ Shows(evs, ref, e)
      BY <1>1, <1>15, <3>2, <3>5, SkipsFacts DEF Through
    <3> QED
      BY <1>0, <1>14, <2>2, <3>6 DEF ToldOK
  <2> QED
    BY <2>1, <2>2
<1> QED
  BY <1>7, <1>13, <1>15

\* A container is left that is the child of another.
Leaves(os, os3) == os3 = Front(os) /\ os3 # <<>>

\* Its parent is through with it then, and the visit is under way.
LEMMA ContainerLeft ==
    ASSUME Forest(entities), NEW evs, NEW ref, NEW os, Visiting(evs, ref, os), NEW o, AtEnd(os, o),
           NEW ev, ev.entity = o, ev.type = "exit", ev.last <=> IsLast(o),
           NEW evs2, ToldEvent(evs, ref, ev, evs2, ref), NEW os3, Leaves(os, os3)
    PROVE  Visiting(evs2, ref, os3)
<1> DEFINE n == Len(os)
           m == n - 1
<1>0. EventsOK(evs, ref) /\ CallsOK(evs, ref, os) /\ ToldOK(evs, ref, os) /\ \A k \in ref : evs[k].type = "enter"
  BY DEF Visiting
<1>1. /\ os \in Seq(CallType) /\ n \in Nat /\ n >= 1 /\ DOMAIN os = 1 .. n
      /\ Last(os) = os[n] /\ os[n].entity \in DOMAIN entities
      /\ \A i \in DOMAIN os : i # n => i + 1 \in DOMAIN os /\ i < n /\ ~Skips(evs, ref, os[i].entity)
                                       /\ os[i + 1].entity \in Kids(os[i].entity) \ Rest(os[i])
  BY <1>0, CallFacts
<1>2. os3 \in Seq(CallType) /\ Len(os3) = m /\ DOMAIN os3 = 1 .. m /\ \A i \in 1 .. m : os3[i] = os[i]
  BY <1>1 DEF Front, Leaves
<1>a. n \in Nat /\ m # 0 /\ m = n - 1 /\ n >= 1 /\ n = Len(os) /\ m = Len(os3)
  BY <1>1, <1>2 DEF Leaves
<1> HIDE DEF n, m
<1>3. m \in Nat /\ m >= 1 /\ n = m + 1 /\ m # n /\ m \in 1 .. m /\ n \in 1 .. n /\ 1 \in 1 .. m
      /\ \A i : i \in 1 .. n <=> i \in 1 .. m \/ i = n
  BY <1>a
<1>4. \A i \in 1 .. m : i \in 1 .. n /\ i # n /\ ~ (m < m) /\ (i # m => i + 1 \in 1 .. m /\ i < m /\ i < n)
  BY <1>3
<1>o. os[n].entity = o /\ os[n].todo = <<>> /\ os[m + 1].entity = o
  BY <1>1, <1>3 DEF AtEnd
<1>5. /\ EventsOK(evs2, ref)
      /\ \A a : Skips(evs2, ref, a) <=> Skips(evs, ref, a)
      /\ \A e \in DOMAIN entities : o \in Line(e) /\ Shows(evs2, ref, e) => Types(evs2, e) = Whole(e)
  BY ExitTold
<1>6. \A i \in 1 .. n : VisitCallOK(evs, ref, os, i)
  BY <1>0, <1>1 DEF CallsOK
<1>7. \A i \in 1 .. m : ~Skips(evs2, ref, os[i].entity) /\ ~Skips(evs, ref, os[i].entity)
  BY <1>1, <1>4, <1>5
<1>8. CallsOK(evs2, ref, os3)
  <2>1. ASSUME NEW i \in 1 .. m, i # m PROVE VisitCallOK(evs2, ref, os3, i)
    <3>1. os3[i] = os[i] /\ os3[i + 1] = os[i + 1] /\ i < n /\ VisitCallOK(evs, ref, os, i) /\ ~Skips(evs2, ref, os[i].entity)
      BY <1>2, <1>4, <1>6, <1>7, <2>1
    <3> QED
      BY <1>a, <3>1 DEF VisitCallOK
  <2>2. VisitCallOK(evs2, ref, os3, m)
    <3>1. os3[m] = os[m] /\ VisitCallOK(evs, ref, os, m) /\ ~Skips(evs2, ref, os[m].entity) /\ ~ (m < m)
      BY <1>2, <1>3, <1>4, <1>6, <1>7
    <3> QED
      BY <1>a, <3>1 DEF VisitCallOK
  <2>3. os3[1].entity = 1
    BY <1>0, <1>2, <1>3 DEF CallsOK
  <2> QED
    BY <1>2, <1>3, <1>a, <2>1, <2>2, <2>3 DEF CallsOK
<1>9. o \in Kids(os[m].entity) \ Rest(os[m]) /\ o \in DOMAIN entities /\ o \in Line(o)
  BY <1>1, <1>3, <1>4, <1>o DEF Line
<1>10. \A i \in 1 .. m : \A d : i # m => (VisitedBy(evs2, ref, os3, i, d) <=> VisitedBy(evs, ref, os, i, d))
  <2>1. TAKE i \in 1 .. m
  <2> TAKE d
  <2>2. SUFFICES ASSUME i # m PROVE VisitedBy(evs2, ref, os3, i, d) <=> VisitedBy(evs, ref, os, i, d)
    OBVIOUS
  <2>3. os3[i] = os[i] /\ os3[i + 1] = os[i + 1] /\ i < n /\ i < m /\ ~Skips(evs2, ref, os[i].entity) /\ ~Skips(evs, ref, os[i].entity)
    BY <1>2, <1>4, <1>7, <2>2
  <2> QED
    BY <1>a, <2>3 DEF VisitedBy
<1>11. \A d : VisitedBy(evs2, ref, os3, m, d) <=> VisitedBy(evs, ref, os, m, d) \/ d = o
  <2>1. TAKE d
  <2>2. os3[m] = os[m] /\ ~Skips(evs2, ref, os[m].entity) /\ ~Skips(evs, ref, os[m].entity) /\ ~ (m < m) /\ m < n
    BY <1>2, <1>3, <1>4, <1>7
  <2> QED
    BY <1>9, <1>a, <1>o, <2>2 DEF VisitedBy
<1>12. \A e \in DOMAIN entities : \A d \in Line(e) : VisitedBy(evs, ref, os, n, d) => o \in Line(e)
  <2>1. TAKE e \in DOMAIN entities
  <2> TAKE d \in Line(e)
  <2>2. SUFFICES ASSUME VisitedBy(evs, ref, os, n, d) PROVE o \in Line(e)
    OBVIOUS
  <2>3. d \in DOMAIN entities /\ Parent(d) = o /\ o # 0
    BY <1>9, <1>o, <2>2, KidsFacts DEF VisitedBy, Forest
  <2>4. o \in Ancestors(d)
    BY <2>3, AncestorsEquation
  <2> QED
    BY <2>4, AncestorsTransitive DEF Line
<1>13. \A e \in DOMAIN entities : Through(evs2, ref, os3, e) <=> Through(evs, ref, os, e) \/ o \in Line(e)
  <2>1. TAKE e \in DOMAIN entities
  <2>2. ASSUME Through(evs2, ref, os3, e) PROVE Through(evs, ref, os, e) \/ o \in Line(e)
    <3>1. PICK i \in 1 .. m, d \in Line(e) : VisitedBy(evs2, ref, os3, i, d)
      BY <1>2, <2>2 DEF Through
    <3>2. VisitedBy(evs, ref, os, i, d) \/ d = o
      BY <1>10, <1>11, <3>1
    <3> QED
      BY <1>1, <1>4, <3>2 DEF Through
  <2>3. ASSUME Through(evs, ref, os, e) PROVE Through(evs2, ref, os3, e) \/ o \in Line(e)
    <3>1. PICK i \in 1 .. n, d \in Line(e) : VisitedBy(evs, ref, os, i, d)
      BY <1>1, <2>3 DEF Through
    <3>2. CASE i = n
      BY <1>12, <3>1, <3>2
    <3>3. CASE i \in 1 .. m
      BY <1>2, <1>10, <1>11, <3>1, <3>3 DEF Through
    <3> QED
      BY <1>3, <3>2, <3>3
  <2>4. ASSUME o \in Line(e) PROVE Through(evs2, ref, os3, e)
    BY <1>2, <1>3, <1>11, <2>4 DEF Through
  <2> QED
    BY <2>2, <2>3, <2>4
<1>14. /\ \A k \in DOMAIN evs : k \in DOMAIN evs2 /\ evs2[k] = evs[k]
       /\ \A k \in DOMAIN evs2 : k \in DOMAIN evs \/ evs2[k] = ev
       /\ \A k \in ref : evs2[k] = evs[k]
  BY <1>0, ToldFacts DEF EventsOK
<1>15. \A e : e # o => Types(evs2, e) = Types(evs, e)
  BY TypesFacts
<1>16. \A e : Shows(evs2, ref, e) => Shows(evs, ref, e)
  BY SkipsFacts
<1>p. \A k \in DOMAIN os : \A e : e = os[k].entity => \A x : x \in Ancestors(e) <=> \E j \in 1 .. k - 1 : x = os[j].entity
  BY <1>0, PathFacts
<1>17. \A i \in 1 .. m : os[i].entity # o
  <2>1. TAKE i \in 1 .. m
  <2>3. \A x : x \in Ancestors(o) <=> \E j \in 1 .. n - 1 : x = os[j].entity
    <3>1. n \in DOMAIN os /\ o = os[n].entity
      BY <1>1, <1>3, <1>o
    <3> QED
      BY <1>p, <3>1
  <2>4. os[i].entity \in Ancestors(o)
    BY <1>a, <2>3
  <2> QED
    BY <1>9, <2>4, AncestorsIrreflexive
<1>18. ToldOK(evs2, ref, os3)
  <2>1. ASSUME NEW k \in DOMAIN evs2
        PROVE  /\ evs2[k].entity \in DOMAIN entities
               /\ \/ evs2[k].type = "enter" /\ \E i \in DOMAIN os3 : evs2[k].entity = os3[i].entity
                  \/ Through(evs2, ref, os3, evs2[k].entity)
    <3>1. CASE k \in DOMAIN evs
      <4>1. /\ evs[k].entity \in DOMAIN entities
            /\ (evs[k].type = "enter" /\ \E i \in DOMAIN os : evs[k].entity = os[i].entity) \/ Through(evs, ref, os, evs[k].entity)
        BY <1>0, <3>1 DEF ToldOK
      <4>2. ASSUME NEW i \in 1 .. n, evs[k].entity = os[i].entity, evs[k].type = "enter"
            PROVE  (\E j \in DOMAIN os3 : evs[k].entity = os3[j].entity) \/ o \in Line(evs[k].entity)
        BY <1>2, <1>3, <1>9, <1>o, <4>2
      <4> QED
        BY <1>1, <1>13, <1>14, <3>1, <4>1, <4>2
    <3>2. CASE k \notin DOMAIN evs
      BY <1>9, <1>13, <1>14, <3>2
    <3> QED
      BY <3>1, <3>2
  <2>2. ASSUME NEW i \in DOMAIN os3, filter[os3[i].entity] = "include" PROVE Types(evs2, os3[i].entity) = {"enter"}
    <3>1. i \in DOMAIN os /\ os3[i].entity = os[i].entity /\ os[i].entity # o
      BY <1>1, <1>2, <1>4, <1>17
    <3> QED
      BY <1>0, <1>15, <2>2, <3>1 DEF ToldOK
  <2>3. ASSUME NEW e \in DOMAIN entities, Through(evs2, ref, os3, e), Shows(evs2, ref, e) PROVE Types(evs2, e) = Whole(e)
    <3>1. CASE o \in Line(e)
      BY <1>5, <2>3, <3>1
    <3>2. CASE o \notin Line(e)
      BY <1>0, <1>13, <1>15, <1>16, <2>3, <3>2 DEF ToldOK, Line
    <3> QED
      BY <3>1, <3>2
  <2> QED
    BY <2>1, <2>2, <2>3 DEF ToldOK
<1>19. \A k \in ref : evs2[k].type = "enter"
  BY <1>0, <1>14
<1> QED
  BY <1>5, <1>8, <1>18, <1>19 DEF Visiting

\* The file is left, or an answer aborts the visit: that is its end.
LEMMA FileLeft ==
    ASSUME Forest(entities), NEW evs, NEW ref, NEW os, Visiting(evs, ref, os), NEW o, AtEnd(os, o),
           NEW ev, ev.entity = o, ev.type = "exit", ev.last <=> IsLast(o),
           NEW evs2, ToldEvent(evs, ref, ev, evs2, ref), ~Leaves(os, Front(os))
    PROVE  Ended(evs2, ref)
<1>0. EventsOK(evs, ref) /\ CallsOK(evs, ref, os) /\ ToldOK(evs, ref, os) /\ \A k \in ref : evs[k].type = "enter"
  BY DEF Visiting
<1>1. os \in Seq(CallType) /\ Len(os) \in Nat /\ Len(os) >= 1 /\ Last(os) = os[Len(os)]
  BY <1>0, CallFacts
<1>2. Front(os) = <<>>
  BY DEF Leaves
<1>3. Len(os) = 1
  <2>1. Len(Front(os)) = Len(os) - 1
    BY <1>1, FrontLength
  <2>2. Len(Front(os)) = 0
    BY <1>2
  <2> QED
    BY <1>1, <2>1, <2>2
<1>4. o = 1
  BY <1>0, <1>1, <1>3 DEF CallsOK, AtEnd
<1>5. /\ EventsOK(evs2, ref)
      /\ \A e \in DOMAIN entities : 1 \in Line(e) /\ Shows(evs2, ref, e) => Types(evs2, e) = Whole(e)
  BY <1>4, ExitTold
<1>6. \A e \in Tree : e \in DOMAIN entities /\ 1 \in Line(e)
  BY DEF Tree, Line
<1>7. \A k \in ref : evs2[k].type = "enter"
  BY <1>0, ToldFacts DEF EventsOK
<1> QED
  BY <1>5, <1>6, <1>7 DEF Ended, EventsOK

\* An answer that aborts is the last one.
LEMMA VisitAborted ==
    ASSUME NEW evs, NEW ref, NEW ev, NEW evs2, NEW ref2, EventsOK(evs2, ref2),
           ToldEvent(evs, ref, ev, evs2, ref2), ref2 # ref, ev.type # "enter"
    PROVE  Ended(evs2, ref2)
<1>1. Len(evs2) \in ref2 /\ evs2[Len(evs2)] = ev
  <2>1. filter[ev.entity] = "include"
    BY DEF ToldEvent
  <2> QED
    BY <2>1, ToldFacts
<1> QED
  BY <1>1 DEF Ended, EventsOK

\* The file is entered: it is where a visit starts.
LEMMA FileEntered ==
    ASSUME Forest(entities), NEW ev, ev.entity = 1, ev.type = "enter", ev.last = FALSE,
           NEW evs2, NEW ref2, ToldEvent(<<>>, {}, ev, evs2, ref2),
           NEW call, Begins(evs2, ref2, call, 1)
    PROVE  Visiting(evs2, ref2, <<call>>)
<1> DEFINE os == <<call>>
<1>1. 1 \in DOMAIN entities /\ entities[1].role = "child" /\ Parent(1) = 0 /\ IsContainer(1)
  BY DEF Forest, Parent, IsContainer, VisitedContainers
<1>2. call \in CallType /\ call.entity = 1
  BY DEF Begins
<1>3. os \in Seq(CallType) /\ Len(os) = 1 /\ DOMAIN os = {1} /\ os[1] = call
  BY <1>2
<1> HIDE DEF os
<1>4. VisitCallOK(evs2, ref2, os, 1) /\ \A d : ~VisitedBy(evs2, ref2, os, 1, d)
  <2>1. 1 \in Nat
    OBVIOUS
  <2> QED
    BY <1>1, <1>3, <2>1, CallBegun
<1>5. CallsOK(evs2, ref2, os)
  BY <1>2, <1>3, <1>4 DEF CallsOK
<1>6. \A e : ~Through(evs2, ref2, os, e)
  BY <1>3, <1>4 DEF Through
<1>7. EventsOK(<<>>, {})
  <2>1. <<>> \in Seq(EventType) /\ DOMAIN <<>> = {}
    OBVIOUS
  <2> QED
    BY <2>1 DEF EventsOK, AllNest, AllShown
<1>8. Ancestors(1) = {}
  BY <1>1, AncestorsEquation
<1>9. ev.last <=> IsLast(1)
  BY DEF IsLast
<1>10. DOMAIN <<>> = {}
  OBVIOUS
<1>11. EventsOK(evs2, ref2)
  <2> DEFINE none == <<>>
             no == {}
  <2>1. EventsOK(none, no) /\ ToldEvent(none, no, ev, evs2, ref2) /\ DOMAIN none = {}
    BY <1>7
  <2> HIDE DEF none, no
  <2>2. filter[1] = "include" => Shows(evs2, ref2, 1)
    BY <1>1, <1>8 DEF Shows, Line
  <2> QED
    BY <1>9, <2>1, <2>2, EventsAfter
<1>12. \A k \in DOMAIN evs2 : evs2[k] = ev
  BY <1>10, ToldFacts
<1>13. filter[1] = "include" => Types(evs2, 1) = {"enter"}
  <2> DEFINE none == <<>>
             no == {}
  <2>1. ToldEvent(none, no, ev, evs2, ref2) /\ Types(none, 1) = {}
    BY <1>10 DEF Types
  <2> HIDE DEF none, no
  <2>2. filter[1] = "include" => Types(evs2, 1) = Types(none, 1) \cup {"enter"}
    BY <2>1, TypesFacts
  <2> QED
    BY <2>1, <2>2
<1>14. ToldOK(evs2, ref2, os)
  BY <1>1, <1>2, <1>3, <1>6, <1>12, <1>13 DEF ToldOK
<1>15. \A k \in ref2 : evs2[k].type = "enter"
  BY <1>11, <1>12 DEF EventsOK
<1> QED
  BY <1>5, <1>11, <1>14, <1>15 DEF Visiting, os

----------------------------------------------------------------------------
(* The steps of a visit.                                                   *)

\* The answers TRUE and FALSE are all there are.
LEMMA AnswersFacts ==
    ASSUME NEW type, NEW e
    PROVE  /\ \A answer \in Answers(type, e) : answer = TRUE \/ answer = FALSE
           /\ FALSE \in Answers(type, e) => filter[e] = "include" \/ (filter[e] = "exclude_and_children" /\ type = "enter")
           /\ TRUE \in Answers(type, e) /\ type = "enter" => filter[e] # "exclude_and_children"
<1>1. Refusals = {TRUE, FALSE} \/ Refusals = {TRUE}
  BY DEF Refusals
<1>2. CASE filter[e] = "include"
  BY <1>1, <1>2 DEF Answers
<1>3. CASE filter[e] = "exclude_and_children" /\ type = "enter"
  BY <1>3 DEF Answers
<1>4. CASE ~ (filter[e] = "include" \/ (filter[e] = "exclude_and_children" /\ type = "enter"))
  BY <1>4 DEF Answers
<1> QED
  BY <1>2, <1>3, <1>4

\* visit() has one of four outcomes.
Enters(call, calls) ==
    /\ IsContainer(call.entity)
    /\ TRUE \in Answers("enter", call.entity) /\ Tell(Event("enter", call), TRUE)
    /\ open' = Append(calls, [call EXCEPT !.todo = ChildrenOf(call.entity, "child")])

SkipsChildren(call, calls) ==
    /\ IsContainer(call.entity)
    /\ FALSE \in Answers("enter", call.entity) /\ Tell(Event("enter", call), FALSE)
    /\ open' = Append(calls, [call EXCEPT !.todo = <<>>])

ShowsLeaf(call, calls) ==
    /\ ~IsContainer(call.entity)
    /\ Tell(Event("leaf", call), TRUE)
    /\ open' = calls

Aborts(call) ==
    /\ ~IsContainer(call.entity)
    /\ FALSE \in Answers("leaf", call.entity) /\ Tell(Event("leaf", call), FALSE)
    /\ open' = <<>>

\* There is no other.
LEMMA VisitOutcomes ==
    ASSUME NEW call, NEW calls, Visit(call, calls)
    PROVE  Enters(call, calls) \/ SkipsChildren(call, calls) \/ ShowsLeaf(call, calls) \/ Aborts(call)
<1>1. PICK type \in {IF IsContainer(call.entity) THEN "enter" ELSE "leaf"} :
        \E answer \in Answers(type, call.entity) :
          /\ Tell(Event(type, call), answer)
          /\ IF type = "enter"
             THEN open' = Append(calls, [call EXCEPT !.todo = IF answer THEN ChildrenOf(call.entity, "child") ELSE <<>>])
             ELSE open' = IF answer THEN calls ELSE <<>>
          /\ mode' = IF open' = <<>> THEN "visited" ELSE "visit"
  BY Zenon DEF Visit
<1>2. PICK answer \in Answers(type, call.entity) :
        /\ Tell(Event(type, call), answer)
        /\ IF type = "enter"
           THEN open' = Append(calls, [call EXCEPT !.todo = IF answer THEN ChildrenOf(call.entity, "child") ELSE <<>>])
           ELSE open' = IF answer THEN calls ELSE <<>>
  BY <1>1, Zenon
<1>3. answer = TRUE \/ answer = FALSE
  BY <1>2, AnswersFacts
<1>4. IsContainer(call.entity) => type = "enter"
  BY <1>1
<1>5. ~IsContainer(call.entity) => type = "leaf"
  BY <1>1
<1>6. CASE IsContainer(call.entity) /\ answer = TRUE
  BY <1>2, <1>4, <1>6 DEF Enters
<1>7. CASE IsContainer(call.entity) /\ answer = FALSE
  BY <1>2, <1>4, <1>7 DEF SkipsChildren
<1>8. CASE ~IsContainer(call.entity) /\ answer = TRUE
  BY <1>2, <1>5, <1>8 DEF ShowsLeaf
<1>9. CASE ~IsContainer(call.entity) /\ answer = FALSE
  BY <1>2, <1>5, <1>9 DEF Aborts
<1> QED
  BY <1>3, <1>6, <1>7, <1>8, <1>9

\* What is told, and what is skipped then.
LEMMA TellFacts ==
    ASSUME events \in Seq(EventType), refused \subseteq DOMAIN events, NEW ev \in EventType,
           Tell(ev, TRUE) \/ Tell(ev, FALSE)
    PROVE  /\ ToldEvent(events, refused, ev, events', refused')
           /\ Tell(ev, TRUE) => refused' = refused
           /\ Tell(ev, FALSE) /\ filter[ev.entity] = "include" => refused' # refused /\ Len(events') \in refused'
<1>1. Len(events) + 1 \notin refused /\ Len(Append(events, ev)) = Len(events) + 1
  OBVIOUS
<1>2. ToldEvent(events, refused, ev, events', refused')
  BY DEF ToldEvent, Tell
<1>3. Tell(ev, TRUE) => refused' = refused
  BY DEF Tell
<1>4. Tell(ev, FALSE) /\ filter[ev.entity] = "include" => refused' # refused /\ Len(events') \in refused'
  BY <1>1 DEF Tell
<1> QED
  BY <1>2, <1>3, <1>4

\* The tree, the file and the filter are all that the properties of a visit depend on.
LEMMA SameVisit ==
    ASSUME UNCHANGED <<entities, file, filter>>
    PROVE  /\ \A evs, ref, os : Visiting(evs, ref, os)' <=> Visiting(evs, ref, os)
           /\ \A evs, ref : Ended(evs, ref)' <=> Ended(evs, ref)
<1>1. \A e : Ancestors(e)' = Ancestors(e)
  BY DEF Ancestors, Parent
<1>2. \A e : Line(e)' = Line(e)
  BY <1>1 DEF Line
<1>3. \A e, role : ChildrenOf(e, role)' = ChildrenOf(e, role)
  BY DEF ChildrenOf
<1>4. \A e : IsLast(e)' <=> IsLast(e)
  BY <1>3 DEF IsLast, Parent
<1>5. \A e : Kids(e)' = Kids(e)
  BY DEF Kids
<1>6. \A e : IsContainer(e)' <=> IsContainer(e)
  BY DEF IsContainer
<1>7. \A e : Whole(e)' = Whole(e)
  BY <1>6 DEF Whole
<1>8. Tree' = Tree
  BY <1>1 DEF Tree
<1>9. \A a, b : Before(a, b)' <=> Before(a, b)
  BY <1>1 DEF Before, Parent
<1>10. \A evs, ref, e : Skips(evs, ref, e)' <=> Skips(evs, ref, e)
  BY DEF Skips
<1>11. \A evs, ref, e : Shows(evs, ref, e)' <=> Shows(evs, ref, e)
  BY <1>1, <1>2, <1>10 DEF Shows
<1>12. \A evs : AllNest(evs)' <=> AllNest(evs)
  BY <1>1, <1>9 DEF AllNest, Nests
<1>13. \A evs, ref : AllShown(evs, ref)' <=> AllShown(evs, ref)
  BY <1>4, <1>11 DEF AllShown
<1>14. \A evs, ref : Ended(evs, ref)' <=> Ended(evs, ref)
  BY <1>7, <1>8, <1>11, <1>12, <1>13 DEF Ended, Types
<1>15. Accesses' = Accesses
  BY DEF Accesses
<1>16. CallType' = CallType /\ EventType' = EventType
  BY <1>15 DEF CallType, EventType
<1>17. \A evs, ref : EventsOK(evs, ref)' <=> EventsOK(evs, ref)
  BY <1>12, <1>13, <1>16 DEF EventsOK
<1>18. \A evs, ref, os, i : VisitCallOK(evs, ref, os, i)' <=> VisitCallOK(evs, ref, os, i)
  BY <1>4, <1>5, <1>6, <1>10 DEF VisitCallOK, Rest, Elements, Increasing
<1>19. \A evs, ref, os : CallsOK(evs, ref, os)' <=> CallsOK(evs, ref, os)
  BY <1>16, <1>18 DEF CallsOK
<1>20. \A evs, ref, os, i, d : VisitedBy(evs, ref, os, i, d)' <=> VisitedBy(evs, ref, os, i, d)
  BY <1>5, <1>10 DEF VisitedBy, Rest, Elements
<1>21. \A evs, ref, os, e : Through(evs, ref, os, e)' <=> Through(evs, ref, os, e)
  BY <1>2, <1>20 DEF Through
<1>22. \A evs, ref, os : ToldOK(evs, ref, os)' <=> ToldOK(evs, ref, os)
  <2>1. ASSUME NEW evs, NEW ref, NEW os PROVE ToldOK(evs, ref, os)' <=> ToldOK(evs, ref, os)
    <3>1. \A e : Through(evs, ref, os, e)' <=> Through(evs, ref, os, e)
      BY <1>21
    <3>2. \A e : Shows(evs, ref, e)' <=> Shows(evs, ref, e)
      BY <1>11
    <3>3. \A e : Types(evs, e)' = Types(evs, e)
      BY DEF Types
    <3> QED
      BY <1>7, <3>1, <3>2, <3>3 DEF ToldOK
  <2> QED
    BY <2>1
<1>23. \A evs, ref, os : Visiting(evs, ref, os)' <=> Visiting(evs, ref, os)
  BY <1>17, <1>19, <1>22 DEF Visiting
<1> QED
  BY <1>14, <1>23

\* What calls and events are made of.
LEMMA NewCall ==
    ASSUME Forest(entities), NEW e \in DOMAIN entities, NEW a \in Accesses, NEW last \in BOOLEAN
    PROVE  Call(e, a, last, <<>>) \in CallType
<1>1. e \in Nat /\ <<>> \in Seq(Nat)
  BY DEF Forest
<1>2. InitialAccess(e) \in Accesses
  BY DEF InitialAccess, Accesses
<1> QED
  BY <1>1, <1>2 DEF Call, CallType

\* The access a child is visited with is an access,
LEMMA AccessFacts ==
    ASSUME Forest(entities), NEW e \in DOMAIN entities, NEW a \in Accesses
    PROVE  UpdatedAccess(a, e) \in Accesses
<1>1. entities[e].cursor \in Nat
  <2>1. entities \in Seq(EntityType)
    BY DEF Forest
  <2>2. entities[e] \in EntityType
    BY <2>1
  <2> QED
    BY <2>2 DEF EntityType
<1> QED
  BY <1>1 DEF UpdatedAccess, Accesses, Cursor

\* and what the callback is told is an event, with the entity and the place of the call.
LEMMA NewEvent ==
    ASSUME NEW call \in CallType, NEW type \in {"enter", "leaf", "exit"}
    PROVE  /\ Event(type, call) \in EventType
           /\ Event(type, call).type = type /\ Event(type, call).entity = call.entity /\ Event(type, call).last = call.last
  BY DEF Event, EventType, CallType

\* A container is visited: with all its children, or with none.
LEMMA EntersFacts ==
    ASSUME Forest(entities), NEW call \in CallType, NEW c, c = call.entity, call.last <=> IsLast(c),
           events \in Seq(EventType), refused \subseteq DOMAIN events, Types(events, c) = {},
           NEW calls, Enters(call, calls) \/ SkipsChildren(call, calls)
    PROVE  /\ ToldEvent(events, refused, Event("enter", call), events', refused')
           /\ \E call2 : Begins(events', refused', call2, c) /\ open' = Append(calls, call2)
<1> DEFINE ev == Event("enter", call)
<1>1. ev \in EventType /\ ev.type = "enter" /\ ev.entity = c
  BY NewEvent
<1> HIDE DEF ev
<1>2. Tell(ev, TRUE) \/ Tell(ev, FALSE)
  BY DEF Enters, SkipsChildren, ev
<1>3. ToldEvent(events, refused, ev, events', refused')
  BY <1>1, <1>2, TellFacts
<1>4. /\ \A k \in DOMAIN events : events'[k] = events[k]
      /\ filter[c] = "include" => events'[Len(events')] = ev
  BY <1>1, <1>3, ToldFacts
<1>5. \A s \in Seq(Nat) : /\ [call EXCEPT !.todo = s] \in CallType /\ [call EXCEPT !.todo = s].entity = c
                          /\ [call EXCEPT !.todo = s].last = call.last /\ [call EXCEPT !.todo = s].todo = s
  BY DEF CallType
<1>6. CASE Enters(call, calls)
  <2> DEFINE call2 == [call EXCEPT !.todo = ChildrenOf(c, "child")]
  <2>1. Tell(ev, TRUE) /\ filter[c] # "exclude_and_children" /\ open' = Append(calls, call2)
    <3>1. TRUE \in Answers("enter", c)
      BY <1>6 DEF Enters
    <3> QED
      BY <1>6, <3>1, AnswersFacts DEF Enters, ev
  <2>2. refused' = refused
    BY <1>1, <2>1, TellFacts
  <2>3. \A k \in refused : ~ (events[k].type = "enter" /\ events[k].entity = c)
    BY DEF Types
  <2>4. ~Skips(events', refused', c)
    BY <1>4, <2>1, <2>2, <2>3 DEF Skips
  <2>5. call2 \in CallType /\ call2.entity = c /\ call2.last = call.last /\ call2.todo = ChildrenOf(c, "child")
    <3>1. ChildrenOf(c, "child") \in Seq(Nat)
      BY KidsFacts
    <3> QED
      BY <1>5, <3>1
  <2> HIDE DEF call2
  <2>6. Begins(events', refused', call2, c)
    BY <2>4, <2>5 DEF Begins
  <2> QED
    BY <1>3, <2>1, <2>6 DEF ev
<1>7. CASE SkipsChildren(call, calls)
  <2> DEFINE call2 == [call EXCEPT !.todo = <<>>]
  <2>1. Tell(ev, FALSE) /\ (filter[c] = "include" \/ filter[c] = "exclude_and_children") /\ open' = Append(calls, call2)
    <3>1. FALSE \in Answers("enter", c)
      BY <1>7 DEF SkipsChildren
    <3> QED
      BY <1>7, <3>1, AnswersFacts DEF SkipsChildren, ev
  <2>2. filter[c] = "include" => Len(events') \in refused'
    BY <1>1, <2>1, TellFacts
  <2>4. Skips(events', refused', c)
    BY <1>1, <1>4, <2>1, <2>2 DEF Skips
  <2>5. call2 \in CallType /\ call2.entity = c /\ call2.last = call.last /\ call2.todo = <<>>
    <3>1. <<>> \in Seq(Nat)
      OBVIOUS
    <3> QED
      BY <1>5, <3>1
  <2> HIDE DEF call2
  <2>6. Begins(events', refused', call2, c)
    BY <2>4, <2>5 DEF Begins
  <2> QED
    BY <1>3, <2>1, <2>6 DEF ev
<1> QED
  BY <1>6, <1>7

\* The file is visited.
LEMMA RootStep == ASSUME TreeInv, VisitInv, VisitRoot PROVE VisitInv'
<1> DEFINE call == Call(1, "public", FALSE, <<>>)
           a == "public"
<1>1. /\ mode = "visit_root" /\ open = <<call>> /\ events = <<>> /\ refused = {}
      /\ Visit(Last(open), <<>>) /\ UNCHANGED <<entities, file, filter>>
  BY DEF VisitRoot, VisitInv, treeVars
<1>2. Forest(entities) /\ 1 \in DOMAIN entities
  BY DEF TreeInv, Forest
<1>3. IsContainer(1)
  BY <1>2 DEF Forest, IsContainer, VisitedContainers
<1>4. call \in CallType /\ call.entity = 1 /\ call.last = FALSE
  <2>1. a \in Accesses /\ call = Call(1, a, FALSE, <<>>)
    BY DEF Accesses
  <2> HIDE DEF a
  <2>2. Call(1, a, FALSE, <<>>) \in CallType
    BY <1>2, <2>1, NewCall
  <2> QED
    BY <2>1, <2>2 DEF Call
<1>5. Last(open) = call
  BY <1>1 DEF Last
<1> HIDE DEF call
<1>6. Enters(call, <<>>) \/ SkipsChildren(call, <<>>)
  <2>1. Enters(call, <<>>) \/ SkipsChildren(call, <<>>) \/ ShowsLeaf(call, <<>>) \/ Aborts(call)
    BY <1>1, <1>5, VisitOutcomes
  <2> QED
    BY <1>3, <1>4, <2>1 DEF ShowsLeaf, Aborts
<1>7. events \in Seq(EventType) /\ refused \subseteq DOMAIN events /\ Types(events, 1) = {} /\ (call.last <=> IsLast(1))
  BY <1>1, <1>4 DEF Types, IsLast
<1>8. ToldEvent(events, refused, Event("enter", call), events', refused')
      /\ \E call2 : Begins(events', refused', call2, 1) /\ open' = Append(<<>>, call2)
  BY <1>2, <1>4, <1>6, <1>7, EntersFacts
<1>9. PICK call2 : Begins(events', refused', call2, 1) /\ open' = <<call2>>
  BY <1>8
<1>10. Event("enter", call).entity = 1 /\ Event("enter", call).type = "enter" /\ Event("enter", call).last = FALSE
  BY <1>4, NewEvent
<1>11. ToldEvent(<<>>, {}, Event("enter", call), events', refused')
  BY <1>1, <1>8
<1>12. Visiting(events', refused', <<call2>>)
  BY <1>2, <1>9, <1>10, <1>11, FileEntered
<1>13. Visiting(events, refused, open)'
  BY <1>1, <1>9, <1>12, SameVisit
<1>14. mode' = "visit"
  BY <1>1, <1>9 DEF Visit
<1> QED
  BY <1>13, <1>14 DEF VisitInv

\* The last child is the one behind which nothing is left to do.
LEMMA NextIsLast ==
    ASSUME Forest(entities), NEW evs, NEW ref, NEW os, CallsOK(evs, ref, os), NEW c, IsNext(os, c)
    PROVE  IsLast(c) <=> Tail(Last(os).todo) = <<>>
<1> DEFINE n == Len(os)
           o == os[n]
           e == o.entity
           q == o.todo
<1>1. n \in DOMAIN os /\ Last(os) = o /\ q \in Seq(Nat)
  BY CallFacts
<1>2. c = Head(q) /\ q # <<>>
  BY <1>1 DEF IsNext
<1>3. VisitCallOK(evs, ref, os, n)
  BY <1>1 DEF CallsOK
<1>4. Increasing(q) /\ Elements(q) \subseteq Kids(e) /\ \A d \in Kids(e) \ Elements(q), t \in Elements(q) : d < t
  BY <1>3 DEF VisitCallOK, Rest
<1>5. c # 1 /\ Parent(c) = e /\ c \in Kids(e)
  BY <1>1, ChildFacts
<1>6. IsLast(c) <=> c = Last(ChildrenOf(e, "child"))
  BY <1>5 DEF IsLast
<1> HIDE DEF n, o, e, q
<1>7. IsLast(c) <=> \A k \in Kids(e) : k <= c
  BY <1>5, <1>6, LastKid
<1>8. /\ c \in Elements(q) /\ Elements(Tail(q)) = Elements(q) \ {c}
      /\ \A t \in Elements(Tail(q)) : c < t
      /\ Tail(q) = <<>> <=> Elements(Tail(q)) = {}
  BY <1>1, <1>2, <1>4, TailFacts
<1>9. \A k \in Kids(e) : k \in Nat
  BY KidsFacts
<1>10. ASSUME Elements(Tail(q)) = {}, NEW k \in Kids(e) PROVE k <= c
  <2>1. CASE k = c
    BY <1>5, <1>9, <2>1
  <2>2. CASE k # c
    <3>1. k < c
      BY <1>4, <1>8, <1>10, <2>2
    <3> QED
      BY <1>5, <1>9, <3>1
  <2> QED
    BY <2>1, <2>2
<1>11. ASSUME NEW t \in Elements(Tail(q)) PROVE ~ (t <= c) /\ t \in Kids(e)
  <2>1. t \in Kids(e) /\ c < t
    BY <1>4, <1>8
  <2> QED
    BY <1>5, <1>9, <2>1
<1>12. IsLast(c) <=> Elements(Tail(q)) = {}
  BY <1>7, <1>10, <1>11
<1> QED
  BY <1>1, <1>8, <1>12 DEF q

\* Nothing was told about the child that is visited next.
LEMMA ChildUntold ==
    ASSUME Forest(entities), NEW evs, NEW ref, NEW os, Visiting(evs, ref, os), NEW c, IsNext(os, c)
    PROVE  Types(evs, c) = {}
<1>0. CallsOK(evs, ref, os) /\ ToldOK(evs, ref, os)
  BY DEF Visiting
<1>1. \A k \in DOMAIN evs : c \notin Line(evs[k].entity)
  BY <1>0, ChildFresh DEF ToldOK
<1> QED
  BY <1>1 DEF Types, Line

\* A child is visited.
LEMMA ChildStep == ASSUME TreeInv, VisitInv, VisitChild PROVE VisitInv'
<1> DEFINE o == Last(open)
           c == Head(o.todo)
           access == UpdatedAccess(o.child_access, c)
           last == Tail(o.todo) = <<>>
           call == Call(c, access, last, <<>>)
           calls == [open EXCEPT ![Len(open)].todo = Tail(@), ![Len(open)].child_access = access]
<1>1. /\ mode = "visit" /\ o.todo # <<>> /\ Visit(call, calls) /\ UNCHANGED <<entities, file, filter>>
  BY DEF VisitChild, treeVars
<1>2. Forest(entities) /\ Placed(file.cursors, entities) /\ Visiting(events, refused, open)
  BY <1>1 DEF TreeInv, VisitInv
<1>3. EventsOK(events, refused) /\ CallsOK(events, refused, open) /\ ToldOK(events, refused, open)
  BY <1>2 DEF Visiting
<1>4. IsNext(open, c)
  BY <1>1 DEF IsNext
<1>5. o \in CallType /\ Len(open) >= 1 /\ open \in Seq(CallType)
  BY <1>2, <1>3, CallFacts
<1>6. c \in DOMAIN entities
  BY <1>2, <1>3, <1>4, ChildFacts
<1>7. last <=> IsLast(c)
  BY <1>2, <1>3, <1>4, NextIsLast
<1>8. access \in Accesses
  <2>1. o.child_access \in Accesses
    BY <1>5 DEF CallType
  <2> QED
    BY <1>2, <1>6, <2>1, AccessFacts
<1>9. GoesOn(open, calls)
  BY <1>8 DEF GoesOn
<1>10. calls \in Seq(CallType) /\ Len(calls) = Len(open)
  <2>1. open # <<>> /\ Last(open).todo # <<>>
    BY <1>1, <1>5
  <2> HIDE DEF calls
  <2> QED
    BY <1>5, <1>9, <2>1, GoesOnFacts
<1>11. calls # <<>>
  BY <1>5, <1>10
<1>12. last \in BOOLEAN
  OBVIOUS
<1> HIDE DEF last, access, c, calls, o
<1>13. call \in CallType /\ call.entity = c /\ (call.last <=> IsLast(c))
  <2>1. call \in CallType
    BY <1>2, <1>6, <1>8, <1>12, NewCall
  <2> QED
    BY <1>7, <2>1 DEF Call
<1>14. \A type \in {"enter", "leaf"} : Event(type, call).entity = c /\ Event(type, call).type = type
                                        /\ (Event(type, call).last <=> IsLast(c)) /\ Event(type, call) \in EventType
  BY <1>13, NewEvent
<1>15. Enters(call, calls) \/ SkipsChildren(call, calls) \/ ShowsLeaf(call, calls) \/ Aborts(call)
  BY <1>1, VisitOutcomes
<1> HIDE DEF call
<1>16. events \in Seq(EventType) /\ refused \subseteq DOMAIN events /\ Types(events, c) = {}
  BY <1>2, <1>3, <1>4, ChildUntold DEF EventsOK
<1>17. CASE Enters(call, calls) \/ SkipsChildren(call, calls)
  <2>1. IsContainer(c)
    BY <1>13, <1>17 DEF Enters, SkipsChildren
  <2>2. ToldEvent(events, refused, Event("enter", call), events', refused')
        /\ \E call2 : Begins(events', refused', call2, c) /\ open' = Append(calls, call2)
    BY <1>2, <1>13, <1>16, <1>17, EntersFacts
  <2>3. PICK call2 : Begins(events', refused', call2, c) /\ open' = Append(calls, call2)
    BY <2>2
  <2>4. BeginsCall(open, open', call2)
    BY <1>9, <2>3 DEF BeginsCall
  <2>5. Visiting(events', refused', open')
    BY <1>2, <1>4, <1>14, <2>1, <2>2, <2>3, <2>4, ContainerEntered
  <2>6. open' # <<>>
    BY <1>10, <2>3
  <2>7. mode' = "visit"
    BY <1>1, <2>6 DEF Visit
  <2> QED
    BY <1>1, <2>5, <2>7, SameVisit DEF VisitInv
<1>18. CASE ShowsLeaf(call, calls)
  <2>1. ~IsContainer(c) /\ Tell(Event("leaf", call), TRUE) /\ open' = calls
    BY <1>13, <1>18 DEF ShowsLeaf
  <2>2. ToldEvent(events, refused, Event("leaf", call), events', refused') /\ refused' = refused
    BY <1>14, <1>16, <2>1, TellFacts
  <2>3. Visiting(events', refused', open')
    BY <1>2, <1>4, <1>9, <1>14, <2>1, <2>2, LeafVisited
  <2>4. mode' = "visit"
    BY <1>1, <1>11, <2>1 DEF Visit
  <2> QED
    BY <1>1, <2>3, <2>4, SameVisit DEF VisitInv
<1>19. CASE Aborts(call)
  <2>1. /\ FALSE \in Answers("leaf", c) /\ Tell(Event("leaf", call), FALSE) /\ open' = <<>>
    BY <1>13, <1>19 DEF Aborts
  <2>2. filter[c] = "include"
    <3> DEFINE type == "leaf"
    <3>1. FALSE \in Answers(type, c) /\ type # "enter"
      BY <2>1
    <3> HIDE DEF type
    <3> QED
      BY <3>1, AnswersFacts
  <2>3. ToldEvent(events, refused, Event("leaf", call), events', refused') /\ refused' # refused
    BY <1>14, <1>16, <2>1, <2>2, TellFacts
  <2>4. EventsOK(events', refused')
    BY <1>2, <1>4, <1>14, <2>3, ChildTold
  <2>5. Event("leaf", call).type # "enter"
    BY <1>14
  <2>6. Ended(events', refused')
    BY <2>3, <2>4, <2>5, VisitAborted
  <2>7. mode' = "visited"
    BY <1>1, <2>1 DEF Visit
  <2> QED
    BY <1>1, <2>6, <2>7, SameVisit DEF VisitInv
<1> QED
  BY <1>15, <1>17, <1>18, <1>19

\* A container is left.
LEMMA LeaveStep == ASSUME TreeInv, VisitInv, LeaveContainer PROVE VisitInv'
<1> DEFINE call == Last(open)
           o == call.entity
           type == "exit"
           ev == Event(type, call)
<1>1. mode = "visit" /\ call.todo = <<>> /\ UNCHANGED <<entities, file, filter>>
  BY DEF LeaveContainer, treeVars
<1>2. Forest(entities) /\ Visiting(events, refused, open)
  BY <1>1 DEF TreeInv, VisitInv
<1>3. EventsOK(events, refused) /\ CallsOK(events, refused, open)
  BY <1>2 DEF Visiting
<1>4. AtEnd(open, o)
  BY <1>1 DEF AtEnd
<1>5. Len(open) \in DOMAIN open /\ call = open[Len(open)] /\ call \in CallType /\ VisitCallOK(events, refused, open, Len(open))
  <2>1. Len(open) \in DOMAIN open /\ call = open[Len(open)] /\ open[Len(open)] \in CallType
    BY <1>2, <1>3, CallFacts
  <2> QED
    BY <1>3, <2>1 DEF CallsOK
<1>6. call.last <=> IsLast(o)
  BY <1>5 DEF VisitCallOK
<1>7. \E answer \in Answers(type, o) : Tell(ev, answer) /\ open' = IF answer THEN Front(open) ELSE <<>>
  BY DEF LeaveContainer
<1>8. mode' = IF open' = <<>> THEN "visited" ELSE "visit"
  BY DEF LeaveContainer
<1>9. type # "enter" /\ ev \in EventType /\ ev.type = type /\ ev.entity = o /\ ev.last = call.last
  BY <1>5, NewEvent
<1>e. ev.type = "exit"
  BY <1>9
<1> HIDE DEF call, o, ev, type
<1>10. PICK answer \in Answers(type, o) : Tell(ev, answer) /\ open' = IF answer THEN Front(open) ELSE <<>>
  BY <1>7
<1>11. answer = TRUE \/ answer = FALSE
  BY AnswersFacts
<1>12. events \in Seq(EventType) /\ refused \subseteq DOMAIN events
  BY <1>3 DEF EventsOK
<1>13. CASE answer = TRUE
  <2>1. Tell(ev, TRUE) /\ open' = Front(open)
    BY <1>10, <1>13
  <2>2. ToldEvent(events, refused, ev, events', refused') /\ refused' = refused
    BY <1>9, <1>12, <2>1, TellFacts
  <2>3. CASE open' = <<>>
    <3>1. ~Leaves(open, Front(open))
      BY <2>1, <2>3 DEF Leaves
    <3>2. Ended(events', refused')
      BY <1>2, <1>4, <1>6, <1>9, <1>e, <2>2, <3>1, FileLeft
    <3> QED
      BY <1>1, <1>8, <2>3, <3>2, SameVisit DEF VisitInv
  <2>4. CASE open' # <<>>
    <3>1. Leaves(open, open')
      BY <2>1, <2>4 DEF Leaves
    <3>2. Visiting(events', refused', open')
      BY <1>2, <1>4, <1>6, <1>9, <1>e, <2>2, <3>1, ContainerLeft
    <3> QED
      BY <1>1, <1>8, <2>4, <3>2, SameVisit DEF VisitInv
  <2> QED
    BY <2>3, <2>4
<1>14. CASE answer = FALSE
  <2>1. FALSE \in Answers(type, o) /\ Tell(ev, FALSE) /\ open' = <<>>
    BY <1>10, <1>14
  <2>2. filter[o] = "include"
    BY <1>9, <2>1, AnswersFacts
  <2>3. ToldEvent(events, refused, ev, events', refused') /\ refused' # refused
    BY <1>9, <1>12, <2>1, <2>2, TellFacts
  <2>4. EventsOK(events', refused')
    BY <1>2, <1>4, <1>6, <1>9, <1>e, <2>3, ExitTold
  <2>5. Ended(events', refused')
    BY <1>9, <2>3, <2>4, VisitAborted
  <2> QED
    BY <1>1, <1>8, <2>1, <2>5, SameVisit DEF VisitInv
<1> QED
  BY <1>11, <1>13, <1>14

----------------------------------------------------------------------------
(* The theorem.                                                            *)

\* Any other step is no part of a visit, or begins one.
LEMMA OtherStep ==
    ASSUME TreeInv, VisitInv, Parse \/ BeginVisit \/ BeginGenerate \/ GenerateNext \/ Stop \/ UNCHANGED vars
    PROVE  VisitInv'
<1>1. ASSUME mode' \notin {"visit_root", "visit", "visited"} PROVE VisitInv'
  BY <1>1 DEF VisitInv
<1>2. ASSUME UNCHANGED <<entities, file>> PROVE Call(1, "public", FALSE, <<>>)' = Call(1, "public", FALSE, <<>>)
  BY <1>2 DEF Call, InitialAccess, Cursor
<1>3. CASE UNCHANGED vars
  <2>1. UNCHANGED <<mode, entities, file, filter, events, refused, open>>
    BY <1>3 DEF vars, treeVars, visitVars
  <2>2. mode' = "visit_root" => (open = <<Call(1, "public", FALSE, <<>>)>> /\ events = <<>> /\ refused = {})'
    BY <1>2, <2>1 DEF VisitInv
  <2>3. mode' = "visit" => Visiting(events, refused, open)'
    <3>1. ASSUME mode = "visit" PROVE Visiting(events', refused', open')
      BY <2>1, <3>1 DEF VisitInv
    <3> QED
      BY <2>1, <3>1, SameVisit
  <2>4. mode' = "visited" => Ended(events, refused)'
    <3>1. ASSUME mode = "visited" PROVE Ended(events', refused')
      BY <2>1, <3>1 DEF VisitInv
    <3> QED
      BY <2>1, <3>1, SameVisit
  <2> QED
    BY <2>2, <2>3, <2>4 DEF VisitInv
<1>4. CASE Parse
  BY <1>1, <1>4, ParseIsParsing, ParseModes DEF Parse
<1>5. CASE BeginVisit
  <2>1. /\ mode' = "visit_root" /\ open' = <<Call(1, "public", FALSE, <<>>)>> /\ events' = <<>> /\ refused' = {}
        /\ UNCHANGED <<entities, file>>
    BY <1>5 DEF BeginVisit, StartVisit, treeVars
  <2> QED
    BY <1>2, <2>1 DEF VisitInv
<1>6. CASE BeginGenerate
  BY <1>1, <1>6 DEF BeginGenerate, StartGenerate
<1>7. CASE GenerateNext
  BY <1>1, <1>7 DEF GenerateNext, WriteDirect, SkipExcluded, WriteItem, WriteParameter, WriteBase, UpdateAccess, WriteMember,
     FinishList, FinishEntity, FinishGenerate, InList, Unchanged
<1>8. CASE Stop
  BY <1>3, <1>8 DEF Stop
<1> QED
  BY <1>3, <1>4, <1>5, <1>6, <1>7, <1>8

\* Whatever the file, the filter and the answers of the callback: it is told about every
\* entity that is not filtered out or skipped exactly once, about a container before and
\* after all that is below it, in the order of the file; the last child of a parent, and no
\* other, is called so; and an answer that aborts is the end.  detail::visit,
\* handle_container and the filter, over the tree the parser has built.
THEOREM CallbackSeesTree == Spec => []EventsNest
<1>1. Init => TreeInv /\ VisitInv
  BY TreeInit DEF Init, ParseInit, VisitInv
<1>2. TreeInv /\ VisitInv /\ [Next]_vars => (TreeInv /\ VisitInv)'
  <2>1. SUFFICES ASSUME TreeInv, VisitInv, [Next]_vars PROVE TreeInv' /\ VisitInv'
    OBVIOUS
  <2>2. CASE ContinueVisit
    BY <2>1, <2>2, TreeKept, RootStep, ChildStep, LeaveStep DEF ContinueVisit, VisitNext
  <2>3. CASE Parse
    BY <2>1, <2>3, ParseStep, OtherStep DEF Parse
  <2>4. CASE BeginVisit \/ BeginGenerate \/ GenerateNext \/ Stop \/ UNCHANGED vars
    BY <2>1, <2>4, TreeKept, OtherStep
  <2> QED
    BY <2>1, <2>2, <2>3, <2>4 DEF Next
<1>3. VisitInv => EventsNest
  BY EndedIsNested DEF VisitInv
<1> QED
  BY <1>1, <1>2, <1>3, PTL DEF Spec
=============================================================================
