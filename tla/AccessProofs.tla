---------------------------- MODULE AccessProofs ----------------------------
(***************************************************************************)
(* The access of members.  Both the visitor and the code generator go      *)
(* through the members of a class and remember the access of the last      *)
(* specifier they have passed, while C++ says that it is the specifier     *)
(* before the member in the file which counts.  That the two are the same  *)
(* rests on the order of the members (MembersInOrder), on what the calls   *)
(* of handle_container have left to do, and on what generate_class has     *)
(* written.                                                                *)
(***************************************************************************)
EXTENDS VisitorProofs, GeneratorProofs

----------------------------------------------------------------------------
(* The access behind some of the members of an entity.                     *)

Specifiers(S) == {s \in S : entities[s].kind = "access_specifier"}

AccessAfter(k, S) ==
    IF Specifiers(S) = {} THEN InitialAccess(k) ELSE Cursor(entities[Max(Specifiers(S))].cursor).access

RightAccess(e) == IF e = 1 THEN "public" ELSE MemberAccess(e)

\* What is at least as great as all of some numbers is their maximum.
LEMMA MaxIs ==
    ASSUME NEW n \in Nat, NEW S \in SUBSET (1 .. n), NEW m \in S, \A i \in S : i <= m
    PROVE  Max(S) = m
<1>1. Max(S) \in S /\ \A i \in S : Max(S) >= i
  BY Greatest
<1>2. Max(S) \in 1 .. n /\ m \in 1 .. n
  BY <1>1
<1>3. Max(S) >= m /\ Max(S) <= m
  BY <1>1
<1> QED
  BY <1>2, <1>3

LEMMA AccessBefore == ASSUME NEW k PROVE AccessAfter(k, {}) = InitialAccess(k)
  BY DEF AccessAfter, Specifiers

\* One member more: detail::visit and generate_class.
LEMMA AccessBehind ==
    ASSUME Forest(entities), NEW k, NEW S \in SUBSET (DOMAIN entities), NEW c \in DOMAIN entities,
           \A s \in S : s < c
    PROVE  AccessAfter(k, S \cup {c}) = UpdatedAccess(AccessAfter(k, S), c)
<1>1. Len(entities) \in Nat /\ DOMAIN entities = 1 .. Len(entities)
  BY DEF Forest
<1>2. CASE entities[c].kind = "access_specifier"
  <2> DEFINE T == Specifiers(S \cup {c})
  <2>1. T \in SUBSET (1 .. Len(entities)) /\ c \in T
    BY <1>1, <1>2 DEF Specifiers
  <2>2. \A i \in T : i <= c
    BY <1>1 DEF Specifiers
  <2> HIDE DEF T
  <2>3. Max(T) = c
    BY <1>1, <2>1, <2>2, MaxIs
  <2> QED
    BY <1>2, <2>1, <2>3 DEF AccessAfter, UpdatedAccess, T
<1>3. CASE entities[c].kind # "access_specifier"
  <2>1. Specifiers(S \cup {c}) = Specifiers(S)
    BY <1>3 DEF Specifiers
  <2> QED
    BY <1>3, <2>1 DEF AccessAfter, UpdatedAccess
<1> QED
  BY <1>2, <1>3

\* Only classes have access specifiers.
LEMMA OnlyClassesSpecify ==
    ASSUME TreeInv, NEW p \in DOMAIN entities, p # 0, entities[p].kind # "class", NEW S \in SUBSET Kids(p)
    PROVE  Specifiers(S) = {}
<1>1. \A m \in S : entities[m].parent = p /\ m \in DOMAIN entities
  BY DEF Kids
<1>2. \A m \in S : Owns(file.cursors, entities[p], entities[m])
  BY <1>1 DEF TreeInv, Placed
<1> QED
  BY <1>2 DEF Specifiers, Owns

\* The specifiers up to a member of a class, in the file and in the tree.
LEMMA SpecifiersUpTo ==
    ASSUME TreeInv, Ordered(file.cursors, entities), NEW p \in DOMAIN entities, entities[p].kind = "class",
           NEW e \in Kids(p)
    PROVE  LET T == Specifiers({m \in Kids(p) : m <= e})
               K == {k \in Cursors : KindOf(k) = "access_specifier" /\ Cursor(k).parent = entities[p].cursor /\ k <= entities[e].cursor}
           IN /\ \A m \in T : entities[m].cursor \in K
              /\ \A s \in K : \E m \in T : entities[m].cursor = s
              /\ \A l, m \in T : l <= m => entities[l].cursor <= entities[m].cursor
<1> DEFINE cs == file.cursors
           M == MembersOf(entities, p)
           T == Specifiers({m \in Kids(p) : m <= e})
           K == {k \in Cursors : KindOf(k) = "access_specifier" /\ Cursor(k).parent = entities[p].cursor /\ k <= entities[e].cursor}
<1>1. Kids(p) = M
  BY DEF Kids, MembersOf
<1>2. \A m \in M : /\ entities[m].kind # "file" /\ entities[m].cursor \in DOMAIN cs
                   /\ cs[entities[m].cursor].parent = entities[p].cursor
  BY DEF Ordered, ClassOK
<1>3. \A d, m \in M : d < m => entities[d].cursor < entities[m].cursor
  BY DEF Ordered, ClassOK
<1>4. \A s \in SpecifiersOf(cs, entities[p].cursor) : s <= entities[e].cursor => Known(entities, p, s)
  BY <1>1 DEF Ordered, ClassOK
<1>5. \A m \in M : m \in Nat /\ m \in DOMAIN entities /\ entities[m].cursor \in Nat
  BY MembersFacts DEF TreeInv
<1>6. \A m \in M : Made(cs, entities[m])
  BY <1>5 DEF TreeInv, Placed
<1>7. \A m \in M : entities[m].kind = "access_specifier" <=> cs[entities[m].cursor].kind = "access_specifier"
  BY <1>2, <1>6 DEF Made, ClassKinds, FunctionTemplateKinds
<1>8. \A l, m \in M : l <= m => entities[l].cursor <= entities[m].cursor
  <2>1. ASSUME NEW l \in M, NEW m \in M, l <= m PROVE entities[l].cursor <= entities[m].cursor
    <3>1. l = m \/ l < m
      BY <1>5, <2>1
    <3> QED
      BY <1>3, <1>5, <3>1
  <2> QED
    BY <2>1
<1>9. ASSUME NEW m \in T PROVE entities[m].cursor \in K
  <2>1. m \in M /\ m <= e /\ entities[m].kind = "access_specifier"
    BY <1>1 DEF Specifiers
  <2>2. entities[m].cursor <= entities[e].cursor
    BY <1>1, <1>8, <2>1
  <2> QED
    BY <1>2, <1>7, <2>1, <2>2 DEF Cursors, KindOf, Cursor
<1>10. ASSUME NEW s \in K PROVE \E m \in T : entities[m].cursor = s
  <2>1. s \in SpecifiersOf(cs, entities[p].cursor) /\ s <= entities[e].cursor /\ cs[s].kind = "access_specifier"
    BY DEF SpecifiersOf, Cursors, KindOf, Cursor
  <2>2. PICK m \in M : entities[m].cursor = s
    BY <1>4, <2>1 DEF Known
  <2>3. ~ (e < m)
    BY <1>1, <1>3, <1>5, <2>1, <2>2
  <2>4. m <= e
    BY <1>1, <1>5, <2>3
  <2>5. entities[m].kind = "access_specifier"
    BY <1>7, <2>1, <2>2
  <2> QED
    BY <1>1, <2>2, <2>4, <2>5 DEF Specifiers
<1>11. \A l, m \in T : l <= m => entities[l].cursor <= entities[m].cursor
  BY <1>1, <1>8 DEF Specifiers
<1> QED
  BY <1>9, <1>10, <1>11

\* The access C++ gives to a member is that of the last specifier among the members up to it.
LEMMA AccessOfMember ==
    ASSUME TreeInv, Ordered(file.cursors, entities), NEW p \in DOMAIN entities, NEW e \in Kids(p)
    PROVE  MemberAccess(e) = AccessAfter(p, {m \in Kids(p) : m <= e})
<1>1. Parent(e) = p /\ e \in DOMAIN entities /\ p # 0
  <2>1. Forest(entities)
    BY DEF TreeInv
  <2> QED
    BY <2>1 DEF Kids, Parent, Forest
<1>2. CASE entities[p].kind # "class"
  <2>1. Specifiers({m \in Kids(p) : m <= e}) = {}
    BY <1>1, <1>2, OnlyClassesSpecify
  <2> QED
    BY <1>1, <1>2, <2>1 DEF AccessAfter, InitialAccess, MemberAccess
<1>3. CASE entities[p].kind = "class"
  <2> DEFINE T == Specifiers({m \in Kids(p) : m <= e})
             K == {k \in Cursors : KindOf(k) = "access_specifier" /\ Cursor(k).parent = entities[p].cursor /\ k <= entities[e].cursor}
  <2>1. /\ \A m \in T : entities[m].cursor \in K
        /\ \A s \in K : \E m \in T : entities[m].cursor = s
        /\ \A l, m \in T : l <= m => entities[l].cursor <= entities[m].cursor
    BY <1>3, SpecifiersUpTo
  <2>2. MemberAccess(e) = IF K # {} THEN Cursor(Max(K)).access ELSE InitialAccess(p)
    BY <1>1, <1>3 DEF MemberAccess, InitialAccess
  <2>3. AccessAfter(p, {m \in Kids(p) : m <= e}) = IF T = {} THEN InitialAccess(p) ELSE Cursor(entities[Max(T)].cursor).access
    BY DEF AccessAfter
  <2>4. T \subseteq DOMAIN entities /\ K \subseteq DOMAIN file.cursors
    BY DEF Specifiers, Kids, Cursors
  <2>5. Len(entities) \in Nat /\ DOMAIN entities = 1 .. Len(entities)
    BY DEF TreeInv, Forest
  <2>6. Len(file.cursors) \in Nat /\ DOMAIN file.cursors = 1 .. Len(file.cursors)
    BY FilesAssumption DEF TreeInv
  <2> HIDE DEF T, K
  <2>7. CASE T = {}
    BY <2>1, <2>2, <2>3, <2>7
  <2>8. CASE T # {}
    <3> DEFINE t == Max(T)
    <3>1. T \in SUBSET (1 .. Len(entities))
      BY <2>4, <2>5
    <3>2. t \in T /\ \A i \in T : t >= i
      BY <2>5, <2>8, <3>1, Greatest
    <3> HIDE DEF t
    <3>3. \A i \in T : i <= t
      BY <2>4, <2>5, <3>2
    <3>4. entities[t].cursor \in K /\ \A s \in K : s <= entities[t].cursor
      BY <2>1, <3>2, <3>3
    <3>5. K \in SUBSET (1 .. Len(file.cursors))
      BY <2>4, <2>6
    <3>6. Max(K) = entities[t].cursor
      BY <2>6, <3>4, <3>5, MaxIs
    <3> QED
      BY <2>2, <2>3, <2>8, <3>4, <3>6 DEF t
  <2> QED
    BY <2>7, <2>8
<1> QED
  BY <1>2, <1>3

----------------------------------------------------------------------------
(* The visit.                                                              *)

RightEvents(evs) == \A k \in DOMAIN evs : evs[k].access = RightAccess(evs[k].entity)

\* A call of handle_container and the access it has reached, unless it has nothing left to do.
RightCall(call) ==
    /\ call.access = RightAccess(call.entity)
    /\ call.todo # <<>> => call.child_access = AccessAfter(call.entity, Kids(call.entity) \ Rest(call))

RightCalls(os) == \A i \in DOMAIN os : RightCall(os[i])

VisitAccess ==
    /\ mode \in {"visit", "visited"} => RightEvents(events)
    /\ mode = "visit" => RightCalls(open)

\* They depend on the tree and the file alone.
LEMMA SameAccess ==
    ASSUME UNCHANGED <<entities, file>>
    PROVE  /\ \A evs : RightEvents(evs)' <=> RightEvents(evs)
           /\ \A os : RightCalls(os)' <=> RightCalls(os)
<1>1. \A e : InitialAccess(e)' = InitialAccess(e)
  BY DEF InitialAccess, Cursor
<1>2. \A S : Specifiers(S)' = Specifiers(S)
  BY DEF Specifiers
<1>3. \A k, S : AccessAfter(k, S)' = AccessAfter(k, S)
  BY <1>1, <1>2 DEF AccessAfter, Cursor
<1>4. \A e : MemberAccess(e)' = MemberAccess(e)
  BY DEF MemberAccess, Parent, Cursor, KindOf, Cursors
<1>5. \A e : RightAccess(e)' = RightAccess(e)
  BY <1>4 DEF RightAccess
<1>6. \A e : Kids(e)' = Kids(e)
  BY DEF Kids
<1>7. \A call : RightCall(call)' <=> RightCall(call)
  BY <1>3, <1>5, <1>6 DEF RightCall, Rest, Elements
<1> QED
  BY <1>5, <1>7 DEF RightEvents, RightCalls

\* What the callback is told is the access of the call.
LEMMA ToldRight ==
    ASSUME events \in Seq(EventType), refused \subseteq DOMAIN events, RightEvents(events),
           NEW call \in CallType, call.access = RightAccess(call.entity), NEW type \in {"enter", "leaf", "exit"},
           Tell(Event(type, call), TRUE) \/ Tell(Event(type, call), FALSE)
    PROVE  RightEvents(events')
<1> DEFINE ev == Event(type, call)
<1>1. ev \in EventType /\ ev.entity = call.entity /\ ev.access = call.access
  BY NewEvent DEF Event
<1>2. Tell(ev, TRUE) \/ Tell(ev, FALSE)
  OBVIOUS
<1> HIDE DEF ev
<1>3. ToldEvent(events, refused, ev, events', refused')
  BY <1>1, <1>2, TellFacts
<1>4. /\ \A k \in DOMAIN events : events'[k] = events[k]
      /\ \A k \in DOMAIN events' : k \in DOMAIN events \/ events'[k] = ev
  BY <1>3, ToldFacts
<1> QED
  BY <1>1, <1>4 DEF RightEvents

\* A call that begins has passed none of the children, or does not ask for them.
LEMMA VisitRight ==
    ASSUME Forest(entities), events \in Seq(EventType), refused \subseteq DOMAIN events, RightEvents(events),
           NEW call \in CallType, call.access = RightAccess(call.entity),
           call.child_access = InitialAccess(call.entity),
           NEW calls \in Seq(CallType), RightCalls(calls), Visit(call, calls)
    PROVE  RightEvents(events') /\ RightCalls(open')
<1>1. Enters(call, calls) \/ SkipsChildren(call, calls) \/ ShowsLeaf(call, calls) \/ Aborts(call)
  BY VisitOutcomes
<1>2. RightEvents(events')
  <2>1. \E type \in {"enter", "leaf", "exit"} : Tell(Event(type, call), TRUE) \/ Tell(Event(type, call), FALSE)
    BY <1>1 DEF Enters, SkipsChildren, ShowsLeaf, Aborts
  <2> QED
    BY <2>1, ToldRight
<1>3. ASSUME NEW s \in Seq(Nat), open' = Append(calls, [call EXCEPT !.todo = s]),
             s = <<>> \/ Elements(s) = Kids(call.entity)
      PROVE  RightCalls(open')
  <2> DEFINE call2 == [call EXCEPT !.todo = s]
  <2>1. /\ call2 \in CallType /\ call2.entity = call.entity /\ call2.access = call.access /\ call2.todo = s
        /\ call2.child_access = call.child_access
    BY DEF CallType
  <2>2. open' = Append(calls, call2)
    BY <1>3
  <2> HIDE DEF call2
  <2>3. s # <<>> => Kids(call2.entity) \ Rest(call2) = {}
    BY <1>3, <2>1 DEF Rest
  <2>4. RightCall(call2)
    BY <2>1, <2>3, AccessBefore DEF RightCall
  <2>5. /\ Len(calls) \in Nat /\ DOMAIN open' = 1 .. Len(calls) + 1 /\ open'[Len(calls) + 1] = call2
        /\ \A i \in 1 .. Len(calls) : open'[i] = calls[i]
    BY <2>1, <2>2, AppendedSeq
  <2>6. ASSUME NEW i \in DOMAIN open' PROVE RightCall(open'[i])
    <3>1. CASE i = Len(calls) + 1
      BY <2>4, <2>5, <3>1
    <3>2. CASE i # Len(calls) + 1
      <4>1. i \in 1 .. Len(calls)
        BY <2>5, <3>2
      <4> QED
        BY <2>5, <4>1 DEF RightCalls
    <3> QED
      BY <3>1, <3>2
  <2> QED
    BY <2>6 DEF RightCalls
<1>4. CASE Enters(call, calls)
  <2>1. ChildrenOf(call.entity, "child") \in Seq(Nat) /\ Elements(ChildrenOf(call.entity, "child")) = Kids(call.entity)
    BY KidsFacts
  <2>2. open' = Append(calls, [call EXCEPT !.todo = ChildrenOf(call.entity, "child")])
    BY <1>4 DEF Enters
  <2> QED
    BY <1>2, <1>3, <2>1, <2>2
<1>5. CASE SkipsChildren(call, calls)
  <2>1. open' = Append(calls, [call EXCEPT !.todo = <<>>])
    BY <1>5 DEF SkipsChildren
  <2>2. <<>> \in Seq(Nat)
    OBVIOUS
  <2> QED
    BY <1>2, <1>3, <2>1, <2>2
<1>6. CASE ShowsLeaf(call, calls)
  BY <1>2, <1>6 DEF ShowsLeaf
<1>7. CASE Aborts(call)
  BY <1>2, <1>7 DEF Aborts, RightCalls
<1> QED
  BY <1>1, <1>4, <1>5, <1>6, <1>7

\* The child that is visited next, and what its parent has passed then.
LEMMA PassedChildren ==
    ASSUME Forest(entities), NEW e, NEW q \in Seq(Nat), q # <<>>, Increasing(q), Elements(q) \subseteq Kids(e),
           \A d \in Kids(e) \ Elements(q), t \in Elements(q) : d < t
    PROVE  LET c == Head(q)
               gone == Kids(e) \ Elements(q)
           IN /\ c \in Kids(e) /\ c \in DOMAIN entities /\ gone \in SUBSET (DOMAIN entities) /\ \A s \in gone : s < c
              /\ gone \cup {c} = {m \in Kids(e) : m <= c}
              /\ gone \cup {c} = Kids(e) \ Elements(Tail(q))
<1> DEFINE c == Head(q)
           gone == Kids(e) \ Elements(q)
<1>1. c \in Elements(q) /\ Elements(Tail(q)) = Elements(q) \ {c} /\ \A t \in Elements(Tail(q)) : c < t
  BY TailFacts
<1> HIDE DEF c
<1>2. \A k \in Kids(e) : k \in Nat /\ k \in DOMAIN entities
  BY KidsFacts
<1>3. c \in Kids(e) /\ \A s \in gone : s < c
  BY <1>1
<1>4. ASSUME NEW m \in Kids(e) PROVE m \in gone \cup {c} <=> m <= c
  <2>1. CASE m = c
    BY <1>2, <1>3, <2>1
  <2>2. CASE m # c /\ m \in Elements(q)
    <3>1. c < m /\ m \in Nat /\ c \in Nat
      BY <1>1, <1>2, <1>3, <2>2
    <3> QED
      BY <2>2, <3>1
  <2>3. CASE m \notin Elements(q)
    <3>1. m < c /\ m \in Nat /\ c \in Nat
      BY <1>2, <1>3, <2>3
    <3> QED
      BY <2>3, <3>1
  <2> QED
    BY <2>1, <2>2, <2>3
<1>5. gone \cup {c} = {m \in Kids(e) : m <= c}
  BY <1>3, <1>4
<1>6. gone \cup {c} = Kids(e) \ Elements(Tail(q))
  BY <1>1, <1>3
<1> QED
  BY <1>2, <1>3, <1>5, <1>6 DEF c

LEMMA RootAccess == ASSUME TreeInv, VisitInv, VisitRoot PROVE VisitAccess'
<1> DEFINE call == Call(1, "public", FALSE, <<>>)
<1>1. /\ mode = "visit_root" /\ open = <<call>> /\ events = <<>> /\ refused = {}
      /\ Visit(Last(open), <<>>) /\ UNCHANGED <<entities, file>>
  BY DEF VisitRoot, VisitInv, treeVars
<1>2. Forest(entities) /\ 1 \in DOMAIN entities
  BY DEF TreeInv, Forest
<1>3. Last(open) = call
  BY <1>1 DEF Last
<1>4. call \in CallType /\ call.access = RightAccess(call.entity) /\ call.child_access = InitialAccess(call.entity)
  <2> DEFINE a == "public"
  <2>1. a \in Accesses
    BY DEF Accesses
  <2> HIDE DEF a
  <2>2. Call(1, a, FALSE, <<>>) \in CallType
    BY <1>2, <2>1, NewCall
  <2> QED
    BY <2>2 DEF Call, RightAccess, a
<1> HIDE DEF call
<1>5. RightEvents(events) /\ RightCalls(<<>>) /\ events \in Seq(EventType) /\ refused \subseteq DOMAIN events
      /\ <<>> \in Seq(CallType)
  BY <1>1 DEF RightEvents, RightCalls
<1>6. Visit(call, <<>>)
  BY <1>1, <1>3
<1>7. RightEvents(events') /\ RightCalls(open')
  BY <1>2, <1>4, <1>5, <1>6, VisitRight
<1> QED
  BY <1>1, <1>7, SameAccess DEF VisitAccess

LEMMA ChildAccess ==
    ASSUME TreeInv, Ordered(file.cursors, entities), VisitInv, VisitAccess, VisitChild
    PROVE  VisitAccess'
<1> DEFINE o == Last(open)
           e == o.entity
           q == o.todo
           c == Head(q)
           access == UpdatedAccess(o.child_access, c)
           last == Tail(o.todo) = <<>>
           call == Call(c, access, last, <<>>)
           calls == [open EXCEPT ![Len(open)].todo = Tail(@), ![Len(open)].child_access = access]
           n == Len(open)
<1>1. /\ mode = "visit" /\ q # <<>> /\ Visit(call, calls) /\ UNCHANGED <<entities, file>>
  BY DEF VisitChild, treeVars
<1>2. Forest(entities) /\ Visiting(events, refused, open) /\ RightEvents(events) /\ RightCalls(open)
  BY <1>1 DEF TreeInv, VisitInv, VisitAccess
<1>3. EventsOK(events, refused) /\ CallsOK(events, refused, open)
  BY <1>2 DEF Visiting
<1>4. events \in Seq(EventType) /\ refused \subseteq DOMAIN events
  BY <1>3 DEF EventsOK
<1>5. /\ open \in Seq(CallType) /\ n \in DOMAIN open /\ o = open[n] /\ o \in CallType /\ e \in DOMAIN entities
      /\ q \in Seq(Nat) /\ open # <<>>
  BY <1>2, <1>3, CallFacts
<1>6. Increasing(q) /\ Elements(q) \subseteq Kids(e) /\ \A d \in Kids(e) \ Elements(q), t \in Elements(q) : d < t
  BY <1>3, <1>5 DEF CallsOK, VisitCallOK, Rest
<1>7. o.child_access = AccessAfter(e, Kids(e) \ Elements(q)) /\ o.access = RightAccess(e)
  BY <1>1, <1>2, <1>5 DEF RightCalls, RightCall, Rest
<1>8. last \in BOOLEAN
  OBVIOUS
<1> HIDE DEF o, q, last
<1>9. /\ c \in Kids(e) /\ c \in DOMAIN entities /\ Kids(e) \ Elements(q) \in SUBSET (DOMAIN entities)
      /\ \A s \in Kids(e) \ Elements(q) : s < c
      /\ (Kids(e) \ Elements(q)) \cup {c} = {m \in Kids(e) : m <= c}
      /\ (Kids(e) \ Elements(q)) \cup {c} = Kids(e) \ Elements(Tail(q))
  BY <1>1, <1>2, <1>5, <1>6, PassedChildren
<1>10. access = AccessAfter(e, (Kids(e) \ Elements(q)) \cup {c})
  BY <1>2, <1>7, <1>9, AccessBehind
<1>11. access = MemberAccess(c) /\ access = AccessAfter(e, Kids(e) \ Elements(Tail(q)))
  BY <1>5, <1>9, <1>10, AccessOfMember
<1>12. c # 1
  <2>1. entities[c].parent = e /\ entities[1].parent = 0 /\ e # 0
    BY <1>2, <1>5, <1>9 DEF Kids, Forest
  <2> QED
    BY <2>1
<1>13. access \in Accesses
  <2>1. o.child_access \in Accesses
    BY <1>5 DEF CallType
  <2> QED
    BY <1>2, <1>9, <2>1, AccessFacts
<1> HIDE DEF c, access
<1>14. call \in CallType /\ call.access = RightAccess(call.entity) /\ call.child_access = InitialAccess(call.entity)
  <2>1. call \in CallType
    BY <1>2, <1>8, <1>9, <1>13, NewCall
  <2> QED
    BY <1>11, <1>12, <2>1 DEF Call, RightAccess
<1>15. calls \in Seq(CallType) /\ RightCalls(calls)
  <2> DEFINE o2 == [o EXCEPT !.todo = Tail(q), !.child_access = access]
  <2>1. o2 \in CallType /\ o2.entity = e /\ o2.access = o.access /\ o2.todo = Tail(q) /\ o2.child_access = access
    <3>1. Tail(q) \in Seq(Nat)
      BY <1>1, <1>5
    <3> QED
      BY <1>5, <1>13, <3>1 DEF CallType
  <2>2. RightCall(o2)
    <3> HIDE DEF o2
    <3> QED
      BY <1>7, <1>11, <2>1 DEF RightCall, Rest
  <2>3. calls = [open EXCEPT ![n] = o2]
    BY <1>5 DEF q
  <2> HIDE DEF o2, calls, n
  <2>4. calls \in Seq(CallType) /\ DOMAIN calls = DOMAIN open /\ calls[n] = o2 /\ \A j \in DOMAIN open : j # n => calls[j] = open[j]
    BY <1>5, <2>1, <2>3, ChangedSeq
  <2> QED
    BY <1>2, <2>2, <2>4 DEF RightCalls
<1> HIDE DEF call, calls
<1>16. RightEvents(events') /\ RightCalls(open')
  BY <1>1, <1>2, <1>4, <1>14, <1>15, VisitRight
<1> QED
  BY <1>1, <1>16, SameAccess DEF VisitAccess

LEMMA LeaveAccess == ASSUME TreeInv, VisitInv, VisitAccess, LeaveContainer PROVE VisitAccess'
<1> DEFINE call == Last(open)
<1>1. mode = "visit" /\ UNCHANGED <<entities, file>>
  BY DEF LeaveContainer, treeVars
<1>2. Forest(entities) /\ Visiting(events, refused, open) /\ RightEvents(events) /\ RightCalls(open)
  BY <1>1 DEF TreeInv, VisitInv, VisitAccess
<1>3. EventsOK(events, refused) /\ CallsOK(events, refused, open)
  BY <1>2 DEF Visiting
<1>4. events \in Seq(EventType) /\ refused \subseteq DOMAIN events
  BY <1>3 DEF EventsOK
<1>5. Len(open) \in DOMAIN open /\ call = open[Len(open)] /\ open[Len(open)] \in CallType /\ open \in Seq(CallType)
  BY <1>2, <1>3, CallFacts
<1>6. call.access = RightAccess(call.entity)
  BY <1>2, <1>5 DEF RightCalls, RightCall
<1>7. \E answer \in Answers("exit", call.entity) : Tell(Event("exit", call), answer) /\ open' = IF answer THEN Front(open) ELSE <<>>
  BY DEF LeaveContainer
<1> HIDE DEF call
<1>8. PICK answer \in Answers("exit", call.entity) :
        Tell(Event("exit", call), answer) /\ open' = IF answer THEN Front(open) ELSE <<>>
  BY <1>7
<1>9. answer = TRUE \/ answer = FALSE
  BY AnswersFacts
<1>10. RightEvents(events')
  <2>1. Tell(Event("exit", call), TRUE) \/ Tell(Event("exit", call), FALSE)
    BY <1>8, <1>9
  <2> QED
    BY <1>2, <1>4, <1>5, <1>6, <2>1, ToldRight
<1>11. RightCalls(open')
  <2>1. CASE answer = TRUE
    <3>1. open' = Front(open)
      BY <1>8, <2>1
    <3>2. DOMAIN open' \subseteq DOMAIN open /\ \A i \in DOMAIN open' : open'[i] = open[i]
      BY <1>5, <3>1 DEF Front
    <3> QED
      BY <1>2, <3>2 DEF RightCalls
  <2>2. CASE answer = FALSE
    BY <1>8, <2>2 DEF RightCalls
  <2> QED
    BY <1>9, <2>1, <2>2
<1> QED
  BY <1>1, <1>10, <1>11, SameAccess DEF VisitAccess

\* Any other step is no part of a visit, or begins one.
LEMMA OtherAccess ==
    ASSUME VisitAccess, Parse \/ BeginVisit \/ BeginGenerate \/ GenerateNext \/ Stop \/ UNCHANGED vars
    PROVE  VisitAccess'
<1>1. ASSUME mode' \notin {"visit", "visited"} PROVE VisitAccess'
  BY <1>1 DEF VisitAccess
<1>2. CASE UNCHANGED vars
  <2>1. UNCHANGED <<mode, entities, file, events, open>>
    BY <1>2 DEF vars, treeVars, visitVars
  <2>2. mode' \in {"visit", "visited"} => RightEvents(events)'
    <3>1. ASSUME mode \in {"visit", "visited"} PROVE RightEvents(events')
      BY <2>1, <3>1 DEF VisitAccess
    <3> QED
      BY <2>1, <3>1, SameAccess
  <2>3. mode' = "visit" => RightCalls(open)'
    <3>1. ASSUME mode = "visit" PROVE RightCalls(open')
      BY <2>1, <3>1 DEF VisitAccess
    <3> QED
      BY <2>1, <3>1, SameAccess
  <2> QED
    BY <2>2, <2>3 DEF VisitAccess
<1>3. CASE Parse
  BY <1>1, <1>3, ParseIsParsing, ParseModes DEF Parse
<1>4. CASE BeginVisit
  BY <1>1, <1>4 DEF BeginVisit, StartVisit
<1>5. CASE BeginGenerate
  BY <1>1, <1>5 DEF BeginGenerate, StartGenerate
<1>6. CASE GenerateNext
  BY <1>1, <1>6 DEF GenerateNext, WriteDirect, SkipExcluded, WriteItem, WriteParameter, WriteBase, UpdateAccess, WriteMember,
     FinishList, FinishEntity, FinishGenerate, InList, Unchanged
<1>7. CASE Stop
  BY <1>2, <1>7 DEF Stop
<1> QED
  BY <1>2, <1>3, <1>4, <1>5, <1>6, <1>7

----------------------------------------------------------------------------
(* The access specifiers in the text.                                      *)

OfClass(k) == k \in DOMAIN entities /\ entities[k].kind = "class"

IsMember(e) == OfClass(Parent(e)) /\ entities[e].role = "child"

\* The specifiers written for a class in the first i places, and the access of the last.
AccessMarks(txt, i, k) == {j \in 1 .. i : txt[j].mark = "access" /\ txt[j].entity = k}

LastWritten(txt, i, k) ==
    IF AccessMarks(txt, i, k) = {} THEN InitialAccess(k) ELSE txt[Max(AccessMarks(txt, i, k))].access

WrittenIn(txt, k) == LastWritten(txt, Len(txt), k)

\* A member begins with its access, behind the specifier of it.
TextRight(txt) ==
    \A i \in DOMAIN txt : txt[i].mark = "begin" /\ IsMember(txt[i].entity) =>
      txt[i].access = MemberAccess(txt[i].entity) /\ LastWritten(txt, i, Parent(txt[i].entity)) = txt[i].access

Specifies(m, k) == m.mark = "access" /\ m.entity = k

\* Marks that are behind the last specifier do not matter.
LEMMA LastKept ==
    ASSUME NEW txt, NEW u, NEW i \in Nat, NEW j \in Nat, i <= j, \A m \in 1 .. i : u[m] = txt[m],
           NEW k, \A m \in 1 .. j : m \notin 1 .. i => ~Specifies(u[m], k)
    PROVE  LastWritten(u, j, k) = LastWritten(txt, i, k)
<1> DEFINE S == AccessMarks(txt, i, k)
<1>1. S = AccessMarks(u, j, k)
  <2>1. ASSUME NEW m PROVE m \in AccessMarks(u, j, k) <=> m \in S
    <3>1. CASE m \in 1 .. i
      <4>1. m \in 1 .. j /\ u[m] = txt[m]
        BY <3>1
      <4> QED
        BY <3>1, <4>1 DEF AccessMarks
    <3>2. CASE m \notin 1 .. i
      BY <3>2 DEF AccessMarks, Specifies
    <3> QED
      BY <3>1, <3>2
  <2> QED
    BY <2>1
<1>2. S \in SUBSET (1 .. i)
  BY DEF AccessMarks
<1> HIDE DEF S
<1>3. S # {} => Max(S) \in S
  BY <1>2, Greatest
<1>4. S # {} => u[Max(S)] = txt[Max(S)]
  BY <1>2, <1>3
<1> QED
  BY <1>1, <1>4 DEF LastWritten, S

\* Text behind which something is written.
LEMMA LastBehind ==
    ASSUME NEW txt, NEW s, Listing(txt), Listing(s), NEW k
    PROVE  /\ \A i \in DOMAIN txt : LastWritten(txt \o s, i, k) = LastWritten(txt, i, k)
           /\ (\A m \in DOMAIN s : ~Specifies(s[m], k)) => WrittenIn(txt \o s, k) = WrittenIn(txt, k)
<1> DEFINE u == txt \o s
           n == Len(txt)
           l == Len(u)
<1>1. /\ Listing(u) /\ l = n + Len(s) /\ n \in Nat /\ Len(s) \in Nat /\ DOMAIN txt = 1 .. n /\ DOMAIN s = 1 .. Len(s)
      /\ \A m \in 1 .. n : u[m] = txt[m]
  BY Concatenated, ListingFacts
<1>2. Behind(txt, s, u)
  BY WrittenBehind
<1>3. l \in Nat /\ n <= l /\ DOMAIN u = 1 .. l
  BY <1>1, ListingFacts
<1> HIDE DEF u, l, n
<1>4. ASSUME NEW i \in DOMAIN txt PROVE LastWritten(u, i, k) = LastWritten(txt, i, k)
  <2>1. i \in Nat /\ i <= i /\ \A m \in 1 .. i : u[m] = txt[m]
    BY <1>1
  <2> QED
    BY <2>1, LastKept
<1>5. ASSUME \A m \in DOMAIN s : ~Specifies(s[m], k) PROVE LastWritten(u, l, k) = LastWritten(txt, n, k)
  <2>1. \A m \in 1 .. l : m \notin 1 .. n => ~Specifies(u[m], k)
    <3>1. ASSUME NEW m \in 1 .. l, m \notin 1 .. n PROVE ~Specifies(u[m], k)
      <4>1. PICK p \in DOMAIN s : m = n + p
        BY <1>1, <1>2, <1>3, <3>1 DEF Behind, n
      <4> QED
        BY <1>2, <1>5, <4>1 DEF Behind, n
    <3> QED
      BY <3>1
  <2> QED
    BY <1>1, <1>3, <2>1, LastKept
<1> QED
  BY <1>4, <1>5 DEF WrittenIn, u, l, n

\* Nothing else begins.
LEMMA TextGrown ==
    ASSUME NEW txt, NEW s, Listing(txt), Listing(s), TextRight(txt), \A m \in DOMAIN s : s[m].mark # "begin"
    PROVE  TextRight(txt \o s)
<1> DEFINE u == txt \o s
<1>1. Behind(txt, s, u)
  BY WrittenBehind
<1>2. \A i \in DOMAIN txt : \A k : LastWritten(u, i, k) = LastWritten(txt, i, k)
  BY LastBehind
<1> HIDE DEF u
<1>3. ASSUME NEW i \in DOMAIN u, u[i].mark = "begin" PROVE i \in DOMAIN txt /\ u[i] = txt[i]
  <2>1. CASE i \in DOMAIN txt
    BY <1>1, <2>1 DEF Behind, Extends
  <2>2. CASE i \notin DOMAIN txt
    <3>1. PICK p \in DOMAIN s : i = Len(txt) + p
      BY <1>1, <2>2 DEF Behind
    <3> QED
      BY <1>1, <1>3, <3>1 DEF Behind
  <2> QED
    BY <2>1, <2>2
<1>4. TextRight(u)
  BY <1>2, <1>3 DEF TextRight
<1> QED
  BY <1>4 DEF u

\* A sequence of one mark.
LEMMA OneMark == ASSUME NEW m PROVE Listing(<<m>>) /\ DOMAIN <<m>> = {1} /\ <<m>>[1] = m /\ Len(<<m>>) = 1
<1>1. <<m>> \in Seq({m}) /\ DOMAIN <<m>> = {1} /\ <<m>>[1] = m /\ Len(<<m>>) = 1
  BY Z3
<1> QED
  BY <1>1, SeqListing

\* An entity begins.
LEMMA TextBegun ==
    ASSUME NEW txt, Listing(txt), TextRight(txt), NEW m, m.mark = "begin",
           IsMember(m.entity) => m.access = MemberAccess(m.entity) /\ WrittenIn(txt, Parent(m.entity)) = m.access
    PROVE  /\ Listing(txt \o <<m>>) /\ TextRight(txt \o <<m>>)
           /\ \A k : WrittenIn(txt \o <<m>>, k) = WrittenIn(txt, k)
<1> DEFINE s == <<m>>
           u == txt \o s
<1>1. Listing(s) /\ DOMAIN s = {1} /\ s[1] = m /\ Len(s) = 1
  BY OneMark
<1> HIDE DEF s
<1>2. Listing(u) /\ Len(u) = Len(txt) + 1 /\ Len(txt) \in Nat /\ DOMAIN txt = 1 .. Len(txt)
  <2>1. Listing(u) /\ Len(u) = Len(txt) + Len(s)
    BY <1>1, Concatenated
  <2>2. Len(txt) \in Nat /\ DOMAIN txt = 1 .. Len(txt)
    BY ListingFacts
  <2> QED
    BY <1>1, <2>1, <2>2
<1>3. Behind(txt, s, u)
  BY <1>1, WrittenBehind
<1>4. \A i \in DOMAIN txt : \A k : LastWritten(u, i, k) = LastWritten(txt, i, k)
  BY <1>1, LastBehind
<1>5. \A k : WrittenIn(u, k) = WrittenIn(txt, k)
  <2>1. \A k : \A p \in DOMAIN s : ~Specifies(s[p], k)
    BY <1>1 DEF Specifies
  <2> QED
    BY <1>1, <2>1, LastBehind
<1> HIDE DEF u
<1>6. ASSUME NEW i \in DOMAIN u, u[i].mark = "begin", IsMember(u[i].entity)
      PROVE  u[i].access = MemberAccess(u[i].entity) /\ LastWritten(u, i, Parent(u[i].entity)) = u[i].access
  <2>1. CASE i \in DOMAIN txt
    <3>1. u[i] = txt[i]
      BY <1>3, <2>1 DEF Behind, Extends
    <3> QED
      BY <1>4, <1>6, <2>1, <3>1 DEF TextRight
  <2>2. CASE i \notin DOMAIN txt
    <3>1. i = Len(u) /\ u[i] = m
      <4>1. PICK p \in DOMAIN s : i = Len(txt) + p
        BY <1>3, <2>2 DEF Behind
      <4> QED
        BY <1>1, <1>2, <1>3, <4>1 DEF Behind
    <3>2. LastWritten(u, i, Parent(m.entity)) = WrittenIn(txt, Parent(m.entity))
      BY <1>5, <3>1 DEF WrittenIn
    <3> QED
      BY <1>6, <3>1, <3>2
  <2> QED
    BY <2>1, <2>2
<1>7. TextRight(u)
  BY <1>6 DEF TextRight
<1> QED
  BY <1>2, <1>5, <1>7 DEF u, s

\* A specifier is written.
LEMMA TextSpecified ==
    ASSUME NEW txt, Listing(txt), NEW k, NEW a
    PROVE  WrittenIn(txt \o <<AccessMark(k, a)>>, k) = a
<1> DEFINE m == AccessMark(k, a)
           s == <<m>>
           u == txt \o s
           n == Len(u)
           S == AccessMarks(u, n, k)
<1>0. m.mark = "access" /\ m.entity = k /\ m.access = a
  BY DEF AccessMark
<1> HIDE DEF m
<1>1. Listing(s) /\ DOMAIN s = {1} /\ s[1] = m /\ Len(s) = 1
  BY OneMark
<1> HIDE DEF s
<1>2. Listing(u) /\ n = Len(txt) + 1 /\ Len(txt) \in Nat /\ DOMAIN u = 1 .. n
  <2>1. Listing(u) /\ n = Len(txt) + Len(s) /\ Len(txt) \in Nat
    BY <1>1, Concatenated, ListingFacts
  <2>2. DOMAIN u = 1 .. n
    BY <2>1, ListingFacts
  <2> QED
    BY <1>1, <2>1, <2>2
<1>3. Behind(txt, s, u)
  BY <1>1, WrittenBehind
<1>4. u[n] = m
  BY <1>1, <1>2, <1>3 DEF Behind
<1> HIDE DEF u, n
<1>5. n \in S /\ S \in SUBSET (1 .. n) /\ n \in Nat /\ \A i \in S : i <= n
  BY <1>0, <1>2, <1>4 DEF AccessMarks
<1> HIDE DEF S
<1>6. Max(S) = n /\ S # {}
  BY <1>5, MaxIs
<1>7. LastWritten(u, n, k) = a
  BY <1>0, <1>4, <1>6 DEF LastWritten, S
<1> QED
  BY <1>7 DEF WrittenIn, u, n, s, m

----------------------------------------------------------------------------
(* The calls of generate_class.                                            *)

\* The list of the members, which is the last one.
Members(call) == call.lists[Len(call.lists)]

\* In front of which there may be bases.
BasesFirst(call) ==
    Len(call.lists) = 2 => call.lists[1].how = "bases" /\ \A d \in Rest(call.lists[1]) : entities[d].role = "base"

\* In front of the members there may be bases; last_access is that of the last specifier
\* among the members that are no longer in the list.
Passed(call) ==
    call.lists # <<>> =>
      /\ Len(call.lists) <= 2 /\ Members(call).how = "members"
      /\ Increasing(Members(call).todo) /\ Rest(Members(call)) \subseteq Kids(call.entity)
      /\ \A d \in Kids(call.entity) \ Rest(Members(call)), t \in Rest(Members(call)) : d < t
      /\ call.last_access = AccessAfter(call.entity, Kids(call.entity) \ Rest(Members(call)))
      /\ BasesFirst(call)

LEMMA PassedIs ==
    ASSUME NEW call, Len(call.lists) <= 2, Members(call).how = "members",
           Increasing(Members(call).todo), Rest(Members(call)) \subseteq Kids(call.entity),
           \A d \in Kids(call.entity) \ Rest(Members(call)), t \in Rest(Members(call)) : d < t,
           call.last_access = AccessAfter(call.entity, Kids(call.entity) \ Rest(Members(call))),
           BasesFirst(call)
    PROVE  Passed(call)
  BY DEF Passed

\* And last_written_access is that of the last specifier in the text.
ClassCall(call, txt) ==
    OfClass(call.entity) =>
      /\ "last_access" \in DOMAIN call /\ "last_written_access" \in DOMAIN call
      /\ Passed(call) /\ call.last_written_access = WrittenIn(txt, call.entity)

WritingRight(ws, txt) == TextRight(txt) /\ \A i \in DOMAIN ws : ClassCall(ws[i], txt)

WritingAccess ==
    /\ mode = "generate" => WritingRight(writing, text)
    /\ mode = "generated" => TextRight(text)

\* A call of generate_class begins.
LEMMA WritingPassed ==
    ASSUME TreeInv, NEW e, OfClass(e), NEW access
    PROVE  /\ "last_access" \in DOMAIN Writing(e, access) /\ "last_written_access" \in DOMAIN Writing(e, access)
           /\ Writing(e, access).entity = e /\ Writing(e, access).last_written_access = InitialAccess(e)
           /\ Passed(Writing(e, access))
<1> DEFINE call == Writing(e, access)
           bases == List("bases", ChildrenOf(e, "base"), <<",">>, <<>>, <<>>)
           members == List("members", ChildrenOf(e, "child"), <<"newline">>, <<"{">>, <<"container_end", "}">>)
<1>1. /\ "last_access" \in DOMAIN call /\ "last_written_access" \in DOMAIN call /\ call.entity = e
      /\ call.last_written_access = InitialAccess(e) /\ call.last_access = InitialAccess(e) /\ call.lists = Lists(e)
  BY DEF Writing
<1>2. Lists(e) = ClassLists(e)
  <2>1. "class" \notin TemplateKinds
    BY DEF TemplateKinds, SpecializationKinds, FunctionTemplateKinds
  <2> QED
    BY <2>1 DEF Lists, OfClass
<1>3. call.lists = <<>> \/ call.lists = <<bases, members>>
  BY <1>1, <1>2 DEF ClassLists
<1>4. bases.how = "bases" /\ bases.todo = ChildrenOf(e, "base") /\ members.how = "members" /\ members.todo = ChildrenOf(e, "child")
  BY DEF List
<1>5. /\ Elements(ChildrenOf(e, "base")) = Owned(e, "base")
      /\ Increasing(ChildrenOf(e, "child")) /\ Elements(ChildrenOf(e, "child")) = Kids(e)
  BY OwnedFacts, KidsFacts DEF TreeInv
<1> HIDE DEF call, bases, members
<1>6. CASE call.lists = <<bases, members>>
  <2> DEFINE lists == call.lists
  <2>1. Len(lists) = 2 /\ lists[1] = bases /\ lists[2] = members
    BY <1>6
  <2>2. Members(call) = members
    BY <2>1 DEF Members
  <2>3. Kids(e) \ Rest(members) = {}
    BY <1>4, <1>5 DEF Rest
  <2>4. call.last_access = AccessAfter(e, Kids(e) \ Rest(members))
    BY <1>1, <2>3, AccessBefore
  <2>5. \A d \in Rest(bases) : entities[d].role = "base"
    BY <1>4, <1>5 DEF Rest, Owned
  <2>6. Increasing(members.todo) /\ Rest(members) \subseteq Kids(e)
    BY <1>4, <1>5 DEF Rest
  <2>7. Passed(call)
    BY <1>1, <1>4, <2>1, <2>2, <2>3, <2>4, <2>5, <2>6 DEF Passed, BasesFirst
  <2> QED
    BY <1>1, <2>7 DEF call
<1>7. CASE call.lists = <<>>
  BY <1>1, <1>7 DEF Passed, call
<1> QED
  BY <1>3, <1>6, <1>7

\* An item is taken, be it a base or a member.
HeadTaken(lists, lists2) == lists2 = [lists EXCEPT ![1].todo = Tail(@)]

LEMMA ItemPassed ==
    ASSUME TreeInv, Ordered(file.cursors, entities), NEW call, NEW e, e = call.entity, OfClass(e),
           call.lists \in Seq(ListType), NEW c, IsItem(call.lists, c), c \in Offspring(e), Passed(call),
           NEW took, took.entity = e, HeadTaken(call.lists, took.lists),
           took.last_access = UpdatedAccess(call.last_access, c)
    PROVE  /\ Passed(took)
           /\ entities[c].role = "child" => UpdatedAccess(call.last_access, c) = MemberAccess(c)
<1> DEFINE lists == call.lists
           lists2 == took.lists
           q == lists[1].todo
<1>1. Forest(entities) /\ Placed(file.cursors, entities) /\ e \in DOMAIN entities /\ e # 0
  BY DEF TreeInv, OfClass, Forest
<1>2. /\ Len(lists) \in Nat /\ DOMAIN lists = 1 .. Len(lists) /\ 1 \in DOMAIN lists
      /\ q \in Seq(Nat) /\ 1 \in DOMAIN q /\ c = q[1] /\ lists # <<>> /\ q # <<>> /\ c = Head(q)
  BY ItemFacts DEF IsItem
<1>3. /\ Len(lists2) = Len(lists) /\ lists2[1].how = lists[1].how /\ lists2[1].todo = Tail(q)
      /\ \A i \in DOMAIN lists : i # 1 => lists2[i] = lists[i]
      /\ lists2 # <<>>
  <2> DEFINE l == [lists[1] EXCEPT !.todo = Tail(@)]
  <2>1. l \in ListType /\ l.how = lists[1].how /\ l.todo = Tail(q)
    <3>1. lists[1] \in ListType /\ Tail(q) \in Seq(Nat)
      BY <1>2
    <3> QED
      BY <3>1 DEF ListType
  <2>2. lists2 = [lists EXCEPT ![1] = l]
    BY <1>2 DEF HeadTaken
  <2> HIDE DEF l, lists2
  <2>3. /\ Len(lists2) = Len(lists) /\ lists2[1] = l /\ lists2 \in Seq(ListType)
        /\ \A i \in DOMAIN lists : i # 1 => lists2[i] = lists[i]
    BY <1>2, <2>1, <2>2, ChangedSeq
  <2>4. lists2 # <<>>
    BY <1>2, <2>3
  <2> QED
    BY <2>1, <2>3, <2>4
<1>4. /\ Len(lists) <= 2 /\ Members(call).how = "members"
      /\ Increasing(Members(call).todo) /\ Rest(Members(call)) \subseteq Kids(e)
      /\ \A d \in Kids(e) \ Rest(Members(call)), t \in Rest(Members(call)) : d < t
      /\ call.last_access = AccessAfter(e, Kids(e) \ Rest(Members(call)))
      /\ Len(lists) = 2 => lists[1].how = "bases" /\ \A d \in Rest(lists[1]) : entities[d].role = "base"
  BY <1>2 DEF Passed, BasesFirst
<1>5. Members(call) = lists[Len(lists)] /\ Members(took) = lists2[Len(lists2)]
  BY DEF Members
<1> HIDE DEF lists, lists2
<1>6. CASE Len(lists) = 1
  <2>1. Members(call) = lists[1] /\ Members(took) = lists2[1]
    BY <1>3, <1>5, <1>6
  <2>2. Rest(lists[1]) = Elements(q) /\ Rest(lists2[1]) = Elements(Tail(q))
    BY <1>3 DEF Rest
  <2> HIDE DEF q
  <2>3. Increasing(q) /\ Elements(q) \subseteq Kids(e) /\ \A d \in Kids(e) \ Elements(q), t \in Elements(q) : d < t
    BY <1>4, <2>1, <2>2 DEF q
  <2>4. /\ c \in Kids(e) /\ c \in DOMAIN entities /\ Kids(e) \ Elements(q) \in SUBSET (DOMAIN entities)
        /\ \A s \in Kids(e) \ Elements(q) : s < c
        /\ (Kids(e) \ Elements(q)) \cup {c} = {m \in Kids(e) : m <= c}
        /\ (Kids(e) \ Elements(q)) \cup {c} = Kids(e) \ Elements(Tail(q))
    <3>1. q \in Seq(Nat) /\ q # <<>> /\ c = Head(q)
      BY <1>2
    <3> QED
      BY <1>1, <2>3, <3>1, PassedChildren
  <2>5. UpdatedAccess(call.last_access, c) = AccessAfter(e, (Kids(e) \ Elements(q)) \cup {c})
    BY <1>1, <1>4, <2>1, <2>2, <2>4, AccessBehind
  <2>6. UpdatedAccess(call.last_access, c) = MemberAccess(c)
    BY <1>1, <2>4, <2>5, AccessOfMember
  <2>7. Increasing(Tail(q)) /\ Elements(Tail(q)) = Elements(q) \ {c} /\ \A t \in Elements(Tail(q)) : c < t
    BY <1>2, <2>3, TailFacts
  <2>8. \A d \in Kids(e) \ Elements(Tail(q)), t \in Elements(Tail(q)) : d < t
    BY <2>3, <2>7
  <2>9. Passed(took)
    <3>1. Len(took.lists) = 1 /\ took.lists # <<>>
      BY <1>3, <1>6 DEF lists2
    <3>2. Members(took).how = "members" /\ Members(took).todo = Tail(q) /\ Rest(Members(took)) = Elements(Tail(q))
      BY <1>3, <1>4, <2>1, <2>2
    <3>3. took.last_access = AccessAfter(e, Kids(e) \ Elements(Tail(q)))
      BY <2>4, <2>5
    <3>4. /\ Increasing(Members(took).todo) /\ Rest(Members(took)) \subseteq Kids(took.entity)
          /\ \A d \in Kids(took.entity) \ Rest(Members(took)), t \in Rest(Members(took)) : d < t
          /\ took.last_access = AccessAfter(took.entity, Kids(took.entity) \ Rest(Members(took)))
      BY <2>3, <2>7, <2>8, <3>2, <3>3
    <3>5. Len(took.lists) = 1
      BY <3>1
    <3>6. Len(took.lists) <= 2 /\ BasesFirst(took)
      BY ONLY <3>5 DEF BasesFirst
    <3> QED
      BY <3>2, <3>4, <3>6, PassedIs
  <2> QED
    BY <2>6, <2>9
<1>7. CASE Len(lists) = 2
  <2>1. Members(took) = Members(call)
    BY <1>2, <1>3, <1>5, <1>7
  <2>2. c \in Rest(lists[1]) /\ entities[c].role = "base"
    <3>1. c \in Rest(lists[1])
      BY <1>2 DEF Rest, Elements
    <3> QED
      BY <1>4, <1>7, <3>1
  <2>3. UpdatedAccess(call.last_access, c) = call.last_access
    <3>1. c \in DOMAIN entities /\ Parent(c) = e
      BY <1>1, OffspringFacts
    <3>2. entities[c].kind # "access_specifier"
      BY <1>1, <2>2, <3>1, OwnedKinds
    <3> QED
      BY <3>2 DEF UpdatedAccess
  <2>4. Rest(lists2[1]) \subseteq Rest(lists[1])
    <3>1. \A m \in DOMAIN Tail(q) : m + 1 \in DOMAIN q /\ Tail(q)[m] = q[m + 1]
      <4> HIDE DEF q
      <4> QED
        BY <1>2
    <3> QED
      BY <1>3, <3>1 DEF Rest, Elements
  <2>5. Passed(took)
    <3>1. Len(took.lists) = 2 /\ took.lists[1].how = "bases" /\ \A d \in Rest(took.lists[1]) : entities[d].role = "base"
      BY <1>3, <1>4, <1>7, <2>4 DEF lists2
    <3>2. took.last_access = AccessAfter(e, Kids(e) \ Rest(Members(took)))
      BY <1>4, <2>1, <2>3
    <3>3. /\ Members(took).how = "members" /\ Increasing(Members(took).todo) /\ Rest(Members(took)) \subseteq Kids(took.entity)
          /\ \A d \in Kids(took.entity) \ Rest(Members(took)), t \in Rest(Members(took)) : d < t
          /\ took.last_access = AccessAfter(took.entity, Kids(took.entity) \ Rest(Members(took)))
      BY <1>4, <2>1, <3>2
    <3>4. BasesFirst(took)
      BY <3>1 DEF BasesFirst
    <3>5. Len(took.lists) <= 2
      <4>1. Len(took.lists) = 2
        BY <3>1
      <4> QED
        BY ONLY <4>1
    <3> QED
      BY <3>3, <3>4, <3>5, PassedIs
  <2> QED
    BY <2>2, <2>5
<1>8. Len(lists) # 0
  BY <1>2
<1> QED
  BY <1>2, <1>4, <1>6, <1>7, <1>8

----------------------------------------------------------------------------
(* What is written, and the calls that go on.                              *)

\* Marks of one entity are written: the specifiers of the others stay the last ones, and those
\* of the entity itself if there is none among the marks.
LEMMA TextWritten ==
    ASSUME NEW txt, Listing(txt), TextRight(txt), NEW s, NEW e, Plain(s, e)
    PROVE  /\ Listing(txt \o s) /\ TextRight(txt \o s)
           /\ \A k : k # e => WrittenIn(txt \o s, k) = WrittenIn(txt, k)
           /\ Silent(s) => \A k : WrittenIn(txt \o s, k) = WrittenIn(txt, k)
<1>1. Listing(s) /\ \A m \in DOMAIN s : s[m].entity = e /\ s[m].mark \in Written
  BY DEF Plain
<1>2. Listing(txt \o s)
  BY <1>1, Concatenated
<1>3. TextRight(txt \o s)
  <2>1. \A m \in DOMAIN s : s[m].mark # "begin"
    BY <1>1 DEF Written, Names
  <2> QED
    BY <1>1, <2>1, TextGrown
<1>4. ASSUME NEW k, k # e PROVE WrittenIn(txt \o s, k) = WrittenIn(txt, k)
  <2>1. \A m \in DOMAIN s : ~Specifies(s[m], k)
    BY <1>1, <1>4 DEF Specifies
  <2> QED
    BY <1>1, <2>1, LastBehind
<1>5. ASSUME Silent(s), NEW k PROVE WrittenIn(txt \o s, k) = WrittenIn(txt, k)
  <2>1. \A m \in DOMAIN s : ~Specifies(s[m], k)
    BY <1>5 DEF Specifies, Silent
  <2> QED
    BY <1>1, <2>1, LastBehind
<1> QED
  BY <1>2, <1>3, <1>4, <1>5

\* A call goes on as long as nothing is specified for its class.
LEMMA ClassKept ==
    ASSUME NEW call, NEW txt, NEW u, ClassCall(call, txt), WrittenIn(u, call.entity) = WrittenIn(txt, call.entity)
    PROVE  ClassCall(call, u)
  BY DEF ClassCall

\* The last call writes.
LEMMA LastWrites ==
    ASSUME Forest(entities), NEW ws, Nested(ws), NEW txt, WritingRight(ws, txt), NEW ws2, NEW call,
           Replaces(ws, ws2, call), NEW u, TextRight(u),
           \A k : k # Last(ws).entity => WrittenIn(u, k) = WrittenIn(txt, k), ClassCall(call, u)
    PROVE  WritingRight(ws2, u)
<1>1. Len(ws) \in DOMAIN ws /\ Last(ws) = ws[Len(ws)] /\ Len(ws) \in Nat /\ DOMAIN ws = 1 .. Len(ws)
  BY NestedFacts
<1>2. DOMAIN ws2 = DOMAIN ws /\ ws2[Len(ws)] = call /\ \A i \in DOMAIN ws : i # Len(ws) => ws2[i] = ws[i]
  BY <1>1, ListingFacts DEF Replaces
<1>3. ASSUME NEW i \in DOMAIN ws, i # Len(ws) PROVE ClassCall(ws[i], u)
  <2>1. ws[i].entity # Last(ws).entity
    BY <1>1, <1>3, PathDistinct
  <2>2. ClassCall(ws[i], txt)
    BY DEF WritingRight
  <2> QED
    BY <2>1, <2>2, ClassKept
<1>4. \A i \in DOMAIN ws2 : ClassCall(ws2[i], u)
  BY <1>2, <1>3
<1> QED
  BY <1>4 DEF WritingRight

\* A call is added.
LEMMA PushedRight ==
    ASSUME NEW ws, Listing(ws), NEW txt, WritingRight(ws, txt), NEW u, TextRight(u),
           \A k : WrittenIn(u, k) = WrittenIn(txt, k), NEW ws2, NEW call, Pushes(ws, ws2, call), ClassCall(call, u)
    PROVE  WritingRight(ws2, u)
<1>1. DOMAIN ws = 1 .. Len(ws) /\ Len(ws) \in Nat /\ DOMAIN ws2 = 1 .. Len(ws2) /\ Len(ws2) = Len(ws) + 1
  BY ListingFacts DEF Pushes
<1>2. ws2[Len(ws) + 1] = call /\ \A i \in DOMAIN ws : ws2[i] = ws[i]
  BY DEF Pushes
<1>3. ASSUME NEW i \in DOMAIN ws PROVE ClassCall(ws[i], u)
  <2>1. ClassCall(ws[i], txt)
    BY DEF WritingRight
  <2> QED
    BY <2>1, ClassKept
<1>4. \A i \in DOMAIN ws2 : i \in DOMAIN ws \/ i = Len(ws) + 1
  BY <1>1
<1>5. \A i \in DOMAIN ws2 : ClassCall(ws2[i], u)
  BY <1>2, <1>3, <1>4
<1> QED
  BY <1>5 DEF WritingRight

\* The last call without its item.
Took(update) == [update EXCEPT !.lists[1].todo = Tail(@)]

LEMMA CallsTook ==
    ASSUME Forest(entities), Nested(writing), NEW c, IsItem(Call1.lists, c), NEW update, Keeps(update)
    PROVE  /\ Replaces(writing, Calls(update), Took(update))
           /\ Took(update).entity = Call1.entity
           /\ HeadTaken(Call1.lists, Took(update).lists)
           /\ \A field \in DOMAIN update : field # "lists" => field \in DOMAIN Took(update) /\ Took(update)[field] = update[field]
<1>1. PICK call : Replaces(writing, Calls(update), call)
  BY CallsTakes
<1>2. Len(writing) \in DOMAIN writing
  BY NestedFacts
<1>3. Calls(update)[Len(writing)] = Took(update)
  BY <1>2 DEF Calls, Took
<1>4. Replaces(writing, Calls(update), Took(update))
  BY <1>1, <1>3 DEF Replaces
<1>5. Took(update).entity = Call1.entity /\ HeadTaken(Call1.lists, Took(update).lists)
  BY DEF Took, Keeps, HeadTaken
<1>6. \A field \in DOMAIN update : field # "lists" => field \in DOMAIN Took(update) /\ Took(update)[field] = update[field]
  BY DEF Took, Keeps
<1> QED
  BY <1>4, <1>5, <1>6

\* How a call of generate_class is updated when an item is taken.
Tracks(update, c, txt) ==
    OfClass(Call1.entity) =>
      /\ "last_access" \in DOMAIN update /\ "last_written_access" \in DOMAIN update
      /\ update.last_access = UpdatedAccess(Call1.last_access, c)
      /\ update.last_written_access = WrittenIn(txt, Call1.entity)

LEMMA ClassTaken ==
    ASSUME TreeInv, Ordered(file.cursors, entities), Nested(writing), ClassCall(Call1, text),
           NEW c, IsItem(Call1.lists, c), NEW update, Keeps(update), NEW txt, Tracks(update, c, txt)
    PROVE  /\ ClassCall(Took(update), txt)
           /\ IsMember(c) => UpdatedAccess(Call1.last_access, c) = MemberAccess(c)
<1> DEFINE e == Call1.entity
           took == Took(update)
<1>1. Forest(entities)
  BY DEF TreeInv
<1>2. /\ took.entity = e /\ HeadTaken(Call1.lists, took.lists)
      /\ \A field \in DOMAIN update : field # "lists" => field \in DOMAIN took /\ took[field] = update[field]
  BY <1>1, CallsTook
<1>3. Call1.lists \in Seq(ListType) /\ c \in Offspring(e)
  BY <1>1, Call1Facts, CallsTakes
<1>4. Parent(c) = e
  BY <1>1, <1>3, OffspringFacts
<1> HIDE DEF took
<1>5. CASE OfClass(e)
  <2>1. Passed(Call1)
    BY <1>5 DEF ClassCall
  <2>2. /\ "last_access" \in DOMAIN update /\ "last_written_access" \in DOMAIN update
        /\ update.last_access = UpdatedAccess(Call1.last_access, c)
        /\ update.last_written_access = WrittenIn(txt, e)
    BY <1>5 DEF Tracks
  <2>3. /\ "last_access" \in DOMAIN took /\ "last_written_access" \in DOMAIN took
        /\ took.last_access = UpdatedAccess(Call1.last_access, c)
        /\ took.last_written_access = WrittenIn(txt, e)
    <3>1. took["last_access"] = update["last_access"] /\ took["last_written_access"] = update["last_written_access"]
      BY <1>2, <2>2
    <3>2. "last_access" \in DOMAIN took /\ "last_written_access" \in DOMAIN took
      BY <1>2, <2>2
    <3> QED
      BY <2>2, <3>1, <3>2
  <2>4. /\ Passed(took)
        /\ entities[c].role = "child" => UpdatedAccess(Call1.last_access, c) = MemberAccess(c)
    BY <1>2, <1>3, <1>5, <2>1, <2>3, ItemPassed
  <2>5. ClassCall(took, txt)
    BY <1>2, <2>3, <2>4 DEF ClassCall
  <2> QED
    BY <2>4, <2>5 DEF IsMember, took
<1>6. CASE ~OfClass(e)
  <2>1. ClassCall(took, txt)
    BY <1>2, <1>6 DEF ClassCall
  <2> QED
    BY <1>4, <1>6, <2>1 DEF IsMember, took
<1> QED
  BY <1>5, <1>6

\* A call begins: nothing is specified for its class yet.
LEMMA NothingSpecified ==
    ASSUME Forest(entities), NEW ws, NEW txt, Generating(ws, txt), NEW c \in Offspring(Last(ws).entity),
           c \in Left(Last(ws).lists)
    PROVE  WrittenIn(txt, c) = InitialAccess(c)
<1>1. Nested(ws) /\ Listing(txt)
  BY DEF Generating
<1>2. c \in DOMAIN entities
  BY OffspringFacts
<1>3. ~Told(ws, c) /\ ~OnPath(ws, c)
  <2>1. c \in Line(c)
    BY DEF Line
  <2> QED
    BY <1>1, <1>2, <2>1, ItemFresh
<1>4. \A k \in DOMAIN txt : txt[k].entity # c
  BY <1>3 DEF Generating
<1>5. DOMAIN txt = 1 .. Len(txt)
  BY <1>1, ListingFacts
<1>6. AccessMarks(txt, Len(txt), c) = {}
  BY <1>4, <1>5 DEF AccessMarks
<1> QED
  BY <1>6 DEF WrittenIn, LastWritten

\* An item is asked for. If it is a member of a class, then with its access, and it is the one
\* that is specified in the text.
LEMMA ItemAccess ==
    ASSUME TreeInv, Ordered(file.cursors, entities), Generating(writing, text), WritingRight(writing, text),
           NEW c, IsItem(Call1.lists, c), entities[c].kind # "access_specifier",
           NEW update, Keeps(update), NEW before, Plain(before, Call1.entity), Tracks(update, c, text \o before),
           NEW access, IsMember(c) => access = Call1.last_access /\ WrittenIn(text \o before, Call1.entity) = access,
           Generate(c, access, before, Calls(update))
    PROVE  WritingRight(writing', text')
<1> DEFINE o == Call1.entity
           ws2 == Calls(update)
           m == Begin(c, access)
           left == text \o before
           asked == left \o <<m>>
           old == Took(update)
<1>1. Forest(entities) /\ Placed(file.cursors, entities) /\ Nested(writing) /\ Listing(text) /\ TextRight(text)
  BY DEF TreeInv, Generating, WritingRight
<1>2. /\ c \in Offspring(o) /\ c \in Left(Call1.lists) /\ Call1 = Last(writing) /\ Parent(c) = o /\ c # o
      /\ ClassCall(Call1, text)
  <2>1. c \in Offspring(o)
    BY <1>1, CallsTakes
  <2>2. Call1.lists \in Seq(ListType) /\ ClassCall(Call1, text)
    BY <1>1, Call1Facts DEF WritingRight
  <2>3. c \in Left(Call1.lists)
    BY <2>2, ItemFacts
  <2>4. c \in DOMAIN entities /\ c # 0 /\ Parent(c) = o /\ (o # 0 => o \in Ancestors(c))
    BY <1>1, <2>1, OffspringFacts
  <2>5. c # o
    BY <1>1, <2>4, AncestorsIrreflexive
  <2> QED
    BY <2>1, <2>2, <2>3, <2>4, <2>5 DEF Call1
<1>3. /\ Listing(left) /\ TextRight(left)
      /\ \A k : k # o => WrittenIn(left, k) = WrittenIn(text, k)
  BY <1>1, TextWritten
<1>4. /\ ClassCall(old, left)
      /\ IsMember(c) => UpdatedAccess(Call1.last_access, c) = MemberAccess(c)
  BY <1>1, <1>2, <1>3, ClassTaken
<1>5. UpdatedAccess(Call1.last_access, c) = Call1.last_access
  BY DEF UpdatedAccess
<1>6. m.mark = "begin" /\ m.entity = c /\ m.access = access
  BY DEF Begin, Mark
<1>7. Replaces(writing, ws2, old)
  BY <1>1, CallsTook
<1> HIDE DEF m, left, ws2, old
<1>8. /\ Listing(asked) /\ TextRight(asked)
      /\ \A k : WrittenIn(asked, k) = WrittenIn(left, k)
  <2>1. IsMember(m.entity) => m.access = MemberAccess(m.entity) /\ WrittenIn(left, Parent(m.entity)) = m.access
    BY <1>2, <1>4, <1>5, <1>6 DEF left
  <2> QED
    BY <1>3, <1>6, <2>1, TextBegun
<1> HIDE DEF asked
<1>9. WritingRight(ws2, asked)
  <2>1. \A k : k # Last(writing).entity => WrittenIn(asked, k) = WrittenIn(text, k)
    BY <1>2, <1>3, <1>8
  <2>2. ClassCall(old, asked)
    BY <1>4, <1>8, ClassKept
  <2> QED
    BY <1>1, <1>7, <1>8, <2>1, <2>2, LastWrites
<1>10. CASE ~OutputTrue(c)
  <2>1. text' = asked /\ writing' = ws2
    BY <1>10 DEF Generate, asked, left, ws2, m
  <2> QED
    BY <1>9, <2>1
<1>11. CASE OutputTrue(c)
  <2> DEFINE call == Writing(c, access)
             named == asked \o Name(c)
             u == named \o Opening(call)
  <2>1. text' = u /\ writing' = Append(ws2, call)
    BY <1>11 DEF Generate, asked, left, ws2, m
  <2>2. call.lists \in Seq(ListType) /\ call.entity = c
    <3>1. c \in Tree /\ Reached(c)
      BY <1>1, <1>2, Call1Facts, CallsTakes, ItemReached
    <3>2. Generated(c)
      BY <1>11, <3>1 DEF Generated
    <3> QED
      BY <1>1, <3>1, <3>2, WritingOK
  <2>3. Plain(Name(c), c) /\ Silent(Name(c)) /\ Plain(Opening(call), c) /\ Silent(Opening(call))
    BY <2>2, NamePlain, OpeningPlain
  <2>4. WrittenIn(text, c) = InitialAccess(c)
    BY <1>1, <1>2, NothingSpecified
  <2>5. OfClass(c) =>
          /\ "last_access" \in DOMAIN call /\ "last_written_access" \in DOMAIN call
          /\ call.last_written_access = InitialAccess(c) /\ Passed(call)
    BY WritingPassed
  <2> HIDE DEF call
  <2>6. Listing(named) /\ TextRight(named) /\ \A k : WrittenIn(named, k) = WrittenIn(asked, k)
    BY <1>8, <2>3, TextWritten
  <2> HIDE DEF named
  <2>7. TextRight(u) /\ \A k : WrittenIn(u, k) = WrittenIn(named, k)
    BY <2>3, <2>6, TextWritten
  <2> HIDE DEF u
  <2>8. ClassCall(call, u)
    <3>1. WrittenIn(u, c) = InitialAccess(c)
      BY <1>2, <1>3, <1>8, <2>4, <2>6, <2>7
    <3> QED
      BY <2>2, <2>5, <3>1 DEF ClassCall
  <2>9. Listing(ws2)
    BY <1>7 DEF Replaces
  <2>10. Pushes(ws2, Append(ws2, call), call)
    BY <2>9, AppendPushes
  <2>11. \A k : WrittenIn(u, k) = WrittenIn(asked, k)
    BY <2>6, <2>7
  <2>12. WritingRight(Append(ws2, call), u)
    BY <1>9, <2>7, <2>8, <2>9, <2>10, <2>11, PushedRight
  <2> QED
    BY <2>1, <2>12
<1> QED
  BY <1>10, <1>11

----------------------------------------------------------------------------
(* The steps of the generator.                                             *)

\* What the lists of a class are.
LEMMA ClassHow ==
    ASSUME Forest(entities), Nested(writing), WritingRight(writing, text), NEW hows, InList(hows), OfClass(Call1.entity)
    PROVE  /\ Current.how \in {"bases", "members"}
           /\ Current.how = "bases" => entities[Item].role = "base"
<1> DEFINE lists == Call1.lists
<1>1. /\ IsItem(lists, Item) /\ lists \in Seq(ListType) /\ Passed(Call1) /\ lists # <<>>
      /\ Current = Head(lists)
  <2>1. IsItem(lists, Item) /\ lists \in Seq(ListType) /\ Call1 = writing[Len(writing)] /\ Len(writing) \in DOMAIN writing
    BY InListFacts, Call1Facts
  <2>2. ClassCall(Call1, text)
    BY <2>1 DEF WritingRight
  <2> QED
    BY <2>1, <2>2 DEF ClassCall, Current, IsItem
<1> HIDE DEF lists
<1>2. Current = lists[1] /\ Item \in Rest(lists[1]) /\ Len(lists) \in Nat /\ Len(lists) # 0
  <2>1. 1 \in DOMAIN lists[1].todo /\ Item = lists[1].todo[1] /\ 1 \in DOMAIN lists /\ DOMAIN lists = 1 .. Len(lists) /\ Len(lists) \in Nat
    BY <1>1, ItemFacts
  <2> QED
    BY <1>1, <2>1 DEF Rest, Elements
<1>3. /\ Len(lists) <= 2 /\ lists[Len(lists)].how = "members"
      /\ Len(lists) = 2 => lists[1].how = "bases" /\ \A d \in Rest(lists[1]) : entities[d].role = "base"
  BY <1>1 DEF Passed, Members, BasesFirst, lists
<1>4. CASE Len(lists) = 1
  BY <1>2, <1>3, <1>4
<1>5. CASE Len(lists) = 2
  BY <1>2, <1>3, <1>5
<1> DEFINE n == Len(lists)
<1>6. n \in Nat /\ n # 0 /\ n <= 2
  BY <1>2, <1>3
<1> HIDE DEF n
<1>7. n = 1 \/ n = 2
  BY <1>6
<1> QED
  BY <1>4, <1>5, <1>7 DEF n

\* What all steps of the generator begin with.
GeneratesRight ==
    TreeInv /\ Ordered(file.cursors, entities) /\ GenInv /\ WritingAccess

LEMMA RightFacts ==
    ASSUME GeneratesRight, mode = "generate"
    PROVE  /\ TreeInv /\ Ordered(file.cursors, entities) /\ Forest(entities) /\ Generating(writing, text) /\ Nested(writing)
           /\ WritingRight(writing, text) /\ Listing(text) /\ TextRight(text)
           /\ ClassCall(Call1, text)
<1>1. Generating(writing, text) /\ Nested(writing) /\ Forest(entities) /\ WritingRight(writing, text)
  BY DEF GeneratesRight, GenInv, WritingAccess, Generating, TreeInv
<1>2. ClassCall(Call1, text)
  BY <1>1, Call1Facts DEF WritingRight
<1> QED
  BY <1>1, <1>2 DEF GeneratesRight, Generating, WritingRight

\* The items of anything else than a class.
LEMMA OtherItem ==
    ASSUME GeneratesRight, NEW hows, hows \cap {"bases", "members"} = {}, InList(hows),
           NEW update, Keeps(update), NEW before, Plain(before, Call1.entity), NEW access,
           Generate(Item, access, before, Calls(update))
    PROVE  WritingRight(writing', text')
<1>1. mode = "generate"
  BY DEF InList
<1>2. /\ TreeInv /\ Ordered(file.cursors, entities) /\ Forest(entities) /\ Generating(writing, text) /\ Nested(writing)
      /\ WritingRight(writing, text)
  BY <1>1, RightFacts
<1>3. /\ IsItem(Call1.lists, Item) /\ Current.how \in hows /\ Item \in Offspring(Call1.entity)
      /\ Current.how # "members" => entities[Item].kind # "access_specifier"
  BY <1>2, InListFacts
<1>4. ~OfClass(Call1.entity)
  BY <1>2, <1>3, ClassHow
<1>5. entities[Item].kind # "access_specifier" /\ Parent(Item) = Call1.entity
  BY <1>2, <1>3, OffspringFacts
<1>6. Tracks(update, Item, text \o before) /\ ~IsMember(Item)
  BY <1>4, <1>5 DEF Tracks, IsMember
<1> QED
  BY <1>2, <1>3, <1>5, <1>6, ItemAccess

LEMMA OthersAccess ==
    ASSUME GeneratesRight, WriteDirect \/ WriteItem \/ WriteParameter
    PROVE  WritingRight(writing', text')
<1>0. mode = "generate"
  BY DEF WriteDirect, WriteItem, WriteParameter, InList
<1>1. Forest(entities) /\ Nested(writing) /\ Keeps(Call1)
  BY <1>0, RightFacts, Call1Facts
<1>2. CASE WriteDirect
  <2>1. InList({"direct"}) /\ Generate(Item, Call1.access, <<>>, Calls(Call1))
    BY <1>2 DEF WriteDirect
  <2> QED
    BY <1>1, <2>1, PlainEmpty, OtherItem
<1>3. CASE WriteItem
  <2> DEFINE access == IF Current.how = "macro" THEN "public" ELSE Call1.access
             update == [Call1 EXCEPT !.need_sep = OutputTrue(Item)]
  <2>1. InList({"container", "macro"}) /\ Generate(Item, access, Separator, Calls(update))
    BY <1>3 DEF WriteItem
  <2>2. Keeps(update)
    BY <1>1, KeepsUpdated
  <2>3. Current \in ListType
    BY <1>1, <2>1, InListFacts
  <2> HIDE DEF update, access
  <2> QED
    BY <2>1, <2>2, <2>3, SeparatorPlain, OtherItem
<1>4. CASE WriteParameter
  <2> DEFINE before == IF Current.how = "header" /\ ~Call1.header THEN Marks(Call1.entity, <<"template", "<">>) ELSE Separator
             update == [Call1 EXCEPT !.need_sep = OutputTrue(Item), !.header = TRUE]
  <2>1. InList({"parameters", "header"}) /\ Generate(Item, "public", before, Calls(update))
    BY <1>4 DEF WriteParameter
  <2>2. Keeps(update)
    BY <1>1, KeepsUpdated
  <2>3. Plain(before, Call1.entity)
    <3>1. <<"template", "<">> \in Seq(Names)
      BY WrittenNames DEF Names
    <3>2. Current \in ListType
      BY <1>1, <2>1, InListFacts
    <3> QED
      BY <3>1, <3>2, SeparatorPlain, PlainMarks
  <2> HIDE DEF update, before
  <2> QED
    BY <2>1, <2>2, <2>3, OtherItem
<1> QED
  BY <1>2, <1>3, <1>4

\* Three sequences one behind the other.
LEMMA ConcatenatedThrice ==
    ASSUME NEW r, NEW s, NEW t, Listing(r), Listing(s), Listing(t)
    PROVE  r \o (s \o t) = (r \o s) \o t
<1> DEFINE T == Elements(r) \cup Elements(s) \cup Elements(t)
<1>1. r \in Seq(T) /\ s \in Seq(T) /\ t \in Seq(T)
  BY WiderSeq DEF Listing
<1> HIDE DEF T
<1> QED
  BY <1>1, ConcatAssociative

\* A base: it is no member, and no specifier is written in front of it.
LEMMA BaseAccess == ASSUME GeneratesRight, WriteBase PROVE WritingRight(writing', text')
<1> DEFINE access == Cursor(entities[Item].cursor).access
           begins == Call1.first /\ ~Excluded(Item)
           before == IF begins THEN Marks(Call1.entity, <<":">>) ELSE Separator
           update == [Call1 EXCEPT !.need_sep = OutputTrue(Item), !.first = @ /\ ~begins]
           e == Call1.entity
           c == Item
<1>1. mode = "generate" /\ InList({"bases"}) /\ Generate(c, access, before, Calls(update))
  BY DEF WriteBase, InList
<1>2. /\ TreeInv /\ Ordered(file.cursors, entities) /\ Forest(entities) /\ Generating(writing, text) /\ Nested(writing)
      /\ WritingRight(writing, text) /\ Listing(text) /\ TextRight(text) /\ ClassCall(Call1, text)
  BY <1>1, RightFacts
<1>3. /\ IsItem(Call1.lists, c) /\ entities[c].kind # "access_specifier" /\ Keeps(Call1)
      /\ Current \in ListType /\ Current.how = "bases" /\ c \in Offspring(e)
  BY <1>1, <1>2, InListFacts, Call1Facts
<1>4. Keeps(update)
  BY <1>3, KeepsUpdated
<1>5. Plain(before, e) /\ Silent(before)
  <2>1. <<":">> \in Seq(Names)
    BY WrittenNames DEF Names
  <2> QED
    BY <1>3, <2>1, SeparatorPlain, PlainMarks
<1> HIDE DEF before, access
<1>6. WrittenIn(text \o before, e) = WrittenIn(text, e)
  BY <1>2, <1>5, TextWritten
<1>7. ~IsMember(c)
  <2>1. OfClass(e) => entities[c].role = "base"
    BY <1>1, <1>2, <1>3, ClassHow
  <2>2. Parent(c) = e
    BY <1>2, <1>3, OffspringFacts
  <2> QED
    BY <2>1, <2>2 DEF IsMember
<1>8. Tracks(update, c, text \o before)
  <2>1. SUFFICES ASSUME OfClass(e)
                 PROVE  /\ "last_access" \in DOMAIN update /\ "last_written_access" \in DOMAIN update
                        /\ update.last_access = UpdatedAccess(Call1.last_access, c)
                        /\ update.last_written_access = WrittenIn(text \o before, e)
    BY DEF Tracks
  <2>2. /\ "last_access" \in DOMAIN Call1 /\ "last_written_access" \in DOMAIN Call1
        /\ Call1.last_written_access = WrittenIn(text, e)
    BY <1>2, <2>1 DEF ClassCall
  <2>3. /\ "last_access" \in DOMAIN update /\ "last_written_access" \in DOMAIN update
        /\ update.last_access = Call1.last_access /\ update.last_written_access = Call1.last_written_access
    BY <2>2
  <2>4. UpdatedAccess(Call1.last_access, c) = Call1.last_access
    BY <1>3 DEF UpdatedAccess
  <2> HIDE DEF update, c
  <2> QED
    BY <1>6, <2>2, <2>3, <2>4
<1> HIDE DEF update
<1>9. WritingRight(writing', text')
  <2> HIDE DEF c
  <2> QED
    BY <1>1, <1>2, <1>3, <1>4, <1>5, <1>7, <1>8, ItemAccess
<1> QED
  BY <1>9

\* A member: in front of it there is the specifier of its access, unless it is the last one
\* already.
LEMMA MemberIsRight == ASSUME GeneratesRight, WriteMember PROVE WritingRight(writing', text')
<1> DEFINE changed == Call1.last_access # Call1.last_written_access
           specifier == IF changed THEN <<AccessMark(Call1.entity, Call1.last_access)>> ELSE <<>>
           before == Separator \o specifier
           update == [Call1 EXCEPT !.need_sep = OutputTrue(Item), !.last_written_access = Call1.last_access]
           access == Call1.last_access
           e == Call1.entity
           c == Item
<1>1. mode = "generate" /\ InList({"members"}) /\ Generate(c, access, before, Calls(update))
  BY DEF WriteMember, InList
<1>2. /\ TreeInv /\ Ordered(file.cursors, entities) /\ Forest(entities) /\ Generating(writing, text) /\ Nested(writing)
      /\ WritingRight(writing, text) /\ Listing(text) /\ TextRight(text) /\ ClassCall(Call1, text)
  BY <1>1, RightFacts
<1>3. IsItem(Call1.lists, c) /\ Keeps(Call1) /\ Current \in ListType /\ c \in Offspring(e)
  BY <1>1, <1>2, InListFacts, Call1Facts
<1>4. entities[c].kind # "access_specifier"
  BY DEF WriteMember
<1>5. Keeps(update)
  BY <1>3, KeepsUpdated
<1>6. Plain(Separator, e) /\ Silent(Separator)
  BY <1>3, SeparatorPlain
<1>7. Plain(specifier, e)
  <2> DEFINE m == AccessMark(e, access)
  <2>1. m.entity = e /\ m.mark = "access" /\ "access" \in Written
    BY DEF AccessMark, Written
  <2> HIDE DEF m
  <2>2. Plain(<<m>>, e) /\ Plain(<<>>, e)
    BY <2>1, PlainOne, PlainEmpty
  <2> QED
    BY <2>2 DEF m
<1>8. Plain(before, e)
  BY <1>6, <1>7, PlainTogether
<1>9. OfClass(e) => WrittenIn(text \o before, e) = access
  <2> DEFINE separated == text \o Separator
  <2>1. Listing(separated) /\ WrittenIn(separated, e) = WrittenIn(text, e)
    BY <1>2, <1>6, TextWritten
  <2>2. text \o before = separated \o specifier
    <3>1. Listing(Separator) /\ Listing(specifier)
      BY <1>6, <1>7 DEF Plain
    <3> HIDE DEF specifier
    <3> QED
      BY <1>2, <3>1, ConcatenatedThrice
  <2>3. CASE changed
    <3>1. specifier = <<AccessMark(e, access)>>
      BY <2>3
    <3> HIDE DEF separated, before, specifier
    <3>2. WrittenIn(separated \o specifier, e) = access
      BY <2>1, <3>1, TextSpecified
    <3> QED
      BY <2>2, <3>2
  <2>4. ASSUME ~changed, OfClass(e) PROVE WrittenIn(text \o before, e) = access
    <3>1. access = WrittenIn(text, e)
      BY <1>2, <2>4 DEF ClassCall
    <3>2. Silent(specifier) /\ Plain(specifier, e)
      BY <1>7, <2>4, PlainEmpty
    <3> HIDE DEF specifier
    <3>3. Silent(before)
      BY <1>6, <3>2, PlainTogether
    <3> HIDE DEF before
    <3> QED
      BY <1>2, <1>8, <3>1, <3>3, TextWritten
  <2> QED
    BY <2>3, <2>4
<1> HIDE DEF before, specifier, changed
<1>10. UpdatedAccess(access, c) = access
  BY <1>4 DEF UpdatedAccess
<1>11. Tracks(update, c, text \o before)
  <2>1. SUFFICES ASSUME OfClass(e)
                 PROVE  /\ "last_access" \in DOMAIN update /\ "last_written_access" \in DOMAIN update
                        /\ update.last_access = UpdatedAccess(Call1.last_access, c)
                        /\ update.last_written_access = WrittenIn(text \o before, e)
    BY DEF Tracks
  <2>2. "last_access" \in DOMAIN Call1 /\ "last_written_access" \in DOMAIN Call1
    BY <1>2, <2>1 DEF ClassCall
  <2>3. /\ "last_access" \in DOMAIN update /\ "last_written_access" \in DOMAIN update
        /\ update.last_access = Call1.last_access /\ update.last_written_access = Call1.last_access
    BY <2>2
  <2> HIDE DEF update, c
  <2> QED
    BY <1>9, <1>10, <2>1, <2>3
<1>12. IsMember(c) => WrittenIn(text \o before, e) = access
  <2>1. Parent(c) = e
    BY <1>2, <1>3, OffspringFacts
  <2> QED
    BY <1>9, <2>1 DEF IsMember
<1> HIDE DEF update
<1>13. WritingRight(writing', text')
  <2> HIDE DEF c
  <2> QED
    BY <1>1, <1>2, <1>3, <1>4, <1>5, <1>8, <1>11, <1>12, ItemAccess
<1> QED
  BY <1>13

\* An item that is left out.
LEMMA LeftOutRight ==
    ASSUME GeneratesRight, mode = "generate", NEW c, IsItem(Call1.lists, c), NEW update, Keeps(update),
           Tracks(update, c, text)
    PROVE  WritingRight(Calls(update), text)
<1>1. /\ TreeInv /\ Ordered(file.cursors, entities) /\ Forest(entities) /\ Nested(writing)
      /\ WritingRight(writing, text) /\ TextRight(text) /\ ClassCall(Call1, text)
  BY RightFacts
<1>2. Replaces(writing, Calls(update), Took(update))
  BY <1>1, CallsTook
<1>3. ClassCall(Took(update), text)
  BY <1>1, ClassTaken
<1> DEFINE ws2 == Calls(update)
           took == Took(update)
<1> HIDE DEF ws2, took
<1>4. WritingRight(ws2, text)
  BY <1>1, <1>2, <1>3, LastWrites DEF ws2, took
<1> QED
  BY <1>4 DEF ws2

\* What is excluded does not change what is specified,
LEMMA SkipRight == ASSUME GeneratesRight, SkipExcluded PROVE WritingRight(writing', text')
<1> DEFINE c == Item
           e == Call1.entity
<1>1. /\ mode = "generate" /\ InList({"container", "macro", "parameters", "header", "members"})
      /\ entities[c].kind # "access_specifier" /\ writing' = Calls(Call1) /\ text' = text
  BY DEF SkipExcluded, InList
<1>2. Forest(entities) /\ Nested(writing) /\ ClassCall(Call1, text)
  BY <1>1, RightFacts
<1>3. IsItem(Call1.lists, c) /\ Keeps(Call1)
  BY <1>1, <1>2, InListFacts, Call1Facts
<1> HIDE DEF c
<1>4. UpdatedAccess(Call1.last_access, c) = Call1.last_access
  BY <1>1 DEF UpdatedAccess
<1>5. Tracks(Call1, c, text)
  BY <1>2, <1>4 DEF Tracks, ClassCall
<1>6. WritingRight(Calls(Call1), text)
  BY <1>1, <1>3, <1>5, LeftOutRight
<1> QED
  BY <1>1, <1>6

\* an access specifier the access of the members behind it.
LEMMA UpdateRight == ASSUME GeneratesRight, UpdateAccess PROVE WritingRight(writing', text')
<1> DEFINE c == Item
           e == Call1.entity
           update == [Call1 EXCEPT !.last_access = UpdatedAccess(@, Item)]
<1>1. mode = "generate" /\ InList({"members"}) /\ writing' = Calls(update) /\ text' = text
  BY DEF UpdateAccess, InList
<1>2. Forest(entities) /\ Nested(writing) /\ ClassCall(Call1, text)
  BY <1>1, RightFacts
<1>3. IsItem(Call1.lists, c) /\ Keeps(Call1)
  BY <1>1, <1>2, InListFacts, Call1Facts
<1>4. Keeps(update)
  BY <1>3, KeepsUpdated
<1>5. Tracks(update, c, text)
  <2>1. SUFFICES ASSUME OfClass(e)
                 PROVE  /\ "last_access" \in DOMAIN update /\ "last_written_access" \in DOMAIN update
                        /\ update.last_access = UpdatedAccess(Call1.last_access, c)
                        /\ update.last_written_access = WrittenIn(text, e)
    BY DEF Tracks
  <2>2. /\ "last_access" \in DOMAIN Call1 /\ "last_written_access" \in DOMAIN Call1
        /\ Call1.last_written_access = WrittenIn(text, e)
    BY <1>2, <2>1 DEF ClassCall
  <2>3. /\ "last_access" \in DOMAIN update /\ "last_written_access" \in DOMAIN update
        /\ update.last_access = UpdatedAccess(Call1.last_access, c)
        /\ update.last_written_access = Call1.last_written_access
    BY <2>2
  <2> HIDE DEF update, c
  <2> QED
    BY <2>2, <2>3
<1> HIDE DEF update, c
<1>6. WritingRight(Calls(update), text)
  BY <1>1, <1>3, <1>4, <1>5, LeftOutRight
<1> QED
  BY <1>1, <1>6

\* The list of the members follows that of the bases.
LEMMA ListBehind ==
    ASSUME NEW call, NEW next, call.lists \in Seq(ListType), call.lists # <<>>, Passed(call),
           next.entity = call.entity, next.lists = Tail(call.lists), next.last_access = call.last_access
    PROVE  Passed(next)
<1> DEFINE lists == call.lists
           n == Len(lists)
<1>1. n \in Nat /\ n # 0 /\ n <= 2 /\ Len(Tail(lists)) = n - 1 /\ Tail(lists) \in Seq(ListType)
  BY DEF Passed
<1>2. n > 1 => Tail(lists)[n - 1] = lists[n]
  BY <1>1
<1> HIDE DEF n
<1>3. n = 1 \/ n = 2
  BY <1>1
<1>4. CASE n = 1
  <2> DEFINE t == Tail(lists)
  <2>1. t \in Seq(ListType) /\ Len(t) = 0 /\ next.lists = t
    BY <1>1, <1>4
  <2> HIDE DEF t
  <2>2. t = <<>>
    BY <2>1, EmptySeq
  <2> QED
    BY <2>1, <2>2 DEF Passed
<1>5. CASE n = 2
  <2>1. Len(next.lists) = 1 /\ next.lists[1] = lists[2]
    BY <1>1, <1>2, <1>5
  <2>2. Members(next) = Members(call)
    BY <1>5, <2>1 DEF Members, n
  <2>3. Len(next.lists) <= 2 /\ BasesFirst(next)
    BY ONLY <2>1 DEF BasesFirst
  <2>4. /\ Members(call).how = "members" /\ Increasing(Members(call).todo) /\ Rest(Members(call)) \subseteq Kids(call.entity)
        /\ \A d \in Kids(call.entity) \ Rest(Members(call)), t \in Rest(Members(call)) : d < t
        /\ call.last_access = AccessAfter(call.entity, Kids(call.entity) \ Rest(Members(call)))
    BY DEF Passed
  <2> QED
    BY <2>2, <2>3, <2>4, PassedIs
<1> QED
  BY <1>3, <1>4, <1>5

\* A list ends: no specifier is written.
LEMMA ListRight == ASSUME GeneratesRight, FinishList PROVE WritingRight(writing', text')
<1> DEFINE n == Len(writing)
           lists == Call1.lists
           e == Call1.entity
           call == [Call1 EXCEPT !.lists = Tail(@), !.need_sep = FALSE]
           ws2 == [writing EXCEPT ![n] = call]
           ended == text \o Ending
           u == ended \o Opening(call)
<1>1. /\ mode = "generate" /\ n > 1 /\ lists # <<>> /\ Current.todo = <<>>
      /\ text' = u /\ writing' = ws2
  BY DEF FinishList
<1>2. /\ Forest(entities) /\ Nested(writing) /\ WritingRight(writing, text) /\ Listing(text) /\ TextRight(text)
      /\ ClassCall(Call1, text)
  BY <1>1, RightFacts
<1>3. n \in DOMAIN writing /\ Call1 = Last(writing) /\ lists \in Seq(ListType) /\ Current = Head(lists) /\ Keeps(Call1)
  BY <1>2, Call1Facts DEF Call1, Current
<1>4. /\ call.lists = Tail(lists) /\ call.entity = e
      /\ \A field \in DOMAIN Call1 : field \notin {"lists", "need_sep"} => field \in DOMAIN call /\ call[field] = Call1[field]
  BY <1>3 DEF Keeps
<1> HIDE DEF call, u, ws2, lists
<1>5. Current \in ListType /\ Tail(lists) \in Seq(ListType)
  BY <1>1, <1>3
<1>6. Replaces(writing, ws2, call)
  <2> DEFINE T == Elements(writing) \cup {call}
  <2>1. writing \in Seq(T) /\ call \in T
    BY <1>2, WiderSeq DEF Nested, Listing
  <2> HIDE DEF T
  <2>2. /\ ws2 \in Seq(T) /\ Len(ws2) = Len(writing) /\ ws2[n] = call
        /\ \A i \in DOMAIN writing : i # n => ws2[i] = writing[i]
    BY <1>3, <2>1 DEF ws2
  <2> QED
    BY <2>2, SeqListing DEF Replaces
<1>7. Plain(Ending, e) /\ Silent(Ending)
  BY <1>5, EndingPlain
<1>8. Plain(Opening(call), e) /\ Silent(Opening(call))
  BY <1>4, <1>5, OpeningPlain
<1>9. Listing(ended) /\ TextRight(ended) /\ \A k : WrittenIn(ended, k) = WrittenIn(text, k)
  BY <1>2, <1>7, TextWritten
<1> HIDE DEF ended
<1>10. TextRight(u) /\ \A k : WrittenIn(u, k) = WrittenIn(ended, k)
  BY <1>8, <1>9, TextWritten DEF u
<1>11. ClassCall(call, u)
  <2>1. SUFFICES ASSUME OfClass(e)
                 PROVE  /\ "last_access" \in DOMAIN call /\ "last_written_access" \in DOMAIN call
                        /\ Passed(call) /\ call.last_written_access = WrittenIn(u, e)
    BY <1>4 DEF ClassCall
  <2>2. /\ "last_access" \in DOMAIN Call1 /\ "last_written_access" \in DOMAIN Call1
        /\ Passed(Call1) /\ Call1.last_written_access = WrittenIn(text, e)
    BY <1>2, <2>1 DEF ClassCall
  <2>3. call["last_access"] = Call1["last_access"] /\ call["last_written_access"] = Call1["last_written_access"]
    BY <1>4, <2>2
  <2>4. "last_access" \in DOMAIN call /\ "last_written_access" \in DOMAIN call
    BY <1>4, <2>2
  <2>5. Passed(call)
    BY <1>1, <1>3, <1>4, <2>2, <2>3, ListBehind DEF lists
  <2> QED
    BY <1>9, <1>10, <2>2, <2>3, <2>4, <2>5
<1>12. WritingRight(ws2, u)
  <2>1. \A k : WrittenIn(u, k) = WrittenIn(text, k)
    BY <1>9, <1>10
  <2> QED
    BY <1>2, <1>6, <1>10, <1>11, <2>1, LastWrites
<1> QED
  BY <1>1, <1>12

\* An entity ends.
LEMMA EndRight == ASSUME GeneratesRight, FinishEntity PROVE WritingRight(writing', text')
<1> DEFINE m == Mark("end", Call1.entity)
           s == <<m>>
           u == text \o s
<1>1. /\ mode = "generate" /\ Len(writing) > 1 /\ Call1.lists = <<>>
      /\ text' = Append(text, m) /\ writing' = Front(writing)
  BY DEF FinishEntity
<1>2. /\ Forest(entities) /\ Nested(writing) /\ WritingRight(writing, text) /\ Listing(text) /\ TextRight(text)
  BY <1>1, RightFacts
<1>3. m.mark = "end"
  BY DEF Mark
<1> HIDE DEF m
<1>4. Append(text, m) = u
  <2> DEFINE T == Elements(text) \cup {m}
  <2>1. text \in Seq(T) /\ m \in T
    BY <1>2, WiderSeq DEF Listing
  <2> HIDE DEF T
  <2> QED
    BY <2>1, AppendIsConcat
<1>5. Listing(s) /\ DOMAIN s = {1} /\ s[1] = m
  BY OneMark
<1> HIDE DEF s
<1>6. TextRight(u)
  BY <1>2, <1>3, <1>5, TextGrown
<1>7. ASSUME NEW k PROVE WrittenIn(u, k) = WrittenIn(text, k)
  <2>1. \A i \in DOMAIN s : ~Specifies(s[i], k)
    BY <1>3, <1>5 DEF Specifies
  <2> QED
    BY <1>2, <1>5, <2>1, LastBehind
<1> HIDE DEF u
<1> DEFINE ws2 == Front(writing)
<1>8. \A i \in DOMAIN ws2 : i \in DOMAIN writing /\ ws2[i] = writing[i]
  BY <1>2, NestedFacts DEF Front
<1> HIDE DEF ws2
<1>9. ASSUME NEW i \in DOMAIN ws2 PROVE ClassCall(ws2[i], u)
  <2>1. ClassCall(writing[i], text) /\ ws2[i] = writing[i]
    BY <1>2, <1>8 DEF WritingRight
  <2> QED
    BY <1>7, <2>1, ClassKept
<1>10. WritingRight(ws2, u)
  BY <1>6, <1>9 DEF WritingRight
<1> QED
  BY <1>1, <1>4, <1>10 DEF ws2

\* They depend on the tree and the file alone.
LEMMA SameRight ==
    ASSUME UNCHANGED <<entities, file>>
    PROVE  /\ \A txt : TextRight(txt)' <=> TextRight(txt)
           /\ \A ws, txt : WritingRight(ws, txt)' <=> WritingRight(ws, txt)
<1>1. \A e : InitialAccess(e)' = InitialAccess(e)
  BY DEF InitialAccess, Cursor
<1>2. \A S : Specifiers(S)' = Specifiers(S)
  BY DEF Specifiers
<1>3. \A k, S : AccessAfter(k, S)' = AccessAfter(k, S)
  BY <1>1, <1>2 DEF AccessAfter, Cursor
<1>4. \A e : MemberAccess(e)' = MemberAccess(e)
  BY DEF MemberAccess, Parent, Cursor, KindOf, Cursors
<1>5. \A e : OfClass(e)' <=> OfClass(e)
  BY DEF OfClass
<1>6. \A e : Parent(e)' = Parent(e) /\ (IsMember(e)' <=> IsMember(e))
  BY <1>5 DEF IsMember, Parent
<1>7. \A txt, i, k : LastWritten(txt, i, k)' = LastWritten(txt, i, k)
  BY <1>1 DEF LastWritten, AccessMarks
<1>8. \A txt : TextRight(txt)' <=> TextRight(txt)
  BY <1>4, <1>6, <1>7 DEF TextRight
<1>9. \A txt, k : WrittenIn(txt, k)' = WrittenIn(txt, k)
  BY <1>7 DEF WrittenIn
<1>10. \A e : Kids(e)' = Kids(e)
  BY DEF Kids
<1>11. \A call : BasesFirst(call)' <=> BasesFirst(call)
  BY DEF BasesFirst, Rest, Elements
<1>12. \A call : Passed(call)' <=> Passed(call)
  BY <1>3, <1>10, <1>11 DEF Passed, Members, Rest, Elements, Increasing
<1>13. \A call, txt : ClassCall(call, txt)' <=> ClassCall(call, txt)
  BY <1>5, <1>9, <1>12 DEF ClassCall
<1> QED
  BY <1>8, <1>13 DEF WritingRight

\* Nothing is written yet.
LEMMA BeginRight == ASSUME TreeInv, BeginGenerate PROVE WritingRight(writing, text)'
<1> DEFINE call == [entity |-> NoObject, lists |-> <<Direct(<<1>>)>>, need_sep |-> FALSE, access |-> "public"]
           ws == <<call>>
<1>1. text' = <<>> /\ writing' = ws /\ UNCHANGED <<entities, file>>
  BY DEF BeginGenerate, StartGenerate, treeVars
<1>2. call.entity = 0
  BY ParserAssumption
<1> HIDE DEF call
<1>3. DOMAIN ws = {1} /\ ws[1] = call
  BY OneMark
<1> HIDE DEF ws
<1>4. ~OfClass(0)
  <2>1. entities \in Seq(EntityType)
    BY DEF TreeInv, Forest
  <2>2. 0 \notin DOMAIN entities
    BY <2>1
  <2> QED
    BY <2>2 DEF OfClass
<1>5. \A i \in DOMAIN ws : ClassCall(ws[i], <<>>)
  BY <1>2, <1>3, <1>4 DEF ClassCall
<1>6. DOMAIN <<>> = {}
  BY EmptySeq
<1>7. TextRight(<<>>)
  BY <1>6 DEF TextRight
<1>8. WritingRight(ws, <<>>)
  BY <1>5, <1>7 DEF WritingRight
<1>9. WritingRight(ws, <<>>)'
  <2>1. \A ws2, txt : WritingRight(ws2, txt)' <=> WritingRight(ws2, txt)
    BY <1>1, SameRight
  <2> QED
    BY <1>8, <2>1
<1> QED
  BY <1>1, <1>9

\* A step of the generator.
LEMMA RightStep == ASSUME GeneratesRight, GenerateNext PROVE WritingAccess'
<1>1. UNCHANGED <<entities, file>> /\ mode = "generate"
  BY DEF GenerateNext, WriteDirect, SkipExcluded, WriteItem, WriteParameter, WriteBase, UpdateAccess, WriteMember,
     FinishList, FinishEntity, FinishGenerate, InList, Unchanged, treeVars
<1>2. CASE FinishGenerate
  <2>1. mode' = "generated" /\ text' = text
    BY <1>2 DEF FinishGenerate
  <2>2. TextRight(text)
    BY <1>1, RightFacts
  <2>3. TextRight(text)'
    BY <1>1, <2>1, <2>2, SameRight
  <2> QED
    BY <2>1, <2>3 DEF WritingAccess
<1>3. CASE ~FinishGenerate
  <2>1. mode' = "generate"
    BY <1>3 DEF GenerateNext, WriteDirect, SkipExcluded, WriteItem, WriteParameter, WriteBase, UpdateAccess, WriteMember,
       FinishList, FinishEntity, InList, Unchanged
  <2>2. WritingRight(writing', text')
    BY <1>3, OthersAccess, SkipRight, BaseAccess, UpdateRight, MemberIsRight, ListRight, EndRight DEF GenerateNext
  <2>3. WritingRight(writing, text)'
    BY <1>1, <2>2, SameRight
  <2> QED
    BY <2>1, <2>3 DEF WritingAccess
<1> QED
  BY <1>2, <1>3

\* Any other step is no part of it, or begins it.
LEMMA OtherRight ==
    ASSUME TreeInv, WritingAccess, Parse \/ BeginVisit \/ ContinueVisit \/ BeginGenerate \/ Stop \/ UNCHANGED vars
    PROVE  WritingAccess'
<1>1. ASSUME mode' \notin {"generate", "generated"} PROVE WritingAccess'
  BY <1>1 DEF WritingAccess
<1>2. CASE UNCHANGED vars
  <2>1. UNCHANGED <<mode, entities, file, writing, text>>
    BY <1>2 DEF vars, treeVars, generatorVars
  <2>2. mode' = "generate" => WritingRight(writing, text)'
    <3>1. ASSUME mode = "generate" PROVE WritingRight(writing', text')
      BY <2>1, <3>1 DEF WritingAccess
    <3> QED
      BY <2>1, <3>1, SameRight
  <2>3. mode' = "generated" => TextRight(text)'
    <3>1. ASSUME mode = "generated" PROVE TextRight(text')
      BY <2>1, <3>1 DEF WritingAccess
    <3> QED
      BY <2>1, <3>1, SameRight
  <2> QED
    BY <2>2, <2>3 DEF WritingAccess
<1>3. CASE Parse
  BY <1>1, <1>3, ParseIsParsing, ParseModes DEF Parse
<1>4. CASE BeginVisit
  BY <1>1, <1>4 DEF BeginVisit, StartVisit
<1>5. CASE ContinueVisit
  BY <1>1, <1>5 DEF ContinueVisit, VisitNext, VisitRoot, VisitChild, LeaveContainer, Visit
<1>6. CASE BeginGenerate
  <2>1. mode' = "generate"
    BY <1>6 DEF BeginGenerate, StartGenerate
  <2> QED
    BY <1>6, <2>1, BeginRight DEF WritingAccess
<1>7. CASE Stop
  BY <1>2, <1>7 DEF Stop
<1> QED
  BY <1>2, <1>3, <1>4, <1>5, <1>6, <1>7

----------------------------------------------------------------------------
(* The theorem.                                                            *)

AccessInv == TreeInv /\ MembersInv /\ VisitInv /\ GenInv /\ VisitAccess /\ WritingAccess

LEMMA AccessStep == ASSUME AccessInv, [Next]_vars PROVE AccessInv'
<1>1. TreeInv /\ MembersInv /\ VisitInv /\ GenInv /\ VisitAccess /\ WritingAccess
  BY DEF AccessInv
<1>2. mode # "parse" => Ordered(file.cursors, entities)
  BY <1>1 DEF MembersInv
<1>3. CASE Parse
  <2>1. ParseNext
    BY <1>3 DEF Parse
  <2>2. TreeInv' /\ MembersInv'
    BY <1>1, <2>1, ParseKeeps, ParseStep DEF Kept
  <2> QED
    BY <1>1, <1>3, <2>1, <2>2, OtherStep, NoGeneratorStep, OtherAccess, OtherRight DEF AccessInv
<1>4. CASE GenerateNext
  <2>1. mode # "parse"
    BY <1>4 DEF GenerateNext, WriteDirect, SkipExcluded, WriteItem, WriteParameter, WriteBase, UpdateAccess, WriteMember,
       FinishList, FinishEntity, FinishGenerate, InList
  <2>2. GeneratesRight
    BY <1>1, <1>2, <2>1 DEF GeneratesRight
  <2> QED
    BY <1>1, <1>4, <2>2, TreeKept, MembersKept, OtherStep, GeneratorStep, OtherAccess, RightStep DEF AccessInv
<1>5. CASE ContinueVisit
  <2>1. VisitRoot \/ VisitChild \/ LeaveContainer
    BY <1>5 DEF ContinueVisit, VisitNext
  <2>2. VisitChild => mode # "parse"
    BY DEF VisitChild
  <2>3. VisitInv'
    BY <1>1, <2>1, RootStep, ChildStep, LeaveStep
  <2>4. VisitAccess'
    BY <1>1, <1>2, <2>1, <2>2, RootAccess, ChildAccess, LeaveAccess
  <2> QED
    BY <1>1, <1>5, <2>3, <2>4, TreeKept, MembersKept, NoGeneratorStep, OtherRight DEF AccessInv
<1>6. CASE BeginVisit \/ BeginGenerate \/ Stop \/ UNCHANGED vars
  BY <1>1, <1>6, TreeKept, MembersKept, OtherStep, NoGeneratorStep, OtherAccess, OtherRight DEF AccessInv
<1> QED
  BY <1>3, <1>4, <1>5, <1>6 DEF Next

\* What the invariant says of the events and of the text.
LEMMA RightAgrees == ASSUME AccessInv PROVE AccessAgrees
<1>1. TreeInv /\ GenInv /\ VisitAccess /\ WritingAccess /\ Forest(entities)
  BY DEF AccessInv, TreeInv
<1>2. ASSUME mode = "visited", NEW i \in DOMAIN events
      PROVE  events[i].access = (IF events[i].entity = 1 THEN "public" ELSE MemberAccess(events[i].entity))
  BY <1>1, <1>2 DEF VisitAccess, RightEvents, RightAccess
<1>3. ASSUME mode = "generated", NEW i \in DOMAIN text, NEW e, e = text[i].entity, text[i].mark = "begin", e # 1,
             entities[Parent(e)].kind = "class", entities[e].role = "child"
      PROVE  /\ text[i].access = MemberAccess(e)
             /\ MemberAccess(e) = LastWritten(text, i, Parent(e))
  <2>1. e \in Tree /\ TextRight(text)
    BY <1>1, <1>3 DEF GenInv, WritingAccess
  <2>2. e \in DOMAIN entities /\ 1 \in Ancestors(e)
    BY <1>3, <2>1 DEF Tree
  <2>3. Parent(e) \in DOMAIN entities
    BY <1>1, <2>2, AncestorsEquation, AncestorsType
  <2>4. IsMember(e)
    BY <1>3, <2>3 DEF IsMember, OfClass
  <2> QED
    BY <1>3, <2>1, <2>4 DEF TextRight
<1>4. \A i, k : LastWritten(text, i, k) =
        LET written == {j \in 1 .. i : text[j].mark = "access" /\ text[j].entity = k}
        IN IF written = {} THEN InitialAccess(k) ELSE text[Max(written)].access
  BY DEF LastWritten, AccessMarks
<1> QED
  BY <1>2, <1>3, <1>4 DEF AccessAgrees

\* Whatever the file, whatever the callback answers and whatever is left out: a member is
\* visited with the access C++ gives it, and in the code that is generated it stands behind
\* the specifier of that access, or behind none if it has the default one. detail::visit and
\* generate_class, which keep the access while they go through the members, over the tree
\* the parser has built.
THEOREM MembersHaveTheirAccess == Spec => []AccessAgrees
<1>1. Init => AccessInv
  BY TreeInit, MembersInit DEF Init, ParseInit, VisitInv, GenInv, VisitAccess, WritingAccess, AccessInv
<1>2. AccessInv /\ [Next]_vars => AccessInv'
  BY AccessStep
<1>3. AccessInv => AccessAgrees
  BY RightAgrees
<1> QED
  BY <1>1, <1>2, <1>3, PTL DEF Spec
=============================================================================
