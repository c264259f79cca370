-------------------------- MODULE GeneratorProofs --------------------------
(***************************************************************************)
(* Everything is generated once and inside of what it is in: WrittenOnce,  *)
(* for every file and whatever is excluded.                                *)
(***************************************************************************)
EXTENDS ParseTreeProofs

----------------------------------------------------------------------------
(* The text.                                                               *)

\* A sequence of whatever it is a sequence of.
Listing(s) == s \in Seq(Elements(s))

\* The text grew.
Extends(txt, txt2) ==
    /\ DOMAIN txt \subseteq DOMAIN txt2
    /\ \A k \in DOMAIN txt : txt2[k] = txt[k]
    /\ \A k \in DOMAIN txt, l \in DOMAIN txt2 \ DOMAIN txt : k <= l

\* All marks but on_begin and on_end, and those that are no access specifiers.
Names ==
    {",", "newline", "template", "<", ">", "{", "}", "(", ")", ":", "container_end", "end_of_line", "...", "name", "friend"}
Written == Names \cup {"access"}

\* Nothing but such marks, of one entity.
Plain(s, e) == Listing(s) /\ \A k \in DOMAIN s : s[k].entity = e /\ s[k].mark \in Written
Silent(s) == \A k \in DOMAIN s : s[k].mark # "access"

MarksOf(txt, e) == {k \in DOMAIN txt : txt[k].entity = e}
Places(txt, mark, e) == {k \in MarksOf(txt, e) : txt[k].mark = mark}

\* What is written completely: on_begin, on_end, and all that is below in between; or
\* nothing but one question to the callback.
Generated(e) == Reached(e) /\ OutputTrue(e) /\ entities[e].kind # "access_specifier"

Enclosed(txt, e, begin, end) ==
    /\ Places(txt, "begin", e) = {begin} /\ Places(txt, "end", e) = {end}
    /\ \A d \in Tree : e \in Line(d) => \A k \in MarksOf(txt, d) : begin <= k /\ k <= end

Asked(txt, e) ==
    \A k \in MarksOf(txt, e) : txt[k].mark = "begin" /\ Reached(e) /\ \A l \in MarksOf(txt, e) : k = l

Settled(txt, e) ==
    IF Generated(e) THEN \E begin, end \in DOMAIN txt : Enclosed(txt, e, begin, end) ELSE Asked(txt, e)

\* What is begun and not ended.
Begun(txt, e, begin) ==
    /\ Places(txt, "begin", e) = {begin} /\ Places(txt, "end", e) = {}
    /\ \A d \in Tree : e \in Line(d) => \A k \in MarksOf(txt, d) : begin <= k

Opened(txt, e) == \E begin \in DOMAIN txt : Begun(txt, e, begin)

----------------------------------------------------------------------------
(* The calls of generate_code_impl.                                        *)

\* What there is directly below an entity, and below none: the file.
Offspring(o) == IF o = 0 THEN {1} ELSE {d \in DOMAIN entities : Parent(d) = o}

\* The items a call has still to write.
Left(lists) == {d \in Nat : \E l \in DOMAIN lists : \E m \in DOMAIN lists[l].todo : lists[l].todo[m] = d}

Hows == {"direct", "container", "macro", "parameters", "header", "bases", "members"}

ListType ==
    [how : Hows, todo : Seq(Nat), separator : Seq(Names), before : Seq(Names), behind : Seq(Names)]

\* No item is in two places.
Unique(lists) ==
    \A l1, l2 \in DOMAIN lists : \A m1 \in DOMAIN lists[l1].todo, m2 \in DOMAIN lists[l2].todo :
      lists[l1].todo[m1] = lists[l2].todo[m2] => l1 = l2 /\ m1 = m2

\* Access specifiers are among the members of a class.
SpecifiersKnown(lists) ==
    \A l \in DOMAIN lists : lists[l].how # "members" =>
      \A m \in DOMAIN lists[l].todo : entities[lists[l].todo[m]].kind # "access_specifier"

NamedOnly(e) == entities[e].kind \in {"class", "enum"} /\ OnlyDeclared(e)

\* The lists of an entity, or what is left of them.
ListsOK(lists, e) ==
    /\ lists \in Seq(ListType) /\ Left(lists) \subseteq Offspring(e)
    /\ Unique(lists) /\ SpecifiersKnown(lists)
    /\ IF e = 0 THEN Len(lists) = 1 /\ lists[1].how = "direct" ELSE lists # <<>> => ~NamedOnly(e)

CallOK(call) ==
    /\ "entity" \in DOMAIN call /\ "lists" \in DOMAIN call
    /\ ListsOK(call.lists, call.entity)
    /\ call.entity # 0 => call.entity \in Tree /\ Generated(call.entity)

\* The calls are in the middle of each other.
Nested(ws) ==
    /\ Listing(ws) /\ Len(ws) >= 1 /\ ws[1].entity = 0
    /\ \A i \in DOMAIN ws : CallOK(ws[i])
    /\ \A i \in DOMAIN ws : i # 1 =>
         /\ ws[i].entity \in Offspring(ws[i - 1].entity) \ Left(ws[i - 1].lists)
         /\ \A x : x \in Ancestors(ws[i].entity) <=> \E j \in 2 .. i - 1 : x = ws[j].entity

\* What is written already.
Done(ws, i, d) ==
    /\ d \in Offspring(ws[i].entity) \ Left(ws[i].lists)
    /\ i < Len(ws) => d # ws[i + 1].entity

Told(ws, e) == \E i \in DOMAIN ws : \E d \in Line(e) : Done(ws, i, d)

OnPath(ws, e) == \E i \in DOMAIN ws : i # 1 /\ ws[i].entity = e

Generating(ws, txt) ==
    /\ Nested(ws) /\ Listing(txt)
    /\ \A e \in Tree : Told(ws, e) => Settled(txt, e)
    /\ \A e : OnPath(ws, e) => Opened(txt, e)
    /\ \A k \in DOMAIN txt : txt[k].entity \in Tree /\ (Told(ws, txt[k].entity) \/ OnPath(ws, txt[k].entity))

GenInv ==
    /\ mode = "generate" => Generating(writing, text)
    /\ mode = "generated" =>
         /\ Listing(text) /\ \A e \in Tree : Settled(text, e)
         /\ \A k \in DOMAIN text : text[k].entity \in Tree

----------------------------------------------------------------------------
(* Text that grows.                                                        *)

\* A listing is over the numbers from 1 on.
LEMMA ListingFacts ==
    ASSUME NEW s, Listing(s)
    PROVE  Len(s) \in Nat /\ DOMAIN s = 1 .. Len(s) /\ s \in Seq(Elements(s))
  BY DEF Listing

\* Whatever is a sequence is a listing.
LEMMA SeqListing ==
    ASSUME NEW T, NEW s \in Seq(T)
    PROVE  Listing(s)
<1>1. Len(s) \in Nat /\ s = [m \in 1 .. Len(s) |-> s[m]] /\ \A m \in 1 .. Len(s) : s[m] \in Elements(s)
  BY DEF Elements
<1> QED
  BY <1>1 DEF Listing

\* Two listings, one behind the other.
LEMMA Concatenated ==
    ASSUME NEW s, NEW t, Listing(s), Listing(t)
    PROVE  /\ Listing(s \o t) /\ Len(s \o t) = Len(s) + Len(t)
           /\ \A k \in 1 .. Len(s) : (s \o t)[k] = s[k]
           /\ \A k \in 1 .. Len(t) : (s \o t)[Len(s) + k] = t[k]
<1> DEFINE T == Elements(s) \cup Elements(t)
<1>1. s \in Seq(Elements(s)) /\ t \in Seq(Elements(t))
  BY DEF Listing
<1>2. s \in Seq(T) /\ t \in Seq(T)
  BY <1>1, WiderSeq
<1> HIDE DEF T
<1>3. s \o t \in Seq(T) /\ Len(s \o t) = Len(s) + Len(t) /\ Len(s) \in Nat /\ Len(t) \in Nat
  BY <1>2
<1>4. Listing(s \o t)
  BY <1>3, SeqListing
<1>5. \A k \in 1 .. Len(s) : (s \o t)[k] = s[k]
  BY <1>2
<1>6. \A k \in 1 .. Len(t) : (s \o t)[Len(s) + k] = t[k]
  BY <1>2
<1> QED
  BY <1>3, <1>4, <1>5, <1>6

\* Some text and what is written behind it.
Behind(s, t, u) ==
    /\ Listing(u) /\ Extends(s, u)
    /\ \A k : k \in DOMAIN u \ DOMAIN s <=> \E m \in DOMAIN t : k = Len(s) + m
    /\ \A m \in DOMAIN t : u[Len(s) + m] = t[m]

LEMMA WrittenBehind ==
    ASSUME NEW s, NEW t, Listing(s), Listing(t)
    PROVE  Behind(s, t, s \o t)
<1> DEFINE n == Len(s)
           m0 == Len(t)
           u == s \o t
<1>1. n \in Nat /\ DOMAIN s = 1 .. n /\ m0 \in Nat /\ DOMAIN t = 1 .. m0
  BY ListingFacts
<1>2. /\ Listing(u) /\ Len(u) = n + m0
      /\ \A k \in 1 .. n : u[k] = s[k]
      /\ \A k \in 1 .. m0 : u[n + k] = t[k]
  BY Concatenated
<1>3. DOMAIN u = 1 .. n + m0
  BY <1>2, ListingFacts
<1> HIDE DEF n, m0, u
<1>4. \A k : k \in DOMAIN u \ DOMAIN s <=> \E m \in DOMAIN t : k = n + m
  <2>1. \A k : k \in (1 .. n + m0) \ (1 .. n) <=> k \in (n + 1) .. (n + m0)
    BY <1>1
  <2>2. \A k : k \in (n + 1) .. (n + m0) <=> \E m \in 1 .. m0 : k = n + m
    <3>1. ASSUME NEW k \in (n + 1) .. (n + m0) PROVE k - n \in 1 .. m0 /\ k = n + (k - n)
      BY <1>1
    <3> QED
      BY <1>1, <3>1
  <2> QED
    BY <1>1, <1>3, <2>1, <2>2
<1>5. Extends(s, u)
  <2>1. \A k \in 1 .. n, l \in (1 .. n + m0) \ (1 .. n) : k <= l
    BY <1>1
  <2>2. 1 .. n \subseteq 1 .. n + m0
    BY <1>1
  <2> QED
    BY <1>1, <1>2, <1>3, <2>1, <2>2 DEF Extends
<1> QED
  BY <1>1, <1>2, <1>4, <1>5 DEF Behind, n, u

\* Marks of an entity by their names.
LEMMA PlainMarks ==
    ASSUME NEW e, NEW names \in Seq(Names)
    PROVE  Plain(Marks(e, names), e) /\ Silent(Marks(e, names))
<1>1. Len(names) \in Nat /\ \A k \in 1 .. Len(names) : names[k] \in Written /\ names[k] # "access"
  <2>1. Len(names) \in Nat /\ \A k \in 1 .. Len(names) : names[k] \in Names
    OBVIOUS
  <2> QED
    BY <2>1 DEF Written, Names
<1>2. Marks(e, names) = [k \in 1 .. Len(names) |-> Mark(names[k], e)]
  BY DEF Marks
<1>3. Marks(e, names) \in Seq({Mark(names[k], e) : k \in 1 .. Len(names)})
  BY <1>1, <1>2
<1>4. \A n : Mark(n, e).entity = e /\ Mark(n, e).mark = n
  BY DEF Mark
<1>5. \A k \in DOMAIN Marks(e, names) :
        Marks(e, names)[k].entity = e /\ Marks(e, names)[k].mark \in Written /\ Marks(e, names)[k].mark # "access"
  <2> DEFINE ms == Marks(e, names)
  <2>1. DOMAIN ms = 1 .. Len(names) /\ \A k \in 1 .. Len(names) : ms[k] = Mark(names[k], e)
    BY <1>2
  <2> HIDE DEF ms
  <2>2. \A k \in DOMAIN ms : ms[k].entity = e /\ ms[k].mark \in Written /\ ms[k].mark # "access"
    BY <1>1, <1>4, <2>1
  <2> QED
    BY <2>2 DEF ms
<1> QED
  BY <1>3, <1>5, SeqListing DEF Plain, Silent

\* Such marks one behind the other.
LEMMA PlainTogether ==
    ASSUME NEW e, NEW s, NEW t, Plain(s, e), Plain(t, e)
    PROVE  Plain(s \o t, e) /\ (Silent(s) /\ Silent(t) => Silent(s \o t))
<1>1. Listing(s) /\ Listing(t)
  BY DEF Plain
<1>2. /\ Listing(s \o t) /\ Extends(s, s \o t)
      /\ \A k : k \in DOMAIN (s \o t) \ DOMAIN s <=> \E m \in DOMAIN t : k = Len(s) + m
      /\ \A m \in DOMAIN t : (s \o t)[Len(s) + m] = t[m]
  BY <1>1, WrittenBehind DEF Behind
<1> DEFINE u == s \o t
<1> HIDE DEF u
<1>3. ASSUME NEW k \in DOMAIN u
      PROVE  u[k].entity = e /\ u[k].mark \in Written /\ (Silent(s) /\ Silent(t) => u[k].mark # "access")
  <2>1. CASE k \in DOMAIN s
    BY <1>2, <2>1 DEF Extends, Plain, Silent, u
  <2>2. CASE k \notin DOMAIN s
    <3>1. PICK m \in DOMAIN t : k = Len(s) + m
      BY <1>2, <2>2 DEF u
    <3> QED
      BY <1>2, <3>1 DEF Plain, Silent, u
  <2> QED
    BY <2>1, <2>2
<1> QED
  BY <1>2, <1>3 DEF Plain, Silent, u

\* No mark at all.
LEMMA PlainEmpty == Silent(<<>>) /\ \A e : Plain(<<>>, e)
  BY DEF Plain, Silent, Listing, Elements

\* A mark.
LEMMA PlainOne ==
    ASSUME NEW m, NEW e, m.entity = e, m.mark \in Written
    PROVE  Plain(<<m>>, e) /\ (m.mark # "access" => Silent(<<m>>))
<1>1. <<m>> \in Seq({m}) /\ DOMAIN <<m>> = {1} /\ <<m>>[1] = m
  BY Z3
<1>2. Listing(<<m>>)
  BY <1>1, SeqListing
<1> QED
  BY <1>1, <1>2 DEF Plain, Silent

----------------------------------------------------------------------------
(* What is below an entity.                                                *)

\* An entity directly below another one, or the file below none.
LEMMA OffspringFacts ==
    ASSUME Forest(entities), NEW o, NEW d \in Offspring(o)
    PROVE  /\ d \in DOMAIN entities /\ d \in Nat /\ d # 0 /\ Parent(d) = o
           /\ \A x : x \in Ancestors(d) <=> o # 0 /\ (x = o \/ x \in Ancestors(o))
           /\ o # 0 => o \in DOMAIN entities
<1>1. d \in DOMAIN entities /\ Parent(d) = o
  BY DEF Forest, Offspring, Parent
<1>2. d \in Nat /\ d # 0
  BY <1>1 DEF Forest
<1>3. Ancestors(d) = IF o = 0 THEN {} ELSE {o} \cup Ancestors(o)
  BY <1>1, AncestorsEquation
<1>4. o # 0 => o \in DOMAIN entities
  BY <1>1, AncestorsType
<1> QED
  BY <1>1, <1>2, <1>3, <1>4

\* Of what is directly below an entity only one is above, or is, another one.
LEMMA OneOffspring ==
    ASSUME Forest(entities), NEW e \in DOMAIN entities, NEW o, NEW a \in Line(e), NEW b \in Line(e),
           a \in Offspring(o), b \in Offspring(o)
    PROVE  a = b
<1>1. CASE o = 0
  BY <1>1 DEF Offspring
<1>2. CASE o # 0
  <2>1. Parent(a) = o /\ Parent(b) = o
    BY OffspringFacts
  <2> QED
    BY <1>2, <2>1, OneSibling
<1> QED
  BY <1>1, <1>2

\* What is above, or is, an entity is below what is above that.
LEMMA LineTransitive ==
    ASSUME Forest(entities), NEW e \in DOMAIN entities, NEW a \in Line(e)
    PROVE  a \in DOMAIN entities /\ Line(a) \subseteq Line(e)
<1>1. CASE a = e
  BY <1>1
<1>2. CASE a \in Ancestors(e)
  BY <1>2, AncestorsTransitive, AncestorsType DEF Line
<1> QED
  BY <1>1, <1>2 DEF Line

\* What is directly below an entity of the tree is of the tree.
LEMMA OffspringTree ==
    ASSUME Forest(entities), NEW o, o = 0 \/ o \in Tree, NEW d \in Offspring(o)
    PROVE  d \in Tree
<1>1. CASE o = 0
  BY <1>1, OffspringFacts DEF Offspring, Tree
<1>2. CASE o # 0
  <2>1. d \in DOMAIN entities /\ o \in Ancestors(d) /\ Ancestors(o) \subseteq Ancestors(d)
    BY <1>2, OffspringFacts
  <2> QED
    BY <1>2, <2>1 DEF Tree
<1> QED
  BY <1>1, <1>2

\* What is below an entity is what is directly below, and what is below that.
LEMMA BelowOffspring ==
    ASSUME Forest(entities), NEW e \in DOMAIN entities, NEW o \in Line(e), e # o
    PROVE  \E d \in Line(e) : d \in Offspring(o)
<1>1. o \in Ancestors(e) /\ o \in DOMAIN entities
  BY LineTransitive DEF Line
<1>2. PICK d \in Line(e) : d \in DOMAIN entities /\ Parent(d) = o
  BY <1>1, ChildOnTheWay
<1>3. o # 0
  BY <1>1 DEF Forest
<1> QED
  BY <1>2, <1>3 DEF Offspring

\* Whatever is below is reached only if what is above is generated with all it is about.
LEMMA NotReached ==
    ASSUME NEW e, NEW a \in Ancestors(e), ~OutputTrue(a) \/ NamedOnly(a)
    PROVE  ~Reached(e)
  BY DEF Reached, NamedOnly

\* What a call writes is reached.
LEMMA ItemReached ==
    ASSUME Forest(entities), NEW call, CallOK(call), call.lists # <<>>, NEW c \in Offspring(call.entity)
    PROVE  c \in Tree /\ Reached(c)
<1> DEFINE o == call.entity
<1>1. c \in Tree
  BY OffspringTree DEF CallOK
<1>2. o # 0 => Reached(o) /\ OutputTrue(o) /\ ~NamedOnly(o)
  BY DEF CallOK, ListsOK, Generated
<1>3. \A x \in Ancestors(c) : o # 0 /\ (x = o \/ x \in Ancestors(o))
  BY OffspringFacts
<1> HIDE DEF o
<1>4. Reached(c)
  BY <1>2, <1>3 DEF Reached, NamedOnly
<1> QED
  BY <1>1, <1>4

----------------------------------------------------------------------------
(* The calls that are under way.                                           *)

\* Where calls are, and that all but the first write an entity of the tree.
LEMMA NestedFacts ==
    ASSUME Forest(entities), NEW ws, Nested(ws)
    PROVE  /\ Len(ws) \in Nat /\ Len(ws) >= 1 /\ DOMAIN ws = 1 .. Len(ws) /\ Last(ws) = ws[Len(ws)]
           /\ ws[1].entity = 0 /\ \A i \in DOMAIN ws : CallOK(ws[i])
           /\ \A i \in DOMAIN ws : i # 1 =>
                /\ i - 1 \in DOMAIN ws
                /\ ws[i].entity \in Offspring(ws[i - 1].entity) \ Left(ws[i - 1].lists)
                /\ ws[i].entity \in Tree /\ ws[i].entity # 0
           /\ \A i \in DOMAIN ws : ws[i].entity = 0 \/ ws[i].entity \in Tree
<1>1. Len(ws) \in Nat /\ DOMAIN ws = 1 .. Len(ws) /\ Last(ws) = ws[Len(ws)]
  BY ListingFacts DEF Nested, Last
<1>2. ws[1].entity = 0 /\ Len(ws) >= 1 /\ \A i \in DOMAIN ws : CallOK(ws[i])
  BY DEF Nested
<1>3. \A i \in DOMAIN ws : ws[i].entity = 0 \/ ws[i].entity \in Tree
  BY <1>2 DEF CallOK
<1>4. \A i \in DOMAIN ws : i # 1 => ws[i].entity \in Offspring(ws[i - 1].entity) \ Left(ws[i - 1].lists)
  BY DEF Nested
<1>5. \A i \in DOMAIN ws : i # 1 => i - 1 \in DOMAIN ws
  BY <1>1
<1>6. \A i \in DOMAIN ws : i # 1 => ws[i].entity \in Tree /\ ws[i].entity # 0
  BY <1>3, <1>4, OffspringFacts
<1> QED
  BY <1>1, <1>2, <1>3, <1>4, <1>5, <1>6

\* What is above, or is, the entity of a call.
LEMMA PathLine ==
    ASSUME Forest(entities), NEW ws, Nested(ws), NEW i \in DOMAIN ws, i # 1
    PROVE  \A x : x \in Line(ws[i].entity) <=> \E j \in 2 .. i : x = ws[j].entity
<1>1. \A x : x \in Ancestors(ws[i].entity) <=> \E j \in 2 .. i - 1 : x = ws[j].entity
  BY DEF Nested
<1>2. i \in Nat /\ i >= 1
  BY NestedFacts
<1>3. \A j : j \in 2 .. i <=> j = i \/ j \in 2 .. i - 1
  BY <1>2
<1> QED
  BY <1>1, <1>3 DEF Line

\* No two calls are for the same.
LEMMA PathDistinct ==
    ASSUME Forest(entities), NEW ws, Nested(ws), NEW i \in DOMAIN ws, NEW j \in DOMAIN ws, ws[i].entity = ws[j].entity
    PROVE  i = j
<1>1. DOMAIN ws = 1 .. Len(ws) /\ Len(ws) \in Nat /\ ws[1].entity = 0
  BY NestedFacts
<1>2. \A k \in DOMAIN ws : k # 1 => ws[k].entity # 0 /\ ws[k].entity \in DOMAIN entities
  BY NestedFacts DEF Tree
<1>3. \A k \in DOMAIN ws : k # 1 => \A x : x \in Ancestors(ws[k].entity) <=> \E l \in 2 .. k - 1 : x = ws[l].entity
  BY DEF Nested
<1>4. ASSUME NEW k \in DOMAIN ws, NEW l \in DOMAIN ws, k < l, ws[k].entity = ws[l].entity PROVE FALSE
  <2>1. l # 1
    BY <1>1, <1>4
  <2>2. k # 1
    BY <1>1, <1>2, <1>4, <2>1
  <2>3. k \in 2 .. l - 1
    BY <1>1, <1>4, <2>2
  <2>4. ws[k].entity \in Ancestors(ws[l].entity)
    BY <1>3, <2>1, <2>3
  <2> QED
    BY <1>2, <1>4, <2>1, <2>4, AncestorsIrreflexive
<1>5. i < j \/ j < i \/ i = j
  BY <1>1
<1> QED
  BY <1>4, <1>5

\* What is directly below the entity of a call, and is the entity of one, is that of the
\* next call.
LEMMA PathNext ==
    ASSUME Forest(entities), NEW ws, Nested(ws), NEW i \in DOMAIN ws, NEW l \in DOMAIN ws, l # 1,
           ws[l].entity \in Offspring(ws[i].entity)
    PROVE  l = i + 1 /\ i < Len(ws)
<1>1. l - 1 \in DOMAIN ws /\ ws[l].entity \in Offspring(ws[l - 1].entity)
  BY NestedFacts
<1>2. Parent(ws[l].entity) = ws[i].entity /\ Parent(ws[l].entity) = ws[l - 1].entity
  BY <1>1, OffspringFacts
<1>3. i = l - 1
  BY <1>1, <1>2, PathDistinct
<1>4. DOMAIN ws = 1 .. Len(ws) /\ Len(ws) \in Nat
  BY NestedFacts
<1> QED
  BY <1>3, <1>4

\* A call is no call for what is written already.
LEMMA PathNotTold ==
    ASSUME Forest(entities), NEW ws, Nested(ws), NEW e, OnPath(ws, e)
    PROVE  ~Told(ws, e)
<1>1. PICK j \in DOMAIN ws : j # 1 /\ ws[j].entity = e
  BY DEF OnPath
<1>2. SUFFICES ASSUME NEW i \in DOMAIN ws, NEW d \in Line(e), Done(ws, i, d) PROVE FALSE
  BY DEF Told
<1>3. PICK l \in 2 .. j : d = ws[l].entity
  BY <1>1, <1>2, PathLine
<1>4. l \in DOMAIN ws /\ l # 1
  BY <1>1, <1>3, NestedFacts
<1>5. d \in Offspring(ws[i].entity) /\ (i < Len(ws) => d # ws[i + 1].entity)
  BY <1>2 DEF Done
<1>6. l = i + 1 /\ i < Len(ws)
  BY <1>3, <1>4, <1>5, PathNext
<1> QED
  BY <1>3, <1>5, <1>6

\* Nothing that is or is below an item that is left is written, or on the way.
LEMMA ItemFresh ==
    ASSUME Forest(entities), NEW ws, Nested(ws), NEW c \in Offspring(Last(ws).entity), c \in Left(Last(ws).lists),
           NEW e \in DOMAIN entities, c \in Line(e)
    PROVE  ~Told(ws, e) /\ ~OnPath(ws, e)
<1> DEFINE n == Len(ws)
           o == ws[n].entity
<1>0. /\ n \in Nat /\ n >= 1 /\ n \in DOMAIN ws /\ DOMAIN ws = 1 .. n /\ Last(ws) = ws[n]
      /\ c \in Offspring(o) /\ c \in Left(ws[n].lists)
  BY NestedFacts
<1> HIDE DEF n
<1>1. ~OnPath(ws, e)
  <2>1. SUFFICES ASSUME NEW j \in DOMAIN ws, j # 1, ws[j].entity = e PROVE FALSE
    BY DEF OnPath
  <2>2. PICK l \in 2 .. j : c = ws[l].entity
    BY <2>1, PathLine
  <2>3. l \in DOMAIN ws /\ l # 1
    BY <1>0, <2>1, <2>2
  <2>4. n < Len(ws)
    BY <1>0, <2>2, <2>3, PathNext
  <2> QED
    BY <1>0, <2>4 DEF n
<1>2. ~Told(ws, e)
  <2>1. SUFFICES ASSUME NEW i \in DOMAIN ws, NEW d \in Line(e), Done(ws, i, d) PROVE FALSE
    BY DEF Told
  <2>2. d \in Offspring(ws[i].entity) \ Left(ws[i].lists) /\ (i < n => d # ws[i + 1].entity)
    BY <2>1 DEF Done, n
  <2>3. CASE i = n
    <3>1. d = c
      BY <1>0, <2>2, <2>3, OneOffspring
    <3> QED
      BY <1>0, <2>2, <2>3, <3>1
  <2>4. CASE i # n
    <3>1. i < n /\ i + 1 \in DOMAIN ws /\ i + 1 # 1 /\ i + 1 \in 2 .. n /\ n # 1 /\ (i + 1) - 1 = i
      BY <1>0, <2>4
    <3>2. ws[i + 1].entity \in Line(o) /\ ws[i + 1].entity \in Offspring(ws[i].entity)
      BY <1>0, <3>1, PathLine, NestedFacts
    <3>3. o # 0
      BY <1>0, <3>1, NestedFacts
    <3>4. Line(o) \subseteq Line(c)
      BY <1>0, <3>3, OffspringFacts DEF Line
    <3>5. ws[i + 1].entity \in Line(e)
      BY <3>2, <3>4, LineTransitive
    <3>6. d = ws[i + 1].entity
      BY <2>2, <3>2, <3>5, OneOffspring
    <3> QED
      BY <2>2, <3>1, <3>6
  <2> QED
    BY <2>3, <2>4
<1> QED
  BY <1>1, <1>2

----------------------------------------------------------------------------
(* What stays as it is when more is written.                               *)

\* What is written completely stays so if nothing more is written of it, and of what is
\* below.
LEMMA StillSettled ==
    ASSUME Forest(entities), NEW txt, NEW txt2, Extends(txt, txt2), NEW e \in Tree, Settled(txt, e),
           \A k \in DOMAIN txt2 \ DOMAIN txt : e \notin Line(txt2[k].entity)
    PROVE  Settled(txt2, e)
<1>1. \A k \in DOMAIN txt : k \in DOMAIN txt2 /\ txt2[k] = txt[k]
  BY DEF Extends
<1>2. ASSUME NEW d, e \in Line(d) PROVE MarksOf(txt2, d) = MarksOf(txt, d)
  <2>1. \A k \in DOMAIN txt2 \ DOMAIN txt : txt2[k].entity # d
    BY <1>2
  <2> QED
    BY <1>1, <2>1 DEF MarksOf
<1>3. MarksOf(txt2, e) = MarksOf(txt, e) /\ \A k \in MarksOf(txt, e) : k \in DOMAIN txt /\ txt2[k] = txt[k]
  BY <1>1, <1>2 DEF Line, MarksOf
<1>4. \A mark : Places(txt2, mark, e) = Places(txt, mark, e)
  BY <1>3 DEF Places
<1>5. CASE Generated(e)
  <2>1. PICK begin, end \in DOMAIN txt : Enclosed(txt, e, begin, end)
    BY <1>5 DEF Settled
  <2>2. Enclosed(txt2, e, begin, end)
    BY <1>2, <1>4, <2>1 DEF Enclosed
  <2> QED
    BY <1>1, <1>5, <2>1, <2>2 DEF Settled
<1>6. CASE ~Generated(e)
  <2>1. Asked(txt, e)
    BY <1>6 DEF Settled
  <2>2. Asked(txt2, e)
    BY <1>3, <2>1 DEF Asked
  <2> QED
    BY <1>6, <2>2 DEF Settled
<1> QED
  BY <1>5, <1>6

\* What is begun stays so if it is neither begun again nor ended.
LEMMA StillOpened ==
    ASSUME NEW txt, NEW txt2, Extends(txt, txt2), NEW e, Opened(txt, e),
           \A k \in DOMAIN txt2 \ DOMAIN txt : txt2[k].entity = e => txt2[k].mark \notin {"begin", "end"}
    PROVE  Opened(txt2, e)
<1>1. \A k \in DOMAIN txt : k \in DOMAIN txt2 /\ txt2[k] = txt[k]
  BY DEF Extends
<1>2. PICK begin \in DOMAIN txt : Begun(txt, e, begin)
  BY DEF Opened
<1>3. \A mark \in {"begin", "end"} : Places(txt2, mark, e) = Places(txt, mark, e)
  BY <1>1 DEF Places, MarksOf
<1>4. ASSUME NEW d \in Tree, e \in Line(d), NEW k \in MarksOf(txt2, d) PROVE begin <= k
  <2>1. CASE k \in DOMAIN txt
    <3>1. k \in MarksOf(txt, d)
      BY <1>1, <2>1 DEF MarksOf
    <3> QED
      BY <1>2, <1>4, <3>1 DEF Begun
  <2>2. CASE k \notin DOMAIN txt
    BY <1>2, <2>2 DEF Extends, MarksOf
  <2> QED
    BY <2>1, <2>2
<1>5. Begun(txt2, e, begin)
  BY <1>2, <1>3, <1>4 DEF Begun
<1> QED
  BY <1>1, <1>2, <1>5 DEF Opened

\* An item of the last call is not below what is written already.
LEMMA ToldNotAbove ==
    ASSUME Forest(entities), NEW ws, Nested(ws), NEW e, Told(ws, e)
    PROVE  /\ Last(ws).entity # 0 => e \notin Line(Last(ws).entity)
           /\ \A c \in Offspring(Last(ws).entity) : c \in Left(Last(ws).lists) => e \notin Line(c)
<1> DEFINE n == Len(ws)
           o == ws[n].entity
<1>0. n \in DOMAIN ws /\ Last(ws) = ws[n] /\ n \in Nat /\ ws[1].entity = 0 /\ DOMAIN ws = 1 .. n
  BY NestedFacts
<1> HIDE DEF n
<1>1. ASSUME o # 0 PROVE e \notin Line(o)
  <2>1. n # 1
    BY <1>0, <1>1
  <2>2. ASSUME e \in Line(o) PROVE FALSE
    <3>1. PICK j \in 2 .. n : e = ws[j].entity
      BY <1>0, <2>1, <2>2, PathLine
    <3>2. j \in DOMAIN ws /\ j # 1
      BY <1>0, <3>1
    <3>3. OnPath(ws, e)
      BY <3>1, <3>2 DEF OnPath
    <3> QED
      BY <3>3, PathNotTold
  <2> QED
    BY <2>2
<1>2. ASSUME NEW c \in Offspring(o), c \in Left(ws[n].lists) PROVE e \notin Line(c)
  <2>1. c \in DOMAIN entities /\ \A x : x \in Line(c) <=> x = c \/ (o # 0 /\ x \in Line(o))
    BY OffspringFacts DEF Line
  <2>2. ~Told(ws, c)
    BY <1>0, <1>2, <2>1, ItemFresh DEF Line
  <2> QED
    BY <1>1, <2>1, <2>2
<1> QED
  BY <1>0, <1>1, <1>2

----------------------------------------------------------------------------
(* Calls that go on, begin and return.                                     *)

\* The last call has changed.
Replaces(ws, ws2, call) ==
    /\ Listing(ws2) /\ Len(ws2) = Len(ws) /\ ws2[Len(ws)] = call
    /\ \A i \in DOMAIN ws : i # Len(ws) => ws2[i] = ws[i]

\* A call has one item less.
Takes(old, new, c) ==
    /\ CallOK(new) /\ new.entity = old.entity
    /\ c \in Left(old.lists) /\ \A d : d \in Left(new.lists) <=> d \in Left(old.lists) /\ d # c

\* A call has a list less that is written.
Passes(old, new) ==
    /\ CallOK(new) /\ new.entity = old.entity
    /\ \A d : d \in Left(new.lists) <=> d \in Left(old.lists)

\* The last call may change, if it is still for the same and has not more to write.
LEMMA ReplacedNested ==
    ASSUME Forest(entities), NEW ws, Nested(ws), NEW ws2, NEW call, Replaces(ws, ws2, call),
           CallOK(call), call.entity = Last(ws).entity
    PROVE  /\ Nested(ws2) /\ Len(ws2) = Len(ws) /\ DOMAIN ws2 = DOMAIN ws /\ Last(ws2) = call
           /\ \A i \in DOMAIN ws : ws2[i].entity = ws[i].entity
           /\ \A e : OnPath(ws2, e) <=> OnPath(ws, e)
<1> DEFINE n == Len(ws)
<1>0. n \in DOMAIN ws /\ Last(ws) = ws[n] /\ n \in Nat /\ n >= 1 /\ ws[1].entity = 0 /\ DOMAIN ws = 1 .. n
  BY NestedFacts
<1>1. Listing(ws2) /\ Len(ws2) = n /\ ws2[n] = call /\ \A i \in DOMAIN ws : i # n => ws2[i] = ws[i]
  BY DEF Replaces
<1>2. DOMAIN ws2 = 1 .. n /\ Last(ws2) = ws2[n]
  BY <1>1, ListingFacts DEF Last
<1> HIDE DEF n
<1>3. \A i \in DOMAIN ws : ws2[i].entity = ws[i].entity
  BY <1>0, <1>1
<1>4. \A i \in DOMAIN ws : CallOK(ws2[i])
  BY <1>0, <1>1, NestedFacts
<1>5. ASSUME NEW i \in DOMAIN ws, i # 1
      PROVE  /\ ws2[i].entity \in Offspring(ws2[i - 1].entity) \ Left(ws2[i - 1].lists)
             /\ \A x : x \in Ancestors(ws2[i].entity) <=> \E j \in 2 .. i - 1 : x = ws2[j].entity
  <2>1. i - 1 \in DOMAIN ws /\ i - 1 # n /\ \A j \in 2 .. i - 1 : j \in DOMAIN ws
    BY <1>0, <1>5
  <2>2. ws2[i - 1] = ws[i - 1] /\ ws2[i].entity = ws[i].entity /\ \A j \in 2 .. i - 1 : ws2[j].entity = ws[j].entity
    BY <1>1, <1>3, <2>1
  <2>3. /\ ws[i].entity \in Offspring(ws[i - 1].entity) \ Left(ws[i - 1].lists)
        /\ \A x : x \in Ancestors(ws[i].entity) <=> \E j \in 2 .. i - 1 : x = ws[j].entity
    BY <1>5 DEF Nested
  <2> QED
    BY <2>2, <2>3
<1>6. Nested(ws2)
  BY <1>0, <1>1, <1>2, <1>3, <1>4, <1>5 DEF Nested
<1>7. \A e : OnPath(ws2, e) <=> OnPath(ws, e)
  BY <1>0, <1>2, <1>3 DEF OnPath
<1> QED
  BY <1>0, <1>1, <1>2, <1>3, <1>6, <1>7 DEF n

\* If an item is taken, that and what is below counts as written.
LEMMA TakenTold ==
    ASSUME Forest(entities), NEW ws, Nested(ws), NEW ws2, NEW call, Replaces(ws, ws2, call),
           NEW c \in Offspring(Last(ws).entity), Takes(Last(ws), call, c), NEW e
    PROVE  Told(ws2, e) <=> Told(ws, e) \/ c \in Line(e)
<1> DEFINE n == Len(ws)
<1>0. n \in DOMAIN ws /\ Last(ws) = ws[n] /\ n \in Nat /\ DOMAIN ws = 1 .. n
  BY NestedFacts
<1>1. /\ Len(ws2) = n /\ DOMAIN ws2 = DOMAIN ws /\ ws2[n] = call /\ \A i \in DOMAIN ws : ws2[i].entity = ws[i].entity
      /\ \A i \in DOMAIN ws : i # n => ws2[i] = ws[i]
  BY ReplacedNested DEF Takes, Replaces
<1>2. c \in Left(ws[n].lists) /\ \A d : d \in Left(call.lists) <=> d \in Left(ws[n].lists) /\ d # c
  BY <1>0 DEF Takes
<1> HIDE DEF n
<1>3. \A d : Done(ws2, n, d) <=> Done(ws, n, d) \/ d = c
  <2>1. ~(n < n)
    BY <1>0
  <2> QED
    BY <1>0, <1>1, <1>2, <2>1 DEF Done, n
<1>4. \A i \in DOMAIN ws : i # n => \A d : Done(ws2, i, d) <=> Done(ws, i, d)
  <2>1. \A i \in DOMAIN ws : i # n => i + 1 \in DOMAIN ws
    BY <1>0
  <2> QED
    BY <1>1, <2>1 DEF Done, n
<1> QED
  BY <1>0, <1>1, <1>3, <1>4 DEF Told

\* If nothing is taken, nothing more counts as written.
LEMMA PassedTold ==
    ASSUME Forest(entities), NEW ws, Nested(ws), NEW ws2, NEW call, Replaces(ws, ws2, call),
           Passes(Last(ws), call), NEW e
    PROVE  Told(ws2, e) <=> Told(ws, e)
<1> DEFINE n == Len(ws)
<1>0. n \in DOMAIN ws /\ Last(ws) = ws[n] /\ n \in Nat /\ DOMAIN ws = 1 .. n
  BY NestedFacts
<1>1. /\ Len(ws2) = n /\ DOMAIN ws2 = DOMAIN ws /\ ws2[n] = call /\ \A i \in DOMAIN ws : ws2[i].entity = ws[i].entity
      /\ \A i \in DOMAIN ws : i # n => ws2[i] = ws[i]
  BY ReplacedNested DEF Passes, Replaces
<1>2. \A i \in DOMAIN ws : \A d : d \in Left(ws2[i].lists) <=> d \in Left(ws[i].lists)
  BY <1>0, <1>1 DEF Passes
<1> HIDE DEF n
<1>3. \A i \in DOMAIN ws : \A d : Done(ws2, i, d) <=> Done(ws, i, d)
  <2>1. \A i \in DOMAIN ws : i < n => i + 1 \in DOMAIN ws
    BY <1>0
  <2> QED
    BY <1>1, <1>2, <2>1 DEF Done, n
<1> QED
  BY <1>1, <1>3 DEF Told

\* A call more.
Pushes(ws, ws3, call) ==
    /\ Listing(ws3) /\ Len(ws3) = Len(ws) + 1 /\ ws3[Len(ws) + 1] = call
    /\ \A i \in DOMAIN ws : ws3[i] = ws[i]

\* That is what Append does.
LEMMA AppendPushes ==
    ASSUME NEW ws, Listing(ws), NEW call
    PROVE  Pushes(ws, Append(ws, call), call)
<1> DEFINE T == Elements(ws) \cup {call}
           n == Len(ws)
<1>1. ws \in Seq(T) /\ call \in T
  BY WiderSeq DEF Listing
<1> HIDE DEF T
<1>2. /\ Append(ws, call) \in Seq(T) /\ Len(Append(ws, call)) = n + 1 /\ Append(ws, call)[n + 1] = call
      /\ \A i \in DOMAIN ws : Append(ws, call)[i] = ws[i]
  BY <1>1
<1> QED
  BY <1>2, SeqListing DEF Pushes

\* A call may begin for an item of the last one that is not left any more.
LEMMA PushedNested ==
    ASSUME Forest(entities), NEW ws, Nested(ws), NEW ws3, NEW call, Pushes(ws, ws3, call),
           CallOK(call), call.entity \in Offspring(Last(ws).entity) \ Left(Last(ws).lists)
    PROVE  /\ Nested(ws3)
           /\ \A e : OnPath(ws3, e) <=> OnPath(ws, e) \/ e = call.entity
<1> DEFINE n == Len(ws)
           c == call.entity
           o == ws[n].entity
<1>0. n \in DOMAIN ws /\ Last(ws) = ws[n] /\ n \in Nat /\ n >= 1 /\ ws[1].entity = 0 /\ DOMAIN ws = 1 .. n
  BY NestedFacts
<1>1. Listing(ws3) /\ Len(ws3) = n + 1 /\ ws3[n + 1] = call /\ \A i \in DOMAIN ws : ws3[i] = ws[i]
  BY DEF Pushes
<1>2. DOMAIN ws3 = 1 .. n + 1
  BY <1>1, ListingFacts
<1>3. c \in Offspring(o) \ Left(ws[n].lists)
  BY <1>0
<1> HIDE DEF n
<1>4. \A i : i \in DOMAIN ws3 <=> i = n + 1 \/ i \in DOMAIN ws
  BY <1>0, <1>2
<1>5. \A i \in DOMAIN ws3 : CallOK(ws3[i])
  BY <1>1, <1>4, NestedFacts
<1>6. ASSUME NEW i \in DOMAIN ws, i # 1
      PROVE  /\ ws3[i].entity \in Offspring(ws3[i - 1].entity) \ Left(ws3[i - 1].lists)
             /\ \A x : x \in Ancestors(ws3[i].entity) <=> \E j \in 2 .. i - 1 : x = ws3[j].entity
  <2>1. i - 1 \in DOMAIN ws /\ \A j \in 2 .. i - 1 : j \in DOMAIN ws
    BY <1>0, <1>6
  <2>2. ws3[i - 1] = ws[i - 1] /\ ws3[i] = ws[i] /\ \A j \in 2 .. i - 1 : ws3[j] = ws[j]
    BY <1>1, <2>1
  <2>3. /\ ws[i].entity \in Offspring(ws[i - 1].entity) \ Left(ws[i - 1].lists)
        /\ \A x : x \in Ancestors(ws[i].entity) <=> \E j \in 2 .. i - 1 : x = ws[j].entity
    BY <1>6 DEF Nested
  <2> QED
    BY <2>2, <2>3
<1>7. \A x : x \in Ancestors(c) <=> \E j \in 2 .. n : x = ws3[j].entity
  <2>1. \A x : x \in Ancestors(c) <=> o # 0 /\ x \in Line(o)
    BY <1>3, OffspringFacts DEF Line
  <2>2. \A j \in 2 .. n : j \in DOMAIN ws /\ ws3[j] = ws[j]
    BY <1>0, <1>1
  <2>3. CASE n = 1
    <3>1. 2 .. n = {} /\ o = 0
      BY <1>0, <2>3
    <3> QED
      BY <2>1, <3>1
  <2>4. CASE n # 1
    <3>1. o # 0 /\ \A x : x \in Line(o) <=> \E j \in 2 .. n : x = ws[j].entity
      BY <1>0, <2>4, PathLine, NestedFacts
    <3> QED
      BY <2>1, <2>2, <3>1
  <2> QED
    BY <2>3, <2>4
<1>8. (n + 1) - 1 = n /\ n + 1 # 1 /\ n + 1 >= 1
  BY <1>0
<1>9. \A i \in DOMAIN ws3 : i # 1 =>
         /\ ws3[i].entity \in Offspring(ws3[i - 1].entity) \ Left(ws3[i - 1].lists)
         /\ \A x : x \in Ancestors(ws3[i].entity) <=> \E j \in 2 .. i - 1 : x = ws3[j].entity
  <2>1. ws3[n + 1].entity \in Offspring(ws3[n].entity) \ Left(ws3[n].lists)
    BY <1>0, <1>1, <1>3
  <2>2. ASSUME NEW i \in DOMAIN ws3, i # 1, i = n + 1
        PROVE  /\ ws3[i].entity \in Offspring(ws3[i - 1].entity) \ Left(ws3[i - 1].lists)
               /\ \A x : x \in Ancestors(ws3[i].entity) <=> \E j \in 2 .. i - 1 : x = ws3[j].entity
    BY <1>1, <1>7, <1>8, <2>1, <2>2
  <2> QED
    BY <1>4, <1>6, <2>2
<1>10. 1 \in DOMAIN ws /\ ws3[1].entity = 0
  BY <1>0, <1>1
<1>11. Nested(ws3)
  BY <1>1, <1>5, <1>8, <1>9, <1>10 DEF Nested
<1>12. \A e : OnPath(ws3, e) <=> OnPath(ws, e) \/ e = c
  BY <1>1, <1>4, <1>8 DEF OnPath
<1> QED
  BY <1>11, <1>12

\* If an item is taken and its call begins, all that counts as written more is what that call
\* does not write.
LEMMA PushedTold ==
    ASSUME Forest(entities), NEW ws, Nested(ws), NEW ws2, NEW old, Replaces(ws, ws2, old),
           NEW c \in Offspring(Last(ws).entity), Takes(Last(ws), old, c),
           NEW ws3, NEW call, Pushes(ws2, ws3, call), call.entity = c, NEW e
    PROVE  /\ Told(ws, e) => Told(ws3, e)
           /\ Told(ws3, e) => Told(ws, e) \/ \E d \in Line(e) : d \in Offspring(c) \ Left(call.lists)
<1> DEFINE n == Len(ws)
<1>0. n \in DOMAIN ws /\ Last(ws) = ws[n] /\ n \in Nat /\ DOMAIN ws = 1 .. n
  BY NestedFacts
<1>1. /\ Len(ws2) = n /\ DOMAIN ws2 = DOMAIN ws /\ ws2[n] = old /\ \A i \in DOMAIN ws : ws2[i].entity = ws[i].entity
      /\ \A i \in DOMAIN ws : i # n => ws2[i] = ws[i]
  BY ReplacedNested DEF Takes, Replaces
<1>2. Listing(ws3) /\ Len(ws3) = n + 1 /\ ws3[n + 1] = call /\ \A i \in DOMAIN ws : ws3[i] = ws2[i]
  BY <1>1 DEF Pushes
<1>3. c \in Left(ws[n].lists) /\ \A d : d \in Left(old.lists) <=> d \in Left(ws[n].lists) /\ d # c
  BY <1>0 DEF Takes
<1>4. DOMAIN ws3 = 1 .. n + 1
  BY <1>2, ListingFacts
<1> HIDE DEF n
<1>5. \A i : i \in DOMAIN ws3 <=> i = n + 1 \/ i \in DOMAIN ws
  BY <1>0, <1>4
<1>6. \A d : Done(ws3, n, d) <=> Done(ws, n, d)
  <2>1. ~(n < n) /\ n < n + 1
    BY <1>0
  <2>2. ws3[n] = old /\ ws3[n + 1].entity = c /\ old.entity = ws[n].entity /\ Len(ws3) = n + 1 /\ Len(ws) = n
    BY <1>0, <1>1, <1>2 DEF n
  <2> QED
    BY <1>3, <2>1, <2>2 DEF Done
<1>7. \A i \in DOMAIN ws : i # n => \A d : Done(ws3, i, d) <=> Done(ws, i, d)
  <2>1. \A i \in DOMAIN ws : i # n => i + 1 \in DOMAIN ws /\ i < n /\ i < n + 1
    BY <1>0
  <2>2. \A i \in DOMAIN ws : i # n => ws3[i] = ws[i] /\ ws3[i + 1].entity = ws[i + 1].entity
    BY <1>1, <1>2, <2>1
  <2> QED
    BY <1>2, <2>1, <2>2 DEF Done, n
<1>8. \A d : Done(ws3, n + 1, d) <=> d \in Offspring(c) \ Left(call.lists)
  <2>1. ~(n + 1 < n + 1)
    BY <1>0
  <2> QED
    BY <1>2, <2>1 DEF Done
<1> QED
  BY <1>5, <1>6, <1>7, <1>8 DEF Told

\* The last call returns: what it was for counts as written.
LEMMA FrontNested ==
    ASSUME Forest(entities), NEW ws, Nested(ws), Len(ws) # 1, Last(ws).lists = <<>>
    PROVE  /\ Nested(Front(ws)) /\ Last(ws).entity \in Tree
           /\ \A e : OnPath(ws, e) <=> OnPath(Front(ws), e) \/ e = Last(ws).entity
           /\ ~OnPath(Front(ws), Last(ws).entity)
           /\ \A e \in DOMAIN entities : Told(Front(ws), e) <=> Told(ws, e) \/ e = Last(ws).entity
<1> DEFINE n == Len(ws)
           o == ws[n].entity
           fs == Front(ws)
           m == n - 1
<1>0. n \in DOMAIN ws /\ Last(ws) = ws[n] /\ n \in Nat /\ n >= 1 /\ ws[1].entity = 0 /\ DOMAIN ws = 1 .. n /\ n # 1
  BY NestedFacts
<1>1. m \in Nat /\ m >= 1 /\ n = m + 1
  BY <1>0
<1>2. ws \in Seq(Elements(ws)) /\ fs = SubSeq(ws, 1, m)
  BY DEF Nested, Listing, Front
<1>3. fs \in Seq(Elements(ws)) /\ Len(fs) = m /\ DOMAIN fs = 1 .. m /\ \A i \in 1 .. m : fs[i] = ws[i]
  <2> DEFINE T == Elements(ws)
  <2>1. ws \in Seq(T)
    BY <1>2
  <2> HIDE DEF T, m
  <2>2. m <= Len(ws)
    BY <1>0, <1>1
  <2> QED
    BY <1>1, <1>2, <2>1, <2>2 DEF T
<1>4. Listing(fs)
  BY <1>3, SeqListing
<1> HIDE DEF n, m, fs
<1>5. \A i : i \in DOMAIN ws <=> i = n \/ i \in DOMAIN fs
  BY <1>0, <1>1, <1>3
<1>6. n \notin DOMAIN fs
  BY <1>1, <1>3
<1>7. Nested(fs)
  <2>1. \A i \in DOMAIN fs : CallOK(fs[i])
    BY <1>3, <1>5, NestedFacts
  <2>2. ASSUME NEW i \in DOMAIN fs, i # 1
        PROVE  /\ fs[i].entity \in Offspring(fs[i - 1].entity) \ Left(fs[i - 1].lists)
               /\ \A x : x \in Ancestors(fs[i].entity) <=> \E j \in 2 .. i - 1 : x = fs[j].entity
    <3>1. i - 1 \in DOMAIN fs /\ i \in DOMAIN ws /\ \A j \in 2 .. i - 1 : j \in DOMAIN fs
      BY <1>1, <1>3, <1>5, <2>2
    <3>2. fs[i - 1] = ws[i - 1] /\ fs[i] = ws[i] /\ \A j \in 2 .. i - 1 : fs[j] = ws[j]
      BY <1>3, <3>1
    <3>3. /\ ws[i].entity \in Offspring(ws[i - 1].entity) \ Left(ws[i - 1].lists)
          /\ \A x : x \in Ancestors(ws[i].entity) <=> \E j \in 2 .. i - 1 : x = ws[j].entity
      BY <2>2, <3>1 DEF Nested
    <3> QED
      BY <3>2, <3>3
  <2>3. 1 \in DOMAIN fs /\ fs[1].entity = 0
    BY <1>0, <1>1, <1>3
  <2> QED
    BY <1>1, <1>3, <1>4, <2>1, <2>2, <2>3 DEF Nested
<1>8. \A e : OnPath(ws, e) <=> OnPath(fs, e) \/ e = o
  BY <1>0, <1>3, <1>5 DEF OnPath
<1>9. ~OnPath(fs, o)
  BY <1>0, <1>3, <1>5, <1>6, PathDistinct DEF OnPath
<1>10. o \in Tree /\ o # 0 /\ o \in DOMAIN entities
  BY <1>0, NestedFacts DEF Tree
<1>11. \A d : Done(fs, m, d) <=> Done(ws, m, d) \/ d = o
  <2>1. ~(m < m) /\ m < n /\ n = m + 1 /\ m \in DOMAIN fs /\ n - 1 = m
    BY <1>1, <1>3
  <2>2. Len(fs) = m /\ Len(ws) = n /\ fs[m] = ws[m]
    BY <1>3, <2>1 DEF n
  <2>3. o \in Offspring(ws[m].entity) \ Left(ws[m].lists)
    BY <1>0, <2>1, NestedFacts
  <2> QED
    BY <2>1, <2>2, <2>3 DEF Done
<1>12. \A i \in DOMAIN fs : i # m => \A d : Done(fs, i, d) <=> Done(ws, i, d)
  <2>1. \A i \in DOMAIN fs : i # m => i + 1 \in DOMAIN fs /\ i < m /\ i < n
    BY <1>1, <1>3
  <2> QED
    BY <1>3, <2>1 DEF Done, n
<1>13. \A d : Done(ws, n, d) <=> d \in Offspring(o)
  <2>1. ~(n < n)
    BY <1>0
  <2>2. Left(ws[n].lists) = {}
    BY <1>0 DEF Left
  <2> QED
    BY <2>1, <2>2 DEF Done, n
<1>14. ASSUME NEW e \in DOMAIN entities PROVE Told(fs, e) <=> Told(ws, e) \/ e = o
  <2>1. Told(fs, e) <=> (\E i \in DOMAIN fs : \E d \in Line(e) : Done(ws, i, d)) \/ o \in Line(e)
    <3>1. m \in DOMAIN fs
      BY <1>1, <1>3
    <3> QED
      BY <1>11, <1>12, <3>1 DEF Told
  <2>2. Told(ws, e) <=> (\E i \in DOMAIN fs : \E d \in Line(e) : Done(ws, i, d)) \/ \E d \in Line(e) : d \in Offspring(o)
    BY <1>5, <1>13 DEF Told
  <2>3. o \in Line(e) => e = o \/ \E d \in Line(e) : d \in Offspring(o)
    BY BelowOffspring
  <2>4. (\E d \in Line(e) : d \in Offspring(o)) => o \in Line(e)
    <3>1. ASSUME NEW d \in Line(e), d \in Offspring(o) PROVE o \in Line(e)
      BY <1>10, <3>1, OffspringFacts, LineTransitive DEF Line
    <3> QED
      BY <3>1
  <2>5. e \in Line(e)
    BY DEF Line
  <2> QED
    BY <2>1, <2>2, <2>3, <2>4, <2>5
<1> QED
  BY <1>0, <1>7, <1>8, <1>9, <1>10, <1>14 DEF fs

----------------------------------------------------------------------------
(* What a step writes, and that it is in its place.                        *)

\* The marks that are written more.
More(txt, txt2) == DOMAIN txt2 \ DOMAIN txt

Grows(txt, txt2) == Listing(txt2) /\ Extends(txt, txt2)

\* Marks of the call o may stand in front of the question for c, marks of c behind it.
BeginsAt(txt, txt2, o, c, b) ==
    /\ b \in More(txt, txt2) /\ txt2[b].mark = "begin" /\ txt2[b].entity = c
    /\ \A k \in More(txt, txt2) : k # b =>
         /\ txt2[k].mark \in Written
         /\ (k <= b /\ o # 0 /\ txt2[k].entity = o) \/ (b <= k /\ txt2[k].entity = c)

\* Nothing is written.
LEMMA ItemSkipped ==
    ASSUME Forest(entities), NEW ws, NEW txt, Generating(ws, txt), NEW ws2, NEW call, Replaces(ws, ws2, call),
           NEW c \in Offspring(Last(ws).entity), Takes(Last(ws), call, c),
           \A e \in Tree : c \in Line(e) => ~Generated(e)
    PROVE  Generating(ws2, txt)
<1>1. Nested(ws) /\ Listing(txt)
  BY DEF Generating
<1>2. Nested(ws2) /\ \A e : OnPath(ws2, e) <=> OnPath(ws, e)
  BY <1>1, ReplacedNested DEF Takes
<1>3. \A e : Told(ws2, e) <=> Told(ws, e) \/ c \in Line(e)
  BY <1>1, TakenTold
<1>4. \A e \in DOMAIN entities : c \in Line(e) => ~Told(ws, e) /\ ~OnPath(ws, e)
  BY <1>1, ItemFresh DEF Takes
<1>5. \A k \in DOMAIN txt : txt[k].entity \in Tree /\ (Told(ws, txt[k].entity) \/ OnPath(ws, txt[k].entity))
  BY DEF Generating
<1>6. ASSUME NEW e \in Tree, c \in Line(e) PROVE Settled(txt, e)
  <2>1. e \in DOMAIN entities
    BY DEF Tree
  <2>2. MarksOf(txt, e) = {}
    BY <1>4, <1>5, <1>6, <2>1 DEF MarksOf
  <2> QED
    BY <1>6, <2>2 DEF Settled, Asked
<1>7. \A e \in Tree : Told(ws2, e) => Settled(txt, e)
  BY <1>3, <1>6 DEF Generating
<1> QED
  BY <1>1, <1>2, <1>3, <1>5, <1>7 DEF Generating

\* The callback is asked, and that is all.
LEMMA ItemAsked ==
    ASSUME Forest(entities), NEW ws, NEW txt, Generating(ws, txt), NEW ws2, NEW call, Replaces(ws, ws2, call),
           NEW c \in Offspring(Last(ws).entity), Takes(Last(ws), call, c),
           Reached(c), c \in Tree, ~OutputTrue(c),
           NEW txt2, Grows(txt, txt2), NEW b, BeginsAt(txt, txt2, Last(ws).entity, c, b),
           \A k \in More(txt, txt2) : txt2[k].entity = c => k = b
    PROVE  Generating(ws2, txt2)
<1> DEFINE o == Last(ws).entity
<1>1. Nested(ws) /\ Listing(txt)
  BY DEF Generating
<1>2. Nested(ws2) /\ \A e : OnPath(ws2, e) <=> OnPath(ws, e)
  BY <1>1, ReplacedNested DEF Takes
<1>3. \A e : Told(ws2, e) <=> Told(ws, e) \/ c \in Line(e)
  BY <1>1, TakenTold
<1>4. \A e \in DOMAIN entities : c \in Line(e) => ~Told(ws, e) /\ ~OnPath(ws, e)
  BY <1>1, ItemFresh DEF Takes
<1>5. \A k \in DOMAIN txt : txt[k].entity \in Tree /\ (Told(ws, txt[k].entity) \/ OnPath(ws, txt[k].entity))
  BY DEF Generating
<1>6. \A k \in More(txt, txt2) : txt2[k].entity = c \/ (o # 0 /\ txt2[k].entity = o /\ txt2[k].mark \in Written)
  BY DEF BeginsAt
<1>7. o # 0 => o \in Tree /\ OnPath(ws, o)
  BY <1>1, NestedFacts DEF OnPath
<1>8. Extends(txt, txt2) /\ Listing(txt2) /\ \A k \in DOMAIN txt : k \in DOMAIN txt2 /\ txt2[k] = txt[k]
  BY DEF Grows, Extends
<1>9. c \in DOMAIN entities /\ c \in Line(c) /\ c # o /\ \A e \in Tree : e \in DOMAIN entities
  BY <1>4, <1>7, OffspringFacts DEF Tree, Line
<1>10. \A e : Told(ws, e) => (o # 0 => e \notin Line(o)) /\ e \notin Line(c)
  BY <1>1, ToldNotAbove DEF Takes
<1> HIDE DEF o
<1>11. ASSUME NEW e \in Tree, Told(ws, e) PROVE Settled(txt2, e)
  <2>1. Settled(txt, e)
    BY <1>11 DEF Generating
  <2>2. \A k \in DOMAIN txt2 \ DOMAIN txt : e \notin Line(txt2[k].entity)
    BY <1>6, <1>10, <1>11 DEF More
  <2> QED
    BY <1>8, <2>1, <2>2, StillSettled
<1>12. ASSUME NEW e \in Tree, c \in Line(e) PROVE Settled(txt2, e)
  <2>1. \A k \in DOMAIN txt : txt[k].entity # e
    BY <1>4, <1>5, <1>9, <1>12
  <2>2. o # 0 => o # e
    BY <1>4, <1>7, <1>9, <1>12
  <2>3. CASE e = c
    <3>1. \A k \in MarksOf(txt2, c) : k = b
      BY <1>8, <2>1, <2>3 DEF MarksOf, More
    <3>2. txt2[b].mark = "begin"
      BY DEF BeginsAt
    <3>3. Asked(txt2, c)
      BY <3>1, <3>2 DEF Asked
    <3> QED
      BY <2>3, <3>3 DEF Settled, Generated
  <2>4. CASE e # c
    <3>1. MarksOf(txt2, e) = {}
      BY <1>6, <1>8, <2>1, <2>2, <2>4 DEF MarksOf, More
    <3>2. c \in Ancestors(e)
      BY <1>12, <2>4 DEF Line
    <3>3. ~Reached(e)
      BY <3>2, NotReached
    <3> QED
      BY <3>1, <3>3 DEF Settled, Generated, Asked
  <2> QED
    BY <2>3, <2>4
<1>13. \A e \in Tree : Told(ws2, e) => Settled(txt2, e)
  BY <1>3, <1>11, <1>12
<1>14. ASSUME NEW e, OnPath(ws2, e) PROVE Opened(txt2, e)
  <2>1. Opened(txt, e) /\ e # c
    BY <1>2, <1>4, <1>9, <1>14 DEF Generating
  <2>2. \A k \in DOMAIN txt2 \ DOMAIN txt : txt2[k].entity = e => txt2[k].mark \notin {"begin", "end"}
    BY <1>6, <2>1 DEF More, Written, Names
  <2> QED
    BY <1>8, <2>1, <2>2, StillOpened
<1>15. ASSUME NEW k \in DOMAIN txt2
       PROVE  txt2[k].entity \in Tree /\ (Told(ws2, txt2[k].entity) \/ OnPath(ws2, txt2[k].entity))
  <2>1. CASE k \in DOMAIN txt
    BY <1>2, <1>3, <1>5, <1>8, <2>1
  <2>2. CASE k \notin DOMAIN txt
    BY <1>2, <1>3, <1>6, <1>7, <1>9, <2>2 DEF More
  <2> QED
    BY <2>1, <2>2
<1> QED
  BY <1>2, <1>8, <1>13, <1>14, <1>15 DEF Generating

\* The callback is asked, and the entity begun.
LEMMA ItemBegun ==
    ASSUME Forest(entities), NEW ws, NEW txt, Generating(ws, txt), NEW ws2, NEW old, Replaces(ws, ws2, old),
           NEW c \in Offspring(Last(ws).entity), Takes(Last(ws), old, c), c \in Tree,
           NEW ws3, NEW call, Pushes(ws2, ws3, call), CallOK(call), call.entity = c,
           \A d \in Offspring(c) \ Left(call.lists) : NamedOnly(c),
           NEW txt2, Grows(txt, txt2), NEW b, BeginsAt(txt, txt2, Last(ws).entity, c, b)
    PROVE  Generating(ws3, txt2)
<1> DEFINE o == Last(ws).entity
<1>1. Nested(ws) /\ Listing(txt)
  BY DEF Generating
<1>2. Nested(ws2) /\ Last(ws2) = old /\ \A e : OnPath(ws2, e) <=> OnPath(ws, e)
  BY <1>1, ReplacedNested DEF Takes
<1>3. Nested(ws3) /\ \A e : OnPath(ws3, e) <=> OnPath(ws, e) \/ e = c
  <2>1. c \in Offspring(old.entity) \ Left(old.lists)
    BY DEF Takes
  <2> QED
    BY <1>2, <2>1, PushedNested
<1>4. \A e \in DOMAIN entities : c \in Line(e) => ~Told(ws, e) /\ ~OnPath(ws, e)
  BY <1>1, ItemFresh DEF Takes
<1>5. \A k \in DOMAIN txt : txt[k].entity \in Tree /\ (Told(ws, txt[k].entity) \/ OnPath(ws, txt[k].entity))
  BY DEF Generating
<1>6. /\ b \in More(txt, txt2) /\ txt2[b].mark = "begin" /\ txt2[b].entity = c
      /\ \A k \in More(txt, txt2) :
           /\ txt2[k].entity = c \/ (o # 0 /\ txt2[k].entity = o /\ txt2[k].mark \in Written)
           /\ k # b => txt2[k].mark \in Written
           /\ txt2[k].entity = c /\ k # b /\ o # c => b <= k
  BY DEF BeginsAt
<1>7. o # 0 => o \in Tree /\ OnPath(ws, o)
  BY <1>1, NestedFacts DEF OnPath
<1>8. Extends(txt, txt2) /\ Listing(txt2) /\ \A k \in DOMAIN txt : k \in DOMAIN txt2 /\ txt2[k] = txt[k]
  BY DEF Grows, Extends
<1>9. c \in DOMAIN entities /\ c \in Line(c) /\ \A e \in Tree : e \in DOMAIN entities
  BY OffspringFacts DEF Tree, Line
<1>10. \A e : Told(ws, e) => (o # 0 => e \notin Line(o)) /\ e \notin Line(c)
  BY <1>1, ToldNotAbove DEF Takes
<1>11. o # 0 => c \notin Line(o)
  BY <1>4, <1>7, <1>9
<1>12. c # o
  BY <1>7, <1>9, <1>11, OffspringFacts DEF Line
<1>13. /\ \A e : Told(ws, e) => Told(ws3, e)
       /\ \A e : Told(ws3, e) => Told(ws, e) \/ \E d \in Line(e) : d \in Offspring(c) \ Left(call.lists)
  BY <1>1, PushedTold
<1>14. \A e \in DOMAIN entities : c \in Line(e) => \A k \in DOMAIN txt : txt[k].entity # e
  BY <1>4, <1>5
<1> HIDE DEF o
<1>15. ASSUME NEW e \in Tree, Told(ws, e) PROVE Settled(txt2, e)
  <2>1. Settled(txt, e)
    BY <1>15 DEF Generating
  <2>2. \A k \in DOMAIN txt2 \ DOMAIN txt : e \notin Line(txt2[k].entity)
    BY <1>6, <1>10, <1>15 DEF More
  <2> QED
    BY <1>8, <2>1, <2>2, StillSettled
<1>16. ASSUME NEW e \in Tree, NEW d \in Line(e), d \in Offspring(c) \ Left(call.lists) PROVE Settled(txt2, e)
  <2>1. NamedOnly(c)
    BY <1>16
  <2>2. c \in Ancestors(d) /\ Line(d) \subseteq Line(e)
    BY <1>9, <1>16, OffspringFacts, LineTransitive
  <2>3. c \in Line(e)
    BY <2>2 DEF Line
  <2>4. e # c
    <3>1. ASSUME e = c PROVE FALSE
      <4>1. d = c \/ d \in Ancestors(c)
        BY <1>16, <3>1 DEF Line
      <4>2. c \in Ancestors(c)
        BY <1>9, <2>2, <4>1, AncestorsTransitive
      <4> QED
        BY <1>9, <4>2, AncestorsIrreflexive
    <3> QED
      BY <3>1
  <2>5. c \in Ancestors(e)
    BY <2>3, <2>4 DEF Line
  <2>6. ~Reached(e)
    BY <2>1, <2>5, NotReached
  <2>7. \A k \in DOMAIN txt : txt[k].entity # e
    BY <1>9, <1>14, <2>3
  <2>8. o # 0 => o # e
    BY <1>4, <1>7, <1>9, <2>3
  <2>9. MarksOf(txt2, e) = {}
    BY <1>6, <1>8, <2>4, <2>7, <2>8 DEF MarksOf, More
  <2> QED
    BY <2>6, <2>9 DEF Settled, Generated, Asked
<1>17. \A e \in Tree : Told(ws3, e) => Settled(txt2, e)
  BY <1>13, <1>15, <1>16
<1>18. Opened(txt2, c)
  <2>1. \A k \in DOMAIN txt : txt[k].entity # c
    BY <1>9, <1>14
  <2>2. MarksOf(txt2, c) \subseteq More(txt, txt2) /\ b \in MarksOf(txt2, c)
    BY <1>6, <1>8, <2>1 DEF MarksOf, More
  <2>3. Places(txt2, "begin", c) = {b} /\ Places(txt2, "end", c) = {}
    BY <1>6, <2>2 DEF Places, Written, Names
  <2>4. ASSUME NEW d \in Tree, c \in Line(d), NEW k \in MarksOf(txt2, d) PROVE b <= k
    <3>1. \A l \in DOMAIN txt : txt[l].entity # d
      BY <1>9, <1>14, <2>4
    <3>2. k \in More(txt, txt2) /\ txt2[k].entity = d
      BY <1>8, <3>1 DEF MarksOf, More
    <3>3. o # 0 => o # d
      BY <1>11, <2>4
    <3>4. txt2[k].entity = c
      BY <1>6, <3>2, <3>3
    <3>5. b \in Nat /\ b <= b
      BY <1>6, <1>8, ListingFacts DEF More
    <3> QED
      BY <1>6, <1>12, <3>2, <3>4, <3>5
  <2>5. Begun(txt2, c, b)
    BY <2>3, <2>4 DEF Begun
  <2> QED
    BY <1>6, <2>5 DEF Opened, More
<1>19. ASSUME NEW e, OnPath(ws, e) PROVE Opened(txt2, e)
  <2>1. Opened(txt, e) /\ e # c
    BY <1>4, <1>9, <1>19 DEF Generating
  <2>2. \A k \in DOMAIN txt2 \ DOMAIN txt : txt2[k].entity = e => txt2[k].mark \notin {"begin", "end"}
    BY <1>6, <2>1 DEF More, Written, Names
  <2> QED
    BY <1>8, <2>1, <2>2, StillOpened
<1>20. ASSUME NEW k \in DOMAIN txt2
       PROVE  txt2[k].entity \in Tree /\ (Told(ws3, txt2[k].entity) \/ OnPath(ws3, txt2[k].entity))
  <2>1. CASE k \in DOMAIN txt
    BY <1>3, <1>5, <1>8, <1>13, <2>1
  <2>2. CASE k \notin DOMAIN txt
    BY <1>3, <1>6, <1>7, <2>2 DEF More
  <2> QED
    BY <2>1, <2>2
<1> QED
  BY <1>3, <1>8, <1>17, <1>18, <1>19, <1>20 DEF Generating

\* The end of a list, and the beginning of the next one.
LEMMA ListEnded ==
    ASSUME Forest(entities), NEW ws, NEW txt, Generating(ws, txt), NEW ws2, NEW call, Replaces(ws, ws2, call),
           Passes(Last(ws), call), Last(ws).entity # 0,
           NEW txt2, Grows(txt, txt2),
           \A k \in More(txt, txt2) : txt2[k].entity = Last(ws).entity /\ txt2[k].mark \in Written
    PROVE  Generating(ws2, txt2)
<1> DEFINE o == Last(ws).entity
<1>1. Nested(ws) /\ Listing(txt)
  BY DEF Generating
<1>2. Nested(ws2) /\ \A e : OnPath(ws2, e) <=> OnPath(ws, e)
  BY <1>1, ReplacedNested DEF Passes
<1>3. \A e : Told(ws2, e) <=> Told(ws, e)
  BY <1>1, PassedTold
<1>4. \A k \in DOMAIN txt : txt[k].entity \in Tree /\ (Told(ws, txt[k].entity) \/ OnPath(ws, txt[k].entity))
  BY DEF Generating
<1>5. o \in Tree /\ OnPath(ws, o)
  BY <1>1, NestedFacts DEF OnPath
<1>6. Extends(txt, txt2) /\ Listing(txt2) /\ \A k \in DOMAIN txt : k \in DOMAIN txt2 /\ txt2[k] = txt[k]
  BY DEF Grows, Extends
<1>7. \A e : Told(ws, e) => e \notin Line(o)
  BY <1>1, ToldNotAbove
<1>8. \A k \in More(txt, txt2) : txt2[k].entity = o /\ txt2[k].mark \in Written
  OBVIOUS
<1> HIDE DEF o
<1>9. ASSUME NEW e \in Tree, Told(ws, e) PROVE Settled(txt2, e)
  <2>1. Settled(txt, e)
    BY <1>9 DEF Generating
  <2>2. \A k \in DOMAIN txt2 \ DOMAIN txt : e \notin Line(txt2[k].entity)
    BY <1>7, <1>8, <1>9 DEF More
  <2> QED
    BY <1>6, <2>1, <2>2, StillSettled
<1>10. ASSUME NEW e, OnPath(ws, e) PROVE Opened(txt2, e)
  <2>1. Opened(txt, e)
    BY <1>10 DEF Generating
  <2>2. \A k \in DOMAIN txt2 \ DOMAIN txt : txt2[k].entity = e => txt2[k].mark \notin {"begin", "end"}
    BY <1>8 DEF More, Written, Names
  <2> QED
    BY <1>6, <2>1, <2>2, StillOpened
<1>11. ASSUME NEW k \in DOMAIN txt2
       PROVE  txt2[k].entity \in Tree /\ (Told(ws2, txt2[k].entity) \/ OnPath(ws2, txt2[k].entity))
  <2>1. CASE k \in DOMAIN txt
    BY <1>2, <1>3, <1>4, <1>6, <2>1
  <2>2. CASE k \notin DOMAIN txt
    BY <1>2, <1>5, <1>8, <2>2 DEF More
  <2> QED
    BY <2>1, <2>2
<1> QED
  BY <1>2, <1>3, <1>6, <1>9, <1>10, <1>11 DEF Generating

\* The end of an entity.
LEMMA CallEnded ==
    ASSUME Forest(entities), NEW ws, NEW txt, Generating(ws, txt), Len(ws) # 1, Last(ws).lists = <<>>,
           NEW txt2, Grows(txt, txt2), NEW end, More(txt, txt2) = {end},
           txt2[end].mark = "end", txt2[end].entity = Last(ws).entity
    PROVE  Generating(Front(ws), txt2)
<1> DEFINE o == Last(ws).entity
           fs == Front(ws)
<1>1. Nested(ws) /\ Listing(txt)
  BY DEF Generating
<1>2. /\ Nested(fs) /\ o \in Tree
      /\ \A e : OnPath(ws, e) <=> OnPath(fs, e) \/ e = o
      /\ ~OnPath(fs, o)
      /\ \A e \in DOMAIN entities : Told(fs, e) <=> Told(ws, e) \/ e = o
  BY <1>1, FrontNested
<1>3. \A k \in DOMAIN txt : txt[k].entity \in Tree /\ (Told(ws, txt[k].entity) \/ OnPath(ws, txt[k].entity))
  BY DEF Generating
<1>4. Extends(txt, txt2) /\ Listing(txt2) /\ \A k \in DOMAIN txt : k \in DOMAIN txt2 /\ txt2[k] = txt[k]
  BY DEF Grows, Extends
<1>5. o # 0 /\ \A e \in Tree : e \in DOMAIN entities
  BY <1>2 DEF Tree, Forest
<1>6. \A e : Told(ws, e) => e \notin Line(o)
  BY <1>1, <1>5, ToldNotAbove
<1>7. Generated(o)
  <2>1. CallOK(Last(ws))
    BY <1>1, NestedFacts
  <2> QED
    BY <1>5, <2>1 DEF CallOK
<1>8. txt2[end].mark = "end" /\ txt2[end].entity = o /\ end \in DOMAIN txt2 /\ \A k : k \in DOMAIN txt2 <=> k \in DOMAIN txt \/ k = end
  BY <1>4 DEF More
<1>9. end \notin DOMAIN txt
  BY DEF More
<1> HIDE DEF o, fs
<1>10. ASSUME NEW e \in Tree, Told(ws, e) PROVE Settled(txt2, e)
  <2>1. Settled(txt, e)
    BY <1>10 DEF Generating
  <2>2. \A k \in DOMAIN txt2 \ DOMAIN txt : e \notin Line(txt2[k].entity)
    BY <1>6, <1>8, <1>10
  <2> QED
    BY <1>4, <2>1, <2>2, StillSettled
<1>11. Settled(txt2, o)
  <2>1. Opened(txt, o)
    BY <1>2 DEF Generating
  <2>2. PICK begin \in DOMAIN txt : Begun(txt, o, begin)
    BY <2>1 DEF Opened
  <2>3. Places(txt2, "begin", o) = {begin} /\ Places(txt2, "end", o) = {end}
    <3>1. \A mark : \A k : k \in Places(txt2, mark, o) <=> k \in Places(txt, mark, o) \/ (k = end /\ mark = "end")
      BY <1>4, <1>8, <1>9 DEF Places, MarksOf
    <3>2. Places(txt, "begin", o) = {begin} /\ Places(txt, "end", o) = {}
      BY <2>2 DEF Begun
    <3>3. "begin" # "end"
      OBVIOUS
    <3> QED
      BY <3>1, <3>2, <3>3
  <2>4. \A k \in DOMAIN txt : k <= end
    BY <1>4, <1>8, <1>9 DEF Extends
  <2>5. end <= end
    BY <1>4, <1>8, ListingFacts
  <2>6. ASSUME NEW d \in Tree, o \in Line(d), NEW k \in MarksOf(txt2, d) PROVE begin <= k /\ k <= end
    <3>1. CASE k = end
      BY <2>2, <2>4, <2>5, <3>1
    <3>2. CASE k # end
      <4>1. k \in MarksOf(txt, d) /\ k \in DOMAIN txt
        BY <1>4, <1>8, <3>2 DEF MarksOf
      <4> QED
        BY <2>2, <2>4, <2>6, <4>1 DEF Begun
    <3> QED
      BY <3>1, <3>2
  <2>7. Enclosed(txt2, o, begin, end)
    BY <2>3, <2>6 DEF Enclosed
  <2> QED
    BY <1>4, <1>7, <1>8, <2>2, <2>7 DEF Settled
<1>12. ASSUME NEW e, OnPath(fs, e) PROVE Opened(txt2, e)
  <2>1. Opened(txt, e) /\ e # o
    BY <1>2, <1>12 DEF Generating
  <2>2. \A k \in DOMAIN txt2 \ DOMAIN txt : txt2[k].entity = e => txt2[k].mark \notin {"begin", "end"}
    BY <1>8, <2>1
  <2> QED
    BY <1>4, <2>1, <2>2, StillOpened
<1>13. ASSUME NEW k \in DOMAIN txt2
       PROVE  txt2[k].entity \in Tree /\ (Told(fs, txt2[k].entity) \/ OnPath(fs, txt2[k].entity))
  <2>1. CASE k \in DOMAIN txt
    BY <1>2, <1>3, <1>4, <1>5, <2>1
  <2>2. CASE k = end
    BY <1>2, <1>5, <1>8, <2>2
  <2> QED
    BY <1>8, <2>1, <2>2
<1>14. \A e \in Tree : Told(fs, e) => Settled(txt2, e)
  BY <1>2, <1>5, <1>10, <1>11
<1>15. Generating(fs, txt2)
  BY <1>2, <1>4, <1>12, <1>13, <1>14 DEF Generating
<1> QED
  BY <1>15 DEF fs

----------------------------------------------------------------------------
(* The lists of an entity.                                                 *)

\* A list of what an entity owns in a role.
IsList(list, e, role) ==
    /\ list \in ListType /\ list.todo = ChildrenOf(e, role)
    /\ list.how = "members" \/ \A d \in Owned(e, role) : entities[d].kind # "access_specifier"

\* Lists of what an entity owns in some roles.
ListRoles(lists, e, roles) ==
    /\ lists \in Seq(ListType) /\ Unique(lists) /\ SpecifiersKnown(lists)
    /\ \A d : d \in Left(lists) <=> \E role \in roles : d \in Owned(e, role)

\* The items of such a list.
LEMMA ListFacts ==
    ASSUME Forest(entities), NEW list, NEW e, NEW role, IsList(list, e, role)
    PROVE  /\ list.todo \in Seq(Nat)
           /\ \A m1, m2 \in DOMAIN list.todo : list.todo[m1] = list.todo[m2] => m1 = m2
           /\ \A m \in DOMAIN list.todo : list.todo[m] \in Owned(e, role)
           /\ \A d \in Owned(e, role) : d \in Nat /\ \E m \in DOMAIN list.todo : list.todo[m] = d
<1> DEFINE q == ChildrenOf(e, role)
<1>1. q \in Seq(Nat) /\ Increasing(q) /\ Elements(q) = Owned(e, role) /\ \A k \in Owned(e, role) : k \in Nat
  BY OwnedFacts
<1>2. list.todo = q
  BY DEF IsList
<1> HIDE DEF q
<1>3. \A m1, m2 \in DOMAIN q : q[m1] = q[m2] => m1 = m2
  <2>1. Len(q) \in Nat /\ DOMAIN q = 1 .. Len(q) /\ \A m \in DOMAIN q : q[m] \in Nat
    BY <1>1
  <2>2. SUFFICES ASSUME NEW m1 \in DOMAIN q, NEW m2 \in DOMAIN q, q[m1] = q[m2] PROVE m1 = m2
    OBVIOUS
  <2>3. ~(m1 < m2) /\ ~(m2 < m1)
    BY <1>1, <2>1, <2>2 DEF Increasing
  <2> QED
    BY <2>1, <2>3
<1> QED
  BY <1>1, <1>2, <1>3 DEF Elements

\* One list.
LEMMA OneList ==
    ASSUME Forest(entities), NEW list, NEW e, NEW role, IsList(list, e, role)
    PROVE  ListRoles(<<list>>, e, {role})
<1> DEFINE lists == <<list>>
<1>1. lists \in Seq(ListType) /\ DOMAIN lists = {1} /\ lists[1] = list
  <2>1. list \in ListType
    BY DEF IsList
  <2> QED
    BY <2>1, Z3
<1> HIDE DEF lists
<1>2. Unique(lists)
  BY <1>1, ListFacts DEF Unique
<1>3. SpecifiersKnown(lists)
  BY <1>1, ListFacts DEF SpecifiersKnown, IsList
<1>4. \A d : d \in Left(lists) <=> d \in Owned(e, role)
  BY <1>1, ListFacts DEF Left
<1> QED
  BY <1>1, <1>2, <1>3, <1>4 DEF ListRoles, lists

\* Two lists.
LEMMA TwoLists ==
    ASSUME Forest(entities), NEW list1, NEW list2, NEW e, NEW role1, NEW role2, role1 # role2,
           IsList(list1, e, role1), IsList(list2, e, role2)
    PROVE  ListRoles(<<list1, list2>>, e, {role1, role2})
<1> DEFINE lists == <<list1, list2>>
<1>1. lists \in Seq(ListType) /\ DOMAIN lists = {1, 2} /\ lists[1] = list1 /\ lists[2] = list2
  <2>1. list1 \in ListType /\ list2 \in ListType
    BY DEF IsList
  <2> QED
    BY <2>1, Z3
<1> HIDE DEF lists
<1>2. \A d : ~(d \in Owned(e, role1) /\ d \in Owned(e, role2))
  BY DEF Owned
<1>3. /\ \A m1, m2 \in DOMAIN list1.todo : list1.todo[m1] = list1.todo[m2] => m1 = m2
      /\ \A m \in DOMAIN list1.todo : list1.todo[m] \in Owned(e, role1)
      /\ \A d \in Owned(e, role1) : d \in Nat /\ \E m \in DOMAIN list1.todo : list1.todo[m] = d
  BY ListFacts
<1>4. /\ \A m1, m2 \in DOMAIN list2.todo : list2.todo[m1] = list2.todo[m2] => m1 = m2
      /\ \A m \in DOMAIN list2.todo : list2.todo[m] \in Owned(e, role2)
      /\ \A d \in Owned(e, role2) : d \in Nat /\ \E m \in DOMAIN list2.todo : list2.todo[m] = d
  BY ListFacts
<1>5. Unique(lists)
  <2>1. \A m1 \in DOMAIN list1.todo, m2 \in DOMAIN list2.todo : list1.todo[m1] # list2.todo[m2]
    BY <1>2, <1>3, <1>4
  <2>2. SUFFICES ASSUME NEW l1 \in DOMAIN lists, NEW l2 \in DOMAIN lists, NEW m1 \in DOMAIN lists[l1].todo,
                        NEW m2 \in DOMAIN lists[l2].todo, lists[l1].todo[m1] = lists[l2].todo[m2]
                 PROVE  l1 = l2 /\ m1 = m2
    BY DEF Unique
  <2>3. l1 \in {1, 2} /\ l2 \in {1, 2}
    BY <1>1
  <2>4. CASE l1 = 1 /\ l2 = 1
    BY <1>1, <1>3, <2>2, <2>4
  <2>5. CASE l1 = 2 /\ l2 = 2
    BY <1>1, <1>4, <2>2, <2>5
  <2>6. CASE l1 = 1 /\ l2 = 2
    BY <1>1, <2>1, <2>2, <2>6
  <2>7. CASE l1 = 2 /\ l2 = 1
    BY <1>1, <2>1, <2>2, <2>7
  <2> QED
    BY <2>3, <2>4, <2>5, <2>6, <2>7
<1>6. SpecifiersKnown(lists)
  BY <1>1, <1>3, <1>4 DEF SpecifiersKnown, IsList
<1>7. \A d : d \in Left(lists) <=> d \in Owned(e, role1) \/ d \in Owned(e, role2)
  BY <1>1, <1>3, <1>4 DEF Left
<1> QED
  BY <1>1, <1>5, <1>6, <1>7 DEF ListRoles, lists

\* No list.
LEMMA NoList == \A e : ListRoles(<<>>, e, {})
  BY DEF ListRoles, Unique, SpecifiersKnown, Left

\* Names of marks.
LEMMA WrittenNames ==
    /\ <<>> \in Seq(Names)
    /\ \A m \in Names : <<m>> \in Seq(Names)
    /\ \A m1, m2 \in Names : <<m1, m2>> \in Seq(Names)
  BY Z3

\* What List makes.
LEMMA ListMade ==
    ASSUME Forest(entities), NEW how \in Hows, NEW e, NEW role,
           NEW separator \in Seq(Names), NEW before \in Seq(Names), NEW behind \in Seq(Names),
           how = "members" \/ \A d \in Owned(e, role) : entities[d].kind # "access_specifier"
    PROVE  IsList(List(how, ChildrenOf(e, role), separator, before, behind), e, role)
<1>1. ChildrenOf(e, role) \in Seq(Nat)
  BY OwnedFacts
<1> QED
  BY <1>1 DEF List, IsList, ListType

\* What is directly below an entity is what it may own.
LEMMA OwnedKinds ==
    ASSUME Forest(entities), Placed(file.cursors, entities), NEW e \in DOMAIN entities, NEW d \in DOMAIN entities,
           Parent(d) = e
    PROVE  /\ entities[d].role = "child" => entities[e].kind \in OwnerKinds
           /\ entities[d].role = "base" => entities[e].kind = "class"
           /\ entities[d].role = "parameter" =>
                \/ entities[e].kind \in (TemplateKinds \ {"function_specialization"}) \cup {"template_parameter"}
                \/ entities[e].kind = "macro" /\ Cursor(entities[e].cursor).function
           /\ entities[d].kind = "access_specifier" => entities[d].role = "child" /\ entities[e].kind = "class"
           /\ entities[d].role \in {"child", "base", "parameter"}
<1>1. e # 0 /\ entities[d].parent = e
  BY DEF Forest, Parent
<1>2. Owns(file.cursors, entities[e], entities[d])
  BY <1>1 DEF Placed
<1>3. entities[d].role \in {"child", "base", "parameter"}
  <2>1. entities \in Seq(EntityType)
    BY DEF Forest
  <2>2. entities[d] \in EntityType
    BY <2>1
  <2> QED
    BY <2>2 DEF EntityType
<1> QED
  BY <1>2, <1>3 DEF Owns, Cursor

\* Only among the members of a class there are access specifiers.
LEMMA NoSpecifiers ==
    ASSUME Forest(entities), Placed(file.cursors, entities), NEW e \in DOMAIN entities, NEW role,
           role # "child" \/ entities[e].kind # "class"
    PROVE  \A d \in Owned(e, role) : entities[d].kind # "access_specifier"
  BY OwnedKinds DEF Owned, Parent

\* Lists for all that an entity owns.
WholeLists(lists, e) ==
    \E roles : ListRoles(lists, e, roles) /\ \A d \in DOMAIN entities : Parent(d) = e => entities[d].role \in roles

\* A container, or what is written without asking: children.
LEMMA ChildLists ==
    ASSUME Forest(entities), Placed(file.cursors, entities), NEW e \in DOMAIN entities,
           entities[e].kind \in OwnerKinds \ ({"class"} \cup TemplateKinds)
    PROVE  /\ \A separator, before, behind \in Seq(Names) : WholeLists(<<Container(e, separator, before, behind)>>, e)
           /\ WholeLists(<<Direct(ChildrenOf(e, "child"))>>, e)
<1>1. \A d \in DOMAIN entities : Parent(d) = e => entities[d].role \in {"child"}
  BY OwnedKinds DEF OwnerKinds, VisitedContainers, TemplateKinds, SpecializationKinds, FunctionTemplateKinds
<1>2. \A d \in Owned(e, "child") : entities[d].kind # "access_specifier"
  BY NoSpecifiers
<1>3. ASSUME NEW list, IsList(list, e, "child") PROVE WholeLists(<<list>>, e)
  BY <1>1, <1>3, OneList DEF WholeLists
<1>4. ASSUME NEW separator \in Seq(Names), NEW before \in Seq(Names), NEW behind \in Seq(Names)
      PROVE  IsList(Container(e, separator, before, behind), e, "child")
  BY <1>2, ListMade DEF Container, Hows
<1>5. IsList(Direct(ChildrenOf(e, "child")), e, "child")
  BY <1>2, ListMade, WrittenNames DEF Direct, Hows
<1> QED
  BY <1>3, <1>4, <1>5

\* A class: its bases and its members.
LEMMA ClassWhole ==
    ASSUME Forest(entities), Placed(file.cursors, entities), NEW e \in DOMAIN entities, entities[e].kind = "class",
           ~OnlyDeclared(e)
    PROVE  WholeLists(ClassLists(e), e)
<1>1. \A d \in DOMAIN entities : Parent(d) = e => entities[d].role \in {"base", "child"}
  BY OwnedKinds DEF TemplateKinds, SpecializationKinds, FunctionTemplateKinds
<1>2. IsList(List("bases", ChildrenOf(e, "base"), <<",">>, <<>>, <<>>), e, "base")
  <2>1. \A d \in Owned(e, "base") : entities[d].kind # "access_specifier"
    BY NoSpecifiers
  <2>2. <<",">> \in Seq(Names) /\ <<>> \in Seq(Names) /\ "bases" \in Hows
    BY WrittenNames DEF Names, Hows
  <2> QED
    BY <2>1, <2>2, ListMade
<1>3. IsList(List("members", ChildrenOf(e, "child"), <<"newline">>, <<"{">>, <<"container_end", "}">>), e, "child")
  <2>1. <<"newline">> \in Seq(Names) /\ <<"{">> \in Seq(Names) /\ <<"container_end", "}">> \in Seq(Names)
        /\ "members" \in Hows
    BY WrittenNames DEF Names, Hows
  <2> QED
    BY <2>1, ListMade
<1>4. ListRoles(ClassLists(e), e, {"base", "child"})
  BY <1>2, <1>3, TwoLists DEF ClassLists
<1> QED
  BY <1>1, <1>4 DEF WholeLists

\* A macro or a template parameter: parameters, if there are any.
LEMMA ParameterLists ==
    ASSUME Forest(entities), Placed(file.cursors, entities), NEW e \in DOMAIN entities
    PROVE  /\ entities[e].kind = "macro" => WholeLists(MacroLists(e), e)
           /\ entities[e].kind = "template_parameter" => WholeLists(TemplateParameterLists(e), e)
<1>1. \A d \in Owned(e, "parameter") : entities[d].kind # "access_specifier"
  BY NoSpecifiers
<1>2. entities[e].kind \in {"macro", "template_parameter"} =>
        \A d \in DOMAIN entities : Parent(d) = e => entities[d].role \in {"parameter"}
  BY OwnedKinds DEF OwnerKinds, VisitedContainers, TemplateKinds, SpecializationKinds, FunctionTemplateKinds
<1>3. CASE entities[e].kind = "template_parameter"
  <2>1. <<",">> \in Seq(Names) /\ <<"<">> \in Seq(Names) /\ <<">", "name">> \in Seq(Names) /\ "container" \in Hows
    BY WrittenNames DEF Names, Hows
  <2>2. IsList(List("container", ChildrenOf(e, "parameter"), <<",">>, <<"<">>, <<">", "name">>), e, "parameter")
    BY <1>1, <2>1, ListMade
  <2>3. ListRoles(TemplateParameterLists(e), e, {"parameter"})
    BY <2>2, OneList DEF TemplateParameterLists
  <2> QED
    BY <1>2, <1>3, <2>3 DEF WholeLists
<1>4. CASE entities[e].kind = "macro" /\ Cursor(entities[e].cursor).function
  <2>1. <<",">> \in Seq(Names) /\ <<"(">> \in Seq(Names) /\ <<")">> \in Seq(Names) /\ "macro" \in Hows
    BY WrittenNames DEF Names, Hows
  <2>2. IsList(List("macro", ChildrenOf(e, "parameter"), <<",">>, <<"(">>, <<")">>), e, "parameter")
    BY <1>1, <2>1, ListMade
  <2>3. ListRoles(MacroLists(e), e, {"parameter"})
    BY <1>4, <2>2, OneList DEF MacroLists
  <2> QED
    BY <1>2, <1>4, <2>3 DEF WholeLists
<1>5. CASE entities[e].kind = "macro" /\ ~Cursor(entities[e].cursor).function
  <2>1. \A d \in DOMAIN entities : Parent(d) = e => entities[d].role \in {}
    BY <1>5, OwnedKinds DEF OwnerKinds, VisitedContainers, TemplateKinds, SpecializationKinds, FunctionTemplateKinds
  <2>2. ListRoles(MacroLists(e), e, {})
    BY <1>5, NoList DEF MacroLists
  <2> QED
    BY <1>5, <2>1, <2>2 DEF WholeLists
<1> QED
  BY <1>3, <1>4, <1>5

\* A template: its parameters, and what it is a template of.
LEMMA TemplateWhole ==
    ASSUME Forest(entities), Placed(file.cursors, entities), NEW e \in DOMAIN entities, entities[e].kind \in TemplateKinds
    PROVE  WholeLists(TemplateLists(e), e)
<1>0. \A d \in DOMAIN entities : Parent(d) = e =>
         /\ entities[d].role \in {"parameter", "child"}
         /\ entities[e].kind = "function_specialization" => entities[d].role = "child"
  BY OwnedKinds DEF TemplateKinds, SpecializationKinds, FunctionTemplateKinds
<1>1. IsList(Parameters(e), e, "parameter")
  <2>1. \A d \in Owned(e, "parameter") : entities[d].kind # "access_specifier"
    BY NoSpecifiers
  <2>2. <<",">> \in Seq(Names) /\ <<"template", "<">> \in Seq(Names) /\ <<">">> \in Seq(Names)
        /\ <<>> \in Seq(Names) /\ "parameters" \in Hows /\ "header" \in Hows
    BY WrittenNames DEF Names, Hows
  <2>3. IsList(List("parameters", ChildrenOf(e, "parameter"), <<",">>, <<"template", "<">>, <<">">>), e, "parameter")
    BY <2>1, <2>2, ListMade
  <2>4. IsList(List("header", ChildrenOf(e, "parameter"), <<",">>, <<>>, <<">">>), e, "parameter")
    BY <2>1, <2>2, ListMade
  <2> QED
    BY <2>3, <2>4 DEF Parameters
<1>2. IsList(Direct(ChildrenOf(e, "child")), e, "child")
  <2>1. entities[e].kind # "class"
    BY DEF TemplateKinds, SpecializationKinds, FunctionTemplateKinds
  <2>2. \A d \in Owned(e, "child") : entities[d].kind # "access_specifier"
    BY <2>1, NoSpecifiers
  <2>3. "direct" \in Hows
    BY DEF Hows
  <2> QED
    BY <2>2, <2>3, ListMade, WrittenNames DEF Direct
<1> DEFINE p == Parameters(e)
           q == Direct(ChildrenOf(e, "child"))
<1>3. ListRoles(<<p, q>>, e, {"parameter", "child"}) /\ ListRoles(<<q>>, e, {"child"})
  BY <1>1, <1>2, OneList, TwoLists
<1>4. <<p>> \o <<q>> = <<p, q>> /\ <<>> \o <<q>> = <<q>>
  <2> DEFINE T == {p, q}
  <2>1. p \in T /\ q \in T
    OBVIOUS
  <2> HIDE DEF p, q, T
  <2>2. <<p>> \in Seq(T) /\ <<q>> \in Seq(T)
    BY <2>1
  <2>3. <<p>> \o <<q>> = Append(<<p>>, q) /\ <<>> \o <<q>> = <<q>>
    BY <2>1, <2>2, AppendIsConcat, ConcatEmptySeq
  <2>4. Append(<<p>>, q) = <<p, q>>
    <3> DEFINE s == Append(<<p>>, q)
               t == <<p, q>>
    <3>1. s \in Seq(T) /\ Len(s) = 2 /\ s[1] = p /\ s[2] = q
      BY <2>1, <2>2
    <3>2. t \in Seq(T) /\ Len(t) = 2 /\ t[1] = p /\ t[2] = q
      BY <2>1
    <3> HIDE DEF s, t
    <3>3. \A i \in 1 .. 2 : s[i] = t[i]
      BY <3>1, <3>2
    <3>4. s = t
      BY <3>1, <3>2, <3>3, SeqEqual
    <3> QED
      BY <3>4 DEF s, t
  <2> QED
    BY <2>3, <2>4
<1>5. CASE entities[e].kind = "function_specialization" /\ IsFriended(e)
  <2>1. TemplateLists(e) = <<q>>
    BY <1>4, <1>5 DEF TemplateLists
  <2>2. \A d \in DOMAIN entities : Parent(d) = e => entities[d].role \in {"child"}
    BY <1>0, <1>5
  <2> QED
    BY <1>3, <2>1, <2>2 DEF WholeLists
<1>6. CASE ~(entities[e].kind = "function_specialization" /\ IsFriended(e))
  <2>1. TemplateLists(e) = <<p, q>>
    BY <1>4, <1>6 DEF TemplateLists
  <2> QED
    BY <1>0, <1>3, <2>1 DEF WholeLists
<1> QED
  BY <1>5, <1>6

\* An entity has lists for all it owns, unless only its name is written.
LEMMA ListsWhole ==
    ASSUME Forest(entities), Placed(file.cursors, entities), NEW e \in DOMAIN entities
    PROVE  IF NamedOnly(e) THEN Lists(e) = <<>> ELSE WholeLists(Lists(e), e)
<1> DEFINE kind == entities[e].kind
<1>0. /\ <<>> \in Seq(Names) /\ <<"newline">> \in Seq(Names) /\ <<"{">> \in Seq(Names) /\ <<"}">> \in Seq(Names)
      /\ <<",">> \in Seq(Names) /\ <<"container_end">> \in Seq(Names) /\ <<"container_end", "}">> \in Seq(Names)
  BY WrittenNames DEF Names
<1>00. "file" \notin TemplateKinds /\ "namespace" \notin TemplateKinds /\ "linkage" \notin TemplateKinds
      /\ "enum" \notin TemplateKinds /\ "class" \notin TemplateKinds /\ "macro" \notin TemplateKinds
      /\ "template_parameter" \notin TemplateKinds /\ "friend" \notin TemplateKinds
  BY DEF TemplateKinds, SpecializationKinds, FunctionTemplateKinds
<1>1. ASSUME kind \in {"file", "namespace"} PROVE WholeLists(Lists(e), e) /\ ~NamedOnly(e)
  <2>1. kind \in OwnerKinds \ ({"class"} \cup TemplateKinds)
    BY <1>1 DEF OwnerKinds, VisitedContainers, TemplateKinds, SpecializationKinds, FunctionTemplateKinds
  <2>2. Lists(e) = FileLists(e) \/ Lists(e) = NamespaceLists(e)
    BY <1>00, <1>1 DEF Lists
  <2>3. WholeLists(FileLists(e), e) /\ WholeLists(NamespaceLists(e), e)
    BY <1>0, <2>1, ChildLists DEF FileLists, NamespaceLists
  <2> QED
    BY <1>1, <2>2, <2>3 DEF NamedOnly
<1>2. ASSUME kind = "linkage" PROVE WholeLists(Lists(e), e) /\ ~NamedOnly(e)
  <2>1. kind \in OwnerKinds \ ({"class"} \cup TemplateKinds)
    BY <1>2 DEF OwnerKinds, VisitedContainers, TemplateKinds, SpecializationKinds, FunctionTemplateKinds
  <2>2. Lists(e) = LinkageLists(e)
    BY <1>00, <1>2 DEF Lists
  <2>3. WholeLists(LinkageLists(e), e)
    BY <1>0, <2>1, ChildLists DEF LinkageLists
  <2> QED
    BY <1>2, <2>2, <2>3 DEF NamedOnly
<1>3. ASSUME kind = "friend" PROVE WholeLists(Lists(e), e) /\ ~NamedOnly(e)
  <2>1. kind \in OwnerKinds \ ({"class"} \cup TemplateKinds) /\ kind \notin TemplateKinds
    BY <1>3 DEF OwnerKinds, VisitedContainers, TemplateKinds, SpecializationKinds, FunctionTemplateKinds
  <2>2. Lists(e) = FriendLists(e)
    BY <1>00, <1>3, <2>1 DEF Lists
  <2>3. WholeLists(FriendLists(e), e)
    BY <1>0, <2>1, ChildLists DEF FriendLists
  <2> QED
    BY <1>3, <2>2, <2>3 DEF NamedOnly
<1>4. ASSUME kind = "enum" PROVE IF NamedOnly(e) THEN Lists(e) = <<>> ELSE WholeLists(Lists(e), e)
  <2>1. kind \in OwnerKinds \ ({"class"} \cup TemplateKinds)
    BY <1>4 DEF OwnerKinds, VisitedContainers, TemplateKinds, SpecializationKinds, FunctionTemplateKinds
  <2>2. Lists(e) = EnumLists(e) /\ (NamedOnly(e) <=> OnlyDeclared(e))
    BY <1>00, <1>4 DEF Lists, NamedOnly
  <2>3. ~OnlyDeclared(e) => WholeLists(EnumLists(e), e)
    BY <1>0, <2>1, ChildLists DEF EnumLists
  <2> QED
    BY <2>2, <2>3 DEF EnumLists
<1>5. ASSUME kind = "class" PROVE IF NamedOnly(e) THEN Lists(e) = <<>> ELSE WholeLists(Lists(e), e)
  <2>1. Lists(e) = ClassLists(e) /\ (NamedOnly(e) <=> OnlyDeclared(e))
    BY <1>00, <1>5 DEF Lists, NamedOnly
  <2>2. ~OnlyDeclared(e) => WholeLists(ClassLists(e), e)
    BY <1>5, ClassWhole
  <2> QED
    BY <2>1, <2>2 DEF ClassLists
<1>6. ASSUME kind \in {"macro", "template_parameter"} PROVE WholeLists(Lists(e), e) /\ ~NamedOnly(e)
  <2>1. Lists(e) = IF kind = "macro" THEN MacroLists(e) ELSE TemplateParameterLists(e)
    BY <1>00, <1>6 DEF Lists
  <2> QED
    BY <1>6, <2>1, ParameterLists DEF NamedOnly
<1>7. ASSUME kind \in TemplateKinds PROVE WholeLists(Lists(e), e) /\ ~NamedOnly(e)
  <2>1. kind \notin {"file", "namespace", "linkage", "enum", "class", "macro", "template_parameter", "friend"}
    BY <1>7 DEF TemplateKinds, SpecializationKinds, FunctionTemplateKinds
  <2>2. Lists(e) = TemplateLists(e)
    BY <1>7, <2>1 DEF Lists
  <2> QED
    BY <1>7, <2>1, <2>2, TemplateWhole DEF NamedOnly
<1>8. ASSUME kind \notin OwnerKinds \cup {"macro", "template_parameter"} PROVE WholeLists(Lists(e), e) /\ ~NamedOnly(e)
  <2>1. /\ kind \notin {"file", "namespace", "linkage", "enum", "class", "macro", "template_parameter", "friend"}
        /\ kind \notin TemplateKinds
    BY <1>8 DEF OwnerKinds, VisitedContainers
  <2>2. Lists(e) = <<>>
    BY <2>1 DEF Lists
  <2>3. \A d \in DOMAIN entities : Parent(d) = e => entities[d].role \in {}
    BY <1>8, <2>1, OwnedKinds
  <2> QED
    BY <2>1, <2>2, <2>3, NoList DEF WholeLists, NamedOnly
<1>9. kind \in OwnerKinds => kind \in {"file", "namespace", "linkage", "friend", "enum", "class"} \cup TemplateKinds
  BY DEF OwnerKinds, VisitedContainers
<1> QED
  BY <1>1, <1>2, <1>3, <1>4, <1>5, <1>6, <1>7, <1>8, <1>9

\* A call begins with all that is directly below its entity.
LEMMA WritingOK ==
    ASSUME Forest(entities), Placed(file.cursors, entities), NEW e \in Tree, Generated(e), NEW access
    PROVE  /\ CallOK(Writing(e, access)) /\ Writing(e, access).entity = e
           /\ Writing(e, access).lists \in Seq(ListType)
           /\ \A d \in Offspring(e) \ Left(Writing(e, access).lists) : NamedOnly(e)
<1> DEFINE call == Writing(e, access)
<1>1. call.entity = e /\ call.lists = Lists(e) /\ "entity" \in DOMAIN call /\ "lists" \in DOMAIN call
  BY DEF Writing
<1> HIDE DEF call
<1>2. e \in DOMAIN entities /\ e # 0
  BY DEF Tree, Forest
<1>3. \A d : d \in Offspring(e) <=> d \in DOMAIN entities /\ Parent(d) = e
  BY <1>2 DEF Offspring
<1>4. CASE NamedOnly(e)
  <2>1. Lists(e) = <<>>
    BY <1>2, <1>4, ListsWhole
  <2>2. Lists(e) \in Seq(ListType) /\ Left(Lists(e)) \subseteq Offspring(e) /\ Unique(Lists(e)) /\ SpecifiersKnown(Lists(e))
    BY <2>1, NoList DEF ListRoles, Left
  <2>3. CallOK(call)
    BY <1>1, <1>2, <2>1, <2>2 DEF CallOK, ListsOK
  <2> QED
    BY <1>1, <1>4, <2>2, <2>3 DEF call
<1>5. CASE ~NamedOnly(e)
  <2>1. PICK roles : ListRoles(Lists(e), e, roles) /\ \A d \in DOMAIN entities : Parent(d) = e => entities[d].role \in roles
    BY <1>2, <1>5, ListsWhole DEF WholeLists
  <2>2. /\ Lists(e) \in Seq(ListType) /\ Unique(Lists(e)) /\ SpecifiersKnown(Lists(e))
        /\ \A d : d \in Left(Lists(e)) <=> \E role \in roles : d \in Owned(e, role)
    BY <2>1 DEF ListRoles
  <2>3. \A d : d \in Left(Lists(e)) <=> d \in Offspring(e)
    BY <1>3, <2>1, <2>2 DEF Owned, Parent
  <2>4. CallOK(call)
    BY <1>1, <1>2, <1>5, <2>2, <2>3 DEF CallOK, ListsOK
  <2> QED
    BY <1>1, <2>2, <2>3, <2>4 DEF call
<1> QED
  BY <1>4, <1>5

----------------------------------------------------------------------------
(* Items that are taken from a list.                                       *)

\* The first item of the first list.
IsItem(lists, c) == lists # <<>> /\ lists[1].todo # <<>> /\ c = Head(lists[1].todo)

\* Where it is.
LEMMA ItemFacts ==
    ASSUME NEW lists \in Seq(ListType), NEW c, IsItem(lists, c)
    PROVE  /\ Len(lists) \in Nat /\ DOMAIN lists = 1 .. Len(lists) /\ 1 \in DOMAIN lists
           /\ lists[1] \in ListType /\ lists[1].todo \in Seq(Nat)
           /\ 1 \in DOMAIN lists[1].todo /\ c = lists[1].todo[1] /\ c \in Left(lists)
<1>1. Len(lists) \in Nat /\ DOMAIN lists = 1 .. Len(lists) /\ 1 \in DOMAIN lists /\ lists[1] \in ListType
  BY DEF IsItem
<1> DEFINE q == lists[1].todo
<1>2. q \in Seq(Nat) /\ q # <<>> /\ c = Head(q)
  BY <1>1 DEF ListType, IsItem
<1> HIDE DEF q
<1>3. 1 \in DOMAIN q /\ c = q[1] /\ c \in Nat
  BY <1>2
<1> QED
  BY <1>1, <1>2, <1>3 DEF Left, q

\* All other items stay.
LEMMA ItemTaken ==
    ASSUME NEW lists \in Seq(ListType), NEW c, IsItem(lists, c), Unique(lists), SpecifiersKnown(lists)
    PROVE  LET lists2 == [lists EXCEPT ![1].todo = Tail(@)]
           IN /\ lists2 \in Seq(ListType) /\ Len(lists2) = Len(lists) /\ lists2[1].how = lists[1].how
              /\ Unique(lists2) /\ SpecifiersKnown(lists2)
              /\ \A d : d \in Left(lists2) <=> d \in Left(lists) /\ d # c
<1> DEFINE q == lists[1].todo
           t == Tail(q)
           lists2 == [lists EXCEPT ![1].todo = t]
           n == Len(q)
<1>1. /\ Len(lists) \in Nat /\ DOMAIN lists = 1 .. Len(lists) /\ 1 \in DOMAIN lists
      /\ lists[1] \in ListType /\ q \in Seq(Nat) /\ 1 \in DOMAIN q /\ c = q[1]
  BY ItemFacts
<1>2. /\ t \in Seq(Nat) /\ n \in Nat /\ DOMAIN q = 1 .. n /\ DOMAIN t = 1 .. n - 1
      /\ \A m \in 1 .. n - 1 : t[m] = q[m + 1]
  <2> HIDE DEF q
  <2>1. q # <<>>
    BY <1>1
  <2> QED
    BY <1>1, <2>1
<1> HIDE DEF q, t, n
<1>3. /\ [lists[1] EXCEPT !.todo = t] \in ListType /\ [lists[1] EXCEPT !.todo = t].todo = t
      /\ [lists[1] EXCEPT !.todo = t].how = lists[1].how
  BY <1>1, <1>2 DEF ListType
<1>4. lists2 \in Seq(ListType) /\ DOMAIN lists2 = DOMAIN lists /\ Len(lists2) = Len(lists)
      /\ lists2[1] = [lists[1] EXCEPT !.todo = t]
      /\ \A l \in DOMAIN lists : l # 1 => lists2[l] = lists[l]
  <2> DEFINE x == [lists[1] EXCEPT !.todo = t]
  <2>1. lists2 = [lists EXCEPT ![1] = x]
    OBVIOUS
  <2> HIDE DEF x, lists2
  <2> QED
    BY <1>1, <1>3, <2>1 DEF x
<1> HIDE DEF lists2
<1>5. lists2[1].todo = t /\ \A l \in DOMAIN lists : lists2[l].how = lists[l].how
  BY <1>3, <1>4
<1>6. \A m \in DOMAIN t : m + 1 \in DOMAIN q /\ m + 1 # 1 /\ t[m] = q[m + 1]
  BY <1>2
<1>7. \A m \in DOMAIN q : m # 1 => m - 1 \in DOMAIN t /\ t[m - 1] = q[m]
  <2>1. \A m \in DOMAIN q : m # 1 => m - 1 \in 1 .. n - 1 /\ (m - 1) + 1 = m
    BY <1>2
  <2> QED
    BY <1>2, <2>1
<1>8. \A m \in DOMAIN q : q[m] = c => m = 1
  BY <1>1 DEF Unique, q
<1>9. \A l \in DOMAIN lists : l # 1 => \A m \in DOMAIN lists[l].todo : lists[l].todo[m] # c
  BY <1>1 DEF Unique, q
<1>10. Unique(lists2)
  <2>1. SUFFICES ASSUME NEW l1 \in DOMAIN lists, NEW l2 \in DOMAIN lists, NEW m1 \in DOMAIN lists2[l1].todo,
                        NEW m2 \in DOMAIN lists2[l2].todo, lists2[l1].todo[m1] = lists2[l2].todo[m2]
                 PROVE  l1 = l2 /\ m1 = m2
    BY <1>4 DEF Unique
  <2>2. ASSUME NEW l \in DOMAIN lists, NEW m \in DOMAIN lists2[l].todo
        PROVE  IF l = 1 THEN m + 1 \in DOMAIN lists[l].todo /\ lists[l].todo[m + 1] = lists2[l].todo[m]
               ELSE m \in DOMAIN lists[l].todo /\ lists[l].todo[m] = lists2[l].todo[m]
    BY <1>4, <1>5, <1>6, <2>2 DEF q
  <2>3. CASE l1 = 1 /\ l2 = 1
    <3>1. m1 + 1 = m2 + 1
      BY <2>1, <2>2, <2>3 DEF Unique
    <3>2. m1 \in DOMAIN t /\ m2 \in DOMAIN t
      BY <1>5, <2>3
    <3>3. m1 \in Nat /\ m2 \in Nat
      BY <1>2, <3>2
    <3> QED
      BY <2>3, <3>1, <3>3
  <2>4. CASE ~(l1 = 1 /\ l2 = 1)
    BY SMTT(20), <2>1, <2>2, <2>4 DEF Unique
  <2> QED
    BY <2>3, <2>4
<1>11. SpecifiersKnown(lists2)
  <2>1. SUFFICES ASSUME NEW l \in DOMAIN lists, lists2[l].how # "members", NEW m \in DOMAIN lists2[l].todo
                 PROVE  entities[lists2[l].todo[m]].kind # "access_specifier"
    BY <1>4 DEF SpecifiersKnown
  <2>2. \E m2 \in DOMAIN lists[l].todo : lists2[l].todo[m] = lists[l].todo[m2]
    <3>1. CASE l = 1
      <4>1. m \in DOMAIN t /\ lists2[l].todo[m] = t[m]
        BY <1>5, <2>1, <3>1
      <4> QED
        BY <1>6, <3>1, <4>1 DEF q
    <3>2. CASE l # 1
      BY <1>4, <2>1, <3>2
    <3> QED
      BY <3>1, <3>2
  <2> QED
    BY <1>5, <2>1, <2>2 DEF SpecifiersKnown
<1>12. \A d : d \in Left(lists2) <=> d \in Left(lists) /\ d # c
  <2>1. ASSUME NEW d, d \in Left(lists2) PROVE d \in Left(lists) /\ d # c
    <3>0. PICK l \in DOMAIN lists : \E m \in DOMAIN lists2[l].todo : lists2[l].todo[m] = d
      BY <1>4, <2>1 DEF Left
    <3>1. PICK m \in DOMAIN lists2[l].todo : lists2[l].todo[m] = d
      BY <3>0
    <3>2. d \in Nat
      BY <2>1 DEF Left
    <3>3. CASE l = 1
      <4>1. m + 1 \in DOMAIN q /\ m + 1 # 1 /\ q[m + 1] = d
        BY <1>5, <1>6, <3>1, <3>3
      <4> QED
        BY <1>1, <1>8, <3>2, <4>1 DEF Left, q
    <3>4. CASE l # 1
      BY <1>4, <1>9, <3>1, <3>2, <3>4 DEF Left
    <3> QED
      BY <3>3, <3>4
  <2>2. ASSUME NEW d, d \in Left(lists), d # c PROVE d \in Left(lists2)
    <3>0. PICK l \in DOMAIN lists : \E m \in DOMAIN lists[l].todo : lists[l].todo[m] = d
      BY <2>2 DEF Left
    <3>1. PICK m \in DOMAIN lists[l].todo : lists[l].todo[m] = d
      BY <3>0
    <3>2. d \in Nat
      BY <2>2 DEF Left
    <3>3. CASE l = 1
      <4>1. m # 1 /\ m \in DOMAIN q /\ q[m] = d
        BY <1>1, <2>2, <3>1, <3>3 DEF q
      <4>2. m - 1 \in DOMAIN lists2[1].todo /\ lists2[1].todo[m - 1] = d /\ 1 \in DOMAIN lists2
        BY <1>1, <1>4, <1>5, <1>7, <4>1
      <4> QED
        BY <3>2, <4>2 DEF Left
    <3>4. CASE l # 1
      BY <1>4, <3>1, <3>2, <3>4 DEF Left
    <3> QED
      BY <3>3, <3>4
  <2> QED
    BY <2>1, <2>2
<1> QED
  BY <1>4, <1>5, <1>10, <1>11, <1>12, <1>1 DEF lists2, t, q

----------------------------------------------------------------------------
(* What is written when an item is asked for.                              *)

\* Text that has grown, and more text behind it.
Joins(txt, txt2, s) ==
    /\ Grows(txt, txt2 \o s)
    /\ \A k \in More(txt, txt2) : k \in More(txt, txt2 \o s) /\ (txt2 \o s)[k] = txt2[k]
    /\ \A k \in More(txt, txt2 \o s) :
         \/ k \in More(txt, txt2) /\ (txt2 \o s)[k] = txt2[k]
         \/ k \notin DOMAIN txt2 /\ (\A l \in DOMAIN txt2 : l <= k) /\ \E m \in DOMAIN s : (txt2 \o s)[k] = s[m]
    /\ \A m \in DOMAIN s : Len(txt2) + m \in More(txt, txt2 \o s) /\ (txt2 \o s)[Len(txt2) + m] = s[m]

\* Text that has grown grows on.
LEMMA GrowsOn ==
    ASSUME NEW txt, NEW txt2, Grows(txt, txt2), NEW s, Listing(s)
    PROVE  Joins(txt, txt2, s)
<1> DEFINE u == txt2 \o s
<1>1. Listing(txt2) /\ Extends(txt, txt2)
  BY DEF Grows
<1>2. /\ Listing(u) /\ Extends(txt2, u)
      /\ \A k : k \in DOMAIN u \ DOMAIN txt2 <=> \E m \in DOMAIN s : k = Len(txt2) + m
      /\ \A m \in DOMAIN s : u[Len(txt2) + m] = s[m]
  BY <1>1, WrittenBehind DEF Behind
<1> HIDE DEF u
<1>3. /\ DOMAIN txt \subseteq DOMAIN txt2 /\ DOMAIN txt2 \subseteq DOMAIN u
      /\ \A k \in DOMAIN txt : txt2[k] = txt[k]
      /\ \A k \in DOMAIN txt2 : u[k] = txt2[k]
      /\ \A k \in DOMAIN txt, l \in DOMAIN txt2 \ DOMAIN txt : k <= l
      /\ \A k \in DOMAIN txt2, l \in DOMAIN u \ DOMAIN txt2 : k <= l
  BY <1>1, <1>2 DEF Extends
<1>4. Extends(txt, u)
  BY <1>3 DEF Extends
<1>5. Grows(txt, u)
  BY <1>2, <1>4 DEF Grows
<1>6. \A k \in More(txt, txt2) : k \in More(txt, u) /\ u[k] = txt2[k]
  BY <1>3 DEF More
<1>7. \A m \in DOMAIN s : Len(txt2) + m \in More(txt, u) /\ u[Len(txt2) + m] = s[m]
  BY <1>2, <1>3 DEF More
<1>8. ASSUME NEW k \in More(txt, u)
      PROVE  \/ k \in More(txt, txt2) /\ u[k] = txt2[k]
             \/ k \notin DOMAIN txt2 /\ (\A l \in DOMAIN txt2 : l <= k) /\ \E m \in DOMAIN s : u[k] = s[m]
  <2>1. CASE k \in DOMAIN txt2
    BY <1>3, <2>1 DEF More
  <2>2. CASE k \notin DOMAIN txt2
    <3>1. k \in DOMAIN u \ DOMAIN txt2
      BY <2>2 DEF More
    <3>2. PICK m \in DOMAIN s : k = Len(txt2) + m
      BY <1>2, <3>1
    <3> QED
      BY <1>2, <1>3, <2>2, <3>1, <3>2
  <2> QED
    BY <2>1, <2>2
<1> QED
  BY <1>5, <1>6, <1>7, <1>8 DEF u, Joins

\* Nothing but the question is about c.
AsksAt(txt, txt2, o, c, b) ==
    /\ BeginsAt(txt, txt2, o, c, b)
    /\ \A k \in More(txt, txt2) : txt2[k].entity = c /\ o # c => k = b

\* The question to the callback, behind what stands in front of it.
LEMMA Asks ==
    ASSUME NEW txt, Listing(txt), NEW o, NEW before, Plain(before, o), o = 0 => before = <<>>,
           NEW c, NEW m, m.mark = "begin", m.entity = c
    PROVE  /\ Grows(txt, (txt \o before) \o <<m>>)
           /\ \E b : AsksAt(txt, (txt \o before) \o <<m>>, o, c, b)
<1> DEFINE v == txt \o before
           s == <<m>>
           u == v \o s
           b == Len(v) + 1
<1>1. Listing(before) /\ \A k \in DOMAIN before : before[k].entity = o /\ before[k].mark \in Written
  BY DEF Plain
<1>2. /\ Listing(v) /\ Extends(txt, v)
      /\ \A k : k \in DOMAIN v \ DOMAIN txt <=> \E l \in DOMAIN before : k = Len(txt) + l
      /\ \A l \in DOMAIN before : v[Len(txt) + l] = before[l]
  <2>1. Behind(txt, before, v)
    BY <1>1, WrittenBehind
  <2> HIDE DEF v
  <2> QED
    BY <2>1 DEF Behind
<1>3. Grows(txt, v)
  BY <1>2 DEF Grows
<1>4. DOMAIN s = {1} /\ s[1] = m /\ Listing(s)
  <2>1. s \in Seq({m}) /\ DOMAIN s = {1} /\ s[1] = m
    BY Z3
  <2> QED
    BY <2>1, SeqListing
<1>5. o = 0 => DOMAIN before = {}
  OBVIOUS
<1> HIDE DEF v, s
<1>6. \A k \in More(txt, v) : v[k].entity = o /\ v[k].mark \in Written /\ o # 0
  BY <1>1, <1>2, <1>5 DEF More
<1>7. /\ Grows(txt, u)
      /\ \A k \in More(txt, u) :
           \/ k \in More(txt, v) /\ u[k] = v[k]
           \/ k \notin DOMAIN v /\ \E l \in DOMAIN s : u[k] = s[l]
      /\ \A l \in DOMAIN s : Len(v) + l \in More(txt, u) /\ u[Len(v) + l] = s[l]
  <2>1. Joins(txt, v, s)
    BY <1>3, <1>4, GrowsOn
  <2> QED
    BY <2>1 DEF Joins
<1>8. \A k : k \in DOMAIN u \ DOMAIN v <=> \E l \in DOMAIN s : k = Len(v) + l
  BY <1>2, <1>4, WrittenBehind DEF Behind
<1>9. \A k \in More(txt, u) : k \notin DOMAIN v => k = b
  BY <1>4, <1>8 DEF More
<1>10. b \in More(txt, u) /\ u[b].mark = "begin" /\ u[b].entity = c
  BY <1>4, <1>7
<1>11. \A k \in DOMAIN v : k <= b
  <2>1. Len(v) \in Nat /\ DOMAIN v = 1 .. Len(v)
    BY <1>2, ListingFacts
  <2> QED
    BY <2>1
<1> HIDE DEF u, b
<1>12. ASSUME NEW k \in More(txt, u), k # b
       PROVE  u[k].mark \in Written /\ k <= b /\ o # 0 /\ u[k].entity = o
  <2>1. k \in More(txt, v) /\ u[k] = v[k]
    BY <1>7, <1>9, <1>12
  <2>2. k \in DOMAIN v
    BY <2>1 DEF More
  <2> QED
    BY <1>6, <1>11, <2>1, <2>2
<1>13. BeginsAt(txt, u, o, c, b)
  BY <1>10, <1>12 DEF BeginsAt
<1>14. \A k \in More(txt, u) : u[k].entity = c /\ o # c => k = b
  BY <1>12
<1>15. Grows(txt, u) /\ \E b1 : AsksAt(txt, u, o, c, b1)
  BY <1>7, <1>13, <1>14 DEF AsksAt
<1> QED
  BY <1>15 DEF u, v, s

\* Marks of the entity behind it.
LEMMA AsksAndWrites ==
    ASSUME NEW txt, NEW txt2, Grows(txt, txt2), NEW o, NEW c, NEW b, BeginsAt(txt, txt2, o, c, b), NEW s, Plain(s, c)
    PROVE  Grows(txt, txt2 \o s) /\ BeginsAt(txt, txt2 \o s, o, c, b)
<1> DEFINE u == txt2 \o s
<1>1. Listing(s) /\ \A k \in DOMAIN s : s[k].entity = c /\ s[k].mark \in Written
  BY DEF Plain
<1>2. /\ Grows(txt, u)
      /\ \A k \in More(txt, txt2) : k \in More(txt, u) /\ u[k] = txt2[k]
      /\ \A k \in More(txt, u) :
           \/ k \in More(txt, txt2) /\ u[k] = txt2[k]
           \/ k \notin DOMAIN txt2 /\ (\A l \in DOMAIN txt2 : l <= k) /\ \E m \in DOMAIN s : u[k] = s[m]
  <2>1. Joins(txt, txt2, s)
    BY <1>1, GrowsOn
  <2> QED
    BY <2>1 DEF Joins
<1> HIDE DEF u
<1>3. b \in More(txt, txt2) /\ b \in DOMAIN txt2
  BY DEF BeginsAt, More
<1>4. u[b].mark = "begin" /\ u[b].entity = c /\ b \in More(txt, u)
  BY <1>2, <1>3 DEF BeginsAt
<1>5. ASSUME NEW k \in More(txt, u), k # b
      PROVE  /\ u[k].mark \in Written
             /\ (k <= b /\ o # 0 /\ u[k].entity = o) \/ (b <= k /\ u[k].entity = c)
  <2>1. CASE k \in More(txt, txt2) /\ u[k] = txt2[k]
    BY <1>5, <2>1 DEF BeginsAt
  <2>2. CASE (\A l \in DOMAIN txt2 : l <= k) /\ \E m \in DOMAIN s : u[k] = s[m]
    BY <1>1, <1>3, <2>2
  <2> QED
    BY <1>2, <2>1, <2>2
<1>6. BeginsAt(txt, u, o, c, b)
  BY <1>4, <1>5 DEF BeginsAt
<1> QED
  BY <1>2, <1>6 DEF u

\* What is written in front of the lists of an entity.
LEMMA NamePlain ==
    ASSUME NEW e
    PROVE  Plain(Name(e), e) /\ Silent(Name(e))
<1>1. /\ Plain(<<>>, e) /\ Plain(<<Mark("friend", e)>>, e) /\ Plain(<<Mark("name", e)>>, e)
      /\ Silent(<<>>) /\ Silent(<<Mark("friend", e)>>) /\ Silent(<<Mark("name", e)>>)
  <2>1. \A name : Mark(name, e).mark = name /\ Mark(name, e).entity = e
    BY DEF Mark
  <2>2. "friend" \in Written /\ "name" \in Written
    BY DEF Written, Names
  <2> QED
    BY <2>1, <2>2, PlainEmpty, PlainOne
<1> DEFINE f == <<Mark("friend", e)>>
           n == <<Mark("name", e)>>
<1>2. Plain(f \o n, e) /\ Plain(<<>> \o n, e) /\ Silent(f \o n) /\ Silent(<<>> \o n)
  BY <1>1, PlainTogether
<1>3. Name(e) = <<>> \/ Name(e) = f \o n \/ Name(e) = <<>> \o n
  BY DEF Name
<1> QED
  BY <1>1, <1>2, <1>3

\* The marks in front of a list are marks of the call.
LEMMA OpeningPlain ==
    ASSUME NEW call, call.lists \in Seq(ListType)
    PROVE  Plain(Opening(call), call.entity) /\ Silent(Opening(call))
<1>1. CASE call.lists = <<>>
  BY <1>1, PlainEmpty DEF Opening
<1>2. CASE call.lists # <<>>
  <2>1. Head(call.lists) \in ListType
    BY <1>2
  <2>2. Head(call.lists).before \in Seq(Names)
    BY <2>1 DEF ListType
  <2> QED
    BY <1>2, <2>2, PlainMarks DEF Opening
<1> QED
  BY <1>1, <1>2

----------------------------------------------------------------------------
(* The steps.                                                              *)

\* A call with the items of the last one.
Keeps(update) ==
    /\ "entity" \in DOMAIN update /\ "lists" \in DOMAIN update
    /\ update.entity = Call1.entity /\ update.lists = Call1.lists

\* The last call, and what it has still to write.
LEMMA Call1Facts ==
    ASSUME Forest(entities), Nested(writing)
    PROVE  /\ Len(writing) \in DOMAIN writing /\ Call1 = writing[Len(writing)] /\ CallOK(Call1)
           /\ Call1.lists \in Seq(ListType) /\ ListsOK(Call1.lists, Call1.entity)
           /\ Len(writing) # 1 => Call1.entity # 0
           /\ Keeps(Call1)
<1>1. Len(writing) \in DOMAIN writing /\ Call1 = writing[Len(writing)] /\ CallOK(Call1)
  BY NestedFacts DEF Call1
<1>2. Len(writing) # 1 => Call1.entity # 0
  BY <1>1, NestedFacts
<1> QED
  BY <1>1, <1>2 DEF CallOK, ListsOK, Keeps

\* Calls takes the item from the last call.
LEMMA CallsTakes ==
    ASSUME Forest(entities), Nested(writing), NEW c, IsItem(Call1.lists, c), NEW update, Keeps(update)
    PROVE  /\ \E call : Replaces(writing, Calls(update), call) /\ Takes(Call1, call, c)
           /\ c \in Offspring(Call1.entity) /\ Call1.lists # <<>>
<1> DEFINE n == Len(writing)
           lists == Call1.lists
           e == Call1.entity
           lists2 == [lists EXCEPT ![1].todo = Tail(@)]
           call == [update EXCEPT !.lists[1].todo = Tail(@)]
<1>1. /\ n \in DOMAIN writing /\ CallOK(Call1) /\ lists \in Seq(ListType) /\ ListsOK(lists, e)
      /\ Left(lists) \subseteq Offspring(e) /\ Unique(lists) /\ SpecifiersKnown(lists)
      /\ IF e = 0 THEN Len(lists) = 1 /\ lists[1].how = "direct" ELSE lists # <<>> => ~NamedOnly(e)
  BY Call1Facts DEF ListsOK
<1>2. /\ lists2 \in Seq(ListType) /\ Len(lists2) = Len(lists) /\ lists2[1].how = lists[1].how
      /\ Unique(lists2) /\ SpecifiersKnown(lists2)
      /\ \A d : d \in Left(lists2) <=> d \in Left(lists) /\ d # c
  BY <1>1, ItemTaken
<1>3. c \in Left(lists) /\ lists # <<>>
  BY <1>1, ItemFacts DEF IsItem
<1>4. call.lists = lists2 /\ call.entity = e /\ "entity" \in DOMAIN call /\ "lists" \in DOMAIN call
  BY DEF Keeps
<1>5. Calls(update) = [writing EXCEPT ![n] = call]
  BY DEF Calls
<1> HIDE DEF lists2, call, lists, e
<1>6. ListsOK(lists2, e)
  BY <1>1, <1>2, <1>3 DEF ListsOK
<1>7. CallOK(call)
  BY <1>1, <1>4, <1>6 DEF CallOK, e
<1>8. Takes(Call1, call, c)
  BY <1>2, <1>3, <1>4, <1>7 DEF Takes, e, lists
<1>9. Replaces(writing, Calls(update), call)
  <2> DEFINE T == Elements(writing) \cup {call}
             ws2 == [writing EXCEPT ![n] = call]
  <2>1. writing \in Seq(T) /\ call \in T
    BY WiderSeq DEF Nested, Listing
  <2> HIDE DEF T
  <2>2. /\ ws2 \in Seq(T) /\ Len(ws2) = Len(writing) /\ ws2[n] = call
        /\ \A i \in DOMAIN writing : i # n => ws2[i] = writing[i]
    BY <1>1, <2>1
  <2> QED
    BY <1>5, <2>2, SeqListing DEF Replaces
<1> QED
  BY <1>1, <1>3, <1>8, <1>9 DEF lists, e

\* An item is asked for: it is begun, or there is nothing but the question.
LEMMA GenerateStep ==
    ASSUME TreeInv, Generating(writing, text), NEW c, IsItem(Call1.lists, c), entities[c].kind # "access_specifier",
           NEW update, Keeps(update), NEW before, Plain(before, Call1.entity), Call1.entity = 0 => before = <<>>,
           NEW access, Generate(c, access, before, Calls(update))
    PROVE  Generating(writing', text')
<1> DEFINE o == Call1.entity
           ws2 == Calls(update)
           m == Begin(c, access)
           asked == (text \o before) \o <<m>>
<1>1. Forest(entities) /\ Placed(file.cursors, entities) /\ Nested(writing) /\ Listing(text)
  BY DEF TreeInv, Generating
<1>2. PICK old : Replaces(writing, ws2, old) /\ Takes(Call1, old, c)
  BY <1>1, CallsTakes
<1>3. c \in Offspring(o) /\ Call1.lists # <<>>
  BY <1>1, CallsTakes
<1>4. c \in Tree /\ Reached(c)
  BY <1>1, <1>3, Call1Facts, ItemReached
<1>5. Call1 = Last(writing)
  BY DEF Call1
<1>6. m.mark = "begin" /\ m.entity = c
  BY DEF Begin, Mark
<1> HIDE DEF m
<1>7. Grows(text, asked)
  BY <1>1, <1>6, Asks
<1>8. PICK b : /\ BeginsAt(text, asked, o, c, b)
               /\ \A k \in More(text, asked) : asked[k].entity = c /\ o # c => k = b
  <2>1. PICK b : AsksAt(text, asked, o, c, b)
    BY <1>1, <1>6, Asks
  <2> QED
    BY <2>1 DEF AsksAt
<1> HIDE DEF asked, ws2
<1>9. CASE ~OutputTrue(c)
  <2>1. text' = asked /\ writing' = ws2
    BY <1>9 DEF Generate, asked, ws2, m
  <2>2. o # c
    <3>1. CASE o = 0
      BY <1>1, <1>3, <3>1, OffspringFacts
    <3>2. CASE o # 0
      <4>1. o \in Ancestors(c) /\ c \in DOMAIN entities
        BY <1>1, <1>3, <3>2, OffspringFacts
      <4> QED
        BY <1>1, <4>1, AncestorsIrreflexive
    <3> QED
      BY <3>1, <3>2
  <2>3. Generating(ws2, asked)
    BY <1>1, <1>2, <1>3, <1>4, <1>5, <1>7, <1>8, <1>9, <2>2, ItemAsked
  <2> QED
    BY <2>1, <2>3
<1>10. CASE OutputTrue(c)
  <2> DEFINE call == Writing(c, access)
             named == asked \o Name(c)
             u == named \o Opening(call)
  <2>1. text' = u /\ writing' = Append(ws2, call)
    BY <1>10 DEF Generate, asked, ws2, m
  <2>2. Generated(c)
    BY <1>4, <1>10 DEF Generated
  <2>3. /\ CallOK(call) /\ call.entity = c /\ call.lists \in Seq(ListType)
        /\ \A d \in Offspring(c) \ Left(call.lists) : NamedOnly(c)
    BY <1>1, <1>4, <2>2, WritingOK
  <2>4. Plain(Name(c), c) /\ Plain(Opening(call), c)
    BY <2>3, NamePlain, OpeningPlain
  <2> HIDE DEF call
  <2>5. Grows(text, named) /\ BeginsAt(text, named, o, c, b)
    BY <1>7, <1>8, <2>4, AsksAndWrites
  <2> HIDE DEF named
  <2>6. Grows(text, u) /\ BeginsAt(text, u, o, c, b)
    BY <2>4, <2>5, AsksAndWrites
  <2> HIDE DEF u
  <2>7. Listing(ws2)
    BY <1>2 DEF Replaces
  <2>8. Pushes(ws2, Append(ws2, call), call)
    BY <2>7, AppendPushes
  <2>9. Generating(Append(ws2, call), u)
    BY <1>1, <1>2, <1>3, <1>4, <1>5, <2>3, <2>6, <2>8, ItemBegun
  <2> QED
    BY <2>1, <2>9
<1> QED
  BY <1>9, <1>10

\* The item of the last call.
LEMMA InListFacts ==
    ASSUME Forest(entities), Nested(writing), NEW hows, InList(hows)
    PROVE  /\ IsItem(Call1.lists, Item) /\ mode = "generate"
           /\ Current \in ListType /\ Current.how \in hows
           /\ Current.how # "members" => entities[Item].kind # "access_specifier"
           /\ Call1.entity = 0 => Current.how = "direct"
           /\ Item \in Offspring(Call1.entity)
<1> DEFINE lists == Call1.lists
<1>1. mode = "generate" /\ lists # <<>> /\ Current.how \in hows /\ Current.todo # <<>>
  BY DEF InList
<1>2. lists \in Seq(ListType) /\ ListsOK(lists, Call1.entity) /\ Keeps(Call1)
  BY Call1Facts
<1>3. Current = Head(lists) /\ Item = Head(Current.todo)
  BY DEF Current, Item
<1> HIDE DEF lists
<1>4. Current = lists[1]
  BY <1>1, <1>2, <1>3
<1>5. IsItem(lists, Item)
  BY <1>1, <1>3, <1>4 DEF IsItem
<1>6. Current \in ListType /\ 1 \in DOMAIN lists /\ 1 \in DOMAIN Current.todo /\ Item = Current.todo[1]
  BY <1>2, <1>4, <1>5, ItemFacts
<1>7. Current.how # "members" => entities[Item].kind # "access_specifier"
  BY <1>2, <1>4, <1>6 DEF ListsOK, SpecifiersKnown
<1>8. Call1.entity = 0 => Current.how = "direct"
  BY <1>2, <1>4 DEF ListsOK
<1>9. Item \in Offspring(Call1.entity)
  BY <1>2, <1>5, CallsTakes DEF lists
<1> QED
  BY <1>1, <1>5, <1>6, <1>7, <1>8, <1>9 DEF lists

\* The separator consists of marks of the last call.
LEMMA SeparatorPlain ==
    ASSUME Current \in ListType
    PROVE  /\ Plain(Separator, Call1.entity) /\ Plain(Marks(Call1.entity, Current.separator), Call1.entity)
           /\ Silent(Separator) /\ Silent(Marks(Call1.entity, Current.separator))
<1>1. Current.separator \in Seq(Names)
  BY DEF ListType
<1> QED
  BY <1>1, PlainMarks, PlainEmpty DEF Separator

\* Updates of a call that keep its items.
LEMMA KeepsUpdated ==
    ASSUME Keeps(Call1)
    PROVE  /\ \A v : Keeps([Call1 EXCEPT !.need_sep = v])
           /\ \A v : Keeps([Call1 EXCEPT !.last_access = v])
           /\ \A v, w : Keeps([Call1 EXCEPT !.need_sep = v, !.header = w])
           /\ \A v, w : Keeps([Call1 EXCEPT !.need_sep = v, !.first = w])
           /\ \A v, w : Keeps([Call1 EXCEPT !.need_sep = v, !.last_written_access = w])
  BY DEF Keeps

\* What is written without asking about it is asked for like all else.
LEMMA DirectWritten == ASSUME TreeInv, GenInv, WriteDirect PROVE Generating(writing', text')
<1>1. mode = "generate" /\ InList({"direct"}) /\ Generate(Item, Call1.access, <<>>, Calls(Call1))
  BY DEF WriteDirect, InList
<1>2. Generating(writing, text) /\ Nested(writing) /\ Forest(entities)
  BY <1>1 DEF GenInv, Generating, TreeInv
<1>3. IsItem(Call1.lists, Item) /\ entities[Item].kind # "access_specifier" /\ Keeps(Call1)
  BY <1>1, <1>2, InListFacts, Call1Facts
<1> QED
  BY <1>1, <1>2, <1>3, PlainEmpty, GenerateStep

\* An item of a container or of a macro,
LEMMA ItemWritten == ASSUME TreeInv, GenInv, WriteItem PROVE Generating(writing', text')
<1> DEFINE access == IF Current.how = "macro" THEN "public" ELSE Call1.access
           update == [Call1 EXCEPT !.need_sep = OutputTrue(Item)]
<1>1. mode = "generate" /\ InList({"container", "macro"}) /\ Generate(Item, access, Separator, Calls(update))
  BY DEF WriteItem, InList
<1>2. Generating(writing, text) /\ Nested(writing) /\ Forest(entities)
  BY <1>1 DEF GenInv, Generating, TreeInv
<1>3. /\ IsItem(Call1.lists, Item) /\ entities[Item].kind # "access_specifier" /\ Keeps(Call1)
      /\ Current \in ListType /\ Call1.entity # 0
  BY <1>1, <1>2, InListFacts, Call1Facts
<1>4. Keeps(update)
  BY <1>3, KeepsUpdated
<1> HIDE DEF update, access
<1> QED
  BY <1>1, <1>2, <1>3, <1>4, SeparatorPlain, GenerateStep

\* a parameter,
LEMMA ParameterWritten == ASSUME TreeInv, GenInv, WriteParameter PROVE Generating(writing', text')
<1> DEFINE before == IF Current.how = "header" /\ ~Call1.header THEN Marks(Call1.entity, <<"template", "<">>) ELSE Separator
           update == [Call1 EXCEPT !.need_sep = OutputTrue(Item), !.header = TRUE]
<1>1. mode = "generate" /\ InList({"parameters", "header"}) /\ Generate(Item, "public", before, Calls(update))
  BY DEF WriteParameter, InList
<1>2. Generating(writing, text) /\ Nested(writing) /\ Forest(entities)
  BY <1>1 DEF GenInv, Generating, TreeInv
<1>3. /\ IsItem(Call1.lists, Item) /\ entities[Item].kind # "access_specifier" /\ Keeps(Call1)
      /\ Current \in ListType /\ Call1.entity # 0
  BY <1>1, <1>2, InListFacts, Call1Facts
<1>4. Keeps(update)
  BY <1>3, KeepsUpdated
<1>5. Plain(before, Call1.entity)
  <2>1. <<"template", "<">> \in Seq(Names)
    BY WrittenNames DEF Names
  <2> QED
    BY <1>3, <2>1, SeparatorPlain, PlainMarks
<1> HIDE DEF update, before
<1> QED
  BY <1>1, <1>2, <1>3, <1>4, <1>5, GenerateStep

\* a base,
LEMMA BaseWritten == ASSUME TreeInv, GenInv, WriteBase PROVE Generating(writing', text')
<1> DEFINE access == Cursor(entities[Item].cursor).access
           begins == Call1.first /\ ~Excluded(Item)
           before == IF begins THEN Marks(Call1.entity, <<":">>) ELSE Separator
           update == [Call1 EXCEPT !.need_sep = OutputTrue(Item), !.first = @ /\ ~begins]
<1>1. mode = "generate" /\ InList({"bases"}) /\ Generate(Item, access, before, Calls(update))
  BY DEF WriteBase, InList
<1>2. Generating(writing, text) /\ Nested(writing) /\ Forest(entities)
  BY <1>1 DEF GenInv, Generating, TreeInv
<1>3. /\ IsItem(Call1.lists, Item) /\ entities[Item].kind # "access_specifier" /\ Keeps(Call1)
      /\ Current \in ListType /\ Call1.entity # 0
  BY <1>1, <1>2, InListFacts, Call1Facts
<1>4. Keeps(update)
  BY <1>3, KeepsUpdated
<1>5. Plain(before, Call1.entity)
  <2>1. <<":">> \in Seq(Names)
    BY WrittenNames DEF Names
  <2> QED
    BY <1>3, <2>1, SeparatorPlain, PlainMarks
<1> HIDE DEF update, before, access
<1> QED
  BY <1>1, <1>2, <1>3, <1>4, <1>5, GenerateStep

\* and a member, behind the separator and a new access specifier.
LEMMA MemberWritten == ASSUME TreeInv, GenInv, WriteMember PROVE Generating(writing', text')
<1> DEFINE specifier == IF Call1.last_access # Call1.last_written_access THEN <<AccessMark(Call1.entity, Call1.last_access)>> ELSE <<>>
           before == Separator \o specifier
           update == [Call1 EXCEPT !.need_sep = OutputTrue(Item), !.last_written_access = Call1.last_access]
<1>1. mode = "generate" /\ InList({"members"}) /\ Generate(Item, Call1.last_access, before, Calls(update))
  BY DEF WriteMember, InList
<1>2. Generating(writing, text) /\ Nested(writing) /\ Forest(entities)
  BY <1>1 DEF GenInv, Generating, TreeInv
<1>3. /\ IsItem(Call1.lists, Item) /\ Keeps(Call1) /\ Current \in ListType /\ Call1.entity # 0
  BY <1>1, <1>2, InListFacts, Call1Facts
<1>4. entities[Item].kind # "access_specifier"
  BY DEF WriteMember
<1>5. Keeps(update)
  BY <1>3, KeepsUpdated
<1>6. Plain(specifier, Call1.entity)
  <2> DEFINE m == AccessMark(Call1.entity, Call1.last_access)
  <2>1. m.entity = Call1.entity /\ m.mark = "access" /\ "access" \in Written
    BY DEF AccessMark, Written
  <2> HIDE DEF m
  <2>2. Plain(<<m>>, Call1.entity) /\ Plain(<<>>, Call1.entity)
    BY <2>1, PlainOne, PlainEmpty
  <2> QED
    BY <2>2 DEF m
<1> HIDE DEF specifier
<1>7. Plain(before, Call1.entity)
  BY <1>3, <1>6, SeparatorPlain, PlainTogether
<1> HIDE DEF update, before
<1> QED
  BY <1>1, <1>2, <1>3, <1>4, <1>5, <1>7, GenerateStep

\* An item that is left out, with all that is below.
LEMMA ItemLeftOut ==
    ASSUME TreeInv, Generating(writing, text), NEW c, IsItem(Call1.lists, c), NEW update, Keeps(update),
           \A e \in Tree : c \in Line(e) => ~Generated(e)
    PROVE  Generating(Calls(update), text)
<1>1. Forest(entities) /\ Nested(writing)
  BY DEF TreeInv, Generating
<1>2. PICK old : Replaces(writing, Calls(update), old) /\ Takes(Call1, old, c)
  BY <1>1, CallsTakes
<1>3. c \in Offspring(Call1.entity)
  BY <1>1, CallsTakes
<1>4. Call1 = Last(writing)
  BY DEF Call1
<1> DEFINE ws2 == Calls(update)
<1> HIDE DEF ws2
<1>5. Replaces(writing, ws2, old) /\ Takes(Last(writing), old, c) /\ c \in Offspring(Last(writing).entity)
  BY <1>2, <1>3, <1>4 DEF ws2
<1>6. Generating(ws2, text)
  BY <1>1, <1>5, ItemSkipped
<1> QED
  BY <1>6 DEF ws2

\* What is excluded is left out.
LEMMA ExcludedSkipped == ASSUME TreeInv, GenInv, SkipExcluded PROVE Generating(writing', text')
<1>1. /\ mode = "generate" /\ InList({"container", "macro", "parameters", "header", "members"})
      /\ writing' = Calls(Call1) /\ text' = text /\ Excluded(Item)
  BY DEF SkipExcluded, InList
<1>2. Generating(writing, text) /\ Nested(writing) /\ Forest(entities)
  BY <1>1 DEF GenInv, Generating, TreeInv
<1>3. IsItem(Call1.lists, Item) /\ Keeps(Call1)
  BY <1>1, <1>2, InListFacts, Call1Facts
<1> DEFINE c == Item
<1> HIDE DEF c
<1>4. ~OutputTrue(c)
  BY <1>1 DEF Excluded, OutputTrue, c
<1>5. ASSUME NEW e \in Tree, c \in Line(e) PROVE ~Generated(e)
  <2>1. CASE e = c
    BY <1>4, <2>1 DEF Generated
  <2>2. CASE e # c
    <3>1. c \in Ancestors(e)
      BY <1>5, <2>2 DEF Line
    <3> QED
      BY <1>4, <3>1, NotReached DEF Generated
  <2> QED
    BY <2>1, <2>2
<1>6. IsItem(Call1.lists, c)
  BY <1>3 DEF c
<1>7. Generating(Calls(Call1), text)
  BY <1>2, <1>3, <1>5, <1>6, ItemLeftOut
<1> QED
  BY <1>1, <1>7

\* An access specifier is not asked for.
LEMMA SpecifierPassed == ASSUME TreeInv, GenInv, UpdateAccess PROVE Generating(writing', text')
<1> DEFINE update == [Call1 EXCEPT !.last_access = UpdatedAccess(@, Item)]
           c == Item
<1>1. /\ mode = "generate" /\ InList({"members"}) /\ writing' = Calls(update) /\ text' = text
      /\ entities[c].kind = "access_specifier"
  BY DEF UpdateAccess, InList
<1>2. Generating(writing, text) /\ Nested(writing) /\ Forest(entities) /\ Placed(file.cursors, entities)
  BY <1>1 DEF GenInv, Generating, TreeInv
<1>3. IsItem(Call1.lists, c) /\ Keeps(Call1) /\ c \in Offspring(Call1.entity)
  BY <1>1, <1>2, InListFacts, Call1Facts
<1>4. Keeps(update)
  BY <1>3, KeepsUpdated
<1> HIDE DEF c, update
<1>5. c \in DOMAIN entities /\ c # 0
  BY <1>2, <1>3, OffspringFacts
<1>6. ASSUME NEW d \in Offspring(c) PROVE FALSE
  <2>1. d \in DOMAIN entities /\ Parent(d) = c
    BY <1>2, <1>6, OffspringFacts
  <2>2. entities[c].kind \in OwnerKinds \cup TemplateKinds \cup {"class", "template_parameter", "macro"}
    BY <1>2, <1>5, <2>1, OwnedKinds
  <2> QED
    BY <1>1, <2>2 DEF OwnerKinds, VisitedContainers, TemplateKinds, SpecializationKinds, FunctionTemplateKinds
<1>7. ASSUME NEW e \in Tree, c \in Line(e) PROVE ~Generated(e)
  <2>1. e = c
    BY <1>2, <1>6, <1>7, BelowOffspring DEF Tree
  <2> QED
    BY <1>1, <2>1 DEF Generated
<1>8. Generating(Calls(update), text)
  BY <1>2, <1>3, <1>4, <1>7, ItemLeftOut
<1> QED
  BY <1>1, <1>8

\* A list that is written is nothing that is left.
LEMMA ListPassed ==
    ASSUME NEW lists \in Seq(ListType), lists # <<>>, Head(lists).todo = <<>>, Unique(lists), SpecifiersKnown(lists)
    PROVE  /\ Tail(lists) \in Seq(ListType) /\ Unique(Tail(lists)) /\ SpecifiersKnown(Tail(lists))
           /\ \A d : d \in Left(Tail(lists)) <=> d \in Left(lists)
<1> DEFINE n == Len(lists)
           t == Tail(lists)
<1>1. n \in Nat /\ n >= 1 /\ DOMAIN lists = 1 .. n /\ lists[1].todo = <<>>
  BY DEF ListType
<1>2. t \in Seq(ListType) /\ DOMAIN t = 1 .. n - 1 /\ \A l \in 1 .. n - 1 : t[l] = lists[l + 1]
  OBVIOUS
<1> HIDE DEF n, t
<1>3. \A l \in DOMAIN t : l \in Nat /\ l + 1 \in DOMAIN lists /\ t[l] = lists[l + 1]
  BY <1>1, <1>2
<1>4. \A l \in DOMAIN lists : l # 1 => l - 1 \in DOMAIN t /\ t[l - 1] = lists[l]
  <2>1. \A l \in 1 .. n : l # 1 => l - 1 \in 1 .. n - 1 /\ (l - 1) + 1 = l
    BY <1>1
  <2> QED
    BY <1>1, <1>2, <2>1
<1>5. Unique(t)
  <2>1. SUFFICES ASSUME NEW l1 \in DOMAIN t, NEW l2 \in DOMAIN t, NEW m1 \in DOMAIN t[l1].todo,
                        NEW m2 \in DOMAIN t[l2].todo, t[l1].todo[m1] = t[l2].todo[m2]
                 PROVE  l1 = l2 /\ m1 = m2
    BY DEF Unique
  <2>2. l1 + 1 = l2 + 1 /\ m1 = m2
    BY <1>3, <2>1 DEF Unique
  <2> QED
    BY <1>3, <2>2
<1>6. SpecifiersKnown(t)
  BY <1>3 DEF SpecifiersKnown
<1>7. \A m : m \notin DOMAIN lists[1].todo
  BY <1>1
<1>8. ASSUME NEW d PROVE d \in Left(t) <=> d \in Left(lists)
  <2>1. ASSUME d \in Left(t) PROVE d \in Left(lists)
    BY <1>3, <2>1 DEF Left
  <2>2. ASSUME d \in Left(lists) PROVE d \in Left(t)
    <3>1. PICK l \in DOMAIN lists : \E m \in DOMAIN lists[l].todo : lists[l].todo[m] = d
      BY <2>2 DEF Left
    <3>2. l # 1
      BY <1>7, <3>1
    <3> QED
      BY <1>4, <2>2, <3>1, <3>2 DEF Left
  <2> QED
    BY <2>1, <2>2
<1> QED
  BY <1>2, <1>5, <1>6, <1>8 DEF t

\* The marks at the end of a list are marks of the call.
LEMMA EndingPlain ==
    ASSUME Current \in ListType
    PROVE  Plain(Ending, Call1.entity) /\ Silent(Ending)
<1> DEFINE ellipsis == IF ~Cursor(entities[Call1.entity].cursor).variadic THEN <<>>
                       ELSE IF Call1.need_sep THEN <<",", "...">> ELSE <<"...">>
           marks == CASE entities[Call1.entity].kind = "file" /\ ~Call1.need_sep -> <<"end_of_line">>
                      [] Current.how = "macro" -> ellipsis \o Current.behind
                      [] Current.how = "header" /\ ~Call1.header -> <<>>
                      [] OTHER -> Current.behind
<1>1. /\ Current.behind \in Seq(Names) /\ <<>> \in Seq(Names) /\ <<"end_of_line">> \in Seq(Names)
      /\ <<",", "...">> \in Seq(Names) /\ <<"...">> \in Seq(Names)
  BY WrittenNames DEF Names, ListType
<1>2. ellipsis \in Seq(Names)
  BY <1>1
<1> HIDE DEF ellipsis
<1>3. ellipsis \o Current.behind \in Seq(Names)
  <2> DEFINE behind == Current.behind
  <2>1. behind \in Seq(Names)
    BY <1>1
  <2> HIDE DEF behind
  <2>2. ellipsis \o behind \in Seq(Names)
    BY <1>2, <2>1
  <2> QED
    BY <2>2 DEF behind
<1>4. marks \in Seq(Names)
  BY <1>1, <1>3
<1>5. Ending = Marks(Call1.entity, marks)
  BY DEF Ending, ellipsis
<1> HIDE DEF marks
<1> QED
  BY <1>4, <1>5, PlainMarks

\* A list ends, and the next one begins.
LEMMA ListFinished == ASSUME TreeInv, GenInv, FinishList PROVE Generating(writing', text')
<1> DEFINE n == Len(writing)
           lists == Call1.lists
           e == Call1.entity
           call == [Call1 EXCEPT !.lists = Tail(@), !.need_sep = FALSE]
           ws2 == [writing EXCEPT ![n] = call]
           ended == text \o Ending
           u == ended \o Opening(call)
<1>1. /\ mode = "generate" /\ n > 1 /\ lists # <<>> /\ Current.todo = <<>>
      /\ text' = u /\ writing' = ws2
  BY DEF FinishList
<1>2. Generating(writing, text) /\ Nested(writing) /\ Forest(entities) /\ Listing(text)
  BY <1>1 DEF GenInv, Generating, TreeInv
<1>3. n \in DOMAIN writing /\ Call1 = Last(writing) /\ CallOK(Call1) /\ lists \in Seq(ListType) /\ ListsOK(lists, e)
  BY <1>2, Call1Facts DEF Call1
<1>4. Current = Head(lists) /\ n # 1
  BY <1>1, <1>2, NestedFacts DEF Current
<1>5. e # 0 /\ Keeps(Call1)
  BY <1>2, <1>4, Call1Facts
<1>6. call.lists = Tail(lists) /\ call.entity = e /\ "entity" \in DOMAIN call /\ "lists" \in DOMAIN call
  BY <1>5 DEF Keeps
<1> HIDE DEF call, u, ws2
<1>7. /\ Tail(lists) \in Seq(ListType) /\ Unique(Tail(lists)) /\ SpecifiersKnown(Tail(lists))
      /\ \A d : d \in Left(Tail(lists)) <=> d \in Left(lists)
  BY <1>1, <1>3, <1>4, ListPassed DEF ListsOK
<1>8. Left(Tail(lists)) \subseteq Offspring(e) /\ ~NamedOnly(e)
  BY <1>1, <1>3, <1>5, <1>7 DEF ListsOK
<1>9. Passes(Call1, call)
  <2>1. ListsOK(Tail(lists), e)
    BY <1>5, <1>7, <1>8 DEF ListsOK
  <2>2. CallOK(call)
    BY <1>3, <1>6, <2>1 DEF CallOK
  <2> QED
    BY <1>6, <1>7, <2>2 DEF Passes
<1>10. Replaces(writing, ws2, call)
  <2> DEFINE T == Elements(writing) \cup {call}
  <2>1. writing \in Seq(T) /\ call \in T
    BY <1>2, WiderSeq DEF Nested, Listing
  <2> HIDE DEF T
  <2>2. /\ ws2 \in Seq(T) /\ Len(ws2) = Len(writing) /\ ws2[n] = call
        /\ \A i \in DOMAIN writing : i # n => ws2[i] = writing[i]
    BY <1>3, <2>1 DEF ws2
  <2> QED
    BY <2>2, SeqListing DEF Replaces
<1>11. Plain(Ending, e) /\ Plain(Opening(call), e)
  <2>1. Current \in ListType
    BY <1>1, <1>3, <1>4
  <2>2. Plain(Ending, e)
    BY <2>1, EndingPlain
  <2>3. call.lists \in Seq(ListType)
    BY <1>6, <1>7
  <2>4. Plain(Opening(call), call.entity)
    BY <2>3, OpeningPlain
  <2> QED
    BY <1>6, <2>2, <2>4
<1>12. Grows(text, u) /\ \A k \in More(text, u) : u[k].entity = e /\ u[k].mark \in Written
  <2>1. /\ Listing(ended) /\ Extends(text, ended)
        /\ \A k : k \in DOMAIN ended \ DOMAIN text <=> \E m \in DOMAIN Ending : k = Len(text) + m
        /\ \A m \in DOMAIN Ending : ended[Len(text) + m] = Ending[m]
    <3>1. Listing(Ending)
      BY <1>11 DEF Plain
    <3> QED
      BY <1>2, <3>1, WrittenBehind DEF Behind
  <2> HIDE DEF ended
  <2>2. Grows(text, ended)
    BY <2>1 DEF Grows
  <2>3. Joins(text, ended, Opening(call))
    <3>1. Listing(Opening(call))
      BY <1>11 DEF Plain
    <3> QED
      BY <2>2, <3>1, GrowsOn
  <2>4. \A k \in More(text, ended) : ended[k].entity = e /\ ended[k].mark \in Written
    BY <1>11, <2>1 DEF More, Plain
  <2>5. \A m \in DOMAIN Opening(call) : Opening(call)[m].entity = e /\ Opening(call)[m].mark \in Written
    BY <1>11 DEF Plain
  <2>6. /\ Grows(text, u)
        /\ \A k \in More(text, u) :
             \/ k \in More(text, ended) /\ u[k] = ended[k]
             \/ \E m \in DOMAIN Opening(call) : u[k] = Opening(call)[m]
    BY <2>3 DEF Joins, u
  <2> QED
    BY <2>4, <2>5, <2>6
<1>13. Passes(Last(writing), call) /\ Last(writing).entity = e
  BY <1>3, <1>9
<1>14. Generating(ws2, u)
  BY <1>2, <1>5, <1>10, <1>12, <1>13, ListEnded
<1> QED
  BY <1>1, <1>14

\* An entity ends.
LEMMA EntityFinished == ASSUME TreeInv, GenInv, FinishEntity PROVE Generating(writing', text')
<1> DEFINE m == Mark("end", Call1.entity)
           u == text \o <<m>>
<1>1. /\ mode = "generate" /\ Len(writing) > 1 /\ Call1.lists = <<>>
      /\ text' = Append(text, m) /\ writing' = Front(writing)
  BY DEF FinishEntity
<1>2. Generating(writing, text) /\ Nested(writing) /\ Forest(entities) /\ Listing(text)
  BY <1>1 DEF GenInv, Generating, TreeInv
<1>3. Len(writing) # 1 /\ Call1 = Last(writing)
  BY <1>1, <1>2, NestedFacts DEF Call1
<1>4. m.mark = "end" /\ m.entity = Last(writing).entity
  BY <1>3 DEF Mark
<1> HIDE DEF m
<1>5. Append(text, m) = u
  <2> DEFINE T == Elements(text) \cup {m}
  <2>1. text \in Seq(T) /\ m \in T
    BY <1>2, WiderSeq DEF Listing
  <2> HIDE DEF T
  <2> QED
    BY <2>1, AppendIsConcat
<1>6. <<m>> \in Seq({m}) /\ DOMAIN <<m>> = {1} /\ <<m>>[1] = m
  BY Z3
<1>7. Listing(<<m>>)
  BY <1>6, SeqListing
<1>8. /\ Listing(u) /\ Extends(text, u)
      /\ \A k : k \in DOMAIN u \ DOMAIN text <=> \E l \in DOMAIN <<m>> : k = Len(text) + l
      /\ \A l \in DOMAIN <<m>> : u[Len(text) + l] = <<m>>[l]
  BY <1>2, <1>7, WrittenBehind DEF Behind
<1> HIDE DEF u
<1>9. More(text, u) = {Len(text) + 1} /\ u[Len(text) + 1] = m
  BY <1>6, <1>8 DEF More
<1>10. Generating(Front(writing), u)
  <2>1. Grows(text, u) /\ Last(writing).lists = <<>>
    BY <1>1, <1>3, <1>8 DEF Grows
  <2> QED
    BY <1>2, <1>3, <1>4, <1>9, <2>1, CallEnded
<1> QED
  BY <1>1, <1>5, <1>10

\* The call for the file has returned: everything is written.
LEMMA GenerateFinished ==
    ASSUME TreeInv, GenInv, FinishGenerate
    PROVE  /\ Listing(text) /\ \A e \in Tree : Settled(text, e)
           /\ \A k \in DOMAIN text : text[k].entity \in Tree
<1>1. mode = "generate" /\ Len(writing) = 1 /\ Current.todo = <<>>
  BY DEF FinishGenerate
<1>2. Generating(writing, text) /\ Nested(writing) /\ Forest(entities) /\ Listing(text)
  BY <1>1 DEF GenInv, Generating, TreeInv
<1>3. 1 \in DOMAIN writing /\ writing[1].entity = 0 /\ CallOK(writing[1]) /\ Call1 = writing[1]
  BY <1>1, <1>2, NestedFacts DEF Call1
<1> DEFINE lists == writing[1].lists
<1>4. lists \in Seq(ListType) /\ Len(lists) = 1 /\ Current = Head(lists)
  BY <1>3 DEF CallOK, ListsOK, Current
<1> HIDE DEF lists
<1>5. DOMAIN lists = {1} /\ lists[1].todo = <<>>
  <2>1. DOMAIN lists = 1 .. 1 /\ Head(lists) = lists[1]
    BY <1>4
  <2>2. 1 .. 1 = {1}
    OBVIOUS
  <2> QED
    BY <1>1, <1>4, <2>1, <2>2
<1>6. \A d : d \notin Left(lists)
  <2>1. DOMAIN lists[1].todo = {}
    BY <1>5
  <2> QED
    BY <1>5, <2>1 DEF Left
<1>7. ASSUME NEW e \in Tree PROVE Told(writing, e)
  <2>1. 1 \in Line(e)
    BY DEF Tree, Line
  <2>2. ~(1 < Len(writing))
    BY <1>1
  <2>3. Done(writing, 1, 1)
    BY <1>3, <1>6, <2>2 DEF Done, Offspring, lists
  <2> QED
    BY <1>3, <2>1, <2>3 DEF Told
<1> QED
  BY <1>2, <1>7 DEF Generating

\* While the tree and the options stay as they are, so does what is written of it.
LEMMA SameGenerating ==
    ASSUME UNCHANGED <<entities, file, options>>
    PROVE  /\ \A ws, txt : Generating(ws, txt)' <=> Generating(ws, txt)
           /\ \A txt, e : Settled(txt, e)' <=> Settled(txt, e)
           /\ Tree' = Tree
<1>1. \A e : Ancestors(e)' = Ancestors(e)
  BY DEF Ancestors, Parent
<1>2. \A e : Line(e)' = Line(e)
  BY <1>1 DEF Line
<1>3. Tree' = Tree
  BY <1>1 DEF Tree
<1>4. \A e : OutputTrue(e)' <=> OutputTrue(e)
  BY DEF OutputTrue
<1>5. \A e : OnlyDeclared(e)' <=> OnlyDeclared(e)
  BY DEF OnlyDeclared, GenerateDefinition
<1>6. \A e : Reached(e)' <=> Reached(e)
  BY <1>1, <1>4, <1>5 DEF Reached
<1>7. \A e : Generated(e)' <=> Generated(e)
  BY <1>4, <1>6 DEF Generated
<1>8. \A e : NamedOnly(e)' <=> NamedOnly(e)
  BY <1>5 DEF NamedOnly
<1>9. \A o : Offspring(o)' = Offspring(o)
  BY DEF Offspring, Parent
<1>10. \A lists : SpecifiersKnown(lists)' <=> SpecifiersKnown(lists)
  BY DEF SpecifiersKnown
<1>11. \A lists, e : ListsOK(lists, e)' <=> ListsOK(lists, e)
  BY <1>8, <1>9, <1>10 DEF ListsOK
<1>12. \A call : CallOK(call)' <=> CallOK(call)
  BY <1>3, <1>7, <1>11 DEF CallOK
<1>13. \A ws : Nested(ws)' <=> Nested(ws)
  BY ZenonT(40), <1>1, <1>9, <1>12 DEF Nested
<1>14. \A ws, i, d : Done(ws, i, d)' <=> Done(ws, i, d)
  BY <1>9 DEF Done
<1>15. \A ws, e : Told(ws, e)' <=> Told(ws, e)
  BY <1>2, <1>14 DEF Told
<1>16. \A txt, e, begin, end : Enclosed(txt, e, begin, end)' <=> Enclosed(txt, e, begin, end)
  BY <1>2, <1>3 DEF Enclosed
<1>17. \A txt, e : Asked(txt, e)' <=> Asked(txt, e)
  BY <1>6 DEF Asked
<1>18. \A txt, e : Settled(txt, e)' <=> Settled(txt, e)
  BY <1>7, <1>16, <1>17 DEF Settled
<1>19. \A txt, e, begin : Begun(txt, e, begin)' <=> Begun(txt, e, begin)
  BY <1>2, <1>3 DEF Begun
<1>20. \A txt, e : Opened(txt, e)' <=> Opened(txt, e)
  BY <1>19 DEF Opened
<1>21. \A ws, e : OnPath(ws, e)' <=> OnPath(ws, e)
  BY DEF OnPath
<1>22. \A ws, txt : Generating(ws, txt)' <=> Generating(ws, txt)
  BY <1>3, <1>13, <1>15, <1>18, <1>20, <1>21 DEF Generating
<1> QED
  BY <1>3, <1>18, <1>22

----------------------------------------------------------------------------
(* The theorem.                                                            *)

\* It begins with the file, and nothing written.
LEMMA GenerateBegins == ASSUME TreeInv, BeginGenerate PROVE Generating(writing, text)'
<1> DEFINE call == [entity |-> NoObject, lists |-> <<Direct(<<1>>)>>, need_sep |-> FALSE, access |-> "public"]
           list == Direct(<<1>>)
           lists == <<list>>
<1>1. text' = <<>> /\ writing' = <<call>> /\ UNCHANGED <<entities, file>>
  BY DEF BeginGenerate, StartGenerate, treeVars
<1>2. Forest(entities) /\ 1 \in DOMAIN entities /\ entities[1].kind = "file" /\ Offspring(0)' = {1}
  <2>1. Forest(entities) /\ Len(entities) \in Nat
    BY DEF TreeInv, Forest
  <2> QED
    BY <2>1 DEF Forest, Offspring
<1>3. call.entity = 0 /\ call.lists = lists /\ "entity" \in DOMAIN call /\ "lists" \in DOMAIN call
  BY ParserAssumption
<1>4. list \in ListType /\ list.how = "direct" /\ list.todo = <<1>>
  <2>1. <<1>> \in Seq(Nat)
    BY Z3
  <2> QED
    BY <2>1, WrittenNames DEF Direct, List, ListType, Hows
<1> HIDE DEF list
<1>5. DOMAIN <<1>> = {1} /\ <<1>>[1] = 1
  BY Z3
<1>6. lists \in Seq(ListType) /\ DOMAIN lists = {1} /\ lists[1] = list /\ Len(lists) = 1
  BY <1>4, Z3
<1> HIDE DEF lists
<1>7. \A d : d \in Left(lists) <=> d = 1
  BY <1>4, <1>5, <1>6 DEF Left
<1>8. Unique(lists)
  BY <1>4, <1>5, <1>6 DEF Unique
<1>9. SpecifiersKnown(lists)'
  BY <1>1, <1>2, <1>4, <1>5, <1>6 DEF SpecifiersKnown
<1>10. ListsOK(lists, 0)'
  BY <1>2, <1>4, <1>6, <1>7, <1>8, <1>9 DEF ListsOK
<1>11. <<call>> \in Seq({call}) /\ DOMAIN <<call>> = {1} /\ <<call>>[1] = call /\ Len(<<call>>) = 1
  <2> HIDE DEF call
  <2> QED
    BY Z3
<1> HIDE DEF call
<1> DEFINE ws == <<call>>
<1>12. Listing(ws) /\ DOMAIN ws = {1} /\ ws[1] = call /\ Len(ws) = 1
  BY <1>11, SeqListing
<1> HIDE DEF ws
<1>13. CallOK(call)'
  BY <1>3, <1>10 DEF CallOK
<1>14. Nested(ws)'
  BY <1>3, <1>12, <1>13 DEF Nested
<1>15. \A d : ~Done(ws, 1, d)'
  BY <1>2, <1>3, <1>7, <1>12 DEF Done
<1>16. \A e : ~Told(ws, e)' /\ ~OnPath(ws, e)
  BY <1>12, <1>15 DEF Told, OnPath
<1>17. Listing(<<>>) /\ DOMAIN <<>> = {}
  BY PlainEmpty DEF Plain
<1>18. Generating(ws, <<>>)'
  BY <1>14, <1>16, <1>17 DEF Generating
<1> QED
  BY <1>1, <1>18 DEF ws

\* A step of the generator.
LEMMA GeneratorStep == ASSUME TreeInv, GenInv, GenerateNext PROVE GenInv'
<1>1. UNCHANGED <<entities, file, options>>
  BY DEF GenerateNext, WriteDirect, SkipExcluded, WriteItem, WriteParameter, WriteBase, UpdateAccess, WriteMember,
     FinishList, FinishEntity, FinishGenerate, Unchanged, treeVars
<1>2. CASE FinishGenerate
  <2>1. /\ Listing(text) /\ \A e \in Tree : Settled(text, e)
        /\ \A k \in DOMAIN text : text[k].entity \in Tree
    BY <1>2, GenerateFinished
  <2>2. mode' = "generated" /\ text' = text
    BY <1>2 DEF FinishGenerate
  <2>3. Tree' = Tree /\ \A e : Settled(text, e)' <=> Settled(text, e)
    BY <1>1, <2>2, SameGenerating
  <2>4. Listing(text)' /\ (\A k \in DOMAIN text : text[k].entity \in Tree)' /\ (\A e \in Tree : Settled(text, e))'
    BY <2>1, <2>2, <2>3
  <2> QED
    BY <2>2, <2>4 DEF GenInv
<1>3. CASE ~FinishGenerate
  <2>1. mode' = "generate"
    BY <1>3 DEF GenerateNext, WriteDirect, SkipExcluded, WriteItem, WriteParameter, WriteBase, UpdateAccess, WriteMember,
       FinishList, FinishEntity, InList, Unchanged
  <2>2. Generating(writing', text')
    BY <1>3, DirectWritten, ExcludedSkipped, ItemWritten, ParameterWritten, BaseWritten, SpecifierPassed, MemberWritten,
       ListFinished, EntityFinished DEF GenerateNext
  <2>3. Generating(writing, text)'
    BY <1>1, <2>2, SameGenerating
  <2> QED
    BY <2>1, <2>3 DEF GenInv
<1> QED
  BY <1>2, <1>3

\* Any other step is no part of it, or begins it.
LEMMA NoGeneratorStep ==
    ASSUME TreeInv, GenInv, Parse \/ BeginVisit \/ ContinueVisit \/ BeginGenerate \/ Stop \/ UNCHANGED vars
    PROVE  GenInv'
<1>1. ASSUME mode' \notin {"generate", "generated"} PROVE GenInv'
  BY <1>1 DEF GenInv
<1>2. CASE UNCHANGED vars
  <2>1. UNCHANGED <<mode, entities, file, options, writing, text>>
    BY <1>2 DEF vars, treeVars, generatorVars
  <2>2. mode' = "generate" => Generating(writing, text)'
    <3>1. ASSUME mode = "generate" PROVE Generating(writing', text')
      BY <2>1, <3>1 DEF GenInv
    <3> QED
      BY <2>1, <3>1, SameGenerating
  <2>3. ASSUME mode' = "generated"
        PROVE  Listing(text)' /\ (\A k \in DOMAIN text : text[k].entity \in Tree)' /\ (\A e \in Tree : Settled(text, e))'
    <3>1. Tree' = Tree /\ \A e : Settled(text, e)' <=> Settled(text, e)
      BY <2>1, SameGenerating
    <3> QED
      BY <2>1, <2>3, <3>1 DEF GenInv
  <2> QED
    BY <2>2, <2>3 DEF GenInv
<1>3. CASE Parse
  BY <1>1, <1>3, ParseIsParsing, ParseModes DEF Parse
<1>4. CASE BeginVisit
  BY <1>1, <1>4 DEF BeginVisit, StartVisit
<1>5. CASE ContinueVisit
  BY <1>1, <1>5 DEF ContinueVisit, VisitNext, VisitRoot, VisitChild, LeaveContainer, Visit
<1>6. CASE BeginGenerate
  <2>1. mode' = "generate"
    BY <1>6 DEF BeginGenerate, StartGenerate
  <2> QED
    BY <1>6, <2>1, GenerateBegins DEF GenInv
<1>7. CASE Stop
  BY <1>2, <1>7 DEF Stop
<1> QED
  BY <1>2, <1>3, <1>4, <1>5, <1>6, <1>7

\* What is settled is written once.
LEMMA SettledIsOnce ==
    ASSUME Listing(text), \A e \in Tree : Settled(text, e), NEW e \in Tree
    PROVE  IF Reached(e) /\ OutputTrue(e) /\ entities[e].kind # "access_specifier"
           THEN \E begin, end \in Own(e) :
                  /\ At("begin", e) = {begin} /\ At("end", e) = {end}
                  /\ \A d \in Tree : d = e \/ e \in Ancestors(d) => Own(d) \subseteq begin .. end
           ELSE Own(e) = At("begin", e) /\ Cardinality(Own(e)) <= (IF Reached(e) THEN 1 ELSE 0)
<1>1. DOMAIN text = 1 .. Len(text) /\ Len(text) \in Nat
  BY ListingFacts
<1>2. \A d : Own(d) = MarksOf(text, d)
  BY DEF Own, MarksOf
<1>3. \A mark, d : At(mark, d) = Places(text, mark, d)
  BY <1>2 DEF At, Places
<1>4. CASE Generated(e)
  <2>1. PICK begin, end \in DOMAIN text : Enclosed(text, e, begin, end)
    BY <1>4 DEF Settled
  <2>2. At("begin", e) = {begin} /\ At("end", e) = {end}
    BY <1>3, <2>1 DEF Enclosed
  <2>3. begin \in Own(e) /\ end \in Own(e)
    BY <2>2 DEF At
  <2>4. ASSUME NEW d \in Tree, d = e \/ e \in Ancestors(d) PROVE Own(d) \subseteq begin .. end
    <3>1. SUFFICES ASSUME NEW k \in MarksOf(text, d) PROVE k \in begin .. end
      BY <1>2
    <3>2. begin <= k /\ k <= end
      BY <2>1, <2>4 DEF Enclosed, Line
    <3>3. k \in Nat /\ begin \in Nat /\ end \in Nat
      BY <1>1 DEF MarksOf
    <3> QED
      BY <3>2, <3>3
  <2> QED
    BY <1>4, <2>2, <2>3, <2>4 DEF Generated
<1>5. CASE ~Generated(e)
  <2>1. Asked(text, e)
    BY <1>5 DEF Settled
  <2>2. Own(e) = At("begin", e)
    BY <1>2, <2>1 DEF Asked, At
  <2>3. CASE Own(e) = {}
    <3>1. Cardinality(Own(e)) = 0
      BY <2>3, FS_EmptySet
    <3> QED
      BY <1>5, <2>2, <3>1 DEF Generated
  <2>4. CASE Own(e) # {}
    <3>1. PICK k : k \in Own(e)
      BY <2>4
    <3>2. Own(e) = {k} /\ Reached(e)
      BY <1>2, <2>1, <3>1 DEF Asked
    <3>3. Cardinality({k}) = 1
      BY FS_Singleton
    <3> QED
      BY <1>5, <2>2, <3>2, <3>3 DEF Generated
  <2> QED
    BY <2>3, <2>4
<1> QED
  BY <1>4, <1>5

\* Whatever the file, and whatever is excluded, written by the callback or only declared: in
\* the code that is generated every other entity is written exactly once, between its
\* on_begin and its on_end, and so is all that is below it; of an entity that is excluded
\* there is nothing but the question to the callback, and of what is below nothing.
\* code_generator::output, generate_code_impl and the functions that write lists, over the
\* tree the parser has built.
THEOREM EntitiesWrittenOnce == Spec => []WrittenOnce
<1>1. Init => TreeInv /\ GenInv
  BY TreeInit DEF Init, ParseInit, GenInv
<1>2. TreeInv /\ GenInv /\ [Next]_vars => (TreeInv /\ GenInv)'
  <2>1. SUFFICES ASSUME TreeInv, GenInv, [Next]_vars PROVE TreeInv' /\ GenInv'
    OBVIOUS
  <2>2. CASE GenerateNext
    BY <2>1, <2>2, TreeKept, GeneratorStep
  <2>3. CASE Parse
    BY <2>1, <2>3, ParseStep, NoGeneratorStep DEF Parse
  <2>4. CASE BeginVisit \/ ContinueVisit \/ BeginGenerate \/ Stop \/ UNCHANGED vars
    BY <2>1, <2>4, TreeKept, NoGeneratorStep
  <2> QED
    BY <2>1, <2>2, <2>3, <2>4 DEF Next
<1>3. GenInv => WrittenOnce
  BY SettledIsOnce DEF GenInv, WrittenOnce
<1> QED
  BY <1>1, <1>2, <1>3, PTL DEF Spec
=============================================================================
