---------------------------- MODULE FoldProofs ----------------------------
(***************************************************************************)
(* Facts about FoldLeft(Op, b, q) for an operator Op and the texts q over  *)
(* a set Token of tokens.  A module that folds an operator of its own      *)
(* instantiates this one with it.                                          *)
(***************************************************************************)
EXTENDS SequencesExt, SequenceTheorems, WellFoundedInduction, TLAPS

CONSTANTS
    Token,      \* the elements of the sequences
    Op(_, _)    \* from what has been made of a sequence and its next element

----------------------------------------------------------------------------
(* Induction over the natural numbers, for a set instead of a predicate.    *)

\* A set of numbers that is not empty has a least element.
LEMMA LeastElement ==
    ASSUME NEW T, T \subseteq Nat, T # {}
    PROVE  \E n \in T : \A m \in T : n <= m
<1>1. PICK x \in T : \A y \in T : ~ (<<y, x>> \in OpToRel(<, Nat))
  BY WFMin, NatLessThanWellFounded
<1>2. \A a, b \in Nat : b < a => <<b, a>> \in OpToRel(<, Nat)
  BY DEF OpToRel
<1>3. \A y \in T : ~ (y < x)
  BY <1>1, <1>2
<1>4. \A y \in T : x <= y
  BY <1>3
<1> QED
  BY <1>4

\* Induction, said of a set of numbers.
LEMMA NatSetInduction ==
    ASSUME NEW T, T \subseteq Nat, 0 \in T, \A n \in T : n + 1 \in T
    PROVE  T = Nat
<1> SUFFICES ASSUME Nat \ T # {} PROVE FALSE
  OBVIOUS
<1>1. PICK n \in Nat \ T : \A m \in Nat \ T : n <= m
  BY LeastElement
<1>2. n # 0 /\ n - 1 \in Nat
  BY <1>1
<1>3. n - 1 \in T
  BY <1>1, <1>2
<1> QED
  BY <1>1, <1>2, <1>3

----------------------------------------------------------------------------
(* FoldLeft of Op: the lines of a text, token by token.               *)

\* The empty sequence is the one of length 0.
LEMMA EmptyFacts ==
    ASSUME NEW q \in Seq(Token)
    PROVE  /\ Len(q) \in Nat
           /\ q = <<>> <=> Len(q) = 0
  OBVIOUS

\* Appending an element and concatenating sequences commute.
LEMMA SnocFacts ==
    ASSUME NEW r \in Seq(Token), NEW q \in Seq(Token), NEW x \in Token
    PROVE  r \o Append(q, x) = Append(r \o q, x)
<1>1. <<x>> \in Seq(Token) /\ r \o q \in Seq(Token)
  BY ConcatProperties
<1>2. Append(q, x) = q \o <<x>> /\ Append(r \o q, x) = (r \o q) \o <<x>>
  BY <1>1, AppendIsConcat
<1>3. (r \o q) \o <<x>> = r \o (q \o <<x>>)
  BY <1>1, ConcatAssociative
<1> QED
  BY <1>2, <1>3

Fold(b, q) == FoldLeft(Op, b, q)

\* The function by which FoldLeft goes over the positions of q.
IsIter(b, q, g) ==
    g = [s \in SUBSET (DOMAIN q) |-> IF s = {} THEN b ELSE Op(g[s \ {Max(s)}], q[Max(s)])]

Iter(b, q) ==
    CHOOSE g : g = [s \in SUBSET (DOMAIN q) |->
                        IF s = {} THEN b ELSE Op(g[s \ {Max(s)}], q[Max(s)])]

\* A fold over a sequence iterates over its indices.
LEMMA FoldIsIter == ASSUME NEW b, NEW q PROVE Fold(b, q) = Iter(b, q)[DOMAIN q]
  BY DEF Fold, FoldLeft, MapThenFoldSet, Iter

\* If there is an iteration, the chosen function is one.
LEMMA IterChosen ==
    ASSUME NEW b, NEW q, \E g : IsIter(b, q, g)
    PROVE  IsIter(b, q, Iter(b, q))
  BY DEF Iter, IsIter

\* Max is the greatest element.
LEMMA MaxFacts ==
    ASSUME NEW n \in Nat, NEW s \in SUBSET (1 .. n), s # {}
    PROVE  Max(s) \in s /\ \A i \in s : i <= Max(s)
<1> DEFINE T == {n - i : i \in s}
<1>0. \A i \in s : i \in Int /\ n - i \in Nat
  OBVIOUS
<1>1. T \subseteq Nat /\ T # {}
  BY <1>0
<1>2. PICK d \in T : \A e \in T : d <= e
  BY <1>1, LeastElement
<1>3. PICK m \in s : d = n - m
  BY <1>2
<1>4. \A i \in s : n - m <= n - i
  BY <1>2, <1>3
<1>5. \A i \in s : m >= i
  BY <1>3, <1>4
<1>6. Max(s) \in s /\ \A i \in s : Max(s) >= i
  BY <1>3, <1>5 DEF Max
<1> QED
  BY <1>6

\* A text that is not empty ends with its last token.
LEMMA SnocForm ==
    ASSUME NEW r \in Seq(Token), NEW n \in Nat, Len(r) = n + 1
    PROVE  \E u \in Seq(Token), x \in Token : r = Append(u, x) /\ Len(u) = n
<1> DEFINE u == [i \in 1 .. n |-> r[i]]
<1>1. u \in Seq(Token) /\ Len(u) = n /\ r[n + 1] \in Token
  OBVIOUS
<1>2. Append(u, r[n + 1]) = r
  OBVIOUS
<1> QED
  BY <1>1, <1>2

\* The prefix of the positions before k, without the last of them.
LEMMA PrefixFacts ==
    ASSUME NEW n \in Nat
    PROVE  1 .. n + 1 # {} /\ Max(1 .. n + 1) = n + 1 /\ (1 .. n + 1) \ {n + 1} = 1 .. n
<1>1. 1 .. n + 1 # {} /\ n + 1 \in Nat /\ n + 1 \in 1 .. n + 1
  OBVIOUS
<1>2. Max(1 .. n + 1) \in 1 .. n + 1 /\ \A i \in 1 .. n + 1 : i <= Max(1 .. n + 1)
  BY <1>1, MaxFacts
<1> QED
  BY <1>1, <1>2

\* An iteration over a sequence extends to one element more.
LEMMA IterExtended ==
    ASSUME NEW b, NEW q \in Seq(Token), NEW x \in Token, NEW g, IsIter(b, q, g)
    PROVE  \E h : IsIter(b, Append(q, x), h)
<1> DEFINE n == Len(q)
           a == Append(q, x)
           h == [s \in SUBSET (1 .. n + 1) |->
                    IF n + 1 \in s THEN Op(g[s \ {n + 1}], x) ELSE g[s]]
<1>1. n \in Nat /\ DOMAIN q = 1 .. n /\ DOMAIN a = 1 .. n + 1
      /\ a[n + 1] = x /\ \A i \in 1 .. n : a[i] = q[i]
  OBVIOUS
<1> HIDE DEF n, a
<1>2. ASSUME NEW s \in SUBSET (1 .. n + 1)
      PROVE  h[s] = IF s = {} THEN b ELSE Op(h[s \ {Max(s)}], a[Max(s)])
  <2>1. CASE s = {}
    BY <1>1, <2>1 DEF IsIter
  <2>2. CASE s # {}
    <3>1. Max(s) \in s /\ \A i \in s : i <= Max(s)
      <4>1. n + 1 \in Nat
        BY <1>1
      <4> QED
        BY <2>2, <4>1, MaxFacts
    <3>2. CASE n + 1 \in s
      <4>1. Max(s) = n + 1
        <5>1. Max(s) \in 1 .. n + 1 /\ n + 1 <= Max(s)
          BY <3>1, <3>2
        <5> QED
          BY <1>1, <5>1
      <4>2. s \ {n + 1} \in SUBSET (1 .. n + 1) /\ n + 1 \notin s \ {n + 1}
        OBVIOUS
      <4>3. h[s \ {n + 1}] = g[s \ {n + 1}] /\ h[s] = Op(g[s \ {n + 1}], x)
        BY <3>2, <4>2
      <4> QED
        BY <1>1, <2>2, <4>1, <4>3
    <3>3. CASE n + 1 \notin s
      <4>1. s \in SUBSET (1 .. n) /\ s \ {Max(s)} \in SUBSET (1 .. n) /\ Max(s) \in 1 .. n
        <5>1. \A i \in s : i \in 1 .. n
          <6>1. TAKE i \in s
          <6>2. i \in 1 .. n + 1 /\ i # n + 1
            BY <3>3
          <6> QED
            BY <1>1, <6>2
        <5> QED
          BY <3>1, <5>1
      <4>2. g[s] = Op(g[s \ {Max(s)}], q[Max(s)])
        BY <1>1, <2>2, <4>1 DEF IsIter
      <4>3. h[s] = g[s] /\ h[s \ {Max(s)}] = g[s \ {Max(s)}]
        BY <1>1, <3>3, <4>1
      <4> QED
        BY <1>1, <2>2, <4>1, <4>2, <4>3
    <3> QED
      BY <3>2, <3>3
  <2> QED
    BY <2>1, <2>2
<1>3. h = [s \in SUBSET (DOMAIN a) |-> IF s = {} THEN b ELSE Op(h[s \ {Max(s)}], a[Max(s)])]
  BY <1>1, <1>2
<1> HIDE DEF h
<1>4. IsIter(b, a, h)
  BY <1>3 DEF IsIter
<1> QED
  BY <1>4 DEF a

\* Every sequence has an iteration.
LEMMA IterExists == ASSUME NEW b, NEW q \in Seq(Token) PROVE \E g : IsIter(b, q, g)
<1> DEFINE T == {n \in Nat : \A r \in Seq(Token) : Len(r) = n => \E g : IsIter(b, r, g)}
<1>1. 0 \in T
  <2>1. ASSUME NEW r \in Seq(Token), Len(r) = 0 PROVE \E g : IsIter(b, r, g)
    <3>1. DOMAIN r = {}
      BY <2>1
    <3>2. PICK h : h = [s \in SUBSET {} |-> b]
      OBVIOUS
    <3>3. h = [s \in SUBSET {} |-> IF s = {} THEN b ELSE Op(h[s \ {Max(s)}], r[Max(s)])]
      BY <3>2
    <3> QED
      BY <3>1, <3>3 DEF IsIter
  <2> QED
    BY <2>1
<1>2. ASSUME NEW n \in T PROVE n + 1 \in T
  <2>1. ASSUME NEW r \in Seq(Token), Len(r) = n + 1 PROVE \E g : IsIter(b, r, g)
    <3>1. PICK u \in Seq(Token), x \in Token : r = Append(u, x) /\ Len(u) = n
      BY <2>1, SnocForm
    <3>2. PICK g : IsIter(b, u, g)
      BY <3>1
    <3> QED
      BY <3>1, <3>2, IterExtended
  <2> QED
    BY <2>1
<1>3. T = Nat
  <2> HIDE DEF T
  <2>1. T \subseteq Nat
    BY DEF T
  <2> QED
    BY <1>1, <1>2, <2>1, NatSetInduction
<1> QED
  <2>1. Len(q) \in T
    BY <1>3
  <2> QED
    BY <2>1

\* An iteration takes the greatest index last.
LEMMA IterValue ==
    ASSUME NEW b, NEW q, NEW g, IsIter(b, q, g), NEW s \in SUBSET (DOMAIN q), s # {}
    PROVE  g[s] = Op(g[s \ {Max(s)}], q[Max(s)])
<1>1. PICK F : F = [u \in SUBSET (DOMAIN q) |->
                       IF u = {} THEN b ELSE Op(g[u \ {Max(u)}], q[Max(u)])]
  OBVIOUS
<1>2. g = F
  BY <1>1 DEF IsIter
<1>3. F[s] = Op(g[s \ {Max(s)}], q[Max(s)])
  BY <1>1
<1> QED
  BY <1>2, <1>3

\* A fold over nothing is its base.
LEMMA FoldEmpty == ASSUME NEW b PROVE Fold(b, <<>>) = b
<1>1. IsIter(b, <<>>, Iter(b, <<>>))
  BY IterExists, IterChosen, EmptySeq
<1>2. DOMAIN <<>> = {} /\ {} \in SUBSET {}
  OBVIOUS
<1> QED
  BY <1>1, <1>2, FoldIsIter DEF IsIter

\* Two walks agree on the part their texts have in common.
LEMMA IterPrefix ==
    ASSUME NEW b, NEW q \in Seq(Token), NEW r \in Seq(Token), NEW n \in Nat,
           n <= Len(q), n <= Len(r), \A i \in 1 .. n : q[i] = r[i],
           NEW g, NEW h, IsIter(b, q, g), IsIter(b, r, h)
    PROVE  g[1 .. n] = h[1 .. n]
<1> DEFINE T == {k \in Nat : k <= n => g[1 .. k] = h[1 .. k]}
<1>1. DOMAIN q = 1 .. Len(q) /\ DOMAIN r = 1 .. Len(r) /\ Len(q) \in Nat /\ Len(r) \in Nat
  OBVIOUS
<1>2. 0 \in T
  <2>1. 1 .. 0 = {} /\ {} \in SUBSET (DOMAIN q) /\ {} \in SUBSET (DOMAIN r)
    OBVIOUS
  <2>2. g[{}] = b /\ h[{}] = b
    BY <2>1 DEF IsIter
  <2> QED
    BY <2>1, <2>2
<1>3. ASSUME NEW k \in T PROVE k + 1 \in T
  <2>1. k \in Nat /\ (k <= n => g[1 .. k] = h[1 .. k])
    OBVIOUS
  <2>2. SUFFICES ASSUME k + 1 <= n PROVE g[1 .. k + 1] = h[1 .. k + 1]
    BY <2>1
  <2>3. 1 .. k + 1 # {} /\ Max(1 .. k + 1) = k + 1 /\ (1 .. k + 1) \ {k + 1} = 1 .. k
    BY <2>1, PrefixFacts
  <2>4. 1 .. k + 1 \in SUBSET (DOMAIN q) /\ 1 .. k + 1 \in SUBSET (DOMAIN r) /\ k + 1 \in 1 .. n
    BY <1>1, <2>1, <2>2
  <2>5. g[1 .. k + 1] = Op(g[1 .. k], q[k + 1]) /\ h[1 .. k + 1] = Op(h[1 .. k], r[k + 1])
    BY <2>3, <2>4 DEF IsIter
  <2> QED
    BY <2>1, <2>2, <2>4, <2>5
<1> HIDE DEF T
<1>4. T = Nat
  <2>1. T \subseteq Nat
    BY DEF T
  <2> QED
    BY <1>2, <1>3, <2>1, NatSetInduction
<1> QED
  BY <1>4 DEF T

\* A fold takes the last element last.
LEMMA FoldAppend ==
    ASSUME NEW b, NEW q \in Seq(Token), NEW x \in Token
    PROVE  Fold(b, Append(q, x)) = Op(Fold(b, q), x)
<1> DEFINE a == Append(q, x)
           n == Len(q)
<1>1. /\ a \in Seq(Token) /\ n \in Nat /\ DOMAIN q = 1 .. n /\ DOMAIN a = 1 .. n + 1
      /\ Len(a) = n + 1 /\ a[n + 1] = x /\ \A i \in 1 .. n : a[i] = q[i]
  OBVIOUS
<1>2. IsIter(b, q, Iter(b, q)) /\ IsIter(b, a, Iter(b, a))
  BY <1>1, IterExists, IterChosen
<1> HIDE DEF a, n
<1>3. Iter(b, a)[1 .. n] = Iter(b, q)[1 .. n]
  <2>1. n <= Len(a) /\ n <= Len(q)
    BY <1>1 DEF n
  <2> QED
    BY <1>1, <1>2, <2>1, IterPrefix
<1>4. 1 .. n + 1 # {} /\ Max(1 .. n + 1) = n + 1 /\ (1 .. n + 1) \ {n + 1} = 1 .. n
  BY <1>1, PrefixFacts
<1>5. Iter(b, a)[1 .. n + 1] = Op(Iter(b, a)[1 .. n], x)
  <2>1. 1 .. n + 1 \in SUBSET (DOMAIN a)
    BY <1>1
  <2>2. PICK s \in SUBSET (DOMAIN a) : s = 1 .. n + 1
    BY <2>1
  <2>3. s # {} /\ Max(s) = n + 1 /\ s \ {Max(s)} = 1 .. n
    BY <1>4, <2>2
  <2>4. PICK g : g = Iter(b, a)
    OBVIOUS
  <2>5. IsIter(b, a, g)
    BY <1>2, <2>4
  <2>6. PICK d : d = a
    OBVIOUS
  <2>7. IsIter(b, d, g) /\ s \in SUBSET (DOMAIN d) /\ s # {}
    BY <2>3, <2>5, <2>6
  <2>8. g[s] = Op(g[s \ {Max(s)}], d[Max(s)])
    BY <2>7, IterValue
  <2> QED
    BY <1>1, <2>2, <2>3, <2>4, <2>6, <2>8
<1>6. Fold(b, a) = Iter(b, a)[1 .. n + 1] /\ Fold(b, q) = Iter(b, q)[1 .. n]
  BY <1>1, FoldIsIter
<1> QED
  BY <1>3, <1>5, <1>6 DEF a

\* The walk over a text in two parts is the walk over the second from where the first
\* has led: this is what lets a handler stop at the end of a chunk.
LEMMA FoldConcat ==
    ASSUME NEW b, NEW q \in Seq(Token), NEW r \in Seq(Token)
    PROVE  Fold(b, q \o r) = Fold(Fold(b, q), r)
<1> DEFINE T == {n \in Nat : \A u \in Seq(Token) : Len(u) = n => Fold(b, q \o u) = Fold(Fold(b, q), u)}
<1>1. 0 \in T
  <2>1. ASSUME NEW u \in Seq(Token), Len(u) = 0 PROVE Fold(b, q \o u) = Fold(Fold(b, q), u)
    <3>1. u = <<>> /\ q \o <<>> = q
      BY <2>1, EmptyFacts, ConcatEmptySeq
    <3> QED
      BY <3>1, FoldEmpty
  <2> QED
    BY <2>1
<1>2. ASSUME NEW n \in T PROVE n + 1 \in T
  <2>1. ASSUME NEW u \in Seq(Token), Len(u) = n + 1 PROVE Fold(b, q \o u) = Fold(Fold(b, q), u)
    <3>1. PICK v \in Seq(Token), x \in Token : u = Append(v, x) /\ Len(v) = n
      BY <2>1, SnocForm
    <3>2. q \o Append(v, x) = Append(q \o v, x) /\ q \o v \in Seq(Token)
      BY <3>1, SnocFacts, ConcatProperties
    <3>3. Fold(b, q \o v) = Fold(Fold(b, q), v)
      BY <3>1
    <3>4. Fold(b, Append(q \o v, x)) = Op(Fold(b, q \o v), x)
      BY <3>2, FoldAppend
    <3>5. Fold(Fold(b, q), Append(v, x)) = Op(Fold(Fold(b, q), v), x)
      BY FoldAppend
    <3> QED
      BY <3>1, <3>2, <3>3, <3>4, <3>5
  <2> QED
    BY <2>1
<1>3. T = Nat
  <2> HIDE DEF T
  <2>1. T \subseteq Nat
    BY DEF T
  <2> QED
    BY <1>1, <1>2, <2>1, NatSetInduction
<1> QED
  <2>1. Len(r) \in T
    BY <1>3
  <2> QED
    BY <2>1

=============================================================================
