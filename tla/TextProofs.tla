------------------------------ MODULE TextProofs ------------------------------
(***************************************************************************)
(* Lemmas about cutting text into lines: what LineBufferDecorator does to  *)
(* the text in remainder_ is what Text of DecoratorProperties says of it.  *)
(*                                                                         *)
(* Induction on numbers is done with sets: a set of numbers that contains  *)
(* 0 and with each number the next contains them all.                      *)
(***************************************************************************)
EXTENDS DecoratorProperties, FiniteSetTheorems, WellFoundedInduction, TLAPS

-----------------------------------------------------------------------------
(* Numbers.                                                                *)

\* A set of natural numbers has a least element.
LEMMA LeastNumber ==
    ASSUME NEW T, T \subseteq Nat, T # {}
    PROVE  \E x \in T : \A y \in T : x <= y
<1>1. PICK x \in T : \A y \in T : <<y, x>> \notin OpToRel(<, Nat)
  BY NatLessThanWellFounded, WFMin
<1>2. ASSUME NEW y \in T, ~(x <= y) PROVE FALSE
  <2>1. y < x /\ <<y, x>> \in Nat \X Nat BY <1>2
  <2>2. <<y, x>> \in OpToRel(<, Nat) BY <2>1 DEF OpToRel
  <2> QED BY <1>1, <2>2
<1> QED BY <1>2

\* Induction.
LEMMA EveryNumber ==
    ASSUME NEW T, 0 \in T, \A n \in Nat : n \in T => n + 1 \in T
    PROVE  \A n \in Nat : n \in T
<1> DEFINE Out == {n \in Nat : n \notin T}
<1>1. ASSUME Out # {} PROVE FALSE
  <2>1. PICK x \in Out : \A y \in Out : x <= y BY <1>1, LeastNumber
  <2>2. x \in Nat /\ x # 0 BY <2>1
  <2>3. x - 1 \in Nat BY <2>2
  <2>4. x - 1 \in T BY <2>1, <2>2, <2>3
  <2>5. x - 1 + 1 \in T BY <2>3, <2>4
  <2> QED BY <2>1, <2>2, <2>5
<1> QED BY <1>1

-----------------------------------------------------------------------------
(* The members of a set in ascending order.                                *)

Rising(q) == \A i, j \in DOMAIN q : i < j => q[i] < q[j]

\* q lists the n members of S in ascending order.
Lists(q, n, S) == q \in [1 .. n -> S] /\ Rising(q) /\ \A x \in S : \E i \in 1 .. n : q[i] = x

\* There is such a list of the numbers up to a bound that are in a set.
LEMMA ListExists ==
    ASSUME NEW bound \in Nat, NEW S \in SUBSET (1 .. bound)
    PROVE  \E n \in Nat : \E q : Lists(q, n, S)
<1> DEFINE T == {b \in Nat : \A R \in SUBSET (1 .. b) : \E n \in Nat : \E q : Lists(q, n, R)}
<1>1. 0 \in T
  <2>1. ASSUME NEW R \in SUBSET (1 .. 0) PROVE \E n \in Nat : \E q : Lists(q, n, R)
    <3>1. R = {} OBVIOUS
    <3>2. Lists([i \in 1 .. 0 |-> 0], 0, R) BY <3>1 DEF Lists, Rising
    <3> QED BY <3>2
  <2> QED BY <2>1
<1>2. ASSUME NEW b \in Nat, b \in T PROVE b + 1 \in T
  <2>1. ASSUME NEW R \in SUBSET (1 .. b + 1) PROVE \E n \in Nat : \E q : Lists(q, n, R)
    <3> DEFINE below == R \ {b + 1}
    <3>1. below \in SUBSET (1 .. b) OBVIOUS
    <3>n. PICK n \in Nat : \E q : Lists(q, n, below) BY <1>2, <3>1
    <3>2. PICK q : Lists(q, n, below) BY <3>n
    <3>3. CASE b + 1 \notin R
      <4>1. below = R BY <3>3
      <4> QED BY <3>2, <4>1
    <3>4. CASE b + 1 \in R
      <4> DEFINE p == [i \in 1 .. n + 1 |-> IF i = n + 1 THEN b + 1 ELSE q[i]]
      <4>0. \A i \in 1 .. n + 1 : i = n + 1 \/ i \in 1 .. n OBVIOUS
      <4>1. ASSUME NEW i \in 1 .. n
            PROVE  /\ i \in 1 .. n + 1 /\ i # n + 1 /\ p[i] = q[i] /\ q[i] \in below
                   /\ q[i] < b + 1
        <5>1. i \in 1 .. n + 1 /\ i # n + 1 OBVIOUS
        <5>2. q[i] \in below BY <3>2 DEF Lists
        <5>3. q[i] \in 1 .. b BY <3>1, <5>2
        <5> QED BY <5>1, <5>2, <5>3
      <4>2. p[n + 1] = b + 1 /\ n + 1 \in 1 .. n + 1 OBVIOUS
      <4>3. p \in [1 .. n + 1 -> R] BY <3>4, <4>0, <4>1
      <4>4. Rising(p)
        <5> SUFFICES ASSUME NEW i \in 1 .. n + 1, NEW j \in 1 .. n + 1, i < j PROVE p[i] < p[j]
          BY DEF Rising
        <5>1. i \in 1 .. n OBVIOUS
        <5>2. CASE j = n + 1 BY <4>1, <4>2, <5>1, <5>2
        <5>3. CASE j # n + 1
          <6>1. j \in 1 .. n BY <5>3
          <6> QED BY <3>2, <4>1, <5>1, <6>1 DEF Lists, Rising
        <5> QED BY <5>2, <5>3
      <4>5. \A x \in R : \E i \in 1 .. n + 1 : p[i] = x
        <5>1. ASSUME NEW x \in below PROVE \E i \in 1 .. n + 1 : p[i] = x
          <6>1. PICK i \in 1 .. n : q[i] = x BY <3>2 DEF Lists
          <6> QED BY <4>1, <6>1
        <5> QED BY <4>2, <5>1
      <4> QED BY <4>3, <4>4, <4>5 DEF Lists
    <3> QED BY <3>3, <3>4
  <2> QED BY <2>1
<1>3. \A b \in Nat : b \in T
  <2> HIDE DEF T
  <2> QED BY <1>1, <1>2, EveryNumber
<1> QED BY <1>3

\* Two lists of the same numbers are the same.
LEMMA ListUnique ==
    ASSUME NEW S \in SUBSET Nat, NEW n \in Nat, NEW p, NEW q, Lists(p, n, S), Lists(q, n, S)
    PROVE  p = q
<1> DEFINE Differ == {i \in 1 .. n : p[i] # q[i]}
<1>0. /\ \A i \in 1 .. n : p[i] \in Nat /\ q[i] \in Nat /\ p[i] \in S /\ q[i] \in S
      /\ DOMAIN p = 1 .. n /\ DOMAIN q = 1 .. n
  BY DEF Lists
<1>1. ASSUME Differ # {} PROVE FALSE
  <2>1. PICK i \in Differ : \A j \in Differ : i <= j
    <3>1. Differ \subseteq Nat OBVIOUS
    <3> QED BY <1>1, <3>1, LeastNumber
  <2>2. \A j \in 1 .. n : j < i => p[j] = q[j] BY <2>1
  <2>3. ~(p[i] < q[i])
    <3> SUFFICES ASSUME p[i] < q[i] PROVE FALSE OBVIOUS
    <3>1. PICK j \in 1 .. n : q[j] = p[i] BY <1>0, <2>1 DEF Lists
    <3>2. j < i
      <4>1. i < j => q[i] < q[j] BY <1>0, <2>1 DEF Lists, Rising
      <4>2. q[j] < q[i] BY <3>1
      <4>3. q[i] \in Nat /\ q[j] \in Nat BY <1>0, <2>1
      <4>4. ~(i < j) /\ i # j BY <4>1, <4>2, <4>3
      <4> QED BY <2>1, <4>4
    <3>3. p[j] < p[i] BY <1>0, <2>1, <3>2 DEF Lists, Rising
    <3> QED BY <1>0, <2>1, <2>2, <3>1, <3>2, <3>3
  <2>4. ~(q[i] < p[i])
    <3> SUFFICES ASSUME q[i] < p[i] PROVE FALSE OBVIOUS
    <3>1. PICK j \in 1 .. n : p[j] = q[i] BY <1>0, <2>1 DEF Lists
    <3>2. j < i
      <4>1. i < j => p[i] < p[j] BY <1>0, <2>1 DEF Lists, Rising
      <4>2. p[j] < p[i] BY <3>1
      <4>3. p[i] \in Nat /\ p[j] \in Nat BY <1>0, <2>1
      <4>4. ~(i < j) /\ i # j BY <4>1, <4>2, <4>3
      <4> QED BY <2>1, <4>4
    <3>3. q[j] < q[i] BY <1>0, <2>1, <3>2 DEF Lists, Rising
    <3> QED BY <1>0, <2>1, <2>2, <3>1, <3>2, <3>3
  <2>5. p[i] \in Nat /\ q[i] \in Nat BY <1>0, <2>1
  <2> QED BY <2>1, <2>3, <2>4, <2>5
<1>2. \A i \in 1 .. n : p[i] = q[i] BY <1>1
<1>3. p \in [1 .. n -> S] /\ q \in [1 .. n -> S] BY DEF Lists
<1> QED BY <1>2, <1>3

\* Ascending(S) is the list of S, and its length the cardinality of S.
LEMMA AscendingLists ==
    ASSUME NEW S \in SUBSET Nat, NEW n \in Nat, NEW q, Lists(q, n, S)
    PROVE  Cardinality(S) = n /\ Ascending(S) = q
<1>1. q \in Bijection(1 .. n, S)
  <2>1. q \in [1 .. n -> S] /\ Rising(q) BY DEF Lists
  <2>2. \A i \in 1 .. n : q[i] \in Nat BY <2>1
  <2>3. \A i, j \in 1 .. n : q[i] = q[j] => i = j
    <3> SUFFICES ASSUME NEW i \in 1 .. n, NEW j \in 1 .. n, q[i] = q[j] PROVE i = j OBVIOUS
    <3>1. ~(i < j) /\ ~(j < i) BY <2>1, <2>2 DEF Rising
    <3> QED BY <3>1
  <2> QED BY <2>1, <2>3 DEF Bijection, Injection, Surjection, IsInjective, Lists
<1>2. Cardinality(S) = n BY <1>1, FS_CountingElements DEF ExistsBijection
<1> DEFINE a == Ascending(S)
<1>3. a \in Bijection(1 .. n, S) /\ Rising(a)
  BY <1>1, <1>2 DEF Ascending, Lists, Rising
<1>4. Lists(a, n, S)
  BY <1>3 DEF Lists, Bijection, Injection, Surjection
<1> QED BY <1>2, <1>4, ListUnique

\* The list of a set of numbers up to a bound.
LEMMA AscendingWorks ==
    ASSUME NEW bound \in Nat, NEW S \in SUBSET (1 .. bound)
    PROVE  Cardinality(S) \in Nat /\ Lists(Ascending(S), Cardinality(S), S)
<1>1. S \in SUBSET Nat OBVIOUS
<1> QED BY <1>1, ListExists, AscendingLists

-----------------------------------------------------------------------------
(* Sequences.                                                              *)

\* Two sequences with the same elements are the same.
LEMMA SameElements ==
    ASSUME NEW B, NEW s \in Seq(B), NEW t \in Seq(B), Len(s) = Len(t),
           \A i \in 1 .. Len(s) : s[i] = t[i]
    PROVE  s = t
OBVIOUS

\* What concatenation is, element by element.
LEMMA Concatenation ==
    ASSUME NEW B, NEW s \in Seq(B), NEW t \in Seq(B)
    PROVE  /\ s \o t \in Seq(B) /\ s \o <<>> = s /\ <<>> \o s = s
           /\ Len(s \o t) = Len(s) + Len(t)
           /\ \A i \in 1 .. Len(s) : (s \o t)[i] = s[i]
           /\ \A i \in 1 .. Len(t) : (s \o t)[Len(s) + i] = t[i]
OBVIOUS

\* It is associative.
LEMMA ConcatAssoc ==
    ASSUME NEW B, NEW s \in Seq(B), NEW t \in Seq(B), NEW u \in Seq(B)
    PROVE  (s \o t) \o u = s \o (t \o u)
OBVIOUS

\* What FlattenSeq of a sequence of sequences is after each of them.
Flattens(f, s) == f = [i \in 1 .. Len(s) |-> IF i = 1 THEN s[i] ELSE f[i - 1] \o s[i]]

\* The same of the first n.
FlattensTo(f, s, n, B) ==
    /\ f \in [1 .. n -> Seq(B)]
    /\ \A i \in 1 .. n : f[i] = IF i = 1 THEN s[i] ELSE f[i - 1] \o s[i]

\* One element more.
LEMMA FlattensNext ==
    ASSUME NEW B, NEW s \in Seq(Seq(B)), NEW n \in Nat, n + 1 <= Len(s),
           NEW f, FlattensTo(f, s, n, B)
    PROVE  \E g : FlattensTo(g, s, n + 1, B)
<1> DEFINE new == IF n + 1 = 1 THEN s[n + 1] ELSE f[n] \o s[n + 1]
           g == [i \in 1 .. n + 1 |-> IF i = n + 1 THEN new ELSE f[i]]
<1>1. s[n + 1] \in Seq(B) OBVIOUS
<1>2. n # 0 => f[n] \in Seq(B) BY DEF FlattensTo
<1>3. new \in Seq(B) BY <1>1, <1>2
<1>4. \A i \in 1 .. n + 1 : i = n + 1 \/ i \in 1 .. n OBVIOUS
<1>5. \A i \in 1 .. n : f[i] \in Seq(B) BY DEF FlattensTo
<1>6. g \in [1 .. n + 1 -> Seq(B)] BY <1>3, <1>4, <1>5
<1>7. \A i \in 1 .. n + 1 : g[i] = IF i = 1 THEN s[i] ELSE g[i - 1] \o s[i]
  <2> SUFFICES ASSUME NEW i \in 1 .. n + 1
               PROVE  g[i] = IF i = 1 THEN s[i] ELSE g[i - 1] \o s[i]
    OBVIOUS
  <2>1. CASE i = n + 1
    <3>1. i # 1 => i - 1 = n /\ n \in 1 .. n + 1 /\ n # n + 1 BY <2>1
    <3>2. i # 1 => g[i - 1] = f[n] BY <3>1
    <3>3. g[i] = new BY <2>1
    <3> QED BY <2>1, <3>2, <3>3
  <2>2. CASE i # n + 1
    <3>1. i \in 1 .. n /\ g[i] = f[i] BY <2>2
    <3>2. i # 1 => i - 1 \in 1 .. n + 1 /\ i - 1 # n + 1 BY <3>1
    <3>3. i # 1 => g[i - 1] = f[i - 1] BY <3>2
    <3>4. f[i] = IF i = 1 THEN s[i] ELSE f[i - 1] \o s[i] BY <3>1 DEF FlattensTo
    <3> QED BY <3>1, <3>3, <3>4
  <2> QED BY <2>1, <2>2
<1> HIDE DEF g
<1> QED BY <1>6, <1>7 DEF FlattensTo

\* FlattenSeq's function exists.
LEMMA FlattensExists ==
    ASSUME NEW B, NEW s \in Seq(Seq(B))
    PROVE  \E f \in [1 .. Len(s) -> Seq(B)] : Flattens(f, s)
<1> DEFINE T == {n \in Nat : n <= Len(s) => \E f : FlattensTo(f, s, n, B)}
<1>0. Len(s) \in Nat OBVIOUS
<1>1. 0 \in T
  <2>1. FlattensTo([i \in 1 .. 0 |-> <<>>], s, 0, B) BY DEF FlattensTo
  <2> QED BY <2>1
<1>2. ASSUME NEW n \in Nat, n \in T PROVE n + 1 \in T
  <2>1. ASSUME n + 1 <= Len(s) PROVE \E f : FlattensTo(f, s, n + 1, B)
    <3>1. n <= Len(s) BY <1>0, <2>1
    <3>2. PICK f : FlattensTo(f, s, n, B) BY <1>2, <3>1
    <3> QED BY <2>1, <3>2, FlattensNext
  <2> QED BY <2>1
<1>3. \A n \in Nat : n \in T
  <2> HIDE DEF T
  <2> QED BY <1>1, <1>2, EveryNumber
<1>4. PICK f : FlattensTo(f, s, Len(s), B) BY <1>0, <1>3
<1>5. f \in [1 .. Len(s) -> Seq(B)] BY <1>4 DEF FlattensTo
<1>6. f = [i \in 1 .. Len(s) |-> IF i = 1 THEN s[i] ELSE f[i - 1] \o s[i]]
  <2>1. f = [i \in 1 .. Len(s) |-> f[i]] BY <1>5
  <2>2. \A i \in 1 .. Len(s) : f[i] = IF i = 1 THEN s[i] ELSE f[i - 1] \o s[i]
    BY <1>4 DEF FlattensTo
  <2> QED BY <2>1, <2>2
<1> QED BY <1>5, <1>6 DEF Flattens

\* What it is at an index.
LEMMA FlattensAt ==
    ASSUME NEW s, NEW f, Flattens(f, s), NEW i \in 1 .. Len(s)
    PROVE  f[i] = IF i = 1 THEN s[i] ELSE f[i - 1] \o s[i]
<1> DEFINE G == [j \in 1 .. Len(s) |-> IF j = 1 THEN s[j] ELSE f[j - 1] \o s[j]]
<1>1. G[i] = IF i = 1 THEN s[i] ELSE f[i - 1] \o s[i] OBVIOUS
<1>2. f = G BY DEF Flattens
<1> HIDE DEF G
<1> QED BY <1>1, <1>2

\* Two such functions agree as far as their sequences do.
LEMMA FlattensUnique ==
    ASSUME NEW s, NEW t, NEW f, NEW g, Flattens(f, s), Flattens(g, t),
           NEW n \in Nat, n <= Len(s), n <= Len(t), Len(s) \in Nat, Len(t) \in Nat,
           \A i \in 1 .. n : s[i] = t[i]
    PROVE  \A i \in 1 .. n : f[i] = g[i]
<1> DEFINE T == {m \in Nat : m \in 1 .. n => f[m] = g[m]}
<1>1. 0 \in T OBVIOUS
<1>2. ASSUME NEW m \in Nat, m \in T PROVE m + 1 \in T
  <2>0. ASSUME m + 1 \in 1 .. n PROVE f[m + 1] = g[m + 1]
    <3>1. m + 1 \in 1 .. Len(s) /\ m + 1 \in 1 .. Len(t) /\ m + 1 - 1 = m BY <2>0
    <3>2. f[m + 1] = IF m + 1 = 1 THEN s[m + 1] ELSE f[m] \o s[m + 1]
      <4>1. f[m + 1] = IF m + 1 = 1 THEN s[m + 1] ELSE f[m + 1 - 1] \o s[m + 1]
        BY <3>1, FlattensAt
      <4> QED BY <3>1, <4>1
    <3>3. g[m + 1] = IF m + 1 = 1 THEN t[m + 1] ELSE g[m] \o t[m + 1]
      <4>1. g[m + 1] = IF m + 1 = 1 THEN t[m + 1] ELSE g[m + 1 - 1] \o t[m + 1]
        BY <3>1, FlattensAt
      <4> QED BY <3>1, <4>1
    <3>4. m + 1 # 1 => m \in 1 .. n BY <2>0
    <3>5. m + 1 # 1 => f[m] = g[m] BY <1>2, <3>4
    <3>6. s[m + 1] = t[m + 1] BY <2>0
    <3> QED BY <3>2, <3>3, <3>5, <3>6
  <2> QED BY <2>0
<1>3. \A m \in Nat : m \in T
  <2> HIDE DEF T
  <2> QED BY <1>1, <1>2, EveryNumber
<1> QED BY <1>3

\* Behind the last element of the shorter one, too.
LEMMA FlattensAgree ==
    ASSUME NEW s, NEW t, NEW f, NEW g, Flattens(f, s), Flattens(g, t),
           NEW n \in Nat, Len(s) = n, Len(t) = n + 1,
           \A i \in 1 .. n : s[i] = t[i]
    PROVE  \A i \in 1 .. n : f[i] = g[i]
<1>1. n <= n /\ n <= n + 1 /\ n + 1 \in Nat OBVIOUS
<1> QED BY <1>1, FlattensUnique

\* FlattenSeq is that function at the last index.
LEMMA FlattenIs ==
    ASSUME NEW B, NEW s \in Seq(Seq(B)), s # <<>>, NEW f, Flattens(f, s)
    PROVE  FlattenSeq(s) = f[Len(s)]
<1> DEFINE h == CHOOSE g : g = [i \in 1 .. Len(s) |-> IF i = 1 THEN s[i] ELSE g[i-1] \o s[i]]
<1>1. Len(s) # 0 /\ Len(s) \in Nat OBVIOUS
<1>2. FlattenSeq(s) = h[Len(s)] BY <1>1 DEF FlattenSeq
<1>3. Flattens(h, s) BY DEF Flattens
<1> HIDE DEF h
<1>4. \A i \in 1 .. Len(s) : h[i] = f[i]
  <2>1. \A i \in 1 .. Len(s) : s[i] = s[i] OBVIOUS
  <2> QED BY <1>1, <1>3, <2>1, FlattensUnique
<1>5. Len(s) \in 1 .. Len(s) BY <1>1
<1> QED BY <1>2, <1>4, <1>5

\* FlattenSeq puts its sequences behind one another.
LEMMA FlattenEmpty == FlattenSeq(<<>>) = <<>>
BY DEF FlattenSeq

\* The result is a sequence of the same things.
LEMMA FlattenType ==
    ASSUME NEW B, NEW s \in Seq(Seq(B))
    PROVE  FlattenSeq(s) \in Seq(B)
<1>1. CASE s = <<>>
  <2>1. <<>> \in Seq(B) OBVIOUS
  <2> QED BY <1>1, <2>1, FlattenEmpty
<1>2. CASE s # <<>>
  <2>1. PICK f \in [1 .. Len(s) -> Seq(B)] : Flattens(f, s) BY FlattensExists
  <2>2. FlattenSeq(s) = f[Len(s)] BY <1>2, <2>1, FlattenIs
  <2>3. Len(s) \in 1 .. Len(s) BY <1>2
  <2> QED BY <2>1, <2>2, <2>3
<1> QED BY <1>1, <1>2

\* A sequence more at the end comes behind what there is.
LEMMA FlattenAppend ==
    ASSUME NEW B, NEW s \in Seq(Seq(B)), NEW x \in Seq(B)
    PROVE  FlattenSeq(Append(s, x)) = FlattenSeq(s) \o x
<1> DEFINE t == Append(s, x)
<1>1. t \in Seq(Seq(B)) /\ t # <<>> /\ Len(t) = Len(s) + 1 /\ Len(s) \in Nat
  <2>1. t \in Seq(Seq(B)) OBVIOUS
  <2>2. Len(t) = Len(s) + 1 /\ Len(s) \in Nat OBVIOUS
  <2> HIDE DEF t
  <2>3. t # <<>> BY <2>2
  <2> QED BY <2>1, <2>2, <2>3
<1>2. t[Len(s) + 1] = x OBVIOUS
<1>3. \A i \in 1 .. Len(s) : s[i] = t[i] OBVIOUS
<1> HIDE DEF t
<1>4. PICK g : Flattens(g, t) BY <1>1, FlattensExists
<1>5. FlattenSeq(t) = g[Len(s) + 1] BY <1>1, <1>4, FlattenIs
<1>6. g[Len(s) + 1] = IF Len(s) + 1 = 1 THEN x ELSE g[Len(s)] \o x
  <2>1. Len(s) + 1 \in 1 .. Len(t) /\ Len(s) + 1 - 1 = Len(s) BY <1>1
  <2>2. g[Len(s) + 1] = IF Len(s) + 1 = 1 THEN t[Len(s) + 1]
                        ELSE g[Len(s) + 1 - 1] \o t[Len(s) + 1]
    BY <1>4, <2>1, FlattensAt
  <2> QED BY <1>2, <2>1, <2>2
<1>7. CASE s = <<>>
  <2>1. FlattenSeq(s) \o x = x BY <1>7, FlattenEmpty
  <2>2. Len(s) + 1 = 1 BY <1>7
  <2> QED BY <1>5, <1>6, <2>1, <2>2 DEF t
<1>8. CASE s # <<>>
  <2>1. PICK f : Flattens(f, s) BY FlattensExists
  <2>2. FlattenSeq(s) = f[Len(s)] BY <1>8, <2>1, FlattenIs
  <2>3. Len(s) # 0 BY <1>8
  <2>4. \A i \in 1 .. Len(s) : f[i] = g[i]
    <3>1. Flattens(f, s) /\ Flattens(g, t) BY <1>4, <2>1
    <3>2. Len(s) \in Nat /\ Len(t) = Len(s) + 1 BY <1>1
    <3>3. ASSUME NEW u, NEW n \in Nat, Len(u) = n, \A i \in 1 .. n : u[i] = t[i], Len(t) = n + 1,
                 Flattens(f, u)
          PROVE \A i \in 1 .. n : f[i] = g[i]
      BY <3>1, <3>3, FlattensAgree
    <3> QED BY <1>3, <3>1, <3>2, <3>3
  <2>5. Len(s) \in 1 .. Len(s) /\ Len(s) + 1 # 1 BY <1>1, <2>3
  <2> QED BY <1>5, <1>6, <2>2, <2>4, <2>5 DEF t
<1> QED BY <1>7, <1>8

\* The parts of a concatenation come behind one another.
LEMMA FlattenConcat ==
    ASSUME NEW B, NEW s \in Seq(Seq(B)), NEW t \in Seq(Seq(B))
    PROVE  FlattenSeq(s \o t) = FlattenSeq(s) \o FlattenSeq(t)
<1> DEFINE T == {n \in Nat : \A u \in Seq(Seq(B)) : Len(u) = n
                                => FlattenSeq(s \o u) = FlattenSeq(s) \o FlattenSeq(u)}
<1>1. 0 \in T
  <2>1. ASSUME NEW u \in Seq(Seq(B)), Len(u) = 0
        PROVE  FlattenSeq(s \o u) = FlattenSeq(s) \o FlattenSeq(u)
    <3>1. u = <<>> /\ s \o u = s BY <2>1
    <3>2. FlattenSeq(s) \in Seq(B) BY FlattenType
    <3>3. FlattenSeq(s) \o <<>> = FlattenSeq(s) BY <3>2
    <3> QED BY <3>1, <3>3, FlattenEmpty
  <2> QED BY <2>1
<1>2. ASSUME NEW n \in Nat, n \in T PROVE n + 1 \in T
  <2>1. ASSUME NEW u \in Seq(Seq(B)), Len(u) = n + 1
        PROVE  FlattenSeq(s \o u) = FlattenSeq(s) \o FlattenSeq(u)
    <3> DEFINE v == SubSeq(u, 1, n)
               x == u[n + 1]
    <3>1. v \in Seq(Seq(B)) /\ Len(v) = n /\ x \in Seq(B) BY <2>1
    <3>2. u = Append(v, x) BY <2>1
    <3>3. FlattenSeq(s \o v) = FlattenSeq(s) \o FlattenSeq(v) BY <1>2, <3>1
    <3> HIDE DEF v, x
    <3>4. s \o u = Append(s \o v, x) BY <3>1, <3>2
    <3>5. s \o v \in Seq(Seq(B)) BY <3>1
    <3>6. FlattenSeq(s \o u) = FlattenSeq(s \o v) \o x BY <3>1, <3>4, <3>5, FlattenAppend
    <3>7. FlattenSeq(u) = FlattenSeq(v) \o x BY <3>1, <3>2, FlattenAppend
    <3>8. FlattenSeq(s) \in Seq(B) /\ FlattenSeq(v) \in Seq(B) BY <3>1, FlattenType
    <3>9. (FlattenSeq(s) \o FlattenSeq(v)) \o x = FlattenSeq(s) \o (FlattenSeq(v) \o x)
      BY <3>1, <3>8, ConcatAssoc
    <3> QED BY <3>3, <3>6, <3>7, <3>9
  <2> QED BY <2>1
<1>3. \A n \in Nat : n \in T
  <2> HIDE DEF T
  <2> QED BY <1>1, <1>2, EveryNumber
<1>4. Len(t) \in T BY <1>3
<1> QED BY <1>4

-----------------------------------------------------------------------------
(* Text(s) picks the bytes of s at the positions Keep(s), in order.        *)

Pick(s, K) == [i \in 1 .. Cardinality(K) |-> s[Ascending(K)[i]]]

\* With a list of the positions at hand.
LEMMA PickIs ==
    ASSUME NEW B, NEW s \in Seq(B), NEW K \in SUBSET DOMAIN s,
           NEW n \in Nat, NEW q, Lists(q, n, K)
    PROVE  /\ Pick(s, K) = [i \in 1 .. n |-> s[q[i]]]
           /\ Pick(s, K) \in Seq(B)
           /\ Len(Pick(s, K)) = n
<1>1. K \in SUBSET Nat OBVIOUS
<1>2. Cardinality(K) = n /\ Ascending(K) = q BY <1>1, AscendingLists
<1>3. \A i \in 1 .. n : q[i] \in DOMAIN s BY DEF Lists
<1>4. Pick(s, K) = [i \in 1 .. n |-> s[q[i]]] BY <1>2 DEF Pick
<1>5. \A i \in 1 .. n : s[q[i]] \in B BY <1>3
<1> QED BY <1>4, <1>5

\* The positions in a sequence have a list.
LEMMA PositionsListed ==
    ASSUME NEW B, NEW s \in Seq(B), NEW K \in SUBSET DOMAIN s
    PROVE  Cardinality(K) \in Nat /\ Lists(Ascending(K), Cardinality(K), K)
<1>1. Len(s) \in Nat /\ K \in SUBSET (1 .. Len(s)) OBVIOUS
<1> QED BY <1>1, AscendingWorks

\* M is the positions K and, behind the first m, the positions L.
Splits(M, K, L, m) == M = K \cup {m + i : i \in L}

\* Two lists behind one another.
LEMMA ListConcat ==
    ASSUME NEW m \in Nat, NEW K \in SUBSET (1 .. m), NEW L \in SUBSET (Nat \ {0}),
           NEW a \in Nat, NEW b \in Nat, NEW p, NEW q, Lists(p, a, K), Lists(q, b, L)
    PROVE  Lists([i \in 1 .. a + b |-> IF i <= a THEN p[i] ELSE m + q[i - a]], a + b,
                 K \cup {m + i : i \in L})
<1> DEFINE r == [i \in 1 .. a + b |-> IF i <= a THEN p[i] ELSE m + q[i - a]]
           M == K \cup {m + i : i \in L}
<1>1. ASSUME NEW i \in 1 .. a
      PROVE  i \in 1 .. a + b /\ r[i] = p[i] /\ p[i] \in K /\ p[i] \in 1 .. m
  <2>1. i \in 1 .. a + b /\ i <= a OBVIOUS
  <2>2. p[i] \in K BY DEF Lists
  <2> QED BY <2>1, <2>2
<1>2. ASSUME NEW i \in 1 .. a + b, ~(i <= a)
      PROVE  /\ i - a \in 1 .. b /\ r[i] = m + q[i - a]
             /\ q[i - a] \in L /\ q[i - a] \in Nat /\ q[i - a] > 0
  <2>1. i - a \in 1 .. b BY <1>2
  <2>2. q[i - a] \in L BY <2>1 DEF Lists
  <2>3. r[i] = m + q[i - a] BY <1>2
  <2>4. q[i - a] \in Nat /\ q[i - a] > 0
    <3>1. \A x \in L : x \in Nat /\ x > 0 OBVIOUS
    <3> QED BY <2>2, <3>1
  <2> QED BY <2>1, <2>2, <2>3, <2>4
<1>3. ASSUME NEW i \in 1 .. b PROVE a + i \in 1 .. a + b /\ r[a + i] = m + q[i]
  <2>1. a + i \in 1 .. a + b /\ ~(a + i <= a) /\ a + i - a = i OBVIOUS
  <2> QED BY <2>1
<1>4. DOMAIN r = 1 .. a + b OBVIOUS
<1>5. r = [i \in 1 .. a + b |-> r[i]] OBVIOUS
<1> HIDE DEF r
<1>6. \A i \in 1 .. a + b : r[i] \in M
  <2> SUFFICES ASSUME NEW i \in 1 .. a + b PROVE r[i] \in M OBVIOUS
  <2>1. CASE i <= a
    <3>1. i \in 1 .. a BY <2>1
    <3> QED BY <1>1, <3>1
  <2>2. CASE ~(i <= a) BY <1>2, <2>2
  <2> QED BY <2>1, <2>2
<1>7. r \in [1 .. a + b -> M] BY <1>5, <1>6
<1>8. Rising(r)
  <2> SUFFICES ASSUME NEW i \in 1 .. a + b, NEW j \in 1 .. a + b, i < j PROVE r[i] < r[j]
    BY <1>4 DEF Rising
  <2>1. CASE j <= a
    <3>1. i \in 1 .. a /\ j \in 1 .. a BY <2>1
    <3>2. p[i] < p[j] BY <3>1 DEF Lists, Rising
    <3> QED BY <1>1, <3>1, <3>2
  <2>2. CASE ~(j <= a)
    <3>1. r[j] = m + q[j - a] /\ q[j - a] \in Nat /\ q[j - a] > 0 BY <1>2, <2>2
    <3>2. CASE i <= a
      <4>1. i \in 1 .. a BY <3>2
      <4>2. r[i] \in 1 .. m BY <1>1, <4>1
      <4> QED BY <3>1, <4>2
    <3>3. CASE ~(i <= a)
      <4>1. i - a \in 1 .. b /\ j - a \in 1 .. b /\ i - a < j - a BY <2>2, <3>3
      <4>2. q[i - a] < q[j - a] BY <4>1 DEF Lists, Rising
      <4>3. r[i] = m + q[i - a] /\ q[i - a] \in Nat BY <1>2, <3>3
      <4> QED BY <3>1, <4>2, <4>3
    <3> QED BY <3>2, <3>3
  <2> QED BY <2>1, <2>2
<1>9. \A x \in M : \E i \in 1 .. a + b : r[i] = x
  <2>1. ASSUME NEW x \in K PROVE \E i \in 1 .. a + b : r[i] = x
    <3>1. PICK i \in 1 .. a : p[i] = x BY DEF Lists
    <3> QED BY <1>1, <3>1
  <2>2. ASSUME NEW y \in L PROVE \E i \in 1 .. a + b : r[i] = m + y
    <3>1. PICK i \in 1 .. b : q[i] = y BY DEF Lists
    <3> QED BY <1>3, <3>1
  <2> QED BY <2>1, <2>2
<1>10. Lists(r, a + b, M) BY <1>7, <1>8, <1>9 DEF Lists
<1> QED BY <1>10 DEF r

\* Picking from a concatenation.
LEMMA PickConcat ==
    ASSUME NEW B, NEW s \in Seq(B), NEW t \in Seq(B),
           NEW K \in SUBSET DOMAIN s, NEW L \in SUBSET DOMAIN t,
           NEW M, Splits(M, K, L, Len(s))
    PROVE  Pick(s \o t, M) = Pick(s, K) \o Pick(t, L)
<1> DEFINE m == Len(s)
           a == Cardinality(K)
           b == Cardinality(L)
           p == Ascending(K)
           q == Ascending(L)
           r == [i \in 1 .. a + b |-> IF i <= a THEN p[i] ELSE m + q[i - a]]
<1>1. a \in Nat /\ b \in Nat /\ Lists(p, a, K) /\ Lists(q, b, L) BY PositionsListed
<1>2. m \in Nat /\ K \in SUBSET (1 .. m) /\ L \in SUBSET (Nat \ {0}) OBVIOUS
<1>3. s \o t \in Seq(B) /\ DOMAIN (s \o t) = 1 .. Len(s) + Len(t) /\ Len(t) \in Nat OBVIOUS
<1>4. M \in SUBSET DOMAIN (s \o t)
  <2>1. \A i \in L : m + i \in 1 .. Len(s) + Len(t) OBVIOUS
  <2> QED BY <1>3, <2>1 DEF Splits
<1>5. /\ Pick(s, K) = [i \in 1 .. a |-> s[p[i]]]
      /\ Pick(s, K) \in Seq(B) /\ Len(Pick(s, K)) = a
  BY <1>1, PickIs
<1>6. /\ Pick(t, L) = [i \in 1 .. b |-> t[q[i]]]
      /\ Pick(t, L) \in Seq(B) /\ Len(Pick(t, L)) = b
  BY <1>1, PickIs
<1>7. \A i \in 1 .. a : p[i] \in DOMAIN s BY <1>1 DEF Lists
<1>8. \A i \in 1 .. b : q[i] \in DOMAIN t BY <1>1 DEF Lists
<1> HIDE DEF a, b, p, q
<1>9. Lists(r, a + b, M)
  <2>1. Lists(r, a + b, K \cup {m + i : i \in L}) BY <1>1, <1>2, ListConcat
  <2> QED BY <2>1 DEF Splits
<1>10. \A i \in 1 .. a + b : r[i] = IF i <= a THEN p[i] ELSE m + q[i - a] OBVIOUS
<1> HIDE DEF r
<1>11. /\ Pick(s \o t, M) = [i \in 1 .. a + b |-> (s \o t)[r[i]]]
       /\ Pick(s \o t, M) \in Seq(B) /\ Len(Pick(s \o t, M)) = a + b
  <2> DEFINE u == s \o t
             n == a + b
  <2>1. n \in Nat BY <1>1
  <2>2. u \in Seq(B) /\ M \in SUBSET DOMAIN u BY <1>3, <1>4
  <2> HIDE DEF u, n
  <2>3. Lists(r, n, M) BY <1>9 DEF n
  <2>4. Pick(u, M) = [i \in 1 .. n |-> u[r[i]]] /\ Pick(u, M) \in Seq(B) /\ Len(Pick(u, M)) = n
    BY <2>1, <2>2, <2>3, PickIs
  <2> QED BY <2>4 DEF u, n
<1>12. /\ Pick(s, K) \o Pick(t, L) \in Seq(B)
       /\ Len(Pick(s, K) \o Pick(t, L)) = a + b
       /\ \A i \in 1 .. a : (Pick(s, K) \o Pick(t, L))[i] = Pick(s, K)[i]
       /\ \A i \in 1 .. b : (Pick(s, K) \o Pick(t, L))[a + i] = Pick(t, L)[i]
  <2> DEFINE u == Pick(s, K)
             v == Pick(t, L)
  <2>1. u \in Seq(B) /\ Len(u) = a /\ v \in Seq(B) /\ Len(v) = b BY <1>5, <1>6
  <2> HIDE DEF u, v
  <2>2. u \o v \in Seq(B) /\ Len(u \o v) = a + b BY <2>1
  <2>3. \A i \in 1 .. a : (u \o v)[i] = u[i] BY <2>1
  <2>4. \A i \in 1 .. b : (u \o v)[a + i] = v[i] BY <2>1
  <2> QED BY <2>2, <2>3, <2>4 DEF u, v
<1>13. \A i \in 1 .. a + b : Pick(s \o t, M)[i] = (Pick(s, K) \o Pick(t, L))[i]
  <2> SUFFICES ASSUME NEW i \in 1 .. a + b
               PROVE  Pick(s \o t, M)[i] = (Pick(s, K) \o Pick(t, L))[i]
    OBVIOUS
  <2>1. Pick(s \o t, M)[i] = (s \o t)[r[i]] BY <1>11
  <2>2. CASE i <= a
    <3>1. i \in 1 .. a BY <1>1, <2>2
    <3>2. r[i] = p[i] /\ p[i] \in 1 .. Len(s) BY <1>7, <1>10, <2>2, <3>1
    <3>3. (s \o t)[p[i]] = s[p[i]] BY <3>2, Concatenation
    <3>4. Pick(s, K)[i] = s[p[i]] BY <1>5, <3>1
    <3> QED BY <1>12, <2>1, <3>1, <3>2, <3>3, <3>4
  <2>3. CASE ~(i <= a)
    <3> DEFINE j == i - a
    <3>1. j \in 1 .. b /\ a + j = i BY <1>1, <2>3
    <3>2. r[i] = m + q[j] /\ q[j] \in 1 .. Len(t) BY <1>8, <1>10, <2>3, <3>1
    <3>3. (s \o t)[m + q[j]] = t[q[j]] BY <3>2, Concatenation
    <3>4. Pick(t, L)[j] = t[q[j]] BY <1>6, <3>1
    <3>5. (Pick(s, K) \o Pick(t, L))[a + j] = Pick(t, L)[j] BY <1>12, <3>1
    <3> QED BY <2>1, <3>1, <3>2, <3>3, <3>4, <3>5
  <2> QED BY <2>2, <2>3
<1>14. Pick(s \o t, M) = Pick(s, K) \o Pick(t, L)
  BY <1>1, <1>11, <1>12, <1>13, SameElements
<1> QED BY <1>14


-----------------------------------------------------------------------------
(* What a reader sees of a text.                                           *)

\* Text(s) is a text of the same bytes.
LEMMA TextType ==
    ASSUME NEW B, NEW s \in Seq(B)
    PROVE  Text(s) = Pick(s, Keep(s)) /\ Text(s) \in Seq(B) /\ Keep(s) \in SUBSET DOMAIN s
<1>1. Text(s) = Pick(s, Keep(s)) BY DEF Text, Pick
<1>2. Keep(s) \in SUBSET DOMAIN s BY DEF Keep
<1>3. Cardinality(Keep(s)) \in Nat /\ Lists(Ascending(Keep(s)), Cardinality(Keep(s)), Keep(s))
  BY <1>2, PositionsListed
<1> QED BY <1>1, <1>2, <1>3, PickIs

\* Nothing is seen of an incomplete line.
LEMMA TextFree ==
    ASSUME NEW B, NEW s \in Seq(B), ~HasNewline(s)
    PROVE  Text(s) = <<>>
<1>1. Len(s) \in Nat /\ DOMAIN s = 1 .. Len(s) OBVIOUS
<1>2. Keep(s) = {}
  <2>1. ASSUME NEW i \in Keep(s) PROVE FALSE
    <3>1. i \in 1 .. Len(s) BY <1>1 DEF Keep
    <3>2. PICK j \in i .. Len(s) : s[j] = LF BY DEF Keep
    <3>3. j \in DOMAIN s BY <1>1, <3>1, <3>2
    <3> QED BY <3>2, <3>3 DEF HasNewline
  <2> QED BY <2>1
<1>3. Lists([i \in 1 .. 0 |-> 0], 0, Keep(s)) BY <1>2 DEF Lists, Rising
<1>4. Pick(s, Keep(s)) \in Seq(B) /\ Len(Pick(s, Keep(s))) = 0
  <2>1. Keep(s) \in SUBSET DOMAIN s BY <1>2
  <2> QED BY <1>3, <2>1, PickIs
<1>5. Pick(s, Keep(s)) = <<>>
  <2> DEFINE u == Pick(s, Keep(s))
  <2>1. u \in Seq(B) /\ Len(u) = 0 BY <1>4
  <2> HIDE DEF u
  <2>2. u = <<>> BY <2>1
  <2> QED BY <2>2 DEF u
<1> QED BY <1>5, TextType

\* What ends a line: nothing at all, or a newline.
Whole(s) == s = <<>> \/ s[Len(s)] = LF

\* Whole lines are seen by themselves, whatever follows.
LEMMA TextConcat ==
    ASSUME NEW B, NEW s \in Seq(B), NEW t \in Seq(B), Whole(s)
    PROVE  Text(s \o t) = Text(s) \o Text(t)
<1> DEFINE u == s \o t
           m == Len(s)
<1>1. /\ m \in Nat /\ Len(t) \in Nat /\ DOMAIN s = 1 .. m /\ DOMAIN t = 1 .. Len(t)
      /\ u \in Seq(B) /\ Len(u) = m + Len(t) /\ DOMAIN u = 1 .. m + Len(t)
  OBVIOUS
<1>2. \A i \in 1 .. m : u[i] = s[i] OBVIOUS
<1>3. \A i \in 1 .. Len(t) : u[m + i] = t[i] OBVIOUS
<1>4. m # 0 => s[m] = LF BY DEF Whole
<1> HIDE DEF u, m
<1>5. ASSUME NEW i \in 1 .. m PROVE i \in Keep(u) <=> i \in Keep(s)
  <2>1. m # 0 /\ m \in i .. m /\ i \in DOMAIN u /\ m \in i .. Len(u) BY <1>1
  <2>2. s[m] = LF /\ u[m] = LF BY <1>1, <1>2, <1>4, <2>1
  <2>3. (\E j \in i .. Len(s) : s[j] = LF) /\ (\E j \in i .. Len(u) : u[j] = LF)
    BY <2>1, <2>2 DEF m
  <2>4. CASE i = m
    <3>1. s[i] # CR /\ u[i] # CR BY <2>2, <2>4, LineAssumption
    <3> QED BY <1>1, <2>1, <2>3, <3>1 DEF Keep
  <2>5. CASE i # m
    <3>1. i + 1 \in 1 .. m BY <1>1, <2>5
    <3>2. u[i] = s[i] /\ u[i + 1] = s[i + 1] BY <1>2, <3>1
    <3> QED BY <1>1, <2>1, <2>3, <3>2 DEF Keep
  <2> QED BY <2>4, <2>5
<1>6. ASSUME NEW i \in 1 .. Len(t) PROVE m + i \in Keep(u) <=> i \in Keep(t)
  <2>1. m + i \in DOMAIN u /\ i \in DOMAIN t /\ u[m + i] = t[i] BY <1>1, <1>3
  <2>2. (\E j \in m + i .. Len(u) : u[j] = LF) <=> (\E j \in i .. Len(t) : t[j] = LF)
    <3>1. ASSUME NEW j \in m + i .. Len(u), u[j] = LF PROVE \E k \in i .. Len(t) : t[k] = LF
      <4>1. j - m \in i .. Len(t) /\ j - m \in 1 .. Len(t) /\ m + (j - m) = j BY <1>1
      <4>2. t[j - m] = LF BY <1>3, <3>1, <4>1
      <4> QED BY <4>1, <4>2
    <3>2. ASSUME NEW j \in i .. Len(t), t[j] = LF PROVE \E k \in m + i .. Len(u) : u[k] = LF
      <4>1. m + j \in m + i .. Len(u) /\ j \in 1 .. Len(t) BY <1>1
      <4>2. u[m + j] = LF BY <1>3, <3>2, <4>1
      <4> QED BY <4>1, <4>2
    <3> QED BY <3>1, <3>2
  <2>3. CASE i = Len(t)
    <3>1. (\E j \in i .. Len(t) : t[j] = LF) => t[i] = LF BY <1>1, <2>3
    <3>2. t[i] = LF => t[i] # CR BY LineAssumption
    <3> QED BY <2>1, <2>2, <3>1, <3>2 DEF Keep
  <2>4. CASE i # Len(t)
    <3>1. i + 1 \in 1 .. Len(t)
      <4>1. Len(t) \in Nat BY <1>1
      <4> QED BY <2>4, <4>1
    <3>2. u[m + (i + 1)] = t[i + 1] BY <1>3, <3>1
    <3>3. m + (i + 1) = m + i + 1 BY <1>1
    <3>4. u[m + i + 1] = t[i + 1] BY <3>2, <3>3
    <3> QED BY <2>1, <2>2, <3>4 DEF Keep
  <2> QED BY <2>3, <2>4
<1>7. Keep(s) \in SUBSET (1 .. m) /\ Keep(t) \in SUBSET (1 .. Len(t))
      /\ Keep(u) \in SUBSET (1 .. m + Len(t))
  BY <1>1 DEF Keep
<1>8. Keep(u) = Keep(s) \cup {m + i : i \in Keep(t)}
  <2>1. ASSUME NEW x \in Keep(u) PROVE x \in Keep(s) \cup {m + i : i \in Keep(t)}
    <3>1. CASE x \in 1 .. m BY <1>5, <3>1
    <3>2. CASE x \notin 1 .. m
      <4>1. x - m \in 1 .. Len(t) /\ m + (x - m) = x BY <1>1, <1>7, <3>2
      <4>2. x - m \in Keep(t) BY <1>6, <4>1
      <4> QED BY <4>1, <4>2
    <3> QED BY <3>1, <3>2
  <2>2. ASSUME NEW x \in Keep(s) PROVE x \in Keep(u) BY <1>5, <1>7
  <2>3. ASSUME NEW i \in Keep(t) PROVE m + i \in Keep(u) BY <1>6, <1>7
  <2> QED BY <2>1, <2>2, <2>3
<1>9. Pick(u, Keep(u)) = Pick(s, Keep(s)) \o Pick(t, Keep(t))
  <2>1. Keep(s) \in SUBSET DOMAIN s /\ Keep(t) \in SUBSET DOMAIN t BY DEF Keep
  <2>2. Splits(Keep(u), Keep(s), Keep(t), Len(s)) BY <1>8 DEF Splits, m
  <2>3. Pick(s \o t, Keep(u)) = Pick(s, Keep(s)) \o Pick(t, Keep(t)) BY <2>1, <2>2, PickConcat
  <2> QED BY <2>3 DEF u
<1>10. Text(u) = Pick(u, Keep(u)) /\ Text(s) = Pick(s, Keep(s)) /\ Text(t) = Pick(t, Keep(t))
  BY <1>1, TextType
<1> QED BY <1>9, <1>10 DEF u


-----------------------------------------------------------------------------
(* Prefixes and suffixes.                                                  *)

\* What something is appended to is a prefix, and what is appended a suffix.
LEMMA PrefixOfConcat ==
    ASSUME NEW B, NEW s \in Seq(B), NEW t \in Seq(B)
    PROVE  IsPrefix(s, s \o t)
<1>1. Len(s) \in Nat /\ Len(t) \in Nat /\ Len(s \o t) = Len(s) + Len(t) OBVIOUS
<1>2. SubSeq(s, 1, Len(s)) = SubSeq(s \o t, 1, Len(s)) OBVIOUS
<1> QED BY <1>1, <1>2 DEF IsPrefix

\* The reverse of a concatenation begins with the reverse of its end.
LEMMA SuffixOfConcat ==
    ASSUME NEW B, NEW s \in Seq(B), NEW t \in Seq(B)
    PROVE  IsSuffix(t, s \o t)
<1> DEFINE u == s \o t
           rt == Reverse(t)
           ru == Reverse(u)
<1>1. /\ Len(s) \in Nat /\ Len(t) \in Nat /\ Len(u) = Len(s) + Len(t) /\ u \in Seq(B)
      /\ \A i \in 1 .. Len(t) : u[Len(s) + i] = t[i]
      /\ \A i \in 1 .. Len(t) : t[i] \in B
      /\ \A i \in 1 .. Len(u) : u[i] \in B
  OBVIOUS
<1> HIDE DEF u
<1>2. \A i \in 1 .. Len(t) : rt[i] = t[Len(t) - i + 1] BY DEF Reverse
<1>3. \A i \in 1 .. Len(u) : ru[i] = u[Len(u) - i + 1] BY DEF Reverse
<1>4. rt \in Seq(B) /\ Len(rt) = Len(t)
  <2>1. rt = [i \in 1 .. Len(t) |-> t[Len(t) - i + 1]] BY DEF Reverse
  <2>2. \A i \in 1 .. Len(t) : t[Len(t) - i + 1] \in B
    <3>1. \A i \in 1 .. Len(t) : Len(t) - i + 1 \in 1 .. Len(t) BY <1>1
    <3> QED BY <1>1, <3>1
  <2> QED BY <1>1, <2>1, <2>2
<1>5. ru \in Seq(B) /\ Len(ru) = Len(u)
  <2>1. ru = [i \in 1 .. Len(u) |-> u[Len(u) - i + 1]] BY DEF Reverse
  <2>2. \A i \in 1 .. Len(u) : u[Len(u) - i + 1] \in B
    <3>1. \A i \in 1 .. Len(u) : Len(u) - i + 1 \in 1 .. Len(u) BY <1>1
    <3> QED BY <1>1, <3>1
  <2> QED BY <1>1, <2>1, <2>2
<1> HIDE DEF rt, ru
<1>6. \A i \in 1 .. Len(t) : rt[i] = ru[i]
  <2> SUFFICES ASSUME NEW i \in 1 .. Len(t) PROVE rt[i] = ru[i] OBVIOUS
  <2>1. i \in 1 .. Len(u) /\ Len(t) - i + 1 \in 1 .. Len(t) BY <1>1
  <2>2. Len(u) - i + 1 = Len(s) + (Len(t) - i + 1) BY <1>1
  <2>3. u[Len(s) + (Len(t) - i + 1)] = t[Len(t) - i + 1] BY <1>1, <2>1
  <2> QED BY <1>2, <1>3, <2>1, <2>2, <2>3
<1>7. SubSeq(rt, 1, Len(t)) = SubSeq(ru, 1, Len(t))
  <2> DEFINE x == SubSeq(rt, 1, Len(t))
             y == SubSeq(ru, 1, Len(t))
  <2>1. x \in Seq(B) /\ Len(x) = Len(t) /\ \A i \in 1 .. Len(t) : x[i] = rt[i] BY <1>1, <1>4
  <2>2. y \in Seq(B) /\ Len(y) = Len(t) /\ \A i \in 1 .. Len(t) : y[i] = ru[i]
    BY <1>1, <1>5
  <2> HIDE DEF x, y
  <2>3. \A i \in 1 .. Len(x) : x[i] = y[i] BY <1>6, <2>1, <2>2
  <2>4. x = y BY <2>1, <2>2, <2>3, SameElements
  <2> QED BY <2>4 DEF x, y
<1>8. IsPrefix(rt, ru) BY <1>1, <1>4, <1>5, <1>7 DEF IsPrefix
<1> QED BY <1>8 DEF IsSuffix, rt, ru, u


-----------------------------------------------------------------------------
(* Cutting a text at its newlines.                                         *)

\* The two parts a sequence is cut into at m.
LEMMA Halves ==
    ASSUME NEW B, NEW s \in Seq(B), NEW m \in 0 .. Len(s)
    PROVE  /\ SubSeq(s, 1, m) \in Seq(B) /\ Len(SubSeq(s, 1, m)) = m
           /\ SubSeq(s, m + 1, Len(s)) \in Seq(B)
           /\ Len(SubSeq(s, m + 1, Len(s))) = Len(s) - m
           /\ \A i \in 1 .. Len(SubSeq(s, m + 1, Len(s))) : SubSeq(s, m + 1, Len(s))[i] = s[m + i]
           /\ s = SubSeq(s, 1, m) \o SubSeq(s, m + 1, Len(s))
<1> DEFINE p == SubSeq(s, 1, m)
           r == SubSeq(s, m + 1, Len(s))
<1>1. Len(s) \in Nat /\ m \in Nat /\ m <= Len(s) OBVIOUS
<1>2. p \in Seq(B) /\ Len(p) = m BY <1>1
<1>3. \A i \in 1 .. m : p[i] = s[i] BY <1>1
<1>4. r \in Seq(B) BY <1>1
<1>5. Len(r) = Len(s) - m BY <1>1
<1>6. \A i \in 1 .. Len(s) - m : r[i] = s[m + i] BY <1>1
<1> HIDE DEF p, r
<1>7. p \o r \in Seq(B) /\ Len(p \o r) = Len(s) BY <1>1, <1>2, <1>4, <1>5
<1>8. \A i \in 1 .. Len(s) : (p \o r)[i] = s[i]
  <2> SUFFICES ASSUME NEW i \in 1 .. Len(s) PROVE (p \o r)[i] = s[i] OBVIOUS
  <2>1. CASE i <= m
    <3>1. (p \o r)[i] = p[i] /\ i \in 1 .. m BY <1>1, <1>2, <1>4, <2>1
    <3> QED BY <1>3, <3>1
  <2>2. CASE ~(i <= m)
    <3>1. i - m \in 1 .. Len(s) - m /\ m + (i - m) = i BY <1>1, <2>2
    <3>2. (p \o r)[i] = r[i - m] BY <1>1, <1>2, <1>4, <1>5, <2>2, <3>1
    <3> QED BY <1>6, <3>1, <3>2
  <2> QED BY <2>1, <2>2
<1>9. p \o r = s BY <1>7, <1>8, SameElements
<1> QED BY <1>2, <1>4, <1>5, <1>6, <1>9 DEF p, r

\* Newlines(s) lists where they are.
LEMMA NewlinesAre ==
    ASSUME NEW B, NEW s \in Seq(B)
    PROVE  /\ Newlines(s) \in Seq(Nat)
           /\ \A k \in 1 .. Len(Newlines(s)) : /\ Newlines(s)[k] \in 1 .. Len(s)
                                               /\ s[Newlines(s)[k]] = LF
           /\ \A i \in 1 .. Len(s) : s[i] = LF
                  => \E k \in 1 .. Len(Newlines(s)) : Newlines(s)[k] = i
           /\ \A j, k \in 1 .. Len(Newlines(s)) : j < k => Newlines(s)[j] < Newlines(s)[k]
<1> DEFINE S == {i \in DOMAIN s : s[i] = LF}
           nl == Newlines(s)
           n == Cardinality(S)
<1>1. S \in SUBSET DOMAIN s /\ DOMAIN s = 1 .. Len(s) /\ Len(s) \in Nat OBVIOUS
<1>2. n \in Nat /\ Lists(nl, n, S) BY <1>1, PositionsListed DEF Newlines
<1>3. nl \in [1 .. n -> S] /\ Rising(nl) /\ \A x \in S : \E k \in 1 .. n : nl[k] = x
  BY <1>2 DEF Lists
<1>4. \A x \in S : x \in 1 .. Len(s) /\ s[x] = LF BY <1>1
<1> HIDE DEF nl, n
<1>5. nl \in Seq(Nat) /\ Len(nl) = n
  <2>1. nl \in [1 .. n -> Nat] BY <1>3, <1>4
  <2> QED BY <1>2, <2>1
<1>6. \A k \in 1 .. n : nl[k] \in S BY <1>3
<1>7. \A i \in 1 .. Len(s) : s[i] = LF => i \in S BY <1>1
<1>8. \A j, k \in 1 .. n : j < k => nl[j] < nl[k] BY <1>3 DEF Rising
<1> HIDE DEF S
<1>9. /\ \A k \in 1 .. Len(nl) : nl[k] \in 1 .. Len(s) /\ s[nl[k]] = LF
      /\ \A i \in 1 .. Len(s) : s[i] = LF => \E k \in 1 .. Len(nl) : nl[k] = i
      /\ \A j, k \in 1 .. Len(nl) : j < k => nl[j] < nl[k]
  BY <1>3, <1>4, <1>5, <1>6, <1>7, <1>8
<1> QED BY <1>5, <1>9 DEF nl

\* A text is its whole lines and an incomplete one.
LEMMA Cut ==
    ASSUME NEW B, NEW s \in Seq(B)
    PROVE  /\ Rest(s) \in Seq(B) /\ ~HasNewline(Rest(s))
           /\ \E p \in Seq(B) : s = p \o Rest(s) /\ Whole(p)
<1>0. Len(s) \in Nat /\ DOMAIN s = 1 .. Len(s) OBVIOUS
<1>1. CASE ~HasNewline(s)
  <2>1. Rest(s) = s BY <1>1 DEF Rest
  <2>2. <<>> \in Seq(B) /\ s = <<>> \o s OBVIOUS
  <2> QED BY <1>1, <2>1, <2>2 DEF Whole
<1>2. CASE HasNewline(s)
  <2> DEFINE nl == Newlines(s)
             n == Len(nl)
             m == nl[n]
             p == SubSeq(s, 1, m)
             r == SubSeq(s, m + 1, Len(s))
  <2>1. /\ nl \in Seq(Nat)
        /\ \A k \in 1 .. n : nl[k] \in 1 .. Len(s) /\ s[nl[k]] = LF
        /\ \A i \in 1 .. Len(s) : s[i] = LF => \E k \in 1 .. n : nl[k] = i
        /\ \A j, k \in 1 .. n : j < k => nl[j] < nl[k]
    BY NewlinesAre
  <2> HIDE DEF nl
  <2>2. n \in Nat BY <2>1
  <2>3. n \in 1 .. n
    <3>1. PICK i \in 1 .. Len(s) : s[i] = LF BY <1>0, <1>2 DEF HasNewline
    <3>2. PICK k \in 1 .. n : nl[k] = i BY <2>1, <3>1
    <3> QED BY <2>2, <3>2
  <2>4. m \in 1 .. Len(s) /\ s[m] = LF BY <2>1, <2>3
  <2>5. \A i \in m + 1 .. Len(s) : s[i] # LF
    <3> SUFFICES ASSUME NEW i \in m + 1 .. Len(s), s[i] = LF PROVE FALSE OBVIOUS
    <3>1. i \in 1 .. Len(s) /\ i > m BY <1>0, <2>4
    <3>2. PICK k \in 1 .. n : nl[k] = i BY <2>1, <3>1
    <3>3. k < n => nl[k] < m BY <2>1, <2>3
    <3>4. k = n \/ k < n BY <2>2
    <3> QED BY <2>4, <3>1, <3>2, <3>3, <3>4
  <2>6. Rest(s) = r BY <1>2 DEF Rest, Last, nl
  <2> HIDE DEF m, n
  <2>7. p \in Seq(B) /\ Len(p) = m /\ p[m] = LF BY <1>0, <2>4
  <2>8. r \in Seq(B) /\ Len(r) = Len(s) - m /\ \A i \in 1 .. Len(r) : r[i] = s[m + i]
    <3>1. m \in 0 .. Len(s) BY <1>0, <2>4
    <3> QED BY <3>1, Halves
  <2>9. s = p \o r
    <3>1. m \in 0 .. Len(s) BY <1>0, <2>4
    <3> QED BY <3>1, Halves
  <2> HIDE DEF p, r
  <2>10. ~HasNewline(r)
    <3>1. ASSUME NEW i \in 1 .. Len(r) PROVE r[i] # LF
      <4>1. m + i \in m + 1 .. Len(s) BY <1>0, <2>4, <2>8
      <4> QED BY <2>5, <2>8, <4>1
    <3>2. DOMAIN r = 1 .. Len(r) BY <2>8
    <3> QED BY <3>1, <3>2 DEF HasNewline
  <2>11. Whole(p) BY <2>7 DEF Whole
  <2> QED BY <2>6, <2>7, <2>8, <2>9, <2>10, <2>11
<1> QED BY <1>1, <1>2

\* What was seen of a text is not unsaid by what follows.
LEMMA TextPrefix ==
    ASSUME NEW B, NEW s \in Seq(B), NEW t \in Seq(B)
    PROVE  IsPrefix(Text(s), Text(s \o t))
<1> DEFINE r == Rest(s)
<1>1. r \in Seq(B) /\ ~HasNewline(r) /\ \E p \in Seq(B) : s = p \o r /\ Whole(p) BY Cut
<1> HIDE DEF r
<1>2. PICK p \in Seq(B) : s = p \o r /\ Whole(p) BY <1>1
<1>3. Text(s) = Text(p) \o Text(r) BY <1>1, <1>2, TextConcat
<1>4. Text(r) = <<>> BY <1>1, TextFree
<1>5. Text(p) \in Seq(B) BY TextType
<1>6. Text(s) = Text(p) BY <1>3, <1>4, <1>5
<1>7. r \o t \in Seq(B) BY <1>1
<1>8. s \o t = p \o (r \o t)
  <2>1. (p \o r) \o t = p \o (r \o t) BY <1>1, ConcatAssoc
  <2> QED BY <1>2, <2>1
<1>9. Text(p \o (r \o t)) = Text(p) \o Text(r \o t) BY <1>2, <1>7, TextConcat
<1>10. Text(r \o t) \in Seq(B) BY <1>7, TextType
<1>11. IsPrefix(Text(p), Text(p) \o Text(r \o t)) BY <1>5, <1>10, PrefixOfConcat
<1> QED BY <1>6, <1>8, <1>9, <1>11


\* Of one line a reader sees what is in front of its end, CRLF or LF.
LEMMA TextLine ==
    ASSUME NEW B, LF \in B, NEW l \in Seq(B), ~HasNewline(l)
    PROVE  Text(Append(l, LF)) =
             Append(IF l # <<>> /\ l[Len(l)] = CR THEN SubSeq(l, 1, Len(l) - 1) ELSE l, LF)
<1> DEFINE m == Len(l)
           s == Append(l, LF)
           cut == m # 0 /\ l[m] = CR
<1>0. m \in Nat /\ (l # <<>> <=> m # 0) OBVIOUS
<1>1. /\ s \in Seq(B) /\ Len(s) = m + 1 /\ DOMAIN s = 1 .. m + 1 /\ s[m + 1] = LF
      /\ \A i \in 1 .. m : s[i] = l[i]
  OBVIOUS
<1>2. \A i \in 1 .. m : l[i] # LF
  <2>1. DOMAIN l = 1 .. m OBVIOUS
  <2> QED BY <2>1 DEF HasNewline
<1>3. l \in Seq(B) /\ \A i \in 1 .. m : l[i] \in B OBVIOUS
<1> HIDE DEF s
<1>4. ASSUME NEW i \in 1 .. m + 1 PROVE i \in Keep(s) <=> ~(i = m /\ cut)
  <2>1. \E j \in i .. Len(s) : s[j] = LF
    <3>1. m + 1 \in i .. Len(s) BY <1>0, <1>1
    <3> QED BY <1>1, <3>1
  <2>2. (s[i] = CR => s[i + 1] # LF) <=> ~(i = m /\ cut)
    <3>1. CASE i = m + 1 BY <1>0, <1>1, <3>1, LineAssumption
    <3>2. CASE i = m
      <4>1. i \in 1 .. m /\ i + 1 = m + 1 BY <1>0, <3>2
      <4>2. s[i] = l[m] /\ s[i + 1] = LF BY <1>1, <3>2, <4>1
      <4>3. m # 0 BY <4>1
      <4> QED BY <3>2, <4>2, <4>3
    <3>3. CASE i # m + 1 /\ i # m
      <4>1. i + 1 \in 1 .. m BY <1>0, <3>3
      <4>2. s[i + 1] # LF BY <1>1, <1>2, <4>1
      <4> QED BY <3>3, <4>2
    <3> QED BY <3>1, <3>2, <3>3
  <2> QED BY <1>1, <2>1, <2>2 DEF Keep
<1>5. Keep(s) \in SUBSET (1 .. m + 1) BY <1>1 DEF Keep
<1>6. CASE ~cut
  <2> DEFINE q == [i \in 1 .. m + 1 |-> i]
  <2>1. Keep(s) = 1 .. m + 1 BY <1>4, <1>5, <1>6
  <2>2. Lists(q, m + 1, Keep(s)) BY <2>1 DEF Lists, Rising
  <2>3. \A i \in 1 .. m + 1 : q[i] = i OBVIOUS
  <2>4. m + 1 \in Nat BY <1>0
  <2> HIDE DEF q
  <2>5. Pick(s, Keep(s)) = [i \in 1 .. m + 1 |-> s[q[i]]] /\ Pick(s, Keep(s)) \in Seq(B)
        /\ Len(Pick(s, Keep(s))) = m + 1
    <3>1. Keep(s) \in SUBSET DOMAIN s BY <1>1, <1>5
    <3> QED BY <1>1, <2>2, <2>4, <3>1, PickIs
  <2>6. \A i \in 1 .. m + 1 : Pick(s, Keep(s))[i] = s[i] BY <2>3, <2>5
  <2>7. Pick(s, Keep(s)) = s BY <1>1, <2>5, <2>6, SameElements
  <2>8. Text(s) = s BY <1>1, <2>7, TextType
  <2> QED BY <1>0, <1>6, <2>8 DEF s
<1>7. CASE cut
  <2> DEFINE q == [i \in 1 .. m |-> IF i = m THEN m + 1 ELSE i]
             t == Append(SubSeq(l, 1, m - 1), LF)
  <2>1. Keep(s) = (1 .. m - 1) \cup {m + 1}
    <3>1. \A x \in Keep(s) : x \in 1 .. m + 1 /\ x # m BY <1>4, <1>5, <1>7
    <3>2. \A x \in 1 .. m - 1 : x \in 1 .. m + 1 /\ x # m BY <1>0
    <3>3. \A x \in 1 .. m - 1 : x \in Keep(s) BY <1>4, <3>2
    <3>4. m + 1 \in Keep(s) BY <1>0, <1>4
    <3> QED BY <1>0, <3>1, <3>3, <3>4
  <2>2. Lists(q, m, Keep(s))
    <3>1. q \in [1 .. m -> Keep(s)] BY <1>0, <2>1
    <3>2. Rising(q) BY <1>0 DEF Rising
    <3>3. ASSUME NEW x \in Keep(s) PROVE \E i \in 1 .. m : q[i] = x
      <4>1. CASE x = m + 1
        <5>1. m \in 1 .. m /\ q[m] = m + 1 BY <1>0, <1>7
        <5> QED BY <4>1, <5>1
      <4>2. CASE x # m + 1
        <5>1. x \in 1 .. m /\ x # m BY <1>0, <2>1, <4>2
        <5> QED BY <5>1
      <4> QED BY <4>1, <4>2
    <3> QED BY <3>1, <3>2, <3>3 DEF Lists
  <2>3. \A i \in 1 .. m : q[i] = IF i = m THEN m + 1 ELSE i OBVIOUS
  <2> HIDE DEF q
  <2>4. Pick(s, Keep(s)) = [i \in 1 .. m |-> s[q[i]]] /\ Pick(s, Keep(s)) \in Seq(B)
        /\ Len(Pick(s, Keep(s))) = m
    <3>1. Keep(s) \in SUBSET DOMAIN s BY <1>1, <1>5
    <3> QED BY <1>0, <1>1, <2>2, <3>1, PickIs
  <2>5. /\ t \in Seq(B) /\ Len(t) = m /\ t[m] = LF
        /\ \A i \in 1 .. m : i # m => t[i] = l[i]
    <3> DEFINE h == SubSeq(l, 1, m - 1)
    <3>1. h \in Seq(B) /\ Len(h) = m - 1 /\ \A i \in 1 .. m - 1 : h[i] = l[i]
      <4>1. m - 1 \in 0 .. Len(l) BY <1>0, <1>7
      <4>2. h \in Seq(B) /\ Len(h) = m - 1 BY <4>1, Halves
      <4>3. \A i \in 1 .. m - 1 : h[i] = l[i] BY <4>1
      <4> QED BY <4>2, <4>3
    <3> HIDE DEF h
    <3>2. Append(h, LF) \in Seq(B) /\ Len(Append(h, LF)) = m BY <1>0, <3>1
    <3>3. Append(h, LF)[m] = LF BY <1>0, <3>1
    <3>4. \A i \in 1 .. m - 1 : Append(h, LF)[i] = l[i] BY <1>0, <3>1
    <3>5. \A i \in 1 .. m : i # m => i \in 1 .. m - 1 BY <1>0
    <3> QED BY <3>2, <3>3, <3>4, <3>5 DEF h
  <2> HIDE DEF t
  <2>6. ASSUME NEW i \in 1 .. m PROVE Pick(s, Keep(s))[i] = t[i]
    <3>1. Pick(s, Keep(s))[i] = s[q[i]] BY <2>4
    <3> QED BY <1>1, <2>3, <2>5, <3>1
  <2>7. Pick(s, Keep(s)) = t BY <2>4, <2>5, <2>6, SameElements
  <2>8. Text(s) = t BY <1>1, <2>7, TextType
  <2> QED BY <1>0, <1>7, <2>8 DEF s, t
<1> QED BY <1>6, <1>7


\* The bytes from a to b.
LEMMA Segment ==
    ASSUME NEW B, NEW s \in Seq(B), NEW a \in 1 .. Len(s) + 1, NEW b \in a - 1 .. Len(s)
    PROVE  /\ SubSeq(s, a, b) \in Seq(B) /\ Len(SubSeq(s, a, b)) = b - a + 1
           /\ \A i \in 1 .. b - a + 1 : SubSeq(s, a, b)[i] = s[a + i - 1]
<1>1. Len(s) \in Nat /\ a \in Nat /\ b \in Nat /\ a >= 1 /\ b <= Len(s) /\ b - a + 1 >= 0 OBVIOUS
<1>2. SubSeq(s, a, b) \in Seq(B) BY <1>1
<1>3. Len(SubSeq(s, a, b)) = b - a + 1 BY <1>1
<1>4. \A i \in 1 .. b - a + 1 : SubSeq(s, a, b)[i] = s[a + i - 1] BY <1>1
<1> QED BY <1>2, <1>3, <1>4

\* Two segments behind one another.
LEMMA Segments ==
    ASSUME NEW B, NEW s \in Seq(B), NEW m \in 0 .. Len(s), NEW n \in m .. Len(s)
    PROVE  SubSeq(s, 1, n) = SubSeq(s, 1, m) \o SubSeq(s, m + 1, n)
<1> DEFINE p == SubSeq(s, 1, m)
           r == SubSeq(s, m + 1, n)
           u == SubSeq(s, 1, n)
<1>1. Len(s) \in Nat /\ m \in Nat /\ n \in Nat /\ m <= n /\ n <= Len(s) OBVIOUS
<1>2. p \in Seq(B) /\ Len(p) = m /\ \A i \in 1 .. m : p[i] = s[i]
  <2>1. 1 \in 1 .. Len(s) + 1 /\ m \in 1 - 1 .. Len(s) /\ m - 1 + 1 = m BY <1>1
  <2>2. p \in Seq(B) /\ Len(p) = m /\ \A i \in 1 .. m : p[i] = s[1 + i - 1]
    BY <2>1, Segment
  <2> QED BY <2>2
<1>3. u \in Seq(B) /\ Len(u) = n /\ \A i \in 1 .. n : u[i] = s[i]
  <2>1. 1 \in 1 .. Len(s) + 1 /\ n \in 1 - 1 .. Len(s) /\ n - 1 + 1 = n BY <1>1
  <2>2. u \in Seq(B) /\ Len(u) = n /\ \A i \in 1 .. n : u[i] = s[1 + i - 1]
    BY <2>1, Segment
  <2> QED BY <2>2
<1>4. r \in Seq(B) /\ Len(r) = n - m /\ \A i \in 1 .. n - m : r[i] = s[m + i]
  <2>1. /\ m + 1 \in 1 .. Len(s) + 1 /\ n \in m + 1 - 1 .. Len(s) /\ n - (m + 1) + 1 = n - m
        /\ \A i \in 1 .. n - m : m + 1 + i - 1 = m + i
    BY <1>1
  <2>2. r \in Seq(B) /\ Len(r) = n - (m + 1) + 1
        /\ \A i \in 1 .. n - (m + 1) + 1 : r[i] = s[m + 1 + i - 1]
    BY <2>1, Segment
  <2> QED BY <2>1, <2>2
<1> HIDE DEF p, r, u
<1>5. p \o r \in Seq(B) /\ Len(p \o r) = n BY <1>1, <1>2, <1>4
<1>6. \A i \in 1 .. n : u[i] = (p \o r)[i]
  <2> SUFFICES ASSUME NEW i \in 1 .. n PROVE (p \o r)[i] = u[i] OBVIOUS
  <2>1. CASE i <= m
    <3>1. (p \o r)[i] = p[i] /\ i \in 1 .. m BY <1>1, <1>2, <1>4, <2>1
    <3> QED BY <1>2, <1>3, <3>1
  <2>2. CASE ~(i <= m)
    <3>1. i - m \in 1 .. n - m /\ m + (i - m) = i BY <1>1, <2>2
    <3>2. (p \o r)[i] = r[i - m] BY <1>1, <1>2, <1>4, <2>2, <3>1
    <3> QED BY <1>3, <1>4, <3>1, <3>2
  <2> QED BY <2>1, <2>2
<1>7. u = p \o r BY <1>3, <1>5, <1>6, SameElements
<1> QED BY <1>7 DEF u, p, r

\* A line that is cut off is what a reader sees of the text up to its newline,
\* as long as the byte before the string is no carriage return.
LEMMA LineText ==
    ASSUME ByteBefore # CR, NEW B, LF \in B, NEW s \in Seq(B),
           NEW from \in 1 .. Len(s), NEW sz \in from .. Len(s), s[sz] = LF,
           \A i \in from .. sz - 1 : s[i] # LF
    PROVE  /\ Line(s, from, sz) \in Seq(B)
           /\ Text(SubSeq(s, from, sz)) = Append(Line(s, from, sz), LF)
<1> DEFINE l == SubSeq(s, from, sz - 1)
           u == SubSeq(s, from, sz)
           m == sz - from
<1>1. Len(s) \in Nat /\ from \in Nat /\ sz \in Nat /\ from >= 1 /\ from <= sz /\ sz <= Len(s)
  OBVIOUS
<1>2. l \in Seq(B) /\ Len(l) = m /\ \A i \in 1 .. m : l[i] = s[from + i - 1]
  <2>1. from \in 1 .. Len(s) + 1 /\ sz - 1 \in from - 1 .. Len(s) /\ sz - 1 - from + 1 = m BY <1>1
  <2>2. l \in Seq(B) /\ Len(l) = sz - 1 - from + 1
        /\ \A i \in 1 .. sz - 1 - from + 1 : l[i] = s[from + i - 1]
    BY <2>1, Segment
  <2> QED BY <2>1, <2>2
<1>3. u \in Seq(B) /\ Len(u) = m + 1 /\ \A i \in 1 .. m + 1 : u[i] = s[from + i - 1]
  <2>1. from \in 1 .. Len(s) + 1 /\ sz \in from - 1 .. Len(s) /\ sz - from + 1 = m + 1 BY <1>1
  <2>2. u \in Seq(B) /\ Len(u) = sz - from + 1
        /\ \A i \in 1 .. sz - from + 1 : u[i] = s[from + i - 1]
    BY <2>1, Segment
  <2> QED BY <2>1, <2>2
<1>4. m \in Nat /\ from + (m + 1) - 1 = sz BY <1>1
<1> HIDE DEF l, u
<1>5. ~HasNewline(l)
  <2>1. ASSUME NEW i \in 1 .. m PROVE l[i] # LF
    <3>1. from + i - 1 \in from .. sz - 1 BY <1>1
    <3> QED BY <1>2, <3>1
  <2>2. DOMAIN l = 1 .. m BY <1>2
  <2> QED BY <2>1, <2>2 DEF HasNewline
<1>6. u = Append(l, LF)
  <2>1. Append(l, LF) \in Seq(B) /\ Len(Append(l, LF)) = m + 1 BY <1>2
  <2>2. Append(l, LF)[m + 1] = LF /\ \A i \in 1 .. m : Append(l, LF)[i] = l[i]
    <3>1. l \in Seq(B) /\ Len(l) = m BY <1>2
    <3>2. Append(l, LF)[m + 1] = LF BY <3>1
    <3>3. \A i \in 1 .. m : Append(l, LF)[i] = l[i] BY <3>1
    <3> QED BY <3>2, <3>3
  <2>3. u[m + 1] = LF
    <3>1. m + 1 \in 1 .. m + 1 BY <1>4
    <3> QED BY <1>3, <1>4, <3>1
  <2>4. ASSUME NEW i \in 1 .. m + 1 PROVE u[i] = Append(l, LF)[i]
    <3>1. CASE i = m + 1 BY <2>2, <2>3, <3>1
    <3>2. CASE i # m + 1
      <4>1. i \in 1 .. m BY <1>4, <3>2
      <4> QED BY <1>2, <1>3, <2>2, <4>1
    <3> QED BY <3>1, <3>2
  <2> QED BY <1>3, <2>1, <2>4, SameElements
<1>7. Line(s, from, sz) = IF l # <<>> /\ l[Len(l)] = CR THEN SubSeq(l, 1, Len(l) - 1) ELSE l
  <2>1. CASE m = 0
    <3>1. l = <<>> BY <1>2, <2>1
    <3>2. sz = from BY <1>1, <2>1
    <3> QED BY <3>1, <3>2 DEF Line
  <2>2. CASE m # 0
    <3>1. l # <<>> /\ l[Len(l)] = s[sz - 1] /\ sz # from
      <4>1. m \in 1 .. m /\ from + m - 1 = sz - 1 BY <1>1, <1>4, <2>2
      <4> QED BY <1>1, <1>2, <2>2, <4>1
    <3>2. CASE s[sz - 1] # CR BY <3>1, <3>2 DEF Line, l
    <3>3. CASE s[sz - 1] = CR
      <4>1. Line(s, from, sz) = SubSeq(s, from, sz - 2) BY <3>1, <3>3 DEF Line
      <4> DEFINE x == SubSeq(s, from, sz - 2)
                 y == SubSeq(l, 1, m - 1)
      <4>2. x \in Seq(B) /\ Len(x) = m - 1 /\ \A i \in 1 .. m - 1 : x[i] = s[from + i - 1]
        <5>1. from \in 1 .. Len(s) + 1 /\ sz - 2 \in from - 1 .. Len(s) /\ sz - 2 - from + 1 = m - 1
          BY <1>1, <2>2
        <5>2. x \in Seq(B) /\ Len(x) = sz - 2 - from + 1
              /\ \A i \in 1 .. sz - 2 - from + 1 : x[i] = s[from + i - 1]
          BY <5>1, Segment
        <5> QED BY <5>1, <5>2
      <4>3. y \in Seq(B) /\ Len(y) = m - 1 /\ \A i \in 1 .. m - 1 : y[i] = l[i]
        <5>1. m - 1 \in 0 .. Len(l) BY <1>2, <1>4, <2>2
        <5>2. y \in Seq(B) /\ Len(y) = m - 1 BY <1>2, <5>1, Halves
        <5>3. \A i \in 1 .. m - 1 : y[i] = l[i] BY <1>2, <5>1
        <5> QED BY <5>2, <5>3
      <4> HIDE DEF x, y
      <4>4. \A i \in 1 .. m - 1 : i \in 1 .. m BY <1>4
      <4>5. \A i \in 1 .. m - 1 : x[i] = y[i] BY <1>2, <4>2, <4>3, <4>4
      <4>6. x = y BY <4>2, <4>3, <4>5, SameElements
      <4> QED BY <1>2, <3>1, <3>3, <4>1, <4>6 DEF x, y
    <3> QED BY <3>2, <3>3
  <2> QED BY <2>1, <2>2
<1>8. Line(s, from, sz) \in Seq(B)
  <2>1. SubSeq(l, 1, Len(l) - 1) \in Seq(B) BY <1>2, <1>4
  <2> QED BY <1>2, <1>7, <2>1
<1>9. Text(u) = Append(Line(s, from, sz), LF) BY <1>2, <1>5, <1>6, <1>7, TextLine
<1> QED BY <1>8, <1>9 DEF u


-----------------------------------------------------------------------------
(* The lines that are handed out.                                          *)

\* The lines, each with its newline.
Ended(L) == [i \in DOMAIN L |-> Append(L[i], LF)]

\* They are texts.
LEMMA EndedType ==
    ASSUME NEW B, LF \in B, NEW L \in Seq(Seq(B))
    PROVE  /\ Ended(L) \in Seq(Seq(B)) /\ Len(Ended(L)) = Len(L)
           /\ \A i \in 1 .. Len(L) : Ended(L)[i] = Append(L[i], LF)
<1>1. DOMAIN L = 1 .. Len(L) /\ Len(L) \in Nat OBVIOUS
<1>2. \A i \in 1 .. Len(L) : Append(L[i], LF) \in Seq(B) OBVIOUS
<1>3. Ended(L) = [i \in 1 .. Len(L) |-> Append(L[i], LF)] BY <1>1 DEF Ended
<1> QED BY <1>1, <1>2, <1>3

\* Line by line.
LEMMA EndedConcat ==
    ASSUME NEW B, LF \in B, NEW L \in Seq(Seq(B)), NEW M \in Seq(Seq(B))
    PROVE  Ended(L \o M) = Ended(L) \o Ended(M)
<1> DEFINE X == Ended(L)
           Y == Ended(M)
           Z == Ended(L \o M)
           C == Seq(B)
<1>1. L \o M \in Seq(C) /\ Len(L \o M) = Len(L) + Len(M) /\ Len(L) \in Nat /\ Len(M) \in Nat
  OBVIOUS
<1>2. X \in Seq(C) /\ Len(X) = Len(L) /\ \A i \in 1 .. Len(L) : X[i] = Append(L[i], LF)
  BY EndedType
<1>3. Y \in Seq(C) /\ Len(Y) = Len(M) /\ \A i \in 1 .. Len(M) : Y[i] = Append(M[i], LF)
  BY EndedType
<1>4. Z \in Seq(C) /\ Len(Z) = Len(L) + Len(M)
      /\ \A i \in 1 .. Len(L) + Len(M) : Z[i] = Append((L \o M)[i], LF)
  BY <1>1, EndedType
<1>5. \A i \in 1 .. Len(L) : (L \o M)[i] = L[i] OBVIOUS
<1>6. \A i \in 1 .. Len(M) : (L \o M)[Len(L) + i] = M[i] OBVIOUS
<1> HIDE DEF X, Y, Z, C
<1>7. X \o Y \in Seq(C) /\ Len(X \o Y) = Len(L) + Len(M)
  <2>1. X \in Seq(C) /\ Y \in Seq(C) BY <1>2, <1>3
  <2>2. X \o Y \in Seq(C) BY <2>1
  <2>3. Len(X \o Y) = Len(X) + Len(Y) BY <2>1
  <2> QED BY <1>2, <1>3, <2>2, <2>3
<1>8. \A i \in 1 .. Len(L) + Len(M) : Z[i] = (X \o Y)[i]
  <2> SUFFICES ASSUME NEW i \in 1 .. Len(L) + Len(M) PROVE Z[i] = (X \o Y)[i] OBVIOUS
  <2>1. CASE i <= Len(L)
    <3>1. i \in 1 .. Len(L) BY <1>1, <2>1
    <3>2. (X \o Y)[i] = X[i] BY <1>2, <1>3, <3>1
    <3> QED BY <1>2, <1>4, <1>5, <3>1, <3>2
  <2>2. CASE ~(i <= Len(L))
    <3>1. i - Len(L) \in 1 .. Len(M) /\ Len(L) + (i - Len(L)) = i BY <1>1, <2>2
    <3>2. (X \o Y)[i] = Y[i - Len(L)] BY <1>1, <1>2, <1>3, <2>2, <3>1
    <3>3. (L \o M)[i] = M[i - Len(L)] BY <1>6, <3>1
    <3>4. Y[i - Len(L)] = Append(M[i - Len(L)], LF) BY <1>3, <3>1
    <3> QED BY <1>4, <3>2, <3>3, <3>4
  <2> QED BY <2>1, <2>2
<1>9. Z = X \o Y BY <1>4, <1>7, <1>8, SameElements
<1> QED BY <1>9 DEF X, Y, Z

\* The lines that are waiting, put behind one another.
Flat(L) == FlattenSeq(Ended(L))

\* They are a text.
LEMMA FlatType ==
    ASSUME NEW B, LF \in B, NEW L \in Seq(Seq(B))
    PROVE  Flat(L) \in Seq(B)
<1>1. Ended(L) \in Seq(Seq(B)) BY EndedType
<1> QED BY <1>1, FlattenType DEF Flat

\* Lines more come behind.
LEMMA FlatConcat ==
    ASSUME NEW B, LF \in B, NEW L \in Seq(Seq(B)), NEW M \in Seq(Seq(B))
    PROVE  Flat(L \o M) = Flat(L) \o Flat(M)
<1>1. Ended(L) \in Seq(Seq(B)) /\ Ended(M) \in Seq(Seq(B)) BY EndedType
<1>2. Ended(L \o M) = Ended(L) \o Ended(M) BY EndedConcat
<1>3. FlattenSeq(Ended(L) \o Ended(M)) = FlattenSeq(Ended(L)) \o FlattenSeq(Ended(M))
  BY <1>1, FlattenConcat
<1> QED BY <1>2, <1>3 DEF Flat

\* Without lines there is nothing.
LEMMA FlatEmpty == Flat(<<>>) = <<>>
<1>1. Ended(<<>>) = <<>> BY DEF Ended
<1> QED BY <1>1, FlattenEmpty DEF Flat

\* The first line, with its newline, and the others.
LEMMA FlatHead ==
    ASSUME NEW B, LF \in B, NEW L \in Seq(Seq(B)), L # <<>>
    PROVE  /\ Head(L) \in Seq(B) /\ Tail(L) \in Seq(Seq(B))
           /\ Flat(L) = Append(Head(L), LF) \o Flat(Tail(L))
<1> DEFINE h == Head(L)
           t == Tail(L)
           x == Append(h, LF)
<1>1. h \in Seq(B) /\ t \in Seq(Seq(B)) OBVIOUS
<1>2. L = <<h>> \o t OBVIOUS
<1> HIDE DEF h, t
<1>3. <<h>> \in Seq(Seq(B)) BY <1>1
<1>4. x \in Seq(B) BY <1>1
<1>5. Ended(<<h>>) = <<x>> BY <1>1 DEF Ended
<1>6. FlattenSeq(<<x>>) = x
  <2>1. <<>> \in Seq(Seq(B)) /\ <<x>> = Append(<<>>, x) BY <1>4
  <2>2. FlattenSeq(Append(<<>>, x)) = FlattenSeq(<<>>) \o x BY <1>4, <2>1, FlattenAppend
  <2>3. <<>> \o x = x BY <1>4
  <2> QED BY <2>1, <2>2, <2>3, FlattenEmpty
<1>7. Flat(<<h>> \o t) = Flat(<<h>>) \o Flat(t) BY <1>1, <1>3, FlatConcat
<1> QED BY <1>1, <1>2, <1>5, <1>6, <1>7 DEF Flat, h, t


\* The lines that the second loop of Receive() cuts off are texts.
LEMMA LinesType ==
    ASSUME NEW B, NEW s \in Seq(B)
    PROVE  /\ LinesOf(s) \in Seq(Seq(B)) /\ Len(LinesOf(s)) = Len(Newlines(s))
           /\ LinesOf(s) # <<>> => LF \in B
<1> DEFINE nl == Newlines(s)
           n == Len(nl)
           from(k) == IF k = 1 THEN 1 ELSE nl[k-1] + 1
           L == LinesOf(s)
<1>1. /\ nl \in Seq(Nat)
      /\ \A k \in 1 .. n : nl[k] \in 1 .. Len(s) /\ s[nl[k]] = LF
      /\ \A j, k \in 1 .. n : j < k => nl[j] < nl[k]
  BY NewlinesAre
<1>2. n \in Nat /\ DOMAIN nl = 1 .. n /\ Len(s) \in Nat BY <1>1
<1>3. L = [k \in 1 .. n |-> Line(s, from(k), nl[k])] BY <1>2 DEF LinesOf
<1> HIDE DEF nl
<1>4. ASSUME NEW k \in 1 .. n PROVE Line(s, from(k), nl[k]) \in Seq(B)
  <2>1. nl[k] \in 1 .. Len(s) /\ from(k) \in 1 .. nl[k]
    <3>1. CASE k = 1 BY <1>1, <3>1
    <3>2. CASE k # 1
      <4>1. k - 1 \in 1 .. n /\ k - 1 < k BY <1>2, <3>2
      <4>2. nl[k - 1] \in 1 .. Len(s) /\ nl[k] \in 1 .. Len(s) /\ nl[k - 1] < nl[k]
        BY <1>1, <4>1
      <4> QED BY <1>2, <3>2, <4>2
    <3> QED BY <3>1, <3>2
  <2> DEFINE a == from(k)
             z == nl[k]
  <2>2. a \in 1 .. z /\ z \in 1 .. Len(s) BY <2>1
  <2> HIDE DEF a, z
  <2>3. a \in 1 .. Len(s) + 1 /\ z - 1 \in a - 1 .. Len(s) /\ Len(s) \in a - 1 .. Len(s)
    BY <1>2, <2>2
  <2>4. SubSeq(s, a, z - 1) \in Seq(B) /\ SubSeq(s, a, Len(s)) \in Seq(B) /\ <<>> \in Seq(B)
    BY <2>3, Segment
  <2>5. z # a => SubSeq(s, a, z - 2) \in Seq(B)
    <3>1. z # a => z - 2 \in a - 1 .. Len(s) BY <1>2, <2>2
    <3> QED BY <2>3, <3>1, Segment
  <2>6. Line(s, a, z) \in Seq(B) BY <2>4, <2>5 DEF Line
  <2> QED BY <2>6 DEF a, z
<1> HIDE DEF from, L
<1>5. L \in Seq(Seq(B)) /\ Len(L) = n BY <1>2, <1>3, <1>4
<1>6. L # <<>> => LF \in B
  <2>1. L # <<>> => 1 \in 1 .. n BY <1>2, <1>5
  <2>2. \A i \in 1 .. Len(s) : s[i] \in B OBVIOUS
  <2> QED BY <1>1, <2>1, <2>2
<1> QED BY <1>5, <1>6 DEF L, nl

\* Cutting shows exactly what a reader should see: the lines that are cut off,
\* each with a newline, are the text.
THEOREM LinesText ==
    ASSUME ByteBefore # CR, NEW B, LF \in B, NEW s \in Seq(B)
    PROVE  Flat(LinesOf(s)) = Text(s)
<1> DEFINE nl == Newlines(s)
           n == Len(nl)
           from(k) == IF k = 1 THEN 1 ELSE nl[k-1] + 1
           upto(k) == IF k = 0 THEN 0 ELSE nl[k]
           L == LinesOf(s)
           T == {k \in Nat : k <= n => Flat(SubSeq(L, 1, k)) = Text(SubSeq(s, 1, upto(k)))}
<1>1. /\ nl \in Seq(Nat)
      /\ \A k \in 1 .. n : nl[k] \in 1 .. Len(s) /\ s[nl[k]] = LF
      /\ \A i \in 1 .. Len(s) : s[i] = LF => \E k \in 1 .. n : nl[k] = i
      /\ \A j, k \in 1 .. n : j < k => nl[j] < nl[k]
  BY NewlinesAre
<1>2. n \in Nat /\ DOMAIN nl = 1 .. n /\ Len(s) \in Nat BY <1>1
<1>3. /\ L \in Seq(Seq(B)) /\ Len(L) = n
      /\ \A k \in 1 .. n : L[k] = Line(s, from(k), nl[k])
  <2>1. L = [k \in 1 .. n |-> Line(s, from(k), nl[k])] BY <1>2 DEF LinesOf
  <2> QED BY <2>1, LinesType
<1> HIDE DEF nl, L
<1>4. 0 \in T
  <2>1. SubSeq(L, 1, 0) = <<>> /\ SubSeq(s, 1, 0) = <<>> BY <1>3
  <2>2. <<>> \in Seq(B) /\ ~HasNewline(<<>>) BY DEF HasNewline
  <2>3. Text(<<>>) = <<>> BY <2>2, TextFree
  <2> QED BY <2>1, <2>3, FlatEmpty
<1>5. ASSUME NEW k \in Nat, k \in T PROVE k + 1 \in T
  <2>1. ASSUME k + 1 <= n
        PROVE  Flat(SubSeq(L, 1, k + 1)) = Text(SubSeq(s, 1, upto(k + 1)))
    <3> DEFINE a == upto(k)
               z == nl[k + 1]
               l == L[k + 1]
    <3>1. k + 1 \in 1 .. n /\ k <= n /\ k + 1 # 0 BY <1>2, <2>1
    <3>2. a \in 0 .. Len(s) /\ z \in 1 .. Len(s) /\ s[z] = LF /\ a < z /\ (a = 0 \/ s[a] = LF)
      <4>1. z \in 1 .. Len(s) /\ s[z] = LF BY <1>1, <3>1
      <4>2. CASE k = 0 BY <1>2, <4>1, <4>2
      <4>3. CASE k # 0
        <5>1. k \in 1 .. n /\ k < k + 1 BY <3>1, <4>3
        <5>2. nl[k] \in 1 .. Len(s) /\ s[nl[k]] = LF /\ nl[k] < nl[k + 1] BY <1>1, <3>1, <5>1
        <5> QED BY <1>2, <4>1, <4>3, <5>2
      <4> QED BY <4>2, <4>3
    <3>3. from(k + 1) = a + 1
      <4>1. k + 1 - 1 = k OBVIOUS
      <4> QED BY <4>1
    <3>4. \A i \in a + 1 .. z - 1 : s[i] # LF
      <4> SUFFICES ASSUME NEW i \in a + 1 .. z - 1, s[i] = LF PROVE FALSE OBVIOUS
      <4>1. i \in 1 .. Len(s) /\ a < i /\ i < z BY <1>2, <3>2
      <4>2. PICK j \in 1 .. n : nl[j] = i BY <1>1, <4>1
      <4>3. j \in Nat /\ i \in Nat /\ z \in Nat /\ a \in Nat BY <3>2, <4>1, <4>2
      <4>4. ~(k + 1 < j) /\ j # k + 1
        <5>1. k + 1 < j => nl[k + 1] < nl[j] BY <1>1, <3>1, <4>2
        <5> QED BY <4>1, <4>2, <4>3, <5>1
      <4>5. j <= k /\ k # 0 /\ k \in 1 .. n BY <4>2, <4>3, <4>4, <3>1
      <4>6. j < k => nl[j] < nl[k] BY <1>1, <4>2, <4>5
      <4> QED BY <4>1, <4>2, <4>3, <4>5, <4>6
    <3>5. Flat(SubSeq(L, 1, k)) = Text(SubSeq(s, 1, a)) BY <1>5, <3>1
    <3>6. upto(k + 1) = z BY <3>1
    <3>7. l = Line(s, a + 1, z) BY <1>3, <3>1, <3>3
    <3> HIDE DEF a, z, l, from, upto
    <3> DEFINE p == SubSeq(s, 1, a)
               u == SubSeq(s, a + 1, z)
               h == SubSeq(L, 1, k)
    <3>8. l \in Seq(B) /\ Text(u) = Append(l, LF)
      <4>1. a + 1 \in 1 .. Len(s) /\ z \in a + 1 .. Len(s) BY <1>2, <3>2
      <4> QED BY <3>2, <3>4, <3>7, <4>1, LineText
    <3>9. SubSeq(s, 1, z) = p \o u
      <4>1. z \in a .. Len(s) BY <1>2, <3>2
      <4> QED BY <3>2, <4>1, Segments
    <3>10. p \in Seq(B) /\ Len(p) = a /\ u \in Seq(B)
      <4>1. a + 1 \in 1 .. Len(s) + 1 /\ z \in a + 1 - 1 .. Len(s) BY <1>2, <3>2
      <4>2. u \in Seq(B) BY <4>1, Segment
      <4>3. p \in Seq(B) /\ Len(p) = a BY <3>2, Halves
      <4> QED BY <4>2, <4>3
    <3>11. Whole(p)
      <4>1. a # 0 => p[a] = s[a] BY <1>2, <3>2
      <4>2. a = 0 => p = <<>> BY <3>10
      <4> QED BY <3>2, <3>10, <4>1, <4>2 DEF Whole
    <3>12. SubSeq(L, 1, k + 1) = h \o <<l>> /\ h \in Seq(Seq(B)) /\ <<l>> \in Seq(Seq(B))
      <4>1. k + 1 \in 1 .. Len(L) /\ k \in 0 .. Len(L) BY <1>3, <3>1
      <4>2. SubSeq(L, 1, k + 1) = SubSeq(L, 1, k) \o SubSeq(L, k + 1, k + 1)
        <5>1. k + 1 \in k .. Len(L) BY <1>3, <4>1
        <5> QED BY <1>3, <4>1, <5>1, Segments
      <4>3. SubSeq(L, k + 1, k + 1) = <<L[k + 1]>>
        <5> DEFINE e == SubSeq(L, k + 1, k + 1)
        <5>1. k + 1 \in 1 .. Len(L) + 1 /\ k + 1 \in k + 1 - 1 .. Len(L) BY <1>3, <4>1
        <5>2. /\ e \in Seq(Seq(B)) /\ Len(e) = k + 1 - (k + 1) + 1
              /\ \A i \in 1 .. k + 1 - (k + 1) + 1 : e[i] = L[k + 1 + i - 1]
          BY <1>3, <5>1, Segment
        <5> HIDE DEF e
        <5>3. Len(e) = 1 /\ e[1] = L[k + 1] BY <5>2
        <5>4. e = <<L[k + 1]>> BY <5>2, <5>3
        <5> QED BY <5>4 DEF e
      <4>4. h \in Seq(Seq(B)) BY <1>3, <4>1
      <4>5. <<l>> \in Seq(Seq(B)) BY <3>8
      <4> QED BY <4>2, <4>3, <4>4, <4>5 DEF l
    <3> HIDE DEF p, u, h
    <3>13. Text(p \o u) = Text(p) \o Append(l, LF) BY <3>8, <3>10, <3>11, TextConcat
    <3>14. Flat(h \o <<l>>) = Flat(h) \o Flat(<<l>>) BY <3>12, FlatConcat
    <3>15. Flat(<<l>>) = Append(l, LF)
      <4>1. <<l>> # <<>> /\ Head(<<l>>) = l /\ Tail(<<l>>) = <<>> BY <3>8
      <4>2. Flat(<<l>>) = Append(l, LF) \o Flat(<<>>) BY <3>12, <4>1, FlatHead
      <4>3. Append(l, LF) \o <<>> = Append(l, LF) BY <3>8
      <4> QED BY <4>2, <4>3, FlatEmpty
    <3>16. Flat(h) = Text(p) BY <3>5 DEF h, p
    <3>17. Flat(SubSeq(L, 1, k + 1)) = Text(SubSeq(s, 1, z))
      BY <3>9, <3>12, <3>13, <3>14, <3>15, <3>16
    <3> QED BY <3>6, <3>17
  <2> QED BY <2>1
<1>6. \A k \in Nat : k \in T
  <2> HIDE DEF T
  <2> QED BY <1>4, <1>5, EveryNumber
<1>7. Flat(SubSeq(L, 1, n)) = Text(SubSeq(s, 1, upto(n)))
  <2>1. n \in T BY <1>2, <1>6
  <2>2. n <= n BY <1>2
  <2> QED BY <2>1, <2>2
<1>8. SubSeq(L, 1, n) = L BY <1>3
<1>9. Text(SubSeq(s, 1, upto(n))) = Text(s)
  <2> DEFINE m == upto(n)
             p == SubSeq(s, 1, m)
             r == SubSeq(s, m + 1, Len(s))
  <2>1. m \in 0 .. Len(s) /\ (m = 0 \/ s[m] = LF)
    <3>1. CASE n = 0 BY <1>2, <3>1
    <3>2. CASE n # 0
      <4>1. n \in 1 .. n BY <1>2, <3>2
      <4> QED BY <1>1, <1>2, <3>2, <4>1
    <3> QED BY <3>1, <3>2
  <2>2. \A i \in m + 1 .. Len(s) : s[i] # LF
    <3> SUFFICES ASSUME NEW i \in m + 1 .. Len(s), s[i] = LF PROVE FALSE OBVIOUS
    <3>1. i \in 1 .. Len(s) /\ m < i BY <1>2, <2>1
    <3>2. PICK j \in 1 .. n : nl[j] = i BY <1>1, <3>1
    <3>3. n # 0 /\ n \in 1 .. n /\ (j = n \/ j < n)
      <4> HIDE DEF n
      <4> QED BY <1>2, <3>2
    <3>4. j < n => nl[j] < nl[n] BY <1>1, <3>2, <3>3
    <3> QED BY <2>1, <3>1, <3>2, <3>3, <3>4
  <2> HIDE DEF m
  <2>3. /\ p \in Seq(B) /\ Len(p) = m /\ r \in Seq(B) /\ Len(r) = Len(s) - m
        /\ \A i \in 1 .. Len(r) : r[i] = s[m + i]
        /\ s = p \o r
    BY <2>1, Halves
  <2>4. Whole(p)
    <3>1. m # 0 => p[m] = s[m] BY <1>2, <2>1
    <3> HIDE DEF p
    <3>2. m = 0 => p = <<>> BY <2>3
    <3> QED BY <2>1, <2>3, <3>1, <3>2 DEF Whole
  <2> HIDE DEF p, r
  <2>5. ~HasNewline(r)
    <3>1. ASSUME NEW i \in 1 .. Len(r) PROVE r[i] # LF
      <4>1. m + i \in m + 1 .. Len(s) BY <1>2, <2>1, <2>3
      <4> QED BY <2>2, <2>3, <4>1
    <3>2. DOMAIN r = 1 .. Len(r) BY <2>3
    <3> QED BY <3>1, <3>2 DEF HasNewline
  <2>6. Text(p \o r) = Text(p) \o Text(r) BY <2>3, <2>4, TextConcat
  <2>7. Text(r) = <<>> BY <2>3, <2>5, TextFree
  <2>8. Text(p) \in Seq(B) BY <2>3, TextType
  <2>9. Text(s) = Text(p) BY <2>3, <2>6, <2>7, <2>8
  <2> QED BY <2>9 DEF p, m
<1> QED BY <1>7, <1>8, <1>9 DEF L


=============================================================================
