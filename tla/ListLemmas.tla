----------------------------- MODULE ListLemmas -----------------------------
(***************************************************************************)
(* Facts about the operators on sequences that the models use.  What a     *)
(* recursive definition computes is proved by induction on the length; the *)
(* principle is stated with a set, so that provers can apply it.           *)
(***************************************************************************)
EXTENDS Integers, SequencesExt, SequenceTheorems, WellFoundedInduction, TLAPS

\* Induction: a set that has 0, and n + 1 with n, has every natural number.
LEMMA Induction ==
  ASSUME NEW T, 0 \in T, \A n \in Nat : n \in T => n + 1 \in T
  PROVE  Nat \subseteq T
<1> DEFINE Less == {p \in Nat \X Nat : p[1] < p[2]}
           S == Nat \ T
<1>1. IsWellFoundedOn(Less, Nat)
  BY NatLessThanWellFounded DEF OpToRel
<1>2. \A k, m \in Nat : <<k, m>> \in Less <=> k < m
  OBVIOUS
<1> HIDE DEF Less
<1>3. SUFFICES ASSUME S # {} PROVE FALSE
  OBVIOUS
<1>4. S \subseteq Nat
  OBVIOUS
<1>5. PICK m \in S : \A k \in S : ~(<<k, m>> \in Less)
  <2> HIDE DEF S
  <2> QED
    BY <1>1, <1>3, <1>4, WFMin
<1>6. m - 1 \in Nat /\ m - 1 \notin S
  <2>1. m # 0 /\ m \in Nat
    OBVIOUS
  <2>2. \A k \in S : ~(k < m)
    BY <1>2, <1>4, <1>5, <2>1
  <2> QED
    BY <2>1, <2>2
<1> QED
  BY <1>6

-----------------------------------------------------------------------------
(* FlattenSeq.                                                             *)

IsFlatten(g, s, n) ==
  g = [i \in 1 .. n |-> IF i = 1 THEN s[i] ELSE g[i - 1] \o s[i]]

\* One of its equations.
LEMMA FlattenAt ==
  ASSUME NEW s, NEW n \in Nat, NEW g, IsFlatten(g, s, n), NEW i \in 1 .. n
  PROVE  g[i] = IF i = 1 THEN s[i] ELSE g[i - 1] \o s[i]
BY DEF IsFlatten

\* The function in the definition of FlattenSeq exists.
LEMMA FlattenExists ==
  ASSUME NEW s, NEW n \in Nat
  PROVE  \E g : IsFlatten(g, s, n)
<1> DEFINE T == {m \in Nat : \E g : IsFlatten(g, s, m)}
<1>1. \E g : IsFlatten(g, s, 0)
  <2>1. << >> = [i \in 1 .. 0 |-> IF i = 1 THEN s[i] ELSE << >>[i - 1] \o s[i]]
    OBVIOUS
  <2> QED
    BY <2>1 DEF IsFlatten
<1>2. ASSUME NEW m \in Nat, NEW g, IsFlatten(g, s, m)
      PROVE  \E h : IsFlatten(h, s, m + 1)
  <2> DEFINE last == IF m = 0 THEN s[1] ELSE g[m] \o s[m + 1]
             h == [i \in 1 .. m + 1 |-> IF i = m + 1 THEN last ELSE g[i]]
  <2>1. ASSUME NEW i \in 1 .. m + 1
        PROVE  h[i] = IF i = 1 THEN s[i] ELSE h[i - 1] \o s[i]
    <3>1. CASE i # m + 1
      <4>1. h[i] = g[i] /\ (i # 1 => h[i - 1] = g[i - 1]) /\ i \in 1 .. m
        BY <3>1
      <4> HIDE DEF h
      <4>2. g[i] = IF i = 1 THEN s[i] ELSE g[i - 1] \o s[i]
        BY <1>2, <4>1, FlattenAt
      <4> QED
        BY <4>1, <4>2
    <3>2. CASE i = m + 1
      <4>1. h[i] = last /\ (i # 1 => h[i - 1] = g[m])
        BY <3>2
      <4> HIDE DEF h
      <4> QED
        BY <4>1, <3>2
    <3> QED
      BY <3>1, <3>2
  <2>2. h = [i \in 1 .. m + 1 |-> h[i]]
    OBVIOUS
  <2> HIDE DEF h
  <2>3. h = [i \in 1 .. m + 1 |-> IF i = 1 THEN s[i] ELSE h[i - 1] \o s[i]]
    BY <2>1, <2>2
  <2> QED
    BY <2>3 DEF IsFlatten
<1>3. 0 \in T /\ \A m \in Nat : m \in T => m + 1 \in T
  BY <1>1, <1>2
<1> HIDE DEF T
<1>4. n \in T
  BY <1>3, Induction
<1> QED
  BY <1>4 DEF T

\* FlattenSeq is the last value of such a function.
LEMMA FlattenLast ==
  ASSUME NEW s, Len(s) \in Nat \ {0}
  PROVE  \E g : IsFlatten(g, s, Len(s)) /\ FlattenSeq(s) = g[Len(s)]
<1> DEFINE flatten == CHOOSE g : IsFlatten(g, s, Len(s))
<1>1. \E g : IsFlatten(g, s, Len(s))
  BY FlattenExists
<1>2. IsFlatten(flatten, s, Len(s))
  BY <1>1
<1>3. FlattenSeq(s) = flatten[Len(s)]
  BY DEF FlattenSeq, IsFlatten
<1> QED
  BY <1>2, <1>3

\* Two such functions agree where their sequences do.
LEMMA FlattenAgrees ==
  ASSUME NEW s, NEW t, NEW n \in Nat, NEW m \in Nat, n <= m,
         NEW g, IsFlatten(g, s, n), NEW h, IsFlatten(h, t, m),
         \A i \in 1 .. n : s[i] = t[i]
  PROVE  \A i \in 1 .. n : g[i] = h[i]
<1> DEFINE T == {k \in Nat : k \in 1 .. n => g[k] = h[k]}
<1>1. ASSUME NEW i \in 1 .. n
      PROVE  /\ g[i] = IF i = 1 THEN s[i] ELSE g[i - 1] \o s[i]
             /\ h[i] = IF i = 1 THEN t[i] ELSE h[i - 1] \o t[i]
  <2>1. i \in 1 .. m
    OBVIOUS
  <2> QED
    BY <2>1, FlattenAt
<1>2. 0 \in T
  OBVIOUS
<1>3. ASSUME NEW k \in Nat, k \in T PROVE k + 1 \in T
  BY <1>1, <1>3
<1> HIDE DEF T
<1>4. Nat \subseteq T
  BY <1>2, <1>3, Induction
<1> QED
  BY <1>4 DEF T

LEMMA FlattenFunctionTyped ==
  ASSUME NEW S, NEW s, NEW n \in Nat, \A i \in 1 .. n : s[i] \in Seq(S),
         NEW g, IsFlatten(g, s, n)
  PROVE  \A i \in 1 .. n : g[i] \in Seq(S)
<1> DEFINE T == {k \in Nat : k \in 1 .. n => g[k] \in Seq(S)}
<1>1. ASSUME NEW i \in 1 .. n
      PROVE  g[i] = IF i = 1 THEN s[i] ELSE g[i - 1] \o s[i]
  BY FlattenAt
<1>2. 0 \in T
  OBVIOUS
<1>3. ASSUME NEW k \in Nat, k \in T PROVE k + 1 \in T
  <2> SUFFICES ASSUME k + 1 \in 1 .. n PROVE g[k + 1] \in Seq(S)
    OBVIOUS
  <2>1. CASE k = 0
    BY <1>1, <2>1
  <2>2. CASE k # 0
    <3>1. k + 1 # 1 /\ (k + 1) - 1 = k
      BY <2>2
    <3>2. g[k + 1] = g[k] \o s[k + 1]
      BY <1>1, <3>1
    <3>3. g[k] \in Seq(S) /\ s[k + 1] \in Seq(S)
      BY <1>3, <2>2
    <3> QED
      BY <3>2, <3>3, ConcatProperties
  <2> QED
    BY <2>1, <2>2
<1> HIDE DEF T
<1>4. Nat \subseteq T
  BY <1>2, <1>3, Induction
<1> QED
  BY <1>4 DEF T

\* The concatenation of sequences over S is a sequence over S.
LEMMA FlattenTyped ==
  ASSUME NEW S, NEW s \in Seq(Seq(S))
  PROVE  FlattenSeq(s) \in Seq(S)
<1>1. Len(s) \in Nat /\ \A i \in 1 .. Len(s) : s[i] \in Seq(S)
  OBVIOUS
<1>2. CASE Len(s) = 0
  <2>1. s = << >> /\ FlattenSeq(s) = s
    BY <1>2 DEF FlattenSeq
  <2>2. << >> \in Seq(S)
    BY EmptySeq
  <2> QED
    BY <2>1, <2>2
<1>3. CASE Len(s) # 0
  BY <1>1, <1>3, FlattenLast, FlattenFunctionTyped
<1> QED
  BY <1>2, <1>3

\* One more sequence is appended at the end.
LEMMA FlattenAppend ==
  ASSUME NEW S, NEW s \in Seq(Seq(S)), NEW x \in Seq(S)
  PROVE  FlattenSeq(Append(s, x)) = FlattenSeq(s) \o x
<1> DEFINE t == Append(s, x)
           n == Len(s)
<1>1. /\ n \in Nat /\ Len(t) = n + 1 /\ t[n + 1] = x
      /\ \A i \in 1 .. n : s[i] = t[i]
  OBVIOUS
<1> HIDE DEF t
<1>2. PICK h : IsFlatten(h, t, n + 1) /\ FlattenSeq(t) = h[n + 1]
  BY <1>1, FlattenLast
<1>3. h[n + 1] = IF n = 0 THEN x ELSE h[n] \o x
  <2>1. n + 1 \in Nat /\ n + 1 \in 1 .. n + 1 /\ (n + 1) - 1 = n
        /\ (n + 1 = 1 <=> n = 0)
    BY <1>1
  <2>2. h[n + 1] = IF n + 1 = 1 THEN t[n + 1] ELSE h[(n + 1) - 1] \o t[n + 1]
    BY <1>2, <2>1, FlattenAt
  <2> QED
    BY <1>1, <2>1, <2>2
<1>4. CASE n = 0
  <2>1. FlattenSeq(s) = << >>
    BY <1>4 DEF FlattenSeq
  <2>2. << >> \o x = x
    BY ConcatEmptySeq
  <2> QED
    BY <1>2, <1>3, <1>4, <2>1, <2>2 DEF t
<1>5. CASE n # 0
  <2>1. PICK g : IsFlatten(g, s, n) /\ FlattenSeq(s) = g[n]
    BY <1>1, <1>5, FlattenLast
  <2>2. g[n] = h[n]
    <3>1. n + 1 \in Nat /\ n <= n + 1 /\ n \in 1 .. n
      BY <1>1, <1>5
    <3>2. \A i \in 1 .. n : g[i] = h[i]
      <4> HIDE DEF n
      <4> QED
        BY <1>1, <1>2, <2>1, <3>1, FlattenAgrees
    <3> QED
      BY <3>1, <3>2
  <2> QED
    BY <1>2, <1>3, <1>5, <2>1, <2>2 DEF t
<1> QED
  BY <1>4, <1>5

-----------------------------------------------------------------------------
(* Parts of sequences.                                                     *)

\* Reading on: what was taken and what is left make up the same sequence.
LEMMA TakeNext ==
  ASSUME NEW S, NEW o \in Seq(S), NEW s \in Seq(S), NEW i \in Nat, i < Len(s)
  PROVE  Append(o, s[i + 1]) \o SubSeq(s, i + 2, Len(s))
           = o \o SubSeq(s, i + 1, Len(s))
<1>1. i + 1 \in 1 .. Len(s) /\ Len(s) \in i + 1 .. Len(s) /\ s[i + 1] \in S
  OBVIOUS
<1> DEFINE r == SubSeq(s, i + 2, Len(s))
<1>2. r \in Seq(S) /\ <<s[i + 1]>> \in Seq(S)
  BY <1>1, SubSeqProperties
<1>3. SubSeq(s, i + 1, Len(s)) = <<s[i + 1]>> \o r
  BY <1>1, SubSeqRecursiveFirst
<1>4. Append(o, s[i + 1]) = o \o <<s[i + 1]>>
  BY <1>1, AppendIsConcat
<1> HIDE DEF r
<1>5. (o \o <<s[i + 1]>>) \o r = o \o (<<s[i + 1]>> \o r)
  BY <1>2, ConcatAssociative
<1> QED
  BY <1>3, <1>4, <1>5 DEF r

\* Nothing is left behind the last element.
LEMMA NothingLeft ==
  ASSUME NEW S, NEW o \in Seq(S), NEW s \in Seq(S)
  PROVE  o \o SubSeq(s, Len(s) + 1, Len(s)) = o
<1>1. SubSeq(s, Len(s) + 1, Len(s)) = << >>
  BY SubSeqEmpty
<1> QED
  BY <1>1, ConcatEmptySeq

LEMMA PrefixOfConcat ==
  ASSUME NEW S, NEW s \in Seq(S), NEW t \in Seq(S)
  PROVE  IsPrefix(s, s \o t)
<1>1. /\ s \o t \in Seq(S) /\ Len(s \o t) = Len(s) + Len(t)
      /\ \A i \in 1 .. Len(s) : (s \o t)[i] = s[i]
  BY ConcatProperties
<1>2. SubSeq(s, 1, Len(s)) = SubSeq(s \o t, 1, Len(s))
  BY <1>1
<1> QED
  BY <1>1, <1>2 DEF IsPrefix

LEMMA PrefixOfSeq ==
  ASSUME NEW S, NEW s \in Seq(S), NEW n \in Nat, n <= Len(s)
  PROVE  IsPrefix(SubSeq(s, 1, n), s)
<1>1. /\ SubSeq(s, 1, n) \in Seq(S) /\ Len(SubSeq(s, 1, n)) = n
  BY SubSeqProperties
<1>2. SubSeq(SubSeq(s, 1, n), 1, n) = SubSeq(s, 1, n)
  BY <1>1, SubSeqFull
<1> QED
  BY <1>1, <1>2 DEF IsPrefix

\* A sequence that is cut out of another has its elements.
LEMMA SubSeqTyped ==
  ASSUME NEW S, NEW s \in Seq(S), NEW m \in Nat \ {0}, NEW n \in Nat, n <= Len(s)
  PROVE  SubSeq(s, m, n) \in Seq(S)
<1>1. \A i \in m .. n : s[i] \in S
  OBVIOUS
<1> QED
  BY <1>1, SubSeqProperties

\* One element more of a sequence.
LEMMA TakeAppend ==
  ASSUME NEW S, NEW s \in Seq(S), NEW n \in Nat, n < Len(s)
  PROVE  SubSeq(s, 1, n + 1) = Append(SubSeq(s, 1, n), s[n + 1])
<1>1. Len(s) \in Nat /\ 1 \in 1 .. Len(s) /\ n + 1 \in 1 .. Len(s) /\ s[n + 1] \in S
      /\ n + 1 - 1 = n
  OBVIOUS
<1>2. SubSeq(s, 1, n) \in Seq(S)
  BY SubSeqTyped
<1>3. SubSeq(s, 1, n + 1) = SubSeq(s, 1, n) \o <<s[n + 1]>>
  BY <1>1, SubSeqRecursiveSecond
<1> QED
  BY <1>1, <1>2, <1>3, AppendIsConcat
=============================================================================
