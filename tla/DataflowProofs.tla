--------------------------- MODULE DataflowProofs ---------------------------
(***************************************************************************)
(* What TLAPS proves of the engine (Dataflow): in every graph of functors, *)
(* whatever they hold, run() queues a functor at most once and its mark    *)
(* tells exactly whether it is queued.                                     *)
(***************************************************************************)
EXTENDS Dataflow, ListLemmas, FiniteSetTheorems

-----------------------------------------------------------------------------
(* Ask.                                                                    *)

AskStep(before, x, S) ==
  IF x \in S /\ x \notin ToSet(before) THEN Append(before, x) ELSE before

IsAsk(g, seq, S, n) ==
  g = [k \in 0 .. n |-> IF k = 0 THEN <<>> ELSE AskStep(g[k - 1], seq[k], S)]

\* Its equations.
LEMMA AskAt ==
  ASSUME NEW seq, NEW S, NEW n \in Nat, NEW g, IsAsk(g, seq, S, n),
         NEW k \in 0 .. n
  PROVE  g[k] = IF k = 0 THEN <<>> ELSE AskStep(g[k - 1], seq[k], S)
BY DEF IsAsk

\* The function in the definition of Ask exists.
LEMMA AskExists ==
  ASSUME NEW seq, NEW S, NEW n \in Nat
  PROVE  \E g : IsAsk(g, seq, S, n)
<1> DEFINE T == {m \in Nat : \E g : IsAsk(g, seq, S, m)}
<1>1. \E g : IsAsk(g, seq, S, 0)
  <2> DEFINE g == [k \in 0 .. 0 |-> <<>>]
  <2>1. g = [k \in 0 .. 0 |->
               IF k = 0 THEN <<>> ELSE AskStep(g[k - 1], seq[k], S)]
    OBVIOUS
  <2> HIDE DEF g
  <2> QED
    BY <2>1 DEF IsAsk
<1>2. ASSUME NEW m \in Nat, NEW g, IsAsk(g, seq, S, m)
      PROVE  \E h : IsAsk(h, seq, S, m + 1)
  <2> DEFINE last == AskStep(g[m], seq[m + 1], S)
             h == [k \in 0 .. m + 1 |-> IF k = m + 1 THEN last ELSE g[k]]
  <2>1. ASSUME NEW k \in 0 .. m + 1
        PROVE  h[k] = IF k = 0 THEN <<>> ELSE AskStep(h[k - 1], seq[k], S)
    <3>1. CASE k # m + 1
      <4>1. h[k] = g[k] /\ (k # 0 => h[k - 1] = g[k - 1]) /\ k \in 0 .. m
        BY <3>1
      <4> HIDE DEF h
      <4>2. g[k] = IF k = 0 THEN <<>> ELSE AskStep(g[k - 1], seq[k], S)
        BY <1>2, <4>1, AskAt
      <4> QED
        BY <4>1, <4>2
    <3>2. CASE k = m + 1
      <4>1. h[k] = last /\ h[k - 1] = g[m] /\ k # 0
        BY <3>2
      <4> HIDE DEF h
      <4> QED
        BY <4>1, <3>2
    <3> QED
      BY <3>1, <3>2
  <2>2. h = [k \in 0 .. m + 1 |-> h[k]]
    OBVIOUS
  <2> HIDE DEF h
  <2>3. h = [k \in 0 .. m + 1 |->
               IF k = 0 THEN <<>> ELSE AskStep(h[k - 1], seq[k], S)]
    BY <2>1, <2>2
  <2> QED
    BY <2>3 DEF IsAsk
<1>3. 0 \in T /\ \A m \in Nat : m \in T => m + 1 \in T
  BY <1>1, <1>2
<1> HIDE DEF T
<1>4. n \in T
  BY <1>3, Induction
<1> QED
  BY <1>4 DEF T

\* One more element behind an injective sequence that does not have it.
LEMMA AppendNew ==
  ASSUME NEW N, NEW s \in Seq(N), IsInjective(s), NEW x \in N, x \notin ToSet(s)
  PROVE  /\ Append(s, x) \in Seq(N) /\ IsInjective(Append(s, x))
         /\ ToSet(Append(s, x)) = ToSet(s) \cup {x}
<1> DEFINE t == Append(s, x)
<1>1. /\ t \in Seq(N) /\ Len(t) = Len(s) + 1 /\ t[Len(s) + 1] = x
      /\ \A i \in 1 .. Len(s) : t[i] = s[i]
      /\ Len(s) \in Nat /\ DOMAIN s = 1 .. Len(s) /\ DOMAIN t = 1 .. Len(s) + 1
  OBVIOUS
<1> HIDE DEF t
<1>2. \A i \in 1 .. Len(s) : s[i] # x
  BY <1>1 DEF ToSet
<1>3. ASSUME NEW i \in DOMAIN t, NEW j \in DOMAIN t, t[i] = t[j]
      PROVE  i = j
  <2>1. i \in 1 .. Len(s) \/ i = Len(s) + 1
    BY <1>1
  <2>2. j \in 1 .. Len(s) \/ j = Len(s) + 1
    BY <1>1
  <2> QED
    BY <1>1, <1>2, <1>3, <2>1, <2>2 DEF IsInjective
<1>4. ToSet(t) = ToSet(s) \cup {x}
  <2>1. ASSUME NEW y \in ToSet(t) PROVE y \in ToSet(s) \cup {x}
    <3>1. PICK i \in DOMAIN t : y = t[i]
      BY DEF ToSet
    <3>2. CASE i = Len(s) + 1
      BY <1>1, <3>1, <3>2
    <3>3. CASE i # Len(s) + 1
      <4>1. i \in DOMAIN s /\ y = s[i]
        BY <1>1, <3>1, <3>3
      <4> QED
        BY <4>1 DEF ToSet
    <3> QED
      BY <3>2, <3>3
  <2>2. x \in ToSet(t)
    BY <1>1 DEF ToSet
  <2>3. ASSUME NEW y \in ToSet(s) PROVE y \in ToSet(t)
    <3>1. PICK i \in DOMAIN s : y = s[i]
      BY DEF ToSet
    <3>2. i \in DOMAIN t /\ t[i] = y
      BY <1>1, <3>1
    <3> QED
      BY <3>2 DEF ToSet
  <2> QED
    BY <2>1, <2>2, <2>3
<1> QED
  BY <1>1, <1>3, <1>4 DEF t, IsInjective

\* Ask returns functors of seq that are in S, each once.
LEMMA AskTyped ==
  ASSUME NEW N, NEW seq \in Seq(N), NEW S
  PROVE  /\ Ask(seq, S) \in Seq(N) /\ IsInjective(Ask(seq, S))
         /\ ToSet(Ask(seq, S)) \subseteq S
<1> DEFINE n == Len(seq)
           asked == CHOOSE g : IsAsk(g, seq, S, n)
           T == {k \in Nat : k \in 0 .. n =>
                   /\ asked[k] \in Seq(N) /\ IsInjective(asked[k])
                   /\ ToSet(asked[k]) \subseteq S}
<1>1. n \in Nat /\ \A k \in 1 .. n : seq[k] \in N
  OBVIOUS
<1>2. IsAsk(asked, seq, S, n)
  <2> HIDE DEF n
  <2> QED
    BY <1>1, AskExists
<1>3. Ask(seq, S) = asked[n]
  BY DEF Ask, IsAsk, AskStep
<1> HIDE DEF n, asked
<1>4. \A k \in 0 .. n :
        asked[k] = IF k = 0 THEN <<>> ELSE AskStep(asked[k - 1], seq[k], S)
  BY <1>1, <1>2, AskAt
<1>5. 0 \in T
  <2>1. asked[0] = <<>>
    BY <1>1, <1>4
  <2>2. /\ <<>> \in Seq(N) /\ IsInjective(<<>>) /\ ToSet(<<>>) \subseteq S
    BY DEF IsInjective, ToSet
  <2> QED
    BY <2>1, <2>2
<1>6. ASSUME NEW k \in Nat, k \in T
      PROVE  k + 1 \in T
  <2> SUFFICES ASSUME k + 1 \in 0 .. n
               PROVE  /\ asked[k + 1] \in Seq(N) /\ IsInjective(asked[k + 1])
                      /\ ToSet(asked[k + 1]) \subseteq S
    OBVIOUS
  <2> DEFINE b == asked[k]
             x == seq[k + 1]
  <2>1. /\ b \in Seq(N) /\ IsInjective(b) /\ ToSet(b) \subseteq S
        /\ x \in N
    BY <1>1, <1>6
  <2>2. asked[k + 1] = AskStep(b, x, S)
    <3>1. k + 1 # 0 /\ (k + 1) - 1 = k
      OBVIOUS
    <3> QED
      BY <1>4, <3>1
  <2> HIDE DEF b, x, T
  <2>3. CASE x \in S /\ x \notin ToSet(b)
    <3>1. asked[k + 1] = Append(b, x)
      BY <2>2, <2>3 DEF AskStep
    <3>2. /\ Append(b, x) \in Seq(N) /\ IsInjective(Append(b, x))
          /\ ToSet(Append(b, x)) = ToSet(b) \cup {x}
      BY <2>1, <2>3, AppendNew
    <3> QED
      BY <2>1, <2>3, <3>1, <3>2
  <2>4. CASE ~(x \in S /\ x \notin ToSet(b))
    BY <2>1, <2>2, <2>4 DEF AskStep
  <2> QED
    BY <2>3, <2>4
<1> HIDE DEF T
<1>7. n \in T
  BY <1>1, <1>5, <1>6, Induction
<1> QED
  BY <1>1, <1>3, <1>7 DEF T

-----------------------------------------------------------------------------
(* The inductive invariant.                                                *)

Status == {"null", "to_p", "p", "end"}

\* A functor has its members, of which only two have a type of their own:
\* the values are whatever the extractors hold.
Members == {"has", "val", "pos", "grouping", "last", "acc", "data"}
IsFunctor(r) ==
  /\ r = [x \in Members |-> r[x]]
  /\ r.has \in BOOLEAN /\ r.pos \in Nat

Functors(f) == DOMAIN f = Node /\ \A n \in Node : IsFunctor(f[n])
FunctorsInv == Functors(fn)

GraphInv == graph \in Graphs /\ outputs \in Seq(Node)

FlowInv ==
  /\ GraphInv
  /\ FunctorsInv
  /\ pc \in {"bfs", "pop", "done"}
  /\ queue \in Seq(Node) /\ stack \in Seq(Node)
  /\ status \in [Node -> Status]
  /\ QueuedOnce

\* A functor after one of its members was assigned.
LEMMA AssignMember ==
  ASSUME NEW r, IsFunctor(r), NEW x \in Members, NEW v,
         x = "has" => v \in BOOLEAN, x = "pos" => v \in Nat
  PROVE  IsFunctor([r EXCEPT ![x] = v])
<1> DEFINE q == [r EXCEPT ![x] = v]
<1>1. q = [y \in Members |-> IF y = x THEN v ELSE r[y]]
  BY DEF IsFunctor
<1>2. "has" \in Members /\ "pos" \in Members
  BY DEF Members
<1> HIDE DEF q
<1>3. q = [y \in Members |-> q[y]]
  BY <1>1
<1>4. q.has \in BOOLEAN
  <2>1. CASE x = "has"
    <3>1. q["has"] = v
      BY <1>1, <1>2, <2>1
    <3> QED
      BY <2>1, <3>1
  <2>2. CASE x # "has"
    <3>1. q["has"] = r["has"]
      BY <1>1, <1>2, <2>2
    <3> QED
      BY <3>1 DEF IsFunctor
  <2> QED
    BY <2>1, <2>2
<1>5. q.pos \in Nat
  BY <1>1, <1>2 DEF IsFunctor
<1> QED
  BY <1>3, <1>4, <1>5 DEF IsFunctor, q

LEMMA AssignOne ==
  ASSUME NEW r, IsFunctor(r), NEW v
  PROVE  /\ IsFunctor([r EXCEPT !.val = v]) /\ IsFunctor([r EXCEPT !.acc = v])
         /\ IsFunctor([r EXCEPT !.data = v]) /\ IsFunctor([r EXCEPT !.last = v])
         /\ IsFunctor([r EXCEPT !.grouping = v])
         /\ v \in BOOLEAN => IsFunctor([r EXCEPT !.has = v])
         /\ v \in Nat => IsFunctor([r EXCEPT !.pos = v])
<1>1. /\ "val" \in Members /\ "acc" \in Members /\ "data" \in Members
      /\ "last" \in Members /\ "grouping" \in Members /\ "has" \in Members
      /\ "pos" \in Members
  BY DEF Members
<1>2. /\ IsFunctor([r EXCEPT !["val"] = v]) /\ IsFunctor([r EXCEPT !["acc"] = v])
      /\ IsFunctor([r EXCEPT !["data"] = v]) /\ IsFunctor([r EXCEPT !["last"] = v])
      /\ IsFunctor([r EXCEPT !["grouping"] = v])
  BY <1>1, AssignMember
<1>3. ASSUME v \in BOOLEAN PROVE IsFunctor([r EXCEPT !["has"] = v])
  BY <1>1, <1>3, AssignMember
<1>4. ASSUME v \in Nat PROVE IsFunctor([r EXCEPT !["pos"] = v])
  BY <1>1, <1>4, AssignMember
<1> QED
  BY <1>2, <1>3, <1>4

-----------------------------------------------------------------------------
(* process() leaves functors.                                              *)

LEMMA NodeFacts ==
  ASSUME GraphInv
  PROVE  /\ Len(graph.kind) \in Nat \ {0}
         /\ \A n \in Node : /\ n \in Nat /\ Kind(n) \in Kinds
                            /\ Preds(n) \in Seq(Node)
<1>1. /\ Len(graph.kind) \in Nat \ {0}
      /\ \A n \in Node : graph.kind[n] \in Kinds /\ graph.preds[n] \in Seq(1 .. n - 1)
  BY GraphAssumption DEF GraphInv, Node
<1>2. ASSUME NEW n \in Node
      PROVE  n \in Nat /\ Kind(n) \in Kinds /\ Preds(n) \in Seq(Node)
  <2>1. n \in Nat /\ 1 .. n - 1 \subseteq Node
    BY <1>1 DEF Node
  <2>2. PICK p : p = graph.preds[n]
    OBVIOUS
  <2>3. PICK N : N = Node
    OBVIOUS
  <2>4. p \in Seq(1 .. n - 1) /\ 1 .. n - 1 \subseteq N
    BY <1>1, <2>1, <2>2, <2>3
  <2>5. p \in Seq(N)
    BY <2>4, SeqMonotonic
  <2> QED
    BY <1>1, <2>1, <2>2, <2>3, <2>5 DEF Kind, Preds
<1> QED
  BY <1>1, <1>2

LEMMA SetFunctor ==
  ASSUME NEW f, Functors(f), NEW n \in Node, NEW r, IsFunctor(r)
  PROVE  Functors([f EXCEPT ![n] = r])
<1>1. /\ DOMAIN [f EXCEPT ![n] = r] = Node
      /\ \A m \in Node : [f EXCEPT ![n] = r][m] = IF m = n THEN r ELSE f[m]
  BY DEF Functors
<1>2. PICK h : h = [f EXCEPT ![n] = r]
  OBVIOUS
<1> QED
  BY <1>1 DEF Functors

LEMMA ConsumeTyped ==
  ASSUME FunctorsInv, NEW n \in Node, NEW r, IsFunctor(r), NEW K
  PROVE  Functors(Consume(n, r, K))
<1> DEFINE e(m) == IF m = n THEN r
                   ELSE IF \E k \in K : Preds(n)[k] = m
                        THEN [fn[m] EXCEPT !.has = FALSE] ELSE fn[m]
<1>1. Consume(n, r, K) = [m \in Node |-> e(m)]
  BY DEF Consume
<1>2. ASSUME NEW m \in Node PROVE IsFunctor(e(m))
  <2>1. IsFunctor(fn[m])
    BY DEF FunctorsInv, Functors
  <2>2. PICK s : s = [fn[m] EXCEPT !.has = FALSE]
    OBVIOUS
  <2>3. IsFunctor(s)
    BY <2>1, <2>2, AssignOne
  <2>4. e(m) = r \/ e(m) = s \/ e(m) = fn[m]
    BY <2>2
  <2> HIDE DEF e
  <2> QED
    BY <2>1, <2>3, <2>4
<1> HIDE DEF e
<1> QED
  BY <1>1, <1>2 DEF Functors

\* A result with a functor of its own, or with none of them changed.
LEMMA ResultTyped ==
  ASSUME FunctorsInv, NEW n \in Node, NEW r, IsFunctor(r), NEW K, NEW ok
  PROVE  /\ Functors(Result(ok, Consume(n, r, K)).fn)
         /\ Functors(Result(ok, [fn EXCEPT ![n] = r]).fn)
         /\ Functors(Result(ok, fn).fn)
<1>1. \A f : Result(ok, f).fn = f
  BY DEF Result
<1>2. Functors(Consume(n, r, K))
  BY ConsumeTyped
<1>3. Functors([fn EXCEPT ![n] = r])
  BY SetFunctor DEF FunctorsInv
<1> QED
  BY <1>1, <1>2, <1>3 DEF FunctorsInv

\* The least number of a set.
LEMMA LeastNumber ==
  ASSUME NEW S \in SUBSET Nat, S # {}
  PROVE  Min(S) \in S
<1> DEFINE Less == {p \in Nat \X Nat : p[1] < p[2]}
<1>1. IsWellFoundedOn(Less, Nat)
  BY NatLessThanWellFounded DEF OpToRel
<1>2. \A k, m \in Nat : <<k, m>> \in Less <=> k < m
  OBVIOUS
<1> HIDE DEF Less
<1>3. PICK m \in S : \A k \in S : ~(<<k, m>> \in Less)
  BY <1>1, WFMin
<1>4. \A k \in S : m <= k
  <2>1. m \in Nat /\ \A k \in S : k \in Nat
    OBVIOUS
  <2>2. \A k \in S : ~(k < m)
    BY <1>2, <1>3, <2>1
  <2> QED
    BY <2>1, <2>2
<1> QED
  BY <1>4 DEF Min

\* process() of the functors with one input.
LEMMA OneInputTyped ==
  ASSUME FunctorsInv, NEW n \in Node
  PROVE  /\ Functors(RawProcess(n).fn)
         /\ Functors(FilterProcess(n).fn) /\ Functors(TrimProcess(n).fn)
         /\ Functors(ToTypeProcess(n).fn) /\ Functors(CollectProcess(n).fn)
         /\ Functors(GroupProcess(n).fn)
<1>1. PICK s : s = fn[n]
  OBVIOUS
<1>2. IsFunctor(s)
  BY <1>1 DEF FunctorsInv, Functors
<1>3. PICK v : v = Value(Preds(n)[1])
  OBVIOUS
<1>a. ASSUME NEW ok, NEW f, Functors(f) PROVE Functors(Result(ok, f).fn)
  BY <1>a DEF Result
<1>b. Functors(Result(FALSE, fn).fn)
  BY <1>a DEF FunctorsInv
<1>4. Functors(RawProcess(n).fn)
  <2> DEFINE i == s.pos + 1
             r == [s EXCEPT !.pos = i]
  <2>1. i \in Nat
    BY <1>2 DEF IsFunctor
  <2>2. IsFunctor(r)
    <3> HIDE DEF i
    <3> QED
      BY <1>2, <2>1, AssignOne
  <2>3. PICK f : f = [fn EXCEPT ![n] = r]
    OBVIOUS
  <2>4. [fn EXCEPT ![n] = [@ EXCEPT !.pos = fn[n].pos + 1]] = f
    BY <1>1, <2>3
  <2> HIDE DEF r
  <2>5. Functors(f)
    BY <2>2, <2>3, SetFunctor DEF FunctorsInv
  <2>6. PICK ok : ok = (s.pos + 1 <= Len(s.data))
    OBVIOUS
  <2>7. RawProcess(n) = Result(FALSE, fn) \/ RawProcess(n) = Result(ok, f)
    BY <1>1, <2>4, <2>6 DEF RawProcess
  <2> QED
    BY <1>a, <1>b, <2>5, <2>7
<1>5. Functors(FilterProcess(n).fn)
  <2>1. PICK ok : ok = (v[1] \in Keep)
    OBVIOUS
  <2>2. PICK w : w = IF ok THEN v ELSE s.val
    OBVIOUS
  <2>3. PICK r : r = [s EXCEPT !.val = w]
    OBVIOUS
  <2>4. IsFunctor(r)
    BY <1>2, <2>3, AssignOne
  <2>5. Functors(Consume(n, r, {1}))
    BY <2>4, ConsumeTyped
  <2>6. \/ FilterProcess(n) = Result(FALSE, fn)
        \/ FilterProcess(n) = Result(ok, Consume(n, r, {1}))
    BY <1>1, <1>3, <2>1, <2>2, <2>3 DEF FilterProcess
  <2> QED
    BY <1>a, <1>b, <2>5, <2>6
<1>6. Functors(TrimProcess(n).fn)
  <2>1. PICK r : r = [s EXCEPT !.val = v]
    OBVIOUS
  <2>2. Functors(Consume(n, r, {1}))
    BY <1>2, <2>1, AssignOne, ConsumeTyped
  <2>3. \/ TrimProcess(n) = Result(FALSE, fn)
        \/ TrimProcess(n) = Result(TRUE, Consume(n, r, {1}))
    BY <1>1, <1>3, <2>1 DEF TrimProcess
  <2> QED
    BY <1>a, <1>b, <2>2, <2>3
<1>7. Functors(ToTypeProcess(n).fn)
  BY <1>b, <1>6 DEF ToTypeProcess
<1>8. Functors(CollectProcess(n).fn)
  <2>1. PICK d : d = Append(s.data, v)
    OBVIOUS
  <2>2. PICK r : r = [s EXCEPT !.data = d]
    OBVIOUS
  <2>3. Functors(Consume(n, r, {1}))
    BY <1>2, <2>2, AssignOne, ConsumeTyped
  <2>4. \/ CollectProcess(n) = Result(FALSE, fn)
        \/ CollectProcess(n) = Result(TRUE, Consume(n, r, {1}))
    BY <1>1, <1>3, <2>1, <2>2 DEF CollectProcess
  <2> QED
    BY <1>a, <1>b, <2>3, <2>4
<1>9. Functors(GroupProcess(n).fn)
  <2>1. PICK q : q = [s EXCEPT !.grouping = FALSE, !.val = <<s.val[1], s.acc>>]
    OBVIOUS
  <2>2. PICK c : c = [s EXCEPT !.acc = s.acc + v[2]]
    OBVIOUS
  <2>3. PICK d : d = [s EXCEPT !.val = <<v[1], s.acc>>, !.last = v[1], !.acc = v[2]]
    OBVIOUS
  <2>4. PICK e : e = [s EXCEPT !.grouping = TRUE, !.last = v[1],
                        !.val = <<v[1], s.val[2]>>, !.acc = v[2]]
    OBVIOUS
  <2>5. IsFunctor(q)
    <3>1. PICK x : x = [s EXCEPT !.grouping = FALSE]
      OBVIOUS
    <3>2. q = [x EXCEPT !.val = <<s.val[1], s.acc>>]
      BY <2>1, <3>1
    <3> QED
      BY <1>2, <3>1, <3>2, AssignOne
  <2>6. IsFunctor(c)
    BY <1>2, <2>2, AssignOne
  <2>7. IsFunctor(d)
    <3>1. PICK x : x = [s EXCEPT !.val = <<v[1], s.acc>>]
      OBVIOUS
    <3>2. PICK y : y = [x EXCEPT !.last = v[1]]
      OBVIOUS
    <3>3. d = [y EXCEPT !.acc = v[2]]
      BY <2>3, <3>1, <3>2
    <3> QED
      BY <1>2, <3>1, <3>2, <3>3, AssignOne
  <2>8. IsFunctor(e)
    <3>1. PICK x : x = [s EXCEPT !.grouping = TRUE]
      OBVIOUS
    <3>2. PICK y : y = [x EXCEPT !.last = v[1]]
      OBVIOUS
    <3>3. PICK z : z = [y EXCEPT !.val = <<v[1], s.val[2]>>]
      OBVIOUS
    <3>4. e = [z EXCEPT !.acc = v[2]]
      BY <2>4, <3>1, <3>2, <3>3
    <3> QED
      BY <1>2, <3>1, <3>2, <3>3, <3>4, AssignOne
  <2>9. /\ Functors([fn EXCEPT ![n] = q]) /\ Functors(Consume(n, c, {1}))
        /\ Functors(Consume(n, d, {1})) /\ Functors(Consume(n, e, {1}))
    BY <2>5, <2>6, <2>7, <2>8, SetFunctor, ConsumeTyped DEF FunctorsInv
  <2>10. \/ GroupProcess(n) = Result(FALSE, fn)
         \/ GroupProcess(n) = Result(TRUE, [fn EXCEPT ![n] = q])
         \/ GroupProcess(n) = Result(FALSE, Consume(n, c, {1}))
         \/ GroupProcess(n) = Result(TRUE, Consume(n, d, {1}))
         \/ GroupProcess(n) = Result(FALSE, Consume(n, e, {1}))
    BY <1>1, <1>3, <2>1, <2>2, <2>3, <2>4 DEF GroupProcess
  <2> QED
    BY <1>a, <1>b, <2>9, <2>10
<1> QED
  BY <1>4, <1>5, <1>6, <1>7, <1>8, <1>9

\* process() of split, and of the functors with several inputs.
LEMMA SplitTyped ==
  ASSUME FunctorsInv, NEW n \in Node
  PROVE  Functors(SplitProcess(n).fn)
<1>1. PICK v : v = Value(Preds(n)[1])
  OBVIOUS
<1>2. PICK f : f = Consume(n, fn[n], {1})
  OBVIOUS
<1>3. Functors(f)
  BY <1>2, ConsumeTyped DEF FunctorsInv, Functors
<1> DEFINE e(m) == IF Kind(m) = "tap" /\ Preds(m)[1] = n
                   THEN [f[m] EXCEPT !.data = Append(f[m].data, v)] ELSE f[m]
<1>4. ASSUME NEW m \in Node PROVE IsFunctor(e(m))
  <2>1. PICK r : r = f[m]
    OBVIOUS
  <2>2. PICK d : d = Append(r.data, v)
    OBVIOUS
  <2>3. IsFunctor(r) /\ IsFunctor([r EXCEPT !.data = d])
    BY <1>3, <2>1, AssignOne DEF Functors
  <2>4. e(m) = [r EXCEPT !.data = d] \/ e(m) = r
    BY <2>1, <2>2
  <2> HIDE DEF e
  <2> QED
    BY <2>3, <2>4
<1>5. PICK h : h = [m \in Node |-> e(m)]
  OBVIOUS
<1>6. \/ SplitProcess(n) = Result(FALSE, fn)
      \/ SplitProcess(n) = Result(TRUE, h)
  BY <1>1, <1>2, <1>5 DEF SplitProcess
<1>7. Functors(h)
  <2> HIDE DEF e
  <2> QED
    BY <1>4, <1>5 DEF Functors
<1> QED
  BY <1>6, <1>7 DEF Result, FunctorsInv

LEMMA ManyInputsTyped ==
  ASSUME GraphInv, FunctorsInv, NEW n \in Node
  PROVE  /\ Functors(ConcatProcess(n).fn) /\ Functors(UnionProcess(n).fn)
         /\ Functors(IntersectionProcess(n).fn)
         /\ Functors(DifferenceProcess(n).fn)
<1>1. PICK s : s = fn[n]
  OBVIOUS
<1>2. IsFunctor(s)
  BY <1>1 DEF FunctorsInv, Functors
<1>a. ASSUME NEW ok, NEW f, Functors(f) PROVE Functors(Result(ok, f).fn)
  BY <1>a DEF Result
<1>b. Functors(Result(FALSE, fn).fn)
  BY <1>a DEF FunctorsInv
<1>c. ASSUME NEW v, NEW K
      PROVE  Functors(Consume(n, [s EXCEPT !.val = v], K))
  <2>1. PICK r : r = [s EXCEPT !.val = v]
    OBVIOUS
  <2>2. IsFunctor(r)
    BY <1>2, <2>1, AssignOne
  <2>3. Functors(Consume(n, r, K))
    BY <2>2, ConsumeTyped
  <2> QED
    BY <2>1, <2>3
<1>d. ASSUME NEW K PROVE Functors(Consume(n, s, K))
  BY <1>2, ConsumeTyped
<1>3. Functors(ConcatProcess(n).fn)
  <2>1. PICK ahead : ahead = {k \in Live(n) : k > s.pos}
    OBVIOUS
  <2>2. PICK k : k = Min(ahead)
    OBVIOUS
  <2>3. Len(Preds(n)) \in Nat /\ ahead \subseteq 1 .. Len(Preds(n))
    BY <2>1, NodeFacts DEF Live
  <2>4. CASE ahead = {}
    <3>1. PICK i : i = Len(Preds(n))
      OBVIOUS
    <3>2. PICK r : r = [s EXCEPT !.pos = i]
      OBVIOUS
    <3>3. IsFunctor(r)
      BY <1>2, <2>3, <3>1, <3>2, AssignOne
    <3>4. Functors([fn EXCEPT ![n] = r])
      BY <3>3, SetFunctor DEF FunctorsInv
    <3>5. ConcatProcess(n) = Result(FALSE, [fn EXCEPT ![n] = r])
      BY <1>1, <2>1, <2>4, <3>1, <3>2 DEF ConcatProcess
    <3> QED
      BY <1>a, <3>4, <3>5
  <2>5. CASE ahead # {}
    <3>1. k \in ahead
      <4>1. ahead \in SUBSET Nat
        BY <2>3
      <4> QED
        BY <2>2, <2>5, <4>1, LeastNumber
    <3>2. k - 1 \in Nat
      BY <2>3, <3>1
    <3>3. PICK i : i = k - 1
      OBVIOUS
    <3>4. PICK v : v = Value(Preds(n)[k])
      OBVIOUS
    <3>5. PICK q : q = [s EXCEPT !.pos = i]
      OBVIOUS
    <3>6. PICK r : r = [s EXCEPT !.pos = i, !.val = v]
      OBVIOUS
    <3>7. IsFunctor(r)
      <4>1. r = [q EXCEPT !.val = v]
        BY <3>5, <3>6
      <4>2. IsFunctor(q)
        BY <1>2, <3>2, <3>3, <3>5, AssignOne
      <4> QED
        BY <4>1, <4>2, AssignOne
    <3>8. Functors(Consume(n, r, {k}))
      BY <3>7, ConsumeTyped
    <3>9. ConcatProcess(n) = Result(TRUE, Consume(n, r, {k}))
      BY <1>1, <2>1, <2>2, <2>5, <3>3, <3>4, <3>6 DEF ConcatProcess
    <3> QED
      BY <1>a, <3>8, <3>9
  <2> QED
    BY <2>4, <2>5
<1>4. Functors(UnionProcess(n).fn)
  <2>1. PICK K : K = {k \in Live(n) : KeyAt(n, k) = LeastKey(n, Live(n))}
    OBVIOUS
  <2>2. PICK v : v = Value(Preds(n)[Min(K)])
    OBVIOUS
  <2>3. \/ UnionProcess(n) = Result(FALSE, fn)
        \/ UnionProcess(n) = Result(TRUE, Consume(n, [s EXCEPT !.val = v], K))
    BY <1>1, <2>1, <2>2 DEF UnionProcess
  <2> QED
    BY <1>a, <1>b, <1>c, <2>3
<1>5. Functors(IntersectionProcess(n).fn)
  <2>1. PICK A : A = DOMAIN Preds(n)
    OBVIOUS
  <2>2. PICK K : K = {k \in A : KeyAt(n, k) = LeastKey(n, A)}
    OBVIOUS
  <2>3. PICK v : v = Value(Preds(n)[Len(Preds(n))])
    OBVIOUS
  <2>4. \/ IntersectionProcess(n) = Result(FALSE, fn)
        \/ IntersectionProcess(n) = Result(K = A, Consume(n, [s EXCEPT !.val = v], K))
        \/ IntersectionProcess(n) = Result(K = A, Consume(n, s, K))
    BY <1>1, <2>1, <2>2, <2>3 DEF IntersectionProcess
  <2> QED
    BY <1>a, <1>b, <1>c, <1>d, <2>4
<1>6. Functors(DifferenceProcess(n).fn)
  <2>1. PICK K : K = {k \in Live(n) : KeyAt(n, k) = LeastKey(n, Live(n))}
    OBVIOUS
  <2>2. PICK v : v = Value(Preds(n)[1])
    OBVIOUS
  <2>3. \/ DifferenceProcess(n) = Result(FALSE, fn)
        \/ DifferenceProcess(n) = Result(K = {1}, Consume(n, [s EXCEPT !.val = v], K))
        \/ DifferenceProcess(n) = Result(K = {1}, Consume(n, s, K))
    BY <1>1, <2>1, <2>2 DEF DifferenceProcess
  <2> QED
    BY <1>a, <1>b, <1>c, <1>d, <2>3
<1> QED
  BY <1>3, <1>4, <1>5, <1>6

LEMMA ProcessTyped ==
  ASSUME GraphInv, FunctorsInv, NEW n \in Node
  PROVE  Functors(Process(n).fn)
<1>1. Kind(n) \in Kinds
  BY NodeFacts
<1> DEFINE R == {RawProcess(n), FilterProcess(n), TrimProcess(n), ToTypeProcess(n),
                 CollectProcess(n), SplitProcess(n), ConcatProcess(n),
                 UnionProcess(n), IntersectionProcess(n), DifferenceProcess(n),
                 GroupProcess(n)}
<1>2. Process(n) \in R
  BY <1>1 DEF Process, Kinds, Readers
<1>3. \A r \in R : Functors(r.fn)
  BY OneInputTyped, SplitTyped, ManyInputsTyped
<1> QED
  BY <1>2, <1>3

-----------------------------------------------------------------------------
(* The queue.                                                              *)

\* What is left when the front of the queue is taken.
LEMMA TakeFront ==
  ASSUME NEW N, NEW q \in Seq(N), IsInjective(q), q # <<>>
  PROVE  /\ Head(q) \in N /\ Tail(q) \in Seq(N) /\ IsInjective(Tail(q))
         /\ ToSet(Tail(q)) = ToSet(q) \ {Head(q)}
<1> DEFINE s == Tail(q)
           x == Head(q)
           n == Len(q)
<1>1. /\ n \in Nat \ {0} /\ x \in N /\ x = q[1] /\ s \in Seq(N) /\ Len(s) = n - 1
      /\ \A i \in 1 .. n - 1 : s[i] = q[i + 1]
      /\ DOMAIN q = 1 .. n /\ DOMAIN s = 1 .. n - 1
  OBVIOUS
<1> HIDE DEF s, x, n
<1>2. IsInjective(s)
  <2> SUFFICES ASSUME NEW i \in DOMAIN s, NEW j \in DOMAIN s, s[i] = s[j]
               PROVE  i = j
    BY DEF IsInjective
  <2>1. i + 1 \in DOMAIN q /\ j + 1 \in DOMAIN q /\ q[i + 1] = q[j + 1]
    BY <1>1
  <2>2. i + 1 = j + 1
    BY <2>1 DEF IsInjective
  <2> QED
    BY <1>1, <2>2
<1>3. ASSUME NEW y \in ToSet(s) PROVE y \in ToSet(q) /\ y # x
  <2>1. PICK i \in DOMAIN s : y = s[i]
    BY DEF ToSet
  <2>2. i + 1 \in DOMAIN q /\ y = q[i + 1] /\ 1 \in DOMAIN q /\ i + 1 # 1
    BY <1>1, <2>1
  <2>3. y # x
    BY <1>1, <2>2 DEF IsInjective
  <2> QED
    BY <2>2, <2>3 DEF ToSet
<1>4. ASSUME NEW y \in ToSet(q), y # x PROVE y \in ToSet(s)
  <2>1. PICK i \in DOMAIN q : y = q[i]
    BY DEF ToSet
  <2>2. i # 1 /\ i - 1 \in DOMAIN s /\ s[i - 1] = q[(i - 1) + 1] /\ (i - 1) + 1 = i
    BY <1>1, <1>4, <2>1
  <2> QED
    BY <2>1, <2>2 DEF ToSet
<1> QED
  BY <1>1, <1>2, <1>3, <1>4 DEF s, x

\* Two queues with nothing in common.
LEMMA JoinQueues ==
  ASSUME NEW N, NEW s \in Seq(N), NEW t \in Seq(N), IsInjective(s), IsInjective(t),
         ToSet(s) \cap ToSet(t) = {}
  PROVE  /\ s \o t \in Seq(N) /\ IsInjective(s \o t)
         /\ ToSet(s \o t) = ToSet(s) \cup ToSet(t)
<1> DEFINE q == s \o t
           n == Len(s)
           m == Len(t)
<1>1. /\ n \in Nat /\ m \in Nat /\ q \in Seq(N) /\ Len(q) = n + m
      /\ \A i \in 1 .. n : q[i] = s[i]
      /\ \A i \in 1 .. m : q[n + i] = t[i]
      /\ DOMAIN s = 1 .. n /\ DOMAIN t = 1 .. m /\ DOMAIN q = 1 .. n + m
  OBVIOUS
<1> HIDE DEF q, n, m
<1>2. ASSUME NEW i \in DOMAIN q
      PROVE  \/ i \in DOMAIN s /\ q[i] = s[i] /\ q[i] \in ToSet(s)
             \/ i - n \in DOMAIN t /\ q[i] = t[i - n] /\ q[i] \in ToSet(t)
  <2>1. CASE i <= n
    <3>1. i \in DOMAIN s /\ q[i] = s[i]
      BY <1>1, <2>1
    <3> QED
      BY <3>1 DEF ToSet
  <2>2. CASE i > n
    <3>1. i - n \in 1 .. m /\ n + (i - n) = i
      BY <1>1, <2>2
    <3>2. i - n \in DOMAIN t /\ q[i] = t[i - n]
      BY <1>1, <3>1
    <3> QED
      BY <3>2 DEF ToSet
  <2> QED
    BY <1>1, <2>1, <2>2
<1>3. IsInjective(q)
  <2> SUFFICES ASSUME NEW i \in DOMAIN q, NEW j \in DOMAIN q, q[i] = q[j]
               PROVE  i = j
    BY DEF IsInjective
  <2>1. i \in Int /\ j \in Int
    BY <1>1
  <2>2. CASE i \in DOMAIN s /\ q[i] = s[i] /\ q[i] \in ToSet(s)
    <3>1. j \in DOMAIN s /\ q[j] = s[j]
      BY <1>2, <2>2
    <3> QED
      BY <2>2, <3>1 DEF IsInjective
  <2>3. CASE i - n \in DOMAIN t /\ q[i] = t[i - n] /\ q[i] \in ToSet(t)
    <3>1. j - n \in DOMAIN t /\ q[j] = t[j - n]
      BY <1>2, <2>3
    <3>2. i - n = j - n
      BY <2>3, <3>1 DEF IsInjective
    <3> QED
      BY <1>1, <2>1, <3>2
  <2> QED
    BY <1>2, <2>2, <2>3
<1>4. ASSUME NEW y \in ToSet(q) PROVE y \in ToSet(s) \cup ToSet(t)
  <2>1. PICK i \in DOMAIN q : y = q[i]
    BY DEF ToSet
  <2> QED
    BY <1>2, <2>1
<1>5. ASSUME NEW y \in ToSet(s) PROVE y \in ToSet(q)
  <2>1. PICK i \in DOMAIN s : y = s[i]
    BY DEF ToSet
  <2>2. i \in DOMAIN q /\ q[i] = y
    BY <1>1, <2>1
  <2> QED
    BY <2>2 DEF ToSet
<1>6. ASSUME NEW y \in ToSet(t) PROVE y \in ToSet(q)
  <2>1. PICK i \in DOMAIN t : y = t[i]
    BY DEF ToSet
  <2>2. n + i \in DOMAIN q /\ q[n + i] = y
    BY <1>1, <2>1
  <2> QED
    BY <2>2 DEF ToSet
<1> QED
  BY <1>1, <1>3, <1>4, <1>5, <1>6 DEF q

\* The inputs that are asked are not in the queue.
LEMMA WantedTyped ==
  ASSUME GraphInv, NEW n \in Node, NEW f, NEW st
  PROVE  /\ Wanted(n, f, st) \in Seq(Node) /\ IsInjective(Wanted(n, f, st))
         /\ \A m \in ToSet(Wanted(n, f, st)) :
              m \in Node /\ st[m] \notin {"to_p", "end"}
<1>1. PICK S : S = {m \in Node : ~f[m].has /\ st[m] \notin {"to_p", "end"}}
  OBVIOUS
<1>2. PICK p : p = Preds(n)
  OBVIOUS
<1>3. PICK N : N = Node
  OBVIOUS
<1>4. p \in Seq(N)
  BY <1>2, <1>3, NodeFacts
<1>5. Ask(p, S) \in Seq(N) /\ IsInjective(Ask(p, S)) /\ ToSet(Ask(p, S)) \subseteq S
  BY <1>4, AskTyped
<1>6. Wanted(n, f, st) = Ask(p, S)
  BY <1>1, <1>2 DEF Wanted
<1> QED
  BY <1>1, <1>3, <1>5, <1>6

LEMMA MarkTyped ==
  ASSUME NEW st \in [Node -> Status], NEW ms \in Seq(Node)
  PROVE  /\ Mark(st, ms) \in [Node -> Status]
         /\ \A m \in Node : Mark(st, ms)[m] = "to_p" <=> st[m] = "to_p" \/ m \in ToSet(ms)
BY DEF Mark, Status

-----------------------------------------------------------------------------
(* The steps of run().                                                     *)

\* The graph stays: what is said of the nodes can be said of the next state.
LEMMA GraphFrame ==
  ASSUME FlowInv, UNCHANGED <<graph, outputs>>, Functors(fn'),
         pc' \in {"bfs", "pop", "done"}, queue' \in Seq(Node), stack' \in Seq(Node),
         status' \in [Node -> Status],
         \A n \in Node : status'[n] = "to_p" <=> n \in ToSet(queue'),
         IsInjective(queue'), (pc' = "bfs") <=> queue' # <<>>
  PROVE  FlowInv'
<1>1. Node' = Node
  BY DEF Node
<1>2. GraphInv'
  BY <1>1 DEF FlowInv, GraphInv
<1>3. FunctorsInv'
  BY <1>1 DEF FunctorsInv, Functors
<1>4. QueuedOnce'
  BY <1>1 DEF QueuedOnce
<1> QED
  BY <1>1, <1>2, <1>3, <1>4 DEF FlowInv

\* done_value and reset_done_value leave functors.
LEMMA DoneTyped ==
  ASSUME NEW f, Functors(f), NEW n \in Node
  PROVE  /\ Functors(Done(n, f))
         /\ Functors([f EXCEPT ![n] = [@ EXCEPT !.has = FALSE]])
<1>1. PICK b : b = (Kind(n) \notin Sinks)
  OBVIOUS
<1>2. PICK s : s = f[n]
  OBVIOUS
<1>3. IsFunctor(s) /\ b \in BOOLEAN
  BY <1>1, <1>2 DEF Functors
<1>4. IsFunctor([s EXCEPT !.has = b]) /\ IsFunctor([s EXCEPT !.has = FALSE])
  BY <1>3, AssignOne
<1>5. Functors([f EXCEPT ![n] = [s EXCEPT !.has = b]])
      /\ Functors([f EXCEPT ![n] = [s EXCEPT !.has = FALSE]])
  BY <1>4, SetFunctor
<1> QED
  BY <1>1, <1>2, <1>5 DEF Done

LEMMA BfsExtractorStep ==
  ASSUME FlowInv, BfsExtractor
  PROVE  FlowInv'
<1>1. /\ GraphInv /\ FunctorsInv /\ queue \in Seq(Node) /\ stack \in Seq(Node)
      /\ status \in [Node -> Status] /\ IsInjective(queue) /\ queue # <<>>
      /\ \A n \in Node : status[n] = "to_p" <=> n \in ToSet(queue)
  BY DEF FlowInv, QueuedOnce, BfsExtractor
<1>2. PICK N : N = Node
  OBVIOUS
<1>3. PICK f : f = Head(queue)
  OBVIOUS
<1>4. /\ f \in Node /\ Tail(queue) \in Seq(Node) /\ IsInjective(Tail(queue))
      /\ ToSet(Tail(queue)) = ToSet(queue) \ {f}
  BY <1>1, <1>2, <1>3, TakeFront
<1>5. PICK r : r = Process(f)
  OBVIOUS
<1>6. Functors(r.fn) /\ Functors(Done(f, r.fn))
  BY <1>1, <1>4, <1>5, ProcessTyped, DoneTyped
<1>7. PICK e \in {"null", "end"} :
        /\ fn' = r.fn \/ fn' = Done(f, r.fn)
        /\ status' = [status EXCEPT ![f] = e]
  <2>1. /\ fn' = IF r.ok THEN Done(f, r.fn) ELSE r.fn
        /\ status' = [status EXCEPT ![f] = IF r.ok THEN "null" ELSE "end"]
    BY <1>3, <1>5 DEF BfsExtractor
  <2>2. PICK e : e = IF r.ok THEN "null" ELSE "end"
    OBVIOUS
  <2>3. status' = [status EXCEPT ![f] = e] /\ e \in {"null", "end"}
    BY <2>1, <2>2
  <2> QED
    BY <2>1, <2>3
<1>8. Functors(fn')
  BY <1>6, <1>7
<1>9. /\ queue' = Tail(queue) /\ stack' = stack /\ UNCHANGED <<graph, outputs>>
      /\ pc' = IF queue' = <<>> THEN "pop" ELSE "bfs"
  BY DEF BfsExtractor
<1>10. status' \in [Node -> Status]
  BY <1>1, <1>4, <1>7 DEF Status
<1>11. \A n \in Node : status'[n] = IF n = f THEN e ELSE status[n]
  BY <1>1, <1>4, <1>7
<1>12. \A n \in Node : status'[n] = "to_p" <=> n \in ToSet(queue')
  BY <1>1, <1>4, <1>7, <1>9, <1>11
<1> QED
  BY <1>1, <1>4, <1>8, <1>9, <1>10, <1>12, GraphFrame

LEMMA BfsProcessorStep ==
  ASSUME FlowInv, BfsProcessor
  PROVE  FlowInv'
<1>1. /\ GraphInv /\ FunctorsInv /\ queue \in Seq(Node) /\ stack \in Seq(Node)
      /\ status \in [Node -> Status] /\ IsInjective(queue) /\ queue # <<>>
      /\ \A n \in Node : status[n] = "to_p" <=> n \in ToSet(queue)
  BY DEF FlowInv, QueuedOnce, BfsProcessor
<1>2. PICK N : N = Node
  OBVIOUS
<1>3. PICK f : f = Head(queue)
  OBVIOUS
<1>4. /\ f \in Node /\ Tail(queue) \in Seq(Node) /\ IsInjective(Tail(queue))
      /\ ToSet(Tail(queue)) = ToSet(queue) \ {f}
  BY <1>1, <1>2, <1>3, TakeFront
<1>5. PICK st : st = [status EXCEPT ![f] = "p"]
  OBVIOUS
<1>6. /\ st \in [Node -> Status]
      /\ \A n \in Node : st[n] = IF n = f THEN "p" ELSE status[n]
  BY <1>1, <1>4, <1>5 DEF Status
<1>7. PICK ms : ms = Wanted(f, fn, st)
  OBVIOUS
<1>8. /\ ms \in Seq(Node) /\ IsInjective(ms)
      /\ \A m \in ToSet(ms) : m \in Node /\ st[m] \notin {"to_p", "end"}
  BY <1>1, <1>4, <1>7, WantedTyped
<1>9. /\ stack' = Append(stack, f) /\ status' = Mark(st, ms)
      /\ queue' = Tail(queue) \o ms /\ UNCHANGED <<graph, outputs, fn>>
      /\ pc' = IF queue' = <<>> THEN "pop" ELSE "bfs"
  BY <1>3, <1>5, <1>7 DEF BfsProcessor
<1>10. /\ status' \in [Node -> Status]
       /\ \A m \in Node : status'[m] = "to_p" <=> st[m] = "to_p" \/ m \in ToSet(ms)
  BY <1>6, <1>8, <1>9, MarkTyped
<1>11. \A n \in Node : st[n] = "to_p" <=> n \in ToSet(Tail(queue))
  BY <1>1, <1>4, <1>6
<1>12. ToSet(Tail(queue)) \cap ToSet(ms) = {}
  BY <1>8, <1>11
<1>13. /\ queue' \in Seq(Node) /\ IsInjective(queue')
       /\ ToSet(queue') = ToSet(Tail(queue)) \cup ToSet(ms)
  <2>1. PICK s : s = Tail(queue)
    OBVIOUS
  <2>2. /\ s \in Seq(N) /\ IsInjective(s)
    BY <1>2, <1>4, <2>1
  <2>3. /\ ms \in Seq(N) /\ IsInjective(ms)
    BY <1>2, <1>8
  <2>4. ToSet(s) \cap ToSet(ms) = {}
    BY <1>12, <2>1
  <2>5. /\ s \o ms \in Seq(N) /\ IsInjective(s \o ms)
        /\ ToSet(s \o ms) = ToSet(s) \cup ToSet(ms)
    BY ONLY <2>2, <2>3, <2>4, JoinQueues
  <2> QED
    BY <1>2, <1>9, <2>1, <2>5
<1>14. \A n \in Node : status'[n] = "to_p" <=> n \in ToSet(queue')
  BY <1>10, <1>11, <1>13
<1>15. Functors(fn')
  BY <1>1, <1>9 DEF FunctorsInv
<1>16. stack' \in Seq(Node)
  BY <1>1, <1>4, <1>9
<1> QED
  BY <1>9, <1>10, <1>13, <1>14, <1>15, <1>16, GraphFrame

\* While the stack is popped, nothing is queued and nothing marked.
LEMMA PopFacts ==
  ASSUME FlowInv, pc = "pop"
  PROVE  /\ GraphInv /\ FunctorsInv /\ queue = <<>> /\ stack \in Seq(Node)
         /\ status \in [Node -> Status] /\ ToSet(queue) = {}
         /\ \A n \in Node : status[n] # "to_p"
<1>1. queue = <<>>
  BY DEF FlowInv, QueuedOnce
<1>2. ToSet(queue) = {}
  BY <1>1 DEF ToSet
<1> QED
  BY <1>1, <1>2 DEF FlowInv, QueuedOnce

\* The top of the stack, and the rest.
LEMMA StackFacts ==
  ASSUME NEW N, NEW s \in Seq(N), s # <<>>
  PROVE  Last(s) \in N /\ Front(s) \in Seq(N)
BY DEF Last, Front

LEMMA PopValueStep ==
  ASSUME FlowInv, PopValue
  PROVE  FlowInv'
<1>1. pc = "pop" /\ stack # <<>>
  BY DEF PopValue
<1>2. /\ GraphInv /\ FunctorsInv /\ queue = <<>> /\ stack \in Seq(Node)
      /\ status \in [Node -> Status] /\ ToSet(queue) = {}
      /\ \A n \in Node : status[n] # "to_p"
  BY <1>1, PopFacts
<1>3. PICK f : f = Last(stack)
  OBVIOUS
<1>4. PICK N : N = Node
  OBVIOUS
<1>5. f \in Node /\ Front(stack) \in Seq(Node)
  BY <1>1, <1>2, <1>3, <1>4, StackFacts
<1>6. PICK r : r = Process(f)
  OBVIOUS
<1>7. /\ fn' = Done(f, r.fn) /\ status' = [status EXCEPT ![f] = "null"]
      /\ stack' = Front(stack) /\ UNCHANGED <<graph, outputs, pc, queue>>
  BY <1>3, <1>6 DEF PopValue
<1>8. Functors(fn')
  BY <1>2, <1>5, <1>6, <1>7, ProcessTyped, DoneTyped
<1>9. status' \in [Node -> Status] /\ \A n \in Node : status'[n] # "to_p"
  BY <1>2, <1>5, <1>7 DEF Status
<1>10. /\ queue' \in Seq(Node) /\ IsInjective(queue') /\ ToSet(queue') = {}
       /\ pc' = "pop" /\ queue' = <<>>
  BY <1>1, <1>2, <1>7 DEF IsInjective
<1> QED
  BY <1>5, <1>7, <1>8, <1>9, <1>10, GraphFrame

LEMMA PopAgainStep ==
  ASSUME FlowInv, PopAgain
  PROVE  FlowInv'
<1>1. pc = "pop" /\ stack # <<>>
  BY DEF PopAgain
<1>2. /\ GraphInv /\ FunctorsInv /\ queue = <<>> /\ stack \in Seq(Node)
      /\ status \in [Node -> Status] /\ ToSet(queue) = {}
      /\ \A n \in Node : status[n] # "to_p"
  BY <1>1, PopFacts
<1>3. PICK f : f = Last(stack)
  OBVIOUS
<1>4. PICK N : N = Node
  OBVIOUS
<1>5. f \in Node /\ Front(stack) \in Seq(Node)
  BY <1>1, <1>2, <1>3, <1>4, StackFacts
<1>6. PICK r : r = Process(f)
  OBVIOUS
<1>7. PICK h : h = r.fn
  OBVIOUS
<1>8. PICK g : g = [h EXCEPT ![f] = [@ EXCEPT !.has = FALSE]]
  OBVIOUS
<1>9. PICK ms : ms = Wanted(f, g, status)
  OBVIOUS
<1>10. /\ fn' = g /\ UNCHANGED <<graph, outputs>>
       /\ IF ms # <<>>
          THEN /\ queue' = ms /\ status' = Mark(status, ms) /\ pc' = "bfs"
               /\ UNCHANGED stack
          ELSE /\ stack' = Front(stack) /\ status' = [status EXCEPT ![f] = "end"]
               /\ UNCHANGED <<queue, pc>>
  BY <1>3, <1>6, <1>7, <1>8, <1>9 DEF PopAgain
<1>11. Functors(fn')
  <2>1. Functors(h)
    BY <1>2, <1>5, <1>6, <1>7, ProcessTyped
  <2> QED
    BY <1>5, <1>8, <1>10, <2>1, DoneTyped
<1>12. CASE ms # <<>>
  <2>1. ms \in Seq(Node) /\ IsInjective(ms)
    <3>1. PICK st : st = status
      OBVIOUS
    <3> QED
      BY <1>2, <1>5, <1>9, <3>1, WantedTyped
  <2>2. /\ Mark(status, ms) \in [Node -> Status]
        /\ \A m \in Node : Mark(status, ms)[m] = "to_p" <=> m \in ToSet(ms)
    BY <1>2, <2>1, MarkTyped
  <2>3. /\ queue' = ms /\ status' = Mark(status, ms) /\ pc' = "bfs" /\ stack' = stack
    BY <1>10, <1>12
  <2> QED
    BY <1>2, <1>10, <1>11, <1>12, <2>1, <2>2, <2>3, GraphFrame
<1>13. CASE ms = <<>>
  <2>1. /\ stack' = Front(stack) /\ status' = [status EXCEPT ![f] = "end"]
        /\ queue' = queue /\ pc' = pc
    BY <1>10, <1>13
  <2>2. status' \in [Node -> Status] /\ \A n \in Node : status'[n] # "to_p"
    BY <1>2, <1>5, <2>1 DEF Status
  <2>3. /\ queue' \in Seq(Node) /\ IsInjective(queue') /\ ToSet(queue') = {}
        /\ pc' = "pop" /\ queue' = <<>>
    BY <1>1, <1>2, <2>1 DEF IsInjective
  <2> QED
    BY <1>5, <1>10, <1>11, <2>1, <2>2, <2>3, GraphFrame
<1> QED
  BY <1>12, <1>13

LEMMA PrepareBfsStep ==
  ASSUME FlowInv, PrepareBfs
  PROVE  FlowInv'
<1>1. pc = "pop" /\ stack = <<>>
  BY DEF PrepareBfs
<1>2. /\ GraphInv /\ FunctorsInv /\ stack \in Seq(Node)
      /\ status \in [Node -> Status] /\ \A n \in Node : status[n] # "to_p"
  BY <1>1, PopFacts
<1>3. PICK N : N = Node
  OBVIOUS
<1>4. PICK S : S = {m \in Node : status[m] \notin {"end", "to_p"}}
  OBVIOUS
<1>5. PICK os : os = outputs
  OBVIOUS
<1>6. PICK ms : ms = Ask(os, S)
  OBVIOUS
<1>7. ms \in Seq(Node) /\ IsInjective(ms)
  <2>1. os \in Seq(N)
    BY <1>2, <1>3, <1>5 DEF GraphInv
  <2> QED
    BY <1>3, <1>6, <2>1, AskTyped
<1>8. /\ queue' = ms /\ status' = Mark(status, ms)
      /\ pc' = IF ms = <<>> THEN "done" ELSE "bfs"
      /\ UNCHANGED <<graph, outputs, stack, fn>>
  BY <1>4, <1>5, <1>6 DEF PrepareBfs
<1>9. /\ Mark(status, ms) \in [Node -> Status]
      /\ \A m \in Node : Mark(status, ms)[m] = "to_p" <=> m \in ToSet(ms)
  BY <1>2, <1>7, MarkTyped
<1>10. Functors(fn')
  BY <1>2, <1>8 DEF FunctorsInv
<1> QED
  BY <1>2, <1>7, <1>8, <1>9, <1>10, GraphFrame

-----------------------------------------------------------------------------
(* The theorem.                                                            *)

\* There is an output: the last functor is nobody's input.
LEMMA OutputExists ==
  ASSUME NEW g \in Graphs
  PROVE  FindOutputs(g) # {} /\ IsFiniteSet(FindOutputs(g))
<1>1. /\ Len(g.kind) \in Nat \ {0}
      /\ \A m \in 1 .. Len(g.kind) : g.preds[m] \in Seq(1 .. m - 1)
  BY GraphAssumption
<1> DEFINE n == Len(g.kind)
<1>2. ASSUME NEW m \in 1 .. n PROVE n \notin ToSet(g.preds[m])
  <2>1. PICK p : p = g.preds[m]
    OBVIOUS
  <2>2. PICK S : S = 1 .. m - 1
    OBVIOUS
  <2>3. p \in Seq(S)
    BY <1>1, <2>1, <2>2
  <2>4. \A k \in DOMAIN p : p[k] \in S
    BY <2>3
  <2>5. n \notin S
    BY <1>1, <2>2
  <2> QED
    BY <2>1, <2>4, <2>5 DEF ToSet
<1>3. n \in 1 .. n
  BY <1>1
<1>4. n \in FindOutputs(g)
  BY <1>2, <1>3 DEF FindOutputs
<1>5. IsFiniteSet(1 .. n)
  BY <1>1, FS_Interval
<1>6. FindOutputs(g) \subseteq 1 .. n
  BY DEF FindOutputs
<1>7. IsFiniteSet(FindOutputs(g))
  BY <1>5, <1>6, FS_Subset
<1> QED
  BY <1>4, <1>7

LEMMA InitFlow ==
  ASSUME Init
  PROVE  FlowInv
<1>1. PICK g \in Graphs : \E order \in SetToSeqs(FindOutputs(g)) : Start(g, order)
  BY DEF Init
<1>2. PICK order \in SetToSeqs(FindOutputs(g)) : Start(g, order)
  BY <1>1
<1>3. PICK O : O = FindOutputs(g)
  OBVIOUS
<1>4. PICK c : c = Cardinality(O)
  OBVIOUS
<1>5. c \in Nat \ {0}
  BY <1>3, <1>4, OutputExists, FS_CardinalityType, FS_EmptySet
<1>6. order \in [1 .. c -> O] /\ \A i, j \in 1 .. c : i # j => order[i] # order[j]
  BY <1>2, <1>3, <1>4 DEF SetToSeqs
<1>7. order \in Seq(O) /\ IsInjective(order) /\ order # <<>>
  <2>1. order \in Seq(O) /\ Len(order) = c /\ DOMAIN order = 1 .. c
    BY <1>5, <1>6
  <2> QED
    BY <1>5, <1>6, <2>1 DEF IsInjective
<1>8. graph = g /\ Len(graph.kind) \in Nat \ {0} /\ Node = 1 .. Len(g.kind)
  BY <1>2, GraphAssumption DEF Start, Node
<1>9. O \subseteq Node
  BY <1>3, <1>8 DEF FindOutputs
<1>10. order \in Seq(Node)
  <2>1. PICK N : N = Node
    OBVIOUS
  <2>2. order \in Seq(N)
    BY <1>7, <1>9, <2>1, SeqMonotonic
  <2> QED
    BY <2>1, <2>2
<1>11. /\ outputs = order /\ queue = order /\ stack = <<>> /\ pc = "bfs"
       /\ status = [n \in Node |-> IF n \in ToSet(order) THEN "to_p" ELSE "null"]
       /\ fn = [n \in Node |-> NewFunctor(g, n)]
  BY <1>2, <1>8 DEF Start
<1>12. FunctorsInv
  <2>1. ASSUME NEW n \in Node PROVE IsFunctor(NewFunctor(g, n))
    <3>1. PICK d : d = IF g.kind[n] = "raw" THEN g.input[n] ELSE <<>>
      OBVIOUS
    <3>2. NewFunctor(g, n) = [has |-> FALSE, val |-> NoItem, pos |-> 0,
                              grouping |-> FALSE, last |-> 0, acc |-> 0, data |-> d]
      BY <3>1 DEF NewFunctor
    <3> QED
      BY <3>2 DEF IsFunctor, Members
  <2> QED
    BY <1>11, <2>1 DEF FunctorsInv, Functors
<1>13. status \in [Node -> Status]
       /\ \A n \in Node : status[n] = "to_p" <=> n \in ToSet(queue)
  BY <1>11 DEF Status
<1>14. <<>> \in Seq(Node)
  OBVIOUS
<1> QED
  BY <1>7, <1>8, <1>10, <1>11, <1>12, <1>13, <1>14 DEF FlowInv, GraphInv, QueuedOnce

LEMMA FlowStep ==
  ASSUME FlowInv, [Next]_vars
  PROVE  FlowInv'
<1>1. CASE BfsExtractor
  BY <1>1, BfsExtractorStep
<1>2. CASE BfsProcessor
  BY <1>2, BfsProcessorStep
<1>3. CASE PopValue
  BY <1>3, PopValueStep
<1>4. CASE PopAgain
  BY <1>4, PopAgainStep
<1>5. CASE PrepareBfs
  BY <1>5, PrepareBfsStep
<1>6. CASE UNCHANGED vars
  <2>1. /\ UNCHANGED <<graph, outputs>> /\ fn' = fn /\ pc' = pc /\ queue' = queue
        /\ stack' = stack /\ status' = status
    BY <1>6 DEF vars
  <2>2. Functors(fn')
    BY <2>1 DEF FlowInv, FunctorsInv
  <2> QED
    BY <2>1, <2>2, GraphFrame DEF FlowInv, QueuedOnce
<1> QED
  BY <1>1, <1>2, <1>3, <1>4, <1>5, <1>6 DEF Next, Step, Returned

\* In every graph, run() queues a functor at most once, and to_p marks
\* exactly the queued ones.
THEOREM QueueSoundHolds == Spec => []QueueSound
<1>1. Init => FlowInv
  BY InitFlow
<1>2. FlowInv /\ [Next]_vars => FlowInv'
  BY FlowStep
<1>3. FlowInv => QueueSound
  <2> SUFFICES ASSUME FlowInv PROVE TypeOK /\ QueuedOnce
    BY DEF QueueSound
  <2>1. \A n \in Node : fn[n].has \in BOOLEAN /\ fn[n].pos \in Nat
    BY DEF FlowInv, FunctorsInv, Functors, IsFunctor
  <2> QED
    BY <2>1 DEF FlowInv, TypeOK, Status
<1> QED
  BY <1>1, <1>2, <1>3, PTL DEF Spec

=============================================================================
