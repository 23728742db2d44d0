---------------------------- MODULE HashesProofs ----------------------------
(***************************************************************************)
(* What TLAPS proves of the hash contexts and of the nonces (Hashes).      *)
(*                                                                         *)
(* For blocks, words and rates of any size and messages up to the longest  *)
(* that the length can count, what a context has compressed is the message *)
(* cut into blocks and what its buffer holds is the rest of it, however    *)
(* the message was cut into writes; so the digest is that of the message   *)
(* padded once.  A nonce can be traced back through the hashes to what it  *)
(* was made from.                                                          *)
(*                                                                         *)
(* The operators that wrap a concatenation or a part of a list keep it     *)
(* closed where only its lemma is needed.                                  *)
(***************************************************************************)
EXTENDS Hashes, CryptoPackProofs

-----------------------------------------------------------------------------
(* Quotients, lists and blocks.                                            *)

LEMMA DivMod ==
  ASSUME NEW n \in Nat, NEW b \in Nat \ {0}
  PROVE  \E q \in Nat, r \in 0 .. b - 1 : q = n \div b /\ r = n % b /\ n = b * q + r
<1>1. PICK q \in Int, r \in 0 .. b - 1 : q = n \div b /\ r = n % b
  <2>1. n \div b \in Int
    OBVIOUS
  <2>2. n % b \in 0 .. b - 1
    OBVIOUS
  <2> QED
    BY <2>1, <2>2
<1>2. n = b * q + r
  BY <1>1
<1>3. q >= 0
  BY <1>2
<1>4. q \in Nat
  BY <1>3
<1> QED
  BY <1>1, <1>2, <1>4, Zenon

LEMMA TimesAdd ==
  ASSUME NEW b \in Nat, NEW i \in Nat, NEW j \in Nat
  PROVE  b * (i + j) = b * i + b * j /\ b * i \in Nat
OBVIOUS

LEMMA TimesLess ==
  ASSUME NEW b \in Nat, NEW i \in Nat, NEW j \in Nat, i < j
  PROVE  b * i + b <= b * j
<1>1. PICK d \in Nat : j = (i + 1) + d
  <2>1. j - (i + 1) \in Nat /\ j = (i + 1) + (j - (i + 1))
    OBVIOUS
  <2> QED
    BY <2>1
<1>2. b * j = b * (i + 1) + b * d
  BY <1>1, TimesAdd
<1>3. b * (i + 1) = b * i + b * 1
  BY TimesAdd
<1>4. b * d \in Nat /\ b * i \in Nat /\ b * 1 = b
  BY TimesAdd
<1> QED
  BY <1>2, <1>3, <1>4

LEMMA DivIs ==
  ASSUME NEW n \in Nat, NEW b \in Nat \ {0}, NEW q \in Nat, NEW r \in 0 .. b - 1, n = b * q + r
  PROVE  n \div b = q /\ n % b = r
<1>1. PICK p \in Nat, s \in 0 .. b - 1 : p = n \div b /\ s = n % b /\ n = b * p + s
  BY DivMod
<1>2. b * p \in Nat /\ b * q \in Nat
  BY TimesAdd
<1>3. ~(p < q)
  <2>1. p < q => b * p + b <= b * q
    BY TimesLess
  <2> QED
    BY <1>1, <1>2, <2>1
<1>4. ~(q < p)
  <2>1. q < p => b * q + b <= b * p
    BY TimesLess
  <2> QED
    BY <1>1, <1>2, <2>1
<1>5. p = q
  BY <1>3, <1>4
<1> QED
  BY <1>1, <1>2, <1>5

LEMMA DropIs ==
  ASSUME NEW b, IsSeq(b), NEW n \in Nat, n <= Len(b)
  PROVE  /\ IsSeq(Drop(b, n)) /\ Len(Drop(b, n)) = Len(b) - n
         /\ \A k \in 1 .. Len(b) - n : Drop(b, n)[k] = b[n + k]
<1>1. PICK m \in Nat : m = Len(b) - n /\ n + m = Len(b)
  BY DEF IsSeq
<1>2. Drop(b, n) = Part(b, n, m)
  BY <1>1 DEF Drop, Part
<1>3. IsSeq(Part(b, n, m)) /\ Len(Part(b, n, m)) = m /\ \A i \in 1 .. m : Part(b, n, m)[i] = b[n + i]
  <2>1. n + m <= Len(b)
    BY <1>1
  <2> QED
    BY <2>1, PartIs
<1> QED
  BY <1>1, <1>2, <1>3

LEMMA TakeIs ==
  ASSUME NEW b, IsSeq(b), NEW n \in Nat, n <= Len(b)
  PROVE  /\ IsSeq(SubSeq(b, 1, n)) /\ Len(SubSeq(b, 1, n)) = n
         /\ \A k \in 1 .. n : SubSeq(b, 1, n)[k] = b[k]
<1>1. SubSeq(b, 1, n) = Part(b, 0, n)
  BY DEF Part
<1>2. IsSeq(Part(b, 0, n)) /\ Len(Part(b, 0, n)) = n /\ \A i \in 1 .. n : Part(b, 0, n)[i] = b[0 + i]
  <2>1. 0 + n <= Len(b)
    OBVIOUS
  <2> QED
    BY <2>1, PartIs
<1>3. \A i \in 1 .. n : 0 + i = i
  OBVIOUS
<1>4. \A i \in 1 .. n : b[0 + i] = b[i]
  BY <1>3
<1> QED
  BY <1>1, <1>2, <1>4, Zenon

LEMMA CopyIs ==
  ASSUME NEW buf, IsSeq(buf), NEW b, IsSeq(b), NEW o \in Nat, o + Len(b) <= Len(buf)
  PROVE  /\ IsSeq(CopyTo(buf, o, b)) /\ Len(CopyTo(buf, o, b)) = Len(buf)
         /\ \A k \in 1 .. o : CopyTo(buf, o, b)[k] = buf[k]
         /\ \A k \in 1 .. Len(b) : CopyTo(buf, o, b)[o + k] = b[k]
         /\ \A k \in o + Len(b) + 1 .. Len(buf) : CopyTo(buf, o, b)[k] = buf[k]
<1>1. PICK l \in Nat, m \in Nat, e \in Nat : l = Len(buf) /\ m = Len(b) /\ e = l - (o + m) /\ l = (o + m) + e
  <2>1. Len(buf) \in Nat /\ Len(b) \in Nat
    BY DEF IsSeq
  <2>2. Len(buf) - (o + Len(b)) \in Nat
    BY <2>1
  <2> QED
    BY <2>1, <2>2
<1>2. PICK s, t : s = SubSeq(buf, 1, o) /\ t = SubSeq(buf, o + Len(b) + 1, Len(buf))
  OBVIOUS
<1>3. IsSeq(s) /\ Len(s) = o /\ \A k \in 1 .. o : s[k] = buf[k]
  <2>1. o <= Len(buf)
    BY <1>1
  <2> QED
    BY <1>2, <2>1, TakeIs
<1>4. IsSeq(t) /\ Len(t) = e /\ \A k \in 1 .. e : t[k] = buf[(o + m) + k]
  <2>1. t = Part(buf, o + m, e)
    BY <1>1, <1>2 DEF Part
  <2>2. (o + m) + e <= Len(buf) /\ o + m \in Nat
    BY <1>1
  <2> QED
    BY <2>1, <2>2, PartIs
<1>5. PICK u : u = Cat(s, b)
  OBVIOUS
<1>6. /\ IsSeq(u) /\ Len(u) = o + m
      /\ \A i \in 1 .. o : u[i] = s[i]
      /\ \A i \in 1 .. m : u[o + i] = b[i]
  <2>1. /\ IsSeq(Cat(s, b)) /\ Len(Cat(s, b)) = Len(s) + Len(b)
        /\ \A i \in 1 .. Len(s) : Cat(s, b)[i] = s[i]
        /\ \A i \in 1 .. Len(b) : Cat(s, b)[Len(s) + i] = b[i]
    BY <1>3, CatIs
  <2> QED
    BY <1>1, <1>3, <1>5, <2>1, Zenon
<1>7. PICK v : v = Cat(u, t)
  OBVIOUS
<1>8. /\ IsSeq(v) /\ Len(v) = (o + m) + e
      /\ \A i \in 1 .. o + m : v[i] = u[i]
      /\ \A i \in 1 .. e : v[(o + m) + i] = t[i]
  <2>1. /\ IsSeq(Cat(u, t)) /\ Len(Cat(u, t)) = Len(u) + Len(t)
        /\ \A i \in 1 .. Len(u) : Cat(u, t)[i] = u[i]
        /\ \A i \in 1 .. Len(t) : Cat(u, t)[Len(u) + i] = t[i]
    <3>1. IsSeq(u) /\ IsSeq(t)
      BY <1>4, <1>6
    <3> QED
      BY <3>1, CatIs
  <2>2. Len(u) = o + m /\ Len(t) = e
    BY <1>4, <1>6
  <2> QED
    BY <1>7, <2>1, <2>2, Zenon
<1>9. CopyTo(buf, o, b) = v
  BY <1>2, <1>5, <1>7 DEF CopyTo, Cat
<1>10. \A k \in 1 .. o : v[k] = buf[k]
  BY <1>3, <1>6, <1>8
<1>11. \A k \in 1 .. m : v[o + k] = b[k]
  <2> SUFFICES ASSUME NEW k \in 1 .. m PROVE v[o + k] = b[k]
    OBVIOUS
  <2>1. o + k \in 1 .. o + m
    OBVIOUS
  <2> QED
    BY <1>6, <1>8, <2>1
<1>12. ASSUME NEW k \in o + m + 1 .. l PROVE v[k] = buf[k]
  <2>1. PICK i \in 1 .. e : k = (o + m) + i
    <3>1. k - (o + m) \in 1 .. e /\ k = (o + m) + (k - (o + m))
      BY <1>1, <1>12
    <3> QED
      BY <3>1
  <2> QED
    BY <1>4, <1>8, <2>1
<1> QED
  BY <1>1, <1>8, <1>9, <1>10, <1>11, <1>12

LEMMA EmptyIs == IsSeq(<< >>) /\ Len(<< >>) = 0
BY DEF IsSeq

LEMMA AppendIs ==
  ASSUME NEW s, IsSeq(s), NEW x
  PROVE  /\ IsSeq(Append(s, x)) /\ Len(Append(s, x)) = Len(s) + 1
         /\ \A k \in 1 .. Len(s) : Append(s, x)[k] = s[k]
         /\ Append(s, x)[Len(s) + 1] = x
<1>1. PICK n \in Nat : n = Len(s)
  BY DEF IsSeq
<1>2. PICK S : s \in Seq(S) /\ x \in S
  <2> DEFINE S == {s[i] : i \in 1 .. Len(s)} \cup {x}
  <2>1. s \in Seq(S) /\ x \in S
    BY SeqOver
  <2> QED
    BY <2>1
<1>3. /\ Append(s, x) \in Seq(S) /\ Len(Append(s, x)) = n + 1
      /\ \A k \in 1 .. n : Append(s, x)[k] = s[k]
      /\ Append(s, x)[n + 1] = x
  BY <1>1, <1>2
<1> QED
  BY <1>1, <1>3, IsSeqOf

LEMMA BytesIs ==
  ASSUME NEW from \in Nat, NEW n \in Nat
  PROVE  IsSeq(Bytes(from, n)) /\ Len(Bytes(from, n)) = n /\ \A k \in 1 .. n : Bytes(from, n)[k] = from + k
<1> DEFINE f == [k \in 1 .. n |-> from + k]
<1>1. Bytes(from, n) = Tuple(f) /\ f = [k \in 1 .. n |-> f[k]] /\ \A k \in 1 .. n : f[k] = from + k
  BY DEF Bytes
<1> HIDE DEF f
<1> QED
  BY <1>1, TupleIs

LEMMA ZerosIs ==
  ASSUME NEW n \in Nat
  PROVE  IsSeq(Zeros(n)) /\ Len(Zeros(n)) = n /\ \A k \in 1 .. n : Zeros(n)[k] = 0
<1> DEFINE f == [k \in 1 .. n |-> 0]
<1>1. Zeros(n) = Tuple(f) /\ f = [k \in 1 .. n |-> f[k]] /\ \A k \in 1 .. n : f[k] = 0
  BY DEF Zeros
<1> HIDE DEF f
<1> QED
  BY <1>1, TupleIs

-----------------------------------------------------------------------------
(* A message and its blocks.                                               *)

At(i) == Block * i
Chunk(M, o) == [k \in 1 .. Block |-> M[o + k]]

LEMMA BlockIs == Block \in Nat /\ Block > 3
BY HashAssumption

LEMMA AtIs ==
  ASSUME NEW i \in Nat
  PROVE  /\ At(i) \in Nat /\ At(i + 1) = At(i) + Block /\ At(0) = 0
         /\ \A j \in Nat : i < j => At(i) + Block <= At(j)
         /\ \A j \in Nat : At(i + j) = At(i) + At(j)
<1>1. At(i) \in Nat /\ \A j \in Nat : At(i + j) = At(i) + At(j)
  BY BlockIs, TimesAdd DEF At
<1>2. At(1) = Block /\ At(0) = 0
  BY BlockIs DEF At
<1>3. \A j \in Nat : i < j => At(i) + Block <= At(j)
  BY BlockIs, TimesLess DEF At
<1> QED
  BY <1>1, <1>2, <1>3

LEMMA Divided ==
  ASSUME NEW n \in Nat
  PROVE  \E q \in Nat, r \in 0 .. Block - 1 : q = n \div Block /\ r = n % Block /\ n = At(q) + r
BY BlockIs, DivMod DEF At

LEMMA DividedIs ==
  ASSUME NEW n \in Nat, NEW q \in Nat, NEW r \in 0 .. Block - 1, n = At(q) + r
  PROVE  n \div Block = q /\ n % Block = r
BY BlockIs, DivIs DEF At

\* Blocks are chunks of the message from 0 on.
Blocks(out, M, c) ==
  IsSeq(out) /\ Len(out) = c /\ \A j \in 1 .. c : out[j] = Chunk(M, At(j - 1))

LEMMA ChunkSame ==
  ASSUME NEW M, NEW d, IsSeq(M), IsSeq(d), NEW o \in Nat, o + Block <= Len(M)
  PROVE  Chunk(Cat(M, d), o) = Chunk(M, o)
<1>1. \A k \in 1 .. Block : o + k \in 1 .. Len(M)
  BY BlockIs DEF IsSeq
<1>2. \A k \in 1 .. Block : Cat(M, d)[o + k] = M[o + k]
  BY <1>1, CatIs
<1> QED
  BY <1>2 DEF Chunk

LEMMA BlocksSame ==
  ASSUME NEW M, NEW d, IsSeq(M), IsSeq(d), NEW c \in Nat, At(c) <= Len(M), NEW out, Blocks(out, M, c)
  PROVE  Blocks(out, Cat(M, d), c)
<1>1. ASSUME NEW j \in 1 .. c PROVE Chunk(Cat(M, d), At(j - 1)) = Chunk(M, At(j - 1))
  <2>1. j - 1 \in Nat /\ j - 1 < c
    OBVIOUS
  <2>2. At(j - 1) \in Nat /\ At(j - 1) + Block <= At(c) /\ At(c) \in Nat
    BY <2>1, AtIs
  <2>3. At(j - 1) + Block <= Len(M)
    BY <2>2, BlockIs DEF IsSeq
  <2> QED
    BY <2>2, <2>3, ChunkSame
<1> QED
  BY <1>1 DEF Blocks

LEMMA BlocksNext ==
  ASSUME NEW M, NEW c \in Nat, NEW out, Blocks(out, M, c), NEW b, b = Chunk(M, At(c))
  PROVE  Blocks(Append(out, b), M, c + 1)
<1>1. /\ IsSeq(Append(out, b)) /\ Len(Append(out, b)) = c + 1
      /\ \A k \in 1 .. c : Append(out, b)[k] = out[k]
      /\ Append(out, b)[c + 1] = b
  BY AppendIs DEF Blocks
<1>2. ASSUME NEW j \in 1 .. c + 1 PROVE Append(out, b)[j] = Chunk(M, At(j - 1))
  <2>1. CASE j = c + 1
    BY <1>1, <2>1
  <2>2. CASE j # c + 1
    <3>1. j \in 1 .. c
      BY <2>2
    <3> QED
      BY <1>1, <3>1 DEF Blocks
  <2> QED
    BY <2>1, <2>2
<1> QED
  BY <1>1, <1>2 DEF Blocks

\* The same chunks make the same list.
LEMMA BlocksOne ==
  ASSUME NEW M, NEW c \in Nat, NEW out, Blocks(out, M, c), NEW out2, Blocks(out2, M, c)
  PROVE  out = out2
BY SeqsEqual DEF Blocks

LEMMA ChunkIs ==
  ASSUME NEW M, NEW o, NEW b, IsSeq(b), Len(b) = Block, \A k \in 1 .. Block : b[k] = M[o + k]
  PROVE  b = Chunk(M, o)
BY DEF Chunk, IsSeq

-----------------------------------------------------------------------------
(* sha256 of secp256k1.                                                    *)

LEMMA UpToIs ==
  ASSUME NEW n \in Nat
  PROVE  IsSeq(UpTo(n)) /\ Len(UpTo(n)) = n /\ \A k \in 1 .. n : UpTo(n)[k] = k
<1> DEFINE f == [k \in 1 .. n |-> k]
<1>1. UpTo(n) = Tuple(f) /\ f = [k \in 1 .. n |-> f[k]] /\ \A k \in 1 .. n : f[k] = k
  BY DEF UpTo
<1> HIDE DEF f
<1> QED
  BY <1>1, TupleIs

\* One block is filled and compressed.
Feed(acc, o) ==
  LET b == CopyTo(acc.buf, o, SubSeq(acc.data, 1, Block - o))
  IN  [data |-> Drop(acc.data, Block - o), buf |-> b, out |-> Append(acc.out, b)]
FeedStep(acc, i, fill) == Feed(acc, IF i = 1 THEN fill ELSE 0)

\* The function in the fold of sha256_write.
IsFeed(g, base, fill, s) ==
  g = [i \in 0 .. Len(s) |->
         IF i = 0 THEN base
         ELSE IF g[i - 1] = g[i - 1] THEN FeedStep(g[i - 1], s[i], fill) ELSE g[i - 1]]
IsFeedTo(g, base, fill, n) ==
  g = [i \in 0 .. n |-> IF i = 0 THEN base ELSE FeedStep(g[i - 1], i, fill)]

FeedAll(base, fill, n) == (CHOOSE g : IsFeed(g, base, fill, UpTo(n)))[Len(UpTo(n))]
Written(h, data, fill, full, all) ==
  [bytes |-> h.bytes + Len(data), out |-> all.out,
   buf |-> CopyTo(all.buf, IF full = 0 THEN fill ELSE 0, all.data)]

Start(h, data) == [data |-> data, buf |-> h.buf, out |-> h.out]

LEMMA WriteIs ==
  ASSUME NEW h, NEW data, NEW fill, fill = h.bytes % Block, NEW full, full = (fill + Len(data)) \div Block
  PROVE  sha256_write(h, data) = Written(h, data, fill, full, FeedAll(Start(h, data), fill, full))
<1>1. sha256_write(h, data) =
        Written(h, data, h.bytes % Block, ((h.bytes % Block) + Len(data)) \div Block,
                FeedAll(Start(h, data), h.bytes % Block, ((h.bytes % Block) + Len(data)) \div Block))
  BY Zenon DEF sha256_write, Written, FeedAll, IsFeed, FeedStep, Feed, Fold, Start
<1> QED
  BY <1>1, Zenon

LEMMA FeedSame ==
  ASSUME NEW base, NEW fill, NEW n \in Nat, NEW g
  PROVE  IsFeed(g, base, fill, UpTo(n)) <=> IsFeedTo(g, base, fill, n)
<1>1. Len(UpTo(n)) = n /\ \A i \in 0 .. n : i # 0 => UpTo(n)[i] = i
  BY UpToIs
<1> QED
  BY <1>1 DEF IsFeed, IsFeedTo

LEMMA FeedExists ==
  ASSUME NEW base, NEW fill, NEW n \in Nat
  PROVE  \E g : IsFeedTo(g, base, fill, n)
<1> DEFINE T == {m \in Nat : \E g : IsFeedTo(g, base, fill, m)}
<1>1. \E g : IsFeedTo(g, base, fill, 0)
  <2> DEFINE g == [k \in 0 .. 0 |-> base]
  <2>1. g = [k \in 0 .. 0 |-> IF k = 0 THEN base ELSE FeedStep(g[k - 1], k, fill)]
    OBVIOUS
  <2> HIDE DEF g
  <2> QED
    BY <2>1 DEF IsFeedTo
<1>2. ASSUME NEW m \in Nat, NEW g, IsFeedTo(g, base, fill, m)
      PROVE  \E h : IsFeedTo(h, base, fill, m + 1)
  <2> DEFINE new == FeedStep(g[m], m + 1, fill)
             h == [k \in 0 .. m + 1 |-> IF k = m + 1 THEN new ELSE g[k]]
  <2>1. ASSUME NEW k \in 0 .. m + 1
        PROVE  h[k] = IF k = 0 THEN base ELSE FeedStep(h[k - 1], k, fill)
    <3>1. CASE k # m + 1
      <4>1. h[k] = g[k] /\ (k # 0 => h[k - 1] = g[k - 1]) /\ k \in 0 .. m
        BY <3>1
      <4> HIDE DEF h
      <4>2. g[k] = IF k = 0 THEN base ELSE FeedStep(g[k - 1], k, fill)
        BY <1>2, <4>1 DEF IsFeedTo
      <4> QED
        BY <4>1, <4>2
    <3>2. CASE k = m + 1
      <4>1. h[k] = new /\ h[k - 1] = g[m] /\ k # 0
        BY <3>2
      <4> HIDE DEF h
      <4> QED
        BY <4>1, <3>2
    <3> QED
      BY <3>1, <3>2
  <2>2. h = [k \in 0 .. m + 1 |-> h[k]]
    OBVIOUS
  <2> HIDE DEF h
  <2>3. h = [k \in 0 .. m + 1 |-> IF k = 0 THEN base ELSE FeedStep(h[k - 1], k, fill)]
    BY <2>1, <2>2
  <2> QED
    BY <2>3 DEF IsFeedTo
<1>3. 0 \in T /\ \A m \in Nat : m \in T => m + 1 \in T
  BY <1>1, <1>2
<1> HIDE DEF T
<1>4. n \in T
  BY <1>3, Induction
<1> QED
  BY <1>4 DEF T

\* The fold, as the last of a list of steps.
LEMMA FeedAllIs ==
  ASSUME NEW base, NEW fill, NEW n \in Nat
  PROVE  \E g : IsFeedTo(g, base, fill, n) /\ FeedAll(base, fill, n) = g[n]
<1>1. \E g : IsFeed(g, base, fill, UpTo(n))
  BY FeedExists, FeedSame
<1>2. IsFeed(CHOOSE g : IsFeed(g, base, fill, UpTo(n)), base, fill, UpTo(n))
  BY <1>1, Zenon
<1>3. Len(UpTo(n)) = n
  BY UpToIs
<1> QED
  BY <1>2, <1>3, FeedSame DEF FeedAll

-----------------------------------------------------------------------------
\* The n bytes of M from p on.
Lies(d, M, p, n) == IsSeq(d) /\ Len(d) = n /\ \A k \in 1 .. n : d[k] = M[p + k]
\* A buffer that begins with the n bytes of M from p on.
Begins(b, M, p, n) == IsSeq(b) /\ Len(b) = Block /\ \A k \in 1 .. n : b[k] = M[p + k]

LEMMA LiesFirst ==
  ASSUME NEW M, NEW d, NEW p, NEW l \in Nat, Lies(d, M, p, l), NEW n \in 0 .. l
  PROVE  Lies(SubSeq(d, 1, n), M, p, n)
<1>1. IsSeq(d) /\ n \in Nat /\ n <= Len(d)
  BY DEF Lies
<1>2. /\ IsSeq(SubSeq(d, 1, n)) /\ Len(SubSeq(d, 1, n)) = n
      /\ \A k \in 1 .. n : SubSeq(d, 1, n)[k] = d[k]
  BY <1>1, TakeIs
<1>3. \A k \in 1 .. n : d[k] = M[p + k]
  BY DEF Lies
<1> QED
  BY <1>2, <1>3 DEF Lies

LEMMA LiesRest ==
  ASSUME NEW M, NEW d, NEW p \in Nat, NEW l \in Nat, Lies(d, M, p, l), NEW n \in 0 .. l
  PROVE  Lies(Drop(d, n), M, p + n, l - n)
<1>1. IsSeq(d) /\ n \in Nat /\ n <= Len(d) /\ Len(d) = l
  BY DEF Lies
<1>2. /\ IsSeq(Drop(d, n)) /\ Len(Drop(d, n)) = Len(d) - n
      /\ \A k \in 1 .. Len(d) - n : Drop(d, n)[k] = d[n + k]
  BY <1>1, DropIs
<1>3. ASSUME NEW k \in 1 .. l - n PROVE d[n + k] = M[p + n + k]
  <2>1. n + k \in 1 .. l /\ p + (n + k) = p + n + k
    OBVIOUS
  <2> QED
    BY <2>1 DEF Lies
<1> QED
  BY <1>1, <1>2, <1>3 DEF Lies

Copied(v, buf, o, b) ==
  /\ IsSeq(v) /\ Len(v) = Len(buf)
  /\ \A k \in 1 .. o : v[k] = buf[k]
  /\ \A k \in 1 .. Len(b) : v[o + k] = b[k]

LEMMA Copy ==
  ASSUME NEW buf, NEW b, NEW o \in Nat, IsSeq(buf), IsSeq(b), o + Len(b) <= Len(buf)
  PROVE  Copied(CopyTo(buf, o, b), buf, o, b)
BY CopyIs DEF Copied

\* One buffer filled from the data.
LEMMA Filled ==
  ASSUME NEW M, NEW p \in Nat, NEW o \in Nat, NEW n \in Nat, o + n <= Block,
         NEW buf, NEW d, Begins(buf, M, p, o), Lies(d, M, p + o, n)
  PROVE  Begins(CopyTo(buf, o, d), M, p, o + n)
<1>1. PICK u : u = CopyTo(buf, o, d)
  OBVIOUS
<1>2. /\ IsSeq(u) /\ Len(u) = Block
      /\ \A k \in 1 .. o : u[k] = buf[k]
      /\ \A k \in 1 .. n : u[o + k] = d[k]
  <2>1. IsSeq(buf) /\ IsSeq(d) /\ o + Len(d) <= Len(buf) /\ Len(d) = n /\ Len(buf) = Block
    BY DEF Begins, Lies
  <2>2. /\ IsSeq(CopyTo(buf, o, d)) /\ Len(CopyTo(buf, o, d)) = Len(buf)
        /\ \A k \in 1 .. o : CopyTo(buf, o, d)[k] = buf[k]
        /\ \A k \in 1 .. Len(d) : CopyTo(buf, o, d)[o + k] = d[k]
    <3>1. Copied(CopyTo(buf, o, d), buf, o, d)
      BY <2>1, Copy
    <3> QED
      BY <3>1 DEF Copied
  <2> QED
    BY <1>1, <2>1, <2>2
<1>3. ASSUME NEW k \in 1 .. o + n PROVE u[k] = M[p + k]
  <2>2. CASE k <= o
    <3>1. k \in 1 .. o
      BY <2>2
    <3> QED
      BY <1>2, <3>1 DEF Begins
  <2>3. CASE k > o
    <3>1. PICK i \in 1 .. n : k = o + i
      <4>1. k - o \in 1 .. n /\ k = o + (k - o)
        BY <2>3
      <4> QED
        BY <4>1
    <3>2. u[k] = d[i] /\ d[i] = M[p + o + i]
      BY <1>2, <3>1 DEF Lies
    <3>3. p + o + i = p + k
      BY <3>1
    <3> QED
      BY <3>2, <3>3
  <2> QED
    BY <2>2, <2>3
<1> QED
  BY <1>1, <1>2, <1>3 DEF Begins

LEMMA BeginsNothing ==
  ASSUME NEW M, NEW b, NEW p, NEW n, Begins(b, M, p, n), NEW M2, NEW q
  PROVE  Begins(b, M2, q, 0)
BY DEF Begins

LEMMA BeginsChunk ==
  ASSUME NEW M, NEW b, NEW p, Begins(b, M, p, Block)
  PROVE  b = Chunk(M, p)
BY ChunkIs DEF Begins

-----------------------------------------------------------------------------
\* c blocks of M are compressed, o bytes of the next one are in the buffer and the l other
\* bytes of M are to be fed.
Fed(acc, M, c, o, l) ==
  /\ Begins(acc.buf, M, At(c), o) /\ Lies(acc.data, M, At(c) + o, l) /\ Blocks(acc.out, M, c)

LEMMA FedNext ==
  ASSUME NEW M, NEW c \in Nat, NEW o \in 0 .. Block - 1, NEW l \in Nat, NEW acc, Fed(acc, M, c, o, l),
         o + l >= Block
  PROVE  Fed(Feed(acc, o), M, c + 1, 0, (o + l) - Block)
<1>1. PICK n \in Nat : n = Block - o /\ o + n = Block /\ n \in 0 .. l /\ l - n = (o + l) - Block
  <2>1. Block - o \in Nat /\ o + (Block - o) = Block /\ Block - o \in 0 .. l /\ l - (Block - o) = (o + l) - Block
    BY BlockIs
  <2> QED
    BY <2>1
<1>2. At(c) \in Nat /\ At(c + 1) = At(c) + Block /\ At(c) + o \in Nat /\ o \in Nat
  <2>1. At(c) \in Nat /\ At(c + 1) = At(c) + Block
    BY AtIs
  <2> QED
    BY <2>1, BlockIs
<1>4. PICK d, e, b : /\ d = SubSeq(acc.data, 1, n) /\ e = Drop(acc.data, n) /\ b = CopyTo(acc.buf, o, d)
  OBVIOUS
<1>5. Begins(acc.buf, M, At(c), o) /\ Lies(acc.data, M, At(c) + o, l) /\ Blocks(acc.out, M, c)
  BY DEF Fed
<1>6. Lies(d, M, At(c) + o, n)
  BY <1>1, <1>4, <1>5, LiesFirst
<1>7. Lies(e, M, At(c + 1) + 0, (o + l) - Block)
  <2>1. Lies(e, M, At(c) + o + n, l - n)
    BY <1>1, <1>2, <1>4, <1>5, LiesRest
  <2>2. At(c) + o + n = At(c + 1) + 0
    BY <1>1, <1>2
  <2> QED
    BY <1>1, <2>1, <2>2
<1>8. Begins(b, M, At(c), Block)
  <2>1. Begins(b, M, At(c), o + n)
    <3>1. o + n <= Block
      BY <1>1, BlockIs
    <3> QED
      BY <1>2, <1>4, <1>5, <1>6, <3>1, Filled
  <2> QED
    BY <1>1, <2>1
<1>9. Blocks(Append(acc.out, b), M, c + 1)
  <2>1. b = Chunk(M, At(c))
    BY <1>8, BeginsChunk
  <2> QED
    BY <1>5, <2>1, BlocksNext
<1>10. /\ Feed(acc, o).data = e /\ Feed(acc, o).buf = b /\ Feed(acc, o).out = Append(acc.out, b)
  BY <1>1, <1>4 DEF Feed
<1>11. Begins(b, M, At(c + 1), 0)
  BY <1>8, BeginsNothing
<1> QED
  BY <1>7, <1>9, <1>10, <1>11 DEF Fed

\* A context that was fed M: q blocks and r bytes.
Holds(h, M, q, r) ==
  /\ IsSeq(M) /\ h.bytes = Len(M) /\ Len(M) = At(q) + r
  /\ Blocks(h.out, M, q) /\ Begins(h.buf, M, At(q), r)

Off(i, r) == IF i = 0 THEN r ELSE 0

LEMMA OffIs ==
  ASSUME NEW r \in 0 .. Block - 1, NEW i \in Nat
  PROVE  Off(i, r) \in 0 .. Block - 1 /\ Off(0, r) = r /\ Off(i + 1, r) = 0
BY BlockIs DEF Off

LEMMA BeginsMore ==
  ASSUME NEW M, NEW d, IsSeq(M), IsSeq(d), NEW b, NEW p \in Nat, NEW n \in Nat, p + n <= Len(M), Begins(b, M, p, n)
  PROVE  Begins(b, Cat(M, d), p, n)
<1>1. \A k \in 1 .. n : p + k \in 1 .. Len(M)
  BY DEF IsSeq
<1>2. \A k \in 1 .. n : Cat(M, d)[p + k] = M[p + k]
  BY <1>1, CatIs
<1> QED
  BY <1>2 DEF Begins

LEMMA LiesBehind ==
  ASSUME NEW M, NEW d, IsSeq(M), IsSeq(d)
  PROVE  Lies(d, Cat(M, d), Len(M), Len(d))
BY CatIs DEF Lies

LEMMA FedStart ==
  ASSUME NEW M, NEW d, IsSeq(d), NEW q \in Nat, NEW r \in 0 .. Block - 1, NEW h, Holds(h, M, q, r)
  PROVE  Fed(Start(h, d), Cat(M, d), q, r, Len(d))
<1>1. At(q) \in Nat /\ r \in Nat
  BY AtIs, BlockIs
<1>2. IsSeq(M) /\ Len(M) = At(q) + r /\ Blocks(h.out, M, q) /\ Begins(h.buf, M, At(q), r)
  BY DEF Holds
<1>3. At(q) <= Len(M) /\ At(q) + r <= Len(M)
  BY <1>1, <1>2
<1>4. Blocks(h.out, Cat(M, d), q)
  BY <1>2, <1>3, BlocksSame
<1>5. Begins(h.buf, Cat(M, d), At(q), r)
  BY <1>1, <1>2, <1>3, BeginsMore
<1>6. Lies(d, Cat(M, d), At(q) + r, Len(d))
  <2>1. Lies(d, Cat(M, d), Len(M), Len(d))
    BY <1>2, LiesBehind
  <2> QED
    BY <1>2, <2>1
<1>7. Start(h, d).buf = h.buf /\ Start(h, d).data = d /\ Start(h, d).out = h.out
  BY DEF Start
<1> QED
  BY <1>4, <1>5, <1>6, <1>7 DEF Fed

\* What is left after i blocks of r + l bytes.
Left(r, l, i) == ((r + l) - At(i)) - Off(i, r)

LEMMA FedAll ==
  ASSUME NEW M, NEW q \in Nat, NEW r \in 0 .. Block - 1, NEW l \in Nat, NEW base, Fed(base, M, q, r, l),
         NEW f \in Nat, At(f) <= r + l, NEW g, IsFeedTo(g, base, r, f)
  PROVE  Fed(g[f], M, q + f, Off(f, r), Left(r, l, f))
<1> DEFINE Good(i) == i <= f => Fed(g[i], M, q + i, Off(i, r), Left(r, l, i))
           T == {i \in Nat : Good(i)}
<1>1. Good(0)
  <2>1. g[0] = base
    BY DEF IsFeedTo
  <2>2. q + 0 = q /\ Off(0, r) = r /\ Left(r, l, 0) = l
    <3>1. At(0) = 0
      BY AtIs
    <3> QED
      BY <3>1, BlockIs DEF Off, Left
  <2> QED
    BY <2>1, <2>2
<1>2. ASSUME NEW i \in Nat, Good(i), i + 1 <= f
      PROVE  Fed(g[i + 1], M, q + (i + 1), Off(i + 1, r), Left(r, l, i + 1))
  <2>1. Fed(g[i], M, q + i, Off(i, r), Left(r, l, i)) /\ q + i \in Nat /\ (q + i) + 1 = q + (i + 1)
    BY <1>2
  <2>2. PICK o \in 0 .. Block - 1 : o = Off(i, r)
    BY OffIs
  <2>3. At(i) \in Nat /\ At(i + 1) = At(i) + Block /\ At(i + 1) <= At(f) /\ At(f) \in Nat
    <3>1. At(i) \in Nat /\ At(i + 1) = At(i) + Block
      BY AtIs
    <3>2. At(f) \in Nat /\ (i < f => At(i) + Block <= At(f))
      BY AtIs
    <3> QED
      BY <1>2, <3>1, <3>2
  <2>4. At(i + 1) <= r + l
    BY <2>3, BlockIs
  <2>5. PICK m \in Nat : m = Left(r, l, i) /\ o + m >= Block /\ (o + m) - Block = Left(r, l, i + 1)
    <3>1. Off(i + 1, r) = 0
      BY OffIs
    <3>2. Left(r, l, i) = ((r + l) - At(i)) - o /\ Left(r, l, i + 1) = ((r + l) - At(i + 1)) - 0
      BY <2>2, <3>1 DEF Left
    <3>3. (r + l) - At(i) >= Block /\ (r + l) - At(i) \in Int
      BY <2>3, <2>4, BlockIs
    <3>4. Left(r, l, i) \in Nat /\ o + Left(r, l, i) >= Block /\ (o + Left(r, l, i)) - Block = Left(r, l, i + 1)
      BY <2>3, <3>2, <3>3, BlockIs
    <3> QED
      BY <3>4
  <2>6. Fed(Feed(g[i], o), M, (q + i) + 1, 0, (o + m) - Block)
    <3>1. Fed(g[i], M, q + i, o, m)
      BY <2>1, <2>2, <2>5
    <3> QED
      BY <2>1, <2>5, <3>1, FedNext
  <2>7. g[i + 1] = Feed(g[i], o)
    <3>1. i + 1 \in 0 .. f /\ i + 1 # 0 /\ (i + 1) - 1 = i /\ (i + 1 = 1 <=> i = 0)
      BY <1>2
    <3>2. g[i + 1] = FeedStep(g[i], i + 1, r)
      BY <3>1 DEF IsFeedTo
    <3>3. FeedStep(g[i], i + 1, r) = Feed(g[i], Off(i, r))
      BY <3>1 DEF FeedStep, Off
    <3> QED
      BY <2>2, <3>2, <3>3
  <2>8. Off(i + 1, r) = 0
    BY OffIs
  <2> QED
    BY <2>1, <2>5, <2>6, <2>7, <2>8
<1>3. 0 \in T /\ \A i \in Nat : i \in T => i + 1 \in T
  BY <1>1, <1>2
<1> HIDE DEF T
<1>4. f \in T
  BY <1>3, Induction
<1> QED
  BY <1>4 DEF T

LEMMA WriteHolds ==
  ASSUME NEW M, NEW d, IsSeq(d), NEW q \in Nat, NEW r \in 0 .. Block - 1, NEW h, Holds(h, M, q, r)
  PROVE  \E p \in Nat, s \in 0 .. Block - 1 : Holds(sha256_write(h, d), Cat(M, d), p, s)
<1>1. PICK l \in Nat : l = Len(d)
  BY DEF IsSeq
<1>2. PICK f \in Nat, s \in 0 .. Block - 1 : f = (r + l) \div Block /\ r + l = At(f) + s
  <2>1. r + l \in Nat
    BY BlockIs
  <2> QED
    BY <2>1, Divided
<1>3. IsSeq(M) /\ h.bytes = At(q) + r /\ Len(M) = At(q) + r /\ h.bytes \in Nat
  BY DEF Holds, IsSeq
<1>4. h.bytes % Block = r
  BY <1>3, DividedIs
<1>5. PICK g : IsFeedTo(g, Start(h, d), r, f) /\ FeedAll(Start(h, d), r, f) = g[f]
  BY FeedAllIs
<1>6. PICK w : w = sha256_write(h, d) /\ w = Written(h, d, r, f, g[f])
  <2>1. r = h.bytes % Block /\ f = (r + Len(d)) \div Block
    BY <1>1, <1>2, <1>4
  <2>2. sha256_write(h, d) = Written(h, d, r, f, FeedAll(Start(h, d), r, f))
    BY <2>1, WriteIs
  <2> QED
    BY <1>5, <2>2
<1>7. PICK N : N = Cat(M, d)
  OBVIOUS
<1>8. At(q) \in Nat /\ At(f) \in Nat /\ At(q + f) = At(q) + At(f) /\ q + f \in Nat
  <2>1. At(q) \in Nat /\ At(f) \in Nat /\ At(q + f) = At(q) + At(f)
    BY AtIs
  <2> QED
    BY <2>1
<1>9. At(f) <= r + l
  BY <1>2, <1>8, BlockIs
<1>10. PICK o \in 0 .. Block - 1, m \in Nat : o = Off(f, r) /\ m = Left(r, l, f) /\ o + m = s
  <2>1. PICK o \in 0 .. Block - 1 : o = Off(f, r)
    BY OffIs
  <2>2. Left(r, l, f) = s - o /\ s - o \in Nat
    <3>1. (r + l) - At(f) = s
      BY <1>2, <1>8, BlockIs
    <3>2. f = 0 => o = r /\ s = r + l
      <4>1. At(0) = 0
        BY AtIs
      <4> QED
        BY <1>2, <2>1, <4>1, BlockIs DEF Off
    <3>3. f # 0 => o = 0
      BY <2>1 DEF Off
    <3>4. o <= s
      BY <3>2, <3>3, BlockIs
    <3> QED
      BY <2>1, <3>1, <3>4, BlockIs DEF Left
  <2>3. o + (s - o) = s
    BY BlockIs
  <2> QED
    BY <2>1, <2>2, <2>3
<1>11. Fed(g[f], N, q + f, o, m)
  <2>1. Fed(Start(h, d), N, q, r, l)
    BY <1>1, <1>7, FedStart
  <2>2. Fed(g[f], N, q + f, Off(f, r), Left(r, l, f))
    BY <1>5, <1>9, <2>1, FedAll
  <2> QED
    BY <1>10, <2>2
<1>12. w.bytes = h.bytes + Len(d) /\ w.out = g[f].out /\ w.buf = CopyTo(g[f].buf, o, g[f].data)
  BY <1>6, <1>10 DEF Written, Off
<1>13. Begins(w.buf, N, At(q + f), s)
  <2>1. Begins(g[f].buf, N, At(q + f), o) /\ Lies(g[f].data, N, At(q + f) + o, m)
    BY <1>11 DEF Fed
  <2>2. o \in Nat /\ o + m <= Block /\ At(q + f) \in Nat
    BY <1>8, <1>10, BlockIs
  <2>3. Begins(CopyTo(g[f].buf, o, g[f].data), N, At(q + f), o + m)
    BY <2>1, <2>2, Filled
  <2> QED
    BY <1>10, <1>12, <2>3
<1>14. IsSeq(N) /\ Len(N) = At(q + f) + s /\ w.bytes = Len(N)
  <2>1. IsSeq(N) /\ Len(N) = Len(M) + Len(d)
    BY <1>3, <1>7, CatIs
  <2>2. Len(N) = (At(q) + r) + l /\ w.bytes = (At(q) + r) + l
    BY <1>1, <1>3, <1>12, <2>1
  <2>3. (At(q) + r) + l = At(q + f) + s
    BY <1>2, <1>8, BlockIs
  <2> QED
    BY <2>1, <2>2, <2>3
<1>15. Blocks(w.out, N, q + f)
  BY <1>11, <1>12 DEF Fed
<1>16. Holds(w, N, q + f, s)
  BY <1>13, <1>14, <1>15 DEF Holds
<1> QED
  BY <1>6, <1>7, <1>8, <1>16

-----------------------------------------------------------------------------
(* The message padded.                                                     *)

LEMMA CatAssociative ==
  ASSUME NEW s, NEW t, NEW u, IsSeq(s), IsSeq(t), IsSeq(u)
  PROVE  Cat(Cat(s, t), u) = Cat(s, Cat(t, u))
<1> DEFINE S == {s[i] : i \in 1 .. Len(s)} \cup {t[i] : i \in 1 .. Len(t)} \cup {u[i] : i \in 1 .. Len(u)}
<1>1. s \in Seq(S) /\ t \in Seq(S) /\ u \in Seq(S)
  BY SeqOver
<1> HIDE DEF S
<1>2. (s \o t) \o u = s \o (t \o u)
  BY <1>1
<1> QED
  BY <1>2 DEF Cat

\* The blocks of a message, as lists of cells.
Cut(M, c) == Tuple([k \in 1 .. c |-> SubSeq(M, (k - 1) * Block + 1, k * Block)])

LEMMA CutIs ==
  ASSUME NEW M, IsSeq(M), NEW c \in Nat, At(c) <= Len(M)
  PROVE  Blocks(Cut(M, c), M, c)
<1> DEFINE f == [k \in 1 .. c |-> SubSeq(M, (k - 1) * Block + 1, k * Block)]
<1>1. ASSUME NEW k \in 1 .. c PROVE f[k] = Chunk(M, At(k - 1))
  <2>1. f[k] = SubSeq(M, (k - 1) * Block + 1, k * Block)
    OBVIOUS
  <2> HIDE DEF f
  <2>2. PICK j \in Nat : j = k - 1 /\ k = j + 1 /\ j < c
    <3>1. k - 1 \in Nat /\ k = (k - 1) + 1 /\ k - 1 < c
      OBVIOUS
    <3> QED
      BY <3>1
  <2>3. At(j) \in Nat /\ At(j + 1) = At(j) + Block /\ At(j) + Block <= At(c) /\ At(c) \in Nat
    BY <2>2, AtIs
  <2>4. (k - 1) * Block = At(j) /\ k * Block = At(j) + Block
    <3>1. j * Block = At(j) /\ (j + 1) * Block = At(j + 1)
      BY BlockIs DEF At
    <3> QED
      BY <2>2, <2>3, <3>1
  <2>5. f[k] = Part(M, At(j), Block)
    BY <2>1, <2>4 DEF Part
  <2>6. At(j) + Block <= Len(M)
    BY <2>3, BlockIs DEF IsSeq
  <2>7. /\ IsSeq(Part(M, At(j), Block)) /\ Len(Part(M, At(j), Block)) = Block
        /\ \A i \in 1 .. Block : Part(M, At(j), Block)[i] = M[At(j) + i]
    BY <2>3, <2>6, BlockIs, PartIs
  <2>8. Part(M, At(j), Block) = Chunk(M, At(j))
    BY <2>7, ChunkIs
  <2> QED
    BY <2>2, <2>5, <2>8
<1>2. f = [k \in 1 .. c |-> f[k]] /\ Cut(M, c) = Tuple(f)
  BY DEF Cut
<1> HIDE DEF f
<1>3. IsSeq(Cut(M, c)) /\ Len(Cut(M, c)) = c /\ \A k \in 1 .. c : Cut(M, c)[k] = f[k]
  BY <1>2, TupleIs
<1> QED
  BY <1>1, <1>3 DEF Blocks

\* The zeros that end a block behind n bytes, the 80 and the length.
Pads(n) == {z \in 0..(Block - 1) : (n + 1 + z + 2) % Block = 0}
Gap(r) == (2 * Block - 3 - r) % Block

LEMMA PadsOne ==
  ASSUME NEW q \in Nat, NEW r \in 0 .. Block - 1, NEW n \in Nat, n = At(q) + r
  PROVE  /\ Gap(r) \in 0 .. Block - 1 /\ Pads(n) = {Gap(r)}
         /\ \E c \in Nat : n + 3 + Gap(r) = At(c)
<1>1. At(q) \in Nat
  BY AtIs
<1>2. PICK a \in Nat, z \in 0 .. Block - 1 : z = (2 * Block - 3 - r) % Block /\ 2 * Block - 3 - r = At(a) + z
  <2>1. 2 * Block - 3 - r \in Nat
    BY BlockIs
  <2> QED
    BY <2>1, Divided
<1>3. a = 0 \/ a = 1
  <2>1. At(2) = 2 * Block /\ At(a) \in Nat
    <3>1. At(0) = 0 /\ At(0 + 1) = At(0) + Block /\ At(1 + 1) = At(1) + Block
      BY AtIs
    <3>2. At(a) \in Nat
      BY AtIs
    <3> QED
      BY <3>1, <3>2, BlockIs
  <2>2. 2 < a => At(2) + Block <= At(a)
    BY AtIs
  <2>3. a < 2
    BY <1>2, <2>1, <2>2, BlockIs
  <2> QED
    BY <2>3
<1>4. PICK c \in Nat : n + 3 + z = At(c)
  <2>1. At(0) = 0 /\ At(1) = Block
    <3>1. At(0) = 0 /\ At(0 + 1) = At(0) + Block
      BY AtIs
    <3> QED
      BY <3>1, BlockIs
  <2>2. At(q + 1) = At(q) + Block /\ At((q + 1) + 1) = At(q + 1) + Block
    BY AtIs
  <2>3. CASE a = 0
    <3>1. n + 3 + z = At((q + 1) + 1)
      BY <1>1, <1>2, <2>1, <2>2, <2>3, BlockIs
    <3> QED
      BY <3>1
  <2>4. CASE a = 1
    <3>1. n + 3 + z = At(q + 1)
      BY <1>1, <1>2, <2>1, <2>2, <2>4, BlockIs
    <3> QED
      BY <3>1
  <2> QED
    BY <1>3, <2>3, <2>4
<1>5. ASSUME NEW y \in 0 .. Block - 1, (n + 1 + y + 2) % Block = 0 PROVE y = z
  <2>1. PICK p \in Nat, s \in 0 .. Block - 1 : s = (n + 1 + y + 2) % Block /\ n + 1 + y + 2 = At(p) + s
    <3>1. n + 1 + y + 2 \in Nat
      BY BlockIs
    <3> QED
      BY <3>1, Divided
  <2>2. n + 3 + y = At(p) /\ At(p) \in Nat /\ At(c) \in Nat
    <3>1. At(p) \in Nat /\ At(c) \in Nat
      BY AtIs
    <3> QED
      BY <1>5, <2>1, <3>1, BlockIs
  <2>3. (p < c => At(p) + Block <= At(c)) /\ (c < p => At(c) + Block <= At(p))
    BY AtIs
  <2>4. p = c
    BY <1>4, <2>2, <2>3, BlockIs
  <2> QED
    BY <1>4, <2>2, <2>4, BlockIs
<1>6. (n + 1 + z + 2) % Block = 0
  <2>1. n + 1 + z + 2 = At(c) + 0 /\ n + 1 + z + 2 \in Nat /\ 0 \in 0 .. Block - 1
    <3>1. At(c) \in Nat
      BY AtIs
    <3> QED
      BY <1>4, <3>1, BlockIs
  <2> QED
    BY <2>1, DividedIs
<1>7. Gap(r) = z
  BY <1>2 DEF Gap
<1>8. Pads(n) = {z}
  BY <1>5, <1>6 DEF Pads
<1> QED
  BY <1>4, <1>7, <1>8

Sizes(n) == <<LengthCell((8 * n) \div 2^LengthWord), LengthCell((8 * n) % 2^LengthWord)>>
\* The padded message.
Padded(n) == Cat(Cat(Bytes(0, n), Cat(<<Eighty>>, Zeros(Gap(n % Block)))), Sizes(n))

LEMMA TwoIs == ASSUME NEW x, NEW y PROVE IsSeq(<<x, y>>) /\ Len(<<x, y>>) = 2
BY DEF IsSeq
LEMMA OneIs == ASSUME NEW x PROVE IsSeq(<<x>>) /\ Len(<<x>>) = 1
BY DEF IsSeq

LEMMA PaddedIs ==
  ASSUME NEW n \in Nat
  PROVE  /\ IsSeq(Padded(n)) /\ \E c \in Nat : Len(Padded(n)) = At(c) /\ Blocks(Padded80(n), Padded(n), c)
<1>1. PICK q \in Nat, r \in 0 .. Block - 1 : r = n % Block /\ n = At(q) + r
  BY Divided
<1>2. PICK z \in 0 .. Block - 1, c \in Nat : z = Gap(r) /\ Pads(n) = {z} /\ n + 3 + z = At(c)
  BY <1>1, PadsOne
<1>3. z \in Nat
  BY BlockIs
<1>4. PICK B, E, Z, S : B = Bytes(0, n) /\ E = <<Eighty>> /\ Z = Zeros(z) /\ S = Sizes(n)
  OBVIOUS
<1>5. IsSeq(B) /\ Len(B) = n
  BY <1>4, BytesIs
<1>6. IsSeq(Z) /\ Len(Z) = z
  BY <1>3, <1>4, ZerosIs
<1>7. IsSeq(E) /\ Len(E) = 1 /\ IsSeq(S) /\ Len(S) = 2
  BY <1>4, OneIs, TwoIs DEF Sizes
<1>8. PICK P : P = Padded(n) /\ P = Cat(Cat(B, Cat(E, Z)), S)
  BY <1>1, <1>2, <1>4 DEF Padded
<1>9. IsSeq(P) /\ Len(P) = n + 3 + z
  <2>1. IsSeq(Cat(E, Z)) /\ Len(Cat(E, Z)) = 1 + z
    <3>1. IsSeq(E) /\ IsSeq(Z) /\ Len(E) = 1 /\ Len(Z) = z
      BY <1>6, <1>7
    <3>2. IsSeq(Cat(E, Z)) /\ Len(Cat(E, Z)) = Len(E) + Len(Z)
      BY <3>1, CatIs
    <3> QED
      BY <3>1, <3>2, Zenon
  <2>2. IsSeq(Cat(B, Cat(E, Z))) /\ Len(Cat(B, Cat(E, Z))) = n + (1 + z)
    BY <1>5, <2>1, CatIs
  <2>3. IsSeq(P) /\ Len(P) = (n + (1 + z)) + 2
    <3>1. IsSeq(S) /\ Len(S) = 2
      BY <1>7
    <3>2. IsSeq(Cat(Cat(B, Cat(E, Z)), S)) /\ Len(Cat(Cat(B, Cat(E, Z)), S)) = Len(Cat(B, Cat(E, Z))) + Len(S)
      BY <2>2, <3>1, CatIs
    <3> QED
      BY <1>8, <2>2, <3>1, <3>2
  <2> QED
    BY <1>3, <2>3
<1>10. Padded80(n) = Cut(P, Len(P) \div Block)
  <2>1. (CHOOSE x \in Pads(n) : TRUE) = z
    BY <1>2
  <2>2. P = ((B \o E) \o Z) \o S
    <3>1. Cat(B, Cat(E, Z)) = Cat(Cat(B, E), Z)
      BY <1>5, <1>6, <1>7, CatAssociative
    <3> QED
      BY <1>8, <3>1 DEF Cat
  <2>3. P = Bytes(0, n) \o <<Eighty>> \o Zeros(CHOOSE x \in Pads(n) : TRUE) \o Sizes(n)
    BY <1>4, <2>1, <2>2, Zenon
  <2>4. Padded80(n) = Cut(Bytes(0, n) \o <<Eighty>> \o Zeros(CHOOSE x \in Pads(n) : TRUE) \o Sizes(n),
                          Len(Bytes(0, n) \o <<Eighty>> \o Zeros(CHOOSE x \in Pads(n) : TRUE) \o Sizes(n)) \div Block)
    BY Zenon DEF Padded80, Cut, Pads, Sizes
  <2> QED
    BY <2>3, <2>4, Zenon
<1>11. Len(P) \div Block = c /\ At(c) <= Len(P)
  <2>1. At(c) \in Nat
    BY AtIs
  <2>2. Len(P) = At(c) + 0 /\ Len(P) \in Nat /\ 0 \in 0 .. Block - 1
    BY <1>2, <1>9, <2>1, BlockIs
  <2> QED
    BY <2>1, <2>2, DividedIs
<1>12. Blocks(Cut(P, c), P, c)
  BY <1>9, <1>11, CutIs
<1> QED
  BY <1>2, <1>8, <1>9, <1>10, <1>11, <1>12

\* Bytes that follow each other.
LEMMA BytesNext ==
  ASSUME NEW m \in Nat, NEW n \in Nat
  PROVE  Cat(Bytes(0, m), Bytes(m, n)) = Bytes(0, m + n)
<1>1. PICK A, B, C : A = Bytes(0, m) /\ B = Bytes(m, n) /\ C = Bytes(0, m + n)
  OBVIOUS
<1>2. IsSeq(A) /\ Len(A) = m /\ \A k \in 1 .. m : A[k] = 0 + k
  BY <1>1, BytesIs
<1>3. IsSeq(B) /\ Len(B) = n /\ \A k \in 1 .. n : B[k] = m + k
  BY <1>1, BytesIs
<1>4. IsSeq(C) /\ Len(C) = m + n /\ \A k \in 1 .. m + n : C[k] = 0 + k
  <2>1. m + n \in Nat
    OBVIOUS
  <2> QED
    BY <1>1, <2>1, BytesIs
<1>5. /\ IsSeq(Cat(A, B)) /\ Len(Cat(A, B)) = m + n
      /\ \A i \in 1 .. m : Cat(A, B)[i] = A[i]
      /\ \A i \in 1 .. n : Cat(A, B)[m + i] = B[i]
  <2>1. IsSeq(A) /\ IsSeq(B) /\ Len(A) = m /\ Len(B) = n
    BY <1>2, <1>3
  <2>2. /\ IsSeq(Cat(A, B)) /\ Len(Cat(A, B)) = Len(A) + Len(B)
        /\ \A i \in 1 .. Len(A) : Cat(A, B)[i] = A[i]
        /\ \A i \in 1 .. Len(B) : Cat(A, B)[Len(A) + i] = B[i]
    <3>1. IsSeq(A) /\ IsSeq(B)
      BY <2>1
    <3> QED
      BY <3>1, CatIs
  <2> QED
    BY <2>1, <2>2, Zenon
<1>6. ASSUME NEW k \in 1 .. m + n PROVE Cat(A, B)[k] = C[k]
  <2>1. CASE k <= m
    <3>1. k \in 1 .. m
      BY <2>1
    <3> QED
      BY <1>2, <1>4, <1>5, <3>1
  <2>2. CASE k > m
    <3>1. PICK i \in 1 .. n : k = m + i
      <4>1. k - m \in 1 .. n /\ k = m + (k - m)
        BY <2>2
      <4> QED
        BY <4>1
    <3>2. Cat(A, B)[k] = m + i /\ C[k] = 0 + k
      BY <1>3, <1>4, <1>5, <3>1
    <3> QED
      BY <3>1, <3>2
  <2> QED
    BY <2>1, <2>2
<1>7. Cat(A, B) = C
  BY <1>4, <1>5, <1>6, SeqsEqual
<1> QED
  BY <1>1, <1>7

\* The two ways to the words of the length.
LEMMA HighWord ==
  ASSUME NEW n \in Nat, NEW P \in Nat \ {0}
  PROVE  n \div P = (8 * n) \div (8 * P)
<1>1. PICK a \in Nat, b \in 0 .. P - 1 : a = n \div P /\ n = P * a + b
  BY DivMod
<1>2. P * a \in Nat /\ 8 * (P * a) = (8 * P) * a
  BY TimesAdd
<1>3. 8 * n = (8 * P) * a + 8 * b /\ 8 * b \in 0 .. (8 * P) - 1
  BY <1>1, <1>2
<1>4. 8 * n \in Nat /\ 8 * P \in Nat \ {0}
  OBVIOUS
<1>5. (8 * n) \div (8 * P) = a
  BY <1>3, <1>4, DivIs
<1> QED
  BY <1>1, <1>5

SecpSizes(n) == <<LengthCell(n \div 2^(LengthWord - 3)), LengthCell((n * 8) % 2^LengthWord)>>
SecpPad(n) == <<Eighty>> \o Zeros((2 * Block - 3 - (n % Block)) % Block)

LEMMA SecpSizesIs == ASSUME NEW n \in Nat PROVE SecpSizes(n) = Sizes(n)
<1>1. PICK P \in Nat \ {0} : P = 2^(LengthWord - 3) /\ 2^LengthWord = 8 * P
  BY HashAssumption
<1>2. n \div P = (8 * n) \div (8 * P)
  BY HighWord
<1>3. n \div 2^(LengthWord - 3) = (8 * n) \div 2^LengthWord
  BY <1>1, <1>2
<1>4. n * 8 = 8 * n
  OBVIOUS
<1> QED
  BY <1>3, <1>4, Zenon DEF SecpSizes, Sizes

LEMMA FinalizeIs ==
  ASSUME NEW h, NEW n, h.bytes = n
  PROVE  sha256_finalize(h) = sha256_write(sha256_write(h, SecpPad(n)), SecpSizes(n)).out
BY Zenon DEF sha256_finalize, SecpPad, SecpSizes

\* The digest of a context that was fed the bytes 1 to n.
LEMMA SecpDigest ==
  ASSUME NEW n \in Nat, NEW q \in Nat, NEW r \in 0 .. Block - 1, NEW h, Holds(h, Bytes(0, n), q, r)
  PROVE  sha256_finalize(h) = Padded80(n)
<1>1. Len(Bytes(0, n)) = n
  BY BytesIs
<1>2. h.bytes = n /\ n = At(q) + r
  BY <1>1 DEF Holds
<1>3. PICK D, S : D = Cat(<<Eighty>>, Zeros(Gap(n % Block))) /\ S = Sizes(n)
  OBVIOUS
<1>4. sha256_finalize(h) = sha256_write(sha256_write(h, D), S).out
  <2>1. SecpPad(n) = D
    BY <1>3 DEF SecpPad, Gap, Cat
  <2>2. SecpSizes(n) = S
    BY <1>3, SecpSizesIs
  <2> QED
    BY <1>2, <2>1, <2>2, FinalizeIs
<1>5. IsSeq(D) /\ IsSeq(S)
  <2>1. n % Block = r
    BY <1>2, DividedIs
  <2>2. Gap(r) \in Nat
    <3>1. Gap(r) \in 0 .. Block - 1
      BY <1>2, PadsOne
    <3> QED
      BY <3>1, BlockIs
  <2>3. IsSeq(Zeros(Gap(r))) /\ IsSeq(<<Eighty>>)
    BY <2>2, ZerosIs, OneIs
  <2>4. IsSeq(Cat(<<Eighty>>, Zeros(Gap(r))))
    BY <2>3, CatIs
  <2>5. IsSeq(S)
    BY <1>3, TwoIs DEF Sizes
  <2> QED
    BY <1>3, <2>1, <2>4, <2>5
<1>6. PICK q1 \in Nat, r1 \in 0 .. Block - 1 : Holds(sha256_write(h, D), Cat(Bytes(0, n), D), q1, r1)
  BY <1>5, WriteHolds
<1>7. PICK q2 \in Nat, r2 \in 0 .. Block - 1 :
        Holds(sha256_write(sha256_write(h, D), S), Cat(Cat(Bytes(0, n), D), S), q2, r2)
  BY <1>5, <1>6, WriteHolds
<1>8. PICK P : P = Padded(n) /\ P = Cat(Cat(Bytes(0, n), D), S)
  BY <1>3 DEF Padded
<1>9. Blocks(sha256_finalize(h), P, q2) /\ Len(P) = At(q2) + r2
  BY <1>4, <1>7, <1>8 DEF Holds
<1>10. PICK c \in Nat : Len(P) = At(c) /\ Blocks(Padded80(n), P, c)
  BY <1>8, PaddedIs
<1>11. q2 = c
  <2>1. At(c) \in Nat
    BY AtIs
  <2>2. Len(P) \in Nat /\ Len(P) = At(c) + 0 /\ 0 \in 0 .. Block - 1
    BY <1>10, <2>1, BlockIs
  <2>3. Len(P) \div Block = c
    BY <2>2, DividedIs
  <2>4. Len(P) \div Block = q2
    BY <1>9, <2>2, DividedIs
  <2> QED
    BY <2>3, <2>4
<1> QED
  BY <1>9, <1>10, <1>11, BlocksOne

-----------------------------------------------------------------------------
(* sha256 and sm3 of gmssl.                                                *)

Sm(c, M, q, r) ==
  /\ c = [num |-> c.num, nblocks |-> c.nblocks, block |-> c.block, out |-> c.out]
  /\ IsSeq(M) /\ Len(M) = At(q) + r /\ c.num = r /\ c.nblocks = q
  /\ Blocks(c.out, M, q) /\ Begins(c.block, M, At(q), r)

LEMMA AppendCat == ASSUME NEW s, IsSeq(s), NEW x PROVE Append(s, x) = Cat(s, <<x>>)
<1> DEFINE S == {s[i] : i \in 1 .. Len(s)} \cup {x}
<1>1. s \in Seq(S) /\ x \in S
  BY SeqOver
<1> HIDE DEF S
<1> QED
  BY <1>1 DEF Cat

LEMMA AppendTwo == ASSUME NEW s, IsSeq(s), NEW x, NEW y PROVE Append(Append(s, x), y) = Cat(s, <<x, y>>)
<1> DEFINE S == {s[i] : i \in 1 .. Len(s)} \cup {x, y}
<1>1. s \in Seq(S) /\ x \in S /\ y \in S
  BY SeqOver
<1> HIDE DEF S
<1> QED
  BY <1>1 DEF Cat

LEMMA CatNothing == ASSUME NEW s, IsSeq(s) PROVE Cat(s, << >>) = s
<1> DEFINE S == {s[i] : i \in 1 .. Len(s)}
<1>1. s \in Seq(S)
  BY SeqOver
<1> HIDE DEF S
<1> QED
  BY <1>1 DEF Cat

LEMMA ChunkShift ==
  ASSUME NEW M, NEW d, NEW p \in Nat, NEW l \in Nat, Lies(d, M, p, l), NEW o \in Nat, o + Block <= l
  PROVE  Chunk(d, o) = Chunk(M, p + o)
<1>1. ASSUME NEW k \in 1 .. Block PROVE d[o + k] = M[p + o + k]
  <2>1. o + k \in 1 .. l /\ p + (o + k) = p + o + k
    BY BlockIs
  <2> QED
    BY <2>1 DEF Lies
<1> QED
  BY <1>1 DEF Chunk

\* Whole blocks behind blocks.
LEMMA BlocksCat ==
  ASSUME NEW M, NEW q \in Nat, NEW out, Blocks(out, M, q), NEW d, NEW l \in Nat, Lies(d, M, At(q), l),
         NEW b \in Nat, At(b) <= l
  PROVE  Blocks(Cat(out, Cut(d, b)), M, q + b)
<1>1. PICK c : c = Cut(d, b)
  OBVIOUS
<1>2. IsSeq(c) /\ Len(c) = b /\ \A j \in 1 .. b : c[j] = Chunk(d, At(j - 1))
  <2>1. IsSeq(d) /\ At(b) <= Len(d)
    BY DEF Lies
  <2>2. Blocks(Cut(d, b), d, b)
    BY <2>1, CutIs
  <2> QED
    BY <1>1, <2>2 DEF Blocks
<1>3. IsSeq(out) /\ Len(out) = q /\ \A j \in 1 .. q : out[j] = Chunk(M, At(j - 1))
  BY DEF Blocks
<1>4. PICK w : w = Cat(out, c)
  OBVIOUS
<1>5. /\ IsSeq(w) /\ Len(w) = q + b
      /\ \A i \in 1 .. q : w[i] = out[i]
      /\ \A i \in 1 .. b : w[q + i] = c[i]
  <2>1. IsSeq(out) /\ IsSeq(c)
    BY <1>2, <1>3
  <2>2. /\ IsSeq(Cat(out, c)) /\ Len(Cat(out, c)) = Len(out) + Len(c)
        /\ \A i \in 1 .. Len(out) : Cat(out, c)[i] = out[i]
        /\ \A i \in 1 .. Len(c) : Cat(out, c)[Len(out) + i] = c[i]
    BY <2>1, CatIs
  <2>3. Len(out) = q /\ Len(c) = b
    BY <1>2, <1>3
  <2> QED
    BY <1>4, <2>2, <2>3, Zenon
<1>6. ASSUME NEW j \in 1 .. q + b PROVE w[j] = Chunk(M, At(j - 1))
  <2>1. CASE j <= q
    <3>1. j \in 1 .. q
      BY <2>1
    <3> QED
      BY <1>3, <1>5, <3>1
  <2>2. CASE j > q
    <3>1. PICK i \in Nat : j = q + (i + 1) /\ i + 1 \in 1 .. b /\ (i + 1) - 1 = i /\ j - 1 = q + i /\ i < b
      <4>1. (j - q) - 1 \in Nat /\ j = q + (((j - q) - 1) + 1) /\ ((j - q) - 1) + 1 \in 1 .. b
        BY <2>2
      <4>2. PICK i \in Nat : i = (j - q) - 1 /\ j = q + (i + 1) /\ i + 1 \in 1 .. b
        BY <4>1
      <4> QED
        BY <4>2
    <3>2. w[j] = Chunk(d, At(i))
      BY <1>2, <1>5, <3>1
    <3>3. At(i) \in Nat /\ At(q) \in Nat /\ At(q + i) = At(q) + At(i) /\ At(i) + Block <= At(b) /\ At(b) \in Nat
      BY <3>1, AtIs
    <3>4. At(i) + Block <= l
      BY <3>3, BlockIs
    <3>5. Chunk(d, At(i)) = Chunk(M, At(q) + At(i))
      BY <3>3, <3>4, ChunkShift
    <3> QED
      BY <3>1, <3>2, <3>3, <3>5
  <2> QED
    BY <2>1, <2>2
<1> QED
  BY <1>1, <1>4, <1>5, <1>6 DEF Blocks

-----------------------------------------------------------------------------
\* The parts of sm3_update.
SmFirst(c, d) == IF c.num > 0 THEN CopyTo(c.block, c.num, SubSeq(d, 1, Block - c.num)) ELSE c.block
SmRest(c, d) == IF c.num > 0 THEN Drop(d, Block - c.num) ELSE d
SmOut(c, d) == c.out \o (IF c.num > 0 THEN <<SmFirst(c, d)>> ELSE <<>>)
SmShort(c, d) == c.num > 0 /\ Len(d) < Block - c.num
SmLong(c, rest, first, out, more, b) ==
  [num |-> Len(Drop(rest, Block * b)), block |-> CopyTo(first, 0, Drop(rest, Block * b)),
   nblocks |-> c.nblocks + b + more, out |-> out \o Cut(rest, b)]

LEMMA UpdateIs ==
  ASSUME NEW c, NEW d
  PROVE  sm3_update(c, d) =
           IF SmShort(c, d) THEN [c EXCEPT !.block = CopyTo(@, c.num, d), !.num = @ + Len(d)]
           ELSE SmLong(c, SmRest(c, d), SmFirst(c, d), SmOut(c, d), IF c.num > 0 THEN 1 ELSE 0, Len(SmRest(c, d)) \div Block)
BY Zenon DEF sm3_update, SmShort, SmLong, SmRest, SmFirst, SmOut, Cut

\* Behind q blocks and r bytes: the first block completed, if there is one.
LEMMA SmCompleted ==
  ASSUME NEW M, NEW q \in Nat, NEW r \in 0 .. Block - 1, NEW c, NEW d, NEW l \in Nat,
         c.num = r, Blocks(c.out, M, q), Begins(c.block, M, At(q), r), Lies(d, M, At(q) + r, l), ~SmShort(c, d),
         NEW e, e = IF r > 0 THEN 1 ELSE 0
  PROVE  /\ e \in Nat
         /\ \E m \in Nat : At(q + e) + m = At(q) + r + l /\ Lies(SmRest(c, d), M, At(q + e), m)
         /\ Begins(SmFirst(c, d), M, At(q + e), 0)
         /\ Blocks(SmOut(c, d), M, q + e)
<1>1. At(q) \in Nat /\ At(q + 1) = At(q) + Block /\ q + 0 = q /\ At(q) + r \in Nat
  <2>1. At(q) \in Nat /\ At(q + 1) = At(q) + Block
    BY AtIs
  <2> QED
    BY <2>1, BlockIs
<1>2. CASE r = 0
  <2>1. SmRest(c, d) = d /\ SmFirst(c, d) = c.block /\ SmOut(c, d) = Cat(c.out, << >>) /\ e = 0
    BY <1>2 DEF SmRest, SmFirst, SmOut, Cat
  <2>2. SmOut(c, d) = c.out
    BY <2>1, CatNothing DEF Blocks
  <2>3. Begins(c.block, M, At(q), 0) /\ Lies(d, M, At(q), l)
    BY <1>1, <1>2
  <2> QED
    BY <1>1, <1>2, <2>1, <2>2, <2>3
<1>3. CASE r > 0
  <2>1. e = 1 /\ r \in Nat
    BY <1>3, BlockIs
  <2>2. PICK n \in Nat : n = Block - c.num /\ r + n = Block /\ n \in 0 .. l
    <3>1. Len(d) = l
      BY DEF Lies
    <3>2. Block - r \in Nat /\ r + (Block - r) = Block /\ Block - r \in 0 .. l
      BY <1>3, <3>1, BlockIs DEF SmShort
    <3> QED
      BY <3>2
  <2>3. PICK a, b : a = SubSeq(d, 1, n) /\ b = CopyTo(c.block, r, a)
    OBVIOUS
  <2>4. SmFirst(c, d) = b /\ SmRest(c, d) = Drop(d, n) /\ SmOut(c, d) = Cat(c.out, <<b>>)
    BY <1>3, <2>2, <2>3 DEF SmRest, SmFirst, SmOut, Cat
  <2>5. Lies(a, M, At(q) + r, n)
    BY <2>2, <2>3, LiesFirst
  <2>6. Begins(b, M, At(q), Block)
    <3>1. r + n <= Block
      BY <2>2, BlockIs
    <3>2. Begins(b, M, At(q), r + n)
      BY <1>1, <2>1, <2>3, <2>5, <3>1, Filled
    <3> QED
      BY <2>2, <3>2
  <2>7. Blocks(SmOut(c, d), M, q + 1)
    <3>1. b = Chunk(M, At(q))
      BY <2>6, BeginsChunk
    <3>2. Blocks(Append(c.out, b), M, q + 1)
      BY <3>1, BlocksNext
    <3>3. Append(c.out, b) = Cat(c.out, <<b>>)
      BY AppendCat DEF Blocks
    <3> QED
      BY <2>4, <3>2, <3>3
  <2>8. Lies(SmRest(c, d), M, At(q + 1), l - n) /\ l - n \in Nat /\ At(q + 1) + (l - n) = At(q) + r + l
    <3>1. Lies(Drop(d, n), M, (At(q) + r) + n, l - n)
      BY <1>1, <2>2, LiesRest
    <3>2. (At(q) + r) + n = At(q + 1) /\ l - n \in Nat /\ At(q + 1) + (l - n) = At(q) + r + l
      BY <1>1, <2>1, <2>2, BlockIs
    <3> QED
      BY <2>4, <3>1, <3>2
  <2>9. Begins(b, M, At(q + 1), 0)
    BY <2>6, BeginsNothing
  <2> QED
    BY <2>1, <2>4, <2>7, <2>8, <2>9
<1> QED
  BY <1>2, <1>3, BlockIs

LEMMA UpdateHolds ==
  ASSUME NEW M, NEW d, IsSeq(d), NEW q \in Nat, NEW r \in 0 .. Block - 1, NEW c, Sm(c, M, q, r)
  PROVE  \E p \in Nat, s \in 0 .. Block - 1 : Sm(sm3_update(c, d), Cat(M, d), p, s)
<1>1. PICK l \in Nat : l = Len(d)
  BY DEF IsSeq
<1>2. PICK N : N = Cat(M, d)
  OBVIOUS
<1>3. /\ IsSeq(M) /\ Len(M) = At(q) + r /\ c.num = r /\ c.nblocks = q
      /\ Blocks(c.out, M, q) /\ Begins(c.block, M, At(q), r)
      /\ c = [num |-> c.num, nblocks |-> c.nblocks, block |-> c.block, out |-> c.out]
  BY DEF Sm
<1>4. At(q) \in Nat /\ r \in Nat
  BY AtIs, BlockIs
<1>5. Blocks(c.out, N, q) /\ Begins(c.block, N, At(q), r) /\ Lies(d, N, At(q) + r, l)
  <2>1. At(q) <= Len(M) /\ At(q) + r <= Len(M) /\ IsSeq(M)
    BY <1>3, <1>4
  <2>2. Blocks(c.out, N, q)
    BY <1>2, <1>3, <2>1, BlocksSame
  <2>3. Begins(c.block, N, At(q), r)
    BY <1>2, <1>3, <1>4, <2>1, BeginsMore
  <2>4. Lies(d, N, Len(M), l)
    BY <1>1, <1>2, <2>1, LiesBehind
  <2> QED
    BY <1>3, <2>2, <2>3, <2>4
<1>6. IsSeq(N) /\ Len(N) = At(q) + r + l
  <2>1. IsSeq(N) /\ Len(N) = Len(M) + Len(d)
    <3>1. IsSeq(M)
      BY <1>3
    <3> QED
      BY <1>2, <3>1, CatIs
  <2> QED
    BY <1>1, <1>3, <2>1
<1>7. PICK u : u = sm3_update(c, d)
  OBVIOUS
<1>8. CASE SmShort(c, d)
  <2>1. r + l \in 0 .. Block - 1 /\ r + l <= Block /\ At(q) + (r + l) = At(q) + r + l
    BY <1>1, <1>3, <1>4, <1>8, BlockIs DEF SmShort
  <2>2. u = [c EXCEPT !.block = CopyTo(@, c.num, d), !.num = @ + Len(d)]
    BY <1>7, <1>8, UpdateIs
  <2>3. /\ u = [num |-> u.num, nblocks |-> u.nblocks, block |-> u.block, out |-> u.out]
        /\ u.num = r + l /\ u.nblocks = q /\ u.block = CopyTo(c.block, r, d) /\ u.out = c.out
    BY <1>1, <1>3, <2>2
  <2>4. Begins(CopyTo(c.block, r, d), N, At(q), r + l)
    BY <1>4, <1>5, <2>1, Filled
  <2>5. Sm(u, N, q, r + l)
    BY <1>5, <1>6, <2>1, <2>3, <2>4 DEF Sm
  <2> QED
    BY <1>2, <1>7, <2>1, <2>5
<1>9. CASE ~SmShort(c, d)
  <2>1. PICK e : e = IF r > 0 THEN 1 ELSE 0
    OBVIOUS
  <2>2. PICK w, f, o : w = SmRest(c, d) /\ f = SmFirst(c, d) /\ o = SmOut(c, d)
    OBVIOUS
  <2>3. /\ e \in Nat
        /\ \E m \in Nat : At(q + e) + m = At(q) + r + l /\ Lies(w, N, At(q + e), m)
        /\ Begins(f, N, At(q + e), 0) /\ Blocks(o, N, q + e)
    BY <1>3, <1>5, <1>9, <2>1, <2>2, SmCompleted
  <2>4. PICK p \in Nat : p = q + e
    BY <2>3
  <2>5. PICK m \in Nat : At(p) + m = At(q) + r + l /\ Lies(w, N, At(p), m)
    BY <2>3, <2>4
  <2>6. PICK b \in Nat, s \in 0 .. Block - 1 : b = m \div Block /\ m = At(b) + s
    BY Divided
  <2>7. At(p) \in Nat /\ At(b) \in Nat /\ At(p + b) = At(p) + At(b)
    BY AtIs
  <2>8. At(b) \in 0 .. m /\ m - At(b) = s /\ Block * b = At(b) /\ At(b) <= m
    <3>1. At(b) \in 0 .. m /\ m - At(b) = s /\ At(b) <= m
      BY <2>6, <2>7, BlockIs
    <3> QED
      BY <3>1 DEF At
  <2>9. PICK t : t = Drop(w, Block * b)
    OBVIOUS
  <2>10. Lies(t, N, At(p + b) + 0, s)
    <3>1. Lies(Drop(w, At(b)), N, At(p) + At(b), m - At(b))
      BY <2>5, <2>7, <2>8, LiesRest
    <3>2. At(p) + At(b) = At(p + b) + 0
      BY <2>7
    <3> QED
      BY <2>8, <2>9, <3>1, <3>2
  <2>11. Begins(CopyTo(f, 0, t), N, At(p + b), s)
    <3>1. Begins(f, N, At(p + b), 0)
      BY <2>3, BeginsNothing
    <3>2. s \in Nat /\ 0 + s <= Block /\ At(p + b) \in Nat /\ 0 \in Nat /\ 0 + s = s
      BY <2>7, BlockIs
    <3>3. Begins(CopyTo(f, 0, t), N, At(p + b), 0 + s)
      BY <2>10, <3>1, <3>2, Filled
    <3> QED
      BY <3>2, <3>3
  <2>12. Blocks(Cat(o, Cut(w, b)), N, p + b)
    BY <2>3, <2>4, <2>5, <2>8, BlocksCat
  <2>13. u = SmLong(c, w, f, o, e, b)
    <3>1. Len(w) = m
      BY <2>5 DEF Lies
    <3> QED
      BY <1>3, <1>7, <1>9, <2>1, <2>2, <2>6, <3>1, UpdateIs
  <2>14. /\ u = [num |-> u.num, nblocks |-> u.nblocks, block |-> u.block, out |-> u.out]
         /\ u.num = s /\ u.nblocks = p + b /\ u.block = CopyTo(f, 0, t) /\ u.out = Cat(o, Cut(w, b))
    <3>1. Len(t) = s /\ c.nblocks + b + e = p + b
      BY <1>3, <2>3, <2>4, <2>10 DEF Lies
    <3> QED
      BY <2>9, <2>13, <3>1 DEF SmLong, Cat
  <2>15. Len(N) = At(p + b) + s /\ p + b \in Nat
    <3>1. Len(N) = At(p) + m
      BY <1>6, <2>5
    <3>2. m = At(b) + s /\ s \in Nat /\ p + b \in Nat
      BY <2>6, BlockIs
    <3>3. At(p) + m = (At(p) + At(b)) + s
      BY <2>7, <3>2
    <3> QED
      BY <2>7, <3>1, <3>2, <3>3
  <2>16. Sm(u, N, p + b, s)
    BY <1>6, <2>11, <2>12, <2>14, <2>15 DEF Sm
  <2> QED
    BY <1>2, <1>7, <2>15, <2>16
<1> QED
  BY <1>8, <1>9

\* The cells of the padded message behind the n bytes.
LEMMA PaddedCells ==
  ASSUME NEW n \in Nat, NEW q \in Nat, NEW r \in 0 .. Block - 1, n = At(q) + r, NEW z, z = Gap(r)
  PROVE  /\ z \in Nat /\ Len(Padded(n)) = ((n + 1) + z) + 2
         /\ \A b, k, p : k \in Nat /\ p \in Nat /\ p + k <= n /\ Begins(b, Bytes(0, n), p, k) => Begins(b, Padded(n), p, k)
         /\ \A out, c : c \in Nat /\ At(c) <= n /\ Blocks(out, Bytes(0, n), c) => Blocks(out, Padded(n), c)
         /\ Lies(<<Eighty>>, Padded(n), n, 1)
         /\ \A p, m : p \in Nat /\ m \in Nat /\ n + 1 <= p /\ p + m <= (n + 1) + z => Lies(Zeros(m), Padded(n), p, m)
         /\ Lies(Sizes(n), Padded(n), (n + 1) + z, 2)
<1>1. n % Block = r
  BY DividedIs
<1>2. z \in Nat
  <2>1. Gap(r) \in 0 .. Block - 1
    BY PadsOne
  <2> QED
    BY <2>1, BlockIs
<1>3. PICK B, E, Z, S, F, G, D, P :
        /\ B = Bytes(0, n) /\ E = <<Eighty>> /\ Z = Zeros(z) /\ S = Sizes(n)
        /\ F = Cat(B, E) /\ G = Cat(F, Z) /\ D = Cat(Cat(E, Z), S) /\ P = Cat(G, S)
  OBVIOUS
<1>4. IsSeq(B) /\ Len(B) = n
  BY <1>3, BytesIs
<1>5. IsSeq(Z) /\ Len(Z) = z /\ \A k \in 1 .. z : Z[k] = 0
  BY <1>2, <1>3, ZerosIs
<1>6. IsSeq(E) /\ Len(E) = 1 /\ IsSeq(S) /\ Len(S) = 2
  BY <1>3, OneIs, TwoIs DEF Sizes
<1>7. IsSeq(F) /\ Len(F) = n + 1 /\ Lies(E, F, n, 1) /\ n + 1 \in Nat
  <2>1. IsSeq(B) /\ IsSeq(E)
    BY <1>4, <1>6
  <2>2. IsSeq(Cat(B, E)) /\ Len(Cat(B, E)) = Len(B) + Len(E) /\ Lies(E, Cat(B, E), Len(B), Len(E))
    BY <2>1, CatIs, LiesBehind
  <2> QED
    BY <1>3, <1>4, <1>6, <2>2
<1>8. IsSeq(G) /\ Len(G) = (n + 1) + z /\ Lies(Z, G, n + 1, z) /\ (n + 1) + z \in Nat
  <2>1. IsSeq(F) /\ IsSeq(Z)
    BY <1>5, <1>7
  <2>2. IsSeq(Cat(F, Z)) /\ Len(Cat(F, Z)) = Len(F) + Len(Z) /\ Lies(Z, Cat(F, Z), Len(F), Len(Z))
    BY <2>1, CatIs, LiesBehind
  <2> QED
    BY <1>2, <1>3, <1>5, <1>7, <2>2
<1>9. IsSeq(P) /\ Len(P) = ((n + 1) + z) + 2 /\ Lies(S, P, (n + 1) + z, 2)
  <2>1. IsSeq(G) /\ IsSeq(S)
    BY <1>6, <1>8
  <2>2. IsSeq(Cat(G, S)) /\ Len(Cat(G, S)) = Len(G) + Len(S) /\ Lies(S, Cat(G, S), Len(G), Len(S))
    BY <2>1, CatIs, LiesBehind
  <2> QED
    BY <1>3, <1>6, <1>8, <2>2
<1>10. P = Padded(n)
  <2>1. Cat(Cat(B, E), Z) = Cat(B, Cat(E, Z))
    BY <1>4, <1>5, <1>6, CatAssociative
  <2> QED
    BY <1>1, <1>3, <2>1 DEF Padded
<1>11. P = Cat(B, D) /\ IsSeq(D)
  <2>1. IsSeq(Cat(E, Z))
    BY <1>5, <1>6, CatIs
  <2>2. Cat(Cat(B, E), Z) = Cat(B, Cat(E, Z))
    BY <1>4, <1>5, <1>6, CatAssociative
  <2>3. Cat(Cat(B, Cat(E, Z)), S) = Cat(B, Cat(Cat(E, Z), S))
    BY <1>4, <1>6, <2>1, CatAssociative
  <2>4. IsSeq(Cat(Cat(E, Z), S))
    BY <1>6, <2>1, CatIs
  <2> QED
    BY <1>3, <2>2, <2>3, <2>4
<1>12. ASSUME NEW b, NEW k \in Nat, NEW p \in Nat, p + k <= n, Begins(b, B, p, k) PROVE Begins(b, P, p, k)
  <2>1. p + k <= Len(B)
    BY <1>4, <1>12
  <2> QED
    BY <1>4, <1>11, <1>12, <2>1, BeginsMore
<1>13. ASSUME NEW out, NEW c \in Nat, At(c) <= n, Blocks(out, B, c) PROVE Blocks(out, P, c)
  BY <1>4, <1>11, <1>13, BlocksSame
<1>14. \A k \in 1 .. (n + 1) + z : P[k] = G[k]
  <2>1. IsSeq(G) /\ IsSeq(S)
    BY <1>6, <1>8
  <2>2. \A k \in 1 .. Len(G) : Cat(G, S)[k] = G[k]
    BY <2>1, CatIs
  <2> QED
    BY <1>3, <1>8, <2>2
<1>15. \A k \in 1 .. n + 1 : G[k] = F[k]
  <2>1. IsSeq(F) /\ IsSeq(Z)
    BY <1>5, <1>7
  <2>2. \A k \in 1 .. Len(F) : Cat(F, Z)[k] = F[k]
    BY <2>1, CatIs
  <2> QED
    BY <1>3, <1>7, <2>2
<1>16. Lies(E, P, n, 1)
  <2>1. n + 1 \in 1 .. (n + 1) + z /\ n + 1 \in 1 .. n + 1
    BY <1>2
  <2>2. P[n + 1] = F[n + 1]
    BY <1>14, <1>15, <2>1
  <2>3. E[1] = F[n + 1]
    BY <1>7 DEF Lies
  <2> QED
    BY <1>6, <2>2, <2>3 DEF Lies
<1>17. ASSUME NEW p \in Nat, NEW m \in Nat, n + 1 <= p, p + m <= (n + 1) + z PROVE Lies(Zeros(m), P, p, m)
  <2>1. IsSeq(Zeros(m)) /\ Len(Zeros(m)) = m /\ \A k \in 1 .. m : Zeros(m)[k] = 0
    BY ZerosIs
  <2>2. ASSUME NEW k \in 1 .. m PROVE P[p + k] = 0
    <3>1. PICK i \in 1 .. z : p + k = (n + 1) + i
      <4>1. (p + k) - (n + 1) \in 1 .. z /\ p + k = (n + 1) + ((p + k) - (n + 1))
        BY <1>2, <1>17
      <4> QED
        BY <4>1
    <3>2. p + k \in 1 .. (n + 1) + z
      BY <1>2, <1>17
    <3>3. G[(n + 1) + i] = Z[i] /\ Z[i] = 0
      BY <1>5, <1>8 DEF Lies
    <3> QED
      BY <1>14, <3>1, <3>2, <3>3
  <2> QED
    BY <2>1, <2>2 DEF Lies
<1> QED
  BY <1>2, <1>3, <1>9, <1>10, <1>12, <1>13, <1>16, <1>17

\* The words of the length, from the number of blocks and of the bytes left.
LEMMA SmSizes ==
  ASSUME NEW n \in 0 .. MaxMessage, NEW q \in Nat, NEW r \in 0 .. Block - 1, n = At(q) + r
  PROVE  Sizes(n) = <<LengthCell((q \div 2^(LengthWord - BlockBits)) % 2^LengthWord),
                      LengthCell((q * 2^BlockBits + r * 8) % 2^LengthWord)>>
<1>1. PICK K \in Nat \ {0}, W \in Nat \ {0} :
        /\ K = 2^(LengthWord - BlockBits) /\ W = 2^LengthWord /\ W = (8 * Block) * K
        /\ 2^BlockBits = 8 * Block /\ 8 * MaxMessage < W * W /\ MaxMessage \in Nat
  BY HashAssumption
<1>2. PICK a \in Nat, t \in 0 .. K - 1 : a = q \div K /\ q = K * a + t
  BY DivMod
<1>3. PICK B \in Nat : B = 8 * Block /\ W = B * K /\ B > 0
  BY <1>1, BlockIs
<1>4. 8 * n = B * q + 8 * r
  <2>1. At(q) \in Nat /\ At(q) = Block * q
    BY BlockIs, AtIs DEF At
  <2>2. 8 * (Block * q) = B * q
    BY <1>3, BlockIs
  <2> QED
    BY <2>1, <2>2, BlockIs
<1>5. B * q = W * a + B * t
  <2>1. B * q = B * (K * a) + B * t
    <3>1. K * a \in Nat /\ t \in Nat
      BY TimesAdd
    <3> QED
      BY <1>2, <3>1, TimesAdd
  <2>2. B * (K * a) = (B * K) * a
    OBVIOUS
  <2> QED
    BY <1>3, <2>1, <2>2
<1>6. B * t + 8 * r \in 0 .. W - 1
  <2>1. t < K => B * t + B <= B * K
    BY TimesLess
  <2>2. B * t \in Nat
    BY TimesAdd
  <2>3. 8 * r < B /\ 8 * r \in Nat
    BY <1>3, BlockIs
  <2>4. t < K
    OBVIOUS
  <2> QED
    BY <1>3, <2>1, <2>2, <2>3, <2>4
<1>7. 8 * n \in Nat /\ 8 * n = W * a + (B * t + 8 * r)
  <2>1. W * a \in Nat /\ B * t \in Nat /\ 8 * r \in Nat
    BY TimesAdd, BlockIs
  <2> QED
    BY <1>4, <1>5, <2>1
<1>8. (8 * n) \div W = a
  BY <1>6, <1>7, DivIs
<1>9. a % W = a
  <2>1. ~(W < a) /\ a # W
    <3>1. W < a => W * W + W <= W * a
      BY TimesLess
    <3>2. W * a \in Nat /\ W * W \in Nat /\ 8 * n < W * W
      BY <1>1, TimesAdd
    <3> QED
      BY <1>6, <1>7, <3>1, <3>2
  <2>2. a \in 0 .. W - 1 /\ W * 0 + a = a
    BY <2>1
  <2> QED
    BY <2>2, DivIs
<1>10. q * 2^BlockBits + r * 8 = 8 * n
  <2>1. q * B = B * q /\ r * 8 = 8 * r
    BY BlockIs
  <2> QED
    BY <1>1, <1>3, <1>4, <2>1
<1>11. (8 * n) \div 2^LengthWord = (q \div 2^(LengthWord - BlockBits)) % 2^LengthWord
  BY <1>1, <1>2, <1>8, <1>9
<1> QED
  BY <1>10, <1>11, Zenon DEF Sizes

\* The parts of sm3_finish.
SmMarked(c) == CopyTo(c.block, c.num, <<Eighty>>)
SmWords(c) ==
  <<LengthCell((c.nblocks \div 2^(LengthWord - BlockBits)) % 2^LengthWord),
    LengthCell((c.nblocks * 2^BlockBits + c.num * 8) % 2^LengthWord)>>
SmOne(c) == CopyTo(CopyTo(SmMarked(c), c.num + 1, Zeros(Block - c.num - 3)), Block - 2, SmWords(c))
SmFull(c) == CopyTo(SmMarked(c), c.num + 1, Zeros(Block - c.num - 1))
SmTwo(c) == CopyTo(CopyTo(SmFull(c), 0, Zeros(Block - 2)), Block - 2, SmWords(c))

LEMMA FinishIs ==
  ASSUME NEW c
  PROVE  sm3_finish(c) = IF NeedsNoMore(c) THEN Append(c.out, SmOne(c))
                         ELSE Cat(c.out, <<SmFull(c), SmTwo(c)>>)
<1>1. CASE NeedsNoMore(c)
  BY <1>1, Zenon DEF sm3_finish, SmOne, SmWords, SmMarked
<1>2. CASE ~NeedsNoMore(c)
  BY <1>2, Zenon DEF sm3_finish, SmTwo, SmFull, SmWords, SmMarked, Cat
<1> QED
  BY <1>1, <1>2

\* How many zeros there are.
LEMMA GapIs ==
  ASSUME NEW r \in 0 .. Block - 1
  PROVE  Gap(r) = IF r <= Block - 3 THEN Block - r - 3 ELSE (Block - r - 1) + (Block - 2)
<1>1. At(0) = 0 /\ At(1) = Block
  <2>1. At(0) = 0 /\ At(0 + 1) = At(0) + Block
    BY AtIs
  <2> QED
    BY <2>1, BlockIs
<1>2. CASE r <= Block - 3
  <2>1. 2 * Block - 3 - r = At(1) + (Block - r - 3) /\ Block - r - 3 \in 0 .. Block - 1 /\ 2 * Block - 3 - r \in Nat
    BY <1>1, <1>2, BlockIs
  <2>2. (2 * Block - 3 - r) % Block = Block - r - 3
    BY <2>1, DividedIs
  <2> QED
    BY <1>2, <2>2 DEF Gap
<1>3. CASE ~(r <= Block - 3)
  <2>1. /\ 2 * Block - 3 - r = At(0) + ((Block - r - 1) + (Block - 2))
        /\ (Block - r - 1) + (Block - 2) \in 0 .. Block - 1 /\ 2 * Block - 3 - r \in Nat
    BY <1>1, <1>3, BlockIs
  <2>2. (2 * Block - 3 - r) % Block = (Block - r - 1) + (Block - 2)
    BY <2>1, DividedIs
  <2> QED
    BY <1>3, <2>2 DEF Gap
<1> QED
  BY <1>2, <1>3

LEMMA SmDigest ==
  ASSUME NEW n \in 0 .. MaxMessage, NEW q \in Nat, NEW r \in 0 .. Block - 1, NEW c, Sm(c, Bytes(0, n), q, r)
  PROVE  sm3_finish(c) = Padded80(n)
<1>0. n \in Nat
  BY HashAssumption
<1>1. n = At(q) + r /\ c.num = r /\ c.nblocks = q /\ Blocks(c.out, Bytes(0, n), q) /\ Begins(c.block, Bytes(0, n), At(q), r)
  <2>1. Len(Bytes(0, n)) = n
    BY <1>0, BytesIs
  <2> QED
    BY <2>1 DEF Sm
<1>2. At(q) \in Nat /\ At(q + 1) = At(q) + Block /\ At((q + 1) + 1) = At(q + 1) + Block
  BY AtIs
<1>3. r \in Nat /\ r + 1 <= Block
  BY BlockIs
<1>4. PICK P, z : P = Padded(n) /\ z = Gap(r)
  OBVIOUS
<1>5. /\ z \in Nat /\ Len(P) = ((n + 1) + z) + 2
      /\ Begins(c.block, P, At(q), r) /\ Blocks(c.out, P, q)
      /\ Lies(<<Eighty>>, P, n, 1) /\ Lies(Sizes(n), P, (n + 1) + z, 2)
  <2>1. At(q) + r <= n /\ At(q) <= n
    BY <1>1, <1>2, <1>3
  <2>2. /\ z \in Nat /\ Len(P) = ((n + 1) + z) + 2
        /\ Lies(<<Eighty>>, P, n, 1) /\ Lies(Sizes(n), P, (n + 1) + z, 2)
    <3>1. n = At(q) + r
      BY <1>1
    <3>2. /\ Gap(r) \in Nat /\ Len(Padded(n)) = ((n + 1) + Gap(r)) + 2
          /\ Lies(<<Eighty>>, Padded(n), n, 1) /\ Lies(Sizes(n), Padded(n), (n + 1) + Gap(r), 2)
      BY <1>0, <3>1, PaddedCells
    <3> QED
      BY <1>4, <3>2
  <2>3. Begins(c.block, P, At(q), r)
    BY <1>0, <1>1, <1>2, <1>3, <1>4, <2>1, PaddedCells
  <2>4. Blocks(c.out, P, q)
    BY <1>0, <1>1, <1>4, <2>1, PaddedCells
  <2> QED
    BY <2>2, <2>3, <2>4
<1>6. ASSUME NEW p \in Nat, NEW m \in Nat, n + 1 <= p, p + m <= (n + 1) + z PROVE Lies(Zeros(m), P, p, m)
  BY <1>0, <1>1, <1>4, <1>6, PaddedCells
<1>7. Begins(SmMarked(c), P, At(q), r + 1)
  <2>1. Lies(<<Eighty>>, P, At(q) + r, 1)
    BY <1>1, <1>5
  <2>2. Begins(CopyTo(c.block, r, <<Eighty>>), P, At(q), r + 1)
    BY <1>2, <1>3, <1>5, <2>1, Filled
  <2> QED
    BY <1>1, <2>2 DEF SmMarked
<1>8. SmWords(c) = Sizes(n)
  <2>1. Sizes(n) = <<LengthCell((q \div 2^(LengthWord - BlockBits)) % 2^LengthWord),
                      LengthCell((q * 2^BlockBits + r * 8) % 2^LengthWord)>>
    BY <1>1, SmSizes
  <2> QED
    BY <1>1, <2>1, Zenon DEF SmWords
<1>9. PICK e \in Nat : Len(P) = At(e) /\ Blocks(Padded80(n), P, e)
  BY <1>0, <1>4, PaddedIs
<1>10. ASSUME NEW i \in Nat, Len(P) = At(i) PROVE i = e
  <2>1. At(i) \in Nat /\ (i < e => At(i) + Block <= At(e)) /\ At(e) \in Nat /\ (e < i => At(e) + Block <= At(i))
    BY AtIs
  <2> QED
    BY <1>9, <1>10, <2>1, BlockIs
<1>11. CASE NeedsNoMore(c)
  <2>1. r <= Block - 3
    BY <1>1, <1>11 DEF NeedsNoMore
  <2>2. z = Block - r - 3
    BY <1>4, <2>1, GapIs
  <2>3. PICK b : b = CopyTo(SmMarked(c), r + 1, Zeros(z))
    OBVIOUS
  <2>4. Begins(b, P, At(q), Block - 2)
    <3>1. At(q) + (r + 1) \in Nat /\ n + 1 <= At(q) + (r + 1) /\ (At(q) + (r + 1)) + z <= (n + 1) + z
      <4>1. n = At(q) + r /\ z \in Nat
        BY <1>1, <1>5
      <4> QED
        BY <1>2, <1>3, <4>1
    <3>2. Lies(Zeros(z), P, At(q) + (r + 1), z)
      BY <1>5, <1>6, <3>1
    <3>3. r + 1 \in Nat /\ (r + 1) + z <= Block /\ (r + 1) + z = Block - 2
      BY <1>3, <2>2, BlockIs
    <3>4. Begins(b, P, At(q), (r + 1) + z)
      BY <1>2, <1>5, <1>7, <2>3, <3>2, <3>3, Filled
    <3> QED
      BY <3>3, <3>4
  <2>5. Begins(SmOne(c), P, At(q), Block)
    <3>1. (n + 1) + z = At(q) + (Block - 2) /\ Block - 2 \in Nat /\ (Block - 2) + 2 <= Block /\ (Block - 2) + 2 = Block
      BY <1>1, <1>2, <1>3, <2>2, BlockIs
    <3>2. Lies(Sizes(n), P, At(q) + (Block - 2), 2)
      BY <1>5, <3>1
    <3>3. Begins(CopyTo(b, Block - 2, Sizes(n)), P, At(q), (Block - 2) + 2)
      BY <1>2, <2>4, <3>1, <3>2, Filled
    <3>4. SmOne(c) = CopyTo(b, Block - 2, Sizes(n))
      BY <1>1, <1>8, <2>2, <2>3 DEF SmOne
    <3> QED
      BY <3>1, <3>3, <3>4
  <2>6. Blocks(Append(c.out, SmOne(c)), P, q + 1)
    <3>1. SmOne(c) = Chunk(P, At(q))
      BY <2>5, BeginsChunk
    <3> QED
      BY <1>5, <3>1, BlocksNext
  <2>7. q + 1 = e
    <3>1. Len(P) = At(q + 1)
      BY <1>1, <1>2, <1>3, <1>5, <2>2, BlockIs
    <3> QED
      BY <1>10, <3>1
  <2>8. sm3_finish(c) = Append(c.out, SmOne(c))
    BY <1>11, FinishIs
  <2>9. Blocks(sm3_finish(c), P, e)
    BY <2>6, <2>7, <2>8
  <2> QED
    BY <1>9, <2>9, BlocksOne
<1>12. CASE ~NeedsNoMore(c)
  <2>1. ~(r <= Block - 3)
    BY <1>1, <1>12 DEF NeedsNoMore
  <2>2. PICK x \in Nat : x = Block - r - 1 /\ z = x + (Block - 2) /\ (r + 1) + x = Block
    <3>1. z = (Block - r - 1) + (Block - 2)
      BY <1>4, <2>1, GapIs
    <3>2. Block - r - 1 \in Nat /\ (r + 1) + (Block - r - 1) = Block
      BY <1>3, BlockIs
    <3> QED
      BY <3>1, <3>2
  <2>3. Begins(SmFull(c), P, At(q), Block)
    <3>1. At(q) + (r + 1) \in Nat /\ n + 1 <= At(q) + (r + 1) /\ (At(q) + (r + 1)) + x <= (n + 1) + z
      BY <1>1, <1>2, <1>3, <2>2, BlockIs
    <3>2. Lies(Zeros(x), P, At(q) + (r + 1), x)
      BY <1>6, <3>1
    <3>3. r + 1 \in Nat /\ (r + 1) + x <= Block
      BY <1>3, <2>2, BlockIs
    <3>4. Begins(CopyTo(SmMarked(c), r + 1, Zeros(x)), P, At(q), (r + 1) + x)
      BY <1>2, <1>7, <3>2, <3>3, Filled
    <3>5. SmFull(c) = CopyTo(SmMarked(c), r + 1, Zeros(x))
      BY <1>1, <2>2 DEF SmFull
    <3> QED
      BY <2>2, <3>4, <3>5
  <2>4. PICK b : b = CopyTo(SmFull(c), 0, Zeros(Block - 2))
    OBVIOUS
  <2>5. PICK y \in Nat : y = Block - 2 /\ y + 2 <= Block /\ y + 2 = Block /\ 0 + y = y /\ 0 + y <= Block
    <3>1. Block - 2 \in Nat /\ (Block - 2) + 2 = Block /\ Block - 2 <= Block /\ (Block - 2) + 2 <= Block
      BY BlockIs
    <3> QED
      BY <3>1
  <2>6. At(q + 1) \in Nat /\ n + 1 <= At(q + 1) + 0 /\ (At(q + 1) + 0) + y <= (n + 1) + z /\ (n + 1) + z = At(q + 1) + y
    BY <1>1, <1>2, <1>3, <2>2, <2>5, BlockIs
  <2>7. Begins(b, P, At(q + 1), y)
    <3>1. Lies(Zeros(y), P, At(q + 1) + 0, y)
      <4>1. At(q + 1) + 0 \in Nat
        BY <2>6
      <4> QED
        BY <1>6, <2>6, <4>1
    <3>2. Begins(SmFull(c), P, At(q + 1), 0)
      BY <2>3, BeginsNothing
    <3>3. Begins(CopyTo(SmFull(c), 0, Zeros(y)), P, At(q + 1), 0 + y)
      BY <2>5, <2>6, <3>1, <3>2, Filled
    <3> QED
      BY <2>4, <2>5, <3>3
  <2>8. Begins(SmTwo(c), P, At(q + 1), Block)
    <3>1. Lies(Sizes(n), P, At(q + 1) + y, 2)
      BY <1>5, <2>6
    <3>2. Begins(CopyTo(b, y, Sizes(n)), P, At(q + 1), y + 2)
      BY <2>5, <2>6, <2>7, <3>1, Filled
    <3>3. SmTwo(c) = CopyTo(b, y, Sizes(n))
      BY <1>8, <2>4, <2>5 DEF SmTwo
    <3> QED
      BY <2>5, <3>2, <3>3
  <2>9. Blocks(Cat(c.out, <<SmFull(c), SmTwo(c)>>), P, (q + 1) + 1)
    <3>1. SmFull(c) = Chunk(P, At(q)) /\ SmTwo(c) = Chunk(P, At(q + 1))
      BY <2>3, <2>8, BeginsChunk
    <3>2. Blocks(Append(c.out, SmFull(c)), P, q + 1)
      BY <1>5, <3>1, BlocksNext
    <3>3. Blocks(Append(Append(c.out, SmFull(c)), SmTwo(c)), P, (q + 1) + 1)
      BY <3>1, <3>2, BlocksNext
    <3>4. Append(Append(c.out, SmFull(c)), SmTwo(c)) = Cat(c.out, <<SmFull(c), SmTwo(c)>>)
      BY <1>5, AppendTwo DEF Blocks
    <3> QED
      BY <3>3, <3>4
  <2>10. (q + 1) + 1 = e
    <3>1. Len(P) = At((q + 1) + 1)
      BY <1>2, <1>5, <2>5, <2>6, BlockIs
    <3> QED
      BY <1>10, <3>1
  <2>11. sm3_finish(c) = Cat(c.out, <<SmFull(c), SmTwo(c)>>)
    BY <1>12, FinishIs
  <2>12. Blocks(sm3_finish(c), P, e)
    BY <2>9, <2>10, <2>11
  <2> QED
    BY <1>9, <2>12, BlocksOne
<1> QED
  BY <1>11, <1>12

-----------------------------------------------------------------------------
(* keccak.                                                                 *)

Ws(x) == WordBytes * x
Rs(v) == RateWords * v

LEMMA RateIs == WordBytes \in Nat \ {0} /\ RateWords \in Nat \ {0}
BY HashAssumption

LEMMA WsIs ==
  ASSUME NEW x \in Nat
  PROVE  /\ Ws(x) \in Nat /\ Ws(x + 1) = Ws(x) + WordBytes /\ Ws(0) = 0
         /\ \A j \in Nat : Ws(x + j) = Ws(x) + Ws(j)
         /\ \A j \in Nat : x < j => Ws(x) + WordBytes <= Ws(j)
<1>1. Ws(x) \in Nat /\ \A j \in Nat : Ws(x + j) = Ws(x) + Ws(j)
  BY RateIs, TimesAdd DEF Ws
<1>2. Ws(1) = WordBytes /\ Ws(0) = 0
  BY RateIs DEF Ws
<1>3. \A j \in Nat : x < j => Ws(x) + WordBytes <= Ws(j)
  BY RateIs, TimesLess DEF Ws
<1> QED
  BY <1>1, <1>2, <1>3

LEMMA RsIs ==
  ASSUME NEW v \in Nat
  PROVE  Rs(v) \in Nat /\ Rs(v + 1) = Rs(v) + RateWords /\ Rs(0) = 0
<1>1. Rs(v) \in Nat /\ Rs(v + 1) = Rs(v) + Rs(1)
  BY RateIs, TimesAdd DEF Rs
<1>2. Rs(1) = RateWords /\ Rs(0) = 0
  BY RateIs DEF Rs
<1> QED
  BY <1>1, <1>2

\* The bytes a to b - 1 of word x of the message, each with its place.
Span(x, a, b) == {<<i, Ws(x) + i + 1>> : i \in a .. b - 1}

LEMMA SpanJoin ==
  ASSUME NEW x \in Nat, NEW a \in Nat, NEW b \in Nat, NEW c \in Nat, a <= b, b <= c
  PROVE  Span(x, a, b) \cup Span(x, b, c) = Span(x, a, c)
<1>1. a .. c - 1 = (a .. b - 1) \cup (b .. c - 1)
  OBVIOUS
<1> QED
  BY <1>1 DEF Span

LEMMA SpanNothing == ASSUME NEW x \in Nat, NEW a \in Nat PROVE Span(x, a, a) = {}
<1>1. a .. a - 1 = {}
  OBVIOUS
<1> QED
  BY <1>1 DEF Span

LEMMA WordOfBytes ==
  ASSUME NEW x \in Nat, NEW y \in Nat, NEW m \in Nat
  PROVE  WordOf(Bytes(Ws(x) + y, m), y) = Span(x, y, y + m)
<1>1. PICK d : d = Bytes(Ws(x) + y, m)
  OBVIOUS
<1>2. Ws(x) \in Nat
  BY WsIs
<1>3. Len(d) = m /\ \A k \in 1 .. m : d[k] = (Ws(x) + y) + k
  <2>1. Ws(x) + y \in Nat
    BY <1>2
  <2> QED
    BY <1>1, <2>1, BytesIs
<1>4. ASSUME NEW e \in WordOf(d, y) PROVE e \in Span(x, y, y + m)
  <2>1. PICK k \in 1 .. m : e = <<y + k - 1, d[k]>>
    BY <1>3 DEF WordOf
  <2>2. PICK i \in y .. (y + m) - 1 : i = y + k - 1 /\ (Ws(x) + y) + k = Ws(x) + i + 1
    <3>1. y + k - 1 \in y .. (y + m) - 1 /\ (Ws(x) + y) + k = Ws(x) + (y + k - 1) + 1
      BY <1>2
    <3> QED
      BY <3>1
  <2>3. e = <<i, Ws(x) + i + 1>>
    BY <1>3, <2>1, <2>2
  <2> QED
    BY <2>3 DEF Span
<1>5. ASSUME NEW e \in Span(x, y, y + m) PROVE e \in WordOf(d, y)
  <2>1. PICK i \in y .. (y + m) - 1 : e = <<i, Ws(x) + i + 1>>
    BY DEF Span
  <2>2. PICK k \in 1 .. m : i = y + k - 1 /\ (Ws(x) + y) + k = Ws(x) + i + 1
    <3>1. (i - y) + 1 \in 1 .. m /\ i = y + ((i - y) + 1) - 1 /\ (Ws(x) + y) + ((i - y) + 1) = Ws(x) + i + 1
      BY <1>2
    <3> QED
      BY <3>1
  <2>3. e = <<y + k - 1, d[k]>>
    BY <1>3, <2>1, <2>2
  <2> QED
    BY <1>3, <2>3 DEF WordOf
<1> QED
  BY <1>1, <1>4, <1>5

\* Parts of bytes are bytes.
LEMMA BytesFirst ==
  ASSUME NEW p \in Nat, NEW m \in Nat, NEW k \in 0 .. m
  PROVE  SubSeq(Bytes(p, m), 1, k) = Bytes(p, k)
<1>1. PICK d : d = Bytes(p, m)
  OBVIOUS
<1>2. IsSeq(d) /\ Len(d) = m /\ \A i \in 1 .. m : d[i] = p + i
  BY <1>1, BytesIs
<1>3. IsSeq(SubSeq(d, 1, k)) /\ Len(SubSeq(d, 1, k)) = k /\ \A i \in 1 .. k : SubSeq(d, 1, k)[i] = d[i]
  <2>1. IsSeq(d) /\ k \in Nat /\ k <= Len(d)
    BY <1>2
  <2> QED
    BY <2>1, TakeIs
<1>4. IsSeq(Bytes(p, k)) /\ Len(Bytes(p, k)) = k /\ \A i \in 1 .. k : Bytes(p, k)[i] = p + i
  BY BytesIs
<1>5. \A i \in 1 .. k : SubSeq(d, 1, k)[i] = Bytes(p, k)[i]
  BY <1>2, <1>3, <1>4
<1>6. SubSeq(d, 1, k) = Bytes(p, k)
  BY <1>3, <1>4, <1>5, SeqsEqual
<1> QED
  BY <1>1, <1>6

LEMMA BytesPart ==
  ASSUME NEW p \in Nat, NEW m \in Nat, NEW o \in Nat, NEW k \in Nat, o + k <= m
  PROVE  Part(Bytes(p, m), o, k) = Bytes(p + o, k)
<1>1. PICK d, e : d = Bytes(p, m) /\ e = Part(d, o, k)
  OBVIOUS
<1>2. IsSeq(d) /\ Len(d) = m /\ \A i \in 1 .. m : d[i] = p + i
  BY <1>1, BytesIs
<1>3. IsSeq(e) /\ Len(e) = k /\ \A i \in 1 .. k : e[i] = d[o + i]
  <2>1. IsSeq(d) /\ o + k <= Len(d)
    BY <1>2
  <2> QED
    BY <1>1, <2>1, PartIs
<1>4. IsSeq(Bytes(p + o, k)) /\ Len(Bytes(p + o, k)) = k /\ \A i \in 1 .. k : Bytes(p + o, k)[i] = (p + o) + i
  <2>1. p + o \in Nat
    OBVIOUS
  <2> QED
    BY <2>1, BytesIs
<1>5. ASSUME NEW i \in 1 .. k PROVE e[i] = Bytes(p + o, k)[i]
  <2>1. o + i \in 1 .. m /\ p + (o + i) = (p + o) + i
    OBVIOUS
  <2>2. e[i] = p + (o + i)
    BY <1>2, <1>3, <2>1
  <2> QED
    BY <1>4, <2>1, <2>2
<1>6. e = Bytes(p + o, k)
  BY <1>3, <1>4, <1>5, SeqsEqual
<1> QED
  BY <1>1, <1>6

LEMMA BytesRest ==
  ASSUME NEW p \in Nat, NEW m \in Nat, NEW k \in 0 .. m
  PROVE  Drop(Bytes(p, m), k) = Bytes(p + k, m - k)
<1>1. Len(Bytes(p, m)) = m
  BY BytesIs
<1>2. PICK j \in Nat : j = m - k /\ k + j = m /\ k + j <= m /\ k \in Nat
  <2>1. m - k \in Nat /\ k + (m - k) = m /\ k + (m - k) <= m
    OBVIOUS
  <2> QED
    BY <2>1
<1>3. Drop(Bytes(p, m), k) = Part(Bytes(p, m), k, j)
  BY <1>1, <1>2 DEF Drop, Part
<1> QED
  BY <1>2, <1>3, BytesPart

-----------------------------------------------------------------------------
\* x words of the message went into the state: v permutations, then u words.
Layer(v) == [w \in 1 .. RateWords |-> Span(Rs(v) + (w - 1), 0, WordBytes)]
Partial(v, u) == [w \in 1 .. RateWords |-> IF w <= u THEN Span(Rs(v) + (w - 1), 0, WordBytes) ELSE {}]
IsContext(c) ==
  c = [byteIndex |-> c.byteIndex, wordIndex |-> c.wordIndex, saved |-> c.saved, s |-> c.s, out |-> c.out]
Layers(out, v) == IsSeq(out) /\ Len(out) = v /\ \A k \in 1 .. v : out[k] = Layer(k - 1)
Soaked(c, v, u) ==
  IsContext(c) /\ c.wordIndex = u /\ c.s = Partial(v, u) /\ Layers(c.out, v)

LEMMA LayersNext ==
  ASSUME NEW v \in Nat, NEW out, Layers(out, v)
  PROVE  Layers(Append(out, Layer(v)), v + 1)
<1>1. PICK b : b = Layer(v)
  OBVIOUS
<1>2. IsSeq(out) /\ Len(out) = v /\ \A k \in 1 .. v : out[k] = Layer(k - 1)
  BY DEF Layers
<1>3. /\ IsSeq(Append(out, b)) /\ Len(Append(out, b)) = v + 1
      /\ \A k \in 1 .. v : Append(out, b)[k] = out[k]
      /\ Append(out, b)[v + 1] = b
  BY <1>2, AppendIs
<1>4. ASSUME NEW k \in 1 .. v + 1 PROVE Append(out, b)[k] = Layer(k - 1)
  <2>1. CASE k = v + 1
    BY <1>1, <1>3, <2>1
  <2>2. CASE k # v + 1
    <3>1. k \in 1 .. v
      BY <2>2
    <3> QED
      BY <1>2, <1>3, <3>1
  <2> QED
    BY <2>1, <2>2
<1> QED
  BY <1>1, <1>3, <1>4 DEF Layers

Context(bi, wi, sv, s, o) == [byteIndex |-> bi, wordIndex |-> wi, saved |-> sv, s |-> s, out |-> o]

LEMMA ContextIs ==
  ASSUME NEW bi, NEW wi, NEW sv, NEW s, NEW o, NEW c, c = Context(bi, wi, sv, s, o)
  PROVE  IsContext(c) /\ c.byteIndex = bi /\ c.wordIndex = wi /\ c.saved = sv /\ c.s = s /\ c.out = o
BY DEF IsContext, Context

\* One more word.
LEMMA AbsorbNext ==
  ASSUME NEW v \in Nat, NEW u \in 0 .. RateWords - 1, NEW c, Soaked(c, v, u), NEW word,
         word = Span(Rs(v) + u, 0, WordBytes)
  PROVE  /\ Absorb(c, word).byteIndex = c.byteIndex /\ Absorb(c, word).saved = c.saved
         /\ \E p \in Nat, t \in 0 .. RateWords - 1 :
              Rs(p) + t = (Rs(v) + u) + 1 /\ Soaked(Absorb(c, word), p, t)
<1>1. PICK a : a = [c EXCEPT !.s[c.wordIndex + 1] = Added(@, word), !.wordIndex = @ + 1]
  OBVIOUS
<1>2. IsContext(c) /\ c.wordIndex = u /\ c.s = Partial(v, u) /\ Layers(c.out, v)
  BY DEF Soaked
<1>3. u + 1 \in 1 .. RateWords /\ u \in Nat
  BY RateIs
<1>10. PICK bi, sv, o, S : bi = c.byteIndex /\ sv = c.saved /\ o = c.out /\ S = Partial(v, u)
  OBVIOUS
<1>11. c = Context(bi, u, sv, S, o)
  BY <1>2, <1>10 DEF IsContext, Context
<1>12. PICK s : s = [S EXCEPT ![u + 1] = Added(S[u + 1], word)]
  OBVIOUS
<1>13. a = Context(bi, u + 1, sv, s, o)
  BY <1>1, <1>11, <1>12 DEF Context
<1>4. /\ IsContext(a) /\ a.byteIndex = bi /\ a.saved = sv /\ a.out = o
      /\ a.wordIndex = u + 1 /\ a.s = s
  BY <1>13, ContextIs
<1>5. a.s = Partial(v, u + 1)
  <2>1. Partial(v, u)[u + 1] = {}
    BY <1>3 DEF Partial
  <2>2. Added({}, word) = word
    BY DEF Added
  <2>3. a.s = [Partial(v, u) EXCEPT ![u + 1] = word]
    BY <1>4, <1>10, <1>12, <2>1, <2>2
  <2>4. ASSUME NEW w \in 1 .. RateWords PROVE a.s[w] = Partial(v, u + 1)[w]
    <3>1. CASE w = u + 1
      <4>1. a.s[w] = word /\ w - 1 = u /\ w <= u + 1
        BY <1>3, <2>3, <3>1 DEF Partial
      <4> QED
        BY <4>1 DEF Partial
    <3>2. CASE w # u + 1
      <4>1. a.s[w] = Partial(v, u)[w] /\ (w <= u <=> w <= u + 1)
        BY <1>3, <2>3, <3>2 DEF Partial
      <4> QED
        BY <4>1 DEF Partial
    <3> QED
      BY <3>1, <3>2
  <2>5. a.s = [w \in 1 .. RateWords |-> a.s[w]]
    BY <2>3 DEF Partial
  <2> QED
    BY <2>4, <2>5 DEF Partial
<1>6. CASE u + 1 = RateWords
  <2>1. PICK b : b = Absorb(c, word) /\ b = Permute(a)
    BY <1>1, <1>4, <1>6 DEF Absorb
  <2>2. /\ IsContext(b) /\ b.byteIndex = c.byteIndex /\ b.saved = c.saved
        /\ b.wordIndex = 0 /\ b.s = EmptyState /\ b.out = Append(c.out, a.s)
    <3>1. b = Context(bi, 0, sv, EmptyState, Append(o, s))
      <4>1. a.s = s
        BY <1>4
      <4>2. b = [a EXCEPT !.out = Append(@, s), !.s = EmptyState, !.wordIndex = 0]
        BY <2>1, <4>1 DEF Permute
      <4> QED
        BY <1>13, <4>2 DEF Context
    <3>2. IsContext(b) /\ b.byteIndex = bi /\ b.saved = sv /\ b.wordIndex = 0 /\ b.s = EmptyState /\ b.out = Append(o, s)
      BY <3>1 DEF Context, IsContext
    <3> QED
      BY <1>4, <1>10, <3>2
  <2>3. EmptyState = Partial(v + 1, 0)
    <3>1. \A w \in 1 .. RateWords : ~(w <= 0)
      BY RateIs
    <3> QED
      BY <3>1 DEF EmptyState, Partial
  <2>4. Partial(v, u + 1) = Layer(v)
    BY <1>6, RateIs DEF Partial, Layer
  <2>5. Layers(b.out, v + 1)
    BY <1>2, <1>5, <2>2, <2>4, LayersNext
  <2>6. Soaked(b, v + 1, 0)
    BY <2>2, <2>3, <2>5 DEF Soaked
  <2>7. Rs(v + 1) + 0 = (Rs(v) + u) + 1 /\ v + 1 \in Nat /\ 0 \in 0 .. RateWords - 1
    <3>1. Rs(v) \in Nat /\ Rs(v + 1) = Rs(v) + RateWords
      BY RsIs
    <3> QED
      BY <1>6, <3>1, RateIs
  <2> QED
    BY <2>1, <2>2, <2>6, <2>7
<1>7. CASE u + 1 # RateWords
  <2>1. Absorb(c, word) = a
    BY <1>1, <1>4, <1>7 DEF Absorb
  <2>2. Soaked(a, v, u + 1)
    BY <1>2, <1>4, <1>5, <1>10 DEF Soaked
  <2>3. Rs(v) + (u + 1) = (Rs(v) + u) + 1 /\ u + 1 \in 0 .. RateWords - 1
    <3>1. Rs(v) \in Nat
      BY RsIs
    <3> QED
      BY <1>3, <1>7, <3>1, RateIs
  <2> QED
    BY <1>4, <1>10, <2>1, <2>2, <2>3
<1> QED
  BY <1>6, <1>7

Wet(c, x) == \E v \in Nat, u \in 0 .. RateWords - 1 : Rs(v) + u = x /\ Soaked(c, v, u)
\* x words and y bytes of the message.
Sponged(c, x, y) == Wet(c, x) /\ c.byteIndex = y /\ c.saved = Span(x, 0, y)

LEMMA AbsorbWet ==
  ASSUME NEW x \in Nat, NEW c, Wet(c, x), NEW word, word = Span(x, 0, WordBytes)
  PROVE  /\ Wet(Absorb(c, word), x + 1)
         /\ Absorb(c, word).byteIndex = c.byteIndex /\ Absorb(c, word).saved = c.saved
<1>1. PICK v \in Nat, u \in 0 .. RateWords - 1 : Rs(v) + u = x /\ Soaked(c, v, u)
  BY DEF Wet
<1>2. word = Span(Rs(v) + u, 0, WordBytes)
  BY <1>1
<1>3. /\ Absorb(c, word).byteIndex = c.byteIndex /\ Absorb(c, word).saved = c.saved
      /\ \E p \in Nat, t \in 0 .. RateWords - 1 :
              Rs(p) + t = (Rs(v) + u) + 1 /\ Soaked(Absorb(c, word), p, t)
  BY <1>1, <1>2, AbsorbNext
<1> QED
  BY <1>1, <1>3 DEF Wet

Put(c, bi, sv) == [c EXCEPT !.byteIndex = bi, !.saved = sv]

LEMMA WetSame ==
  ASSUME NEW x, NEW c, Wet(c, x), NEW bi, NEW sv
  PROVE  Wet(Put(c, bi, sv), x) /\ Put(c, bi, sv).byteIndex = bi /\ Put(c, bi, sv).saved = sv
<1>0. PICK d : d = Put(c, bi, sv)
  OBVIOUS
<1>1. PICK v \in Nat, u \in 0 .. RateWords - 1 : Rs(v) + u = x /\ Soaked(c, v, u)
  BY DEF Wet
<1>2. IsContext(c) /\ c.wordIndex = u /\ c.s = Partial(v, u) /\ Layers(c.out, v)
  BY <1>1 DEF Soaked
<1>3. PICK b0, s0, o, S : b0 = c.byteIndex /\ s0 = c.saved /\ o = c.out /\ S = Partial(v, u)
  OBVIOUS
<1>4. c = Context(b0, u, s0, S, o)
  BY <1>2, <1>3 DEF IsContext, Context
<1>5. d = Context(bi, u, sv, S, o)
  BY <1>0, <1>4 DEF Context, Put
<1>6. IsContext(d) /\ d.byteIndex = bi /\ d.wordIndex = u /\ d.saved = sv /\ d.s = S /\ d.out = o
  BY <1>5, ContextIs
<1>7. Soaked(d, v, u)
  BY <1>2, <1>3, <1>6 DEF Soaked
<1> QED
  BY <1>0, <1>1, <1>6, <1>7 DEF Wet

LEMMA SaveSponged ==
  ASSUME NEW x \in Nat, NEW y \in Nat, NEW m \in Nat, NEW c, Sponged(c, x, y)
  PROVE  Sponged(SaveBytes(c, Bytes(Ws(x) + y, m)), x, y + m)
<1>1. PICK b : b = Bytes(Ws(x) + y, m)
  OBVIOUS
<1>2. Ws(x) + y \in Nat
  <2>1. Ws(x) \in Nat
    BY WsIs
  <2> QED
    BY <2>1
<1>3. Len(b) = m
  BY <1>1, <1>2, BytesIs
<1>4. WordOf(b, y) = Span(x, y, y + m)
  BY <1>1, WordOfBytes
<1>5. Span(x, 0, y) \cup Span(x, y, y + m) = Span(x, 0, y + m)
  <2>1. 0 <= y /\ y <= y + m /\ y + m \in Nat /\ 0 \in Nat
    OBVIOUS
  <2> QED
    BY <2>1, SpanJoin
<1>6. Wet(c, x) /\ c.byteIndex = y /\ c.saved = Span(x, 0, y)
  BY DEF Sponged
<1>7. PICK d : d = SaveBytes(c, b)
  OBVIOUS
<1>8. d = Put(c, y + m, Span(x, 0, y + m))
  <2>1. d = [c EXCEPT !.saved = c.saved \cup WordOf(b, c.byteIndex), !.byteIndex = c.byteIndex + Len(b)]
    BY <1>7 DEF SaveBytes
  <2>2. c.saved \cup WordOf(b, c.byteIndex) = Span(x, 0, y + m) /\ c.byteIndex + Len(b) = y + m
    BY <1>3, <1>4, <1>5, <1>6
  <2>3. d = [c EXCEPT !.saved = Span(x, 0, y + m), !.byteIndex = y + m]
    BY <2>1, <2>2, Zenon
  <2> QED
    BY <2>3 DEF Put
<1>9. Wet(d, x) /\ d.byteIndex = y + m /\ d.saved = Span(x, 0, y + m)
  BY <1>6, <1>8, WetSame
<1> QED
  BY <1>1, <1>7, <1>9 DEF Sponged

LEMMA CompleteSponged ==
  ASSUME NEW x \in Nat, NEW y \in Nat, NEW m \in Nat, y + m = WordBytes, NEW c, Sponged(c, x, y)
  PROVE  Sponged(Completed(c, Bytes(Ws(x) + y, m)), x + 1, 0)
<1>1. PICK b : b = Bytes(Ws(x) + y, m)
  OBVIOUS
<1>2. WordOf(b, y) = Span(x, y, y + m)
  BY <1>1, WordOfBytes
<1>3. Span(x, 0, y) \cup Span(x, y, y + m) = Span(x, 0, y + m)
  <2>1. 0 <= y /\ y <= y + m /\ y + m \in Nat /\ 0 \in Nat
    OBVIOUS
  <2> QED
    BY <2>1, SpanJoin
<1>4. Wet(c, x) /\ c.byteIndex = y /\ c.saved = Span(x, 0, y)
  BY DEF Sponged
<1>5. PICK word, a, d : word = c.saved \cup WordOf(b, c.byteIndex) /\ a = Absorb(c, word) /\ d = Completed(c, b)
  OBVIOUS
<1>6. word = Span(x, 0, WordBytes)
  BY <1>2, <1>3, <1>4, <1>5
<1>7. Wet(a, x + 1)
  BY <1>4, <1>5, <1>6, AbsorbWet
<1>8. d = Put(a, 0, {})
  BY <1>5 DEF Completed, Put
<1>9. Wet(d, x + 1) /\ d.byteIndex = 0 /\ d.saved = {}
  BY <1>7, <1>8, WetSame
<1>10. Span(x + 1, 0, 0) = {}
  <2>1. x + 1 \in Nat /\ 0 \in Nat
    OBVIOUS
  <2> QED
    BY <2>1, SpanNothing
<1> QED
  BY <1>1, <1>5, <1>9, <1>10 DEF Sponged

-----------------------------------------------------------------------------
SoakStep(acc, i, rest) == Absorb(acc, WordOf(SubSeq(rest, (i - 1) * WordBytes + 1, i * WordBytes), 0))

\* The function in the fold of sha3_Update.
IsSoak(g, base, rest, s) ==
  g = [i \in 0 .. Len(s) |->
         IF i = 0 THEN base
         ELSE IF g[i - 1] = g[i - 1] THEN SoakStep(g[i - 1], s[i], rest) ELSE g[i - 1]]
IsSoakTo(g, base, rest, n) ==
  g = [i \in 0 .. n |-> IF i = 0 THEN base ELSE SoakStep(g[i - 1], i, rest)]
SoakAll(base, rest, n) == (CHOOSE g : IsSoak(g, base, rest, UpTo(n)))[Len(UpTo(n))]

SpTail(c) == (WordBytes - c.byteIndex) % WordBytes
SpFirst(c, data) == IF SpTail(c) > 0 THEN Completed(c, SubSeq(data, 1, SpTail(c))) ELSE c
SpSoaked(d, rest) == SaveBytes(SoakAll(d, rest, Len(rest) \div WordBytes), Drop(rest, (Len(rest) \div WordBytes) * WordBytes))

LEMMA SpongeUpdateIs ==
  ASSUME NEW c, NEW data
  PROVE  sha3_Update(c, data) =
           IF Len(data) < SpTail(c) THEN SaveBytes(c, data)
           ELSE SpSoaked(SpFirst(c, data), Drop(data, SpTail(c)))
BY Zenon DEF sha3_Update, SpTail, SpFirst, SpSoaked, SoakAll, IsSoak, SoakStep, Fold

LEMMA SoakSame ==
  ASSUME NEW base, NEW rest, NEW n \in Nat, NEW g
  PROVE  IsSoak(g, base, rest, UpTo(n)) <=> IsSoakTo(g, base, rest, n)
<1>1. Len(UpTo(n)) = n /\ \A i \in 0 .. n : i # 0 => UpTo(n)[i] = i
  BY UpToIs
<1> QED
  BY <1>1 DEF IsSoak, IsSoakTo

LEMMA SoakExists ==
  ASSUME NEW base, NEW rest, NEW n \in Nat
  PROVE  \E g : IsSoakTo(g, base, rest, n)
<1> DEFINE T == {m \in Nat : \E g : IsSoakTo(g, base, rest, m)}
<1>1. \E g : IsSoakTo(g, base, rest, 0)
  <2> DEFINE g == [k \in 0 .. 0 |-> base]
  <2>1. g = [k \in 0 .. 0 |-> IF k = 0 THEN base ELSE SoakStep(g[k - 1], k, rest)]
    OBVIOUS
  <2> HIDE DEF g
  <2> QED
    BY <2>1 DEF IsSoakTo
<1>2. ASSUME NEW m \in Nat, NEW g, IsSoakTo(g, base, rest, m)
      PROVE  \E h : IsSoakTo(h, base, rest, m + 1)
  <2> DEFINE new == SoakStep(g[m], m + 1, rest)
             h == [k \in 0 .. m + 1 |-> IF k = m + 1 THEN new ELSE g[k]]
  <2>1. ASSUME NEW k \in 0 .. m + 1
        PROVE  h[k] = IF k = 0 THEN base ELSE SoakStep(h[k - 1], k, rest)
    <3>1. CASE k # m + 1
      <4>1. h[k] = g[k] /\ (k # 0 => h[k - 1] = g[k - 1]) /\ k \in 0 .. m
        BY <3>1
      <4> HIDE DEF h
      <4>2. g[k] = IF k = 0 THEN base ELSE SoakStep(g[k - 1], k, rest)
        BY <1>2, <4>1 DEF IsSoakTo
      <4> QED
        BY <4>1, <4>2
    <3>2. CASE k = m + 1
      <4>1. h[k] = new /\ h[k - 1] = g[m] /\ k # 0
        BY <3>2
      <4> HIDE DEF h
      <4> QED
        BY <4>1, <3>2
    <3> QED
      BY <3>1, <3>2
  <2>2. h = [k \in 0 .. m + 1 |-> h[k]]
    OBVIOUS
  <2> HIDE DEF h
  <2>3. h = [k \in 0 .. m + 1 |-> IF k = 0 THEN base ELSE SoakStep(h[k - 1], k, rest)]
    BY <2>1, <2>2
  <2> QED
    BY <2>3 DEF IsSoakTo
<1>3. 0 \in T /\ \A m \in Nat : m \in T => m + 1 \in T
  BY <1>1, <1>2
<1> HIDE DEF T
<1>4. n \in T
  BY <1>3, Induction
<1> QED
  BY <1>4 DEF T

LEMMA SoakAllIs ==
  ASSUME NEW base, NEW rest, NEW n \in Nat
  PROVE  \E g : IsSoakTo(g, base, rest, n) /\ SoakAll(base, rest, n) = g[n]
<1>1. \E g : IsSoak(g, base, rest, UpTo(n))
  BY SoakExists, SoakSame
<1>2. IsSoak(CHOOSE g : IsSoak(g, base, rest, UpTo(n)), base, rest, UpTo(n))
  BY <1>1, Zenon
<1>3. Len(UpTo(n)) = n
  BY UpToIs
<1> QED
  BY <1>2, <1>3, SoakSame DEF SoakAll

\* Whole words of the data go into the state.
LEMMA SoakSponged ==
  ASSUME NEW x \in Nat, NEW l \in Nat, NEW base, Sponged(base, x, 0), NEW rest, rest = Bytes(Ws(x), l),
         NEW n \in Nat, Ws(n) <= l, NEW g, IsSoakTo(g, base, rest, n)
  PROVE  Sponged(g[n], x + n, 0)
<1> DEFINE Good(i) == i <= n => Sponged(g[i], x + i, 0)
           T == {i \in Nat : Good(i)}
<1>1. Good(0)
  <2>1. g[0] = base /\ x + 0 = x
    BY DEF IsSoakTo
  <2> QED
    BY <2>1
<1>2. ASSUME NEW i \in Nat, Good(i), i + 1 <= n
      PROVE  Sponged(g[i + 1], x + (i + 1), 0)
  <2>1. Sponged(g[i], x + i, 0) /\ x + i \in Nat /\ (x + i) + 1 = x + (i + 1)
    BY <1>2
  <2>2. /\ Ws(i) \in Nat /\ Ws(i + 1) = Ws(i) + WordBytes /\ Ws(x) \in Nat
        /\ Ws(x + i) = Ws(x) + Ws(i) /\ Ws(i) + WordBytes <= Ws(n) /\ Ws(n) \in Nat
    <3>1. Ws(i) \in Nat /\ Ws(i + 1) = Ws(i) + WordBytes /\ Ws(x) \in Nat /\ Ws(n) \in Nat
      BY WsIs
    <3>2. Ws(x + i) = Ws(x) + Ws(i)
      BY WsIs
    <3>3. i < n => Ws(i) + WordBytes <= Ws(n)
      BY WsIs
    <3> QED
      BY <1>2, <3>1, <3>2, <3>3
  <2>3. PICK b : b = SubSeq(rest, ((i + 1) - 1) * WordBytes + 1, (i + 1) * WordBytes)
    OBVIOUS
  <2>4. b = Part(rest, Ws(i), WordBytes)
    <3>1. i * WordBytes = Ws(i) /\ (i + 1) * WordBytes = Ws(i + 1) /\ (i + 1) - 1 = i
      BY RateIs DEF Ws
    <3>2. ((i + 1) - 1) * WordBytes = Ws(i) /\ (i + 1) * WordBytes = Ws(i) + WordBytes
      BY <2>2, <3>1
    <3> QED
      BY <2>3, <3>2 DEF Part
  <2>5. b = Bytes(Ws(x + i) + 0, WordBytes)
    <3>1. Ws(i) + WordBytes <= l /\ WordBytes \in Nat /\ Ws(x) + Ws(i) = Ws(x + i) + 0
      BY <2>2, RateIs
    <3>2. Part(Bytes(Ws(x), l), Ws(i), WordBytes) = Bytes(Ws(x) + Ws(i), WordBytes)
      BY <2>2, <3>1, BytesPart
    <3> QED
      BY <2>4, <3>1, <3>2
  <2>6. WordOf(b, 0) = Span(x + i, 0, WordBytes)
    <3>1. WordOf(Bytes(Ws(x + i) + 0, WordBytes), 0) = Span(x + i, 0, 0 + WordBytes)
      BY <2>1, RateIs, WordOfBytes
    <3>2. 0 + WordBytes = WordBytes
      BY RateIs
    <3> QED
      BY <2>5, <3>1, <3>2
  <2>7. g[i + 1] = Absorb(g[i], WordOf(b, 0))
    <3>1. i + 1 \in 0 .. n /\ i + 1 # 0 /\ (i + 1) - 1 = i
      BY <1>2
    <3>2. g[i + 1] = SoakStep(g[i], i + 1, rest)
      BY <3>1 DEF IsSoakTo
    <3> QED
      BY <2>3, <3>2 DEF SoakStep
  <2>8. Wet(g[i], x + i) /\ g[i].byteIndex = 0 /\ g[i].saved = Span(x + i, 0, 0)
    BY <2>1 DEF Sponged
  <2>9. Wet(g[i + 1], (x + i) + 1) /\ g[i + 1].byteIndex = g[i].byteIndex /\ g[i + 1].saved = g[i].saved
    BY <2>1, <2>6, <2>7, <2>8, AbsorbWet
  <2>10. Span(x + i, 0, 0) = {} /\ Span(x + (i + 1), 0, 0) = {}
    <3>1. x + (i + 1) \in Nat /\ 0 \in Nat
      OBVIOUS
    <3> QED
      BY <2>1, <3>1, SpanNothing
  <2> QED
    BY <2>1, <2>8, <2>9, <2>10 DEF Sponged
<1>3. 0 \in T /\ \A i \in Nat : i \in T => i + 1 \in T
  BY <1>1, <1>2
<1> HIDE DEF T
<1>4. n \in T
  BY <1>3, Induction
<1> QED
  BY <1>4 DEF T

LEMMA SoakedRest ==
  ASSUME NEW x \in Nat, NEW l \in Nat, NEW d, Sponged(d, x, 0), NEW rest, rest = Bytes(Ws(x), l)
  PROVE  \E p \in Nat, s \in 0 .. WordBytes - 1 : Ws(x) + l = Ws(p) + s /\ Sponged(SpSoaked(d, rest), p, s)
<1>1. PICK b \in Nat, s \in 0 .. WordBytes - 1 : b = l \div WordBytes /\ l = Ws(b) + s
  BY RateIs, DivMod DEF Ws
<1>2. Ws(x) \in Nat /\ Ws(b) \in Nat /\ Ws(x + b) = Ws(x) + Ws(b)
  BY WsIs
<1>3. Len(rest) = l
  BY <1>2, BytesIs
<1>4. PICK g : IsSoakTo(g, d, rest, b) /\ SoakAll(d, rest, b) = g[b]
  BY SoakAllIs
<1>5. Ws(b) <= l /\ Ws(b) \in 0 .. l /\ l - Ws(b) = s /\ b * WordBytes = Ws(b) /\ s \in Nat
  <2>1. Ws(b) <= l /\ Ws(b) \in 0 .. l /\ l - Ws(b) = s /\ s \in Nat
    BY <1>1, <1>2, RateIs
  <2>2. b * WordBytes = Ws(b)
    BY RateIs DEF Ws
  <2> QED
    BY <2>1, <2>2
<1>6. Sponged(g[b], x + b, 0) /\ x + b \in Nat
  <2>1. Sponged(g[b], x + b, 0)
    BY <1>4, <1>5, SoakSponged
  <2> QED
    BY <2>1
<1>7. Drop(rest, b * WordBytes) = Bytes(Ws(x + b) + 0, s)
  <2>1. Drop(Bytes(Ws(x), l), Ws(b)) = Bytes(Ws(x) + Ws(b), l - Ws(b))
    BY <1>2, <1>5, BytesRest
  <2>2. Ws(x) + Ws(b) = Ws(x + b) + 0
    BY <1>2
  <2> QED
    BY <1>5, <2>1, <2>2
<1>8. SpSoaked(d, rest) = SaveBytes(g[b], Bytes(Ws(x + b) + 0, s))
  BY <1>1, <1>3, <1>4, <1>7 DEF SpSoaked
<1>9. Sponged(SpSoaked(d, rest), x + b, s)
  <2>1. Sponged(SaveBytes(g[b], Bytes(Ws(x + b) + 0, s)), x + b, 0 + s)
    BY <1>5, <1>6, SaveSponged
  <2>2. 0 + s = s
    BY <1>5
  <2> QED
    BY <1>8, <2>1, <2>2
<1>10. Ws(x) + l = Ws(x + b) + s
  BY <1>1, <1>2, <1>5
<1> QED
  BY <1>6, <1>9, <1>10

LEMMA UpdateSponged ==
  ASSUME NEW n \in Nat, NEW m \in Nat, NEW x \in Nat, NEW y \in 0 .. WordBytes - 1, n = Ws(x) + y,
         NEW c, Sponged(c, x, y)
  PROVE  \E p \in Nat, s \in 0 .. WordBytes - 1 :
           n + m = Ws(p) + s /\ Sponged(sha3_Update(c, Bytes(n, m)), p, s)
<1>1. PICK data : data = Bytes(n, m)
  OBVIOUS
<1>2. Len(data) = m
  BY <1>1, BytesIs
<1>3. c.byteIndex = y
  BY DEF Sponged
<1>4. Ws(x) \in Nat /\ y \in Nat /\ Ws(x + 1) = Ws(x) + WordBytes
  <2>1. Ws(x) \in Nat /\ Ws(x + 1) = Ws(x) + WordBytes
    BY WsIs
  <2> QED
    BY <2>1, RateIs
<1>5. CASE y = 0
  <2>1. SpTail(c) = 0
    <3>1. WordBytes = WordBytes * 1 + 0 /\ 0 \in 0 .. WordBytes - 1
      BY RateIs
    <3>2. WordBytes % WordBytes = 0
      BY <3>1, RateIs, DivIs
    <3>3. WordBytes - 0 = WordBytes
      BY RateIs
    <3> QED
      BY <1>3, <1>5, <3>2, <3>3 DEF SpTail
  <2>2. SpFirst(c, data) = c
    BY <2>1 DEF SpFirst
  <2>3. Drop(data, 0) = Bytes(Ws(x), m)
    <3>1. Drop(Bytes(n, m), 0) = Bytes(n + 0, m - 0)
      BY BytesRest
    <3>2. n + 0 = Ws(x) /\ m - 0 = m
      BY <1>4, <1>5
    <3> QED
      BY <1>1, <3>1, <3>2
  <2>4. sha3_Update(c, data) = SpSoaked(c, Bytes(Ws(x), m))
    <3>1. ~(Len(data) < SpTail(c))
      BY <1>2, <2>1
    <3> QED
      BY <2>1, <2>2, <2>3, <3>1, SpongeUpdateIs
  <2>5. PICK p \in Nat, s \in 0 .. WordBytes - 1 :
          Ws(x) + m = Ws(p) + s /\ Sponged(SpSoaked(c, Bytes(Ws(x), m)), p, s)
    <3>1. Sponged(c, x, 0)
      BY <1>5
    <3> QED
      BY <3>1, SoakedRest
  <2>6. n + m = Ws(x) + m
    BY <1>4, <1>5
  <2> QED
    BY <1>1, <2>4, <2>5, <2>6
<1>6. CASE y # 0
  <2>1. PICK t \in Nat : t = WordBytes - y /\ y + t = WordBytes /\ t > 0 /\ t < WordBytes
    <3>1. WordBytes - y \in Nat /\ y + (WordBytes - y) = WordBytes /\ WordBytes - y > 0 /\ WordBytes - y < WordBytes
      BY <1>4, <1>6, RateIs
    <3> QED
      BY <3>1
  <2>2. SpTail(c) = t
    <3>1. t = WordBytes * 0 + t /\ t \in 0 .. WordBytes - 1
      BY <2>1, RateIs
    <3>2. t % WordBytes = t
      BY <3>1, RateIs, DivIs
    <3> QED
      BY <1>3, <2>1, <3>2 DEF SpTail
  <2>3. CASE m < t
    <3>1. sha3_Update(c, data) = SaveBytes(c, data)
      BY <1>2, <2>2, <2>3, SpongeUpdateIs
    <3>2. Sponged(SaveBytes(c, Bytes(Ws(x) + y, m)), x, y + m)
      BY <1>4, SaveSponged
    <3>3. y + m \in 0 .. WordBytes - 1 /\ n + m = Ws(x) + (y + m)
      BY <1>4, <2>1, <2>3, RateIs
    <3> QED
      BY <1>1, <3>1, <3>2, <3>3
  <2>4. CASE ~(m < t)
    <3>1. t \in 0 .. m /\ m - t \in Nat
      BY <2>1, <2>4
    <3>2. SpFirst(c, data) = Completed(c, Bytes(Ws(x) + y, t))
      <4>1. SubSeq(Bytes(n, m), 1, t) = Bytes(n, t)
        BY <3>1, BytesFirst
      <4> QED
        BY <1>1, <2>1, <2>2, <4>1 DEF SpFirst
    <3>3. PICK d : d = SpFirst(c, data) /\ Sponged(d, x + 1, 0)
      <4>1. Sponged(Completed(c, Bytes(Ws(x) + y, t)), x + 1, 0)
        BY <1>4, <2>1, CompleteSponged
      <4> QED
        BY <3>2, <4>1
    <3>4. Drop(data, t) = Bytes(Ws(x + 1), m - t)
      <4>1. Drop(Bytes(n, m), t) = Bytes(n + t, m - t)
        BY <3>1, BytesRest
      <4>2. n + t = Ws(x + 1)
        BY <1>4, <2>1, RateIs
      <4> QED
        BY <1>1, <4>1, <4>2
    <3>5. sha3_Update(c, data) = SpSoaked(d, Bytes(Ws(x + 1), m - t))
      BY <1>2, <2>2, <2>4, <3>3, <3>4, SpongeUpdateIs
    <3>6. PICK p \in Nat, s \in 0 .. WordBytes - 1 :
            Ws(x + 1) + (m - t) = Ws(p) + s /\ Sponged(SpSoaked(d, Bytes(Ws(x + 1), m - t)), p, s)
      <4>1. x + 1 \in Nat
        OBVIOUS
      <4> QED
        BY <3>1, <3>3, <4>1, SoakedRest
    <3>7. n + m = Ws(x + 1) + (m - t)
      BY <1>4, <2>1, RateIs
    <3> QED
      BY <1>1, <3>5, <3>6, <3>7
  <2> QED
    BY <2>3, <2>4
<1> QED
  BY <1>5, <1>6

-----------------------------------------------------------------------------
(* The end of the sponge.                                                  *)

SpAt(p, n, top) ==
  (IF p < n THEN {p + 1} ELSE IF p = n THEN {Eighty} ELSE {}) \cup (IF p = top THEN {LengthCell(0)} ELSE {})
SpCell(X, n, top) == UNION {{<<b, v>> : v \in SpAt(Ws(X) + b, n, top)} : b \in 0 .. (WordBytes - 1)}
SpEnd(X, L) == IF X = L THEN {<<WordBytes - 1, LengthCell(0)>>} ELSE {}
SpText(X, x, y) ==
  IF X < x THEN Span(X, 0, WordBytes) ELSE IF X = x THEN Span(X, 0, y) \cup {<<y, Eighty>>} ELSE {}

\* Where a byte is.
LEMMA Compare ==
  ASSUME NEW X \in Nat, NEW b \in 0 .. WordBytes - 1, NEW x \in Nat, NEW y \in 0 .. WordBytes - 1
  PROVE  /\ Ws(X) + b < Ws(x) + y <=> X < x \/ (X = x /\ b < y)
         /\ Ws(X) + b = Ws(x) + y <=> X = x /\ b = y
<1>1. Ws(X) \in Nat /\ Ws(x) \in Nat /\ (X < x => Ws(X) + WordBytes <= Ws(x)) /\ (x < X => Ws(x) + WordBytes <= Ws(X))
  BY WsIs
<1>2. b \in Nat /\ y \in Nat /\ b < WordBytes /\ y < WordBytes
  BY RateIs
<1>3. CASE X < x
  BY <1>1, <1>2, <1>3, RateIs
<1>4. CASE X = x
  BY <1>1, <1>2, <1>4, RateIs
<1>5. CASE x < X
  BY <1>1, <1>2, <1>5, RateIs
<1> QED
  BY <1>3, <1>4, <1>5

LEMMA CellIs ==
  ASSUME NEW X \in Nat, NEW x \in Nat, NEW y \in 0 .. WordBytes - 1, NEW n, n = Ws(x) + y,
         NEW L \in Nat, NEW top, top = Ws(L) + (WordBytes - 1)
  PROVE  SpCell(X, n, top) = SpText(X, x, y) \cup SpEnd(X, L)
<1>0. WordBytes - 1 \in 0 .. WordBytes - 1 /\ y \in Nat /\ Ws(X) \in Nat
  <2>1. Ws(X) \in Nat
    BY WsIs
  <2> QED
    BY <2>1, RateIs
<1>1. ASSUME NEW b \in 0 .. WordBytes - 1
      PROVE  /\ Ws(X) + b < n <=> X < x \/ (X = x /\ b < y)
             /\ Ws(X) + b = n <=> X = x /\ b = y
             /\ Ws(X) + b = top <=> X = L /\ b = WordBytes - 1
  <2>1. /\ Ws(X) + b < Ws(x) + y <=> X < x \/ (X = x /\ b < y)
        /\ Ws(X) + b = Ws(x) + y <=> X = x /\ b = y
    BY Compare
  <2>2. Ws(X) + b = Ws(L) + (WordBytes - 1) <=> X = L /\ b = WordBytes - 1
    BY <1>0, Compare
  <2> QED
    BY <2>1, <2>2
<1>2. ASSUME NEW e, e \in SpCell(X, n, top) PROVE e \in SpText(X, x, y) \cup SpEnd(X, L)
  <2>0. PICK b \in 0 .. WordBytes - 1 : \E v : v \in SpAt(Ws(X) + b, n, top) /\ e = <<b, v>>
    BY <1>2 DEF SpCell
  <2>1. PICK v : v \in SpAt(Ws(X) + b, n, top) /\ e = <<b, v>>
    BY <2>0
  <2>2. CASE Ws(X) + b = top /\ v = LengthCell(0)
    <3>1. X = L /\ b = WordBytes - 1
      BY <1>1, <2>2
    <3> QED
      BY <2>1, <2>2, <3>1 DEF SpEnd
  <2>3. CASE Ws(X) + b < n /\ v = Ws(X) + b + 1
    <3>1. X < x \/ (X = x /\ b < y)
      BY <1>1, <2>3
    <3>2. CASE X < x
      <4>1. e \in Span(X, 0, WordBytes)
        BY <2>1, <2>3 DEF Span
      <4> QED
        BY <3>2, <4>1 DEF SpText
    <3>3. CASE X = x /\ b < y
      <4>1. b \in 0 .. y - 1
        BY <1>0, <3>3, RateIs
      <4>2. e \in Span(X, 0, y)
        BY <2>1, <2>3, <4>1 DEF Span
      <4> QED
        BY <3>3, <4>2 DEF SpText
    <3> QED
      BY <3>1, <3>2, <3>3
  <2>4. CASE Ws(X) + b = n /\ v = Eighty
    <3>1. X = x /\ b = y
      BY <1>1, <2>4
    <3> QED
      BY <2>1, <2>4, <3>1 DEF SpText
  <2> QED
    BY <2>1, <2>2, <2>3, <2>4 DEF SpAt
<1>3. ASSUME NEW e, e \in SpText(X, x, y) PROVE e \in SpCell(X, n, top)
  <2>1. CASE X < x
    <3>1. PICK b \in 0 .. WordBytes - 1 : e = <<b, Ws(X) + b + 1>>
      BY <1>3, <2>1 DEF SpText, Span
    <3>2. Ws(X) + b + 1 \in SpAt(Ws(X) + b, n, top)
      BY <1>1, <2>1 DEF SpAt
    <3> QED
      BY <3>1, <3>2 DEF SpCell
  <2>2. CASE X = x /\ e = <<y, Eighty>>
    <3>1. Ws(X) + y = n /\ ~(Ws(X) + y < n)
      BY <1>1, <2>2
    <3>2. Eighty \in SpAt(Ws(X) + y, n, top)
      BY <3>1 DEF SpAt
    <3> QED
      BY <2>2, <3>2 DEF SpCell
  <2>3. CASE X = x /\ e \in Span(X, 0, y)
    <3>1. PICK b \in 0 .. y - 1 : e = <<b, Ws(X) + b + 1>>
      BY <2>3 DEF Span
    <3>2. b \in 0 .. WordBytes - 1 /\ b < y
      BY <1>0, RateIs
    <3>3. Ws(X) + b + 1 \in SpAt(Ws(X) + b, n, top)
      BY <1>1, <2>3, <3>2 DEF SpAt
    <3> QED
      BY <3>1, <3>2, <3>3 DEF SpCell
  <2> QED
    BY <1>3, <2>1, <2>2, <2>3 DEF SpText
<1>4. ASSUME NEW e, e \in SpEnd(X, L) PROVE e \in SpCell(X, n, top)
  <2>1. X = L /\ e = <<WordBytes - 1, LengthCell(0)>>
    BY <1>4 DEF SpEnd
  <2>2. Ws(X) + (WordBytes - 1) = top
    BY <2>1
  <2>3. LengthCell(0) \in SpAt(Ws(X) + (WordBytes - 1), n, top)
    BY <2>2 DEF SpAt
  <2> QED
    BY <1>0, <2>1, <2>3 DEF SpCell
<1> QED
  BY <1>2, <1>3, <1>4

LEMMA AddedApart ==
  ASSUME NEW A, NEW B, \A e \in B : e \notin A
  PROVE  Added(A, B) = A \cup B
BY DEF Added

\* The block of the padded message that the sponge takes last, and the parts of the code.
SpStarted(c) == [c.s EXCEPT ![c.wordIndex + 1] = Added(Added(@, c.saved), {<<c.byteIndex, Eighty>>})]
SpEnded(c) == [SpStarted(c) EXCEPT ![RateWords] = Added(@, {<<WordBytes - 1, LengthCell(0)>>})]

LEMMA SpongeFinalizeIs == ASSUME NEW c PROVE sha3_Finalize(c) = Append(c.out, SpEnded(c))
BY Zenon DEF sha3_Finalize, SpEnded, SpStarted

\* No byte of the message is a mark.
LEMMA SpanMarks ==
  ASSUME NEW X \in Nat, NEW a \in Nat, NEW b, NEW i
  PROVE  <<i, Eighty>> \notin Span(X, a, b) /\ <<i, LengthCell(0)>> \notin Span(X, a, b)
<1>1. Ws(X) \in Nat
  BY WsIs
<1>2. ASSUME NEW v, <<i, v>> \in Span(X, a, b), v = Eighty \/ v = LengthCell(0) PROVE FALSE
  <2>1. PICK j \in a .. b - 1 : <<i, v>> = <<j, Ws(X) + j + 1>>
    BY <1>2 DEF Span
  <2>2. v = Ws(X) + j + 1 /\ j >= 0 /\ j \in Int
    BY <2>1
  <2> QED
    BY <1>1, <1>2, <2>2 DEF Eighty, LengthCell
<1> QED
  BY <1>2

LEMMA EndedIs ==
  ASSUME NEW x \in Nat, NEW y \in 0 .. WordBytes - 1, NEW v \in Nat, NEW u \in 0 .. RateWords - 1, Rs(v) + u = x,
         NEW c, Soaked(c, v, u), c.byteIndex = y, c.saved = Span(x, 0, y)
  PROVE  SpEnded(c) = [w \in 1 .. RateWords |->
                         SpText(Rs(v) + (w - 1), x, y) \cup SpEnd(Rs(v) + (w - 1), Rs(v) + (RateWords - 1))]
<1>1. c.wordIndex = u /\ c.s = Partial(v, u)
  BY DEF Soaked
<1>2. u \in Nat /\ u + 1 \in 1 .. RateWords /\ RateWords \in 1 .. RateWords /\ Rs(v) \in Nat /\ y \in Nat
  <2>1. Rs(v) \in Nat
    BY RsIs
  <2> QED
    BY <2>1, RateIs
<1>3. PICK S, T : S = SpStarted(c) /\ T = SpEnded(c)
  OBVIOUS
<1>4. Partial(v, u)[u + 1] = {}
  BY <1>2 DEF Partial
<1>5. Added(Added({}, Span(x, 0, y)), {<<y, Eighty>>}) = Span(x, 0, y) \cup {<<y, Eighty>>}
  <2>1. Added({}, Span(x, 0, y)) = Span(x, 0, y)
    BY DEF Added
  <2>2. <<y, Eighty>> \notin Span(x, 0, y)
    BY SpanMarks
  <2> QED
    BY <2>1, <2>2, AddedApart
<1>6. S = [Partial(v, u) EXCEPT ![u + 1] = Span(x, 0, y) \cup {<<y, Eighty>>}]
  <2>1. S = [Partial(v, u) EXCEPT ![u + 1] = Added(Added(Partial(v, u)[u + 1], Span(x, 0, y)), {<<y, Eighty>>})]
    BY <1>1, <1>3 DEF SpStarted
  <2> QED
    BY <1>4, <1>5, <2>1
<1>7. ASSUME NEW w \in 1 .. RateWords PROVE S[w] = SpText(Rs(v) + (w - 1), x, y)
  <2>1. w - 1 \in Nat
    OBVIOUS
  <2>2. CASE w = u + 1
    <3>1. Rs(v) + (w - 1) = x /\ ~(Rs(v) + (w - 1) < x)
      BY <1>2, <2>2
    <3>2. S[w] = Span(x, 0, y) \cup {<<y, Eighty>>}
      BY <1>6, <2>2 DEF Partial
    <3> QED
      BY <3>1, <3>2 DEF SpText
  <2>3. CASE w <= u
    <3>1. Rs(v) + (w - 1) < x /\ w # u + 1
      BY <1>2, <2>1, <2>3
    <3>2. S[w] = Span(Rs(v) + (w - 1), 0, WordBytes)
      BY <1>6, <2>3, <3>1 DEF Partial
    <3> QED
      BY <3>1, <3>2 DEF SpText
  <2>4. CASE w > u + 1
    <3>1. ~(Rs(v) + (w - 1) < x) /\ Rs(v) + (w - 1) # x /\ w # u + 1 /\ ~(w <= u)
      BY <1>2, <2>1, <2>4
    <3>2. S[w] = {}
      BY <1>6, <3>1 DEF Partial
    <3> QED
      BY <3>1, <3>2 DEF SpText
  <2> QED
    BY <1>2, <2>2, <2>3, <2>4
<1>8. S = [w \in 1 .. RateWords |-> S[w]]
  BY <1>6 DEF Partial
<1>9. PICK E : E = {<<WordBytes - 1, LengthCell(0)>>}
  OBVIOUS
<1>10. T = [S EXCEPT ![RateWords] = Added(S[RateWords], E)]
  BY <1>3, <1>9 DEF SpEnded
<1>11. Added(S[RateWords], E) = S[RateWords] \cup E
  <2>1. PICK X \in Nat : X = Rs(v) + (RateWords - 1)
    BY <1>2, RateIs
  <2>2. S[RateWords] = SpText(X, x, y)
    BY <1>2, <1>7, <2>1
  <2>3. <<WordBytes - 1, LengthCell(0)>> \notin Span(X, 0, WordBytes)
    BY SpanMarks
  <2>4. <<WordBytes - 1, LengthCell(0)>> \notin Span(X, 0, y)
    BY SpanMarks
  <2>5. <<WordBytes - 1, LengthCell(0)>> # <<y, Eighty>>
    <3>1. LengthCell(0) # Eighty
      BY DEF LengthCell, Eighty
    <3> QED
      BY <3>1
  <2>6. <<WordBytes - 1, LengthCell(0)>> \notin SpText(X, x, y)
    BY <2>3, <2>4, <2>5 DEF SpText
  <2> QED
    BY <1>9, <2>2, <2>6, AddedApart
<1>12. ASSUME NEW w \in 1 .. RateWords
       PROVE  T[w] = SpText(Rs(v) + (w - 1), x, y) \cup SpEnd(Rs(v) + (w - 1), Rs(v) + (RateWords - 1))
  <2>1. S[w] = SpText(Rs(v) + (w - 1), x, y)
    BY <1>7
  <2>2. CASE w = RateWords
    <3>1. T[w] = S[w] \cup E
      BY <1>2, <1>8, <1>10, <1>11, <2>2
    <3>2. SpEnd(Rs(v) + (w - 1), Rs(v) + (RateWords - 1)) = E
      BY <1>9, <2>2 DEF SpEnd
    <3> QED
      BY <2>1, <3>1, <3>2
  <2>3. CASE w # RateWords
    <3>1. T[w] = S[w]
      BY <1>8, <1>10, <2>3
    <3>2. Rs(v) + (w - 1) # Rs(v) + (RateWords - 1)
      BY <1>2, <2>3, RateIs
    <3>3. SpEnd(Rs(v) + (w - 1), Rs(v) + (RateWords - 1)) = {}
      BY <3>2 DEF SpEnd
    <3> QED
      BY <2>1, <3>1, <3>3
  <2> QED
    BY <2>2, <2>3
<1>13. T = [w \in 1 .. RateWords |-> T[w]]
  BY <1>8, <1>10
<1> QED
  BY <1>3, <1>12, <1>13

-----------------------------------------------------------------------------
SpBlock(k, n, rate) ==
  [w \in 1..RateWords |->
     UNION {{<<b, v>> : v \in SpAt((k - 1) * rate + (w - 1) * WordBytes + b, n, rate * (n \div rate + 1) - 1)} :
            b \in 0..(WordBytes - 1)}]

LEMMA Sponge10Is ==
  ASSUME NEW n
  PROVE  Sponge10(n) = Tuple([k \in 1..(n \div (RateWords * WordBytes) + 1) |-> SpBlock(k, n, RateWords * WordBytes)])
BY Zenon DEF Sponge10, SpBlock, SpAt

LEMMA RateTimes ==
  ASSUME NEW v \in Nat
  PROVE  (RateWords * WordBytes) * v = Ws(Rs(v)) /\ v * (RateWords * WordBytes) = Ws(Rs(v))
BY RateIs DEF Ws, Rs

\* Block k of the padded message, word by word.
LEMMA BlockCells ==
  ASSUME NEW n, NEW v \in Nat, NEW rate, rate = RateWords * WordBytes, n \div rate = v, NEW j \in Nat,
         NEW top, top = Ws(Rs(v) + (RateWords - 1)) + (WordBytes - 1)
  PROVE  SpBlock(j + 1, n, rate) = [w \in 1 .. RateWords |-> SpCell(Rs(j) + (w - 1), n, top)]
<1>1. rate * (v + 1) - 1 = top
  <2>1. rate * (v + 1) = Ws(Rs(v + 1))
    BY RateTimes
  <2>2. PICK a \in Nat : a = Rs(v) + (RateWords - 1) /\ Rs(v + 1) = a + 1
    <3>1. Rs(v) \in Nat /\ Rs(v + 1) = Rs(v) + RateWords
      BY RsIs
    <3>2. Rs(v) + (RateWords - 1) \in Nat /\ Rs(v + 1) = (Rs(v) + (RateWords - 1)) + 1
      BY <3>1, RateIs
    <3> QED
      BY <3>2
  <2>3. Ws(a) \in Nat /\ Ws(a + 1) = Ws(a) + WordBytes
    BY WsIs
  <2>4. (Ws(a) + WordBytes) - 1 = Ws(a) + (WordBytes - 1)
    BY <2>3, RateIs
  <2> QED
    BY <2>1, <2>2, <2>3, <2>4
<1>2. ASSUME NEW w \in 1 .. RateWords, NEW b \in 0 .. WordBytes - 1
      PROVE  ((j + 1) - 1) * rate + (w - 1) * WordBytes + b = Ws(Rs(j) + (w - 1)) + b
  <2>1. (j + 1) - 1 = j /\ j * rate = Ws(Rs(j))
    BY RateTimes
  <2>2. PICK i \in Nat : i = w - 1
    OBVIOUS
  <2>3. i * WordBytes = Ws(i)
    BY RateIs DEF Ws
  <2>4. Rs(j) \in Nat
    BY RsIs
  <2>5. Ws(Rs(j) + i) = Ws(Rs(j)) + Ws(i)
    BY <2>4, WsIs
  <2> QED
    BY <2>1, <2>2, <2>3, <2>5
<1>3. ASSUME NEW w \in 1 .. RateWords
      PROVE  UNION {{<<b, z>> : z \in SpAt(((j + 1) - 1) * rate + (w - 1) * WordBytes + b, n, rate * (n \div rate + 1) - 1)} :
                b \in 0..(WordBytes - 1)} = SpCell(Rs(j) + (w - 1), n, top)
  <2>1. rate * (n \div rate + 1) - 1 = top
    BY <1>1
  <2>2. \A b \in 0 .. WordBytes - 1 :
          SpAt(((j + 1) - 1) * rate + (w - 1) * WordBytes + b, n, rate * (n \div rate + 1) - 1) =
          SpAt(Ws(Rs(j) + (w - 1)) + b, n, top)
    BY <1>2, <2>1, Zenon
  <2> QED
    BY <2>2 DEF SpCell
<1> QED
  BY <1>3, Zenon DEF SpBlock

LEMMA SpongeDigest ==
  ASSUME NEW n \in Nat, NEW x \in Nat, NEW y \in 0 .. WordBytes - 1, n = Ws(x) + y, NEW c, Sponged(c, x, y)
  PROVE  sha3_Finalize(c) = Sponge10(n)
<1>1. PICK v \in Nat, u \in 0 .. RateWords - 1 : Rs(v) + u = x /\ Soaked(c, v, u)
  BY DEF Sponged, Wet
<1>2. c.byteIndex = y /\ c.saved = Span(x, 0, y)
  BY DEF Sponged
<1>3. Layers(c.out, v)
  BY <1>1 DEF Soaked
<1>4. PICK rate \in Nat \ {0} : rate = RateWords * WordBytes /\ rate = Ws(RateWords)
  BY RateIs DEF Ws
<1>5. n \div rate = v
  <2>1. rate * v = Ws(Rs(v))
    BY <1>4, RateTimes
  <2>2. Rs(v) \in Nat /\ u \in Nat
    BY RsIs, RateIs
  <2>3. Ws(x) = Ws(Rs(v)) + Ws(u) /\ Ws(u) \in Nat /\ Ws(Rs(v)) \in Nat
    <3>1. Ws(Rs(v) + u) = Ws(Rs(v)) + Ws(u)
      BY <2>2, WsIs
    <3>2. Ws(u) \in Nat /\ Ws(Rs(v)) \in Nat
      BY <2>2, WsIs
    <3> QED
      BY <1>1, <3>1, <3>2
  <2>4. Ws(u) + WordBytes <= rate
    <3>1. u < RateWords /\ RateWords \in Nat
      BY RateIs
    <3>2. u < RateWords => Ws(u) + WordBytes <= Ws(RateWords)
      BY <2>2, <3>1, WsIs
    <3> QED
      BY <1>4, <3>1, <3>2
  <2>5. n = rate * v + (Ws(u) + y) /\ Ws(u) + y \in 0 .. rate - 1
    BY <2>1, <2>3, <2>4, RateIs
  <2> QED
    BY <2>5, DivIs
<1>6. PICK L \in Nat : L = Rs(v) + (RateWords - 1) /\ x <= L /\ Rs(v) <= x
  <2>1. Rs(v) \in Nat
    BY RsIs
  <2> QED
    BY <1>1, <2>1, RateIs
<1>7. PICK top : top = Ws(L) + (WordBytes - 1)
  OBVIOUS
<1>8. ASSUME NEW j \in Nat
      PROVE  SpBlock(j + 1, n, rate) = [w \in 1 .. RateWords |-> SpCell(Rs(j) + (w - 1), n, top)]
  BY <1>4, <1>5, <1>6, <1>7, BlockCells
<1>9. ASSUME NEW j \in Nat, NEW w \in 1 .. RateWords
      PROVE  SpCell(Rs(j) + (w - 1), n, top) = SpText(Rs(j) + (w - 1), x, y) \cup SpEnd(Rs(j) + (w - 1), L)
  <2>1. Rs(j) + (w - 1) \in Nat
    <3>1. Rs(j) \in Nat
      BY RsIs
    <3> QED
      BY <3>1
  <2> QED
    BY <1>7, <2>1, CellIs
<1>10. ASSUME NEW j \in Nat, j < v PROVE SpBlock(j + 1, n, rate) = Layer(j)
  <2>1. ASSUME NEW w \in 1 .. RateWords PROVE SpCell(Rs(j) + (w - 1), n, top) = Span(Rs(j) + (w - 1), 0, WordBytes)
    <3>1. Rs(j) + RateWords <= Rs(v) /\ Rs(j) \in Nat /\ Rs(v) \in Nat
      <4>1. Rs(j) + RateWords <= Rs(v)
        <5>1. RateWords \in Nat /\ j < v
          BY <1>10, RateIs
        <5>2. RateWords * j + RateWords <= RateWords * v
          BY <5>1, TimesLess
        <5> QED
          BY <5>2 DEF Rs
      <4> QED
        BY <4>1, RsIs
    <3>2. Rs(j) + (w - 1) < x /\ Rs(j) + (w - 1) # L
      BY <1>6, <3>1, RateIs
    <3>3. SpText(Rs(j) + (w - 1), x, y) = Span(Rs(j) + (w - 1), 0, WordBytes) /\ SpEnd(Rs(j) + (w - 1), L) = {}
      BY <3>2 DEF SpText, SpEnd
    <3>4. SpCell(Rs(j) + (w - 1), n, top) = SpText(Rs(j) + (w - 1), x, y) \cup SpEnd(Rs(j) + (w - 1), L)
      BY <1>9
    <3> QED
      BY <3>3, <3>4
  <2> QED
    BY <1>8, <2>1 DEF Layer
<1>11. SpBlock(v + 1, n, rate) = SpEnded(c)
  <2>1. SpEnded(c) = [w \in 1 .. RateWords |-> SpText(Rs(v) + (w - 1), x, y) \cup SpEnd(Rs(v) + (w - 1), L)]
    BY <1>1, <1>2, <1>6, EndedIs
  <2> QED
    BY <1>8, <1>9, <2>1
<1>12. PICK b, f : b = SpEnded(c) /\ f = [k \in 1 .. v + 1 |-> SpBlock(k, n, rate)]
  OBVIOUS
<1>13. Sponge10(n) = Tuple(f)
  BY <1>4, <1>5, <1>12, Sponge10Is
<1>14. /\ IsSeq(Tuple(f)) /\ Len(Tuple(f)) = v + 1
       /\ \A k \in 1 .. v + 1 : Tuple(f)[k] = SpBlock(k, n, rate)
  <2>1. f = [k \in 1 .. v + 1 |-> f[k]] /\ v + 1 \in Nat /\ \A k \in 1 .. v + 1 : f[k] = SpBlock(k, n, rate)
    BY <1>12
  <2>2. IsSeq(Tuple(f)) /\ Len(Tuple(f)) = v + 1 /\ \A k \in 1 .. v + 1 : Tuple(f)[k] = f[k]
    BY <2>1, TupleIs
  <2> QED
    BY <2>1, <2>2
<1>15. /\ IsSeq(Append(c.out, b)) /\ Len(Append(c.out, b)) = v + 1
       /\ \A k \in 1 .. v : Append(c.out, b)[k] = Layer(k - 1)
       /\ Append(c.out, b)[v + 1] = b
  <2>1. IsSeq(c.out) /\ Len(c.out) = v /\ \A k \in 1 .. v : c.out[k] = Layer(k - 1)
    BY <1>3 DEF Layers
  <2>2. /\ IsSeq(Append(c.out, b)) /\ Len(Append(c.out, b)) = Len(c.out) + 1
        /\ \A k \in 1 .. Len(c.out) : Append(c.out, b)[k] = c.out[k]
        /\ Append(c.out, b)[Len(c.out) + 1] = b
    <3>1. IsSeq(c.out)
      BY <2>1
    <3> QED
      BY <3>1, AppendIs
  <2> QED
    BY <2>1, <2>2
<1>16. ASSUME NEW k \in 1 .. v + 1 PROVE Append(c.out, b)[k] = Tuple(f)[k]
  <2>1. CASE k = v + 1
    BY <1>11, <1>12, <1>14, <1>15, <2>1
  <2>2. CASE k # v + 1
    <3>1. PICK j \in Nat : j = k - 1 /\ k = j + 1 /\ j < v /\ k \in 1 .. v
      <4>1. k - 1 \in Nat /\ k = (k - 1) + 1 /\ k - 1 < v /\ k \in 1 .. v
        BY <2>2
      <4> QED
        BY <4>1
    <3>2. SpBlock(k, n, rate) = Layer(j)
      BY <1>10, <3>1
    <3> QED
      BY <1>14, <1>15, <3>1, <3>2
  <2> QED
    BY <2>1, <2>2
<1>17. Append(c.out, b) = Tuple(f)
  BY <1>14, <1>15, <1>16, SeqsEqual
<1> QED
  BY <1>12, <1>13, <1>17, SpongeFinalizeIs

-----------------------------------------------------------------------------
(* Nonces.                                                                 *)

Gen(g) == rfc6979_hmac_sha256_generate(g)
Seeded(K) == rfc6979_hmac_sha256_initialize(K)
IsTurns(f, K, c) == f = [i \in 0 .. c |-> Gen(IF i = 0 THEN Seeded(K) ELSE f[i - 1])]
Turned(K, c) == CHOOSE f : IsTurns(f, K, c)

LEMMA NonceIs ==
  ASSUME NEW in, NEW c
  PROVE  nonce_function_rfc6979(in, c) = Turned(Keydata(in), c)[c].v
BY Zenon DEF nonce_function_rfc6979, Turned, IsTurns, Gen, Seeded

LEMMA TurnsExist ==
  ASSUME NEW K, NEW c \in 0 .. 1
  PROVE  \E f : IsTurns(f, K, c)
<1> DEFINE f == [i \in 0 .. c |-> IF i = 0 THEN Gen(Seeded(K)) ELSE Gen(Gen(Seeded(K)))]
<1>1. ASSUME NEW i \in 0 .. c PROVE f[i] = Gen(IF i = 0 THEN Seeded(K) ELSE f[i - 1])
  <2>1. i = 0 \/ (i = 1 /\ i - 1 = 0 /\ 0 \in 0 .. c)
    OBVIOUS
  <2> QED
    BY <2>1
<1>2. f = [i \in 0 .. c |-> f[i]]
  OBVIOUS
<1> HIDE DEF f
<1>3. IsTurns(f, K, c)
  BY <1>1, <1>2 DEF IsTurns
<1> QED
  BY <1>3

LEMMA NonceTurns ==
  ASSUME NEW in
  PROVE  /\ nonce_function_rfc6979(in, 0) = Gen(Seeded(Keydata(in))).v
         /\ nonce_function_rfc6979(in, 1) = Gen(Gen(Seeded(Keydata(in)))).v
<1>1. PICK K : K = Keydata(in)
  OBVIOUS
<1>2. ASSUME NEW c \in 0 .. 1 PROVE IsTurns(Turned(K, c), K, c)
  <2>1. \E f : IsTurns(f, K, c)
    BY TurnsExist
  <2> QED
    BY <2>1, Zenon DEF Turned
<1>3. ASSUME NEW c \in 0 .. 1
      PROVE  Turned(K, c)[0] = Gen(Seeded(K)) /\ (c = 1 => Turned(K, c)[1] = Gen(Turned(K, c)[0]))
  <2>1. PICK f : f = Turned(K, c) /\ IsTurns(f, K, c)
    BY <1>2
  <2>2. f = [i \in 0 .. c |-> Gen(IF i = 0 THEN Seeded(K) ELSE f[i - 1])]
    BY <2>1 DEF IsTurns
  <2>3. f[0] = Gen(Seeded(K))
    BY <2>2
  <2>4. c = 1 => f[1] = Gen(f[0])
    BY <2>2
  <2> QED
    BY <2>1, <2>3, <2>4
<1>4. 0 \in 0 .. 1 /\ 1 \in 0 .. 1
  OBVIOUS
<1> QED
  BY <1>1, <1>3, <1>4, NonceIs

-----------------------------------------------------------------------------
LEMMA HOne == ASSUME NEW m, NEW n, H(m) = H(n) PROVE m = n
BY DEF H

Inner(k, p) == Cat(<<<<"ipad", k>>>>, p)

LEMMA HmacOne ==
  ASSUME NEW k, NEW p, NEW l, NEW q, hmac_sha256(k, p) = hmac_sha256(l, q)
  PROVE  k = l /\ Inner(k, p) = Inner(l, q)
<1>1. PICK a, b : a = H(Inner(k, p)) /\ b = H(Inner(l, q))
  OBVIOUS
<1>2. H(<<<<"opad", k>>, a>>) = H(<<<<"opad", l>>, b>>)
  BY <1>1, Zenon DEF hmac_sha256, Inner, Cat
<1>3. <<<<"opad", k>>, a>> = <<<<"opad", l>>, b>>
  BY <1>2, HOne
<1>4. <<"opad", k>> = <<"opad", l>> /\ a = b
  BY <1>3
<1>5. k = l
  BY <1>4
<1>6. Inner(k, p) = Inner(l, q)
  BY <1>1, <1>4, HOne
<1> QED
  BY <1>5, <1>6

\* A list behind one element can be told from the whole.
LEMMA BehindOne ==
  ASSUME NEW x, NEW y, NEW p, NEW q, IsSeq(p), IsSeq(q), Cat(<<x>>, p) = Cat(<<y>>, q)
  PROVE  p = q
<1>1. PICK X, Y : X = <<x>> /\ Y = <<y>> /\ IsSeq(X) /\ IsSeq(Y) /\ Len(X) = 1 /\ Len(Y) = 1
  BY OneIs
<1>2. Len(Cat(X, p)) = Len(X) + Len(p) /\ \A i \in 1 .. Len(p) : Cat(X, p)[Len(X) + i] = p[i]
  <2>1. IsSeq(X)
    BY <1>1
  <2> QED
    BY <2>1, CatIs
<1>3. Len(Cat(Y, q)) = Len(Y) + Len(q) /\ \A i \in 1 .. Len(q) : Cat(Y, q)[Len(Y) + i] = q[i]
  <2>1. IsSeq(Y)
    BY <1>1
  <2> QED
    BY <2>1, CatIs
<1>4. PICK m \in Nat, n \in Nat : m = Len(p) /\ n = Len(q)
  BY DEF IsSeq
<1>5. PICK Z : Z = Cat(X, p) /\ Z = Cat(Y, q)
  BY <1>1
<1>6. Len(Z) = 1 + m /\ \A i \in 1 .. m : Z[1 + i] = p[i]
  BY <1>1, <1>2, <1>4, <1>5
<1>7. Len(Z) = 1 + n /\ \A i \in 1 .. n : Z[1 + i] = q[i]
  BY <1>1, <1>3, <1>4, <1>5
<1>8. m = n
  BY <1>6, <1>7
<1>9. \A i \in 1 .. m : p[i] = q[i]
  BY <1>6, <1>7, <1>8
<1> QED
  BY <1>4, <1>8, <1>9, SeqsEqual

LEMMA InnerOne ==
  ASSUME NEW k, NEW p, NEW l, NEW q, IsSeq(p), IsSeq(q), hmac_sha256(k, p) = hmac_sha256(l, q)
  PROVE  k = l /\ p = q
<1>1. k = l /\ Cat(<<<<"ipad", k>>>>, p) = Cat(<<<<"ipad", l>>>>, q)
  BY HmacOne DEF Inner
<1> QED
  BY <1>1, BehindOne

\* The lists that are hashed.
Two(v, a) == <<v>> \o <<a>>
Three(v, a, b) == <<v>> \o <<a, b>>

LEMMA ListsAre ==
  ASSUME NEW v, NEW a, NEW b
  PROVE  /\ IsSeq(<<v>>) /\ Len(<<v>>) = 1
         /\ IsSeq(Two(v, a)) /\ Len(Two(v, a)) = 2
         /\ IsSeq(Three(v, a, b)) /\ Len(Three(v, a, b)) = 3 /\ Three(v, a, b)[3] = b
<1>1. PICK V, A, B : /\ V = <<v>> /\ A = <<a>> /\ B = <<a, b>> /\ IsSeq(V) /\ IsSeq(A) /\ IsSeq(B)
                     /\ Len(V) = 1 /\ Len(A) = 1 /\ Len(B) = 2 /\ B[2] = b
  <2>1. IsSeq(<<v>>) /\ Len(<<v>>) = 1 /\ IsSeq(<<a>>) /\ Len(<<a>>) = 1
    BY OneIs
  <2>2. IsSeq(<<a, b>>) /\ Len(<<a, b>>) = 2
    BY TwoIs
  <2>3. <<a, b>>[2] = b
    OBVIOUS
  <2> QED
    BY <2>1, <2>2, <2>3, Zenon
<1>2. IsSeq(V \o A) /\ Len(V \o A) = Len(V) + Len(A)
  <2>1. IsSeq(V) /\ IsSeq(A)
    BY <1>1
  <2> QED
    BY <2>1, ConcatIs
<1>3. IsSeq(V \o B) /\ Len(V \o B) = Len(V) + Len(B) /\ \A i \in 1 .. Len(B) : (V \o B)[Len(V) + i] = B[i]
  <2>1. IsSeq(V) /\ IsSeq(B)
    BY <1>1
  <2> QED
    BY <2>1, ConcatIs
<1>4. Two(v, a) = V \o A /\ Three(v, a, b) = V \o B
  BY <1>1 DEF Two, Three
<1>5. (V \o B)[3] = b
  <2>1. 2 \in 1 .. Len(B) /\ Len(V) + 2 = 3
    BY <1>1
  <2> QED
    BY <1>1, <1>3, <2>1
<1> QED
  BY <1>1, <1>2, <1>3, <1>4, <1>5

\* The key that the seed leaves, and the one of the second turn.
First(K) == Round6979([k |-> <<"zeros">>, v |-> <<"ones">>, retry |-> FALSE], <<<<"00">>, K>>)

LEMMA SeededIs ==
  ASSUME NEW K
  PROVE  Seeded(K).k = hmac_sha256(First(K).k, Three(First(K).v, <<"01">>, K)) /\ Seeded(K).retry = FALSE
<1>1. Seeded(K) = Round6979(First(K), <<<<"01">>, K>>)
  BY Zenon DEF Seeded, rfc6979_hmac_sha256_initialize, First
<1>2. PICK g : g = First(K)
  OBVIOUS
<1>3. Seeded(K) = Round6979(g, <<<<"01">>, K>>)
  BY <1>1, <1>2
<1>4. Seeded(K).k = hmac_sha256(g.k, <<g.v>> \o <<<<"01">>, K>>) /\ Seeded(K).retry = FALSE
  BY <1>3 DEF Round6979
<1> QED
  BY <1>2, <1>4 DEF Three

LEMMA GenIs ==
  ASSUME NEW g
  PROVE  /\ ~g.retry => Gen(g).k = g.k /\ Gen(g).v = hmac_sha256(g.k, <<g.v>>)
         /\ g.retry => \E w : Gen(g).v = hmac_sha256(hmac_sha256(g.k, Two(g.v, <<"00">>)), <<w>>)
         /\ Gen(g).retry
<1>1. Gen(g).retry
  BY DEF Gen, rfc6979_hmac_sha256_generate
<1>2. ASSUME ~g.retry PROVE Gen(g).k = g.k /\ Gen(g).v = hmac_sha256(g.k, <<g.v>>)
  BY <1>2 DEF Gen, rfc6979_hmac_sha256_generate
<1>3. ASSUME g.retry PROVE \E w : Gen(g).v = hmac_sha256(hmac_sha256(g.k, Two(g.v, <<"00">>)), <<w>>)
  <2>1. PICK r : r = Round6979(g, <<<<"00">>>>)
    OBVIOUS
  <2>2. Gen(g).v = hmac_sha256(r.k, <<r.v>>)
    BY <1>3, <2>1 DEF Gen, rfc6979_hmac_sha256_generate
  <2>3. r.k = hmac_sha256(g.k, <<g.v>> \o <<<<"00">>>>)
    BY <2>1 DEF Round6979
  <2> QED
    BY <2>2, <2>3 DEF Two
<1> QED
  BY <1>1, <1>2, <1>3

\* The two nonces of a seed: what is hashed last has the seed in a list of three.
LEMMA NonceShape ==
  ASSUME NEW in, NEW K, K = Keydata(in)
  PROVE  /\ \E k, v, w : nonce_function_rfc6979(in, 0) = hmac_sha256(hmac_sha256(k, Three(v, <<"01">>, K)), <<w>>)
         /\ \E k, v, t, w : nonce_function_rfc6979(in, 1) =
              hmac_sha256(hmac_sha256(hmac_sha256(k, Three(v, <<"01">>, K)), Two(t, <<"00">>)), <<w>>)
<1>1. PICK s, f : s = Seeded(K) /\ f = First(K)
  OBVIOUS
<1>2. s.k = hmac_sha256(f.k, Three(f.v, <<"01">>, K)) /\ ~s.retry
  BY <1>1, SeededIs
<1>3. PICK t : t = Gen(s)
  OBVIOUS
<1>4. t.k = s.k /\ t.v = hmac_sha256(s.k, <<s.v>>) /\ t.retry
  BY <1>2, <1>3, GenIs
<1>5. PICK w : Gen(t).v = hmac_sha256(hmac_sha256(t.k, Two(t.v, <<"00">>)), <<w>>)
  BY <1>4, GenIs
<1>6. nonce_function_rfc6979(in, 0) = t.v /\ nonce_function_rfc6979(in, 1) = Gen(t).v
  BY <1>1, <1>3, NonceTurns
<1>7. nonce_function_rfc6979(in, 0) = hmac_sha256(hmac_sha256(f.k, Three(f.v, <<"01">>, K)), <<s.v>>)
  BY <1>2, <1>4, <1>6
<1>8. nonce_function_rfc6979(in, 1) =
        hmac_sha256(hmac_sha256(hmac_sha256(f.k, Three(f.v, <<"01">>, K)), Two(t.v, <<"00">>)), <<w>>)
  BY <1>2, <1>4, <1>5, <1>6
<1> QED
  BY <1>7, <1>8, Zenon

LEMMA CatSame ==
  ASSUME NEW s, NEW t, NEW u, NEW v, IsSeq(s), IsSeq(t), IsSeq(u), IsSeq(v),
         Len(s) = Len(t), Cat(s, u) = Cat(t, v)
  PROVE  s = t /\ u = v
<1>1. /\ Len(Cat(s, u)) = Len(s) + Len(u) /\ \A i \in 1 .. Len(s) : Cat(s, u)[i] = s[i]
      /\ \A i \in 1 .. Len(u) : Cat(s, u)[Len(s) + i] = u[i]
  BY CatIs
<1>2. /\ Len(Cat(t, v)) = Len(t) + Len(v) /\ \A i \in 1 .. Len(t) : Cat(t, v)[i] = t[i]
      /\ \A i \in 1 .. Len(v) : Cat(t, v)[Len(t) + i] = v[i]
  BY CatIs
<1>3. PICK a \in Nat, b \in Nat, c \in Nat : a = Len(s) /\ b = Len(u) /\ c = Len(v)
  BY DEF IsSeq
<1>4. PICK z : z = Cat(s, u) /\ z = Cat(t, v)
  OBVIOUS
<1>5. Len(z) = a + b /\ (\A i \in 1 .. a : z[i] = s[i]) /\ (\A i \in 1 .. b : z[a + i] = u[i])
  BY <1>1, <1>3, <1>4
<1>6. Len(z) = a + c /\ (\A i \in 1 .. a : z[i] = t[i]) /\ (\A i \in 1 .. c : z[a + i] = v[i])
  BY <1>2, <1>3, <1>4
<1>7. b = c
  BY <1>5, <1>6
<1>8. s = t
  BY <1>3, <1>5, <1>6, SeqsEqual
<1>9. u = v
  BY <1>3, <1>5, <1>6, <1>7, SeqsEqual
<1> QED
  BY <1>8, <1>9

\* Data of two cells is not made up for by the name of an algorithm.
LEMMA SameSize ==
  ASSUME NEW i \in {0, 2}, NEW j \in {0, 2}, NEW x \in {0, 1}, NEW y \in {0, 1}, (4 + i) + x = (4 + j) + y
  PROVE  i = j
OBVIOUS

\* What nonces are made from can be told from the bytes hashed.
LEMMA KeydataOne ==
  ASSUME NEW a \in NonceInputs, NEW b \in NonceInputs, Keydata(a) = Keydata(b)
  PROVE  a = b
<1>1. PICK k, m, d, g : k = a.key /\ m = a.msg /\ d = a.data /\ g = a.algo
  OBVIOUS
<1>2. PICK l, n, e, h : l = b.key /\ n = b.msg /\ e = b.data /\ h = b.algo
  OBVIOUS
<1>3. /\ IsSeq(k) /\ IsSeq(m) /\ IsSeq(d) /\ IsSeq(g)
      /\ Len(k) = 2 /\ Len(m) = 2 /\ Len(d) \in {0, 2} /\ Len(g) \in {0, 1}
  <2>1. k \in Seq(STRING) /\ m \in Seq(STRING) /\ d \in Seq(STRING) /\ g \in Seq(STRING)
    BY <1>1, HashAssumption
  <2>2. Len(k) = 2 /\ Len(m) = 2 /\ Len(d) \in {0, 2} /\ Len(g) \in {0, 1}
    BY <1>1, HashAssumption
  <2> QED
    BY <2>1, <2>2, IsSeqOf
<1>4. /\ IsSeq(l) /\ IsSeq(n) /\ IsSeq(e) /\ IsSeq(h)
      /\ Len(l) = 2 /\ Len(n) = 2 /\ Len(e) \in {0, 2} /\ Len(h) \in {0, 1}
  <2>1. l \in Seq(STRING) /\ n \in Seq(STRING) /\ e \in Seq(STRING) /\ h \in Seq(STRING)
    BY <1>2, HashAssumption
  <2>2. Len(l) = 2 /\ Len(n) = 2 /\ Len(e) \in {0, 2} /\ Len(h) \in {0, 1}
    BY <1>2, HashAssumption
  <2> QED
    BY <2>1, <2>2, IsSeqOf
<1>5. PICK p, r, t : p = Cat(k, m) /\ r = Cat(p, d) /\ t = Cat(r, g)
  OBVIOUS
<1>6. PICK q, s, u : q = Cat(l, n) /\ s = Cat(q, e) /\ u = Cat(s, h)
  OBVIOUS
<1>7. t = u
  BY <1>1, <1>2, <1>5, <1>6 DEF Keydata, Cat
<1>8. IsSeq(p) /\ Len(p) = 4
  <2>1. IsSeq(k) /\ IsSeq(m)
    BY <1>3
  <2>2. IsSeq(Cat(k, m)) /\ Len(Cat(k, m)) = Len(k) + Len(m)
    BY <2>1, CatIs
  <2> QED
    BY <1>3, <1>5, <2>2
<1>9. IsSeq(q) /\ Len(q) = 4
  <2>1. IsSeq(l) /\ IsSeq(n)
    BY <1>4
  <2>2. IsSeq(Cat(l, n)) /\ Len(Cat(l, n)) = Len(l) + Len(n)
    BY <2>1, CatIs
  <2> QED
    BY <1>4, <1>6, <2>2
<1>10. IsSeq(r) /\ Len(r) = 4 + Len(d)
  <2>1. IsSeq(p) /\ IsSeq(d)
    BY <1>3, <1>8
  <2>2. IsSeq(Cat(p, d)) /\ Len(Cat(p, d)) = Len(p) + Len(d)
    BY <2>1, CatIs
  <2> QED
    BY <1>5, <1>8, <2>2
<1>11. IsSeq(s) /\ Len(s) = 4 + Len(e)
  <2>1. IsSeq(q) /\ IsSeq(e)
    BY <1>4, <1>9
  <2>2. IsSeq(Cat(q, e)) /\ Len(Cat(q, e)) = Len(q) + Len(e)
    BY <2>1, CatIs
  <2> QED
    BY <1>6, <1>9, <2>2
<1>12. Len(t) = (4 + Len(d)) + Len(g)
  <2>1. IsSeq(r) /\ IsSeq(g)
    BY <1>3, <1>10
  <2>2. Len(Cat(r, g)) = Len(r) + Len(g)
    BY <2>1, CatIs
  <2> QED
    BY <1>5, <1>10, <2>2
<1>13. Len(u) = (4 + Len(e)) + Len(h)
  <2>1. IsSeq(s) /\ IsSeq(h)
    BY <1>4, <1>11
  <2>2. Len(Cat(s, h)) = Len(s) + Len(h)
    BY <2>1, CatIs
  <2> QED
    BY <1>6, <1>11, <2>2
<1>14. Len(d) = Len(e) /\ Len(r) = Len(s)
  <2>1. (4 + Len(d)) + Len(g) = (4 + Len(e)) + Len(h)
    BY <1>7, <1>12, <1>13
  <2>2. Len(d) \in {0, 2} /\ Len(e) \in {0, 2} /\ Len(g) \in {0, 1} /\ Len(h) \in {0, 1}
    BY <1>3, <1>4
  <2>3. Len(d) = Len(e)
    BY <2>1, <2>2, SameSize
  <2> QED
    BY <1>10, <1>11, <2>3
<1>15. r = s /\ g = h
  <2>1. IsSeq(r) /\ IsSeq(s) /\ IsSeq(g) /\ IsSeq(h) /\ Len(r) = Len(s)
    BY <1>3, <1>4, <1>10, <1>11, <1>14
  <2>2. Cat(r, g) = Cat(s, h)
    BY <1>5, <1>6, <1>7
  <2> QED
    BY <2>1, <2>2, CatSame
<1>16. p = q /\ d = e
  <2>1. IsSeq(p) /\ IsSeq(q) /\ IsSeq(d) /\ IsSeq(e) /\ Len(p) = Len(q)
    BY <1>3, <1>4, <1>8, <1>9
  <2>2. Cat(p, d) = Cat(q, e)
    BY <1>5, <1>6, <1>15
  <2> QED
    BY <2>1, <2>2, CatSame
<1>17. k = l /\ m = n
  <2>1. IsSeq(k) /\ IsSeq(l) /\ IsSeq(m) /\ IsSeq(n) /\ Len(k) = Len(l)
    BY <1>3, <1>4
  <2>2. Cat(k, m) = Cat(l, n)
    BY <1>5, <1>6, <1>16
  <2> QED
    BY <2>1, <2>2, CatSame
<1>18. /\ a \in [key : Seq(STRING), msg : Seq(STRING), data : Seq(STRING), algo : Seq(STRING)]
       /\ b \in [key : Seq(STRING), msg : Seq(STRING), data : Seq(STRING), algo : Seq(STRING)]
  BY HashAssumption
<1>19. a.key = b.key /\ a.msg = b.msg /\ a.data = b.data /\ a.algo = b.algo
  BY <1>1, <1>2, <1>15, <1>16, <1>17
<1> QED
  BY <1>18, <1>19

LEMMA ThreeIs ==
  ASSUME NEW v, NEW a, NEW b
  PROVE  IsSeq(Three(v, a, b)) /\ Len(Three(v, a, b)) = 3 /\ Three(v, a, b)[3] = b
<1>1. IsSeq(<<v>>) /\ Len(<<v>>) = 1 /\ IsSeq(<<a, b>>) /\ Len(<<a, b>>) = 2
  BY OneIs, TwoIs
<1>0. <<a, b>>[2] = b
  OBVIOUS
<1>2. PICK V, B : V = <<v>> /\ B = <<a, b>> /\ B[2] = b
  BY <1>0, Zenon
<1>3. IsSeq(V) /\ Len(V) = 1 /\ IsSeq(B) /\ Len(B) = 2
  BY <1>1, <1>2
<1>4. IsSeq(V \o B) /\ Len(V \o B) = Len(V) + Len(B) /\ \A i \in 1 .. Len(B) : (V \o B)[Len(V) + i] = B[i]
  <2>1. IsSeq(V) /\ IsSeq(B)
    BY <1>3
  <2> QED
    BY <2>1, ConcatIs
<1>5. PICK X : X = V \o B
  OBVIOUS
<1>6. IsSeq(X) /\ Len(X) = 3 /\ X[3] = b
  <2>1. 2 \in 1 .. Len(B) /\ Len(V) + 2 = 3
    BY <1>3
  <2>2. X[Len(V) + 2] = B[2]
    BY <1>4, <1>5, <2>1
  <2> QED
    BY <1>2, <1>3, <1>4, <1>5, <2>1, <2>2
<1>7. Three(v, a, b) = X
  BY <1>2, <1>5 DEF Three
<1> QED
  BY <1>6, <1>7

LEMMA TwoListIs ==
  ASSUME NEW v, NEW a
  PROVE  IsSeq(Two(v, a)) /\ Len(Two(v, a)) = 2
<1>1. PICK b : b = a
  OBVIOUS
<1> QED
  BY <1>1, ListsAre

\* The two nonces of a seed, for given arguments.
LEMMA FirstNonce ==
  ASSUME NEW in
  PROVE  \E k, v, w : nonce_function_rfc6979(in, 0) = hmac_sha256(hmac_sha256(k, Three(v, <<"01">>, Keydata(in))), <<w>>)
BY NonceShape, Zenon

LEMMA SecondNonce ==
  ASSUME NEW in
  PROVE  \E k, v, t, w : nonce_function_rfc6979(in, 1) =
           hmac_sha256(hmac_sha256(hmac_sha256(k, Three(v, <<"01">>, Keydata(in))), Two(t, <<"00">>)), <<w>>)
BY NonceShape, Zenon

LEMMA ThreeOne ==
  ASSUME NEW k, NEW v, NEW a, NEW b, NEW l, NEW w, NEW c, NEW d,
         hmac_sha256(k, Three(v, a, b)) = hmac_sha256(l, Three(w, c, d))
  PROVE  b = d
<1>1. PICK p, q : p = Three(v, a, b) /\ q = Three(w, c, d)
  OBVIOUS
<1>2. IsSeq(p) /\ p[3] = b
  <2>1. IsSeq(Three(v, a, b)) /\ Len(Three(v, a, b)) = 3 /\ Three(v, a, b)[3] = b
    BY ThreeIs
  <2> QED
    BY <1>1, <2>1
<1>4. IsSeq(q) /\ q[3] = d
  <2>1. IsSeq(Three(w, c, d)) /\ Len(Three(w, c, d)) = 3 /\ Three(w, c, d)[3] = d
    BY ThreeIs
  <2> QED
    BY <1>1, <2>1
<1>5. hmac_sha256(k, p) = hmac_sha256(l, q)
  BY <1>1
<1>3. p = q
  BY <1>2, <1>4, <1>5, InnerOne
<1> QED
  BY <1>2, <1>3, <1>4

LEMMA TwoNotThree ==
  ASSUME NEW k, NEW v, NEW a, NEW b, NEW l, NEW w, NEW c
  PROVE  hmac_sha256(k, Three(v, a, b)) # hmac_sha256(l, Two(w, c))
<1>1. PICK p, q : p = Three(v, a, b) /\ q = Two(w, c)
  OBVIOUS
<1>2. IsSeq(p) /\ IsSeq(q) /\ Len(p) = 3 /\ Len(q) = 2
  <2>1. IsSeq(Three(v, a, b)) /\ Len(Three(v, a, b)) = 3
    BY ThreeIs, TwoListIs
  <2>2. IsSeq(Two(w, c)) /\ Len(Two(w, c)) = 2
    BY ThreeIs, TwoListIs
  <2> QED
    BY <1>1, <2>1, <2>2
<1>3. hmac_sha256(k, p) = hmac_sha256(l, q) => p = q
  BY <1>2, InnerOne
<1> QED
  BY <1>1, <1>2, <1>3

LEMMA OuterOne ==
  ASSUME NEW k, NEW v, NEW l, NEW w, hmac_sha256(k, <<v>>) = hmac_sha256(l, <<w>>)
  PROVE  k = l
BY HmacOne

LEMMA NonceOne ==
  ASSUME NEW a \in NonceInputs, NEW b \in NonceInputs, NEW i \in 0 .. 1, NEW j \in 0 .. 1,
         nonce_function_rfc6979(a, i) = nonce_function_rfc6979(b, j)
  PROVE  a = b /\ i = j
<1>1. PICK K, L : K = Keydata(a) /\ L = Keydata(b)
  OBVIOUS
<1>2. PICK k, v, w : nonce_function_rfc6979(a, 0) = hmac_sha256(hmac_sha256(k, Three(v, <<"01">>, K)), <<w>>)
  BY <1>1, FirstNonce, SecondNonce, Zenon
<1>3. PICK l, x, y : nonce_function_rfc6979(b, 0) = hmac_sha256(hmac_sha256(l, Three(x, <<"01">>, L)), <<y>>)
  BY <1>1, FirstNonce, SecondNonce, Zenon
<1>4. PICK m, p, q, r : nonce_function_rfc6979(a, 1) =
        hmac_sha256(hmac_sha256(hmac_sha256(m, Three(p, <<"01">>, K)), Two(q, <<"00">>)), <<r>>)
  BY <1>1, FirstNonce, SecondNonce, Zenon
<1>5. PICK n, s, t, u : nonce_function_rfc6979(b, 1) =
        hmac_sha256(hmac_sha256(hmac_sha256(n, Three(s, <<"01">>, L)), Two(t, <<"00">>)), <<u>>)
  BY <1>1, FirstNonce, SecondNonce, Zenon
<1>6. K = L => a = b
  BY <1>1, KeydataOne
<1>7. CASE i = 0 /\ j = 0
  <2>1. hmac_sha256(k, Three(v, <<"01">>, K)) = hmac_sha256(l, Three(x, <<"01">>, L))
    BY <1>2, <1>3, <1>7, OuterOne
  <2>2. K = L
    BY <2>1, ThreeOne
  <2> QED
    BY <1>6, <1>7, <2>2
<1>8. CASE i = 1 /\ j = 1
  <2>1. hmac_sha256(hmac_sha256(m, Three(p, <<"01">>, K)), Two(q, <<"00">>)) =
        hmac_sha256(hmac_sha256(n, Three(s, <<"01">>, L)), Two(t, <<"00">>))
    BY <1>4, <1>5, <1>8, OuterOne
  <2>2. hmac_sha256(m, Three(p, <<"01">>, K)) = hmac_sha256(n, Three(s, <<"01">>, L))
    BY <2>1, HmacOne
  <2>3. K = L
    BY <2>2, ThreeOne
  <2> QED
    BY <1>6, <1>8, <2>3
<1>9. ~(i = 0 /\ j = 1)
  <2> SUFFICES ASSUME i = 0, j = 1 PROVE FALSE
    OBVIOUS
  <2>1. hmac_sha256(k, Three(v, <<"01">>, K)) =
        hmac_sha256(hmac_sha256(n, Three(s, <<"01">>, L)), Two(t, <<"00">>))
    BY <1>2, <1>5, OuterOne
  <2> QED
    BY <2>1, TwoNotThree
<1>10. ~(i = 1 /\ j = 0)
  <2> SUFFICES ASSUME i = 1, j = 0 PROVE FALSE
    OBVIOUS
  <2>1. hmac_sha256(l, Three(x, <<"01">>, L)) =
        hmac_sha256(hmac_sha256(m, Three(p, <<"01">>, K)), Two(q, <<"00">>))
    BY <1>3, <1>4, OuterOne
  <2> QED
    BY <2>1, TwoNotThree
<1> QED
  BY <1>7, <1>8, <1>9, <1>10

-----------------------------------------------------------------------------
(* The invariant: every context holds the message so far, or every digest  *)
(* is that of the padded message.                                          *)

SecpFed(h, n) == \E q \in Nat, r \in 0 .. Block - 1 : Holds(h, Bytes(0, n), q, r)
SmFed(c, n) == \E q \in Nat, r \in 0 .. Block - 1 : Sm(c, Bytes(0, n), q, r)
SpongeFed(c, n) == \E x \in Nat, y \in 0 .. WordBytes - 1 : n = Ws(x) + y /\ Sponged(c, x, y)

Contexts(n, a, b, c, d, e) == [len |-> n, secp |-> a, gm |-> b, gm256 |-> c, sponge |-> d, done |-> e]
Feeding(n, a, b, c, d) ==
  hashing = Contexts(n, a, b, c, d, FALSE) /\ SecpFed(a, n) /\ SmFed(b, n) /\ SmFed(c, n) /\ SpongeFed(d, n)
Digested(n) == hashing = Contexts(n, Padded80(n), Padded80(n), Padded80(n), Sponge10(n), TRUE)
HashInv == \E n \in 0 .. MaxMessage : (\E a, b, c, d : Feeding(n, a, b, c, d)) \/ Digested(n)

LEMMA DigestedIs == ASSUME NEW n, Digested(n) PROVE hashing.done
<1>1. PICK P, S : P = Padded80(n) /\ S = Sponge10(n)
  OBVIOUS
<1>2. hashing = [len |-> n, secp |-> P, gm |-> P, gm256 |-> P, sponge |-> S, done |-> TRUE]
  BY <1>1 DEF Digested, Contexts
<1> QED
  BY <1>2

LEMMA FeedingIs ==
  ASSUME NEW n, NEW a, NEW b, NEW c, NEW d, Feeding(n, a, b, c, d)
  PROVE  /\ hashing.len = n /\ hashing.secp = a /\ hashing.gm = b /\ hashing.gm256 = c
         /\ hashing.sponge = d /\ hashing.done = FALSE
<1>1. hashing = [len |-> n, secp |-> a, gm |-> b, gm256 |-> c, sponge |-> d, done |-> FALSE]
  BY DEF Feeding, Contexts
<1> QED
  BY <1>1

\* Nothing is held of an empty message.
LEMMA NothingHeld ==
  ASSUME NEW M, IsSeq(M), Len(M) = 0, NEW b, IsSeq(b), Len(b) = Block
  PROVE  Len(M) = At(0) + 0 /\ Blocks(<< >>, M, 0) /\ Begins(b, M, At(0), 0)
<1>1. At(0) = 0
  BY BlockIs DEF At
<1>2. Blocks(<< >>, M, 0)
  BY EmptyIs DEF Blocks
<1>3. Begins(b, M, At(0), 0)
  BY DEF Begins
<1> QED
  BY <1>1, <1>2, <1>3

LEMMA FilledIs ==
  ASSUME NEW x
  PROVE  IsSeq([k \in 1 .. Block |-> x]) /\ Len([k \in 1 .. Block |-> x]) = Block
<1>1. PICK f : f = [k \in 1 .. Block |-> x]
  OBVIOUS
<1>2. Block \in Nat
  BY BlockIs
<1>3. Len(f) = Block
  BY <1>1, <1>2
<1>4. f = [k \in 1 .. Block |-> f[k]]
  BY <1>1
<1>5. IsSeq(f)
  BY <1>2, <1>3, <1>4 DEF IsSeq
<1> QED
  BY <1>1, <1>3, <1>5

LEMMA SecpStarts == SecpFed(sha256_initialize, 0)
<1>1. PICK M : M = Bytes(0, 0) /\ IsSeq(M) /\ Len(M) = 0
  <2>1. 0 \in Nat
    OBVIOUS
  <2>2. IsSeq(Bytes(0, 0)) /\ Len(Bytes(0, 0)) = 0
    BY <2>1, BytesIs
  <2> QED
    BY <2>2
<1>2. PICK f : f = [k \in 1 .. Block |-> Garbage] /\ IsSeq(f) /\ Len(f) = Block
  BY FilledIs
<1>3. Len(M) = At(0) + 0 /\ Blocks(<< >>, M, 0) /\ Begins(f, M, At(0), 0)
  BY <1>1, <1>2, NothingHeld
<1>4. PICK h : h = sha256_initialize /\ h.bytes = 0 /\ h.buf = f /\ h.out = << >>
  <2>1. PICK h : h = [bytes |-> 0, buf |-> f, out |-> << >>]
    OBVIOUS
  <2>2. h = sha256_initialize
    BY <1>2, <2>1 DEF sha256_initialize
  <2>3. h.bytes = 0 /\ h.buf = f /\ h.out = << >>
    BY <2>1
  <2> QED
    BY <2>2, <2>3
<1>5. Holds(h, M, 0, 0)
  BY <1>1, <1>3, <1>4 DEF Holds
<1>6. 0 \in Nat /\ 0 \in 0 .. Block - 1
  BY BlockIs
<1> QED
  BY <1>1, <1>4, <1>5, <1>6 DEF SecpFed

LEMMA SmStarts == SmFed(sm3_init, 0)
<1>1. PICK M : M = Bytes(0, 0) /\ IsSeq(M) /\ Len(M) = 0
  <2>1. 0 \in Nat
    OBVIOUS
  <2>2. IsSeq(Bytes(0, 0)) /\ Len(Bytes(0, 0)) = 0
    BY <2>1, BytesIs
  <2> QED
    BY <2>2
<1>2. PICK f : f = [k \in 1 .. Block |-> 0] /\ IsSeq(f) /\ Len(f) = Block
  BY FilledIs
<1>3. Len(M) = At(0) + 0 /\ Blocks(<< >>, M, 0) /\ Begins(f, M, At(0), 0)
  BY <1>1, <1>2, NothingHeld
<1>4. PICK c : /\ c = sm3_init /\ c.num = 0 /\ c.nblocks = 0 /\ c.block = f /\ c.out = << >>
               /\ c = [num |-> c.num, nblocks |-> c.nblocks, block |-> c.block, out |-> c.out]
  <2>1. PICK h : h = [num |-> 0, nblocks |-> 0, block |-> f, out |-> << >>]
    OBVIOUS
  <2>2. h = sm3_init
    BY <1>2, <2>1 DEF sm3_init
  <2>3. h.num = 0 /\ h.nblocks = 0 /\ h.block = f /\ h.out = << >>
    BY <2>1
  <2>4. h = [num |-> h.num, nblocks |-> h.nblocks, block |-> h.block, out |-> h.out]
    BY <2>1
  <2> QED
    BY <2>2, <2>3, <2>4
<1>5. Sm(c, M, 0, 0)
  BY <1>1, <1>3, <1>4 DEF Sm
<1>6. 0 \in Nat /\ 0 \in 0 .. Block - 1
  BY BlockIs
<1> QED
  BY <1>1, <1>4, <1>5, <1>6 DEF SmFed

LEMMA SpongeStarts == SpongeFed(sha3_Init, 0)
<1>1. PICK c : /\ c = sha3_Init /\ c.byteIndex = 0 /\ c.wordIndex = 0 /\ c.saved = {}
               /\ c.s = EmptyState /\ c.out = << >> /\ IsContext(c)
  <2>1. PICK t : t = EmptyState
    OBVIOUS
  <2>2. PICK h : h = [byteIndex |-> 0, wordIndex |-> 0, saved |-> {}, s |-> t, out |-> << >>]
    OBVIOUS
  <2>3. h = sha3_Init
    BY <2>1, <2>2 DEF sha3_Init
  <2>4. h.byteIndex = 0 /\ h.wordIndex = 0 /\ h.saved = {} /\ h.s = t /\ h.out = << >>
    BY <2>2
  <2>5. IsContext(h)
    BY <2>2 DEF IsContext
  <2> QED
    BY <2>1, <2>3, <2>4, <2>5
<1>2. Partial(0, 0) = EmptyState
  <2>1. \A w \in 1 .. RateWords : ~(w <= 0)
    BY RateIs
  <2> QED
    BY <2>1 DEF Partial, EmptyState
<1>3. Layers(<< >>, 0)
  BY EmptyIs DEF Layers
<1>4. Soaked(c, 0, 0)
  BY <1>1, <1>2, <1>3 DEF Soaked
<1>5. Rs(0) = 0 /\ Ws(0) = 0 /\ 0 \in 0 .. RateWords - 1 /\ 0 \in 0 .. WordBytes - 1 /\ 0 \in Nat
  BY RateIs DEF Rs, Ws
<1>6. Wet(c, 0)
  <2>1. Rs(0) + 0 = 0
    BY <1>5
  <2> QED
    BY <1>4, <1>5, <2>1 DEF Wet
<1>7. Span(0, 0, 0) = {}
  BY <1>5, SpanNothing
<1>8. Sponged(c, 0, 0)
  BY <1>1, <1>6, <1>7 DEF Sponged
<1>9. 0 = Ws(0) + 0
  BY <1>5
<1> QED
  BY <1>1, <1>5, <1>8, <1>9 DEF SpongeFed

LEMMA HashStarts == HashInit => HashInv
<1> SUFFICES ASSUME HashInit PROVE HashInv
  OBVIOUS
<1>1. PICK a, b, d : a = sha256_initialize /\ b = sm3_init /\ d = sha3_Init
  OBVIOUS
<1>2. hashing = Contexts(0, a, b, b, d, FALSE)
  BY <1>1 DEF HashInit, Contexts, sha256_init
<1>3. SecpFed(a, 0) /\ SmFed(b, 0) /\ SpongeFed(d, 0)
  BY <1>1, SecpStarts, SmStarts, SpongeStarts
<1>4. Feeding(0, a, b, b, d)
  BY <1>2, <1>3 DEF Feeding
<1>5. 0 \in 0 .. MaxMessage
  BY HashAssumption
<1> QED
  BY <1>4, <1>5 DEF HashInv

-----------------------------------------------------------------------------
(* Every write feeds every context, however long it is.                    *)

LEMMA SecpGrows ==
  ASSUME NEW n \in Nat, NEW m \in Nat, NEW h, SecpFed(h, n)
  PROVE  SecpFed(sha256_write(h, Bytes(n, m)), n + m)
<1>1. PICK q \in Nat, r \in 0 .. Block - 1 : Holds(h, Bytes(0, n), q, r)
  BY DEF SecpFed
<1>2. PICK M, d : M = Bytes(0, n) /\ d = Bytes(n, m)
  OBVIOUS
<1>3. IsSeq(d)
  BY <1>2, BytesIs
<1>4. Holds(h, M, q, r)
  BY <1>1, <1>2
<1>5. PICK p \in Nat, s \in 0 .. Block - 1 : Holds(sha256_write(h, d), Cat(M, d), p, s)
  BY <1>3, <1>4, WriteHolds
<1>6. Cat(M, d) = Bytes(0, n + m)
  BY <1>2, BytesNext
<1>7. Holds(sha256_write(h, d), Bytes(0, n + m), p, s)
  BY <1>5, <1>6
<1> QED
  BY <1>2, <1>7 DEF SecpFed

LEMMA SmGrows ==
  ASSUME NEW n \in Nat, NEW m \in Nat, NEW c, SmFed(c, n)
  PROVE  SmFed(sm3_update(c, Bytes(n, m)), n + m)
<1>1. PICK q \in Nat, r \in 0 .. Block - 1 : Sm(c, Bytes(0, n), q, r)
  BY DEF SmFed
<1>2. PICK M, d : M = Bytes(0, n) /\ d = Bytes(n, m)
  OBVIOUS
<1>3. IsSeq(d)
  BY <1>2, BytesIs
<1>4. Sm(c, M, q, r)
  BY <1>1, <1>2
<1>5. PICK p \in Nat, s \in 0 .. Block - 1 : Sm(sm3_update(c, d), Cat(M, d), p, s)
  BY <1>3, <1>4, UpdateHolds
<1>6. Cat(M, d) = Bytes(0, n + m)
  BY <1>2, BytesNext
<1>7. Sm(sm3_update(c, d), Bytes(0, n + m), p, s)
  BY <1>5, <1>6
<1> QED
  BY <1>2, <1>7 DEF SmFed

LEMMA SpongeGrows ==
  ASSUME NEW n \in Nat, NEW m \in Nat, NEW c, SpongeFed(c, n)
  PROVE  SpongeFed(sha3_Update(c, Bytes(n, m)), n + m)
<1>1. PICK x \in Nat, y \in 0 .. WordBytes - 1 : n = Ws(x) + y /\ Sponged(c, x, y)
  BY DEF SpongeFed
<1>2. PICK p \in Nat, s \in 0 .. WordBytes - 1 :
        n + m = Ws(p) + s /\ Sponged(sha3_Update(c, Bytes(n, m)), p, s)
  BY <1>1, UpdateSponged
<1> QED
  BY <1>2 DEF SpongeFed

LEMMA WriteStep ==
  ASSUME HashInv, NEW m \in 0 .. MaxMessage, HashWrite(m)
  PROVE  HashInv'
<1>1. PICK n \in 0 .. MaxMessage : (\E a, b, c, d : Feeding(n, a, b, c, d)) \/ Digested(n)
  BY DEF HashInv
<1>2. ~hashing.done /\ hashing.len + m <= MaxMessage
  BY DEF HashWrite
<1>3. ~Digested(n)
  BY <1>2, DigestedIs
<1>4. PICK a, b, c, d : Feeding(n, a, b, c, d)
  BY <1>1, <1>3
<1>5. hashing = Contexts(n, a, b, c, d, FALSE)
  BY <1>4 DEF Feeding
<1>6. n \in Nat /\ m \in Nat
  BY HashAssumption
<1>7. PICK e : e = Bytes(n, m)
  OBVIOUS
<1>8. hashing.len = n
  BY <1>4, FeedingIs
<1>9. hashing' = [hashing EXCEPT !.len = @ + m, !.secp = sha256_write(@, e),
                                 !.gm = sm3_update(@, e), !.gm256 = sm3_update(@, e), !.sponge = sha3_Update(@, e)]
  BY <1>7, <1>8 DEF HashWrite, sha256_update
<1>10. PICK A, B, C, D : /\ A = sha256_write(a, e) /\ B = sm3_update(b, e)
                         /\ C = sm3_update(c, e) /\ D = sha3_Update(d, e)
  OBVIOUS
<1>11. hashing' = Contexts(n + m, A, B, C, D, FALSE)
  BY <1>5, <1>9, <1>10 DEF Contexts
<1>12. SecpFed(A, n + m) /\ SmFed(B, n + m) /\ SmFed(C, n + m) /\ SpongeFed(D, n + m)
  <2>1. SecpFed(a, n) /\ SmFed(b, n) /\ SmFed(c, n) /\ SpongeFed(d, n)
    BY <1>4 DEF Feeding
  <2>2. SecpFed(A, n + m)
    BY <1>6, <1>7, <1>10, <2>1, SecpGrows
  <2>3. SmFed(B, n + m)
    BY <1>6, <1>7, <1>10, <2>1, SmGrows
  <2>4. SmFed(C, n + m)
    BY <1>6, <1>7, <1>10, <2>1, SmGrows
  <2>5. SpongeFed(D, n + m)
    BY <1>6, <1>7, <1>10, <2>1, SpongeGrows
  <2> QED
    BY <2>2, <2>3, <2>4, <2>5
<1>13. Feeding(n + m, A, B, C, D)'
  BY <1>11, <1>12 DEF Feeding
<1>14. n + m \in 0 .. MaxMessage
  BY <1>2, <1>6, <1>8, HashAssumption
<1> QED
  BY <1>13, <1>14 DEF HashInv

LEMMA FinishStep ==
  ASSUME HashInv, HashFinish
  PROVE  HashInv'
<1>1. PICK n \in 0 .. MaxMessage : (\E a, b, c, d : Feeding(n, a, b, c, d)) \/ Digested(n)
  BY DEF HashInv
<1>2. ~hashing.done
  BY DEF HashFinish
<1>3. ~Digested(n)
  BY <1>2, DigestedIs
<1>4. PICK a, b, c, d : Feeding(n, a, b, c, d)
  BY <1>1, <1>3
<1>5. hashing.len = n /\ hashing.secp = a /\ hashing.gm = b /\ hashing.gm256 = c /\ hashing.sponge = d
  BY <1>4, FeedingIs
<1>6. n \in Nat
  BY HashAssumption
<1>7. sha256_finalize(a) = Padded80(n)
  <2>1. PICK q \in Nat, r \in 0 .. Block - 1 : Holds(a, Bytes(0, n), q, r)
    BY <1>4 DEF Feeding, SecpFed
  <2> QED
    BY <1>6, <2>1, SecpDigest
<1>8. sm3_finish(b) = Padded80(n)
  <2>1. PICK q \in Nat, r \in 0 .. Block - 1 : Sm(b, Bytes(0, n), q, r)
    BY <1>4 DEF Feeding, SmFed
  <2> QED
    BY <2>1, SmDigest
<1>9. sm3_finish(c) = Padded80(n)
  <2>1. PICK q \in Nat, r \in 0 .. Block - 1 : Sm(c, Bytes(0, n), q, r)
    BY <1>4 DEF Feeding, SmFed
  <2> QED
    BY <2>1, SmDigest
<1>10. sha3_Finalize(d) = Sponge10(n)
  <2>1. PICK x \in Nat, y \in 0 .. WordBytes - 1 : n = Ws(x) + y /\ Sponged(d, x, y)
    BY <1>4 DEF Feeding, SpongeFed
  <2> QED
    BY <1>6, <2>1, SpongeDigest
<1>11. hashing' = [len |-> n, done |-> TRUE, secp |-> sha256_finalize(a), gm |-> sm3_finish(b),
                   gm256 |-> sm3_finish(c), sponge |-> sha3_Finalize(d)]
  BY <1>5 DEF HashFinish, sha256_finish
<1>12. Digested(n)'
  BY <1>7, <1>8, <1>9, <1>10, <1>11 DEF Digested, Contexts
<1> QED
  BY <1>12 DEF HashInv

LEMMA InvDigest == HashInv => DigestOfMessage
<1> SUFFICES ASSUME HashInv, hashing.done
             PROVE  /\ hashing.secp = Padded80(hashing.len)
                    /\ hashing.gm = Padded80(hashing.len) /\ hashing.gm256 = hashing.gm
                    /\ hashing.sponge = Sponge10(hashing.len)
  BY DEF DigestOfMessage
<1>1. PICK n \in 0 .. MaxMessage : (\E a, b, c, d : Feeding(n, a, b, c, d)) \/ Digested(n)
  BY DEF HashInv
<1>2. ASSUME NEW a, NEW b, NEW c, NEW d, Feeding(n, a, b, c, d) PROVE FALSE
  BY <1>2, FeedingIs
<1>3. Digested(n)
  BY <1>1, <1>2
<1>4. PICK P, S : P = Padded80(n) /\ S = Sponge10(n) /\ hashing = Contexts(n, P, P, P, S, TRUE)
  BY <1>3, Zenon DEF Digested
<1>5. hashing.len = n /\ hashing.secp = P /\ hashing.gm = P /\ hashing.gm256 = P /\ hashing.sponge = S
  <2>1. hashing = Contexts(n, P, P, P, S, TRUE)
    BY <1>4
  <2> QED
    BY <2>1 DEF Contexts
<1> QED
  BY <1>4, <1>5

LEMMA NonceStep ==
  ASSUME NonceNext
  PROVE  NoncesDiffer'
<1>1. PICK a \in NonceInputs, b \in NonceInputs, i \in 0 .. 1, j \in 0 .. 1 :
        Call("nonce", <<a, i, b, j>>, <<nonce_function_rfc6979(a, i), nonce_function_rfc6979(b, j)>>)
  BY Zenon DEF NonceNext
<1>2. PICK x, y : x = nonce_function_rfc6979(a, i) /\ y = nonce_function_rfc6979(b, j)
  OBVIOUS
<1>3. last' = [op |-> "nonce", in |-> <<a, i, b, j>>, out |-> <<x, y>>]
  BY <1>1, <1>2 DEF Call
<1>4. x = y => a = b /\ i = j
  BY <1>2, NonceOne
<1> QED
  BY <1>3, <1>4 DEF NoncesDiffer, Of

\* Every digest is that of its own message padded once, however the message was cut into writes, and two signatures share a
\* nonce only if they sign the same with the same key, at the same attempt: for every size of block, word and rate, every
\* message that the two words of the length can count and every set of arguments of a nonce.
THEOREM HashesSoundHolds == HashesSpec => []HashesSound
<1>1. HashInit /\ CallInit => HashInv /\ NoncesDiffer
  <2>1. CallInit => NoncesDiffer
    BY DEF CallInit, NoCall, NoncesDiffer, Of
  <2> QED
    BY <2>1, HashStarts
<1>2. HashInv /\ NoncesDiffer /\ [(HashNext /\ UNCHANGED last) \/ (NonceNext /\ UNCHANGED hashing)]_<<hashing, last>>
        => HashInv' /\ NoncesDiffer'
  <2> SUFFICES ASSUME HashInv, NoncesDiffer,
                      [(HashNext /\ UNCHANGED last) \/ (NonceNext /\ UNCHANGED hashing)]_<<hashing, last>>
               PROVE  HashInv' /\ NoncesDiffer'
    OBVIOUS
  <2>1. ASSUME UNCHANGED last PROVE NoncesDiffer'
    BY <2>1 DEF NoncesDiffer, Of
  <2>2. ASSUME UNCHANGED hashing PROVE HashInv'
    BY <2>2 DEF HashInv, Feeding, Digested
  <2>3. CASE HashNext /\ UNCHANGED last
    <3>1. (\E m \in 0 .. MaxMessage : HashWrite(m)) \/ HashFinish
      BY <2>3 DEF HashNext
    <3>2. HashInv'
      BY <3>1, WriteStep, FinishStep
    <3> QED
      BY <2>1, <2>3, <3>2
  <2>4. CASE NonceNext /\ UNCHANGED hashing
    BY <2>2, <2>4, NonceStep
  <2>5. CASE UNCHANGED <<hashing, last>>
    BY <2>1, <2>2, <2>5
  <2> QED
    BY <2>3, <2>4, <2>5
<1>3. HashInv /\ NoncesDiffer => HashesSound
  BY InvDigest DEF HashesSound
<1> QED
  BY <1>1, <1>2, <1>3, PTL DEF HashesSpec
=============================================================================
