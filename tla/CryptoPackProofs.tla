-------------------------- MODULE CryptoPackProofs --------------------------
(***************************************************************************)
(* What TLAPS proves of the messages and the signatures that terminus and  *)
(* the enclaves exchange (CryptoPack), for any keys, texts and sizes of    *)
(* the parts of a message: a signature is accepted exactly for the consent *)
(* it was given for, and a sealed message is opened exactly by the key, in *)
(* the pack and for the purpose it was sealed for, if it arrived whole.    *)
(*                                                                         *)
(* A call starts from a fresh caller, so each theorem is a lemma about     *)
(* what the functions return.  The lemmas follow the bytes: what each part *)
(* of a buffer is, that the parts can be told from the whole, and that two *)
(* buffers are equal only when they were made alike.                       *)
(***************************************************************************)
EXTENDS CryptoPack, ListLemmas

-----------------------------------------------------------------------------
(* Sequences of bytes.                                                     *)

\* A sequence, of whatever elements.
IsSeq(s) == Len(s) \in Nat /\ s = [i \in 1 .. Len(s) |-> s[i]]

LEMMA TupleIs ==
  ASSUME NEW n \in Nat, NEW f, f = [i \in 1 .. n |-> f[i]]
  PROVE  IsSeq(Tuple(f)) /\ Len(Tuple(f)) = n /\ \A i \in 1 .. n : Tuple(f)[i] = f[i]
<1>1. Len(f) = n
  OBVIOUS
<1> QED
  BY <1>1 DEF Tuple, IsSeq

LEMMA IsSeqOf ==
  ASSUME NEW S, NEW s \in Seq(S)
  PROVE  IsSeq(s)
BY DEF IsSeq

LEMMA SeqOver ==
  ASSUME NEW s, IsSeq(s), NEW S, \A i \in 1 .. Len(s) : s[i] \in S
  PROVE  s \in Seq(S)
BY DEF IsSeq

LEMMA ConcatIs ==
  ASSUME NEW s, NEW t, IsSeq(s), IsSeq(t)
  PROVE  /\ IsSeq(s \o t) /\ Len(s \o t) = Len(s) + Len(t)
         /\ \A i \in 1 .. Len(s) : (s \o t)[i] = s[i]
         /\ \A i \in 1 .. Len(t) : (s \o t)[Len(s) + i] = t[i]
<1> DEFINE S == {s[i] : i \in 1 .. Len(s)} \cup {t[i] : i \in 1 .. Len(t)}
<1>1. s \in Seq(S) /\ t \in Seq(S)
  BY SeqOver
<1> HIDE DEF S
<1>2. s \o t \in Seq(S) /\ Len(s) \in Nat /\ Len(t) \in Nat
  BY <1>1
<1>3. Len(s \o t) = Len(s) + Len(t)
  BY <1>1
<1>4. ASSUME NEW i \in 1 .. Len(t) PROVE (s \o t)[Len(s) + i] = t[i]
  BY <1>1, <1>2, ConcatProperties
<1>5. ASSUME NEW i \in 1 .. Len(s) PROVE (s \o t)[i] = s[i]
  BY <1>1, <1>2, ConcatProperties
<1> QED
  BY <1>2, <1>3, <1>4, <1>5, IsSeqOf

LEMMA SeqsEqual ==
  ASSUME NEW s, NEW t, IsSeq(s), IsSeq(t), Len(s) = Len(t), \A i \in 1 .. Len(s) : s[i] = t[i]
  PROVE  s = t
BY DEF IsSeq

\* Two concatenations that begin with parts of one length are equal part by part.
LEMMA ConcatSame ==
  ASSUME NEW s, NEW t, NEW u, NEW v, IsSeq(s), IsSeq(t), IsSeq(u), IsSeq(v),
         Len(s) = Len(t), s \o u = t \o v
  PROVE  s = t /\ u = v
<1>0. Len(s) \in Nat /\ Len(u) \in Nat /\ Len(v) \in Nat
  BY DEF IsSeq
<1>1. Len(u) = Len(v)
  <2>1. Len(s \o u) = Len(s) + Len(u)
    BY ConcatIs
  <2>2. Len(t \o v) = Len(t) + Len(v)
    BY ConcatIs
  <2> QED
    BY <2>1, <2>2, <1>0
<1>2. \A i \in 1 .. Len(s) : s[i] = t[i]
  BY ConcatIs
<1>3. \A i \in 1 .. Len(u) : u[i] = v[i]
  <2> SUFFICES ASSUME NEW i \in 1 .. Len(u) PROVE u[i] = v[i]
    OBVIOUS
  <2>1. (s \o u)[Len(s) + i] = u[i]
    BY ConcatIs
  <2>2. i \in 1 .. Len(v) /\ (t \o v)[Len(t) + i] = v[i]
    BY ConcatIs, <1>1
  <2> QED
    BY <2>1, <2>2
<1> QED
  BY <1>1, <1>2, <1>3, SeqsEqual

-----------------------------------------------------------------------------
(* The parts of what is signed.                                            *)

LEMMA HashBytes ==
  ASSUME NEW alg, NEW msg
  PROVE  /\ IsSeq(HashOf(alg, msg)) /\ Len(HashOf(alg, msg)) = HashSize
         /\ \A i \in 1 .. HashSize : HashOf(alg, msg)[i] = [hash |-> alg, of |-> msg, at |-> i]
         /\ \A i \in 1 .. HashSize : "hash" \in DOMAIN HashOf(alg, msg)[i]
<1>1. HashSize \in Nat
  BY CryptoPackAssumption
<1> DEFINE f == [i \in 1 .. HashSize |-> [hash |-> alg, of |-> msg, at |-> i]]
<1>2. HashOf(alg, msg) = Tuple(f)
  BY DEF HashOf
<1>3. /\ f = [i \in 1 .. HashSize |-> f[i]]
      /\ \A i \in 1 .. HashSize : f[i] = [hash |-> alg, of |-> msg, at |-> i]
      /\ \A i \in 1 .. HashSize : "hash" \in DOMAIN f[i]
  OBVIOUS
<1> HIDE DEF f
<1> QED
  BY <1>1, <1>2, <1>3, TupleIs

\* A digest is that of one message.
LEMMA HashOne ==
  ASSUME NEW alg, NEW x, NEW y, HashOf(alg, x) = HashOf(alg, y)
  PROVE  x = y
<1>1. 1 \in 1 .. HashSize
  BY CryptoPackAssumption
<1>2. [hash |-> alg, of |-> x, at |-> 1] = [hash |-> alg, of |-> y, at |-> 1]
  BY <1>1, HashBytes
<1> QED
  BY <1>2

\* And so is the digest that a pack signs.
LEMMA DigestOne ==
  ASSUME NEW pack \in Packs, NEW x, NEW y, msg_hash(pack, x) = msg_hash(pack, y)
  PROVE  x = y
<1>1. CASE pack = "eth"
  <2>1. EthPrefix \o HashOf("keccak", x) = EthPrefix \o HashOf("keccak", y)
    BY <1>1, HashOne DEF msg_hash, eth_msg_hash, eth_hash_256
  <2>2. IsSeq(EthPrefix)
    BY DEF EthPrefix, IsSeq
  <2>3. IsSeq(HashOf("keccak", x)) /\ IsSeq(HashOf("keccak", y))
    BY HashBytes
  <2>4. HashOf("keccak", x) = HashOf("keccak", y)
    BY <2>1, <2>2, <2>3, ConcatSame
  <2> QED
    BY <2>4, HashOne
<1>2. CASE pack # "eth"
  BY <1>2, HashOne DEF msg_hash, sm3_hash_256
<1> QED
  BY <1>1, <1>2

LEMMA ReverseTyped ==
  ASSUME NEW S, NEW s \in Seq(S)
  PROVE  Reverse(s) \in Seq(S) /\ Len(Reverse(s)) = Len(s)
<1>1. Len(s) \in Nat
  OBVIOUS
<1>2. \A i \in 1 .. Len(s) : (Len(s) - i) + 1 \in 1 .. Len(s)
  BY <1>1
<1>3. \A i \in 1 .. Len(s) : s[(Len(s) - i) + 1] \in S
  BY <1>2
<1> QED
  BY <1>1, <1>3 DEF Reverse

\* Every byte of a public key says whose it is.
PkBytes(pack, k) == {[pk |-> k, pack |-> pack, at |-> j] : j \in 1 .. PkSize}

LEMMA KeyBytes ==
  ASSUME NEW pack \in Packs, NEW k
  PROVE  /\ generate_pkey_from_skey(pack, k) \in Seq(PkBytes(pack, k))
         /\ Len(generate_pkey_from_skey(pack, k)) = PkSize
<1> DEFINE f == [i \in 1 .. PkSize |-> [pk |-> k, pack |-> pack, at |-> i]]
           S == PkBytes(pack, k)
           lib == LibraryKey(pack, k)
           key == generate_pkey_from_skey(pack, k)
<1>1. PkSize \in Nat /\ PkSize % 2 = 0
  BY CryptoPackAssumption
<1>2. lib = Tuple(f)
  BY DEF LibraryKey
<1>3. f = [i \in 1 .. PkSize |-> f[i]] /\ \A i \in 1 .. PkSize : f[i] \in S
  BY DEF PkBytes
<1> HIDE DEF f, S
<1>4. IsSeq(lib) /\ Len(lib) = PkSize /\ lib \in Seq(S)
  BY <1>1, <1>2, <1>3, TupleIs, SeqOver
<1>5. CASE pack = "eth"
  <2> DEFINE half == PkSize \div 2
             a == SubSeq(lib, 1, half)
             b == SubSeq(lib, half + 1, PkSize)
  <2>1. key = Reverse(a) \o Reverse(b)
    BY <1>4, <1>5 DEF generate_pkey_from_skey, pubkey_endian
  <2>2. half \in Nat /\ half + half = PkSize
    BY <1>1
  <2> HIDE DEF half
  <2>3. a \in Seq(S) /\ Len(a) = half
    BY <1>1, <1>4, <2>2
  <2>4. b \in Seq(S) /\ Len(b) = half
    BY <1>1, <1>4, <2>2
  <2> HIDE DEF a, b
  <2>5. PICK ra \in Seq(S) : ra = Reverse(a) /\ Len(ra) = half
    BY <2>3, ReverseTyped
  <2>6. PICK rb \in Seq(S) : rb = Reverse(b) /\ Len(rb) = half
    BY <2>4, ReverseTyped
  <2>7. ra \o rb \in Seq(S) /\ Len(ra \o rb) = PkSize
    BY <2>2, <2>5, <2>6
  <2> QED
    BY <2>1, <2>5, <2>6, <2>7 DEF S
<1>6. CASE pack # "eth"
  BY <1>4, <1>6 DEF generate_pkey_from_skey, S
<1> QED
  BY <1>5, <1>6

\* A public key is that of one private key.
LEMMA KeyOne ==
  ASSUME NEW pack \in Packs, NEW k, NEW l,
         generate_pkey_from_skey(pack, k) = generate_pkey_from_skey(pack, l)
  PROVE  k = l
<1> DEFINE key == generate_pkey_from_skey(pack, k)
<1>1. PkSize \in Nat /\ 1 \in 1 .. PkSize
  BY CryptoPackAssumption
<1>2. key \in Seq(PkBytes(pack, k)) /\ key \in Seq(PkBytes(pack, l)) /\ Len(key) = PkSize
  BY KeyBytes
<1> HIDE DEF key
<1>3. key[1] \in PkBytes(pack, k) /\ key[1] \in PkBytes(pack, l)
  BY <1>1, <1>2
<1> QED
  BY <1>3 DEF PkBytes

LEMMA MeasureBytes ==
  ASSUME NEW h \in Hashes2
  PROVE  /\ IsSeq(h) /\ Len(h) = HashSize
         /\ \A i \in 1 .. HashSize : "pk" \notin DOMAIN h[i]
<1>1. HashSize \in Nat
  BY CryptoPackAssumption
<1>2. PICK m \in {1, 2} : h = Tuple([i \in 1 .. HashSize |-> [measure |-> m, at |-> i]])
  BY DEF Hashes2
<1> DEFINE f == [i \in 1 .. HashSize |-> [measure |-> m, at |-> i]]
<1>3. /\ f = [i \in 1 .. HashSize |-> f[i]] /\ h = Tuple(f)
      /\ \A i \in 1 .. HashSize : "pk" \notin DOMAIN f[i]
  BY <1>2
<1> HIDE DEF f
<1> QED
  BY <1>1, <1>3, TupleIs

LEMMA TextBytes ==
  ASSUME NEW m \in CpMessages
  PROVE  IsSeq(m)
<1>1. PICK t \in CpTexts : m = PlainBytes(t)
  BY DEF CpMessages
<1>2. t \in Seq(Nat) /\ Len(t) \in Nat /\ DOMAIN t = 1 .. Len(t)
  BY CryptoPackAssumption
<1> DEFINE f == [i \in 1 .. Len(t) |-> PlainByte(t[i])]
<1>3. m = Tuple(f) /\ f = [i \in 1 .. Len(t) |-> f[i]]
  BY <1>1, <1>2 DEF PlainBytes
<1> HIDE DEF f
<1> QED
  BY <1>2, <1>3, TupleIs

-----------------------------------------------------------------------------
(* What is signed says for what and for whom.                              *)

LEMMA ConsentParts ==
  ASSUME NEW pack \in Packs, NEW c \in Consents(pack)
  PROVE  /\ c.purpose \in {"allowance", "forward", "relay"}
         /\ IsSeq(c.param)
         /\ IsSeq(c.ehash) /\ Len(c.ehash) = HashSize
         /\ IsSeq(c.other) /\ Len(c.other) = HashSize
         /\ IsSeq(c.dian) /\ Len(c.dian) = PkSize
         /\ IsSeq(TargetKey(pack)) /\ Len(TargetKey(pack)) = PkSize
<1>1. /\ c.purpose \in {"allowance", "forward", "relay"} /\ c.param \in CpMessages
      /\ c.ehash \in Hashes2 /\ c.other \in Hashes2
      /\ c.dian \in {generate_pkey_from_skey(pack, k) : k \in CpKeys}
  BY DEF Consents
<1>2. PICK k \in CpKeys : c.dian = generate_pkey_from_skey(pack, k)
  BY <1>1
<1>3. IsSeq(c.dian) /\ Len(c.dian) = PkSize
  BY <1>2, KeyBytes, IsSeqOf
<1>4. IsSeq(TargetKey(pack)) /\ Len(TargetKey(pack)) = PkSize
  BY KeyBytes, IsSeqOf DEF TargetKey
<1> QED
  BY <1>1, <1>3, <1>4, TextBytes, MeasureBytes

\* Both sides put the same message together.
LEMMA SameMessage ==
  ASSUME NEW pack \in Packs, NEW skey, NEW c \in Consents(pack)
  PROVE  SignedBy(pack, skey, c) = [pack |-> pack, key |-> skey,
                                    digest |-> msg_hash(pack, CheckedData(pack, c))]
BY DEF SignedBy, CheckedData, generate_allowance, AllowanceData, forward_private_key, ForwardData,
       gen_relay_result_proof, RelayData, pack_sign_message

\* The first and the last byte tell the purposes apart.
LEMMA FirstOf ==
  ASSUME NEW s, NEW t, IsSeq(s), IsSeq(t), 1 \in 1 .. Len(s)
  PROVE  (s \o t)[1] = s[1] /\ 1 \in 1 .. Len(s \o t)
<1>1. Len(s) \in Nat /\ Len(t) \in Nat
  BY DEF IsSeq
<1> QED
  BY <1>1, ConcatIs

LEMMA LastOf ==
  ASSUME NEW s, NEW t, IsSeq(s), IsSeq(t), 1 \in 1 .. Len(t)
  PROVE  (s \o t)[Len(s \o t)] = t[Len(t)]
<1>1. Len(s) \in Nat /\ Len(t) \in Nat /\ Len(t) \in 1 .. Len(t)
  BY DEF IsSeq
<1> QED
  BY <1>1, ConcatIs

\* The end of a concatenation and what is before it, from its length.
Before(w, n) == SubSeq(w, 1, Len(w) - n)
Ending(w, n) == SubSeq(w, (Len(w) - n) + 1, Len(w))

LEMMA SplitEnd ==
  ASSUME NEW s, NEW t, IsSeq(s), IsSeq(t)
  PROVE  s = Before(s \o t, Len(t)) /\ t = Ending(s \o t, Len(t))
<1>1. PICK w : w = s \o t
  OBVIOUS
<1>2. PICK m \in Nat, n \in Nat : m = Len(s) /\ n = Len(t)
  BY DEF IsSeq
<1>3. /\ IsSeq(w) /\ Len(w) = m + n
      /\ \A i \in 1 .. m : w[i] = s[i]
      /\ \A i \in 1 .. n : w[m + i] = t[i]
  BY <1>1, <1>2, ConcatIs
<1>4. PICK S : w \in Seq(S)
  <2>1. \A i \in 1 .. Len(w) : w[i] \in {w[j] : j \in 1 .. Len(w)}
    OBVIOUS
  <2> QED
    BY <1>3, <2>1, SeqOver
<1>5. Len(w) - n = m /\ Len(w) = m + n
  BY <1>3
<1>6. s = SubSeq(w, 1, m)
  <2>1. SubSeq(w, 1, m) = [i \in 1 .. m |-> w[i]]
    BY <1>3, <1>4
  <2> QED
    BY <2>1, <1>2, <1>3 DEF IsSeq
<1>7. t = SubSeq(w, m + 1, m + n)
  <2>1. SubSeq(w, m + 1, m + n) = [i \in 1 .. n |-> w[m + i]]
    <3>1. SubSeq(w, m + 1, m + n) = [i \in 1 .. ((m + n) - (m + 1)) + 1 |-> w[((m + 1) + i) - 1]]
      BY <1>3, <1>4
    <3>2. ((m + n) - (m + 1)) + 1 = n /\ \A i \in 1 .. n : ((m + 1) + i) - 1 = m + i
      OBVIOUS
    <3> QED
      BY <3>1, <3>2
  <2> QED
    BY <2>1, <1>2, <1>3 DEF IsSeq
<1> QED
  BY <1>1, <1>2, <1>5, <1>6, <1>7 DEF Before, Ending

Cat(s, t) == s \o t

\* Messages with endings of one length are equal part by part.
LEMMA SameEnd ==
  ASSUME NEW s, NEW t, NEW u, NEW v, IsSeq(s), IsSeq(t), IsSeq(u), IsSeq(v),
         Len(u) = Len(v), Cat(s, u) = Cat(t, v)
  PROVE  s = t /\ u = v
<1>1. s = Before(Cat(s, u), Len(u)) /\ u = Ending(Cat(s, u), Len(u))
  BY SplitEnd DEF Cat
<1>2. t = Before(Cat(t, v), Len(v)) /\ v = Ending(Cat(t, v), Len(v))
  BY SplitEnd DEF Cat
<1> QED
  BY <1>1, <1>2

LEMMA AllowanceEnds ==
  ASSUME NEW pack \in Packs, NEW c \in Consents(pack), c.purpose = "allowance"
  PROVE  LET d == CheckedData(pack, c) IN
         "hash" \in DOMAIN d[1] /\ "pk" \notin DOMAIN d[Len(d)]
<1> DEFINE h == hash_256(pack, c.param)
<1>1. 1 \in 1 .. HashSize /\ HashSize \in 1 .. HashSize
  BY CryptoPackAssumption
<1>2. IsSeq(h) /\ Len(h) = HashSize /\ "hash" \in DOMAIN h[1]
  <2>1. h = HashOf("keccak", c.param) \/ h = HashOf("sm3", c.param)
    BY DEF hash_256, eth_hash_256, sm3_hash_256
  <2> QED
    BY <1>1, <2>1, HashBytes
<1>3. CheckedData(pack, c) = h \o c.ehash \o c.dian \o c.other
  BY DEF CheckedData, AllowanceData
<1> HIDE DEF h
<1>4. IsSeq(h \o c.ehash) /\ (h \o c.ehash)[1] = h[1] /\ 1 \in 1 .. Len(h \o c.ehash)
  BY <1>1, <1>2, ConsentParts, ConcatIs, FirstOf
<1> DEFINE b == h \o c.ehash \o c.dian
<1>5. IsSeq(b) /\ b[1] = h[1] /\ 1 \in 1 .. Len(b)
  BY <1>4, ConsentParts, ConcatIs, FirstOf
<1> HIDE DEF b
<1>6. (b \o c.other)[1] = h[1] /\ (b \o c.other)[Len(b \o c.other)] = c.other[HashSize]
  BY <1>1, <1>5, ConsentParts, FirstOf, LastOf
<1>7. "pk" \notin DOMAIN c.other[HashSize]
  <2>1. c.other \in Hashes2
    BY DEF Consents
  <2> QED
    BY <1>1, <2>1, MeasureBytes
<1> QED
  BY <1>2, <1>3, <1>6, <1>7 DEF b

LEMMA ForwardEnds ==
  ASSUME NEW pack \in Packs, NEW c \in Consents(pack), c.purpose = "forward"
  PROVE  LET d == CheckedData(pack, c) IN
         "hash" \notin DOMAIN d[1] /\ "pk" \notin DOMAIN d[Len(d)]
<1>1. /\ 1 \in 1 .. HashSize /\ HashSize \in 1 .. HashSize
      /\ PkSize \in Nat /\ 1 \in 1 .. PkSize
  BY CryptoPackAssumption
<1>2. CheckedData(pack, c) = c.dian \o c.ehash
  BY DEF CheckedData, ForwardData
<1>3. /\ c.ehash \in Hashes2
      /\ c.dian \in {generate_pkey_from_skey(pack, k) : k \in CpKeys}
  BY DEF Consents
<1>4. PICK k \in CpKeys : c.dian = generate_pkey_from_skey(pack, k)
  BY <1>3
<1>5. c.dian[1] \in PkBytes(pack, k)
  <2> DEFINE key == generate_pkey_from_skey(pack, k)
  <2>1. key \in Seq(PkBytes(pack, k)) /\ Len(key) = PkSize
    BY KeyBytes
  <2> HIDE DEF key
  <2>2. key[1] \in PkBytes(pack, k)
    BY <2>1, <1>1
  <2> QED
    BY <2>2, <1>4 DEF key
<1>6. "hash" \notin DOMAIN c.dian[1]
  BY <1>5 DEF PkBytes
<1>7. "pk" \notin DOMAIN c.ehash[HashSize]
  BY <1>1, <1>3, MeasureBytes
<1>8. /\ (c.dian \o c.ehash)[1] = c.dian[1]
      /\ (c.dian \o c.ehash)[Len(c.dian \o c.ehash)] = c.ehash[HashSize]
  <2>1. /\ IsSeq(c.dian) /\ Len(c.dian) = PkSize
        /\ IsSeq(c.ehash) /\ Len(c.ehash) = HashSize
    BY ConsentParts
  <2> QED
    BY <1>1, <2>1, FirstOf, LastOf
<1> QED
  BY <1>2, <1>6, <1>7, <1>8

LEMMA RelayEnd ==
  ASSUME NEW pack \in Packs, NEW c \in Consents(pack), c.purpose = "relay"
  PROVE  LET d == CheckedData(pack, c) IN "pk" \in DOMAIN d[Len(d)]
<1> DEFINE b == c.param \o c.ehash \o c.dian \o c.other
           t == TargetKey(pack)
<1>1. PkSize \in Nat /\ 1 \in 1 .. PkSize /\ PkSize \in 1 .. PkSize
  BY CryptoPackAssumption
<1>2. CheckedData(pack, c) = b \o t
  BY DEF CheckedData, RelayData
<1>3. IsSeq(b)
  BY ConsentParts, ConcatIs
<1>4. t \in Seq(PkBytes(pack, Ephemeral)) /\ Len(t) = PkSize /\ IsSeq(t)
  BY KeyBytes, IsSeqOf DEF TargetKey
<1> HIDE DEF b, t
<1>5. t[PkSize] \in PkBytes(pack, Ephemeral)
  BY <1>1, <1>4
<1>6. "pk" \in DOMAIN t[PkSize]
  BY <1>5 DEF PkBytes
<1>7. (b \o t)[Len(b \o t)] = t[PkSize]
  BY <1>1, <1>3, <1>4, LastOf
<1> QED
  BY <1>2, <1>6, <1>7

\* One message is that of one consent.
LEMMA DataOne ==
  ASSUME NEW pack \in Packs, NEW g \in Consents(pack), NEW u \in Consents(pack),
         CheckedData(pack, g) = CheckedData(pack, u)
  PROVE  /\ g.purpose = u.purpose
         /\ g.ehash = u.ehash /\ g.dian = u.dian
         /\ g.purpose # "forward" => g.param = u.param /\ g.other = u.other
<1>0. /\ IsSeq(g.ehash) /\ IsSeq(u.ehash) /\ Len(g.ehash) = Len(u.ehash)
      /\ IsSeq(g.other) /\ IsSeq(u.other) /\ Len(g.other) = Len(u.other)
      /\ IsSeq(g.dian) /\ IsSeq(u.dian) /\ Len(g.dian) = Len(u.dian)
  BY ConsentParts
<1>1. g.purpose = u.purpose
  BY AllowanceEnds, ForwardEnds, RelayEnd, ConsentParts
<1>2. CASE g.purpose = "forward"
  <2>1. Cat(g.dian, g.ehash) = Cat(u.dian, u.ehash)
    BY <1>1, <1>2 DEF CheckedData, ForwardData, Cat
  <2> QED
    BY <1>1, <1>2, <2>1, <1>0, SameEnd
<1>3. CASE g.purpose = "allowance"
  <2> DEFINE a(c) == Cat(hash_256(pack, c.param), c.ehash)
             b(c) == Cat(a(c), c.dian)
  <2>1. Cat(b(g), g.other) = Cat(b(u), u.other)
    BY <1>1, <1>3 DEF CheckedData, AllowanceData, Cat
  <2>2. IsSeq(hash_256(pack, g.param)) /\ IsSeq(hash_256(pack, u.param))
    BY HashBytes DEF hash_256, eth_hash_256, sm3_hash_256
  <2>3. IsSeq(a(g)) /\ IsSeq(a(u))
    BY <2>2, <1>0, ConcatIs DEF Cat
  <2> HIDE DEF a
  <2>4. IsSeq(b(g)) /\ IsSeq(b(u))
    BY <2>3, <1>0, ConcatIs DEF Cat
  <2> HIDE DEF b
  <2>5. g.other = u.other /\ b(g) = b(u)
    BY <2>1, <2>4, <1>0, SameEnd
  <2>6. g.dian = u.dian /\ a(g) = a(u)
    BY <2>3, <2>5, <1>0, SameEnd DEF b
  <2>7. g.ehash = u.ehash /\ hash_256(pack, g.param) = hash_256(pack, u.param)
    BY <2>2, <2>6, <1>0, SameEnd DEF a
  <2>8. g.param = u.param
    BY <2>7, HashOne DEF hash_256, eth_hash_256, sm3_hash_256
  <2> QED
    BY <1>1, <2>5, <2>6, <2>7, <2>8
<1>4. CASE g.purpose = "relay"
  <2> DEFINE a(c) == Cat(c.param, c.ehash)
             b(c) == Cat(a(c), c.dian)
             d(c) == Cat(b(c), c.other)
  <2>1. Cat(d(g), TargetKey(pack)) = Cat(d(u), TargetKey(pack))
    BY <1>1, <1>4 DEF CheckedData, RelayData, Cat
  <2>2. IsSeq(TargetKey(pack)) /\ IsSeq(g.param) /\ IsSeq(u.param)
    BY ConsentParts
  <2>3. IsSeq(a(g)) /\ IsSeq(a(u))
    BY <2>2, <1>0, ConcatIs DEF Cat
  <2> HIDE DEF a
  <2>4. IsSeq(b(g)) /\ IsSeq(b(u))
    BY <2>3, <1>0, ConcatIs DEF Cat
  <2> HIDE DEF b
  <2>5. IsSeq(d(g)) /\ IsSeq(d(u))
    BY <2>4, <1>0, ConcatIs DEF Cat
  <2> HIDE DEF d
  <2>6. d(g) = d(u)
    BY <2>1, <2>2, <2>5, SameEnd
  <2>7. g.other = u.other /\ b(g) = b(u)
    BY <2>4, <2>6, <1>0, SameEnd DEF d
  <2>8. g.dian = u.dian /\ a(g) = a(u)
    BY <2>3, <2>7, <1>0, SameEnd DEF b
  <2>9. g.ehash = u.ehash /\ g.param = u.param
    BY <2>2, <2>8, <1>0, SameEnd DEF a
  <2> QED
    BY <1>1, <2>7, <2>8, <2>9
<1> QED
  BY <1>2, <1>3, <1>4, ConsentParts

\* A signature is accepted for the consent it was given for and for no other.
LEMMA VerifiedExactly ==
  ASSUME NEW pack \in Packs, NEW signer \in CpKeys, NEW owner \in CpKeys,
         NEW g \in Consents(pack), NEW u \in Consents(pack)
  PROVE  pack_verify_signature(pack, CheckedData(pack, u), SignedBy(pack, signer, g),
                               generate_pkey_from_skey(pack, owner))
           <=> /\ signer = owner /\ g.purpose = u.purpose
               /\ g.ehash = u.ehash /\ g.dian = u.dian
               /\ g.purpose # "forward" => g.param = u.param /\ g.other = u.other
<1> DEFINE accepted == pack_verify_signature(pack, CheckedData(pack, u), SignedBy(pack, signer, g),
                                             generate_pkey_from_skey(pack, owner))
           same == /\ g.purpose = u.purpose
                   /\ g.ehash = u.ehash /\ g.dian = u.dian
                   /\ g.purpose # "forward" => g.param = u.param /\ g.other = u.other
<1>1. accepted <=> /\ msg_hash(pack, CheckedData(pack, g)) = msg_hash(pack, CheckedData(pack, u))
                   /\ generate_pkey_from_skey(pack, owner) = generate_pkey_from_skey(pack, signer)
  BY SameMessage DEF pack_verify_signature
<1>2. generate_pkey_from_skey(pack, owner) = generate_pkey_from_skey(pack, signer) <=> signer = owner
  BY KeyOne
<1>3. msg_hash(pack, CheckedData(pack, g)) = msg_hash(pack, CheckedData(pack, u))
        <=> CheckedData(pack, g) = CheckedData(pack, u)
  BY DigestOne
<1>4. CheckedData(pack, g) = CheckedData(pack, u) => same
  BY DataOne
<1>5. same => CheckedData(pack, g) = CheckedData(pack, u)
  BY ConsentParts DEF CheckedData, AllowanceData, ForwardData, RelayData
<1> QED
  BY <1>1, <1>2, <1>3, <1>4, <1>5

LEMMA ConsentStep == ConsentExact /\ [CryptoPackNext]_last => ConsentExact'
<1> SUFFICES ASSUME ConsentExact, [CryptoPackNext]_last PROVE ConsentExact'
  OBVIOUS
<1>1. CASE ConsentCheck
  <2> DEFINE Made(pack, signer, owner, g, u) ==
        [op |-> "consent", in |-> [given |-> g, used |-> u, signer |-> signer, owner |-> owner],
         out |-> pack_verify_signature(pack, CheckedData(pack, u), SignedBy(pack, signer, g),
                                       generate_pkey_from_skey(pack, owner))]
  <2>1. PICK pack \in Packs, signer \in CpKeys, owner \in CpKeys :
          \E g, u \in Consents(pack) : last' = Made(pack, signer, owner, g, u)
    BY <1>1 DEF ConsentCheck, Call
  <2>2. PICK g \in Consents(pack), u \in Consents(pack) : last' = Made(pack, signer, owner, g, u)
    BY <2>1
  <2> QED
    BY <2>2, VerifiedExactly DEF ConsentExact, Of
<1>2. CASE SealOpen \/ Delivered \/ CommandLine
  <2>1. last'.op # "consent"
    BY <1>2 DEF SealOpen, Delivered, CommandLine, Call
  <2> QED
    BY <2>1 DEF ConsentExact, Of
<1>3. CASE UNCHANGED last
  BY <1>3 DEF ConsentExact, Of
<1> QED
  BY <1>1, <1>2, <1>3 DEF CryptoPackNext

\* A signature that terminus makes (generate_allowance, forward_private_key,
\* gen_relay_result_proof) is accepted by the enclave that checks it exactly for the owner's
\* key, the purpose and every field it was given for.
THEOREM ConsentExactHolds == CryptoPackSpec => []ConsentExact
<1>1. CallInit => ConsentExact
  BY DEF CallInit, NoCall, ConsentExact, Of
<1> QED
  BY <1>1, ConsentStep, PTL DEF CryptoPackSpec

-----------------------------------------------------------------------------
(* Sizes of uint32_t.                                                      *)

Overhead == IvSize + PkSize + MacSize
Limit == 2^SizeBits

LEMMA SizesKnown ==
  /\ IvSize \in Nat /\ PkSize \in Nat /\ MacSize \in Nat /\ HashSize \in Nat
  /\ IvSize > 0 /\ PkSize > 0 /\ MacSize > 0 /\ HashSize > 0
  /\ Limit \in Nat /\ Overhead \in Nat /\ Overhead + 2 < Limit
BY CryptoPackAssumption DEF Limit, Overhead

LEMMA ModNat ==
  ASSUME NEW m \in Nat, NEW a \in Nat, a < m
  PROVE  a % m = a
OBVIOUS

LEMMA ModBelow ==
  ASSUME NEW m \in Nat, NEW a \in Int, a < 0, 0 <= a + m
  PROVE  a % m = a + m
<1>1. m > 0
  OBVIOUS
<1> QED
  BY <1>1

\* The size of the data in a message of n bytes: right for any that can hold the
\* overhead; for a shorter one it wraps around to more than the message has.
LEMMA DataSize ==
  ASSUME NEW n \in Nat, n < Limit
  PROVE  /\ n >= Overhead => get_decrypt_message_size_with_prefix(n) = n - Overhead
         /\ n < Overhead => get_decrypt_message_size_with_prefix(n) > n
<1>1. PICK m \in Nat, iv \in Nat, pk \in Nat, mac \in Nat :
         m = Limit /\ iv = IvSize /\ pk = PkSize /\ mac = MacSize /\ iv + pk + mac < m /\ n < m
  BY SizesKnown DEF Overhead
<1>2. get_decrypt_message_size_with_prefix(n) = (((n - iv) % m) - pk - mac) % m
  BY <1>1 DEF get_decrypt_message_size_with_prefix, get_data_size, Size, Limit
<1>3. CASE n >= iv
  <2>1. (n - iv) % m = n - iv
    BY <1>1, <1>3, ModNat
  <2>2. CASE n >= Overhead
    <3>1. n - iv - pk - mac \in Nat /\ n - iv - pk - mac < m
      BY <1>1, <2>2 DEF Overhead
    <3>2. (n - iv - pk - mac) % m = n - iv - pk - mac
      BY <3>1, <1>1, ModNat
    <3> QED
      BY <1>1, <1>2, <2>1, <2>2, <3>2 DEF Overhead
  <2>3. CASE n < Overhead
    <3>1. n - iv - pk - mac \in Int /\ n - iv - pk - mac < 0 /\ 0 <= (n - iv - pk - mac) + m
      BY <1>1, <2>3 DEF Overhead
    <3>2. (n - iv - pk - mac) % m = (n - iv - pk - mac) + m
      BY <3>1, <1>1, ModBelow
    <3>3. (n - iv - pk - mac) + m > n
      BY <1>1
    <3> QED
      BY <1>1, <1>2, <2>1, <2>3, <3>2, <3>3 DEF Overhead
  <2> QED
    BY <2>2, <2>3, SizesKnown
<1>4. CASE n < iv
  <2>1. (n - iv) % m = (n - iv) + m
    BY <1>1, <1>4, ModBelow
  <2>2. ((n - iv) + m) - pk - mac \in Nat /\ ((n - iv) + m) - pk - mac < m
    BY <1>1, <1>4
  <2>3. (((n - iv) + m) - pk - mac) % m = ((n - iv) + m) - pk - mac
    BY <2>2, <1>1, ModNat
  <2>4. ((n - iv) + m) - pk - mac > n /\ n < Overhead
    BY <1>1, <1>4 DEF Overhead
  <2> QED
    BY <1>1, <1>2, <2>1, <2>3, <2>4, SizesKnown
<1> QED
  BY <1>1, <1>3, <1>4

LEMMA CipherSizes ==
  ASSUME NEW n \in Nat, n < Limit, n >= Overhead
  PROVE  /\ get_cipher_size(n - Overhead) = n - PkSize - MacSize
         /\ get_encrypt_message_size_with_prefix(n - Overhead) = n
<1>1. PICK m \in Nat, iv \in Nat, pk \in Nat, mac \in Nat :
         m = Limit /\ iv = IvSize /\ pk = PkSize /\ mac = MacSize /\ iv + pk + mac < m /\ n < m
  BY SizesKnown DEF Overhead
<1>2. (n - Overhead) + iv = n - pk - mac /\ n - pk - mac \in Nat /\ n - pk - mac < m
  BY <1>1 DEF Overhead
<1>3. get_cipher_size(n - Overhead) = n - pk - mac
  BY <1>1, <1>2, ModNat DEF get_cipher_size, Size, Limit
<1>4. get_encrypt_message_size_with_prefix(n - Overhead) = ((n - pk - mac) + pk + mac) % m
  BY <1>1, <1>3 DEF get_encrypt_message_size_with_prefix, Size, Limit
<1>5. (n - pk - mac) + pk + mac = n
  BY <1>1
<1> QED
  BY <1>1, <1>3, <1>4, <1>5, ModNat

-----------------------------------------------------------------------------
(* Public keys as the libraries keep them.                                 *)

LEMMA SubSeqIs ==
  ASSUME NEW s, IsSeq(s), NEW m \in Nat, NEW n \in Nat, 1 <= m, m <= n + 1, n <= Len(s)
  PROVE  /\ IsSeq(SubSeq(s, m, n)) /\ Len(SubSeq(s, m, n)) = (n - m) + 1
         /\ \A i \in 1 .. (n - m) + 1 : SubSeq(s, m, n)[i] = s[(m + i) - 1]
<1>1. PICK S : s \in Seq(S)
  <2>1. \A i \in 1 .. Len(s) : s[i] \in {s[j] : j \in 1 .. Len(s)}
    OBVIOUS
  <2> QED
    BY <2>1, SeqOver
<1>2. Len(s) \in Nat /\ (n - m) + 1 \in Nat
  BY DEF IsSeq
<1>3. SubSeq(s, m, n) = [i \in 1 .. (n - m) + 1 |-> s[(m + i) - 1]]
  BY <1>1, <1>2
<1>4. Len(SubSeq(s, m, n)) = (n - m) + 1
  BY <1>2, <1>3
<1> QED
  BY <1>2, <1>3, <1>4 DEF IsSeq

LEMMA ReverseIs ==
  ASSUME NEW s, IsSeq(s)
  PROVE  /\ IsSeq(Reverse(s)) /\ Len(Reverse(s)) = Len(s)
         /\ \A i \in 1 .. Len(s) : Reverse(s)[i] = s[(Len(s) - i) + 1]
<1>1. Len(s) \in Nat
  BY DEF IsSeq
<1>2. Reverse(s) = [i \in 1 .. Len(s) |-> s[(Len(s) - i) + 1]]
  BY DEF Reverse
<1>3. Len(Reverse(s)) = Len(s)
  BY <1>1, <1>2
<1> QED
  BY <1>1, <1>2, <1>3 DEF IsSeq

Half == PkSize \div 2

LEMMA HalfIs == Half \in Nat /\ Half + Half = PkSize /\ PkSize \in Nat
<1>1. PkSize \in Nat /\ PkSize % 2 = 0
  BY CryptoPackAssumption
<1> QED
  BY <1>1 DEF Half

LEMMA EndianIs ==
  ASSUME NEW x, IsSeq(x), Len(x) = PkSize
  PROVE  /\ IsSeq(pubkey_endian(x)) /\ Len(pubkey_endian(x)) = PkSize
         /\ \A i \in 1 .. Half : pubkey_endian(x)[i] = x[(Half - i) + 1]
         /\ \A i \in 1 .. Half : pubkey_endian(x)[Half + i] = x[Half + ((Half - i) + 1)]
<1>1. PICK h \in Nat : h = Half /\ h + h = PkSize
  BY HalfIs
<1>2. PICK a : a = SubSeq(x, 1, h)
  OBVIOUS
<1>3. PICK b : b = SubSeq(x, h + 1, h + h)
  OBVIOUS
<1>4. pubkey_endian(x) = Reverse(a) \o Reverse(b)
  BY <1>1, <1>2, <1>3 DEF pubkey_endian, Half
<1>5. IsSeq(a) /\ Len(a) = h /\ \A i \in 1 .. h : a[i] = x[i]
  <2>1. (h - 1) + 1 = h /\ \A i \in 1 .. h : (1 + i) - 1 = i
    OBVIOUS
  <2>2. 1 <= h + 1 /\ h <= Len(x)
    BY <1>1
  <2> QED
    BY <1>2, <2>1, <2>2, SubSeqIs
<1>6. IsSeq(b) /\ Len(b) = h /\ \A i \in 1 .. h : b[i] = x[h + i]
  <2>1. ((h + h) - (h + 1)) + 1 = h /\ \A i \in 1 .. h : ((h + 1) + i) - 1 = h + i
    OBVIOUS
  <2>2. /\ 1 <= h + 1 /\ h + 1 <= (h + h) + 1 /\ h + h <= Len(x)
        /\ h + 1 \in Nat /\ h + h \in Nat
    BY <1>1
  <2> QED
    BY <1>3, <2>1, <2>2, SubSeqIs
<1>7. PICK ra : ra = Reverse(a)
  OBVIOUS
<1>8. PICK rb : rb = Reverse(b)
  OBVIOUS
<1>a. IsSeq(ra) /\ Len(ra) = h /\ \A i \in 1 .. h : ra[i] = a[(h - i) + 1]
  BY <1>5, <1>7, ReverseIs
<1>b. IsSeq(rb) /\ Len(rb) = h /\ \A i \in 1 .. h : rb[i] = b[(h - i) + 1]
  BY <1>6, <1>8, ReverseIs
<1>9. PICK y : y = ra \o rb
  OBVIOUS
<1>c. /\ IsSeq(y) /\ Len(y) = h + h
      /\ \A i \in 1 .. h : y[i] = ra[i]
      /\ \A i \in 1 .. h : y[h + i] = rb[i]
  <2>1. /\ IsSeq(ra \o rb) /\ Len(ra \o rb) = Len(ra) + Len(rb)
        /\ \A i \in 1 .. Len(ra) : (ra \o rb)[i] = ra[i]
        /\ \A i \in 1 .. Len(rb) : (ra \o rb)[Len(ra) + i] = rb[i]
    BY <1>a, <1>b, ConcatIs
  <2> QED
    BY <1>9, <1>a, <1>b, <2>1
<1>10. \A i \in 1 .. h : (h - i) + 1 \in 1 .. h
  OBVIOUS
<1>11. \A i \in 1 .. h : y[i] = x[(h - i) + 1] /\ y[h + i] = x[h + ((h - i) + 1)]
  BY <1>5, <1>6, <1>a, <1>b, <1>c, <1>10
<1> QED
  BY <1>1, <1>4, <1>7, <1>8, <1>9, <1>c, <1>11

\* Turned around twice, a key is what it was.
LEMMA EndianTwice ==
  ASSUME NEW x, IsSeq(x), Len(x) = PkSize
  PROVE  pubkey_endian(pubkey_endian(x)) = x
<1>1. PICK h \in Nat : h = Half /\ h + h = PkSize
  BY HalfIs
<1>2. PICK y : y = pubkey_endian(x)
  OBVIOUS
<1>3. PICK z : z = pubkey_endian(y)
  OBVIOUS
<1>4. /\ IsSeq(y) /\ Len(y) = PkSize
      /\ \A i \in 1 .. h : y[i] = x[(h - i) + 1]
      /\ \A i \in 1 .. h : y[h + i] = x[h + ((h - i) + 1)]
  BY <1>1, <1>2, EndianIs
<1>5. /\ IsSeq(z) /\ Len(z) = PkSize
      /\ \A i \in 1 .. h : z[i] = y[(h - i) + 1]
      /\ \A i \in 1 .. h : z[h + i] = y[h + ((h - i) + 1)]
  BY <1>1, <1>3, <1>4, EndianIs
<1>6. \A i \in 1 .. h : (h - i) + 1 \in 1 .. h /\ (h - ((h - i) + 1)) + 1 = i
  OBVIOUS
<1>7. \A i \in 1 .. h : z[i] = x[i] /\ z[h + i] = x[h + i]
  BY <1>4, <1>5, <1>6
<1>8. \A k \in 1 .. PkSize : z[k] = x[k]
  <2> SUFFICES ASSUME NEW k \in 1 .. PkSize PROVE z[k] = x[k]
    OBVIOUS
  <2>1. k \in Int /\ 1 <= k /\ k <= h + h
    BY <1>1, HalfIs
  <2>2. CASE k <= h
    BY <1>7, <2>1, <2>2
  <2>3. CASE k > h
    <3>1. k - h \in 1 .. h /\ h + (k - h) = k
      BY <2>1, <2>3
    <3> QED
      BY <1>7, <3>1
  <2> QED
    BY <2>1, <2>2, <2>3
<1>9. z = x
  BY <1>5, <1>8, SeqsEqual
<1> QED
  BY <1>2, <1>3, <1>9

\* The bytes that reach the library.
LibBytes(pack, pk) == IF pack = "eth" THEN pubkey_endian(pk) ELSE pk

LEMMA LibraryBytes ==
  ASSUME NEW pack, NEW k
  PROVE  /\ IsSeq(LibraryKey(pack, k)) /\ Len(LibraryKey(pack, k)) = PkSize
         /\ \A i \in 1 .. PkSize : LibraryKey(pack, k)[i] = [pk |-> k, pack |-> pack, at |-> i]
<1> DEFINE f == [i \in 1 .. PkSize |-> [pk |-> k, pack |-> pack, at |-> i]]
<1>1. LibraryKey(pack, k) = Tuple(f)
  BY DEF LibraryKey
<1>2. f = [i \in 1 .. PkSize |-> f[i]] /\ \A i \in 1 .. PkSize : f[i] = [pk |-> k, pack |-> pack, at |-> i]
  OBVIOUS
<1> HIDE DEF f
<1> QED
  BY <1>1, <1>2, HalfIs, TupleIs

LEMMA LibraryOne ==
  ASSUME NEW pack, NEW k, NEW l, LibraryKey(pack, k) = LibraryKey(pack, l)
  PROVE  k = l
<1>1. 1 \in 1 .. PkSize
  BY SizesKnown
<1>2. [pk |-> k, pack |-> pack, at |-> 1] = [pk |-> l, pack |-> pack, at |-> 1]
  BY <1>1, LibraryBytes
<1> QED
  BY <1>2

LEMMA LibraryGets ==
  ASSUME NEW pack \in Packs, NEW k
  PROVE  LibBytes(pack, generate_pkey_from_skey(pack, k)) = LibraryKey(pack, k)
BY LibraryBytes, EndianTwice DEF LibBytes, generate_pkey_from_skey

\* What is not a public key of the pack is none to the library either.
LEMMA LibraryOther ==
  ASSUME NEW pack \in Packs, NEW x, IsSeq(x), Len(x) = PkSize, NEW k,
         LibBytes(pack, x) = LibraryKey(pack, k)
  PROVE  x = generate_pkey_from_skey(pack, k)
<1>1. CASE pack = "eth"
  <2>1. x = pubkey_endian(pubkey_endian(x)) /\ pubkey_endian(x) = LibraryKey(pack, k)
    BY <1>1, EndianTwice DEF LibBytes
  <2> QED
    BY <1>1, <2>1 DEF generate_pkey_from_skey
<1>2. CASE pack # "eth"
  BY <1>2 DEF LibBytes, generate_pkey_from_skey
<1> QED
  BY <1>1, <1>2

-----------------------------------------------------------------------------
(* Shared keys.                                                            *)

LEMMA PlainIs ==
  ASSUME NEW s, IsSeq(s)
  PROVE  /\ IsSeq(PlainBytes(s)) /\ Len(PlainBytes(s)) = Len(s)
         /\ \A i \in 1 .. Len(s) : PlainBytes(s)[i] = PlainByte(s[i])
<1>1. Len(s) \in Nat /\ DOMAIN s = 1 .. Len(s)
  BY DEF IsSeq
<1> DEFINE f == [i \in 1 .. Len(s) |-> PlainByte(s[i])]
<1>2. PlainBytes(s) = Tuple(f) /\ f = [i \in 1 .. Len(s) |-> f[i]] /\ \A i \in 1 .. Len(s) : f[i] = PlainByte(s[i])
  BY <1>1 DEF PlainBytes
<1> HIDE DEF f
<1> QED
  BY <1>1, <1>2, TupleIs

LEMMA OnePlain == ASSUME NEW x PROVE PlainBytes(<<x>>) = <<PlainByte(x)>>
<1>1. IsSeq(<<x>>) /\ Len(<<x>>) = 1 /\ <<x>>[1] = x
  BY DEF IsSeq
<1>2. IsSeq(<<PlainByte(x)>>) /\ Len(<<PlainByte(x)>>) = 1 /\ <<PlainByte(x)>>[1] = PlainByte(x)
  BY DEF IsSeq
<1>3. \A i \in 1 .. 1 : i = 1
  OBVIOUS
<1> QED
  BY <1>1, <1>2, <1>3, PlainIs, SeqsEqual
LEMMA TwoPlain == ASSUME NEW x, NEW y PROVE PlainBytes(<<x, y>>) = <<PlainByte(x), PlainByte(y)>>
<1> DEFINE p == PlainBytes(<<x, y>>) 
           q == <<PlainByte(x), PlainByte(y)>>
<1>1. IsSeq(<<x, y>>) /\ Len(<<x, y>>) = 2 /\ <<x, y>>[1] = x /\ <<x, y>>[2] = y
  BY DEF IsSeq
<1>2. IsSeq(q) /\ Len(q) = 2 /\ q[1] = PlainByte(x) /\ q[2] = PlainByte(y)
  BY DEF IsSeq
<1>3. IsSeq(p) /\ Len(p) = 2 /\ p[1] = PlainByte(x) /\ p[2] = PlainByte(y)
  BY <1>1, PlainIs
<1> HIDE DEF p, q
<1>4. \A i \in 1 .. 2 : p[i] = q[i]
  BY <1>2, <1>3
<1> QED
  BY <1>2, <1>3, <1>4, SeqsEqual DEF p, q
LEMMA ConcatSeqs ==
  ASSUME NEW s, NEW t, NEW w, IsSeq(s), IsSeq(t), IsSeq(w), Len(w) = Len(s) + Len(t),
         \A i \in 1 .. Len(s) : w[i] = s[i], \A i \in 1 .. Len(t) : w[Len(s) + i] = t[i]
  PROVE  s \o t = w
<1>1. PICK m \in Nat, n \in Nat : m = Len(s) /\ n = Len(t)
  BY DEF IsSeq
<1>2. PICK v : v = s \o t
  OBVIOUS
<1>3. /\ IsSeq(v) /\ Len(v) = m + n
      /\ \A i \in 1 .. m : v[i] = s[i]
      /\ \A i \in 1 .. n : v[m + i] = t[i]
  BY <1>1, <1>2, ConcatIs
<1>4. \A i \in 1 .. m + n : v[i] = w[i]
  <2> SUFFICES ASSUME NEW i \in 1 .. m + n PROVE v[i] = w[i]
    OBVIOUS
  <2>1. CASE i <= m
    BY <1>1, <1>3, <2>1
  <2>2. CASE i > m
    <3>1. i - m \in 1 .. n /\ m + (i - m) = i
      BY <2>2
    <3> QED
      BY <1>1, <1>3, <3>1
  <2> QED
    BY <2>1, <2>2
<1> QED
  BY <1>1, <1>2, <1>3, <1>4, SeqsEqual

LEMMA FiveBytes ==
  ASSUME NEW a, NEW b, NEW c, NEW d, NEW e
  PROVE  <<a>> \o <<b>> \o <<c>> \o <<d, e>> = <<a, b, c, d, e>>
<1>0. (\A i \in 1 .. 1 : i = 1) /\ (\A i \in 1 .. 2 : i = 1 \/ i = 2) /\ (\A i \in 1 .. 3 : i = 1 \/ i = 2 \/ i = 3)
  OBVIOUS
<1>1. PICK s1 : s1 = <<a>>
  OBVIOUS
<1>2. PICK s2 : s2 = <<b>>
  OBVIOUS
<1>3. PICK s3 : s3 = <<c>>
  OBVIOUS
<1>4. PICK s4 : s4 = <<d, e>>
  OBVIOUS
<1>5. PICK s12 : s12 = <<a, b>>
  OBVIOUS
<1>6. PICK s13 : s13 = <<a, b, c>>
  OBVIOUS
<1>7. PICK s14 : s14 = <<a, b, c, d, e>>
  OBVIOUS
<1>11. IsSeq(s1) /\ Len(s1) = 1 /\ s1[1] = a
  BY <1>1 DEF IsSeq
<1>12. IsSeq(s2) /\ Len(s2) = 1 /\ s2[1] = b
  BY <1>2 DEF IsSeq
<1>13. IsSeq(s3) /\ Len(s3) = 1 /\ s3[1] = c
  BY <1>3 DEF IsSeq
<1>14. IsSeq(s4) /\ Len(s4) = 2 /\ s4[1] = d /\ s4[2] = e
  BY <1>4 DEF IsSeq
<1>15. IsSeq(s12) /\ Len(s12) = 2 /\ s12[1] = a /\ s12[2] = b
  BY <1>5 DEF IsSeq
<1>16. IsSeq(s13) /\ Len(s13) = 3 /\ s13[1] = a /\ s13[2] = b /\ s13[3] = c
  BY <1>6 DEF IsSeq
<1>17. IsSeq(s14) /\ Len(s14) = 5 /\ s14[1] = a /\ s14[2] = b /\ s14[3] = c /\ s14[4] = d /\ s14[5] = e
  BY <1>7 DEF IsSeq
<1>21. s1 \o s2 = s12
  <2>1. /\ Len(s12) = Len(s1) + Len(s2) /\ \A i \in 1 .. Len(s1) : s12[i] = s1[i]
        /\ \A i \in 1 .. Len(s2) : s12[Len(s1) + i] = s2[i]
    BY <1>0, <1>11, <1>12, <1>15
  <2> QED
    BY <1>11, <1>12, <1>15, <2>1, ConcatSeqs
<1>22. s12 \o s3 = s13
  <2>1. /\ Len(s13) = Len(s12) + Len(s3) /\ \A i \in 1 .. Len(s12) : s13[i] = s12[i]
        /\ \A i \in 1 .. Len(s3) : s13[Len(s12) + i] = s3[i]
    BY <1>0, <1>15, <1>13, <1>16
  <2> QED
    BY <1>15, <1>13, <1>16, <2>1, ConcatSeqs
<1>23. s13 \o s4 = s14
  <2>1. /\ Len(s14) = Len(s13) + Len(s4) /\ \A i \in 1 .. Len(s13) : s14[i] = s13[i]
        /\ \A i \in 1 .. Len(s4) : s14[Len(s13) + i] = s4[i]
    BY <1>0, <1>16, <1>14, <1>17
  <2> QED
    BY <1>16, <1>14, <1>17, <2>1, ConcatSeqs
<1> QED
  BY <1>1, <1>2, <1>3, <1>4, <1>5, <1>6, <1>7, <1>21, <1>22, <1>23

\* The host and the enclave derive the same key, each from a buffer of its own making.
LEMMA SidesAgree ==
  ASSUME NEW shared
  PROVE  derive_key(shared, Label) = derive_key_t(shared, Label)
<1> DEFINE P(n) == PlainByte(n)
           host == <<P(1), P(90), P(0), P(128), P(0)>>
           f == [i \in 1 .. 5 |-> CASE i = 1 -> P(1) [] i - 1 \in DOMAIN <<P(90)>> -> <<P(90)>>[i - 1]
                                    [] i = 4 -> P(128) [] OTHER -> P(0)]
<1>1. Label = <<P(90)>> /\ Len(Label) + 4 = 5
  <2>1. Len(<<P(90)>>) + 4 = 5
    OBVIOUS
  <2> QED
    BY <2>1, OnePlain DEF Label
<1>2. DerivationBuffer(Label) = <<P(1)>> \o <<P(90)>> \o <<P(0)>> \o <<P(128), P(0)>>
  BY <1>1, OnePlain, TwoPlain DEF DerivationBuffer
<1>3. derive_key_t(shared, Label) = Cmac(Cmac(StaticKey, shared), Tuple(f))
  BY <1>1 DEF derive_key_t
<1> HIDE DEF P
<1>4. DerivationBuffer(Label) = host
  BY <1>2, FiveBytes
<1>5. /\ f = [i \in 1 .. 5 |-> f[i]]
      /\ f[1] = P(1) /\ f[2] = P(90) /\ f[3] = P(0) /\ f[4] = P(128) /\ f[5] = P(0)
  OBVIOUS
<1> HIDE DEF f
<1>6. IsSeq(Tuple(f)) /\ Len(Tuple(f)) = 5 /\ \A i \in 1 .. 5 : Tuple(f)[i] = f[i]
  <2>1. PICK n \in Nat : n = 5
    OBVIOUS
  <2>2. f = [i \in 1 .. n |-> f[i]]
    BY <1>5, <2>1
  <2>3. IsSeq(Tuple(f)) /\ Len(Tuple(f)) = n /\ \A i \in 1 .. n : Tuple(f)[i] = f[i]
    BY <2>2, TupleIs
  <2> QED
    BY <2>1, <2>3
<1>7. IsSeq(host) /\ Len(host) = 5 /\ \A i \in 1 .. 5 : host[i] = f[i]
  BY <1>5 DEF IsSeq
<1>8. Tuple(f) = host
  BY <1>6, <1>7, SeqsEqual
<1> QED
  BY <1>3, <1>4, <1>8 DEF derive_key

KeyOf(pack, point) ==
  IF pack = "eth" THEN derive_key(sha256_msg(<<point>>), Label)
  ELSE Cmac(StaticKey, sm3_hash_256(<<point>>))

LEMMA SharedIs ==
  ASSUME NEW pack \in Packs, NEW side, NEW skey, NEW pk, Len(pk) = PkSize
  PROVE  ecdh_shared_key(pack, side, skey, pk)
           = [ret |-> "success", key |-> KeyOf(pack, DhPoint(pack, skey, LibBytes(pack, pk)))]
<1> DEFINE point == DhPoint(pack, skey, LibBytes(pack, pk))
<1>1. CASE pack = "eth"
  <2>1. ecdh_eth(side, skey, pk) = KeyOf(pack, point)
    BY <1>1, SidesAgree DEF ecdh_eth, ecdh_hash_function_sha256, KeyOf, LibBytes
  <2> QED
    BY <1>1, <2>1 DEF ecdh_shared_key
<1>2. CASE pack # "eth"
  <2>1. ecdh_gm(skey, pk) = KeyOf(pack, point) /\ pack = "gm"
    BY <1>2 DEF ecdh_gm, KeyOf, LibBytes, Packs
  <2> QED
    BY <1>2, <2>1 DEF ecdh_shared_key
<1> QED
  BY <1>1, <1>2

LEMMA KeyOfOne ==
  ASSUME NEW p \in Packs, NEW q \in Packs, NEW x, NEW y, KeyOf(p, x) = KeyOf(q, y)
  PROVE  p = q /\ x = y
<1>1. p = q
  BY DEF KeyOf, derive_key, Cmac, StaticKey, PlainByte, Packs
<1>2. CASE p = "eth"
  <2>1. Cmac(StaticKey, sha256_msg(<<x>>)) = Cmac(StaticKey, sha256_msg(<<y>>))
    BY <1>1, <1>2 DEF KeyOf, derive_key, Cmac
  <2>2. HashOf("sha256", <<x>>) = HashOf("sha256", <<y>>)
    BY <2>1 DEF Cmac, sha256_msg
  <2>3. <<x>> = <<y>>
    BY <2>2, HashOne
  <2> QED
    BY <1>1, <2>3
<1>3. CASE p # "eth"
  <2>1. HashOf("sm3", <<x>>) = HashOf("sm3", <<y>>)
    BY <1>1, <1>3 DEF KeyOf, Cmac, sm3_hash_256
  <2>2. <<x>> = <<y>>
    BY <2>1, HashOne
  <2> QED
    BY <1>1, <2>2
<1> QED
  BY <1>2, <1>3

\* The key that seals with a drawn key is the key that opens exactly when the message was
\* sealed for the opener and the drawn key's public half arrived.
LEMMA KeysAgree ==
  ASSUME NEW p \in Packs, NEW q \in Packs, NEW l \in CpKeys,
         NEW x, IsSeq(x), Len(x) = PkSize, NEW y, IsSeq(y), Len(y) = PkSize
  PROVE  KeyOf(p, DhPoint(p, Ephemeral, LibBytes(p, x))) = KeyOf(q, DhPoint(q, l, LibBytes(q, y)))
           <=> /\ p = q /\ x = generate_pkey_from_skey(p, l)
               /\ y = generate_pkey_from_skey(p, Ephemeral)
<1> DEFINE K == CpKeys \cup {Ephemeral}
           Known(r, bytes) == {k \in K : bytes = LibraryKey(r, k)}
           sealing == DhPoint(p, Ephemeral, LibBytes(p, x))
           opening == DhPoint(q, l, LibBytes(q, y))
<1>0. l # Ephemeral /\ l \in K /\ Ephemeral \in K
  BY CryptoPackAssumption DEF Ephemeral
<1>1. /\ sealing = [dh |-> p, keys |-> {Ephemeral} \cup Known(p, LibBytes(p, x)),
                    by |-> IF Known(p, LibBytes(p, x)) = {} THEN LibBytes(p, x) ELSE << >>]
      /\ opening = [dh |-> q, keys |-> {l} \cup Known(q, LibBytes(q, y)),
                    by |-> IF Known(q, LibBytes(q, y)) = {} THEN LibBytes(q, y) ELSE << >>]
  BY DEF DhPoint
<1>2. ASSUME KeyOf(p, sealing) = KeyOf(q, opening)
      PROVE  /\ p = q /\ x = generate_pkey_from_skey(p, l)
             /\ y = generate_pkey_from_skey(p, Ephemeral)
  <2> HIDE DEF sealing, opening
  <2>1. p = q /\ sealing = opening
    BY <1>2, KeyOfOne
  <2>2. {Ephemeral} \cup Known(p, LibBytes(p, x)) = {l} \cup Known(q, LibBytes(q, y))
    BY <1>1, <2>1
  <2>3. LibBytes(p, x) = LibraryKey(p, l)
    BY <1>0, <2>2
  <2>4. LibBytes(p, y) = LibraryKey(p, Ephemeral)
    BY <1>0, <2>1, <2>2
  <2> QED
    BY <2>1, <2>3, <2>4, LibraryOther
<1>3. ASSUME p = q, x = generate_pkey_from_skey(p, l), y = generate_pkey_from_skey(p, Ephemeral)
      PROVE  KeyOf(p, sealing) = KeyOf(q, opening)
  <2>1. LibBytes(p, x) = LibraryKey(p, l) /\ LibBytes(p, y) = LibraryKey(p, Ephemeral)
    BY <1>3, LibraryGets
  <2>2. Known(p, LibBytes(p, x)) = {l} /\ Known(p, LibBytes(p, y)) = {Ephemeral}
    BY <2>1, <1>0, LibraryOne
  <2> HIDE DEF sealing, opening, Known
  <2>3. sealing = opening
    <3>1. {Ephemeral} \cup {l} = {l} \cup {Ephemeral} /\ {l} # {} /\ {Ephemeral} # {}
      OBVIOUS
    <3> QED
      BY <1>1, <1>3, <2>2, <3>1
  <2> QED
    BY <1>3, <2>3
<1> QED
  BY <1>2, <1>3

LEMMA CatIs ==
  ASSUME NEW s, NEW t, IsSeq(s), IsSeq(t)
  PROVE  /\ IsSeq(Cat(s, t)) /\ Len(Cat(s, t)) = Len(s) + Len(t)
         /\ \A i \in 1 .. Len(s) : Cat(s, t)[i] = s[i]
         /\ \A i \in 1 .. Len(t) : Cat(s, t)[Len(s) + i] = t[i]
BY ConcatIs DEF Cat

-----------------------------------------------------------------------------
(* A sealed message: data, iv, public key, tag.                            *)

LEMMA TagBytes ==
  ASSUME NEW k, NEW iv, NEW aad, NEW c
  PROVE  /\ IsSeq(GcmTag(k, iv, aad, c)) /\ Len(GcmTag(k, iv, aad, c)) = MacSize
         /\ \A i \in 1 .. MacSize :
              GcmTag(k, iv, aad, c)[i] = [tag |-> k, iv |-> iv, aad |-> aad, over |-> c, at |-> i]
<1> DEFINE f == [i \in 1 .. MacSize |-> [tag |-> k, iv |-> iv, aad |-> aad, over |-> c, at |-> i]]
<1>1. GcmTag(k, iv, aad, c) = Tuple(f)
  BY DEF GcmTag
<1>2. /\ f = [i \in 1 .. MacSize |-> f[i]]
      /\ \A i \in 1 .. MacSize : f[i] = [tag |-> k, iv |-> iv, aad |-> aad, over |-> c, at |-> i]
  OBVIOUS
<1> HIDE DEF f
<1> QED
  BY <1>1, <1>2, SizesKnown, TupleIs

\* A tag is that of one key, iv, purpose and cipher text.
LEMMA TagOne ==
  ASSUME NEW k, NEW iv, NEW aad, NEW c, NEW k2, NEW iv2, NEW aad2, NEW c2,
         GcmTag(k, iv, aad, c) = GcmTag(k2, iv2, aad2, c2)
  PROVE  k = k2 /\ iv = iv2 /\ aad = aad2 /\ c = c2
<1>1. 1 \in 1 .. MacSize
  BY SizesKnown
<1>2. [tag |-> k, iv |-> iv, aad |-> aad, over |-> c, at |-> 1]
        = [tag |-> k2, iv |-> iv2, aad |-> aad2, over |-> c2, at |-> 1]
  BY <1>1, TagBytes
<1> QED
  BY <1>2

LEMMA StreamBytes ==
  ASSUME NEW k, NEW iv, NEW text, IsSeq(text)
  PROVE  /\ IsSeq(GcmStream(k, iv, text)) /\ Len(GcmStream(k, iv, text)) = Len(text)
         /\ \A i \in 1 .. Len(text) :
              GcmStream(k, iv, text)[i] = [c |-> text[i], key |-> k, iv |-> iv, at |-> i]
<1> DEFINE f == [i \in 1 .. Len(text) |-> [c |-> text[i], key |-> k, iv |-> iv, at |-> i]]
<1>0. Len(text) \in Nat /\ DOMAIN text = 1 .. Len(text)
  BY DEF IsSeq
<1>1. GcmStream(k, iv, text) = Tuple(f)
  BY <1>0 DEF GcmStream
<1>2. /\ f = [i \in 1 .. Len(text) |-> f[i]]
      /\ \A i \in 1 .. Len(text) : f[i] = [c |-> text[i], key |-> k, iv |-> iv, at |-> i]
  OBVIOUS
<1> HIDE DEF f
<1> QED
  BY <1>0, <1>1, <1>2, TupleIs

\* The additional data say for which purpose a message was sealed.
LEMMA MacTextOne ==
  ASSUME NEW x \in CpPrefixes, NEW y \in CpPrefixes, MacText(x) = MacText(y)
  PROVE  x = y
<1>1. PICK n \in Nat, p \in Nat : n = AadSize /\ p = PrefixPos + 1 /\ p \in 1 .. n
  BY CryptoPackAssumption
<1> DEFINE f(z) == [i \in 1 .. n |-> IF i = p THEN z ELSE IF i <= PrefixPos THEN 90 ELSE 0]
<1>2. \A z : MacText(z) = PlainBytes(f(z))
  BY <1>1 DEF MacText
<1>3. \A z : IsSeq(f(z)) /\ Len(f(z)) = n /\ f(z)[p] = z
  BY <1>1 DEF IsSeq
<1> HIDE DEF f
<1>4. \A z : MacText(z)[p] = PlainByte(z)
  BY <1>1, <1>2, <1>3, PlainIs
<1>5. PlainByte(x) = PlainByte(y)
  BY <1>4
<1> QED
  BY <1>5 DEF PlainByte

\* The message sealed with the key k.
Message(p, k, prefix, iv, text) ==
  GcmStream(k, iv, text) \o iv \o generate_pkey_from_skey(p, Ephemeral)
    \o GcmTag(k, iv, MacText(prefix), GcmStream(k, iv, text))

\* What can be sealed: a text whose message has a size, under an iv of random bytes.
Sealable(iv, text) ==
  /\ IsSeq(text) /\ Len(text) + Overhead < Limit
  /\ IsSeq(iv) /\ Len(iv) = IvSize /\ \A i \in 1 .. IvSize : iv[i] = [rnd |-> i]

\* The key of one that seals for the public key x, and of one that opens with the private
\* key l what came with the public key y.
SealingKey(p, x) == KeyOf(p, DhPoint(p, Ephemeral, LibBytes(p, x)))
OpeningKey(q, l, y) == KeyOf(q, DhPoint(q, l, LibBytes(q, y)))

\* What sealing returns.
LEMMA SealedIs ==
  ASSUME NEW p \in Packs, NEW side, NEW x, NEW text, NEW prefix, NEW random
  PROVE  /\ Len(x) = PkSize /\ ~random.failed =>
              encrypt_message_with_prefix(p, side, x, text, prefix, Ephemeral, random)
                = [ret |-> "success", cipher |-> Message(p, SealingKey(p, x), prefix, random.iv, text)]
         /\ Len(x) = PkSize /\ random.failed =>
              encrypt_message_with_prefix(p, side, x, text, prefix, Ephemeral, random)
                = [ret |-> "aes_rand_fail", cipher |-> << >>]
         /\ Len(x) # PkSize =>
              encrypt_message_with_prefix(p, side, x, text, prefix, Ephemeral, random)
                = [ret |-> "ecc_invalid_pkey_size", cipher |-> << >>]
<1>1. ASSUME Len(x) = PkSize
      PROVE  ecdh_shared_key(p, side, Ephemeral, x) = [ret |-> "success", key |-> SealingKey(p, x)]
  BY <1>1, SharedIs DEF SealingKey
<1>2. ASSUME Len(x) # PkSize
      PROVE  ecdh_shared_key(p, side, Ephemeral, x).ret = "ecc_invalid_pkey_size"
  BY <1>2 DEF ecdh_shared_key
<1>3. \A k : encrypt_with_prefix(p, k, text, prefix, random) =
        IF random.failed THEN [ret |-> "aes_rand_fail", out |-> << >>, mac |-> << >>]
        ELSE [ret |-> "success", out |-> GcmStream(k, random.iv, text) \o random.iv,
              mac |-> GcmTag(k, random.iv, MacText(prefix), GcmStream(k, random.iv, text))]
  BY DEF encrypt_with_prefix, rijndael_encrypt, sm4_encrypt_prefixed
<1>4. CASE Len(x) = PkSize /\ ~random.failed
  <2>1. PICK k : k = SealingKey(p, x)
    OBVIOUS
  <2>2. /\ ecdh_shared_key(p, side, Ephemeral, x).ret = "success"
        /\ ecdh_shared_key(p, side, Ephemeral, x).key = k
    BY <1>1, <1>4, <2>1
  <2> DEFINE sealed == encrypt_with_prefix(p, k, text, prefix, random)
  <2>3. /\ sealed.ret = "success" /\ sealed.out = GcmStream(k, random.iv, text) \o random.iv
        /\ sealed.mac = GcmTag(k, random.iv, MacText(prefix), GcmStream(k, random.iv, text))
    <3>1. sealed = [ret |-> "success", out |-> GcmStream(k, random.iv, text) \o random.iv,
                    mac |-> GcmTag(k, random.iv, MacText(prefix), GcmStream(k, random.iv, text))]
      BY <1>3, <1>4
    <3> HIDE DEF sealed
    <3> QED
      BY <3>1
  <2>4. encrypt_message_with_prefix(p, side, x, text, prefix, Ephemeral, random)
          = [ret |-> "success", cipher |-> sealed.out \o generate_pkey_from_skey(p, Ephemeral) \o sealed.mac]
    BY <2>2, <2>3 DEF encrypt_message_with_prefix
  <2> QED
    BY <1>4, <2>1, <2>3, <2>4 DEF Message
<1>5. CASE Len(x) = PkSize /\ random.failed
  BY <1>1, <1>3, <1>5 DEF encrypt_message_with_prefix
<1>6. CASE Len(x) # PkSize
  BY <1>2, <1>6 DEF encrypt_message_with_prefix
<1> QED
  BY <1>4, <1>5, <1>6

\* Where the parts of a message are.
LEMMA Layout ==
  ASSUME NEW p \in Packs, NEW k, NEW prefix, NEW iv, NEW text, Sealable(iv, text),
         NEW m, m = Message(p, k, prefix, iv, text), NEW t \in Nat, t = Len(text)
  PROVE  /\ IsSeq(m) /\ Len(m) = t + IvSize + PkSize + MacSize
         /\ \A i \in 1 .. t : m[i] = GcmStream(k, iv, text)[i]
         /\ \A i \in 1 .. IvSize : m[t + i] = iv[i]
         /\ \A i \in 1 .. PkSize : m[t + IvSize + i] = generate_pkey_from_skey(p, Ephemeral)[i]
         /\ \A i \in 1 .. MacSize : m[t + IvSize + PkSize + i]
              = GcmTag(k, iv, MacText(prefix), GcmStream(k, iv, text))[i]
<1>1. PICK a, c, d : /\ a = GcmStream(k, iv, text) /\ c = generate_pkey_from_skey(p, Ephemeral)
                     /\ d = GcmTag(k, iv, MacText(prefix), GcmStream(k, iv, text))
  OBVIOUS
<1>2. PICK v \in Nat, y \in Nat, z \in Nat : v = IvSize /\ y = PkSize /\ z = MacSize
  BY SizesKnown
<1>3. IsSeq(a) /\ Len(a) = t
  BY <1>1, StreamBytes DEF Sealable
<1>4. IsSeq(iv) /\ Len(iv) = v
  BY <1>2 DEF Sealable
<1>5. IsSeq(c) /\ Len(c) = y
  BY <1>1, <1>2, KeyBytes, IsSeqOf
<1>6. IsSeq(d) /\ Len(d) = z
  BY <1>1, <1>2, TagBytes
<1>7. PICK e : e = Cat(a, iv)
  OBVIOUS
<1>8. PICK f : f = Cat(e, c)
  OBVIOUS
<1>9. m = Cat(f, d)
  BY <1>1, <1>7, <1>8 DEF Message, Cat
<1>10. /\ IsSeq(e) /\ Len(e) = t + v
       /\ \A i \in 1 .. t : e[i] = a[i]
       /\ \A i \in 1 .. v : e[t + i] = iv[i]
  <2>1. /\ IsSeq(Cat(a, iv)) /\ Len(Cat(a, iv)) = Len(a) + Len(iv)
        /\ \A i \in 1 .. Len(a) : Cat(a, iv)[i] = a[i]
        /\ \A i \in 1 .. Len(iv) : Cat(a, iv)[Len(a) + i] = iv[i]
    BY <1>3, <1>4, CatIs
  <2> QED
    BY <1>3, <1>4, <1>7, <2>1
<1>11. /\ IsSeq(f) /\ Len(f) = (t + v) + y
       /\ \A i \in 1 .. t + v : f[i] = e[i]
       /\ \A i \in 1 .. y : f[(t + v) + i] = c[i]
  <2>0. IsSeq(e) /\ IsSeq(c)
    BY <1>5, <1>10
  <2>1. /\ IsSeq(Cat(e, c)) /\ Len(Cat(e, c)) = Len(e) + Len(c)
        /\ \A i \in 1 .. Len(e) : Cat(e, c)[i] = e[i]
        /\ \A i \in 1 .. Len(c) : Cat(e, c)[Len(e) + i] = c[i]
    BY <2>0, CatIs
  <2> QED
    BY <1>5, <1>8, <1>10, <2>1
<1>12. /\ IsSeq(m) /\ Len(m) = ((t + v) + y) + z
       /\ \A i \in 1 .. (t + v) + y : m[i] = f[i]
       /\ \A i \in 1 .. z : m[((t + v) + y) + i] = d[i]
  <2>0. IsSeq(f) /\ IsSeq(d)
    BY <1>6, <1>11
  <2>1. /\ IsSeq(Cat(f, d)) /\ Len(Cat(f, d)) = Len(f) + Len(d)
        /\ \A i \in 1 .. Len(f) : Cat(f, d)[i] = f[i]
        /\ \A i \in 1 .. Len(d) : Cat(f, d)[Len(f) + i] = d[i]
    BY <2>0, CatIs
  <2> QED
    BY <1>6, <1>9, <1>11, <2>1
<1>13. \A i \in 1 .. t : i \in 1 .. t + v /\ i \in 1 .. (t + v) + y
  OBVIOUS
<1>14. \A i \in 1 .. v : t + i \in 1 .. t + v /\ t + i \in 1 .. (t + v) + y
  OBVIOUS
<1>15. \A i \in 1 .. y : (t + v) + i \in 1 .. (t + v) + y
  OBVIOUS
<1>16. \A i \in 1 .. t : m[i] = a[i]
  BY <1>10, <1>11, <1>12, <1>13
<1>17. \A i \in 1 .. v : m[t + i] = iv[i]
  BY <1>10, <1>11, <1>12, <1>14
<1>18. \A i \in 1 .. y : m[(t + v) + i] = c[i]
  BY <1>11, <1>12, <1>15
<1> QED
  BY <1>1, <1>2, <1>12, <1>16, <1>17, <1>18

-----------------------------------------------------------------------------
(* Opening.                                                                *)

\* The bytes of c from one place on.
Part(c, from, size) == SubSeq(c, from + 1, from + size)

LEMMA PartIs ==
  ASSUME NEW c, IsSeq(c), NEW from \in Nat, NEW size \in Nat, from + size <= Len(c)
  PROVE  /\ IsSeq(Part(c, from, size)) /\ Len(Part(c, from, size)) = size
         /\ \A i \in 1 .. size : Part(c, from, size)[i] = c[from + i]
<1>1. PICK m \in Nat, n \in Nat : m = from + 1 /\ n = from + size
  OBVIOUS
<1>2. 1 <= m /\ m <= n + 1 /\ n <= Len(c)
  BY <1>1
<1>3. /\ IsSeq(SubSeq(c, m, n)) /\ Len(SubSeq(c, m, n)) = (n - m) + 1
      /\ \A i \in 1 .. (n - m) + 1 : SubSeq(c, m, n)[i] = c[(m + i) - 1]
  BY <1>2, SubSeqIs
<1>4. (n - m) + 1 = size /\ \A i \in 1 .. size : (m + i) - 1 = from + i
  BY <1>1
<1>5. Part(c, from, size) = SubSeq(c, m, n)
  BY <1>1 DEF Part
<1> QED
  BY <1>3, <1>4, <1>5

\* A part of the first part.
LEMMA PartOfFirst ==
  ASSUME NEW c, IsSeq(c), NEW from \in Nat, NEW size \in Nat, NEW a \in Nat,
         from + size <= a, a <= Len(c)
  PROVE  Part(Part(c, 0, a), from, size) = Part(c, from, size)
<1>1. PICK d : d = Part(c, 0, a)
  OBVIOUS
<1>2. 0 \in Nat /\ 0 + a <= Len(c) /\ from + size <= Len(c)
  BY DEF IsSeq
<1>3. IsSeq(d) /\ Len(d) = a /\ \A i \in 1 .. a : d[i] = c[0 + i]
  BY <1>1, <1>2, PartIs
<1>4. PICK s : s = Part(d, from, size)
  OBVIOUS
<1>5. PICK t : t = Part(c, from, size)
  OBVIOUS
<1>6. IsSeq(s) /\ Len(s) = size /\ \A i \in 1 .. size : s[i] = d[from + i]
  BY <1>3, <1>4, PartIs
<1>7. IsSeq(t) /\ Len(t) = size /\ \A i \in 1 .. size : t[i] = c[from + i]
  BY <1>2, <1>5, PartIs
<1>8. \A i \in 1 .. size : from + i \in 1 .. a /\ 0 + (from + i) = from + i
  OBVIOUS
<1>9. \A i \in 1 .. size : s[i] = t[i]
  BY <1>3, <1>6, <1>7, <1>8
<1>10. s = t
  BY <1>6, <1>7, <1>9, SeqsEqual
<1> QED
  BY <1>1, <1>4, <1>5, <1>10

DataOf(c, n) == Part(c, 0, n)
IvOf(c, n) == Part(c, n, IvSize)
PkOf(c, n) == Part(c, n + IvSize, PkSize)
MacOf(c, n) == Part(c, n + IvSize + PkSize, MacSize)

LEMMA Parts ==
  ASSUME NEW c, IsSeq(c), NEW n \in Nat, Len(c) = n + Overhead
  PROVE  /\ IsSeq(DataOf(c, n)) /\ Len(DataOf(c, n)) = n
         /\ \A i \in 1 .. n : DataOf(c, n)[i] = c[i]
         /\ IsSeq(IvOf(c, n)) /\ Len(IvOf(c, n)) = IvSize
         /\ \A i \in 1 .. IvSize : IvOf(c, n)[i] = c[n + i]
         /\ IsSeq(PkOf(c, n)) /\ Len(PkOf(c, n)) = PkSize
         /\ \A i \in 1 .. PkSize : PkOf(c, n)[i] = c[n + IvSize + i]
         /\ IsSeq(MacOf(c, n)) /\ Len(MacOf(c, n)) = MacSize
         /\ \A i \in 1 .. MacSize : MacOf(c, n)[i] = c[n + IvSize + PkSize + i]
<1>1. PICK v \in Nat, y \in Nat, z \in Nat :
         v = IvSize /\ y = PkSize /\ z = MacSize /\ Len(c) = ((n + v) + y) + z
  BY SizesKnown DEF Overhead
<1>2. PICK a \in Nat, b \in Nat : a = n + v /\ b = (n + v) + y
  OBVIOUS
<1>3. 0 \in Nat /\ 0 + n <= Len(c) /\ n + v <= Len(c) /\ a + y <= Len(c) /\ b + z <= Len(c)
  BY <1>1, <1>2
<1>4. /\ IsSeq(DataOf(c, n)) /\ Len(DataOf(c, n)) = n
      /\ \A i \in 1 .. n : DataOf(c, n)[i] = c[0 + i]
  BY <1>3, PartIs DEF DataOf
<1>5. /\ IsSeq(IvOf(c, n)) /\ Len(IvOf(c, n)) = v
      /\ \A i \in 1 .. v : IvOf(c, n)[i] = c[n + i]
  BY <1>1, <1>3, PartIs DEF IvOf
<1>6. /\ IsSeq(PkOf(c, n)) /\ Len(PkOf(c, n)) = y
      /\ \A i \in 1 .. y : PkOf(c, n)[i] = c[a + i]
  <2>1. PkOf(c, n) = Part(c, a, y)
    BY <1>1, <1>2 DEF PkOf
  <2> QED
    BY <1>3, <2>1, PartIs
<1>7. /\ IsSeq(MacOf(c, n)) /\ Len(MacOf(c, n)) = z
      /\ \A i \in 1 .. z : MacOf(c, n)[i] = c[b + i]
  <2>1. MacOf(c, n) = Part(c, b, z)
    BY <1>1, <1>2 DEF MacOf
  <2> QED
    BY <1>3, <2>1, PartIs
<1>8. \A i \in 1 .. n : 0 + i = i
  OBVIOUS
<1> QED
  BY <1>1, <1>2, <1>4, <1>5, <1>6, <1>7, <1>8

Refusal(q) == IF q = "eth" THEN "invalid_data" ELSE "sm4_decrypt_error"

\* What opening returns for a message that can hold the overhead.
LEMMA OpenedIs ==
  ASSUME NEW q \in Packs, NEW side, NEW l, NEW prefix, NEW c, IsSeq(c),
         NEW n \in Nat, Len(c) = n + Overhead, Len(c) < Limit
  PROVE  LET g == GcmOpen(OpeningKey(q, l, PkOf(c, n)), IvOf(c, n), MacText(prefix),
                          DataOf(c, n), MacOf(c, n))
         IN  decrypt_message_with_prefix(q, side, l, c, prefix)
               = [ret |-> IF g.ret = "success" THEN "success" ELSE Refusal(q), data |-> g.data]
<1>1. PICK v \in Nat, y \in Nat, z \in Nat, h \in Nat :
         v = IvSize /\ y = PkSize /\ z = MacSize /\ h = Len(c) /\ h = ((n + v) + y) + z /\ h < Limit
         /\ Limit \in Nat /\ Overhead \in Nat
  BY SizesKnown DEF Overhead, IsSeq
<1>2. h >= Overhead /\ h - Overhead = n
  BY <1>1 DEF Overhead
<1>3. get_decrypt_message_size_with_prefix(Len(c)) = n
  BY <1>1, <1>2, DataSize
<1>4. get_encrypt_message_size_with_prefix(n) = Len(c)
  BY <1>1, <1>2, CipherSizes
<1>5. get_cipher_size(n) = n + v
  <2>1. get_cipher_size(n) = h - y - z
    BY <1>1, <1>2, CipherSizes
  <2> QED
    BY <1>1, <2>1
<1>6. PICK a \in Nat : a = n + v /\ a <= Len(c)
  BY <1>1
<1> DEFINE key == OpeningKey(q, l, PkOf(c, n))
           g == GcmOpen(key, IvOf(c, n), MacText(prefix), DataOf(c, n), MacOf(c, n))
<1>7. ecdh_shared_key(q, side, l, SubSeq(c, a + 1, a + PkSize)).key = key
  <2>1. SubSeq(c, a + 1, a + PkSize) = PkOf(c, n)
    BY <1>1, <1>6 DEF PkOf, Part
  <2>2. Len(PkOf(c, n)) = PkSize
    BY Parts
  <2>3. ecdh_shared_key(q, side, l, PkOf(c, n)) = [ret |-> "success", key |-> key]
    BY <2>2, SharedIs DEF OpeningKey
  <2> HIDE DEF key
  <2>4. ecdh_shared_key(q, side, l, PkOf(c, n)).key = key
    BY <2>3
  <2> QED
    BY <2>1, <2>4
<1>8. SubSeq(c, a + PkSize + 1, a + PkSize + MacSize) = MacOf(c, n)
  BY <1>1, <1>6 DEF MacOf, Part
<1>a. SubSeq(c, 1, a) = Part(c, 0, a) /\ 0 \in Nat
  BY <1>6 DEF Part
<1>9. SubSeq(SubSeq(c, 1, a), n + 1, n + IvSize) = IvOf(c, n)
  <2>1. Part(Part(c, 0, a), n, v) = Part(c, n, v)
    BY <1>6, PartOfFirst
  <2> QED
    BY <2>1, <1>1, <1>a DEF IvOf, Part
<1>10. SubSeq(SubSeq(c, 1, a), 1, n) = DataOf(c, n)
  <2>1. 0 + n <= a /\ 0 + 1 = 1 /\ 0 + n = n
    BY <1>1, <1>6
  <2>2. Part(Part(c, 0, a), 0, n) = Part(c, 0, n)
    BY <2>1, <1>6, <1>a, PartOfFirst
  <2> QED
    BY <2>1, <2>2, <1>a DEF DataOf, Part
<1>11. decrypt_message_with_prefix(q, side, l, c, prefix)
         = decrypt_with_prefix(q, key, SubSeq(c, 1, a), prefix, n, MacOf(c, n))
  <2>1. ~(Len(c) < IvSize) /\ ~(n > Len(c))
    BY <1>1
  <2> QED
    BY <1>1, <1>3, <1>4, <1>5, <1>6, <1>7, <1>8, <2>1 DEF decrypt_message_with_prefix
<1>12. rijndael_decrypt(key, SubSeq(c, 1, a), prefix, n, MacOf(c, n)) = g
  BY <1>9, <1>10 DEF rijndael_decrypt
<1>13. g = [ret |-> g.ret, data |-> g.data] /\ g.ret \in {"success", "invalid_data"}
  BY DEF GcmOpen
<1> HIDE DEF g
<1>14. CASE q = "eth"
  BY <1>11, <1>12, <1>13, <1>14 DEF decrypt_with_prefix, Refusal, g
<1>15. CASE q # "eth"
  BY <1>11, <1>12, <1>13, <1>15 DEF decrypt_with_prefix, sm4_decrypt_prefixed, Refusal, g
<1> QED
  BY <1>14, <1>15

\* Too short a message is refused, or read outside.
LEMMA ShortRefused ==
  ASSUME NEW q \in Packs, NEW side, NEW l, NEW prefix, NEW c, Len(c) \in Nat, Len(c) < Overhead
  PROVE  decrypt_message_with_prefix(q, side, l, c, prefix).ret # "success"
<1>1. get_decrypt_message_size_with_prefix(Len(c)) > Len(c)
  BY SizesKnown, DataSize
<1> QED
  BY <1>1 DEF decrypt_message_with_prefix

\* Opening finds the parts of a message where sealing put them.
LEMMA MessageParts ==
  ASSUME NEW p \in Packs, NEW k, NEW prefix, NEW iv, NEW text, Sealable(iv, text),
         NEW m, m = Message(p, k, prefix, iv, text), NEW t \in Nat, t = Len(text)
  PROVE  /\ Len(m) = t + Overhead /\ Len(m) < Limit
         /\ DataOf(m, t) = GcmStream(k, iv, text) /\ IvOf(m, t) = iv
         /\ PkOf(m, t) = generate_pkey_from_skey(p, Ephemeral)
         /\ MacOf(m, t) = GcmTag(k, iv, MacText(prefix), GcmStream(k, iv, text))
<1>1. /\ IsSeq(m) /\ Len(m) = t + IvSize + PkSize + MacSize
      /\ \A i \in 1 .. t : m[i] = GcmStream(k, iv, text)[i]
      /\ \A i \in 1 .. IvSize : m[t + i] = iv[i]
      /\ \A i \in 1 .. PkSize : m[t + IvSize + i] = generate_pkey_from_skey(p, Ephemeral)[i]
      /\ \A i \in 1 .. MacSize : m[t + IvSize + PkSize + i]
           = GcmTag(k, iv, MacText(prefix), GcmStream(k, iv, text))[i]
  BY Layout
<1>2. Len(m) = t + Overhead /\ Len(m) < Limit
  BY <1>1, SizesKnown DEF Overhead, Sealable
<1>3. /\ IsSeq(DataOf(m, t)) /\ Len(DataOf(m, t)) = t
      /\ \A i \in 1 .. t : DataOf(m, t)[i] = m[i]
      /\ IsSeq(IvOf(m, t)) /\ Len(IvOf(m, t)) = IvSize
      /\ \A i \in 1 .. IvSize : IvOf(m, t)[i] = m[t + i]
      /\ IsSeq(PkOf(m, t)) /\ Len(PkOf(m, t)) = PkSize
      /\ \A i \in 1 .. PkSize : PkOf(m, t)[i] = m[t + IvSize + i]
      /\ IsSeq(MacOf(m, t)) /\ Len(MacOf(m, t)) = MacSize
      /\ \A i \in 1 .. MacSize : MacOf(m, t)[i] = m[t + IvSize + PkSize + i]
  <2>1. IsSeq(m) /\ Len(m) = t + Overhead
    BY <1>1, <1>2
  <2> QED
    BY <2>1, Parts
<1>4. DataOf(m, t) = GcmStream(k, iv, text)
  <2>1. PICK s : s = GcmStream(k, iv, text)
    OBVIOUS
  <2>2. IsSeq(s) /\ Len(s) = t
    BY <2>1, StreamBytes DEF Sealable
  <2>3. PICK d : d = DataOf(m, t)
    OBVIOUS
  <2>4. IsSeq(d) /\ Len(d) = t /\ \A i \in 1 .. t : d[i] = s[i]
    BY <1>1, <1>3, <2>1, <2>3
  <2>5. d = s
    BY <2>2, <2>4, SeqsEqual
  <2> QED
    BY <2>1, <2>3, <2>5
<1>5. IvOf(m, t) = iv
  <2>1. IsSeq(iv) /\ Len(iv) = IvSize /\ \A i \in 1 .. IvSize : IvOf(m, t)[i] = iv[i]
    BY <1>1, <1>3 DEF Sealable
  <2> QED
    BY <1>3, <2>1, SeqsEqual
<1>6. PkOf(m, t) = generate_pkey_from_skey(p, Ephemeral)
  <2>1. PICK s : s = generate_pkey_from_skey(p, Ephemeral)
    OBVIOUS
  <2>2. IsSeq(s) /\ Len(s) = PkSize /\ \A i \in 1 .. PkSize : PkOf(m, t)[i] = s[i]
    BY <1>1, <1>3, <2>1, KeyBytes, IsSeqOf
  <2> QED
    BY <1>3, <2>1, <2>2, SeqsEqual
<1>7. MacOf(m, t) = GcmTag(k, iv, MacText(prefix), GcmStream(k, iv, text))
  <2>1. PICK s : s = GcmTag(k, iv, MacText(prefix), GcmStream(k, iv, text))
    OBVIOUS
  <2>2. IsSeq(s) /\ Len(s) = MacSize
    BY <2>1, TagBytes
  <2>3. \A i \in 1 .. MacSize : MacOf(m, t)[i] = s[i]
    BY <1>1, <1>3, <2>1
  <2> QED
    BY <1>3, <2>1, <2>2, <2>3, SeqsEqual
<1> QED
  BY <1>2, <1>4, <1>5, <1>6, <1>7

\* The right key and iv give the text.
LEMMA OpenData ==
  ASSUME NEW k, NEW iv, NEW aad, NEW mac, NEW text, IsSeq(text)
  PROVE  GcmOpen(k, iv, aad, GcmStream(k, iv, text), mac).data = text
<1>1. PICK s : s = GcmStream(k, iv, text)
  OBVIOUS
<1>2. /\ IsSeq(s) /\ Len(s) = Len(text) /\ Len(text) \in Nat
      /\ \A i \in 1 .. Len(text) : s[i] = [c |-> text[i], key |-> k, iv |-> iv, at |-> i]
  BY <1>1, StreamBytes DEF IsSeq
<1>3. DOMAIN s = 1 .. Len(text)
  BY <1>2 DEF IsSeq
<1> DEFINE f == [i \in 1 .. Len(text) |->
                   IF "c" \in DOMAIN s[i] /\ s[i] = [c |-> s[i].c, key |-> k, iv |-> iv, at |-> i]
                   THEN s[i].c ELSE OtherByte]
<1>4. GcmOpen(k, iv, aad, s, mac).data = Tuple(f)
  BY <1>3 DEF GcmOpen
<1>5. \A i \in 1 .. Len(text) : f[i] = text[i]
  <2> SUFFICES ASSUME NEW i \in 1 .. Len(text) PROVE f[i] = text[i]
    OBVIOUS
  <2>1. PICK b : b = s[i]
    OBVIOUS
  <2>2. b = [c |-> text[i], key |-> k, iv |-> iv, at |-> i]
    BY <1>2, <2>1
  <2>3. "c" \in DOMAIN b /\ b.c = text[i] /\ b = [c |-> b.c, key |-> k, iv |-> iv, at |-> i]
    BY <2>2
  <2> QED
    BY <2>1, <2>3
<1>6. f = [i \in 1 .. Len(text) |-> f[i]]
  OBVIOUS
<1> HIDE DEF f
<1>7. IsSeq(Tuple(f)) /\ Len(Tuple(f)) = Len(text) /\ \A i \in 1 .. Len(text) : Tuple(f)[i] = f[i]
  BY <1>2, <1>6, TupleIs
<1>8. Tuple(f) = text
  BY <1>5, <1>7, SeqsEqual
<1> QED
  BY <1>1, <1>4, <1>8

\* Whether a received message opens: its tag is the one of its other parts under the
\* opener's key and purpose.
Opens(q, l, prefix, c, n) ==
  MacOf(c, n) = GcmTag(OpeningKey(q, l, PkOf(c, n)), IvOf(c, n), MacText(prefix), DataOf(c, n))

LEMMA OpensExactly ==
  ASSUME NEW q \in Packs, NEW side, NEW l, NEW prefix, NEW c, IsSeq(c),
         NEW n \in Nat, Len(c) = n + Overhead, Len(c) < Limit
  PROVE  /\ decrypt_message_with_prefix(q, side, l, c, prefix).ret = "success"
              <=> Opens(q, l, prefix, c, n)
         /\ decrypt_message_with_prefix(q, side, l, c, prefix).ret # "outside"
         /\ decrypt_message_with_prefix(q, side, l, c, prefix).data
              = GcmOpen(OpeningKey(q, l, PkOf(c, n)), IvOf(c, n), MacText(prefix),
                        DataOf(c, n), MacOf(c, n)).data
<1>1. PICK g : g = GcmOpen(OpeningKey(q, l, PkOf(c, n)), IvOf(c, n), MacText(prefix),
                           DataOf(c, n), MacOf(c, n))
  OBVIOUS
<1>2. decrypt_message_with_prefix(q, side, l, c, prefix)
        = [ret |-> IF g.ret = "success" THEN "success" ELSE Refusal(q), data |-> g.data]
  BY <1>1, OpenedIs
<1>3. g.ret = "success" <=> Opens(q, l, prefix, c, n)
  BY <1>1 DEF GcmOpen, Opens
<1> QED
  BY <1>1, <1>2, <1>3 DEF Refusal

\* A message that arrived whole is opened by the key, in the pack and for the purpose it was
\* sealed for, and gives the text.
LEMMA WholeOpens ==
  ASSUME NEW p \in Packs, NEW q \in Packs, NEW side, NEW l \in CpKeys,
         NEW x, IsSeq(x), Len(x) = PkSize, NEW prefix \in CpPrefixes, NEW purpose \in CpPrefixes,
         NEW iv, NEW text, Sealable(iv, text),
         NEW m, m = Message(p, SealingKey(p, x), prefix, iv, text)
  PROVE  LET d == decrypt_message_with_prefix(q, side, l, m, purpose) IN
         /\ d.ret = "success" <=> p = q /\ x = generate_pkey_from_skey(p, l) /\ prefix = purpose
         /\ d.ret = "success" => d.data = text
<1>1. PICK t \in Nat : t = Len(text)
  BY DEF Sealable, IsSeq
<1>2. PICK k, s, y : k = SealingKey(p, x) /\ s = GcmStream(k, iv, text)
                     /\ y = generate_pkey_from_skey(p, Ephemeral)
  OBVIOUS
<1>3. /\ IsSeq(m) /\ Len(m) = t + Overhead /\ Len(m) < Limit
      /\ DataOf(m, t) = s /\ IvOf(m, t) = iv /\ PkOf(m, t) = y
      /\ MacOf(m, t) = GcmTag(k, iv, MacText(prefix), s)
  BY <1>1, <1>2, Layout, MessageParts
<1>4. PICK d : d = decrypt_message_with_prefix(q, side, l, m, purpose)
  OBVIOUS
<1>5. /\ d.ret = "success" <=> Opens(q, l, purpose, m, t)
      /\ d.data = GcmOpen(OpeningKey(q, l, y), iv, MacText(purpose), s, MacOf(m, t)).data
  BY <1>3, <1>4, OpensExactly
<1>6. Opens(q, l, purpose, m, t)
        <=> GcmTag(k, iv, MacText(prefix), s) = GcmTag(OpeningKey(q, l, y), iv, MacText(purpose), s)
  BY <1>3 DEF Opens
<1>7. GcmTag(k, iv, MacText(prefix), s) = GcmTag(OpeningKey(q, l, y), iv, MacText(purpose), s)
        <=> k = OpeningKey(q, l, y) /\ prefix = purpose
  BY TagOne, MacTextOne
<1>8. k = OpeningKey(q, l, y) <=> p = q /\ x = generate_pkey_from_skey(p, l)
  <2>1. IsSeq(y) /\ Len(y) = PkSize
    BY <1>2, KeyBytes, IsSeqOf
  <2> QED
    BY <1>2, <2>1, KeysAgree DEF SealingKey, OpeningKey
<1>9. ASSUME d.ret = "success" PROVE d.data = text
  <2>1. k = OpeningKey(q, l, y)
    BY <1>5, <1>6, <1>7, <1>9
  <2>2. IsSeq(text)
    BY DEF Sealable
  <2> QED
    BY <1>2, <1>5, <2>1, <2>2, OpenData
<1> QED
  BY <1>4, <1>5, <1>6, <1>7, <1>8, <1>9

-----------------------------------------------------------------------------
(* Messages changed or cut on their way.                                   *)

LEMMA SentIs ==
  ASSUME NEW s, IsSeq(s), NEW way \in Ways(Len(s))
  PROVE  /\ way.keep \in 0 .. Len(s) /\ way.change \in 0 .. Len(s)
         /\ way.change = 0 \/ way.keep = Len(s)
         /\ IsSeq(Sent(s, way)) /\ Len(Sent(s, way)) = way.keep
         /\ \A i \in 1 .. way.keep : Sent(s, way)[i] = IF i = way.change THEN OtherByte ELSE s[i]
<1>1. Len(s) \in Nat
  BY DEF IsSeq
<1>2. /\ way.keep \in 0 .. Len(s) /\ way.change \in 0 .. Len(s) /\ way.keep \in Nat
      /\ way.change = 0 \/ way.keep = Len(s)
  BY <1>1 DEF Ways
<1> DEFINE f == [i \in 1 .. way.keep |-> IF i = way.change THEN OtherByte ELSE s[i]]
<1>3. /\ Sent(s, way) = Tuple(f) /\ f = [i \in 1 .. way.keep |-> f[i]]
      /\ \A i \in 1 .. way.keep : f[i] = IF i = way.change THEN OtherByte ELSE s[i]
  BY DEF Sent
<1> HIDE DEF f
<1>4. PICK n \in Nat : n = way.keep
  BY <1>2
<1>5. IsSeq(Tuple(f)) /\ Len(Tuple(f)) = n /\ \A i \in 1 .. n : Tuple(f)[i] = f[i]
  BY <1>3, <1>4, TupleIs
<1> QED
  BY <1>2, <1>3, <1>4, <1>5

LEMMA SentWhole ==
  ASSUME NEW s, IsSeq(s), NEW way \in Ways(Len(s)), way.keep = Len(s), way.change = 0
  PROVE  Sent(s, way) = s
<1>1. Len(s) \in Nat
  BY DEF IsSeq
<1>2. PICK r : r = Sent(s, way)
  OBVIOUS
<1>3. IsSeq(r) /\ Len(r) = Len(s) /\ \A i \in 1 .. Len(s) : r[i] = IF i = 0 THEN OtherByte ELSE s[i]
  BY <1>2, SentIs
<1>4. \A i \in 1 .. Len(s) : r[i] = s[i]
  BY <1>1, <1>3
<1> QED
  BY <1>2, <1>3, <1>4, SeqsEqual

\* Every place of a message is in one of its parts.
LEMMA Places ==
  ASSUME NEW n \in Nat, NEW j \in 1 .. n + Overhead
  PROVE  \/ j \in 1 .. n
         \/ \E i \in 1 .. IvSize : j = n + i
         \/ \E i \in 1 .. PkSize : j = n + IvSize + i
         \/ \E i \in 1 .. MacSize : j = n + IvSize + PkSize + i
<1>1. PICK v \in Nat, y \in Nat, z \in Nat :
         v = IvSize /\ y = PkSize /\ z = MacSize /\ j \in 1 .. ((n + v) + y) + z /\ j \in Nat
  BY SizesKnown DEF Overhead
<1>2. CASE j <= n
  BY <1>1, <1>2
<1>3. CASE n < j /\ j <= n + v
  <2>1. j - n \in 1 .. v /\ j = n + (j - n)
    BY <1>1, <1>3
  <2> QED
    BY <1>1, <2>1
<1>4. CASE n + v < j /\ j <= (n + v) + y
  <2>1. j - (n + v) \in 1 .. y /\ j = (n + v) + (j - (n + v))
    BY <1>1, <1>4
  <2> QED
    BY <1>1, <2>1
<1>5. CASE (n + v) + y < j
  <2>1. j - ((n + v) + y) \in 1 .. z /\ j = ((n + v) + y) + (j - ((n + v) + y))
    BY <1>1, <1>5
  <2> QED
    BY <1>1, <2>1
<1> QED
  BY <1>1, <1>2, <1>3, <1>4, <1>5

LEMMA SameParts ==
  ASSUME NEW n \in Nat, NEW c, IsSeq(c), Len(c) = n + Overhead, NEW d, IsSeq(d), Len(d) = n + Overhead,
         DataOf(c, n) = DataOf(d, n), IvOf(c, n) = IvOf(d, n), PkOf(c, n) = PkOf(d, n),
         MacOf(c, n) = MacOf(d, n), NEW j \in 1 .. n + Overhead
  PROVE  c[j] = d[j]
<1>1. CASE j \in 1 .. n
  <2>1. DataOf(c, n)[j] = c[j]
    BY <1>1, Parts
  <2>2. DataOf(d, n)[j] = d[j]
    BY <1>1, Parts
  <2> QED
    BY <2>1, <2>2
<1>2. CASE \E i \in 1 .. IvSize : j = n + i
  <2>1. PICK i \in 1 .. IvSize : j = n + i
    BY <1>2
  <2>2. IvOf(c, n)[i] = c[n + i] /\ IvOf(d, n)[i] = d[n + i]
    BY Parts
  <2> QED
    BY <2>1, <2>2
<1>3. CASE \E i \in 1 .. PkSize : j = n + IvSize + i
  <2>1. PICK i \in 1 .. PkSize : j = n + IvSize + i
    BY <1>3
  <2>2. PkOf(c, n)[i] = c[n + IvSize + i] /\ PkOf(d, n)[i] = d[n + IvSize + i]
    BY Parts
  <2> QED
    BY <2>1, <2>2
<1>4. CASE \E i \in 1 .. MacSize : j = n + IvSize + PkSize + i
  <2>1. PICK i \in 1 .. MacSize : j = n + IvSize + PkSize + i
    BY <1>4
  <2>2. MacOf(c, n)[i] = c[n + IvSize + PkSize + i] /\ MacOf(d, n)[i] = d[n + IvSize + PkSize + i]
    BY Parts
  <2> QED
    BY <2>1, <2>2
<1> QED
  BY <1>1, <1>2, <1>3, <1>4, Places

\* No byte of a message is another one, and only its last is the last of a tag.
IsLastOfTag(b) == "tag" \in DOMAIN b /\ b.at = MacSize

LEMMA OtherIsOther == "tag" \notin DOMAIN OtherByte /\ "other" \in DOMAIN OtherByte
BY DEF OtherByte

LEMMA ByteKinds ==
  ASSUME NEW p \in Packs, NEW k, NEW prefix, NEW iv, NEW text, Sealable(iv, text),
         NEW m, m = Message(p, k, prefix, iv, text), NEW j \in 1 .. Len(m)
  PROVE  /\ m[j] # OtherByte
         /\ IsLastOfTag(m[j]) => j = Len(m)
<1>1. PICK t \in Nat : t = Len(text)
  BY DEF Sealable, IsSeq
<1>2. IsSeq(m) /\ Len(m) = t + Overhead
  BY <1>1, Layout, MessageParts
<1>3. CASE j \in 1 .. t
  <2>1. m[j] = [c |-> text[j], key |-> k, iv |-> iv, at |-> j]
    <3>1. IsSeq(text)
      BY DEF Sealable
    <3>2. m[j] = GcmStream(k, iv, text)[j]
      BY <1>1, <1>3, Layout
    <3> QED
      BY <1>1, <1>3, <3>1, <3>2, StreamBytes
  <2>2. "tag" \notin DOMAIN m[j] /\ "other" \notin DOMAIN m[j]
    BY <2>1
  <2> QED
    BY <2>2, OtherIsOther DEF IsLastOfTag
<1>4. ASSUME NEW i \in 1 .. IvSize, j = t + i PROVE "tag" \notin DOMAIN m[j] /\ "other" \notin DOMAIN m[j]
  <2>1. m[j] = iv[i]
    BY <1>1, <1>4, Layout
  <2>2. iv[i] = [rnd |-> i]
    BY DEF Sealable
  <2> QED
    BY <2>1, <2>2
<1>5. ASSUME NEW i \in 1 .. PkSize, j = t + IvSize + i
      PROVE  "tag" \notin DOMAIN m[j] /\ "other" \notin DOMAIN m[j]
  <2>1. PICK s : s = generate_pkey_from_skey(p, Ephemeral)
    OBVIOUS
  <2>2. s \in Seq(PkBytes(p, Ephemeral)) /\ Len(s) = PkSize
    BY <2>1, KeyBytes
  <2>3. s[i] \in PkBytes(p, Ephemeral)
    BY <2>2
  <2>4. m[j] = s[i]
    BY <1>1, <1>5, <2>1, Layout
  <2> QED
    BY <2>3, <2>4 DEF PkBytes
<1>6. ASSUME NEW i \in 1 .. MacSize, j = t + IvSize + PkSize + i
      PROVE  "other" \notin DOMAIN m[j] /\ m[j].at = i
  <2>1. PICK s : s = GcmTag(k, iv, MacText(prefix), GcmStream(k, iv, text))
    OBVIOUS
  <2>2. s[i] = [tag |-> k, iv |-> iv, aad |-> MacText(prefix), over |-> GcmStream(k, iv, text), at |-> i]
    BY <2>1, TagBytes
  <2>3. m[j] = s[i]
    BY <1>1, <1>6, <2>1, Layout
  <2> QED
    BY <2>2, <2>3
<1>7. ASSUME NEW i \in 1 .. MacSize, j = t + IvSize + PkSize + i, IsLastOfTag(m[j])
      PROVE  j = Len(m)
  <2>1. i = MacSize
    BY <1>6, <1>7 DEF IsLastOfTag
  <2> QED
    BY <1>2, <1>7, <2>1, SizesKnown DEF Overhead
<1>8. j \in 1 .. t + Overhead
  BY <1>2
<1> QED
  BY <1>3, <1>4, <1>5, <1>6, <1>7, <1>8, OtherIsOther, Places DEF IsLastOfTag

\* A message that was cut or changed is refused by everyone.
LEMMA ChangedRefused ==
  ASSUME NEW p \in Packs, NEW q \in Packs, NEW side, NEW l \in CpKeys,
         NEW x, IsSeq(x), Len(x) = PkSize, NEW prefix, NEW purpose,
         NEW iv, NEW text, Sealable(iv, text),
         NEW m, m = Message(p, SealingKey(p, x), prefix, iv, text),
         NEW way \in Ways(Len(m)), ~(way.keep = Len(m) /\ way.change = 0)
  PROVE  decrypt_message_with_prefix(q, side, l, Sent(m, way), purpose).ret # "success"
<1>1. PICK t \in Nat : t = Len(text)
  BY DEF Sealable, IsSeq
<1>2. PICK k, s, y : k = SealingKey(p, x) /\ s = GcmStream(k, iv, text)
                     /\ y = generate_pkey_from_skey(p, Ephemeral)
  OBVIOUS
<1>3. /\ IsSeq(m) /\ Len(m) = t + Overhead /\ Len(m) < Limit
      /\ DataOf(m, t) = s /\ IvOf(m, t) = iv /\ PkOf(m, t) = y
      /\ MacOf(m, t) = GcmTag(k, iv, MacText(prefix), s)
  BY <1>1, <1>2, Layout, MessageParts
<1>4. PICK r : r = Sent(m, way)
  OBVIOUS
<1>5. PICK h \in Nat, j \in Nat :
         /\ h = way.keep /\ j = way.change /\ h <= Len(m) /\ j <= Len(m) /\ (j = 0 \/ h = Len(m))
         /\ IsSeq(r) /\ Len(r) = h
         /\ \A i \in 1 .. h : r[i] = IF i = j THEN OtherByte ELSE m[i]
  <2>1. Len(m) \in Nat
    BY <1>3 DEF IsSeq
  <2> QED
    BY <2>1, <1>3, <1>4, SentIs
<1>6. CASE h < Overhead
  BY <1>4, <1>5, <1>6, ShortRefused
<1>7. CASE h >= Overhead
  <2>1. PICK n \in Nat : n = h - Overhead
    BY <1>7, SizesKnown
  <2>2. Len(r) = n + Overhead /\ Len(r) < Limit /\ h = n + Overhead
    BY <1>3, <1>5, <2>1, SizesKnown
  <2> SUFFICES ASSUME Opens(q, l, purpose, r, n) PROVE FALSE
    BY <1>4, <1>5, <2>2, OpensExactly
  <2>3. PICK k2 : k2 = OpeningKey(q, l, PkOf(r, n))
    OBVIOUS
  <2>4. PICK tag : tag = GcmTag(k2, IvOf(r, n), MacText(purpose), DataOf(r, n))
    OBVIOUS
  <2>5. /\ MacOf(r, n) = tag
        /\ \A i \in 1 .. MacSize : "tag" \in DOMAIN tag[i] /\ tag[i].at = i
    <3>1. MacOf(r, n) = tag
      BY <2>3, <2>4 DEF Opens
    <3>2. \A i \in 1 .. MacSize : tag[i] = [tag |-> k2, iv |-> IvOf(r, n), aad |-> MacText(purpose),
                                           over |-> DataOf(r, n), at |-> i]
      BY <2>4, TagBytes
    <3>3. ASSUME NEW i \in 1 .. MacSize PROVE "tag" \in DOMAIN tag[i] /\ tag[i].at = i
      <4>1. PICK b : b = tag[i]
        OBVIOUS
      <4>2. b = [tag |-> k2, iv |-> IvOf(r, n), aad |-> MacText(purpose), over |-> DataOf(r, n), at |-> i]
        BY <3>2, <4>1
      <4>3. "tag" \in DOMAIN b /\ b.at = i
        BY <4>2
      <4> QED
        BY <4>1, <4>3
    <3> QED
      BY <3>1, <3>3
  <2>6. \A i \in 1 .. MacSize : r[n + IvSize + PkSize + i] = tag[i]
    BY <1>5, <2>2, <2>5, Parts
  \* The message was not cut.
  <2>7. h = Len(m)
    <3>1. MacSize \in 1 .. MacSize /\ n + IvSize + PkSize + MacSize = h /\ h \in 1 .. h
      BY <2>2, SizesKnown DEF Overhead
    <3>2. IsLastOfTag(r[h])
      BY <2>5, <2>6, <3>1 DEF IsLastOfTag
    <3>3. h # j
      BY <1>5, <3>1, <3>2, OtherIsOther DEF IsLastOfTag
    <3>4. r[h] = m[h] /\ h \in 1 .. Len(m)
      BY <1>5, <3>1, <3>3
    <3> QED
      BY <1>2, <3>2, <3>4, ByteKinds
  <2>8. n = t /\ j \in 1 .. t + Overhead /\ r[j] = OtherByte
    <3>1. n = t
      BY <1>3, <2>2, <2>7, SizesKnown
    <3>2. j # 0
      BY <1>5, <2>7
    <3>3. j \in 1 .. h
      BY <1>5, <2>7, <3>2
    <3> QED
      BY <1>5, <2>2, <3>1, <3>3
  \* So the tag is the sealer's.
  <2>9. MacOf(r, t) = MacOf(m, t)
    <3>1. /\ IsSeq(MacOf(r, t)) /\ Len(MacOf(r, t)) = MacSize
          /\ IsSeq(MacOf(m, t)) /\ Len(MacOf(m, t)) = MacSize
      BY <1>3, <1>5, <2>2, <2>8, Parts
    <3>2. ASSUME NEW i \in 1 .. MacSize PROVE MacOf(r, t)[i] = MacOf(m, t)[i]
      <4>1. PICK at \in Nat : at = t + IvSize + PkSize + i /\ at \in 1 .. h
        BY <2>2, <2>8, SizesKnown DEF Overhead
      <4>2. "tag" \in DOMAIN r[at]
        BY <2>5, <2>6, <2>8, <4>1
      <4>3. at # j
        BY <1>5, <4>1, <4>2, OtherIsOther
      <4>4. r[at] = m[at]
        BY <1>5, <4>1, <4>3
      <4>5. MacOf(r, t)[i] = r[t + IvSize + PkSize + i]
        BY <1>5, <2>2, <2>8, Parts
      <4>6. MacOf(m, t)[i] = m[t + IvSize + PkSize + i]
        BY <1>3, Parts
      <4> QED
        BY <4>1, <4>4, <4>5, <4>6
    <3> QED
      BY <3>1, <3>2, SeqsEqual
  \* And every other part.
  <2>10. k = k2 /\ IvOf(r, t) = iv /\ DataOf(r, t) = s
    <3>1. GcmTag(k, iv, MacText(prefix), s) = GcmTag(k2, IvOf(r, t), MacText(purpose), DataOf(r, t))
      BY <1>3, <2>4, <2>5, <2>8, <2>9
    <3> QED
      BY <3>1, TagOne
  <2>11. PkOf(r, t) = y
    <3>1. IsSeq(PkOf(r, t)) /\ Len(PkOf(r, t)) = PkSize
      BY <1>5, <2>2, <2>8, Parts
    <3>2. SealingKey(p, x) = OpeningKey(q, l, PkOf(r, t))
      BY <1>2, <2>3, <2>8, <2>10
    <3> QED
      BY <1>2, <3>1, <3>2, KeysAgree DEF SealingKey, OpeningKey
  <2>12. r[j] = m[j]
    <3>1. IsSeq(r) /\ Len(r) = t + Overhead /\ IsSeq(m) /\ Len(m) = t + Overhead
      BY <1>3, <1>5, <2>2, <2>8
    <3>2. DataOf(r, t) = DataOf(m, t) /\ IvOf(r, t) = IvOf(m, t) /\ PkOf(r, t) = PkOf(m, t)
      BY <1>3, <2>10, <2>11
    <3> QED
      BY <3>1, <3>2, <2>8, <2>9, SameParts
  <2>13. m[j] # OtherByte
    <3>1. j \in 1 .. Len(m)
      BY <1>3, <2>8
    <3> QED
      BY <1>2, <3>1, ByteKinds
  <2> QED
    BY <2>8, <2>12, <2>13
<1> QED
  BY <1>5, <1>6, <1>7, SizesKnown

\* Only a message shorter than its overhead is read outside.
LEMMA LongInside ==
  ASSUME NEW q \in Packs, NEW side, NEW l, NEW prefix, NEW c, IsSeq(c), Len(c) >= Overhead, Len(c) < Limit
  PROVE  decrypt_message_with_prefix(q, side, l, c, prefix).ret # "outside"
<1>1. PICK n \in Nat : Len(c) = n + Overhead
  <2>1. Len(c) - Overhead \in Nat /\ Len(c) = (Len(c) - Overhead) + Overhead
    BY SizesKnown DEF IsSeq
  <2> QED
    BY <2>1
<1> QED
  BY <1>1, OpensExactly

-----------------------------------------------------------------------------
(* What is sealed, and what becomes of it.                                 *)

LEMMA CanSeal ==
  ASSUME NEW random \in CpRandom, NEW text, IsSeq(text), Len(text) + Overhead < Limit
  PROVE  Sealable(random.iv, text) /\ random.failed \in BOOLEAN
<1>1. random.failed \in BOOLEAN /\ random.iv = Tuple([i \in 1 .. IvSize |-> [rnd |-> i]])
  BY DEF CpRandom
<1> DEFINE f == [i \in 1 .. IvSize |-> [rnd |-> i]]
<1>2. /\ random.iv = Tuple(f) /\ f = [i \in 1 .. IvSize |-> f[i]]
      /\ \A i \in 1 .. IvSize : f[i] = [rnd |-> i]
  BY <1>1
<1> HIDE DEF f
<1>3. PICK iv : iv = random.iv
  OBVIOUS
<1>4. IsSeq(iv) /\ Len(iv) = IvSize /\ \A i \in 1 .. IvSize : iv[i] = f[i]
  BY <1>2, <1>3, TupleIs, SizesKnown
<1>5. \A i \in 1 .. IvSize : iv[i] = [rnd |-> i]
  BY <1>2, <1>4
<1> QED
  BY <1>1, <1>3, <1>4, <1>5 DEF Sealable

LEMMA TextFits ==
  ASSUME NEW text \in CpMessages
  PROVE  IsSeq(text) /\ Len(text) + Overhead < Limit
<1>1. PICK t \in CpTexts : text = PlainBytes(t)
  BY DEF CpMessages
<1>2. t \in Seq(Nat) /\ Len(t) \in Nat /\ Len(t) \in {2} \cup {Len(u) : u \in CpTexts}
  BY CryptoPackAssumption
<1>3. Len(t) + IvSize + PkSize + MacSize < Limit
  BY <1>2, CryptoPackAssumption DEF Limit
<1>4. Len(t) + Overhead < Limit
  BY <1>2, <1>3, SizesKnown DEF Overhead
<1>5. IsSeq(t)
  BY <1>2, IsSeqOf
<1> QED
  BY <1>1, <1>4, <1>5, PlainIs

LEMMA KeyFits ==
  ASSUME NEW k
  PROVE  IsSeq(SecretBytes(k)) /\ Len(SecretBytes(k)) + Overhead < Limit
<1>1. IsSeq(SecretBytes(k)) /\ Len(SecretBytes(k)) = 2
  BY DEF SecretBytes, IsSeq
<1> QED
  BY <1>1, SizesKnown

\* The public key that reached the sealer is the one of the owner only when it is whole.
LEMMA KeyReached ==
  ASSUME NEW p \in Packs, NEW k, NEW l, NEW w \in Ways(PkSize), w.change <= 1,
         NEW x, x = Sent(generate_pkey_from_skey(p, k), w)
  PROVE  /\ IsSeq(x) /\ Len(x) = w.keep
         /\ w.keep = PkSize => (x = generate_pkey_from_skey(p, l) <=> k = l /\ w.change = 0)
<1>1. PICK y : y = generate_pkey_from_skey(p, k)
  OBVIOUS
<1>2. IsSeq(y) /\ Len(y) = PkSize
  BY <1>1, KeyBytes, IsSeqOf
<1>3. w \in Ways(Len(y))
  BY <1>2
<1>4. /\ w.change \in 0 .. PkSize /\ IsSeq(x) /\ Len(x) = w.keep
      /\ \A i \in 1 .. w.keep : x[i] = IF i = w.change THEN OtherByte ELSE y[i]
  BY <1>1, <1>2, <1>3, SentIs
<1>5. ASSUME w.keep = PkSize, w.change = 0 PROVE x = y
  BY <1>1, <1>2, <1>3, <1>5, SentWhole
<1>6. ASSUME w.keep = PkSize, w.change # 0, x = generate_pkey_from_skey(p, l) PROVE FALSE
  <2>1. w.change = 1 /\ 1 \in 1 .. PkSize
    BY <1>4, <1>6, SizesKnown
  <2>2. x[1] = OtherByte
    BY <1>4, <1>6, <2>1
  <2>3. x \in Seq(PkBytes(p, l)) /\ Len(x) = PkSize
    BY <1>6, KeyBytes
  <2>4. x[1] \in PkBytes(p, l)
    BY <2>1, <2>3
  <2>5. OtherByte \in PkBytes(p, l)
    BY <2>2, <2>4
  <2>6. PICK b : b = OtherByte
    OBVIOUS
  <2>7. "pk" \in DOMAIN b
    BY <2>5, <2>6 DEF PkBytes
  <2>8. "pk" \notin DOMAIN b
    BY <2>6 DEF OtherByte
  <2> QED
    BY <2>7, <2>8
<1>7. y = generate_pkey_from_skey(p, l) <=> k = l
  BY <1>1, KeyOne
<1> QED
  BY <1>4, <1>5, <1>6, <1>7

\* The call of SealOpen: who seals and opens, the public key that reached the sealer, what
\* was sealed, and what was opened.
Callers == [pack : Packs, side : Sides, key : CpKeys, prefix : CpPrefixes]
KeySent(a, w) == Sent(generate_pkey_from_skey(a.pack, a.key), w)
SealedBy(a, text, w, random) ==
  encrypt_message_with_prefix(a.pack, a.side, KeySent(a, w), text, a.prefix, Ephemeral, random)
OpenedBy(b, sealed, way) ==
  decrypt_message_with_prefix(b.pack, b.side, b.key, Sent(sealed.cipher, way), b.prefix)

\* What SealedForPurpose says of a call.
LEMMA SealAndOpen ==
  ASSUME NEW a \in Callers, NEW b \in Callers, NEW text \in CpMessages,
         NEW w \in Ways(PkSize), w.change <= 1, NEW random \in CpRandom,
         NEW way \in Ways(Len(SealedBy(a, text, w, random).cipher))
  PROVE  LET sealed == SealedBy(a, text, w, random)
             d == OpenedBy(b, sealed, way)
         IN  /\ sealed.ret = "success" <=> ~random.failed /\ w.keep = PkSize
             /\ d.ret = "success" <=> /\ sealed.ret = "success" /\ way.keep = Len(sealed.cipher)
                                      /\ way.change = 0
                                      /\ a.pack = b.pack /\ a.key = b.key /\ a.prefix = b.prefix
                                      /\ w.keep = PkSize /\ w.change = 0
             /\ d.ret = "success" => d.data = text
             /\ d.ret = "outside" => way.keep < Overhead
<1>1. PICK p \in Packs, q \in Packs, prefix \in CpPrefixes, purpose \in CpPrefixes, l \in CpKeys, k \in CpKeys :
         /\ p = a.pack /\ q = b.pack /\ prefix = a.prefix /\ purpose = b.prefix
         /\ k = a.key /\ l = b.key
  BY DEF Callers
<1>2. PICK x, sealed, c, d, side :
         /\ x = KeySent(a, w) /\ sealed = SealedBy(a, text, w, random) /\ c = sealed.cipher
         /\ d = OpenedBy(b, sealed, way) /\ side = b.side
  OBVIOUS
<1>3. /\ x = Sent(generate_pkey_from_skey(p, k), w)
      /\ sealed = encrypt_message_with_prefix(p, a.side, x, text, prefix, Ephemeral, random)
      /\ d = decrypt_message_with_prefix(q, side, l, Sent(c, way), purpose)
      /\ way \in Ways(Len(c))
  BY <1>1, <1>2 DEF KeySent, SealedBy, OpenedBy
<1> SUFFICES /\ sealed.ret = "success" <=> ~random.failed /\ w.keep = PkSize
             /\ d.ret = "success" <=> /\ sealed.ret = "success" /\ way.keep = Len(c) /\ way.change = 0
                                      /\ p = q /\ k = l /\ prefix = purpose
                                      /\ w.keep = PkSize /\ w.change = 0
             /\ d.ret = "success" => d.data = text
             /\ d.ret = "outside" => way.keep < Overhead
  BY <1>1, <1>2
<1>4. /\ IsSeq(x) /\ Len(x) = w.keep
      /\ w.keep = PkSize => (x = generate_pkey_from_skey(p, l) <=> k = l /\ w.change = 0)
  BY <1>3, KeyReached
<1>5. Sealable(random.iv, text) /\ random.failed \in BOOLEAN
  BY TextFits, CanSeal
<1>6. CASE random.failed \/ w.keep # PkSize
  <2>1. sealed.ret # "success" /\ c = << >>
    BY <1>4, <1>5, <1>6, <1>2, <1>3, SealedIs
  <2>2. IsSeq(c) /\ Len(c) = 0
    BY <2>1 DEF IsSeq
  <2>3. PICK r : r = Sent(c, way)
    OBVIOUS
  <2>4. way.keep \in 0 .. 0 /\ Len(r) = way.keep
    BY <1>3, <2>2, <2>3, SentIs
  <2>5. Len(r) \in Nat /\ Len(r) < Overhead
    BY <2>4, SizesKnown DEF Overhead
  <2>6. d.ret # "success"
    BY <1>3, <2>3, <2>5, ShortRefused
  <2> QED
    BY <1>6, <2>1, <2>4, <2>5, <2>6
<1>7. CASE ~random.failed /\ w.keep = PkSize
  <2>1. sealed.ret = "success" /\ c = Message(p, SealingKey(p, x), prefix, random.iv, text)
    BY <1>4, <1>7, <1>2, <1>3, SealedIs
  <2>2. PICK iv : iv = random.iv
    OBVIOUS
  <2>3. Sealable(iv, text) /\ c = Message(p, SealingKey(p, x), prefix, iv, text) /\ Len(x) = PkSize
    BY <1>4, <1>5, <1>7, <2>1, <2>2
  <2>4. PICK t \in Nat : t = Len(text)
    BY <2>3 DEF Sealable, IsSeq
  <2>5. IsSeq(c) /\ Len(c) < Limit /\ Len(c) \in Nat
    <3>1. IsSeq(c)
      BY <2>3, <2>4, Layout
    <3>2. Len(c) < Limit
      BY <2>3, <2>4, MessageParts
    <3> QED
      BY <3>1, <3>2 DEF IsSeq
  <2>6. PICK r : r = Sent(c, way)
    OBVIOUS
  <2>7. IsSeq(r) /\ Len(r) = way.keep /\ way.keep \in Nat /\ way.keep < Limit
    <3>1. IsSeq(r) /\ Len(r) = way.keep /\ way.keep \in 0 .. Len(c)
      BY <1>3, <2>5, <2>6, SentIs
    <3> QED
      BY <2>5, <3>1, SizesKnown
  <2>8. d.ret = "outside" => way.keep < Overhead
    <3>1. ASSUME way.keep >= Overhead PROVE d.ret # "outside"
      BY <1>3, <2>6, <2>7, <3>1, LongInside
    <3> QED
      BY <2>7, <3>1, SizesKnown
  <2>9. CASE way.keep = Len(c) /\ way.change = 0
    <3>1. r = c
      BY <1>3, <2>5, <2>6, <2>9, SentWhole
    <3>2. d = decrypt_message_with_prefix(q, side, l, c, purpose)
      BY <1>3, <2>6, <3>1
    <3>3. /\ d.ret = "success" <=> p = q /\ x = generate_pkey_from_skey(p, l) /\ prefix = purpose
          /\ d.ret = "success" => d.data = text
      BY <1>4, <2>3, <3>2, WholeOpens
    <3> QED
      BY <1>4, <1>7, <2>1, <2>8, <2>9, <3>3
  <2>10. CASE ~(way.keep = Len(c) /\ way.change = 0)
    <3>1. d.ret # "success"
      BY <1>4, <1>3, <2>3, <2>10, ChangedRefused
    <3> QED
      BY <1>7, <2>1, <2>8, <2>10, <3>1
  <2> QED
    BY <2>9, <2>10
<1> QED
  BY <1>5, <1>6, <1>7

\* A message delivered as it was sent, to the owner's key or another.
Sealing(p, side, k, text, prefix, random) ==
  encrypt_message_with_prefix(p, side, generate_pkey_from_skey(p, k), text, prefix, Ephemeral, random)
Opening(p, side, l, sealed, purpose) == decrypt_message_with_prefix(p, side, l, sealed.cipher, purpose)

LEMMA DeliveredOpens ==
  ASSUME NEW p \in Packs, NEW side, NEW sealing, NEW k, NEW l \in CpKeys,
         NEW prefix \in CpPrefixes, NEW purpose \in CpPrefixes,
         NEW text, IsSeq(text), Len(text) + Overhead < Limit, NEW random \in CpRandom,
         Sealing(p, sealing, k, text, prefix, random).ret = "success"
  PROVE  LET d == Opening(p, side, l, Sealing(p, sealing, k, text, prefix, random), purpose)
         IN  /\ d.ret = "success" <=> k = l /\ prefix = purpose
             /\ d.ret = "success" => d.data = text
<1>1. PICK x, sealed, d :
         /\ x = generate_pkey_from_skey(p, k) /\ sealed = Sealing(p, sealing, k, text, prefix, random)
         /\ d = Opening(p, side, l, sealed, purpose)
  OBVIOUS
<1>2. IsSeq(x) /\ Len(x) = PkSize
  BY <1>1, KeyBytes, IsSeqOf
<1>3. Sealable(random.iv, text) /\ random.failed \in BOOLEAN
  BY CanSeal
<1>4. sealed = encrypt_message_with_prefix(p, sealing, x, text, prefix, Ephemeral, random) /\ sealed.ret = "success"
  BY <1>1 DEF Sealing
<1>5. ~random.failed
  BY <1>2, <1>3, <1>4, SealedIs
<1>6. PICK iv, c : iv = random.iv /\ c = sealed.cipher
  OBVIOUS
<1>7. Sealable(iv, text) /\ c = Message(p, SealingKey(p, x), prefix, iv, text)
  BY <1>2, <1>3, <1>4, <1>5, <1>6, SealedIs
<1>8. d = decrypt_message_with_prefix(p, side, l, c, purpose)
  BY <1>1, <1>6 DEF Opening
<1>9. /\ d.ret = "success" <=> p = p /\ x = generate_pkey_from_skey(p, l) /\ prefix = purpose
      /\ d.ret = "success" => d.data = text
  BY <1>2, <1>7, <1>8, WholeOpens
<1>10. x = generate_pkey_from_skey(p, l) <=> k = l
  BY <1>1, KeyOne
<1> QED
  BY <1>1, <1>9, <1>10

-----------------------------------------------------------------------------
(* The calls.                                                              *)

LEMMA SealOpenSound ==
  ASSUME SealOpen
  PROVE  SealedForPurpose'
<1> DEFINE W == {w \in Ways(PkSize) : w.keep >= PkSize - 1 /\ w.change <= 1}
           Made(a, b, text, w, random, way) ==
             [op |-> "seal",
              in |-> [a |-> a, b |-> b, text |-> text, pkway |-> w, random |-> random,
                      way |-> way, size |-> Len(SealedBy(a, text, w, random).cipher)],
              out |-> [sealed |-> SealedBy(a, text, w, random).ret,
                       opened |-> OpenedBy(b, SealedBy(a, text, w, random), way)]]
<1>1. PICK a \in Callers, b \in Callers, text \in CpMessages, w \in W, random \in CpRandom :
         \E way \in Ways(Len(SealedBy(a, text, w, random).cipher)) :
            last' = Made(a, b, text, w, random, way)
  BY DEF SealOpen, Call, SealedBy, OpenedBy, KeySent, Callers
<1>2. PICK way \in Ways(Len(SealedBy(a, text, w, random).cipher)) : last' = Made(a, b, text, w, random, way)
  BY <1>1
<1>3. PICK sealed, d : sealed = SealedBy(a, text, w, random) /\ d = OpenedBy(b, sealed, way)
  OBVIOUS
<1>4. /\ last' = [op |-> "seal",
                  in |-> [a |-> a, b |-> b, text |-> text, pkway |-> w, random |-> random,
                          way |-> way, size |-> Len(sealed.cipher)],
                  out |-> [sealed |-> sealed.ret, opened |-> d]]
      /\ w \in Ways(PkSize) /\ w.change <= 1
  BY <1>2, <1>3
<1> HIDE DEF W, Made
<1>5. /\ sealed.ret = "success" <=> ~random.failed /\ w.keep = PkSize
      /\ d.ret = "success" <=> /\ sealed.ret = "success" /\ way.keep = Len(sealed.cipher)
                               /\ way.change = 0
                               /\ a.pack = b.pack /\ a.key = b.key /\ a.prefix = b.prefix
                               /\ w.keep = PkSize /\ w.change = 0
      /\ d.ret = "success" => d.data = text
      /\ d.ret = "outside" => way.keep < Overhead
  BY <1>3, <1>4, SealAndOpen
<1> QED
  BY <1>4, <1>5 DEF SealedForPurpose, Of, Overhead

LEMMA DeliveredSound ==
  ASSUME Delivered
  PROVE  ForwardedApart'
<1> DEFINE Seal(pack, owner, dian, prefix, random) ==
             Sealing(pack, "host", dian, SecretBytes(owner), prefix, random)
           Prefix(way) == IF way = "forward" THEN crypto_prefix_forward ELSE crypto_prefix_arbitrary
           Made(pack, owner, dian, way, sent) ==
             [op |-> "deliver", in |-> [way |-> way, owner |-> owner, sent |-> sent.ret],
              out |-> [key |-> Opening(pack, "enclave", dian, sent, crypto_prefix_forward),
                       result |-> Opening(pack, "host", dian, sent, crypto_prefix_arbitrary)]]
<1>1. PICK pack \in Packs, owner \in CpKeys, dian \in CpKeys, way \in {"forward", "request"},
           random \in CpRandom : last' = Made(pack, owner, dian, way, Seal(pack, owner, dian, Prefix(way), random))
  BY DEF Delivered, Call, forward_private_key, generate_request, ecc_encrypt, decrypt_result, ecc_decrypt,
         Sealing, Opening
<1>2. PICK prefix, text, sent, key, result :
         /\ prefix = Prefix(way) /\ text = SecretBytes(owner) /\ sent = Seal(pack, owner, dian, prefix, random)
         /\ key = Opening(pack, "enclave", dian, sent, crypto_prefix_forward)
         /\ result = Opening(pack, "host", dian, sent, crypto_prefix_arbitrary)
  OBVIOUS
<1>3. /\ last' = [op |-> "deliver", in |-> [way |-> way, owner |-> owner, sent |-> sent.ret],
                  out |-> [key |-> key, result |-> result]]
      /\ sent = Sealing(pack, "host", dian, text, prefix, random)
      /\ prefix \in CpPrefixes
      /\ prefix = crypto_prefix_forward <=> way = "forward"
      /\ prefix = crypto_prefix_arbitrary <=> way = "request"
  BY <1>1, <1>2 DEF CpPrefixes, crypto_prefix_forward, crypto_prefix_arbitrary
<1> HIDE DEF Seal, Prefix, Made
<1>4. crypto_prefix_forward \in CpPrefixes /\ crypto_prefix_arbitrary \in CpPrefixes
  BY DEF CpPrefixes
<1>5. IsSeq(text) /\ Len(text) + Overhead < Limit
  BY <1>2, KeyFits
<1>6. ASSUME sent.ret = "success"
      PROVE  /\ key.ret = "success" <=> way = "forward"
             /\ key.ret = "success" => key.data = text
             /\ result.ret = "success" <=> way = "request"
  <2>1. /\ key.ret = "success" <=> dian = dian /\ prefix = crypto_prefix_forward
        /\ key.ret = "success" => key.data = text
    BY <1>2, <1>3, <1>4, <1>5, <1>6, DeliveredOpens
  <2>2. result.ret = "success" <=> dian = dian /\ prefix = crypto_prefix_arbitrary
    BY <1>2, <1>3, <1>4, <1>5, <1>6, DeliveredOpens
  <2> QED
    BY <1>3, <2>1, <2>2
<1> QED
  BY <1>2, <1>3, <1>6 DEF ForwardedApart, Of

LEMMA CommandLineSound ==
  ASSUME CommandLine
  PROVE  ResultIsPrinted'
<1> DEFINE Side(from) == IF from = "cterminus" THEN "host" ELSE "enclave"
           Seal(pack, owner, text, side, random) ==
             Sealing(pack, side, owner, text, crypto_prefix_arbitrary, random)
<1>1. PICK pack \in Packs, owner \in CpKeys, reader \in CpKeys, text \in CpMessages, random \in CpRandom,
           from \in {"cterminus", "enclave"} :
         /\ ~Thrown(Seal(pack, owner, text, Side(from), random))
         /\ last' = [op |-> "terminus", in |-> [owner |-> owner, reader |-> reader, text |-> text],
                     out |-> cterminus_decrypt(pack, Seal(pack, owner, text, Side(from), random).cipher, reader)]
  BY DEF CommandLine, Call, cterminus_encrypt, ecc_encrypt, Sealing
<1>2. PICK side, sent, d :
         /\ side = Side(from) /\ sent = Seal(pack, owner, text, side, random)
         /\ d = Opening(pack, "host", reader, sent, crypto_prefix_arbitrary)
  OBVIOUS
<1>3. /\ sent.ret = "success"
      /\ sent = Sealing(pack, side, owner, text, crypto_prefix_arbitrary, random)
      /\ last' = [op |-> "terminus", in |-> [owner |-> owner, reader |-> reader, text |-> text],
                  out |-> IF d.ret # "success" THEN [exit |-> "thrown", out |-> << >>]
                          ELSE [exit |-> IF d.data = << >> THEN "-1" ELSE "0", out |-> d.data]]
  BY <1>1, <1>2 DEF Thrown, cterminus_decrypt, ecc_decrypt, Opening
<1> HIDE DEF Side, Seal
<1>4. crypto_prefix_arbitrary \in CpPrefixes /\ IsSeq(text) /\ Len(text) + Overhead < Limit
  BY TextFits DEF CpPrefixes
<1>5. /\ d.ret = "success" <=> owner = reader /\ crypto_prefix_arbitrary = crypto_prefix_arbitrary
      /\ d.ret = "success" => d.data = text
  BY <1>2, <1>3, <1>4, DeliveredOpens
<1> QED
  BY <1>3, <1>5 DEF ResultIsPrinted, Of

LEMMA MessagesStep == MessagesSound /\ [CryptoPackNext]_last => MessagesSound'
<1> SUFFICES ASSUME MessagesSound, [CryptoPackNext]_last PROVE MessagesSound'
  OBVIOUS
<1>1. CASE SealOpen
  <2>1. last'.op = "seal"
    BY <1>1 DEF SealOpen, Call
  <2> QED
    BY <1>1, <2>1, SealOpenSound DEF MessagesSound, ForwardedApart, ResultIsPrinted, Of
<1>2. CASE Delivered
  <2>1. last'.op = "deliver"
    BY <1>2 DEF Delivered, Call
  <2> QED
    BY <1>2, <2>1, DeliveredSound DEF MessagesSound, SealedForPurpose, ResultIsPrinted, Of
<1>3. CASE CommandLine
  <2>1. last'.op = "terminus"
    BY <1>3 DEF CommandLine, Call
  <2> QED
    BY <1>3, <2>1, CommandLineSound DEF MessagesSound, SealedForPurpose, ForwardedApart, Of
<1>4. CASE ConsentCheck
  <2>1. last'.op = "consent"
    BY <1>4 DEF ConsentCheck, Call
  <2> QED
    BY <2>1 DEF MessagesSound, SealedForPurpose, ForwardedApart, ResultIsPrinted, Of
<1>5. CASE UNCHANGED last
  BY <1>5 DEF MessagesSound, SealedForPurpose, ForwardedApart, ResultIsPrinted, Of
<1> QED
  BY <1>1, <1>2, <1>3, <1>4, <1>5 DEF CryptoPackNext

\* A message sealed for a key and a purpose (aes_gcm_impl, on either side of the enclave
\* boundary) is opened by that key, in that pack and for that purpose, and gives the text; it
\* is refused after any change, to the message or to the public key it was sealed with, and
\* only one shorter than its overhead is read outside.  A forwarded key is no result and a
\* request no key, and cterminus prints what was encrypted for its reader and nothing else.
THEOREM MessagesSoundHolds == CryptoPackSpec => []MessagesSound
<1>1. CallInit => MessagesSound
  BY DEF CallInit, NoCall, MessagesSound, SealedForPurpose, ForwardedApart, ResultIsPrinted, Of
<1> QED
  BY <1>1, MessagesStep, PTL DEF CryptoPackSpec
=============================================================================
