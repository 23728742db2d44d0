------------------------------- MODULE Hashes -------------------------------
(***************************************************************************)
(* Hash contexts that are fed piece by piece: sha256 of secp256k1, sha256  *)
(* and sm3 of gmssl, and keccak.  The compression is a list of the blocks  *)
(* it was given, so that a digest stands for the padded message hashed.    *)
(* The k-th byte of a message is k; a block has Block cells, of which the  *)
(* length takes the last two, words of LengthWord bits.                    *)
(* Then the nonces made by HMAC, with hashes as terms.                     *)
(***************************************************************************)
EXTENDS Calls, Limbs

CONSTANTS
  Block,          \* cells of a block (64 bytes in the code), a power of two
  BlockBits,      \* log2 of the bits of a block (9 in the code)
  LengthWord,     \* bits of a word of the length (32 in the code)
  WordBytes,      \* bytes of a word of the sponge (8 in the code)
  RateWords,      \* words absorbed between two permutations (17 in the code)
  MaxMessage,     \* bound: bytes of a message
  NonceInputs     \* bound: what nonces are made from

ASSUME HashAssumption ==
  /\ Block \in Nat /\ Block > 3 /\ 2^BlockBits = 8 * Block /\ BlockBits < LengthWord
  /\ WordBytes \in Nat \ {0} /\ RateWords \in Nat \ {0}
  \* The length of a message takes two words.
  /\ MaxMessage \in Nat /\ 8 * MaxMessage < 2^LengthWord * 2^LengthWord
  \* Facts of arithmetic about the powers, true of all numbers with LengthWord > 2.
  /\ {2^LengthWord, 2^(LengthWord - 3), 2^(LengthWord - BlockBits)} \subseteq Nat \ {0}
  /\ 2^LengthWord = 8 * 2^(LengthWord - 3) /\ 2^LengthWord = 2^BlockBits * 2^(LengthWord - BlockBits)
  \* The arguments of a nonce have fixed lengths: keys and messages two cells, extra data
  \* two or none, the name of an algorithm one or none.
  /\ NonceInputs \subseteq [key : Seq(STRING), msg : Seq(STRING), data : Seq(STRING), algo : Seq(STRING)]
  /\ \A in \in NonceInputs : /\ Len(in.key) = 2 /\ Len(in.msg) = 2
                             /\ Len(in.data) \in {0, 2} /\ Len(in.algo) \in {0, 1}

VARIABLE hashing    \* the message length so far and the contexts

\* Cells that are no byte of a message.
Garbage == -1
Eighty == -2
LengthCell(v) == -(3 + v)
Bytes(from, n) == Tuple([k \in 1..n |-> from + k])
\* buf with the bytes b copied to it from offset o (from 0).
CopyTo(buf, o, b) == SubSeq(buf, 1, o) \o b \o SubSeq(buf, o + Len(b) + 1, Len(buf))
Drop(b, n) == SubSeq(b, n + 1, Len(b))

-----------------------------------------------------------------------------
(* sha256 of secp256k1: the number of bytes tells where the buffer ends.   *)

sha256_initialize == [bytes |-> 0, buf |-> [k \in 1..Block |-> Garbage], out |-> <<>>]

sha256_write(h, data) ==
  LET fill == h.bytes % Block
      full == (fill + Len(data)) \div Block
      step(acc, i) ==
        LET o == IF i = 1 THEN fill ELSE 0
            b == CopyTo(acc.buf, o, SubSeq(acc.data, 1, Block - o))
        IN  [data |-> Drop(acc.data, Block - o), buf |-> b, out |-> Append(acc.out, b)]
      all == Fold(step, [data |-> data, buf |-> h.buf, out |-> h.out], UpTo(full))
  IN  [bytes |-> h.bytes + Len(data), out |-> all.out,
       buf |-> CopyTo(all.buf, IF full = 0 THEN fill ELSE 0, all.data)]

\* The length is taken before the padding is written.
sha256_finalize(h) ==
  LET size == <<LengthCell(h.bytes \div 2^(LengthWord - 3)), LengthCell((h.bytes * 8) % 2^LengthWord)>>
      pad == <<Eighty>> \o Zeros((2 * Block - 3 - (h.bytes % Block)) % Block)
  IN  sha256_write(sha256_write(h, pad), size).out

-----------------------------------------------------------------------------
(* sha256 and sm3 of gmssl: full blocks are compressed where they lie.     *)

sm3_init == [num |-> 0, nblocks |-> 0, block |-> [k \in 1..Block |-> 0], out |-> <<>>]

sm3_update(c, data) ==
  LET left == Block - c.num IN
  IF c.num > 0 /\ Len(data) < left
    THEN [c EXCEPT !.block = CopyTo(@, c.num, data), !.num = @ + Len(data)]
    ELSE LET first == IF c.num > 0 THEN CopyTo(c.block, c.num, SubSeq(data, 1, left)) ELSE c.block
             rest == IF c.num > 0 THEN Drop(data, left) ELSE data
             blocks == Len(rest) \div Block
             tail == Drop(rest, Block * blocks)
         IN  [num |-> Len(tail), block |-> CopyTo(first, 0, tail),
              nblocks |-> c.nblocks + blocks + (IF c.num > 0 THEN 1 ELSE 0),
              out |-> c.out \o (IF c.num > 0 THEN <<first>> ELSE <<>>)
                      \o Tuple([k \in 1..blocks |-> SubSeq(rest, (k - 1) * Block + 1, k * Block)])]

LengthFits(c) == c.num <= Block - 2
NeedsNoMore(c) == c.num <= Block - 3
sm3_finish(c) ==
  LET b == CopyTo(c.block, c.num, <<Eighty>>)
      hi == LengthCell((c.nblocks \div 2^(LengthWord - BlockBits)) % 2^LengthWord)
      lo == LengthCell((c.nblocks * 2^BlockBits + c.num * 8) % 2^LengthWord)
      zeroed == IF NeedsNoMore(c) THEN CopyTo(b, c.num + 1, Zeros(Block - c.num - 3))
                ELSE CopyTo(b, c.num + 1, Zeros(Block - c.num - 1))
  IN  IF NeedsNoMore(c) THEN Append(c.out, CopyTo(zeroed, Block - 2, <<hi, lo>>))
      ELSE c.out \o <<zeroed, CopyTo(CopyTo(zeroed, 0, Zeros(Block - 2)), Block - 2, <<hi, lo>>)>>
\* The sha256 of gmssl keeps its context in the same way.
sha256_init == sm3_init
sha256_update(c, data) == sm3_update(c, data)
sha256_finish(c) == sm3_finish(c)

-----------------------------------------------------------------------------
(* keccak: words are added into the state; a word is a set of bytes, each  *)
(* with its place, and adding is the symmetric difference.                 *)

Added(x, y) == (x \ y) \cup (y \ x)
EmptyState == [w \in 1..RateWords |-> {}]
sha3_Init == [byteIndex |-> 0, wordIndex |-> 0, saved |-> {}, s |-> EmptyState, out |-> <<>>]

Permute(c) == [c EXCEPT !.out = Append(@, c.s), !.s = EmptyState, !.wordIndex = 0]
\* One complete word goes into the state; the last word of the rate permutes it.
Absorb(c, word) ==
  LET a == [c EXCEPT !.s[c.wordIndex + 1] = Added(@, word), !.wordIndex = @ + 1]
  IN  IF a.wordIndex = RateWords THEN Permute(a) ELSE a
WordOf(b, from) == {<<from + k - 1, b[k]>> : k \in 1..Len(b)}
SaveBytes(c, b) == [c EXCEPT !.saved = @ \cup WordOf(b, c.byteIndex), !.byteIndex = @ + Len(b)]

Completed(c, b) == [Absorb(c, c.saved \cup WordOf(b, c.byteIndex)) EXCEPT !.byteIndex = 0, !.saved = {}]

sha3_Update(c, data) ==
  LET old_tail == (WordBytes - c.byteIndex) % WordBytes IN
  IF Len(data) < old_tail THEN SaveBytes(c, data)
  ELSE LET d == IF old_tail > 0 THEN Completed(c, SubSeq(data, 1, old_tail)) ELSE c
           rest == Drop(data, old_tail)
           words == Len(rest) \div WordBytes
           whole(acc, i) == Absorb(acc, WordOf(SubSeq(rest, (i - 1) * WordBytes + 1, i * WordBytes), 0))
       IN  SaveBytes(Fold(whole, d, UpTo(words)), Drop(rest, words * WordBytes))

\* The start of the padding is the next byte, its end the top bit of the rate.
sha3_Finalize(c) ==
  LET t == {<<c.byteIndex, Eighty>>}
      started == [c.s EXCEPT ![c.wordIndex + 1] = Added(Added(@, c.saved), t)]
      ended == [started EXCEPT ![RateWords] = Added(@, {<<WordBytes - 1, LengthCell(0)>>})]
  IN  Append(c.out, ended)

-----------------------------------------------------------------------------

HashInit ==
  hashing = [len |-> 0, secp |-> sha256_initialize, gm |-> sm3_init, gm256 |-> sha256_init, sponge |-> sha3_Init, done |-> FALSE]

\* n more bytes of the message reach every context.
HashWrite(n) ==
  /\ ~hashing.done /\ hashing.len + n <= MaxMessage
  /\ LET b == Bytes(hashing.len, n) IN
     hashing' = [hashing EXCEPT !.len = @ + n, !.secp = sha256_write(@, b),
                                !.gm = sm3_update(@, b), !.gm256 = sha256_update(@, b), !.sponge = sha3_Update(@, b)]
HashFinish ==
  /\ ~hashing.done
  /\ hashing' = [len |-> hashing.len, done |-> TRUE, secp |-> sha256_finalize(hashing.secp),
                 gm |-> sm3_finish(hashing.gm), gm256 |-> sha256_finish(hashing.gm256),
                 sponge |-> sha3_Finalize(hashing.sponge)]
HashNext == (\E n \in 0..MaxMessage : HashWrite(n)) \/ HashFinish

\* A message padded by the rules of the two families, cut into blocks.
Padded80(n) ==
  LET pads == {z \in 0..(Block - 1) : (n + 1 + z + 2) % Block = 0}
      all == Bytes(0, n) \o <<Eighty>> \o Zeros(CHOOSE z \in pads : TRUE)
             \o <<LengthCell((8 * n) \div 2^LengthWord), LengthCell((8 * n) % 2^LengthWord)>>
  IN  Tuple([k \in 1..(Len(all) \div Block) |-> SubSeq(all, (k - 1) * Block + 1, k * Block)])
Sponge10(n) ==
  LET rate == RateWords * WordBytes
      at(p) == (IF p < n THEN {p + 1} ELSE IF p = n THEN {Eighty} ELSE {})
               \cup (IF p = rate * (n \div rate + 1) - 1 THEN {LengthCell(0)} ELSE {})
  IN  Tuple([k \in 1..(n \div rate + 1) |->
              [w \in 1..RateWords |->
                 UNION {{<<b, v>> : v \in at((k - 1) * rate + (w - 1) * WordBytes + b)} : b \in 0..(WordBytes - 1)}]])

\* However a message is cut into writes, empty ones included, what is compressed is
\* the message padded once, with its own length and no byte of an earlier block.
DigestOfMessage ==
  hashing.done => /\ hashing.secp = Padded80(hashing.len)
                  /\ hashing.gm = Padded80(hashing.len) /\ hashing.gm256 = hashing.gm
                  /\ hashing.sponge = Sponge10(hashing.len)

-----------------------------------------------------------------------------
(* Nonces.  A hash is a term that holds what was hashed.  What nonces are  *)
(* made from is cut into cells of 16 bytes: keys, messages and extra data  *)
(* have two, the name of an algorithm one, what is absent none.            *)

H(m) == <<"h", m>>
\* The keys here are digests, shorter than a block and used as they are.
hmac_sha256(key, parts) == H(<<<<"opad", key>>, H(<<<<"ipad", key>>>> \o parts)>>)
Round6979(g, parts) ==
  LET k == hmac_sha256(g.k, <<g.v>> \o parts) IN [k |-> k, v |-> hmac_sha256(k, <<g.v>>), retry |-> FALSE]
rfc6979_hmac_sha256_initialize(keydata) ==
  Round6979(Round6979([k |-> <<"zeros">>, v |-> <<"ones">>, retry |-> FALSE], <<<<"00">>, keydata>>),
            <<<<"01">>, keydata>>)
rfc6979_hmac_sha256_generate(g) ==
  LET r == IF g.retry THEN Round6979(g, <<<<"00">>>>) ELSE g
  IN  [k |-> r.k, v |-> hmac_sha256(r.k, <<r.v>>), retry |-> TRUE]

Keydata(in) == in.key \o in.msg \o in.data \o in.algo
\* One value for every counter up to the one asked for; the last is the nonce.
nonce_function_rfc6979(in, counter) ==
  LET turns[i \in 0..counter] ==
        rfc6979_hmac_sha256_generate(IF i = 0 THEN rfc6979_hmac_sha256_initialize(Keydata(in)) ELSE turns[i - 1])
  IN  turns[counter].v

NonceNext == Fresh /\ \E a, b \in NonceInputs, i, j \in 0..1 :
  Call("nonce", <<a, i, b, j>>, <<nonce_function_rfc6979(a, i), nonce_function_rfc6979(b, j)>>)

HashesSpec ==
  HashInit /\ CallInit
  /\ [][(HashNext /\ UNCHANGED last) \/ (NonceNext /\ UNCHANGED hashing)]_<<hashing, last>>

\* Two signatures share a nonce only if they sign the same message with the same key
\* and the same extra data, at the same attempt: no mixture of arguments stands for
\* another.
NoncesDiffer ==
  Of("nonce", LAMBDA in, out : out[1] = out[2] => in[1] = in[3] /\ in[2] = in[4])

\* A digest is that of the padded message however it was cut into pieces, and two different
\* mixtures of key, message and data have different nonces (the two parts above).
HashesSound ==
  DigestOfMessage /\ NoncesDiffer
=============================================================================
