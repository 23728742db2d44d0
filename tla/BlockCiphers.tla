---------------------------- MODULE BlockCiphers ----------------------------
(***************************************************************************)
(* The block ciphers of gmssl.  AES: a state is four columns of four       *)
(* bytes, a word of the key schedule a column.  SM4: a word is its 32      *)
(* bits, the highest first.  The substitution tables are constants: any    *)
(* permutation of the bytes serves.                                        *)
(***************************************************************************)
EXTENDS Calls, Limbs

CONSTANTS
  AesS, Sm4S,          \* the substitution tables, permutations of 0..255
  AesKeys, Sm4Keys,    \* bounds: keys, sequences of bytes
  CipherBlocks,        \* bound: blocks of 16 bytes
  Sm4FK, Sm4CK         \* the words mixed into an SM4 key

Byte == 0..255
ASSUME TablesAssumption ==
  /\ {AesS[b] : b \in Byte} = Byte /\ {Sm4S[b] : b \in Byte} = Byte
  /\ Len(Sm4FK) = 4 /\ Len(Sm4CK) = 32

BitAt(n, i) == (n \div 2^i) % 2
XorNibbles == [p \in (0..15) \X (0..15) |->
                 LET bit(i) == ((BitAt(p[1], i) + BitAt(p[2], i)) % 2) * 2^i
                 IN  bit(0) + bit(1) + bit(2) + bit(3)]
XorByte(a, b) == 16 * XorNibbles[<<a \div 16, b \div 16>>] + XorNibbles[<<a % 16, b % 16>>]
XorWord(v, w) == Tuple([i \in DOMAIN v |-> XorByte(v[i], w[i])])
XorAll(bytes) == Fold(XorByte, 0, bytes)

-----------------------------------------------------------------------------
(* AES.                                                                    *)

S_inv == [b \in Byte |-> CHOOSE a \in Byte : AesS[a] = b]
Rcon == <<141, 1, 2, 4, 8, 16, 32, 64, 128, 27, 54>>      \* from 0

sub_word(w) == Tuple([i \in 1..4 |-> AesS[w[i]]])
rot_word(w) == <<w[2], w[3], w[4], w[1]>>

Rounds(keylen) == CASE keylen = 16 -> 10 [] keylen = 24 -> 12 [] keylen = 32 -> 14 [] OTHER -> 0
\* The words of the schedule from the key's own words on; 0 rounds for a key that is refused.
aes_set_encrypt_key(key) ==
  LET nk == Len(key) \div 4
      own == Tuple([i \in 1..nk |-> SubSeq(key, 4 * i - 3, 4 * i)])
      next(W, i) ==   \* i counts from 0
        LET t == Last(W)
            mixed == IF i % nk = 0
                     THEN LET u == sub_word(rot_word(t)) IN [u EXCEPT ![1] = XorByte(@, Rcon[i \div nk + 1])]
                     ELSE IF nk = 8 /\ i % 8 = 4 THEN sub_word(t) ELSE t
        IN  Append(W, XorWord(W[i - nk + 1], mixed))
      more == Tuple([k \in 1..(4 * (Rounds(Len(key)) + 1) - nk) |-> nk + k - 1])
  IN  IF Rounds(Len(key)) = 0 THEN [rounds |-> 0, rk |-> <<>>]
      ELSE [rounds |-> Rounds(Len(key)), rk |-> Fold(next, own, more)]
\* The four words of round i, from 0.
RoundKey(k, i) == SubSeq(k.rk, 4 * i + 1, 4 * i + 4)
RoundsReversed(enc) ==
  [enc EXCEPT !.rk = Tuple([j \in DOMAIN @ |-> RoundKey(enc, enc.rounds - ((j - 1) \div 4))[1 + ((j - 1) % 4)]])]
aes_set_decrypt_key(key) == RoundsReversed(aes_set_encrypt_key(key))

add_round_key(st, rk) == Tuple([c \in 1..4 |-> XorWord(st[c], rk[c])])
sub_bytes(st) == Tuple([c \in 1..4 |-> sub_word(st[c])])
inv_sub_bytes(st) == Tuple([c \in 1..4 |-> Tuple([r \in 1..4 |-> S_inv[st[c][r]]])])
\* Row r (from 1) is rotated by r - 1.
Column4(c) == 1 + (c % 4)
shift_rows(st) == Tuple([c \in 1..4 |-> Tuple([r \in 1..4 |-> st[Column4(c + r - 2)][r]])])
inv_shift_rows(st) == Tuple([c \in 1..4 |-> Tuple([r \in 1..4 |-> st[Column4(c - r + 4)][r]])])

x2(a) == IF a >= 128 THEN XorByte((2 * a) % 256, 27) ELSE 2 * a
x3(a) == XorByte(x2(a), a)
x8(a) == x2(x2(x2(a)))
x9(a) == XorByte(x8(a), a)
xb(a) == XorAll(<<x8(a), x2(a), a>>)
xd(a) == XorAll(<<x8(a), x2(x2(a)), a>>)
xe(a) == XorAll(<<x8(a), x2(x2(a)), x2(a)>>)
mix_columns(st) ==
  Tuple([c \in 1..4 |->
    LET s == st[c]
    IN  <<XorAll(<<x2(s[1]), x3(s[2]), s[3], s[4]>>), XorAll(<<s[1], x2(s[2]), x3(s[3]), s[4]>>),
          XorAll(<<s[1], s[2], x2(s[3]), x3(s[4])>>), XorAll(<<x3(s[1]), s[2], s[3], x2(s[4])>>)>>])
inv_mix_columns(st) ==
  Tuple([c \in 1..4 |->
    LET s == st[c]
    IN  <<XorAll(<<xe(s[1]), xb(s[2]), xd(s[3]), x9(s[4])>>), XorAll(<<x9(s[1]), xe(s[2]), xb(s[3]), xd(s[4])>>),
          XorAll(<<xd(s[1]), x9(s[2]), xe(s[3]), xb(s[4])>>), XorAll(<<xb(s[1]), xd(s[2]), x9(s[3]), xe(s[4])>>)>>])

Columns(in) == Tuple([c \in 1..4 |-> SubSeq(in, 4 * c - 3, 4 * c)])
StateBytes(st) == st[1] \o st[2] \o st[3] \o st[4]
aes_encrypt(k, in) ==
  LET round(st, i) == add_round_key(mix_columns(shift_rows(sub_bytes(st))), RoundKey(k, i))
      inner == Fold(round, add_round_key(Columns(in), RoundKey(k, 0)), UpTo(k.rounds - 1))
  IN  StateBytes(add_round_key(shift_rows(sub_bytes(inner)), RoundKey(k, k.rounds)))
aes_decrypt(k, in) ==
  LET round(st, i) == inv_mix_columns(add_round_key(inv_sub_bytes(inv_shift_rows(st)), RoundKey(k, i)))
      inner == Fold(round, add_round_key(Columns(in), RoundKey(k, 0)), UpTo(k.rounds - 1))
  IN  StateBytes(add_round_key(inv_sub_bytes(inv_shift_rows(inner)), RoundKey(k, k.rounds)))

-----------------------------------------------------------------------------
(* SM4.                                                                    *)

ByteBits(b) == Tuple([i \in 1..8 |-> BitAt(b, 8 - i)])
BitsByte(s) == Fold(LAMBDA acc, b : 2 * acc + b, 0, s)
Eighth(w, i) == SubSeq(w, 8 * i - 7, 8 * i)
GETU32(in, k) == ByteBits(in[k + 1]) \o ByteBits(in[k + 2]) \o ByteBits(in[k + 3]) \o ByteBits(in[k + 4])
PUTU32(w) == Tuple([i \in 1..4 |-> BitsByte(Eighth(w, i))])
\* The exclusive or of some words, bit by bit.
XorBits(words) == Tuple([i \in 1..32 |-> SumOf(Tuple([k \in DOMAIN words |-> words[k][i]])) % 2])
ROL32(w, n) == SubSeq(w, n + 1, 32) \o SubSeq(w, 1, n)

Sm4S32(w) == LET s(i) == ByteBits(Sm4S[BitsByte(Eighth(w, i))]) IN s(1) \o s(2) \o s(3) \o s(4)
L32(w) == XorBits(<<w, ROL32(w, 2), ROL32(w, 10), ROL32(w, 18), ROL32(w, 24)>>)
L32_(w) == XorBits(<<w, ROL32(w, 13), ROL32(w, 23)>>)
\* Thirty-two rounds: each makes a new word of the last four and drops the oldest.
ROUNDS(x, rk) ==
  Fold(LAMBDA s, k : Append(Tail(s), XorBits(<<s[1], L32(Sm4S32(XorBits(<<s[2], s[3], s[4], k>>)))>>)), x, rk)

\* Words 5..36: what each round of the key schedule makes is the key of that round.
Schedule(key) ==
  LET start == Tuple([i \in 1..4 |-> XorBits(<<GETU32(key, 4 * i - 4), Sm4FK[i]>>)])
      grow(s, ck) ==
        LET n == Len(s)
        IN  Append(s, XorBits(<<s[n - 3], L32_(Sm4S32(XorBits(<<s[n - 2], s[n - 1], s[n], ck>>)))>>))
  IN  SubSeq(Fold(grow, start, Sm4CK), 5, 36)
sm4_set_encrypt_key(key) == Schedule(key)
DecryptOrder(rk) == Reverse(rk)
sm4_set_decrypt_key(key) == DecryptOrder(Schedule(key))

\* One table look-up a byte (ROUND_TBOX) gives L32 of Sm4S32.
sm4_encrypt(rk, in) ==
  LET x == ROUNDS(Tuple([i \in 1..4 |-> GETU32(in, 4 * i - 4)]), rk)
  IN  PUTU32(x[4]) \o PUTU32(x[3]) \o PUTU32(x[2]) \o PUTU32(x[1])

-----------------------------------------------------------------------------

\* Every cipher with both of its keys.
BlockCiphersNext ==
  Fresh /\ (\/ \E key \in AesKeys, b \in CipherBlocks :
                 LET out == aes_encrypt(aes_set_encrypt_key(key), b)
                 IN  Call("aes", [key |-> key, block |-> b],
                          [out |-> out, back |-> aes_decrypt(aes_set_decrypt_key(key), out)])
            \/ \E key \in Sm4Keys, b \in CipherBlocks :
                 LET out == sm4_encrypt(sm4_set_encrypt_key(key), b)
                 IN  Call("sm4", [key |-> key, block |-> b],
                          [out |-> out, back |-> sm4_encrypt(sm4_set_decrypt_key(key), out)]))

\* With its decryption key each cipher takes back what it encrypted, for every
\* length of key.
Undone(in, out) == out.back = in.block /\ out.out # in.block
BlocksDecrypt == Of("aes", Undone) /\ Of("sm4", Undone)
=============================================================================
