----------------------------- MODULE Encodings -----------------------------
(***************************************************************************)
(* The text encodings of byte strings: hex, base64 and base58 as the class *)
(* bytes converts between them, the hex readers of the gmssl library, and  *)
(* the values that property trees and archives hold for byte strings.      *)
(* Bytes and characters are their codes.                                   *)
(***************************************************************************)
EXTENDS Calls, Limbs

CONSTANTS
  ByteStrings,    \* bound: the byte strings encoded
  HexTexts,       \* bound: the texts read as hex
  Base58Texts     \* bound: the texts read as base58

Invalid == <<-1>>                      \* the conversion failed
Flat(seqs) == Fold(LAMBDA acc, s : acc \o s, <<>>, seqs)

-----------------------------------------------------------------------------
(* hex.                                                                    *)

dec2hex(d) == IF d <= 9 THEN 48 + d ELSE 97 + d - 10
hex2dec(c) ==
  CASE c \in 48..57 -> c - 48
    [] c \in 65..70 -> c - 65 + 10
    [] c \in 97..102 -> c - 97 + 10
    [] OTHER -> -1

convert_bytes_to_hex(s) == Flat([k \in DOMAIN s |-> <<dec2hex(s[k] \div 16), dec2hex(s[k] % 16)>>])

HexPairs(s) == [k \in 1..(Len(s) \div 2) |-> <<hex2dec(s[2 * k - 1]), hex2dec(s[2 * k])>>]
PairsToBytes(pairs) ==
  IF \E k \in DOMAIN pairs : -1 \in {pairs[k][1], pairs[k][2]}
    THEN Invalid ELSE [k \in DOMAIN pairs |-> pairs[k][1] * 16 + pairs[k][2]]

\* convert_hex_to_bytes: a last digit without a partner is dropped.
convert_hex_to_bytes(s) == PairsToBytes(HexPairs(s))

\* hex2bin of gmssl: an odd number of digits is refused.
hex2bin(s) == IF Len(s) % 2 = 1 THEN Invalid ELSE PairsToBytes(HexPairs(s))

\* OPENSSL_hexstr2buf: colons between the bytes are skipped, nowhere else.
Colon == 58
OPENSSL_hexstr2buf(s) ==
  LET from[i \in 1..(Len(s) + 1)] ==
        CASE i > Len(s) -> <<>>
          [] i <= Len(s) /\ s[i] = Colon -> from[i + 1]
          [] i = Len(s) /\ s[i] # Colon -> Invalid
          [] OTHER ->
               IF -1 \in {hex2dec(s[i]), hex2dec(s[i + 1])} \/ from[i + 2] = Invalid
                 THEN Invalid
                 ELSE <<hex2dec(s[i]) * 16 + hex2dec(s[i + 1])>> \o from[i + 2]
  IN  from[1]

-----------------------------------------------------------------------------
(* base64.                                                                 *)

Base64Pad(url) == IF url THEN 46 ELSE 61
base64_char(v, url) ==
  CASE v < 26 -> 65 + v
    [] v \in 26..51 -> 97 + v - 26
    [] v \in 52..61 -> 48 + v - 52
    [] v = 62 -> IF url THEN 45 ELSE 43
    [] v = 63 -> IF url THEN 95 ELSE 47

pos_of_char(c) ==
  CASE c \in 65..90 -> c - 65
    [] c \in 97..122 -> c - 97 + 26
    [] c \in 48..57 -> c - 48 + 52
    [] c \in {43, 45} -> 62
    [] c \in {47, 95} -> 63
    [] OTHER -> -1

\* base64_encode of the (up to three) bytes of one round of the loop.
Encode3(b, url) ==
  LET c(v) == base64_char(v, url)
      pad == Base64Pad(url)
  IN  CASE Len(b) = 1 -> <<c(b[1] \div 4), c((b[1] % 4) * 16), pad, pad>>
        [] Len(b) = 2 -> <<c(b[1] \div 4), c((b[1] % 4) * 16 + b[2] \div 16),
                           c((b[2] % 16) * 4), pad>>
        [] Len(b) = 3 -> <<c(b[1] \div 4), c((b[1] % 4) * 16 + b[2] \div 16),
                           c((b[2] % 16) * 4 + b[3] \div 64), c(b[3] % 64)>>

Pieces(s, n) ==
  [k \in 1..((Len(s) + n - 1) \div n) |->
     SubSeq(s, (k - 1) * n + 1, IF k * n < Len(s) THEN k * n ELSE Len(s))]

base64_encode(s, url) == Flat([k \in DOMAIN Pieces(s, 3) |-> Encode3(Pieces(s, 3)[k], url)])

\* One round of decode: up to four characters, the padding optional.  A piece
\* of one character reads the NUL behind the string, which is no character.
Decode4(t) ==
  LET p == [k \in DOMAIN t |-> pos_of_char(t[k])]
      has(k) == Len(t) >= k /\ t[k] \notin {61, 46}
      first == (p[1] * 4 + p[2] \div 16) % 256
      second == (p[2] % 16) * 16 + p[3] \div 4
      third == ((p[3] % 4) * 64 + p[4]) % 256
  IN  IF Len(t) < 2 \/ p[1] = -1 \/ p[2] = -1 THEN Invalid
      ELSE IF ~has(3) THEN <<first>>
      ELSE IF p[3] = -1 THEN Invalid
      ELSE IF ~has(4) THEN <<first, second>>
      ELSE IF p[4] = -1 THEN Invalid
      ELSE <<first, second, third>>

base64_decode(s, remove_linebreaks) ==
  LET text == IF remove_linebreaks THEN SelectSeq(s, LAMBDA c : c # 10) ELSE s
      out == [k \in DOMAIN Pieces(text, 4) |-> Decode4(Pieces(text, 4)[k])]
  IN  IF Invalid \in ToSet(out) THEN Invalid ELSE Flat(out)

\* insert_linebreaks, as the pem and mime forms use it.
insert_linebreaks(s, distance) ==
  LET lines == Pieces(s, distance)
  IN  Flat([k \in DOMAIN lines |-> IF k < Len(lines) THEN Append(lines[k], 10) ELSE lines[k]])

-----------------------------------------------------------------------------
(* base58.  A number is kept in a buffer of fixed size, least digit last;  *)
(* a carry left over at its end is the code's failed assert.               *)

\* number := number * from + carry in base "to": the cells in use, and new ones
\* while there is a carry and room for them.
MulAdd(number, carry, from, to, room) ==
  LET n == Len(number.cells)
      step(p, k) ==              \* the last k cells done
        LET c == p.carry + IF k <= n THEN from * number.cells[n + 1 - k] ELSE 0
        IN  IF p.carry = 0 /\ k > n THEN p
            ELSE [cells |-> <<c % to>> \o p.cells, carry |-> c \div to]
      done == Fold(step, [cells |-> <<>>, carry |-> carry], UpTo(room))
  IN  [cells |-> done.cells, ok |-> number.ok /\ done.carry = 0]

Leading(s, x) == IF \A i \in DOMAIN s : s[i] = x THEN Len(s)
                 ELSE (CHOOSE i \in DOMAIN s : s[i] # x /\ \A j \in 1..(i - 1) : s[j] = x) - 1
Zeroes(n, x) == [k \in 1..n |-> x]

\* s, a number in base "from", in base "to" with room for "room" digits;
\* leading zeroes are dropped.
Rebased(s, room, from, to) ==
  LET r == Fold(LAMBDA acc, d : MulAdd(acc, d, from, to, room), [cells |-> <<>>, ok |-> TRUE], s)
  IN  [text |-> SubSeq(r.cells, Leading(r.cells, 0) + 1, Len(r.cells)), ok |-> r.ok]

Base58Alphabet ==    \* psz_base58
  [v \in 0..57 |-> CASE v < 9 -> 49 + v
                     [] v \in 9..16 -> 65 + v - 9
                     [] v \in 17..21 -> 74 + v - 17
                     [] v \in 22..32 -> 80 + v - 22
                     [] v \in 33..43 -> 97 + v - 33
                     [] v \in 44..57 -> 109 + v - 44]
map_base58(c) == IF \E v \in 0..57 : Base58Alphabet[v] = c
                   THEN CHOOSE v \in 0..57 : Base58Alphabet[v] = c ELSE -1

DecodedRoom(n) == (n * 733) \div 1000 + 1
EncodedRoom(n) == (n * 138) \div 100 + 1

encode_base58(s) ==
  LET z == Leading(s, 0)
      rest == SubSeq(s, z + 1, Len(s))
      r == Rebased(rest, EncodedRoom(Len(rest)), 256, 58)
  IN  [text |-> Zeroes(z, 49) \o [k \in DOMAIN r.text |-> Base58Alphabet[r.text[k]]],
       ok |-> r.ok]

IsSpace(c) == c \in {9, 10, 11, 12, 13, 32}
\* decode_base58: blanks around the text are skipped, the room for the number
\* is estimated from the text with its trailing blanks.
decode_base58(t) ==
  LET b == IF \A i \in DOMAIN t : IsSpace(t[i]) THEN <<>>
           ELSE SubSeq(t, CHOOSE i \in DOMAIN t : ~IsSpace(t[i]) /\
                                   \A j \in 1..(i - 1) : IsSpace(t[j]), Len(t))
      z == Leading(b, 49)
      rest == SubSeq(b, z + 1, Len(b))
      n == IF \E i \in DOMAIN rest : IsSpace(rest[i])
             THEN (CHOOSE i \in DOMAIN rest : IsSpace(rest[i]) /\
                     \A j \in 1..(i - 1) : ~IsSpace(rest[j])) - 1
             ELSE Len(rest)
      digits == [k \in 1..n |-> map_base58(rest[k])]
      r == Rebased(digits, DecodedRoom(Len(rest)), 58, 256)
  IN  IF (\E k \in 1..n : digits[k] = -1) \/ \E k \in (n + 1)..Len(rest) : ~IsSpace(rest[k])
        THEN [text |-> Invalid, ok |-> TRUE]
        ELSE [text |-> Zeroes(z, 0) \o r.text, ok |-> r.ok]

-----------------------------------------------------------------------------
(* What a property tree holds: raw bytes as hex, other formats as they     *)
(* are; a value is read up to the first blank.                             *)

put_value(raw, data) == IF raw THEN convert_bytes_to_hex(data) ELSE data
FirstWord(s) ==
  LET word == {i \in DOMAIN s : ~IsSpace(s[i])}
      i == CHOOSE x \in word : \A y \in word : x <= y
      gap == {j \in i..Len(s) : IsSpace(s[j])}
      j == CHOOSE x \in gap : \A y \in gap : x <= y
  IN  IF word = {} THEN <<>> ELSE SubSeq(s, i, IF gap = {} THEN Len(s) ELSE j - 1)
get_value(raw, s) == IF raw THEN convert_hex_to_bytes(FirstWord(s)) ELSE FirstWord(s)

\* number_to_byte and byte_to_number for a type of the given size: big endian,
\* a string too short is the number 0, one too long is cut.
number_to_byte(v, size) == [k \in 1..size |-> (v \div 256^(size - k)) % 256]
byte_to_number(s, size) ==
  IF Len(s) < size THEN 0
  ELSE FoldLeft(LAMBDA acc, b : acc * 256 + b, 0, SubSeq(s, 1, size))

\* change_pubkey_endian reverses each half in place; the swaps go to the
\* middle of a half and no further.
change_pubkey_endian(s) ==
  LET step == Len(s) \div 2
  IN  [i \in DOMAIN s |-> IF i <= step THEN s[step + 1 - i] ELSE s[Len(s) + step + 1 - i]]

\* archive_helper of bytes: the length in front, as the machine holds it.
serialize_bytes(s) == <<Len(s)>> \o s
deserialize_bytes(buf) == SubSeq(buf, 2, 1 + Head(buf))

-----------------------------------------------------------------------------
(* The calls.                                                              *)

CallEncode ==
  \E s \in ByteStrings, url \in BOOLEAN :
    Call("encode", s,
         [hex |-> convert_hex_to_bytes(convert_bytes_to_hex(s)),
          bin |-> hex2bin(convert_bytes_to_hex(s)),
          base64 |-> base64_decode(base64_encode(s, url), FALSE),
          lines |-> base64_decode(insert_linebreaks(base64_encode(s, FALSE), 4), TRUE),
          base58 |-> decode_base58(encode_base58(s).text).text,
          tree |-> get_value(TRUE, put_value(TRUE, s)),
          archive |-> deserialize_bytes(serialize_bytes(s)),
          number |-> IF Len(s) = 3 THEN number_to_byte(byte_to_number(s, 3), 3) ELSE s,
          key |-> IF Len(s) % 2 = 0 THEN change_pubkey_endian(change_pubkey_endian(s)) ELSE s])

CallReadHex ==
  \E t \in HexTexts :
    Call("read_hex", t, [common |-> convert_hex_to_bytes(t), gmssl |-> hex2bin(t),
                         openssl |-> OPENSSL_hexstr2buf(t)])

CallBase58 ==
  \/ \E t \in Base58Texts : Call("base58", t, decode_base58(t))
  \/ \E s \in ByteStrings : Call("base58", s, encode_base58(s))

EncodingsNext == Fresh /\ (CallBase58 \/ CallEncode \/ CallReadHex)

-----------------------------------------------------------------------------
(* Properties.                                                             *)

\* Every encoding gives back the bytes it was given: hex by either reader,
\* base64 in both alphabets and with line breaks, base58 with leading zeroes,
\* the value of a property tree, an archive, a number, a key's byte order.
EncodingRoundTrip ==
  Of("encode", LAMBDA in, out : \A f \in DOMAIN out : out[f] = in)

\* The three hex readers agree wherever none of them refuses, but for the last
\* digit of an odd text, which only convert_hex_to_bytes drops.
HexReadersAgree ==
  Of("read_hex", LAMBDA in, out :
       /\ out.gmssl # Invalid => out.common = out.gmssl /\ out.openssl = out.gmssl
       /\ Len(in) % 2 = 0 /\ out.common # Invalid => out.gmssl = out.common)

\* The room estimated for a base58 conversion is never too small: the asserts
\* carry == 0 of decode_base58 and encode_base58.
Base58Fits == Of("base58", LAMBDA in, out : out.ok)
=============================================================================
