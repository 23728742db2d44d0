-------------------------------- MODULE Asn1 --------------------------------
(***************************************************************************)
(* The DER writers and readers of gmssl.  A writer returns the bytes it    *)
(* appends (the length it counts when it has no buffer is their number).   *)
(* A reader is given the bytes that are left and returns what the code     *)
(* returns, the value read, and where it leaves *in.                       *)
(***************************************************************************)
EXTENDS Calls, SequencesExt

CONSTANTS
  DerValues,      \* bound: [kind, value] pairs written
  DerTrailers,    \* bound: what follows a value in the buffer
  DerInputs,      \* bound: [kind, bytes] pairs read as they are
  OidTable,       \* the identifiers a table of ASN1_OID_INFO holds
  MaxOidNodes     \* 32: the nodes of an object identifier

ASSUME OidAssumption == MaxOidNodes \in Nat \ {0, 1}

TagBoolean == 1
TagInteger == 2
TagBitString == 3
TagNull == 5
TagOid == 6
TagUTF8String == 12
TagSequence == 48

Absent == <<>>                         \* nothing is written: the value is optional
Got(ret, val, rest) == [ret |-> ret, val |-> val, rest |-> rest]
NoVal == "unset"
From(s, k) == SubSeq(s, k, Len(s))
Concat(seqs) == FoldLeft(LAMBDA acc, s : acc \o s, <<>>, seqs)
RECURSIVE Digits(_, _)
Digits(n, base) == IF n < base THEN <<n>> ELSE Digits(n \div base, base) \o <<n % base>>

-----------------------------------------------------------------------------
(* Tags, lengths and contents.                                             *)

asn1_length_to_der(len) ==
  IF len < 128 THEN <<len>> ELSE <<128 + Len(Digits(len, 256))>> \o Digits(len, 256)

asn1_type_to_der(tag, d) == <<tag>> \o asn1_length_to_der(Len(d)) \o d
asn1_any_to_der(tlv) == tlv

BigEndian(bytes) == FoldLeft(LAMBDA acc, b : acc * 256 + b, 0, bytes)

\* asn1_length_from_der: up to four bytes of length, minimal or not.  A length
\* beyond the bytes that are left is -2, and the length has been consumed.
asn1_length_from_der(s) ==
  IF s = <<>> THEN Got(-1, NoVal, s)
  ELSE LET n == s[1] - 128
           long == s[1] >= 128
           len == IF long THEN BigEndian(SubSeq(s, 2, n + 1)) ELSE s[1]
           rest == From(s, IF long THEN n + 2 ELSE 2)
       IN  IF long /\ (n \notin 1..4 \/ n > Len(s) - 1) THEN Got(-1, NoVal, s)
           ELSE Got(IF len > Len(rest) THEN -2 ELSE 1, len, rest)

asn1_tag_from_der(tag, s) == s # <<>> /\ s[1] = tag

\* The contents after a tag that was matched or taken as it is.
ContentsOf(l) ==
  IF l.ret # 1 THEN Got(-1, NoVal, l.rest)
  ELSE Got(1, SubSeq(l.rest, 1, l.val), From(l.rest, l.val + 1))
Contents(s) == ContentsOf(asn1_length_from_der(From(s, 2)))
\* What follows when a value was read; a reader that gave none is passed on.
Then(r, next(_)) == IF r.ret = 1 THEN next(r) ELSE r

asn1_type_from_der(tag, s) ==
  IF ~asn1_tag_from_der(tag, s) THEN Got(0, NoVal, s) ELSE Contents(s)

asn1_any_type_from_der(s) ==
  IF s = <<>> THEN Got(0, NoVal, s) ELSE Contents(s)

\* asn1_any_from_der returns the whole of the element it steps over.
asn1_any_from_der(s) ==
  Then(asn1_any_type_from_der(s), LAMBDA r : Got(1, SubSeq(s, 1, Len(s) - Len(r.rest)), r.rest))

-----------------------------------------------------------------------------
(* BOOLEAN, INTEGER, NULL.                                                 *)

asn1_boolean_to_der_ex(tag, val) ==
  IF val < 0 THEN Absent ELSE <<tag, 1, IF val = 0 THEN 0 ELSE 255>>
asn1_boolean_from_der_ex(tag, s) ==
  CASE ~asn1_tag_from_der(tag, s) -> Got(0, -1, s)
    [] OTHER ->
         IF Len(s) < 3 \/ s[2] # 1 \/ s[3] \notin {0, 255} THEN Got(-1, NoVal, s)
         ELSE Got(1, IF s[3] = 0 THEN 0 ELSE 1, From(s, 4))

StripZeros(a) ==
  LET k == CHOOSE j \in 1..Len(a) : /\ j = Len(a) \/ a[j] # 0
                                    /\ \A i \in 1..(j - 1) : a[i] = 0
  IN  From(a, k)

\* A number whose first bit is set gets a zero byte in front.
Signed(a) == IF a[1] >= 128 THEN <<0>> \o a ELSE a
asn1_integer_to_der_ex(tag, a) == asn1_type_to_der(tag, Signed(StripZeros(a)))

\* Negative numbers are refused, and so are two leading zero bytes.
IntegerIn(s, c) ==
  LET strip(a) == IF a[1] = 0 /\ Len(a) > 1 THEN Tail(a) ELSE a
  IN  CASE c.ret # 1 \/ c.val = <<>> -> Got(-1, NoVal, s)
        [] OTHER ->
             IF c.val[1] >= 128 THEN Got(-255, NoVal, s)
             ELSE IF strip(c.val)[1] = 0 /\ Len(strip(c.val)) > 1 THEN Got(-1, NoVal, s)
             ELSE Got(1, strip(c.val), c.rest)
asn1_integer_from_der_ex(tag, s) ==
  IF ~asn1_tag_from_der(tag, s) THEN Got(0, NoVal, s) ELSE IntegerIn(s, Contents(s))

\* -1 stands for a value that is absent; every other negative int is written as 0.
asn1_int_to_der_ex(tag, a) ==
  IF a = -1 THEN Absent
  ELSE asn1_integer_to_der_ex(tag, IF a <= 0 THEN <<0>> ELSE Digits(a, 256))

\* Up to eight bytes are read into 32 bits: the last four stay, as an int.
Int32(a) ==
  IF Len(a) < 4 THEN BigEndian(a)
  ELSE LET b == From(a, Len(a) - 3)
       IN  (IF b[1] >= 128 THEN b[1] - 256 ELSE b[1]) * 2^24 + BigEndian(Tail(b))
IntIn(r) ==
  CASE r.ret = 0 -> Got(0, -1, r.rest)
    [] r.ret < 0 -> r
    [] OTHER -> IF Len(r.val) > 8 THEN Got(-1, NoVal, r.rest) ELSE Got(1, Int32(r.val), r.rest)
asn1_int_from_der_ex(tag, s) == IntIn(asn1_integer_from_der_ex(tag, s))

asn1_null_to_der == <<TagNull, 0>>
asn1_null_from_der(s) ==
  CASE ~asn1_tag_from_der(TagNull, s) -> Got(0, NoVal, s)
    [] OTHER -> IF Len(s) < 2 \/ s[2] # 0 THEN Got(-1, NoVal, s) ELSE Got(1, 0, From(s, 3))

-----------------------------------------------------------------------------
(* BIT STRING: whole strings, octets, and the bits of an int.              *)

UnusedBits(nbits) == (8 - (nbits % 8)) % 8
asn1_bit_string_to_der_ex(tag, bytes, nbits) ==
  asn1_type_to_der(tag, <<UnusedBits(nbits)>> \o SubSeq(bytes, 1, (nbits + 7) \div 8))
asn1_bit_octets_to_der_ex(tag, octs) == asn1_bit_string_to_der_ex(tag, octs, 8 * Len(octs))

\* The count of unused bits is checked (8 passes) and then not used: the bits
\* read are all the bits of the bytes.
asn1_bit_string_from_der_ex(tag, s) ==
  Then(asn1_type_from_der(tag, s), LAMBDA r :
    IF Len(r.val) < 2 \/ r.val[1] > 8 THEN Got(-1, NoVal, r.rest)
    ELSE Got(1, [bytes |-> Tail(r.val), nbits |-> 8 * (Len(r.val) - 1)], r.rest))
asn1_bit_octets_from_der_ex(tag, s) ==
  Then(asn1_bit_string_from_der_ex(tag, s), LAMBDA r : Got(1, r.val.bytes, r.rest))

BitOf(n, i) == (n \div 2^i) % 2
\* Bit i of the int is bit i of the string, the first bit of a byte its highest.
asn1_bits_to_der_ex(tag, bits) ==
  LET nbits == IF bits = 0 THEN 1 ELSE Len(Digits(bits, 2))
      byte(k) == FoldLeft(LAMBDA acc, i : acc + BitOf(bits, 8 * k + i) * 2^(7 - i), 0,
                          SelectSeq(<<0, 1, 2, 3, 4, 5, 6, 7>>, LAMBDA i : 8 * k + i < nbits))
  IN  IF bits < 0 THEN Absent
      ELSE asn1_bit_string_to_der_ex(tag, [k \in 1..((nbits + 7) \div 8) |-> byte(k - 1)], nbits)
MostBits(n) == n <= 31
asn1_bits_from_der_ex(tag, s) ==
  LET bit(bytes, i) == BitOf(bytes[i \div 8 + 1], 7 - (i % 8)) * 2^i
  IN  Then(asn1_bit_string_from_der_ex(tag, s), LAMBDA r :
        IF ~MostBits(r.val.nbits) THEN Got(-1, NoVal, r.rest)
        ELSE Got(1, FoldLeft(LAMBDA acc, i : acc + bit(r.val.bytes, i - 1), 0, [i \in 1..r.val.nbits |-> i]), r.rest))

-----------------------------------------------------------------------------
(* OBJECT IDENTIFIER.                                                      *)

\* Seven bits a byte, every byte but the last with its high bit set.
asn1_oid_node_to_base128(a) ==
  LET d == Digits(a, 128) IN [k \in DOMAIN d |-> IF k < Len(d) THEN 128 + d[k] ELSE d[k]]

asn1_object_identifier_to_octets(nodes) ==
  IF Len(nodes) \notin 2..MaxOidNodes THEN <<>>
  ELSE <<(nodes[1] * 40 + nodes[2]) % 256>> \o
       Concat([k \in 1..(Len(nodes) - 2) |-> asn1_oid_node_to_base128(nodes[k + 2])])

\* The result of to_octets is not looked at: a refused identifier is written
\* with no octets.
asn1_object_identifier_to_der_ex(tag, nodes) ==
  asn1_type_to_der(tag, asn1_object_identifier_to_octets(nodes))

\* The first node of s, up to five bytes; five bytes must leave 32 bits.
asn1_oid_node_from_base128(s) ==
  LET ends == {k \in 1..Len(s) : k <= 5 /\ s[k] < 128}
      n == CHOOSE k \in ends : \A j \in ends : k <= j
  IN  IF ends = {} \/ (n = 5 /\ (s[1] \div 16) % 8 # 0) THEN Got(-1, NoVal, s)
      ELSE Got(1, FoldLeft(LAMBDA acc, b : acc * 128 + (b % 128), 0, SubSeq(s, 1, n)), From(s, n + 1))

RECURSIVE OidNodes(_, _)
OidNodes(nodes, s) ==
  IF s = <<>> THEN Got(1, nodes, s)
  ELSE LET r == asn1_oid_node_from_base128(s)
       IN  IF Len(nodes) > MaxOidNodes \/ r.ret < 0 THEN Got(-1, NoVal, s)
           ELSE OidNodes(Append(nodes, r.val), r.rest)
asn1_object_identifier_from_octets(s) ==
  IF s = <<>> THEN Got(-1, NoVal, s) ELSE OidNodes(<<s[1] \div 40, s[1] % 40>>, Tail(s))

NodesIn(o, rest) == Got(IF o.ret = 1 THEN 1 ELSE -1, o.val, rest)
asn1_object_identifier_from_der_ex(tag, s) ==
  Then(asn1_type_from_der(tag, s), LAMBDA r : NodesIn(asn1_object_identifier_from_octets(r.val), r.rest))

\* The entry of a table of identifiers; an identifier that is not there is read
\* successfully and has no entry.
asn1_oid_info_from_der(s) ==
  Then(asn1_object_identifier_from_der_ex(TagOid, s), LAMBDA r :
    Got(1, SelectInSeq(OidTable, LAMBDA i : i = r.val), r.rest))

-----------------------------------------------------------------------------
(* Strings and sequences of ints.                                          *)

\* asn1_string_from_der refuses an empty string, the typed readers do not.
StringIn(s, r) == IF r.ret < 0 \/ (r.ret = 1 /\ r.val = <<>>) THEN Got(-1, NoVal, s) ELSE r
asn1_string_from_der(tag, s) == StringIn(s, asn1_type_from_der(tag, s))

\* An int that is absent makes the whole sequence fail.
asn1_sequence_of_int_to_der(nums) ==
  IF -1 \in Range(nums) THEN Absent
  ELSE asn1_type_to_der(TagSequence,
         Concat([k \in DOMAIN nums |-> asn1_int_to_der_ex(TagInteger, nums[k])]))
\* The ints one after the other; what is not an int makes the whole sequence fail.
RECURSIVE IntsAfter(_, _)
IntsAfter(nums, r) ==
  IF r.ret # 1 THEN Got(-1, NoVal, <<>>)
  ELSE IF r.rest = <<>> THEN Got(1, Append(nums, r.val), <<>>)
  ELSE IntsAfter(Append(nums, r.val), asn1_int_from_der_ex(TagInteger, r.rest))
IntsOf(s) == IF s = <<>> THEN Got(1, <<>>, s) ELSE IntsAfter(<<>>, asn1_int_from_der_ex(TagInteger, s))
asn1_sequence_of_int_from_der(s) ==
  Then(asn1_type_from_der(TagSequence, s), LAMBDA r : [IntsOf(r.val) EXCEPT !.rest = r.rest])

-----------------------------------------------------------------------------

KindTag == [boolean |-> TagBoolean, integer |-> TagInteger, int |-> TagInteger,
            bits |-> TagBitString, octets |-> TagBitString, null |-> TagNull, oid |-> TagOid, info |-> TagOid,
            string |-> TagUTF8String, type |-> TagUTF8String, ints |-> TagSequence]
DerKinds == DOMAIN KindTag

ToDer(kind, v) ==
  LET tag == KindTag[kind]
  IN  CASE kind = "boolean" -> asn1_boolean_to_der_ex(tag, v)
        [] kind = "integer" -> asn1_integer_to_der_ex(tag, v)
        [] kind = "int" -> asn1_int_to_der_ex(tag, v)
        [] kind = "bits" -> asn1_bits_to_der_ex(tag, v)
        [] kind = "octets" -> asn1_bit_octets_to_der_ex(tag, v)
        [] kind = "null" -> asn1_null_to_der
        [] kind = "oid" -> asn1_object_identifier_to_der_ex(tag, v)
        [] kind = "info" -> asn1_object_identifier_to_der_ex(tag, OidTable[v])
        [] kind = "ints" -> asn1_sequence_of_int_to_der(v)
        [] OTHER -> asn1_type_to_der(tag, v)

FromDer(kind, s) ==
  LET tag == KindTag[kind]
  IN  CASE kind = "boolean" -> asn1_boolean_from_der_ex(tag, s)
        [] kind = "integer" -> asn1_integer_from_der_ex(tag, s)
        [] kind = "int" -> asn1_int_from_der_ex(tag, s)
        [] kind = "bits" -> asn1_bits_from_der_ex(tag, s)
        [] kind = "octets" -> asn1_bit_octets_from_der_ex(tag, s)
        [] kind = "null" -> asn1_null_from_der(s)
        [] kind = "oid" -> asn1_object_identifier_from_der_ex(tag, s)
        [] kind = "info" -> asn1_oid_info_from_der(s)
        [] kind = "ints" -> asn1_sequence_of_int_from_der(s)
        [] kind = "string" -> asn1_string_from_der(tag, s)
        [] OTHER -> asn1_type_from_der(tag, s)

\* A value is written, something follows it, and it is read.
ReadBack(kind, der, after) ==
  [der |-> der, got |-> FromDer(kind, der \o after), any |-> asn1_any_from_der(der \o after)]
WriteRead(kind, v, after) ==
  Call("der", [kind |-> kind, val |-> v, after |-> after], ReadBack(kind, ToDer(kind, v), after))
\* Bytes from elsewhere are read.
ReadDer(kind, s) == Call("read_der", [kind |-> kind, bytes |-> s], FromDer(kind, s))

Asn1Next ==
  Fresh /\ (\/ \E v \in DerValues, after \in DerTrailers : WriteRead(v.kind, v.val, after)
            \/ \E i \in DerInputs : ReadDer(i.kind, i.bytes))

-----------------------------------------------------------------------------
(* Properties.                                                             *)

\* What is written and present is read back as the same value, whatever
\* follows, and the reader stops exactly where the value ends; so does the
\* reader that steps over any element.  It holds for the bits of an int below
\* 2^24 only: a fourth byte of bits is written and refused when read.
Writable(kind, v) ==
  CASE kind = "int" -> v >= 0
    [] kind = "ints" -> \A k \in DOMAIN v : v[k] >= 0
    [] kind = "bits" -> v < 2^24
    [] kind = "oid" -> Len(v) \in 2..MaxOidNodes /\ v[1] * 40 + v[2] < 256 /\ v[2] < 40
    [] kind \in {"string", "octets"} -> v # <<>>
    [] OTHER -> TRUE
ReadAs(kind, v) ==
  CASE kind = "integer" -> StripZeros(v)
    [] kind = "boolean" -> IF v = 0 THEN 0 ELSE 1
    [] OTHER -> v
DerRoundTrip ==
  Of("der", LAMBDA in, out :
       (out.der # Absent /\ Writable(in.kind, in.val)) =>
         /\ out.got.ret = 1
         /\ out.got.val = ReadAs(in.kind, in.val)
         /\ out.got.rest = in.after
         /\ out.any = Got(1, out.der, in.after))

\* A reader that finds no element of its tag says so and consumes nothing, so
\* that the next optional element can be tried; one that succeeds consumes
\* exactly one element, the one asn1_any_from_der steps over.
OneElement ==
  Of("read_der", LAMBDA in, out :
       /\ (out.ret = 0) = ~asn1_tag_from_der(KindTag[in.kind], in.bytes)
       /\ out.ret = 0 => out.rest = in.bytes
       /\ out.ret = 1 => out.rest = asn1_any_from_der(in.bytes).rest)
=============================================================================
