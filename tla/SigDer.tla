------------------------------- MODULE SigDer -------------------------------
(***************************************************************************)
(* The two forms in which secp256k1 writes and reads a signature: DER and  *)
(* the compact one.  Scalars have ScalarBytes bytes instead of 32; a byte  *)
(* string is a sequence of bytes, and a reader keeps what is left of it.   *)
(***************************************************************************)
EXTENDS Calls, Limbs

CONSTANTS
  ScalarBytes,    \* bound: the bytes of a scalar
  SigOrder,       \* bound: the order, a number of that many bytes
  SigScalars,     \* bound: the scalars written
  SigBuffers,     \* bound: the sizes of the buffers written to
  SigInputs,      \* bound: the byte strings read as DER
  CompactInputs   \* bound: the byte strings read as compact signatures

ASSUME SigAssumption == ScalarBytes \in Nat \ {0} /\ SigOrder \in 1..(256^ScalarBytes - 1)

ToNumber(b) == Fold(LAMBDA acc, d : acc * 256 + d, 0, b)
ToBytes(x) == Tuple([k \in 1..ScalarBytes |-> (x \div 256^(ScalarBytes - k)) % 256])

SizeofSize == 8
Rest(b, n) == SubSeq(b, n + 1, Len(b))
Bad == [len |-> -1, rest |-> <<>>]

-----------------------------------------------------------------------------
(* Reading.                                                                *)

\* The long form: the bytes one by one, given up as soon as the value and what is
\* still to be read exceed what is there.
ReadLong(b, n) ==
  LET step(acc, k) ==
        IF acc.len = -1 THEN acc
        ELSE LET v == acc.len * 256 + b[k] IN
             IF v + (n - k + 1) > Len(b) - k + 1 THEN Bad ELSE [len |-> v, rest |-> Rest(b, k)]
      all == Fold(step, [len |-> 0, rest |-> b], UpTo(n))
  IN  IF all.len < 128 THEN Bad ELSE all
der_read_len(b) ==
  CASE b = <<>> -> Bad
    [] b # <<>> /\ b[1] \in {128, 255} -> Bad
    [] b # <<>> /\ b[1] < 128 -> [len |-> b[1], rest |-> Rest(b, 1)]
    [] OTHER -> LET n == b[1] - 128
                    c == Rest(b, 1)
                IN  IF n > Len(c) \/ c[1] = 0 \/ n > SizeofSize THEN Bad ELSE ReadLong(c, n)

NoInteger == [ok |-> FALSE, val |-> 0, rest |-> <<>>]
\* Padding that DER does not allow: a zero before a byte without, a 255 before one
\* with its top bit.
OnlyOnesPadded(b, n) == n > 1 /\ b[1] = 255 /\ b[2] >= 128
Padded(b, n) == n > 1 /\ ((b[1] = 0 /\ b[2] < 128) \/ (b[1] = 255 /\ b[2] >= 128))
\* A negative number, one of too many bytes and one that is not below the order
\* are read as zero.
der_parse_integer(b) ==
  IF b = <<>> \/ b[1] # 2 THEN NoInteger
  ELSE LET l == der_read_len(Rest(b, 1))
           c == l.rest
           zeros == {n \in 0..l.len : \A k \in 1..n : c[k] = 0}
           skipped == CHOOSE n \in zeros : \A m \in zeros : m <= n
           digits == SubSeq(c, skipped + 1, l.len)
           over == c[1] >= 128 \/ Len(digits) > ScalarBytes \/ ToNumber(digits) >= SigOrder
       IN  IF l.len <= 0 \/ l.len > Len(c) THEN NoInteger
           ELSE IF Padded(c, l.len) THEN NoInteger
           ELSE [ok |-> TRUE, val |-> IF over THEN 0 ELSE ToNumber(digits), rest |-> Rest(c, l.len)]

NoSignature == [ret |-> 0, r |-> 0, s |-> 0]
ecdsa_sig_parse(b) ==
  IF b = <<>> \/ b[1] # 48 THEN NoSignature
  ELSE LET l == der_read_len(Rest(b, 1))
           r == der_parse_integer(l.rest)
           s == der_parse_integer(r.rest)
       IN  IF l.len < 0 \/ l.len # Len(l.rest) THEN NoSignature
           ELSE IF ~r.ok \/ ~s.ok \/ s.rest # <<>> THEN NoSignature
           ELSE [ret |-> 1, r |-> r.val, s |-> s.val]
\* A failure leaves a signature of zeros.
ecdsa_signature_parse_der(b) == ecdsa_sig_parse(b)

\* The two overflows are looked at one after the other.
ecdsa_signature_parse_compact(b) ==
  LET r == ToNumber(SubSeq(b, 1, ScalarBytes))
      s == ToNumber(Rest(b, ScalarBytes))
  IN  IF r >= SigOrder \/ s >= SigOrder THEN NoSignature ELSE [ret |-> 1, r |-> r, s |-> s]

-----------------------------------------------------------------------------
(* Writing.                                                                *)

\* A zero in front, taken away again as long as the next byte has no top bit.
Shortest(x) ==
  LET b == <<0>> \o ToBytes(x)
      cuts == {n \in 0..ScalarBytes : \A k \in 1..n : b[k] = 0 /\ b[k + 1] < 128}
  IN  Rest(b, CHOOSE n \in cuts : \A m \in cuts : m <= n)
\* The size needed is reported even when the buffer is too small.
ecdsa_sig_serialize(r, s, size) ==
  LET a == Shortest(r)
      b == Shortest(s)
      need == 6 + Len(a) + Len(b)
  IN  [ret |-> IF size < need THEN 0 ELSE 1, size |-> need,
       out |-> IF size < need THEN <<>>
               ELSE <<48, 4 + Len(a) + Len(b), 2, Len(a)>> \o a \o <<2, Len(b)>> \o b]
ecdsa_signature_serialize_der(sig, size) == ecdsa_sig_serialize(sig.r, sig.s, size)
ecdsa_signature_serialize_compact(sig) == ToBytes(sig.r) \o ToBytes(sig.s)

-----------------------------------------------------------------------------

SigDerNext ==
  \/ Fresh /\ \E r, s \in SigScalars, n \in SigBuffers :
       Call("sig_write", [r |-> r, s |-> s, size |-> n],
            LET sig == [r |-> r, s |-> s] IN
            [der |-> ecdsa_signature_serialize_der(sig, n), compact |-> ecdsa_signature_serialize_compact(sig)])
  \/ Fresh /\ \E b \in SigInputs : Call("sig_der", b, ecdsa_signature_parse_der(b))
  \/ Fresh /\ \E b \in CompactInputs : Call("sig_compact", b, ecdsa_signature_parse_compact(b))

-----------------------------------------------------------------------------

\* Both forms of a signature are read back as it, and the one in DER fits into the
\* size that callers reserve, eight bytes more than its two scalars, or is not
\* written at all and its size told.
SignatureRoundTrip ==
  Of("sig_write", LAMBDA in, out :
       LET sig == [ret |-> 1, r |-> in.r, s |-> in.s] IN
       /\ ecdsa_signature_parse_compact(out.compact) = sig
       /\ out.der.size <= 8 + 2 * ScalarBytes
       /\ IF out.der.ret = 1 THEN /\ Len(out.der.out) = out.der.size
                                  /\ ecdsa_signature_parse_der(out.der.out) = sig
          ELSE in.size < out.der.size /\ ecdsa_sig_serialize(in.r, in.s, out.der.size).ret = 1)

\* No two byte strings are the same signature: what is read as a signature of two
\* scalars other than zero is what would be written for it, byte for byte.  (Numbers
\* out of range are read as zero, which no signature that verifies holds.)
OneEncoding ==
  /\ Of("sig_der", LAMBDA b, out :
          out.ret = 1 /\ out.r # 0 /\ out.s # 0 => ecdsa_sig_serialize(out.r, out.s, Len(b)).out = b)
  /\ Of("sig_compact", LAMBDA b, out :
          out.ret = 1 => ecdsa_signature_serialize_compact(out) = b)
=============================================================================
