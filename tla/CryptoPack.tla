----------------------------- MODULE CryptoPack -----------------------------
(***************************************************************************)
(* The cryptography the programs outside the enclaves (terminus) and the   *)
(* enclaves share: aes_gcm_impl and sign_impl over the two packs, eth      *)
(* (secp256k1, Keccak, AES) and gm (SM2, SM3, SM4), and what terminus      *)
(* encrypts and signs with them.  The primitives are symbolic here (their  *)
(* modules are Ecdsa, Sm2, Hashes and CipherModes): a byte is a record     *)
(* that says what it is a byte of, so that two buffers are equal only when *)
(* they were made alike.  Sizes are small, and computed in SizeBits bits   *)
(* as the code computes them in 32.                                        *)
(***************************************************************************)
EXTENDS Calls, Limbs

CONSTANTS CpKeys,     \* private keys
          CpTexts,    \* texts, sequences of numbers
          IvSize, PkSize, MacSize, HashSize,  \* bytes of the parts of a message
          AadSize, PrefixPos,                 \* AAD_MAC_TEXT_LEN, AAD_MAC_PREFIX_POS
          SizeBits    \* bits of uint32_t

ASSUME CryptoPackAssumption ==
  /\ CpKeys \subseteq Nat \ {0} /\ CpTexts \subseteq Seq(Nat)
  /\ {IvSize, PkSize, MacSize, HashSize, AadSize, SizeBits} \subseteq Nat \ {0}
  /\ PkSize % 2 = 0 /\ PrefixPos \in Nat /\ PrefixPos + 2 \in 1..AadSize
  \* A sealed text, and a sealed key (two bytes here), has a size of uint32_t.
  /\ 2^SizeBits \in Nat   \* follows from SizeBits \in Nat
  /\ \A n \in {2} \cup {Len(t) : t \in CpTexts} : n + IvSize + PkSize + MacSize < 2^SizeBits

Ephemeral == 0      \* the key a sealing draws
Packs == {"eth", "gm"}
Sides == {"host", "enclave"}
crypto_prefix_forward == 1
crypto_prefix_arbitrary == 2
CpPrefixes == {crypto_prefix_forward, crypto_prefix_arbitrary}

Size(n) == n % 2^SizeBits
PlainByte(n) == [b |-> n]
PlainBytes(s) == Tuple([i \in DOMAIN s |-> PlainByte(s[i])])
OtherByte == [other |-> TRUE]     \* a byte that is none of the message's
SecretBytes(k) == <<[sk |-> k, at |-> 1], [sk |-> k, at |-> 2]>>

\* Each half of a public key, turned around: Ethereum keeps the coordinates with the
\* high byte first, secp256k1_pubkey with the low one.
pubkey_endian(pk) ==
  LET step == Len(pk) \div 2 IN Reverse(SubSeq(pk, 1, step)) \o Reverse(SubSeq(pk, step + 1, Len(pk)))
\* The bytes of the library's public key, and the ones the pack hands out.
LibraryKey(pack, k) == Tuple([i \in 1..PkSize |-> [pk |-> k, pack |-> pack, at |-> i]])
generate_pkey_from_skey(pack, k) ==
  IF pack = "eth" THEN pubkey_endian(LibraryKey(pack, k)) ELSE LibraryKey(pack, k)

\* Digest bytes of a message.
HashOf(alg, msg) == Tuple([i \in 1..HashSize |-> [hash |-> alg, of |-> msg, at |-> i]])
sha256_msg(msg) == HashOf("sha256", msg)
sm3_hash_256(msg) == HashOf("sm3", msg)
eth_hash_256(msg) == HashOf("keccak", msg)
hash_256(pack, msg) == IF pack = "eth" THEN eth_hash_256(msg) ELSE sm3_hash_256(msg)
EthPrefix == <<PlainByte(19)>>
eth_msg_hash(raw) == eth_hash_256(EthPrefix \o eth_hash_256(raw))
msg_hash(pack, raw) == IF pack = "eth" THEN eth_msg_hash(raw) ELSE sm3_hash_256(raw)

\* The point skey * key, for the key these bytes are; other bytes are a point too, one
\* that nobody else reaches (neither library refuses them all).
DhPoint(pack, skey, bytes) ==
  LET known == {k \in CpKeys \cup {Ephemeral} : bytes = LibraryKey(pack, k)}
  IN  [dh |-> pack, keys |-> {skey} \cup known, by |-> IF known = {} THEN bytes ELSE <<>>]

\* CMAC, under the static cmac_key and under the key derived with it.
Cmac(key, msg) == [cmac |-> key, of |-> msg]
StaticKey == PlainByte(0)
Label == PlainBytes(<<90>>)
\* counter | label | 0 | the length 0x0080 as a little-endian uint16_t.  The host
\* writes the zero, in the enclave the memset left it.
DerivationBuffer(label) == PlainBytes(<<1>>) \o label \o PlainBytes(<<0>>) \o PlainBytes(<<128, 0>>)
derive_key(shared, label) == Cmac(Cmac(StaticKey, shared), DerivationBuffer(label))
derive_key_t(shared, label) ==
  LET n == Len(label) + 4
      buffer == Tuple([i \in 1..n |-> CASE i = 1 -> PlainByte(1)
                                        [] i - 1 \in DOMAIN label -> label[i - 1]
                                        [] i = n - 1 -> PlainByte(128)
                                        [] OTHER -> PlainByte(0)])
  IN  Cmac(Cmac(StaticKey, shared), buffer)

\* The version byte with the parity of y, and x: as good as the point.
ecdh_hash_function_sha256(point) == sha256_msg(<<point>>)
ecdh_eth(side, skey, pk) ==
  LET shared == ecdh_hash_function_sha256(DhPoint("eth", skey, pubkey_endian(pk)))
  IN  IF side = "host" THEN derive_key(shared, Label) ELSE derive_key_t(shared, Label)
\* SM3 of the point, cut to the size of a key.
ecdh_gm(skey, pk) == Cmac(StaticKey, sm3_hash_256(<<DhPoint("gm", skey, pk)>>))
ecdh_shared_key(pack, side, skey, pk) ==
  IF Len(pk) # PkSize THEN [ret |-> "ecc_invalid_pkey_size", key |-> StaticKey]
  ELSE [ret |-> "success", key |-> IF pack = "eth" THEN ecdh_eth(side, skey, pk) ELSE ecdh_gm(skey, pk)]

MacTextOnly(prefix) == PlainBytes([i \in 1..AadSize |-> IF i <= PrefixPos THEN 90 ELSE 0])
\* The additional data of GCM: the name of the key manager, with the purpose written
\* at PrefixPos.
MacText(prefix) ==
  PlainBytes([i \in 1..AadSize |-> IF i = PrefixPos + 1 THEN prefix ELSE IF i <= PrefixPos THEN 90 ELSE 0])

get_cipher_size(n) == Size(n + IvSize)
get_data_size(n) == Size(n - IvSize)

GcmTag(key, iv, aad, cipher) ==
  Tuple([i \in 1..MacSize |-> [tag |-> key, iv |-> iv, aad |-> aad, over |-> cipher, at |-> i]])
GcmStream(key, iv, text) ==
  Tuple([i \in DOMAIN text |-> [c |-> text[i], key |-> key, iv |-> iv, at |-> i]])
\* EVP decrypts into the caller's buffer before it compares the tag.
GcmOpen(key, iv, aad, cipher, mac) ==
  [ret |-> IF mac = GcmTag(key, iv, aad, cipher) THEN "success" ELSE "invalid_data",
   data |-> Tuple([i \in DOMAIN cipher |->
              IF "c" \in DOMAIN cipher[i] /\ cipher[i] = [c |-> cipher[i].c, key |-> key, iv |-> iv, at |-> i]
              THEN cipher[i].c ELSE OtherByte])]

\* cipher | iv, and the tag.  random is what RAND_bytes or sgx_read_rand returns.
rijndael_encrypt(key, data, prefix, random) ==
  IF random.failed THEN [ret |-> "aes_rand_fail", out |-> <<>>, mac |-> <<>>]
  ELSE LET cipher == GcmStream(key, random.iv, data)
       IN  [ret |-> "success", out |-> cipher \o random.iv,
            mac |-> GcmTag(key, random.iv, MacText(prefix), cipher)]
rijndael_decrypt(key, cipher, prefix, data_size, mac) ==
  GcmOpen(key, SubSeq(cipher, data_size + 1, data_size + IvSize), MacText(prefix),
          SubSeq(cipher, 1, data_size), mac)
\* SM4: the same layout, and statuses of its own.
sm4_encrypt_prefixed(key, data, prefix, random) == rijndael_encrypt(key, data, prefix, random)
sm4_decrypt_prefixed(key, cipher, prefix, data_size, mac) ==
  LET r == rijndael_decrypt(key, cipher, prefix, data_size, mac)
  IN  [r EXCEPT !.ret = IF @ = "success" THEN @ ELSE "sm4_decrypt_error"]
encrypt_with_prefix(pack, key, data, prefix, random) ==
  IF pack = "eth" THEN rijndael_encrypt(key, data, prefix, random)
  ELSE sm4_encrypt_prefixed(key, data, prefix, random)
decrypt_with_prefix(pack, key, cipher, prefix, data_size, mac) ==
  IF pack = "eth" THEN rijndael_decrypt(key, cipher, prefix, data_size, mac)
  ELSE sm4_decrypt_prefixed(key, cipher, prefix, data_size, mac)

-----------------------------------------------------------------------------
\* aes_gcm_impl: cipher | iv | ephemeral public key | tag.

get_encrypt_message_size_with_prefix(n) == Size(get_cipher_size(n) + PkSize + MacSize)
get_decrypt_message_size_with_prefix(n) == Size(get_data_size(n) - PkSize - MacSize)

\* The ephemeral key "drawn" and the random bytes are what the generators give.
encrypt_message_with_prefix(pack, side, pk, data, prefix, drawn, random) ==
  LET gpkey == generate_pkey_from_skey(pack, drawn)
      shared == ecdh_shared_key(pack, side, drawn, pk)
      sealed == encrypt_with_prefix(pack, shared.key, data, prefix, random)
  IN  IF shared.ret # "success" THEN [ret |-> shared.ret, cipher |-> <<>>]
      ELSE IF sealed.ret # "success" THEN [ret |-> sealed.ret, cipher |-> <<>>]
      ELSE [ret |-> "success", cipher |-> sealed.out \o gpkey \o sealed.mac]

\* The eth pack throws for a message shorter than an iv.  The size of any other short
\* message wraps around, passes the test, and the reads go outside the message.
decrypt_message_with_prefix(pack, side, skey, cipher, prefix) ==
  LET n == get_decrypt_message_size_with_prefix(Len(cipher))
      at == get_cipher_size(n)
      shared == ecdh_shared_key(pack, side, skey, SubSeq(cipher, at + 1, at + PkSize))
      mac == SubSeq(cipher, at + PkSize + 1, at + PkSize + MacSize)
  IN  IF pack = "eth" /\ Len(cipher) < IvSize THEN [ret |-> "invalid cipher size", data |-> <<>>]
      ELSE IF get_encrypt_message_size_with_prefix(n) # Len(cipher)
        THEN [ret |-> "aes_invalid_data_size", data |-> <<>>]
      ELSE IF n > Len(cipher) THEN [ret |-> "outside", data |-> <<>>]
      ELSE decrypt_with_prefix(pack, shared.key, SubSeq(cipher, 1, at), prefix, n, mac)

-----------------------------------------------------------------------------
\* sign_impl, over the digest the pack signs; a signature says what made it.

pack_sign_message(pack, skey, msg) == [pack |-> pack, key |-> skey, digest |-> msg_hash(pack, msg)]
pack_verify_signature(pack, msg, sig, pk) ==
  /\ sig.pack = pack
  /\ sig.digest = msg_hash(pack, msg)
  /\ pk = generate_pkey_from_skey(pack, sig.key)

\* crypto_pack_t of terminus: the bytes, or an exception for any other status.
Thrown(r) == r.ret # "success"
ecc_encrypt(pack, msg, pk, prefix, drawn, random) ==
  encrypt_message_with_prefix(pack, "host", pk, msg, prefix, drawn, random)
ecc_decrypt(pack, cipher, skey, prefix) == decrypt_message_with_prefix(pack, "host", skey, cipher, prefix)

\* What terminus signs: the use of data by an enclave, a key forwarded to an enclave,
\* and a result relayed to another enclave.
AllowanceSwapped(pack, skey, param_hash, enclave_hash, dian_pkey, dhash) ==
  pack_sign_message(pack, skey, param_hash \o dhash \o dian_pkey \o enclave_hash)
generate_allowance(pack, skey, param_hash, enclave_hash, dian_pkey, dhash) ==
  pack_sign_message(pack, skey, param_hash \o enclave_hash \o dian_pkey \o dhash)
forward_private_key(pack, skey, dian_pkey, enclave_hash, drawn, random) ==
  [encrypted |-> ecc_encrypt(pack, SecretBytes(skey), dian_pkey, crypto_prefix_forward, drawn, random),
   signature |-> pack_sign_message(pack, skey, dian_pkey \o enclave_hash)]
gen_relay_result_proof(pack, skey, param, relay_hash, relay_pkey, target_hash, target_pkey) ==
  pack_sign_message(pack, skey, param \o relay_hash \o relay_pkey \o target_hash \o target_pkey)
generate_request(pack, param, pk, drawn, random) ==
  ecc_encrypt(pack, param, pk, crypto_prefix_arbitrary, drawn, random)
decrypt_result(pack, result, skey) == ecc_decrypt(pack, result, skey, crypto_prefix_arbitrary)

\* cterminus: the command fails when nothing was decrypted, which an empty text is too.
cterminus_encrypt(pack, pk, message, drawn, random) ==
  ecc_encrypt(pack, message, pk, crypto_prefix_arbitrary, drawn, random)
cterminus_decrypt(pack, message, skey) ==
  LET r == ecc_decrypt(pack, message, skey, crypto_prefix_arbitrary)
  IN  IF Thrown(r) THEN [exit |-> "thrown", out |-> <<>>]
      ELSE [exit |-> IF r.data = <<>> THEN "-1" ELSE "0", out |-> r.data]

\* What the enclaves put together to check those signatures.
AllowanceData(pack, param_data, enclave_hash, dian_pkey, dhash) ==
  hash_256(pack, param_data) \o enclave_hash \o dian_pkey \o dhash
ForwardData(dian_pkey, enclave_hash) == dian_pkey \o enclave_hash
RelayData(param_data, enclave_hash, dian_pkey, target_hash, target_pkey) ==
  param_data \o enclave_hash \o dian_pkey \o target_hash \o target_pkey

-----------------------------------------------------------------------------
(* The calls.                                                              *)

\* What may happen to bytes on their way: nothing, the end is lost, one byte changes.
Ways(n) == [keep : 0..n, change : {0}] \cup [keep : {n}, change : 1..n]
Sent(s, way) == Tuple([i \in 1..way.keep |-> IF i = way.change THEN OtherByte ELSE s[i]])
CpRandom == [failed : BOOLEAN, iv : {Tuple([i \in 1..IvSize |-> [rnd |-> i]])}]
CpMessages == {PlainBytes(t) : t \in CpTexts}

SealOpen ==
  /\ Fresh
  /\ \E a, b \in [pack : Packs, side : Sides, key : CpKeys, prefix : CpPrefixes],
        text \in CpMessages, pkway \in {w \in Ways(PkSize) : w.keep >= PkSize - 1 /\ w.change <= 1},
        random \in CpRandom :
       LET pk == Sent(generate_pkey_from_skey(a.pack, a.key), pkway)
           sealed == encrypt_message_with_prefix(a.pack, a.side, pk, text, a.prefix, Ephemeral, random)
       IN  \E way \in Ways(Len(sealed.cipher)) :
             Call("seal", [a |-> a, b |-> b, text |-> text, pkway |-> pkway, random |-> random,
                           way |-> way, size |-> Len(sealed.cipher)],
                  [sealed |-> sealed.ret,
                   opened |-> decrypt_message_with_prefix(b.pack, b.side, b.key,
                                Sent(sealed.cipher, way), b.prefix)])

\* What is signed for one purpose, with some of the fields, and checked for another.
Hashes2 == {Tuple([i \in 1..HashSize |-> [measure |-> m, at |-> i]]) : m \in {1, 2}}
Consents(pack) ==
  [purpose : {"allowance", "forward", "relay"}, param : CpMessages, ehash : Hashes2,
   dian : {generate_pkey_from_skey(pack, k) : k \in CpKeys}, other : Hashes2]
TargetKey(pack) == generate_pkey_from_skey(pack, Ephemeral)
SignedBy(pack, skey, c) ==
  CASE c.purpose = "allowance" ->
         generate_allowance(pack, skey, hash_256(pack, c.param), c.ehash, c.dian, c.other)
    [] c.purpose = "forward" ->
         forward_private_key(pack, skey, c.dian, c.ehash, Ephemeral,
                             [failed |-> FALSE, iv |-> <<>>]).signature
    [] OTHER -> gen_relay_result_proof(pack, skey, c.param, c.ehash, c.dian, c.other, TargetKey(pack))
CheckedData(pack, c) ==
  CASE c.purpose = "allowance" -> AllowanceData(pack, c.param, c.ehash, c.dian, c.other)
    [] c.purpose = "forward" -> ForwardData(c.dian, c.ehash)
    [] OTHER -> RelayData(c.param, c.ehash, c.dian, c.other, TargetKey(pack))
ConsentCheck ==
  /\ Fresh
  /\ \E pack \in Packs, signer, owner \in CpKeys : \E given, used \in Consents(pack) :
       Call("consent", [given |-> given, used |-> used, signer |-> signer, owner |-> owner],
            pack_verify_signature(pack, CheckedData(pack, used), SignedBy(pack, signer, given),
                                  generate_pkey_from_skey(pack, owner)))

\* A key forwarded, or a request encrypted, by terminus, and opened by a key manager.
Delivered ==
  /\ Fresh
  /\ \E pack \in Packs, owner, dian \in CpKeys, way \in {"forward", "request"}, random \in CpRandom :
       LET pk == generate_pkey_from_skey(pack, dian)
           text == SecretBytes(owner)
           sent == IF way = "forward"
                   THEN forward_private_key(pack, owner, pk, sha256_msg(<<>>), Ephemeral, random).encrypted
                   ELSE generate_request(pack, text, pk, Ephemeral, random)
       IN  Call("deliver", [way |-> way, owner |-> owner, sent |-> sent.ret],
                [key |-> decrypt_message_with_prefix(pack, "enclave", dian, sent.cipher, crypto_prefix_forward),
                 result |-> decrypt_result(pack, sent.cipher, dian)])

\* A message encrypted on the command line, or by an enclave, and decrypted there.
CommandLine ==
  /\ Fresh
  /\ \E pack \in Packs, owner, reader \in CpKeys, text \in CpMessages, random \in CpRandom,
        from \in {"cterminus", "enclave"} :
       LET pk == generate_pkey_from_skey(pack, owner)
           sent == IF from = "cterminus" THEN cterminus_encrypt(pack, pk, text, Ephemeral, random)
                   ELSE encrypt_message_with_prefix(pack, "enclave", pk, text, crypto_prefix_arbitrary,
                                                    Ephemeral, random)
       IN  /\ ~Thrown(sent)
           /\ Call("terminus", [owner |-> owner, reader |-> reader, text |-> text],
                   cterminus_decrypt(pack, sent.cipher, reader))

CryptoPackNext == SealOpen \/ ConsentCheck \/ Delivered \/ CommandLine
CryptoPackSpec == CallInit /\ [][CryptoPackNext]_last

-----------------------------------------------------------------------------
(* Properties.                                                             *)

\* A message sealed for a key and a purpose on either side of the enclave boundary is
\* opened with that key, for that purpose, by that pack, on either side, and gives the
\* text; it is refused after any change, for another purpose, key or pack.  Only a
\* message shorter than its own overhead, which no sealing returns, is read outside.
SealedForPurpose ==
  Of("seal", LAMBDA in, out :
    LET whole == in.way.keep = in.size /\ in.way.change = 0
        same == in.a.pack = in.b.pack /\ in.a.key = in.b.key /\ in.a.prefix = in.b.prefix
        right == in.pkway.keep = PkSize /\ in.pkway.change = 0
    IN  /\ out.sealed = "success" <=> ~in.random.failed /\ in.pkway.keep = PkSize
        /\ out.opened.ret = "success" <=> out.sealed = "success" /\ whole /\ same /\ right
        /\ out.opened.ret = "success" => out.opened.data = in.text
        /\ out.opened.ret = "outside" => in.way.keep < IvSize + PkSize + MacSize)

\* A signature that terminus makes is accepted by the enclave that checks it exactly for
\* the owner's key, the purpose and every field it was given for.
ConsentExact ==
  Of("consent", LAMBDA in, out :
    LET g == in.given u == in.used
        fields == /\ g.ehash = u.ehash /\ g.dian = u.dian
                  /\ g.purpose # "forward" => g.param = u.param /\ g.other = u.other
    IN  out <=> in.signer = in.owner /\ g.purpose = u.purpose /\ fields)

\* A forwarded key reaches the key manager as the owner's key and is no result; an
\* encrypted request, the bytes of a key included, is never taken for a forwarded key.
ForwardedApart ==
  Of("deliver", LAMBDA in, out :
    in.sent = "success" =>
      /\ out.key.ret = "success" <=> in.way = "forward"
      /\ out.result.ret = "success" <=> in.way = "request"
      /\ out.key.ret = "success" => out.key.data = SecretBytes(in.owner))

\* What was encrypted for a key on the command line or as an enclave's result is printed
\* with that key, and only an empty text is reported as a failure; no other key prints
\* anything.
ResultIsPrinted ==
  Of("terminus", LAMBDA in, out :
    out = IF in.owner # in.reader THEN [exit |-> "thrown", out |-> <<>>]
          ELSE [exit |-> IF in.text = <<>> THEN "-1" ELSE "0", out |-> in.text])

\* aes_impl.h and terminus: a message opens on the other side of the enclave boundary for the
\* purpose it was sealed for, and for no other (the parts above).
MessagesSound ==
  SealedForPurpose /\ ForwardedApart /\ ResultIsPrinted
=============================================================================
