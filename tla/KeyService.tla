----------------------------- MODULE KeyService -----------------------------
(***************************************************************************)
(* The key manager enclave above the channel: the access policy that       *)
(* decides which analyzers get a session, the table of private keys that   *)
(* data owners forwarded, and the request an analyzer makes for one.       *)
(*                                                                         *)
(* A private key is named by its public key (Request), since deriving one  *)
(* from the other is injective.  A response body is the pair of the        *)
(* private key and the key manager's public key it was forwarded under.    *)
(***************************************************************************)
EXTENDS DhChannel, Sequences, FiniteSets

CONSTANTS
  Dian,         \* public keys of the key manager
  Stored,       \* those with a loadable, matching key file on the host
  Ehash,        \* enclave measurements
  AnyEnclave,   \* hash_256("any enclave")
  Identity,     \* what attestation reports of each analyzer
  SelfSigner,   \* the key manager's own signer
  Policies,     \* what set_access_control_policy may install
  MaxIssued     \* bound: number of keys the owners forward

ASSUME KeyServiceAssumption ==
  /\ Body = Request \X Dian
  /\ Stored \subseteq Dian
  /\ None \notin Dian \cup (Request \X Dian \X Ehash)
  /\ AnyEnclave \in Ehash
  /\ MaxIssued \in Nat
  /\ Trusted = Initiator
  /\ \A i \in Initiator : Identity[i].mr_enclave \in Ehash \ {AnyEnclave}

VARIABLES
  policy,   \* access_control_policy; None is the null pointer
  table,    \* private_key_table: the forwarded-under key of an entry, or None
  issued,   \* <<owner key, dian key, enclave hash>> the owners signed
  acked,    \* history: forwards this key manager enclave answered "success"
  certs,    \* history: policies in force since this enclave was made
  held      \* history: <<private key, dian key>> each analyzer was given

keyVars == <<policy, table, issued, acked, certs, held>>
vars == <<channelVars, keyVars>>

-----------------------------------------------------------------------------
(* Access policy.                                                          *)

KnownItem(t) == t.type \in {"enclave", "signer"}
MatchItem(t, id) ==
  \/ t.type = "enclave" /\ t.data = id.mr_enclave
  \/ t.type = "signer" /\ t.data = id.mr_signer

\* is_certified_signer.  No policy: the peer has the key manager's signer.
\* The whitelist is scanned up to its first match, the blacklist to its end;
\* an item of unknown type met on the way refuses the peer.  A policy with
\* any other tag lets everyone in.
IsCertifiedSigner(id, pol) ==
  /\ id.inited
  /\ IF pol = None
     THEN id.mr_signer = SelfSigner
     ELSE LET list == pol.list IN
          CASE pol.tag = "whitelist" ->
                 \E k \in DOMAIN list :
                   /\ KnownItem(list[k]) /\ MatchItem(list[k], id)
                   /\ \A j \in 1 .. k - 1 : KnownItem(list[j])
            [] pol.tag = "blacklist" ->
                 \A k \in DOMAIN list :
                   KnownItem(list[k]) /\ ~MatchItem(list[k], id)
            [] OTHER -> TRUE

\* What set_access_control_policy leaves behind when the package does not
\* parse: the default-constructed package it made first, whose tag is 0.
EmptyPolicy == [tag |-> "none", list |-> <<>>]

-----------------------------------------------------------------------------

KeyTypeOK ==
  /\ policy \in Policies \cup {None}
  /\ table \in [Request \X Ehash -> Dian \cup {None}]
  /\ issued \subseteq Request \X Dian \X Ehash
  /\ acked \subseteq Request \X Ehash
  /\ certs \subseteq Policies \cup {None}
  /\ held \in [Initiator -> SUBSET Body]

KeyInit ==
  /\ policy = None
  /\ table = [k \in Request \X Ehash |-> None]
  /\ issued = {}
  /\ acked = {}
  /\ certs = {None}
  /\ held = [i \in Initiator |-> {}]

Init == ChannelInit /\ KeyInit

-----------------------------------------------------------------------------
(* Operations.                                                             *)

SetAccessControlPolicy(pol) ==
  /\ policy' = pol
  /\ certs' = certs \cup {pol}
  /\ UNCHANGED <<channelVars, table, issued, acked, held>>

\* A data owner encrypts its private key p to the key manager's key e and
\* signs <<e, h>>.
OwnerForwards(p, e, h) ==
  /\ <<p, e, h>> \notin issued
  /\ Cardinality(issued) < MaxIssued
  /\ issued' = issued \cup {<<p, e, h>>}
  /\ UNCHANGED <<channelVars, policy, table, acked, certs, held>>

\* forward_private_key with a cipher text of p made for key `to`, the key
\* manager's public key e, the enclave hash h and a signature.  The checks
\* are made in this order; an entry that exists already answers success
\* before the signature is looked at.
ForwardAccepted(p, to, e) == e \in Stored /\ to = e
SignedByOwner(p, e, h, sig) == sig # None /\ sig[1] = p
SignatureValid(p, e, h, sig) == sig = <<p, e, h>>

ForwardPrivateKey(p, to, e, h, sig) ==
  /\ \E x \in Ehash : <<p, to, x>> \in issued
  /\ ForwardAccepted(p, to, e)
  /\ \/ /\ table[p, h] # None
        /\ UNCHANGED table
     \/ /\ table[p, h] = None
        /\ SignatureValid(p, e, h, sig)
        /\ table' = [table EXCEPT ![<<p, h>>] = e]
  /\ acked' = acked \cup {<<p, h>>}
  /\ UNCHANGED <<channelVars, policy, issued, certs, held>>

\* handle_pkg: the entry for the peer's own measurement, then the one for
\* any enclave, else it throws.
HandleExactOnly(id, p) ==
  IF table[p, id.mr_enclave] # None THEN <<p, table[p, id.mr_enclave]>>
  ELSE None
HandlePkg(id, p) ==
  IF table[p, id.mr_enclave] # None THEN <<p, table[p, id.mr_enclave]>>
  ELSE IF table[p, AnyEnclave] # None THEN <<p, table[p, AnyEnclave]>>
  ELSE None

Answer(i) ==
  IF ini[i].pc = "call" /\ Reaches(i)
  THEN HandlePkg(Identity[SessionOf(i).peer], ini[i].request) ELSE None

KeyResponse(i) ==
  /\ Answer(i) # None
  /\ GenerateResponse(i, Answer(i)) \/ EncryptFails(i)
  /\ UNCHANGED keyVars

\* request_private_key_for_public_key after a success of the channel: the
\* key must be the one asked for.
KeyAccept(i) ==
  /\ AcceptResponse(i)
  /\ held' = [held EXCEPT ![i] =
                IF ini[i].reply.body[1] = ini[i].request
                THEN @ \cup {ini[i].reply.body} ELSE @]
  /\ UNCHANGED <<policy, table, issued, acked, certs>>

\* The key table and the policy live in the enclave's memory only.
KeyManagerLost ==
  /\ KeymgrLost
  /\ policy' = None
  /\ table' = [k \in Request \X Ehash |-> None]
  /\ acked' = {}
  /\ certs' = {None}
  /\ UNCHANGED <<issued, held>>

AnalyzerEnclaveLost(i) ==
  /\ AnalyzerLost(i)
  /\ held' = [held EXCEPT ![i] = {}]
  /\ UNCHANGED <<policy, table, issued, acked, certs>>

-----------------------------------------------------------------------------

HostNext ==
  \/ \E pol \in Policies : SetAccessControlPolicy(pol)
  \/ \E p \in Request, e \in Dian, h \in Ehash : OwnerForwards(p, e, h)
  \/ \E p \in Request, to, e \in Dian, h \in Ehash,
        sig \in issued \cup {None} : ForwardPrivateKey(p, to, e, h, sig)

SessionNext(i) ==
  /\ \/ InitKeymgrSession(i)
     \/ HandshakeFails(i)
     \/ SessionRequest(i)
     \/ SessionRequestFails(i)
     \/ ExchangeReport(i, IsCertifiedSigner(Identity[i], policy))
     \/ FinishSession(i)
     \/ CloseSession(i)
  /\ UNCHANGED keyVars

RequestNext(i) ==
  \/ /\ \/ \E p \in Request : SendRequest(i, p)
        \/ ResponseFails(i)
        \/ RejectResponse(i)
     /\ UNCHANGED keyVars
  \/ KeyResponse(i)
  \/ KeyAccept(i)

Next ==
  \/ HostNext
  \/ KeyManagerLost
  \/ \E i \in Initiator :
       SessionNext(i) \/ RequestNext(i) \/ AnalyzerEnclaveLost(i)

Spec == Init /\ [][Next]_vars

-----------------------------------------------------------------------------
(* Properties.                                                             *)

\* KeyUse: an analyzer holds a private key only if its owner signed the
\* release of that key, under the key manager key it came with, to the
\* analyzer's measurement or to any enclave: through forward_private_key,
\* the table, the identity the session was made with, and every loss of
\* either enclave in between.
KeyUse ==
  \A i \in Initiator : \A b \in held[i] :
    \/ <<b[1], b[2], Identity[i].mr_enclave>> \in issued
    \/ <<b[1], b[2], AnyEnclave>> \in issued

\* ForwardedIsServed: what forward_private_key answered with success, a
\* request over a session of the named enclave finds until the key manager
\* is lost, whatever was forwarded after it.
ForwardedIsServed ==
  \A i \in Initiator, p \in Request :
    \/ <<p, Identity[i].mr_enclave>> \in acked
    \/ <<p, AnyEnclave>> \in acked
    => LET a == HandlePkg(Identity[i], p) IN
       a # None /\ \E h \in {Identity[i].mr_enclave, AnyEnclave} :
                      <<a[1], a[2], h>> \in issued

\* SessionsCertified: the peer of an active session passed the policy that
\* was in force when it was verified; a policy of a key manager enclave that
\* was lost counts for nothing.
SessionsCertified ==
  \A d \in Id :
    sessions[d].status = "active" =>
      \E pol \in certs : IsCertifiedSigner(Identity[sessions[d].peer], pol)

\* The key table is what forward_private_key left in it, one entry a key, and what was
\* forwarded with success is served (the two parts above).
ForwardedServed ==
  KeyTypeOK /\ ForwardedIsServed
=============================================================================
