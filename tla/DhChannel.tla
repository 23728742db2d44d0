----------------------------- MODULE DhChannel -----------------------------
(***************************************************************************)
(* The attested channel between the analyzer enclaves (initiators) and the *)
(* key manager enclave (responder): the handshake that creates a session,  *)
(* the request/response exchange over it, and what is left when either     *)
(* enclave is lost.                                                        *)
(*                                                                         *)
(* An analyzer calls out of its enclave, the host calls into the key       *)
(* manager, and both return: every call is synchronous, but between the    *)
(* calls one operation makes, other analyzers make theirs.  ini[i].pc says *)
(* which call analyzer i is in.  A call into the key manager is atomic.    *)
(*                                                                         *)
(* Keys.  The two ends derive the same AEK exactly when the initiator's    *)
(* message 2 answers the message 1 of the instance that receives it, so an *)
(* AEK is named by the serial number of the message 1 it comes from.  Key  *)
(* 0 is the all-zero AEK of a session object that was never established.   *)
(***************************************************************************)
EXTENDS Naturals

CONSTANTS
  Initiator,    \* the analyzer enclaves one key manager serves
  Trusted,      \* those whose identity passes verify_peer_enclave_trust
  Request,      \* request payloads
  Body,         \* response payloads
  None,         \* no peer, no request, no response payload
  IdSpace,      \* number of session ids before m_next_session_id wraps (2^32)
  MaxEph,       \* bound: number of message 1s ever generated
  NonceLimit,   \* bound: messages of one session, below the nonce's 2^32
  MaxLoss       \* bound: number of times the key manager enclave is lost

ASSUME ChannelAssumption ==
  /\ Trusted \subseteq Initiator
  /\ None \notin Initiator \cup Request \cup Body
  /\ IdSpace \in Nat \ {0}
  /\ MaxEph \in Nat
  /\ NonceLimit \in Nat
  /\ MaxLoss \in Nat

VARIABLES
  ini,          \* per analyzer: keymgr_var::m_keymgr_session and its call
  responder,    \* dh_resp_session: not made, made without or with a verifier
  sessions,     \* m_all_sessions, absent ids included
  nextId,       \* m_next_session_id
  eph,          \* message 1s generated so far
  losses,       \* times the key manager was lost so far
  gone,         \* history: keys whose responder session was erased or lost
  broken,       \* history: keys on which a generated response was not accepted
  established,  \* history: keys for which create_session returned success
  accepted      \* history: number of responses each analyzer accepted

respVars == <<responder, sessions, nextId>>
histVars == <<gone, broken, established, accepted>>
channelVars == <<ini, responder, sessions, nextId, eph, losses, gone, broken,
                 established, accepted>>

-----------------------------------------------------------------------------
(* State.                                                                  *)

Id == 0 .. IdSpace - 1
Key == 0 .. MaxEph
ZeroKey == 0

\* A responder instance.  eph and dh are the sgx_dh_session_t of the
\* handshake: "wait" until message 2 was processed, "spent" afterwards.
Session ==
  [status : {"absent", "in_progress", "active"},
   eph : Key, dh : {"wait", "spent"},
   peer : Initiator \cup {None}, key : Key, counter : 0 .. NonceLimit]

Absent == [status |-> "absent", eph |-> 0, dh |-> "spent", peer |-> None,
           key |-> ZeroKey, counter |-> 0]

Reply == [session_id : Id, nonce : 0 .. NonceLimit, body : Body \cup {None}]
NoReply == [session_id |-> 0, nonce |-> 0, body |-> None]

\* made: m_keymgr_session points to an object; the fields below it are that
\* object's; hsId and hsEph are create_session's locals, request and reply
\* the buffers of send_request_recv_response.
InitiatorState ==
  [made : BOOLEAN, active : BOOLEAN, sid : Id, key : Key,
   counter : 0 .. NonceLimit,
   pc : {"idle", "request", "exchange", "finish", "call", "reply"},
   hsId : Id, hsEph : Key, request : Request \cup {None}, reply : Reply]

FreshInitiator ==
  [made |-> FALSE, active |-> FALSE, sid |-> 0, key |-> ZeroKey,
   counter |-> 0, pc |-> "idle", hsId |-> 0, hsEph |-> 0,
   request |-> None, reply |-> NoReply]

ChannelTypeOK ==
  /\ ini \in [Initiator -> InitiatorState]
  /\ responder \in {"none", "noverify", "ready"}
  /\ sessions \in [Id -> Session]
  /\ nextId \in Id
  /\ eph \in Key
  /\ losses \in 0 .. MaxLoss
  /\ gone \subseteq Key
  /\ broken \subseteq Key
  /\ established \subseteq Key
  /\ accepted \in [Initiator -> Nat]

ChannelInit ==
  /\ ini = [i \in Initiator |-> FreshInitiator]
  /\ responder = "none"
  /\ sessions = [d \in Id |-> Absent]
  /\ nextId = 0
  /\ eph = 0
  /\ losses = 0
  /\ gone = {}
  /\ broken = {}
  /\ established = {}
  /\ accepted = [i \in Initiator |-> 0]

-----------------------------------------------------------------------------
(* Helpers.                                                                *)

\* The call of analyzer i returns to its caller; the session object keeps
\* its fields and the call's locals are gone.
Idle(r) == [r EXCEPT !.pc = "idle", !.hsId = 0, !.hsEph = 0,
                     !.request = None, !.reply = NoReply]

Return(i) == ini' = [ini EXCEPT ![i] = Idle(@)]

\* Every entry point of the key manager but msession_request makes a missing
\* responder object without giving it a verifier.
LazyResponder ==
  responder' = IF responder = "none" THEN "noverify" ELSE responder

\* The responder session that i's object names, and whether it is the one i
\* established.
SessionOf(i) == sessions[ini[i].sid]
Live(i) == ini[i].active /\ ini[i].key \notin gone

-----------------------------------------------------------------------------
(* Creating a session.                                                     *)

\* init_keymgr_session: the object is made before create_session runs, and
\* stays made whatever create_session returns; a second call finds it and
\* returns success without a step.
InitKeymgrSession(i) ==
  /\ ini[i].pc = "idle"
  /\ ~ini[i].made
  /\ ini' = [ini EXCEPT ![i] = [@ EXCEPT !.made = TRUE, !.pc = "request"]]
  /\ UNCHANGED <<respVars, eph, losses, histVars>>

\* create_session returns early when a step of the SDK's handshake fails on
\* the initiator's side; the object is left as it was.
HandshakeFails(i) ==
  /\ ini[i].pc \in {"request", "exchange", "finish"}
  /\ Return(i)
  /\ UNCHANGED <<respVars, eph, losses, histVars>>

\* m_next_session_id++ on a uint32_t.
NextIdUnwrapped == nextId + 1
NextSessionId == (nextId + 1) % IdSpace

\* std::map::insert of an instance whose message 1 is number e: it keeps what
\* the id already maps to.
InsertOverwrites(s, e) ==
  [Absent EXCEPT !.status = "in_progress", !.eph = e, !.dh = "wait"]
Inserted(s, e) ==
  IF s.status = "absent"
  THEN [Absent EXCEPT !.status = "in_progress", !.eph = e, !.dh = "wait"]
  ELSE s

\* dh_session_responder::session_request takes the next id, makes an
\* instance and message 1, and inserts the instance.
SessionRequest(i) ==
  /\ ini[i].pc = "request"
  /\ eph < MaxEph
  /\ eph' = eph + 1
  /\ responder' = IF responder = "none" THEN "ready" ELSE responder
  /\ nextId' = NextSessionId
  /\ sessions' = [sessions EXCEPT ![nextId] = Inserted(@, eph + 1)]
  /\ ini' = [ini EXCEPT ![i] = [@ EXCEPT !.pc = "exchange",
                                  !.hsId = nextId, !.hsEph = eph + 1]]
  /\ UNCHANGED <<losses, histVars>>

\* The instance could not make message 1: the id is used up, nothing is
\* inserted and the analyzer's create_session returns the error.
SessionRequestFails(i) ==
  /\ ini[i].pc = "request"
  /\ responder' = IF responder = "none" THEN "ready" ELSE responder
  /\ nextId' = NextSessionId
  /\ Return(i)
  /\ UNCHANGED <<sessions, eph, losses, histVars>>

\* dh_session_responder::exchange_report.  Its guards, then
\* sgx_dh_responder_proc_msg2 (which accepts message 2 once, and only from
\* the handshake of this instance's message 1), then the verifier: without
\* one the empty std::function throws.
Exchangeable(s) == s.status = "in_progress"
ProcMsg2(s, e) == s.dh = "wait" /\ s.eph = e
VerifyIfSet(verified) == responder = "ready" => verified
VerifyPeer(verified) == responder = "ready" /\ verified

ExchangeReport(i, verified) ==
  LET d == ini[i].hsId
      s == sessions[d]
      ok == Exchangeable(s) /\ ProcMsg2(s, ini[i].hsEph)
            /\ VerifyPeer(verified)
  IN
  /\ ini[i].pc = "exchange"
  /\ LazyResponder
  /\ sessions' =
       CASE ~Exchangeable(s) -> sessions
         [] Exchangeable(s) /\ ~ok ->
              [sessions EXCEPT ![d] = [s EXCEPT !.dh = "spent"]]
         [] ok ->
              [sessions EXCEPT ![d] =
                 [s EXCEPT !.status = "active", !.dh = "spent",
                           !.counter = 0, !.key = s.eph, !.peer = i]]
  /\ IF ok THEN ini' = [ini EXCEPT ![i] = [@ EXCEPT !.pc = "finish"]] ELSE Return(i)
  /\ UNCHANGED <<nextId, eph, losses, histVars>>

\* The rest of create_session: message 3 was processed and the responder's
\* identity is accepted.
FinishSession(i) ==
  /\ ini[i].pc = "finish"
  /\ ini' = [ini EXCEPT ![i] =
               Idle([@ EXCEPT !.active = TRUE, !.counter = 0,
                       !.key = ini[i].hsEph, !.sid = ini[i].hsId])]
  /\ established' = established \cup {ini[i].hsEph}
  /\ UNCHANGED <<respVars, eph, losses, gone, broken, accepted>>

-----------------------------------------------------------------------------
(* Requests and responses.                                                 *)

\* send_request_recv_response up to its ocall.  It does not look at
\* m_status: a request of an object that was never established goes out
\* under the zero key to session 0.
SendRequest(i, q) ==
  /\ ini[i].pc = "idle"
  /\ ini[i].made
  /\ ini' = [ini EXCEPT ![i] = [@ EXCEPT !.pc = "call", !.request = q]]
  /\ UNCHANGED <<respVars, eph, losses, histVars>>

\* Does generate_response reach the handler?  The session must exist, be
\* active, and decrypt the request.
Reaches(i) == SessionOf(i).status = "active" /\ SessionOf(i).key = ini[i].key

ResponseFailsCounted(i) ==
  /\ ini[i].pc = "call"
  /\ SessionOf(i).counter < NonceLimit
  /\ LazyResponder
  /\ Return(i)
  /\ sessions' = [sessions EXCEPT ![ini[i].sid] =
                    [SessionOf(i) EXCEPT !.counter = SessionOf(i).counter + 1]]
  /\ UNCHANGED <<nextId, eph, losses, histVars>>

\* generate_response returns an error before it touches the counter: the
\* session is missing or not active, the request does not decrypt, the
\* handler throws or its answer is too long.
ResponseFails(i) ==
  /\ ini[i].pc = "call"
  /\ LazyResponder
  /\ Return(i)
  /\ UNCHANGED <<sessions, nextId, eph, losses, histVars>>

\* The counter is incremented, then encrypting the response fails.
EncryptFails(i) ==
  /\ ini[i].pc = "call"
  /\ Reaches(i)
  /\ SessionOf(i).counter < NonceLimit
  /\ sessions' = [sessions EXCEPT ![ini[i].sid] =
                    [SessionOf(i) EXCEPT !.counter = SessionOf(i).counter + 1]]
  /\ Return(i)
  /\ broken' = broken \cup {ini[i].key}
  /\ UNCHANGED <<responder, nextId, eph, losses, gone, established, accepted>>

\* The response carries the incremented counter as its nonce and the
\* instance's m_session_id, which no code assigns.
GenerateResponse(i, b) ==
  /\ ini[i].pc = "call"
  /\ Reaches(i)
  /\ SessionOf(i).counter < NonceLimit
  /\ sessions' = [sessions EXCEPT ![ini[i].sid] =
                    [SessionOf(i) EXCEPT !.counter = SessionOf(i).counter + 1]]
  /\ ini' = [ini EXCEPT ![i] = [@ EXCEPT !.pc = "reply",
               !.reply = [session_id |-> 0,
                          nonce |-> SessionOf(i).counter + 1, body |-> b]]]
  /\ UNCHANGED <<responder, nextId, eph, losses, histVars>>

\* The analyzer decrypts the response and compares its nonce.
FreshIfLater(i) == ini[i].reply.nonce > ini[i].counter
Fresh(i) == ini[i].reply.nonce = ini[i].counter + 1

AcceptAnyNonce(i) ==
  /\ ini[i].pc = "reply"
  /\ ini' = [ini EXCEPT ![i] = Idle([@ EXCEPT !.counter = ini[i].reply.nonce])]
  /\ accepted' = [accepted EXCEPT ![i] = @ + 1]
  /\ UNCHANGED <<respVars, eph, losses, gone, broken, established>>

AcceptResponse(i) ==
  /\ ini[i].pc = "reply"
  /\ Fresh(i)
  /\ ini' = [ini EXCEPT ![i] =
               Idle([@ EXCEPT !.counter = ini[i].counter + 1])]
  /\ accepted' = [accepted EXCEPT ![i] = @ + 1]
  /\ UNCHANGED <<respVars, eph, losses, gone, broken, established>>

\* Decryption fails, or the nonce is not the expected one.
RejectResponse(i) ==
  /\ ini[i].pc = "reply"
  /\ Return(i)
  /\ broken' = broken \cup {ini[i].key}
  /\ UNCHANGED <<respVars, eph, losses, gone, established, accepted>>

-----------------------------------------------------------------------------
(* The end of a session, and of an enclave.                                *)

\* close_session: the responder erases whatever session has the id in the
\* initiator's object; the initiator's object does not change.
CloseSession(i) ==
  /\ ini[i].pc = "idle"
  /\ ini[i].made
  /\ LazyResponder
  /\ sessions' = [sessions EXCEPT ![ini[i].sid] = Absent]
  /\ gone' = gone \cup {SessionOf(i).key}
  /\ UNCHANGED <<ini, nextId, eph, losses, broken, established, accepted>>

\* SGX_ERROR_ENCLAVE_LOST: the module makes a new enclave and repeats the
\* call.  Everything the old key manager enclave held is gone.
KeymgrLost ==
  /\ losses < MaxLoss
  /\ losses' = losses + 1
  /\ responder' = "none"
  /\ sessions' = [d \in Id |-> Absent]
  /\ nextId' = 0
  /\ gone' = gone \cup {sessions[d].key : d \in Id}
  /\ UNCHANGED <<ini, eph, broken, established, accepted>>

\* The same for an analyzer enclave: its key manager session object, and the
\* call it was in, are gone.
AnalyzerLost(i) ==
  /\ ini[i].made
  /\ ini' = [ini EXCEPT ![i] = FreshInitiator]
  /\ UNCHANGED <<respVars, eph, losses, histVars>>

-----------------------------------------------------------------------------

ChannelNext ==
  \/ KeymgrLost
  \/ \E i \in Initiator :
       \/ InitKeymgrSession(i)
       \/ HandshakeFails(i)
       \/ SessionRequest(i)
       \/ SessionRequestFails(i)
       \/ ExchangeReport(i, i \in Trusted)
       \/ FinishSession(i)
       \/ \E q \in Request : SendRequest(i, q)
       \/ ResponseFails(i)
       \/ EncryptFails(i)
       \/ \E b \in Body : GenerateResponse(i, b)
       \/ AcceptResponse(i)
       \/ RejectResponse(i)
       \/ CloseSession(i)
       \/ AnalyzerLost(i)

ChannelSpec == ChannelInit /\ [][ChannelNext]_channelVars

-----------------------------------------------------------------------------
(* Properties.                                                             *)

\* Agreement: once create_session has returned success, and until the
\* responder's session is ended or its enclave lost, the id in the
\* initiator's object names an active responder session of that initiator
\* with the same key.  The insert in session_request must not replace an
\* older session when m_next_session_id wraps around, and no stale message
\* may move a session that is in use.
Agreement ==
  \A i \in Initiator :
    Live(i) => /\ SessionOf(i).status = "active"
               /\ SessionOf(i).key = ini[i].key
               /\ SessionOf(i).peer = i

\* InStep: the two counters of a session in use agree (one apart while a
\* response travels) unless a response that was generated was not accepted;
\* the error returns of generate_response in front of the increment do not
\* put them out of step.
InStep ==
  \A i \in Initiator :
    Live(i) /\ ini[i].key \notin broken =>
      SessionOf(i).counter =
        ini[i].counter + (IF ini[i].pc = "reply" THEN 1 ELSE 0)

\* AnswersInStep: send_request_recv_response accepts a response exactly when
\* every response generated before it on that session was accepted: after a
\* lost one, no response of the session is accepted again.
AnswersInStep ==
  \A i \in Initiator :
    ini[i].pc = "reply" => (Fresh(i) <=> ini[i].key \notin broken)

\* PeersVerified: a responder session is active only in a responder that has
\* a verifier, for a peer the verifier accepted.  A responder object made by
\* any entry point but msession_request never gets an active session.
PeersVerified ==
  \A d \in Id :
    sessions[d].status = "active" =>
      responder = "ready" /\ sessions[d].peer \in Trusted

-----------------------------------------------------------------------------
(* What the channel promises: see RpcChannel.                              *)

OpenChannel(i) ==
  /\ ini[i].active
  /\ ini[i].key \notin broken
  /\ ini[i].key \notin gone \/ ini[i].pc = "reply"

Rpc == INSTANCE RpcChannel WITH
         Client <- Initiator,
         Chan <- Key \ {ZeroKey},
         NoChan <- ZeroKey,
         open <- [i \in Initiator |->
                    IF OpenChannel(i) THEN ini[i].key ELSE ZeroKey],
         used <- established,
         answers <- accepted

\* Refinement: every step of the two session classes is a step of the
\* abstract call channel or changes nothing of it.
ImplementsRpc == Rpc!Spec
=============================================================================
