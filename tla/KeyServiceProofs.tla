-------------------------- MODULE KeyServiceProofs --------------------------
(***************************************************************************)
(* Invariance proofs for DhChannel, for any number of analyzers, session   *)
(* ids, handshakes, messages and losses, and for KeyService, which adds    *)
(* the owners' keys, key manager keys, measurements and policies to it.    *)
(***************************************************************************)
EXTENDS KeyService, TLAPS

-----------------------------------------------------------------------------
(* The channel (DhChannel).                                                *)

(* Agreement and the counter invariants are not inductive: a late message  *)
(* of a handshake, or a request under a key the responder no longer has,   *)
(* must be known not to meet a session of somebody else.  The parts below  *)
(* say so.                                                                 *)

\* Keys are numbered by the message 1 they come from.
Numbered ==
  /\ gone \subseteq 0 .. eph
  /\ established \subseteq 1 .. eph
  /\ broken \subseteq established
  /\ \A d \in Id : sessions[d].status # "absent" =>
       sessions[d].eph \in 1 .. eph

\* A responder session: its key is its handshake's once it is active, no
\* other session is of that handshake, and it was not erased.
SessionsDistinct ==
  /\ \A d \in Id : sessions[d].status = "active" =>
       sessions[d].key = sessions[d].eph
  /\ \A d \in Id : sessions[d].status # "active" => sessions[d].key = ZeroKey
  /\ \A d \in Id : sessions[d].status # "absent" => sessions[d].eph \notin gone
  /\ \A d, f \in Id :
       /\ sessions[d].status # "absent"
       /\ sessions[f].status # "absent"
       /\ sessions[d].eph = sessions[f].eph
       => d = f

\* An analyzer in a handshake is the only one in it, and its key is new.
HandshakesDistinct ==
  /\ \A i \in Initiator : ini[i].pc \in {"exchange", "finish"} =>
       /\ ini[i].hsEph \in 1 .. eph
       /\ ini[i].hsEph \notin established
       /\ ~ini[i].active
  /\ \A i, j \in Initiator :
       /\ ini[i].pc \in {"exchange", "finish"}
       /\ ini[j].pc \in {"exchange", "finish"}
       /\ ini[i].hsEph = ini[j].hsEph
       => i = j

\* An analyzer's key: its own, and the zero key until it is established.
KeysDistinct ==
  /\ \A i \in Initiator :
       IF ini[i].active THEN ini[i].key \in established
                        ELSE ini[i].key = ZeroKey
  /\ \A i \in Initiator : ini[i].pc = "request" => ~ini[i].active
  /\ \A i \in Initiator : ~ini[i].made => ~ini[i].active /\ ini[i].pc = "idle"
  /\ \A i, j \in Initiator :
       ini[i].active /\ ini[j].active /\ ini[i].key = ini[j].key => i = j

\* Between exchange_report and the end of create_session.
HalfOpen ==
  \A i \in Initiator : ini[i].pc = "finish" /\ ini[i].hsEph \notin gone =>
    /\ sessions[ini[i].hsId].status = "active"
    /\ sessions[ini[i].hsId].key = ini[i].hsEph
    /\ sessions[ini[i].hsId].peer = i
    /\ sessions[ini[i].hsId].counter = 0

InFlight(i) == IF ini[i].pc = "reply" THEN 1 ELSE 0

\* A session that lost a response stays ahead of its initiator.
Ahead ==
  /\ \A i \in Initiator : ini[i].pc = "reply" => ini[i].active
  /\ \A i \in Initiator : Live(i) /\ ini[i].key \in broken =>
       SessionOf(i).counter > ini[i].counter + InFlight(i)

\* The steps of the channel, whatever a host above it makes the verifier
\* answer, as long as it accepts trusted peers only.
ChannelStep ==
  \/ KeymgrLost
  \/ \E i \in Initiator :
       \/ InitKeymgrSession(i)
       \/ HandshakeFails(i) \/ SessionRequestFails(i) \/ ResponseFails(i)
       \/ SessionRequest(i)
       \/ \E v \in BOOLEAN : (v => i \in Trusted) /\ ExchangeReport(i, v)
       \/ FinishSession(i)
       \/ \E q \in Request : SendRequest(i, q)
       \/ EncryptFails(i) \/ \E b \in Body : GenerateResponse(i, b)
       \/ AcceptResponse(i) \/ RejectResponse(i)
       \/ CloseSession(i)
       \/ AnalyzerLost(i)

\* The verifier of DhChannel itself accepts exactly the trusted peers.
LEMMA NextIsStep == [ChannelNext]_channelVars => [ChannelStep]_channelVars
  <1>1. \A i \in Initiator : (i \in Trusted) \in BOOLEAN
    OBVIOUS
  <1> QED BY <1>1 DEF ChannelNext, ChannelStep

-----------------------------------------------------------------------------
(* Type correctness.                                                       *)

\* What Idle does to an initiator's record: it keeps the object's fields and
\* clears those of the call.
LEMMA IdleType ==
  ASSUME NEW r \in InitiatorState
  PROVE  /\ Idle(r) \in InitiatorState
         /\ Idle(r).made = r.made /\ Idle(r).active = r.active
         /\ Idle(r).sid = r.sid /\ Idle(r).key = r.key
         /\ Idle(r).counter = r.counter /\ Idle(r).pc = "idle"
  <1>1. 0 \in Id /\ 0 \in Key /\ NoReply \in Reply
    BY ChannelAssumption DEF Id, Key, NoReply, Reply
  <1> QED BY <1>1 DEF Idle, InitiatorState

LEMMA AbsentType == Absent \in Session /\ FreshInitiator \in InitiatorState
  <1>1. 0 \in Id /\ 0 \in Key /\ NoReply \in Reply /\ 0 \in 0 .. NonceLimit
    BY ChannelAssumption DEF Id, Key, NoReply, Reply
  <1> QED BY <1>1 DEF Absent, Session, FreshInitiator, InitiatorState, ZeroKey

LEMMA NextIdType ==
  ASSUME nextId \in Id
  PROVE  NextSessionId \in Id
  BY ChannelAssumption DEF Id, NextSessionId

LEMMA TypeInit == ChannelInit => ChannelTypeOK
  BY AbsentType, ChannelAssumption
     DEF ChannelInit, ChannelTypeOK, Id, Key

LEMMA TypeStep ==
  ASSUME ChannelTypeOK, [ChannelStep]_channelVars
  PROVE  ChannelTypeOK'
  <1> USE DEF ChannelTypeOK
  <1>0. CASE UNCHANGED channelVars
    BY <1>0 DEF channelVars
  <1>1. CASE KeymgrLost
    <2>1. {sessions[d].key : d \in Id} \subseteq Key
      BY DEF Session
    <2> QED BY <1>1, <2>1, AbsentType, ChannelAssumption DEF KeymgrLost, Id
  <1>2. ASSUME NEW i \in Initiator, InitKeymgrSession(i)
        PROVE  ChannelTypeOK'
    <2>1. [ini[i] EXCEPT !.made = TRUE, !.pc = "request"] \in InitiatorState
      BY DEF InitiatorState
    <2>2. ini' \in [Initiator -> InitiatorState]
      BY <1>2, <2>1 DEF InitKeymgrSession
    <2> QED BY <1>2, <2>2 DEF InitKeymgrSession, respVars, histVars
  <1>3. ASSUME NEW i \in Initiator, HandshakeFails(i)
        PROVE  ChannelTypeOK'
    BY <1>3, IdleType DEF HandshakeFails, Return, respVars, histVars
  <1>4. ASSUME NEW i \in Initiator, SessionRequest(i)
        PROVE  ChannelTypeOK'
    <2>1. eph + 1 \in Key
      BY <1>4, ChannelAssumption DEF SessionRequest, Key
    <2>2. [Absent EXCEPT !.status = "in_progress", !.eph = eph + 1,
             !.dh = "wait"] \in Session
      BY <2>1, AbsentType DEF Session, Absent
    <2>3. sessions' \in [Id -> Session]
      BY <1>4, <2>2 DEF SessionRequest, Inserted
    <2>a. PICK e \in Key : e = eph + 1
      BY <2>1
    <2>b. [ini[i] EXCEPT !.pc = "exchange", !.hsId = nextId, !.hsEph = e]
            \in InitiatorState
      BY DEF InitiatorState
    <2>4. ini' \in [Initiator -> InitiatorState]
      BY <1>4, <2>a, <2>b DEF SessionRequest
    <2> QED BY <1>4, <2>1, <2>3, <2>4, NextIdType DEF SessionRequest, histVars
  <1>5. ASSUME NEW i \in Initiator, SessionRequestFails(i)
        PROVE  ChannelTypeOK'
    BY <1>5, IdleType, NextIdType DEF SessionRequestFails, Return, histVars
  <1>6. ASSUME NEW i \in Initiator, NEW v, ExchangeReport(i, v)
        PROVE  ChannelTypeOK'
    <2> DEFINE d == ini[i].hsId
               s == sessions[d]
    <2>1. d \in Id /\ s \in Session /\ 0 \in 0 .. NonceLimit
      BY ChannelAssumption DEF InitiatorState
    <2>2. [s EXCEPT !.dh = "spent"] \in Session
      BY <2>1 DEF Session
    <2>3. [s EXCEPT !.status = "active", !.dh = "spent", !.counter = 0,
             !.key = s.eph, !.peer = i] \in Session
      BY <2>1 DEF Session
    <2>4. sessions' \in [Id -> Session]
      BY <1>6, <2>1, <2>2, <2>3 DEF ExchangeReport
    <2>5. ini' \in [Initiator -> InitiatorState]
      BY <1>6, IdleType DEF ExchangeReport, Return, InitiatorState
    <2> QED BY <1>6, <2>4, <2>5 DEF ExchangeReport, LazyResponder, histVars
  <1>7. ASSUME NEW i \in Initiator, FinishSession(i)
        PROVE  ChannelTypeOK'
    <2> DEFINE r == [ini[i] EXCEPT !.active = TRUE, !.counter = 0,
                       !.key = ini[i].hsEph, !.sid = ini[i].hsId]
    <2>1. /\ ini[i] \in InitiatorState /\ 0 \in 0 .. NonceLimit
          /\ ini[i].hsEph \in Key /\ ini[i].hsId \in Id
      BY ChannelAssumption DEF InitiatorState
    <2>2. r \in InitiatorState
      BY <2>1 DEF InitiatorState
    <2>3. Idle(r) \in InitiatorState
      BY <2>2, IdleType
    <2>4. ini' = [ini EXCEPT ![i] = Idle(r)]
      BY <1>7 DEF FinishSession
    <2> HIDE DEF r
    <2> QED BY <1>7, <2>1, <2>3, <2>4 DEF FinishSession, respVars
  <1>8. ASSUME NEW i \in Initiator, NEW q \in Request, SendRequest(i, q)
        PROVE  ChannelTypeOK'
    <2>1. [ini[i] EXCEPT !.pc = "call", !.request = q] \in InitiatorState
      BY DEF InitiatorState
    <2> QED BY <1>8, <2>1 DEF SendRequest, respVars, histVars
  <1>9. ASSUME NEW i \in Initiator, ResponseFails(i)
        PROVE  ChannelTypeOK'
    BY <1>9, IdleType DEF ResponseFails, Return, LazyResponder, histVars
  <1>10. ASSUME NEW i \in Initiator,
                \/ EncryptFails(i)
                \/ \E b \in Body : GenerateResponse(i, b)
         PROVE  ChannelTypeOK'
    <2>1. ini[i].sid \in Id /\ ini[i].key \in Key /\ SessionOf(i) \in Session
      BY DEF InitiatorState, SessionOf
    <2>a. /\ SessionOf(i).counter < NonceLimit
          /\ sessions' = [sessions EXCEPT ![ini[i].sid] =
                            [SessionOf(i) EXCEPT !.counter = SessionOf(i).counter + 1]]
      <3>1. CASE EncryptFails(i)
        BY <3>1 DEF EncryptFails, SessionOf
      <3>2. ASSUME NEW b \in Body, GenerateResponse(i, b)
            PROVE  /\ SessionOf(i).counter < NonceLimit
                   /\ sessions' = [sessions EXCEPT ![ini[i].sid] =
                                     [SessionOf(i) EXCEPT !.counter = SessionOf(i).counter + 1]]
        BY <3>2 DEF GenerateResponse, SessionOf
      <3> QED BY <1>10, <3>1, <3>2
    <2>2. SessionOf(i).counter + 1 \in 0 .. NonceLimit
      BY <2>1, <2>a, ChannelAssumption DEF Session
    <2>3. [SessionOf(i) EXCEPT !.counter = SessionOf(i).counter + 1] \in Session
      BY <2>1, <2>2 DEF Session
    <2>4. sessions' \in [Id -> Session]
      BY <2>1, <2>3, <2>a
    <2>5. CASE EncryptFails(i)
      BY <2>1, <2>4, <2>5, IdleType DEF EncryptFails, Return
    <2>6. ASSUME NEW b \in Body, GenerateResponse(i, b) PROVE ChannelTypeOK'
      <3>1. [session_id |-> 0, nonce |-> SessionOf(i).counter + 1,
              body |-> b] \in Reply
        BY <2>2, ChannelAssumption DEF Reply, Id
      <3>a. PICK r \in Reply : r = [session_id |-> 0, nonce |-> SessionOf(i).counter + 1,
                                    body |-> b]
        BY <3>1
      <3>b. [ini[i] EXCEPT !.pc = "reply", !.reply = r] \in InitiatorState
        BY DEF InitiatorState
      <3>2. ini' \in [Initiator -> InitiatorState]
        BY <2>6, <3>a, <3>b DEF GenerateResponse
      <3> QED BY <2>4, <2>6, <3>2 DEF GenerateResponse, histVars
    <2> QED BY <1>10, <2>5, <2>6
  <1>11. ASSUME NEW i \in Initiator, AcceptResponse(i)
         PROVE  ChannelTypeOK'
    <2>1. ini[i].counter + 1 \in 0 .. NonceLimit
      BY <1>11 DEF AcceptResponse, Fresh, InitiatorState, Reply
    <2>2. [ini[i] EXCEPT !.counter = ini[i].counter + 1] \in InitiatorState
      BY <2>1 DEF InitiatorState
    <2>3. Idle([ini[i] EXCEPT !.counter = ini[i].counter + 1]) \in InitiatorState
      BY <2>2, IdleType
    <2>4. ini' \in [Initiator -> InitiatorState]
      BY <1>11, <2>3 DEF AcceptResponse
    <2>5. accepted' \in [Initiator -> Nat]
      BY <1>11 DEF AcceptResponse
    <2> QED BY <1>11, <2>4, <2>5 DEF AcceptResponse, respVars
  <1>12. ASSUME NEW i \in Initiator, RejectResponse(i)
         PROVE  ChannelTypeOK'
    <2>1. ini[i].key \in Key
      BY DEF InitiatorState
    <2> QED BY <1>12, <2>1, IdleType DEF RejectResponse, Return, respVars
  <1>13. ASSUME NEW i \in Initiator, CloseSession(i)
         PROVE  ChannelTypeOK'
    <2>1. SessionOf(i).key \in Key
      BY DEF SessionOf, InitiatorState, Session
    <2> QED BY <1>13, <2>1, AbsentType DEF CloseSession, LazyResponder
  <1>14. ASSUME NEW i \in Initiator, AnalyzerLost(i)
         PROVE  ChannelTypeOK'
    BY <1>14, AbsentType DEF AnalyzerLost, respVars, histVars
  <1> QED
    BY <1>0, <1>1, <1>2, <1>3, <1>4, <1>5, <1>6, <1>7, <1>8, <1>9, <1>10,
       <1>11, <1>12, <1>13, <1>14 DEF ChannelStep

\* Every field of the session objects and of the responder's table keeps its
\* type, for any number of analyzers and any bounds.
THEOREM ChannelTyped == ChannelSpec => []ChannelTypeOK
  BY TypeInit, TypeStep, NextIsStep, PTL DEF ChannelSpec

-----------------------------------------------------------------------------
(* The inductive invariant.                                                *)

\* The inductive invariant beyond the types.
Coherent ==
  /\ Numbered
  /\ SessionsDistinct
  /\ HandshakesDistinct
  /\ KeysDistinct
  /\ HalfOpen
  /\ Agreement
  /\ InStep
  /\ Ahead
  /\ AnswersInStep
  /\ PeersVerified

\* A step of one analyzer that leaves the responder's sessions alone and its
\* own object either as it was or new.
LEMMA LocalStep ==
  ASSUME ChannelTypeOK, Coherent, NEW i \in Initiator, NEW r \in InitiatorState,
         ini' = [ini EXCEPT ![i] = r],
         UNCHANGED <<sessions, eph, gone, broken, established>>,
         responder = "ready" => responder' = "ready",
         r.pc \in {"idle", "request", "call"},
         r.pc = "request" => ~r.active,
         ~r.made => ~r.active /\ r.pc = "idle",
         r.active => /\ ini[i].active /\ ini[i].pc # "reply"
                     /\ r.sid = ini[i].sid /\ r.key = ini[i].key
                     /\ r.counter = ini[i].counter,
         ~r.active => r.key = ZeroKey
  PROVE  Coherent'
  <1>1. \A j \in Initiator : ini'[j] = IF j = i THEN r ELSE ini[j]
    BY DEF ChannelTypeOK
  <1>2. Numbered' /\ SessionsDistinct'
    BY DEF Coherent, Numbered, SessionsDistinct
  <1>3. HandshakesDistinct' /\ KeysDistinct' /\ HalfOpen'
    BY <1>1 DEF Coherent, HandshakesDistinct, KeysDistinct, HalfOpen
  <1>4. Agreement' /\ InStep' /\ Ahead'
    BY <1>1 DEF Coherent, Agreement, InStep, Ahead, Live, SessionOf, InFlight
  <1>5. AnswersInStep' /\ PeersVerified'
    BY <1>1 DEF Coherent, AnswersInStep, PeersVerified, Fresh
  <1> QED BY <1>2, <1>3, <1>4, <1>5 DEF Coherent

\* A request that reaches the handler comes from the session's own peer over
\* a session in use.
LEMMA ReachesLive ==
  ASSUME ChannelTypeOK, Coherent, NEW i \in Initiator, Reaches(i)
  PROVE  Live(i) /\ SessionOf(i).peer = i /\ ini[i].sid \in Id
  <1>1. ini[i].sid \in Id
    BY DEF ChannelTypeOK, InitiatorState
  <1>2. SessionOf(i).key = SessionOf(i).eph /\ SessionOf(i).eph \in 1 .. eph
        /\ SessionOf(i).eph \notin gone
    BY <1>1 DEF Reaches, Coherent, SessionsDistinct, Numbered, SessionOf
  <1>3. ini[i].key # ZeroKey /\ ini[i].key \notin gone
    BY <1>2 DEF Reaches, ZeroKey, ChannelTypeOK, Key
  <1>4. Live(i)
    BY <1>3 DEF Coherent, KeysDistinct, Live
  <1> QED BY <1>1, <1>4 DEF Coherent, Agreement

LEMMA SessionRequestStep ==
  ASSUME ChannelTypeOK, Coherent, NEW i \in Initiator, SessionRequest(i)
  PROVE  Coherent'
  <1> DEFINE e == eph + 1
  <1>1. /\ ini[i].pc = "request" /\ ~ini[i].active /\ ini[i].key = ZeroKey
        /\ eph' = e /\ e \in Nat /\ eph \in Nat
        /\ UNCHANGED <<gone, broken, established>>
        /\ ini[i].made
    BY DEF SessionRequest, Coherent, KeysDistinct, histVars, ChannelTypeOK, Key
  <1>2. \A j \in Initiator : j # i => ini'[j] = ini[j]
    BY DEF SessionRequest, ChannelTypeOK
  <1>3. /\ ini'[i].pc = "exchange" /\ ini'[i].hsEph = e
        /\ ini'[i].active = ini[i].active /\ ini'[i].key = ini[i].key
        /\ ini'[i].made = ini[i].made
    BY DEF SessionRequest, ChannelTypeOK, InitiatorState
  <1>4. \A d \in Id : sessions'[d] = sessions[d] \/
          /\ sessions[d].status = "absent"
          /\ d = nextId
          /\ sessions'[d].status = "in_progress" /\ sessions'[d].eph = e
          /\ sessions'[d].key = ZeroKey
    BY DEF SessionRequest, ChannelTypeOK, Inserted, Absent
  <1>5. Numbered'
    BY <1>1, <1>4 DEF Coherent, Numbered
  <1>6. SessionsDistinct'
    BY <1>1, <1>4 DEF Coherent, SessionsDistinct, Numbered
  <1>7. HandshakesDistinct' /\ KeysDistinct'
    <2>1. KeysDistinct'
      BY <1>1, <1>2, <1>3 DEF Coherent, KeysDistinct
    <2>2. \A j \in Initiator : ini[j].pc \in {"exchange", "finish"} =>
            ini[j].hsEph \in 1 .. eph
      BY DEF Coherent, HandshakesDistinct
    <2>3. e \notin established /\ e \in 1 .. e
      BY <1>1 DEF Coherent, Numbered
    <2>4. \A j \in Initiator : ini'[j].pc \in {"exchange", "finish"} =>
            /\ ini'[j].hsEph \in 1 .. e /\ ini'[j].hsEph \notin established
            /\ ~ini'[j].active /\ (j # i => ini'[j].hsEph # e)
      BY <1>1, <1>2, <1>3, <2>2, <2>3 DEF Coherent, HandshakesDistinct
    <2> QED BY <1>1, <1>2, <1>3, <2>1, <2>4
            DEF Coherent, HandshakesDistinct
  <1>8. HalfOpen'
    <2> SUFFICES ASSUME NEW j \in Initiator, ini'[j].pc = "finish",
                        ini'[j].hsEph \notin gone
                 PROVE  /\ sessions'[ini'[j].hsId].status = "active"
                        /\ sessions'[ini'[j].hsId].key = ini'[j].hsEph
                        /\ sessions'[ini'[j].hsId].peer = j
                        /\ sessions'[ini'[j].hsId].counter = 0
      BY <1>1 DEF HalfOpen
    <2>1. ini'[j] = ini[j] /\ ini[j].hsId \in Id
      BY <1>2, <1>3 DEF ChannelTypeOK, InitiatorState
    <2>2. sessions[ini[j].hsId].status = "active"
      BY <2>1 DEF Coherent, HalfOpen
    <2>3. sessions'[ini[j].hsId] = sessions[ini[j].hsId]
      BY <1>4, <2>1, <2>2
    <2> QED BY <2>1, <2>3 DEF Coherent, HalfOpen
  <1>9. \A j \in Initiator : Live(j)' =>
          /\ ini'[j] = ini[j] /\ Live(j)
          /\ SessionOf(j)' = SessionOf(j)
    <2> SUFFICES ASSUME NEW j \in Initiator, Live(j)'
                 PROVE  ini'[j] = ini[j] /\ Live(j) /\ SessionOf(j)' = SessionOf(j)
      OBVIOUS
    <2>1. ini'[j] = ini[j] /\ Live(j) /\ ini[j].sid \in Id
      BY <1>1, <1>2, <1>3 DEF Live, ChannelTypeOK, InitiatorState
    <2>2. SessionOf(j).status = "active"
      BY <2>1 DEF Coherent, Agreement
    <2> QED BY <1>4, <2>1, <2>2 DEF SessionOf
  <1>10. Agreement' /\ InStep'
    BY <1>1, <1>9 DEF Coherent, Agreement, InStep
  <1>11. Ahead'
    BY <1>1, <1>2, <1>3, <1>9 DEF Coherent, Ahead, InFlight
  <1>12. AnswersInStep'
    BY <1>1, <1>2, <1>3 DEF Coherent, AnswersInStep, Fresh
  <1>13. PeersVerified'
    BY <1>4 DEF Coherent, PeersVerified, SessionRequest
  <1> QED BY <1>5, <1>6, <1>7, <1>8, <1>10, <1>11, <1>12, <1>13 DEF Coherent

\* The three ways exchange_report can go.
LEMMA ExchangeReportStep ==
  ASSUME ChannelTypeOK, ChannelTypeOK', Coherent, NEW i \in Initiator,
         NEW v \in BOOLEAN, v => i \in Trusted, ExchangeReport(i, v)
  PROVE  Coherent'
  <1> DEFINE d == ini[i].hsId
             s == sessions[d]
             ok == Exchangeable(s) /\ ProcMsg2(s, ini[i].hsEph)
                   /\ VerifyPeer(v)
  <1>1. /\ d \in Id /\ ini[i] \in InitiatorState /\ s \in Session
        /\ ini[i].pc = "exchange"
        /\ UNCHANGED <<eph, gone, broken, established>>
        /\ responder = "ready" => responder' = "ready"
        /\ ini[i].hsEph \in 1 .. eph /\ ini[i].hsEph \notin established
        /\ ~ini[i].active /\ ini[i].key = ZeroKey /\ ini[i].made
    BY DEF ExchangeReport, histVars, ChannelTypeOK, InitiatorState,
           LazyResponder, Coherent, HandshakesDistinct, KeysDistinct
  <1>2. CASE ~Exchangeable(s)
    <2>1. sessions' = sessions /\ ini' = [ini EXCEPT ![i] = Idle(ini[i])]
      BY <1>2 DEF ExchangeReport, Return
    <2> QED BY <1>1, <2>1, IdleType, LocalStep
  <1>3. CASE Exchangeable(s) /\ ~ok
    <2>1. /\ sessions' = [sessions EXCEPT ![d] = [s EXCEPT !.dh = "spent"]]
          /\ ini' = [ini EXCEPT ![i] = Idle(ini[i])]
      BY <1>3 DEF ExchangeReport, Return
    <2>2. \A f \in Id : /\ sessions'[f].status = sessions[f].status
                        /\ sessions'[f].eph = sessions[f].eph
                        /\ sessions'[f].key = sessions[f].key
                        /\ sessions'[f].peer = sessions[f].peer
                        /\ sessions'[f].counter = sessions[f].counter
      BY <1>1, <2>1 DEF ChannelTypeOK, Session
    <2>3. \A j \in Initiator : j # i => ini'[j] = ini[j]
      BY <2>1 DEF ChannelTypeOK
    <2>4. /\ ini'[i].pc = "idle" /\ ini'[i].active = ini[i].active
          /\ ini'[i].key = ini[i].key /\ ini'[i].made = ini[i].made
      BY <1>1, <2>1, IdleType DEF ChannelTypeOK
    <2>5. \A j \in Initiator : ini[j].sid \in Id /\ ini[j].hsId \in Id
                              /\ ini'[j].sid \in Id /\ ini'[j].hsId \in Id
      BY DEF ChannelTypeOK, InitiatorState
    <2>6. Numbered' /\ SessionsDistinct' /\ PeersVerified'
      BY <1>1, <2>2 DEF Coherent, Numbered, SessionsDistinct, PeersVerified
    <2>7. HandshakesDistinct' /\ KeysDistinct'
      BY <1>1, <2>3, <2>4 DEF Coherent, HandshakesDistinct, KeysDistinct
    <2>8. HalfOpen'
      BY <1>1, <2>2, <2>3, <2>4, <2>5 DEF Coherent, HalfOpen
    <2>9. \A j \in Initiator : Live(j)' =>
            /\ ini'[j] = ini[j] /\ Live(j)
            /\ SessionOf(j)'.status = SessionOf(j).status
            /\ SessionOf(j)'.key = SessionOf(j).key
            /\ SessionOf(j)'.peer = SessionOf(j).peer
            /\ SessionOf(j)'.counter = SessionOf(j).counter
      BY <1>1, <2>2, <2>3, <2>4, <2>5 DEF Live, SessionOf
    <2>10. Agreement' /\ InStep'
      BY <1>1, <2>9 DEF Coherent, Agreement, InStep
    <2>11. Ahead'
      BY <1>1, <2>3, <2>4, <2>9 DEF Coherent, Ahead, InFlight
    <2>12. AnswersInStep'
      BY <1>1, <2>3, <2>4 DEF Coherent, AnswersInStep, Fresh
    <2> QED BY <2>6, <2>7, <2>8, <2>10, <2>11, <2>12 DEF Coherent
  <1>4. CASE ok
    <2>1. /\ sessions' = [sessions EXCEPT ![d] =
                 [s EXCEPT !.status = "active", !.dh = "spent",
                           !.counter = 0, !.key = s.eph, !.peer = i]]
          /\ ini' = [ini EXCEPT ![i] = [ini[i] EXCEPT !.pc = "finish"]]
          /\ s.status = "in_progress" /\ s.eph = ini[i].hsEph
          /\ i \in Trusted /\ responder' = "ready"
      BY <1>1, <1>4 DEF ExchangeReport, Exchangeable, ProcMsg2, VerifyPeer
    <2>2. /\ sessions'[d].status = "active" /\ sessions'[d].eph = s.eph
          /\ sessions'[d].key = s.eph /\ sessions'[d].peer = i
          /\ sessions'[d].counter = 0
          /\ \A f \in Id : f # d => sessions'[f] = sessions[f]
      BY <1>1, <2>1 DEF ChannelTypeOK, Session
    <2>3. \A j \in Initiator : j # i => ini'[j] = ini[j]
      BY <2>1 DEF ChannelTypeOK
    <2>4. /\ ini'[i].pc = "finish" /\ ini'[i].active = ini[i].active
          /\ ini'[i].key = ini[i].key /\ ini'[i].made = ini[i].made
          /\ ini'[i].hsEph = ini[i].hsEph /\ ini'[i].hsId = d
      BY <1>1, <2>1 DEF ChannelTypeOK, InitiatorState
    <2>5. \A j \in Initiator : ini[j].sid \in Id /\ ini[j].hsId \in Id
      BY DEF ChannelTypeOK, InitiatorState
    <2>6. Numbered' /\ SessionsDistinct'
      BY <1>1, <2>1, <2>2 DEF Coherent, Numbered, SessionsDistinct
    <2>7. PeersVerified'
      BY <1>1, <2>1, <2>2 DEF Coherent, PeersVerified
    <2>8. HandshakesDistinct' /\ KeysDistinct'
      <3>1. KeysDistinct'
        BY <1>1, <2>3, <2>4 DEF Coherent, KeysDistinct
      <3>2. HandshakesDistinct'
        BY <1>1, <2>3, <2>4 DEF Coherent, HandshakesDistinct
      <3> QED BY <3>1, <3>2
    <2>9. HalfOpen'
      BY <1>1, <2>1, <2>2, <2>3, <2>4, <2>5 DEF Coherent, HalfOpen
    <2>10. \A j \in Initiator : Live(j)' =>
            ini'[j] = ini[j] /\ Live(j) /\ SessionOf(j)' = SessionOf(j)
      BY <1>1, <2>1, <2>2, <2>3, <2>4, <2>5
         DEF Coherent, Agreement, Live, SessionOf
    <2>11. Agreement' /\ InStep'
      BY <1>1, <2>10 DEF Coherent, Agreement, InStep
    <2>12. Ahead'
      BY <1>1, <2>3, <2>4, <2>10 DEF Coherent, Ahead, InFlight
    <2>13. AnswersInStep'
      BY <1>1, <2>3, <2>4 DEF Coherent, AnswersInStep, Fresh
    <2> QED
      BY <2>6, <2>7, <2>8, <2>9, <2>11, <2>12, <2>13 DEF Coherent
  <1> QED BY <1>2, <1>3, <1>4

LEMMA FinishSessionStep ==
  ASSUME ChannelTypeOK, Coherent, NEW i \in Initiator, FinishSession(i)
  PROVE  Coherent'
  <1> DEFINE e == ini[i].hsEph
             r == [ini[i] EXCEPT !.active = TRUE, !.counter = 0,
                     !.key = ini[i].hsEph, !.sid = ini[i].hsId]
  <1>1. /\ ini[i] \in InitiatorState /\ ini[i].pc = "finish"
        /\ UNCHANGED <<sessions, eph, gone, broken, responder>>
        /\ established' = established \cup {e}
        /\ e \in 1 .. eph /\ e \notin established /\ ~ini[i].active
        /\ ini[i].made
    BY DEF FinishSession, respVars, ChannelTypeOK, Coherent,
           HandshakesDistinct, KeysDistinct
  <1>2. r \in InitiatorState
    <2>1. 0 \in 0 .. NonceLimit
      BY ChannelAssumption
    <2> QED BY <1>1, <2>1 DEF InitiatorState
  <1>3. ini' = [ini EXCEPT ![i] = Idle(r)]
    BY DEF FinishSession
  <1>4. \A j \in Initiator : j # i => ini'[j] = ini[j]
    BY <1>3 DEF ChannelTypeOK
  <1>5. /\ ini'[i].pc = "idle" /\ ini'[i].active /\ ini'[i].key = e
        /\ ini'[i].sid = ini[i].hsId /\ ini'[i].counter = 0 /\ ini'[i].made
    <2>1. /\ r.active /\ r.key = e /\ r.sid = ini[i].hsId /\ r.counter = 0
          /\ r.made
      BY <1>1 DEF InitiatorState
    <2>2. ini'[i] = Idle(r)
      BY <1>3 DEF ChannelTypeOK
    <2> HIDE DEF r
    <2> QED BY <1>2, <2>1, <2>2, IdleType
  <1>6. Numbered' /\ SessionsDistinct' /\ PeersVerified'
    BY <1>1 DEF Coherent, Numbered, SessionsDistinct, PeersVerified
  <1>7. HandshakesDistinct'
    BY <1>1, <1>4, <1>5 DEF Coherent, HandshakesDistinct
  <1>8. KeysDistinct'
    BY <1>1, <1>4, <1>5 DEF Coherent, KeysDistinct
  <1>9. HalfOpen'
    BY <1>1, <1>4, <1>5 DEF Coherent, HalfOpen
  <1>10. e \notin broken
    BY <1>1 DEF Coherent, Numbered
  <1>11. Agreement' /\ InStep'
    BY <1>1, <1>4, <1>5 DEF Coherent, Agreement, InStep, HalfOpen, Live, SessionOf
  <1>12. Ahead'
    BY <1>1, <1>4, <1>5, <1>10 DEF Coherent, Ahead, Live, SessionOf, InFlight
  <1>13. AnswersInStep'
    BY <1>1, <1>4, <1>5 DEF Coherent, AnswersInStep, Fresh
  <1> QED
    BY <1>6, <1>7, <1>8, <1>9, <1>11, <1>12, <1>13 DEF Coherent

\* What generate_response does to the sessions: only that of i moves, and no
\* other analyzer has it.
LEMMA CountedOnce ==
  ASSUME ChannelTypeOK, Coherent, NEW i \in Initiator, Reaches(i),
         sessions' = [sessions EXCEPT ![ini[i].sid] =
           [SessionOf(i) EXCEPT !.counter = SessionOf(i).counter + 1]]
  PROVE  /\ \A d \in Id : /\ sessions'[d].status = sessions[d].status
                          /\ sessions'[d].eph = sessions[d].eph
                          /\ sessions'[d].key = sessions[d].key
                          /\ sessions'[d].peer = sessions[d].peer
         /\ \A d \in Id : d # ini[i].sid => sessions'[d] = sessions[d]
         /\ sessions'[ini[i].sid].counter = sessions[ini[i].sid].counter + 1
         /\ \A j \in Initiator : Live(j) /\ j # i => ini[j].sid # ini[i].sid
         /\ ini[i].active /\ ini[i].key \in established /\ ini[i].key \notin gone
         /\ \A j \in Initiator :
              ini[j].pc = "finish" /\ ini[j].hsEph \notin gone /\ j # i
              => ini[j].hsId # ini[i].sid
  <1>1. Live(i) /\ SessionOf(i).peer = i /\ ini[i].sid \in Id
    BY ReachesLive
  <1>2. SessionOf(i) \in Session
    BY <1>1 DEF ChannelTypeOK, SessionOf
  <1>3. \A j \in Initiator : Live(j) /\ j # i => ini[j].sid # ini[i].sid
    BY <1>1 DEF Coherent, Agreement, SessionOf
  <1>4. \A j \in Initiator :
              ini[j].pc = "finish" /\ ini[j].hsEph \notin gone /\ j # i
              => ini[j].hsId # ini[i].sid
    BY <1>1 DEF Coherent, HalfOpen, SessionOf
  <1>5. ini[i].active /\ ini[i].key \in established /\ ini[i].key \notin gone
    BY <1>1 DEF Live, Coherent, KeysDistinct
  <1> QED BY <1>1, <1>2, <1>3, <1>4, <1>5 DEF ChannelTypeOK, Session, SessionOf

LEMMA EncryptFailsStep ==
  ASSUME ChannelTypeOK, Coherent, NEW i \in Initiator, EncryptFails(i)
  PROVE  Coherent'
  <1>1. /\ Reaches(i) /\ ini[i].pc = "call" /\ ini[i] \in InitiatorState
        /\ sessions' = [sessions EXCEPT ![ini[i].sid] =
             [SessionOf(i) EXCEPT !.counter = SessionOf(i).counter + 1]]
        /\ ini' = [ini EXCEPT ![i] = Idle(ini[i])]
        /\ broken' = broken \cup {ini[i].key}
        /\ UNCHANGED <<responder, eph, gone, established>>
    BY DEF EncryptFails, Return, ChannelTypeOK
  <1>2. /\ \A d \in Id : /\ sessions'[d].status = sessions[d].status
                         /\ sessions'[d].eph = sessions[d].eph
                         /\ sessions'[d].key = sessions[d].key
                         /\ sessions'[d].peer = sessions[d].peer
        /\ \A d \in Id : d # ini[i].sid => sessions'[d] = sessions[d]
        /\ sessions'[ini[i].sid].counter = sessions[ini[i].sid].counter + 1
        /\ \A j \in Initiator : Live(j) /\ j # i => ini[j].sid # ini[i].sid
        /\ ini[i].active /\ ini[i].key \in established /\ ini[i].key \notin gone
        /\ \A j \in Initiator :
             ini[j].pc = "finish" /\ ini[j].hsEph \notin gone /\ j # i
             => ini[j].hsId # ini[i].sid
    BY <1>1, CountedOnce
  <1>3. \A j \in Initiator : j # i => ini'[j] = ini[j]
    BY <1>1 DEF ChannelTypeOK
  <1>4. /\ ini'[i].pc = "idle" /\ ini'[i].active = ini[i].active
        /\ ini'[i].key = ini[i].key /\ ini'[i].made = ini[i].made
        /\ ini'[i].sid = ini[i].sid /\ ini'[i].counter = ini[i].counter
    BY <1>1, IdleType DEF ChannelTypeOK
  <1>5. \A j \in Initiator :
          /\ ini[j].sid \in Id /\ ini[j].hsId \in Id
          /\ ini[j].counter \in Nat /\ SessionOf(j).counter \in Nat
    BY DEF ChannelTypeOK, InitiatorState, Session, SessionOf
  <1>6. Numbered' /\ SessionsDistinct' /\ PeersVerified'
    BY <1>1, <1>2 DEF Coherent, Numbered, SessionsDistinct, PeersVerified
  <1>7. HandshakesDistinct' /\ KeysDistinct'
    BY <1>1, <1>3, <1>4 DEF Coherent, HandshakesDistinct, KeysDistinct
  <1>8. HalfOpen'
    BY <1>1, <1>2, <1>3, <1>4, <1>5 DEF Coherent, HalfOpen
  <1>9. Agreement'
    BY <1>1, <1>2, <1>3, <1>4, <1>5 DEF Coherent, Agreement, Live, SessionOf
  <1>10. InStep'
    BY <1>1, <1>2, <1>3, <1>4, <1>5 DEF Coherent, InStep, Live, SessionOf
  <1>11. Ahead'
    <2> SUFFICES ASSUME NEW j \in Initiator
                 PROVE  /\ ini'[j].pc = "reply" => ini'[j].active
                        /\ Live(j)' /\ ini'[j].key \in broken' =>
                             SessionOf(j)'.counter >
                               ini'[j].counter + InFlight(j)'
      BY DEF Ahead
    <2>1. CASE j = i
      <3>1. Live(i) /\ InFlight(i) = 0 /\ InFlight(i)' = 0
        BY <1>1, <1>2, <1>4 DEF Live, InFlight
      <3>2. SessionOf(i).counter >= ini[i].counter
        BY <1>1, <1>5, <3>1 DEF Coherent, InStep, Ahead
      <3> QED BY <1>2, <1>4, <1>5, <2>1, <3>1, <3>2 DEF SessionOf
    <2>2. CASE j # i
      <3>1. Live(j)' /\ ini'[j].key \in broken' =>
              Live(j) /\ ini[j].key \in broken
        BY <1>1, <1>2, <1>3, <2>2 DEF Live, Coherent, KeysDistinct
      <3>2. Live(j) => SessionOf(j)' = SessionOf(j)
        BY <1>2, <1>3, <1>5, <2>2 DEF SessionOf
      <3> QED BY <1>3, <2>2, <3>1, <3>2 DEF Coherent, Ahead, InFlight
    <2> QED BY <2>1, <2>2
  <1>12. AnswersInStep'
    BY <1>1, <1>2, <1>3, <1>4
       DEF Coherent, AnswersInStep, Fresh, Ahead, KeysDistinct
  <1> QED BY <1>6, <1>7, <1>8, <1>9, <1>10, <1>11, <1>12 DEF Coherent

LEMMA GenerateResponseStep ==
  ASSUME ChannelTypeOK, Coherent, NEW i \in Initiator, NEW b,
         GenerateResponse(i, b)
  PROVE  Coherent'
  <1>1. /\ Reaches(i) /\ ini[i].pc = "call" /\ ini[i] \in InitiatorState
        /\ sessions' = [sessions EXCEPT ![ini[i].sid] =
             [SessionOf(i) EXCEPT !.counter = SessionOf(i).counter + 1]]
        /\ UNCHANGED <<responder, eph, gone, broken, established>>
    BY DEF GenerateResponse, histVars, ChannelTypeOK
  <1>2. /\ \A d \in Id : /\ sessions'[d].status = sessions[d].status
                         /\ sessions'[d].eph = sessions[d].eph
                         /\ sessions'[d].key = sessions[d].key
                         /\ sessions'[d].peer = sessions[d].peer
        /\ \A d \in Id : d # ini[i].sid => sessions'[d] = sessions[d]
        /\ sessions'[ini[i].sid].counter = sessions[ini[i].sid].counter + 1
        /\ \A j \in Initiator : Live(j) /\ j # i => ini[j].sid # ini[i].sid
        /\ ini[i].active /\ ini[i].key \in established /\ ini[i].key \notin gone
        /\ \A j \in Initiator :
             ini[j].pc = "finish" /\ ini[j].hsEph \notin gone /\ j # i
             => ini[j].hsId # ini[i].sid
    BY <1>1, CountedOnce
  <1>3. \A j \in Initiator : j # i => ini'[j] = ini[j]
    BY DEF GenerateResponse, ChannelTypeOK
  <1>4. /\ ini'[i].pc = "reply" /\ ini'[i].active = ini[i].active
        /\ ini'[i].key = ini[i].key /\ ini'[i].made = ini[i].made
        /\ ini'[i].sid = ini[i].sid /\ ini'[i].counter = ini[i].counter
        /\ ini'[i].reply.nonce = SessionOf(i).counter + 1
    BY <1>1 DEF GenerateResponse, ChannelTypeOK, InitiatorState
  <1>5. \A j \in Initiator :
          /\ ini[j].sid \in Id /\ ini[j].hsId \in Id
          /\ ini[j].counter \in Nat /\ SessionOf(j).counter \in Nat
    BY DEF ChannelTypeOK, InitiatorState, Session, SessionOf
  <1>6. Numbered' /\ SessionsDistinct' /\ PeersVerified'
    BY <1>1, <1>2 DEF Coherent, Numbered, SessionsDistinct, PeersVerified
  <1>7. HandshakesDistinct' /\ KeysDistinct'
    BY <1>1, <1>3, <1>4 DEF Coherent, HandshakesDistinct, KeysDistinct
  <1>8. HalfOpen'
    BY <1>1, <1>2, <1>3, <1>4, <1>5 DEF Coherent, HalfOpen
  <1>9. Agreement'
    BY <1>1, <1>2, <1>3, <1>4, <1>5 DEF Coherent, Agreement, Live, SessionOf
  <1>a. Live(i) /\ InFlight(i) = 0 /\ InFlight(i)' = 1
    BY <1>1, <1>2, <1>4 DEF Live, InFlight
  <1>b. IF ini[i].key \in broken THEN SessionOf(i).counter > ini[i].counter
                                 ELSE SessionOf(i).counter = ini[i].counter
    BY <1>1, <1>5, <1>a DEF Coherent, InStep, Ahead
  <1>10. InStep'
    BY <1>1, <1>2, <1>3, <1>4, <1>5, <1>b
       DEF Coherent, InStep, Live, SessionOf
  <1>11. Ahead'
    <2> SUFFICES ASSUME NEW j \in Initiator
                 PROVE  /\ ini'[j].pc = "reply" => ini'[j].active
                        /\ Live(j)' /\ ini'[j].key \in broken' =>
                             SessionOf(j)'.counter >
                               ini'[j].counter + InFlight(j)'
      BY DEF Ahead
    <2>1. CASE j = i
      <3>1. SessionOf(i)'.counter = SessionOf(i).counter + 1
        BY <1>2, <1>4 DEF SessionOf
      <3>2. ini[i].key \in broken => SessionOf(i).counter > ini[i].counter
        BY <1>b
      <3>3. SessionOf(i).counter \in Nat /\ ini[i].counter \in Nat
        BY <1>5
      <3>4. ini'[i].active
        BY <1>2, <1>4
      <3> QED BY <1>1, <1>4, <1>a, <2>1, <3>1, <3>2, <3>3, <3>4
    <2>2. CASE j # i
      <3>1. Live(j)' => Live(j) /\ SessionOf(j)' = SessionOf(j)
        BY <1>1, <1>2, <1>3, <1>5, <2>2 DEF Live, SessionOf
      <3> QED BY <1>1, <1>3, <2>2, <3>1 DEF Coherent, Ahead, InFlight
    <2> QED BY <2>1, <2>2
  <1>12. AnswersInStep'
    BY <1>1, <1>3, <1>4, <1>5, <1>b DEF Coherent, AnswersInStep, Fresh
  <1> QED BY <1>6, <1>7, <1>8, <1>9, <1>10, <1>11, <1>12 DEF Coherent

\* The end of send_request_recv_response, accepted or not.
LEMMA ResponseEndStep ==
  ASSUME ChannelTypeOK, Coherent, NEW i \in Initiator,
         AcceptResponse(i) \/ RejectResponse(i)
  PROVE  Coherent'
  <1>1. /\ ini[i].pc = "reply" /\ ini[i] \in InitiatorState
        /\ UNCHANGED <<sessions, responder, eph, gone, established>>
        /\ \/ Fresh(i) /\ broken' = broken
           \/ broken' = broken \cup {ini[i].key}
    BY DEF AcceptResponse, RejectResponse, respVars, ChannelTypeOK
  <1>2. \A j \in Initiator : j # i => ini'[j] = ini[j]
    BY DEF AcceptResponse, RejectResponse, Return, ChannelTypeOK
  <1>3. \A j \in Initiator :
          /\ ini[j].sid \in Id /\ ini[j].hsId \in Id
          /\ ini[j].counter \in Nat /\ SessionOf(j).counter \in Nat
    BY DEF ChannelTypeOK, InitiatorState, Session, SessionOf
  <1>4. /\ ini'[i].pc = "idle" /\ ini'[i].active = ini[i].active
        /\ ini'[i].key = ini[i].key /\ ini'[i].made = ini[i].made
        /\ ini'[i].sid = ini[i].sid
        /\ \/ broken' = broken /\ Fresh(i) /\ ini'[i].counter = ini[i].counter + 1
           \/ /\ broken' = broken \cup {ini[i].key}
              /\ ini'[i].counter = ini[i].counter
    <2>1. CASE RejectResponse(i)
      BY <1>1, <2>1, IdleType DEF RejectResponse, Return, ChannelTypeOK
    <2>2. CASE AcceptResponse(i)
      <3> DEFINE r == [ini[i] EXCEPT !.counter = ini[i].counter + 1]
      <3>1. ini[i].counter + 1 \in 0 .. NonceLimit
        BY <1>1, <2>2 DEF AcceptResponse, Fresh, InitiatorState, Reply
      <3>2. /\ r \in InitiatorState /\ r.made = ini[i].made
            /\ r.active = ini[i].active /\ r.key = ini[i].key
            /\ r.sid = ini[i].sid /\ r.counter = ini[i].counter + 1
        BY <1>1, <3>1 DEF InitiatorState
      <3>3. ini'[i] = Idle(r) /\ Fresh(i) /\ broken' = broken
        BY <2>2 DEF AcceptResponse, ChannelTypeOK
      <3> HIDE DEF r
      <3> QED BY <3>2, <3>3, IdleType
    <2> QED BY <2>1, <2>2
  <1>5. ini[i].active /\ ini[i].key \in established
    BY <1>1 DEF Coherent, Ahead, KeysDistinct
  <1>6. Numbered' /\ SessionsDistinct' /\ PeersVerified'
    BY <1>1, <1>5 DEF Coherent, Numbered, SessionsDistinct, PeersVerified
  <1>7. HandshakesDistinct' /\ KeysDistinct' /\ HalfOpen'
    BY <1>1, <1>2, <1>4 DEF Coherent, HandshakesDistinct, KeysDistinct, HalfOpen
  <1>8. Agreement'
    BY <1>1, <1>2, <1>4 DEF Coherent, Agreement, Live, SessionOf
  <1>9. \A j \in Initiator : j # i /\ ini[j].active => ini[j].key # ini[i].key
    BY <1>5 DEF Coherent, KeysDistinct
  <1>10. InStep'
    <2> SUFFICES ASSUME NEW j \in Initiator, Live(j)', ini'[j].key \notin broken'
                 PROVE  SessionOf(j)'.counter = ini'[j].counter +
                          (IF ini'[j].pc = "reply" THEN 1 ELSE 0)
      BY DEF InStep
    <2>1. Live(j) /\ SessionOf(j)' = SessionOf(j)
      BY <1>1, <1>2, <1>4 DEF Live, SessionOf
    <2>2. CASE j = i
      <3>1. ini[i].key \notin broken /\ ini'[i].counter = ini[i].counter + 1
        BY <1>4, <2>2
      <3>2. SessionOf(i).counter = ini[i].counter + 1
        BY <1>1, <2>1, <2>2, <3>1 DEF Coherent, InStep
      <3> QED BY <1>3, <1>4, <2>1, <2>2, <3>1, <3>2
    <2>3. CASE j # i
      BY <1>1, <1>2, <2>1, <2>3 DEF Coherent, InStep
    <2> QED BY <2>2, <2>3
  <1>11. Ahead'
    <2> SUFFICES ASSUME NEW j \in Initiator
                 PROVE  /\ ini'[j].pc = "reply" => ini'[j].active
                        /\ Live(j)' /\ ini'[j].key \in broken' =>
                             SessionOf(j)'.counter >
                               ini'[j].counter + InFlight(j)'
      BY DEF Ahead
    <2>1. Live(j)' => Live(j) /\ SessionOf(j)' = SessionOf(j)
      BY <1>1, <1>2, <1>4 DEF Live, SessionOf
    <2>2. CASE j = i
      <3>1. InFlight(i) = 1 /\ InFlight(i)' = 0
        BY <1>1, <1>4 DEF InFlight
      <3>2. Fresh(i) => ini[i].key \notin broken
        BY <1>1 DEF Coherent, AnswersInStep
      <3>3. Live(i) => SessionOf(i).counter >= ini[i].counter + 1
        BY <1>1, <1>3, <3>1 DEF Coherent, InStep, Ahead
      <3>4. Live(i)' /\ ini'[i].key \in broken' =>
              ini'[i].counter = ini[i].counter
        BY <1>4, <3>2
      <3> QED BY <1>3, <1>4, <2>1, <2>2, <3>1, <3>3, <3>4
    <2>3. CASE j # i
      <3>1. ini'[j].active /\ ini'[j].key \in broken' => ini[j].key \in broken
        BY <1>1, <1>2, <1>9, <2>3
      <3>2. Live(j)' => ini'[j].active
        BY DEF Live
      <3> QED BY <1>2, <2>1, <2>3, <3>1, <3>2 DEF Coherent, Ahead, InFlight
    <2> QED BY <2>2, <2>3
  <1>12. AnswersInStep'
    BY <1>1, <1>2, <1>4, <1>9 DEF Coherent, AnswersInStep, Fresh, Ahead
  <1> QED BY <1>6, <1>7, <1>8, <1>10, <1>11, <1>12 DEF Coherent

\* Sessions that go away: one of them, or all.
LEMMA ErasedStep ==
  ASSUME ChannelTypeOK, Coherent, NEW D \in SUBSET Id,
         UNCHANGED <<ini, eph, broken, established>>,
         sessions' = [d \in Id |-> IF d \in D THEN Absent ELSE sessions[d]],
         gone' = gone \cup {sessions[d].key : d \in D},
         D = Id \/ (responder = "ready" => responder' = "ready")
  PROVE  Coherent'
  <1>1. \A d \in Id : sessions'[d] = IF d \in D THEN Absent ELSE sessions[d]
    OBVIOUS
  <1>2. Absent.status = "absent" /\ Absent.key = ZeroKey
    BY DEF Absent
  <1>3. \A d \in Id : d \in D /\ sessions[d].status = "active" =>
          sessions[d].key \in gone'
    OBVIOUS
  <1>4. \A d \in Id : d \notin D /\ sessions[d].status # "absent" =>
          sessions[d].eph \notin gone'
    <2> SUFFICES ASSUME NEW d \in Id, d \notin D, sessions[d].status # "absent",
                        NEW f \in D, sessions[f].key = sessions[d].eph
                 PROVE  FALSE
      BY DEF Coherent, SessionsDistinct
    <2>1. sessions[d].eph \in 1 .. eph
      BY DEF Coherent, Numbered
    <2>2. sessions[f].status = "active"
      BY <2>1 DEF Coherent, SessionsDistinct, ZeroKey, ChannelTypeOK, Key
    <2> QED BY <2>2 DEF Coherent, SessionsDistinct
  <1>5. Numbered'
    <2>1. \A d \in Id : sessions[d].key \in 0 .. eph
      <3>1. eph \in Nat
        BY DEF ChannelTypeOK, Key
      <3> QED BY <3>1 DEF Coherent, Numbered, SessionsDistinct, ZeroKey
    <2> QED BY <1>1, <1>2, <2>1 DEF Coherent, Numbered
  <1>6. SessionsDistinct'
    BY <1>1, <1>2, <1>4 DEF Coherent, SessionsDistinct
  <1>7. HandshakesDistinct' /\ KeysDistinct'
    BY DEF Coherent, HandshakesDistinct, KeysDistinct
  <1>8. HalfOpen'
    BY <1>1, <1>3 DEF Coherent, HalfOpen, ChannelTypeOK, InitiatorState
  <1>9. \A j \in Initiator : Live(j)' => Live(j) /\ SessionOf(j)' = SessionOf(j)
    BY <1>1, <1>3
       DEF Coherent, Agreement, Live, SessionOf, ChannelTypeOK, InitiatorState
  <1>10. Agreement' /\ InStep'
    BY <1>9 DEF Coherent, Agreement, InStep
  <1>11. Ahead'
    BY <1>9 DEF Coherent, Ahead, InFlight
  <1>12. AnswersInStep'
    BY DEF Coherent, AnswersInStep, Fresh
  <1>13. PeersVerified'
    BY <1>1, <1>2 DEF Coherent, PeersVerified
  <1> QED BY <1>5, <1>6, <1>7, <1>8, <1>10, <1>11, <1>12, <1>13 DEF Coherent

LEMMA InvInit == ChannelInit => Coherent
  <1> SUFFICES ASSUME ChannelInit PROVE Coherent
    OBVIOUS
  <1>1. \A d \in Id : sessions[d].status = "absent" /\ sessions[d].key = ZeroKey
    BY DEF ChannelInit, Absent
  <1>2. \A i \in Initiator :
          /\ ~ini[i].active /\ ini[i].pc = "idle" /\ ini[i].key = ZeroKey
    BY DEF ChannelInit, FreshInitiator
  <1> QED
    BY <1>1, <1>2
       DEF ChannelInit, Coherent, Numbered, SessionsDistinct,
           HandshakesDistinct, KeysDistinct, HalfOpen, Agreement, InStep,
           Ahead, AnswersInStep, PeersVerified, Live

LEMMA InvStep ==
  ASSUME ChannelTypeOK, Coherent, [ChannelStep]_channelVars
  PROVE  Coherent'
  <1>a. \A i \in Initiator : ini[i] \in InitiatorState
    BY DEF ChannelTypeOK
  <1>b. ChannelTypeOK'
    BY TypeStep
  <1>0. CASE UNCHANGED channelVars
    BY <1>0 DEF channelVars, Coherent, Numbered, SessionsDistinct,
         HandshakesDistinct, KeysDistinct, HalfOpen, Agreement, InStep,
         Ahead, AnswersInStep, PeersVerified, Live, SessionOf, InFlight, Fresh
  <1>1. CASE KeymgrLost
    <2>1. /\ UNCHANGED <<ini, eph, broken, established>>
          /\ sessions' = [d \in Id |-> IF d \in Id THEN Absent ELSE sessions[d]]
          /\ gone' = gone \cup {sessions[d].key : d \in Id}
      BY <1>1 DEF KeymgrLost
    <2> QED BY <2>1, ErasedStep
  <1>2. ASSUME NEW i \in Initiator, InitKeymgrSession(i)
        PROVE  Coherent'
    <2> DEFINE r == [ini[i] EXCEPT !.made = TRUE, !.pc = "request"]
    <2>0. ini[i] \in InitiatorState
      BY <1>a
    <2>1. r \in InitiatorState
      BY <2>0 DEF InitiatorState
    <2>2. ~ini[i].active /\ ini[i].key = ZeroKey
      BY <1>2 DEF InitKeymgrSession, Coherent, KeysDistinct
    <2>4. /\ r.pc = "request" /\ r.made = TRUE
          /\ r.active = ini[i].active /\ r.key = ini[i].key
      BY <2>0 DEF InitiatorState
    <2>5. ~r.active /\ r.key = ZeroKey /\ r.made
      BY <2>2, <2>4
    <2>3. /\ ini' = [ini EXCEPT ![i] = r]
          /\ UNCHANGED <<sessions, eph, gone, broken, established, responder>>
      BY <1>2 DEF InitKeymgrSession, respVars, histVars
    <2> HIDE DEF r
    <2> QED BY <2>1, <2>3, <2>4, <2>5, LocalStep
  <1>3. ASSUME NEW i \in Initiator,
               HandshakeFails(i) \/ SessionRequestFails(i) \/ ResponseFails(i)
        PROVE  Coherent'
    <2>1. /\ ini' = [ini EXCEPT ![i] = Idle(ini[i])] /\ ini[i].pc # "reply"
          /\ ini[i].pc # "idle"
          /\ UNCHANGED <<sessions, eph, gone, broken, established>>
          /\ responder = "ready" => responder' = "ready"
      BY <1>3 DEF HandshakeFails, SessionRequestFails, ResponseFails, Return,
                  respVars, histVars, LazyResponder
    <2>2. /\ ~ini[i].active => ini[i].key = ZeroKey
          /\ ini[i].made
      BY <2>1 DEF Coherent, KeysDistinct
    <2> DEFINE r == Idle(ini[i])
    <2>3. /\ r \in InitiatorState /\ r.made = ini[i].made
          /\ r.active = ini[i].active /\ r.sid = ini[i].sid
          /\ r.key = ini[i].key /\ r.counter = ini[i].counter
          /\ r.pc = "idle" /\ ini' = [ini EXCEPT ![i] = r]
      BY <1>a, <2>1, IdleType
    <2> HIDE DEF r
    <2>4. /\ ~r.active => r.key = ZeroKey
          /\ r.active => ini[i].active
          /\ r.made
      BY <2>2, <2>3
    <2> QED BY <2>1, <2>3, <2>4, LocalStep
  <1>4. ASSUME NEW i \in Initiator, SessionRequest(i)
        PROVE  Coherent'
    BY <1>4, SessionRequestStep
  <1>5. ASSUME NEW i \in Initiator, NEW v \in BOOLEAN, v => i \in Trusted,
               ExchangeReport(i, v)
        PROVE  Coherent'
    BY <1>5, <1>b, ExchangeReportStep
  <1>6. ASSUME NEW i \in Initiator, FinishSession(i)
        PROVE  Coherent'
    BY <1>6, FinishSessionStep
  <1>7. ASSUME NEW i \in Initiator, NEW q \in Request, SendRequest(i, q)
        PROVE  Coherent'
    <2> DEFINE r == [ini[i] EXCEPT !.pc = "call", !.request = q]
    <2>0. ini[i] \in InitiatorState
      BY <1>a
    <2>1. /\ r \in InitiatorState /\ r.pc = "call" /\ r.made = ini[i].made
          /\ r.active = ini[i].active /\ r.key = ini[i].key
          /\ r.sid = ini[i].sid /\ r.counter = ini[i].counter
      BY <2>0 DEF InitiatorState
    <2>2. /\ ~ini[i].active => ini[i].key = ZeroKey
          /\ ini[i].made /\ ini[i].pc = "idle"
      BY <1>7 DEF SendRequest, Coherent, KeysDistinct
    <2>3. /\ ini' = [ini EXCEPT ![i] = r]
          /\ UNCHANGED <<sessions, eph, gone, broken, established, responder>>
      BY <1>7 DEF SendRequest, respVars, histVars
    <2> HIDE DEF r
    <2>4. /\ ~r.active => r.key = ZeroKey
          /\ r.active => ini[i].active
          /\ r.made
      BY <2>1, <2>2
    <2> QED BY <2>1, <2>2, <2>3, <2>4, LocalStep
  <1>8. ASSUME NEW i \in Initiator, EncryptFails(i)
        PROVE  Coherent'
    BY <1>8, EncryptFailsStep
  <1>9. ASSUME NEW i \in Initiator, NEW b \in Body, GenerateResponse(i, b)
        PROVE  Coherent'
    BY <1>9, GenerateResponseStep
  <1>10. ASSUME NEW i \in Initiator, AcceptResponse(i) \/ RejectResponse(i)
         PROVE  Coherent'
    BY <1>10, ResponseEndStep
  <1>11. ASSUME NEW i \in Initiator, CloseSession(i)
         PROVE  Coherent'
    <2> DEFINE D == {ini[i].sid}
    <2>1. D \in SUBSET Id
      BY <1>a DEF InitiatorState
    <2>2. /\ UNCHANGED <<ini, eph, broken, established>>
          /\ sessions' = [d \in Id |-> IF d \in D THEN Absent ELSE sessions[d]]
          /\ responder = "ready" => responder' = "ready"
      BY <1>11 DEF CloseSession, LazyResponder, ChannelTypeOK
    <2>3. gone' = gone \cup {sessions[d].key : d \in D}
      BY <1>11 DEF CloseSession, SessionOf
    <2> HIDE DEF D
    <2> QED BY <2>1, <2>2, <2>3, ErasedStep
  <1>12. ASSUME NEW i \in Initiator, AnalyzerLost(i)
         PROVE  Coherent'
    <2>1. /\ FreshInitiator.pc = "idle" /\ FreshInitiator.made = FALSE
          /\ FreshInitiator.active = FALSE /\ FreshInitiator.key = ZeroKey
      BY DEF FreshInitiator
    <2>2. /\ ini' = [ini EXCEPT ![i] = FreshInitiator]
          /\ UNCHANGED <<sessions, eph, gone, broken, established, responder>>
      BY <1>12 DEF AnalyzerLost, respVars, histVars
    <2> QED BY <2>1, <2>2, AbsentType, LocalStep
  <1> QED
    BY <1>0, <1>1, <1>2, <1>3, <1>4, <1>5, <1>6, <1>7, <1>8, <1>9, <1>10,
       <1>11, <1>12 DEF ChannelStep

\* Typed and coherent together are inductive.
LEMMA ChannelInvariant == ChannelSpec => [](ChannelTypeOK /\ Coherent)
  <1>1. ChannelInit => ChannelTypeOK /\ Coherent
    BY TypeInit, InvInit
  <1>2. ChannelTypeOK /\ Coherent /\ [ChannelNext]_channelVars
        => (ChannelTypeOK /\ Coherent)'
    BY TypeStep, InvStep, NextIsStep
  <1> QED BY <1>1, <1>2, PTL DEF ChannelSpec

\* A session whose creation succeeded stays the one its id names until it is
\* ended or the key manager lost, also when session ids wrap around.
THEOREM AgreementHolds == ChannelSpec => []Agreement
  <1>1. ChannelTypeOK /\ Coherent => Agreement
    BY DEF Coherent
  <1> QED BY <1>1, ChannelInvariant, PTL

\* The counters of a session agree unless a generated response was lost.
THEOREM CountersHold == ChannelSpec => []InStep
  <1>1. ChannelTypeOK /\ Coherent => InStep
    BY DEF Coherent
  <1> QED BY <1>1, ChannelInvariant, PTL

\* A response is accepted exactly when no earlier one of its session was
\* lost.
THEOREM AnswersHold == ChannelSpec => []AnswersInStep
  <1>1. ChannelTypeOK /\ Coherent => AnswersInStep
    BY DEF Coherent
  <1> QED BY <1>1, ChannelInvariant, PTL

\* Only verified peers get an active session, and none in a responder made
\* without a verifier.
THEOREM PeersVerifiedHolds == ChannelSpec => []PeersVerified
  <1>1. ChannelTypeOK /\ Coherent => PeersVerified
    BY DEF Coherent
  <1> QED BY <1>1, ChannelInvariant, PTL
-----------------------------------------------------------------------------
(* The channel implements RpcChannel.                                      *)

\* The channel each analyzer has open, as the refinement maps it.
OpenOf == [i \in Initiator |-> IF OpenChannel(i) THEN ini[i].key ELSE ZeroKey]

\* A step that opens nothing and delivers nothing closes channels at most.
LEMMA CloseStep ==
  ASSUME UNCHANGED <<established, accepted>>,
         \A j \in Initiator : OpenOf'[j] \in {OpenOf[j], ZeroKey}
  PROVE  Rpc!Next
  <1> DEFINE S == {j \in Initiator : OpenOf'[j] = ZeroKey}
  <1>1. OpenOf' = [c \in Initiator |-> IF c \in S THEN ZeroKey ELSE OpenOf[c]]
    BY DEF OpenOf
  <1>2. S \in SUBSET Initiator
    OBVIOUS
  <1> HIDE DEF S
  <1>3. Rpc!Close
    BY <1>1, <1>2 DEF Rpc!Close, OpenOf
  <1> QED BY <1>3 DEF Rpc!Next

\* The end of create_session opens a channel of a new name, or uses the name
\* up when the key manager was lost during the handshake.
LEMMA FinishOpens ==
  ASSUME ChannelTypeOK, Coherent, NEW i \in Initiator, FinishSession(i)
  PROVE  Rpc!Next
  <1>0. PICK k : k = ini[i].hsEph
    OBVIOUS
  <1> DEFINE r == [ini[i] EXCEPT !.active = TRUE, !.counter = 0,
                     !.key = ini[i].hsEph, !.sid = ini[i].hsId]
  <1>1. /\ k \in 1 .. eph /\ k \notin established /\ ~ini[i].active
        /\ k \notin broken /\ eph \in Key
        /\ established' = established \cup {k}
        /\ UNCHANGED <<gone, broken, accepted>>
    BY <1>0 DEF FinishSession, Coherent, HandshakesDistinct, Numbered,
                ChannelTypeOK
  <1>2. k \in Key \ {ZeroKey}
    BY <1>1, ChannelAssumption DEF Key, ZeroKey
  <1>3. r \in InitiatorState /\ r.active = TRUE /\ r.key = k
    <2>1. /\ ini[i] \in InitiatorState /\ 0 \in 0 .. NonceLimit
          /\ ini[i].hsEph \in Key /\ ini[i].hsId \in Id
      BY ChannelAssumption DEF ChannelTypeOK, InitiatorState
    <2> QED BY <1>0, <2>1 DEF InitiatorState
  <1>4. ini' = [ini EXCEPT ![i] = Idle(r)]
    BY DEF FinishSession
  <1> HIDE DEF r
  <1>5. ini'[i].active = TRUE /\ ini'[i].key = k /\ ini'[i].pc = "idle"
    BY <1>3, <1>4, IdleType DEF ChannelTypeOK
  <1>6. \A j \in Initiator : j # i => ini'[j] = ini[j]
    BY <1>4 DEF ChannelTypeOK
  <1>7. OpenOf[i] = ZeroKey
    BY <1>1 DEF OpenOf, OpenChannel
  <1>8. \A j \in Initiator : j # i => OpenOf'[j] = OpenOf[j]
    BY <1>1, <1>6 DEF OpenOf, OpenChannel
  <1>9. OpenOf'[i] = IF k \in gone THEN ZeroKey ELSE k
    BY <1>1, <1>5 DEF OpenOf, OpenChannel
  <1>10. OpenOf' \in {OpenOf, [OpenOf EXCEPT ![i] = k]}
    BY <1>7, <1>8, <1>9 DEF OpenOf
  <1>11. Rpc!Open(i, k)
    BY <1>1, <1>7, <1>10 DEF Rpc!Open, OpenOf
  <1> QED BY <1>2, <1>11 DEF Rpc!Next

\* An accepted response is an answer on a channel that is still open.
LEMMA AcceptAnswers ==
  ASSUME ChannelTypeOK, Coherent, NEW i \in Initiator, AcceptResponse(i)
  PROVE  Rpc!Next
  <1> DEFINE r == [ini[i] EXCEPT !.counter = ini[i].counter + 1]
  <1>1. /\ ini[i].pc = "reply" /\ ini[i].active /\ ini[i].key \notin broken
        /\ ini[i].key \in established
        /\ accepted' = [accepted EXCEPT ![i] = @ + 1]
        /\ UNCHANGED <<gone, broken, established>>
    BY DEF AcceptResponse, Coherent, Ahead, AnswersInStep, KeysDistinct
  <1>2. ini[i].key # ZeroKey
    BY <1>1 DEF Coherent, Numbered, ZeroKey, ChannelTypeOK, Key
  <1>3. r \in InitiatorState /\ r.active = ini[i].active /\ r.key = ini[i].key
    <2>1. ini[i].counter + 1 \in 0 .. NonceLimit /\ ini[i] \in InitiatorState
      BY DEF AcceptResponse, Fresh, InitiatorState, Reply, ChannelTypeOK
    <2> QED BY <2>1 DEF InitiatorState
  <1>4. ini' = [ini EXCEPT ![i] = Idle(r)]
    BY DEF AcceptResponse
  <1> HIDE DEF r
  <1>5. ini'[i].active = ini[i].active /\ ini'[i].key = ini[i].key
        /\ ini'[i].pc = "idle"
    BY <1>3, <1>4, IdleType DEF ChannelTypeOK
  <1>6. \A j \in Initiator : j # i => ini'[j] = ini[j]
    BY <1>4 DEF ChannelTypeOK
  <1>7. OpenOf[i] = ini[i].key
    BY <1>1 DEF OpenOf, OpenChannel
  <1>8. \A j \in Initiator : j # i => OpenOf'[j] = OpenOf[j]
    BY <1>1, <1>6 DEF OpenOf, OpenChannel
  <1>9. OpenOf'[i] \in {ini[i].key, ZeroKey}
    BY <1>5 DEF OpenOf
  <1>10. OpenOf' \in {OpenOf, [OpenOf EXCEPT ![i] = ZeroKey]}
    BY <1>7, <1>8, <1>9 DEF OpenOf
  <1>11. Rpc!Answer(i)
    BY <1>1, <1>2, <1>7, <1>10 DEF Rpc!Answer, OpenOf
  <1> QED BY <1>11 DEF Rpc!Next

\* A step of one analyzer that keeps its key, or has none afterwards, opens
\* nothing.
LEMMA OtherStep ==
  ASSUME ChannelTypeOK, NEW i \in Initiator, NEW r \in InitiatorState,
         ini' = [ini EXCEPT ![i] = r],
         UNCHANGED <<established, accepted>>,
         gone \subseteq gone', broken \subseteq broken',
         r.active => ini[i].active /\ r.key = ini[i].key,
         r.active /\ r.pc = "reply" => Live(i)
  PROVE  Rpc!Next
  <1>1. \A j \in Initiator : j # i => ini'[j] = ini[j]
    BY DEF ChannelTypeOK
  <1>2. ini'[i] = r
    BY DEF ChannelTypeOK
  <1>3. \A j \in Initiator : OpenOf'[j] \in {OpenOf[j], ZeroKey}
    BY <1>1, <1>2 DEF OpenOf, OpenChannel, Live
  <1> QED BY <1>3, CloseStep

\* Every step of the two session classes is a step of the abstract channel.
LEMMA StepRefines ==
  ASSUME ChannelTypeOK, Coherent, ChannelNext
  PROVE  Rpc!Next
  <1>a. \A i \in Initiator : ini[i] \in InitiatorState
    BY DEF ChannelTypeOK
  <1>1. CASE KeymgrLost
    <2>1. /\ UNCHANGED <<ini, broken, established, accepted>>
          /\ gone \subseteq gone'
      BY <1>1 DEF KeymgrLost
    <2>2. \A j \in Initiator : OpenOf'[j] \in {OpenOf[j], ZeroKey}
      BY <2>1 DEF OpenOf, OpenChannel
    <2> QED BY <2>1, <2>2, CloseStep
  <1>2. ASSUME NEW i \in Initiator, InitKeymgrSession(i)
        PROVE  Rpc!Next
    <2> DEFINE r == [ini[i] EXCEPT !.made = TRUE, !.pc = "request"]
    <2>1. /\ r \in InitiatorState /\ r.active = ini[i].active
          /\ r.key = ini[i].key /\ r.pc = "request"
      BY <1>a DEF InitiatorState
    <2>2. /\ ini' = [ini EXCEPT ![i] = r]
          /\ UNCHANGED <<gone, broken, established, accepted>>
      BY <1>2 DEF InitKeymgrSession, histVars
    <2> HIDE DEF r
    <2> QED BY <2>1, <2>2, OtherStep
  <1>3. ASSUME NEW i \in Initiator,
               \/ HandshakeFails(i) \/ SessionRequestFails(i) \/ ResponseFails(i)
               \/ EncryptFails(i) \/ RejectResponse(i)
        PROVE  Rpc!Next
    <2> DEFINE r == Idle(ini[i])
    <2>1. /\ r \in InitiatorState /\ r.active = ini[i].active
          /\ r.key = ini[i].key /\ r.pc = "idle"
      BY <1>a, IdleType
    <2>2. /\ ini' = [ini EXCEPT ![i] = r]
          /\ UNCHANGED <<gone, established, accepted>>
          /\ broken \subseteq broken'
      BY <1>3 DEF HandshakeFails, SessionRequestFails, ResponseFails,
                  EncryptFails, RejectResponse, Return, histVars
    <2> HIDE DEF r
    <2> QED BY <2>1, <2>2, OtherStep
  <1>4. ASSUME NEW i \in Initiator, SessionRequest(i)
        PROVE  Rpc!Next
    <2> DEFINE r == [ini[i] EXCEPT !.pc = "exchange", !.hsId = nextId,
                       !.hsEph = eph + 1]
    <2>1. r \in InitiatorState /\ r.active = ini[i].active
          /\ r.key = ini[i].key /\ r.pc = "exchange"
      <3>1. eph + 1 \in Key /\ nextId \in Id
        BY <1>4, ChannelAssumption DEF SessionRequest, Key, ChannelTypeOK
      <3> QED BY <1>a, <3>1 DEF InitiatorState
    <2>2. /\ ini' = [ini EXCEPT ![i] = r]
          /\ UNCHANGED <<gone, broken, established, accepted>>
      BY <1>4 DEF SessionRequest, histVars
    <2> HIDE DEF r
    <2> QED BY <2>1, <2>2, OtherStep
  <1>5. ASSUME NEW i \in Initiator, ExchangeReport(i, i \in Trusted)
        PROVE  Rpc!Next
    <2>1. PICK r \in {Idle(ini[i]), [ini[i] EXCEPT !.pc = "finish"]} :
            ini' = [ini EXCEPT ![i] = r]
      BY <1>5 DEF ExchangeReport, Return
    <2>2. /\ r \in InitiatorState /\ r.active = ini[i].active
          /\ r.key = ini[i].key /\ r.pc # "reply"
      <3>1. CASE r = Idle(ini[i])
        BY <1>a, <3>1, IdleType
      <3>2. CASE r = [ini[i] EXCEPT !.pc = "finish"]
        BY <1>a, <3>2 DEF InitiatorState
      <3> QED BY <3>1, <3>2
    <2>3. UNCHANGED <<gone, broken, established, accepted>>
      BY <1>5 DEF ExchangeReport, histVars
    <2> QED BY <2>1, <2>2, <2>3, OtherStep
  <1>6. ASSUME NEW i \in Initiator, NEW q \in Request, SendRequest(i, q)
        PROVE  Rpc!Next
    <2> DEFINE r == [ini[i] EXCEPT !.pc = "call", !.request = q]
    <2>1. /\ r \in InitiatorState /\ r.active = ini[i].active
          /\ r.key = ini[i].key /\ r.pc = "call"
      BY <1>a DEF InitiatorState
    <2>2. /\ ini' = [ini EXCEPT ![i] = r]
          /\ UNCHANGED <<gone, broken, established, accepted>>
      BY <1>6 DEF SendRequest, histVars
    <2> HIDE DEF r
    <2> QED BY <2>1, <2>2, OtherStep
  <1>7. ASSUME NEW i \in Initiator, NEW b \in Body, GenerateResponse(i, b)
        PROVE  Rpc!Next
    <2> DEFINE r == [ini[i] EXCEPT !.pc = "reply",
                       !.reply = [session_id |-> 0,
                          nonce |-> SessionOf(i).counter + 1, body |-> b]]
    <2>1. Live(i) /\ ini[i].sid \in Id
      BY <1>7, ReachesLive DEF GenerateResponse
    <2>2. SessionOf(i).counter + 1 \in 0 .. NonceLimit
      <3>1. SessionOf(i).counter \in 0 .. NonceLimit
        BY <2>1 DEF SessionOf, ChannelTypeOK, Session
      <3>2. SessionOf(i).counter < NonceLimit
        BY <1>7 DEF GenerateResponse
      <3> QED BY <3>1, <3>2, ChannelAssumption
    <2>3. [session_id |-> 0, nonce |-> SessionOf(i).counter + 1,
            body |-> b] \in Reply
      BY <2>2, ChannelAssumption DEF Reply, Id
    <2>4. /\ r \in InitiatorState /\ r.active = ini[i].active
          /\ r.key = ini[i].key
      BY <1>a, <2>3 DEF InitiatorState
    <2>5. /\ ini' = [ini EXCEPT ![i] = r]
          /\ UNCHANGED <<gone, broken, established, accepted>>
      BY <1>7 DEF GenerateResponse, histVars
    <2> HIDE DEF r
    <2> QED BY <2>1, <2>4, <2>5, OtherStep
  <1>8. ASSUME NEW i \in Initiator, CloseSession(i)
        PROVE  Rpc!Next
    <2>1. /\ UNCHANGED <<ini, broken, established, accepted>>
          /\ gone \subseteq gone'
      BY <1>8 DEF CloseSession
    <2>2. \A j \in Initiator : OpenOf'[j] \in {OpenOf[j], ZeroKey}
      BY <2>1 DEF OpenOf, OpenChannel
    <2> QED BY <2>1, <2>2, CloseStep
  <1>9. ASSUME NEW i \in Initiator, AnalyzerLost(i)
        PROVE  Rpc!Next
    <2>1. FreshInitiator.active = FALSE
      BY DEF FreshInitiator
    <2>2. /\ ini' = [ini EXCEPT ![i] = FreshInitiator]
          /\ UNCHANGED <<gone, broken, established, accepted>>
      BY <1>9 DEF AnalyzerLost, histVars
    <2> QED BY <2>1, <2>2, AbsentType, OtherStep
  <1> QED
    BY <1>1, <1>2, <1>3, <1>4, <1>5, <1>6, <1>7, <1>8, <1>9, FinishOpens,
       AcceptAnswers DEF ChannelNext

\* The session classes implement the abstract call channel: a channel opens
\* once, for one analyzer and under a name never used before, answers arrive
\* only while it is open, and it never opens again; for any number of
\* analyzers, ids, messages and losses.
THEOREM RpcImplemented == ChannelSpec => ImplementsRpc
  <1>1. ChannelInit => Rpc!Init
    BY DEF ChannelInit, Rpc!Init, OpenChannel, FreshInitiator
  <1>2. ChannelTypeOK /\ Coherent /\ [ChannelNext]_channelVars
        => [Rpc!Next]_Rpc!vars
    <2> SUFFICES ASSUME ChannelTypeOK, Coherent, [ChannelNext]_channelVars
                 PROVE  [Rpc!Next]_Rpc!vars
      OBVIOUS
    <2>1. CASE ChannelNext
      BY <2>1, StepRefines
    <2>2. CASE UNCHANGED channelVars
      BY <2>2 DEF channelVars, Rpc!vars, OpenChannel
    <2> QED BY <2>1, <2>2
  <1> QED BY <1>1, <1>2, ChannelInvariant, PTL
       DEF ChannelSpec, ImplementsRpc, Rpc!Spec

-----------------------------------------------------------------------------
(* The key service (KeyService).                                           *)

(* KeyUse is about what an analyzer holds in the end.  A key gets there    *)
(* through the table, and then through a response in flight that outlives  *)
(* the table and the session it came from, so the invariant follows it.    *)

\* An owner released the key of the pair b to analyzer i.
ReleasedTo(i, b) ==
  \/ <<b[1], b[2], Identity[i].mr_enclave>> \in issued
  \/ <<b[1], b[2], AnyEnclave>> \in issued

\* A request under way names a key.
Asked ==
  \A i \in Initiator : ini[i].pc \in {"call", "reply"} => ini[i].request \in Request

\* An entry of the table was signed by its owner for the entry's enclave.
TableSigned ==
  \A p \in Request, h \in Ehash :
    table[p, h] # None => <<p, table[p, h], h>> \in issued

\* Every forward that was answered with success has its entry.
AckedStored ==
  \A p \in Request, h \in Ehash : <<p, h>> \in acked => table[p, h] # None

\* A response in flight carries a key that was released to its receiver.
RepliesReleased ==
  \A i \in Initiator : ini[i].pc = "reply" =>
    ini[i].reply.body \in Body /\ ReleasedTo(i, ini[i].reply.body)

KeyInv ==
  /\ KeyTypeOK
  /\ Asked
  /\ TableSigned
  /\ AckedStored
  /\ RepliesReleased
  /\ KeyUse
  /\ policy \in certs
  /\ SessionsCertified

-----------------------------------------------------------------------------
(* What the channel's steps do to the calls and to the sessions.           *)

\* A step leaves an analyzer's call as it is, ends it, starts a request for
\* a key, or is the one that generates its response.
LEMMA CallFrame ==
  ASSUME ChannelTypeOK, [ChannelStep]_channelVars, NEW j \in Initiator
  PROVE  \/ ini'[j] = ini[j]
         \/ ini'[j].pc \notin {"call", "reply"}
         \/ ini'[j].pc = "call" /\ ini'[j].request \in Request
         \/ \E b \in Body : GenerateResponse(j, b)
  <1> DEFINE P == \/ ini'[j] = ini[j]
                  \/ ini'[j].pc \notin {"call", "reply"}
                  \/ ini'[j].pc = "call" /\ ini'[j].request \in Request
  <1>a. \A i \in Initiator : ini[i] \in InitiatorState
    BY DEF ChannelTypeOK
  <1>1. CASE UNCHANGED channelVars \/ KeymgrLost
    BY <1>1 DEF channelVars, KeymgrLost
  <1>2. ASSUME NEW i \in Initiator, NEW r, ini' = [ini EXCEPT ![i] = r],
               r.pc \notin {"call", "reply"} \/ (r.pc = "call" /\ r.request \in Request)
        PROVE  P
    BY <1>2 DEF ChannelTypeOK
  <1>3. ASSUME NEW i \in Initiator,
               \/ HandshakeFails(i) \/ SessionRequestFails(i) \/ ResponseFails(i)
               \/ EncryptFails(i) \/ RejectResponse(i)
        PROVE  P
    <2>1. ini' = [ini EXCEPT ![i] = Idle(ini[i])] /\ Idle(ini[i]).pc = "idle"
      BY <1>3, <1>a, IdleType DEF HandshakeFails, SessionRequestFails,
         ResponseFails, EncryptFails, RejectResponse, Return
    <2> QED BY <2>1, <1>2
  <1>4. ASSUME NEW i \in Initiator, InitKeymgrSession(i) PROVE P
    <2> DEFINE r == [ini[i] EXCEPT !.made = TRUE, !.pc = "request"]
    <2>1. ini' = [ini EXCEPT ![i] = r] /\ r.pc = "request"
      BY <1>4, <1>a DEF InitKeymgrSession, InitiatorState
    <2> HIDE DEF r
    <2> QED BY <2>1, <1>2
  <1>5. ASSUME NEW i \in Initiator, SessionRequest(i) PROVE P
    <2> DEFINE r == [ini[i] EXCEPT !.pc = "exchange", !.hsId = nextId,
                       !.hsEph = eph + 1]
    <2>1. ini' = [ini EXCEPT ![i] = r] /\ r.pc = "exchange"
      BY <1>5, <1>a DEF SessionRequest, InitiatorState
    <2> HIDE DEF r
    <2> QED BY <2>1, <1>2
  <1>6. ASSUME NEW i \in Initiator, NEW v, ExchangeReport(i, v) PROVE P
    <2>1. PICK r \in {Idle(ini[i]), [ini[i] EXCEPT !.pc = "finish"]} :
            ini' = [ini EXCEPT ![i] = r]
      BY <1>6 DEF ExchangeReport, Return
    <2>2. r.pc \in {"idle", "finish"}
      BY <1>a, <2>1, IdleType DEF InitiatorState
    <2> QED BY <2>1, <2>2, <1>2
  <1>7. ASSUME NEW i \in Initiator, FinishSession(i) PROVE P
    BY <1>7 DEF FinishSession, Idle, ChannelTypeOK
  <1>8. ASSUME NEW i \in Initiator, NEW q \in Request, SendRequest(i, q) PROVE P
    <2> DEFINE r == [ini[i] EXCEPT !.pc = "call", !.request = q]
    <2>1. ini' = [ini EXCEPT ![i] = r] /\ r.pc = "call" /\ r.request = q
      BY <1>8, <1>a DEF SendRequest, InitiatorState
    <2> HIDE DEF r
    <2> QED BY <2>1, <1>2
  <1>9. ASSUME NEW i \in Initiator, NEW b \in Body, GenerateResponse(i, b), i # j
        PROVE  P
    BY <1>9 DEF GenerateResponse, ChannelTypeOK
  <1>10. ASSUME NEW i \in Initiator, AcceptResponse(i) PROVE P
    BY <1>10 DEF AcceptResponse, Idle, ChannelTypeOK
  <1>11. ASSUME NEW i \in Initiator, CloseSession(i) PROVE P
    BY <1>11 DEF CloseSession
  <1>12. ASSUME NEW i \in Initiator, AnalyzerLost(i) PROVE P
    <2>1. FreshInitiator.pc = "idle"
      BY DEF FreshInitiator
    <2> QED BY <1>12, <2>1, <1>2 DEF AnalyzerLost
  <1> QED BY <1>1, <1>3, <1>4, <1>5, <1>6, <1>7, <1>8, <1>9, <1>10, <1>11,
             <1>12 DEF ChannelStep

\* Only exchange_report makes a session active, and only if the verifier
\* accepted the peer.
LEMMA ExchangeFrame ==
  ASSUME ChannelTypeOK, NEW i \in Initiator, NEW v \in BOOLEAN,
         ExchangeReport(i, v), NEW d \in Id, sessions'[d].status = "active"
  PROVE  \/ sessions[d].status = "active" /\ sessions'[d].peer = sessions[d].peer
         \/ v /\ sessions'[d].peer = i
  <1> DEFINE f == ini[i].hsId
             s == sessions[f]
  <1>1. f \in Id /\ s \in Session
    BY DEF ChannelTypeOK, InitiatorState
  <1>2. CASE ~Exchangeable(s)
    BY <1>2 DEF ExchangeReport
  <1>3. CASE Exchangeable(s) /\ ~(ProcMsg2(s, ini[i].hsEph) /\ VerifyPeer(v))
    <2>1. sessions' = [sessions EXCEPT ![f] = [s EXCEPT !.dh = "spent"]]
      BY <1>3 DEF ExchangeReport
    <2> QED BY <1>1, <2>1 DEF ChannelTypeOK, Session
  <1>4. CASE Exchangeable(s) /\ ProcMsg2(s, ini[i].hsEph) /\ VerifyPeer(v)
    <2>1. sessions' = [sessions EXCEPT ![f] =
                 [s EXCEPT !.status = "active", !.dh = "spent",
                           !.counter = 0, !.key = s.eph, !.peer = i]]
      BY <1>4 DEF ExchangeReport
    <2>2. v
      BY <1>4 DEF VerifyPeer
    <2> QED BY <1>1, <2>1, <2>2 DEF ChannelTypeOK, Session
  <1> QED BY <1>2, <1>3, <1>4

LEMMA SessionFrame ==
  ASSUME ChannelTypeOK, NEW i \in Initiator,
         \/ InitKeymgrSession(i) \/ HandshakeFails(i) \/ SessionRequest(i)
         \/ SessionRequestFails(i) \/ FinishSession(i) \/ CloseSession(i)
         \/ (\E q \in Request : SendRequest(i, q)) \/ ResponseFails(i)
         \/ EncryptFails(i) \/ (\E b \in Body : GenerateResponse(i, b))
         \/ AcceptResponse(i) \/ RejectResponse(i) \/ AnalyzerLost(i),
         NEW d \in Id, sessions'[d].status = "active"
  PROVE  sessions[d].status = "active" /\ sessions'[d].peer = sessions[d].peer
  <1>0. ini[i].sid \in Id /\ SessionOf(i) \in Session /\ nextId \in Id
    BY DEF ChannelTypeOK, InitiatorState, SessionOf
  <1>1. CASE \/ InitKeymgrSession(i) \/ HandshakeFails(i) \/ FinishSession(i)
             \/ SessionRequestFails(i) \/ ResponseFails(i) \/ AcceptResponse(i)
             \/ RejectResponse(i) \/ AnalyzerLost(i)
             \/ (\E q \in Request : SendRequest(i, q))
    BY <1>1 DEF InitKeymgrSession, HandshakeFails, FinishSession,
         SessionRequestFails, ResponseFails, AcceptResponse, RejectResponse,
         AnalyzerLost, SendRequest, respVars
  <1>2. CASE SessionRequest(i)
    BY <1>0, <1>2 DEF SessionRequest, Inserted, Absent, ChannelTypeOK
  <1>3. CASE CloseSession(i)
    BY <1>0, <1>3 DEF CloseSession, Absent, ChannelTypeOK
  <1>4. CASE EncryptFails(i) \/ \E b \in Body : GenerateResponse(i, b)
    <2>1. sessions' = [sessions EXCEPT ![ini[i].sid] =
                    [SessionOf(i) EXCEPT !.counter = SessionOf(i).counter + 1]]
      BY <1>4 DEF EncryptFails, GenerateResponse
    <2> QED BY <1>0, <2>1 DEF ChannelTypeOK, Session, SessionOf
  <1> QED BY <1>1, <1>2, <1>3, <1>4

-----------------------------------------------------------------------------
(* The key manager above the channel.                                      *)

\* A pair of the table's that was released for an enclave i answers to.
LEMMA PairReleased ==
  ASSUME NEW i \in Initiator, NEW p \in Request, NEW e \in Dian, NEW b,
         b = <<p, e>>,
         \/ <<p, e, Identity[i].mr_enclave>> \in issued
         \/ <<p, e, AnyEnclave>> \in issued
  PROVE  b \in Body /\ b # None /\ ReleasedTo(i, b)
  <1>1. b \in Body /\ b[1] = p /\ b[2] = e
    BY KeyServiceAssumption
  <1> QED BY <1>1, ChannelAssumption DEF ReleasedTo

\* What handle_pkg finds for an analyzer was released to it.
LEMMA HandledReleased ==
  ASSUME KeyTypeOK, TableSigned, NEW i \in Initiator, NEW p \in Request,
         NEW b, b = HandlePkg(Identity[i], p),
         \/ table[p, Identity[i].mr_enclave] # None
         \/ table[p, AnyEnclave] # None
  PROVE  b \in Body /\ b # None /\ ReleasedTo(i, b)
  <1>0. PICK h : h = Identity[i].mr_enclave
    OBVIOUS
  <1>1. h \in Ehash /\ AnyEnclave \in Ehash
    BY <1>0, KeyServiceAssumption
  <1>2. CASE table[p, h] # None
    <2>1. PICK e \in Dian : e = table[p, h]
      BY <1>1, <1>2 DEF KeyTypeOK
    <2>2. b = <<p, e>>
      BY <1>0, <1>2, <2>1 DEF HandlePkg
    <2>3. <<p, e, h>> \in issued
      BY <1>1, <1>2, <2>1 DEF TableSigned
    <2> QED BY <1>0, <2>2, <2>3, PairReleased
  <1>3. CASE table[p, h] = None /\ table[p, AnyEnclave] # None
    <2>1. PICK e \in Dian : e = table[p, AnyEnclave]
      BY <1>1, <1>3 DEF KeyTypeOK
    <2>2. b = <<p, e>>
      BY <1>0, <1>3, <2>1 DEF HandlePkg
    <2>3. <<p, e, AnyEnclave>> \in issued
      BY <1>1, <1>3, <2>1 DEF TableSigned
    <2> QED BY <2>2, <2>3, PairReleased
  <1> QED BY <1>0, <1>2, <1>3

\* What handle_pkg answers to a request over a session that reaches it was
\* released to the analyzer that asked.
LEMMA AnswerReleased ==
  ASSUME ChannelTypeOK, Coherent, KeyInv, NEW i \in Initiator, NEW b,
         b = Answer(i), b # None
  PROVE  b \in Body /\ ReleasedTo(i, b)
  <1>1. /\ ini[i].pc = "call" /\ SessionOf(i).peer = i
        /\ b = HandlePkg(Identity[i], ini[i].request)
    BY ReachesLive DEF Answer
  <1>2. PICK p \in Request : p = ini[i].request
    BY <1>1 DEF KeyInv, Asked
  <1>3. \/ table[p, Identity[i].mr_enclave] # None
        \/ table[p, AnyEnclave] # None
    BY <1>1, <1>2 DEF HandlePkg
  <1> QED BY <1>1, <1>2, <1>3, HandledReleased DEF KeyInv

\* Every step of the key service is a step of the channel or leaves it alone.
LEMMA KeyNextIsStep ==
  ASSUME ChannelTypeOK, Coherent, KeyInv, [Next]_vars
  PROVE  [ChannelStep]_channelVars
  <1>1. CASE HostNext \/ UNCHANGED vars
    BY <1>1 DEF HostNext, SetAccessControlPolicy, OwnerForwards,
                ForwardPrivateKey, vars
  <1>2. CASE KeyManagerLost
    BY <1>2 DEF KeyManagerLost, ChannelStep
  <1>3. ASSUME NEW i \in Initiator, SessionNext(i)
        PROVE  ChannelStep
    <2>1. i \in Trusted
      BY KeyServiceAssumption
    <2>2. ASSUME ExchangeReport(i, IsCertifiedSigner(Identity[i], policy))
          PROVE  \E v \in BOOLEAN : (v => i \in Trusted) /\ ExchangeReport(i, v)
      <3>1. PICK v \in BOOLEAN : v = IsCertifiedSigner(Identity[i], policy)
        BY DEF IsCertifiedSigner
      <3>2. ExchangeReport(i, v)
        BY <2>2, <3>1 DEF ExchangeReport, VerifyPeer
      <3> QED BY <2>1, <3>2
    <2> QED BY <1>3, <2>2 DEF SessionNext, ChannelStep
  <1>4. ASSUME NEW i \in Initiator, RequestNext(i)
        PROVE  ChannelStep
    <2>1. CASE KeyResponse(i)
      <3>1. PICK b : b = Answer(i)
        OBVIOUS
      <3>2. b \in Body
        BY <2>1, <3>1, AnswerReleased DEF KeyResponse
      <3> QED BY <2>1, <3>1, <3>2 DEF KeyResponse, ChannelStep
    <2>2. CASE KeyAccept(i)
      BY <2>2 DEF KeyAccept, ChannelStep
    <2> QED BY <1>4, <2>1, <2>2 DEF RequestNext, ChannelStep
  <1>5. ASSUME NEW i \in Initiator, AnalyzerEnclaveLost(i)
        PROVE  ChannelStep
    BY <1>5 DEF AnalyzerEnclaveLost, ChannelStep
  <1> QED BY <1>1, <1>2, <1>3, <1>4, <1>5 DEF Next

LEMMA KeyInvInit == Init => KeyInv
  <1> SUFFICES ASSUME Init PROVE KeyInv
    OBVIOUS
  <1>1. KeyTypeOK /\ policy \in certs
    BY DEF Init, KeyInit, KeyTypeOK
  <1>2. \A i \in Initiator : ini[i].pc = "idle"
    BY DEF Init, ChannelInit, FreshInitiator
  <1>3. Asked /\ RepliesReleased
    BY <1>2 DEF Asked, RepliesReleased
  <1>4. TableSigned /\ AckedStored /\ KeyUse
    BY DEF Init, KeyInit, TableSigned, AckedStored, KeyUse
  <1>5. SessionsCertified
    BY DEF Init, ChannelInit, Absent, SessionsCertified
  <1> QED BY <1>1, <1>3, <1>4, <1>5 DEF KeyInv

LEMMA ResponseBody ==
  ASSUME ChannelTypeOK, NEW j \in Initiator, NEW b, GenerateResponse(j, b)
  PROVE  /\ ini[j].pc = "call" /\ ini'[j].pc = "reply"
         /\ ini'[j].reply.body = b /\ ini'[j].request = ini[j].request
  BY DEF GenerateResponse, ChannelTypeOK, InitiatorState

\* Requests and responses in flight: owners take nothing back, and a new
\* response carries a released key.
LEMMA CallsStep ==
  ASSUME ChannelTypeOK, KeyInv, [ChannelStep]_channelVars, issued \subseteq issued',
         \A j \in Initiator, b \in Body :
           GenerateResponse(j, b) => ReleasedTo(j, b)
  PROVE  Asked' /\ RepliesReleased'
  <1> SUFFICES ASSUME NEW j \in Initiator
               PROVE  /\ ini'[j].pc \in {"call", "reply"} => ini'[j].request \in Request
                      /\ ini'[j].pc = "reply" =>
                           /\ ini'[j].reply.body \in Body
                           /\ ReleasedTo(j, ini[j].reply.body)'
    BY DEF Asked, RepliesReleased
  <1>1. CASE ini'[j] = ini[j]
    BY <1>1 DEF KeyInv, Asked, RepliesReleased, ReleasedTo
  <1>2. CASE ini'[j].pc \notin {"call", "reply"}
    BY <1>2
  <1>3. CASE ini'[j].pc = "call" /\ ini'[j].request \in Request
    BY <1>3
  <1>4. ASSUME NEW b \in Body, GenerateResponse(j, b)
        PROVE  /\ ini'[j].request \in Request
               /\ ini'[j].reply.body \in Body
               /\ ReleasedTo(j, ini[j].reply.body)'
    <2>1. ini'[j].request = ini[j].request /\ ini'[j].reply.body = b
      BY <1>4, ResponseBody
    <2>2. ini[j].request \in Request
      BY <1>4, ResponseBody DEF KeyInv, Asked
    <2>3. ReleasedTo(j, b)
      BY <1>4
    <2> QED BY <2>1, <2>2, <2>3 DEF ReleasedTo
  <1> QED BY <1>1, <1>2, <1>3, <1>4, CallFrame

\* set_access_control_policy, the owners and forward_private_key.
LEMMA HostStep ==
  ASSUME ChannelTypeOK, KeyInv, HostNext
  PROVE  KeyInv'
  <1>0. UNCHANGED channelVars /\ UNCHANGED held /\ issued \subseteq issued'
        /\ certs \subseteq certs'
    BY DEF HostNext, SetAccessControlPolicy, OwnerForwards, ForwardPrivateKey
  <1>1. Asked' /\ RepliesReleased' /\ KeyUse' /\ SessionsCertified'
    BY <1>0 DEF KeyInv, Asked, RepliesReleased, ReleasedTo, KeyUse,
                SessionsCertified, channelVars
  <1>2. ASSUME NEW pol \in Policies, SetAccessControlPolicy(pol)
        PROVE  KeyInv'
    <2>1. KeyTypeOK' /\ TableSigned' /\ AckedStored' /\ (policy \in certs)'
      BY <1>2 DEF SetAccessControlPolicy, KeyInv, KeyTypeOK, TableSigned, AckedStored
    <2> QED BY <1>1, <2>1 DEF KeyInv
  <1>3. ASSUME NEW p \in Request, NEW e \in Dian, NEW h \in Ehash,
               OwnerForwards(p, e, h)
        PROVE  KeyInv'
    <2>0. /\ UNCHANGED <<policy, table, acked, certs, held>>
          /\ issued' = issued \cup {<<p, e, h>>}
      BY <1>3 DEF OwnerForwards
    <2>a. KeyTypeOK'
      BY <2>0 DEF KeyInv, KeyTypeOK
    <2>b. TableSigned'
      <3> SUFFICES ASSUME NEW q \in Request, NEW g \in Ehash, table'[q, g] # None
                   PROVE  <<q, table'[q, g], g>> \in issued'
        BY DEF TableSigned
      <3>1. <<q, table[q, g], g>> \in issued
        BY <2>0 DEF KeyInv, TableSigned
      <3> QED BY <1>0, <2>0, <3>1
    <2>1. KeyTypeOK' /\ TableSigned' /\ AckedStored' /\ (policy \in certs)'
      BY <2>0, <2>a, <2>b DEF KeyInv, AckedStored
    <2> QED BY <1>1, <2>1 DEF KeyInv
  <1>4. ASSUME NEW p \in Request, NEW to \in Dian, NEW e \in Dian,
               NEW h \in Ehash, NEW sig \in issued \cup {None},
               ForwardPrivateKey(p, to, e, h, sig)
        PROVE  KeyInv'
    <2>1. UNCHANGED <<policy, certs, issued, held>> /\ acked' = acked \cup {<<p, h>>}
      BY <1>4 DEF ForwardPrivateKey
    <2>2. CASE table[p, h] # None /\ UNCHANGED table
      <3>1. KeyTypeOK' /\ TableSigned'
        BY <2>1, <2>2 DEF KeyInv, KeyTypeOK, TableSigned
      <3>2. AckedStored'
        BY <2>1, <2>2 DEF KeyInv, AckedStored
      <3> QED BY <1>1, <2>1, <3>1, <3>2 DEF KeyInv
    <2>3. CASE table[p, h] = None
      <3>1. /\ table' = [table EXCEPT ![<<p, h>>] = e]
            /\ <<p, e, h>> \in issued
        <4>1. sig = <<p, e, h>> /\ table' = [table EXCEPT ![<<p, h>>] = e]
          BY <1>4, <2>3 DEF ForwardPrivateKey, SignatureValid
        <4>2. sig # None
          BY <4>1, KeyServiceAssumption
        <4> QED BY <4>1, <4>2
      <3>2. KeyTypeOK'
        BY <2>1, <3>1 DEF KeyInv, KeyTypeOK
      <3>3. \A q \in Request, g \in Ehash :
              table'[q, g] = IF q = p /\ g = h THEN e ELSE table[q, g]
        BY <3>1 DEF KeyInv, KeyTypeOK
      <3>4. TableSigned'
        <4> SUFFICES ASSUME NEW q \in Request, NEW g \in Ehash, table'[q, g] # None
                     PROVE  <<q, table'[q, g], g>> \in issued'
          BY DEF TableSigned
        <4>1. CASE q = p /\ g = h
          <5>1. table'[q, g] = e
            BY <3>3, <4>1
          <5>2. <<p, e, h>> \in issued'
            BY <2>1, <3>1
          <5> QED BY <4>1, <5>1, <5>2
        <4>2. CASE ~(q = p /\ g = h)
          <5>1. table'[q, g] = table[q, g]
            BY <3>3, <4>2
          <5>2. <<q, table[q, g], g>> \in issued
            BY <5>1 DEF KeyInv, TableSigned
          <5> QED BY <2>1, <5>1, <5>2
        <4> QED BY <4>1, <4>2
      <3>5. AckedStored'
        BY <2>1, <3>3, KeyServiceAssumption DEF KeyInv, AckedStored
      <3> QED BY <1>1, <2>1, <3>2, <3>4, <3>5 DEF KeyInv
    <2> QED BY <1>4, <2>2, <2>3 DEF ForwardPrivateKey
  <1> QED BY <1>2, <1>3, <1>4 DEF HostNext

\* Steps of the channel that leave the key manager's own state alone.
LEMMA ChannelOnlyStep ==
  ASSUME ChannelTypeOK, Coherent, KeyInv, [ChannelStep]_channelVars,
         UNCHANGED keyVars, SessionsCertified',
         \A j \in Initiator, b \in Body :
           GenerateResponse(j, b) => ReleasedTo(j, b)
  PROVE  KeyInv'
  <1>1. UNCHANGED <<policy, table, issued, acked, certs, held>>
    BY DEF keyVars
  <1>2. Asked' /\ RepliesReleased'
    BY <1>1, CallsStep
  <1>3. /\ KeyTypeOK' /\ TableSigned' /\ AckedStored' /\ KeyUse'
        /\ (policy \in certs)'
    BY <1>1 DEF KeyInv, KeyTypeOK, TableSigned, AckedStored, KeyUse
  <1> QED BY <1>2, <1>3 DEF KeyInv

\* A step of analyzer i changes no other analyzer.
LEMMA OthersKept ==
  ASSUME ChannelTypeOK, NEW i \in Initiator,
         \/ SessionNext(i) \/ RequestNext(i) \/ AnalyzerEnclaveLost(i)
  PROVE  \A k \in Initiator : k # i => ini'[k] = ini[k]
  BY DEF SessionNext, RequestNext, AnalyzerEnclaveLost, InitKeymgrSession,
         HandshakeFails, SessionRequest, SessionRequestFails, ExchangeReport,
         FinishSession, CloseSession, SendRequest, ResponseFails,
         RejectResponse, KeyResponse, GenerateResponse, EncryptFails,
         KeyAccept, AcceptResponse, AnalyzerLost, Return, ChannelTypeOK

\* Every response that is generated carries a key released to its receiver.
LEMMA ResponsesReleased ==
  ASSUME ChannelTypeOK, Coherent, KeyInv, [Next]_vars,
         NEW j \in Initiator, NEW b \in Body, GenerateResponse(j, b)
  PROVE  ReleasedTo(j, b)
  <1>1. ini[j].pc = "call" /\ ini'[j].pc = "reply" /\ ini'[j].reply.body = b
    BY ResponseBody
  <1>2. CASE UNCHANGED vars \/ HostNext \/ KeyManagerLost
    <2>1. ini' = ini
      BY <1>2 DEF vars, channelVars, HostNext, SetAccessControlPolicy,
           OwnerForwards, ForwardPrivateKey, KeyManagerLost, KeymgrLost
    <2> QED BY <1>1, <2>1
  <1>3. ASSUME NEW i \in Initiator, i # j,
               SessionNext(i) \/ RequestNext(i) \/ AnalyzerEnclaveLost(i)
        PROVE  FALSE
    BY <1>1, <1>3, OthersKept
  <1>4. CASE SessionNext(j)
    BY <1>1, <1>4 DEF SessionNext, InitKeymgrSession, HandshakeFails,
         SessionRequest, SessionRequestFails, ExchangeReport, FinishSession,
         CloseSession
  <1>5. CASE AnalyzerEnclaveLost(j)
    BY <1>1, <1>5 DEF AnalyzerEnclaveLost, AnalyzerLost, FreshInitiator,
         ChannelTypeOK
  <1>6. CASE RequestNext(j)
    <2>1. CASE ResponseFails(j) \/ EncryptFails(j)
      <3>1. ini'[j] = Idle(ini[j])
        BY <2>1 DEF ResponseFails, EncryptFails, Return, ChannelTypeOK
      <3> QED BY <1>1, <3>1, IdleType DEF ChannelTypeOK
    <2>2. CASE KeyResponse(j) /\ ~EncryptFails(j)
      <3>1. PICK a : a = Answer(j)
        OBVIOUS
      <3>2. a # None /\ GenerateResponse(j, a)
        BY <2>2, <3>1 DEF KeyResponse, GenerateResponse
      <3>3. ini'[j].reply.body = a
        BY <3>2, ResponseBody
      <3> QED BY <1>1, <3>1, <3>2, <3>3, AnswerReleased
    <2> QED BY <1>1, <1>6, <2>1, <2>2 DEF RequestNext, SendRequest,
               RejectResponse, KeyAccept, AcceptResponse
  <1> QED BY <1>2, <1>3, <1>4, <1>5, <1>6 DEF Next

\* The loss of the key manager enclave takes the table, the policy and every
\* session with it; responses in flight stay.
LEMMA KeyLostStep ==
  ASSUME ChannelTypeOK, Coherent, KeyInv, KeyManagerLost
  PROVE  KeyInv'
  <1>1. /\ policy' = None /\ acked' = {} /\ certs' = {None}
        /\ table' = [k \in Request \X Ehash |-> None]
        /\ UNCHANGED <<ini, issued, held>>
        /\ sessions' = [d \in Id |-> Absent]
    BY DEF KeyManagerLost, KeymgrLost
  <1>2. KeyTypeOK'
    BY <1>1 DEF KeyInv, KeyTypeOK
  <1>3. Asked' /\ RepliesReleased' /\ KeyUse'
    BY <1>1 DEF KeyInv, Asked, RepliesReleased, ReleasedTo, KeyUse
  <1>4. TableSigned' /\ AckedStored' /\ (policy \in certs)'
    BY <1>1 DEF TableSigned, AckedStored
  <1>5. SessionsCertified'
    BY <1>1 DEF SessionsCertified, Absent
  <1> QED BY <1>2, <1>3, <1>4, <1>5 DEF KeyInv

LEMMA SessionsStep ==
  ASSUME ChannelTypeOK, KeyInv, NEW i \in Initiator,
         SessionNext(i) \/ RequestNext(i) \/ AnalyzerEnclaveLost(i)
  PROVE  SessionsCertified'
  <1>1. UNCHANGED <<policy, certs>>
    BY DEF SessionNext, RequestNext, KeyResponse, KeyAccept,
           AnalyzerEnclaveLost, keyVars
  <1> SUFFICES ASSUME NEW d \in Id, sessions'[d].status = "active"
               PROVE  \E pol \in certs :
                        IsCertifiedSigner(Identity[sessions'[d].peer], pol)
    BY <1>1 DEF SessionsCertified
  <1>2. ASSUME sessions[d].status = "active", sessions'[d].peer = sessions[d].peer
        PROVE  \E pol \in certs :
                 IsCertifiedSigner(Identity[sessions'[d].peer], pol)
    BY <1>2 DEF KeyInv, SessionsCertified
  <1>3. CASE ExchangeReport(i, IsCertifiedSigner(Identity[i], policy))
    <2>1. PICK v \in BOOLEAN : v = IsCertifiedSigner(Identity[i], policy)
      BY DEF IsCertifiedSigner
    <2>2. ExchangeReport(i, v)
      BY <1>3, <2>1 DEF ExchangeReport, VerifyPeer
    <2>3. \/ sessions[d].status = "active" /\ sessions'[d].peer = sessions[d].peer
          \/ v /\ sessions'[d].peer = i
      BY <2>2, ExchangeFrame
    <2>4. CASE v /\ sessions'[d].peer = i
      <3>1. policy \in certs /\ IsCertifiedSigner(Identity[i], policy)
        BY <2>1, <2>4 DEF KeyInv
      <3> QED BY <2>4, <3>1
    <2> QED BY <1>2, <2>3, <2>4
  <1>4. CASE KeyResponse(i)
    <2>1. CASE EncryptFails(i)
      BY <1>2, <2>1, SessionFrame
    <2>2. CASE GenerateResponse(i, Answer(i))
      <3>1. ini[i].sid \in Id /\ SessionOf(i) \in Session
        BY DEF ChannelTypeOK, InitiatorState, SessionOf
      <3>2. sessions' = [sessions EXCEPT ![ini[i].sid] =
                    [SessionOf(i) EXCEPT !.counter = SessionOf(i).counter + 1]]
        BY <2>2 DEF GenerateResponse
      <3>3. sessions[d].status = "active" /\ sessions'[d].peer = sessions[d].peer
        BY <3>1, <3>2 DEF ChannelTypeOK, Session, SessionOf
      <3> QED BY <1>2, <3>3
    <2> QED BY <1>4, <2>1, <2>2 DEF KeyResponse
  <1>5. CASE \/ InitKeymgrSession(i) \/ HandshakeFails(i) \/ SessionRequest(i)
             \/ SessionRequestFails(i) \/ FinishSession(i) \/ CloseSession(i)
             \/ (\E q \in Request : SendRequest(i, q)) \/ ResponseFails(i)
             \/ AcceptResponse(i) \/ RejectResponse(i) \/ AnalyzerLost(i)
    BY <1>2, <1>5, SessionFrame
  <1> QED BY <1>3, <1>4, <1>5 DEF SessionNext, RequestNext, KeyAccept,
             AnalyzerEnclaveLost

LEMMA KeyInvStep ==
  ASSUME ChannelTypeOK, Coherent, KeyInv, [Next]_vars
  PROVE  KeyInv'
  <1>1. [ChannelStep]_channelVars
    BY KeyNextIsStep
  <1>2. \A j \in Initiator, b \in Body : GenerateResponse(j, b) => ReleasedTo(j, b)
    BY ResponsesReleased
  <1>3. CASE UNCHANGED vars
    <2>1. SessionsCertified'
      BY <1>3 DEF vars, channelVars, keyVars, KeyInv, SessionsCertified
    <2> QED BY <1>1, <1>2, <1>3, <2>1, ChannelOnlyStep DEF vars
  <1>4. CASE HostNext
    BY <1>4, HostStep
  <1>5. CASE KeyManagerLost
    BY <1>5, KeyLostStep
  <1>6. ASSUME NEW i \in Initiator,
               SessionNext(i) \/ RequestNext(i) \/ AnalyzerEnclaveLost(i)
        PROVE  KeyInv'
    <2>1. SessionsCertified'
      BY <1>6, SessionsStep
    <2>2. CASE UNCHANGED keyVars
      BY <1>1, <1>2, <2>1, <2>2, ChannelOnlyStep
    <2>3. ASSUME UNCHANGED <<policy, table, issued, acked, certs>>,
                 KeyTypeOK', KeyUse'
          PROVE  KeyInv'
      <3>1. Asked' /\ RepliesReleased'
        BY <1>1, <1>2, <2>3, CallsStep
      <3>2. TableSigned' /\ AckedStored' /\ (policy \in certs)'
        BY <2>3 DEF KeyInv, TableSigned, AckedStored
      <3> QED BY <2>1, <2>3, <3>1, <3>2 DEF KeyInv
    <2>4. CASE KeyAccept(i)
      <3>1. UNCHANGED <<policy, table, issued, acked, certs>>
        BY <2>4 DEF KeyAccept
      <3>2. ini[i].pc = "reply"
        BY <2>4 DEF KeyAccept, AcceptResponse
      <3>3. PICK b \in Body : b = ini[i].reply.body /\ ReleasedTo(i, b)
        BY <3>2 DEF KeyInv, RepliesReleased
      <3>4. held' = [held EXCEPT ![i] = held[i] \cup {b}] \/ held' = held
        BY <2>4, <3>3 DEF KeyAccept, KeyInv, KeyTypeOK
      <3>5. KeyTypeOK'
        BY <3>1, <3>4 DEF KeyInv, KeyTypeOK
      <3>6. KeyUse'
        <4>1. ASSUME NEW k \in Initiator, NEW c \in held'[k], c \notin held[k]
              PROVE  k = i /\ c = b
          BY <3>4, <4>1 DEF KeyInv, KeyTypeOK
        <4>2. ASSUME NEW k \in Initiator, NEW c \in held'[k]
              PROVE  ReleasedTo(k, c)
          <5>1. CASE c \in held[k]
            BY <5>1 DEF KeyInv, KeyUse, ReleasedTo
          <5>2. CASE c \notin held[k]
            BY <3>3, <4>1, <4>2, <5>2
          <5> QED BY <5>1, <5>2
        <4> QED BY <3>1, <4>2 DEF KeyUse, ReleasedTo
      <3> QED BY <2>3, <3>1, <3>5, <3>6
    <2>5. CASE AnalyzerEnclaveLost(i)
      <3>1. /\ UNCHANGED <<policy, table, issued, acked, certs>>
            /\ held' = [held EXCEPT ![i] = {}]
        BY <2>5 DEF AnalyzerEnclaveLost
      <3>2. KeyTypeOK' /\ KeyUse'
        BY <3>1 DEF KeyInv, KeyTypeOK, KeyUse
      <3> QED BY <2>3, <3>1, <3>2
    <2> QED BY <1>6, <2>2, <2>4, <2>5 DEF SessionNext, RequestNext, KeyResponse
  <1> QED BY <1>3, <1>4, <1>5, <1>6 DEF Next

-----------------------------------------------------------------------------
(* Results.                                                                *)

LEMMA KeyServiceInvariant == Spec => [](ChannelTypeOK /\ Coherent /\ KeyInv)
  <1>1. Init => ChannelTypeOK /\ Coherent /\ KeyInv
    BY TypeInit, InvInit, KeyInvInit DEF Init
  <1>2. ChannelTypeOK /\ Coherent /\ KeyInv /\ [Next]_vars
        => (ChannelTypeOK /\ Coherent /\ KeyInv)'
    BY KeyNextIsStep, TypeStep, InvStep, KeyInvStep
  <1> QED BY <1>1, <1>2, PTL DEF Spec

\* An analyzer holds only private keys whose owner signed their release to
\* its measurement or to any enclave, over every loss of either enclave, for
\* any number of analyzers, keys and policies.
THEOREM KeyUseHolds == Spec => []KeyUse
  <1>1. ChannelTypeOK /\ Coherent /\ KeyInv => KeyUse
    BY DEF KeyInv
  <1> QED BY <1>1, KeyServiceInvariant, PTL

\* What forward_private_key acknowledged is served to the named enclave
\* until the key manager is lost.
THEOREM ForwardedServedHolds == Spec => []ForwardedServed
  <1>1. ChannelTypeOK /\ Coherent /\ KeyInv => ForwardedServed
    <2> SUFFICES ASSUME KeyInv PROVE ForwardedIsServed
      BY DEF ForwardedServed, KeyInv
    <2> SUFFICES ASSUME NEW i \in Initiator, NEW p \in Request,
                        \/ <<p, Identity[i].mr_enclave>> \in acked
                        \/ <<p, AnyEnclave>> \in acked
                 PROVE  LET a == HandlePkg(Identity[i], p) IN
                        a # None /\ \E h \in {Identity[i].mr_enclave, AnyEnclave} :
                                       <<a[1], a[2], h>> \in issued
      BY DEF ForwardedIsServed
    <2>1. Identity[i].mr_enclave \in Ehash /\ AnyEnclave \in Ehash
      BY KeyServiceAssumption
    <2>2. \/ table[p, Identity[i].mr_enclave] # None
          \/ table[p, AnyEnclave] # None
      BY <2>1 DEF KeyInv, AckedStored
    <2>3. PICK b : b = HandlePkg(Identity[i], p)
      OBVIOUS
    <2>4. b # None /\ ReleasedTo(i, b)
      BY <2>2, <2>3, HandledReleased DEF KeyInv
    <2> QED BY <2>3, <2>4 DEF ReleasedTo
  <1> QED BY <1>1, KeyServiceInvariant, PTL

\* The peer of an active session passed a policy that this key manager
\* enclave had in force.
THEOREM SessionsCertifiedHolds == Spec => []SessionsCertified
  <1>1. ChannelTypeOK /\ Coherent /\ KeyInv => SessionsCertified
    BY DEF KeyInv
  <1> QED BY <1>1, KeyServiceInvariant, PTL

\* The sessions keep agreeing below a key manager whose policy changes while
\* they are made.
THEOREM KeyServiceAgreement == Spec => [](Agreement /\ InStep /\ AnswersInStep)
  <1>1. ChannelTypeOK /\ Coherent /\ KeyInv => Agreement /\ InStep /\ AnswersInStep
    BY DEF Coherent
  <1> QED BY <1>1, KeyServiceInvariant, PTL
=============================================================================
