------------------------ MODULE NtlsEndpointProofs ------------------------
(***************************************************************************)
(* What is proved of each endpoint alone, whoever is at the other end: its *)
(* steps keep the types and its own inductive invariant. NtlsServerSafety  *)
(* and NtlsClientSafety use these lemmas against an arbitrary peer,        *)
(* NtlsHandshakeProofs for the two endpoints together.                     *)
(***************************************************************************)
EXTENDS NtlsServer, NtlsClient, TLAPS

(* A message made by Message has the type of a message.                    *)
LEMMA MessageType ==
  ASSUME NEW t \in MessageTypes, NEW k \in Nat
  PROVE  Message(t, k) \in Messages
BY SuitesAssumption DEF Message, Messages, NoSid, Sids, SidKinds, NoTicket, Tickets, Chains

(* Digesting a message keeps the transcript a sequence of message types.   *)
LEMMA DigestType ==
  ASSUME NEW hs \in Seq(HandshakeTypes), NEW t \in MessageTypes
  PROVE  Digest(hs, t) \in Seq(HandshakeTypes)
BY DEF Digest

(* What the server reads is a message, and what remains is well typed.     *)
LEMMA InputType ==
  ASSUME ServerTypeOK, WireTypeOK, toServer # << >>
  PROVE  /\ ServerInput \in Messages
         /\ ServerConsume => /\ toServer' \in Seq(Messages)
                             /\ srvHs' \in Seq(HandshakeTypes)
<1>1. ServerInput \in Messages /\ Tail(toServer) \in Seq(Messages)
  BY DEF WireTypeOK, ServerInput
<1>2. ServerInput.type \in MessageTypes
  BY <1>1 DEF Messages
<1>3. Digest(srvHs, ServerInput.type) \in Seq(HandshakeTypes)
  BY <1>2, DigestType DEF ServerTypeOK
<1> QED BY <1>1, <1>3 DEF ServerConsume

(* A fatal error leaves everything typed.                                  *)
LEMMA FatalType ==
  ASSUME ServerTypeOK, WireTypeOK, ServerFatal
  PROVE  /\ srv' \in ServerStates
         /\ srvSess' \in ServerSessions
         /\ srvCache' \subseteq ServerSessions
         /\ srvTicketKey' \in Nat
         /\ srvFresh' \in Nat
         /\ srvCfg' \in ServerConfigs
         /\ toClient' \in Seq(Messages)
<1>1. srv' \in ServerStates
  BY DEF ServerFatal, ServerTypeOK, ServerStates, FlowStates
<1>2. toClient' \in Seq(Messages)
  <2>1. srv.wkey \in Nat BY DEF ServerTypeOK, ServerStates
  <2>2. Message("FATAL_ALERT", srv.wkey) \in Messages
    BY <2>1, MessageType DEF MessageTypes, AlertTypes
  <2> QED BY <2>2 DEF ServerFatal, WireTypeOK
<1> QED BY <1>1, <1>2 DEF ServerFatal, ServerTypeOK, ServerDropSession

(* Sending a message m leaves the wire and the transcript typed.           *)
LEMMA EmitType ==
  ASSUME ServerTypeOK, WireTypeOK, NEW m \in Messages, ServerEmit(m)
  PROVE  WireTypeOK' /\ srvHs' \in Seq(HandshakeTypes)
<1>1. m.type \in MessageTypes
  BY DEF Messages
<1>2. Digest(srvHs, m.type) \in Seq(HandshakeTypes)
  BY <1>1, DigestType DEF ServerTypeOK
<1> QED BY <1>2 DEF ServerEmit, WireTypeOK

(* What the server sends under its write key is a message.                 *)
LEMMA SentType ==
  ASSUME ServerTypeOK, NEW t \in ServerHandshakeTypes \cup AlertTypes \cup {"CHANGE_CIPHER_SPEC"}
  PROVE  Message(t, srv.wkey) \in Messages
<1>1. srv.wkey \in Nat
  BY DEF ServerTypeOK, ServerStates
<1>2. t \in MessageTypes
  BY DEF MessageTypes, HandshakeTypes
<1> QED BY <1>1, <1>2, MessageType

-----------------------------------------------------------------------------
(* The writing actions keep the types.                                     *)

(* A new SSL object has its type.                                          *)
LEMMA NewServerType ==
  ASSUME NEW cfg \in ServerConfigs
  PROVE  NewServerSsl(cfg) \in ServerStates
<1>1. cfg.verify \in VerifyModes /\ cfg.once \in BOOLEAN
  BY ServerConfigsAssumption DEF ServerConfigType
<1> QED BY <1>1 DEF NewServerSsl, ServerStates, ServerHandStates, FlowStates

(* Entering state_machine_ntls for a connection keeps the types.           *)
LEMMA AcceptType ==
  ASSUME ServerTypeOK, WireTypeOK, ServerAccept
  PROVE  ServerTypeOK' /\ WireTypeOK'
<1> DEFINE c == ClearedServerSsl
<1>1. c \in ServerStates
  BY NewServerType DEF ClearedServerSsl, ServerTypeOK, ServerStates
<1>2. srv' = [c EXCEPT !.flow = "WRITING", !.buffer = TRUE]
  BY DEF ServerAccept
<1> HIDE DEF c
<1>3. srv' \in ServerStates
  BY <1>1, <1>2 DEF ServerStates, FlowStates
<1> QED BY <1>3 DEF ServerAccept, ServerTypeOK, WireTypeOK, wireVars

(* Turning to read keeps the types, also out of TLS_ST_OK.                 *)
LEMMA TurnToReadType ==
  ASSUME ServerTypeOK, WireTypeOK, ServerTurnToRead
  PROVE  ServerTypeOK' /\ WireTypeOK'
<1> DEFINE r == srv.certRequest /\ ServerFirstHandshake
<1>1. r \in BOOLEAN
  OBVIOUS
<1>2. \A x \in BOOLEAN :
        [srv EXCEPT !.flow = "READING", !.buffer = TRUE, !.certRequest = x]
          \in ServerStates
  BY DEF ServerTypeOK, ServerStates, FlowStates
<1>3. [srv EXCEPT !.flow = "READING"] \in ServerStates
  BY DEF ServerTypeOK, ServerStates, FlowStates
<1>4. srv' \in ServerStates /\ srvHs' \in Seq(HandshakeTypes)
  <2>1. CASE srv.hand = "OK"
    <3>1. /\ srv' = [srv EXCEPT !.flow = "READING", !.buffer = TRUE,
                                 !.certRequest = r]
          /\ srvHs' = << >>
      BY <2>1 DEF ServerTurnToRead
    <3>2. srv' \in ServerStates
      BY <1>1, <1>2, <3>1
    <3> QED BY <3>1, <3>2
  <2>2. CASE srv.hand # "OK"
    BY <1>3, <2>2 DEF ServerTurnToRead, ServerTypeOK
  <2> QED BY <2>1, <2>2
<1> QED BY <1>4 DEF ServerTurnToRead, ServerTypeOK, WireTypeOK, wireVars

(* The HelloRequest is a message and leaves the server typed.              *)
LEMMA HelloRequestType ==
  ASSUME ServerTypeOK, WireTypeOK, ServerSendHelloRequest
  PROVE  ServerTypeOK' /\ WireTypeOK'
<1>1. srv' \in ServerStates
  BY DEF ServerSendHelloRequest, ServerTypeOK, ServerStates, ServerHandStates
<1>2. Message("HELLO_REQUEST", srv.wkey) \in Messages
  BY SentType DEF ServerHandshakeTypes
<1> QED BY <1>1, <1>2 DEF ServerSendHelloRequest, ServerTypeOK, WireTypeOK

(* The ServerHello carries a typed cipher, identifier and extensions.      *)
LEMMA ServerHelloType ==
  ASSUME ServerTypeOK, WireTypeOK, ServerSendServerHello
  PROVE  ServerTypeOK' /\ WireTypeOK'
<1> DEFINE sid == IF ~srvCfg.cache /\ ~srv.hit THEN NoSid ELSE srvSess.sid
           m == [Message("SERVER_HELLO", srv.wkey) EXCEPT
             !.suite = srv.newCipher, !.sid = sid,
             !.ext = (IF AnnouncesTicket THEN {"ticket"} ELSE {})
                \cup (IF srv.statusExpected THEN {"status"} ELSE {})
                \cup (IF srv.npnSeen THEN {"npn"} ELSE {})]
           t == AnnouncesTicket
           b == srv.buffer /\ srv.verify # "none"
<1>1. sid \in Sids
  BY DEF ServerTypeOK, ServerSessions, NoSid, Sids, SidKinds
<1>2. Message("SERVER_HELLO", srv.wkey) \in Messages
  BY SentType DEF ServerHandshakeTypes
<1>3. m \in Messages
  BY <1>1, <1>2 DEF ServerTypeOK, ServerStates, Messages, Extensions
<1>4. t \in BOOLEAN /\ b \in BOOLEAN
  BY DEF AnnouncesTicket
<1>5. srv' = [srv EXCEPT !.hand = "SW_SRVR_HELLO", !.ticketExpected = t,
                         !.buffer = b]
  BY DEF ServerSendServerHello
<1>6. srvSess' = [srvSess EXCEPT !.sid = sid] /\ ServerEmit(m)
  BY DEF ServerSendServerHello
<1> HIDE DEF t, b, sid, m
<1>7. srv' \in ServerStates
  BY <1>4, <1>5 DEF ServerTypeOK, ServerStates, ServerHandStates
<1>8. srvSess' \in ServerSessions
  BY <1>1, <1>6 DEF ServerTypeOK, ServerSessions
<1>9. WireTypeOK' /\ srvHs' \in Seq(HandshakeTypes)
  BY <1>3, <1>6, EmitType
<1> QED BY <1>7, <1>8, <1>9 DEF ServerSendServerHello, ServerTypeOK

(* The Certificate carries one of the chains.                              *)
LEMMA SendCertificateType ==
  ASSUME ServerTypeOK, WireTypeOK, ServerSendCertificate
  PROVE  ServerTypeOK' /\ WireTypeOK'
<1>1. srvCfg.chain \in Chains
  BY ServerConfigsAssumption DEF ServerTypeOK, ServerConfigType, Chains
<1>2. Message("CERTIFICATE", srv.wkey) \in Messages
  BY SentType DEF ServerHandshakeTypes
<1>3. [Message("CERTIFICATE", srv.wkey) EXCEPT !.chain = srvCfg.chain] \in Messages
  BY <1>1, <1>2 DEF Messages
<1>4. WireTypeOK' /\ srvHs' \in Seq(HandshakeTypes)
  BY <1>3, EmitType DEF ServerSendCertificate
<1>5. srv' \in ServerStates
  BY DEF ServerSendCertificate, ServerTypeOK, ServerStates, ServerHandStates
<1> QED BY <1>4, <1>5 DEF ServerSendCertificate, ServerTypeOK

(* The CertificateStatus keeps the types.                                  *)
LEMMA SendCertStatusType ==
  ASSUME ServerTypeOK, WireTypeOK, ServerSendCertStatus
  PROVE  ServerTypeOK' /\ WireTypeOK'
<1>1. Message("CERTIFICATE_STATUS", srv.wkey) \in Messages
  BY SentType DEF ServerHandshakeTypes
<1>4. WireTypeOK' /\ srvHs' \in Seq(HandshakeTypes)
  BY <1>1, EmitType DEF ServerSendCertStatus
<1>5. srv' \in ServerStates
  BY DEF ServerSendCertStatus, ServerTypeOK, ServerStates, ServerHandStates
<1> QED BY <1>4, <1>5 DEF ServerSendCertStatus, ServerTypeOK

(* The ServerKeyExchange is signed for one of the chains.                  *)
LEMMA SendKeyExchangeType ==
  ASSUME ServerTypeOK, WireTypeOK, ServerSendKeyExchange
  PROVE  ServerTypeOK' /\ WireTypeOK'
<1>1. srvCfg.chain \in Chains
  BY ServerConfigsAssumption DEF ServerTypeOK, ServerConfigType, Chains
<1>2. Message("SERVER_KEY_EXCHANGE", srv.wkey) \in Messages
  BY SentType DEF ServerHandshakeTypes
<1>3. [Message("SERVER_KEY_EXCHANGE", srv.wkey) EXCEPT !.chain = srvCfg.chain] \in Messages
  BY <1>1, <1>2 DEF Messages
<1>4. WireTypeOK' /\ srvHs' \in Seq(HandshakeTypes)
  BY <1>3, EmitType DEF ServerSendKeyExchange
<1>5. srv' \in ServerStates
  BY DEF ServerSendKeyExchange, ServerTypeOK, ServerStates, ServerHandStates
<1> QED BY <1>4, <1>5 DEF ServerSendKeyExchange, ServerTypeOK

(* The CertificateRequest keeps the types.                                 *)
LEMMA SendCertificateRequestType ==
  ASSUME ServerTypeOK, WireTypeOK, ServerSendCertificateRequest
  PROVE  ServerTypeOK' /\ WireTypeOK'
<1>1. Message("CERTIFICATE_REQUEST", srv.wkey) \in Messages
  BY SentType DEF ServerHandshakeTypes
<1>4. WireTypeOK' /\ srvHs' \in Seq(HandshakeTypes)
  BY <1>1, EmitType DEF ServerSendCertificateRequest
<1>5. srv' \in ServerStates
  BY DEF ServerSendCertificateRequest, ServerTypeOK, ServerStates, ServerHandStates
<1> QED BY <1>4, <1>5 DEF ServerSendCertificateRequest, ServerTypeOK

(* The ServerHelloDone keeps the types, the buffer flag included.          *)
LEMMA SendServerDoneType ==
  ASSUME ServerTypeOK, WireTypeOK, ServerSendServerDone
  PROVE  ServerTypeOK' /\ WireTypeOK'
<1> DEFINE b == srv.buffer /\ srv.certRequest
<1>1. Message("SERVER_DONE", srv.wkey) \in Messages
  BY SentType DEF ServerHandshakeTypes
<1>2. WireTypeOK' /\ srvHs' \in Seq(HandshakeTypes)
  BY <1>1, EmitType DEF ServerSendServerDone
<1>3. b \in BOOLEAN /\ srv' = [srv EXCEPT !.hand = "SW_SRVR_DONE", !.buffer = b]
  BY DEF ServerSendServerDone
<1> HIDE DEF b
<1>4. srv' \in ServerStates
  BY <1>3 DEF ServerTypeOK, ServerStates, ServerHandStates
<1> QED BY <1>2, <1>4 DEF ServerSendServerDone, ServerTypeOK

(* The ticket that seals the session is a ticket.                          *)
LEMMA SendSessionTicketType ==
  ASSUME ServerTypeOK, WireTypeOK, ServerSendSessionTicket
  PROVE  ServerTypeOK' /\ WireTypeOK'
<1> DEFINE t == [ n |-> srvFresh, key |-> srvTicketKey,
                  suite |-> srvSess.cipher, ms |-> srvSess.ms,
                  peer |-> srvSess.peer ]
           m == [Message("NEWSESSION_TICKET", srv.wkey) EXCEPT !.ticket = t]
<1>1. t \in Tickets
  BY DEF ServerTypeOK, ServerSessions, Tickets
<1>2. Message("NEWSESSION_TICKET", srv.wkey) \in Messages
  BY SentType DEF ServerHandshakeTypes
<1>3. ServerEmit(m)
  BY DEF ServerSendSessionTicket
<1>4. m \in Messages
  BY <1>1, <1>2 DEF Messages
<1> HIDE DEF t, m
<1>5. WireTypeOK' /\ srvHs' \in Seq(HandshakeTypes)
  BY <1>3, <1>4, EmitType
<1>6. srv' \in ServerStates
  BY DEF ServerSendSessionTicket, ServerTypeOK, ServerStates, ServerHandStates
<1>7. srvFresh' \in Nat
  BY DEF ServerSendSessionTicket, ServerTypeOK
<1> QED BY <1>5, <1>6, <1>7 DEF ServerSendSessionTicket, ServerTypeOK

(* The ChangeCipherSpec keeps the types, or is a fatal error.              *)
LEMMA SendChangeCipherSpecType ==
  ASSUME ServerTypeOK, WireTypeOK, ServerSendChangeCipherSpec
  PROVE  ServerTypeOK' /\ WireTypeOK'
<1>1. CASE srvSess.cipher \in {NoSuite, srv.newCipher} /\ srvSess.ms # 0
  <2>1. Message("CHANGE_CIPHER_SPEC", srv.wkey) \in Messages
    BY SentType
  <2>2. WireTypeOK' /\ srvHs' \in Seq(HandshakeTypes)
    BY <1>1, <2>1, EmitType DEF ServerSendChangeCipherSpec
  <2>3. srv' \in ServerStates
    <3>1. \A k \in Nat : [srv EXCEPT !.hand = "SW_CHANGE", !.wkey = k]
                           \in ServerStates
      BY DEF ServerTypeOK, ServerStates, ServerHandStates
    <3>2. srvSess.ms \in Nat
      BY DEF ServerTypeOK, ServerSessions
    <3> QED BY <1>1, <3>1, <3>2 DEF ServerSendChangeCipherSpec
  <2>4. srvSess' \in ServerSessions
    BY <1>1 DEF ServerSendChangeCipherSpec, ServerTypeOK, ServerStates,
                ServerSessions
  <2> QED BY <1>1, <2>2, <2>3, <2>4 DEF ServerSendChangeCipherSpec, ServerTypeOK
<1>2. CASE ~(srvSess.cipher \in {NoSuite, srv.newCipher} /\ srvSess.ms # 0)
  BY <1>2, FatalType DEF ServerSendChangeCipherSpec, ServerTypeOK, WireTypeOK
<1> QED BY <1>1, <1>2

(* The Finished carries the secret and a typed transcript.                 *)
LEMMA SendFinishedType ==
  ASSUME ServerTypeOK, WireTypeOK, ServerSendFinished
  PROVE  ServerTypeOK' /\ WireTypeOK'
<1>1. Message("FINISHED", srv.wkey) \in Messages
  BY SentType DEF ServerHandshakeTypes
<1>2. [Message("FINISHED", srv.wkey) EXCEPT !.secret = srvSess.ms, !.hs = srvHs]
        \in Messages
  BY <1>1 DEF Messages, ServerTypeOK, ServerSessions
<1>3. WireTypeOK' /\ srvHs' \in Seq(HandshakeTypes)
  BY <1>2, EmitType DEF ServerSendFinished
<1>4. srv' \in ServerStates
  BY DEF ServerSendFinished, ServerTypeOK, ServerStates, ServerHandStates
<1> QED BY <1>3, <1>4 DEF ServerSendFinished, ServerTypeOK

(* tls_finish_handshake_ntls caches only sessions.                         *)
LEMMA FinishHandshakeType ==
  ASSUME ServerTypeOK, WireTypeOK, ServerFinishHandshake
  PROVE  ServerTypeOK' /\ WireTypeOK'
<1> DEFINE r == srv.renegotiate /\ ~srv.cleanuphand
           t == srv.ticketExpected /\ ~srv.cleanuphand
<1>1. r \in BOOLEAN /\ t \in BOOLEAN
  OBVIOUS
<1>2. \A x, y \in BOOLEAN :
        [srv EXCEPT !.hand = "OK", !.flow = "FINISHED", !.renegotiate = x,
                    !.ticketExpected = y, !.cleanuphand = FALSE]
          \in ServerStates
  BY DEF ServerTypeOK, ServerStates, ServerHandStates, FlowStates
<1>3. srv' \in ServerStates
  BY <1>1, <1>2 DEF ServerFinishHandshake
<1>4. srvCache' \subseteq ServerSessions
  BY DEF ServerFinishHandshake, ServerTypeOK
<1> QED BY <1>3, <1>4
        DEF ServerFinishHandshake, ServerTypeOK, WireTypeOK, wireVars

(* So does every step by which the server writes.                          *)
LEMMA WriteType ==
  ASSUME ServerTypeOK, WireTypeOK, ServerWrite
  PROVE  ServerTypeOK' /\ WireTypeOK'
BY TurnToReadType, HelloRequestType, ServerHelloType, SendCertificateType,
   SendCertStatusType, SendKeyExchangeType, SendCertificateRequestType,
   SendServerDoneType, SendSessionTicketType, SendChangeCipherSpecType,
   SendFinishedType, FinishHandshakeType
   DEF ServerWrite

-----------------------------------------------------------------------------
(* The reading actions keep the types.                                     *)

(* What a ClientHello negotiates fits into the SSL object.                 *)
LEMMA NegotiatedType ==
  ASSUME NEW r \in ServerStates, NEW st \in BOOLEAN, NEW np \in BOOLEAN,
         NEW vm \in VerifyModes, NEW on \in BOOLEAN
  PROVE  [r EXCEPT !.statusExpected = st, !.npnSeen = np, !.verify = vm,
                   !.once = on] \in ServerStates
BY DEF ServerStates

(* What follows a ClientHello is an SSL object.                            *)
LEMMA AfterClientHelloType ==
  ASSUME ServerTypeOK, NEW m \in Messages, NEW hit \in BOOLEAN,
         NEW c \in Suites \cup {NoSuite}, NEW te \in BOOLEAN
  PROVE  ServerAfterClientHello(m, hit, c, te) \in ServerStates
<1> DEFINE st == ~hit /\ "status" \in m.ext /\ srvCfg.status
           np == "npn" \in m.ext /\ srvCfg.npn
           on == srv.once \/ c \in MutualSuites
           vm == IF c \in MutualSuites THEN "require" ELSE srv.verify
<1>1. st \in BOOLEAN /\ np \in BOOLEAN /\ on \in BOOLEAN
  OBVIOUS
<1>2. vm \in VerifyModes
  BY DEF ServerTypeOK, ServerStates, VerifyModes
<1> DEFINE r == [srv EXCEPT !.hand = "SR_CLNT_HELLO", !.flow = "WRITING",
                   !.hit = hit, !.newCipher = c, !.ticketExpected = te,
                   !.proved = FALSE, !.finOk = FALSE]
<1>3. r \in ServerStates
  BY DEF ServerTypeOK, ServerStates, ServerHandStates, FlowStates
<1>4. ServerAfterClientHello(m, hit, c, te) =
        [r EXCEPT !.statusExpected = st, !.npnSeen = np, !.verify = vm,
                  !.once = on]
  BY DEF ServerAfterClientHello, ServerTypeOK, ServerStates
<1> HIDE DEF st, np, on, vm, r
<1>5. [r EXCEPT !.statusExpected = st, !.npnSeen = np, !.verify = vm,
                !.once = on] \in ServerStates
  <2>1. st \in BOOLEAN
    BY <1>1
  <2>2. np \in BOOLEAN
    BY <1>1
  <2>3. on \in BOOLEAN
    BY <1>1
  <2> QED BY ONLY <2>1, <2>2, <2>3, <1>2, <1>3, NegotiatedType
<1> QED BY ONLY <1>4, <1>5

(* The refusal of a renegotiation keeps the types.                         *)
LEMMA RejectRenegotiationType ==
  ASSUME ServerTypeOK, WireTypeOK, ServerRejectRenegotiation
  PROVE  ServerTypeOK' /\ WireTypeOK'
<1>1. toServer' \in Seq(Messages) /\ srvHs' \in Seq(HandshakeTypes)
  BY InputType DEF ServerRejectRenegotiation, ServerReading
<1>2. Message("NO_RENEGOTIATION_ALERT", srv.wkey) \in Messages
  BY SentType DEF AlertTypes
<1>3. srv' \in ServerStates
  BY DEF ServerRejectRenegotiation, ServerTypeOK, ServerStates,
         ServerHandStates, FlowStates
<1> QED BY <1>1, <1>2, <1>3
        DEF ServerRejectRenegotiation, ServerTypeOK, WireTypeOK

(* A session from a ticket or from the cache is a session.                 *)
LEMMA ResumeType ==
  ASSUME ServerTypeOK, WireTypeOK, ServerResume
  PROVE  ServerTypeOK' /\ WireTypeOK'
<1>1. /\ ServerInput \in Messages
      /\ toServer' \in Seq(Messages)
      /\ srvHs' \in Seq(HandshakeTypes)
  BY InputType DEF ServerResume, ServerReading
<1>2. PICK sess \in PrevSessions(ServerInput) :
        IF ResumptionAllowed(ServerInput, sess)
          THEN /\ srv' = ServerAfterClientHello(ServerInput, TRUE, sess.cipher,
                           TicketStatus(ServerInput) = "EMPTY")
               /\ srvSess' = sess
               /\ UNCHANGED <<toClient, srvCache, srvTicketKey, srvFresh,
                              srvCfg>>
          ELSE ServerFatal
  BY DEF ServerResume
<1>3. CASE ~ResumptionAllowed(ServerInput, sess)
  BY <1>1, <1>2, <1>3, FatalType DEF ServerTypeOK, WireTypeOK
<1>4. CASE ResumptionAllowed(ServerInput, sess)
  <2>1. sess \in ServerSessions
    BY <1>1 DEF PrevSessions, Messages, Tickets, ServerSessions, ServerTypeOK
  <2>2. sess.cipher \in Suites \cup {NoSuite}
    BY <2>1 DEF ServerSessions
  <2>3. srv' \in ServerStates
    BY <1>1, <1>2, <1>4, <2>2, AfterClientHelloType
  <2> QED BY <1>1, <1>2, <1>4, <2>1, <2>3 DEF ServerTypeOK, WireTypeOK
<1> QED BY <1>3, <1>4

(* A new session, with or without an identifier, is a session.             *)
LEMMA NewSessionType ==
  ASSUME ServerTypeOK, WireTypeOK, ServerNewSession
  PROVE  ServerTypeOK' /\ WireTypeOK'
<1> DEFINE te == TicketStatus(ServerInput) \in {"EMPTY", "NO_DECRYPT"}
           sid == IF te THEN NoSid ELSE ServerSid(srvFresh)
           shared == ServerInput.suites \cap srvCfg.suites
<1>1. /\ ServerInput \in Messages
      /\ toServer' \in Seq(Messages)
      /\ srvHs' \in Seq(HandshakeTypes)
  BY InputType DEF ServerNewSession, ServerReading
<1>2. CASE ServerFatal
  BY <1>1, <1>2, FatalType DEF ServerTypeOK, WireTypeOK
<1>3. ASSUME NEW c \in shared,
             srv' = ServerAfterClientHello(ServerInput, FALSE, c, te),
             srvSess' = [NoServerSession EXCEPT !.sid = sid],
             srvFresh' = srvFresh + 1,
             UNCHANGED <<toClient, srvCache, srvTicketKey, srvCfg>>
      PROVE  ServerTypeOK' /\ WireTypeOK'
  <2>1. c \in Suites \cup {NoSuite}
    BY <1>1 DEF Messages
  <2>2. te \in BOOLEAN
    OBVIOUS
  <2>3. srv' \in ServerStates
    BY <1>1, <1>3, <2>1, <2>2, AfterClientHelloType
  <2>4. sid \in Sids
    BY DEF ServerTypeOK, Sids, SidKinds, NoSid, ServerSid
  <2>5. srvSess' \in ServerSessions
    BY <1>3, <2>4 DEF NoServerSession, ServerSessions
  <2>6. srvFresh' \in Nat
    BY <1>3 DEF ServerTypeOK
  <2> QED BY <1>1, <1>3, <2>3, <2>5, <2>6 DEF ServerTypeOK, WireTypeOK
<1> QED BY <1>2, <1>3 DEF ServerNewSession

(* The client certificate leaves session->peer typed.                      *)
LEMMA ReadCertificateType ==
  ASSUME ServerTypeOK, WireTypeOK, ServerReadCertificate
  PROVE  ServerTypeOK' /\ WireTypeOK'
<1> DEFINE b == srv.buffer /\ ServerInput.chain # "empty"
<1>1. toServer' \in Seq(Messages) /\ srvHs' \in Seq(HandshakeTypes)
  BY InputType DEF ServerReadCertificate, ServerReading
<1>2. CASE ~ClientChainAccepted(ServerInput.chain)
  BY <1>1, <1>2, FatalType DEF ServerReadCertificate, ServerTypeOK, WireTypeOK
<1>3. CASE ClientChainAccepted(ServerInput.chain)
  <2>1. \A x \in BOOLEAN :
          [srv EXCEPT !.hand = "SR_CERT", !.buffer = x, !.proved = FALSE]
            \in ServerStates
    BY DEF ServerTypeOK, ServerStates, ServerHandStates
  <2>2. b \in BOOLEAN
    OBVIOUS
  <2>3. srv' \in ServerStates
    BY <1>3, <2>1, <2>2 DEF ServerReadCertificate
  <2>4. srvSess' \in ServerSessions
    BY <1>3 DEF ServerReadCertificate, ServerTypeOK, ServerSessions
  <2> QED BY <1>1, <1>3, <2>3, <2>4
          DEF ServerReadCertificate, ServerTypeOK, WireTypeOK
<1> QED BY <1>2, <1>3

(* The ClientKeyExchange leaves a typed master secret.                     *)
LEMMA ReadKeyExchangeType ==
  ASSUME ServerTypeOK, WireTypeOK, ServerReadKeyExchange
  PROVE  ServerTypeOK' /\ WireTypeOK'
<1> DEFINE ok == ServerInput.secret # 0 /\ (srvSess.peer # "none" => srv.buffer)
           b == srv.buffer /\ srvSess.peer # "none"
<1>1. /\ ServerInput \in Messages
      /\ toServer' \in Seq(Messages)
      /\ srvHs' \in Seq(HandshakeTypes)
  BY InputType DEF ServerReadKeyExchange, ServerReading
<1>2. CASE ~ok
  BY <1>1, <1>2, FatalType DEF ServerReadKeyExchange, ServerTypeOK, WireTypeOK
<1>3. CASE ok
  <2>1. \A x \in BOOLEAN :
          [srv EXCEPT !.hand = "SR_KEY_EXCH", !.buffer = x] \in ServerStates
    BY DEF ServerTypeOK, ServerStates, ServerHandStates
  <2>2. b \in BOOLEAN
    OBVIOUS
  <2>3. srv' \in ServerStates
    BY <1>3, <2>1, <2>2 DEF ServerReadKeyExchange
  <2>4. ServerInput.secret \in Nat
    BY <1>1 DEF Messages
  <2>5. srvSess' \in ServerSessions
    BY <1>3, <2>4 DEF ServerReadKeyExchange, ServerTypeOK, ServerSessions
  <2> QED BY <1>1, <1>3, <2>3, <2>5
          DEF ServerReadKeyExchange, ServerTypeOK, WireTypeOK
<1> QED BY <1>2, <1>3

(* The CertificateVerify keeps the types.                                  *)
LEMMA ReadCertVerifyType ==
  ASSUME ServerTypeOK, WireTypeOK, ServerReadCertVerify
  PROVE  ServerTypeOK' /\ WireTypeOK'
<1>1. toServer' \in Seq(Messages) /\ srvHs' \in Seq(HandshakeTypes)
  BY InputType DEF ServerReadCertVerify, ServerReading
<1>2. [srv EXCEPT !.hand = "SR_CERT_VRFY", !.buffer = FALSE, !.proved = TRUE]
        \in ServerStates
  BY DEF ServerTypeOK, ServerStates, ServerHandStates
<1> QED BY <1>1, <1>2, FatalType
        DEF ServerReadCertVerify, ServerTypeOK, WireTypeOK

(* A ChangeCipherSpec read keeps the types.                                *)
LEMMA ReadChangeCipherSpecType ==
  ASSUME ServerTypeOK, WireTypeOK, ServerReadChangeCipherSpec
  PROVE  ServerTypeOK' /\ WireTypeOK'
<1>1. toServer' \in Seq(Messages) /\ srvHs' \in Seq(HandshakeTypes)
  BY InputType DEF ServerReadChangeCipherSpec, ServerReading
<1>2. CASE ~(srv.newCipher # NoSuite /\ srvSess.ms # 0)
  BY <1>1, <1>2, FatalType
     DEF ServerReadChangeCipherSpec, ServerTypeOK, WireTypeOK
<1>3. CASE srv.newCipher # NoSuite /\ srvSess.ms # 0
  <2>1. \A k \in Nat :
          [srv EXCEPT !.hand = "SR_CHANGE", !.ccs = TRUE, !.rkey = k,
                      !.finOk = FALSE] \in ServerStates
    BY DEF ServerTypeOK, ServerStates, ServerHandStates
  <2>2. srvSess.ms \in Nat /\ srv.newCipher \in Suites \cup {NoSuite}
    BY DEF ServerTypeOK, ServerSessions, ServerStates
  <2>3. srv' \in ServerStates
    BY <1>3, <2>1, <2>2 DEF ServerReadChangeCipherSpec
  <2>4. srvSess' \in ServerSessions
    BY <1>3, <2>2 DEF ServerReadChangeCipherSpec, ServerTypeOK, ServerSessions
  <2> QED BY <1>1, <1>3, <2>3, <2>4
          DEF ServerReadChangeCipherSpec, ServerTypeOK, WireTypeOK
<1> QED BY <1>2, <1>3

(* The NextProto message keeps the types.                                  *)
LEMMA ReadNextProtoType ==
  ASSUME ServerTypeOK, WireTypeOK, ServerReadNextProto
  PROVE  ServerTypeOK' /\ WireTypeOK'
<1>1. toServer' \in Seq(Messages) /\ srvHs' \in Seq(HandshakeTypes)
  BY InputType DEF ServerReadNextProto, ServerReading
<1>2. srv' \in ServerStates
  BY DEF ServerReadNextProto, ServerTypeOK, ServerStates, ServerHandStates
<1> QED BY <1>1, <1>2 DEF ServerReadNextProto, ServerTypeOK, WireTypeOK

(* The client's Finished keeps the types.                                  *)
LEMMA ReadFinishedType ==
  ASSUME ServerTypeOK, WireTypeOK, ServerReadFinished
  PROVE  ServerTypeOK' /\ WireTypeOK'
<1>1. toServer' \in Seq(Messages) /\ srvHs' \in Seq(HandshakeTypes)
  BY InputType DEF ServerReadFinished, ServerReading
<1>2. [srv EXCEPT !.hand = "SR_FINISHED", !.flow = "WRITING", !.ccs = FALSE,
                  !.cleanuphand = TRUE, !.finRead = TRUE, !.finOk = TRUE]
        \in ServerStates
  BY DEF ServerTypeOK, ServerStates, ServerHandStates, FlowStates
<1> QED BY <1>1, <1>2, FatalType
        DEF ServerReadFinished, ServerTypeOK, WireTypeOK

(* What comes from outside the transitions keeps the types as well.        *)
LEMMA OutsideType ==
  ASSUME ServerTypeOK, WireTypeOK,
         \/ ServerUnexpected \/ ServerReadAlert \/ ServerReadNoRenegotiation
         \/ ServerWake \/ ServerStrayChangeCipherSpec \/ ServerRenegotiate
  PROVE  ServerTypeOK' /\ WireTypeOK'
<1>1. CASE ServerUnexpected \/ ServerReadNoRenegotiation
             \/ ServerStrayChangeCipherSpec
  <2>1. toServer' \in Seq(Messages) /\ srvHs' \in Seq(HandshakeTypes)
    BY <1>1, InputType DEF ServerUnexpected, ServerReadNoRenegotiation,
                           ServerStrayChangeCipherSpec
  <2>2. ServerFatal
    BY <1>1 DEF ServerUnexpected, ServerReadNoRenegotiation,
                ServerStrayChangeCipherSpec
  <2> QED BY <2>1, <2>2, FatalType DEF ServerTypeOK, WireTypeOK
<1>2. CASE ServerReadAlert
  <2>1. toServer' \in Seq(Messages) /\ srvHs' \in Seq(HandshakeTypes)
    BY <1>2, InputType DEF ServerReadAlert
  <2>2. CASE ServerFatal
    BY <2>1, <2>2, FatalType DEF ServerTypeOK, WireTypeOK
  <2>3. CASE ~srv.ccs
    <3>1. srv' \in ServerStates
      BY <1>2, <2>3 DEF ServerReadAlert, ServerTypeOK, ServerStates, FlowStates
    <3> QED BY <1>2, <2>1, <2>3, <3>1
            DEF ServerReadAlert, ServerDropSession, ServerTypeOK, WireTypeOK
  <2> QED BY <1>2, <2>2, <2>3 DEF ServerReadAlert
<1>3. CASE ServerWake
  <2>1. srv' \in ServerStates
    BY <1>3 DEF ServerWake, ServerTypeOK, ServerStates, FlowStates
  <2> QED BY <1>3, <2>1 DEF ServerWake, ServerTypeOK, WireTypeOK, wireVars
<1>4. CASE ServerRenegotiate
  <2>1. srv' \in ServerStates
    BY <1>4 DEF ServerRenegotiate, ServerTypeOK, ServerStates, FlowStates
  <2>2. srvHs' \in Seq(HandshakeTypes)
    BY <1>4 DEF ServerRenegotiate
  <2> QED BY <1>4, <2>1, <2>2
          DEF ServerRenegotiate, ServerTypeOK, WireTypeOK, wireVars
<1> QED BY <1>1, <1>2, <1>3, <1>4

(* Every step of the server keeps the types.                               *)
LEMMA StepType ==
  ASSUME ServerTypeOK, WireTypeOK, ServerStep
  PROVE  ServerTypeOK' /\ WireTypeOK'
<1>1. CASE ServerAccept
  BY <1>1, AcceptType
<1>2. CASE ServerWrite
  BY <1>2, WriteType
<1>3. CASE ServerRead
  BY <1>3, RejectRenegotiationType, ResumeType, NewSessionType,
     ReadCertificateType, ReadKeyExchangeType, ReadCertVerifyType,
     ReadChangeCipherSpecType, ReadNextProtoType, ReadFinishedType,
     OutsideType DEF ServerRead
<1>4. CASE ServerRenegotiate
  BY <1>4, OutsideType
<1> QED BY <1>1, <1>2, <1>3, <1>4 DEF ServerStep

(* A new connection, and the aging of the SSL_CTX, keep the types.         *)
LEMMA BetweenConnectionsType ==
  ASSUME ServerTypeOK,
         ServerNewConnection \/ ServerForgetSession \/ ServerRotateTicketKey
  PROVE  ServerTypeOK'
<1>1. CASE ServerNewConnection
  <2>1. NewServerSsl(srvCfg) \in ServerStates
    BY NewServerType DEF ServerTypeOK
  <2>2. ClearedServerSsl \in ServerStates
    BY <2>1 DEF ClearedServerSsl, ServerTypeOK, ServerStates
  <2>3. NoServerSession \in ServerSessions
    BY DEF NoServerSession, ServerSessions, NoSid, Sids, SidKinds
  <2> QED BY <1>1, <2>1, <2>2, <2>3 DEF ServerNewConnection, ServerTypeOK
<1>2. CASE ServerForgetSession
  BY <1>2 DEF ServerForgetSession, ServerTypeOK
<1>3. CASE ServerRotateTicketKey
  BY <1>3 DEF ServerRotateTicketKey, ServerTypeOK
<1> QED BY <1>1, <1>2, <1>3

-----------------------------------------------------------------------------
(* The server's own inductive invariant.                                   *)

(* Where the write transition to each hand state that matters comes from.  *)
LEMMA WriteSources ==
  /\ ServerWriteTransition = "READ" =>
       \/ srv.hand \in {"OK", "BEFORE", "SW_SRVR_DONE"}
       \/ srv.hand = "SW_FINISHED" /\ srv.hit
  /\ ServerWriteTransition = "SW_HELLO_REQ" => srv.hand = "OK"
  /\ ServerWriteTransition = "SW_SRVR_HELLO" => srv.hand = "SR_CLNT_HELLO"
  /\ ServerWriteTransition = "SW_CERT" => srv.hand = "SW_SRVR_HELLO" /\ ~srv.hit
  /\ ServerWriteTransition = "SW_CERT_STATUS" => srv.hand = "SW_CERT"
  /\ ServerWriteTransition = "SW_KEY_EXCH" =>
       srv.hand \in {"SW_CERT", "SW_CERT_STATUS"}
  /\ ServerWriteTransition = "SW_CERT_REQ" => srv.hand = "SW_KEY_EXCH"
  /\ ServerWriteTransition = "SW_SRVR_DONE" =>
       srv.hand \in {"SW_KEY_EXCH", "SW_CERT_REQ"}
  /\ ServerWriteTransition = "SW_SESSION_TICKET" =>
       \/ srv.hand = "SW_SRVR_HELLO" /\ srv.hit
       \/ srv.hand = "SR_FINISHED" /\ ~srv.hit
  /\ ServerWriteTransition = "SW_CHANGE" =>
       \/ srv.hand = "SW_SRVR_HELLO" /\ srv.hit
       \/ srv.hand = "SR_FINISHED" /\ ~srv.hit
       \/ srv.hand = "SW_SESSION_TICKET"
  /\ ServerWriteTransition = "SW_FINISHED" => srv.hand = "SW_CHANGE"
  /\ ServerWriteTransition = "OK" =>
       \/ srv.hand = "SW_HELLO_REQ"
       \/ srv.hand = "SR_CLNT_HELLO" /\ ~ServerFirstHandshake
       \/ srv.hand = "SR_FINISHED" /\ srv.hit
       \/ srv.hand = "SW_FINISHED" /\ ~srv.hit
BY DEF ServerWriteTransition, AfterServerHello

(* Where the reads that matter come from.                                  *)
LEMMA ReadSources ==
  ASSUME NEW mt
  PROVE  /\ ServerReadTransition(mt) = "SR_CLNT_HELLO" =>
              srv.hand \in {"BEFORE", "OK"}
         /\ ServerReadTransition(mt) = "SR_CERT" => srv.hand = "SW_SRVR_DONE"
         /\ ServerReadTransition(mt) = "SR_KEY_EXCH" =>
              srv.hand \in {"SW_SRVR_DONE", "SR_CERT"}
         /\ ServerReadTransition(mt) = "SR_CERT_VRFY" => srv.hand = "SR_KEY_EXCH"
         /\ ServerReadTransition(mt) = "SR_CHANGE" =>
              \/ srv.hand = "SR_KEY_EXCH" /\ srvSess.peer = "none"
              \/ srv.hand \in {"SR_CERT_VRFY", "SW_FINISHED"}
         /\ ServerReadTransition(mt) = "SR_NEXT_PROTO" => srv.hand = "SR_CHANGE"
         /\ ServerReadTransition(mt) = "SR_FINISHED" =>
              srv.hand \in {"SR_CHANGE", "SR_NEXT_PROTO"}
BY DEF ServerReadTransition, CertVerifyExpected

(* A fatal error changes the flow and nothing else the invariant sees.     *)
LEMMA FatalInv ==
  ASSUME ServerTypeOK, ServerInv, ServerFatal
  PROVE  ServerInv'
BY DEF ServerFatal, ServerInv, Position, Progress, Keys, AfterClientFinished,
       ReadSwitched, WriteSwitched, ServerFirstHandshake, ServerTypeOK,
       ServerStates

(* Every step by which the server writes keeps the invariant.              *)
LEMMA WriteInv ==
  ASSUME ServerTypeOK, ServerInv, ServerWrite
  PROVE  ServerInv'
<1> USE WriteSources
    DEF ServerInv, Position, Progress, Keys, AfterClientFinished, ReadSwitched,
        WriteSwitched, ServerFirstHandshake, ServerTypeOK, ServerStates,
        ServerWriting
<1>1. CASE ServerTurnToRead
  <2>1. /\ srv'.flow = "READING" /\ srv'.hand = srv.hand /\ srv'.hit = srv.hit
        /\ srv'.finOk = srv.finOk /\ srv'.finRead = srv.finRead
        /\ srv'.finSent = srv.finSent /\ srv'.proved = srv.proved
        /\ srv'.rkey = srv.rkey /\ srv'.wkey = srv.wkey /\ srvSess' = srvSess
    BY <1>1 DEF ServerTurnToRead
  <2> QED BY <2>1
<1>2. CASE ServerSendHelloRequest
  BY <1>2 DEF ServerSendHelloRequest
<1>3. CASE ServerSendServerHello
  BY <1>3 DEF ServerSendServerHello, ServerSessions
<1>4. CASE ServerSendCertificate
  BY <1>4 DEF ServerSendCertificate
<1>5. CASE ServerSendCertStatus
  BY <1>5 DEF ServerSendCertStatus
<1>6. CASE ServerSendKeyExchange
  BY <1>6 DEF ServerSendKeyExchange
<1>7. CASE ServerSendCertificateRequest
  BY <1>7 DEF ServerSendCertificateRequest
<1>8. CASE ServerSendServerDone
  BY <1>8 DEF ServerSendServerDone
<1>9. CASE ServerSendSessionTicket
  BY <1>9 DEF ServerSendSessionTicket
<1>10. CASE ServerSendChangeCipherSpec
  <2>1. CASE srvSess.cipher \in {NoSuite, srv.newCipher} /\ srvSess.ms # 0
    <3>1. \/ srv.hand = "SW_SRVR_HELLO" /\ srv.hit
          \/ srv.hand = "SR_FINISHED" /\ ~srv.hit
          \/ srv.hand = "SW_SESSION_TICKET"
      BY <1>10 DEF ServerSendChangeCipherSpec
    <3>2. /\ srv'.hand = "SW_CHANGE" /\ srv'.flow = srv.flow
          /\ srv'.hit = srv.hit /\ srv'.finOk = srv.finOk
          /\ srv'.finRead = srv.finRead /\ srv'.finSent = srv.finSent
          /\ srv'.proved = srv.proved /\ srv'.rkey = srv.rkey
          /\ srv'.wkey = srvSess.ms
      BY <1>10, <2>1 DEF ServerSendChangeCipherSpec
    <3>3. srvSess'.ms = srvSess.ms /\ srvSess'.peer = srvSess.peer
      BY <1>10, <2>1 DEF ServerSendChangeCipherSpec, ServerSessions
    <3> QED BY <2>1, <3>1, <3>2, <3>3
  <2>2. CASE ServerFatal
    BY <2>2, FatalInv
  <2> QED BY <1>10, <2>1, <2>2 DEF ServerSendChangeCipherSpec
<1>11. CASE ServerSendFinished
  BY <1>11 DEF ServerSendFinished
<1>12. CASE ServerFinishHandshake
  BY <1>12 DEF ServerFinishHandshake
<1> QED BY <1>1, <1>2, <1>3, <1>4, <1>5, <1>6, <1>7, <1>8, <1>9, <1>10, <1>11, <1>12 DEF ServerWrite

(* Every step by which the server reads keeps it, too.                     *)
LEMMA ReadInv ==
  ASSUME ServerTypeOK, ServerInv, ServerRead
  PROVE  ServerInv'
<1> USE ReadSources
    DEF ServerInv, Position, Progress, Keys, AfterClientFinished, ReadSwitched,
        WriteSwitched, ServerFirstHandshake, ServerTypeOK, ServerStates,
        ServerReading, ServerSessions
<1>1. CASE ServerRejectRenegotiation
  BY <1>1 DEF ServerRejectRenegotiation
<1>2. CASE ServerResume
  <2>1. CASE ServerFatal
    BY <2>1, FatalInv
  <2>2. ASSUME NEW sess,
               srv' = ServerAfterClientHello(ServerInput, TRUE, sess.cipher,
                        TicketStatus(ServerInput) = "EMPTY")
        PROVE  ServerInv'
    BY <1>2, <2>2 DEF ServerResume, ServerAfterClientHello
  <2> QED BY <1>2, <2>1, <2>2 DEF ServerResume
<1>3. CASE ServerNewSession
  <2>1. CASE ServerFatal
    BY <2>1, FatalInv
  <2>2. ASSUME NEW c, NEW te, NEW sid,
               srv' = ServerAfterClientHello(ServerInput, FALSE, c, te),
               srvSess' = [NoServerSession EXCEPT !.sid = sid]
        PROVE  ServerInv'
    BY <1>3, <2>2 DEF ServerNewSession, ServerAfterClientHello, NoServerSession
  <2>3. CASE ~ServerFatal
    <3>1. PICK c :
            /\ srv' = ServerAfterClientHello(ServerInput, FALSE, c,
                        TicketStatus(ServerInput) \in {"EMPTY", "NO_DECRYPT"})
            /\ srvSess' = [NoServerSession EXCEPT !.sid =
                 IF TicketStatus(ServerInput) \in {"EMPTY", "NO_DECRYPT"}
                   THEN NoSid ELSE ServerSid(srvFresh)]
      BY <1>3, <2>3 DEF ServerNewSession
    <3> QED BY <2>2, <3>1
  <2> QED BY <2>1, <2>3
<1>4. CASE ServerReadCertificate
  <2>1. CASE ServerFatal
    BY <2>1, FatalInv
  <2>2. CASE ClientChainAccepted(ServerInput.chain)
    <3>1. srv.flow = "READING" /\ (srv.hand = "SW_SRVR_DONE")
      BY <1>4 DEF ServerReadCertificate
    <3>2. /\ srv'.hand = "SR_CERT" /\ srv'.flow = srv.flow
          /\ srv'.hit = srv.hit /\ srv'.finOk = srv.finOk
          /\ srv'.finRead = srv.finRead /\ srv'.finSent = srv.finSent
          /\ srv'.proved = FALSE /\ srv'.rkey = srv.rkey
          /\ srv'.wkey = srv.wkey
      BY ONLY <1>4, <2>2, ServerTypeOK
      DEF ServerReadCertificate, ServerTypeOK, ServerStates
    <3>3. srvSess'.ms = srvSess.ms /\ srvSess'.peer \in {"none", "good"}
      BY <1>4, <2>2 DEF ServerReadCertificate
    <3> QED BY <2>2, <3>1, <3>2, <3>3
  <2> QED BY <1>4, <2>1, <2>2 DEF ServerReadCertificate
<1>5. CASE ServerReadKeyExchange
  <2>1. CASE ServerFatal
    BY <2>1, FatalInv
  <2>2. CASE ServerInput.secret # 0 /\ (srvSess.peer # "none" => srv.buffer)
    <3>1. srv.flow = "READING" /\ (srv.hand \in {"SW_SRVR_DONE", "SR_CERT"})
      BY <1>5 DEF ServerReadKeyExchange
    <3>2. /\ srv'.hand = "SR_KEY_EXCH" /\ srv'.flow = srv.flow
          /\ srv'.hit = srv.hit /\ srv'.finOk = srv.finOk
          /\ srv'.finRead = srv.finRead /\ srv'.finSent = srv.finSent
          /\ srv'.proved = srv.proved /\ srv'.rkey = srv.rkey
          /\ srv'.wkey = srv.wkey
      BY ONLY <1>5, <2>2, ServerTypeOK
      DEF ServerReadKeyExchange, ServerTypeOK, ServerStates
    <3>3. srvSess'.ms = ServerInput.secret /\ srvSess'.peer = srvSess.peer
      BY <1>5, <2>2 DEF ServerReadKeyExchange
    <3> QED BY <2>2, <3>1, <3>2, <3>3
  <2> QED BY <1>5, <2>1, <2>2 DEF ServerReadKeyExchange
<1>6. CASE ServerReadCertVerify
  <2>1. CASE ServerFatal
    BY <2>1, FatalInv
  <2>2. CASE ServerInput.hs = srvHs /\ ServerInput.chain = srvSess.peer
    <3>1. srv.flow = "READING" /\ (srv.hand = "SR_KEY_EXCH")
      BY <1>6 DEF ServerReadCertVerify
    <3>2. /\ srv'.hand = "SR_CERT_VRFY" /\ srv'.flow = srv.flow
          /\ srv'.hit = srv.hit /\ srv'.finOk = srv.finOk
          /\ srv'.finRead = srv.finRead /\ srv'.finSent = srv.finSent
          /\ srv'.proved = TRUE /\ srv'.rkey = srv.rkey
          /\ srv'.wkey = srv.wkey
      BY ONLY <1>6, <2>2, ServerTypeOK
      DEF ServerReadCertVerify, ServerTypeOK, ServerStates
    <3>3. srvSess'.ms = srvSess.ms /\ srvSess'.peer = srvSess.peer
      BY <1>6, <2>2 DEF ServerReadCertVerify
    <3> QED BY <2>2, <3>1, <3>2, <3>3
  <2> QED BY <1>6, <2>1, <2>2 DEF ServerReadCertVerify
<1>7. CASE ServerReadChangeCipherSpec
  <2>1. CASE ServerFatal
    BY <2>1, FatalInv
  <2>2. CASE srv.newCipher # NoSuite /\ srvSess.ms # 0
    <3>1. srv.flow = "READING" /\ (\/ srv.hand = "SR_KEY_EXCH" /\ srvSess.peer = "none"
                                   \/ srv.hand \in {"SR_CERT_VRFY", "SW_FINISHED"})
      BY <1>7 DEF ServerReadChangeCipherSpec
    <3>2. /\ srv'.hand = "SR_CHANGE" /\ srv'.flow = srv.flow
          /\ srv'.hit = srv.hit /\ srv'.finOk = FALSE
          /\ srv'.finRead = srv.finRead /\ srv'.finSent = srv.finSent
          /\ srv'.proved = srv.proved /\ srv'.rkey = srvSess.ms
          /\ srv'.wkey = srv.wkey
      BY ONLY <1>7, <2>2, ServerTypeOK
      DEF ServerReadChangeCipherSpec, ServerTypeOK, ServerStates
    <3>3. srvSess'.ms = srvSess.ms /\ srvSess'.peer = srvSess.peer
      BY <1>7, <2>2 DEF ServerReadChangeCipherSpec
    <3> QED BY <2>2, <3>1, <3>2, <3>3
  <2> QED BY <1>7, <2>1, <2>2 DEF ServerReadChangeCipherSpec
<1>8. CASE ServerReadNextProto
  BY <1>8 DEF ServerReadNextProto
<1>9. CASE ServerReadFinished
  <2>1. CASE ServerFatal
    BY <2>1, FatalInv
  <2>2. CASE srv.ccs /\ ServerInput.secret = srvSess.ms /\ ServerInput.hs = srvHs
    <3>1. srv.flow = "READING" /\ (srv.hand \in {"SR_CHANGE", "SR_NEXT_PROTO"})
      BY <1>9 DEF ServerReadFinished
    <3>2. /\ srv'.hand = "SR_FINISHED" /\ srv'.flow = "WRITING"
          /\ srv'.hit = srv.hit /\ srv'.finOk = TRUE
          /\ srv'.finRead = TRUE /\ srv'.finSent = srv.finSent
          /\ srv'.proved = srv.proved /\ srv'.rkey = srv.rkey
          /\ srv'.wkey = srv.wkey
      <4>1. srv' = [srv EXCEPT !.hand = "SR_FINISHED", !.flow = "WRITING",
                               !.ccs = FALSE, !.cleanuphand = TRUE,
                               !.finRead = TRUE, !.finOk = TRUE]
        BY <1>9, <2>2 DEF ServerReadFinished
      <4> QED BY ONLY <4>1, ServerTypeOK DEF ServerTypeOK, ServerStates
    <3>3. srvSess'.ms = srvSess.ms /\ srvSess'.peer = srvSess.peer
      BY <1>9, <2>2 DEF ServerReadFinished
    <3> QED BY <2>2, <3>1, <3>2, <3>3
  <2> QED BY <1>9, <2>1, <2>2 DEF ServerReadFinished
<1>10. CASE ServerUnexpected \/ ServerReadNoRenegotiation
              \/ ServerStrayChangeCipherSpec
  BY <1>10, FatalInv DEF ServerUnexpected, ServerReadNoRenegotiation,
                         ServerStrayChangeCipherSpec
<1>11. CASE ServerReadAlert
  <2>1. CASE ServerFatal
    BY <2>1, FatalInv
  <2>2. CASE ~srv.ccs
    BY <1>11, <2>2 DEF ServerReadAlert
  <2> QED BY <1>11, <2>1, <2>2 DEF ServerReadAlert
<1>12. CASE ServerWake
  BY <1>12 DEF ServerWake
<1> QED BY <1>1, <1>2, <1>3, <1>4, <1>5, <1>6, <1>7, <1>8, <1>9, <1>10, <1>11,
           <1>12 DEF ServerRead

(* So do the steps that open a connection or a renegotiation, and a new    *)
(* connection.                                                             *)
LEMMA OpeningInv ==
  ASSUME ServerTypeOK, ServerInv,
         ServerAccept \/ ServerRenegotiate \/ ServerNewConnection
  PROVE  ServerInv'
<1> USE DEF ServerInv, Position, Progress, Keys, AfterClientFinished,
            ReadSwitched, WriteSwitched, ServerFirstHandshake
<1>1. CASE ServerAccept
  <2>1. /\ srv'.hand = "BEFORE" /\ srv'.flow = "WRITING" /\ ~srv'.hit
        /\ ~srv'.finOk /\ ~srv'.finRead /\ ~srv'.finSent
    BY <1>1 DEF ServerAccept, ClearedServerSsl, NewServerSsl
  <2>2. srvSess' = srvSess
    BY <1>1 DEF ServerAccept
  <2>3. srv.flow = "UNINITED"
    BY <1>1 DEF ServerAccept
  <2> QED BY <2>1, <2>2, <2>3
<1>2. CASE ServerRenegotiate
  BY <1>2 DEF ServerRenegotiate, ServerTypeOK, ServerStates
<1>3. CASE ServerNewConnection
  <2>1. /\ srv'.hand = "BEFORE" /\ srv'.flow = "UNINITED" /\ ~srv'.hit
        /\ ~srv'.finOk /\ ~srv'.finRead /\ ~srv'.finSent
    BY <1>3 DEF ServerNewConnection, ClearedServerSsl, NewServerSsl
  <2>2. srvSess'.peer = "none"
    BY <1>3 DEF ServerNewConnection, NoServerSession
  <2> QED BY <2>1, <2>2
<1> QED BY <1>1, <1>2, <1>3

-----------------------------------------------------------------------------
(* Client authentication and resumption: what vouches for a session.       *)

(* A session that names suite and peer is one the server may resume: where *)
(* it requires a client certificate, one has verified. An application that *)
(* reuses SSL objects with SSL_clear gives this up: SSL_clear keeps        *)
(* certreqs_sent, and with SSL_VERIFY_CLIENT_ONCE no request follows.      *)
Vouched(suite, peer) ==
  /\ ~srvCfg.reuse
  /\ srvCfg.verify = "require" \/ suite \in MutualSuites
  => peer = "good"

TicketVouched(t) == t = NoTicket \/ (t.ms # 0 /\ Vouched(t.suite, t.peer))

(* Everything a client could resume: the cache, and the tickets on the     *)
(* wire. (What the client itself holds depends on the client.)             *)
Resumables ==
  /\ \A c \in srvCache : c.ms # 0 /\ Vouched(c.cipher, c.peer)
  /\ \A i \in DOMAIN toClient : TicketVouched(toClient[i].ticket)
  /\ \A i \in DOMAIN toServer : TicketVouched(toServer[i].ticket)

(* The session names no other cipher than the negotiated one, and the      *)
(* verify mode is at least what the settings and the suite ask for.        *)
Negotiated ==
  /\ srvSess.cipher \in {NoSuite, srv.newCipher}
  /\ srv.flow = "UNINITED" => srv.hand = "BEFORE" /\ srvSess.cipher = NoSuite
  /\ srv.hit => srvSess.ms # 0
  /\ srvCfg.verify = "require" \/ srv.newCipher \in MutualSuites =>
       srv.verify = "require"

(* The client has proved itself, or will still be asked to, or has been    *)
(* asked and owes the answer.                                              *)
Asked ==
  /\ srv.hand = "BEFORE" => srvCfg.reuse \/ ~srv.certReqSent
  /\ \/ Vouched(srv.newCipher, srvSess.peer)
     \/ /\ ~srv.hit /\ ~srv.certReqSent /\ ~srv.finRead
        /\ srv.hand \in {"BEFORE", "SR_CLNT_HELLO", "SW_SRVR_HELLO", "SW_CERT",
                         "SW_CERT_STATUS", "SW_KEY_EXCH"}
     \/ /\ ~srv.hit /\ srv.certRequest
        /\ srv.hand \in {"SW_CERT_REQ", "SW_SRVR_DONE"}

SessionInv == Resumables /\ Negotiated /\ Asked

(* Records that only lose tickets, or gain a vouched one, stay vouched     *)
(* for, and so does a cache that only loses sessions.                      *)
LEMMA ResumablesKept ==
  ASSUME ServerTypeOK, WireTypeOK, Resumables,
         srvCfg' = srvCfg, srvCache' \subseteq srvCache,
         \/ toServer' = toServer
         \/ toServer # << >> /\ toServer' = Tail(toServer),
         NEW m, TicketVouched(m.ticket),
         toClient' \in {toClient, Append(toClient, m)}
  PROVE  Resumables'
<1> USE DEF TicketVouched, Vouched
<1>2. \A c \in srvCache' : c.ms # 0 /\ Vouched(c.cipher, c.peer)'
  BY DEF Resumables
<1>4. (\A i \in DOMAIN toClient : TicketVouched(toClient[i].ticket))'
  <2> SUFFICES ASSUME NEW i \in DOMAIN toClient'
               PROVE  TicketVouched(toClient[i].ticket)'
    OBVIOUS
  <2>1. \/ i \in DOMAIN toClient /\ toClient'[i] = toClient[i]
        \/ toClient'[i] = m
    BY DEF WireTypeOK
  <2> QED BY <2>1 DEF Resumables
<1>5. (\A i \in DOMAIN toServer : TicketVouched(toServer[i].ticket))'
  <2> SUFFICES ASSUME NEW i \in DOMAIN toServer'
               PROVE  TicketVouched(toServer[i].ticket)'
    OBVIOUS
  <2>1. PICK j \in DOMAIN toServer : toServer'[i] = toServer[j]
    <3>1. CASE toServer' = toServer
      BY <3>1
    <3>2. CASE toServer # << >> /\ toServer' = Tail(toServer)
      <4>1. i + 1 \in DOMAIN toServer /\ toServer'[i] = toServer[i + 1]
        BY <3>2 DEF WireTypeOK
      <4> QED BY <4>1
    <3> QED BY <3>1, <3>2
  <2> QED BY <2>1 DEF Resumables
<1> QED BY <1>2, <1>4, <1>5 DEF Resumables

(* A step that seals no ticket and caches no session.                      *)
PlainStep ==
  /\ srvCfg' = srvCfg
  /\ srvCache' \subseteq srvCache
  /\ \/ toServer' = toServer
     \/ toServer # << >> /\ toServer' = Tail(toServer)
  /\ \/ toClient' = toClient
     \/ \E m : m.ticket = NoTicket /\ toClient' = Append(toClient, m)

(* A message as Message makes it carries no ticket.                        *)
LEMMA PlainMessage ==
  ASSUME NEW t, NEW k
  PROVE  Message(t, k).ticket = NoTicket
BY DEF Message

(* A fatal error sends an alert and at most drops a session.               *)
LEMMA FatalPlain ==
  ASSUME ServerFatal
  PROVE  /\ srvCfg' = srvCfg /\ srvCache' \subseteq srvCache
         /\ \E m : m.ticket = NoTicket /\ toClient' = Append(toClient, m)
<1>1. Message("FATAL_ALERT", srv.wkey).ticket = NoTicket
  BY PlainMessage
<1> QED BY <1>1 DEF ServerFatal, ServerDropSession

(* All steps of the server but two are plain: the exceptions are           *)
(* construct_stateless_ticket_ntls and ssl_update_cache.                   *)
LEMMA ServerPlain ==
  ASSUME ServerStep, ~ServerSendSessionTicket, ~ServerFinishHandshake
  PROVE  PlainStep
<1> USE PlainMessage, FatalPlain
    DEF PlainStep, ServerConsume, ServerEmit, ServerReading, wireVars
<1>1. CASE ServerAccept \/ ServerTurnToRead \/ ServerRenegotiate \/ ServerWake
  BY <1>1 DEF ServerAccept, ServerTurnToRead, ServerRenegotiate, ServerWake
<1>2. CASE ServerSendHelloRequest
  BY <1>2 DEF ServerSendHelloRequest
<1>3. CASE ServerSendServerHello
  <2> DEFINE m == [Message("SERVER_HELLO", srv.wkey) EXCEPT
             !.suite = srv.newCipher,
             !.sid = IF ~srvCfg.cache /\ ~srv.hit THEN NoSid ELSE srvSess.sid,
             !.ext = (IF AnnouncesTicket THEN {"ticket"} ELSE {})
                \cup (IF srv.statusExpected THEN {"status"} ELSE {})
                \cup (IF srv.npnSeen THEN {"npn"} ELSE {})]
  <2>1. m.ticket = NoTicket
    BY DEF Message
  <2>2. /\ toClient' = Append(toClient, m) /\ toServer' = toServer
        /\ srvCfg' = srvCfg /\ srvCache' = srvCache
    BY <1>3 DEF ServerSendServerHello
  <2> HIDE DEF m
  <2> QED BY <2>1, <2>2
<1>4. CASE ServerSendCertificate
  <2> DEFINE m == [Message("CERTIFICATE", srv.wkey) EXCEPT !.chain = srvCfg.chain]
  <2>1. m.ticket = NoTicket
    BY DEF Message
  <2>2. /\ toClient' = Append(toClient, m) /\ toServer' = toServer
        /\ srvCfg' = srvCfg /\ srvCache' = srvCache
    BY <1>4 DEF ServerSendCertificate
  <2> HIDE DEF m
  <2> QED BY <2>1, <2>2
<1>5. CASE ServerSendCertStatus
  BY <1>5 DEF ServerSendCertStatus
<1>6. CASE ServerSendKeyExchange
  <2> DEFINE m == [Message("SERVER_KEY_EXCHANGE", srv.wkey) EXCEPT
                       !.chain = srvCfg.chain]
  <2>1. m.ticket = NoTicket
    BY DEF Message
  <2>2. /\ toClient' = Append(toClient, m) /\ toServer' = toServer
        /\ srvCfg' = srvCfg /\ srvCache' = srvCache
    BY <1>6 DEF ServerSendKeyExchange
  <2> HIDE DEF m
  <2> QED BY <2>1, <2>2
<1>7. CASE ServerSendCertificateRequest
  BY <1>7 DEF ServerSendCertificateRequest
<1>8. CASE ServerSendServerDone
  BY <1>8 DEF ServerSendServerDone
<1>9. CASE ServerSendChangeCipherSpec
  BY <1>9 DEF ServerSendChangeCipherSpec
<1>10. CASE ServerSendFinished
  <2> DEFINE m == [Message("FINISHED", srv.wkey) EXCEPT !.secret = srvSess.ms,
                                                      !.hs = srvHs]
  <2>1. m.ticket = NoTicket
    BY DEF Message
  <2>2. /\ toClient' = Append(toClient, m) /\ toServer' = toServer
        /\ srvCfg' = srvCfg /\ srvCache' = srvCache
    BY <1>10 DEF ServerSendFinished
  <2> HIDE DEF m
  <2> QED BY <2>1, <2>2
<1>11. CASE ServerRejectRenegotiation
  BY <1>11 DEF ServerRejectRenegotiation
<1>12. CASE ServerResume
  BY <1>12 DEF ServerResume
<1>13. CASE ServerNewSession
  BY <1>13 DEF ServerNewSession
<1>14. CASE ServerReadCertificate
  BY <1>14 DEF ServerReadCertificate
<1>15. CASE ServerReadKeyExchange
  BY <1>15 DEF ServerReadKeyExchange
<1>16. CASE ServerReadCertVerify
  BY <1>16 DEF ServerReadCertVerify
<1>17. CASE ServerReadChangeCipherSpec
  BY <1>17 DEF ServerReadChangeCipherSpec
<1>18. CASE ServerReadNextProto
  BY <1>18 DEF ServerReadNextProto
<1>19. CASE ServerReadFinished
  BY <1>19 DEF ServerReadFinished
<1>20. CASE ServerUnexpected \/ ServerReadNoRenegotiation
              \/ ServerStrayChangeCipherSpec
  BY <1>20 DEF ServerUnexpected, ServerReadNoRenegotiation,
               ServerStrayChangeCipherSpec
<1>21. CASE ServerReadAlert
  BY <1>21 DEF ServerReadAlert, ServerDropSession
<1> QED BY <1>1, <1>2, <1>3, <1>4, <1>5, <1>6, <1>7, <1>8, <1>9, <1>10, <1>11,
           <1>12, <1>13, <1>14, <1>15, <1>16, <1>17, <1>18, <1>19, <1>20, <1>21
        DEF ServerStep, ServerWrite, ServerRead

(* What the server seals in a ticket or puts in its cache is vouched for.  *)
LEMMA KeptSessionVouched ==
  ASSUME ServerTypeOK, ServerInv, Negotiated, Asked,
         ~srv.hit => AfterClientFinished,
         srv.hit => srv.hand = "SW_SRVR_HELLO"
  PROVE  srvSess.ms # 0 /\ Vouched(srvSess.cipher, srvSess.peer)
<1>1. srvSess.ms # 0
  BY DEF ServerInv, Keys, ReadSwitched, Negotiated
<1>2. Vouched(srv.newCipher, srvSess.peer)
  <2>1. CASE srv.hit
    BY <2>1 DEF Asked
  <2>2. CASE ~srv.hit
    <3>1. srv.finOk /\ srv.finRead
      BY <2>2 DEF ServerInv, Progress
    <3>2. srv.hand \in {"SR_FINISHED", "OK", "SW_HELLO_REQ", "SR_CLNT_HELLO",
                       "SW_SESSION_TICKET", "SW_CHANGE", "SW_FINISHED"}
      BY <2>2 DEF AfterClientFinished
    <3> QED BY <2>2, <3>1, <3>2 DEF Asked
  <2> QED BY <2>1, <2>2
<1>3. NoSuite \notin MutualSuites
  BY SuitesAssumption
<1> QED BY <1>1, <1>2, <1>3 DEF Vouched, Negotiated

(* No step of the server changes the application's settings.               *)
LEMMA ServerKeepsSettings ==
  ASSUME ServerStep
  PROVE  srvCfg' = srvCfg
BY DEF ServerStep, ServerAccept, ServerWrite, ServerRead, ServerRenegotiate,
       ServerTurnToRead, ServerSendHelloRequest, ServerSendServerHello,
       ServerSendCertificate, ServerSendCertStatus, ServerSendKeyExchange,
       ServerSendCertificateRequest, ServerSendServerDone,
       ServerSendSessionTicket, ServerSendChangeCipherSpec,
       ServerSendFinished, ServerFinishHandshake, ServerRejectRenegotiation,
       ServerResume, ServerNewSession, ServerReadCertificate,
       ServerReadKeyExchange, ServerReadCertVerify,
       ServerReadChangeCipherSpec, ServerReadNextProto, ServerReadFinished,
       ServerUnexpected, ServerReadAlert, ServerReadNoRenegotiation,
       ServerWake, ServerStrayChangeCipherSpec, ServerFatal

(* Every step of the server keeps what can be resumed vouched for.         *)
LEMMA StepResumables ==
  ASSUME ServerTypeOK, WireTypeOK, ServerInv, SessionInv, ServerStep
  PROVE  Resumables'
<1>1. CASE ~ServerSendSessionTicket /\ ~ServerFinishHandshake
  <2>1. PlainStep
    BY <1>1, ServerPlain
  <2>2. CASE toClient' = toClient
    <3> DEFINE m == Message("FATAL_ALERT", 0)
    <3>1. TicketVouched(m.ticket)
      BY PlainMessage DEF TicketVouched
    <3> HIDE DEF m
    <3> QED BY <2>1, <2>2, <3>1, ResumablesKept DEF PlainStep, SessionInv
  <2>3. ASSUME NEW m, m.ticket = NoTicket, toClient' = Append(toClient, m)
        PROVE  Resumables'
    <3>1. TicketVouched(m.ticket)
      BY <2>3 DEF TicketVouched
    <3> QED BY <2>1, <2>3, <3>1, ResumablesKept DEF PlainStep, SessionInv
  <2> QED BY <2>1, <2>2, <2>3 DEF PlainStep
<1>2. CASE ServerSendSessionTicket
  <2> DEFINE t == [ n |-> srvFresh, key |-> srvTicketKey,
                    suite |-> srvSess.cipher, ms |-> srvSess.ms,
                    peer |-> srvSess.peer ]
             m == [Message("NEWSESSION_TICKET", srv.wkey) EXCEPT !.ticket = t]
  <2>1. \/ srv.hand = "SW_SRVR_HELLO" /\ srv.hit
        \/ srv.hand = "SR_FINISHED" /\ ~srv.hit
    BY <1>2, WriteSources DEF ServerSendSessionTicket, ServerWriting
  <2>2. srvSess.ms # 0 /\ Vouched(srvSess.cipher, srvSess.peer)
    BY <2>1, KeptSessionVouched DEF SessionInv, AfterClientFinished
  <2>3. m.ticket = t /\ TicketVouched(t)
    BY <2>2 DEF Message, TicketVouched
  <2>4. toClient' = Append(toClient, m) /\ toServer' = toServer
    BY <1>2 DEF ServerSendSessionTicket, ServerEmit
  <2>5. srvCfg' = srvCfg /\ srvCache' = srvCache
    BY <1>2 DEF ServerSendSessionTicket
  <2> HIDE DEF t, m
  <2> QED BY <2>3, <2>4, <2>5, ResumablesKept DEF SessionInv
<1>3. CASE ServerFinishHandshake
  <2>1. UNCHANGED <<srvCfg, toClient, toServer>>
    BY <1>3 DEF ServerFinishHandshake, wireVars
  <2>2. ASSUME ServerCaches
        PROVE  srvSess.ms # 0 /\ Vouched(srvSess.cipher, srvSess.peer)
    <3>1. ~srv.hit
      BY <2>2 DEF ServerCaches
    <3>2. AfterClientFinished
      BY <1>3, <3>1, WriteSources
      DEF ServerFinishHandshake, ServerWriting, AfterClientFinished
    <3> QED BY <3>1, <3>2, KeptSessionVouched DEF SessionInv
  <2>3. \/ srvCache' = srvCache
        \/ srvCache' = srvCache \cup {srvSess} /\ ServerCaches
    BY <1>3 DEF ServerFinishHandshake
  <2>4. \A c \in srvCache' : c.ms # 0 /\ Vouched(c.cipher, c.peer)
    BY <2>2, <2>3 DEF SessionInv, Resumables
  <2> QED BY <2>1, <2>4 DEF SessionInv, Resumables, TicketVouched, Vouched
<1> QED BY <1>1, <1>2, <1>3

(* A fatal error leaves the session and the request where they were.       *)
LEMMA FatalAsked ==
  ASSUME ServerTypeOK, Negotiated, Asked, ServerFatal
  PROVE  Negotiated' /\ Asked'
BY DEF ServerFatal, Negotiated, Asked, Vouched, ServerTypeOK, ServerStates

(* Writing: the CertificateRequest is not passed by.                       *)
LEMMA WriteAsked ==
  ASSUME ServerTypeOK, ServerInv, Negotiated, Asked, ServerWrite
  PROVE  Negotiated' /\ Asked'
<1> USE WriteSources
    DEF Negotiated, Asked, Vouched, ServerTypeOK, ServerStates, ServerWriting
<1>1. CASE ServerTurnToRead
  <2>1. /\ srv'.flow = "READING" /\ srv'.hand = srv.hand /\ srv'.hit = srv.hit
        /\ srv'.certReqSent = srv.certReqSent /\ srv'.finRead = srv.finRead
        /\ srv'.newCipher = srv.newCipher /\ srv'.verify = srv.verify
        /\ srvSess' = srvSess /\ srvCfg' = srvCfg
    BY <1>1 DEF ServerTurnToRead
  <2>2. srv.hand = "SW_SRVR_DONE" => srv'.certRequest = srv.certRequest
    BY <1>1 DEF ServerTurnToRead
  <2>3. srv.hand \in {"OK", "BEFORE", "SW_SRVR_DONE", "SW_FINISHED"}
    BY <1>1 DEF ServerTurnToRead
  <2> QED BY <2>1, <2>2, <2>3
<1>2. CASE ServerSendHelloRequest
  BY <1>2 DEF ServerSendHelloRequest
<1>3. CASE ServerSendServerHello
  BY <1>3 DEF ServerSendServerHello, ServerSessions
<1>4. CASE ServerSendCertificate
  BY <1>4 DEF ServerSendCertificate
<1>5. CASE ServerSendCertStatus
  BY <1>5 DEF ServerSendCertStatus
<1>6. CASE ServerSendKeyExchange
  BY <1>6 DEF ServerSendKeyExchange
<1>7. CASE ServerSendCertificateRequest
  BY <1>7 DEF ServerSendCertificateRequest
<1>8. CASE ServerSendServerDone
  <2>1. \/ srv.hand = "SW_KEY_EXCH" /\ ~SendCertificateRequest
        \/ srv.hand = "SW_CERT_REQ"
    BY <1>8 DEF ServerSendServerDone, ServerWriteTransition, AfterServerHello
  <2>2. /\ srv'.flow = srv.flow /\ srv'.hand = "SW_SRVR_DONE"
        /\ srv'.hit = srv.hit /\ srv'.certRequest = srv.certRequest
        /\ srv'.newCipher = srv.newCipher /\ srv'.verify = srv.verify
        /\ srvSess' = srvSess /\ srvCfg' = srvCfg
    BY <1>8 DEF ServerSendServerDone
  <2>3. CASE srv.hand = "SW_CERT_REQ"
    <3>1. Vouched(srv.newCipher, srvSess.peer) \/ (~srv.hit /\ srv.certRequest)
      BY <2>3
    <3> QED BY <1>8, <2>2, <3>1 DEF ServerSendServerDone
  <2>4. CASE srv.hand = "SW_KEY_EXCH" /\ ~SendCertificateRequest
    <3>1. Vouched(srv.newCipher, srvSess.peer) \/ ~srv.certReqSent
      BY <2>4
    <3>2. Vouched(srv.newCipher, srvSess.peer)
      BY <2>4, <3>1 DEF SendCertificateRequest
    <3> QED BY <1>8, <2>2, <3>2 DEF ServerSendServerDone
  <2> QED BY <2>1, <2>3, <2>4
<1>9. CASE ServerSendSessionTicket
  BY <1>9 DEF ServerSendSessionTicket
<1>10. CASE ServerSendChangeCipherSpec
  <2>1. CASE ServerFatal
    BY <2>1, FatalAsked
  <2>2. CASE srvSess.cipher \in {NoSuite, srv.newCipher} /\ srvSess.ms # 0
    <3>1. \/ srv.hand = "SW_SRVR_HELLO" /\ srv.hit
          \/ srv.hand = "SR_FINISHED" /\ ~srv.hit
          \/ srv.hand = "SW_SESSION_TICKET"
      BY <1>10 DEF ServerSendChangeCipherSpec
    <3>2. /\ srv'.hand = "SW_CHANGE" /\ srv'.flow = srv.flow
          /\ srv'.hit = srv.hit /\ srv'.newCipher = srv.newCipher
          /\ srv'.verify = srv.verify /\ srvCfg' = srvCfg
          /\ srvSess'.ms = srvSess.ms /\ srvSess'.peer = srvSess.peer
          /\ srvSess'.cipher = srv.newCipher
      BY <1>10, <2>2 DEF ServerSendChangeCipherSpec, ServerSessions
    <3> QED BY <1>10, <3>1, <3>2 DEF ServerSendChangeCipherSpec
  <2> QED BY <1>10, <2>1, <2>2 DEF ServerSendChangeCipherSpec
<1>11. CASE ServerSendFinished
  BY <1>11 DEF ServerSendFinished
<1>12. CASE ServerFinishHandshake
  BY <1>12 DEF ServerFinishHandshake, ServerInv, Progress, AfterClientFinished,
               ServerFirstHandshake
<1> QED BY <1>1, <1>2, <1>3, <1>4, <1>5, <1>6, <1>7, <1>8, <1>9, <1>10, <1>11,
           <1>12 DEF ServerWrite

(* The session that ssl_get_prev_session finds is vouched for.             *)
LEMMA PrevSessionVouched ==
  ASSUME ServerTypeOK, WireTypeOK, Resumables, toServer # << >>,
         NEW sess \in PrevSessions(ServerInput)
  PROVE  sess.ms # 0 /\ Vouched(sess.cipher, sess.peer)
<1>1. TicketVouched(ServerInput.ticket)
  <2>1. 1 \in DOMAIN toServer /\ ServerInput = toServer[1]
    BY DEF WireTypeOK, ServerInput
  <2> QED BY <2>1 DEF Resumables
<1>2. CASE TicketStatus(ServerInput) = "SUCCESS"
  <2>1. ServerInput.ticket # NoTicket
    BY <1>2 DEF TicketStatus
  <2>2. /\ sess.ms = ServerInput.ticket.ms
        /\ sess.cipher = ServerInput.ticket.suite
        /\ sess.peer = ServerInput.ticket.peer
    BY <1>2 DEF PrevSessions
  <2> QED BY <1>1, <2>1, <2>2 DEF TicketVouched
<1>3. CASE TicketStatus(ServerInput) # "SUCCESS"
  <2>1. sess \in srvCache
    BY <1>3 DEF PrevSessions
  <2> QED BY <2>1 DEF Resumables
<1> QED BY <1>2, <1>3

(* A ClientHello that opens a session, new or resumed, comes to a server   *)
(* that has not begun a handshake.                                         *)
LEMMA HelloBefore ==
  ASSUME ServerTypeOK, ServerInv, ServerReading("SR_CLNT_HELLO"),
         ServerFirstHandshake
  PROVE  srv.hand = "BEFORE"
BY ReadSources DEF ServerReading, ServerInv, Progress, AfterClientFinished,
   WriteSwitched, ServerFirstHandshake

(* Reading: an empty Certificate is refused where one is required, and     *)
(* what is resumed is vouched for.                                         *)
LEMMA ReadAsked ==
  ASSUME ServerTypeOK, WireTypeOK, ServerInv, SessionInv, ServerRead
  PROVE  Negotiated' /\ Asked'
<1> USE ReadSources
    DEF SessionInv, Negotiated, Asked, Vouched, ServerTypeOK, ServerStates,
        ServerReading
<1>0. ServerFatal => Negotiated' /\ Asked'
  BY FatalAsked
<1>1. CASE ServerRejectRenegotiation
  <2>1. srv.hand = "OK"
    BY <1>1 DEF ServerRejectRenegotiation, ServerFirstHandshake, ServerInv,
                Progress
  <2> QED BY <1>1, <2>1 DEF ServerRejectRenegotiation
<1>2. CASE ServerResume
  <2>1. PICK sess \in PrevSessions(ServerInput) :
          \/ ServerFatal
          \/ /\ srv' = ServerAfterClientHello(ServerInput, TRUE, sess.cipher,
                          TicketStatus(ServerInput) = "EMPTY")
             /\ srvSess' = sess
             /\ srvCfg' = srvCfg
    BY <1>2 DEF ServerResume
  <2>2. sess.ms # 0 /\ Vouched(sess.cipher, sess.peer)
    BY <1>2, PrevSessionVouched DEF ServerResume
  <2>3. CASE ~ServerFatal
    <3>1. /\ srv'.hand = "SR_CLNT_HELLO" /\ srv'.flow = "WRITING"
          /\ srv'.newCipher = sess.cipher
          /\ srv'.verify = IF sess.cipher \in MutualSuites THEN "require"
                                                           ELSE srv.verify
      <4> DEFINE te == TicketStatus(ServerInput) = "EMPTY"
      <4>1. srv' = ServerAfterClientHello(ServerInput, TRUE, sess.cipher, te)
        BY <2>1, <2>3
      <4> HIDE DEF te
      <4> QED BY ONLY <4>1, ServerTypeOK
              DEF ServerAfterClientHello, ServerTypeOK, ServerStates
    <3>2. srvSess' = sess /\ srvCfg' = srvCfg
      BY <2>1, <2>3
    <3> QED BY <2>2, <3>1, <3>2
  <2> QED BY <1>0, <2>3
<1>3. CASE ServerNewSession
  <2> DEFINE te == TicketStatus(ServerInput) \in {"EMPTY", "NO_DECRYPT"}
             sid == IF te THEN NoSid ELSE ServerSid(srvFresh)
  <2>1. \/ ServerFatal
        \/ \E c \in ServerInput.suites \cap srvCfg.suites :
             /\ srv' = ServerAfterClientHello(ServerInput, FALSE, c, te)
             /\ srvSess' = [NoServerSession EXCEPT !.sid = sid]
             /\ srvCfg' = srvCfg
    BY <1>3 DEF ServerNewSession
  <2> HIDE DEF te, sid
  <2>2. CASE ~ServerFatal
    <3>1. PICK c \in ServerInput.suites \cap srvCfg.suites :
             /\ srv' = ServerAfterClientHello(ServerInput, FALSE, c, te)
             /\ srvSess' = [NoServerSession EXCEPT !.sid = sid]
             /\ srvCfg' = srvCfg
      BY <2>1, <2>2
    <3>2. /\ srv'.hand = "SR_CLNT_HELLO" /\ srv'.flow = "WRITING"
          /\ ~srv'.hit /\ srv'.newCipher = c
          /\ srv'.verify = IF c \in MutualSuites THEN "require" ELSE srv.verify
          /\ srv'.certReqSent = srv.certReqSent /\ srv'.finRead = srv.finRead
      BY ONLY <3>1, ServerTypeOK
      DEF ServerAfterClientHello, ServerTypeOK, ServerStates
    <3>3. srvSess'.cipher = NoSuite
      BY <3>1 DEF NoServerSession
    <3>4. srv.hand = "BEFORE" /\ ~srv.finRead
      BY <1>3, HelloBefore DEF ServerNewSession, ServerInv, Progress
    <3>5. srvCfg.reuse \/ ~srv.certReqSent
      BY <3>4
    <3> QED BY <3>1, <3>2, <3>3, <3>4, <3>5
  <2> QED BY <1>0, <2>2
<1>4. CASE ServerReadCertificate
  <2>1. CASE ClientChainAccepted(ServerInput.chain)
    <3>1. /\ srv'.hand = "SR_CERT" /\ srv'.flow = srv.flow
          /\ srv'.hit = srv.hit /\ srv'.newCipher = srv.newCipher
          /\ srv'.verify = srv.verify
      BY ONLY <1>4, <2>1, ServerTypeOK
      DEF ServerReadCertificate, ServerTypeOK, ServerStates
    <3>2. /\ srvSess'.ms = srvSess.ms /\ srvSess'.cipher = srvSess.cipher
          /\ srvSess'.peer = IF ServerInput.chain = "empty" THEN "none"
                                                           ELSE "good"
          /\ srvCfg' = srvCfg
      BY <1>4, <2>1 DEF ServerReadCertificate, ServerSessions
    <3>3. srv.flow = "READING"
      BY <1>4 DEF ServerReadCertificate
    <3> QED BY <2>1, <3>1, <3>2, <3>3 DEF ClientChainAccepted
  <2> QED BY <1>0, <1>4, <2>1 DEF ServerReadCertificate
<1>5. CASE ServerReadKeyExchange
  <2>1. CASE ServerInput.secret # 0 /\ (srvSess.peer # "none" => srv.buffer)
    <3>1. /\ srv'.hand = "SR_KEY_EXCH" /\ srv'.flow = srv.flow
          /\ srv'.hit = srv.hit /\ srv'.newCipher = srv.newCipher
          /\ srv'.verify = srv.verify
      BY ONLY <1>5, <2>1, ServerTypeOK
      DEF ServerReadKeyExchange, ServerTypeOK, ServerStates
    <3>2. /\ srvSess'.ms = ServerInput.secret /\ srvSess'.peer = srvSess.peer
          /\ srvSess'.cipher = srvSess.cipher /\ srvCfg' = srvCfg
      BY <1>5, <2>1 DEF ServerReadKeyExchange, ServerSessions
    <3>3. srv.flow = "READING"
      BY <1>5 DEF ServerReadKeyExchange
    <3>4. \/ srv.hand = "SR_CERT"
          \/ srv.hand = "SW_SRVR_DONE" /\ ~srv.certRequest
      BY <1>5 DEF ServerReadKeyExchange, ServerReadTransition,
                  CertVerifyExpected
    <3>5. Vouched(srv.newCipher, srvSess.peer)
      BY <3>4
    <3> QED BY <2>1, <3>1, <3>2, <3>3, <3>5
  <2> QED BY <1>0, <1>5, <2>1 DEF ServerReadKeyExchange
<1>6. CASE ServerReadCertVerify
  <2>1. CASE ServerInput.hs = srvHs /\ ServerInput.chain = srvSess.peer
    <3>1. /\ srv'.hand = "SR_CERT_VRFY" /\ srv'.flow = srv.flow
          /\ srv'.hit = srv.hit /\ srv'.newCipher = srv.newCipher
          /\ srv'.verify = srv.verify
      BY ONLY <1>6, <2>1, ServerTypeOK
      DEF ServerReadCertVerify, ServerTypeOK, ServerStates
    <3>2. srvSess' = srvSess /\ srvCfg' = srvCfg
      BY <1>6, <2>1 DEF ServerReadCertVerify
    <3>3. srv.hand = "SR_KEY_EXCH" /\ srv.flow = "READING"
      BY <1>6 DEF ServerReadCertVerify
    <3> QED BY <3>1, <3>2, <3>3
  <2> QED BY <1>0, <1>6, <2>1 DEF ServerReadCertVerify
<1>7. CASE ServerReadChangeCipherSpec
  <2>1. CASE srv.newCipher # NoSuite /\ srvSess.ms # 0
    <3>1. /\ srv'.hand = "SR_CHANGE" /\ srv'.flow = srv.flow
          /\ srv'.hit = srv.hit /\ srv'.newCipher = srv.newCipher
          /\ srv'.verify = srv.verify
      BY ONLY <1>7, <2>1, ServerTypeOK
      DEF ServerReadChangeCipherSpec, ServerTypeOK, ServerStates
    <3>2. /\ srvSess'.ms = srvSess.ms /\ srvSess'.peer = srvSess.peer
          /\ srvSess'.cipher = srv.newCipher /\ srvCfg' = srvCfg
      BY <1>7, <2>1 DEF ServerReadChangeCipherSpec, ServerSessions
    <3>3. srv.hand \in {"SR_KEY_EXCH", "SR_CERT_VRFY", "SW_FINISHED"}
            /\ srv.flow = "READING"
      BY <1>7 DEF ServerReadChangeCipherSpec
    <3> QED BY <3>1, <3>2, <3>3
  <2> QED BY <1>0, <1>7, <2>1 DEF ServerReadChangeCipherSpec
<1>8. CASE ServerReadNextProto
  BY <1>8 DEF ServerReadNextProto
<1>9. CASE ServerReadFinished
  <2>1. CASE srv.ccs /\ ServerInput.secret = srvSess.ms /\ ServerInput.hs = srvHs
    <3>1. /\ srv'.hand = "SR_FINISHED" /\ srv'.flow = "WRITING"
          /\ srv'.hit = srv.hit /\ srv'.newCipher = srv.newCipher
          /\ srv'.verify = srv.verify
      <4>1. srv' = [srv EXCEPT !.hand = "SR_FINISHED", !.flow = "WRITING",
                               !.ccs = FALSE, !.cleanuphand = TRUE,
                               !.finRead = TRUE, !.finOk = TRUE]
        BY <1>9, <2>1 DEF ServerReadFinished
      <4> QED BY ONLY <4>1, ServerTypeOK DEF ServerTypeOK, ServerStates
    <3>2. srvSess' = srvSess /\ srvCfg' = srvCfg
      BY <1>9, <2>1 DEF ServerReadFinished
    <3>3. srv.hand \in {"SR_CHANGE", "SR_NEXT_PROTO"}
      BY <1>9 DEF ServerReadFinished
    <3> QED BY <3>1, <3>2, <3>3
  <2> QED BY <1>0, <1>9, <2>1 DEF ServerReadFinished
<1>10. CASE ServerUnexpected \/ ServerReadNoRenegotiation
              \/ ServerStrayChangeCipherSpec
  BY <1>0, <1>10 DEF ServerUnexpected, ServerReadNoRenegotiation,
                     ServerStrayChangeCipherSpec
<1>11. CASE ServerReadAlert
  <2>1. CASE ~srv.ccs
    BY <1>11, <2>1 DEF ServerReadAlert
  <2> QED BY <1>0, <1>11, <2>1 DEF ServerReadAlert
<1>12. CASE ServerWake
  BY <1>12 DEF ServerWake
<1> QED BY <1>1, <1>2, <1>3, <1>4, <1>5, <1>6, <1>7, <1>8, <1>9, <1>10, <1>11,
           <1>12 DEF ServerRead

(* Opening a connection or a renegotiation, and a new connection.          *)
LEMMA OpeningAsked ==
  ASSUME ServerTypeOK, ServerInv, Negotiated, Asked,
         ServerAccept \/ ServerRenegotiate \/ ServerNewConnection
  PROVE  Negotiated' /\ Asked'
<1> USE DEF Negotiated, Asked, Vouched
<1>1. NoSuite \notin MutualSuites
  BY SuitesAssumption
<1>2. CASE ServerAccept
  <2>1. /\ srv'.hand = "BEFORE" /\ srv'.flow = "WRITING" /\ ~srv'.hit
        /\ ~srv'.finRead /\ srv'.newCipher = NoSuite
        /\ srv'.verify = srv.verify /\ srv'.certReqSent = srv.certReqSent
    BY <1>2 DEF ServerAccept, ClearedServerSsl, NewServerSsl
  <2>2. srvSess' = srvSess /\ srvCfg' = srvCfg /\ srv.flow = "UNINITED"
    BY <1>2 DEF ServerAccept
  <2> QED BY <1>1, <2>1, <2>2
<1>3. CASE ServerRenegotiate
  <2>1. /\ srv'.hand = srv.hand /\ srv'.flow = "WRITING" /\ srv'.hit = srv.hit
        /\ srv'.newCipher = srv.newCipher /\ srv'.verify = srv.verify
        /\ srvSess' = srvSess /\ srvCfg' = srvCfg
    BY <1>3 DEF ServerRenegotiate, ServerTypeOK, ServerStates
  <2>2. srv.hand = "OK"
    BY <1>3 DEF ServerRenegotiate, ServerInv, Position
  <2> QED BY <2>1, <2>2
<1>4. CASE ServerNewConnection
  <2>1. /\ srv'.hand = "BEFORE" /\ srv'.flow = "UNINITED" /\ ~srv'.hit
        /\ ~srv'.finRead /\ srv'.newCipher = NoSuite
        /\ srv'.verify \in {srv.verify, srvCfg.verify}
    BY <1>4 DEF ServerNewConnection, ClearedServerSsl, NewServerSsl
  <2>2. srvCfg.reuse \/ ~srv'.certReqSent
    BY <1>4 DEF ServerNewConnection, NewServerSsl
  <2>3. srvSess'.cipher = NoSuite /\ srvCfg' = srvCfg
    BY <1>4 DEF ServerNewConnection, NoServerSession
  <2> QED BY <1>1, <2>1, <2>2, <2>3
<1> QED BY <1>2, <1>3, <1>4

-----------------------------------------------------------------------------
(* The client: types.                                                      *)

(* What the client sends under its write key is a message.                 *)
LEMMA ClientSentType ==
  ASSUME ClientTypeOK,
         NEW t \in ClientHandshakeTypes \cup AlertTypes \cup {"CHANGE_CIPHER_SPEC"}
  PROVE  Message(t, cli.wkey) \in Messages
<1>1. cli.wkey \in Nat
  BY DEF ClientTypeOK, ClientStates
<1>2. t \in MessageTypes
  BY DEF MessageTypes, HandshakeTypes
<1> QED BY <1>1, <1>2, MessageType

(* What the client reads is a message, and what remains is well typed.     *)
LEMMA ClientInputType ==
  ASSUME ClientTypeOK, WireTypeOK, toClient # << >>
  PROVE  /\ ClientInput \in Messages
         /\ ClientConsume => /\ toClient' \in Seq(Messages)
                             /\ cliHs' \in Seq(HandshakeTypes)
<1>1. ClientInput \in Messages /\ Tail(toClient) \in Seq(Messages)
  BY DEF WireTypeOK, ClientInput
<1>2. ClientInput.type \in MessageTypes
  BY <1>1 DEF Messages
<1>3. Digest(cliHs, ClientInput.type) \in Seq(HandshakeTypes)
  BY <1>2 DEF ClientTypeOK, Digest
<1> QED BY <1>1, <1>3 DEF ClientConsume

(* Sending a message leaves the wire and the transcript typed.             *)
LEMMA ClientEmitType ==
  ASSUME ClientTypeOK, WireTypeOK, NEW m \in Messages, ClientEmit(m)
  PROVE  WireTypeOK' /\ cliHs' \in Seq(HandshakeTypes)
<1>1. m.type \in MessageTypes
  BY DEF Messages
<1>2. Digest(cliHs, m.type) \in Seq(HandshakeTypes)
  BY <1>1 DEF ClientTypeOK, Digest
<1> QED BY <1>2 DEF ClientEmit, WireTypeOK

(* The session of a client that has none is a session.                     *)
LEMMA NoClientSessionType == NoClientSession \in ClientSessions
BY SuitesAssumption DEF NoClientSession, ClientSessions, NoSid, Sids, SidKinds,
                        NoTicket, Tickets

(* A fatal error leaves everything typed.                                  *)
LEMMA ClientFatalType ==
  ASSUME ClientTypeOK, WireTypeOK, ClientFatal
  PROVE  /\ cli' \in ClientStates
         /\ cliSess' \in ClientSessions
         /\ cliFresh' \in Nat
         /\ cliCfg' \in ClientConfigs
         /\ toServer' \in Seq(Messages)
<1>1. cli' \in ClientStates
  BY DEF ClientFatal, ClientTypeOK, ClientStates, FlowStates
<1>2. toServer' \in Seq(Messages)
  <2>1. Message("FATAL_ALERT", cli.wkey) \in Messages
    BY ClientSentType DEF AlertTypes
  <2> QED BY <2>1 DEF ClientFatal, WireTypeOK
<1> QED BY <1>1, <1>2, NoClientSessionType DEF ClientFatal, ClientTypeOK

-----------------------------------------------------------------------------
(* The writing actions keep the types.                                     *)

(* A new connection, and the one that follows it.                          *)
LEMMA ClientOpeningType ==
  ASSUME ClientTypeOK, ClientConnect \/ ClientNewConnection
  PROVE  ClientTypeOK'
<1>1. NewClientSsl \in ClientStates
  BY DEF NewClientSsl, ClientStates, ClientHandStates, FlowStates
<1>2. [NewClientSsl EXCEPT !.flow = "WRITING", !.buffer = TRUE] \in ClientStates
  BY <1>1 DEF ClientStates, FlowStates
<1>3. CASE ClientConnect
  BY <1>2, <1>3 DEF ClientConnect, ClientTypeOK
<1>4. CASE ClientNewConnection
  <2>1. cliSess' \in ClientSessions
    BY <1>4, NoClientSessionType DEF ClientNewConnection, ClientTypeOK
  <2> QED BY <1>1, <1>4, <2>1 DEF ClientNewConnection, ClientTypeOK
<1> QED BY <1>3, <1>4

(* The ClientHello offers typed suites, identifier, ticket and extensions. *)
LEMMA ClientHelloType ==
  ASSUME ClientTypeOK, WireTypeOK, ClientSendClientHello
  PROVE  ClientTypeOK' /\ WireTypeOK'
<1> DEFINE resumable == cliSess.sid # NoSid \/ cliSess.ticket # NoTicket
           sess == IF resumable THEN cliSess ELSE NoClientSession
           sid == IF cli.newSession THEN NoSid ELSE sess.sid
           ticket == IF cli.newSession \/ ~cliCfg.tickets
                       THEN NoTicket ELSE sess.ticket
           ext == (IF cliCfg.tickets THEN {"ticket"} ELSE {})
                   \cup (IF cliCfg.status # "no" THEN {"status"} ELSE {})
                   \cup (IF cliCfg.npn /\ ClientFirstHandshake
                           THEN {"npn"} ELSE {})
           m == [Message("CLIENT_HELLO", cli.wkey) EXCEPT
                   !.suites = cliCfg.suites, !.sid = sid, !.ticket = ticket,
                   !.ext = ext]
<1>1. sess \in ClientSessions
  BY NoClientSessionType DEF ClientTypeOK
<1>2. NoSid \in Sids /\ NoTicket \in Tickets
  BY NoClientSessionType DEF NoClientSession, ClientSessions
<1>3. sid \in Sids /\ ticket \in Tickets
  BY <1>1, <1>2 DEF ClientSessions
<1>4. ext \in SUBSET Extensions /\ cliCfg.suites \in SUBSET Suites
  BY ClientConfigsAssumption DEF Extensions, ClientTypeOK, ClientConfigType
<1>5. Message("CLIENT_HELLO", cli.wkey) \in Messages
  BY ClientSentType DEF ClientHandshakeTypes
<1>6. cliSess' = sess /\ toServer' = Append(toServer, m)
  BY DEF ClientSendClientHello
<1> HIDE DEF sess, sid, ticket, ext
<1>7. m \in Messages
  BY <1>3, <1>4, <1>5 DEF Messages
<1> HIDE DEF m
<1>8. toServer' \in Seq(Messages) /\ cliSess' \in ClientSessions
  BY <1>1, <1>6, <1>7 DEF WireTypeOK
<1>9. cli' \in ClientStates
  BY DEF ClientSendClientHello, ClientTypeOK, ClientStates, ClientHandStates
<1>10. cliHs' \in Seq(HandshakeTypes)
  BY DEF ClientSendClientHello, HandshakeTypes, ClientHandshakeTypes
<1> QED BY <1>8, <1>9, <1>10 DEF ClientSendClientHello, ClientTypeOK, WireTypeOK

(* The Certificate carries the client's chain or an empty list.            *)
LEMMA ClientCertificateType ==
  ASSUME ClientTypeOK, WireTypeOK, ClientSendCertificate
  PROVE  ClientTypeOK' /\ WireTypeOK'
<1> DEFINE chain == IF cli.certReq = "none" THEN "empty" ELSE cliCfg.chain
<1>1. chain \in Chains
  BY ClientConfigsAssumption DEF ClientTypeOK, ClientConfigType, Chains
<1>2. Message("CERTIFICATE", cli.wkey) \in Messages
  BY ClientSentType DEF ClientHandshakeTypes
<1>3. ClientEmit([Message("CERTIFICATE", cli.wkey) EXCEPT !.chain = chain])
  BY DEF ClientSendCertificate
<1> HIDE DEF chain
<1>4. [Message("CERTIFICATE", cli.wkey) EXCEPT !.chain = chain] \in Messages
  BY <1>1, <1>2 DEF Messages
<1>5. WireTypeOK' /\ cliHs' \in Seq(HandshakeTypes)
  BY <1>3, <1>4, ClientEmitType
<1>6. cli' \in ClientStates
  BY DEF ClientSendCertificate, ClientTypeOK, ClientStates, ClientHandStates
<1> QED BY <1>5, <1>6 DEF ClientSendCertificate, ClientTypeOK

(* The ClientKeyExchange brings a secret, and so does the session.         *)
LEMMA ClientKeyExchangeType ==
  ASSUME ClientTypeOK, WireTypeOK, ClientSendKeyExchange
  PROVE  ClientTypeOK' /\ WireTypeOK'
<1>1. Message("CLIENT_KEY_EXCHANGE", cli.wkey) \in Messages
  BY ClientSentType DEF ClientHandshakeTypes
<1>2. [Message("CLIENT_KEY_EXCHANGE", cli.wkey) EXCEPT !.secret = cliFresh]
        \in Messages
  BY <1>1 DEF Messages, ClientTypeOK
<1>3. WireTypeOK' /\ cliHs' \in Seq(HandshakeTypes)
  BY <1>2, ClientEmitType DEF ClientSendKeyExchange
<1>4. cli' \in ClientStates
  BY DEF ClientSendKeyExchange, ClientTypeOK, ClientStates, ClientHandStates
<1>5. cliSess' \in ClientSessions /\ cliFresh' \in Nat
  BY DEF ClientSendKeyExchange, ClientTypeOK, ClientSessions
<1> QED BY <1>3, <1>4, <1>5 DEF ClientSendKeyExchange, ClientTypeOK

(* The CertificateVerify signs a typed transcript, or is a fatal error.    *)
LEMMA ClientCertVerifyType ==
  ASSUME ClientTypeOK, WireTypeOK, ClientSendCertVerify
  PROVE  ClientTypeOK' /\ WireTypeOK'
<1>1. CASE cli.buffer
  <2>1. cliCfg.chain \in Chains /\ cliHs \in Seq(HandshakeTypes)
    BY ClientConfigsAssumption DEF ClientTypeOK, ClientConfigType, Chains
  <2>2. Message("CERTIFICATE_VERIFY", cli.wkey) \in Messages
    BY ClientSentType DEF ClientHandshakeTypes
  <2>3. [Message("CERTIFICATE_VERIFY", cli.wkey) EXCEPT
           !.hs = cliHs, !.chain = cliCfg.chain] \in Messages
    BY <2>1, <2>2 DEF Messages
  <2>4. WireTypeOK' /\ cliHs' \in Seq(HandshakeTypes)
    BY <1>1, <2>3, ClientEmitType DEF ClientSendCertVerify
  <2>5. [cli EXCEPT !.hand = "CW_CERT_VRFY", !.buffer = FALSE] \in ClientStates
    BY DEF ClientTypeOK, ClientStates, ClientHandStates
  <2> QED BY <1>1, <2>4, <2>5 DEF ClientSendCertVerify, ClientTypeOK
<1>2. CASE ~cli.buffer
  BY <1>2, ClientFatalType DEF ClientSendCertVerify, ClientTypeOK, WireTypeOK
<1> QED BY <1>1, <1>2

(* The ChangeCipherSpec keeps the types.                                   *)
LEMMA ClientChangeCipherSpecType ==
  ASSUME ClientTypeOK, WireTypeOK, ClientSendChangeCipherSpec
  PROVE  ClientTypeOK' /\ WireTypeOK'
<1>1. Message("CHANGE_CIPHER_SPEC", cli.wkey) \in Messages
  BY ClientSentType
<1>2. WireTypeOK' /\ cliHs' \in Seq(HandshakeTypes)
  BY <1>1, ClientEmitType DEF ClientSendChangeCipherSpec
<1>3. cliSess.ms \in Nat /\ cli.newCipher \in Suites \cup {NoSuite}
  BY DEF ClientTypeOK, ClientSessions, ClientStates
<1>4. \A k \in Nat : [cli EXCEPT !.hand = "CW_CHANGE", !.wkey = k] \in ClientStates
  BY DEF ClientTypeOK, ClientStates, ClientHandStates
<1>5. cli' \in ClientStates
  BY <1>3, <1>4 DEF ClientSendChangeCipherSpec
<1>6. cliSess' \in ClientSessions
  BY <1>3 DEF ClientSendChangeCipherSpec, ClientTypeOK, ClientSessions
<1> QED BY <1>2, <1>5, <1>6 DEF ClientSendChangeCipherSpec, ClientTypeOK

(* So do the NextProto message and the Finished.                           *)
LEMMA ClientLastFlightType ==
  ASSUME ClientTypeOK, WireTypeOK, ClientSendNextProto \/ ClientSendFinished
  PROVE  ClientTypeOK' /\ WireTypeOK'
<1>1. /\ Message("NEXT_PROTO", cli.wkey) \in Messages
      /\ Message("FINISHED", cli.wkey) \in Messages
  BY ClientSentType DEF ClientHandshakeTypes
<1>2. [Message("FINISHED", cli.wkey) EXCEPT !.secret = cliSess.ms, !.hs = cliHs]
        \in Messages
  BY <1>1 DEF Messages, ClientTypeOK, ClientSessions
<1>3. CASE ClientSendNextProto
  <2>1. WireTypeOK' /\ cliHs' \in Seq(HandshakeTypes)
    BY <1>1, <1>3, ClientEmitType DEF ClientSendNextProto
  <2>2. cli' \in ClientStates
    BY <1>3 DEF ClientSendNextProto, ClientTypeOK, ClientStates,
                ClientHandStates
  <2> QED BY <1>3, <2>1, <2>2 DEF ClientSendNextProto, ClientTypeOK
<1>4. CASE ClientSendFinished
  <2>1. WireTypeOK' /\ cliHs' \in Seq(HandshakeTypes)
    BY <1>2, <1>4, ClientEmitType DEF ClientSendFinished
  <2>2. cli' \in ClientStates
    BY <1>4 DEF ClientSendFinished, ClientTypeOK, ClientStates,
                ClientHandStates
  <2> QED BY <1>4, <2>1, <2>2 DEF ClientSendFinished, ClientTypeOK
<1> QED BY <1>3, <1>4

(* So do the turn to reading and the end of the handshake.                 *)
LEMMA ClientTurnType ==
  ASSUME ClientTypeOK, WireTypeOK, ClientTurnToRead \/ ClientFinishHandshake
  PROVE  ClientTypeOK' /\ WireTypeOK'
<1> DEFINE r == cli.renegotiate /\ ~cli.cleanuphand
           n == cli.newSession /\ ~cli.cleanuphand
           t == cli.ticketExpected /\ ~cli.cleanuphand
<1>1. r \in BOOLEAN /\ n \in BOOLEAN /\ t \in BOOLEAN
  OBVIOUS
<1>2. ASSUME NEW x \in BOOLEAN, NEW y \in BOOLEAN, NEW z \in BOOLEAN
      PROVE  [cli EXCEPT !.hand = "OK", !.flow = "FINISHED", !.renegotiate = x,
                !.newSession = y, !.ticketExpected = z, !.cleanuphand = FALSE]
               \in ClientStates
  BY <1>2 DEF ClientTypeOK, ClientStates, ClientHandStates, FlowStates
<1>3. [cli EXCEPT !.flow = "READING"] \in ClientStates
  BY DEF ClientTypeOK, ClientStates, FlowStates
<1>4. cli' \in ClientStates
  BY <1>1, <1>2, <1>3 DEF ClientTurnToRead, ClientFinishHandshake
<1> QED BY <1>4 DEF ClientTurnToRead, ClientFinishHandshake, ClientTypeOK,
                    WireTypeOK, wireVars

(* So does every step by which the client writes.                          *)
LEMMA ClientWriteType ==
  ASSUME ClientTypeOK, WireTypeOK, ClientWrite
  PROVE  ClientTypeOK' /\ WireTypeOK'
BY ClientHelloType, ClientCertificateType, ClientKeyExchangeType,
   ClientCertVerifyType, ClientChangeCipherSpecType, ClientLastFlightType,
   ClientTurnType DEF ClientWrite

-----------------------------------------------------------------------------
(* The reading actions keep the types.                                     *)

(* What a ServerHello negotiates fits into the SSL object.                 *)
LEMMA ClientNegotiatedType ==
  ASSUME ClientTypeOK, NEW h \in BOOLEAN, NEW c \in Suites \cup {NoSuite},
         NEW te \in BOOLEAN, NEW st \in BOOLEAN, NEW np \in BOOLEAN
  PROVE  [cli EXCEPT !.hand = "CR_SRVR_HELLO", !.hit = h, !.newCipher = c,
            !.ticketExpected = te, !.statusExpected = st, !.npnSeen = np]
           \in ClientStates
BY DEF ClientTypeOK, ClientStates, ClientHandStates

(* The ServerHello leaves a typed session.                                 *)
LEMMA ServerHelloReadType ==
  ASSUME ClientTypeOK, WireTypeOK, ClientReadServerHello
  PROVE  ClientTypeOK' /\ WireTypeOK'
<1>1. /\ ClientInput \in Messages
      /\ toClient' \in Seq(Messages) /\ cliHs' \in Seq(HandshakeTypes)
  BY ClientInputType DEF ClientReadServerHello, ClientReading
<1>2. CASE ~ServerHelloAccepted(ClientInput)
  BY <1>1, <1>2, ClientFatalType
     DEF ClientReadServerHello, ClientTypeOK, WireTypeOK
<1>3. CASE ServerHelloAccepted(ClientInput)
  <2> DEFINE h == ServerHelloHit(ClientInput)
             te == "ticket" \in ClientInput.ext
             st == cli.statusExpected \/ "status" \in ClientInput.ext
             np == "npn" \in ClientInput.ext
  <2>1. h \in BOOLEAN /\ te \in BOOLEAN /\ st \in BOOLEAN /\ np \in BOOLEAN
    BY DEF ServerHelloHit
  <2>2. ClientInput.suite \in Suites \cup {NoSuite} /\ ClientInput.sid \in Sids
    BY <1>1 DEF Messages
  <2>3. cli' = [cli EXCEPT !.hand = "CR_SRVR_HELLO", !.hit = h,
                  !.newCipher = ClientInput.suite, !.ticketExpected = te,
                  !.statusExpected = st, !.npnSeen = np]
    BY <1>3 DEF ClientReadServerHello
  <2> HIDE DEF h, te, st, np
  <2>4. cli' \in ClientStates
    BY <2>1, <2>2, <2>3, ClientNegotiatedType
  <2>5. cliSess' \in ClientSessions
    <3>1. cliSess' = SessionAfterServerHello(ClientInput)
      BY <1>3 DEF ClientReadServerHello
    <3> QED BY <2>2, <3>1, NoClientSessionType
            DEF SessionAfterServerHello, ClientSessions, ClientTypeOK
  <2> QED BY <1>1, <1>3, <2>4, <2>5
          DEF ClientReadServerHello, ClientTypeOK, WireTypeOK
<1> QED BY <1>2, <1>3

(* The Certificate leaves session->peer typed.                             *)
LEMMA CertificateReadType ==
  ASSUME ClientTypeOK, WireTypeOK, ClientReadCertificate
  PROVE  ClientTypeOK' /\ WireTypeOK'
<1>1. /\ ClientInput \in Messages
      /\ toClient' \in Seq(Messages) /\ cliHs' \in Seq(HandshakeTypes)
  BY ClientInputType DEF ClientReadCertificate, ClientReading
<1>2. CASE ~ServerChainAccepted(ClientInput.chain)
  BY <1>1, <1>2, ClientFatalType
     DEF ClientReadCertificate, ClientTypeOK, WireTypeOK
<1>3. CASE ServerChainAccepted(ClientInput.chain)
  <2>1. ClientInput.chain \in {"single", "good", "bad"}
    BY <1>1, <1>3 DEF Messages, Chains, ServerChainAccepted
  <2>2. cliSess' \in ClientSessions
    BY <1>3, <2>1 DEF ClientReadCertificate, ClientTypeOK, ClientSessions
  <2>3. [cli EXCEPT !.hand = "CR_CERT"] \in ClientStates
    BY DEF ClientTypeOK, ClientStates, ClientHandStates
  <2> QED BY <1>1, <1>3, <2>2, <2>3
          DEF ClientReadCertificate, ClientTypeOK, WireTypeOK
<1> QED BY <1>2, <1>3

(* The messages between the Certificate and the ServerHelloDone change a   *)
(* few flags of the SSL object.                                            *)
LEMMA ServerFlightReadType ==
  ASSUME ClientTypeOK, WireTypeOK,
         \/ ClientReadCertStatus \/ ClientReadKeyExchange
         \/ ClientReadCertificateRequest \/ ClientReadServerDone
  PROVE  ClientTypeOK' /\ WireTypeOK'
<1>1. toClient' \in Seq(Messages) /\ cliHs' \in Seq(HandshakeTypes)
  BY ClientInputType DEF ClientReadCertStatus, ClientReadKeyExchange,
       ClientReadCertificateRequest, ClientReadServerDone, ClientReading
<1>2. CASE ClientFatal
  BY <1>1, <1>2, ClientFatalType DEF ClientTypeOK, WireTypeOK
<1>3. ASSUME cli' \in ClientStates,
             UNCHANGED <<toServer, cliSess, cliFresh, cliCfg>>
      PROVE  ClientTypeOK' /\ WireTypeOK'
  BY <1>1, <1>3 DEF ClientTypeOK, WireTypeOK
<1>4. CASE ClientReadCertStatus
  <2>1. cli' \in ClientStates
    BY <1>4 DEF ClientReadCertStatus, ClientTypeOK, ClientStates,
                ClientHandStates
  <2> QED BY <1>3, <1>4, <2>1 DEF ClientReadCertStatus
<1>5. CASE ClientReadKeyExchange
  <2>1. [cli EXCEPT !.hand = "CR_KEY_EXCH", !.skeOk = TRUE] \in ClientStates
    BY DEF ClientTypeOK, ClientStates, ClientHandStates
  <2> QED BY <1>2, <1>3, <1>5, <2>1 DEF ClientReadKeyExchange
<1>6. CASE ClientReadCertificateRequest
  <2> DEFINE b == cli.buffer /\ cliCfg.chain # "empty"
             q == IF cliCfg.chain = "empty" THEN "none" ELSE "send"
  <2>1. b \in BOOLEAN /\ q \in {"no", "send", "none"}
    OBVIOUS
  <2>2. cli' = [cli EXCEPT !.hand = "CR_CERT_REQ", !.certReq = q, !.buffer = b]
    BY <1>6 DEF ClientReadCertificateRequest
  <2> HIDE DEF b, q
  <2>3. cli' \in ClientStates
    BY <2>1, <2>2 DEF ClientTypeOK, ClientStates, ClientHandStates
  <2> QED BY <1>3, <1>6, <2>3 DEF ClientReadCertificateRequest
<1>7. CASE ClientReadServerDone
  <2>1. [cli EXCEPT !.hand = "CR_SRVR_DONE", !.flow = "WRITING"] \in ClientStates
    BY DEF ClientTypeOK, ClientStates, ClientHandStates, FlowStates
  <2> QED BY <1>2, <1>3, <1>7, <2>1 DEF ClientReadServerDone
<1> QED BY <1>4, <1>5, <1>6, <1>7

(* The ticket and the identifier made from it are typed.                   *)
LEMMA SessionTicketReadType ==
  ASSUME ClientTypeOK, WireTypeOK, ClientReadSessionTicket
  PROVE  ClientTypeOK' /\ WireTypeOK'
<1>1. /\ ClientInput \in Messages
      /\ toClient' \in Seq(Messages) /\ cliHs' \in Seq(HandshakeTypes)
  BY ClientInputType DEF ClientReadSessionTicket, ClientReading
<1>2. ClientInput.ticket \in Tickets
  BY <1>1 DEF Messages
<1>3. TicketSid(ClientInput.ticket.n) \in Sids
  BY <1>2 DEF Tickets, TicketSid, Sids, SidKinds
<1>4. cliSess' \in ClientSessions
  BY <1>2, <1>3 DEF ClientReadSessionTicket, ClientTypeOK, ClientSessions
<1>5. cli' \in ClientStates
  BY DEF ClientReadSessionTicket, ClientTypeOK, ClientStates, ClientHandStates
<1> QED BY <1>1, <1>4, <1>5
        DEF ClientReadSessionTicket, ClientTypeOK, WireTypeOK

(* A ChangeCipherSpec read keeps the types.                                *)
LEMMA ChangeCipherSpecReadType ==
  ASSUME ClientTypeOK, WireTypeOK, ClientReadChangeCipherSpec
  PROVE  ClientTypeOK' /\ WireTypeOK'
<1>1. toClient' \in Seq(Messages) /\ cliHs' \in Seq(HandshakeTypes)
  BY ClientInputType DEF ClientReadChangeCipherSpec, ClientReading
<1>2. CASE ~(cli.newCipher # NoSuite /\ cliSess.ms # 0)
  BY <1>1, <1>2, ClientFatalType
     DEF ClientReadChangeCipherSpec, ClientTypeOK, WireTypeOK
<1>3. CASE cli.newCipher # NoSuite /\ cliSess.ms # 0
  <2>1. \A k \in Nat :
          [cli EXCEPT !.hand = "CR_CHANGE", !.ccs = TRUE, !.rkey = k,
                      !.finOk = FALSE] \in ClientStates
    BY DEF ClientTypeOK, ClientStates, ClientHandStates
  <2>2. cliSess.ms \in Nat /\ cli.newCipher \in Suites \cup {NoSuite}
    BY DEF ClientTypeOK, ClientSessions, ClientStates
  <2>3. cli' \in ClientStates
    BY <1>3, <2>1, <2>2 DEF ClientReadChangeCipherSpec
  <2>4. cliSess' \in ClientSessions
    BY <1>3, <2>2 DEF ClientReadChangeCipherSpec, ClientTypeOK, ClientSessions
  <2> QED BY <1>1, <1>3, <2>3, <2>4
          DEF ClientReadChangeCipherSpec, ClientTypeOK, WireTypeOK
<1> QED BY <1>2, <1>3

(* The server's Finished keeps the types.                                  *)
LEMMA FinishedReadType ==
  ASSUME ClientTypeOK, WireTypeOK, ClientReadFinished
  PROVE  ClientTypeOK' /\ WireTypeOK'
<1>1. toClient' \in Seq(Messages) /\ cliHs' \in Seq(HandshakeTypes)
  BY ClientInputType DEF ClientReadFinished, ClientReading
<1>2. [cli EXCEPT !.hand = "CR_FINISHED", !.flow = "WRITING", !.ccs = FALSE,
                  !.finRead = TRUE, !.finOk = TRUE] \in ClientStates
  BY DEF ClientTypeOK, ClientStates, ClientHandStates, FlowStates
<1> QED BY <1>1, <1>2, ClientFatalType
        DEF ClientReadFinished, ClientTypeOK, WireTypeOK

(* A HelloRequest, answered, refused or skipped, keeps the types.          *)
LEMMA HelloRequestReadType ==
  ASSUME ClientTypeOK, WireTypeOK,
         ClientReadHelloRequest \/ ClientSkipHelloRequest
  PROVE  ClientTypeOK' /\ WireTypeOK'
<1>1. CASE ClientReadHelloRequest
  <2>1. toClient' \in Seq(Messages) /\ cliHs' \in Seq(HandshakeTypes)
    BY <1>1, ClientInputType DEF ClientReadHelloRequest, ClientReading
  <2>2. Message("NO_RENEGOTIATION_ALERT", cli.wkey) \in Messages
    BY ClientSentType DEF AlertTypes
  <2>3. toServer' \in Seq(Messages)
    BY <1>1, <2>2 DEF ClientReadHelloRequest, WireTypeOK
  <2>4. /\ [cli EXCEPT !.hand = "CR_HELLO_REQ", !.flow = "WRITING"]
             \in ClientStates
        /\ [cli EXCEPT !.hand = "CR_HELLO_REQ", !.flow = "WRITING",
                        !.renegotiate = TRUE, !.newSession = FALSE]
             \in ClientStates
    BY DEF ClientTypeOK, ClientStates, ClientHandStates, FlowStates
  <2>5. cli' \in ClientStates
    BY <1>1, <2>4 DEF ClientReadHelloRequest
  <2> QED BY <1>1, <2>1, <2>3, <2>5
          DEF ClientReadHelloRequest, ClientTypeOK, WireTypeOK
<1>2. CASE ClientSkipHelloRequest
  BY <1>2 DEF ClientSkipHelloRequest, clientVars, ClientTypeOK, WireTypeOK
<1> QED BY <1>1, <1>2

(* What comes from outside the transitions keeps the types as well.        *)
LEMMA ClientOutsideType ==
  ASSUME ClientTypeOK, WireTypeOK,
         \/ ClientUnexpected \/ ClientReadAlert \/ ClientReadNoRenegotiation
         \/ ClientWake \/ ClientStrayChangeCipherSpec \/ ClientRenegotiate
  PROVE  ClientTypeOK' /\ WireTypeOK'
<1>1. CASE ClientUnexpected \/ ClientReadNoRenegotiation
             \/ ClientStrayChangeCipherSpec
  <2>1. toClient' \in Seq(Messages) /\ cliHs' \in Seq(HandshakeTypes)
    BY <1>1, ClientInputType DEF ClientUnexpected, ClientReadNoRenegotiation,
                                 ClientStrayChangeCipherSpec
  <2>2. ClientFatal
    BY <1>1 DEF ClientUnexpected, ClientReadNoRenegotiation,
                ClientStrayChangeCipherSpec
  <2> QED BY <2>1, <2>2, ClientFatalType DEF ClientTypeOK, WireTypeOK
<1>2. CASE ClientReadAlert
  <2>1. toClient' \in Seq(Messages) /\ cliHs' \in Seq(HandshakeTypes)
    BY <1>2, ClientInputType DEF ClientReadAlert
  <2>2. CASE ClientFatal
    BY <2>1, <2>2, ClientFatalType DEF ClientTypeOK, WireTypeOK
  <2>3. CASE ~cli.ccs
    <3>1. cli' \in ClientStates
      BY <1>2, <2>3 DEF ClientReadAlert, ClientTypeOK, ClientStates, FlowStates
    <3> QED BY <1>2, <2>1, <2>3, <3>1, NoClientSessionType
            DEF ClientReadAlert, ClientTypeOK, WireTypeOK
  <2> QED BY <1>2, <2>2, <2>3 DEF ClientReadAlert
<1>3. CASE ClientWake
  <2>1. cli' \in ClientStates
    BY <1>3 DEF ClientWake, ClientTypeOK, ClientStates, FlowStates
  <2> QED BY <1>3, <2>1 DEF ClientWake, ClientTypeOK, WireTypeOK, wireVars
<1>4. CASE ClientRenegotiate
  <2>1. cli' \in ClientStates
    BY <1>4 DEF ClientRenegotiate, ClientTypeOK, ClientStates, FlowStates
  <2> QED BY <1>4, <2>1
          DEF ClientRenegotiate, ClientTypeOK, WireTypeOK, wireVars
<1> QED BY <1>1, <1>2, <1>3, <1>4

(* Every step of the client keeps the types.                               *)
LEMMA ClientStepType ==
  ASSUME ClientTypeOK, WireTypeOK, ClientStep
  PROVE  ClientTypeOK' /\ WireTypeOK'
<1>1. CASE ClientConnect
  BY <1>1, ClientOpeningType DEF ClientConnect, WireTypeOK, wireVars
<1>2. CASE ClientWrite
  BY <1>2, ClientWriteType
<1>3. CASE ClientRead
  BY <1>3, ServerHelloReadType, CertificateReadType, ServerFlightReadType,
     SessionTicketReadType, ChangeCipherSpecReadType, FinishedReadType,
     HelloRequestReadType, ClientOutsideType DEF ClientRead
<1>4. CASE ClientRenegotiate
  BY <1>4, ClientOutsideType
<1> QED BY <1>1, <1>2, <1>3, <1>4 DEF ClientStep

-----------------------------------------------------------------------------
(* The invariant.                                                          *)

(* Where a flow rests, reads or writes, and where a resumption can be.     *)
ClientPosition ==
  /\ cli.flow = "UNINITED" => cli.hand = "BEFORE"
  /\ cli.flow = "FINISHED" => cli.hand = "OK"
  /\ cli.flow = "READING" =>
       \/ cli.hand \notin {"BEFORE", "CR_SRVR_DONE", "CR_FINISHED", "CW_FINISHED"}
       \/ cli.hand = "CW_FINISHED" /\ ~cli.hit
  /\ cli.flow = "WRITING" =>
       cli.hand \notin {"CR_SRVR_HELLO", "CR_CERT", "CR_CERT_STATUS",
                        "CR_KEY_EXCH", "CR_CERT_REQ", "CR_SESSION_TICKET",
                        "CR_CHANGE"}
  /\ cli.hit =>
       cli.hand \in {"CR_SRVR_HELLO", "CR_SESSION_TICKET", "CR_CHANGE",
                     "CR_FINISHED", "CW_CHANGE", "CW_NEXT_PROTO",
                     "CW_FINISHED", "OK", "CR_HELLO_REQ"}

(* The hand states that only the server's ChangeCipherSpec opens, those    *)
(* that only its Finished opens, those after the client's ChangeCipherSpec *)
(* and after its Finished, and those after a key exchange.                 *)
ClientSettled == cli.hand \in {"OK", "CR_HELLO_REQ"}

LastWrites == cli.hand \in {"CW_CHANGE", "CW_NEXT_PROTO", "CW_FINISHED"}

LastReads == cli.hand \in {"CR_SESSION_TICKET", "CR_CHANGE", "CR_FINISHED"}

ClientReadSwitched ==
  ClientSettled \/ cli.hand \in {"CR_CHANGE", "CR_FINISHED"} \/ (cli.hit /\ LastWrites)

ClientWriteSwitched == ClientSettled \/ LastWrites \/ (~cli.hit /\ LastReads)

ServerFinishedRead ==
  ClientSettled \/ cli.hand = "CR_FINISHED" \/ (cli.hit /\ LastWrites)

ClientFinishedSent ==
  ClientSettled \/ cli.hand = "CW_FINISHED" \/ (~cli.hit /\ LastReads)

AfterKeyExchange ==
  cli.hand \in {"CW_KEY_EXCH", "CW_CERT_VRFY"} \/ LastWrites \/ LastReads
    \/ ClientSettled

ClientHistory ==
  /\ ServerFinishedRead => cli.finOk
  /\ ClientFinishedSent => cli.finSent
  /\ ~cli.hit /\ (AfterKeyExchange \/ cli.hand \in
       {"CR_KEY_EXCH", "CR_CERT_REQ", "CR_SRVR_DONE", "CW_CERT"}) => cli.skeOk

(* After a fatal error the session is gone and the keys no longer matter.  *)
ClientKeys ==
  cli.flow # "ERROR" =>
    /\ ~cli.hit /\ AfterKeyExchange => cliSess.ms # 0
    /\ ClientReadSwitched =>
         /\ cliSess.ms # 0
         /\ cli.rkey = cliSess.ms
         /\ cliSess.cipher = cli.newCipher
    /\ ClientWriteSwitched =>
         cli.wkey = cliSess.ms /\ cliSess.cipher = cli.newCipher

(* The handshake buffer stays until it is signed, or nothing will be.      *)
BufferKept ==
  /\ cli.hand \in {"CW_CLNT_HELLO", "CR_SRVR_HELLO", "CR_CERT",
                   "CR_CERT_STATUS", "CR_KEY_EXCH"} /\ ~cli.hit => cli.buffer
  /\ cli.hand \in {"CR_CERT_REQ", "CR_SRVR_DONE", "CW_CERT", "CW_KEY_EXCH"} =>
       cli.buffer \/ cli.certReq # "send"

(* A session with a ticket has an identifier, one with a master secret     *)
(* names the certificate that signed for it, and none names one that a     *)
(* verifying client refused; up to the key exchange of a full handshake    *)
(* the session is a new one.                                               *)
SessionOfServer ==
  /\ cliSess.ticket # NoTicket => cliSess.sid # NoSid
  /\ cliSess.ms # 0 => cliSess.peer # "none"
  /\ cliCfg.verify => cliSess.peer # "bad"
  /\ cli.hand \in {"CR_SRVR_HELLO", "CR_CERT", "CR_CERT_STATUS"}
       /\ ~cli.hit => cliSess.ms = 0
  /\ cli.hand = "CW_CLNT_HELLO" =>
       ~cli.skeOk /\ (cliSess.sid = NoSid => cliSess.ms = 0)
  /\ cli.flow # "ERROR" /\ cli.skeOk => cliSess.peer # "none"
  /\ cliFresh # 0

ClientInv ==
  ClientPosition /\ ClientHistory /\ ClientKeys /\ BufferKept /\ SessionOfServer

-----------------------------------------------------------------------------
(* Where the write transition to each hand state comes from.               *)
LEMMA ClientWriteSources ==
  /\ ClientWriteTransition = "READ" =>
       \/ cli.hand \in {"OK", "CW_CLNT_HELLO"}
       \/ cli.hand = "CW_FINISHED" /\ ~cli.hit
  /\ ClientWriteTransition = "CW_CLNT_HELLO" =>
       cli.hand \in {"OK", "BEFORE", "CR_HELLO_REQ"}
  /\ ClientWriteTransition = "CW_CERT" => cli.hand = "CR_SRVR_DONE"
  /\ ClientWriteTransition = "CW_KEY_EXCH" =>
       cli.hand \in {"CR_SRVR_DONE", "CW_CERT"}
  /\ ClientWriteTransition = "CW_CERT_VRFY" =>
       cli.hand = "CW_KEY_EXCH" /\ cli.certReq = "send"
  /\ ClientWriteTransition = "CW_CHANGE" =>
       \/ cli.hand \in {"CW_KEY_EXCH", "CW_CERT_VRFY"}
       \/ cli.hand = "CR_FINISHED" /\ cli.hit
  /\ ClientWriteTransition = "CW_NEXT_PROTO" => cli.hand = "CW_CHANGE"
  /\ ClientWriteTransition = "CW_FINISHED" =>
       cli.hand \in {"CW_CHANGE", "CW_NEXT_PROTO"}
  /\ ClientWriteTransition = "OK" =>
       \/ cli.hand = "CW_FINISHED" /\ cli.hit
       \/ cli.hand = "CR_FINISHED" /\ ~cli.hit
       \/ cli.hand = "CR_HELLO_REQ"
BY DEF ClientWriteTransition, AfterCwFinished

(* Where the reads come from.                                              *)
LEMMA ClientReadSources ==
  ASSUME NEW mt
  PROVE  /\ ClientReadTransition(mt) = "CR_SRVR_HELLO" =>
              cli.hand = "CW_CLNT_HELLO"
         /\ ClientReadTransition(mt) = "CR_CERT" =>
              cli.hand = "CR_SRVR_HELLO" /\ ~cli.hit
         /\ ClientReadTransition(mt) = "CR_CERT_STATUS" => cli.hand = "CR_CERT"
         /\ ClientReadTransition(mt) = "CR_KEY_EXCH" =>
              cli.hand \in {"CR_CERT", "CR_CERT_STATUS"}
         /\ ClientReadTransition(mt) = "CR_CERT_REQ" => cli.hand = "CR_KEY_EXCH"
         /\ ClientReadTransition(mt) = "CR_SRVR_DONE" =>
              cli.hand \in {"CR_KEY_EXCH", "CR_CERT_REQ"}
         /\ ClientReadTransition(mt) = "CR_SESSION_TICKET" =>
              \/ cli.hand = "CR_SRVR_HELLO" /\ cli.hit
              \/ cli.hand = "CW_FINISHED"
         /\ ClientReadTransition(mt) = "CR_CHANGE" =>
              \/ cli.hand = "CR_SRVR_HELLO" /\ cli.hit
              \/ cli.hand \in {"CW_FINISHED", "CR_SESSION_TICKET"}
         /\ ClientReadTransition(mt) = "CR_FINISHED" => cli.hand = "CR_CHANGE"
         /\ ClientReadTransition(mt) = "CR_HELLO_REQ" => cli.hand = "OK"
BY DEF ClientReadTransition

(* A fatal error leaves no session, and the invariant asks no more of it.  *)
LEMMA ClientFatalInv ==
  ASSUME ClientTypeOK, ClientInv, ClientFatal
  PROVE  ClientInv'
BY NoClientSessionType
   DEF ClientFatal, NoClientSession, ClientInv, ClientPosition, ClientHistory,
       ClientKeys, BufferKept, SessionOfServer, ClientSettled, LastWrites, LastReads,
       ClientReadSwitched, ClientWriteSwitched, ServerFinishedRead,
       ClientFinishedSent, AfterKeyExchange, ClientTypeOK, ClientStates

(* Every step by which the client writes keeps the invariant.              *)
LEMMA ClientWriteInv ==
  ASSUME ClientTypeOK, ClientInv, ClientWrite
  PROVE  ClientInv'
<1> USE ClientWriteSources
    DEF ClientInv, ClientPosition, ClientHistory, ClientKeys, BufferKept,
        SessionOfServer, ClientSettled, LastWrites, LastReads, ClientReadSwitched,
        ClientWriteSwitched, ServerFinishedRead, ClientFinishedSent,
        AfterKeyExchange, ClientTypeOK, ClientStates, ClientWriting
<1>1. CASE ClientTurnToRead
  BY <1>1 DEF ClientTurnToRead
<1>2. CASE ClientSendClientHello
  BY <1>2 DEF ClientSendClientHello, NoClientSession
<1>3. CASE ClientSendCertificate
  BY <1>3 DEF ClientSendCertificate
<1>4. CASE ClientSendKeyExchange
  BY <1>4 DEF ClientSendKeyExchange, ClientSessions
<1>5. CASE ClientSendCertVerify
  <2>1. CASE ClientFatal
    BY <2>1, ClientFatalInv
  <2>2. CASE cli.buffer
    <3>1. /\ cli' = [cli EXCEPT !.hand = "CW_CERT_VRFY", !.buffer = FALSE]
          /\ UNCHANGED <<cliSess, cliFresh, cliCfg>>
      BY <1>5, <2>2 DEF ClientSendCertVerify
    <3>2. cli.flow = "WRITING" /\ cli.hand = "CW_KEY_EXCH"
      BY <1>5 DEF ClientSendCertVerify
    <3> QED BY <3>1, <3>2
  <2> QED BY <1>5, <2>1, <2>2 DEF ClientSendCertVerify
<1>6. CASE ClientSendChangeCipherSpec
  BY <1>6 DEF ClientSendChangeCipherSpec, ClientSessions
<1>7. CASE ClientSendNextProto
  BY <1>7 DEF ClientSendNextProto
<1>8. CASE ClientSendFinished
  BY <1>8 DEF ClientSendFinished
<1>9. CASE ClientFinishHandshake
  BY <1>9 DEF ClientFinishHandshake
<1> QED BY <1>1, <1>2, <1>3, <1>4, <1>5, <1>6, <1>7, <1>8, <1>9 DEF ClientWrite

(* Every step by which the client reads keeps it, too.                     *)
LEMMA ClientReadInv ==
  ASSUME ClientTypeOK, WireTypeOK, ClientInv, ClientRead
  PROVE  ClientInv'
<1> USE ClientReadSources
    DEF ClientInv, ClientPosition, ClientHistory, ClientKeys, BufferKept,
        SessionOfServer, ClientSettled, LastWrites, LastReads, ClientReadSwitched,
        ClientWriteSwitched, ServerFinishedRead, ClientFinishedSent,
        AfterKeyExchange, ClientTypeOK, ClientStates, ClientReading
<1>1. CASE ClientReadServerHello
  <2>1. CASE ClientFatal
    BY <2>1, ClientFatalInv
  <2>2. CASE ServerHelloAccepted(ClientInput)
    <3>1. cli.flow = "READING" /\ cli.hand = "CW_CLNT_HELLO" /\ ~cli.skeOk
      BY <1>1 DEF ClientReadServerHello
    <3>2. /\ cli'.hand = "CR_SRVR_HELLO" /\ cli'.flow = "READING"
          /\ cli'.hit = ServerHelloHit(ClientInput)
          /\ cli'.skeOk = cli.skeOk /\ cli'.buffer = cli.buffer
      <4>1. cli' = [cli EXCEPT !.hand = "CR_SRVR_HELLO",
                 !.hit = ServerHelloHit(ClientInput),
                 !.newCipher = ClientInput.suite,
                 !.ticketExpected = "ticket" \in ClientInput.ext,
                 !.statusExpected = cli.statusExpected
                                      \/ "status" \in ClientInput.ext,
                 !.npnSeen = "npn" \in ClientInput.ext]
        BY <1>1, <2>2 DEF ClientReadServerHello
      <4> QED BY ONLY <3>1, <4>1, ClientTypeOK DEF ClientTypeOK, ClientStates
    <3>3. /\ cliSess' = SessionAfterServerHello(ClientInput)
          /\ UNCHANGED <<cliFresh, cliCfg>>
      BY <1>1, <2>2 DEF ClientReadServerHello
    <3>4. CASE ServerHelloHit(ClientInput)
      <4>1. cliSess' = cliSess
        BY <3>3, <3>4 DEF SessionAfterServerHello
      <4> QED BY <3>1, <3>2, <3>3, <3>4, <4>1
    <3>5. CASE ~ServerHelloHit(ClientInput)
      <4>1. /\ cliSess'.ms = 0 /\ cliSess'.ticket = NoTicket
            /\ cliSess'.peer \in {cliSess.peer, "none"}
        BY <3>1, <3>3, <3>5, NoClientSessionType
        DEF SessionAfterServerHello, NoClientSession, ClientSessions
      <4> QED BY <3>1, <3>2, <3>3, <3>5, <4>1
    <3> QED BY <3>4, <3>5
  <2> QED BY <1>1, <2>1, <2>2 DEF ClientReadServerHello
<1>2. CASE ClientReadCertificate
  <2>1. CASE ClientFatal
    BY <2>1, ClientFatalInv
  <2>2. CASE ServerChainAccepted(ClientInput.chain)
    <3>1. /\ cli.flow = "READING" /\ cli.hand = "CR_SRVR_HELLO" /\ ~cli.hit
      BY <1>2 DEF ClientReadCertificate
    <3>2. /\ cli' = [cli EXCEPT !.hand = "CR_CERT"]
          /\ UNCHANGED <<cliFresh, cliCfg>>
      BY <1>2, <2>2 DEF ClientReadCertificate
    <3>3. /\ cliSess'.ms = cliSess.ms /\ cliSess'.ticket = cliSess.ticket
          /\ cliSess'.sid = cliSess.sid
          /\ cliSess'.peer \in {cliSess.peer, ClientInput.chain}
      BY <1>2, <2>2 DEF ClientReadCertificate, ClientSessions
    <3>4. ClientInput.chain # "none" /\ (cliCfg.verify => ClientInput.chain = "good")
      <4>1. toClient # << >>
        BY <1>2 DEF ClientReadCertificate
      <4>2. ClientInput.chain \in Chains
        BY <4>1, ClientInputType DEF Messages
      <4> QED BY <2>2, <4>2 DEF ServerChainAccepted, Chains
    <3> QED BY <3>1, <3>2, <3>3, <3>4
  <2> QED BY <1>2, <2>1, <2>2 DEF ClientReadCertificate
<1>3. CASE ClientReadCertStatus
  BY <1>3 DEF ClientReadCertStatus
<1>4. CASE ClientReadKeyExchange
  <2>1. CASE ClientFatal
    BY <2>1, ClientFatalInv
  <2>2. CASE cliSess.peer # "none" /\ ClientInput.chain = cliSess.peer
    <3>1. /\ cli' = [cli EXCEPT !.hand = "CR_KEY_EXCH", !.skeOk = TRUE]
          /\ UNCHANGED <<cliSess, cliFresh, cliCfg>>
      BY <1>4, <2>2 DEF ClientReadKeyExchange
    <3>2. cli.flow = "READING" /\ cli.hand \in {"CR_CERT", "CR_CERT_STATUS"}
      BY <1>4 DEF ClientReadKeyExchange
    <3> QED BY <2>2, <3>1, <3>2
  <2> QED BY <1>4, <2>1, <2>2 DEF ClientReadKeyExchange
<1>5. CASE ClientReadCertificateRequest
  <2>1. cli.flow = "READING" /\ cli.hand = "CR_KEY_EXCH" /\ ~cli.hit
    BY <1>5 DEF ClientReadCertificateRequest
  <2>2. /\ cli'.hand = "CR_CERT_REQ" /\ cli'.flow = cli.flow
        /\ cli'.hit = cli.hit /\ cli'.skeOk = cli.skeOk
        /\ cli'.buffer \/ cli'.certReq # "send"
    BY <1>5, <2>1 DEF ClientReadCertificateRequest
  <2>3. UNCHANGED <<cliSess, cliFresh, cliCfg>>
    BY <1>5 DEF ClientReadCertificateRequest
  <2> QED BY <2>1, <2>2, <2>3
<1>6. CASE ClientReadServerDone
  <2>1. CASE ClientFatal
    BY <2>1, ClientFatalInv
  <2>2. CASE cliCfg.status # "refuse"
    <3>1. /\ cli' = [cli EXCEPT !.hand = "CR_SRVR_DONE", !.flow = "WRITING"]
          /\ UNCHANGED <<cliSess, cliFresh, cliCfg>>
      BY <1>6, <2>2 DEF ClientReadServerDone
    <3>2. cli.flow = "READING" /\ cli.hand \in {"CR_KEY_EXCH", "CR_CERT_REQ"}
      BY <1>6 DEF ClientReadServerDone
    <3> QED BY <3>1, <3>2
  <2> QED BY <1>6, <2>1, <2>2 DEF ClientReadServerDone
<1>7. CASE ClientReadSessionTicket
  <2>1. cli.flow = "READING" /\ (\/ cli.hand = "CR_SRVR_HELLO" /\ cli.hit
                                \/ cli.hand = "CW_FINISHED")
    BY <1>7 DEF ClientReadSessionTicket
  <2>2. /\ cliSess'.ms = cliSess.ms /\ cliSess'.cipher = cliSess.cipher
        /\ cliSess'.peer = cliSess.peer
        /\ cliSess'.ticket # NoTicket => cliSess'.sid # NoSid
    BY <1>7 DEF ClientReadSessionTicket, ClientSessions, NoSid, TicketSid
  <2>3. /\ cli' = [cli EXCEPT !.hand = "CR_SESSION_TICKET"]
        /\ UNCHANGED <<cliFresh, cliCfg>>
    BY <1>7 DEF ClientReadSessionTicket
  <2> QED BY <2>1, <2>2, <2>3
<1>8. CASE ClientReadChangeCipherSpec
  <2>1. CASE ClientFatal
    BY <2>1, ClientFatalInv
  <2>2. CASE cli.newCipher # NoSuite /\ cliSess.ms # 0
    <3>1. cli.flow = "READING" /\ (\/ cli.hand = "CR_SRVR_HELLO" /\ cli.hit
                                  \/ cli.hand \in {"CW_FINISHED",
                                                   "CR_SESSION_TICKET"})
      BY <1>8 DEF ClientReadChangeCipherSpec
    <3>2. /\ cli' = [cli EXCEPT !.hand = "CR_CHANGE", !.ccs = TRUE,
                         !.rkey = cliSess.ms, !.finOk = FALSE]
          /\ cliSess' = [cliSess EXCEPT !.cipher = cli.newCipher]
          /\ UNCHANGED <<cliFresh, cliCfg>>
      BY <1>8, <2>2 DEF ClientReadChangeCipherSpec
    <3> QED BY <2>2, <3>1, <3>2 DEF ClientSessions
  <2> QED BY <1>8, <2>1, <2>2 DEF ClientReadChangeCipherSpec
<1>9. CASE ClientReadFinished
  <2>1. CASE ClientFatal
    BY <2>1, ClientFatalInv
  <2>2. CASE cli.ccs /\ ClientInput.secret = cliSess.ms /\ ClientInput.hs = cliHs
    <3>1. /\ cli' = [cli EXCEPT !.hand = "CR_FINISHED", !.flow = "WRITING",
                         !.ccs = FALSE, !.finRead = TRUE, !.finOk = TRUE]
          /\ UNCHANGED <<cliSess, cliFresh, cliCfg>>
      BY <1>9, <2>2 DEF ClientReadFinished
    <3>2. cli.flow = "READING" /\ cli.hand = "CR_CHANGE"
      BY <1>9 DEF ClientReadFinished
    <3> QED BY <3>1, <3>2
  <2> QED BY <1>9, <2>1, <2>2 DEF ClientReadFinished
<1>10. CASE ClientReadHelloRequest
  <2>1. cli.flow = "READING" /\ cli.hand = "OK"
    BY <1>10 DEF ClientReadHelloRequest
  <2>2. /\ cli'.hand = "CR_HELLO_REQ" /\ cli'.flow = "WRITING"
        /\ cli'.hit = cli.hit /\ cli'.skeOk = cli.skeOk
        /\ cli'.finOk = cli.finOk /\ cli'.finSent = cli.finSent
        /\ cli'.rkey = cli.rkey /\ cli'.wkey = cli.wkey
        /\ cli'.newCipher = cli.newCipher
    BY ONLY <1>10, ClientTypeOK
    DEF ClientReadHelloRequest, ClientTypeOK, ClientStates
  <2>3. UNCHANGED <<cliSess, cliFresh, cliCfg>>
    BY <1>10 DEF ClientReadHelloRequest
  <2> QED BY <2>1, <2>2, <2>3
<1>11. CASE ClientSkipHelloRequest
  BY <1>11 DEF ClientSkipHelloRequest, clientVars
<1>12. CASE ClientUnexpected \/ ClientReadNoRenegotiation
              \/ ClientStrayChangeCipherSpec
  BY <1>12, ClientFatalInv DEF ClientUnexpected, ClientReadNoRenegotiation,
                               ClientStrayChangeCipherSpec
<1>13. CASE ClientReadAlert
  <2>1. CASE ClientFatal
    BY <2>1, ClientFatalInv
  <2>2. CASE ~cli.ccs
    <3>1. /\ cli' = [cli EXCEPT !.flow = "ERROR"]
          /\ cliSess' = NoClientSession
          /\ UNCHANGED <<cliFresh, cliCfg>>
      BY <1>13, <2>2 DEF ClientReadAlert
    <3> QED BY <3>1 DEF NoClientSession
  <2> QED BY <1>13, <2>1, <2>2 DEF ClientReadAlert
<1>14. CASE ClientWake
  BY <1>14 DEF ClientWake
<1> QED BY <1>1, <1>2, <1>3, <1>4, <1>5, <1>6, <1>7, <1>8, <1>9, <1>10, <1>11,
           <1>12, <1>13, <1>14 DEF ClientRead

(* So do the steps that open a connection or a renegotiation, and a new    *)
(* connection.                                                             *)
LEMMA ClientOpeningInv ==
  ASSUME ClientTypeOK, ClientInv,
         ClientConnect \/ ClientRenegotiate \/ ClientNewConnection
  PROVE  ClientInv'
<1> USE DEF ClientInv, ClientPosition, ClientHistory, ClientKeys, BufferKept,
        SessionOfServer, ClientSettled, LastWrites, LastReads, ClientReadSwitched,
        ClientWriteSwitched, ServerFinishedRead, ClientFinishedSent,
        AfterKeyExchange
<1>1. CASE ClientConnect
  BY <1>1 DEF ClientConnect, NewClientSsl
<1>2. CASE ClientRenegotiate
  BY <1>2 DEF ClientRenegotiate, ClientTypeOK, ClientStates
<1>3. CASE ClientNewConnection
  BY <1>3 DEF ClientNewConnection, NewClientSsl, NoClientSession
<1> QED BY <1>1, <1>2, <1>3

(* Every step of the client keeps the invariant.                           *)
LEMMA ClientStepInv ==
  ASSUME ClientTypeOK, WireTypeOK, ClientInv, ClientStep
  PROVE  ClientInv'
BY ClientWriteInv, ClientReadInv, ClientOpeningInv DEF ClientStep

(* A client that has not done anything yet satisfies it.                   *)
LEMMA ClientInitInv ==
  ASSUME ClientInit
  PROVE  ClientInv
BY DEF ClientInit, NewClientSsl, NoClientSession, ClientInv, ClientPosition,
       ClientHistory, ClientKeys, BufferKept, SessionOfServer, ClientSettled,
       LastWrites, LastReads, ClientReadSwitched, ClientWriteSwitched,
       ServerFinishedRead, ClientFinishedSent, AfterKeyExchange

-----------------------------------------------------------------------------
(* What the client may resume is vouched for too.                          *)
HeldTicket == TicketVouched(cliSess.ticket)

(* The client puts on the wire no ticket but the one it holds, and holds   *)
(* none but those it was sent.                                             *)
ClientTickets ==
  /\ \/ toClient' = toClient
     \/ toClient # << >> /\ toClient' = Tail(toClient)
  /\ \/ toServer' = toServer
     \/ \E m : /\ m.ticket \in {NoTicket, cliSess.ticket}
               /\ toServer' = Append(toServer, m)
  /\ \/ cliSess'.ticket \in {NoTicket, cliSess.ticket}
     \/ toClient # << >> /\ cliSess'.ticket = Head(toClient).ticket

LEMMA ClientFatalTickets ==
  ASSUME ClientFatal
  PROVE  /\ cliSess'.ticket = NoTicket
         /\ \E m : m.ticket = NoTicket /\ toServer' = Append(toServer, m)
BY PlainMessage DEF ClientFatal, NoClientSession

LEMMA ClientEmitTickets ==
  ASSUME NEW m, m.ticket = NoTicket, ClientEmit(m)
  PROVE  /\ toClient' = toClient
         /\ \E n : /\ n.ticket \in {NoTicket, cliSess.ticket}
                  /\ toServer' = Append(toServer, n)
BY DEF ClientEmit

LEMMA ClientStepTickets ==
  ASSUME ClientTypeOK, WireTypeOK, ClientStep
  PROVE  ClientTickets
<1> USE DEF ClientTickets
<1>1. CASE ClientConnect \/ ClientRenegotiate
  BY <1>1 DEF ClientConnect, ClientRenegotiate, wireVars
<1>2. CASE ClientWrite
  <2>1. CASE ClientTurnToRead \/ ClientFinishHandshake
    BY <2>1 DEF ClientTurnToRead, ClientFinishHandshake, wireVars
  <2>2. CASE ClientSendClientHello
    <3> DEFINE sess == IF cliSess.sid # NoSid \/ cliSess.ticket # NoTicket
                         THEN cliSess ELSE NoClientSession
               tk == IF cli.newSession \/ ~cliCfg.tickets
                       THEN NoTicket ELSE sess.ticket
               hello(s, k, e) == [Message("CLIENT_HELLO", cli.wkey) EXCEPT
                 !.suites = cliCfg.suites, !.sid = s, !.ticket = k, !.ext = e]
    <3>1. /\ cliSess' = sess
          /\ UNCHANGED toClient
          /\ \E s, e : toServer' = Append(toServer, hello(s, tk, e))
      BY <2>2 DEF ClientSendClientHello
    <3>2. sess.ticket \in {NoTicket, cliSess.ticket}
          /\ tk \in {NoTicket, cliSess.ticket}
      BY DEF NoClientSession
    <3>3. \A s, e : hello(s, tk, e).ticket = tk
      BY DEF Message
    <3> HIDE DEF sess, tk, hello
    <3> QED BY <3>1, <3>2, <3>3
  <2>3. CASE ClientSendCertVerify
    <3>1. CASE cli.buffer
      <4>1. [Message("CERTIFICATE_VERIFY", cli.wkey) EXCEPT
               !.hs = cliHs, !.chain = cliCfg.chain].ticket = NoTicket
        BY DEF Message
      <4> QED BY <2>3, <3>1, <4>1, ClientEmitTickets DEF ClientSendCertVerify
    <3>2. CASE ~cli.buffer
      BY <2>3, <3>2, ClientFatalTickets DEF ClientSendCertVerify
    <3> QED BY <3>1, <3>2
  <2>4. CASE ClientSendKeyExchange
    <3>1. [Message("CLIENT_KEY_EXCHANGE", cli.wkey) EXCEPT
             !.secret = cliFresh].ticket = NoTicket
      BY DEF Message
    <3>2. cliSess'.ticket = cliSess.ticket
      BY <2>4 DEF ClientSendKeyExchange, ClientTypeOK, ClientSessions
    <3> QED BY <2>4, <3>1, <3>2, ClientEmitTickets DEF ClientSendKeyExchange
  <2>5. CASE ClientSendChangeCipherSpec
    <3>1. cliSess'.ticket = cliSess.ticket
      BY <2>5 DEF ClientSendChangeCipherSpec, ClientTypeOK, ClientSessions
    <3> QED BY <2>5, <3>1, PlainMessage, ClientEmitTickets
            DEF ClientSendChangeCipherSpec
  <2>6. CASE ClientSendCertificate
    <3>1. \A c : [Message("CERTIFICATE", cli.wkey) EXCEPT !.chain = c].ticket
                   = NoTicket
      BY DEF Message
    <3> QED BY <2>6, <3>1, ClientEmitTickets DEF ClientSendCertificate
  <2>7. CASE ClientSendNextProto
    BY <2>7, PlainMessage, ClientEmitTickets DEF ClientSendNextProto
  <2>8. CASE ClientSendFinished
    <3>1. [Message("FINISHED", cli.wkey) EXCEPT
             !.secret = cliSess.ms, !.hs = cliHs].ticket = NoTicket
      BY DEF Message
    <3> QED BY <2>8, <3>1, ClientEmitTickets DEF ClientSendFinished
  <2> QED BY <1>2, <2>1, <2>2, <2>3, <2>4, <2>5, <2>6, <2>7, <2>8
          DEF ClientWrite
<1>3. CASE ClientRead
  <2> USE ClientFatalTickets DEF ClientConsume, ClientReading
  <2>1. CASE ClientReadServerHello
    <3>1. SessionAfterServerHello(ClientInput).ticket
            \in {NoTicket, cliSess.ticket}
      BY DEF SessionAfterServerHello, NoClientSession, ClientTypeOK,
             ClientSessions
    <3> QED BY <2>1, <3>1 DEF ClientReadServerHello
  <2>2. CASE ClientReadCertificate
    BY <2>2 DEF ClientReadCertificate, ClientTypeOK, ClientSessions
  <2>3. CASE \/ ClientReadCertStatus \/ ClientReadKeyExchange
             \/ ClientReadCertificateRequest \/ ClientReadServerDone
             \/ ClientReadFinished
    BY <2>3 DEF ClientReadCertStatus, ClientReadKeyExchange,
                ClientReadCertificateRequest, ClientReadServerDone,
                ClientReadFinished
  <2>4. CASE ClientReadSessionTicket
    BY <2>4 DEF ClientReadSessionTicket, ClientInput, ClientTypeOK,
                ClientSessions
  <2>5. CASE ClientReadChangeCipherSpec
    BY <2>5 DEF ClientReadChangeCipherSpec, ClientTypeOK, ClientSessions
  <2>6. CASE ClientReadHelloRequest
    BY <2>6, PlainMessage DEF ClientReadHelloRequest
  <2>7. CASE ClientSkipHelloRequest \/ ClientWake
    BY <2>7 DEF ClientSkipHelloRequest, ClientWake, clientVars, wireVars
  <2>8. CASE ClientReadAlert
    BY <2>8 DEF ClientReadAlert, NoClientSession
  <2>9. CASE \/ ClientUnexpected \/ ClientReadNoRenegotiation
             \/ ClientStrayChangeCipherSpec
    BY <2>9 DEF ClientUnexpected, ClientReadNoRenegotiation,
                ClientStrayChangeCipherSpec
  <2> QED BY <1>3, <2>1, <2>2, <2>3, <2>4, <2>5, <2>6, <2>7, <2>8, <2>9
          DEF ClientRead
<1> QED BY <1>1, <1>2, <1>3 DEF ClientStep

(* So a step of the client leaves everything resumable vouched for.        *)
LEMMA ClientStepResumables ==
  ASSUME ClientTypeOK, WireTypeOK, Resumables, HeldTicket, ClientTickets,
         UNCHANGED serverVars
  PROVE  Resumables' /\ HeldTicket'
<1>1. srvCfg' = srvCfg /\ srvCache' = srvCache
  BY DEF serverVars
<1> USE DEF TicketVouched, Vouched
<1>2. (\A c \in srvCache : c.ms # 0 /\ Vouched(c.cipher, c.peer))'
  BY <1>1 DEF Resumables
<1>3. (\A i \in DOMAIN toClient : TicketVouched(toClient[i].ticket))'
  <2>1. CASE toClient' = toClient
    BY <1>1, <2>1 DEF Resumables
  <2>2. CASE toClient # << >> /\ toClient' = Tail(toClient)
    <3>1. toClient \in Seq(Messages)
      BY DEF WireTypeOK
    <3>2. DOMAIN Tail(toClient) = 1 .. (Len(toClient) - 1)
          /\ \A i \in 1 .. (Len(toClient) - 1) :
               i + 1 \in DOMAIN toClient /\ Tail(toClient)[i] = toClient[i + 1]
      BY <2>2, <3>1
    <3> QED BY <1>1, <2>2, <3>2 DEF Resumables
  <2> QED BY <2>1, <2>2 DEF ClientTickets
<1>4. (\A i \in DOMAIN toServer : TicketVouched(toServer[i].ticket))'
  <2>1. CASE toServer' = toServer
    BY <1>1, <2>1 DEF Resumables
  <2>2. CASE toServer' # toServer
    <3>1. PICK m : /\ m.ticket \in {NoTicket, cliSess.ticket}
                   /\ toServer' = Append(toServer, m)
      BY <2>2 DEF ClientTickets
    <3>2. toServer \in Seq(Messages)
      BY DEF WireTypeOK
    <3>3. TicketVouched(m.ticket)
      BY <3>1 DEF HeldTicket
    <3>4. DOMAIN toServer' = 1 .. (Len(toServer) + 1)
          /\ \A i \in 1 .. (Len(toServer) + 1) :
               \/ toServer'[i] = m
               \/ i \in DOMAIN toServer /\ toServer'[i] = toServer[i]
      BY <3>1, <3>2
    <3> QED BY <1>1, <3>3, <3>4 DEF Resumables
  <2> QED BY <2>1, <2>2
<1>5. HeldTicket'
  <2>1. CASE cliSess'.ticket \in {NoTicket, cliSess.ticket}
    BY <1>1, <2>1 DEF HeldTicket
  <2>2. CASE toClient # << >> /\ cliSess'.ticket = Head(toClient).ticket
    <3>1. toClient \in Seq(Messages)
      BY DEF WireTypeOK
    <3>2. 1 \in DOMAIN toClient /\ Head(toClient) = toClient[1]
      BY <2>2, <3>1
    <3> QED BY <1>1, <2>2, <3>2 DEF Resumables, HeldTicket
  <2> QED BY <2>1, <2>2 DEF ClientTickets
<1> QED BY <1>2, <1>3, <1>4, <1>5 DEF Resumables

-----------------------------------------------------------------------------
(* The handshake buffer of the server, in the first handshake of a         *)
(* connection: it stays while a CertificateRequest may still be sent, or   *)
(* was sent and is not answered, or was answered with a certificate.       *)
Opening == {"BEFORE", "SR_CLNT_HELLO", "SW_SRVR_HELLO", "SW_CERT",
            "SW_CERT_STATUS", "SW_KEY_EXCH"}

ServerBuffer ==
  ServerFirstHandshake =>
    /\ srv.hand = "BEFORE" => srv.buffer \/ srv.flow = "UNINITED"
    /\ srv.hand = "SR_CLNT_HELLO" => srv.buffer
    /\ srv.hand \in Opening \ {"BEFORE"} => srv.buffer \/ srv.verify = "none"
    /\ srv.hand = "SW_CERT_REQ" => srv.buffer
    /\ srv.hand = "SW_SRVR_DONE" /\ srv.certRequest => srv.buffer
    /\ srv.hand \in {"SR_CERT", "SR_KEY_EXCH"} /\ srvSess.peer # "none" =>
         srv.buffer
    /\ srv.hand \in Opening => ~srv.certRequest
    /\ srv.hand \in Opening \cup {"SW_CERT_REQ", "SW_SRVR_DONE"} /\ ~srv.hit =>
         srvSess.peer = "none"

LEMMA ServerBufferKept ==
  ASSUME ServerTypeOK, ServerInv, ServerBuffer,
         \/ ServerStep \/ ServerNewConnection \/ UNCHANGED <<srv, srvSess>>
  PROVE  ServerBuffer'
<1> USE DEF ServerBuffer, ServerFirstHandshake, Opening, ServerTypeOK,
            ServerStates
<1>1. CASE ServerFatal /\ srv.flow # "UNINITED"
  <2>1. /\ srv'.hand = srv.hand /\ srv'.flow # "UNINITED"
        /\ srv'.hit = srv.hit /\ srv'.finRead = srv.finRead
        /\ srv'.finSent = srv.finSent /\ srv'.verify = srv.verify
        /\ srv'.buffer = srv.buffer /\ srv'.certRequest = srv.certRequest
        /\ srvSess' = srvSess
    BY <1>1 DEF ServerFatal
  <2> QED BY <1>1, <2>1
<1>2. CASE ServerAccept \/ ServerNewConnection
  <2> HIDE DEF ServerBuffer, ServerTypeOK, ServerStates
  <2>1. CASE ServerAccept
    <3>1. srv'.hand = "BEFORE" /\ ~srv'.certRequest /\ srv'.buffer
      BY <2>1 DEF ServerAccept, ClearedServerSsl, NewServerSsl
    <3>2. srvSess'.peer = "none"
      BY <2>1 DEF ServerAccept, ServerInv, Progress
    <3> QED BY <3>1, <3>2 DEF ServerBuffer
  <2>2. CASE ServerNewConnection
    <3>1. srv'.hand = "BEFORE" /\ ~srv'.certRequest /\ srv'.flow = "UNINITED"
      BY <2>2 DEF ServerNewConnection, ClearedServerSsl, NewServerSsl
    <3>2. srvSess'.peer = "none"
      BY <2>2 DEF ServerNewConnection, NoServerSession
    <3> QED BY <3>1, <3>2 DEF ServerBuffer
  <2> QED BY <1>2, <2>1, <2>2
<1>3. CASE ServerWrite
  <2> USE WriteSources DEF ServerWriting
  <2>1. CASE ServerTurnToRead
    <3>1. /\ srv'.flow = "READING" /\ srv'.hand = srv.hand
          /\ srv'.hit = srv.hit /\ srv'.finRead = srv.finRead
          /\ srv'.finSent = srv.finSent /\ srv'.verify = srv.verify
          /\ srvSess' = srvSess /\ srv.flow = "WRITING"
          /\ srv.buffer => srv'.buffer
          /\ srv'.certRequest => srv.certRequest
          /\ srv.hand = "SW_SRVR_DONE" => srv'.certRequest = srv.certRequest
      BY <2>1 DEF ServerTurnToRead
    <3> QED BY <3>1
  <2>2. CASE ServerSendHelloRequest \/ ServerSendCertificate
             \/ ServerSendCertStatus \/ ServerSendKeyExchange
    BY <2>2 DEF ServerSendHelloRequest, ServerSendCertificate,
                ServerSendCertStatus, ServerSendKeyExchange
  <2>3. CASE ServerSendServerHello
    BY <2>3 DEF ServerSendServerHello, ServerSessions
  <2>4. CASE ServerSendCertificateRequest
    <3>1. srv.hand = "SW_KEY_EXCH" /\ srv.verify # "none"
      BY <2>4 DEF ServerSendCertificateRequest, ServerWriteTransition,
                  AfterServerHello, SendCertificateRequest
    <3> QED BY <2>4, <3>1 DEF ServerSendCertificateRequest
  <2>5. CASE ServerSendServerDone
    <3>1. srv.hand \in {"SW_KEY_EXCH", "SW_CERT_REQ"}
      BY <2>5 DEF ServerSendServerDone
    <3>2. /\ srv'.hand = "SW_SRVR_DONE"
          /\ srv'.hit = srv.hit /\ srv'.finRead = srv.finRead
          /\ srv'.finSent = srv.finSent /\ srv'.certRequest = srv.certRequest
          /\ srv'.buffer = (srv.buffer /\ srv.certRequest)
          /\ srvSess' = srvSess
      BY <2>5 DEF ServerSendServerDone
    <3> QED BY <3>1, <3>2
  <2>6. CASE ServerSendSessionTicket \/ ServerSendFinished
             \/ ServerFinishHandshake
    BY <2>6 DEF ServerSendSessionTicket, ServerSendFinished,
                ServerFinishHandshake
  <2>7. CASE ServerSendChangeCipherSpec
    <3>1. \/ ServerFatal /\ srv.flow # "UNINITED"
          \/ srv'.hand = "SW_CHANGE"
      BY <2>7 DEF ServerSendChangeCipherSpec
    <3> QED BY <1>1, <3>1
  <2> QED BY <1>3, <2>1, <2>2, <2>3, <2>4, <2>5, <2>6, <2>7 DEF ServerWrite
<1>4. CASE ServerRead
  <2> USE ReadSources DEF ServerReading
  <2>0. srv.flow # "UNINITED"
    BY <1>4 DEF ServerRead, ServerRejectRenegotiation, ServerResume,
                ServerNewSession, ServerReadCertificate, ServerReadKeyExchange,
                ServerReadCertVerify, ServerReadChangeCipherSpec,
                ServerReadNextProto, ServerReadFinished, ServerUnexpected,
                ServerReadAlert, ServerReadNoRenegotiation, ServerWake,
                ServerStrayChangeCipherSpec
  <2>1. CASE ServerRejectRenegotiation
    BY <2>1 DEF ServerRejectRenegotiation
  <2>2. CASE ServerResume \/ ServerNewSession
    <3>1. /\ srv.hand = "BEFORE" /\ srv.flow = "READING"
          /\ ServerFirstHandshake
      BY <2>2, HelloBefore DEF ServerResume, ServerNewSession
    <3>2. \/ ServerFatal
          \/ /\ srv'.hand = "SR_CLNT_HELLO" /\ srv'.buffer = srv.buffer
             /\ srv'.certRequest = srv.certRequest
             /\ srv'.hit \/ srvSess'.peer = "none"
      <4> HIDE DEF ServerBuffer, ServerReading
      <4>1. CASE ServerResume
        BY <4>1 DEF ServerResume, ServerAfterClientHello
      <4>2. CASE ServerNewSession
        BY <4>2 DEF ServerNewSession, ServerAfterClientHello, NoServerSession
      <4> QED BY <2>2, <4>1, <4>2
    <3> QED BY <1>1, <2>0, <3>1, <3>2
  <2>3. CASE ServerReadCertificate
    <3>1. srv.hand = "SW_SRVR_DONE" /\ srv.certRequest
      BY <2>3 DEF ServerReadCertificate, ServerReadTransition
    <3>2. \/ ServerFatal
          \/ /\ srv'.hand = "SR_CERT"
             /\ srv'.finRead = srv.finRead /\ srv'.finSent = srv.finSent
             /\ srv'.buffer = (srv.buffer /\ ServerInput.chain # "empty")
             /\ ServerInput.chain = "empty" => srvSess'.peer = "none"
      BY <2>3 DEF ServerReadCertificate, ServerSessions
    <3> QED BY <1>1, <2>0, <3>1, <3>2
  <2>4. CASE ServerReadKeyExchange
    <3>1. srv.hand \in {"SW_SRVR_DONE", "SR_CERT"}
      BY <2>4 DEF ServerReadKeyExchange
    <3>2. \/ ServerFatal
          \/ /\ srv'.hand = "SR_KEY_EXCH"
             /\ srvSess.peer # "none" => srv.buffer
             /\ srv'.buffer = (srv.buffer /\ srvSess.peer # "none")
             /\ srvSess'.peer = srvSess.peer
      BY <2>4 DEF ServerReadKeyExchange, ServerSessions
    <3> QED BY <1>1, <2>0, <3>1, <3>2
  <2>5. CASE ServerReadCertVerify \/ ServerReadChangeCipherSpec
             \/ ServerReadNextProto \/ ServerReadFinished
    <3>1. ServerFatal \/ srv'.hand \in {"SR_CERT_VRFY", "SR_CHANGE",
                                        "SR_NEXT_PROTO", "SR_FINISHED"}
      BY <2>5 DEF ServerReadCertVerify, ServerReadChangeCipherSpec,
                  ServerReadNextProto, ServerReadFinished
    <3> QED BY <1>1, <2>0, <3>1
  <2>6. CASE ServerUnexpected \/ ServerReadNoRenegotiation
             \/ ServerStrayChangeCipherSpec
    BY <1>1, <2>0, <2>6 DEF ServerUnexpected, ServerReadNoRenegotiation,
                      ServerStrayChangeCipherSpec
  <2>7. CASE ServerReadAlert
    <3>1. CASE srv' = [srv EXCEPT !.flow = "ERROR"] /\ srvSess' = srvSess
      <4>1. srv.flow # "UNINITED"
        BY <2>7 DEF ServerReadAlert
      <4> QED BY <3>1, <4>1
    <3> QED BY <1>1, <2>0, <2>7, <3>1 DEF ServerReadAlert
  <2>8. CASE ServerWake
    BY <2>8 DEF ServerWake, ServerInv, Position
  <2> QED BY <1>4, <2>1, <2>2, <2>3, <2>4, <2>5, <2>6, <2>7, <2>8
          DEF ServerRead
<1>5. CASE ServerRenegotiate
  BY <1>5 DEF ServerRenegotiate, ServerInv, Position
<1>6. CASE UNCHANGED <<srv, srvSess>>
  BY <1>6
<1> QED BY <1>2, <1>3, <1>4, <1>5, <1>6 DEF ServerStep
=============================================================================
