-------------------------- MODULE NtlsServerSafety --------------------------
(***************************************************************************)
(* The safety theorems of the NTLS server against an arbitrary client.     *)
(***************************************************************************)
EXTENDS NtlsServerOpen, NtlsEndpointProofs

(* The client takes what was sent and puts a message on the wire.          *)
LEMMA ClientSaysType ==
  ASSUME TypeOK, NEW m \in Messages, ClientSays(m)
  PROVE  TypeOK'
<1>1. tickets' \subseteq Tickets
  <2>1. \A j \in DOMAIN toClient : toClient[j] \in Messages
    BY DEF TypeOK, WireTypeOK
  <2>2. \A j \in DOMAIN toClient : toClient[j].ticket \in Tickets
    BY <2>1 DEF Messages
  <2> QED BY <2>2 DEF ClientSays, TypeOK
<1> QED BY <1>1
        DEF ClientSays, TypeOK, ServerTypeOK, WireTypeOK, serverVars

(* The transcripts the client may sign are typed.                          *)
LEMMA TranscriptsType ==
  ASSUME TypeOK
  PROVE  \A h \in {srvHs, << >>} : h \in Seq(HandshakeTypes)
<1>1. srvHs \in Seq(HandshakeTypes)
  BY DEF TypeOK, ServerTypeOK
<1>2. << >> \in Seq(HandshakeTypes)
  OBVIOUS
<1> QED BY <1>1, <1>2

(* Whatever the client says is a message.                                  *)
LEMMA ClientSendsType ==
  ASSUME TypeOK, ClientSends
  PROVE  TypeOK'
<1>1. srv.rkey \in Nat /\ srv.rkey + 1 \in Nat
  BY DEF TypeOK, ServerTypeOK, ServerStates
<1>2. \A t \in ClientHandshakeTypes \cup AlertTypes \cup {"CHANGE_CIPHER_SPEC"} :
        Message(t, srv.rkey) \in Messages
  BY <1>1, MessageType DEF MessageTypes, HandshakeTypes
<1>3. CASE ClientSaysHello
  <2>1. PICK e \in {{}, {"ticket"}, Extensions}, s \in {{}, Suites},
             i \in {NoSid, ServerSid(srvFresh)} \cup { c.sid : c \in srvCache },
             t \in {NoTicket} \cup tickets :
          ClientSays([Message("CLIENT_HELLO", srv.rkey) EXCEPT
                        !.ext = e, !.suites = s, !.sid = i, !.ticket = t])
    BY <1>3 DEF ClientSaysHello
  <2>2. i \in Sids
    BY DEF TypeOK, ServerTypeOK, ServerSessions, NoSid, ServerSid, Sids,
           SidKinds
  <2>3. t \in Tickets
    BY SuitesAssumption DEF TypeOK, NoTicket, Tickets
  <2>4. e \in SUBSET Extensions /\ s \in SUBSET Suites
    BY DEF Extensions
  <2>5. Message("CLIENT_HELLO", srv.rkey) \in Messages
    BY <1>2 DEF ClientHandshakeTypes
  <2>6. [Message("CLIENT_HELLO", srv.rkey) EXCEPT
           !.ext = e, !.suites = s, !.sid = i, !.ticket = t] \in Messages
    BY <2>2, <2>3, <2>4, <2>5 DEF Messages
  <2> QED BY <2>1, <2>6, ClientSaysType
<1>4. CASE ClientSaysCertificate
  <2>1. PICK c \in Chains :
          ClientSays([Message("CERTIFICATE", srv.rkey) EXCEPT !.chain = c])
    BY <1>4 DEF ClientSaysCertificate
  <2>2. [Message("CERTIFICATE", srv.rkey) EXCEPT !.chain = c] \in Messages
    BY <1>2 DEF Messages, ClientHandshakeTypes
  <2> QED BY <2>1, <2>2, ClientSaysType
<1>5. CASE ClientSaysKeyExchange
  <2>1. PICK n \in Secrets :
          ClientSays([Message("CLIENT_KEY_EXCHANGE", srv.rkey) EXCEPT
                        !.secret = n])
    BY <1>5 DEF ClientSaysKeyExchange
  <2>2. [Message("CLIENT_KEY_EXCHANGE", srv.rkey) EXCEPT !.secret = n]
          \in Messages
    BY <1>2, ServerOpenAssumption DEF Messages, ClientHandshakeTypes
  <2> QED BY <2>1, <2>2, ClientSaysType
<1>6. CASE ClientSaysCertVerify
  <2>1. PICK c \in {"good", "bad"}, h \in {srvHs, << >>} :
          ClientSays([Message("CERTIFICATE_VERIFY", srv.rkey) EXCEPT
                        !.chain = c, !.hs = h])
    BY <1>6 DEF ClientSaysCertVerify
  <2>2. c \in Chains /\ h \in Seq(HandshakeTypes)
    BY TranscriptsType DEF Chains
  <2>3. Message("CERTIFICATE_VERIFY", srv.rkey) \in Messages
    BY <1>2 DEF ClientHandshakeTypes
  <2>4. [Message("CERTIFICATE_VERIFY", srv.rkey) EXCEPT !.chain = c, !.hs = h]
          \in Messages
    BY <2>2, <2>3 DEF Messages
  <2> QED BY <2>1, <2>4, ClientSaysType
<1>7. CASE ClientSaysFinished
  <2>1. PICK n \in {0, srvSess.ms}, h \in {srvHs, << >>} :
          ClientSays([Message("FINISHED", srv.rkey) EXCEPT
                        !.secret = n, !.hs = h])
    BY <1>7 DEF ClientSaysFinished
  <2>2. n \in Nat
    BY DEF TypeOK, ServerTypeOK, ServerSessions
  <2>3. Message("FINISHED", srv.rkey) \in Messages
    BY <1>2 DEF ClientHandshakeTypes
  <2>4. [Message("FINISHED", srv.rkey) EXCEPT !.secret = n, !.hs = h]
          \in Messages
    BY <2>2, <2>3, TranscriptsType DEF Messages
  <2> QED BY <2>1, <2>4, ClientSaysType
<1>8. CASE ClientSaysOther
  <2>1. PICK t \in AlertTypes \cup {"CHANGE_CIPHER_SPEC", "NEXT_PROTO"} :
          ClientSays(Message(t, srv.rkey))
    BY <1>8 DEF ClientSaysOther
  <2>2. Message(t, srv.rkey) \in Messages
    BY <1>2 DEF ClientHandshakeTypes
  <2> QED BY <2>1, <2>2, ClientSaysType
<1>9. CASE ClientSaysGarbage
  <2>1. Message("FINISHED", srv.rkey + 1) \in Messages
    BY <1>1, MessageType DEF MessageTypes, HandshakeTypes, ClientHandshakeTypes
  <2> QED BY <1>9, <2>1, ClientSaysType DEF ClientSaysGarbage
<1> QED BY <1>3, <1>4, <1>5, <1>6, <1>7, <1>8, <1>9 DEF ClientSends

(* The server's state keeps its type, whatever the client sends and for    *)
(* every choice of suites, settings and bounds: no handler of              *)
(* ntls_statem_srvr.c leaves the SSL object, the session, the cache or the *)
(* wire outside the values the model gives them.                           *)
THEOREM ServerTypeCorrect == Spec => []TypeOK
<1>1. Init => TypeOK
  <2> SUFFICES ASSUME Init PROVE TypeOK
    OBVIOUS
  <2>1. srv \in ServerStates
    BY NewServerType DEF Init, ServerInit
  <2>2. srvSess \in ServerSessions
    BY DEF Init, ServerInit, NoServerSession, ServerSessions, NoSid, Sids,
           SidKinds
  <2>3. ServerTypeOK
    BY <2>1, <2>2 DEF Init, ServerInit, ServerTypeOK
  <2> QED BY <2>3, ServerOpenAssumption DEF Init, WireInit, TypeOK, WireTypeOK
<1>2. TypeOK /\ [Next]_vars => TypeOK'
  <2> SUFFICES ASSUME TypeOK, [Next]_vars PROVE TypeOK'
    OBVIOUS
  <2>1. CASE ServerStep /\ UNCHANGED <<conn, tickets>>
    BY <2>1, StepType DEF TypeOK
  <2>2. CASE ClientSends
    BY <2>2, ClientSendsType
  <2>3. CASE NewConnection
    <3>1. ServerTypeOK'
      BY <2>3, BetweenConnectionsType DEF NewConnection, TypeOK
    <3>2. conn' \in 1..MaxConns
      BY <2>3, ServerOpenAssumption DEF NewConnection, TypeOK
    <3> QED BY <2>3, <3>1, <3>2 DEF NewConnection, TypeOK, WireTypeOK
  <2>4. CASE ContextStep
    <3>1. ServerTypeOK'
      BY <2>4, BetweenConnectionsType DEF ContextStep, TypeOK
    <3> QED BY <2>4, <3>1 DEF ContextStep, TypeOK, WireTypeOK, wireVars
  <2>5. CASE UNCHANGED vars
    BY <2>5 DEF vars, serverVars, wireVars, TypeOK, ServerTypeOK, WireTypeOK
  <2> QED BY <2>1, <2>2, <2>3, <2>4, <2>5 DEF Next, Done
<1> QED BY <1>1, <1>2, PTL DEF Spec

(* The invariant of the server holds whatever the client does.             *)
THEOREM ServerInvariant == Spec => []ServerInv
<1>1. Init => ServerInv
  BY DEF Init, ServerInit, NewServerSsl, NoServerSession, ServerInv, Position,
         Progress, Keys, AfterClientFinished, ReadSwitched, WriteSwitched,
         ServerFirstHandshake
<1>2. TypeOK /\ ServerInv /\ [Next]_vars => ServerInv'
  <2> SUFFICES ASSUME TypeOK, ServerInv, [Next]_vars PROVE ServerInv'
    OBVIOUS
  <2>1. ServerTypeOK
    BY DEF TypeOK
  <2>2. CASE ServerStep
    BY <2>1, <2>2, WriteInv, ReadInv, OpeningInv DEF ServerStep
  <2>3. CASE NewConnection
    BY <2>1, <2>3, OpeningInv DEF NewConnection
  <2>4. CASE UNCHANGED <<srv, srvSess>>
    BY <2>4 DEF ServerInv, Position, Progress, Keys, AfterClientFinished,
                ReadSwitched, WriteSwitched, ServerFirstHandshake
  <2>5. CASE ClientSends
    <3>1. UNCHANGED serverVars
      BY <2>5 DEF ClientSends, ClientSaysHello, ClientSaysCertificate,
                  ClientSaysKeyExchange, ClientSaysCertVerify,
                  ClientSaysFinished, ClientSaysOther, ClientSaysGarbage,
                  ClientSays
    <3> QED BY <2>4, <3>1 DEF serverVars
  <2>6. CASE ContextStep
    BY <2>4, <2>6 DEF ContextStep, ServerForgetSession, ServerRotateTicketKey
  <2>7. CASE UNCHANGED vars
    BY <2>4, <2>7 DEF vars, serverVars
  <2> QED BY <2>2, <2>3, <2>5, <2>6, <2>7 DEF Next, Done
<1> QED BY <1>1, <1>2, ServerTypeCorrect, PTL DEF Spec

(* No client gets the server to report a finished handshake without a      *)
(* verified Finished over the transcript and, where the session names a    *)
(* client certificate, a signature by its key: for every set of suites and *)
(* settings, any number of connections and renegotiations.                 *)
THEOREM ServerFinishesVerified == Spec => []FinishedMeansVerified
<1>1. ServerInv => FinishedMeansVerified
  BY DEF ServerInv, Position, Progress, AfterClientFinished, WriteSwitched,
         FinishedMeansVerified
<1> QED BY <1>1, ServerInvariant, PTL

(* A finished server reads and writes under the session's master secret.   *)
THEOREM ServerFinishesProtected == Spec => []FinishedMeansProtected
<1>1. ServerInv => FinishedMeansProtected
  BY DEF ServerInv, Position, Keys, AfterClientFinished, ReadSwitched,
         WriteSwitched, FinishedMeansProtected
<1> QED BY <1>1, ServerInvariant, PTL

(* ossl_statem_server_write_transition_ntls never gets to its default      *)
(* branch, "Shouldn't happen".                                             *)
THEOREM ServerWriteTotal == Spec => []NoWriteError
<1>1. TypeOK /\ ServerInv => NoWriteError
  <2> SUFFICES ASSUME TypeOK, ServerInv, srv.flow = "WRITING"
               PROVE  ServerWriteTransition # "ERROR"
    BY DEF NoWriteError
  <2>1. srv.hand \in ServerHandStates
    BY DEF TypeOK, ServerTypeOK, ServerStates
  <2>2. srv.hand \notin {"SR_CERT", "SR_KEY_EXCH", "SR_CERT_VRFY", "SR_CHANGE",
                         "SR_NEXT_PROTO"}
    BY DEF ServerInv, Position
  <2> QED BY <2>1, <2>2 DEF ServerWriteTransition, AfterServerHello,
                            ServerHandStates
<1> QED BY <1>1, ServerInvariant, ServerTypeCorrect, PTL

(* The tickets the client holds are vouched for too.                       *)
HeldTickets == \A t \in tickets : TicketVouched(t)

(* What the client says changes nothing in the server.                     *)
LEMMA ClientKeepsServer ==
  ASSUME ClientSends
  PROVE  UNCHANGED serverVars
BY DEF ClientSends, ClientSaysHello, ClientSaysCertificate,
       ClientSaysKeyExchange, ClientSaysCertVerify, ClientSaysFinished,
       ClientSaysOther, ClientSaysGarbage, ClientSays

(* The client hands back the tickets it was sent, and no others.           *)
LEMMA ClientResumables ==
  ASSUME TypeOK, Resumables, HeldTickets, ClientSends
  PROVE  Resumables' /\ HeldTickets' /\ UNCHANGED serverVars
<1>1. \E m : TicketVouched(m.ticket) /\ ClientSays(m)
  <2> USE DEF Message, TicketVouched, Resumables, HeldTickets
  <2>1. CASE ClientSaysHello
    <3>1. PICK e \in {{}, {"ticket"}, Extensions}, s \in {{}, Suites},
               i \in {NoSid, ServerSid(srvFresh)} \cup { c.sid : c \in srvCache },
               t \in {NoTicket} \cup tickets :
            ClientSays([Message("CLIENT_HELLO", srv.rkey) EXCEPT
                          !.ext = e, !.suites = s, !.sid = i, !.ticket = t])
      BY <2>1 DEF ClientSaysHello
    <3> DEFINE m == [Message("CLIENT_HELLO", srv.rkey) EXCEPT
                       !.ext = e, !.suites = s, !.sid = i, !.ticket = t]
    <3>2. m.ticket = t /\ ClientSays(m)
      BY <3>1
    <3>3. TicketVouched(t)
      OBVIOUS
    <3> HIDE DEF m
    <3> QED BY <3>2, <3>3
  <2>2. CASE ClientSaysCertificate
    BY <2>2 DEF ClientSaysCertificate
  <2>3. CASE ClientSaysKeyExchange
    BY <2>3 DEF ClientSaysKeyExchange
  <2>4. CASE ClientSaysCertVerify
    <3>1. PICK c \in {"good", "bad"}, h \in {srvHs, << >>} :
            ClientSays([Message("CERTIFICATE_VERIFY", srv.rkey) EXCEPT
                          !.chain = c, !.hs = h])
      BY <2>4 DEF ClientSaysCertVerify
    <3> QED BY <3>1
  <2>5. CASE ClientSaysFinished
    <3>1. PICK n \in {0, srvSess.ms}, h \in {srvHs, << >>} :
            ClientSays([Message("FINISHED", srv.rkey) EXCEPT
                          !.secret = n, !.hs = h])
      BY <2>5 DEF ClientSaysFinished
    <3> QED BY <3>1
  <2>6. CASE ClientSaysOther
    BY <2>6, PlainMessage DEF ClientSaysOther
  <2>7. CASE ClientSaysGarbage
    BY <2>7, PlainMessage DEF ClientSaysGarbage
  <2> QED BY <2>1, <2>2, <2>3, <2>4, <2>5, <2>6, <2>7 DEF ClientSends
<1>2. PICK m : TicketVouched(m.ticket) /\ ClientSays(m)
  BY <1>1
<1>3. UNCHANGED serverVars
  BY <1>2 DEF ClientSays
<1>4. srvCfg' = srvCfg /\ srvCache' = srvCache
  BY <1>3 DEF serverVars
<1> USE DEF TicketVouched, Vouched
<1>5. (\A c \in srvCache : c.ms # 0 /\ Vouched(c.cipher, c.peer))'
  BY <1>4 DEF Resumables
<1>6. (\A t \in tickets : TicketVouched(t))'
  <2> SUFFICES ASSUME NEW t \in tickets' PROVE TicketVouched(t)'
    OBVIOUS
  <2>1. t \in tickets \/ \E j \in DOMAIN toClient : t = toClient[j].ticket
    BY <1>2 DEF ClientSays
  <2> QED BY <1>4, <2>1 DEF Resumables, HeldTickets
<1>7. (\A i \in DOMAIN toClient : TicketVouched(toClient[i].ticket))'
  BY <1>2 DEF ClientSays
<1>8. (\A i \in DOMAIN toServer : TicketVouched(toServer[i].ticket))'
  <2>1. toServer' = <<m>>
    BY <1>2 DEF ClientSays
  <2> QED BY <1>2, <1>4, <2>1
<1> QED BY <1>3, <1>5, <1>6, <1>7, <1>8 DEF Resumables, HeldTickets

(* Whatever a client can resume is vouched for, and a server that needs a  *)
(* client certificate has one verified or is still to ask for it: in every *)
(* state, for every client.                                                *)
THEOREM SessionInvariant == Spec => [](SessionInv /\ HeldTickets)
<1>1. Init => SessionInv /\ HeldTickets
  <2> SUFFICES ASSUME Init PROVE SessionInv /\ HeldTickets
    OBVIOUS
  <2>1. NoSuite \notin MutualSuites
    BY SuitesAssumption
  <2>2. /\ srv.hand = "BEFORE" /\ srv.flow = "UNINITED" /\ ~srv.hit
        /\ srv.newCipher = NoSuite /\ ~srv.certReqSent /\ ~srv.finRead
        /\ srv.verify = srvCfg.verify /\ srvSess.cipher = NoSuite
    BY DEF Init, ServerInit, NewServerSsl, NoServerSession
  <2>3. srvCache = {} /\ tickets = {} /\ toClient = << >> /\ toServer = << >>
    BY DEF Init, ServerInit, WireInit
  <2> QED BY <2>1, <2>2, <2>3
          DEF SessionInv, Resumables, HeldTickets, Negotiated, Asked
<1>2. TypeOK /\ ServerInv /\ SessionInv /\ HeldTickets /\ [Next]_vars
        => SessionInv' /\ HeldTickets'
  <2> SUFFICES ASSUME TypeOK, ServerInv, SessionInv, HeldTickets, [Next]_vars
               PROVE  SessionInv' /\ HeldTickets'
    OBVIOUS
  <2> USE DEF SessionInv
  <2>1. ServerTypeOK /\ WireTypeOK
    BY DEF TypeOK
  <2>2. CASE ServerStep /\ UNCHANGED <<conn, tickets>>
    <3>1. Resumables'
      BY <2>1, <2>2, StepResumables
    <3>2. Negotiated' /\ Asked'
      BY <2>1, <2>2, WriteAsked, ReadAsked, OpeningAsked DEF ServerStep
    <3>3. srvCfg' = srvCfg
      BY <2>2, ServerKeepsSettings
    <3>4. HeldTickets'
      BY <2>2, <3>3 DEF HeldTickets, TicketVouched, Vouched
    <3> QED BY <3>1, <3>2, <3>4
  <2>3. CASE NewConnection
    <3>1. Negotiated' /\ Asked'
      BY <2>1, <2>3, OpeningAsked DEF NewConnection
    <3>2. UNCHANGED <<srvCfg, srvCache, tickets>>
            /\ toClient' = << >> /\ toServer' = << >>
      BY <2>3 DEF NewConnection, ServerNewConnection
    <3>3. Resumables'
      BY <3>2 DEF Resumables, TicketVouched, Vouched
    <3>4. HeldTickets'
      BY <3>2 DEF HeldTickets, TicketVouched, Vouched
    <3> QED BY <3>1, <3>3, <3>4
  <2>4. CASE /\ UNCHANGED <<srv, srvSess, srvCfg, toClient, toServer, tickets>>
             /\ srvCache' \subseteq srvCache
    BY <2>4 DEF Resumables, HeldTickets, TicketVouched, Vouched, Negotiated,
                Asked
  <2>5. CASE ClientSends
    <3>1. Resumables' /\ HeldTickets' /\ UNCHANGED serverVars
      BY <2>5, ClientResumables
    <3>2. UNCHANGED <<srv, srvSess, srvCfg>>
      BY <3>1 DEF serverVars
    <3>3. Negotiated' /\ Asked'
      BY <3>2 DEF Negotiated, Asked, Vouched
    <3> QED BY <3>1, <3>3
  <2>6. CASE ContextStep
    BY <2>4, <2>6 DEF ContextStep, ServerForgetSession, ServerRotateTicketKey,
                      wireVars
  <2>7. CASE UNCHANGED vars
    BY <2>4, <2>7 DEF vars, serverVars, wireVars
  <2> QED BY <2>2, <2>3, <2>5, <2>6, <2>7 DEF Next, Done
<1> QED BY <1>1, <1>2, ServerTypeCorrect, ServerInvariant, PTL DEF Spec

(* The two internal errors in the pre work of TLS_ST_SW_CHANGE, another    *)
(* cipher in the session and no master secret, are out of every client's   *)
(* reach.                                                                  *)
THEOREM ServerChangeCipherSpecReady == Spec => []ChangeCipherSpecReady
<1>1. ServerInv /\ SessionInv => ChangeCipherSpecReady
  <2> SUFFICES ASSUME ServerInv, SessionInv, ServerWriting("SW_CHANGE")
               PROVE  srvSess.ms # 0 /\ srvSess.cipher \in {NoSuite, srv.newCipher}
    BY DEF ChangeCipherSpecReady
  <2>1. \/ srv.hand = "SW_SRVR_HELLO" /\ srv.hit
        \/ srv.hand = "SR_FINISHED" /\ ~srv.hit
        \/ srv.hand = "SW_SESSION_TICKET"
    BY WriteSources DEF ServerWriting
  <2> QED BY <2>1 DEF ServerInv, Keys, ReadSwitched, AfterClientFinished,
                      SessionInv, Negotiated
<1> QED BY <1>1, ServerInvariant, SessionInvariant, PTL

(* A server that requires a client certificate, by its verify mode or by   *)
(* an SM2DHE suite, finishes only with a client whose certificate          *)
(* verified, in this handshake or in the one that made the resumed         *)
(* session, provided that the application does not reuse SSL objects with  *)
(* SSL_clear.                                                              *)
THEOREM ServerAuthenticatesClient ==
  Spec => [](~srvCfg.reuse => ClientAuthenticated)
<1>1. ServerInv /\ SessionInv => (~srvCfg.reuse => ClientAuthenticated)
  BY DEF ServerInv, Position, SessionInv, Asked, Vouched, ClientAuthenticated
<1> QED BY <1>1, ServerInvariant, SessionInvariant, PTL

(* Only construct_stateless_ticket_ntls brings the server to               *)
(* TLS_ST_SW_SESSION_TICKET.                                               *)
LEMMA TicketStep ==
  ASSUME ServerTypeOK, ServerStep, srv'.hand = "SW_SESSION_TICKET"
  PROVE  srv.hand = "SW_SESSION_TICKET" \/ ServerSendSessionTicket
<1> USE DEF ServerTypeOK, ServerStates
<1>0. ServerFatal => srv'.hand = srv.hand
  BY DEF ServerFatal
<1>1. CASE ServerAccept
  BY <1>1 DEF ServerAccept, ClearedServerSsl, NewServerSsl
<1>2. CASE ServerRenegotiate \/ ServerWake
  BY <1>2 DEF ServerRenegotiate, ServerWake
<1>3. CASE ServerTurnToRead
  BY <1>3 DEF ServerTurnToRead
<1>4. CASE \/ ServerSendHelloRequest \/ ServerSendServerHello
           \/ ServerSendCertificate \/ ServerSendCertStatus
           \/ ServerSendKeyExchange \/ ServerSendCertificateRequest
           \/ ServerSendServerDone \/ ServerSendFinished
           \/ ServerFinishHandshake
  BY <1>4 DEF ServerSendHelloRequest, ServerSendServerHello,
              ServerSendCertificate, ServerSendCertStatus,
              ServerSendKeyExchange, ServerSendCertificateRequest,
              ServerSendServerDone, ServerSendFinished, ServerFinishHandshake
<1>5. CASE ServerSendChangeCipherSpec
  BY <1>0, <1>5 DEF ServerSendChangeCipherSpec
<1>6. CASE ServerRejectRenegotiation \/ ServerReadNextProto
  BY <1>6 DEF ServerRejectRenegotiation, ServerReadNextProto
<1>7. CASE ServerResume \/ ServerNewSession
  BY <1>0, <1>7 DEF ServerResume, ServerNewSession, ServerAfterClientHello
<1>8. CASE ServerReadCertificate
  BY <1>0, <1>8 DEF ServerReadCertificate
<1>9. CASE ServerReadKeyExchange
  BY <1>0, <1>9 DEF ServerReadKeyExchange
<1>10. CASE ServerReadCertVerify
  BY <1>0, <1>10 DEF ServerReadCertVerify
<1>11. CASE ServerReadChangeCipherSpec
  BY <1>0, <1>11 DEF ServerReadChangeCipherSpec
<1>12. CASE ServerReadFinished
  BY <1>0, <1>12 DEF ServerReadFinished
<1>13. CASE ServerUnexpected \/ ServerReadNoRenegotiation
              \/ ServerStrayChangeCipherSpec
  BY <1>0, <1>13 DEF ServerUnexpected, ServerReadNoRenegotiation,
                     ServerStrayChangeCipherSpec
<1>14. CASE ServerReadAlert
  BY <1>0, <1>14 DEF ServerReadAlert
<1> QED BY <1>1, <1>2, <1>3, <1>4, <1>5, <1>6, <1>7, <1>8, <1>9, <1>10, <1>11,
           <1>12, <1>13, <1>14 DEF ServerStep, ServerWrite, ServerRead

(* No step caches a session or starts a NewSessionTicket before a Finished *)
(* of the client was verified, or in a session that was itself resumed.    *)
THEOREM ServerResumableAfterFinished == Spec => ResumableOnlyAfterFinished
<1> DEFINE A == (srvCache' \ srvCache # {} \/ srv'.hand = "SW_SESSION_TICKET")
                  => srv.finOk \/ srv.hit
<1>1. TypeOK /\ ServerInv /\ SessionInv /\ [Next]_vars => [A]_vars
  <2> SUFFICES ASSUME TypeOK, ServerInv, SessionInv, Next,
                      srvCache' \ srvCache # {} \/ srv'.hand = "SW_SESSION_TICKET"
               PROVE  srv.finOk \/ srv.hit
    OBVIOUS
  <2>1. srv.hand = "SW_SESSION_TICKET" => srv.finOk \/ srv.hit
    BY DEF ServerInv, Progress, AfterClientFinished
  <2>2. CASE ServerStep
    <3>1. CASE ServerFinishHandshake
      <4>1. CASE ServerCaches
        <5>1. AfterClientFinished
          BY <3>1, <4>1, WriteSources
          DEF ServerFinishHandshake, ServerWriting, ServerCaches,
              AfterClientFinished
        <5> QED BY <5>1 DEF ServerInv, Progress
      <4>2. CASE ~ServerCaches
        BY <3>1, <4>2
        DEF ServerFinishHandshake, TypeOK, ServerTypeOK, ServerStates
      <4> QED BY <4>1, <4>2
    <3>2. CASE ServerSendSessionTicket
      BY <3>2, WriteSources
      DEF ServerSendSessionTicket, ServerWriting, ServerInv, Progress,
          AfterClientFinished
    <3>3. CASE ~ServerFinishHandshake /\ ~ServerSendSessionTicket
      BY <2>1, <2>2, <3>3, ServerPlain, TicketStep DEF PlainStep, TypeOK
    <3> QED BY <3>1, <3>2, <3>3
  <2>3. CASE ClientSends
    BY <2>1, <2>3, ClientKeepsServer DEF serverVars
  <2>4. CASE NewConnection
    BY <2>4 DEF NewConnection, ServerNewConnection, ClearedServerSsl,
                NewServerSsl
  <2>5. CASE ContextStep \/ Done
    BY <2>1, <2>5 DEF ContextStep, ServerForgetSession, ServerRotateTicketKey,
                      Done, vars, serverVars
  <2> QED BY <2>2, <2>3, <2>4, <2>5 DEF Next
<1> QED BY <1>1, ServerTypeCorrect, ServerInvariant, SessionInvariant, PTL
        DEF Spec, ResumableOnlyAfterFinished
=============================================================================
