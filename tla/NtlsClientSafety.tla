-------------------------- MODULE NtlsClientSafety --------------------------
(***************************************************************************)
(* The theorems about the NTLS client against an arbitrary server.         *)
(***************************************************************************)
EXTENDS NtlsClientOpen, NtlsEndpointProofs

(* The server puts a message on the wire.                                  *)
LEMMA ServerSaysType ==
  ASSUME TypeOK, NEW m \in Messages, ServerSays(m)
  PROVE  TypeOK'
BY DEF ServerSays, TypeOK, ClientTypeOK, WireTypeOK, clientVars

(* Whatever the server says is a message.                                  *)
LEMMA ServerSendsType ==
  ASSUME TypeOK, ServerSends
  PROVE  TypeOK'
<1>1. cli.rkey \in Nat /\ cli.rkey + 1 \in Nat
  BY DEF TypeOK, ClientTypeOK, ClientStates
<1>2. \A t \in ServerHandshakeTypes \cup AlertTypes \cup {"CHANGE_CIPHER_SPEC"} :
        Message(t, cli.rkey) \in Messages
  BY <1>1, MessageType DEF MessageTypes, HandshakeTypes
<1>3. conn \in Nat
  BY ClientOpenAssumption DEF TypeOK
<1>4. CASE ServerSaysHello
  <2>1. PICK e \in {{}, {"ticket"}, Extensions}, s \in Suites \cup {NoSuite},
             i \in {NoSid, ServerSid(conn), cliSess.sid} :
          ServerSays([Message("SERVER_HELLO", cli.rkey) EXCEPT
                        !.ext = e, !.suite = s, !.sid = i])
    BY <1>4 DEF ServerSaysHello
  <2>2. i \in Sids
    BY <1>3 DEF TypeOK, ClientTypeOK, ClientSessions, NoSid, ServerSid, Sids,
                SidKinds
  <2>3. e \in SUBSET Extensions
    BY DEF Extensions
  <2>4. Message("SERVER_HELLO", cli.rkey) \in Messages
    BY <1>2 DEF ServerHandshakeTypes
  <2>5. [Message("SERVER_HELLO", cli.rkey) EXCEPT
           !.ext = e, !.suite = s, !.sid = i] \in Messages
    BY <2>2, <2>3, <2>4 DEF Messages
  <2> QED BY <2>1, <2>5, ServerSaysType
<1>5. CASE ServerSaysCertificate
  <2>1. PICK c \in Chains :
          ServerSays([Message("CERTIFICATE", cli.rkey) EXCEPT !.chain = c])
    BY <1>5 DEF ServerSaysCertificate
  <2>2. [Message("CERTIFICATE", cli.rkey) EXCEPT !.chain = c] \in Messages
    BY <1>2 DEF Messages, ServerHandshakeTypes
  <2> QED BY <2>1, <2>2, ServerSaysType
<1>6. CASE ServerSaysKeyExchange
  <2>1. PICK c \in {"empty", "good", "bad"} :
          ServerSays([Message("SERVER_KEY_EXCHANGE", cli.rkey) EXCEPT
                        !.chain = c])
    BY <1>6 DEF ServerSaysKeyExchange
  <2>2. [Message("SERVER_KEY_EXCHANGE", cli.rkey) EXCEPT !.chain = c]
          \in Messages
    BY <1>2 DEF Messages, ServerHandshakeTypes, Chains
  <2> QED BY <2>1, <2>2, ServerSaysType
<1>7. CASE ServerSaysTicket
  <2> DEFINE sealed == [ n |-> conn, key |-> 0, suite |-> cli.newCipher,
                         ms |-> cliSess.ms, peer |-> "none" ]
  <2>1. PICK t \in {NoTicket, sealed} :
          ServerSays([Message("NEWSESSION_TICKET", cli.rkey) EXCEPT
                        !.ticket = t])
    BY <1>7 DEF ServerSaysTicket
  <2>2. sealed \in Tickets /\ NoTicket \in Tickets
    BY <1>3, SuitesAssumption DEF TypeOK, ClientTypeOK, ClientSessions,
                                  ClientStates, NoTicket, Tickets
  <2>3. [Message("NEWSESSION_TICKET", cli.rkey) EXCEPT !.ticket = t]
          \in Messages
    BY <1>2, <2>2 DEF Messages, ServerHandshakeTypes
  <2> QED BY <2>1, <2>3, ServerSaysType
<1>8. CASE ServerSaysFinished
  <2>1. PICK n \in {0, cliSess.ms}, h \in {cliHs, << >>} :
          ServerSays([Message("FINISHED", cli.rkey) EXCEPT
                        !.secret = n, !.hs = h])
    BY <1>8 DEF ServerSaysFinished
  <2>2. n \in Nat
    BY DEF TypeOK, ClientTypeOK, ClientSessions
  <2>3. h \in Seq(HandshakeTypes)
    <3>1. cliHs \in Seq(HandshakeTypes)
      BY DEF TypeOK, ClientTypeOK
    <3>2. << >> \in Seq(HandshakeTypes)
      OBVIOUS
    <3> QED BY <3>1, <3>2
  <2>4. Message("FINISHED", cli.rkey) \in Messages
    BY <1>2 DEF ServerHandshakeTypes
  <2>5. [Message("FINISHED", cli.rkey) EXCEPT !.secret = n, !.hs = h]
          \in Messages
    BY <2>2, <2>3, <2>4 DEF Messages
  <2> QED BY <2>1, <2>5, ServerSaysType
<1>9. CASE ServerSaysOther
  <2>1. PICK t \in AlertTypes \cup {"HELLO_REQUEST", "CERTIFICATE_STATUS",
                     "CERTIFICATE_REQUEST", "SERVER_DONE",
                     "CHANGE_CIPHER_SPEC"} :
          ServerSays(Message(t, cli.rkey))
    BY <1>9 DEF ServerSaysOther
  <2>2. Message(t, cli.rkey) \in Messages
    BY <1>2 DEF ServerHandshakeTypes
  <2> QED BY <2>1, <2>2, ServerSaysType
<1>10. CASE ServerSaysGarbage
  <2>1. Message("FINISHED", cli.rkey + 1) \in Messages
    BY <1>1, MessageType
       DEF MessageTypes, HandshakeTypes, ServerHandshakeTypes
  <2> QED BY <1>10, <2>1, ServerSaysType DEF ServerSaysGarbage
<1> QED BY <1>4, <1>5, <1>6, <1>7, <1>8, <1>9, <1>10 DEF ServerSends

(* The client's state keeps its type, whatever the server sends and for    *)
(* every choice of suites, settings and bounds (the handlers of            *)
(* ntls_statem_clnt.c).                                                    *)
THEOREM ClientTypeCorrect == Spec => []TypeOK
<1>1. Init => TypeOK
  <2> SUFFICES ASSUME Init PROVE TypeOK
    OBVIOUS
  <2>1. cli \in ClientStates
    BY DEF Init, ClientInit, NewClientSsl, ClientStates, ClientHandStates,
           FlowStates
  <2>2. ClientTypeOK
    BY <2>1, NoClientSessionType DEF Init, ClientInit, ClientTypeOK
  <2> QED BY <2>2, ClientOpenAssumption DEF Init, WireInit, TypeOK, WireTypeOK
<1>2. TypeOK /\ [Next]_vars => TypeOK'
  <2> SUFFICES ASSUME TypeOK, [Next]_vars PROVE TypeOK'
    OBVIOUS
  <2>1. CASE ClientStep /\ UNCHANGED conn
    BY <2>1, ClientStepType DEF TypeOK
  <2>2. CASE ServerSends
    BY <2>2, ServerSendsType
  <2>3. CASE NewConnection
    <3>1. ClientTypeOK'
      BY <2>3, ClientOpeningType DEF NewConnection, TypeOK
    <3>2. conn' \in 1..MaxConns
      BY <2>3, ClientOpenAssumption DEF NewConnection, TypeOK
    <3> QED BY <2>3, <3>1, <3>2 DEF NewConnection, TypeOK, WireTypeOK
  <2>4. CASE UNCHANGED vars
    BY <2>4 DEF vars, clientVars, wireVars, TypeOK, ClientTypeOK, WireTypeOK
  <2> QED BY <2>1, <2>2, <2>3, <2>4 DEF Next, Done
<1> QED BY <1>1, <1>2, PTL DEF Spec

(* The invariant of the client holds whatever the server does.             *)
THEOREM ClientInvariant == Spec => []ClientInv
<1>1. Init => ClientInv
  BY ClientInitInv DEF Init
<1>2. TypeOK /\ ClientInv /\ [Next]_vars => ClientInv'
  <2> SUFFICES ASSUME TypeOK, ClientInv, [Next]_vars PROVE ClientInv'
    OBVIOUS
  <2>1. ClientTypeOK /\ WireTypeOK
    BY DEF TypeOK
  <2>2. CASE ClientStep
    BY <2>1, <2>2, ClientStepInv
  <2>3. CASE NewConnection
    BY <2>1, <2>3, ClientOpeningInv DEF NewConnection
  <2>4. CASE UNCHANGED clientVars
    BY <2>4 DEF clientVars, ClientInv, ClientPosition, ClientHistory,
         ClientKeys, BufferKept, SessionOfServer, ClientSettled, LastWrites,
         LastReads, ClientReadSwitched, ClientWriteSwitched,
         ServerFinishedRead, ClientFinishedSent, AfterKeyExchange
  <2>5. CASE ServerSends
    <3>1. UNCHANGED clientVars
      BY <2>5 DEF ServerSends, ServerSaysHello, ServerSaysCertificate,
                  ServerSaysKeyExchange, ServerSaysTicket,
                  ServerSaysFinished, ServerSaysOther, ServerSaysGarbage,
                  ServerSays
    <3> QED BY <2>4, <3>1
  <2>6. CASE UNCHANGED vars
    BY <2>4, <2>6 DEF vars
  <2> QED BY <2>2, <2>3, <2>5, <2>6 DEF Next, Done
<1> QED BY <1>1, <1>2, ClientTypeCorrect, PTL DEF Spec

(* No server gets the client to report a finished handshake without a      *)
(* verified Finished over the transcript and, unless a session is resumed, *)
(* a ServerKeyExchange signed for the certificate of the session.          *)
THEOREM ClientFinishesVerified == Spec => []FinishedMeansVerified
<1>1. ClientInv => FinishedMeansVerified
  BY DEF ClientInv, ClientPosition, ClientHistory, ClientSettled,
         ServerFinishedRead, ClientFinishedSent, AfterKeyExchange,
         FinishedMeansVerified
<1> QED BY <1>1, ClientInvariant, PTL

(* A finished client reads and writes under the master secret of a session *)
(* that names the negotiated cipher.                                       *)
THEOREM ClientFinishesProtected == Spec => []FinishedMeansProtected
<1>1. ClientInv => FinishedMeansProtected
  BY DEF ClientInv, ClientPosition, ClientKeys, ClientSettled, ClientReadSwitched,
         ClientWriteSwitched, FinishedMeansProtected
<1> QED BY <1>1, ClientInvariant, PTL

(* ossl_statem_client_write_transition_ntls never gets to its default      *)
(* branch, and tls_construct_cert_verify_ntls finds the handshake buffer.  *)
THEOREM ClientWriteTotal == Spec => []NoWriteError
<1>1. TypeOK /\ ClientInv => NoWriteError
  <2> SUFFICES ASSUME TypeOK, ClientInv, cli.flow = "WRITING"
               PROVE  /\ ClientWriteTransition # "ERROR"
                      /\ ClientWriteTransition = "CW_CERT_VRFY" => cli.buffer
    BY DEF NoWriteError
  <2>1. cli.hand \in ClientHandStates
    BY DEF TypeOK, ClientTypeOK, ClientStates
  <2>2. cli.hand \notin {"CR_SRVR_HELLO", "CR_CERT", "CR_CERT_STATUS",
                         "CR_KEY_EXCH", "CR_CERT_REQ", "CR_SESSION_TICKET",
                         "CR_CHANGE"}
    BY DEF ClientInv, ClientPosition
  <2>3. ClientWriteTransition # "ERROR"
    BY <2>1, <2>2 DEF ClientWriteTransition, AfterCwFinished, ClientHandStates
  <2>4. ClientWriteTransition = "CW_CERT_VRFY" => cli.buffer
    BY ClientWriteSources DEF ClientInv, BufferKept
  <2> QED BY <2>3, <2>4
<1> QED BY <1>1, ClientInvariant, ClientTypeCorrect, PTL

(* A client that verifies finishes only with a server whose certificate    *)
(* pair verified, also when it resumes, renegotiates, or takes a session   *)
(* that a broken handshake left behind into its next connection.           *)
THEOREM ClientAuthenticatesServer == Spec => []ServerAuthenticated
<1>1. TypeOK /\ ClientInv => ServerAuthenticated
  <2> SUFFICES ASSUME TypeOK, ClientInv, cli.flow = "FINISHED", cliCfg.verify
               PROVE  cliSess.peer = "good"
    BY DEF ServerAuthenticated
  <2>1. cliSess.ms # 0
    BY DEF ClientInv, ClientPosition, ClientKeys, ClientSettled, ClientReadSwitched
  <2>2. cliSess.peer \in {"none", "good", "bad"}
    BY DEF TypeOK, ClientTypeOK, ClientSessions
  <2> QED BY <2>1, <2>2 DEF ClientInv, SessionOfServer
<1> QED BY <1>1, ClientInvariant, ClientTypeCorrect, PTL
=============================================================================
