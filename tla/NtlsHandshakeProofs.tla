------------------------ MODULE NtlsHandshakeProofs ------------------------
(***************************************************************************)
(* The theorems about the client and the server connected to each other,   *)
(* for every set of suites and settings, any number of connections, broken *)
(* or not, and any interleaving.                                           *)
(***************************************************************************)
EXTENDS NtlsHandshake, NtlsEndpointProofs

(* A step of the client, a step of the server, or something between or     *)
(* around the connections.                                                 *)
LEMMA NextCases ==
  ASSUME [Next]_vars
  PROVE  \/ ClientStep /\ UNCHANGED <<serverVars, conn>>
         \/ ServerStep /\ UNCHANGED <<clientVars, conn>>
         \/ NewConnection
         \/ ContextStep
         \/ UNCHANGED vars
BY DEF Next, ClientStep, ServerStep, ClientProgress, ServerProgress, Done

(* The applications' settings stay as they are.                            *)
LEMMA SettingsKept ==
  ASSUME [Next]_vars
  PROVE  UNCHANGED <<cliCfg, srvCfg>>
<1>1. CASE ClientStep /\ UNCHANGED <<serverVars, conn>>
  <2>1. cliCfg' = cliCfg
    BY <1>1
       DEF ClientStep, ClientConnect, ClientWrite, ClientRead,
           ClientRenegotiate, ClientTurnToRead, ClientSendClientHello,
           ClientSendCertificate, ClientSendKeyExchange, ClientSendCertVerify,
           ClientSendChangeCipherSpec, ClientSendNextProto,
           ClientSendFinished, ClientFinishHandshake, ClientReadServerHello,
           ClientReadCertificate, ClientReadCertStatus, ClientReadKeyExchange,
           ClientReadCertificateRequest, ClientReadServerDone,
           ClientReadSessionTicket, ClientReadChangeCipherSpec,
           ClientReadFinished, ClientReadHelloRequest, ClientSkipHelloRequest,
           ClientUnexpected, ClientReadAlert, ClientReadNoRenegotiation,
           ClientStrayChangeCipherSpec, ClientWake, ClientFatal, clientVars
  <2> QED BY <1>1, <2>1 DEF serverVars
<1>2. CASE ServerStep /\ UNCHANGED <<clientVars, conn>>
  BY <1>2, ServerKeepsSettings DEF clientVars
<1>3. CASE NewConnection \/ ContextStep \/ UNCHANGED vars
  BY <1>3 DEF NewConnection, ClientNewConnection, ServerNewConnection,
              ContextStep, ServerForgetSession, ServerRotateTicketKey,
              clientVars, serverVars, vars
<1> QED BY <1>1, <1>2, <1>3, NextCases

(* Every variable keeps its type, in the composition too: what either      *)
(* endpoint's handlers put on the wire is a message the other can be given *)
THEOREM HandshakeTypeCorrect == Spec => []TypeOK
<1>1. Init => TypeOK
  <2> SUFFICES ASSUME Init PROVE TypeOK
    OBVIOUS
  <2>1. cli \in ClientStates
    BY DEF Init, ClientInit, NewClientSsl, ClientStates, ClientHandStates,
           FlowStates
  <2>2. ClientTypeOK
    BY <2>1, NoClientSessionType DEF Init, ClientInit, ClientTypeOK
  <2>3. srv \in ServerStates
    BY NewServerType DEF Init, ServerInit
  <2>4. srvSess \in ServerSessions
    BY DEF Init, ServerInit, NoServerSession, ServerSessions, NoSid, Sids,
           SidKinds
  <2>5. ServerTypeOK
    BY <2>3, <2>4 DEF Init, ServerInit, ServerTypeOK
  <2> QED BY <2>2, <2>5, HandshakeAssumption
          DEF Init, WireInit, TypeOK, WireTypeOK
<1>2. TypeOK /\ [Next]_vars => TypeOK'
  <2> SUFFICES ASSUME TypeOK, [Next]_vars PROVE TypeOK'
    OBVIOUS
  <2>0. UNCHANGED <<cliCfg, srvCfg>>
    BY SettingsKept
  <2>1. CASE ClientStep /\ UNCHANGED <<serverVars, conn>>
    <3>1. ClientTypeOK' /\ WireTypeOK'
      BY <2>1, ClientStepType DEF TypeOK
    <3>2. ServerTypeOK'
      BY <2>1 DEF TypeOK, ServerTypeOK, serverVars
    <3> QED BY <2>0, <2>1, <3>1, <3>2 DEF TypeOK
  <2>2. CASE ServerStep /\ UNCHANGED <<clientVars, conn>>
    <3>1. ServerTypeOK' /\ WireTypeOK'
      BY <2>2, StepType DEF TypeOK
    <3>2. ClientTypeOK'
      BY <2>2 DEF TypeOK, ClientTypeOK, clientVars
    <3> QED BY <2>0, <2>2, <3>1, <3>2 DEF TypeOK
  <2>3. CASE NewConnection
    <3>1. ClientTypeOK' /\ ServerTypeOK'
      BY <2>3, ClientOpeningType, BetweenConnectionsType
         DEF NewConnection, TypeOK
    <3>2. conn' \in 1..MaxConns(cliCfg, srvCfg)
      BY <2>3, HandshakeAssumption
         DEF NewConnection, TypeOK, ClientTypeOK, ServerTypeOK
    <3> QED BY <2>0, <2>3, <3>1, <3>2 DEF NewConnection, TypeOK, WireTypeOK
  <2>4. CASE ContextStep
    <3>1. ServerTypeOK'
      BY <2>4, BetweenConnectionsType DEF ContextStep, TypeOK
    <3> QED BY <2>0, <2>4, <3>1
            DEF ContextStep, TypeOK, ClientTypeOK, WireTypeOK, clientVars,
                wireVars
  <2>5. CASE UNCHANGED vars
    BY <2>5 DEF vars, clientVars, serverVars, wireVars, TypeOK, ClientTypeOK,
                ServerTypeOK, WireTypeOK
  <2> QED BY <2>1, <2>2, <2>3, <2>4, <2>5, NextCases
<1> QED BY <1>1, <1>2, PTL DEF Spec

-----------------------------------------------------------------------------
(* What each endpoint keeps whatever its peer does, it keeps with this     *)
(* peer.                                                                   *)

LEMMA ClientInvKept ==
  ASSUME ClientInv, UNCHANGED clientVars
  PROVE  ClientInv'
BY DEF clientVars, ClientInv, ClientPosition, ClientHistory, ClientKeys,
       BufferKept, SessionOfServer, ClientSettled, LastWrites, LastReads,
       ClientReadSwitched, ClientWriteSwitched, ServerFinishedRead,
       ClientFinishedSent, AfterKeyExchange

LEMMA ServerInvKept ==
  ASSUME ServerInv, UNCHANGED <<srv, srvSess>>
  PROVE  ServerInv'
BY DEF ServerInv, Position, Progress, Keys, AfterClientFinished, ReadSwitched,
       WriteSwitched, ServerFirstHandshake

LEMMA ServerSessionKept ==
  ASSUME Negotiated, Asked, UNCHANGED <<srv, srvSess, srvCfg>>
  PROVE  Negotiated' /\ Asked'
BY DEF Negotiated, Asked, Vouched

LEMMA EndpointsInit ==
  ASSUME Init
  PROVE  ClientInv /\ ServerInv /\ SessionInv
<1>1. ClientInv
  BY ClientInitInv DEF Init
<1>2. ServerInv
  BY DEF Init, ServerInit, NewServerSsl, NoServerSession, ServerInv, Position,
         Progress, Keys, AfterClientFinished, ReadSwitched, WriteSwitched,
         ServerFirstHandshake
<1>3. NoSuite \notin MutualSuites
  BY SuitesAssumption
<1>4. /\ srv.hand = "BEFORE" /\ srv.flow = "UNINITED" /\ ~srv.hit
      /\ srv.newCipher = NoSuite /\ ~srv.certReqSent /\ ~srv.finRead
      /\ srv.verify = srvCfg.verify /\ srvSess.cipher = NoSuite
  BY DEF Init, ServerInit, NewServerSsl, NoServerSession
<1>5. srvCache = {} /\ toClient = << >> /\ toServer = << >>
  BY DEF Init, ServerInit, WireInit
<1>6. SessionInv
  BY <1>3, <1>4, <1>5 DEF SessionInv, Resumables, Negotiated, Asked
<1> QED BY <1>1, <1>2, <1>6

(* The client and the server each keep their own invariant.                *)
THEOREM EndpointsSound == Spec => [](ClientInv /\ ServerInv)
<1>1. Init => ClientInv /\ ServerInv
  BY EndpointsInit
<1>2. TypeOK /\ ClientInv /\ ServerInv /\ [Next]_vars
        => ClientInv' /\ ServerInv'
  <2> SUFFICES ASSUME TypeOK, ClientInv, ServerInv, [Next]_vars
               PROVE  ClientInv' /\ ServerInv'
    OBVIOUS
  <2>1. ClientTypeOK /\ ServerTypeOK /\ WireTypeOK
    BY DEF TypeOK
  <2>2. CASE ClientStep /\ UNCHANGED <<serverVars, conn>>
    BY <2>1, <2>2, ClientStepInv, ServerInvKept DEF serverVars
  <2>3. CASE ServerStep /\ UNCHANGED <<clientVars, conn>>
    BY <2>1, <2>3, ClientInvKept, WriteInv, ReadInv, OpeningInv DEF ServerStep
  <2>4. CASE NewConnection
    BY <2>1, <2>4, ClientOpeningInv, OpeningInv DEF NewConnection
  <2>5. CASE ContextStep
    BY <2>5, ClientInvKept, ServerInvKept
       DEF ContextStep, ServerForgetSession, ServerRotateTicketKey
  <2>6. CASE UNCHANGED vars
    BY <2>6, ClientInvKept, ServerInvKept DEF vars, serverVars
  <2> QED BY <2>2, <2>3, <2>4, <2>5, <2>6, NextCases
<1> QED BY <1>1, <1>2, HandshakeTypeCorrect, PTL DEF Spec

(* A client that verifies finishes only with a server whose certificate    *)
(* pair verified, and that signed its key exchange unless the session was  *)
(* resumed (tls_process_server_certificate_ntls, tls_process_key_exchange, *)
(* tls_process_server_hello_ntls over all connections).                    *)
THEOREM HandshakeAuthenticatesServer == Spec => []ServerAuthenticated
<1>1. TypeOK /\ ClientInv => ServerAuthenticated
  <2> SUFFICES ASSUME TypeOK, ClientInv, cli.flow = "FINISHED", cliCfg.verify
               PROVE  cliSess.peer = "good" /\ (cli.hit \/ cli.skeOk)
    BY DEF ServerAuthenticated
  <2>1. cli.hand = "OK"
    BY DEF ClientInv, ClientPosition
  <2>2. cliSess.ms # 0
    BY <2>1 DEF ClientInv, ClientKeys, ClientSettled, ClientReadSwitched
  <2>3. cliSess.peer \in {"none", "good", "bad"}
    BY DEF TypeOK, ClientTypeOK, ClientSessions
  <2>4. cliSess.peer = "good"
    BY <2>2, <2>3 DEF ClientInv, SessionOfServer
  <2>5. cli.hit \/ cli.skeOk
    BY <2>1 DEF ClientInv, ClientHistory, AfterKeyExchange, ClientSettled
  <2> QED BY <2>4, <2>5
<1> QED BY <1>1, HandshakeTypeCorrect, EndpointsSound, PTL

-----------------------------------------------------------------------------
(* Everything either side could resume is vouched for, in every state.     *)
THEOREM HandshakeSessionsVouched == Spec => [](SessionInv /\ HeldTicket)
<1>1. Init => SessionInv /\ HeldTicket
  BY EndpointsInit DEF Init, ClientInit, NoClientSession, HeldTicket,
                       TicketVouched
<1>2. TypeOK /\ ServerInv /\ SessionInv /\ HeldTicket /\ [Next]_vars
        => SessionInv' /\ HeldTicket'
  <2> SUFFICES ASSUME TypeOK, ServerInv, SessionInv, HeldTicket, [Next]_vars
               PROVE  SessionInv' /\ HeldTicket'
    OBVIOUS
  <2> USE DEF SessionInv
  <2>1. ClientTypeOK /\ ServerTypeOK /\ WireTypeOK
    BY DEF TypeOK
  <2>2. CASE ClientStep /\ UNCHANGED <<serverVars, conn>>
    <3>1. Negotiated' /\ Asked'
      BY <2>2, ServerSessionKept DEF serverVars
    <3>2. Resumables' /\ HeldTicket'
      BY <2>1, <2>2, ClientStepTickets, ClientStepResumables
    <3> QED BY <3>1, <3>2
  <2>3. CASE ServerStep /\ UNCHANGED <<clientVars, conn>>
    <3>1. Resumables'
      BY <2>1, <2>3, StepResumables
    <3>2. Negotiated' /\ Asked'
      BY <2>1, <2>3, WriteAsked, ReadAsked, OpeningAsked DEF ServerStep
    <3>3. srvCfg' = srvCfg /\ cliSess' = cliSess
      BY <2>3, ServerKeepsSettings DEF clientVars
    <3>4. HeldTicket'
      BY <3>3 DEF HeldTicket, TicketVouched, Vouched
    <3> QED BY <3>1, <3>2, <3>4
  <2>4. CASE NewConnection
    <3>1. Negotiated' /\ Asked'
      BY <2>1, <2>4, OpeningAsked DEF NewConnection
    <3>2. srvCfg' = srvCfg /\ srvCache' = srvCache
          /\ toClient' = << >> /\ toServer' = << >>
      BY <2>4 DEF NewConnection, ServerNewConnection
    <3>3. cliSess' \in {cliSess, NoClientSession}
      BY <2>4 DEF NewConnection, ClientNewConnection
    <3>4. Resumables'
      BY <3>2 DEF Resumables, TicketVouched, Vouched
    <3>5. HeldTicket'
      BY <3>2, <3>3 DEF HeldTicket, TicketVouched, Vouched, NoClientSession
    <3> QED BY <3>1, <3>4, <3>5
  <2>5. CASE ContextStep
    <3>1. UNCHANGED <<srv, srvSess, srvCfg>> /\ srvCache' \subseteq srvCache
          /\ UNCHANGED <<cliSess, toClient, toServer>>
      BY <2>5 DEF ContextStep, ServerForgetSession, ServerRotateTicketKey,
                  clientVars, wireVars
    <3>2. Negotiated' /\ Asked'
      BY <3>1, ServerSessionKept
    <3> QED BY <3>1, <3>2 DEF Resumables, HeldTicket, TicketVouched, Vouched
  <2>6. CASE UNCHANGED vars
    <3>1. UNCHANGED <<srv, srvSess, srvCfg, srvCache, cliSess, toClient,
                      toServer>>
      BY <2>6 DEF vars, clientVars, serverVars, wireVars
    <3>2. Negotiated' /\ Asked'
      BY <3>1, ServerSessionKept
    <3> QED BY <3>1, <3>2 DEF Resumables, HeldTicket, TicketVouched, Vouched
  <2> QED BY <2>2, <2>3, <2>4, <2>5, <2>6, NextCases
<1> QED BY <1>1, <1>2, HandshakeTypeCorrect, EndpointsSound, PTL DEF Spec

(* A server that requires a client certificate, or negotiated an SM2DHE    *)
(* suite, finishes only with a verified client that signed the transcript  *)
(* or resumed a session of one. With SSL_clear instead of a new SSL object *)
(* (srvCfg.reuse) the code does not keep this promise.                     *)
THEOREM HandshakeAuthenticatesClient ==
  Spec => [](~srvCfg.reuse => ClientAuthenticated)
<1>1. ServerInv /\ SessionInv => (~srvCfg.reuse => ClientAuthenticated)
  <2> SUFFICES ASSUME ServerInv, SessionInv, ~srvCfg.reuse,
                      srv.flow = "FINISHED",
                      srvCfg.verify = "require" \/ srv.newCipher \in MutualSuites
               PROVE  srvSess.peer = "good" /\ (srv.hit \/ srv.proved)
    BY DEF ClientAuthenticated
  <2>1. srv.hand = "OK"
    BY DEF ServerInv, Position
  <2>2. srvSess.peer = "good"
    BY <2>1 DEF SessionInv, Asked, Vouched
  <2>3. srv.hit \/ srv.proved
    BY <2>1, <2>2 DEF ServerInv, Progress
  <2> QED BY <2>2, <2>3
<1> QED BY <1>1, EndpointsSound, HandshakeSessionsVouched, PTL

-----------------------------------------------------------------------------
(* ssl3_digest_cached_records(s, 0) never drops the handshake buffer while *)
(* a CertificateVerify is still to be computed from it, on either side.    *)
THEOREM HandshakeKeepsBuffer == Spec => []BufferKeptForCertVerify
<1>1. Init => ServerBuffer
  BY DEF Init, ServerInit, NewServerSsl, NoServerSession, ServerBuffer, Opening
<1>2. TypeOK /\ ServerInv /\ ServerBuffer /\ [Next]_vars => ServerBuffer'
  <2> SUFFICES ASSUME TypeOK, ServerInv, ServerBuffer, [Next]_vars
               PROVE  ServerBuffer'
    OBVIOUS
  <2>1. \/ ServerStep \/ ServerNewConnection \/ UNCHANGED <<srv, srvSess>>
    BY NextCases DEF NewConnection, ContextStep, ServerForgetSession,
                     ServerRotateTicketKey, serverVars, vars
  <2> QED BY <2>1, ServerBufferKept DEF TypeOK
<1>3. ClientInv /\ ServerBuffer => BufferKeptForCertVerify
  BY DEF ClientInv, BufferKept, ServerBuffer, BufferKeptForCertVerify
<1> QED BY <1>1, <1>2, <1>3, HandshakeTypeCorrect, EndpointsSound, PTL DEF Spec

-----------------------------------------------------------------------------
(* The connection seen from both ends. While it is alive, that is until an *)
(* endpoint fails or sends an alert, it carries one handshake, and each    *)
(* direction of it a sequence of messages that leads, rank by rank, from   *)
(* what its reader has read to what its writer has written.                *)

Sent(w) == { w[i] : i \in 1 .. Len(w) }

Alive ==
  /\ cli.flow # "ERROR" /\ srv.flow # "ERROR"
  /\ \A m \in Sent(toClient) \cup Sent(toServer) : m.type \notin AlertTypes

(* The rank of a message among those of its direction. A ClientHello under *)
(* keys asks for a renegotiation.                                          *)
ServerRank(t) ==
  CASE t = "SERVER_HELLO" -> 1
    [] t = "CERTIFICATE" -> 2
    [] t = "CERTIFICATE_STATUS" -> 3
    [] t = "SERVER_KEY_EXCHANGE" -> 4
    [] t = "CERTIFICATE_REQUEST" -> 5
    [] t = "SERVER_DONE" -> 6
    [] t = "NEWSESSION_TICKET" -> 7
    [] t = "CHANGE_CIPHER_SPEC" -> 8
    [] OTHER -> 9

ClientRank(m) ==
  CASE m.type = "CLIENT_HELLO" -> IF m.key = 0 THEN 1 ELSE 8
    [] m.type = "CERTIFICATE" -> 2
    [] m.type = "CLIENT_KEY_EXCHANGE" -> 3
    [] m.type = "CERTIFICATE_VERIFY" -> 4
    [] m.type = "CHANGE_CIPHER_SPEC" -> 5
    [] m.type = "NEXT_PROTO" -> 6
    [] OTHER -> 7

(* What may follow the message of rank p: in a resumed handshake or not,   *)
(* with a CertificateStatus or not, with a certificate requested or not,   *)
(* with a ticket or not.                                                   *)
ServerNext(hit, st, cr, te, p, t) ==
  \/ t = "SERVER_HELLO" /\ p = 0
  \/ t = "CERTIFICATE" /\ ~hit /\ p = 1
  \/ t = "CERTIFICATE_STATUS" /\ ~hit /\ p = 2 /\ st
  \/ t = "SERVER_KEY_EXCHANGE" /\ ~hit /\ (p = 3 \/ (p = 2 /\ ~st))
  \/ t = "CERTIFICATE_REQUEST" /\ ~hit /\ p = 4 /\ cr
  \/ t = "SERVER_DONE" /\ ~hit /\ (p = 5 \/ (p = 4 /\ ~cr))
  \/ t = "NEWSESSION_TICKET" /\ te /\ p = (IF hit THEN 1 ELSE 6)
  \/ t = "CHANGE_CIPHER_SPEC" /\ (p = 7 \/ (~te /\ p = (IF hit THEN 1 ELSE 6)))
  \/ t = "FINISHED" /\ p = 8
  \/ t = "HELLO_REQUEST" /\ p = 9

(* The same for the client, which sends a certificate, signs, or sends a   *)
(* NextProto or not.                                                       *)
ClientNext(hit, cr, sd, np, p, m) ==
  \/ m.type = "CLIENT_HELLO" /\ p = (IF m.key = 0 THEN 0 ELSE 7)
  \/ m.type = "CERTIFICATE" /\ ~hit /\ p = 1 /\ cr
  \/ m.type = "CLIENT_KEY_EXCHANGE" /\ ~hit /\ (p = 2 \/ (p = 1 /\ ~cr))
  \/ m.type = "CERTIFICATE_VERIFY" /\ ~hit /\ p = 3 /\ sd
  \/ m.type = "CHANGE_CIPHER_SPEC"
       /\ IF hit THEN p = 1 ELSE p = 4 \/ (p = 3 /\ ~sd)
  \/ m.type = "NEXT_PROTO" /\ p = 5 /\ np
  \/ m.type = "FINISHED" /\ (p = 6 \/ (p = 5 /\ ~np))

(* w leads from rank p to rank q.                                          *)
ServerFlow(hit, st, cr, te, p, w, q) ==
  /\ \A i \in 1 .. Len(w) :
       ServerNext(hit, st, cr, te,
                  IF i = 1 THEN p ELSE ServerRank(w[i - 1].type), w[i].type)
  /\ \A i, j \in 1 .. Len(w) : i < j =>
       \/ ServerRank(w[i].type) < ServerRank(w[j].type)
       \/ w[j].type = "HELLO_REQUEST"
  /\ q = IF w = << >> THEN p ELSE ServerRank(w[Len(w)].type)

ClientFlow(hit, cr, sd, np, p, w, q) ==
  /\ \A i \in 1 .. Len(w) :
       ClientNext(hit, cr, sd, np,
                  IF i = 1 THEN p ELSE ClientRank(w[i - 1]), w[i])
  /\ \A i, j \in 1 .. Len(w) : i < j => ClientRank(w[i]) < ClientRank(w[j])
  /\ q = IF w = << >> THEN p ELSE ClientRank(w[Len(w)])

-----------------------------------------------------------------------------
(* Lemmas about streams: what writing adds and what reading takes away.    *)

LEMMA SentAppend ==
  ASSUME NEW w \in Seq(Messages), NEW m \in Messages
  PROVE  Sent(Append(w, m)) = Sent(w) \cup {m}
<1>1. Len(Append(w, m)) = Len(w) + 1 /\ Len(w) \in Nat
  OBVIOUS
<1>2. \A i \in 1 .. Len(w) : Append(w, m)[i] = w[i]
  OBVIOUS
<1>3. Append(w, m)[Len(w) + 1] = m
  OBVIOUS
<1>4. ASSUME NEW x \in Sent(Append(w, m)) PROVE x \in Sent(w) \cup {m}
  <2>1. PICK i \in 1 .. Len(Append(w, m)) : x = Append(w, m)[i]
    BY DEF Sent
  <2>2. CASE i = Len(w) + 1
    BY <1>3, <2>1, <2>2
  <2>3. CASE i # Len(w) + 1
    <3>1. i \in 1 .. Len(w)
      BY <1>1, <2>3
    <3> QED BY <1>2, <2>1, <3>1 DEF Sent
  <2> QED BY <2>2, <2>3
<1>5. ASSUME NEW x \in Sent(w) PROVE x \in Sent(Append(w, m))
  <2>1. PICK i \in 1 .. Len(w) : x = w[i]
    BY DEF Sent
  <2>2. i \in 1 .. Len(Append(w, m)) /\ Append(w, m)[i] = x
    BY <1>1, <1>2, <2>1
  <2> QED BY <2>2 DEF Sent
<1>6. m \in Sent(Append(w, m))
  <2>1. Len(w) + 1 \in 1 .. Len(Append(w, m))
    BY <1>1
  <2> QED BY <1>3, <2>1 DEF Sent
<1> QED BY <1>4, <1>5, <1>6

LEMMA TailFacts ==
  ASSUME NEW w \in Seq(Messages), w # << >>
  PROVE  /\ Len(w) >= 1 /\ Head(w) = w[1] /\ Head(w) \in Messages
         /\ Tail(w) \in Seq(Messages) /\ Len(Tail(w)) = Len(w) - 1
         /\ \A i \in 1 .. Len(w) - 1 : Tail(w)[i] = w[i + 1]
OBVIOUS

LEMMA SentTail ==
  ASSUME NEW w \in Seq(Messages), w # << >>
  PROVE  /\ Head(w) \in Sent(w)
         /\ Sent(w) = Sent(Tail(w)) \cup {Head(w)}
<1>1. Head(w) \in Sent(w)
  BY TailFacts DEF Sent
<1>2. ASSUME NEW x \in Sent(Tail(w)) PROVE x \in Sent(w)
  <2>1. PICK i \in 1 .. Len(w) - 1 : x = w[i + 1]
    BY TailFacts DEF Sent
  <2>2. i + 1 \in 1 .. Len(w)
    BY <2>1, TailFacts
  <2> QED BY <2>1, <2>2 DEF Sent
<1>3. ASSUME NEW x \in Sent(w), x # Head(w) PROVE x \in Sent(Tail(w))
  <2>1. PICK i \in 1 .. Len(w) : x = w[i]
    BY DEF Sent
  <2>2. i # 1
    BY <1>3, <2>1, TailFacts
  <2>3. i - 1 \in 1 .. Len(w) - 1 /\ Tail(w)[i - 1] = x
    BY <2>1, <2>2, TailFacts
  <2> QED BY <2>3, TailFacts DEF Sent
<1> QED BY <1>1, <1>2, <1>3

LEMMA SentNone ==
  /\ Sent(<< >>) = {}
  /\ \A w \in Seq(Messages) : Sent(w) = {} => w = << >>
<1>1. Sent(<< >>) = {}
  BY DEF Sent
<1>2. ASSUME NEW w \in Seq(Messages), w # << >> PROVE Sent(w) # {}
  BY <1>2, SentTail
<1> QED BY <1>1, <1>2

LEMMA SentMessages ==
  ASSUME NEW w \in Seq(Messages)
  PROVE  Sent(w) \subseteq Messages
BY DEF Sent

LEMMA ServerRankType ==
  ASSUME NEW t
  PROVE  ServerRank(t) \in 1 .. 9
BY DEF ServerRank

LEMMA ClientRankType ==
  ASSUME NEW m
  PROVE  ClientRank(m) \in 1 .. 8
BY DEF ClientRank

LEMMA ServerNextRank ==
  ASSUME NEW hit, NEW st, NEW cr, NEW te, NEW p \in 0 .. 9, NEW t,
         ServerNext(hit, st, cr, te, p, t)
  PROVE  /\ p < ServerRank(t) \/ (t = "HELLO_REQUEST" /\ p = 9)
         /\ t \notin AlertTypes
BY DEF ServerNext, ServerRank, AlertTypes

LEMMA ClientNextRank ==
  ASSUME NEW hit, NEW cr, NEW sd, NEW np, NEW p \in 0 .. 8, NEW m,
         ClientNext(hit, cr, sd, np, p, m)
  PROVE  p < ClientRank(m) /\ m.type \notin AlertTypes
BY DEF ClientNext, ClientRank, AlertTypes

(* All that is on the way lies between what was read and what was written. *)
LEMMA ServerFlowBounds ==
  ASSUME NEW w \in Seq(Messages), NEW p \in 0 .. 9, NEW q,
         NEW hit, NEW st, NEW cr, NEW te,
         ServerFlow(hit, st, cr, te, p, w, q)
  PROVE  /\ q \in 0 .. 9 /\ p <= q
         /\ \A m \in Sent(w) :
              /\ ServerRank(m.type) <= q
              /\ p < ServerRank(m.type) \/ m.type = "HELLO_REQUEST"
         /\ p = q /\ p # 9 => w = << >>
         /\ p # q => w # << >>
<1>1. CASE w = << >>
  BY <1>1, SentNone DEF ServerFlow
<1>2. CASE w # << >>
  <2>1. Len(w) \in Nat /\ Len(w) >= 1
    BY <1>2
  <2>2. q = ServerRank(w[Len(w)].type)
    BY <1>2 DEF ServerFlow
  <2>3. p < ServerRank(w[1].type) \/ (w[1].type = "HELLO_REQUEST" /\ p = 9)
    <3>1. ServerNext(hit, st, cr, te, p, w[1].type)
      BY <2>1 DEF ServerFlow
    <3> QED BY <3>1, ServerNextRank
  <2>4. ASSUME NEW i \in 1 .. Len(w)
        PROVE  /\ ServerRank(w[i].type) <= q
               /\ p < ServerRank(w[i].type) \/ w[i].type = "HELLO_REQUEST"
    <3>1. /\ ServerRank(w[1].type) \in 1 .. 9
          /\ ServerRank(w[i].type) \in 1 .. 9
          /\ ServerRank(w[Len(w)].type) \in 1 .. 9
      BY ServerRankType
    <3>2. ServerRank("HELLO_REQUEST") = 9
      BY DEF ServerRank
    <3>3. ServerRank(w[i].type) <= q
      <4>1. CASE i = Len(w)
        BY <2>2, <3>1, <4>1
      <4>2. CASE i < Len(w)
        <5>1. \/ ServerRank(w[i].type) < ServerRank(w[Len(w)].type)
              \/ w[Len(w)].type = "HELLO_REQUEST"
          BY <2>1, <4>2 DEF ServerFlow
        <5> QED BY <2>2, <3>1, <3>2, <5>1
      <4> QED BY <2>1, <4>1, <4>2
    <3>4. p < ServerRank(w[i].type) \/ w[i].type = "HELLO_REQUEST"
      <4>1. CASE i = 1
        BY <2>3, <4>1
      <4>2. CASE i > 1
        <5>1. \/ ServerRank(w[1].type) < ServerRank(w[i].type)
              \/ w[i].type = "HELLO_REQUEST"
          BY <2>1, <4>2 DEF ServerFlow
        <5> QED BY <2>3, <3>1, <3>2, <5>1
      <4> QED BY <2>1, <4>1, <4>2
    <3> QED BY <3>3, <3>4
  <2>5. \A m \in Sent(w) :
          /\ ServerRank(m.type) <= q
          /\ p < ServerRank(m.type) \/ m.type = "HELLO_REQUEST"
    BY <2>4 DEF Sent
  <2>6. q \in 1 .. 9
    BY <2>2, ServerRankType
  <2>7. ServerRank("HELLO_REQUEST") = 9
    BY DEF ServerRank
  <2>8. p < q \/ (p = 9 /\ q = 9)
    BY <2>1, <2>2, <2>3, <2>4, <2>6, <2>7
  <2> QED BY <1>2, <2>5, <2>6, <2>8
<1> QED BY <1>1, <1>2

LEMMA ClientFlowBounds ==
  ASSUME NEW w \in Seq(Messages), NEW p \in 0 .. 8, NEW q,
         NEW hit, NEW cr, NEW sd, NEW np,
         ClientFlow(hit, cr, sd, np, p, w, q)
  PROVE  /\ q \in 0 .. 8 /\ p <= q
         /\ \A m \in Sent(w) : p < ClientRank(m) /\ ClientRank(m) <= q
         /\ p = q <=> w = << >>
<1>1. CASE w = << >>
  BY <1>1, SentNone DEF ClientFlow
<1>2. CASE w # << >>
  <2>1. Len(w) \in Nat /\ Len(w) >= 1
    BY <1>2
  <2>2. q = ClientRank(w[Len(w)])
    BY <1>2 DEF ClientFlow
  <2>3. p < ClientRank(w[1])
    <3>1. ClientNext(hit, cr, sd, np, p, w[1])
      BY <2>1 DEF ClientFlow
    <3> QED BY <3>1, ClientNextRank
  <2>4. ASSUME NEW i \in 1 .. Len(w)
        PROVE  p < ClientRank(w[i]) /\ ClientRank(w[i]) <= q
    <3>1. /\ ClientRank(w[1]) \in 1 .. 8
          /\ ClientRank(w[i]) \in 1 .. 8
          /\ ClientRank(w[Len(w)]) \in 1 .. 8
      BY ClientRankType
    <3>2. ClientRank(w[i]) <= q
      <4>1. CASE i = Len(w)
        BY <2>2, <3>1, <4>1
      <4>2. CASE i < Len(w)
        BY <2>1, <2>2, <3>1, <4>2 DEF ClientFlow
      <4> QED BY <2>1, <4>1, <4>2
    <3>3. p < ClientRank(w[i])
      <4>1. CASE i = 1
        BY <2>3, <4>1
      <4>2. CASE i > 1
        BY <2>1, <2>3, <3>1, <4>2 DEF ClientFlow
      <4> QED BY <2>1, <4>1, <4>2
    <3> QED BY <3>2, <3>3
  <2>5. \A m \in Sent(w) : p < ClientRank(m) /\ ClientRank(m) <= q
    BY <2>4 DEF Sent
  <2>6. q \in 1 .. 8
    BY <2>2, ClientRankType
  <2>7. p < q
    BY <2>1, <2>2, <2>4
  <2> QED BY <1>2, <2>5, <2>6, <2>7
<1> QED BY <1>1, <1>2

(* Writing the next message, and reading the next one.                     *)
LEMMA ServerFlowAppend ==
  ASSUME NEW w \in Seq(Messages), NEW p \in 0 .. 9, NEW q,
         NEW hit, NEW st, NEW cr, NEW te, NEW m \in Messages,
         ServerFlow(hit, st, cr, te, p, w, q),
         ServerNext(hit, st, cr, te, q, m.type)
  PROVE  ServerFlow(hit, st, cr, te, p, Append(w, m), ServerRank(m.type))
<1> DEFINE v == Append(w, m)
<1>1. /\ v \in Seq(Messages) /\ v # << >> /\ Len(w) \in Nat
      /\ Len(v) = Len(w) + 1 /\ v[Len(v)] = m
      /\ \A i \in 1 .. Len(w) : v[i] = w[i]
  OBVIOUS
<1> HIDE DEF v
<1>2. q \in 0 .. 9 /\ \A i \in 1 .. Len(w) : ServerRank(w[i].type) <= q
  BY ServerFlowBounds DEF Sent
<1>3. q < ServerRank(m.type) \/ m.type = "HELLO_REQUEST"
  BY <1>2, ServerNextRank
<1>4. ASSUME NEW i \in 1 .. Len(v)
      PROVE  ServerNext(hit, st, cr, te,
               IF i = 1 THEN p ELSE ServerRank(v[i - 1].type), v[i].type)
  <2>1. CASE i \in 1 .. Len(w)
    <3>1. v[i] = w[i] /\ (i # 1 => v[i - 1] = w[i - 1])
      BY <1>1, <2>1
    <3> QED BY <2>1, <3>1 DEF ServerFlow
  <2>2. CASE i \notin 1 .. Len(w)
    <3>1. i = Len(w) + 1
      BY <1>1, <2>2
    <3>2. CASE i = 1
      BY <1>1, <3>1, <3>2 DEF ServerFlow
    <3>3. CASE i # 1
      <4>1. w # << >> /\ v[i - 1] = w[Len(w)]
        BY <1>1, <3>1, <3>3
      <4>2. q = ServerRank(v[i - 1].type)
        BY <4>1 DEF ServerFlow
      <4> QED BY <1>1, <3>1, <3>3, <4>2
    <3> QED BY <3>2, <3>3
  <2> QED BY <2>1, <2>2
<1>5. ASSUME NEW i \in 1 .. Len(v), NEW j \in 1 .. Len(v), i < j
      PROVE  \/ ServerRank(v[i].type) < ServerRank(v[j].type)
             \/ v[j].type = "HELLO_REQUEST"
  <2>1. i \in 1 .. Len(w) /\ v[i] = w[i]
    BY <1>1, <1>5
  <2>2. CASE j \in 1 .. Len(w)
    BY <1>1, <1>5, <2>1, <2>2 DEF ServerFlow
  <2>3. CASE j \notin 1 .. Len(w)
    <3>1. v[j] = m
      BY <1>1, <2>3
    <3>2. ServerRank(w[i].type) \in 1 .. 9 /\ ServerRank(m.type) \in 1 .. 9
      BY ServerRankType
    <3> QED BY <1>2, <1>3, <2>1, <3>1, <3>2
  <2> QED BY <2>2, <2>3
<1>6. ServerFlow(hit, st, cr, te, p, v, ServerRank(m.type))
  BY <1>1, <1>4, <1>5 DEF ServerFlow
<1> QED BY <1>6 DEF v

LEMMA ClientFlowAppend ==
  ASSUME NEW w \in Seq(Messages), NEW p \in 0 .. 8, NEW q,
         NEW hit, NEW cr, NEW sd, NEW np, NEW m \in Messages,
         ClientFlow(hit, cr, sd, np, p, w, q),
         ClientNext(hit, cr, sd, np, q, m)
  PROVE  ClientFlow(hit, cr, sd, np, p, Append(w, m), ClientRank(m))
<1> DEFINE v == Append(w, m)
<1>1. /\ v \in Seq(Messages) /\ v # << >> /\ Len(w) \in Nat
      /\ Len(v) = Len(w) + 1 /\ v[Len(v)] = m
      /\ \A i \in 1 .. Len(w) : v[i] = w[i]
  OBVIOUS
<1> HIDE DEF v
<1>2. q \in 0 .. 8 /\ \A i \in 1 .. Len(w) : ClientRank(w[i]) <= q
  BY ClientFlowBounds DEF Sent
<1>3. q < ClientRank(m)
  BY <1>2, ClientNextRank
<1>4. ASSUME NEW i \in 1 .. Len(v)
      PROVE  ClientNext(hit, cr, sd, np,
               IF i = 1 THEN p ELSE ClientRank(v[i - 1]), v[i])
  <2>1. CASE i \in 1 .. Len(w)
    <3>1. v[i] = w[i] /\ (i # 1 => v[i - 1] = w[i - 1])
      BY <1>1, <2>1
    <3> QED BY <2>1, <3>1 DEF ClientFlow
  <2>2. CASE i \notin 1 .. Len(w)
    <3>1. i = Len(w) + 1
      BY <1>1, <2>2
    <3>2. CASE i = 1
      BY <1>1, <3>1, <3>2 DEF ClientFlow
    <3>3. CASE i # 1
      <4>1. w # << >> /\ v[i - 1] = w[Len(w)]
        BY <1>1, <3>1, <3>3
      <4>2. q = ClientRank(v[i - 1])
        BY <4>1 DEF ClientFlow
      <4> QED BY <1>1, <3>1, <3>3, <4>2
    <3> QED BY <3>2, <3>3
  <2> QED BY <2>1, <2>2
<1>5. ASSUME NEW i \in 1 .. Len(v), NEW j \in 1 .. Len(v), i < j
      PROVE  ClientRank(v[i]) < ClientRank(v[j])
  <2>1. i \in 1 .. Len(w) /\ v[i] = w[i]
    BY <1>1, <1>5
  <2>2. CASE j \in 1 .. Len(w)
    BY <1>1, <1>5, <2>1, <2>2 DEF ClientFlow
  <2>3. CASE j \notin 1 .. Len(w)
    <3>1. v[j] = m
      BY <1>1, <2>3
    <3>2. ClientRank(w[i]) \in 1 .. 8 /\ ClientRank(m) \in 1 .. 8
      BY ClientRankType
    <3> QED BY <1>2, <1>3, <2>1, <3>1, <3>2
  <2> QED BY <2>2, <2>3
<1>6. ClientFlow(hit, cr, sd, np, p, v, ClientRank(m))
  BY <1>1, <1>4, <1>5 DEF ClientFlow
<1> QED BY <1>6 DEF v

LEMMA ServerFlowTail ==
  ASSUME NEW w \in Seq(Messages), w # << >>, NEW p, NEW q,
         NEW hit, NEW st, NEW cr, NEW te,
         ServerFlow(hit, st, cr, te, p, w, q)
  PROVE  /\ ServerNext(hit, st, cr, te, p, Head(w).type)
         /\ ServerFlow(hit, st, cr, te, ServerRank(Head(w).type), Tail(w), q)
<1> DEFINE v == Tail(w)
<1>1. /\ Len(w) \in Nat /\ Len(w) >= 1 /\ Head(w) = w[1]
      /\ v \in Seq(Messages) /\ Len(v) = Len(w) - 1
      /\ \A i \in 1 .. Len(v) : v[i] = w[i + 1]
  OBVIOUS
<1> HIDE DEF v
<1>2. ServerNext(hit, st, cr, te, p, Head(w).type)
  BY <1>1 DEF ServerFlow
<1>3. ASSUME NEW i \in 1 .. Len(v)
      PROVE  ServerNext(hit, st, cr, te,
               IF i = 1 THEN ServerRank(Head(w).type)
                        ELSE ServerRank(v[i - 1].type), v[i].type)
  <2>1. i + 1 \in 1 .. Len(w) /\ i + 1 # 1 /\ (i + 1) - 1 = i
    BY <1>1
  <2>2. ServerNext(hit, st, cr, te, ServerRank(w[i].type), w[i + 1].type)
    BY <2>1 DEF ServerFlow
  <2>3. w[i] = IF i = 1 THEN Head(w) ELSE v[i - 1]
    BY <1>1
  <2> QED BY <1>1, <2>2, <2>3
<1>4. ASSUME NEW i \in 1 .. Len(v), NEW j \in 1 .. Len(v), i < j
      PROVE  \/ ServerRank(v[i].type) < ServerRank(v[j].type)
             \/ v[j].type = "HELLO_REQUEST"
  <2>1. /\ i + 1 \in 1 .. Len(w) /\ j + 1 \in 1 .. Len(w) /\ i + 1 < j + 1
        /\ v[i] = w[i + 1] /\ v[j] = w[j + 1]
    BY <1>1, <1>4
  <2>2. \/ ServerRank(w[i + 1].type) < ServerRank(w[j + 1].type)
        \/ w[j + 1].type = "HELLO_REQUEST"
    BY <2>1 DEF ServerFlow
  <2> QED BY <2>1, <2>2
<1>5. q = IF v = << >> THEN ServerRank(Head(w).type)
          ELSE ServerRank(v[Len(v)].type)
  <2>1. CASE v = << >>
    <3>1. Len(v) = 0
      BY <2>1
    <3>2. Len(w) = 1
      BY <1>1, <3>1
    <3>3. w[Len(w)] = Head(w)
      BY <1>1, <3>2
    <3> QED BY <2>1, <3>3 DEF ServerFlow
  <2>2. CASE v # << >>
    <3>1. Len(v) \in 1 .. Len(v) /\ v[Len(v)] = w[Len(w)]
      BY <1>1, <2>2
    <3> QED BY <2>2, <3>1 DEF ServerFlow
  <2> QED BY <2>1, <2>2
<1>6. ServerFlow(hit, st, cr, te, ServerRank(Head(w).type), v, q)
  BY <1>3, <1>4, <1>5 DEF ServerFlow
<1> QED BY <1>2, <1>6 DEF v

LEMMA ClientFlowTail ==
  ASSUME NEW w \in Seq(Messages), w # << >>, NEW p, NEW q,
         NEW hit, NEW cr, NEW sd, NEW np,
         ClientFlow(hit, cr, sd, np, p, w, q)
  PROVE  /\ ClientNext(hit, cr, sd, np, p, Head(w))
         /\ ClientFlow(hit, cr, sd, np, ClientRank(Head(w)), Tail(w), q)
<1> DEFINE v == Tail(w)
<1>1. /\ Len(w) \in Nat /\ Len(w) >= 1 /\ Head(w) = w[1]
      /\ v \in Seq(Messages) /\ Len(v) = Len(w) - 1
      /\ \A i \in 1 .. Len(v) : v[i] = w[i + 1]
  OBVIOUS
<1> HIDE DEF v
<1>2. ClientNext(hit, cr, sd, np, p, Head(w))
  BY <1>1 DEF ClientFlow
<1>3. ASSUME NEW i \in 1 .. Len(v)
      PROVE  ClientNext(hit, cr, sd, np,
               IF i = 1 THEN ClientRank(Head(w)) ELSE ClientRank(v[i - 1]), v[i])
  <2>1. i + 1 \in 1 .. Len(w) /\ i + 1 # 1 /\ (i + 1) - 1 = i
    BY <1>1
  <2>2. ClientNext(hit, cr, sd, np, ClientRank(w[i]), w[i + 1])
    BY <2>1 DEF ClientFlow
  <2>3. w[i] = IF i = 1 THEN Head(w) ELSE v[i - 1]
    BY <1>1
  <2> QED BY <1>1, <2>2, <2>3
<1>4. ASSUME NEW i \in 1 .. Len(v), NEW j \in 1 .. Len(v), i < j
      PROVE  ClientRank(v[i]) < ClientRank(v[j])
  <2>1. /\ i + 1 \in 1 .. Len(w) /\ j + 1 \in 1 .. Len(w) /\ i + 1 < j + 1
        /\ v[i] = w[i + 1] /\ v[j] = w[j + 1]
    BY <1>1, <1>4
  <2>2. ClientRank(w[i + 1]) < ClientRank(w[j + 1])
    BY <2>1 DEF ClientFlow
  <2> QED BY <2>1, <2>2
<1>5. q = IF v = << >> THEN ClientRank(Head(w)) ELSE ClientRank(v[Len(v)])
  <2>1. CASE v = << >>
    <3>1. Len(v) = 0
      BY <2>1
    <3>2. Len(w) = 1
      BY <1>1, <3>1
    <3>3. w[Len(w)] = Head(w)
      BY <1>1, <3>2
    <3> QED BY <2>1, <3>3 DEF ClientFlow
  <2>2. CASE v # << >>
    <3>1. Len(v) \in 1 .. Len(v) /\ v[Len(v)] = w[Len(w)]
      BY <1>1, <2>2
    <3> QED BY <2>2, <3>1 DEF ClientFlow
  <2> QED BY <2>1, <2>2
<1>6. ClientFlow(hit, cr, sd, np, ClientRank(Head(w)), v, q)
  BY <1>3, <1>4, <1>5 DEF ClientFlow
<1> QED BY <1>2, <1>6 DEF v

(* A setting may change while no message that depends on it is on the way. *)
LEMMA ServerFlowSettings ==
  ASSUME NEW w \in Seq(Messages), NEW p \in 0 .. 9, NEW q,
         NEW hit, NEW st, NEW cr,
         NEW te, NEW hit2, NEW st2,
         NEW cr2, NEW te2,
         ServerFlow(hit, st, cr, te, p, w, q),
         (hit2 = hit /\ st2 = st) \/ p = q,
         cr2 = cr \/ hit \/ q <= 4 \/ p >= 6,
         te2 = te \/ q <= 6 \/ p >= 8
  PROVE  ServerFlow(hit2, st2, cr2, te2, p, w, q)
<1>1. /\ q \in 0 .. 9 /\ p <= q
      /\ \A i \in 1 .. Len(w) :
           /\ ServerRank(w[i].type) <= q
           /\ p < ServerRank(w[i].type) \/ w[i].type = "HELLO_REQUEST"
  BY ServerFlowBounds DEF Sent
<1>2. ASSUME NEW r \in 0 .. 9, NEW t, p <= r, ServerRank(t) <= q,
             ServerNext(hit, st, cr, te, r, t)
      PROVE  ServerNext(hit2, st2, cr2, te2, r, t)
  <2>1. r < ServerRank(t) \/ (t = "HELLO_REQUEST" /\ r = 9)
    BY <1>2, ServerNextRank
  <2>2. CASE p = q
    <3>1. t = "HELLO_REQUEST" /\ r = 9
      BY <1>1, <1>2, <2>1, <2>2, ServerRankType
    <3> QED BY <3>1 DEF ServerNext
  <2>3. CASE hit2 = hit /\ st2 = st
    BY <1>1, <1>2, <2>1, <2>3 DEF ServerNext, ServerRank
  <2> QED BY <2>2, <2>3
<1>3. ASSUME NEW i \in 1 .. Len(w)
      PROVE  ServerNext(hit2, st2, cr2, te2,
               IF i = 1 THEN p ELSE ServerRank(w[i - 1].type), w[i].type)
  <2> DEFINE r == IF i = 1 THEN p ELSE ServerRank(w[i - 1].type)
  <2>1. ServerNext(hit, st, cr, te, r, w[i].type)
    BY DEF ServerFlow
  <2>2. r \in 0 .. 9 /\ p <= r
    <3>1. CASE i = 1
      BY <3>1
    <3>2. CASE i # 1
      <4>1. i - 1 \in 1 .. Len(w) /\ ServerRank(w[i - 1].type) \in 1 .. 9
        BY <3>2, ServerRankType
      <4>2. ServerRank("HELLO_REQUEST") = 9
        BY DEF ServerRank
      <4> QED BY <1>1, <3>2, <4>1, <4>2
    <3> QED BY <3>1, <3>2
  <2> HIDE DEF r
  <2>3. ServerNext(hit2, st2, cr2, te2, r, w[i].type)
    BY <1>1, <1>2, <2>1, <2>2
  <2> QED BY <2>3 DEF r
<1> QED BY <1>3 DEF ServerFlow

LEMMA ClientFlowSettings ==
  ASSUME NEW w \in Seq(Messages), NEW p \in 0 .. 8, NEW q,
         NEW hit, NEW cr, NEW sd,
         NEW np, NEW hit2, NEW cr2,
         NEW sd2, NEW np2,
         ClientFlow(hit, cr, sd, np, p, w, q),
         (hit2 = hit /\ np2 = np) \/ p = q,
         (cr2 = cr /\ sd2 = sd) \/ hit \/ p = q
  PROVE  ClientFlow(hit2, cr2, sd2, np2, p, w, q)
<1>1. /\ q \in 0 .. 8
      /\ p = q => w = << >>
  BY ClientFlowBounds
<1>2. CASE p = q
  BY <1>1, <1>2 DEF ClientFlow
<1>3. CASE p # q
  <2>1. \A r, m : ClientNext(hit, cr, sd, np, r, m) =>
                  ClientNext(hit2, cr2, sd2, np2, r, m)
    BY <1>3 DEF ClientNext
  <2> QED BY <2>1 DEF ClientFlow
<1> QED BY <1>2, <1>3

LEMMA FlowNone ==
  ASSUME NEW p
  PROVE  /\ \A hit, st, cr, te : ServerFlow(hit, st, cr, te, p, << >>, p)
         /\ \A hit, cr, sd, np : ClientFlow(hit, cr, sd, np, p, << >>, p)
BY DEF ServerFlow, ClientFlow

-----------------------------------------------------------------------------
(* How far each endpoint has got: the rank of the last message it read and *)
(* of the last it wrote. A client that asks for another handshake on the   *)
(* same connection has heard everything and said one thing more.           *)

Renewing == cli.hand = "CW_CLNT_HELLO" /\ ~ClientFirstHandshake

ClientHeard ==
  CASE cli.hand = "BEFORE" -> 0
    [] cli.hand = "CW_CLNT_HELLO" -> IF ClientFirstHandshake THEN 0 ELSE 9
    [] cli.hand = "CR_SRVR_HELLO" -> 1
    [] cli.hand = "CR_CERT" -> 2
    [] cli.hand = "CR_CERT_STATUS" -> 3
    [] cli.hand = "CR_KEY_EXCH" -> 4
    [] cli.hand = "CR_CERT_REQ" -> 5
    [] cli.hand \in {"CR_SRVR_DONE", "CW_CERT", "CW_KEY_EXCH", "CW_CERT_VRFY"}
         -> 6
    [] cli.hand \in {"CW_CHANGE", "CW_NEXT_PROTO", "CW_FINISHED"} ->
         IF cli.hit THEN 9 ELSE 6
    [] cli.hand = "CR_SESSION_TICKET" -> 7
    [] cli.hand = "CR_CHANGE" -> 8
    [] OTHER -> 9

ClientSaid ==
  CASE cli.hand = "BEFORE" -> 0
    [] cli.hand = "CW_CLNT_HELLO" -> IF ClientFirstHandshake THEN 1 ELSE 8
    [] cli.hand \in {"CR_SRVR_HELLO", "CR_CERT", "CR_CERT_STATUS",
                     "CR_KEY_EXCH", "CR_CERT_REQ", "CR_SRVR_DONE"} -> 1
    [] cli.hand = "CW_CERT" -> 2
    [] cli.hand = "CW_KEY_EXCH" -> 3
    [] cli.hand = "CW_CERT_VRFY" -> 4
    [] cli.hand = "CW_CHANGE" -> 5
    [] cli.hand = "CW_NEXT_PROTO" -> 6
    [] cli.hand \in {"CR_SESSION_TICKET", "CR_CHANGE", "CR_FINISHED"} ->
         IF cli.hit THEN 1 ELSE 7
    [] OTHER -> 7

ServerSaid ==
  CASE srv.hand \in {"BEFORE", "SR_CLNT_HELLO"} -> 0
    [] srv.hand = "SW_SRVR_HELLO" -> 1
    [] srv.hand = "SW_CERT" -> 2
    [] srv.hand = "SW_CERT_STATUS" -> 3
    [] srv.hand = "SW_KEY_EXCH" -> 4
    [] srv.hand = "SW_CERT_REQ" -> 5
    [] srv.hand \in {"SW_SRVR_DONE", "SR_CERT", "SR_KEY_EXCH", "SR_CERT_VRFY"}
         -> 6
    [] srv.hand = "SW_SESSION_TICKET" -> 7
    [] srv.hand = "SW_CHANGE" -> 8
    [] srv.hand \in {"SR_CHANGE", "SR_NEXT_PROTO", "SR_FINISHED"} ->
         IF srv.hit THEN 9 ELSE 6
    [] OTHER -> 9

ServerHeard ==
  CASE srv.hand = "BEFORE" -> 0
    [] srv.hand \in {"SR_CLNT_HELLO", "SW_SRVR_HELLO", "SW_CERT",
                     "SW_CERT_STATUS", "SW_KEY_EXCH", "SW_CERT_REQ",
                     "SW_SRVR_DONE"} -> 1
    [] srv.hand = "SR_CERT" -> 2
    [] srv.hand = "SR_KEY_EXCH" -> 3
    [] srv.hand = "SR_CERT_VRFY" -> 4
    [] srv.hand = "SR_CHANGE" -> 5
    [] srv.hand = "SR_NEXT_PROTO" -> 6
    [] srv.hand \in {"SW_SESSION_TICKET", "SW_CHANGE", "SW_FINISHED"} ->
         IF srv.hit THEN 1 ELSE 7
    [] OTHER -> 7

(* What else each endpoint's position says, whatever its peer does.        *)
ClientLocal ==
  /\ cli.hand = "BEFORE" =>
       /\ ~cli.finSent /\ ~cli.finRead /\ cli.rkey = 0 /\ cli.wkey = 0
       /\ ~cli.newSession /\ cli.certReq = "no"
  /\ cli.finOk => cli.finRead
  /\ cli.hand = "CR_CHANGE" => cli.ccs
  /\ cli.flow = "UNINITED" => cli = NewClientSsl
  /\ cli.flow = "READING" =>
       cli.hand \notin {"CW_CERT", "CW_KEY_EXCH", "CW_CERT_VRFY", "CW_CHANGE",
                        "CW_NEXT_PROTO", "CR_HELLO_REQ"}
  /\ cli.flow = "ERROR" => cliSess = NoClientSession
  /\ cli.hit /\ cli.flow # "ERROR" =>
       cliSess.cipher = cli.newCipher
  /\ Renewing /\ cli.flow # "ERROR" /\ cliSess.sid # NoSid =>
       cliSess.cipher = cli.newCipher

ServerIdle == srv.hand \in {"OK", "SW_HELLO_REQ"}

ServerLocal ==
  /\ srv.hand = "BEFORE" =>
       /\ ~srv.hit /\ ~srv.finSent /\ ~srv.finRead
       /\ srv.rkey = 0 /\ srv.wkey = 0
       /\ srvSess = NoServerSession
  /\ srv.cleanuphand =>
       \/ srv.hand = "SR_FINISHED"
       \/ /\ srv.hand \in {"SW_SESSION_TICKET", "SW_CHANGE", "SW_FINISHED"}
          /\ ~srv.hit
  /\ srv.hand \in {"SR_CHANGE", "SR_NEXT_PROTO"} => srv.ccs
  /\ ReadSwitched \/ WriteSwitched \/ srv.hit => srvSess.cipher = srv.newCipher
  /\ srv.flow = "READING" =>
       \/ srv.hand \in {"BEFORE", "OK", "SW_SRVR_DONE", "SR_CERT",
                        "SR_KEY_EXCH", "SR_CERT_VRFY", "SR_CHANGE",
                        "SR_NEXT_PROTO"}
       \/ srv.hand = "SW_FINISHED" /\ srv.hit
  /\ ServerHeard >= 1 => srv.newCipher # NoSuite
  /\ ServerFirstHandshake /\ ServerHeard <= 6 => ~srv.finRead
  /\ ServerFirstHandshake /\ ServerSaid <= 8 => ~srv.finSent
  /\ ServerFirstHandshake /\ ServerSaid <= 4 => ~srv.certRequest
  /\ srv.flow = "UNINITED" =>
       /\ srv.newCipher = NoSuite /\ ~srv.statusExpected /\ ~srv.npnSeen
       /\ ~srv.ticketExpected /\ ~srv.certRequest

-----------------------------------------------------------------------------
(* What the two ends of an alive connection agree on.                      *)

(* The ticket flag of the endpoint that has not finished yet.              *)
TicketDue == IF srv.hit THEN srv.ticketExpected ELSE cli.ticketExpected

ToClientFlow ==
  ServerFlow(srv.hit, srv.statusExpected, srv.certRequest, TicketDue,
             ClientHeard, toClient, ServerSaid)

ToServerFlow ==
  ClientFlow(srv.hit, cli.certReq # "no", cli.certReq = "send", cli.npnSeen,
             ServerHeard, toServer, ClientSaid)

Streams ==
  /\ ToClientFlow /\ ToServerFlow
  /\ \A m \in Sent(toClient) : m.type = "HELLO_REQUEST" => ServerIdle

(* Only the first handshake of a connection gets past the hellos.          *)
OneHandshake ==
  ServerSaid < 9 \/ ServerHeard < 7 => ServerFirstHandshake

HelloAgreed ==
  /\ \A m \in Sent(toClient) : m.type = "SERVER_HELLO" =>
       /\ m.suite = srv.newCipher
       /\ ("ticket" \in m.ext) = srv.ticketExpected
       /\ ("status" \in m.ext) = srv.statusExpected
       /\ ("npn" \in m.ext) = srv.npnSeen
       /\ m.sid = srvSess.sid
  /\ ClientHeard >= 1 =>
       /\ cli.newCipher = srv.newCipher
       /\ cli.npnSeen = srv.npnSeen
       /\ srv.statusExpected => cli.statusExpected
       /\ ~Renewing => cli.hit = srv.hit
  /\ ClientHeard \in 1 .. 6 /\ ~ServerIdle =>
       cli.ticketExpected = srv.ticketExpected

CertAgreed ==
  /\ ClientHeard <= 4 => cli.certReq = "no"
  /\ ClientHeard = 5 => cli.certReq # "no" /\ srv.certRequest
  /\ ClientHeard = 6 /\ ServerHeard = 1 =>
       (cli.certReq # "no") = srv.certRequest
  /\ cli.certReq # "no" =>
       cli.certReq = IF cliCfg.chain = "empty" THEN "none" ELSE "send"
  /\ \A m \in Sent(toServer) : m.type = "CERTIFICATE" => m.chain = cliCfg.chain
  /\ ServerHeard <= 1 /\ ~srv.hit => srvSess.peer = "none"
  /\ ServerHeard \in 2 .. 4 =>
       (srvSess.peer # "none") = (cli.certReq = "send")

KeysAgreed ==
  /\ \A m \in Sent(toClient) :
       m.key = IF ServerRank(m.type) <= 8 THEN 0 ELSE srv.wkey
  /\ \A m \in Sent(toServer) :
       m.key = IF ClientRank(m) <= 5 THEN 0 ELSE cli.wkey
  /\ ServerSaid <= 7 => srv.wkey = 0
  /\ ClientHeard <= 7 => cli.rkey = 0
  /\ ClientHeard >= 8 => cli.rkey = srv.wkey
  /\ ClientSaid <= 4 => cli.wkey = 0
  /\ ServerHeard <= 4 => srv.rkey = 0
  /\ ServerHeard >= 5 => srv.rkey = cli.wkey
  /\ Renewing => cli.wkey = cli.rkey

(* A renegotiating client that had nothing to resume has dropped its       *)
(* session.                                                                *)
Dropped == Renewing /\ cliSess.sid = NoSid

SecretsAgreed ==
  /\ \A m \in Sent(toServer) :
       /\ m.type = "CLIENT_KEY_EXCHANGE" => m.secret = cliSess.ms
       /\ m.type = "CLIENT_HELLO" /\ m.key = 0 =>
            /\ m.sid = cliSess.sid
            /\ m.ticket \in {NoTicket, cliSess.ticket}
  /\ ServerHeard >= 3 /\ ~srv.hit /\ ~Dropped => srvSess.ms = cliSess.ms
  /\ srv.hit =>
       /\ cliSess.sid # NoSid
       /\ srvSess.ms = cliSess.ms /\ srvSess.cipher = cliSess.cipher
  /\ ServerHeard >= 1 /\ ClientHeard = 0 =>
       srv.hit = (srvSess.sid # NoSid /\ srvSess.sid = cliSess.sid)
  /\ \A m \in Sent(toClient) : m.type = "NEWSESSION_TICKET" =>
       /\ m.ticket # NoTicket
       /\ m.ticket.ms = srvSess.ms
       /\ m.ticket.suite = srv.newCipher

-----------------------------------------------------------------------------
(* The sessions that can be resumed.                                       *)
Drawn(sid) == sid[1] = "id" /\ sid[2] < srvFresh

(* The client runs a full handshake and has not switched keys yet.         *)
Unkeyed ==
  ClientHeard \in 1 .. 6 /\ ClientSaid <= 4 /\ ~cli.hit /\ cli.flow # "ERROR"

Resumption ==
  /\ \A c \in srvCache :
       /\ Drawn(c.sid)
       /\ c.cipher # NoSuite /\ c.ms # 0
       /\ c.sid = cliSess.sid => c.ms = cliSess.ms /\ c.cipher = cliSess.cipher
       /\ Unkeyed => c.sid # cliSess.sid
       /\ ~srv.hit /\ ~srv.finRead => c.sid # srvSess.sid
  /\ cliSess.sid = NoSid \/ Drawn(cliSess.sid) \/ cliSess.ticket # NoTicket
  /\ cliSess.ticket # NoTicket =>
       /\ cliSess.sid = TicketSid(cliSess.ticket.n)
       /\ cliSess.ticket.ms = cliSess.ms /\ cliSess.ms # 0
       /\ cliSess.ticket.suite = cliSess.cipher
  /\ Unkeyed => cliSess.ticket = NoTicket
  /\ srvSess.sid = NoSid \/ Drawn(srvSess.sid) \/ srv.hit

-----------------------------------------------------------------------------
(* A connection that is no longer alive.                                   *)
Established == cli.hand \in {"OK", "CR_HELLO_REQ"} \/ Renewing

(* Who sends a fatal alert has failed.                                     *)
Told ==
  /\ \A m \in Sent(toClient) : m.type = "FATAL_ALERT" => srv.flow = "ERROR"
  /\ \A m \in Sent(toServer) : m.type = "FATAL_ALERT" => cli.flow = "ERROR"

(* Up to an alert, nothing but HelloRequests, under the key k.             *)
Closing(w, k) ==
  \A i \in 1 .. Len(w) :
    \/ w[i].type \in AlertTypes \cup {"HELLO_REQUEST"} /\ w[i].key = k
    \/ \E j \in 1 .. (i - 1) : w[j].type \in AlertTypes

(* A client that has not failed is told, after HelloRequests at most; or   *)
(* it has told the server, which is idle.                                  *)
DeadClient ==
  cli.flow # "ERROR" =>
    /\ Closing(toClient, cli.rkey)
    /\ \/ Established
       \/ toClient # << >> /\ Head(toClient).type \in AlertTypes
    /\ \/ \E m \in Sent(toClient) : m.type \in AlertTypes
       \/ srv.flow # "ERROR" /\ ServerIdle /\ cli.rkey = srv.wkey

(* A server that has not failed is told next; or it has told the client,   *)
(* which asked to renegotiate.                                             *)
DeadServer ==
  srv.flow # "ERROR" =>
    /\ toServer # << >> =>
         Head(toServer).type \in AlertTypes /\ Head(toServer).key = srv.rkey
    /\ toServer = << >> =>
         cli.flow # "ERROR" /\ Renewing /\ cli.wkey = srv.rkey
    /\ cli.flow # "ERROR" => Established /\ ~srv.cleanuphand

(* A client that has heard everything holds the server's keys, or has      *)
(* dropped them to renegotiate.                                            *)
Agreed ==
  cli.flow # "ERROR" /\ ClientHeard = 9 /\ ~Dropped =>
    SameKeys /\ (~Renewing => cli.hit = srv.hit)

-----------------------------------------------------------------------------
(* Where the two endpoints can be.                                         *)

ClientPlace ==
  /\ ClientHeard \in 0 .. 9 /\ ClientSaid \in 0 .. 8
  /\ ClientSaid = 8 <=> Renewing
  /\ Renewing => ClientHeard = 9 /\ ~cli.hit
  /\ ~cli.hit /\ ~Renewing =>
       /\ ClientHeard = 0 => ClientSaid <= 1
       /\ ClientHeard \in 1 .. 5 => ClientSaid = 1
       /\ ClientHeard = 6 => ClientSaid >= 1
       /\ ClientHeard >= 7 => ClientSaid = 7
       /\ ClientSaid <= 1 => ClientHeard <= 6
       /\ ClientSaid = 0 => ClientHeard = 0
       /\ ClientSaid \in 2 .. 6 => ClientHeard = 6
       /\ ClientSaid = 7 => ClientHeard >= 6
  /\ cli.hit =>
       /\ ClientHeard \in {1, 7, 8, 9} /\ ClientSaid \in {1, 5, 6, 7}
       /\ ClientHeard < 9 => ClientSaid = 1

ServerPlace ==
  /\ ServerSaid \in 0 .. 9 /\ ServerHeard \in 0 .. 7
  /\ ServerIdle => ServerSaid = 9 /\ ServerHeard = 7
  /\ ~srv.hit =>
       /\ ServerHeard = 0 => ServerSaid = 0
       /\ ServerHeard = 1 => ServerSaid <= 6
       /\ ServerHeard \in 2 .. 6 => ServerSaid = 6
       /\ ServerHeard = 7 => ServerSaid >= 6
       /\ ServerSaid = 0 => ServerHeard <= 1
       /\ ServerSaid \in 1 .. 5 => ServerHeard = 1
       /\ ServerSaid = 6 => ServerHeard >= 1
       /\ ServerSaid >= 7 => ServerHeard = 7
  /\ srv.hit =>
       /\ ServerSaid \in {0, 1, 7, 8, 9} /\ ServerHeard \in {1, 5, 6, 7}
       /\ ServerSaid < 9 => ServerHeard = 1

LEMMA ClientTable ==
  ASSUME ClientTypeOK, ClientInv
  PROVE  ClientPlace
<1>1. cli.hand \in ClientHandStates
  BY DEF ClientTypeOK, ClientStates
<1>2. cli.hit => cli.hand \in {"CR_SRVR_HELLO", "CR_SESSION_TICKET", "CR_CHANGE",
                     "CR_FINISHED", "CW_CHANGE", "CW_NEXT_PROTO",
                     "CW_FINISHED", "OK", "CR_HELLO_REQ"}
  BY DEF ClientInv, ClientPosition
<1> QED BY <1>1, <1>2 DEF ClientPlace, ClientHeard, ClientSaid, Renewing,
                          ClientHandStates

LEMMA ServerTable ==
  ASSUME ServerTypeOK, ServerInv
  PROVE  ServerPlace
<1>1. srv.hand \in ServerHandStates
  BY DEF ServerTypeOK, ServerStates
<1>2. srv.hit =>
       srv.hand \in {"SR_CLNT_HELLO", "SW_SRVR_HELLO", "SW_SESSION_TICKET",
                     "SW_CHANGE", "SW_FINISHED", "SR_CHANGE", "SR_NEXT_PROTO",
                     "SR_FINISHED", "OK", "SW_HELLO_REQ"}
  BY DEF ServerInv, Position
<1> QED BY <1>1, <1>2 DEF ServerPlace, ServerHeard, ServerSaid, ServerIdle,
                          ServerHandStates

(* The same of the state that a step leads to.                             *)
LEMMA ClientTableNext ==
  ASSUME ClientTypeOK', ClientInv'
  PROVE  ClientPlace'
<1>1. cli'.hand \in ClientHandStates
  BY DEF ClientTypeOK, ClientStates
<1>2. cli'.hit => cli'.hand \in {"CR_SRVR_HELLO", "CR_SESSION_TICKET",
                     "CR_CHANGE", "CR_FINISHED", "CW_CHANGE", "CW_NEXT_PROTO",
                     "CW_FINISHED", "OK", "CR_HELLO_REQ"}
  BY DEF ClientInv, ClientPosition
<1> QED BY <1>1, <1>2 DEF ClientPlace, ClientHeard, ClientSaid, Renewing,
                          ClientHandStates

LEMMA ServerTableNext ==
  ASSUME ServerTypeOK', ServerInv'
  PROVE  ServerPlace'
<1>1. srv'.hand \in ServerHandStates
  BY DEF ServerTypeOK, ServerStates
<1>2. srv'.hit =>
       srv'.hand \in {"SR_CLNT_HELLO", "SW_SRVR_HELLO", "SW_SESSION_TICKET",
                      "SW_CHANGE", "SW_FINISHED", "SR_CHANGE", "SR_NEXT_PROTO",
                      "SR_FINISHED", "OK", "SW_HELLO_REQ"}
  BY DEF ServerInv, Position
<1> QED BY <1>1, <1>2 DEF ServerPlace, ServerHeard, ServerSaid, ServerIdle,
                          ServerHandStates

(* The keys are switched where the messages say.                           *)
LEMMA ServerSwitched ==
  ASSUME ServerTypeOK, ServerInv
  PROVE  /\ ServerSaid >= 8 => WriteSwitched
         /\ ServerHeard >= 5 => ReadSwitched
         /\ ServerHeard = 7 => AfterClientFinished
<1>1. srv.hand \in ServerHandStates
  BY DEF ServerTypeOK, ServerStates
<1>2. srv.hit => srv.hand # "SW_SRVR_DONE"
  BY DEF ServerInv, Position
<1> QED BY <1>1, <1>2 DEF WriteSwitched, ReadSwitched, AfterClientFinished,
                          ServerHeard, ServerSaid, ServerHandStates

-----------------------------------------------------------------------------
(* What a step of the client does that its peer can notice.                *)

(* What the hellos settle.                                                 *)
ClientDeal == <<cli.hit, cli.npnSeen, cli.statusExpected, cli.newCipher>>

LEMMA LastSent ==
  ASSUME NEW w \in Seq(Messages), NEW m, Append(w, m) \in Seq(Messages)
  PROVE  m \in Messages
<1>1. Len(w) \in Nat /\ Len(Append(w, m)) = Len(w) + 1
      /\ Append(w, m)[Len(w) + 1] = m
  OBVIOUS
<1>2. Len(w) + 1 \in 1 .. Len(Append(w, m))
  BY <1>1
<1> QED BY <1>1, <1>2

(* Nothing.                                                                *)
ClientQuiet ==
  /\ UNCHANGED <<cliSess, cliFresh, cliCfg, toClient, toServer>>
  /\ UNCHANGED <<ClientDeal, cli.certReq, cli.rkey, cli.wkey>>
  /\ UNCHANGED <<cli.finSent, cli.finRead, cli.finOk, cli.newSession>>
       \/ cli.hand \in {"OK", "CR_FINISHED", "CR_HELLO_REQ", "CW_FINISHED"}
  /\ UNCHANGED <<ClientHeard, ClientSaid>> /\ (Renewing' <=> Renewing)
  /\ cli'.ticketExpected = cli.ticketExpected \/ ClientHeard = 9
  /\ cli.flow # "ERROR" /\ cli'.flow \notin {"ERROR", "UNINITED"}
  /\ Established => Established'

LEMMA ClientQuietStep ==
  ASSUME ClientTypeOK, ClientInv, ClientLocal,
         \/ ClientConnect \/ ClientTurnToRead \/ ClientFinishHandshake
         \/ ClientWake \/ ClientRenegotiate
  PROVE  ClientQuiet
<1> USE DEF ClientQuiet, ClientDeal
<1>1. CASE ClientConnect
  <2>1. cli = NewClientSsl
    BY <1>1 DEF ClientConnect, ClientLocal
  <2>2. /\ UNCHANGED <<ClientDeal, cli.certReq, cli.rkey, cli.wkey>>
        /\ UNCHANGED <<cli.finSent, cli.finRead, cli.finOk, cli.newSession>>
        /\ UNCHANGED <<cli.hand, cli.ticketExpected>>
        /\ cli.flow = "UNINITED" /\ cli'.flow = "WRITING"
    BY <1>1, <2>1 DEF ClientConnect, NewClientSsl
  <2>3. UNCHANGED <<ClientHeard, ClientSaid>> /\ (Renewing' <=> Renewing)
    BY <2>2 DEF ClientHeard, ClientSaid, Renewing, ClientFirstHandshake
  <2>4. Established => Established'
    BY <2>2, <2>3 DEF Established
  <2> QED BY <1>1, <2>2, <2>3, <2>4 DEF ClientConnect, wireVars
<1>2. CASE \/ ClientTurnToRead \/ ClientWake \/ ClientRenegotiate
  <2>1. /\ UNCHANGED <<ClientDeal, cli.certReq, cli.rkey, cli.wkey>>
        /\ UNCHANGED <<cli.finSent, cli.finRead, cli.finOk>>
        /\ UNCHANGED <<cli.hand, cli.ticketExpected>>
        /\ cli'.newSession = cli.newSession \/ cli.flow = "FINISHED"
        /\ cli.flow # "ERROR" /\ cli'.flow \notin {"ERROR", "UNINITED"}
    BY <1>2 DEF ClientTurnToRead, ClientWake, ClientRenegotiate, ClientWriting,
                ClientTypeOK, ClientStates
  <2>2. cli.flow = "FINISHED" => cli.hand = "OK"
    BY DEF ClientInv, ClientPosition
  <2>3. UNCHANGED <<ClientHeard, ClientSaid>> /\ (Renewing' <=> Renewing)
    BY <2>1 DEF ClientHeard, ClientSaid, Renewing, ClientFirstHandshake
  <2>4. Established => Established'
    BY <2>1, <2>3 DEF Established
  <2> QED BY <1>2, <2>1, <2>2, <2>3, <2>4
          DEF ClientTurnToRead, ClientWake, ClientRenegotiate, wireVars
<1>3. CASE ClientFinishHandshake
  <2>1. \/ cli.hand = "CW_FINISHED" /\ cli.hit
        \/ cli.hand = "CR_FINISHED" /\ ~cli.hit
        \/ cli.hand = "CR_HELLO_REQ"
    BY <1>3, ClientWriteSources DEF ClientFinishHandshake, ClientWriting
  <2>2. /\ UNCHANGED <<ClientDeal, cli.certReq, cli.rkey, cli.wkey>>
        /\ UNCHANGED <<cli.finSent, cli.finRead, cli.finOk>>
        /\ cli'.hand = "OK"
        /\ cli.flow # "ERROR" /\ cli'.flow = "FINISHED"
    BY <1>3 DEF ClientFinishHandshake, ClientWriting, ClientTypeOK, ClientStates
  <2>3. ClientHeard = 9 /\ ClientSaid = 7 /\ ~Renewing
    BY <2>1 DEF ClientHeard, ClientSaid, Renewing
  <2>4. ClientHeard' = 9 /\ ClientSaid' = 7 /\ ~Renewing' /\ Established'
    BY <2>2 DEF ClientHeard, ClientSaid, Renewing, Established
  <2> QED BY <1>3, <2>1, <2>2, <2>3, <2>4 DEF ClientFinishHandshake, wireVars
<1> QED BY <1>1, <1>2, <1>3

(* A message after the ClientHello.                                        *)
ClientWrites(m) ==
  /\ toServer' = Append(toServer, m) /\ toClient' = toClient
  /\ m.type \in {"CERTIFICATE", "CLIENT_KEY_EXCHANGE", "CERTIFICATE_VERIFY",
                 "CHANGE_CIPHER_SPEC", "NEXT_PROTO", "FINISHED"}
  /\ m.key = cli.wkey
  /\ ClientNext(cli.hit, cli.certReq # "no", cli.certReq = "send", cli.npnSeen,
                ClientSaid, m)
  /\ ClientSaid' = ClientRank(m) /\ ClientHeard' = ClientHeard
  /\ ~Renewing /\ ~Renewing' /\ ClientSaid >= 1 /\ ~Established
  /\ cli.flow # "ERROR" /\ cli'.flow = "WRITING"
  /\ UNCHANGED <<ClientDeal, cli.certReq, cli.rkey, cli.ticketExpected, cliCfg>>
  /\ UNCHANGED <<cliSess.sid, cliSess.ticket>>
  /\ m.type = "CERTIFICATE" =>
       m.chain = IF cli.certReq = "none" THEN "empty" ELSE cliCfg.chain
  /\ IF m.type = "CLIENT_KEY_EXCHANGE"
       THEN m.secret = cliSess'.ms /\ m.secret # 0
       ELSE cliSess'.ms = cliSess.ms
  /\ IF m.type = "CHANGE_CIPHER_SPEC"
       THEN cliSess'.cipher = cli.newCipher /\ cli'.wkey = cliSess.ms
       ELSE UNCHANGED <<cliSess.cipher, cli.wkey>>

LEMMA ClientWriteStep ==
  ASSUME ClientTypeOK, WireTypeOK, WireTypeOK', ClientInv, cli'.flow # "ERROR",
         \/ ClientSendCertificate \/ ClientSendKeyExchange
         \/ ClientSendCertVerify \/ ClientSendChangeCipherSpec
         \/ ClientSendNextProto \/ ClientSendFinished
  PROVE  \E m \in Messages : ClientWrites(m)
<1>0. ASSUME NEW m, toServer' = Append(toServer, m)
      PROVE  m \in Messages
  BY <1>0, LastSent DEF WireTypeOK
<1> USE DEF ClientWrites, ClientDeal, ClientEmit, ClientWriting
<1>1. CASE ClientSendCertificate
  <2> DEFINE m == [Message("CERTIFICATE", cli.wkey) EXCEPT
       !.chain = IF cli.certReq = "none" THEN "empty" ELSE cliCfg.chain]
  <2>1. /\ m.type = "CERTIFICATE" /\ m.key = cli.wkey
        /\ m.chain = IF cli.certReq = "none" THEN "empty" ELSE cliCfg.chain
    BY DEF Message
  <2>2. toServer' = Append(toServer, m)
    BY <1>1 DEF ClientSendCertificate
  <2> HIDE DEF m
  <2>3. cli.hand = "CR_SRVR_DONE" /\ cli.certReq # "no"
    BY <1>1 DEF ClientSendCertificate, ClientWriteTransition, AfterCwFinished
  <2>4. cli'.hand = "CW_CERT" /\ ~cli.hit
    BY <1>1, <2>3 DEF ClientSendCertificate, ClientTypeOK, ClientStates,
                      ClientInv, ClientPosition
  <2>5. /\ ClientSaid = 1 /\ ClientSaid' = 2 /\ ClientHeard = 6
        /\ ClientHeard' = 6 /\ ~Renewing /\ ~Renewing' /\ ~Established
    BY <2>3, <2>4 DEF ClientSaid, ClientHeard, Renewing, Established
  <2>6. ClientRank(m) = 2
        /\ ClientNext(cli.hit, cli.certReq # "no", cli.certReq = "send",
                      cli.npnSeen, ClientSaid, m)
    BY <2>1, <2>3, <2>4, <2>5 DEF ClientRank, ClientNext
  <2>7. ClientWrites(m)
    BY <1>1, <2>1, <2>2, <2>5, <2>6
       DEF ClientSendCertificate, ClientTypeOK, ClientStates
  <2> QED BY <1>0, <2>2, <2>7
<1>2. CASE ClientSendKeyExchange
  <2> DEFINE m == [Message("CLIENT_KEY_EXCHANGE", cli.wkey) EXCEPT
                     !.secret = cliFresh]
  <2>1. /\ m.type = "CLIENT_KEY_EXCHANGE" /\ m.key = cli.wkey
        /\ m.secret = cliFresh
    BY DEF Message
  <2>2. toServer' = Append(toServer, m)
    BY <1>2 DEF ClientSendKeyExchange
  <2> HIDE DEF m
  <2>3. cli.hand = "CW_CERT" \/ (cli.hand = "CR_SRVR_DONE" /\ cli.certReq = "no")
    BY <1>2 DEF ClientSendKeyExchange, ClientWriteTransition, AfterCwFinished
  <2>4. cli'.hand = "CW_KEY_EXCH" /\ ~cli.hit
    BY <1>2, <2>3 DEF ClientSendKeyExchange, ClientTypeOK, ClientStates,
                      ClientInv, ClientPosition
  <2>5. /\ \/ ClientSaid = 2 \/ (ClientSaid = 1 /\ cli.certReq = "no")
        /\ ClientSaid' = 3 /\ ClientHeard = 6
        /\ ClientHeard' = 6 /\ ~Renewing /\ ~Renewing' /\ ~Established
    BY <2>3, <2>4 DEF ClientSaid, ClientHeard, Renewing, Established
  <2>6. ClientRank(m) = 3
        /\ ClientNext(cli.hit, cli.certReq # "no", cli.certReq = "send",
                      cli.npnSeen, ClientSaid, m)
    BY <2>1, <2>3, <2>4, <2>5 DEF ClientRank, ClientNext
  <2>7. /\ cliSess'.ms = cliFresh /\ cliFresh # 0
        /\ UNCHANGED <<cliSess.sid, cliSess.ticket, cliSess.cipher>>
    BY <1>2 DEF ClientSendKeyExchange, ClientTypeOK, ClientSessions, ClientInv,
                SessionOfServer
  <2>8. /\ cli.flow = "WRITING" /\ cli'.flow = "WRITING" /\ toClient' = toClient
        /\ UNCHANGED <<ClientDeal, cli.certReq, cli.rkey, cli.wkey,
                       cli.ticketExpected, cliCfg>>
    BY <1>2 DEF ClientSendKeyExchange, ClientTypeOK, ClientStates
  <2>9. ClientWrites(m)
    BY <2>1, <2>2, <2>5, <2>6, <2>7, <2>8
  <2> QED BY <1>0, <2>2, <2>9
<1>3. CASE ClientSendCertVerify
  <2> DEFINE m == [Message("CERTIFICATE_VERIFY", cli.wkey) EXCEPT
                             !.hs = cliHs, !.chain = cliCfg.chain]
  <2>0. cli.buffer
    BY <1>3 DEF ClientSendCertVerify, ClientFatal, ClientTypeOK, ClientStates
  <2>1. m.type = "CERTIFICATE_VERIFY" /\ m.key = cli.wkey
    BY DEF Message
  <2>2. toServer' = Append(toServer, m)
    BY <1>3, <2>0 DEF ClientSendCertVerify
  <2> HIDE DEF m
  <2>3. cli.hand = "CW_KEY_EXCH" /\ cli.certReq = "send"
    BY <1>3 DEF ClientSendCertVerify, ClientWriteTransition, AfterCwFinished
  <2>4. cli'.hand = "CW_CERT_VRFY" /\ ~cli.hit
    BY <1>3, <2>0, <2>3 DEF ClientSendCertVerify, ClientTypeOK, ClientStates,
                      ClientInv, ClientPosition
  <2>5. /\ ClientSaid = 3 /\ ClientSaid' = 4 /\ ClientHeard = 6
        /\ ClientHeard' = 6 /\ ~Renewing /\ ~Renewing' /\ ~Established
    BY <2>3, <2>4 DEF ClientSaid, ClientHeard, Renewing, Established
  <2>6. ClientRank(m) = 4
        /\ ClientNext(cli.hit, cli.certReq # "no", cli.certReq = "send",
                      cli.npnSeen, ClientSaid, m)
    BY <2>1, <2>3, <2>4, <2>5 DEF ClientRank, ClientNext
  <2>8. /\ cli.flow = "WRITING" /\ cli'.flow = "WRITING" /\ toClient' = toClient
        /\ UNCHANGED <<ClientDeal, cli.certReq, cli.rkey, cli.wkey,
                       cli.ticketExpected, cliCfg, cliSess>>
    BY <1>3, <2>0 DEF ClientSendCertVerify, ClientTypeOK, ClientStates
  <2>9. ClientWrites(m)
    BY <2>1, <2>2, <2>5, <2>6, <2>8
  <2> QED BY <1>0, <2>2, <2>9
<1>4. CASE ClientSendChangeCipherSpec
  <2> DEFINE m == Message("CHANGE_CIPHER_SPEC", cli.wkey)
  <2>1. m.type = "CHANGE_CIPHER_SPEC" /\ m.key = cli.wkey
    BY DEF Message
  <2>2. toServer' = Append(toServer, m)
    BY <1>4 DEF ClientSendChangeCipherSpec
  <2> HIDE DEF m
  <2>3. \/ cli.hand = "CW_CERT_VRFY"
        \/ cli.hand = "CW_KEY_EXCH" /\ cli.certReq # "send"
        \/ cli.hand = "CR_FINISHED" /\ cli.hit
    BY <1>4 DEF ClientSendChangeCipherSpec, ClientWriteTransition,
                AfterCwFinished
  <2>4. /\ cli'.hand = "CW_CHANGE" /\ cli'.hit = cli.hit
        /\ cli.hand # "CR_FINISHED" => ~cli.hit
    BY <1>4, <2>3 DEF ClientSendChangeCipherSpec, ClientTypeOK, ClientStates,
                      ClientInv, ClientPosition
  <2>5. /\ IF cli.hit THEN ClientSaid = 1
           ELSE ClientSaid = 4 \/ (ClientSaid = 3 /\ cli.certReq # "send")
        /\ ClientSaid' = 5 /\ ClientHeard = ClientHeard'
        /\ ~Renewing /\ ~Renewing' /\ ~Established
    BY <2>3, <2>4 DEF ClientSaid, ClientHeard, Renewing, Established
  <2>6. ClientRank(m) = 5
        /\ ClientNext(cli.hit, cli.certReq # "no", cli.certReq = "send",
                      cli.npnSeen, ClientSaid, m)
    BY <2>1, <2>3, <2>4, <2>5 DEF ClientRank, ClientNext
  <2>7. /\ cliSess'.cipher = cli.newCipher
        /\ UNCHANGED <<cliSess.sid, cliSess.ticket, cliSess.ms>>
    BY <1>4 DEF ClientSendChangeCipherSpec, ClientTypeOK, ClientSessions
  <2>8. /\ cli.flow = "WRITING" /\ cli'.flow = "WRITING" /\ toClient' = toClient
        /\ cli'.wkey = cliSess.ms
        /\ UNCHANGED <<ClientDeal, cli.certReq, cli.rkey,
                       cli.ticketExpected, cliCfg>>
    BY <1>4 DEF ClientSendChangeCipherSpec, ClientTypeOK, ClientStates
  <2>9. ClientWrites(m)
    BY <2>1, <2>2, <2>5, <2>6, <2>7, <2>8
  <2> QED BY <1>0, <2>2, <2>9
<1>5. CASE ClientSendNextProto
  <2> DEFINE m == Message("NEXT_PROTO", cli.wkey)
  <2>1. m.type = "NEXT_PROTO" /\ m.key = cli.wkey
    BY DEF Message
  <2>2. toServer' = Append(toServer, m)
    BY <1>5 DEF ClientSendNextProto
  <2> HIDE DEF m
  <2>3. cli.hand = "CW_CHANGE" /\ cli.npnSeen
    BY <1>5 DEF ClientSendNextProto, ClientWriteTransition, AfterCwFinished
  <2>4. cli'.hand = "CW_NEXT_PROTO" /\ cli'.hit = cli.hit
    BY <1>5, <2>3 DEF ClientSendNextProto, ClientTypeOK, ClientStates
  <2>5. /\ ClientSaid = 5 /\ ClientSaid' = 6 /\ ClientHeard = ClientHeard'
        /\ ~Renewing /\ ~Renewing' /\ ~Established
    BY <2>3, <2>4 DEF ClientSaid, ClientHeard, Renewing, Established
  <2>6. ClientRank(m) = 6
        /\ ClientNext(cli.hit, cli.certReq # "no", cli.certReq = "send",
                      cli.npnSeen, ClientSaid, m)
    BY <2>1, <2>3, <2>4, <2>5 DEF ClientRank, ClientNext
  <2>8. /\ cli.flow = "WRITING" /\ cli'.flow = "WRITING" /\ toClient' = toClient
        /\ UNCHANGED <<ClientDeal, cli.certReq, cli.rkey, cli.wkey,
                       cli.ticketExpected, cliCfg, cliSess>>
    BY <1>5 DEF ClientSendNextProto, ClientTypeOK, ClientStates
  <2>9. ClientWrites(m)
    BY <2>1, <2>2, <2>5, <2>6, <2>8
  <2> QED BY <1>0, <2>2, <2>9
<1>6. CASE ClientSendFinished
  <2> DEFINE m == [Message("FINISHED", cli.wkey) EXCEPT
                   !.secret = cliSess.ms, !.hs = cliHs]
  <2>1. m.type = "FINISHED" /\ m.key = cli.wkey
    BY DEF Message
  <2>2. toServer' = Append(toServer, m)
    BY <1>6 DEF ClientSendFinished
  <2> HIDE DEF m
  <2>3. cli.hand = "CW_NEXT_PROTO" \/ (cli.hand = "CW_CHANGE" /\ ~cli.npnSeen)
    BY <1>6 DEF ClientSendFinished, ClientWriteTransition, AfterCwFinished
  <2>4. cli'.hand = "CW_FINISHED" /\ cli'.hit = cli.hit
    BY <1>6, <2>3 DEF ClientSendFinished, ClientTypeOK, ClientStates
  <2>5. /\ ClientSaid = 6 \/ (ClientSaid = 5 /\ ~cli.npnSeen)
        /\ ClientSaid' = 7 /\ ClientHeard = ClientHeard'
        /\ ~Renewing /\ ~Renewing' /\ ~Established
    BY <2>3, <2>4 DEF ClientSaid, ClientHeard, Renewing, Established
  <2>6. ClientRank(m) = 7
        /\ ClientNext(cli.hit, cli.certReq # "no", cli.certReq = "send",
                      cli.npnSeen, ClientSaid, m)
    BY <2>1, <2>3, <2>4, <2>5 DEF ClientRank, ClientNext
  <2>8. /\ cli.flow = "WRITING" /\ cli'.flow = "WRITING" /\ toClient' = toClient
        /\ UNCHANGED <<ClientDeal, cli.certReq, cli.rkey, cli.wkey,
                       cli.ticketExpected, cliCfg, cliSess>>
    BY <1>6 DEF ClientSendFinished, ClientTypeOK, ClientStates
  <2>9. ClientWrites(m)
    BY <2>1, <2>2, <2>5, <2>6, <2>8
  <2> QED BY <1>0, <2>2, <2>9
<1> QED BY <1>1, <1>2, <1>3, <1>4, <1>5, <1>6

(* The ClientHello that opens a connection, or asks for another handshake. *)
ClientOffers(m) ==
  /\ toServer' = Append(toServer, m) /\ toClient' = toClient
  /\ m.type = "CLIENT_HELLO" /\ m.key = cli.wkey
  /\ m.suites = cliCfg.suites
  /\ "status" \in m.ext => cliCfg.status # "no"
  /\ "ticket" \in m.ext => cliCfg.tickets
  /\ "npn" \in m.ext => cliCfg.npn
  /\ cli.flow = "WRITING" /\ cli'.flow = "WRITING"
  /\ ~cli'.hit /\ cli'.certReq = "no"
  /\ UNCHANGED <<cli.npnSeen, cli.statusExpected, cli.newCipher, cli.rkey,
                 cli.wkey, cli.ticketExpected, cliCfg>>
  /\ UNCHANGED <<cliSess.sid, cliSess.ticket>>
  /\ cliSess' = IF cliSess.sid = NoSid THEN NoClientSession ELSE cliSess
  /\ ~Renewing

ClientOpens(m) ==
  /\ cli.hand = "BEFORE" /\ m.key = 0 /\ ~Renewing'
  /\ ClientSaid = 0 /\ ClientHeard = 0 /\ ClientSaid' = 1 /\ ClientHeard' = 0
  /\ m.sid = cliSess.sid
  /\ m.ticket = IF cliCfg.tickets THEN cliSess.ticket ELSE NoTicket

ClientRenews(m) ==
  /\ Established /\ m.key # 0 /\ Renewing'
  /\ ClientSaid = 7 /\ ClientHeard = 9 /\ ClientSaid' = 8 /\ ClientHeard' = 9
  /\ cliSess.cipher = cli.newCipher

LEMMA ClientHelloStep ==
  ASSUME ClientTypeOK, WireTypeOK, WireTypeOK', ClientInv, ClientLocal,
         ClientSendClientHello
  PROVE  \E m \in Messages :
           ClientOffers(m) /\ (ClientOpens(m) \/ ClientRenews(m))
<1> DEFINE resumable == cliSess.sid # NoSid \/ cliSess.ticket # NoTicket
           sess == IF resumable THEN cliSess ELSE NoClientSession
           ext == (IF cliCfg.tickets THEN {"ticket"} ELSE {})
                   \cup (IF cliCfg.status # "no" THEN {"status"} ELSE {})
                   \cup (IF cliCfg.npn /\ ClientFirstHandshake
                           THEN {"npn"} ELSE {})
           m == [Message("CLIENT_HELLO", cli.wkey) EXCEPT
                !.suites = cliCfg.suites,
                !.sid = IF cli.newSession THEN NoSid ELSE sess.sid,
                !.ticket = IF cli.newSession \/ ~cliCfg.tickets
                             THEN NoTicket ELSE sess.ticket,
                !.ext = ext]
<1>1. /\ toServer' = Append(toServer, m) /\ toClient' = toClient
      /\ cliSess' = sess
  BY DEF ClientSendClientHello
<1>2. /\ m.type = "CLIENT_HELLO" /\ m.key = cli.wkey
      /\ m.suites = cliCfg.suites /\ m.ext = ext
      /\ m.sid = IF cli.newSession THEN NoSid ELSE sess.sid
      /\ m.ticket = IF cli.newSession \/ ~cliCfg.tickets
                      THEN NoTicket ELSE sess.ticket
  BY DEF Message
<1>3. cliSess.ticket # NoTicket => cliSess.sid # NoSid
  BY DEF ClientInv, SessionOfServer
<1>4. /\ sess = IF cliSess.sid = NoSid THEN NoClientSession ELSE cliSess
      /\ sess.sid = cliSess.sid /\ sess.ticket = cliSess.ticket
  BY <1>3 DEF NoClientSession
<1>5. /\ "status" \in ext => cliCfg.status # "no"
      /\ "ticket" \in ext => cliCfg.tickets
      /\ "npn" \in ext => cliCfg.npn
  OBVIOUS
<1> HIDE DEF ext, m, sess
<1>6. m \in Messages
  BY <1>1, LastSent DEF WireTypeOK
<1>7. /\ cli.flow = "WRITING" /\ cli'.flow = "WRITING"
      /\ cli'.hand = "CW_CLNT_HELLO"
      /\ ~cli'.hit /\ cli'.certReq = "no"
      /\ UNCHANGED <<cli.npnSeen, cli.statusExpected, cli.newCipher, cli.rkey,
                     cli.wkey, cli.ticketExpected, cliCfg>>
      /\ UNCHANGED <<cli.finSent, cli.finRead>>
  BY DEF ClientSendClientHello, ClientWriting, ClientTypeOK, ClientStates
<1>8. cli.hand \in {"OK", "BEFORE", "CR_HELLO_REQ"}
  BY ClientWriteSources DEF ClientSendClientHello, ClientWriting
<1>9. ClientOffers(m)
  <2>1. ~Renewing
    BY <1>8 DEF Renewing
  <2>2. UNCHANGED <<cliSess.sid, cliSess.ticket>>
    BY <1>1, <1>4
  <2> QED BY <1>1, <1>2, <1>4, <1>5, <1>7, <2>1, <2>2 DEF ClientOffers
<1>10. CASE cli.hand = "BEFORE"
  <2>1. /\ ~cli.finSent /\ cli.wkey = 0 /\ ~cli.newSession
    BY <1>10 DEF ClientLocal
  <2>2. /\ ClientSaid = 0 /\ ClientHeard = 0 /\ ClientSaid' = 1
        /\ ClientHeard' = 0 /\ ~Renewing'
    BY <1>7, <1>10, <2>1 DEF ClientSaid, ClientHeard, Renewing,
                             ClientFirstHandshake
  <2>3. ClientOpens(m)
    BY <1>2, <1>4, <1>10, <2>1, <2>2 DEF ClientOpens
  <2> QED BY <1>6, <1>9, <2>3
<1>11. CASE cli.hand \in {"OK", "CR_HELLO_REQ"}
  <2>1. cli.finSent /\ cli.finOk
    BY <1>11 DEF ClientInv, ClientHistory, ClientFinishedSent,
                 ServerFinishedRead, ClientSettled
  <2>2. cli.finRead
    BY <2>1 DEF ClientLocal
  <2>3. cliSess.ms # 0 /\ cli.wkey = cliSess.ms /\ cliSess.cipher = cli.newCipher
    BY <1>7, <1>11 DEF ClientInv, ClientKeys, ClientReadSwitched,
                       ClientWriteSwitched, ClientSettled
  <2>4. /\ ClientSaid = 7 /\ ClientHeard = 9 /\ Established
    BY <1>11 DEF ClientSaid, ClientHeard, Established
  <2>5. ClientSaid' = 8 /\ ClientHeard' = 9 /\ Renewing'
    BY <1>7, <2>1, <2>2 DEF ClientSaid, ClientHeard, Renewing,
                            ClientFirstHandshake
  <2>6. ClientRenews(m)
    BY <1>2, <2>3, <2>4, <2>5 DEF ClientRenews
  <2> QED BY <1>6, <1>9, <2>6
<1> QED BY <1>8, <1>10, <1>11

(* The ServerHello.                                                        *)
ClientHearsHello ==
  /\ toClient # << >> /\ toClient' = Tail(toClient) /\ toServer' = toServer
  /\ ClientInput.type = "SERVER_HELLO"
  /\ cli.hand = "CW_CLNT_HELLO" /\ cli'.hand = "CR_SRVR_HELLO"
  /\ ClientSaid' = 1 /\ ClientHeard' = 1
  /\ cli.flow = "READING" /\ cli'.flow = "READING" /\ ~Renewing'
  /\ cli'.hit = ServerHelloHit(ClientInput)
  /\ cli'.newCipher = ClientInput.suite
  /\ cli'.ticketExpected = ("ticket" \in ClientInput.ext)
  /\ cli'.statusExpected = (cli.statusExpected \/ "status" \in ClientInput.ext)
  /\ cli'.npnSeen = ("npn" \in ClientInput.ext)
  /\ UNCHANGED <<cli.certReq, cli.rkey, cli.wkey, cliCfg>>
  /\ cliSess' = SessionAfterServerHello(ClientInput)
  /\ ServerHelloAccepted(ClientInput)

LEMMA ClientHelloRead ==
  ASSUME ClientTypeOK, ClientInv, ClientReadServerHello, cli'.flow # "ERROR"
  PROVE  ClientHearsHello
<1>1. /\ cli.flow = "READING" /\ toClient # << >>
      /\ ClientReadTransition(ClientInput.type) = "CR_SRVR_HELLO"
  BY DEF ClientReadServerHello, ClientReading
<1>2. cli.hand = "CW_CLNT_HELLO" /\ ClientInput.type = "SERVER_HELLO"
  BY <1>1 DEF ClientReadTransition
<1>3. ServerHelloAccepted(ClientInput)
  BY DEF ClientReadServerHello, ClientFatal, ClientTypeOK, ClientStates
<1>4. /\ cli' = [cli EXCEPT !.hand = "CR_SRVR_HELLO",
                 !.hit = ServerHelloHit(ClientInput),
                 !.newCipher = ClientInput.suite,
                 !.ticketExpected = "ticket" \in ClientInput.ext,
                 !.statusExpected = cli.statusExpected
                                      \/ "status" \in ClientInput.ext,
                 !.npnSeen = "npn" \in ClientInput.ext]
      /\ cliSess' = SessionAfterServerHello(ClientInput)
      /\ UNCHANGED <<toServer, cliFresh, cliCfg>>
      /\ toClient' = Tail(toClient)
  BY <1>3 DEF ClientReadServerHello, ClientConsume
<1>5. /\ cli'.hand = "CR_SRVR_HELLO" /\ cli'.flow = "READING"
      /\ cli'.hit = ServerHelloHit(ClientInput)
      /\ cli'.newCipher = ClientInput.suite
      /\ cli'.ticketExpected = ("ticket" \in ClientInput.ext)
      /\ cli'.statusExpected = (cli.statusExpected \/ "status" \in ClientInput.ext)
      /\ cli'.npnSeen = ("npn" \in ClientInput.ext)
      /\ UNCHANGED <<cli.certReq, cli.rkey, cli.wkey>>
  BY <1>1, <1>4 DEF ClientTypeOK, ClientStates
<1>6. ClientSaid' = 1 /\ ClientHeard' = 1 /\ ~Renewing'
  BY <1>5 DEF ClientSaid, ClientHeard, Renewing
<1> QED BY <1>1, <1>2, <1>3, <1>4, <1>5, <1>6 DEF ClientHearsHello

(* A message after the ServerHello.                                        *)
ClientReads ==
  /\ toClient # << >> /\ toClient' = Tail(toClient) /\ toServer' = toServer
  /\ ClientInput.type \in
       {"CERTIFICATE", "CERTIFICATE_STATUS", "SERVER_KEY_EXCHANGE",
        "CERTIFICATE_REQUEST", "SERVER_DONE", "NEWSESSION_TICKET",
        "CHANGE_CIPHER_SPEC", "FINISHED"}
  /\ ClientSaid' = ClientSaid /\ ClientHeard' = ServerRank(ClientInput.type)
  /\ ~Renewing /\ ~Renewing' /\ ~Established
  /\ cli.flow = "READING" /\ cli'.flow \in {"READING", "WRITING"}
  /\ UNCHANGED <<ClientDeal, cli.wkey, cli.ticketExpected, cliCfg>>
  /\ cliSess'.ms = cliSess.ms
  /\ cli'.certReq =
       IF ClientInput.type = "CERTIFICATE_REQUEST"
         THEN IF cliCfg.chain = "empty" THEN "none" ELSE "send"
         ELSE cli.certReq
  /\ IF ClientInput.type = "CHANGE_CIPHER_SPEC"
       THEN cliSess'.cipher = cli.newCipher /\ cli'.rkey = cliSess.ms
       ELSE UNCHANGED <<cliSess.cipher, cli.rkey>>
  /\ IF ClientInput.type = "NEWSESSION_TICKET" /\ ClientInput.ticket # NoTicket
       THEN /\ cliSess'.ticket = ClientInput.ticket
            /\ cliSess'.sid = TicketSid(ClientInput.ticket.n)
       ELSE UNCHANGED <<cliSess.ticket, cliSess.sid>>

LEMMA ClientReadStep ==
  ASSUME ClientTypeOK, ClientInv, cli'.flow # "ERROR",
         \/ ClientReadCertificate \/ ClientReadCertStatus
         \/ ClientReadKeyExchange \/ ClientReadCertificateRequest
         \/ ClientReadServerDone \/ ClientReadSessionTicket
         \/ ClientReadChangeCipherSpec \/ ClientReadFinished
  PROVE  ClientReads
<1> USE DEF ClientReads, ClientDeal, ClientConsume, ClientReading
<1>1. CASE ClientReadCertificate
  <2>1. cli.hand = "CR_SRVR_HELLO" /\ ~cli.hit
        /\ ClientInput.type = "CERTIFICATE"
    BY <1>1 DEF ClientReadCertificate, ClientReadTransition
  <2>2. ServerChainAccepted(ClientInput.chain)
    BY <1>1 DEF ClientReadCertificate, ClientFatal, ClientTypeOK, ClientStates
  <2>3. /\ cli' = [cli EXCEPT !.hand = "CR_CERT"]
        /\ cliSess' = IF ClientInput.chain = "single" THEN cliSess
                          ELSE [cliSess EXCEPT !.peer = ClientInput.chain]
    BY <1>1, <2>2 DEF ClientReadCertificate
  <2>4. cli'.hand = "CR_CERT" /\ UNCHANGED <<cliSess.ms, cliSess.cipher,
          cliSess.ticket, cliSess.sid>>
    BY <2>3 DEF ClientTypeOK, ClientStates, ClientSessions
  <2>5. /\ ClientSaid = 1 /\ ClientSaid' = 1 /\ ClientHeard' = 2
        /\ ServerRank("CERTIFICATE") = 2
        /\ ~Renewing /\ ~Renewing' /\ ~Established
    BY <2>1, <2>4 DEF ClientSaid, ClientHeard, Renewing, Established, ServerRank
  <2> QED BY <1>1, <2>1, <2>2, <2>3, <2>4, <2>5
          DEF ClientReadCertificate, ClientTypeOK, ClientStates
<1>2. CASE ClientReadCertStatus
  <2>1. cli.hand = "CR_CERT" /\ ClientInput.type = "CERTIFICATE_STATUS"
    BY <1>2 DEF ClientReadCertStatus, ClientReadTransition
  <2>3. cli' = [cli EXCEPT !.hand = "CR_CERT_STATUS"] /\ cliSess' = cliSess
    BY <1>2 DEF ClientReadCertStatus
  <2>4. cli'.hand = "CR_CERT_STATUS"
    BY <2>3 DEF ClientTypeOK, ClientStates, ClientSessions
  <2>5. /\ ClientSaid = 1 /\ ClientSaid' = 1 /\ ClientHeard' = 3
        /\ ServerRank("CERTIFICATE_STATUS") = 3
        /\ ~Renewing /\ ~Renewing' /\ ~Established
    BY <2>1, <2>4 DEF ClientSaid, ClientHeard, Renewing, Established, ServerRank
  <2> QED BY <1>2, <2>1, <2>3, <2>4, <2>5
          DEF ClientReadCertStatus, ClientTypeOK, ClientStates
<1>3. CASE ClientReadKeyExchange
  <2>1. cli.hand \in {"CR_CERT", "CR_CERT_STATUS"}
        /\ ClientInput.type = "SERVER_KEY_EXCHANGE"
    BY <1>3 DEF ClientReadKeyExchange, ClientReadTransition
  <2>3. /\ cli' = [cli EXCEPT !.hand = "CR_KEY_EXCH", !.skeOk = TRUE]
        /\ UNCHANGED <<toServer, cliSess, cliFresh, cliCfg>>
    BY <1>3 DEF ClientReadKeyExchange, ClientFatal, ClientTypeOK, ClientStates
  <2>4. cli'.hand = "CR_KEY_EXCH"
    BY <2>3 DEF ClientTypeOK, ClientStates, ClientSessions
  <2>5. /\ ClientSaid = 1 /\ ClientSaid' = 1 /\ ClientHeard' = 4
        /\ ServerRank("SERVER_KEY_EXCHANGE") = 4
        /\ ~Renewing /\ ~Renewing' /\ ~Established
    BY <2>1, <2>4 DEF ClientSaid, ClientHeard, Renewing, Established, ServerRank
  <2> QED BY <1>3, <2>1, <2>3, <2>4, <2>5
          DEF ClientReadKeyExchange, ClientTypeOK, ClientStates
<1>4. CASE ClientReadCertificateRequest
  <2>1. cli.hand = "CR_KEY_EXCH" /\ ClientInput.type = "CERTIFICATE_REQUEST"
    BY <1>4 DEF ClientReadCertificateRequest, ClientReadTransition
  <2>3. cli' = [cli EXCEPT !.hand = "CR_CERT_REQ",
       !.certReq = IF cliCfg.chain = "empty" THEN "none" ELSE "send",
       !.buffer = cli.buffer /\ cliCfg.chain # "empty"] /\ cliSess' = cliSess
    BY <1>4 DEF ClientReadCertificateRequest
  <2>4. cli'.hand = "CR_CERT_REQ"
        /\ cli'.certReq = IF cliCfg.chain = "empty" THEN "none" ELSE "send"
    BY <2>3 DEF ClientTypeOK, ClientStates, ClientSessions
  <2>5. /\ ClientSaid = 1 /\ ClientSaid' = 1 /\ ClientHeard' = 5
        /\ ServerRank("CERTIFICATE_REQUEST") = 5
        /\ ~Renewing /\ ~Renewing' /\ ~Established
    BY <2>1, <2>4 DEF ClientSaid, ClientHeard, Renewing, Established, ServerRank
  <2> QED BY <1>4, <2>1, <2>3, <2>4, <2>5
          DEF ClientReadCertificateRequest, ClientTypeOK, ClientStates
<1>5. CASE ClientReadServerDone
  <2>1. cli.hand \in {"CR_KEY_EXCH", "CR_CERT_REQ"}
        /\ ClientInput.type = "SERVER_DONE"
    BY <1>5 DEF ClientReadServerDone, ClientReadTransition
  <2>3. /\ cli' = [cli EXCEPT !.hand = "CR_SRVR_DONE", !.flow = "WRITING"]
        /\ UNCHANGED <<toServer, cliSess, cliFresh, cliCfg>>
    BY <1>5 DEF ClientReadServerDone, ClientFatal, ClientTypeOK, ClientStates
  <2>4. cli'.hand = "CR_SRVR_DONE"
    BY <2>3 DEF ClientTypeOK, ClientStates, ClientSessions
  <2>5. /\ ClientSaid = 1 /\ ClientSaid' = 1 /\ ClientHeard' = 6
        /\ ServerRank("SERVER_DONE") = 6
        /\ ~Renewing /\ ~Renewing' /\ ~Established
    BY <2>1, <2>4 DEF ClientSaid, ClientHeard, Renewing, Established, ServerRank
  <2> QED BY <1>5, <2>1, <2>3, <2>4, <2>5
          DEF ClientReadServerDone, ClientTypeOK, ClientStates
<1>6. CASE ClientReadSessionTicket
  <2>1. /\ \/ cli.hand = "CR_SRVR_HELLO" /\ cli.hit
           \/ cli.hand = "CW_FINISHED"
        /\ ClientInput.type = "NEWSESSION_TICKET"
    BY <1>6 DEF ClientReadSessionTicket, ClientReadTransition
  <2>2. cli.hand = "CW_FINISHED" => ~cli.hit
    BY <1>6 DEF ClientReadSessionTicket, ClientInv, ClientPosition
  <2>3. /\ cli' = [cli EXCEPT !.hand = "CR_SESSION_TICKET"]
        /\ cliSess' = IF ClientInput.ticket = NoTicket THEN cliSess
                ELSE [cliSess EXCEPT !.ticket = ClientInput.ticket,
                                     !.sid = TicketSid(ClientInput.ticket.n)]
    BY <1>6 DEF ClientReadSessionTicket
  <2>4. /\ cli'.hand = "CR_SESSION_TICKET" /\ cli'.hit = cli.hit
        /\ UNCHANGED <<cliSess.ms, cliSess.cipher>>
        /\ IF ClientInput.ticket # NoTicket
             THEN /\ cliSess'.ticket = ClientInput.ticket
                  /\ cliSess'.sid = TicketSid(ClientInput.ticket.n)
             ELSE UNCHANGED <<cliSess.ticket, cliSess.sid>>
    BY <2>3 DEF ClientTypeOK, ClientStates, ClientSessions
  <2>5. /\ ClientSaid' = ClientSaid /\ ClientHeard' = 7
        /\ ServerRank("NEWSESSION_TICKET") = 7
        /\ ~Renewing /\ ~Renewing' /\ ~Established
    BY <2>1, <2>2, <2>4
       DEF ClientSaid, ClientHeard, Renewing, Established, ServerRank
  <2> QED BY <1>6, <2>1, <2>3, <2>4, <2>5
          DEF ClientReadSessionTicket, ClientTypeOK, ClientStates
<1>7. CASE ClientReadChangeCipherSpec
  <2>1. /\ \/ cli.hand = "CR_SRVR_HELLO" /\ cli.hit
           \/ cli.hand \in {"CW_FINISHED", "CR_SESSION_TICKET"}
        /\ ClientInput.type = "CHANGE_CIPHER_SPEC"
    BY <1>7 DEF ClientReadChangeCipherSpec, ClientReadTransition
  <2>2. cli.hand = "CW_FINISHED" => ~cli.hit
    BY <1>7 DEF ClientReadChangeCipherSpec, ClientInv, ClientPosition
  <2>3. /\ cli' = [cli EXCEPT !.hand = "CR_CHANGE", !.ccs = TRUE,
                         !.rkey = cliSess.ms, !.finOk = FALSE]
        /\ cliSess' = [cliSess EXCEPT !.cipher = cli.newCipher]
        /\ UNCHANGED <<toServer, cliFresh, cliCfg>>
    BY <1>7 DEF ClientReadChangeCipherSpec, ClientFatal, ClientTypeOK,
                ClientStates
  <2>4. /\ cli'.hand = "CR_CHANGE" /\ cli'.hit = cli.hit
        /\ cliSess'.cipher = cli.newCipher /\ cli'.rkey = cliSess.ms
        /\ UNCHANGED <<cliSess.ms, cliSess.ticket, cliSess.sid>>
    BY <2>3 DEF ClientTypeOK, ClientStates, ClientSessions
  <2>5. /\ ClientSaid' = ClientSaid /\ ClientHeard' = 8
        /\ ServerRank("CHANGE_CIPHER_SPEC") = 8
        /\ ~Renewing /\ ~Renewing' /\ ~Established
    BY <2>1, <2>2, <2>4
       DEF ClientSaid, ClientHeard, Renewing, Established, ServerRank
  <2> QED BY <1>7, <2>1, <2>3, <2>4, <2>5
          DEF ClientReadChangeCipherSpec, ClientTypeOK, ClientStates
<1>8. CASE ClientReadFinished
  <2>1. cli.hand = "CR_CHANGE" /\ ClientInput.type = "FINISHED"
    BY <1>8 DEF ClientReadFinished, ClientReadTransition
  <2>3. /\ cli' = [cli EXCEPT !.hand = "CR_FINISHED", !.flow = "WRITING",
                         !.ccs = FALSE, !.finRead = TRUE, !.finOk = TRUE]
        /\ UNCHANGED <<toServer, cliSess, cliFresh, cliCfg>>
    BY <1>8 DEF ClientReadFinished, ClientFatal, ClientTypeOK, ClientStates
  <2>4. cli'.hand = "CR_FINISHED" /\ cli'.hit = cli.hit
    BY <2>3 DEF ClientTypeOK, ClientStates, ClientSessions
  <2>5. /\ ClientSaid' = ClientSaid /\ ClientHeard' = 9
        /\ ServerRank("FINISHED") = 9
        /\ ~Renewing /\ ~Renewing' /\ ~Established
    BY <2>1, <2>4 DEF ClientSaid, ClientHeard, Renewing, Established, ServerRank
  <2> QED BY <1>8, <2>1, <2>3, <2>4, <2>5
          DEF ClientReadFinished, ClientTypeOK, ClientStates
<1> QED BY <1>1, <1>2, <1>3, <1>4, <1>5, <1>6, <1>7, <1>8

(* A HelloRequest, dropped, followed or refused.                           *)
ClientReadsRequest ==
  /\ toClient # << >> /\ toClient' = Tail(toClient)
  /\ ClientInput.type = "HELLO_REQUEST"
  /\ UNCHANGED <<cliSess, cliFresh, cliCfg>>
  /\ UNCHANGED <<ClientDeal, cli.certReq, cli.rkey, cli.wkey,
                 cli.ticketExpected>>
  /\ UNCHANGED <<ClientHeard, ClientSaid>> /\ (Renewing' <=> Renewing)
  /\ cli.flow = "READING" /\ cli'.flow \in {"READING", "WRITING"}
  /\ Established => Established'
  /\ \/ toServer' = toServer
     \/ /\ toServer' = Append(toServer,
                              Message("NO_RENEGOTIATION_ALERT", cli.wkey))
        /\ cli.hand = "OK" /\ cli'.hand = "CR_HELLO_REQ"
        /\ ClientSaid = 7 /\ ClientHeard = 9 /\ ~Renewing

LEMMA ClientRequestStep ==
  ASSUME ClientTypeOK, ClientInv,
         ClientReadHelloRequest \/ ClientSkipHelloRequest
  PROVE  ClientReadsRequest
<1> USE DEF ClientReadsRequest, ClientDeal, ClientReading
<1>1. CASE ClientReadHelloRequest
  <2>1. cli.hand = "OK" /\ ClientInput.type = "HELLO_REQUEST"
    BY <1>1 DEF ClientReadHelloRequest, ClientReadTransition
  <2>2. /\ cli'.hand = "CR_HELLO_REQ" /\ cli'.flow = "WRITING"
        /\ UNCHANGED <<ClientDeal, cli.certReq, cli.rkey, cli.wkey,
                       cli.ticketExpected>>
    BY <1>1 DEF ClientReadHelloRequest, ClientTypeOK, ClientStates
  <2>3. /\ ClientSaid = 7 /\ ClientSaid' = 7 /\ ClientHeard = 9
        /\ ClientHeard' = 9 /\ ~Renewing /\ ~Renewing' /\ Established'
    BY <2>1, <2>2 DEF ClientSaid, ClientHeard, Renewing, Established
  <2> QED BY <1>1, <2>1, <2>2, <2>3 DEF ClientReadHelloRequest, ClientConsume
<1>2. CASE ClientSkipHelloRequest
  <2>1. cli' = cli
    BY <1>2 DEF ClientSkipHelloRequest, clientVars
  <2>2. UNCHANGED <<ClientHeard, ClientSaid>> /\ (Renewing' <=> Renewing)
    BY <2>1 DEF ClientHeard, ClientSaid, Renewing, ClientFirstHandshake
  <2>3. Established' <=> Established
    BY <2>1, <2>2 DEF Established
  <2> QED BY <1>2, <2>1, <2>2, <2>3
          DEF ClientSkipHelloRequest, ClientSkips, clientVars
<1> QED BY <1>1, <1>2

(* A failure: on what was read, and not on a message to write.             *)
ClientFails ==
  /\ cli.flow \in {"READING", "FINISHED"} /\ cli'.flow = "ERROR"
  /\ toClient # << >> /\ toClient' = Tail(toClient)
  /\ cliSess' = NoClientSession
  /\ UNCHANGED <<cli.hand, cli.finSent, cli.finRead, cli.finOk, cli.rkey,
                 cli.wkey, cli.ccs, cli.hit, cli.certReq, cli.newSession,
                 cli.newCipher, cliCfg>>
  /\ \/ ClientInput.type \in AlertTypes
     \/ ClientInput.type = "CHANGE_CIPHER_SPEC"
     \/ cli.flow = "READING" /\ ~ClientSkips(ClientInput)
  /\ \/ toServer' = Append(toServer, Message("FATAL_ALERT", cli.wkey))
     \/ ClientInput.type = "FATAL_ALERT" /\ toServer' = toServer

LEMMA ClientFailStep ==
  ASSUME ClientTypeOK, ClientInv, ClientStep, cli'.flow = "ERROR"
  PROVE  ClientFails
<1>1. CASE ClientConnect \/ ClientRenegotiate
  BY <1>1 DEF ClientConnect, ClientRenegotiate, NewClientSsl, ClientTypeOK,
              ClientStates
<1>2. CASE ClientWrite
  <2>1. CASE ClientSendCertVerify
    <3>1. cli.hand = "CW_KEY_EXCH" /\ cli.certReq = "send"
      BY <2>1, ClientWriteSources DEF ClientSendCertVerify, ClientWriting
    <3>2. cli.buffer
      BY <3>1 DEF ClientInv, BufferKept
    <3> QED BY <2>1, <3>2 DEF ClientSendCertVerify, ClientWriting, ClientTypeOK,
                              ClientStates
  <2>2. CASE ~ClientSendCertVerify
    BY <1>2, <2>2 DEF ClientWrite, ClientTurnToRead, ClientSendClientHello,
           ClientSendCertificate, ClientSendKeyExchange,
           ClientSendChangeCipherSpec, ClientSendNextProto,
           ClientSendFinished, ClientFinishHandshake, ClientWriting,
           ClientTypeOK, ClientStates
  <2> QED BY <2>1, <2>2
<1>3. CASE ClientRead
  <2>1. ASSUME ClientFatal, ClientConsume, toClient # << >>,
               cli.flow \in {"READING", "FINISHED"},
               \/ ClientInput.type \in AlertTypes
               \/ ClientInput.type = "CHANGE_CIPHER_SPEC"
               \/ cli.flow = "READING" /\ ~ClientSkips(ClientInput)
        PROVE  ClientFails
    BY <2>1 DEF ClientFails, ClientFatal, ClientConsume, ClientTypeOK,
                ClientStates
  <2> HIDE DEF ClientFails
  <2> USE DEF ClientReading
  <2>2. CASE ClientReadServerHello
    BY <2>1, <2>2 DEF ClientReadServerHello, ClientTypeOK, ClientStates
  <2>3. CASE ClientReadCertificate
    BY <2>1, <2>3 DEF ClientReadCertificate, ClientTypeOK, ClientStates
  <2>4. CASE ClientReadKeyExchange
    BY <2>1, <2>4 DEF ClientReadKeyExchange, ClientTypeOK, ClientStates
  <2>5. CASE ClientReadServerDone
    BY <2>1, <2>5 DEF ClientReadServerDone, ClientTypeOK, ClientStates
  <2>6. CASE ClientReadChangeCipherSpec
    BY <2>1, <2>6 DEF ClientReadChangeCipherSpec, ClientTypeOK, ClientStates
  <2>7. CASE ClientReadFinished
    BY <2>1, <2>7 DEF ClientReadFinished, ClientTypeOK, ClientStates
  <2>8. CASE \/ ClientReadCertStatus \/ ClientReadCertificateRequest
             \/ ClientReadSessionTicket \/ ClientReadHelloRequest
             \/ ClientSkipHelloRequest \/ ClientWake
    BY <2>8 DEF ClientReadCertStatus, ClientReadCertificateRequest,
           ClientReadSessionTicket, ClientReadHelloRequest,
           ClientSkipHelloRequest, ClientWake, clientVars, ClientTypeOK,
           ClientStates
  <2>9. CASE ClientUnexpected
    BY <2>1, <2>9 DEF ClientUnexpected
  <2>10. CASE ClientReadAlert
    <3>1. CASE cli.ccs
      BY <2>1, <2>10, <3>1 DEF ClientReadAlert, AlertTypes
    <3>2. CASE ~cli.ccs
      BY <2>10, <3>2 DEF ClientReadAlert, AlertTypes, ClientFails,
                         ClientConsume, ClientTypeOK, ClientStates
    <3> QED BY <3>1, <3>2
  <2>11. CASE ClientReadNoRenegotiation
    BY <2>1, <2>11 DEF ClientReadNoRenegotiation, AlertTypes
  <2>12. CASE ClientStrayChangeCipherSpec
    BY <2>1, <2>12 DEF ClientStrayChangeCipherSpec
  <2> QED BY <1>3, <2>2, <2>3, <2>4, <2>5, <2>6, <2>7, <2>8, <2>9, <2>10,
             <2>11, <2>12 DEF ClientRead
<1> QED BY <1>1, <1>2, <1>3 DEF ClientStep

(* The kinds of steps.                                                     *)
LEMMA ClientKinds ==
  ASSUME ClientTypeOK, WireTypeOK, WireTypeOK', ClientInv, ClientLocal,
         ClientStep
  PROVE  \/ ClientFails
         \/ ClientQuiet
         \/ \E m \in Messages : ClientOffers(m) /\ ClientOpens(m)
         \/ \E m \in Messages : ClientOffers(m) /\ ClientRenews(m)
         \/ \E m \in Messages : ClientWrites(m)
         \/ ClientHearsHello
         \/ ClientReads
         \/ ClientReadsRequest
<1>1. CASE cli'.flow = "ERROR"
  BY <1>1, ClientFailStep
<1>2. CASE cli'.flow # "ERROR"
  <2>1. CASE \/ ClientConnect \/ ClientTurnToRead \/ ClientFinishHandshake
             \/ ClientWake \/ ClientRenegotiate
    BY <2>1, ClientQuietStep
  <2>2. CASE ClientSendClientHello
    BY <2>2, ClientHelloStep
  <2>3. CASE \/ ClientSendCertificate \/ ClientSendKeyExchange
             \/ ClientSendCertVerify \/ ClientSendChangeCipherSpec
             \/ ClientSendNextProto \/ ClientSendFinished
    BY <1>2, <2>3, ClientWriteStep
  <2>4. CASE ClientReadServerHello
    BY <1>2, <2>4, ClientHelloRead
  <2>5. CASE \/ ClientReadCertificate \/ ClientReadCertStatus
             \/ ClientReadKeyExchange \/ ClientReadCertificateRequest
             \/ ClientReadServerDone \/ ClientReadSessionTicket
             \/ ClientReadChangeCipherSpec \/ ClientReadFinished
    BY <1>2, <2>5, ClientReadStep
  <2>6. CASE ClientReadHelloRequest \/ ClientSkipHelloRequest
    BY <2>6, ClientRequestStep
  <2>7. CASE \/ ClientUnexpected \/ ClientReadAlert
             \/ ClientReadNoRenegotiation \/ ClientStrayChangeCipherSpec
    <3>1. cli'.flow = "ERROR"
      BY <2>7 DEF ClientUnexpected, ClientReadAlert, ClientReadNoRenegotiation,
                  ClientStrayChangeCipherSpec, ClientFatal, ClientTypeOK,
                  ClientStates
    <3> QED BY <1>2, <3>1
  <2> QED BY <2>1, <2>2, <2>3, <2>4, <2>5, <2>6, <2>7
          DEF ClientStep, ClientWrite, ClientRead
<1> QED BY <1>1, <1>2

LEMMA ClientLocalKept ==
  ASSUME ClientTypeOK, ClientInv, ClientLocal,
         ClientStep \/ ClientNewConnection
  PROVE  ClientLocal'
<1>0. cli \in ClientStates /\ cliSess \in ClientSessions
  BY DEF ClientTypeOK
<1> USE DEF Renewing, ClientFirstHandshake
<1>1. CASE ClientFails
  <2>1. /\ cli'.flow = "ERROR" /\ cliSess' = NoClientSession
        /\ UNCHANGED <<cli.hand, cli.finSent, cli.finRead, cli.finOk, cli.rkey,
                       cli.wkey, cli.ccs, cli.certReq, cli.newSession>>
    BY <1>1 DEF ClientFails
  <2> QED BY <2>1 DEF ClientLocal
<1>2. CASE ClientConnect \/ ClientNewConnection
  <2>1. /\ cli'.hand = "BEFORE" /\ ~cli'.finSent /\ ~cli'.finRead
        /\ cli'.rkey = 0 /\ cli'.wkey = 0 /\ ~cli'.newSession
        /\ cli'.certReq = "no" /\ ~cli'.finOk /\ ~cli'.hit
        /\ cli'.flow \in {"UNINITED", "WRITING"}
        /\ cli'.flow = "UNINITED" => cli' = NewClientSsl
    <3>1. CASE ClientConnect
      BY <3>1, <1>0 DEF ClientConnect, NewClientSsl, ClientLocal
    <3>2. CASE ClientNewConnection
      BY <3>2 DEF ClientNewConnection, NewClientSsl
    <3> QED BY <1>2, <3>1, <3>2
  <2> QED BY <2>1 DEF ClientLocal
<1>3. CASE ClientWrite /\ ~ClientFails
  <2>0. cli'.flow # "ERROR"
    BY <1>3, ClientFailStep DEF ClientStep
  <2>1. CASE ClientTurnToRead
    <3>1. /\ cli'.flow = "READING" /\ cli.flow = "WRITING" /\ cliSess' = cliSess
          /\ UNCHANGED <<cli.hand, cli.hit, cli.newCipher, cli.finOk, cli.ccs,
                         cli.finRead, cli.finSent, cli.rkey, cli.wkey,
                         cli.newSession, cli.certReq>>
      BY <1>0, <2>1 DEF ClientTurnToRead, ClientWriting, ClientStates
    <3>2. cli.hand \in {"OK", "CW_CLNT_HELLO", "CW_FINISHED"}
      BY <2>1, ClientWriteSources DEF ClientTurnToRead, ClientWriting
    <3> QED BY <3>1, <3>2 DEF ClientLocal
  <2>2. CASE ClientSendClientHello
    <3>1. /\ cli'.hand = "CW_CLNT_HELLO" /\ cli'.flow = "WRITING" /\ ~cli'.hit
          /\ ~cli'.finOk /\ cli.flow = "WRITING"
          /\ UNCHANGED <<cli.finSent, cli.finRead, cli.newCipher>>
      BY <1>0, <2>2 DEF ClientSendClientHello, ClientWriting, ClientStates
    <3>2. cliSess'.sid # NoSid => cliSess' = cliSess
      BY <2>2 DEF ClientSendClientHello, NoClientSession, ClientInv,
                  SessionOfServer
    <3>3. cli.hand \in {"OK", "BEFORE", "CR_HELLO_REQ"}
      BY <2>2, ClientWriteSources DEF ClientSendClientHello, ClientWriting
    <3>4. cli.hand # "BEFORE" => cliSess.cipher = cli.newCipher
      BY <3>1, <3>3 DEF ClientInv, ClientKeys, ClientReadSwitched, ClientSettled
    <3>5. cli.hand = "BEFORE" => ~Renewing'
      BY <3>1 DEF ClientLocal
    <3> QED BY <3>1, <3>2, <3>3, <3>4, <3>5 DEF ClientLocal
  <2>3. ASSUME cli'.hand \in {"CW_CERT", "CW_KEY_EXCH", "CW_CERT_VRFY",
                              "CW_CHANGE", "CW_NEXT_PROTO", "CW_FINISHED", "OK"},
               cli'.flow \in {"WRITING", "FINISHED"}, cli.flow = "WRITING",
               UNCHANGED <<cli.hit, cli.newCipher, cli.finOk, cli.finRead>>,
               cliSess'.cipher \in {cliSess.cipher, cli.newCipher}
        PROVE  ClientLocal'
    BY <2>3 DEF ClientLocal
  <2>4. CASE ClientSendCertificate \/ ClientSendNextProto \/ ClientSendFinished
             \/ ClientFinishHandshake
    BY <1>0, <2>3, <2>4
       DEF ClientSendCertificate, ClientSendNextProto, ClientSendFinished,
           ClientFinishHandshake, ClientWriting, ClientStates
  <2>5. CASE ClientSendCertVerify
    BY <1>0, <2>0, <2>3, <2>5
       DEF ClientSendCertVerify, ClientFatal, ClientWriting, ClientStates
  <2>6. CASE ClientSendKeyExchange \/ ClientSendChangeCipherSpec
    BY <1>0, <2>3, <2>6
       DEF ClientSendKeyExchange, ClientSendChangeCipherSpec, ClientWriting,
           ClientStates, ClientSessions
  <2> QED BY <1>3, <2>1, <2>2, <2>4, <2>5, <2>6 DEF ClientWrite
<1>4. CASE ClientRead /\ ~ClientFails
  <2>0. cli'.flow # "ERROR"
    BY <1>4, ClientFailStep DEF ClientStep
  <2>1. CASE ClientReadServerHello
    <3>1. ClientHearsHello
      BY <2>0, <2>1, ClientHelloRead
    <3>2. cli'.finOk = cli.finOk /\ cli'.finRead = cli.finRead
      BY <1>0, <2>0, <2>1 DEF ClientReadServerHello, ClientFatal, ClientStates
    <3>3. cli'.hit => cliSess'.cipher = cli'.newCipher
      BY <3>1 DEF ClientHearsHello, SessionAfterServerHello, ServerHelloAccepted
    <3>4. cli'.hand = "CR_SRVR_HELLO" /\ cli'.flow = "READING"
      BY <3>1 DEF ClientHearsHello
    <3> QED BY <3>2, <3>3, <3>4 DEF ClientLocal
  <2>2. ASSUME cli'.hand \in {"CR_CERT", "CR_CERT_STATUS", "CR_KEY_EXCH",
                              "CR_CERT_REQ", "CR_SRVR_DONE",
                              "CR_SESSION_TICKET", "CR_CHANGE"},
               cli'.hand = "CR_CHANGE" => cli'.ccs,
               cli'.flow \in {"READING", "WRITING"}, cli.flow = "READING",
               UNCHANGED <<cli.hit, cli.newCipher, cli.finRead>>,
               cli'.finOk => cli.finOk,
               cliSess'.cipher \in {cliSess.cipher, cli.newCipher}
        PROVE  ClientLocal'
    BY <2>2 DEF ClientLocal
  <2>3. CASE ClientReadCertificate
    <3>1. UNCHANGED cliSess.cipher
      BY <1>0, <2>0, <2>3 DEF ClientReadCertificate, ClientFatal, ClientStates,
                              ClientSessions
    <3> QED BY <1>0, <2>0, <2>2, <2>3, <3>1
            DEF ClientReadCertificate, ClientFatal, ClientReading, ClientStates
  <2>12. CASE ClientReadCertStatus \/ ClientReadCertificateRequest
    BY <1>0, <2>2, <2>12
       DEF ClientReadCertStatus, ClientReadCertificateRequest, ClientReading,
           ClientStates
  <2>13. CASE ClientReadSessionTicket
    <3>1. UNCHANGED cliSess.cipher
      BY <1>0, <2>13 DEF ClientReadSessionTicket, ClientSessions
    <3> QED BY <1>0, <2>2, <2>13, <3>1
            DEF ClientReadSessionTicket, ClientReading, ClientStates
  <2>4. CASE ClientReadKeyExchange \/ ClientReadServerDone
    BY <1>0, <2>0, <2>2, <2>4
       DEF ClientReadKeyExchange, ClientReadServerDone, ClientFatal,
           ClientReading, ClientStates
  <2>5. CASE ClientReadChangeCipherSpec
    BY <1>0, <2>0, <2>2, <2>5
       DEF ClientReadChangeCipherSpec, ClientFatal, ClientReading, ClientStates,
           ClientSessions
  <2>6. ASSUME cli'.hand \in {"CR_FINISHED", "CR_HELLO_REQ", "OK"},
               cli'.flow = "WRITING", cli.flow # "ERROR", cliSess' = cliSess,
               UNCHANGED <<cli.hit, cli.newCipher>>,
               cli'.finRead \/ UNCHANGED <<cli.finOk, cli.finRead>>
        PROVE  ClientLocal'
    BY <2>6 DEF ClientLocal
  <2>7. CASE ClientReadFinished
    BY <1>0, <2>0, <2>6, <2>7 DEF ClientReadFinished, ClientFatal, ClientReading,
                                  ClientStates
  <2>8. CASE ClientReadHelloRequest
    BY <1>0, <2>6, <2>8 DEF ClientReadHelloRequest, ClientReading, ClientStates
  <2>9. CASE ClientSkipHelloRequest
    BY <2>9 DEF ClientSkipHelloRequest, clientVars, ClientLocal
  <2>10. CASE ClientWake
    BY <1>0, <2>6, <2>10 DEF ClientWake, ClientInv, ClientPosition, ClientStates
  <2>11. CASE \/ ClientUnexpected \/ ClientReadAlert
              \/ ClientReadNoRenegotiation \/ ClientStrayChangeCipherSpec
    <3>1. cli'.flow = "ERROR"
      BY <1>0, <2>11 DEF ClientUnexpected, ClientReadAlert,
           ClientReadNoRenegotiation, ClientStrayChangeCipherSpec, ClientFatal,
           ClientStates
    <3> QED BY <2>0, <3>1
  <2> QED BY <1>4, <2>1, <2>3, <2>4, <2>5, <2>7, <2>8, <2>9, <2>10, <2>11,
             <2>12, <2>13 DEF ClientRead
<1>5. CASE ClientRenegotiate
  <2>1. /\ cli.hand = "OK" /\ cli'.hand = "OK" /\ cliSess' = cliSess
        /\ cli'.flow = "WRITING" /\ cli.flow = "FINISHED"
        /\ UNCHANGED <<cli.hit, cli.newCipher, cli.finOk, cli.finRead>>
    BY <1>0, <1>5 DEF ClientRenegotiate, ClientInv, ClientPosition, ClientStates
  <2> QED BY <2>1 DEF ClientLocal
<1> QED BY <1>1, <1>2, <1>3, <1>4, <1>5 DEF ClientStep

-----------------------------------------------------------------------------
(* What a step of the server does that its peer can notice.                *)

ServerDeal == <<srv.hit, srv.npnSeen, srv.statusExpected, srv.newCipher>>

(* Nothing, but for the session that it may put in its cache when a full   *)
(* handshake is over. (A renegotiation that was refused ends here too.)    *)
ServerQuiet ==
  /\ UNCHANGED <<srvSess, srvFresh, srvTicketKey, srvCfg, toClient, toServer>>
  /\ UNCHANGED <<ServerDeal, srv.rkey, srv.wkey, srv.finSent, srv.finRead>>
  /\ \/ UNCHANGED <<ServerSaid, ServerHeard>>
     \/ srv.hand = "SR_CLNT_HELLO" /\ ~ServerFirstHandshake
  /\ ServerIdle => ServerIdle'
  /\ srv'.certRequest = srv.certRequest \/ ServerIdle
  /\ srv'.ticketExpected = srv.ticketExpected \/ srv'.hand = "OK"
  /\ \/ srvCache' = srvCache
     \/ /\ srvCache' = srvCache \cup {srvSess} /\ ServerCaches
        /\ srv.hand = "SW_FINISHED" /\ ~srv.hit
  /\ srv'.cleanuphand => srv.cleanuphand
  /\ srv.flow # "ERROR" /\ srv'.flow \notin {"ERROR", "UNINITED"}

LEMMA ServerQuietStep ==
  ASSUME ServerTypeOK, ServerInv, Negotiated, ServerLocal,
         \/ ServerAccept \/ ServerTurnToRead \/ ServerFinishHandshake
         \/ ServerWake \/ ServerRenegotiate
  PROVE  ServerQuiet
<1>0. srv \in ServerStates
  BY DEF ServerTypeOK
<1> USE DEF ServerQuiet, ServerDeal
<1>1. CASE ServerAccept
  <2>1. /\ srv.flow = "UNINITED" /\ srv.hand = "BEFORE"
        /\ srv'.hand = "BEFORE" /\ srv'.flow = "WRITING"
        /\ srv' = [ClearedServerSsl EXCEPT !.flow = "WRITING", !.buffer = TRUE]
    BY <1>1 DEF ServerAccept, Negotiated, ClearedServerSsl, NewServerSsl
  <2>2. /\ ~srv.hit /\ ~srv.npnSeen /\ ~srv.statusExpected
        /\ srv.newCipher = NoSuite /\ srv.rkey = 0 /\ srv.wkey = 0
        /\ ~srv.finSent /\ ~srv.finRead /\ ~srv.certRequest
        /\ ~srv.ticketExpected
    BY <2>1 DEF ServerLocal
  <2>3. /\ ~srv'.hit /\ ~srv'.npnSeen /\ ~srv'.statusExpected
        /\ srv'.newCipher = NoSuite /\ srv'.rkey = 0 /\ srv'.wkey = 0
        /\ ~srv'.finSent /\ ~srv'.finRead /\ ~srv'.certRequest
        /\ ~srv'.ticketExpected /\ ~srv'.cleanuphand
        /\ srv'.hit \in BOOLEAN /\ srv'.npnSeen \in BOOLEAN
        /\ srv'.statusExpected \in BOOLEAN /\ srv'.finSent \in BOOLEAN
        /\ srv'.finRead \in BOOLEAN /\ srv'.certRequest \in BOOLEAN
        /\ srv'.ticketExpected \in BOOLEAN
    BY <2>1 DEF ClearedServerSsl, NewServerSsl
  <2>4. /\ UNCHANGED <<ServerDeal, srv.rkey, srv.wkey, srv.finSent, srv.finRead>>
        /\ UNCHANGED <<srv.certRequest, srv.ticketExpected>>
    BY <1>0, <2>2, <2>3 DEF ServerStates
  <2>5. UNCHANGED <<ServerSaid, ServerHeard>> /\ ~ServerIdle
    BY <2>1 DEF ServerSaid, ServerHeard, ServerIdle
  <2> HIDE DEF ServerDeal
  <2> QED BY <1>1, <2>1, <2>3, <2>4, <2>5 DEF ServerAccept, wireVars
<1>2. CASE ServerTurnToRead
  <2>1. /\ UNCHANGED <<ServerDeal, srv.rkey, srv.wkey, srv.finSent, srv.finRead>>
        /\ UNCHANGED <<srv.hand, srv.ticketExpected, srv.cleanuphand>>
        /\ srv'.certRequest = srv.certRequest \/ srv.hand = "OK"
        /\ srv.flow = "WRITING" /\ srv'.flow = "READING"
    BY <1>0, <1>2 DEF ServerTurnToRead, ServerWriting, ServerStates
  <2>2. UNCHANGED <<ServerSaid, ServerHeard>> /\ (ServerIdle => ServerIdle')
    BY <2>1 DEF ServerSaid, ServerHeard, ServerIdle
  <2>3. srv.hand = "OK" => ServerIdle
    BY DEF ServerIdle
  <2> HIDE DEF ServerDeal
  <2> QED BY <1>2, <2>1, <2>2, <2>3 DEF ServerTurnToRead, wireVars
<1>3. CASE ServerWake \/ ServerRenegotiate
  <2>1. srv.hand = "OK" /\ srv.flow = "FINISHED"
    BY <1>3 DEF ServerWake, ServerRenegotiate, ServerInv, Position
  <2>2. /\ UNCHANGED <<ServerDeal, srv.rkey, srv.wkey, srv.finSent, srv.finRead>>
        /\ UNCHANGED <<srv.hand, srv.ticketExpected, srv.cleanuphand>>
        /\ srv'.flow = "WRITING"
    BY <1>0, <1>3 DEF ServerWake, ServerRenegotiate, ServerStates
  <2>3. UNCHANGED <<ServerSaid, ServerHeard>> /\ ServerIdle /\ ServerIdle'
    BY <2>1, <2>2 DEF ServerSaid, ServerHeard, ServerIdle
  <2> HIDE DEF ServerDeal
  <2> QED BY <1>3, <2>1, <2>2, <2>3
          DEF ServerWake, ServerRenegotiate, wireVars
<1>4. CASE ServerFinishHandshake
  <2>1. \/ srv.hand = "SW_HELLO_REQ"
        \/ srv.hand = "SR_CLNT_HELLO" /\ ~ServerFirstHandshake
        \/ srv.hand = "SR_FINISHED" /\ srv.hit
        \/ srv.hand = "SW_FINISHED" /\ ~srv.hit
    BY <1>4, WriteSources DEF ServerFinishHandshake, ServerWriting
  <2>2. /\ UNCHANGED <<ServerDeal, srv.rkey, srv.wkey, srv.finSent, srv.finRead>>
        /\ UNCHANGED srv.certRequest /\ ~srv'.cleanuphand /\ srv'.hand = "OK"
        /\ srv.flow = "WRITING" /\ srv'.flow = "FINISHED"
    BY <1>0, <1>4 DEF ServerFinishHandshake, ServerWriting, ServerStates
  <2>3. /\ srv.hand # "SR_CLNT_HELLO" => ServerSaid = 9 /\ ServerHeard = 7
        /\ ServerSaid' = 9 /\ ServerHeard' = 7 /\ ServerIdle'
    BY <2>1, <2>2 DEF ServerSaid, ServerHeard, ServerIdle
  <2>4. ServerCaches => srv.hand = "SW_FINISHED" /\ ~srv.hit
    BY <2>1 DEF ServerCaches, ServerLocal
  <2>5. /\ srvCache' = IF ServerCaches THEN srvCache \cup {srvSess} ELSE srvCache
        /\ UNCHANGED <<srvSess, srvFresh, srvTicketKey, srvCfg, toClient,
                       toServer>>
    BY <1>4 DEF ServerFinishHandshake, wireVars
  <2> HIDE DEF ServerDeal
  <2> QED BY <2>1, <2>2, <2>3, <2>4, <2>5
<1> QED BY <1>1, <1>2, <1>3, <1>4

(* A HelloRequest.                                                         *)
ServerAsks(m) ==
  /\ toClient' = Append(toClient, m) /\ toServer' = toServer
  /\ m.type = "HELLO_REQUEST" /\ m.key = srv.wkey
  /\ UNCHANGED <<srvSess, srvFresh, srvTicketKey, srvCfg, srvCache>>
  /\ UNCHANGED <<ServerDeal, srv.rkey, srv.wkey, srv.finSent, srv.finRead,
                 srv.certRequest, srv.ticketExpected, srv.cleanuphand>>
  /\ ServerSaid = 9 /\ ServerHeard = 7 /\ ServerSaid' = 9 /\ ServerHeard' = 7
  /\ ServerIdle /\ ServerIdle'
  /\ srv.flow = "WRITING" /\ srv'.flow = "WRITING"

LEMMA ServerAskStep ==
  ASSUME ServerTypeOK, WireTypeOK, WireTypeOK', ServerSendHelloRequest
  PROVE  \E m \in Messages : ServerAsks(m)
<1> DEFINE m == Message("HELLO_REQUEST", srv.wkey)
<1>1. m.type = "HELLO_REQUEST" /\ m.key = srv.wkey
  BY DEF Message
<1>2. toClient' = Append(toClient, m) /\ toServer' = toServer
  BY DEF ServerSendHelloRequest
<1> HIDE DEF m
<1>3. m \in Messages
  BY <1>2, LastSent DEF WireTypeOK
<1>4. srv.hand = "OK" /\ srv'.hand = "SW_HELLO_REQ"
  BY WriteSources DEF ServerSendHelloRequest, ServerWriting, ServerTypeOK,
                      ServerStates
<1>5. /\ UNCHANGED <<ServerDeal, srv.rkey, srv.wkey, srv.finSent, srv.finRead,
                     srv.certRequest, srv.ticketExpected, srv.cleanuphand>>
      /\ srv.flow = "WRITING" /\ srv'.flow = "WRITING"
  BY DEF ServerSendHelloRequest, ServerWriting, ServerTypeOK, ServerStates,
         ServerDeal
<1>6. /\ ServerSaid = 9 /\ ServerHeard = 7 /\ ServerSaid' = 9 /\ ServerHeard' = 7
      /\ ServerIdle /\ ServerIdle'
  BY <1>4 DEF ServerSaid, ServerHeard, ServerIdle
<1>7. ServerAsks(m)
  BY <1>1, <1>2, <1>5, <1>6 DEF ServerAsks, ServerSendHelloRequest
<1> QED BY <1>3, <1>7

(* The ServerHello.                                                        *)
ServerAnswers(m) ==
  /\ toClient' = Append(toClient, m) /\ toServer' = toServer
  /\ m.type = "SERVER_HELLO" /\ m.key = srv.wkey
  /\ m.suite = srv.newCipher /\ m.sid = srvSess'.sid
  /\ ("ticket" \in m.ext) = srv'.ticketExpected
  /\ ("status" \in m.ext) = srv.statusExpected
  /\ ("npn" \in m.ext) = srv.npnSeen
  /\ srvSess'.sid = srvSess.sid \/ (~srv.hit /\ srvSess'.sid = NoSid)
  /\ UNCHANGED <<srvSess.ms, srvSess.cipher, srvSess.peer>>
  /\ UNCHANGED <<srvFresh, srvTicketKey, srvCfg, srvCache>>
  /\ UNCHANGED <<ServerDeal, srv.rkey, srv.wkey, srv.finSent, srv.finRead,
                 srv.certRequest, srv.cleanuphand>>
  /\ srv.hand = "SR_CLNT_HELLO"
  /\ ServerSaid = 0 /\ ServerHeard = 1 /\ ServerSaid' = 1 /\ ServerHeard' = 1
  /\ ~ServerIdle /\ ~ServerIdle'
  /\ srv.flow = "WRITING" /\ srv'.flow = "WRITING"

LEMMA ServerHelloStep ==
  ASSUME ServerTypeOK, WireTypeOK, WireTypeOK', ServerSendServerHello
  PROVE  \E m \in Messages : ServerAnswers(m)
<1> DEFINE sid == IF ~srvCfg.cache /\ ~srv.hit THEN NoSid ELSE srvSess.sid
           ext == (IF AnnouncesTicket THEN {"ticket"} ELSE {})
                  \cup (IF srv.statusExpected THEN {"status"} ELSE {})
                  \cup (IF srv.npnSeen THEN {"npn"} ELSE {})
           m == [Message("SERVER_HELLO", srv.wkey) EXCEPT
                   !.suite = srv.newCipher, !.sid = sid, !.ext = ext]
<1>1. /\ m.type = "SERVER_HELLO" /\ m.key = srv.wkey
      /\ m.suite = srv.newCipher /\ m.sid = sid /\ m.ext = ext
  BY DEF Message
<1>2. toClient' = Append(toClient, m) /\ toServer' = toServer
      /\ srvSess' = [srvSess EXCEPT !.sid = sid]
  BY DEF ServerSendServerHello, ServerEmit
<1>3. /\ ("ticket" \in ext) <=> AnnouncesTicket
      /\ ("status" \in ext) <=> srv.statusExpected
      /\ ("npn" \in ext) <=> srv.npnSeen
  OBVIOUS
<1>4. sid = srvSess.sid \/ (~srv.hit /\ sid = NoSid)
  OBVIOUS
<1> HIDE DEF m, ext, sid
<1>5. m \in Messages
  BY <1>2, LastSent DEF WireTypeOK
<1>6. /\ srvSess'.sid = sid
      /\ UNCHANGED <<srvSess.ms, srvSess.cipher, srvSess.peer>>
  BY <1>2 DEF ServerTypeOK, ServerSessions
<1>7. srv.hand = "SR_CLNT_HELLO" /\ srv'.hand = "SW_SRVR_HELLO"
  BY WriteSources DEF ServerSendServerHello, ServerWriting, ServerTypeOK,
                      ServerStates
<1>8. /\ UNCHANGED <<ServerDeal, srv.rkey, srv.wkey, srv.finSent, srv.finRead,
                     srv.certRequest, srv.cleanuphand>>
      /\ srv.flow = "WRITING" /\ srv'.flow = "WRITING"
      /\ srv'.ticketExpected = AnnouncesTicket
      /\ srv.statusExpected \in BOOLEAN /\ srv.npnSeen \in BOOLEAN
  BY DEF ServerSendServerHello, ServerWriting, ServerTypeOK, ServerStates,
         ServerDeal
<1>9. AnnouncesTicket \in BOOLEAN
  BY DEF AnnouncesTicket
<1>10. /\ ("ticket" \in m.ext) = srv'.ticketExpected
       /\ ("status" \in m.ext) = srv.statusExpected
       /\ ("npn" \in m.ext) = srv.npnSeen
  BY <1>1, <1>3, <1>8, <1>9
<1>11. /\ ServerSaid = 0 /\ ServerHeard = 1 /\ ServerSaid' = 1
       /\ ServerHeard' = 1 /\ ~ServerIdle /\ ~ServerIdle'
  BY <1>7 DEF ServerSaid, ServerHeard, ServerIdle
<1>12. ServerAnswers(m)
  BY <1>1, <1>2, <1>4, <1>6, <1>7, <1>8, <1>10, <1>11
     DEF ServerAnswers, ServerSendServerHello
<1> QED BY <1>5, <1>12

(* A message after the ServerHello.                                        *)
ServerWrites(m) ==
  /\ toClient' = Append(toClient, m) /\ toServer' = toServer
  /\ m.type \in {"CERTIFICATE", "CERTIFICATE_STATUS", "SERVER_KEY_EXCHANGE",
                 "CERTIFICATE_REQUEST", "SERVER_DONE", "NEWSESSION_TICKET",
                 "CHANGE_CIPHER_SPEC", "FINISHED"}
  /\ m.key = srv.wkey
  /\ ServerFirstHandshake =>
       ServerNext(srv.hit, srv.statusExpected, srv'.certRequest,
                  srv.ticketExpected, ServerSaid, m.type)
  /\ ServerSaid' = ServerRank(m.type) /\ ServerHeard' = ServerHeard
  /\ ~ServerIdle /\ ~ServerIdle' /\ ServerHeard >= 1 /\ ServerSaid \in 1 .. 8
  /\ srv.flow = "WRITING" /\ srv'.flow = "WRITING"
  /\ UNCHANGED <<srvTicketKey, srvCfg, srvCache>>
  /\ UNCHANGED <<ServerDeal, srv.rkey, srv.finRead, srv.ticketExpected,
                 srv.cleanuphand>>
  /\ UNCHANGED <<srvSess.sid, srvSess.ms, srvSess.peer>>
  /\ IF m.type = "CERTIFICATE_REQUEST"
       THEN srv'.certRequest
       ELSE UNCHANGED srv.certRequest
  /\ m.type # "FINISHED" => UNCHANGED srv.finSent
  /\ IF m.type = "NEWSESSION_TICKET"
       THEN /\ m.ticket # NoTicket /\ m.ticket.ms = srvSess.ms
            /\ m.ticket.suite = srvSess.cipher /\ srvFresh' = srvFresh + 1
       ELSE UNCHANGED srvFresh
  /\ IF m.type = "CHANGE_CIPHER_SPEC"
       THEN srvSess'.cipher = srv.newCipher /\ srv'.wkey = srvSess.ms
       ELSE UNCHANGED <<srvSess.cipher, srv.wkey>>

LEMMA ServerWriteStep ==
  ASSUME ServerTypeOK, WireTypeOK, WireTypeOK', ServerInv, Negotiated,
         ServerLocal, srv'.flow # "ERROR",
         \/ ServerSendCertificate \/ ServerSendCertStatus
         \/ ServerSendKeyExchange \/ ServerSendCertificateRequest
         \/ ServerSendServerDone \/ ServerSendSessionTicket
         \/ ServerSendChangeCipherSpec \/ ServerSendFinished
  PROVE  \E m \in Messages : ServerWrites(m)
<1>0. ASSUME NEW m, toClient' = Append(toClient, m)
      PROVE  m \in Messages
  BY <1>0, LastSent DEF WireTypeOK
<1>00. srv \in ServerStates /\ srvSess \in ServerSessions
  BY DEF ServerTypeOK
<1> USE DEF ServerWrites, ServerDeal, ServerEmit, ServerWriting
<1>1. CASE ServerSendCertificate
  <2> DEFINE m == [Message("CERTIFICATE", srv.wkey) EXCEPT
                     !.chain = srvCfg.chain]
  <2>1. m.type = "CERTIFICATE" /\ m.key = srv.wkey
    BY DEF Message
  <2>2. toClient' = Append(toClient, m) /\ toServer' = toServer
    BY <1>1 DEF ServerSendCertificate
  <2> HIDE DEF m
  <2>3. srv.hand = "SW_SRVR_HELLO" /\ ~srv.hit
    BY <1>1 DEF ServerSendCertificate, ServerWriteTransition, AfterServerHello
  <2>4. /\ srv'.hand = "SW_CERT" /\ srv.flow = "WRITING" /\ srv'.flow = "WRITING"
        /\ UNCHANGED ServerDeal
        /\ UNCHANGED <<srv.rkey, srv.finRead, srv.ticketExpected,
                       srv.cleanuphand, srv.certRequest, srv.finSent,
                       srv.wkey>>
    BY <1>00, <1>1 DEF ServerSendCertificate, ServerStates
  <2>5. UNCHANGED <<srvSess, srvTicketKey, srvCfg, srvCache, srvFresh>>
    BY <1>1 DEF ServerSendCertificate
  <2>6. /\ ServerSaid = 1
        /\ ServerSaid' = 2 /\ ServerHeard' = ServerHeard
        /\ ServerHeard >= 1 /\ ServerSaid \in 1 .. 8 /\ ~ServerIdle /\ ~ServerIdle'
    BY <2>3, <2>4 DEF ServerSaid, ServerHeard, ServerIdle
  <2>7. /\ ServerRank("CERTIFICATE") = 2
        /\ ServerFirstHandshake =>
             ServerNext(srv.hit, srv.statusExpected, srv'.certRequest,
                        srv.ticketExpected, ServerSaid, "CERTIFICATE")
    BY <2>3, <2>4, <2>6 DEF ServerRank, ServerNext
  <2>8. ServerWrites(m)
    BY <2>1, <2>2, <2>4, <2>5, <2>6, <2>7
  <2> QED BY <1>0, <2>2, <2>8
<1>2. CASE ServerSendCertStatus
  <2> DEFINE m == Message("CERTIFICATE_STATUS", srv.wkey)
  <2>1. m.type = "CERTIFICATE_STATUS" /\ m.key = srv.wkey
    BY DEF Message
  <2>2. toClient' = Append(toClient, m) /\ toServer' = toServer
    BY <1>2 DEF ServerSendCertStatus
  <2> HIDE DEF m
  <2>3. srv.hand = "SW_CERT" /\ srv.statusExpected
    BY <1>2 DEF ServerSendCertStatus, ServerWriteTransition, AfterServerHello
  <2>4. /\ srv'.hand = "SW_CERT_STATUS" /\ srv.flow = "WRITING" /\ srv'.flow = "WRITING"
        /\ UNCHANGED ServerDeal
        /\ UNCHANGED <<srv.rkey, srv.finRead, srv.ticketExpected,
                       srv.cleanuphand, srv.certRequest, srv.finSent,
                       srv.wkey>>
    BY <1>00, <1>2 DEF ServerSendCertStatus, ServerStates
  <2>5. UNCHANGED <<srvSess, srvTicketKey, srvCfg, srvCache, srvFresh>>
    BY <1>2 DEF ServerSendCertStatus
  <2>11. ~srv.hit
    BY <2>3 DEF ServerInv, Position
  <2>6. /\ ServerSaid = 2
        /\ ServerSaid' = 3 /\ ServerHeard' = ServerHeard
        /\ ServerHeard >= 1 /\ ServerSaid \in 1 .. 8 /\ ~ServerIdle /\ ~ServerIdle'
    BY <2>3, <2>4, <2>11 DEF ServerSaid, ServerHeard, ServerIdle
  <2>7. /\ ServerRank("CERTIFICATE_STATUS") = 3
        /\ ServerFirstHandshake =>
             ServerNext(srv.hit, srv.statusExpected, srv'.certRequest,
                        srv.ticketExpected, ServerSaid, "CERTIFICATE_STATUS")
    BY <2>3, <2>4, <2>6, <2>11 DEF ServerRank, ServerNext
  <2>8. ServerWrites(m)
    BY <2>1, <2>2, <2>4, <2>5, <2>6, <2>7
  <2> QED BY <1>0, <2>2, <2>8
<1>3. CASE ServerSendKeyExchange
  <2> DEFINE m == [Message("SERVER_KEY_EXCHANGE", srv.wkey) EXCEPT
                     !.chain = srvCfg.chain]
  <2>1. m.type = "SERVER_KEY_EXCHANGE" /\ m.key = srv.wkey
    BY DEF Message
  <2>2. toClient' = Append(toClient, m) /\ toServer' = toServer
    BY <1>3 DEF ServerSendKeyExchange
  <2> HIDE DEF m
  <2>3. \/ srv.hand = "SW_CERT_STATUS"
        \/ srv.hand = "SW_CERT" /\ ~srv.statusExpected
    BY <1>3 DEF ServerSendKeyExchange, ServerWriteTransition, AfterServerHello
  <2>4. /\ srv'.hand = "SW_KEY_EXCH" /\ srv.flow = "WRITING" /\ srv'.flow = "WRITING"
        /\ UNCHANGED ServerDeal
        /\ UNCHANGED <<srv.rkey, srv.finRead, srv.ticketExpected,
                       srv.cleanuphand, srv.certRequest, srv.finSent,
                       srv.wkey>>
    BY <1>00, <1>3 DEF ServerSendKeyExchange, ServerStates
  <2>5. UNCHANGED <<srvSess, srvTicketKey, srvCfg, srvCache, srvFresh>>
    BY <1>3 DEF ServerSendKeyExchange
  <2>11. ~srv.hit
    BY <2>3 DEF ServerInv, Position
  <2>6. /\ ServerSaid = 3 \/ (ServerSaid = 2 /\ ~srv.statusExpected)
        /\ ServerSaid' = 4 /\ ServerHeard' = ServerHeard
        /\ ServerHeard >= 1 /\ ServerSaid \in 1 .. 8 /\ ~ServerIdle /\ ~ServerIdle'
    BY <2>3, <2>4, <2>11 DEF ServerSaid, ServerHeard, ServerIdle
  <2>7. /\ ServerRank("SERVER_KEY_EXCHANGE") = 4
        /\ ServerFirstHandshake =>
             ServerNext(srv.hit, srv.statusExpected, srv'.certRequest,
                        srv.ticketExpected, ServerSaid, "SERVER_KEY_EXCHANGE")
    BY <2>3, <2>4, <2>6, <2>11 DEF ServerRank, ServerNext
  <2>8. ServerWrites(m)
    BY <2>1, <2>2, <2>4, <2>5, <2>6, <2>7
  <2> QED BY <1>0, <2>2, <2>8
<1>4. CASE ServerSendCertificateRequest
  <2> DEFINE m == Message("CERTIFICATE_REQUEST", srv.wkey)
  <2>1. m.type = "CERTIFICATE_REQUEST" /\ m.key = srv.wkey
    BY DEF Message
  <2>2. toClient' = Append(toClient, m) /\ toServer' = toServer
    BY <1>4 DEF ServerSendCertificateRequest
  <2> HIDE DEF m
  <2>3. srv.hand = "SW_KEY_EXCH"
    BY <1>4 DEF ServerSendCertificateRequest, ServerWriteTransition, AfterServerHello
  <2>4. /\ srv'.hand = "SW_CERT_REQ" /\ srv.flow = "WRITING" /\ srv'.flow = "WRITING"
        /\ UNCHANGED ServerDeal
        /\ UNCHANGED <<srv.rkey, srv.finRead, srv.ticketExpected,
                       srv.cleanuphand, srv.finSent, srv.wkey>>
        /\ srv'.certRequest
    BY <1>00, <1>4 DEF ServerSendCertificateRequest, ServerStates
  <2>5. UNCHANGED <<srvSess, srvTicketKey, srvCfg, srvCache, srvFresh>>
    BY <1>4 DEF ServerSendCertificateRequest
  <2>11. ~srv.hit
    BY <2>3 DEF ServerInv, Position
  <2>6. /\ ServerSaid = 4
        /\ ServerSaid' = 5 /\ ServerHeard' = ServerHeard
        /\ ServerHeard >= 1 /\ ServerSaid \in 1 .. 8 /\ ~ServerIdle /\ ~ServerIdle'
    BY <2>3, <2>4, <2>11 DEF ServerSaid, ServerHeard, ServerIdle
  <2>7. /\ ServerRank("CERTIFICATE_REQUEST") = 5
        /\ ServerFirstHandshake =>
             ServerNext(srv.hit, srv.statusExpected, srv'.certRequest,
                        srv.ticketExpected, ServerSaid, "CERTIFICATE_REQUEST")
    BY <2>3, <2>4, <2>6, <2>11 DEF ServerRank, ServerNext
  <2>8. ServerWrites(m)
    BY <2>1, <2>2, <2>4, <2>5, <2>6, <2>7
  <2> QED BY <1>0, <2>2, <2>8
<1>5. CASE ServerSendServerDone
  <2> DEFINE m == Message("SERVER_DONE", srv.wkey)
  <2>1. m.type = "SERVER_DONE" /\ m.key = srv.wkey
    BY DEF Message
  <2>2. toClient' = Append(toClient, m) /\ toServer' = toServer
    BY <1>5 DEF ServerSendServerDone
  <2> HIDE DEF m
  <2>3. srv.hand \in {"SW_KEY_EXCH", "SW_CERT_REQ"}
    BY <1>5 DEF ServerSendServerDone, ServerWriteTransition, AfterServerHello
  <2>4. /\ srv'.hand = "SW_SRVR_DONE" /\ srv.flow = "WRITING" /\ srv'.flow = "WRITING"
        /\ UNCHANGED ServerDeal
        /\ UNCHANGED <<srv.rkey, srv.finRead, srv.ticketExpected,
                       srv.cleanuphand, srv.certRequest, srv.finSent,
                       srv.wkey>>
    BY <1>00, <1>5 DEF ServerSendServerDone, ServerStates
  <2>5. UNCHANGED <<srvSess, srvTicketKey, srvCfg, srvCache, srvFresh>>
    BY <1>5 DEF ServerSendServerDone
  <2>11. ~srv.hit
    BY <2>3 DEF ServerInv, Position
  <2>6. /\ ServerSaid \in {4, 5}
        /\ ServerSaid' = 6 /\ ServerHeard' = ServerHeard
        /\ ServerHeard >= 1 /\ ServerSaid \in 1 .. 8 /\ ~ServerIdle /\ ~ServerIdle'
    BY <2>3, <2>4, <2>11 DEF ServerSaid, ServerHeard, ServerIdle
  <2>12. ServerFirstHandshake /\ ServerSaid = 4 => ~srv.certRequest
    BY DEF ServerLocal
  <2>7. /\ ServerRank("SERVER_DONE") = 6
        /\ ServerFirstHandshake =>
             ServerNext(srv.hit, srv.statusExpected, srv'.certRequest,
                        srv.ticketExpected, ServerSaid, "SERVER_DONE")
    BY <2>3, <2>4, <2>6, <2>11, <2>12 DEF ServerRank, ServerNext
  <2>8. ServerWrites(m)
    BY <2>1, <2>2, <2>4, <2>5, <2>6, <2>7
  <2> QED BY <1>0, <2>2, <2>8
<1>6. CASE ServerSendSessionTicket
  <2> DEFINE m == [Message("NEWSESSION_TICKET", srv.wkey) EXCEPT
       !.ticket = [ n |-> srvFresh, key |-> srvTicketKey,
                    suite |-> srvSess.cipher, ms |-> srvSess.ms,
                    peer |-> srvSess.peer ]]
  <2>1. m.type = "NEWSESSION_TICKET" /\ m.key = srv.wkey /\ m.ticket.ms = srvSess.ms
        /\ m.ticket.suite = srvSess.cipher
    BY DEF Message
  <2>2. toClient' = Append(toClient, m) /\ toServer' = toServer
    BY <1>6 DEF ServerSendSessionTicket
  <2> HIDE DEF m
  <2>3. /\ srv.ticketExpected
        /\ \/ srv.hand = "SW_SRVR_HELLO" /\ srv.hit
           \/ srv.hand = "SR_FINISHED" /\ ~srv.hit
    BY <1>6 DEF ServerSendSessionTicket, ServerWriteTransition, AfterServerHello
  <2>4. /\ srv'.hand = "SW_SESSION_TICKET" /\ srv.flow = "WRITING" /\ srv'.flow = "WRITING"
        /\ UNCHANGED ServerDeal
        /\ UNCHANGED <<srv.rkey, srv.finRead, srv.ticketExpected,
                       srv.cleanuphand, srv.certRequest, srv.finSent,
                       srv.wkey>>
    BY <1>00, <1>6 DEF ServerSendSessionTicket, ServerStates
  <2>5. /\ UNCHANGED <<srvSess, srvTicketKey, srvCfg, srvCache>>
        /\ srvFresh' = srvFresh + 1
    BY <1>6 DEF ServerSendSessionTicket
  <2>9. srvSess.ms # 0
    BY <2>3 DEF Negotiated, ServerInv, Keys, ReadSwitched, AfterClientFinished
  <2>10. m.ticket # NoTicket
    BY <2>1, <2>9 DEF NoTicket
  <2>6. /\ ServerSaid = IF srv.hit THEN 1 ELSE 6
        /\ ServerSaid' = 7 /\ ServerHeard' = ServerHeard
        /\ ServerHeard >= 1 /\ ServerSaid \in 1 .. 8 /\ ~ServerIdle /\ ~ServerIdle'
    BY <2>3, <2>4 DEF ServerSaid, ServerHeard, ServerIdle
  <2>7. /\ ServerRank("NEWSESSION_TICKET") = 7
        /\ ServerFirstHandshake =>
             ServerNext(srv.hit, srv.statusExpected, srv'.certRequest,
                        srv.ticketExpected, ServerSaid, "NEWSESSION_TICKET")
    BY <2>3, <2>4, <2>6 DEF ServerRank, ServerNext
  <2>8. ServerWrites(m)
    BY <2>1, <2>2, <2>4, <2>5, <2>6, <2>7, <2>10
  <2> QED BY <1>0, <2>2, <2>8
<1>7. CASE ServerSendChangeCipherSpec
  <2> DEFINE m == Message("CHANGE_CIPHER_SPEC", srv.wkey)
  <2>1. m.type = "CHANGE_CIPHER_SPEC" /\ m.key = srv.wkey
    BY DEF Message
  <2>0. srvSess.cipher \in {NoSuite, srv.newCipher} /\ srvSess.ms # 0
    BY <1>00, <1>7 DEF ServerSendChangeCipherSpec, ServerFatal, ServerStates
  <2>2. toClient' = Append(toClient, m) /\ toServer' = toServer
    BY <2>0, <1>7 DEF ServerSendChangeCipherSpec
  <2> HIDE DEF m
  <2>3. \/ srv.hand = "SW_SRVR_HELLO" /\ srv.hit /\ ~srv.ticketExpected
        \/ srv.hand = "SR_FINISHED" /\ ~srv.hit /\ ~srv.ticketExpected
        \/ srv.hand = "SW_SESSION_TICKET"
    BY <1>7 DEF ServerSendChangeCipherSpec, ServerWriteTransition, AfterServerHello
  <2>4. /\ srv'.hand = "SW_CHANGE" /\ srv.flow = "WRITING" /\ srv'.flow = "WRITING"
        /\ UNCHANGED ServerDeal
        /\ UNCHANGED <<srv.rkey, srv.finRead, srv.ticketExpected,
                       srv.cleanuphand, srv.certRequest, srv.finSent>>
        /\ srv'.wkey = srvSess.ms
    BY <1>00, <2>0, <1>7 DEF ServerSendChangeCipherSpec, ServerStates
  <2>5. /\ UNCHANGED <<srvSess.sid, srvSess.ms, srvSess.peer>>
        /\ srvSess'.cipher = srv.newCipher
        /\ UNCHANGED <<srvTicketKey, srvCfg, srvCache, srvFresh>>
    BY <1>00, <2>0, <1>7 DEF ServerSendChangeCipherSpec, ServerSessions
  <2>6. /\ ServerSaid = 7 \/ (~srv.ticketExpected
                                /\ ServerSaid = IF srv.hit THEN 1 ELSE 6)
        /\ ServerSaid' = 8 /\ ServerHeard' = ServerHeard
        /\ ServerHeard >= 1 /\ ServerSaid \in 1 .. 8 /\ ~ServerIdle /\ ~ServerIdle'
    BY <2>3, <2>4 DEF ServerSaid, ServerHeard, ServerIdle
  <2>7. /\ ServerRank("CHANGE_CIPHER_SPEC") = 8
        /\ ServerFirstHandshake =>
             ServerNext(srv.hit, srv.statusExpected, srv'.certRequest,
                        srv.ticketExpected, ServerSaid, "CHANGE_CIPHER_SPEC")
    BY <2>3, <2>4, <2>6 DEF ServerRank, ServerNext
  <2>8. ServerWrites(m)
    BY <2>1, <2>2, <2>4, <2>5, <2>6, <2>7
  <2> QED BY <1>0, <2>2, <2>8
<1>8. CASE ServerSendFinished
  <2> DEFINE m == [Message("FINISHED", srv.wkey) EXCEPT
                   !.secret = srvSess.ms, !.hs = srvHs]
  <2>1. m.type = "FINISHED" /\ m.key = srv.wkey
    BY DEF Message
  <2>2. toClient' = Append(toClient, m) /\ toServer' = toServer
    BY <1>8 DEF ServerSendFinished
  <2> HIDE DEF m
  <2>3. srv.hand = "SW_CHANGE"
    BY <1>8 DEF ServerSendFinished, ServerWriteTransition, AfterServerHello
  <2>4. /\ srv'.hand = "SW_FINISHED" /\ srv.flow = "WRITING" /\ srv'.flow = "WRITING"
        /\ UNCHANGED ServerDeal
        /\ UNCHANGED <<srv.rkey, srv.finRead, srv.ticketExpected,
                       srv.cleanuphand, srv.certRequest, srv.wkey>>
    BY <1>00, <1>8 DEF ServerSendFinished, ServerStates
  <2>5. UNCHANGED <<srvSess, srvTicketKey, srvCfg, srvCache, srvFresh>>
    BY <1>8 DEF ServerSendFinished
  <2>6. /\ ServerSaid = 8
        /\ ServerSaid' = 9 /\ ServerHeard' = ServerHeard
        /\ ServerHeard >= 1 /\ ServerSaid \in 1 .. 8 /\ ~ServerIdle /\ ~ServerIdle'
    BY <2>3, <2>4 DEF ServerSaid, ServerHeard, ServerIdle
  <2>7. /\ ServerRank("FINISHED") = 9
        /\ ServerFirstHandshake =>
             ServerNext(srv.hit, srv.statusExpected, srv'.certRequest,
                        srv.ticketExpected, ServerSaid, "FINISHED")
    BY <2>3, <2>4, <2>6 DEF ServerRank, ServerNext
  <2>8. ServerWrites(m)
    BY <2>1, <2>2, <2>4, <2>5, <2>6, <2>7
  <2> QED BY <1>0, <2>2, <2>8
<1> QED BY <1>1, <1>2, <1>3, <1>4, <1>5, <1>6, <1>7, <1>8

(* A ClientHello that asks for another handshake is refused.               *)
ServerRejects ==
  /\ toServer # << >> /\ toServer' = Tail(toServer)
  /\ ServerInput.type = "CLIENT_HELLO" /\ ServerInput.key = srv.rkey
  /\ toClient' = Append(toClient, Message("NO_RENEGOTIATION_ALERT", srv.wkey))
  /\ UNCHANGED <<srvSess, srvFresh, srvTicketKey, srvCfg, srvCache>>
  /\ UNCHANGED <<ServerDeal, srv.rkey, srv.wkey, srv.finSent, srv.finRead,
                 srv.certRequest, srv.ticketExpected, srv.cleanuphand>>
  /\ ~ServerFirstHandshake
  /\ srv.hand = "OK" /\ srv'.hand = "SR_CLNT_HELLO"
  /\ srv.flow = "READING" /\ srv'.flow = "WRITING"

LEMMA ServerRejectStep ==
  ASSUME ServerTypeOK, ServerInv, ServerLocal, ServerRejectRenegotiation
  PROVE  ServerRejects
<1>1. /\ srv.flow = "READING" /\ toServer # << >>
      /\ ServerReadTransition(ServerInput.type) = "SR_CLNT_HELLO"
      /\ ServerInput.key = srv.rkey
  BY DEF ServerRejectRenegotiation, ServerReading
<1>2. ServerInput.type = "CLIENT_HELLO" /\ srv.hand \in {"BEFORE", "OK"}
  BY <1>1 DEF ServerReadTransition
<1>3. ~ServerFirstHandshake
  BY DEF ServerRejectRenegotiation
<1>4. srv.hand = "OK"
  BY <1>2, <1>3 DEF ServerLocal, ServerFirstHandshake
<1>5. /\ UNCHANGED <<ServerDeal, srv.rkey, srv.wkey, srv.finSent, srv.finRead,
                     srv.certRequest, srv.ticketExpected, srv.cleanuphand>>
      /\ srv'.hand = "SR_CLNT_HELLO" /\ srv'.flow = "WRITING"
  BY DEF ServerRejectRenegotiation, ServerTypeOK, ServerStates, ServerDeal
<1>6. /\ toServer' = Tail(toServer)
      /\ toClient' = Append(toClient, Message("NO_RENEGOTIATION_ALERT", srv.wkey))
      /\ UNCHANGED <<srvSess, srvFresh, srvTicketKey, srvCfg, srvCache>>
  BY DEF ServerRejectRenegotiation, ServerConsume
<1> QED BY <1>1, <1>2, <1>3, <1>4, <1>5, <1>6 DEF ServerRejects

(* The ClientHello that opens the connection.                              *)
ServerHearsHello ==
  /\ toServer # << >> /\ toServer' = Tail(toServer) /\ toClient' = toClient
  /\ ServerInput.type = "CLIENT_HELLO" /\ ServerInput.key = srv.rkey
  /\ srv.hand = "BEFORE" /\ srv'.hand = "SR_CLNT_HELLO"
  /\ ServerFirstHandshake /\ ServerFirstHandshake'
  /\ ServerSaid = 0 /\ ServerHeard = 0 /\ ServerSaid' = 0 /\ ServerHeard' = 1
  /\ ~ServerIdle /\ ~ServerIdle'
  /\ srv.flow = "READING" /\ srv'.flow = "WRITING"
  /\ srv'.newCipher \in ServerInput.suites
  /\ srv'.statusExpected => "status" \in ServerInput.ext
  /\ srv'.npnSeen => "npn" \in ServerInput.ext
  /\ srv'.ticketExpected =>
       srvCfg.tickets /\ "ticket" \in ServerInput.ext
  /\ UNCHANGED <<srv.rkey, srv.wkey, srv.finSent, srv.finRead, srv.certRequest,
                 srv.cleanuphand, srvCache, srvTicketKey, srvCfg>>

ServerResumes ==
  /\ srv'.hit /\ srv'.newCipher = srvSess'.cipher /\ srvFresh' = srvFresh
  /\ srvSess' \in PrevSessions(ServerInput)

ServerStarts ==
  /\ ~srv'.hit /\ PrevSessions(ServerInput) = {} /\ srvFresh' = srvFresh + 1
  /\ srvSess'.cipher = NoSuite /\ srvSess'.ms = 0 /\ srvSess'.peer = "none"
  /\ srvSess'.sid \in {NoSid, ServerSid(srvFresh)}

LEMMA ServerHelloRead ==
  ASSUME ServerTypeOK, WireTypeOK, ServerInv, ServerLocal, srv'.flow # "ERROR",
         ServerResume \/ ServerNewSession
  PROVE  ServerHearsHello /\ (ServerResumes \/ ServerStarts)
<1>0. srv \in ServerStates
  BY DEF ServerTypeOK
<1>1. /\ srv.flow = "READING" /\ toServer # << >>
      /\ ServerReading("SR_CLNT_HELLO") /\ ServerFirstHandshake
      /\ ServerReadTransition(ServerInput.type) = "SR_CLNT_HELLO"
      /\ ServerInput.key = srv.rkey /\ toServer' = Tail(toServer)
  BY DEF ServerResume, ServerNewSession, ServerReading, ServerConsume
<1>2. ServerInput.type = "CLIENT_HELLO" /\ srv.hand = "BEFORE"
  BY <1>1, HelloBefore DEF ServerReadTransition
<1>3. PICK hit \in BOOLEAN, te \in BOOLEAN, c \in ServerInput.suites :
        /\ srv' = ServerAfterClientHello(ServerInput, hit, c, te)
        /\ te => TicketStatus(ServerInput) \in {"EMPTY", "NO_DECRYPT"}
        /\ c \in ServerInput.suites
        /\ UNCHANGED <<toClient, srvCache, srvTicketKey, srvCfg>>
        /\ \/ /\ hit /\ c = srvSess'.cipher /\ srvFresh' = srvFresh
              /\ srvSess' \in PrevSessions(ServerInput)
           \/ /\ ~hit /\ PrevSessions(ServerInput) = {}
              /\ srvFresh' = srvFresh + 1
              /\ \E sid \in {NoSid, ServerSid(srvFresh)} :
                   srvSess' = [NoServerSession EXCEPT !.sid = sid]
  <2>1. ~ServerFatal
    BY <1>0 DEF ServerFatal, ServerStates
  <2>2. CASE ServerResume
    <3>1. PICK sess \in PrevSessions(ServerInput) :
            /\ ResumptionAllowed(ServerInput, sess)
            /\ srv' = ServerAfterClientHello(ServerInput, TRUE, sess.cipher,
                          TicketStatus(ServerInput) = "EMPTY")
            /\ srvSess' = sess
            /\ UNCHANGED <<toClient, srvCache, srvTicketKey, srvFresh, srvCfg>>
      BY <2>1, <2>2 DEF ServerResume
    <3> QED BY <3>1 DEF ResumptionAllowed
  <2>3. CASE ServerNewSession
    <3> DEFINE te == TicketStatus(ServerInput) \in {"EMPTY", "NO_DECRYPT"}
    <3>1. PICK c \in ServerInput.suites \cap srvCfg.suites :
            /\ srv' = ServerAfterClientHello(ServerInput, FALSE, c, te)
            /\ srvSess' = [NoServerSession EXCEPT
                  !.sid = IF te THEN NoSid ELSE ServerSid(srvFresh)]
            /\ srvFresh' = srvFresh + 1
            /\ UNCHANGED <<toClient, srvCache, srvTicketKey, srvCfg>>
            /\ PrevSessions(ServerInput) = {}
      BY <2>1, <2>3 DEF ServerNewSession
    <3>2. \E sid \in {NoSid, ServerSid(srvFresh)} :
            srvSess' = [NoServerSession EXCEPT !.sid = sid]
      BY <3>1
    <3>3. te \in BOOLEAN /\ (te => TicketStatus(ServerInput)
                                       \in {"EMPTY", "NO_DECRYPT"})
      OBVIOUS
    <3> HIDE DEF te
    <3>4. c \in ServerInput.suites
      BY <3>1
    <3> USE <3>3, <3>4
    <3> WITNESS FALSE \in BOOLEAN, te \in BOOLEAN, c \in ServerInput.suites
    <3> QED BY <3>1, <3>2, <3>3, <3>4
  <2> QED BY <2>2, <2>3
<1>4. /\ srv'.hand = "SR_CLNT_HELLO" /\ srv'.flow = "WRITING"
      /\ srv'.hit = hit /\ srv'.newCipher = c /\ srv'.ticketExpected = te
      /\ srv'.statusExpected => "status" \in ServerInput.ext
      /\ srv'.npnSeen => "npn" \in ServerInput.ext
      /\ UNCHANGED <<srv.rkey, srv.wkey, srv.finSent, srv.finRead,
                     srv.certRequest, srv.cleanuphand>>
  BY <1>0, <1>3 DEF ServerAfterClientHello, ServerStates
<1>5. te => srvCfg.tickets /\ "ticket" \in ServerInput.ext
  <2>1. ~srvCfg.tickets \/ "ticket" \notin ServerInput.ext =>
          TicketStatus(ServerInput) = "NONE"
    BY DEF TicketStatus
  <2> QED BY <1>3, <2>1
<1>6. /\ ServerSaid = 0 /\ ServerHeard = 0 /\ ServerSaid' = 0 /\ ServerHeard' = 1
      /\ ~ServerIdle /\ ~ServerIdle'
  BY <1>2, <1>4 DEF ServerSaid, ServerHeard, ServerIdle
<1>7. ServerFirstHandshake'
  BY <1>1, <1>4 DEF ServerFirstHandshake
<1>8. ServerHearsHello
  BY <1>1, <1>2, <1>3, <1>4, <1>5, <1>6, <1>7 DEF ServerHearsHello
<1>9. ServerResumes \/ ServerStarts
  <2>1. CASE hit
    BY <1>3, <1>4, <2>1 DEF ServerResumes
  <2>2. CASE ~hit
    BY <1>3, <1>4, <2>2 DEF ServerStarts, NoServerSession
  <2> QED BY <2>1, <2>2
<1> QED BY <1>8, <1>9

(* A failure, on what was read.                                            *)
ServerFails ==
  /\ srv.flow \in {"READING", "FINISHED"} /\ srv'.flow = "ERROR"
  /\ toServer # << >> /\ toServer' = Tail(toServer)
  /\ UNCHANGED <<srvSess, srvFresh, srvTicketKey, srvCfg>>
  /\ srvCache' \subseteq srvCache
  /\ UNCHANGED <<ServerDeal, srv.rkey, srv.wkey, srv.finSent, srv.finRead,
                 srv.certRequest, srv.ticketExpected, srv.cleanuphand, srv.hand,
                 srv.ccs>>
  /\ \/ toClient' = Append(toClient, Message("FATAL_ALERT", srv.wkey))
     \/ ServerInput.type = "FATAL_ALERT" /\ toClient' = toClient

LEMMA ServerFailStep ==
  ASSUME ServerTypeOK, ServerInv, Negotiated, ServerLocal, ServerStep,
         srv'.flow = "ERROR"
  PROVE  ServerFails
<1>0. srv \in ServerStates
  BY DEF ServerTypeOK
<1>1. CASE ServerAccept \/ ServerRenegotiate
  BY <1>0, <1>1 DEF ServerAccept, ServerRenegotiate, ClearedServerSsl,
                    NewServerSsl, ServerStates
<1>2. CASE ServerWrite
  <2>1. CASE ServerSendChangeCipherSpec
    <3>1. \/ srv.hand = "SW_SRVR_HELLO" /\ srv.hit
          \/ srv.hand = "SR_FINISHED" /\ ~srv.hit
          \/ srv.hand = "SW_SESSION_TICKET"
      BY <2>1, WriteSources DEF ServerSendChangeCipherSpec, ServerWriting
    <3>2. srvSess.ms # 0 /\ srvSess.cipher \in {NoSuite, srv.newCipher}
      BY <3>1 DEF Negotiated, ServerInv, Keys, ReadSwitched, AfterClientFinished
    <3> QED BY <1>0, <2>1, <3>2 DEF ServerSendChangeCipherSpec, ServerWriting,
                                   ServerStates
  <2>2. CASE ~ServerSendChangeCipherSpec
    BY <1>0, <1>2, <2>2 DEF ServerWrite, ServerTurnToRead, ServerSendHelloRequest,
           ServerSendServerHello, ServerSendCertificate, ServerSendCertStatus,
           ServerSendKeyExchange, ServerSendCertificateRequest,
           ServerSendServerDone, ServerSendSessionTicket, ServerSendFinished,
           ServerFinishHandshake, ServerWriting, ServerStates
  <2> QED BY <2>1, <2>2
<1>3. CASE ServerRead
  <2>1. ASSUME ServerFatal, ServerConsume, toServer # << >>,
               srv.flow \in {"READING", "FINISHED"}
        PROVE  ServerFails
    BY <1>0, <2>1 DEF ServerFails, ServerFatal, ServerConsume, ServerStates,
                      ServerDropSession, ServerDeal
  <2> HIDE DEF ServerFails
  <2> USE DEF ServerReading
  <2>2. CASE ServerResume
    BY <1>0, <2>1, <2>2 DEF ServerResume, ServerAfterClientHello, ServerStates
  <2>3. CASE ServerNewSession
    BY <1>0, <2>1, <2>3 DEF ServerNewSession, ServerAfterClientHello, ServerStates
  <2>4. CASE ServerReadCertificate
    BY <1>0, <2>1, <2>4 DEF ServerReadCertificate, ServerStates
  <2>5. CASE ServerReadKeyExchange
    BY <1>0, <2>1, <2>5 DEF ServerReadKeyExchange, ServerStates
  <2>6. CASE ServerReadCertVerify
    BY <1>0, <2>1, <2>6 DEF ServerReadCertVerify, ServerStates
  <2>7. CASE ServerReadChangeCipherSpec
    BY <1>0, <2>1, <2>7 DEF ServerReadChangeCipherSpec, ServerStates
  <2>8. CASE ServerReadFinished
    BY <1>0, <2>1, <2>8 DEF ServerReadFinished, ServerStates
  <2>9. CASE ServerRejectRenegotiation \/ ServerReadNextProto \/ ServerWake
    BY <1>0, <2>9 DEF ServerRejectRenegotiation, ServerReadNextProto, ServerWake,
                      ServerStates
  <2>10. CASE \/ ServerUnexpected \/ ServerReadNoRenegotiation
              \/ ServerStrayChangeCipherSpec
    BY <2>1, <2>10 DEF ServerUnexpected, ServerReadNoRenegotiation,
                       ServerStrayChangeCipherSpec
  <2>11. CASE ServerReadAlert
    <3>1. CASE srv.ccs
      BY <2>1, <2>11, <3>1 DEF ServerReadAlert
    <3>2. CASE ~srv.ccs
      BY <1>0, <2>11, <3>2 DEF ServerReadAlert, ServerFails, ServerConsume,
                         ServerStates, ServerDropSession, ServerDeal
    <3> QED BY <3>1, <3>2
  <2> QED BY <1>3, <2>2, <2>3, <2>4, <2>5, <2>6, <2>7, <2>8, <2>9, <2>10,
             <2>11 DEF ServerRead
<1> QED BY <1>1, <1>2, <1>3 DEF ServerStep

(* A message after the ClientHello.                                        *)
ServerReads ==
  /\ toServer # << >> /\ toServer' = Tail(toServer) /\ toClient' = toClient
  /\ ServerInput.type \in
       {"CERTIFICATE", "CLIENT_KEY_EXCHANGE", "CERTIFICATE_VERIFY",
        "CHANGE_CIPHER_SPEC", "NEXT_PROTO", "FINISHED"}
  /\ ServerInput.key = srv.rkey
  /\ ServerHeard' = ClientRank(ServerInput) /\ ServerSaid' = ServerSaid
  /\ ~ServerIdle /\ ~ServerIdle' /\ ServerHeard >= 1
  /\ srv.flow = "READING" /\ srv'.flow \in {"READING", "WRITING"}
  /\ UNCHANGED <<ServerDeal, srv.wkey, srv.finSent, srv.certRequest,
                 srv.ticketExpected>>
  /\ UNCHANGED <<srvFresh, srvTicketKey, srvCfg, srvCache, srvSess.sid>>
  /\ IF ServerInput.type = "CERTIFICATE"
       THEN /\ ServerInput.chain \in {"good", "empty"}
            /\ srvSess'.peer =
                 IF ServerInput.chain = "empty" THEN "none" ELSE "good"
       ELSE UNCHANGED srvSess.peer
  /\ IF ServerInput.type = "CLIENT_KEY_EXCHANGE"
       THEN srvSess'.ms = ServerInput.secret /\ ServerInput.secret # 0
       ELSE UNCHANGED srvSess.ms
  /\ IF ServerInput.type = "CHANGE_CIPHER_SPEC"
       THEN srvSess'.cipher = srv.newCipher /\ srv'.rkey = srvSess.ms
       ELSE UNCHANGED <<srvSess.cipher, srv.rkey>>
  /\ IF ServerInput.type = "FINISHED"
       THEN srv'.finRead
       ELSE UNCHANGED <<srv.finRead, srv.cleanuphand>>

LEMMA ServerReadStep ==
  ASSUME ServerTypeOK, WireTypeOK, ServerInv, ServerLocal, srv'.flow # "ERROR",
         \/ ServerReadCertificate \/ ServerReadKeyExchange
         \/ ServerReadCertVerify \/ ServerReadChangeCipherSpec
         \/ ServerReadNextProto \/ ServerReadFinished
  PROVE  ServerReads
<1>00. srv \in ServerStates /\ srvSess \in ServerSessions
  BY DEF ServerTypeOK
<1>0. ~ServerFatal
  BY <1>00 DEF ServerFatal, ServerStates
<1> USE DEF ServerDeal, ServerConsume, ServerReading
<1>1. CASE ServerReadCertificate
  <2>1. /\ srv.flow = "READING" /\ toServer # << >>
        /\ ServerReadTransition(ServerInput.type) = "SR_CERT"
        /\ ServerInput.key = srv.rkey /\ toServer' = Tail(toServer)
    BY <1>1 DEF ServerReadCertificate
  <2>2. ServerInput.type = "CERTIFICATE"
    BY <2>1 DEF ServerReadTransition
  <2>3. srv.hand = "SW_SRVR_DONE"
    BY <2>1, ReadSources
  <2>4. /\ ServerInput.chain \in {"good", "empty"}
        /\ srvSess'.peer =
             IF ServerInput.chain = "empty" THEN "none" ELSE "good"
        /\ UNCHANGED <<srvSess.sid, srvSess.ms, srvSess.cipher>>
    BY <1>0, <1>00, <1>1 DEF ServerReadCertificate, ServerSessions, ClientChainAccepted
  <2>5. UNCHANGED <<toClient, srvFresh, srvTicketKey, srvCfg, srvCache>>
    BY <1>0, <1>1 DEF ServerReadCertificate
  <2>6. /\ srv'.hand = "SR_CERT" /\ srv'.flow \in {"READING", "WRITING"}
        /\ UNCHANGED ServerDeal
        /\ UNCHANGED <<srv.wkey, srv.finSent, srv.certRequest,
                       srv.ticketExpected, srv.rkey, srv.finRead,
                       srv.cleanuphand>>
    BY <1>0, <1>00, <1>1, <2>1 DEF ServerReadCertificate, ServerStates
  <2>10. ~srv.hit
    BY <2>3 DEF ServerInv, Position
  <2>7. /\ ServerSaid' = ServerSaid /\ ServerHeard' = 2 /\ ServerHeard >= 1
        /\ ~ServerIdle /\ ~ServerIdle'
    BY <2>3, <2>6, <2>10 DEF ServerSaid, ServerHeard, ServerIdle
  <2>8. ClientRank(ServerInput) = 2
    BY <2>2 DEF ClientRank
  <2> HIDE DEF ServerDeal
  <2> QED BY <2>1, <2>2, <2>4, <2>5, <2>6, <2>7, <2>8 DEF ServerReads
<1>2. CASE ServerReadKeyExchange
  <2>1. /\ srv.flow = "READING" /\ toServer # << >>
        /\ ServerReadTransition(ServerInput.type) = "SR_KEY_EXCH"
        /\ ServerInput.key = srv.rkey /\ toServer' = Tail(toServer)
    BY <1>2 DEF ServerReadKeyExchange
  <2>2. ServerInput.type = "CLIENT_KEY_EXCHANGE"
    BY <2>1 DEF ServerReadTransition
  <2>3. srv.hand \in {"SW_SRVR_DONE", "SR_CERT"}
    BY <2>1, ReadSources
  <2>4. /\ srvSess'.ms = ServerInput.secret /\ ServerInput.secret # 0
        /\ UNCHANGED <<srvSess.sid, srvSess.peer, srvSess.cipher>>
    BY <1>0, <1>00, <1>2 DEF ServerReadKeyExchange, ServerSessions
  <2>5. UNCHANGED <<toClient, srvFresh, srvTicketKey, srvCfg, srvCache>>
    BY <1>0, <1>2 DEF ServerReadKeyExchange
  <2>6. /\ srv'.hand = "SR_KEY_EXCH" /\ srv'.flow \in {"READING", "WRITING"}
        /\ UNCHANGED ServerDeal
        /\ UNCHANGED <<srv.wkey, srv.finSent, srv.certRequest,
                       srv.ticketExpected, srv.rkey, srv.finRead,
                       srv.cleanuphand>>
    BY <1>0, <1>00, <1>2, <2>1 DEF ServerReadKeyExchange, ServerStates
  <2>10. ~srv.hit
    BY <2>3 DEF ServerInv, Position
  <2>7. /\ ServerSaid' = ServerSaid /\ ServerHeard' = 3 /\ ServerHeard >= 1
        /\ ~ServerIdle /\ ~ServerIdle'
    BY <2>3, <2>6, <2>10 DEF ServerSaid, ServerHeard, ServerIdle
  <2>8. ClientRank(ServerInput) = 3
    BY <2>2 DEF ClientRank
  <2> HIDE DEF ServerDeal
  <2> QED BY <2>1, <2>2, <2>4, <2>5, <2>6, <2>7, <2>8 DEF ServerReads
<1>3. CASE ServerReadCertVerify
  <2>1. /\ srv.flow = "READING" /\ toServer # << >>
        /\ ServerReadTransition(ServerInput.type) = "SR_CERT_VRFY"
        /\ ServerInput.key = srv.rkey /\ toServer' = Tail(toServer)
    BY <1>3 DEF ServerReadCertVerify
  <2>2. ServerInput.type = "CERTIFICATE_VERIFY"
    BY <2>1 DEF ServerReadTransition
  <2>3. srv.hand = "SR_KEY_EXCH"
    BY <2>1, ReadSources
  <2>4. UNCHANGED srvSess
    BY <1>0, <1>00, <1>3 DEF ServerReadCertVerify, ServerSessions
  <2>5. UNCHANGED <<toClient, srvFresh, srvTicketKey, srvCfg, srvCache>>
    BY <1>0, <1>3 DEF ServerReadCertVerify
  <2>6. /\ srv'.hand = "SR_CERT_VRFY" /\ srv'.flow \in {"READING", "WRITING"}
        /\ UNCHANGED ServerDeal
        /\ UNCHANGED <<srv.wkey, srv.finSent, srv.certRequest,
                       srv.ticketExpected, srv.rkey, srv.finRead,
                       srv.cleanuphand>>
    BY <1>0, <1>00, <1>3, <2>1 DEF ServerReadCertVerify, ServerStates
  <2>10. ~srv.hit
    BY <2>3 DEF ServerInv, Position
  <2>7. /\ ServerSaid' = ServerSaid /\ ServerHeard' = 4 /\ ServerHeard >= 1
        /\ ~ServerIdle /\ ~ServerIdle'
    BY <2>3, <2>6, <2>10 DEF ServerSaid, ServerHeard, ServerIdle
  <2>8. ClientRank(ServerInput) = 4
    BY <2>2 DEF ClientRank
  <2> HIDE DEF ServerDeal
  <2> QED BY <2>1, <2>2, <2>4, <2>5, <2>6, <2>7, <2>8 DEF ServerReads
<1>4. CASE ServerReadChangeCipherSpec
  <2>1. /\ srv.flow = "READING" /\ toServer # << >>
        /\ ServerReadTransition(ServerInput.type) = "SR_CHANGE"
        /\ ServerInput.key = srv.rkey /\ toServer' = Tail(toServer)
    BY <1>4 DEF ServerReadChangeCipherSpec
  <2>2. ServerInput.type = "CHANGE_CIPHER_SPEC"
    BY <2>1 DEF ServerReadTransition
  <2>3. \/ srv.hand \in {"SR_KEY_EXCH", "SR_CERT_VRFY"}
        \/ srv.hand = "SW_FINISHED"
    BY <2>1, ReadSources
  <2>4. /\ srvSess'.cipher = srv.newCipher
        /\ UNCHANGED <<srvSess.sid, srvSess.ms, srvSess.peer>>
    BY <1>0, <1>00, <1>4 DEF ServerReadChangeCipherSpec, ServerSessions
  <2>5. UNCHANGED <<toClient, srvFresh, srvTicketKey, srvCfg, srvCache>>
    BY <1>0, <1>4 DEF ServerReadChangeCipherSpec
  <2>6. /\ srv'.hand = "SR_CHANGE" /\ srv'.flow \in {"READING", "WRITING"}
        /\ UNCHANGED ServerDeal
        /\ UNCHANGED <<srv.wkey, srv.finSent, srv.certRequest,
                       srv.ticketExpected, srv.finRead, srv.cleanuphand>>
        /\ srv'.rkey = srvSess.ms
    BY <1>0, <1>00, <1>4, <2>1 DEF ServerReadChangeCipherSpec, ServerStates
  <2>10. srv.hit <=> srv.hand = "SW_FINISHED"
    BY <2>1, <2>3 DEF ServerInv, Position, ServerLocal
  <2>7. /\ ServerSaid' = ServerSaid /\ ServerHeard' = 5 /\ ServerHeard >= 1
        /\ ~ServerIdle /\ ~ServerIdle'
    BY <2>3, <2>6, <2>10 DEF ServerSaid, ServerHeard, ServerIdle
  <2>8. ClientRank(ServerInput) = 5
    BY <2>2 DEF ClientRank
  <2> HIDE DEF ServerDeal
  <2> QED BY <2>1, <2>2, <2>4, <2>5, <2>6, <2>7, <2>8 DEF ServerReads
<1>5. CASE ServerReadNextProto
  <2>1. /\ srv.flow = "READING" /\ toServer # << >>
        /\ ServerReadTransition(ServerInput.type) = "SR_NEXT_PROTO"
        /\ ServerInput.key = srv.rkey /\ toServer' = Tail(toServer)
    BY <1>5 DEF ServerReadNextProto
  <2>2. ServerInput.type = "NEXT_PROTO"
    BY <2>1 DEF ServerReadTransition
  <2>3. srv.hand = "SR_CHANGE"
    BY <2>1, ReadSources
  <2>4. UNCHANGED srvSess
    BY <1>0, <1>00, <1>5 DEF ServerReadNextProto, ServerSessions
  <2>5. UNCHANGED <<toClient, srvFresh, srvTicketKey, srvCfg, srvCache>>
    BY <1>0, <1>5 DEF ServerReadNextProto
  <2>6. /\ srv'.hand = "SR_NEXT_PROTO" /\ srv'.flow \in {"READING", "WRITING"}
        /\ UNCHANGED ServerDeal
        /\ UNCHANGED <<srv.wkey, srv.finSent, srv.certRequest,
                       srv.ticketExpected, srv.rkey, srv.finRead,
                       srv.cleanuphand>>
    BY <1>0, <1>00, <1>5, <2>1 DEF ServerReadNextProto, ServerStates
  <2>7. /\ ServerSaid' = ServerSaid /\ ServerHeard' = 6 /\ ServerHeard >= 1
        /\ ~ServerIdle /\ ~ServerIdle'
    BY <2>3, <2>6 DEF ServerSaid, ServerHeard, ServerIdle
  <2>8. ClientRank(ServerInput) = 6
    BY <2>2 DEF ClientRank
  <2> HIDE DEF ServerDeal
  <2> QED BY <2>1, <2>2, <2>4, <2>5, <2>6, <2>7, <2>8 DEF ServerReads
<1>6. CASE ServerReadFinished
  <2>1. /\ srv.flow = "READING" /\ toServer # << >>
        /\ ServerReadTransition(ServerInput.type) = "SR_FINISHED"
        /\ ServerInput.key = srv.rkey /\ toServer' = Tail(toServer)
    BY <1>6 DEF ServerReadFinished
  <2>2. ServerInput.type = "FINISHED"
    BY <2>1 DEF ServerReadTransition
  <2>3. srv.hand \in {"SR_CHANGE", "SR_NEXT_PROTO"}
    BY <2>1, ReadSources
  <2>4. UNCHANGED srvSess
    BY <1>0, <1>00, <1>6 DEF ServerReadFinished, ServerSessions
  <2>5. UNCHANGED <<toClient, srvFresh, srvTicketKey, srvCfg, srvCache>>
    BY <1>0, <1>6 DEF ServerReadFinished
  <2>6. /\ srv'.hand = "SR_FINISHED" /\ srv'.flow \in {"READING", "WRITING"}
        /\ UNCHANGED ServerDeal
        /\ UNCHANGED <<srv.wkey, srv.finSent, srv.certRequest,
                       srv.ticketExpected, srv.rkey>>
        /\ srv'.finRead
    <3>1. srv' = [srv EXCEPT !.hand = "SR_FINISHED", !.flow = "WRITING",
                         !.ccs = FALSE, !.cleanuphand = TRUE,
                         !.finRead = TRUE, !.finOk = TRUE]
      BY <1>0, <1>6 DEF ServerReadFinished
    <3> QED BY <1>00, <3>1 DEF ServerStates
  <2>7. /\ ServerSaid' = ServerSaid /\ ServerHeard' = 7 /\ ServerHeard >= 1
        /\ ~ServerIdle /\ ~ServerIdle'
    BY <2>3, <2>6 DEF ServerSaid, ServerHeard, ServerIdle
  <2>8. ClientRank(ServerInput) = 7
    BY <2>2 DEF ClientRank
  <2> HIDE DEF ServerDeal
  <2> QED BY <2>1, <2>2, <2>4, <2>5, <2>6, <2>7, <2>8 DEF ServerReads
<1> QED BY <1>1, <1>2, <1>3, <1>4, <1>5, <1>6

(* The kinds of steps.                                                     *)
LEMMA ServerKinds ==
  ASSUME ServerTypeOK, WireTypeOK, WireTypeOK', ServerInv, Negotiated,
         ServerLocal, ServerStep
  PROVE  \/ ServerFails
         \/ ServerQuiet
         \/ \E m \in Messages : ServerAsks(m)
         \/ \E m \in Messages : ServerAnswers(m)
         \/ \E m \in Messages : ServerWrites(m)
         \/ ServerRejects
         \/ ServerHearsHello /\ ServerResumes
         \/ ServerHearsHello /\ ServerStarts
         \/ ServerReads
<1>1. CASE srv'.flow = "ERROR"
  BY <1>1, ServerFailStep
<1>2. CASE srv'.flow # "ERROR"
  <2>1. CASE \/ ServerAccept \/ ServerTurnToRead \/ ServerFinishHandshake
             \/ ServerWake \/ ServerRenegotiate
    BY <2>1, ServerQuietStep
  <2>2. CASE ServerSendHelloRequest
    BY <2>2, ServerAskStep
  <2>3. CASE ServerSendServerHello
    BY <2>3, ServerHelloStep
  <2>4. CASE \/ ServerSendCertificate \/ ServerSendCertStatus
             \/ ServerSendKeyExchange \/ ServerSendCertificateRequest
             \/ ServerSendServerDone \/ ServerSendSessionTicket
             \/ ServerSendChangeCipherSpec \/ ServerSendFinished
    BY <1>2, <2>4, ServerWriteStep
  <2>5. CASE ServerRejectRenegotiation
    BY <2>5, ServerRejectStep
  <2>6. CASE ServerResume \/ ServerNewSession
    BY <1>2, <2>6, ServerHelloRead
  <2>7. CASE \/ ServerReadCertificate \/ ServerReadKeyExchange
             \/ ServerReadCertVerify \/ ServerReadChangeCipherSpec
             \/ ServerReadNextProto \/ ServerReadFinished
    BY <1>2, <2>7, ServerReadStep
  <2>8. CASE \/ ServerUnexpected \/ ServerReadAlert
             \/ ServerReadNoRenegotiation \/ ServerStrayChangeCipherSpec
    <3>1. srv'.flow = "ERROR"
      BY <2>8 DEF ServerUnexpected, ServerReadAlert, ServerReadNoRenegotiation,
                  ServerStrayChangeCipherSpec, ServerFatal, ServerTypeOK,
                  ServerStates
    <3> QED BY <1>2, <3>1
  <2> QED BY <2>1, <2>2, <2>3, <2>4, <2>5, <2>6, <2>7, <2>8
          DEF ServerStep, ServerWrite, ServerRead
<1> QED BY <1>1, <1>2

LEMMA ServerLocalKept ==
  ASSUME ServerTypeOK, WireTypeOK, WireTypeOK', ServerInv, Negotiated,
         ServerLocal, ServerStep \/ ServerNewConnection
  PROVE  ServerLocal'
<1>0. srv \in ServerStates /\ srvSess \in ServerSessions
  BY DEF ServerTypeOK
<1> USE DEF ServerFirstHandshake, ReadSwitched, WriteSwitched,
            AfterClientFinished
<1>1. CASE ServerFails
  <2>1. /\ srv'.flow = "ERROR" /\ srvSess' = srvSess
        /\ UNCHANGED <<srv.hit, srv.newCipher, srv.hand, srv.finSent,
                       srv.finRead, srv.rkey, srv.wkey, srv.ccs,
                       srv.certRequest, srv.cleanuphand>>
    BY <1>1 DEF ServerFails, ServerDeal
  <2>2. UNCHANGED <<ServerSaid, ServerHeard>>
    BY <2>1 DEF ServerSaid, ServerHeard
  <2> QED BY <2>1, <2>2 DEF ServerLocal
<1>2. CASE ServerAccept \/ ServerNewConnection
  <2>1. /\ srv'.hand = "BEFORE" /\ ~srv'.hit /\ ~srv'.finSent /\ ~srv'.finRead
        /\ srv'.rkey = 0 /\ srv'.wkey = 0 /\ ~srv'.cleanuphand
        /\ srv'.newCipher = NoSuite /\ ~srv'.statusExpected /\ ~srv'.npnSeen
        /\ ~srv'.ticketExpected /\ ~srv'.certRequest
        /\ srv'.flow \in {"UNINITED", "WRITING"}
    <3>1. CASE ServerAccept
      BY <3>1 DEF ServerAccept, ClearedServerSsl, NewServerSsl
    <3>2. CASE ServerNewConnection
      <4>1. srv' \in {ClearedServerSsl, NewServerSsl(srvCfg)}
        BY <3>2 DEF ServerNewConnection
      <4>2. CASE srv' = ClearedServerSsl
        BY <4>2 DEF ClearedServerSsl, NewServerSsl
      <4>3. CASE srv' = NewServerSsl(srvCfg)
        BY <4>3 DEF NewServerSsl
      <4> QED BY <4>1, <4>2, <4>3
    <3> QED BY <1>2, <3>1, <3>2
  <2>2. srvSess' = NoServerSession
    BY <1>2 DEF ServerAccept, ServerNewConnection, Negotiated, ServerLocal
  <2>3. ServerHeard' = 0
    BY <2>1 DEF ServerHeard
  <2> QED BY <2>1, <2>2, <2>3 DEF ServerLocal
<1>3. CASE ServerTurnToRead
  <2>1. ServerQuiet
    BY <1>3, ServerQuietStep
  <2>2. /\ srvSess' = srvSess /\ srv'.flow = "READING"
        /\ UNCHANGED <<srv.hit, srv.newCipher, srv.hand, srv.finSent,
                       srv.finRead, srv.rkey, srv.wkey, srv.ccs,
                       srv.cleanuphand>>
        /\ srv'.certRequest => srv.certRequest
    BY <1>0, <1>3 DEF ServerTurnToRead, ServerStates
  <2>3. \/ srv.hand \in {"OK", "BEFORE", "SW_SRVR_DONE"}
        \/ srv.hand = "SW_FINISHED" /\ srv.hit
    BY <1>3, WriteSources DEF ServerTurnToRead, ServerWriting
  <2>4. UNCHANGED <<ServerSaid, ServerHeard>>
    BY <2>2 DEF ServerSaid, ServerHeard
  <2> QED BY <2>2, <2>3, <2>4 DEF ServerLocal
<1>4. CASE \/ ServerWake \/ ServerRenegotiate \/ ServerFinishHandshake
           \/ ServerSendHelloRequest
  <2>1. /\ srvSess' = srvSess /\ srv'.flow \in {"WRITING", "FINISHED"}
        /\ UNCHANGED <<srv.hit, srv.newCipher>>
        /\ srv'.hand \in {"OK", "SW_HELLO_REQ"}
        /\ srv'.cleanuphand => srv.cleanuphand /\ srv.hand = "OK"
    <3>1. CASE ServerWake \/ ServerRenegotiate
      BY <1>0, <3>1 DEF ServerWake, ServerRenegotiate, ServerStates, ServerInv,
                        Position
    <3>2. CASE ServerFinishHandshake
      BY <1>0, <3>2 DEF ServerFinishHandshake, ServerStates
    <3>3. CASE ServerSendHelloRequest
      BY <1>0, <3>3, WriteSources
         DEF ServerSendHelloRequest, ServerWriting, ServerStates
    <3> QED BY <1>4, <3>1, <3>2, <3>3
  <2>2. \/ srv.hand \in {"OK", "SW_HELLO_REQ"}
        \/ srv.hand = "SR_CLNT_HELLO" /\ ~ServerFirstHandshake
        \/ srv.hand = "SR_FINISHED" /\ srv.hit
        \/ srv.hand = "SW_FINISHED" /\ ~srv.hit
    BY <1>4, WriteSources
       DEF ServerFinishHandshake, ServerSendHelloRequest, ServerWriting,
           ServerWake, ServerRenegotiate, ServerInv, Position
  <2>3. ServerHeard >= 1 /\ ServerHeard' = 7 /\ ServerSaid' = 9
    BY <2>1, <2>2 DEF ServerHeard, ServerSaid
  <2> QED BY <2>1, <2>2, <2>3 DEF ServerLocal
<1>5. CASE ServerSendServerHello
  <2>1. PICK m \in Messages : ServerAnswers(m)
    BY <1>5, ServerHelloStep
  <2>2. /\ srv'.hand = "SW_SRVR_HELLO" /\ srv'.flow = "WRITING"
        /\ UNCHANGED <<srv.hit, srv.newCipher, srv.finSent, srv.finRead,
                       srv.certRequest, srv.cleanuphand, srvSess.cipher>>
        /\ srv.hand = "SR_CLNT_HELLO"
        /\ ServerSaid = 0 /\ ServerHeard = 1 /\ ServerSaid' = 1
        /\ ServerHeard' = 1
    BY <1>0, <1>5, <2>1 DEF ServerAnswers, ServerDeal, ServerSendServerHello,
                            ServerStates
  <2> QED BY <2>2 DEF ServerLocal
<1>6. ASSUME srv'.hand \in {"SW_CERT", "SW_CERT_STATUS", "SW_KEY_EXCH",
                            "SW_CERT_REQ", "SW_SRVR_DONE"},
             srv.hand \in {"SW_SRVR_HELLO", "SW_CERT", "SW_CERT_STATUS",
                           "SW_KEY_EXCH", "SW_CERT_REQ"},
             srv.flow = "WRITING", srv'.flow = "WRITING",
             UNCHANGED <<srv.hit, srv.newCipher, srv.finSent, srv.finRead,
                         srv.cleanuphand, srvSess>>,
             \/ srv'.hand \in {"SW_CERT_REQ", "SW_SRVR_DONE"}
             \/ UNCHANGED srv.certRequest /\ srv.hand # "SW_CERT_REQ"
      PROVE  ServerLocal'
  <2>1. /\ ServerHeard = 1 /\ ServerHeard' = 1
        /\ ServerSaid \in 0 .. 5 /\ ServerSaid' \in 0 .. 6
        /\ srv'.hand \in {"SW_CERT_REQ", "SW_SRVR_DONE"} => ServerSaid' >= 5
        /\ srv.hand # "SW_CERT_REQ" => ServerSaid <= 4
    BY <1>6 DEF ServerHeard, ServerSaid
  <2>2. ~ReadSwitched' /\ ~WriteSwitched'
    BY <1>6
  <2> HIDE DEF ReadSwitched, WriteSwitched, AfterClientFinished
  <2> QED BY <1>6, <2>1, <2>2 DEF ServerLocal
<1>7. CASE \/ ServerSendCertificate \/ ServerSendCertStatus
           \/ ServerSendKeyExchange \/ ServerSendCertificateRequest
           \/ ServerSendServerDone
  <2>1. CASE \/ ServerSendCertificate \/ ServerSendCertStatus
             \/ ServerSendKeyExchange
    BY <1>0, <1>6, <2>1, WriteSources
       DEF ServerSendCertificate, ServerSendCertStatus, ServerSendKeyExchange,
           ServerWriting, ServerStates
  <2>2. CASE ServerSendCertificateRequest \/ ServerSendServerDone
    BY <1>0, <1>6, <2>2, WriteSources
       DEF ServerSendCertificateRequest, ServerSendServerDone, ServerWriting,
           ServerStates
  <2> QED BY <1>7, <2>1, <2>2
<1>8. CASE ServerSendSessionTicket
  <2>1. \/ srv.hand = "SW_SRVR_HELLO" /\ srv.hit
        \/ srv.hand = "SR_FINISHED" /\ ~srv.hit
    BY <1>8, WriteSources DEF ServerSendSessionTicket, ServerWriting
  <2>2. /\ srv'.hand = "SW_SESSION_TICKET" /\ srv'.flow = "WRITING"
        /\ UNCHANGED <<srv.hit, srv.newCipher, srv.finSent, srv.finRead,
                       srv.cleanuphand, srvSess>>
    BY <1>0, <1>8 DEF ServerSendSessionTicket, ServerWriting, ServerStates
  <2>3. /\ ServerHeard' = ServerHeard /\ ServerSaid' = 7 /\ ServerSaid \in 0 .. 6
        /\ ServerHeard >= 1
    BY <2>1, <2>2 DEF ServerHeard, ServerSaid
  <2>4. srvSess'.cipher = srv'.newCipher
    BY <2>1, <2>2 DEF ServerLocal
  <2> HIDE DEF ReadSwitched, WriteSwitched, AfterClientFinished
  <2> QED BY <2>1, <2>2, <2>3, <2>4 DEF ServerLocal
<1>9. CASE ServerSendChangeCipherSpec /\ ~ServerFails
  <2>0. srv'.flow # "ERROR"
    BY <1>9, ServerFailStep DEF ServerStep, ServerWrite
  <2>1. \/ srv.hand = "SW_SRVR_HELLO" /\ srv.hit
        \/ srv.hand = "SR_FINISHED" /\ ~srv.hit
        \/ srv.hand = "SW_SESSION_TICKET"
    BY <1>9, WriteSources DEF ServerSendChangeCipherSpec, ServerWriting
  <2>2. /\ srv'.hand = "SW_CHANGE" /\ srv'.flow = "WRITING"
        /\ UNCHANGED <<srv.hit, srv.newCipher, srv.finSent, srv.finRead,
                       srv.cleanuphand>>
        /\ srvSess'.cipher = srv.newCipher
    BY <1>0, <1>9, <2>0 DEF ServerSendChangeCipherSpec, ServerWriting,
         ServerFatal, ServerStates, ServerSessions
  <2>3. /\ ServerHeard' = ServerHeard /\ ServerSaid' = 8 /\ ServerSaid \in 0 .. 7
        /\ ServerHeard >= 1
    BY <2>1, <2>2 DEF ServerHeard, ServerSaid
  <2> HIDE DEF ReadSwitched, WriteSwitched, AfterClientFinished
  <2> QED BY <2>1, <2>2, <2>3 DEF ServerLocal
<1>10. CASE ServerSendFinished
  <2>1. srv.hand = "SW_CHANGE"
    BY <1>10, WriteSources DEF ServerSendFinished, ServerWriting
  <2>2. /\ srv'.hand = "SW_FINISHED" /\ srv'.flow = "WRITING" /\ srv'.finSent
        /\ UNCHANGED <<srv.hit, srv.newCipher, srv.finRead, srv.cleanuphand,
                       srvSess>>
    BY <1>0, <1>10 DEF ServerSendFinished, ServerWriting, ServerStates
  <2>3. /\ ServerHeard' = ServerHeard /\ ServerSaid' = 9 /\ ServerHeard >= 1
    BY <2>1, <2>2 DEF ServerHeard, ServerSaid
  <2>4. srvSess'.cipher = srv'.newCipher
    BY <2>1, <2>2 DEF ServerLocal
  <2> HIDE DEF ReadSwitched, WriteSwitched, AfterClientFinished
  <2> QED BY <2>1, <2>2, <2>3, <2>4 DEF ServerLocal
<1>11. CASE ServerRejectRenegotiation
  <2>1. /\ srv.hand = "OK" /\ srv'.hand = "SR_CLNT_HELLO"
        /\ srv'.flow = "WRITING" /\ ~ServerFirstHandshake
        /\ UNCHANGED <<srvSess, srv.hit, srv.newCipher, srv.finSent,
                       srv.finRead, srv.cleanuphand>>
    BY <1>11, ServerRejectStep DEF ServerRejects, ServerDeal
  <2>2. ServerHeard >= 1
    BY <2>1 DEF ServerHeard
  <2> QED BY <2>1, <2>2 DEF ServerLocal
<1>12. CASE (ServerResume \/ ServerNewSession) /\ ~ServerFails
  <2>0. srv'.flow # "ERROR"
    BY <1>12, ServerFailStep DEF ServerStep, ServerRead
  <2>1. ServerHearsHello /\ (ServerResumes \/ ServerStarts)
    BY <1>12, <2>0, ServerHelloRead
  <2>2. /\ srv.hand = "BEFORE" /\ srv'.hand = "SR_CLNT_HELLO"
        /\ srv'.flow = "WRITING" /\ srv'.newCipher \in ServerInput.suites
        /\ UNCHANGED <<srv.finSent, srv.finRead, srv.certRequest,
                       srv.cleanuphand>>
        /\ ServerSaid = 0 /\ ServerHeard = 0 /\ ServerFirstHandshake
    BY <2>1 DEF ServerHearsHello
  <2>3. srv'.newCipher # NoSuite
    <3>1. ServerInput \in Messages
      BY <2>1, TailFacts DEF ServerHearsHello, WireTypeOK, ServerInput
    <3> QED BY <2>2, <3>1, SuitesAssumption DEF Messages
  <2>4. srv'.hit => srvSess'.cipher = srv'.newCipher
    BY <2>1 DEF ServerResumes, ServerStarts
  <2> QED BY <2>2, <2>3, <2>4 DEF ServerLocal
<1>13. ASSUME srv'.hand \in {"SR_CERT", "SR_KEY_EXCH", "SR_CERT_VRFY"},
             srv.hand \in {"SW_SRVR_DONE", "SR_CERT", "SR_KEY_EXCH"},
             srv'.flow = "READING",
             UNCHANGED <<srv.hit, srv.newCipher, srv.finSent, srv.finRead,
                         srv.cleanuphand, srvSess.cipher>>
      PROVE  ServerLocal'
  <2>1. /\ ServerHeard \in 1 .. 6 /\ ServerHeard' <= 6
        /\ ServerSaid' = 6 /\ ServerSaid = 6
    BY <1>13 DEF ServerHeard, ServerSaid
  <2> QED BY <1>13, <2>1 DEF ServerLocal
<1>14. CASE ServerReadCertificate /\ ~ServerFails
  <2>0. srv'.flow # "ERROR"
    BY <1>14, ServerFailStep DEF ServerStep, ServerRead
  <2> QED BY <1>0, <1>13, <1>14, <2>0, ReadSources
          DEF ServerReadCertificate, ServerReading, ServerFatal, ServerStates,
              ServerSessions
<1>15. CASE ServerReadKeyExchange /\ ~ServerFails
  <2>0. srv'.flow # "ERROR"
    BY <1>15, ServerFailStep DEF ServerStep, ServerRead
  <2> QED BY <1>0, <1>13, <1>15, <2>0, ReadSources
          DEF ServerReadKeyExchange, ServerReading, ServerFatal, ServerStates,
              ServerSessions
<1>16. CASE ServerReadCertVerify /\ ~ServerFails
  <2>0. srv'.flow # "ERROR"
    BY <1>16, ServerFailStep DEF ServerStep, ServerRead
  <2> QED BY <1>0, <1>13, <1>16, <2>0, ReadSources
          DEF ServerReadCertVerify, ServerReading, ServerFatal, ServerStates
<1>17. CASE ServerReadChangeCipherSpec /\ ~ServerFails
  <2>0. srv'.flow # "ERROR"
    BY <1>17, ServerFailStep DEF ServerStep, ServerRead
  <2>1. ServerReads
    BY <1>17, <2>0, ServerReadStep
  <2>2. \/ srv.hand \in {"SR_KEY_EXCH", "SR_CERT_VRFY"}
        \/ srv.hand = "SW_FINISHED"
    BY <1>17, ReadSources DEF ServerReadChangeCipherSpec, ServerReading
  <2>3. /\ srv'.hand = "SR_CHANGE" /\ srv'.ccs /\ srv.flow = "READING"
        /\ srv'.flow = "READING"
        /\ UNCHANGED <<srv.hit, srv.newCipher, srv.finSent, srv.finRead,
                       srv.certRequest, srv.cleanuphand>>
        /\ srvSess'.cipher = srv.newCipher
    BY <1>0, <1>17, <2>0
       DEF ServerReadChangeCipherSpec, ServerReading, ServerFatal, ServerStates,
           ServerSessions
  <2>4. /\ ServerSaid' = ServerSaid /\ ServerHeard >= 1 /\ ServerHeard' = 5
        /\ srv.hand # "SW_FINISHED" => ServerHeard <= 6
        /\ ServerSaid >= 6
    BY <2>1, <2>2, <2>3 DEF ServerReads, ServerHeard, ServerSaid
  <2>5. srv.hand = "SW_FINISHED" => srv.hit /\ ServerHeard = 1
    BY <2>3 DEF ServerLocal, ServerHeard
  <2> QED BY <2>2, <2>3, <2>4, <2>5 DEF ServerLocal
<1>18. CASE ServerReadNextProto
  <2>1. srv.hand = "SR_CHANGE"
    BY <1>18, ReadSources DEF ServerReadNextProto, ServerReading
  <2>2. /\ srv'.hand = "SR_NEXT_PROTO" /\ srvSess' = srvSess
        /\ srv'.flow = "READING"
        /\ UNCHANGED <<srv.hit, srv.newCipher, srv.finSent, srv.finRead,
                       srv.certRequest, srv.cleanuphand, srv.ccs>>
    BY <1>0, <1>18 DEF ServerReadNextProto, ServerReading, ServerStates
  <2>3. ServerSaid' = ServerSaid /\ ServerHeard = 5 /\ ServerHeard' = 6
    BY <2>1, <2>2 DEF ServerSaid, ServerHeard
  <2> QED BY <2>1, <2>2, <2>3 DEF ServerLocal
<1>19. CASE ServerReadFinished /\ ~ServerFails
  <2>0. srv'.flow # "ERROR"
    BY <1>19, ServerFailStep DEF ServerStep, ServerRead
  <2>1. srv.hand \in {"SR_CHANGE", "SR_NEXT_PROTO"}
    BY <1>19, ReadSources DEF ServerReadFinished, ServerReading
  <2>2. srv' = [srv EXCEPT !.hand = "SR_FINISHED", !.flow = "WRITING",
                         !.ccs = FALSE, !.cleanuphand = TRUE,
                         !.finRead = TRUE, !.finOk = TRUE]
        /\ srvSess' = srvSess
    BY <1>0, <1>19, <2>0 DEF ServerReadFinished, ServerFatal, ServerStates
  <2>3. /\ srv'.hand = "SR_FINISHED" /\ srv'.flow = "WRITING" /\ srv'.finRead
        /\ UNCHANGED <<srv.hit, srv.newCipher, srv.finSent, srv.certRequest>>
    BY <1>0, <2>2 DEF ServerStates
  <2>4. ServerSaid' = ServerSaid /\ ServerHeard \in 5 .. 6 /\ ServerHeard' = 7
        /\ ServerSaid >= 6
    BY <2>1, <2>3 DEF ServerSaid, ServerHeard
  <2> QED BY <2>1, <2>2, <2>3, <2>4 DEF ServerLocal
<1>20. CASE \/ ServerUnexpected \/ ServerReadAlert
            \/ ServerReadNoRenegotiation \/ ServerStrayChangeCipherSpec
  <2>1. srv'.flow = "ERROR"
    BY <1>0, <1>20 DEF ServerUnexpected, ServerReadAlert, ServerFatal,
         ServerReadNoRenegotiation, ServerStrayChangeCipherSpec, ServerStates
  <2> QED BY <1>1, <1>20, <2>1, ServerFailStep DEF ServerStep, ServerRead
<1> QED BY <1>1, <1>2, <1>3, <1>4, <1>5, <1>7, <1>8, <1>9, <1>10, <1>11, <1>12,
           <1>14, <1>15, <1>16, <1>17, <1>18, <1>19, <1>20
        DEF ServerStep, ServerWrite, ServerRead

-----------------------------------------------------------------------------
(* The invariant of an alive connection, and the endpoints it joins.       *)

Sound ==
  /\ ClientTypeOK /\ ServerTypeOK /\ WireTypeOK
  /\ ClientInv /\ ServerInv /\ ClientLocal /\ ServerLocal /\ Negotiated

AliveInv ==
  /\ Streams /\ OneHandshake /\ HelloAgreed
  /\ CertAgreed /\ KeysAgreed /\ SecretsAgreed

(* Nobody has read more than was written; what is on the way was written   *)
(* and not read.                                                           *)
Reached ==
  /\ ClientHeard \in 0 .. 9 /\ ClientSaid \in 0 .. 8
  /\ ServerSaid \in 0 .. 9 /\ ServerHeard \in 0 .. 7
  /\ ClientHeard <= ServerSaid /\ ServerHeard <= ClientSaid
  /\ \A m \in Sent(toClient) :
       /\ ServerRank(m.type) \in 1 .. 9 /\ ServerRank(m.type) <= ServerSaid
       /\ ClientHeard < ServerRank(m.type) \/ m.type = "HELLO_REQUEST"
  /\ \A m \in Sent(toServer) :
       /\ ClientRank(m) \in 1 .. 8 /\ ClientRank(m) <= ClientSaid
       /\ ServerHeard < ClientRank(m)
  /\ ClientHeard = ServerSaid /\ ClientHeard # 9 => toClient = << >>
  /\ ServerHeard = ClientSaid <=> toServer = << >>
  /\ \A m \in Sent(toServer) :
       m.type \in {"CERTIFICATE", "CLIENT_KEY_EXCHANGE", "CERTIFICATE_VERIFY"}
         => ~srv.hit

LEMMA Reach ==
  ASSUME Sound, Streams
  PROVE  Reached
<1> USE DEF Sound
<1>1. /\ ClientHeard \in 0 .. 9 /\ ClientSaid \in 0 .. 8
      /\ ServerSaid \in 0 .. 9 /\ ServerHeard \in 0 .. 7
  BY ClientTable, ServerTable DEF ClientPlace, ServerPlace
<1>2. toClient \in Seq(Messages) /\ toServer \in Seq(Messages)
  BY DEF WireTypeOK
<1> DEFINE te == TicketDue
           sd == cli.certReq = "send"
           cr == cli.certReq # "no"
<1>3. /\ ServerFlow(srv.hit, srv.statusExpected, srv.certRequest, te,
                    ClientHeard, toClient, ServerSaid)
      /\ ClientFlow(srv.hit, cr, sd, cli.npnSeen, ServerHeard, toServer,
                    ClientSaid)
  BY DEF Streams, ToClientFlow, ToServerFlow
<1> HIDE DEF te, sd, cr
<1>4. /\ ClientHeard <= ServerSaid
      /\ \A m \in Sent(toClient) :
           /\ ServerRank(m.type) <= ServerSaid
           /\ ClientHeard < ServerRank(m.type) \/ m.type = "HELLO_REQUEST"
      /\ ClientHeard = ServerSaid /\ ClientHeard # 9 => toClient = << >>
  BY <1>1, <1>2, <1>3, ServerFlowBounds
<1>5. ServerHeard \in 0 .. 8
  BY <1>1
<1>6. /\ ServerHeard <= ClientSaid
      /\ \A m \in Sent(toServer) :
           ServerHeard < ClientRank(m) /\ ClientRank(m) <= ClientSaid
      /\ ServerHeard = ClientSaid <=> toServer = << >>
  BY <1>2, <1>3, <1>5, ClientFlowBounds
<1>7. ASSUME NEW m \in Sent(toServer),
             m.type \in {"CERTIFICATE", "CLIENT_KEY_EXCHANGE",
                         "CERTIFICATE_VERIFY"}
      PROVE  ~srv.hit
  <2>1. PICK i \in 1 .. Len(toServer) : m = toServer[i]
    BY DEF Sent
  <2>2. ClientNext(srv.hit, cr, sd, cli.npnSeen,
          IF i = 1 THEN ServerHeard ELSE ClientRank(toServer[i - 1]), m)
    BY <1>3, <2>1 DEF ClientFlow
  <2> QED BY <1>7, <2>2 DEF ClientNext
<1>8. /\ \A m \in Sent(toClient) : ServerRank(m.type) \in 1 .. 9
      /\ \A m \in Sent(toServer) : ClientRank(m) \in 1 .. 8
  BY ServerRankType, ClientRankType
<1> QED BY <1>1, <1>4, <1>6, <1>7, <1>8 DEF Reached

(* One setting at a time.                                                  *)
LEMMA ServerFlowTicket ==
  ASSUME NEW w \in Seq(Messages), NEW p \in 0 .. 9, NEW q,
         NEW hit, NEW st, NEW cr,
         NEW te, NEW te2,
         ServerFlow(hit, st, cr, te, p, w, q),
         te2 = te \/ q <= 6 \/ p >= 8
  PROVE  ServerFlow(hit, st, cr, te2, p, w, q)
BY ServerFlowSettings

LEMMA ServerFlowRequest ==
  ASSUME NEW w \in Seq(Messages), NEW p \in 0 .. 9, NEW q,
         NEW hit, NEW st, NEW cr,
         NEW te, NEW cr2,
         ServerFlow(hit, st, cr, te, p, w, q),
         cr2 = cr \/ hit \/ q <= 4 \/ p >= 6
  PROVE  ServerFlow(hit, st, cr2, te, p, w, q)
BY ServerFlowSettings

(* A step of one endpoint leaves where the other is.                       *)
LEMMA ServerKept ==
  ASSUME UNCHANGED serverVars
  PROVE  /\ ServerHeard' = ServerHeard /\ ServerSaid' = ServerSaid
         /\ ServerIdle' <=> ServerIdle
         /\ ServerFirstHandshake' <=> ServerFirstHandshake
         /\ srv' = srv /\ srvSess' = srvSess
BY DEF serverVars, ServerHeard, ServerSaid, ServerIdle, ServerFirstHandshake

LEMMA ClientKept ==
  ASSUME UNCHANGED clientVars
  PROVE  /\ ClientHeard' = ClientHeard /\ ClientSaid' = ClientSaid
         /\ Renewing' <=> Renewing
         /\ Established' <=> Established
         /\ cli' = cli /\ cliSess' = cliSess /\ cliCfg' = cliCfg
BY DEF clientVars, ClientHeard, ClientSaid, Renewing, ClientFirstHandshake,
       Established

(* What the flags are.                                                     *)
LEMMA Flags ==
  ASSUME Sound
  PROVE  /\ srv.hit \in BOOLEAN /\ srv.statusExpected \in BOOLEAN
         /\ srv.certRequest \in BOOLEAN /\ srv.ticketExpected \in BOOLEAN
         /\ srv.npnSeen \in BOOLEAN /\ srv.wkey \in Nat /\ srv.rkey \in Nat
         /\ cli.hit \in BOOLEAN /\ cli.npnSeen \in BOOLEAN
         /\ cli.ticketExpected \in BOOLEAN /\ cli.statusExpected \in BOOLEAN
         /\ TicketDue \in BOOLEAN /\ cli.wkey \in Nat /\ cli.rkey \in Nat
         /\ toClient \in Seq(Messages) /\ toServer \in Seq(Messages)
BY DEF Sound, ClientTypeOK, ServerTypeOK, WireTypeOK, ClientStates,
       ServerStates, TicketDue

LEMMA FlagsNext ==
  ASSUME Sound'
  PROVE  /\ srv'.hit \in BOOLEAN /\ srv'.statusExpected \in BOOLEAN
         /\ srv'.certRequest \in BOOLEAN /\ srv'.ticketExpected \in BOOLEAN
         /\ srv'.npnSeen \in BOOLEAN /\ cli'.npnSeen \in BOOLEAN
         /\ TicketDue' \in BOOLEAN
         /\ toClient' \in Seq(Messages) /\ toServer' \in Seq(Messages)
BY DEF Sound, ClientTypeOK, ServerTypeOK, WireTypeOK, ClientStates,
       ServerStates, TicketDue

-----------------------------------------------------------------------------
(* What a step does to the two streams.                                    *)

LEMMA ToClientKept ==
  ASSUME Sound, Sound', ToClientFlow,
         UNCHANGED <<toClient, ClientHeard, ServerSaid>>,
         UNCHANGED <<srv.hit, srv.statusExpected>> \/ ClientHeard = ServerSaid,
         \/ UNCHANGED srv.certRequest \/ srv.hit
         \/ ServerSaid <= 4 \/ ClientHeard >= 6,
         TicketDue' = TicketDue \/ ServerSaid <= 6 \/ ClientHeard >= 8
  PROVE  ToClientFlow'
<1> DEFINE te == TicketDue
<1>1. /\ te \in BOOLEAN /\ srv.hit \in BOOLEAN /\ srv.statusExpected \in BOOLEAN
      /\ srv.certRequest \in BOOLEAN /\ toClient \in Seq(Messages)
  BY Flags
<1>2. /\ te' \in BOOLEAN /\ srv'.hit \in BOOLEAN
      /\ srv'.statusExpected \in BOOLEAN /\ srv'.certRequest \in BOOLEAN
  BY FlagsNext
<1>3. ServerFlow(srv.hit, srv.statusExpected, srv.certRequest, te,
                 ClientHeard, toClient, ServerSaid)
  BY DEF ToClientFlow
<1>4. ClientHeard \in 0 .. 9
  BY ClientTable DEF Sound, ClientPlace
<1>5. te' = te \/ ServerSaid <= 6 \/ ClientHeard >= 8
  OBVIOUS
<1> HIDE DEF te
<1>6. ServerFlow(srv'.hit, srv'.statusExpected, srv'.certRequest, te',
                 ClientHeard, toClient, ServerSaid)
  BY <1>1, <1>2, <1>3, <1>4, <1>5, ServerFlowSettings
<1> QED BY <1>6 DEF ToClientFlow, te

LEMMA ToServerKept ==
  ASSUME Sound, Sound', ToServerFlow,
         UNCHANGED <<toServer, ServerHeard, ClientSaid>>,
         UNCHANGED <<srv.hit, cli.npnSeen>> \/ ServerHeard = ClientSaid,
         UNCHANGED cli.certReq \/ srv.hit \/ ServerHeard = ClientSaid
  PROVE  ToServerFlow'
<1> DEFINE sd == cli.certReq = "send"
           cr == cli.certReq # "no"
<1>1. /\ srv.hit \in BOOLEAN /\ cli.npnSeen \in BOOLEAN
      /\ toServer \in Seq(Messages)
      /\ srv'.hit \in BOOLEAN /\ cli'.npnSeen \in BOOLEAN
  BY Flags, FlagsNext
<1>2. sd \in BOOLEAN /\ cr \in BOOLEAN /\ sd' \in BOOLEAN /\ cr' \in BOOLEAN
  OBVIOUS
<1>3. ClientFlow(srv.hit, cr, sd, cli.npnSeen, ServerHeard, toServer,
                 ClientSaid)
  BY DEF ToServerFlow
<1>4. ServerHeard \in 0 .. 8
  BY ServerTable DEF Sound, ServerPlace
<1>5. (cr' = cr /\ sd' = sd) \/ srv.hit \/ ServerHeard = ClientSaid
  OBVIOUS
<1> HIDE DEF sd, cr
<1>6. ClientFlow(srv'.hit, cr', sd', cli'.npnSeen, ServerHeard, toServer,
                 ClientSaid)
  BY <1>1, <1>2, <1>3, <1>4, <1>5, ClientFlowSettings
<1> QED BY <1>6 DEF ToServerFlow, sd, cr

(* A server whose ticket request or ticket flag changes while it writes is *)
(* past, or not yet at, what depends on it.                                *)
LEMMA ToClientWritten ==
  ASSUME Sound, Sound', ToClientFlow, NEW m \in Messages,
         toClient' = Append(toClient, m),
         ClientHeard' = ClientHeard, ServerSaid' = ServerRank(m.type),
         UNCHANGED <<srv.hit, srv.statusExpected>>,
         \/ UNCHANGED srv.certRequest \/ srv.hit
         \/ ServerSaid <= 4 \/ ClientHeard >= 6,
         TicketDue' = TicketDue \/ ServerSaid <= 6 \/ ClientHeard >= 8,
         ServerNext(srv.hit, srv.statusExpected, srv'.certRequest, TicketDue',
                    ServerSaid, m.type)
  PROVE  ToClientFlow'
<1> DEFINE te == TicketDue
<1>1. /\ te \in BOOLEAN /\ srv.hit \in BOOLEAN /\ srv.statusExpected \in BOOLEAN
      /\ srv.certRequest \in BOOLEAN /\ toClient \in Seq(Messages)
      /\ te' \in BOOLEAN /\ srv'.certRequest \in BOOLEAN
  BY Flags, FlagsNext
<1>2. ServerFlow(srv.hit, srv.statusExpected, srv.certRequest, te,
                 ClientHeard, toClient, ServerSaid)
  BY DEF ToClientFlow
<1>3. ClientHeard \in 0 .. 9
  BY ClientTable DEF Sound, ClientPlace
<1>4. te' = te \/ ServerSaid <= 6 \/ ClientHeard >= 8
  OBVIOUS
<1>5. ServerNext(srv.hit, srv.statusExpected, srv'.certRequest, te',
                 ServerSaid, m.type)
  OBVIOUS
<1> HIDE DEF te
<1>6. ServerFlow(srv.hit, srv.statusExpected, srv'.certRequest, te',
                 ClientHeard, toClient, ServerSaid)
  BY <1>1, <1>2, <1>3, <1>4, ServerFlowSettings
<1>7. ServerFlow(srv.hit, srv.statusExpected, srv'.certRequest, te',
                 ClientHeard, Append(toClient, m), ServerRank(m.type))
  BY <1>1, <1>3, <1>5, <1>6, ServerFlowAppend
<1> QED BY <1>7 DEF ToClientFlow, te

LEMMA ToServerWritten ==
  ASSUME Sound, Sound', ToServerFlow, NEW m \in Messages,
         toServer' = Append(toServer, m),
         ServerHeard' = ServerHeard, ClientSaid' = ClientRank(m),
         UNCHANGED <<srv.hit, cli.npnSeen>>,
         UNCHANGED cli.certReq \/ srv.hit \/ ServerHeard = ClientSaid,
         ClientNext(srv.hit, cli'.certReq # "no", cli'.certReq = "send",
                    cli.npnSeen, ClientSaid, m)
  PROVE  ToServerFlow'
<1> DEFINE sd == cli.certReq = "send"
           cr == cli.certReq # "no"
<1>1. /\ srv.hit \in BOOLEAN /\ cli.npnSeen \in BOOLEAN
      /\ toServer \in Seq(Messages)
  BY Flags
<1>2. sd \in BOOLEAN /\ cr \in BOOLEAN /\ sd' \in BOOLEAN /\ cr' \in BOOLEAN
  OBVIOUS
<1>3. ClientFlow(srv.hit, cr, sd, cli.npnSeen, ServerHeard, toServer,
                 ClientSaid)
  BY DEF ToServerFlow
<1>4. ServerHeard \in 0 .. 8
  BY ServerTable DEF Sound, ServerPlace
<1>5. (cr' = cr /\ sd' = sd) \/ srv.hit \/ ServerHeard = ClientSaid
  OBVIOUS
<1>6. ClientNext(srv.hit, cr', sd', cli.npnSeen, ClientSaid, m)
  OBVIOUS
<1> HIDE DEF sd, cr
<1>7. ClientFlow(srv.hit, cr', sd', cli.npnSeen, ServerHeard, toServer,
                 ClientSaid)
  BY <1>1, <1>2, <1>3, <1>4, <1>5, ClientFlowSettings
<1>8. ClientFlow(srv.hit, cr', sd', cli.npnSeen, ServerHeard,
                 Append(toServer, m), ClientRank(m))
  BY <1>1, <1>4, <1>6, <1>7, ClientFlowAppend
<1> QED BY <1>8 DEF ToServerFlow, sd, cr

LEMMA ToClientRead ==
  ASSUME Sound, Sound', ToClientFlow, toClient # << >>,
         toClient' = Tail(toClient), ServerSaid' = ServerSaid,
         ClientHeard' = ServerRank(ClientInput.type), srv' = srv,
         \/ TicketDue' = TicketDue \/ ServerSaid <= 6
         \/ ServerRank(ClientInput.type) >= 8
  PROVE  ToClientFlow'
<1> DEFINE te == TicketDue
           p == ServerRank(ClientInput.type)
<1>1. /\ te \in BOOLEAN /\ srv.hit \in BOOLEAN /\ srv.statusExpected \in BOOLEAN
      /\ srv.certRequest \in BOOLEAN /\ toClient \in Seq(Messages)
      /\ te' \in BOOLEAN /\ Tail(toClient) \in Seq(Messages)
  BY Flags, FlagsNext
<1>2. ServerFlow(srv.hit, srv.statusExpected, srv.certRequest, te,
                 ClientHeard, toClient, ServerSaid)
  BY DEF ToClientFlow
<1>3. p \in 0 .. 9
  BY ServerRankType
<1>4. te' = te \/ ServerSaid <= 6 \/ p >= 8
  OBVIOUS
<1> HIDE DEF te
<1>5. ServerFlow(srv.hit, srv.statusExpected, srv.certRequest, te, p,
                 Tail(toClient), ServerSaid)
  BY <1>1, <1>2, ServerFlowTail DEF ClientInput
<1> HIDE DEF p
<1>6. ServerFlow(srv.hit, srv.statusExpected, srv.certRequest, te', p,
                 Tail(toClient), ServerSaid)
  BY <1>1, <1>3, <1>4, <1>5, ServerFlowTicket
<1> QED BY <1>6 DEF ToClientFlow, te, p

LEMMA ToServerRead ==
  ASSUME Sound, Sound', ToServerFlow, toServer # << >>,
         toServer' = Tail(toServer), ClientSaid' = ClientSaid,
         ServerHeard' = ClientRank(ServerInput), cli' = cli,
         srv'.hit = srv.hit \/ ClientRank(ServerInput) = ClientSaid
  PROVE  ToServerFlow'
<1> DEFINE sd == cli.certReq = "send"
           cr == cli.certReq # "no"
           p == ClientRank(ServerInput)
<1>1. /\ srv.hit \in BOOLEAN /\ cli.npnSeen \in BOOLEAN
      /\ toServer \in Seq(Messages) /\ srv'.hit \in BOOLEAN
      /\ Tail(toServer) \in Seq(Messages)
  BY Flags, FlagsNext
<1>2. sd \in BOOLEAN /\ cr \in BOOLEAN
  OBVIOUS
<1>3. ClientFlow(srv.hit, cr, sd, cli.npnSeen, ServerHeard, toServer,
                 ClientSaid)
  BY DEF ToServerFlow
<1>4. p \in 0 .. 8
  BY ClientRankType
<1> HIDE DEF sd, cr
<1>5. ClientFlow(srv.hit, cr, sd, cli.npnSeen, p, Tail(toServer), ClientSaid)
  BY <1>1, <1>3, ClientFlowTail DEF ServerInput
<1>6. srv'.hit = srv.hit \/ p = ClientSaid
  OBVIOUS
<1> HIDE DEF p
<1>7. ClientFlow(srv'.hit, cr, sd, cli.npnSeen, p, Tail(toServer), ClientSaid)
  <2>1. CASE srv'.hit = srv.hit
    BY <1>5, <2>1
  <2>2. CASE p = ClientSaid
    <3>1. Tail(toServer) = << >>
      BY <1>1, <1>4, <1>5, <2>2, ClientFlowBounds
    <3> QED BY <2>2, <3>1, FlowNone
  <2> QED BY <1>6, <2>1, <2>2
<1> QED BY <1>7 DEF ToServerFlow, sd, cr, p

(* What can be read next.                                                  *)
LEMMA NextInput ==
  ASSUME Sound, Streams
  PROVE  /\ toClient # << >> =>
              ServerNext(srv.hit, srv.statusExpected, srv.certRequest,
                         TicketDue, ClientHeard, ClientInput.type)
         /\ toServer # << >> =>
              ClientNext(srv.hit, cli.certReq # "no", cli.certReq = "send",
                         cli.npnSeen, ServerHeard, ServerInput)
<1>1. toClient \in Seq(Messages) /\ toServer \in Seq(Messages)
  BY Flags
<1>2. toClient # << >> =>
        ServerNext(srv.hit, srv.statusExpected, srv.certRequest,
                   TicketDue, ClientHeard, ClientInput.type)
  <2> DEFINE te == TicketDue
  <2>1. ServerFlow(srv.hit, srv.statusExpected, srv.certRequest, te,
                   ClientHeard, toClient, ServerSaid)
    BY DEF Streams, ToClientFlow
  <2> HIDE DEF te
  <2>2. toClient # << >> =>
          ServerNext(srv.hit, srv.statusExpected, srv.certRequest,
                     te, ClientHeard, ClientInput.type)
    BY <1>1, <2>1, ServerFlowTail DEF ClientInput
  <2> QED BY <2>2 DEF te
<1>3. toServer # << >> =>
        ClientNext(srv.hit, cli.certReq # "no", cli.certReq = "send",
                   cli.npnSeen, ServerHeard, ServerInput)
  <2> DEFINE sd == cli.certReq = "send"
             cr == cli.certReq # "no"
  <2>1. ClientFlow(srv.hit, cr, sd, cli.npnSeen, ServerHeard, toServer,
                   ClientSaid)
    BY DEF Streams, ToServerFlow
  <2> HIDE DEF sd, cr
  <2>2. toServer # << >> =>
          ClientNext(srv.hit, cr, sd, cli.npnSeen, ServerHeard, ServerInput)
    BY <1>1, <2>1, ClientFlowTail DEF ServerInput
  <2> QED BY <2>2 DEF sd, cr
<1> QED BY <1>2, <1>3

-----------------------------------------------------------------------------
(* Steps of the client on an alive connection.                             *)

LEMMA ClientQuietAlive ==
  ASSUME Sound, Sound', AliveInv, UNCHANGED serverVars, ClientQuiet
  PROVE  AliveInv'
<1> USE DEF AliveInv
<1>1. Reached
  BY Reach
<1>2. /\ UNCHANGED <<cliSess, cliCfg, toClient, toServer, ClientHeard,
                     ClientSaid>>
      /\ UNCHANGED <<cli.hit, cli.npnSeen, cli.statusExpected, cli.newCipher,
                     cli.certReq, cli.rkey, cli.wkey>>
      /\ Renewing' <=> Renewing
      /\ cli'.ticketExpected = cli.ticketExpected \/ ClientHeard = 9
  BY DEF ClientQuiet, ClientDeal
<1>3. Streams'
  <2>1. TicketDue' = TicketDue \/ ClientHeard = 9
    BY <1>2, ServerKept DEF TicketDue
  <2>2. ToClientFlow'
    BY <1>2, <2>1, ServerKept, ToClientKept DEF Streams
  <2>3. ToServerFlow'
    BY <1>2, ServerKept, ToServerKept DEF Streams
  <2> QED BY <1>2, <2>2, <2>3, ServerKept DEF Streams
<1>4. OneHandshake' /\ HelloAgreed'
  BY <1>2, ServerKept DEF OneHandshake, HelloAgreed
<1>5. CertAgreed' /\ KeysAgreed'
  BY <1>2, ServerKept DEF CertAgreed, KeysAgreed
<1>6. SecretsAgreed'
  BY <1>2, ServerKept DEF SecretsAgreed, Dropped
<1> QED BY <1>3, <1>4, <1>5, <1>6

LEMMA ClientOpensAlive ==
  ASSUME Sound, Sound', AliveInv, UNCHANGED serverVars,
         NEW m \in Messages, ClientOffers(m), ClientOpens(m)
  PROVE  AliveInv'
<1> USE DEF AliveInv
<1>1. /\ toServer' = Append(toServer, m) /\ toClient' = toClient
      /\ m.type = "CLIENT_HELLO" /\ m.key = 0
      /\ ~cli'.hit /\ cli'.certReq = "no"
      /\ UNCHANGED <<cli.npnSeen, cli.statusExpected, cli.newCipher, cli.rkey,
                     cli.wkey, cli.ticketExpected, cliCfg>>
      /\ UNCHANGED <<cliSess.sid, cliSess.ticket>>
      /\ ClientSaid = 0 /\ ClientHeard = 0 /\ ClientSaid' = 1 /\ ClientHeard' = 0
      /\ m.sid = cliSess.sid /\ m.ticket \in {NoTicket, cliSess.ticket}
  BY DEF ClientOffers, ClientOpens
<1>2. Reached /\ ServerPlace
  BY Reach, ServerTable DEF Sound
<1>3. ServerHeard = 0 /\ ~srv.hit /\ toServer = << >>
  BY <1>1, <1>2 DEF Reached, ServerPlace
<1>4. cli.certReq = "no"
  BY <1>1 DEF Sound, ClientLocal, ClientOpens
<1>5. ClientRank(m) = 1
  BY <1>1 DEF ClientRank
<1>6. Sent(toServer') = {m}
  <2>1. Sent(toServer') = Sent(toServer) \cup {m}
    BY <1>1, SentAppend, Flags
  <2> QED BY <1>3, <2>1, SentNone
<1>7. Streams'
  <2>1. TicketDue' = TicketDue
    BY <1>1, ServerKept DEF TicketDue
  <2>2. ToClientFlow'
    BY <1>1, <2>1, ServerKept, ToClientKept DEF Streams
  <2>3. ClientNext(srv.hit, cli'.certReq # "no", cli'.certReq = "send",
                   cli.npnSeen, ClientSaid, m)
    BY <1>1 DEF ClientNext
  <2>4. ToServerFlow'
    BY <1>1, <1>4, <1>5, <2>3, ServerKept, ToServerWritten DEF Streams
  <2> QED BY <1>1, <2>2, <2>4, ServerKept DEF Streams
<1>8. OneHandshake' /\ HelloAgreed'
  BY <1>1, ServerKept DEF OneHandshake, HelloAgreed
<1>9. CertAgreed'
  BY <1>1, <1>3, <1>4, <1>6, ServerKept DEF CertAgreed
<1>10. KeysAgreed'
  BY <1>1, <1>3, <1>5, <1>6, ServerKept DEF KeysAgreed, ClientOpens
<1>11. SecretsAgreed'
  BY <1>1, <1>3, <1>6, ServerKept DEF SecretsAgreed
<1> QED BY <1>7, <1>8, <1>9, <1>10, <1>11

LEMMA ClientRenewsAlive ==
  ASSUME Sound, Sound', AliveInv, UNCHANGED serverVars,
         NEW m \in Messages, ClientOffers(m), ClientRenews(m)
  PROVE  AliveInv'
<1> USE DEF AliveInv
<1>1. /\ toServer' = Append(toServer, m) /\ toClient' = toClient
      /\ m.type = "CLIENT_HELLO" /\ m.key # 0 /\ m.key = cli.wkey
      /\ cli'.certReq = "no"
      /\ UNCHANGED <<cli.npnSeen, cli.statusExpected, cli.newCipher, cli.rkey,
                     cli.wkey, cli.ticketExpected, cliCfg>>
      /\ cliSess'.sid = cliSess.sid
      /\ cliSess' = IF cliSess.sid = NoSid THEN NoClientSession ELSE cliSess
      /\ ~Renewing /\ Renewing'
      /\ ClientSaid = 7 /\ ClientHeard = 9 /\ ClientSaid' = 8 /\ ClientHeard' = 9
  BY DEF ClientOffers, ClientRenews
<1>2. Reached /\ ServerPlace
  BY Reach, ServerTable DEF Sound
<1>3. /\ ServerSaid = 9 /\ ServerHeard >= 1 /\ ServerHeard \notin 2 .. 4
      /\ ServerHeard = 7 \/ srv.hit
  BY <1>1, <1>2 DEF Reached, ServerPlace
<1>4. ClientRank(m) = 8
  BY <1>1 DEF ClientRank
<1>5. Sent(toServer') = Sent(toServer) \cup {m}
  BY <1>1, SentAppend, Flags
<1>6. \A x \in Sent(toServer) :
        x.type # "CLIENT_KEY_EXCHANGE" /\ ~(x.type = "CLIENT_HELLO" /\ x.key = 0)
  BY <1>2, <1>3 DEF Reached, ClientRank
<1>7. Streams'
  <2>1. TicketDue' = TicketDue
    BY <1>1, ServerKept DEF TicketDue
  <2>2. ToClientFlow'
    BY <1>1, <2>1, ServerKept, ToClientKept DEF Streams
  <2>3. ClientNext(srv.hit, cli'.certReq # "no", cli'.certReq = "send",
                   cli.npnSeen, ClientSaid, m)
    BY <1>1 DEF ClientNext
  <2>4. ToServerFlow'
    BY <1>1, <1>3, <1>4, <2>3, ServerKept, ToServerWritten DEF Streams
  <2> QED BY <1>1, <2>2, <2>4, ServerKept DEF Streams
<1>8. OneHandshake' /\ HelloAgreed'
  BY <1>1, ServerKept DEF OneHandshake, HelloAgreed
<1>9. CertAgreed'
  BY <1>1, <1>3, <1>5, ServerKept DEF CertAgreed
<1>10. KeysAgreed'
  <2>1. cli.hand \in {"OK", "CR_HELLO_REQ"} /\ cli.flow # "ERROR"
    BY <1>1 DEF ClientOffers, ClientRenews, Established
  <2>2. cli.wkey = cli.rkey
    BY <2>1 DEF Sound, ClientInv, ClientKeys, ClientSettled, ClientReadSwitched,
                ClientWriteSwitched
  <2> QED BY <1>1, <1>4, <1>5, <2>2, ServerKept DEF KeysAgreed
<1>11. SecretsAgreed'
  BY <1>1, <1>5, <1>6, ServerKept DEF SecretsAgreed, Dropped
<1> QED BY <1>7, <1>8, <1>9, <1>10, <1>11

LEMMA ClientWritesAlive ==
  ASSUME Sound, Sound', AliveInv, UNCHANGED serverVars,
         NEW m \in Messages, ClientWrites(m)
  PROVE  AliveInv'
<1> USE DEF AliveInv
<1>1. /\ toServer' = Append(toServer, m) /\ toClient' = toClient
      /\ m.key = cli.wkey
      /\ ClientNext(cli.hit, cli.certReq # "no", cli.certReq = "send",
                    cli.npnSeen, ClientSaid, m)
      /\ ClientSaid' = ClientRank(m) /\ ClientHeard' = ClientHeard
      /\ ~Renewing /\ ~Renewing' /\ ClientSaid >= 1
      /\ UNCHANGED <<cli.hit, cli.npnSeen, cli.statusExpected, cli.newCipher,
                     cli.certReq, cli.rkey, cli.ticketExpected, cliCfg>>
      /\ UNCHANGED <<cliSess.sid, cliSess.ticket>>
  BY DEF ClientWrites, ClientDeal
<1>2. /\ m.type \in {"CERTIFICATE", "CLIENT_KEY_EXCHANGE", "CERTIFICATE_VERIFY",
                     "CHANGE_CIPHER_SPEC", "NEXT_PROTO", "FINISHED"}
      /\ m.type = "CERTIFICATE" =>
           m.chain = IF cli.certReq = "none" THEN "empty" ELSE cliCfg.chain
      /\ IF m.type = "CLIENT_KEY_EXCHANGE"
           THEN m.secret = cliSess'.ms
           ELSE cliSess'.ms = cliSess.ms
      /\ IF m.type = "CHANGE_CIPHER_SPEC"
           THEN cliSess'.cipher = cli.newCipher /\ cli'.wkey = cliSess.ms
           ELSE cliSess'.cipher = cliSess.cipher /\ cli'.wkey = cli.wkey
  BY DEF ClientWrites
<1>3. Reached /\ ServerPlace /\ ClientPlace /\ ClientPlace'
  BY Reach, ServerTable, ClientTable, ClientTableNext DEF Sound
<1>4. /\ ClientRank(m) \in 2 .. 7
      /\ ClientRank(m) = 2 <=> m.type = "CERTIFICATE"
      /\ ClientRank(m) = 3 <=> m.type = "CLIENT_KEY_EXCHANGE"
      /\ ClientRank(m) = 5 <=> m.type = "CHANGE_CIPHER_SPEC"
  BY <1>2 DEF ClientRank
<1>5. ClientHeard >= 6
  BY <1>1, <1>3, <1>4 DEF ClientPlace
<1>6. cli.hit = srv.hit /\ cli.newCipher = srv.newCipher
  BY <1>1, <1>3, <1>5 DEF HelloAgreed, ClientPlace
<1>7. Sent(toServer') = Sent(toServer) \cup {m}
  BY <1>1, SentAppend, Flags
<1>8. ClientSaid \in 0 .. 8 /\ ClientSaid < ClientRank(m)
  BY <1>1, <1>3, ClientNextRank DEF ClientPlace
<1>9. Streams'
  <2>1. TicketDue' = TicketDue
    BY <1>1, ServerKept DEF TicketDue
  <2>2. ToClientFlow'
    BY <1>1, <2>1, ServerKept, ToClientKept DEF Streams
  <2>3. ClientNext(srv.hit, cli'.certReq # "no", cli'.certReq = "send",
                   cli.npnSeen, ClientSaid, m)
    BY <1>1, <1>6
  <2>4. ToServerFlow'
    BY <1>1, <2>3, ServerKept, ToServerWritten DEF Streams
  <2> QED BY <1>1, <2>2, <2>4, ServerKept DEF Streams
<1>10. OneHandshake' /\ HelloAgreed'
  BY <1>1, ServerKept DEF OneHandshake, HelloAgreed
<1>11. CertAgreed'
  <2>1. m.type = "CERTIFICATE" => cli.certReq # "no"
    BY <1>1 DEF ClientNext
  <2>2. m.type = "CERTIFICATE" => m.chain = cliCfg.chain
    BY <1>2, <2>1 DEF CertAgreed
  <2> QED BY <1>1, <1>7, <2>2, ServerKept DEF CertAgreed
<1>12. KeysAgreed'
  <2>1. \A x \in Sent(toServer) : ClientRank(x) \in 1 .. 8 /\ ClientRank(x) <= ClientSaid
    BY <1>3 DEF Reached
  <2>2. ServerHeard \in 0 .. 7 /\ ServerHeard <= ClientSaid
    BY <1>3 DEF Reached
  <2>3. ClientRank(m) <= 5 => cli.wkey = 0
    BY <1>4, <1>8 DEF KeysAgreed
  <2>4. ASSUME NEW x \in Sent(toServer')
        PROVE  x.key = IF ClientRank(x) <= 5 THEN 0 ELSE cli'.wkey
    <3>1. CASE x = m
      BY <1>1, <1>2, <1>4, <2>3, <3>1
    <3>2. CASE x \in Sent(toServer)
      <4>1. x.key = IF ClientRank(x) <= 5 THEN 0 ELSE cli.wkey
        BY <3>2 DEF KeysAgreed
      <4> QED BY <1>2, <1>4, <1>8, <2>1, <3>2, <4>1
    <3> QED BY <1>7, <3>1, <3>2
  <2>5. ClientSaid' <= 4 => cli'.wkey = 0
    BY <1>1, <1>2, <1>4, <1>8 DEF KeysAgreed
  <2>6. ServerHeard >= 5 => srv.rkey = cli'.wkey
    BY <1>2, <1>4, <1>8, <2>2 DEF KeysAgreed
  <2> QED BY <1>1, <2>4, <2>5, <2>6, ServerKept DEF KeysAgreed
<1>13. SecretsAgreed'
  <2>1. \A x \in Sent(toServer) :
          x.type = "CLIENT_KEY_EXCHANGE" => ClientRank(x) = 3
    BY DEF ClientRank
  <2>2. \A x \in Sent(toServer) : ClientRank(x) \in 1 .. 8 /\ ClientRank(x) <= ClientSaid
    BY <1>3 DEF Reached
  <2>3. ASSUME NEW x \in Sent(toServer')
        PROVE  /\ x.type = "CLIENT_KEY_EXCHANGE" => x.secret = cliSess'.ms
               /\ x.type = "CLIENT_HELLO" /\ x.key = 0 =>
                    /\ x.sid = cliSess'.sid
                    /\ x.ticket \in {NoTicket, cliSess'.ticket}
    <3>1. CASE x = m
      BY <1>2, <3>1
    <3>2. CASE x \in Sent(toServer)
      BY <1>1, <1>2, <1>4, <1>8, <2>1, <2>2, <3>2 DEF SecretsAgreed
    <3> QED BY <1>7, <3>1, <3>2
  <2>4. ServerHeard >= 3 => cliSess'.ms = cliSess.ms
    BY <1>2, <1>3, <1>4, <1>8 DEF Reached
  <2>5. srv.hit => m.type # "CLIENT_KEY_EXCHANGE"
    BY <1>1, <1>6 DEF ClientNext
  <2>6. srv.hit => srvSess.cipher = cli.newCipher
    BY <1>6 DEF Sound, ServerLocal
  <2>7. srv.hit => cliSess'.ms = cliSess.ms /\ cliSess'.cipher = srvSess.cipher
    BY <1>2, <2>5, <2>6 DEF SecretsAgreed
  <2>8. ClientHeard # 0
    BY <1>3, <1>5 DEF ClientPlace
  <2> QED BY <1>1, <2>3, <2>4, <2>7, <2>8, ServerKept DEF SecretsAgreed, Dropped
<1> QED BY <1>9, <1>10, <1>11, <1>12, <1>13

LEMMA ClientHearsHelloAlive ==
  ASSUME Sound, Sound', AliveInv, UNCHANGED serverVars, ClientHearsHello
  PROVE  AliveInv'
<1> USE DEF AliveInv
<1> DEFINE m == ClientInput
<1>1. /\ toClient # << >> /\ toClient' = Tail(toClient) /\ toServer' = toServer
      /\ m.type = "SERVER_HELLO" /\ cli.hand = "CW_CLNT_HELLO"
      /\ ClientSaid' = 1 /\ ClientHeard' = 1 /\ ~Renewing'
      /\ cli'.hit = (m.sid # NoSid /\ m.sid = cliSess.sid)
      /\ cli'.newCipher = m.suite
      /\ cli'.ticketExpected = ("ticket" \in m.ext)
      /\ cli'.statusExpected = (cli.statusExpected \/ "status" \in m.ext)
      /\ cli'.npnSeen = ("npn" \in m.ext)
      /\ UNCHANGED <<cli.certReq, cli.rkey, cli.wkey, cliCfg>>
      /\ cli'.hit => cliSess' = cliSess
  BY DEF ClientHearsHello, ServerHelloHit, SessionAfterServerHello
<1>2. Reached /\ ServerPlace /\ ClientPlace
  BY Reach, ServerTable, ClientTable DEF Sound
<1>3. ServerNext(srv.hit, srv.statusExpected, srv.certRequest, TicketDue,
                 ClientHeard, m.type)
  BY <1>1, NextInput
<1>4. ClientHeard = 0 /\ ClientSaid = 1
  <2>1. ClientHeard = 0
    BY <1>1, <1>3 DEF ServerNext
  <2> QED BY <1>1, <2>1 DEF ClientHeard, ClientSaid
<1>5. Sent(toClient') \subseteq Sent(toClient) /\ m \in Sent(toClient)
  BY <1>1, SentTail, Flags DEF ClientInput
<1>6. ServerRank(m.type) = 1
  BY <1>1 DEF ServerRank
<1> HIDE DEF m
<1>7. ServerSaid >= 1 /\ ServerHeard = 1 /\ toServer = << >>
  BY <1>2, <1>4, <1>5, <1>6 DEF Reached, ServerPlace
<1>8. ~srv.hit => ServerSaid <= 6
  BY <1>7, <1>2 DEF ServerPlace
<1>9. /\ m.suite = srv.newCipher /\ m.sid = srvSess.sid
      /\ ("ticket" \in m.ext) = srv.ticketExpected
      /\ ("status" \in m.ext) = srv.statusExpected
      /\ ("npn" \in m.ext) = srv.npnSeen
  BY <1>1, <1>5 DEF HelloAgreed
<1>10. cli'.hit = srv.hit
  BY <1>1, <1>4, <1>7, <1>9 DEF SecretsAgreed
<1>11. Streams'
  <2>1. TicketDue' = TicketDue \/ ServerSaid <= 6
    BY <1>8, ServerKept DEF TicketDue
  <2>2. ToClientFlow'
    BY <1>1, <1>6, <2>1, ServerKept, ToClientRead DEF Streams, m
  <2>3. ToServerFlow'
    BY <1>1, <1>4, <1>7, ServerKept, ToServerKept DEF Streams
  <2> QED BY <1>5, <2>2, <2>3, ServerKept DEF Streams
<1>12. OneHandshake'
  BY ServerKept DEF OneHandshake
<1>13. HelloAgreed'
  BY <1>1, <1>5, <1>9, <1>10, ServerKept DEF HelloAgreed
<1>14. CertAgreed'
  BY <1>1, <1>4, ServerKept DEF CertAgreed
<1>15. KeysAgreed'
  BY <1>1, <1>4, <1>5, ServerKept DEF KeysAgreed
<1>16. Sent(toServer) = {}
  BY <1>7, SentNone
<1>17. SecretsAgreed'
  BY <1>1, <1>5, <1>7, <1>10, <1>16, ServerKept DEF SecretsAgreed, Dropped
<1> QED BY <1>11, <1>12, <1>13, <1>14, <1>15, <1>17

LEMMA ClientReadsAlive ==
  ASSUME Sound, Sound', AliveInv, UNCHANGED serverVars, ClientReads
  PROVE  AliveInv'
<1> USE DEF AliveInv
<1> DEFINE m == ClientInput
<1>1. /\ toClient # << >> /\ toClient' = Tail(toClient) /\ toServer' = toServer
      /\ m.type \in
           {"CERTIFICATE", "CERTIFICATE_STATUS", "SERVER_KEY_EXCHANGE",
            "CERTIFICATE_REQUEST", "SERVER_DONE", "NEWSESSION_TICKET",
            "CHANGE_CIPHER_SPEC", "FINISHED"}
      /\ ClientSaid' = ClientSaid /\ ClientHeard' = ServerRank(m.type)
      /\ ~Renewing /\ ~Renewing'
      /\ UNCHANGED <<cli.hit, cli.npnSeen, cli.statusExpected, cli.newCipher,
                     cli.wkey, cli.ticketExpected, cliCfg>>
      /\ cliSess'.ms = cliSess.ms
  BY DEF ClientReads, ClientDeal
<1>2. /\ cli'.certReq =
           IF m.type = "CERTIFICATE_REQUEST"
             THEN IF cliCfg.chain = "empty" THEN "none" ELSE "send"
             ELSE cli.certReq
      /\ IF m.type = "CHANGE_CIPHER_SPEC"
           THEN cliSess'.cipher = cli.newCipher /\ cli'.rkey = cliSess.ms
           ELSE cliSess'.cipher = cliSess.cipher /\ cli'.rkey = cli.rkey
      /\ cliSess.sid # NoSid => cliSess'.sid # NoSid
  BY DEF ClientReads, TicketSid, NoSid
<1>3. Reached /\ ServerPlace /\ ClientPlace
  BY Reach, ServerTable, ClientTable DEF Sound
<1>4. ServerNext(srv.hit, srv.statusExpected, srv.certRequest, TicketDue,
                 ClientHeard, m.type)
  BY <1>1, NextInput
<1>5. Sent(toClient') \subseteq Sent(toClient) /\ m \in Sent(toClient)
  BY <1>1, SentTail, Flags DEF ClientInput
<1> HIDE DEF m
<1>6. /\ ServerRank(m.type) \in 2 .. 9
      /\ ServerRank(m.type) = 5 <=> m.type = "CERTIFICATE_REQUEST"
      /\ ServerRank(m.type) = 6 <=> m.type = "SERVER_DONE"
      /\ ServerRank(m.type) = 8 <=> m.type = "CHANGE_CIPHER_SPEC"
      /\ ServerRank(m.type) = 9 <=> m.type = "FINISHED"
  BY <1>1 DEF ServerRank
<1>7. /\ ClientHeard \in 1 .. 8 /\ ClientHeard < ServerRank(m.type)
      /\ m.type = "CERTIFICATE_REQUEST" => ClientHeard = 4 /\ ~srv.hit
      /\ m.type = "FINISHED" => ClientHeard = 8
  <2>1. ClientHeard >= 1 /\ ClientHeard # 9
    BY <1>1, <1>3, <1>4 DEF ServerNext, ClientPlace
  <2>2. ClientHeard < ServerRank(m.type)
    BY <1>1, <1>3, <1>4, ServerNextRank DEF ClientPlace
  <2>3. /\ m.type = "CERTIFICATE_REQUEST" => ClientHeard = 4 /\ ~srv.hit
        /\ m.type = "FINISHED" => ClientHeard = 8
    BY <1>4 DEF ServerNext
  <2> QED BY <1>3, <2>1, <2>2, <2>3 DEF ClientPlace
<1>8. cli.hit = srv.hit /\ cli.newCipher = srv.newCipher
  BY <1>1, <1>7 DEF HelloAgreed
<1>9. /\ ServerSaid \in 2 .. 9 /\ ServerHeard \in 1 .. 7
      /\ ServerRank(m.type) <= ServerSaid
  BY <1>3, <1>5, <1>6 DEF Reached, ServerPlace
<1>10. m.type = "CERTIFICATE_REQUEST" => ClientSaid = 1 /\ ServerHeard = 1
  BY <1>1, <1>3, <1>7, <1>8, <1>9 DEF Reached, ClientPlace
<1>11. Streams'
  <2>1. TicketDue' = TicketDue
    BY <1>1, ServerKept DEF TicketDue
  <2>2. ToClientFlow'
    BY <1>1, <2>1, ServerKept, ToClientRead DEF Streams, m
  <2>3. ToServerFlow'
    BY <1>1, <1>2, <1>10, ServerKept, ToServerKept DEF Streams
  <2> QED BY <1>5, <2>2, <2>3, ServerKept DEF Streams
<1>12. OneHandshake'
  BY ServerKept DEF OneHandshake
<1>13. HelloAgreed'
  <2>1. ClientHeard' \in 1 .. 6 => ClientHeard \in 1 .. 6
    BY <1>1, <1>6, <1>7
  <2> QED BY <1>1, <1>5, <1>7, <2>1, ServerKept DEF HelloAgreed
<1>14. CertAgreed'
  <2>1. ClientHeard' <= 4 => cli'.certReq = "no"
    BY <1>1, <1>2, <1>6, <1>7 DEF CertAgreed
  <2>2. ClientHeard' = 5 => cli'.certReq # "no" /\ srv.certRequest
    BY <1>1, <1>2, <1>4, <1>6 DEF ServerNext
  <2>3. ClientHeard' = 6 => (cli'.certReq # "no") = srv.certRequest
    <3>1. m.type = "SERVER_DONE" =>
            ClientHeard = 5 \/ (ClientHeard = 4 /\ ~srv.certRequest)
      BY <1>4 DEF ServerNext
    <3> QED BY <1>1, <1>2, <1>6, <3>1, Flags DEF CertAgreed
  <2>4. cli'.certReq # "no" =>
          cli'.certReq = IF cliCfg.chain = "empty" THEN "none" ELSE "send"
    BY <1>2 DEF CertAgreed
  <2>5. ServerHeard \in 2 .. 4 =>
          (srvSess.peer # "none") = (cli'.certReq = "send")
    BY <1>2, <1>10 DEF CertAgreed
  <2> QED BY <1>1, <2>1, <2>2, <2>3, <2>4, <2>5, ServerKept DEF CertAgreed
<1>15. KeysAgreed'
  <2>1. ClientHeard' <= 7 => cli'.rkey = 0
    BY <1>1, <1>2, <1>6, <1>7 DEF KeysAgreed
  <2>2. ClientHeard' >= 8 => cli'.rkey = srv.wkey
    <3>1. CASE m.type = "CHANGE_CIPHER_SPEC"
      <4>1. ServerSaid >= 8
        BY <1>6, <1>9, <3>1
      <4>2. srv.wkey = srvSess.ms
        BY <4>1, ServerSwitched DEF Sound, ServerInv, Keys
      <4>3. srvSess.ms = cliSess.ms
        BY <1>1, <1>3, <4>1 DEF SecretsAgreed, Dropped, ServerPlace
      <4> QED BY <1>2, <3>1, <4>2, <4>3
    <3>2. CASE m.type = "FINISHED"
      BY <1>2, <1>7, <3>2 DEF KeysAgreed
    <3> QED BY <1>1, <1>6, <3>1, <3>2
  <2> QED BY <1>1, <1>5, <2>1, <2>2, ServerKept DEF KeysAgreed
<1>16. SecretsAgreed'
  <2>1. \A x \in Sent(toServer) : ~(x.type = "CLIENT_HELLO" /\ x.key = 0)
    BY <1>3, <1>9 DEF Reached, ClientRank
  <2>2. srv.hit => cliSess'.cipher = srvSess.cipher
    BY <1>2, <1>8 DEF Sound, ServerLocal, SecretsAgreed
  <2>3. ClientHeard' # 0
    BY <1>1, <1>6
  <2> QED BY <1>1, <1>2, <1>5, <2>1, <2>2, <2>3, ServerKept
          DEF SecretsAgreed, Dropped
<1> QED BY <1>11, <1>12, <1>13, <1>14, <1>15, <1>16

LEMMA ClientReadsRequestAlive ==
  ASSUME Sound, Sound', AliveInv, UNCHANGED serverVars, ClientReadsRequest,
         toServer' = toServer
  PROVE  AliveInv'
<1> USE DEF AliveInv
<1>1. /\ toClient # << >> /\ toClient' = Tail(toClient)
      /\ ClientInput.type = "HELLO_REQUEST"
      /\ UNCHANGED <<cliSess, cliCfg>>
      /\ UNCHANGED <<cli.hit, cli.npnSeen, cli.statusExpected, cli.newCipher,
                     cli.certReq, cli.rkey, cli.wkey, cli.ticketExpected>>
      /\ UNCHANGED <<ClientHeard, ClientSaid>> /\ (Renewing' <=> Renewing)
  BY DEF ClientReadsRequest, ClientDeal
<1>2. ClientHeard = 9
  <2>1. ServerNext(srv.hit, srv.statusExpected, srv.certRequest, TicketDue,
                   ClientHeard, ClientInput.type)
    BY <1>1, NextInput
  <2> QED BY <1>1, <2>1 DEF ServerNext
<1>3. Sent(toClient') \subseteq Sent(toClient)
  BY <1>1, SentTail, Flags
<1>4. Streams'
  <2>1. TicketDue' = TicketDue
    BY <1>1, ServerKept DEF TicketDue
  <2>2. ServerRank(ClientInput.type) = 9
    BY <1>1 DEF ServerRank
  <2>3. ToClientFlow'
    BY <1>1, <1>2, <2>1, <2>2, ServerKept, ToClientRead DEF Streams
  <2>4. ToServerFlow'
    BY <1>1, ServerKept, ToServerKept DEF Streams
  <2> QED BY <1>3, <2>3, <2>4, ServerKept DEF Streams
<1>5. OneHandshake' /\ HelloAgreed'
  BY <1>1, <1>3, ServerKept DEF OneHandshake, HelloAgreed
<1>6. CertAgreed' /\ KeysAgreed'
  BY <1>1, <1>3, ServerKept DEF CertAgreed, KeysAgreed
<1>7. SecretsAgreed'
  BY <1>1, <1>3, ServerKept DEF SecretsAgreed, Dropped
<1> QED BY <1>4, <1>5, <1>6, <1>7

LEMMA ClientStepAlive ==
  ASSUME Sound, Sound', AliveInv, Alive', UNCHANGED serverVars, ClientStep
  PROVE  AliveInv'
<1>1. /\ cli'.flow # "ERROR"
      /\ \A m \in Sent(toServer') : m.type \notin AlertTypes
  BY DEF Alive
<1>2. ClientReadsRequest => toServer' = toServer
  <2> DEFINE a == Message("NO_RENEGOTIATION_ALERT", cli.wkey)
  <2>1. a.type \in AlertTypes
    BY DEF Message, AlertTypes
  <2>2. toServer' = Append(toServer, a) => a \in Sent(toServer')
    <3>1. toServer \in Seq(Messages) /\ toServer' \in Seq(Messages)
      BY Flags, FlagsNext
    <3> HIDE DEF a
    <3>2. toServer' = Append(toServer, a) => a \in Messages
      BY <3>1, LastSent
    <3> QED BY <3>1, <3>2, SentAppend
  <2> QED BY <1>1, <2>1, <2>2 DEF ClientReadsRequest
<1> QED BY <1>1, <1>2, ClientKinds, ClientQuietAlive, ClientOpensAlive,
           ClientRenewsAlive, ClientWritesAlive, ClientHearsHelloAlive,
           ClientReadsAlive, ClientReadsRequestAlive
        DEF Sound, ClientFails

-----------------------------------------------------------------------------
(* Steps of the server on an alive connection.                             *)

(* Once the server has read the client's Finished.                         *)
LEMMA ClientDone ==
  ASSUME Sound, Streams, HelloAgreed, ServerHeard = 7
  PROVE  ClientHeard \in 6 .. 9 /\ (srv.hit => ClientHeard = 9)
<1>1. Reached /\ ClientPlace
  BY Reach, ClientTable DEF Sound
<1>2. ClientSaid \in 7 .. 8
  BY <1>1 DEF Reached, ClientPlace
<1>3. ClientHeard \in 6 .. 9
  BY <1>1, <1>2 DEF ClientPlace
<1>4. Renewing \/ cli.hit = srv.hit
  BY <1>3 DEF HelloAgreed
<1> QED BY <1>1, <1>2, <1>3, <1>4 DEF ClientPlace

LEMMA ServerQuietAlive ==
  ASSUME Sound, Sound', AliveInv, UNCHANGED clientVars, ServerQuiet
  PROVE  AliveInv'
<1> USE DEF AliveInv
<1>1. Reached /\ ServerPlace /\ ServerPlace'
  BY Reach, ServerTable, ServerTableNext DEF Sound
<1>2. UNCHANGED <<ServerSaid, ServerHeard>>
  BY DEF ServerQuiet, OneHandshake, ServerSaid, ServerHeard
<1>3. /\ UNCHANGED <<srvSess, toClient, toServer>>
      /\ UNCHANGED <<srv.hit, srv.npnSeen, srv.statusExpected, srv.newCipher,
                     srv.rkey, srv.wkey, srv.finSent, srv.finRead>>
      /\ ServerIdle => ServerIdle'
      /\ srv'.certRequest = srv.certRequest \/ ServerIdle
  BY DEF ServerQuiet, ServerDeal
<1>4. srv'.ticketExpected = srv.ticketExpected \/ ServerIdle'
  BY DEF ServerQuiet, ServerIdle
<1>5. ServerFirstHandshake' <=> ServerFirstHandshake
  BY <1>3 DEF ServerFirstHandshake
<1>6. ServerIdle' =>
        ServerHeard = 7 /\ ClientHeard \in 6 .. 9 /\ (srv.hit => ClientHeard = 9)
  BY <1>1, <1>2, ClientDone DEF ServerPlace
<1>7. Streams'
  <2>1. TicketDue' = TicketDue \/ ClientHeard >= 8
    BY <1>3, <1>4, <1>6, ClientKept DEF TicketDue
  <2>2. srv'.certRequest = srv.certRequest \/ ClientHeard >= 6
    BY <1>3, <1>6
  <2>3. ToClientFlow'
    BY <1>2, <1>3, <2>1, <2>2, ClientKept, ToClientKept DEF Streams
  <2>4. ToServerFlow'
    BY <1>2, <1>3, ClientKept, ToServerKept DEF Streams
  <2> QED BY <1>3, <2>3, <2>4 DEF Streams
<1>8. OneHandshake'
  BY <1>2, <1>5 DEF OneHandshake
<1>9. HelloAgreed'
  <2>1. ServerIdle' => \A m \in Sent(toClient) : m.type # "SERVER_HELLO"
    BY <1>1, <1>6 DEF Reached, ServerRank
  <2> QED BY <1>3, <1>4, <2>1, ClientKept DEF HelloAgreed
<1>10. CertAgreed'
  BY <1>2, <1>3, <1>6, ClientKept DEF CertAgreed
<1>11. KeysAgreed'
  BY <1>2, <1>3, ClientKept DEF KeysAgreed
<1>12. SecretsAgreed'
  BY <1>2, <1>3, ClientKept DEF SecretsAgreed, Dropped
<1> QED BY <1>7, <1>8, <1>9, <1>10, <1>11, <1>12

LEMMA ServerAsksAlive ==
  ASSUME Sound, Sound', AliveInv, UNCHANGED clientVars,
         NEW m \in Messages, ServerAsks(m)
  PROVE  AliveInv'
<1> USE DEF AliveInv
<1>1. /\ toClient' = Append(toClient, m) /\ toServer' = toServer
      /\ m.type = "HELLO_REQUEST" /\ m.key = srv.wkey
      /\ srvSess' = srvSess
      /\ UNCHANGED <<srv.hit, srv.npnSeen, srv.statusExpected, srv.newCipher,
                     srv.rkey, srv.wkey, srv.finSent, srv.finRead,
                     srv.certRequest, srv.ticketExpected>>
      /\ ServerSaid = 9 /\ ServerHeard = 7 /\ ServerSaid' = 9 /\ ServerHeard' = 7
      /\ ServerIdle /\ ServerIdle'
  BY DEF ServerAsks, ServerDeal
<1>2. ServerFirstHandshake' <=> ServerFirstHandshake
  BY <1>1 DEF ServerFirstHandshake
<1>3. ServerRank(m.type) = 9
  BY <1>1 DEF ServerRank
<1>4. Sent(toClient') = Sent(toClient) \cup {m}
  BY <1>1, SentAppend, Flags
<1>5. Streams'
  <2>1. TicketDue' = TicketDue
    BY <1>1, ClientKept DEF TicketDue
  <2>2. ServerNext(srv.hit, srv.statusExpected, srv'.certRequest, TicketDue',
                   ServerSaid, m.type)
    BY <1>1 DEF ServerNext
  <2>3. ToClientFlow'
    BY <1>1, <1>3, <2>1, <2>2, ClientKept, ToClientWritten DEF Streams
  <2>4. ToServerFlow'
    BY <1>1, ClientKept, ToServerKept DEF Streams
  <2> QED BY <1>1, <2>3, <2>4 DEF Streams
<1>6. OneHandshake' /\ HelloAgreed'
  BY <1>1, <1>2, <1>4, ClientKept DEF OneHandshake, HelloAgreed
<1>7. CertAgreed'
  BY <1>1, ClientKept DEF CertAgreed
<1>8. KeysAgreed'
  BY <1>1, <1>3, <1>4, ClientKept DEF KeysAgreed
<1>9. SecretsAgreed'
  BY <1>1, <1>4, ClientKept DEF SecretsAgreed, Dropped
<1> QED BY <1>5, <1>6, <1>7, <1>8, <1>9

LEMMA ServerAnswersAlive ==
  ASSUME Sound, Sound', AliveInv, UNCHANGED clientVars,
         NEW m \in Messages, ServerAnswers(m)
  PROVE  AliveInv'
<1> USE DEF AliveInv
<1>1. /\ toClient' = Append(toClient, m) /\ toServer' = toServer
      /\ m.type = "SERVER_HELLO" /\ m.key = srv.wkey
      /\ m.suite = srv.newCipher /\ m.sid = srvSess'.sid
      /\ ("ticket" \in m.ext) = srv'.ticketExpected
      /\ ("status" \in m.ext) = srv.statusExpected
      /\ ("npn" \in m.ext) = srv.npnSeen
      /\ srvSess'.sid = srvSess.sid \/ (~srv.hit /\ srvSess'.sid = NoSid)
      /\ UNCHANGED <<srvSess.ms, srvSess.cipher, srvSess.peer>>
      /\ UNCHANGED <<srv.hit, srv.npnSeen, srv.statusExpected, srv.newCipher,
                     srv.rkey, srv.wkey, srv.finSent, srv.finRead,
                     srv.certRequest>>
      /\ ServerSaid = 0 /\ ServerHeard = 1 /\ ServerSaid' = 1 /\ ServerHeard' = 1
  BY DEF ServerAnswers, ServerDeal
<1>2. ServerFirstHandshake' <=> ServerFirstHandshake
  BY <1>1 DEF ServerFirstHandshake
<1>3. ServerRank(m.type) = 1
  BY <1>1 DEF ServerRank
<1>4. Reached
  BY Reach
<1>5. ClientHeard = 0 /\ toClient = << >>
  BY <1>1, <1>4 DEF Reached
<1>6. Sent(toClient') = {m}
  <2>1. Sent(toClient') = Sent(toClient) \cup {m}
    BY <1>1, SentAppend, Flags
  <2> QED BY <1>5, <2>1, SentNone
<1>7. Streams'
  <2>1. ServerNext(srv.hit, srv.statusExpected, srv'.certRequest, TicketDue',
                   ServerSaid, m.type)
    BY <1>1 DEF ServerNext
  <2>2. ToClientFlow'
    BY <1>1, <1>3, <2>1, ClientKept, ToClientWritten DEF Streams
  <2>3. ToServerFlow'
    BY <1>1, ClientKept, ToServerKept DEF Streams
  <2> QED BY <1>1, <1>6, <2>2, <2>3 DEF Streams
<1>8. OneHandshake'
  BY <1>1, <1>2 DEF OneHandshake
<1>9. HelloAgreed'
  BY <1>1, <1>5, <1>6, ClientKept DEF HelloAgreed
<1>10. CertAgreed'
  BY <1>1, ClientKept DEF CertAgreed
<1>11. KeysAgreed'
  BY <1>1, <1>3, <1>6, ClientKept DEF KeysAgreed
<1>12. SecretsAgreed'
  BY <1>1, <1>6, ClientKept DEF SecretsAgreed, Dropped
<1> QED BY <1>7, <1>8, <1>9, <1>10, <1>11, <1>12

LEMMA ServerWritesAlive ==
  ASSUME Sound, Sound', AliveInv, UNCHANGED clientVars,
         NEW m \in Messages, ServerWrites(m)
  PROVE  AliveInv'
<1> USE DEF AliveInv
<1>1. /\ toClient' = Append(toClient, m) /\ toServer' = toServer
      /\ m.key = srv.wkey
      /\ ServerSaid' = ServerRank(m.type) /\ ServerHeard' = ServerHeard
      /\ ~ServerIdle /\ ~ServerIdle' /\ ServerHeard >= 1 /\ ServerSaid \in 1 .. 8
      /\ UNCHANGED <<srv.hit, srv.npnSeen, srv.statusExpected, srv.newCipher,
                     srv.rkey, srv.finRead, srv.ticketExpected>>
      /\ UNCHANGED <<srvSess.sid, srvSess.ms, srvSess.peer>>
      /\ m.type # "FINISHED" => srv'.finSent = srv.finSent
  BY DEF ServerWrites, ServerDeal
<1>2. /\ m.type \in {"CERTIFICATE", "CERTIFICATE_STATUS", "SERVER_KEY_EXCHANGE",
                     "CERTIFICATE_REQUEST", "SERVER_DONE", "NEWSESSION_TICKET",
                     "CHANGE_CIPHER_SPEC", "FINISHED"}
      /\ IF m.type = "CERTIFICATE_REQUEST"
           THEN srv'.certRequest
           ELSE srv'.certRequest = srv.certRequest
      /\ m.type = "NEWSESSION_TICKET" =>
           /\ m.ticket # NoTicket /\ m.ticket.ms = srvSess.ms
           /\ m.ticket.suite = srvSess.cipher
      /\ IF m.type = "CHANGE_CIPHER_SPEC"
           THEN srvSess'.cipher = srv.newCipher /\ srv'.wkey = srvSess.ms
           ELSE srvSess'.cipher = srvSess.cipher /\ srv'.wkey = srv.wkey
  BY DEF ServerWrites
<1>3. Reached /\ ServerPlace /\ ServerPlace'
  BY Reach, ServerTable, ServerTableNext DEF Sound
<1>4. ServerFirstHandshake
  BY <1>1 DEF OneHandshake
<1>5. ServerNext(srv.hit, srv.statusExpected, srv'.certRequest,
                 srv.ticketExpected, ServerSaid, m.type)
  BY <1>4 DEF ServerWrites
<1>6. /\ ServerRank(m.type) \in 2 .. 9
      /\ ServerRank(m.type) = 5 <=> m.type = "CERTIFICATE_REQUEST"
      /\ ServerRank(m.type) = 7 <=> m.type = "NEWSESSION_TICKET"
      /\ ServerRank(m.type) = 8 <=> m.type = "CHANGE_CIPHER_SPEC"
      /\ ServerRank(m.type) = 9 <=> m.type = "FINISHED"
  BY <1>2 DEF ServerRank
<1>7. /\ ServerSaid < ServerRank(m.type)
      /\ m.type = "CERTIFICATE_REQUEST" => ServerSaid = 4
      /\ m.type = "CHANGE_CIPHER_SPEC" => ServerSaid <= 7
  <2>1. ServerSaid \in 0 .. 9
    BY <1>1
  <2>2. ServerSaid < ServerRank(m.type)
    BY <1>2, <1>5, <2>1, ServerNextRank
  <2> QED BY <1>6, <2>1, <2>2, <1>5 DEF ServerNext
<1>8. ~srv.hit /\ ServerRank(m.type) >= 7 => ServerHeard = 7
  BY <1>1, <1>3 DEF ServerPlace
<1>9. Sent(toClient') = Sent(toClient) \cup {m}
  BY <1>1, SentAppend, Flags
<1>10. Streams'
  <2>1. TicketDue' = TicketDue
    BY <1>1, ClientKept DEF TicketDue
  <2>2. ~srv.hit /\ m.type \in {"NEWSESSION_TICKET", "CHANGE_CIPHER_SPEC"}
          /\ ServerSaid = 6 => cli.ticketExpected = srv.ticketExpected
    <3>1. SUFFICES ASSUME ~srv.hit, ServerSaid = 6,
                          m.type \in {"NEWSESSION_TICKET", "CHANGE_CIPHER_SPEC"}
                   PROVE  cli.ticketExpected = srv.ticketExpected
      OBVIOUS
    <3>2. ServerHeard = 7
      BY <1>6, <1>8, <3>1
    <3>3. ClientHeard \in 6 .. 9 /\ ClientHeard <= 6
      BY <1>3, <3>1, <3>2, ClientDone DEF Reached
    <3> QED BY <1>1, <3>3 DEF HelloAgreed
  <2>3. ServerNext(srv.hit, srv.statusExpected, srv'.certRequest, TicketDue',
                   ServerSaid, m.type)
    BY <1>5, <2>1, <2>2 DEF ServerNext, TicketDue
  <2>4. srv'.certRequest = srv.certRequest \/ ServerSaid <= 4
    BY <1>2, <1>7
  <2>5. ToClientFlow'
    BY <1>1, <2>1, <2>3, <2>4, ClientKept, ToClientWritten DEF Streams
  <2>6. ToServerFlow'
    BY <1>1, ClientKept, ToServerKept DEF Streams
  <2>7. \A x \in Sent(toClient') : x.type # "HELLO_REQUEST"
    BY <1>1, <1>2, <1>9 DEF Streams
  <2> QED BY <2>5, <2>6, <2>7 DEF Streams
<1>11. OneHandshake'
  <2>1. ServerHeard <= 6 => ~srv.finRead
    BY <1>4 DEF Sound, ServerLocal
  <2>2. ServerHeard \in 0 .. 7
    BY <1>3 DEF ServerPlace
  <2> QED BY <1>1, <1>4, <1>6, <2>1, <2>2 DEF OneHandshake, ServerFirstHandshake
<1>12. HelloAgreed'
  BY <1>1, <1>2, <1>9, ClientKept DEF HelloAgreed
<1>13. CertAgreed'
  <2>1. ClientHeard \in 0 .. 9 /\ ClientHeard <= ServerSaid
    BY <1>3 DEF Reached
  <2> QED BY <1>1, <1>2, <1>7, <2>1, ClientKept DEF CertAgreed
<1>14. KeysAgreed'
  <2>1. ASSUME NEW x \in Sent(toClient')
        PROVE  x.key = IF ServerRank(x.type) <= 8 THEN 0 ELSE srv'.wkey
    <3>1. CASE x = m
      BY <1>1, <1>2, <1>6, <1>7, <3>1 DEF KeysAgreed
    <3>2. CASE x \in Sent(toClient)
      <4>1. /\ x.key = IF ServerRank(x.type) <= 8 THEN 0 ELSE srv.wkey
            /\ ServerRank(x.type) \in 1 .. 9 /\ ServerRank(x.type) <= ServerSaid
        BY <1>3, <3>2 DEF KeysAgreed, Reached
      <4> QED BY <1>1, <1>2, <1>7, <4>1
    <3> QED BY <1>9, <3>1, <3>2
  <2>2. ServerSaid' <= 7 => srv'.wkey = 0
    BY <1>1, <1>2, <1>6, <1>7 DEF KeysAgreed
  <2>3. ClientHeard >= 8 => cli.rkey = srv'.wkey
    BY <1>1, <1>2, <1>3, <1>7 DEF KeysAgreed, Reached
  <2> QED BY <1>1, <2>1, <2>2, <2>3, ClientKept DEF KeysAgreed
<1>15. SecretsAgreed'
  <2>1. srv.hit => srvSess'.cipher = srvSess.cipher
    BY <1>2 DEF Sound, ServerLocal
  <2>2. m.type = "NEWSESSION_TICKET" => srvSess.cipher = srv.newCipher
    BY <1>6, <1>8, ServerSwitched DEF Sound, ServerLocal
  <2>3. ASSUME NEW x \in Sent(toClient'), x.type = "NEWSESSION_TICKET"
        PROVE  /\ x.ticket # NoTicket
               /\ x.ticket.ms = srvSess'.ms
               /\ x.ticket.suite = srv'.newCipher
    <3>1. CASE x = m
      BY <1>1, <1>2, <2>2, <2>3, <3>1
    <3>2. CASE x \in Sent(toClient)
      BY <1>1, <2>3, <3>2 DEF SecretsAgreed
    <3> QED BY <1>9, <3>1, <3>2
  <2> QED BY <1>1, <2>1, <2>3, ClientKept DEF SecretsAgreed, Dropped
<1> QED BY <1>10, <1>11, <1>12, <1>13, <1>14, <1>15

(* The server resumes what the client holds, and a new session has a name  *)
(* that the client does not know.                                          *)
LEMMA ServerResumesHeld ==
  ASSUME Sound, WireTypeOK, Resumption, ServerResumes,
         ServerInput.sid = cliSess.sid,
         ServerInput.ticket \in {NoTicket, cliSess.ticket}
  PROVE  /\ srvSess'.sid = cliSess.sid /\ cliSess.sid # NoSid
         /\ srvSess'.ms = cliSess.ms /\ srvSess'.cipher = cliSess.cipher
<1> DEFINE m == ServerInput
<1>1. srvSess' \in PrevSessions(m)
  BY DEF ServerResumes
<1> HIDE DEF m
<1>2. CASE TicketStatus(m) = "SUCCESS"
  <2>1. srvSess' = [ sid |-> m.sid, cipher |-> m.ticket.suite,
                     ms |-> m.ticket.ms, peer |-> m.ticket.peer ]
    BY <1>1, <1>2 DEF PrevSessions
  <2>2. m.ticket # NoTicket
    BY <1>2 DEF TicketStatus
  <2>3. /\ cliSess.sid = TicketSid(cliSess.ticket.n)
        /\ cliSess.ticket.ms = cliSess.ms /\ cliSess.ticket.suite = cliSess.cipher
    BY <2>2 DEF Resumption, m
  <2> QED BY <2>1, <2>2, <2>3 DEF m, TicketSid, NoSid
<1>3. CASE TicketStatus(m) # "SUCCESS"
  <2>1. m.sid # NoSid /\ srvSess' \in srvCache /\ srvSess'.sid = m.sid
    BY <1>1, <1>3 DEF PrevSessions
  <2> QED BY <2>1 DEF Resumption, m
<1> QED BY <1>2, <1>3

LEMMA ServerStartsAfresh ==
  ASSUME Sound, Resumption, ServerStarts
  PROVE  srvSess'.sid = NoSid \/ srvSess'.sid # cliSess.sid
<1>1. srvSess'.sid \in {NoSid, ServerSid(srvFresh)} /\ srvFresh \in Nat
  BY DEF Sound, ServerTypeOK, ServerStarts
<1>2. ~Drawn(ServerSid(srvFresh))
  BY <1>1 DEF Drawn, ServerSid
<1>3. \/ cliSess.sid = NoSid \/ Drawn(cliSess.sid)
      \/ cliSess.sid = TicketSid(cliSess.ticket.n)
  BY DEF Resumption
<1>4. ServerSid(srvFresh) # TicketSid(cliSess.ticket.n)
  BY DEF ServerSid, TicketSid
<1> QED BY <1>1, <1>2, <1>3, <1>4

LEMMA ServerHearsHelloAlive ==
  ASSUME Sound, Sound', AliveInv, Resumption, UNCHANGED clientVars,
         ServerHearsHello, ServerResumes \/ ServerStarts
  PROVE  AliveInv'
<1> USE DEF AliveInv
<1> DEFINE m == ServerInput
<1>1. /\ toServer # << >> /\ toServer' = Tail(toServer) /\ toClient' = toClient
      /\ m.type = "CLIENT_HELLO"
      /\ ServerFirstHandshake'
      /\ ServerSaid = 0 /\ ServerHeard = 0 /\ ServerSaid' = 0 /\ ServerHeard' = 1
      /\ UNCHANGED <<srv.rkey, srv.wkey, srv.certRequest>>
  BY DEF ServerHearsHello
<1>2. Reached /\ ClientPlace
  BY Reach, ClientTable DEF Sound
<1>3. ClientNext(srv.hit, cli.certReq # "no", cli.certReq = "send", cli.npnSeen,
                 ServerHeard, m)
  BY <1>1, NextInput
<1>4. m.key = 0 /\ ClientRank(m) = 1
  BY <1>1, <1>3 DEF ClientNext, ClientRank
<1>5. ClientHeard = 0 /\ ClientSaid = 1 /\ toClient = << >>
  BY <1>1, <1>2 DEF Reached, ClientPlace
<1>6. Sent(toServer') \subseteq Sent(toServer) /\ m \in Sent(toServer)
  BY <1>1, SentTail, Flags DEF ServerInput
<1>7. Sent(toClient) = {}
  BY <1>5, SentNone
<1>8. m.sid = cliSess.sid /\ m.ticket \in {NoTicket, cliSess.ticket}
  BY <1>1, <1>4, <1>6 DEF SecretsAgreed
<1>9. Streams'
  <2>1. ToClientFlow'
    BY <1>1, <1>5, ClientKept, ToClientKept DEF Streams
  <2>2. ToServerFlow'
    BY <1>1, <1>4, <1>5, ClientKept, ToServerRead DEF Streams
  <2> QED BY <1>1, <1>7, <2>1, <2>2 DEF Streams
<1>10. OneHandshake' /\ HelloAgreed'
  BY <1>1, <1>5, <1>7, ClientKept DEF OneHandshake, HelloAgreed
<1>11. CertAgreed'
  <2>1. ~srv'.hit => srvSess'.peer = "none"
    BY DEF ServerResumes, ServerStarts
  <2> QED BY <1>1, <1>5, <1>6, <2>1, ClientKept DEF CertAgreed
<1>12. KeysAgreed'
  BY <1>1, <1>6, ClientKept DEF KeysAgreed
<1>13. SecretsAgreed'
  <2>1. CASE ServerResumes
    <3>1. /\ srvSess'.sid = cliSess.sid /\ cliSess.sid # NoSid
          /\ srvSess'.ms = cliSess.ms /\ srvSess'.cipher = cliSess.cipher
      BY <1>8, <2>1, ServerResumesHeld DEF Sound
    <3>2. srv'.hit
      BY <2>1 DEF ServerResumes
    <3> QED BY <1>1, <1>6, <1>7, <3>1, <3>2, ClientKept DEF SecretsAgreed
  <2>2. CASE ServerStarts
    <3>1. ~srv'.hit
      BY <2>2 DEF ServerStarts
    <3>2. srvSess'.sid = NoSid \/ srvSess'.sid # cliSess.sid
      BY <2>2, ServerStartsAfresh
    <3>3. srv'.hit = (srvSess'.sid # NoSid /\ srvSess'.sid = cliSess.sid)
      BY <3>1, <3>2, FlagsNext
    <3> QED BY <1>1, <1>6, <1>7, <3>1, <3>3, ClientKept DEF SecretsAgreed
  <2> QED BY <2>1, <2>2
<1> QED BY <1>9, <1>10, <1>11, <1>12, <1>13

LEMMA ServerReadsAlive ==
  ASSUME Sound, Sound', AliveInv, cli.flow # "ERROR", UNCHANGED clientVars,
         ServerReads
  PROVE  AliveInv'
<1> USE DEF AliveInv
<1> DEFINE m == ServerInput
<1>1. /\ toServer # << >> /\ toServer' = Tail(toServer) /\ toClient' = toClient
      /\ m.type \in
           {"CERTIFICATE", "CLIENT_KEY_EXCHANGE", "CERTIFICATE_VERIFY",
            "CHANGE_CIPHER_SPEC", "NEXT_PROTO", "FINISHED"}
      /\ ServerHeard' = ClientRank(m) /\ ServerSaid' = ServerSaid
      /\ ~ServerIdle /\ ~ServerIdle' /\ ServerHeard >= 1
      /\ UNCHANGED <<srv.hit, srv.npnSeen, srv.statusExpected, srv.newCipher,
                     srv.wkey, srv.finSent, srv.certRequest, srv.ticketExpected>>
      /\ srvSess'.sid = srvSess.sid
      /\ m.type # "FINISHED" => srv'.finRead = srv.finRead
  BY DEF ServerReads, ServerDeal
<1>2. /\ IF m.type = "CERTIFICATE"
           THEN srvSess'.peer = IF m.chain = "empty" THEN "none" ELSE "good"
           ELSE srvSess'.peer = srvSess.peer
      /\ IF m.type = "CLIENT_KEY_EXCHANGE"
           THEN srvSess'.ms = m.secret
           ELSE srvSess'.ms = srvSess.ms
      /\ IF m.type = "CHANGE_CIPHER_SPEC"
           THEN srvSess'.cipher = srv.newCipher /\ srv'.rkey = srvSess.ms
           ELSE srvSess'.cipher = srvSess.cipher /\ srv'.rkey = srv.rkey
  BY DEF ServerReads
<1>3. Reached /\ ClientPlace /\ ServerPlace
  BY Reach, ClientTable, ServerTable DEF Sound
<1>4. ClientNext(srv.hit, cli.certReq # "no", cli.certReq = "send", cli.npnSeen,
                 ServerHeard, m)
  BY <1>1, NextInput
<1>5. Sent(toServer') \subseteq Sent(toServer) /\ m \in Sent(toServer)
  BY <1>1, SentTail, Flags DEF ServerInput
<1>6. ToServerFlow' /\ ToClientFlow'
  <2>1. TicketDue' = TicketDue
    BY <1>1, ClientKept DEF TicketDue
  <2>2. ToServerFlow'
    BY <1>1, ClientKept, ToServerRead DEF Streams
  <2> QED BY <1>1, <2>1, <2>2, ClientKept, ToClientKept DEF Streams
<1> HIDE DEF m
<1>7. /\ ClientRank(m) \in 2 .. 7
      /\ ClientRank(m) = 2 <=> m.type = "CERTIFICATE"
      /\ ClientRank(m) = 3 <=> m.type = "CLIENT_KEY_EXCHANGE"
      /\ ClientRank(m) = 4 <=> m.type = "CERTIFICATE_VERIFY"
      /\ ClientRank(m) = 5 <=> m.type = "CHANGE_CIPHER_SPEC"
      /\ ClientRank(m) = 7 <=> m.type = "FINISHED"
  BY <1>1 DEF ClientRank
<1>8. ServerHeard \in 1 .. 6 /\ ServerHeard < ClientRank(m)
  BY <1>1, <1>3, <1>5, <1>7 DEF Reached
<1>9. ServerFirstHandshake
  BY <1>8 DEF OneHandshake
<1>10. OneHandshake'
  <2>1. ServerSaid <= 8 => ~srv.finSent
    BY <1>9 DEF Sound, ServerLocal
  <2>2. ServerSaid \in 0 .. 9
    BY <1>3 DEF ServerPlace
  <2> QED BY <1>1, <1>7, <1>9, <2>1, <2>2 DEF OneHandshake, ServerFirstHandshake
<1>11. HelloAgreed'
  BY <1>1, ClientKept DEF HelloAgreed
<1>12. CertAgreed'
  <2>1. CASE m.type = "CERTIFICATE"
    <3>1. cli.certReq # "no" /\ m.chain = cliCfg.chain
      BY <1>4, <1>5, <2>1 DEF ClientNext, CertAgreed
    <3>2. (srvSess'.peer # "none") = (cli.certReq = "send")
      BY <1>2, <2>1, <3>1 DEF CertAgreed
    <3> QED BY <1>1, <1>5, <1>7, <3>2, ClientKept DEF CertAgreed
  <2>2. CASE m.type = "CLIENT_KEY_EXCHANGE"
    <3>1. ~srv.hit /\ (ServerHeard = 2 \/ (ServerHeard = 1 /\ cli.certReq = "no"))
      BY <1>4, <2>2 DEF ClientNext
    <3>2. (srvSess'.peer # "none") = (cli.certReq = "send")
      BY <1>2, <2>2, <3>1 DEF CertAgreed
    <3> QED BY <1>1, <1>5, <1>7, <3>2, ClientKept DEF CertAgreed
  <2>3. CASE m.type = "CERTIFICATE_VERIFY"
    <3>1. ServerHeard = 3
      BY <1>4, <2>3 DEF ClientNext
    <3>2. (srvSess'.peer # "none") = (cli.certReq = "send")
      BY <1>2, <2>3, <3>1 DEF CertAgreed
    <3> QED BY <1>1, <1>5, <1>7, <3>2, ClientKept DEF CertAgreed
  <2>4. CASE ClientRank(m) >= 5
    BY <1>1, <1>5, <1>7, <2>4, ClientKept DEF CertAgreed
  <2> QED BY <1>1, <1>7, <2>1, <2>2, <2>3, <2>4
<1>13. KeysAgreed'
  <2>1. ServerHeard' <= 4 => srv'.rkey = 0
    BY <1>1, <1>2, <1>7, <1>8 DEF KeysAgreed
  <2>2. ServerHeard' >= 5 => srv'.rkey = cli.wkey
    <3>1. CASE m.type = "CHANGE_CIPHER_SPEC"
      <4>1. ClientSaid \in 5 .. 8
        BY <1>3, <1>5, <1>7, <3>1 DEF Reached
      <4>2. srv.hit \/ ServerHeard \in {3, 4}
        BY <1>4, <3>1 DEF ClientNext
      <4>3. CASE Renewing
        <5>1. ClientHeard = 9
          BY <4>3, <1>3 DEF ClientPlace
        <5>2. ServerSaid = 9
          BY <1>3, <5>1 DEF Reached
        <5>3. srv.wkey = srvSess.ms
          BY <5>2, ServerSwitched DEF Sound, ServerInv, Keys
        <5> QED BY <1>2, <3>1, <4>3, <5>1, <5>3 DEF KeysAgreed
      <4>4. CASE ~Renewing
        <5>1. srvSess.ms = cliSess.ms
          BY <4>2, <4>4 DEF SecretsAgreed, Dropped
        <5>2. ClientWriteSwitched
          BY <4>1, <4>4 DEF ClientSaid, Renewing, ClientWriteSwitched,
             ClientSettled, LastWrites, LastReads, Sound, ClientTypeOK,
             ClientStates, ClientHandStates
        <5>3. cli.wkey = cliSess.ms
          BY <5>2 DEF Sound, ClientInv, ClientKeys
        <5> QED BY <1>2, <3>1, <5>1, <5>3
      <4> QED BY <4>3, <4>4
    <3>2. CASE m.type \in {"NEXT_PROTO", "FINISHED"}
      <4>1. ServerHeard >= 5
        BY <1>4, <3>2 DEF ClientNext
      <4> QED BY <1>2, <3>2, <4>1 DEF KeysAgreed
    <3> QED BY <1>1, <1>7, <3>1, <3>2
  <2> QED BY <1>1, <1>5, <2>1, <2>2, ClientKept DEF KeysAgreed
<1>14. SecretsAgreed'
  <2>1. m.type = "CLIENT_KEY_EXCHANGE" => m.secret = cliSess.ms /\ ~srv.hit
    BY <1>3, <1>5 DEF SecretsAgreed, Reached
  <2>2. ServerHeard' >= 3 /\ ~srv.hit /\ ~Dropped => srvSess'.ms = cliSess.ms
    <3>1. m.type \in {"CERTIFICATE_VERIFY", "CHANGE_CIPHER_SPEC", "NEXT_PROTO",
                      "FINISHED"} /\ ~srv.hit => ServerHeard >= 3
      BY <1>4 DEF ClientNext
    <3> QED BY <1>1, <1>2, <1>7, <2>1, <3>1 DEF SecretsAgreed
  <2>3. srv.hit => srvSess'.ms = cliSess.ms /\ srvSess'.cipher = cliSess.cipher
    BY <1>2, <2>1 DEF SecretsAgreed, Sound, ServerLocal
  <2>4. ASSUME NEW x \in Sent(toClient), x.type = "NEWSESSION_TICKET"
        PROVE  srvSess'.ms = srvSess.ms
    <3>1. ServerRank(x.type) = 7
      BY <2>4 DEF ServerRank
    <3>2. ServerSaid >= 7
      BY <1>3, <3>1 DEF Reached
    <3>3. srv.hit \/ ServerHeard = 7
      BY <1>3, <3>2 DEF ServerPlace
    <3> QED BY <1>2, <1>8, <2>1, <3>3
  <2> QED BY <1>1, <1>5, <2>2, <2>3, <2>4, ClientKept DEF SecretsAgreed, Dropped
<1> QED BY <1>1, <1>6, <1>10, <1>11, <1>12, <1>13, <1>14 DEF Streams

LEMMA ServerStepAlive ==
  ASSUME Sound, Sound', AliveInv, Resumption, Alive, Alive',
         UNCHANGED clientVars, ServerStep
  PROVE  AliveInv'
<1>1. /\ srv'.flow # "ERROR" /\ cli.flow # "ERROR"
      /\ \A m \in Sent(toClient') : m.type \notin AlertTypes
  BY DEF Alive
<1>2. ~ServerRejects
  <2> DEFINE a == Message("NO_RENEGOTIATION_ALERT", srv.wkey)
  <2>1. a.type \in AlertTypes
    BY DEF Message, AlertTypes
  <2>2. toClient' = Append(toClient, a) => a \in Sent(toClient')
    <3>1. toClient \in Seq(Messages) /\ toClient' \in Seq(Messages)
      BY Flags, FlagsNext
    <3> HIDE DEF a
    <3>2. toClient' = Append(toClient, a) => a \in Messages
      BY <3>1, LastSent
    <3> QED BY <3>1, <3>2, SentAppend
  <2> QED BY <1>1, <2>1, <2>2 DEF ServerRejects
<1> QED BY <1>1, <1>2, ServerKinds, ServerQuietAlive, ServerAsksAlive,
           ServerAnswersAlive, ServerWritesAlive, ServerHearsHelloAlive,
           ServerReadsAlive
        DEF Sound, ServerFails

-----------------------------------------------------------------------------
(* What can be resumed stays what both ends know, step by step.            *)

LEMMA DrawnSids ==
  ASSUME NEW sid, Drawn(sid)
  PROVE  sid # NoSid /\ \A n : sid # TicketSid(n)
BY DEF Drawn, NoSid, TicketSid

(* A client that keeps the name and the ticket of its session keeps the    *)
(* rest of it too, or nobody could resume it yet.                          *)
LEMMA ClientKeepsSession ==
  ASSUME Resumption, UNCHANGED serverVars,
         cliSess'.sid = cliSess.sid, cliSess'.ticket = cliSess.ticket,
         \/ cliSess'.ms = cliSess.ms /\ cliSess'.cipher = cliSess.cipher
         \/ cliSess.sid = NoSid \/ Unkeyed,
         Unkeyed' => Unkeyed
  PROVE  Resumption'
<1>1. \A sid : Drawn(sid)' <=> Drawn(sid)
  BY DEF Drawn, serverVars
<1>2. \A c \in srvCache : c.sid # NoSid
  BY DrawnSids DEF Resumption
<1>3. cliSess.sid = NoSid => cliSess.ticket = NoTicket
  BY DEF Resumption, TicketSid, NoSid
<1>4. srvCache' = srvCache /\ srv' = srv /\ srvSess' = srvSess
  BY DEF serverVars
<1> QED BY <1>2, <1>3, <1>4 DEF Resumption, Drawn, serverVars

(* A client that takes a new session that nobody can resume.               *)
LEMMA ClientNewSession ==
  ASSUME Resumption, UNCHANGED serverVars,
         \/ cliSess'.sid = NoSid
         \/ /\ Drawn(cliSess'.sid)
            /\ \A c \in srvCache : c.sid # cliSess'.sid,
         cliSess'.ticket = NoTicket
  PROVE  Resumption'
<1>1. \A c \in srvCache : c.sid # NoSid
  BY DrawnSids DEF Resumption
<1> QED BY <1>1 DEF Resumption, Drawn, serverVars

LEMMA ClientResumption ==
  ASSUME Sound, Sound', Resumption, UNCHANGED serverVars,
         \/ ClientFails \/ ClientQuiet \/ ClientReadsRequest
         \/ \E m \in Messages :
              ClientOffers(m) /\ (ClientOpens(m) \/ ClientRenews(m))
         \/ \E m \in Messages : ClientWrites(m)
  PROVE  Resumption'
<1>1. CASE ClientFails
  BY <1>1, ClientNewSession DEF ClientFails, NoClientSession
<1>2. CASE ClientQuiet
  <2>1. cliSess' = cliSess /\ (Unkeyed' => Unkeyed)
    BY <1>2 DEF ClientQuiet, ClientDeal, Unkeyed
  <2> QED BY <2>1, ClientKeepsSession
<1>3. CASE ClientReadsRequest
  <2>1. cliSess' = cliSess /\ (Unkeyed' => Unkeyed)
    BY <1>3 DEF ClientReadsRequest, ClientDeal, Unkeyed
  <2> QED BY <2>1, ClientKeepsSession
<1>4. ASSUME NEW m \in Messages, ClientOffers(m),
             ClientOpens(m) \/ ClientRenews(m)
      PROVE  Resumption'
  <2>1. ~Unkeyed'
    BY <1>4 DEF ClientOpens, ClientRenews, Unkeyed
  <2>2. /\ cliSess'.sid = cliSess.sid /\ cliSess'.ticket = cliSess.ticket
        /\ cliSess' = cliSess \/ cliSess.sid = NoSid
    BY <1>4 DEF ClientOffers
  <2> QED BY <2>1, <2>2, ClientKeepsSession
<1>5. ASSUME NEW m \in Messages, ClientWrites(m)
      PROVE  Resumption'
  <2>1. /\ UNCHANGED <<cliSess.sid, cliSess.ticket, cli.hit>>
        /\ ClientSaid' = ClientRank(m) /\ ClientHeard' = ClientHeard
        /\ cli.flow # "ERROR" /\ ~Renewing'
        /\ ClientNext(cli.hit, cli.certReq # "no", cli.certReq = "send",
                      cli.npnSeen, ClientSaid, m)
    BY <1>5 DEF ClientWrites, ClientDeal
  <2>2. /\ m.type # "CLIENT_KEY_EXCHANGE" => cliSess'.ms = cliSess.ms
        /\ IF m.type = "CHANGE_CIPHER_SPEC" THEN cliSess'.cipher = cli.newCipher
                                            ELSE cliSess'.cipher = cliSess.cipher
    BY <1>5 DEF ClientWrites
  <2>3. ClientPlace /\ ClientPlace'
    BY ClientTable, ClientTableNext DEF Sound
  <2>4. ClientSaid \in 0 .. 8 /\ ClientSaid < ClientRank(m)
    BY <2>1, <2>3, ClientNextRank DEF ClientPlace
  <2>5. Unkeyed' => Unkeyed
    BY <2>1, <2>3, <2>4 DEF Unkeyed, ClientPlace
  <2>6. CASE m.type = "CLIENT_KEY_EXCHANGE"
    <3>1. ~cli.hit /\ ClientRank(m) = 3
      BY <2>1, <2>6 DEF ClientNext, ClientRank
    <3>2. Unkeyed
      BY <2>1, <2>3, <2>4, <3>1 DEF Unkeyed, ClientPlace
    <3> QED BY <2>1, <2>5, <3>2, ClientKeepsSession
  <2>7. CASE m.type = "CHANGE_CIPHER_SPEC" /\ ~cli.hit
    <3>1. ClientRank(m) = 5
      BY <2>7 DEF ClientRank
    <3>2. Unkeyed
      BY <2>1, <2>3, <2>4, <2>7, <3>1 DEF Unkeyed, ClientPlace
    <3> QED BY <2>1, <2>5, <3>2, ClientKeepsSession
  <2>8. CASE m.type = "CHANGE_CIPHER_SPEC" /\ cli.hit
    <3>1. cliSess.cipher = cli.newCipher
      BY <2>1, <2>8 DEF Sound, ClientLocal
    <3> QED BY <2>1, <2>2, <2>5, <2>8, <3>1, ClientKeepsSession
  <2>9. CASE m.type \notin {"CLIENT_KEY_EXCHANGE", "CHANGE_CIPHER_SPEC"}
    BY <2>1, <2>2, <2>5, <2>9, ClientKeepsSession
  <2> QED BY <2>6, <2>7, <2>8, <2>9
<1> QED BY <1>1, <1>2, <1>3, <1>4, <1>5

LEMMA ClientHelloResumption ==
  ASSUME Sound, Sound', AliveInv, AliveInv', Resumption, UNCHANGED serverVars,
         ClientHearsHello
  PROVE  Resumption'
<1> USE DEF AliveInv
<1> DEFINE m == ClientInput
<1>1. /\ toClient # << >> /\ m.type = "SERVER_HELLO"
      /\ ClientHeard' = 1 /\ ~Renewing' /\ cli'.hit = ServerHelloHit(m)
      /\ cliSess' = SessionAfterServerHello(m)
  BY DEF ClientHearsHello
<1>2. cli'.hit = srv.hit
  BY <1>1, ServerKept DEF HelloAgreed
<1>3. m \in Sent(toClient)
  BY <1>1, SentTail, Flags DEF ClientInput
<1>4. m.sid = srvSess.sid
  BY <1>1, <1>3 DEF HelloAgreed
<1> HIDE DEF m
<1>5. CASE cli'.hit
  <2>1. cliSess' = cliSess /\ ~Unkeyed'
    BY <1>1, <1>5 DEF SessionAfterServerHello, Unkeyed
  <2> QED BY <2>1, ClientKeepsSession
<1>6. CASE ~cli'.hit
  <2>1. cliSess'.sid = srvSess.sid /\ cliSess'.ticket = NoTicket
    <3>1. cliSess.sid = NoSid => cliSess.ticket = NoTicket
      BY DEF Resumption, TicketSid, NoSid
    <3>2. ~ServerHelloHit(m)
      BY <1>1, <1>6
    <3>3. cliSess \in ClientSessions /\ NoClientSession.ticket = NoTicket
      BY DEF Sound, ClientTypeOK, NoClientSession
    <3>4. CASE cliSess.sid = NoSid
      <4>1. cliSess' = [cliSess EXCEPT !.sid = m.sid]
        BY <1>1, <3>2, <3>4 DEF SessionAfterServerHello
      <4> QED BY <1>4, <3>1, <3>3, <3>4, <4>1 DEF ClientSessions
    <3>5. CASE cliSess.sid # NoSid
      <4>1. cliSess' = [NoClientSession EXCEPT !.sid = m.sid]
        BY <1>1, <3>2, <3>5 DEF SessionAfterServerHello
      <4> QED BY <1>4, <4>1 DEF NoClientSession
    <3> QED BY <3>4, <3>5
  <2>2. ~srv.hit
    BY <1>2, <1>6
  <2>3. ServerHeard \in 0 .. 7 /\ ServerHeard <= 1
    <3>1. Reached /\ ServerPlace
      BY Reach, ServerTable DEF Sound
    <3>2. ServerNext(srv.hit, srv.statusExpected, srv.certRequest, TicketDue,
                     ClientHeard, m.type)
      BY <1>1, NextInput DEF m
    <3>3. ClientHeard = 0
      BY <1>1, <3>2 DEF ServerNext
    <3>4. ClientSaid <= 1 /\ ClientSaid \in 0 .. 8
      BY <3>3, ClientTable DEF ClientPlace, Sound
    <3> QED BY <3>1, <3>4 DEF Reached
  <2>4. ~srv.finRead
    <3>1. ServerFirstHandshake
      BY <2>3 DEF OneHandshake
    <3> QED BY <2>3, <3>1 DEF Sound, ServerLocal
  <2>5. /\ srvSess.sid = NoSid \/ Drawn(srvSess.sid)
        /\ \A c \in srvCache : c.sid # srvSess.sid
    BY <2>2, <2>4 DEF Resumption
  <2> QED BY <2>1, <2>5, ClientNewSession
<1> QED BY <1>5, <1>6, FlagsNext

LEMMA ClientReadsResumption ==
  ASSUME Sound, Sound', AliveInv, cli.flow # "ERROR", Resumption,
         UNCHANGED serverVars, ClientReads
  PROVE  Resumption'
<1> USE DEF AliveInv
<1> DEFINE m == ClientInput
<1>1. /\ toClient # << >>
      /\ m.type \in
           {"CERTIFICATE", "CERTIFICATE_STATUS", "SERVER_KEY_EXCHANGE",
            "CERTIFICATE_REQUEST", "SERVER_DONE", "NEWSESSION_TICKET",
            "CHANGE_CIPHER_SPEC", "FINISHED"}
      /\ ClientSaid' = ClientSaid /\ ClientHeard' = ServerRank(m.type)
      /\ ~Renewing /\ cliSess'.ms = cliSess.ms /\ cli'.hit = cli.hit
  BY DEF ClientReads, ClientDeal
<1>2. /\ IF m.type = "CHANGE_CIPHER_SPEC" THEN cliSess'.cipher = cli.newCipher
                                          ELSE cliSess'.cipher = cliSess.cipher
      /\ IF m.type = "NEWSESSION_TICKET" /\ m.ticket # NoTicket
           THEN /\ cliSess'.ticket = m.ticket
                /\ cliSess'.sid = TicketSid(m.ticket.n)
           ELSE cliSess'.ticket = cliSess.ticket /\ cliSess'.sid = cliSess.sid
  BY DEF ClientReads
<1>3. m \in Sent(toClient)
  BY <1>1, SentTail, Flags DEF ClientInput
<1>4. ServerNext(srv.hit, srv.statusExpected, srv.certRequest, TicketDue,
                 ClientHeard, m.type)
  BY <1>1, NextInput
<1> HIDE DEF m
<1>5. Reached /\ ServerPlace /\ ClientPlace
  BY Reach, ServerTable, ClientTable DEF Sound
<1>6. ClientHeard \in 1 .. 9
  BY <1>1, <1>4, <1>5 DEF ServerNext, ClientPlace
<1>7. Unkeyed' => Unkeyed
  <2>1. ClientHeard < ServerRank(m.type)
    BY <1>1, <1>3, <1>5 DEF Reached
  <2>2. ServerRank(m.type) \in 1 .. 9
    BY ServerRankType
  <2> QED BY <1>1, <1>6, <2>1, <2>2 DEF Unkeyed
<1>8. cli.hit = srv.hit /\ cli.newCipher = srv.newCipher
  BY <1>1, <1>6 DEF HelloAgreed
<1>9. ASSUME m.type \in {"NEWSESSION_TICKET", "CHANGE_CIPHER_SPEC"}
      PROVE  /\ cliSess.cipher = cli.newCipher
             /\ srvSess.ms = cliSess.ms /\ srvSess.ms # 0
             /\ ClientHeard' >= 7
  <2>1. ServerRank(m.type) \in 7 .. 8
    BY <1>9 DEF ServerRank
  <2>2. ServerSaid \in 7 .. 9
    BY <1>3, <1>5, <2>1 DEF Reached
  <2>3. CASE srv.hit
    BY <1>1, <1>8, <2>1, <2>3
       DEF Sound, ClientLocal, Negotiated, SecretsAgreed
  <2>4. CASE ~srv.hit
    <3>1. ServerHeard = 7
      BY <1>5, <2>2, <2>4 DEF ServerPlace
    <3>2. ClientSaid \in 7 .. 8
      BY <1>5, <3>1 DEF Reached
    <3>3. ClientWriteSwitched
      BY <1>1, <3>2 DEF ClientSaid, Renewing, ClientWriteSwitched,
         ClientSettled, LastWrites, LastReads, Sound, ClientTypeOK,
         ClientStates, ClientHandStates
    <3>4. cliSess.cipher = cli.newCipher
      BY <3>3 DEF Sound, ClientInv, ClientKeys
    <3>5. srvSess.ms # 0
      BY <3>1, ServerSwitched DEF Sound, ServerInv, Keys
    <3>6. srvSess.ms = cliSess.ms
      BY <1>1, <2>4, <3>1 DEF SecretsAgreed, Dropped
    <3> QED BY <1>1, <2>1, <3>4, <3>5, <3>6
  <2> QED BY <2>3, <2>4
<1>10. CASE m.type = "NEWSESSION_TICKET"
  <2>1. /\ m.ticket # NoTicket /\ m.ticket.ms = srvSess.ms
        /\ m.ticket.suite = srv.newCipher
    BY <1>3, <1>10 DEF SecretsAgreed
  <2>2. \A c \in srvCache : c.sid # cliSess'.sid
    BY <1>2, <1>10, <2>1, DrawnSids DEF Resumption
  <2>3. ~Unkeyed'
    BY <1>9, <1>10 DEF Unkeyed
  <2> QED BY <1>1, <1>2, <1>8, <1>9, <1>10, <2>1, <2>2, <2>3
          DEF Resumption, Drawn, serverVars
<1>11. CASE m.type # "NEWSESSION_TICKET"
  BY <1>1, <1>2, <1>7, <1>9, <1>11, ClientKeepsSession
<1> QED BY <1>10, <1>11

(* A session that the server is about to cache is the client's, if it has  *)
(* the same name.                                                          *)
Cacheable ==
  ServerCaches /\ srv.hand = "SW_FINISHED" /\ ~srv.hit
    /\ srvSess.sid = cliSess.sid
    => /\ srvSess.ms = cliSess.ms /\ srvSess.cipher = cliSess.cipher
       /\ ~Unkeyed

LEMMA AliveCacheable ==
  ASSUME Sound, AliveInv, cli.flow # "ERROR"
  PROVE  Cacheable
<1> USE DEF AliveInv
<1> SUFFICES ASSUME ServerCaches, srv.hand = "SW_FINISHED", ~srv.hit,
                    srvSess.sid = cliSess.sid
             PROVE  /\ srvSess.ms = cliSess.ms /\ srvSess.cipher = cliSess.cipher
                    /\ ~Unkeyed
  BY DEF Cacheable
<1>1. ServerHeard = 7 /\ WriteSwitched
  BY DEF ServerHeard, WriteSwitched
<1>2. Reached
  BY Reach
<1>3. ClientSaid \in 7 .. 8 /\ ClientHeard \in 6 .. 9
  BY <1>1, <1>2, ClientDone DEF Reached
<1>4. cliSess.sid # NoSid
  BY DEF ServerCaches
<1>5. srvSess.ms = cliSess.ms
  BY <1>1, <1>4 DEF SecretsAgreed, Dropped
<1>6. srvSess.cipher = srv.newCipher
  BY <1>1 DEF Sound, ServerLocal
<1>7. cli.newCipher = srv.newCipher
  BY <1>3 DEF HelloAgreed
<1>8. cliSess.cipher = cli.newCipher
  <2>1. CASE Renewing
    BY <1>4, <2>1 DEF Sound, ClientLocal
  <2>2. CASE ~Renewing
    <3>1. ClientWriteSwitched
      BY <1>3, <2>2 DEF ClientSaid, Renewing, ClientWriteSwitched,
         ClientSettled, LastWrites, LastReads, Sound, ClientTypeOK,
         ClientStates, ClientHandStates
    <3> QED BY <3>1 DEF Sound, ClientInv, ClientKeys
  <2> QED BY <2>1, <2>2
<1>9. ~Unkeyed
  BY <1>3 DEF Unkeyed
<1> QED BY <1>5, <1>6, <1>7, <1>8, <1>9

LEMMA DeadCacheable ==
  ASSUME Sound, DeadServer, srv.flow # "ERROR"
  PROVE  Cacheable
<1>1. CASE cli.flow # "ERROR"
  BY <1>1 DEF DeadServer, Cacheable, ServerCaches
<1>2. CASE cli.flow = "ERROR"
  <2>1. cliSess.sid = NoSid
    BY <1>2 DEF Sound, ClientLocal, NoClientSession
  <2> QED BY <2>1 DEF Cacheable, ServerCaches
<1> QED BY <1>1, <1>2

(* A server that keeps the name of its session, or draws a fresh one.      *)
LEMMA ServerKeepsSessions ==
  ASSUME Sound, Resumption, UNCHANGED clientVars, srvCache' \subseteq srvCache,
         srvFresh' \in Nat, srvFresh <= srvFresh',
         \/ UNCHANGED <<srvSess.sid, srv.hit>> /\ (srv.finRead => srv'.finRead)
         \/ srvSess'.sid = NoSid
         \/ srv'.hit
         \/ srvSess'.sid = ServerSid(srvFresh) /\ srvFresh < srvFresh'
  PROVE  Resumption'
<1>1. srvFresh \in Nat /\ srvCache \subseteq ServerSessions
  BY DEF Sound, ServerTypeOK
<1> DEFINE D(sid) == sid[1] = "id" /\ sid[2] < srvFresh'
<1>2. \A sid : sid[2] \in Nat /\ Drawn(sid) => D(sid)
  BY <1>1 DEF Drawn
<1>3. /\ cliSess.sid \in Sids /\ srvSess.sid \in Sids
      /\ \A c \in srvCache : c.sid \in Sids
  BY <1>1 DEF Sound, ClientTypeOK, ClientSessions, ServerTypeOK, ServerSessions
<1>4. \A sid \in Sids : Drawn(sid) => D(sid)
  BY <1>2 DEF Sids
<1> HIDE DEF D
<1>5. (Unkeyed' <=> Unkeyed) /\ cliSess' = cliSess
  BY ClientKept DEF Unkeyed
<1>6. \A c \in srvCache : c.sid # NoSid /\ c.sid # ServerSid(srvFresh)
  BY <1>1, DrawnSids DEF Resumption, Drawn, ServerSid
<1>7. ASSUME NEW c \in srvCache'
      PROVE  /\ D(c.sid)
             /\ c.cipher # NoSuite /\ c.ms # 0
             /\ c.sid = cliSess'.sid =>
                  c.ms = cliSess'.ms /\ c.cipher = cliSess'.cipher
             /\ Unkeyed' => c.sid # cliSess'.sid
             /\ ~srv'.hit /\ ~srv'.finRead => c.sid # srvSess'.sid
  <2>1. c \in srvCache
    OBVIOUS
  <2>2. /\ Drawn(c.sid)
        /\ c.cipher # NoSuite /\ c.ms # 0
        /\ c.sid = cliSess.sid =>
             c.ms = cliSess.ms /\ c.cipher = cliSess.cipher
        /\ Unkeyed => c.sid # cliSess.sid
        /\ ~srv.hit /\ ~srv.finRead => c.sid # srvSess.sid
    BY <2>1 DEF Resumption
  <2>3. D(c.sid)
    BY <1>3, <1>4, <2>1, <2>2
  <2> QED BY <1>5, <1>6, <2>1, <2>2, <2>3
<1>8. cliSess'.sid = NoSid \/ D(cliSess'.sid) \/ cliSess'.ticket # NoTicket
  BY <1>3, <1>4, <1>5 DEF Resumption
<1>9. srvSess'.sid = NoSid \/ D(srvSess'.sid) \/ srv'.hit
  <2>1. srvFresh < srvFresh' => D(ServerSid(srvFresh))
    BY <1>1 DEF D, ServerSid
  <2> QED BY <1>3, <1>4, <2>1 DEF Resumption
<1>10. /\ cliSess'.ticket # NoTicket =>
            /\ cliSess'.sid = TicketSid(cliSess'.ticket.n)
            /\ cliSess'.ticket.ms = cliSess'.ms /\ cliSess'.ms # 0
            /\ cliSess'.ticket.suite = cliSess'.cipher
       /\ Unkeyed' => cliSess'.ticket = NoTicket
  BY <1>5 DEF Resumption
<1> QED BY <1>5, <1>7, <1>8, <1>9, <1>10 DEF Resumption, Drawn, D

LEMMA ServerResumption ==
  ASSUME Sound, Sound', Resumption, UNCHANGED clientVars, ServerStep,
         srv.flow # "ERROR" => Cacheable
  PROVE  Resumption'
<1>1. srvFresh \in Nat /\ srvFresh' \in Nat
  BY DEF Sound, ServerTypeOK
<1>2. CASE ServerFails
  BY <1>1, <1>2, ServerKeepsSessions DEF ServerFails, ServerDeal
<1>3. CASE ServerQuiet
  <2>1. /\ UNCHANGED <<srvSess, srvFresh, srv.hit, srv.finRead>>
        /\ srv.flow # "ERROR"
    BY <1>3 DEF ServerQuiet, ServerDeal
  <2>2. CASE srvCache' = srvCache
    BY <1>1, <2>1, <2>2, ServerKeepsSessions
  <2>3. CASE /\ srvCache' = srvCache \cup {srvSess} /\ ServerCaches
             /\ srv.hand = "SW_FINISHED" /\ ~srv.hit
    <3>1. (Unkeyed' <=> Unkeyed) /\ cliSess' = cliSess
      BY ClientKept DEF Unkeyed
    <3>2. /\ srvSess.sid # NoSid
          /\ srvSess.sid = cliSess.sid =>
               srvSess.ms = cliSess.ms /\ srvSess.cipher = cliSess.cipher
          /\ Unkeyed => srvSess.sid # cliSess.sid
      BY <2>1, <2>3 DEF Cacheable, ServerCaches
    <3>3. Drawn(srvSess.sid)
      BY <2>3, <3>2 DEF Resumption
    <3>4. ServerHeard = 7 /\ WriteSwitched /\ AfterClientFinished
      BY <2>3 DEF ServerHeard, WriteSwitched, AfterClientFinished
    <3>5. srvSess.cipher # NoSuite /\ srvSess.ms # 0
      BY <3>4 DEF Sound, ServerLocal, ServerInv, Keys
    <3>6. srv.finRead
      BY <3>4 DEF Sound, ServerInv, Progress
    <3>7. Resumption
      OBVIOUS
    <3> QED BY <2>1, <2>3, <3>1, <3>2, <3>3, <3>5, <3>6, <3>7
            DEF Resumption, Drawn
  <2> QED BY <1>3, <2>2, <2>3 DEF ServerQuiet
<1>4. CASE \E m \in Messages : ServerAsks(m)
  BY <1>1, <1>4, ServerKeepsSessions DEF ServerAsks, ServerDeal
<1>5. CASE \E m \in Messages : ServerAnswers(m)
  BY <1>1, <1>5, ServerKeepsSessions DEF ServerAnswers, ServerDeal
<1>6. ASSUME NEW m \in Messages, ServerWrites(m)
      PROVE  Resumption'
  <2>1. /\ UNCHANGED <<srvCache, srvSess.sid, srv.hit, srv.finRead>>
        /\ srvFresh' \in {srvFresh, srvFresh + 1}
    BY <1>6 DEF ServerWrites, ServerDeal
  <2>2. srvFresh <= srvFresh'
    BY <1>1, <2>1
  <2> QED BY <1>1, <2>1, <2>2, ServerKeepsSessions
<1>7. CASE ServerRejects
  BY <1>1, <1>7, ServerKeepsSessions DEF ServerRejects, ServerDeal
<1>8. CASE ServerHearsHello /\ ServerResumes
  BY <1>1, <1>8, ServerKeepsSessions DEF ServerHearsHello, ServerResumes
<1>9. CASE ServerHearsHello /\ ServerStarts
  BY <1>1, <1>9, ServerKeepsSessions DEF ServerHearsHello, ServerStarts
<1>10. CASE ServerReads
  BY <1>1, <1>10, ServerKeepsSessions DEF ServerReads, ServerDeal
<1> QED BY <1>2, <1>3, <1>4, <1>5, <1>6, <1>7, <1>8, <1>9, <1>10, ServerKinds
        DEF Sound

-----------------------------------------------------------------------------
(* The connection is half duplex: an endpoint that has something to read   *)
(* is waited for by nobody.                                                *)

(* A client with a message for it to read has had all of its own read.     *)
LEMMA ClientReader ==
  ASSUME Sound, AliveInv, toClient # << >>,
         \/ ClientInput.type = "CHANGE_CIPHER_SPEC"
              /\ cli.flow \in {"READING", "FINISHED"}
         \/ cli.flow = "READING" /\ ~ClientSkips(ClientInput)
  PROVE  /\ ServerHeard = ClientSaid /\ toServer = << >>
         /\ cli.wkey = srv.rkey
         /\ ClientHeard = 9 \/ cli.flow = "READING"
<1> USE DEF AliveInv
<1> DEFINE t == ClientInput.type
<1>1. Reached /\ ServerPlace /\ ClientPlace
  BY Reach, ServerTable, ClientTable DEF Sound
<1>2. ServerNext(srv.hit, srv.statusExpected, srv.certRequest, TicketDue,
                 ClientHeard, t)
  BY NextInput
<1>3. ClientInput \in Sent(toClient)
  BY SentTail, Flags DEF ClientInput
<1>4. cli.flow = "FINISHED" => ClientHeard = 9
  BY DEF Sound, ClientInv, ClientPosition, ClientHeard
<1>5. cli.flow = "READING" =>
        (ClientHeard = 6 => ClientSaid = 7) /\ (ClientHeard = 0 => ClientSaid = 1)
  BY DEF Sound, ClientInv, ClientPosition, ClientLocal, ClientHeard, ClientSaid,
         ClientTypeOK, ClientStates, ClientHandStates
<1>6. t = "HELLO_REQUEST" /\ cli.flow = "READING" => cli.hand = "OK"
  BY DEF ClientSkips
<1>7. t = "HELLO_REQUEST" => ServerIdle
  BY <1>3 DEF Streams
<1>8. t = "CHANGE_CIPHER_SPEC" => ClientHeard # 9
  BY <1>2 DEF ServerNext
<1>9. cli.flow = "READING"
  BY <1>4, <1>8
<1>10. ServerRank(t) <= ServerSaid /\ ServerRank(t) \in 1 .. 9
  BY <1>1, <1>3 DEF Reached
<1>11. /\ ClientHeard < ServerRank(t) \/ t = "HELLO_REQUEST"
  BY <1>1, <1>3 DEF Reached
<1> HIDE DEF t
<1>12. ServerHeard = ClientSaid
  <2>1. CASE t = "HELLO_REQUEST"
    <3>1. ClientSaid = 7
      BY <1>6, <1>9, <2>1 DEF ClientSaid
    <3> QED BY <1>1, <1>7, <2>1, <3>1 DEF ServerPlace
  <2>2. CASE t # "HELLO_REQUEST"
    <3>1. ClientHeard \in 0 .. 8 /\ ClientHeard < ServerSaid /\ ServerSaid \in 1 .. 9
      BY <1>1, <1>10, <1>11, <2>2 DEF Reached
    <3>2. ServerHeard \in 1 .. 7 /\ ServerHeard <= ClientSaid
      BY <1>1, <3>1 DEF ServerPlace, Reached
    <3>3. ~Renewing
      BY <1>1, <3>1 DEF ClientPlace
    <3>4. CASE ClientHeard = 0
      BY <1>5, <1>9, <3>2, <3>4
    <3>5. CASE ClientHeard \in 1 .. 8
      <4>1. cli.hit = srv.hit
        BY <3>3, <3>5 DEF HelloAgreed
      <4>2. CASE cli.hit
        BY <1>1, <3>1, <3>2, <4>2 DEF ClientPlace
      <4>3. CASE ~cli.hit /\ ClientHeard <= 5
        BY <1>1, <3>2, <3>3, <3>5, <4>3 DEF ClientPlace
      <4>4. CASE ~cli.hit /\ ClientHeard >= 6
        <5>1. ServerHeard = 7
          BY <1>1, <3>1, <4>1, <4>4 DEF ServerPlace
        <5>2. ClientSaid = 7
          BY <1>1, <1>5, <1>9, <3>1, <3>3, <4>4 DEF ClientPlace
        <5> QED BY <5>1, <5>2
      <4> QED BY <3>5, <4>2, <4>3, <4>4
    <3> QED BY <3>1, <3>4, <3>5
  <2> QED BY <2>1, <2>2
<1>13. toServer = << >>
  BY <1>1, <1>12 DEF Reached
<1>14. cli.wkey = srv.rkey
  BY <1>1, <1>12 DEF KeysAgreed, Reached
<1> QED BY <1>9, <1>12, <1>13, <1>14

(* A server with a message for it to read has nothing on the way to the    *)
(* client but HelloRequests.                                               *)
LEMMA ServerReader ==
  ASSUME Sound, AliveInv, toServer # << >>, srv.flow \in {"READING", "FINISHED"}
  PROVE  /\ ClientHeard = ServerSaid /\ cli.rkey = srv.wkey
         /\ toClient = << >> \/ Renewing
         /\ \A m \in Sent(toClient) :
              m.type = "HELLO_REQUEST" /\ m.key = cli.rkey
         /\ srv.hand = "OK" => ClientSaid = 8
<1> USE DEF AliveInv
<1>1. Reached /\ ServerPlace /\ ClientPlace
  BY Reach, ServerTable, ClientTable DEF Sound
<1>2. /\ ServerSaid \in {0, 6, 9} /\ (ServerSaid = 6 => ServerHeard >= 1)
      /\ ServerSaid = 9 => srv.hit \/ srv.hand = "OK"
      /\ srv.hand = "OK" => ServerHeard = 7 /\ ServerSaid = 9
      /\ ServerIdle => srv.hand = "OK"
      /\ ServerSaid = 6 => ~srv.hit
  BY DEF Sound, ServerLocal, ServerInv, Position, ServerSaid, ServerHeard,
         ServerIdle
<1>3. ServerHeard < ClientSaid
  BY <1>1 DEF Reached
<1>4. srv.hand = "OK" => ClientSaid = 8 /\ Renewing
  BY <1>1, <1>2, <1>3 DEF ClientPlace
<1>5. ClientHeard = ServerSaid
  <2>1. CASE ServerSaid = 0
    BY <1>1, <2>1 DEF Reached
  <2>2. CASE ServerSaid = 6
    <3>1. ClientSaid \in 2 .. 8 /\ ClientHeard <= 6
      BY <1>1, <1>2, <1>3, <2>2 DEF Reached
    <3>2. ~Renewing /\ ClientHeard \in 0 .. 9
      BY <1>1, <3>1 DEF ClientPlace
    <3>3. ~cli.hit
      BY <1>1, <1>2, <2>2, <3>1, <3>2 DEF ClientPlace, HelloAgreed
    <3> QED BY <1>1, <2>2, <3>1, <3>2, <3>3 DEF ClientPlace
  <2>3. CASE ServerSaid = 9
    <3>1. CASE srv.hand = "OK"
      BY <1>1, <1>4, <2>3, <3>1 DEF ClientPlace
    <3>2. CASE srv.hand # "OK"
      <4>1. srv.hit /\ ServerHeard >= 1
        BY <1>1, <1>2, <2>3, <3>2 DEF ServerPlace
      <4>2. ClientSaid \in 2 .. 8
        BY <1>1, <1>3, <4>1 DEF Reached
      <4>3. Renewing \/ ClientHeard >= 1
        BY <1>1, <4>2 DEF ClientPlace
      <4>4. Renewing \/ cli.hit
        BY <4>1, <4>3 DEF HelloAgreed
      <4> QED BY <1>1, <2>3, <4>2, <4>4 DEF ClientPlace
    <3> QED BY <3>1, <3>2
  <2> QED BY <1>2, <2>1, <2>2, <2>3
<1>6. cli.rkey = srv.wkey
  BY <1>2, <1>5 DEF KeysAgreed
<1>7. \A m \in Sent(toClient) : m.type = "HELLO_REQUEST" /\ ServerIdle
  BY <1>1, <1>5 DEF Reached, Streams
<1>8. \A m \in Sent(toClient) : m.key = cli.rkey
  BY <1>6, <1>7 DEF KeysAgreed, ServerRank
<1>9. toClient = << >> \/ Renewing
  BY <1>2, <1>4, <1>7, SentTail, Flags
<1> QED BY <1>4, <1>5, <1>6, <1>7, <1>8, <1>9

LEMMA AliveAgreed ==
  ASSUME Sound, AliveInv, cli.flow # "ERROR"
  PROVE  Agreed
<1> USE DEF AliveInv
<1> SUFFICES ASSUME ClientHeard = 9, ~Dropped
             PROVE  SameKeys /\ (~Renewing => cli.hit = srv.hit)
  BY DEF Agreed
<1>1. Reached /\ ServerPlace
  BY Reach, ServerTable DEF Sound
<1>2. ServerSaid = 9 /\ WriteSwitched
  BY <1>1, ServerSwitched DEF Reached, Sound
<1>3. Renewing \/ ClientReadSwitched
  BY DEF ClientHeard, ClientReadSwitched, ClientSettled, LastWrites, Renewing,
         Sound, ClientTypeOK, ClientStates, ClientHandStates
<1>4. cliSess.cipher = cli.newCipher
  BY <1>3 DEF Sound, ClientInv, ClientKeys, ClientLocal, Dropped
<1>5. cli.newCipher = srv.newCipher /\ (~Renewing => cli.hit = srv.hit)
  BY DEF HelloAgreed
<1>6. srvSess.cipher = srv.newCipher /\ srvSess.ms # 0
  BY <1>2 DEF Sound, ServerLocal, ServerInv, Keys
<1>7. srv.hit \/ ServerHeard = 7
  BY <1>1, <1>2 DEF ServerPlace
<1>8. srvSess.ms = cliSess.ms
  BY <1>7 DEF SecretsAgreed
<1> QED BY <1>4, <1>5, <1>6, <1>8 DEF SameKeys

-----------------------------------------------------------------------------
(* How a connection dies, and what is left of it.                          *)

LEMMA ClosingAppend ==
  ASSUME NEW w \in Seq(Messages), NEW m \in Messages, NEW k, Closing(w, k),
         \/ m.type \in AlertTypes \cup {"HELLO_REQUEST"} /\ m.key = k
         \/ \E x \in Sent(w) : x.type \in AlertTypes
  PROVE  Closing(Append(w, m), k)
<1>1. Len(Append(w, m)) = Len(w) + 1 /\ Len(w) \in Nat
  OBVIOUS
<1>2. /\ \A i \in 1 .. Len(w) : Append(w, m)[i] = w[i]
      /\ Append(w, m)[Len(w) + 1] = m
  OBVIOUS
<1> SUFFICES ASSUME NEW i \in 1 .. Len(w) + 1
             PROVE  \/ /\ Append(w, m)[i].type \in AlertTypes \cup {"HELLO_REQUEST"}
                       /\ Append(w, m)[i].key = k
                    \/ \E j \in 1 .. (i - 1) : Append(w, m)[j].type \in AlertTypes
  BY <1>1 DEF Closing
<1>3. CASE i \in 1 .. Len(w)
  <2>1. \/ w[i].type \in AlertTypes \cup {"HELLO_REQUEST"} /\ w[i].key = k
        \/ \E j \in 1 .. (i - 1) : w[j].type \in AlertTypes
    BY <1>3 DEF Closing
  <2>2. \A j \in 1 .. (i - 1) : Append(w, m)[j] = w[j]
    BY <1>1, <1>2, <1>3
  <2> QED BY <1>2, <1>3, <2>1, <2>2
<1>4. CASE i = Len(w) + 1
  <2>1. (\E x \in Sent(w) : x.type \in AlertTypes) =>
          \E j \in 1 .. Len(w) : w[j].type \in AlertTypes
    BY DEF Sent
  <2> QED BY <1>1, <1>2, <1>4, <2>1
<1> QED BY <1>1, <1>3, <1>4

LEMMA ClosingTail ==
  ASSUME NEW w \in Seq(Messages), NEW k, Closing(w, k), w # << >>,
         Head(w).type \notin AlertTypes
  PROVE  Closing(Tail(w), k)
<1>1. /\ Len(w) \in Nat /\ Len(Tail(w)) = Len(w) - 1 /\ Head(w) = w[1]
      /\ \A i \in 1 .. Len(w) - 1 : Tail(w)[i] = w[i + 1]
  BY TailFacts
<1> SUFFICES ASSUME NEW i \in 1 .. Len(w) - 1
             PROVE  \/ /\ Tail(w)[i].type \in AlertTypes \cup {"HELLO_REQUEST"}
                       /\ Tail(w)[i].key = k
                    \/ \E j \in 1 .. (i - 1) : Tail(w)[j].type \in AlertTypes
  BY <1>1 DEF Closing
<1>2. i + 1 \in 1 .. Len(w) /\ Tail(w)[i] = w[i + 1]
  BY <1>1
<1>3. \/ w[i + 1].type \in AlertTypes \cup {"HELLO_REQUEST"} /\ w[i + 1].key = k
      \/ \E j \in 1 .. ((i + 1) - 1) : w[j].type \in AlertTypes
  BY <1>2 DEF Closing
<1>4. ASSUME NEW j \in 1 .. ((i + 1) - 1), w[j].type \in AlertTypes
      PROVE  \E l \in 1 .. (i - 1) : Tail(w)[l].type \in AlertTypes
  <2>1. j # 1
    BY <1>1, <1>4
  <2>2. j - 1 \in 1 .. (i - 1) /\ Tail(w)[j - 1] = w[j]
    BY <1>1, <1>4, <2>1
  <2> QED BY <1>4, <2>2
<1> QED BY <1>2, <1>3, <1>4

LEMMA ClosingHead ==
  ASSUME NEW w \in Seq(Messages), NEW k, Closing(w, k), w # << >>
  PROVE  /\ Head(w).type \in AlertTypes \cup {"HELLO_REQUEST"}
         /\ Head(w).key = k
<1>1. 1 \in 1 .. Len(w) /\ Head(w) = w[1]
  BY TailFacts
<1>2. ~\E j \in 1 .. (1 - 1) : w[j].type \in AlertTypes
  OBVIOUS
<1> QED BY <1>1, <1>2 DEF Closing

LEMMA ClosingAll ==
  ASSUME NEW w, NEW k,
         \A m \in Sent(w) : m.type = "HELLO_REQUEST" /\ m.key = k
  PROVE  Closing(w, k)
BY DEF Closing, Sent

LEMMA HeadKept ==
  ASSUME NEW w \in Seq(Messages), NEW m \in Messages
  PROVE  /\ Append(w, m) # << >>
         /\ w # << >> => Head(Append(w, m)) = Head(w)
         /\ w = << >> => Head(Append(w, m)) = m
OBVIOUS

LEMMA Alerts ==
  ASSUME NEW t \in AlertTypes, NEW k
  PROVE  Message(t, k).type = t /\ Message(t, k).key = k
BY DEF Message, AlertTypes

(* The endpoint that fails says so; it says nothing more.                  *)
LEMMA ClientToldKept ==
  ASSUME Sound, Sound', Told, UNCHANGED serverVars, ClientStep
  PROVE  Told'
<1> DEFINE a == Message("FATAL_ALERT", cli.wkey)
           b == Message("NO_RENEGOTIATION_ALERT", cli.wkey)
<1>1. b.type # "FATAL_ALERT"
  BY Alerts DEF AlertTypes
<1>2. /\ toClient \in Seq(Messages) /\ toServer \in Seq(Messages)
      /\ toServer' \in Seq(Messages) /\ srv' = srv
  BY Flags, FlagsNext, ServerKept
<1> HIDE DEF a, b
<1>3. ASSUME NEW m, toServer' = Append(toServer, m)
      PROVE  m \in Messages /\ Sent(toServer') = Sent(toServer) \cup {m}
  BY <1>2, <1>3, LastSent, SentAppend
<1>4. toClient # << >> => Sent(Tail(toClient)) \subseteq Sent(toClient)
  BY <1>2, SentTail
<1>5. cli.flow # "ERROR"
  BY ClientKinds DEF Sound, ClientFails, ClientQuiet, ClientOffers, ClientWrites,
     ClientHearsHello, ClientReads, ClientReadsRequest
<1>6. \A m \in Sent(toServer) : m.type # "FATAL_ALERT"
  BY <1>5 DEF Told
<1>7. toClient' = toClient \/ (toClient # << >> /\ toClient' = Tail(toClient))
  BY ClientKinds DEF Sound, ClientFails, ClientQuiet, ClientOffers, ClientWrites,
     ClientHearsHello, ClientReads, ClientReadsRequest
<1>8. \A m \in Sent(toClient') : m.type = "FATAL_ALERT" => srv'.flow = "ERROR"
  BY <1>2, <1>4, <1>7 DEF Told
<1>9. \/ toServer' = toServer
      \/ \E m \in Messages :
           toServer' = Append(toServer, m) /\ m.type # "FATAL_ALERT"
      \/ cli'.flow = "ERROR"
  <2>1. CASE ClientFails
    BY <2>1 DEF ClientFails
  <2>2. CASE ClientQuiet \/ ClientHearsHello \/ ClientReads
    BY <2>2 DEF ClientQuiet, ClientHearsHello, ClientReads
  <2>3. CASE \E m \in Messages : ClientOffers(m)
    BY <2>3 DEF ClientOffers
  <2>4. CASE \E m \in Messages : ClientWrites(m)
    BY <2>4 DEF ClientWrites
  <2>5. CASE ClientReadsRequest
    BY <1>1, <1>3, <2>5 DEF ClientReadsRequest, b
  <2> QED BY <2>1, <2>2, <2>3, <2>4, <2>5, ClientKinds DEF Sound
<1>10. \A m \in Sent(toServer') : m.type = "FATAL_ALERT" => cli'.flow = "ERROR"
  BY <1>3, <1>6, <1>9
<1> QED BY <1>8, <1>10 DEF Told

LEMMA ServerToldKept ==
  ASSUME Sound, Sound', Told, UNCHANGED clientVars, ServerStep
  PROVE  Told'
<1> DEFINE b == Message("NO_RENEGOTIATION_ALERT", srv.wkey)
<1>1. b.type # "FATAL_ALERT"
  BY Alerts DEF AlertTypes
<1>2. /\ toClient \in Seq(Messages) /\ toServer \in Seq(Messages)
      /\ toClient' \in Seq(Messages) /\ cli' = cli
  BY Flags, FlagsNext, ClientKept
<1> HIDE DEF b
<1>3. ASSUME NEW m, toClient' = Append(toClient, m)
      PROVE  m \in Messages /\ Sent(toClient') = Sent(toClient) \cup {m}
  BY <1>2, <1>3, LastSent, SentAppend
<1>4. toServer # << >> => Sent(Tail(toServer)) \subseteq Sent(toServer)
  BY <1>2, SentTail
<1>5. srv.flow # "ERROR"
  BY ServerKinds DEF Sound, ServerFails, ServerQuiet, ServerAsks, ServerAnswers,
     ServerWrites, ServerRejects, ServerHearsHello, ServerReads
<1>6. \A m \in Sent(toClient) : m.type # "FATAL_ALERT"
  BY <1>5 DEF Told
<1>7. toServer' = toServer \/ (toServer # << >> /\ toServer' = Tail(toServer))
  BY ServerKinds DEF Sound, ServerFails, ServerQuiet, ServerAsks, ServerAnswers,
     ServerWrites, ServerRejects, ServerHearsHello, ServerReads
<1>8. \A m \in Sent(toServer') : m.type = "FATAL_ALERT" => cli'.flow = "ERROR"
  BY <1>2, <1>4, <1>7 DEF Told
<1>9. \/ toClient' = toClient
      \/ \E m \in Messages :
           toClient' = Append(toClient, m) /\ m.type # "FATAL_ALERT"
      \/ srv'.flow = "ERROR"
  <2>1. CASE ServerFails
    BY <2>1 DEF ServerFails
  <2>2. CASE ServerQuiet \/ ServerHearsHello \/ ServerReads
    BY <2>2 DEF ServerQuiet, ServerHearsHello, ServerReads
  <2>3. CASE \E m \in Messages : ServerAsks(m) \/ ServerAnswers(m)
    BY <2>3 DEF ServerAsks, ServerAnswers
  <2>4. CASE \E m \in Messages : ServerWrites(m)
    BY <2>4 DEF ServerWrites
  <2>5. CASE ServerRejects
    BY <1>1, <1>3, <2>5 DEF ServerRejects, b
  <2> QED BY <2>1, <2>2, <2>3, <2>4, <2>5, ServerKinds DEF Sound
<1>10. \A m \in Sent(toClient') : m.type = "FATAL_ALERT" => srv'.flow = "ERROR"
  BY <1>3, <1>6, <1>9
<1> QED BY <1>8, <1>10 DEF Told

DeadInv == DeadClient /\ DeadServer /\ Agreed

(* What an alert of the client does to the stream to the server.           *)
LEMMA ClientAlerts ==
  ASSUME Sound, Sound', NEW t \in AlertTypes,
         toServer' = Append(toServer, Message(t, cli.wkey))
  PROVE  /\ toServer' # << >>
         /\ toServer # << >> => Head(toServer') = Head(toServer)
         /\ toServer = << >> =>
              Head(toServer').type = t /\ Head(toServer').key = cli.wkey
         /\ \E m \in Sent(toServer') : m.type \in AlertTypes
<1> DEFINE a == Message(t, cli.wkey)
<1>1. a.type = t /\ a.key = cli.wkey
  BY Alerts
<1>2. toServer \in Seq(Messages) /\ toServer' \in Seq(Messages)
      /\ toServer' = Append(toServer, a)
  BY Flags, FlagsNext
<1> HIDE DEF a
<1>3. a \in Messages
  BY <1>2, LastSent
<1> QED BY <1>1, <1>2, <1>3, HeadKept, SentAppend

LEMMA ServerAlerts ==
  ASSUME Sound, Sound', NEW t \in AlertTypes,
         toClient' = Append(toClient, Message(t, srv.wkey))
  PROVE  \E a \in Messages :
           /\ toClient' = Append(toClient, a)
           /\ a.type = t /\ a.key = srv.wkey
<1> DEFINE a == Message(t, srv.wkey)
<1>1. a.type = t /\ a.key = srv.wkey
  BY Alerts
<1>2. toClient \in Seq(Messages) /\ toClient' \in Seq(Messages)
      /\ toClient' = Append(toClient, a)
  BY Flags, FlagsNext
<1> HIDE DEF a
<1>3. a \in Messages
  BY <1>2, LastSent
<1> QED BY <1>1, <1>2, <1>3

(* A client that fails.                                                    *)
LEMMA ClientFailsDying ==
  ASSUME Sound, Sound', AliveInv, Alive, UNCHANGED serverVars, ClientFails
  PROVE  DeadInv'
<1>1. cli'.flow = "ERROR"
  BY DEF ClientFails
<1>2. toClient # << >> /\ ClientInput.type \notin AlertTypes
  BY SentTail, Flags DEF ClientFails, Alive, ClientInput
<1>3. toServer' = Append(toServer, Message("FATAL_ALERT", cli.wkey))
  BY <1>2 DEF ClientFails, AlertTypes
<1>4. toServer = << >> /\ cli.wkey = srv.rkey
  BY <1>2, ClientReader DEF ClientFails
<1>5. /\ toServer' # << >> /\ Head(toServer').type = "FATAL_ALERT"
      /\ Head(toServer').key = srv.rkey
  BY <1>3, <1>4, ClientAlerts DEF AlertTypes
<1>6. DeadServer'
  BY <1>1, <1>5, ServerKept DEF DeadServer, AlertTypes
<1> QED BY <1>1, <1>6 DEF DeadInv, DeadClient, Agreed

LEMMA ClientFailsDead ==
  ASSUME Sound, Sound', DeadInv, Told, UNCHANGED serverVars, ClientFails
  PROVE  DeadInv' /\ ~Alive'
<1>1. cli'.flow = "ERROR" /\ cli.flow # "ERROR" /\ toClient # << >>
  BY DEF ClientFails
<1>2. srv.flow # "ERROR" =>
        /\ toServer' # << >> /\ Head(toServer').type \in AlertTypes
        /\ Head(toServer').key = srv.rkey
  <2> SUFFICES ASSUME srv.flow # "ERROR"
               PROVE  /\ toServer' # << >> /\ Head(toServer').type \in AlertTypes
                      /\ Head(toServer').key = srv.rkey
    OBVIOUS
  <2>1. ClientInput.type # "FATAL_ALERT"
    BY <1>1, SentTail, Flags DEF Told, ClientInput
  <2>2. toServer' = Append(toServer, Message("FATAL_ALERT", cli.wkey))
    BY <2>1 DEF ClientFails
  <2> QED BY <2>2, ClientAlerts DEF AlertTypes, DeadInv, DeadServer
<1>3. DeadServer'
  BY <1>1, <1>2, ServerKept DEF DeadServer
<1> QED BY <1>1, <1>3 DEF DeadInv, DeadClient, Agreed, Alive

(* A client that refuses to renegotiate.                                   *)
LEMMA ClientRefusesDying ==
  ASSUME Sound, Sound', AliveInv, Alive, UNCHANGED serverVars,
         ClientReadsRequest, toServer' # toServer
  PROVE  DeadInv'
<1> USE DEF AliveInv
<1>1. /\ toClient # << >> /\ toClient' = Tail(toClient)
      /\ ClientInput.type = "HELLO_REQUEST"
      /\ toServer' = Append(toServer, Message("NO_RENEGOTIATION_ALERT", cli.wkey))
      /\ cli'.hand = "CR_HELLO_REQ"
      /\ ClientSaid = 7 /\ ClientHeard = 9 /\ ~Renewing
      /\ ClientHeard' = 9 /\ ~Renewing'
      /\ UNCHANGED <<cliSess, cli.newCipher, cli.hit, cli.rkey>>
  BY DEF ClientReadsRequest, ClientDeal
<1>2. Reached /\ ServerPlace
  BY Reach, ServerTable DEF Sound
<1>3. ClientInput \in Sent(toClient) /\ Sent(Tail(toClient)) \subseteq Sent(toClient)
  BY <1>1, SentTail, Flags DEF ClientInput
<1>4. ServerIdle /\ ServerHeard = 7 /\ ~srv.cleanuphand
  BY <1>1, <1>2, <1>3 DEF Streams, ServerPlace, Sound, ServerLocal, ServerIdle
<1>5. toServer = << >> /\ cli.wkey = srv.rkey /\ cli.rkey = srv.wkey
  BY <1>1, <1>2, <1>4 DEF Reached, KeysAgreed
<1>6. \A m \in Sent(toClient) : m.type = "HELLO_REQUEST"
  BY <1>1, <1>2 DEF Reached
<1>7. \A m \in Sent(toClient) : m.key = cli.rkey
  BY <1>5, <1>6 DEF KeysAgreed, ServerRank
<1>8. Closing(toClient', cli'.rkey)
  BY <1>1, <1>3, <1>6, <1>7, ClosingAll
<1>9. Established'
  BY <1>1 DEF Established
<1>10. DeadClient'
  BY <1>1, <1>4, <1>5, <1>8, <1>9, ServerKept DEF DeadClient, Alive
<1>11. DeadServer'
  <2>1. /\ toServer' # << >> /\ Head(toServer').type = "NO_RENEGOTIATION_ALERT"
        /\ Head(toServer').key = srv.rkey
    BY <1>1, <1>5, ClientAlerts DEF AlertTypes
  <2> QED BY <1>4, <1>9, <2>1, ServerKept DEF DeadServer, AlertTypes
<1>12. Agreed'
  <2>1. SameKeys /\ cli.hit = srv.hit
    BY <1>1, AliveAgreed DEF Agreed, Dropped, Alive
  <2> QED BY <1>1, <2>1, ServerKept DEF Agreed, Dropped, SameKeys
<1> QED BY <1>10, <1>11, <1>12 DEF DeadInv

(* The other steps of a client on a dead connection.                       *)
LEMMA ClientQuietDead ==
  ASSUME Sound, DeadInv, ~Alive, UNCHANGED serverVars, ClientQuiet
  PROVE  DeadInv' /\ ~Alive'
<1>1. /\ UNCHANGED <<cliSess, toClient, toServer, cli.rkey, cli.wkey>>
      /\ UNCHANGED <<cli.hit, cli.newCipher, ClientHeard>>
      /\ Renewing' <=> Renewing
      /\ cli.flow # "ERROR" /\ cli'.flow # "ERROR" /\ (Established => Established')
  BY DEF ClientQuiet, ClientDeal
<1>2. ~Alive'
  BY <1>1, ServerKept DEF Alive
<1>3. DeadClient'
  BY <1>1, ServerKept DEF DeadInv, DeadClient
<1>4. DeadServer'
  BY <1>1, ServerKept DEF DeadInv, DeadServer
<1>5. Agreed'
  BY <1>1, ServerKept DEF DeadInv, Agreed, Dropped, SameKeys
<1> QED BY <1>2, <1>3, <1>4, <1>5 DEF DeadInv

LEMMA ClientOpensDead ==
  ASSUME Sound, Sound', DeadInv, UNCHANGED serverVars, NEW m \in Messages,
         (ClientOffers(m) /\ ClientOpens(m)) \/ ClientWrites(m)
  PROVE  DeadInv' /\ ~Alive'
<1>1. /\ toServer' = Append(toServer, m) /\ toClient' = toClient
      /\ cli.flow # "ERROR" /\ cli'.flow # "ERROR" /\ ~Established
      /\ cli'.rkey = cli.rkey
  BY DEF ClientOffers, ClientOpens, ClientWrites, Established, ClientDeal
<1>2. srv.flow = "ERROR"
  BY <1>1 DEF DeadInv, DeadServer
<1>3. DeadClient'
  BY <1>1, <1>2, ServerKept DEF DeadInv, DeadClient
<1>4. DeadServer' /\ ~Alive'
  BY <1>2, ServerKept DEF DeadServer, Alive
<1>5. Agreed'
  <2>1. CASE ClientOpens(m)
    BY <2>1 DEF ClientOpens, Agreed
  <2>2. CASE ClientWrites(m) /\ ClientHeard = 9
    <3>1. /\ ~Renewing /\ ClientHeard' = ClientHeard
          /\ UNCHANGED <<cli.hit, cli.newCipher>>
          /\ ClientNext(cli.hit, cli.certReq # "no", cli.certReq = "send",
                        cli.npnSeen, ClientSaid, m)
          /\ m.type # "CLIENT_KEY_EXCHANGE" => cliSess'.ms = cliSess.ms
          /\ \/ cliSess'.cipher = cli.newCipher
             \/ cliSess'.cipher = cliSess.cipher
      BY <2>2 DEF ClientWrites, ClientDeal
    <3>2. SameKeys /\ cli.hit = srv.hit
      BY <1>1, <2>2, <3>1 DEF DeadInv, Agreed, Dropped
    <3>3. m.type # "CLIENT_KEY_EXCHANGE"
      <4>1. ClientPlace
        BY ClientTable DEF Sound
      <4> QED BY <2>2, <3>1, <4>1 DEF ClientNext, ClientPlace
    <3> QED BY <3>1, <3>2, <3>3, ServerKept DEF Agreed, Dropped, SameKeys
  <2>3. CASE ClientWrites(m) /\ ClientHeard # 9
    BY <2>3 DEF ClientWrites, Agreed
  <2> QED BY <2>1, <2>2, <2>3
<1> QED BY <1>3, <1>4, <1>5 DEF DeadInv

LEMMA ClientRenewsDead ==
  ASSUME Sound, Sound', DeadInv, ~Alive, UNCHANGED serverVars,
         NEW m \in Messages, ClientOffers(m), ClientRenews(m)
  PROVE  DeadInv' /\ ~Alive'
<1>1. /\ toServer' = Append(toServer, m) /\ toClient' = toClient
      /\ cli.flow # "ERROR" /\ cli'.flow # "ERROR" /\ Established
      /\ ~Renewing /\ Renewing' /\ cli'.rkey = cli.rkey
  BY DEF ClientOffers, ClientRenews
<1>2. toServer \in Seq(Messages)
  BY Flags
<1>3. srv.flow # "ERROR" => toServer # << >> /\ Head(toServer') = Head(toServer)
                            /\ toServer' # << >>
  BY <1>1, <1>2, HeadKept DEF DeadInv, DeadServer
<1>4. Established'
  BY <1>1 DEF Established
<1>5. DeadClient'
  BY <1>1, <1>4, ServerKept DEF DeadInv, DeadClient
<1>6. DeadServer'
  BY <1>1, <1>3, <1>4, ServerKept DEF DeadInv, DeadServer
<1>7. Agreed'
  <2>1. /\ ClientHeard = 9 /\ UNCHANGED cli.newCipher
        /\ cliSess' = IF cliSess.sid = NoSid THEN NoClientSession ELSE cliSess
    BY DEF ClientOffers, ClientRenews
  <2>2. SameKeys
    BY <1>1, <2>1 DEF DeadInv, Agreed, Dropped
  <2>3. CASE cliSess.sid = NoSid
    BY <1>1, <2>1, <2>3 DEF Agreed, Dropped, NoClientSession
  <2>4. CASE cliSess.sid # NoSid
    BY <1>1, <2>1, <2>2, <2>4, ServerKept DEF Agreed, SameKeys
  <2> QED BY <2>3, <2>4
<1>8. ~Alive'
  BY <1>1, <1>2, SentAppend, ServerKept DEF Alive
<1> QED BY <1>5, <1>6, <1>7, <1>8 DEF DeadInv

LEMMA ClientReadsDead ==
  ASSUME Sound, DeadInv
  PROVE  ~ClientHearsHello /\ ~ClientReads
<1> SUFFICES ASSUME ClientHearsHello \/ ClientReads PROVE FALSE
  OBVIOUS
<1>1. /\ toClient # << >> /\ cli.flow # "ERROR"
      /\ ClientInput.type \notin AlertTypes \cup {"HELLO_REQUEST"}
  BY DEF ClientHearsHello, ClientReads, AlertTypes
<1> QED BY <1>1, ClosingHead, Flags DEF DeadInv, DeadClient, ClientInput

LEMMA ClientReadsRequestDead ==
  ASSUME Sound, Sound', DeadInv, ~Alive, UNCHANGED serverVars,
         ClientReadsRequest
  PROVE  DeadInv' /\ ~Alive'
<1>1. /\ toClient # << >> /\ toClient' = Tail(toClient)
      /\ ClientInput.type = "HELLO_REQUEST"
      /\ UNCHANGED <<cliSess, cli.newCipher, cli.hit, cli.rkey, cli.wkey>>
      /\ ClientHeard' = ClientHeard /\ (Renewing' <=> Renewing)
      /\ cli.flow # "ERROR" /\ cli'.flow # "ERROR" /\ (Established => Established')
  BY DEF ClientReadsRequest, ClientDeal
<1>2. /\ toClient \in Seq(Messages) /\ toServer \in Seq(Messages)
      /\ toServer' \in Seq(Messages)
  BY Flags, FlagsNext
<1>3. /\ Head(toClient).type \notin AlertTypes
      /\ Sent(toClient) = Sent(toClient') \cup {Head(toClient)}
  BY <1>1, <1>2, SentTail DEF ClientInput, AlertTypes
<1>4. DeadClient'
  <2>1. Closing(toClient', cli'.rkey)
    BY <1>1, <1>2, <1>3, ClosingTail DEF DeadInv, DeadClient
  <2>2. Established
    BY <1>1, <1>3 DEF DeadInv, DeadClient
  <2> QED BY <1>1, <1>3, <2>1, <2>2, ServerKept DEF DeadInv, DeadClient
<1>5. CASE toServer' = toServer
  <2>1. DeadServer'
    BY <1>1, <1>5, ServerKept DEF DeadInv, DeadServer
  <2>2. ~Alive'
    BY <1>3, <1>5, <1>1, ServerKept DEF Alive
  <2>3. Agreed'
    BY <1>1, ServerKept DEF DeadInv, Agreed, Dropped, SameKeys
  <2> QED BY <1>4, <2>1, <2>2, <2>3 DEF DeadInv
<1>6. CASE toServer' # toServer
  <2>1. /\ toServer' = Append(toServer,
                              Message("NO_RENEGOTIATION_ALERT", cli.wkey))
        /\ ~Renewing
    BY <1>6 DEF ClientReadsRequest
  <2>2. srv.flow # "ERROR" => toServer # << >>
    BY <2>1 DEF DeadInv, DeadServer
  <2>3. /\ toServer' # << >> /\ (toServer # << >> => Head(toServer') = Head(toServer))
        /\ \E m \in Sent(toServer') : m.type \in AlertTypes
    BY <2>1, ClientAlerts DEF AlertTypes
  <2>4. DeadServer'
    BY <1>1, <2>2, <2>3, ServerKept DEF DeadInv, DeadServer
  <2>5. ~Alive'
    BY <2>3 DEF Alive
  <2>6. Agreed'
    BY <1>1, ServerKept DEF DeadInv, Agreed, Dropped, SameKeys
  <2> QED BY <1>4, <2>4, <2>5, <2>6 DEF DeadInv
<1> QED BY <1>5, <1>6

LEMMA ClientStepDead ==
  ASSUME Sound, Sound', DeadInv, ~Alive, Told, UNCHANGED serverVars, ClientStep
  PROVE  DeadInv' /\ ~Alive'
BY ClientKinds, ClientFailsDead, ClientQuietDead, ClientOpensDead,
   ClientRenewsDead, ClientReadsDead, ClientReadsRequestDead DEF Sound

(* A client's step on an alive connection leaves it alive, or it is one of *)
(* the two that end it.                                                    *)
LEMMA ClientStepDying ==
  ASSUME Sound, Sound', AliveInv, Alive, ~Alive', UNCHANGED serverVars,
         ClientStep
  PROVE  DeadInv'
<1>1. /\ toClient \in Seq(Messages) /\ toServer \in Seq(Messages)
      /\ srv'.flow = srv.flow
  BY Flags, ServerKept
<1>2. toClient' = toClient \/ (toClient # << >> /\ toClient' = Tail(toClient))
  BY ClientKinds DEF Sound, ClientFails, ClientQuiet, ClientOffers, ClientWrites,
     ClientHearsHello, ClientReads, ClientReadsRequest
<1>3. \A m \in Sent(toClient') : m.type \notin AlertTypes
  BY <1>1, <1>2, SentTail DEF Alive
<1>4. /\ cli.flow # "ERROR" /\ srv.flow # "ERROR"
      /\ \A m \in Sent(toServer) : m.type \notin AlertTypes
  BY DEF Alive
<1>5. CASE \/ ClientQuiet \/ ClientHearsHello \/ ClientReads
           \/ ClientReadsRequest /\ toServer' = toServer
  <2>1. toServer' = toServer /\ cli'.flow # "ERROR"
    BY <1>5 DEF ClientQuiet, ClientHearsHello, ClientReads, ClientReadsRequest
  <2> QED BY <1>1, <1>3, <1>4, <2>1 DEF Alive
<1>6. ASSUME NEW m \in Messages, ClientOffers(m) \/ ClientWrites(m)
      PROVE  FALSE
  <2>1. /\ toServer' = Append(toServer, m) /\ cli'.flow # "ERROR"
        /\ m.type \notin AlertTypes
    BY <1>6 DEF ClientOffers, ClientWrites, AlertTypes
  <2>2. Sent(toServer') = Sent(toServer) \cup {m}
    BY <1>1, <2>1, SentAppend
  <2> QED BY <1>1, <1>3, <1>4, <2>1, <2>2 DEF Alive
<1> QED BY <1>5, <1>6, ClientKinds, ClientFailsDying, ClientRefusesDying
        DEF Sound

(* A server that fails, or refuses to renegotiate.                         *)
LEMMA ServerFailsDying ==
  ASSUME Sound, Sound', AliveInv, Alive, UNCHANGED clientVars,
         ServerFails \/ ServerRejects
  PROVE  DeadInv'
<1> USE DEF AliveInv
<1>1. /\ toServer # << >> /\ toServer' = Tail(toServer)
      /\ srv.flow \in {"READING", "FINISHED"}
      /\ UNCHANGED <<srvSess, srv.hit, srv.newCipher, srv.rkey, srv.wkey,
                     srv.cleanuphand>>
  BY DEF ServerFails, ServerRejects, ServerDeal
<1>2. ServerInput.type \notin AlertTypes
  BY <1>1, SentTail, Flags DEF Alive, ServerInput
<1>3. \E t \in AlertTypes : toClient' = Append(toClient, Message(t, srv.wkey))
  BY <1>2 DEF ServerFails, ServerRejects, AlertTypes
<1>4. PICK a \in Messages :
        toClient' = Append(toClient, a) /\ a.type \in AlertTypes
        /\ a.key = srv.wkey
  BY <1>3, ServerAlerts
<1>5. /\ cli.rkey = srv.wkey /\ (toClient = << >> \/ Renewing)
      /\ \A m \in Sent(toClient) : m.type = "HELLO_REQUEST" /\ m.key = cli.rkey
      /\ srv.hand = "OK" => ClientSaid = 8
  BY <1>1, ServerReader
<1>6. toClient \in Seq(Messages) /\ toServer \in Seq(Messages)
  BY Flags
<1>7. DeadClient'
  <2>1. Closing(toClient', cli.rkey)
    BY <1>4, <1>5, <1>6, ClosingAll, ClosingAppend
  <2>2. a \in Sent(toClient')
    BY <1>4, <1>6, SentAppend
  <2>3. Established \/ Head(toClient') = a
    BY <1>4, <1>5, <1>6, HeadKept DEF Established
  <2>4. toClient' # << >>
    BY <1>4, <1>6, HeadKept
  <2> QED BY <1>4, <2>1, <2>2, <2>3, <2>4, ClientKept DEF DeadClient
<1>8. DeadServer'
  <2>1. CASE ServerFails
    BY <2>1 DEF ServerFails, DeadServer
  <2>2. CASE ServerRejects
    <3>1. srv.hand = "OK"
      BY <2>2 DEF ServerRejects
    <3>2. Renewing /\ ServerHeard = 7 /\ ~srv.cleanuphand
      BY <1>5, <3>1, ClientTable DEF Sound, ClientPlace, ServerHeard, ServerLocal
    <3>3. cli.wkey = srv.rkey
      BY <3>2 DEF KeysAgreed
    <3>4. Tail(toServer) = << >>
      <4>1. \A m \in Sent(toServer) : ClientRank(m) = 8
        BY <3>2, Reach DEF Reached
      <4>2. \A i \in 1 .. Len(toServer) : ClientRank(toServer[i]) = 8
        BY <4>1 DEF Sent
      <4>3. \A i, j \in 1 .. Len(toServer) : i < j =>
              ClientRank(toServer[i]) < ClientRank(toServer[j])
        BY DEF Streams, ToServerFlow, ClientFlow
      <4>4. ~(1 \in 1 .. Len(toServer) /\ 2 \in 1 .. Len(toServer))
        BY <4>2, <4>3
      <4>5. Tail(toServer) \in Seq(Messages) /\ Len(Tail(toServer)) = Len(toServer) - 1
            /\ Len(toServer) \in Nat
        BY <1>1, <1>6, TailFacts
      <4>6. Tail(toServer) # << >> => Len(Tail(toServer)) >= 1
        BY <4>5, TailFacts
      <4> QED BY <4>4, <4>5, <4>6
    <3>5. Established
      BY <3>2 DEF Established
    <3> QED BY <1>1, <3>2, <3>3, <3>4, <3>5, ClientKept DEF DeadServer, Alive
  <2> QED BY <2>1, <2>2
<1>9. Agreed'
  <2>1. Agreed
    BY AliveAgreed DEF Alive
  <2> QED BY <1>1, <2>1, ClientKept DEF Agreed, Dropped, SameKeys
<1> QED BY <1>7, <1>8, <1>9 DEF DeadInv

LEMMA ServerFailsDead ==
  ASSUME Sound, Sound', DeadInv, Told, UNCHANGED clientVars, ServerFails
  PROVE  DeadInv' /\ ~Alive'
<1>1. /\ toServer # << >> /\ srv.flow # "ERROR" /\ srv'.flow = "ERROR"
      /\ UNCHANGED <<srvSess, srv.hit, srv.newCipher, srv.wkey>>
  BY DEF ServerFails, ServerDeal
<1>2. DeadServer' /\ ~Alive'
  BY <1>1 DEF DeadServer, Alive
<1>3. ASSUME cli.flow # "ERROR" PROVE DeadClient'
  <2>1. ServerInput.type # "FATAL_ALERT"
    BY <1>1, <1>3, SentTail, Flags DEF Told, ServerInput
  <2>2. PICK a \in Messages :
          toClient' = Append(toClient, a) /\ a.type \in AlertTypes
          /\ a.key = srv.wkey
    BY <2>1, ServerAlerts DEF ServerFails, AlertTypes
  <2>3. Established
    BY <1>1, <1>3 DEF DeadInv, DeadServer
  <2>4. toClient \in Seq(Messages)
    BY Flags
  <2>5. Closing(toClient', cli.rkey)
    BY <1>3, <2>2, <2>4, ClosingAppend DEF DeadInv, DeadClient
  <2>6. a \in Sent(toClient')
    BY <2>2, <2>4, SentAppend
  <2> QED BY <2>2, <2>3, <2>5, <2>6, ClientKept DEF DeadClient
<1>4. DeadClient'
  BY <1>3, ClientKept DEF DeadClient
<1>5. Agreed'
  BY <1>1, ClientKept DEF DeadInv, Agreed, Dropped, SameKeys
<1> QED BY <1>2, <1>4, <1>5 DEF DeadInv

(* The other steps of a server on a dead connection.                       *)
LEMMA ServerQuietDead ==
  ASSUME Sound, DeadInv, ~Alive, UNCHANGED clientVars, ServerQuiet
  PROVE  DeadInv' /\ ~Alive'
<1>1. /\ UNCHANGED <<srvSess, toClient, toServer, srv.hit, srv.newCipher,
                     srv.rkey, srv.wkey>>
      /\ srv.flow # "ERROR" /\ srv'.flow # "ERROR" /\ (ServerIdle => ServerIdle')
      /\ srv'.cleanuphand => srv.cleanuphand
  BY DEF ServerQuiet, ServerDeal
<1>2. ~Alive'
  BY <1>1, ClientKept DEF Alive
<1>3. DeadClient'
  BY <1>1, ClientKept DEF DeadInv, DeadClient
<1>4. DeadServer'
  BY <1>1, ClientKept DEF DeadInv, DeadServer
<1>5. Agreed'
  BY <1>1, ClientKept DEF DeadInv, Agreed, Dropped, SameKeys
<1> QED BY <1>2, <1>3, <1>4, <1>5 DEF DeadInv

LEMMA ServerWritesDead ==
  ASSUME Sound, DeadInv, ~Alive, UNCHANGED clientVars, NEW m \in Messages,
         ServerAsks(m) \/ ServerAnswers(m) \/ ServerWrites(m)
  PROVE  DeadInv' /\ ~Alive'
<1>1. /\ toClient' = Append(toClient, m) /\ toServer' = toServer
      /\ UNCHANGED <<srv.hit, srv.newCipher, srv.rkey, srv.cleanuphand>>
      /\ srvSess'.ms = srvSess.ms
      /\ srvSess'.cipher = srvSess.cipher \/ srvSess'.cipher = srv.newCipher
      /\ srv.flow # "ERROR" /\ srv'.flow # "ERROR"
      /\ m.key = srv.wkey
      /\ \/ ~ServerIdle
         \/ ServerIdle' /\ m.type = "HELLO_REQUEST" /\ UNCHANGED srv.wkey
  BY DEF ServerAsks, ServerAnswers, ServerWrites, ServerDeal
<1>2. toClient \in Seq(Messages)
  BY Flags
<1>3. /\ Sent(toClient') = Sent(toClient) \cup {m} /\ toClient' # << >>
      /\ toClient # << >> => Head(toClient') = Head(toClient)
  BY <1>1, <1>2, SentAppend, HeadKept
<1>4. ~Alive'
  BY <1>1, <1>3, ClientKept DEF Alive
<1>5. ASSUME cli.flow # "ERROR" PROVE DeadClient'
  <2>1. Closing(toClient', cli.rkey)
    BY <1>1, <1>2, <1>5, ClosingAppend DEF DeadInv, DeadClient
  <2>2. Established \/ Head(toClient').type \in AlertTypes
    BY <1>3, <1>5 DEF DeadInv, DeadClient
  <2>3. \/ \E x \in Sent(toClient') : x.type \in AlertTypes
        \/ srv'.flow # "ERROR" /\ ServerIdle' /\ cli.rkey = srv'.wkey
    BY <1>1, <1>3, <1>5 DEF DeadInv, DeadClient
  <2> QED BY <1>3, <2>1, <2>2, <2>3, ClientKept DEF DeadClient
<1>6. DeadClient'
  BY <1>5, ClientKept DEF DeadClient
<1>7. DeadServer'
  BY <1>1, ClientKept DEF DeadInv, DeadServer
<1>8. Agreed'
  BY <1>1, ClientKept DEF DeadInv, Agreed, Dropped, SameKeys
<1> QED BY <1>4, <1>6, <1>7, <1>8 DEF DeadInv

LEMMA ServerReadsDead ==
  ASSUME DeadInv
  PROVE  ~ServerRejects /\ ~ServerHearsHello /\ ~ServerReads
BY DEF DeadInv, DeadServer, ServerRejects, ServerHearsHello, ServerReads,
       ServerInput, AlertTypes

LEMMA ServerStepDead ==
  ASSUME Sound, Sound', DeadInv, ~Alive, Told, UNCHANGED clientVars, ServerStep
  PROVE  DeadInv' /\ ~Alive'
BY ServerKinds, ServerFailsDead, ServerQuietDead, ServerWritesDead,
   ServerReadsDead DEF Sound

LEMMA ServerStepDying ==
  ASSUME Sound, Sound', AliveInv, Alive, ~Alive', UNCHANGED clientVars,
         ServerStep
  PROVE  DeadInv'
<1>1. /\ toClient \in Seq(Messages) /\ toServer \in Seq(Messages)
      /\ cli'.flow = cli.flow
  BY Flags, ClientKept
<1>2. toServer' = toServer \/ (toServer # << >> /\ toServer' = Tail(toServer))
  BY ServerKinds DEF Sound, ServerFails, ServerQuiet, ServerAsks, ServerAnswers,
     ServerWrites, ServerRejects, ServerHearsHello, ServerReads
<1>3. \A m \in Sent(toServer') : m.type \notin AlertTypes
  BY <1>1, <1>2, SentTail DEF Alive
<1>4. /\ cli.flow # "ERROR" /\ srv.flow # "ERROR"
      /\ \A m \in Sent(toClient) : m.type \notin AlertTypes
  BY DEF Alive
<1>5. CASE ServerQuiet \/ ServerHearsHello \/ ServerReads
  <2>1. toClient' = toClient /\ srv'.flow # "ERROR"
    BY <1>5 DEF ServerQuiet, ServerHearsHello, ServerReads
  <2> QED BY <1>1, <1>3, <1>4, <2>1 DEF Alive
<1>6. ASSUME NEW m \in Messages,
             ServerAsks(m) \/ ServerAnswers(m) \/ ServerWrites(m)
      PROVE  FALSE
  <2>1. /\ toClient' = Append(toClient, m) /\ srv'.flow # "ERROR"
        /\ m.type \notin AlertTypes
    BY <1>6 DEF ServerAsks, ServerAnswers, ServerWrites, AlertTypes
  <2>2. Sent(toClient') = Sent(toClient) \cup {m}
    BY <1>1, <2>1, SentAppend
  <2> QED BY <1>1, <1>3, <1>4, <2>1, <2>2 DEF Alive
<1> QED BY <1>5, <1>6, ServerKinds, ServerFailsDying DEF Sound

-----------------------------------------------------------------------------
(* A new connection.                                                       *)
Fresh ==
  /\ cli.hand = "BEFORE" /\ srv.hand = "BEFORE"
  /\ cli.flow # "ERROR" /\ srv.flow # "ERROR"
  /\ toClient = << >> /\ toServer = << >>

LEMMA FreshAlive == Sound /\ Fresh => Alive /\ AliveInv /\ Told
<1> SUFFICES ASSUME Sound, Fresh PROVE Alive /\ AliveInv /\ Told
  OBVIOUS
<1>1. Sent(toClient) = {} /\ Sent(toServer) = {}
  BY SentNone DEF Fresh
<1>2. /\ ClientHeard = 0 /\ ClientSaid = 0 /\ ServerSaid = 0 /\ ServerHeard = 0
      /\ ~Renewing
  BY DEF Fresh, ClientHeard, ClientSaid, ServerSaid, ServerHeard, Renewing
<1>3. /\ cli.rkey = 0 /\ cli.wkey = 0 /\ cli.certReq = "no"
      /\ ~srv.hit /\ ~srv.finSent /\ srv.rkey = 0 /\ srv.wkey = 0
      /\ srvSess = NoServerSession
  BY DEF Fresh, Sound, ClientLocal, ServerLocal
<1>4. Alive /\ Told
  BY <1>1 DEF Fresh, Alive, Told
<1>5. Streams
  BY <1>1, <1>2, FlowNone DEF Fresh, Streams, ToClientFlow, ToServerFlow
<1>6. OneHandshake /\ HelloAgreed
  BY <1>1, <1>2, <1>3 DEF OneHandshake, ServerFirstHandshake, HelloAgreed
<1>7. CertAgreed /\ KeysAgreed
  BY <1>1, <1>2, <1>3 DEF CertAgreed, KeysAgreed, NoServerSession
<1>8. SecretsAgreed
  BY <1>1, <1>2, <1>3 DEF SecretsAgreed
<1> QED BY <1>4, <1>5, <1>6, <1>7, <1>8 DEF AliveInv

LEMMA FreshAliveNext == (Sound /\ Fresh => Alive /\ AliveInv /\ Told)'
BY FreshAlive, PTL

(* The state of the connection does not depend on the server's context.    *)
LEMMA ConnectionKept ==
  ASSUME UNCHANGED <<clientVars, wireVars, srv, srvSess>>
  PROVE  /\ Alive' <=> Alive
         /\ Told' <=> Told
         /\ AliveInv' <=> AliveInv
         /\ DeadInv' <=> DeadInv
<1>1. /\ ClientHeard' = ClientHeard /\ ClientSaid' = ClientSaid
      /\ Renewing' <=> Renewing
      /\ Established' <=> Established
      /\ cli' = cli /\ cliSess' = cliSess /\ cliCfg' = cliCfg
  BY ClientKept
<1>2. /\ ServerHeard' = ServerHeard /\ ServerSaid' = ServerSaid
      /\ ServerIdle' <=> ServerIdle
      /\ ServerFirstHandshake' <=> ServerFirstHandshake
      /\ srv' = srv /\ srvSess' = srvSess
      /\ toClient' = toClient /\ toServer' = toServer
  BY DEF ServerHeard, ServerSaid, ServerIdle, ServerFirstHandshake, wireVars
<1>3. /\ Alive' <=> Alive
      /\ Told' <=> Told
  BY <1>1, <1>2 DEF Alive, Told
<1>4. Streams' <=> Streams
  BY <1>1, <1>2 DEF Streams, ToClientFlow, ToServerFlow, TicketDue
<1>5. (OneHandshake' <=> OneHandshake) /\ (HelloAgreed' <=> HelloAgreed)
  BY <1>1, <1>2 DEF OneHandshake, HelloAgreed
<1>6. (CertAgreed' <=> CertAgreed) /\ (KeysAgreed' <=> KeysAgreed)
  BY <1>1, <1>2 DEF CertAgreed, KeysAgreed
<1>7. SecretsAgreed' <=> SecretsAgreed
  BY <1>1, <1>2 DEF SecretsAgreed, Dropped
<1>8. DeadInv' <=> DeadInv
  BY <1>1, <1>2 DEF DeadInv, DeadClient, DeadServer, Agreed, Dropped, SameKeys
<1> QED BY <1>3, <1>4, <1>5, <1>6, <1>7, <1>8 DEF AliveInv

LEMMA NewConnectionResumption ==
  ASSUME Sound, Sound', Resumption, NewConnection
  PROVE  Resumption'
<1>1. /\ cliSess' \in {cliSess, NoClientSession} /\ cli'.hand = "BEFORE"
      /\ srvSess' = NoServerSession /\ ~srv'.hit
      /\ UNCHANGED <<srvCache, srvFresh>>
  BY DEF NewConnection, ClientNewConnection, ServerNewConnection, NewClientSsl,
         NewServerSsl, ClearedServerSsl
<1>2. ~Unkeyed'
  BY <1>1 DEF Unkeyed, ClientHeard
<1>3. \A c \in srvCache : c.sid # NoSid
  BY DrawnSids DEF Resumption
<1>4. /\ NoClientSession.sid = NoSid /\ NoClientSession.ticket = NoTicket
      /\ NoServerSession.sid = NoSid
  BY DEF NoClientSession, NoServerSession
<1>5. CASE cliSess' = cliSess
  BY <1>1, <1>2, <1>3, <1>4, <1>5 DEF Resumption, Drawn
<1>6. CASE cliSess' = NoClientSession
  BY <1>1, <1>2, <1>3, <1>4, <1>6 DEF Resumption, Drawn
<1> QED BY <1>1, <1>5, <1>6

-----------------------------------------------------------------------------
(* The endpoints' own facts hold of a connected pair.                      *)
THEOREM HandshakeSound == Spec => []Sound
<1>1. Init => ClientLocal /\ ServerLocal
  BY DEF Init, ClientInit, ServerInit, NewClientSsl, NewServerSsl,
         NoServerSession, NoClientSession, ClientLocal, ServerLocal, Renewing,
         ReadSwitched, WriteSwitched, ServerHeard
<1>2. /\ TypeOK /\ TypeOK' /\ ClientInv /\ ServerInv /\ SessionInv
      /\ ClientLocal /\ ServerLocal /\ [Next]_vars
      => ClientLocal' /\ ServerLocal'
  <2> SUFFICES ASSUME TypeOK, TypeOK', ClientInv, ServerInv, Negotiated,
                      ClientLocal, ServerLocal, [Next]_vars
               PROVE  ClientLocal' /\ ServerLocal'
    BY DEF SessionInv
  <2> USE DEF TypeOK
  <2>1. UNCHANGED clientVars => ClientLocal'
    <3> SUFFICES ASSUME UNCHANGED clientVars PROVE ClientLocal'
      OBVIOUS
    <3> QED BY ClientKept DEF ClientLocal
  <2>2. UNCHANGED <<srv, srvSess>> => ServerLocal'
    BY DEF ServerLocal, ReadSwitched, WriteSwitched, AfterClientFinished,
           ServerHeard, ServerSaid, ServerFirstHandshake
  <2>3. CASE ClientStep /\ UNCHANGED <<serverVars, conn>>
    BY <2>2, <2>3, ClientLocalKept DEF serverVars
  <2>4. CASE ServerStep /\ UNCHANGED <<clientVars, conn>>
    BY <2>1, <2>4, ServerLocalKept
  <2>5. CASE NewConnection
    BY <2>5, ClientLocalKept, ServerLocalKept DEF NewConnection
  <2>6. CASE ContextStep
    BY <2>1, <2>2, <2>6 DEF ContextStep, ServerForgetSession,
                            ServerRotateTicketKey
  <2>7. CASE UNCHANGED vars
    BY <2>1, <2>2, <2>7 DEF vars, serverVars
  <2> QED BY <2>3, <2>4, <2>5, <2>6, <2>7, NextCases
<1>3. TypeOK /\ ClientInv /\ ServerInv /\ SessionInv /\ ClientLocal /\ ServerLocal
      => Sound
  BY DEF TypeOK, SessionInv, Sound
<1> QED BY <1>1, <1>2, <1>3, HandshakeTypeCorrect, EndpointsSound,
           HandshakeSessionsVouched, PTL DEF Spec

(* The invariant of the pair.                                              *)
HandshakeInv ==
  /\ Resumption /\ Told
  /\ Alive => AliveInv
  /\ ~Alive => DeadInv

LEMMA HandshakeInvInit == Init /\ Sound => HandshakeInv
<1> SUFFICES ASSUME Init, Sound PROVE HandshakeInv
  OBVIOUS
<1>1. Fresh
  BY DEF Init, ClientInit, ServerInit, WireInit, NewClientSsl, NewServerSsl,
         Fresh
<1>2. Resumption
  BY DEF Init, ClientInit, ServerInit, Resumption, NoClientSession,
         NoServerSession, NewClientSsl, Unkeyed, ClientHeard
<1> QED BY <1>1, <1>2, FreshAlive DEF HandshakeInv

LEMMA HandshakeInvStep ==
  ASSUME Sound, Sound', HandshakeInv, [Next]_vars
  PROVE  HandshakeInv'
<1> USE DEF HandshakeInv
<1>1. CASE ClientStep /\ UNCHANGED <<serverVars, conn>>
  <2>1. Told'
    BY <1>1, ClientToldKept
  <2>2. CASE Alive
    <3>1. (Alive' => AliveInv') /\ (~Alive' => DeadInv')
      BY <1>1, <2>2, ClientStepAlive, ClientStepDying
    <3>2. cli.flow # "ERROR"
      BY <2>2 DEF Alive
    <3>3. Resumption'
      BY <1>1, <2>2, <3>2, ClientKinds, ClientResumption, ClientHelloResumption,
         ClientHearsHelloAlive, ClientReadsResumption DEF Sound
    <3> QED BY <2>1, <3>1, <3>3
  <2>3. CASE ~Alive
    <3>1. DeadInv' /\ ~Alive'
      BY <1>1, <2>3, ClientStepDead
    <3>2. Resumption'
      BY <1>1, <2>3, ClientKinds, ClientResumption, ClientReadsDead DEF Sound
    <3> QED BY <2>1, <3>1, <3>2
  <2> QED BY <2>2, <2>3
<1>2. CASE ServerStep /\ UNCHANGED <<clientVars, conn>>
  <2>1. Told'
    BY <1>2, ServerToldKept
  <2>2. CASE Alive
    <3>1. (Alive' => AliveInv') /\ (~Alive' => DeadInv')
      BY <1>2, <2>2, ServerStepAlive, ServerStepDying
    <3>2. Resumption'
      BY <1>2, <2>2, AliveCacheable, ServerResumption DEF Alive
    <3> QED BY <2>1, <3>1, <3>2
  <2>3. CASE ~Alive
    <3>1. DeadInv' /\ ~Alive'
      BY <1>2, <2>3, ServerStepDead
    <3>2. Resumption'
      BY <1>2, <2>3, DeadCacheable, ServerResumption DEF DeadInv
    <3> QED BY <2>1, <3>1, <3>2
  <2> QED BY <2>2, <2>3
<1>3. CASE NewConnection
  <2>1. Fresh'
    BY <1>3 DEF NewConnection, ClientNewConnection, ServerNewConnection,
                NewClientSsl, NewServerSsl, ClearedServerSsl, Fresh
  <2> QED BY <1>3, <2>1, FreshAliveNext, NewConnectionResumption
<1>4. CASE ContextStep \/ UNCHANGED vars
  <2>1. /\ UNCHANGED <<clientVars, wireVars, srv, srvSess, srvFresh>>
        /\ srvCache' \subseteq srvCache
    BY <1>4 DEF ContextStep, ServerForgetSession, ServerRotateTicketKey, vars,
                serverVars
  <2>2. srvFresh \in Nat
    BY DEF Sound, ServerTypeOK
  <2>3. Resumption'
    BY <2>1, <2>2, ServerKeepsSessions
  <2> QED BY <2>1, <2>3, ConnectionKept
<1> QED BY <1>1, <1>2, <1>3, <1>4, NextCases

(* The invariant of the connected pair: while the connection lives, what   *)
(* is in flight is one handshake's messages in order and whatever the      *)
(* endpoints already share is equal (AliveInv); once it has broken, what   *)
(* was told of the handshake stays true (DeadInv); and what is kept for a  *)
(* later resumption was agreed (Resumption).                               *)
THEOREM HandshakeInvariant == Spec => []HandshakeInv
<1>1. Sound /\ Sound' /\ HandshakeInv /\ [Next]_vars => HandshakeInv'
  BY HandshakeInvStep
<1> QED BY <1>1, HandshakeInvInit, HandshakeSound, PTL DEF Spec

-----------------------------------------------------------------------------
(* What the invariant means for the pair.                                  *)

LEMMA ClientExpects ==
  ASSUME Sound, HandshakeInv, cli.flow = "READING", toClient # << >>,
         ClientInput.type \notin AlertTypes, ~ClientSkips(ClientInput)
  PROVE  ClientReadTransition(ClientInput.type) # "UNEXPECTED"
<1> DEFINE t == ClientInput.type
<1>1. CASE ~Alive
  <2>1. t = "HELLO_REQUEST"
    BY <1>1, ClosingHead, Flags DEF HandshakeInv, DeadInv, DeadClient, ClientInput
  <2>2. cli.hand = "OK"
    BY <2>1 DEF ClientSkips
  <2> QED BY <2>1, <2>2 DEF ClientReadTransition
<1>2. CASE Alive
  <2>1. AliveInv
    BY <1>2 DEF HandshakeInv
  <2> USE <2>1 DEF AliveInv
  <2>2. Reached /\ ServerPlace /\ ClientPlace
    BY Reach, ServerTable, ClientTable DEF Sound
  <2>3. ServerNext(srv.hit, srv.statusExpected, srv.certRequest, TicketDue,
                   ClientHeard, t)
    BY NextInput
  <2>4. t = "HELLO_REQUEST" => cli.hand = "OK"
    BY DEF ClientSkips
  <2>5. cli.hand \in {"CW_CLNT_HELLO", "CR_SRVR_HELLO", "CR_CERT",
                      "CR_CERT_STATUS", "CR_KEY_EXCH", "CR_CERT_REQ",
                      "CW_FINISHED", "CR_SESSION_TICKET", "CR_CHANGE", "OK"}
    BY DEF Sound, ClientInv, ClientPosition, ClientLocal, ClientTypeOK,
           ClientStates, ClientHandStates
  <2>6. cli.hand = "CW_FINISHED" => ~cli.hit
    BY DEF Sound, ClientInv, ClientPosition
  <2> HIDE DEF t
  <2>7. CASE cli.hand = "CW_CLNT_HELLO"
    <3>1. ClientHeard \in {0, 9}
      BY <2>7 DEF ClientHeard
    <3>2. t \in {"SERVER_HELLO", "HELLO_REQUEST"}
      BY <2>3, <3>1 DEF ServerNext
    <3> QED BY <2>4, <2>7, <3>2 DEF ClientReadTransition, t
  <2>8. CASE cli.hand \in {"CR_SRVR_HELLO", "CW_FINISHED"}
    <3>1. ClientHeard = IF cli.hand = "CR_SRVR_HELLO" THEN 1 ELSE 6
      BY <2>6, <2>8 DEF ClientHeard
    <3>2. cli.hit = srv.hit
      BY <2>8, <3>1 DEF HelloAgreed, Renewing
    <3>3. srv.hit => cli.hand = "CR_SRVR_HELLO" /\ ClientSaid = 1
      BY <2>6, <2>8, <3>2 DEF ClientSaid
    <3>4. srv.hit => ~ServerIdle
      BY <2>2, <3>3 DEF Reached, ServerPlace
    <3>5. TicketDue = cli.ticketExpected
      BY <3>1, <3>3, <3>4 DEF TicketDue, HelloAgreed
    <3>6. \/ t = "CERTIFICATE" /\ ~cli.hit /\ ClientHeard = 1
          \/ t = "NEWSESSION_TICKET" /\ cli.ticketExpected
               /\ ClientHeard = (IF cli.hit THEN 1 ELSE 6)
          \/ t = "CHANGE_CIPHER_SPEC" /\ ~cli.ticketExpected
               /\ ClientHeard = (IF cli.hit THEN 1 ELSE 6)
      BY <2>3, <3>1, <3>2, <3>5 DEF ServerNext
    <3> QED BY <2>8, <3>1, <3>6 DEF ClientReadTransition, t
  <2>9. CASE cli.hand = "CR_CERT"
    <3>1. ClientHeard = 2
      BY <2>9 DEF ClientHeard
    <3>2. srv.statusExpected => cli.statusExpected
      BY <3>1 DEF HelloAgreed
    <3> QED BY <2>3, <2>9, <3>1, <3>2 DEF ServerNext, ClientReadTransition, t
  <2>10. CASE cli.hand \in {"CR_CERT_STATUS", "CR_KEY_EXCH", "CR_CERT_REQ"}
    <3>1. ClientHeard = IF cli.hand = "CR_CERT_STATUS" THEN 3
                        ELSE IF cli.hand = "CR_KEY_EXCH" THEN 4 ELSE 5
      BY <2>10 DEF ClientHeard
    <3> QED BY <2>3, <2>10, <3>1 DEF ServerNext, ClientReadTransition, t
  <2>11. CASE cli.hand \in {"CR_SESSION_TICKET", "CR_CHANGE", "OK"}
    <3>1. ClientHeard = IF cli.hand = "CR_SESSION_TICKET" THEN 7
                        ELSE IF cli.hand = "CR_CHANGE" THEN 8 ELSE 9
      BY <2>11 DEF ClientHeard
    <3> QED BY <2>3, <2>11, <3>1 DEF ServerNext, ClientReadTransition, t
  <2> QED BY <2>5, <2>7, <2>8, <2>9, <2>10, <2>11
<1> QED BY <1>1, <1>2

LEMMA ServerExpects ==
  ASSUME Sound, HandshakeInv, srv.flow = "READING", toServer # << >>,
         ServerInput.type \notin AlertTypes
  PROVE  ServerReadTransition(ServerInput.type) # "UNEXPECTED"
<1> DEFINE m == ServerInput
<1>1. Alive /\ AliveInv
  BY DEF HandshakeInv, DeadInv, DeadServer, ServerInput
<1> USE <1>1 DEF AliveInv
<1>2. Reached /\ ServerPlace
  BY Reach, ServerTable DEF Sound
<1>3. ClientNext(srv.hit, cli.certReq # "no", cli.certReq = "send", cli.npnSeen,
                 ServerHeard, m)
  BY NextInput
<1>4. ClientHeard = ServerSaid
  BY ServerReader
<1>5. \/ srv.hand \in {"BEFORE", "OK", "SW_SRVR_DONE", "SR_CERT", "SR_KEY_EXCH",
                       "SR_CERT_VRFY", "SR_CHANGE", "SR_NEXT_PROTO"}
      \/ srv.hand = "SW_FINISHED" /\ srv.hit
  BY DEF Sound, ServerLocal
<1>6. srv.hand = "SW_SRVR_DONE" => ~srv.hit
  BY DEF Sound, ServerInv, Position
<1> HIDE DEF m
<1>7. CASE srv.hand \in {"BEFORE", "OK"}
  <2>1. ServerHeard = IF srv.hand = "BEFORE" THEN 0 ELSE 7
    BY <1>7 DEF ServerHeard
  <2>2. m.type = "CLIENT_HELLO"
    BY <1>3, <2>1 DEF ClientNext
  <2> QED BY <1>7, <2>2 DEF ServerReadTransition, m
<1>8. CASE srv.hand = "SW_SRVR_DONE"
  <2>1. ServerHeard = 1 /\ ServerSaid = 6
    BY <1>8 DEF ServerHeard, ServerSaid
  <2>2. (cli.certReq # "no") = srv.certRequest
    BY <1>4, <2>1 DEF CertAgreed
  <2>3. \/ m.type = "CERTIFICATE" /\ srv.certRequest
        \/ m.type = "CLIENT_KEY_EXCHANGE" /\ ~srv.certRequest
    BY <1>3, <1>6, <1>8, <2>1, <2>2, Flags DEF ClientNext
  <2> QED BY <1>8, <2>3 DEF ServerReadTransition, m
<1>9. CASE srv.hand \in {"SR_CERT", "SR_CERT_VRFY", "SR_NEXT_PROTO"}
  <2>1. ServerHeard = IF srv.hand = "SR_CERT" THEN 2
                      ELSE IF srv.hand = "SR_CERT_VRFY" THEN 4 ELSE 6
    BY <1>9 DEF ServerHeard
  <2>2. srv.hand = "SR_CERT_VRFY" => ~srv.hit
    BY <1>9 DEF Sound, ServerInv, Position
  <2> QED BY <1>3, <1>9, <2>1, <2>2 DEF ClientNext, ServerReadTransition, m
<1>10. CASE srv.hand = "SR_KEY_EXCH"
  <2>1. ServerHeard = 3
    BY <1>10 DEF ServerHeard
  <2>2. (srvSess.peer # "none") = (cli.certReq = "send")
    BY <2>1 DEF CertAgreed
  <2> QED BY <1>3, <1>10, <2>1, <2>2
          DEF ClientNext, ServerReadTransition, CertVerifyExpected, m
<1>11. CASE srv.hand = "SR_CHANGE"
  <2>1. ServerHeard = 5 /\ ServerSaid >= 1
    BY <1>11 DEF ServerHeard, ServerSaid
  <2>2. cli.npnSeen = srv.npnSeen
    BY <1>4, <2>1 DEF HelloAgreed
  <2> QED BY <1>3, <1>11, <2>1, <2>2 DEF ClientNext, ServerReadTransition, m
<1>12. CASE srv.hand = "SW_FINISHED" /\ srv.hit
  <2>1. ServerHeard = 1
    BY <1>12 DEF ServerHeard
  <2> QED BY <1>3, <1>12, <2>1 DEF ClientNext, ServerReadTransition, m
<1> QED BY <1>5, <1>7, <1>8, <1>9, <1>10, <1>11, <1>12

(* The two transition tables fit together: neither endpoint ever meets a   *)
(* message that its read transition calls unexpected, whatever was         *)
(* negotiated and whenever it comes.                                       *)
THEOREM HandshakeTablesFit == Spec => []NoUnexpectedMessage
<1>1. Sound /\ HandshakeInv => NoUnexpectedMessage
  BY ClientExpects, ServerExpects DEF NoUnexpectedMessage
<1> QED BY <1>1, HandshakeSound, HandshakeInvariant, PTL

(* A record that an endpoint meets is under its read keys.                 *)
LEMMA ClientKeyFits ==
  ASSUME Sound, HandshakeInv, toClient # << >>,
         cli.flow \in {"READING", "FINISHED"}
  PROVE  ClientInput.key = cli.rkey
<1>1. CASE ~Alive
  BY <1>1, ClosingHead, Flags
     DEF HandshakeInv, DeadInv, DeadClient, ClientInput
<1>2. CASE Alive
  <2>1. AliveInv /\ Streams
    BY <1>2 DEF HandshakeInv, AliveInv
  <2>2. Reached
    BY <2>1, Reach
  <2>3. ClientInput \in Sent(toClient)
    BY SentTail, Flags DEF ClientInput
  <2>4. ServerNext(srv.hit, srv.statusExpected, srv.certRequest, TicketDue,
                   ClientHeard, ClientInput.type)
    BY <2>1, NextInput
  <2>5. CASE ServerRank(ClientInput.type) <= 8
    <3>1. ClientHeard <= 7
      BY <2>2, <2>3, <2>5 DEF Reached, ServerRank
    <3> QED BY <2>1, <2>3, <2>5, <3>1 DEF AliveInv, KeysAgreed
  <2>6. CASE ~(ServerRank(ClientInput.type) <= 8)
    <3>1. ClientHeard >= 8
      BY <2>2, <2>4, <2>6 DEF ServerNext, ServerRank, Reached
    <3> QED BY <2>1, <2>3, <2>6, <3>1 DEF AliveInv, KeysAgreed
  <2> QED BY <2>5, <2>6
<1> QED BY <1>1, <1>2

LEMMA ServerKeyFits ==
  ASSUME Sound, HandshakeInv, toServer # << >>,
         srv.flow \in {"READING", "FINISHED"}
  PROVE  ServerInput.key = srv.rkey
<1>1. CASE ~Alive
  BY <1>1 DEF HandshakeInv, DeadInv, DeadServer, ServerInput
<1>2. CASE Alive
  <2>1. AliveInv /\ Streams
    BY <1>2 DEF HandshakeInv, AliveInv
  <2>2. Reached
    BY <2>1, Reach
  <2>3. ServerInput \in Sent(toServer)
    BY SentTail, Flags DEF ServerInput
  <2>4. ClientNext(srv.hit, cli.certReq # "no", cli.certReq = "send",
                   cli.npnSeen, ServerHeard, ServerInput)
    BY <2>1, NextInput
  <2>5. CASE ClientRank(ServerInput) <= 5
    <3>1. ServerHeard <= 4
      BY <2>2, <2>3, <2>5 DEF Reached
    <3> QED BY <2>1, <2>3, <2>5, <3>1 DEF AliveInv, KeysAgreed
  <2>6. CASE ~(ClientRank(ServerInput) <= 5)
    <3>1. ServerHeard >= 5
      BY <2>2, <2>4, <2>6 DEF ClientNext, ClientRank, Reached
    <3> QED BY <2>1, <2>3, <2>6, <3>1 DEF AliveInv, KeysAgreed
  <2> QED BY <2>5, <2>6
<1> QED BY <1>1, <1>2

(* Each record is read under the keys it was written under, whatever the   *)
(* order in which the two endpoints switch to theirs.                      *)
THEOREM HandshakeKeysInStep == Spec => []KeysInStep
<1>1. Sound /\ HandshakeInv => KeysInStep
  BY ClientKeyFits, ServerKeyFits DEF KeysInStep
<1> QED BY <1>1, HandshakeSound, HandshakeInvariant, PTL

(* When an endpoint reports a finished handshake both ends hold the same   *)
(* master secret and cipher, and the client knows whether it resumed.      *)
THEOREM HandshakeAgreement == Spec => []Agreement
<1>1. Sound /\ HandshakeInv => Agreed
  BY AliveAgreed DEF HandshakeInv, DeadInv, Alive
<1>2. ASSUME Sound, HandshakeInv, cli.flow = "FINISHED"
      PROVE  SameKeys /\ cli.hit = srv.hit
  <2>1. cli.hand = "OK"
    BY <1>2 DEF Sound, ClientInv, ClientPosition
  <2>2. ClientHeard = 9 /\ ~Renewing /\ ~Dropped
    BY <2>1 DEF ClientHeard, Renewing, Dropped
  <2> QED BY <1>1, <1>2, <2>2 DEF Agreed
<1>3. ASSUME Sound, HandshakeInv, srv.flow = "FINISHED", cli.flow # "ERROR",
             cli.hand = "CW_CLNT_HELLO" => cliSess.sid # NoSid
      PROVE  SameKeys
  <2>1. ~Dropped
    BY <1>3 DEF Dropped, Renewing
  <2>2. srv.hand = "OK"
    BY <1>3 DEF Sound, ServerInv, Position
  <2>3. CASE ~Alive
    <3>1. Established
      BY <1>3, <2>3 DEF HandshakeInv, DeadInv, DeadServer
    <3>2. ClientHeard = 9
      BY <3>1 DEF Established, ClientHeard, Renewing
    <3> QED BY <1>1, <1>3, <2>1, <3>2 DEF Agreed
  <2>4. CASE Alive
    <3>1. AliveInv
      BY <1>3, <2>4 DEF HandshakeInv
    <3> USE <1>3, <3>1 DEF AliveInv
    <3>2. Reached /\ ClientPlace
      BY Reach, ClientTable DEF Sound
    <3>3. ServerSaid = 9 /\ ServerHeard = 7 /\ WriteSwitched
      BY <2>2 DEF ServerSaid, ServerHeard, WriteSwitched
    <3>4. ClientSaid \in 7 .. 8 /\ ClientHeard \in 6 .. 9
      BY <3>2, <3>3, ClientDone DEF Reached
    <3>5. CASE ClientHeard = 9
      BY <1>1, <2>1, <3>5 DEF Agreed
    <3>6. CASE ClientHeard # 9
      <4>1. ~Renewing
        BY <3>2, <3>6 DEF ClientPlace
      <4>2. ClientWriteSwitched
        BY <3>4, <4>1 DEF ClientSaid, Renewing, ClientWriteSwitched,
           ClientSettled, LastWrites, LastReads, Sound, ClientTypeOK,
           ClientStates, ClientHandStates
      <4>3. cliSess.cipher = cli.newCipher
        BY <4>2 DEF Sound, ClientInv, ClientKeys
      <4>4. cli.newCipher = srv.newCipher
        BY <3>4 DEF HelloAgreed
      <4>5. srvSess.cipher = srv.newCipher /\ srvSess.ms # 0
        BY <3>3 DEF Sound, ServerLocal, ServerInv, Keys
      <4>6. srvSess.ms = cliSess.ms
        BY <2>1, <3>3 DEF SecretsAgreed
      <4> QED BY <4>3, <4>4, <4>5, <4>6 DEF SameKeys
    <3> QED BY <3>5, <3>6
  <2> QED BY <2>3, <2>4
<1>4. Sound /\ HandshakeInv => Agreement
  BY <1>2, <1>3 DEF Agreement
<1> QED BY <1>4, HandshakeSound, HandshakeInvariant, PTL

(* What a later connection may resume is sound: a cached session and a     *)
(* ticket hold a cipher and a secret, and match what the client kept under *)
(* the same name, even if the connection broke before the client saw the   *)
(* Finished; and a server that requires a certificate has verified it,     *)
(* unless its SSL objects are reused with SSL_clear (srvCfg.reuse).        *)
THEOREM HandshakeResumablesMatch ==
  Spec => [](~srvCfg.reuse => ResumableSessionsMatch)
<1>1. HandshakeInv /\ SessionInv /\ HeldTicket
        => (~srvCfg.reuse => ResumableSessionsMatch)
  BY DEF HandshakeInv, Resumption, SessionInv, Resumables, HeldTicket,
         TicketVouched, Vouched, ResumableSessionsMatch
<1> QED BY <1>1, HandshakeInvariant, HandshakeSessionsVouched, PTL

-----------------------------------------------------------------------------
(* Compatible endpoints, the session id context left open. An application  *)
(* that reuses SSL objects with SSL_clear may keep SSL_VERIFY_PEER from an *)
(* earlier connection, which makes a resumption fail.                      *)
Peaceful == CompatibleButForContext /\ ~srvCfg.reuse

(* A server that verifies without a session id context caches nothing.     *)
Contextless == srvCfg.verify # "none" /\ ~srvCfg.sidCtx
NothingCached == Contextless => srv.verify # "none" /\ srvCache = {}

(* Nobody asks for another handshake, and who is done stays so.            *)
Resting ==
  /\ cli.hand = "OK" => cli.flow = "FINISHED"
  /\ srv.hand = "OK" => srv.flow = "FINISHED"
  /\ cli.hand # "CR_HELLO_REQ" /\ srv.hand # "SW_HELLO_REQ" /\ ~Renewing
  /\ \A m \in Sent(toClient) : m.type # "HELLO_REQUEST"

(* What the messages on the way say.                                       *)
Genuine ==
  /\ \A m \in Sent(toServer) :
       /\ m.type = "CLIENT_HELLO" =>
            /\ m.suites = cliCfg.suites
            /\ "ticket" \in m.ext => cliCfg.tickets
            /\ "status" \in m.ext => cliCfg.status # "no"
            /\ "npn" \in m.ext => cliCfg.npn
       /\ m.type = "CERTIFICATE_VERIFY" => m.chain = cliCfg.chain
       /\ m.type = "FINISHED" => m.secret = m.key
  /\ \A m \in Sent(toClient) :
       /\ m.type \in {"CERTIFICATE", "SERVER_KEY_EXCHANGE"} =>
            m.chain = srvCfg.chain
       /\ m.type = "FINISHED" => m.secret = m.key

(* What the server does is what both applications allow.                   *)
ServerAllowed ==
  /\ ServerHeard >= 1 =>
       /\ srv.newCipher \in cliCfg.suites
       /\ ~srv.hit => srv.newCipher \in srvCfg.suites
       /\ srv.ticketExpected => cliCfg.tickets
       /\ srv.statusExpected => cliCfg.status # "no"
       /\ srv.npnSeen => cliCfg.npn
  /\ \/ srv.verify = srvCfg.verify
     \/ srv.newCipher \in MutualSuites /\ srv.hand # "BEFORE"
  /\ srv.certRequest => srv.verify # "none"
  /\ ~srv.hit /\ srvSess.peer = "good" => cliCfg.chain = "good"

(* What the client holds is what its application allows.                   *)
ClientAllowed ==
  /\ cli.hand \in {"CR_CERT", "CR_CERT_STATUS"} => cliSess.peer = srvCfg.chain
  /\ cliSess.cipher \in cliCfg.suites \cup {NoSuite}
  /\ cliSess.ticket # NoTicket => cliSess.cipher \in cliCfg.suites

-----------------------------------------------------------------------------
(* The transcripts: the messages of w, digested one by one, lead from h to *)
(* g, and what is signed or MACed is the transcript up to the message.     *)
Signed == {"CERTIFICATE_VERIFY", "FINISHED"}

Runs(h, w, g) ==
  \E f \in [0 .. Len(w) -> Seq(HandshakeTypes)] :
    /\ f[0] = h /\ f[Len(w)] = g
    /\ \A i \in 1 .. Len(w) :
         /\ f[i] = Digest(f[i - 1], w[i].type)
         /\ w[i].type \in Signed => w[i].hs = f[i - 1]

(* The transcript of the reader, with what it has yet to read, is that of  *)
(* the writer.                                                             *)
Transcripts ==
  /\ toServer = << >> \/ toClient = << >>
  /\ toServer = << >> => Runs(cliHs, toClient, srvHs)
  /\ toClient = << >> => Runs(srvHs, toServer, cliHs)
  /\ cli.hand = "BEFORE" => cliHs = << >>
  /\ srv.hand = "BEFORE" => srvHs = << >>

LEMMA RunsNone ==
  ASSUME NEW h \in Seq(HandshakeTypes), NEW g
  PROVE  Runs(h, << >>, g) <=> h = g
<1>1. ASSUME h = g PROVE Runs(h, << >>, g)
  <2> DEFINE f == [i \in 0 .. 0 |-> h]
  <2>1. f \in [0 .. Len(<< >>) -> Seq(HandshakeTypes)] /\ f[0] = h
    OBVIOUS
  <2>2. f[Len(<< >>)] = g /\ 1 .. Len(<< >>) = {}
    BY <1>1
  <2> HIDE DEF f
  <2> QED BY <2>1, <2>2 DEF Runs
<1>2. ASSUME Runs(h, << >>, g) PROVE h = g
  <2>1. Len(<< >>) = 0
    OBVIOUS
  <2> QED BY <1>2, <2>1 DEF Runs
<1> QED BY <1>1, <1>2

LEMMA RunsAppend ==
  ASSUME NEW w \in Seq(Messages), NEW m \in Messages, NEW h,
         NEW g \in Seq(HandshakeTypes), Runs(h, w, g),
         m.type \in Signed => m.hs = g
  PROVE  Runs(h, Append(w, m), Digest(g, m.type))
<1>1. /\ Len(w) \in Nat /\ Len(Append(w, m)) = Len(w) + 1
      /\ Append(w, m)[Len(w) + 1] = m
      /\ \A i \in 1 .. Len(w) : Append(w, m)[i] = w[i]
  OBVIOUS
<1>2. PICK f \in [0 .. Len(w) -> Seq(HandshakeTypes)] :
        /\ f[0] = h /\ f[Len(w)] = g
        /\ \A i \in 1 .. Len(w) :
             /\ f[i] = Digest(f[i - 1], w[i].type)
             /\ w[i].type \in Signed => w[i].hs = f[i - 1]
  BY DEF Runs
<1>3. Digest(g, m.type) \in Seq(HandshakeTypes)
  BY DEF Digest
<1> DEFINE d == Digest(g, m.type)
           e == [i \in 0 .. Len(w) + 1 |-> IF i = Len(w) + 1 THEN d ELSE f[i]]
<1>4. e \in [0 .. Len(w) + 1 -> Seq(HandshakeTypes)]
  <2> HIDE DEF d
  <2>1. d \in Seq(HandshakeTypes)
    BY <1>3 DEF d
  <2> QED BY <1>1, <1>2, <2>1
<1>5. /\ e[Len(w) + 1] = d
      /\ \A i \in 0 .. Len(w) : e[i] = f[i]
  BY <1>1
<1> HIDE DEF e
<1>6. e[0] = h /\ e[Len(w)] = g
  BY <1>1, <1>2, <1>5
<1>7. ASSUME NEW i \in 1 .. Len(w) + 1
      PROVE  /\ e[i] = Digest(e[i - 1], Append(w, m)[i].type)
             /\ Append(w, m)[i].type \in Signed =>
                  Append(w, m)[i].hs = e[i - 1]
  <2>1. CASE i = Len(w) + 1
    BY <1>1, <1>5, <1>6, <2>1
  <2>2. CASE i # Len(w) + 1
    <3>1. i \in 1 .. Len(w) /\ i \in 0 .. Len(w) /\ i - 1 \in 0 .. Len(w)
      BY <1>1, <2>2
    <3> HIDE DEF d
    <3> QED BY <1>1, <1>2, <1>5, <3>1
  <2> QED BY <2>1, <2>2
<1> HIDE DEF d
<1>8. e[Len(Append(w, m))] = d
      /\ e \in [0 .. Len(Append(w, m)) -> Seq(HandshakeTypes)]
  BY <1>1, <1>4, <1>5
<1>9. Runs(h, Append(w, m), d)
  BY <1>1, <1>6, <1>7, <1>8 DEF Runs
<1> QED BY <1>9 DEF d

LEMMA RunsTail ==
  ASSUME NEW w \in Seq(Messages), w # << >>, NEW h, NEW g, Runs(h, w, g)
  PROVE  /\ Runs(Digest(h, Head(w).type), Tail(w), g)
         /\ Head(w).type \in Signed => Head(w).hs = h
<1>1. /\ Len(w) \in Nat /\ Len(w) >= 1 /\ Len(Tail(w)) = Len(w) - 1
      /\ \A i \in 1 .. Len(w) - 1 : Tail(w)[i] = w[i + 1]
      /\ Head(w) = w[1]
  BY TailFacts
<1>2. PICK f \in [0 .. Len(w) -> Seq(HandshakeTypes)] :
        /\ f[0] = h /\ f[Len(w)] = g
        /\ \A i \in 1 .. Len(w) :
             /\ f[i] = Digest(f[i - 1], w[i].type)
             /\ w[i].type \in Signed => w[i].hs = f[i - 1]
  BY DEF Runs
<1>3. 1 \in 1 .. Len(w) /\ 1 - 1 = 0
  BY <1>1
<1>4. f[1] = Digest(h, Head(w).type)
  BY <1>1, <1>2, <1>3
<1>5. Head(w).type \in Signed => Head(w).hs = h
  BY <1>1, <1>2, <1>3
<1> DEFINE e == [i \in 0 .. Len(w) - 1 |-> f[i + 1]]
<1>6. e \in [0 .. Len(w) - 1 -> Seq(HandshakeTypes)]
  BY <1>1, <1>2
<1>7. \A i \in 0 .. Len(w) - 1 : e[i] = f[i + 1]
  OBVIOUS
<1> HIDE DEF e
<1>8. e[0] = Digest(h, Head(w).type) /\ e[Len(w) - 1] = g
  <2>1. 0 \in 0 .. Len(w) - 1 /\ Len(w) - 1 \in 0 .. Len(w) - 1
        /\ 0 + 1 = 1 /\ (Len(w) - 1) + 1 = Len(w)
    BY <1>1
  <2> QED BY <1>2, <1>4, <1>7, <2>1
<1>9. ASSUME NEW i \in 1 .. Len(w) - 1
      PROVE  /\ e[i] = Digest(e[i - 1], Tail(w)[i].type)
             /\ Tail(w)[i].type \in Signed => Tail(w)[i].hs = e[i - 1]
  <2>1. /\ i \in 0 .. Len(w) - 1 /\ i - 1 \in 0 .. Len(w) - 1
        /\ i + 1 \in 1 .. Len(w) /\ (i - 1) + 1 = i /\ (i + 1) - 1 = i
    BY <1>1
  <2>2. e[i] = f[i + 1] /\ e[i - 1] = f[i] /\ Tail(w)[i] = w[i + 1]
    BY <1>1, <1>7, <2>1
  <2> QED BY <1>2, <2>1, <2>2
<1> QED BY <1>1, <1>5, <1>6, <1>8, <1>9 DEF Runs

-----------------------------------------------------------------------------
(* The transcripts, step by step: an endpoint digests what it writes and   *)
(* what it reads, and signs or MACs what it has digested.                  *)

(* Where each endpoint writes.                                             *)
ClientTalks ==
  cli.hand \in {"BEFORE", "OK", "CR_HELLO_REQ", "CR_SRVR_DONE", "CW_CERT",
                "CW_KEY_EXCH", "CW_CERT_VRFY", "CR_FINISHED", "CW_CHANGE",
                "CW_NEXT_PROTO"}

ServerTalks ==
  srv.hand \in {"OK", "SR_CLNT_HELLO", "SW_SRVR_HELLO", "SW_CERT",
                "SW_CERT_STATUS", "SW_KEY_EXCH", "SW_CERT_REQ", "SR_FINISHED",
                "SW_SESSION_TICKET", "SW_CHANGE"}

ClientSays(m) ==
  /\ ClientTalks
  /\ toServer' = Append(toServer, m) /\ toClient' = toClient
  /\ m.type \in ClientHandshakeTypes \cup {"CHANGE_CIPHER_SPEC"}
  /\ IF m.type = "CLIENT_HELLO"
       THEN /\ cli.hand \in {"BEFORE", "OK", "CR_HELLO_REQ"}
            /\ cliHs' = Digest(<< >>, m.type)
            /\ m.suites = cliCfg.suites
            /\ "ticket" \in m.ext => cliCfg.tickets
            /\ "status" \in m.ext => cliCfg.status # "no"
            /\ "npn" \in m.ext => cliCfg.npn
       ELSE cliHs' = Digest(cliHs, m.type)
  /\ m.type \in Signed => m.hs = cliHs
  /\ m.type = "CERTIFICATE_VERIFY" => m.chain = cliCfg.chain
  /\ m.type = "FINISHED" => m.secret = m.key

ClientDigests ==
  \/ \E m \in Messages : ClientSays(m)
  \/ /\ toClient # << >> /\ toClient' = Tail(toClient)
     /\ toServer' = toServer \/ cli.hand = "OK"
     /\ cliHs' = Digest(cliHs, ClientInput.type)
  \/ /\ UNCHANGED <<toClient, toServer>>
     /\ cliHs' = cliHs \/ (cli.hand = "BEFORE" /\ cliHs' = << >>)

LEMMA ClientDigestStep ==
  ASSUME ClientTypeOK, WireTypeOK, WireTypeOK', ClientInv, ClientStep,
         cli'.flow # "ERROR"
  PROVE  ClientDigests
<1>0. ASSUME NEW m, ClientSays(m)
      PROVE  ClientDigests
  BY <1>0, LastSent DEF WireTypeOK, ClientSays, ClientDigests
<1> USE DEF ClientEmit, ClientWriting
<1>t. \/ ClientSendClientHello \/ ClientSendCertificate
      \/ ClientSendKeyExchange \/ ClientSendCertVerify
      \/ ClientSendChangeCipherSpec \/ ClientSendNextProto
      \/ ClientSendFinished
      => ClientTalks
  BY ClientWriteSources
     DEF ClientTalks, ClientSendClientHello, ClientSendCertificate,
         ClientSendKeyExchange, ClientSendCertVerify,
         ClientSendChangeCipherSpec, ClientSendNextProto, ClientSendFinished
<1>1. CASE ClientConnect
  BY <1>1 DEF ClientConnect, ClientDigests, wireVars, ClientInv, ClientPosition
<1>2. CASE \/ ClientTurnToRead \/ ClientFinishHandshake \/ ClientWake
           \/ ClientRenegotiate
  BY <1>2 DEF ClientTurnToRead, ClientFinishHandshake, ClientWake,
              ClientRenegotiate, ClientDigests, wireVars
<1>3. CASE ClientSendClientHello
  <2>1. PICK s \in Sids, k \in Tickets :
          toServer' = Append(toServer,
            [Message("CLIENT_HELLO", cli.wkey) EXCEPT
                !.suites = cliCfg.suites, !.sid = s, !.ticket = k,
                !.ext = (IF cliCfg.tickets THEN {"ticket"} ELSE {})
                   \cup (IF cliCfg.status # "no" THEN {"status"} ELSE {})
                   \cup (IF cliCfg.npn /\ ClientFirstHandshake
                           THEN {"npn"} ELSE {})])
    BY <1>3, NoClientSessionType
       DEF ClientSendClientHello, ClientTypeOK, ClientSessions, NoClientSession
  <2> DEFINE m == [Message("CLIENT_HELLO", cli.wkey) EXCEPT
                !.suites = cliCfg.suites, !.sid = s, !.ticket = k,
                !.ext = (IF cliCfg.tickets THEN {"ticket"} ELSE {})
                   \cup (IF cliCfg.status # "no" THEN {"status"} ELSE {})
                   \cup (IF cliCfg.npn /\ ClientFirstHandshake
                           THEN {"npn"} ELSE {})]
  <2>2. /\ m.type = "CLIENT_HELLO" /\ m.suites = cliCfg.suites
        /\ "ticket" \in m.ext => cliCfg.tickets
        /\ "status" \in m.ext => cliCfg.status # "no"
        /\ "npn" \in m.ext => cliCfg.npn
    BY DEF Message
  <2>3. toServer' = Append(toServer, m)
    BY <2>1
  <2> HIDE DEF m
  <2>4. /\ cliHs' = <<"CLIENT_HELLO">> /\ toClient' = toClient
        /\ cli.hand \in {"BEFORE", "OK", "CR_HELLO_REQ"}
    BY <1>3, ClientWriteSources DEF ClientSendClientHello
  <2>5. Digest(<< >>, "CLIENT_HELLO") = <<"CLIENT_HELLO">>
    BY DEF Digest, HandshakeTypes, ClientHandshakeTypes
  <2>6. ClientSays(m)
    BY <1>t, <1>3, <2>2, <2>3, <2>4, <2>5 DEF ClientSays, ClientHandshakeTypes, Signed
  <2> QED BY <1>0, <2>6
<1>4. CASE ClientSendCertificate
  <2> DEFINE m == [Message("CERTIFICATE", cli.wkey) EXCEPT
       !.chain = IF cli.certReq = "none" THEN "empty" ELSE cliCfg.chain]
  <2>1. m.type = "CERTIFICATE"
    BY DEF Message
  <2>2. toServer' = Append(toServer, m) /\ toClient' = toClient
        /\ cliHs' = Digest(cliHs, m.type)
    BY <1>4 DEF ClientSendCertificate
  <2> HIDE DEF m
  <2>3. ClientSays(m)
    BY <1>t, <1>4, <2>1, <2>2 DEF ClientSays, ClientHandshakeTypes, Signed
  <2> QED BY <1>0, <2>3
<1>5. CASE ClientSendKeyExchange
  <2> DEFINE m == [Message("CLIENT_KEY_EXCHANGE", cli.wkey) EXCEPT
                     !.secret = cliFresh]
  <2>1. m.type = "CLIENT_KEY_EXCHANGE"
    BY DEF Message
  <2>2. toServer' = Append(toServer, m) /\ toClient' = toClient
        /\ cliHs' = Digest(cliHs, m.type)
    BY <1>5 DEF ClientSendKeyExchange
  <2> HIDE DEF m
  <2>3. ClientSays(m)
    BY <1>t, <1>5, <2>1, <2>2 DEF ClientSays, ClientHandshakeTypes, Signed
  <2> QED BY <1>0, <2>3
<1>6. CASE ClientSendCertVerify
  <2> DEFINE m == [Message("CERTIFICATE_VERIFY", cli.wkey) EXCEPT
                             !.hs = cliHs, !.chain = cliCfg.chain]
  <2>1. m.type = "CERTIFICATE_VERIFY" /\ m.hs = cliHs /\ m.chain = cliCfg.chain
    BY DEF Message
  <2>2. cli.buffer
    BY <1>6 DEF ClientSendCertVerify, ClientFatal, ClientTypeOK, ClientStates
  <2>3. toServer' = Append(toServer, m) /\ toClient' = toClient
        /\ cliHs' = Digest(cliHs, m.type)
    BY <1>6, <2>2 DEF ClientSendCertVerify
  <2> HIDE DEF m
  <2>4. ClientSays(m)
    BY <1>t, <1>6, <2>1, <2>3 DEF ClientSays, ClientHandshakeTypes, Signed
  <2> QED BY <1>0, <2>4
<1>7. CASE ClientSendChangeCipherSpec
  <2> DEFINE m == Message("CHANGE_CIPHER_SPEC", cli.wkey)
  <2>1. m.type = "CHANGE_CIPHER_SPEC"
    BY DEF Message
  <2>2. toServer' = Append(toServer, m) /\ toClient' = toClient
        /\ cliHs' = Digest(cliHs, m.type)
    BY <1>7 DEF ClientSendChangeCipherSpec
  <2> HIDE DEF m
  <2>3. ClientSays(m)
    BY <1>t, <1>7, <2>1, <2>2 DEF ClientSays, Signed
  <2> QED BY <1>0, <2>3
<1>8. CASE ClientSendNextProto
  <2> DEFINE m == Message("NEXT_PROTO", cli.wkey)
  <2>1. m.type = "NEXT_PROTO"
    BY DEF Message
  <2>2. toServer' = Append(toServer, m) /\ toClient' = toClient
        /\ cliHs' = Digest(cliHs, m.type)
    BY <1>8 DEF ClientSendNextProto
  <2> HIDE DEF m
  <2>3. ClientSays(m)
    BY <1>t, <1>8, <2>1, <2>2 DEF ClientSays, ClientHandshakeTypes, Signed
  <2> QED BY <1>0, <2>3
<1>9. CASE ClientSendFinished
  <2> DEFINE m == [Message("FINISHED", cli.wkey) EXCEPT
                   !.secret = cliSess.ms, !.hs = cliHs]
  <2>1. m.type = "FINISHED" /\ m.key = cli.wkey /\ m.secret = cliSess.ms
        /\ m.hs = cliHs
    BY DEF Message
  <2>2. toServer' = Append(toServer, m) /\ toClient' = toClient
        /\ cliHs' = Digest(cliHs, m.type)
    BY <1>9 DEF ClientSendFinished
  <2> HIDE DEF m
  <2>3. cli.wkey = cliSess.ms
    BY <1>9, ClientWriteSources
       DEF ClientSendFinished, ClientInv, ClientKeys, ClientWriteSwitched,
           LastWrites
  <2>4. ClientSays(m)
    BY <1>t, <1>9, <2>1, <2>2, <2>3 DEF ClientSays, ClientHandshakeTypes, Signed
  <2> QED BY <1>0, <2>4
<1>10. CASE \/ ClientReadServerHello \/ ClientReadCertificate
            \/ ClientReadCertStatus \/ ClientReadKeyExchange
            \/ ClientReadCertificateRequest \/ ClientReadServerDone
            \/ ClientReadSessionTicket \/ ClientReadChangeCipherSpec
            \/ ClientReadFinished
  BY <1>10 DEF ClientReadServerHello, ClientReadCertificate,
       ClientReadCertStatus, ClientReadKeyExchange,
       ClientReadCertificateRequest, ClientReadServerDone,
       ClientReadSessionTicket, ClientReadChangeCipherSpec,
       ClientReadFinished, ClientReading, ClientConsume, ClientFatal,
       ClientDigests, ClientTypeOK, ClientStates
<1>11. CASE ClientReadHelloRequest
  BY <1>11, ClientReadSources
     DEF ClientReadHelloRequest, ClientReading, ClientConsume, ClientDigests
<1>12. CASE ClientSkipHelloRequest
  BY <1>12 DEF ClientSkipHelloRequest, ClientSkips, clientVars, ClientDigests,
               Digest
<1>13. CASE \/ ClientUnexpected \/ ClientReadAlert
            \/ ClientReadNoRenegotiation \/ ClientStrayChangeCipherSpec
  BY <1>13 DEF ClientUnexpected, ClientReadAlert, ClientReadNoRenegotiation,
               ClientStrayChangeCipherSpec, ClientFatal, ClientTypeOK,
               ClientStates
<1> QED BY <1>1, <1>2, <1>3, <1>4, <1>5, <1>6, <1>7, <1>8, <1>9, <1>10, <1>11,
           <1>12, <1>13 DEF ClientStep, ClientWrite, ClientRead

ServerSays(m) ==
  /\ ServerTalks
  /\ toClient' = Append(toClient, m) /\ toServer' = toServer
  /\ m.type \in ServerHandshakeTypes \cup {"CHANGE_CIPHER_SPEC"}
  /\ m.type = "HELLO_REQUEST" => srv.hand = "OK"
  /\ m.type # "HELLO_REQUEST" => srvHs' = Digest(srvHs, m.type)
  /\ m.type \in Signed => m.hs = srvHs
  /\ m.type \in {"CERTIFICATE", "SERVER_KEY_EXCHANGE"} => m.chain = srvCfg.chain
  /\ m.type = "FINISHED" => m.secret = m.key

ServerDigests ==
  \/ \E m \in Messages : ServerSays(m)
  \/ /\ toServer # << >> /\ toServer' = Tail(toServer)
     /\ toClient' = toClient \/ srv.hand = "OK"
     /\ srvHs' = Digest(srvHs, ServerInput.type)
  \/ /\ UNCHANGED <<toClient, toServer>>
     /\ srvHs' = srvHs \/ (srv.hand \in {"BEFORE", "OK"} /\ srvHs' = << >>)

LEMMA ServerDigestStep ==
  ASSUME ServerTypeOK, WireTypeOK, WireTypeOK', ServerInv, Negotiated,
         ServerLocal, ServerStep, srv'.flow # "ERROR"
  PROVE  ServerDigests
<1>0. ASSUME NEW m, ServerSays(m)
      PROVE  ServerDigests
  BY <1>0, LastSent DEF WireTypeOK, ServerSays, ServerDigests
<1>s. srv \in ServerStates
  BY DEF ServerTypeOK
<1> USE DEF ServerEmit, ServerWriting
<1>t. \/ ServerSendHelloRequest \/ ServerSendServerHello
      \/ ServerSendCertificate \/ ServerSendCertStatus
      \/ ServerSendKeyExchange \/ ServerSendCertificateRequest
      \/ ServerSendServerDone \/ ServerSendSessionTicket
      \/ ServerSendChangeCipherSpec \/ ServerSendFinished
      => ServerTalks
  BY WriteSources
     DEF ServerTalks, ServerSendHelloRequest, ServerSendServerHello,
         ServerSendCertificate, ServerSendCertStatus, ServerSendKeyExchange,
         ServerSendCertificateRequest, ServerSendServerDone,
         ServerSendSessionTicket, ServerSendChangeCipherSpec,
         ServerSendFinished
<1>1. CASE ServerAccept
  BY <1>1 DEF ServerAccept, ServerDigests, wireVars, Negotiated
<1>2. CASE ServerTurnToRead \/ ServerFinishHandshake \/ ServerWake
  BY <1>2 DEF ServerTurnToRead, ServerFinishHandshake, ServerWake,
              ServerDigests, wireVars
<1>3. CASE ServerRenegotiate
  BY <1>3 DEF ServerRenegotiate, ServerDigests, wireVars, ServerInv, Position
<1>4. CASE ServerSendHelloRequest
  <2> DEFINE m == Message("HELLO_REQUEST", srv.wkey)
  <2>1. m.type = "HELLO_REQUEST"
    BY DEF Message
  <2>2. /\ toClient' = Append(toClient, m) /\ toServer' = toServer
        /\ srv.hand = "OK"
    BY <1>4, WriteSources DEF ServerSendHelloRequest
  <2> HIDE DEF m
  <2>3. ServerSays(m)
    BY <1>t, <1>4, <2>1, <2>2 DEF ServerSays, ServerHandshakeTypes, Signed
  <2> QED BY <1>0, <2>3
<1>5. CASE ServerSendServerHello
  <2> DEFINE s == IF ~srvCfg.cache /\ ~srv.hit THEN NoSid ELSE srvSess.sid
             m == [Message("SERVER_HELLO", srv.wkey) EXCEPT
             !.suite = srv.newCipher, !.sid = s,
             !.ext = (IF AnnouncesTicket THEN {"ticket"} ELSE {})
                \cup (IF srv.statusExpected THEN {"status"} ELSE {})
                \cup (IF srv.npnSeen THEN {"npn"} ELSE {})]
  <2>1. ServerEmit(m)
    BY <1>5 DEF ServerSendServerHello
  <2>2. m.type = "SERVER_HELLO"
    BY DEF Message
  <2>3. toClient' = Append(toClient, m) /\ toServer' = toServer
        /\ srvHs' = Digest(srvHs, m.type)
    BY <2>1
  <2> HIDE DEF m
  <2>4. ServerSays(m)
    BY <1>t, <1>5, <2>2, <2>3 DEF ServerSays, ServerHandshakeTypes, Signed
  <2> QED BY <1>0, <2>4
<1>6. CASE ServerSendCertificate
  <2> DEFINE m == [Message("CERTIFICATE", srv.wkey) EXCEPT
                     !.chain = srvCfg.chain]
  <2>1. m.type = "CERTIFICATE" /\ m.chain = srvCfg.chain
    BY DEF Message
  <2>2. toClient' = Append(toClient, m) /\ toServer' = toServer
        /\ srvHs' = Digest(srvHs, m.type)
    BY <1>6 DEF ServerSendCertificate
  <2> HIDE DEF m
  <2>3. ServerSays(m)
    BY <1>t, <1>6, <2>1, <2>2 DEF ServerSays, ServerHandshakeTypes, Signed
  <2> QED BY <1>0, <2>3
<1>7. CASE ServerSendKeyExchange
  <2> DEFINE m == [Message("SERVER_KEY_EXCHANGE", srv.wkey) EXCEPT
                     !.chain = srvCfg.chain]
  <2>1. m.type = "SERVER_KEY_EXCHANGE" /\ m.chain = srvCfg.chain
    BY DEF Message
  <2>2. toClient' = Append(toClient, m) /\ toServer' = toServer
        /\ srvHs' = Digest(srvHs, m.type)
    BY <1>7 DEF ServerSendKeyExchange
  <2> HIDE DEF m
  <2>3. ServerSays(m)
    BY <1>t, <1>7, <2>1, <2>2 DEF ServerSays, ServerHandshakeTypes, Signed
  <2> QED BY <1>0, <2>3
<1>8. ASSUME ServerTalks, NEW t \in {"CERTIFICATE_STATUS", "CERTIFICATE_REQUEST",
                        "SERVER_DONE", "CHANGE_CIPHER_SPEC"},
             ServerEmit(Message(t, srv.wkey))
      PROVE  ServerDigests
  <2> DEFINE m == Message(t, srv.wkey)
  <2>1. m.type = t
    BY DEF Message
  <2>2. toClient' = Append(toClient, m) /\ toServer' = toServer
        /\ srvHs' = Digest(srvHs, m.type)
    BY <1>8
  <2> HIDE DEF m
  <2>3. ServerSays(m)
    BY <1>8, <2>1, <2>2 DEF ServerSays, ServerHandshakeTypes, Signed
  <2> QED BY <1>0, <2>3
<1>9. CASE ServerSendCertStatus \/ ServerSendCertificateRequest
           \/ ServerSendServerDone
  <2> HIDE DEF ServerEmit
  <2> QED BY <1>t, <1>8, <1>9 DEF ServerSendCertStatus, ServerSendCertificateRequest,
                            ServerSendServerDone
<1>10. CASE ServerSendChangeCipherSpec
  <2>1. srvSess.cipher \in {NoSuite, srv.newCipher} /\ srvSess.ms # 0
    BY <1>s, <1>10 DEF ServerSendChangeCipherSpec, ServerFatal, ServerStates
  <2> HIDE DEF ServerEmit
  <2> QED BY <1>t, <1>8, <1>10, <2>1 DEF ServerSendChangeCipherSpec
<1>11. CASE ServerSendSessionTicket
  <2> DEFINE m == [Message("NEWSESSION_TICKET", srv.wkey) EXCEPT
       !.ticket = [ n |-> srvFresh, key |-> srvTicketKey,
                    suite |-> srvSess.cipher, ms |-> srvSess.ms,
                    peer |-> srvSess.peer ]]
  <2>1. m.type = "NEWSESSION_TICKET"
    BY DEF Message
  <2>2. toClient' = Append(toClient, m) /\ toServer' = toServer
        /\ srvHs' = Digest(srvHs, m.type)
    BY <1>11 DEF ServerSendSessionTicket
  <2> HIDE DEF m
  <2>3. ServerSays(m)
    BY <1>t, <1>11, <2>1, <2>2 DEF ServerSays, ServerHandshakeTypes, Signed
  <2> QED BY <1>0, <2>3
<1>12. CASE ServerSendFinished
  <2> DEFINE m == [Message("FINISHED", srv.wkey) EXCEPT
                   !.secret = srvSess.ms, !.hs = srvHs]
  <2>1. m.type = "FINISHED" /\ m.key = srv.wkey /\ m.secret = srvSess.ms
        /\ m.hs = srvHs
    BY DEF Message
  <2>2. toClient' = Append(toClient, m) /\ toServer' = toServer
        /\ srvHs' = Digest(srvHs, m.type)
    BY <1>12 DEF ServerSendFinished
  <2> HIDE DEF m
  <2>3. srv.wkey = srvSess.ms
    BY <1>12, WriteSources
       DEF ServerSendFinished, ServerInv, Keys, WriteSwitched
  <2>4. ServerSays(m)
    BY <1>t, <1>12, <2>1, <2>2, <2>3 DEF ServerSays, ServerHandshakeTypes, Signed
  <2> QED BY <1>0, <2>4
<1>13. CASE ServerRejectRenegotiation
  <2>1. srv.hand = "OK"
    BY <1>13, ReadSources DEF ServerRejectRenegotiation, ServerReading,
                              ServerFirstHandshake, ServerLocal
  <2> QED BY <1>13, <2>1 DEF ServerRejectRenegotiation, ServerReading,
                             ServerConsume, ServerDigests
<1>14. CASE \/ ServerReadCertificate \/ ServerReadKeyExchange
            \/ ServerReadCertVerify \/ ServerReadChangeCipherSpec
            \/ ServerReadNextProto \/ ServerReadFinished
            \/ ServerResume \/ ServerNewSession
  BY <1>s, <1>14 DEF ServerReadCertificate, ServerReadKeyExchange,
       ServerReadCertVerify, ServerReadChangeCipherSpec, ServerReadNextProto,
       ServerReadFinished, ServerResume, ServerNewSession, ServerReading,
       ServerConsume, ServerFatal, ServerDigests, ServerStates
<1>15. CASE \/ ServerUnexpected \/ ServerReadAlert
            \/ ServerReadNoRenegotiation \/ ServerStrayChangeCipherSpec
  BY <1>s, <1>15 DEF ServerUnexpected, ServerReadAlert,
       ServerReadNoRenegotiation, ServerStrayChangeCipherSpec, ServerFatal,
       ServerStates
<1> QED BY <1>1, <1>2, <1>3, <1>4, <1>5, <1>6, <1>7, <1>9, <1>10, <1>11,
           <1>12, <1>13, <1>14, <1>15 DEF ServerStep, ServerWrite, ServerRead

(* While one endpoint writes, all that was written to it has been read.    *)
LEMMA ClientTurn ==
  ASSUME Sound, AliveInv, Resting, ClientTalks
  PROVE  toClient = << >>
<1>1. Reached /\ ServerPlace /\ ClientPlace /\ ~Renewing
  BY Reach, ServerTable, ClientTable DEF Sound, AliveInv, Resting
<1>2. toClient \in Seq(Messages)
  BY DEF Sound, WireTypeOK
<1>3. CASE ClientHeard = 9
  <2>1. ServerSaid = 9
    BY <1>1, <1>3 DEF Reached
  <2>2. \A m \in Sent(toClient) : m.type = "HELLO_REQUEST"
    BY <1>1, <1>3 DEF Reached
  <2>3. Sent(toClient) = {}
    BY <2>2 DEF Resting
  <2> QED BY <1>2, <2>3, SentNone
<1>4. CASE cli.hand = "BEFORE"
  <2>1. ClientSaid = 0 /\ ClientHeard = 0
    BY <1>4 DEF ClientSaid, ClientHeard
  <2>2. ServerHeard = 0
    BY <1>1, <2>1 DEF Reached
  <2>3. ServerSaid = 0
    BY <1>1, <2>2 DEF ServerPlace
  <2> QED BY <1>1, <2>1, <2>3 DEF Reached
<1>5. CASE ClientHeard # 9 /\ cli.hand # "BEFORE"
  <2>1. ClientHeard = 6 /\ ClientSaid \in 1 .. 6 /\ ~cli.hit
    <3>1. cli.hand \in {"CR_SRVR_DONE", "CW_CERT", "CW_KEY_EXCH",
                        "CW_CERT_VRFY", "CW_CHANGE", "CW_NEXT_PROTO"}
      BY <1>5 DEF ClientTalks, ClientHeard, Resting
    <3>2. ClientHeard = 6 /\ ClientSaid \in 1 .. 6
      BY <1>5, <3>1 DEF ClientHeard, ClientSaid
    <3> QED BY <1>1, <3>2 DEF ClientPlace
  <2>2. ~srv.hit
    BY <1>1, <2>1, Flags DEF AliveInv, HelloAgreed
  <2>3. ServerHeard <= 6 /\ 6 <= ServerSaid /\ ServerSaid \in 0 .. 9
    BY <1>1, <2>1 DEF Reached
  <2>4. ServerSaid = 6
    BY <1>1, <2>2, <2>3 DEF ServerPlace
  <2> QED BY <1>1, <2>1, <2>4 DEF Reached
<1> QED BY <1>3, <1>4, <1>5

LEMMA ServerTurn ==
  ASSUME Sound, AliveInv, Resting, ServerTalks
  PROVE  toServer = << >>
<1>1. Reached /\ ServerPlace /\ ClientPlace /\ ~Renewing
  BY Reach, ServerTable, ClientTable DEF Sound, AliveInv, Resting
<1>2. CASE ServerHeard = 7
  <2>1. ClientSaid = 7
    BY <1>1, <1>2 DEF Reached, ClientPlace
  <2> QED BY <1>1, <1>2, <2>1 DEF Reached
<1>3. CASE ServerHeard # 7
  <2>1. ServerHeard = 1 /\ (ServerSaid <= 5 \/ (srv.hit /\ ServerSaid <= 8))
    BY <1>3 DEF ServerTalks, ServerHeard, ServerSaid
  <2>2. ClientHeard \in 0 .. 8 /\ 1 <= ClientSaid /\ (ClientHeard <= 5 \/ srv.hit)
    BY <1>1, <2>1 DEF Reached
  <2>3. ClientHeard >= 1 => cli.hit = srv.hit
    BY <1>1 DEF AliveInv, HelloAgreed
  <2>4. ClientSaid = 1
    <3>1. CASE cli.hit
      BY <1>1, <2>2, <3>1 DEF ClientPlace
    <3>2. CASE ~cli.hit
      <4>1. ClientHeard <= 5
        BY <2>2, <2>3, <3>2
      <4>2. ClientSaid <= 1
        BY <1>1, <2>2, <3>2, <4>1 DEF ClientPlace
      <4> QED BY <1>1, <2>2, <4>2 DEF Reached
    <3> QED BY <3>1, <3>2
  <2> QED BY <1>1, <2>1, <2>4 DEF Reached
<1> QED BY <1>2, <1>3

-----------------------------------------------------------------------------
(* A client whose handshake is over rests, unless it is asked.             *)
LEMMA ClientRests ==
  ASSUME ClientTypeOK, ClientInv, ClientLocal, ClientStep, cli'.flow # "ERROR",
         ~cliCfg.renegotiate,
         cli.hand = "OK" => cli.flow = "FINISHED" /\ toClient = << >>,
         cli.hand # "CR_HELLO_REQ", ~Renewing
  PROVE  /\ cli.hand # "OK"
         /\ cli'.hand = "OK" => cli'.flow = "FINISHED"
         /\ cli'.hand # "CR_HELLO_REQ" /\ ~Renewing'
         /\ cli'.hand = "BEFORE" => cli.hand = "BEFORE"
         /\ cliCfg' = cliCfg
<1>0. cli \in ClientStates
  BY DEF ClientTypeOK
<1>1. CASE ClientConnect
  BY <1>0, <1>1 DEF ClientConnect, NewClientSsl, ClientInv, ClientPosition,
                    Renewing
<1>2. CASE ClientSendClientHello
  BY <1>0, <1>2, ClientWriteSources
     DEF ClientSendClientHello, ClientWriting, ClientStates, Renewing,
         ClientFirstHandshake, ClientLocal
<1>3. CASE \/ ClientTurnToRead \/ ClientSendCertificate
           \/ ClientSendKeyExchange \/ ClientSendCertVerify
           \/ ClientSendChangeCipherSpec \/ ClientSendNextProto
           \/ ClientSendFinished \/ ClientFinishHandshake
  <2>1. CASE ClientTurnToRead
    BY <1>0, <2>1, ClientWriteSources
       DEF ClientTurnToRead, ClientWriting, ClientStates, Renewing,
           ClientFirstHandshake
  <2>2. CASE ClientFinishHandshake
    BY <1>0, <2>2, ClientWriteSources
       DEF ClientFinishHandshake, ClientWriting, ClientStates, Renewing
  <2>3. CASE ~ClientTurnToRead /\ ~ClientFinishHandshake
    BY <1>0, <1>3, <2>3, ClientWriteSources
       DEF ClientSendCertificate, ClientSendKeyExchange,
         ClientSendCertVerify, ClientSendChangeCipherSpec,
         ClientSendNextProto, ClientSendFinished,
         ClientWriting, ClientStates, ClientFatal, Renewing
  <2> QED BY <2>1, <2>2, <2>3
<1>4. CASE \/ ClientReadServerHello \/ ClientReadCertificate
           \/ ClientReadCertStatus \/ ClientReadKeyExchange
           \/ ClientReadCertificateRequest \/ ClientReadServerDone
           \/ ClientReadSessionTicket \/ ClientReadChangeCipherSpec
           \/ ClientReadFinished
  <2>1. /\ cli.flow = "READING" /\ cliCfg' = cliCfg
        /\ cli'.hand \in {"CR_SRVR_HELLO", "CR_CERT", "CR_CERT_STATUS",
                          "CR_KEY_EXCH", "CR_CERT_REQ", "CR_SRVR_DONE",
                          "CR_SESSION_TICKET", "CR_CHANGE", "CR_FINISHED"}
    BY <1>0, <1>4
       DEF ClientReadServerHello, ClientReadCertificate,
         ClientReadCertStatus, ClientReadKeyExchange,
         ClientReadCertificateRequest, ClientReadServerDone,
         ClientReadSessionTicket, ClientReadChangeCipherSpec,
         ClientReadFinished, ClientReading, ClientFatal, ClientStates
  <2> QED BY <2>1 DEF Renewing
<1>5. CASE ClientReadHelloRequest
  BY <1>5, ClientReadSources DEF ClientReadHelloRequest, ClientReading
<1>6. CASE ClientSkipHelloRequest
  BY <1>6 DEF ClientSkipHelloRequest, ClientSkips, clientVars, Renewing,
              ClientFirstHandshake
<1>7. CASE \/ ClientUnexpected \/ ClientReadAlert
           \/ ClientReadNoRenegotiation \/ ClientStrayChangeCipherSpec
  BY <1>0, <1>7 DEF ClientUnexpected, ClientReadAlert,
       ClientReadNoRenegotiation, ClientStrayChangeCipherSpec, ClientFatal,
       ClientStates
<1>8. CASE ClientWake \/ ClientRenegotiate
  BY <1>8 DEF ClientWake, ClientRenegotiate, ClientInv, ClientPosition
<1> QED BY <1>1, <1>2, <1>3, <1>4, <1>5, <1>6, <1>7, <1>8
        DEF ClientStep, ClientWrite, ClientRead

(* A server whose handshake is over rests too.                             *)
LEMMA ServerRests ==
  ASSUME ServerTypeOK, ServerInv, Negotiated, ServerLocal, ServerStep,
         srv'.flow # "ERROR", ~srvCfg.renegotiate,
         srv.hand = "OK" => srv.flow = "FINISHED" /\ toServer = << >>,
         srv.hand # "SW_HELLO_REQ"
  PROVE  /\ srv.hand # "OK"
         /\ srv'.hand = "OK" => srv'.flow = "FINISHED"
         /\ srv'.hand # "SW_HELLO_REQ"
         /\ srv'.hand = "BEFORE" => srv.hand = "BEFORE"
         /\ srvCfg' = srvCfg
<1>0. srv \in ServerStates
  BY DEF ServerTypeOK
<1>1. CASE ServerAccept
  BY <1>0, <1>1 DEF ServerAccept, ClearedServerSsl, NewServerSsl, Negotiated
<1>2. CASE ServerWrite
  BY <1>0, <1>2, WriteSources
     DEF ServerWrite, ServerTurnToRead, ServerSendHelloRequest,
         ServerSendServerHello, ServerSendCertificate, ServerSendCertStatus,
         ServerSendKeyExchange, ServerSendCertificateRequest,
         ServerSendServerDone, ServerSendSessionTicket,
         ServerSendChangeCipherSpec, ServerSendFinished,
         ServerFinishHandshake, ServerWriting, ServerStates, ServerFatal
<1>3. CASE \/ ServerRejectRenegotiation \/ ServerResume \/ ServerNewSession
           \/ ServerReadCertificate \/ ServerReadKeyExchange
           \/ ServerReadCertVerify \/ ServerReadChangeCipherSpec
           \/ ServerReadNextProto \/ ServerReadFinished
  <2>1. /\ srv.flow = "READING" /\ srvCfg' = srvCfg
        /\ srv'.hand \in {"SR_CLNT_HELLO", "SR_CERT", "SR_KEY_EXCH",
                          "SR_CERT_VRFY", "SR_CHANGE", "SR_NEXT_PROTO",
                          "SR_FINISHED"}
    BY <1>0, <1>3
       DEF ServerRejectRenegotiation, ServerResume, ServerNewSession,
         ServerReadCertificate, ServerReadKeyExchange, ServerReadCertVerify,
         ServerReadChangeCipherSpec, ServerReadNextProto, ServerReadFinished,
         ServerReading, ServerFatal, ServerAfterClientHello, ServerStates
  <2> QED BY <2>1
<1>4. CASE \/ ServerUnexpected \/ ServerReadAlert
           \/ ServerReadNoRenegotiation \/ ServerStrayChangeCipherSpec
  BY <1>0, <1>4 DEF ServerUnexpected, ServerReadAlert,
       ServerReadNoRenegotiation, ServerStrayChangeCipherSpec, ServerFatal,
       ServerStates
<1>5. CASE ServerWake \/ ServerRenegotiate
  BY <1>5 DEF ServerWake, ServerRenegotiate, ServerInv, Position
<1> QED BY <1>1, <1>2, <1>3, <1>4, <1>5 DEF ServerStep, ServerRead

-----------------------------------------------------------------------------
(* Why compatible endpoints never fail: what an endpoint checks of a       *)
(* message is what its peer has put there.                                 *)
Calm == Resting /\ Genuine /\ ServerAllowed /\ ClientAllowed /\ Transcripts

LEMMA ClientNeverFails ==
  ASSUME Sound, HandshakeInv, Alive, Peaceful, Calm, ClientStep
  PROVE  cli'.flow # "ERROR"
<1> SUFFICES ASSUME cli'.flow = "ERROR" PROVE FALSE
  OBVIOUS
<1> USE DEF Calm
<1>0. cli \in ClientStates /\ toClient \in Seq(Messages)
      /\ cliCfg \in ClientConfigType /\ srvCfg \in ServerConfigType
  BY ClientConfigsAssumption, ServerConfigsAssumption
     DEF Sound, ClientTypeOK, ServerTypeOK, WireTypeOK
<1>1. ClientFails
  BY ClientFailStep DEF Sound
<1>2. AliveInv
  BY DEF HandshakeInv
<1>3. toClient # << >> /\ ClientInput \in Sent(toClient)
  BY <1>0, <1>1, SentTail DEF ClientFails, ClientInput
<1>4. ClientInput.type \notin AlertTypes \cup {"HELLO_REQUEST"}
  BY <1>3 DEF Alive, Resting
<1>5. cli.flow = "READING" /\ cli.hand # "OK"
  <2>1. cli.hand # "OK"
    BY <1>2, <1>3, ClientTurn DEF ClientTalks
  <2> QED BY <1>1, <2>1 DEF ClientFails, Sound, ClientInv, ClientPosition
<1>6. ClientInput.key = cli.rkey
  BY <1>3, <1>5, ClientKeyFits
<1>7. ~ClientSkips(ClientInput)
  BY <1>4 DEF ClientSkips
<1>8. ClientReadTransition(ClientInput.type) # "UNEXPECTED"
  BY <1>3, <1>4, <1>5, <1>7, ClientExpects
<1>9. toServer = << >> /\ ServerHeard = ClientSaid
  BY <1>2, <1>3, <1>5, <1>7, ClientReader
<1>10. Reached /\ ServerPlace /\ ClientPlace /\ ~Renewing
  BY <1>2, Reach, ServerTable, ClientTable DEF Sound, AliveInv, Resting
<1>11. CASE ClientReadServerHello
  <2>1. /\ ClientReadTransition(ClientInput.type) = "CR_SRVR_HELLO"
        /\ cli.hand = "CW_CLNT_HELLO"
    BY <1>11, ClientReadSources DEF ClientReadServerHello, ClientReading
  <2>2. ClientInput.type = "SERVER_HELLO"
    BY <2>1 DEF ClientReadTransition
  <2>3. ClientHeard = 0 /\ ClientFirstHandshake
    BY <1>10, <2>1 DEF ClientHeard, Renewing
  <2>4. ServerRank(ClientInput.type) = 1
    BY <2>2 DEF ServerRank
  <2>5. ServerHeard >= 1
    BY <1>3, <1>10, <2>4 DEF Reached, ServerPlace
  <2>6. /\ ClientInput.suite = srv.newCipher
        /\ ("ticket" \in ClientInput.ext) = srv.ticketExpected
        /\ ("status" \in ClientInput.ext) = srv.statusExpected
        /\ ("npn" \in ClientInput.ext) = srv.npnSeen
        /\ ClientInput.sid = srvSess.sid
    BY <1>2, <1>3, <2>2 DEF AliveInv, HelloAgreed
  <2>7. ServerHelloHit(ClientInput) => cliSess.cipher = ClientInput.suite
    <3>1. ServerHelloHit(ClientInput) => srv.hit
      BY <1>2, <2>3, <2>5, <2>6 DEF ServerHelloHit, AliveInv, SecretsAgreed
    <3> QED BY <1>2, <2>6, <3>1 DEF AliveInv, SecretsAgreed, Sound, ServerLocal
  <2>8. ServerHelloAccepted(ClientInput)
    BY <2>3, <2>5, <2>6, <2>7, Flags DEF ServerHelloAccepted, ServerAllowed
  <2> QED BY <1>0, <1>5, <1>11, <2>8 DEF ClientReadServerHello, ClientStates
<1>12. CASE ClientReadCertificate
  <2>1. ClientInput.type = "CERTIFICATE"
    BY <1>12 DEF ClientReadCertificate, ClientReading, ClientReadTransition
  <2>2. ClientInput.chain = srvCfg.chain
    BY <1>3, <2>1 DEF Genuine
  <2>3. ServerChainAccepted(ClientInput.chain)
    BY <1>0, <2>2 DEF ServerChainAccepted, Peaceful, CompatibleButForContext,
                      ServerConfigType
  <2> QED BY <1>0, <1>5, <1>12, <2>3 DEF ClientReadCertificate, ClientStates
<1>13. CASE ClientReadKeyExchange
  <2>1. ClientInput.type = "SERVER_KEY_EXCHANGE"
        /\ cli.hand \in {"CR_CERT", "CR_CERT_STATUS"}
    BY <1>13 DEF ClientReadKeyExchange, ClientReading, ClientReadTransition
  <2>2. ClientInput.chain = srvCfg.chain
    BY <1>3, <2>1 DEF Genuine
  <2>3. cliSess.peer = srvCfg.chain /\ srvCfg.chain # "none"
    BY <1>0, <2>1 DEF ClientAllowed, ServerConfigType
  <2> QED BY <1>0, <1>5, <1>13, <2>2, <2>3
          DEF ClientReadKeyExchange, ClientStates
<1>14. CASE ClientReadServerDone
  <2>1. cliCfg.status # "refuse"
    BY DEF Peaceful, CompatibleButForContext
  <2> QED BY <1>0, <1>14, <2>1 DEF ClientReadServerDone, ClientStates
<1>15. CASE ClientReadChangeCipherSpec
  <2>1. /\ ClientInput.type = "CHANGE_CIPHER_SPEC"
        /\ cli.hand \in {"CR_SRVR_HELLO", "CW_FINISHED", "CR_SESSION_TICKET"}
    BY <1>15 DEF ClientReadChangeCipherSpec, ClientReading,
                 ClientReadTransition
  <2>2. ClientHeard >= 1
    BY <2>1 DEF ClientHeard
  <2>3. ServerRank(ClientInput.type) = 8
    BY <2>1 DEF ServerRank
  <2>4. ServerSaid >= 8
    BY <1>3, <1>10, <2>3 DEF Reached
  <2>5. srvSess.ms # 0
    BY <2>4, ServerSwitched DEF Sound, ServerInv, Keys
  <2>6. srv.hit \/ ServerHeard = 7
    BY <1>10, <2>4 DEF ServerPlace
  <2>7. cliSess.ms = srvSess.ms
    BY <1>2, <1>10, <2>6 DEF AliveInv, SecretsAgreed, Dropped
  <2>8. ServerHeard >= 1
    BY <1>10, <2>6 DEF ServerPlace
  <2>9. cli.newCipher # NoSuite
    BY <1>2, <2>2, <2>8 DEF AliveInv, HelloAgreed, Sound, ServerLocal
  <2> QED BY <1>0, <1>5, <1>15, <2>5, <2>7, <2>9
          DEF ClientReadChangeCipherSpec, ClientStates
<1>16. CASE ClientReadFinished
  <2>1. ClientInput.type = "FINISHED" /\ cli.hand = "CR_CHANGE"
    BY <1>16 DEF ClientReadFinished, ClientReading, ClientReadTransition
  <2>2. cli.ccs
    BY <2>1 DEF Sound, ClientLocal
  <2>3. cli.rkey = cliSess.ms
    BY <1>5, <2>1 DEF Sound, ClientInv, ClientKeys, ClientReadSwitched
  <2>4. ClientInput.secret = cliSess.ms
    BY <1>3, <1>6, <2>1, <2>3 DEF Genuine
  <2>5. ClientInput.hs = cliHs
    <3>1. Runs(cliHs, toClient, srvHs)
      BY <1>9 DEF Transcripts
    <3> QED BY <1>0, <1>3, <2>1, <3>1, RunsTail DEF Signed, ClientInput
  <2> QED BY <1>0, <1>16, <2>2, <2>4, <2>5 DEF ClientReadFinished, ClientStates
<1>17. CASE \/ ClientReadCertStatus \/ ClientReadCertificateRequest
            \/ ClientReadSessionTicket \/ ClientSkipHelloRequest
            \/ ClientReadHelloRequest
  BY <1>0, <1>5, <1>17
     DEF ClientReadCertStatus, ClientReadCertificateRequest,
         ClientReadSessionTicket, ClientSkipHelloRequest,
         ClientReadHelloRequest, ClientStates, clientVars
<1>18. CASE \/ ClientUnexpected \/ ClientReadAlert
            \/ ClientReadNoRenegotiation \/ ClientWake
            \/ ClientStrayChangeCipherSpec \/ ClientConnect \/ ClientWrite
            \/ ClientRenegotiate
  BY <1>4, <1>5, <1>6, <1>8, <1>18
     DEF ClientUnexpected, ClientReadAlert, ClientReadNoRenegotiation,
         ClientWake, ClientStrayChangeCipherSpec, ClientConnect, ClientWrite,
         ClientRenegotiate, ClientTurnToRead, ClientSendClientHello,
         ClientSendCertificate, ClientSendKeyExchange, ClientSendCertVerify,
         ClientSendChangeCipherSpec, ClientSendNextProto, ClientSendFinished,
         ClientFinishHandshake, ClientWriting, AlertTypes
<1> QED BY <1>11, <1>12, <1>13, <1>14, <1>15, <1>16, <1>17, <1>18
        DEF ClientStep, ClientRead

(* A ClientHello with a ticket that a server without context refuses.      *)
Refusal ==
  /\ Contextless /\ ServerFails
  /\ srv.hand = "BEFORE" /\ cliSess.ticket # NoTicket

LEMMA ServerOnlyRefuses ==
  ASSUME Sound, HandshakeInv, Alive, Peaceful, Calm, NothingCached,
         BufferKeptForCertVerify, ServerStep, srv'.flow = "ERROR"
  PROVE  Refusal
<1> USE DEF Calm
<1>0. srv \in ServerStates /\ toServer \in Seq(Messages)
      /\ cliCfg \in ClientConfigType /\ srvCfg \in ServerConfigType
  BY ClientConfigsAssumption, ServerConfigsAssumption
     DEF Sound, ClientTypeOK, ServerTypeOK, WireTypeOK
<1>1. ServerFails
  BY ServerFailStep DEF Sound
<1>2. AliveInv
  BY DEF HandshakeInv
<1>3. toServer # << >> /\ ServerInput \in Sent(toServer)
  BY <1>0, <1>1, SentTail DEF ServerFails, ServerInput
<1>4. ServerInput.type \notin AlertTypes
  BY <1>3 DEF Alive
<1>5. srv.flow = "READING" /\ srv.hand # "OK"
  <2>1. srv.hand # "OK"
    BY <1>2, <1>3, ServerTurn DEF ServerTalks
  <2> QED BY <1>1, <2>1 DEF ServerFails, Sound, ServerInv, Position
<1>6. ServerInput.key = srv.rkey
  BY <1>3, <1>5, ServerKeyFits
<1>8. ServerReadTransition(ServerInput.type) # "UNEXPECTED"
  BY <1>3, <1>4, <1>5, ServerExpects
<1>9. Reached /\ ServerPlace /\ ClientPlace /\ ~Renewing
  BY <1>2, Reach, ServerTable, ClientTable DEF Sound, AliveInv, Resting
<1>10. Runs(srvHs, toServer, cliHs)
  BY <1>2, <1>3, <1>5, <1>9, ServerReader DEF Transcripts
<1>11. ServerInput.type \in Signed => ServerInput.hs = srvHs
  BY <1>0, <1>3, <1>10, RunsTail DEF ServerInput
<1>12. ~srv.hit /\ ClientSaid >= 3 => cliSess.ms # 0
  <2> SUFFICES ASSUME ~srv.hit, ClientSaid >= 3 PROVE cliSess.ms # 0
    OBVIOUS
  <2>1. ClientHeard >= 1
    BY <1>9 DEF ClientPlace
  <2>2. ~cli.hit
    BY <1>2, <1>9, <2>1, Flags DEF AliveInv, HelloAgreed
  <2>3. cli.hand \in ClientHandStates
    BY DEF Sound, ClientTypeOK, ClientStates
  <2>4. AfterKeyExchange
    BY <1>9, <2>3 DEF ClientSaid, Renewing, AfterKeyExchange, LastWrites,
                      LastReads, ClientSettled, ClientHandStates
  <2> QED BY <2>2, <2>4 DEF Alive, Sound, ClientInv, ClientKeys
<1>13. ASSUME ServerReadTransition(ServerInput.type) = "SR_CLNT_HELLO"
       PROVE  /\ srv.hand = "BEFORE" /\ ServerInput.type = "CLIENT_HELLO"
              /\ ServerInput.suites = cliCfg.suites
              /\ ServerInput.sid = cliSess.sid
              /\ ServerInput.ticket \in {NoTicket, cliSess.ticket}
  <2>1. srv.hand = "BEFORE" /\ ServerInput.type = "CLIENT_HELLO"
    BY <1>5, <1>13 DEF ServerReadTransition
  <2>2. ServerInput.key = 0
    BY <1>6, <2>1 DEF Sound, ServerLocal
  <2> QED BY <1>2, <1>3, <2>1, <2>2 DEF AliveInv, SecretsAgreed, Genuine
<1>14. CASE ServerResume
  <2>1. ServerReadTransition(ServerInput.type) = "SR_CLNT_HELLO"
    BY <1>14 DEF ServerResume, ServerReading
  <2>2. PICK sess \in PrevSessions(ServerInput) :
          ~ResumptionAllowed(ServerInput, sess)
    BY <1>0, <1>14 DEF ServerResume, ServerAfterClientHello, ServerStates
  <2>3. sess.cipher \in cliCfg.suites
    <3>1. CASE TicketStatus(ServerInput) = "SUCCESS"
      <4>1. sess.cipher = ServerInput.ticket.suite
        BY <2>2, <3>1 DEF PrevSessions
      <4>2. ServerInput.ticket # NoTicket
        BY <3>1 DEF TicketStatus
      <4> QED BY <1>13, <2>1, <4>1, <4>2
              DEF HandshakeInv, Resumption, ClientAllowed
    <3>2. CASE TicketStatus(ServerInput) # "SUCCESS"
      <4>1. sess \in srvCache /\ sess.sid = ServerInput.sid
        BY <2>2, <3>2 DEF PrevSessions
      <4>2. sess.cipher = cliSess.cipher /\ sess.cipher # NoSuite
        BY <1>13, <2>1, <4>1 DEF HandshakeInv, Resumption
      <4> QED BY <4>2 DEF ClientAllowed
    <3> QED BY <3>1, <3>2
  <2>4. Contextless
    BY <1>13, <2>1, <2>2, <2>3
       DEF ResumptionAllowed, ServerAllowed, Contextless
  <2>5. TicketStatus(ServerInput) = "SUCCESS"
    BY <2>2, <2>4 DEF PrevSessions, NothingCached
  <2>6. ServerInput.ticket # NoTicket
    BY <2>5 DEF TicketStatus
  <2> QED BY <1>1, <1>13, <2>1, <2>4, <2>6 DEF Refusal
<1>15. CASE ServerNewSession
  <2>1. ServerReadTransition(ServerInput.type) = "SR_CLNT_HELLO"
    BY <1>15 DEF ServerNewSession, ServerReading
  <2>2. ServerInput.suites \cap srvCfg.suites # {}
    BY <1>13, <2>1 DEF Peaceful, CompatibleButForContext
  <2> QED BY <1>0, <1>15, <2>2 DEF ServerNewSession, ServerAfterClientHello,
                                   ServerStates
<1>16. CASE ServerReadCertificate
  <2>1. /\ ServerInput.type = "CERTIFICATE" /\ srv.hand = "SW_SRVR_DONE"
        /\ srv.certRequest
    BY <1>16 DEF ServerReadCertificate, ServerReading, ServerReadTransition
  <2>2. ServerInput.chain = cliCfg.chain
    BY <1>2, <1>3, <2>1 DEF AliveInv, CertAgreed
  <2>3. ServerHeard = 1 /\ ~srv.hit
    BY <2>1 DEF ServerHeard, Sound, ServerInv, Position
  <2>4. srv.newCipher \in cliCfg.suites \cap srvCfg.suites
    BY <2>3 DEF ServerAllowed
  <2>5. srv.verify # "none"
    BY <2>1 DEF ServerAllowed
  <2>6. ClientChainAccepted(ServerInput.chain)
    BY <2>2, <2>4, <2>5 DEF ClientChainAccepted, ServerAllowed, Peaceful,
                            CompatibleButForContext
  <2> QED BY <1>0, <1>5, <1>16, <2>6 DEF ServerReadCertificate, ServerStates
<1>17. CASE ServerReadKeyExchange
  <2>1. /\ ServerInput.type = "CLIENT_KEY_EXCHANGE"
        /\ srv.hand \in {"SW_SRVR_DONE", "SR_CERT"}
    BY <1>17 DEF ServerReadKeyExchange, ServerReading, ServerReadTransition
  <2>2. ServerInput.secret = cliSess.ms
    BY <1>2, <1>3, <2>1 DEF AliveInv, SecretsAgreed
  <2>3. ClientRank(ServerInput) = 3
    BY <2>1 DEF ClientRank
  <2>4. ~srv.hit /\ ClientSaid >= 3
    BY <1>3, <1>9, <2>1, <2>3 DEF Reached
  <2>5. srvSess.peer # "none" => srv.buffer
    <3>1. CASE srv.hand = "SW_SRVR_DONE"
      <4>1. ServerHeard = 1
        BY <3>1 DEF ServerHeard
      <4> QED BY <1>2, <2>4, <4>1 DEF AliveInv, CertAgreed
    <3>2. CASE srv.hand = "SR_CERT"
      <4>1. ServerHeard = 2
        BY <3>2 DEF ServerHeard
      <4>2. ServerFirstHandshake
        BY <1>2, <4>1 DEF AliveInv, OneHandshake
      <4> QED BY <2>4, <3>2, <4>2 DEF BufferKeptForCertVerify
    <3> QED BY <2>1, <3>1, <3>2
  <2> QED BY <1>0, <1>5, <1>12, <1>17, <2>2, <2>4, <2>5
          DEF ServerReadKeyExchange, ServerStates
<1>18. CASE ServerReadCertVerify
  <2>1. /\ ServerInput.type = "CERTIFICATE_VERIFY"
        /\ srv.hand = "SR_KEY_EXCH" /\ srvSess.peer # "none"
    BY <1>18 DEF ServerReadCertVerify, ServerReading, ServerReadTransition,
                 CertVerifyExpected
  <2>2. ServerInput.hs = srvHs
    BY <1>11, <2>1 DEF Signed
  <2>3. srvSess.peer = "good" /\ ~srv.hit
    BY <2>1 DEF Sound, ServerTypeOK, ServerSessions, ServerInv, Position
  <2>4. ServerInput.chain = srvSess.peer
    BY <1>3, <2>1, <2>3 DEF Genuine, ServerAllowed
  <2> QED BY <1>0, <1>5, <1>18, <2>2, <2>4 DEF ServerReadCertVerify, ServerStates
<1>19. CASE ServerReadChangeCipherSpec
  <2>1. srv.hand \in {"SR_KEY_EXCH", "SR_CERT_VRFY", "SW_FINISHED"}
    BY <1>19, ReadSources DEF ServerReadChangeCipherSpec, ServerReading
  <2>2. ServerHeard >= 1
    BY <2>1 DEF ServerHeard
  <2>3. srv.newCipher # NoSuite
    BY <2>2 DEF Sound, ServerLocal
  <2>4. srvSess.ms # 0
    <3>1. CASE srv.hit
      BY <3>1 DEF Sound, Negotiated
    <3>2. CASE ~srv.hit
      <4>1. ServerHeard >= 3
        BY <2>1, <3>2 DEF ServerHeard
      <4>2. ClientSaid >= 3
        BY <1>9, <4>1 DEF Reached
      <4>3. srvSess.ms = cliSess.ms
        BY <1>2, <1>9, <3>2, <4>1 DEF AliveInv, SecretsAgreed, Dropped
      <4> QED BY <1>12, <3>2, <4>2, <4>3
    <3> QED BY <3>1, <3>2
  <2> QED BY <1>0, <1>5, <1>19, <2>3, <2>4
          DEF ServerReadChangeCipherSpec, ServerStates
<1>20. CASE ServerReadFinished
  <2>1. /\ ServerInput.type = "FINISHED"
        /\ srv.hand \in {"SR_CHANGE", "SR_NEXT_PROTO"}
    BY <1>20 DEF ServerReadFinished, ServerReading, ServerReadTransition
  <2>2. srv.ccs
    BY <2>1 DEF Sound, ServerLocal
  <2>3. srv.rkey = srvSess.ms
    BY <2>1 DEF Sound, ServerInv, Keys, ReadSwitched
  <2>4. ServerInput.secret = srvSess.ms
    BY <1>3, <1>6, <2>1, <2>3 DEF Genuine
  <2>5. ServerInput.hs = srvHs
    BY <1>11, <2>1 DEF Signed
  <2> QED BY <1>0, <1>20, <2>2, <2>4, <2>5 DEF ServerReadFinished, ServerStates
<1>21. CASE ServerReadNextProto \/ ServerRejectRenegotiation
  BY <1>0, <1>5, <1>21 DEF ServerReadNextProto, ServerRejectRenegotiation,
                           ServerStates
<1>22. CASE \/ ServerUnexpected \/ ServerReadAlert
            \/ ServerReadNoRenegotiation \/ ServerWake
            \/ ServerStrayChangeCipherSpec \/ ServerAccept \/ ServerWrite
            \/ ServerRenegotiate
  BY <1>4, <1>5, <1>6, <1>8, <1>22
     DEF ServerUnexpected, ServerReadAlert, ServerReadNoRenegotiation,
         ServerWake, ServerStrayChangeCipherSpec, ServerAccept, ServerWrite,
         ServerRenegotiate, ServerTurnToRead, ServerSendHelloRequest,
         ServerSendServerHello, ServerSendCertificate, ServerSendCertStatus,
         ServerSendKeyExchange, ServerSendCertificateRequest,
         ServerSendServerDone, ServerSendSessionTicket,
         ServerSendChangeCipherSpec, ServerSendFinished,
         ServerFinishHandshake, ServerWriting, AlertTypes
<1> QED BY <1>14, <1>15, <1>16, <1>17, <1>18, <1>19, <1>20, <1>21, <1>22
        DEF ServerStep, ServerRead

-----------------------------------------------------------------------------
(* Steps of the client between compatible endpoints.                       *)
LEMMA ReachNext == (Sound /\ Streams => Reached)'
<1>1. Sound /\ Streams => Reached
  BY Reach
<1> QED BY <1>1, PTL

LEMMA RunsOver ==
  ASSUME NEW h \in Seq(HandshakeTypes), NEW g \in Seq(HandshakeTypes),
         Runs(h, << >>, g)
  PROVE  Runs(g, << >>, h)
BY RunsNone

LEMMA ClientStepCalm ==
  ASSUME Sound, Sound', HandshakeInv, HandshakeInv', Alive, Peaceful, Calm,
         ClientStep, UNCHANGED serverVars
  PROVE  Alive' /\ Resting' /\ Genuine' /\ Transcripts' /\ cliCfg' = cliCfg
<1> USE DEF Calm
<1>0. /\ toClient \in Seq(Messages) /\ toServer \in Seq(Messages)
      /\ cliHs \in Seq(HandshakeTypes) /\ srvHs \in Seq(HandshakeTypes)
      /\ cliHs' \in Seq(HandshakeTypes)
      /\ toClient' \in Seq(Messages) /\ toServer' \in Seq(Messages)
  BY DEF Sound, ClientTypeOK, ServerTypeOK, WireTypeOK
<1>1. cli'.flow # "ERROR"
  BY ClientNeverFails
<1>2. AliveInv
  BY DEF HandshakeInv
<1>3. ClientTalks => toClient = << >>
  BY <1>2, ClientTurn
<1>4. /\ cli.hand # "OK"
      /\ cli'.hand = "OK" => cli'.flow = "FINISHED"
      /\ cli'.hand # "CR_HELLO_REQ" /\ ~Renewing'
      /\ cli'.hand = "BEFORE" => cli.hand = "BEFORE"
      /\ cliCfg' = cliCfg
  <2>1. cli.hand = "OK" => cli.flow = "FINISHED" /\ toClient = << >>
    BY <1>3 DEF Resting, ClientTalks
  <2>2. ~cliCfg.renegotiate
    BY DEF Peaceful, CompatibleButForContext
  <2> QED BY <1>1, <2>1, <2>2, ClientRests DEF Sound, Resting
<1>5. UNCHANGED <<srv, srvSess, srvHs, srvCfg>>
  BY DEF serverVars
<1>6. ClientDigests
  BY <1>1, ClientDigestStep DEF Sound
<1>7. ASSUME NEW m \in Messages, ClientSays(m)
      PROVE  Alive' /\ Resting' /\ Genuine' /\ Transcripts'
  <2>1. /\ toServer' = Append(toServer, m) /\ toClient' = toClient
        /\ toClient = << >>
    BY <1>3, <1>7 DEF ClientSays
  <2>2. Sent(toServer') = Sent(toServer) \cup {m}
    BY <1>0, <2>1, SentAppend
  <2>3. m.type \notin AlertTypes
    BY <1>7 DEF ClientSays, ClientHandshakeTypes, AlertTypes
  <2>4. Alive'
    BY <1>1, <1>5, <2>1, <2>2, <2>3 DEF Alive
  <2>5. Resting'
    BY <1>4, <1>5, <2>1 DEF Resting
  <2>6. Genuine'
    <3>1. \A x \in Sent(toServer') : x \in Sent(toServer) \/ x = m
      BY <2>2
    <3>2. /\ m.type = "CLIENT_HELLO" =>
               /\ m.suites = cliCfg.suites
               /\ "ticket" \in m.ext => cliCfg.tickets
               /\ "status" \in m.ext => cliCfg.status # "no"
               /\ "npn" \in m.ext => cliCfg.npn
          /\ m.type = "CERTIFICATE_VERIFY" => m.chain = cliCfg.chain
          /\ m.type = "FINISHED" => m.secret = m.key
      BY <1>7 DEF ClientSays
    <3> QED BY <1>4, <1>5, <2>1, <3>1, <3>2 DEF Genuine
  <2>7. cliHs' = Digest(cliHs, m.type)
    BY <1>4, <1>7 DEF ClientSays, Resting, Transcripts
  <2>8. Runs(srvHs, toServer', cliHs')
    <3>1. Runs(srvHs, toServer, cliHs)
      BY <2>1 DEF Transcripts
    <3>2. m.type \in Signed => m.hs = cliHs
      BY <1>7 DEF ClientSays
    <3> QED BY <1>0, <2>1, <2>7, <3>1, <3>2, RunsAppend
  <2>9. toServer' # << >>
    BY <1>0, <2>1
  <2>10. cli'.hand # "BEFORE"
    <3>1. AliveInv'
      BY <2>4 DEF HandshakeInv
    <3>2. ClientRank(m) \in 1 .. 8 /\ ClientRank(m) <= ClientSaid'
      BY <2>2, <3>1, ReachNext DEF AliveInv, Reached
    <3>3. cli'.hand = "BEFORE" => ClientSaid' = 0
      BY DEF ClientSaid
    <3> QED BY <3>2, <3>3
  <2>11. Transcripts'
    BY <1>5, <2>1, <2>8, <2>9, <2>10 DEF Transcripts
  <2> QED BY <2>4, <2>5, <2>6, <2>11
<1>8. ASSUME toClient # << >>, toClient' = Tail(toClient),
             toServer' = toServer, cliHs' = Digest(cliHs, ClientInput.type)
      PROVE  Alive' /\ Resting' /\ Genuine' /\ Transcripts'
  <2>1. Sent(toClient') \subseteq Sent(toClient)
    BY <1>0, <1>8, SentTail
  <2>2. Alive'
    BY <1>1, <1>5, <1>8, <2>1 DEF Alive
  <2>3. Resting'
    BY <1>4, <1>5, <2>1 DEF Resting
  <2>4. Genuine'
    BY <1>4, <1>5, <1>8, <2>1 DEF Genuine
  <2>5. toServer = << >>
    BY <1>8 DEF Transcripts
  <2>6. Runs(cliHs', toClient', srvHs)
    <3>1. Runs(cliHs, toClient, srvHs)
      BY <2>5 DEF Transcripts
    <3> QED BY <1>0, <1>8, <3>1, RunsTail DEF ClientInput
  <2>7. toClient' = << >> => Runs(srvHs, toServer', cliHs')
    BY <1>0, <1>8, <2>5, <2>6, RunsOver
  <2>8. cli'.hand # "BEFORE"
    BY <1>3, <1>4, <1>8 DEF ClientTalks
  <2>9. Transcripts'
    BY <1>5, <1>8, <2>5, <2>6, <2>7, <2>8 DEF Transcripts
  <2> QED BY <2>2, <2>3, <2>4, <2>9
<1>9. ASSUME UNCHANGED <<toClient, toServer>>, cliHs' = cliHs
      PROVE  Alive' /\ Resting' /\ Genuine' /\ Transcripts'
  <2>1. Alive' /\ Genuine' /\ Resting'
    BY <1>1, <1>4, <1>5, <1>9 DEF Alive, Genuine, Resting
  <2>2. Transcripts'
    BY <1>4, <1>5, <1>9 DEF Transcripts
  <2> QED BY <2>1, <2>2
<1>10. cli.hand = "BEFORE" => cliHs = << >>
  BY DEF Transcripts
<1> QED BY <1>4, <1>6, <1>7, <1>8, <1>9, <1>10 DEF ClientDigests

(* The certificate that the client has just accepted is the server's.      *)
LEMMA ClientStepPeer ==
  ASSUME Sound, Genuine, ClientAllowed, ClientStep, cli'.flow # "ERROR",
         cli'.hand \in {"CR_CERT", "CR_CERT_STATUS"}
  PROVE  cliSess'.peer = srvCfg.chain
<1>0. cli \in ClientStates /\ cliSess \in ClientSessions
      /\ toClient \in Seq(Messages) /\ srvCfg \in ServerConfigType
  BY ServerConfigsAssumption
     DEF Sound, ClientTypeOK, ServerTypeOK, WireTypeOK
<1>1. CASE ClientReadCertificate
  <2>1. ClientInput.type = "CERTIFICATE" /\ toClient # << >>
    BY <1>1 DEF ClientReadCertificate, ClientReading, ClientReadTransition
  <2>2. ClientInput.chain = srvCfg.chain
    BY <1>0, <2>1, SentTail DEF Genuine, ClientInput
  <2>3. ClientInput.chain # "single"
    BY <1>0, <2>2 DEF ServerConfigType
  <2> QED BY <1>0, <1>1, <2>2, <2>3
          DEF ClientReadCertificate, ClientFatal, ClientStates, ClientSessions
<1>2. CASE ClientReadCertStatus
  BY <1>2, ClientReadSources
     DEF ClientReadCertStatus, ClientReading, ClientAllowed
<1>3. CASE ClientSkipHelloRequest
  BY <1>3 DEF ClientSkipHelloRequest, clientVars, ClientAllowed
<1>4. CASE \/ ClientReadServerHello \/ ClientReadKeyExchange
           \/ ClientReadCertificateRequest \/ ClientReadServerDone
           \/ ClientReadSessionTicket \/ ClientReadChangeCipherSpec
           \/ ClientReadFinished \/ ClientReadHelloRequest
  BY <1>0, <1>4
     DEF ClientReadServerHello, ClientReadKeyExchange,
         ClientReadCertificateRequest, ClientReadServerDone,
         ClientReadSessionTicket, ClientReadChangeCipherSpec,
         ClientReadFinished, ClientReadHelloRequest, ClientFatal, ClientStates
<1>5. CASE \/ ClientUnexpected \/ ClientReadAlert
           \/ ClientReadNoRenegotiation \/ ClientStrayChangeCipherSpec
  BY <1>0, <1>5
     DEF ClientUnexpected, ClientReadAlert, ClientReadNoRenegotiation,
         ClientStrayChangeCipherSpec, ClientFatal, ClientStates
<1>6. CASE ClientConnect \/ ClientWake \/ ClientRenegotiate
  BY <1>0, <1>6
     DEF ClientConnect, ClientWake, ClientRenegotiate, NewClientSsl,
         ClientStates, Sound, ClientInv, ClientPosition
<1>7. CASE ClientTurnToRead
  BY <1>0, <1>7, ClientWriteSources
     DEF ClientTurnToRead, ClientWriting, ClientStates
<1>8. CASE \/ ClientSendClientHello \/ ClientSendCertificate
           \/ ClientSendKeyExchange \/ ClientSendCertVerify
           \/ ClientSendChangeCipherSpec \/ ClientSendNextProto
           \/ ClientSendFinished \/ ClientFinishHandshake
  BY <1>0, <1>8
     DEF ClientSendClientHello, ClientSendCertificate, ClientSendKeyExchange,
         ClientSendCertVerify, ClientSendChangeCipherSpec,
         ClientSendNextProto, ClientSendFinished, ClientFinishHandshake,
         ClientFatal, ClientStates
<1> QED BY <1>1, <1>2, <1>3, <1>4, <1>5, <1>6, <1>7, <1>8
        DEF ClientStep, ClientWrite, ClientRead

LEMMA ClientStepAllowed ==
  ASSUME Sound, Sound', HandshakeInv, HandshakeInv', Alive, Alive', Peaceful,
         Calm, ClientStep, UNCHANGED serverVars, cliCfg' = cliCfg
  PROVE  ClientAllowed' /\ ServerAllowed'
<1> USE DEF Calm
<1>0. cliSess \in ClientSessions /\ toClient \in Seq(Messages)
  BY DEF Sound, ClientTypeOK, WireTypeOK
<1>1. cli'.flow # "ERROR" /\ AliveInv
  BY DEF Alive, HandshakeInv
<1>2. /\ ServerHeard' = ServerHeard
      /\ UNCHANGED <<srv, srvSess, srvCfg>>
  BY ServerKept DEF serverVars
<1>3. ServerAllowed'
  BY <1>2 DEF ServerAllowed
<1>4. cli'.hand \in {"CR_CERT", "CR_CERT_STATUS"} => cliSess'.peer = srvCfg'.chain
  BY <1>1, <1>2, ClientStepPeer
<1>5. Reached /\ ServerPlace /\ ClientPlace
  BY <1>1, Reach, ServerTable, ClientTable DEF Sound, AliveInv
<1>6. ClientHeard >= 1 => cli.newCipher \in cliCfg.suites
  <2> SUFFICES ASSUME ClientHeard >= 1 PROVE cli.newCipher \in cliCfg.suites
    OBVIOUS
  <2>1. ServerHeard >= 1
    BY <1>5 DEF Reached, ServerPlace
  <2> QED BY <1>1, <2>1 DEF ServerAllowed, AliveInv, HelloAgreed
<1>7. /\ cliSess'.cipher \in cliCfg.suites \cup {NoSuite}
      /\ cliSess'.ticket # NoTicket => cliSess'.cipher \in cliCfg.suites
  <2>1. CASE \/ UNCHANGED <<cliSess.cipher, cliSess.ticket>>
             \/ cliSess'.cipher \in cliCfg.suites
             \/ cliSess'.cipher = NoSuite /\ cliSess'.ticket = NoTicket
    BY <2>1 DEF ClientAllowed
  <2>2. CASE ClientQuiet \/ ClientReadsRequest
    BY <2>1, <2>2 DEF ClientQuiet, ClientReadsRequest
  <2>3. CASE \E m \in Messages : ClientOffers(m)
    BY <2>1, <2>3 DEF ClientOffers, NoClientSession
  <2>4. CASE \E m \in Messages : ClientWrites(m)
    <3>1. PICK m \in Messages : ClientWrites(m)
      BY <2>4
    <3>2. CASE m.type = "CHANGE_CIPHER_SPEC"
      <4>1. cliSess'.cipher = cli.newCipher /\ ClientSaid >= 1
            /\ ClientNext(cli.hit, cli.certReq # "no", cli.certReq = "send",
                          cli.npnSeen, ClientSaid, m) /\ ~Renewing
        BY <3>1, <3>2 DEF ClientWrites
      <4>2. cli.hit \/ ClientSaid \in 3 .. 4
        BY <3>2, <4>1 DEF ClientNext
      <4>3. ClientHeard >= 1
        BY <1>5, <4>1, <4>2 DEF ClientPlace
      <4> QED BY <1>6, <2>1, <4>1, <4>3
    <3>3. CASE m.type # "CHANGE_CIPHER_SPEC"
      BY <2>1, <3>1, <3>3 DEF ClientWrites
    <3> QED BY <3>2, <3>3
  <2>5. CASE ClientHearsHello
    <3>1. cliSess' = SessionAfterServerHello(ClientInput)
      BY <2>5 DEF ClientHearsHello
    <3>2. \/ UNCHANGED <<cliSess.cipher, cliSess.ticket>>
          \/ cliSess'.cipher = NoSuite /\ cliSess'.ticket = NoTicket
      BY <1>0, <3>1 DEF SessionAfterServerHello, NoClientSession,
                        ClientSessions
    <3> QED BY <2>1, <3>2
  <2>6. CASE ClientReads
    <3>1. toClient # << >> /\ ClientInput \in Sent(toClient)
      BY <1>0, <2>6, SentTail DEF ClientReads, ClientInput
    <3>2. CASE ClientInput.type = "CHANGE_CIPHER_SPEC"
      <4>1. cliSess'.cipher = cli.newCipher
        BY <2>6, <3>2 DEF ClientReads
      <4>2. ClientHeard >= 1
        <5>1. ServerNext(srv.hit, srv.statusExpected, srv.certRequest,
                         TicketDue, ClientHeard, ClientInput.type)
          BY <1>1, <3>1, NextInput DEF AliveInv
        <5> QED BY <3>2, <5>1 DEF ServerNext
      <4> QED BY <1>6, <2>1, <4>1, <4>2
    <3>3. CASE ClientInput.type = "NEWSESSION_TICKET"
      <4>1. cliSess'.ticket = ClientInput.ticket
            /\ ClientInput.ticket # NoTicket
            /\ ClientInput.ticket.suite = srv.newCipher
        BY <1>1, <2>6, <3>1, <3>3 DEF ClientReads, AliveInv, SecretsAgreed
      <4>2. cliSess'.cipher = srv.newCipher
        BY <4>1 DEF HandshakeInv, Resumption
      <4>3. ServerRank(ClientInput.type) = 7
        BY <3>3 DEF ServerRank
      <4>4. ServerHeard >= 1
        BY <1>5, <3>1, <4>3 DEF Reached, ServerPlace
      <4> QED BY <2>1, <4>2, <4>4 DEF ServerAllowed
    <3>4. CASE ClientInput.type \notin {"CHANGE_CIPHER_SPEC", "NEWSESSION_TICKET"}
      BY <2>1, <2>6, <3>4 DEF ClientReads
    <3> QED BY <3>2, <3>3, <3>4
  <2>7. ~ClientFails
    BY <1>1 DEF ClientFails
  <2> QED BY <2>2, <2>3, <2>4, <2>5, <2>6, <2>7, ClientKinds DEF Sound
<1> QED BY <1>3, <1>4, <1>7 DEF ClientAllowed

-----------------------------------------------------------------------------
(* Steps of the server between compatible endpoints.                       *)
LEMMA ServerStepCalm ==
  ASSUME Sound, Sound', HandshakeInv, HandshakeInv', Alive, Peaceful, Calm,
         ServerStep, srv'.flow # "ERROR", UNCHANGED clientVars
  PROVE  Alive' /\ Resting' /\ Genuine' /\ Transcripts' /\ srvCfg' = srvCfg
<1> USE DEF Calm
<1>0. /\ toClient \in Seq(Messages) /\ toServer \in Seq(Messages)
      /\ cliHs \in Seq(HandshakeTypes) /\ srvHs \in Seq(HandshakeTypes)
      /\ srvHs' \in Seq(HandshakeTypes)
      /\ toClient' \in Seq(Messages) /\ toServer' \in Seq(Messages)
  BY DEF Sound, ClientTypeOK, ServerTypeOK, WireTypeOK
<1>1. srv'.flow # "ERROR"
  OBVIOUS
<1>2. AliveInv
  BY DEF HandshakeInv
<1>3. ServerTalks => toServer = << >>
  BY <1>2, ServerTurn
<1>4. /\ srv.hand # "OK"
      /\ srv'.hand = "OK" => srv'.flow = "FINISHED"
      /\ srv'.hand # "SW_HELLO_REQ"
      /\ srv'.hand = "BEFORE" => srv.hand = "BEFORE"
      /\ srvCfg' = srvCfg
  <2>1. srv.hand = "OK" => srv.flow = "FINISHED" /\ toServer = << >>
    BY <1>3 DEF Resting, ServerTalks
  <2>2. ~srvCfg.renegotiate
    BY DEF Peaceful, CompatibleButForContext
  <2> QED BY <1>1, <2>1, <2>2, ServerRests DEF Sound, Resting
<1>5. UNCHANGED <<cli, cliSess, cliHs, cliCfg>> /\ ~Renewing'
  <2>1. UNCHANGED <<cli, cliSess, cliHs, cliCfg>>
    BY DEF clientVars
  <2> QED BY <2>1 DEF Resting, Renewing, ClientFirstHandshake
<1>6. ServerDigests
  BY <1>1, ServerDigestStep DEF Sound
<1>7. ASSUME NEW m \in Messages, ServerSays(m)
      PROVE  Alive' /\ Resting' /\ Genuine' /\ Transcripts'
  <2>1. /\ toClient' = Append(toClient, m) /\ toServer' = toServer
        /\ toServer = << >> /\ m.type # "HELLO_REQUEST"
    BY <1>3, <1>4, <1>7 DEF ServerSays
  <2>2. Sent(toClient') = Sent(toClient) \cup {m}
    BY <1>0, <2>1, SentAppend
  <2>3. m.type \notin AlertTypes
    BY <1>7 DEF ServerSays, ServerHandshakeTypes, AlertTypes
  <2>4. Alive'
    BY <1>1, <1>5, <2>1, <2>2, <2>3 DEF Alive
  <2>5. Resting'
    BY <1>4, <1>5, <2>1, <2>2 DEF Resting
  <2>6. Genuine'
    <3>1. \A x \in Sent(toClient') : x \in Sent(toClient) \/ x = m
      BY <2>2
    <3>2. /\ m.type \in {"CERTIFICATE", "SERVER_KEY_EXCHANGE"} =>
               m.chain = srvCfg.chain
          /\ m.type = "FINISHED" => m.secret = m.key
      BY <1>7 DEF ServerSays
    <3> QED BY <1>4, <1>5, <2>1, <3>1, <3>2 DEF Genuine
  <2>7. srvHs' = Digest(srvHs, m.type)
    BY <2>1, <1>7 DEF ServerSays
  <2>8. Runs(cliHs, toClient', srvHs')
    <3>1. Runs(cliHs, toClient, srvHs)
      BY <2>1 DEF Transcripts
    <3>2. m.type \in Signed => m.hs = srvHs
      BY <1>7 DEF ServerSays
    <3> QED BY <1>0, <2>1, <2>7, <3>1, <3>2, RunsAppend
  <2>9. toClient' # << >>
    BY <1>0, <2>1
  <2>10. srv'.hand # "BEFORE"
    <3>1. AliveInv'
      BY <2>4 DEF HandshakeInv
    <3>2. ServerRank(m.type) \in 1 .. 9 /\ ServerRank(m.type) <= ServerSaid'
      BY <2>2, <3>1, ReachNext DEF AliveInv, Reached
    <3>3. srv'.hand = "BEFORE" => ServerSaid' = 0
      BY DEF ServerSaid
    <3> QED BY <3>2, <3>3
  <2>11. Transcripts'
    BY <1>5, <2>1, <2>8, <2>9, <2>10 DEF Transcripts
  <2> QED BY <2>4, <2>5, <2>6, <2>11
<1>8. ASSUME toServer # << >>, toServer' = Tail(toServer),
             toClient' = toClient, srvHs' = Digest(srvHs, ServerInput.type)
      PROVE  Alive' /\ Resting' /\ Genuine' /\ Transcripts'
  <2>1. Sent(toServer') \subseteq Sent(toServer)
    BY <1>0, <1>8, SentTail
  <2>2. Alive'
    BY <1>1, <1>5, <1>8, <2>1 DEF Alive
  <2>3. Resting'
    BY <1>4, <1>5, <1>8 DEF Resting
  <2>4. Genuine'
    BY <1>4, <1>5, <1>8, <2>1 DEF Genuine
  <2>5. toClient = << >>
    BY <1>8 DEF Transcripts
  <2>6. Runs(srvHs', toServer', cliHs)
    <3>1. Runs(srvHs, toServer, cliHs)
      BY <2>5 DEF Transcripts
    <3> QED BY <1>0, <1>8, <3>1, RunsTail DEF ServerInput
  <2>7. toServer' = << >> => Runs(cliHs, toClient', srvHs')
    BY <1>0, <1>8, <2>5, <2>6, RunsOver
  <2>8. srv'.hand # "BEFORE"
    <3>1. Reached /\ AliveInv'
      BY <1>2, <2>2, Reach DEF Sound, AliveInv, HandshakeInv
    <3>2. Reached'
      BY <3>1, ReachNext DEF AliveInv
    <3>3. ServerHeard < ClientSaid /\ ClientSaid \in 0 .. 8
          /\ ServerHeard \in 0 .. 7
      BY <1>8, <3>1 DEF Reached
    <3>4. ClientSaid' = ClientSaid
      BY <1>5 DEF ClientSaid, ClientFirstHandshake
    <3>5. ASSUME srv'.hand = "BEFORE" PROVE FALSE
      <4>1. \/ ServerHearsHello \/ ServerReads
        <5>1. ~ServerFails /\ ~ServerRejects
          BY <1>1, <1>4 DEF ServerFails, ServerRejects
        <5>2. Len(toServer') # Len(toServer)
          BY <1>0, <1>8, TailFacts
        <5>3. ~ServerQuiet
          BY <5>2 DEF ServerQuiet
        <5>4. ASSUME NEW m \in Messages
              PROVE  ~ServerAsks(m) /\ ~ServerAnswers(m) /\ ~ServerWrites(m)
          <6>1. Append(toClient, m) # toClient
            BY <1>0
          <6> QED BY <1>8, <6>1 DEF ServerAsks, ServerAnswers, ServerWrites
        <5> QED BY <5>1, <5>3, <5>4, ServerKinds DEF Sound
      <4>2. ~ServerReads
        <5>1. ServerHeard' = 0
          BY <3>5 DEF ServerHeard
        <5>2. ServerInput \in Sent(toServer)
          BY <1>0, <1>8, SentTail DEF ServerInput
        <5> QED BY <3>1, <5>1, <5>2 DEF ServerReads, Reached
      <4> QED BY <3>5, <4>1, <4>2 DEF ServerHearsHello
    <3> QED BY <3>5
  <2>9. Transcripts'
    BY <1>5, <1>8, <2>5, <2>6, <2>7, <2>8 DEF Transcripts
  <2> QED BY <2>2, <2>3, <2>4, <2>9
<1>9. ASSUME UNCHANGED <<toClient, toServer>>, srvHs' = srvHs
      PROVE  Alive' /\ Resting' /\ Genuine' /\ Transcripts'
  <2>1. Alive' /\ Genuine' /\ Resting'
    BY <1>1, <1>4, <1>5, <1>9 DEF Alive, Genuine, Resting
  <2>2. Transcripts'
    BY <1>4, <1>5, <1>9 DEF Transcripts
  <2> QED BY <2>1, <2>2
<1>10. srv.hand = "BEFORE" => srvHs = << >>
  BY DEF Transcripts
<1> QED BY <1>4, <1>6, <1>7, <1>8, <1>9, <1>10 DEF ServerDigests

(* The verify mode changes only by the suite chosen, and asks for the      *)
(* client's certificate before the server does.                            *)
LEMMA ServerDuties ==
  ASSUME ServerTypeOK, ServerLocal, ServerStep, srv'.flow # "ERROR"
  PROVE  /\ srv'.certRequest => srv.certRequest \/ srv'.verify # "none"
         /\ \/ srv'.verify = srv.verify
            \/ /\ srv'.verify = "require" /\ srv'.newCipher \in MutualSuites
               /\ srv'.hand = "SR_CLNT_HELLO"
         /\ srv'.ticketExpected => srv.ticketExpected \/ srv.hand \in {"BEFORE", "OK"}
         /\ srv'.hand = "SR_CLNT_HELLO" /\ srv.hand = "BEFORE" /\ ~srv'.hit =>
              srv'.newCipher \in srvCfg.suites
<1>0. srv \in ServerStates
  BY DEF ServerTypeOK
<1>1. CASE ServerAccept
  BY <1>0, <1>1 DEF ServerAccept, ClearedServerSsl, NewServerSsl, ServerStates
<1>2. CASE \/ ServerTurnToRead \/ ServerSendHelloRequest
           \/ ServerSendServerHello \/ ServerSendCertificate
           \/ ServerSendCertStatus \/ ServerSendKeyExchange
  BY <1>0, <1>2, WriteSources
     DEF ServerTurnToRead, ServerSendHelloRequest,
         ServerSendServerHello, ServerSendCertificate, ServerSendCertStatus,
         ServerSendKeyExchange, ServerWriting, ServerStates, AnnouncesTicket
<1>3. CASE ServerSendCertificateRequest
  <2>1. SendCertificateRequest
    BY <1>3 DEF ServerSendCertificateRequest, ServerWriting,
                ServerWriteTransition, AfterServerHello
  <2> QED BY <1>0, <1>3, <2>1
          DEF ServerSendCertificateRequest, ServerStates,
              SendCertificateRequest
<1>4. CASE \/ ServerSendServerDone \/ ServerSendSessionTicket
           \/ ServerSendChangeCipherSpec \/ ServerSendFinished
           \/ ServerFinishHandshake
  BY <1>0, <1>4
     DEF ServerSendServerDone, ServerSendSessionTicket,
         ServerSendChangeCipherSpec, ServerSendFinished,
         ServerFinishHandshake, ServerStates, ServerFatal
<1>5. CASE ServerResume
  <2>0. ~ServerFatal
    BY <1>0 DEF ServerFatal, ServerStates
  <2>1. PICK sess \in PrevSessions(ServerInput) :
          srv' = ServerAfterClientHello(ServerInput, TRUE, sess.cipher,
                                        TicketStatus(ServerInput) = "EMPTY")
    BY <1>5, <2>0 DEF ServerResume
  <2>2. srv.hand \in {"BEFORE", "OK"}
    BY <1>5 DEF ServerResume, ServerReading, ServerReadTransition
  <2> QED BY <1>0, <2>1, <2>2 DEF ServerAfterClientHello, ServerStates
<1>6. CASE ServerNewSession
  <2>0. ~ServerFatal
    BY <1>0 DEF ServerFatal, ServerStates
  <2>1. PICK c \in srvCfg.suites :
          srv' = ServerAfterClientHello(ServerInput, FALSE, c,
                   TicketStatus(ServerInput) \in {"EMPTY", "NO_DECRYPT"})
    BY <1>6, <2>0 DEF ServerNewSession
  <2>2. srv.hand \in {"BEFORE", "OK"}
    BY <1>6 DEF ServerNewSession, ServerReading, ServerReadTransition
  <2> QED BY <1>0, <2>1, <2>2 DEF ServerAfterClientHello, ServerStates
<1>7. CASE \/ ServerRejectRenegotiation \/ ServerReadCertificate
           \/ ServerReadKeyExchange \/ ServerReadCertVerify
           \/ ServerReadChangeCipherSpec \/ ServerReadNextProto
           \/ ServerReadFinished
  <2>1. UNCHANGED <<srv.verify, srv.certRequest, srv.ticketExpected>>
    BY <1>0, <1>7
       DEF ServerRejectRenegotiation, ServerReadCertificate,
           ServerReadKeyExchange, ServerReadCertVerify,
           ServerReadChangeCipherSpec, ServerReadNextProto,
           ServerReadFinished, ServerFatal, ServerStates
  <2>2. srv'.hand # "SR_CLNT_HELLO" \/ srv.hand # "BEFORE"
    BY <1>0, <1>7
       DEF ServerRejectRenegotiation, ServerReadCertificate,
           ServerReadKeyExchange, ServerReadCertVerify,
           ServerReadChangeCipherSpec, ServerReadNextProto,
           ServerReadFinished, ServerFatal, ServerStates, ServerLocal,
           ServerFirstHandshake
  <2> QED BY <2>1, <2>2
<1>8. CASE \/ ServerUnexpected \/ ServerReadAlert
           \/ ServerReadNoRenegotiation \/ ServerStrayChangeCipherSpec
  BY <1>0, <1>8 DEF ServerUnexpected, ServerReadAlert,
       ServerReadNoRenegotiation, ServerStrayChangeCipherSpec, ServerFatal,
       ServerStates
<1>9. CASE ServerWake \/ ServerRenegotiate
  BY <1>0, <1>9 DEF ServerWake, ServerRenegotiate, ServerStates
<1> QED BY <1>1, <1>2, <1>3, <1>4, <1>5, <1>6, <1>7, <1>8, <1>9
        DEF ServerStep, ServerRead, ServerWrite

LEMMA ServerStepAllowed ==
  ASSUME Sound, Sound', HandshakeInv, Alive, Alive', Peaceful, Calm,
         Resting', ServerStep, UNCHANGED clientVars, srvCfg' = srvCfg
  PROVE  ClientAllowed' /\ ServerAllowed'
<1> USE DEF Calm
<1>0. /\ srv \in ServerStates /\ srvSess \in ServerSessions
      /\ srv' \in ServerStates /\ toServer \in Seq(Messages)
  BY DEF Sound, ServerTypeOK, WireTypeOK
<1>1. srv.flow # "ERROR" /\ srv'.flow # "ERROR" /\ AliveInv
  BY DEF Alive, HandshakeInv
<1>2. UNCHANGED <<cli, cliSess, cliCfg>>
  BY DEF clientVars
<1>3. ClientAllowed'
  BY <1>2 DEF ClientAllowed
<1>4. /\ srv'.certRequest => srv.certRequest \/ srv'.verify # "none"
      /\ \/ srv'.verify = srv.verify
         \/ /\ srv'.verify = "require" /\ srv'.newCipher \in MutualSuites
            /\ srv'.hand = "SR_CLNT_HELLO"
      /\ srv'.ticketExpected =>
           srv.ticketExpected \/ srv.hand \in {"BEFORE", "OK"}
      /\ srv'.hand = "SR_CLNT_HELLO" /\ srv.hand = "BEFORE" /\ ~srv'.hit =>
           srv'.newCipher \in srvCfg.suites
  BY <1>1, ServerDuties DEF Sound
<1>5. srv.hand # "OK" /\ (srv'.hand = "BEFORE" => srv.hand = "BEFORE")
  <2>1. srv.hand = "OK" => srv.flow = "FINISHED" /\ toServer = << >>
    BY <1>1, ServerTurn DEF Resting, ServerTalks
  <2>2. ~srvCfg.renegotiate
    BY DEF Peaceful, CompatibleButForContext
  <2> QED BY <1>1, <2>1, <2>2, ServerRests DEF Sound, Resting
<1>6. srv'.certRequest => srv'.verify # "none"
  BY <1>4 DEF ServerAllowed
<1>7. ASSUME ServerHearsHello, ServerResumes \/ ServerStarts
      PROVE  ServerAllowed'
  <2>1. ServerInput \in Sent(toServer)
    BY <1>0, <1>7, SentTail DEF ServerHearsHello, ServerInput
  <2>2. /\ srv.hand = "BEFORE" /\ srv'.hand = "SR_CLNT_HELLO"
        /\ srv'.newCipher \in ServerInput.suites
        /\ srv'.statusExpected => "status" \in ServerInput.ext
        /\ srv'.npnSeen => "npn" \in ServerInput.ext
        /\ srv'.ticketExpected => "ticket" \in ServerInput.ext
        /\ ServerInput.type = "CLIENT_HELLO"
    BY <1>7 DEF ServerHearsHello
  <2>3. /\ srv'.newCipher \in cliCfg.suites
        /\ srv'.ticketExpected => cliCfg.tickets
        /\ srv'.statusExpected => cliCfg.status # "no"
        /\ srv'.npnSeen => cliCfg.npn
    BY <2>1, <2>2 DEF Genuine
  <2>4. \/ srv'.verify = srvCfg.verify
        \/ srv'.newCipher \in MutualSuites /\ srv'.hand # "BEFORE"
    BY <1>4, <2>2 DEF ServerAllowed
  <2>5. srv'.hit \/ srvSess'.peer = "none"
    BY <1>7 DEF ServerResumes, ServerStarts
  <2> QED BY <1>2, <1>4, <1>6, <2>2, <2>3, <2>4, <2>5 DEF ServerAllowed
<1>8. ASSUME UNCHANGED ServerDeal,
             ServerHeard' >= 1 => ServerHeard >= 1 /\ srv.hand # "BEFORE",
             srvSess'.peer = "good" => srvSess.peer = "good" \/ cliCfg.chain = "good"
      PROVE  ServerAllowed'
  <2>1. UNCHANGED <<srv.hit, srv.npnSeen, srv.statusExpected, srv.newCipher>>
    BY <1>8 DEF ServerDeal
  <2>2. \/ srv'.verify = srvCfg.verify
        \/ srv'.newCipher \in MutualSuites /\ srv'.hand # "BEFORE"
    BY <1>4, <1>5, <2>1 DEF ServerAllowed
  <2>3. ServerHeard' >= 1 =>
          /\ srv'.newCipher \in cliCfg.suites
          /\ ~srv'.hit => srv'.newCipher \in srvCfg.suites
          /\ srv'.ticketExpected => cliCfg.tickets
          /\ srv'.statusExpected => cliCfg.status # "no"
          /\ srv'.npnSeen => cliCfg.npn
    BY <1>4, <1>5, <1>8, <2>1 DEF ServerAllowed
  <2>4. ~srv'.hit /\ srvSess'.peer = "good" => cliCfg.chain = "good"
    BY <1>8, <2>1 DEF ServerAllowed
  <2> QED BY <1>2, <1>6, <2>2, <2>3, <2>4 DEF ServerAllowed
<1>9. srv.hand = "BEFORE" => ServerHeard = 0
  BY DEF ServerHeard
<1>10. CASE ServerQuiet
  <2>1. srv.hand = "SR_CLNT_HELLO" => ServerHeard = 1
    BY DEF ServerHeard
  <2> QED BY <1>3, <1>8, <1>9, <1>10, <2>1 DEF ServerQuiet
<1>11. CASE \E m \in Messages : ServerAnswers(m)
  BY <1>3, <1>8, <1>9, <1>11 DEF ServerAnswers
<1>12. CASE \E m \in Messages : ServerWrites(m)
  BY <1>3, <1>8, <1>9, <1>12 DEF ServerWrites
<1>13. CASE ServerReads
  <2>1. ServerInput \in Sent(toServer)
    BY <1>0, <1>13, SentTail DEF ServerReads, ServerInput
  <2>2. ServerInput.type = "CERTIFICATE" => ServerInput.chain = cliCfg.chain
    BY <1>1, <2>1 DEF AliveInv, CertAgreed
  <2>3. srvSess'.peer = "good" => srvSess.peer = "good" \/ cliCfg.chain = "good"
    BY <1>13, <2>2 DEF ServerReads
  <2>4. UNCHANGED ServerDeal /\ ServerHeard >= 1 /\ srv.hand # "BEFORE"
    BY <1>9, <1>13 DEF ServerReads
  <2> QED BY <1>3, <1>8, <2>3, <2>4
<1>14. ~ServerFails /\ ~ServerRejects
  BY <1>1, <1>5 DEF ServerFails, ServerRejects
<1>15. ASSUME NEW m \in Messages PROVE ~ServerAsks(m)
  BY <1>5 DEF ServerAsks, ServerIdle, Resting
<1>16. ClientAllowed' /\ ServerAllowed'
  BY <1>3, <1>7, <1>10, <1>11, <1>12, <1>13, <1>14, <1>15, ServerKinds DEF Sound
<1> QED BY <1>16

-----------------------------------------------------------------------------
(* A connection begins calm.                                               *)
Begun ==
  /\ cli = NewClientSsl /\ srv = NewServerSsl(srvCfg)
  /\ srvSess = NoServerSession
  /\ cliHs = << >> /\ srvHs = << >> /\ toClient = << >> /\ toServer = << >>

LEMMA BegunCalm == Begun /\ ClientAllowed => Alive /\ Calm
<1> SUFFICES ASSUME Begun, ClientAllowed PROVE Alive /\ Calm
  OBVIOUS
<1>1. Sent(toClient) = {} /\ Sent(toServer) = {}
  BY SentNone DEF Begun
<1>2. /\ cli.hand = "BEFORE" /\ cli.flow = "UNINITED"
      /\ srv.hand = "BEFORE" /\ srv.flow = "UNINITED" /\ ~srv.certRequest
      /\ srv.verify = srvCfg.verify
  BY DEF Begun, NewClientSsl, NewServerSsl
<1>3. Alive /\ Resting /\ Genuine
  BY <1>1, <1>2 DEF Alive, Resting, Genuine, Renewing
<1>4. ServerAllowed
  <2>1. ServerHeard = 0
    BY <1>2 DEF ServerHeard
  <2>2. srvSess.peer = "none"
    BY DEF Begun, NoServerSession
  <2> QED BY <1>2, <2>1, <2>2 DEF ServerAllowed
<1>5. Transcripts
  <2>1. << >> \in Seq(HandshakeTypes)
    OBVIOUS
  <2>2. Runs(<< >>, << >>, << >>)
    BY <2>1, RunsNone
  <2> QED BY <2>2 DEF Begun, Transcripts
<1> QED BY <1>3, <1>4, <1>5 DEF Calm

LEMMA BegunCalmNext == (Begun /\ ClientAllowed => Alive /\ Calm)'
BY BegunCalm, PTL

(* What is between the endpoints does not depend on the server's context.  *)
LEMMA CalmKept ==
  ASSUME UNCHANGED <<clientVars, wireVars, srv, srvSess, srvHs, srvCfg>>,
         Alive, Calm
  PROVE  Alive' /\ Calm'
<1>1. UNCHANGED <<cli, cliSess, cliHs, cliCfg, toClient, toServer>>
  BY DEF clientVars, wireVars
<1>2. Renewing' = Renewing /\ ServerHeard' = ServerHeard
  BY <1>1 DEF Renewing, ClientFirstHandshake, ServerHeard
<1>3. Alive' /\ Resting' /\ Genuine'
  BY <1>1, <1>2 DEF Calm, Alive, Resting, Genuine
<1>4. ServerAllowed' /\ ClientAllowed'
  BY <1>1, <1>2 DEF Calm, ServerAllowed, ClientAllowed
<1>5. Transcripts'
  BY <1>1 DEF Calm, Transcripts
<1> QED BY <1>3, <1>4, <1>5 DEF Calm

-----------------------------------------------------------------------------
(* The verify mode of a server that verifies stays, and it caches only     *)
(* where it has a context or does not verify.                              *)
LEMMA ServerKeepsVerify ==
  ASSUME ServerTypeOK, ServerStep
  PROVE  /\ srv'.verify \in {srv.verify, "require"}
         /\ srvCache' \subseteq srvCache \/ ServerCaches
<1>0. srv \in ServerStates
  BY DEF ServerTypeOK
<1>1. CASE ServerAccept \/ ServerWake \/ ServerRenegotiate
  BY <1>0, <1>1 DEF ServerAccept, ServerWake, ServerRenegotiate,
                    ClearedServerSsl, NewServerSsl, ServerStates
<1>2. CASE ServerFinishHandshake
  BY <1>0, <1>2 DEF ServerFinishHandshake, ServerStates
<1>3. CASE \/ ServerTurnToRead \/ ServerSendHelloRequest
           \/ ServerSendServerHello \/ ServerSendCertificate
           \/ ServerSendCertStatus \/ ServerSendKeyExchange
  BY <1>0, <1>3
     DEF ServerTurnToRead, ServerSendHelloRequest, ServerSendServerHello,
         ServerSendCertificate, ServerSendCertStatus, ServerSendKeyExchange,
         ServerStates
<1>4. CASE \/ ServerSendCertificateRequest \/ ServerSendServerDone
           \/ ServerSendSessionTicket \/ ServerSendChangeCipherSpec
           \/ ServerSendFinished
  BY <1>0, <1>4
     DEF ServerSendCertificateRequest, ServerSendServerDone,
         ServerSendSessionTicket, ServerSendChangeCipherSpec,
         ServerSendFinished, ServerFatal, ServerDropSession, ServerStates
<1>5. ServerFatal => srv'.verify = srv.verify /\ srvCache' \subseteq srvCache
  BY <1>0 DEF ServerFatal, ServerDropSession, ServerStates
<1>6. CASE ServerResume
  <2>1. CASE ServerFatal
    BY <1>5, <2>1
  <2>2. CASE ~ServerFatal
    <3>1. PICK sess \in PrevSessions(ServerInput) :
            /\ srv' = ServerAfterClientHello(ServerInput, TRUE, sess.cipher,
                                        TicketStatus(ServerInput) = "EMPTY")
            /\ srvCache' = srvCache
      BY <1>6, <2>2 DEF ServerResume
    <3> QED BY <1>0, <3>1 DEF ServerAfterClientHello, ServerStates
  <2> QED BY <2>1, <2>2
<1>7. CASE ServerNewSession
  <2>1. CASE ServerFatal
    BY <1>5, <2>1
  <2>2. CASE ~ServerFatal
    <3>1. PICK c \in srvCfg.suites :
            /\ srv' = ServerAfterClientHello(ServerInput, FALSE, c,
                   TicketStatus(ServerInput) \in {"EMPTY", "NO_DECRYPT"})
            /\ srvCache' = srvCache
      BY <1>7, <2>2 DEF ServerNewSession
    <3> QED BY <1>0, <3>1 DEF ServerAfterClientHello, ServerStates
  <2> QED BY <2>1, <2>2
<1>8. CASE \/ ServerRejectRenegotiation \/ ServerReadCertificate
           \/ ServerReadKeyExchange \/ ServerReadCertVerify
  BY <1>0, <1>5, <1>8
     DEF ServerRejectRenegotiation, ServerReadCertificate,
         ServerReadKeyExchange, ServerReadCertVerify, ServerStates
<1>9. CASE \/ ServerReadChangeCipherSpec \/ ServerReadNextProto
           \/ ServerReadFinished
  BY <1>0, <1>5, <1>9
     DEF ServerReadChangeCipherSpec, ServerReadNextProto,
         ServerReadFinished, ServerStates
<1>10. CASE \/ ServerUnexpected \/ ServerReadAlert
            \/ ServerReadNoRenegotiation \/ ServerStrayChangeCipherSpec
  BY <1>0, <1>5, <1>10
     DEF ServerUnexpected, ServerReadAlert, ServerReadNoRenegotiation,
         ServerStrayChangeCipherSpec, ServerDropSession, ServerStates
<1> QED BY <1>1, <1>2, <1>3, <1>4, <1>6, <1>7, <1>8, <1>9, <1>10
        DEF ServerStep, ServerRead, ServerWrite

LEMMA NothingCachedInit == Init => NothingCached
BY DEF Init, ServerInit, NewServerSsl, Contextless, NothingCached

LEMMA NothingCachedStep ==
  ASSUME ServerTypeOK, NothingCached, [Next]_vars
  PROVE  NothingCached'
<1>1. srvCfg' = srvCfg
  BY SettingsKept
<1> SUFFICES ASSUME Contextless PROVE srv'.verify # "none" /\ srvCache' = {}
  BY <1>1 DEF NothingCached, Contextless
<1>2. srv.verify # "none" /\ srvCache = {} /\ ~srvCfg.sidCtx
  BY DEF NothingCached, Contextless
<1>3. CASE ServerStep /\ UNCHANGED <<clientVars, conn>>
  BY <1>2, <1>3, ServerKeepsVerify DEF ServerCaches
<1>4. CASE NewConnection
  BY <1>2, <1>4 DEF NewConnection, ServerNewConnection, ClearedServerSsl,
                    NewServerSsl, Contextless
<1>5. CASE \/ ClientStep /\ UNCHANGED <<serverVars, conn>>
           \/ ContextStep \/ UNCHANGED vars
  BY <1>2, <1>5 DEF ContextStep, ServerForgetSession, ServerRotateTicketKey,
                    serverVars, vars
<1> QED BY <1>3, <1>4, <1>5, NextCases

-----------------------------------------------------------------------------
(* A server without context has refused a ticket: the client is about to   *)
(* read the alert, or has read it and forgotten its session.               *)
Refused ==
  /\ Contextless /\ ClientAllowed
  /\ srv.flow = "ERROR" /\ srv.hand = "BEFORE" /\ cli.hand = "CW_CLNT_HELLO"
  /\ \/ /\ cli.flow \in {"WRITING", "READING"} /\ cliSess.ticket # NoTicket
        /\ toClient # << >> /\ ClientInput.type = "FATAL_ALERT"
     \/ cli.flow = "ERROR" /\ cliSess = NoClientSession

LEMMA RefusalRefuses ==
  ASSUME Sound, HandshakeInv, Alive, Calm, Refusal,
         UNCHANGED <<clientVars, srvCfg>>
  PROVE  Refused'
<1> USE DEF Calm
<1>0. /\ UNCHANGED <<cli, cliSess, cliCfg>> /\ AliveInv
      /\ toClient \in Seq(Messages) /\ toServer \in Seq(Messages)
      /\ cli.hand \in ClientHandStates
  BY DEF clientVars, HandshakeInv, Sound, WireTypeOK, ClientTypeOK, ClientStates
<1>1. /\ toServer # << >> /\ srv'.flow = "ERROR" /\ srv'.hand = "BEFORE"
      /\ srv.hand = "BEFORE"
  BY DEF Refusal, ServerFails
<1>2. toClient = << >>
  BY <1>1 DEF Transcripts
<1>3. toClient' # << >> /\ ClientInput'.type = "FATAL_ALERT"
  <2>1. toServer # << >> /\ ServerInput \in Sent(toServer)
    BY <1>0, <1>1, SentTail DEF ServerInput
  <2>2. ServerInput.type # "FATAL_ALERT"
    BY <2>1 DEF Alive, AlertTypes
  <2>3. toClient' = Append(toClient, Message("FATAL_ALERT", srv.wkey))
    BY <2>2 DEF Refusal, ServerFails
  <2>4. toClient' = << Message("FATAL_ALERT", srv.wkey) >>
    BY <1>2, <2>3
  <2> QED BY <2>4 DEF ClientInput, Message
<1>4. Reached /\ ~Renewing
  BY <1>0, Reach DEF AliveInv, Resting
<1>5. ServerSaid = 0 /\ ServerHeard = 0
  BY <1>1 DEF ServerSaid, ServerHeard
<1>6. ClientHeard = 0 /\ ClientSaid # 0
  BY <1>1, <1>4, <1>5 DEF Reached
<1>7. cli.hand = "CW_CLNT_HELLO"
  BY <1>0, <1>6 DEF ClientHeard, ClientSaid, ClientHandStates
<1>8. cli.flow \in {"WRITING", "READING"}
  BY <1>7 DEF Sound, ClientTypeOK, ClientStates, FlowStates, ClientInv,
              ClientPosition, Alive
<1>9. ClientAllowed'
  BY <1>0 DEF ClientAllowed
<1>10. Contextless' /\ cliSess'.ticket # NoTicket
  BY <1>0 DEF Refusal, Contextless
<1> QED BY <1>0, <1>1, <1>3, <1>7, <1>8, <1>9, <1>10 DEF Refused

(* The refused client can only read the alert.                             *)
LEMMA RefusedClient ==
  ASSUME Sound, Refused, ClientStep, UNCHANGED <<serverVars, cliCfg>>
  PROVE  Refused'
<1>0. cli \in ClientStates /\ UNCHANGED <<srv, srvCfg>>
  BY DEF Sound, ClientTypeOK, serverVars
<1>1. cli.flow \in {"WRITING", "READING"} /\ cli.hand = "CW_CLNT_HELLO"
      /\ ClientInput.type = "FATAL_ALERT" /\ toClient # << >>
  BY DEF Refused, ClientStep, ClientConnect, ClientWrite, ClientRead,
         ClientRenegotiate, ClientTurnToRead, ClientSendClientHello,
         ClientSendCertificate, ClientSendKeyExchange, ClientSendCertVerify,
         ClientSendChangeCipherSpec, ClientSendNextProto,
         ClientSendFinished, ClientFinishHandshake, ClientReadServerHello,
         ClientReadCertificate, ClientReadCertStatus, ClientReadKeyExchange,
         ClientReadCertificateRequest, ClientReadServerDone,
         ClientReadSessionTicket, ClientReadChangeCipherSpec,
         ClientReadFinished, ClientReadHelloRequest, ClientSkipHelloRequest,
         ClientUnexpected, ClientReadAlert, ClientReadNoRenegotiation,
         ClientStrayChangeCipherSpec, ClientWake, ClientReading, ClientWriting
<1>2. ClientTurnToRead \/ ClientReadAlert
  BY <1>1
     DEF ClientStep, ClientConnect, ClientWrite, ClientRead,
         ClientRenegotiate, ClientSendClientHello,
         ClientSendCertificate, ClientSendKeyExchange, ClientSendCertVerify,
         ClientSendChangeCipherSpec, ClientSendNextProto,
         ClientSendFinished, ClientFinishHandshake, ClientReadServerHello,
         ClientReadCertificate, ClientReadCertStatus, ClientReadKeyExchange,
         ClientReadCertificateRequest, ClientReadServerDone,
         ClientReadSessionTicket, ClientReadChangeCipherSpec,
         ClientReadFinished, ClientReadHelloRequest, ClientSkipHelloRequest,
         ClientUnexpected, ClientReadNoRenegotiation,
         ClientStrayChangeCipherSpec, ClientWake, ClientReading,
         ClientWriting, ClientWriteTransition, ClientSkips, AlertTypes
<1>3. CASE ClientTurnToRead
  <2>1. /\ cli'.flow = "READING" /\ cli'.hand = "CW_CLNT_HELLO"
        /\ UNCHANGED <<cliSess, toClient>>
    BY <1>0, <1>1, <1>3 DEF ClientTurnToRead, wireVars, ClientStates
  <2>2. cliSess.ticket # NoTicket
    BY <1>1 DEF Refused
  <2> QED BY <1>0, <1>1, <2>1, <2>2
          DEF Refused, Contextless, ClientAllowed, ClientInput
<1>4. CASE ClientReadAlert
  <2>1. /\ cli'.flow = "ERROR" /\ cli'.hand = "CW_CLNT_HELLO"
        /\ cliSess' = NoClientSession
    BY <1>0, <1>1, <1>4 DEF ClientReadAlert, ClientFatal, ClientStates
  <2> QED BY <1>0, <2>1
          DEF Refused, Contextless, ClientAllowed, NoClientSession
<1> QED BY <1>2, <1>3, <1>4

(* The server that has refused does nothing more.                          *)
LEMMA RefusedServer ==
  ASSUME Refused, ServerStep
  PROVE  FALSE
<1>1. srv.flow = "ERROR"
  BY DEF Refused
<1>2. CASE ServerAccept \/ ServerWrite \/ ServerRenegotiate
  BY <1>1, <1>2
     DEF ServerAccept, ServerWrite, ServerRenegotiate, ServerTurnToRead,
         ServerSendHelloRequest, ServerSendServerHello,
         ServerSendCertificate, ServerSendCertStatus, ServerSendKeyExchange,
         ServerSendCertificateRequest, ServerSendServerDone,
         ServerSendSessionTicket, ServerSendChangeCipherSpec,
         ServerSendFinished, ServerFinishHandshake, ServerWriting
<1>3. CASE ServerRead
  BY <1>1, <1>3
     DEF ServerRead, ServerRejectRenegotiation, ServerResume,
         ServerNewSession, ServerReadCertificate, ServerReadKeyExchange,
         ServerReadCertVerify, ServerReadChangeCipherSpec,
         ServerReadNextProto, ServerReadFinished, ServerUnexpected,
         ServerReadAlert, ServerReadNoRenegotiation, ServerWake,
         ServerStrayChangeCipherSpec, ServerReading
<1> QED BY <1>2, <1>3 DEF ServerStep

-----------------------------------------------------------------------------
(* All goes well, or a ticket was refused.                                 *)
CalmOrRefused == Peaceful => (Alive /\ Calm) \/ Refused

LEMMA CalmInit == Init => CalmOrRefused
<1> SUFFICES ASSUME Init PROVE Alive /\ Calm
  BY DEF CalmOrRefused
<1>1. Begun
  BY DEF Init, ClientInit, ServerInit, WireInit, Begun
<1>2. ClientAllowed
  BY DEF Init, ClientInit, NewClientSsl, NoClientSession, ClientAllowed
<1> QED BY <1>1, <1>2, BegunCalm

LEMMA CalmStep ==
  ASSUME Sound, Sound', HandshakeInv, HandshakeInv', BufferKeptForCertVerify,
         NothingCached, CalmOrRefused, [Next]_vars
  PROVE  CalmOrRefused'
<1>1. UNCHANGED <<cliCfg, srvCfg>>
  BY SettingsKept
<1>2. Peaceful' <=> Peaceful
  BY <1>1 DEF Peaceful, CompatibleButForContext
<1> SUFFICES ASSUME Peaceful PROVE (Alive' /\ Calm') \/ Refused'
  BY <1>2 DEF CalmOrRefused
<1>3. CASE ClientStep /\ UNCHANGED <<serverVars, conn>> /\ Alive /\ Calm
  <2>1. Alive' /\ Resting' /\ Genuine' /\ Transcripts'
    BY <1>3, ClientStepCalm
  <2>2. ClientAllowed' /\ ServerAllowed'
    BY <1>1, <1>3, <2>1, ClientStepAllowed
  <2> QED BY <2>1, <2>2 DEF Calm
<1>4. CASE ServerStep /\ UNCHANGED <<clientVars, conn>> /\ Alive /\ Calm
  <2>1. CASE srv'.flow # "ERROR"
    <3>1. Alive' /\ Resting' /\ Genuine' /\ Transcripts'
      BY <1>4, <2>1, ServerStepCalm
    <3>2. ClientAllowed' /\ ServerAllowed'
      BY <1>1, <1>4, <3>1, ServerStepAllowed
    <3> QED BY <3>1, <3>2 DEF Calm
  <2>2. CASE srv'.flow = "ERROR"
    <3>1. Refusal
      BY <1>4, <2>2, ServerOnlyRefuses
    <3> QED BY <1>1, <1>4, <3>1, RefusalRefuses
  <2> QED BY <2>1, <2>2
<1>5. CASE NewConnection
  <2>1. ~srvCfg.reuse
    BY DEF Peaceful
  <2>2. Begun'
    BY <1>1, <1>5, <2>1
       DEF NewConnection, ClientNewConnection, ServerNewConnection, Begun,
           NewClientSsl, NewServerSsl
  <2>3. ClientAllowed
    BY DEF CalmOrRefused, Calm, Refused
  <2>4. ClientAllowed'
    <3>1. cliSess' \in {cliSess, NoClientSession} /\ cli'.hand = "BEFORE"
      BY <1>5 DEF NewConnection, ClientNewConnection, NewClientSsl
    <3> QED BY <1>1, <2>3, <3>1 DEF ClientAllowed, NoClientSession
  <2> QED BY <2>2, <2>4, BegunCalmNext
<1>6. CASE ContextStep \/ UNCHANGED vars
  <2>1. UNCHANGED <<clientVars, wireVars, srv, srvSess, srvHs, srvCfg>>
    BY <1>6 DEF ContextStep, ServerForgetSession, ServerRotateTicketKey,
                vars, serverVars
  <2>2. CASE Alive /\ Calm
    BY <2>1, <2>2, CalmKept
  <2>3. CASE Refused
    BY <2>1, <2>3 DEF Refused, Contextless, ClientAllowed, ClientInput,
                      clientVars, wireVars
  <2> QED BY <2>2, <2>3 DEF CalmOrRefused
<1>7. CASE ClientStep /\ UNCHANGED <<serverVars, conn>> /\ Refused
  BY <1>1, <1>7, RefusedClient
<1>8. CASE ServerStep /\ UNCHANGED <<clientVars, conn>> /\ Refused
  BY <1>8, RefusedServer
<1> QED BY <1>3, <1>4, <1>5, <1>6, <1>7, <1>8, NextCases DEF CalmOrRefused

LEMMA HandshakeCalm == Spec => []CalmOrRefused
<1>1. Sound /\ NothingCached /\ [Next]_vars => NothingCached'
  BY NothingCachedStep DEF Sound
<1>2. /\ Sound /\ Sound' /\ HandshakeInv /\ HandshakeInv'
      /\ BufferKeptForCertVerify /\ NothingCached /\ CalmOrRefused
      /\ [Next]_vars
      => CalmOrRefused'
  BY CalmStep
<1> QED BY <1>1, <1>2, NothingCachedInit, CalmInit, HandshakeSound,
           HandshakeInvariant, HandshakeKeepsBuffer, PTL DEF Spec

(* Two endpoints whose settings fit together never come to MSG_FLOW_ERROR, *)
(* whichever of them runs first and whether the server resumes a session,  *)
(* has forgotten it or cannot open the ticket, and whatever connections    *)
(* came before and how they ended: no handler in ntls_statem_srvr.c or     *)
(* ntls_statem_clnt.c has a reason to call SSLfatal_ntls. The server's     *)
(* application takes a new SSL object for each connection, for SSL_clear   *)
(* keeps the SSL_VERIFY_PEER that an SM2DHE suite has forced.              *)
THEOREM HandshakeCompatibleNeverFails ==
  Spec => [](~srvCfg.reuse => CompatibleNeverFails)
<1>1. CalmOrRefused => (~srvCfg.reuse => CompatibleNeverFails)
  BY DEF CalmOrRefused, Peaceful, Compatible, Contextless, Alive, Refused,
         CompatibleNeverFails
<1> QED BY <1>1, HandshakeCalm, PTL

(* A server that verifies clients without a session id context costs such  *)
(* endpoints at most the handshakes whose ClientHello offers a ticket (the *)
(* fatal error of ssl_get_prev_session): ssl_update_cache has kept no      *)
(* session for it, and the client that reads the alert has none left.      *)
THEOREM HandshakeOnlyTicketsRefused ==
  Spec => [](~srvCfg.reuse => OnlyTicketsRefused)
<1>1. CalmOrRefused => (~srvCfg.reuse => OnlyTicketsRefused)
  BY DEF CalmOrRefused, Peaceful, Contextless, Alive, Refused,
         OnlyTicketsRefused
<1> QED BY <1>1, HandshakeCalm, PTL
=============================================================================
