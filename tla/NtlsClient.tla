----------------------------- MODULE NtlsClient -----------------------------
(***************************************************************************)
(* The NTLS client: ntls_statem_clnt.c, driven by the message flow machine *)
(* of ntls_statem.c, at the same grain as NtlsServer: one action is one    *)
(* message written or read with all the work done for it. (Definitions     *)
(* named Mut... are for mutation runs only, as there.)                     *)
(***************************************************************************)
EXTENDS NtlsWire

CONSTANT ClientConfigs     \* the settings an application may give the client

VARIABLES
  cli,           \* the SSL object
  cliSess,       \* s->session, kept by the application between connections
  cliHs,         \* the running transcript hash
  cliFresh,      \* source of pre-master secrets
  cliCfg         \* the application's settings, never changed

clientVars == <<cli, cliSess, cliHs, cliFresh, cliCfg>>

StatusModes == { "no", "accept", "refuse" }

ClientConfigType ==
  [ suites : SUBSET Suites,
    chain : {"empty", "good", "bad"},  \* its own certificate pair, if any
    verify : BOOLEAN,                  \* verify_mode # SSL_VERIFY_NONE
    tickets : BOOLEAN,                 \* SSL_OP_NO_TICKET is not set
    status : StatusModes,              \* asks for an OCSP status, and likes it
    npn : BOOLEAN,                     \* an NPN callback is installed
    renegotiate : BOOLEAN,             \* the application calls SSL_renegotiate
    noRenegotiation : BOOLEAN ]        \* SSL_OP_NO_RENEGOTIATION

ASSUME ClientConfigsAssumption == ClientConfigs \subseteq ClientConfigType

ClientHandStates ==
  { "BEFORE", "OK", "CW_CLNT_HELLO", "CR_SRVR_HELLO", "CR_CERT",
    "CR_CERT_STATUS", "CR_KEY_EXCH", "CR_CERT_REQ", "CR_SRVR_DONE",
    "CR_SESSION_TICKET", "CR_CHANGE", "CR_FINISHED", "CR_HELLO_REQ",
    "CW_CERT", "CW_KEY_EXCH", "CW_CERT_VRFY", "CW_CHANGE", "CW_NEXT_PROTO",
    "CW_FINISHED" }

ClientStates ==
  [ hand : ClientHandStates,         \* statem.hand_state
    flow : FlowStates,               \* statem.state
    renegotiate : BOOLEAN,           \* s->renegotiate
    newSession : BOOLEAN,            \* s->new_session
    cleanuphand : BOOLEAN,           \* statem.cleanuphand
    hit : BOOLEAN,                   \* s->hit
    ticketExpected : BOOLEAN,        \* s->ext.ticket_expected
    statusExpected : BOOLEAN,        \* s->ext.status_expected
    npnSeen : BOOLEAN,               \* s->s3.npn_seen
    certReq : {"no", "send", "none"},   \* s->s3.tmp.cert_req: 0, 1, 2
    newCipher : Suites \cup {NoSuite},  \* s->s3.tmp.new_cipher
    buffer : BOOLEAN,                \* s->s3.handshake_buffer is not NULL
    ccs : BOOLEAN,                   \* s->s3.change_cipher_spec
    finSent : BOOLEAN,               \* s->s3.tmp.finish_md_len > 0
    finRead : BOOLEAN,               \* s->s3.tmp.peer_finish_md_len > 0
    rkey : Nat,                      \* read protection, 0 is plaintext
    wkey : Nat,                      \* write protection
    skeOk : BOOLEAN,                 \* history: session->peer has signed
    finOk : BOOLEAN ]                \* history: Finished after the last CCS

(* s->session->peer is the server's signing certificate or NULL.           *)
ClientSessions ==
  [ sid : Sids, cipher : Suites \cup {NoSuite}, ms : Nat, ticket : Tickets,
    peer : {"none", "good", "bad"} ]

NoClientSession ==
  [ sid |-> NoSid, cipher |-> NoSuite, ms |-> 0, ticket |-> NoTicket,
    peer |-> "none" ]

ClientTypeOK ==
  /\ cli \in ClientStates
  /\ cliSess \in ClientSessions
  /\ cliHs \in Seq(HandshakeTypes)
  /\ cliFresh \in Nat
  /\ cliCfg \in ClientConfigs

NewClientSsl ==
  [ hand |-> "BEFORE", flow |-> "UNINITED", renegotiate |-> FALSE,
    newSession |-> FALSE, cleanuphand |-> FALSE, hit |-> FALSE,
    ticketExpected |-> FALSE, statusExpected |-> FALSE, npnSeen |-> FALSE,
    certReq |-> "no", newCipher |-> NoSuite, buffer |-> FALSE, ccs |-> FALSE,
    finSent |-> FALSE, finRead |-> FALSE, rkey |-> 0, wkey |-> 0,
    skeOk |-> FALSE, finOk |-> FALSE ]

ClientInit ==
  /\ cliCfg \in ClientConfigs
  /\ cli = NewClientSsl
  /\ cliSess = NoClientSession
  /\ cliHs = << >>
  /\ cliFresh = 1

(* SSL_IS_FIRST_HANDSHAKE                                                  *)
ClientFirstHandshake == ~cli.finSent \/ ~cli.finRead

-----------------------------------------------------------------------------
(* ossl_statem_client_read_transition_ntls: the next hand state when a     *)
(* message of type mt arrives. Every NTLS suite authenticates the server   *)
(* and has a ServerKeyExchange (key_exchange_expected); a                  *)
(* CertificateRequest is always allowed.                                   *)
ClientReadTransition(mt) ==
  CASE cli.hand = "CW_CLNT_HELLO" /\ mt = "SERVER_HELLO" -> "CR_SRVR_HELLO"
    [] cli.hand = "CR_SRVR_HELLO" /\ cli.hit /\ cli.ticketExpected
         /\ mt = "NEWSESSION_TICKET" -> "CR_SESSION_TICKET"
    [] cli.hand = "CR_SRVR_HELLO" /\ cli.hit /\ ~cli.ticketExpected
         /\ mt = "CHANGE_CIPHER_SPEC" -> "CR_CHANGE"
    [] cli.hand = "CR_SRVR_HELLO" /\ ~cli.hit /\ mt = "CERTIFICATE"
         -> "CR_CERT"
    [] cli.hand = "CR_CERT" /\ cli.statusExpected
         /\ mt = "CERTIFICATE_STATUS" -> "CR_CERT_STATUS"
    [] cli.hand \in {"CR_CERT", "CR_CERT_STATUS"}
         /\ mt = "SERVER_KEY_EXCHANGE" -> "CR_KEY_EXCH"
    [] cli.hand = "CR_KEY_EXCH" /\ mt = "CERTIFICATE_REQUEST"
         -> "CR_CERT_REQ"
    [] cli.hand \in {"CR_KEY_EXCH", "CR_CERT_REQ"} /\ mt = "SERVER_DONE"
         -> "CR_SRVR_DONE"
    [] cli.hand = "CW_FINISHED" /\ cli.ticketExpected
         /\ mt = "NEWSESSION_TICKET" -> "CR_SESSION_TICKET"
    [] cli.hand = "CW_FINISHED" /\ ~cli.ticketExpected
         /\ mt = "CHANGE_CIPHER_SPEC" -> "CR_CHANGE"
    [] cli.hand = "CR_SESSION_TICKET" /\ mt = "CHANGE_CIPHER_SPEC"
         -> "CR_CHANGE"
    [] cli.hand = "CR_CHANGE" /\ mt = "FINISHED" -> "CR_FINISHED"
    [] cli.hand = "OK" /\ mt = "HELLO_REQUEST" -> "CR_HELLO_REQ"
    [] OTHER -> "UNEXPECTED"

\* Mutant: does not wait for the server.
MutAfterCwFinished == "OK"

(* What follows the client's Finished.                                     *)
AfterCwFinished == IF cli.hit THEN "OK" ELSE "READ"

(* ossl_statem_client_write_transition_ntls: the next hand state, "READ"   *)
(* for WRITE_TRAN_FINISHED, "ERROR" for the internal error. With no record *)
(* pending, ssl3_renegotiate_check succeeds iff a renegotiation was asked. *)
ClientWriteTransition ==
  CASE cli.hand = "OK" ->
         IF cli.renegotiate THEN "CW_CLNT_HELLO" ELSE "READ"
    [] cli.hand = "BEFORE" -> "CW_CLNT_HELLO"
    [] cli.hand = "CW_CLNT_HELLO" -> "READ"
    [] cli.hand = "CR_SRVR_DONE" ->
         IF cli.certReq # "no" THEN "CW_CERT" ELSE "CW_KEY_EXCH"
    [] cli.hand = "CW_CERT" -> "CW_KEY_EXCH"
    [] cli.hand = "CW_KEY_EXCH" ->
         IF cli.certReq = "send" THEN "CW_CERT_VRFY" ELSE "CW_CHANGE"
    [] cli.hand = "CW_CERT_VRFY" -> "CW_CHANGE"
    [] cli.hand = "CW_CHANGE" ->
         IF cli.npnSeen THEN "CW_NEXT_PROTO" ELSE "CW_FINISHED"
    [] cli.hand = "CW_NEXT_PROTO" -> "CW_FINISHED"
    [] cli.hand = "CW_FINISHED" -> AfterCwFinished
    [] cli.hand = "CR_FINISHED" -> IF cli.hit THEN "CW_CHANGE" ELSE "OK"
    [] cli.hand = "CR_HELLO_REQ" ->
         IF cli.renegotiate THEN "CW_CLNT_HELLO" ELSE "OK"
    [] OTHER -> "ERROR"

-----------------------------------------------------------------------------
(* Frames shared by the actions.                                           *)

ClientWriting(h) == cli.flow = "WRITING" /\ ClientWriteTransition = h

ClientEmit(m) ==
  /\ toServer' = Append(toServer, m)
  /\ cliHs' = Digest(cliHs, m.type)
  /\ UNCHANGED toClient

ClientInput == Head(toClient)

(* tls_get_message_header_ntls skips a HelloRequest during a handshake.    *)
ClientSkips(m) == m.type = "HELLO_REQUEST" /\ cli.hand # "OK"

ClientReading(h) ==
  /\ cli.flow = "READING"
  /\ toClient # << >>
  /\ ClientInput.type \notin AlertTypes
  /\ ~ClientSkips(ClientInput)
  /\ ClientInput.key = cli.rkey
  /\ ClientReadTransition(ClientInput.type) = h

ClientConsume ==
  /\ toClient' = Tail(toClient)
  /\ cliHs' = Digest(cliHs, ClientInput.type)

(* ssl3_send_alert and ssl3_read_bytes make the session of a connection    *)
(* that failed not resumable; the client then starts from an empty one.    *)
ClientFatal ==
  /\ cli' = [cli EXCEPT !.flow = "ERROR"]
  /\ cliSess' = NoClientSession
  /\ toServer' = Append(toServer, Message("FATAL_ALERT", cli.wkey))
  /\ UNCHANGED <<cliFresh, cliCfg>>

-----------------------------------------------------------------------------
(* state_machine_ntls, entered for a new connection.                       *)
ClientConnect ==
  /\ cli.flow = "UNINITED"
  /\ cli' = [NewClientSsl EXCEPT !.flow = "WRITING", !.buffer = TRUE]
  /\ cliHs' = << >>
  /\ UNCHANGED <<cliSess, cliFresh, cliCfg, wireVars>>

(* WRITE_TRAN_FINISHED: the client waits for the server.                   *)
ClientTurnToRead ==
  /\ ClientWriting("READ")
  /\ cli' = [cli EXCEPT !.flow = "READING"]
  /\ UNCHANGED <<cliSess, cliHs, cliFresh, cliCfg, wireVars>>

(* tls_construct_client_hello_ntls: a session that is not resumable is     *)
(* replaced by an empty one; SSL_renegotiate (new_session) offers none.    *)
(* tls_setup_handshake_ntls has started a new transcript on every way here *)
ClientSendClientHello ==
  /\ ClientWriting("CW_CLNT_HELLO")
  /\ LET resumable == cliSess.sid # NoSid \/ cliSess.ticket # NoTicket
         sess == IF resumable THEN cliSess ELSE NoClientSession
     IN /\ cliSess' = sess
        /\ toServer' = Append(toServer,
             [Message("CLIENT_HELLO", cli.wkey) EXCEPT
                !.suites = cliCfg.suites,
                !.sid = IF cli.newSession THEN NoSid ELSE sess.sid,
                !.ticket = IF cli.newSession \/ ~cliCfg.tickets
                             THEN NoTicket ELSE sess.ticket,
                !.ext = (IF cliCfg.tickets THEN {"ticket"} ELSE {})
                   \cup (IF cliCfg.status # "no" THEN {"status"} ELSE {})
                   \cup (IF cliCfg.npn /\ ClientFirstHandshake
                           THEN {"npn"} ELSE {})])
  /\ cliHs' = <<"CLIENT_HELLO">>
  /\ cli' = [cli EXCEPT !.hand = "CW_CLNT_HELLO", !.hit = FALSE,
                        !.certReq = "no", !.buffer = TRUE, !.skeOk = FALSE,
                        !.finOk = FALSE]
  /\ UNCHANGED <<cliFresh, cliCfg, toClient>>

(* tls_construct_client_certificate_ntls: with nothing suitable, a list of *)
(* nothing.                                                                *)
ClientSendCertificate ==
  /\ ClientWriting("CW_CERT")
  /\ cli' = [cli EXCEPT !.hand = "CW_CERT"]
  /\ ClientEmit([Message("CERTIFICATE", cli.wkey) EXCEPT
       !.chain = IF cli.certReq = "none" THEN "empty" ELSE cliCfg.chain])
  /\ UNCHANGED <<cliSess, cliFresh, cliCfg>>

(* tls_construct_client_key_exchange_ntls makes a new pre-master secret,   *)
(* tls_client_key_exchange_post_work_ntls the master secret from it.       *)
ClientSendKeyExchange ==
  /\ ClientWriting("CW_KEY_EXCH")
  /\ cli' = [cli EXCEPT !.hand = "CW_KEY_EXCH"]
  /\ cliSess' = [cliSess EXCEPT !.ms = cliFresh]
  /\ ClientEmit([Message("CLIENT_KEY_EXCHANGE", cli.wkey) EXCEPT
                   !.secret = cliFresh])
  /\ cliFresh' = cliFresh + 1
  /\ UNCHANGED cliCfg

(* tls_construct_cert_verify_ntls signs the transcript kept in the         *)
(* handshake buffer, then drops the buffer.                                *)
ClientSendCertVerify ==
  /\ ClientWriting("CW_CERT_VRFY")
  /\ IF cli.buffer
       THEN /\ cli' = [cli EXCEPT !.hand = "CW_CERT_VRFY", !.buffer = FALSE]
            /\ ClientEmit([Message("CERTIFICATE_VERIFY", cli.wkey) EXCEPT
                             !.hs = cliHs, !.chain = cliCfg.chain])
            /\ UNCHANGED <<cliSess, cliFresh, cliCfg>>
       ELSE ClientFatal /\ UNCHANGED <<cliHs, toClient>>

\* Mutant: the keys are switched before the message is sent.
MutCcsUnderNewKeys ==
  /\ ClientWriting("CW_CHANGE")
  /\ cli' = [cli EXCEPT !.hand = "CW_CHANGE", !.wkey = cliSess.ms]
  /\ cliSess' = [cliSess EXCEPT !.cipher = cli.newCipher]
  /\ ClientEmit(Message("CHANGE_CIPHER_SPEC", cliSess.ms))
  /\ UNCHANGED <<cliFresh, cliCfg>>

\* Mutant: the write keys are not switched.
MutCcsKeepsOldKeys ==
  /\ ClientWriting("CW_CHANGE")
  /\ cli' = [cli EXCEPT !.hand = "CW_CHANGE"]
  /\ cliSess' = [cliSess EXCEPT !.cipher = cli.newCipher]
  /\ ClientEmit(Message("CHANGE_CIPHER_SPEC", cli.wkey))
  /\ UNCHANGED <<cliFresh, cliCfg>>

(* TLS_ST_CW_CHANGE: the post work fixes session->cipher and starts to     *)
(* write under the new keys.                                               *)
ClientSendChangeCipherSpec ==
  /\ ClientWriting("CW_CHANGE")
  /\ cli' = [cli EXCEPT !.hand = "CW_CHANGE", !.wkey = cliSess.ms]
  /\ cliSess' = [cliSess EXCEPT !.cipher = cli.newCipher]
  /\ ClientEmit(Message("CHANGE_CIPHER_SPEC", cli.wkey))
  /\ UNCHANGED <<cliFresh, cliCfg>>

(* tls_construct_next_proto_ntls                                           *)
ClientSendNextProto ==
  /\ ClientWriting("CW_NEXT_PROTO")
  /\ cli' = [cli EXCEPT !.hand = "CW_NEXT_PROTO"]
  /\ ClientEmit(Message("NEXT_PROTO", cli.wkey))
  /\ UNCHANGED <<cliSess, cliFresh, cliCfg>>

(* tls_construct_finished_ntls                                             *)
ClientSendFinished ==
  /\ ClientWriting("CW_FINISHED")
  /\ cli' = [cli EXCEPT !.hand = "CW_FINISHED", !.finSent = TRUE,
                        !.cleanuphand = TRUE]
  /\ ClientEmit([Message("FINISHED", cli.wkey) EXCEPT
                   !.secret = cliSess.ms, !.hs = cliHs])
  /\ UNCHANGED <<cliSess, cliFresh, cliCfg>>

(* tls_finish_handshake_ntls                                               *)
ClientFinishHandshake ==
  /\ ClientWriting("OK")
  /\ cli' = [cli EXCEPT !.hand = "OK", !.flow = "FINISHED",
       !.renegotiate = cli.renegotiate /\ ~cli.cleanuphand,
       !.newSession = cli.newSession /\ ~cli.cleanuphand,
       !.ticketExpected = cli.ticketExpected /\ ~cli.cleanuphand,
       !.cleanuphand = FALSE]
  /\ UNCHANGED <<cliSess, cliHs, cliFresh, cliCfg, wireVars>>

-----------------------------------------------------------------------------
(* Reading: one action per message the client accepts.                     *)

\* Mutant: a session that was offered is taken to be resumed.
MutServerHelloHit(m) == m.sid # NoSid /\ cliSess.sid # NoSid

(* tls_process_server_hello_ntls: the session is resumed iff the server    *)
(* returned the identifier the client holds; otherwise a session that was  *)
(* offered is replaced, and the server's identifier recorded.              *)
ServerHelloHit(m) == m.sid # NoSid /\ m.sid = cliSess.sid

\* Mutant: a session that was not resumed is kept.
MutSessionAfterServerHello(m) == [cliSess EXCEPT !.sid = m.sid]

SessionAfterServerHello(m) ==
  IF ServerHelloHit(m) THEN cliSess
  ELSE [(IF cliSess.sid # NoSid THEN NoClientSession ELSE cliSess)
          EXCEPT !.sid = m.sid]

(* set_client_ciphersuite_ntls, and the extensions: none unsolicited.      *)
ServerHelloAccepted(m) ==
  /\ m.suite \in cliCfg.suites
  /\ ServerHelloHit(m) => cliSess.cipher = m.suite
  /\ "ticket" \in m.ext => cliCfg.tickets
  /\ "status" \in m.ext => cliCfg.status # "no"
  /\ "npn" \in m.ext => cliCfg.npn /\ ClientFirstHandshake

ClientReadServerHello ==
  /\ ClientReading("CR_SRVR_HELLO")
  /\ ClientConsume
  /\ IF ServerHelloAccepted(ClientInput)
       THEN /\ cli' = [cli EXCEPT !.hand = "CR_SRVR_HELLO",
                 !.hit = ServerHelloHit(ClientInput),
                 !.newCipher = ClientInput.suite,
                 !.ticketExpected = "ticket" \in ClientInput.ext,
                 !.statusExpected = cli.statusExpected
                                      \/ "status" \in ClientInput.ext,
                 !.npnSeen = "npn" \in ClientInput.ext]
            /\ cliSess' = SessionAfterServerHello(ClientInput)
            /\ UNCHANGED <<toServer, cliFresh, cliCfg>>
       ELSE ClientFatal

\* Mutant: the result of the verification is ignored.
MutServerChainAccepted(chain) == chain # "empty"

(* tls_process_server_certificate_ntls and                                 *)
(* tls_post_process_server_certificate_ntls (whose retry NtlsPeerChain     *)
(* models): an empty list never parses; with SSL_VERIFY_NONE one           *)
(* certificate is tolerated but leaves session->peer NULL.                 *)
ServerChainAccepted(chain) ==
  chain = "good" \/ (~cliCfg.verify /\ chain # "empty")

\* Mutant: a list of one becomes session->peer.
MutClientReadCertificate ==
  /\ ClientReading("CR_CERT")
  /\ ClientConsume
  /\ IF ServerChainAccepted(ClientInput.chain)
       THEN /\ cli' = [cli EXCEPT !.hand = "CR_CERT"]
            /\ cliSess' = [cliSess EXCEPT !.peer = ClientInput.chain]
            /\ UNCHANGED <<toServer, cliFresh, cliCfg>>
       ELSE ClientFatal

ClientReadCertificate ==
  /\ ClientReading("CR_CERT")
  /\ ClientConsume
  /\ IF ServerChainAccepted(ClientInput.chain)
       THEN /\ cli' = [cli EXCEPT !.hand = "CR_CERT"]
            /\ cliSess' = IF ClientInput.chain = "single" THEN cliSess
                          ELSE [cliSess EXCEPT !.peer = ClientInput.chain]
            /\ UNCHANGED <<toServer, cliFresh, cliCfg>>
       ELSE ClientFatal

(* tls_process_cert_status_ntls                                            *)
ClientReadCertStatus ==
  /\ ClientReading("CR_CERT_STATUS")
  /\ ClientConsume
  /\ cli' = [cli EXCEPT !.hand = "CR_CERT_STATUS"]
  /\ UNCHANGED <<toServer, cliSess, cliFresh, cliCfg>>

(* tls_process_key_exchange_ntls: signed by the key of session->peer.      *)
ClientReadKeyExchange ==
  /\ ClientReading("CR_KEY_EXCH")
  /\ ClientConsume
  /\ IF cliSess.peer # "none" /\ ClientInput.chain = cliSess.peer
       THEN /\ cli' = [cli EXCEPT !.hand = "CR_KEY_EXCH", !.skeOk = TRUE]
            /\ UNCHANGED <<toServer, cliSess, cliFresh, cliCfg>>
       ELSE ClientFatal

\* Mutant: cert_req is 1 without a certificate to send.
MutCertReqAlwaysSends ==
  /\ ClientReading("CR_CERT_REQ")
  /\ ClientConsume
  /\ cli' = [cli EXCEPT !.hand = "CR_CERT_REQ", !.certReq = "send"]
  /\ UNCHANGED <<toServer, cliSess, cliFresh, cliCfg>>

\* Mutant: the handshake buffer always goes.
MutCertReqDropsBuffer ==
  /\ ClientReading("CR_CERT_REQ")
  /\ ClientConsume
  /\ cli' = [cli EXCEPT !.hand = "CR_CERT_REQ", !.buffer = FALSE,
       !.certReq = IF cliCfg.chain = "empty" THEN "none" ELSE "send"]
  /\ UNCHANGED <<toServer, cliSess, cliFresh, cliCfg>>

(* tls_process_certificate_request_ntls and                                *)
(* tls_prepare_client_certificate_ntls: with no certificate to send the    *)
(* transcript will not be signed, and the handshake buffer goes.           *)
ClientReadCertificateRequest ==
  /\ ClientReading("CR_CERT_REQ")
  /\ ClientConsume
  /\ cli' = [cli EXCEPT !.hand = "CR_CERT_REQ",
       !.certReq = IF cliCfg.chain = "empty" THEN "none" ELSE "send",
       !.buffer = cli.buffer /\ cliCfg.chain # "empty"]
  /\ UNCHANGED <<toServer, cliSess, cliFresh, cliCfg>>

(* tls_process_server_done_ntls: the application's status callback is      *)
(* asked first, and may refuse.                                            *)
ClientReadServerDone ==
  /\ ClientReading("CR_SRVR_DONE")
  /\ ClientConsume
  /\ IF cliCfg.status # "refuse"
       THEN /\ cli' = [cli EXCEPT !.hand = "CR_SRVR_DONE", !.flow = "WRITING"]
            /\ UNCHANGED <<toServer, cliSess, cliFresh, cliCfg>>
       ELSE ClientFatal

(* tls_process_new_session_ticket_ntls: an empty ticket changes nothing, a *)
(* ticket also becomes the session identifier, hashed.                     *)
ClientReadSessionTicket ==
  /\ ClientReading("CR_SESSION_TICKET")
  /\ ClientConsume
  /\ cli' = [cli EXCEPT !.hand = "CR_SESSION_TICKET"]
  /\ cliSess' = IF ClientInput.ticket = NoTicket THEN cliSess
                ELSE [cliSess EXCEPT !.ticket = ClientInput.ticket,
                                     !.sid = TicketSid(ClientInput.ticket.n)]
  /\ UNCHANGED <<toServer, cliFresh, cliCfg>>

(* tls_process_change_cipher_spec_ntls with ssl3_do_change_cipher_spec.    *)
ClientReadChangeCipherSpec ==
  /\ ClientReading("CR_CHANGE")
  /\ ClientConsume
  /\ IF cli.newCipher # NoSuite /\ cliSess.ms # 0
       THEN /\ cli' = [cli EXCEPT !.hand = "CR_CHANGE", !.ccs = TRUE,
                         !.rkey = cliSess.ms, !.finOk = FALSE]
            /\ cliSess' = [cliSess EXCEPT !.cipher = cli.newCipher]
            /\ UNCHANGED <<toServer, cliFresh, cliCfg>>
       ELSE ClientFatal

(* tls_process_finished_ntls                                               *)
ClientReadFinished ==
  /\ ClientReading("CR_FINISHED")
  /\ ClientConsume
  /\ IF cli.ccs /\ ClientInput.secret = cliSess.ms /\ ClientInput.hs = cliHs
       THEN /\ cli' = [cli EXCEPT !.hand = "CR_FINISHED", !.flow = "WRITING",
                         !.ccs = FALSE, !.finRead = TRUE, !.finOk = TRUE]
            /\ UNCHANGED <<toServer, cliSess, cliFresh, cliCfg>>
       ELSE ClientFatal

(* tls_process_hello_req_ntls: refused with a warning alert, or answered   *)
(* by SSL_renegotiate_abbreviated.                                         *)
ClientReadHelloRequest ==
  /\ ClientReading("CR_HELLO_REQ")
  /\ ClientConsume
  /\ IF cliCfg.noRenegotiation
       THEN /\ cli' = [cli EXCEPT !.hand = "CR_HELLO_REQ", !.flow = "WRITING"]
            /\ toServer' = Append(toServer,
                             Message("NO_RENEGOTIATION_ALERT", cli.wkey))
       ELSE /\ cli' = [cli EXCEPT !.hand = "CR_HELLO_REQ", !.flow = "WRITING",
                         !.renegotiate = TRUE, !.newSession = FALSE]
            /\ UNCHANGED toServer
  /\ UNCHANGED <<cliSess, cliFresh, cliCfg>>

-----------------------------------------------------------------------------
(* What happens outside the transitions.                                   *)

(* tls_get_message_header_ntls drops a HelloRequest that comes during a    *)
(* handshake.                                                              *)
ClientSkipHelloRequest ==
  /\ cli.flow = "READING"
  /\ toClient # << >>
  /\ ClientSkips(ClientInput)
  /\ toClient' = Tail(toClient)
  /\ UNCHANGED <<clientVars, toServer>>

(* A message that fits no transition, or that the record layer cannot open *)
ClientUnexpected ==
  /\ cli.flow = "READING"
  /\ toClient # << >>
  /\ ClientInput.type \notin AlertTypes
  /\ ~ClientSkips(ClientInput)
  /\ \/ ClientInput.key # cli.rkey
     \/ ClientReadTransition(ClientInput.type) = "UNEXPECTED"
  /\ ClientConsume
  /\ ClientFatal

(* ssl3_read_bytes: a fatal alert ends the connection without an answer,   *)
(* but not between a ChangeCipherSpec and a Finished.                      *)
ClientReadAlert ==
  /\ cli.flow \in {"READING", "FINISHED"}
  /\ toClient # << >>
  /\ ClientInput.type = "FATAL_ALERT"
  /\ ClientConsume
  /\ IF cli.ccs THEN ClientFatal
     ELSE /\ cli' = [cli EXCEPT !.flow = "ERROR"]
          /\ cliSess' = NoClientSession
          /\ UNCHANGED <<toServer, cliFresh, cliCfg>>

(* ssl3_read_bytes: a no_renegotiation warning is fatal for the receiver.  *)
ClientReadNoRenegotiation ==
  /\ cli.flow \in {"READING", "FINISHED"}
  /\ toClient # << >>
  /\ ClientInput.type = "NO_RENEGOTIATION_ALERT"
  /\ ClientConsume
  /\ ClientFatal

(* ssl3_read_bytes: a handshake record outside a handshake enters          *)
(* state_machine_ntls again from MSG_FLOW_FINISHED.                        *)
ClientWake ==
  /\ cli.flow = "FINISHED"
  /\ toClient # << >>
  /\ ClientInput.type \in HandshakeTypes
  /\ cli' = [cli EXCEPT !.flow = "WRITING", !.ccs = FALSE]
  /\ UNCHANGED <<cliSess, cliHs, cliFresh, cliCfg, wireVars>>

(* A ChangeCipherSpec outside a handshake is fatal.                        *)
ClientStrayChangeCipherSpec ==
  /\ cli.flow = "FINISHED"
  /\ toClient # << >>
  /\ ClientInput.type = "CHANGE_CIPHER_SPEC"
  /\ ClientConsume
  /\ ClientFatal

(* SSL_renegotiate and SSL_do_handshake by the application.                *)
ClientRenegotiate ==
  /\ cliCfg.renegotiate
  /\ cli.flow = "FINISHED"
  /\ ~cli.renegotiate
  /\ cli' = [cli EXCEPT !.flow = "WRITING", !.renegotiate = TRUE,
                        !.newSession = TRUE, !.ccs = FALSE]
  /\ UNCHANGED <<cliSess, cliHs, cliFresh, cliCfg, wireVars>>

(* The connection is over; the application takes a new SSL object and      *)
(* gives it the session of the old one, or none.                           *)
ClientNewConnection ==
  /\ cli' = NewClientSsl
  /\ cliSess' \in {cliSess, NoClientSession}
  /\ cliHs' = << >>
  /\ UNCHANGED <<cliFresh, cliCfg>>

-----------------------------------------------------------------------------
ClientWrite ==
  \/ ClientTurnToRead \/ ClientSendClientHello \/ ClientSendCertificate
  \/ ClientSendKeyExchange \/ ClientSendCertVerify
  \/ ClientSendChangeCipherSpec \/ ClientSendNextProto \/ ClientSendFinished
  \/ ClientFinishHandshake

ClientRead ==
  \/ ClientReadServerHello \/ ClientReadCertificate \/ ClientReadCertStatus
  \/ ClientReadKeyExchange \/ ClientReadCertificateRequest
  \/ ClientReadServerDone \/ ClientReadSessionTicket
  \/ ClientReadChangeCipherSpec \/ ClientReadFinished
  \/ ClientReadHelloRequest \/ ClientSkipHelloRequest \/ ClientUnexpected
  \/ ClientReadAlert \/ ClientReadNoRenegotiation \/ ClientWake
  \/ ClientStrayChangeCipherSpec

ClientStep == ClientConnect \/ ClientWrite \/ ClientRead \/ ClientRenegotiate
=============================================================================
