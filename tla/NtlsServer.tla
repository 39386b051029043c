----------------------------- MODULE NtlsServer -----------------------------
(***************************************************************************)
(* The NTLS server: ntls_statem_srvr.c, driven by the message flow machine *)
(* of ntls_statem.c. One action is one round of a sub state machine: the   *)
(* transition, the pre work, the construction and the post work of one     *)
(* message written, or the transition, the processing and the post         *)
(* processing of one message read. (NtlsMsgFlow models the sub states and  *)
(* the non-blocking retries inside a round.)                               *)
(*                                                                         *)
(* A definition MutX stands before the definition X whose place it takes   *)
(* in a mutation run: X with a plausible mistake. Nothing else uses it.    *)
(***************************************************************************)
EXTENDS NtlsWire

CONSTANT ServerConfigs     \* the settings an application may give the server

VARIABLES
  srv,           \* the SSL object
  srvSess,       \* s->session
  srvHs,         \* the running transcript hash
  srvCache,      \* SSL_CTX: sessions in the internal cache
  srvTicketKey,  \* SSL_CTX: which ticket key is in use
  srvFresh,      \* source of session identifiers and tickets
  srvCfg         \* the application's settings, never changed

serverVars ==
  <<srv, srvSess, srvHs, srvCache, srvTicketKey, srvFresh, srvCfg>>

VerifyModes == { "none", "peer", "require" }

ServerConfigType ==
  [ suites : SUBSET Suites,
    chain : {"good", "bad"},     \* does its certificate pair verify?
    verify : VerifyModes,        \* SSL_VERIFY_PEER, + FAIL_IF_NO_PEER_CERT
    once : BOOLEAN,              \* SSL_VERIFY_CLIENT_ONCE
    sidCtx : BOOLEAN,            \* SSL_CTX_set_session_id_context was called
    cache : BOOLEAN,             \* SSL_SESS_CACHE_SERVER
    tickets : BOOLEAN,           \* SSL_OP_NO_TICKET is not set
    status : BOOLEAN,            \* an OCSP status callback is installed
    npn : BOOLEAN,               \* an NPN callback is installed
    renegotiate : BOOLEAN,       \* the application calls SSL_renegotiate
    reuse : BOOLEAN ]            \* SSL_clear instead of a new SSL object

ASSUME ServerConfigsAssumption == ServerConfigs \subseteq ServerConfigType

ServerHandStates ==
  { "BEFORE", "OK", "SR_CLNT_HELLO", "SR_CERT", "SR_KEY_EXCH", "SR_CERT_VRFY",
    "SR_CHANGE", "SR_NEXT_PROTO", "SR_FINISHED", "SW_HELLO_REQ",
    "SW_SRVR_HELLO", "SW_CERT", "SW_CERT_STATUS", "SW_KEY_EXCH",
    "SW_CERT_REQ", "SW_SRVR_DONE", "SW_SESSION_TICKET", "SW_CHANGE",
    "SW_FINISHED" }

ServerStates ==
  [ hand : ServerHandStates,         \* statem.hand_state
    flow : FlowStates,               \* statem.state
    helloReq : BOOLEAN,              \* statem.request_state is SW_HELLO_REQ
    renegotiate : BOOLEAN,           \* s->renegotiate
    cleanuphand : BOOLEAN,           \* statem.cleanuphand
    hit : BOOLEAN,                   \* s->hit
    ticketExpected : BOOLEAN,        \* s->ext.ticket_expected
    statusExpected : BOOLEAN,        \* s->ext.status_expected
    npnSeen : BOOLEAN,               \* s->s3.npn_seen
    verify : VerifyModes,            \* s->verify_mode
    once : BOOLEAN,                  \* its SSL_VERIFY_CLIENT_ONCE bit
    certReqSent : BOOLEAN,           \* s->certreqs_sent > 0
    certRequest : BOOLEAN,           \* s->s3.tmp.cert_request
    newCipher : Suites \cup {NoSuite},  \* s->s3.tmp.new_cipher
    buffer : BOOLEAN,                \* s->s3.handshake_buffer is not NULL
    ccs : BOOLEAN,                   \* s->s3.change_cipher_spec
    finSent : BOOLEAN,               \* s->s3.tmp.finish_md_len > 0
    finRead : BOOLEAN,               \* s->s3.tmp.peer_finish_md_len > 0
    rkey : Nat,                      \* read protection, 0 is plaintext
    wkey : Nat,                      \* write protection
    proved : BOOLEAN,                \* history: session->peer has signed
    finOk : BOOLEAN ]                \* history: Finished after the last CCS

(* s->session->peer is the client's signing certificate or NULL.           *)
ServerSessions ==
  [ sid : Sids, cipher : Suites \cup {NoSuite}, ms : Nat,
    peer : {"none", "good"} ]

NoServerSession ==
  [ sid |-> NoSid, cipher |-> NoSuite, ms |-> 0, peer |-> "none" ]

ServerTypeOK ==
  /\ srv \in ServerStates
  /\ srvSess \in ServerSessions
  /\ srvHs \in Seq(HandshakeTypes)
  /\ srvCache \subseteq ServerSessions
  /\ srvTicketKey \in Nat
  /\ srvFresh \in Nat
  /\ srvCfg \in ServerConfigs

-----------------------------------------------------------------------------
(* A new SSL object, and SSL_clear on an old one. SSL_clear forgets the    *)
(* handshake (statem, hit, s3) but keeps the verify mode and the number of *)
(* CertificateRequests sent.                                               *)
NewServerSsl(cfg) ==
  [ hand |-> "BEFORE", flow |-> "UNINITED", helloReq |-> FALSE,
    renegotiate |-> FALSE, cleanuphand |-> FALSE, hit |-> FALSE,
    ticketExpected |-> FALSE, statusExpected |-> FALSE, npnSeen |-> FALSE,
    verify |-> cfg.verify, once |-> cfg.once, certReqSent |-> FALSE,
    certRequest |-> FALSE, newCipher |-> NoSuite, buffer |-> FALSE,
    ccs |-> FALSE, finSent |-> FALSE, finRead |-> FALSE, rkey |-> 0,
    wkey |-> 0, proved |-> FALSE, finOk |-> FALSE ]

ClearedServerSsl ==
  [ NewServerSsl(srvCfg) EXCEPT !.verify = srv.verify, !.once = srv.once,
                                !.certReqSent = srv.certReqSent ]

ServerInit ==
  /\ srvCfg \in ServerConfigs
  /\ srv = NewServerSsl(srvCfg)
  /\ srvSess = NoServerSession
  /\ srvHs = << >>
  /\ srvCache = {}
  /\ srvTicketKey = 0
  /\ srvFresh = 1

(* SSL_IS_FIRST_HANDSHAKE                                                  *)
ServerFirstHandshake == ~srv.finSent \/ ~srv.finRead

-----------------------------------------------------------------------------
\* Mutant: forgets that a client with a certificate must sign.
MutCertVerifyExpected == FALSE

(* After the ClientKeyExchange: a client that sent a certificate must sign *)
(* the transcript before its ChangeCipherSpec.                             *)
CertVerifyExpected == srvSess.peer # "none"

(* ossl_statem_server_read_transition_ntls: the next hand state when a     *)
(* message of type mt arrives. The SSLv3 branch of the code is unreachable *)
(* in NTLS and no_cert_verify is never set.                                *)
ServerReadTransition(mt) ==
  CASE srv.hand \in {"BEFORE", "OK"} /\ mt = "CLIENT_HELLO"
         -> "SR_CLNT_HELLO"
    [] srv.hand = "SW_SRVR_DONE" /\ mt = "CLIENT_KEY_EXCHANGE"
         /\ ~srv.certRequest -> "SR_KEY_EXCH"
    [] srv.hand = "SW_SRVR_DONE" /\ mt = "CERTIFICATE" /\ srv.certRequest
         -> "SR_CERT"
    [] srv.hand = "SR_CERT" /\ mt = "CLIENT_KEY_EXCHANGE" -> "SR_KEY_EXCH"
    [] srv.hand = "SR_KEY_EXCH" /\ mt = "CHANGE_CIPHER_SPEC"
         /\ ~CertVerifyExpected -> "SR_CHANGE"
    [] srv.hand = "SR_KEY_EXCH" /\ mt = "CERTIFICATE_VERIFY"
         /\ CertVerifyExpected -> "SR_CERT_VRFY"
    [] srv.hand = "SR_CERT_VRFY" /\ mt = "CHANGE_CIPHER_SPEC" -> "SR_CHANGE"
    [] srv.hand = "SR_CHANGE" /\ mt = "NEXT_PROTO" /\ srv.npnSeen
         -> "SR_NEXT_PROTO"
    [] srv.hand = "SR_CHANGE" /\ mt = "FINISHED" /\ ~srv.npnSeen
         -> "SR_FINISHED"
    [] srv.hand = "SR_NEXT_PROTO" /\ mt = "FINISHED" -> "SR_FINISHED"
    [] srv.hand = "SW_FINISHED" /\ mt = "CHANGE_CIPHER_SPEC" -> "SR_CHANGE"
    [] OTHER -> "UNEXPECTED"

\* Mutant: asks the settings, not the verify mode that SM2DHE forces.
MutSendCertificateRequest ==
  /\ srvCfg.verify # "none"
  /\ ~srv.certReqSent \/ ~srv.once

(* send_certificate_request_ntls: no NTLS suite is anonymous, SRP or PSK.  *)
SendCertificateRequest ==
  /\ srv.verify # "none"
  /\ ~srv.certReqSent \/ ~srv.once

\* Mutant: sends the ticket before looking at s->hit.
MutAfterServerHello ==
  IF srv.ticketExpected THEN "SW_SESSION_TICKET" ELSE "SW_CERT"

(* What follows a ServerHello.                                             *)
AfterServerHello ==
  IF ~srv.hit THEN "SW_CERT"
  ELSE IF srv.ticketExpected THEN "SW_SESSION_TICKET" ELSE "SW_CHANGE"

(* ossl_statem_server_write_transition_ntls: the next hand state, "READ"   *)
(* for WRITE_TRAN_FINISHED, "ERROR" for the internal error.                *)
ServerWriteTransition ==
  CASE srv.hand = "OK" -> IF srv.helloReq THEN "SW_HELLO_REQ" ELSE "READ"
    [] srv.hand = "BEFORE" -> "READ"
    [] srv.hand = "SW_HELLO_REQ" -> "OK"
    [] srv.hand = "SR_CLNT_HELLO" ->
         IF ~srv.renegotiate /\ ~ServerFirstHandshake THEN "OK"
         ELSE "SW_SRVR_HELLO"
    [] srv.hand = "SW_SRVR_HELLO" -> AfterServerHello
    [] srv.hand = "SW_CERT" ->
         IF srv.statusExpected THEN "SW_CERT_STATUS" ELSE "SW_KEY_EXCH"
    [] srv.hand = "SW_CERT_STATUS" -> "SW_KEY_EXCH"
    [] srv.hand = "SW_KEY_EXCH" ->
         IF SendCertificateRequest THEN "SW_CERT_REQ" ELSE "SW_SRVR_DONE"
    [] srv.hand = "SW_CERT_REQ" -> "SW_SRVR_DONE"
    [] srv.hand = "SW_SRVR_DONE" -> "READ"
    [] srv.hand = "SR_FINISHED" ->
         IF srv.hit THEN "OK"
         ELSE IF srv.ticketExpected THEN "SW_SESSION_TICKET" ELSE "SW_CHANGE"
    [] srv.hand = "SW_SESSION_TICKET" -> "SW_CHANGE"
    [] srv.hand = "SW_CHANGE" -> "SW_FINISHED"
    [] srv.hand = "SW_FINISHED" -> IF srv.hit THEN "READ" ELSE "OK"
    [] OTHER -> "ERROR"

-----------------------------------------------------------------------------
(* Frames shared by the actions.                                           *)

ServerWriting(h) == srv.flow = "WRITING" /\ ServerWriteTransition = h

ServerEmit(m) ==
  /\ toClient' = Append(toClient, m)
  /\ srvHs' = Digest(srvHs, m.type)
  /\ UNCHANGED toServer

(* The message that the record layer delivers next, and what it opens.     *)
ServerInput == Head(toServer)

ServerReading(h) ==
  /\ srv.flow = "READING"
  /\ toServer # << >>
  /\ ServerInput.type \notin AlertTypes
  /\ ServerInput.key = srv.rkey
  /\ ServerReadTransition(ServerInput.type) = h

ServerConsume ==
  /\ toServer' = Tail(toServer)
  /\ srvHs' = Digest(srvHs, ServerInput.type)

(* ssl3_send_alert and ssl3_read_bytes drop the session of a connection    *)
(* that failed from the cache.                                             *)
ServerDropSession ==
  srvCache' = { c \in srvCache : c.sid # srvSess.sid }

\* Mutant: no alert is sent.
MutServerFatal ==
  /\ srv' = [srv EXCEPT !.flow = "ERROR"]
  /\ ServerDropSession
  /\ UNCHANGED <<toClient, srvSess, srvTicketKey, srvFresh, srvCfg>>

(* ossl_statem_send_fatal_ntls                                             *)
ServerFatal ==
  /\ srv' = [srv EXCEPT !.flow = "ERROR"]
  /\ toClient' = Append(toClient, Message("FATAL_ALERT", srv.wkey))
  /\ ServerDropSession
  /\ UNCHANGED <<srvSess, srvTicketKey, srvFresh, srvCfg>>

-----------------------------------------------------------------------------
(* state_machine_ntls, entered for a new connection: SSL_clear, then       *)
(* tls_setup_handshake_ntls starts a new transcript.                       *)
ServerAccept ==
  /\ srv.flow = "UNINITED"
  /\ srv' = [ClearedServerSsl EXCEPT !.flow = "WRITING", !.buffer = TRUE]
  /\ srvHs' = << >>
  /\ UNCHANGED <<srvSess, srvCache, srvTicketKey, srvFresh, srvCfg, wireVars>>

(* WRITE_TRAN_FINISHED: the server waits for the client. In TLS_ST_OK the  *)
(* transition first runs tls_setup_handshake_ntls.                         *)
ServerTurnToRead ==
  /\ ServerWriting("READ")
  /\ IF srv.hand = "OK"
       THEN /\ srv' = [srv EXCEPT !.flow = "READING", !.buffer = TRUE,
                          !.certRequest = srv.certRequest
                                            /\ ServerFirstHandshake]
            /\ srvHs' = << >>
       ELSE /\ srv' = [srv EXCEPT !.flow = "READING"]
            /\ UNCHANGED srvHs
  /\ UNCHANGED <<srvSess, srvCache, srvTicketKey, srvFresh, srvCfg, wireVars>>

-----------------------------------------------------------------------------
(* Writing: one action per message the server sends.                       *)

(* TLS_ST_SW_HELLO_REQ: the post work restarts the transcript.             *)
ServerSendHelloRequest ==
  /\ ServerWriting("SW_HELLO_REQ")
  /\ srv' = [srv EXCEPT !.hand = "SW_HELLO_REQ", !.helloReq = FALSE,
                        !.buffer = TRUE]
  /\ toClient' = Append(toClient, Message("HELLO_REQUEST", srv.wkey))
  /\ srvHs' = << >>
  /\ UNCHANGED <<srvSess, srvCache, srvTicketKey, srvFresh, srvCfg, toServer>>

(* tls_construct_stoc_session_ticket_ntls: the extension announces the     *)
(* ticket, and a ticket not announced is not sent.                         *)
AnnouncesTicket == srv.ticketExpected /\ srvCfg.tickets

(* tls_construct_server_hello_ntls: without a server cache a new session   *)
(* gets no identifier; without SSL_VERIFY_PEER the handshake buffer goes.  *)
ServerSendServerHello ==
  /\ ServerWriting("SW_SRVR_HELLO")
  /\ LET sid == IF ~srvCfg.cache /\ ~srv.hit THEN NoSid ELSE srvSess.sid
     IN /\ srvSess' = [srvSess EXCEPT !.sid = sid]
        /\ ServerEmit([Message("SERVER_HELLO", srv.wkey) EXCEPT
             !.suite = srv.newCipher, !.sid = sid,
             !.ext = (IF AnnouncesTicket THEN {"ticket"} ELSE {})
                \cup (IF srv.statusExpected THEN {"status"} ELSE {})
                \cup (IF srv.npnSeen THEN {"npn"} ELSE {})])
  /\ srv' = [srv EXCEPT !.hand = "SW_SRVR_HELLO",
                        !.ticketExpected = AnnouncesTicket,
                        !.buffer = srv.buffer /\ srv.verify # "none"]
  /\ UNCHANGED <<srvCache, srvTicketKey, srvFresh, srvCfg>>

(* tls_construct_server_certificate_ntls                                   *)
ServerSendCertificate ==
  /\ ServerWriting("SW_CERT")
  /\ srv' = [srv EXCEPT !.hand = "SW_CERT"]
  /\ ServerEmit([Message("CERTIFICATE", srv.wkey) EXCEPT
                   !.chain = srvCfg.chain])
  /\ UNCHANGED <<srvSess, srvCache, srvTicketKey, srvFresh, srvCfg>>

(* tls_construct_cert_status_ntls                                          *)
ServerSendCertStatus ==
  /\ ServerWriting("SW_CERT_STATUS")
  /\ srv' = [srv EXCEPT !.hand = "SW_CERT_STATUS"]
  /\ ServerEmit(Message("CERTIFICATE_STATUS", srv.wkey))
  /\ UNCHANGED <<srvSess, srvCache, srvTicketKey, srvFresh, srvCfg>>

(* tls_construct_server_key_exchange_ntls: signed with the key of the      *)
(* certificate sent, which the client checks against that certificate.     *)
ServerSendKeyExchange ==
  /\ ServerWriting("SW_KEY_EXCH")
  /\ srv' = [srv EXCEPT !.hand = "SW_KEY_EXCH"]
  /\ ServerEmit([Message("SERVER_KEY_EXCHANGE", srv.wkey) EXCEPT
                   !.chain = srvCfg.chain])
  /\ UNCHANGED <<srvSess, srvCache, srvTicketKey, srvFresh, srvCfg>>

(* tls_construct_certificate_request_ntls                                  *)
ServerSendCertificateRequest ==
  /\ ServerWriting("SW_CERT_REQ")
  /\ srv' = [srv EXCEPT !.hand = "SW_CERT_REQ", !.certReqSent = TRUE,
                        !.certRequest = TRUE]
  /\ ServerEmit(Message("CERTIFICATE_REQUEST", srv.wkey))
  /\ UNCHANGED <<srvSess, srvCache, srvTicketKey, srvFresh, srvCfg>>

\* Mutant: the buffer goes whether or not it is needed.
MutServerSendServerDone ==
  /\ ServerWriting("SW_SRVR_DONE")
  /\ srv' = [srv EXCEPT !.hand = "SW_SRVR_DONE", !.buffer = FALSE]
  /\ ServerEmit(Message("SERVER_DONE", srv.wkey))
  /\ UNCHANGED <<srvSess, srvCache, srvTicketKey, srvFresh, srvCfg>>

(* tls_construct_server_done_ntls: with no certificate requested nobody    *)
(* will sign the transcript, and the handshake buffer goes.                *)
ServerSendServerDone ==
  /\ ServerWriting("SW_SRVR_DONE")
  /\ srv' = [srv EXCEPT !.hand = "SW_SRVR_DONE",
                        !.buffer = srv.buffer /\ srv.certRequest]
  /\ ServerEmit(Message("SERVER_DONE", srv.wkey))
  /\ UNCHANGED <<srvSess, srvCache, srvTicketKey, srvFresh, srvCfg>>

(* tls_construct_new_session_ticket_ntls: construct_stateless_ticket_ntls  *)
(* seals the session under the ticket key.                                 *)
ServerSendSessionTicket ==
  /\ ServerWriting("SW_SESSION_TICKET")
  /\ srv' = [srv EXCEPT !.hand = "SW_SESSION_TICKET"]
  /\ ServerEmit([Message("NEWSESSION_TICKET", srv.wkey) EXCEPT
       !.ticket = [ n |-> srvFresh, key |-> srvTicketKey,
                    suite |-> srvSess.cipher, ms |-> srvSess.ms,
                    peer |-> srvSess.peer ]])
  /\ srvFresh' = srvFresh + 1
  /\ UNCHANGED <<srvSess, srvCache, srvTicketKey, srvCfg>>

(* TLS_ST_SW_CHANGE: the pre work fixes session->cipher (a different one   *)
(* is an internal error) and derives the keys, the post work starts to     *)
(* write under them.                                                       *)
ServerSendChangeCipherSpec ==
  /\ ServerWriting("SW_CHANGE")
  /\ IF srvSess.cipher \in {NoSuite, srv.newCipher} /\ srvSess.ms # 0
       THEN /\ srvSess' = [srvSess EXCEPT !.cipher = srv.newCipher]
            /\ srv' = [srv EXCEPT !.hand = "SW_CHANGE", !.wkey = srvSess.ms]
            /\ ServerEmit(Message("CHANGE_CIPHER_SPEC", srv.wkey))
            /\ UNCHANGED <<srvCache, srvTicketKey, srvFresh, srvCfg>>
       ELSE ServerFatal /\ UNCHANGED <<srvHs, toServer>>

(* tls_construct_finished_ntls                                             *)
ServerSendFinished ==
  /\ ServerWriting("SW_FINISHED")
  /\ srv' = [srv EXCEPT !.hand = "SW_FINISHED", !.finSent = TRUE]
  /\ ServerEmit([Message("FINISHED", srv.wkey) EXCEPT
                   !.secret = srvSess.ms, !.hs = srvHs])
  /\ UNCHANGED <<srvSess, srvCache, srvTicketKey, srvFresh, srvCfg>>

MutServerCaches ==
  srv.cleanuphand /\ ~srv.hit /\ srvCfg.cache /\ srvSess.sid # NoSid

(* ssl_update_cache: what the server keeps for a later resumption.         *)
ServerCaches ==
  /\ srv.cleanuphand
  /\ ~srv.hit
  /\ srvCfg.cache
  /\ srvSess.sid # NoSid
  /\ srvCfg.sidCtx \/ srv.verify = "none"

(* tls_finish_handshake_ntls: after a HelloRequest (cleanuphand not set)   *)
(* s->renegotiate stays as it is.                                          *)
ServerFinishHandshake ==
  /\ ServerWriting("OK")
  /\ srv' = [srv EXCEPT !.hand = "OK", !.flow = "FINISHED",
       !.renegotiate = srv.renegotiate /\ ~srv.cleanuphand,
       !.ticketExpected = srv.ticketExpected /\ ~srv.cleanuphand,
       !.cleanuphand = FALSE]
  /\ srvCache' = IF ServerCaches THEN srvCache \cup {srvSess} ELSE srvCache
  /\ UNCHANGED <<srvSess, srvHs, srvTicketKey, srvFresh, srvCfg, wireVars>>

-----------------------------------------------------------------------------
(* Reading: one action per message the server accepts.                     *)

(* tls_process_client_hello_ntls after the first handshake: a warning      *)
(* alert, and straight to writing.                                         *)
ServerRejectRenegotiation ==
  /\ ServerReading("SR_CLNT_HELLO")
  /\ ~ServerFirstHandshake
  /\ ServerConsume
  /\ toClient' = Append(toClient, Message("NO_RENEGOTIATION_ALERT", srv.wkey))
  /\ srv' = [srv EXCEPT !.hand = "SR_CLNT_HELLO", !.flow = "WRITING"]
  /\ UNCHANGED <<srvSess, srvCache, srvTicketKey, srvFresh, srvCfg>>

(* tls_get_ticket_from_client: does a ClientHello bring a usable ticket?   *)
TicketStatus(m) ==
  IF ~srvCfg.tickets \/ "ticket" \notin m.ext THEN "NONE"
  ELSE IF m.ticket = NoTicket THEN "EMPTY"
  ELSE IF m.ticket.key # srvTicketKey THEN "NO_DECRYPT"
  ELSE "SUCCESS"

(* ssl_get_prev_session: the sessions that m may resume (one at most): the *)
(* one sealed in its ticket, under the identifier the client sent, or the  *)
(* cached one with that identifier if there is no ticket to look at.       *)
PrevSessions(m) ==
  CASE TicketStatus(m) = "SUCCESS" ->
         { [ sid |-> m.sid, cipher |-> m.ticket.suite, ms |-> m.ticket.ms,
             peer |-> m.ticket.peer ] }
    [] TicketStatus(m) \in {"NONE", "EMPTY"} /\ m.sid # NoSid ->
         { c \in srvCache : c.sid = m.sid }
    [] OTHER -> {}

(* Resuming under SSL_VERIFY_PEER without a session id context is fatal,   *)
(* and so is a resumed cipher that the client no longer offers.            *)
ResumptionAllowed(m, sess) ==
  /\ srv.verify = "none" \/ srvCfg.sidCtx
  /\ sess.cipher \in m.suites

(* What tls_post_process_client_hello_ntls leaves in the SSL object once   *)
(* the cipher c is known. SSL_kSM2DHE overrides the verify mode.           *)
ServerAfterClientHello(m, hit, c, ticketExpected) ==
  [srv EXCEPT !.hand = "SR_CLNT_HELLO", !.flow = "WRITING", !.hit = hit,
     !.newCipher = c, !.ticketExpected = ticketExpected,
     !.statusExpected = ~hit /\ "status" \in m.ext /\ srvCfg.status,
     !.npnSeen = "npn" \in m.ext /\ srvCfg.npn,
     !.verify = IF c \in MutualSuites THEN "require" ELSE srv.verify,
     !.once = srv.once \/ c \in MutualSuites,
     !.proved = FALSE, !.finOk = FALSE]

\* Mutant: chooses a cipher instead of taking the session's.
MutServerResume ==
  /\ ServerReading("SR_CLNT_HELLO")
  /\ ServerFirstHandshake
  /\ \E sess \in PrevSessions(ServerInput),
        c \in ServerInput.suites \cap srvCfg.suites :
       /\ srv' = ServerAfterClientHello(ServerInput, TRUE, c,
                    TicketStatus(ServerInput) = "EMPTY")
       /\ srvSess' = sess
       /\ UNCHANGED <<toClient, srvCache, srvTicketKey, srvFresh, srvCfg>>
  /\ ServerConsume

(* tls_early_post_process_client_hello_ntls and                            *)
(* tls_post_process_client_hello_ntls, a session is resumed.               *)
ServerResume ==
  /\ ServerReading("SR_CLNT_HELLO")
  /\ ServerFirstHandshake
  /\ \E sess \in PrevSessions(ServerInput) :
       IF ResumptionAllowed(ServerInput, sess)
         THEN /\ srv' = ServerAfterClientHello(ServerInput, TRUE, sess.cipher,
                          TicketStatus(ServerInput) = "EMPTY")
              /\ srvSess' = sess
              /\ UNCHANGED <<toClient, srvCache, srvTicketKey, srvFresh,
                             srvCfg>>
         ELSE ServerFatal
  /\ ServerConsume

(* The same, a new session: ssl_get_new_session draws an identifier unless *)
(* a ticket will be sent, ssl3_choose_cipher picks a shared cipher.        *)
ServerNewSession ==
  /\ ServerReading("SR_CLNT_HELLO")
  /\ ServerFirstHandshake
  /\ PrevSessions(ServerInput) = {}
  /\ ServerConsume
  /\ LET ticketExpected == TicketStatus(ServerInput) \in {"EMPTY", "NO_DECRYPT"}
         shared == ServerInput.suites \cap srvCfg.suites
     IN \/ /\ shared = {}
           /\ ServerFatal
        \/ \E c \in shared :
             /\ srv' = ServerAfterClientHello(ServerInput, FALSE, c,
                                              ticketExpected)
             /\ srvSess' = [NoServerSession EXCEPT
                  !.sid = IF ticketExpected THEN NoSid ELSE ServerSid(srvFresh)]
             /\ srvFresh' = srvFresh + 1
             /\ UNCHANGED <<toClient, srvCache, srvTicketKey, srvCfg>>

\* Mutant: an empty list is refused wherever one was requested.
MutClientChainStrict(chain) == chain = "good" \/ srv.verify = "none"
\* Mutant: an empty list is always accepted.
MutClientChainLax(chain) == chain \in {"good", "empty"}

(* tls_process_client_certificate_ntls: an empty list where a certificate  *)
(* is required, a list of one, and a pair that does not verify are fatal.  *)
ClientChainAccepted(chain) ==
  \/ chain = "good"
  \/ chain = "empty" /\ srv.newCipher \notin MutualSuites
                     /\ srv.verify # "require"

\* Mutant: the chain is not verified.
MutServerReadCertificate ==
  /\ ServerReading("SR_CERT")
  /\ ServerConsume
  /\ srv' = [srv EXCEPT !.hand = "SR_CERT", !.proved = FALSE]
  /\ srvSess' = [srvSess EXCEPT !.peer = ServerInput.chain]
  /\ UNCHANGED <<toClient, srvCache, srvTicketKey, srvFresh, srvCfg>>

ServerReadCertificate ==
  /\ ServerReading("SR_CERT")
  /\ ServerConsume
  /\ IF ClientChainAccepted(ServerInput.chain)
       THEN /\ srv' = [srv EXCEPT !.hand = "SR_CERT",
                 !.buffer = srv.buffer /\ ServerInput.chain # "empty",
                 !.proved = FALSE]
            /\ srvSess' = [srvSess EXCEPT
                 !.peer = IF ServerInput.chain = "empty" THEN "none" ELSE "good"]
            /\ UNCHANGED <<toClient, srvCache, srvTicketKey, srvFresh, srvCfg>>
       ELSE ServerFatal

\* Mutant: MSG_PROCESS_FINISHED_READING, nothing checked.
MutServerReadKeyExchange ==
  /\ ServerReading("SR_KEY_EXCH")
  /\ ServerConsume
  /\ srv' = [srv EXCEPT !.hand = "SR_KEY_EXCH", !.flow = "WRITING"]
  /\ srvSess' = [srvSess EXCEPT !.ms = ServerInput.secret]
  /\ UNCHANGED <<toClient, srvCache, srvTicketKey, srvFresh, srvCfg>>

(* tls_process_client_key_exchange_ntls sets the master secret (a message  *)
(* it cannot decode is fatal); tls_post_process_client_key_exchange_ntls   *)
(* keeps the handshake buffer for the CertificateVerify to come, and stops *)
(* with an internal error if it is gone.                                   *)
ServerReadKeyExchange ==
  /\ ServerReading("SR_KEY_EXCH")
  /\ ServerConsume
  /\ IF ServerInput.secret # 0 /\ (srvSess.peer # "none" => srv.buffer)
       THEN /\ srv' = [srv EXCEPT !.hand = "SR_KEY_EXCH",
                         !.buffer = srv.buffer /\ srvSess.peer # "none"]
            /\ srvSess' = [srvSess EXCEPT !.ms = ServerInput.secret]
            /\ UNCHANGED <<toClient, srvCache, srvTicketKey, srvFresh, srvCfg>>
       ELSE ServerFatal

(* tls_process_cert_verify_ntls: the signature is over the transcript, by  *)
(* the key of session->peer.                                               *)
ServerReadCertVerify ==
  /\ ServerReading("SR_CERT_VRFY")
  /\ ServerConsume
  /\ IF ServerInput.hs = srvHs /\ ServerInput.chain = srvSess.peer
       THEN /\ srv' = [srv EXCEPT !.hand = "SR_CERT_VRFY", !.buffer = FALSE,
                         !.proved = TRUE]
            /\ UNCHANGED <<toClient, srvSess, srvCache, srvTicketKey, srvFresh,
                           srvCfg>>
       ELSE ServerFatal

\* Mutant: the read keys are not installed.
MutServerReadChangeCipherSpec ==
  /\ ServerReading("SR_CHANGE")
  /\ ServerConsume
  /\ srv' = [srv EXCEPT !.hand = "SR_CHANGE", !.ccs = TRUE, !.finOk = FALSE]
  /\ srvSess' = [srvSess EXCEPT !.cipher = srv.newCipher]
  /\ UNCHANGED <<toClient, srvCache, srvTicketKey, srvFresh, srvCfg>>

(* tls_process_change_cipher_spec_ntls with ssl3_do_change_cipher_spec.    *)
ServerReadChangeCipherSpec ==
  /\ ServerReading("SR_CHANGE")
  /\ ServerConsume
  /\ IF srv.newCipher # NoSuite /\ srvSess.ms # 0
       THEN /\ srv' = [srv EXCEPT !.hand = "SR_CHANGE", !.ccs = TRUE,
                         !.rkey = srvSess.ms, !.finOk = FALSE]
            /\ srvSess' = [srvSess EXCEPT !.cipher = srv.newCipher]
            /\ UNCHANGED <<toClient, srvCache, srvTicketKey, srvFresh, srvCfg>>
       ELSE ServerFatal

(* tls_process_next_proto_ntls                                             *)
ServerReadNextProto ==
  /\ ServerReading("SR_NEXT_PROTO")
  /\ ServerConsume
  /\ srv' = [srv EXCEPT !.hand = "SR_NEXT_PROTO"]
  /\ UNCHANGED <<toClient, srvSess, srvCache, srvTicketKey, srvFresh, srvCfg>>

(* tls_process_finished_ntls: the MAC is over the transcript so far, taken *)
(* by tls_get_message_body_ntls before the message itself is digested.     *)
ServerReadFinished ==
  /\ ServerReading("SR_FINISHED")
  /\ ServerConsume
  /\ IF srv.ccs /\ ServerInput.secret = srvSess.ms /\ ServerInput.hs = srvHs
       THEN /\ srv' = [srv EXCEPT !.hand = "SR_FINISHED", !.flow = "WRITING",
                         !.ccs = FALSE, !.cleanuphand = TRUE,
                         !.finRead = TRUE, !.finOk = TRUE]
            /\ UNCHANGED <<toClient, srvSess, srvCache, srvTicketKey, srvFresh,
                           srvCfg>>
       ELSE ServerFatal

-----------------------------------------------------------------------------
(* What ends or restarts the handshake from outside the state machine.     *)

(* A message that fits no transition, or that the record layer cannot open *)
ServerUnexpected ==
  /\ srv.flow = "READING"
  /\ toServer # << >>
  /\ ServerInput.type \notin AlertTypes
  /\ \/ ServerInput.key # srv.rkey
     \/ ServerReadTransition(ServerInput.type) = "UNEXPECTED"
  /\ ServerConsume
  /\ ServerFatal

(* ssl3_read_bytes: a fatal alert ends the connection without an answer,   *)
(* except that between a ChangeCipherSpec and a Finished nothing else may  *)
(* come (DATA_BETWEEN_CCS_AND_FINISHED).                                   *)
ServerReadAlert ==
  /\ srv.flow \in {"READING", "FINISHED"}
  /\ toServer # << >>
  /\ ServerInput.type = "FATAL_ALERT"
  /\ ServerConsume
  /\ IF srv.ccs THEN ServerFatal
     ELSE /\ srv' = [srv EXCEPT !.flow = "ERROR"]
          /\ ServerDropSession
          /\ UNCHANGED <<toClient, srvSess, srvTicketKey, srvFresh, srvCfg>>

(* ssl3_read_bytes: a no_renegotiation warning is fatal for the receiver.  *)
ServerReadNoRenegotiation ==
  /\ srv.flow \in {"READING", "FINISHED"}
  /\ toServer # << >>
  /\ ServerInput.type = "NO_RENEGOTIATION_ALERT"
  /\ ServerConsume
  /\ ServerFatal

(* ssl3_read_bytes: a handshake record outside a handshake enters          *)
(* state_machine_ntls again from MSG_FLOW_FINISHED.                        *)
ServerWake ==
  /\ srv.flow = "FINISHED"
  /\ toServer # << >>
  /\ ServerInput.type \in HandshakeTypes
  /\ srv' = [srv EXCEPT !.flow = "WRITING", !.ccs = FALSE]
  /\ UNCHANGED <<srvSess, srvHs, srvCache, srvTicketKey, srvFresh, srvCfg,
                 wireVars>>

(* A ChangeCipherSpec outside a handshake is fatal.                        *)
ServerStrayChangeCipherSpec ==
  /\ srv.flow = "FINISHED"
  /\ toServer # << >>
  /\ ServerInput.type = "CHANGE_CIPHER_SPEC"
  /\ ServerConsume
  /\ ServerFatal

(* SSL_renegotiate and SSL_do_handshake by the application:                *)
(* ossl_statem_set_renegotiate_ntls asks for a HelloRequest.               *)
ServerRenegotiate ==
  /\ srvCfg.renegotiate
  /\ srv.flow = "FINISHED"
  /\ ~srv.renegotiate
  /\ srv' = [srv EXCEPT !.flow = "WRITING", !.renegotiate = TRUE,
                        !.helloReq = TRUE, !.ccs = FALSE, !.buffer = TRUE,
                        !.certRequest = FALSE]
  /\ srvHs' = << >>
  /\ UNCHANGED <<srvSess, srvCache, srvTicketKey, srvFresh, srvCfg, wireVars>>

-----------------------------------------------------------------------------
(* Between connections, and in the SSL_CTX that they share.                *)

(* The connection is over; the application takes a new SSL object for the  *)
(* next one, or SSL_clear on this one.                                     *)
ServerNewConnection ==
  /\ srv' = IF srvCfg.reuse THEN ClearedServerSsl ELSE NewServerSsl(srvCfg)
  /\ srvSess' = NoServerSession
  /\ srvHs' = << >>
  /\ UNCHANGED <<srvCache, srvTicketKey, srvFresh, srvCfg>>

(* A cached session times out, or is removed (SSL_CTX_flush_sessions, or   *)
(* ssl_clear_bad_session after a connection that was not shut down).       *)
ServerForgetSession ==
  /\ \E c \in srvCache : srvCache' = srvCache \ {c}
  /\ UNCHANGED <<srv, srvSess, srvHs, srvTicketKey, srvFresh, srvCfg>>

(* The ticket key is replaced: older tickets no longer decrypt.            *)
ServerRotateTicketKey ==
  /\ srvTicketKey' = srvTicketKey + 1
  /\ UNCHANGED <<srv, srvSess, srvHs, srvCache, srvFresh, srvCfg>>

-----------------------------------------------------------------------------
ServerWrite ==
  \/ ServerTurnToRead \/ ServerSendHelloRequest \/ ServerSendServerHello
  \/ ServerSendCertificate \/ ServerSendCertStatus \/ ServerSendKeyExchange
  \/ ServerSendCertificateRequest \/ ServerSendServerDone
  \/ ServerSendSessionTicket \/ ServerSendChangeCipherSpec
  \/ ServerSendFinished \/ ServerFinishHandshake

ServerRead ==
  \/ ServerRejectRenegotiation \/ ServerResume \/ ServerNewSession
  \/ ServerReadCertificate \/ ServerReadKeyExchange \/ ServerReadCertVerify
  \/ ServerReadChangeCipherSpec \/ ServerReadNextProto \/ ServerReadFinished
  \/ ServerUnexpected \/ ServerReadAlert
  \/ ServerReadNoRenegotiation \/ ServerWake
  \/ ServerStrayChangeCipherSpec

ServerStep == ServerAccept \/ ServerWrite \/ ServerRead \/ ServerRenegotiate

-----------------------------------------------------------------------------
(* The inductive invariant behind the first properties: what the position  *)
(* in the handshake says about the rest of the SSL object.                 *)

(* Where each kind of handshake can be, and that a flow rests or writes    *)
(* only where the tables let it.                                           *)
Position ==
  /\ srv.flow = "FINISHED" => srv.hand = "OK"
  /\ srv.flow = "WRITING" =>
       srv.hand \notin {"SR_CERT", "SR_KEY_EXCH", "SR_CERT_VRFY", "SR_CHANGE",
                        "SR_NEXT_PROTO"}
  /\ srv.hit =>
       srv.hand \in {"SR_CLNT_HELLO", "SW_SRVR_HELLO", "SW_SESSION_TICKET",
                     "SW_CHANGE", "SW_FINISHED", "SR_CHANGE", "SR_NEXT_PROTO",
                     "SR_FINISHED", "OK", "SW_HELLO_REQ"}

(* The hand states that only a verified Finished opens: after the client's *)
(* Finished, and in a full handshake all of the server's last flight. A    *)
(* ClientHello past the first handshake is one that was just rejected.     *)
AfterClientFinished ==
  \/ srv.hand \in {"SR_FINISHED", "OK", "SW_HELLO_REQ"}
  \/ ~srv.hit /\ srv.hand \in {"SW_SESSION_TICKET", "SW_CHANGE", "SW_FINISHED"}
  \/ srv.hand = "SR_CLNT_HELLO" /\ ~ServerFirstHandshake

ReadSwitched ==
  AfterClientFinished \/ srv.hand \in {"SR_CHANGE", "SR_NEXT_PROTO"}

(* The hand states that only the server's ChangeCipherSpec opens.          *)
WriteSwitched ==
  \/ srv.hand \in {"SW_CHANGE", "SW_FINISHED", "OK", "SW_HELLO_REQ"}
  \/ srv.hit /\ srv.hand \in {"SR_CHANGE", "SR_NEXT_PROTO", "SR_FINISHED"}
  \/ srv.hand = "SR_CLNT_HELLO" /\ ~ServerFirstHandshake

Progress ==
  /\ srv.finOk => srv.finRead
  /\ srv.hand = "BEFORE" => ~srv.finRead
  /\ srv.flow = "UNINITED" => srvSess.peer = "none"
  /\ AfterClientFinished => srv.finOk
  /\ WriteSwitched /\ srv.hand # "SW_CHANGE" => srv.finSent
  /\ ~srv.hit /\ srvSess.peer = "good" =>
       srv.proved \/ srv.hand \in {"SR_CERT", "SR_KEY_EXCH"}

Keys ==
  /\ ReadSwitched => srvSess.ms # 0 /\ srv.rkey = srvSess.ms
  /\ WriteSwitched => srvSess.ms # 0 /\ srv.wkey = srvSess.ms

(* The position, the history and the keys fit together in every state.     *)
ServerInv == Position /\ Progress /\ Keys
=============================================================================
