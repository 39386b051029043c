--------------------------- MODULE NtlsHandshake ---------------------------
(***************************************************************************)
(* A client and a server of this repository connected to each other: any   *)
(* interleaving of their steps, several connections one after the other    *)
(* with session resumption (by identifier and by ticket), connections lost *)
(* half way, a session cache and a ticket key that age, and renegotiation  *)
(* asked for by either application.                                        *)
(***************************************************************************)
EXTENDS NtlsClient, NtlsServer

CONSTANTS
  MaxConns(_, _),       \* bound: connections of a client and a server with
                        \* these settings; 0: the two never meet
  MaxTicketKeys(_, _),  \* bound: ticket key rotations, likewise
  ConnectionsBreak      \* may a connection be lost half way?

ASSUME HandshakeAssumption ==
  /\ \A c \in ClientConfigs, s \in ServerConfigs :
       MaxConns(c, s) \in Nat /\ MaxTicketKeys(c, s) \in Nat
  /\ ConnectionsBreak \in BOOLEAN

VARIABLE conn       \* the number of the current connection

vars == <<clientVars, serverVars, wireVars, conn>>

Settled == { "FINISHED", "ERROR" }

(* Nobody has anything left to do on this connection.                      *)
Quiet ==
  /\ cli.flow \in Settled
  /\ srv.flow \in Settled
  /\ toClient = << >> \/ cli.flow = "ERROR"
  /\ toServer = << >> \/ srv.flow = "ERROR"

-----------------------------------------------------------------------------
(* The connection ends, or breaks, and the client opens another one.       *)
NewConnection ==
  /\ conn < MaxConns(cliCfg, srvCfg)
  /\ Quiet \/ ConnectionsBreak
  /\ conn' = conn + 1
  /\ toClient' = << >>
  /\ toServer' = << >>
  /\ ClientNewConnection
  /\ ServerNewConnection

(* The SSL_CTX of the server ages at any time.                             *)
ContextStep ==
  /\ \/ ServerForgetSession
     \/ /\ srvTicketKey < MaxTicketKeys(cliCfg, srvCfg)
        /\ ServerRotateTicketKey
  /\ UNCHANGED <<clientVars, wireVars, conn>>

(* Everything is over.                                                     *)
Done == conn = MaxConns(cliCfg, srvCfg) /\ Quiet /\ UNCHANGED vars

ClientProgress == ClientConnect \/ ClientWrite \/ ClientRead
ServerProgress == ServerAccept \/ ServerWrite \/ ServerRead

Init ==
  /\ ClientInit
  /\ ServerInit
  /\ WireInit
  /\ conn = 1
  /\ conn <= MaxConns(cliCfg, srvCfg)

Next ==
  \/ (ClientProgress \/ ClientRenegotiate) /\ UNCHANGED <<serverVars, conn>>
  \/ (ServerProgress \/ ServerRenegotiate) /\ UNCHANGED <<clientVars, conn>>
  \/ NewConnection
  \/ ContextStep
  \/ Done

(* The applications keep calling SSL_do_handshake or SSL_read until the    *)
(* handshake is over, so each endpoint keeps taking the steps it can take. *)
(* Nothing forces them to renegotiate, or the connection to break.         *)
Fairness ==
  /\ WF_vars(ClientProgress /\ UNCHANGED <<serverVars, conn>>)
  /\ WF_vars(ServerProgress /\ UNCHANGED <<clientVars, conn>>)

Spec == Init /\ [][Next]_vars /\ Fairness

-----------------------------------------------------------------------------
(* Every variable keeps its type: no handler leaves an SSL object, a       *)
(* session or a message outside the values the code can produce.           *)
TypeOK ==
  /\ ClientTypeOK
  /\ ServerTypeOK
  /\ WireTypeOK
  /\ conn \in 1..MaxConns(cliCfg, srvCfg)

(* When an endpoint reports a finished handshake, both ends hold the same  *)
(* master secret and the same cipher, and they agree on whether a session  *)
(* was resumed (tls_finish_handshake_ntls on both sides, after the         *)
(* Finished checks, on full, resumed and refused-resumption handshakes).   *)
(* A client that renegotiates with a session that has no name has replaced *)
(* it by an empty one (ssl_get_new_session, called for its ClientHello).   *)
SameKeys ==
  /\ cliSess.ms # 0
  /\ cliSess.ms = srvSess.ms
  /\ cli.newCipher = srv.newCipher
  /\ cliSess.cipher = cli.newCipher
  /\ srvSess.cipher = srv.newCipher

Agreement ==
  /\ cli.flow = "FINISHED" => SameKeys /\ cli.hit = srv.hit
  /\ srv.flow = "FINISHED" /\ cli.flow # "ERROR"
       /\ (cli.hand = "CW_CLNT_HELLO" => cliSess.sid # NoSid)
       => SameKeys

(* Each record is read under the keys it was written under: the switch to  *)
(* new keys around ChangeCipherSpec happens at the same place in the       *)
(* stream on both sides, for alerts and renegotiation attempts too.        *)
KeysInStep ==
  /\ toClient # << >> /\ cli.flow \in {"READING", "FINISHED"}
       => ClientInput.key = cli.rkey
  /\ toServer # << >> /\ srv.flow \in {"READING", "FINISHED"}
       => ServerInput.key = srv.rkey

(* The two transition tables fit together: a message that one endpoint     *)
(* decides to send is never an unexpected message for the other, whatever  *)
(* was negotiated (resumption, tickets, OCSP status, NPN, client           *)
(* certificates).                                                          *)
NoUnexpectedMessage ==
  /\ cli.flow = "READING" /\ toClient # << >>
       /\ ClientInput.type \notin AlertTypes /\ ~ClientSkips(ClientInput)
       => ClientReadTransition(ClientInput.type) # "UNEXPECTED"
  /\ srv.flow = "READING" /\ toServer # << >>
       /\ ServerInput.type \notin AlertTypes
       => ServerReadTransition(ServerInput.type) # "UNEXPECTED"

(* The settings of the two applications leave no reason to fail, but for a *)
(* server that verifies clients and has no session id context.             *)
CompatibleButForContext ==
  LET shared == cliCfg.suites \cap srvCfg.suites
  IN /\ shared # {}
     /\ srvCfg.chain = "good" \/ ~cliCfg.verify
     /\ \/ cliCfg.chain = "good"
        \/ /\ shared \cap MutualSuites = {}
           /\ srvCfg.verify # "require"
           /\ srvCfg.verify = "none" \/ cliCfg.chain = "empty"
     /\ cliCfg.status # "refuse"
     /\ ~cliCfg.renegotiate /\ ~srvCfg.renegotiate

(* The settings of the two applications leave no reason to fail.           *)
Compatible ==
  CompatibleButForContext /\ (srvCfg.sidCtx \/ srvCfg.verify = "none")

(* Compatible endpoints never end in MSG_FLOW_ERROR: not in a full         *)
(* handshake, not when the server resumes, no longer knows the session or  *)
(* cannot decrypt the ticket, not after a connection was lost.             *)
CompatibleNeverFails ==
  Compatible => cli.flow # "ERROR" /\ srv.flow # "ERROR"

(* The one reason left, a server that verifies and has no session id       *)
(* context (ssl_get_prev_session: "a fatal error"), costs at most the      *)
(* ClientHello that offers a ticket. Such a server has cached nothing, so  *)
(* an identifier alone is never refused, and the refused client forgets    *)
(* its session, so that its next handshake is a full one.                  *)
OnlyTicketsRefused ==
  CompatibleButForContext /\ (cli.flow = "ERROR" \/ srv.flow = "ERROR") =>
    /\ ~srvCfg.sidCtx /\ srvCfg.verify # "none"
    /\ srv.flow = "ERROR" /\ srv.hand = "BEFORE"
    /\ cli.hand = "CW_CLNT_HELLO"
    /\ IF cli.flow = "ERROR" THEN cliSess = NoClientSession
       ELSE cliSess.ticket # NoTicket

(* A server that requires a client certificate, by its verify mode or      *)
(* because the suite is an SM2DHE one, finishes only with a client whose   *)
(* certificate verified, and that signed the transcript unless the session *)
(* was resumed.                                                            *)
ClientAuthenticated ==
  srv.flow = "FINISHED"
    /\ (srvCfg.verify = "require" \/ srv.newCipher \in MutualSuites)
    => srvSess.peer = "good" /\ (srv.hit \/ srv.proved)

(* A client that verifies finishes only with a server whose certificate    *)
(* pair verified, and that signed its key exchange unless the session was  *)
(* resumed.                                                                *)
ServerAuthenticated ==
  cli.flow = "FINISHED" /\ cliCfg.verify
    => cliSess.peer = "good" /\ (cli.hit \/ cli.skeOk)

(* ssl3_digest_cached_records(s, 0) never drops the handshake buffer while *)
(* a CertificateVerify is still to be computed from it, on either side.    *)
BufferKeptForCertVerify ==
  /\ ServerFirstHandshake /\ srvSess.peer # "none" /\ ~srv.hit
       /\ srv.hand \in {"SR_CERT", "SR_KEY_EXCH"} => srv.buffer
  /\ cli.certReq = "send" /\ cli.flow # "ERROR"
       /\ cli.hand \in {"CR_CERT_REQ", "CR_SRVR_DONE", "CW_CERT",
                        "CW_KEY_EXCH"} => cli.buffer

(* What a later connection may resume is sound: a cached session and a     *)
(* ticket hold a cipher and a secret, never an unverified client where one *)
(* is required, and they match what the client kept under the same name,   *)
(* even if the connection broke before the client saw the Finished.        *)
ResumableSessionsMatch ==
  /\ \A c \in srvCache :
       /\ c.ms # 0 /\ c.cipher # NoSuite
       /\ srvCfg.verify = "require" => c.peer = "good"
       /\ cliSess.sid = c.sid => cliSess.ms = c.ms /\ cliSess.cipher = c.cipher
  /\ cliSess.ticket # NoTicket =>
       /\ cliSess.ticket.ms = cliSess.ms /\ cliSess.ms # 0
       /\ cliSess.ticket.suite = cliSess.cipher
       /\ srvCfg.verify = "require" => cliSess.ticket.peer = "good"

(* A renegotiation is over once its ClientHello was answered with the      *)
(* no_renegotiation warning: the server sends no ServerHello for it        *)
(* ("We must have rejected the renegotiation", ntls_statem_srvr.c, in the  *)
(* write transition of TLS_ST_SR_CLNT_HELLO).                              *)
RenegotiationRefused ==
  srv.hand = "SW_SRVR_HELLO" => ServerFirstHandshake

(* Every handshake comes to an end: each endpoint finishes or fails, it is *)
(* never left waiting for a message that will not come.                    *)
EveryHandshakeSettles ==
  /\ cli.flow \notin Settled ~> cli.flow \in Settled
  /\ srv.flow \notin Settled ~> srv.flow \in Settled
=============================================================================
