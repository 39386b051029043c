------------------------------ MODULE NtlsWire ------------------------------
(***************************************************************************)
(* What the NTLS (TLCP) client and server exchange: the message types of   *)
(* the handshake, the values the messages carry, and the two directions of *)
(* the TCP connection as reliable FIFO channels.                           *)
(*                                                                         *)
(* Payloads are abstracted to what the handshake logic tells apart.        *)
(*  - A cipher suite is a model value; MutualSuites are the suites whose   *)
(*    key exchange is SSL_kSM2DHE (ntls_statem_srvr.c forces client        *)
(*    authentication for them).                                            *)
(*  - A secret (pre-master or master) is a natural number, 0 is "none".    *)
(*  - The transcript hash is the sequence of the handshake messages that   *)
(*    were digested, so two hashes are equal iff the transcripts are.      *)
(***************************************************************************)
EXTENDS Naturals, Sequences, FiniteSets

CONSTANTS
  Suites,        \* the cipher suites the two endpoints know
  MutualSuites,  \* the suites that use SSL_kSM2DHE
  NoSuite        \* "no cipher chosen": a NULL SSL_CIPHER pointer

ASSUME SuitesAssumption ==
  /\ Suites # {}
  /\ MutualSuites \subseteq Suites
  /\ NoSuite \notin Suites

VARIABLES
  toClient,      \* records on their way to the client
  toServer       \* records on their way to the server

wireVars == <<toClient, toServer>>

-----------------------------------------------------------------------------
(* statem.state: the message flow machine that both endpoints run.         *)
FlowStates == { "UNINITED", "READING", "WRITING", "FINISHED", "ERROR" }

(* Message types (SSL3_MT_* plus the two alert kinds the handshake uses).  *)

ServerHandshakeTypes ==
  { "HELLO_REQUEST", "SERVER_HELLO", "NEWSESSION_TICKET", "CERTIFICATE",
    "CERTIFICATE_STATUS", "SERVER_KEY_EXCHANGE", "CERTIFICATE_REQUEST",
    "SERVER_DONE", "FINISHED" }

ClientHandshakeTypes ==
  { "CLIENT_HELLO", "CERTIFICATE", "CLIENT_KEY_EXCHANGE",
    "CERTIFICATE_VERIFY", "NEXT_PROTO", "FINISHED" }

HandshakeTypes == ServerHandshakeTypes \cup ClientHandshakeTypes

AlertTypes == { "FATAL_ALERT", "NO_RENEGOTIATION_ALERT" }

MessageTypes == HandshakeTypes \cup AlertTypes \cup { "CHANGE_CIPHER_SPEC" }

Extensions == { "ticket", "status", "npn" }

(* Certificate lists: none, the signing certificate alone, a signing and   *)
(* an encryption certificate that verify, and a pair that does not.        *)
Chains == { "empty", "single", "good", "bad" }

(* Session identifiers: none, one drawn by the server, and the SHA-256 of  *)
(* a ticket that the client computes (tls_process_new_session_ticket_ntls) *)
SidKinds == { "none", "id", "hash" }
Sids == SidKinds \X Nat
NoSid == <<"none", 0>>
ServerSid(n) == <<"id", n>>
TicketSid(n) == <<"hash", n>>

(* A ticket is the session encrypted under the server's ticket key.        *)
Tickets ==
  [ n : Nat, key : Nat, suite : Suites \cup {NoSuite}, ms : Nat,
    peer : {"none", "good"} ]
NoTicket ==
  [ n |-> 0, key |-> 0, suite |-> NoSuite, ms |-> 0, peer |-> "none" ]

Messages ==
  [ type : MessageTypes,
    key : Nat,                        \* record protection: 0 is plaintext
    ext : SUBSET Extensions,          \* the extensions present in a hello
    suites : SUBSET Suites,           \* ClientHello: the offer
    suite : Suites \cup {NoSuite},    \* ServerHello: the choice
    sid : Sids,                       \* both hellos
    ticket : Tickets,                 \* ClientHello and NewSessionTicket
    chain : Chains,                   \* Certificate
    secret : Nat,                     \* ClientKeyExchange and Finished
    hs : Seq(HandshakeTypes) ]        \* signed or MACed transcript

Message(type, key) ==
  [ type |-> type, key |-> key, ext |-> {}, suites |-> {}, suite |-> NoSuite,
    sid |-> NoSid, ticket |-> NoTicket, chain |-> "empty", secret |-> 0,
    hs |-> << >> ]

-----------------------------------------------------------------------------
(* ssl3_finish_mac as ssl3_do_write_ntls and tls_get_message_body_ntls call *)
(* it. ChangeCipherSpec is not a handshake message; a HelloRequest that is *)
(* digested is always forgotten again by ssl3_init_finished_mac before the *)
(* digest is read, so it is left out here.                                 *)
Digest(hs, type) ==
  IF type \in HandshakeTypes \ {"HELLO_REQUEST"} THEN Append(hs, type) ELSE hs

WireTypeOK ==
  /\ toClient \in Seq(Messages)
  /\ toServer \in Seq(Messages)

WireInit ==
  /\ toClient = << >>
  /\ toServer = << >>
=============================================================================
