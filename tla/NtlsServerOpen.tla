--------------------------- MODULE NtlsServerOpen ---------------------------
(***************************************************************************)
(* The NTLS server against a client that need not be this repository's: it *)
(* sends any message at any moment, in the clear or under the server's     *)
(* keys, offers any session it has seen and leaves when it likes. What it  *)
(* cannot do is open the server's tickets, so the tickets it presents are  *)
(* ones the server sent.                                                   *)
(***************************************************************************)
EXTENDS NtlsServer

CONSTANTS
  Secrets,        \* bound: the pre-master secrets the client uses
  MaxConns,       \* bound: connections in a behaviour
  MaxTicketKeys   \* bound: ticket key rotations

ASSUME ServerOpenAssumption ==
  /\ Secrets \subseteq Nat
  /\ MaxConns \in Nat \ {0}
  /\ MaxTicketKeys \in Nat

VARIABLES
  conn,     \* the number of the current connection
  tickets   \* the tickets the client has been sent

vars == <<serverVars, wireVars, conn, tickets>>

-----------------------------------------------------------------------------
(* The client takes what the server sent, tickets included, and answers    *)
(* with one message.                                                       *)
ClientSays(m) ==
  /\ srv.flow \in {"READING", "FINISHED"}
  /\ toServer = << >>
  /\ toServer' = <<m>>
  /\ toClient' = << >>
  /\ tickets' = tickets \cup
       { toClient[i].ticket : i \in { j \in DOMAIN toClient :
                                      toClient[j].type = "NEWSESSION_TICKET" } }
  /\ UNCHANGED <<serverVars, conn>>

(* What it may say. Only the values a message of its type carries vary; a  *)
(* transcript other than the server's is one that does not verify, secret  *)
(* 0 a ClientKeyExchange that does not decode.                             *)
ClientSaysHello ==
  \E e \in {{}, {"ticket"}, Extensions}, s \in {{}, Suites},
     i \in {NoSid, ServerSid(srvFresh)} \cup { c.sid : c \in srvCache },
     t \in {NoTicket} \cup tickets :
    ClientSays([Message("CLIENT_HELLO", srv.rkey) EXCEPT
                  !.ext = e, !.suites = s, !.sid = i, !.ticket = t])

ClientSaysCertificate ==
  \E c \in Chains :
    ClientSays([Message("CERTIFICATE", srv.rkey) EXCEPT !.chain = c])

ClientSaysKeyExchange ==
  \E n \in Secrets :
    ClientSays([Message("CLIENT_KEY_EXCHANGE", srv.rkey) EXCEPT !.secret = n])

ClientSaysCertVerify ==
  \E c \in {"good", "bad"}, h \in {srvHs, << >>} :
    ClientSays([Message("CERTIFICATE_VERIFY", srv.rkey) EXCEPT
                  !.chain = c, !.hs = h])

ClientSaysFinished ==
  \E n \in {0, srvSess.ms}, h \in {srvHs, << >>} :
    ClientSays([Message("FINISHED", srv.rkey) EXCEPT !.secret = n, !.hs = h])

ClientSaysOther ==
  \E t \in AlertTypes \cup {"CHANGE_CIPHER_SPEC", "NEXT_PROTO"} :
    ClientSays(Message(t, srv.rkey))

(* A record that does not open under the read keys.                        *)
ClientSaysGarbage == ClientSays(Message("FINISHED", srv.rkey + 1))

ClientSends ==
  \/ ClientSaysHello \/ ClientSaysCertificate \/ ClientSaysKeyExchange
  \/ ClientSaysCertVerify \/ ClientSaysFinished \/ ClientSaysOther
  \/ ClientSaysGarbage

NewConnection ==
  /\ conn < MaxConns
  /\ conn' = conn + 1
  /\ toClient' = << >>
  /\ toServer' = << >>
  /\ ServerNewConnection
  /\ UNCHANGED tickets

ContextStep ==
  /\ \/ ServerForgetSession
     \/ srvTicketKey < MaxTicketKeys /\ ServerRotateTicketKey
  /\ UNCHANGED <<wireVars, conn, tickets>>

(* The last connection is over.                                            *)
Done ==
  /\ conn = MaxConns
  /\ srv.flow = "ERROR"
  /\ UNCHANGED vars

Init == ServerInit /\ WireInit /\ conn = 1 /\ tickets = {}

Next ==
  \/ ServerStep /\ UNCHANGED <<conn, tickets>>
  \/ ClientSends
  \/ NewConnection
  \/ ContextStep
  \/ Done

Spec == Init /\ [][Next]_vars

-----------------------------------------------------------------------------
(* Whatever the client sends, the server's state keeps its type.           *)
TypeOK ==
  /\ ServerTypeOK
  /\ WireTypeOK
  /\ conn \in 1..MaxConns
  /\ tickets \subseteq Tickets

(* No order of messages gets the server to report a finished handshake     *)
(* unless, since the last change of the read keys, a Finished over the     *)
(* whole transcript was verified, the server's own Finished was sent, and  *)
(* a client whose certificate the session names has signed the transcript  *)
(* (read and write transitions of ntls_statem_srvr.c).                     *)
FinishedMeansVerified ==
  srv.flow = "FINISHED" =>
    /\ srv.finOk
    /\ srv.finSent
    /\ srvSess.peer = "good" /\ ~srv.hit => srv.proved

(* ... and then both directions run under the session's master secret.     *)
FinishedMeansProtected ==
  srv.flow = "FINISHED" =>
    /\ srvSess.ms # 0
    /\ srv.rkey = srvSess.ms
    /\ srv.wkey = srvSess.ms

(* The write transition table has an answer for every hand state in which  *)
(* the server turns to writing: no client can drive the server into its    *)
(* "shouldn't happen" branch.                                              *)
NoWriteError == srv.flow = "WRITING" => ServerWriteTransition # "ERROR"

(* When the server gets to its ChangeCipherSpec it has a master secret and *)
(* no other cipher in the session: the two internal errors of the pre work *)
(* of TLS_ST_SW_CHANGE are out of the client's reach.                      *)
ChangeCipherSpecReady ==
  ServerWriting("SW_CHANGE") =>
    srvSess.ms # 0 /\ srvSess.cipher \in {NoSuite, srv.newCipher}

(* A server that requires a client certificate, by its verify mode or      *)
(* because the suite is an SM2DHE one, finishes only with a client whose   *)
(* certificate verified, directly or in the session that is resumed.       *)
ClientAuthenticated ==
  srv.flow = "FINISHED"
    /\ (srvCfg.verify = "require" \/ srv.newCipher \in MutualSuites)
    => srvSess.peer = "good"

(* A session becomes resumable, in the cache or as a ticket, only after    *)
(* the client's Finished was verified or the session was itself resumed.   *)
ResumableOnlyAfterFinished ==
  [][ (srvCache' \ srvCache # {} \/ srv'.hand = "SW_SESSION_TICKET")
        => srv.finOk \/ srv.hit ]_vars

=============================================================================
