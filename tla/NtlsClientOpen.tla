--------------------------- MODULE NtlsClientOpen ---------------------------
(***************************************************************************)
(* The NTLS client against a server that need not be this repository's: it *)
(* sends any message at any moment, in the clear or under the client's     *)
(* keys, claims any resumption and may leave. What it cannot do is sign    *)
(* for a certificate it presents without the key: a ServerKeyExchange that *)
(* verifies is one signed for that certificate.                            *)
(***************************************************************************)
EXTENDS NtlsClient

CONSTANTS
  MaxConns,         \* bound: connections in a behaviour
  MaxKeyExchanges   \* bound: key exchanges in a behaviour

ASSUME ClientOpenAssumption ==
  /\ MaxConns \in Nat \ {0}
  /\ MaxKeyExchanges \in Nat

VARIABLE conn       \* the number of the current connection

vars == <<clientVars, wireVars, conn>>

-----------------------------------------------------------------------------
(* The server takes what the client sent and answers with one message. It  *)
(* falls silent after MaxKeyExchanges handshakes.                          *)
ServerSays(m) ==
  /\ cliFresh <= MaxKeyExchanges + 1
  /\ cli.flow \in {"READING", "FINISHED"}
  /\ toClient = << >>
  /\ toClient' = <<m>>
  /\ toServer' = << >>
  /\ UNCHANGED <<clientVars, conn>>

(* What it may say. Only the values a message of its type carries vary; a  *)
(* transcript other than the client's is one that does not verify, and a   *)
(* new ticket may be empty.                                                *)
ServerSaysHello ==
  \E e \in {{}, {"ticket"}, Extensions}, s \in Suites \cup {NoSuite},
     i \in {NoSid, ServerSid(conn), cliSess.sid} :
    ServerSays([Message("SERVER_HELLO", cli.rkey) EXCEPT
                  !.ext = e, !.suite = s, !.sid = i])

ServerSaysCertificate ==
  \E c \in Chains :
    ServerSays([Message("CERTIFICATE", cli.rkey) EXCEPT !.chain = c])

ServerSaysKeyExchange ==
  \E c \in {"empty", "good", "bad"} :
    ServerSays([Message("SERVER_KEY_EXCHANGE", cli.rkey) EXCEPT !.chain = c])

ServerSaysTicket ==
  \E t \in { NoTicket,
             [ n |-> conn, key |-> 0, suite |-> cli.newCipher,
               ms |-> cliSess.ms, peer |-> "none" ] } :
    ServerSays([Message("NEWSESSION_TICKET", cli.rkey) EXCEPT !.ticket = t])

ServerSaysFinished ==
  \E n \in {0, cliSess.ms}, h \in {cliHs, << >>} :
    ServerSays([Message("FINISHED", cli.rkey) EXCEPT !.secret = n, !.hs = h])

ServerSaysOther ==
  \E t \in AlertTypes \cup {"HELLO_REQUEST", "CERTIFICATE_STATUS",
             "CERTIFICATE_REQUEST", "SERVER_DONE", "CHANGE_CIPHER_SPEC"} :
    ServerSays(Message(t, cli.rkey))

(* A record that does not open under the read keys.                        *)
ServerSaysGarbage == ServerSays(Message("FINISHED", cli.rkey + 1))

ServerSends ==
  \/ ServerSaysHello \/ ServerSaysCertificate \/ ServerSaysKeyExchange
  \/ ServerSaysTicket \/ ServerSaysFinished \/ ServerSaysOther
  \/ ServerSaysGarbage

NewConnection ==
  /\ conn < MaxConns
  /\ conn' = conn + 1
  /\ toClient' = << >>
  /\ toServer' = << >>
  /\ ClientNewConnection

(* The last connection is over, or nothing comes any more.                 *)
Done ==
  /\ conn = MaxConns
  /\ cli.flow = "ERROR" \/ cliFresh > MaxKeyExchanges + 1
  /\ UNCHANGED vars

Init == ClientInit /\ WireInit /\ conn = 1

Next ==
  \/ ClientStep /\ UNCHANGED conn
  \/ ServerSends
  \/ NewConnection
  \/ Done

Spec == Init /\ [][Next]_vars

-----------------------------------------------------------------------------
(* Whatever the server sends, the client's state keeps its type.           *)
TypeOK ==
  /\ ClientTypeOK
  /\ WireTypeOK
  /\ conn \in 1..MaxConns

(* No order of messages gets the client to report a finished handshake     *)
(* unless, since the last change of the read keys, a Finished over the     *)
(* whole transcript was verified, its own was sent, and, in a handshake    *)
(* that is not a resumption, the ServerKeyExchange was signed for the      *)
(* certificate the session names (read and write transitions of            *)
(* ntls_statem_clnt.c).                                                    *)
FinishedMeansVerified ==
  cli.flow = "FINISHED" =>
    /\ cli.finOk
    /\ cli.finSent
    /\ cli.hit \/ cli.skeOk

(* ... and then both directions run under the session's master secret and  *)
(* the session names the cipher that was negotiated.                       *)
FinishedMeansProtected ==
  cli.flow = "FINISHED" =>
    /\ cliSess.ms # 0
    /\ cli.rkey = cliSess.ms
    /\ cli.wkey = cliSess.ms
    /\ cliSess.cipher = cli.newCipher

(* The write transition table has an answer for every hand state in which  *)
(* the client turns to writing, and the CertificateVerify always finds the *)
(* handshake buffer it signs.                                              *)
NoWriteError ==
  cli.flow = "WRITING" =>
    /\ ClientWriteTransition # "ERROR"
    /\ ClientWriteTransition = "CW_CERT_VRFY" => cli.buffer

(* A client that verifies finishes only with a server whose certificate    *)
(* pair verified, in this handshake or in the one that it resumes.         *)
ServerAuthenticated ==
  cli.flow = "FINISHED" /\ cliCfg.verify => cliSess.peer = "good"
=============================================================================
