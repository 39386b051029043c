--------------------------- MODULE NtlsPeerChain ---------------------------
(***************************************************************************)
(* How an endpoint checks the dual certificates of its peer. The           *)
(* Certificate message brings the signing certificate, the encryption      *)
(* certificate and any further ones; each of the first two is verified as  *)
(* a leaf, by rotating the stack of certificates before each call of       *)
(* ssl_verify_cert_chain and back. On the client the verify callback may   *)
(* ask for a retry, and tls_post_process_server_certificate_ntls is then   *)
(* called again from its start. (Definitions named Mut... are for mutation *)
(* runs only.)                                                             *)
(***************************************************************************)
EXTENDS Naturals, Sequences, SequencesExt

CONSTANTS
  MaxChain,     \* bound: certificates in a message
  MaxRetries    \* bound: retries the verify callback asks for

ASSUME PeerChainAssumption == MaxChain \in Nat /\ MaxRetries \in Nat

VARIABLES
  side,       \* which endpoint checks
  verify,     \* client: verify_mode # SSL_VERIFY_NONE;
              \* server: a certificate is required (mode, or an SM2DHE suite)
  sent,       \* the certificates of the message, in order
  sk,         \* the stack of certificates: peer_chain on the client
  pc,         \* what comes next: the first or second check, or the outcome
  leaves,     \* history: the leaves that verified in the last attempt
  retries,    \* history: retries asked for in either check
  peer,       \* s->session->peer
  chain       \* s->session->peer_chain when all is done

vars == <<side, verify, sent, sk, pc, leaves, retries, peer, chain>>

(* Certificate 1 is the signing one, 2 the encryption one, 0 is none.      *)
Lists == { [ i \in 1..n |-> i ] : n \in 0..MaxChain }

Init ==
  /\ side \in {"client", "server"}
  /\ verify \in BOOLEAN
  /\ sent \in Lists
  /\ sk = << >>
  /\ pc = "receive"
  /\ leaves = {}
  /\ retries = [first |-> 0, second |-> 0]
  /\ peer = 0
  /\ chain = << >>

-----------------------------------------------------------------------------
(* tls_process_server_certificate_ntls and                                 *)
(* tls_process_client_certificate_ntls up to the checks. The client does   *)
(* not take an empty list, and fewer than two certificates only without    *)
(* verification, without looking at them. The server takes an empty list   *)
(* where no certificate is required, and no list of one.                   *)
Receive ==
  /\ pc = "receive"
  /\ sk' = sent
  /\ pc' = CASE Len(sent) >= 2 -> "first"
             [] side = "client" /\ Len(sent) = 1 /\ ~verify -> "done"
             [] side = "server" /\ Len(sent) = 0 /\ ~verify -> "done"
             [] OTHER -> "error"
  /\ chain' = IF pc' = "done" THEN sent ELSE chain
  /\ UNCHANGED <<side, verify, sent, leaves, retries, peer>>

\* Mutant: the second certificate is never brought to the front.
MutRotated == sk

\* Mutant: push(shift) for j = 1 as well.
MutRotatedBack == Append(Tail(sk), Head(sk))

(* j = 0: sk_X509_push(sk, sk_X509_shift(sk)); j = 1:                      *)
(* sk_X509_unshift(sk, sk_X509_pop(sk)).                                   *)
Rotated == Append(Tail(sk), Head(sk))
RotatedBack == <<Last(sk)>> \o Front(sk)

Checked == IF pc = "first" THEN Rotated ELSE RotatedBack

(* ssl_verify_cert_chain succeeds for the leaf, or fails but the client    *)
(* does not care.                                                          *)
CheckPasses ==
  /\ pc \in {"first", "second"}
  /\ sk' = Checked
  /\ \/ leaves' = (IF pc = "first" THEN {} ELSE leaves) \cup {Head(Checked)}
     \/ side = "client" /\ ~verify /\ leaves' = IF pc = "first" THEN {} ELSE leaves
  /\ pc' = IF pc = "first" THEN "second" ELSE "accept"
  /\ UNCHANGED <<side, verify, sent, retries, peer, chain>>

(* It fails: fatal on the server, and on a client that verifies.           *)
CheckFails ==
  /\ pc \in {"first", "second"}
  /\ side = "server" \/ verify
  /\ sk' = Checked
  /\ pc' = "error"
  /\ UNCHANGED <<side, verify, sent, leaves, retries, peer, chain>>

(* The client's verify callback asks for a retry (SSL_set_retry_verify):   *)
(* WORK_MORE_A, and the next call starts with j = 0 on the stack as it is. *)
CheckRetries ==
  /\ pc \in {"first", "second"}
  /\ side = "client"
  /\ retries.first + retries.second < MaxRetries
  /\ retries' = [retries EXCEPT ![pc] = @ + 1]
  /\ sk' = Checked
  /\ pc' = "first"
  /\ UNCHANGED <<side, verify, sent, leaves, peer, chain>>

(* After the checks the client may find no usable public key in the first  *)
(* certificate, or one that does not suit the cipher.                      *)
WrongType ==
  /\ pc = "accept"
  /\ side = "client"
  /\ pc' = "error"
  /\ UNCHANGED <<side, verify, sent, sk, leaves, retries, peer, chain>>

(* Both checks are behind us: the client keeps the whole stack, the server *)
(* takes the signing certificate off it.                                   *)
Accept ==
  /\ pc = "accept"
  /\ pc' = "done"
  /\ peer' = Head(sk)
  /\ chain' = IF side = "client" THEN sk ELSE Tail(sk)
  /\ UNCHANGED <<side, verify, sent, sk, leaves, retries>>

Done == pc \in {"done", "error"} /\ UNCHANGED vars

Next ==
  \/ Receive \/ CheckPasses \/ CheckFails \/ CheckRetries \/ WrongType
  \/ Accept \/ Done

Spec == Init /\ [][Next]_vars

-----------------------------------------------------------------------------
(* session->peer is the signing certificate, and the encryption            *)
(* certificate is where the key exchange looks for it: peer_chain[1] on    *)
(* the client (tls_construct_cke_pms_ntls), peer_chain[0] on the server    *)
(* (tls_process_client_certificate_ntls took the signing one off).         *)
OrderRestored ==
  pc = "done" /\ Len(sent) >= 2 =>
    /\ peer = 1
    /\ IF side = "client" THEN chain[2] = 2 ELSE chain[1] = 2

(* The two rotations cancel out, so the order of the message is restored,  *)
(* if no retry comes between them; one that the verify callback asks for   *)
(* in the second check does no harm, whatever the length of the list.      *)
OrderRestoredUnlessRetriedBetween == retries.first = 0 => OrderRestored

(* ... and an endpoint that verifies then accepts only if both             *)
(* certificates of the pair were verified, each as a leaf, in the same     *)
(* attempt; a server always verifies what it is given.                     *)
BothVerifiedUnlessRetriedBetween ==
  pc = "done" /\ peer # 0 /\ (verify \/ side = "server") /\ retries.first = 0
    => {1, 2} \subseteq leaves
=============================================================================
