----------------------------- MODULE NtlsTurns -----------------------------
(***************************************************************************)
(* What the message flow machine promises to the handshake above it: two   *)
(* endpoints walk through one exchange of messages, each message is sent   *)
(* whole by one of them and processed once, in order, by the other, and    *)
(* both get to the end. NtlsClient and NtlsServer take their steps at this *)
(* grain; NtlsMsgFlow shows that the non-blocking machine provides it.     *)
(***************************************************************************)
EXTENDS Naturals, Sequences

CONSTANTS
  Ends,         \* the two endpoints
  Exchanges     \* the exchanges: sequences of messages with their sender

VARIABLES
  exchange,     \* the exchange of this connection
  passed,       \* how many of its messages an endpoint has sent or processed
  done          \* the endpoints whose handshake is over

vars == <<exchange, passed, done>>

(* The endpoint e comes to its next message.                               *)
NextIs(e, sending) ==
  /\ passed[e] < Len(exchange)
  /\ (exchange[passed[e] + 1].from = e) = sending

Pass(e) == passed' = [passed EXCEPT ![e] = @ + 1]

Send(e) ==
  /\ NextIs(e, TRUE)
  /\ Pass(e)
  /\ UNCHANGED <<exchange, done>>

(* A message is processed only once its sender is past it.                 *)
Process(e) ==
  /\ NextIs(e, FALSE)
  /\ passed[exchange[passed[e] + 1].from] > passed[e]
  /\ Pass(e)
  /\ UNCHANGED <<exchange, done>>

Finish(e) ==
  /\ e \notin done
  /\ passed[e] = Len(exchange)
  /\ done' = done \cup {e}
  /\ UNCHANGED <<exchange, passed>>

Init ==
  /\ exchange \in Exchanges
  /\ passed = [e \in Ends |-> 0]
  /\ done = {}

Next == \E e \in Ends : Send(e) \/ Process(e) \/ Finish(e)

Spec == Init /\ [][Next]_vars /\ WF_vars(Next)
=============================================================================
