---------------------------- MODULE NtlsMsgFlow ----------------------------
(***************************************************************************)
(* The message flow machine of ntls_statem.c with its reading and writing  *)
(* sub state machines, run by a client and a server over sockets that may  *)
(* block at every byte. Any BIO operation may return early (NBIO): control *)
(* goes back to the application, which waits for what SSL_get_error asks   *)
(* for and calls SSL_do_handshake again; the machine must then resume      *)
(* where it left off.                                                      *)
(*                                                                         *)
(* Bytes are counted in units. A handshake message is HeaderUnits units of *)
(* header and BodyUnits units of body, a ChangeCipherSpec is one unit.     *)
(* (Definitions named Mut... are for mutation runs only.)                  *)
(***************************************************************************)
EXTENDS Naturals, Sequences, Functions, SequencesExt

CONSTANTS
  HeaderUnits,   \* bound: the units of a message header
  BodyUnits,     \* bound: the units of a message body
  BufferUnits,   \* bound: what the buffering BIO holds before it must write
  SocketUnits,   \* bound: what is in transit before a write blocks
  Kinds          \* the kinds of handshake

ASSUME MsgFlowAssumption ==
  /\ {HeaderUnits, BodyUnits, BufferUnits, SocketUnits} \subseteq Nat \ {0}
  /\ Kinds \subseteq {"full", "mutual", "resumed"}

VARIABLES
  exchange,   \* the messages of this handshake, with their sender
  at,         \* statem.hand_state: how far in the exchange an endpoint is
  flow,       \* statem.state
  sub,        \* statem.read_state or statem.write_state
  work,       \* statem.read_state_work
  want,       \* s->rwstate, and "RUNNING" inside SSL_do_handshake
  initNum,    \* s->init_num
  wnum,       \* s->rlayer.wnum
  bbio,       \* s->bbio: units written and not yet flushed
  net,        \* units on their way to an endpoint
  keys,       \* which directions an endpoint has switched to the new keys
  digest,     \* s3.handshake_buffer or handshake_dgst: the messages hashed
  log         \* history: what else an endpoint has done for which message

machine == <<at, flow, sub, work, want, initNum, wnum, keys, digest, log>>
vars == <<exchange, machine, bbio, net>>

Ends == { "client", "server" }
Peer(e) == IF e = "client" THEN "server" ELSE "client"

-----------------------------------------------------------------------------
(* The exchanges the two transition tables produce.                        *)

FromClient(msg) == [ from |-> "client", msg |-> msg ]
FromServer(msg) == [ from |-> "server", msg |-> msg ]

FullExchange ==
  << FromClient("CLIENT_HELLO"), FromServer("SERVER_HELLO"),
     FromServer("CERTIFICATE"), FromServer("SERVER_KEY_EXCHANGE"),
     FromServer("SERVER_DONE"), FromClient("CLIENT_KEY_EXCHANGE"),
     FromClient("CHANGE_CIPHER_SPEC"), FromClient("FINISHED"),
     FromServer("NEWSESSION_TICKET"), FromServer("CHANGE_CIPHER_SPEC"),
     FromServer("FINISHED") >>

MutualExchange ==
  << FromClient("CLIENT_HELLO"), FromServer("SERVER_HELLO"),
     FromServer("CERTIFICATE"), FromServer("SERVER_KEY_EXCHANGE"),
     FromServer("CERTIFICATE_REQUEST"), FromServer("SERVER_DONE"),
     FromClient("CERTIFICATE"), FromClient("CLIENT_KEY_EXCHANGE"),
     FromClient("CERTIFICATE_VERIFY"), FromClient("CHANGE_CIPHER_SPEC"),
     FromClient("FINISHED"), FromServer("NEWSESSION_TICKET"),
     FromServer("CHANGE_CIPHER_SPEC"), FromServer("FINISHED") >>

ResumedExchange ==
  << FromClient("CLIENT_HELLO"), FromServer("SERVER_HELLO"),
     FromServer("CHANGE_CIPHER_SPEC"), FromServer("FINISHED"),
     FromClient("CHANGE_CIPHER_SPEC"), FromClient("FINISHED") >>

Exchange(kind) ==
  CASE kind = "full"    -> FullExchange
    [] kind = "mutual"  -> MutualExchange
    [] kind = "resumed" -> ResumedExchange

(* The hand state: before the first message, at one, or TLS_ST_OK.         *)
Ok == Len(exchange) + 1
Current(e) == exchange[at[e]].msg
WritesNext(e) == at[e] + 1 = Ok \/ exchange[at[e] + 1].from = e

MessageUnits(msg) ==
  IF msg = "CHANGE_CIPHER_SPEC" THEN 1 ELSE HeaderUnits + BodyUnits

\* Mutant: the server does not flush its first flight.
MutFlushes(msg) == msg \in {"CLIENT_HELLO", "FINISHED"}

(* ossl_statem_*_post_work_ntls: after which messages the BIO is flushed.  *)
Flushes(msg) == msg \in {"CLIENT_HELLO", "SERVER_DONE", "FINISHED"}

(* ossl_statem_*_process_message_ntls: what the handler of a message asks  *)
(* for next: MSG_PROCESS_FINISHED_READING, _CONTINUE_PROCESSING or         *)
(* _CONTINUE_READING.                                                      *)
ProcessReturn(e, msg) ==
  CASE msg \in {"SERVER_DONE", "FINISHED"} -> "FINISHED_READING"
    [] e = "server" /\ msg \in {"CLIENT_HELLO", "CLIENT_KEY_EXCHANGE"}
         -> "CONTINUE_PROCESSING"
    [] e = "client" /\ msg \in {"CERTIFICATE", "CERTIFICATE_REQUEST"}
         -> "CONTINUE_PROCESSING"
    [] OTHER -> "CONTINUE_READING"

-----------------------------------------------------------------------------
MsgFlowTypeOK ==
  /\ exchange \in { Exchange(k) : k \in Kinds }
  /\ at \in [Ends -> 0..Ok]
  /\ flow \in [Ends -> {"UNINITED", "READING", "WRITING", "FINISHED"}]
  /\ sub \in [Ends -> {"TRANSITION", "PRE_WORK", "SEND", "POST_WORK",
                       "HEADER", "BODY", "POST_PROCESS"}]
  /\ work \in [Ends -> {"A", "B"}]
  /\ want \in [Ends -> {"RUNNING", "NOTHING", "READING", "WRITING", "LOOKUP"}]
  /\ initNum \in [Ends -> 0..(HeaderUnits + BodyUnits)]
  /\ wnum \in [Ends -> 0..(HeaderUnits + BodyUnits)]
  /\ \A e \in Ends : Len(bbio[e]) <= BufferUnits /\ Len(net[e]) <= SocketUnits
  /\ keys \in [Ends -> SUBSET {"read", "write"}]

Init ==
  /\ exchange \in { Exchange(k) : k \in Kinds }
  /\ at = [e \in Ends |-> 0]
  /\ flow = [e \in Ends |-> "UNINITED"]
  /\ sub = [e \in Ends |-> "TRANSITION"]
  /\ work = [e \in Ends |-> "A"]
  /\ want = [e \in Ends |-> "NOTHING"]
  /\ initNum = [e \in Ends |-> 0]
  /\ wnum = [e \in Ends |-> 0]
  /\ bbio = [e \in Ends |-> << >>]
  /\ net = [e \in Ends |-> << >>]
  /\ keys = [e \in Ends |-> {}]
  /\ digest = [e \in Ends |-> << >>]
  /\ log = [e \in Ends |-> << >>]

(* Updates of one endpoint.                                                *)
Set(v, e, x) == [v EXCEPT ![e] = x]
Logged(e, what) == log' = Set(log, e, Append(log[e], <<what, at[e]>>))
Hashed(e) == digest' = Set(digest, e, Append(digest[e], at[e]))

In(e, f, s) == want[e] = "RUNNING" /\ flow[e] = f /\ sub[e] = s

SocketFull(e) == Len(net[Peer(e)]) = SocketUnits

-----------------------------------------------------------------------------
(* The application calls SSL_do_handshake: the first time, and whenever    *)
(* what SSL_get_error named has come about. state_machine_ntls starts the  *)
(* machine if it is new and otherwise goes on in its loop.                 *)
Ready(e) ==
  CASE want[e] = "NOTHING" -> flow[e] = "UNINITED"
    [] want[e] = "READING" -> net[e] # << >>
    [] want[e] = "WRITING" -> ~SocketFull(e)
    [] want[e] = "LOOKUP" -> TRUE
    [] OTHER -> FALSE

Call(e) ==
  /\ Ready(e)
  /\ want' = Set(want, e, "RUNNING")
  /\ IF flow[e] = "UNINITED"
       THEN /\ flow' = Set(flow, e, "WRITING")
            /\ sub' = Set(sub, e, "TRANSITION")
            /\ initNum' = Set(initNum, e, 0)
       ELSE UNCHANGED <<flow, sub, initNum>>
  /\ UNCHANGED <<exchange, at, work, wnum, bbio, net, keys, digest, log>>

(* NBIO: the sub state machine returns SUB_STATE_ERROR with its state kept *)
(* and control is back with the application.                               *)
Return(e, w) ==
  /\ want' = Set(want, e, w)
  /\ UNCHANGED <<exchange, at, flow, sub, initNum, wnum, bbio, net, keys,
                 digest>>

-----------------------------------------------------------------------------
(* write_state_machine_ntls                                                *)

(* WRITE_STATE_TRANSITION: to the next message to write, to TLS_ST_OK, or  *)
(* (WRITE_TRAN_FINISHED) to reading.                                       *)
WriteTransition(e) ==
  /\ In(e, "WRITING", "TRANSITION")
  /\ IF WritesNext(e)
       THEN /\ at' = Set(at, e, at[e] + 1)
            /\ sub' = Set(sub, e, "PRE_WORK")
            /\ UNCHANGED flow
       ELSE /\ flow' = Set(flow, e, "READING")
            /\ sub' = Set(sub, e, "HEADER")
            /\ UNCHANGED at
  /\ UNCHANGED <<exchange, work, want, initNum, wnum, bbio, net, keys,
                 digest, log>>

(* WRITE_STATE_PRE_WORK in TLS_ST_OK: tls_finish_handshake_ntls frees the  *)
(* buffering BIO, with whatever it still holds.                            *)
FinishHandshake(e) ==
  /\ In(e, "WRITING", "PRE_WORK")
  /\ at[e] = Ok
  /\ flow' = Set(flow, e, "FINISHED")
  /\ want' = Set(want, e, "NOTHING")
  /\ initNum' = Set(initNum, e, 0)
  /\ bbio' = Set(bbio, e, << >>)
  /\ UNCHANGED <<exchange, at, sub, work, wnum, net, keys, digest, log>>

(* WRITE_STATE_PRE_WORK otherwise: WRITE_STATE_SEND is entered before the  *)
(* message is constructed in init_buf.                                     *)
Construct(e) ==
  /\ In(e, "WRITING", "PRE_WORK")
  /\ at[e] # Ok
  /\ sub' = Set(sub, e, "SEND")
  /\ initNum' = Set(initNum, e, MessageUnits(Current(e)))
  /\ Logged(e, "constructed")
  /\ UNCHANGED <<exchange, at, flow, work, want, wnum, bbio, net, keys,
                 digest>>

(* WRITE_STATE_SEND, ssl3_write_bytes: one more unit goes into the buffer, *)
(* wnum remembers how many did. After the last one ssl3_do_write_ntls      *)
(* digests the message, unless it is a ChangeCipherSpec.                   *)
Unit(e) ==
  [ msg |-> at[e], part |-> wnum[e] + 1, key |-> "write" \in keys[e] ]

\* Mutant: the buffer is taken to have room.
MutWrite(e) ==
  /\ In(e, "WRITING", "SEND")
  /\ bbio' = Set(bbio, e, Append(bbio[e], Unit(e)))
  /\ IF wnum[e] + 1 = initNum[e]
       THEN wnum' = Set(wnum, e, 0) /\ sub' = Set(sub, e, "POST_WORK")
       ELSE wnum' = Set(wnum, e, wnum[e] + 1) /\ UNCHANGED sub
  /\ UNCHANGED <<exchange, at, flow, work, want, initNum, net, keys, digest,
                 log>>

Write(e) ==
  /\ In(e, "WRITING", "SEND")
  /\ Len(bbio[e]) < BufferUnits
  /\ bbio' = Set(bbio, e, Append(bbio[e], Unit(e)))
  /\ IF wnum[e] + 1 = initNum[e]
       THEN /\ wnum' = Set(wnum, e, 0)
            /\ sub' = Set(sub, e, "POST_WORK")
            /\ IF Current(e) = "CHANGE_CIPHER_SPEC" THEN UNCHANGED digest
               ELSE Hashed(e)
       ELSE /\ wnum' = Set(wnum, e, wnum[e] + 1)
            /\ UNCHANGED <<sub, digest>>
  /\ UNCHANGED <<exchange, at, flow, work, want, initNum, net, keys, log>>

(* The buffering BIO writes to the socket: when it is full, and when it is *)
(* flushed. A socket that takes no more sends control back.                *)
MustDrain(e) ==
  /\ flow[e] = "WRITING"
  /\ \/ sub[e] = "SEND" /\ Len(bbio[e]) = BufferUnits
     \/ sub[e] = "POST_WORK" /\ Flushes(Current(e)) /\ bbio[e] # << >>

Drain(e) ==
  /\ want[e] = "RUNNING"
  /\ MustDrain(e)
  /\ ~SocketFull(e)
  /\ net' = Set(net, Peer(e), Append(net[Peer(e)], Head(bbio[e])))
  /\ bbio' = Set(bbio, e, Tail(bbio[e]))
  /\ UNCHANGED <<exchange, machine>>

\* Mutant: a write that blocks goes back to WRITE_STATE_PRE_WORK.
MutWriteBlocks(e) ==
  /\ want[e] = "RUNNING"
  /\ MustDrain(e)
  /\ SocketFull(e)
  /\ want' = Set(want, e, "WRITING")
  /\ sub' = Set(sub, e, "PRE_WORK")
  /\ UNCHANGED <<exchange, at, flow, work, initNum, wnum, bbio, net, keys,
                 digest, log>>

WriteBlocks(e) ==
  /\ want[e] = "RUNNING"
  /\ MustDrain(e)
  /\ SocketFull(e)
  /\ Return(e, "WRITING")
  /\ UNCHANGED <<work, log>>

\* Mutant: init_num is not reset.
MutPostWork(e) ==
  /\ In(e, "WRITING", "POST_WORK")
  /\ ~MustDrain(e)
  /\ sub' = Set(sub, e, "TRANSITION")
  /\ keys' = IF Current(e) = "CHANGE_CIPHER_SPEC"
               THEN Set(keys, e, keys[e] \cup {"write"}) ELSE keys
  /\ UNCHANGED <<exchange, at, flow, work, want, initNum, wnum, bbio, net,
                 digest, log>>

(* WRITE_STATE_POST_WORK, the flush (if any) is complete: after a          *)
(* ChangeCipherSpec change_cipher_state installs the write keys.           *)
PostWork(e) ==
  /\ In(e, "WRITING", "POST_WORK")
  /\ ~MustDrain(e)
  /\ initNum' = Set(initNum, e, 0)
  /\ sub' = Set(sub, e, "TRANSITION")
  /\ keys' = IF Current(e) = "CHANGE_CIPHER_SPEC"
               THEN Set(keys, e, keys[e] \cup {"write"}) ELSE keys
  /\ UNCHANGED <<exchange, at, flow, work, want, wnum, bbio, net, digest, log>>

-----------------------------------------------------------------------------
(* read_state_machine_ntls                                                 *)

(* READ_STATE_HEADER: tls_get_message_header_ntls takes units until the    *)
(* header is complete (a ChangeCipherSpec is complete at once), then the   *)
(* read transition moves the hand state and init_num starts over.          *)
HeaderComplete(e) ==
  exchange[Head(net[e]).msg].msg = "CHANGE_CIPHER_SPEC"
    \/ initNum[e] + 1 = HeaderUnits

ReadHeader(e) ==
  /\ In(e, "READING", "HEADER")
  /\ net[e] # << >>
  /\ net' = Set(net, e, Tail(net[e]))
  /\ IF HeaderComplete(e)
       THEN /\ at' = Set(at, e, at[e] + 1)
            /\ sub' = Set(sub, e, "BODY")
            /\ initNum' = Set(initNum, e, 0)
       ELSE /\ initNum' = Set(initNum, e, initNum[e] + 1)
            /\ UNCHANGED <<at, sub>>
  /\ UNCHANGED <<exchange, flow, work, want, wnum, bbio, keys, digest, log>>

\* Mutant: off by one.
MutBodyMissing(e) ==
  Current(e) # "CHANGE_CIPHER_SPEC" /\ initNum[e] < BodyUnits - 1

(* READ_STATE_BODY: tls_get_message_body_ntls takes the rest.              *)
BodyMissing(e) ==
  Current(e) # "CHANGE_CIPHER_SPEC" /\ initNum[e] < BodyUnits

ReadBody(e) ==
  /\ In(e, "READING", "BODY")
  /\ BodyMissing(e)
  /\ net[e] # << >>
  /\ net' = Set(net, e, Tail(net[e]))
  /\ initNum' = Set(initNum, e, initNum[e] + 1)
  /\ UNCHANGED <<exchange, at, flow, sub, work, want, wnum, bbio, keys,
                 digest, log>>

ReadBlocks(e) ==
  /\ In(e, "READING", "HEADER") \/ (In(e, "READING", "BODY") /\ BodyMissing(e))
  /\ net[e] = << >>
  /\ Return(e, "READING")
  /\ UNCHANGED <<work, log>>

(* What MSG_PROCESS_FINISHED_READING, _CONTINUE_PROCESSING and             *)
(* _CONTINUE_READING make of the machine.                                  *)
AfterProcessing(e, r) ==
  /\ flow' = Set(flow, e, IF r = "FINISHED_READING" THEN "WRITING"
                          ELSE "READING")
  /\ sub' = Set(sub, e, CASE r = "FINISHED_READING" -> "TRANSITION"
                           [] r = "CONTINUE_PROCESSING" -> "POST_PROCESS"
                           [] OTHER -> "HEADER")
  /\ work' = Set(work, e, "A")

\* Mutant: a ChangeCipherSpec is digested, too.
MutProcessMessage(e) ==
  /\ In(e, "READING", "BODY")
  /\ ~BodyMissing(e)
  /\ initNum' = Set(initNum, e, 0)
  /\ keys' = IF Current(e) = "CHANGE_CIPHER_SPEC"
               THEN Set(keys, e, keys[e] \cup {"read"}) ELSE keys
  /\ Hashed(e)
  /\ Logged(e, "processed")
  /\ AfterProcessing(e, ProcessReturn(e, Current(e)))
  /\ UNCHANGED <<exchange, at, want, wnum, bbio, net>>

(* The message is complete: it is digested (ChangeCipherSpec is not) and   *)
(* processed, and init_num is reset. A ChangeCipherSpec installs the read  *)
(* keys.                                                                   *)
ProcessMessage(e) ==
  /\ In(e, "READING", "BODY")
  /\ ~BodyMissing(e)
  /\ initNum' = Set(initNum, e, 0)
  /\ IF Current(e) = "CHANGE_CIPHER_SPEC"
       THEN keys' = Set(keys, e, keys[e] \cup {"read"}) /\ UNCHANGED digest
       ELSE Hashed(e) /\ UNCHANGED keys
  /\ Logged(e, "processed")
  /\ AfterProcessing(e, ProcessReturn(e, Current(e)))
  /\ UNCHANGED <<exchange, at, want, wnum, bbio, net>>

(* READ_STATE_POST_PROCESS. The ClientHello and the CertificateRequest are *)
(* processed in two stages, WORK_MORE_A and WORK_MORE_B; a callback of the *)
(* application (client_hello_cb, cert_cb, client_cert_cb, the verify       *)
(* callback) may ask for a retry in either. For the ClientHello stage A    *)
(* (tls_early_post_process_client_hello_ntls) must not be done again.      *)
TwoStages(msg) == msg \in {"CLIENT_HELLO", "CERTIFICATE_REQUEST"}
MayRetry(msg) == TwoStages(msg) \/ msg = "CERTIFICATE"

LeaveStageA(e) == IF work[e] = "A" THEN Logged(e, "stage_A") ELSE UNCHANGED log

PostProcessRetry(e) ==
  /\ In(e, "READING", "POST_PROCESS")
  /\ MayRetry(Current(e))
  /\ \/ UNCHANGED <<work, log>>
     \/ TwoStages(Current(e)) /\ work' = Set(work, e, "B") /\ LeaveStageA(e)
  /\ Return(e, "LOOKUP")

(* tls_post_process_client_hello_ntls ends with WORK_FINISHED_STOP, the    *)
(* others with WORK_FINISHED_CONTINUE.                                     *)
PostProcess(e) ==
  /\ In(e, "READING", "POST_PROCESS")
  /\ IF Current(e) = "CLIENT_HELLO"
       THEN /\ flow' = Set(flow, e, "WRITING")
            /\ sub' = Set(sub, e, "TRANSITION")
       ELSE /\ sub' = Set(sub, e, "HEADER")
            /\ UNCHANGED flow
  /\ LeaveStageA(e)
  /\ UNCHANGED <<exchange, at, work, want, initNum, wnum, bbio, net, keys,
                 digest>>

-----------------------------------------------------------------------------
Step(e) ==
  \/ Call(e) \/ WriteTransition(e) \/ FinishHandshake(e) \/ Construct(e)
  \/ Write(e) \/ Drain(e) \/ WriteBlocks(e) \/ PostWork(e)
  \/ ReadHeader(e) \/ ReadBody(e) \/ ReadBlocks(e) \/ ProcessMessage(e)
  \/ PostProcess(e)

Done == (\A e \in Ends : flow[e] = "FINISHED") /\ UNCHANGED vars

Next == (\E e \in Ends : Step(e) \/ PostProcessRetry(e)) \/ Done

(* An endpoint that can go on does so, and its application calls again     *)
(* when the socket is ready; callbacks do not ask for retries for ever.    *)
Fairness == \A e \in Ends : WF_vars(Step(e)) /\ SF_vars(PostProcess(e))

Spec == Init /\ [][Next]_vars /\ Fairness

-----------------------------------------------------------------------------
(* The machine's variables keep their types and the buffers their bounds.  *)
TypeOK == MsgFlowTypeOK

(* However often the calls return early, no message is constructed,        *)
(* digested, processed or passed through the first stage of its post       *)
(* processing twice (the order of write_state assignments in               *)
(* write_state_machine_ntls, read_state_work in read_state_machine_ntls).  *)
EachStepOnce ==
  \A e \in Ends : IsInjective(log[e]) /\ IsInjective(digest[e])

(* The two running digests never disagree on the order of the messages.    *)
DigestsAgree ==
  \/ IsPrefix(digest["client"], digest["server"])
  \/ IsPrefix(digest["server"], digest["client"])

(* What an endpoint finds in the stream is what it is about to read: the   *)
(* next unit of the message its init_num is in, sealed under the keys it   *)
(* reads with. So no call ever sees a ChangeCipherSpec in the middle of a  *)
(* message, or a record it cannot open.                                    *)
StreamFits ==
  \A e \in Ends :
    flow[e] = "READING" /\ net[e] # << >> =>
      LET u == Head(net[e])
      IN /\ u.key = ("read" \in keys[e])
              \/ (sub[e] = "BODY" /\ Current(e) = "CHANGE_CIPHER_SPEC")
         /\ CASE sub[e] = "HEADER" ->
                   u.msg = at[e] + 1 /\ u.part = initNum[e] + 1
              [] sub[e] = "BODY" /\ BodyMissing(e) ->
                   u.msg = at[e] /\ u.part = HeaderUnits + initNum[e] + 1
              [] OTHER -> u.msg = at[e] + 1 /\ u.part = 1

(* Nothing written is left in the buffering BIO when the machine turns to  *)
(* reading, or when tls_finish_handshake_ntls frees it.                    *)
FlushedBeforeWaiting ==
  \A e \in Ends :
    flow[e] \in {"READING", "FINISHED"} \/ at[e] = Ok => bbio[e] = << >>

(* The non-blocking machine implements the exchange of whole messages that *)
(* the models of the client and the server are built on: each message is   *)
(* sent and processed once and in turn, and an application that waits for  *)
(* what SSL_get_error names always gets to the end.                        *)
Passed(e) ==
  IF sub[e] \in {"PRE_WORK", "SEND", "BODY"} THEN at[e] - 1 ELSE at[e]

Turns ==
  INSTANCE NtlsTurns WITH
    Exchanges <- { Exchange(k) : k \in Kinds },
    passed <- [e \in Ends |-> Passed(e)],
    done <- { e \in Ends : flow[e] = "FINISHED" }

ImplementsTurns == Turns!Spec
=============================================================================
