------------------------- MODULE NtlsMsgFlowProofs -------------------------
(***************************************************************************)
(* What the message flow machine guarantees for every size of messages,    *)
(* buffer and socket: no step is taken twice, the digests agree, what is   *)
(* in the stream is what the reader expects, nothing is left unflushed,    *)
(* and the safety part of the refinement of NtlsTurns.                     *)
(***************************************************************************)
EXTENDS NtlsMsgFlow, SequenceTheorems, TLAPS

-----------------------------------------------------------------------------
(* The exchange.                                                           *)

SentBy(i, e) == i \in 1..Len(exchange) /\ exchange[i].from = e

(* Message i is the last of its flight.                                    *)
EndsFlight(i) ==
  i = Len(exchange) \/ exchange[i + 1].from # exchange[i].from

(* Where the ChangeCipherSpec of an endpoint is, in an exchange of six,    *)
(* eleven or fourteen messages.                                            *)
CcsOf(e) ==
  CASE Len(exchange) = 6  -> IF e = "client" THEN 5 ELSE 3
    [] Len(exchange) = 11 -> IF e = "client" THEN 7 ELSE 10
    [] OTHER              -> IF e = "client" THEN 10 ELSE 13

FirstCcs == IF Len(exchange) = 6 THEN CcsOf("server") ELSE CcsOf("client")
SecondCcs == IF Len(exchange) = 6 THEN CcsOf("client") ELSE CcsOf("server")

(* What the proofs use of the exchanges.                                   *)
ExchangeOK ==
  /\ Len(exchange) \in {6, 11, 14}
  /\ exchange[1].from = "client"
  /\ \A i \in 1..Len(exchange) :
       /\ exchange[i].from \in Ends
       /\ exchange[i].msg = "CHANGE_CIPHER_SPEC"
            <=> i \in {CcsOf("client"), CcsOf("server")}
       /\ Flushes(exchange[i].msg) <=> EndsFlight(i)
  /\ \A e \in Ends : SentBy(CcsOf(e), e)
  /\ \A e \in Ends, i \in 1..Len(exchange) :
       SentBy(i, Peer(e)) =>
         LET r == ProcessReturn(e, exchange[i].msg)
         IN /\ r = "FINISHED_READING" => EndsFlight(i)
            /\ r = "CONTINUE_PROCESSING" =>
                 (exchange[i].msg = "CLIENT_HELLO" <=> EndsFlight(i))
            /\ r = "CONTINUE_READING" => ~EndsFlight(i)

-----------------------------------------------------------------------------
(* The inductive invariant: types, ...                                     *)

Units == [ msg : Nat, part : Nat, key : BOOLEAN ]
Deeds == {"constructed", "processed", "stage_A"} \X Nat

ControlTypes ==
  /\ at \in [Ends -> 0..(Len(exchange) + 1)]
  /\ flow \in [Ends -> {"UNINITED", "READING", "WRITING", "FINISHED"}]
  /\ sub \in [Ends -> {"TRANSITION", "PRE_WORK", "SEND", "POST_WORK",
                       "HEADER", "BODY", "POST_PROCESS"}]
  /\ work \in [Ends -> {"A", "B"}]
  /\ want \in [Ends -> {"RUNNING", "NOTHING", "READING", "WRITING", "LOOKUP"}]
  /\ initNum \in [Ends -> 0..(HeaderUnits + BodyUnits)]
  /\ wnum \in [Ends -> 0..(HeaderUnits + BodyUnits)]
  /\ keys \in [Ends -> SUBSET {"read", "write"}]

DataTypes ==
  /\ bbio \in [Ends -> Seq(Units)] /\ net \in [Ends -> Seq(Units)]
  /\ \A e \in Ends : Len(bbio[e]) <= BufferUnits /\ Len(net[e]) <= SocketUnits
  /\ digest \in [Ends -> Seq(Nat)] /\ log \in [Ends -> Seq(Deeds)]

Types ==
  exchange \in { Exchange(k) : k \in Kinds } /\ ControlTypes /\ DataTypes

(* ... where an endpoint is in its machine, ...                            *)
FlowHasSub(e) ==
  CASE flow[e] = "UNINITED" -> sub[e] = "TRANSITION" /\ at[e] = 0
    [] flow[e] = "WRITING" ->
         sub[e] \in {"TRANSITION", "PRE_WORK", "SEND", "POST_WORK"}
    [] flow[e] = "READING" -> sub[e] \in {"HEADER", "BODY", "POST_PROCESS"}
    [] OTHER -> sub[e] = "PRE_WORK" /\ at[e] = Ok

Place(e) ==
  /\ sub[e] = "TRANSITION" => at[e] <= Len(exchange)
  /\ sub[e] = "PRE_WORK" => at[e] = Ok \/ SentBy(at[e], e)
  /\ sub[e] \in {"SEND", "POST_WORK"} => SentBy(at[e], e)
  /\ sub[e] = "HEADER" => SentBy(at[e] + 1, Peer(e))
  /\ sub[e] \in {"BODY", "POST_PROCESS"} => SentBy(at[e], Peer(e))
  /\ sub[e] = "POST_PROCESS" =>
       ProcessReturn(e, Current(e)) = "CONTINUE_PROCESSING"

Counts(e) ==
  /\ sub[e] # "SEND" => wnum[e] = 0
  /\ sub[e] \in {"TRANSITION", "PRE_WORK", "POST_PROCESS"} => initNum[e] = 0
  /\ sub[e] = "SEND" =>
       initNum[e] = MessageUnits(Current(e)) /\ wnum[e] < initNum[e]
  /\ sub[e] = "HEADER" =>
       /\ initNum[e] < HeaderUnits
       /\ exchange[at[e] + 1].msg = "CHANGE_CIPHER_SPEC" => initNum[e] = 0
  /\ sub[e] = "BODY" =>
       /\ initNum[e] <= BodyUnits
       /\ Current(e) = "CHANGE_CIPHER_SPEC" => initNum[e] = 0

(* ... what it has buffered, ...                                           *)
Buffered(e) ==
  bbio[e] # << >> =>
    /\ flow[e] = "WRITING"
    /\ SentBy(at[e], e)
    /\ sub[e] = "TRANSITION" => ~Flushes(Current(e))

(* ... which keys it uses, ...                                             *)
KeysFit(e) ==
  /\ "write" \in keys[e] <=>
       \/ CcsOf(e) < at[e]
       \/ CcsOf(e) = at[e] /\ sub[e] \notin {"PRE_WORK", "SEND", "POST_WORK"}
  /\ "read" \in keys[e] <=> CcsOf(Peer(e)) <= Passed(e)

(* ... what it has hashed: the first messages that are not                 *)
(* ChangeCipherSpec, as many as there are up to the one it passed, ...     *)
HashCount(n) ==
  IF n < FirstCcs THEN n ELSE IF n < SecondCcs THEN n - 1 ELSE n - 2

HashedAt(k) ==
  IF k < FirstCcs THEN k ELSE IF k + 1 < SecondCcs THEN k + 1 ELSE k + 2

DigestFits(e) ==
  /\ Len(digest[e]) = HashCount(Passed(e))
  /\ \A k \in 1..Len(digest[e]) : digest[e][k] = HashedAt(k)

(* ... what it has done, ...                                               *)
LogFits(e) ==
  /\ IsInjective(log[e])
  /\ \A k \in 1..Len(log[e]) :
       /\ log[e][k][2] <= at[e]
       /\ sub[e] \in {"PRE_WORK", "BODY"} => log[e][k][2] # at[e]
       /\ sub[e] = "POST_PROCESS" /\ work[e] = "A" =>
            log[e][k] # <<"stage_A", at[e]>>

(* ... and what is on its way between the two.                             *)
Way(e) == net[Peer(e)] \o bbio[e]

ReadMsg(e) ==
  IF sub[e] = "BODY" /\ ~BodyMissing(e) THEN at[e] + 1 ELSE Passed(e) + 1

ReadPart(e) ==
  CASE sub[e] = "HEADER" -> initNum[e] + 1
    [] sub[e] = "BODY" /\ BodyMissing(e) -> HeaderUnits + initNum[e] + 1
    [] OTHER -> 1

(* The parameters of the following are an exchange x, a writer e with its  *)
(* ChangeCipherSpec at c, past n messages and w units of the next, and a   *)
(* reader who expects part q of message m.                                 *)
UnitOK(x, e, c, n, u) ==
  /\ u.msg \in 1..Len(x) /\ x[u.msg].from = e
  /\ u.msg <= n + 1
  /\ u.part \in 1..MessageUnits(x[u.msg].msg)
  /\ u.key = (c < u.msg)

(* Part q of message m comes after the unit u.                             *)
Follows(x, u, m, q) ==
  IF u.part < MessageUnits(x[u.msg].msg)
    THEN m = u.msg /\ q = u.part + 1
    ELSE m = u.msg + 1 /\ q = 1

(* The units of s lead from what the reader expects to what the writer     *)
(* will write.                                                             *)
Chain(x, e, c, n, w, m, q, s) ==
  /\ \A k \in 1..Len(s) : UnitOK(x, e, c, n, s[k])
  /\ \A k \in 1..(Len(s) - 1) : Follows(x, s[k], s[k + 1].msg, s[k + 1].part)
  /\ s = << >> => m = n + 1 /\ q = w + 1
  /\ s # << >> => /\ s[1].msg = m /\ s[1].part = q
                  /\ Follows(x, s[Len(s)], n + 1, w + 1)

WayOK(e) ==
  Chain(exchange, e, CcsOf(e), Passed(e), wnum[e],
        ReadMsg(Peer(e)), ReadPart(Peer(e)), Way(e))

Turn(e) ==
  /\ Passed(Peer(e)) < Len(exchange)
  /\ Passed(Peer(e)) <= Passed(e)
  /\ exchange[Passed(Peer(e)) + 1].from = e
  /\ sub[e] # "BODY"
  /\ ReadPart(e) = 1
  /\ Way(Peer(e)) = << >>
  /\ WayOK(e)

Settled == \A e \in Ends : Passed(e) = Len(exchange) /\ Way(e) = << >>

Stream == Turn("client") \/ Turn("server") \/ Settled

LocalInv(e) ==
  /\ FlowHasSub(e) /\ Place(e) /\ Counts(e) /\ Buffered(e)
  /\ KeysFit(e) /\ DigestFits(e) /\ LogFits(e)

FlowInv ==
  /\ Types
  /\ \A e \in Ends : LocalInv(e)
  /\ Stream

-----------------------------------------------------------------------------
(* The full handshake, the one with a client certificate and the resumed   *)
(* one have the shape the proofs use.                                      *)
LEMMA FullShape ==
  ASSUME exchange = FullExchange
  PROVE  ExchangeOK
PROOF
  <1>1. /\ Len(exchange) = 11 /\ CcsOf("client") = 7 /\ CcsOf("server") = 10
    BY DEF FullExchange, CcsOf
  <1>2. /\ exchange[1] = FromClient("CLIENT_HELLO")
        /\ exchange[2] = FromServer("SERVER_HELLO")
        /\ exchange[3] = FromServer("CERTIFICATE")
        /\ exchange[4] = FromServer("SERVER_KEY_EXCHANGE")
        /\ exchange[5] = FromServer("SERVER_DONE")
        /\ exchange[6] = FromClient("CLIENT_KEY_EXCHANGE")
        /\ exchange[7] = FromClient("CHANGE_CIPHER_SPEC")
        /\ exchange[8] = FromClient("FINISHED")
        /\ exchange[9] = FromServer("NEWSESSION_TICKET")
        /\ exchange[10] = FromServer("CHANGE_CIPHER_SPEC")
        /\ exchange[11] = FromServer("FINISHED")
    BY DEF FullExchange
  <1> QED
    BY ONLY <1>1, <1>2
    DEF ExchangeOK, EndsFlight, SentBy, Ends, Peer, Flushes, ProcessReturn,
        FromClient, FromServer

(* So has the mutual one.                                                  *)
LEMMA MutualShape ==
  ASSUME exchange = MutualExchange
  PROVE  ExchangeOK
PROOF
  <1>1. /\ Len(exchange) = 14 /\ CcsOf("client") = 10 /\ CcsOf("server") = 13
    BY DEF MutualExchange, CcsOf
  <1>2. /\ exchange[1] = FromClient("CLIENT_HELLO")
        /\ exchange[2] = FromServer("SERVER_HELLO")
        /\ exchange[3] = FromServer("CERTIFICATE")
        /\ exchange[4] = FromServer("SERVER_KEY_EXCHANGE")
        /\ exchange[5] = FromServer("CERTIFICATE_REQUEST")
        /\ exchange[6] = FromServer("SERVER_DONE")
        /\ exchange[7] = FromClient("CERTIFICATE")
        /\ exchange[8] = FromClient("CLIENT_KEY_EXCHANGE")
        /\ exchange[9] = FromClient("CERTIFICATE_VERIFY")
        /\ exchange[10] = FromClient("CHANGE_CIPHER_SPEC")
        /\ exchange[11] = FromClient("FINISHED")
        /\ exchange[12] = FromServer("NEWSESSION_TICKET")
        /\ exchange[13] = FromServer("CHANGE_CIPHER_SPEC")
        /\ exchange[14] = FromServer("FINISHED")
    BY DEF MutualExchange
  <1> QED
    BY ONLY <1>1, <1>2
    DEF ExchangeOK, EndsFlight, SentBy, Ends, Peer, Flushes, ProcessReturn,
        FromClient, FromServer

(* So has the resumed one.                                                 *)
LEMMA ResumedShape ==
  ASSUME exchange = ResumedExchange
  PROVE  ExchangeOK
PROOF
  <1>1. /\ Len(exchange) = 6 /\ CcsOf("client") = 5 /\ CcsOf("server") = 3
    BY DEF ResumedExchange, CcsOf
  <1>2. /\ exchange[1] = FromClient("CLIENT_HELLO")
        /\ exchange[2] = FromServer("SERVER_HELLO")
        /\ exchange[3] = FromServer("CHANGE_CIPHER_SPEC")
        /\ exchange[4] = FromServer("FINISHED")
        /\ exchange[5] = FromClient("CHANGE_CIPHER_SPEC")
        /\ exchange[6] = FromClient("FINISHED")
    BY DEF ResumedExchange
  <1> QED
    BY ONLY <1>1, <1>2
    DEF ExchangeOK, EndsFlight, SentBy, Ends, Peer, Flushes, ProcessReturn,
        FromClient, FromServer

(* Every exchange of a handshake has it.                                   *)
LEMMA ExchangeShape ==
  ASSUME exchange \in { Exchange(k) : k \in Kinds }
  PROVE  ExchangeOK
  BY MsgFlowAssumption, FullShape, MutualShape, ResumedShape DEF Exchange

(* Both ChangeCipherSpecs are in the exchange, and in which order.         *)
LEMMA CcsPlaces ==
  ASSUME ExchangeOK
  PROVE  /\ {CcsOf("client"), CcsOf("server")} = {FirstCcs, SecondCcs}
         /\ FirstCcs \in 2..Len(exchange) /\ SecondCcs \in 2..Len(exchange)
         /\ FirstCcs + 1 < SecondCcs
         /\ \A e \in Ends : CcsOf(e) \in 2..Len(exchange)
PROOF
  <1>1. Len(exchange) = 6 \/ Len(exchange) = 11 \/ Len(exchange) = 14
    BY DEF ExchangeOK
  <1>2. CASE Len(exchange) = 6
    <2>1. CcsOf("client") = 5 /\ CcsOf("server") = 3
      BY <1>2 DEF CcsOf
    <2> QED BY ONLY <1>2, <2>1 DEF FirstCcs, SecondCcs, Ends
  <1>3. CASE Len(exchange) = 11
    <2>1. CcsOf("client") = 7 /\ CcsOf("server") = 10
      BY <1>3 DEF CcsOf
    <2> QED BY ONLY <1>3, <2>1 DEF FirstCcs, SecondCcs, Ends
  <1>4. CASE Len(exchange) = 14
    <2>1. CcsOf("client") = 10 /\ CcsOf("server") = 13
      BY <1>4 DEF CcsOf
    <2> QED BY ONLY <1>4, <2>1 DEF FirstCcs, SecondCcs, Ends
  <1> QED BY <1>1, <1>2, <1>3, <1>4

(* There are two endpoints.                                                *)
LEMMA TwoEnds ==
  ASSUME NEW e \in Ends
  PROVE  /\ Peer(e) \in Ends /\ Peer(e) # e /\ Peer(Peer(e)) = e
         /\ \A q \in Ends : q = e \/ q = Peer(e)
  BY DEF Ends, Peer

(* A unit that moves from the buffer to the socket stays in its place.     *)
LEMMA MoveAcross ==
  ASSUME NEW S, NEW s \in Seq(S), NEW t \in Seq(S), t # << >>
  PROVE  Append(s, Head(t)) \o Tail(t) = s \o t
PROOF
  <1>1. t \in Seq(S) /\ Len(t) \in Nat /\ Len(t) > 0 /\ Tail(t) \in Seq(S)
        /\ Head(t) \in S /\ Len(Tail(t)) = Len(t) - 1
    BY EmptySeq
  <1>2. Append(s, Head(t)) \in Seq(S) /\ Len(Append(s, Head(t))) = Len(s) + 1
    BY <1>1
  <1>3. /\ Append(s, Head(t)) \o Tail(t) \in Seq(S) /\ s \o t \in Seq(S)
        /\ Len(Append(s, Head(t)) \o Tail(t)) = Len(s) + Len(t)
        /\ Len(s \o t) = Len(s) + Len(t)
    BY <1>1, <1>2
  <1>4. ASSUME NEW i \in 1..(Len(s) + Len(t))
        PROVE  (Append(s, Head(t)) \o Tail(t))[i] = (s \o t)[i]
    BY <1>1, <1>2
  <1> QED BY <1>3, <1>4, SeqEqual

(* Taking the first unit of what is in the socket takes the first unit of  *)
(* all that is under way.                                                  *)
LEMMA TakeFirst ==
  ASSUME NEW S, NEW s \in Seq(S), NEW t \in Seq(S), s # << >>
  PROVE  /\ Tail(s) \o t = Tail(s \o t) /\ (s \o t)[1] = Head(s)
         /\ s \o t # << >> /\ s \o t \in Seq(S) /\ Head(s) \in S
PROOF
  <1>1. /\ Len(s) \in Nat /\ Len(s) > 0 /\ Tail(s) \in Seq(S)
        /\ Head(s) \in S /\ Len(Tail(s)) = Len(s) - 1
    BY EmptySeq
  <1>2. /\ s \o t \in Seq(S) /\ Len(s \o t) = Len(s) + Len(t)
        /\ (s \o t)[1] = Head(s)
    BY <1>1
  <1>3. /\ Tail(s) \o t \in Seq(S)
        /\ Len(Tail(s) \o t) = Len(s) + Len(t) - 1
        /\ s \o t # << >> /\ Tail(s \o t) \in Seq(S)
        /\ Len(Tail(s \o t)) = Len(s) + Len(t) - 1
    BY <1>1, <1>2
  <1>4. ASSUME NEW i \in 1..(Len(s) + Len(t) - 1)
        PROVE  (Tail(s) \o t)[i] = Tail(s \o t)[i]
    BY <1>1, <1>2, <1>3
  <1> QED BY <1>1, <1>2, <1>3, <1>4, SeqEqual

(* A unit appended to the buffer is the last of all that is under way.     *)
LEMMA AppendLast ==
  ASSUME NEW S, NEW s \in Seq(S), NEW t \in Seq(S), NEW u \in S
  PROVE  s \o Append(t, u) = Append(s \o t, u) /\ s \o t \in Seq(S)
PROOF
  <1>1. /\ s \o Append(t, u) \in Seq(S) /\ Append(s \o t, u) \in Seq(S)
        /\ Len(s \o Append(t, u)) = Len(s) + Len(t) + 1
        /\ Len(Append(s \o t, u)) = Len(s) + Len(t) + 1
    OBVIOUS
  <1>2. ASSUME NEW i \in 1..(Len(s) + Len(t) + 1)
        PROVE  (s \o Append(t, u))[i] = Append(s \o t, u)[i]
    OBVIOUS
  <1> QED BY <1>1, <1>2, SeqEqual

-----------------------------------------------------------------------------
(* How many messages an endpoint is past.                                  *)
LEMMA PassedType ==
  ASSUME FlowInv, NEW e \in Ends
  PROVE  Passed(e) \in 0..Len(exchange)
PROOF
  <1>1. at[e] \in 0..(Len(exchange) + 1) /\ Len(exchange) \in Nat
    BY ExchangeShape DEF FlowInv, Types, ControlTypes, Ok, ExchangeOK
  <1>2. FlowHasSub(e) /\ Place(e)
    BY DEF FlowInv, LocalInv
  <1>3. sub[e] \in {"TRANSITION", "PRE_WORK", "SEND", "POST_WORK",
                    "HEADER", "BODY", "POST_PROCESS"}
    BY DEF FlowInv, Types, ControlTypes
  <1> QED BY <1>1, <1>2, <1>3 DEF FlowHasSub, Place, Passed, SentBy, Ok

(* What is under way is a sequence of units.                               *)
LEMMA WayType ==
  ASSUME Types, NEW e \in Ends
  PROVE  /\ net[e] \in Seq(Units) /\ bbio[e] \in Seq(Units)
         /\ Way(e) \in Seq(Units)
  BY TwoEnds DEF Types, DataTypes, Way

(* An endpoint that finds something to read is the one whose turn it is to *)
(* read, and finds the unit it expects.                                    *)
LEMMA ReaderSees ==
  ASSUME FlowInv, NEW e \in Ends, net[e] # << >>
  PROVE  /\ Turn(Peer(e))
         /\ UnitOK(exchange, Peer(e), CcsOf(Peer(e)), Passed(Peer(e)), Head(net[e]))
         /\ Head(net[e]).msg = ReadMsg(e) /\ Head(net[e]).part = ReadPart(e)
PROOF
  <1> DEFINE p == Peer(e)
  <1>1. p \in Ends /\ Peer(p) = e /\ (e = "client" \/ e = "server")
        /\ (p = "client" \/ p = "server") /\ p # e
    BY TwoEnds DEF Ends
  <1>2. net[e] \in Seq(Units) /\ bbio[p] \in Seq(Units)
    BY <1>1, WayType DEF FlowInv
  <1>3. Way(p) = net[e] \o bbio[p]
    BY <1>1 DEF Way
  <1>4. /\ Way(p) # << >> /\ Way(p)[1] = Head(net[e]) /\ Way(p) \in Seq(Units)
    <2>1. /\ (net[e] \o bbio[p])[1] = Head(net[e])
          /\ net[e] \o bbio[p] # << >> /\ net[e] \o bbio[p] \in Seq(Units)
      BY ONLY <1>2, net[e] # << >>, TakeFirst, Zenon
    <2> QED BY ONLY <1>3, <2>1
  <1>5. ~Turn(e) /\ ~Settled
    BY <1>1, <1>4 DEF Turn, Settled
  <1>6. Turn(p)
    BY <1>1, <1>5 DEF FlowInv, Stream
  <1>7. WayOK(p)
    BY <1>6 DEF Turn
  <1>8. 1 \in 1..Len(Way(p))
    BY <1>4, EmptySeq
  <1> QED BY <1>1, <1>4, <1>6, <1>7, <1>8 DEF WayOK, Chain

(* An endpoint that is sending has the turn.                               *)
LEMMA SenderLeads ==
  ASSUME FlowInv, NEW e \in Ends, sub[e] = "SEND"
  PROVE  Turn(e)
PROOF
  <1>1. e = "client" \/ e = "server"
    BY DEF Ends
  <1>2. SentBy(at[e], e) /\ Passed(e) = at[e] - 1 /\ at[e] \in Nat
    BY DEF FlowInv, LocalInv, Place, Passed, Types, ControlTypes
  <1>3. ~Settled
    BY <1>2 DEF Settled, SentBy
  <1>4. ~Turn(Peer(e))
    BY <1>2, TwoEnds DEF Turn, SentBy
  <1> QED BY <1>1, <1>3, <1>4 DEF FlowInv, Stream, Peer

(* The peer of an endpoint that reads a body has it.                       *)
LEMMA ReaderFollows ==
  ASSUME FlowInv, NEW e \in Ends, sub[e] = "BODY"
  PROVE  Turn(Peer(e))
PROOF
  <1>1. e = "client" \/ e = "server"
    BY DEF Ends
  <1>2. SentBy(at[e], Peer(e)) /\ Passed(e) = at[e] - 1 /\ at[e] \in Nat
    BY DEF FlowInv, LocalInv, Place, Passed, Types, ControlTypes
  <1>3. ~Settled
    BY <1>2 DEF Settled, SentBy
  <1> QED BY <1>1, <1>3 DEF FlowInv, Stream, Peer, Turn

-----------------------------------------------------------------------------
(* The variables keep their types.                                         *)
LEMMA TypesStep ==
  ASSUME FlowInv, NEW e \in Ends, Step(e) \/ PostProcessRetry(e)
  PROVE  Types'
PROOF
  <1>1. ControlTypes /\ DataTypes /\ Len(exchange) \in Nat
    BY ExchangeShape DEF FlowInv, Types, ExchangeOK
  <1>2. FlowHasSub(e) /\ Place(e) /\ Counts(e)
    BY DEF FlowInv, LocalInv
  <1>3. Peer(e) \in Ends
    BY TwoEnds
  <1>a. at[e] \in 0..(Len(exchange) + 1) /\ at[e] \in Nat
    BY <1>1 DEF ControlTypes
  <1>b. <<"constructed", at[e]>> \in Deeds /\ <<"processed", at[e]>> \in Deeds
        /\ <<"stage_A", at[e]>> \in Deeds
    BY ONLY <1>a DEF Deeds
  <1>c. /\ Append(log[e], <<"constructed", at[e]>>) \in Seq(Deeds)
        /\ Append(log[e], <<"processed", at[e]>>) \in Seq(Deeds)
        /\ Append(log[e], <<"stage_A", at[e]>>) \in Seq(Deeds)
    <2>1. log[e] \in Seq(Deeds)
      BY <1>1 DEF DataTypes
    <2> QED BY ONLY <1>b, <2>1, AppendProperties, Zenon
  <1>4. exchange' = exchange
    BY DEF Step, machine, Return, Call, WriteTransition, FinishHandshake,
           Construct, Write, Drain, WriteBlocks, PostWork, ReadHeader, ReadBody,
           ReadBlocks, ProcessMessage, PostProcess, PostProcessRetry
  <1>5. CASE Call(e)
    <2>1. ControlTypes'
      <3>1. /\ want' = Set(want, e, "RUNNING") /\ UNCHANGED <<at, work, wnum, keys>>
            /\ flow' = Set(flow, e, "WRITING") \/ flow' = flow
            /\ sub' = Set(sub, e, "TRANSITION") \/ sub' = sub
            /\ initNum' = Set(initNum, e, 0) \/ initNum' = initNum
        BY <1>5 DEF Call
      <3>2. initNum' \in [Ends -> 0..(HeaderUnits + BodyUnits)]
        <4>1. /\ initNum \in [Ends -> 0..(HeaderUnits + BodyUnits)]
              /\ 0 \in 0..(HeaderUnits + BodyUnits)
          BY <1>1, MsgFlowAssumption DEF ControlTypes
        <4> QED BY ONLY <3>1, <4>1, e \in Ends DEF Set
      <3> QED BY <1>1, <1>4, <3>1, <3>2 DEF ControlTypes, Set
    <2>2. DataTypes'
      BY ONLY <1>1, <1>2, <1>3, <1>4, <1>5, e \in Ends, MsgFlowAssumption
      DEF Call, In, Set, Ok, DataTypes
    <2> QED BY <1>4, <2>1, <2>2 DEF FlowInv, Types
  <1>6. CASE WriteTransition(e)
    <2>1. ControlTypes'
      <3>1. /\ UNCHANGED <<work, want, initNum, wnum, keys>>
            /\ at' = Set(at, e, at[e] + 1) \/ at' = at
            /\ sub' = Set(sub, e, "PRE_WORK") \/ sub' = Set(sub, e, "HEADER")
            /\ flow' = flow \/ flow' = Set(flow, e, "READING")
        BY <1>6 DEF WriteTransition
      <3>2. at' \in [Ends -> 0..(Len(exchange) + 1)]
        <4>1. /\ at \in [Ends -> 0..(Len(exchange) + 1)]
              /\ at[e] + 1 \in 0..(Len(exchange) + 1)
          BY <1>1, <1>a, <1>2, <1>6 DEF ControlTypes, WriteTransition, In, Place
        <4> QED BY ONLY <3>1, <4>1, e \in Ends DEF Set
      <3> QED BY <1>1, <1>4, <3>1, <3>2 DEF ControlTypes, Set
    <2>2. DataTypes'
      BY ONLY <1>1, <1>2, <1>3, <1>4, <1>6, e \in Ends, MsgFlowAssumption
      DEF WriteTransition, In, Set, Ok, DataTypes
    <2> QED BY <1>4, <2>1, <2>2 DEF FlowInv, Types
  <1>7. CASE FinishHandshake(e)
    <2>1. ControlTypes'
      BY ONLY <1>1, <1>2, <1>3, <1>4, <1>7, e \in Ends, MsgFlowAssumption
      DEF FinishHandshake, In, Set, Ok, ControlTypes
    <2>2. DataTypes'
      <3>1. << >> \in Seq(Units) /\ Len(<< >>) = 0
        BY EmptySeq
      <3>2. bbio' = Set(bbio, e, << >>) /\ UNCHANGED <<net, digest, log>>
        BY <1>7 DEF FinishHandshake
      <3> QED BY <1>1, <3>1, <3>2, MsgFlowAssumption DEF DataTypes, Set
    <2> QED BY <1>4, <2>1, <2>2 DEF FlowInv, Types
  <1>8. CASE Construct(e)
    <2>1. ControlTypes'
      BY ONLY <1>1, <1>2, <1>3, <1>4, <1>8, e \in Ends, MsgFlowAssumption
      DEF Construct, In, Set, Ok, ControlTypes, Current, MessageUnits
    <2>2. DataTypes'
      <3>1. /\ log' = Set(log, e, Append(log[e], <<"constructed", at[e]>>))
            /\ UNCHANGED <<bbio, net, digest>>
        BY <1>8 DEF Construct, Logged
      <3>2. Append(log[e], <<"constructed", at[e]>>) \in Seq(Deeds)
        BY <1>1, <1>a, <1>c DEF DataTypes
      <3> QED BY <1>1, <3>1, <3>2 DEF DataTypes, Set
    <2> QED BY <1>4, <2>1, <2>2 DEF FlowInv, Types
  <1>9. CASE Write(e)
    <2>1. ControlTypes'
      <3>1. wnum[e] + 1 <= HeaderUnits + BodyUnits
        BY <1>1, <1>2, <1>9, MsgFlowAssumption DEF Write, In, Counts, ControlTypes
      <3>2. /\ wnum' = Set(wnum, e, 0) \/ wnum' = Set(wnum, e, wnum[e] + 1)
            /\ sub' = Set(sub, e, "POST_WORK") \/ sub' = sub
            /\ UNCHANGED <<at, flow, work, want, initNum, keys>>
        BY <1>9 DEF Write
      <3>3. 0 \in 0..(HeaderUnits + BodyUnits)
            /\ wnum[e] + 1 \in 0..(HeaderUnits + BodyUnits)
        BY <1>1, <3>1, MsgFlowAssumption DEF ControlTypes
      <3>4. wnum' \in [Ends -> 0..(HeaderUnits + BodyUnits)]
        <4>1. wnum \in [Ends -> 0..(HeaderUnits + BodyUnits)]
          BY <1>1 DEF ControlTypes
        <4> QED BY ONLY <3>2, <3>3, <4>1, e \in Ends DEF Set
      <3> QED BY <1>1, <1>4, <3>2, <3>4 DEF ControlTypes, Set
    <2>2. DataTypes'
      <3>1. Unit(e) \in Units /\ at[e] \in Nat
        BY <1>1 DEF Unit, Units, ControlTypes
      <3>2. /\ Len(bbio[e]) < BufferUnits
            /\ bbio' = Set(bbio, e, Append(bbio[e], Unit(e)))
            /\ digest' = Set(digest, e, Append(digest[e], at[e])) \/ digest' = digest
            /\ UNCHANGED <<net, log>>
        BY <1>9 DEF Write, Hashed
      <3>3. /\ Append(bbio[e], Unit(e)) \in Seq(Units)
            /\ Len(Append(bbio[e], Unit(e))) <= BufferUnits
            /\ Append(digest[e], at[e]) \in Seq(Nat)
        BY <1>1, <3>1, <3>2, MsgFlowAssumption DEF DataTypes
      <3> QED BY <1>1, <3>2, <3>3 DEF DataTypes, Set
    <2> QED BY <1>4, <2>1, <2>2 DEF FlowInv, Types
  <1>10. CASE Drain(e)
    <2>1. ControlTypes'
      BY ONLY <1>1, <1>2, <1>3, <1>4, <1>10, e \in Ends, MsgFlowAssumption
      DEF Drain, In, Set, Ok, ControlTypes, machine
    <2>2. DataTypes'
      <3>1. bbio[e] # << >> /\ Len(net[Peer(e)]) < SocketUnits
        BY <1>1, <1>3, <1>10, MsgFlowAssumption
        DEF Drain, SocketFull, MustDrain, DataTypes
      <3>2. /\ Head(bbio[e]) \in Units /\ Tail(bbio[e]) \in Seq(Units)
            /\ Len(Tail(bbio[e])) <= BufferUnits
        BY <1>1, <3>1, MsgFlowAssumption DEF DataTypes
      <3>3. /\ Append(net[Peer(e)], Head(bbio[e])) \in Seq(Units)
            /\ Len(Append(net[Peer(e)], Head(bbio[e]))) <= SocketUnits
        BY <1>1, <1>3, <3>1, <3>2, MsgFlowAssumption DEF DataTypes
      <3>4. /\ net' = Set(net, Peer(e), Append(net[Peer(e)], Head(bbio[e])))
            /\ bbio' = Set(bbio, e, Tail(bbio[e]))
            /\ UNCHANGED <<digest, log>>
        BY <1>10 DEF Drain, machine
      <3> QED BY ONLY <1>1, <1>3, <3>2, <3>3, <3>4, e \in Ends DEF DataTypes, Set
    <2> QED BY <1>4, <2>1, <2>2 DEF FlowInv, Types
  <1>11. CASE WriteBlocks(e)
    <2>1. ControlTypes'
      BY ONLY <1>1, <1>2, <1>3, <1>4, <1>11, e \in Ends, MsgFlowAssumption
      DEF WriteBlocks, In, Set, Ok, ControlTypes, Return
    <2>2. DataTypes'
      BY ONLY <1>1, <1>2, <1>3, <1>4, <1>11, e \in Ends, MsgFlowAssumption
      DEF WriteBlocks, In, Set, Ok, DataTypes, Return
    <2> QED BY <1>4, <2>1, <2>2 DEF FlowInv, Types
  <1>12. CASE PostWork(e)
    <2>1. ControlTypes'
      <3>1. keys' = Set(keys, e, keys[e] \cup {"write"}) \/ keys' = keys
        BY <1>12 DEF PostWork
      <3>2. keys' \in [Ends -> SUBSET {"read", "write"}]
        <4>1. /\ keys \in [Ends -> SUBSET {"read", "write"}]
              /\ keys[e] \cup {"write"} \in SUBSET {"read", "write"}
          BY <1>1 DEF ControlTypes
        <4> QED BY ONLY <3>1, <4>1, e \in Ends DEF Set
      <3>3. /\ initNum' = Set(initNum, e, 0) /\ sub' = Set(sub, e, "TRANSITION")
            /\ UNCHANGED <<at, flow, work, want, wnum>>
        BY <1>12 DEF PostWork
      <3> QED BY ONLY <1>1, <1>4, <3>2, <3>3, MsgFlowAssumption
          DEF ControlTypes, Set
    <2>2. DataTypes'
      BY ONLY <1>1, <1>2, <1>3, <1>4, <1>12, e \in Ends, MsgFlowAssumption
      DEF PostWork, In, Set, Ok, DataTypes
    <2> QED BY <1>4, <2>1, <2>2 DEF FlowInv, Types
  <1>13. CASE ReadHeader(e)
    <2>1. ControlTypes'
      <3>1. initNum[e] + 1 <= HeaderUnits /\ at[e] + 1 <= Len(exchange)
        BY <1>1, <1>2, <1>13, MsgFlowAssumption
        DEF ControlTypes, ReadHeader, In, Place, SentBy, Counts
      <3>2. /\ at' = Set(at, e, at[e] + 1) \/ at' = at
            /\ sub' = Set(sub, e, "BODY") \/ sub' = sub
            /\ \/ initNum' = Set(initNum, e, 0)
               \/ initNum' = Set(initNum, e, initNum[e] + 1)
            /\ UNCHANGED <<flow, work, want, wnum, keys>>
        BY <1>13 DEF ReadHeader
      <3>3. at' \in [Ends -> 0..(Len(exchange) + 1)]
        BY <1>1, <3>1, <3>2 DEF ControlTypes, Set
      <3>4. initNum' \in [Ends -> 0..(HeaderUnits + BodyUnits)]
        <4>1. /\ initNum \in [Ends -> 0..(HeaderUnits + BodyUnits)]
              /\ 0 \in 0..(HeaderUnits + BodyUnits)
              /\ initNum[e] + 1 \in 0..(HeaderUnits + BodyUnits)
          BY <1>1, <3>1, MsgFlowAssumption DEF ControlTypes
        <4> QED BY ONLY <3>2, <4>1, e \in Ends DEF Set
      <3> QED BY <1>1, <1>4, <3>2, <3>3, <3>4 DEF ControlTypes, Set
    <2>2. DataTypes'
      <3>1. /\ net[e] # << >> /\ net' = Set(net, e, Tail(net[e]))
            /\ UNCHANGED <<bbio, digest, log>>
        BY <1>13 DEF ReadHeader
      <3>2. Tail(net[e]) \in Seq(Units) /\ Len(Tail(net[e])) <= SocketUnits
        BY <1>1, <3>1, MsgFlowAssumption DEF DataTypes
      <3> QED BY <1>1, <3>1, <3>2 DEF DataTypes, Set
    <2> QED BY <1>4, <2>1, <2>2 DEF FlowInv, Types
  <1>14. CASE ReadBody(e)
    <2>1. ControlTypes'
      <3>1. initNum[e] + 1 <= BodyUnits
        BY <1>1, <1>14, MsgFlowAssumption
        DEF ControlTypes, ReadBody, BodyMissing
      <3>2. /\ initNum' = Set(initNum, e, initNum[e] + 1)
            /\ UNCHANGED <<at, flow, sub, work, want, wnum, keys>>
        BY <1>14 DEF ReadBody
      <3>3. initNum' \in [Ends -> 0..(HeaderUnits + BodyUnits)]
        BY <1>1, <3>1, <3>2, MsgFlowAssumption DEF ControlTypes, Set
      <3> QED BY <1>1, <1>4, <3>2, <3>3 DEF ControlTypes
    <2>2. DataTypes'
      <3>1. /\ net[e] # << >> /\ net' = Set(net, e, Tail(net[e]))
            /\ UNCHANGED <<bbio, digest, log>>
        BY <1>14 DEF ReadBody
      <3>2. Tail(net[e]) \in Seq(Units) /\ Len(Tail(net[e])) <= SocketUnits
        BY <1>1, <3>1, MsgFlowAssumption DEF DataTypes
      <3> QED BY <1>1, <3>1, <3>2 DEF DataTypes, Set
    <2> QED BY <1>4, <2>1, <2>2 DEF FlowInv, Types
  <1>15. CASE ReadBlocks(e)
    <2>1. ControlTypes'
      BY ONLY <1>1, <1>2, <1>3, <1>4, <1>15, e \in Ends, MsgFlowAssumption
      DEF ReadBlocks, In, Set, Ok, ControlTypes, Return
    <2>2. DataTypes'
      BY ONLY <1>1, <1>2, <1>3, <1>4, <1>15, e \in Ends, MsgFlowAssumption
      DEF ReadBlocks, In, Set, Ok, DataTypes, Return
    <2> QED BY <1>4, <2>1, <2>2 DEF FlowInv, Types
  <1>16. CASE ProcessMessage(e)
    <2>1. ControlTypes'
      <3> DEFINE r == ProcessReturn(e, Current(e))
      <3>1. AfterProcessing(e, r) /\ UNCHANGED <<at, want, wnum>>
            /\ initNum' = Set(initNum, e, 0)
        BY <1>16 DEF ProcessMessage
      <3> HIDE DEF r
      <3>2. /\ flow' \in [Ends -> {"UNINITED", "READING", "WRITING", "FINISHED"}]
            /\ work' \in [Ends -> {"A", "B"}]
        BY <1>1, <3>1 DEF ControlTypes, AfterProcessing, Set
      <3>3. sub' = Set(sub, e, "TRANSITION") \/ sub' = Set(sub, e, "HEADER")
            \/ sub' = Set(sub, e, "POST_PROCESS")
        BY <3>1 DEF AfterProcessing
      <3>4. sub' \in [Ends -> {"TRANSITION", "PRE_WORK", "SEND", "POST_WORK",
                              "HEADER", "BODY", "POST_PROCESS"}]
        BY <1>1, <3>3 DEF ControlTypes, Set
      <3>5. keys' = Set(keys, e, keys[e] \cup {"read"}) \/ keys' = keys
        BY <1>16 DEF ProcessMessage
      <3>6. keys' \in [Ends -> SUBSET {"read", "write"}]
        <4>1. /\ keys \in [Ends -> SUBSET {"read", "write"}]
              /\ keys[e] \cup {"read"} \in SUBSET {"read", "write"}
          BY <1>1 DEF ControlTypes
        <4> QED BY ONLY <3>5, <4>1, e \in Ends DEF Set
      <3>7. initNum' \in [Ends -> 0..(HeaderUnits + BodyUnits)]
        <4>1. /\ initNum \in [Ends -> 0..(HeaderUnits + BodyUnits)]
              /\ 0 \in 0..(HeaderUnits + BodyUnits)
          BY <1>1, MsgFlowAssumption DEF ControlTypes
        <4> QED BY ONLY <3>1, <4>1, e \in Ends DEF Set
      <3> QED BY <1>1, <1>4, <3>1, <3>2, <3>4, <3>6, <3>7 DEF ControlTypes
    <2>2. DataTypes'
      <3>1. /\ digest' = Set(digest, e, Append(digest[e], at[e])) \/ digest' = digest
            /\ log' = Set(log, e, Append(log[e], <<"processed", at[e]>>))
            /\ UNCHANGED <<bbio, net>>
        BY <1>16 DEF ProcessMessage, Hashed, Logged
      <3>2. Append(digest[e], at[e]) \in Seq(Nat)
        BY <1>1, <1>a DEF DataTypes
      <3> QED BY <1>1, <1>c, <3>1, <3>2 DEF DataTypes, Set
    <2> QED BY <1>4, <2>1, <2>2 DEF FlowInv, Types
  <1>17. CASE PostProcess(e)
    <2>1. ControlTypes'
      BY ONLY <1>1, <1>2, <1>3, <1>4, <1>17, e \in Ends, MsgFlowAssumption
      DEF PostProcess, In, Set, Ok, ControlTypes
    <2>2. DataTypes'
      <3>1. /\ \/ log' = Set(log, e, Append(log[e], <<"stage_A", at[e]>>))
               \/ log' = log
            /\ UNCHANGED <<bbio, net, digest>>
        BY <1>17 DEF PostProcess, LeaveStageA, Logged
      <3>2. Append(log[e], <<"stage_A", at[e]>>) \in Seq(Deeds)
        BY <1>1, <1>a, <1>c DEF DataTypes
      <3> QED BY <1>1, <3>1, <3>2 DEF DataTypes, Set
    <2> QED BY <1>4, <2>1, <2>2 DEF FlowInv, Types
  <1>18. CASE PostProcessRetry(e)
    <2>1. ControlTypes'
      BY ONLY <1>1, <1>2, <1>3, <1>4, <1>18, e \in Ends, MsgFlowAssumption
      DEF PostProcessRetry, In, Set, Ok, ControlTypes, Return
    <2>2. DataTypes'
      <3>1. /\ \/ log' = Set(log, e, Append(log[e], <<"stage_A", at[e]>>))
               \/ log' = log
            /\ UNCHANGED <<bbio, net, digest>>
        BY <1>18 DEF PostProcessRetry, LeaveStageA, Logged, Return
      <3>2. Append(log[e], <<"stage_A", at[e]>>) \in Seq(Deeds)
        BY <1>1, <1>a, <1>c DEF DataTypes
      <3> QED BY <1>1, <3>1, <3>2 DEF DataTypes, Set
    <2> QED BY <1>4, <2>1, <2>2 DEF FlowInv, Types
  <1> QED
    BY <1>5, <1>6, <1>7, <1>8, <1>9, <1>10, <1>11, <1>12, <1>13, <1>14, <1>15,
       <1>16, <1>17, <1>18 DEF Step

-----------------------------------------------------------------------------
(* A step of one endpoint leaves the machine and the buffer of the other   *)
(* alone.                                                                  *)
LEMMA OtherKept ==
  ASSUME FlowInv, NEW e \in Ends, Step(e) \/ PostProcessRetry(e),
         NEW q \in Ends, q # e
  PROVE  /\ at'[q] = at[q] /\ flow'[q] = flow[q] /\ sub'[q] = sub[q]
         /\ work'[q] = work[q] /\ initNum'[q] = initNum[q]
         /\ wnum'[q] = wnum[q] /\ bbio'[q] = bbio[q] /\ keys'[q] = keys[q]
         /\ digest'[q] = digest[q] /\ log'[q] = log[q]
         /\ exchange' = exchange
PROOF
  <1>1. /\ DOMAIN at = Ends /\ DOMAIN flow = Ends /\ DOMAIN sub = Ends
        /\ DOMAIN work = Ends /\ DOMAIN initNum = Ends /\ DOMAIN wnum = Ends
        /\ DOMAIN bbio = Ends /\ DOMAIN keys = Ends
        /\ DOMAIN digest = Ends /\ DOMAIN log = Ends
    BY DEF FlowInv, Types, ControlTypes, DataTypes
  <1>2. ASSUME NEW f, NEW x, DOMAIN f = Ends
        PROVE  Set(f, e, x)[q] = f[q]
    BY <1>2, q # e DEF Set
  <1>3. CASE Call(e) \/ WriteTransition(e) \/ FinishHandshake(e) \/ Construct(e)
    BY ONLY <1>1, <1>2, <1>3
    DEF Call, WriteTransition, FinishHandshake, Construct, Logged
  <1>4. CASE Write(e) \/ Drain(e) \/ WriteBlocks(e) \/ PostWork(e)
    BY ONLY <1>1, <1>2, <1>4
    DEF Write, Drain, machine, WriteBlocks, Return, PostWork, Hashed
  <1>5. CASE ReadHeader(e) \/ ReadBody(e) \/ ReadBlocks(e)
    BY ONLY <1>1, <1>2, <1>5 DEF ReadHeader, ReadBody, ReadBlocks, Return
  <1>6. CASE ProcessMessage(e)
    BY ONLY <1>1, <1>2, <1>6
    DEF ProcessMessage, AfterProcessing, Hashed, Logged
  <1>7. CASE PostProcess(e) \/ PostProcessRetry(e)
    BY ONLY <1>1, <1>2, <1>7
    DEF PostProcess, PostProcessRetry, LeaveStageA, Logged, Return
  <1> QED BY <1>3, <1>4, <1>5, <1>6, <1>7 DEF Step

(* Nor does it disturb what holds of the other alone.                      *)
LEMMA OtherLocal ==
  ASSUME FlowInv, NEW e \in Ends, Step(e) \/ PostProcessRetry(e),
         NEW q \in Ends, q # e
  PROVE  LocalInv(q)'
PROOF
  <1>1. /\ at'[q] = at[q] /\ flow'[q] = flow[q] /\ sub'[q] = sub[q]
        /\ work'[q] = work[q] /\ initNum'[q] = initNum[q]
        /\ wnum'[q] = wnum[q] /\ bbio'[q] = bbio[q] /\ keys'[q] = keys[q]
        /\ digest'[q] = digest[q] /\ log'[q] = log[q]
        /\ exchange' = exchange
    BY OtherKept
  <1>2. LocalInv(q)
    BY DEF FlowInv
  <1>3. FlowHasSub(q)' /\ Place(q)' /\ Counts(q)' /\ Buffered(q)'
    BY ONLY <1>1, <1>2
    DEF LocalInv, FlowHasSub, Place, Counts, Buffered, SentBy, Current, Ok
  <1>4. KeysFit(q)' /\ DigestFits(q)' /\ LogFits(q)'
    BY ONLY <1>1, <1>2
    DEF LocalInv, KeysFit, DigestFits, LogFits, Passed, CcsOf, HashCount,
        HashedAt, FirstCcs, SecondCcs
  <1> QED BY <1>3, <1>4 DEF LocalInv

-----------------------------------------------------------------------------
(* The values of an endpoint's variables.                                  *)
OwnTypes(e) ==
  /\ at[e] \in Nat /\ at[e] \in 0..(Len(exchange) + 1)
  /\ flow[e] \in {"UNINITED", "READING", "WRITING", "FINISHED"}
  /\ sub[e] \in {"TRANSITION", "PRE_WORK", "SEND", "POST_WORK", "HEADER",
                 "BODY", "POST_PROCESS"}
  /\ work[e] \in {"A", "B"}
  /\ initNum[e] \in Nat /\ wnum[e] \in Nat
  /\ bbio[e] \in Seq(Units) /\ digest[e] \in Seq(Nat) /\ log[e] \in Seq(Deeds)
  /\ Len(exchange) \in Nat
  /\ HeaderUnits \in Nat \ {0} /\ BodyUnits \in Nat \ {0}

(* The invariant gives them, with what holds of the endpoint alone and the *)
(* shape of the exchange.                                                  *)
LEMMA OwnFacts ==
  ASSUME FlowInv, NEW e \in Ends
  PROVE  OwnTypes(e) /\ LocalInv(e) /\ ExchangeOK
PROOF
  <1>1. ExchangeOK /\ Len(exchange) \in Nat
    BY ExchangeShape DEF FlowInv, Types, ExchangeOK
  <1>2. /\ at[e] \in Nat /\ at[e] \in 0..(Len(exchange) + 1)
        /\ flow[e] \in {"UNINITED", "READING", "WRITING", "FINISHED"}
        /\ sub[e] \in {"TRANSITION", "PRE_WORK", "SEND", "POST_WORK", "HEADER",
                       "BODY", "POST_PROCESS"}
        /\ work[e] \in {"A", "B"}
        /\ initNum[e] \in Nat /\ wnum[e] \in Nat
    BY MsgFlowAssumption DEF FlowInv, Types, ControlTypes
  <1>3. bbio[e] \in Seq(Units) /\ digest[e] \in Seq(Nat) /\ log[e] \in Seq(Deeds)
    BY DEF FlowInv, Types, DataTypes
  <1>4. HeaderUnits \in Nat \ {0} /\ BodyUnits \in Nat \ {0}
    BY MsgFlowAssumption
  <1> QED BY <1>1, <1>2, <1>3, <1>4 DEF OwnTypes, FlowInv

(* A step sets variables of its endpoint.                                  *)
LEMMA SetOwn ==
  ASSUME FlowInv, NEW e \in Ends
  PROVE  /\ \A x : Set(at, e, x)[e] = x
         /\ \A x : Set(flow, e, x)[e] = x
         /\ \A x : Set(sub, e, x)[e] = x
         /\ \A x : Set(work, e, x)[e] = x
         /\ \A x : Set(initNum, e, x)[e] = x
         /\ \A x : Set(wnum, e, x)[e] = x
         /\ \A x : Set(bbio, e, x)[e] = x
         /\ \A x : Set(keys, e, x)[e] = x
         /\ \A x : Set(digest, e, x)[e] = x
         /\ \A x : Set(log, e, x)[e] = x
         /\ \A x : Set(net, e, x)[e] = x
PROOF
  <1>1. /\ e \in DOMAIN at /\ e \in DOMAIN flow /\ e \in DOMAIN sub
        /\ e \in DOMAIN work /\ e \in DOMAIN initNum /\ e \in DOMAIN wnum
        /\ e \in DOMAIN bbio /\ e \in DOMAIN keys
        /\ e \in DOMAIN digest /\ e \in DOMAIN log /\ e \in DOMAIN net
    BY DEF FlowInv, Types, ControlTypes, DataTypes
  <1> QED BY ONLY <1>1 DEF Set

(* What is said of the exchange stays so.                                  *)
LEMMA ExchangeKept ==
  ASSUME exchange' = exchange, ExchangeOK
  PROVE  /\ Ok' = Ok /\ FirstCcs' = FirstCcs /\ SecondCcs' = SecondCcs
         /\ \A e : CcsOf(e)' = CcsOf(e)
         /\ \A n : HashCount(n)' = HashCount(n) /\ HashedAt(n)' = HashedAt(n)
  BY DEF Ok, FirstCcs, SecondCcs, CcsOf, HashCount, HashedAt

(* A call of SSL_do_handshake: what the endpoint's variables become.       *)
LEMMA CallEffect ==
  ASSUME FlowInv, NEW e \in Ends, Call(e)
  PROVE  /\ exchange' = exchange /\ at'[e] = at[e] /\ sub'[e] = sub[e]
         /\ work'[e] = work[e] /\ initNum'[e] = initNum[e]
         /\ wnum'[e] = wnum[e] /\ bbio'[e] = bbio[e] /\ keys'[e] = keys[e]
         /\ digest'[e] = digest[e] /\ log'[e] = log[e]
         /\ \/ flow[e] = "UNINITED" /\ flow'[e] = "WRITING"
            \/ flow[e] # "UNINITED" /\ flow'[e] = flow[e]
PROOF
  <1>1. flow[e] = "UNINITED" => sub[e] = "TRANSITION" /\ initNum[e] = 0
    BY OwnFacts DEF LocalInv, FlowHasSub, Counts
  <1>0. /\ \A x : Set(flow, e, x)[e] = x
        /\ \A x : Set(sub, e, x)[e] = x
        /\ \A x : Set(initNum, e, x)[e] = x
    BY SetOwn
  <1>2. CASE flow[e] = "UNINITED"
    <2>1. /\ flow' = Set(flow, e, "WRITING")
          /\ sub' = Set(sub, e, "TRANSITION")
          /\ initNum' = Set(initNum, e, 0)
          /\ UNCHANGED <<exchange, at, work, wnum, bbio, keys, digest, log>>
      BY <1>2 DEF Call
    <2>2. flow'[e] = "WRITING" /\ sub'[e] = "TRANSITION" /\ initNum'[e] = 0
      BY ONLY <1>0, <2>1
    <2>3. sub[e] = "TRANSITION" /\ initNum[e] = 0
      BY ONLY <1>1, <1>2
    <2> QED BY ONLY <1>2, <2>1, <2>2, <2>3
  <1>3. CASE flow[e] # "UNINITED"
    BY <1>3 DEF Call
  <1> QED BY <1>2, <1>3

(* The write transition: what the endpoint's variables become.             *)
LEMMA WriteTransitionEffect ==
  ASSUME FlowInv, NEW e \in Ends, WriteTransition(e)
  PROVE  /\ exchange' = exchange /\ work'[e] = work[e]
         /\ initNum'[e] = initNum[e] /\ wnum'[e] = wnum[e]
         /\ bbio'[e] = bbio[e] /\ keys'[e] = keys[e] /\ digest'[e] = digest[e]
         /\ log'[e] = log[e]
         /\ sub[e] = "TRANSITION"
         /\ flow[e] = "WRITING"
         /\ \/ /\ WritesNext(e) /\ at'[e] = at[e] + 1
               /\ sub'[e] = "PRE_WORK" /\ flow'[e] = "WRITING"
            \/ /\ ~WritesNext(e) /\ at'[e] = at[e]
               /\ sub'[e] = "HEADER" /\ flow'[e] = "READING"
  BY OwnFacts, SetOwn
  DEF WriteTransition, In, OwnTypes

(* The end of the handshake: what the endpoint's variables become.         *)
LEMMA FinishHandshakeEffect ==
  ASSUME FlowInv, NEW e \in Ends, FinishHandshake(e)
  PROVE  /\ exchange' = exchange /\ at'[e] = at[e] /\ sub'[e] = sub[e]
         /\ work'[e] = work[e] /\ wnum'[e] = wnum[e] /\ keys'[e] = keys[e]
         /\ digest'[e] = digest[e] /\ log'[e] = log[e]
         /\ flow'[e] = "FINISHED" /\ initNum'[e] = 0 /\ bbio'[e] = << >>
         /\ at[e] = Ok
         /\ sub[e] = "PRE_WORK"
  BY OwnFacts, SetOwn
  DEF FinishHandshake, In, OwnTypes

(* Constructing a message: what the endpoint's variables become.           *)
LEMMA ConstructEffect ==
  ASSUME FlowInv, NEW e \in Ends, Construct(e)
  PROVE  /\ exchange' = exchange /\ at'[e] = at[e] /\ flow'[e] = flow[e]
         /\ work'[e] = work[e] /\ wnum'[e] = wnum[e] /\ bbio'[e] = bbio[e]
         /\ keys'[e] = keys[e] /\ digest'[e] = digest[e] /\ sub'[e] = "SEND"
         /\ initNum'[e] = MessageUnits(Current(e))
         /\ log'[e] = Append(log[e], <<"constructed", at[e]>>)
         /\ at[e] # Ok
         /\ sub[e] = "PRE_WORK"
         /\ flow[e] = "WRITING"
  BY OwnFacts, SetOwn
  DEF Construct, In, Logged, OwnTypes

(* Writing a unit: what the endpoint's variables become.                   *)
LEMMA WriteEffect ==
  ASSUME FlowInv, NEW e \in Ends, Write(e)
  PROVE  /\ exchange' = exchange /\ at'[e] = at[e] /\ flow'[e] = flow[e]
         /\ work'[e] = work[e] /\ initNum'[e] = initNum[e]
         /\ keys'[e] = keys[e] /\ log'[e] = log[e]
         /\ bbio'[e] = Append(bbio[e], Unit(e))
         /\ sub[e] = "SEND"
         /\ flow[e] = "WRITING"
         /\ IF wnum[e] + 1 = initNum[e]
              THEN /\ wnum'[e] = 0 /\ sub'[e] = "POST_WORK"
                   /\ digest'[e] = IF Current(e) = "CHANGE_CIPHER_SPEC"
                                     THEN digest[e]
                                     ELSE Append(digest[e], at[e])
              ELSE /\ wnum'[e] = wnum[e] + 1 /\ sub'[e] = "SEND"
                   /\ digest'[e] = digest[e]
PROOF
  <1>0. /\ \A x : Set(bbio, e, x)[e] = x
        /\ \A x : Set(wnum, e, x)[e] = x
        /\ \A x : Set(sub, e, x)[e] = x
        /\ \A x : Set(digest, e, x)[e] = x
    BY SetOwn
  <1>1. CASE wnum[e] + 1 = initNum[e] /\ Current(e) = "CHANGE_CIPHER_SPEC"
    BY ONLY <1>0, <1>1, Write(e) DEF Write, In
  <1>2. CASE wnum[e] + 1 = initNum[e] /\ Current(e) # "CHANGE_CIPHER_SPEC"
    BY ONLY <1>0, <1>2, Write(e) DEF Write, In, Hashed
  <1>3. CASE wnum[e] + 1 # initNum[e]
    BY ONLY <1>0, <1>3, Write(e) DEF Write, In
  <1> QED BY <1>1, <1>2, <1>3

(* Writing to the socket: what the endpoint's variables become.            *)
LEMMA DrainEffect ==
  ASSUME FlowInv, NEW e \in Ends, Drain(e)
  PROVE  /\ exchange' = exchange /\ at'[e] = at[e] /\ flow'[e] = flow[e]
         /\ sub'[e] = sub[e] /\ work'[e] = work[e] /\ initNum'[e] = initNum[e]
         /\ wnum'[e] = wnum[e] /\ keys'[e] = keys[e] /\ digest'[e] = digest[e]
         /\ log'[e] = log[e] /\ bbio'[e] = Tail(bbio[e])
         /\ flow[e] = "WRITING"
         /\ sub[e] \in {"SEND", "POST_WORK"}
         /\ bbio[e] # << >>
PROOF
  <1>1. /\ exchange' = exchange /\ UNCHANGED machine
        /\ bbio' = Set(bbio, e, Tail(bbio[e])) /\ MustDrain(e)
    BY DEF Drain
  <1>2. bbio[e] # << >>
    BY <1>1, MsgFlowAssumption DEF MustDrain
  <1> QED BY <1>1, <1>2, SetOwn DEF MustDrain, machine

(* A write that blocks: what the endpoint's variables become.              *)
LEMMA WriteBlocksEffect ==
  ASSUME FlowInv, NEW e \in Ends, WriteBlocks(e)
  PROVE  /\ exchange' = exchange /\ at'[e] = at[e] /\ flow'[e] = flow[e]
         /\ sub'[e] = sub[e] /\ work'[e] = work[e] /\ initNum'[e] = initNum[e]
         /\ wnum'[e] = wnum[e] /\ bbio'[e] = bbio[e] /\ keys'[e] = keys[e]
         /\ digest'[e] = digest[e] /\ log'[e] = log[e]
  BY OwnFacts, SetOwn
  DEF WriteBlocks, Return, OwnTypes

(* The end of a message: what the endpoint's variables become.             *)
LEMMA PostWorkEffect ==
  ASSUME FlowInv, NEW e \in Ends, PostWork(e)
  PROVE  /\ exchange' = exchange /\ at'[e] = at[e] /\ flow'[e] = flow[e]
         /\ work'[e] = work[e] /\ wnum'[e] = wnum[e] /\ bbio'[e] = bbio[e]
         /\ digest'[e] = digest[e] /\ log'[e] = log[e]
         /\ sub'[e] = "TRANSITION" /\ initNum'[e] = 0
         /\ sub[e] = "POST_WORK"
         /\ flow[e] = "WRITING"
         /\ bbio[e] # << >> => ~Flushes(Current(e))
         /\ keys'[e] = IF Current(e) = "CHANGE_CIPHER_SPEC"
                          THEN keys[e] \cup {"write"} ELSE keys[e]
  BY OwnFacts, SetOwn
  DEF PostWork, MustDrain, In, OwnTypes

(* Reading a header unit: what the endpoint's variables become.            *)
LEMMA ReadHeaderEffect ==
  ASSUME FlowInv, NEW e \in Ends, ReadHeader(e)
  PROVE  /\ exchange' = exchange /\ flow'[e] = flow[e] /\ work'[e] = work[e]
         /\ wnum'[e] = wnum[e] /\ bbio'[e] = bbio[e] /\ keys'[e] = keys[e]
         /\ digest'[e] = digest[e] /\ log'[e] = log[e]
         /\ sub[e] = "HEADER"
         /\ flow[e] = "READING"
         /\ \/ /\ HeaderComplete(e) /\ at'[e] = at[e] + 1
               /\ sub'[e] = "BODY" /\ initNum'[e] = 0
            \/ /\ ~HeaderComplete(e) /\ at'[e] = at[e]
               /\ sub'[e] = "HEADER" /\ initNum'[e] = initNum[e] + 1
         /\ net[e] # << >>
  BY OwnFacts, SetOwn
  DEF ReadHeader, In, OwnTypes

(* Reading a body unit: what the endpoint's variables become.              *)
LEMMA ReadBodyEffect ==
  ASSUME FlowInv, NEW e \in Ends, ReadBody(e)
  PROVE  /\ exchange' = exchange /\ at'[e] = at[e] /\ flow'[e] = flow[e]
         /\ sub'[e] = sub[e] /\ work'[e] = work[e] /\ wnum'[e] = wnum[e]
         /\ bbio'[e] = bbio[e] /\ keys'[e] = keys[e] /\ digest'[e] = digest[e]
         /\ log'[e] = log[e] /\ initNum'[e] = initNum[e] + 1
         /\ sub[e] = "BODY"
         /\ flow[e] = "READING"
         /\ BodyMissing(e)
  BY OwnFacts, SetOwn
  DEF ReadBody, In, OwnTypes

(* A read that blocks: what the endpoint's variables become.               *)
LEMMA ReadBlocksEffect ==
  ASSUME FlowInv, NEW e \in Ends, ReadBlocks(e)
  PROVE  /\ exchange' = exchange /\ at'[e] = at[e] /\ flow'[e] = flow[e]
         /\ sub'[e] = sub[e] /\ work'[e] = work[e] /\ initNum'[e] = initNum[e]
         /\ wnum'[e] = wnum[e] /\ bbio'[e] = bbio[e] /\ keys'[e] = keys[e]
         /\ digest'[e] = digest[e] /\ log'[e] = log[e]
  BY OwnFacts, SetOwn
  DEF ReadBlocks, Return, OwnTypes

(* Processing a message: what the endpoint's variables become.             *)
LEMMA ProcessMessageEffect ==
  ASSUME FlowInv, NEW e \in Ends, ProcessMessage(e)
  PROVE  /\ exchange' = exchange /\ at'[e] = at[e] /\ wnum'[e] = wnum[e]
         /\ bbio'[e] = bbio[e] /\ work'[e] = "A" /\ initNum'[e] = 0
         /\ log'[e] = Append(log[e], <<"processed", at[e]>>)
         /\ sub[e] = "BODY"
         /\ flow[e] = "READING"
         /\ ~BodyMissing(e)
         /\ IF Current(e) = "CHANGE_CIPHER_SPEC"
              THEN keys'[e] = keys[e] \cup {"read"} /\ digest'[e] = digest[e]
              ELSE digest'[e] = Append(digest[e], at[e]) /\ keys'[e] = keys[e]
         /\ LET r == ProcessReturn(e, Current(e))
            IN \/ /\ r = "FINISHED_READING"
                  /\ flow'[e] = "WRITING" /\ sub'[e] = "TRANSITION"
               \/ /\ r = "CONTINUE_PROCESSING"
                  /\ flow'[e] = "READING" /\ sub'[e] = "POST_PROCESS"
               \/ /\ r = "CONTINUE_READING"
                  /\ flow'[e] = "READING" /\ sub'[e] = "HEADER"
PROOF
  <1> DEFINE r == ProcessReturn(e, Current(e))
  <1>1. /\ In(e, "READING", "BODY") /\ ~BodyMissing(e)
        /\ AfterProcessing(e, r) /\ Logged(e, "processed")
        /\ initNum' = Set(initNum, e, 0)
        /\ UNCHANGED <<exchange, at, want, wnum, bbio, net>>
    BY DEF ProcessMessage
  <1>2. IF Current(e) = "CHANGE_CIPHER_SPEC"
          THEN keys'[e] = keys[e] \cup {"read"} /\ digest'[e] = digest[e]
          ELSE digest'[e] = Append(digest[e], at[e]) /\ keys'[e] = keys[e]
    <2>1. /\ \A x : Set(keys, e, x)[e] = x
          /\ \A x : Set(digest, e, x)[e] = x
      BY SetOwn
    <2> QED BY ONLY <2>1, ProcessMessage(e) DEF ProcessMessage, Hashed
  <1>3. r \in {"FINISHED_READING", "CONTINUE_PROCESSING", "CONTINUE_READING"}
    BY DEF ProcessReturn
  <1> HIDE DEF r
  <1>4. \/ /\ r = "FINISHED_READING"
           /\ flow'[e] = "WRITING" /\ sub'[e] = "TRANSITION"
        \/ /\ r = "CONTINUE_PROCESSING"
           /\ flow'[e] = "READING" /\ sub'[e] = "POST_PROCESS"
        \/ /\ r = "CONTINUE_READING"
           /\ flow'[e] = "READING" /\ sub'[e] = "HEADER"
    <2>1. /\ \A x : Set(flow, e, x)[e] = x
          /\ \A x : Set(sub, e, x)[e] = x
      BY SetOwn
    <2> QED BY ONLY <1>1, <1>3, <2>1 DEF AfterProcessing
  <1>5. work'[e] = "A" /\ initNum'[e] = 0
        /\ log'[e] = Append(log[e], <<"processed", at[e]>>)
    BY <1>1, SetOwn DEF AfterProcessing, Logged
  <1> USE DEF r
  <1> QED BY ONLY <1>1, <1>2, <1>4, <1>5 DEF In

(* The end of post processing: what the endpoint's variables become.       *)
LEMMA PostProcessEffect ==
  ASSUME FlowInv, NEW e \in Ends, PostProcess(e)
  PROVE  /\ exchange' = exchange /\ at'[e] = at[e] /\ work'[e] = work[e]
         /\ initNum'[e] = initNum[e] /\ wnum'[e] = wnum[e]
         /\ bbio'[e] = bbio[e] /\ keys'[e] = keys[e] /\ digest'[e] = digest[e]
         /\ sub[e] = "POST_PROCESS"
         /\ flow[e] = "READING"
         /\ IF Current(e) = "CLIENT_HELLO"
              THEN flow'[e] = "WRITING" /\ sub'[e] = "TRANSITION"
              ELSE flow'[e] = "READING" /\ sub'[e] = "HEADER"
         /\ log'[e] = IF work[e] = "A"
                          THEN Append(log[e], <<"stage_A", at[e]>>) ELSE log[e]
PROOF
  <1>1. IF Current(e) = "CLIENT_HELLO"
          THEN flow'[e] = "WRITING" /\ sub'[e] = "TRANSITION"
          ELSE flow'[e] = "READING" /\ sub'[e] = "HEADER"
    BY SetOwn DEF PostProcess, In
  <1>2. log'[e] = IF work[e] = "A" THEN Append(log[e], <<"stage_A", at[e]>>)
                  ELSE log[e]
    <2>1. CASE work[e] = "A"
      <3>1. \A x : Set(log, e, x)[e] = x
        BY SetOwn
      <3> QED BY ONLY <2>1, <3>1, PostProcess(e)
          DEF PostProcess, LeaveStageA, Logged
    <2>2. CASE work[e] # "A"
      BY <2>2 DEF PostProcess, LeaveStageA
    <2> QED BY <2>1, <2>2
  <1>3. /\ In(e, "READING", "POST_PROCESS")
        /\ UNCHANGED <<exchange, at, work, initNum, wnum, bbio, keys, digest>>
    BY DEF PostProcess
  <1> QED BY ONLY <1>1, <1>2, <1>3 DEF In

(* A retry of post processing: what the endpoint's variables become.       *)
LEMMA PostProcessRetryEffect ==
  ASSUME FlowInv, NEW e \in Ends, PostProcessRetry(e)
  PROVE  /\ exchange' = exchange /\ at'[e] = at[e] /\ flow'[e] = flow[e]
         /\ sub'[e] = sub[e] /\ initNum'[e] = initNum[e] /\ wnum'[e] = wnum[e]
         /\ bbio'[e] = bbio[e] /\ keys'[e] = keys[e] /\ digest'[e] = digest[e]
         /\ sub[e] = "POST_PROCESS"
         /\ \/ work'[e] = work[e] /\ log'[e] = log[e]
            \/ /\ work'[e] = "B"
               /\ log'[e] = IF work[e] = "A"
                             THEN Append(log[e], <<"stage_A", at[e]>>)
                             ELSE log[e]
PROOF
  <1>1. \/ work'[e] = work[e] /\ log'[e] = log[e]
        \/ /\ work'[e] = "B"
           /\ log'[e] = IF work[e] = "A"
                          THEN Append(log[e], <<"stage_A", at[e]>>) ELSE log[e]
    <2>1. CASE UNCHANGED <<work, log>>
      BY <2>1
    <2>2. CASE work' = Set(work, e, "B") /\ LeaveStageA(e) /\ work[e] = "A"
      <3>1. /\ \A x : Set(work, e, x)[e] = x
            /\ \A x : Set(log, e, x)[e] = x
        BY SetOwn
      <3> QED BY ONLY <2>2, <3>1 DEF LeaveStageA, Logged
    <2>3. CASE work' = Set(work, e, "B") /\ LeaveStageA(e) /\ work[e] # "A"
      BY <2>3, SetOwn DEF LeaveStageA
    <2> QED BY <2>1, <2>2, <2>3 DEF PostProcessRetry
  <1>2. /\ In(e, "READING", "POST_PROCESS")
        /\ UNCHANGED <<exchange, at, flow, sub, initNum, wnum, bbio, keys,
                       digest>>
    BY DEF PostProcessRetry, Return
  <1> QED BY ONLY <1>1, <1>2 DEF In

-----------------------------------------------------------------------------
(* Adding something new keeps a sequence free of repetitions.              *)
LEMMA InjectiveAppend ==
  ASSUME NEW S, NEW s \in Seq(S), NEW u \in S, IsInjective(s),
         \A k \in 1..Len(s) : s[k] # u
  PROVE  /\ IsInjective(Append(s, u))
         /\ \A k \in 1..Len(Append(s, u)) :
              \/ k \in 1..Len(s) /\ Append(s, u)[k] = s[k]
              \/ Append(s, u)[k] = u
PROOF
  <1>1. /\ Append(s, u) \in Seq(S) /\ Len(Append(s, u)) = Len(s) + 1
        /\ Append(s, u)[Len(s) + 1] = u /\ Len(s) \in Nat
        /\ \A k \in 1..Len(s) : Append(s, u)[k] = s[k]
        /\ DOMAIN Append(s, u) = 1..(Len(s) + 1) /\ DOMAIN s = 1..Len(s)
    BY AppendProperties
  <1>2. \A a, b \in 1..Len(s) : s[a] = s[b] => a = b
    BY <1>1 DEF IsInjective
  <1>3. IsInjective(Append(s, u))
    BY ONLY <1>1, <1>2, \A k \in 1..Len(s) : s[k] # u DEF IsInjective
  <1>4. ASSUME NEW k \in 1..Len(Append(s, u))
        PROVE  \/ k \in 1..Len(s) /\ Append(s, u)[k] = s[k]
               \/ Append(s, u)[k] = u
    BY ONLY <1>1, k \in 1..Len(Append(s, u))
  <1> QED BY <1>3, <1>4

(* The next message that is not ChangeCipherSpec is the next to be hashed. *)
LEMMA HashNext ==
  ASSUME ExchangeOK, NEW i \in 1..Len(exchange),
         exchange[i].msg # "CHANGE_CIPHER_SPEC"
  PROVE  HashCount(i) = HashCount(i - 1) + 1 /\ HashedAt(HashCount(i)) = i
PROOF
  <1>1. i # FirstCcs /\ i # SecondCcs
    BY CcsPlaces DEF ExchangeOK
  <1>2. FirstCcs \in Nat /\ SecondCcs \in Nat /\ FirstCcs + 1 < SecondCcs
    BY CcsPlaces DEF ExchangeOK
  <1> QED BY ONLY <1>1, <1>2, i \in 1..Len(exchange) DEF HashCount, HashedAt

(* A ChangeCipherSpec does not count.                                      *)
LEMMA HashSkips ==
  ASSUME ExchangeOK, NEW i \in 1..Len(exchange),
         exchange[i].msg = "CHANGE_CIPHER_SPEC"
  PROVE  HashCount(i) = HashCount(i - 1)
PROOF
  <1>1. i = FirstCcs \/ i = SecondCcs
    BY CcsPlaces DEF ExchangeOK
  <1>2. FirstCcs \in Nat /\ SecondCcs \in Nat /\ FirstCcs + 1 < SecondCcs
    BY CcsPlaces DEF ExchangeOK
  <1> QED BY ONLY <1>1, <1>2, i \in 1..Len(exchange) DEF HashCount

(* A message is the ChangeCipherSpec of its sender or no ChangeCipherSpec. *)
LEMMA CcsIs ==
  ASSUME ExchangeOK, NEW e \in Ends, NEW i, SentBy(i, e)
  PROVE  /\ i # CcsOf(Peer(e))
         /\ exchange[i].msg = "CHANGE_CIPHER_SPEC" <=> i = CcsOf(e)
PROOF
  <1>1. Peer(e) \in Ends /\ e # Peer(e)
    BY TwoEnds
  <1>2. SentBy(CcsOf(Peer(e)), Peer(e)) /\ SentBy(CcsOf(e), e)
    BY <1>1 DEF ExchangeOK
  <1>3. i # CcsOf(Peer(e))
    BY <1>1, <1>2 DEF SentBy
  <1>4. exchange[i].msg = "CHANGE_CIPHER_SPEC"
          <=> i = CcsOf("client") \/ i = CcsOf("server")
    BY DEF ExchangeOK, SentBy
  <1>5. \/ e = "client" /\ Peer(e) = "server"
        \/ e = "server" /\ Peer(e) = "client"
    BY DEF Ends, Peer
  <1> QED BY ONLY <1>3, <1>4, <1>5

(* What the handler of a message asks for tells whether the flight of the  *)
(* peer goes on.                                                           *)
LEMMA FlightGoesOn ==
  ASSUME ExchangeOK, NEW e \in Ends, NEW i, SentBy(i, Peer(e)),
         \/ ProcessReturn(e, exchange[i].msg) = "CONTINUE_READING"
         \/ /\ ProcessReturn(e, exchange[i].msg) = "CONTINUE_PROCESSING"
            /\ exchange[i].msg # "CLIENT_HELLO"
  PROVE  SentBy(i + 1, Peer(e))
PROOF
  <1>1. i \in 1..Len(exchange) /\ Len(exchange) \in Nat
    BY DEF SentBy, ExchangeOK
  <1>2. ~EndsFlight(i)
    BY <1>1 DEF ExchangeOK
  <1> QED BY <1>1, <1>2 DEF EndsFlight, SentBy

(* Or has come to its end.                                                 *)
LEMMA FlightEnds ==
  ASSUME ExchangeOK, NEW e \in Ends, NEW i, SentBy(i, Peer(e)),
         \/ ProcessReturn(e, exchange[i].msg) = "FINISHED_READING"
         \/ /\ ProcessReturn(e, exchange[i].msg) = "CONTINUE_PROCESSING"
            /\ exchange[i].msg = "CLIENT_HELLO"
  PROVE  i = Len(exchange) \/ SentBy(i + 1, e)
PROOF
  <1>1. i \in 1..Len(exchange) /\ Len(exchange) \in Nat
    BY DEF SentBy, ExchangeOK
  <1>2. EndsFlight(i)
    BY <1>1 DEF ExchangeOK
  <1>3. CASE i # Len(exchange)
    <2>1. i + 1 \in 1..Len(exchange) /\ exchange[i + 1].from # Peer(e)
      BY <1>1, <1>2, <1>3 DEF EndsFlight, SentBy
    <2>2. exchange[i + 1].from \in Ends
      BY <2>1 DEF ExchangeOK
    <2> QED BY <2>1, <2>2 DEF SentBy, Ends, Peer
  <1> QED BY <1>3

(* The history holds deeds with the number of their message.               *)
LEMMA LogTypes ==
  ASSUME NEW e \in Ends, OwnTypes(e)
  PROVE  \A k \in 1..Len(log[e]) :
           log[e][k] \in Deeds /\ log[e][k][2] \in Nat
PROOF
  <1>1. log[e] \in Seq(Deeds)
    BY DEF OwnTypes
  <1>2. \A k \in 1..Len(log[e]) : log[e][k] \in Deeds
    BY ONLY <1>1
  <1>3. \A d \in Deeds : d[2] \in Nat
    BY DEF Deeds
  <1> QED BY ONLY <1>2, <1>3

(* One more deed that is not yet there.                                    *)
LEMMA LogAppend ==
  ASSUME NEW e \in Ends, OwnTypes(e),
         NEW w \in {"constructed", "processed", "stage_A"},
         IsInjective(log[e]),
         log'[e] = Append(log[e], <<w, at[e]>>),
         \A k \in 1..Len(log[e]) : log[e][k] # <<w, at[e]>>
  PROVE  /\ IsInjective(log'[e])
         /\ \A k \in 1..Len(log'[e]) :
              \/ k \in 1..Len(log[e]) /\ log'[e][k] = log[e][k]
              \/ log'[e][k] = <<w, at[e]>>
PROOF
  <1>1. at[e] \in Nat /\ log[e] \in Seq(Deeds)
    <2>1. at[e] \in Nat
      BY ONLY OwnTypes(e), Zenon DEF OwnTypes
    <2>2. log[e] \in Seq(Deeds)
      BY ONLY OwnTypes(e), Zenon DEF OwnTypes
    <2> QED BY <2>1, <2>2
  <1>2. <<w, at[e]>> \in Deeds
    BY ONLY <1>1, w \in {"constructed", "processed", "stage_A"} DEF Deeds
  <1>3. ASSUME NEW s \in Seq(Deeds), NEW u \in Deeds, IsInjective(s),
               \A k \in 1..Len(s) : s[k] # u
        PROVE  /\ IsInjective(Append(s, u))
               /\ \A k \in 1..Len(Append(s, u)) :
                    \/ k \in 1..Len(s) /\ Append(s, u)[k] = s[k]
                    \/ Append(s, u)[k] = u
    BY ONLY <1>3, InjectiveAppend, Zenon
  <1>4. /\ IsInjective(Append(log[e], <<w, at[e]>>))
        /\ \A k \in 1..Len(Append(log[e], <<w, at[e]>>)) :
             \/ /\ k \in 1..Len(log[e])
                /\ Append(log[e], <<w, at[e]>>)[k] = log[e][k]
             \/ Append(log[e], <<w, at[e]>>)[k] = <<w, at[e]>>
    BY ONLY <1>1, <1>2, <1>3, IsInjective(log[e]),
            \A k \in 1..Len(log[e]) : log[e][k] # <<w, at[e]>>, Zenon
  <1> QED BY <1>4, Zenon

-----------------------------------------------------------------------------
(* Call preserves what holds of its endpoint alone.                        *)
LEMMA CallLocal ==
  ASSUME FlowInv, NEW e \in Ends, Call(e)
  PROVE  LocalInv(e)'
PROOF
  <1>1. OwnTypes(e) /\ LocalInv(e) /\ ExchangeOK
    BY OwnFacts
  <1>2. /\ exchange' = exchange /\ at'[e] = at[e] /\ sub'[e] = sub[e]
        /\ work'[e] = work[e] /\ initNum'[e] = initNum[e]
        /\ wnum'[e] = wnum[e] /\ bbio'[e] = bbio[e] /\ keys'[e] = keys[e]
        /\ digest'[e] = digest[e] /\ log'[e] = log[e]
        /\ \/ flow[e] = "UNINITED" /\ flow'[e] = "WRITING"
           \/ flow[e] # "UNINITED" /\ flow'[e] = flow[e]
    BY CallEffect
  <1>3. /\ CcsOf(e)' = CcsOf(e) /\ CcsOf(Peer(e))' = CcsOf(Peer(e))
        /\ \A n : HashCount(n)' = HashCount(n) /\ HashedAt(n)' = HashedAt(n)
    BY <1>1, <1>2, ExchangeKept
  <1>4. FlowHasSub(e)' /\ Place(e)' /\ Counts(e)'
    <2>1. FlowHasSub(e) /\ Place(e) /\ Counts(e) /\ Current(e)' = Current(e)
      BY <1>1, <1>2 DEF LocalInv, Current
    <2>2. FlowHasSub(e)'
      BY ONLY <1>1, <1>2, <2>1 DEF OwnTypes, FlowHasSub, Ok
    <2>3. Place(e)' /\ Counts(e)'
      BY ONLY <1>2, <2>1 DEF Place, Counts, SentBy, Ok
    <2> QED BY <2>2, <2>3
  <1>5. Buffered(e)'
    BY ONLY <1>1, <1>2, <1>3, e \in Ends
    DEF LocalInv, OwnTypes, FlowHasSub, Place, Buffered, SentBy, Current, Ok
  <1>6. KeysFit(e)'
    BY ONLY <1>1, <1>2, <1>3, e \in Ends
    DEF LocalInv, OwnTypes, KeysFit, Passed, Place, SentBy
  <1>7. DigestFits(e)'
    BY ONLY <1>1, <1>2, <1>3, e \in Ends
    DEF LocalInv, OwnTypes, DigestFits, Passed
  <1>8. LogFits(e)'
    BY ONLY <1>1, <1>2, <1>3, e \in Ends
    DEF LocalInv, OwnTypes, LogFits
  <1> QED BY <1>4, <1>5, <1>6, <1>7, <1>8 DEF LocalInv

(* WriteTransition preserves what holds of its endpoint alone.             *)
LEMMA WriteTransitionLocal ==
  ASSUME FlowInv, NEW e \in Ends, WriteTransition(e)
  PROVE  LocalInv(e)'
PROOF
  <1>1. OwnTypes(e) /\ LocalInv(e) /\ ExchangeOK
    BY OwnFacts
  <1>2. /\ exchange' = exchange /\ work'[e] = work[e]
        /\ initNum'[e] = initNum[e] /\ wnum'[e] = wnum[e]
        /\ bbio'[e] = bbio[e] /\ keys'[e] = keys[e] /\ digest'[e] = digest[e]
        /\ log'[e] = log[e]
        /\ sub[e] = "TRANSITION"
        /\ flow[e] = "WRITING"
        /\ \/ /\ WritesNext(e) /\ at'[e] = at[e] + 1
              /\ sub'[e] = "PRE_WORK" /\ flow'[e] = "WRITING"
           \/ /\ ~WritesNext(e) /\ at'[e] = at[e]
              /\ sub'[e] = "HEADER" /\ flow'[e] = "READING"
    BY WriteTransitionEffect
  <1>3. /\ CcsOf(e)' = CcsOf(e) /\ CcsOf(Peer(e))' = CcsOf(Peer(e))
        /\ \A n : HashCount(n)' = HashCount(n) /\ HashedAt(n)' = HashedAt(n)
    BY <1>1, <1>2, ExchangeKept
  <1>4. FlowHasSub(e)' /\ Place(e)' /\ Counts(e)'
    <2>1. FlowHasSub(e) /\ Place(e) /\ Counts(e)
          /\ at[e] \in Nat /\ Len(exchange) \in Nat
      BY <1>1 DEF LocalInv, OwnTypes
    <2>2. at[e] <= Len(exchange) /\ wnum[e] = 0 /\ initNum[e] = 0
      BY ONLY <1>2, <2>1 DEF Place, Counts
    <2>3. CASE WritesNext(e)
      <3>1. at[e] + 1 = Ok \/ SentBy(at[e] + 1, e)
        BY ONLY <2>1, <2>2, <2>3 DEF WritesNext, SentBy, Ok
      <3> QED BY ONLY <1>2, <2>1, <2>2, <2>3, <3>1
          DEF FlowHasSub, Place, Counts, SentBy, Ok
    <2>4. CASE ~WritesNext(e)
      <3>1. at[e] + 1 \in 1..Len(exchange) /\ exchange[at[e] + 1].from # e
        BY ONLY <2>1, <2>2, <2>4 DEF WritesNext, Ok
      <3>2. exchange[at[e] + 1].from = Peer(e)
        BY <1>1, <3>1 DEF ExchangeOK, Ends, Peer
      <3>3. HeaderUnits > 0
        BY <1>1 DEF OwnTypes
      <3> QED BY ONLY <1>2, <2>1, <2>2, <2>4, <3>1, <3>2, <3>3
          DEF FlowHasSub, Place, Counts, SentBy, Ok
    <2> QED BY <2>3, <2>4
  <1>5. Buffered(e)'
    <2> SUFFICES ASSUME bbio[e] # << >>
                 PROVE  Buffered(e)'
      BY <1>2 DEF Buffered
    <2>1. SentBy(at[e], e) /\ ~Flushes(Current(e))
      BY <1>1, <1>2 DEF LocalInv, Buffered
    <2>2. ~EndsFlight(at[e]) /\ at[e] \in 1..Len(exchange) /\ Len(exchange) \in Nat
      BY <1>1, <2>1 DEF ExchangeOK, SentBy, Current, OwnTypes
    <2>3. SentBy(at[e] + 1, e)
      BY <2>1, <2>2 DEF EndsFlight, SentBy
    <2>4. WritesNext(e)
      BY <2>3 DEF WritesNext, SentBy
    <2> QED BY ONLY <1>2, <2>3, <2>4 DEF Buffered, SentBy
  <1>6. KeysFit(e)'
    <2>1. CcsOf(e) \in Nat /\ CcsOf(Peer(e)) \in Nat
      BY <1>1, CcsPlaces, TwoEnds DEF OwnTypes
    <2> QED BY ONLY <1>1, <1>2, <1>3, <2>1 DEF LocalInv, OwnTypes, KeysFit, Passed
  <1>7. DigestFits(e)'
    <2>1. digest'[e] = digest[e] /\ Passed(e)' = Passed(e) /\ DigestFits(e)
      BY <1>1, <1>2 DEF Passed, LocalInv, OwnTypes
    <2> QED BY ONLY <1>3, <2>1 DEF DigestFits
  <1>8. LogFits(e)'
    <2>1. \A k \in 1..Len(log[e]) : log[e][k][2] \in Nat
      BY <1>1, LogTypes
    <2>2. LogFits(e) /\ at[e] \in Nat /\ log'[e] = log[e]
      BY <1>1, <1>2 DEF LocalInv, OwnTypes
    <2>3. CASE at'[e] = at[e] /\ sub'[e] = "HEADER"
      BY ONLY <2>2, <2>3 DEF LogFits
    <2>4. CASE at'[e] = at[e] + 1 /\ sub'[e] = "PRE_WORK"
      <3>1. \A k \in 1..Len(log[e]) :
              log[e][k][2] <= at[e] + 1 /\ log[e][k][2] # at[e] + 1
        <4>1. ASSUME NEW k \in 1..Len(log[e]) PROVE log[e][k][2] <= at[e]
          BY ONLY <2>2, <4>1 DEF LogFits
        <4>2. at[e] \in Nat
          BY ONLY <2>2
        <4> QED BY ONLY <2>1, <4>1, <4>2
      <3> QED BY ONLY <2>2, <2>4, <3>1 DEF LogFits
    <2> QED BY ONLY <1>2, <2>3, <2>4
  <1> QED BY <1>4, <1>5, <1>6, <1>7, <1>8 DEF LocalInv

(* FinishHandshake preserves what holds of its endpoint alone.             *)
LEMMA FinishHandshakeLocal ==
  ASSUME FlowInv, NEW e \in Ends, FinishHandshake(e)
  PROVE  LocalInv(e)'
PROOF
  <1>1. OwnTypes(e) /\ LocalInv(e) /\ ExchangeOK
    BY OwnFacts
  <1>2. /\ exchange' = exchange /\ at'[e] = at[e] /\ sub'[e] = sub[e]
        /\ work'[e] = work[e] /\ wnum'[e] = wnum[e] /\ keys'[e] = keys[e]
        /\ digest'[e] = digest[e] /\ log'[e] = log[e]
        /\ flow'[e] = "FINISHED" /\ initNum'[e] = 0 /\ bbio'[e] = << >>
        /\ at[e] = Ok
        /\ sub[e] = "PRE_WORK"
    BY FinishHandshakeEffect
  <1>3. /\ CcsOf(e)' = CcsOf(e) /\ CcsOf(Peer(e))' = CcsOf(Peer(e))
        /\ \A n : HashCount(n)' = HashCount(n) /\ HashedAt(n)' = HashedAt(n)
    BY <1>1, <1>2, ExchangeKept
  <1>4. FlowHasSub(e)' /\ Place(e)' /\ Counts(e)'
    BY ONLY <1>1, <1>2, <1>3, e \in Ends
    DEF LocalInv, OwnTypes, FlowHasSub, Place, Counts, SentBy, Current, Ok
  <1>5. Buffered(e)'
    BY ONLY <1>1, <1>2, <1>3, e \in Ends
    DEF LocalInv, OwnTypes, FlowHasSub, Place, Buffered, SentBy, Current, Ok
  <1>6. KeysFit(e)'
    BY ONLY <1>1, <1>2, <1>3, e \in Ends
    DEF LocalInv, OwnTypes, KeysFit, Passed, Place, SentBy
  <1>7. DigestFits(e)'
    BY ONLY <1>1, <1>2, <1>3, e \in Ends
    DEF LocalInv, OwnTypes, DigestFits, Passed
  <1>8. LogFits(e)'
    BY ONLY <1>1, <1>2, <1>3, e \in Ends
    DEF LocalInv, OwnTypes, LogFits
  <1> QED BY <1>4, <1>5, <1>6, <1>7, <1>8 DEF LocalInv

(* Construct preserves what holds of its endpoint alone.                   *)
LEMMA ConstructLocal ==
  ASSUME FlowInv, NEW e \in Ends, Construct(e)
  PROVE  LocalInv(e)'
PROOF
  <1>1. OwnTypes(e) /\ LocalInv(e) /\ ExchangeOK
    BY OwnFacts
  <1>2. /\ exchange' = exchange /\ at'[e] = at[e] /\ flow'[e] = flow[e]
        /\ work'[e] = work[e] /\ wnum'[e] = wnum[e] /\ bbio'[e] = bbio[e]
        /\ keys'[e] = keys[e] /\ digest'[e] = digest[e] /\ sub'[e] = "SEND"
        /\ initNum'[e] = MessageUnits(Current(e))
        /\ log'[e] = Append(log[e], <<"constructed", at[e]>>)
        /\ at[e] # Ok
        /\ sub[e] = "PRE_WORK"
        /\ flow[e] = "WRITING"
    BY ConstructEffect
  <1>3. /\ CcsOf(e)' = CcsOf(e) /\ CcsOf(Peer(e))' = CcsOf(Peer(e))
        /\ \A n : HashCount(n)' = HashCount(n) /\ HashedAt(n)' = HashedAt(n)
    BY <1>1, <1>2, ExchangeKept
  <1>4. FlowHasSub(e)' /\ Place(e)' /\ Counts(e)'
    <2>1. MessageUnits(Current(e)) > 0
      BY <1>1 DEF OwnTypes, MessageUnits
    <2>2. Current(e)' = Current(e)
      BY <1>2 DEF Current
    <2> QED BY ONLY <1>1, <1>2, <2>1, <2>2
        DEF LocalInv, OwnTypes, FlowHasSub, Place, Counts, SentBy, Ok, MessageUnits
  <1>5. Buffered(e)'
    BY ONLY <1>1, <1>2, <1>3, e \in Ends
    DEF LocalInv, OwnTypes, FlowHasSub, Place, Buffered, SentBy, Current, Ok
  <1>6. KeysFit(e)'
    BY ONLY <1>1, <1>2, <1>3, e \in Ends
    DEF LocalInv, OwnTypes, KeysFit, Passed, Place, SentBy
  <1>7. DigestFits(e)'
    BY ONLY <1>1, <1>2, <1>3, e \in Ends
    DEF LocalInv, OwnTypes, DigestFits, Passed
  <1>8. LogFits(e)'
    <2>1. IsInjective(log[e])
      BY <1>1 DEF LocalInv, LogFits
    <2>2. \A k \in 1..Len(log[e]) : log[e][k] # <<"constructed", at[e]>>
      BY ONLY <1>1, <1>2 DEF LocalInv, LogFits
    <2>3. /\ IsInjective(log'[e])
          /\ \A k \in 1..Len(log'[e]) :
               \/ k \in 1..Len(log[e]) /\ log'[e][k] = log[e][k]
               \/ log'[e][k] = <<"constructed", at[e]>>
      BY <1>1, <1>2, <2>1, <2>2, LogAppend
    <2> QED BY ONLY <1>1, <1>2, <2>3 DEF LocalInv, OwnTypes, LogFits
  <1> QED BY <1>4, <1>5, <1>6, <1>7, <1>8 DEF LocalInv

(* Write preserves what holds of its endpoint alone.                       *)
LEMMA WriteLocal ==
  ASSUME FlowInv, NEW e \in Ends, Write(e)
  PROVE  LocalInv(e)'
PROOF
  <1>1. OwnTypes(e) /\ LocalInv(e) /\ ExchangeOK
    BY OwnFacts
  <1>2. /\ exchange' = exchange /\ at'[e] = at[e] /\ flow'[e] = flow[e]
        /\ work'[e] = work[e] /\ initNum'[e] = initNum[e]
        /\ keys'[e] = keys[e] /\ log'[e] = log[e]
        /\ bbio'[e] = Append(bbio[e], Unit(e))
        /\ sub[e] = "SEND"
        /\ flow[e] = "WRITING"
        /\ IF wnum[e] + 1 = initNum[e]
             THEN /\ wnum'[e] = 0 /\ sub'[e] = "POST_WORK"
                  /\ digest'[e] = IF Current(e) = "CHANGE_CIPHER_SPEC"
                                    THEN digest[e]
                                    ELSE Append(digest[e], at[e])
             ELSE /\ wnum'[e] = wnum[e] + 1 /\ sub'[e] = "SEND"
                  /\ digest'[e] = digest[e]
    BY WriteEffect
  <1>3. /\ CcsOf(e)' = CcsOf(e) /\ CcsOf(Peer(e))' = CcsOf(Peer(e))
        /\ \A n : HashCount(n)' = HashCount(n) /\ HashedAt(n)' = HashedAt(n)
    BY <1>1, <1>2, ExchangeKept
  <1>4. FlowHasSub(e)' /\ Place(e)' /\ Counts(e)'
    <2>1. Current(e)' = Current(e)
      BY <1>2 DEF Current
    <2>2. CASE wnum[e] + 1 = initNum[e]
      BY ONLY <1>1, <1>2, <2>1, <2>2
      DEF LocalInv, OwnTypes, FlowHasSub, Place, Counts, SentBy, Ok
    <2>3. CASE wnum[e] + 1 # initNum[e]
      <3>1. wnum[e] + 1 < initNum[e]
        BY ONLY <1>1, <1>2, <2>3 DEF LocalInv, OwnTypes, Counts
      <3> QED BY ONLY <1>1, <1>2, <2>1, <2>3, <3>1
          DEF LocalInv, OwnTypes, FlowHasSub, Place, Counts, SentBy, Ok, MessageUnits
    <2> QED BY <2>2, <2>3
  <1>5. Buffered(e)'
    BY ONLY <1>1, <1>2, <1>3, e \in Ends
    DEF LocalInv, OwnTypes, FlowHasSub, Place, Buffered, SentBy, Current, Ok
  <1>6. KeysFit(e)'
    <2>1. CcsOf(e) \in Nat /\ CcsOf(Peer(e)) \in Nat
      BY <1>1, CcsPlaces, TwoEnds DEF OwnTypes
    <2>2. SentBy(at[e], e)
      BY <1>1, <1>2 DEF LocalInv, Place
    <2>3. at[e] # CcsOf(Peer(e))
      BY <1>1, <2>2, CcsIs
    <2>4. sub'[e] \in {"SEND", "POST_WORK"}
      BY <1>2
    <2>5. at'[e] = at[e] /\ keys'[e] = keys[e] /\ sub[e] = "SEND"
      BY <1>2
    <2>6. KeysFit(e) /\ at[e] \in Nat
      BY <1>1 DEF LocalInv, OwnTypes
    <2> QED BY ONLY <1>3, <2>1, <2>3, <2>4, <2>5, <2>6 DEF KeysFit, Passed
  <1>7. DigestFits(e)'
    <2>1. SentBy(at[e], e) /\ Passed(e) = at[e] - 1 /\ DigestFits(e)
      BY <1>1, <1>2 DEF LocalInv, Place, Passed
    <2>2. /\ at[e] \in 1..Len(exchange)
          /\ digest[e] \in Seq(Nat) /\ Len(digest[e]) \in Nat
      BY <1>1, <2>1 DEF SentBy, OwnTypes
    <2>3. CASE wnum[e] + 1 = initNum[e] /\ Current(e) # "CHANGE_CIPHER_SPEC"
      <3>1. /\ HashCount(at[e]) = HashCount(at[e] - 1) + 1
            /\ HashedAt(HashCount(at[e])) = at[e]
        BY ONLY <1>1, <2>2, <2>3, HashNext DEF Current
      <3>2. /\ Len(Append(digest[e], at[e])) = Len(digest[e]) + 1
            /\ \A k \in 1..Len(digest[e]) : Append(digest[e], at[e])[k] = digest[e][k]
            /\ Append(digest[e], at[e])[Len(digest[e]) + 1] = at[e]
        BY ONLY <2>2, AppendProperties
      <3>3. digest'[e] = Append(digest[e], at[e]) /\ Passed(e)' = at[e]
        BY <1>2, <2>3 DEF Passed
      <3> QED BY ONLY <1>3, <2>1, <2>2, <3>1, <3>2, <3>3 DEF DigestFits
    <2>4. CASE wnum[e] + 1 = initNum[e] /\ Current(e) = "CHANGE_CIPHER_SPEC"
      <3>1. HashCount(at[e]) = HashCount(at[e] - 1)
        BY ONLY <1>1, <2>2, <2>4, HashSkips DEF Current
      <3>2. digest'[e] = digest[e] /\ Passed(e)' = at[e]
        BY <1>2, <2>4 DEF Passed
      <3> QED BY ONLY <1>3, <2>1, <3>1, <3>2 DEF DigestFits
    <2>5. CASE wnum[e] + 1 # initNum[e]
      <3>1. digest'[e] = digest[e] /\ Passed(e)' = Passed(e)
        BY <1>2, <2>5 DEF Passed
      <3> QED BY ONLY <1>3, <2>1, <3>1 DEF DigestFits
    <2> QED BY <2>3, <2>4, <2>5
  <1>8. LogFits(e)'
    BY ONLY <1>1, <1>2, <1>3, e \in Ends
    DEF LocalInv, OwnTypes, LogFits
  <1> QED BY <1>4, <1>5, <1>6, <1>7, <1>8 DEF LocalInv

(* Drain preserves what holds of its endpoint alone.                       *)
LEMMA DrainLocal ==
  ASSUME FlowInv, NEW e \in Ends, Drain(e)
  PROVE  LocalInv(e)'
PROOF
  <1>1. OwnTypes(e) /\ LocalInv(e) /\ ExchangeOK
    BY OwnFacts
  <1>2. /\ exchange' = exchange /\ at'[e] = at[e] /\ flow'[e] = flow[e]
        /\ sub'[e] = sub[e] /\ work'[e] = work[e] /\ initNum'[e] = initNum[e]
        /\ wnum'[e] = wnum[e] /\ keys'[e] = keys[e] /\ digest'[e] = digest[e]
        /\ log'[e] = log[e] /\ bbio'[e] = Tail(bbio[e])
        /\ flow[e] = "WRITING"
        /\ sub[e] \in {"SEND", "POST_WORK"}
        /\ bbio[e] # << >>
    BY DrainEffect
  <1>3. /\ CcsOf(e)' = CcsOf(e) /\ CcsOf(Peer(e))' = CcsOf(Peer(e))
        /\ \A n : HashCount(n)' = HashCount(n) /\ HashedAt(n)' = HashedAt(n)
    BY <1>1, <1>2, ExchangeKept
  <1>4. FlowHasSub(e)' /\ Place(e)' /\ Counts(e)'
    BY ONLY <1>1, <1>2, <1>3, e \in Ends
    DEF LocalInv, OwnTypes, FlowHasSub, Place, Counts, SentBy, Current, Ok
  <1>5. Buffered(e)'
    BY ONLY <1>1, <1>2, <1>3, e \in Ends
    DEF LocalInv, OwnTypes, FlowHasSub, Place, Buffered, SentBy, Current, Ok
  <1>6. KeysFit(e)'
    BY ONLY <1>1, <1>2, <1>3, e \in Ends
    DEF LocalInv, OwnTypes, KeysFit, Passed, Place, SentBy
  <1>7. DigestFits(e)'
    BY ONLY <1>1, <1>2, <1>3, e \in Ends
    DEF LocalInv, OwnTypes, DigestFits, Passed
  <1>8. LogFits(e)'
    BY ONLY <1>1, <1>2, <1>3, e \in Ends
    DEF LocalInv, OwnTypes, LogFits
  <1> QED BY <1>4, <1>5, <1>6, <1>7, <1>8 DEF LocalInv

(* WriteBlocks preserves what holds of its endpoint alone.                 *)
LEMMA WriteBlocksLocal ==
  ASSUME FlowInv, NEW e \in Ends, WriteBlocks(e)
  PROVE  LocalInv(e)'
PROOF
  <1>1. OwnTypes(e) /\ LocalInv(e) /\ ExchangeOK
    BY OwnFacts
  <1>2. /\ exchange' = exchange /\ at'[e] = at[e] /\ flow'[e] = flow[e]
        /\ sub'[e] = sub[e] /\ work'[e] = work[e] /\ initNum'[e] = initNum[e]
        /\ wnum'[e] = wnum[e] /\ bbio'[e] = bbio[e] /\ keys'[e] = keys[e]
        /\ digest'[e] = digest[e] /\ log'[e] = log[e]
    BY WriteBlocksEffect
  <1>3. /\ CcsOf(e)' = CcsOf(e) /\ CcsOf(Peer(e))' = CcsOf(Peer(e))
        /\ \A n : HashCount(n)' = HashCount(n) /\ HashedAt(n)' = HashedAt(n)
    BY <1>1, <1>2, ExchangeKept
  <1>4. FlowHasSub(e)' /\ Place(e)' /\ Counts(e)'
    BY ONLY <1>1, <1>2, <1>3, e \in Ends
    DEF LocalInv, OwnTypes, FlowHasSub, Place, Counts, SentBy, Current, Ok
  <1>5. Buffered(e)'
    BY ONLY <1>1, <1>2, <1>3, e \in Ends
    DEF LocalInv, OwnTypes, FlowHasSub, Place, Buffered, SentBy, Current, Ok
  <1>6. KeysFit(e)'
    BY ONLY <1>1, <1>2, <1>3, e \in Ends
    DEF LocalInv, OwnTypes, KeysFit, Passed, Place, SentBy
  <1>7. DigestFits(e)'
    BY ONLY <1>1, <1>2, <1>3, e \in Ends
    DEF LocalInv, OwnTypes, DigestFits, Passed
  <1>8. LogFits(e)'
    BY ONLY <1>1, <1>2, <1>3, e \in Ends
    DEF LocalInv, OwnTypes, LogFits
  <1> QED BY <1>4, <1>5, <1>6, <1>7, <1>8 DEF LocalInv

(* PostWork preserves what holds of its endpoint alone.                    *)
LEMMA PostWorkLocal ==
  ASSUME FlowInv, NEW e \in Ends, PostWork(e)
  PROVE  LocalInv(e)'
PROOF
  <1>1. OwnTypes(e) /\ LocalInv(e) /\ ExchangeOK
    BY OwnFacts
  <1>2. /\ exchange' = exchange /\ at'[e] = at[e] /\ flow'[e] = flow[e]
        /\ work'[e] = work[e] /\ wnum'[e] = wnum[e] /\ bbio'[e] = bbio[e]
        /\ digest'[e] = digest[e] /\ log'[e] = log[e]
        /\ sub'[e] = "TRANSITION" /\ initNum'[e] = 0
        /\ sub[e] = "POST_WORK"
        /\ flow[e] = "WRITING"
        /\ bbio[e] # << >> => ~Flushes(Current(e))
        /\ keys'[e] = IF Current(e) = "CHANGE_CIPHER_SPEC"
                         THEN keys[e] \cup {"write"} ELSE keys[e]
    BY PostWorkEffect
  <1>3. /\ CcsOf(e)' = CcsOf(e) /\ CcsOf(Peer(e))' = CcsOf(Peer(e))
        /\ \A n : HashCount(n)' = HashCount(n) /\ HashedAt(n)' = HashedAt(n)
    BY <1>1, <1>2, ExchangeKept
  <1>4. FlowHasSub(e)' /\ Place(e)' /\ Counts(e)'
    BY ONLY <1>1, <1>2, <1>3, e \in Ends
    DEF LocalInv, OwnTypes, FlowHasSub, Place, Counts, SentBy, Current, Ok
  <1>5. Buffered(e)'
    BY ONLY <1>1, <1>2, <1>3, e \in Ends
    DEF LocalInv, OwnTypes, FlowHasSub, Place, Buffered, SentBy, Current, Ok
  <1>6. KeysFit(e)'
    <2>1. CcsOf(e) \in Nat /\ CcsOf(Peer(e)) \in Nat
      BY <1>1, CcsPlaces, TwoEnds DEF OwnTypes
    <2>2. SentBy(at[e], e)
      BY <1>1, <1>2 DEF LocalInv, Place
    <2>3. /\ at[e] # CcsOf(Peer(e))
          /\ Current(e) = "CHANGE_CIPHER_SPEC" <=> at[e] = CcsOf(e)
      BY <1>1, <2>2, CcsIs DEF Current
    <2>4. KeysFit(e) /\ at[e] \in Nat
      BY <1>1 DEF LocalInv, OwnTypes
    <2>5. CASE at[e] = CcsOf(e)
      BY ONLY <1>2, <1>3, <2>1, <2>3, <2>4, <2>5 DEF KeysFit, Passed
    <2>6. CASE at[e] # CcsOf(e)
      BY ONLY <1>2, <1>3, <2>1, <2>3, <2>4, <2>6 DEF KeysFit, Passed
    <2> QED BY <2>5, <2>6
  <1>7. DigestFits(e)'
    BY ONLY <1>1, <1>2, <1>3, e \in Ends
    DEF LocalInv, OwnTypes, DigestFits, Passed
  <1>8. LogFits(e)'
    BY ONLY <1>1, <1>2, <1>3, e \in Ends
    DEF LocalInv, OwnTypes, LogFits
  <1> QED BY <1>4, <1>5, <1>6, <1>7, <1>8 DEF LocalInv

(* ReadHeader preserves what holds of its endpoint alone.                  *)
LEMMA ReadHeaderLocal ==
  ASSUME FlowInv, NEW e \in Ends, ReadHeader(e)
  PROVE  LocalInv(e)'
PROOF
  <1>1. OwnTypes(e) /\ LocalInv(e) /\ ExchangeOK
    BY OwnFacts
  <1>2. /\ exchange' = exchange /\ flow'[e] = flow[e] /\ work'[e] = work[e]
        /\ wnum'[e] = wnum[e] /\ bbio'[e] = bbio[e] /\ keys'[e] = keys[e]
        /\ digest'[e] = digest[e] /\ log'[e] = log[e]
        /\ sub[e] = "HEADER"
        /\ flow[e] = "READING"
        /\ \/ /\ HeaderComplete(e) /\ at'[e] = at[e] + 1
              /\ sub'[e] = "BODY" /\ initNum'[e] = 0
           \/ /\ ~HeaderComplete(e) /\ at'[e] = at[e]
              /\ sub'[e] = "HEADER" /\ initNum'[e] = initNum[e] + 1
        /\ net[e] # << >>
    BY ReadHeaderEffect
  <1>3. /\ CcsOf(e)' = CcsOf(e) /\ CcsOf(Peer(e))' = CcsOf(Peer(e))
        /\ \A n : HashCount(n)' = HashCount(n) /\ HashedAt(n)' = HashedAt(n)
    BY <1>1, <1>2, ExchangeKept
  <1>4. FlowHasSub(e)' /\ Place(e)' /\ Counts(e)'
    <2>1. Head(net[e]).msg = at[e] + 1
      BY <1>1, <1>2, ReaderSees DEF OwnTypes, ReadMsg, Passed
    <2>2. CASE HeaderComplete(e)
      BY ONLY <1>1, <1>2, <2>2
      DEF LocalInv, OwnTypes, FlowHasSub, Place, Counts, SentBy, Ok
    <2>3. CASE ~HeaderComplete(e)
      <3>1. /\ exchange[at[e] + 1].msg # "CHANGE_CIPHER_SPEC"
            /\ initNum[e] + 1 < HeaderUnits
        BY ONLY <1>1, <1>2, <2>1, <2>3 DEF LocalInv, OwnTypes, Counts, HeaderComplete
      <3> QED BY ONLY <1>1, <1>2, <2>3, <3>1
          DEF LocalInv, OwnTypes, FlowHasSub, Place, Counts, SentBy, Ok
    <2> QED BY <2>2, <2>3
  <1>5. Buffered(e)'
    BY ONLY <1>1, <1>2, <1>3, e \in Ends
    DEF LocalInv, OwnTypes, FlowHasSub, Place, Buffered, SentBy, Current, Ok
  <1>6. KeysFit(e)'
    <2>1. CcsOf(e) \in Nat /\ CcsOf(Peer(e)) \in Nat
      BY <1>1, CcsPlaces, TwoEnds DEF OwnTypes
    <2>2. SentBy(at[e] + 1, Peer(e))
      BY <1>1, <1>2 DEF LocalInv, Place
    <2>3. at[e] + 1 # CcsOf(e)
      BY <1>1, <2>2, CcsIs, TwoEnds
    <2>4. KeysFit(e) /\ at[e] \in Nat
      BY <1>1 DEF LocalInv, OwnTypes
    <2> QED BY ONLY <1>2, <1>3, <2>1, <2>3, <2>4 DEF KeysFit, Passed
  <1>7. DigestFits(e)'
    <2>1. digest'[e] = digest[e] /\ Passed(e)' = Passed(e) /\ DigestFits(e)
      BY <1>1, <1>2 DEF Passed, LocalInv, OwnTypes
    <2> QED BY ONLY <1>3, <2>1 DEF DigestFits
  <1>8. LogFits(e)'
    <2>1. \A k \in 1..Len(log[e]) : log[e][k][2] \in Nat
      BY <1>1, LogTypes
    <2>2. LogFits(e) /\ at[e] \in Nat /\ log'[e] = log[e]
      BY <1>1, <1>2 DEF LocalInv, OwnTypes
    <2>3. CASE at'[e] = at[e] /\ sub'[e] = "HEADER"
      BY ONLY <2>2, <2>3 DEF LogFits
    <2>4. CASE at'[e] = at[e] + 1 /\ sub'[e] = "BODY"
      <3>1. \A k \in 1..Len(log[e]) :
              log[e][k][2] <= at[e] + 1 /\ log[e][k][2] # at[e] + 1
        <4>1. ASSUME NEW k \in 1..Len(log[e]) PROVE log[e][k][2] <= at[e]
          BY ONLY <2>2, <4>1 DEF LogFits
        <4>2. at[e] \in Nat
          BY ONLY <2>2
        <4> QED BY ONLY <2>1, <4>1, <4>2
      <3> QED BY ONLY <2>2, <2>4, <3>1 DEF LogFits
    <2> QED BY ONLY <1>2, <2>3, <2>4
  <1> QED BY <1>4, <1>5, <1>6, <1>7, <1>8 DEF LocalInv

(* ReadBody preserves what holds of its endpoint alone.                    *)
LEMMA ReadBodyLocal ==
  ASSUME FlowInv, NEW e \in Ends, ReadBody(e)
  PROVE  LocalInv(e)'
PROOF
  <1>1. OwnTypes(e) /\ LocalInv(e) /\ ExchangeOK
    BY OwnFacts
  <1>2. /\ exchange' = exchange /\ at'[e] = at[e] /\ flow'[e] = flow[e]
        /\ sub'[e] = sub[e] /\ work'[e] = work[e] /\ wnum'[e] = wnum[e]
        /\ bbio'[e] = bbio[e] /\ keys'[e] = keys[e] /\ digest'[e] = digest[e]
        /\ log'[e] = log[e] /\ initNum'[e] = initNum[e] + 1
        /\ sub[e] = "BODY"
        /\ flow[e] = "READING"
        /\ BodyMissing(e)
    BY ReadBodyEffect
  <1>3. /\ CcsOf(e)' = CcsOf(e) /\ CcsOf(Peer(e))' = CcsOf(Peer(e))
        /\ \A n : HashCount(n)' = HashCount(n) /\ HashedAt(n)' = HashedAt(n)
    BY <1>1, <1>2, ExchangeKept
  <1>4. FlowHasSub(e)' /\ Place(e)' /\ Counts(e)'
    <2>1. Current(e)' = Current(e)
      BY <1>2 DEF Current
    <2> QED BY ONLY <1>1, <1>2, <2>1
        DEF LocalInv, OwnTypes, FlowHasSub, Place, Counts, SentBy, Ok, BodyMissing
  <1>5. Buffered(e)'
    BY ONLY <1>1, <1>2, <1>3, e \in Ends
    DEF LocalInv, OwnTypes, FlowHasSub, Place, Buffered, SentBy, Current, Ok
  <1>6. KeysFit(e)'
    BY ONLY <1>1, <1>2, <1>3, e \in Ends
    DEF LocalInv, OwnTypes, KeysFit, Passed, Place, SentBy
  <1>7. DigestFits(e)'
    BY ONLY <1>1, <1>2, <1>3, e \in Ends
    DEF LocalInv, OwnTypes, DigestFits, Passed
  <1>8. LogFits(e)'
    BY ONLY <1>1, <1>2, <1>3, e \in Ends
    DEF LocalInv, OwnTypes, LogFits
  <1> QED BY <1>4, <1>5, <1>6, <1>7, <1>8 DEF LocalInv

(* ReadBlocks preserves what holds of its endpoint alone.                  *)
LEMMA ReadBlocksLocal ==
  ASSUME FlowInv, NEW e \in Ends, ReadBlocks(e)
  PROVE  LocalInv(e)'
PROOF
  <1>1. OwnTypes(e) /\ LocalInv(e) /\ ExchangeOK
    BY OwnFacts
  <1>2. /\ exchange' = exchange /\ at'[e] = at[e] /\ flow'[e] = flow[e]
        /\ sub'[e] = sub[e] /\ work'[e] = work[e] /\ initNum'[e] = initNum[e]
        /\ wnum'[e] = wnum[e] /\ bbio'[e] = bbio[e] /\ keys'[e] = keys[e]
        /\ digest'[e] = digest[e] /\ log'[e] = log[e]
    BY ReadBlocksEffect
  <1>3. /\ CcsOf(e)' = CcsOf(e) /\ CcsOf(Peer(e))' = CcsOf(Peer(e))
        /\ \A n : HashCount(n)' = HashCount(n) /\ HashedAt(n)' = HashedAt(n)
    BY <1>1, <1>2, ExchangeKept
  <1>4. FlowHasSub(e)' /\ Place(e)' /\ Counts(e)'
    BY ONLY <1>1, <1>2, <1>3, e \in Ends
    DEF LocalInv, OwnTypes, FlowHasSub, Place, Counts, SentBy, Current, Ok
  <1>5. Buffered(e)'
    BY ONLY <1>1, <1>2, <1>3, e \in Ends
    DEF LocalInv, OwnTypes, FlowHasSub, Place, Buffered, SentBy, Current, Ok
  <1>6. KeysFit(e)'
    BY ONLY <1>1, <1>2, <1>3, e \in Ends
    DEF LocalInv, OwnTypes, KeysFit, Passed, Place, SentBy
  <1>7. DigestFits(e)'
    BY ONLY <1>1, <1>2, <1>3, e \in Ends
    DEF LocalInv, OwnTypes, DigestFits, Passed
  <1>8. LogFits(e)'
    BY ONLY <1>1, <1>2, <1>3, e \in Ends
    DEF LocalInv, OwnTypes, LogFits
  <1> QED BY <1>4, <1>5, <1>6, <1>7, <1>8 DEF LocalInv

(* ProcessMessage preserves what holds of its endpoint alone.              *)
LEMMA ProcessMessageLocal ==
  ASSUME FlowInv, NEW e \in Ends, ProcessMessage(e)
  PROVE  LocalInv(e)'
PROOF
  <1>1. OwnTypes(e) /\ LocalInv(e) /\ ExchangeOK
    BY OwnFacts
  <1>2. /\ exchange' = exchange /\ at'[e] = at[e] /\ wnum'[e] = wnum[e]
        /\ bbio'[e] = bbio[e] /\ work'[e] = "A" /\ initNum'[e] = 0
        /\ log'[e] = Append(log[e], <<"processed", at[e]>>)
        /\ sub[e] = "BODY"
        /\ flow[e] = "READING"
        /\ ~BodyMissing(e)
        /\ IF Current(e) = "CHANGE_CIPHER_SPEC"
             THEN keys'[e] = keys[e] \cup {"read"} /\ digest'[e] = digest[e]
             ELSE digest'[e] = Append(digest[e], at[e]) /\ keys'[e] = keys[e]
        /\ LET r == ProcessReturn(e, Current(e))
           IN \/ /\ r = "FINISHED_READING"
                 /\ flow'[e] = "WRITING" /\ sub'[e] = "TRANSITION"
              \/ /\ r = "CONTINUE_PROCESSING"
                 /\ flow'[e] = "READING" /\ sub'[e] = "POST_PROCESS"
              \/ /\ r = "CONTINUE_READING"
                 /\ flow'[e] = "READING" /\ sub'[e] = "HEADER"
    BY ProcessMessageEffect
  <1>3. /\ CcsOf(e)' = CcsOf(e) /\ CcsOf(Peer(e))' = CcsOf(Peer(e))
        /\ \A n : HashCount(n)' = HashCount(n) /\ HashedAt(n)' = HashedAt(n)
    BY <1>1, <1>2, ExchangeKept
  <1>4. FlowHasSub(e)' /\ Place(e)' /\ Counts(e)'
    <2>1. SentBy(at[e], Peer(e)) /\ wnum[e] = 0
      BY <1>1, <1>2 DEF LocalInv, Place, Counts
    <2>2. CASE ProcessReturn(e, Current(e)) = "CONTINUE_READING"
      <3>1. SentBy(at[e] + 1, Peer(e))
        BY <1>1, <2>1, <2>2, FlightGoesOn DEF Current
      <3>2. flow'[e] = "READING" /\ sub'[e] = "HEADER"
        BY ONLY <1>2, <2>2
      <3> QED BY ONLY <1>1, <1>2, <2>1, <3>1, <3>2
          DEF LocalInv, OwnTypes, FlowHasSub, Place, Counts, SentBy, Ok
    <2>3. CASE ProcessReturn(e, Current(e)) = "CONTINUE_PROCESSING"
      <3>1. flow'[e] = "READING" /\ sub'[e] = "POST_PROCESS"
        BY ONLY <1>2, <2>3
      <3>2. Current(e)' = Current(e)
        BY <1>2 DEF Current
      <3> QED BY ONLY <1>1, <1>2, <2>1, <2>3, <3>1, <3>2
          DEF LocalInv, OwnTypes, FlowHasSub, Place, Counts, SentBy, Ok
    <2>4. CASE ProcessReturn(e, Current(e)) = "FINISHED_READING"
      <3>1. flow'[e] = "WRITING" /\ sub'[e] = "TRANSITION"
        BY ONLY <1>2, <2>4
      <3> QED BY ONLY <1>1, <1>2, <2>1, <3>1
          DEF LocalInv, OwnTypes, FlowHasSub, Place, Counts, SentBy, Ok
    <2> QED BY ONLY <1>2, <2>2, <2>3, <2>4
  <1>5. Buffered(e)'
    BY ONLY <1>1, <1>2, <1>3, e \in Ends
    DEF LocalInv, OwnTypes, FlowHasSub, Place, Buffered, SentBy, Current, Ok
  <1>6. KeysFit(e)'
    <2>1. CcsOf(e) \in Nat /\ CcsOf(Peer(e)) \in Nat
      BY <1>1, CcsPlaces, TwoEnds DEF OwnTypes
    <2>2. SentBy(at[e], Peer(e))
      BY <1>1, <1>2 DEF LocalInv, Place
    <2>3. /\ at[e] # CcsOf(e)
          /\ Current(e) = "CHANGE_CIPHER_SPEC" <=> at[e] = CcsOf(Peer(e))
      BY <1>1, <2>2, CcsIs, TwoEnds DEF Current
    <2>4. KeysFit(e) /\ at[e] \in Nat /\ at'[e] = at[e] /\ sub[e] = "BODY"
      BY <1>1, <1>2 DEF LocalInv, OwnTypes
    <2>5. sub'[e] \in {"TRANSITION", "POST_PROCESS", "HEADER"}
      BY ONLY <1>2
    <2>6. keys'[e] = IF at[e] = CcsOf(Peer(e)) THEN keys[e] \cup {"read"} ELSE keys[e]
      BY ONLY <1>2, <2>3
    <2>7. CASE at[e] = CcsOf(Peer(e))
      BY ONLY <1>3, <2>1, <2>3, <2>4, <2>5, <2>6, <2>7 DEF KeysFit, Passed
    <2>8. CASE at[e] # CcsOf(Peer(e))
      BY ONLY <1>3, <2>1, <2>3, <2>4, <2>5, <2>6, <2>8 DEF KeysFit, Passed
    <2> QED BY <2>7, <2>8
  <1>7. DigestFits(e)'
    <2>1. SentBy(at[e], Peer(e)) /\ Passed(e) = at[e] - 1 /\ DigestFits(e)
      BY <1>1, <1>2 DEF LocalInv, Place, Passed
    <2>2. /\ at[e] \in 1..Len(exchange)
          /\ digest[e] \in Seq(Nat) /\ Len(digest[e]) \in Nat
      BY <1>1, <2>1 DEF SentBy, OwnTypes
    <2>3. CASE Current(e) # "CHANGE_CIPHER_SPEC"
      <3>1. /\ HashCount(at[e]) = HashCount(at[e] - 1) + 1
            /\ HashedAt(HashCount(at[e])) = at[e]
        BY ONLY <1>1, <2>2, <2>3, HashNext DEF Current
      <3>2. /\ Len(Append(digest[e], at[e])) = Len(digest[e]) + 1
            /\ \A k \in 1..Len(digest[e]) : Append(digest[e], at[e])[k] = digest[e][k]
            /\ Append(digest[e], at[e])[Len(digest[e]) + 1] = at[e]
        BY ONLY <2>2, AppendProperties
      <3>3. digest'[e] = Append(digest[e], at[e]) /\ Passed(e)' = at[e]
        BY <1>2, <2>3 DEF Passed
      <3> QED BY ONLY <1>3, <2>1, <2>2, <3>1, <3>2, <3>3 DEF DigestFits
    <2>4. CASE Current(e) = "CHANGE_CIPHER_SPEC"
      <3>1. HashCount(at[e]) = HashCount(at[e] - 1)
        BY ONLY <1>1, <2>2, <2>4, HashSkips DEF Current
      <3>2. digest'[e] = digest[e] /\ Passed(e)' = at[e]
        BY <1>2, <2>4 DEF Passed
      <3> QED BY ONLY <1>3, <2>1, <3>1, <3>2 DEF DigestFits
    <2> QED BY <2>3, <2>4
  <1>8. LogFits(e)'
    <2>1. LogFits(e) /\ IsInjective(log[e]) /\ at[e] \in Nat
      BY <1>1 DEF LocalInv, LogFits, OwnTypes
    <2>2. \A k \in 1..Len(log[e]) : log[e][k] # <<"processed", at[e]>>
      BY ONLY <1>2, <2>1 DEF LogFits
    <2>3. /\ IsInjective(log'[e])
          /\ \A k \in 1..Len(log'[e]) :
               \/ k \in 1..Len(log[e]) /\ log'[e][k] = log[e][k]
               \/ log'[e][k] = <<"processed", at[e]>>
      BY <1>1, <1>2, <2>1, <2>2, LogAppend
    <2>4. ASSUME NEW k \in 1..Len(log'[e])
          PROVE  log'[e][k][2] <= at[e]
      <3>1. CASE log'[e][k] = <<"processed", at[e]>>
        BY ONLY <2>1, <3>1
      <3>2. CASE k \in 1..Len(log[e]) /\ log'[e][k] = log[e][k]
        BY ONLY <2>1, <3>2 DEF LogFits
      <3> QED BY ONLY <2>3, <2>4, <3>1, <3>2
    <2>5. sub'[e] \notin {"PRE_WORK", "BODY"} /\ at'[e] = at[e] /\ sub[e] = "BODY"
      BY ONLY <1>2
    <2>6. ASSUME NEW k \in 1..Len(log'[e])
          PROVE  log'[e][k] # <<"stage_A", at[e]>>
      <3>1. CASE log'[e][k] = <<"processed", at[e]>>
        BY ONLY <2>1, <3>1
      <3>2. CASE k \in 1..Len(log[e]) /\ log'[e][k] = log[e][k]
        <4>1. log[e][k][2] # at[e]
          BY ONLY <2>1, <2>5, <3>2 DEF LogFits
        <4> QED BY ONLY <3>2, <4>1
      <3> QED BY ONLY <2>3, <2>6, <3>1, <3>2
    <2> QED BY ONLY <2>3, <2>4, <2>5, <2>6 DEF LogFits
  <1> QED BY <1>4, <1>5, <1>6, <1>7, <1>8 DEF LocalInv

(* PostProcess preserves what holds of its endpoint alone.                 *)
LEMMA PostProcessLocal ==
  ASSUME FlowInv, NEW e \in Ends, PostProcess(e)
  PROVE  LocalInv(e)'
PROOF
  <1>1. OwnTypes(e) /\ LocalInv(e) /\ ExchangeOK
    BY OwnFacts
  <1>2. /\ exchange' = exchange /\ at'[e] = at[e] /\ work'[e] = work[e]
        /\ initNum'[e] = initNum[e] /\ wnum'[e] = wnum[e]
        /\ bbio'[e] = bbio[e] /\ keys'[e] = keys[e] /\ digest'[e] = digest[e]
        /\ sub[e] = "POST_PROCESS"
        /\ flow[e] = "READING"
        /\ IF Current(e) = "CLIENT_HELLO"
             THEN flow'[e] = "WRITING" /\ sub'[e] = "TRANSITION"
             ELSE flow'[e] = "READING" /\ sub'[e] = "HEADER"
        /\ log'[e] = IF work[e] = "A"
                         THEN Append(log[e], <<"stage_A", at[e]>>) ELSE log[e]
    BY PostProcessEffect
  <1>3. /\ CcsOf(e)' = CcsOf(e) /\ CcsOf(Peer(e))' = CcsOf(Peer(e))
        /\ \A n : HashCount(n)' = HashCount(n) /\ HashedAt(n)' = HashedAt(n)
    BY <1>1, <1>2, ExchangeKept
  <1>4. FlowHasSub(e)' /\ Place(e)' /\ Counts(e)'
    <2>1. /\ SentBy(at[e], Peer(e)) /\ wnum[e] = 0 /\ initNum[e] = 0
          /\ ProcessReturn(e, Current(e)) = "CONTINUE_PROCESSING"
      BY <1>1, <1>2 DEF LocalInv, Place, Counts
    <2>2. CASE Current(e) = "CLIENT_HELLO"
      <3>1. flow'[e] = "WRITING" /\ sub'[e] = "TRANSITION"
        BY ONLY <1>2, <2>2
      <3>2. at[e] <= Len(exchange)
        BY <1>1, <2>1 DEF OwnTypes, SentBy
      <3> QED BY ONLY <1>2, <2>1, <3>1, <3>2
          DEF FlowHasSub, Place, Counts, SentBy, Ok
    <2>3. CASE Current(e) # "CLIENT_HELLO"
      <3>1. flow'[e] = "READING" /\ sub'[e] = "HEADER"
        BY ONLY <1>2, <2>3
      <3>2. SentBy(at[e] + 1, Peer(e)) /\ HeaderUnits > 0
        BY <1>1, <2>1, <2>3, FlightGoesOn DEF Current, OwnTypes
      <3> QED BY ONLY <1>2, <2>1, <3>1, <3>2
          DEF FlowHasSub, Place, Counts, SentBy, Ok
    <2> QED BY <2>2, <2>3
  <1>5. Buffered(e)'
    BY ONLY <1>1, <1>2, <1>3, e \in Ends
    DEF LocalInv, OwnTypes, FlowHasSub, Place, Buffered, SentBy, Current, Ok
  <1>6. KeysFit(e)'
    BY ONLY <1>1, <1>2, <1>3, e \in Ends
    DEF LocalInv, OwnTypes, KeysFit, Passed, Place, SentBy
  <1>7. DigestFits(e)'
    BY ONLY <1>1, <1>2, <1>3, e \in Ends
    DEF LocalInv, OwnTypes, DigestFits, Passed
  <1>8. LogFits(e)'
    <2>1. CASE work[e] = "A"
      <3>1. LogFits(e) /\ IsInjective(log[e]) /\ at[e] \in Nat
        BY <1>1 DEF LocalInv, LogFits, OwnTypes
      <3>2. \A k \in 1..Len(log[e]) : log[e][k] # <<"stage_A", at[e]>>
        BY ONLY <1>2, <2>1, <3>1 DEF LogFits
      <3>3. /\ IsInjective(log'[e])
            /\ \A k \in 1..Len(log'[e]) :
                 \/ k \in 1..Len(log[e]) /\ log'[e][k] = log[e][k]
                 \/ log'[e][k] = <<"stage_A", at[e]>>
        BY <1>1, <1>2, <2>1, <3>1, <3>2, LogAppend
      <3>4. ASSUME NEW k \in 1..Len(log'[e])
            PROVE  log'[e][k][2] <= at[e]
        <4>1. CASE log'[e][k] = <<"stage_A", at[e]>>
          <5>1. log'[e][k][2] = at[e]
            BY ONLY <4>1
          <5>2. at[e] \in Nat
            BY ONLY <3>1
          <5> QED BY ONLY <5>1, <5>2
        <4>2. CASE k \in 1..Len(log[e]) /\ log'[e][k] = log[e][k]
          BY ONLY <3>1, <4>2 DEF LogFits
        <4> QED BY ONLY <3>3, <3>4, <4>1, <4>2
      <3>5. sub'[e] \in {"TRANSITION", "HEADER"} /\ at'[e] = at[e]
        BY ONLY <1>2
      <3> QED BY ONLY <3>3, <3>4, <3>5 DEF LogFits
    <2>2. CASE work[e] # "A"
      <3>1. /\ sub'[e] \in {"TRANSITION", "HEADER"} /\ at'[e] = at[e]
            /\ log'[e] = log[e] /\ LogFits(e)
        BY ONLY <1>1, <1>2, <2>2 DEF LocalInv
      <3> QED BY ONLY <3>1 DEF LogFits
    <2> QED BY <2>1, <2>2
  <1> QED BY <1>4, <1>5, <1>6, <1>7, <1>8 DEF LocalInv

(* PostProcessRetry preserves what holds of its endpoint alone.            *)
LEMMA PostProcessRetryLocal ==
  ASSUME FlowInv, NEW e \in Ends, PostProcessRetry(e)
  PROVE  LocalInv(e)'
PROOF
  <1>1. OwnTypes(e) /\ LocalInv(e) /\ ExchangeOK
    BY OwnFacts
  <1>2. /\ exchange' = exchange /\ at'[e] = at[e] /\ flow'[e] = flow[e]
        /\ sub'[e] = sub[e] /\ initNum'[e] = initNum[e] /\ wnum'[e] = wnum[e]
        /\ bbio'[e] = bbio[e] /\ keys'[e] = keys[e] /\ digest'[e] = digest[e]
        /\ sub[e] = "POST_PROCESS"
        /\ \/ work'[e] = work[e] /\ log'[e] = log[e]
           \/ /\ work'[e] = "B"
              /\ log'[e] = IF work[e] = "A"
                            THEN Append(log[e], <<"stage_A", at[e]>>)
                            ELSE log[e]
    BY PostProcessRetryEffect
  <1>3. /\ CcsOf(e)' = CcsOf(e) /\ CcsOf(Peer(e))' = CcsOf(Peer(e))
        /\ \A n : HashCount(n)' = HashCount(n) /\ HashedAt(n)' = HashedAt(n)
    BY <1>1, <1>2, ExchangeKept
  <1>4. FlowHasSub(e)' /\ Place(e)' /\ Counts(e)'
    BY ONLY <1>1, <1>2, <1>3, e \in Ends
    DEF LocalInv, OwnTypes, FlowHasSub, Place, Counts, SentBy, Current, Ok
  <1>5. Buffered(e)'
    BY ONLY <1>1, <1>2, <1>3, e \in Ends
    DEF LocalInv, OwnTypes, FlowHasSub, Place, Buffered, SentBy, Current, Ok
  <1>6. KeysFit(e)'
    BY ONLY <1>1, <1>2, <1>3, e \in Ends
    DEF LocalInv, OwnTypes, KeysFit, Passed, Place, SentBy
  <1>7. DigestFits(e)'
    BY ONLY <1>1, <1>2, <1>3, e \in Ends
    DEF LocalInv, OwnTypes, DigestFits, Passed
  <1>8. LogFits(e)'
    <2>1. CASE work[e] = "A" /\ work'[e] = "B"
               /\ log'[e] = Append(log[e], <<"stage_A", at[e]>>)
      <3>1. LogFits(e) /\ IsInjective(log[e]) /\ at[e] \in Nat
        BY <1>1 DEF LocalInv, LogFits, OwnTypes
      <3>2. \A k \in 1..Len(log[e]) : log[e][k] # <<"stage_A", at[e]>>
        BY ONLY <1>2, <2>1, <3>1 DEF LogFits
      <3>3. /\ IsInjective(log'[e])
            /\ \A k \in 1..Len(log'[e]) :
                 \/ k \in 1..Len(log[e]) /\ log'[e][k] = log[e][k]
                 \/ log'[e][k] = <<"stage_A", at[e]>>
        BY <1>1, <1>2, <2>1, <3>1, <3>2, LogAppend
      <3>4. ASSUME NEW k \in 1..Len(log'[e])
            PROVE  log'[e][k][2] <= at[e]
        <4>1. CASE log'[e][k] = <<"stage_A", at[e]>>
          <5>1. log'[e][k][2] = at[e]
            BY ONLY <4>1
          <5>2. at[e] \in Nat
            BY ONLY <3>1
          <5> QED BY ONLY <5>1, <5>2
        <4>2. CASE k \in 1..Len(log[e]) /\ log'[e][k] = log[e][k]
          BY ONLY <3>1, <4>2 DEF LogFits
        <4> QED BY ONLY <3>3, <3>4, <4>1, <4>2
      <3>5. /\ sub'[e] = "POST_PROCESS" /\ work'[e] = "B"
            /\ at'[e] = at[e]
        BY ONLY <1>2, <2>1
      <3> QED BY ONLY <3>3, <3>4, <3>5 DEF LogFits
    <2>2. CASE log'[e] = log[e] /\ (work'[e] = work[e] \/ work'[e] = "B")
      <3>1. /\ sub'[e] = sub[e] /\ at'[e] = at[e] /\ LogFits(e)
        BY ONLY <1>1, <1>2 DEF LocalInv
      <3> QED BY ONLY <2>2, <3>1 DEF LogFits
    <2> QED BY ONLY <1>2, <2>1, <2>2
  <1> QED BY <1>4, <1>5, <1>6, <1>7, <1>8 DEF LocalInv

-----------------------------------------------------------------------------
(* What the reader takes is the first unit: it then expects the next.      *)
LEMMA ChainTail ==
  ASSUME NEW x, NEW e, NEW c, NEW n, NEW w, NEW m, NEW q,
         NEW s \in Seq(Units), s # << >>, Chain(x, e, c, n, w, m, q, s),
         NEW m2, NEW q2, Follows(x, s[1], m2, q2)
  PROVE  Chain(x, e, c, n, w, m2, q2, Tail(s))
PROOF
  <1>1. /\ Len(s) \in Nat /\ Len(s) > 0 /\ Len(Tail(s)) = Len(s) - 1
        /\ \A k \in 1..(Len(s) - 1) : Tail(s)[k] = s[k + 1]
        /\ Tail(s) \in Seq(Units)
    BY EmptySeq
  <1>2. \A k \in 1..Len(Tail(s)) : UnitOK(x, e, c, n, Tail(s)[k])
    BY <1>1 DEF Chain
  <1>3. \A k \in 1..(Len(Tail(s)) - 1) :
          Follows(x, Tail(s)[k], Tail(s)[k + 1].msg, Tail(s)[k + 1].part)
    <2>1. \A k \in 1..(Len(s) - 1) :
            Follows(x, s[k], s[k + 1].msg, s[k + 1].part)
      BY DEF Chain
    <2> QED BY ONLY <1>1, <2>1
  <1>4. ASSUME Tail(s) = << >>
        PROVE  m2 = n + 1 /\ q2 = w + 1
    <2>1. Len(Tail(s)) = 0
      BY <1>4, EmptySeq
    <2>2. Len(s) \in Nat /\ Len(Tail(s)) = Len(s) - 1
      BY <1>1
    <2>3. Len(s) = 1
      BY ONLY <2>1, <2>2
    <2> QED BY <2>3 DEF Chain, Follows
  <1>5. ASSUME Tail(s) # << >>
        PROVE  /\ Tail(s)[1].msg = m2 /\ Tail(s)[1].part = q2
               /\ Follows(x, Tail(s)[Len(Tail(s))], n + 1, w + 1)
    <2>1. Len(s) > 1
      BY <1>1, <1>5, EmptySeq
    <2>2. Tail(s)[1] = s[2] /\ Tail(s)[Len(Tail(s))] = s[Len(s)]
      BY ONLY <1>1, <2>1
    <2>3. Follows(x, s[1], s[2].msg, s[2].part)
      BY ONLY <1>1, <2>1, Chain(x, e, c, n, w, m, q, s) DEF Chain
    <2>4. s[2].msg = m2 /\ s[2].part = q2
      BY <2>3 DEF Follows
    <2> QED BY <2>2, <2>4 DEF Chain
  <1> QED BY ONLY <1>2, <1>3, <1>4, <1>5 DEF Chain

(* What the writer writes is the last unit.                                *)
LEMMA ChainAppend ==
  ASSUME NEW x, NEW e, NEW c, NEW n \in Nat, NEW w, NEW m, NEW q,
         NEW s \in Seq(Units), Chain(x, e, c, n, w, m, q, s),
         NEW u \in Units, u.msg = n + 1, u.part = w + 1,
         UnitOK(x, e, c, n, u),
         NEW n2 \in Nat, NEW w2, n <= n2, Follows(x, u, n2 + 1, w2 + 1)
  PROVE  Chain(x, e, c, n2, w2, m, q, Append(s, u))
PROOF
  <1> DEFINE t == Append(s, u)
  <1>1. /\ t \in Seq(Units) /\ Len(s) \in Nat /\ Len(t) = Len(s) + 1
        /\ \A k \in 1..Len(s) : t[k] = s[k]
        /\ t[Len(s) + 1] = u /\ t # << >>
    BY AppendProperties
  <1> HIDE DEF t
  <1>2. ASSUME NEW k \in 1..Len(t)
        PROVE  UnitOK(x, e, c, n2, t[k])
    <2>1. t[k] \in Units
      BY <1>1
    <2>2. UnitOK(x, e, c, n, t[k])
      BY <1>1 DEF Chain
    <2> QED BY <2>1, <2>2 DEF UnitOK, Units
  <1>3. ASSUME NEW k \in 1..(Len(t) - 1)
        PROVE  Follows(x, t[k], t[k + 1].msg, t[k + 1].part)
    <2>1. CASE k + 1 \in 1..Len(s)
      BY <1>1, <2>1 DEF Chain
    <2>2. CASE k = Len(s)
      <3>1. s # << >> /\ t[k] = s[Len(s)] /\ t[k + 1] = u
        BY <1>1, <2>2
      <3> QED BY <3>1 DEF Chain
    <2> QED BY <1>1, <2>1, <2>2
  <1>4. t[1].msg = m /\ t[1].part = q
    <2>1. CASE s = << >>
      <3>1. t[1] = u
        BY <1>1, <2>1
      <3> QED BY <2>1, <3>1 DEF Chain
    <2>2. CASE s # << >>
      <3>1. t[1] = s[1]
        BY <1>1, <2>2, EmptySeq
      <3> QED BY <2>2, <3>1 DEF Chain
    <2> QED BY <2>1, <2>2
  <1>5. Follows(x, t[Len(t)], n2 + 1, w2 + 1)
    BY <1>1
  <1>6. Chain(x, e, c, n2, w2, m, q, t)
    BY ONLY <1>1, <1>2, <1>3, <1>4, <1>5 DEF Chain
  <1> QED BY <1>6 DEF t

-----------------------------------------------------------------------------
(* What the stream looks like depends on little.                           *)
SameView(e) ==
  /\ Passed(e)' = Passed(e) /\ ReadMsg(e)' = ReadMsg(e)
  /\ ReadPart(e)' = ReadPart(e) /\ wnum'[e] = wnum[e]
  /\ sub'[e] = "BODY" <=> sub[e] = "BODY"

LEMMA StreamSame ==
  ASSUME FlowInv, exchange' = exchange,
         \A e \in Ends : SameView(e) /\ Way(e)' = Way(e)
  PROVE  Stream'
PROOF
  <1>1. ExchangeOK /\ Stream
    BY ExchangeShape DEF FlowInv, Types
  <1>2. ASSUME NEW e \in Ends, Turn(e)
        PROVE  Turn(e)'
    <2>1. Peer(e) \in Ends /\ Peer(Peer(e)) = e
      BY TwoEnds
    <2>2. CcsOf(e)' = CcsOf(e)
      BY <1>1, ExchangeKept
    <2>3. /\ Passed(e)' = Passed(e) /\ wnum'[e] = wnum[e] /\ Way(e)' = Way(e)
          /\ ReadPart(e)' = ReadPart(e) /\ (sub'[e] = "BODY" <=> sub[e] = "BODY")
      BY DEF SameView
    <2>4. /\ Passed(Peer(e))' = Passed(Peer(e)) /\ Way(Peer(e))' = Way(Peer(e))
          /\ ReadMsg(Peer(e))' = ReadMsg(Peer(e))
          /\ ReadPart(Peer(e))' = ReadPart(Peer(e))
      BY <2>1 DEF SameView
    <2>5. WayOK(e)'
      <3>1. WayOK(e)
        BY <1>2 DEF Turn
      <3> QED BY ONLY <2>2, <2>3, <2>4, <3>1, exchange' = exchange DEF WayOK
    <2> QED BY ONLY <1>2, <2>3, <2>4, <2>5, exchange' = exchange DEF Turn
  <1>3. Settled => Settled'
    BY DEF Settled, SameView
  <1> QED BY <1>1, <1>2, <1>3 DEF Stream, Ends

(* A step of the other endpoint leaves what it is past and expects alone.  *)
LEMMA OtherView ==
  ASSUME FlowInv, NEW e \in Ends, Step(e) \/ PostProcessRetry(e),
         NEW q \in Ends, q # e
  PROVE  SameView(q) /\ sub'[q] = sub[q] /\ bbio'[q] = bbio[q]
PROOF
  <1>1. /\ at'[q] = at[q] /\ sub'[q] = sub[q] /\ initNum'[q] = initNum[q]
        /\ wnum'[q] = wnum[q] /\ exchange' = exchange /\ bbio'[q] = bbio[q]
    BY OtherKept
  <1> QED
    BY ONLY <1>1 DEF SameView, Passed, ReadMsg, ReadPart, BodyMissing, Current

(* So a step that neither moves units nor changes what its own endpoint is *)
(* past and expects leaves the stream as it is.                            *)
LEMMA QuietStep ==
  ASSUME FlowInv, NEW e \in Ends, Step(e) \/ PostProcessRetry(e),
         SameView(e), bbio'[e] = bbio[e], net' = net
  PROVE  Stream'
PROOF
  <1>1. exchange' = exchange /\ SameView(Peer(e)) /\ bbio'[Peer(e)] = bbio[Peer(e)]
    BY TwoEnds, OtherView, OtherKept
  <1>2. \A q \in Ends : SameView(q) /\ Way(q)' = Way(q)
    BY <1>1, TwoEnds DEF Way
  <1> QED BY <1>1, <1>2, StreamSame

(* The steps between the units: control moves, and the stream does not.    *)
LEMMA ControlStream ==
  ASSUME FlowInv, NEW e \in Ends,
         \/ Call(e) \/ WriteTransition(e) \/ FinishHandshake(e) \/ Construct(e)
         \/ WriteBlocks(e) \/ PostWork(e) \/ ReadBlocks(e) \/ PostProcess(e)
         \/ PostProcessRetry(e)
  PROVE  Stream'
PROOF
  <1>1. OwnTypes(e) /\ LocalInv(e) /\ ExchangeOK
    BY OwnFacts
  <1>2. Step(e) \/ PostProcessRetry(e)
    BY DEF Step
  <1>3. net' = net
    BY DEF Call, WriteTransition, FinishHandshake, Construct, WriteBlocks,
           PostWork, ReadBlocks, PostProcess, PostProcessRetry, Return
  <1>4. ASSUME exchange' = exchange, at'[e] = at[e], sub'[e] = sub[e],
               initNum'[e] = initNum[e], wnum'[e] = wnum[e], bbio'[e] = bbio[e]
        PROVE  Stream'
    <2>1. SameView(e)
      BY ONLY <1>4
      DEF SameView, Passed, ReadMsg, ReadPart, BodyMissing, Current
    <2> QED BY <1>2, <1>3, <1>4, <2>1, QuietStep
  <1>5. CASE Call(e)
    BY <1>4, <1>5, CallEffect
  <1>6. CASE WriteTransition(e)
    <2>1. initNum[e] = 0 /\ at[e] \in Nat
      BY <1>1, <1>6, WriteTransitionEffect DEF LocalInv, Counts, OwnTypes
    <2>2. /\ exchange' = exchange /\ initNum'[e] = initNum[e]
          /\ wnum'[e] = wnum[e] /\ bbio'[e] = bbio[e] /\ sub[e] = "TRANSITION"
          /\ \/ at'[e] = at[e] + 1 /\ sub'[e] = "PRE_WORK"
             \/ at'[e] = at[e] /\ sub'[e] = "HEADER"
      BY <1>6, WriteTransitionEffect
    <2>3. SameView(e)
      BY ONLY <2>1, <2>2 DEF SameView, Passed, ReadMsg, ReadPart
    <2> QED BY <1>2, <1>3, <2>2, <2>3, QuietStep
  <1>7. CASE FinishHandshake(e)
    <2>1. /\ exchange' = exchange /\ at'[e] = at[e] /\ sub'[e] = sub[e]
          /\ wnum'[e] = wnum[e] /\ initNum'[e] = 0 /\ bbio'[e] = << >>
          /\ at[e] = Ok /\ sub[e] = "PRE_WORK"
      BY <1>7, FinishHandshakeEffect
    <2>2. initNum[e] = 0
      BY <1>1, <2>1 DEF LocalInv, Counts
    <2>3. bbio[e] = << >>
      BY <1>1, <2>1 DEF LocalInv, Buffered, SentBy, Ok, OwnTypes
    <2> QED BY <1>4, <2>1, <2>2, <2>3
  <1>8. CASE Construct(e)
    <2>1. /\ exchange' = exchange /\ at'[e] = at[e] /\ sub'[e] = "SEND"
          /\ wnum'[e] = wnum[e] /\ bbio'[e] = bbio[e] /\ sub[e] = "PRE_WORK"
      BY <1>8, ConstructEffect
    <2>2. SameView(e)
      BY ONLY <2>1 DEF SameView, Passed, ReadMsg, ReadPart
    <2> QED BY <1>2, <1>3, <2>1, <2>2, QuietStep
  <1>9. CASE WriteBlocks(e)
    BY <1>4, <1>9, WriteBlocksEffect
  <1>10. CASE PostWork(e)
    <2>1. /\ exchange' = exchange /\ at'[e] = at[e] /\ sub'[e] = "TRANSITION"
          /\ wnum'[e] = wnum[e] /\ bbio'[e] = bbio[e] /\ sub[e] = "POST_WORK"
      BY <1>10, PostWorkEffect
    <2>2. SameView(e)
      BY ONLY <2>1 DEF SameView, Passed, ReadMsg, ReadPart
    <2> QED BY <1>2, <1>3, <2>1, <2>2, QuietStep
  <1>11. CASE ReadBlocks(e)
    BY <1>4, <1>11, ReadBlocksEffect
  <1>12. CASE PostProcess(e)
    <2>1. /\ exchange' = exchange /\ at'[e] = at[e] /\ initNum'[e] = initNum[e]
          /\ wnum'[e] = wnum[e] /\ bbio'[e] = bbio[e]
          /\ sub[e] = "POST_PROCESS"
          /\ sub'[e] = "TRANSITION" \/ sub'[e] = "HEADER"
      BY <1>12, PostProcessEffect
    <2>2. initNum[e] = 0
      BY <1>1, <2>1 DEF LocalInv, Counts
    <2>3. SameView(e)
      BY ONLY <2>1, <2>2 DEF SameView, Passed, ReadMsg, ReadPart
    <2> QED BY <1>2, <1>3, <2>1, <2>3, QuietStep
  <1>13. CASE PostProcessRetry(e)
    BY <1>4, <1>13, PostProcessRetryEffect
  <1> QED
    BY <1>5, <1>6, <1>7, <1>8, <1>9, <1>10, <1>11, <1>12, <1>13

(* A unit that goes from the buffer to the socket leaves it, too.          *)
LEMMA DrainStream ==
  ASSUME FlowInv, NEW e \in Ends, Drain(e)
  PROVE  Stream'
PROOF
  <1>0. Peer(e) \in Ends /\ Peer(e) # e /\ Peer(Peer(e)) = e
        /\ \A q \in Ends : q = e \/ q = Peer(e)
    BY TwoEnds
  <1>1. /\ exchange' = exchange /\ at'[e] = at[e] /\ sub'[e] = sub[e]
        /\ initNum'[e] = initNum[e] /\ wnum'[e] = wnum[e]
        /\ bbio'[e] = Tail(bbio[e]) /\ bbio[e] # << >>
    BY DrainEffect
  <1>2. SameView(e)
    BY ONLY <1>1 DEF SameView, Passed, ReadMsg, ReadPart, BodyMissing, Current
  <1>3. SameView(Peer(e)) /\ bbio'[Peer(e)] = bbio[Peer(e)]
    BY <1>0, OtherView DEF Step
  <1>4. /\ net'[Peer(e)] = Append(net[Peer(e)], Head(bbio[e]))
        /\ net'[e] = net[e]
    BY <1>0 DEF Drain, Set, FlowInv, Types, DataTypes
  <1>5. Way(e)' = Way(e)
    <2>1. net[Peer(e)] \in Seq(Units) /\ bbio[e] \in Seq(Units)
      BY <1>0, WayType DEF FlowInv
    <2>2. Append(net[Peer(e)], Head(bbio[e])) \o Tail(bbio[e])
            = net[Peer(e)] \o bbio[e]
      BY ONLY <1>1, <2>1, MoveAcross, Zenon
    <2> QED BY ONLY <1>1, <1>4, <2>2 DEF Way
  <1>6. Way(Peer(e))' = Way(Peer(e))
    BY <1>0, <1>3, <1>4 DEF Way
  <1> QED BY <1>0, <1>1, <1>2, <1>3, <1>5, <1>6, StreamSame

(* A unit that is written is the one the stream goes on with.              *)
LEMMA WriteStream ==
  ASSUME FlowInv, NEW e \in Ends, Write(e)
  PROVE  Stream'
PROOF
  <1> DEFINE p == Peer(e)
             u == Unit(e)
  <1>0. p \in Ends /\ p # e /\ Peer(p) = e
    BY TwoEnds
  <1>1. OwnTypes(e) /\ LocalInv(e) /\ ExchangeOK
    BY OwnFacts
  <1>2. /\ exchange' = exchange /\ at'[e] = at[e] /\ sub[e] = "SEND"
        /\ bbio'[e] = Append(bbio[e], u)
        /\ IF wnum[e] + 1 = initNum[e]
             THEN wnum'[e] = 0 /\ sub'[e] = "POST_WORK"
             ELSE wnum'[e] = wnum[e] + 1 /\ sub'[e] = "SEND"
    BY WriteEffect
  <1>3. /\ at[e] \in Nat /\ SentBy(at[e], e) /\ wnum[e] \in Nat
        /\ initNum[e] = MessageUnits(exchange[at[e]].msg)
        /\ wnum[e] < initNum[e] /\ initNum[e] \in Nat
    BY ONLY <1>1, <1>2 DEF LocalInv, OwnTypes, Place, Counts, Current
  <1>4. u.msg = at[e] /\ u.part = wnum[e] + 1 /\ u.key = ("write" \in keys[e])
        /\ u \in Units
    BY <1>3 DEF Unit, Units
  <1> HIDE DEF u
  <1>5. Passed(e) = at[e] - 1 /\ Passed(e) \in Nat /\ u.msg = Passed(e) + 1
    BY ONLY <1>2, <1>3, <1>4 DEF Passed, SentBy
  <1>6. UnitOK(exchange, e, CcsOf(e), Passed(e), u)
    <2>1. ("write" \in keys[e]) = (CcsOf(e) < at[e])
      BY ONLY <1>1, <1>2 DEF LocalInv, KeysFit
    <2> QED BY ONLY <1>3, <1>4, <1>5, <2>1 DEF UnitOK, SentBy
  <1>7. /\ Passed(e)' \in Nat /\ Passed(e) <= Passed(e)'
        /\ Follows(exchange, u, Passed(e)' + 1, wnum'[e] + 1)
    <2>1. CASE wnum[e] + 1 = initNum[e]
      <3>1. Passed(e)' = at[e] /\ wnum'[e] = 0
        BY ONLY <1>2, <2>1 DEF Passed
      <3>2. MessageUnits(exchange[u.msg].msg) = initNum[e]
        BY ONLY <1>3, <1>4
      <3>3. Follows(exchange, u, Passed(e)' + 1, wnum'[e] + 1)
        BY ONLY <1>3, <1>4, <2>1, <3>1, <3>2 DEF Follows
      <3> QED BY ONLY <1>3, <1>5, <3>1, <3>3
    <2>2. CASE wnum[e] + 1 # initNum[e]
      <3>1. Passed(e)' = at[e] - 1 /\ wnum'[e] = wnum[e] + 1
        BY ONLY <1>2, <2>2 DEF Passed
      <3>2. MessageUnits(exchange[u.msg].msg) = initNum[e]
        BY ONLY <1>3, <1>4
      <3>3. Follows(exchange, u, Passed(e)' + 1, wnum'[e] + 1)
        BY ONLY <1>3, <1>4, <2>2, <3>1, <3>2 DEF Follows
      <3> QED BY ONLY <1>3, <1>5, <3>1, <3>3
    <2> QED BY <2>1, <2>2
  <1>8. /\ SameView(p) /\ bbio'[p] = bbio[p] /\ net' = net
        /\ CcsOf(e)' = CcsOf(e)
    BY <1>0, <1>1, <1>2, OtherView, ExchangeKept DEF Step, Write
  <1>9. Way(p)' = Way(p)
    BY <1>8 DEF Way
  <1>10. Way(e)' = Append(Way(e), u) /\ Way(e) \in Seq(Units)
    <2>1. net[p] \in Seq(Units) /\ bbio[e] \in Seq(Units)
      BY <1>0, WayType DEF FlowInv
    <2>2. net[p] \o Append(bbio[e], u) = Append(net[p] \o bbio[e], u)
          /\ net[p] \o bbio[e] \in Seq(Units)
      BY ONLY <1>4, <2>1, AppendLast, Zenon
    <2> QED BY ONLY <1>2, <1>8, <2>2 DEF Way
  <1>11. Turn(e)
    BY <1>2, SenderLeads
  <1>12. WayOK(e)'
    <2>1. Chain(exchange, e, CcsOf(e), Passed(e), wnum[e], ReadMsg(p),
                ReadPart(p), Way(e))
      BY <1>11 DEF Turn, WayOK
    <2>2. Chain(exchange, e, CcsOf(e), Passed(e)', wnum'[e], ReadMsg(p),
                ReadPart(p), Append(Way(e), u))
      BY ONLY <1>4, <1>5, <1>6, <1>7, <1>10, <2>1, ChainAppend, Zenon
    <2> QED BY ONLY <1>2, <1>8, <1>10, <2>2 DEF WayOK, SameView
  <1>13. sub'[e] # "BODY" /\ ReadPart(e)' = 1
    BY ONLY <1>2 DEF ReadPart
  <1>14. Passed(p) \in Nat
    BY <1>0, PassedType
  <1>15. Turn(e)'
    BY ONLY <1>2, <1>5, <1>7, <1>8, <1>9, <1>11, <1>12, <1>13, <1>14
    DEF Turn, SameView
  <1> QED BY <1>15 DEF Stream, Ends

(* A reader that takes the first unit and then expects the next one leaves *)
(* the rest of the stream in order.                                        *)
LEMMA TakeStream ==
  ASSUME FlowInv, NEW e \in Ends, Step(e), net[e] # << >>,
         net' = Set(net, e, Tail(net[e])), bbio'[e] = bbio[e],
         Passed(e)' = Passed(e),
         Follows(exchange, Head(net[e]), ReadMsg(e)', ReadPart(e)')
  PROVE  Stream'
PROOF
  <1> DEFINE p == Peer(e)
  <1>0. p \in Ends /\ p # e /\ Peer(p) = e
    BY TwoEnds
  <1>1. ExchangeOK /\ exchange' = exchange /\ CcsOf(p)' = CcsOf(p)
    BY <1>0, OwnFacts, OtherKept, ExchangeKept
  <1>2. SameView(p) /\ bbio'[p] = bbio[p] /\ sub'[p] = sub[p]
    BY <1>0, OtherView
  <1>3. net'[e] = Tail(net[e]) /\ net'[p] = net[p]
    BY <1>0 DEF Set, FlowInv, Types, DataTypes
  <1>4. Turn(p)
    BY ReaderSees
  <1>5. Way(e)' = Way(e)
    BY <1>3 DEF Way
  <1>6. /\ Way(p)' = Tail(Way(p)) /\ Way(p)[1] = Head(net[e])
        /\ Way(p) # << >> /\ Way(p) \in Seq(Units)
    <2>1. net[e] \in Seq(Units) /\ bbio[p] \in Seq(Units)
      BY <1>0, WayType DEF FlowInv
    <2>2. /\ Tail(net[e]) \o bbio[p] = Tail(net[e] \o bbio[p])
          /\ (net[e] \o bbio[p])[1] = Head(net[e])
          /\ net[e] \o bbio[p] # << >> /\ net[e] \o bbio[p] \in Seq(Units)
      BY ONLY <2>1, net[e] # << >>, TakeFirst, Zenon
    <2>3. Way(p) = net[e] \o bbio[p] /\ Way(p)' = Tail(net[e]) \o bbio[p]
      BY ONLY <1>0, <1>2, <1>3 DEF Way
    <2> QED BY ONLY <2>2, <2>3
  <1>7. WayOK(p)'
    <2>1. Chain(exchange, p, CcsOf(p), Passed(p), wnum[p], ReadMsg(e),
                ReadPart(e), Way(p))
      BY <1>0, <1>4 DEF Turn, WayOK
    <2>2. Follows(exchange, Way(p)[1], ReadMsg(e)', ReadPart(e)')
      BY <1>6
    <2>3. Chain(exchange, p, CcsOf(p), Passed(p), wnum[p], ReadMsg(e)',
                ReadPart(e)', Tail(Way(p)))
      BY ONLY <1>6, <2>1, <2>2, ChainTail, Zenon
    <2> QED BY ONLY <1>0, <1>1, <1>2, <1>6, <2>3 DEF WayOK, SameView
  <1>8. Turn(p)'
    BY ONLY <1>0, <1>1, <1>2, <1>4, <1>5, <1>7, Passed(e)' = Passed(e)
    DEF Turn, SameView
  <1> QED BY <1>0, <1>8 DEF Stream, Ends

(* Reading a unit of a header.                                             *)
LEMMA ReadHeaderStream ==
  ASSUME FlowInv, NEW e \in Ends, ReadHeader(e)
  PROVE  Stream'
PROOF
  <1> DEFINE u == Head(net[e])
  <1>1. OwnTypes(e) /\ LocalInv(e) /\ ExchangeOK
    BY OwnFacts
  <1>2. /\ exchange' = exchange /\ bbio'[e] = bbio[e] /\ sub[e] = "HEADER"
        /\ \/ /\ HeaderComplete(e) /\ at'[e] = at[e] + 1
              /\ sub'[e] = "BODY" /\ initNum'[e] = 0
           \/ /\ ~HeaderComplete(e) /\ at'[e] = at[e]
              /\ sub'[e] = "HEADER" /\ initNum'[e] = initNum[e] + 1
        /\ net[e] # << >>
    BY ReadHeaderEffect
  <1>3. u.msg = at[e] + 1 /\ u.part = initNum[e] + 1
    BY <1>2, ReaderSees DEF ReadMsg, ReadPart, Passed
  <1> HIDE DEF u
  <1>4. /\ at[e] \in Nat /\ initNum[e] \in Nat /\ initNum[e] < HeaderUnits
        /\ HeaderUnits \in Nat \ {0} /\ BodyUnits \in Nat \ {0}
        /\ exchange[at[e] + 1].msg = "CHANGE_CIPHER_SPEC" => initNum[e] = 0
    BY ONLY <1>1, <1>2 DEF OwnTypes, LocalInv, Counts
  <1>5. HeaderComplete(e) <=> exchange[at[e] + 1].msg = "CHANGE_CIPHER_SPEC"
                                \/ initNum[e] + 1 = HeaderUnits
    BY <1>3 DEF HeaderComplete, u
  <1>6. Passed(e)' = Passed(e)
    BY ONLY <1>2, <1>4 DEF Passed
  <1>7. Follows(exchange, u, ReadMsg(e)', ReadPart(e)')
    <2>1. CASE exchange[at[e] + 1].msg = "CHANGE_CIPHER_SPEC"
      <3>1. /\ at'[e] = at[e] + 1 /\ sub'[e] = "BODY" /\ initNum'[e] = 0
            /\ ~BodyMissing(e)'
        BY ONLY <1>2, <1>5, <2>1 DEF BodyMissing, Current
      <3>2. ReadMsg(e)' = at[e] + 2 /\ ReadPart(e)' = 1
        BY ONLY <1>4, <3>1 DEF ReadMsg, ReadPart
      <3>3. MessageUnits(exchange[u.msg].msg) = 1 /\ u.part = 1
        BY ONLY <1>3, <1>4, <2>1 DEF MessageUnits
      <3> QED BY ONLY <1>3, <1>4, <3>2, <3>3 DEF Follows
    <2>2. ASSUME exchange[at[e] + 1].msg # "CHANGE_CIPHER_SPEC"
          PROVE  /\ MessageUnits(exchange[u.msg].msg) = HeaderUnits + BodyUnits
                 /\ u.part < HeaderUnits + BodyUnits
      BY ONLY <1>3, <1>4, <2>2 DEF MessageUnits
    <2>3. CASE exchange[at[e] + 1].msg # "CHANGE_CIPHER_SPEC"
               /\ initNum[e] + 1 = HeaderUnits
      <3>1. /\ at'[e] = at[e] + 1 /\ sub'[e] = "BODY" /\ initNum'[e] = 0
            /\ BodyMissing(e)'
        BY ONLY <1>2, <1>4, <1>5, <2>3 DEF BodyMissing, Current
      <3>2. ReadMsg(e)' = at[e] + 1 /\ ReadPart(e)' = HeaderUnits + 1
        BY ONLY <1>4, <3>1 DEF ReadMsg, ReadPart, Passed
      <3> QED BY ONLY <1>3, <1>4, <2>2, <2>3, <3>2 DEF Follows
    <2>4. CASE exchange[at[e] + 1].msg # "CHANGE_CIPHER_SPEC"
               /\ initNum[e] + 1 # HeaderUnits
      <3>1. at'[e] = at[e] /\ sub'[e] = "HEADER" /\ initNum'[e] = initNum[e] + 1
        BY ONLY <1>2, <1>5, <2>4
      <3>2. ReadMsg(e)' = at[e] + 1 /\ ReadPart(e)' = initNum[e] + 2
        BY ONLY <1>4, <3>1 DEF ReadMsg, ReadPart, Passed
      <3> QED BY ONLY <1>3, <1>4, <2>2, <2>4, <3>2 DEF Follows
    <2> QED BY ONLY <2>1, <2>3, <2>4
  <1>8. Step(e) /\ net' = Set(net, e, Tail(net[e]))
    BY DEF Step, ReadHeader
  <1> QED BY <1>2, <1>6, <1>7, <1>8, TakeStream DEF u

(* Reading a unit of a body.                                               *)
LEMMA ReadBodyStream ==
  ASSUME FlowInv, NEW e \in Ends, ReadBody(e)
  PROVE  Stream'
PROOF
  <1> DEFINE u == Head(net[e])
  <1>1. OwnTypes(e) /\ LocalInv(e) /\ ExchangeOK
    BY OwnFacts
  <1>2. /\ exchange' = exchange /\ bbio'[e] = bbio[e] /\ at'[e] = at[e]
        /\ sub[e] = "BODY" /\ sub'[e] = "BODY"
        /\ initNum'[e] = initNum[e] + 1 /\ BodyMissing(e)
    BY ReadBodyEffect
  <1>3. Step(e) /\ net' = Set(net, e, Tail(net[e])) /\ net[e] # << >>
    BY DEF Step, ReadBody
  <1>4. /\ at[e] \in Nat /\ initNum[e] \in Nat /\ initNum[e] < BodyUnits
        /\ HeaderUnits \in Nat \ {0} /\ BodyUnits \in Nat \ {0}
        /\ exchange[at[e]].msg # "CHANGE_CIPHER_SPEC"
    BY ONLY <1>1, <1>2 DEF OwnTypes, LocalInv, BodyMissing, Current
  <1>5. u.msg = at[e] /\ u.part = HeaderUnits + initNum[e] + 1
    <2>1. u.msg = ReadMsg(e) /\ u.part = ReadPart(e)
      BY <1>3, ReaderSees
    <2>2. ReadMsg(e) = at[e] /\ ReadPart(e) = HeaderUnits + initNum[e] + 1
      BY ONLY <1>2, <1>4 DEF ReadMsg, ReadPart, Passed
    <2> QED BY ONLY <2>1, <2>2
  <1> HIDE DEF u
  <1>6. Passed(e)' = Passed(e)
    BY ONLY <1>2 DEF Passed
  <1>7. BodyMissing(e)' <=> initNum[e] + 1 < BodyUnits
    BY ONLY <1>2, <1>4 DEF BodyMissing, Current
  <1>8. MessageUnits(exchange[u.msg].msg) = HeaderUnits + BodyUnits
    BY ONLY <1>4, <1>5 DEF MessageUnits
  <1>9. Follows(exchange, u, ReadMsg(e)', ReadPart(e)')
    <2>1. CASE initNum[e] + 1 < BodyUnits
      <3>1. ReadMsg(e)' = at[e] /\ ReadPart(e)' = HeaderUnits + initNum[e] + 2
        BY ONLY <1>2, <1>4, <1>7, <2>1 DEF ReadMsg, ReadPart, Passed
      <3> QED BY ONLY <1>4, <1>5, <1>8, <2>1, <3>1 DEF Follows
    <2>2. CASE ~(initNum[e] + 1 < BodyUnits)
      <3>1. ReadMsg(e)' = at[e] + 1 /\ ReadPart(e)' = 1
        BY ONLY <1>2, <1>4, <1>7, <2>2 DEF ReadMsg, ReadPart, Passed
      <3> QED BY ONLY <1>4, <1>5, <1>8, <2>2, <3>1 DEF Follows
    <2> QED BY <2>1, <2>2
  <1> QED BY <1>2, <1>3, <1>6, <1>9, TakeStream DEF u

(* A reader that has a whole message: the writer is past it, and what is   *)
(* under way, if anything, is of the next message of the same flight.      *)
LEMMA WholeMessage ==
  ASSUME FlowInv, NEW e \in Ends, sub[e] = "BODY", ~BodyMissing(e)
  PROVE  /\ Turn(Peer(e)) /\ at[e] <= Passed(Peer(e))
         /\ Way(Peer(e)) = << >> => Passed(Peer(e)) = at[e]
         /\ Way(Peer(e)) # << >> => SentBy(at[e] + 1, Peer(e))
PROOF
  <1> DEFINE p == Peer(e)
  <1>0. p \in Ends /\ p # e /\ Peer(p) = e
    BY TwoEnds
  <1>1. OwnTypes(e) /\ Passed(p) \in Nat
    BY <1>0, OwnFacts, PassedType
  <1>2. Turn(p)
    BY ReaderFollows
  <1>3. ReadMsg(e) = at[e] + 1
    BY DEF ReadMsg
  <1>4. Chain(exchange, p, CcsOf(p), Passed(p), wnum[p], at[e] + 1,
              ReadPart(e), Way(p))
    BY <1>0, <1>2, <1>3 DEF Turn, WayOK
  <1>5. CASE Way(p) = << >>
    <2>1. at[e] + 1 = Passed(p) + 1
      BY ONLY <1>4, <1>5 DEF Chain
    <2>2. at[e] \in Nat
      BY <1>1 DEF OwnTypes
    <2>3. at[e] = Passed(p)
      BY ONLY <1>1, <2>1, <2>2
    <2> QED BY <1>1, <1>2, <1>5, <2>3
  <1>6. CASE Way(p) # << >>
    <2>1. Way(p)[1].msg = at[e] + 1
      BY ONLY <1>4, <1>6 DEF Chain
    <2>2. 1 \in 1..Len(Way(p))
      <3>1. Way(p) \in Seq(Units)
        BY <1>0, WayType DEF FlowInv
      <3> QED BY ONLY <1>6, <3>1, EmptySeq
    <2>3. UnitOK(exchange, p, CcsOf(p), Passed(p), Way(p)[1])
      BY ONLY <1>4, <2>2 DEF Chain
    <2>4. /\ at[e] + 1 \in 1..Len(exchange) /\ exchange[at[e] + 1].from = p
          /\ at[e] + 1 <= Passed(p) + 1
      BY ONLY <2>1, <2>3 DEF UnitOK
    <2>5. at[e] <= Passed(p)
      BY ONLY <1>1, <2>4 DEF OwnTypes
    <2> QED BY <1>2, <1>6, <2>4, <2>5 DEF SentBy
  <1> QED BY <1>5, <1>6

(* The turn stays with the peer until the flight is over, then it is the   *)
(* reader's, or the exchange is.                                           *)
LEMMA ProcessMessageStream ==
  ASSUME FlowInv, NEW e \in Ends, ProcessMessage(e)
  PROVE  Stream'
PROOF
  <1> DEFINE p == Peer(e)
  <1>0. p \in Ends /\ p # e /\ Peer(p) = e /\ \A q \in Ends : q = e \/ q = p
    BY TwoEnds
  <1>1. OwnTypes(e) /\ LocalInv(e) /\ ExchangeOK
    BY OwnFacts
  <1>2. /\ exchange' = exchange /\ at'[e] = at[e] /\ wnum'[e] = wnum[e]
        /\ bbio'[e] = bbio[e] /\ initNum'[e] = 0
        /\ sub[e] = "BODY" /\ ~BodyMissing(e)
        /\ LET r == ProcessReturn(e, Current(e))
           IN \/ r = "FINISHED_READING" /\ sub'[e] = "TRANSITION"
              \/ r = "CONTINUE_PROCESSING" /\ sub'[e] = "POST_PROCESS"
              \/ r = "CONTINUE_READING" /\ sub'[e] = "HEADER"
    BY ProcessMessageEffect
  <1>3. SameView(p) /\ bbio'[p] = bbio[p] /\ net' = net /\ sub'[p] = sub[p]
    BY <1>0, OtherView DEF Step, ProcessMessage
  <1>4. Way(e)' = Way(e) /\ Way(p)' = Way(p)
    BY <1>2, <1>3 DEF Way
  <1>5. /\ Turn(p) /\ at[e] <= Passed(p)
        /\ Way(p) = << >> => Passed(p) = at[e]
        /\ Way(p) # << >> => SentBy(at[e] + 1, p)
    BY <1>2, WholeMessage
  <1>6. /\ at[e] \in Nat /\ SentBy(at[e], p) /\ wnum[e] = 0
        /\ Len(exchange) \in Nat
    BY ONLY <1>1, <1>2 DEF LocalInv, OwnTypes, Place, Counts
  <1>7. Passed(e)' = at[e] /\ sub'[e] # "BODY"
    BY ONLY <1>2 DEF Passed
  <1>8. ReadMsg(e)' = at[e] + 1 /\ ReadPart(e)' = 1
    BY ONLY <1>2, <1>6, <1>7 DEF ReadMsg, ReadPart
  <1>9. ReadMsg(e) = at[e] + 1 /\ ReadPart(e) = 1
    BY ONLY <1>2 DEF ReadMsg, ReadPart
  <1>10. \/ SentBy(at[e] + 1, p) \/ at[e] = Len(exchange)
         \/ SentBy(at[e] + 1, e)
    <2>1. CASE at[e] # Len(exchange)
      <3>1. at[e] + 1 \in 1..Len(exchange)
        BY <1>6, <2>1 DEF SentBy
      <3>2. exchange[at[e] + 1].from \in Ends
        BY <1>1, <3>1 DEF ExchangeOK
      <3> QED BY <1>0, <3>1, <3>2 DEF SentBy
    <2> QED BY <2>1
  <1>11. CASE SentBy(at[e] + 1, p)
    <2>1. WayOK(p)'
      <3>1. WayOK(p) /\ CcsOf(p)' = CcsOf(p)
        BY <1>1, <1>2, <1>5, ExchangeKept DEF Turn
      <3> QED BY ONLY <1>0, <1>2, <1>3, <1>4, <1>8, <1>9, <3>1
          DEF WayOK, SameView
    <2>2. at[e] < Len(exchange) /\ exchange[at[e] + 1].from = p
      BY ONLY <1>6, <1>11 DEF SentBy
    <2>3. Turn(p)'
      BY ONLY <1>0, <1>2, <1>3, <1>4, <1>5, <1>7, <2>1, <2>2
      DEF Turn, SameView
    <2> QED BY <1>0, <2>3 DEF Stream, Ends
  <1>12. CASE ~SentBy(at[e] + 1, p)
    <2>1. Way(p)' = << >> /\ Passed(p)' = at[e] /\ Way(e)' = << >>
      BY <1>0, <1>3, <1>4, <1>5, <1>12 DEF Turn, SameView
    <2>2. CASE at[e] = Len(exchange)
      <3>1. Settled'
        BY <1>0, <1>2, <1>7, <2>1, <2>2 DEF Settled
      <3> QED BY <3>1 DEF Stream
    <2>3. CASE SentBy(at[e] + 1, e)
      <3>1. at[e] < Len(exchange) /\ exchange[at[e] + 1].from = e
        BY ONLY <1>6, <2>3 DEF SentBy
      <3>2. ReadMsg(p)' = at[e] + 1 /\ ReadPart(p)' = 1
        <4>1. sub[p] # "BODY" /\ ReadPart(p) = 1
          BY <1>5 DEF Turn
        <4>2. sub'[p] # "BODY" /\ ReadPart(p)' = 1
          BY ONLY <1>3, <4>1 DEF SameView
        <4> QED BY ONLY <2>1, <4>2 DEF ReadMsg
      <3>3. WayOK(e)'
        <4>1. Len(<< >>) = 0
          BY EmptySeq
        <4>2. Chain(exchange, e, CcsOf(e)', at[e], 0, at[e] + 1, 1, << >>)
          BY ONLY <4>1 DEF Chain
        <4> QED BY ONLY <1>2, <1>6, <1>7, <2>1, <3>2, <4>2 DEF WayOK
      <3>4. Turn(e)'
        BY ONLY <1>2, <1>6, <1>7, <1>8, <2>1, <3>1, <3>3 DEF Turn
      <3> QED BY <3>4 DEF Stream, Ends
    <2> QED BY <1>10, <1>12, <2>2, <2>3
  <1> QED BY <1>11, <1>12

-----------------------------------------------------------------------------
(* The first states satisfy the invariant.                                 *)
LEMMA InitInv ==
  ASSUME Init
  PROVE  FlowInv
PROOF
  <1>1. exchange \in { Exchange(k) : k \in Kinds } /\ ExchangeOK
    BY ExchangeShape DEF Init
  <1>2. Len(exchange) \in Nat /\ Len(exchange) > 0 /\ exchange[1].from = "client"
    BY <1>1 DEF ExchangeOK
  <1>3. << >> \in Seq(Units) /\ << >> \in Seq(Nat) /\ << >> \in Seq(Deeds)
        /\ Len(<< >>) = 0
    BY EmptySeq
  <1>4. ASSUME NEW e \in Ends
        PROVE  /\ at[e] = 0 /\ flow[e] = "UNINITED" /\ sub[e] = "TRANSITION"
               /\ initNum[e] = 0 /\ wnum[e] = 0 /\ bbio[e] = << >>
               /\ net[e] = << >> /\ keys[e] = {} /\ digest[e] = << >>
               /\ log[e] = << >>
    BY DEF Init
  <1>5. ControlTypes
    <2>1. 0 \in 0..(HeaderUnits + BodyUnits) /\ 0 \in 0..(Len(exchange) + 1)
      BY <1>2, MsgFlowAssumption
    <2> QED BY <2>1 DEF Init, ControlTypes
  <1>6. DataTypes
    BY <1>3, MsgFlowAssumption DEF Init, DataTypes
  <1>7. ASSUME NEW e \in Ends
        PROVE  LocalInv(e)
    <2>1. /\ at[e] = 0 /\ flow[e] = "UNINITED" /\ sub[e] = "TRANSITION"
          /\ initNum[e] = 0 /\ wnum[e] = 0 /\ bbio[e] = << >>
          /\ keys[e] = {} /\ digest[e] = << >> /\ log[e] = << >>
          /\ Passed(e) = 0
      BY <1>4 DEF Passed
    <2>2. FlowHasSub(e) /\ Place(e) /\ Counts(e) /\ Buffered(e)
      BY ONLY <1>2, <2>1 DEF FlowHasSub, Place, Counts, Buffered
    <2>3. /\ CcsOf(e) \in Nat /\ CcsOf(e) > 0
          /\ CcsOf(Peer(e)) \in Nat /\ CcsOf(Peer(e)) > 0
          /\ FirstCcs \in Nat /\ FirstCcs > 0
      BY <1>1, <1>2, CcsPlaces, TwoEnds
    <2>4. KeysFit(e)
      BY ONLY <2>1, <2>3 DEF KeysFit
    <2>5. DigestFits(e)
      BY ONLY <1>3, <2>1, <2>3 DEF DigestFits, HashCount
    <2>6. LogFits(e)
      BY ONLY <1>3, <2>1 DEF LogFits, IsInjective
    <2> QED BY <2>2, <2>4, <2>5, <2>6 DEF LocalInv
  <1>8. Turn("client")
    <2>1. /\ "client" \in Ends /\ "server" \in Ends
          /\ Peer("client") = "server" /\ Peer("server") = "client"
      BY DEF Ends, Peer
    <2>2. /\ Passed("client") = 0 /\ Passed("server") = 0
          /\ ReadMsg("server") = 1 /\ ReadPart("server") = 1
          /\ ReadPart("client") = 1 /\ sub["client"] # "BODY"
          /\ wnum["client"] = 0
      BY <1>4, <2>1 DEF Passed, ReadMsg, ReadPart
    <2>3. Way("client") = << >> /\ Way("server") = << >>
      <3>1. << >> \o << >> = << >>
        BY ONLY <1>3
      <3> QED BY <1>4, <2>1, <3>1 DEF Way
    <2>4. WayOK("client")
      BY ONLY <1>3, <2>1, <2>2, <2>3 DEF WayOK, Chain
    <2> QED BY ONLY <1>2, <2>1, <2>2, <2>3, <2>4 DEF Turn
  <1> QED BY <1>1, <1>5, <1>6, <1>7, <1>8 DEF FlowInv, Types, Stream

(* And every step keeps it.                                                *)
LEMMA StepInv ==
  ASSUME FlowInv, [Next]_vars
  PROVE  FlowInv'
PROOF
  <1>1. ASSUME NEW e \in Ends, Step(e) \/ PostProcessRetry(e)
        PROVE  FlowInv'
    <2>1. Types'
      BY <1>1, TypesStep
    <2>2. LocalInv(e)'
      BY <1>1, CallLocal, WriteTransitionLocal, FinishHandshakeLocal,
         ConstructLocal, WriteLocal, DrainLocal, WriteBlocksLocal,
         PostWorkLocal, ReadHeaderLocal, ReadBodyLocal, ReadBlocksLocal,
         ProcessMessageLocal, PostProcessLocal, PostProcessRetryLocal
      DEF Step
    <2>3. \A q \in Ends : q # e => LocalInv(q)'
      BY <1>1, OtherLocal
    <2>4. Stream'
      BY <1>1, ControlStream, WriteStream, DrainStream, ReadHeaderStream,
         ReadBodyStream, ProcessMessageStream
      DEF Step
    <2> QED BY <2>1, <2>2, <2>3, <2>4 DEF FlowInv
  <1>2. CASE UNCHANGED vars
    <2>1. /\ exchange' = exchange /\ at' = at /\ flow' = flow /\ sub' = sub
          /\ work' = work /\ want' = want /\ initNum' = initNum
          /\ wnum' = wnum /\ keys' = keys /\ digest' = digest /\ log' = log
          /\ bbio' = bbio /\ net' = net
      BY <1>2 DEF vars, machine
    <2>2. Types'
      BY <2>1 DEF FlowInv, Types, ControlTypes, DataTypes
    <2>3. ASSUME NEW e \in Ends
          PROVE  LocalInv(e)' /\ SameView(e) /\ Way(e)' = Way(e)
      <3>1. LocalInv(e)
        BY DEF FlowInv
      <3>2. FlowHasSub(e)' /\ Place(e)' /\ Counts(e)' /\ Buffered(e)'
        BY ONLY <2>1, <3>1
        DEF LocalInv, FlowHasSub, Place, Counts, Buffered, SentBy, Current, Ok
      <3>3. KeysFit(e)' /\ DigestFits(e)' /\ LogFits(e)'
        BY ONLY <2>1, <3>1
        DEF LocalInv, KeysFit, DigestFits, LogFits, Passed, CcsOf, HashCount,
            HashedAt, FirstCcs, SecondCcs
      <3>4. SameView(e) /\ Way(e)' = Way(e)
        BY ONLY <2>1 DEF SameView, Way, Passed, ReadMsg, ReadPart, BodyMissing,
                         Current
      <3> QED BY <3>2, <3>3, <3>4 DEF LocalInv
    <2>4. Stream'
      BY <2>1, <2>3, StreamSame
    <2> QED BY <2>2, <2>3, <2>4 DEF FlowInv
  <1> QED BY <1>1, <1>2 DEF Next, Done

(* The invariant of the two machines and the stream between them.          *)
THEOREM FlowInvariant == Spec => []FlowInv
PROOF
  <1>1. Init => FlowInv
    BY InitInv
  <1>2. FlowInv /\ [Next]_vars => FlowInv'
    BY StepInv
  <1> QED BY <1>1, <1>2, PTL DEF Spec

-----------------------------------------------------------------------------
(* The variables of both machines keep their types and the buffering BIO   *)
(* and the socket their bounds (ssl3_write_bytes, the BIO chain).          *)
THEOREM FlowTypeCorrect == Spec => []TypeOK
PROOF
  <1>1. FlowInv => TypeOK
    BY DEF FlowInv, Types, ControlTypes, DataTypes, TypeOK, MsgFlowTypeOK, Ok
  <1> QED BY <1>1, FlowInvariant, PTL

(* What an endpoint has digested are messages in their order.              *)
LEMMA DigestIs ==
  ASSUME FlowInv, NEW e \in Ends
  PROVE  /\ digest[e] \in Seq(Nat)
         /\ \A k \in 1..Len(digest[e]) : digest[e][k] = HashedAt(k)
  BY OwnFacts DEF OwnTypes, LocalInv, DigestFits

(* However often SSL_do_handshake returns early and is called again, no    *)
(* message is constructed, processed or digested twice, and no first stage *)
(* of a post processing repeated (write_state_machine_ntls,                *)
(* read_state_machine_ntls).                                               *)
THEOREM FlowEachStepOnce == Spec => []EachStepOnce
PROOF
  <1>1. ASSUME FlowInv
        PROVE  EachStepOnce
    <2>1. ASSUME NEW e \in Ends
          PROVE  IsInjective(digest[e])
      <3>1. /\ FirstCcs \in Nat /\ SecondCcs \in Nat
            /\ FirstCcs + 1 < SecondCcs
        BY <1>1, CcsPlaces, OwnFacts DEF ExchangeOK
      <3>2. ASSUME NEW a \in Nat, NEW b \in Nat, HashedAt(a) = HashedAt(b)
            PROVE  a = b
        BY ONLY <3>1, <3>2 DEF HashedAt
      <3>3. /\ DOMAIN digest[e] = 1..Len(digest[e]) /\ Len(digest[e]) \in Nat
            /\ \A k \in 1..Len(digest[e]) : digest[e][k] = HashedAt(k)
        BY <1>1, DigestIs, LenProperties
      <3> QED BY ONLY <3>2, <3>3 DEF IsInjective
    <2>2. ASSUME NEW e \in Ends
          PROVE  IsInjective(log[e])
      BY <1>1 DEF FlowInv, LocalInv, LogFits
    <2> QED BY <2>1, <2>2 DEF EachStepOnce
  <1> QED BY <1>1, FlowInvariant, PTL

(* A sequence that another one begins with is a prefix of it.              *)
LEMMA DigestPrefix ==
  ASSUME NEW s \in Seq(Nat), NEW t \in Seq(Nat), Len(s) <= Len(t),
         \A k \in 1..Len(s) : s[k] = t[k]
  PROVE  IsPrefix(s, t)
PROOF
  <1>1. /\ Len(s) \in Nat /\ Len(t) \in Nat
        /\ SubSeq(s, 1, Len(s)) \in Seq(Nat) /\ SubSeq(t, 1, Len(s)) \in Seq(Nat)
        /\ Len(SubSeq(s, 1, Len(s))) = Len(s)
        /\ Len(SubSeq(t, 1, Len(s))) = Len(s)
    BY LenProperties, SubSeqProperties
  <1>2. ASSUME NEW k \in 1..Len(s)
        PROVE  SubSeq(s, 1, Len(s))[k] = SubSeq(t, 1, Len(s))[k]
    BY <1>1
  <1>3. SubSeq(s, 1, Len(s)) = SubSeq(t, 1, Len(s))
    BY <1>1, <1>2, SeqEqual
  <1> QED BY <1>3 DEF IsPrefix

(* At every moment one endpoint's running digest is a beginning of the     *)
(* other's: they never disagree on a message or on the order               *)
(* (ssl3_do_write_ntls, tls_get_message_body_ntls).                        *)
THEOREM FlowDigestsAgree == Spec => []DigestsAgree
PROOF
  <1>1. ASSUME FlowInv
        PROVE  DigestsAgree
    <2>1. "client" \in Ends /\ "server" \in Ends
      BY DEF Ends
    <2>2. /\ digest["client"] \in Seq(Nat) /\ digest["server"] \in Seq(Nat)
          /\ \A k \in 1..Len(digest["client"]) : digest["client"][k] = HashedAt(k)
          /\ \A k \in 1..Len(digest["server"]) : digest["server"][k] = HashedAt(k)
      BY <1>1, <2>1, DigestIs
    <2>3. Len(digest["client"]) \in Nat /\ Len(digest["server"]) \in Nat
      BY ONLY <2>2, LenProperties
    <2>4. CASE Len(digest["client"]) <= Len(digest["server"])
      <3>1. \A k \in 1..Len(digest["client"]) :
              digest["client"][k] = digest["server"][k]
        BY ONLY <2>2, <2>3, <2>4
      <3> QED BY <2>2, <2>4, <3>1, DigestPrefix DEF DigestsAgree
    <2>5. CASE Len(digest["server"]) <= Len(digest["client"])
      <3>1. \A k \in 1..Len(digest["server"]) :
              digest["server"][k] = digest["client"][k]
        BY ONLY <2>2, <2>3, <2>5
      <3> QED BY <2>2, <2>5, <3>1, DigestPrefix DEF DigestsAgree
    <2> QED BY <2>3, <2>4, <2>5
  <1> QED BY <1>1, FlowInvariant, PTL

(* An endpoint that turns to reading or ends its handshake has nothing     *)
(* left in the buffering BIO (ossl_statem_*_post_work_ntls flush where the *)
(* flight ends, tls_finish_handshake_ntls frees the buffer).               *)
THEOREM FlowFlushedBeforeWaiting == Spec => []FlushedBeforeWaiting
PROOF
  <1>1. ASSUME FlowInv
        PROVE  FlushedBeforeWaiting
    <2>1. ASSUME NEW e \in Ends,
                 flow[e] \in {"READING", "FINISHED"} \/ at[e] = Ok
          PROVE  bbio[e] = << >>
      <3>1. Buffered(e) /\ OwnTypes(e)
        BY <1>1, OwnFacts DEF LocalInv
      <3> QED BY ONLY <2>1, <3>1 DEF Buffered, OwnTypes, SentBy, Ok
    <2> QED BY <2>1 DEF FlushedBeforeWaiting
  <1> QED BY <1>1, FlowInvariant, PTL

(* What an endpoint finds in the stream is the very unit it expects, under *)
(* the keys it reads with: no early return loses, repeats or misplaces a   *)
(* byte (s->init_num and s->rlayer.wnum), and the ChangeCipherSpec falls   *)
(* between messages.                                                       *)
THEOREM FlowStreamFits == Spec => []StreamFits
PROOF
  <1>1. ASSUME FlowInv, NEW e \in Ends, flow[e] = "READING", net[e] # << >>
        PROVE  LET u == Head(net[e])
               IN /\ u.key = ("read" \in keys[e])
                       \/ (sub[e] = "BODY" /\ Current(e) = "CHANGE_CIPHER_SPEC")
                  /\ CASE sub[e] = "HEADER" ->
                            u.msg = at[e] + 1 /\ u.part = initNum[e] + 1
                       [] sub[e] = "BODY" /\ BodyMissing(e) ->
                            u.msg = at[e] /\ u.part = HeaderUnits + initNum[e] + 1
                       [] OTHER -> u.msg = at[e] + 1 /\ u.part = 1
    <2> DEFINE u == Head(net[e])
               p == Peer(e)
    <2>0. p \in Ends /\ Peer(p) = e
      BY TwoEnds
    <2>1. OwnTypes(e) /\ LocalInv(e) /\ ExchangeOK
      BY <1>1, OwnFacts
    <2>2. u.msg = ReadMsg(e) /\ u.part = ReadPart(e) /\ u.key = (CcsOf(p) < u.msg)
      BY <1>1, ReaderSees DEF UnitOK
    <2> HIDE DEF u
    <2>3. /\ at[e] \in Nat /\ CcsOf(p) \in Nat
          /\ ("read" \in keys[e]) = (CcsOf(p) <= Passed(e))
      BY <2>0, <2>1, CcsPlaces DEF LocalInv, OwnTypes, KeysFit
    <2>4. sub[e] = "HEADER" \/ sub[e] = "BODY" \/ sub[e] = "POST_PROCESS"
      BY <1>1, <2>1 DEF LocalInv, FlowHasSub
    <2>5. CASE sub[e] = "HEADER"
      <3>1. /\ ReadMsg(e) = at[e] + 1 /\ ReadPart(e) = initNum[e] + 1
            /\ Passed(e) = at[e]
        BY ONLY <2>5 DEF ReadMsg, ReadPart, Passed
      <3>2. (CcsOf(p) < at[e] + 1) = (CcsOf(p) <= at[e])
        BY ONLY <2>3
      <3> QED BY ONLY <2>2, <2>3, <2>5, <3>1, <3>2 DEF u
    <2>6. CASE sub[e] = "BODY" /\ BodyMissing(e)
      <3>1. /\ ReadMsg(e) = at[e] /\ Passed(e) = at[e] - 1
            /\ ReadPart(e) = HeaderUnits + initNum[e] + 1
        BY ONLY <2>3, <2>6 DEF ReadMsg, ReadPart, Passed
      <3>2. (CcsOf(p) < at[e]) = (CcsOf(p) <= at[e] - 1)
        BY ONLY <2>3
      <3> QED BY ONLY <2>2, <2>3, <2>6, <3>1, <3>2 DEF u
    <2>7. CASE sub[e] = "BODY" /\ ~BodyMissing(e)
      <3>1. /\ ReadMsg(e) = at[e] + 1 /\ Passed(e) = at[e] - 1
            /\ ReadPart(e) = 1
        BY ONLY <2>3, <2>7 DEF ReadMsg, ReadPart, Passed
      <3>2. Current(e) = "CHANGE_CIPHER_SPEC" <=> at[e] = CcsOf(p)
        BY <2>0, <2>1, <2>7, CcsIs DEF LocalInv, Place, Current
      <3>3. at[e] # CcsOf(p) => (CcsOf(p) < at[e] + 1) = (CcsOf(p) <= at[e] - 1)
        BY ONLY <2>3
      <3> QED BY ONLY <2>2, <2>3, <2>7, <3>1, <3>2, <3>3 DEF u
    <2>8. CASE sub[e] = "POST_PROCESS"
      <3>1. /\ ReadMsg(e) = at[e] + 1 /\ ReadPart(e) = 1 /\ Passed(e) = at[e]
        BY ONLY <2>8 DEF ReadMsg, ReadPart, Passed
      <3>2. (CcsOf(p) < at[e] + 1) = (CcsOf(p) <= at[e])
        BY ONLY <2>3
      <3> QED BY ONLY <2>2, <2>3, <2>8, <3>1, <3>2 DEF u
    <2> QED BY <2>4, <2>5, <2>6, <2>7, <2>8
  <1>2. FlowInv => StreamFits
    BY <1>1 DEF StreamFits
  <1> QED BY <1>2, FlowInvariant, PTL

-----------------------------------------------------------------------------
(* The refinement of NtlsTurns: a step within a message is a stutter, ...  *)
LEMMA WithinMessage ==
  ASSUME FlowInv, NEW e \in Ends, Step(e) \/ PostProcessRetry(e),
         Passed(e)' = Passed(e),
         flow'[e] = "FINISHED" <=> flow[e] = "FINISHED"
  PROVE  UNCHANGED Turns!vars
PROOF
  <1>1. exchange' = exchange
    BY TwoEnds, OtherKept
  <1>2. ASSUME NEW q \in Ends
        PROVE  /\ Passed(q)' = Passed(q)
               /\ flow'[q] = "FINISHED" <=> flow[q] = "FINISHED"
    BY OtherKept, OtherView DEF SameView
  <1> QED BY <1>1, <1>2 DEF Turns!vars

(* ... the one that completes a message passes it.                         *)
LEMMA PassesMessage ==
  ASSUME FlowInv, NEW e \in Ends, Step(e), Passed(e)' = Passed(e) + 1,
         flow'[e] = "FINISHED" <=> flow[e] = "FINISHED"
  PROVE  /\ Turns!Pass(e) /\ exchange' = exchange
         /\ { q \in Ends : flow[q] = "FINISHED" }'
              = { q \in Ends : flow[q] = "FINISHED" }
PROOF
  <1>1. exchange' = exchange
    BY TwoEnds, OtherKept
  <1>2. ASSUME NEW q \in Ends
        PROVE  /\ q # e => Passed(q)' = Passed(q)
               /\ flow'[q] = "FINISHED" <=> flow[q] = "FINISHED"
    BY OtherKept, OtherView DEF SameView
  <1>3. Turns!Pass(e)
    BY <1>2 DEF Turns!Pass
  <1> QED BY <1>1, <1>2, <1>3

(* A unit written is within a message, or it is the last and sends it.     *)
LEMMA WriteTurns ==
  ASSUME FlowInv, NEW e \in Ends, Write(e)
  PROVE  [Turns!Next]_(Turns!vars)
PROOF
  <1>1. OwnTypes(e) /\ LocalInv(e) /\ Step(e)
    BY OwnFacts DEF Step
  <1>2. /\ at'[e] = at[e] /\ sub[e] = "SEND" /\ flow'[e] = flow[e]
        /\ IF wnum[e] + 1 = initNum[e]
             THEN sub'[e] = "POST_WORK" ELSE sub'[e] = "SEND"
    BY WriteEffect
  <1>3. SentBy(at[e], e) /\ at[e] \in Nat /\ Len(exchange) \in Nat
    BY <1>1, <1>2 DEF LocalInv, Place, OwnTypes
  <1>4. Passed(e) = at[e] - 1
    BY ONLY <1>2 DEF Passed
  <1>5. CASE wnum[e] + 1 = initNum[e]
    <2>1. Passed(e)' = Passed(e) + 1
      BY ONLY <1>2, <1>3, <1>4, <1>5 DEF Passed
    <2>2. /\ Turns!Pass(e) /\ exchange' = exchange
          /\ { q \in Ends : flow[q] = "FINISHED" }'
               = { q \in Ends : flow[q] = "FINISHED" }
      BY <1>1, <1>2, <2>1, PassesMessage
    <2>3. Turns!NextIs(e, TRUE)
      <3>1. Passed(e) < Len(exchange) /\ exchange[Passed(e) + 1].from = e
        BY ONLY <1>3, <1>4 DEF SentBy
      <3> QED BY <3>1 DEF Turns!NextIs
    <2>4. Turns!Send(e)
      BY <2>2, <2>3 DEF Turns!Send
    <2> QED BY <2>4 DEF Turns!Next
  <1>6. CASE wnum[e] + 1 # initNum[e]
    <2>1. Passed(e)' = Passed(e)
      BY ONLY <1>2, <1>6 DEF Passed
    <2> QED BY <1>1, <1>2, <2>1, WithinMessage
  <1> QED BY <1>5, <1>6

(* Processing a message is a Process of NtlsTurns: the peer is past it.    *)
LEMMA ProcessMessageTurns ==
  ASSUME FlowInv, NEW e \in Ends, ProcessMessage(e)
  PROVE  [Turns!Next]_(Turns!vars)
PROOF
  <1>0. Peer(e) \in Ends /\ Peer(e) # e
    BY TwoEnds
  <1>1. OwnTypes(e) /\ LocalInv(e) /\ Step(e)
    BY OwnFacts DEF Step
  <1>2. /\ at'[e] = at[e] /\ sub[e] = "BODY" /\ ~BodyMissing(e)
        /\ flow[e] = "READING"
        /\ flow'[e] = "WRITING" \/ flow'[e] = "READING"
        /\ \/ sub'[e] = "TRANSITION" \/ sub'[e] = "POST_PROCESS"
           \/ sub'[e] = "HEADER"
    BY ProcessMessageEffect
  <1>3. SentBy(at[e], Peer(e)) /\ at[e] \in Nat /\ Len(exchange) \in Nat
    BY <1>1, <1>2 DEF LocalInv, Place, OwnTypes
  <1>4. Passed(e) = at[e] - 1 /\ Passed(e)' = at[e]
    BY ONLY <1>2 DEF Passed
  <1>5. Passed(e)' = Passed(e) + 1
    BY ONLY <1>3, <1>4
  <1>6. /\ Turns!Pass(e) /\ exchange' = exchange
        /\ { q \in Ends : flow[q] = "FINISHED" }'
             = { q \in Ends : flow[q] = "FINISHED" }
    BY <1>1, <1>2, <1>5, PassesMessage
  <1>7. /\ Passed(e) < Len(exchange) /\ exchange[Passed(e) + 1].from = Peer(e)
    BY ONLY <1>3, <1>4 DEF SentBy
  <1>8. Turns!NextIs(e, FALSE)
    BY <1>0, <1>7 DEF Turns!NextIs
  <1>9. Passed(Peer(e)) > Passed(e)
    <2>1. at[e] <= Passed(Peer(e)) /\ Passed(Peer(e)) \in Nat
      BY <1>0, <1>2, WholeMessage, PassedType
    <2> QED BY ONLY <1>3, <1>4, <2>1
  <1>10. Turns!Process(e)
    BY <1>0, <1>6, <1>7, <1>8, <1>9 DEF Turns!Process
  <1> QED BY <1>10 DEF Turns!Next

(* The end of the handshake is a Finish of NtlsTurns.                      *)
LEMMA FinishHandshakeTurns ==
  ASSUME FlowInv, NEW e \in Ends, FinishHandshake(e)
  PROVE  [Turns!Next]_(Turns!vars)
PROOF
  <1>1. OwnTypes(e) /\ Step(e) /\ flow[e] = "WRITING"
    BY OwnFacts DEF Step, FinishHandshake, In
  <1>2. /\ exchange' = exchange /\ at'[e] = at[e] /\ sub'[e] = sub[e]
        /\ flow'[e] = "FINISHED" /\ at[e] = Ok /\ sub[e] = "PRE_WORK"
    BY FinishHandshakeEffect
  <1>3. Passed(e) = Len(exchange) /\ Passed(e)' = Passed(e)
    BY <1>1, <1>2 DEF Passed, Ok, OwnTypes
  <1>4. ASSUME NEW q \in Ends
        PROVE  /\ Passed(q)' = Passed(q)
               /\ q # e => (flow'[q] = "FINISHED" <=> flow[q] = "FINISHED")
    BY <1>1, <1>3, OtherKept, OtherView DEF SameView
  <1>5. Turns!Finish(e)
    BY <1>1, <1>2, <1>3, <1>4 DEF Turns!Finish
  <1> QED BY <1>5 DEF Turns!Next

(* Every step of the machines is a step or a stutter of NtlsTurns.         *)
LEMMA StepTurns ==
  ASSUME FlowInv, [Next]_vars
  PROVE  [Turns!Next]_(Turns!vars)
PROOF
  <1>1. ASSUME NEW e \in Ends, Step(e) \/ PostProcessRetry(e)
        PROVE  [Turns!Next]_(Turns!vars)
    <2>1. OwnTypes(e) /\ LocalInv(e)
      BY OwnFacts
    <2>2. CASE Call(e)
      <3>1. Passed(e)' = Passed(e)
            /\ (flow'[e] = "FINISHED" <=> flow[e] = "FINISHED")
        BY <2>2, CallEffect DEF Passed
      <3> QED BY <1>1, <3>1, WithinMessage
    <2>3. CASE WriteTransition(e)
      <3>1. Passed(e)' = Passed(e)
            /\ (flow'[e] = "FINISHED" <=> flow[e] = "FINISHED")
        BY <2>1, <2>3, WriteTransitionEffect DEF Passed, OwnTypes
      <3> QED BY <1>1, <3>1, WithinMessage
    <2>4. CASE Construct(e)
      <3>1. Passed(e)' = Passed(e)
            /\ (flow'[e] = "FINISHED" <=> flow[e] = "FINISHED")
        BY <2>4, ConstructEffect DEF Passed
      <3> QED BY <1>1, <3>1, WithinMessage
    <2>5. CASE Drain(e)
      <3>1. Passed(e)' = Passed(e)
            /\ (flow'[e] = "FINISHED" <=> flow[e] = "FINISHED")
        BY <2>5, DrainEffect DEF Passed
      <3> QED BY <1>1, <3>1, WithinMessage
    <2>6. CASE WriteBlocks(e)
      <3>1. Passed(e)' = Passed(e)
            /\ (flow'[e] = "FINISHED" <=> flow[e] = "FINISHED")
        BY <2>6, WriteBlocksEffect DEF Passed
      <3> QED BY <1>1, <3>1, WithinMessage
    <2>7. CASE PostWork(e)
      <3>1. Passed(e)' = Passed(e)
            /\ (flow'[e] = "FINISHED" <=> flow[e] = "FINISHED")
        BY <2>7, PostWorkEffect DEF Passed
      <3> QED BY <1>1, <3>1, WithinMessage
    <2>8. CASE ReadHeader(e)
      <3>1. /\ flow'[e] = flow[e] /\ sub[e] = "HEADER" /\ at[e] \in Nat
            /\ \/ at'[e] = at[e] + 1 /\ sub'[e] = "BODY"
               \/ at'[e] = at[e] /\ sub'[e] = "HEADER"
        BY <2>1, <2>8, ReadHeaderEffect DEF OwnTypes
      <3>2. Passed(e)' = Passed(e)
        BY ONLY <3>1 DEF Passed
      <3> QED BY <1>1, <3>1, <3>2, WithinMessage
    <2>9. CASE ReadBody(e)
      <3>1. Passed(e)' = Passed(e)
            /\ (flow'[e] = "FINISHED" <=> flow[e] = "FINISHED")
        BY <2>9, ReadBodyEffect DEF Passed
      <3> QED BY <1>1, <3>1, WithinMessage
    <2>10. CASE ReadBlocks(e)
      <3>1. Passed(e)' = Passed(e)
            /\ (flow'[e] = "FINISHED" <=> flow[e] = "FINISHED")
        BY <2>10, ReadBlocksEffect DEF Passed
      <3> QED BY <1>1, <3>1, WithinMessage
    <2>11. CASE PostProcess(e)
      <3>1. Passed(e)' = Passed(e)
            /\ (flow'[e] = "FINISHED" <=> flow[e] = "FINISHED")
        BY <2>11, PostProcessEffect DEF Passed
      <3> QED BY <1>1, <3>1, WithinMessage
    <2>12. CASE PostProcessRetry(e)
      <3>1. Passed(e)' = Passed(e)
            /\ (flow'[e] = "FINISHED" <=> flow[e] = "FINISHED")
        BY <2>12, PostProcessRetryEffect DEF Passed
      <3> QED BY <1>1, <3>1, WithinMessage
    <2> QED
      BY <1>1, <2>2, <2>3, <2>4, <2>5, <2>6, <2>7, <2>8, <2>9, <2>10, <2>11,
         <2>12, WriteTurns, ProcessMessageTurns, FinishHandshakeTurns
      DEF Step
  <1>2. CASE UNCHANGED vars
    BY <1>2 DEF vars, machine, Turns!vars, Passed
  <1> QED BY <1>1, <1>2 DEF Next, Done

(* The machine that blocks and resumes at every byte gives the handshake   *)
(* above it whole messages, each sent once and processed once, in turn,    *)
(* and only after the sender is past it: the safety part of the refinement *)
(* ImplementsTurns (state_machine_ntls and what it promises to the         *)
(* transition tables).                                                     *)
THEOREM FlowImplementsTurns ==
  Spec => Turns!Init /\ [][Turns!Next]_(Turns!vars)
PROOF
  <1>1. Init => Turns!Init
    BY DEF Init, Turns!Init, Passed
  <1>2. FlowInv /\ [Next]_vars => [Turns!Next]_(Turns!vars)
    BY StepTurns
  <1> QED BY <1>1, <1>2, FlowInvariant, PTL DEF Spec

=============================================================================
