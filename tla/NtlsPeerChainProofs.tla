------------------------ MODULE NtlsPeerChainProofs ------------------------
(***************************************************************************)
(* The check of the dual certificates, for messages with any number of     *)
(* certificates and any number of retries.                                 *)
(***************************************************************************)
EXTENDS NtlsPeerChain, SequenceTheorems, TLAPS

(* What the message brings: any number of certificates, numbered in order. *)
LEMMA SentList ==
  ASSUME NEW s \in Lists
  PROVE  /\ s \in Seq(Nat)
         /\ \A i \in 1 .. Len(s) : s[i] = i
<1>1. PICK n \in 0 .. MaxChain : s = [i \in 1 .. n |-> i]
  BY DEF Lists
<1>2. n \in Nat
  BY PeerChainAssumption
<1>3. s \in Seq(Nat) /\ Len(s) = n
  BY <1>1, <1>2
<1> QED BY <1>1, <1>2, <1>3

(* push(shift): the second certificate comes to the front, the first one   *)
(* goes to the end.                                                        *)
LEMMA RotatedLists ==
  ASSUME NEW s \in Seq(Nat), Len(s) >= 2
  PROVE  LET r == Append(Tail(s), Head(s))
         IN /\ r \in Seq(Nat)
            /\ Len(r) = Len(s)
            /\ \A i \in 1 .. Len(s) - 1 : r[i] = s[i + 1]
            /\ r[Len(s)] = s[1]
            /\ Head(r) = s[2]
<1>1. /\ Tail(s) \in Seq(Nat) /\ Len(Tail(s)) = Len(s) - 1
      /\ \A i \in 1 .. Len(s) - 1 : Tail(s)[i] = s[i + 1]
  OBVIOUS
<1>2. Head(s) = s[1] /\ Head(s) \in Nat
  OBVIOUS
<1> QED BY <1>1, <1>2

(* unshift(pop) takes push(shift) back.                                    *)
LEMMA RotatedAndBack ==
  ASSUME NEW s \in Seq(Nat), Len(s) >= 2,
         NEW r, r = Append(Tail(s), Head(s))
  PROVE  <<Last(r)>> \o Front(r) = s
<1>1. /\ r \in Seq(Nat) /\ Len(r) = Len(s) /\ r[Len(s)] = s[1]
      /\ \A i \in 1 .. Len(s) - 1 : r[i] = s[i + 1]
  BY RotatedLists
<1>2. Last(r) = s[1] /\ s[1] \in Nat
  BY <1>1 DEF Last
<1>3. /\ Front(r) \in Seq(Nat) /\ Len(Front(r)) = Len(s) - 1
      /\ \A i \in 1 .. Len(s) - 1 : Front(r)[i] = s[i + 1]
  BY <1>1 DEF Front
<1> DEFINE b == <<Last(r)>> \o Front(r)
<1>4. b \in Seq(Nat) /\ Len(b) = Len(s)
  BY <1>2, <1>3
<1>5. \A i \in 1 .. Len(s) :
        b[i] = IF i <= 1 THEN <<Last(r)>>[i] ELSE Front(r)[i - 1]
  <2>1. <<Last(r)>> \in Seq(Nat) /\ Len(<<Last(r)>>) = 1
    BY <1>2
  <2> QED BY <1>3, <2>1, ConcatProperties
<1>6. \A i \in 1 .. Len(s) : b[i] = s[i]
  BY <1>2, <1>3, <1>5
<1> HIDE DEF b
<1>7. b = s
  BY <1>4, <1>6, SeqEqual
<1> QED BY <1>7 DEF b

-----------------------------------------------------------------------------
(* The endpoint accepts no certificate that it has not verified.           *)
Verifies == verify \/ side = "server"

(* Where the stack is between the checks, and which leaves verified so     *)
(* far in this attempt, as long as no retry came in the first check.       *)
InOrder ==
  /\ pc = "first" => sk = sent
  /\ pc = "second" => /\ sk = Append(Tail(sent), Head(sent))
                      /\ Verifies => 2 \in leaves
  /\ pc = "accept" => sk = sent /\ (Verifies => {1, 2} \subseteq leaves)
  /\ pc = "done" /\ Len(sent) >= 2 =>
       /\ peer = 1
       /\ IF side = "client" THEN chain[2] = 2 ELSE chain[1] = 2
       /\ Verifies => {1, 2} \subseteq leaves

(* With what holds after a retry, too: only a list with both certificates  *)
(* is checked, and without a check there is no peer.                       *)
ChainInv ==
  /\ sent \in Lists
  /\ side \in {"client", "server"}
  /\ retries \in [{"first", "second"} -> Nat]
  /\ pc \in {"receive", "first", "second", "accept", "done", "error"}
  /\ pc \in {"first", "second", "accept"} => Len(sent) >= 2
  /\ pc # "done" \/ Len(sent) < 2 => peer = 0
  /\ retries.first = 0 => InOrder

(* The stack keeps the order of the message through every step up to a     *)
(* retry in the first check.                                               *)
THEOREM ChainInvariant == Spec => []ChainInv
<1>1. Init => ChainInv
  BY DEF Init, ChainInv, InOrder
<1>2. ChainInv /\ [Next]_vars => ChainInv'
  <2> SUFFICES ASSUME ChainInv, [Next]_vars PROVE ChainInv'
    OBVIOUS
  <2> USE DEF ChainInv, InOrder, Verifies
  <2>1. sent \in Seq(Nat) /\ \A i \in 1 .. Len(sent) : sent[i] = i
    BY SentList
  <2>2. CASE Receive
    BY <2>1, <2>2 DEF Receive
  <2>3. CASE CheckPasses
    <3>1. CASE pc = "first" /\ retries.first = 0
      <4>1. sk' = Append(Tail(sent), Head(sent)) /\ pc' = "second"
        BY <2>3, <3>1 DEF CheckPasses, Checked, Rotated
      <4>2. Head(sk') = 2
        BY <2>1, <3>1, <4>1, RotatedLists
      <4>3. Verifies => 2 \in leaves'
        BY <2>3, <3>1, <4>2 DEF CheckPasses
      <4> QED BY <2>3, <3>1, <4>1, <4>3 DEF CheckPasses
    <3>2. CASE pc = "second" /\ retries.first = 0
      <4>1. sk' = sent /\ pc' = "accept"
        BY <2>1, <2>3, <3>2, RotatedAndBack DEF CheckPasses, Checked, RotatedBack
      <4>2. Head(sk') = 1
        BY <2>1, <3>2, <4>1
      <4>3. Verifies => {1, 2} \subseteq leaves'
        BY <2>3, <3>2, <4>2 DEF CheckPasses
      <4> QED BY <2>3, <3>2, <4>1, <4>3 DEF CheckPasses
    <3>3. CASE retries.first # 0
      BY <2>3, <3>3 DEF CheckPasses
    <3> QED BY <2>3, <3>1, <3>2, <3>3 DEF CheckPasses
  <2>4. CASE CheckFails
    BY <2>4 DEF CheckFails
  <2>5. CASE CheckRetries
    <3>1. retries' \in [{"first", "second"} -> Nat]
      BY <2>5 DEF CheckRetries
    <3>2. CASE pc = "first"
      BY <2>5, <3>1, <3>2 DEF CheckRetries
    <3>3. CASE pc = "second"
      <4>1. retries'.first = retries.first
        BY <2>5, <3>3 DEF CheckRetries
      <4>2. retries.first = 0 => sk' = sent
        BY <2>1, <2>5, <3>3, RotatedAndBack DEF CheckRetries, Checked, RotatedBack
      <4> QED BY <2>5, <3>1, <3>3, <4>1, <4>2 DEF CheckRetries
    <3> QED BY <2>5, <3>2, <3>3 DEF CheckRetries
  <2>6. CASE WrongType
    BY <2>6 DEF WrongType
  <2>7. CASE Accept
    <3>1. Len(sent) >= 2 /\ sent[1] = 1 /\ sent[2] = 2 /\ Head(sent) = 1
      BY <2>1, <2>7 DEF Accept
    <3>2. Tail(sent)[1] = 2
      BY <2>1, <3>1
    <3> QED BY <2>7, <3>1, <3>2 DEF Accept
  <2>8. CASE UNCHANGED vars
    BY <2>8 DEF vars
  <2> QED BY <2>2, <2>3, <2>4, <2>5, <2>6, <2>7, <2>8 DEF Next, Done
<1> QED BY <1>1, <1>2, PTL DEF Spec

(* Unless a retry comes between the two rotations, session->peer is the    *)
(* signing certificate and the encryption certificate is where the key     *)
(* exchange looks for it, whatever the length of the list and however      *)
(* often the second check is retried.                                      *)
THEOREM ChainOrderRestored == Spec => []OrderRestoredUnlessRetriedBetween
<1>1. ChainInv => OrderRestoredUnlessRetriedBetween
  BY DEF ChainInv, InOrder, OrderRestoredUnlessRetriedBetween, OrderRestored
<1> QED BY <1>1, ChainInvariant, PTL

(* ... and an endpoint that verifies has verified both certificates of the *)
(* pair in one attempt.                                                    *)
THEOREM ChainBothVerified == Spec => []BothVerifiedUnlessRetriedBetween
<1>1. ChainInv => BothVerifiedUnlessRetriedBetween
  <2> SUFFICES ASSUME ChainInv, pc = "done", peer # 0,
                      verify \/ side = "server", retries.first = 0
               PROVE  {1, 2} \subseteq leaves
    BY DEF BothVerifiedUnlessRetriedBetween
  <2>1. sent \in Seq(Nat)
    BY SentList DEF ChainInv
  <2>2. Len(sent) >= 2
    BY <2>1 DEF ChainInv
  <2> QED BY <2>2 DEF ChainInv, InOrder, Verifies
<1> QED BY <1>1, ChainInvariant, PTL
=============================================================================
