--------------------------- MODULE NtlsKexProofs ---------------------------
(***************************************************************************)
(* The key exchange, for any sequence of suites, of any length, broken off *)
(* anywhere: KexInv is inductive and implies what the runs check.          *)
(***************************************************************************)
EXTENDS NtlsKex, TLAPS

(* Buffers of no, one and two parts.                                       *)
LEMMA BufferType ==
  /\ NULL \in Buffers
  /\ \A p \in Parts : <<p>> \in Buffers
  /\ \A p, q \in Parts : <<p, q>> \in Buffers
BY DEF Buffers, NULL

(* Init establishes the invariant: both objects are new.                   *)
LEMMA KexInitial == Init => KexInv
BY KexAssumption, BufferType
   DEF Init, KexInv, Turns, Messages, ServerFields, ClientFields, NewServer,
       NewClient, NULL

(* SSL_clear gives both ends new fields.                                   *)
LEMMA ClearKeeps == KexInv /\ Clear => KexInv'
BY KexAssumption, BufferType
   DEF Clear, KexInv, Turns, Messages, ServerFields, ClientFields, NewServer,
       NewClient, NULL

(* A new handshake finds no tmp.pkey and no message in flight.             *)
LEMMA StartKeeps == KexInv /\ StartHandshake => KexInv'
<1> SUFFICES ASSUME KexInv, StartHandshake PROVE KexInv'
  OBVIOUS
<1>1. Turns'
  BY KexAssumption
     DEF StartHandshake, KexInv, Turns, ServerFields, ClientFields, AllSuites
<1>2. Messages'
  BY DEF StartHandshake, KexInv, Turns, Messages, ServerFields, ClientFields, NULL
<1>3. ServerFields'
  BY BufferType DEF StartHandshake, KexInv, Turns, ServerFields
<1>4. ClientFields'
  BY BufferType DEF StartHandshake, KexInv, Turns, ClientFields
<1> QED
  BY <1>1, <1>2, <1>3, <1>4 DEF KexInv

-----------------------------------------------------------------------------
(* The branches of the server's ServerKeyExchange leave what the           *)
(* ClientKeyExchange will need, and send the parameters of the suite.      *)
LEMMA ServerSkeLeaves ==
  ASSUME KexInv, server.at = "ske"
  PROVE  LET b == ServerSkeBranch
             f == [b.fields EXCEPT !.at = "cke", !.group = b.group] IN
         /\ b.params = PromisedParams
         /\ b.group = ServerGroup
         /\ f \in [at : {"cke"}, pms : Buffers, pkey : Buffers, aigis : Buffers,
                   group : {ServerGroup}, ms : Buffers]
         /\ f.pkey = IF suite \in {"ECDHEKyber", "SM2DHE"}
                     THEN <<Part("dhKey", n, 0)>> ELSE NULL
         /\ suite \in {"ECCKyber", "ECDHEKyber"} => f.pms = HybridSk
         /\ suite = "KyberAigisEnc" => f.aigis = <<Part("aigisKey", n, 0)>>
<1>1. /\ server \in [at : {"idle", "ske", "cke", "done"}, pms : Buffers,
                     pkey : Buffers, aigis : Buffers, group : Nat, ms : Buffers]
      /\ server.pkey = NULL /\ server.group = 0 /\ suite \in AllSuites
  BY DEF KexInv, Turns, ServerFields
<1>2. n \in Nat /\ ServerGroup \in Nat /\ SharedGroup \in Nat
  BY DEF KexInv, Turns, ServerGroup, SharedGroup
<1>3. /\ HybridSk \in Buffers
      /\ <<Part("dhKey", n, 0)>> \in Buffers
      /\ <<Part("aigisKey", n, 0)>> \in Buffers
  <2>1. /\ Part("ecSk", 0, 0) \in Parts
        /\ Part("kyberSk", n, 0) \in Parts
        /\ Part("dhKey", n, 0) \in Parts
        /\ Part("aigisKey", n, 0) \in Parts
    BY <1>2 DEF Part, Parts, Kinds
  <2> QED
    BY <2>1, BufferType DEF HybridSk
<1>4. HybridPk[2] = Part("kyberPk", n, 0)
  BY DEF HybridPk
<1>5. CASE suite \in {"RSA", "SM2", "Kyber"}
  BY <1>1, <1>2, <1>5
     DEF ServerSkeBranch, ServerSkePlain, PromisedParams, ServerGroup
<1>6. CASE suite = "KyberAigisEnc"
  BY <1>1, <1>2, <1>3, <1>6
     DEF ServerSkeBranch, ServerSkeAigis, PromisedParams, ServerGroup
<1>7. CASE suite = "ECCKyber"
  BY <1>1, <1>2, <1>3, <1>4, <1>7
     DEF ServerSkeBranch, ServerSkeEccKyber, PromisedParams, ServerGroup
<1>8. CASE suite = "ECDHEKyber"
  BY <1>1, <1>2, <1>3, <1>4, <1>8
     DEF ServerSkeBranch, ServerSkeEcdheKyber, PromisedParams, ServerGroup
<1>9. CASE suite = "SM2DHE"
  BY <1>1, <1>2, <1>3, <1>9
     DEF ServerSkeBranch, ServerSkeSm2dhe, PromisedParams, ServerGroup
<1> QED
  BY <1>1, <1>5, <1>6, <1>7, <1>8, <1>9 DEF AllSuites

(* The server sends its ServerKeyExchange: no tmp.pkey is in the way.      *)
LEMMA ServerSkeKeeps == KexInv /\ ServerSke => KexInv'
<1> SUFFICES ASSUME KexInv, ServerSke PROVE KexInv'
  OBVIOUS
<1> DEFINE b == ServerSkeBranch
           f == [b.fields EXCEPT !.at = "cke", !.group = b.group]
           m == [group |-> b.group, params |-> b.params,
                 signed |-> ServerTbs(b.params)]
<1>1. /\ server.at = "ske" /\ client.at = "ske"
      /\ ske = NULL /\ cke = NULL /\ ServerSkeReady
  BY DEF ServerSke, KexInv, Turns, ServerFields, ServerSkeReady
<1>2. server' = f /\ ske' = <<m>> /\ UNCHANGED <<n, suite, client, cke>>
  BY <1>1 DEF ServerSke
<1>3. /\ b.params = PromisedParams /\ b.group = ServerGroup
      /\ f \in [at : {"cke"}, pms : Buffers, pkey : Buffers, aigis : Buffers,
                group : {ServerGroup}, ms : Buffers]
      /\ f.pkey = IF suite \in {"ECDHEKyber", "SM2DHE"}
                  THEN <<Part("dhKey", n, 0)>> ELSE NULL
      /\ suite \in {"ECCKyber", "ECDHEKyber"} => f.pms = HybridSk
      /\ suite = "KyberAigisEnc" => f.aigis = <<Part("aigisKey", n, 0)>>
  BY <1>1, ServerSkeLeaves
<1> HIDE DEF b, f
<1>4. f.at = "cke" /\ f.group = ServerGroup /\ ServerGroup \in Nat
  BY <1>3 DEF ServerGroup, SharedGroup
<1>5. Turns'
  BY <1>1, <1>2, <1>4 DEF KexInv, Turns, NULL
<1>6. Messages'
  BY <1>1, <1>2, <1>3
     DEF Messages, ServerTbs, ServerGroup, PromisedParams, NULL
<1>7. ServerFields'
  BY <1>2, <1>3, <1>4 DEF ServerFields, ServerGroup, HybridSk
<1>8. ClientFields'
  BY <1>2 DEF KexInv, ClientFields, Promised, ClientGroup, ServerGroup, HybridPk
<1> QED
  BY <1>5, <1>6, <1>7, <1>8 DEF KexInv

-----------------------------------------------------------------------------
(* What the message in flight leaves with the client, by suite.            *)
LEMMA ClientSkeLeaves ==
  ASSUME KexInv, client.at = "ske",
         NEW m, m = [group |-> ServerGroup, params |-> PromisedParams,
                     signed |-> ServerTbs(PromisedParams)]
  PROVE  LET f == ClientSkeBranch(m) IN
         /\ ClientSkeAccepted(m)
         /\ f \in [at : {"ske"}, pms : Buffers, peerTmp : Buffers,
                   aigis : Buffers, group : {ClientGroup}, ms : Buffers]
         /\ suite = "ECCKyber" => f.pms = HybridPk
         /\ suite = "ECDHEKyber" => f.pms = <<Part("kyberPk", n, 0)>>
         /\ suite \in {"ECDHEKyber", "SM2DHE"} =>
              f.peerTmp = <<Part("dhPub", n, 0)>>
         /\ suite = "KyberAigisEnc" => f.aigis = <<Part("aigisPk", n, 0)>>
<1> DEFINE fresh == [client EXCEPT !.peerTmp = NULL, !.aigis = NULL]
<1>1. /\ client \in [at : {"idle", "ske", "cke", "post", "done"}, pms : Buffers,
                     peerTmp : Buffers, aigis : Buffers, group : Nat, ms : Buffers]
      /\ client.group = 0 /\ suite \in AllSuites /\ n \in Nat
  BY DEF KexInv, Turns, ClientFields
<1>2. fresh \in [at : {"ske"}, pms : Buffers, peerTmp : {NULL}, aigis : {NULL},
                group : {0}, ms : Buffers]
  BY <1>1
<1>3. /\ <<Part("ecPk", 0, 0), Part("kyberPk", n, 0)>> \in Buffers
      /\ <<Part("kyberPk", n, 0)>> \in Buffers
      /\ <<Part("dhPub", n, 0)>> \in Buffers
      /\ <<Part("aigisPk", n, 0)>> \in Buffers
  <2>1. /\ Part("ecPk", 0, 0) \in Parts
        /\ Part("kyberPk", n, 0) \in Parts
        /\ Part("dhPub", n, 0) \in Parts
        /\ Part("aigisPk", n, 0) \in Parts
    BY <1>1 DEF Part, Parts, Kinds
  <2> QED
    BY <2>1, BufferType
<1>4. Bytes(Part("kyberPk", n, 0).what) = KYBER_768_PK_SIZE
  BY DEF Bytes, Part, KYBER_768_PK_SIZE
<1> HIDE DEF fresh
<1>5. ClientSkeBranch(m) =
        CASE suite = "ECCKyber" -> ClientSkeEccKyber(fresh, m)
          [] suite = "ECDHEKyber" -> ClientSkeEcdheKyber(fresh, m)
          [] suite = "KyberAigisEnc" -> ClientSkeAigis(fresh, m)
          [] suite = "SM2DHE" -> ClientSkeSm2dhe(fresh, m)
          [] OTHER -> fresh
  BY DEF ClientSkeBranch, fresh
<1>6. CASE suite \in {"RSA", "SM2", "Kyber"}
  BY <1>2, <1>5, <1>6, BufferType
     DEF ClientSkeAccepted, ClientTbs, ServerTbs, ClientGroup, ServerGroup
<1>7. CASE suite = "KyberAigisEnc"
  BY <1>2, <1>3, <1>5, <1>7, BufferType
     DEF ClientSkeAccepted, ClientTbs, ServerTbs, ClientGroup, ServerGroup,
         ClientSkeAigis, PromisedParams
<1>8. CASE suite = "ECCKyber"
  BY <1>2, <1>3, <1>4, <1>5, <1>8, BufferType
     DEF ClientSkeAccepted, ClientTbs, ServerTbs, ClientGroup, ServerGroup,
         ClientSkeEccKyber, PromisedParams, HybridPk
<1>9. CASE suite = "ECDHEKyber"
  BY <1>2, <1>3, <1>4, <1>5, <1>9, BufferType
     DEF ClientSkeAccepted, ClientTbs, ServerTbs, ClientGroup, ServerGroup,
         ClientSkeEcdheKyber, PromisedParams
<1>10. CASE suite = "SM2DHE"
  BY <1>2, <1>3, <1>5, <1>10, BufferType
     DEF ClientSkeAccepted, ClientTbs, ServerTbs, ClientGroup, ServerGroup,
         ClientSkeSm2dhe, PromisedParams
<1> QED
  BY <1>1, <1>6, <1>7, <1>8, <1>9, <1>10 DEF AllSuites

(* The client accepts the ServerKeyExchange and keeps its parameters.      *)
LEMMA ClientSkeKeeps == KexInv /\ ClientSke => KexInv'
<1> SUFFICES ASSUME KexInv, ClientSke PROVE KexInv'
  OBVIOUS
<1> DEFINE m == [group |-> ServerGroup, params |-> PromisedParams,
                 signed |-> ServerTbs(PromisedParams)]
           f == ClientSkeBranch(m)
<1>1. /\ client.at = "ske" /\ server.at = "cke"
      /\ ske = <<m>> /\ cke = NULL /\ ske[1] = m
  BY DEF ClientSke, KexInv, Turns, Messages, ServerFields
<1>2. /\ ClientSkeAccepted(m)
      /\ f \in [at : {"ske"}, pms : Buffers, peerTmp : Buffers,
                aigis : Buffers, group : {ClientGroup}, ms : Buffers]
      /\ suite = "ECCKyber" => f.pms = HybridPk
      /\ suite = "ECDHEKyber" => f.pms = <<Part("kyberPk", n, 0)>>
      /\ suite \in {"ECDHEKyber", "SM2DHE"} => f.peerTmp = <<Part("dhPub", n, 0)>>
      /\ suite = "KyberAigisEnc" => f.aigis = <<Part("aigisPk", n, 0)>>
  BY <1>1, ClientSkeLeaves
<1>3. client' = [f EXCEPT !.at = "cke"] /\ ske' = NULL
      /\ UNCHANGED <<n, suite, server, cke>>
  BY <1>1, <1>2 DEF ClientSke
<1> HIDE DEF m, f
<1>4. Turns'
  BY <1>1, <1>2, <1>3 DEF KexInv, Turns, NULL
<1>5. Messages'
  BY <1>1, <1>3 DEF Messages, NULL
<1>6. ServerFields'
  BY <1>3 DEF KexInv, ServerFields, Promised, ServerGroup, HybridSk
<1>7. ClientGroup \in Nat
  BY DEF ClientGroup, ServerGroup, SharedGroup
<1>8. ClientFields'
  BY <1>2, <1>3, <1>7 DEF ClientFields, ClientGroup, ServerGroup, HybridPk
<1> QED
  BY <1>4, <1>5, <1>6, <1>8 DEF KexInv

-----------------------------------------------------------------------------
(* The client's fields give the message and the secret of the suite.       *)
LEMMA ClientCkeYields ==
  ASSUME KexInv, client.at = "cke"
  PROVE  /\ ClientCkeReady
         /\ ClientCkeBranch.secret = Promised
         /\ ClientCkeBranch.parts = PromisedParts
<1>1. /\ suite \in AllSuites /\ n \in Nat
      /\ suite = "ECCKyber" => client.pms = HybridPk
      /\ suite = "ECDHEKyber" => client.pms = <<Part("kyberPk", n, 0)>>
      /\ suite \in {"ECDHEKyber", "SM2DHE"} => client.peerTmp = <<Part("dhPub", n, 0)>>
      /\ suite = "KyberAigisEnc" => client.aigis = <<Part("aigisPk", n, 0)>>
  BY DEF KexInv, Turns, ClientFields
<1>2. CASE suite \in {"RSA", "SM2", "Kyber"}
  BY <1>2 DEF ClientCkeReady, ClientCkeBranch, ClientCkePms, ClientCkeKyber,
              Promised, PromisedParts
<1>3. CASE suite = "KyberAigisEnc"
  BY <1>1, <1>3 DEF ClientCkeReady, ClientCkeBranch, ClientCkeAigis, Promised,
                    PromisedParts, NULL, Part
<1>4. CASE suite = "ECCKyber"
  <2>1. Size(HybridPk) = ECC_KYBER_HYBRID_PK_SIZE
    BY DEF Size, HybridPk, Part, Bytes, ECC_KYBER_HYBRID_PK_SIZE
  <2> QED
    BY <1>1, <1>4, <2>1
       DEF ClientCkeReady, ClientCkeBranch, ClientCkeEccKyber, Promised,
           PromisedParts, Encaps, HybridPk, Part
<1>5. CASE suite = "ECDHEKyber"
  <2>1. Size(<<Part("kyberPk", n, 0)>>) = KYBER_768_PK_SIZE
    BY DEF Size, Part, Bytes, KYBER_768_PK_SIZE
  <2> QED
    BY <1>1, <1>5, <2>1
       DEF ClientCkeReady, ClientCkeBranch, ClientCkeEcdheKyber, Promised,
           PromisedParts, Encaps, Derive, Part, NULL
<1>6. CASE suite = "SM2DHE"
  BY <1>1, <1>6 DEF ClientCkeReady, ClientCkeBranch, ClientCkeSm2dhe, Promised,
                    PromisedParts, Derive, Part, NULL
<1> QED
  BY <1>1, <1>2, <1>3, <1>4, <1>5, <1>6 DEF AllSuites

(* What is promised is a buffer, and not an empty one.                     *)
LEMMA PromisedType ==
  ASSUME n \in Nat, suite \in AllSuites
  PROVE  /\ Promised \in Buffers /\ Promised # NULL
         /\ PromisedParts \in Buffers /\ PromisedParts # NULL
<1>1. \A what \in Kinds, s \in {0, n} : Part(what, s, n) \in Parts
  BY DEF Part, Parts
<1>2. /\ Part("pms", 0, n) \in Parts /\ Part("dhSs", n, n) \in Parts
      /\ Part("kyberSs", n, n) \in Parts /\ Part("kemSs", 0, n) \in Parts
      /\ Part("aigisSs", n, n) \in Parts /\ Part("encPms", 0, n) \in Parts
      /\ Part("dhPub", 0, n) \in Parts /\ Part("kyberCt", n, n) \in Parts
      /\ Part("kemCt", 0, n) \in Parts /\ Part("aigisCt", n, n) \in Parts
  BY <1>1 DEF Kinds
<1>3. /\ \A p \in Parts : <<p>> # NULL
      /\ \A p, q \in Parts : <<p, q>> # NULL
  BY DEF NULL
<1> QED
  BY <1>2, <1>3, BufferType DEF Promised, PromisedParts, AllSuites

(* The client sends its ClientKeyExchange and holds the secret.            *)
LEMMA ClientCkeKeeps == KexInv /\ ClientCke => KexInv'
<1> SUFFICES ASSUME KexInv, ClientCke PROVE KexInv'
  OBVIOUS
<1>1. client.at = "cke" /\ server.at = "cke" /\ ske = NULL /\ cke = NULL
  BY DEF ClientCke, KexInv, Turns
<1>2. /\ client' = [client EXCEPT !.at = "post", !.pms = Promised]
      /\ cke' = PromisedParts /\ UNCHANGED <<n, suite, server, ske>>
  BY <1>1, ClientCkeYields DEF ClientCke
<1>3. Promised \in Buffers /\ PromisedParts # NULL
  BY PromisedType DEF KexInv, Turns
<1>4. /\ client \in [at : {"idle", "ske", "cke", "post", "done"}, pms : Buffers,
                     peerTmp : Buffers, aigis : Buffers, group : Nat, ms : Buffers]
      /\ client.group = ClientGroup
  BY <1>1 DEF KexInv, ClientFields
<1>5. client'.at = "post" /\ client'.pms = Promised /\ client'.group = ClientGroup
  BY <1>2, <1>4
<1>6. Promised' = Promised /\ PromisedParts' = PromisedParts
      /\ ClientGroup' = ClientGroup
  BY <1>2 DEF Promised, PromisedParts, ClientGroup, ServerGroup
<1>7. Turns'
  BY <1>1, <1>2, <1>3, <1>5 DEF KexInv, Turns, NULL
<1>8. Messages'
  BY <1>1, <1>2, <1>6 DEF Messages, NULL
<1>9. ServerFields'
  BY <1>2, <1>6 DEF KexInv, ServerFields, ServerGroup, HybridSk
<1>10. ClientFields'
  BY <1>2, <1>3, <1>4, <1>5, <1>6 DEF ClientFields
<1> QED
  BY <1>7, <1>8, <1>9, <1>10 DEF KexInv

(* The post work makes the master secret from it.                          *)
LEMMA ClientPostWorkKeeps == KexInv /\ ClientPostWork => KexInv'
<1> SUFFICES ASSUME KexInv, ClientPostWork PROVE KexInv'
  OBVIOUS
<1>1. /\ client.at = "post" /\ client.pms = Promised /\ ske = NULL
      /\ server.at \in {"cke", "done"}
      /\ client \in [at : {"idle", "ske", "cke", "post", "done"}, pms : Buffers,
                     peerTmp : Buffers, aigis : Buffers, group : Nat, ms : Buffers]
      /\ client.group = ClientGroup
  BY DEF ClientPostWork, KexInv, Turns, ClientFields
<1>2. Promised \in Buffers /\ Promised # NULL
  BY PromisedType DEF KexInv, Turns
<1>3. /\ client' = [client EXCEPT !.ms = Promised, !.pms = NULL, !.at = "done"]
      /\ UNCHANGED <<n, suite, server, ske, cke>>
  BY <1>1, <1>2 DEF ClientPostWork
<1>4. client'.at = "done" /\ client'.ms = Promised /\ client'.group = ClientGroup
  BY <1>1, <1>3
<1>5. Promised' = Promised /\ ClientGroup' = ClientGroup
      /\ PromisedParts' = PromisedParts
  BY <1>3 DEF Promised, ClientGroup, ServerGroup, PromisedParts
<1>6. Turns'
  BY <1>1, <1>3, <1>4 DEF KexInv, Turns
<1>7. Messages'
  BY <1>1, <1>3, <1>5 DEF KexInv, Messages
<1>8. ServerFields'
  BY <1>3, <1>5 DEF KexInv, ServerFields, ServerGroup, HybridSk
<1>9. ClientFields'
  BY <1>1, <1>2, <1>3, <1>4, <1>5, BufferType DEF ClientFields
<1> QED
  BY <1>6, <1>7, <1>8, <1>9 DEF KexInv

-----------------------------------------------------------------------------
(* The server's fields and the message in flight give the secret of the    *)
(* suite, no check stands in the way, and tmp.pkey is gone.                *)
LEMMA ServerCkeYields ==
  ASSUME KexInv, server.at = "cke", cke = PromisedParts
  PROVE  LET f == ServerCkeBranch IN
         /\ ServerCkeReady
         /\ f = [server EXCEPT !.ms = Promised, !.pkey = NULL, !.pms = f.pms]
         /\ f.pms \in Buffers
<1>1. /\ suite \in AllSuites /\ n \in Nat
      /\ server \in [at : {"idle", "ske", "cke", "done"}, pms : Buffers,
                     pkey : Buffers, aigis : Buffers, group : Nat, ms : Buffers]
      /\ server.pkey = IF suite \in {"ECDHEKyber", "SM2DHE"}
                       THEN <<Part("dhKey", n, 0)>> ELSE NULL
      /\ suite \in {"ECCKyber", "ECDHEKyber"} => server.pms = HybridSk
      /\ suite = "KyberAigisEnc" => server.aigis = <<Part("aigisKey", n, 0)>>
  BY DEF KexInv, Turns, ServerFields
<1>2. CASE suite \in {"RSA", "SM2"}
  <2>1. MessageSize(<<Part("encPms", 0, n)>>) <= CLIENT_KEY_EXCH_MAX_LENGTH
    BY DEF MessageSize, Wire, Bytes, Part, CLIENT_KEY_EXCH_MAX_LENGTH
  <2>2. cke = <<Part("encPms", 0, n)>> /\ Promised = <<Part("pms", 0, n)>>
    BY <1>2 DEF PromisedParts, Promised
  <2>3. Part("pms", cke[1].s, cke[1].c) = Part("pms", 0, n)
    BY <2>2 DEF Part
  <2>4. ServerCkeBranch = [server EXCEPT !.ms = Promised]
    BY <1>2, <2>2, <2>3 DEF ServerCkeBranch, ServerCkePms
  <2>5. ServerCkeReady
    BY <1>2, <2>1, <2>2 DEF ServerCkeReady
  <2> QED
    BY <1>1, <1>2, <2>4, <2>5
<1>3. CASE suite = "Kyber"
  <2>1. MessageSize(<<Part("kemCt", 0, n)>>) <= CLIENT_KEY_EXCH_MAX_LENGTH
    BY DEF MessageSize, Wire, Bytes, Part, CLIENT_KEY_EXCH_MAX_LENGTH
  <2>2. cke = <<Part("kemCt", 0, n)>> /\ Promised = <<Part("kemSs", 0, n)>>
    BY <1>3 DEF PromisedParts, Promised
  <2>3. Part("kemSs", cke[1].s, cke[1].c) = Part("kemSs", 0, n)
    BY <2>2 DEF Part
  <2>4. ServerCkeBranch = [server EXCEPT !.ms = Promised]
    BY <1>3, <2>2, <2>3 DEF ServerCkeBranch, ServerCkeKyber
  <2>5. ServerCkeReady
    BY <1>3, <2>1, <2>2 DEF ServerCkeReady
  <2> QED
    BY <1>1, <1>3, <2>4, <2>5
<1>4. CASE suite = "KyberAigisEnc"
  <2>1. MessageSize(<<Part("kemCt", 0, n), Part("aigisCt", n, n)>>)
          <= CLIENT_KEY_EXCH_MAX_LENGTH
    BY DEF MessageSize, Wire, Bytes, Part, CLIENT_KEY_EXCH_MAX_LENGTH
  <2>2. /\ cke = <<Part("kemCt", 0, n), Part("aigisCt", n, n)>>
        /\ Promised = <<Part("kemSs", 0, n), Part("aigisSs", n, n)>>
    BY <1>4 DEF PromisedParts, Promised
  <2>3. /\ Part("kemSs", cke[1].s, cke[1].c) = Part("kemSs", 0, n)
        /\ Part("aigisSs", server.aigis[1].s, cke[2].c) = Part("aigisSs", n, n)
    BY <1>1, <1>4, <2>2 DEF Part
  <2>4. ServerCkeBranch = [server EXCEPT !.ms = Promised]
    BY <1>4, <2>2, <2>3 DEF ServerCkeBranch, ServerCkeAigis
  <2>5. server.aigis # NULL
    <3>1. /\ server.aigis = <<Part("aigisKey", n, 0)>>
          /\ Part("aigisKey", n, 0) \in Parts
      BY <1>1, <1>4 DEF Part, Parts, Kinds
    <3>2. \A p \in Parts : <<p>> # NULL
      BY DEF NULL
    <3> QED
      BY <3>1, <3>2
  <2>6. ServerCkeReady
    BY <1>4, <2>1, <2>2, <2>5 DEF ServerCkeReady
  <2> QED
    BY <1>1, <1>4, <2>4, <2>6
<1>5. CASE suite = "ECCKyber"
  <2>1. /\ MessageSize(<<Part("encPms", 0, n), Part("kyberCt", n, n)>>)
             <= CLIENT_KEY_EXCH_MAX_LENGTH
        /\ Bytes(Part("kyberCt", n, n).what) = KYBER_768_CT_SIZE
        /\ Size(HybridSk) = ECC_KYBER_HYBRID_SK_SIZE
    BY DEF MessageSize, Wire, Bytes, Part, CLIENT_KEY_EXCH_MAX_LENGTH, Size,
           HybridSk, KYBER_768_CT_SIZE, ECC_KYBER_HYBRID_SK_SIZE
  <2>2. /\ cke = <<Part("encPms", 0, n), Part("kyberCt", n, n)>>
        /\ Promised = <<Part("pms", 0, n), Part("kyberSs", n, n)>>
    BY <1>5 DEF PromisedParts, Promised
  <2>3. Decaps(server.pms, cke[2]) = Part("kyberSs", n, n)
    BY <1>1, <1>5, <2>2 DEF Decaps, HybridSk, Part
  <2>4. Part("pms", cke[1].s, cke[1].c) = Part("pms", 0, n)
    BY <2>2 DEF Part
  <2>5. ServerCkeBranch = [server EXCEPT !.ms = Promised]
    BY <1>5, <2>2, <2>3, <2>4 DEF ServerCkeBranch, ServerCkeEccKyber
  <2>6. ServerCkeReady
    BY <1>1, <1>5, <2>1, <2>2 DEF ServerCkeReady
  <2> QED
    BY <1>1, <1>5, <2>5, <2>6
<1>6. CASE suite = "ECDHEKyber"
  <2>1. /\ MessageSize(<<Part("dhPub", 0, n), Part("kyberCt", n, n)>>)
             <= CLIENT_KEY_EXCH_MAX_LENGTH
        /\ Bytes(Part("kyberCt", n, n).what) = KYBER_768_CT_SIZE
        /\ Size(HybridSk) = ECC_KYBER_HYBRID_SK_SIZE
    BY DEF MessageSize, Wire, Bytes, Part, CLIENT_KEY_EXCH_MAX_LENGTH, Size,
           HybridSk, KYBER_768_CT_SIZE, ECC_KYBER_HYBRID_SK_SIZE
  <2>2. /\ cke = <<Part("dhPub", 0, n), Part("kyberCt", n, n)>>
        /\ Promised = <<Part("dhSs", n, n), Part("kyberSs", n, n)>>
        /\ server.pkey = <<Part("dhKey", n, 0)>>
    BY <1>1, <1>6 DEF PromisedParts, Promised
  <2>3. /\ Decaps(server.pms, cke[2]) = Part("kyberSs", n, n)
        /\ Derive(server.pkey[1], cke[1]) = Part("dhSs", n, n)
    BY <1>1, <1>6, <2>2 DEF Decaps, Derive, HybridSk, Part
  <2>4. ServerCkeBranch = [server EXCEPT !.pkey = NULL, !.ms = Promised,
                                         !.pms = <<Part("zeroes", 0, 0)>>]
    BY <1>1, <1>6, <2>2, <2>3 DEF ServerCkeBranch, ServerCkeEcdheKyber
  <2>5. ServerCkeReady
    BY <1>1, <1>6, <2>1, <2>2 DEF ServerCkeReady, NULL
  <2>6. <<Part("zeroes", 0, 0)>> \in Buffers
    <3>1. Part("zeroes", 0, 0) \in Parts
      BY DEF Part, Parts, Kinds
    <3> QED
      BY <3>1, BufferType
  <2> QED
    BY <1>1, <2>4, <2>5, <2>6
<1>7. CASE suite = "SM2DHE"
  <2>1. MessageSize(<<Part("dhPub", 0, n)>>) <= CLIENT_KEY_EXCH_MAX_LENGTH
    BY DEF MessageSize, Wire, Bytes, Part, CLIENT_KEY_EXCH_MAX_LENGTH
  <2>2. /\ cke = <<Part("dhPub", 0, n)>> /\ Promised = <<Part("dhSs", n, n)>>
        /\ server.pkey = <<Part("dhKey", n, 0)>>
    BY <1>1, <1>7 DEF PromisedParts, Promised
  <2>3. Derive(server.pkey[1], cke[1]) = Part("dhSs", n, n)
    BY <2>2 DEF Derive, Part
  <2>4. ServerCkeBranch = [server EXCEPT !.pkey = NULL, !.ms = Promised]
    BY <1>7, <2>2, <2>3 DEF ServerCkeBranch, ServerCkeSm2dhe
  <2>5. ServerCkeReady
    BY <1>7, <2>1, <2>2 DEF ServerCkeReady, NULL
  <2> QED
    BY <1>1, <1>7, <2>4, <2>5
<1> QED
  BY <1>1, <1>2, <1>3, <1>4, <1>5, <1>6, <1>7 DEF AllSuites

(* The server takes the ClientKeyExchange.                                 *)
LEMMA ServerCkeKeeps == KexInv /\ ServerCke => KexInv'
<1> SUFFICES ASSUME KexInv, ServerCke PROVE KexInv'
  OBVIOUS
<1> DEFINE f == ServerCkeBranch
<1>1. /\ server.at = "cke" /\ client.at \in {"post", "done"}
      /\ cke = PromisedParts /\ ske = NULL
      /\ server \in [at : {"idle", "ske", "cke", "done"}, pms : Buffers,
                     pkey : Buffers, aigis : Buffers, group : Nat, ms : Buffers]
      /\ server.group = ServerGroup
  BY DEF ServerCke, KexInv, Turns, Messages, ServerFields
<1>2. /\ ServerCkeReady /\ f.pms \in Buffers
      /\ f = [server EXCEPT !.ms = Promised, !.pkey = NULL, !.pms = f.pms]
  BY <1>1, ServerCkeYields
<1>3. server' = [f EXCEPT !.at = "done"] /\ cke' = NULL
      /\ UNCHANGED <<n, suite, client, ske>>
  BY <1>1, <1>2 DEF ServerCke
<1> HIDE DEF f
<1>4. Promised \in Buffers
  BY PromisedType DEF KexInv, Turns
<1>5. /\ server' = [server EXCEPT !.ms = Promised, !.pkey = NULL, !.pms = f.pms,
                                  !.at = "done"]
      /\ server'.at = "done" /\ server'.ms = Promised
      /\ server'.pkey = NULL /\ server'.group = ServerGroup
  BY <1>1, <1>2, <1>3
<1>6. Promised' = Promised /\ ServerGroup' = ServerGroup
  BY <1>3 DEF Promised, ServerGroup
<1>7. Turns'
  BY <1>1, <1>3, <1>5 DEF KexInv, Turns
<1>8. Messages'
  BY <1>1, <1>3 DEF Messages
<1>9. ServerFields'
  BY <1>1, <1>2, <1>4, <1>5, <1>6, BufferType DEF ServerFields
<1>10. ClientFields'
  BY <1>3, <1>6 DEF KexInv, ClientFields, ClientGroup, HybridPk
<1> QED
  BY <1>7, <1>8, <1>9, <1>10 DEF KexInv

-----------------------------------------------------------------------------
(* KexInv holds always: every field of s->s3 that the key exchange reads   *)
(* was written in this handshake by this suite.                            *)
THEOREM KexInvariant == Spec => []KexInv
<1>1. KexInv /\ UNCHANGED vars => KexInv'
  BY DEF vars, KexInv, Turns, Messages, ServerFields, ClientFields, Promised,
         PromisedParams, PromisedParts, ServerGroup, ClientGroup, ServerTbs,
         HybridSk, HybridPk
<1>2. KexInv /\ [Next]_vars => KexInv'
  BY <1>1, StartKeeps, ClearKeeps, ServerSkeKeeps, ClientSkeKeeps,
     ClientCkeKeeps, ClientPostWorkKeeps, ServerCkeKeeps DEF Next
<1> QED
  BY KexInitial, <1>2, PTL DEF Spec

(* Both ends build the master secret from the fresh parts of their suite,  *)
(* after any number of handshakes of any suites.                           *)
THEOREM KexAgreement == Spec => []MasterSecretAsPromised
<1>1. KexInv => MasterSecretAsPromised
  BY DEF KexInv, ServerFields, ClientFields, MasterSecretAsPromised
<1> QED
  BY <1>1, KexInvariant, PTL

(* The key exchange of two ends that follow the code never fails.          *)
THEOREM KexTotal == Spec => []KeyExchangeNeverFails
<1>1. KexInv => KeyExchangeNeverFails
  BY DEF KexInv, Turns, KeyExchangeNeverFails
<1> QED
  BY <1>1, KexInvariant, PTL

(* From the ServerKeyExchange on the two sessions name the same group, in  *)
(* every suite but the ECC+Kyber ones.                                     *)
THEOREM KexGroups == Spec => []GroupsAgreeUnlessEccKyber
<1>1. KexInv => GroupsAgreeUnlessEccKyber
  <2> SUFFICES ASSUME KexInv, suite # "ECCKyber",
                      client.at \in {"cke", "post", "done"}
               PROVE  client.group = server.group
    BY DEF GroupsAgreeUnlessEccKyber, GroupsAgree
  <2>1. server.at \in {"cke", "done"}
    BY DEF KexInv, Turns
  <2> QED
    BY <2>1 DEF KexInv, ServerFields, ClientFields, ClientGroup
<1> QED
  BY <1>1, KexInvariant, PTL
=============================================================================
