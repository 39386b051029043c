------------------------------ MODULE NtlsKex ------------------------------
(***************************************************************************)
(* The key exchange inside ServerKeyExchange and ClientKeyExchange, for    *)
(* every suite of this fork. The ends keep what they need for the next     *)
(* message in s->s3: tmp.pkey or peer_tmp, tmp.aigis_kem_pkey, and         *)
(* tmp.pms, which holds now a private key, now a public key, now a secret, *)
(* and outlives the handshake. An SSL object goes through several full     *)
(* handshakes, of any suites, by renegotiation or after SSL_clear. Both    *)
(* ends follow the code, cryptography is ideal and does not fail.          *)
(* (Definitions named Mut... are for mutation runs only.)                  *)
(***************************************************************************)
EXTENDS Naturals, Sequences

AllSuites ==
  {"RSA", "SM2", "SM2DHE", "ECCKyber", "ECDHEKyber", "Kyber", "KyberAigisEnc"}

CONSTANTS
  KexSuites,       \* the suites the applications negotiate
  MaxHandshakes    \* bound: full handshakes on one pair of SSL objects

ASSUME KexAssumption == KexSuites \subseteq AllSuites /\ MaxHandshakes \in Nat

VARIABLES
  n,         \* number of the handshake: what it generates is told from older
  suite,     \* the suite of s->s3.tmp.new_cipher
  server,    \* the fields of the server's SSL object
  client,    \* the fields of the client's
  ske,       \* ServerKeyExchange on its way, or NULL
  cke        \* ClientKeyExchange on its way, or NULL

vars == <<n, suite, server, client, ske, cke>>

-----------------------------------------------------------------------------
(* A buffer, key or secret is a sequence of parts, NULL the empty one. A   *)
(* part is known by what it is, the handshake of the server key behind it  *)
(* (0: a certificate's) and the handshake of the client's randomness.      *)
NULL == << >>
Part(what, s, c) == [what |-> what, s |-> s, c |-> c]
Kinds ==
  {"pms", "encPms", "dhKey", "dhPub", "dhSs", "ecSk", "ecPk", "kyberSk",
   "kyberPk", "kyberCt", "kyberSs", "kemCt", "kemSs", "aigisKey", "aigisPk",
   "aigisCt", "aigisSs", "zeroes"}
Parts == [what : Kinds, s : Nat, c : Nat]
Buffers == Seq(Parts)

\* Mutant: the certificate's KEM is ML-KEM-768.
MutBytes(what) ==
  CASE what \in {"ecSk", "kyberSs", "dhSs", "kemSs", "aigisSs"} -> 32
    [] what \in {"ecPk", "dhPub"} -> 65
    [] what = "zeroes" -> 64
    [] what = "kyberPk" -> 1184
    [] what = "kyberSk" -> 2400
    [] what \in {"kyberCt", "kemCt"} -> 1088
    [] what = "pms" -> 48
    [] what = "encPms" -> 512
    [] what = "aigisPk" -> 896
    [] what = "aigisCt" -> 992

(* The lengths in bytes. An encrypted premaster secret is as long as the   *)
(* RSA modulus, taken to have 4096 bits, and shorter for SM2.              *)
Bytes(what) ==
  CASE what \in {"ecSk", "kyberSs", "dhSs", "kemSs", "aigisSs"} -> 32
    [] what \in {"ecPk", "dhPub"} -> 65
    [] what = "zeroes" -> 64
    [] what = "kyberPk" -> 1184
    [] what = "kyberSk" -> 2400
    [] what = "kyberCt" -> 1088
    [] what = "pms" -> 48
    [] what = "encPms" -> 512
    [] what = "kemCt" -> 768
    [] what = "aigisPk" -> 896
    [] what = "aigisCt" -> 992

(* The length of a buffer, pmslen say, of at most two parts.               *)
Size(buf) ==
  (IF Len(buf) >= 1 THEN Bytes(buf[1].what) ELSE 0)
    + (IF Len(buf) >= 2 THEN Bytes(buf[2].what) ELSE 0)

(* On the wire a point follows its curve and length, all else its length.  *)
Wire(part) == Bytes(part.what) + IF part.what = "dhPub" THEN 4 ELSE 2
MessageSize(parts) ==
  Wire(parts[1]) + IF Len(parts) >= 2 THEN Wire(parts[2]) ELSE 0

CLIENT_KEY_EXCH_MAX_LENGTH == 2048
ECC_KYBER_HYBRID_PK_SIZE == 65 + 1184
ECC_KYBER_HYBRID_SK_SIZE == 32 + 2400
KYBER_768_PK_SIZE == 1184
KYBER_768_CT_SIZE == 1088

(* tls1_shared_group answers SM2 to every NTLS caller. 23 is P-256.        *)
SharedGroup == 41

(* The primitives: ecc_kyber_hybrid_keygen joins the certificate's EC key  *)
(* to a new Kyber key; encapsulation and decapsulation use the second      *)
(* part only, whatever the first is.                                       *)
HybridSk == <<Part("ecSk", 0, 0), Part("kyberSk", n, 0)>>
HybridPk == <<Part("ecPk", 0, 0), Part("kyberPk", n, 0)>>
Encaps(pk) ==
  [ct |-> Part("kyberCt", pk[2].s, n), ss |-> Part("kyberSs", pk[2].s, n)]
Decaps(sk, ct) == Part("kyberSs", sk[2].s, ct.c)

(* Diffie-Hellman between the server's ephemeral key and the client's.     *)
Derive(serverKey, clientKey) == Part("dhSs", serverKey.s, clientKey.c)

-----------------------------------------------------------------------------
NewServer ==
  [at |-> "idle", pms |-> NULL, pkey |-> NULL, aigis |-> NULL, group |-> 0,
   ms |-> NULL]
NewClient ==
  [at |-> "idle", pms |-> NULL, peerTmp |-> NULL, aigis |-> NULL, group |-> 0,
   ms |-> NULL]

Init ==
  /\ n = 0
  /\ suite \in KexSuites
  /\ server = NewServer
  /\ client = NewClient
  /\ ske = NULL
  /\ cke = NULL

(* A full handshake begins, on a new connection or by renegotiation: new   *)
(* sessions, but the fields of s->s3 stay.                                 *)
StartHandshake ==
  /\ server.at \in {"idle", "done"} /\ client.at \in {"idle", "done"}
  /\ n < MaxHandshakes
  /\ n' = n + 1
  /\ suite' \in KexSuites
  /\ server' = [server EXCEPT !.at = "ske", !.group = 0, !.ms = NULL]
  /\ client' = [client EXCEPT !.at = "ske", !.group = 0, !.ms = NULL]
  /\ UNCHANGED <<ske, cke>>

(* The connection ends, at any point, and SSL_clear prepares the objects   *)
(* for the next one: ssl3_clear frees every field and zeroes s->s3.        *)
Clear ==
  /\ server' = NewServer
  /\ client' = NewClient
  /\ ske' = NULL
  /\ cke' = NULL
  /\ UNCHANGED <<n, suite>>

-----------------------------------------------------------------------------
(* tls_construct_server_key_exchange_ntls, one definition per branch: the  *)
(* fields it leaves, the parameters it sends and the group it settles on.  *)
ServerSkePlain == [fields |-> server, params |-> NULL, group |-> server.group]

\* Mutant: the key pair of an earlier handshake is used again.
MutServerSkeAigis ==
  LET s == IF server.aigis = NULL THEN n ELSE server.aigis[1].s IN
  [fields |-> [server EXCEPT !.aigis = <<Part("aigisKey", s, 0)>>],
   params |-> <<Part("aigisPk", s, 0)>>, group |-> server.group]

ServerSkeAigis ==
  [fields |-> [server EXCEPT !.aigis = <<Part("aigisKey", n, 0)>>],
   params |-> <<Part("aigisPk", n, 0)>>, group |-> server.group]

(* The new private key goes to tmp.pms, the Kyber half of the public key   *)
(* to the client.                                                          *)
ServerSkeEccKyber ==
  [fields |-> [server EXCEPT !.pms = HybridSk],
   params |-> <<HybridPk[2]>>, group |-> SharedGroup]

ServerSkeEcdheKyber ==
  [fields |-> [server EXCEPT !.pkey = <<Part("dhKey", n, 0)>>, !.pms = HybridSk],
   params |-> <<Part("dhPub", n, 0), HybridPk[2]>>, group |-> SharedGroup]

ServerSkeSm2dhe ==
  [fields |-> [server EXCEPT !.pkey = <<Part("dhKey", n, 0)>>],
   params |-> <<Part("dhPub", n, 0)>>, group |-> SharedGroup]

ServerSkeBranch ==
  CASE suite = "KyberAigisEnc" -> ServerSkeAigis
    [] suite = "ECCKyber" -> ServerSkeEccKyber
    [] suite = "ECDHEKyber" -> ServerSkeEcdheKyber
    [] suite = "SM2DHE" -> ServerSkeSm2dhe
    [] OTHER -> ServerSkePlain

(* A tmp.pkey left over from an earlier key exchange is fatal.             *)
ServerSkeReady ==
  suite \in {"ECCKyber", "ECDHEKyber", "SM2DHE"} => server.pkey = NULL

(* What the server signs.                                                  *)
EncCert == Part("cert", 0, 0)
ServerTbs(params) ==
  CASE suite \in {"RSA", "SM2", "Kyber"} -> <<EncCert>>
    [] suite = "ECCKyber" -> <<EncCert>> \o params
    [] OTHER -> params

ServerSke ==
  /\ server.at = "ske"
  /\ LET b == ServerSkeBranch IN
     IF ServerSkeReady
     THEN /\ server' = [b.fields EXCEPT !.at = "cke", !.group = b.group]
          /\ ske' = <<[group |-> b.group, params |-> b.params,
                       signed |-> ServerTbs(b.params)]>>
     ELSE /\ server' = [server EXCEPT !.at = "error"]
          /\ ske' = ske
  /\ UNCHANGED <<n, suite, client, cke>>

-----------------------------------------------------------------------------
(* tls_process_key_exchange_ntls, again by branch. An ECC+Kyber client     *)
(* joins the certificate's EC key to the Kyber key that it received, and   *)
(* writes P-256 into its session.                                          *)
ClientSkeEccKyber(fresh, m) ==
  [fresh EXCEPT !.pms = <<Part("ecPk", 0, 0), m.params[1]>>, !.group = 23]

\* Mutant: the curve of the message is not recorded.
MutClientSkeEcdheKyber(fresh, m) ==
  [fresh EXCEPT !.peerTmp = <<m.params[1]>>, !.pms = <<m.params[2]>>]

ClientSkeEcdheKyber(fresh, m) ==
  [fresh EXCEPT !.peerTmp = <<m.params[1]>>, !.group = m.group,
                !.pms = <<m.params[2]>>]

ClientSkeSm2dhe(fresh, m) ==
  [fresh EXCEPT !.peerTmp = <<m.params[1]>>, !.group = m.group]

ClientSkeAigis(fresh, m) == [fresh EXCEPT !.aigis = <<m.params[1]>>]

(* peer_tmp and aigis_kem_pkey are freed before the suite is looked at.    *)
ClientSkeBranch(m) ==
  LET fresh == [client EXCEPT !.peerTmp = NULL, !.aigis = NULL] IN
  CASE suite = "ECCKyber" -> ClientSkeEccKyber(fresh, m)
    [] suite = "ECDHEKyber" -> ClientSkeEcdheKyber(fresh, m)
    [] suite = "KyberAigisEnc" -> ClientSkeAigis(fresh, m)
    [] suite = "SM2DHE" -> ClientSkeSm2dhe(fresh, m)
    [] OTHER -> fresh

(* What the client takes to be signed.                                     *)
ClientTbs(params) ==
  CASE suite = "ECCKyber" -> <<EncCert>> \o params
    [] suite \in {"ECDHEKyber", "KyberAigisEnc", "SM2DHE"} -> params
    [] OTHER -> <<EncCert>>

(* A bad signature, or a Kyber key of another length, is fatal.            *)
ClientSkeAccepted(m) ==
  /\ m.signed = ClientTbs(m.params)
  /\ suite = "ECCKyber" => Bytes(m.params[1].what) = KYBER_768_PK_SIZE
  /\ suite = "ECDHEKyber" => Bytes(m.params[2].what) = KYBER_768_PK_SIZE

ClientSke ==
  /\ client.at = "ske"
  /\ ske # NULL
  /\ client' = [ClientSkeBranch(ske[1]) EXCEPT
                  !.at = IF ClientSkeAccepted(ske[1]) THEN "cke" ELSE "error"]
  /\ ske' = NULL
  /\ UNCHANGED <<n, suite, server, cke>>

-----------------------------------------------------------------------------
(* tls_construct_client_key_exchange_ntls, by branch: the secret that      *)
(* tmp.pms will hold and the parts of the message.                         *)
ClientCkePms ==
  [secret |-> <<Part("pms", 0, n)>>, parts |-> <<Part("encPms", 0, n)>>]

ClientCkeEccKyber ==
  LET kem == Encaps(client.pms) IN
  [secret |-> <<Part("pms", 0, n), kem.ss>>,
   parts |-> <<Part("encPms", 0, n), kem.ct>>]

(* The Kyber key is copied out of tmp.pms before ssl_derive_ntls writes    *)
(* the shared secret there, and joined to the certificate's EC key.        *)
ClientCkeEcdheKyber ==
  LET point == Part("dhPub", 0, n)
      kem == Encaps(<<Part("ecPk", 0, 0), client.pms[1]>>)
  IN [secret |-> <<Derive(client.peerTmp[1], point), kem.ss>>,
      parts |-> <<point, kem.ct>>]

ClientCkeSm2dhe ==
  LET point == Part("dhPub", 0, n) IN
  [secret |-> <<Derive(client.peerTmp[1], point)>>, parts |-> <<point>>]

ClientCkeAigis ==
  LET s == client.aigis[1].s IN
  [secret |-> <<Part("kemSs", 0, n), Part("aigisSs", s, n)>>,
   parts |-> <<Part("kemCt", 0, n), Part("aigisCt", s, n)>>]

ClientCkeKyber ==
  [secret |-> <<Part("kemSs", 0, n)>>, parts |-> <<Part("kemCt", 0, n)>>]

ClientCkeBranch ==
  CASE suite = "ECCKyber" -> ClientCkeEccKyber
    [] suite = "ECDHEKyber" -> ClientCkeEcdheKyber
    [] suite = "KyberAigisEnc" -> ClientCkeAigis
    [] suite = "Kyber" -> ClientCkeKyber
    [] suite = "SM2DHE" -> ClientCkeSm2dhe
    [] OTHER -> ClientCkePms

(* The fields are there, and tmp.pms has the length of what it should be.  *)
ClientCkeReady ==
  /\ suite = "ECCKyber" => Size(client.pms) = ECC_KYBER_HYBRID_PK_SIZE
  /\ suite = "ECDHEKyber" => Size(client.pms) = KYBER_768_PK_SIZE
  /\ suite \in {"ECDHEKyber", "SM2DHE"} => client.peerTmp # NULL
  /\ suite = "KyberAigisEnc" => client.aigis # NULL

(* The message is on its way when it is constructed; the master secret     *)
(* comes with the post work.                                               *)
ClientCke ==
  /\ client.at = "cke"
  /\ IF ClientCkeReady
     THEN /\ client' = [client EXCEPT !.at = "post", !.pms = ClientCkeBranch.secret]
          /\ cke' = ClientCkeBranch.parts
     ELSE /\ client' = [client EXCEPT !.at = "error", !.pms = NULL]
          /\ cke' = cke
  /\ UNCHANGED <<n, suite, server, ske>>

(* tls_client_key_exchange_post_work_ntls: the master secret is made from  *)
(* whatever tmp.pms holds, which is then freed.                            *)
ClientPostWork ==
  /\ client.at = "post"
  /\ client' = [client EXCEPT !.ms = client.pms, !.pms = NULL,
                  !.at = IF client.pms = NULL THEN "error" ELSE "done"]
  /\ UNCHANGED <<n, suite, server, ske, cke>>

-----------------------------------------------------------------------------
(* tls_process_client_key_exchange_ntls, by branch: the fields it leaves.  *)
(* A server without an ephemeral key leaves them all.                      *)
ServerCkePms == [server EXCEPT !.ms = <<Part("pms", cke[1].s, cke[1].c)>>]

ServerCkeEccKyber ==
  [server EXCEPT !.ms = <<Part("pms", cke[1].s, cke[1].c),
                          Decaps(server.pms, cke[2])>>]

\* Mutant: the ephemeral key is not freed.
MutServerCkeEcdheKyber ==
  [server EXCEPT !.pms = <<Part("zeroes", 0, 0)>>,
                 !.ms = <<Derive(server.pkey[1], cke[1]),
                          Decaps(server.pms, cke[2])>>]

(* The private key is copied out of tmp.pms, the combined secret goes      *)
(* there and is cleansed, tmp.pkey is freed.                               *)
ServerCkeEcdheKyber ==
  [server EXCEPT !.pkey = NULL, !.pms = <<Part("zeroes", 0, 0)>>,
                 !.ms = <<Derive(server.pkey[1], cke[1]),
                          Decaps(server.pms, cke[2])>>]

ServerCkeSm2dhe ==
  [server EXCEPT !.pkey = NULL, !.ms = <<Derive(server.pkey[1], cke[1])>>]

ServerCkeAigis ==
  [server EXCEPT !.ms = <<Part("kemSs", cke[1].s, cke[1].c),
                          Part("aigisSs", server.aigis[1].s, cke[2].c)>>]

ServerCkeKyber == [server EXCEPT !.ms = <<Part("kemSs", cke[1].s, cke[1].c)>>]

ServerCkeBranch ==
  CASE suite = "SM2DHE" -> ServerCkeSm2dhe
    [] suite = "ECDHEKyber" -> ServerCkeEcdheKyber
    [] suite = "KyberAigisEnc" -> ServerCkeAigis
    [] suite = "Kyber" -> ServerCkeKyber
    [] suite = "ECCKyber" -> ServerCkeEccKyber
    [] OTHER -> ServerCkePms

(* The message is not longer than allowed, its parts have their lengths,   *)
(* and the fields are there.                                               *)
ServerCkeReady ==
  /\ MessageSize(cke) <= CLIENT_KEY_EXCH_MAX_LENGTH
  /\ suite \in {"ECCKyber", "ECDHEKyber"} =>
       /\ Bytes(cke[2].what) = KYBER_768_CT_SIZE
       /\ Size(server.pms) = ECC_KYBER_HYBRID_SK_SIZE
  /\ suite \in {"ECDHEKyber", "SM2DHE"} => server.pkey # NULL
  /\ suite = "KyberAigisEnc" => server.aigis # NULL

ServerCke ==
  /\ server.at = "cke"
  /\ cke # NULL
  /\ server' = IF ServerCkeReady
               THEN [ServerCkeBranch EXCEPT !.at = "done"]
               ELSE [server EXCEPT !.at = "error"]
  /\ cke' = NULL
  /\ UNCHANGED <<n, suite, client, ske>>

Next ==
  \/ StartHandshake \/ Clear \/ ServerSke \/ ClientSke \/ ClientCke
  \/ ClientPostWork \/ ServerCke

Spec == Init /\ [][Next]_vars

-----------------------------------------------------------------------------
(* What a suite promises to build the master secret from: all of it        *)
(* generated in this handshake, but for the keys of certificates.          *)
Promised ==
  CASE suite \in {"RSA", "SM2"} -> <<Part("pms", 0, n)>>
    [] suite = "SM2DHE" -> <<Part("dhSs", n, n)>>
    [] suite = "ECCKyber" -> <<Part("pms", 0, n), Part("kyberSs", n, n)>>
    [] suite = "ECDHEKyber" -> <<Part("dhSs", n, n), Part("kyberSs", n, n)>>
    [] suite = "Kyber" -> <<Part("kemSs", 0, n)>>
    [] suite = "KyberAigisEnc" -> <<Part("kemSs", 0, n), Part("aigisSs", n, n)>>

(* Whatever suites came before and wherever they were broken off, each end *)
(* that has completed its key exchange made its master secret from exactly *)
(* the parts its suite promises, fresh ones: the two ends agree, and no    *)
(* field was read with the meaning another handshake or suite gave it.     *)
MasterSecretAsPromised ==
  /\ server.at = "done" => server.ms = Promised
  /\ client.at = "done" => client.ms = Promised

(* Two ends that follow the code never fail in the key exchange: no field  *)
(* is missing, left over or of another length, the two choose the same     *)
(* text to sign and to verify, and no message is longer than its limit.    *)
KeyExchangeNeverFails == server.at # "error" /\ client.at # "error"

(* Once the client has processed the ServerKeyExchange, the two sessions   *)
(* name the same group: what both ends write to session->kex_group is "the *)
(* agreed upon group" of tls_process_ske_ecckyber_ntls and of the others,  *)
(* the group "for ECC part (secp256r1)" of                                 *)
(* tls_construct_server_key_exchange_ntls. The ECC+Kyber suites break it.  *)
GroupsAgree ==
  client.at \in {"cke", "post", "done"} => client.group = server.group

(* The same of every other suite; nothing is claimed of ECC+Kyber.         *)
GroupsAgreeUnlessEccKyber == suite # "ECCKyber" => GroupsAgree

-----------------------------------------------------------------------------
(* The parts of an inductive invariant. Parameters and message parts of    *)
(* the suite in this handshake:                                            *)
PromisedParams ==
  CASE suite = "ECCKyber" -> <<Part("kyberPk", n, 0)>>
    [] suite = "ECDHEKyber" -> <<Part("dhPub", n, 0), Part("kyberPk", n, 0)>>
    [] suite = "SM2DHE" -> <<Part("dhPub", n, 0)>>
    [] suite = "KyberAigisEnc" -> <<Part("aigisPk", n, 0)>>
    [] OTHER -> NULL

PromisedParts ==
  CASE suite \in {"RSA", "SM2"} -> <<Part("encPms", 0, n)>>
    [] suite = "SM2DHE" -> <<Part("dhPub", 0, n)>>
    [] suite = "ECCKyber" -> <<Part("encPms", 0, n), Part("kyberCt", n, n)>>
    [] suite = "ECDHEKyber" -> <<Part("dhPub", 0, n), Part("kyberCt", n, n)>>
    [] suite = "Kyber" -> <<Part("kemCt", 0, n)>>
    [] suite = "KyberAigisEnc" -> <<Part("kemCt", 0, n), Part("aigisCt", n, n)>>

ServerGroup ==
  IF suite \in {"ECCKyber", "ECDHEKyber", "SM2DHE"} THEN SharedGroup ELSE 0
ClientGroup == IF suite = "ECCKyber" THEN 23 ELSE ServerGroup

(* The ends take turns, and a message is in flight only between two steps. *)
Turns ==
  /\ n \in Nat /\ suite \in AllSuites
  /\ \/ server.at = "idle" /\ client.at = "idle"
     \/ server.at = "ske" /\ client.at = "ske"
     \/ server.at = "cke" /\ client.at \in {"ske", "cke", "post", "done"}
     \/ server.at = "done" /\ client.at \in {"post", "done"}
  /\ ske # NULL <=> server.at = "cke" /\ client.at = "ske"
  /\ cke # NULL <=> server.at = "cke" /\ client.at \in {"post", "done"}

Messages ==
  /\ ske # NULL =>
       ske = <<[group |-> ServerGroup, params |-> PromisedParams,
                signed |-> ServerTbs(PromisedParams)]>>
  /\ cke # NULL => cke = PromisedParts

(* tmp.pkey lives from one message to the next and no longer; what the     *)
(* server needs for the ClientKeyExchange is there and of this handshake.  *)
ServerFields ==
  /\ server \in [at : {"idle", "ske", "cke", "done"}, pms : Buffers,
                 pkey : Buffers, aigis : Buffers, group : Nat, ms : Buffers]
  /\ server.pkey =
       IF server.at = "cke" /\ suite \in {"ECDHEKyber", "SM2DHE"}
       THEN <<Part("dhKey", n, 0)>> ELSE NULL
  /\ server.at = "cke" =>
       /\ suite \in {"ECCKyber", "ECDHEKyber"} => server.pms = HybridSk
       /\ suite = "KyberAigisEnc" => server.aigis = <<Part("aigisKey", n, 0)>>
  /\ server.at = "done" => server.ms = Promised
  /\ server.group = IF server.at \in {"cke", "done"} THEN ServerGroup ELSE 0

ClientFields ==
  /\ client \in [at : {"idle", "ske", "cke", "post", "done"}, pms : Buffers,
                 peerTmp : Buffers, aigis : Buffers, group : Nat, ms : Buffers]
  /\ client.at = "cke" =>
       /\ suite = "ECCKyber" => client.pms = HybridPk
       /\ suite = "ECDHEKyber" => client.pms = <<Part("kyberPk", n, 0)>>
       /\ suite \in {"ECDHEKyber", "SM2DHE"} =>
            client.peerTmp = <<Part("dhPub", n, 0)>>
       /\ suite = "KyberAigisEnc" => client.aigis = <<Part("aigisPk", n, 0)>>
  /\ client.at = "post" => client.pms = Promised
  /\ client.at = "done" => client.ms = Promised
  /\ client.group = IF client.at \in {"cke", "post", "done"} THEN ClientGroup ELSE 0

(* The fields that s->s3 carries from one message, and from one handshake, *)
(* to the next hold what the suite at hand expects whenever it reads them. *)
KexInv == Turns /\ Messages /\ ServerFields /\ ClientFields
=============================================================================
