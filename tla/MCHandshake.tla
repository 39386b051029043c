---------------------------- MODULE MCHandshake ----------------------------
(***************************************************************************)
(* Small instances of NtlsHandshake: the sets of application settings that *)
(* the configurations choose from.                                         *)
(***************************************************************************)
EXTENDS NtlsHandshake

CONSTANTS
  sm2,      \* a suite with SSL_kSM2, say ECC-SM4-CBC-SM3
  sm2dhe    \* a suite with SSL_kSM2DHE, say ECDHE-SM4-CBC-SM3

MCSuites == {sm2, sm2dhe}
MCMutualSuites == {sm2dhe}

(* One connection, every combination of settings that matters to it (its   *)
(* cache is never looked into: there is no earlier session to look up).    *)
AllClients ==
  [ suites : {MCSuites}, chain : {"empty", "good", "bad"}, verify : BOOLEAN,
    tickets : BOOLEAN, status : StatusModes, npn : BOOLEAN,
    renegotiate : {FALSE}, noRenegotiation : {FALSE} ]

AllServers ==
  [ suites : {MCSuites, MCSuites \ MCMutualSuites, {}},
    chain : {"good", "bad"}, verify : VerifyModes,
    once : {FALSE}, sidCtx : {TRUE}, cache : {TRUE}, tickets : BOOLEAN,
    status : {TRUE}, npn : {TRUE}, renegotiate : {FALSE}, reuse : {FALSE} ]

(* Several connections: the settings that resumption depends on.           *)
ResumingClients ==
  [ suites : {MCSuites}, chain : {"good"}, verify : {TRUE}, tickets : BOOLEAN,
    status : {"no"}, npn : {FALSE}, renegotiate : {FALSE},
    noRenegotiation : {FALSE} ]

ResumingServers ==
  [ suites : {MCSuites}, chain : {"good"}, verify : {"none", "require"},
    once : {FALSE}, sidCtx : BOOLEAN, cache : BOOLEAN, tickets : BOOLEAN,
    status : {FALSE}, npn : {FALSE}, renegotiate : {FALSE}, reuse : {FALSE} ]

(* Renegotiation, asked for by either application.                         *)
RenegotiatingClients ==
  [ suites : {MCSuites}, chain : {"good"}, verify : {TRUE}, tickets : BOOLEAN,
    status : {"no"}, npn : {TRUE}, renegotiate : BOOLEAN,
    noRenegotiation : BOOLEAN ]

RenegotiatingServers ==
  [ suites : {MCSuites}, chain : {"good"}, verify : {"none", "require"},
    once : BOOLEAN, sidCtx : {TRUE}, cache : {TRUE}, tickets : BOOLEAN,
    status : {FALSE}, npn : {TRUE}, renegotiate : BOOLEAN, reuse : {FALSE} ]

(* All of these settings on one connection.                                *)
OneConnectionClients == AllClients \cup RenegotiatingClients
OneConnectionServers == AllServers \cup RenegotiatingServers

(* The server application prepares its SSL object for the next connection  *)
(* with SSL_clear; an SM2DHE suite is negotiated.                          *)
ReusingClients ==
  [ suites : {MCMutualSuites}, chain : {"good", "empty"}, verify : {TRUE},
    tickets : {FALSE}, status : {"no"}, npn : {FALSE}, renegotiate : {FALSE},
    noRenegotiation : {FALSE} ]

ReusedServers ==
  [ suites : {MCMutualSuites}, chain : {"good"}, verify : {"none"},
    once : {FALSE}, sidCtx : {TRUE}, cache : {FALSE}, tickets : {FALSE},
    status : {FALSE}, npn : {FALSE}, renegotiate : {FALSE}, reuse : {TRUE} ]

(* The settings of one connection and of several, in one instance.         *)
MCClients == OneConnectionClients \cup ResumingClients
MCServers == OneConnectionServers \cup ResumingServers

(* How often a client and a server with these settings meet.               *)
MCMaxConns(c, s) ==
  CASE c \in ResumingClients /\ s \in ResumingServers -> 3
    [] c \in ReusingClients /\ s \in ReusedServers -> 2
    [] c \in OneConnectionClients /\ s \in OneConnectionServers -> 1
    [] OTHER -> 0

(* Only a session of an earlier connection tells the ticket keys apart.    *)
MCMaxTicketKeys(c, s) == IF MCMaxConns(c, s) = 3 THEN 1 ELSE 0
=============================================================================
