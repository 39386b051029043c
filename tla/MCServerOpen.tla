---------------------------- MODULE MCServerOpen ----------------------------
(***************************************************************************)
(* Small instances of NtlsServerOpen.                                      *)
(***************************************************************************)
EXTENDS NtlsServerOpen

CONSTANTS
  sm2,      \* a suite with SSL_kSM2
  sm2dhe    \* a suite with SSL_kSM2DHE

MCSuites == {sm2, sm2dhe}
MCMutualSuites == {sm2dhe}

(* Every verify mode; in one of them the server renegotiates, too.         *)
OpenServers ==
  { c \in [ suites : {MCSuites}, chain : {"good"}, verify : VerifyModes,
             once : {FALSE}, sidCtx : {TRUE}, cache : {TRUE}, tickets : {TRUE},
             status : {TRUE}, npn : {TRUE}, renegotiate : BOOLEAN,
             reuse : {FALSE} ] :
    c.renegotiate = (c.verify = "peer") }
=============================================================================
