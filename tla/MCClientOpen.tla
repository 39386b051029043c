---------------------------- MODULE MCClientOpen ----------------------------
(***************************************************************************)
(* Small instances of NtlsClientOpen.                                      *)
(***************************************************************************)
EXTENDS NtlsClientOpen

CONSTANTS
  sm2,      \* a suite with SSL_kSM2
  sm2dhe    \* a suite with SSL_kSM2DHE

MCSuites == {sm2, sm2dhe}
MCMutualSuites == {sm2dhe}

(* One suite is offered, the other is not.                                 *)
OpenClients ==
  [ suites : {{sm2}}, chain : {"empty", "good"}, verify : BOOLEAN,
    tickets : {TRUE}, status : {"accept"}, npn : {TRUE},
    renegotiate : BOOLEAN, noRenegotiation : BOOLEAN ]
=============================================================================
