---------------------------- MODULE MCSessCache ----------------------------
(***************************************************************************)
(* The symmetry of the small instances of NtlsSessCache: threads, objects  *)
(* and ids are interchangeable, and no property chooses among them.        *)
(***************************************************************************)
EXTENDS NtlsSessCache, TLC

Symmetric ==
  Permutations(Threads) \cup Permutations(Objects) \cup Permutations(Ids)
=============================================================================
