---------------------------- MODULE MCScanCache ----------------------------
(***************************************************************************)
(* ScanCache for TLC. The targets are alike, and so are the callers that   *)
(* ask for a refresh and those that ask for none: what is checked is safe  *)
(* to check of one state out of each class that differs by a renaming.     *)
(***************************************************************************)
EXTENDS ScanCache, TLC

Symmetry ==
  Permutations(Keys) \cup Permutations(Refreshers) \cup Permutations(Requests \ Refreshers)
=============================================================================
