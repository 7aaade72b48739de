------------------------- MODULE MCCommitRecovery -------------------------
(***************************************************************************)
(* Small instances of CommitRecovery for TLC.                              *)
(***************************************************************************)
EXTENDS CommitRecovery

Symmetry == Permutations(Clients)

=============================================================================
