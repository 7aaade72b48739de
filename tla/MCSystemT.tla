----------------------------- MODULE MCSystemT -----------------------------
(***************************************************************************)
(* Small instances of SystemT for TLC.                                     *)
(***************************************************************************)
EXTENDS SystemT, TLC

Symmetry == Permutations(Clients) \cup Permutations(Procs)

=============================================================================
