----------------------------- MODULE MCMonitor -----------------------------
(***************************************************************************)
(* Small instances of Monitor for TLC.                                     *)
(***************************************************************************)
EXTENDS Monitor, TLC

\* Descriptors and blocks are interchangeable; transactions are not, their
\* numbers are their ages.
Symmetry == Permutations(Clients) \cup Permutations(Blocks)

=============================================================================
