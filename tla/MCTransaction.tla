--------------------------- MODULE MCTransaction ---------------------------
(***************************************************************************)
(* Small instances of Transaction for TLC.                                 *)
(***************************************************************************)
EXTENDS Transaction

=============================================================================
