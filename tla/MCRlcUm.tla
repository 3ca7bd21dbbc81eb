------------------------------ MODULE MCRlcUm ------------------------------
(***************************************************************************)
(* TLC instances of RlcUm.                                                 *)
(***************************************************************************)
EXTENDS RlcUm

=============================================================================
