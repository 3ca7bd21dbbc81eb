------------------------------ MODULE MCDuUe ------------------------------
(***************************************************************************)
(* TLC instances of DuUe.                                                  *)
(***************************************************************************)
EXTENDS DuUe

\* Every UE may have every DRB.
AllDrbs == [c \in CuUe |-> Drb]

=============================================================================
