------------------------------- MODULE UeIds -------------------------------
(***************************************************************************)
(* What all layers of gNB-DU name the same way: a UE by an id (gNB-DU UE   *)
(* F1AP id, which the crnti is made from), and its radio bearers, each     *)
(* with one logical channel.                                               *)
(***************************************************************************)
EXTENDS Naturals

CONSTANTS
    MaxNumUe,   \* MAX_NUM_UE
    Rb          \* radio bearers of a UE

ASSUME MaxNumUeAssumption == MaxNumUe \in Nat \ {0}

Id == 1 .. MaxNumUe

=============================================================================
