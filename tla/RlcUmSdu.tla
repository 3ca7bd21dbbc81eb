------------------------------ MODULE RlcUmSdu ------------------------------
(***************************************************************************)
(* The length of an SDU, for the two halves of an RLC UM entity.           *)
(***************************************************************************)
EXTENDS AmSn

CONSTANT SduLen     \* units of data in an SDU

ASSUME SduLenAssumption == SduLen \in Nat \ {0}

LastByte == SduLen - 1

=============================================================================
