----------------------------- MODULE MCRlcAmUl -----------------------------
(* The receiver against a peer that may send any PDU at any time.           *)
EXTENDS RlcAmUl

\* ModSn is the masking of MODAMT and MODAMR.
ASSUME \A x, z \in Sn : ModSn(x, z) = (x - z) % SnMod

=============================================================================
