------------------------------- MODULE AmSn -------------------------------
(***************************************************************************)
(* Sequence-number arithmetic of RLC acknowledged mode.                    *)
(*                                                                         *)
(* The code keeps sequence numbers in snLen bits and compares them only    *)
(* after subtracting a base (macros MODAMT, MODAMR: (x - z) & snModMask).  *)
(* The window is half the sequence-number space for both lengths the code  *)
(* supports (RLC_AM_GET_WIN_SZ: 2048 of 2^12, 131072 of 2^18), so one      *)
(* constant, WinSz, gives both.                                            *)
(***************************************************************************)
EXTENDS Integers

CONSTANT WinSz     \* RLC_AM_GET_WIN_SZ(snLen)

ASSUME WinSzAssumption == WinSz \in Nat \ {0}

SnMod == 2 * WinSz            \* snModMask + 1
Sn == 0 .. (SnMod - 1)

\* MODAMT, MODAMR: the distance from z up to x; (x - z) % SnMod, written
\* without the remainder so that the provers stay in linear arithmetic.
ModSn(x, z) == IF x >= z THEN x - z ELSE x - z + SnMod

\* (x + k) & snModMask, for k at most SnMod.
AddSn(x, k) == IF x + k < SnMod THEN x + k ELSE x + k - SnMod

=============================================================================
