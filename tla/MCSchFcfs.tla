----------------------------- MODULE MCSchFcfs -----------------------------
(* The scheduler with a few UEs, processes and slots.                       *)
EXTENDS SchFcfs, TLC

\* Nothing orders processes or slots.  For RaUe = {} only: for a UE that
\* attached by random access process 0 is not like the others.
ProcSlot == Permutations(Proc) \union Permutations(Slot)

=============================================================================
