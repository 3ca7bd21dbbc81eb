------------------------------ MODULE UeLife ------------------------------
(***************************************************************************)
(* What gNB-DU promises its CU about a UE.  The CU asks for bearers, in    *)
(* the end for none; every part of gNB-DU (the two halves of RLC, MAC and  *)
(* SCH) gets, in its own time, what was asked and nothing else; the answer *)
(* is given when all parts have it; and the id of a UE is its own until no *)
(* part holds anything of it.                                              *)
(***************************************************************************)
EXTENDS Naturals

CONSTANTS
    CuUe,       \* UEs as the CU numbers them
    Id,         \* UE ids, gNB-DU UE F1AP ids
    Rb,         \* radio bearers
    Part        \* parts of gNB-DU that hold bearers

VARIABLES
    phase,      \* per UE: "out", "asked" (awaiting an answer) or "in"
    id,         \* per UE: its id, 0 when it is out
    want,       \* per id: the bearers asked for
    has         \* per part and id: the bearers there

lifeVars == <<phase, id, want, has>>

LifeInit ==
    /\ phase = [c \in CuUe |-> "out"]
    /\ id = [c \in CuUe |-> 0]
    /\ want = [i \in Id |-> {}]
    /\ has = [p \in Part |-> [i \in Id |-> {}]]

\* A UE comes, and gets an id of which nothing is left.
Enter(c, i, rbs) ==
    /\ phase[c] = "out"
    /\ \A d \in CuUe : id[d] # i
    /\ \A p \in Part : has[p][i] = {}
    /\ phase' = [phase EXCEPT ![c] = "asked"]
    /\ id' = [id EXCEPT ![c] = i]
    /\ want' = [want EXCEPT ![i] = rbs]
    /\ UNCHANGED has

\* The CU asks for other bearers, or for the same with other parameters.
Ask(c, rbs) ==
    /\ phase[c] = "in"
    /\ phase' = [phase EXCEPT ![c] = "asked"]
    /\ want' = [want EXCEPT ![id[c]] = rbs]
    /\ UNCHANGED <<id, has>>

\* Some parts get what was asked of one UE.
Apply(ps, i) ==
    /\ has' = [p \in Part |-> IF p \in ps THEN [has[p] EXCEPT ![i] = want[i]] ELSE has[p]]
    /\ UNCHANGED <<phase, id, want>>

\* The answer.  A UE that was asked to have nothing is gone with it.
Answer(c) ==
    /\ phase[c] = "asked"
    /\ \A p \in Part : has[p][id[c]] = want[id[c]]
    /\ IF want[id[c]] = {}
       THEN phase' = [phase EXCEPT ![c] = "out"] /\ id' = [id EXCEPT ![c] = 0]
       ELSE phase' = [phase EXCEPT ![c] = "in"] /\ UNCHANGED id
    /\ UNCHANGED <<want, has>>

LifeNext ==
    \/ \E c \in CuUe :
        \/ \E i \in Id, rbs \in (SUBSET Rb) \ {{}} : Enter(c, i, rbs)
        \/ \E rbs \in SUBSET Rb : Ask(c, rbs)
        \/ Answer(c)
    \/ \E ps \in SUBSET Part, i \in Id : Apply(ps, i)

LifeSpec == LifeInit /\ [][LifeNext]_lifeVars

=============================================================================
