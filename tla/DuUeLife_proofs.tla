-------------------------- MODULE DuUeLife_proofs --------------------------
(***************************************************************************)
(* That gNB-DU keeps the promise of UeLife: RLC, MAC and SCH move only to  *)
(* the bearers that the CU asked for, a UE is answered when all of them    *)
(* have, and an id is given to a UE when nothing is left of another.       *)
(*                                                                         *)
(* It is kept as long as the CU deletes no bearer: a deletion of the       *)
(* bearer that is stored last reaches no layer, and the CU is answered all *)
(* the same (the run DuUeDelete).                                          *)
(***************************************************************************)
EXTENDS DuUe_proofs

NoDeletion == "DEL" \notin ModOps

LifePart == {"rlcUl", "rlcDl", "mac", "sch"}

(* The state of the abstract life, as DuUe maps it.                          *)

PhaseIn(c) == IF IsOut(c) THEN "out" ELSE IF IsAsked(c) THEN "asked" ELSE "in"
LifePhase == [c \in CuUe |-> PhaseIn(c)]
IdIn(c) == IF IsOut(c) THEN 0 ELSE cuUe[c].id
LifeId == [c \in CuUe |-> IdIn(c)]
WantIn(i) == UNION {cuUe[c].rbs : c \in {d \in CuUe : cuUe[d].id = i}}
LifeWant == [i \in Id |-> WantIn(i)]
Table(p) ==
    CASE p = "rlcUl" -> rlcUlRb
      [] p = "rlcDl" -> rlcDlRb
      [] p = "mac" -> macLc
      [] p = "sch" -> schLc
LifeHas == [p \in LifePart |-> Table(p)]

LEMMA VarsAre ==
    LifePhase' = LifePhase /\ LifeId' = LifeId /\ LifeWant' = LifeWant /\ LifeHas' = LifeHas
    => UNCHANGED Life!lifeVars
BY DEF Life!lifeVars, LifePhase, LifeId, LifeWant, LifeHas, PhaseIn, IdIn, WantIn, Table, LifePart

LEMMA EnterIs ==
    \A c, i, rbs : Life!Enter(c, i, rbs) <=>
        /\ LifePhase[c] = "out"
        /\ \A d \in CuUe : LifeId[d] # i
        /\ \A p \in LifePart : LifeHas[p][i] = {}
        /\ LifePhase' = [LifePhase EXCEPT ![c] = "asked"]
        /\ LifeId' = [LifeId EXCEPT ![c] = i]
        /\ LifeWant' = [LifeWant EXCEPT ![i] = rbs]
        /\ LifeHas' = LifeHas
BY DEF Life!Enter, LifePhase, LifeId, LifeWant, LifeHas, PhaseIn, IdIn, WantIn, Table, LifePart

LEMMA ApplyIs ==
    \A ps, i : Life!Apply(ps, i) <=>
        /\ LifeHas' = [p \in LifePart |-> IF p \in ps THEN [LifeHas[p] EXCEPT ![i] = LifeWant[i]]
                                          ELSE LifeHas[p]]
        /\ LifePhase' = LifePhase /\ LifeId' = LifeId /\ LifeWant' = LifeWant
BY DEF Life!Apply, LifePhase, LifeId, LifeWant, LifeHas, PhaseIn, IdIn, WantIn, Table, LifePart

LEMMA AskIs ==
    \A c, rbs : Life!Ask(c, rbs) <=>
        /\ LifePhase[c] = "in"
        /\ LifePhase' = [LifePhase EXCEPT ![c] = "asked"]
        /\ LifeWant' = [LifeWant EXCEPT ![LifeId[c]] = rbs]
        /\ LifeId' = LifeId /\ LifeHas' = LifeHas
BY DEF Life!Ask, LifePhase, LifeId, LifeWant, LifeHas, PhaseIn, IdIn, WantIn, Table, LifePart

LEMMA AnswerIs ==
    \A c : Life!Answer(c) <=>
        /\ LifePhase[c] = "asked"
        /\ \A p \in LifePart : LifeHas[p][LifeId[c]] = LifeWant[LifeId[c]]
        /\ IF LifeWant[LifeId[c]] = {}
           THEN LifePhase' = [LifePhase EXCEPT ![c] = "out"] /\ LifeId' = [LifeId EXCEPT ![c] = 0]
           ELSE LifePhase' = [LifePhase EXCEPT ![c] = "in"] /\ LifeId' = LifeId
        /\ LifeWant' = LifeWant /\ LifeHas' = LifeHas
BY DEF Life!Answer, LifePhase, LifeId, LifeWant, LifeHas, PhaseIn, IdIn, WantIn, Table, LifePart

LEMMA NextIs ==
    Life!LifeNext <=>
        \/ \E c \in CuUe :
            \/ \E i \in Id, rbs \in (SUBSET Rb) \ {{}} : Life!Enter(c, i, rbs)
            \/ \E rbs \in SUBSET Rb : Life!Ask(c, rbs)
            \/ Life!Answer(c)
        \/ \E ps \in SUBSET LifePart, i \in Id : Life!Apply(ps, i)
BY DEF Life!LifeNext, LifePart

LifeStep == Life!LifeNext \/ UNCHANGED Life!lifeVars

-----------------------------------------------------------------------------
(* Steps of the abstract life.                                               *)

Out == {"idle", "access", "initial"}
PhIn(c, ph) ==
    IF ph \in Out THEN "out"
    ELSE IF \/ ph \in {"handin", "asked", "releasing"}
            \/ ph \in {"connecting", "completing"} /\ c \in Access THEN "asked" ELSE "in"

SameTables == UNCHANGED <<rlcUlRb, rlcDlRb, macLc, schLc>>

\* The CU's view of UE c becomes phase x, id i and bearers w, that of others stays.
CuGets(c, i, x, w) == CuMoves(c, i, x) /\ cuUe'[c].rbs = w

LEMMA InIs ==
    /\ \A c \in CuUe : PhaseIn(c) = PhIn(c, cuUe[c].ph)
    /\ \A c \in CuUe : IdIn(c) = IF cuUe[c].ph \in Out THEN 0 ELSE cuUe[c].id
BY DEF PhaseIn, IdIn, PhIn, Out, IsOut, IsAsked

LEMMA WantOfOwner ==
    ASSUME NEW c \in CuUe, NEW i, cuUe[c].id = i, \A d \in CuUe : cuUe[d].id = i => d = c
    PROVE  WantIn(i) = cuUe[c].rbs
<1>1. {d \in CuUe : cuUe[d].id = i} = {c}
  OBVIOUS
<1>2. {cuUe[d].rbs : d \in {d \in CuUe : cuUe[d].id = i}} = {cuUe[c].rbs}
  BY <1>1
<1>3. QED
  BY <1>2 DEF WantIn

LEMMA WantOfNobody ==
    ASSUME NEW i, \A d \in CuUe : cuUe[d].id # i
    PROVE  WantIn(i) = {}
BY DEF WantIn

LEMMA WantOfOthers ==
    ASSUME NEW c \in CuUe, \A d \in CuUe \ {c} : cuUe'[d] = cuUe[d],
           NEW j, cuUe[c].id # j, cuUe'[c].id # j
    PROVE  WantIn(j)' = WantIn(j)
<1>1. {d \in CuUe : cuUe'[d].id = j} = {d \in CuUe : cuUe[d].id = j}
  OBVIOUS
<1>2. \A d \in {d \in CuUe : cuUe[d].id = j} : cuUe'[d] = cuUe[d]
  OBVIOUS
<1>3. QED
  BY <1>1, <1>2 DEF WantIn

LEMMA NoTableMoves == SameTables => LifeHas' = LifeHas
BY DEF SameTables, LifeHas, Table

LEMMA Idles ==
    ASSUME UNCHANGED cuUe, SameTables
    PROVE  LifeStep
<1>1. LifePhase' = LifePhase /\ LifeId' = LifeId /\ LifeWant' = LifeWant
  BY DEF LifePhase, LifeId, LifeWant, PhaseIn, IdIn, WantIn, IsOut, IsAsked
<1>2. QED
  BY <1>1, NoTableMoves, VarsAre DEF LifeStep

LEMMA CoreNext == Core' => RlcData' /\ MacData' /\ DuTypes' /\ Owners' /\ Lives'
BY DEF Core, Types, RlcTypes, MacTypes, RlcData, MacData

LEMMA EntryMoves ==
    ASSUME NEW T \in [Id -> SUBSET Rb], NEW U \in [Id -> SUBSET Rb], NEW i \in Id, NEW w,
           \A j \in Id \ {i} : U[j] = T[j], U[i] \in {T[i], w}
    PROVE  U = IF U[i] = w THEN [T EXCEPT ![i] = w] ELSE T
<1>1. \A j \in Id : U[i] # w => U[j] = T[j]
  OBVIOUS
<1>2. CASE U[i] = w
  BY <1>2
<1>3. CASE U[i] # w
  BY <1>1, <1>3
<1>4. QED
  BY <1>2, <1>3

\* The tables of UE i may get w, those of the others stay.
TablesGet(i, w) ==
    /\ \A j \in Id \ {i} : /\ rlcUlRb'[j] = rlcUlRb[j] /\ rlcDlRb'[j] = rlcDlRb[j]
                           /\ macLc'[j] = macLc[j] /\ schLc'[j] = schLc[j]
    /\ rlcUlRb'[i] \in {rlcUlRb[i], w} /\ rlcDlRb'[i] \in {rlcDlRb[i], w}
    /\ macLc'[i] \in {macLc[i], w} /\ schLc'[i] \in {schLc[i], w}

LEMMA HasIs ==
    /\ LifeHas["rlcUl"] = rlcUlRb /\ LifeHas["rlcDl"] = rlcDlRb
    /\ LifeHas["mac"] = macLc /\ LifeHas["sch"] = schLc
    /\ LifeHas'["rlcUl"] = rlcUlRb' /\ LifeHas'["rlcDl"] = rlcDlRb'
    /\ LifeHas'["mac"] = macLc' /\ LifeHas'["sch"] = schLc'
BY DEF LifeHas, Table, LifePart

\* Parts of gNB-DU get what was asked of a UE.
LEMMA Applies ==
    ASSUME Core, Core', UNCHANGED cuUe, NEW c \in CuUe, NEW i \in Id, NEW ph, HasPhase(c, ph, i),
           TablesGet(i, cuUe[c].rbs)
    PROVE  LifeStep
<1> DEFINE w == cuUe[c].rbs
           ps == {p \in LifePart : LifeHas'[p][i] = w}
<1>1. i # 0
  BY SMT, MaxNumUeAssumption DEF Id
<1>2. LifeWant[i] = w
  BY <1>1, WantOfOwner DEF LifeWant, Core, Owners, HasPhase
<1>3. LifePhase' = LifePhase /\ LifeId' = LifeId /\ LifeWant' = LifeWant
  BY DEF LifePhase, LifeId, LifeWant, PhaseIn, IdIn, WantIn, IsOut, IsAsked
<1>4. /\ rlcUlRb \in [Id -> SUBSET Rb] /\ rlcDlRb \in [Id -> SUBSET Rb]
      /\ macLc \in [Id -> SUBSET Rb] /\ schLc \in [Id -> SUBSET Rb]
      /\ rlcUlRb' \in [Id -> SUBSET Rb] /\ rlcDlRb' \in [Id -> SUBSET Rb]
      /\ macLc' \in [Id -> SUBSET Rb] /\ schLc' \in [Id -> SUBSET Rb]
  BY CoreParts, CoreNext DEF RlcData, MacData
<1>5. ASSUME NEW p \in LifePart
      PROVE  LifeHas'[p] = IF p \in ps THEN [LifeHas[p] EXCEPT ![i] = LifeWant[i]] ELSE LifeHas[p]
  <2>1. LifeHas'[p] = IF LifeHas'[p][i] = w THEN [LifeHas[p] EXCEPT ![i] = w] ELSE LifeHas[p]
    <3>1. CASE p = "rlcUl"
      BY <1>4, <3>1, EntryMoves, HasIs DEF TablesGet
    <3>2. CASE p = "rlcDl"
      BY <1>4, <3>2, EntryMoves, HasIs DEF TablesGet
    <3>3. CASE p = "mac"
      BY <1>4, <3>3, EntryMoves, HasIs DEF TablesGet
    <3>4. CASE p = "sch"
      BY <1>4, <3>4, EntryMoves, HasIs DEF TablesGet
    <3>5. QED
      BY <3>1, <3>2, <3>3, <3>4 DEF LifePart
  <2>2. QED
    BY <1>2, <2>1
<1>6. LifeHas' = [p \in LifePart |-> IF p \in ps THEN [LifeHas[p] EXCEPT ![i] = LifeWant[i]]
                                     ELSE LifeHas[p]]
  BY <1>5 DEF LifeHas
<1>7. Life!Apply(ps, i)
  BY <1>3, <1>6, ApplyIs
<1>8. QED
  BY <1>7, NextIs DEF LifeStep

LEMMA OwnerIs ==
    ASSUME Core, NEW c \in CuUe, NEW i \in Id, NEW ph, HasPhase(c, ph, i)
    PROVE  /\ i # 0 /\ \A d \in CuUe : cuUe[d].id = i => d = c
           /\ LifeWant[i] = cuUe[c].rbs /\ LifePhase[c] = PhIn(c, ph)
           /\ ph \notin Out => LifeId[c] = i
<1>1. i # 0
  BY SMT, MaxNumUeAssumption DEF Id
<1>2. \A d \in CuUe : cuUe[d].id = i => d = c
  BY <1>1 DEF Core, Owners, HasPhase
<1>3. QED
  BY <1>1, <1>2, WantOfOwner, InIs DEF LifeWant, LifePhase, LifeId, HasPhase

Mapped(c, i, p, e, w) ==
    /\ LifePhase' = [LifePhase EXCEPT ![c] = p]
    /\ LifeId' = [LifeId EXCEPT ![c] = e]
    /\ LifeWant' = [LifeWant EXCEPT ![i] = w]

\* The mapped state after a step in which the CU's view of UE c moves.
LEMMA CuMapped ==
    ASSUME Core, Core', NEW c \in CuUe, NEW i \in Id, cuUe[c].id \in {i, 0},
           \A d \in CuUe : cuUe[d].id = i => d = c,
           NEW x, NEW e \in {i, 0}, NEW w, CuGets(c, e, x, w), e = 0 => w = {}
    PROVE  Mapped(c, i, PhIn(c, x), IF x \in Out THEN 0 ELSE e, w)
<1>1. i # 0
  BY SMT, MaxNumUeAssumption DEF Id
<1>2. \A d \in CuUe \ {c} : cuUe'[d] = cuUe[d]
  BY DEF CuGets, CuMoves
<1>3. cuUe'[c].ph = x /\ cuUe'[c].id = e /\ cuUe'[c].rbs = w
  BY DEF CuGets, CuMoves
<1>4. \A d \in CuUe \ {c} : PhaseIn(d)' = PhaseIn(d) /\ IdIn(d)' = IdIn(d)
  BY <1>2 DEF PhaseIn, IdIn, IsOut, IsAsked
<1>5. PhaseIn(c)' = PhIn(c, x) /\ IdIn(c)' = IF x \in Out THEN 0 ELSE e
  BY <1>3 DEF PhaseIn, IdIn, IsOut, IsAsked, PhIn, Out
<1>6. LifePhase' = [LifePhase EXCEPT ![c] = PhIn(c, x)]
  BY <1>4, <1>5 DEF LifePhase
<1>7. LifeId' = [LifeId EXCEPT ![c] = IF x \in Out THEN 0 ELSE e]
  BY <1>4, <1>5 DEF LifeId
<1>8. ASSUME NEW j \in Id \ {i}
      PROVE  WantIn(j)' = WantIn(j)
  <2>1. j # 0
    BY SMT, MaxNumUeAssumption DEF Id
  <2>2. QED
    BY <1>2, <1>3, <2>1, WantOfOthers
<1>9. WantIn(i)' = w
  <2>1. CASE e = i
    <3>1. \A d \in CuUe : cuUe'[d].id = i => d = c
      BY <1>2
    <3>2. {d \in CuUe : cuUe'[d].id = i} = {c}
      BY <1>3, <2>1, <3>1
    <3>3. {cuUe'[d].rbs : d \in {d \in CuUe : cuUe'[d].id = i}} = {w}
      BY <1>3, <3>2
    <3>4. QED
      BY <3>3 DEF WantIn
  <2>2. CASE e = 0
    <3>1. {d \in CuUe : cuUe'[d].id = i} = {}
      BY <1>1, <1>2, <1>3, <2>2
    <3>2. WantIn(i)' = UNION {}
      BY <3>1 DEF WantIn
    <3>3. QED
      BY <2>2, <3>2
  <2>3. QED
    BY <2>1, <2>2
<1>10. LifeWant' = [LifeWant EXCEPT ![i] = w]
  BY <1>8, <1>9 DEF LifeWant
<1>11. QED
  BY <1>6, <1>7, <1>10 DEF Mapped

\* A step that changes nothing of what was promised.
LEMMA MovesOn ==
    ASSUME Core, Core', NEW c \in CuUe, NEW i \in Id, NEW ph, HasPhase(c, ph, i), NEW x,
           CuGets(c, i, x, cuUe[c].rbs), PhIn(c, x) = PhIn(c, ph), SameTables
    PROVE  LifeStep
<1>1. LifeWant[i] = cuUe[c].rbs /\ LifePhase[c] = PhIn(c, ph) /\ \A d \in CuUe : cuUe[d].id = i => d = c
  BY OwnerIs
<1>2. x \in Out <=> ph \in Out
  BY DEF PhIn
<1>3. LifeId[c] = IF x \in Out THEN 0 ELSE i
  BY <1>2, InIs DEF LifeId, HasPhase
<1>4. Mapped(c, i, PhIn(c, x), IF x \in Out THEN 0 ELSE i, cuUe[c].rbs)
  <2>1. i # 0
    BY OwnerIs
  <2>2. QED
    BY <1>1, <2>1, CuMapped DEF HasPhase
<1>5. LifePhase' = LifePhase /\ LifeId' = LifeId /\ LifeWant' = LifeWant
  <2>1. LifePhase' = LifePhase
    BY <1>1, <1>4 DEF LifePhase, Mapped
  <2>2. LifeId' = LifeId
    BY <1>3, <1>4 DEF LifeId, Mapped
  <2>3. LifeWant' = LifeWant
    BY <1>1, <1>4 DEF LifeWant, Mapped
  <2>4. QED
    BY <2>1, <2>2, <2>3
<1>6. QED
  BY <1>5, NoTableMoves, VarsAre DEF LifeStep

\* A UE comes to the cell, and the CU does not know of it yet.
LEMMA ComesQuietly ==
    ASSUME Core, Core', NEW c \in CuUe, NEW i \in Id, cuUe[c].ph = "idle", i \notin ueBitMap,
           NEW x \in Out, CuGets(c, i, x, {}), SameTables
    PROVE  LifeStep
<1>1. i # 0 /\ cuUe[c].id = 0 /\ \A d \in CuUe : cuUe[d].id # i
  <2>1. i # 0
    BY SMT, MaxNumUeAssumption DEF Id
  <2>2. QED
    BY <2>1 DEF Core, Owners
<1>2. Mapped(c, i, PhIn(c, x), IF x \in Out THEN 0 ELSE i, {})
  BY <1>1, CuMapped
<1>3. LifePhase[c] = PhIn(c, x) /\ LifeId[c] = 0 /\ LifeWant[i] = {}
  BY <1>1, InIs, WantOfNobody DEF LifePhase, LifeId, LifeWant, PhIn, Out
<1>4. LifePhase' = LifePhase /\ LifeId' = LifeId /\ LifeWant' = LifeWant
  BY <1>2, <1>3 DEF LifePhase, LifeId, LifeWant, Mapped
<1>5. QED
  BY <1>4, NoTableMoves, VarsAre DEF LifeStep

\* The CU and gNB-DU begin with a UE.
LEMMA Enters ==
    ASSUME Core, Core', NEW c \in CuUe, NEW i \in Id, cuUe[c].id \in {i, 0}, cuUe[c].ph \in Out,
           \A d \in CuUe : cuUe[d].id = i => d = c,
           NEW x, PhIn(c, x) = "asked", NEW w \in (SUBSET Rb) \ {{}}, CuGets(c, i, x, w),
           RlcEmpty(i), MacEmpty(i), SameTables
    PROVE  LifeStep
<1>1. i # 0
  BY SMT, MaxNumUeAssumption DEF Id
<1>2. x \notin Out
  BY DEF PhIn
<1>3. Mapped(c, i, "asked", i, w)
  BY <1>1, <1>2, CuMapped
<1>4. LifePhase[c] = "out"
  BY InIs DEF LifePhase, PhIn
<1>5. \A d \in CuUe : LifeId[d] # i
  BY <1>1, InIs DEF LifeId
<1>6. \A p \in LifePart : LifeHas[p][i] = {}
  BY HasIs DEF LifePart, RlcEmpty, MacEmpty
<1>7. Life!Enter(c, i, w)
  BY <1>3, <1>4, <1>5, <1>6, NoTableMoves, EnterIs DEF Mapped
<1>8. QED
  BY <1>7, NextIs DEF LifeStep

\* The CU asks.
LEMMA Asks ==
    ASSUME Core, Core', NEW c \in CuUe, NEW i \in Id, NEW ph, HasPhase(c, ph, i), PhIn(c, ph) = "in",
           NEW x, PhIn(c, x) = "asked", NEW w \in SUBSET Rb, CuGets(c, i, x, w), SameTables
    PROVE  LifeStep
<1>1. /\ i # 0 /\ LifePhase[c] = "in" /\ \A d \in CuUe : cuUe[d].id = i => d = c
      /\ LifeId[c] = i
  BY OwnerIs DEF PhIn
<1>2. x \notin Out
  BY DEF PhIn
<1>3. Mapped(c, i, "asked", i, w)
  BY <1>1, <1>2, CuMapped DEF HasPhase
<1>4. LifeId' = LifeId
  BY <1>1, <1>3 DEF LifeId, Mapped
<1>5. Life!Ask(c, w)
  BY <1>1, <1>3, <1>4, NoTableMoves, AskIs DEF Mapped
<1>6. QED
  BY <1>5, NextIs DEF LifeStep

RlcHas(i, w) == rlcUlRb[i] = w /\ rlcDlRb[i] = w
MacHas(i, w) == macLc[i] = w /\ schLc[i] = w

\* The CU is answered.
LEMMA Answers ==
    ASSUME Core, Core', NEW c \in CuUe, NEW i \in Id, NEW ph, HasPhase(c, ph, i), PhIn(c, ph) = "asked",
           NEW w, w = cuUe[c].rbs, RlcHas(i, w), MacHas(i, w),
           NEW x, NEW e, CuGets(c, e, x, w),
           IF w = {} THEN x = "idle" /\ e = 0 ELSE PhIn(c, x) = "in" /\ e = i,
           SameTables
    PROVE  LifeStep
<1>1. /\ i # 0 /\ LifePhase[c] = "asked" /\ \A d \in CuUe : cuUe[d].id = i => d = c
      /\ LifeId[c] = i /\ LifeWant[i] = w
  BY OwnerIs DEF PhIn
<1>2. Mapped(c, i, PhIn(c, x), IF x \in Out THEN 0 ELSE e, w)
  <2>1. cuUe[c].id \in {i, 0} /\ \A d \in CuUe : cuUe[d].id = i => d = c
    BY <1>1 DEF HasPhase
  <2>2. e \in {i, 0} /\ (e = 0 => w = {})
    BY <1>1
  <2>3. QED
    BY <2>1, <2>2, CuMapped
<1>3. LifeWant' = LifeWant
  BY <1>1, <1>2 DEF LifeWant, Mapped
<1>4. \A p \in LifePart : LifeHas[p][i] = w
  BY HasIs DEF LifePart, RlcHas, MacHas
<1>5. IF w = {} THEN LifePhase' = [LifePhase EXCEPT ![c] = "out"] /\ LifeId' = [LifeId EXCEPT ![c] = 0]
      ELSE LifePhase' = [LifePhase EXCEPT ![c] = "in"] /\ LifeId' = LifeId
  <2>1. CASE w = {}
    BY <1>2, <2>1 DEF PhIn, Out, Mapped
  <2>2. CASE w # {}
    <3>1. x \notin Out
      BY <2>2 DEF PhIn
    <3>2. QED
      BY <1>1, <1>2, <2>2, <3>1 DEF LifeId, Mapped
  <2>3. QED
    BY <2>1, <2>2
<1>6. Life!Answer(c)
  BY <1>1, <1>3, <1>4, <1>5, NoTableMoves, AnswerIs
<1>7. QED
  BY <1>6, NextIs DEF LifeStep

-----------------------------------------------------------------------------
(* Where the bearers of a UE are.                                            *)

\* What op on the bearers rbs, of which the old ones are there, leads to, if it does
\* not delete any.
Gives(op, rbs, old, w) ==
    CASE op = "ADD" -> rbs \intersect old = {} /\ w = old \union rbs
      [] op = "MODIFY" -> rbs \subseteq old /\ w = old
      [] OTHER -> FALSE
RlcGives(op, rbs, i, w) == Gives(op, rbs, rlcUlRb[i], w) /\ Gives(op, rbs, rlcDlRb[i], w)
MacGives(op, rbs, i, w) == Gives(op, rbs, macLc[i], w) /\ Gives(op, rbs, schLc[i], w)

\* A request that is under way to RLC, or half applied, leads to w, and when there
\* is none RLC has w.
RlcReqs(i, w) ==
    /\ \A m \in ToSet(duToRlc) : m.ue = i => RlcGives(m.op, m.rbs, i, w)
    /\ \A u \in ToSet(udxReq) : u.req.ue = i =>
        u.valid = u.req.rbs /\ RlcGives(u.req.op, u.req.rbs, i, w)
    /\ \A u \in ToSet(udxCfm) : u.req.ue = i =>
        u.done = u.req.rbs /\ Gives(u.req.op, u.req.rbs, rlcUlRb[i], w) /\ rlcDlRb[i] = w
RlcDone(i, w) == (\A t \in InRlc(i) : t.at = "rlcToDu" /\ t.ev # "DL_RRC") => RlcHas(i, w)

\* The same for MAC and SCH, which take a request in one step.
MacReqs(i, w) ==
    \A m \in ToSet(duToMac) : m.ue = i =>
        /\ m.ev = "CREATE" => m.lcs = w /\ macUe[i] = "NONE" /\ schUe[i] # "ACTIVE"
        /\ m.ev = "RECONFIG" => MacGives(m.op, m.lcs, i, w)
MacDone(ph, i, w) ==
    /\ ph # "asked" /\ macUe[i] # "NONE" => MacHas(i, w)
    /\ ph = "asked" /\ (\E t \in InMac(i) : t.ev = "RECONFIG" /\ t.at = "macToDu" /\ t.ok) =>
        MacHas(i, w)
    /\ ph = "asked" /\ ueCb[i].mac = "RECFG_COMPLETE" /\ (\A t \in InRlc(i) : t.ev # "DL_RRC") =>
        MacHas(i, w)
    /\ ph = "handin" /\ (\E t \in InMac(i) : t.ev = "RACH") => macUe[i] # "NONE"

\* While an RRC message is sent first, what the DU application keeps leads to w.
RrcFirst(i, w) ==
    /\ ueCb[i].db.rrc /\ ueCb[i].db.rbs \subseteq Drb
    /\ RlcGives(CfgOp(ueCb[i].db), ueCb[i].db.rbs, i, w)
    /\ MacGives(CfgOp(ueCb[i].db), ueCb[i].db.rbs, i, w)

Gone == {"idle", "access", "initial", "releasing"}

BearersOf(c, ph, i, w) ==
    /\ ph \in Gone => w = {}
    /\ ph \notin Gone =>
        Srb1 \in w /\ RlcReqs(i, w) /\ RlcDone(i, w) /\ MacReqs(i, w) /\ MacDone(ph, i, w)
    /\ ph \in {"connecting", "completing", "connected"} /\ c \in Access => w = {Srb1}
    /\ ph \in {"completing", "connected", "asked", "ready"} /\ c \in Access => macUe[i] # "NONE"
    /\ ph = "asked" /\ (\E t \in InRlc(i) : t.ev = "DL_RRC") => RrcFirst(i, w)

Bearers == \A c \in CuUe : BearersOf(c, cuUe[c].ph, cuUe[c].id, cuUe[c].rbs)

LEMMA BearersOfGone ==
    ASSUME NEW c, NEW ph \in Gone, NEW i
    PROVE  BearersOf(c, ph, i, {})'
BY DEF BearersOf, Gone

-----------------------------------------------------------------------------
(* A step that is not about UE j.                                            *)

NoneNewRlc(j) ==
    /\ \A m \in ToSet(duToRlc') : m.ue = j => m \in ToSet(duToRlc)
    /\ \A u \in ToSet(udxReq') : u.req.ue = j => u \in ToSet(udxReq)
    /\ \A u \in ToSet(udxCfm') : u.req.ue = j => u \in ToSet(udxCfm)
NoneNewMac(j) == \A m \in ToSet(duToMac') : m.ue = j => m \in ToSet(duToMac)
Quiet(j) == Same(j) /\ NoneNewRlc(j) /\ NoneNewMac(j)

LEMMA RlcReqsStay ==
    ASSUME NEW i, NEW w, RlcReqs(i, w), NoneNewRlc(i), rlcUlRb'[i] = rlcUlRb[i], rlcDlRb'[i] = rlcDlRb[i]
    PROVE  RlcReqs(i, w)'
BY DEF RlcReqs, NoneNewRlc, RlcGives

LEMMA MacReqsStay ==
    ASSUME NEW i, NEW w, MacReqs(i, w), NoneNewMac(i), macUe'[i] = macUe[i], schUe'[i] = schUe[i],
           macLc'[i] = macLc[i], schLc'[i] = schLc[i]
    PROVE  MacReqs(i, w)'
BY DEF MacReqs, NoneNewMac, MacGives

LEMMA QuietFrame ==
    ASSUME NEW c, NEW ph, NEW i, NEW w, Quiet(i), BearersOf(c, ph, i, w)
    PROVE  BearersOf(c, ph, i, w)'
<1>1. RlcReqs(i, w) => RlcReqs(i, w)'
  BY RlcReqsStay DEF Quiet, Same, SameRlc
<1>2. MacReqs(i, w) => MacReqs(i, w)'
  BY MacReqsStay DEF Quiet, Same, SameMac
<1>3. RlcDone(i, w) => RlcDone(i, w)'
  BY DEF Quiet, Same, SameRlc, RlcDone, RlcHas
<1>4. MacDone(ph, i, w) => MacDone(ph, i, w)'
  BY DEF Quiet, Same, SameRlc, SameMac, MacDone, MacHas
<1>5. RrcFirst(i, w) => RrcFirst(i, w)'
  BY DEF Quiet, Same, SameRlc, SameMac, RrcFirst, RlcGives, MacGives
<1>6. InRlc(i)' = InRlc(i) /\ macUe'[i] = macUe[i]
  BY DEF Quiet, Same, SameRlc, SameMac
<1>7. QED
  BY <1>1, <1>2, <1>3, <1>4, <1>5, <1>6 DEF BearersOf

\* A step about UE c, which has id i before or after it.
LEMMA BearsAt ==
    ASSUME Core, Bearers, NEW c \in CuUe, NEW i \in Id, \A d \in CuUe : cuUe[d].id = i => d = c,
           \A j \in Id \ {i} : Quiet(j),
           NEW x, NEW e, NEW w, CuGets(c, e, x, w), BearersOf(c, x, e, w)'
    PROVE  Bearers'
<1>1. ASSUME NEW d \in CuUe \ {c}
      PROVE  BearersOf(d, cuUe[d].ph, cuUe[d].id, cuUe[d].rbs)'
  <2>1. cuUe'[d] = cuUe[d] /\ cuUe[d].id # i
    BY DEF CuGets, CuMoves
  <2>2. PICK ph, j, r : ph = cuUe[d].ph /\ j = cuUe[d].id /\ r = cuUe[d].rbs
    OBVIOUS
  <2>3. BearersOf(d, ph, j, r)
    BY <2>2 DEF Bearers
  <2>4. BearersOf(d, ph, j, r)'
    <3>1. CASE ph = "idle"
      <4>1. r = {}
        BY <2>3, <3>1 DEF BearersOf, Gone
      <4>2. QED
        BY <3>1, <4>1, BearersOfGone DEF Gone
    <3>2. CASE ph # "idle"
      BY <2>1, <2>2, <2>3, <3>2, PhaseIs, QuietFrame
    <3>3. QED
      BY <3>1, <3>2
  <2>5. QED
    BY <2>1, <2>2, <2>4
<1>2. BearersOf(c, cuUe[c].ph, cuUe[c].id, cuUe[c].rbs)'
  BY DEF CuGets, CuMoves
<1>3. QED
  BY <1>1, <1>2 DEF Bearers

LEMMA CuGetsSame ==
    ASSUME Core, UNCHANGED cuUe, NEW c \in CuUe, NEW ph, NEW i, HasPhase(c, ph, i)
    PROVE  CuGets(c, i, ph, cuUe[c].rbs)
BY CuStays DEF CuGets

-----------------------------------------------------------------------------
(* The threads of RLC.                                                       *)

LEMMA PutIn ==
    ASSUME NEW S, NEW q \in Seq(S), NEW m, m \in S, NEW r, r = Put(q, m)
    PROVE  ToSet(r) = ToSet(q) \union {m}
BY PutToSet

LEMMA TakenFrom ==
    ASSUME NEW S, NEW q \in Seq(S), q # <<>>, NEW r, r = Tail(q)
    PROVE  Head(q) \in S /\ Head(q) \in ToSet(q) /\ ToSet(r) \subseteq ToSet(q)
BY RestToSet DEF First, Rest

LEMMA RlcMsgsNext ==
    /\ \A m \in ToSet(duToRlc') : ReqTok("duToRlc", m.ev) \in InRlc(m.ue)'
    /\ \A m \in ToSet(rlcToDu') : Tok("rlcToDu", m.ev, m.ok) \in InRlc(m.ue)'
    /\ \A u \in ToSet(udxReq') : Tok("udxReq", u.req.ev, u.ueOk) \in InRlc(u.req.ue)'
    /\ \A u \in ToSet(udxCfm') : Tok("udxCfm", u.req.ev, u.ueOk) \in InRlc(u.req.ue)'
<1>1. \A m \in ToSet(duToRlc') : ReqTok("duToRlc", m.ev) \in InRlc(m.ue)'
  BY DEF InRlc, RlcToks, ReqToks
<1>2. \A m \in ToSet(rlcToDu') : Tok("rlcToDu", m.ev, m.ok) \in InRlc(m.ue)'
  BY DEF InRlc, RlcToks, RspToks
<1>3. \A u \in ToSet(udxReq') : Tok("udxReq", u.req.ev, u.ueOk) \in InRlc(u.req.ue)'
  BY DEF InRlc, RlcToks, UdxToks
<1>4. \A u \in ToSet(udxCfm') : Tok("udxCfm", u.req.ev, u.ueOk) \in InRlc(u.req.ue)'
  BY DEF InRlc, RlcToks, UdxToks
<1>5. QED
  BY <1>1, <1>2, <1>3, <1>4

LEMMA TokFields ==
    /\ \A at, ev, ok : Tok(at, ev, ok).at = at /\ Tok(at, ev, ok).ev = ev /\ Tok(at, ev, ok).ok = ok
    /\ \A at, ev : ReqTok(at, ev).at = at /\ ReqTok(at, ev).ev = ev
BY DEF Tok, ReqTok

\* Where there is no message about UE i, there is no token of one.
LEMMA NoneThere ==
    ASSUME NEW i
    PROVE  /\ (\A t \in InRlc(i) : t.at # "duToRlc") => \A m \in ToSet(duToRlc) : m.ue # i
           /\ (\A t \in InRlc(i) : t.at # "udxReq") => \A u \in ToSet(udxReq) : u.req.ue # i
           /\ (\A t \in InRlc(i) : t.at # "udxCfm") => \A u \in ToSet(udxCfm) : u.req.ue # i
           /\ (\A t \in InRlc(i)' : t.at # "duToRlc") => \A m \in ToSet(duToRlc') : m.ue # i
           /\ (\A t \in InRlc(i)' : t.at # "udxReq") => \A u \in ToSet(udxReq') : u.req.ue # i
           /\ (\A t \in InRlc(i)' : t.at # "udxCfm") => \A u \in ToSet(udxCfm') : u.req.ue # i
BY RlcMsgs, RlcMsgsNext, TokFields DEF Msgs, ToSet

LEMMA ValidGiven ==
    ASSUME NEW op, NEW rbs, NEW old, NEW w, Gives(op, rbs, old, w)
    PROVE  ValidRbs(op, rbs, old) = rbs /\ Applied(op, rbs, old) = w /\ op # "DEL_UE"
BY DEF Gives, ValidRbs, Applied

\* The bearers after RLC has taken on a request.
LEMMA RlcBears ==
    ASSUME Core, Bearers, ByRlc, NEW i, NEW from, NEW to, RlcStep(i, from, to),
           from \notin {"rlcToDu", "duToRlcDl"}, \A j \in Id \ {i} : NoneNewRlc(j),
           NEW c \in CuUe, NEW ph \in Phase, HasPhase(c, ph, i), ph # "idle", InPhase(c, ph, i),
           NEW w, w = cuUe[c].rbs, ph \notin Gone => RlcReqs(i, w)' /\ RlcDone(i, w)'
    PROVE  Bearers'
<1>1. PICK t, n : InRlc(i) = {t} /\ t.at = from /\ InRlc(i)' \subseteq {n} /\ n.ev = t.ev
  BY DEF RlcStep
<1>2. i \in Id /\ t.ev # "DL_RRC" /\ n.ev # "DL_RRC"
  <2>1. t \in InRlc(i) /\ t.at \notin {"duToRlcDl", "rlcToDu"}
    BY <1>1
  <2>2. t.ev # "DL_RRC"
    BY <2>1, RlcWho
  <2>3. QED
    BY <1>1, <2>2 DEF RlcStep
<1>3. BearersOf(c, ph, i, w)
  BY DEF Bearers, HasPhase
<1>4. /\ UNCHANGED cuUe /\ UNCHANGED ueCb /\ UNCHANGED duToMac
      /\ MacQ' /\ MacData' /\ \A j : SameMac(j)
  BY MacStill DEF ByRlc, duVars, macVars
<1>5. \A j \in Id \ {i} : Quiet(j)
  BY <1>4 DEF Quiet, Same, RlcStep, NoneNewMac
<1>6. MacReqs(i, w) => MacReqs(i, w)'
  BY <1>4, MacReqsStay DEF NoneNewMac, SameMac
<1>7. MacDone(ph, i, w) => MacDone(ph, i, w)'
  BY <1>1, <1>2, <1>4 DEF MacDone, MacHas, SameMac
<1>8. macUe'[i] = macUe[i] /\ \A x \in InRlc(i)' : x.ev # "DL_RRC"
  BY <1>1, <1>2, <1>4 DEF SameMac
<1>9. BearersOf(c, ph, i, w)'
  BY <1>3, <1>6, <1>7, <1>8 DEF BearersOf
<1>10. CuGets(c, i, ph, w)
  BY <1>4, CuGetsSame
<1>11. \A d \in CuUe : cuUe[d].id = i => d = c
  BY <1>2, OwnerIs
<1>12. QED
  BY <1>2, <1>5, <1>9, <1>10, <1>11, BearsAt

LEMMA UeCfgReqBears ==
    ASSUME Core, Bearers, ~Overlap, ByRlc, RlcUeCfgReq
    PROVE  Bearers' /\ LifeStep
<1>1. PICK r, i, u :
        /\ r = Head(duToRlc) /\ i = r.ue
        /\ u = [req |-> r, ueOk |-> i \in rlcUlUe, valid |-> ValidRbs(r.op, r.rbs, rlcUlRb[i])]
  OBVIOUS
<1>2. /\ duToRlc # <<>> /\ duToRlc' = Tail(duToRlc) /\ udxReq' = Put(udxReq, u)
      /\ UNCHANGED <<udxCfm, rlcUlRb, rlcDlRb>>
  BY <1>1 DEF RlcUeCfgReq, RlcProcCfgReq, Put
<1>3. RlcStep(i, "duToRlc", "udxReq")
  BY <1>1, UeCfgReqKeeps
<1>4. PICK t, n : /\ InRlc(i) = {t} /\ t.at = "duToRlc" /\ InRlc(i)' = {n} /\ n.at = "udxReq"
                  /\ n.ev = t.ev /\ i \in Id
  BY <1>3 DEF RlcStep
<1>5. PICK c \in CuUe, ph \in Phase : HasPhase(c, ph, i) /\ ph # "idle" /\ InPhase(c, ph, i)
  BY <1>4, PhaseOf
<1>6. PICK w : w = cuUe[c].rbs
  OBVIOUS
<1>7. r \in ToSet(duToRlc) /\ ToSet(duToRlc') \subseteq ToSet(duToRlc) /\ r \in RlcReq
  BY <1>1, <1>2, TakenFrom, CoreParts DEF RlcQ
<1>8. ToSet(udxReq') = ToSet(udxReq) \union {u} /\ u.req = r
  <2>1. u \in UdxReq
    <3>1. ValidRbs(r.op, r.rbs, rlcUlRb[i]) \in SUBSET Rb
      BY <1>7, ValidRbsType DEF RlcReq
    <3>2. QED
      BY <1>1, <1>7, <3>1 DEF UdxReq
  <2>2. udxReq \in Seq(UdxReq)
    BY CoreParts DEF RlcQ
  <2>3. ToSet(udxReq') = ToSet(udxReq) \union {u}
    BY <1>2, <2>1, <2>2, PutIn
  <2>4. QED
    BY <1>1, <2>3
<1>9. \A j \in Id \ {i} : NoneNewRlc(j)
  BY <1>1, <1>2, <1>7, <1>8 DEF NoneNewRlc
<1>10. ASSUME ph \notin Gone
       PROVE  RlcReqs(i, w)' /\ RlcDone(i, w)'
  <2>1. RlcReqs(i, w)
    BY <1>5, <1>6, <1>10 DEF Bearers, BearersOf, HasPhase
  <2>2. RlcGives(r.op, r.rbs, i, w) /\ u.valid = r.rbs
    BY <1>1, <1>7, <2>1, ValidGiven DEF RlcReqs, RlcGives
  <2>3. RlcReqs(i, w)'
    BY <1>2, <1>7, <1>8, <2>1, <2>2 DEF RlcReqs, RlcGives
  <2>4. RlcDone(i, w)'
    BY <1>4 DEF RlcDone
  <2>5. QED
    BY <2>3, <2>4
<1>11. Bearers'
  BY <1>3, <1>5, <1>6, <1>9, <1>10, RlcBears
<1>12. LifeStep
  BY <1>2, Idles DEF ByRlc, SameTables, macVars, macUeVars
<1>13. QED
  BY <1>11, <1>12

\* What RLC has at work of a UE that is gone for the CU is its deletion.
LEMMA GoneDeletes ==
    ASSUME NEW c, NEW ph \in Phase, NEW i, ph # "idle", InPhase(c, ph, i), NEW t \in InRlc(i),
           t.at \notin {"rlcToDu", "duToRlcDl"}
    PROVE  ph \in Gone <=> t.ev = "DELETE"
<1>1. t.ev # "UL_RRC" /\ t.ev # "DL_RRC"
  BY RlcWho
<1>2. \/ t.ev = "CREATE" /\ ph \notin Gone
      \/ t.ev = "RECONFIG" /\ ph \notin Gone
      \/ t.ev = "DELETE" /\ ph \in Gone
  BY <1>1, RlcWho DEF Gone
<1>3. QED
  BY <1>2

\* What the CU asked for of a UE that is gone for it.
LEMMA GoneHasNone ==
    ASSUME Bearers, NEW c \in CuUe, NEW ph, NEW i, HasPhase(c, ph, i)
    PROVE  /\ ph \in Gone => cuUe[c].rbs = {}
           /\ BearersOf(c, ph, i, cuUe[c].rbs)
BY DEF Bearers, BearersOf, HasPhase

LEMMA DlUdxCfgReqBears ==
    ASSUME Core, Core', Bearers, ByRlc, RlcDlUdxCfgReq
    PROVE  Bearers' /\ LifeStep
<1>1. PICK u, i, done, f :
        /\ u = Head(udxReq) /\ i = u.req.ue
        /\ done = ValidRbs(u.req.op, u.valid, rlcDlRb[i])
        /\ f = [req |-> u.req, ueOk |-> u.ueOk, done |-> done]
  OBVIOUS
<1>2. /\ udxReq # <<>> /\ udxReq' = Tail(udxReq) /\ udxCfm' = Put(udxCfm, f)
      /\ rlcDlRb' = [rlcDlRb EXCEPT ![i] = Applied(u.req.op, done, @)]
      /\ UNCHANGED <<duToRlc, rlcUlRb, macVars, cuUe>>
  BY <1>1 DEF RlcDlUdxCfgReq, ByRlc, Put
<1>3. RlcStep(i, "udxReq", "udxCfm")
  BY <1>1, DlUdxCfgReqKeeps
<1>4. PICK t, n : /\ InRlc(i) = {t} /\ t.at = "udxReq" /\ InRlc(i)' = {n} /\ n.at = "udxCfm"
                  /\ i \in Id
  BY <1>3 DEF RlcStep
<1>5. PICK c \in CuUe, ph \in Phase : HasPhase(c, ph, i) /\ ph # "idle" /\ InPhase(c, ph, i)
  BY <1>4, PhaseOf
<1>6. PICK w : w = cuUe[c].rbs
  OBVIOUS
<1>7. u \in ToSet(udxReq) /\ ToSet(udxReq') \subseteq ToSet(udxReq) /\ u \in UdxReq
  BY <1>1, <1>2, TakenFrom, CoreParts DEF RlcQ
<1>8. ToSet(udxCfm') = ToSet(udxCfm) \union {f} /\ f.req = u.req /\ f.done = done
  <2>1. f \in UdxCfm
    <3>1. u.req.op \in RlcOp /\ u.valid \in SUBSET Rb
      BY <1>7 DEF UdxReq, RlcReq
    <3>2. done \in SUBSET Rb
      BY <1>1, <3>1, ValidRbsType
    <3>3. QED
      BY <1>1, <1>7, <3>2 DEF UdxReq, UdxCfm
  <2>2. udxCfm \in Seq(UdxCfm)
    BY CoreParts DEF RlcQ
  <2>3. ToSet(udxCfm') = ToSet(udxCfm) \union {f}
    BY <1>2, <2>1, <2>2, PutIn
  <2>4. QED
    BY <1>1, <2>3
<1>9. \A j \in Id \ {i} : NoneNewRlc(j)
  BY <1>1, <1>2, <1>7, <1>8 DEF NoneNewRlc
<1>10. rlcDlRb'[i] = Applied(u.req.op, done, rlcDlRb[i]) /\ \A j \in Id \ {i} : rlcDlRb'[j] = rlcDlRb[j]
  <2>1. rlcDlRb \in [Id -> SUBSET Rb]
    BY CoreParts DEF RlcData
  <2>2. QED
    BY <1>2, <1>4, <2>1
<1>11. rlcDlRb'[i] = w /\ (ph \notin Gone => RlcReqs(i, w)' /\ RlcDone(i, w)')
  <2>1. CASE ph \in Gone
    <3>1. t.ev = "DELETE" /\ w = {}
      BY <1>4, <1>5, <1>6, <2>1, GoneDeletes, GoneHasNone
    <3>2. Tok("udxReq", u.req.ev, u.ueOk) = t
      BY <1>1, <1>4, <1>7, RlcMsgs DEF Msgs, ToSet
    <3>3. u.req.op = "DEL_UE"
      BY <1>7, <3>1, <3>2, TokFields DEF Core, Events
    <3>4. QED
      BY <1>10, <2>1, <3>1, <3>3 DEF Applied
  <2>2. CASE ph \notin Gone
    <3>1. RlcReqs(i, w)
      BY <1>5, <1>6, <2>2, GoneHasNone DEF BearersOf
    <3>2. RlcGives(u.req.op, u.req.rbs, i, w) /\ u.valid = u.req.rbs
      BY <1>1, <1>7, <3>1 DEF RlcReqs
    <3>3. done = u.req.rbs /\ rlcDlRb'[i] = w
      BY <1>1, <1>10, <3>2, ValidGiven DEF RlcGives
    <3>4. \A m \in ToSet(duToRlc') : m.ue # i
      BY <1>4, NoneThere
    <3>5. \A x \in ToSet(udxReq') : x.req.ue # i
      BY <1>4, NoneThere
    <3>6. \A x \in ToSet(udxCfm) : x.req.ue # i
      BY <1>4, NoneThere
    <3>7. RlcReqs(i, w)'
      BY <1>2, <1>8, <3>2, <3>3, <3>4, <3>5, <3>6 DEF RlcReqs, RlcGives
    <3>8. RlcDone(i, w)'
      BY <1>4 DEF RlcDone
    <3>9. QED
      BY <3>3, <3>7, <3>8
  <2>3. QED
    BY <2>1, <2>2
<1>12. Bearers'
  BY <1>3, <1>5, <1>6, <1>9, <1>11, RlcBears
<1>13. TablesGet(i, w)
  BY <1>2, <1>10, <1>11 DEF TablesGet, macVars, macUeVars
<1>14. LifeStep
  BY <1>2, <1>4, <1>5, <1>6, <1>13, Applies
<1>15. QED
  BY <1>12, <1>14

LEMMA UlUdxCfgCfmBears ==
    ASSUME Core, Core', Bearers, ByRlc, RlcUlUdxCfgCfm
    PROVE  Bearers' /\ LifeStep
<1>1. PICK u, i, deletes : u = Head(udxCfm) /\ i = u.req.ue /\ deletes = (u.req.op = "DEL_UE" /\ u.ueOk)
  OBVIOUS
<1>2. /\ udxCfm # <<>> /\ udxCfm' = Tail(udxCfm)
      /\ rlcUlRb' = [rlcUlRb EXCEPT ![i] = IF deletes THEN {} ELSE Applied(u.req.op, u.done, @)]
      /\ UNCHANGED <<duToRlc, udxReq, rlcDlRb, macVars, cuUe>>
  BY <1>1 DEF RlcUlUdxCfgCfm, ByRlc
<1>3. RlcStep(i, "udxCfm", "rlcToDu")
  BY <1>1, UlUdxCfgCfmKeeps
<1>4. PICK t, n : /\ InRlc(i) = {t} /\ t.at = "udxCfm" /\ InRlc(i)' \subseteq {n} /\ n.at = "rlcToDu"
                  /\ i \in Id
  BY <1>3 DEF RlcStep
<1>5. PICK c \in CuUe, ph \in Phase : HasPhase(c, ph, i) /\ ph # "idle" /\ InPhase(c, ph, i)
  BY <1>4, PhaseOf
<1>6. PICK w : w = cuUe[c].rbs
  OBVIOUS
<1>7. u \in ToSet(udxCfm) /\ ToSet(udxCfm') \subseteq ToSet(udxCfm) /\ u \in UdxCfm
  BY <1>1, <1>2, TakenFrom, CoreParts DEF RlcQ
<1>8. \A j \in Id \ {i} : NoneNewRlc(j)
  BY <1>2, <1>7 DEF NoneNewRlc
<1>9. /\ rlcUlRb'[i] = IF deletes THEN {} ELSE Applied(u.req.op, u.done, rlcUlRb[i])
      /\ \A j \in Id \ {i} : rlcUlRb'[j] = rlcUlRb[j]
  <2>1. rlcUlRb \in [Id -> SUBSET Rb]
    BY CoreParts DEF RlcData
  <2>2. QED
    BY <1>2, <1>4, <2>1
<1>10. rlcUlRb'[i] = w /\ (ph \notin Gone => RlcReqs(i, w)' /\ RlcDone(i, w)')
  <2>1. CASE ph \in Gone
    <3>1. t.ev = "DELETE" /\ w = {}
      BY <1>4, <1>5, <1>6, <2>1, GoneDeletes, GoneHasNone
    <3>2. Tok("udxCfm", u.req.ev, u.ueOk) = t
      BY <1>1, <1>4, <1>7, RlcMsgs DEF Msgs, ToSet
    <3>3. u.req.op = "DEL_UE"
      BY <1>7, <3>1, <3>2, TokFields DEF Core, Events
    <3>4. QED
      BY <1>9, <2>1, <3>1, <3>3 DEF Applied
  <2>2. CASE ph \notin Gone
    <3>1. RlcReqs(i, w)
      BY <1>5, <1>6, <2>2, GoneHasNone DEF BearersOf
    <3>2. u.done = u.req.rbs /\ Gives(u.req.op, u.req.rbs, rlcUlRb[i], w) /\ rlcDlRb[i] = w
      BY <1>1, <1>7, <3>1 DEF RlcReqs
    <3>3. rlcUlRb'[i] = w
      <4>1. u.req.op # "DEL_UE" /\ Applied(u.req.op, u.req.rbs, rlcUlRb[i]) = w
        BY <3>2, ValidGiven
      <4>2. ~deletes
        BY <1>1, <4>1
      <4>3. QED
        BY <1>9, <3>2, <4>1, <4>2
    <3>4. \A m \in ToSet(duToRlc') : m.ue # i
      BY <1>4, NoneThere
    <3>5. \A x \in ToSet(udxReq') : x.req.ue # i
      BY <1>4, NoneThere
    <3>6. \A x \in ToSet(udxCfm') : x.req.ue # i
      BY <1>4, NoneThere
    <3>7. RlcReqs(i, w)'
      BY <3>4, <3>5, <3>6 DEF RlcReqs
    <3>8. RlcDone(i, w)'
      BY <1>2, <3>2, <3>3 DEF RlcDone, RlcHas
    <3>9. QED
      BY <3>3, <3>7, <3>8
  <2>3. QED
    BY <2>1, <2>2
<1>11. Bearers'
  BY <1>3, <1>5, <1>6, <1>8, <1>10, RlcBears
<1>12. TablesGet(i, w)
  BY <1>2, <1>9, <1>10 DEF TablesGet, macVars, macUeVars
<1>13. LifeStep
  BY <1>2, <1>4, <1>5, <1>6, <1>12, Applies
<1>14. QED
  BY <1>11, <1>13

LEMMA UeDeleteReqBears ==
    ASSUME Core, Bearers, ByRlc, RlcProcUeDeleteReq
    PROVE  Bearers' /\ LifeStep
<1>1. PICK r, i : r = Head(duToRlc) /\ i = r.ue
  OBVIOUS
<1>2. /\ duToRlc # <<>> /\ duToRlc' = Tail(duToRlc) /\ r.ev = "DELETE"
      /\ UNCHANGED <<udxReq, udxCfm, rlcUlRb, rlcDlRb, macVars, cuUe>>
  BY <1>1 DEF RlcProcUeDeleteReq, ByRlc
<1>3. PICK to : RlcStep(i, "duToRlc", to)
  BY <1>1, RlcProcUeDeleteReqKeeps
<1>4. PICK t : InRlc(i) = {t} /\ t.at = "duToRlc" /\ i \in Id
  BY <1>3 DEF RlcStep
<1>5. PICK c \in CuUe, ph \in Phase : HasPhase(c, ph, i) /\ ph # "idle" /\ InPhase(c, ph, i)
  BY <1>4, PhaseOf
<1>6. r \in ToSet(duToRlc) /\ ToSet(duToRlc') \subseteq ToSet(duToRlc)
  BY <1>1, <1>2, TakenFrom, CoreParts DEF RlcQ
<1>7. ph \in Gone
  <2>1. ReqTok("duToRlc", "DELETE") = t
    BY <1>1, <1>2, <1>4, <1>6, RlcMsgs DEF Msgs, ToSet
  <2>2. t.ev = "DELETE"
    BY <2>1, TokFields
  <2>3. QED
    BY <1>4, <1>5, <2>2, GoneDeletes
<1>8. \A j \in Id \ {i} : NoneNewRlc(j)
  BY <1>2, <1>6 DEF NoneNewRlc
<1>9. Bearers'
  BY <1>3, <1>5, <1>7, <1>8, RlcBears
<1>10. LifeStep
  BY <1>2, Idles DEF SameTables, macVars, macUeVars
<1>11. QED
  BY <1>9, <1>10

LEMMA TimerBears ==
    ASSUME Core, Bearers, ~Overlap, NEW i \in Id, RlcTimer(i)
    PROVE  Bearers' /\ LifeStep
<1>1. PICK u : u = [req |-> [ev |-> "DELETE", ue |-> i, op |-> "DEL_UE", rbs |-> {}],
                    ueOk |-> i \in rlcUlUe, valid |-> ValidRbs("DEL_UE", {}, rlcUlRb[i])]
  OBVIOUS
<1>2. /\ i \in ueDelTmr /\ udxReq' = Put(udxReq, u) /\ ByRlc
      /\ UNCHANGED <<duToRlc, udxCfm, rlcUlRb, rlcDlRb, macVars, cuUe>>
  BY <1>1 DEF RlcTimer, RlcUeDeleteTmrExpiry, RlcProcCfgReq, ByRlc, Put
<1>3. RlcStep(i, "ueDelTmr", "udxReq")
  BY RlcTimerKeeps
<1>4. PICK t : InRlc(i) = {t} /\ t.at = "ueDelTmr"
  BY <1>3 DEF RlcStep
<1>5. PICK c \in CuUe, ph \in Phase : HasPhase(c, ph, i) /\ ph # "idle" /\ InPhase(c, ph, i)
  BY <1>4, PhaseOf
<1>6. ph \in Gone
  <2>1. ReqTok("ueDelTmr", "DELETE") = t
    BY <1>2, <1>4, RlcMsgs
  <2>2. t.ev = "DELETE"
    BY <2>1, TokFields
  <2>3. QED
    BY <1>4, <1>5, <2>2, GoneDeletes
<1>7. \A j \in Id \ {i} : NoneNewRlc(j)
  <2>1. u \in UdxReq /\ u.req.ue = i
    BY <1>1 DEF UdxReq, RlcReq, RlcEvent, RlcOp, ValidRbs
  <2>2. udxReq \in Seq(UdxReq)
    BY CoreParts DEF RlcQ
  <2>3. ToSet(udxReq') = ToSet(udxReq) \union {u}
    BY <1>2, <2>1, <2>2, PutIn
  <2>4. QED
    BY <1>2, <2>1, <2>3 DEF NoneNewRlc
<1>8. Bearers'
  BY <1>2, <1>3, <1>5, <1>6, <1>7, RlcBears
<1>9. LifeStep
  BY <1>2, Idles DEF SameTables, macVars, macUeVars
<1>10. QED
  BY <1>8, <1>9

LEMMA DlRrcMsgTransferBears ==
    ASSUME Core, Bearers, RlcProcDlRrcMsgTransfer
    PROVE  Bearers' /\ LifeStep
<1>1. PICK i : i = Head(duToRlcDl)
  OBVIOUS
<1>2. /\ duToRlcDl # <<>> /\ duToRlcDl' = Tail(duToRlcDl)
      /\ rlcToDu' = IF Srb1 \in rlcDlRb[i] THEN Append(rlcToDu, [ev |-> "DL_RRC", ue |-> i, ok |-> TRUE])
                    ELSE rlcToDu
      /\ UNCHANGED <<duToRlc, udxReq, udxCfm, rlcUlRb, rlcDlRb, duToMac, macToDu, macUe, schUe,
                     macLc, schLc, ueCb, cuUe>>
  BY <1>1 DEF RlcProcDlRrcMsgTransfer, rlcOwnVars, macVars, macUeVars, duVars
<1>3. RlcStep(i, "duToRlcDl", "rlcToDu") /\ \A j \in Id \ {i} : Same(j)
  BY <1>1, DlRrcMsgTransferKeeps
<1>4. PICK t, n : /\ InRlc(i) = {t} /\ t.at = "duToRlcDl" /\ InRlc(i)' \subseteq {n} /\ n.at = "rlcToDu"
                  /\ n.ev = t.ev /\ i \in Id
  BY <1>3 DEF RlcStep
<1>5. PICK c \in CuUe, ph \in Phase : HasPhase(c, ph, i) /\ ph # "idle" /\ InPhase(c, ph, i)
  BY <1>4, PhaseOf
<1>6. PICK w : w = cuUe[c].rbs
  OBVIOUS
<1>7. t.ev = "DL_RRC" /\ n.ev = "DL_RRC" /\ ph \in {"asked", "releasing"}
  <2>1. ReqTok("duToRlcDl", "DL_RRC") = t
    <3>1. i \in ToSet(duToRlcDl)
      BY <1>1, <1>2, TakenFrom, CoreParts DEF RlcQ
    <3>2. QED
      BY <1>4, <3>1, RlcMsgs DEF Msgs, ToSet
  <2>2. t.ev = "DL_RRC"
    BY <2>1, TokFields
  <2>3. QED
    BY <1>4, <1>5, <2>2, RlcWho
<1>8. BearersOf(c, ph, i, w) /\ (ph \in Gone => w = {})
  BY <1>5, <1>6, GoneHasNone
<1>9. CuGets(c, i, ph, w)
  BY <1>2, <1>5, <1>6, CuGetsSame
<1>10. BearersOf(c, ph, i, w)'
  <2>1. CASE ph = "releasing"
    <3>1. w = {}
      BY <1>8, <2>1 DEF Gone
    <3>2. QED
      BY <2>1, <3>1, BearersOfGone DEF Gone
  <2>2. CASE ph = "asked"
    <3>1. Srb1 \in w /\ RlcReqs(i, w) /\ MacReqs(i, w) /\ MacDone(ph, i, w) /\ RrcFirst(i, w)
      BY <1>4, <1>7, <1>8, <2>2 DEF BearersOf, Gone
    <3>2. Srb1 \in rlcDlRb[i]
      BY <3>1 DEF RrcFirst, RlcGives, Gives, Drb
    <3>3. InRlc(i)' = {n}
      <4>1. PICK m : m = [ev |-> "DL_RRC", ue |-> i, ok |-> TRUE]
        OBVIOUS
      <4>2. m \in RlcToDu /\ m.ue = i
        BY <1>4, <4>1 DEF RlcToDu, RspMsg
      <4>3. rlcToDu' = Put(rlcToDu, m)
        BY <1>2, <3>2, <4>1 DEF Put
      <4>4. rlcToDu \in Seq(RlcToDu)
        BY CoreParts DEF RlcQ
      <4>5. m \in ToSet(rlcToDu')
        BY <4>2, <4>3, <4>4, PutIn
      <4>6. InRlc(i)' # {}
        BY <4>2, <4>5, RlcMsgsNext
      <4>7. QED
        BY <1>4, <4>6
    <3>4. RlcReqs(i, w)'
      BY <1>2, <3>1 DEF RlcReqs, RlcGives
    <3>5. RlcDone(i, w)'
      BY <1>7, <3>3 DEF RlcDone
    <3>6. MacReqs(i, w)'
      BY <1>2, <3>1 DEF MacReqs, MacGives
    <3>7. InMac(i)' = InMac(i)
      BY <1>2 DEF InMac
    <3>8. MacDone(ph, i, w)'
      BY <1>2, <1>7, <2>2, <3>1, <3>3, <3>7 DEF MacDone, MacHas
    <3>9. RrcFirst(i, w)'
      BY <1>2, <3>1 DEF RrcFirst, RlcGives, MacGives
    <3>10. macUe'[i] = macUe[i]
      BY <1>2
    <3>11. QED
      BY <1>8, <2>2, <3>1, <3>4, <3>5, <3>6, <3>8, <3>9, <3>10 DEF BearersOf, Gone
  <2>3. QED
    BY <1>7, <2>1, <2>2
<1>11. \A j \in Id \ {i} : Quiet(j)
  BY <1>2, <1>3 DEF Quiet, NoneNewRlc, NoneNewMac
<1>12. \A d \in CuUe : cuUe[d].id = i => d = c
  BY <1>4, <1>5, OwnerIs
<1>13. Bearers'
  BY <1>4, <1>9, <1>10, <1>11, <1>12, BearsAt
<1>14. LifeStep
  BY <1>2, Idles DEF SameTables
<1>15. QED
  BY <1>13, <1>14

-----------------------------------------------------------------------------
(* The thread of MAC and SCH.                                                *)

LEMMA MacMsgsNext == \A m \in ToSet(duToMac') : ReqTok("duToMac", m.ev) \in InMac(m.ue)'
BY DEF InMac, MacToks, ReqToks

LEMMA MacQueue ==
    ASSUME Core, NEW ev, Request(ev)
    PROVE  Head(duToMac) \in ToSet(duToMac) /\ ToSet(duToMac') \subseteq ToSet(duToMac)
BY TakenFrom, CoreParts DEF MacQ, Request

\* The bearers after MAC and SCH have taken a request.
LEMMA MacBears ==
    ASSUME Core, Bearers, ByMac, NEW i \in Id, \A j \in Id \ {i} : SameMac(j),
           ToSet(duToMac') \subseteq ToSet(duToMac),
           NEW c \in CuUe, NEW ph, HasPhase(c, ph, i), NEW w, w = cuUe[c].rbs,
           ph = "asked" => Running(i) \/ UNCHANGED <<macLc, schLc>>,
           ph \notin Gone => /\ MacReqs(i, w)' /\ MacDone(ph, i, w)'
                             /\ macUe[i] # "NONE" => macUe'[i] # "NONE"
    PROVE  Bearers'
<1>1. /\ UNCHANGED cuUe /\ UNCHANGED ueCb
      /\ UNCHANGED <<duToRlc, udxReq, udxCfm, rlcUlRb, rlcDlRb>> /\ \A j : SameRlc(j)
  BY RlcUnchanged DEF ByMac, duVars, rlcVars
<1>2. BearersOf(c, ph, i, w)
  BY GoneHasNone
<1>3. CuGets(c, i, ph, w)
  BY <1>1, CuGetsSame
<1>4. \A j \in Id \ {i} : Quiet(j)
  BY <1>1 DEF Quiet, Same, NoneNewRlc, NoneNewMac
<1>5. RlcReqs(i, w) => RlcReqs(i, w)'
  BY <1>1, RlcReqsStay DEF NoneNewRlc
<1>6. InRlc(i)' = InRlc(i) /\ (RlcDone(i, w) => RlcDone(i, w)')
  BY <1>1 DEF RlcDone, RlcHas, SameRlc
<1>7. ph = "asked" /\ (\E t \in InRlc(i) : t.ev = "DL_RRC") /\ RrcFirst(i, w) => RrcFirst(i, w)'
  BY <1>1 DEF RrcFirst, RlcGives, MacGives, Running
<1>8. BearersOf(c, ph, i, w)'
  <2>1. ph \in Gone => w = {}
    BY <1>2 DEF BearersOf
  <2>2. CASE ph \in Gone
    BY <2>1, <2>2, BearersOfGone
  <2>3. CASE ph \notin Gone
    BY <1>2, <1>5, <1>6, <1>7, <2>3 DEF BearersOf
  <2>4. QED
    BY <2>2, <2>3
<1>9. \A d \in CuUe : cuUe[d].id = i => d = c
  BY OwnerIs
<1>10. QED
  BY <1>3, <1>4, <1>8, <1>9, BearsAt

\* A request that is not about bearers.
LEMMA MacQuietBears ==
    ASSUME Core, Bearers, ByMac, NEW ev, Request(ev), MacQuiet(ev), UNCHANGED macUeVars
    PROVE  Bearers' /\ LifeStep
<1>1. PICK i, t : /\ i \in Id /\ t \in InMac(i) /\ InMac(i)' \subseteq InMac(i)
                  /\ \A j \in Id \ {i} : SameMac(j)
  BY DEF MacQuiet, Without
<1>2. PICK c \in CuUe, ph \in Phase : HasPhase(c, ph, i) /\ ph # "idle" /\ InPhase(c, ph, i)
  BY <1>1, PhaseOf
<1>3. PICK w : w = cuUe[c].rbs
  OBVIOUS
<1>4. ToSet(duToMac') \subseteq ToSet(duToMac)
  BY MacQueue
<1>5. UNCHANGED <<macUe, schUe, macLc, schLc>> /\ UNCHANGED ueCb /\ \A j : SameRlc(j)
  BY RlcUnchanged DEF macUeVars, ByMac, duVars
<1>6. BearersOf(c, ph, i, w)
  BY <1>2, <1>3, GoneHasNone
<1>7. MacReqs(i, w) => MacReqs(i, w)'
  BY <1>4, <1>5, MacReqsStay DEF NoneNewMac
<1>8. MacDone(ph, i, w) => MacDone(ph, i, w)'
  BY <1>1, <1>5 DEF MacDone, MacHas, SameRlc
<1>9. Bearers'
  BY <1>1, <1>2, <1>3, <1>4, <1>5, <1>6, <1>7, <1>8, MacBears DEF BearersOf
<1>10. LifeStep
  BY <1>5, Idles DEF SameTables, ByMac, rlcVars
<1>11. QED
  BY <1>9, <1>10

LEMMA DlCcchIndBears ==
    ASSUME Core, Bearers, ByMac, MacProcDlCcchInd
    PROVE  Bearers' /\ LifeStep
<1>1. Request("DL_CCCH") /\ UNCHANGED macUeVars
  BY DEF MacProcDlCcchInd
<1>2. MacQuiet("DL_CCCH")
  BY DlCcchIndKeeps
<1>3. QED
  BY <1>1, <1>2, MacQuietBears

LEMMA MacRachRsrcRelBears ==
    ASSUME Core, Bearers, ByMac, MacProcRachRsrcRel
    PROVE  Bearers' /\ LifeStep
<1>1. Request("RACH_REL") /\ UNCHANGED macUeVars
  BY DEF MacProcRachRsrcRel
<1>2. MacQuiet("RACH_REL")
  BY MacRachRsrcRelKeeps
<1>3. QED
  BY <1>1, <1>2, MacQuietBears

LEMMA MacRachRsrcReqBears ==
    ASSUME Core, Bearers, ByMac, MacProcRachRsrcReq
    PROVE  Bearers' /\ LifeStep
<1>1. PICK i, ok, t :
        /\ i = Head(duToMac).ue /\ t = ReqTok("duToMac", "RACH_REQ") /\ t \in InMac(i) /\ i \in Id
        /\ InMac(i)' \subseteq With(Without(InMac(i), t), Tok("macToDu", "RACH", ok))
        /\ \A j \in Id \ {i} : SameMac(j)
  BY MacRachRsrcReqKeeps DEF MacTold
<1>2. /\ Request("RACH_REQ") /\ UNCHANGED macUeVars
      /\ macUe[i] = "NONE" => UNCHANGED macToDu
  BY <1>1 DEF MacProcRachRsrcReq
<1>3. PICK c \in CuUe, ph \in Phase : HasPhase(c, ph, i) /\ ph # "idle" /\ InPhase(c, ph, i)
  BY <1>1, PhaseOf
<1>4. PICK w : w = cuUe[c].rbs
  OBVIOUS
<1>5. t \in InMac(i) /\ t.ev = "RACH_REQ" /\ t.at = "duToMac"
  BY <1>1, TokFields
<1>6. ph = "handin" /\ Preambles(i)
  BY <1>3, <1>5, MacWho
<1>7. ToSet(duToMac') \subseteq ToSet(duToMac)
  BY <1>2, MacQueue
<1>8. UNCHANGED <<macUe, schUe, macLc, schLc>> /\ UNCHANGED ueCb /\ \A j : SameRlc(j)
  BY <1>2, RlcUnchanged DEF macUeVars, ByMac, duVars
<1>9. Srb1 \in w /\ MacReqs(i, w) /\ MacDone(ph, i, w)
  BY <1>3, <1>4, <1>6, GoneHasNone DEF BearersOf, Gone
<1>10. MacReqs(i, w)'
  BY <1>7, <1>8, <1>9, MacReqsStay DEF NoneNewMac
<1>11. macUe[i] = "NONE" => InMac(i)' = {}
  <2>1. CASE macUe[i] = "NONE"
    <3>1. InMac(i)' = Without(InMac(i), t)
      BY <1>1, <1>2, <2>1, MacTakes
    <3>2. QED
      BY <1>1, <1>6, <3>1 DEF Preambles, One, Without
  <2>2. QED
    BY <2>1
<1>12. MacDone(ph, i, w)'
  BY <1>6, <1>8, <1>9, <1>11 DEF MacDone, MacHas
<1>13. Bearers'
  BY <1>1, <1>3, <1>4, <1>6, <1>7, <1>8, <1>10, <1>12, MacBears
<1>14. LifeStep
  BY <1>8, Idles DEF SameTables, ByMac, rlcVars
<1>15. QED
  BY <1>13, <1>14

\* A request that gives UE i to MAC and SCH.
LEMMA MacUeCreateReqBears ==
    ASSUME Core, Core', Bearers, ByMac, MacProcUeCreateReq
    PROVE  Bearers' /\ LifeStep
<1>1. PICK i, ok, t, n :
        /\ i = Head(duToMac).ue /\ t = ReqTok("duToMac", "CREATE") /\ t \in InMac(i) /\ i \in Id
        /\ n = Tok("macToDu", "CREATE", ok) /\ InMac(i)' \subseteq With(Without(InMac(i), t), n)
        /\ \A j \in Id \ {i} : SameMac(j)
  BY MacUeCreateReqKeeps DEF MacTold
<1>2. PICK r, new : r = Head(duToMac) /\ r.ue = i /\ new \in BOOLEAN
                    /\ new = (macUe[i] # "ACTIVE" /\ ~(macNumActvUe > MaxNumUe))
  BY <1>1
<1>3. /\ Request("CREATE")
      /\ macUe' = IF new THEN [macUe EXCEPT ![i] = IF i \in macRaCb THEN "ACTIVE" ELSE "HANDIN"] ELSE macUe
      /\ macLc' = IF new THEN [macLc EXCEPT ![i] = r.lcs] ELSE macLc
      /\ schUe' = IF schUe[i] = "ACTIVE" THEN schUe
                  ELSE [schUe EXCEPT ![i] = IF i \in schTcrnti THEN "ACTIVE" ELSE "HANDIN"]
      /\ schLc' = IF schUe[i] = "ACTIVE" THEN schLc ELSE [schLc EXCEPT ![i] = r.lcs]
  BY <1>1, <1>2 DEF MacProcUeCreateReq, CreateUeCb
<1>4. PICK c \in CuUe, ph \in Phase : HasPhase(c, ph, i) /\ ph # "idle" /\ InPhase(c, ph, i)
  BY <1>1, PhaseOf
<1>5. PICK w : w = cuUe[c].rbs
  OBVIOUS
<1>6. t \in InMac(i) /\ t.ev = "CREATE" /\ t.at = "duToMac" /\ n.at = "macToDu" /\ n.ev = "CREATE"
  BY <1>1, TokFields
<1>7. ph \in {"connecting", "handin"}
  BY <1>4, <1>6, MacWho
<1>8. r \in ToSet(duToMac) /\ ToSet(duToMac') \subseteq ToSet(duToMac) /\ r.ev = "CREATE"
  BY <1>2, <1>3, MacQueue DEF Request
<1>9. MacReqs(i, w) /\ MacDone(ph, i, w)
  BY <1>4, <1>5, <1>7, GoneHasNone DEF BearersOf, Gone
<1>10. r.lcs = w /\ macUe[i] = "NONE" /\ schUe[i] # "ACTIVE"
  BY <1>2, <1>8, <1>9 DEF MacReqs
<1>11. macUe'[i] # "NONE" => new
  BY <1>3, <1>10
<1>12. /\ schLc'[i] = w /\ macLc'[i] = IF new THEN w ELSE macLc[i]
       /\ \A j \in Id \ {i} : macLc'[j] = macLc[j] /\ schLc'[j] = schLc[j]
  <2>1. macLc \in [Id -> SUBSET Rb] /\ schLc \in [Id -> SUBSET Rb]
    BY CoreParts DEF MacData
  <2>2. QED
    BY <1>1, <1>3, <1>10, <2>1
<1>13. ~(t \in InMac(i)') /\ \A x \in InMac(i)' : x = n \/ x \in InMac(i)
  BY <1>1, <1>6 DEF With, Without
<1>14. MacReqs(i, w)'
  <2>1. ASSUME NEW m \in ToSet(duToMac'), m.ue = i
        PROVE  m.ev # "CREATE" /\ m.ev # "RECONFIG"
    <3>1. ReqTok("duToMac", m.ev) \in InMac(i)'
      BY <2>1, MacMsgsNext
    <3>2. m.ev # "CREATE"
      BY <1>1, <1>13, <3>1
    <3>3. PICK x : x = ReqTok("duToMac", m.ev) /\ x.ev = m.ev
      BY TokFields
    <3>4. m.ev = "RECONFIG" => x \in InMac(i)
      BY <1>6, <1>13, <3>1, <3>3
    <3>5. m.ev # "RECONFIG"
      BY <1>4, <1>7, <3>3, <3>4, MacWho
    <3>6. QED
      BY <3>2, <3>5
  <2>2. QED
    BY <2>1 DEF MacReqs
<1>15. MacDone(ph, i, w)'
  <2>1. ph # "asked" /\ (macUe'[i] # "NONE" => MacHas(i, w)')
    BY <1>7, <1>11, <1>12 DEF MacHas
  <2>2. ph = "handin" => \A x \in InMac(i)' : x.ev # "RACH"
    <3>1. ph = "handin" => \A x \in InMac(i) : x.ev # "RACH"
      BY <1>4, <1>6, <1>7, MacWho DEF InPhase, HandingIn, Creating, Preambles
    <3>2. QED
      BY <1>6, <1>13, <3>1
  <2>3. QED
    BY <2>1, <2>2 DEF MacDone
<1>16. Bearers'
  BY <1>1, <1>4, <1>5, <1>7, <1>8, <1>10, <1>14, <1>15, MacBears
<1>17. TablesGet(i, w)
  BY <1>1, <1>12 DEF TablesGet, ByMac, rlcVars
<1>18. LifeStep
  BY <1>1, <1>4, <1>5, <1>17, Applies DEF ByMac
<1>19. QED
  BY <1>16, <1>18

LEMMA LcsGiven ==
    ASSUME NEW op, NEW lcs, NEW old, NEW w, Gives(op, lcs, old, w)
    PROVE  WithLcs(op, lcs, old) = w
BY DEF Gives, WithLcs

LEMMA MacUeReconfigReqBears ==
    ASSUME Core, Core', Bearers, ByMac, MacProcUeReconfigReq
    PROVE  Bearers' /\ LifeStep
<1>1. PICK i, r, t, ok : /\ i = Head(duToMac).ue /\ r = Head(duToMac) /\ t = ReqTok("duToMac", "RECONFIG")
                         /\ ok = (macUe[i] = "ACTIVE" /\ macNumActvUe <= MaxNumUe)
  OBVIOUS
<1>2. /\ Request("RECONFIG") /\ UNCHANGED <<macUe, schUe>> /\ ok \in BOOLEAN
      /\ \/ /\ schLc' = [schLc EXCEPT ![i] = WithLcs(r.op, r.lcs, @)]
            /\ macLc' = IF ok THEN [macLc EXCEPT ![i] = WithLcs(r.op, r.lcs, @)] ELSE macLc
            /\ ToDu("RECONFIG", i, ok)
         \/ UNCHANGED <<schLc, macLc, macToDu>>
  BY <1>1 DEF MacProcUeReconfigReq
<1>3. i \in Id /\ t \in InMac(i) /\ t.ev = "RECONFIG" /\ t.at = "duToMac" /\ \A j \in Id \ {i} : SameMac(j)
  BY <1>1, MacUeReconfigReqKeeps, TokFields DEF MacTold
<1>4. PICK c \in CuUe, ph \in Phase : HasPhase(c, ph, i) /\ ph # "idle" /\ InPhase(c, ph, i)
  BY <1>3, PhaseOf
<1>5. ph = "asked" /\ Running(i)
  BY <1>3, <1>4, MacWho
<1>6. PICK w, n : w = cuUe[c].rbs /\ n = Tok("macToDu", "RECONFIG", ok)
  OBVIOUS
<1>7. MacReqs(i, w) /\ MacDone(ph, i, w)
  BY <1>4, <1>5, <1>6, GoneHasNone DEF BearersOf, Gone
<1>8. r \in ToSet(duToMac) /\ ToSet(duToMac') \subseteq ToSet(duToMac) /\ r.ev = "RECONFIG"
  BY <1>1, <1>2, MacQueue DEF Request
<1>9. /\ WithLcs(r.op, r.lcs, macLc[i]) = w /\ WithLcs(r.op, r.lcs, schLc[i]) = w
  BY <1>1, <1>7, <1>8, LcsGiven DEF MacReqs, MacGives
<1>10. \A x \in InMac(i) : x.ev = "RECONFIG" => x = t
  BY <1>3, <1>5 DEF Running, OnePerEv
<1>11. n.at = "macToDu" /\ n.ev = "RECONFIG" /\ n.ok = ok
  BY <1>6, TokFields
<1>12. \A x \in InMac(i)' : x # t /\ (x = n \/ x \in InMac(i))
  <2>1. CASE ToDu("RECONFIG", i, ok)
    <3>1. \A x \in InMac(i) : x.at = "macToDu" => x.ev # "RECONFIG"
      BY <1>3, <1>10
    <3>2. InMac(i)' = With(Without(InMac(i), t), n)
      BY <1>1, <1>2, <1>6, <2>1, <3>1, MacAnswers
    <3>3. QED
      BY <1>3, <1>11, <3>2 DEF With, Without
  <2>2. CASE UNCHANGED macToDu
    <3>1. InMac(i)' = Without(InMac(i), t)
      BY <1>1, <1>2, <2>2, MacTakes
    <3>2. QED
      BY <3>1 DEF Without
  <2>3. QED
    BY <1>2, <2>1, <2>2
<1>13. /\ \A j \in Id \ {i} : macLc'[j] = macLc[j] /\ schLc'[j] = schLc[j]
       /\ macLc'[i] \in {macLc[i], w} /\ schLc'[i] \in {schLc[i], w}
       /\ ok /\ ~UNCHANGED macToDu => macLc'[i] = w /\ schLc'[i] = w
  <2>1. macLc \in [Id -> SUBSET Rb] /\ schLc \in [Id -> SUBSET Rb]
    BY CoreParts DEF MacData
  <2>2. QED
    BY <1>2, <1>3, <1>9, <2>1
<1>14. MacReqs(i, w)'
  <2>1. ASSUME NEW m \in ToSet(duToMac'), m.ue = i
        PROVE  m.ev # "CREATE" /\ m.ev # "RECONFIG"
    <3>1. PICK x : x = ReqTok("duToMac", m.ev) /\ x.ev = m.ev /\ x.at = "duToMac"
      BY TokFields
    <3>2. x \in InMac(i)'
      BY <2>1, <3>1, MacMsgsNext
    <3>3. x \in InMac(i) /\ x # t
      BY <1>11, <1>12, <3>1, <3>2
    <3>4. QED
      BY <1>5, <1>10, <3>1, <3>3 DEF Running
  <2>2. QED
    BY <2>1 DEF MacReqs
<1>15. (\E x \in InMac(i)' : x.ev = "RECONFIG" /\ x.at = "macToDu" /\ x.ok) => MacHas(i, w)'
  <2>1. ASSUME NEW x \in InMac(i)', x.ev = "RECONFIG", x.ok
        PROVE  MacHas(i, w)'
    <3>1. x = n
      BY <1>10, <1>12, <2>1
    <3>2. ok
      BY <1>11, <2>1, <3>1
    <3>3. ~UNCHANGED macToDu
      <4>1. CASE UNCHANGED macToDu
        <5>1. InMac(i)' = Without(InMac(i), t)
          BY <1>1, <1>2, <4>1, MacTakes
        <5>2. QED
          BY <1>10, <2>1, <5>1 DEF Without
      <4>2. QED
        BY <4>1
    <3>4. QED
      BY <1>13, <3>2, <3>3 DEF MacHas
  <2>2. QED
    BY <2>1
<1>16. ueCb'[i].mac # "RECFG_COMPLETE"
  <2>1. ueCb' = ueCb
    BY DEF ByMac, duVars
  <2>2. QED
    BY <1>3, <1>5, <2>1 DEF Running
<1>17. MacDone(ph, i, w)'
  BY <1>5, <1>15, <1>16 DEF MacDone
<1>18. Bearers'
  BY <1>2, <1>3, <1>4, <1>5, <1>6, <1>8, <1>14, <1>17, MacBears
<1>19. TablesGet(i, w)
  BY <1>13 DEF TablesGet, ByMac, rlcVars
<1>20. LifeStep
  BY <1>3, <1>4, <1>6, <1>19, Applies DEF ByMac
<1>21. QED
  BY <1>18, <1>20

LEMMA MacUeDeleteReqBears ==
    ASSUME Core, Core', Bearers, ByMac, MacProcUeDeleteReq
    PROVE  Bearers' /\ LifeStep
<1>1. PICK i, t : /\ i = Head(duToMac).ue /\ t = ReqTok("duToMac", "DELETE") /\ t \in InMac(i) /\ i \in Id
                  /\ \A j \in Id \ {i} : SameMac(j)
  BY MacUeDeleteReqKeeps DEF MacTold
<1>2. /\ Request("DELETE")
      /\ schLc' = schLc \/ schLc' = [schLc EXCEPT ![i] = {}]
      /\ macLc' = macLc \/ macLc' = [macLc EXCEPT ![i] = {}]
  BY <1>1 DEF MacProcUeDeleteReq, macUeVars
<1>3. t \in InMac(i) /\ t.ev = "DELETE" /\ t.at = "duToMac"
  BY <1>1, TokFields
<1>4. PICK c \in CuUe, ph \in Phase : HasPhase(c, ph, i) /\ ph # "idle" /\ InPhase(c, ph, i)
  BY <1>1, PhaseOf
<1>5. ph = "releasing" /\ ph \in Gone
  BY <1>3, <1>4, MacWho DEF Gone
<1>6. PICK w : w = cuUe[c].rbs /\ w = {}
  BY <1>4, <1>5, GoneHasNone
<1>7. ToSet(duToMac') \subseteq ToSet(duToMac)
  BY <1>2, MacQueue
<1>8. Bearers'
  BY <1>1, <1>4, <1>5, <1>6, <1>7, MacBears
<1>9. TablesGet(i, w)
  <2>1. macLc \in [Id -> SUBSET Rb] /\ schLc \in [Id -> SUBSET Rb]
    BY CoreParts DEF MacData
  <2>2. QED
    BY <1>1, <1>2, <1>6, <2>1 DEF TablesGet, ByMac, rlcVars
<1>10. LifeStep
  BY <1>1, <1>4, <1>6, <1>9, Applies DEF ByMac
<1>11. QED
  BY <1>8, <1>10

LEMMA BearersStay ==
    ASSUME Bearers, UNCHANGED <<cuUe, ueCb, rlcVars, duToRlcDl, duToMac, macToDu, macUeVars>>
    PROVE  Bearers' /\ LifeStep
<1>1. UNCHANGED <<cuUe, ueCb, duToRlc, udxReq, udxCfm, rlcUlRb, rlcDlRb, duToMac, macUe, schUe, macLc, schLc>>
  BY DEF rlcVars, macUeVars
<1>2. \A i : InRlc(i)' = InRlc(i) /\ InMac(i)' = InMac(i)
  BY RlcUnchanged DEF InMac, SameRlc
<1>3. ASSUME NEW c \in CuUe, NEW ph, NEW i, NEW w, BearersOf(c, ph, i, w)
      PROVE  BearersOf(c, ph, i, w)'
  <2>1. RlcReqs(i, w) => RlcReqs(i, w)'
    BY <1>1 DEF RlcReqs, RlcGives
  <2>2. MacReqs(i, w) => MacReqs(i, w)'
    BY <1>1 DEF MacReqs, MacGives
  <2>3. (RlcDone(i, w) => RlcDone(i, w)') /\ (MacDone(ph, i, w) => MacDone(ph, i, w)')
    BY <1>1, <1>2 DEF RlcDone, RlcHas, MacDone, MacHas
  <2>4. RrcFirst(i, w) => RrcFirst(i, w)'
    BY <1>1 DEF RrcFirst, RlcGives, MacGives
  <2>5. QED
    BY <1>1, <1>2, <1>3, <2>1, <2>2, <2>3, <2>4 DEF BearersOf
<1>4. ASSUME NEW c \in CuUe
      PROVE  BearersOf(c, cuUe[c].ph, cuUe[c].id, cuUe[c].rbs)'
  <2>1. PICK ph, i, w : ph = cuUe[c].ph /\ i = cuUe[c].id /\ w = cuUe[c].rbs
    OBVIOUS
  <2>2. BearersOf(c, ph, i, w)'
    BY <1>3, <2>1 DEF Bearers
  <2>3. QED
    BY <1>1, <2>1, <2>2
<1>5. Bearers'
  BY <1>4 DEF Bearers
<1>6. LifeStep
  BY <1>1, Idles DEF SameTables
<1>7. QED
  BY <1>5, <1>6

LEMMA Msg4Bears ==
    ASSUME Bearers, NEW i \in Id, UeMsg4(i)
    PROVE  Bearers' /\ LifeStep
<1>1. UNCHANGED <<cuUe, ueCb, rlcVars, duToRlcDl, duToMac, macToDu, macUeVars>>
  BY DEF UeMsg4, Msg4Acked, ByMac, duVars
<1>2. QED
  BY <1>1, BearersStay

-----------------------------------------------------------------------------
(* The DU application.                                                       *)

\* What is under way about UE j is not more than before.
NoneSent(j) == NoneNewMac(j) /\ \A m \in ToSet(duToRlc') : m.ue = j => m \in ToSet(duToRlc)

LEMMA DuBears ==
    ASSUME Core, Bearers, UNCHANGED <<rlcOwnVars, macOwnVars>>,
           NEW c \in CuUe, NEW i \in Id, NEW ph, HasPhase(c, ph, i),
           \A j \in Id \ {i} : InMac(j)' = InMac(j) /\ InRlc(j)' = InRlc(j),
           \A j \in Id \ {i} : ueCb'[j] = ueCb[j] /\ NoneSent(j),
           NEW x, NEW e, NEW w, CuGets(c, e, x, w), BearersOf(c, x, e, w)'
    PROVE  Bearers'
<1>1. \A j \in Id \ {i} : Same(j)
  BY OwnKept, SameMacIs DEF Same, SameRlc, SameRlcOwn
<1>2. \A j \in Id \ {i} : Quiet(j)
  BY <1>1 DEF Quiet, NoneNewRlc, NoneSent, rlcOwnVars
<1>3. \A d \in CuUe : cuUe[d].id = i => d = c
  BY OwnerIs
<1>4. QED
  BY <1>2, <1>3, BearsAt

LEMMA SameTablesOwn == UNCHANGED <<rlcOwnVars, macOwnVars>> => SameTables /\ UNCHANGED <<macUe, schUe>>
BY DEF rlcOwnVars, macOwnVars, macUeVars, SameTables

\* A step of the DU application that changes nothing of where the bearers are.
LEMMA BearersHold ==
    ASSUME UNCHANGED <<rlcOwnVars, macOwnVars>>, NEW c, NEW ph, NEW i, NEW w, BearersOf(c, ph, i, w),
           \A m \in ToSet(duToRlc') : m.ue = i => m \in ToSet(duToRlc),
           \A m \in ToSet(duToMac') : m.ue = i /\ m.ev \in {"CREATE", "RECONFIG"} => m \in ToSet(duToMac),
           ph \notin Gone => RlcDone(i, w)',
           \A t : t.ev = "DL_RRC" => (t \in InRlc(i)' <=> t \in InRlc(i)),
           \A t \in InMac(i)' : t \in InMac(i) \/ t.ev = "RACH_REQ",
           ueCb'[i].db = ueCb[i].db,
           ph = "asked" /\ ueCb'[i].mac = "RECFG_COMPLETE" =>
                ueCb[i].mac = "RECFG_COMPLETE" \/ MacHas(i, w)
    PROVE  BearersOf(c, ph, i, w)'
<1>1. UNCHANGED <<udxReq, udxCfm, rlcUlRb, rlcDlRb, macUe, schUe, macLc, schLc>>
  BY DEF rlcOwnVars, macOwnVars, macUeVars
<1>2. RlcReqs(i, w) => RlcReqs(i, w)'
  BY <1>1 DEF RlcReqs, RlcGives
<1>3. MacReqs(i, w) => MacReqs(i, w)'
  BY <1>1 DEF MacReqs, MacGives
<1>4. MacDone(ph, i, w) => MacDone(ph, i, w)'
  BY <1>1 DEF MacDone, MacHas
<1>5. RrcFirst(i, w) => RrcFirst(i, w)'
  BY <1>1 DEF RrcFirst, RlcGives, MacGives
<1>6. QED
  BY <1>1, <1>2, <1>3, <1>4, <1>5 DEF BearersOf

\* A UE moves on to a phase in which nothing is asked of it that is not done.
LEMMA BearersMove ==
    ASSUME UNCHANGED <<udxReq, udxCfm, rlcUlRb, rlcDlRb, macUe, macLc, schLc>>,
           NEW c, NEW ph, NEW i, NEW w, BearersOf(c, ph, i, w), ph \notin Gone,
           NEW x, x \notin Gone, x \notin {"asked", "handin"},
           \A m \in ToSet(duToRlc') : m.ue = i => m \in ToSet(duToRlc),
           MacReqs(i, w)', RlcDone(i, w)', macUe[i] # "NONE" => MacHas(i, w),
           x \in {"connecting", "completing", "connected"} /\ c \in Access => w = {Srb1},
           x \in {"completing", "connected", "ready"} /\ c \in Access => macUe[i] # "NONE"
    PROVE  BearersOf(c, x, i, w)'
<1>1. Srb1 \in w /\ RlcReqs(i, w)
  BY DEF BearersOf
<1>2. RlcReqs(i, w)'
  BY <1>1 DEF RlcReqs, RlcGives
<1>3. MacDone(x, i, w)'
  BY DEF MacDone, MacHas
<1>4. QED
  BY <1>1, <1>2, <1>3 DEF BearersOf

LEMMA CuPhGets ==
    ASSUME Core, NEW c \in CuUe, NEW ph, NEW i, HasPhase(c, ph, i), NEW x \in Phase,
           cuUe' = [cuUe EXCEPT ![c].ph = x]
    PROVE  CuGets(c, i, x, cuUe[c].rbs)
BY CuPh, CoreParts DEF CuGets, DuTypes

\* The CU's view of UE c becomes v.
LEMMA CuTurns ==
    ASSUME Core, NEW c \in CuUe, NEW v \in CuCb, cuUe' = [d \in CuUe |-> cuUe'[d]],
           cuUe'[c] = v, \A d \in CuUe \ {c} : cuUe'[d] = cuUe[d]
    PROVE  CuGets(c, v.id, v.ph, v.rbs)
<1>1. cuUe \in [CuUe -> CuCb]
  BY CoreParts DEF DuTypes, CuCb
<1>2. \A d \in CuUe : cuUe'[d] \in CuCb
  BY <1>1
<1>3. QED
  BY <1>2 DEF CuGets, CuMoves

LEMMA UlCcchIndBears ==
    ASSUME Core, Core', Bearers, DuProcUlCcchInd
    PROVE  Bearers' /\ LifeStep
<1>1. PICK i, t : i = Head(macToDu).ue /\ t = Tok("macToDu", "UL_CCCH", Ok(First(macToDu)))
  BY Zenon
<1>2. /\ FromMac("UL_CCCH") /\ UNCHANGED <<ueCb, duToRlc, duToMac, duToRlcDl, rlcToDu>>
      /\ UNCHANGED <<rlcOwnVars, macOwnVars>>
      /\ cuUe' = [d \in CuUe |-> IF cuUe[d].ph = "access" /\ cuUe[d].id = i
                                 THEN [cuUe[d] EXCEPT !.ph = "initial"] ELSE cuUe[d]]
  BY <1>1 DEF DuProcUlCcchInd, FromMac
<1>3. i \in Id /\ t \in InMac(i) /\ t.at = "macToDu" /\ t.ev = "UL_CCCH"
  BY <1>1, <1>2, DuHasMac
<1>4. PICK c \in CuUe, ph \in Phase : HasPhase(c, ph, i) /\ ph # "idle" /\ InPhase(c, ph, i)
  BY <1>1, <1>2, DuHasMac
<1>5. ph = "access"
  BY <1>3, <1>4, MacWho
<1>6. PICK v : v = [cuUe[c] EXCEPT !.ph = "initial"]
  OBVIOUS
<1>7. cuUe[c].rbs = {} /\ \A d \in CuUe : cuUe[d].id = i => d = c
  BY <1>3, <1>4, <1>5, GoneHasNone, OwnerIs DEF Gone
<1>8. v \in CuCb /\ v.id = i /\ v.ph = "initial" /\ v.rbs = {}
  BY <1>4, <1>6, <1>7, CoreParts DEF DuTypes, CuCb, Phase, HasPhase
<1>9. CuGets(c, i, "initial", {})
  <2>1. cuUe[c].ph = "access" /\ cuUe[c].id = i
    BY <1>4, <1>5 DEF HasPhase
  <2>2. cuUe'[c] = v /\ \A d \in CuUe \ {c} : cuUe'[d] = cuUe[d]
    BY <1>2, <1>6, <1>7, <2>1
  <2>3. cuUe' = [d \in CuUe |-> cuUe'[d]]
    BY <1>2
  <2>4. QED
    BY <1>8, <2>2, <2>3, CuTurns
<1>10. (\A j : InRlc(j)' = InRlc(j)) /\ \A j : j # i => InMac(j)' = InMac(j)
  BY <1>1, <1>2, DuTakesMac, RlcUnchanged DEF rlcVars, rlcOwnVars, SameRlc
<1>11. BearersOf(c, "initial", i, {})'
  BY BearersOfGone DEF Gone
<1>12. Bearers'
  BY <1>2, <1>3, <1>4, <1>9, <1>10, <1>11, DuBears DEF NoneSent, NoneNewMac
<1>13. PhIn(c, "initial") = PhIn(c, ph)
  BY <1>5 DEF PhIn, Out
<1>14. LifeStep
  BY <1>2, <1>3, <1>4, <1>7, <1>9, <1>13, MovesOn, SameTablesOwn
<1>15. QED
  BY <1>12, <1>14

\* A layer hears of all the bearers when none is to be deleted.
LEMMA ConveyedAll ==
    ASSUME NEW i, NEW db, CfgOp(db) # "DEL"
    PROVE  Conveyed(i, db) = db.rbs
BY DEF Conveyed, CfgOp

\* What the DU application sends.
LEMMA SentToMac ==
    ASSUME Core, NEW ev \in {"DL_CCCH", "CREATE", "RECONFIG", "DELETE", "RACH_REQ", "RACH_REL"},
           NEW i \in Id, NEW db \in Db, SendToMac(ev, i, db)
    PROVE  \E m \in DuToMac : /\ ToSet(duToMac') = ToSet(duToMac) \union {m}
                              /\ m.ue = i /\ m.ev = ev /\ m.op = CfgOp(db)
                              /\ CfgOp(db) # "DEL" => m.lcs = db.rbs
<1>1. PICK m : m = MacReq(ev, i, db)
  OBVIOUS
<1>2. /\ m \in DuToMac /\ m.ue = i /\ m.ev = ev /\ m.op = CfgOp(db)
      /\ CfgOp(db) # "DEL" => m.lcs = db.rbs
  BY <1>1, CfgOpType, ConveyedType, ConveyedAll DEF MacReq, DuToMac, Db
<1>3. duToMac' = Put(duToMac, m) /\ duToMac \in Seq(DuToMac)
  BY <1>1, CoreParts DEF SendToMac, MacQ, Put
<1>4. ToSet(duToMac') = ToSet(duToMac) \union {m}
  BY <1>2, <1>3, PutIn
<1>5. QED
  BY <1>2, <1>4

LEMMA SentToRlc ==
    ASSUME Core, NEW ev \in {"CREATE", "RECONFIG", "DELETE"}, NEW i \in Id, NEW db \in Db,
           SendToRlc(ev, i, db)
    PROVE  \E m \in RlcReq : /\ ToSet(duToRlc') = ToSet(duToRlc) \union {m}
                             /\ m.ue = i /\ m.ev = ev /\ m.op = CfgOp(db)
                             /\ CfgOp(db) # "DEL" => m.rbs = db.rbs
<1>1. PICK m : m = [ev |-> ev, ue |-> i, op |-> CfgOp(db), rbs |-> Conveyed(i, db)]
  OBVIOUS
<1>2. /\ m \in RlcReq /\ m.ue = i /\ m.ev = ev /\ m.op = CfgOp(db)
      /\ CfgOp(db) # "DEL" => m.rbs = db.rbs
  BY <1>1, CfgOpType, ConveyedType, ConveyedAll DEF RlcReq, RlcEvent, RlcOp, Db
<1>3. duToRlc' = Put(duToRlc, m) /\ duToRlc \in Seq(RlcReq)
  BY <1>1, CoreParts DEF SendToRlc, RlcQ, Put
<1>4. ToSet(duToRlc') = ToSet(duToRlc) \union {m}
  BY <1>2, <1>3, PutIn
<1>5. QED
  BY <1>2, <1>4

LEMMA MacUeCreateRspBears ==
    ASSUME Core, Bearers, DuProcMacUeCreateRsp
    PROVE  Bearers' /\ LifeStep
<1>1. PICK i, t, u : /\ i = Head(macToDu).ue /\ t = Tok("macToDu", "CREATE", Ok(First(macToDu)))
                     /\ u = [ueCb[i] EXCEPT !.mac = "CREATE_COMPLETE"]
  BY Zenon
<1>2. /\ FromMac("CREATE") /\ (CreateDone(i, u) \/ NoChange)
      /\ UNCHANGED <<rlcOwnVars, macOwnVars, rlcToDu, duToRlcDl>>
  BY <1>1 DEF DuProcMacUeCreateRsp, FromMac
<1>3. UNCHANGED <<duToRlc, cuUe>>
  BY <1>2 DEF CreateDone, NoChange
<1>4. i \in Id /\ t \in InMac(i) /\ t.at = "macToDu" /\ t.ev = "CREATE"
  BY <1>1, <1>2, DuHasMac
<1>5. PICK c \in CuUe, ph \in Phase : HasPhase(c, ph, i) /\ ph # "idle" /\ InPhase(c, ph, i)
  BY <1>1, <1>2, DuHasMac
<1>6. PICK w : w = cuUe[c].rbs
  OBVIOUS
<1>7. BearersOf(c, ph, i, w) /\ CuGets(c, i, ph, w)
  BY <1>3, <1>5, <1>6, GoneHasNone, CuGetsSame
<1>8. \A j : InRlc(j)' = InRlc(j)
  BY <1>2, <1>3, RlcUnchanged DEF rlcVars, rlcOwnVars, SameRlc
<1>9. ueCb[i] \in UeCb
  BY <1>4, CoreParts DEF DuTypes
<1>10. /\ \A j \in Id \ {i} : ueCb'[j] = ueCb[j] /\ NoneSent(j)
       /\ \A j \in Id \ {i} : InMac(j)' = InMac(j)
       /\ \A m \in ToSet(duToMac') : m.ue = i /\ m.ev \in {"CREATE", "RECONFIG"} => m \in ToSet(duToMac)
       /\ \A x \in InMac(i)' : x \in InMac(i) \/ x.ev = "RACH_REQ"
       /\ ueCb'[i].db = ueCb[i].db /\ ueCb'[i].mac \in {"CREATE_COMPLETE", ueCb[i].mac}
  <2>1. ueCb' = ueCb \/ ueCb' = [ueCb EXCEPT ![i] = u]
    BY <1>2 DEF CreateDone, NoChange
  <2>2. u.db = ueCb[i].db /\ u.mac = "CREATE_COMPLETE"
    BY <1>1, <1>9 DEF UeCb
  <2>3. ueCb \in [Id -> UeCb]
    BY CoreParts DEF DuTypes
  <2>4. /\ \A j \in Id \ {i} : ueCb'[j] = ueCb[j]
        /\ ueCb'[i].db = ueCb[i].db /\ ueCb'[i].mac \in {"CREATE_COMPLETE", ueCb[i].mac}
    BY <1>4, <2>1, <2>2, <2>3
  <2>5. CASE UNCHANGED duToMac
    <3>1. InMac(i)' = Without(InMac(i), t) /\ \A j : j # i => InMac(j)' = InMac(j)
      BY <1>1, <1>2, <2>5, DuTakesMac
    <3>2. QED
      BY <1>3, <2>4, <2>5, <3>1 DEF NoneSent, NoneNewMac, Without
  <2>6. CASE SendToMac("RACH_REQ", i, NoDb)
    <3>1. \A x \in InMac(i) : x.ev # "RACH_REQ"
      <4>1. ph # "handin" \/ Creating(i)
        BY <1>4, <1>5, MacWho
      <4>2. QED
        BY <1>5, <4>1, MacWho DEF Creating
    <3>2. PICK n : n = ReqTok("duToMac", "RACH_REQ")
      OBVIOUS
    <3>3. /\ InMac(i)' = With(Without(InMac(i), t), n)
          /\ \A j : j # i => InMac(j)' = InMac(j)
      BY <1>1, <1>2, <2>6, <3>1, <3>2, NoDbType, DuTakesMacAsks
    <3>4. PICK m : m.ue = i /\ m.ev = "RACH_REQ" /\ ToSet(duToMac') = ToSet(duToMac) \union {m}
      BY <1>4, <2>6, NoDbType, SentToMac
    <3>5. n.ev = "RACH_REQ"
      BY <3>2, TokFields
    <3>6. QED
      BY <1>3, <2>4, <3>3, <3>4, <3>5 DEF NoneSent, NoneNewMac, With, Without
  <2>7. UNCHANGED duToMac \/ SendToMac("RACH_REQ", i, NoDb)
    BY <1>2 DEF CreateDone, NoChange
  <2>8. QED
    BY <2>5, <2>6, <2>7
<1>11. BearersOf(c, ph, i, w)'
  <2>1. ph \notin Gone => RlcDone(i, w)'
    BY <1>2, <1>7, <1>8 DEF BearersOf, RlcDone, RlcHas, rlcOwnVars
  <2>2. \A m \in ToSet(duToRlc') : m.ue = i => m \in ToSet(duToRlc)
    BY <1>3
  <2>3. QED
    BY <1>2, <1>7, <1>8, <1>10, <2>1, <2>2, BearersHold
<1>12. Bearers'
  BY <1>2, <1>4, <1>5, <1>7, <1>8, <1>10, <1>11, DuBears
<1>13. LifeStep
  BY <1>2, <1>3, Idles, SameTablesOwn
<1>14. QED
  BY <1>12, <1>13

\* A response to a reconfiguration; with the last one the CU is answered.
LEMMA RecfgDoneBears ==
    ASSUME Core, Core', Bearers, UNCHANGED <<rlcOwnVars, macOwnVars>>,
           NEW c \in CuUe, NEW i \in Id, HasPhase(c, "asked", i), InPhase(c, "asked", i), Running(i),
           NEW u \in UeCb, u.cu = ueCb[i].cu, u.db = ueCb[i].db, RecfgDone(i, u),
           InRlc(i)' \subseteq InRlc(i), InMac(i)' \subseteq InMac(i),
           \A j \in Id \ {i} : InMac(j)' = InMac(j) /\ InRlc(j)' = InRlc(j),
           NEW w, w = cuUe[c].rbs, u.mac = "RECFG_COMPLETE" => MacHas(i, w),
           u.rlc = "RECFG_COMPLETE" => InRlc(i)' = {}, RlcDone(i, w)'
    PROVE  Bearers' /\ LifeStep
<1>1. Asked(i) /\ c \in Access /\ u.cu = c
  BY DEF InPhase
<1>2. BearersOf(c, "asked", i, w)
  BY GoneHasNone
<1>3. u.db.act \in {"SETUP", "MOD"}
  BY <1>1 DEF Asked
<1>4. UNCHANGED <<duToRlc, duToMac>>
  BY DEF RecfgDone
<1>5. \A j \in Id : NoneSent(j)
  BY <1>4 DEF NoneSent, NoneNewMac
<1>6. SameTables /\ UNCHANGED <<macUe, schUe>>
  BY SameTablesOwn
<1>7. CASE u.mac = "RECFG_COMPLETE" /\ u.rlc = "RECFG_COMPLETE"
  <2>1. PICK v : v = [u EXCEPT !.db = NoDb]
    OBVIOUS
  <2>2. v \in UeCb
    BY <2>1, NoDbType DEF UeCb
  <2>3. /\ ueCb' = [ueCb EXCEPT ![i] = v]
        /\ cuUe' = [cuUe EXCEPT ![c].ph = IF @ = "handin" THEN "arriving" ELSE "ready"]
    BY <1>1, <1>3, <1>7, <2>1 DEF RecfgDone, CtxtRsp
  <2>4. \A j \in Id \ {i} : ueCb'[j] = ueCb[j]
    BY <2>2, <2>3, SetUeCb
  <2>5. CuGets(c, i, "ready", w)
    <3>1. cuUe' = [cuUe EXCEPT ![c].ph = "ready"]
      BY <2>3, CoreParts DEF HasPhase, DuTypes
    <3>2. "ready" \in Phase
      BY DEF Phase
    <3>3. QED
      BY <3>1, <3>2, CuPhGets
  <2>6. MacHas(i, w) /\ RlcHas(i, w) /\ Srb1 \in w /\ macUe[i] # "NONE" /\ MacReqs(i, w)
    <3>1. Srb1 \in w /\ macUe[i] # "NONE" /\ MacReqs(i, w)
      BY <1>1, <1>2 DEF BearersOf, Gone
    <3>2. RlcHas(i, w)'
      BY <1>7 DEF RlcDone
    <3>3. RlcHas(i, w)
      BY <1>6, <3>2 DEF RlcHas, SameTables
    <3>4. QED
      BY <1>7, <3>1, <3>3
  <2>7. MacReqs(i, w)'
    BY <1>4, <1>6, <2>6, MacReqsStay DEF NoneNewMac, SameTables
  <2>8. BearersOf(c, "ready", i, w)'
    BY <1>2, <1>4, <1>6, <2>6, <2>7, BearersMove DEF Gone, SameTables, rlcOwnVars
  <2>9. Bearers'
    BY <1>5, <2>4, <2>5, <2>8, DuBears
  <2>10. w # {} /\ PhIn(c, "asked") = "asked" /\ PhIn(c, "ready") = "in"
    BY <2>6 DEF PhIn, Out
  <2>11. LifeStep
    BY <1>6, <2>5, <2>6, <2>10, Answers
  <2>12. QED
    BY <2>9, <2>11
<1>8. CASE ~(u.mac = "RECFG_COMPLETE" /\ u.rlc = "RECFG_COMPLETE")
  <2>1. ueCb' = [ueCb EXCEPT ![i] = u] /\ UNCHANGED cuUe
    BY <1>8 DEF RecfgDone
  <2>2. ueCb'[i] = u /\ \A j \in Id \ {i} : ueCb'[j] = ueCb[j]
    BY <2>1, SetUeCb
  <2>3. \A t \in InRlc(i) : t.ev # "DL_RRC"
    BY DEF Running
  <2>4. BearersOf(c, "asked", i, w)'
    BY <1>2, <1>4, <2>2, <2>3, BearersHold
  <2>5. CuGets(c, i, "asked", w)
    BY <2>1, CuGetsSame
  <2>6. Bearers'
    BY <1>5, <2>2, <2>4, <2>5, DuBears
  <2>7. LifeStep
    BY <1>6, <2>1, Idles
  <2>8. QED
    BY <2>6, <2>7
<1>9. QED
  BY <1>7, <1>8

LEMMA MacUeRecfgRspBears ==
    ASSUME Core, Core', Bearers, DuProcMacUeRecfgRsp
    PROVE  Bearers' /\ LifeStep
<1>1. PICK i, t, u : /\ i = Head(macToDu).ue /\ t = Tok("macToDu", "RECONFIG", Ok(First(macToDu)))
                     /\ u = [ueCb[i] EXCEPT !.mac = "RECFG_COMPLETE"]
  BY Zenon
<1>2. /\ FromMac("RECONFIG") /\ ((RecfgDone(i, u) /\ Ok(First(macToDu))) \/ NoChange)
      /\ UNCHANGED <<rlcOwnVars, macOwnVars, rlcToDu, duToRlcDl>>
  BY <1>1 DEF DuProcMacUeRecfgRsp, FromMac, Ok, First
<1>3. i \in Id /\ t \in InMac(i) /\ t.at = "macToDu" /\ t.ev = "RECONFIG" /\ t.ok = Ok(First(macToDu))
  BY <1>1, <1>2, DuHasMac, TokFields
<1>4. PICK c \in CuUe, ph \in Phase : HasPhase(c, ph, i) /\ ph # "idle" /\ InPhase(c, ph, i)
  BY <1>1, <1>2, DuHasMac
<1>5. ph = "asked" /\ Running(i)
  BY <1>3, <1>4, MacWho
<1>6. UNCHANGED <<duToRlc, duToMac>>
  BY <1>2 DEF RecfgDone, NoChange
<1>7. /\ InMac(i)' \subseteq InMac(i) /\ \A j : j # i => InMac(j)' = InMac(j)
  BY <1>1, <1>2, <1>6, DuTakesMac DEF Without
<1>8. \A j : InRlc(j)' = InRlc(j)
  BY <1>2, <1>6, RlcUnchanged DEF rlcVars, rlcOwnVars, SameRlc
<1>9. PICK w : w = cuUe[c].rbs
  OBVIOUS
<1>10. BearersOf(c, ph, i, w)
  BY <1>4, <1>9, GoneHasNone
<1>11. RlcDone(i, w)'
  BY <1>2, <1>5, <1>8, <1>10 DEF BearersOf, Gone, RlcDone, RlcHas, rlcOwnVars
<1>12. CASE RecfgDone(i, u) /\ Ok(First(macToDu))
  <2>1. ueCb[i] \in UeCb
    BY <1>3, CoreParts DEF DuTypes
  <2>2. u \in UeCb /\ u.cu = ueCb[i].cu /\ u.db = ueCb[i].db /\ u.rlc = ueCb[i].rlc
    BY <1>1, <2>1 DEF UeCb, CfgState
  <2>3. u.rlc = "RECFG_COMPLETE" => InRlc(i)' = {}
    BY <1>5, <1>8, <2>2 DEF Running
  <2>4. MacHas(i, w)
    <3>1. MacDone(ph, i, w)
      BY <1>5, <1>10 DEF BearersOf, Gone
    <3>2. QED
      BY <1>3, <1>5, <1>12, <3>1 DEF MacDone
  <2>5. HasPhase(c, "asked", i) /\ InPhase(c, "asked", i)
    BY <1>4, <1>5
  <2>6. QED
    BY <1>2, <1>3, <1>5, <1>7, <1>8, <1>9, <1>11, <1>12, <2>2, <2>3, <2>4, <2>5, RecfgDoneBears
<1>13. CASE NoChange
  <2>1. UNCHANGED <<ueCb, cuUe>>
    BY <1>13 DEF NoChange
  <2>2. BearersOf(c, ph, i, w)'
    BY <1>2, <1>6, <1>7, <1>8, <1>10, <1>11, <2>1, BearersHold
  <2>3. CuGets(c, i, ph, w)
    BY <1>4, <1>9, <2>1, CuGetsSame
  <2>4. Bearers'
    BY <1>2, <1>3, <1>4, <1>6, <1>7, <1>8, <2>1, <2>2, <2>3, DuBears DEF NoneSent, NoneNewMac
  <2>5. LifeStep
    BY <1>2, <2>1, Idles, SameTablesOwn
  <2>6. QED
    BY <2>4, <2>5
<1>14. QED
  BY <1>2, <1>12, <1>13

LEMMA MacRachRsrcRspBears ==
    ASSUME Core, Core', Bearers, DuProcMacRachRsrcRsp
    PROVE  Bearers' /\ LifeStep
<1>1. PICK i, t, u : /\ i = Head(macToDu).ue /\ t = Tok("macToDu", "RACH", Ok(First(macToDu)))
                     /\ u = ueCb[i]
  BY Zenon
<1>2. /\ FromMac("RACH") /\ (CtxtRsp(i, u) \/ NoChange) /\ UNCHANGED <<duToRlc, duToMac>>
      /\ UNCHANGED <<rlcOwnVars, macOwnVars, rlcToDu, duToRlcDl>>
  BY <1>1 DEF DuProcMacRachRsrcRsp, FromMac, NoChange
<1>3. i \in Id /\ t \in InMac(i) /\ t.at = "macToDu" /\ t.ev = "RACH"
  BY <1>1, <1>2, DuHasMac
<1>4. PICK c \in CuUe, ph \in Phase : HasPhase(c, ph, i) /\ ph # "idle" /\ InPhase(c, ph, i)
  BY <1>1, <1>2, DuHasMac
<1>5. ph = "handin" /\ Preambles(i)
  BY <1>3, <1>4, MacWho
<1>6. /\ InMac(i)' \subseteq InMac(i) /\ \A j : j # i => InMac(j)' = InMac(j)
  BY <1>1, <1>2, DuTakesMac DEF Without
<1>7. \A j : InRlc(j)' = InRlc(j)
  BY <1>2, RlcUnchanged DEF rlcVars, rlcOwnVars, SameRlc
<1>8. \A j \in Id : NoneSent(j)
  BY <1>2 DEF NoneSent, NoneNewMac
<1>9. PICK w : w = cuUe[c].rbs
  OBVIOUS
<1>10. BearersOf(c, ph, i, w)
  BY <1>4, <1>9, GoneHasNone
<1>11. /\ Srb1 \in w /\ RlcDone(i, w)' /\ RlcHas(i, w) /\ MacReqs(i, w) /\ MacHas(i, w)
  <2>1. Srb1 \in w /\ RlcDone(i, w) /\ MacReqs(i, w) /\ MacDone(ph, i, w)
    BY <1>5, <1>10 DEF BearersOf, Gone
  <2>2. RlcHas(i, w)
    BY <1>5, <2>1 DEF RlcDone, Preambles
  <2>3. macUe[i] # "NONE"
    BY <1>3, <1>5, <2>1 DEF MacDone
  <2>4. MacHas(i, w)
    BY <1>5, <2>1, <2>3 DEF MacDone
  <2>5. RlcDone(i, w)'
    BY <1>2, <2>2 DEF RlcDone, RlcHas, rlcOwnVars
  <2>6. QED
    BY <2>1, <2>2, <2>4, <2>5
<1>12. SameTables /\ UNCHANGED <<macUe, schUe>>
  BY <1>2, SameTablesOwn
<1>13. CASE CtxtRsp(i, u)
  <2>1. u \in UeCb /\ u.cu = c /\ u.db.act = "SETUP"
    BY <1>1, <1>3, <1>4, <1>5, CoreParts DEF DuTypes, InPhase, HandingIn
  <2>2. PICK v : v = [u EXCEPT !.db = NoDb]
    OBVIOUS
  <2>3. v \in UeCb
    BY <2>1, <2>2, NoDbType DEF UeCb
  <2>4. /\ ueCb' = [ueCb EXCEPT ![i] = v]
        /\ cuUe' = [cuUe EXCEPT ![c].ph = IF @ = "handin" THEN "arriving" ELSE "ready"]
    BY <1>13, <2>1, <2>2 DEF CtxtRsp
  <2>5. \A j \in Id \ {i} : ueCb'[j] = ueCb[j]
    BY <1>3, <2>3, <2>4, SetUeCb
  <2>6. CuGets(c, i, "arriving", w)
    <3>1. cuUe' = [cuUe EXCEPT ![c].ph = "arriving"]
      BY <1>4, <1>5, <2>4, CoreParts DEF HasPhase, DuTypes
    <3>2. "arriving" \in Phase
      BY DEF Phase
    <3>3. QED
      BY <1>4, <1>9, <3>1, <3>2, CuPhGets
  <2>7. MacReqs(i, w)'
    BY <1>2, <1>11, <1>12, MacReqsStay DEF NoneNewMac, SameTables
  <2>8. BearersOf(c, "arriving", i, w)'
    BY <1>2, <1>5, <1>10, <1>11, <1>12, <2>7, BearersMove DEF Gone, SameTables, rlcOwnVars
  <2>9. Bearers'
    BY <1>2, <1>3, <1>4, <1>6, <1>7, <1>8, <2>5, <2>6, <2>8, DuBears
  <2>10. w # {} /\ PhIn(c, ph) = "asked" /\ PhIn(c, "arriving") = "in"
    BY <1>5, <1>11 DEF PhIn, Out
  <2>11. LifeStep
    BY <1>3, <1>4, <1>9, <1>11, <1>12, <2>6, <2>10, Answers
  <2>12. QED
    BY <2>9, <2>11
<1>14. CASE NoChange
  <2>1. UNCHANGED <<ueCb, cuUe>>
    BY <1>14 DEF NoChange
  <2>2. BearersOf(c, ph, i, w)'
    BY <1>2, <1>6, <1>7, <1>10, <1>11, <2>1, BearersHold
  <2>3. CuGets(c, i, ph, w)
    BY <1>4, <1>9, <2>1, CuGetsSame
  <2>4. Bearers'
    BY <1>2, <1>3, <1>4, <1>6, <1>7, <1>8, <2>1, <2>2, <2>3, DuBears
  <2>5. LifeStep
    BY <1>12, <2>1, Idles
  <2>6. QED
    BY <2>4, <2>5
<1>15. QED
  BY <1>2, <1>13, <1>14

LEMMA MacUeDeleteRspBears ==
    ASSUME Core, Core', Bearers, DuProcMacUeDeleteRsp
    PROVE  Bearers' /\ LifeStep
<1>1. PICK i, t, u : /\ i = Head(macToDu).ue /\ t = Tok("macToDu", "DELETE", Ok(First(macToDu)))
                     /\ u = [ueCb[i] EXCEPT !.mac = "DELETE_COMPLETE"]
  BY Zenon
<1>2. /\ FromMac("DELETE") /\ UNCHANGED <<duToRlc, duToMac>>
      /\ UNCHANGED <<rlcOwnVars, macOwnVars, rlcToDu, duToRlcDl>>
  BY DEF DuProcMacUeDeleteRsp, FromMac
<1>3. i \in Id /\ t \in InMac(i) /\ t.at = "macToDu" /\ t.ev = "DELETE" /\ t.ok = Ok(First(macToDu))
  BY <1>1, <1>2, DuHasMac, TokFields
<1>4. PICK c \in CuUe, ph \in Phase : HasPhase(c, ph, i) /\ ph # "idle" /\ InPhase(c, ph, i)
  BY <1>1, <1>2, DuHasMac
<1>5. ph = "releasing" /\ DeletingInMac(i)
  BY <1>3, <1>4, MacWho
<1>6. \A j : j # i => InMac(j)' = InMac(j)
  BY <1>1, <1>2, DuTakesMac
<1>7. \A j : InRlc(j)' = InRlc(j)
  BY <1>2, RlcUnchanged DEF rlcVars, rlcOwnVars, SameRlc
<1>8. \A j \in Id : NoneSent(j)
  BY <1>2 DEF NoneSent, NoneNewMac
<1>9. cuUe[c].rbs = {} /\ \A d \in CuUe : cuUe[d].id = i => d = c
  BY <1>3, <1>4, <1>5, GoneHasNone, OwnerIs DEF Gone
<1>10. SameTables
  BY <1>2, SameTablesOwn
<1>11. ueCb[i] \in UeCb
  BY <1>3, CoreParts DEF DuTypes
<1>12. CASE /\ Ok(First(macToDu))
            /\ ueCb' = [ueCb EXCEPT ![i] = NoUeCb]
            /\ cuUe' = [d \in CuUe |-> IF cuUe[d].ph = "releasing" /\ cuUe[d].id = i
                                       THEN [ph |-> "idle", id |-> 0, rbs |-> {}] ELSE cuUe[d]]
  <2>1. RlcHas(i, {}) /\ MacHas(i, {})
    BY <1>3, <1>5, <1>12 DEF DeletingInMac, RlcEmpty, MacEmpty, RlcHas, MacHas
  <2>2. \A j \in Id \ {i} : ueCb'[j] = ueCb[j]
    BY <1>3, <1>12, NoUeCbType, SetUeCb
  <2>3. CuGets(c, 0, "idle", {})
    <3>1. PICK v : v = [ph |-> "idle", id |-> 0, rbs |-> {}]
      OBVIOUS
    <3>2. v \in CuCb /\ v.id = 0 /\ v.ph = "idle" /\ v.rbs = {}
      BY <3>1 DEF CuCb, Phase
    <3>3. cuUe[c].ph = "releasing" /\ cuUe[c].id = i
      BY <1>4, <1>5 DEF HasPhase
    <3>4. cuUe'[c] = v /\ \A d \in CuUe \ {c} : cuUe'[d] = cuUe[d]
      BY <1>9, <1>12, <3>1, <3>3
    <3>5. cuUe' = [d \in CuUe |-> cuUe'[d]]
      BY <1>12
    <3>6. QED
      BY <3>2, <3>4, <3>5, CuTurns
  <2>4. BearersOf(c, "idle", 0, {})'
    BY BearersOfGone DEF Gone
  <2>5. Bearers'
    BY <1>2, <1>3, <1>4, <1>6, <1>7, <1>8, <2>2, <2>3, <2>4, DuBears
  <2>6. PhIn(c, ph) = "asked"
    BY <1>5 DEF PhIn, Out
  <2>7. LifeStep
    BY <1>3, <1>4, <1>9, <1>10, <2>1, <2>3, <2>6, Answers
  <2>8. QED
    BY <2>5, <2>7
<1>13. CASE UNCHANGED <<ueCb, cuUe>>
  <2>1. CuGets(c, i, ph, {})
    BY <1>4, <1>9, <1>13, CuGetsSame
  <2>2. BearersOf(c, ph, i, {})'
    BY <1>5, BearersOfGone DEF Gone
  <2>3. Bearers'
    BY <1>2, <1>3, <1>4, <1>6, <1>7, <1>8, <1>13, <2>1, <2>2, DuBears
  <2>4. LifeStep
    BY <1>10, <1>13, Idles
  <2>5. QED
    BY <2>3, <2>4
<1>14. \/ /\ Ok(First(macToDu))
          /\ ueCb' = [ueCb EXCEPT ![i] = NoUeCb]
          /\ cuUe' = [d \in CuUe |-> IF cuUe[d].ph = "releasing" /\ cuUe[d].id = i
                                     THEN [ph |-> "idle", id |-> 0, rbs |-> {}] ELSE cuUe[d]]
       \/ UNCHANGED <<ueCb, cuUe>>
  <2>1. u.rlc = "DELETE_COMPLETE"
    BY <1>1, <1>5, <1>11 DEF UeCb, DeletingInMac
  <2>2. QED
    BY <1>1, <2>1 DEF DuProcMacUeDeleteRsp, Ok, First
<1>15. QED
  BY <1>12, <1>13, <1>14

\* A response of RLC does not take away that RLC is done.
LEMMA RlcRspTaken ==
    ASSUME UNCHANGED rlcOwnVars, NEW i, NEW w, RlcDone(i, w), NEW t, t.at = "rlcToDu", t.ev # "DL_RRC",
           InRlc(i)' = Without(InRlc(i), t)
    PROVE  RlcDone(i, w)'
BY DEF RlcDone, RlcHas, rlcOwnVars, Without

LEMMA RlcUeCreateRspBears ==
    ASSUME Core, Bearers, DuProcRlcUeCreateRsp
    PROVE  Bearers' /\ LifeStep
<1>1. PICK i, t, u : /\ i = Head(rlcToDu).ue /\ t = Tok("rlcToDu", "CREATE", Ok(First(rlcToDu)))
                     /\ u = [ueCb[i] EXCEPT !.rlc = "CREATE_COMPLETE"]
  BY Zenon
<1>2. /\ FromRlc("CREATE") /\ CreateDone(i, u)
      /\ UNCHANGED <<rlcOwnVars, macOwnVars>> /\ UNCHANGED <<duToRlc, cuUe, duToRlcDl>> /\ UNCHANGED macToDu
  BY <1>1 DEF DuProcRlcUeCreateRsp, FromRlc, CreateDone
<1>3. i \in Id /\ t \in InRlc(i) /\ t.at = "rlcToDu" /\ t.ev = "CREATE"
  BY <1>1, <1>2, DuHasRlc
<1>4. PICK c \in CuUe, ph \in Phase : HasPhase(c, ph, i) /\ ph # "idle" /\ InPhase(c, ph, i)
  BY <1>1, <1>2, DuHasRlc
<1>5. \/ ph = "connecting" /\ c \in Access /\ Connecting(i)
      \/ ph = "completing" /\ c \in Access
      \/ ph = "handin" /\ Creating(i)
  BY <1>3, <1>4, RlcWho
<1>6. PICK w : w = cuUe[c].rbs
  OBVIOUS
<1>7. BearersOf(c, ph, i, w) /\ CuGets(c, i, ph, w)
  BY <1>2, <1>4, <1>6, GoneHasNone, CuGetsSame
<1>8. InRlc(i)' = Without(InRlc(i), t) /\ \A j : j # i => InRlc(j)' = InRlc(j)
  BY <1>1, <1>2, DuTakesRlc
<1>9. ueCb[i] \in UeCb
  BY <1>3, CoreParts DEF DuTypes
<1>10. /\ u \in UeCb /\ u.state = ueCb[i].state /\ u.db = ueCb[i].db /\ u.mac = ueCb[i].mac
       /\ u.rlc = "CREATE_COMPLETE"
  BY <1>1, <1>9 DEF UeCb, CfgState
<1>11. ueCb'[i] = u /\ \A j \in Id \ {i} : ueCb'[j] = ueCb[j]
  BY <1>2, <1>3, <1>10, SetUeCb DEF CreateDone
<1>12. /\ \A j \in Id \ {i} : NoneSent(j)
       /\ \A j \in Id \ {i} : InMac(j)' = InMac(j)
       /\ \A m \in ToSet(duToMac') : m.ue = i /\ m.ev \in {"CREATE", "RECONFIG"} => m \in ToSet(duToMac)
       /\ \A x \in InMac(i)' : x \in InMac(i) \/ x.ev = "RACH_REQ"
  <2>1. CASE UNCHANGED duToMac
    <3>1. \A j : InMac(j)' = InMac(j)
      BY <1>2, <2>1, MacQStill
    <3>2. QED
      BY <1>2, <2>1, <3>1 DEF NoneSent, NoneNewMac
  <2>2. CASE SendToMac("RACH_REQ", i, NoDb) /\ u.state = "HANDIN" /\ u.mac = "CREATE_COMPLETE"
    <3>1. InMac(i) = {}
      <4>1. ph = "handin"
        BY <1>4, <1>5, <1>10, <2>2 DEF InPhase, Connecting, Completing, Idle
      <4>2. QED
        BY <1>5, <1>10, <2>2, <4>1 DEF Creating
    <3>2. PICK n : n = ReqTok("duToMac", "RACH_REQ")
      OBVIOUS
    <3>3. InMac(i)' = With(InMac(i), n) /\ \A j : j # i => InMac(j)' = InMac(j)
      BY <1>2, <1>3, <2>2, <3>1, <3>2, NoDbType, DuAsksMac
    <3>4. PICK m : m.ue = i /\ m.ev = "RACH_REQ" /\ ToSet(duToMac') = ToSet(duToMac) \union {m}
      BY <1>3, <2>2, NoDbType, SentToMac
    <3>5. n.ev = "RACH_REQ"
      BY <3>2, TokFields
    <3>6. QED
      BY <1>2, <3>3, <3>4, <3>5 DEF NoneSent, NoneNewMac, With
  <2>3. QED
    BY <1>2, <2>1, <2>2 DEF CreateDone
<1>13. BearersOf(c, ph, i, w)'
  <2>1. ph \notin Gone => RlcDone(i, w)'
    BY <1>2, <1>3, <1>7, <1>8, RlcRspTaken DEF BearersOf
  <2>2. \A x : x.ev = "DL_RRC" => (x \in InRlc(i)' <=> x \in InRlc(i))
    BY <1>3, <1>8 DEF Without
  <2>3. \A m \in ToSet(duToRlc') : m.ue = i => m \in ToSet(duToRlc)
    BY <1>2
  <2>4. ph # "asked"
    BY <1>5
  <2>5. QED
    BY <1>2, <1>7, <1>10, <1>11, <1>12, <2>1, <2>2, <2>3, <2>4, BearersHold
<1>14. Bearers'
  BY <1>2, <1>3, <1>4, <1>7, <1>8, <1>11, <1>12, <1>13, DuBears
<1>15. LifeStep
  BY <1>2, Idles, SameTablesOwn
<1>16. QED
  BY <1>14, <1>15

LEMMA RlcUeReconfigRspBears ==
    ASSUME Core, Core', Bearers, DuProcRlcUeReconfigRsp
    PROVE  Bearers' /\ LifeStep
<1>1. PICK i, t, u : /\ i = Head(rlcToDu).ue /\ t = Tok("rlcToDu", "RECONFIG", Ok(First(rlcToDu)))
                     /\ u = [ueCb[i] EXCEPT !.rlc = "RECFG_COMPLETE"]
  BY Zenon
<1>2. /\ FromRlc("RECONFIG") /\ RecfgDone(i, u) /\ UNCHANGED <<duToRlc, duToMac, duToRlcDl>>
      /\ UNCHANGED <<rlcOwnVars, macOwnVars>> /\ UNCHANGED macToDu
  BY <1>1 DEF DuProcRlcUeReconfigRsp, FromRlc, RecfgDone
<1>3. i \in Id /\ t \in InRlc(i) /\ t.at = "rlcToDu" /\ t.ev = "RECONFIG"
  BY <1>1, <1>2, DuHasRlc
<1>4. PICK c \in CuUe, ph \in Phase : HasPhase(c, ph, i) /\ ph # "idle" /\ InPhase(c, ph, i)
  BY <1>1, <1>2, DuHasRlc
<1>5. ph = "asked" /\ Running(i)
  BY <1>3, <1>4, RlcWho
<1>6. InRlc(i)' = Without(InRlc(i), t) /\ \A j : j # i => InRlc(j)' = InRlc(j)
  BY <1>1, <1>2, DuTakesRlc
<1>7. InRlc(i)' = {} /\ InRlc(i)' \subseteq InRlc(i)
  BY <1>3, <1>5, <1>6 DEF Running, One, Without
<1>8. \A j : InMac(j)' = InMac(j)
  BY <1>2, MacQStill
<1>9. PICK w : w = cuUe[c].rbs
  OBVIOUS
<1>10. BearersOf(c, ph, i, w)
  BY <1>4, <1>9, GoneHasNone
<1>11. ueCb[i] \in UeCb
  BY <1>3, CoreParts DEF DuTypes
<1>12. u \in UeCb /\ u.cu = ueCb[i].cu /\ u.db = ueCb[i].db /\ u.mac = ueCb[i].mac
  BY <1>1, <1>11 DEF UeCb, CfgState
<1>13. RlcDone(i, w)'
  BY <1>2, <1>3, <1>5, <1>6, <1>10, RlcRspTaken DEF BearersOf, Gone
<1>14. u.mac = "RECFG_COMPLETE" => MacHas(i, w)
  <2>1. MacDone(ph, i, w) /\ \A x \in InRlc(i) : x.ev # "DL_RRC"
    BY <1>5, <1>10 DEF BearersOf, Gone, Running
  <2>2. QED
    BY <1>5, <1>12, <2>1 DEF MacDone
<1>15. HasPhase(c, "asked", i) /\ InPhase(c, "asked", i)
  BY <1>4, <1>5
<1>16. QED
  BY <1>2, <1>3, <1>5, <1>6, <1>7, <1>8, <1>9, <1>12, <1>13, <1>14, <1>15, RecfgDoneBears

LEMMA RlcUeDeleteRspBears ==
    ASSUME Core, Bearers, DuProcRlcUeDeleteRsp
    PROVE  Bearers' /\ LifeStep
<1>1. PICK i, t, u : /\ i = Head(rlcToDu).ue /\ t = Tok("rlcToDu", "DELETE", Ok(First(rlcToDu)))
                     /\ u = [ueCb[i] EXCEPT !.rlc = "DELETE_COMPLETE"]
  BY Zenon
<1>2. /\ FromRlc("DELETE") /\ UNCHANGED <<duToRlcDl, cuUe, duToRlc>>
      /\ UNCHANGED <<rlcOwnVars, macOwnVars>> /\ UNCHANGED macToDu
  BY <1>1 DEF DuProcRlcUeDeleteRsp, FromRlc
<1>3. i \in Id /\ t \in InRlc(i) /\ t.at = "rlcToDu" /\ t.ev = "DELETE"
  BY <1>1, <1>2, DuHasRlc
<1>4. PICK c \in CuUe, ph \in Phase : HasPhase(c, ph, i) /\ ph # "idle" /\ InPhase(c, ph, i)
  BY <1>1, <1>2, DuHasRlc
<1>5. ph = "releasing" /\ DeletingInRlc(i)
  BY <1>3, <1>4, RlcWho
<1>6. cuUe[c].rbs = {}
  BY <1>4, <1>5, GoneHasNone DEF Gone
<1>7. CuGets(c, i, ph, {})
  BY <1>2, <1>4, <1>6, CuGetsSame
<1>8. BearersOf(c, ph, i, {})'
  BY <1>5, BearersOfGone DEF Gone
<1>9. \A j : j # i => InRlc(j)' = InRlc(j)
  BY <1>1, <1>2, DuTakesRlc
<1>10. \/ ueCb' = [ueCb EXCEPT ![i] = u] /\ SendToMac("DELETE", i, NoDb)
       \/ UNCHANGED <<ueCb, duToMac>>
  <2>1. [ueCb EXCEPT ![i].rlc = "DELETE_COMPLETE"] = [ueCb EXCEPT ![i] = u]
    BY <1>1, <1>3, CoreParts DEF DuTypes
  <2>2. QED
    BY <1>1, <2>1 DEF DuProcRlcUeDeleteRsp
<1>11. \A j \in Id \ {i} : ueCb'[j] = ueCb[j] /\ NoneSent(j) /\ InMac(j)' = InMac(j)
  <2>1. CASE ueCb' = [ueCb EXCEPT ![i] = u] /\ SendToMac("DELETE", i, NoDb)
    <3>1. u \in UeCb
      <4>1. ueCb[i] \in UeCb
        BY <1>3, CoreParts DEF DuTypes
      <4>2. QED
        BY <1>1, <4>1 DEF UeCb, CfgState
    <3>2. \A j \in Id \ {i} : ueCb'[j] = ueCb[j]
      BY <1>3, <2>1, <3>1, SetUeCb
    <3>3. \A j : j # i => InMac(j)' = InMac(j)
      <4>1. \A x \in InMac(i) : x.at = "duToMac" => x.ev # "DELETE"
        BY <1>5 DEF DeletingInRlc, Late
      <4>2. PICK n : n = ReqTok("duToMac", "DELETE")
        OBVIOUS
      <4>3. QED
        BY <1>2, <1>3, <2>1, <4>1, <4>2, NoDbType, DuAsksMac
    <3>4. PICK m : m.ue = i /\ ToSet(duToMac') = ToSet(duToMac) \union {m}
      BY <1>3, <2>1, NoDbType, SentToMac
    <3>5. QED
      BY <1>2, <3>2, <3>3, <3>4 DEF NoneSent, NoneNewMac
  <2>2. CASE UNCHANGED <<ueCb, duToMac>>
    <3>1. \A j : InMac(j)' = InMac(j)
      BY <1>2, <2>2, MacQStill
    <3>2. QED
      BY <1>2, <2>2, <3>1 DEF NoneSent, NoneNewMac
  <2>3. QED
    BY <1>10, <2>1, <2>2
<1>12. Bearers'
  BY <1>2, <1>3, <1>4, <1>7, <1>8, <1>9, <1>11, DuBears
<1>13. LifeStep
  BY <1>2, Idles, SameTablesOwn
<1>14. QED
  BY <1>12, <1>13

LEMMA NoneInMac ==
    ASSUME NEW i, \A t \in InMac(i) : t.at # "duToMac"
    PROVE  \A m \in ToSet(duToMac) : m.ue # i
BY MacMsgs, TokFields DEF Msgs, ToSet

\* RLC and MAC are asked for a reconfiguration that leads to w.
LEMMA RecfgReqBears ==
    ASSUME Core, UNCHANGED <<rlcOwnVars, macOwnVars>>, UNCHANGED macToDu,
           NEW c \in Access, NEW i \in Id, Late(i), NEW u \in UeCb, u.db.op # "STOP", RecfgReq(i, u),
           \A t \in InRlc(i) : t.at \notin {"duToRlc", "udxReq", "udxCfm"},
           NEW r, r.ev = "RECONFIG", r.at = "duToRlc", InRlc(i)' = {r},
           NEW w, Srb1 \in w, macUe[i] # "NONE",
           RlcGives(CfgOp(u.db), u.db.rbs, i, w), MacGives(CfgOp(u.db), u.db.rbs, i, w)
    PROVE  /\ BearersOf(c, "asked", i, w)'
           /\ \A j \in Id \ {i} : ueCb'[j] = ueCb[j] /\ NoneSent(j) /\ InMac(j)' = InMac(j)
<1>1. PICK v : v = [u EXCEPT !.rlc = "INPROGRESS", !.mac = "INPROGRESS"]
  OBVIOUS
<1>2. v \in UeCb /\ v.mac = "INPROGRESS" /\ u.db \in Db /\ CfgOp(u.db) # "DEL"
  BY <1>1 DEF UeCb, CfgState, RlcGives, Gives
<1>3. /\ ueCb' = [ueCb EXCEPT ![i] = v]
      /\ SendToRlc("RECONFIG", i, u.db) /\ SendToMac("RECONFIG", i, u.db)
  BY <1>1 DEF RecfgReq
<1>4. ueCb'[i] = v /\ \A j \in Id \ {i} : ueCb'[j] = ueCb[j]
  BY <1>2, <1>3, SetUeCb
<1>5. PICK m : /\ ToSet(duToRlc') = ToSet(duToRlc) \union {m}
               /\ m.ue = i /\ m.op = CfgOp(u.db) /\ m.rbs = u.db.rbs
  BY <1>2, <1>3, SentToRlc
<1>6. PICK n : /\ ToSet(duToMac') = ToSet(duToMac) \union {n}
               /\ n.ue = i /\ n.ev = "RECONFIG" /\ n.op = CfgOp(u.db) /\ n.lcs = u.db.rbs
  BY <1>2, <1>3, SentToMac
<1>7. PICK t : t = ReqTok("duToMac", "RECONFIG")
  OBVIOUS
<1>8. InMac(i)' = With(InMac(i), t) /\ \A j : j # i => InMac(j)' = InMac(j)
  <2>1. \A x \in InMac(i) : x.at = "duToMac" => x.ev # "RECONFIG"
    BY DEF Late
  <2>2. QED
    BY <1>2, <1>3, <1>7, <2>1, DuAsksMac
<1>9. UNCHANGED <<udxReq, udxCfm, rlcUlRb, rlcDlRb, macUe, schUe, macLc, schLc>>
  BY DEF rlcOwnVars, macOwnVars, macUeVars
<1>10. /\ \A x \in ToSet(duToRlc) : x.ue # i
       /\ \A x \in ToSet(udxReq) : x.req.ue # i
       /\ \A x \in ToSet(udxCfm) : x.req.ue # i
  BY NoneThere
<1>11. \A x \in ToSet(duToMac) : x.ue # i
  BY NoneInMac DEF Late
<1>12. RlcReqs(i, w)'
  BY <1>5, <1>9, <1>10 DEF RlcReqs, RlcGives
<1>13. MacReqs(i, w)'
  BY <1>6, <1>9, <1>11 DEF MacReqs, MacGives
<1>14. RlcDone(i, w)'
  BY DEF RlcDone
<1>15. MacDone("asked", i, w)'
  <2>1. \A x \in InMac(i)' : x.ev = "RECONFIG" => x.at = "duToMac"
    BY <1>7, <1>8, TokFields DEF With, Late
  <2>2. QED
    BY <1>2, <1>4, <2>1 DEF MacDone
<1>16. BearersOf(c, "asked", i, w)'
  BY <1>9, <1>12, <1>13, <1>14, <1>15 DEF BearersOf, Gone
<1>17. \A j \in Id \ {i} : NoneSent(j)
  BY <1>5, <1>6 DEF NoneSent, NoneNewMac
<1>18. QED
  BY <1>4, <1>8, <1>16, <1>17

\* An RRC message is sent before RLC and MAC are asked for what leads to w.
LEMMA RrcFirstBears ==
    ASSUME Core, UNCHANGED <<rlcOwnVars, macOwnVars>>, UNCHANGED <<rlcToDu, macToDu>>,
           NEW c \in Access, NEW i \in Id, Late(i), InRlc(i) = {}, NEW u \in UeCb, RrcMsgFirst(i, u),
           NEW w, Srb1 \in w, macUe[i] # "NONE", u.db.rrc, u.db.rbs \subseteq Drb,
           RlcGives(CfgOp(u.db), u.db.rbs, i, w), MacGives(CfgOp(u.db), u.db.rbs, i, w)
    PROVE  BearersOf(c, "asked", i, w)'
<1>1. /\ ueCb' = [ueCb EXCEPT ![i] = u] /\ duToRlcDl' = Append(duToRlcDl, i)
      /\ UNCHANGED <<duToRlc, duToMac>>
  BY DEF RrcMsgFirst
<1>2. ueCb'[i] = u
  BY <1>1, SetUeCb
<1>3. PICK n : n = ReqTok("duToRlcDl", "DL_RRC")
  OBVIOUS
<1>4. InRlc(i)' = {n} /\ n.ev = "DL_RRC"
  <2>1. InRlc(i)' = With(InRlc(i), n)
    BY <1>1, <1>3, DuAsksRrc
  <2>2. QED
    BY <1>3, <2>1, TokFields DEF With
<1>5. \A j : InMac(j)' = InMac(j)
  BY <1>1, MacQStill
<1>6. UNCHANGED <<udxReq, udxCfm, rlcUlRb, rlcDlRb, macUe, schUe, macLc, schLc>>
  BY DEF rlcOwnVars, macOwnVars, macUeVars
<1>7. /\ \A x \in ToSet(duToRlc) : x.ue # i
      /\ \A x \in ToSet(udxReq) : x.req.ue # i
      /\ \A x \in ToSet(udxCfm) : x.req.ue # i
  BY NoneThere
<1>8. \A x \in ToSet(duToMac) : x.ue # i
  BY NoneInMac DEF Late
<1>9. RlcReqs(i, w)' /\ MacReqs(i, w)'
  BY <1>1, <1>6, <1>7, <1>8 DEF RlcReqs, MacReqs
<1>10. RlcDone(i, w)'
  BY <1>4 DEF RlcDone
<1>11. MacDone("asked", i, w)'
  BY <1>4, <1>5 DEF MacDone, Late
<1>12. RrcFirst(i, w)'
  BY <1>2, <1>6 DEF RrcFirst, RlcGives, MacGives
<1>13. QED
  BY <1>6, <1>9, <1>10, <1>11, <1>12 DEF BearersOf, Gone

LEMMA DlRrcMsgRspBears ==
    ASSUME Core, Bearers, DuProcRlcDlRrcMsgRsp
    PROVE  Bearers' /\ LifeStep
<1>1. PICK i, t, u : /\ i = Head(rlcToDu).ue /\ t = Tok("rlcToDu", "DL_RRC", Ok(First(rlcToDu)))
                     /\ u = ueCb[i]
  BY Zenon
<1>2. /\ FromRlc("DL_RRC") /\ UNCHANGED cuUe
      /\ UNCHANGED <<rlcOwnVars, macOwnVars>> /\ UNCHANGED macToDu
  BY <1>1 DEF DuProcRlcDlRrcMsgRsp, FromRlc
<1>3. i \in Id /\ t \in InRlc(i) /\ t.at = "rlcToDu" /\ t.ev = "DL_RRC"
  BY <1>1, <1>2, DuHasRlc
<1>4. PICK c \in CuUe, ph \in Phase : HasPhase(c, ph, i) /\ ph # "idle" /\ InPhase(c, ph, i)
  BY <1>1, <1>2, DuHasRlc
<1>5. ph \in {"asked", "releasing"} /\ Waiting(i) /\ Late(i)
  BY <1>3, <1>4, RlcWho DEF Waiting
<1>6. u \in UeCb /\ c \in Access /\ u.db \in Db
  <2>1. u \in UeCb /\ c \in Access
    BY <1>1, <1>3, <1>4, <1>5, CoreParts DEF DuTypes, InPhase
  <2>2. QED
    BY <2>1 DEF UeCb
<1>7. InRlc(i) = {t}
  BY <1>3, <1>5 DEF Waiting, One
<1>8. PICK w : w = cuUe[c].rbs
  OBVIOUS
<1>9. BearersOf(c, ph, i, w) /\ CuGets(c, i, ph, w)
  BY <1>2, <1>4, <1>8, GoneHasNone, CuGetsSame
<1>10. LifeStep
  BY <1>2, Idles, SameTablesOwn
<1>11. CASE ph = "asked"
  <2>1. u.state = "ACTIVE" /\ u.db.act \in {"SETUP", "MOD"} /\ u.db.op # "STOP"
    BY <1>1, <1>4, <1>11 DEF InPhase, Asked
  <2>2. Srb1 \in w /\ macUe[i] # "NONE" /\ RrcFirst(i, w)
    BY <1>3, <1>6, <1>9, <1>11 DEF BearersOf, Gone
  <2>3. RecfgReq(i, u)
    BY <1>1, <2>1, <2>2 DEF RrcFirst, DuProcRlcDlRrcMsgRsp, SetupReq
  <2>4. SendToRlc("RECONFIG", i, u.db) /\ UNCHANGED duToRlcDl
    BY <2>3 DEF RecfgReq
  <2>5. PICK r : r = ReqTok("duToRlc", "RECONFIG")
    OBVIOUS
  <2>6. r.at = "duToRlc" /\ r.ev = "RECONFIG" /\ "RECONFIG" \in RlcEvent
    BY <2>5, TokFields DEF RlcEvent
  <2>7. InRlc(i)' = With(Without(InRlc(i), t), r) /\ \A j : j # i => InRlc(j)' = InRlc(j)
    <3>1. \A x \in InRlc(i) : x.at = "duToRlc" => x.ev # "RECONFIG"
      BY <1>3, <1>7
    <3>2. QED
      BY <1>1, <1>2, <1>6, <2>4, <2>5, <2>6, <3>1, DuTakesRlcAsks
  <2>8. InRlc(i)' = {r} /\ \A x \in InRlc(i) : x.at \notin {"duToRlc", "udxReq", "udxCfm"}
    BY <1>3, <1>7, <2>7 DEF With, Without
  <2>9. RlcGives(CfgOp(u.db), u.db.rbs, i, w) /\ MacGives(CfgOp(u.db), u.db.rbs, i, w)
    BY <1>1, <2>2 DEF RrcFirst
  <2>10. /\ BearersOf(c, "asked", i, w)'
         /\ \A j \in Id \ {i} : ueCb'[j] = ueCb[j] /\ NoneSent(j) /\ InMac(j)' = InMac(j)
    BY <1>2, <1>3, <1>5, <1>6, <2>1, <2>2, <2>3, <2>6, <2>8, <2>9, RecfgReqBears
  <2>11. Bearers'
    BY <1>2, <1>3, <1>4, <1>9, <1>11, <2>7, <2>10, DuBears
  <2>12. QED
    BY <1>10, <2>11
<1>12. CASE ph = "releasing"
  <2>1. w = {} /\ BearersOf(c, ph, i, {})'
    BY <1>9, <1>12, BearersOfGone DEF BearersOf, Gone
  <2>2. u.db.act = "RELEASE"
    <3>1. Releasing(i)
      BY <1>4, <1>12 DEF InPhase
    <3>2. ~DeletingInRlc(i) /\ ~DeletingInMac(i)
      BY <1>3 DEF DeletingInRlc, DeletingInMac
    <3>3. QED
      BY <1>1, <3>1, <3>2 DEF Releasing
  <2>3. DeleteReq(i, u) \/ UNCHANGED <<ueCb, duToRlc, duToMac, duToRlcDl>>
    <3>1. CASE u.db.rrc
      BY <1>1, <2>2, <3>1 DEF DuProcRlcDlRrcMsgRsp
    <3>2. CASE ~u.db.rrc
      BY <1>1, <3>2 DEF DuProcRlcDlRrcMsgRsp
    <3>3. QED
      BY <3>1, <3>2
  <2>4. UNCHANGED <<duToMac, duToRlcDl>> /\ \A j : InMac(j)' = InMac(j)
    BY <1>2, <2>3, MacQStill DEF DeleteReq
  <2>5. \A j \in Id \ {i} : ueCb'[j] = ueCb[j] /\ NoneSent(j) /\ InRlc(j)' = InRlc(j)
    <3>1. CASE DeleteReq(i, u)
      <4>1. /\ ueCb' = [ueCb EXCEPT ![i] = [u EXCEPT !.state = "DELETION"]]
            /\ SendToRlc("DELETE", i, NoDb)
        BY <3>1 DEF DeleteReq
      <4>2. [u EXCEPT !.state = "DELETION"] \in UeCb
        BY <1>6 DEF UeCb
      <4>3. \A j \in Id \ {i} : ueCb'[j] = ueCb[j]
        BY <1>3, <4>1, <4>2, SetUeCb
      <4>4. \A j : j # i => InRlc(j)' = InRlc(j)
        <5>1. \A x \in InRlc(i) : x.at = "duToRlc" => x.ev # "DELETE"
          BY <1>3, <1>7
        <5>2. "DELETE" \in RlcEvent
          BY DEF RlcEvent
        <5>3. QED
          BY <1>1, <1>2, <2>4, <4>1, <5>1, <5>2, NoDbType, DuTakesRlcAsks
      <4>5. PICK m : m.ue = i /\ ToSet(duToRlc') = ToSet(duToRlc) \union {m}
        BY <1>3, <4>1, NoDbType, SentToRlc
      <4>6. QED
        BY <2>4, <4>3, <4>4, <4>5 DEF NoneSent, NoneNewMac
    <3>2. CASE UNCHANGED <<ueCb, duToRlc, duToMac, duToRlcDl>>
      <4>1. \A j : j # i => InRlc(j)' = InRlc(j)
        BY <1>1, <1>2, <3>2, DuTakesRlc
      <4>2. QED
        BY <3>2, <4>1 DEF NoneSent, NoneNewMac
    <3>3. QED
      BY <2>3, <3>1, <3>2
  <2>6. Bearers'
    BY <1>2, <1>3, <1>4, <1>9, <2>1, <2>4, <2>5, DuBears
  <2>7. QED
    BY <1>10, <2>6
<1>13. QED
  BY <1>5, <1>11, <1>12

LEMMA UlRrcMsgTransBears ==
    ASSUME Core, Core', Bearers, DuProcRlcUlRrcMsgTrans
    PROVE  Bearers' /\ LifeStep
<1>1. PICK i, t, u : /\ i = Head(rlcToDu).ue /\ t = Tok("rlcToDu", "UL_RRC", Ok(First(rlcToDu)))
                     /\ u = [ueCb[i] EXCEPT !.state = "ACTIVE"]
  BY Zenon
<1>2. /\ FromRlc("UL_RRC") /\ UNCHANGED <<duToRlcDl, duToRlc>>
      /\ UNCHANGED <<rlcOwnVars, macOwnVars>> /\ UNCHANGED macToDu
      /\ cuUe' = [d \in CuUe |-> IF cuUe[d].ph = "completing" /\ cuUe[d].id = i
                                 THEN [cuUe[d] EXCEPT !.ph = IF d \in HandIn THEN "ready"
                                                             ELSE "connected"]
                                 ELSE cuUe[d]]
  BY <1>1 DEF DuProcRlcUlRrcMsgTrans, FromRlc
<1>3. i \in Id /\ t \in InRlc(i) /\ t.at = "rlcToDu" /\ t.ev = "UL_RRC"
  BY <1>1, <1>2, DuHasRlc
<1>4. PICK c \in CuUe, ph \in Phase : HasPhase(c, ph, i) /\ ph # "idle" /\ InPhase(c, ph, i)
  BY <1>1, <1>2, DuHasRlc
<1>5. ph = "completing"
  BY <1>3, <1>4, RlcWho
<1>6. InRlc(i)' = Without(InRlc(i), t) /\ \A j : j # i => InRlc(j)' = InRlc(j)
  BY <1>1, <1>2, DuTakesRlc
<1>7. PICK w : w = cuUe[c].rbs
  OBVIOUS
<1>8. BearersOf(c, ph, i, w) /\ ph \notin Gone
  BY <1>4, <1>5, <1>7, GoneHasNone DEF Gone
<1>9. Srb1 \in w /\ RlcDone(i, w) /\ MacReqs(i, w) /\ (macUe[i] # "NONE" => MacHas(i, w))
  BY <1>5, <1>8 DEF BearersOf, MacDone
<1>10. RlcDone(i, w)'
  BY <1>2, <1>3, <1>6, <1>9, RlcRspTaken
<1>11. PICK x : x = IF c \in HandIn THEN "ready" ELSE "connected"
  OBVIOUS
<1>12. CuGets(c, i, x, w)
  <2>1. cuUe[c].ph = "completing" /\ cuUe[c].id = i /\ \A d \in CuUe \ {c} : cuUe[d].id # i
    BY <1>3, <1>4, <1>5, OwnerIs DEF HasPhase
  <2>2. PICK v : v = [cuUe[c] EXCEPT !.ph = x]
    OBVIOUS
  <2>3. cuUe'[c] = v /\ \A d \in CuUe \ {c} : cuUe'[d] = cuUe[d]
    BY <1>2, <1>11, <2>1, <2>2
  <2>4. v \in CuCb /\ v.id = i /\ v.ph = x /\ v.rbs = w
    BY <1>7, <1>11, <2>1, <2>2, CoreParts DEF DuTypes, CuCb, Phase
  <2>5. cuUe' = [d \in CuUe |-> cuUe'[d]]
    BY <1>2
  <2>6. QED
    BY <2>3, <2>4, <2>5, CuTurns
<1>13. SameTables /\ UNCHANGED <<macUe, schUe>>
  BY <1>2, SameTablesOwn
<1>14. UNCHANGED <<udxReq, udxCfm, rlcUlRb, rlcDlRb, macUe, macLc, schLc>>
  BY <1>2, <1>13 DEF rlcOwnVars, SameTables
<1>15. CASE c \in Access
  <2>1. Completing(i) /\ x = "connected"
    BY <1>4, <1>5, <1>11, <1>15, DuUeAssumption DEF InPhase
  <2>2. UNCHANGED <<ueCb, duToMac>>
    BY <1>1, <2>1 DEF Completing, Idle, DuProcRlcUlRrcMsgTrans
  <2>3. \A j : InMac(j)' = InMac(j)
    BY <1>2, <2>2, MacQStill
  <2>4. MacReqs(i, w)'
    BY <1>9, <1>13, <2>2, MacReqsStay DEF NoneNewMac, SameTables
  <2>5. macUe[i] # "NONE" /\ w = {Srb1}
    BY <1>5, <1>8, <1>15 DEF BearersOf
  <2>6. BearersOf(c, "connected", i, w)'
    <3>1. "connected" \notin Gone /\ "connected" \notin {"asked", "handin"}
      BY DEF Gone
    <3>2. QED
      BY <1>2, <1>8, <1>9, <1>10, <1>14, <2>4, <2>5, <3>1, BearersMove
  <2>7. \A j \in Id \ {i} : ueCb'[j] = ueCb[j] /\ NoneSent(j)
    BY <1>2, <2>2 DEF NoneSent, NoneNewMac
  <2>8. Bearers'
    BY <1>2, <1>3, <1>4, <1>6, <1>12, <2>1, <2>3, <2>6, <2>7, DuBears
  <2>9. RlcHas(i, w) /\ MacHas(i, w)
    <3>1. \A y \in InRlc(i) : y.at = "rlcToDu" /\ y.ev # "DL_RRC"
      BY <2>1 DEF Completing
    <3>2. QED
      BY <1>9, <2>5, <3>1 DEF RlcDone
  <2>10. w # {} /\ PhIn(c, ph) = "asked" /\ PhIn(c, x) = "in"
    BY <1>5, <1>9, <1>15, <2>1 DEF PhIn, Out
  <2>11. LifeStep
    BY <1>3, <1>4, <1>7, <1>12, <1>13, <2>9, <2>10, Answers
  <2>12. QED
    BY <2>8, <2>11
<1>16. CASE c \notin Access
  <2>1. Arrived(i) /\ c \in HandIn /\ x = "ready"
    BY <1>4, <1>5, <1>11, <1>16 DEF InPhase, CuUe
  <2>2. ueCb' = [ueCb EXCEPT ![i] = u] /\ SendToMac("RACH_REL", i, NoDb)
    <3>1. [ueCb EXCEPT ![i].state = "ACTIVE"] = [ueCb EXCEPT ![i] = u]
      BY <1>1, <1>3, CoreParts DEF DuTypes
    <3>2. QED
      BY <1>1, <2>1, <3>1 DEF Arrived, Idle, DuProcRlcUlRrcMsgTrans, HandInDone
  <2>3. \A j \in Id \ {i} : ueCb'[j] = ueCb[j]
    <3>1. ueCb[i] \in UeCb
      BY <1>3, CoreParts DEF DuTypes
    <3>2. u \in UeCb
      BY <1>1, <3>1 DEF UeCb
    <3>3. QED
      BY <1>3, <2>2, <3>2, SetUeCb
  <2>4. \A j : j # i => InMac(j)' = InMac(j)
    <3>1. \A y \in InMac(i) : y.at = "duToMac" => y.ev # "RACH_REL"
      BY <2>1 DEF Arrived
    <3>2. PICK n : n = ReqTok("duToMac", "RACH_REL")
      OBVIOUS
    <3>3. QED
      BY <1>2, <1>3, <2>2, <3>1, <3>2, NoDbType, DuAsksMac
  <2>5. PICK m : m.ue = i /\ m.ev = "RACH_REL" /\ ToSet(duToMac') = ToSet(duToMac) \union {m}
    BY <1>3, <2>2, NoDbType, SentToMac
  <2>6. MacReqs(i, w)'
    BY <1>9, <1>13, <2>5 DEF MacReqs, MacGives, SameTables
  <2>7. BearersOf(c, "ready", i, w)'
    <3>1. "ready" \notin Gone /\ "ready" \notin {"asked", "handin"}
      BY DEF Gone
    <3>2. QED
      BY <1>2, <1>8, <1>9, <1>10, <1>14, <1>16, <2>6, <3>1, BearersMove
  <2>8. \A j \in Id \ {i} : NoneSent(j)
    BY <1>2, <2>5 DEF NoneSent, NoneNewMac
  <2>9. Bearers'
    BY <1>2, <1>3, <1>4, <1>6, <1>12, <2>1, <2>3, <2>4, <2>7, <2>8, DuBears
  <2>10. PhIn(c, x) = PhIn(c, ph)
    BY <1>5, <1>16, <2>1 DEF PhIn, Out
  <2>11. LifeStep
    BY <1>3, <1>4, <1>7, <1>12, <1>13, <2>10, MovesOn
  <2>12. QED
    BY <2>9, <2>11
<1>17. QED
  BY <1>15, <1>16

-----------------------------------------------------------------------------
(* The UEs.                                                                  *)

LEMMA UeRrcBears ==
    ASSUME Core, Core', Bearers, NEW c \in CuUe, UeRrc(c)
    PROVE  Bearers' /\ LifeStep
<1>1. PICK i, n, w : i = cuUe[c].id /\ n = Tok("rlcToDu", "UL_RRC", TRUE) /\ w = cuUe[c].rbs
  OBVIOUS
<1>2. /\ cuUe[c].ph = "connecting" /\ i \in schMsg4Done /\ Srb1 \in rlcUlRb[i]
      /\ cuUe' = [cuUe EXCEPT ![c].ph = "completing"]
      /\ rlcToDu' = Append(rlcToDu, [ev |-> "UL_RRC", ue |-> i, ok |-> TRUE])
      /\ UNCHANGED <<duToRlc, rlcOwnVars, macVars, duVars, duToRlcDl>>
  BY <1>1 DEF UeRrc
<1>3. i \in Id /\ HasPhase(c, "connecting", i) /\ InPhase(c, "connecting", i)
  BY <1>1, <1>2, PhaseIs
<1>4. IF c \in Access THEN Connecting(i) ELSE Arriving(i)
  BY <1>3 DEF InPhase
<1>5. \A x \in InRlc(i) : x.at = "rlcToDu" /\ x.ev = "CREATE"
  BY <1>2, <1>4 DEF Connecting, Arriving
<1>6. InRlc(i)' = With(InRlc(i), n) /\ \A j : j # i => InRlc(j)' = InRlc(j)
  BY <1>1, <1>2, <1>3, <1>5, RlcSends DEF rlcOwnVars
<1>7. \A j : SameMac(j)
  BY <1>2, MacStill
<1>8. /\ UNCHANGED <<udxReq, udxCfm, rlcUlUe, rlcUlRb, rlcDlRb, duToMac, macUe, schUe, macLc, schLc>>
      /\ UNCHANGED ueCb
  BY <1>2 DEF rlcOwnVars, macVars, macUeVars, duVars
<1>9. \A j \in Id \ {i} : Quiet(j)
  BY <1>2, <1>6, <1>7, <1>8 DEF Quiet, Same, SameRlc, NoneNewRlc, NoneNewMac
<1>10. BearersOf(c, "connecting", i, w) /\ "connecting" \notin Gone
  BY <1>1, <1>3, GoneHasNone DEF Gone
<1>11. MacReqs(i, w) /\ RlcHas(i, w) /\ (macUe[i] # "NONE" => MacHas(i, w))
  BY <1>5, <1>10 DEF BearersOf, RlcDone, MacDone
<1>12. RlcDone(i, w)' /\ MacReqs(i, w)'
  BY <1>8, <1>11, MacReqsStay DEF RlcDone, RlcHas, NoneNewMac
<1>13. c \in Access => w = {Srb1} /\ macUe[i] # "NONE"
  BY <1>2, <1>4, <1>10 DEF BearersOf, Connecting
<1>14. BearersOf(c, "completing", i, w)'
  <2>1. "completing" \notin Gone /\ "completing" \notin {"asked", "handin"}
    BY DEF Gone
  <2>2. QED
    BY <1>2, <1>8, <1>10, <1>11, <1>12, <1>13, <2>1, BearersMove
<1>15. CuGets(c, i, "completing", w)
  BY <1>1, <1>2, <1>3, CuPhGets DEF Phase
<1>16. \A d \in CuUe : cuUe[d].id = i => d = c
  BY <1>3, OwnerIs
<1>17. Bearers'
  BY <1>3, <1>9, <1>14, <1>15, <1>16, BearsAt
<1>18. SameTables /\ PhIn(c, "completing") = PhIn(c, "connecting")
  BY <1>8 DEF SameTables, PhIn, Out
<1>19. LifeStep
  BY <1>1, <1>3, <1>15, <1>18, MovesOn
<1>20. QED
  BY <1>17, <1>19

LEMMA UeHandInBears ==
    ASSUME Core, Core', Bearers, NEW c \in CuUe, UeHandIn(c)
    PROVE  Bearers' /\ LifeStep
<1>1. PICK i, w : i = cuUe[c].id /\ w = cuUe[c].rbs
  OBVIOUS
<1>2. /\ cuUe[c].ph = "arriving" /\ RachCfra(i)
      /\ cuUe' = [cuUe EXCEPT ![c].ph = "connecting"]
      /\ UNCHANGED <<rlcVars, duVars, duToRlcDl>>
  BY <1>1 DEF UeHandIn, UeStep
<1>3. i \in Id /\ HasPhase(c, "arriving", i) /\ InPhase(c, "arriving", i)
  BY <1>1, <1>2, PhaseIs
<1>4. Arriving(i) /\ c \notin Access
  BY <1>3, DuUeAssumption DEF InPhase
<1>5. /\ schUe' = schUe \/ schUe' = [schUe EXCEPT ![i] = "ACTIVE"]
      /\ schMsg4Done' = schMsg4Done \union {i} \/ schMsg4Done' = schMsg4Done \ {i}
      /\ UNCHANGED <<duToMac, macToDu, macRaCb, msg4Pdu, macCfra, schPreamble, macUe, macLc, schLc>>
  BY <1>2 DEF RachCfra
<1>6. \A j : InMac(j)' = InMac(j)
  BY <1>5 DEF InMac
<1>7. \A j : InRlc(j)' = InRlc(j) /\ SameRlc(j)
  BY <1>2, RlcUnchanged DEF SameRlc
<1>8. \A j \in Id \ {i} : SameMac(j)
  BY <1>5, <1>6, CoreParts DEF SameMac, MacData
<1>9. UNCHANGED <<duToRlc, udxReq, udxCfm, rlcUlRb, rlcDlRb, duToMac, macUe, macLc, schLc, ueCb>>
  BY <1>2, <1>5 DEF rlcVars, duVars
<1>10. \A j \in Id \ {i} : Quiet(j)
  BY <1>7, <1>8, <1>9 DEF Quiet, Same, NoneNewRlc, NoneNewMac
<1>11. BearersOf(c, "arriving", i, w) /\ "arriving" \notin Gone
  BY <1>1, <1>3, GoneHasNone DEF Gone
<1>12. RlcDone(i, w)' /\ (macUe[i] # "NONE" => MacHas(i, w))
  BY <1>7, <1>9, <1>11 DEF BearersOf, RlcDone, RlcHas, MacDone
<1>13. MacReqs(i, w)'
  <2>1. \A m \in ToSet(duToMac) : m.ue # i
    BY <1>4, NoneInMac DEF Arriving
  <2>2. QED
    BY <1>9, <2>1 DEF MacReqs
<1>14. BearersOf(c, "connecting", i, w)'
  <2>1. "connecting" \notin Gone /\ "connecting" \notin {"asked", "handin"}
    BY DEF Gone
  <2>2. QED
    BY <1>4, <1>9, <1>11, <1>12, <1>13, <2>1, BearersMove
<1>15. CuGets(c, i, "connecting", w)
  BY <1>1, <1>2, <1>3, CuPhGets DEF Phase
<1>16. \A d \in CuUe : cuUe[d].id = i => d = c
  BY <1>3, OwnerIs
<1>17. Bearers'
  BY <1>3, <1>10, <1>14, <1>15, <1>16, BearsAt
<1>18. SameTables /\ PhIn(c, "connecting") = PhIn(c, "arriving")
  BY <1>4, <1>9 DEF SameTables, PhIn, Out
<1>19. LifeStep
  BY <1>1, <1>3, <1>15, <1>18, MovesOn
<1>20. QED
  BY <1>17, <1>19

LEMMA UeAccessBears ==
    ASSUME Core, Core', Bearers, NEW c \in Access, NEW i \in Id, UeAccess(c, i)
    PROVE  Bearers' /\ LifeStep
<1>1. /\ cuUe[c].ph = "idle" /\ i \notin ueBitMap /\ c \in CuUe
      /\ UNCHANGED <<rlcVars, duToRlcDl>> /\ UNCHANGED duVars
  BY DEF UeAccess, Rach, FreeBit, CuUe, UeStep
<1>2. /\ macRaCb' = macRaCb \union {i} /\ msg4Pdu' = msg4Pdu \ {i}
      /\ schMsg4Done' = schMsg4Done \ {i}
      /\ ToDu("UL_CCCH", i, TRUE)
      /\ UNCHANGED <<duToMac, macCfra, schPreamble>> /\ UNCHANGED macUeVars
      /\ cuUe' = [cuUe EXCEPT ![c].ph = "access", ![c].id = i]
  BY DEF UeAccess, Rach
<1>3. PICK m : m = [ev |-> "UL_CCCH", ue |-> i, ok |-> TRUE]
  OBVIOUS
<1>4. m \in MacToDu /\ Ue(m) = i
  BY <1>3 DEF MacToDu, RspMsg, Ue
<1>5. macToDu \in Seq(MacToDu) /\ macToDu' = Put(macToDu, m)
  BY <1>2, <1>3, CoreParts DEF MacQ, ToDu, Put
<1>6. \A j : InMac(j)' = MacToks(duToMac, Put(macToDu, m), j)
  BY <1>2, <1>5 DEF InMac
<1>7. \A j : j # i => InMac(j)' = InMac(j)
  BY <1>4, <1>5, <1>6, MacPutRspOthers, InMacIs
<1>8. \A j : SameRlc(j)
  BY <1>1, RlcUnchanged
<1>9. UNCHANGED <<duToRlc, udxReq, udxCfm, rlcUlRb, rlcDlRb, macUe, schUe, macLc, schLc, ueCb>>
  BY <1>1, <1>2 DEF rlcVars, duVars, macUeVars
<1>10. \A j \in Id \ {i} : Quiet(j)
  BY <1>2, <1>7, <1>8, <1>9 DEF Quiet, Same, SameMac, NoneNewRlc, NoneNewMac
<1>11. cuUe[c].rbs = {}
  BY <1>1 DEF Bearers, BearersOf, Gone
<1>12. CuGets(c, i, "access", {})
  <2>1. PICK v : v = [cuUe[c] EXCEPT !.ph = "access", !.id = i]
    OBVIOUS
  <2>2. v \in CuCb /\ v.id = i /\ v.ph = "access" /\ v.rbs = {}
    BY <1>1, <1>11, <2>1, CoreParts DEF DuTypes, CuCb, Phase
  <2>3. cuUe' = [cuUe EXCEPT ![c] = v]
    BY <1>1, <1>2, <2>1, CoreParts DEF DuTypes
  <2>4. cuUe'[c] = v /\ \A d \in CuUe \ {c} : cuUe'[d] = cuUe[d]
    BY <1>1, <2>3, CoreParts DEF DuTypes
  <2>5. cuUe' = [d \in CuUe |-> cuUe'[d]]
    BY <2>3, CoreParts DEF DuTypes
  <2>6. QED
    BY <1>1, <2>2, <2>4, <2>5, CuTurns
<1>13. \A d \in CuUe : cuUe[d].id # i
  <2>1. i # 0
    BY SMT, MaxNumUeAssumption DEF Id
  <2>2. QED
    BY <1>1, <2>1 DEF Core, Owners
<1>14. BearersOf(c, "access", i, {})'
  BY BearersOfGone DEF Gone
<1>15. Bearers'
  BY <1>1, <1>10, <1>12, <1>13, <1>14, BearsAt
<1>16. SameTables /\ "access" \in Out
  BY <1>9 DEF SameTables, Out
<1>17. LifeStep
  BY <1>1, <1>12, <1>16, ComesQuietly
<1>18. QED
  BY <1>15, <1>17

-----------------------------------------------------------------------------
(* What the CU asks.                                                         *)

LEMMA CuPhRbsGets ==
    ASSUME Core, NEW c \in CuUe, NEW ph, NEW i, HasPhase(c, ph, i), NEW x \in Phase, NEW rbs \in SUBSET Rb,
           cuUe' = [cuUe EXCEPT ![c].ph = x, ![c].rbs = rbs]
    PROVE  CuGets(c, i, x, rbs)
<1>1. CuMoves(c, i, x)
  BY CuPhRbs
<1>2. cuUe'[c].rbs = rbs
  BY CoreParts DEF DuTypes
<1>3. QED
  BY <1>1, <1>2 DEF CuGets

\* The CU asks a UE that is there for bearers w.
LEMMA CuRecfgBears ==
    ASSUME Core, Core', Bearers, CuSends,
           NEW c \in Access, NEW i \in Id, NEW ph \in {"connected", "ready"}, HasPhase(c, ph, i),
           Late(i), InRlc(i) = {}, NEW u \in UeCb, u.db.op # "STOP",
           (RecfgReq(i, u) /\ UNCHANGED duToRlcDl) \/ (RrcMsgFirst(i, u) /\ u.db.rrc),
           u.db.rbs \subseteq Drb, NEW w \in SUBSET Rb, CuGets(c, i, "asked", w),
           Srb1 \in w, Gives(CfgOp(u.db), u.db.rbs, cuUe[c].rbs, w)
    PROVE  Bearers' /\ LifeStep
<1>1. UNCHANGED <<rlcOwnVars, macOwnVars>> /\ UNCHANGED <<rlcToDu, macToDu>> /\ c \in CuUe
  BY DEF CuSends, CuUe
<1>2. PICK old : old = cuUe[c].rbs
  OBVIOUS
<1>3. BearersOf(c, ph, i, old) /\ ph \notin Gone
  BY <1>1, <1>2, GoneHasNone DEF Gone
<1>4. RlcHas(i, old) /\ MacHas(i, old) /\ macUe[i] # "NONE"
  BY <1>3 DEF BearersOf, RlcDone, MacDone
<1>5. RlcGives(CfgOp(u.db), u.db.rbs, i, w) /\ MacGives(CfgOp(u.db), u.db.rbs, i, w)
  BY <1>2, <1>4 DEF RlcHas, MacHas, RlcGives, MacGives
<1>6. /\ BearersOf(c, "asked", i, w)'
      /\ \A j \in Id \ {i} : ueCb'[j] = ueCb[j] /\ NoneSent(j)
      /\ \A j \in Id \ {i} : InMac(j)' = InMac(j) /\ InRlc(j)' = InRlc(j)
  <2>1. CASE RecfgReq(i, u) /\ UNCHANGED duToRlcDl
    <3>1. SendToRlc("RECONFIG", i, u.db) /\ u.db \in Db
      BY <2>1 DEF RecfgReq, UeCb
    <3>2. PICK r : r = ReqTok("duToRlc", "RECONFIG")
      OBVIOUS
    <3>3. r.at = "duToRlc" /\ r.ev = "RECONFIG" /\ "RECONFIG" \in RlcEvent
      BY <3>2, TokFields DEF RlcEvent
    <3>4. InRlc(i)' = With(InRlc(i), r) /\ \A j : j # i => InRlc(j)' = InRlc(j)
      BY <1>1, <2>1, <3>1, <3>2, <3>3, DuAsksRlc
    <3>5. InRlc(i)' = {r} /\ \A x \in InRlc(i) : x.at \notin {"duToRlc", "udxReq", "udxCfm"}
      BY <3>4 DEF With
    <3>6. /\ BearersOf(c, "asked", i, w)'
          /\ \A j \in Id \ {i} : ueCb'[j] = ueCb[j] /\ NoneSent(j) /\ InMac(j)' = InMac(j)
      BY <1>1, <1>4, <1>5, <2>1, <3>3, <3>5, RecfgReqBears
    <3>7. QED
      BY <3>4, <3>6
  <2>2. CASE RrcMsgFirst(i, u) /\ u.db.rrc
    <3>1. BearersOf(c, "asked", i, w)'
      BY <1>1, <1>4, <1>5, <2>2, RrcFirstBears
    <3>2. /\ \A j \in Id \ {i} : ueCb'[j] = ueCb[j]
          /\ \A j : j # i => InMac(j)' = InMac(j)
          /\ \A j : j # i => InRlc(j)' = InRlc(j)
      BY <1>1, <2>2, RrcMsgFirstMoves
    <3>3. \A j : NoneSent(j)
      BY <2>2 DEF RrcMsgFirst, NoneSent, NoneNewMac
    <3>4. QED
      BY <3>1, <3>2, <3>3
  <2>3. QED
    BY <2>1, <2>2
<1>7. Bearers'
  BY <1>1, <1>6, DuBears
<1>8. PhIn(c, ph) = "in" /\ PhIn(c, "asked") = "asked"
  BY DEF PhIn, Out
<1>9. LifeStep
  BY <1>1, <1>8, Asks, SameTablesOwn
<1>10. QED
  BY <1>7, <1>9

LEMMA CtxtSetupBears ==
    ASSUME Core, Core', Bearers, NEW c \in Access, NEW rbs \in SUBSET Drb, NEW rrc \in BOOLEAN,
           CtxtSetup(c, rbs, rrc)
    PROVE  Bearers' /\ LifeStep
<1>1. cuUe[c].ph = "connected" /\ CuSends
  BY DEF CtxtSetup
<1>2. PICK i \in Id, ph \in Phase :
        /\ i = cuUe[c].id /\ ph \in {"connected", "ready"} /\ HasPhase(c, ph, i)
        /\ ph = cuUe[c].ph
        /\ Est(i) /\ Late(i) /\ InRlc(i) = {} /\ Idle(i, "ACTIVE")
        /\ ueCb[i] \in UeCb /\ ueCb[i].cu = c
  BY <1>1, AtRest
<1>3. PICK db, u : /\ db = [act |-> "SETUP", rrc |-> rrc, op |-> "ADD", rbs |-> rbs]
                   /\ u = [ueCb[i] EXCEPT !.db = db]
  BY Zenon
<1>4. /\ db \in Db /\ db.act = "SETUP" /\ db.op = "ADD" /\ db.rbs = rbs /\ db.rrc = rrc
      /\ CfgOp(db) = "ADD"
  BY <1>3 DEF Db, Drb, CfgOp
<1>5. u \in UeCb /\ u.cu = c /\ u.state = "ACTIVE" /\ u.db = db
  BY <1>2, <1>3, <1>4 DEF UeCb, Idle
<1>6. (RecfgReq(i, u) /\ UNCHANGED duToRlcDl) \/ (RrcMsgFirst(i, u) /\ u.db.rrc)
  <2>1. IF rrc THEN RrcMsgFirst(i, u) ELSE SetupReq(i, u)
    BY <1>2, <1>3 DEF CtxtSetup
  <2>2. CASE rrc
    BY <1>4, <1>5, <2>1, <2>2
  <2>3. CASE ~rrc
    <3>1. RecfgReq(i, u)
      BY <1>5, <2>1, <2>3 DEF SetupReq
    <3>2. UNCHANGED duToRlcDl
      BY <3>1 DEF RecfgReq
    <3>3. QED
      BY <3>1, <3>2
  <2>4. QED
    BY <2>2, <2>3
<1>7. PICK w : w = cuUe[c].rbs \union rbs
  OBVIOUS
<1>8. c \in CuUe /\ cuUe[c].rbs = {Srb1}
  BY <1>1 DEF CuUe, Bearers, BearersOf
<1>9. w \in SUBSET Rb /\ Srb1 \in w /\ Gives("ADD", rbs, cuUe[c].rbs, w)
  BY <1>7, <1>8, DuUeAssumption DEF Gives, Drb
<1>10. CuGets(c, i, "asked", w)
  <2>1. cuUe' = [cuUe EXCEPT ![c].ph = "asked", ![c].rbs = w]
    BY <1>7, <1>8, CoreParts DEF CtxtSetup, DuTypes
  <2>2. HasPhase(c, ph, i) /\ "asked" \in Phase
    BY <1>2 DEF Phase
  <2>3. QED
    BY <1>8, <1>9, <2>1, <2>2, CuPhRbsGets
<1>11. QED
  BY <1>1, <1>2, <1>4, <1>5, <1>6, <1>9, <1>10, CuRecfgBears

LEMMA CtxtModBears ==
    ASSUME Core, Core', Bearers, NEW c \in Access, NEW op \in {"ADD", "MODIFY"},
           NEW rbs \in SUBSET Drb, NEW rrc \in BOOLEAN, CtxtMod(c, op, rbs, rrc),
           IF op = "ADD" THEN rbs \intersect cuUe[c].rbs = {} ELSE rbs \subseteq cuUe[c].rbs
    PROVE  Bearers' /\ LifeStep
<1>1. cuUe[c].ph = "ready" /\ CuSends
  BY DEF CtxtMod
<1>2. PICK i \in Id, ph \in Phase :
        /\ i = cuUe[c].id /\ ph \in {"connected", "ready"} /\ HasPhase(c, ph, i)
        /\ ph = cuUe[c].ph
        /\ Est(i) /\ Late(i) /\ InRlc(i) = {} /\ Idle(i, "ACTIVE")
        /\ ueCb[i] \in UeCb /\ ueCb[i].cu = c
  BY <1>1, AtRest
<1>3. PICK db, u : /\ db = [act |-> "MOD", rrc |-> rrc, op |-> op, rbs |-> rbs]
                   /\ u = [ueCb[i] EXCEPT !.db = db]
  BY Zenon
<1>4. /\ db \in Db /\ db.act = "MOD" /\ db.op # "STOP" /\ db.rbs = rbs /\ db.rrc = rrc
      /\ CfgOp(db) = op
  BY <1>3 DEF Db, Drb, CfgOp
<1>5. u \in UeCb /\ u.cu = c /\ u.state = "ACTIVE" /\ u.db = db
  BY <1>2, <1>3, <1>4 DEF UeCb, Idle
<1>6. (RecfgReq(i, u) /\ UNCHANGED duToRlcDl) \/ (RrcMsgFirst(i, u) /\ u.db.rrc)
  <2>1. ueCb[i].db = NoDb
    BY <1>2 DEF Idle
  <2>2. u = [ueCb[i] EXCEPT !.db = [act |-> IF @.act = "NONE" THEN "MOD" ELSE @.act,
                                    rrc |-> rrc, op |-> op, rbs |-> rbs]]
    BY <1>2, <1>3, <2>1 DEF NoDb, UeCb
  <2>3. IF rrc THEN RrcMsgFirst(i, u) ELSE RecfgReq(i, u)
    BY <1>2, <2>2 DEF CtxtMod
  <2>4. CASE rrc
    BY <1>4, <1>5, <2>3, <2>4
  <2>5. CASE ~rrc
    <3>1. RecfgReq(i, u)
      BY <2>3, <2>5
    <3>2. UNCHANGED duToRlcDl
      BY <3>1 DEF RecfgReq
    <3>3. QED
      BY <3>1, <3>2
  <2>6. QED
    BY <2>4, <2>5
<1>7. PICK w : w = CASE op = "ADD" -> cuUe[c].rbs \union rbs
                     [] OTHER -> cuUe[c].rbs
  OBVIOUS
<1>8. c \in CuUe /\ cuUe[c].rbs \in SUBSET Rb /\ Srb1 \in cuUe[c].rbs
  <2>1. c \in CuUe /\ cuUe[c].ph \notin Gone
    BY <1>1 DEF CuUe, Gone
  <2>2. QED
    BY <2>1, CoreParts DEF DuTypes, Bearers, BearersOf
<1>9. w \in SUBSET Rb /\ Srb1 \in w
  BY <1>7, <1>8 DEF Drb
<1>10. Gives(op, rbs, cuUe[c].rbs, w)
  BY <1>7 DEF Gives
<1>11. CuGets(c, i, "asked", w)
  <2>1. cuUe' = [cuUe EXCEPT ![c].ph = "asked", ![c].rbs = w]
    BY <1>7, <1>8, CoreParts DEF CtxtMod, DuTypes
  <2>2. HasPhase(c, ph, i) /\ "asked" \in Phase
    BY <1>2 DEF Phase
  <2>3. QED
    BY <1>8, <1>9, <2>1, <2>2, CuPhRbsGets
<1>12. QED
  BY <1>1, <1>2, <1>4, <1>5, <1>6, <1>9, <1>10, <1>11, CuRecfgBears

LEMMA CtxtReleaseBears ==
    ASSUME Core, Core', Bearers, NEW c \in Access, NEW rrc \in BOOLEAN, CtxtRelease(c, rrc)
    PROVE  Bearers' /\ LifeStep
<1>1. cuUe[c].ph \in {"connected", "ready"} /\ CuSends
  BY DEF CtxtRelease
<1>2. PICK i \in Id, ph \in Phase :
        /\ i = cuUe[c].id /\ ph \in {"connected", "ready"} /\ HasPhase(c, ph, i)
        /\ ph = cuUe[c].ph
        /\ Est(i) /\ Late(i) /\ InRlc(i) = {} /\ Idle(i, "ACTIVE")
        /\ ueCb[i] \in UeCb /\ ueCb[i].cu = c
  BY <1>1, AtRest
<1>3. PICK u, v : /\ u = [ueCb[i] EXCEPT !.db = [NoDb EXCEPT !.act = "RELEASE", !.rrc = TRUE]]
                  /\ v = ueCb[i]
  BY Zenon
<1>4. u \in UeCb /\ v \in UeCb
  BY <1>2, <1>3 DEF UeCb, NoDb, Db
<1>5. RrcMsgFirst(i, u) \/ DeleteReq(i, v)
  BY <1>2, <1>3 DEF CtxtRelease, Idle
<1>6. UNCHANGED <<rlcOwnVars, macOwnVars>> /\ UNCHANGED <<rlcToDu, macToDu>> /\ c \in CuUe
  BY <1>1 DEF CuSends, CuUe
<1>7. CuGets(c, i, "releasing", {})
  <2>1. cuUe' = [cuUe EXCEPT ![c].ph = "releasing", ![c].rbs = {}] /\ {} \in SUBSET Rb
    BY DEF CtxtRelease
  <2>2. HasPhase(c, ph, i) /\ "releasing" \in Phase
    BY <1>2 DEF Phase
  <2>3. QED
    BY <1>6, <2>1, <2>2, CuPhRbsGets
<1>8. /\ \A j \in Id \ {i} : ueCb'[j] = ueCb[j] /\ NoneSent(j)
      /\ \A j \in Id \ {i} : InMac(j)' = InMac(j) /\ InRlc(j)' = InRlc(j)
  <2>1. CASE RrcMsgFirst(i, u)
    <3>1. /\ \A j \in Id \ {i} : ueCb'[j] = ueCb[j]
          /\ \A j : j # i => InMac(j)' = InMac(j)
          /\ \A j : j # i => InRlc(j)' = InRlc(j)
      BY <1>2, <1>4, <1>6, <2>1, RrcMsgFirstMoves
    <3>2. \A j : NoneSent(j)
      BY <2>1 DEF RrcMsgFirst, NoneSent, NoneNewMac
    <3>3. QED
      BY <3>1, <3>2
  <2>2. CASE DeleteReq(i, v)
    <3>1. /\ ueCb' = [ueCb EXCEPT ![i] = [v EXCEPT !.state = "DELETION"]]
          /\ SendToRlc("DELETE", i, NoDb) /\ UNCHANGED <<duToMac, duToRlcDl>>
      BY <2>2 DEF DeleteReq
    <3>2. \A j \in Id \ {i} : ueCb'[j] = ueCb[j]
      <4>1. [v EXCEPT !.state = "DELETION"] \in UeCb
        BY <1>4 DEF UeCb
      <4>2. QED
        BY <3>1, <4>1, SetUeCb
    <3>3. \A j : j # i => InRlc(j)' = InRlc(j)
      <4>1. PICK r : r = ReqTok("duToRlc", "DELETE")
        OBVIOUS
      <4>2. "DELETE" \in RlcEvent
        BY DEF RlcEvent
      <4>3. QED
        BY <1>2, <1>6, <3>1, <4>1, <4>2, NoDbType, DuAsksRlc
    <3>4. \A j : InMac(j)' = InMac(j)
      BY <1>6, <3>1, MacQStill
    <3>5. PICK m : m.ue = i /\ ToSet(duToRlc') = ToSet(duToRlc) \union {m}
      BY <3>1, NoDbType, SentToRlc
    <3>6. QED
      BY <3>1, <3>2, <3>3, <3>4, <3>5 DEF NoneSent, NoneNewMac
  <2>3. QED
    BY <1>5, <2>1, <2>2
<1>9. BearersOf(c, "releasing", i, {})'
  BY BearersOfGone DEF Gone
<1>10. HasPhase(c, ph, i)
  BY <1>2
<1>11. Bearers'
  BY <1>6, <1>7, <1>8, <1>9, <1>10, DuBears
<1>12. PhIn(c, ph) = "in" /\ PhIn(c, "releasing") = "asked"
  BY <1>2 DEF PhIn, Out
<1>13. LifeStep
  BY <1>6, <1>7, <1>10, <1>12, Asks, SameTablesOwn
<1>14. QED
  BY <1>11, <1>13

\* What a UE is created with is on its way to RLC, which has nothing of it.
LEMMA CreatesInRlc ==
    ASSUME NEW i, NEW w, RlcEmpty(i), InRlc(i) = {}, UNCHANGED rlcOwnVars,
           NEW m, ToSet(duToRlc') = ToSet(duToRlc) \union {m}, m.op = "ADD", m.rbs = w,
           NEW r, r.at = "duToRlc", InRlc(i)' = {r}
    PROVE  RlcReqs(i, w)' /\ RlcDone(i, w)'
<1>1. UNCHANGED <<udxReq, udxCfm, rlcUlRb, rlcDlRb>>
  BY DEF rlcOwnVars
<1>2. /\ \A x \in ToSet(duToRlc) : x.ue # i
      /\ \A x \in ToSet(udxReq) : x.req.ue # i
      /\ \A x \in ToSet(udxCfm) : x.req.ue # i
  BY NoneThere
<1>3. RlcGives("ADD", w, i, w)'
  BY <1>1 DEF RlcGives, Gives, RlcEmpty
<1>4. RlcReqs(i, w)'
  BY <1>1, <1>2, <1>3 DEF RlcReqs
<1>5. RlcDone(i, w)'
  BY DEF RlcDone
<1>6. QED
  BY <1>4, <1>5

LEMMA CtxtSetupHandInBears ==
    ASSUME Core, Core', Bearers, NEW c \in HandIn, NEW i \in Id, NEW rbs \in SUBSET Drb,
           CtxtSetupHandIn(c, i, rbs)
    PROVE  Bearers' /\ LifeStep
<1>1. /\ cuUe[c].ph = "idle" /\ i \notin ueBitMap
      /\ UNCHANGED <<rlcOwnVars, macOwnVars>> /\ UNCHANGED <<rlcToDu, macToDu>> /\ c \in CuUe
  BY DEF CtxtSetupHandIn, FreeBit, CuSends, CuUe
<1>2. PICK w, db, u, v, r, n :
        /\ w = rbs \union {Srb1}
        /\ db = [act |-> "SETUP", rrc |-> FALSE, op |-> "ADD", rbs |-> w]
        /\ u = [ueCb[i] EXCEPT !.cu = c, !.state = "HANDIN", !.db = db]
        /\ v = [u EXCEPT !.rlc = "INPROGRESS", !.mac = "INPROGRESS"]
        /\ r = ReqTok("duToRlc", "CREATE") /\ n = ReqTok("duToMac", "CREATE")
  BY Zenon
<1>3. w \in (SUBSET Rb) \ {{}} /\ Srb1 \in w
  BY <1>2, DuUeAssumption DEF Drb
<1>4. db \in Db /\ CfgOp(db) = "ADD" /\ db.rbs = w
  BY <1>2, <1>3 DEF Db, CfgOp
<1>5. Unused(i)
  BY <1>1 DEF Core, Lives
<1>6. u \in UeCb /\ u.state = "HANDIN" /\ u.db = db
  BY <1>1, <1>2, <1>4, <1>5, NoUeCbType DEF Unused, UeCb
<1>7. v \in UeCb
  BY <1>2, <1>6 DEF UeCb, CfgState
<1>8. SetupReq(i, u) /\ cuUe' = [cuUe EXCEPT ![c] = [ph |-> "handin", id |-> i, rbs |-> w]]
  BY <1>2 DEF CtxtSetupHandIn
<1>9. /\ ueCb' = [ueCb EXCEPT ![i] = v]
      /\ SendToRlc("CREATE", i, db) /\ SendToMac("CREATE", i, db) /\ UNCHANGED duToRlcDl
  BY <1>2, <1>6, <1>8 DEF SetupReq
<1>10. \A j \in Id \ {i} : ueCb'[j] = ueCb[j]
  BY <1>7, <1>9, SetUeCb
<1>11. r.at = "duToRlc" /\ n.ev = "CREATE" /\ "CREATE" \in RlcEvent
  BY <1>2, TokFields DEF RlcEvent
<1>12. InRlc(i)' = {r} /\ \A j : j # i => InRlc(j)' = InRlc(j)
  <2>1. InRlc(i) = {}
    BY <1>5 DEF Unused
  <2>2. InRlc(i)' = With(InRlc(i), r) /\ \A j : j # i => InRlc(j)' = InRlc(j)
    BY <1>1, <1>2, <1>4, <1>9, <1>11, <2>1, DuAsksRlc
  <2>3. QED
    BY <2>1, <2>2 DEF With
<1>13. InMac(i)' = {n} /\ \A j : j # i => InMac(j)' = InMac(j)
  <2>1. InMac(i) = {}
    BY <1>5 DEF Unused
  <2>2. InMac(i)' = With(InMac(i), n) /\ \A j : j # i => InMac(j)' = InMac(j)
    BY <1>1, <1>2, <1>4, <1>9, <2>1, DuAsksMac
  <2>3. QED
    BY <2>1, <2>2 DEF With
<1>14. PICK x : /\ ToSet(duToRlc') = ToSet(duToRlc) \union {x}
                /\ x.ue = i /\ x.op = "ADD" /\ x.rbs = w
  BY <1>4, <1>9, SentToRlc
<1>15. PICK y : /\ ToSet(duToMac') = ToSet(duToMac) \union {y}
                /\ y.ue = i /\ y.ev = "CREATE" /\ y.lcs = w
  BY <1>4, <1>9, SentToMac
<1>16. UNCHANGED <<udxReq, udxCfm, rlcUlRb, rlcDlRb, macUe, schUe, macLc, schLc>>
  BY <1>1 DEF rlcOwnVars, macOwnVars, macUeVars
<1>17. RlcReqs(i, w)' /\ RlcDone(i, w)'
  BY <1>1, <1>5, <1>11, <1>12, <1>14, CreatesInRlc DEF Unused
<1>18. MacReqs(i, w)'
  <2>1. \A m \in ToSet(duToMac) : m.ue # i
    BY <1>5, NoneInMac DEF Unused
  <2>2. macUe'[i] = "NONE" /\ schUe'[i] = "NONE"
    BY <1>5, <1>16 DEF Unused, MacEmpty
  <2>3. QED
    BY <1>15, <2>1, <2>2 DEF MacReqs
<1>19. MacDone("handin", i, w)'
  BY <1>5, <1>11, <1>13, <1>16 DEF MacDone, Unused, MacEmpty
<1>20. BearersOf(c, "handin", i, w)'
  BY <1>3, <1>17, <1>18, <1>19 DEF BearersOf, Gone
<1>21. CuGets(c, i, "handin", w)
  <2>1. PICK z : z = [ph |-> "handin", id |-> i, rbs |-> w]
    OBVIOUS
  <2>2. z \in CuCb /\ z.id = i /\ z.ph = "handin" /\ z.rbs = w
    BY <1>3, <2>1 DEF CuCb, Phase
  <2>3. cuUe' = [cuUe EXCEPT ![c] = z]
    BY <1>8, <2>1
  <2>4. cuUe'[c] = z /\ (\A d \in CuUe \ {c} : cuUe'[d] = cuUe[d]) /\ cuUe' = [d \in CuUe |-> cuUe'[d]]
    BY <1>1, <2>3, CoreParts DEF DuTypes
  <2>5. QED
    BY <1>1, <2>2, <2>4, CuTurns
<1>22. \A j \in Id \ {i} : Quiet(j)
  <2>1. \A j \in Id \ {i} : Same(j)
    BY <1>1, <1>10, <1>12, <1>13, OwnKept, SameMacIs DEF Same, SameRlc, SameRlcOwn
  <2>2. QED
    BY <1>14, <1>15, <1>16, <2>1 DEF Quiet, NoneNewRlc, NoneNewMac
<1>23. cuUe[c].id = 0 /\ \A d \in CuUe : cuUe[d].id # i
  <2>1. i # 0
    BY SMT, MaxNumUeAssumption DEF Id
  <2>2. QED
    BY <1>1, <2>1 DEF Core, Owners
<1>24. Bearers'
  BY <1>1, <1>20, <1>21, <1>22, <1>23, BearsAt
<1>25. PhIn(c, "handin") = "asked" /\ cuUe[c].ph \in Out /\ RlcEmpty(i) /\ MacEmpty(i)
  BY <1>1, <1>5 DEF PhIn, Out, Unused
<1>26. LifeStep
  BY <1>1, <1>3, <1>21, <1>23, <1>25, Enters, SameTablesOwn
<1>27. QED
  BY <1>24, <1>26

LEMMA RrcSetupBears ==
    ASSUME Core, Core', Bearers, numActvUes < MaxNumUe, NEW c \in CuUe, RrcSetup(c)
    PROVE  Bearers' /\ LifeStep
<1>1. PICK i, ctxt, db, u, m, n, w :
        /\ i = cuUe[c].id /\ ctxt = {k \in 0 .. numUe - 1 : ueCcchCtxt[k] = i}
        /\ db = [NoDb EXCEPT !.rbs = {Srb1}] /\ w = {Srb1}
        /\ u = [NoUeCb EXCEPT !.cu = c, !.state = "ACTIVE"]
        /\ m = MacReq("DL_CCCH", i, NoDb) /\ n = MacReq("CREATE", i, db)
  BY Zenon
<1>2. /\ cuUe[c].ph = "initial" /\ UNCHANGED duToRlcDl
      /\ UNCHANGED <<rlcOwnVars, macOwnVars>> /\ UNCHANGED <<rlcToDu, macToDu>>
  BY DEF RrcSetup, CuSends
<1>3. /\ i \in Id /\ HasPhase(c, "initial", i) /\ InPhase(c, "initial", i)
      /\ \A d \in CuUe : cuUe[d].id = i => d = c
  BY <1>1, <1>2, PhaseIs
<1>4. Initial(i) /\ New(i) /\ c \in Access
  BY <1>3 DEF InPhase, Initial
<1>5. numUe = 1 /\ ueCcchCtxt[0] = i
  BY <1>1, <1>2 DEF Core, Ccch
<1>6. ctxt = {0}
  <2>1. 0 .. numUe - 1 = {0}
    BY <1>5, SMT
  <2>2. QED
    BY <1>1, <1>5, <2>1
<1>7. /\ ueCb' = [ueCb EXCEPT ![i] = u]
      /\ duToMac' = Append(Append(duToMac, m), n)
      /\ SendToRlc("CREATE", i, db)
      /\ cuUe' = [cuUe EXCEPT ![c].ph = "connecting", ![c].rbs = w]
  BY <1>1, <1>6 DEF RrcSetup
<1>8. db \in Db /\ w \in (SUBSET Rb) \ {{}} /\ Srb1 \in w /\ CfgOp(db) = "ADD" /\ db.rbs = w
  BY <1>1, NoDbType, DuUeAssumption DEF Db, NoDb, CfgOp
<1>9. u \in UeCb
  BY <1>1, NoUeCbType DEF UeCb, NoUeCb
<1>10. \A j \in Id \ {i} : ueCb'[j] = ueCb[j]
  BY <1>3, <1>7, <1>9, SetUeCb
<1>11. PICK r, x, y : /\ r = ReqTok("duToRlc", "CREATE")
                      /\ x = ReqTok("duToMac", "DL_CCCH") /\ y = ReqTok("duToMac", "CREATE")
  BY Zenon
<1>12. r.at = "duToRlc" /\ "CREATE" \in RlcEvent
  BY <1>11, TokFields DEF RlcEvent
<1>13. InRlc(i)' = {r} /\ \A j : j # i => InRlc(j)' = InRlc(j)
  <2>1. InRlc(i) = {}
    BY <1>4 DEF New
  <2>2. InRlc(i)' = With(InRlc(i), r) /\ \A j : j # i => InRlc(j)' = InRlc(j)
    BY <1>2, <1>3, <1>7, <1>8, <1>11, <1>12, <2>1, DuAsksRlc
  <2>3. QED
    BY <2>1, <2>2 DEF With
<1>14. duToMac \in Seq(DuToMac) /\ Distinct(duToMac) /\ duToMac' = Put(Put(duToMac, m), n)
  BY <1>7, CoreParts DEF MacQ, Put
<1>15. m \in DuToMac /\ Ue(m) = i /\ m.ue = i /\ Ev(m) = "DL_CCCH" /\ m.ev = "DL_CCCH"
  BY <1>1, <1>3, NoDbType, CfgOpType, ConveyedType DEF MacReq, DuToMac, Db, Ue, Ev
<1>16. /\ n \in DuToMac /\ Ue(n) = i /\ n.ue = i /\ Ev(n) = "CREATE" /\ n.ev = "CREATE"
       /\ n.lcs = w
  BY <1>1, <1>3, <1>8, CfgOpType, ConveyedType, ConveyedAll DEF MacReq, DuToMac, Db, Ue, Ev
<1>17. PICK q : q = Put(duToMac, m)
  OBVIOUS
<1>18. q \in Seq(DuToMac) /\ ToSet(q) = ToSet(duToMac) \union {m}
  BY <1>14, <1>15, <1>17, PutToSet
<1>19. ToSet(duToMac') = ToSet(duToMac) \union {m, n}
  <2>1. ToSet(duToMac') = ToSet(q) \union {n}
    BY <1>14, <1>16, <1>17, <1>18, PutIn
  <2>2. QED
    BY <1>18, <2>1
<1>20. \A j : j # i => InMac(j)' = InMac(j)
  <2>1. \A j : j # i => MacToks(q, macToDu, j) = InMac(j)
    BY <1>14, <1>15, <1>17, MacPutReqOthers, InMacIs
  <2>2. \A j : InMac(j)' = MacToks(Put(q, n), macToDu, j)
    BY <1>2, <1>14, <1>17 DEF InMac
  <2>3. QED
    BY <1>16, <1>18, <2>1, <2>2, MacPutReqOthers
<1>21. PICK z : /\ ToSet(duToRlc') = ToSet(duToRlc) \union {z}
                /\ z.ue = i /\ z.op = "ADD" /\ z.rbs = w
  BY <1>3, <1>7, <1>8, SentToRlc
<1>22. UNCHANGED <<udxReq, udxCfm, rlcUlRb, rlcDlRb, macUe, schUe, macLc, schLc>>
  BY <1>2 DEF rlcOwnVars, macOwnVars, macUeVars
<1>23. RlcReqs(i, w)' /\ RlcDone(i, w)'
  BY <1>2, <1>4, <1>12, <1>13, <1>21, CreatesInRlc DEF New
<1>24. macUe'[i] = "NONE" /\ schUe'[i] = "NONE"
  BY <1>4, <1>22 DEF New, MacEmpty
<1>25. MacReqs(i, w)'
  <2>1. \A e \in ToSet(duToMac) : e.ue # i
    BY <1>4, NoneInMac DEF Initial
  <2>2. QED
    BY <1>15, <1>16, <1>19, <1>24, <2>1 DEF MacReqs
<1>26. MacDone("connecting", i, w)'
  BY <1>24 DEF MacDone
<1>27. BearersOf(c, "connecting", i, w)'
  BY <1>1, <1>8, <1>23, <1>25, <1>26 DEF BearersOf, Gone
<1>28. CuGets(c, i, "connecting", w)
  <2>1. "connecting" \in Phase
    BY DEF Phase
  <2>2. QED
    BY <1>3, <1>7, <1>8, <2>1, CuPhRbsGets
<1>29. \A j \in Id \ {i} : Quiet(j)
  <2>1. \A j \in Id \ {i} : Same(j)
    BY <1>2, <1>10, <1>13, <1>20, OwnKept, SameMacIs DEF Same, SameRlc, SameRlcOwn
  <2>2. QED
    BY <1>15, <1>16, <1>19, <1>21, <1>22, <2>1 DEF Quiet, NoneNewRlc, NoneNewMac
<1>30. Bearers'
  BY <1>3, <1>27, <1>28, <1>29, BearsAt
<1>31. PhIn(c, "connecting") = "asked" /\ cuUe[c].ph \in Out /\ RlcEmpty(i) /\ MacEmpty(i)
  BY <1>2, <1>4 DEF PhIn, Out, New
<1>32. cuUe[c].id \in {i, 0}
  BY <1>1
<1>33. LifeStep
  BY <1>2, <1>3, <1>8, <1>28, <1>31, <1>32, Enters, SameTablesOwn
<1>34. QED
  BY <1>30, <1>33

-----------------------------------------------------------------------------
(* Every step is one of the life of a UE, or none.                           *)

LEMMA CuBears ==
    ASSUME OneByOne, NoDeletion, Core, Core', ActvUesAreCounted, Bearers, NEW c \in CuUe, CuStep(c)
    PROVE  Bearers' /\ LifeStep
<1>1. CASE RrcSetup(c)
  BY <1>1, RrcSetupCount, RrcSetupBears
<1>2. ASSUME NEW rrc \in BOOLEAN, NEW rbs \in SUBSET Drb, c \in Access, CtxtSetup(c, rbs, rrc)
      PROVE  Bearers' /\ LifeStep
  BY <1>2, CtxtSetupBears
<1>3. ASSUME NEW i \in Id, NEW rbs \in SUBSET Drb, c \in HandIn, CtxtSetupHandIn(c, i, rbs)
      PROVE  Bearers' /\ LifeStep
  BY <1>3, CtxtSetupHandInBears
<1>4. ASSUME NEW op \in ModOps, NEW rrc \in BOOLEAN, NEW rbs \in SUBSET Drb, c \in Access,
             IF op = "STOP" THEN rbs = {}
             ELSE rbs # {} /\ (IF op = "ADD" THEN rbs \intersect cuUe[c].rbs = {}
                               ELSE rbs \subseteq cuUe[c].rbs),
             CtxtMod(c, op, rbs, rrc)
      PROVE  Bearers' /\ LifeStep
  <2>1. op \in {"ADD", "MODIFY"} /\ op # "STOP"
    BY DuUeAssumption DEF OneByOne, NoDeletion
  <2>2. IF op = "ADD" THEN rbs \intersect cuUe[c].rbs = {} ELSE rbs \subseteq cuUe[c].rbs
    BY <1>4, <2>1
  <2>3. QED
    BY <1>4, <2>1, <2>2, CtxtModBears
<1>5. ASSUME NEW rrc \in BOOLEAN, c \in Released, CtxtRelease(c, rrc)
      PROVE  Bearers' /\ LifeStep
  BY <1>5, CtxtReleaseBears DEF OneByOne
<1>6. QED
  BY <1>1, <1>2, <1>3, <1>4, <1>5, CuSteps

LEMMA StepsBear ==
    ASSUME OneByOne, NoDeletion, Core, Core', ActvUesAreCounted, Bearers, [DuUeNext]_duUeVars
    PROVE  Bearers' /\ LifeStep
<1>1. ASSUME NEW c \in CuUe, CuStep(c) \/ UeHandIn(c) \/ UeRrc(c)
      PROVE  Bearers' /\ LifeStep
  BY <1>1, CuBears, UeHandInBears, UeRrcBears
<1>2. ASSUME NEW c \in Access, NEW i \in Id, UeAccess(c, i)
      PROVE  Bearers' /\ LifeStep
  BY <1>2, UeAccessBears
<1>3. ASSUME NEW i \in Id, UeMsg4(i) \/ RlcTimer(i)
      PROVE  Bearers' /\ LifeStep
  BY <1>3, Msg4Bears, TimerBears DEF OneByOne
<1>4. CASE FromMacStep
  BY <1>4, UlCcchIndBears, MacUeCreateRspBears, MacUeRecfgRspBears, MacRachRsrcRspBears,
     MacUeDeleteRspBears DEF FromMacStep
<1>5. CASE FromRlcStep
  BY <1>5, RlcUeCreateRspBears, RlcUeReconfigRspBears, RlcUeDeleteRspBears, DlRrcMsgRspBears,
     UlRrcMsgTransBears DEF FromRlcStep
<1>6. CASE RlcUlThread
  BY <1>6, UeCfgReqBears, UeDeleteReqBears, UlUdxCfgCfmBears DEF RlcUlThread, OneByOne
<1>7. CASE RlcDlThread
  BY <1>7, DlUdxCfgReqBears DEF RlcDlThread
<1>8. CASE RlcProcDlRrcMsgTransfer
  BY <1>8, DlRrcMsgTransferBears
<1>9. CASE MacThread
  BY <1>9, DlCcchIndBears, MacUeCreateReqBears, MacUeReconfigReqBears, MacUeDeleteReqBears,
     MacRachRsrcReqBears, MacRachRsrcRelBears DEF MacThread
<1>10. CASE UNCHANGED duUeVars
  BY <1>10, BearersStay DEF duUeVars, duVars, macVars
<1>11. QED
  BY <1>1, <1>2, <1>3, <1>4, <1>5, <1>6, <1>7, <1>8, <1>9, <1>10 DEF DuUeNext

LEMMA InitBears == DuUeInit => Bearers
<1> SUFFICES ASSUME DuUeInit, NEW c \in CuUe
             PROVE  BearersOf(c, cuUe[c].ph, cuUe[c].id, cuUe[c].rbs)
  BY DEF Bearers
<1>1. cuUe[c].ph = "idle" /\ cuUe[c].rbs = {}
  BY DEF DuUeInit
<1>2. QED
  BY <1>1 DEF BearersOf, Gone

LEMMA InitLives == DuUeInit => Life!LifeInit
<1> SUFFICES ASSUME DuUeInit
             PROVE  Life!LifeInit
  OBVIOUS
<1>1. \A c \in CuUe : cuUe[c].ph = "idle" /\ cuUe[c].rbs = {}
  BY DEF DuUeInit
<1>2. \A c \in CuUe : PhaseIn(c) = "out" /\ IdIn(c) = 0
  BY <1>1 DEF PhaseIn, IdIn, IsOut
<1>3. \A i \in Id : WantIn(i) = {}
  BY <1>1 DEF WantIn
<1>4. \A p \in LifePart : Table(p) = [i \in Id |-> {}]
  BY DEF LifePart, Table, DuUeInit, RlcInit, MacInit
<1>5. /\ LifePhase = [c \in CuUe |-> "out"] /\ LifeId = [c \in CuUe |-> 0]
      /\ LifeWant = [i \in Id |-> {}]
      /\ LifeHas = [p \in LifePart |-> [i \in Id |-> {}]]
  BY <1>2, <1>3, <1>4 DEF LifePhase, LifeId, LifeWant, LifeHas
<1>6. QED
  BY <1>5 DEF Life!LifeInit, LifePhase, LifeId, LifeWant, LifeHas, PhaseIn, IdIn, WantIn, Table, LifePart

\* gNB-DU keeps the promise of UeLife, whatever the UEs, ids and bearers, if the CU
\* adds bearers and modifies them but deletes none until it releases a UE: RLC, MAC
\* and SCH, each in its time and however the messages between the threads are
\* ordered, get what the CU asked for and nothing else; the CU is answered only
\* when all of them have it; and an id that a UE gets has nothing left of another.
THEOREM LifeIsKeptAlways == ASSUME OneByOne, NoDeletion PROVE DuUeSpec => LifeIsKept
<1>1. DuUeInit => DuInv /\ Bearers /\ Life!LifeInit
  BY InitInv, InitBears, InitLives
<1>2. DuInv /\ [DuUeNext]_duUeVars => DuInv'
  BY StepsKeep, StepsCount, KeepsCore DEF DuInv
<1>3. DuInv /\ DuInv' /\ Bearers /\ [DuUeNext]_duUeVars => Bearers' /\ [Life!LifeNext]_(Life!lifeVars)
  BY StepsBear DEF DuInv, LifeStep
<1>4. QED
  BY <1>1, <1>2, <1>3, PTL DEF DuUeSpec, LifeIsKept, Life!LifeSpec

=============================================================================
