--------------------------- MODULE SchFcfs_proofs ---------------------------
(***************************************************************************)
(* Proofs about the scheduler and its HARQ entities, for any number of     *)
(* UEs, processes, slots and transmissions.                                *)
(***************************************************************************)
EXTENDS SchFcfs, DataLemmas

-----------------------------------------------------------------------------
(* Operators *)

\* The loop over a list takes entries of the list only, and all of them that
\* are in S.
LEMMA PickedProperties ==
    ASSUME NEW P, NEW lst \in Seq(P), NEW S
    PROVE  /\ Picked(lst, S) \in Seq(P)
           /\ ToSet(Picked(lst, S)) = ToSet(lst) \intersect S
           /\ Len(Picked(lst, S)) <= Len(lst)
<1> DEFINE n == Len(lst)
           Def(q) == [i \in 0 .. n |->
                        IF i = 0 THEN <<>>
                        ELSE IF lst[i] \in S THEN Append(q[i - 1], lst[i]) ELSE q[i - 1]]
           upTo == CHOOSE q : q = Def(q)
           h == [x \in (1 .. n) \X Seq(P) |->
                    IF lst[x[1]] \in S THEN Append(x[2], lst[x[1]]) ELSE x[2]]
<1>1. n \in Nat /\ lst \in [1 .. n -> P]
  BY LenProperties
<1>2. h \in [(1 .. n) \X Seq(P) -> Seq(P)]
  <2>1. ASSUME NEW x \in (1 .. n) \X Seq(P)
        PROVE  (IF lst[x[1]] \in S THEN Append(x[2], lst[x[1]]) ELSE x[2]) \in Seq(P)
    BY <1>1, AppendProperties
  <2>2. QED
    BY <2>1
<1> HIDE DEF n
<1>3. PICK f \in [0 .. n -> Seq(P)] :
          f[0] = <<>> /\ \A i \in 1 .. n : f[i] = h[<<i, f[i-1]>>]
  <2>1. <<>> \in Seq(P)
    BY EmptySeq
  <2> DEFINE X == Seq(P)
             x0 == <<>>
  <2>2. x0 \in X /\ h \in [(1 .. n) \X X -> X]
    BY <1>2, <2>1
  <2> HIDE DEF h, X, x0
  <2>3. \E f \in [0 .. n -> X] : IsRecursion(f, x0, n, h)
    BY <1>1, <2>2, RecursionExists
  <2>4. QED
    BY <2>3 DEF X, x0, IsRecursion
<1>4. f = Def(f)
  <2>1. ASSUME NEW i \in 0 .. n
        PROVE  f[i] = IF i = 0 THEN <<>>
                      ELSE IF lst[i] \in S THEN Append(f[i - 1], lst[i]) ELSE f[i - 1]
    <3>1. CASE i = 0
      BY <3>1, <1>3
    <3>2. CASE i # 0
      <4>1. i \in 1 .. n /\ i - 1 \in 0 .. n
        BY <1>1, <3>2, SMT
      <4>2. f[i] = h[<<i, f[i-1]>>] /\ f[i-1] \in Seq(P)
        BY <4>1, <1>3
      <4>3. QED
        BY <4>1, <4>2, <3>2
    <3>3. QED
      BY <3>1, <3>2
  <2>2. QED
    BY <2>1
<1>5. upTo = Def(upTo)
  BY <1>4
<1> HIDE DEF upTo
<1>6. /\ upTo[0] = <<>>
      /\ \A i \in 1 .. n : upTo[i] = IF lst[i] \in S THEN Append(upTo[i - 1], lst[i])
                                     ELSE upTo[i - 1]
  <2>1. 0 \in 0 .. n /\ \A i \in 1 .. n : i \in 0 .. n /\ i # 0
    BY <1>1, SMT
  <2>2. QED
    BY <2>1, <1>5
<1> DEFINE Good(k) == /\ upTo[k] \in Seq(P)
                      /\ ToSet(upTo[k]) = {lst[j] : j \in 1 .. k} \intersect S
                      /\ Len(upTo[k]) <= k
           G == {k \in Nat : k <= n => Good(k)}
<1>7. 0 \in G
  <2>1. 1 .. 0 = {}
    BY SMT
  <2>2. Good(0)
    BY <1>6, <2>1, ToSetEmpty
  <2>3. QED
    BY <2>2
<1>8. ASSUME NEW k \in G
      PROVE  k + 1 \in G
  <2>1. SUFFICES ASSUME k + 1 <= n
                 PROVE  Good(k + 1)
    OBVIOUS
  <2>2. Good(k)
    <3>1. k <= n
      BY <1>1, <2>1, SMT
    <3>2. QED
      BY <3>1
  <2>3. /\ k + 1 \in 1 .. n /\ (k + 1) - 1 = k
        /\ 1 .. (k + 1) = (1 .. k) \union {k + 1}
    BY <1>1, <2>1, SMT
  <2>4. lst[k + 1] \in P
    BY <1>1, <2>3
  <2>5. upTo[k + 1] = IF lst[k + 1] \in S THEN Append(upTo[k], lst[k + 1]) ELSE upTo[k]
    BY <1>6, <2>3
  <2>6. CASE lst[k + 1] \in S
    <3>1. /\ upTo[k + 1] \in Seq(P)
          /\ ToSet(upTo[k + 1]) = ToSet(upTo[k]) \union {lst[k + 1]}
          /\ Len(upTo[k + 1]) = Len(upTo[k]) + 1
      BY <2>2, <2>4, <2>5, <2>6, AppendToSet
    <3>2. Len(upTo[k + 1]) <= k + 1
      BY <2>2, <3>1, LenProperties, SMT
    <3>3. QED
      BY <3>1, <3>2, <2>2, <2>3, <2>6
  <2>7. CASE lst[k + 1] \notin S
    <3>1. Len(upTo[k]) <= k + 1
      BY <2>2, LenProperties, SMT
    <3>2. QED
      BY <2>2, <2>3, <2>5, <2>7, <3>1
  <2>8. QED
    BY <2>6, <2>7
<1>9. G = Nat
  <2> HIDE DEF Good
  <2>1. G \in SUBSET Nat
    OBVIOUS
  <2> HIDE DEF G
  <2>2. QED
    BY <1>7, <1>8, <2>1, InductiveSet
<1>10. Good(n)
  <2> HIDE DEF Good
  <2>1. n \in G /\ n <= n
    BY <1>1, <1>9, SMT
  <2>2. QED
    BY <2>1
<1>11. ToSet(lst) = {lst[j] : j \in 1 .. n}
  BY LenProperties DEF ToSet, n
<1>12. Picked(lst, S) = upTo[n]
  BY DEF Picked, upTo, n
<1>13. QED
  BY <1>10, <1>11, <1>12 DEF n

\* A UE is entered in the list once.
LEMMA AddUeProperties ==
    ASSUME toSched \in Seq(Ue), IsInjective(toSched), NEW u \in Ue
    PROVE  /\ AddUeToSchedule(u) \in Seq(Ue)
           /\ IsInjective(AddUeToSchedule(u))
           /\ ToSet(AddUeToSchedule(u)) = ToSet(toSched) \union {u}
  BY AppendToSet DEF AddUeToSchedule

\* A UE that was handled is at the end of the list or not in the list, and
\* nothing else is changed.
LEMMA RequeueProperties ==
    ASSUME toSched \in Seq(Ue), IsInjective(toSched), toSched # <<>>,
           NEW dl, NEW ul, NEW u \in Ue, u = Head(toSched), Requeue(u, dl, ul)
    PROVE  /\ toSched' \in Seq(Ue)
           /\ IsInjective(toSched')
           /\ Len(toSched') \in {Len(toSched), Len(toSched) - 1}
           /\ ToSet(toSched') \subseteq ToSet(toSched)
           /\ u \in ToSet(toSched') => "refused" \in {dl, ul}
<1>1. /\ Tail(toSched) \in Seq(Ue) /\ IsInjective(Tail(toSched))
      /\ Len(Tail(toSched)) = Len(toSched) - 1
      /\ ToSet(toSched) = ToSet(Tail(toSched)) \union {u} /\ u \notin ToSet(Tail(toSched))
  BY TailToSet
<1>2. Len(toSched) \in Nat
  BY LenProperties
<1>3. CASE "refused" \in {dl, ul}
  <2>1. toSched' = Append(Tail(toSched), u)
    BY <1>3 DEF Requeue
  <2> DEFINE t == Tail(toSched)
  <2>2. t \in Seq(Ue) /\ IsInjective(t) /\ u \notin ToSet(t)
    BY <1>1
  <2> HIDE DEF t
  <2>3. /\ Append(t, u) \in Seq(Ue) /\ IsInjective(Append(t, u))
        /\ Len(Append(t, u)) = Len(t) + 1
        /\ ToSet(Append(t, u)) = ToSet(t) \union {u}
    BY <2>2, AppendToSet
  <2>4. /\ toSched' \in Seq(Ue) /\ IsInjective(toSched')
        /\ Len(toSched') = (Len(toSched) - 1) + 1
        /\ ToSet(toSched') = ToSet(toSched)
    BY <1>1, <2>1, <2>3 DEF t
  <2>5. QED
    BY <1>2, <1>3, <2>4
<1>4. CASE "refused" \notin {dl, ul}
  <2>1. toSched' = Tail(toSched)
    BY <1>4 DEF Requeue
  <2>2. QED
    BY <1>1, <2>1
<1>5. QED
  BY <1>3, <1>4

-----------------------------------------------------------------------------
(* Types.  Without restrictions on what goes wrong, the transmissions of a   *)
(* block are not bounded by MaxTx: this is TypeOK but for that bound.        *)

AnyTb == [state : {"ACKED", "NACKED", "WAITING"}, isEnabled : BOOLEAN, txCntr : Nat]

SchedTypes ==
    /\ toSched \in Seq(Ue) /\ IsInjective(toSched)
    /\ left \in 0 .. Len(toSched)
    /\ hqP \in {NoProc} \union (Ue \X Proc)
    /\ corrupt \in BOOLEAN
DlTypes ==
    /\ boInd \subseteq Ue
    /\ dlFree \in [Ue -> SUBSET Proc]
    /\ tb \in [Ue -> [Proc -> AnyTb \X AnyTb]]
    /\ dlRetx \in [Ue -> Seq(Proc)]
    /\ hqDlmap \in [Ue -> [Slot -> Seq(Proc)]]
    /\ pucch \in [Ue -> SUBSET Slot]
    /\ macTb \in [Ue -> SUBSET Proc]
UlTypes ==
    /\ srRcvd \subseteq Ue /\ bsrRcvd \subseteq Ue /\ bsrVol \subseteq Ue
    /\ ulFree \in [Ue -> SUBSET Proc]
    /\ ulRetx \in [Ue -> Seq(Proc)]
    /\ hqUlmap \in [Ue -> [Slot -> Seq(Proc)]]
    /\ pusch \in [Ue -> SUBSET Slot]
Types == SchedTypes /\ DlTypes /\ UlTypes

\* What becomes of one TB.
LEMMA TbTypes ==
    ASSUME NEW t \in AnyTb, NEW f
    PROVE  /\ AfterFdbk(t, f) \in AnyTb
           /\ Filled(t) \in AnyTb
           /\ Released \in AnyTb
<1>1. Released \in AnyTb
  BY DEF Released, AnyTb
<1>2. [t EXCEPT !.state = "NACKED"] \in AnyTb
  BY DEF AnyTb
<1>3. AfterFdbk(t, f) \in {Released, t, [t EXCEPT !.state = "NACKED"]}
  BY DEF AfterFdbk, Fails
<1>4. Filled(t) \in AnyTb
  BY DEF Filled, AnyTb
<1>5. QED
  BY <1>1, <1>2, <1>3, <1>4

LEMMA ReserveDlTypes ==
    ASSUME DlTypes, NEW u \in Ue, NEW s \in Slot, NEW p \in Proc, ReserveDl(u, s, p)
    PROVE  /\ pucch' \in [Ue -> SUBSET Slot]
           /\ hqDlmap' \in [Ue -> [Slot -> Seq(Proc)]]
           /\ tb' \in [Ue -> [Proc -> AnyTb \X AnyTb]]
<1>1. pucch' \in [Ue -> SUBSET Slot]
  BY DEF ReserveDl, DlTypes
<1>2. hqDlmap' \in [Ue -> [Slot -> Seq(Proc)]]
  <2>1. Append(hqDlmap[u][s], p) \in Seq(Proc)
    BY AppendProperties DEF DlTypes
  <2>2. hqDlmap' = [hqDlmap EXCEPT ![u][s] = Append(hqDlmap[u][s], p)]
    BY DEF ReserveDl, AddTo
  <2>3. QED
    BY <2>1, <2>2 DEF DlTypes
<1>3. tb' \in [Ue -> [Proc -> AnyTb \X AnyTb]]
  <2>1. FilledTbs(tb[u][p]) \in AnyTb \X AnyTb
    <3>1. tb[u][p][1] \in AnyTb /\ tb[u][p][2] \in AnyTb
      BY DEF DlTypes
    <3>2. Filled(tb[u][p][1]) \in AnyTb /\ Filled(tb[u][p][2]) \in AnyTb
      BY <3>1, TbTypes
    <3>3. QED
      BY <3>2 DEF FilledTbs
  <2>2. tb' = [tb EXCEPT ![u][p] = FilledTbs(tb[u][p])]
    BY DEF ReserveDl
  <2>3. QED
    BY <2>1, <2>2 DEF DlTypes
<1>4. QED
  BY <1>1, <1>2, <1>3

\* The lists keep their types, and MaxTx or not the counters stay naturals.
LEMMA DlHarqIndTypes ==
    ASSUME Types, NEW u \in Ue, NEW s \in Slot, DlHarqInd(u, s)
    PROVE  Types'
<1> DEFINE lst == hqDlmap[u][s]
<1>1. PICK fdbk \in [ToSet(lst) -> {"ACK", "NACK"}] :
        LET released == {p \in ToSet(lst) : IsGone(u, p, fdbk[p])}
            again == Picked(lst, {p \in ToSet(lst) : IsRetx(u, p, fdbk[p])})
        IN
        /\ tb' = [tb EXCEPT ![u] = [p \in Proc |->
                    IF p \in ToSet(lst)
                    THEN <<AfterFdbk(tb[u][p][1], fdbk[p]), AfterFdbk(tb[u][p][2], "ACK")>>
                    ELSE tb[u][p]]]
        /\ dlFree' = [dlFree EXCEPT ![u] = @ \union released]
        /\ macTb' = MacRelease(u, released)
        /\ dlRetx' = [dlRetx EXCEPT ![u] = @ \o again]
        /\ toSched' = IF again = <<>> THEN toSched ELSE AddUeToSchedule(u)
        /\ corrupt' = \/ released \intersect (dlFree[u] \union ToSet(dlRetx[u])) # {}
                      \/ ToSet(again) \intersect ToSet(dlRetx[u]) # {}
  BY DEF DlHarqInd
<1> DEFINE released == {p \in ToSet(lst) : IsGone(u, p, fdbk[p])}
           again == Picked(lst, {p \in ToSet(lst) : IsRetx(u, p, fdbk[p])})
           tbu == [p \in Proc |->
                    IF p \in ToSet(lst)
                    THEN <<AfterFdbk(tb[u][p][1], fdbk[p]), AfterFdbk(tb[u][p][2], "ACK")>>
                    ELSE tb[u][p]]
<1>2. lst \in Seq(Proc) /\ ToSet(lst) \subseteq Proc
  BY ToSetType DEF Types, DlTypes
<1>3. again \in Seq(Proc)
  BY <1>2, PickedProperties
<1>4. released \subseteq Proc
  BY <1>2
<1>5. tbu \in [Proc -> AnyTb \X AnyTb]
  <2>1. ASSUME NEW p \in Proc
        PROVE  tb[u][p][1] \in AnyTb /\ tb[u][p][2] \in AnyTb /\ tb[u][p] \in AnyTb \X AnyTb
    BY DEF Types, DlTypes
  <2>2. ASSUME NEW p \in Proc
        PROVE  AfterFdbk(tb[u][p][1], fdbk[p]) \in AnyTb /\ AfterFdbk(tb[u][p][2], "ACK") \in AnyTb
    BY <2>1, TbTypes
  <2>3. QED
    BY <2>1, <2>2
<1> HIDE DEF lst, released, again, tbu
<1>6. /\ tb' = [tb EXCEPT ![u] = tbu]
      /\ dlFree' = [dlFree EXCEPT ![u] = @ \union released]
      /\ macTb' = MacRelease(u, released)
      /\ dlRetx' = [dlRetx EXCEPT ![u] = @ \o again]
      /\ toSched' = IF again = <<>> THEN toSched ELSE AddUeToSchedule(u)
      /\ corrupt' \in BOOLEAN
  BY <1>1 DEF lst, released, again, tbu
<1>7. DlTypes'
  <2>1. tb' \in [Ue -> [Proc -> AnyTb \X AnyTb]]
    BY <1>5, <1>6 DEF Types, DlTypes
  <2>2. dlFree' \in [Ue -> SUBSET Proc]
    BY <1>4, <1>6 DEF Types, DlTypes
  <2>3. macTb' \in [Ue -> SUBSET Proc]
    BY <1>6 DEF Types, DlTypes, MacRelease
  <2>4. dlRetx' \in [Ue -> Seq(Proc)]
    <3>1. dlRetx[u] \o again \in Seq(Proc)
      BY <1>3, ConcatProperties DEF Types, DlTypes
    <3>2. QED
      BY <1>6, <3>1 DEF Types, DlTypes
  <2>5. hqDlmap' \in [Ue -> [Slot -> Seq(Proc)]]
    BY ToSetEmpty DEF DlHarqInd, Types, DlTypes
  <2>6. pucch' \in [Ue -> SUBSET Slot]
    BY DEF DlHarqInd, Types, DlTypes
  <2>7. boInd' \subseteq Ue
    BY DEF DlHarqInd, Types, DlTypes
  <2>8. QED
    BY <2>1, <2>2, <2>3, <2>4, <2>5, <2>6, <2>7 DEF DlTypes
<1>8. SchedTypes'
  <2>1. left = 0 /\ left' = left /\ hqP' = hqP
    BY DEF DlHarqInd, Idle
  <2>2. toSched' \in Seq(Ue) /\ IsInjective(toSched')
    BY <1>6, AddUeProperties DEF Types, SchedTypes
  <2>3. left' \in 0 .. Len(toSched')
    BY <2>1, <2>2, LenProperties, SMT
  <2>4. QED
    BY <1>6, <2>1, <2>2, <2>3 DEF Types, SchedTypes
<1>9. UlTypes'
  BY DEF DlHarqInd, Types, UlTypes, ulVars
<1>10. QED
  BY <1>7, <1>8, <1>9 DEF Types

LEMMA CrcIndTypes ==
    ASSUME Types, NEW u \in Ue, NEW s \in Slot, CrcInd(u, s)
    PROVE  Types'
<1>1. UNCHANGED dlVars /\ left = 0 /\ UNCHANGED <<left, hqP, srRcvd, bsrRcvd, bsrVol>>
  BY DEF CrcInd, Idle
<1>2. pusch' \in [Ue -> SUBSET Slot]
  BY DEF CrcInd, Types, UlTypes
<1>3. /\ toSched' \in Seq(Ue) /\ IsInjective(toSched') /\ corrupt' \in BOOLEAN
      /\ ulFree' \in [Ue -> SUBSET Proc]
      /\ ulRetx' \in [Ue -> Seq(Proc)]
      /\ hqUlmap' \in [Ue -> [Slot -> Seq(Proc)]]
  <2>1. CASE hqUlmap[u][s] = <<>>
    BY <2>1 DEF CrcInd, Types, SchedTypes, UlTypes
  <2>2. CASE hqUlmap[u][s] # <<>>
    <3> DEFINE p == Head(hqUlmap[u][s])
    <3>1. p \in Proc /\ Tail(hqUlmap[u][s]) \in Seq(Proc)
      BY <2>2, TailToSet DEF Types, UlTypes
    <3> HIDE DEF p
    <3>2. Append(ulRetx[u], p) \in Seq(Proc)
      BY <3>1, AppendToSet DEF Types, UlTypes
    <3>3. /\ hqUlmap' = [hqUlmap EXCEPT ![u][s] = Tail(@)]
          /\ \/ /\ ulFree' = [ulFree EXCEPT ![u] = @ \union {p}]
                /\ corrupt' = (p \in ulFree[u] \union ToSet(ulRetx[u]))
                /\ UNCHANGED <<toSched, ulRetx>>
             \/ /\ ulRetx' = [ulRetx EXCEPT ![u] = Append(@, p)]
                /\ corrupt' = (p \in ToSet(ulRetx[u]))
                /\ toSched' = AddUeToSchedule(u)
                /\ UNCHANGED ulFree
      BY <2>2 DEF CrcInd, p
    <3>4. hqUlmap' \in [Ue -> [Slot -> Seq(Proc)]]
      BY <3>1, <3>3 DEF Types, UlTypes
    <3>5. ulFree' \in [Ue -> SUBSET Proc] /\ ulRetx' \in [Ue -> Seq(Proc)] /\ corrupt' \in BOOLEAN
      <4>1. ulFree' = ulFree \/ ulFree' = [ulFree EXCEPT ![u] = ulFree[u] \union {p}]
        BY <3>3
      <4>2. ulRetx' = ulRetx \/ ulRetx' = [ulRetx EXCEPT ![u] = Append(ulRetx[u], p)]
        BY <3>3
      <4>3. ulFree' \in [Ue -> SUBSET Proc]
        <5>1. ulFree \in [Ue -> SUBSET Proc] /\ ulFree[u] \union {p} \in SUBSET Proc
          BY <3>1 DEF Types, UlTypes
        <5>2. QED
          BY <4>1, <5>1
      <4>4. ulRetx' \in [Ue -> Seq(Proc)]
        BY <3>2, <4>2 DEF Types, UlTypes
      <4>5. corrupt' \in BOOLEAN
        <5>1. CASE corrupt' = (p \in ulFree[u] \union ToSet(ulRetx[u]))
          BY <5>1
        <5>2. CASE corrupt' = (p \in ToSet(ulRetx[u]))
          BY <5>2
        <5>3. QED
          BY ONLY <3>3, <5>1, <5>2
      <4>6. QED
        BY <4>3, <4>4, <4>5
    <3>6. toSched' \in Seq(Ue) /\ IsInjective(toSched')
      BY <3>3, AddUeProperties DEF Types, SchedTypes
    <3>7. QED
      BY <3>4, <3>5, <3>6
  <2>3. QED
    BY <2>1, <2>2
<1>4. left' \in 0 .. Len(toSched')
  BY <1>1, <1>3, LenProperties, SMT
<1>5. SchedTypes'
  BY <1>1, <1>3, <1>4 DEF Types, SchedTypes
<1>6. DlTypes'
  BY <1>1 DEF Types, DlTypes, dlVars
<1>7. UlTypes'
  BY <1>1, <1>2, <1>3 DEF Types, UlTypes
<1>8. QED
  BY <1>5, <1>6, <1>7 DEF Types

\* The downlink part of handling one UE.
LEMMA DlPartTypes ==
    ASSUME Types, corrupt = FALSE, NEW u \in Ue, NEW outcome, NEW hq, DlPart(u, outcome, hq)
    PROVE  DlTypes' /\ corrupt' \in BOOLEAN
<1>1. CASE DlRetx(u, outcome, hq)
  <2> DEFINE p == Head(dlRetx[u])
  <2>1. p \in Proc /\ Tail(dlRetx[u]) \in Seq(Proc)
    BY <1>1, TailToSet DEF DlRetx, Types, DlTypes
  <2> HIDE DEF p
  <2>2. UNCHANGED <<boInd, dlFree, macTb>>
    BY <1>1 DEF DlRetx
  <2>3. /\ dlRetx' = RemoveFrmRetx(dlRetx, u) \/ dlRetx' = dlRetx
        /\ \/ UNCHANGED <<pucch, hqDlmap, tb>>
           \/ \E s \in Slot : ReserveDl(u, s, p)
        /\ corrupt' \in BOOLEAN
    BY <1>1 DEF DlRetx, p, Clean
  <2>4. dlRetx' \in [Ue -> Seq(Proc)]
    BY <2>1, <2>3 DEF RemoveFrmRetx, Types, DlTypes
  <2>5. /\ pucch' \in [Ue -> SUBSET Slot]
        /\ hqDlmap' \in [Ue -> [Slot -> Seq(Proc)]]
        /\ tb' \in [Ue -> [Proc -> AnyTb \X AnyTb]]
    <3>1. CASE UNCHANGED <<pucch, hqDlmap, tb>>
      BY <3>1 DEF Types, DlTypes
    <3>2. CASE \E s \in Slot : ReserveDl(u, s, p)
      BY <2>1, <3>2, ReserveDlTypes DEF Types
    <3>3. QED
      BY <2>3, <3>1, <3>2
  <2>6. QED
    BY <2>2, <2>3, <2>4, <2>5 DEF Types, DlTypes
<1>2. CASE DlNew(u, outcome, hq)
  <2>1. dlRetx' = dlRetx
    BY <1>2 DEF DlNew
  <2>2. /\ boInd' \subseteq Ue
        /\ dlFree' \in [Ue -> SUBSET Proc]
        /\ macTb' \in [Ue -> SUBSET Proc]
        /\ corrupt' \in BOOLEAN
        /\ \/ UNCHANGED <<pucch, hqDlmap, tb>>
           \/ \E s \in Slot, p \in Proc : ReserveDl(u, s, p)
    <3>1. ASSUME NEW p \in dlFree[u], NEW s \in Slot, ReserveDl(u, s, p),
                 corrupt' = ~Clean(hqDlmap, u, s, p),
                 dlFree' = [dlFree EXCEPT ![u] = @ \ {p}], macTb' = MacAdd(u, p),
                 boInd' = boInd \ {u}
          PROVE  <2>2
      BY <3>1 DEF Types, DlTypes, MacAdd
    <3>2. ASSUME UNCHANGED <<pucch, hqDlmap, tb, boInd, dlFree, macTb, corrupt>>
          PROVE  <2>2
      BY <3>2 DEF Types, DlTypes
    <3>3. ASSUME NEW p \in dlFree[u], NEW s \in Slot, ReserveDl(u, s, p),
                 corrupt' = ~Clean(hqDlmap, u, s, p), UNCHANGED <<boInd, dlFree, macTb>>
          PROVE  <2>2
      BY <3>3 DEF Types, DlTypes
    <3>4. ASSUME dlFree' = ReleaseDl(dlFree, hqP),
                 corrupt' = (hqP # NoProc /\ hqP[2] \in dlFree[hqP[1]]),
                 UNCHANGED <<pucch, hqDlmap, tb, boInd, macTb>>
          PROVE  <2>2
      <4>1. dlFree' \in [Ue -> SUBSET Proc]
        BY <3>4 DEF Types, SchedTypes, DlTypes, ReleaseDl
      <4>2. QED
        BY <3>4, <4>1 DEF Types, DlTypes
    <3>5. QED
      BY <1>2, <3>1, <3>2, <3>3, <3>4 DEF DlNew
  <2>3. /\ pucch' \in [Ue -> SUBSET Slot]
        /\ hqDlmap' \in [Ue -> [Slot -> Seq(Proc)]]
        /\ tb' \in [Ue -> [Proc -> AnyTb \X AnyTb]]
    <3>1. CASE UNCHANGED <<pucch, hqDlmap, tb>>
      BY <3>1 DEF Types, DlTypes
    <3>2. CASE \E s \in Slot, p \in Proc : ReserveDl(u, s, p)
      BY <3>2, ReserveDlTypes DEF Types
    <3>3. QED
      BY <2>2, <3>1, <3>2
  <2>4. QED
    BY <2>1, <2>2, <2>3 DEF Types, DlTypes
<1>3. CASE UNCHANGED <<dlVars, corrupt>>
  BY <1>3 DEF Types, SchedTypes, DlTypes, dlVars
<1>4. QED
  BY <1>1, <1>2, <1>3 DEF DlPart

\* The uplink part.
LEMMA UlPartTypes ==
    ASSUME Types, NEW u \in Ue, NEW outcome, UlPart(u, outcome)
    PROVE  UlTypes'
<1>1. ASSUME NEW p \in Proc, GrantUl(u, p)
      PROVE  /\ srRcvd' \subseteq Ue /\ bsrRcvd' \subseteq Ue /\ bsrVol' \subseteq Ue
             /\ hqUlmap' \in [Ue -> [Slot -> Seq(Proc)]]
             /\ pusch' \in [Ue -> SUBSET Slot]
  <2>1. PICK s \in Slot \ pusch[u] : /\ pusch' = [pusch EXCEPT ![u] = @ \union {s}]
                                     /\ hqUlmap' = AddTo(hqUlmap, u, s, p)
    BY <1>1 DEF GrantUl
  <2>2. Append(hqUlmap[u][s], p) \in Seq(Proc)
    BY AppendProperties DEF Types, UlTypes
  <2>3. hqUlmap' \in [Ue -> [Slot -> Seq(Proc)]] /\ pusch' \in [Ue -> SUBSET Slot]
    BY <2>1, <2>2 DEF Types, UlTypes, AddTo
  <2>4. srRcvd' \subseteq Ue /\ bsrRcvd' \subseteq Ue /\ bsrVol' \subseteq Ue
    BY <1>1 DEF GrantUl, Answered, Types, UlTypes
  <2>5. QED
    BY <2>3, <2>4
<1>2. CASE UlRetx(u, outcome)
  <2>1. Head(ulRetx[u]) \in Proc /\ Tail(ulRetx[u]) \in Seq(Proc)
    BY <1>2, TailToSet DEF UlRetx, Types, UlTypes
  <2>2. ulRetx' = RemoveFrmRetx(ulRetx, u) \/ ulRetx' = ulRetx
    BY <1>2 DEF UlRetx
  <2>3. ulRetx' \in [Ue -> Seq(Proc)]
    BY <2>1, <2>2 DEF RemoveFrmRetx, Types, UlTypes
  <2>4. \/ GrantUl(u, Head(ulRetx[u]))
        \/ UNCHANGED <<pusch, hqUlmap, srRcvd, bsrRcvd, bsrVol>>
    BY <1>2 DEF UlRetx, NoGrantUl
  <2>5. /\ srRcvd' \subseteq Ue /\ bsrRcvd' \subseteq Ue /\ bsrVol' \subseteq Ue
        /\ hqUlmap' \in [Ue -> [Slot -> Seq(Proc)]]
        /\ pusch' \in [Ue -> SUBSET Slot]
    BY <1>1, <2>1, <2>4 DEF Types, UlTypes
  <2>6. QED
    BY <1>2, <2>3, <2>5 DEF UlRetx, Types, UlTypes
<1>3. CASE UlNew(u, outcome)
  <2>1. /\ ulFree' \in [Ue -> SUBSET Proc]
        /\ \/ \E p \in Proc : GrantUl(u, p)
           \/ UNCHANGED <<pusch, hqUlmap, srRcvd, bsrRcvd, bsrVol>>
    BY <1>3 DEF UlNew, NoGrantUl, Types, UlTypes
  <2>2. /\ srRcvd' \subseteq Ue /\ bsrRcvd' \subseteq Ue /\ bsrVol' \subseteq Ue
        /\ hqUlmap' \in [Ue -> [Slot -> Seq(Proc)]]
        /\ pusch' \in [Ue -> SUBSET Slot]
    BY <1>1, <2>1 DEF Types, UlTypes
  <2>3. QED
    BY <1>3, <2>1, <2>2 DEF UlNew, Types, UlTypes
<1>4. CASE UNCHANGED ulVars
  BY <1>4 DEF Types, UlTypes, ulVars
<1>5. QED
  BY <1>2, <1>3, <1>4 DEF UlPart

LEMMA ScheduleUeTypes ==
    ASSUME Types, NEW u \in Ue, NEW dl, NEW ul, ScheduleUe(u, dl, ul)
    PROVE  Types'
<1>1. toSched # <<>>
  BY EmptySeq DEF ScheduleUe, Types, SchedTypes
<1>2. /\ toSched' \in Seq(Ue) /\ IsInjective(toSched')
      /\ Len(toSched') \in {Len(toSched), Len(toSched) - 1}
  BY <1>1, RequeueProperties DEF ScheduleUe, Types, SchedTypes
<1>3. left' \in 0 .. Len(toSched')
  <2>1. Len(toSched) \in Nat /\ left \in 0 .. Len(toSched)
    BY LenProperties DEF Types, SchedTypes
  <2>2. left > 0 /\ left' \in {0, left - 1}
    BY DEF ScheduleUe
  <2>3. QED
    BY <1>2, <2>1, <2>2, SMT
<1>4. DlTypes' /\ corrupt' \in BOOLEAN
  <2>1. corrupt = FALSE
    BY DEF ScheduleUe, Types, SchedTypes
  <2>2. QED
    BY <2>1, DlPartTypes DEF ScheduleUe
<1>5. UlTypes'
  BY UlPartTypes DEF ScheduleUe
<1>6. hqP' \in {NoProc} \union (Ue \X Proc)
  BY DEF ScheduleUe
<1>7. QED
  BY <1>2, <1>3, <1>4, <1>5, <1>6 DEF Types, SchedTypes

\* Every variable keeps its type, whatever goes wrong.
LEMMA TypesKept ==
    ASSUME Types, [Next]_vars
    PROVE  Types'
<1>1. ASSUME SlotInd
      PROVE  Types'
  <2>1. left' \in 0 .. Len(toSched')
    BY <1>1, LenProperties, SMT DEF SlotInd, Types, SchedTypes
  <2>2. SchedTypes'
    BY <1>1, <2>1 DEF SlotInd, Types, SchedTypes
  <2>3. DlTypes' /\ UlTypes'
    BY <1>1 DEF SlotInd, Types, DlTypes, UlTypes, dlVars, ulVars
  <2>4. QED
    BY <2>2, <2>3 DEF Types
<1>2. ASSUME NEW u \in Ue, DlRlcBoInfo(u) \/ SrUciInd(u) \/ Bsr(u)
      PROVE  Types'
  <2>1. /\ left = 0 /\ toSched' = AddUeToSchedule(u) /\ UNCHANGED <<left, hqP, corrupt>>
    BY <1>2 DEF DlRlcBoInfo, SrUciInd, Bsr, Idle
  <2>2. toSched' \in Seq(Ue) /\ IsInjective(toSched')
    BY <2>1, AddUeProperties DEF Types, SchedTypes
  <2>3. left' \in 0 .. Len(toSched')
    BY <2>1, <2>2, LenProperties, SMT
  <2>4. SchedTypes'
    BY <2>1, <2>2, <2>3 DEF Types, SchedTypes
  <2>5. DlTypes'
    BY <1>2 DEF DlRlcBoInfo, SrUciInd, Bsr, Types, DlTypes, dlVars
  <2>6. UlTypes'
    BY <1>2 DEF DlRlcBoInfo, SrUciInd, Bsr, Types, UlTypes, ulVars
  <2>7. QED
    BY <2>4, <2>5, <2>6 DEF Types
<1>3. ASSUME NEW u \in Ue, NEW s \in Slot, LoseUci(u, s) \/ LoseCrc(u, s)
      PROVE  Types'
  <2>1. SchedTypes'
    BY <1>3 DEF LoseUci, LoseCrc, schedVars, Types, SchedTypes
  <2>2. DlTypes'
    <3>1. CASE LoseUci(u, s)
      BY <3>1 DEF LoseUci, Types, DlTypes
    <3>2. CASE LoseCrc(u, s)
      BY <3>2 DEF LoseCrc, dlVars, Types, DlTypes
    <3>3. QED
      BY <1>3, <3>1, <3>2
  <2>3. UlTypes'
    BY <1>3 DEF LoseUci, LoseCrc, ulVars, Types, UlTypes
  <2>4. QED
    BY <2>1, <2>2, <2>3 DEF Types
<1>4. CASE UNCHANGED vars
  BY <1>4 DEF vars, schedVars, dlVars, ulVars, Types, SchedTypes, DlTypes, UlTypes
<1>5. QED
  BY <1>1, <1>2, <1>3, <1>4, DlHarqIndTypes, CrcIndTypes, ScheduleUeTypes DEF Next

LEMMA TypesInit == Init => Types
<1>1. ASSUME Init
      PROVE  SchedTypes
  <2>1. toSched \in Seq(Ue) /\ IsInjective(toSched) /\ Len(toSched) = 0
    BY <1>1, ToSetEmpty DEF Init
  <2>2. left = 0 /\ hqP = NoProc /\ corrupt = FALSE
    BY <1>1 DEF Init
  <2>3. left \in 0 .. Len(toSched)
    BY <2>1, <2>2, SMT
  <2>4. QED
    BY <2>1, <2>2, <2>3 DEF SchedTypes
<1>2. ASSUME Init
      PROVE  DlTypes /\ UlTypes
  <2>1. Released \in AnyTb
    BY DEF Released, AnyTb
  <2>2. QED
    BY <1>2, <2>1, ToSetEmpty DEF Init, DlTypes, UlTypes
<1>3. QED
  BY <1>1, <1>2 DEF Types

\* The variables keep their types, all faults included.
LEMMA TypesInvariant == Spec => []Types
<1>1. Types /\ [Next]_vars => Types'
  BY TypesKept
<1>2. QED
  BY TypesInit, <1>1, PTL DEF Spec

\* What the feedback of a slot does, but for the TBs.
LEMMA DlHarqIndEffect ==
    ASSUME Types, NEW u \in Ue, NEW s \in Slot, DlHarqInd(u, s)
    PROVE  \E released \in SUBSET Proc, again \in Seq(Proc) :
               /\ dlFree' = [dlFree EXCEPT ![u] = @ \union released]
               /\ macTb' = MacRelease(u, released)
               /\ dlRetx' = [dlRetx EXCEPT ![u] = @ \o again]
               /\ toSched' = IF again = <<>> THEN toSched ELSE AddUeToSchedule(u)
<1> DEFINE lst == hqDlmap[u][s]
<1>1. PICK fdbk \in [ToSet(lst) -> {"ACK", "NACK"}] :
        LET released == {p \in ToSet(lst) : IsGone(u, p, fdbk[p])}
            again == Picked(lst, {p \in ToSet(lst) : IsRetx(u, p, fdbk[p])})
        IN
        /\ dlFree' = [dlFree EXCEPT ![u] = @ \union released]
        /\ macTb' = MacRelease(u, released)
        /\ dlRetx' = [dlRetx EXCEPT ![u] = @ \o again]
        /\ toSched' = IF again = <<>> THEN toSched ELSE AddUeToSchedule(u)
  BY DEF DlHarqInd
<1> DEFINE released == {p \in ToSet(lst) : IsGone(u, p, fdbk[p])}
           again == Picked(lst, {p \in ToSet(lst) : IsRetx(u, p, fdbk[p])})
<1>2. lst \in Seq(Proc) /\ ToSet(lst) \subseteq Proc
  BY ToSetType DEF Types, DlTypes
<1>3. again \in Seq(Proc) /\ released \in SUBSET Proc
  BY <1>2, PickedProperties
<1> HIDE DEF lst, released, again
<1>4. /\ dlFree' = [dlFree EXCEPT ![u] = @ \union released]
      /\ macTb' = MacRelease(u, released)
      /\ dlRetx' = [dlRetx EXCEPT ![u] = @ \o again]
      /\ toSched' = IF again = <<>> THEN toSched ELSE AddUeToSchedule(u)
  BY <1>1 DEF lst, released, again
<1>5. QED
  BY <1>3, <1>4

-----------------------------------------------------------------------------
(* What holds whatever goes wrong *)

\* MAC never drops the block of a process in use (MacSchReleaseDlHarqProc):
\* it is told of processes that SCH frees, and of no others.
LEMMA InUseIsHeldKept ==
    ASSUME Types, InUseIsHeld, [Next]_vars
    PROVE  InUseIsHeld'
<1> USE DEF InUseIsHeld, DlInUse
<1>1. ASSUME UNCHANGED <<dlFree, macTb>>
      PROVE  InUseIsHeld'
  BY <1>1
<1>2. ASSUME NEW u \in Ue, NEW s \in Slot, DlHarqInd(u, s)
      PROVE  InUseIsHeld'
  <2>1. PICK released \in SUBSET Proc :
            /\ dlFree' = [dlFree EXCEPT ![u] = @ \union released]
            /\ macTb' = MacRelease(u, released)
    BY <1>2, DlHarqIndEffect
  <2>2. ASSUME NEW v \in Ue, NEW p \in Proc, p \notin dlFree'[v]
        PROVE  p \in macTb'[v]
    <3>1. p \in macTb[v]
      BY <2>1, <2>2 DEF Types, DlTypes
    <3>2. v = u => p \notin released
      BY <2>1, <2>2 DEF Types, DlTypes
    <3>3. QED
      BY <2>1, <3>1, <3>2 DEF MacRelease, Types, DlTypes
  <2>3. QED
    BY <2>2
<1>3. ASSUME NEW u \in Ue, NEW dl, NEW ul, ScheduleUe(u, dl, ul)
      PROVE  InUseIsHeld'
  <2>1. PICK hq \in {NoProc} \union (Ue \X Proc) : DlPart(u, dl, hq)
    BY <1>3 DEF ScheduleUe
  <2>2. CASE UNCHANGED <<dlFree, macTb>>
    BY <1>1, <2>2
  <2>3. ASSUME NEW p \in dlFree[u],
               dlFree' = [dlFree EXCEPT ![u] = @ \ {p}], macTb' = MacAdd(u, p)
        PROVE  InUseIsHeld'
    BY <2>3 DEF MacAdd, Types, DlTypes
  <2>4. ASSUME dlFree' = ReleaseDl(dlFree, hqP), UNCHANGED macTb
        PROVE  InUseIsHeld'
    BY <2>4 DEF ReleaseDl, Types, SchedTypes, DlTypes
  <2>5. QED
    BY <2>1, <2>2, <2>3, <2>4 DEF DlPart, DlRetx, DlNew, dlVars
<1>4. SlotInd => UNCHANGED <<dlFree, macTb>>
  BY DEF SlotInd, dlVars
<1>5. \A u \in Ue : DlRlcBoInfo(u) \/ SrUciInd(u) \/ Bsr(u) => UNCHANGED <<dlFree, macTb>>
  BY DEF DlRlcBoInfo, SrUciInd, Bsr, dlVars
<1>6. \A u \in Ue, s \in Slot :
        LoseUci(u, s) \/ CrcInd(u, s) \/ LoseCrc(u, s) => UNCHANGED <<dlFree, macTb>>
  BY DEF LoseUci, CrcInd, LoseCrc, dlVars
<1>7. UNCHANGED vars => UNCHANGED <<dlFree, macTb>>
  BY DEF vars, dlVars
<1>8. QED
  BY <1>1, <1>2, <1>3, <1>4, <1>5, <1>6, <1>7 DEF Next

\* A retransmission always finds its block at MAC, for every number of UEs,
\* processes and slots, and whatever goes wrong.
THEOREM BlockIsHeldWhileInUse == Spec => []InUseIsHeld
<1>1. Init => InUseIsHeld
  BY DEF Init, InUseIsHeld, DlInUse
<1>2. Types /\ InUseIsHeld /\ [Next]_vars => InUseIsHeld'
  BY InUseIsHeldKept
<1>3. QED
  BY <1>1, <1>2, TypesInvariant, PTL DEF Spec

\* What the two parts of handling a UE leave pending.
LEMMA DlPartPending ==
    ASSUME Types, NEW u \in Ue, NEW outcome, NEW hq, DlPart(u, outcome, hq)
    PROVE  /\ outcome = "refused" => DlPending(u)'
           /\ \A v \in Ue \ {u} : DlPending(v) => DlPending(v)'
<1>1. CASE DlRetx(u, outcome, hq)
  BY <1>1 DEF DlRetx, RemoveFrmRetx, DlPending, Types, DlTypes
<1>2. CASE DlNew(u, outcome, hq)
  <2>1. /\ dlRetx' = dlRetx
        /\ boInd' = boInd \/ (boInd' = boInd \ {u} /\ outcome = "scheduled")
        /\ u \in boInd
    BY <1>2 DEF DlNew
  <2>2. QED
    BY <2>1 DEF DlPending
<1>3. CASE outcome = "none" /\ UNCHANGED dlVars
  BY <1>3 DEF DlPending, dlVars
<1>4. QED
  BY <1>1, <1>2, <1>3 DEF DlPart

LEMMA UlPartPending ==
    ASSUME Types, NEW u \in Ue, NEW outcome, UlPart(u, outcome)
    PROVE  /\ outcome = "refused" => UlPending(u)'
           /\ \A v \in Ue \ {u} : UlPending(v) => UlPending(v)'
<1>1. ASSUME NEW p, GrantUl(u, p)
      PROVE  srRcvd' = srRcvd \ {u} /\ bsrRcvd' = bsrRcvd \ {u}
  BY <1>1 DEF GrantUl, Answered
<1>2. CASE UlRetx(u, outcome)
  <2>1. CASE outcome = "refused"
    BY <1>2, <2>1 DEF UlRetx, UlPending
  <2>2. CASE outcome # "refused"
    <3>1. ulRetx' = RemoveFrmRetx(ulRetx, u)
      BY <1>2, <2>2 DEF UlRetx
    <3>2. \/ srRcvd' = srRcvd \ {u} /\ bsrRcvd' = bsrRcvd \ {u}
          \/ UNCHANGED <<srRcvd, bsrRcvd>>
      BY <1>1, <1>2, <2>2 DEF UlRetx, NoGrantUl
    <3>3. QED
      BY <2>2, <3>1, <3>2 DEF RemoveFrmRetx, UlPending, Types, UlTypes
  <2>3. QED
    BY <2>1, <2>2
<1>3. CASE UlNew(u, outcome)
  <2>1. /\ ulRetx' = ulRetx
        /\ \/ srRcvd' = srRcvd \ {u} /\ bsrRcvd' = bsrRcvd \ {u} /\ outcome = "scheduled"
           \/ UNCHANGED <<srRcvd, bsrRcvd>>
        /\ u \in srRcvd \union bsrRcvd
    BY <1>1, <1>3 DEF UlNew, NoGrantUl
  <2>2. QED
    BY <2>1 DEF UlPending
<1>4. CASE outcome = "none" /\ UNCHANGED ulVars
  BY <1>4 DEF UlPending, ulVars
<1>5. QED
  BY <1>2, <1>3, <1>4 DEF UlPart

LEMMA QueuedIsPendingKept ==
    ASSUME Types, QueuedIsPending, [Next]_vars
    PROVE  QueuedIsPending'
<1> DEFINE Pending(v) == DlPending(v) \/ UlPending(v)
<1>1. ToSet(toSched) \subseteq Ue
  BY ToSetType DEF Types, SchedTypes
<1>2. ASSUME NEW u \in Ue, toSched' = toSched \/ toSched' = AddUeToSchedule(u),
             toSched' # toSched => Pending(u)',
             \A v \in Ue : Pending(v) => Pending(v)'
      PROVE  QueuedIsPending'
  <2>1. ToSet(toSched') \subseteq ToSet(toSched) \union {u}
    BY <1>2, AddUeProperties DEF Types, SchedTypes
  <2>2. u \in ToSet(toSched') => Pending(u)'
    BY <1>1, <1>2, <2>1 DEF QueuedIsPending
  <2>3. QED
    BY <1>1, <1>2, <2>1, <2>2 DEF QueuedIsPending
<1>3. ASSUME UNCHANGED <<toSched, dlRetx, boInd, ulRetx, srRcvd, bsrRcvd>>
      PROVE  QueuedIsPending'
  BY <1>3 DEF QueuedIsPending, DlPending, UlPending
<1>4. ASSUME NEW u \in Ue, DlRlcBoInfo(u) \/ SrUciInd(u) \/ Bsr(u)
      PROVE  QueuedIsPending'
  <2>1. /\ toSched' = AddUeToSchedule(u)
        /\ boInd \subseteq boInd' /\ srRcvd \subseteq srRcvd' /\ bsrRcvd \subseteq bsrRcvd'
        /\ u \in boInd' \union srRcvd' \union bsrRcvd'
        /\ UNCHANGED <<dlRetx, ulRetx>>
    BY <1>4 DEF DlRlcBoInfo, SrUciInd, Bsr, dlVars, ulVars
  <2>2. Pending(u)' /\ \A v \in Ue : Pending(v) => Pending(v)'
    BY <2>1 DEF DlPending, UlPending
  <2>3. QED
    BY <1>2, <2>1, <2>2
<1>5. ASSUME NEW u \in Ue, NEW s \in Slot, DlHarqInd(u, s)
      PROVE  QueuedIsPending'
  <2>1. PICK again \in Seq(Proc) :
            /\ dlRetx' = [dlRetx EXCEPT ![u] = @ \o again]
            /\ toSched' = IF again = <<>> THEN toSched ELSE AddUeToSchedule(u)
    BY <1>5, DlHarqIndEffect
  <2>2. UNCHANGED <<boInd, ulRetx, srRcvd, bsrRcvd>>
    BY <1>5 DEF DlHarqInd, ulVars
  <2>3. dlRetx[u] \o again = <<>> <=> dlRetx[u] = <<>> /\ again = <<>>
    BY ConcatToSet DEF Types, DlTypes
  <2>4. \A v \in Ue : Pending(v) => Pending(v)'
    BY <2>1, <2>2, <2>3 DEF DlPending, UlPending, Types, DlTypes
  <2>5. again # <<>> => Pending(u)'
    BY <2>1, <2>3 DEF DlPending, Types, DlTypes
  <2>6. QED
    BY <1>2, <2>1, <2>4, <2>5
<1>6. ASSUME NEW u \in Ue, NEW s \in Slot, CrcInd(u, s)
      PROVE  QueuedIsPending'
  <2>1. /\ UNCHANGED <<boInd, dlRetx, srRcvd, bsrRcvd>>
        /\ \/ UNCHANGED <<toSched, ulRetx>>
           \/ /\ ulRetx' = [ulRetx EXCEPT ![u] = Append(@, Head(hqUlmap[u][s]))]
              /\ toSched' = AddUeToSchedule(u)
              /\ hqUlmap[u][s] # <<>>
    BY <1>6 DEF CrcInd, dlVars
  <2>2. CASE UNCHANGED <<toSched, ulRetx>>
    BY <1>3, <2>1, <2>2
  <2>3. CASE /\ ulRetx' = [ulRetx EXCEPT ![u] = Append(@, Head(hqUlmap[u][s]))]
             /\ toSched' = AddUeToSchedule(u)
             /\ hqUlmap[u][s] # <<>>
    <3>1. Head(hqUlmap[u][s]) \in Proc
      BY <2>3, TailToSet DEF Types, UlTypes
    <3>2. Append(ulRetx[u], Head(hqUlmap[u][s])) # <<>>
      BY <3>1, AppendToSet DEF Types, UlTypes
    <3>3. Pending(u)' /\ \A v \in Ue : Pending(v) => Pending(v)'
      BY <2>1, <2>3, <3>2 DEF DlPending, UlPending, Types, UlTypes
    <3>4. QED
      BY <1>2, <2>3, <3>3
  <2>4. QED
    BY <2>1, <2>2, <2>3
<1>7. ASSUME NEW u \in Ue, NEW dl \in Outcome, NEW ul \in Outcome, ScheduleUe(u, dl, ul)
      PROVE  QueuedIsPending'
  <2>1. toSched # <<>>
    BY <1>7, EmptySeq DEF ScheduleUe, Types, SchedTypes
  <2>2. /\ ToSet(toSched') \subseteq ToSet(toSched)
        /\ u \in ToSet(toSched') => "refused" \in {dl, ul}
    BY <1>7, <2>1, RequeueProperties DEF ScheduleUe, Types, SchedTypes
  <2>3. PICK hq : DlPart(u, dl, hq)
    BY <1>7 DEF ScheduleUe
  <2>4. /\ dl = "refused" => DlPending(u)'
        /\ \A v \in Ue \ {u} : DlPending(v) => DlPending(v)'
    BY <2>3, DlPartPending
  <2>5. /\ ul = "refused" => UlPending(u)'
        /\ \A v \in Ue \ {u} : UlPending(v) => UlPending(v)'
    BY <1>7, UlPartPending DEF ScheduleUe
  <2>6. QED
    BY <1>1, <2>2, <2>4, <2>5 DEF QueuedIsPending
<1>8. SlotInd => UNCHANGED <<toSched, dlRetx, boInd, ulRetx, srRcvd, bsrRcvd>>
  BY DEF SlotInd, dlVars, ulVars
<1>9. \A u \in Ue, s \in Slot : LoseUci(u, s) \/ LoseCrc(u, s) =>
        UNCHANGED <<toSched, dlRetx, boInd, ulRetx, srRcvd, bsrRcvd>>
  BY DEF LoseUci, LoseCrc, schedVars, dlVars, ulVars
<1>10. UNCHANGED vars => UNCHANGED <<toSched, dlRetx, boInd, ulRetx, srRcvd, bsrRcvd>>
  BY DEF vars, schedVars, dlVars, ulVars
<1>11. QED
  BY <1>3, <1>4, <1>5, <1>6, <1>7, <1>8, <1>9, <1>10 DEF Next

\* A UE is in the list of UEs to schedule only while something is pending for
\* it, whatever goes wrong: the list never holds a UE that the loop would turn
\* over for ever.
THEOREM QueuedHasWork == Spec => []QueuedIsPending
<1>1. Init => QueuedIsPending
  BY ToSetEmpty DEF Init, QueuedIsPending
<1>2. Types /\ QueuedIsPending /\ [Next]_vars => QueuedIsPending'
  BY QueuedIsPendingKept
<1>3. QED
  BY <1>1, <1>2, TypesInvariant, PTL DEF Spec

-----------------------------------------------------------------------------
(* The places of the processes of one UE and direction: in F if they are     *)
(* free, in the retransmission list R, or in the list M[s] of a slot s.      *)

\* No process is in two places, or twice in one list.
OnePlace(F, R, M) ==
    /\ IsInjective(R)
    /\ \A q \in F : q \notin ToSet(R)
    /\ \A s \in Slot :
        /\ IsInjective(M[s])
        /\ \A q \in ToSet(M[s]) :
            q \notin F /\ q \notin ToSet(R) /\ \A t \in Slot \ {s} : q \notin ToSet(M[t])

\* Every process is somewhere, and the slots that are reserved have one each.
APlace(F, R, M, reserved) ==
    /\ \A p \in Proc : p \in F \/ p \in ToSet(R) \/ \E s \in Slot : p \in ToSet(M[s])
    /\ \A s \in Slot : Len(M[s]) = IF s \in reserved THEN 1 ELSE 0

\* A process that is taken from where it was and put nowhere.
LEMMA Lose ==
    ASSUME NEW F \in SUBSET Proc, NEW R \in Seq(Proc), NEW M \in [Slot -> Seq(Proc)],
           OnePlace(F, R, M)
    PROVE  /\ \A p \in F : OnePlace(F \ {p}, R, M)
           /\ R # <<>> => OnePlace(F, Tail(R), M)
<1>1. \A p \in F : OnePlace(F \ {p}, R, M)
  BY DEF OnePlace
<1>2. ASSUME R # <<>>
      PROVE  OnePlace(F, Tail(R), M)
  <2>1. ToSet(Tail(R)) \subseteq ToSet(R) /\ IsInjective(Tail(R))
    BY <1>2, TailToSet DEF OnePlace
  <2>2. QED
    BY <2>1 DEF OnePlace
<1>3. QED
  BY <1>1, <1>2

\* A free process is scheduled, its feedback due in slot s.
LEMMA ScheduleFree ==
    ASSUME NEW F \in SUBSET Proc, NEW R \in Seq(Proc), NEW M \in [Slot -> Seq(Proc)],
           NEW p \in F, NEW s \in Slot, OnePlace(F, R, M)
    PROVE  /\ OnePlace(F \ {p}, R, [M EXCEPT ![s] = Append(@, p)])
           /\ \A res : s \notin res /\ APlace(F, R, M, res) =>
                APlace(F \ {p}, R, [M EXCEPT ![s] = Append(@, p)], res \union {s})
<1> DEFINE N == [M EXCEPT ![s] = Append(@, p)]
<1>1. /\ Append(M[s], p) \in Seq(Proc) /\ ToSet(Append(M[s], p)) = ToSet(M[s]) \union {p}
      /\ Len(Append(M[s], p)) = Len(M[s]) + 1
  BY AppendToSet
<1>2. IsInjective(Append(M[s], p))
  BY AppendToSet DEF OnePlace
<1>3. N[s] = Append(M[s], p) /\ \A t \in Slot \ {s} : N[t] = M[t]
  OBVIOUS
<1> HIDE DEF N
<1>5. OnePlace(F \ {p}, R, N)
  <2>1. \A t \in Slot : IsInjective(N[t])
    BY <1>2, <1>3 DEF OnePlace
  <2>2. \A t \in Slot : ToSet(N[t]) \subseteq ToSet(M[t]) \union {p}
    BY <1>1, <1>3
  <2>3. \A t \in Slot \ {s} : p \notin ToSet(N[t])
    BY <1>3 DEF OnePlace
  <2>4. ASSUME NEW t \in Slot, NEW q \in ToSet(N[t])
        PROVE  q \notin F \ {p} /\ q \notin ToSet(R) /\ \A r \in Slot \ {t} : q \notin ToSet(N[r])
    <3>1. CASE q = p
      BY <2>3, <2>4, <3>1 DEF OnePlace
    <3>2. CASE q # p
      <4>1. q \in ToSet(M[t]) /\ \A r \in Slot : q \in ToSet(N[r]) => q \in ToSet(M[r])
        BY <2>2, <2>4, <3>2
      <4>2. q \notin F /\ q \notin ToSet(R) /\ \A r \in Slot \ {t} : q \notin ToSet(M[r])
        BY <4>1 DEF OnePlace
      <4>3. QED
        BY <4>1, <4>2
    <3>3. QED
      BY <3>1, <3>2
  <2>5. QED
    BY <2>1, <2>4 DEF OnePlace
<1>6. ASSUME NEW res, s \notin res, APlace(F, R, M, res)
      PROVE  APlace(F \ {p}, R, N, res \union {s})
  <2>1. p \in ToSet(N[s]) /\ \A t \in Slot : ToSet(M[t]) \subseteq ToSet(N[t])
    BY <1>1, <1>3
  <2>2. \A t \in Slot : Len(N[t]) = IF t \in res \union {s} THEN 1 ELSE 0
    BY <1>1, <1>3, <1>6 DEF APlace
  <2>3. QED
    BY <1>6, <2>1, <2>2 DEF APlace
<1>7. QED
  BY <1>5, <1>6 DEF N

\* The first process of the retransmission list is scheduled.
LEMMA ScheduleAgain ==
    ASSUME NEW F \in SUBSET Proc, NEW R \in Seq(Proc), NEW M \in [Slot -> Seq(Proc)],
           R # <<>>, NEW s \in Slot, OnePlace(F, R, M)
    PROVE  /\ OnePlace(F, Tail(R), [M EXCEPT ![s] = Append(@, Head(R))])
           /\ \A res : s \notin res /\ APlace(F, R, M, res) =>
                APlace(F, Tail(R), [M EXCEPT ![s] = Append(@, Head(R))], res \union {s})
<1> DEFINE p == Head(R)
           Q == Tail(R)
           N == [M EXCEPT ![s] = Append(@, p)]
<1>1. /\ p \in Proc /\ p \in ToSet(R) /\ Q \in Seq(Proc)
      /\ ToSet(R) = ToSet(Q) \union {p}
      /\ IsInjective(Q) /\ p \notin ToSet(Q)
  BY TailToSet DEF OnePlace
<1> HIDE DEF p, Q
<1>2. /\ Append(M[s], p) \in Seq(Proc) /\ ToSet(Append(M[s], p)) = ToSet(M[s]) \union {p}
      /\ Len(Append(M[s], p)) = Len(M[s]) + 1
  BY <1>1, AppendToSet
<1>3. IsInjective(Append(M[s], p))
  BY <1>1, AppendToSet DEF OnePlace
<1>4. N[s] = Append(M[s], p) /\ \A t \in Slot \ {s} : N[t] = M[t]
  OBVIOUS
<1> HIDE DEF N
<1>6. OnePlace(F, Q, N)
  <2>1. \A t \in Slot : IsInjective(N[t])
    BY <1>3, <1>4 DEF OnePlace
  <2>2. \A t \in Slot : ToSet(N[t]) \subseteq ToSet(M[t]) \union {p}
    BY <1>2, <1>4
  <2>3. \A t \in Slot \ {s} : p \notin ToSet(N[t])
    BY <1>1, <1>4 DEF OnePlace
  <2>4. p \notin F
    BY <1>1 DEF OnePlace
  <2>5. ASSUME NEW t \in Slot, NEW q \in ToSet(N[t])
        PROVE  q \notin F /\ q \notin ToSet(Q) /\ \A r \in Slot \ {t} : q \notin ToSet(N[r])
    <3>1. CASE q = p
      BY <1>1, <2>3, <2>4, <2>5, <3>1
    <3>2. CASE q # p
      BY <1>1, <2>2, <2>5, <3>2 DEF OnePlace
    <3>3. QED
      BY <3>1, <3>2
  <2>6. QED
    BY <1>1, <2>1, <2>5 DEF OnePlace
<1>7. ASSUME NEW res, s \notin res, APlace(F, R, M, res)
      PROVE  APlace(F, Q, N, res \union {s})
  <2>1. p \in ToSet(N[s]) /\ \A t \in Slot : ToSet(M[t]) \subseteq ToSet(N[t])
    BY <1>2, <1>4
  <2>2. \A t \in Slot : Len(N[t]) = IF t \in res \union {s} THEN 1 ELSE 0
    BY <1>2, <1>4, <1>7 DEF APlace
  <2>3. QED
    BY <1>1, <1>7, <2>1, <2>2 DEF APlace
<1>8. QED
  BY <1>6, <1>7 DEF N, p, Q

\* The first process of a slot's list has its feedback: it is free, or goes to
\* the end of the retransmission list.
LEMMA FeedbackOfHead ==
    ASSUME NEW F \in SUBSET Proc, NEW R \in Seq(Proc), NEW M \in [Slot -> Seq(Proc)],
           NEW s \in Slot, M[s] # <<>>, OnePlace(F, R, M)
    PROVE  LET p == Head(M[s])
               N == [M EXCEPT ![s] = Tail(@)]
           IN /\ p \notin F \union ToSet(R)
              /\ OnePlace(F \union {p}, R, N)
              /\ OnePlace(F, Append(R, p), N)
              /\ \A res : s \in res /\ APlace(F, R, M, res) =>
                    /\ APlace(F \union {p}, R, N, res \ {s})
                    /\ APlace(F, Append(R, p), N, res \ {s})
<1> DEFINE p == Head(M[s])
           T == Tail(M[s])
           N == [M EXCEPT ![s] = Tail(@)]
<1>1. /\ p \in Proc /\ p \in ToSet(M[s]) /\ T \in Seq(Proc) /\ Len(T) = Len(M[s]) - 1
      /\ ToSet(M[s]) = ToSet(T) \union {p}
      /\ IsInjective(T) /\ p \notin ToSet(T)
  BY TailToSet DEF OnePlace
<1>2. N[s] = T /\ \A t \in Slot \ {s} : N[t] = M[t]
  OBVIOUS
<1> HIDE DEF p, T, N
<1>3. p \notin F \union ToSet(R)
  BY <1>1 DEF OnePlace
<1>4. /\ ToSet(Append(R, p)) = ToSet(R) \union {p}
      /\ IsInjective(Append(R, p))
  BY <1>1, <1>3, AppendToSet DEF OnePlace
<1>5. \A t \in Slot : IsInjective(N[t]) /\ p \notin ToSet(N[t]) /\ ToSet(N[t]) \subseteq ToSet(M[t])
  BY <1>1, <1>2 DEF OnePlace
<1>6. OnePlace(F \union {p}, R, N)
  BY <1>3, <1>5 DEF OnePlace
<1>7. OnePlace(F, Append(R, p), N)
  BY <1>3, <1>4, <1>5 DEF OnePlace
<1>8. ASSUME NEW res, s \in res, APlace(F, R, M, res)
      PROVE  APlace(F \union {p}, R, N, res \ {s}) /\ APlace(F, Append(R, p), N, res \ {s})
  <2>1. \A t \in Slot : ToSet(M[t]) \subseteq ToSet(N[t]) \union {p}
    BY <1>1, <1>2
  <2>2. \A t \in Slot : Len(N[t]) = IF t \in res \ {s} THEN 1 ELSE 0
    BY <1>1, <1>2, <1>8 DEF APlace
  <2>3. QED
    BY <1>4, <1>8, <2>1, <2>2 DEF APlace
<1>9. QED
  BY <1>3, <1>6, <1>7, <1>8 DEF p, N

-----------------------------------------------------------------------------
(* The uplink processes *)

\* Whatever goes wrong.
UlOnePlace == \A u \in Ue : OnePlace(ulFree[u], ulRetx[u], hqUlmap[u])

LEMMA UlPartOnePlace ==
    ASSUME Types, UlOnePlace, NEW u \in Ue, NEW outcome, UlPart(u, outcome)
    PROVE  UlOnePlace'
<1>1. /\ ulFree[u] \in SUBSET Proc /\ ulRetx[u] \in Seq(Proc)
      /\ hqUlmap[u] \in [Slot -> Seq(Proc)]
      /\ OnePlace(ulFree[u], ulRetx[u], hqUlmap[u])
  BY DEF Types, UlTypes, UlOnePlace
<1>2. ASSUME OnePlace(ulFree'[u], ulRetx'[u], hqUlmap'[u]),
             \A v \in Ue \ {u} : /\ ulFree'[v] = ulFree[v] /\ ulRetx'[v] = ulRetx[v]
                                 /\ hqUlmap'[v] = hqUlmap[v]
      PROVE  UlOnePlace'
  BY <1>2 DEF UlOnePlace
<1>3. ASSUME NEW p \in Proc, GrantUl(u, p)
      PROVE  \E s \in Slot : /\ hqUlmap'[u] = [hqUlmap[u] EXCEPT ![s] = Append(@, p)]
                             /\ \A v \in Ue \ {u} : hqUlmap'[v] = hqUlmap[v]
  BY <1>3 DEF GrantUl, AddTo, Types, UlTypes
<1>4. CASE UlRetx(u, outcome)
  <2>1. CASE ulRetx' = RemoveFrmRetx(ulRetx, u)
    <3>1. /\ ulRetx[u] # <<>> /\ ulRetx'[u] = Tail(ulRetx[u])
          /\ ulFree' = ulFree /\ \A v \in Ue \ {u} : ulRetx'[v] = ulRetx[v]
          /\ GrantUl(u, Head(ulRetx[u])) \/ (hqUlmap' = hqUlmap)
      BY <1>4, <2>1 DEF UlRetx, RemoveFrmRetx, NoGrantUl, Types, UlTypes
    <3>2. Head(ulRetx[u]) \in Proc
      BY <1>1, <3>1, TailToSet
    <3>3. CASE hqUlmap' = hqUlmap
      <4>1. OnePlace(ulFree[u], Tail(ulRetx[u]), hqUlmap[u])
        BY <1>1, <3>1, Lose
      <4>2. QED
        BY <1>2, <3>1, <3>3, <4>1
    <3>4. CASE GrantUl(u, Head(ulRetx[u]))
      <4>1. PICK s \in Slot : /\ hqUlmap'[u] = [hqUlmap[u] EXCEPT ![s] = Append(@, Head(ulRetx[u]))]
                              /\ \A v \in Ue \ {u} : hqUlmap'[v] = hqUlmap[v]
        BY <1>3, <3>2, <3>4
      <4>2. OnePlace(ulFree[u], Tail(ulRetx[u]),
                     [hqUlmap[u] EXCEPT ![s] = Append(@, Head(ulRetx[u]))])
        BY <1>1, <3>1, ScheduleAgain
      <4>3. QED
        BY <1>2, <3>1, <4>1, <4>2
    <3>5. QED
      BY <3>1, <3>3, <3>4
  <2>2. CASE UNCHANGED <<hqUlmap, ulRetx>>
    BY <1>4, <2>2 DEF UlRetx, UlOnePlace
  <2>3. QED
    BY <1>4, <2>1, <2>2 DEF UlRetx
<1>5. CASE UlNew(u, outcome)
  <2>1. ulRetx' = ulRetx
    BY <1>5 DEF UlNew
  <2>2. CASE UNCHANGED <<hqUlmap, ulFree>>
    BY <2>1, <2>2 DEF UlOnePlace
  <2>3. ASSUME NEW p \in ulFree[u], ulFree' = [ulFree EXCEPT ![u] = @ \ {p}],
               GrantUl(u, p) \/ NoGrantUl(u)
        PROVE  UlOnePlace'
    <3>1. /\ p \in Proc /\ ulFree'[u] = ulFree[u] \ {p}
          /\ \A v \in Ue \ {u} : ulFree'[v] = ulFree[v]
      BY <2>3 DEF Types, UlTypes
    <3>2. CASE hqUlmap' = hqUlmap
      <4>1. OnePlace(ulFree[u] \ {p}, ulRetx[u], hqUlmap[u])
        BY <1>1 DEF OnePlace
      <4>2. QED
        BY <1>2, <2>1, <3>1, <3>2, <4>1
    <3>3. CASE GrantUl(u, p)
      <4>1. PICK s \in Slot : /\ hqUlmap'[u] = [hqUlmap[u] EXCEPT ![s] = Append(@, p)]
                              /\ \A v \in Ue \ {u} : hqUlmap'[v] = hqUlmap[v]
        BY <1>3, <3>1, <3>3
      <4>2. OnePlace(ulFree[u] \ {p}, ulRetx[u], [hqUlmap[u] EXCEPT ![s] = Append(@, p)])
        BY <1>1, ScheduleFree
      <4>3. QED
        BY <1>2, <2>1, <3>1, <4>1, <4>2
    <3>4. QED
      BY <2>3, <3>2, <3>3 DEF NoGrantUl
  <2>4. QED
    BY <1>5, <2>2, <2>3 DEF UlNew
<1>6. CASE UNCHANGED ulVars
  BY <1>6 DEF UlOnePlace, ulVars
<1>7. QED
  BY <1>4, <1>5, <1>6 DEF UlPart

\* What a CRC indication does to the places of a process.
LEMMA CrcIndEffect ==
    ASSUME Types, UlOnePlace, NEW u \in Ue, NEW s \in Slot, CrcInd(u, s)
    PROVE  /\ s \in pusch[u] /\ pusch'[u] = pusch[u] \ {s}
           /\ ~corrupt'
           /\ \A v \in Ue \ {u} : /\ ulFree'[v] = ulFree[v] /\ ulRetx'[v] = ulRetx[v]
                                  /\ hqUlmap'[v] = hqUlmap[v] /\ pusch'[v] = pusch[v]
           /\ OnePlace(ulFree'[u], ulRetx'[u], hqUlmap'[u])
           /\ APlace(ulFree[u], ulRetx[u], hqUlmap[u], pusch[u]) =>
                APlace(ulFree'[u], ulRetx'[u], hqUlmap'[u], pusch'[u])
<1> DEFINE p == Head(hqUlmap[u][s])
           N == [hqUlmap[u] EXCEPT ![s] = Tail(@)]
<1>1. /\ ulFree[u] \in SUBSET Proc /\ ulRetx[u] \in Seq(Proc)
      /\ hqUlmap[u] \in [Slot -> Seq(Proc)]
      /\ OnePlace(ulFree[u], ulRetx[u], hqUlmap[u])
  BY DEF Types, UlTypes, UlOnePlace
<1>2. s \in pusch[u] /\ pusch'[u] = pusch[u] \ {s} /\ \A v \in Ue \ {u} : pusch'[v] = pusch[v]
  BY DEF CrcInd, Types, UlTypes
<1>3. CASE hqUlmap[u][s] = <<>>
  <2>1. UNCHANGED <<ulFree, ulRetx, hqUlmap, corrupt>> /\ ~corrupt
    BY <1>3 DEF CrcInd, Idle
  <2>2. ~APlace(ulFree[u], ulRetx[u], hqUlmap[u], pusch[u])
    BY <1>2, <1>3, ToSetEmpty DEF APlace
  <2>3. QED
    BY <1>1, <1>2, <2>1, <2>2
<1>4. CASE hqUlmap[u][s] # <<>>
  <2>1. /\ p \notin ulFree[u] \union ToSet(ulRetx[u])
        /\ OnePlace(ulFree[u] \union {p}, ulRetx[u], N)
        /\ OnePlace(ulFree[u], Append(ulRetx[u], p), N)
        /\ APlace(ulFree[u], ulRetx[u], hqUlmap[u], pusch[u]) =>
             /\ APlace(ulFree[u] \union {p}, ulRetx[u], N, pusch[u] \ {s})
             /\ APlace(ulFree[u], Append(ulRetx[u], p), N, pusch[u] \ {s})
    BY <1>1, <1>2, <1>4, FeedbackOfHead
  <2>2. hqUlmap'[u] = N /\ \A v \in Ue \ {u} : hqUlmap'[v] = hqUlmap[v]
    BY <1>4 DEF CrcInd, Types, UlTypes
  <2>3. \/ /\ ulFree' = [ulFree EXCEPT ![u] = @ \union {p}] /\ ulRetx' = ulRetx
           /\ corrupt' = (p \in ulFree[u] \union ToSet(ulRetx[u]))
        \/ /\ ulRetx' = [ulRetx EXCEPT ![u] = Append(@, p)] /\ ulFree' = ulFree
           /\ corrupt' = (p \in ToSet(ulRetx[u]))
    BY <1>4 DEF CrcInd
  <2> HIDE DEF p, N
  <2>4. CASE /\ ulFree' = [ulFree EXCEPT ![u] = @ \union {p}] /\ ulRetx' = ulRetx
             /\ corrupt' = (p \in ulFree[u] \union ToSet(ulRetx[u]))
    <3>1. ulFree'[u] = ulFree[u] \union {p} /\ \A v \in Ue \ {u} : ulFree'[v] = ulFree[v]
      BY <2>4 DEF Types, UlTypes
    <3>2. ~corrupt'
      BY <2>1, <2>4
    <3>3. QED
      BY <1>2, <2>1, <2>2, <2>4, <3>1, <3>2
  <2>5. CASE /\ ulRetx' = [ulRetx EXCEPT ![u] = Append(@, p)] /\ ulFree' = ulFree
             /\ corrupt' = (p \in ToSet(ulRetx[u]))
    <3>1. ulRetx'[u] = Append(ulRetx[u], p) /\ \A v \in Ue \ {u} : ulRetx'[v] = ulRetx[v]
      BY <2>5 DEF Types, UlTypes
    <3>2. ~corrupt'
      BY <2>1, <2>5
    <3>3. QED
      BY <1>2, <2>1, <2>2, <2>5, <3>1, <3>2
  <2>6. QED
    BY <2>3, <2>4, <2>5
<1>5. QED
  BY <1>3, <1>4

\* The steps that leave the places of the uplink processes alone.
LEMMA UlUnchanged ==
    ASSUME SlotInd \/ (\E u \in Ue : DlRlcBoInfo(u) \/ SrUciInd(u) \/ Bsr(u))
             \/ (\E u \in Ue, s \in Slot : DlHarqInd(u, s) \/ LoseUci(u, s) \/ LoseCrc(u, s))
             \/ UNCHANGED vars
    PROVE  UNCHANGED <<ulFree, ulRetx, hqUlmap>>
<1>1. SlotInd => UNCHANGED <<ulFree, ulRetx, hqUlmap>>
  BY DEF SlotInd, ulVars
<1>2. \A u \in Ue : DlRlcBoInfo(u) \/ SrUciInd(u) \/ Bsr(u) => UNCHANGED <<ulFree, ulRetx, hqUlmap>>
  BY DEF DlRlcBoInfo, SrUciInd, Bsr, ulVars
<1>3. \A u \in Ue, s \in Slot : DlHarqInd(u, s) => UNCHANGED <<ulFree, ulRetx, hqUlmap>>
  BY DEF DlHarqInd, ulVars
<1>4. \A u \in Ue, s \in Slot : LoseUci(u, s) \/ LoseCrc(u, s) => UNCHANGED <<ulFree, ulRetx, hqUlmap>>
  BY DEF LoseUci, LoseCrc, ulVars
<1>5. UNCHANGED vars => UNCHANGED <<ulFree, ulRetx, hqUlmap>>
  BY DEF vars, ulVars
<1>6. QED
  BY <1>1, <1>2, <1>3, <1>4, <1>5

LEMMA UlOnePlaceKept ==
    ASSUME Types, UlOnePlace, [Next]_vars
    PROVE  UlOnePlace'
<1>1. ASSUME UNCHANGED <<ulFree, ulRetx, hqUlmap>>
      PROVE  UlOnePlace'
  BY <1>1 DEF UlOnePlace
<1>2. ASSUME NEW u \in Ue, NEW s \in Slot, CrcInd(u, s)
      PROVE  UlOnePlace'
  BY <1>2, CrcIndEffect DEF UlOnePlace
<1>3. ASSUME NEW u \in Ue, NEW dl, NEW ul, ScheduleUe(u, dl, ul)
      PROVE  UlOnePlace'
  BY <1>3, UlPartOnePlace DEF ScheduleUe
<1>4. QED
  BY <1>1, <1>2, <1>3, UlUnchanged DEF Next

LEMMA UlOnePlaceInvariant == Spec => []UlOnePlace
<1>1. Init => UlOnePlace
  BY ToSetEmpty DEF Init, UlOnePlace, OnePlace
<1>2. Types /\ UlOnePlace /\ [Next]_vars => UlOnePlace'
  BY UlOnePlaceKept
<1>3. QED
  BY <1>1, <1>2, TypesInvariant, PTL DEF Spec

\* A free uplink process is in no slot's list and awaits no retransmission:
\* no CRC indication can be taken for a process that was given to new data,
\* whatever was lost or refused before.
THEOREM FreeUlProcessIsUnused == Spec => []UlFreeIsUnused
<1>1. ASSUME UlOnePlace
      PROVE  UlFreeIsUnused
  BY <1>1 DEF UlOnePlace, OnePlace, UlFreeIsUnused, Awaited
<1>2. QED
  BY <1>1, UlOnePlaceInvariant, PTL

-----------------------------------------------------------------------------
(* If nothing is lost and every grant succeeds, no uplink process is lost.   *)

UlReliable == Faults \intersect {"crc", "zeroBsr", "ulPrb"} = {}

UlAPlace ==
    /\ \A u \in Ue : APlace(ulFree[u], ulRetx[u], hqUlmap[u], pusch[u])
    /\ bsrRcvd \subseteq bsrVol

LEMMA UlPartAPlace ==
    ASSUME UlReliable, Types, UlOnePlace, UlAPlace,
           NEW u \in Ue, NEW outcome, UlPart(u, outcome)
    PROVE  UlAPlace'
<1>1. /\ ulFree[u] \in SUBSET Proc /\ ulRetx[u] \in Seq(Proc)
      /\ hqUlmap[u] \in [Slot -> Seq(Proc)]
      /\ OnePlace(ulFree[u], ulRetx[u], hqUlmap[u])
      /\ APlace(ulFree[u], ulRetx[u], hqUlmap[u], pusch[u])
      /\ ~NoUlPrb(u)
  BY DEF Types, UlTypes, UlOnePlace, UlAPlace, UlReliable, NoUlPrb
<1>2. ASSUME APlace(ulFree'[u], ulRetx'[u], hqUlmap'[u], pusch'[u]),
             \A v \in Ue \ {u} : /\ ulFree'[v] = ulFree[v] /\ ulRetx'[v] = ulRetx[v]
                                 /\ hqUlmap'[v] = hqUlmap[v] /\ pusch'[v] = pusch[v],
             bsrRcvd' \subseteq bsrVol'
      PROVE  UlAPlace'
  BY <1>2 DEF UlAPlace
<1>3. ASSUME NEW p \in Proc, GrantUl(u, p)
      PROVE  /\ \E s \in Slot \ pusch[u] :
                    /\ hqUlmap'[u] = [hqUlmap[u] EXCEPT ![s] = Append(@, p)]
                    /\ pusch'[u] = pusch[u] \union {s}
             /\ \A v \in Ue \ {u} : hqUlmap'[v] = hqUlmap[v] /\ pusch'[v] = pusch[v]
             /\ bsrRcvd' \subseteq bsrVol'
  <2>1. bsrRcvd' \subseteq bsrVol'
    BY <1>3 DEF GrantUl, Answered, UlAPlace
  <2>2. QED
    BY <1>3, <2>1 DEF GrantUl, AddTo, Types, UlTypes
<1>4. CASE UlRetx(u, outcome)
  <2>1. CASE outcome = "scheduled"
    <3>1. /\ ulRetx[u] # <<>> /\ ulRetx'[u] = Tail(ulRetx[u])
          /\ ulFree' = ulFree /\ \A v \in Ue \ {u} : ulRetx'[v] = ulRetx[v]
          /\ GrantUl(u, Head(ulRetx[u]))
      BY <1>1, <1>4, <2>1 DEF UlRetx, RemoveFrmRetx, Types, UlTypes
    <3>2. Head(ulRetx[u]) \in Proc
      BY <1>1, <3>1, TailToSet
    <3>3. PICK s \in Slot \ pusch[u] :
              /\ hqUlmap'[u] = [hqUlmap[u] EXCEPT ![s] = Append(@, Head(ulRetx[u]))]
              /\ pusch'[u] = pusch[u] \union {s}
      BY <1>3, <3>1, <3>2
    <3>4. APlace(ulFree[u], Tail(ulRetx[u]),
                 [hqUlmap[u] EXCEPT ![s] = Append(@, Head(ulRetx[u]))], pusch[u] \union {s})
      BY <1>1, <3>1, ScheduleAgain
    <3>5. QED
      BY <1>2, <1>3, <3>1, <3>2, <3>3, <3>4
  <2>2. CASE outcome # "scheduled"
    BY <1>4, <2>2 DEF UlRetx, UlAPlace
  <2>3. QED
    BY <2>1, <2>2
<1>5. CASE UlNew(u, outcome)
  <2>1. ulRetx' = ulRetx
    BY <1>5 DEF UlNew
  <2>2. CASE UNCHANGED <<pusch, hqUlmap, bsrRcvd, bsrVol, ulFree>>
    BY <2>1, <2>2 DEF UlAPlace
  <2>3. ASSUME NEW p \in ulFree[u], ulFree' = [ulFree EXCEPT ![u] = @ \ {p}], GrantUl(u, p)
        PROVE  UlAPlace'
    <3>1. /\ p \in Proc /\ ulFree'[u] = ulFree[u] \ {p}
          /\ \A v \in Ue \ {u} : ulFree'[v] = ulFree[v]
      BY <2>3 DEF Types, UlTypes
    <3>2. PICK s \in Slot \ pusch[u] :
              /\ hqUlmap'[u] = [hqUlmap[u] EXCEPT ![s] = Append(@, p)]
              /\ pusch'[u] = pusch[u] \union {s}
      BY <1>3, <2>3, <3>1
    <3>3. APlace(ulFree[u] \ {p}, ulRetx[u], [hqUlmap[u] EXCEPT ![s] = Append(@, p)],
                 pusch[u] \union {s})
      BY <1>1, ScheduleFree
    <3>4. QED
      BY <1>2, <1>3, <2>1, <2>3, <3>1, <3>2, <3>3
  <2>4. u \in srRcvd \union bsrVol
    BY <1>5 DEF UlNew, UlAPlace
  <2>5. QED
    BY <1>1, <1>5, <2>2, <2>3, <2>4 DEF UlNew
<1>6. CASE UNCHANGED ulVars
  BY <1>6 DEF UlAPlace, ulVars
<1>7. QED
  BY <1>4, <1>5, <1>6 DEF UlPart

LEMMA UlAPlaceKept ==
    ASSUME UlReliable, Types, UlOnePlace, UlAPlace, [Next]_vars
    PROVE  UlAPlace'
<1>1. ASSUME UNCHANGED <<ulFree, ulRetx, hqUlmap, pusch, bsrRcvd, bsrVol>>
      PROVE  UlAPlace'
  BY <1>1 DEF UlAPlace
<1>2. ASSUME NEW u \in Ue, DlRlcBoInfo(u) \/ SrUciInd(u) \/ Bsr(u)
      PROVE  UlAPlace'
  <2>1. /\ UNCHANGED <<ulFree, ulRetx, hqUlmap, pusch>>
        /\ \/ UNCHANGED <<bsrRcvd, bsrVol>>
           \/ bsrRcvd' = bsrRcvd \union {u} /\ bsrVol' = bsrVol \union {u}
    BY <1>2 DEF DlRlcBoInfo, SrUciInd, Bsr, ulVars, UlReliable
  <2>2. QED
    BY <2>1 DEF UlAPlace
<1>3. ASSUME NEW u \in Ue, NEW s \in Slot, CrcInd(u, s)
      PROVE  UlAPlace'
  <2>1. UNCHANGED <<bsrRcvd, bsrVol>>
    BY <1>3 DEF CrcInd
  <2>2. QED
    BY <1>3, <2>1, CrcIndEffect DEF UlAPlace
<1>4. ASSUME NEW u \in Ue, NEW s \in Slot, DlHarqInd(u, s) \/ LoseUci(u, s) \/ LoseCrc(u, s)
      PROVE  UNCHANGED <<ulFree, ulRetx, hqUlmap, pusch, bsrRcvd, bsrVol>>
  BY <1>4 DEF DlHarqInd, LoseUci, LoseCrc, ulVars, UlReliable
<1>5. ASSUME SlotInd \/ UNCHANGED vars
      PROVE  UNCHANGED <<ulFree, ulRetx, hqUlmap, pusch, bsrRcvd, bsrVol>>
  BY <1>5 DEF SlotInd, vars, ulVars
<1>6. ASSUME NEW u \in Ue, NEW dl, NEW ul, ScheduleUe(u, dl, ul)
      PROVE  UlAPlace'
  BY <1>6, UlPartAPlace DEF ScheduleUe
<1>7. QED
  BY <1>1, <1>2, <1>3, <1>4, <1>5, <1>6 DEF Next

\* If every CRC indication comes, no BSR is empty and PRBs suffice, an uplink
\* process in use has exactly one place: its feedback is due in one slot, which
\* is reserved, or it awaits its retransmission.
THEOREM UlInUseIsPlaced == ASSUME UlReliable PROVE Spec => []UlInUseHasPlace
<1>1. Init => UlAPlace
  BY ToSetEmpty DEF Init, UlAPlace, APlace
<1>2. Types /\ UlOnePlace /\ UlAPlace /\ [Next]_vars => UlAPlace'
  BY UlAPlaceKept
<1>3. ASSUME Types, UlOnePlace, UlAPlace
      PROVE  UlInUseHasPlace
  <2> SUFFICES ASSUME NEW u \in Ue
               PROVE  UlInUseHasPlace!(u)
    BY DEF UlInUseHasPlace
  <2>1. /\ ulFree[u] \in SUBSET Proc /\ ulRetx[u] \in Seq(Proc)
        /\ hqUlmap[u] \in [Slot -> Seq(Proc)]
        /\ OnePlace(ulFree[u], ulRetx[u], hqUlmap[u])
        /\ APlace(ulFree[u], ulRetx[u], hqUlmap[u], pusch[u])
    BY <1>3 DEF Types, UlTypes, UlOnePlace, UlAPlace
  <2>2. ToSet(ulRetx[u]) \subseteq Proc /\ \A s \in Slot : ToSet(hqUlmap[u][s]) \subseteq Proc
    BY <2>1, ToSetType
  <2>3. UlInUse(u) = Awaited(hqUlmap, u) \union ToSet(ulRetx[u])
    BY <2>1, <2>2 DEF OnePlace, APlace, UlInUse, Awaited
  <2>4. ASSUME NEW s \in Slot
        PROVE  /\ s \in pusch[u] <=> Len(hqUlmap[u][s]) = 1
               /\ s \notin pusch[u] <=> hqUlmap[u][s] = <<>>
    <3>1. hqUlmap[u][s] \in Seq(Proc) /\ Len(hqUlmap[u][s]) = IF s \in pusch[u] THEN 1 ELSE 0
      BY <2>1 DEF APlace
    <3>2. hqUlmap[u][s] = <<>> <=> Len(hqUlmap[u][s]) = 0
      BY <3>1, EmptySeq
    <3>3. QED
      BY <3>1, <3>2
  <2>5. QED
    BY <2>1, <2>3, <2>4 DEF OnePlace
<1>4. QED
  BY <1>1, <1>2, <1>3, TypesInvariant, UlOnePlaceInvariant, PTL DEF Spec

-----------------------------------------------------------------------------
(* If no feedback is lost, PRBs suffice and a UE has more processes than     *)
(* there are slots to expect feedback in, no downlink process is lost,       *)
(* forgotten or freed by another UE, and the lists are never damaged.        *)

\* A UE has SCH_MAX_NUM_DL_HQ_PROC = 16 processes.  With numerology 0 there are
\* SCH_MU0_NUM_SLOTS = 10 slots; with numerology 1 there are 20, of which only
\* those with uplink symbols can carry feedback (sch.h).
DlReliable ==
    /\ Faults \intersect {"dlPrb", "uci"} = {}
    /\ IsFiniteSet(Proc) /\ IsFiniteSet(Slot) /\ Cardinality(Slot) < Cardinality(Proc)

DlOnePlace == \A u \in Ue : OnePlace(dlFree[u], dlRetx[u], hqDlmap[u])
DlAPlace == \A u \in Ue : APlace(dlFree[u], dlRetx[u], hqDlmap[u], pucch[u])

\* A TB whose feedback is due, and one that awaits its retransmission.
SentTb == [state : {"WAITING"}, isEnabled : {TRUE}, txCntr : 1 .. MaxTx]
FailedTb == [state : {"NACKED"}, isEnabled : {TRUE}, txCntr : 1 .. MaxTx - 1]

\* The TBs T of one UE fit the places of their processes.
Fits(F, R, M, T) ==
    /\ \A p \in F : T[p] = <<Released, Released>>
    /\ \A p \in ToSet(R) : T[p][1] \in FailedTb /\ T[p][2] = Released
    /\ \A s \in Slot : \A p \in ToSet(M[s]) : T[p][1] \in SentTb /\ T[p][2] \in SentTb
DlFits == \A u \in Ue : Fits(dlFree[u], dlRetx[u], hqDlmap[u], tb[u])

DlInv == DlOnePlace /\ DlAPlace /\ DlFits

\* A UE has something to retransmit or a free process: otherwise each of its
\* processes would be alone in a slot's list, and there are more processes.
LEMMA FreeOrRetx ==
    ASSUME DlReliable, NEW M \in [Slot -> Seq(Proc)], NEW res, APlace({}, <<>>, M, res)
    PROVE  FALSE
<1>1. \A p \in Proc : \E s \in Slot : p \in ToSet(M[s])
  BY ToSetEmpty DEF APlace
<1> DEFINE f == [p \in Proc |-> CHOOSE s \in Slot : p \in ToSet(M[s])]
<1>2. f \in [Proc -> Slot] /\ \A p \in Proc : p \in ToSet(M[f[p]])
  BY <1>1
<1> HIDE DEF f
<1>3. PICK x, y \in Proc : x # y /\ f[x] = f[y]
  BY <1>2, FS_PigeonHole DEF DlReliable
<1>4. M[f[x]] \in Seq(Proc) /\ x \in ToSet(M[f[x]]) /\ y \in ToSet(M[f[x]])
  BY <1>2, <1>3
<1>5. Len(M[f[x]]) = 1
  <2>1. f[x] \in Slot /\ Len(M[f[x]]) \in {0, 1}
    BY <1>2 DEF APlace
  <2>2. Len(M[f[x]]) # 0
    BY <1>4, EmptySeq, ToSetType
  <2>3. QED
    BY <2>1, <2>2
<1>6. QED
  BY <1>3, <1>4, <1>5, SingletonList

\* What ReserveDl does to one UE: the process joins the list of a slot that was
\* not reserved, and its TBs are sent.
LEMMA ReserveDlEffect ==
    ASSUME Types, NEW u \in Ue, NEW s \in Slot, NEW p \in Proc, ReserveDl(u, s, p)
    PROVE  /\ s \notin pucch[u] /\ pucch'[u] = pucch[u] \union {s}
           /\ hqDlmap'[u] = [hqDlmap[u] EXCEPT ![s] = Append(@, p)]
           /\ tb'[u] = [tb[u] EXCEPT ![p] = FilledTbs(@)]
           /\ \A v \in Ue \ {u} : /\ pucch'[v] = pucch[v] /\ hqDlmap'[v] = hqDlmap[v]
                                  /\ tb'[v] = tb[v]
  BY DEF ReserveDl, AddTo, Types, DlTypes

\* Blocks that are sent for the first time or again.
LEMMA FilledIsSent ==
    ASSUME NEW t, t \in FailedTb \/ t = Released
    PROVE  Filled(t) \in SentTb
<1>1. MaxTx \in Nat \ {0}
  BY MaxTxAssumption
<1>2. CASE t = Released
  BY <1>1, <1>2 DEF Filled, Released, SentTb
<1>3. CASE t \in FailedTb
  <2>1. t.txCntr + 1 \in 1 .. MaxTx
    BY <1>1, <1>3, SMT DEF FailedTb
  <2>2. QED
    BY <2>1 DEF Filled, SentTb
<1>4. QED
  BY <1>2, <1>3

LEMMA SendFits ==
    ASSUME NEW F \in SUBSET Proc, NEW R \in Seq(Proc), NEW M \in [Slot -> Seq(Proc)],
           NEW T \in [Proc -> AnyTb \X AnyTb],
           NEW F2 \in SUBSET F, NEW R2 \in Seq(Proc), ToSet(R2) \subseteq ToSet(R),
           NEW p \in F \union ToSet(R), p \in Proc, NEW s \in Slot,
           OnePlace(F2, R2, [M EXCEPT ![s] = Append(@, p)]),
           Fits(F, R, M, T)
    PROVE  Fits(F2, R2, [M EXCEPT ![s] = Append(@, p)], [T EXCEPT ![p] = FilledTbs(@)])
<1> DEFINE N == [M EXCEPT ![s] = Append(@, p)]
           X == [T EXCEPT ![p] = FilledTbs(@)]
<1>1. ToSet(Append(M[s], p)) = ToSet(M[s]) \union {p}
  BY AppendToSet
<1>2. /\ p \in ToSet(N[s]) /\ \A t \in Slot : ToSet(N[t]) \subseteq ToSet(M[t]) \union {p}
      /\ X[p] = FilledTbs(T[p]) /\ \A q \in Proc \ {p} : X[q] = T[q]
      /\ N \in [Slot -> Seq(Proc)]
  BY <1>1, AppendToSet
<1>3. X[p][1] \in SentTb /\ X[p][2] \in SentTb
  <2>1. /\ T[p][1] \in FailedTb \/ T[p][1] = Released
        /\ T[p][2] = Released
    BY DEF Fits
  <2>2. Filled(T[p][1]) \in SentTb /\ Filled(T[p][2]) \in SentTb
    BY <2>1, FilledIsSent
  <2>3. QED
    BY <1>2, <2>2 DEF FilledTbs
<1> HIDE DEF N, X
<1>4. OnePlace(F2, R2, N)
  BY DEF N
<1>5. p \notin F2 /\ p \notin ToSet(R2)
  BY <1>2, <1>4 DEF OnePlace
<1>6. \A q \in F2 : X[q] = <<Released, Released>>
  BY <1>2, <1>5 DEF Fits
<1>7. \A q \in ToSet(R2) : X[q][1] \in FailedTb /\ X[q][2] = Released
  <2>1. ToSet(R2) \subseteq Proc
    BY ToSetType
  <2>2. QED
    BY <1>2, <1>5, <2>1 DEF Fits
<1>8. \A t \in Slot : \A q \in ToSet(N[t]) : X[q][1] \in SentTb /\ X[q][2] \in SentTb
  <2>1. \A t \in Slot : ToSet(M[t]) \subseteq Proc
    BY ToSetType
  <2>2. SUFFICES ASSUME NEW t \in Slot, NEW q \in ToSet(N[t])
                 PROVE  X[q][1] \in SentTb /\ X[q][2] \in SentTb
    OBVIOUS
  <2>3. CASE q = p
    BY <1>3, <2>3
  <2>4. CASE q # p
    BY <1>2, <2>1, <2>4 DEF Fits
  <2>5. QED
    BY <2>3, <2>4
<1>9. Fits(F2, R2, N, X)
  BY <1>6, <1>7, <1>8 DEF Fits
<1>10. QED
  BY <1>9 DEF N, X

\* The downlink part sends a process again, sends a free one, or leaves all
\* processes alone: the branch without a free process is never taken.
LEMMA DlPartCases ==
    ASSUME DlReliable, Types, DlInv, ~corrupt,
           NEW u \in Ue, NEW outcome, NEW hq, DlPart(u, outcome, hq)
    PROVE  \/ UNCHANGED <<dlFree, tb, dlRetx, hqDlmap, pucch, macTb, corrupt>>
           \/ /\ dlRetx[u] # <<>>
              /\ \E s \in Slot :
                    /\ ReserveDl(u, s, Head(dlRetx[u]))
                    /\ corrupt' = ~(Clean(hqDlmap, u, s, Head(dlRetx[u]))
                                      /\ MacFinds(u, Head(dlRetx[u])))
              /\ dlRetx' = RemoveFrmRetx(dlRetx, u)
              /\ UNCHANGED <<dlFree, macTb>>
           \/ /\ \E p \in dlFree[u], s \in Slot :
                    /\ ReserveDl(u, s, p)
                    /\ corrupt' = ~Clean(hqDlmap, u, s, p)
                    /\ dlFree' = [dlFree EXCEPT ![u] = @ \ {p}]
                    /\ macTb' = MacAdd(u, p)
              /\ UNCHANGED dlRetx
<1>1. "dlPrb" \notin Faults
  BY DEF DlReliable
<1>2. ~(dlRetx[u] = <<>> /\ dlFree[u] = {})
  <2>1. hqDlmap[u] \in [Slot -> Seq(Proc)]
    BY DEF Types, DlTypes
  <2>2. APlace(dlFree[u], dlRetx[u], hqDlmap[u], pucch[u])
    BY DEF DlInv, DlAPlace
  <2>3. QED
    BY <2>1, <2>2, FreeOrRetx
<1>3. CASE DlRetx(u, outcome, hq)
  BY <1>1, <1>3 DEF DlRetx
<1>4. CASE DlNew(u, outcome, hq)
  BY <1>1, <1>2, <1>4 DEF DlNew
<1>5. CASE UNCHANGED <<dlVars, corrupt>>
  BY <1>5 DEF dlVars
<1>6. QED
  BY <1>3, <1>4, <1>5 DEF DlPart

\* The invariant for one UE suffices if the others are as they were.
LEMMA DlInvOfOne ==
    ASSUME DlInv, NEW u \in Ue,
           \A v \in Ue \ {u} : /\ dlFree'[v] = dlFree[v] /\ dlRetx'[v] = dlRetx[v]
                               /\ hqDlmap'[v] = hqDlmap[v] /\ pucch'[v] = pucch[v]
                               /\ tb'[v] = tb[v],
           OnePlace(dlFree'[u], dlRetx'[u], hqDlmap'[u]),
           APlace(dlFree'[u], dlRetx'[u], hqDlmap'[u], pucch'[u]),
           Fits(dlFree'[u], dlRetx'[u], hqDlmap'[u], tb'[u])
    PROVE  DlInv'
  BY DEF DlInv, DlOnePlace, DlAPlace, DlFits

LEMMA DlPartInv ==
    ASSUME DlReliable, Types, InUseIsHeld, DlInv, ~corrupt,
           NEW u \in Ue, NEW outcome, NEW hq, DlPart(u, outcome, hq)
    PROVE  DlInv' /\ ~corrupt'
<1> DEFINE F == dlFree[u]
           R == dlRetx[u]
           M == hqDlmap[u]
<1>1. /\ F \in SUBSET Proc /\ R \in Seq(Proc) /\ M \in [Slot -> Seq(Proc)]
      /\ tb[u] \in [Proc -> AnyTb \X AnyTb]
      /\ OnePlace(F, R, M) /\ APlace(F, R, M, pucch[u]) /\ Fits(F, R, M, tb[u])
  BY DEF Types, DlTypes, DlInv, DlOnePlace, DlAPlace, DlFits
<1>2. ASSUME NEW p, p \in F \/ p \in ToSet(R), NEW s \in Slot
      PROVE  Clean(hqDlmap, u, s, p)
  BY <1>1, <1>2 DEF Clean, OnePlace
<1>3. ASSUME UNCHANGED <<dlFree, tb, dlRetx, hqDlmap, pucch, macTb, corrupt>>
      PROVE  DlInv' /\ ~corrupt'
  BY <1>3 DEF DlInv, DlOnePlace, DlAPlace, DlFits
<1>4. ASSUME R # <<>>, NEW s \in Slot, ReserveDl(u, s, Head(R)),
             corrupt' = ~(Clean(hqDlmap, u, s, Head(R)) /\ MacFinds(u, Head(R))),
             dlRetx' = RemoveFrmRetx(dlRetx, u), UNCHANGED <<dlFree, macTb>>
      PROVE  DlInv' /\ ~corrupt'
  <2> DEFINE p == Head(R)
             N == [M EXCEPT ![s] = Append(@, p)]
  <2>1. /\ p \in Proc /\ p \in ToSet(R) /\ Tail(R) \in Seq(Proc)
        /\ ToSet(Tail(R)) \subseteq ToSet(R)
    BY <1>1, <1>4, TailToSet
  <2>2. MacFinds(u, p)
    BY <1>1, <2>1 DEF OnePlace, InUseIsHeld, DlInUse, MacFinds
  <2>3. ~corrupt'
    BY <1>2, <1>4, <2>1, <2>2
  <2>4. dlRetx'[u] = Tail(R) /\ \A v \in Ue \ {u} : dlRetx'[v] = dlRetx[v]
    BY <1>4 DEF RemoveFrmRetx, Types, DlTypes
  <2>5. /\ s \notin pucch[u] /\ pucch'[u] = pucch[u] \union {s}
        /\ hqDlmap'[u] = N
        /\ tb'[u] = [tb[u] EXCEPT ![p] = FilledTbs(@)]
        /\ \A v \in Ue \ {u} : /\ pucch'[v] = pucch[v] /\ hqDlmap'[v] = hqDlmap[v]
                               /\ tb'[v] = tb[v]
    BY <1>4, <2>1, ReserveDlEffect
  <2>6. OnePlace(F, Tail(R), N) /\ APlace(F, Tail(R), N, pucch[u] \union {s})
    BY <1>1, <1>4, <2>5, ScheduleAgain
  <2>7. Fits(F, Tail(R), N, [tb[u] EXCEPT ![p] = FilledTbs(@)])
    BY <1>1, <2>1, <2>6, SendFits
  <2> HIDE DEF N, p, F, R, M
  <2>8. dlFree'[u] = F /\ \A v \in Ue \ {u} : dlFree'[v] = dlFree[v]
    BY <1>4 DEF F
  <2>9. QED
    BY <2>3, <2>4, <2>5, <2>6, <2>7, <2>8, DlInvOfOne
<1>5. ASSUME NEW p \in F, NEW s \in Slot, ReserveDl(u, s, p),
             corrupt' = ~Clean(hqDlmap, u, s, p),
             dlFree' = [dlFree EXCEPT ![u] = @ \ {p}], UNCHANGED dlRetx
      PROVE  DlInv' /\ ~corrupt'
  <2> DEFINE N == [M EXCEPT ![s] = Append(@, p)]
  <2>1. p \in Proc /\ F \ {p} \in SUBSET F
    BY <1>1
  <2>2. ~corrupt'
    BY <1>2, <1>5
  <2>3. dlFree'[u] = F \ {p} /\ \A v \in Ue \ {u} : dlFree'[v] = dlFree[v]
    BY <1>5 DEF Types, DlTypes
  <2>4. /\ s \notin pucch[u] /\ pucch'[u] = pucch[u] \union {s}
        /\ hqDlmap'[u] = N
        /\ tb'[u] = [tb[u] EXCEPT ![p] = FilledTbs(@)]
        /\ \A v \in Ue \ {u} : /\ pucch'[v] = pucch[v] /\ hqDlmap'[v] = hqDlmap[v]
                               /\ tb'[v] = tb[v]
    BY <1>5, <2>1, ReserveDlEffect
  <2>5. OnePlace(F \ {p}, R, N) /\ APlace(F \ {p}, R, N, pucch[u] \union {s})
    BY <1>1, <2>4, ScheduleFree
  <2>6. Fits(F \ {p}, R, N, [tb[u] EXCEPT ![p] = FilledTbs(@)])
    BY <1>1, <2>1, <2>5, SendFits
  <2> HIDE DEF N, F, R, M
  <2>7. dlRetx'[u] = R /\ \A v \in Ue \ {u} : dlRetx'[v] = dlRetx[v]
    BY <1>5 DEF R
  <2>8. QED
    BY <2>2, <2>3, <2>4, <2>5, <2>6, <2>7, DlInvOfOne
<1>6. QED
  BY <1>3, <1>4, <1>5, DlPartCases

\* What the feedback makes of a block that was sent.
LEMMA AfterFdbkOfSent ==
    ASSUME NEW t \in SentTb, NEW f \in {"ACK", "NACK"}
    PROVE  /\ Ends(t, f) => AfterFdbk(t, f) = Released
           /\ ~Ends(t, f) => /\ f = "NACK" /\ t.txCntr < MaxTx
                             /\ Fails(t, f)
                             /\ AfterFdbk(t, f) = [t EXCEPT !.state = "NACKED"]
                             /\ AfterFdbk(t, f).state = "NACKED"
           /\ Ends(t, "ACK") /\ AfterFdbk(t, "ACK") = Released
           /\ t.state = "WAITING"
<1>1. t.state = "WAITING" /\ t.isEnabled = TRUE /\ t.txCntr \in Nat
  <2>1. t.state \in {"WAITING"} /\ t.isEnabled \in {TRUE} /\ t.txCntr \in 1 .. MaxTx
    BY DEF SentTb
  <2>2. \A n \in 1 .. MaxTx : n \in Nat
    BY MaxTxAssumption
  <2>3. QED
    BY <2>1, <2>2
<1>2. ASSUME NEW g, Ends(t, g)
      PROVE  AfterFdbk(t, g) = Released
  BY <1>2 DEF AfterFdbk, Fails
<1>3. Ends(t, "ACK")
  BY <1>1 DEF Ends
<1>4. ASSUME ~Ends(t, f)
      PROVE  /\ f = "NACK" /\ t.txCntr < MaxTx
             /\ Fails(t, f)
             /\ AfterFdbk(t, f) = [t EXCEPT !.state = "NACKED"]
             /\ AfterFdbk(t, f).state = "NACKED"
  <2>1. Fails(t, f)
    BY <1>1, <1>4 DEF Fails
  <2>2. f = "NACK" /\ ~(t.txCntr >= MaxTx)
    BY <1>1, <1>4 DEF Ends
  <2>3. t.txCntr < MaxTx
    BY <1>1, <2>2, MaxTxAssumption
  <2>4. AfterFdbk(t, f) = [t EXCEPT !.state = "NACKED"]
    BY <1>4, <2>1 DEF AfterFdbk
  <2>5. [t EXCEPT !.state = "NACKED"].state = "NACKED"
    BY DEF SentTb
  <2>6. QED
    BY <2>1, <2>2, <2>3, <2>4, <2>5
<1>5. QED
  BY <1>1, <1>2, <1>3, <1>4

\* The feedback of a slot is for the one process in its list: the process is
\* released, or it goes to the end of the retransmission list.
LEMMA DlHarqIndCases ==
    ASSUME Types, DlInv, NEW u \in Ue, NEW s \in Slot, DlHarqInd(u, s)
    PROVE  \E p \in Proc :
             /\ hqDlmap[u][s] = <<p>>
             /\ ~corrupt'
             /\ \/ /\ dlFree' = [dlFree EXCEPT ![u] = @ \union {p}]
                   /\ dlRetx' = dlRetx
                   /\ tb' = [tb EXCEPT ![u][p] = <<Released, Released>>]
                   /\ macTb' = MacRelease(u, {p})
                \/ /\ dlFree' = dlFree
                   /\ dlRetx' = [dlRetx EXCEPT ![u] = Append(@, p)]
                   /\ tb' = [tb EXCEPT ![u][p] = <<[@[1] EXCEPT !.state = "NACKED"], Released>>]
                   /\ tb[u][p][1].txCntr < MaxTx
                   /\ macTb' = macTb
<1> DEFINE lst == hqDlmap[u][s]
           p == lst[1]
<1>1. /\ lst \in Seq(Proc) /\ Len(lst) = 1 /\ lst # <<>>
      /\ dlRetx[u] \in Seq(Proc) /\ dlFree[u] \in SUBSET Proc
      /\ hqDlmap[u] \in [Slot -> Seq(Proc)]
      /\ OnePlace(dlFree[u], dlRetx[u], hqDlmap[u])
  <2>1. s \in pucch[u]
    BY DEF DlHarqInd
  <2>2. APlace(dlFree[u], dlRetx[u], hqDlmap[u], pucch[u])
    BY DEF DlInv, DlAPlace
  <2>3. Len(lst) = 1
    BY <2>1, <2>2 DEF APlace
  <2>4. OnePlace(dlFree[u], dlRetx[u], hqDlmap[u])
    BY DEF DlInv, DlOnePlace
  <2>5. /\ lst \in Seq(Proc) /\ dlRetx[u] \in Seq(Proc) /\ dlFree[u] \in SUBSET Proc
        /\ hqDlmap[u] \in [Slot -> Seq(Proc)]
    BY DEF Types, DlTypes
  <2> HIDE DEF lst
  <2>6. lst # <<>>
    BY <2>3, ToSetEmpty
  <2>7. QED
    BY <2>3, <2>4, <2>5, <2>6
<1>2. p \in Proc /\ lst = <<p>> /\ ToSet(lst) = {p}
  BY <1>1, SingletonList
<1>3. p \notin dlFree[u] /\ p \notin ToSet(dlRetx[u])
  BY <1>1, <1>2 DEF OnePlace
<1>4. tb[u][p][1] \in SentTb /\ tb[u][p][2] \in SentTb
  BY <1>2 DEF DlInv, DlFits, Fits
<1>5. PICK fdbk \in [ToSet(lst) -> {"ACK", "NACK"}] :
        LET released == {q \in ToSet(lst) : IsGone(u, q, fdbk[q])}
            again == Picked(lst, {q \in ToSet(lst) : IsRetx(u, q, fdbk[q])})
        IN
        /\ tb' = [tb EXCEPT ![u] = [q \in Proc |->
                    IF q \in ToSet(lst)
                    THEN <<AfterFdbk(tb[u][q][1], fdbk[q]), AfterFdbk(tb[u][q][2], "ACK")>>
                    ELSE tb[u][q]]]
        /\ dlFree' = [dlFree EXCEPT ![u] = @ \union released]
        /\ macTb' = MacRelease(u, released)
        /\ dlRetx' = [dlRetx EXCEPT ![u] = @ \o again]
        /\ toSched' = IF again = <<>> THEN toSched ELSE AddUeToSchedule(u)
        /\ corrupt' = \/ released \intersect (dlFree[u] \union ToSet(dlRetx[u])) # {}
                      \/ ToSet(again) \intersect ToSet(dlRetx[u]) # {}
  BY DEF DlHarqInd
<1> DEFINE released == {q \in ToSet(lst) : IsGone(u, q, fdbk[q])}
           retx == {q \in ToSet(lst) : IsRetx(u, q, fdbk[q])}
           again == Picked(lst, retx)
           fb == fdbk[p]
           tb1 == AfterFdbk(tb[u][p][1], fb)
           tb2 == AfterFdbk(tb[u][p][2], "ACK")
<1>6. fb \in {"ACK", "NACK"}
  BY <1>2
<1>7. /\ again \in Seq(Proc) /\ ToSet(again) = ToSet(lst) \intersect retx
      /\ Len(again) <= Len(lst)
  <2>1. lst \in Seq(Proc)
    BY <1>1
  <2> HIDE DEF lst, retx
  <2>2. QED
    BY <2>1, PickedProperties
<1>8. /\ tb' = [tb EXCEPT ![u][p] = <<tb1, tb2>>]
      /\ dlFree' = [dlFree EXCEPT ![u] = @ \union released]
      /\ macTb' = MacRelease(u, released)
      /\ dlRetx' = [dlRetx EXCEPT ![u] = @ \o again]
      /\ corrupt' = \/ released \intersect (dlFree[u] \union ToSet(dlRetx[u])) # {}
                    \/ ToSet(again) \intersect ToSet(dlRetx[u]) # {}
  <2>1. [tb EXCEPT ![u] = [q \in Proc |->
            IF q \in {p} THEN <<AfterFdbk(tb[u][q][1], fdbk[q]), AfterFdbk(tb[u][q][2], "ACK")>>
            ELSE tb[u][q]]] = [tb EXCEPT ![u][p] = <<tb1, tb2>>]
    BY <1>2 DEF Types, DlTypes
  <2>2. QED
    BY <1>2, <1>5, <2>1
<1> HIDE DEF fb
<1>9. tb2 = Released
  BY <1>4, AfterFdbkOfSent
<1>10. released \subseteq {p} /\ retx \subseteq {p}
       /\ (p \in released <=> IsGone(u, p, fb)) /\ (p \in retx <=> IsRetx(u, p, fb))
  BY <1>2 DEF fb
<1> HIDE DEF lst, p, released, retx, again
<1>11. ~corrupt'
  BY <1>2, <1>3, <1>7, <1>8, <1>10
<1>12. CASE Ends(tb[u][p][1], fb)
  <2>1. tb1 = Released
    BY <1>4, <1>6, <1>12, AfterFdbkOfSent
  <2>2. IsGone(u, p, fb)
    <3>1. Ends(tb[u][p][2], "ACK")
      BY <1>4, AfterFdbkOfSent
    <3>2. Released.state = "ACKED"
      BY DEF Released
    <3>3. QED
      BY <2>1, <3>1, <3>2 DEF IsGone
  <2>3. ~IsRetx(u, p, fb)
    BY <1>12 DEF IsRetx, Fails
  <2>4. released = {p} /\ again = <<>>
    BY <1>7, <1>10, <2>2, <2>3, ToSetType
  <2>5. dlRetx' = dlRetx
    <3>1. dlRetx[u] \o again = dlRetx[u]
      BY <1>1, <2>4, ConcatEmptySeq
    <3>2. QED
      BY <1>8, <3>1 DEF Types, DlTypes
  <2>6. QED
    BY <1>2, <1>8, <1>9, <1>11, <2>1, <2>4, <2>5 DEF lst
<1>13. CASE ~Ends(tb[u][p][1], fb)
  <2>1. fb = "NACK" /\ tb[u][p][1].txCntr < MaxTx
    BY <1>4, <1>6, <1>13, AfterFdbkOfSent
  <2>2. Fails(tb[u][p][1], fb)
    BY <1>4, <1>6, <1>13, AfterFdbkOfSent
  <2>3. tb1 = [tb[u][p][1] EXCEPT !.state = "NACKED"]
    BY <1>4, <1>6, <1>13, AfterFdbkOfSent
  <2>4. tb1.state = "NACKED"
    BY <1>4, <1>6, <1>13, AfterFdbkOfSent
  <2>5. ~IsGone(u, p, fb) /\ IsRetx(u, p, fb)
    <3>1. tb[u][p][2].state = "WAITING"
      BY <1>4, AfterFdbkOfSent
    <3>2. QED
      BY <1>13, <2>2, <2>4, <3>1 DEF IsGone, IsRetx
  <2>6. released = {} /\ ToSet(again) = {p} /\ again = <<p>>
    <3>1. released = {} /\ ToSet(again) = {p}
      BY <1>2, <1>7, <1>10, <2>5
    <3>2. Len(again) = 1
      <4>1. again # <<>>
        BY <1>7, <3>1, ToSetType
      <4>2. Len(again) \in Nat /\ Len(again) # 0
        BY <1>7, <4>1, EmptySeq
      <4>3. Len(lst) = 1
        BY <1>1 DEF lst
      <4>4. Len(again) <= Len(lst)
        BY <1>7
      <4>5. \A n \in Nat : n # 0 /\ n <= 1 => n = 1
        OBVIOUS
      <4> HIDE DEF lst, again
      <4>6. QED
        BY <4>2, <4>3, <4>4, <4>5
    <3>3. again = <<again[1]>> /\ ToSet(again) = {again[1]}
      BY <1>7, <3>2, SingletonList
    <3>4. QED
      BY <3>1, <3>3
  <2>7. dlRetx' = [dlRetx EXCEPT ![u] = Append(@, p)]
    <3>1. dlRetx[u] \o <<p>> = Append(dlRetx[u], p)
      BY <1>1, <1>2, AppendIsConcat
    <3>2. QED
      BY <1>8, <2>6, <3>1
  <2>8. macTb' = macTb /\ dlFree' = dlFree
    BY <1>8, <2>6 DEF MacRelease, Types, DlTypes
  <2>9. tb' = [tb EXCEPT ![u][p] = <<[@[1] EXCEPT !.state = "NACKED"], Released>>]
    BY <1>8, <1>9, <2>3
  <2>10. QED
    BY <1>2, <1>11, <2>1, <2>7, <2>8, <2>9 DEF lst
<1>14. QED
  BY <1>12, <1>13

LEMMA FeedbackFits ==
    ASSUME NEW F \in SUBSET Proc, NEW R \in Seq(Proc), NEW M \in [Slot -> Seq(Proc)],
           NEW T \in [Proc -> AnyTb \X AnyTb],
           NEW s \in Slot, NEW p \in Proc, M[s] = <<p>>, NEW N, N = [M EXCEPT ![s] = <<>>],
           OnePlace(F, R, M), Fits(F, R, M, T)
    PROVE  /\ Fits(F \union {p}, R, N, [T EXCEPT ![p] = <<Released, Released>>])
           /\ T[p][1].txCntr < MaxTx =>
                Fits(F, Append(R, p), N,
                     [T EXCEPT ![p] = <<[@[1] EXCEPT !.state = "NACKED"], Released>>])
<1>1. p \in ToSet(M[s]) /\ ToSet(<<p>>) = {p}
  <2>1. <<p>> \in Seq(Proc) /\ Len(<<p>>) = 1 /\ <<p>>[1] = p
    OBVIOUS
  <2>2. QED
    BY <2>1, SingletonList
<1>2. \A t \in Slot \ {s} : p \notin ToSet(M[t])
  BY <1>1 DEF OnePlace
<1>3. p \notin F /\ p \notin ToSet(R)
  BY <1>1 DEF OnePlace
<1>4. /\ N[s] = <<>> /\ \A t \in Slot \ {s} : N[t] = M[t]
      /\ \A t \in Slot : ToSet(M[t]) \subseteq Proc
      /\ ToSet(R) \subseteq Proc
  BY ToSetType
<1>5. \A t \in Slot : p \notin ToSet(N[t]) /\ ToSet(N[t]) \subseteq ToSet(M[t])
  BY <1>2, <1>4, ToSetEmpty
<1>6. ASSUME NEW x, NEW X, X = [T EXCEPT ![p] = x]
      PROVE  /\ X[p] = x /\ \A q \in F \union ToSet(R) : X[q] = T[q]
             /\ \A t \in Slot : \A q \in ToSet(N[t]) :
                  X[q][1] \in SentTb /\ X[q][2] \in SentTb
  <2>1. X[p] = x /\ \A q \in Proc \ {p} : X[q] = T[q]
    BY <1>6
  <2>2. \A q \in F \union ToSet(R) : X[q] = T[q]
    BY <1>3, <1>4, <2>1
  <2>3. \A t \in Slot : \A q \in ToSet(N[t]) : X[q] = T[q] /\ q \in ToSet(M[t])
    BY <1>4, <1>5, <2>1
  <2>4. \A t \in Slot : \A q \in ToSet(N[t]) : X[q][1] \in SentTb /\ X[q][2] \in SentTb
    BY <2>3 DEF Fits
  <2>5. QED
    BY <2>1, <2>2, <2>4
<1>7. Fits(F \union {p}, R, N, [T EXCEPT ![p] = <<Released, Released>>])
  <2> DEFINE X == [T EXCEPT ![p] = <<Released, Released>>]
  <2>1. /\ X[p] = <<Released, Released>> /\ \A q \in F \union ToSet(R) : X[q] = T[q]
        /\ \A t \in Slot : \A q \in ToSet(N[t]) : X[q][1] \in SentTb /\ X[q][2] \in SentTb
    BY <1>6
  <2> HIDE DEF X
  <2>2. Fits(F \union {p}, R, N, X)
    BY <2>1 DEF Fits
  <2>3. QED
    BY <2>2 DEF X
<1>8. ASSUME T[p][1].txCntr < MaxTx
      PROVE  Fits(F, Append(R, p), N,
                  [T EXCEPT ![p] = <<[@[1] EXCEPT !.state = "NACKED"], Released>>])
  <2> DEFINE t1 == [T[p][1] EXCEPT !.state = "NACKED"]
             X == [T EXCEPT ![p] = <<t1, Released>>]
  <2>1. t1 \in FailedTb
    <3>1. T[p][1] \in SentTb
      BY <1>1 DEF Fits
    <3>2. T[p][1].txCntr \in 1 .. MaxTx - 1
      <4>1. T[p][1].txCntr \in 1 .. MaxTx
        BY <3>1 DEF SentTb
      <4>2. \A n \in 1 .. MaxTx : n < MaxTx => n \in 1 .. MaxTx - 1
        BY MaxTxAssumption
      <4>3. QED
        BY <1>8, <4>1, <4>2
    <3>3. QED
      BY <3>1, <3>2 DEF SentTb, FailedTb
  <2> HIDE DEF t1
  <2>2. /\ X[p] = <<t1, Released>> /\ \A q \in F \union ToSet(R) : X[q] = T[q]
        /\ \A t \in Slot : \A q \in ToSet(N[t]) : X[q][1] \in SentTb /\ X[q][2] \in SentTb
    BY <1>6
  <2> HIDE DEF X
  <2>3. ToSet(Append(R, p)) = ToSet(R) \union {p}
    BY AppendToSet
  <2>4. \A q \in F : X[q] = <<Released, Released>>
    BY <2>2 DEF Fits
  <2>5. X[p][1] \in FailedTb /\ X[p][2] = Released
    BY <2>1, <2>2
  <2>6. \A q \in ToSet(Append(R, p)) : X[q][1] \in FailedTb /\ X[q][2] = Released
    <3>1. \A q \in ToSet(R) : X[q][1] \in FailedTb /\ X[q][2] = Released
      <4>1. \A q \in ToSet(R) : T[q][1] \in FailedTb /\ T[q][2] = Released
        BY DEF Fits
      <4>2. QED
        BY <2>2, <4>1
    <3>2. QED
      BY <2>3, <2>5, <3>1
  <2>7. Fits(F, Append(R, p), N, X)
    BY <2>2, <2>4, <2>6 DEF Fits
  <2>8. QED
    BY <2>7 DEF X, t1
<1>9. QED
  BY <1>7, <1>8

LEMMA DlHarqIndInv ==
    ASSUME Types, DlInv, NEW u \in Ue, NEW s \in Slot, DlHarqInd(u, s)
    PROVE  DlInv' /\ ~corrupt'
<1> DEFINE F == dlFree[u]
           R == dlRetx[u]
           M == hqDlmap[u]
           N == [M EXCEPT ![s] = <<>>]
           T == tb[u]
<1>1. /\ F \in SUBSET Proc /\ R \in Seq(Proc) /\ M \in [Slot -> Seq(Proc)]
      /\ T \in [Proc -> AnyTb \X AnyTb]
      /\ OnePlace(F, R, M) /\ APlace(F, R, M, pucch[u]) /\ Fits(F, R, M, T)
  BY DEF Types, DlTypes, DlInv, DlOnePlace, DlAPlace, DlFits
<1>2. PICK p \in Proc :
        /\ hqDlmap[u][s] = <<p>>
        /\ ~corrupt'
        /\ \/ /\ dlFree' = [dlFree EXCEPT ![u] = @ \union {p}]
              /\ dlRetx' = dlRetx
              /\ tb' = [tb EXCEPT ![u][p] = <<Released, Released>>]
              /\ macTb' = MacRelease(u, {p})
           \/ /\ dlFree' = dlFree
              /\ dlRetx' = [dlRetx EXCEPT ![u] = Append(@, p)]
              /\ tb' = [tb EXCEPT ![u][p] = <<[@[1] EXCEPT !.state = "NACKED"], Released>>]
              /\ tb[u][p][1].txCntr < MaxTx
              /\ macTb' = macTb
  BY DlHarqIndCases
<1>3. /\ s \in pucch[u] /\ pucch'[u] = pucch[u] \ {s} /\ hqDlmap'[u] = N
      /\ \A v \in Ue \ {u} : pucch'[v] = pucch[v] /\ hqDlmap'[v] = hqDlmap[v]
  BY DEF DlHarqInd, Types, DlTypes
<1>4. M[s] = <<p>> /\ N = [M EXCEPT ![s] = Tail(@)] /\ Head(M[s]) = p /\ M[s] # <<>>
  <2>1. Tail(<<p>>) = <<>> /\ Head(<<p>>) = p /\ <<p>> # <<>>
    OBVIOUS
  <2>2. QED
    BY <1>2, <2>1
<1> HIDE DEF F, R, M, N, T
<1>5. /\ OnePlace(F \union {p}, R, N) /\ APlace(F \union {p}, R, N, pucch[u] \ {s})
      /\ OnePlace(F, Append(R, p), N) /\ APlace(F, Append(R, p), N, pucch[u] \ {s})
  <2>1. /\ OnePlace(F \union {Head(M[s])}, R, [M EXCEPT ![s] = Tail(@)])
        /\ OnePlace(F, Append(R, Head(M[s])), [M EXCEPT ![s] = Tail(@)])
        /\ APlace(F \union {Head(M[s])}, R, [M EXCEPT ![s] = Tail(@)], pucch[u] \ {s})
        /\ APlace(F, Append(R, Head(M[s])), [M EXCEPT ![s] = Tail(@)], pucch[u] \ {s})
    BY <1>1, <1>3, <1>4, FeedbackOfHead
  <2>2. QED
    BY <1>4, <2>1
<1>6. /\ Fits(F \union {p}, R, N, [T EXCEPT ![p] = <<Released, Released>>])
      /\ T[p][1].txCntr < MaxTx =>
           Fits(F, Append(R, p), N,
                [T EXCEPT ![p] = <<[@[1] EXCEPT !.state = "NACKED"], Released>>])
  BY <1>1, <1>4, FeedbackFits DEF N
<1>7. CASE /\ dlFree' = [dlFree EXCEPT ![u] = @ \union {p}]
           /\ dlRetx' = dlRetx
           /\ tb' = [tb EXCEPT ![u][p] = <<Released, Released>>]
  <2>1. /\ dlFree'[u] = F \union {p} /\ dlRetx'[u] = R
        /\ tb'[u] = [T EXCEPT ![p] = <<Released, Released>>]
        /\ \A v \in Ue \ {u} : /\ dlFree'[v] = dlFree[v] /\ dlRetx'[v] = dlRetx[v]
                               /\ tb'[v] = tb[v]
    BY <1>7 DEF Types, DlTypes, F, R, T
  <2>2. QED
    BY <1>2, <1>3, <1>5, <1>6, <2>1, DlInvOfOne
<1>8. CASE /\ dlFree' = dlFree
           /\ dlRetx' = [dlRetx EXCEPT ![u] = Append(@, p)]
           /\ tb' = [tb EXCEPT ![u][p] = <<[@[1] EXCEPT !.state = "NACKED"], Released>>]
           /\ tb[u][p][1].txCntr < MaxTx
  <2>1. /\ dlFree'[u] = F /\ dlRetx'[u] = Append(R, p)
        /\ T[p][1].txCntr < MaxTx
        /\ \A v \in Ue \ {u} : /\ dlFree'[v] = dlFree[v] /\ dlRetx'[v] = dlRetx[v]
    BY <1>8 DEF Types, DlTypes, F, R, T
  <2>2. /\ tb'[u] = [T EXCEPT ![p] = <<[@[1] EXCEPT !.state = "NACKED"], Released>>]
        /\ \A v \in Ue \ {u} : tb'[v] = tb[v]
    BY <1>8 DEF Types, DlTypes, T
  <2>3. QED
    BY <1>2, <1>3, <1>5, <1>6, <2>1, <2>2, DlInvOfOne
<1>9. QED
  BY <1>2, <1>7, <1>8

\* The invariant of the downlink: it needs InUseIsHeld, because the lists count
\* as damaged when a retransmission finds no block at MAC.
LEMMA DlInvKept ==
    ASSUME DlReliable, Types, InUseIsHeld, UlOnePlace, DlInv, ~corrupt, [Next]_vars
    PROVE  DlInv' /\ ~corrupt'
<1>1. ASSUME UNCHANGED <<dlFree, tb, dlRetx, hqDlmap, pucch>>
      PROVE  DlInv'
  BY <1>1 DEF DlInv, DlOnePlace, DlAPlace, DlFits
<1>2. ASSUME SlotInd \/ UNCHANGED vars
      PROVE  DlInv' /\ ~corrupt'
  BY <1>1, <1>2 DEF SlotInd, vars, dlVars
<1>3. ASSUME NEW u \in Ue, DlRlcBoInfo(u) \/ SrUciInd(u) \/ Bsr(u)
      PROVE  DlInv' /\ ~corrupt'
  BY <1>1, <1>3 DEF DlRlcBoInfo, SrUciInd, Bsr, dlVars
<1>4. ASSUME NEW u \in Ue, NEW s \in Slot, DlHarqInd(u, s)
      PROVE  DlInv' /\ ~corrupt'
  BY <1>4, DlHarqIndInv
<1>5. ASSUME NEW u \in Ue, NEW s \in Slot, LoseUci(u, s) \/ LoseCrc(u, s)
      PROVE  DlInv' /\ ~corrupt'
  BY <1>1, <1>5 DEF LoseUci, LoseCrc, dlVars, DlReliable
<1>6. ASSUME NEW u \in Ue, NEW s \in Slot, CrcInd(u, s)
      PROVE  DlInv' /\ ~corrupt'
  <2>1. ~corrupt'
    BY <1>6, CrcIndEffect DEF UlOnePlace
  <2>2. QED
    BY <1>1, <1>6, <2>1 DEF CrcInd, dlVars
<1>7. ASSUME NEW u \in Ue, NEW dl, NEW ul, ScheduleUe(u, dl, ul)
      PROVE  DlInv' /\ ~corrupt'
  BY <1>7, DlPartInv DEF ScheduleUe
<1>8. QED
  BY <1>2, <1>3, <1>4, <1>5, <1>6, <1>7 DEF Next

LEMMA DlInvInit == Init => DlInv /\ ~corrupt
<1>1. ASSUME Init, NEW u \in Ue
      PROVE  /\ OnePlace(dlFree[u], dlRetx[u], hqDlmap[u])
             /\ APlace(dlFree[u], dlRetx[u], hqDlmap[u], pucch[u])
             /\ Fits(dlFree[u], dlRetx[u], hqDlmap[u], tb[u])
  <2>1. /\ dlFree[u] = Proc /\ dlRetx[u] = <<>> /\ pucch[u] = {}
        /\ \A s \in Slot : hqDlmap[u][s] = <<>>
        /\ \A p \in Proc : tb[u][p] = <<Released, Released>>
    BY <1>1 DEF Init
  <2>2. QED
    BY <2>1, ToSetEmpty DEF OnePlace, APlace, Fits
<1>2. QED
  BY <1>1 DEF Init, DlInv, DlOnePlace, DlAPlace, DlFits

LEMMA DlInvInvariant == ASSUME DlReliable PROVE Spec => [](DlInv /\ ~corrupt)
<1>1. Init => InUseIsHeld
  BY DEF Init, InUseIsHeld, DlInUse
<1>2. Types /\ InUseIsHeld /\ UlOnePlace /\ DlInv /\ ~corrupt /\ [Next]_vars => DlInv' /\ ~corrupt'
  BY DlInvKept
<1>3. QED
  BY <1>2, DlInvInit, TypesInvariant, BlockIsHeldWhileInUse, UlOnePlaceInvariant, PTL DEF Spec


\* No list of SCH is ever damaged: no process is put into a list while it is in
\* another, whatever the number of UEs that share a slot indication.
THEOREM ListsAreIntact == ASSUME DlReliable PROVE Spec => []~corrupt
BY DlInvInvariant, PTL

\* Every TB is one of the three kinds that fit a place.
LEMMA DlTbs ==
    ASSUME Types, DlInv, NEW u \in Ue, NEW p \in Proc
    PROVE  tb[u][p] \in Tb \X Tb
<1>1. /\ tb[u] \in [Proc -> AnyTb \X AnyTb]
      /\ APlace(dlFree[u], dlRetx[u], hqDlmap[u], pucch[u])
      /\ Fits(dlFree[u], dlRetx[u], hqDlmap[u], tb[u])
  BY DEF Types, DlTypes, DlInv, DlAPlace, DlFits
<1>2. MaxTx \in Nat /\ 1 .. MaxTx \subseteq 0 .. MaxTx /\ 1 .. MaxTx - 1 \subseteq 0 .. MaxTx
  BY MaxTxAssumption
<1>3. Released \in Tb /\ SentTb \subseteq Tb /\ FailedTb \subseteq Tb
  <2>1. Released \in Tb
    BY <1>2 DEF Released, Tb
  <2>2. SentTb \subseteq Tb
    BY <1>2 DEF SentTb, Tb
  <2>3. FailedTb \subseteq Tb
    BY <1>2 DEF FailedTb, Tb
  <2>4. QED
    BY <2>1, <2>2, <2>3
<1>4. tb[u][p][1] \in Tb /\ tb[u][p][2] \in Tb
  <2>1. CASE p \in dlFree[u]
    <3>1. tb[u][p] = <<Released, Released>>
      BY <1>1, <2>1 DEF Fits
    <3>2. QED
      BY <1>3, <3>1
  <2>2. CASE p \in ToSet(dlRetx[u])
    BY <1>1, <1>3, <2>2 DEF Fits
  <2>3. CASE \E s \in Slot : p \in ToSet(hqDlmap[u][s])
    BY <1>1, <1>3, <2>3 DEF Fits
  <2>4. QED
    BY <1>1, <2>1, <2>2, <2>3 DEF APlace
<1>5. tb[u][p] = <<tb[u][p][1], tb[u][p][2]>>
  BY <1>1
<1>6. QED
  BY <1>4, <1>5

\* Types, and no block of any UE is ever sent more than MaxTx times
\* (SCH_MAX_NUM_DL_HQ_TX, tested by schDlHqFeedbackUpdate alone).
THEOREM TypeCorrect == ASSUME DlReliable PROVE Spec => []TypeOK
<1>1. ASSUME Types, DlInv
      PROVE  TypeOK
  <2>1. tb \in [Ue -> [Proc -> Tb \X Tb]]
    BY <1>1, DlTbs DEF Types, DlTypes
  <2>2. QED
    BY <1>1, <2>1 DEF TypeOK, Types, SchedTypes, DlTypes, UlTypes
<1>2. QED
  BY <1>1, TypesInvariant, DlInvInvariant, PTL

\* A downlink process in use has exactly one place, and its state says which:
\* its feedback is due in one reserved slot, or it was NACKED and awaits its
\* retransmission.  With as many slots as processes the branch without a free
\* process may be reached, and frees a process of another UE.
THEOREM DlInUseIsPlaced == ASSUME DlReliable PROVE Spec => []DlInUseHasPlace
<1>1. ASSUME Types, DlInv
      PROVE  DlInUseHasPlace
  <2> SUFFICES ASSUME NEW u \in Ue
               PROVE  DlInUseHasPlace!(u)
    BY DEF DlInUseHasPlace
  <2>1. /\ dlFree[u] \in SUBSET Proc /\ dlRetx[u] \in Seq(Proc)
        /\ hqDlmap[u] \in [Slot -> Seq(Proc)]
        /\ OnePlace(dlFree[u], dlRetx[u], hqDlmap[u])
        /\ APlace(dlFree[u], dlRetx[u], hqDlmap[u], pucch[u])
        /\ Fits(dlFree[u], dlRetx[u], hqDlmap[u], tb[u])
    BY <1>1 DEF Types, DlTypes, DlInv, DlOnePlace, DlAPlace, DlFits
  <2>2. ToSet(dlRetx[u]) \subseteq Proc /\ \A s \in Slot : ToSet(hqDlmap[u][s]) \subseteq Proc
    BY <2>1, ToSetType
  <2>3. DlInUse(u) = Awaited(hqDlmap, u) \union ToSet(dlRetx[u])
    BY <2>1, <2>2 DEF OnePlace, APlace, DlInUse, Awaited
  <2>4. ASSUME NEW s \in Slot
        PROVE  /\ s \in pucch[u] <=> Len(hqDlmap[u][s]) = 1
               /\ s \notin pucch[u] <=> hqDlmap[u][s] = <<>>
    <3>1. hqDlmap[u][s] \in Seq(Proc) /\ Len(hqDlmap[u][s]) = IF s \in pucch[u] THEN 1 ELSE 0
      BY <2>1 DEF APlace
    <3>2. hqDlmap[u][s] = <<>> <=> Len(hqDlmap[u][s]) = 0
      BY <3>1, EmptySeq
    <3>3. QED
      BY <3>1, <3>2
  <2>5. \A p \in ToSet(dlRetx[u]) : tb[u][p][1].state = "NACKED"
    BY <2>1 DEF Fits, FailedTb
  <2>6. \A s \in Slot : \A p \in ToSet(hqDlmap[u][s]) :
            /\ tb[u][p][1].state = "WAITING"
            /\ \A r \in Slot \ {s} : p \notin ToSet(hqDlmap[u][r])
    <3>1. \A t \in SentTb : t.state = "WAITING"
      BY AfterFdbkOfSent
    <3>2. QED
      BY <2>1, <3>1 DEF Fits, OnePlace
  <2>7. QED
    BY <2>1, <2>3, <2>4, <2>5, <2>6 DEF OnePlace
<1>2. QED
  BY <1>1, TypesInvariant, DlInvInvariant, PTL

\* If in addition no UE attached by random access, MAC holds exactly the blocks
\* of the processes in use.
LEMMA MacHoldsInUseKept ==
    ASSUME DlReliable, RaUe = {}, Types, DlInv, ~corrupt, MacHoldsInUse, [Next]_vars
    PROVE  MacHoldsInUse'
<1> USE DEF MacHoldsInUse, DlInUse
<1>1. ASSUME UNCHANGED <<dlFree, macTb>>
      PROVE  MacHoldsInUse'
  BY <1>1
<1>2. ASSUME NEW u \in Ue, NEW s \in Slot, DlHarqInd(u, s)
      PROVE  MacHoldsInUse'
  <2>1. PICK p \in Proc :
          \/ UNCHANGED <<dlFree, macTb>>
          \/ dlFree' = [dlFree EXCEPT ![u] = @ \union {p}] /\ macTb' = MacRelease(u, {p})
    BY <1>2, DlHarqIndCases
  <2>2. MacRelease(u, {p}) = [macTb EXCEPT ![u] = @ \ {p}]
    BY DEF MacRelease
  <2>3. CASE dlFree' = [dlFree EXCEPT ![u] = @ \union {p}] /\ macTb' = [macTb EXCEPT ![u] = @ \ {p}]
    BY <2>3 DEF Types, DlTypes
  <2>4. QED
    BY <1>1, <2>1, <2>2, <2>3
<1>3. ASSUME NEW u \in Ue, NEW dl, NEW ul, ScheduleUe(u, dl, ul)
      PROVE  MacHoldsInUse'
  <2>1. PICK hq \in {NoProc} \union (Ue \X Proc) : DlPart(u, dl, hq)
    BY <1>3 DEF ScheduleUe
  <2>2. \/ UNCHANGED <<dlFree, macTb>>
        \/ \E p \in dlFree[u] : dlFree' = [dlFree EXCEPT ![u] = @ \ {p}] /\ macTb' = MacAdd(u, p)
    BY <2>1, DlPartCases
  <2>3. ASSUME NEW p \in dlFree[u],
               dlFree' = [dlFree EXCEPT ![u] = @ \ {p}], macTb' = MacAdd(u, p)
        PROVE  MacHoldsInUse'
    BY <2>3 DEF MacAdd, Types, DlTypes
  <2>4. QED
    BY <1>1, <2>2, <2>3
<1>4. SlotInd => UNCHANGED <<dlFree, macTb>>
  BY DEF SlotInd, dlVars
<1>5. \A u \in Ue : DlRlcBoInfo(u) \/ SrUciInd(u) \/ Bsr(u) => UNCHANGED <<dlFree, macTb>>
  BY DEF DlRlcBoInfo, SrUciInd, Bsr, dlVars
<1>6. \A u \in Ue, s \in Slot :
        LoseUci(u, s) \/ CrcInd(u, s) \/ LoseCrc(u, s) => UNCHANGED <<dlFree, macTb>>
  BY DEF LoseUci, CrcInd, LoseCrc, dlVars
<1>7. UNCHANGED vars => UNCHANGED <<dlFree, macTb>>
  BY DEF vars, dlVars
<1>8. QED
  BY <1>1, <1>2, <1>3, <1>4, <1>5, <1>6, <1>7 DEF Next

\* MAC holds a block for every process in use and for no other, so that a first
\* transmission never replaces a block.  It is false for process 0 of a UE that
\* came by random access: MAC takes its release for that of MSG4's process
\* (MacSchReleaseDlHarqProc).
THEOREM MacHoldsExactlyInUse ==
    ASSUME DlReliable, RaUe = {}
    PROVE  Spec => []MacHoldsInUse
<1>1. Init => MacHoldsInUse
  BY DEF Init, MacHoldsInUse, DlInUse
<1>2. Types /\ DlInv /\ ~corrupt /\ MacHoldsInUse /\ [Next]_vars => MacHoldsInUse'
  BY MacHoldsInUseKept
<1>3. QED
  BY <1>1, <1>2, TypesInvariant, DlInvInvariant, PTL DEF Spec


-----------------------------------------------------------------------------
(* Under the same assumptions, SCH and MAC implement HarqTx.                 *)

StOf(u, p) ==
    CASE p \in dlFree[u] -> "idle"
      [] p \notin dlFree[u] /\ tb[u][p][1].state = "NACKED" -> "failed"
      [] OTHER -> "sent"

\* A step that disturbs one process of one UE, as HarqTx sees it.
LEMMA MapOfOne ==
    ASSUME NEW u \in Ue, NEW p \in Proc,
           \A v \in Ue, q \in Proc : <<v, q>> # <<u, p>> =>
              /\ q \in dlFree'[v] <=> q \in dlFree[v]
              /\ tb'[v][q][1] = tb[v][q][1]
              /\ q \in macTb'[v] <=> q \in macTb[v]
    PROVE  /\ <<u, p>> \in Ue \X Proc
           /\ DlSt[<<u, p>>] = StOf(u, p) /\ DlTx[<<u, p>>] = tb[u][p][1].txCntr
           /\ <<u, p>> \in DlHeld <=> p \in macTb[u]
           /\ DlSt' = [DlSt EXCEPT ![<<u, p>>] = StOf(u, p)']
           /\ DlTx' = [DlTx EXCEPT ![<<u, p>>] = tb'[u][p][1].txCntr]
           /\ (p \in macTb'[u] <=> p \in macTb[u]) => DlHeld' = DlHeld
           /\ p \in macTb'[u] => DlHeld' = DlHeld \union {<<u, p>>}
           /\ p \notin macTb'[u] => DlHeld' = DlHeld \ {<<u, p>>}
<1> DEFINE x == <<u, p>>
<1>1. x \in Ue \X Proc /\ x[1] = u /\ x[2] = p
  OBVIOUS
<1>2. \A y \in Ue \X Proc : y[1] \in Ue /\ y[2] \in Proc /\ y = <<y[1], y[2]>>
  OBVIOUS
<1>3. /\ DlSt = [y \in Ue \X Proc |-> StOf(y[1], y[2])]
      /\ DlSt' = [y \in Ue \X Proc |-> StOf(y[1], y[2])']
  BY DEF DlSt, StOf
<1>4. \A y \in Ue \X Proc : y # x =>
        /\ y[2] \in dlFree'[y[1]] <=> y[2] \in dlFree[y[1]]
        /\ tb'[y[1]][y[2]][1] = tb[y[1]][y[2]][1]
        /\ y[2] \in macTb'[y[1]] <=> y[2] \in macTb[y[1]]
  BY <1>2
<1> HIDE DEF x
<1>5. \A y \in Ue \X Proc : y # x => StOf(y[1], y[2])' = StOf(y[1], y[2])
  <2> SUFFICES ASSUME NEW y \in Ue \X Proc, y # x
               PROVE  StOf(y[1], y[2])' = StOf(y[1], y[2])
    OBVIOUS
  <2>1. /\ y[2] \in dlFree'[y[1]] <=> y[2] \in dlFree[y[1]]
        /\ tb'[y[1]][y[2]][1] = tb[y[1]][y[2]][1]
    BY <1>4
  <2>2. QED
    BY <2>1 DEF StOf
<1>6. DlSt[x] = StOf(u, p) /\ DlSt' = [DlSt EXCEPT ![x] = StOf(u, p)']
  BY <1>1, <1>3, <1>5
<1>7. DlTx[x] = tb[u][p][1].txCntr /\ DlTx' = [DlTx EXCEPT ![x] = tb'[u][p][1].txCntr]
  BY <1>1, <1>4 DEF DlTx
<1>8. /\ x \in DlHeld <=> p \in macTb[u]
      /\ x \in DlHeld' <=> p \in macTb'[u]
      /\ \A y : y # x => (y \in DlHeld' <=> y \in DlHeld)
  BY <1>1, <1>4 DEF DlHeld
<1>9. /\ (p \in macTb'[u] <=> p \in macTb[u]) => DlHeld' = DlHeld
      /\ p \in macTb'[u] => DlHeld' = DlHeld \union {x}
      /\ p \notin macTb'[u] => DlHeld' = DlHeld \ {x}
  BY <1>8
<1>10. /\ x \in Ue \X Proc
       /\ DlSt[x] = StOf(u, p) /\ DlTx[x] = tb[u][p][1].txCntr
       /\ x \in DlHeld <=> p \in macTb[u]
  BY <1>1, <1>6, <1>7, <1>8
<1>11. QED
  BY <1>6, <1>7, <1>9, <1>10 DEF x

\* The processes as HarqTx sees them.
LEMMA StOfPlace ==
    ASSUME Types, DlInv, NEW u \in Ue, NEW p \in Proc
    PROVE  /\ p \in dlFree[u] => StOf(u, p) = "idle" /\ tb[u][p][1].txCntr = 0
           /\ p \in ToSet(dlRetx[u]) => StOf(u, p) = "failed"
           /\ \A s \in Slot : p \in ToSet(hqDlmap[u][s]) =>
                StOf(u, p) = "sent" /\ tb[u][p][1].txCntr \in 1 .. MaxTx
<1>1. /\ OnePlace(dlFree[u], dlRetx[u], hqDlmap[u])
      /\ Fits(dlFree[u], dlRetx[u], hqDlmap[u], tb[u])
  BY DEF DlInv, DlOnePlace, DlFits
<1>2. ASSUME p \in dlFree[u]
      PROVE  StOf(u, p) = "idle" /\ tb[u][p][1].txCntr = 0
  <2>1. tb[u][p] = <<Released, Released>>
    BY <1>1, <1>2 DEF Fits
  <2>2. QED
    BY <1>2, <2>1 DEF StOf, Released
<1>3. ASSUME p \in ToSet(dlRetx[u])
      PROVE  StOf(u, p) = "failed"
  <2>1. p \notin dlFree[u] /\ tb[u][p][1].state = "NACKED"
    BY <1>1, <1>3 DEF OnePlace, Fits, FailedTb
  <2>2. QED
    BY <2>1 DEF StOf
<1>4. ASSUME NEW s \in Slot, p \in ToSet(hqDlmap[u][s])
      PROVE  StOf(u, p) = "sent" /\ tb[u][p][1].txCntr \in 1 .. MaxTx
  <2>1. p \notin dlFree[u] /\ tb[u][p][1] \in SentTb
    BY <1>1, <1>4 DEF OnePlace, Fits
  <2>2. tb[u][p][1].state = "WAITING" /\ tb[u][p][1].txCntr \in 1 .. MaxTx
    BY <2>1 DEF SentTb
  <2>3. QED
    BY <2>1, <2>2 DEF StOf
<1>5. QED
  BY <1>2, <1>3, <1>4


LEMMA DlPartMaps ==
    ASSUME DlReliable, Types, InUseIsHeld, MacHoldsInUse, DlInv, ~corrupt,
           NEW u \in Ue, NEW outcome, NEW hq, DlPart(u, outcome, hq)
    PROVE  [DlHarq!Next]_(DlHarq!vars)
<1>1. /\ dlFree[u] \in SUBSET Proc /\ dlRetx[u] \in Seq(Proc)
      /\ tb \in [Ue -> [Proc -> AnyTb \X AnyTb]]
      /\ dlFree \in [Ue -> SUBSET Proc] /\ macTb \in [Ue -> SUBSET Proc]
      /\ OnePlace(dlFree[u], dlRetx[u], hqDlmap[u])
  BY DEF Types, DlTypes, DlInv, DlOnePlace
<1>2. ASSUME NEW p \in Proc, NEW s \in Slot, ReserveDl(u, s, p)
      PROVE  /\ \A v \in Ue, q \in Proc : <<v, q>> # <<u, p>> => tb'[v][q][1] = tb[v][q][1]
             /\ tb'[u][p][1].txCntr = tb[u][p][1].txCntr + 1
             /\ p \notin dlFree'[u] => StOf(u, p)' = "sent"
  <2>1. tb'[u][p] = FilledTbs(tb[u][p])
        /\ \A v \in Ue, q \in Proc : <<v, q>> # <<u, p>> => tb'[v][q] = tb[v][q]
    BY <1>1, <1>2 DEF ReserveDl
  <2>2. tb'[u][p][1] = Filled(tb[u][p][1])
    BY <2>1 DEF FilledTbs
  <2>3. tb'[u][p][1].state = "WAITING" /\ tb'[u][p][1].txCntr = tb[u][p][1].txCntr + 1
    BY <2>2 DEF Filled
  <2>4. p \notin dlFree'[u] => StOf(u, p)' = "sent"
    BY <2>3 DEF StOf
  <2>5. QED
    BY <2>1, <2>3, <2>4
<1>3. ASSUME UNCHANGED <<dlFree, tb, macTb>>
      PROVE  UNCHANGED DlHarq!vars
  BY <1>3 DEF DlHarq!vars, DlSt, DlTx, DlHeld
<1>4. ASSUME dlRetx[u] # <<>>, NEW p, p = Head(dlRetx[u]),
             NEW s \in Slot, ReserveDl(u, s, p), UNCHANGED <<dlFree, macTb>>
      PROVE  DlHarq!Next
  <2>1. p \in Proc /\ p \in ToSet(dlRetx[u])
    BY <1>1, <1>4, TailToSet
  <2>2. p \notin dlFree[u] /\ p \in macTb[u] /\ StOf(u, p) = "failed"
    BY <1>1, <2>1, StOfPlace DEF OnePlace, InUseIsHeld, DlInUse
  <2>3. p \notin dlFree'[u]
    BY <1>4, <2>2
  <2>4. /\ \A v \in Ue, q \in Proc : <<v, q>> # <<u, p>> => tb'[v][q][1] = tb[v][q][1]
        /\ tb'[u][p][1].txCntr = tb[u][p][1].txCntr + 1
        /\ StOf(u, p)' = "sent"
    BY <1>2, <1>4, <2>1, <2>3
  <2>5. \A v \in Ue, q \in Proc : <<v, q>> # <<u, p>> =>
            /\ q \in dlFree'[v] <=> q \in dlFree[v]
            /\ tb'[v][q][1] = tb[v][q][1]
            /\ q \in macTb'[v] <=> q \in macTb[v]
    BY <1>4, <2>4
  <2>6. /\ <<u, p>> \in Ue \X Proc
        /\ DlSt[<<u, p>>] = StOf(u, p) /\ DlTx[<<u, p>>] = tb[u][p][1].txCntr
        /\ <<u, p>> \in DlHeld <=> p \in macTb[u]
        /\ DlSt' = [DlSt EXCEPT ![<<u, p>>] = StOf(u, p)']
        /\ DlTx' = [DlTx EXCEPT ![<<u, p>>] = tb'[u][p][1].txCntr]
        /\ DlHeld' = DlHeld
    BY <1>4, <2>1, <2>5, MapOfOne
  <2>7. DlHarq!Resend(<<u, p>>)
    BY <2>2, <2>4, <2>6 DEF DlHarq!Resend
  <2>8. QED
    BY <2>6, <2>7 DEF DlHarq!Next
<1>5. ASSUME NEW p \in dlFree[u], NEW s \in Slot, ReserveDl(u, s, p),
             dlFree' = [dlFree EXCEPT ![u] = @ \ {p}], macTb' = MacAdd(u, p)
      PROVE  DlHarq!Next
  <2>1. p \in Proc /\ p \notin macTb[u] /\ StOf(u, p) = "idle" /\ tb[u][p][1].txCntr = 0
    BY <1>1, StOfPlace DEF MacHoldsInUse, DlInUse
  <2>2. /\ p \notin dlFree'[u] /\ p \in macTb'[u]
        /\ \A v \in Ue, q \in Proc : <<v, q>> # <<u, p>> =>
              /\ q \in dlFree'[v] <=> q \in dlFree[v]
              /\ q \in macTb'[v] <=> q \in macTb[v]
    BY <1>1, <1>5 DEF MacAdd
  <2>3. /\ \A v \in Ue, q \in Proc : <<v, q>> # <<u, p>> => tb'[v][q][1] = tb[v][q][1]
        /\ tb'[u][p][1].txCntr = 1
        /\ StOf(u, p)' = "sent"
    BY <1>2, <1>5, <2>1, <2>2
  <2>4. /\ <<u, p>> \in Ue \X Proc
        /\ DlSt[<<u, p>>] = StOf(u, p) /\ DlTx[<<u, p>>] = tb[u][p][1].txCntr
        /\ <<u, p>> \in DlHeld <=> p \in macTb[u]
        /\ DlSt' = [DlSt EXCEPT ![<<u, p>>] = StOf(u, p)']
        /\ DlTx' = [DlTx EXCEPT ![<<u, p>>] = tb'[u][p][1].txCntr]
        /\ DlHeld' = DlHeld \union {<<u, p>>}
    BY <2>1, <2>2, <2>3, MapOfOne
  <2>5. DlHarq!Send(<<u, p>>)
    BY <2>1, <2>3, <2>4 DEF DlHarq!Send
  <2>6. QED
    BY <2>4, <2>5 DEF DlHarq!Next
<1>6. QED
  BY <1>3, <1>4, <1>5, DlPartCases

LEMMA DlHarqIndMaps ==
    ASSUME RaUe = {}, Types, InUseIsHeld, DlInv, NEW u \in Ue, NEW s \in Slot, DlHarqInd(u, s)
    PROVE  DlHarq!Next
<1>1. PICK p \in Proc :
        /\ hqDlmap[u][s] = <<p>>
        /\ ~corrupt'
        /\ \/ /\ dlFree' = [dlFree EXCEPT ![u] = @ \union {p}]
              /\ dlRetx' = dlRetx
              /\ tb' = [tb EXCEPT ![u][p] = <<Released, Released>>]
              /\ macTb' = MacRelease(u, {p})
           \/ /\ dlFree' = dlFree
              /\ dlRetx' = [dlRetx EXCEPT ![u] = Append(@, p)]
              /\ tb' = [tb EXCEPT ![u][p] = <<[@[1] EXCEPT !.state = "NACKED"], Released>>]
              /\ tb[u][p][1].txCntr < MaxTx
              /\ macTb' = macTb
  BY DlHarqIndCases
<1>2. /\ tb \in [Ue -> [Proc -> AnyTb \X AnyTb]]
      /\ dlFree \in [Ue -> SUBSET Proc] /\ macTb \in [Ue -> SUBSET Proc]
      /\ OnePlace(dlFree[u], dlRetx[u], hqDlmap[u])
  BY DEF Types, DlTypes, DlInv, DlOnePlace
<1>3. p \in ToSet(hqDlmap[u][s])
  <2>1. <<p>> \in Seq(Proc) /\ Len(<<p>>) = 1 /\ <<p>>[1] = p
    OBVIOUS
  <2>2. ToSet(<<p>>) = {p}
    BY <2>1, SingletonList
  <2>3. QED
    BY <1>1, <2>2
<1>4. p \notin dlFree[u] /\ StOf(u, p) = "sent" /\ tb[u][p][1].txCntr \in 1 .. MaxTx
  BY <1>2, <1>3, StOfPlace DEF OnePlace
<1>5. CASE /\ dlFree' = [dlFree EXCEPT ![u] = @ \union {p}]
           /\ tb' = [tb EXCEPT ![u][p] = <<Released, Released>>]
           /\ macTb' = MacRelease(u, {p})
  <2>1. macTb' = [macTb EXCEPT ![u] = @ \ {p}]
    BY <1>5 DEF MacRelease
  <2>2. /\ p \in dlFree'[u] /\ p \notin macTb'[u]
        /\ tb'[u][p] = <<Released, Released>>
        /\ \A v \in Ue, q \in Proc : <<v, q>> # <<u, p>> =>
              /\ q \in dlFree'[v] <=> q \in dlFree[v]
              /\ tb'[v][q][1] = tb[v][q][1]
              /\ q \in macTb'[v] <=> q \in macTb[v]
    BY <1>2, <1>5, <2>1
  <2>3. tb'[u][p][1].txCntr = 0 /\ StOf(u, p)' = "idle"
    BY <2>2 DEF StOf, Released
  <2>4. /\ <<u, p>> \in Ue \X Proc
        /\ DlSt[<<u, p>>] = StOf(u, p)
        /\ DlSt' = [DlSt EXCEPT ![<<u, p>>] = StOf(u, p)']
        /\ DlTx' = [DlTx EXCEPT ![<<u, p>>] = tb'[u][p][1].txCntr]
        /\ DlHeld' = DlHeld \ {<<u, p>>}
    BY <2>2, MapOfOne
  <2>5. DlHarq!Finish(<<u, p>>)
    BY <1>4, <2>3, <2>4 DEF DlHarq!Finish
  <2>6. QED
    BY <2>4, <2>5 DEF DlHarq!Next
<1>6. CASE /\ dlFree' = dlFree
           /\ tb' = [tb EXCEPT ![u][p] = <<[@[1] EXCEPT !.state = "NACKED"], Released>>]
           /\ tb[u][p][1].txCntr < MaxTx
           /\ macTb' = macTb
  <2> DEFINE t1 == [tb[u][p][1] EXCEPT !.state = "NACKED"]
  <2>1. t1.state = "NACKED" /\ t1.txCntr = tb[u][p][1].txCntr
    <3>1. tb[u][p][1] \in AnyTb
      BY <1>2
    <3>2. QED
      BY <3>1 DEF AnyTb
  <2>2. tb' = [tb EXCEPT ![u][p] = <<t1, Released>>]
    BY <1>6
  <2> HIDE DEF t1
  <2>3. /\ tb'[u][p] = <<t1, Released>>
        /\ \A v \in Ue, q \in Proc : <<v, q>> # <<u, p>> => tb'[v][q][1] = tb[v][q][1]
    BY <1>2, <2>2
  <2>4. tb'[u][p][1].txCntr = tb[u][p][1].txCntr /\ StOf(u, p)' = "failed"
    BY <1>4, <1>6, <2>1, <2>3 DEF StOf
  <2>5. /\ <<u, p>> \in Ue \X Proc
        /\ DlSt[<<u, p>>] = StOf(u, p) /\ DlTx[<<u, p>>] = tb[u][p][1].txCntr
        /\ DlSt' = [DlSt EXCEPT ![<<u, p>>] = StOf(u, p)']
        /\ DlTx' = [DlTx EXCEPT ![<<u, p>>] = tb'[u][p][1].txCntr]
        /\ DlHeld' = DlHeld
    BY <1>6, <2>3, MapOfOne
  <2>6. DlTx' = DlTx
    BY <2>4, <2>5 DEF DlTx
  <2>7. DlHarq!Fail(<<u, p>>)
    BY <1>4, <1>6, <2>4, <2>5, <2>6 DEF DlHarq!Fail
  <2>8. QED
    BY <2>5, <2>7 DEF DlHarq!Next
<1>7. QED
  BY <1>1, <1>5, <1>6

\* A new block is sent only on a process that is idle and whose block MAC has
\* dropped; it is sent again only after a failure and at most MaxTx times; and
\* it is dropped only when it was received or failed for the last time.
THEOREM SchImplementsHarq ==
    ASSUME DlReliable, RaUe = {}
    PROVE  Spec => DlHarqSpec
<1>1. ASSUME Init
      PROVE  DlHarq!Init
  BY <1>1 DEF Init, DlHarq!Init, DlSt, DlTx, DlHeld, Released
<1>2. ASSUME Types, InUseIsHeld, MacHoldsInUse, DlInv, ~corrupt, [Next]_vars
      PROVE  [DlHarq!Next]_(DlHarq!vars)
  <2>1. ASSUME UNCHANGED <<dlFree, tb, macTb>>
        PROVE  UNCHANGED DlHarq!vars
    BY <2>1 DEF DlHarq!vars, DlSt, DlTx, DlHeld
  <2>2. ASSUME SlotInd \/ UNCHANGED vars
        PROVE  UNCHANGED <<dlFree, tb, macTb>>
    BY <2>2 DEF SlotInd, vars, dlVars
  <2>3. ASSUME NEW u \in Ue, DlRlcBoInfo(u) \/ SrUciInd(u) \/ Bsr(u)
        PROVE  UNCHANGED <<dlFree, tb, macTb>>
    BY <2>3 DEF DlRlcBoInfo, SrUciInd, Bsr, dlVars
  <2>4. ASSUME NEW u \in Ue, NEW s \in Slot, LoseUci(u, s) \/ CrcInd(u, s) \/ LoseCrc(u, s)
        PROVE  UNCHANGED <<dlFree, tb, macTb>>
    BY <2>4 DEF LoseUci, CrcInd, LoseCrc, dlVars
  <2>5. ASSUME NEW u \in Ue, NEW s \in Slot, DlHarqInd(u, s)
        PROVE  DlHarq!Next
    BY <1>2, <2>5, DlHarqIndMaps
  <2>6. ASSUME NEW u \in Ue, NEW dl, NEW ul, ScheduleUe(u, dl, ul)
        PROVE  [DlHarq!Next]_(DlHarq!vars)
    <3>1. PICK hq : DlPart(u, dl, hq)
      BY <2>6 DEF ScheduleUe
    <3>2. QED
      BY <1>2, <3>1, DlPartMaps
  <2>7. QED
    BY <1>2, <2>1, <2>2, <2>3, <2>4, <2>5, <2>6 DEF Next
<1>3. QED
  BY <1>1, <1>2, TypesInvariant, BlockIsHeldWhileInUse, MacHoldsExactlyInUse, DlInvInvariant, PTL
     DEF Spec, DlHarqSpec, DlHarq!Spec


=============================================================================
