--------------------------- MODULE RlcAmDl_proofs ---------------------------
(***************************************************************************)
(* The transmitter's invariants, for every window, SDU length, number of   *)
(* SDUs and of retransmissions.                                            *)
(***************************************************************************)
EXTENDS RlcAmDl, AmSn_proofs

-----------------------------------------------------------------------------
(* The lists while a handler works on them.                                *)

RetxType == [sn : Sn, so : Unit, end : Unit, retxCnt : 1 .. MaxRetx, pendingReTrans : BOOLEAN]
PtrType == {NoRetx} \union (Sn \X Unit)
BufType ==
    [txBuf : [Sn -> Seq(SegType)], retx : Seq(RetxType), nxt : PtrType, rcvd : [Sn -> 0 .. SduLen],
     bo : Int, retxBo : Int, max : BOOLEAN, undef : BOOLEAN, err : BOOLEAN,
     node : Nat \ {0}, lnk : Nat \ {0}, from : Sn]

Span(s) == s.so .. s.end
Before(a, b) == Dist(a.sn) < Dist(b.sn) \/ (a.sn = b.sn /\ a.end < b.so)

\* The entries of retx are in order, those of one SN in txBuf are, and what is
\* being retransmitted of an SN lies below what is not.
RetxOrder(st) ==
    /\ \A i \in DOMAIN st.retx : st.retx[i].so <= st.retx[i].end
    /\ \A i, j \in DOMAIN st.retx : i < j => Before(st.retx[i], st.retx[j])
TxOrder(st) ==
    \A sn \in Sn :
        /\ \A k \in DOMAIN st.txBuf[sn] : st.txBuf[sn][k].so <= st.txBuf[sn][k].end
        /\ \A k, m \in DOMAIN st.txBuf[sn] : k < m => st.txBuf[sn][k].end < st.txBuf[sn][m].so
RetxBelowTx(st) ==
    \A i \in DOMAIN st.retx : \A k \in DOMAIN st.txBuf[st.retx[i].sn] :
        st.retx[i].end < st.txBuf[st.retx[i].sn][k].so
InWin(st) ==
    /\ \A i \in DOMAIN st.retx : Dist(st.retx[i].sn) < Dist(txNext)
    /\ \A sn \in Sn : \A k \in DOMAIN st.txBuf[sn] :
           Dist(sn) < Dist(txNext) \/ (sn = txNext /\ st.txBuf[sn][k].end < segOff)

\* The units of an SN in txBuf, in retxLst, in both, and those transmitted.
TxUnits(st, sn) == {u \in Unit : \E k \in DOMAIN st.txBuf[sn] : u \in Span(st.txBuf[sn][k])}
RetxUnits(st, sn) ==
    {u \in Unit : \E i \in DOMAIN st.retx : st.retx[i].sn = sn /\ u \in Span(st.retx[i])}
UnitsAt(st, sn) == TxUnits(st, sn) \union RetxUnits(st, sn)
SentUnits(sn) ==
    IF Dist(sn) < Dist(txNext) THEN Unit ELSE IF sn = txNext THEN 0 .. segOff - 1 ELSE {}

\* Every unit is counted once.
Total(st, sn) == st.rcvd[sn] + Cardinality(UnitsAt(st, sn)) + Cardinality(UnsentUnits(sn))
Counts(st) ==
    \A sn \in Sn : Total(st, sn) <= SduLen /\ (st.max \/ Total(st, sn) \in {0, SduLen})

\* No unit of M has been released.
Keeps(M, st) == ~st.max => \A sn \in Sn : M[sn] \subseteq UnitsAt(st, sn)

\* The PDUs and segments held, as SN, first and last unit.
Pieces(st) ==
    {p \in Sn \X Unit \X Unit :
        \/ \E i \in DOMAIN st.retx : st.retx[i].sn = p[1] /\ st.retx[i].so = p[2] /\ st.retx[i].end = p[3]
        \/ \E k \in DOMAIN st.txBuf[p[1]] : st.txBuf[p[1]][k].so = p[2] /\ st.txBuf[p[1]][k].end = p[3]}
IsWhole(a, b, U) == a .. b \subseteq U \/ (a .. b) \intersect U = {}
Wholes(P, M) == \A p \in P : IsWhole(p[2], p[3], M[p[1]])

Good(P, M, st) ==
    /\ st \in BufType
    /\ RetxOrder(st) /\ TxOrder(st) /\ RetxBelowTx(st) /\ InWin(st)
    /\ Counts(st) /\ Keeps(M, st) /\ Pieces(st) \subseteq P
    /\ maxReTxReached => st.max

-----------------------------------------------------------------------------
(* Entries, PDUs and units.                                                *)

\* The parts of a record of the lists.
LEMMA BufFields ==
    ASSUME NEW st \in BufType
    PROVE  /\ st.txBuf \in [Sn -> Seq(SegType)] /\ st.retx \in Seq(RetxType)
           /\ st.nxt \in PtrType /\ st.rcvd \in [Sn -> 0 .. SduLen]
           /\ st.bo \in Int /\ st.retxBo \in Int
           /\ st.max \in BOOLEAN /\ st.undef \in BOOLEAN /\ st.err \in BOOLEAN
           /\ st.node \in Nat \ {0} /\ st.lnk \in Nat \ {0} /\ st.from \in Sn
  BY DEF BufType

\* The entries of retx and their indices.
LEMMA RetxEntries ==
    ASSUME NEW st \in BufType
    PROVE  /\ Len(st.retx) \in Nat /\ DOMAIN st.retx = 1 .. Len(st.retx)
           /\ \A i \in DOMAIN st.retx :
                  /\ st.retx[i] \in RetxType
                  /\ st.retx[i].sn \in Sn /\ st.retx[i].so \in Unit /\ st.retx[i].end \in Unit
                  /\ st.retx[i].retxCnt \in 1 .. MaxRetx
                  /\ st.retx[i].pendingReTrans \in BOOLEAN
<1>1. st.retx \in Seq(RetxType)
  BY BufFields
<1>2. Len(st.retx) \in Nat /\ DOMAIN st.retx = 1 .. Len(st.retx)
  BY <1>1, LenProperties
<1>3. \A i \in DOMAIN st.retx : st.retx[i] \in RetxType
  BY <1>1, <1>2, ElementOfSeq
<1>4. QED
  BY <1>2, <1>3 DEF RetxType

\* The entries of txBuf and their indices.
LEMMA TxEntries ==
    ASSUME NEW st \in BufType, NEW sn \in Sn
    PROVE  /\ st.txBuf[sn] \in Seq(SegType)
           /\ Len(st.txBuf[sn]) \in Nat /\ DOMAIN st.txBuf[sn] = 1 .. Len(st.txBuf[sn])
           /\ \A k \in DOMAIN st.txBuf[sn] :
                  /\ st.txBuf[sn][k] \in SegType
                  /\ st.txBuf[sn][k].so \in Unit /\ st.txBuf[sn][k].end \in Unit
<1>1. st.txBuf[sn] \in Seq(SegType)
  BY BufFields
<1>2. Len(st.txBuf[sn]) \in Nat /\ DOMAIN st.txBuf[sn] = 1 .. Len(st.txBuf[sn])
  BY <1>1, LenProperties
<1>3. \A k \in DOMAIN st.txBuf[sn] : st.txBuf[sn][k] \in SegType
  BY <1>1, <1>2, ElementOfSeq
<1>4. QED
  BY <1>1, <1>2, <1>3 DEF SegType

\* Units are naturals below SduLen, and there are SduLen of them.
LEMMA UnitFacts ==
    /\ SduLen \in Nat \ {0} /\ LastUnit \in Unit
    /\ \A u : u \in Unit <=> u \in Nat /\ u < SduLen
    /\ IsFiniteSet(Unit) /\ Cardinality(Unit) = SduLen
<1>1. SduLen \in Nat \ {0}
  BY SduLenAssumption
<1>2. IsFiniteSet(0 .. SduLen - 1) /\ Cardinality(0 .. SduLen - 1) = SduLen
  BY <1>1, FS_Interval, SMT
<1>3. QED
  BY <1>1, <1>2, SMT DEF Unit, LastUnit

\* Sets of units are finite.
LEMMA UnitSets ==
    ASSUME NEW U, U \subseteq Unit
    PROVE  IsFiniteSet(U) /\ Cardinality(U) \in 0 .. SduLen
<1>1. IsFiniteSet(U) /\ Cardinality(U) <= SduLen
  BY UnitFacts, FS_Subset
<1>2. Cardinality(U) \in Nat
  BY <1>1, FS_CardinalityType
<1>3. QED
  BY <1>1, <1>2, UnitFacts, SMT

\* A piece lies within the units and has as many of them as its size says.
LEMMA SpanFacts ==
    ASSUME NEW s, s.so \in Unit, s.end \in Unit, s.so <= s.end
    PROVE  /\ Span(s) \subseteq Unit /\ Span(s) # {}
           /\ s.so \in Span(s) /\ s.end \in Span(s)
           /\ Size(s) \in 1 .. SduLen /\ Cardinality(Span(s)) = Size(s)
<1>1. s.so \in Int /\ s.end \in Int /\ 0 <= s.so /\ s.end < SduLen
  BY UnitFacts, SMT
<1>2. Cardinality(Span(s)) = Size(s)
  BY <1>1, FS_Interval, SMT DEF Span, Size
<1>3. Span(s) \subseteq Unit
  BY <1>1, UnitFacts, SMT DEF Span
<1>4. s.so \in Span(s) /\ s.end \in Span(s) /\ Size(s) \in 1 .. SduLen
  BY <1>1, UnitFacts, SMT DEF Span, Size
<1>5. QED
  BY <1>2, <1>3, <1>4

\* Taking a part away from a set of units takes its number away.
LEMMA TakeAway ==
    ASSUME NEW U, U \subseteq Unit, NEW V, V \subseteq U
    PROVE  Cardinality(U \ V) = Cardinality(U) - Cardinality(V)
<1>1. IsFiniteSet(U)
  BY UnitSets
<1>2. U \intersect V = V
  OBVIOUS
<1>3. QED
  BY <1>1, <1>2, FS_Difference

\* Distances are sequence numbers.
LEMMA DistNat ==
    ASSUME txNextAck \in Sn, NEW sn \in Sn
    PROVE  Dist(sn) \in Sn /\ Dist(sn) \in Nat
<1>1. Dist(sn) \in Sn
  BY ModSnType DEF Dist
<1>2. QED
  BY <1>1, WinSzAssumption, SMT DEF Sn, SnMod

\* Where the entries are after the one at i has been taken out of retx.
LEMMA RemovedIndex ==
    ASSUME NEW st \in BufType, NEW i \in DOMAIN st.retx,
           NEW s2, s2.retx = RemoveAt(st.retx, i)
    PROVE  /\ s2.retx \in Seq(RetxType) /\ Len(s2.retx) = Len(st.retx) - 1
           /\ DOMAIN s2.retx = 1 .. Len(st.retx) - 1
           /\ \A j \in DOMAIN s2.retx :
                  /\ j < i => j \in DOMAIN st.retx /\ s2.retx[j] = st.retx[j]
                  /\ j >= i => j + 1 \in DOMAIN st.retx /\ s2.retx[j] = st.retx[j + 1]
           /\ \A j \in DOMAIN st.retx :
                  /\ j < i => j \in DOMAIN s2.retx
                  /\ j > i => j - 1 \in DOMAIN s2.retx /\ s2.retx[j - 1] = st.retx[j]
<1>1. st.retx \in Seq(RetxType) /\ Len(st.retx) \in Nat /\ DOMAIN st.retx = 1 .. Len(st.retx)
  BY BufFields, RetxEntries
<1>2. i \in 1 .. Len(st.retx)
  BY <1>1
<1>3. /\ s2.retx \in Seq(RetxType) /\ Len(s2.retx) = Len(st.retx) - 1
      /\ DOMAIN s2.retx = 1 .. Len(st.retx) - 1
      /\ \A j \in 1 .. Len(st.retx) - 1 :
             s2.retx[j] = IF j < i THEN st.retx[j] ELSE st.retx[j + 1]
  BY <1>1, <1>2, RemoveAtList
<1>4. QED
  BY <1>1, <1>2, <1>3, SMTT(30)

\* Taking an entry out of retx takes its units away and changes nothing else.
LEMMA RetxRemoved ==
    ASSUME txNextAck \in Sn, txNext \in Sn,
           NEW st \in BufType, RetxOrder(st), TxOrder(st), RetxBelowTx(st), InWin(st),
           NEW i \in DOMAIN st.retx,
           NEW s2 \in BufType, s2.txBuf = st.txBuf, s2.retx = RemoveAt(st.retx, i)
    PROVE  /\ RetxOrder(s2) /\ TxOrder(s2) /\ RetxBelowTx(s2) /\ InWin(s2)
           /\ Pieces(s2) \subseteq Pieces(st)
           /\ Span(st.retx[i]) \subseteq UnitsAt(st, st.retx[i].sn)
           /\ UnitsAt(s2, st.retx[i].sn) = UnitsAt(st, st.retx[i].sn) \ Span(st.retx[i])
           /\ \A sn \in Sn : sn # st.retx[i].sn => UnitsAt(s2, sn) = UnitsAt(st, sn)
<1>1. /\ Len(st.retx) \in Nat /\ DOMAIN st.retx = 1 .. Len(st.retx)
      /\ DOMAIN s2.retx = 1 .. Len(st.retx) - 1
      /\ \A j \in DOMAIN s2.retx :
             /\ j < i => j \in DOMAIN st.retx /\ s2.retx[j] = st.retx[j]
             /\ j >= i => j + 1 \in DOMAIN st.retx /\ s2.retx[j] = st.retx[j + 1]
      /\ \A j \in DOMAIN st.retx :
             /\ j < i => j \in DOMAIN s2.retx
             /\ j > i => j - 1 \in DOMAIN s2.retx /\ s2.retx[j - 1] = st.retx[j]
  BY RemovedIndex, RetxEntries
<1> DEFINE old(j) == IF j < i THEN j ELSE j + 1
<1>20. ASSUME NEW j \in DOMAIN s2.retx
       PROVE  old(j) \in DOMAIN st.retx /\ old(j) # i /\ s2.retx[j] = st.retx[old(j)]
  <2>1. i \in Int /\ j \in Int
    BY <1>1, SMT
  <2>2. CASE j < i
    BY <1>1, <2>1, <2>2, SMT
  <2>3. CASE j >= i
    BY <1>1, <2>1, <2>3, SMT
  <2>4. QED
    BY <2>1, <2>2, <2>3, SMT
<1>21. ASSUME NEW j \in DOMAIN s2.retx, NEW k \in DOMAIN s2.retx, j < k
       PROVE  old(j) < old(k)
  <2>1. i \in Int /\ j \in Int /\ k \in Int
    BY <1>1, SMT
  <2>2. QED
    BY <1>21, <2>1, SMT
<1>2. \A j \in DOMAIN s2.retx : \E m \in DOMAIN st.retx : m # i /\ s2.retx[j] = st.retx[m]
  BY <1>20
<1>3. ASSUME NEW m \in DOMAIN st.retx, m # i
      PROVE  \E j \in DOMAIN s2.retx : s2.retx[j] = st.retx[m]
  <2>1. m < i \/ m > i
    BY <1>1, <1>3, SMT
  <2>2. CASE m < i
    BY <1>1, <2>2
  <2>3. CASE m > i
    BY <1>1, <2>3
  <2>4. QED
    BY <2>1, <2>2, <2>3
<1>4. RetxOrder(s2)
  <2>1. \A j \in DOMAIN s2.retx : s2.retx[j].so <= s2.retx[j].end
    BY <1>2 DEF RetxOrder
  <2>2. ASSUME NEW j \in DOMAIN s2.retx, NEW k \in DOMAIN s2.retx, j < k
        PROVE  Before(s2.retx[j], s2.retx[k])
    <3>1. old(j) < old(k)
      BY <1>21, <2>2
    <3>2. QED
      BY <1>20, <3>1 DEF RetxOrder
  <2>3. QED
    BY <2>1, <2>2 DEF RetxOrder
<1>5. TxOrder(s2)
  BY DEF TxOrder
<1>6. RetxBelowTx(s2)
  BY <1>2 DEF RetxBelowTx
<1>7. InWin(s2)
  BY <1>2 DEF InWin
<1>8. Pieces(s2) \subseteq Pieces(st)
  BY <1>2, Zenon DEF Pieces
<1> DEFINE r == st.retx[i]
<1>9. /\ r.sn \in Sn /\ r.so \in Unit /\ r.end \in Unit /\ r.so <= r.end
  BY RetxEntries DEF RetxOrder
<1>10. Span(r) \subseteq RetxUnits(st, r.sn)
  BY <1>9, SpanFacts DEF RetxUnits
<1>11. ASSUME NEW u \in Span(r)
       PROVE  u \notin TxUnits(st, r.sn)
  <2>1. SUFFICES ASSUME NEW k \in DOMAIN st.txBuf[r.sn], u \in Span(st.txBuf[r.sn][k])
                 PROVE  FALSE
    BY DEF TxUnits
  <2>2. st.txBuf[r.sn][k].so \in Unit /\ st.txBuf[r.sn][k].end \in Unit
    BY <1>9, TxEntries
  <2>3. r.end < st.txBuf[r.sn][k].so
    BY DEF RetxBelowTx
  <2>4. QED
    BY <1>9, <1>11, <2>1, <2>2, <2>3, UnitFacts, SMT DEF Span
<1>12. ASSUME NEW m \in DOMAIN st.retx, m # i, st.retx[m].sn = r.sn, NEW u \in Span(st.retx[m])
       PROVE  u \notin Span(r)
  <2>1. /\ st.retx[m].so \in Unit /\ st.retx[m].end \in Unit
        /\ Dist(r.sn) \in Nat
    BY <1>9, RetxEntries, DistNat
  <2>2. m < i \/ i < m
    BY <1>1, <1>12, SMT
  <2>3. r.end < st.retx[m].so \/ st.retx[m].end < r.so
    BY <1>12, <2>1, <2>2, SMT DEF RetxOrder, Before
  <2>4. QED
    BY <1>9, <1>12, <2>1, <2>3, UnitFacts, SMT DEF Span
<1>13. RetxUnits(s2, r.sn) = RetxUnits(st, r.sn) \ Span(r)
  <2>1. ASSUME NEW u \in RetxUnits(s2, r.sn)
        PROVE  u \in RetxUnits(st, r.sn) /\ u \notin Span(r)
    <3>1. PICK j \in DOMAIN s2.retx : s2.retx[j].sn = r.sn /\ u \in Span(s2.retx[j])
      BY <2>1 DEF RetxUnits
    <3>2. PICK m \in DOMAIN st.retx : m # i /\ s2.retx[j] = st.retx[m]
      BY <1>2
    <3>3. QED
      BY <2>1, <3>1, <3>2, <1>12 DEF RetxUnits
  <2>2. ASSUME NEW u \in RetxUnits(st, r.sn), u \notin Span(r)
        PROVE  u \in RetxUnits(s2, r.sn)
    <3>1. PICK m \in DOMAIN st.retx : st.retx[m].sn = r.sn /\ u \in Span(st.retx[m])
      BY <2>2 DEF RetxUnits
    <3>2. PICK j \in DOMAIN s2.retx : s2.retx[j] = st.retx[m]
      BY <2>2, <3>1, <1>3
    <3>3. QED
      BY <2>2, <3>1, <3>2 DEF RetxUnits
  <2>3. QED
    BY <2>1, <2>2
<1>14. \A sn \in Sn : TxUnits(s2, sn) = TxUnits(st, sn)
  BY DEF TxUnits
<1>15. ASSUME NEW sn \in Sn, sn # r.sn
       PROVE  RetxUnits(s2, sn) = RetxUnits(st, sn)
  <2>1. RetxUnits(s2, sn) \subseteq RetxUnits(st, sn)
    BY <1>2 DEF RetxUnits
  <2>2. RetxUnits(st, sn) \subseteq RetxUnits(s2, sn)
    BY <1>3, <1>15 DEF RetxUnits
  <2>3. QED
    BY <2>1, <2>2, Zenon
<1> HIDE DEF r
<1>16. UnitsAt(s2, r.sn) = UnitsAt(st, r.sn) \ Span(r)
  BY <1>9, <1>11, <1>13, <1>14 DEF UnitsAt
<1>17. \A sn \in Sn : sn # r.sn => UnitsAt(s2, sn) = UnitsAt(st, sn)
  BY <1>14, <1>15 DEF UnitsAt
<1>18. Span(r) \subseteq UnitsAt(st, r.sn)
  BY <1>10 DEF UnitsAt
<1>19. QED
  BY <1>4, <1>5, <1>6, <1>7, <1>8, <1>16, <1>17, <1>18 DEF r

-----------------------------------------------------------------------------
(* rlcRemRetxPdu and rlcAmmDlProcessSuccessfulReTx.                        *)

\* The units of an SN are units, and so are those not yet transmitted.
LEMMA UnitsAtFacts ==
    ASSUME NEW st, NEW sn
    PROVE  /\ UnitsAt(st, sn) \subseteq Unit
           /\ IsFiniteSet(UnitsAt(st, sn)) /\ Cardinality(UnitsAt(st, sn)) \in 0 .. SduLen
<1>1. UnitsAt(st, sn) \subseteq Unit
  BY DEF UnitsAt, TxUnits, RetxUnits
<1>2. QED
  BY <1>1, UnitSets

\* What is not yet transmitted are units of the SDU being segmented only.
LEMMA UnsentFacts ==
    ASSUME segOff \in Unit, NEW sn
    PROVE  /\ UnsentUnits(sn) \subseteq Unit
           /\ Cardinality(UnsentUnits(sn)) \in 0 .. SduLen
           /\ Cardinality(UnsentUnits(sn)) =
                  IF sn = txNext /\ segOff > 0 THEN SduLen - segOff ELSE 0
<1>1. UnsentUnits(sn) \subseteq Unit
  BY UnitFacts, SMT DEF UnsentUnits, LastUnit
<1>2. segOff \in Nat /\ LastUnit \in Nat /\ LastUnit = SduLen - 1 /\ segOff <= LastUnit /\ SduLen \in Nat
  BY UnitFacts, SMT DEF LastUnit
<1>3. Cardinality(segOff .. LastUnit) = SduLen - segOff
  BY <1>2, FS_Interval, SMT
<1>4. Cardinality({}) = 0
  BY FS_EmptySet
<1>5. QED
  BY <1>1, <1>3, <1>4, UnitSets, Zenon DEF UnsentUnits

\* Units of an SN that leave the lists are added to its count, or the count
\* goes with the SDU: the sum stays what it was, or there is nothing left.
LEMMA CountedOnce ==
    ASSUME segOff \in Unit,
           NEW st \in BufType, NEW sn \in Sn,
           Total(st, sn) <= SduLen, st.max \/ Total(st, sn) \in {0, SduLen},
           NEW V, V \subseteq UnitsAt(st, sn),
           NEW s2, s2.max = st.max, s2.rcvd[sn] = Counted(st.rcvd[sn] + Cardinality(V)),
           UnitsAt(s2, sn) = UnitsAt(st, sn) \ V
    PROVE  /\ Total(s2, sn) <= SduLen
           /\ s2.max \/ Total(s2, sn) \in {0, SduLen}
           /\ Counted(st.rcvd[sn] + Cardinality(V)) \in 0 .. SduLen
<1>1. st.rcvd[sn] \in 0 .. SduLen /\ SduLen \in Nat \ {0}
  BY BufFields, UnitFacts
<1>2. Cardinality(V) \in 0 .. SduLen
  BY UnitsAtFacts, UnitSets
<1>3. Cardinality(UnitsAt(s2, sn)) = Cardinality(UnitsAt(st, sn)) - Cardinality(V)
  BY UnitsAtFacts, TakeAway
<1>4. Cardinality(UnitsAt(st, sn)) \in 0 .. SduLen /\ Cardinality(UnitsAt(s2, sn)) \in 0 .. SduLen
  BY UnitsAtFacts
<1>5. Cardinality(UnsentUnits(sn)) \in 0 .. SduLen
  BY UnsentFacts
<1> DEFINE v == Cardinality(V)
           a == Cardinality(UnitsAt(st, sn))
           b == Cardinality(UnitsAt(s2, sn))
           c == Cardinality(UnsentUnits(sn))
           m == st.rcvd[sn]
<1>6. Total(st, sn) = m + a + c /\ Total(s2, sn) = Counted(m + v) + b + c
  BY DEF Total
<1> HIDE DEF v, a, b, c, m
<1>7. /\ v \in 0 .. SduLen /\ a \in 0 .. SduLen /\ b \in 0 .. SduLen /\ c \in 0 .. SduLen
      /\ m \in 0 .. SduLen /\ b = a - v
  BY <1>1, <1>2, <1>3, <1>4, <1>5 DEF v, a, b, c, m
<1>8. /\ Counted(m + v) + b + c <= SduLen
      /\ (m + a + c \in {0, SduLen} => Counted(m + v) + b + c \in {0, SduLen})
      /\ Counted(m + v) \in 0 .. SduLen
  BY <1>1, <1>6, <1>7, SMT DEF Counted
<1>9. QED
  BY <1>6, <1>8 DEF v, m

\* The window's variables while a handler runs.
WinOK ==
    /\ txNextAck \in Sn /\ txNext \in Sn /\ segOff \in Unit

\* rlcRemRetxPdu, in its effect on each part.
LEMMA RemRetxPduFields ==
    ASSUME NEW st \in BufType, NEW i \in DOMAIN st.retx, NEW s2, s2 = RemRetxPdu(st, i)
    PROVE  /\ s2 \in BufType
           /\ s2.txBuf = st.txBuf /\ s2.retx = RemoveAt(st.retx, i) /\ s2.rcvd = st.rcvd
           /\ s2.max = st.max /\ s2.undef = st.undef /\ s2.err = st.err
           /\ s2.node = st.node /\ s2.lnk = st.lnk /\ s2.from = st.from
<1>1. RemoveAt(st.retx, i) \in Seq(RetxType)
  BY BufFields, RetxEntries, RemoveAtList
<1>2. Size(st.retx[i]) \in Int
  BY RetxEntries, UnitFacts, SMT DEF Size
<1> DEFINE a == RemoveAt(st.retx, i)
           b == IF Len(st.retx) = 1 THEN NoRetx ELSE st.nxt
           c == IF st.retx[i].pendingReTrans THEN st.retxBo - Size(st.retx[i]) ELSE st.retxBo
<1>3. s2 = [st EXCEPT !.retx = a, !.nxt = b, !.retxBo = c]
  BY DEF RemRetxPdu
<1>4. b \in PtrType /\ c \in Int
  BY <1>2, BufFields, SMT DEF PtrType
<1> HIDE DEF a, b, c
<1>5. a \in Seq(RetxType)
  BY <1>1 DEF a
<1>6. s2 \in BufType
  BY <1>3, <1>4, <1>5, Zenon DEF BufType
<1>7. /\ s2.txBuf = st.txBuf /\ s2.retx = a /\ s2.rcvd = st.rcvd
      /\ s2.max = st.max /\ s2.undef = st.undef /\ s2.err = st.err
  BY <1>3, Zenon DEF BufType
<1>8. s2.node = st.node /\ s2.lnk = st.lnk /\ s2.from = st.from
  BY <1>3, Zenon DEF BufType
<1>9. QED
  BY <1>6, <1>7, <1>8 DEF a

\* rlcAmmDlProcessSuccessfulReTx of an entry with no unit of M.
LEMMA ReleaseGood ==
    ASSUME WinOK, NEW P, NEW M, NEW st, Good(P, M, st),
           st.node \in DOMAIN st.retx,
           Span(st.retx[st.node]) \intersect M[st.retx[st.node].sn] = {},
           NEW s2, s2 = SuccessfulReTx(st)
    PROVE  /\ Good(P, M, s2)
           /\ s2.txBuf = st.txBuf /\ s2.retx = RemoveAt(st.retx, st.node)
           /\ s2.max = st.max /\ s2.undef = st.undef /\ s2.err = st.err
           /\ s2.node = st.node /\ s2.lnk = st.lnk /\ s2.from = st.from
<1> DEFINE i == st.node
           r == st.retx[i]
           d == Delivered(st, r.sn, Size(r))
           n == Counted(st.rcvd[r.sn] + Size(r))
<1>1. st \in BufType /\ i \in DOMAIN st.retx
  BY DEF Good
<1>2. r.sn \in Sn /\ r.so \in Unit /\ r.end \in Unit /\ r.so <= r.end
  BY <1>1, RetxEntries DEF Good, RetxOrder
<1>3. Cardinality(Span(r)) = Size(r) /\ Span(r) \subseteq UnitsAt(st, r.sn)
  <2>1. Span(r) \subseteq RetxUnits(st, r.sn)
    BY <1>1, <1>2, SpanFacts DEF RetxUnits
  <2>2. QED
    BY <1>2, <2>1, SpanFacts DEF UnitsAt
<1>4. d = [st EXCEPT !.rcvd[r.sn] = n]
  BY DEF Delivered
<1> HIDE DEF d, n, r, i
<1>5. /\ Total(st, r.sn) <= SduLen /\ (st.max \/ Total(st, r.sn) \in {0, SduLen})
  BY <1>2 DEF Good, Counts
<1>6. n \in 0 .. SduLen
  <2> DEFINE q == [rcvd |-> [st.rcvd EXCEPT ![r.sn] = n], max |-> st.max,
                   m |-> UnitsAt(st, r.sn) \ Span(r)]
  <2>1. st.rcvd[r.sn] \in 0 .. SduLen /\ SduLen \in Nat \ {0}
    BY <1>1, <1>2, BufFields, UnitFacts
  <2>2. Cardinality(Span(r)) \in 0 .. SduLen /\ Cardinality(Span(r)) <= Cardinality(UnitsAt(st, r.sn))
    BY <1>3, UnitsAtFacts, UnitSets, FS_Subset
  <2>3. Cardinality(UnitsAt(st, r.sn)) \in 0 .. SduLen /\ Cardinality(UnsentUnits(r.sn)) \in 0 .. SduLen
    BY UnitsAtFacts, UnsentFacts DEF WinOK
  <2>4. QED
    BY <1>3, <1>5, <2>1, <2>2, <2>3, SMT DEF Counted, n, Total
<1>7. /\ d \in BufType /\ d.txBuf = st.txBuf /\ d.retx = st.retx /\ d.max = st.max
      /\ d.undef = st.undef /\ d.err = st.err /\ d.node = st.node /\ d.lnk = st.lnk
      /\ d.from = st.from /\ d.rcvd = [st.rcvd EXCEPT ![r.sn] = n]
  <2> DEFINE g == [st.rcvd EXCEPT ![r.sn] = n]
  <2>1. g \in [Sn -> 0 .. SduLen]
    BY <1>1, <1>2, <1>6, BufFields
  <2>2. d = [st EXCEPT !.rcvd = g]
    BY <1>1, <1>4
  <2> HIDE DEF g
  <2>3. d \in BufType
    BY <1>1, <2>1, <2>2, Zenon DEF BufType
  <2>4. /\ d.txBuf = st.txBuf /\ d.retx = st.retx /\ d.max = st.max
        /\ d.undef = st.undef /\ d.err = st.err /\ d.node = st.node /\ d.lnk = st.lnk
        /\ d.from = st.from /\ d.rcvd = g
    BY <1>1, <2>2, Zenon DEF BufType
  <2>5. QED
    BY <2>3, <2>4 DEF g
<1>8. s2 = RemRetxPdu(d, i)
  BY DEF SuccessfulReTx, d, r, i
<1>9. /\ s2 \in BufType
      /\ s2.txBuf = st.txBuf /\ s2.retx = RemoveAt(st.retx, i)
      /\ s2.rcvd = [st.rcvd EXCEPT ![r.sn] = n]
      /\ s2.max = st.max /\ s2.undef = st.undef /\ s2.err = st.err
      /\ s2.node = st.node /\ s2.lnk = st.lnk /\ s2.from = st.from
  BY <1>1, <1>7, <1>8, RemRetxPduFields
<1>10. /\ RetxOrder(s2) /\ TxOrder(s2) /\ RetxBelowTx(s2) /\ InWin(s2)
       /\ Pieces(s2) \subseteq Pieces(st)
       /\ UnitsAt(s2, r.sn) = UnitsAt(st, r.sn) \ Span(r)
       /\ \A sn \in Sn : sn # r.sn => UnitsAt(s2, sn) = UnitsAt(st, sn)
  BY <1>1, <1>9, RetxRemoved, SMTT(30) DEF Good, WinOK, r
<1>11. Counts(s2)
  <2>1. ASSUME NEW sn \in Sn
        PROVE  Total(s2, sn) <= SduLen /\ (s2.max \/ Total(s2, sn) \in {0, SduLen})
    <3>1. CASE sn = r.sn
      <4>1. s2.rcvd[sn] = Counted(st.rcvd[sn] + Cardinality(Span(r)))
        BY <1>1, <1>2, <1>3, <1>9, <3>1, BufFields DEF n
      <4>2. QED
        BY <1>1, <1>3, <1>5, <1>9, <1>10, <3>1, <4>1, CountedOnce, Zenon DEF WinOK
    <3>2. CASE sn # r.sn
      <4>1. s2.rcvd[sn] = st.rcvd[sn]
        BY <1>1, <1>9, <3>2, BufFields
      <4>2. Total(s2, sn) = Total(st, sn)
        BY <1>10, <3>2, <4>1 DEF Total
      <4>3. QED
        BY <1>9, <4>2 DEF Good, Counts
    <3>3. QED
      BY <3>1, <3>2
  <2>2. QED
    BY <2>1 DEF Counts
<1>12. Keeps(M, s2)
  <2>1. SUFFICES ASSUME ~s2.max, NEW sn \in Sn
                 PROVE  M[sn] \subseteq UnitsAt(s2, sn)
    BY DEF Keeps
  <2>2. M[sn] \subseteq UnitsAt(st, sn)
    BY <1>9, <2>1 DEF Good, Keeps
  <2>3. sn = r.sn => Span(r) \intersect M[sn] = {}
    BY DEF r, i
  <2>4. QED
    BY <1>10, <2>2, <2>3
<1>13. Good(P, M, s2)
  BY <1>9, <1>10, <1>11, <1>12 DEF Good
<1>14. QED
  BY <1>9, <1>13 DEF i

-----------------------------------------------------------------------------
(* rlcAmmDlMarkPduForReTx.                                                 *)

\* Two lists with the same pieces in the same places.
SameShape(l1, l2) ==
    /\ DOMAIN l1 = DOMAIN l2
    /\ \A j \in DOMAIN l1 : l2[j].sn = l1[j].sn /\ l2[j].so = l1[j].so /\ l2[j].end = l1[j].end

\* The marks of the entries make no difference to what is held.
LEMMA SameShapeGood ==
    ASSUME WinOK, NEW P, NEW M, NEW st, Good(P, M, st),
           NEW s2 \in BufType, SameShape(st.retx, s2.retx),
           s2.txBuf = st.txBuf, s2.rcvd = st.rcvd, s2.max = st.max
    PROVE  Good(P, M, s2)
<1>1. RetxOrder(s2)
  BY DEF Good, RetxOrder, SameShape, Before
<1>2. TxOrder(s2)
  BY DEF Good, TxOrder
<1>3. RetxBelowTx(s2)
  BY DEF Good, RetxBelowTx, SameShape
<1>4. InWin(s2)
  BY DEF Good, InWin, SameShape
<1>5. Pieces(s2) = Pieces(st)
  BY DEF Pieces, SameShape
<1>6. \A sn \in Sn : UnitsAt(s2, sn) = UnitsAt(st, sn)
  BY DEF UnitsAt, TxUnits, RetxUnits, SameShape, Span
<1>7. Counts(s2)
  BY <1>6 DEF Good, Counts, Total
<1>8. Keeps(M, s2)
  BY <1>6 DEF Good, Keeps
<1>9. QED
  BY <1>1, <1>2, <1>3, <1>4, <1>5, <1>7, <1>8 DEF Good

\* An entry that is given up takes its units along; nothing is promised then.
LEMMA DropGood ==
    ASSUME WinOK, NEW P, NEW M, NEW st, Good(P, M, st), NEW i \in DOMAIN st.retx,
           NEW s2 \in BufType, s2.retx = RemoveAt(st.retx, i),
           s2.txBuf = st.txBuf, s2.rcvd = st.rcvd, s2.max
    PROVE  Good(P, M, s2)
<1>1. /\ RetxOrder(s2) /\ TxOrder(s2) /\ RetxBelowTx(s2) /\ InWin(s2)
      /\ Pieces(s2) \subseteq Pieces(st)
      /\ UnitsAt(s2, st.retx[i].sn) = UnitsAt(st, st.retx[i].sn) \ Span(st.retx[i])
      /\ \A sn \in Sn : sn # st.retx[i].sn => UnitsAt(s2, sn) = UnitsAt(st, sn)
  BY RetxRemoved DEF Good, WinOK
<1>2. ASSUME NEW sn \in Sn
      PROVE  Total(s2, sn) <= SduLen
  <2>1. UnitsAt(s2, sn) \subseteq UnitsAt(st, sn)
    BY <1>1
  <2>2. /\ Cardinality(UnitsAt(s2, sn)) <= Cardinality(UnitsAt(st, sn))
        /\ Cardinality(UnitsAt(s2, sn)) \in Nat /\ Cardinality(UnitsAt(st, sn)) \in Nat
        /\ Cardinality(UnsentUnits(sn)) \in Nat
    BY <2>1, UnitsAtFacts, UnsentFacts, FS_Subset, UnitFacts, SMT DEF WinOK
  <2>3. st.rcvd[sn] \in Nat /\ SduLen \in Nat
    BY BufFields, UnitFacts, SMT DEF Good
  <2>4. Total(st, sn) <= SduLen
    BY DEF Good, Counts
  <2>5. QED
    BY <2>2, <2>3, <2>4, SMT DEF Total
<1>3. Counts(s2) /\ Keeps(M, s2)
  BY <1>2 DEF Counts, Keeps
<1>4. QED
  BY <1>1, <1>3 DEF Good

\* The entry at i with its mark set and counted once more.
Marked(r) == [r EXCEPT !.pendingReTrans = TRUE, !.retxCnt = @ + 1]

\* A marked entry is the same piece, counted once more.
LEMMA MarkedFacts ==
    ASSUME NEW r \in RetxType
    PROVE  /\ Marked(r).sn = r.sn /\ Marked(r).so = r.so /\ Marked(r).end = r.end
           /\ Marked(r).pendingReTrans /\ Marked(r).retxCnt = r.retxCnt + 1
           /\ ~TooManyRetx(Marked(r).retxCnt) => Marked(r) \in RetxType
           /\ Ptr(Marked(r)) = Ptr(r) /\ Ptr(r) \in PtrType /\ Ptr(r) # NoRetx
           /\ Size(Marked(r)) = Size(r) /\ Size(r) \in Int
<1>1. /\ r.sn \in Sn /\ r.so \in Unit /\ r.end \in Unit /\ r.retxCnt \in 1 .. MaxRetx
  BY DEF RetxType
<1>2. /\ Marked(r).sn = r.sn /\ Marked(r).so = r.so /\ Marked(r).end = r.end
      /\ Marked(r).pendingReTrans /\ Marked(r).retxCnt = r.retxCnt + 1
  BY SMT DEF RetxType, Marked
<1>3. ASSUME ~TooManyRetx(Marked(r).retxCnt)
      PROVE  Marked(r) \in RetxType
  <2>1. r.retxCnt + 1 \in 1 .. MaxRetx
    BY <1>1, <1>2, <1>3, MaxRetxAssumption, SMT DEF TooManyRetx
  <2> DEFINE c == r.retxCnt + 1
  <2>2. Marked(r) = [r EXCEPT !.pendingReTrans = TRUE, !.retxCnt = c]
    BY DEF Marked
  <2> HIDE DEF c
  <2>3. c \in 1 .. MaxRetx
    BY <2>1 DEF c
  <2>4. QED
    BY <2>2, <2>3, Zenon DEF RetxType
<1>4. Ptr(Marked(r)) = Ptr(r) /\ Ptr(r) \in Sn \X Unit
  BY <1>1, <1>2 DEF Ptr
<1>5. Ptr(r) # NoRetx
  BY SMT DEF Ptr, NoRetx
<1>6. Size(Marked(r)) = Size(r) /\ Size(r) \in Int
  BY <1>1, <1>2, UnitFacts, SMT DEF Size
<1>7. QED
  BY <1>2, <1>3, <1>4, <1>5, <1>6 DEF PtrType

\* rlcAmmDlMarkPduForReTx: the entry at node awaits retransmission and node
\* moves on; or the entry is given up.
MarkedAt(st, s2) ==
    /\ s2.max = st.max /\ s2.node = st.node + 1
    /\ SameShape(st.retx, s2.retx) /\ Len(s2.retx) = Len(st.retx)
    /\ \A j \in DOMAIN st.retx : j # st.node => s2.retx[j] = st.retx[j]
    /\ ~st.max => s2.retx[st.node].pendingReTrans
    /\ s2.nxt = st.nxt \/ (st.nxt = NoRetx /\ s2.nxt = Ptr(s2.retx[st.node]))
    /\ ~st.max /\ s2.nxt = NoRetx => st.retx[st.node].pendingReTrans

GivenUpAt(st, s2) ==
    s2.max /\ s2.node = st.node /\ s2.retx = RemoveAt(st.retx, st.node)

\* rlcAmmDlMarkPduForReTx keeps the lists in order and every unit where it was,
\* or has given the entry up.
LEMMA MarkGood ==
    ASSUME WinOK, NEW P, NEW M, NEW st, Good(P, M, st), st.node \in DOMAIN st.retx,
           NEW s2, s2 = MarkPduForReTx(st)
    PROVE  /\ Good(P, M, s2)
           /\ s2.txBuf = st.txBuf /\ s2.undef = st.undef /\ s2.err = st.err
           /\ s2.lnk = st.lnk /\ s2.from = st.from /\ s2.rcvd = st.rcvd
           /\ MarkedAt(st, s2) \/ GivenUpAt(st, s2)
<1> DEFINE i == st.node
           e == st.retx[i]
           r == Marked(e)
<1>1. /\ st \in BufType /\ i \in DOMAIN st.retx /\ e \in RetxType
      /\ DOMAIN st.retx = 1 .. Len(st.retx) /\ st.retx \in Seq(RetxType)
      /\ i \in Nat \ {0}
  BY RetxEntries, BufFields DEF Good
<1>2. /\ r.sn = e.sn /\ r.so = e.so /\ r.end = e.end
      /\ r.pendingReTrans /\ (~TooManyRetx(r.retxCnt) => r \in RetxType)
      /\ Ptr(r) \in PtrType /\ Ptr(r) # NoRetx /\ Size(r) \in Int
  BY <1>1, MarkedFacts
<1> DEFINE lst == [st.retx EXCEPT ![i] = r]
<1>3. CASE st.max \/ e.pendingReTrans
  <2>1. s2 = [st EXCEPT !.node = i + 1]
    BY <1>3 DEF MarkPduForReTx
  <2>2. i + 1 \in Nat \ {0}
    BY <1>1, SMT
  <2>3. s2 \in BufType
    BY <1>1, <2>1, <2>2, Zenon DEF BufType
  <2>4. /\ s2.txBuf = st.txBuf /\ s2.undef = st.undef /\ s2.err = st.err
        /\ s2.lnk = st.lnk /\ s2.from = st.from /\ s2.rcvd = st.rcvd /\ s2.max = st.max
        /\ s2.retx = st.retx /\ s2.nxt = st.nxt /\ s2.node = i + 1
    BY <1>1, <2>1, Zenon DEF BufType
  <2>5. SameShape(st.retx, s2.retx)
    BY <2>4 DEF SameShape
  <2>6. Good(P, M, s2)
    BY <2>3, <2>4, <2>5, SameShapeGood
  <2>7. MarkedAt(st, s2)
    BY <1>3, <2>4, <2>5 DEF MarkedAt
  <2>8. QED
    BY <2>4, <2>6, <2>7
<1>4. CASE ~(st.max \/ e.pendingReTrans) /\ TooManyRetx(r.retxCnt)
  <2> DEFINE d == [st EXCEPT !.max = TRUE, !.bo = 0, !.retxBo = 0, !.retx[i] = r]
  <2>1. s2 = RemRetxPdu(d, i)
    BY <1>4 DEF MarkPduForReTx, Marked
  <2>2. d = [st EXCEPT !.max = TRUE, !.bo = 0, !.retxBo = 0, !.retx = lst]
    OBVIOUS
  <2> DEFINE a == RemoveAt(lst, i)
             b == IF Len(lst) = 1 THEN NoRetx ELSE st.nxt
             c == IF lst[i].pendingReTrans THEN 0 - Size(lst[i]) ELSE 0
  <2>3. s2 = [st EXCEPT !.max = TRUE, !.bo = 0, !.retxBo = c, !.retx = a, !.nxt = b]
    <3>1. /\ d.retx = lst /\ d.nxt = st.nxt /\ d.retxBo = 0
      BY <1>1, <2>2, Zenon DEF BufType
    <3>2. s2 = [d EXCEPT !.retx = a, !.nxt = b, !.retxBo = c]
      BY <2>1, <3>1 DEF RemRetxPdu
    <3> HIDE DEF a, b, c, lst
    <3>3. QED
      BY <1>1, <2>2, <3>2, Zenon DEF BufType
  <2>4. a = RemoveAt(st.retx, i)
    <3>1. /\ SubSeq(lst, 1, i - 1) = SubSeq(st.retx, 1, i - 1)
          /\ SubSeq(lst, i + 1, Len(lst)) = SubSeq(st.retx, i + 1, Len(st.retx))
      <4>1. Len(lst) = Len(st.retx) /\ Len(st.retx) \in Nat
        BY <1>1, LenProperties
      <4>2. \A j \in 1 .. i - 1 : lst[j] = st.retx[j] /\ st.retx[j] \in RetxType
        BY <1>1, <4>1, ElementOfSeq, SMT
      <4>3. \A j \in i + 1 .. Len(st.retx) : st.retx[j] = lst[j] /\ lst[j] \in RetxType
        BY <1>1, <4>1, ElementOfSeq, SMT
      <4> HIDE DEF lst
      <4>4. /\ SubSeq(lst, 1, i - 1) = SubSeq(st.retx, 1, i - 1)
        BY <1>1, <4>2, SubSeqSame
      <4>5. SubSeq(lst, i + 1, Len(lst)) = SubSeq(st.retx, i + 1, Len(st.retx))
        <5>1. SubSeq(lst, i + 1, Len(st.retx)) = SubSeq(st.retx, i + 1, Len(st.retx))
          <6> DEFINE m == i + 1
                     n == Len(st.retx)
                     q == st.retx
          <6>1. m \in Int /\ n \in Int
            BY <1>1, <4>1, SMT
          <6>2. \A j \in m .. n : lst[j] \in RetxType /\ q[j] = lst[j]
            BY <4>3
          <6> HIDE DEF m, n, q
          <6>3. SubSeq(lst, m, n) = SubSeq(q, m, n)
            BY <6>1, <6>2, SubSeqSame
          <6>4. QED
            BY <6>3 DEF m, n, q
        <5>2. QED
          BY <4>1, <5>1
      <4>6. QED
        BY <4>4, <4>5, Zenon
    <3>2. QED
      BY <3>1, Zenon DEF RemoveAt
  <2>5. a \in Seq(RetxType)
    BY <1>1, <2>4, RemoveAtList
  <2>6. lst[i] = r
    BY <1>1
  <2>7. b \in PtrType /\ c \in Int
    BY <1>1, <1>2, <2>6, BufFields, SMT DEF PtrType
  <2> HIDE DEF a, b, c, lst, d
  <2>8. s2 \in BufType
    <3>1. 0 \in Int
      OBVIOUS
    <3>2. QED
      BY <1>1, <2>3, <2>5, <2>7, <3>1, ZenonT(30) DEF BufType
  <2>9. /\ s2.txBuf = st.txBuf /\ s2.undef = st.undef /\ s2.err = st.err
        /\ s2.lnk = st.lnk /\ s2.from = st.from /\ s2.rcvd = st.rcvd /\ s2.max
        /\ s2.retx = a /\ s2.node = i
    BY <1>1, <2>3, Zenon DEF BufType
  <2>10. Good(P, M, s2)
    BY <1>1, <2>4, <2>8, <2>9, DropGood
  <2>11. QED
    BY <2>4, <2>9, <2>10 DEF GivenUpAt
<1>5. CASE ~(st.max \/ e.pendingReTrans) /\ ~TooManyRetx(r.retxCnt)
  <2> DEFINE b == IF st.nxt = NoRetx THEN Ptr(r) ELSE st.nxt
             c == st.retxBo + Size(r)
  <2>1. s2 = [st EXCEPT !.retx = lst, !.retxBo = c, !.nxt = b, !.node = i + 1]
    BY <1>5 DEF MarkPduForReTx, Marked
  <2>2. i + 1 \in Nat \ {0}
    BY <1>1, SMT
  <2>3. /\ lst \in Seq(RetxType) /\ Len(lst) = Len(st.retx)
        /\ \A j \in 1 .. Len(st.retx) : lst[j] = IF j = i THEN r ELSE st.retx[j]
    BY <1>1, <1>2, <1>5, ExceptSeq
  <2>4. b \in PtrType /\ c \in Int
    BY <1>1, <1>2, BufFields, SMT
  <2>5. DOMAIN lst = DOMAIN st.retx
    OBVIOUS
  <2> HIDE DEF lst
  <2>6. /\ b = st.nxt \/ (st.nxt = NoRetx /\ b = Ptr(r))
        /\ b # NoRetx
    BY <1>2
  <2> HIDE DEF b, c
  <2>7. s2 \in BufType
    BY <1>1, <2>1, <2>2, <2>3, <2>4, ZenonT(30) DEF BufType
  <2>8. /\ s2.txBuf = st.txBuf /\ s2.undef = st.undef /\ s2.err = st.err
        /\ s2.lnk = st.lnk /\ s2.from = st.from /\ s2.rcvd = st.rcvd /\ s2.max = st.max
        /\ s2.retx = lst /\ s2.nxt = b /\ s2.node = i + 1
    BY <1>1, <2>1, Zenon DEF BufType
  <2>9. SameShape(st.retx, s2.retx)
    BY <1>1, <1>2, <2>3, <2>5, <2>8 DEF SameShape
  <2>10. Good(P, M, s2)
    BY <2>7, <2>8, <2>9, SameShapeGood
  <2>11. MarkedAt(st, s2)
    BY <1>1, <1>2, <2>3, <2>6, <2>8, <2>9 DEF MarkedAt
  <2>12. QED
    BY <2>8, <2>10, <2>11
<1>6. QED
  BY <1>3, <1>4, <1>5

-----------------------------------------------------------------------------
(* rlcAmmDlMoveSduByteSegFrmTxtoRetxBuffer.                                *)

\* The place of a new entry: behind everything with an SN up to its own.
LEMMA InsertAfterPlace ==
    ASSUME WinOK, NEW st \in BufType, RetxOrder(st), NEW r, r.sn \in Sn,
           NEW k, k = InsertAfter(st.retx, r)
    PROVE  /\ k \in 0 .. Len(st.retx)
           /\ \A j \in DOMAIN st.retx : j <= k <=> Dist(st.retx[j].sn) <= Dist(r.sn)
<1> DEFINE I == {j \in 1 .. Len(st.retx) : Dist(st.retx[j].sn) <= Dist(r.sn)}
<1>1. k = IF I # {} THEN Max(I) ELSE 0
  BY DEF InsertAfter, SelectLastInSeq
<1>2. /\ Len(st.retx) \in Nat /\ DOMAIN st.retx = 1 .. Len(st.retx)
      /\ \A j \in DOMAIN st.retx : Dist(st.retx[j].sn) \in Nat
      /\ Dist(r.sn) \in Nat
  BY RetxEntries, DistNat DEF WinOK
<1>3. CASE I = {}
  <2>1. k = 0
    BY <1>1, <1>3
  <2>2. QED
    BY <1>2, <1>3, <2>1, SMT
<1>4. CASE I # {}
  <2>1. I \in SUBSET Nat /\ \A y \in I : y <= Len(st.retx)
    BY <1>2, SMT
  <2>2. k \in I /\ \A y \in I : y <= k
    BY <1>1, <1>2, <1>4, <2>1, MaxOfBounded, Zenon
  <2>3. ASSUME NEW j \in DOMAIN st.retx, j < k
        PROVE  Dist(st.retx[j].sn) <= Dist(r.sn)
    <3>1. Before(st.retx[j], st.retx[k])
      BY <1>2, <2>2, <2>3 DEF RetxOrder
    <3>2. Dist(st.retx[j].sn) <= Dist(st.retx[k].sn)
      BY <1>2, <2>2, <3>1, SMT DEF Before
    <3>3. QED
      BY <1>2, <2>2, <3>2, SMT
  <2>4. k \in 0 .. Len(st.retx)
    BY <1>2, <2>2, SMT
  <2>5. ASSUME NEW j \in DOMAIN st.retx
        PROVE  j <= k <=> Dist(st.retx[j].sn) <= Dist(r.sn)
    BY <1>2, <2>2, <2>3, SMT
  <2>6. QED
    BY <2>4, <2>5
<1>5. QED
  BY <1>3, <1>4

\* l2 is l1 with r after the entry at k.
InsertedAt(l1, l2, k, r) ==
    /\ DOMAIN l2 = 1 .. Len(l1) + 1
    /\ \A j \in DOMAIN l1 : (j <= k => l2[j] = l1[j]) /\ (j > k => l2[j + 1] = l1[j])
    /\ l2[k + 1] = r
    /\ \A j \in DOMAIN l2 : /\ j <= k => j \in DOMAIN l1
                            /\ j > k + 1 => j - 1 \in DOMAIN l1 /\ l2[j] = l1[j - 1]

\* rlcAmmDlMoveSduByteSegFrmTxtoRetxBuffer of the first PDU of an SN, in its
\* effect on each part.
LEMMA MoveFields ==
    ASSUME WinOK, NEW P, NEW M, NEW st, Good(P, M, st), NEW sn \in Sn, st.txBuf[sn] # <<>>,
           NEW s2, s2 = MoveSeg(st, sn, 1)
    PROVE  /\ s2 \in BufType
           /\ s2.txBuf = [st.txBuf EXCEPT ![sn] = RemoveAt(st.txBuf[sn], 1)]
           /\ s2.rcvd = st.rcvd /\ s2.max = st.max /\ s2.undef = st.undef /\ s2.err = st.err
           /\ s2.lnk = st.lnk /\ s2.from = st.from
           /\ \E k \in 0 .. Len(st.retx), r \in RetxType :
                  /\ r = Retx(sn, st.txBuf[sn][1])
                  /\ s2.node = k + 2
                  /\ s2.nxt = IF st.nxt = NoRetx THEN Ptr(r) ELSE st.nxt
                  /\ InsertedAt(st.retx, s2.retx, k, r)
                  /\ \A j \in DOMAIN st.retx : j <= k <=> Dist(st.retx[j].sn) <= Dist(sn)
<1> DEFINE seg == st.txBuf[sn][1]
           r == Retx(sn, seg)
           k == InsertAfter(st.retx, r)
           a == InsertAt(st.retx, k + 1, r)
           b == IF st.nxt = NoRetx THEN Ptr(r) ELSE st.nxt
           c == st.retxBo + Size(r)
           t == RemoveAt(st.txBuf[sn], 1)
           tx == [st.txBuf EXCEPT ![sn] = t]
<1>1. /\ st \in BufType /\ st.retx \in Seq(RetxType) /\ Len(st.retx) \in Nat
      /\ DOMAIN st.retx = 1 .. Len(st.retx)
  BY BufFields, RetxEntries DEF Good
<1>2. 1 \in DOMAIN st.txBuf[sn] /\ seg \in SegType /\ t \in Seq(SegType)
  <2>1. st.txBuf[sn] \in Seq(SegType) /\ DOMAIN st.txBuf[sn] = 1 .. Len(st.txBuf[sn])
    BY <1>1, TxEntries
  <2>2. Len(st.txBuf[sn]) \in Nat \ {0}
    BY <2>1, EmptySeq
  <2>3. 1 \in 1 .. Len(st.txBuf[sn])
    BY <2>2, SMT
  <2>4. QED
    BY <1>1, <2>1, <2>3, TxEntries, RemoveAtList
<1>3. r \in RetxType /\ r.sn = sn
  BY <1>2, MaxRetxAssumption, SMT DEF Retx, RetxType, SegType
<1>4. /\ k \in 0 .. Len(st.retx)
      /\ \A j \in DOMAIN st.retx : j <= k <=> Dist(st.retx[j].sn) <= Dist(sn)
  BY <1>1, <1>3, InsertAfterPlace DEF Good
<1>5. s2 = [st EXCEPT !.retx = a, !.retxBo = c, !.nxt = b, !.node = k + 2, !.txBuf = tx]
  <2>1. DOMAIN st.txBuf = Sn
    BY <1>1, BufFields
  <2> DEFINE d == AddPduToRetxLst(st, r)
  <2>2. d = [st EXCEPT !.retx = a, !.retxBo = c, !.nxt = b, !.node = k + 2]
    BY DEF AddPduToRetxLst
  <2>3. s2 = [d EXCEPT !.txBuf[sn] = RemoveAt(d.txBuf[sn], 1)]
    BY DEF MoveSeg
  <2> HIDE DEF d, a, b, c, k
  <2>4. d.txBuf = st.txBuf
    BY <1>1, <2>2, Zenon DEF BufType
  <2>5. s2 = [d EXCEPT !.txBuf = tx]
    BY <2>3, <2>4
  <2> HIDE DEF tx
  <2>6. QED
    BY <1>1, <2>2, <2>5, Zenon DEF BufType
<1>6. /\ a \in Seq(RetxType) /\ Len(a) = Len(st.retx) + 1
      /\ DOMAIN a = 1 .. Len(st.retx) + 1
      /\ \A j \in 1 .. Len(st.retx) + 1 :
             a[j] = IF j < k + 1 THEN st.retx[j] ELSE IF j = k + 1 THEN r ELSE st.retx[j - 1]
  <2> DEFINE m == k + 1
             q == st.retx
  <2>1. m \in 1 .. Len(q) + 1
    BY <1>1, <1>4, SMT
  <2>2. q \in Seq(RetxType) /\ r \in RetxType
    BY <1>1, <1>3
  <2>3. a = InsertAt(q, m, r)
    OBVIOUS
  <2> HIDE DEF m, q, a, r, k
  <2>4. /\ a \in Seq(RetxType) /\ Len(a) = Len(q) + 1
        /\ DOMAIN a = 1 .. Len(q) + 1
        /\ \A j \in 1 .. Len(q) + 1 :
               a[j] = IF j < m THEN q[j] ELSE IF j = m THEN r ELSE q[j - 1]
    <3> DEFINE g == InsertAt(q, m, r)
    <3>1. /\ g \in Seq(RetxType) /\ Len(g) = Len(q) + 1
          /\ DOMAIN g = 1 .. Len(q) + 1
          /\ \A j \in 1 .. Len(q) + 1 :
                 g[j] = IF j < m THEN q[j] ELSE IF j = m THEN r ELSE q[j - 1]
      BY <2>1, <2>2, InsertAtList
    <3>2. QED
      BY <2>3, <3>1
  <2>5. QED
    BY <2>4 DEF m, q
<1>7. c \in Int
  BY <1>1, <1>3, BufFields, MarkedFacts, SMT
<1>8. b \in PtrType
  BY <1>1, <1>3, BufFields, MarkedFacts
<1>9. tx \in [Sn -> Seq(SegType)]
  BY <1>1, <1>2, BufFields
<1>10. k + 2 \in Nat \ {0}
  BY <1>4, SMT
<1> HIDE DEF a, b, c, tx, t, k, r
<1>11. s2 \in BufType
  BY <1>1, <1>5, <1>6, <1>7, <1>8, <1>9, <1>10, ZenonT(30) DEF BufType
<1>12. /\ s2.rcvd = st.rcvd /\ s2.max = st.max /\ s2.undef = st.undef /\ s2.err = st.err
       /\ s2.lnk = st.lnk /\ s2.from = st.from /\ s2.txBuf = tx
       /\ s2.retx = a /\ s2.nxt = b /\ s2.node = k + 2
  BY <1>1, <1>5, Zenon DEF BufType
<1>13. InsertedAt(st.retx, a, k, r)
  <2>1. k \in Nat /\ k <= Len(st.retx)
    BY <1>1, <1>4, SMT
  <2>2. ASSUME NEW j \in DOMAIN st.retx
        PROVE  (j <= k => a[j] = st.retx[j]) /\ (j > k => a[j + 1] = st.retx[j])
    <3>1. j \in 1 .. Len(st.retx) + 1 /\ j + 1 \in 1 .. Len(st.retx) + 1
      BY <1>1, SMT
    <3>2. j <= k => a[j] = st.retx[j]
      BY <1>1, <1>6, <2>1, <3>1, SMT
    <3>3. j > k => a[j + 1] = st.retx[(j + 1) - 1] /\ (j + 1) - 1 = j
      BY <1>1, <1>6, <2>1, <3>1, SMT
    <3>4. QED
      BY <3>2, <3>3
  <2>3. a[k + 1] = r
    BY <1>1, <1>6, <2>1, SMT
  <2>4. ASSUME NEW j \in DOMAIN a
        PROVE  /\ j <= k => j \in DOMAIN st.retx
               /\ j > k + 1 => j - 1 \in DOMAIN st.retx /\ a[j] = st.retx[j - 1]
    BY <1>1, <1>6, <2>1, SMT
  <2>5. QED
    BY <1>6, <2>2, <2>3, <2>4 DEF InsertedAt
<1>14. s2.nxt = IF st.nxt = NoRetx THEN Ptr(r) ELSE st.nxt
  BY <1>12 DEF b
<1>15. r = Retx(sn, st.txBuf[sn][1])
  BY DEF r
<1>16. QED
  BY <1>3, <1>4, <1>11, <1>12, <1>13, <1>14, <1>15 DEF tx, t

\* s2 has lost the first PDU of sn's list in txBuf.
HeadGone(st, s2, sn) == s2.txBuf = [st.txBuf EXCEPT ![sn] = RemoveAt(st.txBuf[sn], 1)]

\* Where the PDUs of txBuf are then.
LEMMA HeadGoneIndex ==
    ASSUME NEW st \in BufType, NEW sn \in Sn, st.txBuf[sn] # <<>>, NEW s2, HeadGone(st, s2, sn)
    PROVE  /\ 1 \in DOMAIN st.txBuf[sn]
           /\ s2.txBuf[sn] \in Seq(SegType) /\ Len(s2.txBuf[sn]) = Len(st.txBuf[sn]) - 1
           /\ DOMAIN s2.txBuf[sn] = 1 .. Len(st.txBuf[sn]) - 1
           /\ \A k \in DOMAIN s2.txBuf[sn] :
                  k + 1 \in DOMAIN st.txBuf[sn] /\ s2.txBuf[sn][k] = st.txBuf[sn][k + 1] /\ k + 1 > 1
           /\ \A k \in DOMAIN st.txBuf[sn] :
                  k # 1 => k > 1 /\ k - 1 \in DOMAIN s2.txBuf[sn] /\ s2.txBuf[sn][k - 1] = st.txBuf[sn][k]
           /\ \A t \in Sn : t # sn => s2.txBuf[t] = st.txBuf[t]
<1>1. /\ st.txBuf[sn] \in Seq(SegType) /\ DOMAIN st.txBuf[sn] = 1 .. Len(st.txBuf[sn])
      /\ DOMAIN st.txBuf = Sn
  BY BufFields, TxEntries
<1>2. Len(st.txBuf[sn]) \in Nat \ {0}
  BY <1>1, EmptySeq
<1>3. 1 \in 1 .. Len(st.txBuf[sn])
  BY <1>2, SMT
<1> DEFINE q == st.txBuf[sn]
           g == RemoveAt(q, 1)
<1>4. s2.txBuf[sn] = g /\ \A t \in Sn : t # sn => s2.txBuf[t] = st.txBuf[t]
  BY <1>1 DEF HeadGone
<1> HIDE DEF q
<1>5. /\ g \in Seq(SegType) /\ Len(g) = Len(q) - 1 /\ DOMAIN g = 1 .. Len(q) - 1
      /\ \A j \in 1 .. Len(q) - 1 : g[j] = IF j < 1 THEN q[j] ELSE q[j + 1]
  BY <1>1, <1>3, RemoveAtList, Zenon DEF q
<1> HIDE DEF g
<1>6. \A k \in DOMAIN g : k + 1 \in 1 .. Len(q) /\ g[k] = q[k + 1] /\ k + 1 > 1
  BY <1>2, <1>5, SMT DEF q
<1>7. \A k \in 1 .. Len(q) : k # 1 => k > 1 /\ k - 1 \in DOMAIN g /\ g[k - 1] = q[k]
  <2>1. ASSUME NEW k \in 1 .. Len(q), k # 1
        PROVE  k > 1 /\ k - 1 \in DOMAIN g /\ (k - 1) + 1 = k
    BY <1>2, <1>5, <2>1, SMT DEF q
  <2>2. QED
    BY <2>1, <1>6
<1>8. QED
  BY <1>1, <1>3, <1>4, <1>5, <1>6, <1>7 DEF q

\* What is lost are the units of that PDU.
LEMMA HeadGoneUnits ==
    ASSUME NEW st \in BufType, TxOrder(st), NEW sn \in Sn, st.txBuf[sn] # <<>>,
           NEW s2 \in BufType, HeadGone(st, s2, sn)
    PROVE  /\ TxOrder(s2)
           /\ Span(st.txBuf[sn][1]) \subseteq TxUnits(st, sn)
           /\ TxUnits(s2, sn) = TxUnits(st, sn) \ Span(st.txBuf[sn][1])
           /\ \A t \in Sn : t # sn => TxUnits(s2, t) = TxUnits(st, t)
<1> DEFINE seg == st.txBuf[sn][1]
<1>1. /\ 1 \in DOMAIN st.txBuf[sn]
      /\ \A k \in DOMAIN s2.txBuf[sn] :
             k + 1 \in DOMAIN st.txBuf[sn] /\ s2.txBuf[sn][k] = st.txBuf[sn][k + 1] /\ k + 1 > 1
      /\ \A k \in DOMAIN st.txBuf[sn] :
             k # 1 => k > 1 /\ k - 1 \in DOMAIN s2.txBuf[sn] /\ s2.txBuf[sn][k - 1] = st.txBuf[sn][k]
      /\ \A t \in Sn : t # sn => s2.txBuf[t] = st.txBuf[t]
  BY HeadGoneIndex
<1>2. TxOrder(s2)
  <2>1. ASSUME NEW t \in Sn, NEW k \in DOMAIN s2.txBuf[t]
        PROVE  /\ s2.txBuf[t][k].so <= s2.txBuf[t][k].end
               /\ \A m \in DOMAIN s2.txBuf[t] : k < m => s2.txBuf[t][k].end < s2.txBuf[t][m].so
    <3>1. CASE t # sn
      BY <1>1, <2>1, <3>1 DEF TxOrder
    <3>2. CASE t = sn
      <4>1. s2.txBuf[t][k].so <= s2.txBuf[t][k].end
        BY <1>1, <2>1, <3>2 DEF TxOrder
      <4>2. ASSUME NEW m \in DOMAIN s2.txBuf[t], k < m
            PROVE  s2.txBuf[t][k].end < s2.txBuf[t][m].so
        <5>1. k + 1 < m + 1
          BY <2>1, <3>2, <4>2, TxEntries, SMT
        <5>2. QED
          BY <1>1, <2>1, <3>2, <4>2, <5>1 DEF TxOrder
      <4>3. QED
        BY <4>1, <4>2
    <3>3. QED
      BY <3>1, <3>2
  <2>2. QED
    BY <2>1 DEF TxOrder
<1>3. seg.so \in Unit /\ seg.end \in Unit /\ seg.so <= seg.end
  BY <1>1, TxEntries DEF TxOrder
<1>4. Span(seg) \subseteq TxUnits(st, sn)
  BY <1>1, <1>3, SpanFacts DEF TxUnits
<1>5. ASSUME NEW u \in TxUnits(s2, sn)
      PROVE  u \in TxUnits(st, sn) /\ u \notin Span(seg)
  <2>1. PICK k \in DOMAIN s2.txBuf[sn] : u \in Span(s2.txBuf[sn][k])
    BY <1>5 DEF TxUnits
  <2>2. u \in Span(st.txBuf[sn][k + 1]) /\ k + 1 \in DOMAIN st.txBuf[sn] /\ k + 1 > 1 /\ u \in Unit
    BY <1>1, <1>5, <2>1 DEF TxUnits
  <2>3. seg.end < st.txBuf[sn][k + 1].so /\ st.txBuf[sn][k + 1].so \in Unit
    BY <1>1, <2>2, TxEntries DEF TxOrder
  <2>4. u \notin Span(seg)
    BY <1>3, <2>2, <2>3, UnitFacts, SMT DEF Span
  <2>5. QED
    BY <2>2, <2>4 DEF TxUnits
<1>6. ASSUME NEW u \in TxUnits(st, sn), u \notin Span(seg)
      PROVE  u \in TxUnits(s2, sn)
  <2>1. PICK k \in DOMAIN st.txBuf[sn] : u \in Span(st.txBuf[sn][k])
    BY <1>6 DEF TxUnits
  <2>2. k # 1
    BY <1>6, <2>1
  <2>3. QED
    BY <1>1, <1>6, <2>1, <2>2 DEF TxUnits
<1>7. \A t \in Sn : t # sn => TxUnits(s2, t) = TxUnits(st, t)
  BY <1>1 DEF TxUnits
<1>8. QED
  BY <1>2, <1>4, <1>5, <1>6, <1>7

\* rlcAmmDlMoveSduByteSegFrmTxtoRetxBuffer of the first PDU of an SN: it is
\* held as before, at its place among the entries of retx.
MovedAt(st, s2, sn) ==
    \E k \in 0 .. Len(st.retx), r \in RetxType :
        /\ r = Retx(sn, st.txBuf[sn][1])
        /\ s2.node = k + 2
        /\ s2.nxt = IF st.nxt = NoRetx THEN Ptr(r) ELSE st.nxt
        /\ InsertedAt(st.retx, s2.retx, k, r)
        /\ \A j \in DOMAIN st.retx : j <= k <=> Dist(st.retx[j].sn) <= Dist(sn)

\* Moving a PDU to retxLst keeps the lists in order and every unit held.
LEMMA MoveGood ==
    ASSUME WinOK, NEW P, NEW M, NEW st, Good(P, M, st), NEW sn \in Sn, st.txBuf[sn] # <<>>,
           Dist(sn) < Dist(txNext), NEW s2, s2 = MoveSeg(st, sn, 1)
    PROVE  /\ Good(P, M, s2) /\ HeadGone(st, s2, sn) /\ MovedAt(st, s2, sn)
           /\ s2.max = st.max /\ s2.undef = st.undef /\ s2.err = st.err
           /\ s2.lnk = st.lnk /\ s2.from = st.from /\ s2.rcvd = st.rcvd
<1> DEFINE seg == st.txBuf[sn][1]
<1>1. /\ s2 \in BufType /\ HeadGone(st, s2, sn) /\ MovedAt(st, s2, sn)
      /\ s2.rcvd = st.rcvd /\ s2.max = st.max /\ s2.undef = st.undef /\ s2.err = st.err
      /\ s2.lnk = st.lnk /\ s2.from = st.from
  BY MoveFields, SMTT(30) DEF HeadGone, MovedAt
<1>2. /\ st \in BufType /\ RetxOrder(st) /\ TxOrder(st) /\ RetxBelowTx(st) /\ InWin(st)
      /\ Counts(st) /\ Keeps(M, st) /\ Pieces(st) \subseteq P
  BY DEF Good
<1>3. PICK k \in 0 .. Len(st.retx), r \in RetxType :
          /\ r = Retx(sn, seg)
          /\ InsertedAt(st.retx, s2.retx, k, r)
          /\ \A j \in DOMAIN st.retx : j <= k <=> Dist(st.retx[j].sn) <= Dist(sn)
  BY <1>1 DEF MovedAt
<1>4. /\ TxOrder(s2) /\ Span(seg) \subseteq TxUnits(st, sn)
      /\ TxUnits(s2, sn) = TxUnits(st, sn) \ Span(seg)
      /\ \A t \in Sn : t # sn => TxUnits(s2, t) = TxUnits(st, t)
  BY <1>1, <1>2, HeadGoneUnits
<1>5. /\ 1 \in DOMAIN st.txBuf[sn]
      /\ \A m \in DOMAIN s2.txBuf[sn] :
             m + 1 \in DOMAIN st.txBuf[sn] /\ s2.txBuf[sn][m] = st.txBuf[sn][m + 1] /\ m + 1 > 1
      /\ \A t \in Sn : t # sn => s2.txBuf[t] = st.txBuf[t]
  BY <1>1, <1>2, HeadGoneIndex
<1>6. /\ seg.so \in Unit /\ seg.end \in Unit /\ seg.so <= seg.end
      /\ r.sn = sn /\ r.so = seg.so /\ r.end = seg.end
      /\ Span(r) = Span(seg)
  <2>1. seg.so \in Unit /\ seg.end \in Unit /\ seg.so <= seg.end
    BY <1>2, <1>5, TxEntries DEF TxOrder
  <2>2. r.sn = sn /\ r.so = seg.so /\ r.end = seg.end
    BY <1>3 DEF Retx
  <2>3. QED
    BY <2>1, <2>2 DEF Span
<1>7. /\ Len(st.retx) \in Nat /\ DOMAIN st.retx = 1 .. Len(st.retx)
      /\ \A j \in DOMAIN st.retx : Dist(st.retx[j].sn) \in Nat /\ st.retx[j].sn \in Sn
      /\ Dist(sn) \in Nat
  BY <1>2, RetxEntries, DistNat DEF WinOK
<1>8. /\ DOMAIN s2.retx = 1 .. Len(st.retx) + 1
      /\ s2.retx[k + 1] = r /\ k + 1 \in DOMAIN s2.retx
      /\ \A j \in DOMAIN st.retx : \E m \in DOMAIN s2.retx : s2.retx[m] = st.retx[j]
  <2>1. DOMAIN s2.retx = 1 .. Len(st.retx) + 1 /\ s2.retx[k + 1] = r
    BY <1>3 DEF InsertedAt
  <2>2. k + 1 \in DOMAIN s2.retx
    BY <1>7, <2>1, SMT
  <2>3. ASSUME NEW j \in DOMAIN st.retx
        PROVE  \E m \in DOMAIN s2.retx : s2.retx[m] = st.retx[j]
    <3>1. j \in DOMAIN s2.retx /\ j + 1 \in DOMAIN s2.retx /\ (j <= k \/ j > k)
      BY <1>7, <2>1, SMT
    <3>2. QED
      BY <1>3, <3>1 DEF InsertedAt
  <2>4. QED
    BY <2>1, <2>2, <2>3
<1>9. ASSUME NEW m \in DOMAIN s2.retx
      PROVE  \/ m <= k /\ m \in DOMAIN st.retx /\ s2.retx[m] = st.retx[m]
             \/ m = k + 1 /\ s2.retx[m] = r
             \/ m > k + 1 /\ m - 1 \in DOMAIN st.retx /\ s2.retx[m] = st.retx[m - 1]
  <2>1. m <= k \/ m = k + 1 \/ m > k + 1
    BY <1>7, <1>8, SMT
  <2>2. QED
    BY <1>3, <2>1 DEF InsertedAt
<1>10. \A m \in DOMAIN s2.retx : s2.retx[m] = r \/ \E j \in DOMAIN st.retx : s2.retx[m] = st.retx[j]
  BY <1>9
<1>11. RetxOrder(s2)
  <2>1. \A m \in DOMAIN s2.retx : s2.retx[m].so <= s2.retx[m].end
    BY <1>2, <1>6, <1>10 DEF RetxOrder
  <2>2. ASSUME NEW j \in DOMAIN st.retx
        PROVE  /\ j <= k => Before(st.retx[j], r)
               /\ j > k => Before(r, st.retx[j])
    <3>1. CASE j <= k
      <4>1. Dist(st.retx[j].sn) <= Dist(sn)
        BY <1>3, <3>1
      <4>2. CASE Dist(st.retx[j].sn) = Dist(sn)
        <5>1. st.retx[j].sn = sn
          BY <1>7, <4>2, ModSnInjective DEF Dist, WinOK
        <5>2. st.retx[j].end < seg.so
          BY <1>2, <1>5, <5>1 DEF RetxBelowTx
        <5>3. ~(j > k)
          BY <1>7, <3>1, SMT
        <5>4. QED
          BY <1>6, <5>1, <5>2, <5>3 DEF Before
      <4>3. CASE Dist(st.retx[j].sn) < Dist(sn)
        <5>1. ~(j > k)
          BY <1>7, <3>1, SMT
        <5>2. QED
          BY <1>6, <4>3, <5>1 DEF Before
      <4>4. QED
        BY <1>7, <4>1, <4>2, <4>3, SMT
    <3>2. CASE j > k
      <4>1. ~(j <= k)
        BY <1>7, <3>2, SMT
      <4>2. Dist(sn) < Dist(st.retx[j].sn)
        BY <1>3, <1>7, <4>1, SMT
      <4>3. QED
        BY <1>6, <4>1, <4>2 DEF Before
    <3>3. QED
      BY <1>7, <3>1, <3>2, SMT
  <2>3. ASSUME NEW j \in DOMAIN s2.retx, NEW m \in DOMAIN s2.retx, j < m
        PROVE  Before(s2.retx[j], s2.retx[m])
    <3>1. j \in Int /\ m \in Int /\ k \in Int
      BY <1>8, SMT
    <3>2. CASE j <= k /\ m <= k
      BY <1>2, <1>9, <2>3, <3>1, <3>2, SMT DEF RetxOrder
    <3>3. CASE j <= k /\ m = k + 1
      <4>1. j \in DOMAIN st.retx /\ s2.retx[j] = st.retx[j] /\ s2.retx[m] = r
        BY <1>8, <1>9, <3>1, <3>3, SMT
      <4>2. QED
        BY <2>2, <3>3, <4>1
    <3>4. CASE j <= k /\ m > k + 1
      <4>1. /\ j \in DOMAIN st.retx /\ s2.retx[j] = st.retx[j]
            /\ m - 1 \in DOMAIN st.retx /\ s2.retx[m] = st.retx[m - 1]
        BY <1>9, <3>1, <3>4, SMT
      <4>2. j < m - 1
        BY <3>1, <3>4, SMT
      <4>3. QED
        BY <1>2, <4>1, <4>2 DEF RetxOrder
    <3>5. CASE j = k + 1 /\ m > k + 1
      <4>1. /\ m - 1 \in DOMAIN st.retx /\ s2.retx[m] = st.retx[m - 1] /\ s2.retx[j] = r
        BY <1>8, <1>9, <3>1, <3>5, SMT
      <4>2. m - 1 > k
        BY <3>1, <3>5, SMT
      <4>3. QED
        BY <2>2, <4>1, <4>2
    <3>6. CASE j > k + 1 /\ m > k + 1
      <4>1. /\ m - 1 \in DOMAIN st.retx /\ s2.retx[m] = st.retx[m - 1]
            /\ j - 1 \in DOMAIN st.retx /\ s2.retx[j] = st.retx[j - 1]
        BY <1>9, <3>1, <3>6, SMT
      <4>2. j - 1 < m - 1
        BY <2>3, <3>1, SMT
      <4>3. QED
        BY <1>2, <4>1, <4>2 DEF RetxOrder
    <3>7. QED
      BY <2>3, <3>1, <3>2, <3>3, <3>4, <3>5, <3>6, SMT
  <2>4. QED
    BY <2>1, <2>3 DEF RetxOrder
<1>12. RetxBelowTx(s2)
  <2>1. ASSUME NEW m \in DOMAIN s2.retx, NEW n \in DOMAIN s2.txBuf[s2.retx[m].sn]
        PROVE  s2.retx[m].end < s2.txBuf[s2.retx[m].sn][n].so
    <3>1. CASE s2.retx[m] = r
      <4>1. n + 1 \in DOMAIN st.txBuf[sn] /\ s2.txBuf[sn][n] = st.txBuf[sn][n + 1] /\ n + 1 > 1
        BY <1>5, <1>6, <2>1, <3>1
      <4>2. seg.end < st.txBuf[sn][n + 1].so
        BY <1>2, <1>5, <4>1 DEF TxOrder
      <4>3. QED
        BY <1>6, <3>1, <4>1, <4>2
    <3>2. CASE \E j \in DOMAIN st.retx : s2.retx[m] = st.retx[j]
      <4>1. PICK j \in DOMAIN st.retx : s2.retx[m] = st.retx[j]
        BY <3>2
      <4>2. CASE st.retx[j].sn = sn
        <5>1. n + 1 \in DOMAIN st.txBuf[sn] /\ s2.txBuf[sn][n] = st.txBuf[sn][n + 1]
          BY <1>5, <2>1, <4>1, <4>2
        <5>2. st.retx[j].end < st.txBuf[sn][n + 1].so
          BY <1>2, <4>2, <5>1 DEF RetxBelowTx
        <5>3. QED
          BY <4>1, <4>2, <5>1, <5>2, Zenon
      <4>3. CASE st.retx[j].sn # sn
        <5>1. s2.txBuf[st.retx[j].sn] = st.txBuf[st.retx[j].sn] /\ s2.retx[m].sn = st.retx[j].sn
          BY <1>5, <1>7, <4>1, <4>3
        <5>2. n \in DOMAIN st.txBuf[st.retx[j].sn]
          BY <2>1, <5>1
        <5>3. st.retx[j].end < st.txBuf[st.retx[j].sn][n].so
          BY <1>2, <5>2, Zenon DEF RetxBelowTx
        <5>4. QED
          BY <4>1, <5>1, <5>3, Zenon
      <4>4. QED
        BY <4>2, <4>3
    <3>3. QED
      BY <1>10, <3>1, <3>2
  <2>2. QED
    BY <2>1, Zenon DEF RetxBelowTx
<1>13. InWin(s2)
  <2>1. \A m \in DOMAIN s2.retx : Dist(s2.retx[m].sn) < Dist(txNext)
    BY <1>2, <1>6, <1>10 DEF InWin
  <2>2. \A t \in Sn : \A n \in DOMAIN s2.txBuf[t] :
            Dist(t) < Dist(txNext) \/ (t = txNext /\ s2.txBuf[t][n].end < segOff)
    BY <1>2, <1>5 DEF InWin
  <2>3. QED
    BY <2>1, <2>2 DEF InWin
<1>14. \A t \in Sn : UnitsAt(s2, t) = UnitsAt(st, t)
  <2>1. ASSUME NEW t \in Sn
        PROVE  RetxUnits(s2, t) = RetxUnits(st, t) \union (IF t = sn THEN Span(seg) ELSE {})
    <3>1. RetxUnits(s2, t) \subseteq RetxUnits(st, t) \union (IF t = sn THEN Span(seg) ELSE {})
      BY <1>6, <1>10 DEF RetxUnits
    <3>2. RetxUnits(st, t) \subseteq RetxUnits(s2, t)
      BY <1>8 DEF RetxUnits
    <3>3. t = sn => Span(seg) \subseteq RetxUnits(s2, t)
      BY <1>6, <1>8, SpanFacts DEF RetxUnits
    <3>4. QED
      BY <3>1, <3>2, <3>3
  <2>2. UnitsAt(s2, sn) = UnitsAt(st, sn)
    BY <1>4, <2>1 DEF UnitsAt
  <2>3. \A t \in Sn : t # sn => UnitsAt(s2, t) = UnitsAt(st, t)
    BY <1>4, <2>1 DEF UnitsAt
  <2>4. QED
    BY <2>2, <2>3
<1>15. Counts(s2) /\ Keeps(M, s2)
  BY <1>1, <1>2, <1>14 DEF Counts, Keeps, Total
<1>16. Pieces(s2) \subseteq P
  <2>1. ASSUME NEW p \in Pieces(s2)
        PROVE  p \in Pieces(st)
    <3>1. p \in Sn \X Unit \X Unit
      BY <2>1 DEF Pieces
    <3>2. CASE \E m \in DOMAIN s2.retx :
                   s2.retx[m].sn = p[1] /\ s2.retx[m].so = p[2] /\ s2.retx[m].end = p[3]
      <4>1. PICK m \in DOMAIN s2.retx :
                   s2.retx[m].sn = p[1] /\ s2.retx[m].so = p[2] /\ s2.retx[m].end = p[3]
        BY <3>2
      <4>2. CASE s2.retx[m] = r
        BY <1>5, <1>6, <3>1, <4>1, <4>2, SMTT(30) DEF Pieces
      <4>3. CASE \E j \in DOMAIN st.retx : s2.retx[m] = st.retx[j]
        BY <3>1, <4>1, <4>3 DEF Pieces
      <4>4. QED
        BY <1>10, <4>2, <4>3
    <3>3. CASE \E n \in DOMAIN s2.txBuf[p[1]] :
                   s2.txBuf[p[1]][n].so = p[2] /\ s2.txBuf[p[1]][n].end = p[3]
      <4>1. p[1] \in Sn
        BY <3>1
      <4>2. \E n \in DOMAIN st.txBuf[p[1]] :
                   st.txBuf[p[1]][n].so = p[2] /\ st.txBuf[p[1]][n].end = p[3]
        BY <1>5, <3>3, <4>1
      <4>3. QED
        BY <3>1, <4>2 DEF Pieces
    <3>4. QED
      BY <2>1, <3>2, <3>3 DEF Pieces
  <2>2. QED
    BY <1>2, <2>1
<1>17. QED
  BY <1>1, <1>4, <1>11, <1>12, <1>13, <1>15, <1>16 DEF Good

-----------------------------------------------------------------------------
(* rlcAmmDlProcessSuccessfulTxPdu.                                         *)

\* The pieces of a list with an index in I, each unit with its index, and the
\* units alone.
TagSet(I, lst) == UNION {{i} \X (lst[i].so .. lst[i].end) : i \in I}
UnitSet(I, lst) == {u \in Unit : \E i \in I : u \in Span(lst[i])}

\* Pieces that do not overlap have together as many units as their sizes say.
LEMMA TaggedUnits ==
    ASSUME NEW I, NEW lst,
           \A i, j \in I : i # j => Span(lst[i]) \intersect Span(lst[j]) = {},
           \A i \in I : Span(lst[i]) \subseteq Unit
    PROVE  Cardinality(TagSet(I, lst)) = Cardinality(UnitSet(I, lst))
<1> DEFINE U == {u \in Unit : \E i \in I : u \in Span(lst[i])}
           T == UNION {{i} \X (lst[i].so .. lst[i].end) : i \in I}
           tag(u) == CHOOSE i \in I : u \in Span(lst[i])
           g == [u \in U |-> <<tag(u), u>>]
<1>1. \A u \in U : tag(u) \in I /\ u \in Span(lst[tag(u)])
  OBVIOUS
<1>2. \A i \in I : \A u \in Span(lst[i]) : u \in U /\ tag(u) = i
  BY <1>1
<1>3. \A i, u : <<i, u>> \in T <=> i \in I /\ u \in Span(lst[i])
  BY DEF Span
<1>4. \A x \in T : \E i \in I : \E u \in Span(lst[i]) : x = <<i, u>>
  BY DEF Span
<1> HIDE DEF tag, T, U
<1>5. g \in [U -> T]
  BY <1>1, <1>3
<1>6. \A u, v \in U : g[u] = g[v] => u = v
  OBVIOUS
<1>7. \A x \in T : \E u \in U : g[u] = x
  BY <1>2, <1>4
<1>8. g \in Bijection(U, T)
  BY <1>5, <1>6, <1>7, Zenon DEF Bijection, Injection, Surjection, IsInjective
<1>9. ExistsBijection(U, T)
  BY <1>8 DEF ExistsBijection
<1>10. IsFiniteSet(U)
  BY UnitSets DEF U
<1>11. Cardinality(T) = Cardinality(U)
  BY <1>9, <1>10, FS_Bijection
<1>12. QED
  BY <1>11 DEF T, U, TagSet, UnitSet

\* The PDUs of an SN in txBuf do not overlap.
LEMMA TxSize ==
    ASSUME NEW st \in BufType, TxOrder(st), NEW sn \in Sn
    PROVE  SizeOf(st.txBuf[sn]) = Cardinality(TxUnits(st, sn))
<1> DEFINE lst == st.txBuf[sn]
           I == DOMAIN lst
<1>1. \A i \in I : /\ lst[i].so \in Unit /\ lst[i].end \in Unit /\ lst[i].so <= lst[i].end
                   /\ i \in Nat
  BY TxEntries DEF TxOrder
<1>2. \A i \in I : Span(lst[i]) \subseteq Unit
  BY <1>1, SpanFacts
<1>3. ASSUME NEW i \in I, NEW j \in I, i # j
      PROVE  Span(lst[i]) \intersect Span(lst[j]) = {}
  <2>1. i < j \/ j < i
    BY <1>1, <1>3, SMT
  <2>2. lst[i].end < lst[j].so \/ lst[j].end < lst[i].so
    BY <2>1 DEF TxOrder
  <2>3. QED
    BY <1>1, <2>2, UnitFacts, SMT DEF Span
<1> HIDE DEF lst, I
<1>4. Cardinality(TagSet(I, lst)) = Cardinality(UnitSet(I, lst))
  BY <1>2, <1>3, TaggedUnits
<1>5. QED
  BY <1>4 DEF SizeOf, TxUnits, lst, I, TagSet, UnitSet

\* The PDU at the head of sn's list in txBuf has arrived.
AckHead(st, sn) ==
    [Delivered(st, sn, Size(st.txBuf[sn][1])) EXCEPT !.txBuf[sn] = RemoveAt(@, 1)]

\* It has no unit of M.
LEMMA AckHeadGood ==
    ASSUME WinOK, NEW P, NEW M, NEW st, Good(P, M, st), NEW sn \in Sn, st.txBuf[sn] # <<>>,
           Span(st.txBuf[sn][1]) \intersect M[sn] = {},
           NEW s2, s2 = AckHead(st, sn)
    PROVE  /\ Good(P, M, s2) /\ HeadGone(st, s2, sn)
           /\ s2.retx = st.retx /\ s2.nxt = st.nxt
           /\ s2.max = st.max /\ s2.undef = st.undef /\ s2.err = st.err
           /\ s2.node = st.node /\ s2.lnk = st.lnk /\ s2.from = st.from
<1> DEFINE seg == st.txBuf[sn][1]
           n == Counted(st.rcvd[sn] + Size(seg))
           g == [st.rcvd EXCEPT ![sn] = n]
           tx == [st.txBuf EXCEPT ![sn] = RemoveAt(st.txBuf[sn], 1)]
<1>1. /\ st \in BufType /\ RetxOrder(st) /\ TxOrder(st) /\ RetxBelowTx(st) /\ InWin(st)
      /\ Counts(st) /\ Keeps(M, st) /\ Pieces(st) \subseteq P
      /\ Total(st, sn) <= SduLen /\ (st.max \/ Total(st, sn) \in {0, SduLen})
  BY DEF Good, Counts
<1>2. /\ 1 \in DOMAIN st.txBuf[sn] /\ DOMAIN st.txBuf[sn] = 1 .. Len(st.txBuf[sn])
      /\ st.txBuf[sn] \in Seq(SegType)
      /\ DOMAIN st.txBuf = Sn /\ DOMAIN st.rcvd = Sn /\ st.rcvd[sn] \in 0 .. SduLen
  <2>1. st.txBuf[sn] \in Seq(SegType) /\ DOMAIN st.txBuf[sn] = 1 .. Len(st.txBuf[sn])
    BY <1>1, TxEntries
  <2>2. Len(st.txBuf[sn]) \in Nat \ {0}
    BY <2>1, EmptySeq
  <2>3. 1 \in 1 .. Len(st.txBuf[sn])
    BY <2>2, SMT
  <2>4. QED
    BY <1>1, <2>1, <2>3, BufFields
<1>3. seg.so \in Unit /\ seg.end \in Unit /\ seg.so <= seg.end
  BY <1>1, <1>2, TxEntries DEF TxOrder
<1>4. Cardinality(Span(seg)) = Size(seg) /\ Span(seg) \subseteq TxUnits(st, sn)
  BY <1>2, <1>3, SpanFacts DEF TxUnits
<1>5. n \in 0 .. SduLen
  <2>1. SduLen \in Nat \ {0}
    BY UnitFacts
  <2>2. Span(seg) \subseteq UnitsAt(st, sn)
    BY <1>4 DEF UnitsAt
  <2>3. Cardinality(Span(seg)) \in 0 .. SduLen /\ Cardinality(Span(seg)) <= Cardinality(UnitsAt(st, sn))
    BY <2>2, UnitsAtFacts, UnitSets, FS_Subset
  <2>4. Cardinality(UnitsAt(st, sn)) \in 0 .. SduLen /\ Cardinality(UnsentUnits(sn)) \in 0 .. SduLen
    BY UnitsAtFacts, UnsentFacts DEF WinOK
  <2> HIDE DEF seg
  <2>5. QED
    BY <1>1, <1>2, <1>4, <2>1, <2>3, <2>4, SMT DEF Counted, Total
<1>6. s2 = [st EXCEPT !.rcvd = g, !.txBuf = tx]
  <2> DEFINE d == Delivered(st, sn, Size(seg))
  <2>1. d = [st EXCEPT !.rcvd = g]
    BY DEF Delivered
  <2>2. s2 = [d EXCEPT !.txBuf[sn] = RemoveAt(d.txBuf[sn], 1)]
    BY DEF AckHead
  <2> HIDE DEF d, g
  <2>3. d.txBuf = st.txBuf
    BY <1>1, <2>1, Zenon DEF BufType
  <2>4. s2 = [d EXCEPT !.txBuf = tx]
    BY <2>2, <2>3
  <2> HIDE DEF tx
  <2>5. QED
    BY <1>1, <2>1, <2>4, Zenon DEF BufType
<1> HIDE DEF n
<1>7. g \in [Sn -> 0 .. SduLen]
  BY <1>1, <1>5, BufFields
<1>8. tx \in [Sn -> Seq(SegType)]
  <2>1. RemoveAt(st.txBuf[sn], 1) \in Seq(SegType)
    BY <1>2, RemoveAtList
  <2>2. QED
    BY <1>1, <2>1, BufFields
<1> HIDE DEF g, tx
<1>9. s2 \in BufType
  BY <1>1, <1>6, <1>7, <1>8, Zenon DEF BufType
<1>10. /\ s2.retx = st.retx /\ s2.nxt = st.nxt
       /\ s2.max = st.max /\ s2.undef = st.undef /\ s2.err = st.err
       /\ s2.node = st.node /\ s2.lnk = st.lnk /\ s2.from = st.from
       /\ s2.rcvd = g /\ s2.txBuf = tx
  BY <1>1, <1>6, Zenon DEF BufType
<1>11. HeadGone(st, s2, sn)
  BY <1>10 DEF HeadGone, tx
<1>12. /\ TxOrder(s2)
       /\ TxUnits(s2, sn) = TxUnits(st, sn) \ Span(seg)
       /\ \A t \in Sn : t # sn => TxUnits(s2, t) = TxUnits(st, t)
  BY <1>1, <1>9, <1>11, HeadGoneUnits
<1>13. /\ \A m \in DOMAIN s2.txBuf[sn] :
             m + 1 \in DOMAIN st.txBuf[sn] /\ s2.txBuf[sn][m] = st.txBuf[sn][m + 1] /\ m + 1 > 1
       /\ \A t \in Sn : t # sn => s2.txBuf[t] = st.txBuf[t]
  BY <1>1, <1>11, HeadGoneIndex
<1>14. \A t \in Sn : \A m \in DOMAIN s2.txBuf[t] : \E k \in DOMAIN st.txBuf[t] : s2.txBuf[t][m] = st.txBuf[t][k]
  BY <1>13
<1>15. RetxOrder(s2)
  BY <1>1, <1>10 DEF RetxOrder
<1>16. RetxBelowTx(s2)
  <2>1. \A j \in DOMAIN st.retx : st.retx[j].sn \in Sn
    BY <1>1, RetxEntries
  <2>2. ASSUME NEW j \in DOMAIN st.retx, NEW m \in DOMAIN s2.txBuf[st.retx[j].sn]
        PROVE  st.retx[j].end < s2.txBuf[st.retx[j].sn][m].so
    <3>1. PICK k \in DOMAIN st.txBuf[st.retx[j].sn] :
              s2.txBuf[st.retx[j].sn][m] = st.txBuf[st.retx[j].sn][k]
      BY <1>14, <2>1, <2>2
    <3>2. QED
      BY <1>1, <3>1 DEF RetxBelowTx
  <2>3. QED
    BY <1>10, <2>2 DEF RetxBelowTx
<1>17. InWin(s2)
  BY <1>1, <1>10, <1>14 DEF InWin
<1>18. Pieces(s2) \subseteq Pieces(st)
  <2>1. ASSUME NEW p \in Pieces(s2)
        PROVE  p \in Pieces(st)
    <3>1. p \in Sn \X Unit \X Unit /\ p[1] \in Sn
      BY <2>1 DEF Pieces
    <3>2. QED
      BY <1>10, <1>14, <2>1, <3>1 DEF Pieces
  <2>2. QED
    BY <2>1
<1>19. \A u \in Span(seg) : u \notin RetxUnits(st, sn)
  <2>1. SUFFICES ASSUME NEW u \in Span(seg), NEW j \in DOMAIN st.retx, st.retx[j].sn = sn,
                        u \in Span(st.retx[j])
                 PROVE  FALSE
    BY DEF RetxUnits
  <2>2. st.retx[j].end < seg.so /\ st.retx[j].so \in Unit /\ st.retx[j].end \in Unit
    BY <1>1, <1>2, <2>1, RetxEntries DEF RetxBelowTx
  <2>3. QED
    BY <1>3, <2>1, <2>2, UnitFacts, SMT DEF Span
<1>20. \A t \in Sn : RetxUnits(s2, t) = RetxUnits(st, t)
  BY <1>10 DEF RetxUnits
<1>21. /\ UnitsAt(s2, sn) = UnitsAt(st, sn) \ Span(seg)
       /\ \A t \in Sn : t # sn => UnitsAt(s2, t) = UnitsAt(st, t)
  BY <1>12, <1>19, <1>20 DEF UnitsAt
<1>22. Counts(s2)
  <2>1. ASSUME NEW t \in Sn
        PROVE  Total(s2, t) <= SduLen /\ (s2.max \/ Total(s2, t) \in {0, SduLen})
    <3>1. CASE t = sn
      <4>1. s2.rcvd[sn] = Counted(st.rcvd[sn] + Cardinality(Span(seg)))
        BY <1>2, <1>4, <1>10 DEF g, n
      <4>2. Span(seg) \subseteq UnitsAt(st, sn)
        BY <1>4 DEF UnitsAt
      <4>3. QED
        BY <1>1, <1>10, <1>21, <3>1, <4>1, <4>2, CountedOnce DEF WinOK
    <3>2. CASE t # sn
      <4>1. s2.rcvd[t] = st.rcvd[t]
        BY <1>2, <1>10, <3>2 DEF g
      <4>2. QED
        BY <1>1, <1>10, <1>21, <3>2, <4>1 DEF Counts, Total
    <3>3. QED
      BY <3>1, <3>2
  <2>2. QED
    BY <2>1 DEF Counts
<1>23. Keeps(M, s2)
  BY <1>1, <1>10, <1>21 DEF Keeps
<1>24. QED
  BY <1>1, <1>9, <1>10, <1>11, <1>12, <1>15, <1>16, <1>17, <1>18, <1>22, <1>23 DEF Good

\* rlcAmmDlProcessSuccessfulTxPdu, of SNs with no unit of M in txBuf.
LEMMA TxReleaseGood ==
    ASSUME WinOK, NEW P, NEW M, NEW st, Good(P, M, st), NEW sns \in SUBSET Sn,
           \A sn \in sns : TxUnits(st, sn) \intersect M[sn] = {},
           NEW s2, s2 = SuccessfulTxPdus(st, sns)
    PROVE  /\ Good(P, M, s2)
           /\ s2.txBuf = [sn \in Sn |-> IF sn \in sns THEN <<>> ELSE st.txBuf[sn]]
           /\ s2.retx = st.retx /\ s2.nxt = st.nxt
           /\ s2.max = st.max /\ s2.undef = st.undef /\ s2.err = st.err
           /\ s2.node = st.node /\ s2.lnk = st.lnk /\ s2.from = st.from
<1> DEFINE count(sn) == Counted(st.rcvd[sn] + SizeOf(st.txBuf[sn]))
           g == [sn \in Sn |-> IF sn \in sns THEN count(sn) ELSE st.rcvd[sn]]
           tx == [sn \in Sn |-> IF sn \in sns THEN <<>> ELSE st.txBuf[sn]]
<1>1. /\ st \in BufType /\ RetxOrder(st) /\ TxOrder(st) /\ RetxBelowTx(st) /\ InWin(st)
      /\ Counts(st) /\ Keeps(M, st) /\ Pieces(st) \subseteq P
      /\ \A sn \in Sn : Total(st, sn) <= SduLen /\ (st.max \/ Total(st, sn) \in {0, SduLen})
  BY DEF Good, Counts
<1>2. s2 = [st EXCEPT !.rcvd = g, !.txBuf = tx]
  BY DEF SuccessfulTxPdus
<1>3. ASSUME NEW sn \in Sn
      PROVE  /\ count(sn) = Counted(st.rcvd[sn] + Cardinality(TxUnits(st, sn)))
             /\ count(sn) \in 0 .. SduLen
  <2>1. SizeOf(st.txBuf[sn]) = Cardinality(TxUnits(st, sn))
    BY <1>1, TxSize
  <2>2. SduLen \in Nat \ {0} /\ st.rcvd[sn] \in 0 .. SduLen
    BY <1>1, UnitFacts, BufFields
  <2>3. TxUnits(st, sn) \subseteq UnitsAt(st, sn)
    BY DEF UnitsAt
  <2>4. /\ Cardinality(TxUnits(st, sn)) \in 0 .. SduLen
        /\ Cardinality(TxUnits(st, sn)) <= Cardinality(UnitsAt(st, sn))
    BY <2>3, UnitsAtFacts, UnitSets, FS_Subset
  <2>5. Cardinality(UnitsAt(st, sn)) \in 0 .. SduLen /\ Cardinality(UnsentUnits(sn)) \in 0 .. SduLen
    BY UnitsAtFacts, UnsentFacts DEF WinOK
  <2>6. Total(st, sn) <= SduLen
    BY <1>1
  <2>7. Counted(st.rcvd[sn] + Cardinality(TxUnits(st, sn))) \in 0 .. SduLen
    BY <2>2, <2>4, <2>5, <2>6, SMT DEF Counted, Total
  <2>8. QED
    BY <2>1, <2>7
<1> HIDE DEF count
<1>4. g \in [Sn -> 0 .. SduLen]
  BY <1>1, <1>3, BufFields
<1>5. tx \in [Sn -> Seq(SegType)]
  <2>1. <<>> \in Seq(SegType)
    BY EmptySeq
  <2>2. QED
    BY <1>1, <2>1, BufFields
<1>6. \A sn \in Sn : /\ g[sn] = IF sn \in sns THEN count(sn) ELSE st.rcvd[sn]
                     /\ tx[sn] = IF sn \in sns THEN <<>> ELSE st.txBuf[sn]
  OBVIOUS
<1> HIDE DEF g, tx
<1>7. s2 \in BufType
  BY <1>1, <1>2, <1>4, <1>5, Zenon DEF BufType
<1>8. /\ s2.retx = st.retx /\ s2.nxt = st.nxt
      /\ s2.max = st.max /\ s2.undef = st.undef /\ s2.err = st.err
      /\ s2.node = st.node /\ s2.lnk = st.lnk /\ s2.from = st.from
      /\ s2.rcvd = g /\ s2.txBuf = tx
  BY <1>1, <1>2, Zenon DEF BufType
<1>9. DOMAIN <<>> = {}
  BY SMT
<1>10. \A t \in Sn : \A m \in DOMAIN s2.txBuf[t] :
           m \in DOMAIN st.txBuf[t] /\ s2.txBuf[t][m] = st.txBuf[t][m] /\ s2.txBuf[t] = st.txBuf[t]
  BY <1>6, <1>8, <1>9
<1>11. RetxOrder(s2)
  BY <1>1, <1>8 DEF RetxOrder
<1>12. TxOrder(s2)
  BY <1>1, <1>10 DEF TxOrder
<1>13. RetxBelowTx(s2)
  <2>1. \A j \in DOMAIN st.retx : st.retx[j].sn \in Sn
    BY <1>1, RetxEntries
  <2>2. QED
    BY <1>1, <1>8, <1>10, <2>1 DEF RetxBelowTx
<1>14. InWin(s2)
  BY <1>1, <1>8, <1>10 DEF InWin
<1>15. Pieces(s2) \subseteq Pieces(st)
  <2>1. ASSUME NEW p \in Pieces(s2)
        PROVE  p \in Pieces(st)
    <3>1. p \in Sn \X Unit \X Unit /\ p[1] \in Sn
      BY <2>1 DEF Pieces
    <3>2. QED
      BY <1>8, <1>10, <2>1, <3>1 DEF Pieces
  <2>2. QED
    BY <2>1
<1>16. ASSUME NEW sn \in Sn
       PROVE  \A u \in TxUnits(st, sn) : u \notin RetxUnits(st, sn)
  <2>1. SUFFICES ASSUME NEW u \in Unit, NEW k \in DOMAIN st.txBuf[sn], u \in Span(st.txBuf[sn][k]),
                        NEW j \in DOMAIN st.retx, st.retx[j].sn = sn, u \in Span(st.retx[j])
                 PROVE  FALSE
    BY DEF RetxUnits, TxUnits
  <2>2. /\ st.retx[j].end < st.txBuf[sn][k].so /\ st.retx[j].so \in Unit /\ st.retx[j].end \in Unit
        /\ st.txBuf[sn][k].so \in Unit /\ st.txBuf[sn][k].end \in Unit
    BY <1>1, <2>1, RetxEntries, TxEntries, Zenon DEF RetxBelowTx
  <2>3. QED
    BY <2>1, <2>2, UnitFacts, SMT DEF Span
<1>17. \A t \in Sn : RetxUnits(s2, t) = RetxUnits(st, t)
  BY <1>8 DEF RetxUnits
<1>18. \A t \in Sn : TxUnits(s2, t) = IF t \in sns THEN {} ELSE TxUnits(st, t)
  BY <1>6, <1>8, <1>9 DEF TxUnits
<1>19. \A t \in Sn : UnitsAt(s2, t) = IF t \in sns THEN UnitsAt(st, t) \ TxUnits(st, t) ELSE UnitsAt(st, t)
  <2>1. ASSUME NEW t \in Sn, t \in sns
        PROVE  UnitsAt(s2, t) = UnitsAt(st, t) \ TxUnits(st, t)
    BY <1>16, <1>17, <1>18, <2>1 DEF UnitsAt
  <2>2. ASSUME NEW t \in Sn, t \notin sns
        PROVE  UnitsAt(s2, t) = UnitsAt(st, t)
    BY <1>17, <1>18, <2>2 DEF UnitsAt
  <2>3. QED
    BY <2>1, <2>2
<1>20. Counts(s2)
  <2>1. ASSUME NEW t \in Sn
        PROVE  Total(s2, t) <= SduLen /\ (s2.max \/ Total(s2, t) \in {0, SduLen})
    <3>1. CASE t \in sns
      <4>1. s2.rcvd[t] = Counted(st.rcvd[t] + Cardinality(TxUnits(st, t)))
        BY <1>3, <1>6, <1>8, <3>1
      <4>2. TxUnits(st, t) \subseteq UnitsAt(st, t)
        BY DEF UnitsAt
      <4>3. UnitsAt(s2, t) = UnitsAt(st, t) \ TxUnits(st, t)
        BY <1>19, <3>1
      <4>4. QED
        BY <1>1, <1>8, <4>1, <4>2, <4>3, CountedOnce DEF WinOK
    <3>2. CASE t \notin sns
      <4>1. s2.rcvd[t] = st.rcvd[t] /\ UnitsAt(s2, t) = UnitsAt(st, t)
        BY <1>6, <1>8, <1>19, <3>2
      <4>2. Total(s2, t) = Total(st, t)
        BY <4>1 DEF Total
      <4>3. QED
        BY <1>1, <1>8, <4>2
    <3>3. QED
      BY <3>1, <3>2
  <2>2. QED
    BY <2>1 DEF Counts
<1>21. Keeps(M, s2)
  <2>1. SUFFICES ASSUME ~s2.max, NEW sn \in Sn
                 PROVE  M[sn] \subseteq UnitsAt(s2, sn)
    BY DEF Keeps
  <2>2. M[sn] \subseteq UnitsAt(st, sn)
    BY <1>1, <1>8, <2>1 DEF Keeps
  <2>3. QED
    BY <1>19, <2>2
<1>22. QED
  BY <1>1, <1>7, <1>8, <1>11, <1>12, <1>13, <1>14, <1>15, <1>20, <1>21 DEF Good, tx

-----------------------------------------------------------------------------
(* What a truthful report says, and the lists between two of its NACKs.    *)

Run(n) == n.soStart .. n.soEnd

\* ns names every maximal run of units in M of the SNs less than d ahead, once
\* and in order.
NackType == [sn : Sn, isSegment : BOOLEAN, soStart : Unit, soEnd : Unit]
Names(M, ns, d) ==
    /\ ns \in Seq(NackType)
    /\ \A i, j \in DOMAIN ns : i < j =>
           Dist(ns[i].sn) < Dist(ns[j].sn) \/ (ns[i].sn = ns[j].sn /\ ns[i].soEnd < ns[j].soStart)
    /\ \A i \in DOMAIN ns :
        /\ ns[i].soStart <= ns[i].soEnd /\ Dist(ns[i].sn) < d
        /\ Run(ns[i]) \subseteq M[ns[i].sn] /\ ns[i].soEnd + 1 \notin M[ns[i].sn]
        /\ ~ns[i].isSegment => ns[i].soStart = 0 /\ ns[i].soEnd = LastUnit
    /\ \A sn \in Sn : Dist(sn) < d =>
           \A u \in M[sn] : \E i \in DOMAIN ns : ns[i].sn = sn /\ u \in Run(ns[i])

\* The report acknowledges no more than has been transmitted, and what it says
\* of a piece it says of all its units.
Truthful(P, M, ns, d) ==
    /\ Names(M, ns, d) /\ d \in Nat /\ d <= Dist(txNext)
    /\ \A p \in P : IsWhole(p[2], p[3], M[p[1]])

\* An entry behind the run that n names.
Past(e, n) == Dist(n.sn) < Dist(e.sn) \/ (e.sn = n.sn /\ n.soEnd < e.so)

\* node divides the entries into those up to the i-th NACK and those behind it.
Nodes(ns, i, st) ==
    /\ i = 0 => st.node = 1
    /\ i > 0 => \A j \in DOMAIN st.retx : j >= st.node <=> Past(st.retx[j], ns[i])

\* What the first i NACKs ask for awaits retransmission,
AwaitAt(st, sn, u) == \E j \in DOMAIN st.retx : Awaits(st.retx[j], sn, u)
AllAwait(ns, i, st) ==
    ~st.max => \A j \in DOMAIN ns : j <= i => \A u \in Run(ns[j]) : AwaitAt(st, ns[j].sn, u)

\* what is still in txBuf lies behind them,
TxPast(ns, i, st) ==
    \A j \in DOMAIN ns : j <= i =>
        \A k \in DOMAIN st.txBuf[ns[j].sn] : ns[j].soEnd < st.txBuf[ns[j].sn][k].so

\* and where there is something in txBuf, all that lies behind them is.
TxFull(ns, i, st) ==
    \A sn \in Sn : st.txBuf[sn] # <<>> \/ sn = txNext =>
        \A u \in SentUnits(sn) :
            (\A j \in DOMAIN ns : j <= i /\ ns[j].sn = sn => ns[j].soEnd < u) => u \in TxUnits(st, sn)

\* Nothing is held of the SNs less than d ahead.
CleanBelow(st, d) ==
    /\ \A j \in DOMAIN st.retx : Dist(st.retx[j].sn) >= d
    /\ \A sn \in Sn : Dist(sn) < d => st.txBuf[sn] = <<>>

From(ns, i, st) == Dist(st.from) = IF i = 0 THEN 0 ELSE Dist(ns[i].sn) + 1

Mid(P, M, ns, i, st) ==
    /\ Good(P, M, st) /\ ~st.err /\ ~st.undef
    /\ Nodes(ns, i, st) /\ AllAwait(ns, i, st) /\ TxPast(ns, i, st) /\ TxFull(ns, i, st)

Between(P, M, ns, i, st) ==
    /\ Mid(P, M, ns, i, st) /\ From(ns, i, st)
    /\ i > 0 => CleanBelow(st, Dist(ns[1].sn))

\* The fields of a NACK.
LEMMA NackFacts ==
    ASSUME WinOK, NEW M, NEW ns, NEW d, Names(M, ns, d), NEW i \in DOMAIN ns
    PROVE  /\ ns[i].sn \in Sn /\ ns[i].soStart \in Unit /\ ns[i].soEnd \in Unit
           /\ ns[i].soStart <= ns[i].soEnd
           /\ Dist(ns[i].sn) \in Nat /\ Dist(ns[i].sn) < d
           /\ DOMAIN ns = 1 .. Len(ns) /\ Len(ns) \in Nat /\ i \in Nat
           /\ \A u \in Run(ns[i]) : u \in Unit /\ u \in M[ns[i].sn]
<1>1. DOMAIN ns = 1 .. Len(ns) /\ Len(ns) \in Nat /\ ns[i] \in NackType
  <2>1. ns \in Seq(NackType)
    BY DEF Names
  <2>2. DOMAIN ns = 1 .. Len(ns) /\ Len(ns) \in Nat
    BY <2>1, LenProperties
  <2>3. QED
    BY <2>1, <2>2, ElementOfSeq
<1>2. ns[i].sn \in Sn /\ ns[i].soStart \in Unit /\ ns[i].soEnd \in Unit
  BY <1>1 DEF NackType
<1>3. Dist(ns[i].sn) \in Nat
  BY <1>2, DistNat DEF WinOK
<1>4. ns[i].soStart <= ns[i].soEnd /\ Dist(ns[i].sn) < d /\ Run(ns[i]) \subseteq M[ns[i].sn]
  BY DEF Names
<1>5. \A u \in Run(ns[i]) : u \in Unit
  BY <1>2, UnitFacts, SMT DEF Run
<1>6. QED
  BY <1>1, <1>2, <1>3, <1>4, <1>5, SMT

\* A unit between two NACKs is not in M.
LEMMA NotNamed ==
    ASSUME WinOK, NEW M, NEW ns, NEW d, Names(M, ns, d), NEW i \in Nat, i <= Len(ns),
           NEW sn \in Sn, Dist(sn) < d, NEW u \in Unit,
           i > 0 => Dist(ns[i].sn) < Dist(sn) \/ (sn = ns[i].sn /\ ns[i].soEnd < u),
           i < Len(ns) => Dist(sn) < Dist(ns[i + 1].sn) \/ (sn = ns[i + 1].sn /\ u < ns[i + 1].soStart)
    PROVE  u \notin M[sn]
<1>1. SUFFICES ASSUME u \in M[sn]
               PROVE  FALSE
  OBVIOUS
<1>2. PICK j \in DOMAIN ns : ns[j].sn = sn /\ u \in Run(ns[j])
  BY <1>1 DEF Names
<1>3. /\ DOMAIN ns = 1 .. Len(ns) /\ Len(ns) \in Nat
      /\ \A k \in DOMAIN ns : /\ ns[k].sn \in Sn /\ ns[k].soStart \in Nat /\ ns[k].soEnd \in Nat
                              /\ Dist(ns[k].sn) \in Nat /\ ns[k].soStart <= ns[k].soEnd
      /\ u \in Nat
  BY <1>2, NackFacts, UnitFacts
<1>4. ns[j].soStart <= u /\ u <= ns[j].soEnd
  BY <1>2, <1>3, SMT DEF Run
<1>5. CASE j <= i
  <2>1. i > 0 /\ i \in DOMAIN ns
    BY <1>3, <1>5, SMT
  <2>2. j = i \/ Dist(ns[j].sn) < Dist(ns[i].sn) \/ (ns[j].sn = ns[i].sn /\ ns[j].soEnd < ns[i].soStart)
    <3>1. j = i \/ j < i
      BY <1>3, <1>5, SMT
    <3>2. QED
      BY <2>1, <3>1 DEF Names
  <2>3. QED
    BY <1>2, <1>3, <1>4, <2>1, <2>2, SMT
<1>6. CASE j > i
  <2>1. i < Len(ns) /\ i + 1 \in DOMAIN ns
    BY <1>3, <1>6, SMT
  <2>2. j = i + 1 \/ Dist(ns[i + 1].sn) < Dist(ns[j].sn)
            \/ (ns[i + 1].sn = ns[j].sn /\ ns[i + 1].soEnd < ns[j].soStart)
    <3>1. j = i + 1 \/ i + 1 < j
      BY <1>3, <1>6, SMT
    <3>2. QED
      BY <2>1, <3>1 DEF Names
  <2>3. QED
    BY <1>2, <1>3, <1>4, <2>1, <2>2, SMT
<1>7. QED
  BY <1>3, <1>5, <1>6, SMT

\* The pieces held: entries of retx and PDUs in txBuf.
LEMMA PiecesHeld ==
    ASSUME NEW P, NEW M, NEW st, Good(P, M, st)
    PROVE  /\ \A j \in DOMAIN st.retx : <<st.retx[j].sn, st.retx[j].so, st.retx[j].end>> \in P
           /\ \A sn \in Sn : \A k \in DOMAIN st.txBuf[sn] :
                  <<sn, st.txBuf[sn][k].so, st.txBuf[sn][k].end>> \in P
<1>1. st \in BufType /\ Pieces(st) \subseteq P
  BY DEF Good
<1>2. ASSUME NEW j \in DOMAIN st.retx
      PROVE  <<st.retx[j].sn, st.retx[j].so, st.retx[j].end>> \in Pieces(st)
  BY <1>1, RetxEntries DEF Pieces
<1>3. ASSUME NEW sn \in Sn, NEW k \in DOMAIN st.txBuf[sn]
      PROVE  <<sn, st.txBuf[sn][k].so, st.txBuf[sn][k].end>> \in Pieces(st)
  BY <1>1, TxEntries DEF Pieces
<1>4. QED
  BY <1>1, <1>2, <1>3

\* A piece with a unit that is not in M has none in M.
LEMMA WholePiece ==
    ASSUME NEW P, NEW M, NEW ns, NEW d, Truthful(P, M, ns, d),
           NEW sn, NEW e, e.so \in Unit, e.end \in Unit, e.so <= e.end, <<sn, e.so, e.end>> \in P
    PROVE  /\ e.so \notin M[sn] => Span(e) \intersect M[sn] = {}
           /\ Span(e) \subseteq M[sn] \/ Span(e) \intersect M[sn] = {}
<1>1. IsWhole(e.so, e.end, M[sn])
  <2> DEFINE p == <<sn, e.so, e.end>>
  <2>1. p[1] = sn /\ p[2] = e.so /\ p[3] = e.end
    OBVIOUS
  <2>2. IsWhole(p[2], p[3], M[p[1]])
    BY DEF Truthful
  <2>3. QED
    BY <2>1, <2>2
<1>2. e.so \in Span(e)
  BY SpanFacts
<1>3. QED
  BY <1>1, <1>2 DEF IsWhole, Span

\* A piece that reaches behind a run that is named lies behind it.
LEMMA WholeRun ==
    ASSUME WinOK, NEW P, NEW M, NEW ns, NEW d, Truthful(P, M, ns, d), NEW i \in DOMAIN ns,
           NEW e, e.so \in Unit, e.end \in Unit, e.so <= e.end,
           <<ns[i].sn, e.so, e.end>> \in P, ns[i].soEnd < e.end
    PROVE  ns[i].soEnd < e.so
<1>1. Span(e) \subseteq M[ns[i].sn] \/ Span(e) \intersect M[ns[i].sn] = {}
  BY WholePiece
<1>2. /\ ns[i].soStart \in Unit /\ ns[i].soEnd \in Unit /\ ns[i].soStart <= ns[i].soEnd
      /\ \A u \in Run(ns[i]) : u \in M[ns[i].sn]
  BY NackFacts DEF Truthful
<1>3. ns[i].soEnd \in M[ns[i].sn] /\ ns[i].soEnd + 1 \notin M[ns[i].sn]
  <2>1. ns[i].soEnd \in Run(ns[i])
    BY <1>2, UnitFacts, SMT DEF Run
  <2>2. QED
    BY <1>2, <2>1 DEF Truthful, Names
<1>4. SUFFICES ASSUME e.so <= ns[i].soEnd
               PROVE  FALSE
  BY <1>2, UnitFacts, SMT
<1>5. ns[i].soEnd \in Span(e) /\ ns[i].soEnd + 1 \in Span(e)
  BY <1>2, <1>4, UnitFacts, SMT DEF Span
<1>6. QED
  BY <1>1, <1>3, <1>5

\* NACKs with lower indices ask for lower SNs, or for earlier units of the same.
LEMMA NackOrder ==
    ASSUME WinOK, NEW M, NEW ns, NEW d, Names(M, ns, d),
           NEW i \in DOMAIN ns, NEW j \in DOMAIN ns, j <= i
    PROVE  /\ Dist(ns[j].sn) <= Dist(ns[i].sn)
           /\ ns[j].sn = ns[i].sn => ns[j].soEnd <= ns[i].soEnd
           /\ ns[j].sn = ns[i].sn /\ j # i => ns[j].soEnd < ns[i].soStart
           /\ \A e : Past(e, ns[i]) /\ e.so \in Unit /\ e.sn \in Sn => Past(e, ns[j])
<1>1. /\ Dist(ns[i].sn) \in Nat /\ Dist(ns[j].sn) \in Nat /\ i \in Nat /\ j \in Nat
      /\ ns[i].soStart \in Nat /\ ns[i].soEnd \in Nat /\ ns[i].soStart <= ns[i].soEnd
      /\ ns[j].soEnd \in Nat
  BY NackFacts, UnitFacts
<1>2. j = i \/ Dist(ns[j].sn) < Dist(ns[i].sn) \/ (ns[j].sn = ns[i].sn /\ ns[j].soEnd < ns[i].soStart)
  <2>1. j = i \/ j < i
    BY <1>1, SMT
  <2>2. QED
    BY <2>1 DEF Names
<1>3. /\ Dist(ns[j].sn) <= Dist(ns[i].sn)
      /\ ns[j].sn = ns[i].sn => ns[j].soEnd <= ns[i].soEnd
      /\ ns[j].sn = ns[i].sn /\ j # i => ns[j].soEnd < ns[i].soStart
  BY <1>1, <1>2, SMT
<1>4. ASSUME NEW e, Past(e, ns[i]), e.so \in Unit, e.sn \in Sn
      PROVE  Past(e, ns[j])
  <2>1. Dist(e.sn) \in Nat /\ e.so \in Nat
    BY <1>4, DistNat, UnitFacts DEF WinOK
  <2>2. QED
    BY <1>1, <1>2, <1>4, <2>1, SMT DEF Past
<1>5. QED
  BY <1>3, <1>4

\* The entries after one without units of M has been released at node.
LEMMA ReleaseEntries ==
    ASSUME WinOK, NEW P, NEW M, NEW st, Good(P, M, st), st.node \in DOMAIN st.retx,
           Span(st.retx[st.node]) \intersect M[st.retx[st.node].sn] = {},
           NEW s2, s2 = SuccessfulReTx(st)
    PROVE  /\ Len(s2.retx) = Len(st.retx) - 1
           /\ \A j \in DOMAIN s2.retx :
                  /\ j < st.node => j \in DOMAIN st.retx /\ s2.retx[j] = st.retx[j]
                  /\ j >= st.node => j + 1 \in DOMAIN st.retx /\ s2.retx[j] = st.retx[j + 1]
           /\ \A t, u : u \in M[t] /\ AwaitAt(st, t, u) => AwaitAt(s2, t, u)
<1> DEFINE i == st.node
<1>1. st \in BufType /\ s2.retx = RemoveAt(st.retx, i) /\ i \in Nat
  <2>1. st \in BufType
    BY DEF Good
  <2>2. s2.retx = RemoveAt(st.retx, st.node)
    BY ReleaseGood
  <2>3. QED
    BY <2>1, <2>2, BufFields
<1>2. /\ Len(s2.retx) = Len(st.retx) - 1
      /\ \A j \in DOMAIN s2.retx :
             /\ j < i => j \in DOMAIN st.retx /\ s2.retx[j] = st.retx[j]
             /\ j >= i => j + 1 \in DOMAIN st.retx /\ s2.retx[j] = st.retx[j + 1]
      /\ \A j \in DOMAIN st.retx :
             /\ j < i => j \in DOMAIN s2.retx
             /\ j > i => j - 1 \in DOMAIN s2.retx /\ s2.retx[j - 1] = st.retx[j]
  BY <1>1, RemovedIndex
<1>3. ASSUME NEW t, NEW u, u \in M[t], AwaitAt(st, t, u)
      PROVE  AwaitAt(s2, t, u)
  <2>1. PICK j \in DOMAIN st.retx : Awaits(st.retx[j], t, u)
    BY <1>3 DEF AwaitAt
  <2>2. j # i
    BY <1>3, <2>1 DEF Awaits, Span
  <2>3. j < i \/ j > i
    BY <1>1, <2>2, RetxEntries, SMT
  <2>4. CASE j < i
    BY <1>2, <2>1, <2>4 DEF AwaitAt
  <2>5. CASE j > i
    BY <1>2, <2>1, <2>5 DEF AwaitAt
  <2>6. QED
    BY <2>3, <2>4, <2>5
<1>4. QED
  BY <1>2, <1>3

\* Such an entry behind the last NACK leaves everything else as it was.
LEMMA ReleaseMid ==
    ASSUME WinOK, NEW P, NEW M, NEW ns, NEW d, Truthful(P, M, ns, d), NEW i \in Nat, i <= Len(ns),
           NEW st, Mid(P, M, ns, i, st), st.node \in DOMAIN st.retx,
           Span(st.retx[st.node]) \intersect M[st.retx[st.node].sn] = {},
           NEW s2, s2 = SuccessfulReTx(st)
    PROVE  /\ Mid(P, M, ns, i, s2) /\ s2.txBuf = st.txBuf /\ s2.from = st.from
           /\ s2.node = st.node /\ Len(s2.retx) = Len(st.retx) - 1
           /\ \A c : CleanBelow(st, c) => CleanBelow(s2, c)
<1>1. /\ Good(P, M, st) /\ ~st.err /\ ~st.undef /\ st \in BufType /\ st.node \in Nat
      /\ Nodes(ns, i, st) /\ AllAwait(ns, i, st) /\ TxPast(ns, i, st) /\ TxFull(ns, i, st)
  BY BufFields DEF Mid, Good
<1>2. /\ Good(P, M, s2)
      /\ s2.txBuf = st.txBuf /\ s2.max = st.max /\ s2.undef = st.undef /\ s2.err = st.err
      /\ s2.node = st.node /\ s2.from = st.from
  BY <1>1, ReleaseGood
<1>3. /\ Len(s2.retx) = Len(st.retx) - 1
      /\ \A j \in DOMAIN s2.retx :
             /\ j < st.node => j \in DOMAIN st.retx /\ s2.retx[j] = st.retx[j]
             /\ j >= st.node => j + 1 \in DOMAIN st.retx /\ s2.retx[j] = st.retx[j + 1]
      /\ \A t, u : u \in M[t] /\ AwaitAt(st, t, u) => AwaitAt(s2, t, u)
  BY <1>1, ReleaseEntries
<1>4. Nodes(ns, i, s2)
  <2>1. ASSUME i > 0, NEW j \in DOMAIN s2.retx
        PROVE  j >= s2.node <=> Past(s2.retx[j], ns[i])
    <3>1. j \in Nat
      BY <1>2, <2>1, RetxEntries, SMT DEF Good
    <3>2. CASE j < st.node
      <4>1. j \in DOMAIN st.retx /\ s2.retx[j] = st.retx[j]
        BY <1>3, <3>2
      <4>2. QED
        BY <1>1, <1>2, <2>1, <4>1 DEF Nodes
    <3>3. CASE j >= st.node
      <4>1. j + 1 \in DOMAIN st.retx /\ s2.retx[j] = st.retx[j + 1]
        BY <1>3, <3>3
      <4>2. j + 1 >= st.node
        BY <1>1, <3>1, <3>3, SMT
      <4>3. QED
        BY <1>1, <1>2, <2>1, <3>3, <4>1, <4>2 DEF Nodes
    <3>4. QED
      BY <1>1, <3>1, <3>2, <3>3, SMT
  <2>2. QED
    BY <1>1, <1>2, <2>1 DEF Nodes
<1>5. AllAwait(ns, i, s2)
  <2>1. Names(M, ns, d)
    BY DEF Truthful
  <2>2. QED
    BY <1>1, <1>2, <1>3, <2>1, NackFacts DEF AllAwait
<1>6. TxPast(ns, i, s2) /\ TxFull(ns, i, s2)
  BY <1>1, <1>2 DEF TxPast, TxFull, TxUnits
<1>7. ASSUME NEW c, CleanBelow(st, c)
      PROVE  CleanBelow(s2, c)
  <2>1. ASSUME NEW j \in DOMAIN s2.retx
        PROVE  Dist(s2.retx[j].sn) >= c
    <3>1. j < st.node \/ j >= st.node
      BY <1>1, <1>2, <2>1, RetxEntries, SMT DEF Good
    <3>2. QED
      BY <1>3, <1>7, <3>1 DEF CleanBelow
  <2>2. QED
    BY <1>2, <1>7, <2>1 DEF CleanBelow
<1>8. QED
  BY <1>1, <1>2, <1>3, <1>4, <1>5, <1>6, <1>7 DEF Mid

-----------------------------------------------------------------------------
(* rlcAmmDlUpdTxAndReTxBufForLessThanNackSn.                               *)

\* After k turns of the loop, for the NACK after the i-th.
LessInv(P, M, ns, i, st, k, s) ==
    /\ s \in BufType /\ Mid(P, M, ns, i, s) /\ s.txBuf = st.txBuf /\ s.from = st.from
    /\ i > 0 => CleanBelow(s, Dist(ns[1].sn))
    /\ \/ Len(s.retx) <= Len(st.retx) - k
       \/ s.node \in DOMAIN s.retx => Dist(s.retx[s.node].sn) >= Dist(ns[i + 1].sn)

\* One turn of the loop confirms an entry below the NACK, or has ended.
LEMMA LessTurn ==
    ASSUME WinOK, NEW P, NEW M, NEW ns, NEW d, Truthful(P, M, ns, d), NEW i \in Nat, i < Len(ns),
           NEW st, NEW n \in Nat, n = Len(st.retx), NEW k \in 1 .. n,
           NEW s, LessInv(P, M, ns, i, st, k - 1, s),
           NEW s2, s2 = LessThanTurn(s, Dist(ns[i + 1].sn))
    PROVE  LessInv(P, M, ns, i, st, k, s2)
<1> DEFINE c == Dist(ns[i + 1].sn)
           e == s.retx[s.node]
<1>1. /\ s \in BufType /\ Mid(P, M, ns, i, s) /\ s.txBuf = st.txBuf /\ s.from = st.from
      /\ i > 0 => CleanBelow(s, Dist(ns[1].sn))
      /\ \/ Len(s.retx) <= Len(st.retx) - (k - 1)
         \/ s.node \in DOMAIN s.retx => Dist(e.sn) >= c
  BY DEF LessInv
<1>2. /\ Names(M, ns, d) /\ i + 1 \in DOMAIN ns /\ c \in Nat /\ c < d
      /\ Len(s.retx) \in Nat /\ DOMAIN s.retx = 1 .. Len(s.retx) /\ s.node \in Nat \ {0}
  <2>1. Names(M, ns, d) /\ ns \in Seq(NackType)
    BY DEF Truthful, Names
  <2>2. DOMAIN ns = 1 .. Len(ns) /\ Len(ns) \in Nat
    BY <2>1, LenProperties
  <2>3. i + 1 \in DOMAIN ns
    BY <2>2, SMT
  <2>4. QED
    BY <1>1, <2>1, <2>3, NackFacts, RetxEntries, BufFields
<1>3. CASE AtNode(s) /\ Dist(e.sn) < c
  <2>1. s2 = SuccessfulReTx(s) /\ s.node \in DOMAIN s.retx
    BY <1>3 DEF LessThanTurn, AtNode
  <2>2. /\ e.sn \in Sn /\ e.so \in Unit /\ e.end \in Unit /\ e.so <= e.end
        /\ Good(P, M, s) /\ <<e.sn, e.so, e.end>> \in P /\ Dist(e.sn) \in Nat
    BY <1>1, <2>1, RetxEntries, PiecesHeld, DistNat, Zenon DEF Mid, Good, RetxOrder, WinOK
  <2>3. e.so \notin M[e.sn]
    <3>1. i > 0 => Past(e, ns[i])
      <4>1. s.node >= s.node
        BY <1>2, SMT
      <4>2. QED
        BY <1>1, <2>1, <4>1 DEF Mid, Nodes
    <3>2. i > 0 => Dist(ns[i].sn) < Dist(e.sn) \/ (e.sn = ns[i].sn /\ ns[i].soEnd < e.so)
      BY <3>1 DEF Past
    <3>3. Dist(e.sn) < d
      <4>1. d \in Nat
        BY DEF Truthful
      <4>2. QED
        BY <1>2, <1>3, <2>2, <4>1, SMT
    <3>4. i <= Len(ns)
      BY <1>2, NackFacts, SMT
    <3>5. QED
      BY <1>2, <1>3, <2>2, <3>2, <3>3, <3>4, NotNamed
  <2>4. Span(e) \intersect M[e.sn] = {}
    BY <2>2, <2>3, WholePiece
  <2>5. i <= Len(ns)
    BY <1>2, NackFacts, SMT
  <2>6. /\ Mid(P, M, ns, i, s2) /\ s2.txBuf = s.txBuf /\ s2.from = s.from
        /\ s2.node = s.node /\ Len(s2.retx) = Len(s.retx) - 1
        /\ \A b : CleanBelow(s, b) => CleanBelow(s2, b)
    BY <1>1, <2>1, <2>4, <2>5, ReleaseMid
  <2>7. Len(s2.retx) <= Len(st.retx) - k
    BY <1>1, <1>2, <1>3, <2>1, <2>2, <2>6, SMT
  <2>8. QED
    BY <1>1, <2>6, <2>7 DEF LessInv, Mid, Good
<1>4. CASE ~(AtNode(s) /\ Dist(e.sn) < c)
  <2>1. s2 = s
    BY <1>4 DEF LessThanTurn
  <2>2. s.node \in DOMAIN s.retx => Dist(e.sn) >= c
    <3>1. s.node \in DOMAIN s.retx => Dist(e.sn) \in Nat
      BY <1>1, RetxEntries, DistNat DEF WinOK
    <3>2. QED
      BY <1>2, <1>4, <3>1, SMT DEF AtNode
  <2>3. QED
    BY <1>1, <2>1, <2>2 DEF LessInv
<1>5. QED
  BY <1>3, <1>4

\* The loop.
LEMMA LessLoop ==
    ASSUME WinOK, NEW P, NEW M, NEW ns, NEW d, Truthful(P, M, ns, d), NEW i \in Nat, i < Len(ns),
           NEW st \in BufType, LessInv(P, M, ns, i, st, 0, st), NEW c, c = Dist(ns[i + 1].sn)
    PROVE  LessInv(P, M, ns, i, st, Len(st.retx), LessThanInRetx(st, c))
<1> DEFINE n == Len(st.retx)
           Inv(k, s) == LessInv(P, M, ns, i, st, k, s)
           Turn(b, s) == LessThanTurn(s, c)
           R == [k \in 0 .. n |-> {s \in BufType : Inv(k, s)}]
           T == [p \in (1 .. n) \X BufType |-> IF p[2] \in R[p[1] - 1] THEN Turn(p[1], p[2]) ELSE st]
           f == CHOOSE f : f = [k \in 0 .. n |-> IF k = 0 THEN st ELSE Turn(k, f[k - 1])]
<1>1. n \in Nat
  BY RetxEntries
<1>2. ASSUME NEW k \in 1 .. n, NEW s, Inv(k - 1, s)
      PROVE  Inv(k, Turn(k, s)) /\ Turn(k, s) \in BufType
  <2>1. Inv(k, Turn(k, s))
    BY <1>1, <1>2, LessTurn
  <2>2. QED
    BY <2>1 DEF LessInv
<1>3. LessThanInRetx(st, c) = f[n]
  BY DEF LessThanInRetx, WhileNodes, AfterTurns
<1> HIDE DEF Inv, Turn, n
<1>4. R \in [0 .. n -> SUBSET BufType] /\ st \in R[0]
  BY <1>1 DEF Inv, n
<1>5. \A k \in 1 .. n : k - 1 \in 0 .. n /\ k \in 0 .. n
  BY <1>1, SMT
<1>6. \A k \in 1 .. n : \A s \in R[k - 1] : Turn(k, s) \in R[k]
  BY <1>2, <1>5
<1>7. T \in [(1 .. n) \X BufType -> BufType]
  BY <1>4, <1>5, <1>6, Zenon
<1>8. \A k \in 1 .. n : \A s \in R[k - 1] : T[<<k, s>>] = Turn(k, s)
  BY <1>4, <1>5
<1> HIDE DEF T, R, f
<1>9. \A k \in 1 .. n : \A s \in R[k - 1] : T[<<k, s>>] \in R[k]
  BY <1>6, <1>8, Zenon
<1>10. \E g : IsLoop(g, n, st, T) /\ \A k \in 0 .. n : g[k] \in R[k]
  BY <1>1, <1>4, <1>7, <1>9, TurnsExist, Zenon
<1>11. \E g : g = [k \in 0 .. n |-> IF k = 0 THEN st ELSE Turn(k, g[k - 1])]
  <2>1. PICK g : /\ g = [k \in 0 .. n |-> IF k = 0 THEN st ELSE T[<<k, g[k - 1]>>]]
                 /\ \A k \in 0 .. n : g[k] \in R[k]
    BY <1>10, Zenon DEF IsLoop
  <2>2. \A k \in 0 .. n : k # 0 => k \in 1 .. n
    BY SMT
  <2>3. \A k \in 0 .. n : k # 0 => T[<<k, g[k - 1]>>] = Turn(k, g[k - 1])
    BY <1>5, <1>8, <2>1, <2>2
  <2>4. QED
    BY <2>1, <2>3, Zenon
<1>12. f = [k \in 0 .. n |-> IF k = 0 THEN st ELSE Turn(k, f[k - 1])]
  BY <1>11, Zenon DEF f
<1>13. f[n] \in R[n]
  <2>1. f[0] \in R[0]
    BY <1>1, <1>4, <1>12
  <2>2. ASSUME NEW k \in 1 .. n, f[k - 1] \in R[k - 1]
        PROVE  f[k] \in R[k]
    <3>1. f[k] = Turn(k, f[k - 1])
      BY <1>5, <1>12, SMT
    <3>2. QED
      BY <1>6, <2>2, <3>1
  <2>3. QED
    BY <1>1, <2>1, <2>2, TurnsEnd
<1>14. Inv(n, f[n])
  BY <1>1, <1>13 DEF R
<1>15. QED
  BY <1>3, <1>14 DEF Inv, n

\* The lists when the NACK after the i-th is about to be applied.
Ready(P, M, ns, i, st) ==
    /\ Mid(P, M, ns, i, st) /\ From(ns, i + 1, st) /\ CleanBelow(st, Dist(ns[1].sn))
    /\ st.node \in DOMAIN st.retx => Dist(st.retx[st.node].sn) >= Dist(ns[i + 1].sn)

\* The distances a truthful report speaks of, with ns[i + 1] as a NACK of it.
LEMMA NextNack ==
    ASSUME WinOK, NEW P, NEW M, NEW ns, NEW d, Truthful(P, M, ns, d), NEW i \in Nat, i < Len(ns)
    PROVE  /\ Names(M, ns, d) /\ i + 1 \in DOMAIN ns /\ 1 \in DOMAIN ns /\ i <= Len(ns)
           /\ i > 0 => i \in DOMAIN ns
           /\ DOMAIN ns = 1 .. Len(ns) /\ Len(ns) \in Nat
           /\ Dist(ns[i + 1].sn) \in Nat /\ Dist(ns[1].sn) \in Nat
           /\ Dist(ns[1].sn) <= Dist(ns[i + 1].sn) /\ Dist(ns[i + 1].sn) < d /\ d \in Nat
           /\ d <= Dist(txNext) /\ Dist(txNext) \in Nat
           /\ Dist(ns[i + 1].sn) < Dist(txNext)
<1>1. Names(M, ns, d) /\ ns \in Seq(NackType) /\ d \in Nat /\ d <= Dist(txNext)
  BY DEF Truthful, Names
<1>2. DOMAIN ns = 1 .. Len(ns) /\ Len(ns) \in Nat
  BY <1>1, LenProperties
<1>3. i + 1 \in DOMAIN ns /\ 1 \in DOMAIN ns /\ i <= Len(ns) /\ 1 <= i + 1 /\ (i > 0 => i \in DOMAIN ns)
  BY <1>2, SMT
<1>4. /\ Dist(ns[i + 1].sn) \in Nat /\ Dist(ns[1].sn) \in Nat
      /\ Dist(ns[i + 1].sn) < d
  BY <1>1, <1>3, NackFacts
<1>5. Dist(ns[1].sn) <= Dist(ns[i + 1].sn)
  <2> DEFINE m == i + 1
  <2>1. m \in DOMAIN ns /\ 1 <= m
    BY <1>3
  <2> HIDE DEF m
  <2>2. Dist(ns[1].sn) <= Dist(ns[m].sn)
    BY <1>1, <1>3, <2>1, NackOrder
  <2>3. QED
    BY <2>2 DEF m
<1>6. Dist(txNext) \in Nat
  BY DistNat DEF WinOK
<1>7. QED
  BY <1>1, <1>2, <1>3, <1>4, <1>5, <1>6, SMT

\* The SN after one below another.
LEMMA SuccDist ==
    ASSUME WinOK, NEW x \in Sn, NEW y \in Sn, Dist(x) < Dist(y)
    PROVE  Dist(AddSn(x, 1)) = Dist(x) + 1
  BY WinSzAssumption, SMT DEF Dist, ModSn, AddSn, Sn, SnMod, WinOK

\* rlcAmmDlUpdTxAndReTxBufForLessThanNackSn: what lies between two NACKs is
\* confirmed.
LEMMA LessReady ==
    ASSUME WinOK, NEW P, NEW M, NEW ns, NEW d, Truthful(P, M, ns, d), NEW i \in Nat, i < Len(ns),
           NEW st, Between(P, M, ns, i, st), NEW c, c = Dist(ns[i + 1].sn),
           NEW s2, s2 = [LessThanNackSn(st, c) EXCEPT !.from = AddSn(ns[i + 1].sn, 1)]
    PROVE  Ready(P, M, ns, i, s2)
<1> DEFINE s == LessThanInRetx(st, c)
           sns == {sn \in Sn : Dist(s.from) <= Dist(sn) /\ Dist(sn) < c}
           s1 == SuccessfulTxPdus(s, sns)
           f == AddSn(ns[i + 1].sn, 1)
<1>1. /\ Names(M, ns, d) /\ i + 1 \in DOMAIN ns /\ 1 \in DOMAIN ns /\ i <= Len(ns)
      /\ i > 0 => i \in DOMAIN ns
      /\ Dist(ns[1].sn) \in Nat /\ Dist(ns[1].sn) <= c /\ c < d /\ d \in Nat /\ c \in Nat
      /\ d <= Dist(txNext) /\ Dist(txNext) \in Nat /\ c < Dist(txNext)
  BY NextNack
<1>2. st \in BufType /\ Mid(P, M, ns, i, st) /\ From(ns, i, st)
      /\ (i > 0 => CleanBelow(st, Dist(ns[1].sn)))
  BY DEF Between, Mid, Good
<1>3. LessInv(P, M, ns, i, st, Len(st.retx), s)
  <2>1. Len(st.retx) \in Nat
    BY <1>2, RetxEntries
  <2>2. LessInv(P, M, ns, i, st, 0, st)
    BY <1>2, <2>1, SMT DEF LessInv
  <2>3. QED
    BY <1>2, <2>2, LessLoop
<1>4. s1 = LessThanNackSn(st, c) /\ [s EXCEPT !.from = st.from] = s
  <2>1. s \in BufType /\ s.from = st.from
    BY <1>3 DEF LessInv
  <2>2. LessThanNackSn(st, c) = SuccessfulTxPdus(s, {sn \in Sn : Dist(st.from) <= Dist(sn) /\ Dist(sn) < c})
    BY DEF LessThanNackSn
  <2>3. QED
    BY <2>1, <2>2, Zenon DEF BufType
<1> HIDE DEF s
<1>5. /\ s \in BufType /\ Mid(P, M, ns, i, s) /\ From(ns, i, s)
      /\ i > 0 => CleanBelow(s, Dist(ns[1].sn))
      /\ s.node \in DOMAIN s.retx => Dist(s.retx[s.node].sn) >= c
  <2>1. /\ s \in BufType /\ Mid(P, M, ns, i, s) /\ s.from = st.from
        /\ i > 0 => CleanBelow(s, Dist(ns[1].sn))
        /\ \/ Len(s.retx) <= Len(st.retx) - Len(st.retx)
           \/ s.node \in DOMAIN s.retx => Dist(s.retx[s.node].sn) >= c
    BY <1>3 DEF LessInv
  <2>2. /\ Len(s.retx) \in Nat /\ DOMAIN s.retx = 1 .. Len(s.retx) /\ Len(st.retx) \in Nat
    BY <1>2, <2>1, RetxEntries
  <2>3. CASE Len(s.retx) <= Len(st.retx) - Len(st.retx)
    <3>1. DOMAIN s.retx = {}
      BY <2>2, <2>3, SMT
    <3>2. QED
      BY <1>2, <2>1, <3>1 DEF From
  <2>4. CASE s.node \in DOMAIN s.retx => Dist(s.retx[s.node].sn) >= c
    BY <1>2, <2>1, <2>4 DEF From
  <2>5. QED
    BY <2>1, <2>3, <2>4
<1>6. /\ Good(P, M, s) /\ ~s.err /\ ~s.undef /\ s.from \in Sn
      /\ Nodes(ns, i, s) /\ AllAwait(ns, i, s) /\ TxPast(ns, i, s) /\ TxFull(ns, i, s)
  BY <1>5, BufFields DEF Mid
<1>7. \A sn \in sns : TxUnits(s, sn) \intersect M[sn] = {}
  <2>1. SUFFICES ASSUME NEW sn \in sns, NEW u \in TxUnits(s, sn)
                 PROVE  u \notin M[sn]
    OBVIOUS
  <2>2. sn \in Sn /\ Dist(s.from) <= Dist(sn) /\ Dist(sn) < c /\ u \in Unit /\ Dist(sn) \in Nat
    BY <2>1, DistNat DEF TxUnits, WinOK
  <2>3. i > 0 => Dist(ns[i].sn) < Dist(sn)
    <3>1. i > 0 => Dist(s.from) = Dist(ns[i].sn) + 1 /\ Dist(ns[i].sn) \in Nat
      BY <1>1, <1>5, NackFacts DEF From
    <3>2. QED
      BY <2>2, <3>1, SMT
  <2>4. Dist(sn) < d
    BY <1>1, <2>2, SMT
  <2>5. QED
    BY <1>1, <2>2, <2>3, <2>4, NotNamed
<1>8. /\ Good(P, M, s1)
      /\ s1.txBuf = [sn \in Sn |-> IF sn \in sns THEN <<>> ELSE s.txBuf[sn]]
      /\ s1.retx = s.retx /\ s1.max = s.max /\ s1.undef = s.undef /\ s1.err = s.err
      /\ s1.node = s.node
  <2>1. sns \in SUBSET Sn
    OBVIOUS
  <2> HIDE DEF sns
  <2>2. QED
    BY <1>6, <1>7, <2>1, TxReleaseGood
<1>9. /\ s2 \in BufType /\ s2.from = f /\ s2.txBuf = s1.txBuf /\ s2.retx = s1.retx /\ s2.rcvd = s1.rcvd
      /\ s2.max = s1.max /\ s2.undef = s1.undef /\ s2.err = s1.err /\ s2.node = s1.node
  <2>1. s1 \in BufType
    BY <1>8 DEF Good
  <2>2. f \in Sn
    <3>1. ns[i + 1].sn \in Sn
      BY <1>1, NackFacts
    <3>2. QED
      BY <3>1, AddSnType, WinSzAssumption, SMT DEF SnMod
  <2>3. s2 = [s1 EXCEPT !.from = f]
    BY <1>4
  <2> HIDE DEF s1, f
  <2>4. QED
    BY <2>1, <2>2, <2>3, Zenon DEF BufType
<1>10. Good(P, M, s2)
  <2>1. SameShape(s1.retx, s2.retx)
    BY <1>9, Zenon DEF SameShape
  <2> HIDE DEF s1
  <2>2. QED
    BY <1>8, <1>9, <2>1, SameShapeGood, Zenon
<1>11. /\ s2.txBuf = [sn \in Sn |-> IF sn \in sns THEN <<>> ELSE s.txBuf[sn]]
       /\ s2.retx = s.retx /\ s2.max = s.max /\ s2.undef = s.undef /\ s2.err = s.err
       /\ s2.node = s.node /\ s2.from = f
  BY <1>8, <1>9
<1> HIDE DEF s1
<1>12. Nodes(ns, i, s2) /\ AllAwait(ns, i, s2)
  BY <1>6, <1>11 DEF Nodes, AllAwait, AwaitAt
<1>13. TxPast(ns, i, s2)
  <2>1. ASSUME NEW j \in DOMAIN ns, j <= i, NEW k \in DOMAIN s2.txBuf[ns[j].sn]
        PROVE  ns[j].soEnd < s2.txBuf[ns[j].sn][k].so
    <3>1. ns[j].sn \in Sn
      BY <1>1, NackFacts
    <3>2. ns[j].sn \notin sns
      <4>1. SUFFICES ASSUME ns[j].sn \in sns
                     PROVE  FALSE
        OBVIOUS
      <4>2. s2.txBuf[ns[j].sn] = <<>>
        BY <1>11, <3>1, <4>1
      <4>3. QED
        BY <2>1, <4>2
    <3>3. s2.txBuf[ns[j].sn] = s.txBuf[ns[j].sn]
      BY <1>11, <3>1, <3>2
    <3>4. QED
      BY <1>6, <2>1, <3>3 DEF TxPast
  <2>2. QED
    BY <2>1 DEF TxPast
<1>14. TxFull(ns, i, s2)
  <2>1. ASSUME NEW sn \in Sn, s2.txBuf[sn] # <<>> \/ sn = txNext
        PROVE  s2.txBuf[sn] = s.txBuf[sn]
    <3>1. sn \notin sns
      <4>1. SUFFICES ASSUME sn \in sns
                     PROVE  FALSE
        OBVIOUS
      <4>2. s2.txBuf[sn] = <<>> /\ Dist(sn) < c
        BY <1>11, <4>1
      <4>3. sn # txNext
        BY <1>1, <4>2, SMT
      <4>4. QED
        BY <2>1, <4>2, <4>3
    <3>2. QED
      BY <1>11, <3>1
  <2>2. \A sn \in Sn : s2.txBuf[sn] # <<>> \/ sn = txNext =>
                           /\ s2.txBuf[sn] = s.txBuf[sn] /\ TxUnits(s2, sn) = TxUnits(s, sn)
                           /\ s.txBuf[sn] # <<>> \/ sn = txNext
    BY <2>1 DEF TxUnits
  <2>3. QED
    BY <1>6, <2>2 DEF TxFull
<1>15. CleanBelow(s2, Dist(ns[1].sn))
  <2>1. ASSUME NEW j \in DOMAIN s2.retx
        PROVE  Dist(s2.retx[j].sn) >= Dist(ns[1].sn)
    <3>1. CASE i > 0
      BY <1>5, <1>11, <2>1, <3>1 DEF CleanBelow
    <3>2. CASE i = 0
      <4>1. s.node = 1 /\ c = Dist(ns[1].sn)
        BY <1>6, <3>2 DEF Nodes
      <4>2. /\ j \in DOMAIN s.retx /\ j \in Nat /\ 1 \in DOMAIN s.retx /\ 1 <= j
            /\ s.retx[j].sn \in Sn /\ s.retx[1].sn \in Sn
        BY <1>5, <1>11, <2>1, RetxEntries, SMT
      <4>3. Dist(s.retx[1].sn) >= c
        BY <1>5, <4>1, <4>2
      <4>4. Dist(s.retx[j].sn) >= Dist(s.retx[1].sn)
        <5>1. j = 1 \/ 1 < j
          BY <4>2, SMT
        <5>2. j = 1 \/ Before(s.retx[1], s.retx[j])
          BY <1>6, <4>2, <5>1 DEF Good, RetxOrder
        <5>3. Dist(s.retx[1].sn) \in Nat /\ Dist(s.retx[j].sn) \in Nat
          BY <4>2, DistNat DEF WinOK
        <5>4. QED
          BY <5>2, <5>3, SMT DEF Before
      <4>5. Dist(s.retx[1].sn) \in Nat /\ Dist(s.retx[j].sn) \in Nat
        BY <4>2, DistNat DEF WinOK
      <4>6. QED
        BY <1>1, <1>11, <4>1, <4>3, <4>4, <4>5, SMT
    <3>3. QED
      BY <3>1, <3>2
  <2>2. ASSUME NEW sn \in Sn, Dist(sn) < Dist(ns[1].sn)
        PROVE  s2.txBuf[sn] = <<>>
    <3>1. CASE sn \in sns
      BY <1>11, <3>1
    <3>2. CASE sn \notin sns
      <4>1. s2.txBuf[sn] = s.txBuf[sn] /\ Dist(sn) \in Nat
        BY <1>11, <3>2, DistNat DEF WinOK
      <4>2. i > 0
        <5>1. SUFFICES ASSUME i = 0
                       PROVE  FALSE
          BY SMT
        <5>2. Dist(s.from) = 0 /\ c = Dist(ns[1].sn)
          BY <1>5, <5>1 DEF From
        <5>3. sn \in sns
          BY <2>2, <4>1, <5>2, SMT
        <5>4. QED
          BY <3>2, <5>3
      <4>3. QED
        BY <1>5, <2>2, <4>1, <4>2 DEF CleanBelow
    <3>3. QED
      BY <3>1, <3>2
  <2>3. QED
    BY <2>1, <2>2 DEF CleanBelow
<1>16. From(ns, i + 1, s2)
  <2>1. ns[i + 1].sn \in Sn
    BY <1>1, NackFacts
  <2>2. Dist(f) = c + 1
    BY <1>1, <2>1, SuccDist DEF f, WinOK
  <2>3. i + 1 # 0
    BY SMT
  <2>4. QED
    BY <1>11, <2>2, <2>3 DEF From
<1>17. s2.node \in DOMAIN s2.retx => Dist(s2.retx[s2.node].sn) >= c
  BY <1>5, <1>11
<1>18. QED
  BY <1>6, <1>10, <1>11, <1>12, <1>13, <1>14, <1>15, <1>16, <1>17 DEF Ready, Mid

\* What comes behind an entry that is behind a run is behind the run.
LEMMA PastBefore ==
    ASSUME WinOK, NEW a, a.sn \in Sn, a.so \in Unit, a.end \in Unit, a.so <= a.end,
           NEW b, b.sn \in Sn, b.so \in Unit, Before(a, b),
           NEW n, n.sn \in Sn, n.soEnd \in Unit, Past(a, n)
    PROVE  Past(b, n)
<1>1. /\ Dist(a.sn) \in Nat /\ Dist(b.sn) \in Nat /\ Dist(n.sn) \in Nat
      /\ a.so \in Nat /\ a.end \in Nat /\ b.so \in Nat /\ n.soEnd \in Nat
  BY DistNat, UnitFacts DEF WinOK
<1>2. QED
  BY <1>1, SMT DEF Past, Before

\* TxPast and TxFull, when the NACK after the i-th has changed txBuf for its SN.
LEMMA TxNext ==
    ASSUME WinOK, NEW P, NEW M, NEW ns, NEW d, Truthful(P, M, ns, d), NEW i \in Nat, i < Len(ns),
           NEW st, TxPast(ns, i, st), TxFull(ns, i, st),
           NEW s2 \in BufType, NEW n, n = ns[i + 1],
           \A t \in Sn : t # n.sn => s2.txBuf[t] = st.txBuf[t],
           \A k \in DOMAIN s2.txBuf[n.sn] : n.soEnd < s2.txBuf[n.sn][k].so,
           s2.txBuf[n.sn] # <<>> => \A u \in SentUnits(n.sn) : n.soEnd < u => u \in TxUnits(s2, n.sn)
    PROVE  TxPast(ns, i + 1, s2) /\ TxFull(ns, i + 1, s2)
<1> DEFINE m == i + 1
<1>1. /\ Names(M, ns, d) /\ m \in DOMAIN ns /\ m \in Nat /\ n = ns[m] /\ n.sn \in Sn
      /\ n.soEnd \in Unit /\ Dist(n.sn) < Dist(txNext) /\ Dist(txNext) \in Nat
      /\ DOMAIN ns = 1 .. Len(ns)
  <2>1. Names(M, ns, d) /\ m \in DOMAIN ns /\ Dist(ns[m].sn) < Dist(txNext) /\ Dist(txNext) \in Nat
        /\ DOMAIN ns = 1 .. Len(ns)
    BY NextNack
  <2> HIDE DEF m
  <2>2. ns[m].sn \in Sn /\ ns[m].soEnd \in Unit /\ m \in Nat
    BY <2>1, NackFacts
  <2>3. QED
    BY <2>1, <2>2 DEF m
<1>2. \A j \in DOMAIN ns : j <= m => j <= i \/ j = m
  BY <1>1, SMT
<1>3. i <= m
  BY SMT
<1> HIDE DEF m
<1>4. TxPast(ns, m, s2)
  <2>1. ASSUME NEW j \in DOMAIN ns, j <= m, NEW k \in DOMAIN s2.txBuf[ns[j].sn]
        PROVE  ns[j].soEnd < s2.txBuf[ns[j].sn][k].so
    <3>1. ns[j].sn \in Sn /\ ns[j].soEnd \in Unit
      BY <1>1, NackFacts
    <3>2. CASE ns[j].sn # n.sn
      <4>1. j <= i
        BY <1>1, <1>2, <2>1, <3>2
      <4>2. s2.txBuf[ns[j].sn] = st.txBuf[ns[j].sn]
        BY <3>1, <3>2
      <4>3. QED
        BY <2>1, <4>1, <4>2 DEF TxPast
    <3>3. CASE ns[j].sn = n.sn
      <4>1. ns[j].soEnd <= n.soEnd
        BY <1>1, <2>1, <3>3, NackOrder
      <4>2. n.soEnd < s2.txBuf[n.sn][k].so /\ s2.txBuf[n.sn][k].so \in Unit
        BY <1>1, <2>1, <3>3, TxEntries, Zenon
      <4>3. QED
        BY <1>1, <3>1, <3>3, <4>1, <4>2, UnitFacts, SMT
    <3>4. QED
      BY <3>2, <3>3
  <2>2. QED
    BY <2>1 DEF TxPast
<1>5. TxFull(ns, m, s2)
  <2>1. ASSUME NEW sn \in Sn, s2.txBuf[sn] # <<>> \/ sn = txNext, NEW u \in SentUnits(sn),
               \A j \in DOMAIN ns : j <= m /\ ns[j].sn = sn => ns[j].soEnd < u
        PROVE  u \in TxUnits(s2, sn)
    <3>1. CASE sn = n.sn
      <4>1. n.soEnd < u
        BY <1>1, <2>1, <3>1, SMT
      <4>2. sn # txNext
        BY <1>1, <3>1, SMT
      <4>3. QED
        BY <2>1, <3>1, <4>1, <4>2
    <3>2. CASE sn # n.sn
      <4>1. s2.txBuf[sn] = st.txBuf[sn] /\ TxUnits(s2, sn) = TxUnits(st, sn)
        BY <3>2 DEF TxUnits
      <4>2. \A j \in DOMAIN ns : j <= i /\ ns[j].sn = sn => ns[j].soEnd < u
        <5>1. \A j \in DOMAIN ns : j <= i => j <= m
          BY <1>1, <1>3, SMT
        <5>2. QED
          BY <2>1, <5>1
      <4>3. QED
        BY <2>1, <4>1, <4>2 DEF TxFull
    <3>3. QED
      BY <3>1, <3>2
  <2>2. QED
    BY <2>1 DEF TxFull
<1>6. QED
  BY <1>4, <1>5 DEF m

\* The entries after the first PDU of an SN has been moved to retx.
LEMMA MovedEntries ==
    ASSUME WinOK, NEW st \in BufType, NEW sn \in Sn, st.txBuf[sn] # <<>>,
           NEW s2 \in BufType, HeadGone(st, s2, sn), MovedAt(st, s2, sn)
    PROVE  /\ \A t, u : AwaitAt(st, t, u) => AwaitAt(s2, t, u)
           /\ \A u \in Span(st.txBuf[sn][1]) : AwaitAt(s2, sn, u)
           /\ \A j \in DOMAIN s2.retx : j >= s2.node <=> Dist(s2.retx[j].sn) > Dist(sn)
           /\ \A j \in DOMAIN s2.retx :
                  \/ \E b \in DOMAIN st.retx : s2.retx[j] = st.retx[b]
                  \/ s2.retx[j].sn = sn /\ s2.retx[j].so = st.txBuf[sn][1].so
           /\ \A c \in Nat : CleanBelow(st, c) /\ c <= Dist(sn) => CleanBelow(s2, c)
<1>1. PICK k \in 0 .. Len(st.retx), r \in RetxType :
        /\ r = Retx(sn, st.txBuf[sn][1])
        /\ s2.node = k + 2
        /\ InsertedAt(st.retx, s2.retx, k, r)
        /\ \A j \in DOMAIN st.retx : j <= k <=> Dist(st.retx[j].sn) <= Dist(sn)
  BY DEF MovedAt
<1>2. /\ DOMAIN s2.retx = 1 .. Len(st.retx) + 1
      /\ \A j \in DOMAIN st.retx : (j <= k => s2.retx[j] = st.retx[j]) /\ (j > k => s2.retx[j + 1] = st.retx[j])
      /\ s2.retx[k + 1] = r
      /\ \A j \in DOMAIN s2.retx : /\ j <= k => j \in DOMAIN st.retx
                                   /\ j > k + 1 => j - 1 \in DOMAIN st.retx /\ s2.retx[j] = st.retx[j - 1]
  BY <1>1 DEF InsertedAt
<1>3. /\ Len(st.retx) \in Nat /\ DOMAIN st.retx = 1 .. Len(st.retx) /\ k \in Nat /\ k <= Len(st.retx)
      /\ k + 1 \in DOMAIN s2.retx
  BY <1>1, <1>2, RetxEntries, SMT
<1>4. /\ r.sn = sn /\ r.so = st.txBuf[sn][1].so /\ r.end = st.txBuf[sn][1].end /\ r.pendingReTrans
  BY <1>1 DEF Retx
<1>5. ASSUME NEW t, NEW u, AwaitAt(st, t, u)
      PROVE  AwaitAt(s2, t, u)
  <2>1. PICK j \in DOMAIN st.retx : Awaits(st.retx[j], t, u)
    BY <1>5 DEF AwaitAt
  <2>2. j \in DOMAIN s2.retx /\ j + 1 \in DOMAIN s2.retx /\ (j <= k \/ j > k)
    BY <1>2, <1>3, SMT
  <2>3. s2.retx[j] = st.retx[j] \/ s2.retx[j + 1] = st.retx[j]
    BY <1>2, <2>2
  <2>4. QED
    BY <2>1, <2>2, <2>3 DEF AwaitAt
<1>6. \A u \in Span(st.txBuf[sn][1]) : AwaitAt(s2, sn, u)
  BY <1>2, <1>3, <1>4 DEF AwaitAt, Awaits, Span
<1>7. ASSUME NEW j \in DOMAIN s2.retx
      PROVE  j >= s2.node <=> Dist(s2.retx[j].sn) > Dist(sn)
  <2>1. /\ j \in Nat /\ s2.retx[j].sn \in Sn /\ Dist(s2.retx[j].sn) \in Nat /\ Dist(sn) \in Nat
        /\ s2.node = k + 2
    BY <1>1, <1>2, <1>3, RetxEntries, DistNat, SMT DEF WinOK
  <2>2. CASE j <= k
    <3>1. j \in DOMAIN st.retx /\ s2.retx[j] = st.retx[j]
      BY <1>2, <2>2
    <3>2. Dist(s2.retx[j].sn) <= Dist(sn)
      BY <1>1, <2>2, <3>1
    <3>3. QED
      BY <1>3, <2>1, <2>2, <3>2, SMT
  <2>3. CASE j = k + 1
    BY <1>2, <1>3, <1>4, <2>1, <2>3, SMT
  <2>4. CASE j > k + 1
    <3> DEFINE b == j - 1
    <3>1. b \in DOMAIN st.retx /\ s2.retx[j] = st.retx[b] /\ ~(b <= k)
      BY <1>2, <1>3, <2>1, <2>4, SMT
    <3> HIDE DEF b
    <3>2. ~(Dist(s2.retx[j].sn) <= Dist(sn))
      BY <1>1, <3>1
    <3>3. QED
      BY <1>3, <2>1, <2>4, <3>2, SMT
  <2>5. QED
    BY <1>3, <2>1, <2>2, <2>3, <2>4, SMT
<1>8. ASSUME NEW j \in DOMAIN s2.retx
      PROVE  \/ \E b \in DOMAIN st.retx : s2.retx[j] = st.retx[b]
             \/ s2.retx[j].sn = sn /\ s2.retx[j].so = st.txBuf[sn][1].so
  <2>1. j <= k \/ j = k + 1 \/ j > k + 1
    BY <1>2, <1>3, SMT
  <2>2. QED
    BY <1>2, <1>4, <2>1, Zenon
<1>9. ASSUME NEW c \in Nat, CleanBelow(st, c), c <= Dist(sn)
      PROVE  CleanBelow(s2, c)
  <2>1. \A j \in DOMAIN s2.retx : Dist(s2.retx[j].sn) >= c
    <3>1. Dist(sn) >= c
      BY <1>9, DistNat, SMT DEF WinOK
    <3>2. QED
      BY <1>8, <1>9, <3>1 DEF CleanBelow
  <2>2. ASSUME NEW t \in Sn, Dist(t) < c
        PROVE  s2.txBuf[t] = <<>>
    <3>1. t # sn
      BY <1>9, <2>2, DistNat, SMT DEF WinOK
    <3>2. s2.txBuf[t] = st.txBuf[t]
      BY <3>1, HeadGoneIndex
    <3>3. QED
      BY <1>9, <2>2, <3>2 DEF CleanBelow
  <2>3. QED
    BY <2>1, <2>2 DEF CleanBelow
<1>10. QED
  BY <1>5, <1>6, <1>7, <1>8, <1>9

-----------------------------------------------------------------------------
(* The loop over retxLst of rlcAmmDlUpdateTxAndReTxBufForNackSn.           *)

\* Between the turns of it, for the NACK n after the i-th: begun with st, and with
\* at most l more turns to go.
NackInv(P, M, ns, i, n, st, l, s) ==
    /\ s \in BufType /\ Good(P, M, s) /\ ~s.err /\ ~s.undef
    /\ s.txBuf = st.txBuf /\ s.from = st.from
    /\ CleanBelow(s, Dist(ns[1].sn)) /\ AllAwait(ns, i, s)
    /\ \A j \in DOMAIN s.retx :
           IF j < s.node
           THEN /\ ~Past(s.retx[j], n)
                /\ ~s.max /\ s.retx[j].sn = n.sn /\ n.soStart <= s.retx[j].end =>
                       s.retx[j].pendingReTrans
           ELSE /\ Dist(s.retx[j].sn) >= Dist(n.sn)
                /\ i > 0 => Past(s.retx[j], ns[i])
    /\ \/ Len(s.retx) - s.node + 1 <= l
       \/ s.node \in DOMAIN s.retx => Past(s.retx[s.node], n)

\* s2 is s after the entry at node has been released.
Released(M, s, s2) ==
    /\ s2 \in BufType /\ s2.txBuf = s.txBuf /\ s2.max = s.max /\ s2.undef = s.undef /\ s2.err = s.err
    /\ s2.node = s.node /\ s2.from = s.from
    /\ Len(s2.retx) = Len(s.retx) - 1
    /\ \A j \in DOMAIN s2.retx :
           /\ j < s.node => j \in DOMAIN s.retx /\ s2.retx[j] = s.retx[j]
           /\ j >= s.node => j + 1 \in DOMAIN s.retx /\ s2.retx[j] = s.retx[j + 1]
    /\ \A t, u : u \in M[t] /\ AwaitAt(s, t, u) => AwaitAt(s2, t, u)

\* rlcAmmDlProcessSuccessfulReTx at node, of an entry with no unit of M.
LEMMA ReleasedEntry ==
    ASSUME WinOK, NEW P, NEW M, NEW s, Good(P, M, s), s.node \in DOMAIN s.retx,
           Span(s.retx[s.node]) \intersect M[s.retx[s.node].sn] = {},
           NEW s2, s2 = SuccessfulReTx(s)
    PROVE  Good(P, M, s2) /\ Released(M, s, s2)
<1>1. /\ Good(P, M, s2)
      /\ s2.txBuf = s.txBuf /\ s2.max = s.max /\ s2.undef = s.undef /\ s2.err = s.err
      /\ s2.node = s.node /\ s2.from = s.from
  BY ReleaseGood
<1>2. /\ Len(s2.retx) = Len(s.retx) - 1
      /\ \A j \in DOMAIN s2.retx :
             /\ j < s.node => j \in DOMAIN s.retx /\ s2.retx[j] = s.retx[j]
             /\ j >= s.node => j + 1 \in DOMAIN s.retx /\ s2.retx[j] = s.retx[j + 1]
      /\ \A t, u : u \in M[t] /\ AwaitAt(s, t, u) => AwaitAt(s2, t, u)
  BY ReleaseEntries
<1>3. s2 \in BufType
  BY <1>1 DEF Good
<1>4. QED
  BY <1>1, <1>2, <1>3 DEF Released

\* A confirmed entry leaves the loop where it was.
LEMMA NackReleased ==
    ASSUME WinOK, NEW P, NEW M, NEW ns, NEW d, Truthful(P, M, ns, d), NEW i \in Nat, i < Len(ns),
           NEW n, n = ns[i + 1], NEW st, NEW l \in Nat,
           NEW s, NackInv(P, M, ns, i, n, st, l, s), NEW l2, l2 = l - 1,
           s.node \in DOMAIN s.retx, ~Past(s.retx[s.node], n),
           NEW s2, Good(P, M, s2), Released(M, s, s2)
    PROVE  NackInv(P, M, ns, i, n, st, l2, s2)
<1>1. /\ s \in BufType /\ Good(P, M, s) /\ ~s.err /\ ~s.undef
      /\ s.txBuf = st.txBuf /\ s.from = st.from
      /\ CleanBelow(s, Dist(ns[1].sn)) /\ AllAwait(ns, i, s)
  BY DEF NackInv
<1>10. Len(s.retx) - s.node + 1 <= l
  BY DEF NackInv
<1>2. /\ Good(P, M, s2) /\ s2 \in BufType
      /\ s2.txBuf = s.txBuf /\ s2.max = s.max /\ s2.undef = s.undef /\ s2.err = s.err
      /\ s2.node = s.node /\ s2.from = s.from
  BY DEF Released
<1>3. /\ Len(s2.retx) = Len(s.retx) - 1
      /\ \A j \in DOMAIN s2.retx :
             /\ j < s.node => j \in DOMAIN s.retx /\ s2.retx[j] = s.retx[j]
             /\ j >= s.node => j + 1 \in DOMAIN s.retx /\ s2.retx[j] = s.retx[j + 1]
      /\ \A t, u : u \in M[t] /\ AwaitAt(s, t, u) => AwaitAt(s2, t, u)
  BY DEF Released
<1>4. /\ Len(s.retx) \in Nat /\ s.node \in Nat /\ DOMAIN s2.retx \subseteq Nat
  <2>1. s \in BufType /\ s2 \in BufType
    BY <1>1, <1>2
  <2>2. Len(s.retx) \in Nat /\ DOMAIN s2.retx = 1 .. Len(s2.retx) /\ s.node \in Nat
    BY <2>1, RetxEntries, BufFields
  <2>3. QED
    BY <2>2, SMT
<1>5. ASSUME NEW j \in DOMAIN s2.retx
      PROVE  /\ Dist(s2.retx[j].sn) >= Dist(ns[1].sn)
             /\ IF j < s2.node
                THEN /\ ~Past(s2.retx[j], n)
                     /\ ~s2.max /\ s2.retx[j].sn = n.sn /\ n.soStart <= s2.retx[j].end =>
                            s2.retx[j].pendingReTrans
                ELSE /\ Dist(s2.retx[j].sn) >= Dist(n.sn)
                     /\ i > 0 => Past(s2.retx[j], ns[i])
  <2>1. j \in Nat /\ (j < s.node \/ j >= s.node)
    BY <1>4, <1>5, SMT
  <2>2. CASE j < s.node
    <3>1. j \in DOMAIN s.retx /\ s2.retx[j] = s.retx[j]
      BY <1>3, <1>5, <2>2
    <3>2. QED
      BY <1>1, <1>2, <2>2, <3>1 DEF NackInv, CleanBelow
  <2>3. CASE j >= s.node
    <3> DEFINE b == j + 1
    <3>1. b \in DOMAIN s.retx /\ s2.retx[j] = s.retx[b] /\ ~(b < s.node) /\ ~(j < s.node)
      BY <1>3, <1>4, <1>5, <2>1, <2>3, SMT
    <3> HIDE DEF b
    <3>2. QED
      BY <1>1, <1>2, <3>1 DEF NackInv, CleanBelow
  <2>4. QED
    BY <2>1, <2>2, <2>3
<1>6. CleanBelow(s2, Dist(ns[1].sn))
  BY <1>1, <1>2, <1>5 DEF CleanBelow
<1>7. AllAwait(ns, i, s2)
  <2>1. Names(M, ns, d)
    BY DEF Truthful
  <2>2. QED
    BY <1>1, <1>2, <1>3, <2>1, NackFacts DEF AllAwait
<1>8. Len(s2.retx) - s2.node + 1 <= l2
  <2> DEFINE a == Len(s.retx)
             b == Len(s2.retx)
             c == s.node
  <2>1. b = a - 1 /\ s2.node = c /\ a \in Nat /\ c \in Nat /\ a - c + 1 <= l
    BY <1>2, <1>3, <1>4, <1>10
  <2> HIDE DEF a, b, c
  <2>2. b - c + 1 <= l2
    BY <2>1, SMT
  <2>3. QED
    BY <2>1, <2>2 DEF b
<1>9. QED
  BY <1>1, <1>2, <1>5, <1>6, <1>7, <1>8 DEF NackInv

\* An entry that the NACK names is marked, or given up.
LEMMA NackMarked ==
    ASSUME WinOK, NEW P, NEW M, NEW ns, NEW d, Truthful(P, M, ns, d), NEW i \in Nat, i < Len(ns),
           NEW n, n = ns[i + 1], NEW st, NEW l \in Nat,
           NEW s, NackInv(P, M, ns, i, n, st, l, s), NEW l2, l2 = l - 1,
           s.node \in DOMAIN s.retx, ~Past(s.retx[s.node], n),
           NEW s2, s2 = MarkPduForReTx(s)
    PROVE  NackInv(P, M, ns, i, n, st, l2, s2)
<1>1. /\ s \in BufType /\ Good(P, M, s) /\ ~s.err /\ ~s.undef
      /\ s.txBuf = st.txBuf /\ s.from = st.from
      /\ CleanBelow(s, Dist(ns[1].sn)) /\ AllAwait(ns, i, s)
  BY DEF NackInv
<1>10. Len(s.retx) - s.node + 1 <= l
  BY DEF NackInv
<1>11. Good(P, M, s)
  BY <1>1
<1>2. /\ Good(P, M, s2) /\ s2 \in BufType
      /\ s2.txBuf = s.txBuf /\ s2.undef = s.undef /\ s2.err = s.err /\ s2.from = s.from
      /\ MarkedAt(s, s2) \/ GivenUpAt(s, s2)
  <2>1. /\ Good(P, M, s2)
        /\ s2.txBuf = s.txBuf /\ s2.undef = s.undef /\ s2.err = s.err /\ s2.from = s.from
        /\ MarkedAt(s, s2) \/ GivenUpAt(s, s2)
    BY <1>11, MarkGood
  <2>2. QED
    BY <2>1 DEF Good
<1>3. /\ Len(s.retx) \in Nat /\ s.node \in Nat /\ DOMAIN s2.retx \subseteq Nat
      /\ DOMAIN s.retx = 1 .. Len(s.retx)
      /\ \A j \in DOMAIN s.retx : s.retx[j].pendingReTrans \in BOOLEAN
  BY <1>1, <1>2, RetxEntries, BufFields
<1>4. CASE MarkedAt(s, s2)
  <2>1. /\ s2.max = s.max /\ s2.node = s.node + 1
        /\ Len(s2.retx) = Len(s.retx)
        /\ \A j \in DOMAIN s.retx : j # s.node => s2.retx[j] = s.retx[j]
        /\ ~s.max => s2.retx[s.node].pendingReTrans
        /\ DOMAIN s.retx = DOMAIN s2.retx
        /\ \A j \in DOMAIN s.retx : /\ s2.retx[j].sn = s.retx[j].sn /\ s2.retx[j].so = s.retx[j].so
                                    /\ s2.retx[j].end = s.retx[j].end
    BY <1>4 DEF MarkedAt, SameShape
  <2>2. \A j \in DOMAIN s.retx : /\ \A m : Past(s2.retx[j], m) <=> Past(s.retx[j], m)
                                 /\ ~s.max /\ s.retx[j].pendingReTrans => s2.retx[j].pendingReTrans
    BY <2>1 DEF Past
  <2>3. ASSUME NEW j \in DOMAIN s2.retx
        PROVE  IF j < s2.node
               THEN /\ ~Past(s2.retx[j], n)
                    /\ ~s2.max /\ s2.retx[j].sn = n.sn /\ n.soStart <= s2.retx[j].end =>
                           s2.retx[j].pendingReTrans
               ELSE /\ Dist(s2.retx[j].sn) >= Dist(n.sn)
                    /\ i > 0 => Past(s2.retx[j], ns[i])
    <3>1. j \in Nat /\ j \in DOMAIN s.retx
      BY <1>3, <2>1, <2>3
    <3>2. CASE j < s.node
      <4>1. j < s2.node
        BY <1>3, <2>1, <3>1, <3>2, SMT
      <4>2. QED
        BY <2>1, <2>2, <3>1, <3>2, <4>1, Zenon DEF NackInv
    <3>3. CASE j = s.node
      <4>1. j < s2.node
        BY <1>3, <2>1, <3>1, <3>3, SMT
      <4>2. QED
        BY <2>1, <2>2, <3>1, <3>3, <4>1, Zenon
    <3>4. CASE j > s.node
      <4>1. ~(j < s2.node) /\ ~(j < s.node)
        BY <1>3, <2>1, <3>1, <3>4, SMT
      <4>2. QED
        BY <2>1, <2>2, <3>1, <4>1, Zenon DEF NackInv
    <3>5. QED
      BY <1>3, <3>1, <3>2, <3>3, <3>4, SMT
  <2>4. CleanBelow(s2, Dist(ns[1].sn))
    BY <1>1, <1>2, <2>1 DEF CleanBelow
  <2>5. AllAwait(ns, i, s2)
    <3>1. \A t, u : ~s.max /\ AwaitAt(s, t, u) => AwaitAt(s2, t, u)
      <4>1. ASSUME NEW t, NEW u, ~s.max, NEW j \in DOMAIN s.retx, Awaits(s.retx[j], t, u)
            PROVE  AwaitAt(s2, t, u)
        <5>1. j \in DOMAIN s2.retx /\ Awaits(s2.retx[j], t, u)
          BY <2>1, <2>2, <4>1 DEF Awaits
        <5>2. QED
          BY <5>1 DEF AwaitAt
      <4>2. QED
        BY <4>1 DEF AwaitAt
    <3>2. QED
      BY <1>1, <2>1, <3>1 DEF AllAwait
  <2>6. Len(s2.retx) - s2.node + 1 <= l2
    <3>1. Len(s2.retx) = Len(s.retx) /\ s2.node = s.node + 1 /\ Len(s.retx) \in Nat /\ s.node \in Nat
      BY <1>3, <2>1
    <3>2. QED
      <4> DEFINE x == Len(s.retx)
                 y == s.node
                 z == Len(s2.retx)
                 w == s2.node
      <4>1. /\ z = x /\ w = y + 1 /\ x \in Nat /\ y \in Nat /\ x - y + 1 <= l /\ l2 = l - 1
        BY <1>10, <3>1
      <4> HIDE DEF x, y, z, w
      <4>2. z - w + 1 <= l2
        BY <4>1, SMT
      <4>3. QED
        BY <4>2 DEF z, w
  <2>7. QED
    BY <1>1, <1>2, <2>3, <2>4, <2>5, <2>6 DEF NackInv
<1>5. CASE GivenUpAt(s, s2)
  <2>1. s2.max /\ s2.node = s.node /\ s2.retx = RemoveAt(s.retx, s.node)
    BY <1>5 DEF GivenUpAt
  <2>2. /\ Len(s2.retx) = Len(s.retx) - 1
        /\ \A j \in DOMAIN s2.retx :
               /\ j < s.node => j \in DOMAIN s.retx /\ s2.retx[j] = s.retx[j]
               /\ j >= s.node => j + 1 \in DOMAIN s.retx /\ s2.retx[j] = s.retx[j + 1]
    <3> DEFINE q == s.node
    <3>1. q \in DOMAIN s.retx /\ s2.retx = RemoveAt(s.retx, q)
      BY <2>1
    <3> HIDE DEF q
    <3>2. /\ Len(s2.retx) = Len(s.retx) - 1
          /\ \A j \in DOMAIN s2.retx :
                 /\ j < q => j \in DOMAIN s.retx /\ s2.retx[j] = s.retx[j]
                 /\ j >= q => j + 1 \in DOMAIN s.retx /\ s2.retx[j] = s.retx[j + 1]
      <4>1. s \in BufType
        BY <1>1
      <4>2. s2.retx = RemoveAt(s.retx, q)
        BY <3>1
      <4>3. QED
        BY <3>1, <4>1, <4>2, RemovedIndex, SMTT(30)
    <3>3. QED
      BY <3>2 DEF q
  <2>3. ASSUME NEW j \in DOMAIN s2.retx
        PROVE  /\ Dist(s2.retx[j].sn) >= Dist(ns[1].sn)
               /\ IF j < s2.node
                  THEN ~Past(s2.retx[j], n)
                  ELSE /\ Dist(s2.retx[j].sn) >= Dist(n.sn)
                       /\ i > 0 => Past(s2.retx[j], ns[i])
    <3>1. j \in Nat /\ (j < s.node \/ j >= s.node)
      BY <1>3, <2>3, SMT
    <3>2. CASE j < s.node
      <4>1. j \in DOMAIN s.retx /\ s2.retx[j] = s.retx[j]
        BY <2>2, <2>3, <3>2
      <4>2. QED
        BY <1>1, <2>1, <3>2, <4>1 DEF NackInv, CleanBelow
    <3>3. CASE j >= s.node
      <4> DEFINE b == j + 1
      <4>1. b \in DOMAIN s.retx /\ s2.retx[j] = s.retx[b] /\ ~(b < s.node) /\ ~(j < s.node)
        BY <1>3, <2>2, <2>3, <3>1, <3>3, SMT
      <4> HIDE DEF b
      <4>2. QED
        BY <1>1, <2>1, <4>1 DEF NackInv, CleanBelow
    <3>4. QED
      BY <3>1, <3>2, <3>3
  <2>4. CleanBelow(s2, Dist(ns[1].sn)) /\ AllAwait(ns, i, s2)
    BY <1>1, <1>2, <2>1, <2>3 DEF CleanBelow, AllAwait
  <2>5. Len(s2.retx) - s2.node + 1 <= l2
    <3> DEFINE a == Len(s.retx)
               b == Len(s2.retx)
               c == s.node
    <3>1. b = a - 1 /\ s2.node = c /\ a \in Nat /\ c \in Nat /\ a - c + 1 <= l
      BY <1>3, <1>10, <2>1, <2>2
    <3> HIDE DEF a, b, c
    <3>2. b - c + 1 <= l2
      BY <3>1, SMT
    <3>3. QED
      BY <3>1, <3>2 DEF b
  <2>6. QED
    BY <1>1, <1>2, <2>1, <2>3, <2>4, <2>5 DEF NackInv
<1>6. QED
  BY <1>2, <1>4, <1>5

\* One turn: the entry at node is of another SN and the loop has ended, or it
\* lies below the run and is confirmed, or it is what the NACK asks for.
LEMMA NackTurnKeeps ==
    ASSUME WinOK, NEW P, NEW M, NEW ns, NEW d, Truthful(P, M, ns, d), NEW i \in Nat, i < Len(ns),
           NEW n, n = ns[i + 1], NEW st, NEW l \in Nat,
           NEW s, NackInv(P, M, ns, i, n, st, l, s), NEW l2, l2 = l - 1,
           NEW s2, s2 = NackTurn(s, n)
    PROVE  NackInv(P, M, ns, i, n, st, l2, s2)
<1> DEFINE e == s.retx[s.node]
<1>1. /\ s \in BufType /\ Good(P, M, s) /\ s.node \in Nat
  BY BufFields DEF NackInv
<1>2. /\ Names(M, ns, d) /\ i + 1 \in DOMAIN ns /\ i <= Len(ns) /\ (i > 0 => i \in DOMAIN ns)
      /\ Dist(n.sn) \in Nat /\ Dist(n.sn) < d /\ d \in Nat
  BY NextNack
<1>3. /\ n.sn \in Sn /\ n.soStart \in Nat /\ n.soEnd \in Nat /\ n.soStart <= n.soEnd
      /\ ~n.isSegment => n.soStart = 0 /\ n.soEnd = LastUnit
      /\ n.soEnd \in Unit
  <2>1. n.sn \in Sn /\ n.soStart \in Unit /\ n.soEnd \in Unit /\ n.soStart <= n.soEnd
    BY <1>2, NackFacts
  <2>2. ~n.isSegment => n.soStart = 0 /\ n.soEnd = LastUnit
    BY <1>2 DEF Names
  <2>3. QED
    BY <2>1, <2>2, UnitFacts
<1>4. CASE s.node \notin DOMAIN s.retx
  <2>1. s2 = s
    BY <1>4 DEF NackTurn, AtNode
  <2>2. QED
    BY <1>4, <2>1 DEF NackInv
<1>5. CASE s.node \in DOMAIN s.retx
  <2>1. /\ e.sn \in Sn /\ e.so \in Unit /\ e.end \in Unit /\ e.so <= e.end
        /\ e.so \in Nat /\ e.end \in Nat /\ Dist(e.sn) \in Nat /\ e.end <= LastUnit
        /\ <<e.sn, e.so, e.end>> \in P
    <3>1. /\ e.sn \in Sn /\ e.so \in Unit /\ e.end \in Unit /\ e.so <= e.end
          /\ Dist(e.sn) \in Nat /\ <<e.sn, e.so, e.end>> \in P
      BY <1>1, <1>5, RetxEntries, PiecesHeld, DistNat, Zenon DEF Good, RetxOrder, WinOK
    <3>2. e.end <= LastUnit
      BY <3>1, UnitFacts, SMT DEF LastUnit
    <3>3. QED
      BY <3>1, <3>2, UnitFacts
  <2>2. Dist(e.sn) >= Dist(n.sn) /\ (i > 0 => Past(e, ns[i]))
    <3>1. ~(s.node < s.node)
      BY <1>1, SMT
    <3>2. QED
      BY <1>5, <3>1 DEF NackInv
  <2>3. CASE Past(e, n)
    <3>1. s2 = s
      <4>1. e.sn = n.sn => n.isSegment /\ ~SegAcked(e, n) /\ ~SegNacked(e, n)
        <5>1. ASSUME e.sn = n.sn
              PROVE  n.soEnd < e.so
          <6>1. Dist(e.sn) = Dist(n.sn)
            BY <5>1
          <6>2. QED
            BY <1>2, <2>1, <2>3, <6>1, Z3 DEF Past
        <5>2. SUFFICES ASSUME e.sn = n.sn
                       PROVE  n.isSegment /\ ~SegAcked(e, n) /\ ~SegNacked(e, n)
          OBVIOUS
        <5>3. n.soEnd < e.so /\ LastUnit \in Nat
          BY <5>1, <5>2, UnitFacts
        <5>4. n.soEnd < e.end /\ n.soStart <= e.end /\ n.soEnd # LastUnit
          <6>1. /\ n.soStart \in Nat /\ n.soEnd \in Nat /\ n.soStart <= n.soEnd
                /\ e.so \in Nat /\ e.end \in Nat /\ e.so <= e.end /\ e.end <= LastUnit
            BY <1>3, <2>1
          <6> HIDE DEF e
          <6>2. QED
            BY <5>3, <6>1, SMTT(30)
        <5>5. n.soEnd \in Nat /\ n.soStart \in Nat /\ e.end \in Nat
          BY <1>3, <2>1
        <5>6. QED
          BY <1>3, <5>4, <5>5, SMT DEF SegAcked, SegNacked
      <4>2. QED
        BY <1>5, <4>1 DEF NackTurn
    <3>2. QED
      BY <2>3, <3>1 DEF NackInv
  <2>4. CASE ~Past(e, n)
    <3>1. e.sn = n.sn
      <4>1. Dist(e.sn) = Dist(n.sn)
        BY <1>2, <2>1, <2>2, <2>4, SMT DEF Past
      <4>2. QED
        BY <1>3, <2>1, <4>1, ModSnInjective DEF Dist, WinOK
    <3>2. e.end <= n.soEnd
      <4>1. SUFFICES ASSUME n.soEnd < e.end
                     PROVE  FALSE
        BY <1>3, <2>1, SMTT(30)
      <4>2. n.soEnd < e.so
        <5> DEFINE b == i + 1
        <5>1. b \in DOMAIN ns /\ <<ns[b].sn, e.so, e.end>> \in P /\ ns[b].soEnd < e.end
          BY <1>2, <2>1, <3>1, <4>1
        <5> HIDE DEF b
        <5>2. ns[b].soEnd < e.so
          BY <2>1, <5>1, WholeRun
        <5>3. QED
          BY <5>2 DEF b
      <4>3. QED
        BY <2>4, <3>1, <4>2 DEF Past
    <3>4. CASE n.isSegment /\ SegAcked(e, n)
      <4>1. s2 = SuccessfulReTx(s)
        BY <1>5, <3>1, <3>4 DEF NackTurn, AtNode
      <4>2. e.so \notin M[e.sn]
        <5>1. e.so < n.soStart
          BY <1>3, <2>1, <3>4, SMTT(30) DEF SegAcked
        <5>2. i > 0 => Dist(ns[i].sn) < Dist(e.sn) \/ (e.sn = ns[i].sn /\ ns[i].soEnd < e.so)
          BY <2>2 DEF Past
        <5>3. Dist(e.sn) < d
          BY <1>2, <3>1
        <5>4. QED
          BY <1>2, <2>1, <3>1, <5>1, <5>2, <5>3, NotNamed
      <4>3. Span(e) \intersect M[e.sn] = {}
        BY <2>1, <4>2, WholePiece, Zenon
      <4>4. Good(P, M, s2) /\ Released(M, s, s2)
        BY <1>1, <1>5, <4>1, <4>3, ReleasedEntry
      <4>5. QED
        BY <1>5, <2>4, <4>4, NackReleased, Zenon
    <3>5. CASE ~(n.isSegment /\ SegAcked(e, n))
      <4>1. s2 = MarkPduForReTx(s)
        BY <1>5, <3>1, <3>2, <3>5 DEF NackTurn, AtNode, SegNacked
      <4>2. QED
        BY <1>5, <2>4, <4>1, NackMarked, Zenon
    <3>6. QED
      BY <3>4, <3>5
  <2>5. QED
    BY <2>3, <2>4
<1>6. QED
  BY <1>4, <1>5

\* The loop.
LEMMA NackLoop ==
    ASSUME WinOK, NEW P, NEW M, NEW ns, NEW d, Truthful(P, M, ns, d), NEW i \in Nat, i < Len(ns),
           NEW n, n = ns[i + 1], NEW st \in BufType, NackInv(P, M, ns, i, n, st, Len(st.retx), st)
    PROVE  NackInv(P, M, ns, i, n, st, 0, NackInRetxLst(st, n))
<1> DEFINE last == Len(st.retx)
           Inv(k, s) == NackInv(P, M, ns, i, n, st, last - k, s)
           Turn(b, s) == NackTurn(s, n)
           R == [k \in 0 .. last |-> {s \in BufType : Inv(k, s)}]
           T == [p \in (1 .. last) \X BufType |-> IF p[2] \in R[p[1] - 1] THEN Turn(p[1], p[2]) ELSE st]
           f == CHOOSE f : f = [k \in 0 .. last |-> IF k = 0 THEN st ELSE Turn(k, f[k - 1])]
<1>1. last \in Nat
  BY RetxEntries
<1>2. ASSUME NEW k \in 1 .. last, NEW s, Inv(k - 1, s)
      PROVE  Inv(k, Turn(k, s)) /\ Turn(k, s) \in BufType
  <2>1. last - k = (last - (k - 1)) - 1 /\ last - k \in Nat
        /\ last - (k - 1) \in Nat /\ last - (k - 1) > 0
    BY <1>1, SMT
  <2>2. Inv(k, Turn(k, s))
    BY <1>2, <2>1, NackTurnKeeps, Zenon
  <2>3. QED
    BY <2>2 DEF NackInv
<1>3. NackInRetxLst(st, n) = f[last]
  BY DEF NackInRetxLst, WhileNodes, AfterTurns
<1> HIDE DEF Inv, Turn, last
<1>4. R \in [0 .. last -> SUBSET BufType] /\ st \in R[0]
  <2>1. last - 0 = last
    BY <1>1, SMT
  <2>2. Inv(0, st)
    BY <2>1 DEF Inv, last
  <2>3. QED
    BY <1>1, <2>2
<1>5. \A k \in 1 .. last : k - 1 \in 0 .. last /\ k \in 0 .. last
  BY <1>1, SMT
<1>6. \A k \in 1 .. last : \A s \in R[k - 1] : Turn(k, s) \in R[k]
  BY <1>2, <1>5
<1>7. T \in [(1 .. last) \X BufType -> BufType]
  BY <1>4, <1>5, <1>6, Zenon
<1>8. \A k \in 1 .. last : \A s \in R[k - 1] : T[<<k, s>>] = Turn(k, s)
  BY <1>4, <1>5
<1> HIDE DEF T, R, f
<1>9. \A k \in 1 .. last : \A s \in R[k - 1] : T[<<k, s>>] \in R[k]
  BY <1>6, <1>8, Zenon
<1>10. \E g : IsLoop(g, last, st, T) /\ \A k \in 0 .. last : g[k] \in R[k]
  BY <1>1, <1>4, <1>7, <1>9, TurnsExist, Zenon
<1>11. \E g : g = [k \in 0 .. last |-> IF k = 0 THEN st ELSE Turn(k, g[k - 1])]
  <2>1. PICK g : /\ g = [k \in 0 .. last |-> IF k = 0 THEN st ELSE T[<<k, g[k - 1]>>]]
                 /\ \A k \in 0 .. last : g[k] \in R[k]
    BY <1>10, Zenon DEF IsLoop
  <2>2. \A k \in 0 .. last : k # 0 => k \in 1 .. last
    BY SMT
  <2>3. \A k \in 0 .. last : k # 0 => T[<<k, g[k - 1]>>] = Turn(k, g[k - 1])
    BY <1>5, <1>8, <2>1, <2>2
  <2>4. QED
    BY <2>1, <2>3, Zenon
<1>12. f = [k \in 0 .. last |-> IF k = 0 THEN st ELSE Turn(k, f[k - 1])]
  BY <1>11, Zenon DEF f
<1>13. f[last] \in R[last]
  <2>1. f[0] \in R[0]
    BY <1>1, <1>4, <1>12
  <2>2. ASSUME NEW k \in 1 .. last, f[k - 1] \in R[k - 1]
        PROVE  f[k] \in R[k]
    <3>1. f[k] = Turn(k, f[k - 1])
      BY <1>5, <1>12, SMT
    <3>2. QED
      BY <1>6, <2>2, <3>1
  <2>3. QED
    BY <1>1, <2>1, <2>2, TurnsEnd
<1>14. Inv(last, f[last])
  BY <1>1, <1>13 DEF R
<1>15. QED
  <2>1. last - last = 0
    BY <1>1, SMT
  <2>2. QED
    BY <1>3, <1>14, <2>1 DEF Inv

\* The NACK of an SN with nothing in txBuf.
LEMMA NackRetxDone ==
    ASSUME WinOK, NEW P, NEW M, NEW ns, NEW d, Truthful(P, M, ns, d), NEW i \in Nat, i < Len(ns),
           NEW n, n = ns[i + 1], NEW st, Ready(P, M, ns, i, st), st.txBuf[n.sn] = <<>>,
           NEW s2, s2 = NackInRetxLst(st, n)
    PROVE  Between(P, M, ns, i + 1, s2)
<1> DEFINE b == i + 1
<1>1. /\ st \in BufType /\ Good(P, M, st) /\ ~st.err /\ ~st.undef
      /\ Nodes(ns, i, st) /\ AllAwait(ns, i, st) /\ TxPast(ns, i, st) /\ TxFull(ns, i, st)
      /\ From(ns, b, st) /\ CleanBelow(st, Dist(ns[1].sn))
      /\ st.node \in DOMAIN st.retx => Dist(st.retx[st.node].sn) >= Dist(n.sn)
      /\ st.txBuf[n.sn] = <<>>
  BY DEF Ready, Mid, Good
<1>2. /\ Names(M, ns, d) /\ b \in DOMAIN ns /\ i <= Len(ns) /\ (i > 0 => i \in DOMAIN ns)
      /\ Dist(n.sn) \in Nat
  BY NextNack
<1>3. /\ n.sn \in Sn /\ n.soStart \in Nat /\ n.soEnd \in Nat /\ n.soStart <= n.soEnd
      /\ n.soEnd \in Unit
      /\ \A u \in Run(n) : u \in Unit /\ u \in M[n.sn]
  <2>1. /\ n.sn \in Sn /\ n.soStart \in Unit /\ n.soEnd \in Unit /\ n.soStart <= n.soEnd
        /\ \A u \in Run(n) : u \in Unit /\ u \in M[n.sn]
    BY <1>2, NackFacts
  <2>2. QED
    BY <2>1, UnitFacts
<1>4. /\ Len(st.retx) \in Nat /\ DOMAIN st.retx = 1 .. Len(st.retx) /\ st.node \in Nat /\ st.node >= 1
      /\ \A j \in DOMAIN st.retx : st.retx[j].sn \in Sn /\ Dist(st.retx[j].sn) \in Nat
  <2>1. st.node \in Nat \ {0}
    BY <1>1, BufFields
  <2>2. \A j \in DOMAIN st.retx : st.retx[j].sn \in Sn /\ Dist(st.retx[j].sn) \in Nat
    BY <1>1, RetxEntries, DistNat DEF WinOK
  <2>3. QED
    BY <1>1, <2>1, <2>2, RetxEntries, SMT
<1>5. NackInv(P, M, ns, i, n, st, Len(st.retx), st)
  <2>1. ASSUME NEW j \in DOMAIN st.retx, j < st.node
        PROVE  ~Past(st.retx[j], n) /\ (st.retx[j].sn = n.sn => ~(n.soStart <= st.retx[j].end))
    <3>1. i > 0
      <4>1. SUFFICES ASSUME i = 0
                     PROVE  FALSE
        BY SMT
      <4>2. QED
        BY <1>1, <1>4, <2>1, <4>1, SMT DEF Nodes
    <3>2. ~Past(st.retx[j], ns[i])
      BY <1>1, <1>4, <2>1, <3>1, SMT DEF Nodes
    <3>3. i \in DOMAIN ns /\ i <= b
      BY <1>2, <3>1, SMT
    <3>4. st.retx[j].so \in Unit /\ st.retx[j].end \in Unit /\ st.retx[j].so <= st.retx[j].end /\ st.retx[j].sn \in Sn
      BY <1>1, RetxEntries DEF Good, RetxOrder
    <3>5. ~Past(st.retx[j], n)
      <4> HIDE DEF b
      <4>1. \A e : Past(e, ns[b]) /\ e.so \in Unit /\ e.sn \in Sn => Past(e, ns[i])
        BY <1>2, <3>3, NackOrder
      <4>2. QED
        BY <3>2, <3>4, <4>1 DEF b
    <3>6. ASSUME st.retx[j].sn = n.sn, n.soStart <= st.retx[j].end
          PROVE  FALSE
      <4> DEFINE e == st.retx[j]
      <4>1. ns[i].sn \in Sn /\ Dist(ns[i].sn) \in Nat /\ ns[i].soEnd \in Nat /\ ns[i].soEnd \in Unit
        BY <1>2, <3>3, NackFacts, UnitFacts
      <4>2. Dist(ns[i].sn) <= Dist(n.sn) /\ (ns[i].sn = n.sn => ns[i].soEnd < n.soStart)
        <5> HIDE DEF b
        <5>1. i # b
          BY SMT DEF b
        <5>2. Dist(ns[i].sn) <= Dist(ns[b].sn) /\ (ns[i].sn = ns[b].sn => ns[i].soEnd < ns[b].soStart)
          BY <1>2, <3>3, <5>1, NackOrder
        <5>3. QED
          BY <5>2 DEF b
      <4>3. Dist(ns[i].sn) = Dist(n.sn)
        BY <1>2, <3>2, <3>6, <4>1, <4>2, SMT DEF Past
      <4>4. ns[i].sn = n.sn
        BY <1>3, <4>1, <4>3, ModSnInjective DEF Dist, WinOK
      <4>5. ns[i].soEnd < e.end /\ <<ns[i].sn, e.so, e.end>> \in P
        <5>1. <<e.sn, e.so, e.end>> \in P
          BY <1>1, <2>1, PiecesHeld
        <5>2. e.end \in Nat
          BY <3>4, UnitFacts
        <5>3. QED
          BY <1>3, <3>6, <4>1, <4>2, <4>4, <5>1, <5>2, SMT
      <4>6. ns[i].soEnd < e.so
        <5> HIDE DEF e
        <5>1. e.so \in Unit /\ e.end \in Unit /\ e.so <= e.end
          BY <3>4 DEF e
        <5>2. QED
          BY <3>3, <4>5, <5>1, WholeRun
      <4>7. QED
        BY <3>2, <3>6, <4>4, <4>6 DEF Past
    <3>7. QED
      BY <3>5, <3>6
  <2>2. ASSUME NEW j \in DOMAIN st.retx, ~(j < st.node)
        PROVE  Dist(st.retx[j].sn) >= Dist(n.sn) /\ (i > 0 => Past(st.retx[j], ns[i]))
    <3>1. st.node \in DOMAIN st.retx /\ j \in Nat /\ j >= st.node /\ (j = st.node \/ st.node < j)
      BY <1>4, <2>2, SMT
    <3>2. i > 0 => Past(st.retx[j], ns[i])
      BY <1>1, <3>1 DEF Nodes
    <3>3. j = st.node \/ Before(st.retx[st.node], st.retx[j])
      BY <1>1, <3>1 DEF Good, RetxOrder
    <3>4. Dist(st.retx[j].sn) >= Dist(st.retx[st.node].sn)
      BY <1>4, <3>1, <3>3, SMT DEF Before
    <3>5. Dist(st.retx[j].sn) \in Nat /\ Dist(st.retx[st.node].sn) \in Nat
      BY <1>4, <3>1
    <3>6. Dist(st.retx[st.node].sn) >= Dist(n.sn)
      BY <1>1, <3>1
    <3>7. QED
      BY <1>2, <3>2, <3>4, <3>5, <3>6, SMT
  <2>3. Len(st.retx) - st.node + 1 <= Len(st.retx)
    BY <1>4, SMT
  <2>4. QED
    BY <1>1, <2>1, <2>2, <2>3 DEF NackInv
<1>6. NackInv(P, M, ns, i, n, st, 0, s2)
  BY <1>1, <1>5, NackLoop
<1>7. /\ s2 \in BufType /\ Good(P, M, s2) /\ ~s2.err /\ ~s2.undef
      /\ s2.txBuf = st.txBuf /\ s2.from = st.from
      /\ CleanBelow(s2, Dist(ns[1].sn)) /\ AllAwait(ns, i, s2)
      /\ \A j \in DOMAIN s2.retx :
             /\ j < s2.node => ~Past(s2.retx[j], n)
             /\ j < s2.node /\ ~s2.max /\ s2.retx[j].sn = n.sn /\ n.soStart <= s2.retx[j].end =>
                    s2.retx[j].pendingReTrans
      /\ \/ Len(s2.retx) - s2.node + 1 <= 0
         \/ s2.node \in DOMAIN s2.retx => Past(s2.retx[s2.node], n)
  BY <1>6 DEF NackInv
<1>8. /\ Len(s2.retx) \in Nat /\ DOMAIN s2.retx = 1 .. Len(s2.retx) /\ s2.node \in Nat /\ s2.node >= 1
      /\ \A j \in DOMAIN s2.retx : /\ s2.retx[j].sn \in Sn /\ s2.retx[j].so \in Unit /\ s2.retx[j].end \in Unit
                                   /\ s2.retx[j].so \in Nat /\ s2.retx[j].end \in Nat
                                   /\ s2.retx[j].so <= s2.retx[j].end
  <2>1. s2.node \in Nat \ {0}
    BY <1>7, BufFields
  <2>2. \A j \in DOMAIN s2.retx : /\ s2.retx[j].sn \in Sn /\ s2.retx[j].so \in Unit /\ s2.retx[j].end \in Unit
                                  /\ s2.retx[j].so <= s2.retx[j].end
    BY <1>7, RetxEntries DEF Good, RetxOrder
  <2>3. Len(s2.retx) \in Nat /\ DOMAIN s2.retx = 1 .. Len(s2.retx)
    BY <1>7, RetxEntries
  <2>4. QED
    BY <2>1, <2>2, <2>3, UnitFacts, SMT
<1>9. \A j \in DOMAIN s2.retx : j >= s2.node => Past(s2.retx[j], n)
  <2>1. ASSUME NEW j \in DOMAIN s2.retx, j >= s2.node
        PROVE  Past(s2.retx[j], n)
    <3>1. s2.node \in DOMAIN s2.retx /\ (j = s2.node \/ s2.node < j)
      BY <1>8, <2>1, SMT
    <3>2. ~(Len(s2.retx) - s2.node + 1 <= 0)
      BY <1>4, <1>8, <3>1, SMT
    <3>3. Past(s2.retx[s2.node], n)
      BY <1>7, <3>1, <3>2
    <3>4. j = s2.node \/ Before(s2.retx[s2.node], s2.retx[j])
      BY <1>7, <3>1 DEF Good, RetxOrder
    <3>5. CASE Before(s2.retx[s2.node], s2.retx[j])
      <4> DEFINE a == s2.retx[s2.node]
                 c == s2.retx[j]
      <4>1. /\ a.sn \in Sn /\ a.so \in Unit /\ a.end \in Unit /\ a.so <= a.end
            /\ c.sn \in Sn /\ c.so \in Unit /\ Before(a, c) /\ Past(a, n)
        BY <1>8, <3>1, <3>3, <3>5
      <4> HIDE DEF a, c
      <4>2. Past(c, n)
        BY <1>3, <4>1, PastBefore
      <4>3. QED
        BY <4>2 DEF c
    <3>6. QED
      BY <3>3, <3>4, <3>5
  <2>2. QED
    BY <2>1
<1>10. Nodes(ns, b, s2)
  <2>1. \A j \in DOMAIN s2.retx : j < s2.node \/ j >= s2.node
    BY <1>8, SMT
  <2>2. b # 0
    BY SMT
  <2>3. \A j \in DOMAIN s2.retx : j >= s2.node <=> Past(s2.retx[j], n)
    BY <1>7, <1>9, <2>1
  <2>4. QED
    BY <2>2, <2>3 DEF Nodes
<1>11. AllAwait(ns, b, s2)
  <2>1. ASSUME ~s2.max, NEW u \in Run(n)
        PROVE  AwaitAt(s2, n.sn, u)
    <3>1. u \in M[n.sn] /\ u \in Unit /\ u \in Nat
      BY <1>3, <2>1, UnitFacts
    <3>2. u \in UnitsAt(s2, n.sn)
      BY <1>3, <1>7, <2>1, <3>1 DEF Good, Keeps
    <3>3. u \notin TxUnits(s2, n.sn)
      BY <1>1, <1>7 DEF TxUnits
    <3>4. PICK j \in DOMAIN s2.retx : s2.retx[j].sn = n.sn /\ u \in Span(s2.retx[j])
      BY <3>2, <3>3 DEF UnitsAt, RetxUnits
    <3>5. n.soStart <= s2.retx[j].end /\ ~Past(s2.retx[j], n)
      <4>1. s2.retx[j].so <= u /\ u <= s2.retx[j].end /\ n.soStart <= u /\ u <= n.soEnd
        BY <1>8, <2>1, <3>1, <3>4, SMT DEF Span, Run
      <4>2. QED
        BY <1>2, <1>3, <1>8, <3>1, <3>4, <4>1, SMTT(30) DEF Past
    <3>6. j < s2.node
      BY <1>8, <1>9, <3>5, SMT
    <3>7. QED
      BY <1>7, <2>1, <3>4, <3>5, <3>6 DEF AwaitAt, Awaits, Span
  <2>2. \A j \in DOMAIN ns : j <= b => j <= i \/ j = b
    <3>1. DOMAIN ns = 1 .. Len(ns) /\ Len(ns) \in Nat
      BY <1>2, NackFacts
    <3>2. QED
      BY <3>1, SMT
  <2>3. QED
    BY <1>7, <2>1, <2>2 DEF AllAwait
<1>12. TxPast(ns, b, s2) /\ TxFull(ns, b, s2)
  <2>1. s2.txBuf[n.sn] = <<>> /\ DOMAIN s2.txBuf[n.sn] = {}
    BY <1>1, <1>7
  <2>2. TxPast(ns, i + 1, s2) /\ TxFull(ns, i + 1, s2)
    BY <1>1, <1>7, <2>1, TxNext
  <2>3. QED
    BY <2>2
<1>13. From(ns, b, s2)
  BY <1>1, <1>7 DEF From
<1> HIDE DEF b
<1>14. Mid(P, M, ns, b, s2)
  BY <1>7, <1>10, <1>11, <1>12 DEF Mid
<1>15. QED
  BY <1>7, <1>13, <1>14 DEF Between, b

-----------------------------------------------------------------------------
(* rlcAmmDlMoveFrmTxtoRetxBuffer: all PDUs of an SN.                       *)

\* Where the retransmission goes on: nxt is the entry before which none awaits
\* it, or NULL and none does.
Linked(st) ==
    \/ st.nxt = NoRetx /\ \A j \in DOMAIN st.retx : ~st.retx[j].pendingReTrans
    \/ \E i \in DOMAIN st.retx :
           /\ Ptr(st.retx[i]) = st.nxt
           /\ \A j \in DOMAIN st.retx : j < i => ~st.retx[j].pendingReTrans

\* No entry is of a later SN.
Top(st, sn) == \A j \in DOMAIN st.retx : Dist(st.retx[j].sn) <= Dist(sn)

\* A PDU moved to the end of retx is where nxt leads to.
LEMMA MovedLinked ==
    ASSUME WinOK, NEW st \in BufType, NEW sn \in Sn, NEW s2 \in BufType, MovedAt(st, s2, sn),
           Top(st, sn), Linked(st)
    PROVE  Top(s2, sn) /\ Linked(s2)
<1>1. PICK k \in 0 .. Len(st.retx), r \in RetxType :
        /\ r = Retx(sn, st.txBuf[sn][1])
        /\ s2.nxt = IF st.nxt = NoRetx THEN Ptr(r) ELSE st.nxt
        /\ InsertedAt(st.retx, s2.retx, k, r)
        /\ \A j \in DOMAIN st.retx : j <= k <=> Dist(st.retx[j].sn) <= Dist(sn)
  BY DEF MovedAt
<1>2. /\ Len(st.retx) \in Nat /\ DOMAIN st.retx = 1 .. Len(st.retx)
      /\ \A j \in DOMAIN st.retx : st.retx[j] \in RetxType
  BY RetxEntries
<1>3. k = Len(st.retx)
  <2>1. SUFFICES ASSUME k < Len(st.retx)
                 PROVE  FALSE
    BY <1>1, <1>2, SMT
  <2>2. Len(st.retx) \in DOMAIN st.retx
    BY <1>1, <1>2, <2>1, SMT
  <2>3. Len(st.retx) <= k
    BY <1>1, <2>2 DEF Top
  <2>4. QED
    BY <1>1, <1>2, <2>1, <2>3, SMT
<1>4. /\ DOMAIN s2.retx = 1 .. k + 1 /\ s2.retx[k + 1] = r
      /\ \A j \in DOMAIN st.retx : s2.retx[j] = st.retx[j] /\ j \in DOMAIN s2.retx /\ j < k + 1
      /\ \A j \in DOMAIN s2.retx : j \in DOMAIN st.retx \/ j = k + 1
      /\ k + 1 \in DOMAIN s2.retx
  <2>1. /\ DOMAIN s2.retx = 1 .. k + 1 /\ s2.retx[k + 1] = r
        /\ \A j \in DOMAIN st.retx : j <= k => s2.retx[j] = st.retx[j]
    BY <1>1, <1>3 DEF InsertedAt
  <2>2. \A j \in DOMAIN st.retx : j <= k /\ j \in DOMAIN s2.retx /\ j < k + 1
    BY <1>2, <1>3, <2>1, SMT
  <2>3. \A j \in DOMAIN s2.retx : j \in DOMAIN st.retx \/ j = k + 1
    BY <1>2, <1>3, <2>1, SMT
  <2>4. k + 1 \in DOMAIN s2.retx
    BY <1>2, <1>3, <2>1, SMT
  <2>5. QED
    BY <2>1, <2>2, <2>3, <2>4
<1>5. r.sn = sn /\ r.pendingReTrans /\ Ptr(r) # NoRetx
  BY <1>1, MarkedFacts DEF Retx
<1>6. Top(s2, sn)
  <2>1. Dist(sn) <= Dist(sn)
    BY DistNat, SMT DEF WinOK
  <2>2. QED
    BY <1>4, <1>5, <2>1 DEF Top
<1>7. CASE st.nxt = NoRetx /\ \A j \in DOMAIN st.retx : ~st.retx[j].pendingReTrans
  <2>1. s2.nxt = Ptr(r)
    BY <1>1, <1>7
  <2>2. \A j \in DOMAIN s2.retx : j < k + 1 => ~s2.retx[j].pendingReTrans
    <3>1. ~(k + 1 < k + 1)
      BY <1>2, <1>3, SMT
    <3>2. QED
      BY <1>4, <1>7, <3>1
  <2>3. QED
    BY <1>4, <1>6, <2>1, <2>2 DEF Linked
<1>8. CASE \E i \in DOMAIN st.retx :
               /\ Ptr(st.retx[i]) = st.nxt
               /\ \A j \in DOMAIN st.retx : j < i => ~st.retx[j].pendingReTrans
  <2>1. PICK i \in DOMAIN st.retx :
               /\ Ptr(st.retx[i]) = st.nxt
               /\ \A j \in DOMAIN st.retx : j < i => ~st.retx[j].pendingReTrans
    BY <1>8
  <2>2. st.nxt # NoRetx
    BY <1>2, <2>1, MarkedFacts
  <2>3. s2.nxt = st.nxt /\ i \in DOMAIN s2.retx /\ Ptr(s2.retx[i]) = s2.nxt
    BY <1>1, <1>4, <2>1, <2>2
  <2>4. \A j \in DOMAIN s2.retx : j < i => ~s2.retx[j].pendingReTrans
    <3>1. ~(k + 1 < i)
      BY <1>2, <1>3, <2>1, SMT
    <3>2. QED
      BY <1>4, <2>1, <3>1
  <2>5. QED
    BY <1>6, <2>3, <2>4 DEF Linked
<1>9. QED
  BY <1>7, <1>8 DEF Linked

\* Between the turns of the loop, begun with st, with l PDUs still to be moved.
MoveInv(P, M, sn, st, l, s) ==
    /\ s \in BufType /\ Good(P, M, s)
    /\ s.err = st.err /\ s.undef = st.undef /\ s.max = st.max /\ s.from = st.from /\ s.rcvd = st.rcvd
    /\ Len(s.txBuf[sn]) = l /\ \A t \in Sn : t # sn => s.txBuf[t] = st.txBuf[t]
    /\ \A t, u : AwaitAt(st, t, u) => AwaitAt(s, t, u)
    /\ \A u \in TxUnits(st, sn) : u \in TxUnits(s, sn) \/ AwaitAt(s, sn, u)
    /\ s = st \/ \A j \in DOMAIN s.retx : j >= s.node <=> Dist(s.retx[j].sn) > Dist(sn)
    /\ \A c \in Nat : CleanBelow(st, c) /\ c <= Dist(sn) => CleanBelow(s, c)
    /\ Top(st, sn) /\ Linked(st) => Top(s, sn) /\ Linked(s)

\* One PDU, moved.
LEMMA MoveTurn ==
    ASSUME WinOK, NEW P, NEW M, NEW sn \in Sn, Dist(sn) < Dist(txNext),
           NEW st, NEW l \in Nat, l > 0, NEW s, MoveInv(P, M, sn, st, l, s), NEW l2, l2 = l - 1,
           NEW s2, s2 = MoveSeg(s, sn, 1)
    PROVE  MoveInv(P, M, sn, st, l2, s2)
<1>1. s \in BufType /\ Good(P, M, s) /\ Len(s.txBuf[sn]) = l
  BY DEF MoveInv
<1>2. s.txBuf[sn] # <<>>
  BY <1>1, SMT
<1>3. /\ Good(P, M, s2) /\ HeadGone(s, s2, sn) /\ MovedAt(s, s2, sn)
      /\ s2.max = s.max /\ s2.undef = s.undef /\ s2.err = s.err
      /\ s2.from = s.from /\ s2.rcvd = s.rcvd
  BY <1>1, <1>2, MoveGood
<1>4. s2 \in BufType
  BY <1>3 DEF Good
<1>5. /\ \A t, u : AwaitAt(s, t, u) => AwaitAt(s2, t, u)
      /\ \A u \in Span(s.txBuf[sn][1]) : AwaitAt(s2, sn, u)
      /\ \A j \in DOMAIN s2.retx : j >= s2.node <=> Dist(s2.retx[j].sn) > Dist(sn)
      /\ \A c \in Nat : CleanBelow(s, c) /\ c <= Dist(sn) => CleanBelow(s2, c)
  BY <1>1, <1>2, <1>3, <1>4, MovedEntries
<1>6. Top(s, sn) /\ Linked(s) => Top(s2, sn) /\ Linked(s2)
  BY <1>1, <1>3, <1>4, MovedLinked
<1>7. /\ Len(s2.txBuf[sn]) = l2
      /\ \A t \in Sn : t # sn => s2.txBuf[t] = s.txBuf[t]
  <2>1. Len(s2.txBuf[sn]) = Len(s.txBuf[sn]) - 1 /\ \A t \in Sn : t # sn => s2.txBuf[t] = s.txBuf[t]
    BY <1>1, <1>2, <1>3, HeadGoneIndex
  <2>2. QED
    BY <1>1, <2>1
<1>8. TxUnits(s2, sn) = TxUnits(s, sn) \ Span(s.txBuf[sn][1])
  <2>1. TxOrder(s)
    BY <1>1 DEF Good
  <2>2. QED
    BY <1>1, <1>2, <1>3, <1>4, <2>1, HeadGoneUnits
<1>9. \A u \in TxUnits(st, sn) : u \in TxUnits(s2, sn) \/ AwaitAt(s2, sn, u)
  <2>1. \A u \in TxUnits(st, sn) : u \in TxUnits(s, sn) \/ AwaitAt(s, sn, u)
    BY DEF MoveInv
  <2>2. QED
    BY <1>5, <1>8, <2>1
<1>10. /\ s.err = st.err /\ s.undef = st.undef /\ s.max = st.max /\ s.from = st.from /\ s.rcvd = st.rcvd
       /\ \A t \in Sn : t # sn => s.txBuf[t] = st.txBuf[t]
       /\ \A t, u : AwaitAt(st, t, u) => AwaitAt(s, t, u)
       /\ \A c \in Nat : CleanBelow(st, c) /\ c <= Dist(sn) => CleanBelow(s, c)
       /\ Top(st, sn) /\ Linked(st) => Top(s, sn) /\ Linked(s)
  BY DEF MoveInv
<1>11. QED
  BY <1>3, <1>4, <1>5, <1>6, <1>7, <1>9, <1>10 DEF MoveInv

\* The loop: every PDU of the SN is in retxLst and awaits retransmission.
LEMMA MoveLoop ==
    ASSUME WinOK, NEW P, NEW M, NEW sn \in Sn, Dist(sn) < Dist(txNext), NEW st, Good(P, M, st)
    PROVE  MoveInv(P, M, sn, st, 0, MoveFrmTxtoRetxBuffer(st, sn))
<1>0. st \in BufType
  BY DEF Good
<1> DEFINE last == Len(st.txBuf[sn])
           Inv(k, s) == MoveInv(P, M, sn, st, last - k, s)
           Turn(b, s) == MoveSeg(s, sn, 1)
           R == [k \in 0 .. last |-> {s \in BufType : Inv(k, s)}]
           T == [p \in (1 .. last) \X BufType |-> IF p[2] \in R[p[1] - 1] THEN Turn(p[1], p[2]) ELSE st]
           f == CHOOSE f : f = [k \in 0 .. last |-> IF k = 0 THEN st ELSE Turn(k, f[k - 1])]
<1>1. last \in Nat
  BY <1>0, TxEntries
<1>2. ASSUME NEW k \in 1 .. last, NEW s, Inv(k - 1, s)
      PROVE  Inv(k, Turn(k, s)) /\ Turn(k, s) \in BufType
  <2>1. last - k = (last - (k - 1)) - 1 /\ last - k \in Nat
        /\ last - (k - 1) \in Nat /\ last - (k - 1) > 0
    BY <1>1, SMT
  <2>2. Inv(k, Turn(k, s))
    BY <1>2, <2>1, MoveTurn, Zenon
  <2>3. QED
    BY <2>2 DEF MoveInv
<1>3. MoveFrmTxtoRetxBuffer(st, sn) = f[last]
  BY DEF MoveFrmTxtoRetxBuffer, AfterTurns
<1> HIDE DEF Inv, Turn, last
<1>4. R \in [0 .. last -> SUBSET BufType] /\ st \in R[0]
  <2>1. last - 0 = last
    BY <1>1, SMT
  <2>2. MoveInv(P, M, sn, st, last, st)
    BY <1>0 DEF MoveInv, last
  <2>3. Inv(0, st)
    BY <2>1, <2>2 DEF Inv
  <2>4. QED
    BY <1>0, <1>1, <2>3
<1>5. \A k \in 1 .. last : k - 1 \in 0 .. last /\ k \in 0 .. last
  BY <1>1, SMT
<1>6. \A k \in 1 .. last : \A s \in R[k - 1] : Turn(k, s) \in R[k]
  BY <1>2, <1>5
<1>7. T \in [(1 .. last) \X BufType -> BufType]
  BY <1>0, <1>4, <1>5, <1>6, Zenon
<1>8. \A k \in 1 .. last : \A s \in R[k - 1] : T[<<k, s>>] = Turn(k, s)
  BY <1>4, <1>5
<1> HIDE DEF T, R, f
<1>9. \A k \in 1 .. last : \A s \in R[k - 1] : T[<<k, s>>] \in R[k]
  BY <1>6, <1>8, Zenon
<1>10. \E g : IsLoop(g, last, st, T) /\ \A k \in 0 .. last : g[k] \in R[k]
  BY <1>1, <1>4, <1>7, <1>9, TurnsExist, Zenon
<1>11. \E g : g = [k \in 0 .. last |-> IF k = 0 THEN st ELSE Turn(k, g[k - 1])]
  <2>1. PICK g : /\ g = [k \in 0 .. last |-> IF k = 0 THEN st ELSE T[<<k, g[k - 1]>>]]
                 /\ \A k \in 0 .. last : g[k] \in R[k]
    BY <1>10, Zenon DEF IsLoop
  <2>2. \A k \in 0 .. last : k # 0 => k \in 1 .. last
    BY SMT
  <2>3. \A k \in 0 .. last : k # 0 => T[<<k, g[k - 1]>>] = Turn(k, g[k - 1])
    BY <1>5, <1>8, <2>1, <2>2
  <2>4. QED
    BY <2>1, <2>3, Zenon
<1>12. f = [k \in 0 .. last |-> IF k = 0 THEN st ELSE Turn(k, f[k - 1])]
  BY <1>11, Zenon DEF f
<1>13. f[last] \in R[last]
  <2>1. f[0] \in R[0]
    BY <1>1, <1>4, <1>12
  <2>2. ASSUME NEW k \in 1 .. last, f[k - 1] \in R[k - 1]
        PROVE  f[k] \in R[k]
    <3>1. f[k] = Turn(k, f[k - 1])
      BY <1>5, <1>12, SMT
    <3>2. QED
      BY <1>6, <2>2, <3>1
  <2>3. QED
    BY <1>1, <2>1, <2>2, TurnsEnd
<1>14. Inv(last, f[last])
  BY <1>1, <1>13 DEF R
<1>15. QED
  <2>1. last - last = 0
    BY <1>1, SMT
  <2>2. QED
    BY <1>3, <1>14, <2>1 DEF Inv

\* The NACK of a whole SDU that is in txBuf.
LEMMA NackMoveDone ==
    ASSUME WinOK, NEW P, NEW M, NEW ns, NEW d, Truthful(P, M, ns, d), NEW i \in Nat, i < Len(ns),
           NEW n, n = ns[i + 1], NEW st, Ready(P, M, ns, i, st), st.txBuf[n.sn] # <<>>,
           ~n.isSegment, NEW s2, s2 = MoveFrmTxtoRetxBuffer(st, n.sn)
    PROVE  Between(P, M, ns, i + 1, s2)
<1> DEFINE b == i + 1
<1>1. /\ st \in BufType /\ Good(P, M, st) /\ ~st.err /\ ~st.undef
      /\ AllAwait(ns, i, st) /\ TxPast(ns, i, st) /\ TxFull(ns, i, st)
      /\ From(ns, b, st) /\ CleanBelow(st, Dist(ns[1].sn))
  BY DEF Ready, Mid, Good
<1>2. /\ Names(M, ns, d) /\ b \in DOMAIN ns /\ 1 \in DOMAIN ns /\ Dist(ns[1].sn) \in Nat
      /\ Dist(ns[1].sn) <= Dist(n.sn) /\ Dist(n.sn) < Dist(txNext) /\ n = ns[b]
      /\ DOMAIN ns = 1 .. Len(ns)
  BY NextNack
<1>3. /\ n.sn \in Sn /\ n.soStart = 0 /\ n.soEnd = LastUnit /\ n.soEnd \in Unit
      /\ \A u \in Run(n) : u \in Unit /\ u \in M[n.sn]
  <2>1. n.sn \in Sn /\ n.soEnd \in Unit /\ \A u \in Run(n) : u \in Unit /\ u \in M[n.sn]
    BY <1>2, NackFacts
  <2>2. n.soStart = 0 /\ n.soEnd = LastUnit
    BY <1>2 DEF Names
  <2>3. QED
    BY <2>1, <2>2
<1>4. MoveInv(P, M, n.sn, st, 0, s2)
  <2> DEFINE q == n.sn
  <2>1. q \in Sn /\ Dist(q) < Dist(txNext) /\ s2 = MoveFrmTxtoRetxBuffer(st, q) /\ Good(P, M, st)
    BY <1>1, <1>2, <1>3
  <2> HIDE DEF q
  <2>2. MoveInv(P, M, q, st, 0, s2)
    BY <2>1, MoveLoop
  <2>3. QED
    BY <2>2 DEF q
<1>5. /\ s2 \in BufType /\ Good(P, M, s2)
      /\ s2.err = st.err /\ s2.undef = st.undef /\ s2.max = st.max /\ s2.from = st.from
      /\ Len(s2.txBuf[n.sn]) = 0 /\ \A t \in Sn : t # n.sn => s2.txBuf[t] = st.txBuf[t]
      /\ \A t, u : AwaitAt(st, t, u) => AwaitAt(s2, t, u)
      /\ \A u \in TxUnits(st, n.sn) : u \in TxUnits(s2, n.sn) \/ AwaitAt(s2, n.sn, u)
      /\ s2 = st \/ \A j \in DOMAIN s2.retx : j >= s2.node <=> Dist(s2.retx[j].sn) > Dist(n.sn)
      /\ \A c \in Nat : CleanBelow(st, c) /\ c <= Dist(n.sn) => CleanBelow(s2, c)
  BY <1>4 DEF MoveInv
<1>6. s2.txBuf[n.sn] = <<>> /\ DOMAIN s2.txBuf[n.sn] = {} /\ TxUnits(s2, n.sn) = {}
  <2>1. s2.txBuf[n.sn] \in Seq(SegType)
    BY <1>3, <1>5, TxEntries
  <2>2. s2.txBuf[n.sn] = <<>>
    BY <1>5, <2>1, EmptySeq
  <2>3. QED
    BY <2>2 DEF TxUnits
<1>7. \A j \in DOMAIN s2.retx : j >= s2.node <=> Past(s2.retx[j], n)
  <2>1. s2 # st
    BY <1>6
  <2>2. ASSUME NEW j \in DOMAIN s2.retx
        PROVE  Past(s2.retx[j], n) <=> Dist(s2.retx[j].sn) > Dist(n.sn)
    <3>1. s2.retx[j].sn \in Sn /\ s2.retx[j].so \in Unit
      BY <1>5, <2>2, RetxEntries
    <3>2. Dist(s2.retx[j].sn) \in Nat /\ Dist(n.sn) \in Nat /\ ~(n.soEnd < s2.retx[j].so)
      <4>1. Dist(s2.retx[j].sn) \in Nat /\ Dist(n.sn) \in Nat
        BY <1>3, <3>1, DistNat DEF WinOK
      <4>2. s2.retx[j].so \in Nat /\ s2.retx[j].so < SduLen /\ SduLen \in Nat
        BY <3>1, UnitFacts
      <4>3. QED
        BY <1>3, <4>1, <4>2, SMT DEF LastUnit
    <3>3. QED
      BY <3>2, SMT DEF Past
  <2>3. QED
    BY <1>5, <2>1, <2>2
<1>8. Nodes(ns, b, s2)
  <2>1. b # 0
    BY SMT
  <2>2. QED
    BY <1>2, <1>7, <2>1 DEF Nodes
<1>9. AllAwait(ns, b, s2)
  <2>1. ASSUME NEW u \in Run(n)
        PROVE  AwaitAt(s2, n.sn, u)
    <3>1. u \in Unit /\ u \in Nat
      BY <1>3, <2>1, UnitFacts
    <3>2. u \in SentUnits(n.sn)
      BY <1>2, <3>1 DEF SentUnits
    <3>3. \A j \in DOMAIN ns : j <= i /\ ns[j].sn = n.sn => ns[j].soEnd < u
      <4>1. SUFFICES ASSUME NEW j \in DOMAIN ns, j <= i, ns[j].sn = n.sn
                     PROVE  FALSE
        OBVIOUS
      <4>2. j # b /\ j <= b
        BY <1>2, <4>1, SMT
      <4> HIDE DEF b
      <4>3. ns[j].soEnd < ns[b].soStart
        BY <1>2, <4>1, <4>2, NackOrder
      <4>4. ns[j].soEnd \in Nat
        BY <1>2, NackFacts, UnitFacts
      <4>5. QED
        BY <1>2, <1>3, <4>3, <4>4, SMT
    <3>4. u \in TxUnits(st, n.sn)
      BY <1>1, <1>3, <3>2, <3>3 DEF TxFull
    <3>5. QED
      BY <1>5, <1>6, <3>4
  <2>2. \A j \in DOMAIN ns : j <= b => j <= i \/ j = b
    <3>1. DOMAIN ns = 1 .. Len(ns) /\ Len(ns) \in Nat
      BY <1>2, NackFacts
    <3>2. QED
      BY <3>1, SMT
  <2>3. QED
    BY <1>1, <1>2, <1>5, <2>1, <2>2 DEF AllAwait
<1>10. TxPast(ns, b, s2) /\ TxFull(ns, b, s2)
  BY <1>1, <1>5, <1>6, TxNext
<1>11. From(ns, b, s2) /\ CleanBelow(s2, Dist(ns[1].sn))
  BY <1>1, <1>2, <1>5 DEF From
<1> HIDE DEF b
<1>12. Mid(P, M, ns, b, s2)
  BY <1>1, <1>5, <1>8, <1>9, <1>10 DEF Mid
<1>13. QED
  BY <1>11, <1>12 DEF Between, b

-----------------------------------------------------------------------------
(* rlcAmmDlHndlStatus4SduByteSegInTxBuf.                                   *)

\* Between the turns of its loop, for the NACK n after the i-th: begun with st,
\* and with at most l more turns to go.
SegInv(P, M, ns, i, n, st, l, s) ==
    /\ s \in BufType /\ Good(P, M, s) /\ ~s.err /\ s.from = st.from
    /\ \A t \in Sn : t # n.sn => s.txBuf[t] = st.txBuf[t]
    /\ CleanBelow(s, Dist(ns[1].sn)) /\ AllAwait(ns, i, s)
    /\ \A k \in DOMAIN s.txBuf[n.sn] : i > 0 /\ ns[i].sn = n.sn => ns[i].soEnd < s.txBuf[n.sn][k].so
    /\ \A u \in SentUnits(n.sn) : n.soEnd < u => u \in TxUnits(s, n.sn)
    /\ s.undef => \A u \in Run(n) : u \in TxUnits(s, n.sn)
    /\ ~s.undef => \A j \in DOMAIN s.retx : j >= s.node <=> Past(s.retx[j], n)
    /\ \A u \in Run(n) : u \in TxUnits(s, n.sn) \/ AwaitAt(s, n.sn, u)
    /\ \/ s.lnk = 1 /\ Len(s.txBuf[n.sn]) <= l
       \/ \A k \in DOMAIN s.txBuf[n.sn] : n.soEnd < s.txBuf[n.sn][k].so

\* The NACK's fields.
LEMMA NextNackFields ==
    ASSUME WinOK, NEW P, NEW M, NEW ns, NEW d, Truthful(P, M, ns, d), NEW i \in Nat, i < Len(ns),
           NEW n, n = ns[i + 1]
    PROVE  /\ n.sn \in Sn /\ n.soStart \in Unit /\ n.soEnd \in Unit /\ n.soStart <= n.soEnd
           /\ n.soStart \in Nat /\ n.soEnd \in Nat
           /\ \A u \in Run(n) : u \in Unit /\ u \in M[n.sn] /\ u \in Nat /\ n.soStart <= u /\ u <= n.soEnd
           /\ Dist(n.sn) \in Nat /\ Dist(n.sn) < d /\ d \in Nat /\ Dist(n.sn) < Dist(txNext)
           /\ Dist(ns[1].sn) \in Nat /\ Dist(ns[1].sn) <= Dist(n.sn)
           /\ n.soEnd \in Run(n)
           /\ i > 0 => /\ i \in DOMAIN ns /\ ns[i].sn \in Sn /\ Dist(ns[i].sn) \in Nat /\ ns[i].soEnd \in Nat
                       /\ Dist(ns[i].sn) <= Dist(n.sn) /\ (ns[i].sn = n.sn => ns[i].soEnd < n.soStart)
<1> DEFINE b == i + 1
<1>1. /\ Names(M, ns, d) /\ b \in DOMAIN ns /\ (i > 0 => i \in DOMAIN ns) /\ n = ns[b]
      /\ Dist(n.sn) \in Nat /\ Dist(n.sn) < d /\ d \in Nat /\ Dist(n.sn) < Dist(txNext)
      /\ Dist(ns[1].sn) \in Nat /\ Dist(ns[1].sn) <= Dist(n.sn)
  BY NextNack
<1>2. i # b /\ i <= b
  BY SMT
<1> HIDE DEF b
<1>3. /\ n.sn \in Sn /\ n.soStart \in Unit /\ n.soEnd \in Unit /\ n.soStart <= n.soEnd
      /\ \A u \in Run(n) : u \in Unit /\ u \in M[n.sn]
  BY <1>1, NackFacts
<1>4. n.soStart \in Nat /\ n.soEnd \in Nat /\ \A u \in Run(n) : u \in Nat
  BY <1>3, UnitFacts
<1>5. n.soEnd \in Run(n) /\ \A u \in Run(n) : n.soStart <= u /\ u <= n.soEnd
  BY <1>3, <1>4, SMT DEF Run
<1>6. ASSUME i > 0
      PROVE  /\ i \in DOMAIN ns /\ ns[i].sn \in Sn /\ Dist(ns[i].sn) \in Nat /\ ns[i].soEnd \in Nat
             /\ Dist(ns[i].sn) <= Dist(n.sn) /\ (ns[i].sn = n.sn => ns[i].soEnd < n.soStart)
  <2>1. i \in DOMAIN ns
    BY <1>1, <1>6
  <2>2. ns[i].sn \in Sn /\ Dist(ns[i].sn) \in Nat /\ ns[i].soEnd \in Unit
    BY <1>1, <2>1, NackFacts
  <2>3. Dist(ns[i].sn) <= Dist(n.sn) /\ (ns[i].sn = n.sn => ns[i].soEnd < n.soStart)
    BY <1>1, <1>2, <2>1, NackOrder
  <2>4. QED
    BY <2>1, <2>2, <2>3, UnitFacts
<1>7. QED
  BY <1>1, <1>3, <1>4, <1>5, <1>6

\* The PDU at the head ends below the run: it has arrived.
LEMMA SegAckedTurn ==
    ASSUME WinOK, NEW P, NEW M, NEW ns, NEW d, Truthful(P, M, ns, d), NEW i \in Nat, i < Len(ns),
           NEW n, n = ns[i + 1], NEW st, NEW l \in Nat,
           NEW s, SegInv(P, M, ns, i, n, st, l, s), NEW l2, l2 = l - 1,
           s.txBuf[n.sn] # <<>>, s.lnk = 1, Len(s.txBuf[n.sn]) <= l,
           s.txBuf[n.sn][1].end < n.soStart, NEW s2, s2 = AckHead(s, n.sn)
    PROVE  SegInv(P, M, ns, i, n, st, l2, s2)
<1>1. /\ s \in BufType /\ Good(P, M, s) /\ ~s.err /\ s.from = st.from
      /\ \A t \in Sn : t # n.sn => s.txBuf[t] = st.txBuf[t]
      /\ CleanBelow(s, Dist(ns[1].sn)) /\ AllAwait(ns, i, s)
  BY DEF SegInv
<1>2. /\ \A u \in SentUnits(n.sn) : n.soEnd < u => u \in TxUnits(s, n.sn)
      /\ s.undef => \A u \in Run(n) : u \in TxUnits(s, n.sn)
      /\ ~s.undef => \A j \in DOMAIN s.retx : j >= s.node <=> Past(s.retx[j], n)
      /\ \A u \in Run(n) : u \in TxUnits(s, n.sn) \/ AwaitAt(s, n.sn, u)
  BY DEF SegInv
<1>3. \A k \in DOMAIN s.txBuf[n.sn] : i > 0 /\ ns[i].sn = n.sn => ns[i].soEnd < s.txBuf[n.sn][k].so
  BY DEF SegInv
<1> DEFINE e == s.txBuf[n.sn][1]
<1>4. /\ n.sn \in Sn /\ n.soStart \in Nat /\ n.soEnd \in Nat /\ n.soStart <= n.soEnd
      /\ \A u \in Run(n) : u \in Unit /\ u \in Nat /\ n.soStart <= u /\ u <= n.soEnd
      /\ Dist(n.sn) \in Nat /\ Dist(n.sn) < d
      /\ i > 0 => Dist(ns[i].sn) <= Dist(n.sn) /\ ns[i].sn \in Sn /\ Dist(ns[i].sn) \in Nat
  BY NextNackFields, Zenon
<1>5. /\ 1 \in DOMAIN s.txBuf[n.sn] /\ e.so \in Unit /\ e.end \in Unit /\ e.so <= e.end
      /\ e.so \in Nat /\ e.end \in Nat /\ <<n.sn, e.so, e.end>> \in P /\ e.end < n.soStart
      /\ Len(s.txBuf[n.sn]) \in Nat
  <2>1. /\ Len(s.txBuf[n.sn]) \in Nat /\ DOMAIN s.txBuf[n.sn] = 1 .. Len(s.txBuf[n.sn])
        /\ s.txBuf[n.sn] \in Seq(SegType)
    BY <1>1, <1>4, TxEntries
  <2>2. 1 \in DOMAIN s.txBuf[n.sn]
    BY <2>1, EmptySeq, SMT
  <2>3. e.so \in Unit /\ e.end \in Unit /\ e.so <= e.end /\ <<n.sn, e.so, e.end>> \in P
    BY <1>1, <1>4, <2>2, TxEntries, PiecesHeld, Zenon DEF Good, TxOrder
  <2>4. QED
    BY <2>1, <2>2, <2>3, UnitFacts
<1>6. Span(e) \intersect M[n.sn] = {}
  <2>1. e.so < n.soStart
    <3> DEFINE x == e.so
               y == e.end
               z == n.soStart
    <3>1. x \in Nat /\ y \in Nat /\ z \in Nat /\ x <= y /\ y < z
      BY <1>4, <1>5
    <3> HIDE DEF x, y, z
    <3>2. x < z
      BY <3>1, SMT
    <3>3. QED
      BY <3>2 DEF x, z
  <2>2. i > 0 => Dist(ns[i].sn) < Dist(n.sn) \/ (n.sn = ns[i].sn /\ ns[i].soEnd < e.so)
    <3>1. i > 0 => Dist(ns[i].sn) < Dist(n.sn) \/ Dist(n.sn) = Dist(ns[i].sn)
      BY <1>4, SMT
    <3>2. i > 0 => Dist(ns[i].sn) < Dist(n.sn) \/ n.sn = ns[i].sn
      BY <1>4, <3>1, ModSnInjective DEF Dist, WinOK
    <3>3. QED
      BY <1>3, <1>5, <3>2
  <2>3. Names(M, ns, d) /\ i <= Len(ns)
    BY NextNack
  <2>4. e.so \notin M[n.sn]
    BY <1>4, <1>5, <2>1, <2>2, <2>3, NotNamed
  <2> HIDE DEF e
  <2>5. QED
    BY <1>5, <2>4, WholePiece
<1>7. /\ Good(P, M, s2) /\ HeadGone(s, s2, n.sn)
      /\ s2.retx = s.retx /\ s2.max = s.max /\ s2.undef = s.undef /\ s2.err = s.err
      /\ s2.node = s.node /\ s2.lnk = s.lnk /\ s2.from = s.from
  <2> DEFINE q == n.sn
  <2>1. q \in Sn /\ s.txBuf[q] # <<>> /\ Span(s.txBuf[q][1]) \intersect M[q] = {} /\ s2 = AckHead(s, q)
    BY <1>4, <1>6
  <2> HIDE DEF q
  <2>2. /\ Good(P, M, s2) /\ HeadGone(s, s2, q)
        /\ s2.retx = s.retx /\ s2.max = s.max /\ s2.undef = s.undef /\ s2.err = s.err
        /\ s2.node = s.node /\ s2.lnk = s.lnk /\ s2.from = s.from
    BY <1>1, <2>1, AckHeadGood
  <2>3. QED
    BY <2>2 DEF q
<1>8. s2 \in BufType
  BY <1>7 DEF Good
<1>9. /\ Len(s2.txBuf[n.sn]) = Len(s.txBuf[n.sn]) - 1
      /\ \A k \in DOMAIN s2.txBuf[n.sn] :
             k + 1 \in DOMAIN s.txBuf[n.sn] /\ s2.txBuf[n.sn][k] = s.txBuf[n.sn][k + 1]
      /\ \A t \in Sn : t # n.sn => s2.txBuf[t] = s.txBuf[t]
      /\ TxUnits(s2, n.sn) = TxUnits(s, n.sn) \ Span(e)
      /\ \A t \in Sn : t # n.sn => TxUnits(s2, t) = TxUnits(s, t)
  <2> DEFINE q == n.sn
  <2>1. q \in Sn /\ s.txBuf[q] # <<>> /\ HeadGone(s, s2, q) /\ TxOrder(s)
    BY <1>1, <1>4, <1>7 DEF Good
  <2> HIDE DEF q
  <2>2. /\ Len(s2.txBuf[q]) = Len(s.txBuf[q]) - 1
        /\ \A k \in DOMAIN s2.txBuf[q] : k + 1 \in DOMAIN s.txBuf[q] /\ s2.txBuf[q][k] = s.txBuf[q][k + 1]
        /\ \A t \in Sn : t # q => s2.txBuf[t] = s.txBuf[t]
    BY <1>1, <2>1, HeadGoneIndex, SMTT(30)
  <2>3. /\ TxUnits(s2, q) = TxUnits(s, q) \ Span(s.txBuf[q][1])
        /\ \A t \in Sn : t # q => TxUnits(s2, t) = TxUnits(s, t)
    BY <1>1, <1>8, <2>1, HeadGoneUnits
  <2>4. QED
    BY <2>2, <2>3, Zenon DEF q
<1>10. \A u \in Span(e) : u < n.soStart /\ u \in Nat
  <2> DEFINE x == e.so
             y == e.end
             z == n.soStart
  <2>1. x \in Nat /\ y \in Nat /\ z \in Nat /\ y < z
    BY <1>4, <1>5
  <2> HIDE DEF x, y, z
  <2>2. \A u \in x .. y : u < z /\ u \in Nat
    BY <2>1, SMT
  <2>3. QED
    BY <2>2 DEF Span, x, y, z
<1>11. \A u \in Run(n) : u \notin Span(e)
  BY <1>4, <1>10, SMT
<1>12. \A u \in SentUnits(n.sn) : n.soEnd < u => u \notin Span(e)
  BY <1>4, <1>10, SMT
<1>13. s2.lnk = 1 /\ Len(s2.txBuf[n.sn]) <= l2
  <2> DEFINE a == Len(s.txBuf[n.sn])
             b == Len(s2.txBuf[n.sn])
  <2>1. a \in Nat /\ a <= l /\ b = a - 1 /\ l \in Nat /\ l2 = l - 1
    BY <1>5, <1>9, Zenon
  <2> HIDE DEF a, b
  <2>2. b <= l2
    BY <2>1, SMT
  <2>3. QED
    BY <1>7, <2>2 DEF b
<1>14. CleanBelow(s2, Dist(ns[1].sn)) /\ AllAwait(ns, i, s2)
  <2>1. \A t \in Sn : Dist(t) < Dist(ns[1].sn) => s2.txBuf[t] = <<>>
    <3>1. ~(Dist(n.sn) < Dist(ns[1].sn))
      BY NextNackFields, SMT
    <3>2. QED
      BY <1>1, <1>9, <3>1 DEF CleanBelow
  <2>2. QED
    BY <1>1, <1>7, <2>1 DEF CleanBelow, AllAwait, AwaitAt
<1>15. \A k \in DOMAIN s2.txBuf[n.sn] : i > 0 /\ ns[i].sn = n.sn => ns[i].soEnd < s2.txBuf[n.sn][k].so
  <2>1. ASSUME NEW k \in DOMAIN s2.txBuf[n.sn], i > 0, ns[i].sn = n.sn
        PROVE  ns[i].soEnd < s2.txBuf[n.sn][k].so
    <3>1. k + 1 \in DOMAIN s.txBuf[n.sn] /\ s2.txBuf[n.sn][k] = s.txBuf[n.sn][k + 1]
      BY <1>9
    <3>2. QED
      BY <1>3, <2>1, <3>1, Zenon
  <2>2. QED
    BY <2>1
<1>16. /\ \A u \in SentUnits(n.sn) : n.soEnd < u => u \in TxUnits(s2, n.sn)
       /\ s2.undef => \A u \in Run(n) : u \in TxUnits(s2, n.sn)
       /\ ~s2.undef => \A j \in DOMAIN s2.retx : j >= s2.node <=> Past(s2.retx[j], n)
       /\ \A u \in Run(n) : u \in TxUnits(s2, n.sn) \/ AwaitAt(s2, n.sn, u)
  BY <1>2, <1>7, <1>9, <1>11, <1>12, Zenon DEF AwaitAt
<1>17. \A t \in Sn : t # n.sn => s2.txBuf[t] = st.txBuf[t]
  BY <1>1, <1>9
<1>18. QED
  BY <1>1, <1>7, <1>8, <1>13, <1>14, <1>15, <1>16, <1>17, Zenon DEF SegInv

\* The PDU at the head reaches the run and ends in it: it is moved to retx.
LEMMA SegMovedTurn ==
    ASSUME WinOK, NEW P, NEW M, NEW ns, NEW d, Truthful(P, M, ns, d), NEW i \in Nat, i < Len(ns),
           NEW n, n = ns[i + 1], NEW st, NEW l \in Nat,
           NEW s, SegInv(P, M, ns, i, n, st, l, s), NEW l2, l2 = l - 1,
           s.txBuf[n.sn] # <<>>, s.lnk = 1, Len(s.txBuf[n.sn]) <= l,
           s.txBuf[n.sn][1].end <= n.soEnd, NEW s2, s2 = [MoveSeg(s, n.sn, 1) EXCEPT !.undef = FALSE]
    PROVE  SegInv(P, M, ns, i, n, st, l2, s2)
<1>1. /\ s \in BufType /\ Good(P, M, s) /\ ~s.err /\ s.from = st.from
      /\ \A t \in Sn : t # n.sn => s.txBuf[t] = st.txBuf[t]
      /\ CleanBelow(s, Dist(ns[1].sn)) /\ AllAwait(ns, i, s)
  BY DEF SegInv
<1>2. /\ \A u \in SentUnits(n.sn) : n.soEnd < u => u \in TxUnits(s, n.sn)
      /\ s.undef => \A u \in Run(n) : u \in TxUnits(s, n.sn)
      /\ ~s.undef => \A j \in DOMAIN s.retx : j >= s.node <=> Past(s.retx[j], n)
      /\ \A u \in Run(n) : u \in TxUnits(s, n.sn) \/ AwaitAt(s, n.sn, u)
  BY DEF SegInv
<1>3. \A k \in DOMAIN s.txBuf[n.sn] : i > 0 /\ ns[i].sn = n.sn => ns[i].soEnd < s.txBuf[n.sn][k].so
  BY DEF SegInv
<1> DEFINE e == s.txBuf[n.sn][1]
           s1 == MoveSeg(s, n.sn, 1)
<1>4. /\ n.sn \in Sn /\ n.soStart \in Nat /\ n.soEnd \in Nat /\ n.soStart <= n.soEnd
      /\ \A u \in Run(n) : u \in Unit /\ u \in Nat /\ n.soStart <= u /\ u <= n.soEnd
      /\ Dist(n.sn) \in Nat /\ Dist(n.sn) < Dist(txNext)
      /\ Dist(ns[1].sn) \in Nat /\ Dist(ns[1].sn) <= Dist(n.sn)
  BY NextNackFields, Zenon
<1>5. /\ 1 \in DOMAIN s.txBuf[n.sn] /\ e.so \in Unit /\ e.end \in Unit /\ e.so <= e.end
      /\ e.so \in Nat /\ e.end \in Nat /\ e.end <= n.soEnd
      /\ Len(s.txBuf[n.sn]) \in Nat
  <2>1. /\ Len(s.txBuf[n.sn]) \in Nat /\ DOMAIN s.txBuf[n.sn] = 1 .. Len(s.txBuf[n.sn])
        /\ s.txBuf[n.sn] \in Seq(SegType)
    BY <1>1, <1>4, TxEntries
  <2>2. 1 \in DOMAIN s.txBuf[n.sn]
    BY <2>1, EmptySeq, SMT
  <2>3. e.so \in Unit /\ e.end \in Unit /\ e.so <= e.end
    BY <1>1, <1>4, <2>2, TxEntries, Zenon DEF Good, TxOrder
  <2>4. QED
    BY <2>1, <2>2, <2>3, UnitFacts
<1>6. /\ Good(P, M, s1) /\ HeadGone(s, s1, n.sn) /\ MovedAt(s, s1, n.sn)
      /\ s1.max = s.max /\ s1.err = s.err /\ s1.lnk = s.lnk /\ s1.from = s.from /\ s1.rcvd = s.rcvd
  <2> DEFINE q == n.sn
  <2>1. q \in Sn /\ s.txBuf[q] # <<>> /\ Dist(q) < Dist(txNext) /\ s1 = MoveSeg(s, q, 1)
    BY <1>4
  <2> HIDE DEF q, s1
  <2>2. /\ Good(P, M, s1) /\ HeadGone(s, s1, q) /\ MovedAt(s, s1, q)
        /\ s1.max = s.max /\ s1.err = s.err /\ s1.lnk = s.lnk /\ s1.from = s.from /\ s1.rcvd = s.rcvd
    BY <1>1, <2>1, MoveGood
  <2>3. QED
    BY <2>2 DEF q
<1> HIDE DEF s1
<1>7. s1 \in BufType /\ TxOrder(s)
  BY <1>1, <1>6 DEF Good
<1>8. /\ s2 \in BufType /\ s2.retx = s1.retx /\ s2.txBuf = s1.txBuf /\ s2.rcvd = s1.rcvd /\ s2.max = s1.max
      /\ s2.err = s1.err /\ s2.lnk = s1.lnk /\ s2.from = s1.from /\ s2.node = s1.node /\ s2.undef = FALSE
  <2>1. s2 = [s1 EXCEPT !.undef = FALSE]
    BY DEF s1
  <2>2. QED
    BY <1>7, <2>1, Zenon DEF BufType
<1>9. Good(P, M, s2)
  <2>1. SameShape(s1.retx, s2.retx)
    BY <1>8 DEF SameShape
  <2>2. QED
    BY <1>6, <1>8, <2>1, SameShapeGood, Zenon
<1>10. /\ Len(s2.txBuf[n.sn]) = Len(s.txBuf[n.sn]) - 1
       /\ \A k \in DOMAIN s2.txBuf[n.sn] :
              k + 1 \in DOMAIN s.txBuf[n.sn] /\ s2.txBuf[n.sn][k] = s.txBuf[n.sn][k + 1]
       /\ \A t \in Sn : t # n.sn => s2.txBuf[t] = s.txBuf[t]
       /\ TxUnits(s2, n.sn) = TxUnits(s, n.sn) \ Span(e)
  <2> DEFINE q == n.sn
  <2>1. q \in Sn /\ s.txBuf[q] # <<>> /\ HeadGone(s, s1, q)
    BY <1>4, <1>6
  <2> HIDE DEF q
  <2>2. /\ Len(s1.txBuf[q]) = Len(s.txBuf[q]) - 1
        /\ \A k \in DOMAIN s1.txBuf[q] : k + 1 \in DOMAIN s.txBuf[q] /\ s1.txBuf[q][k] = s.txBuf[q][k + 1]
        /\ \A t \in Sn : t # q => s1.txBuf[t] = s.txBuf[t]
    BY <1>1, <2>1, HeadGoneIndex
  <2>3. TxUnits(s1, q) = TxUnits(s, q) \ Span(s.txBuf[q][1])
    BY <1>1, <1>7, <2>1, HeadGoneUnits
  <2>4. TxUnits(s2, q) = TxUnits(s1, q)
    BY <1>8 DEF TxUnits
  <2>5. s2.txBuf = s1.txBuf
    BY <1>8
  <2>6. QED
    BY <2>2, <2>3, <2>4, <2>5, Zenon DEF q
<1>11. /\ \A t, u : AwaitAt(s, t, u) => AwaitAt(s2, t, u)
       /\ \A u \in Span(e) : AwaitAt(s2, n.sn, u)
       /\ \A j \in DOMAIN s2.retx : j >= s2.node <=> Dist(s2.retx[j].sn) > Dist(n.sn)
       /\ \A j \in DOMAIN s2.retx :
              \/ \E b \in DOMAIN s.retx : s2.retx[j] = s.retx[b]
              \/ s2.retx[j].sn = n.sn /\ s2.retx[j].so = e.so
       /\ \A c \in Nat : CleanBelow(s, c) /\ c <= Dist(n.sn) => CleanBelow(s2, c)
  <2> DEFINE q == n.sn
  <2>1. q \in Sn /\ s.txBuf[q] # <<>> /\ HeadGone(s, s2, q) /\ MovedAt(s, s1, q)
    BY <1>4, <1>6, <1>8 DEF HeadGone
  <2> HIDE DEF q
  <2>2. HeadGone(s, s1, q)
    BY <1>6 DEF q
  <2>3. /\ \A t, u : AwaitAt(s, t, u) => AwaitAt(s1, t, u)
        /\ \A u \in Span(s.txBuf[q][1]) : AwaitAt(s1, q, u)
        /\ \A j \in DOMAIN s1.retx : j >= s1.node <=> Dist(s1.retx[j].sn) > Dist(q)
        /\ \A j \in DOMAIN s1.retx :
               \/ \E b \in DOMAIN s.retx : s1.retx[j] = s.retx[b]
               \/ s1.retx[j].sn = q /\ s1.retx[j].so = s.txBuf[q][1].so
        /\ \A c \in Nat : CleanBelow(s, c) /\ c <= Dist(q) => CleanBelow(s1, c)
    BY <1>1, <1>7, <2>1, <2>2, MovedEntries
  <2>4. /\ \A t, u : AwaitAt(s1, t, u) => AwaitAt(s2, t, u)
        /\ \A c : CleanBelow(s1, c) => CleanBelow(s2, c)
    BY <1>8 DEF AwaitAt, CleanBelow
  <2> HIDE DEF s1
  <2>5. /\ \A t, u : AwaitAt(s, t, u) => AwaitAt(s2, t, u)
        /\ \A u \in Span(s.txBuf[q][1]) : AwaitAt(s2, q, u)
        /\ \A j \in DOMAIN s2.retx : j >= s2.node <=> Dist(s2.retx[j].sn) > Dist(q)
        /\ \A j \in DOMAIN s2.retx :
               \/ \E b \in DOMAIN s.retx : s2.retx[j] = s.retx[b]
               \/ s2.retx[j].sn = q /\ s2.retx[j].so = s.txBuf[q][1].so
        /\ \A c \in Nat : CleanBelow(s, c) /\ c <= Dist(q) => CleanBelow(s2, c)
    <3>1. /\ \A t, u : AwaitAt(s, t, u) => AwaitAt(s2, t, u)
          /\ \A u \in Span(s.txBuf[q][1]) : AwaitAt(s2, q, u)
          /\ \A c \in Nat : CleanBelow(s, c) /\ c <= Dist(q) => CleanBelow(s2, c)
      BY <2>3, <2>4, Zenon
    <3>2. /\ \A j \in DOMAIN s2.retx : j >= s2.node <=> Dist(s2.retx[j].sn) > Dist(q)
          /\ \A j \in DOMAIN s2.retx :
                 \/ \E b \in DOMAIN s.retx : s2.retx[j] = s.retx[b]
                 \/ s2.retx[j].sn = q /\ s2.retx[j].so = s.txBuf[q][1].so
      <4>1. s2.retx = s1.retx /\ s2.node = s1.node
        BY <1>8
      <4>2. \A j \in DOMAIN s2.retx : j >= s2.node <=> Dist(s2.retx[j].sn) > Dist(q)
        BY <2>3, <4>1
      <4>3. \A j \in DOMAIN s2.retx :
                 \/ \E b \in DOMAIN s.retx : s2.retx[j] = s.retx[b]
                 \/ s2.retx[j].sn = q /\ s2.retx[j].so = s.txBuf[q][1].so
        BY <2>3, <4>1, ZenonT(30)
      <4>4. QED
        BY <4>2, <4>3
    <3>3. QED
      BY <3>1, <3>2, Zenon
  <2>6. QED
    BY <2>5, Zenon DEF q
<1>12. \A j \in DOMAIN s2.retx : j >= s2.node <=> Past(s2.retx[j], n)
  <2>1. ASSUME NEW j \in DOMAIN s2.retx, s2.retx[j].sn = n.sn
        PROVE  ~(n.soEnd < s2.retx[j].so)
    <3> HIDE DEF e
    <3>1. CASE s2.retx[j].sn = n.sn /\ s2.retx[j].so = e.so
      <4>1. ~(n.soEnd < e.so)
        <5> DEFINE x == e.so
                   y == e.end
                   z == n.soEnd
        <5>1. x \in Nat /\ y \in Nat /\ z \in Nat /\ x <= y /\ y <= z
          BY <1>4, <1>5
        <5> HIDE DEF x, y, z
        <5>2. ~(z < x)
          BY <5>1, SMT
        <5>3. QED
          BY <5>2 DEF x, z
      <4>2. QED
        BY <3>1, <4>1
    <3>2. CASE \E b \in DOMAIN s.retx : s2.retx[j] = s.retx[b]
      <4>1. PICK b \in DOMAIN s.retx : s2.retx[j] = s.retx[b]
        BY <3>2
      <4>2. s.retx[b].end < e.so
        <5>1. RetxBelowTx(s) /\ 1 \in DOMAIN s.txBuf[n.sn] /\ s.retx[b].sn = n.sn
          BY <1>1, <1>5, <2>1, <4>1 DEF Good
        <5>2. 1 \in DOMAIN s.txBuf[s.retx[b].sn]
          BY <5>1
        <5>3. s.retx[b].end < s.txBuf[s.retx[b].sn][1].so
          BY <5>1, <5>2, Zenon DEF RetxBelowTx
        <5>4. QED
          BY <5>1, <5>3 DEF e
      <4>3. s.retx[b].so <= s.retx[b].end /\ s.retx[b].so \in Nat /\ s.retx[b].end \in Nat
        BY <1>1, <4>1, RetxEntries, UnitFacts DEF Good, RetxOrder
      <4>4. ~(n.soEnd < s.retx[b].so)
        <5> DEFINE x == s.retx[b].so
                   y == s.retx[b].end
                   z == e.so
                   w == n.soEnd
        <5>1. /\ x <= y /\ x \in Nat /\ y \in Nat /\ y < z /\ z \in Nat /\ w \in Nat
              /\ z <= e.end /\ e.end \in Nat /\ e.end <= w
          BY <1>4, <1>5, <4>2, <4>3, Zenon
        <5> HIDE DEF x, y, z, w
        <5>2. ~(w < x)
          BY <5>1, SMT
        <5>3. QED
          BY <5>2 DEF w, x
      <4>5. QED
        BY <4>1, <4>4
    <3>3. QED
      BY <1>11, <2>1, <3>1, <3>2
  <2>2. \A j \in DOMAIN s2.retx : Dist(s2.retx[j].sn) \in Nat
    BY <1>8, RetxEntries, DistNat, Zenon DEF WinOK
  <2>3. ASSUME NEW j \in DOMAIN s2.retx
        PROVE  Past(s2.retx[j], n) <=> Dist(s2.retx[j].sn) > Dist(n.sn)
    <3>1. /\ Dist(s2.retx[j].sn) \in Nat /\ Dist(n.sn) \in Nat
          /\ s2.retx[j].sn = n.sn => ~(n.soEnd < s2.retx[j].so)
      BY <1>4, <2>1, <2>2
    <3>2. QED
      BY <3>1, SMT DEF Past
  <2>4. QED
    BY <1>11, <2>3
<1>13. s2.lnk = 1 /\ Len(s2.txBuf[n.sn]) <= l2
  <2> DEFINE a == Len(s.txBuf[n.sn])
             b == Len(s2.txBuf[n.sn])
  <2>1. a \in Nat /\ a <= l /\ b = a - 1 /\ l \in Nat /\ l2 = l - 1
    BY <1>5, <1>10, Zenon
  <2> HIDE DEF a, b
  <2>2. b <= l2
    BY <2>1, SMT
  <2>3. s2.lnk = 1
    BY <1>6, <1>8
  <2>4. QED
    BY <2>2, <2>3 DEF b
<1>14. CleanBelow(s2, Dist(ns[1].sn)) /\ AllAwait(ns, i, s2)
  <2> DEFINE c == Dist(ns[1].sn)
  <2>1. c \in Nat /\ c <= Dist(n.sn) /\ CleanBelow(s, c)
    BY <1>1, NextNackFields
  <2> HIDE DEF c
  <2>2. CleanBelow(s2, c)
    BY <1>11, <2>1, Zenon
  <2>3. s2.max = s.max
    BY <1>6, <1>8
  <2>4. AllAwait(ns, i, s2)
    BY <1>1, <1>11, <2>3, Zenon DEF AllAwait
  <2>5. QED
    BY <2>2, <2>4 DEF c
<1>15. \A k \in DOMAIN s2.txBuf[n.sn] : i > 0 /\ ns[i].sn = n.sn => ns[i].soEnd < s2.txBuf[n.sn][k].so
  BY <1>3, <1>10
<1>16. \A u \in SentUnits(n.sn) : n.soEnd < u => u \in TxUnits(s2, n.sn)
  <2>1. \A u \in Span(e) : u <= n.soEnd /\ u \in Nat
    <3> DEFINE x == e.so
               y == e.end
               z == n.soEnd
    <3>1. x \in Nat /\ y \in Nat /\ z \in Nat /\ y <= z
      BY <1>4, <1>5
    <3> HIDE DEF x, y, z
    <3>2. \A u \in x .. y : u <= z /\ u \in Nat
      BY <3>1, SMT
    <3>3. QED
      BY <3>2 DEF Span, x, y, z
  <2>2. \A u \in SentUnits(n.sn) : n.soEnd < u => u \notin Span(e)
    BY <1>4, <2>1, SMT
  <2>3. QED
    BY <1>2, <1>10, <2>2, Zenon
<1>17. \A u \in Run(n) : u \in TxUnits(s2, n.sn) \/ AwaitAt(s2, n.sn, u)
  BY <1>2, <1>10, <1>11, Zenon
<1>18. \A t \in Sn : t # n.sn => s2.txBuf[t] = st.txBuf[t]
  BY <1>1, <1>10
<1>19. QED
  BY <1>1, <1>6, <1>8, <1>9, <1>12, <1>13, <1>14, <1>15, <1>16, <1>17, <1>18, Zenon DEF SegInv

\* The PDU reaches behind the run: it stays, and so does what follows.
LEMMA SegLeftTurn ==
    ASSUME WinOK, NEW P, NEW M, NEW ns, NEW d, Truthful(P, M, ns, d), NEW i \in Nat, i < Len(ns),
           NEW n, n = ns[i + 1], NEW st, NEW l \in Nat,
           NEW s, SegInv(P, M, ns, i, n, st, l, s), NEW l2, l2 = l - 1,
           \A k \in DOMAIN s.txBuf[n.sn] : n.soEnd < s.txBuf[n.sn][k].so,
           NEW s2, s2 = s \/ s2 = [s EXCEPT !.lnk = @ + 1]
    PROVE  SegInv(P, M, ns, i, n, st, l2, s2)
<1>1. /\ s \in BufType /\ Good(P, M, s) /\ ~s.err /\ s.from = st.from
      /\ \A t \in Sn : t # n.sn => s.txBuf[t] = st.txBuf[t]
      /\ CleanBelow(s, Dist(ns[1].sn)) /\ AllAwait(ns, i, s)
  BY DEF SegInv
<1>2. /\ \A u \in SentUnits(n.sn) : n.soEnd < u => u \in TxUnits(s, n.sn)
      /\ s.undef => \A u \in Run(n) : u \in TxUnits(s, n.sn)
      /\ ~s.undef => \A j \in DOMAIN s.retx : j >= s.node <=> Past(s.retx[j], n)
      /\ \A u \in Run(n) : u \in TxUnits(s, n.sn) \/ AwaitAt(s, n.sn, u)
  BY DEF SegInv
<1>3. \A k \in DOMAIN s.txBuf[n.sn] : i > 0 /\ ns[i].sn = n.sn => ns[i].soEnd < s.txBuf[n.sn][k].so
  BY DEF SegInv
<1>4. /\ s2 \in BufType /\ s2.retx = s.retx /\ s2.txBuf = s.txBuf /\ s2.rcvd = s.rcvd /\ s2.max = s.max
      /\ s2.err = s.err /\ s2.from = s.from /\ s2.node = s.node /\ s2.undef = s.undef
  <2> DEFINE m == s.lnk + 1
  <2>1. m \in Nat \ {0}
    BY <1>1, BufFields, SMT
  <2>2. s2 = s \/ s2 = [s EXCEPT !.lnk = m]
    OBVIOUS
  <2> HIDE DEF m
  <2>3. QED
    BY <1>1, <2>1, <2>2, Zenon DEF BufType
<1>5. Good(P, M, s2)
  <2>1. SameShape(s.retx, s2.retx)
    BY <1>4 DEF SameShape
  <2>2. QED
    BY <1>1, <1>4, <2>1, SameShapeGood
<1>6. CleanBelow(s2, Dist(ns[1].sn)) /\ AllAwait(ns, i, s2)
  BY <1>1, <1>4 DEF AllAwait, AwaitAt, CleanBelow
<1>7. /\ \A u \in SentUnits(n.sn) : n.soEnd < u => u \in TxUnits(s2, n.sn)
      /\ s2.undef => \A u \in Run(n) : u \in TxUnits(s2, n.sn)
      /\ ~s2.undef => \A j \in DOMAIN s2.retx : j >= s2.node <=> Past(s2.retx[j], n)
      /\ \A u \in Run(n) : u \in TxUnits(s2, n.sn) \/ AwaitAt(s2, n.sn, u)
  BY <1>2, <1>4, Zenon DEF TxUnits, AwaitAt
<1>8. \A k \in DOMAIN s2.txBuf[n.sn] : i > 0 /\ ns[i].sn = n.sn => ns[i].soEnd < s2.txBuf[n.sn][k].so
  BY <1>3, <1>4
<1>9. \A k \in DOMAIN s2.txBuf[n.sn] : n.soEnd < s2.txBuf[n.sn][k].so
  BY <1>4
<1>10. QED
  BY <1>1, <1>4, <1>5, <1>6, <1>7, <1>8, <1>9, Zenon DEF SegInv

\* One turn: the PDU is confirmed, moved to retxLst or left.
LEMMA SegTurnKeeps ==
    ASSUME WinOK, NEW P, NEW M, NEW ns, NEW d, Truthful(P, M, ns, d), NEW i \in Nat, i < Len(ns),
           NEW n, n = ns[i + 1], NEW st, NEW l \in Nat,
           NEW s, SegInv(P, M, ns, i, n, st, l, s), NEW l2, l2 = l - 1,
           NEW s2, s2 = SegTurn(s, n)
    PROVE  SegInv(P, M, ns, i, n, st, l2, s2)
<1> DEFINE lst == s.txBuf[n.sn]
           e == lst[s.lnk]
<1>1. s \in BufType /\ Good(P, M, s) /\ n.sn \in Sn
  BY NextNackFields DEF SegInv
<1>2. /\ Len(lst) \in Nat /\ DOMAIN lst = 1 .. Len(lst) /\ s.lnk \in Nat
      /\ n.soStart \in Nat /\ n.soEnd \in Nat /\ n.soStart <= n.soEnd
  <2>1. n.soStart \in Nat /\ n.soEnd \in Nat /\ n.soStart <= n.soEnd
    BY NextNackFields
  <2>2. QED
    BY <1>1, <2>1, TxEntries, BufFields
<1>3. CASE s.lnk \notin DOMAIN lst
  <2>1. s2 = s
    BY <1>3 DEF SegTurn
  <2>2. \A k \in DOMAIN lst : n.soEnd < lst[k].so
    <3>1. \/ s.lnk = 1
          \/ \A k \in DOMAIN lst : n.soEnd < lst[k].so
      BY DEF SegInv
    <3>2. s.lnk = 1 => DOMAIN lst = {}
      BY <1>2, <1>3, SMT
    <3>3. QED
      BY <3>1, <3>2
  <2>3. QED
    BY <2>1, <2>2, SegLeftTurn, Zenon
<1>4. CASE s.lnk \in DOMAIN lst
  <2>1. /\ e.so \in Unit /\ e.end \in Unit /\ e.so <= e.end /\ e.so \in Nat /\ e.end \in Nat
        /\ <<n.sn, e.so, e.end>> \in P
    <3>1. e.so \in Unit /\ e.end \in Unit /\ e.so <= e.end /\ <<n.sn, e.so, e.end>> \in P
      BY <1>1, <1>4, TxEntries, PiecesHeld, Zenon DEF Good, TxOrder
    <3>2. QED
      BY <3>1, UnitFacts
  <2>2. CASE n.soEnd < e.end
    <3>1. s2 = [s EXCEPT !.lnk = @ + 1]
      <4>1. ~SegAcked(e, n) /\ ~SegNacked(e, n)
        <5> DEFINE x == e.end
                   y == n.soStart
                   z == n.soEnd
        <5>1. x \in Nat /\ y \in Nat /\ z \in Nat /\ y <= z /\ z < x
          BY <1>2, <2>1, <2>2
        <5> HIDE DEF x, y, z
        <5>2. ~(x < y) /\ ~(x <= z)
          BY <5>1, SMT
        <5>3. QED
          BY <5>2 DEF SegAcked, SegNacked, x, y, z
      <4>2. QED
        BY <1>4, <4>1 DEF SegTurn
    <3>2. n.soEnd < e.so
      <4> DEFINE b == i + 1
      <4>1. b \in DOMAIN ns /\ n = ns[b]
        BY NextNack
      <4> HIDE DEF b, e
      <4>2. <<ns[b].sn, e.so, e.end>> \in P /\ ns[b].soEnd < e.end
        BY <2>1, <2>2, <4>1
      <4>3. ns[b].soEnd < e.so
        BY <2>1, <4>1, <4>2, WholeRun
      <4>4. QED
        BY <4>1, <4>3
    <3>3. \A k \in DOMAIN lst : n.soEnd < lst[k].so
      <4>1. \/ s.lnk = 1
            \/ \A k \in DOMAIN lst : n.soEnd < lst[k].so
        BY DEF SegInv
      <4>2. ASSUME s.lnk = 1, NEW k \in DOMAIN lst
            PROVE  n.soEnd < lst[k].so
        <5>1. k = 1 \/ 1 < k
          BY <1>2, <4>2, SMT
        <5>2. k = 1 \/ e.end < lst[k].so
          BY <1>1, <1>4, <4>2, <5>1 DEF Good, TxOrder
        <5>3. lst[k].so \in Nat
          BY <1>1, <4>2, TxEntries, UnitFacts
        <5>4. CASE k = 1
          BY <3>2, <4>2, <5>4
        <5>5. CASE e.end < lst[k].so
          <6> DEFINE x == e.end
                     y == lst[k].so
                     z == n.soEnd
          <6>1. x \in Nat /\ y \in Nat /\ z \in Nat /\ z < x /\ x < y
            BY <1>2, <2>1, <2>2, <5>3, <5>5
          <6> HIDE DEF x, y, z
          <6>2. z < y
            BY <6>1, SMT
          <6>3. QED
            BY <6>2 DEF y, z
        <5>6. QED
          BY <5>2, <5>4, <5>5
      <4>3. QED
        BY <4>1, <4>2
    <3>4. \A k \in DOMAIN s.txBuf[n.sn] : n.soEnd < s.txBuf[n.sn][k].so
      BY <3>3
    <3>5. s2 = s \/ s2 = [s EXCEPT !.lnk = @ + 1]
      BY <3>1
    <3> HIDE DEF lst, e
    <3>6. QED
      BY <3>4, <3>5, SegLeftTurn, Zenon
  <2>3. CASE ~(n.soEnd < e.end)
    <3>1. e.end <= n.soEnd /\ ~(n.soEnd < e.so)
      <4> DEFINE x == e.so
                 y == e.end
                 z == n.soEnd
      <4>1. x \in Nat /\ y \in Nat /\ z \in Nat /\ x <= y /\ ~(z < y)
        BY <1>2, <2>1, <2>3
      <4> HIDE DEF x, y, z
      <4>2. y <= z /\ ~(z < x)
        BY <4>1, SMT
      <4>3. QED
        BY <4>2 DEF x, y, z
    <3>2. s.lnk = 1 /\ Len(lst) <= l
      <4>1. \/ s.lnk = 1 /\ Len(lst) <= l
            \/ \A k \in DOMAIN lst : n.soEnd < lst[k].so
        BY DEF SegInv
      <4>2. QED
        BY <1>4, <3>1, <4>1
    <3>3. lst # <<>>
      BY <1>4
    <3>4. CASE SegAcked(e, n)
      <4>1. s2 = AckHead(s, n.sn)
        BY <1>4, <3>2, <3>4, Zenon DEF SegTurn, AckHead
      <4>2. lst[1].end < n.soStart
        BY <3>2, <3>4 DEF SegAcked
      <4>3. QED
        BY <3>2, <3>3, <4>1, <4>2, SegAckedTurn, Zenon
    <3>5. CASE ~SegAcked(e, n)
      <4>1. s2 = [MoveSeg(s, n.sn, 1) EXCEPT !.undef = FALSE]
        BY <1>4, <3>1, <3>2, <3>5 DEF SegTurn, SegNacked
      <4>2. lst[1].end <= n.soEnd
        BY <3>1, <3>2
      <4>3. QED
        BY <3>2, <3>3, <4>1, <4>2, SegMovedTurn, Zenon
    <3>6. QED
      BY <3>4, <3>5
  <2>4. QED
    BY <2>2, <2>3
<1>5. QED
  BY <1>3, <1>4

\* The loop.
LEMMA SegLoop ==
    ASSUME WinOK, NEW P, NEW M, NEW ns, NEW d, Truthful(P, M, ns, d), NEW i \in Nat, i < Len(ns),
           NEW n, n = ns[i + 1], NEW st \in BufType,
           SegInv(P, M, ns, i, n, st, Len(st.txBuf[n.sn]), [st EXCEPT !.lnk = 1, !.undef = TRUE])
    PROVE  SegInv(P, M, ns, i, n, st, 0, NackSegInTxBuf(st, n))
<1> DEFINE s0 == [st EXCEPT !.lnk = 1, !.undef = TRUE]
<1>0. s0 \in BufType /\ n.sn \in Sn /\ Len(st.txBuf[n.sn]) \in Nat
  <2>1. s0 \in BufType /\ n.sn \in Sn
    BY NextNackFields DEF SegInv
  <2> DEFINE q == n.sn
  <2>2. q \in Sn
    BY <2>1
  <2> HIDE DEF q
  <2>3. Len(st.txBuf[q]) \in Nat
    BY <2>2, TxEntries
  <2>4. QED
    BY <2>1, <2>3 DEF q
<1> DEFINE last == Len(st.txBuf[n.sn])
           Inv(k, s) == SegInv(P, M, ns, i, n, st, last - k, s)
           Turn(b, s) == SegTurn(s, n)
           R == [k \in 0 .. last |-> {s \in BufType : Inv(k, s)}]
           T == [p \in (1 .. last) \X BufType |-> IF p[2] \in R[p[1] - 1] THEN Turn(p[1], p[2]) ELSE s0]
           f == CHOOSE f : f = [k \in 0 .. last |-> IF k = 0 THEN s0 ELSE Turn(k, f[k - 1])]
<1>1. last \in Nat
  BY <1>0
<1>2. ASSUME NEW k \in 1 .. last, NEW s, Inv(k - 1, s)
      PROVE  Inv(k, Turn(k, s)) /\ Turn(k, s) \in BufType
  <2> HIDE DEF last, s0
  <2>1. last - k = (last - (k - 1)) - 1 /\ last - k \in Nat
        /\ last - (k - 1) \in Nat /\ last - (k - 1) > 0
    BY <1>1, SMT
  <2>2. Inv(k, Turn(k, s))
    BY <1>2, <2>1, SegTurnKeeps, Zenon
  <2>3. QED
    BY <2>2, Zenon DEF SegInv
<1>3. NackSegInTxBuf(st, n) = f[last]
  BY DEF NackSegInTxBuf, AfterTurns
<1>21. SegInv(P, M, ns, i, n, st, last, s0)
  OBVIOUS
<1> HIDE DEF Inv, Turn, last, s0
<1>4. R \in [0 .. last -> SUBSET BufType] /\ s0 \in R[0]
  <2>1. last - 0 = last
    BY <1>1, SMT
  <2>2. Inv(0, s0)
    BY <1>21, <2>1 DEF Inv
  <2>3. QED
    BY <1>0, <1>1, <2>2
<1>5. \A k \in 1 .. last : k - 1 \in 0 .. last /\ k \in 0 .. last
  BY <1>1, SMT
<1>6. \A k \in 1 .. last : \A s \in R[k - 1] : Turn(k, s) \in R[k]
  BY <1>2, <1>5
<1>7. T \in [(1 .. last) \X BufType -> BufType]
  BY <1>0, <1>4, <1>5, <1>6, Zenon
<1>8. \A k \in 1 .. last : \A s \in R[k - 1] : T[<<k, s>>] = Turn(k, s)
  BY <1>4, <1>5
<1> HIDE DEF T, R, f
<1>9. \A k \in 1 .. last : \A s \in R[k - 1] : T[<<k, s>>] \in R[k]
  BY <1>6, <1>8, Zenon
<1>10. \E g : IsLoop(g, last, s0, T) /\ \A k \in 0 .. last : g[k] \in R[k]
  BY <1>1, <1>4, <1>7, <1>9, TurnsExist, Zenon
<1>11. \E g : g = [k \in 0 .. last |-> IF k = 0 THEN s0 ELSE Turn(k, g[k - 1])]
  <2>1. PICK g : /\ g = [k \in 0 .. last |-> IF k = 0 THEN s0 ELSE T[<<k, g[k - 1]>>]]
                 /\ \A k \in 0 .. last : g[k] \in R[k]
    BY <1>10, Zenon DEF IsLoop
  <2>2. \A k \in 0 .. last : k # 0 => k \in 1 .. last
    BY SMT
  <2>3. \A k \in 0 .. last : k # 0 => T[<<k, g[k - 1]>>] = Turn(k, g[k - 1])
    BY <1>5, <1>8, <2>1, <2>2
  <2>4. QED
    BY <2>1, <2>3, Zenon
<1>12. f = [k \in 0 .. last |-> IF k = 0 THEN s0 ELSE Turn(k, f[k - 1])]
  BY <1>11, Zenon DEF f
<1>13. f[last] \in R[last]
  <2>1. f[0] \in R[0]
    BY <1>1, <1>4, <1>12
  <2>2. ASSUME NEW k \in 1 .. last, f[k - 1] \in R[k - 1]
        PROVE  f[k] \in R[k]
    <3>1. f[k] = Turn(k, f[k - 1])
      BY <1>5, <1>12, SMT
    <3>2. QED
      BY <1>6, <2>2, <3>1
  <2>3. QED
    BY <1>1, <2>1, <2>2, TurnsEnd
<1>14. Inv(last, f[last])
  BY <1>1, <1>13 DEF R
<1>15. QED
  <2>1. last - last = 0
    BY <1>1, SMT
  <2>2. QED
    BY <1>3, <1>14, <2>1 DEF Inv

\* The NACK of a part of an SDU that is in txBuf.
LEMMA NackSegDone ==
    ASSUME WinOK, NEW P, NEW M, NEW ns, NEW d, Truthful(P, M, ns, d), NEW i \in Nat, i < Len(ns),
           NEW n, n = ns[i + 1], NEW st, Ready(P, M, ns, i, st), st.txBuf[n.sn] # <<>>,
           NEW s2, s2 = NackSegInTxBuf(st, n)
    PROVE  Between(P, M, ns, i + 1, s2)
<1> DEFINE b == i + 1
           s0 == [st EXCEPT !.lnk = 1, !.undef = TRUE]
<1>1. /\ st \in BufType /\ Good(P, M, st) /\ ~st.err /\ ~st.undef
      /\ AllAwait(ns, i, st) /\ TxPast(ns, i, st) /\ TxFull(ns, i, st)
      /\ From(ns, b, st) /\ CleanBelow(st, Dist(ns[1].sn))
  BY DEF Ready, Mid, Good
<1>2. /\ Names(M, ns, d) /\ b \in DOMAIN ns /\ n = ns[b] /\ DOMAIN ns = 1 .. Len(ns)
  BY NextNack
<1>3. /\ n.sn \in Sn /\ n.soStart \in Nat /\ n.soEnd \in Nat /\ n.soEnd \in Unit /\ n.soStart <= n.soEnd
      /\ \A u \in Run(n) : u \in Unit /\ u \in Nat /\ n.soStart <= u /\ u <= n.soEnd
      /\ Dist(n.sn) < Dist(txNext) /\ n.soEnd \in Run(n)
      /\ i > 0 => i \in DOMAIN ns
  BY NextNackFields
<1>4. /\ s0 \in BufType /\ s0.retx = st.retx /\ s0.txBuf = st.txBuf /\ s0.rcvd = st.rcvd /\ s0.max = st.max
      /\ s0.err = st.err /\ s0.from = st.from /\ s0.node = st.node /\ s0.undef = TRUE /\ s0.lnk = 1
  <2>1. 1 \in Nat \ {0}
    OBVIOUS
  <2>2. QED
    BY <1>1, <2>1, Zenon DEF BufType
<1>5. \A u \in SentUnits(n.sn) : u \in Nat /\ n.soStart <= u => u \in TxUnits(st, n.sn)
  <2>1. ASSUME NEW j \in DOMAIN ns, j <= i, ns[j].sn = n.sn
        PROVE  ns[j].soEnd < n.soStart /\ ns[j].soEnd \in Nat
    <3>1. j # b /\ j <= b
      BY <1>2, <2>1, SMT
    <3> HIDE DEF b
    <3>2. ns[j].soEnd < ns[b].soStart
      BY <1>2, <2>1, <3>1, NackOrder
    <3>3. ns[j].soEnd \in Nat
      BY <1>2, <2>1, NackFacts, UnitFacts
    <3>4. QED
      BY <1>2, <3>2, <3>3
  <2>2. ASSUME NEW u \in SentUnits(n.sn), u \in Nat, n.soStart <= u
        PROVE  u \in TxUnits(st, n.sn)
    <3>1. \A j \in DOMAIN ns : j <= i /\ ns[j].sn = n.sn => ns[j].soEnd < u
      BY <1>3, <2>1, <2>2, SMT
    <3>2. QED
      BY <1>1, <1>3, <2>2, <3>1 DEF TxFull
  <2>3. QED
    BY <2>2
<1>6. SegInv(P, M, ns, i, n, st, Len(st.txBuf[n.sn]), s0)
  <2>1. Good(P, M, s0)
    <3>1. SameShape(st.retx, s0.retx)
      BY <1>4 DEF SameShape
    <3> HIDE DEF s0
    <3>2. QED
      BY <1>1, <1>4, <3>1, SameShapeGood
  <2> HIDE DEF s0
  <2>2. CleanBelow(s0, Dist(ns[1].sn)) /\ AllAwait(ns, i, s0)
    BY <1>1, <1>4 DEF CleanBelow, AllAwait, AwaitAt
  <2>3. \A k \in DOMAIN s0.txBuf[n.sn] : i > 0 /\ ns[i].sn = n.sn => ns[i].soEnd < s0.txBuf[n.sn][k].so
    <3>1. i <= i
      BY SMT
    <3>2. QED
      BY <1>1, <1>3, <1>4, <3>1 DEF TxPast
  <2>4. TxUnits(s0, n.sn) = TxUnits(st, n.sn) /\ SentUnits(n.sn) = Unit
    BY <1>3, <1>4 DEF TxUnits, SentUnits
  <2>5. \A u \in SentUnits(n.sn) : n.soEnd < u => u \in TxUnits(s0, n.sn)
    <3>1. \A u \in Unit : u \in Nat /\ (n.soEnd < u => n.soStart <= u)
      BY <1>3, UnitFacts, SMT
    <3>2. QED
      BY <1>5, <2>4, <3>1
  <2>6. \A u \in Run(n) : u \in TxUnits(s0, n.sn)
    BY <1>3, <1>5, <2>4
  <2>7. Len(s0.txBuf[n.sn]) <= Len(st.txBuf[n.sn])
    <3>1. Len(st.txBuf[n.sn]) \in Nat
      BY <1>1, <1>3, TxEntries
    <3>2. QED
      BY <1>4, <3>1, SMT
  <2>8. QED
    BY <1>1, <1>4, <2>1, <2>2, <2>3, <2>5, <2>6, <2>7 DEF SegInv
<1>7. SegInv(P, M, ns, i, n, st, 0, s2)
  BY <1>1, <1>6, SegLoop, Zenon
<1> HIDE DEF s0
<1>8. /\ s2 \in BufType /\ Good(P, M, s2) /\ ~s2.err /\ s2.from = st.from
      /\ \A t \in Sn : t # n.sn => s2.txBuf[t] = st.txBuf[t]
      /\ CleanBelow(s2, Dist(ns[1].sn)) /\ AllAwait(ns, i, s2)
      /\ \A u \in SentUnits(n.sn) : n.soEnd < u => u \in TxUnits(s2, n.sn)
      /\ s2.undef => \A u \in Run(n) : u \in TxUnits(s2, n.sn)
      /\ ~s2.undef => \A j \in DOMAIN s2.retx : j >= s2.node <=> Past(s2.retx[j], n)
      /\ \A u \in Run(n) : u \in TxUnits(s2, n.sn) \/ AwaitAt(s2, n.sn, u)
      /\ \/ Len(s2.txBuf[n.sn]) <= 0
         \/ \A k \in DOMAIN s2.txBuf[n.sn] : n.soEnd < s2.txBuf[n.sn][k].so
  BY <1>7 DEF SegInv
<1>9. \A k \in DOMAIN s2.txBuf[n.sn] : n.soEnd < s2.txBuf[n.sn][k].so
  <2>1. Len(s2.txBuf[n.sn]) <= 0 => DOMAIN s2.txBuf[n.sn] = {}
    <3>1. Len(s2.txBuf[n.sn]) \in Nat /\ DOMAIN s2.txBuf[n.sn] = 1 .. Len(s2.txBuf[n.sn])
      BY <1>3, <1>8, TxEntries
    <3>2. QED
      BY <3>1, SMT
  <2>2. QED
    BY <1>8, <2>1
<1>10. \A u \in Run(n) : u \notin TxUnits(s2, n.sn)
  <2>1. SUFFICES ASSUME NEW u \in Run(n), NEW k \in DOMAIN s2.txBuf[n.sn], u \in Span(s2.txBuf[n.sn][k])
                 PROVE  FALSE
    BY DEF TxUnits
  <2>2. s2.txBuf[n.sn][k].so \in Nat /\ s2.txBuf[n.sn][k].end \in Nat
    BY <1>3, <1>8, TxEntries, UnitFacts
  <2>3. s2.txBuf[n.sn][k].so <= u
    BY <1>3, <2>1, <2>2, SMTT(30) DEF Span
  <2>4. QED
    BY <1>3, <1>9, <2>1, <2>2, <2>3, SMT
<1>11. ~s2.undef
  BY <1>3, <1>8, <1>10
<1>12. Nodes(ns, b, s2)
  <2>1. b # 0
    BY SMT
  <2>2. QED
    BY <1>2, <1>8, <1>11, <2>1 DEF Nodes
<1>13. AllAwait(ns, b, s2)
  <2>1. \A j \in DOMAIN ns : j <= b => j <= i \/ j = b
    <3>1. DOMAIN ns = 1 .. Len(ns) /\ Len(ns) \in Nat
      BY <1>2, NackFacts
    <3>2. QED
      BY <3>1, SMT
  <2>2. QED
    BY <1>2, <1>8, <1>10, <2>1 DEF AllAwait
<1>14. TxPast(ns, b, s2) /\ TxFull(ns, b, s2)
  <2>1. s2.txBuf[n.sn] # <<>> => \A u \in SentUnits(n.sn) : n.soEnd < u => u \in TxUnits(s2, n.sn)
    BY <1>8
  <2>2. /\ TxPast(ns, i, st) /\ TxFull(ns, i, st) /\ s2 \in BufType
        /\ \A t \in Sn : t # n.sn => s2.txBuf[t] = st.txBuf[t]
    BY <1>1, <1>8
  <2>3. QED
    BY <1>9, <2>1, <2>2, TxNext
<1>15. From(ns, b, s2)
  BY <1>1, <1>8 DEF From
<1> HIDE DEF b
<1>16. Mid(P, M, ns, b, s2)
  BY <1>8, <1>11, <1>12, <1>13, <1>14 DEF Mid
<1>17. QED
  BY <1>8, <1>15, <1>16 DEF Between, b

-----------------------------------------------------------------------------
(* The NACKs of a report, one after the other.                             *)

\* One NACK, handled.
LEMMA HndlNackDone ==
    ASSUME WinOK, NEW P, NEW M, NEW ns, NEW d, Truthful(P, M, ns, d), NEW i \in Nat, i < Len(ns),
           NEW s, Between(P, M, ns, i, s), NEW n, n = ns[i + 1],
           NEW s2, s2 = HndlNack(s, n, d)
    PROVE  Between(P, M, ns, i + 1, s2)
<1> DEFINE q == n.sn
           c == Dist(q)
           s1 == [LessThanNackSn(s, c) EXCEPT !.from = AddSn(q, 1)]
<1>1. /\ n.sn \in Sn /\ c \in Nat /\ c < d /\ d \in Nat /\ c < Dist(txNext) /\ Dist(txNext) \in Nat
  BY NextNackFields, NextNack
<1>2. ~(c > d) /\ ~(c >= Dist(txNext))
  <2> HIDE DEF c
  <2>1. QED
    BY <1>1, SMT
<1>3. ~s.err /\ ~s.undef
  BY DEF Between, Mid
<1>4. s2 = ForNackSn(s1, n)
  BY <1>2, <1>3 DEF HndlNack, ErroneousNack
<1>5. Ready(P, M, ns, i, s1)
  <2>1. c = Dist(ns[i + 1].sn) /\ s1 = [LessThanNackSn(s, c) EXCEPT !.from = AddSn(ns[i + 1].sn, 1)]
    OBVIOUS
  <2> HIDE DEF s1, c
  <2>2. QED
    BY <2>1, LessReady
<1> HIDE DEF s1
<1>6. CASE s1.txBuf[n.sn] = <<>>
  <2>1. s2 = NackInRetxLst(s1, n)
    BY <1>4, <1>6 DEF ForNackSn
  <2>2. QED
    BY <1>5, <1>6, <2>1, NackRetxDone
<1>7. CASE s1.txBuf[n.sn] # <<>> /\ n.isSegment
  <2>1. s2 = NackSegInTxBuf(s1, n)
    BY <1>4, <1>7 DEF ForNackSn
  <2>2. QED
    BY <1>5, <1>7, <2>1, NackSegDone
<1>8. CASE s1.txBuf[n.sn] # <<>> /\ ~n.isSegment
  <2>1. s2 = MoveFrmTxtoRetxBuffer(s1, n.sn)
    BY <1>4, <1>8 DEF ForNackSn
  <2>2. QED
    BY <1>5, <1>8, <2>1, NackMoveDone
<1>9. QED
  BY <1>6, <1>7, <1>8

\* All of them.
LEMMA NacksLoop ==
    ASSUME WinOK, NEW P, NEW M, NEW rep, NEW ns, ns = rep.nacks, NEW d, d = Dist(rep.ackSn),
           Truthful(P, M, ns, d), NEW st, st = Buffers, Between(P, M, ns, 0, st)
    PROVE  Between(P, M, ns, Len(ns), AfterNacks(rep))
<1>0. st \in BufType
  BY DEF Between, Mid, Good
<1> DEFINE last == Len(ns)
           Inv(k, s) == Between(P, M, ns, k, s)
           Turn(b, s) == HndlNack(s, ns[b], d)
           R == [k \in 0 .. last |-> {s \in BufType : Inv(k, s)}]
           T == [p \in (1 .. last) \X BufType |-> IF p[2] \in R[p[1] - 1] THEN Turn(p[1], p[2]) ELSE st]
           f == CHOOSE f : f = [k \in 0 .. last |-> IF k = 0 THEN st ELSE Turn(k, f[k - 1])]
<1>1. last \in Nat
  BY LenProperties DEF Truthful, Names
<1>2. ASSUME NEW k \in 1 .. last, NEW s, Inv(k - 1, s)
      PROVE  Inv(k, Turn(k, s)) /\ Turn(k, s) \in BufType
  <2> DEFINE i == k - 1
  <2>1. i \in Nat /\ i < last /\ i + 1 = k
    BY <1>1, SMT
  <2>2. Between(P, M, ns, i, s)
    BY <1>2
  <2>3. ns[k] = ns[i + 1]
    BY <2>1
  <2> HIDE DEF i
  <2>4. Between(P, M, ns, i + 1, Turn(k, s))
    BY <2>1, <2>2, <2>3, HndlNackDone
  <2>5. Between(P, M, ns, k, Turn(k, s))
    BY <2>1, <2>4
  <2>6. QED
    BY <2>5 DEF Between, Mid, Good
<1>3. AfterNacks(rep) = f[last]
  BY DEF AfterNacks, AfterTurns
<1> HIDE DEF Inv, Turn, last
<1>4. R \in [0 .. last -> SUBSET BufType] /\ st \in R[0]
  <2>1. Inv(0, st)
    BY DEF Inv
  <2>2. QED
    BY <1>0, <1>1, <2>1
<1>5. \A k \in 1 .. last : k - 1 \in 0 .. last /\ k \in 0 .. last
  BY <1>1, SMT
<1>6. \A k \in 1 .. last : \A s \in R[k - 1] : Turn(k, s) \in R[k]
  BY <1>2, <1>5
<1>7. T \in [(1 .. last) \X BufType -> BufType]
  BY <1>0, <1>4, <1>5, <1>6
<1>8. \A k \in 1 .. last : \A s \in R[k - 1] : T[<<k, s>>] = Turn(k, s)
  BY <1>4, <1>5
<1> HIDE DEF T, R, f
<1>9. \A k \in 1 .. last : \A s \in R[k - 1] : T[<<k, s>>] \in R[k]
  BY <1>6, <1>8, Zenon
<1>10. \E g : IsLoop(g, last, st, T) /\ \A k \in 0 .. last : g[k] \in R[k]
  BY <1>1, <1>4, <1>7, <1>9, TurnsExist, Zenon
<1>11. \E g : g = [k \in 0 .. last |-> IF k = 0 THEN st ELSE Turn(k, g[k - 1])]
  <2>1. PICK g : /\ g = [k \in 0 .. last |-> IF k = 0 THEN st ELSE T[<<k, g[k - 1]>>]]
                 /\ \A k \in 0 .. last : g[k] \in R[k]
    BY <1>10, Zenon DEF IsLoop
  <2>2. \A k \in 0 .. last : k # 0 => k \in 1 .. last
    BY SMT
  <2>3. \A k \in 0 .. last : k # 0 => T[<<k, g[k - 1]>>] = Turn(k, g[k - 1])
    BY <1>5, <1>8, <2>1, <2>2
  <2>4. QED
    BY <2>1, <2>3, Zenon
<1>12. f = [k \in 0 .. last |-> IF k = 0 THEN st ELSE Turn(k, f[k - 1])]
  BY <1>11, Zenon DEF f
<1>13. f[last] \in R[last]
  <2>1. f[0] \in R[0]
    BY <1>1, <1>4, <1>12
  <2>2. ASSUME NEW k \in 1 .. last, f[k - 1] \in R[k - 1]
        PROVE  f[k] \in R[k]
    <3>1. f[k] = Turn(k, f[k - 1])
      BY <1>5, <1>12, SMT
    <3>2. QED
      BY <1>6, <2>2, <3>1
  <2>3. QED
    BY <1>1, <2>1, <2>2, TurnsEnd
<1>14. Inv(last, f[last])
  BY <1>1, <1>13 DEF R
<1>15. QED
  BY <1>3, <1>14 DEF Inv, last

-----------------------------------------------------------------------------
(* rlcAmmDlUpdTxAndReTxBufForAckSn.                                        *)

\* Between the turns of its loop over retx: begun with st, and with at most l
\* more turns to go.
AckInv(P, M, ns, d, st, l, s) ==
    /\ s \in BufType /\ Good(P, M, s) /\ ~s.err /\ ~s.undef /\ s.txBuf = st.txBuf
    /\ AllAwait(ns, Len(ns), s)
    /\ Len(ns) > 0 => CleanBelow(s, Dist(ns[1].sn))
    /\ \A j \in DOMAIN s.retx :
           IF j < s.node THEN Len(ns) = 0 => Dist(s.retx[j].sn) >= d
           ELSE Len(ns) > 0 => Past(s.retx[j], ns[Len(ns)])
    /\ Len(s.retx) - s.node + 1 <= l

\* An entry below ackSn and behind the last NACK has arrived.
LEMMA AckArrived ==
    ASSUME WinOK, NEW P, NEW M, NEW ns, NEW d, Truthful(P, M, ns, d),
           NEW e, e.sn \in Sn, e.so \in Unit, e.end \in Unit, e.so <= e.end,
           <<e.sn, e.so, e.end>> \in P, Dist(e.sn) < d,
           Len(ns) > 0 => Past(e, ns[Len(ns)])
    PROVE  Span(e) \intersect M[e.sn] = {}
<1> DEFINE i == Len(ns)
<1>1. Names(M, ns, d) /\ i \in Nat /\ i <= Len(ns) /\ ~(i < Len(ns))
  <2>1. Names(M, ns, d) /\ i \in Nat
    BY LenProperties DEF Truthful, Names
  <2>2. i <= i /\ ~(i < i)
    BY <2>1, SMT
  <2>3. QED
    BY <2>1, <2>2
<1>2. i > 0 => Dist(ns[i].sn) < Dist(e.sn) \/ (e.sn = ns[i].sn /\ ns[i].soEnd < e.so)
  BY DEF Past
<1> HIDE DEF i
<1> DEFINE q == e.sn
           u == e.so
<1>3. q \in Sn /\ u \in Unit /\ Dist(q) < d
  OBVIOUS
<1>4. i > 0 => Dist(ns[i].sn) < Dist(q) \/ (q = ns[i].sn /\ ns[i].soEnd < u)
  BY <1>2
<1> HIDE DEF q, u
<1>5. u \notin M[q]
  BY <1>1, <1>3, <1>4, NotNamed
<1>6. e.so \notin M[e.sn]
  BY <1>5 DEF q, u
<1>7. QED
  <2> DEFINE q2 == e.sn
  <2>1. e.so \notin M[q2] /\ <<q2, e.so, e.end>> \in P
    BY <1>6
  <2> HIDE DEF q2
  <2>2. Span(e) \intersect M[q2] = {}
    BY <2>1, WholePiece
  <2>3. QED
    BY <2>2 DEF q2

\* One turn.
LEMMA AckTurnKeeps ==
    ASSUME WinOK, NEW P, NEW M, NEW ns, NEW d, Truthful(P, M, ns, d),
           NEW st, NEW l \in Nat, l > 0, NEW s, AckInv(P, M, ns, d, st, l, s), NEW l2, l2 = l - 1,
           NEW s2, s2 = AckTurn(s, d)
    PROVE  AckInv(P, M, ns, d, st, l2, s2)
<1> DEFINE e == s.retx[s.node]
<1>1. /\ s \in BufType /\ Good(P, M, s) /\ ~s.err /\ ~s.undef /\ s.txBuf = st.txBuf
      /\ AllAwait(ns, Len(ns), s)
      /\ Len(ns) > 0 => CleanBelow(s, Dist(ns[1].sn))
  BY DEF AckInv
<1>2. /\ \A j \in DOMAIN s.retx :
           IF j < s.node THEN Len(ns) = 0 => Dist(s.retx[j].sn) >= d
           ELSE Len(ns) > 0 => Past(s.retx[j], ns[Len(ns)])
      /\ Len(s.retx) - s.node + 1 <= l
  BY DEF AckInv
<1>3. /\ Len(s.retx) \in Nat /\ DOMAIN s.retx = 1 .. Len(s.retx)
      /\ s.node \in Nat /\ s.node > 0 /\ d \in Nat
  BY <1>1, RetxEntries, BufFields, SMT DEF Truthful
<1>4. CASE ~AtNode(s)
  <2>1. s2 = s
    BY <1>4 DEF AckTurn
  <2>2. Len(s.retx) - s.node + 1 <= l2
    <3> DEFINE a == Len(s.retx)
               b == s.node
    <3>1. a \in Nat /\ b \in Nat /\ b > 0 /\ b \notin 1 .. a /\ l \in Nat /\ l > 0 /\ l2 = l - 1
      BY <1>3, <1>4 DEF AtNode
    <3> HIDE DEF a, b
    <3>2. a - b + 1 <= l2
      BY <3>1, SMT
    <3>3. QED
      BY <3>2 DEF a, b
  <2>3. QED
    BY <1>1, <1>2, <2>1, <2>2 DEF AckInv
<1>5. CASE AtNode(s) /\ Dist(e.sn) < d
  <2>1. s2 = SuccessfulReTx(s) /\ s.node \in DOMAIN s.retx
    BY <1>5 DEF AckTurn, AtNode
  <2>2. /\ e.sn \in Sn /\ e.so \in Unit /\ e.end \in Unit /\ e.so <= e.end
        /\ <<e.sn, e.so, e.end>> \in P
    BY <1>1, <2>1, RetxEntries, PiecesHeld, Zenon DEF Good, RetxOrder
  <2>3. Len(ns) > 0 => Past(e, ns[Len(ns)])
    <3>1. ~(s.node < s.node)
      BY <1>3, SMT
    <3>2. QED
      BY <1>2, <2>1, <3>1
  <2> HIDE DEF e
  <2>4. Span(e) \intersect M[e.sn] = {}
    BY <1>5, <2>2, <2>3, AckArrived
  <2>5. Good(P, M, s2) /\ Released(M, s, s2)
    BY <1>1, <2>1, <2>4, ReleasedEntry DEF e
  <2>6. /\ s2 \in BufType /\ s2.txBuf = s.txBuf /\ s2.max = s.max /\ s2.undef = s.undef /\ s2.err = s.err
        /\ s2.node = s.node /\ Len(s2.retx) = Len(s.retx) - 1
        /\ \A j \in DOMAIN s2.retx :
               /\ j < s.node => j \in DOMAIN s.retx /\ s2.retx[j] = s.retx[j]
               /\ j >= s.node => j + 1 \in DOMAIN s.retx /\ s2.retx[j] = s.retx[j + 1]
        /\ \A t, u : u \in M[t] /\ AwaitAt(s, t, u) => AwaitAt(s2, t, u)
    BY <2>5 DEF Released
  <2>7. AllAwait(ns, Len(ns), s2)
    <3>1. \A j \in DOMAIN ns : \A u \in Run(ns[j]) : u \in M[ns[j].sn]
      BY NackFacts DEF Truthful
    <3>2. QED
      BY <1>1, <2>6, <3>1 DEF AllAwait
  <2>8. \A j \in DOMAIN s2.retx : j \in Nat /\ (j < s.node \/ (j >= s.node /\ ~(j + 1 < s.node)))
    <3>1. DOMAIN s2.retx = 1 .. Len(s2.retx)
      BY <2>6, RetxEntries
    <3>2. QED
      BY <1>3, <3>1, SMT
  <2>9. Len(ns) > 0 => CleanBelow(s2, Dist(ns[1].sn))
    BY <1>1, <2>6, <2>8 DEF CleanBelow
  <2>10. \A j \in DOMAIN s2.retx :
           IF j < s2.node THEN Len(ns) = 0 => Dist(s2.retx[j].sn) >= d
           ELSE Len(ns) > 0 => Past(s2.retx[j], ns[Len(ns)])
    <3>1. ASSUME NEW j \in DOMAIN s2.retx, j < s2.node
          PROVE  Len(ns) = 0 => Dist(s2.retx[j].sn) >= d
      BY <1>2, <2>6, <3>1
    <3>2. ASSUME NEW j \in DOMAIN s2.retx, ~(j < s2.node)
          PROVE  Len(ns) > 0 => Past(s2.retx[j], ns[Len(ns)])
      <4> DEFINE b == j + 1
      <4>1. b \in DOMAIN s.retx /\ s2.retx[j] = s.retx[b] /\ ~(b < s.node)
        BY <2>6, <2>8, <3>2
      <4> HIDE DEF b
      <4>2. QED
        BY <1>2, <4>1
    <3>3. QED
      BY <3>1, <3>2
  <2>11. Len(s2.retx) - s2.node + 1 <= l2
    <3> DEFINE a == Len(s.retx)
               b == s.node
               a2 == Len(s2.retx)
               b2 == s2.node
    <3>1. a \in Nat /\ b \in Nat /\ a - b + 1 <= l /\ l \in Nat /\ l2 = l - 1 /\ a2 = a - 1 /\ b2 = b
      BY <1>2, <1>3, <2>6, Zenon
    <3> HIDE DEF a, b, a2, b2
    <3>2. a2 - b2 + 1 <= l2
      BY <3>1, SMT
    <3>3. QED
      BY <3>2 DEF a2, b2
  <2>12. QED
    BY <1>1, <2>5, <2>6, <2>7, <2>9, <2>10, <2>11 DEF AckInv
<1>6. CASE AtNode(s) /\ ~(Dist(e.sn) < d)
  <2> DEFINE m == s.node + 1
  <2>1. s2 = [s EXCEPT !.node = m]
    BY <1>6 DEF AckTurn
  <2>2. m \in Nat \ {0}
    BY <1>3, SMT
  <2> HIDE DEF m
  <2>3. /\ s2 \in BufType /\ s2.retx = s.retx /\ s2.txBuf = s.txBuf /\ s2.rcvd = s.rcvd /\ s2.max = s.max
        /\ s2.undef = s.undef /\ s2.err = s.err /\ s2.node = m
    BY <1>1, <2>1, <2>2, Zenon DEF BufType
  <2>4. Good(P, M, s2)
    <3>1. SameShape(s.retx, s2.retx)
      BY <2>3 DEF SameShape
    <3>2. QED
      BY <1>1, <2>3, <3>1, SameShapeGood
  <2>5. AllAwait(ns, Len(ns), s2)
    BY <1>1, <2>3 DEF AllAwait, AwaitAt
  <2>6. Len(ns) > 0 => CleanBelow(s2, Dist(ns[1].sn))
    BY <1>1, <2>3 DEF CleanBelow
  <2>7. \A j \in DOMAIN s.retx : (j < m <=> j < s.node \/ j = s.node)
    BY <1>3, SMT DEF m
  <2>8. Dist(e.sn) >= d
    <3> DEFINE c == Dist(e.sn)
    <3>1. c \in Nat
      BY <1>1, <1>6, RetxEntries, DistNat DEF WinOK, AtNode
    <3>2. ~(c < d)
      BY <1>6
    <3> HIDE DEF c
    <3>3. c >= d
      BY <1>3, <3>1, <3>2, SMT
    <3>4. QED
      BY <3>3 DEF c
  <2>9. \A j \in DOMAIN s2.retx :
           IF j < s2.node THEN Len(ns) = 0 => Dist(s2.retx[j].sn) >= d
           ELSE Len(ns) > 0 => Past(s2.retx[j], ns[Len(ns)])
    BY <1>2, <2>3, <2>7, <2>8
  <2>10. Len(s2.retx) - s2.node + 1 <= l2
    <3> DEFINE a == Len(s.retx)
               b == s.node
               a2 == Len(s2.retx)
               b2 == s2.node
    <3>1. a \in Nat /\ b \in Nat /\ a - b + 1 <= l /\ l \in Nat /\ l2 = l - 1 /\ a2 = a /\ b2 = b + 1
      BY <1>2, <1>3, <2>3 DEF m
    <3> HIDE DEF a, b, a2, b2
    <3>2. a2 - b2 + 1 <= l2
      BY <3>1, SMT
    <3>3. QED
      BY <3>2 DEF a2, b2
  <2>11. QED
    BY <1>1, <2>3, <2>4, <2>5, <2>6, <2>9, <2>10 DEF AckInv
<1>7. QED
  BY <1>4, <1>5, <1>6

\* The loop.
LEMMA AckLoop ==
    ASSUME WinOK, NEW P, NEW M, NEW ns, NEW d, Truthful(P, M, ns, d),
           NEW st \in BufType, AckInv(P, M, ns, d, st, Len(st.retx), st)
    PROVE  AckInv(P, M, ns, d, st, 0, AckInRetx(st, d))
<1> DEFINE last == Len(st.retx)
           Inv(k, s) == AckInv(P, M, ns, d, st, last - k, s)
           Turn(b, s) == AckTurn(s, d)
           R == [k \in 0 .. last |-> {s \in BufType : Inv(k, s)}]
           T == [p \in (1 .. last) \X BufType |-> IF p[2] \in R[p[1] - 1] THEN Turn(p[1], p[2]) ELSE st]
           f == CHOOSE f : f = [k \in 0 .. last |-> IF k = 0 THEN st ELSE Turn(k, f[k - 1])]
<1>1. last \in Nat
  BY RetxEntries
<1>2. ASSUME NEW k \in 1 .. last, NEW s, Inv(k - 1, s)
      PROVE  Inv(k, Turn(k, s)) /\ Turn(k, s) \in BufType
  <2>1. last - k = (last - (k - 1)) - 1 /\ last - k \in Nat
        /\ last - (k - 1) \in Nat /\ last - (k - 1) > 0
    BY <1>1, SMT
  <2>2. Inv(k, Turn(k, s))
    BY <1>2, <2>1, AckTurnKeeps, Zenon
  <2>3. QED
    BY <2>2 DEF AckInv
<1>3. AckInRetx(st, d) = f[last]
  BY DEF AckInRetx, WhileNodes, AfterTurns
<1> HIDE DEF Inv, Turn, last
<1>4. R \in [0 .. last -> SUBSET BufType] /\ st \in R[0]
  <2>1. last - 0 = last
    BY <1>1, SMT
  <2>2. Inv(0, st)
    BY <2>1 DEF Inv, last
  <2>3. QED
    BY <1>1, <2>2
<1>5. \A k \in 1 .. last : k - 1 \in 0 .. last /\ k \in 0 .. last
  BY <1>1, SMT
<1>6. \A k \in 1 .. last : \A s \in R[k - 1] : Turn(k, s) \in R[k]
  BY <1>2, <1>5
<1>7. T \in [(1 .. last) \X BufType -> BufType]
  BY <1>4, <1>5, <1>6, Zenon
<1>8. \A k \in 1 .. last : \A s \in R[k - 1] : T[<<k, s>>] = Turn(k, s)
  BY <1>4, <1>5
<1> HIDE DEF T, R, f
<1>9. \A k \in 1 .. last : \A s \in R[k - 1] : T[<<k, s>>] \in R[k]
  BY <1>6, <1>8, Zenon
<1>10. \E g : IsLoop(g, last, st, T) /\ \A k \in 0 .. last : g[k] \in R[k]
  BY <1>1, <1>4, <1>7, <1>9, TurnsExist, Zenon
<1>11. \E g : g = [k \in 0 .. last |-> IF k = 0 THEN st ELSE Turn(k, g[k - 1])]
  <2>1. PICK g : /\ g = [k \in 0 .. last |-> IF k = 0 THEN st ELSE T[<<k, g[k - 1]>>]]
                 /\ \A k \in 0 .. last : g[k] \in R[k]
    BY <1>10, Zenon DEF IsLoop
  <2>2. \A k \in 0 .. last : k # 0 => k \in 1 .. last
    BY SMT
  <2>3. \A k \in 0 .. last : k # 0 => T[<<k, g[k - 1]>>] = Turn(k, g[k - 1])
    BY <1>5, <1>8, <2>1, <2>2
  <2>4. QED
    BY <2>1, <2>3, Zenon
<1>12. f = [k \in 0 .. last |-> IF k = 0 THEN st ELSE Turn(k, f[k - 1])]
  BY <1>11, Zenon DEF f
<1>13. f[last] \in R[last]
  <2>1. f[0] \in R[0]
    BY <1>1, <1>4, <1>12
  <2>2. ASSUME NEW k \in 1 .. last, f[k - 1] \in R[k - 1]
        PROVE  f[k] \in R[k]
    <3>1. f[k] = Turn(k, f[k - 1])
      BY <1>5, <1>12, SMT
    <3>2. QED
      BY <1>6, <2>2, <3>1
  <2>3. QED
    BY <1>1, <2>1, <2>2, TurnsEnd
<1>14. Inv(last, f[last])
  BY <1>1, <1>13 DEF R
<1>15. QED
  <2>1. last - last = 0
    BY <1>1, SMT
  <2>2. QED
    BY <1>3, <1>14, <2>1 DEF Inv

\* Between the SNs from which everything transmitted is in txBuf, and a report.
Full(st) ==
    \A sn \in Sn : st.txBuf[sn] # <<>> \/ sn = txNext => SentUnits(sn) \subseteq TxUnits(st, sn)

\* When the handler ends, with d the distance of what it acknowledges.
Handled(P, M, ns, d, st) ==
    /\ Good(P, M, st) /\ ~st.err /\ ~st.undef /\ AllAwait(ns, Len(ns), st) /\ Full(st)
    /\ CleanBelow(st, IF Len(ns) = 0 THEN d ELSE Dist(ns[1].sn))

\* The ACK, handled.
LEMMA AckDone ==
    ASSUME WinOK, NEW P, NEW M, NEW ns, NEW d, Truthful(P, M, ns, d),
           NEW st, Between(P, M, ns, Len(ns), st), NEW s2, s2 = ForAckSn(st, d)
    PROVE  Handled(P, M, ns, d, s2)
<1> DEFINE N == Len(ns)
           sns == {sn \in Sn : Dist(sn) < d}
           s == AckInRetx(st, d)
<1>1. /\ st \in BufType /\ Good(P, M, st) /\ ~st.err /\ ~st.undef
      /\ Nodes(ns, N, st) /\ AllAwait(ns, N, st) /\ TxPast(ns, N, st) /\ TxFull(ns, N, st)
      /\ N > 0 => CleanBelow(st, Dist(ns[1].sn))
  BY DEF Between, Mid, Good
<1>2. /\ Names(M, ns, d) /\ ns \in Seq(NackType) /\ N \in Nat /\ DOMAIN ns = 1 .. N /\ d \in Nat
      /\ d <= Dist(txNext) /\ Dist(txNext) \in Nat
  BY LenProperties, DistNat DEF Truthful, Names, WinOK
<1>3. /\ Len(st.retx) \in Nat /\ DOMAIN st.retx = 1 .. Len(st.retx) /\ st.node \in Nat /\ st.node > 0
  BY <1>1, RetxEntries, BufFields, SMT
<1>4. AckInv(P, M, ns, d, st, Len(st.retx), st)
  <2>1. \A j \in DOMAIN st.retx :
           IF j < st.node THEN N = 0 => Dist(st.retx[j].sn) >= d
           ELSE N > 0 => Past(st.retx[j], ns[N])
    <3>1. N = 0 => st.node = 1
      BY <1>1 DEF Nodes
    <3>2. N > 0 => \A j \in DOMAIN st.retx : j >= st.node => Past(st.retx[j], ns[N])
      BY <1>1 DEF Nodes
    <3>3. \A j \in DOMAIN st.retx : ~(j < 1) /\ (j < st.node \/ j >= st.node)
      BY <1>3, SMT
    <3>4. QED
      BY <3>1, <3>2, <3>3
  <2>2. Len(st.retx) - st.node + 1 <= Len(st.retx)
    <3> DEFINE a == Len(st.retx)
               b == st.node
    <3>1. a \in Nat /\ b \in Nat /\ b > 0
      BY <1>3
    <3> HIDE DEF a, b
    <3>2. a - b + 1 <= a
      BY <3>1, SMT
    <3>3. QED
      BY <3>2 DEF a, b
  <2>3. QED
    BY <1>1, <2>1, <2>2 DEF AckInv
<1>5. AckInv(P, M, ns, d, st, 0, s)
  BY <1>1, <1>4, AckLoop
<1>6. s2 = SuccessfulTxPdus(s, sns)
  BY DEF ForAckSn
<1> HIDE DEF s
<1>7. /\ s \in BufType /\ Good(P, M, s) /\ ~s.err /\ ~s.undef /\ s.txBuf = st.txBuf
      /\ AllAwait(ns, N, s)
      /\ N > 0 => CleanBelow(s, Dist(ns[1].sn))
  BY <1>5 DEF AckInv
<1>8. N = 0 => \A j \in DOMAIN s.retx : Dist(s.retx[j].sn) >= d
  <2>1. /\ \A j \in DOMAIN s.retx : j < s.node => (N = 0 => Dist(s.retx[j].sn) >= d)
        /\ Len(s.retx) - s.node + 1 <= 0
    BY <1>5 DEF AckInv
  <2>2. \A j \in DOMAIN s.retx : j < s.node
    <3> DEFINE a == Len(s.retx)
               b == s.node
    <3>1. a \in Nat /\ b \in Nat /\ DOMAIN s.retx = 1 .. a /\ a - b + 1 <= 0
      BY <1>7, <2>1, RetxEntries, BufFields
    <3> HIDE DEF a, b
    <3>2. \A j \in 1 .. a : j < b
      BY <3>1, SMT
    <3>3. QED
      BY <3>1, <3>2 DEF b
  <2>3. QED
    BY <2>1, <2>2
<1>9. \A sn \in sns : TxUnits(s, sn) \intersect M[sn] = {}
  <2>1. SUFFICES ASSUME NEW sn \in sns, NEW k \in DOMAIN s.txBuf[sn], NEW u \in Span(s.txBuf[sn][k]),
                        u \in M[sn], u \in Unit
                 PROVE  FALSE
    BY DEF TxUnits
  <2>2. PICK j \in DOMAIN ns : ns[j].sn = sn /\ u \in Run(ns[j])
    BY <1>2, <2>1 DEF Names
  <2>3. j <= N
    BY <1>2, SMT
  <2>4. k \in DOMAIN st.txBuf[ns[j].sn] /\ st.txBuf[ns[j].sn][k] = s.txBuf[sn][k]
    BY <1>7, <2>1, <2>2
  <2>5. ns[j].soEnd < s.txBuf[sn][k].so
    BY <1>1, <2>3, <2>4, Zenon DEF TxPast
  <2>6. s.txBuf[sn][k].so \in Nat /\ s.txBuf[sn][k].end \in Nat /\ ns[j].soEnd \in Nat /\ ns[j].soStart \in Nat
    BY <1>2, <1>7, <2>1, TxEntries, NackFacts, UnitFacts, Zenon
  <2> DEFINE x == s.txBuf[sn][k].so
             y == s.txBuf[sn][k].end
             z == ns[j].soEnd
             w == ns[j].soStart
  <2>7. x \in Nat /\ y \in Nat /\ z \in Nat /\ w \in Nat /\ z < x /\ u \in x .. y /\ u \in w .. z
    BY <2>1, <2>2, <2>5, <2>6 DEF Span, Run
  <2> HIDE DEF x, y, z, w
  <2>8. QED
    BY <2>7, SMT
<1>10. /\ Good(P, M, s2)
       /\ s2.txBuf = [sn \in Sn |-> IF sn \in sns THEN <<>> ELSE s.txBuf[sn]]
       /\ s2.retx = s.retx /\ s2.max = s.max /\ s2.undef = s.undef /\ s2.err = s.err
  <2>1. sns \in SUBSET Sn
    OBVIOUS
  <2> HIDE DEF sns
  <2>2. QED
    BY <1>6, <1>7, <1>9, <2>1, TxReleaseGood
<1>11. AllAwait(ns, N, s2)
  BY <1>7, <1>10 DEF AllAwait, AwaitAt
<1>12. Full(s2)
  <2>1. SUFFICES ASSUME NEW sn \in Sn, s2.txBuf[sn] # <<>> \/ sn = txNext, NEW u \in SentUnits(sn)
                 PROVE  u \in TxUnits(s2, sn)
    BY DEF Full
  <2>2. sn \notin sns
    <3>1. SUFFICES ASSUME sn \in sns
                   PROVE  FALSE
      OBVIOUS
    <3>2. s2.txBuf[sn] = <<>> /\ Dist(sn) < d /\ Dist(sn) \in Nat
      BY <1>10, <3>1, DistNat DEF WinOK
    <3>3. sn # txNext
      <4>1. Dist(sn) # Dist(txNext)
        BY <1>2, <3>2, SMT
      <4>2. QED
        BY <4>1
    <3>4. QED
      BY <2>1, <3>2, <3>3
  <2>3. s2.txBuf[sn] = st.txBuf[sn]
    BY <1>7, <1>10, <2>2
  <2>4. ~(Dist(sn) < d)
    BY <2>2
  <2>5. \A j \in DOMAIN ns : ns[j].sn # sn
    <3>1. SUFFICES ASSUME NEW j \in DOMAIN ns, ns[j].sn = sn
                   PROVE  FALSE
      OBVIOUS
    <3>2. Dist(ns[j].sn) < d
      BY <1>2, NackFacts
    <3>3. QED
      BY <2>4, <3>1, <3>2
  <2>6. u \in TxUnits(st, sn)
    BY <1>1, <2>1, <2>3, <2>5 DEF TxFull
  <2>7. QED
    BY <2>3, <2>6 DEF TxUnits
<1>13. CleanBelow(s2, IF N = 0 THEN d ELSE Dist(ns[1].sn))
  <2>1. CASE N = 0
    BY <1>8, <1>10, <2>1 DEF CleanBelow
  <2>2. CASE N # 0
    <3>1. N > 0
      BY <1>2, <2>2, SMT
    <3>2. CleanBelow(s2, Dist(ns[1].sn))
      BY <1>7, <1>10, <3>1 DEF CleanBelow
    <3>3. QED
      BY <2>2, <3>2
  <2>3. QED
    BY <2>1, <2>2
<1>14. QED
  BY <1>7, <1>10, <1>11, <1>12, <1>13 DEF Handled

\* What the handler of a report makes of the buffers.
LEMMA StatusDone ==
    ASSUME WinOK, NEW P, NEW M, NEW rep, NEW ns, ns = rep.nacks, NEW d, d = Dist(rep.ackSn),
           Truthful(P, M, ns, d), NEW st, st = Buffers, Good(P, M, st), Full(st)
    PROVE  Handled(P, M, ns, d, AfterStatus(rep))
<1>1. /\ st.undef = FALSE /\ st.err = FALSE /\ st.node = 1 /\ st.from = txNextAck
  BY DEF Buffers
<1>2. DOMAIN ns = 1 .. Len(ns) /\ Len(ns) \in Nat
  BY LenProperties DEF Truthful, Names
<1>3. \A j \in DOMAIN ns : ~(j <= 0)
  BY <1>2, SMT
<1>4. Mid(P, M, ns, 0, st)
  <2>1. Nodes(ns, 0, st)
    BY <1>1, SMT DEF Nodes
  <2>2. AllAwait(ns, 0, st) /\ TxPast(ns, 0, st)
    BY <1>3 DEF AllAwait, TxPast
  <2>3. TxFull(ns, 0, st)
    BY DEF TxFull, Full
  <2>4. QED
    BY <1>1, <2>1, <2>2, <2>3 DEF Mid
<1>5. Between(P, M, ns, 0, st)
  <2>1. Dist(st.from) = 0
    BY <1>1, ModSnType DEF Dist, WinOK
  <2>2. ~(0 > 0)
    BY SMT
  <2>3. QED
    BY <1>4, <2>1, <2>2 DEF Between, From
<1> DEFINE s == AfterNacks(rep)
<1>6. Between(P, M, ns, Len(ns), s)
  BY <1>5, NacksLoop
<1>7. ~s.err /\ ~s.undef
  BY <1>6 DEF Between, Mid
<1>8. AfterStatus(rep) = ForAckSn(s, d)
  BY <1>7 DEF AfterStatus
<1> HIDE DEF s
<1>9. QED
  BY <1>6, <1>8, AckDone

-----------------------------------------------------------------------------
(* What a report says.                                                     *)

PeerOK == peerNext \in Sn /\ got \in [Sn -> SUBSET Unit]

\* What the peer lacks below ack, and all that is held from there on: what the
\* handler of a report must not release.
Lacks(ack) ==
    [sn \in Sn |-> IF Dist(sn) < Dist(ack) THEN Unit \ PeerHas(sn) ELSE UnitsAt(Buffers, sn)]

\* The fields of the NACKs of one SN.
LEMMA NacksFields ==
    ASSUME PeerOK, NEW sn \in Sn, NEW n \in Nacks(sn)
    PROVE  /\ n \in NackType /\ n.sn = sn /\ n.isSegment = (got[sn] # {})
           /\ n.soStart \in Unit /\ n.soEnd \in Unit /\ IsRun(sn, n.soStart, n.soEnd)
<1>1. PICK p \in Unit \X Unit :
          /\ IsRun(sn, p[1], p[2])
          /\ n = [sn |-> sn, isSegment |-> got[sn] # {}, soStart |-> p[1], soEnd |-> p[2]]
  BY DEF Nacks
<1>2. p[1] \in Unit /\ p[2] \in Unit /\ (got[sn] # {}) \in BOOLEAN
  OBVIOUS
<1>3. /\ n.sn = sn /\ n.isSegment = (got[sn] # {}) /\ n.soStart = p[1] /\ n.soEnd = p[2]
      /\ n \in NackType
  BY <1>1, <1>2, Zenon DEF NackType
<1>4. QED
  BY <1>1, <1>2, <1>3

\* A run of missing units is a NACK.
LEMMA NackOfRun ==
    ASSUME NEW sn, NEW a \in Unit, NEW b \in Unit, IsRun(sn, a, b)
    PROVE  \E n \in Nacks(sn) : n.sn = sn /\ n.soStart = a /\ n.soEnd = b
<1> DEFINE p == <<a, b>>
           n == [sn |-> sn, isSegment |-> got[sn] # {}, soStart |-> p[1], soEnd |-> p[2]]
<1>1. p \in Unit \X Unit /\ p[1] = a /\ p[2] = b
  OBVIOUS
<1>2. n \in Nacks(sn)
  BY <1>1 DEF Nacks
<1>3. n.sn = sn /\ n.soStart = a /\ n.soEnd = b
  BY <1>1
<1>4. QED
  BY <1>2, <1>3

\* Two runs of missing units of one SN are the same or apart.
LEMMA RunsApart ==
    ASSUME NEW sn, NEW a \in Unit, NEW b \in Unit, NEW c \in Unit, NEW e \in Unit,
           IsRun(sn, a, b), IsRun(sn, c, e)
    PROVE  (a < c => b < c) /\ (a = c => b = e)
<1>1. a \in Nat /\ b \in Nat /\ c \in Nat /\ e \in Nat
  BY UnitFacts
<1>2. /\ a <= b /\ a .. b \subseteq Missing(sn) /\ b + 1 \notin Missing(sn)
      /\ c <= e /\ c .. e \subseteq Missing(sn) /\ c - 1 \notin Missing(sn) /\ e + 1 \notin Missing(sn)
  BY DEF IsRun
<1>3. a < c => b < c
  <2>1. c - 1 \notin a .. b
    BY <1>2
  <2>2. QED
    BY <1>1, <2>1, SMT
<1>4. a = c => b = e
  <2>1. b + 1 \notin c .. e /\ e + 1 \notin a .. b
    BY <1>2
  <2>2. QED
    BY <1>1, <1>2, <2>1, SMT
<1>5. QED
  BY <1>3, <1>4

\* A missing unit is in a run.
LEMMA RunCovers ==
    ASSUME PeerOK, NEW sn \in Sn, NEW u \in Missing(sn)
    PROVE  \E a, b \in Unit : IsRun(sn, a, b) /\ a <= u /\ u <= b
<1> DEFINE A == {x \in Nat : x <= u /\ x .. u \subseteq Missing(sn)}
           B == {x \in Nat : u <= x /\ u .. x \subseteq Missing(sn)}
<1>1. u \in Unit /\ u \in Nat /\ u < SduLen /\ SduLen \in Nat
  BY UnitFacts DEF Missing
<1>2. \A x \in Missing(sn) : x \in Unit /\ x \in Nat /\ x < SduLen
  BY UnitFacts DEF Missing
<1>3. u .. u = {u}
  BY <1>1, SMT
<1>4. u \in A /\ u \in B
  BY <1>1, <1>3, SMT
<1>5. Min(A) \in A /\ \A y \in A : Min(A) <= y
  BY <1>4, MinOfNaturals
<1>6. \A y \in B : y \in u .. y /\ y \in Missing(sn)
  BY <1>1, SMT
<1>7. \A y \in B : y <= SduLen
  BY <1>2, <1>6, <1>1, SMT
<1>8. Max(B) \in B /\ \A y \in B : y <= Max(B)
  BY <1>1, <1>4, <1>7, MaxOfBounded, Zenon
<1> DEFINE a == Min(A)
           b == Max(B)
<1>9. /\ a \in Nat /\ a <= u /\ a .. u \subseteq Missing(sn)
      /\ b \in Nat /\ u <= b /\ u .. b \subseteq Missing(sn)
  BY <1>5, <1>8
<1>10. \A x \in Nat : x <= u /\ x .. u \subseteq Missing(sn) => a <= x
  BY <1>5
<1>11. \A x \in Nat : u <= x /\ u .. x \subseteq Missing(sn) => x <= b
  BY <1>8
<1> HIDE DEF a, b, A, B
<1>12. a .. b \subseteq Missing(sn) /\ a <= b
  <2>1. \A x \in a .. b : x \in a .. u \/ x \in u .. b
    BY <1>1, <1>9, SMT
  <2>2. QED
    BY <1>1, <1>9, <2>1, SMT
<1>13. a \in Unit /\ b \in Unit
  <2>1. a \in a .. b /\ b \in a .. b
    BY <1>9, <1>12, SMT
  <2>2. QED
    BY <1>2, <1>12, <2>1
<1>14. a - 1 \notin Missing(sn)
  <2>1. SUFFICES ASSUME a - 1 \in Missing(sn)
                 PROVE  FALSE
    OBVIOUS
  <2> DEFINE x == a - 1
  <2>2. x \in Nat /\ x <= u /\ ~(a <= x)
    BY <1>1, <1>2, <1>9, <2>1, SMT
  <2>3. \A y \in x .. u : y = x \/ y \in a .. u
    BY <1>1, <1>9, SMT
  <2>4. x .. u \subseteq Missing(sn)
    BY <1>9, <2>1, <2>3
  <2> HIDE DEF x
  <2>5. QED
    BY <1>10, <2>2, <2>4
<1>15. b + 1 \notin Missing(sn)
  <2>1. SUFFICES ASSUME b + 1 \in Missing(sn)
                 PROVE  FALSE
    OBVIOUS
  <2> DEFINE x == b + 1
  <2>2. x \in Nat /\ u <= x /\ ~(x <= b)
    BY <1>1, <1>9, SMT
  <2>3. \A y \in u .. x : y = x \/ y \in u .. b
    BY <1>1, <1>9, SMT
  <2>4. u .. x \subseteq Missing(sn)
    BY <1>9, <2>1, <2>3
  <2> HIDE DEF x
  <2>5. QED
    BY <1>11, <2>2, <2>4
<1>16. IsRun(sn, a, b)
  BY <1>12, <1>14, <1>15 DEF IsRun
<1>17. QED
  BY <1>9, <1>13, <1>16

\* The NACKs below ack, and which comes before which.
Order(ack) == {p \in NacksBelow(ack) \X NacksBelow(ack) : Earlier(p[1], p[2])}

\* A NACK of the report is one of an SN below ack.
LEMMA NacksBelowFacts ==
    ASSUME PeerOK, NEW ack \in Sn, NEW n
    PROVE  n \in NacksBelow(ack) <=> \E sn \in Sn : PeerDist(sn) < PeerDist(ack) /\ n \in Nacks(sn)
  BY DEF NacksBelow

\* The NACKs are finitely many and in order, and the report lists them so.
LEMMA NacksOrder ==
    ASSUME PeerOK, NEW ack \in Sn
    PROVE  /\ IsFiniteSet(NacksBelow(ack)) /\ IsOrder(NacksBelow(ack), Order(ack))
           /\ Report(ack).ackSn = ack /\ Report(ack).nacks = Listed(NacksBelow(ack), Order(ack))
<1> DEFINE ns == NacksBelow(ack)
<1>1. ASSUME NEW n \in ns
      PROVE  /\ n \in NackType /\ n.sn \in Sn /\ PeerDist(n.sn) < PeerDist(ack)
             /\ n.isSegment = (got[n.sn] # {})
             /\ n.soStart \in Unit /\ n.soEnd \in Unit /\ IsRun(n.sn, n.soStart, n.soEnd)
             /\ PeerDist(n.sn) \in Nat /\ n.soStart \in Nat
  <2>1. PICK sn \in Sn : PeerDist(sn) < PeerDist(ack) /\ n \in Nacks(sn)
    BY NacksBelowFacts
  <2>2. /\ n \in NackType /\ n.sn = sn /\ n.isSegment = (got[sn] # {})
        /\ n.soStart \in Unit /\ n.soEnd \in Unit /\ IsRun(sn, n.soStart, n.soEnd)
    BY <2>1, NacksFields
  <2>3. PeerDist(sn) \in Sn
    BY ModSnType DEF PeerOK, PeerDist
  <2>4. \A x \in Sn : x \in Nat
    BY WinSzAssumption, SMT DEF Sn, SnMod
  <2>5. PeerDist(n.sn) \in Nat /\ n.soStart \in Nat
    BY <2>2, <2>3, <2>4, UnitFacts
  <2>6. QED
    BY <2>1, <2>2, <2>5
<1>2. ASSUME NEW x \in ns, NEW y \in ns, x.sn = y.sn, x.soStart = y.soStart
      PROVE  x = y
  <2> DEFINE q == x.sn
             a == x.soStart
             b == x.soEnd
             e == y.soEnd
  <2>1. q = y.sn /\ a = y.soStart /\ a \in Unit /\ b \in Unit /\ e \in Unit /\ IsRun(q, a, b) /\ IsRun(q, a, e)
    BY <1>1, <1>2
  <2> HIDE DEF q, a, b, e
  <2>2. b = e
    BY <2>1, RunsApart
  <2>3. x.soEnd = y.soEnd /\ x.isSegment = y.isSegment
    BY <1>1, <1>2, <2>2 DEF b, e
  <2>4. x \in NackType /\ y \in NackType
    BY <1>1
  <2>5. QED
    BY <1>2, <2>3, <2>4 DEF NackType
<1>3. IsFiniteSet(ns)
  <2> DEFINE f == [n \in ns |-> <<n.sn, n.soStart>>]
  <2>1. f \in [ns -> Sn \X Unit]
    BY <1>1
  <2>2. ASSUME NEW x \in ns, NEW y \in ns, f[x] = f[y]
        PROVE  x = y
    <3>1. <<x.sn, x.soStart>> = <<y.sn, y.soStart>>
      BY <2>2
    <3>2. x.sn = y.sn /\ x.soStart = y.soStart
      BY <3>1
    <3>3. QED
      BY <1>2, <3>2
  <2> HIDE DEF f, ns
  <2>3. f \in Injection(ns, Sn \X Unit)
    BY <2>1, <2>2 DEF Injection, IsInjective
  <2>4. IsFiniteSet(Sn)
    BY WinSzAssumption, FS_Interval, SMT DEF Sn, SnMod
  <2>5. IsFiniteSet(Sn \X Unit)
    BY <2>4, UnitFacts, FS_Product
  <2>6. QED
    BY <2>3, <2>5, FS_Injection
<1>4. IsOrder(ns, Order(ack))
  <2>1. \A x, y \in ns : <<x, y>> \in Order(ack) <=> Earlier(x, y)
    BY DEF Order
  <2>2. ASSUME NEW x \in ns
        PROVE  ~Earlier(x, x)
    <3>1. PeerDist(x.sn) \in Nat /\ x.soStart \in Nat
      BY <1>1
    <3> DEFINE c == PeerDist(x.sn)
               a == x.soStart
    <3>2. c \in Nat /\ a \in Nat
      BY <3>1
    <3> HIDE DEF c, a
    <3>3. ~(c < c) /\ ~(a < a)
      BY <3>2, SMT
    <3>4. QED
      BY <3>3 DEF c, a, Earlier
  <2>3. ASSUME NEW x \in ns, NEW y \in ns, x # y
        PROVE  Earlier(x, y) \/ Earlier(y, x)
    <3> DEFINE a == PeerDist(x.sn)
               b == PeerDist(y.sn)
               c == x.soStart
               e == y.soStart
    <3>1. a \in Nat /\ b \in Nat /\ c \in Nat /\ e \in Nat
      BY <1>1
    <3>2. a = b => x.sn = y.sn
      BY <1>1, ModSnInjective DEF PeerDist, PeerOK
    <3>3. ~(x.sn = y.sn /\ c = e)
      BY <1>2, <2>3
    <3>4. Earlier(x, y) <=> a < b \/ (x.sn = y.sn /\ c < e)
      BY DEF Earlier
    <3>5. Earlier(y, x) <=> b < a \/ (y.sn = x.sn /\ e < c)
      BY DEF Earlier
    <3> HIDE DEF a, b, c, e
    <3>6. a < b \/ b < a \/ a = b
      BY <3>1, SMT
    <3>7. c < e \/ e < c \/ c = e
      BY <3>1, SMT
    <3>8. QED
      BY <3>2, <3>3, <3>4, <3>5, <3>6, <3>7
  <2>4. ASSUME NEW x \in ns, NEW y \in ns, NEW z \in ns, Earlier(x, y), Earlier(y, z)
        PROVE  Earlier(x, z)
    <3> DEFINE a == PeerDist(x.sn)
               b == PeerDist(y.sn)
               g == PeerDist(z.sn)
               c == x.soStart
               e == y.soStart
               h == z.soStart
    <3>1. a \in Nat /\ b \in Nat /\ g \in Nat /\ c \in Nat /\ e \in Nat /\ h \in Nat
      BY <1>1
    <3>2. (x.sn = y.sn => a = b) /\ (y.sn = z.sn => b = g)
      OBVIOUS
    <3>3. (a < b \/ (x.sn = y.sn /\ c < e)) /\ (b < g \/ (y.sn = z.sn /\ e < h))
      BY <2>4 DEF Earlier
    <3>4. Earlier(x, z) <=> a < g \/ (x.sn = z.sn /\ c < h)
      BY DEF Earlier
    <3> HIDE DEF a, b, g, c, e, h
    <3>5. (a < b /\ b < g => a < g) /\ (c < e /\ e < h => c < h)
          /\ (a = b /\ b < g => a < g) /\ (a < b /\ b = g => a < g)
      BY <3>1, SMT
    <3>6. QED
      BY <3>2, <3>3, <3>4, <3>5
  <2>5. QED
    BY <2>1, <2>2, <2>3, <2>4 DEF IsOrder
<1>5. Report(ack).ackSn = ack /\ Report(ack).nacks = Listed(ns, Order(ack))
  <2>1. \A n \in ns : {m \in ns : Earlier(m, n)} = Under(ns, Order(ack), n)
    BY DEF Under, Order
  <2>2. \A k : (CHOOSE n \in ns : Cardinality({m \in ns : Earlier(m, n)}) = k - 1) =
               CHOOSE n \in ns : Cardinality(Under(ns, Order(ack), n)) = k - 1
    BY <2>1, Zenon
  <2>3. [k \in 1 .. Cardinality(ns) |-> CHOOSE n \in ns : Cardinality({m \in ns : Earlier(m, n)}) = k - 1]
        = Listed(ns, Order(ack))
    <3> DEFINE e(k) == CHOOSE n \in ns : Cardinality({m \in ns : Earlier(m, n)}) = k - 1
               g(k) == CHOOSE n \in ns : Cardinality(Under(ns, Order(ack), n)) = k - 1
    <3>1. \A k : e(k) = g(k)
      BY <2>2, Zenon
    <3>2. [k \in 1 .. Cardinality(ns) |-> g(k)] = Listed(ns, Order(ack))
      BY Zenon DEF Listed
    <3> HIDE DEF e, g, ns
    <3>3. [k \in 1 .. Cardinality(ns) |-> e(k)] = [k \in 1 .. Cardinality(ns) |-> g(k)]
      BY <3>1
    <3>4. [k \in 1 .. Cardinality(ns) |-> e(k)] = Listed(ns, Order(ack))
      BY <3>2, <3>3
    <3>5. QED
      BY <3>4 DEF e, ns
  <2>4. QED
    BY <2>3 DEF Report
<1>6. QED
  BY <1>3, <1>4, <1>5

\* What is in flight and what the peer has received was transmitted, and the
\* peer's window begins in the window of the transmitter.
PeerInv ==
    /\ Dist(txNext) <= WinSz /\ (segOff > 0 => Dist(txNext) < WinSz)
    /\ Dist(peerNext) <= Dist(txNext)
    /\ \A p \in chan : p.so <= p.end /\ Span(p) \subseteq SentUnits(p.sn)
    /\ \A sn \in Sn : got[sn] # {} => got[sn] \subseteq SentUnits(sn) /\ Dist(peerNext) <= Dist(sn)
    /\ got[peerNext] # Unit

\* Distances from another base.
LEMMA Rebase ==
    ASSUME NEW x \in Sn, NEW p \in Sn, NEW a \in Sn
    PROVE  /\ ModSn(x, p) = IF ModSn(p, a) <= ModSn(x, a) THEN ModSn(x, a) - ModSn(p, a)
                            ELSE ModSn(x, a) - ModSn(p, a) + SnMod
           /\ ModSn(x, a) \in Nat /\ ModSn(p, a) \in Nat /\ ModSn(x, p) \in Nat
           /\ ModSn(x, a) < SnMod /\ ModSn(p, a) < SnMod
<1>1. ModSn(x, a) \in Sn /\ ModSn(p, a) \in Sn /\ ModSn(x, p) \in Sn
  BY ModSnType
<1>2. p = AddSn(a, ModSn(p, a))
  BY AddSnModSn
<1>3. ModSn(x, p) = IF ModSn(p, a) <= ModSn(x, a) THEN ModSn(x, a) - ModSn(p, a)
                    ELSE ModSn(x, a) - ModSn(p, a) + SnMod
  BY <1>1, <1>2, ModSnShift
<1>4. \A y \in Sn : y \in Nat /\ y < SnMod
  BY WinSzAssumption, SMT DEF Sn, SnMod
<1>5. QED
  BY <1>1, <1>3, <1>4

\* From the peer's point of view: an SN in the transmitter's window either is
\* in the peer's, by as much further as its window begins, or was passed.
LEMMA PeerDistances ==
    ASSUME WinOK, PeerOK, PeerInv, NEW sn \in Sn
    PROVE  /\ Dist(sn) \in Nat /\ Dist(peerNext) \in Nat /\ PeerDist(sn) \in Nat
           /\ Dist(peerNext) <= WinSz
           /\ Dist(peerNext) <= Dist(sn) => PeerDist(sn) = Dist(sn) - Dist(peerNext)
           /\ ~(Dist(peerNext) <= Dist(sn)) => PeerDist(sn) = Dist(sn) - Dist(peerNext) + SnMod
                                              /\ ~(PeerDist(sn) < WinSz)
<1> DEFINE c == Dist(peerNext)
           x == Dist(sn)
           y == PeerDist(sn)
           t == Dist(txNext)
<1>1. /\ y = IF c <= x THEN x - c ELSE x - c + SnMod
      /\ x \in Nat /\ c \in Nat /\ y \in Nat
  BY Rebase DEF WinOK, PeerOK, Dist, PeerDist
<1>2. c <= t /\ t <= WinSz /\ t \in Nat
  BY DistNat DEF PeerInv, WinOK
<1> HIDE DEF c, x, y, t
<1>3. /\ c <= WinSz
      /\ c <= x => y = x - c
      /\ ~(c <= x) => y = x - c + SnMod /\ ~(y < WinSz)
  BY <1>1, <1>2, WinSzAssumption, SMT DEF SnMod
<1>4. QED
  BY <1>1, <1>3 DEF c, x, y

\* What is below ackSn and not passed is what the report speaks of.
LEMMA ReportReach ==
    ASSUME WinOK, PeerOK, PeerInv, NEW ack \in Sn, CanReport(ack)
    PROVE  /\ Dist(ack) = Dist(peerNext) + PeerDist(ack) /\ PeerDist(ack) <= WinSz
           /\ PeerDist(ack) \in Nat /\ Dist(ack) \in Nat /\ Dist(peerNext) \in Nat
           /\ \A sn \in Sn : PeerDist(sn) < PeerDist(ack) =>
                  /\ Dist(sn) = Dist(peerNext) + PeerDist(sn) /\ Dist(sn) < Dist(ack)
                  /\ PeerDist(sn) < WinSz
           /\ \A sn \in Sn : Dist(sn) < Dist(ack) => PeerDist(sn) < PeerDist(ack) \/ ~(PeerDist(sn) < WinSz)
<1> DEFINE c == Dist(peerNext)
           a == PeerDist(ack)
           x == Dist(ack)
<1>1. c \in Nat /\ a \in Nat /\ x \in Nat /\ c <= WinSz
  BY PeerDistances
<1>2. c + a <= WinSz
  <2>1. CASE ack = peerNext
    <3>1. a = 0
      BY <2>1, ModSnType DEF PeerDist, PeerOK
    <3>2. QED
      BY <1>1, <3>1, WinSzAssumption, SMT
  <2>2. CASE \E sn \in Sn : got[sn] # {} /\ PeerDist(ack) <= PeerDist(sn) + 1
    <3>1. PICK sn \in Sn : got[sn] # {} /\ a <= PeerDist(sn) + 1
      BY <2>2
    <3>2. got[sn] \subseteq SentUnits(sn) /\ c <= Dist(sn) /\ got[sn] # {}
      BY <3>1 DEF PeerInv
    <3>3. PeerDist(sn) = Dist(sn) - c /\ Dist(sn) \in Nat /\ PeerDist(sn) \in Nat
      BY <3>2, PeerDistances
    <3>4. Dist(sn) < Dist(txNext) \/ (sn = txNext /\ segOff > 0)
      <4>1. SentUnits(sn) # {}
        BY <3>2
      <4>2. Dist(sn) < Dist(txNext) \/ (sn = txNext /\ 0 .. segOff - 1 # {})
        BY <4>1 DEF SentUnits
      <4>3. 0 .. segOff - 1 # {} => segOff > 0
        BY UnitFacts, SMT DEF WinOK
      <4>4. QED
        BY <4>2, <4>3
    <3>5. Dist(sn) < WinSz
      <4>1. Dist(txNext) \in Nat /\ Dist(txNext) <= WinSz
        BY DistNat DEF PeerInv, WinOK
      <4>2. sn = txNext /\ segOff > 0 => Dist(sn) < WinSz
        BY DEF PeerInv
      <4>3. QED
        BY <3>3, <3>4, <4>1, <4>2, WinSzAssumption, SMT
    <3> HIDE DEF c, a
    <3>6. QED
      BY <1>1, <3>1, <3>3, <3>5, WinSzAssumption, SMT
  <2>3. QED
    BY <2>1, <2>2 DEF CanReport
<1>3. x = c + a /\ a <= WinSz
  <2>1. (c <= x => a = x - c) /\ (~(c <= x) => a = x - c + SnMod)
    BY PeerDistances
  <2> HIDE DEF c, a, x
  <2>2. QED
    BY <1>1, <1>2, <2>1, WinSzAssumption, SMT DEF SnMod
<1>4. ASSUME NEW sn \in Sn
      PROVE  /\ PeerDist(sn) < a => Dist(sn) = c + PeerDist(sn) /\ Dist(sn) < x /\ PeerDist(sn) < WinSz
             /\ Dist(sn) < x => PeerDist(sn) < a \/ ~(PeerDist(sn) < WinSz)
  <2> DEFINE y == Dist(sn)
             b == PeerDist(sn)
  <2>1. y \in Nat /\ b \in Nat /\ (c <= y => b = y - c) /\ (~(c <= y) => b = y - c + SnMod /\ ~(b < WinSz))
    BY PeerDistances
  <2> HIDE DEF y, b, c, a, x
  <2>2. (b < a => y = c + b /\ y < x /\ b < WinSz) /\ (y < x => b < a \/ ~(b < WinSz))
    BY <1>1, <1>2, <1>3, <2>1, WinSzAssumption, SMT DEF SnMod
  <2>3. QED
    BY <2>2 DEF y, b
<1>5. QED
  BY <1>1, <1>3, <1>4

\* A report of a truthful peer names what is lacking below its ackSn, in order,
\* and begins with the SN its window begins with.
LEMMA ReportNames ==
    ASSUME WinOK, PeerOK, PeerInv, NEW ack \in Sn, CanReport(ack),
           NEW ns, ns = Report(ack).nacks, NEW d, d = Dist(ack)
    PROVE  /\ Names(Lacks(ack), ns, d) /\ Report(ack).ackSn = ack
           /\ Len(ns) > 0 => ns[1].sn = peerNext
           /\ Len(ns) = 0 => ack = peerNext
<1> DEFINE S == NacksBelow(ack)
           M == Lacks(ack)
           c == Dist(peerNext)
<1>1. /\ IsFiniteSet(S) /\ IsOrder(S, Order(ack)) /\ ns = Listed(S, Order(ack))
      /\ Report(ack).ackSn = ack
  BY NacksOrder
<1>2. /\ ns \in Seq(S) /\ Len(ns) = Cardinality(S) /\ Len(ns) \in Nat /\ DOMAIN ns = 1 .. Len(ns)
      /\ \A n \in S : \E i \in DOMAIN ns : ns[i] = n
      /\ \A i, j \in DOMAIN ns : i < j => <<ns[i], ns[j]>> \in Order(ack)
      /\ \A i \in DOMAIN ns : ns[i] \in S
  <2> HIDE DEF S
  <2>1. /\ ns \in Seq(S) /\ Len(ns) = Cardinality(S) /\ Cardinality(S) \in Nat
        /\ \A n \in S : \E i \in DOMAIN ns : ns[i] = n
        /\ \A i, j \in DOMAIN ns : i < j => <<ns[i], ns[j]>> \in Order(ack)
    BY <1>1, ListedInOrder
  <2>2. DOMAIN ns = 1 .. Len(ns) /\ \A i \in 1 .. Len(ns) : ns[i] \in S
    BY <2>1, LenProperties, ElementOfSeq
  <2>3. QED
    BY <2>1, <2>2
<1>3. /\ d = c + PeerDist(ack) /\ PeerDist(ack) <= WinSz
      /\ PeerDist(ack) \in Nat /\ d \in Nat /\ c \in Nat
      /\ \A sn \in Sn : PeerDist(sn) < PeerDist(ack) =>
             Dist(sn) = c + PeerDist(sn) /\ Dist(sn) < d /\ PeerDist(sn) < WinSz
      /\ \A sn \in Sn : Dist(sn) < d => PeerDist(sn) < PeerDist(ack) \/ ~(PeerDist(sn) < WinSz)
  BY ReportReach
<1>4. \A sn \in Sn : PeerDist(sn) < PeerDist(ack) => M[sn] = Missing(sn)
  BY <1>3 DEF Lacks, PeerHas, Missing, PeerDist
<1>5. ASSUME NEW n \in S
      PROVE  /\ n \in NackType /\ n.sn \in Sn /\ PeerDist(n.sn) < PeerDist(ack)
             /\ n.isSegment = (got[n.sn] # {})
             /\ n.soStart \in Unit /\ n.soEnd \in Unit /\ IsRun(n.sn, n.soStart, n.soEnd)
             /\ PeerDist(n.sn) \in Nat /\ n.soStart \in Nat /\ n.soEnd \in Nat
  <2>1. PICK sn \in Sn : PeerDist(sn) < PeerDist(ack) /\ n \in Nacks(sn)
    BY NacksBelowFacts
  <2>2. /\ n \in NackType /\ n.sn = sn /\ n.isSegment = (got[sn] # {})
        /\ n.soStart \in Unit /\ n.soEnd \in Unit /\ IsRun(sn, n.soStart, n.soEnd)
    BY <2>1, NacksFields
  <2>3. PeerDist(sn) \in Nat
    BY <2>1, PeerDistances
  <2>4. QED
    BY <2>1, <2>2, <2>3, UnitFacts
<1> HIDE DEF M
<1>6. ns \in Seq(NackType)
  <2>1. S \subseteq NackType
    BY <1>5
  <2> HIDE DEF S
  <2>2. QED
    BY <1>2, <2>1, SeqMonotonic
<1>7. ASSUME NEW i \in DOMAIN ns, NEW j \in DOMAIN ns, i < j
      PROVE  Dist(ns[i].sn) < Dist(ns[j].sn) \/ (ns[i].sn = ns[j].sn /\ ns[i].soEnd < ns[j].soStart)
  <2> DEFINE x == ns[i]
             y == ns[j]
  <2>1. Earlier(x, y) /\ x \in S /\ y \in S
    BY <1>2, <1>7, Zenon DEF Order
  <2> HIDE DEF x, y
  <2>2. CASE PeerDist(x.sn) < PeerDist(y.sn)
    <3>1. Dist(x.sn) = c + PeerDist(x.sn) /\ Dist(y.sn) = c + PeerDist(y.sn)
          /\ PeerDist(x.sn) \in Nat /\ PeerDist(y.sn) \in Nat
      BY <1>3, <1>5, <2>1
    <3> DEFINE a == PeerDist(x.sn)
               b == PeerDist(y.sn)
               aa == Dist(x.sn)
               bb == Dist(y.sn)
    <3>2. a \in Nat /\ b \in Nat /\ a < b /\ aa = c + a /\ bb = c + b /\ c \in Nat
      BY <1>3, <2>2, <3>1
    <3> HIDE DEF a, b, c, aa, bb
    <3>3. aa < bb
      BY <3>2, SMT
    <3>4. QED
      BY <3>3 DEF aa, bb, x, y
  <2>3. CASE x.sn = y.sn /\ x.soStart < y.soStart
    <3> DEFINE q == x.sn
               a == x.soStart
               b == x.soEnd
               g == y.soStart
               e == y.soEnd
    <3>1. /\ a \in Unit /\ b \in Unit /\ g \in Unit /\ e \in Unit
          /\ IsRun(q, a, b) /\ IsRun(q, g, e) /\ a < g
      BY <1>5, <2>1, <2>3
    <3> HIDE DEF q, a, b, g, e
    <3>2. b < g
      BY <3>1, RunsApart
    <3>3. QED
      BY <2>3, <3>2 DEF b, g, x, y
  <2>4. QED
    BY <2>1, <2>2, <2>3 DEF Earlier
<1>8. ASSUME NEW i \in DOMAIN ns
      PROVE  /\ ns[i].soStart <= ns[i].soEnd /\ Dist(ns[i].sn) < d
             /\ Run(ns[i]) \subseteq M[ns[i].sn] /\ ns[i].soEnd + 1 \notin M[ns[i].sn]
             /\ ~ns[i].isSegment => ns[i].soStart = 0 /\ ns[i].soEnd = LastUnit
  <2> DEFINE n == ns[i]
  <2>1. n \in S
    BY <1>2, <1>8
  <2> HIDE DEF n
  <2>2. IsRun(n.sn, n.soStart, n.soEnd) /\ Dist(n.sn) < d /\ M[n.sn] = Missing(n.sn)
    BY <1>3, <1>4, <1>5, <2>1
  <2>3. /\ n.soStart <= n.soEnd /\ Run(n) \subseteq M[n.sn] /\ n.soEnd + 1 \notin M[n.sn]
        /\ n.soStart - 1 \notin Missing(n.sn) /\ n.soEnd + 1 \notin Missing(n.sn)
    BY <2>2 DEF IsRun, Run
  <2>4. ASSUME ~n.isSegment
        PROVE  n.soStart = 0 /\ n.soEnd = LastUnit
    <3>1. Missing(n.sn) = Unit
      BY <1>5, <2>1, <2>4, Zenon DEF Missing
    <3> DEFINE a == n.soStart
               b == n.soEnd
    <3>2. a \in Nat /\ b \in Nat /\ a < SduLen /\ b < SduLen /\ a - 1 \notin Unit /\ b + 1 \notin Unit
      BY <1>5, <2>1, <2>3, <3>1, UnitFacts
    <3> HIDE DEF a, b
    <3>3. a = 0 /\ b = LastUnit
      BY <3>2, SduLenAssumption, SMT DEF Unit, LastUnit
    <3>4. QED
      BY <3>3 DEF a, b
  <2>5. QED
    BY <2>2, <2>3, <2>4 DEF n
<1>9. ASSUME NEW sn \in Sn, Dist(sn) < d, NEW u \in M[sn]
      PROVE  \E i \in DOMAIN ns : ns[i].sn = sn /\ u \in Run(ns[i])
  <2>1. PeerDist(sn) < PeerDist(ack)
    <3>1. SUFFICES ASSUME ~(PeerDist(sn) < WinSz)
                   PROVE  FALSE
      BY <1>3, <1>9
    <3>2. M[sn] = {}
      BY <1>9, <3>1 DEF M, Lacks, PeerHas, PeerDist
    <3>3. QED
      BY <1>9, <3>2
  <2>2. u \in Missing(sn)
    BY <1>4, <1>9, <2>1
  <2>3. PICK a \in Unit, b \in Unit : IsRun(sn, a, b) /\ a <= u /\ u <= b
    BY <2>2, RunCovers
  <2>4. PICK n \in Nacks(sn) : n.sn = sn /\ n.soStart = a /\ n.soEnd = b
    <3>1. IsRun(sn, a, b)
      BY <2>3
    <3>2. \E n \in Nacks(sn) : n.sn = sn /\ n.soStart = a /\ n.soEnd = b
      BY <3>1, NackOfRun
    <3>3. QED
      BY <3>2, Zenon
  <2>5. n \in S
    BY <2>1, <2>4, NacksBelowFacts
  <2>6. PICK i \in DOMAIN ns : ns[i] = n
    BY <1>2, <2>5
  <2>7. u \in a .. b
    <3>1. u \in Nat /\ a \in Nat /\ b \in Nat
      BY <2>2, UnitFacts DEF Missing
    <3>2. QED
      BY <2>3, <3>1, SMT
  <2>8. QED
    BY <2>4, <2>6, <2>7 DEF Run
<1>10. Names(M, ns, d)
  BY <1>6, <1>7, <1>8, <1>9 DEF Names
<1>11. PeerDist(ack) > 0 => Len(ns) > 0 /\ ns[1].sn = peerNext
  <2>1. SUFFICES ASSUME PeerDist(ack) > 0
                 PROVE  Len(ns) > 0 /\ ns[1].sn = peerNext
    OBVIOUS
  <2>2. peerNext \in Sn /\ PeerDist(peerNext) = 0
    BY ModSnType DEF PeerOK, PeerDist
  <2>3. \E u \in Unit : u \in Missing(peerNext)
    BY <2>2 DEF PeerInv, PeerOK, Missing
  <2>4. PICK a \in Unit, b \in Unit : IsRun(peerNext, a, b)
    BY <2>2, <2>3, RunCovers
  <2>5. PICK n \in Nacks(peerNext) : n.sn = peerNext
    BY <2>4, NackOfRun
  <2>6. n \in S
    <3>1. PeerDist(peerNext) < PeerDist(ack)
      BY <2>1, <2>2
    <3>2. QED
      BY <2>2, <2>5, <3>1, NacksBelowFacts
  <2>7. PICK i \in DOMAIN ns : ns[i] = n
    BY <1>2, <2>6
  <2>8. 1 \in DOMAIN ns /\ Len(ns) > 0 /\ (i = 1 \/ 1 < i)
    BY <1>2, SMT
  <2>9. CASE i = 1
    BY <2>5, <2>7, <2>8, <2>9
  <2>10. CASE 1 < i
    <3> DEFINE x == ns[1]
    <3>1. Earlier(x, n) /\ x \in S
      BY <1>2, <2>7, <2>8, <2>10, Zenon DEF Order
    <3> HIDE DEF x
    <3>2. PeerDist(x.sn) \in Nat
      BY <1>5, <3>1
    <3>3. ~(PeerDist(x.sn) < PeerDist(n.sn))
      BY <2>2, <2>5, <3>2, SMT
    <3>4. x.sn = peerNext
      BY <2>5, <3>1, <3>3 DEF Earlier
    <3>5. QED
      BY <2>8, <3>4 DEF x
  <2>11. QED
    BY <2>8, <2>9, <2>10
<1>12. ~(PeerDist(ack) > 0) => Len(ns) = 0 /\ ack = peerNext
  <2>1. SUFFICES ASSUME ~(PeerDist(ack) > 0)
                 PROVE  Len(ns) = 0 /\ ack = peerNext
    OBVIOUS
  <2>2. PeerDist(ack) = 0
    BY <1>3, <2>1, SMT
  <2>3. ack = peerNext
    BY <2>2, ModSnType DEF PeerOK, PeerDist
  <2>4. S = {}
    <3>1. SUFFICES ASSUME NEW n \in S
                   PROVE  FALSE
      OBVIOUS
    <3>2. PeerDist(n.sn) < 0 /\ PeerDist(n.sn) \in Nat
      BY <1>5, <2>2
    <3>3. QED
      BY <3>2, SMT
  <2> HIDE DEF S
  <2>5. Cardinality(S) = 0
    BY <2>4, FS_EmptySet
  <2>6. QED
    BY <1>2, <2>3, <2>5
<1>13. Len(ns) > 0 => Len(ns) # 0
  BY <1>2, SMT
<1>14. QED
  BY <1>1, <1>10, <1>11, <1>12, <1>13 DEF M

-----------------------------------------------------------------------------
(* The inductive invariant.                                                *)

None == [sn \in Sn |-> {}]

\* The buffers, as every handler finds them and leaves them.
Shape(st) == RetxOrder(st) /\ TxOrder(st) /\ RetxBelowTx(st) /\ InWin(st) /\ Counts(st)

\* A piece is held as it was transmitted or as a part of that: the peer has
\* received all of it or nothing.
Laminar(st) ==
    \A p \in Pieces(st) : \A c \in chan : c.sn = p[1] => IsWhole(p[2], p[3], Span(c))
GotWhole(st) == Wholes(Pieces(st), got)

\* What was transmitted and is no longer held is with the peer.
Arrived(st) == ~st.max => \A sn \in Sn : SentUnits(sn) \ UnitsAt(st, sn) \subseteq PeerHas(sn)
Reached(st) == ~st.max => Linked(st)

StInv(st) ==
    /\ st \in BufType /\ st.max = maxReTxReached
    /\ Shape(st) /\ Full(st) /\ Laminar(st) /\ GotWhole(st) /\ Arrived(st) /\ Reached(st)

IInv == TypeOK /\ PeerInv /\ StInv(Buffers)

\* What TypeOK says of the window, the peer and the lists.
LEMMA Stated ==
    ASSUME TypeOK
    PROVE  WinOK /\ PeerOK /\ Buffers \in BufType
<1>1. WinOK /\ PeerOK
  BY DEF TypeOK, WinOK, PeerOK
<1>2. retxLst \in Seq(RetxType)
  BY DEF TypeOK, RetxType
<1>3. nxtRetx \in PtrType
  BY DEF TypeOK, PtrType
<1>4. /\ txBuf \in [Sn -> Seq(SegType)] /\ rcvdSz \in [Sn -> 0 .. SduLen]
      /\ bo \in Int /\ retxBo \in Int /\ maxReTxReached \in BOOLEAN /\ txNextAck \in Sn
  BY DEF TypeOK
<1>5. FALSE \in BOOLEAN /\ 1 \in Nat \ {0}
  BY SMT
<1>6. Buffers \in BufType
  BY <1>2, <1>3, <1>4, <1>5, Zenon DEF Buffers, BufType
<1>7. QED
  BY <1>1, <1>6

\* The parts of Buffers are the variables of the same name.
LEMMA BuffersFields ==
    /\ Buffers.txBuf = txBuf /\ Buffers.retx = retxLst /\ Buffers.nxt = nxtRetx
    /\ Buffers.rcvd = rcvdSz /\ Buffers.max = maxReTxReached
    /\ Buffers.bo = bo /\ Buffers.retxBo = retxBo
BY DEF Buffers

\* Nothing but these fields matters.
LEMMA SameLists ==
    ASSUME NEW st, NEW s2, s2.txBuf = st.txBuf, s2.retx = st.retx, s2.rcvd = st.rcvd, s2.max = st.max
    PROVE  /\ Shape(st) => Shape(s2)
           /\ Full(st) => Full(s2)
           /\ Pieces(s2) = Pieces(st)
           /\ \A sn : TxUnits(s2, sn) = TxUnits(st, sn) /\ RetxUnits(s2, sn) = RetxUnits(st, sn)
                      /\ UnitsAt(s2, sn) = UnitsAt(st, sn)
           /\ s2.nxt = st.nxt /\ Linked(st) => Linked(s2)
<1>1. \A sn : TxUnits(s2, sn) = TxUnits(st, sn) /\ RetxUnits(s2, sn) = RetxUnits(st, sn)
  BY DEF TxUnits, RetxUnits
<1>2. \A sn : UnitsAt(s2, sn) = UnitsAt(st, sn)
  BY <1>1 DEF UnitsAt
<1>3. Pieces(s2) = Pieces(st)
  BY DEF Pieces
<1>4. RetxOrder(st) /\ TxOrder(st) /\ RetxBelowTx(st) => RetxOrder(s2) /\ TxOrder(s2) /\ RetxBelowTx(s2)
  BY DEF RetxOrder, TxOrder, RetxBelowTx
<1>5. InWin(st) => InWin(s2)
  BY DEF InWin
<1>6. Counts(st) => Counts(s2)
  BY <1>2 DEF Counts, Total
<1>7. Full(st) => Full(s2)
  BY <1>1 DEF Full
<1>8. s2.nxt = st.nxt /\ Linked(st) => Linked(s2)
  BY DEF Linked
<1>9. QED
  BY <1>1, <1>2, <1>3, <1>4, <1>5, <1>6, <1>7, <1>8 DEF Shape

\* A step that leaves the window and the SDU being segmented alone.
LEMMA SameWindow ==
    ASSUME UNCHANGED <<txNext, txNextAck, segOff>>, NEW st
    PROVE  /\ Shape(st) => Shape(st)'
           /\ Full(st) => Full(st)'
           /\ \A sn : SentUnits(sn)' = SentUnits(sn) /\ UnsentUnits(sn)' = UnsentUnits(sn)
           /\ \A sn : Dist(sn)' = Dist(sn)
<1>1. \A sn : Dist(sn)' = Dist(sn)
  BY DEF Dist
<1>2. \A sn : SentUnits(sn)' = SentUnits(sn)
  BY <1>1 DEF SentUnits
<1>3. \A sn : UnsentUnits(sn)' = UnsentUnits(sn)
  BY DEF UnsentUnits
<1>4. RetxOrder(st) => RetxOrder(st)'
  BY <1>1 DEF RetxOrder, Before
<1>5. TxOrder(st) => TxOrder(st)'
  BY DEF TxOrder
<1>6. RetxBelowTx(st) => RetxBelowTx(st)'
  BY DEF RetxBelowTx
<1>7. InWin(st) => InWin(st)'
  BY <1>1 DEF InWin
<1>8. Counts(st) => Counts(st)'
  BY <1>3 DEF Counts, Total
<1>9. Full(st) => Full(st)'
  BY <1>2 DEF Full
<1>10. QED
  BY <1>1, <1>2, <1>3, <1>4, <1>5, <1>6, <1>7, <1>8, <1>9 DEF Shape

-----------------------------------------------------------------------------
(* The start and re-establishment: rlcAmmDlReEstablish.                    *)

StPart(st) == st \in BufType /\ Shape(st) /\ Full(st) /\ Laminar(st) /\ GotWhole(st) /\ Arrived(st) /\ Reached(st)

\* StInv by the name of its parts, for a name of Buffers,
LEMMA StNamed == \A st : st = Buffers /\ st.max = maxReTxReached /\ StPart(st) => StInv(Buffers)
BY DEF StInv, StPart

\* and after a step.
LEMMA StNamedNext ==
    ASSUME NEW s2, s2 = Buffers', s2.max = maxReTxReached', s2 \in BufType,
           Shape(s2)', Full(s2)', Laminar(s2)', GotWhole(s2)', Arrived(s2)', Reached(s2)'
    PROVE  StInv(Buffers)'
<1>1. (\A st : st = Buffers /\ st.max = maxReTxReached /\ StPart(st) => StInv(Buffers))'
  BY StNamed, PTL
<1>2. s2 = Buffers' /\ s2.max = maxReTxReached' /\ StPart(s2)' => StInv(Buffers)'
  BY <1>1
<1>3. StPart(s2)'
  BY DEF StPart
<1>4. QED
  BY <1>2, <1>3

Fresh ==
    /\ txNext = 0 /\ txNextAck = 0 /\ queued = 0 /\ segOff = 0
    /\ rcvdSz = [sn \in Sn |-> 0] /\ txBuf = [sn \in Sn |-> <<>>]
    /\ retxLst = <<>> /\ nxtRetx = NoRetx /\ bo = 0 /\ retxBo = 0
    /\ pollSn = 0 /\ pduWoPoll = 0 /\ pollRetxTmr = FALSE
    /\ maxReTxReached = FALSE
    /\ chan = {} /\ peerNext = 0 /\ got = [sn \in Sn |-> {}]

\* The entity as it begins and as re-establishment leaves it, with the peer:
\* its types,
LEMMA FreshType == Fresh /\ undef \in BOOLEAN => TypeOK
<1> SUFFICES ASSUME Fresh, undef \in BOOLEAN
             PROVE  TypeOK
  OBVIOUS
<1>1. 0 \in Sn /\ 0 \in Unit /\ 0 \in 0 .. SduLen /\ 0 \in 0 .. (PollPdu - 1)
  BY WinSzAssumption, SduLenAssumption, PollPduAssumption, SMT DEF Sn, SnMod, Unit, LastUnit
<1>2. rcvdSz \in [Sn -> 0 .. SduLen] /\ txBuf \in [Sn -> Seq(SegType)] /\ got \in [Sn -> SUBSET Unit]
  BY <1>1 DEF Fresh
<1>3. retxLst \in Seq([sn : Sn, so : Unit, end : Unit, retxCnt : 1 .. MaxRetx,
                        pendingReTrans : BOOLEAN])
  BY EmptySeq DEF Fresh
<1>4. QED
  BY <1>1, <1>2, <1>3, SMT DEF Fresh, TypeOK

\* and the invariant.  Nothing is held, in flight or with the peer.
LEMMA FreshSound == Fresh /\ undef \in BOOLEAN => IInv
<1> SUFFICES ASSUME Fresh, undef \in BOOLEAN
             PROVE  IInv
  OBVIOUS
<1>1. TypeOK /\ WinOK /\ PeerOK /\ Buffers \in BufType
  BY FreshType, Stated
<1> DEFINE st == Buffers
<1>2. /\ st.txBuf = [sn \in Sn |-> <<>>] /\ st.retx = <<>> /\ st.nxt = NoRetx
      /\ st.rcvd = [sn \in Sn |-> 0] /\ st.max = FALSE /\ st \in BufType
  BY <1>1, BuffersFields DEF Fresh
<1> HIDE DEF st
<1>3. DOMAIN st.retx = {} /\ \A sn \in Sn : DOMAIN st.txBuf[sn] = {} /\ st.txBuf[sn] = <<>>
  BY <1>2
<1>4. Dist(txNext) = 0 /\ Dist(peerNext) = 0 /\ \A sn \in Sn : Dist(sn) \in Nat
  BY <1>1, DistNat, ModSnType DEF Dist, Fresh, WinOK
<1>5. \A sn \in Sn : ~(Dist(sn) < Dist(txNext))
  BY <1>4, SMT
<1>6. \A sn \in Sn : SentUnits(sn) = {}
  <2>1. 0 .. segOff - 1 = {}
    BY SMT DEF Fresh
  <2>2. QED
    BY <1>5, <2>1 DEF SentUnits
<1>7. \A sn \in Sn : UnitsAt(st, sn) = {} /\ UnsentUnits(sn) = {}
  <2>1. ~(segOff > 0)
    BY SMT DEF Fresh
  <2>2. QED
    BY <1>3, <2>1 DEF UnitsAt, TxUnits, RetxUnits, UnsentUnits
<1>8. Pieces(st) = {}
  BY <1>3 DEF Pieces
<1>9. Counts(st)
  <2>1. Cardinality({}) = 0 /\ SduLen \in Nat /\ SduLen >= 0
    BY FS_EmptySet, SduLenAssumption
  <2>2. \A sn \in Sn : st.rcvd[sn] = 0
    BY <1>2
  <2>3. \A sn \in Sn : Total(st, sn) = 0
    BY <1>7, <2>1, <2>2 DEF Total
  <2>4. QED
    BY <2>1, <2>3 DEF Counts
<1>10. Shape(st)
  BY <1>3, <1>9 DEF Shape, RetxOrder, TxOrder, RetxBelowTx, InWin
<1>11. Full(st) /\ Laminar(st) /\ GotWhole(st) /\ Arrived(st)
  BY <1>6, <1>8 DEF Full, Laminar, GotWhole, Wholes, Arrived
<1>12. Reached(st)
  BY <1>2, <1>3 DEF Reached, Linked
<1>13. PeerInv
  <2>1. Dist(txNext) <= WinSz /\ Dist(peerNext) <= Dist(txNext) /\ ~(segOff > 0)
    BY <1>4, WinSzAssumption, SMT DEF Fresh
  <2>2. got[peerNext] # Unit
    <3>1. got[peerNext] = {}
      BY <1>1 DEF Fresh, PeerOK
    <3>2. Unit # {}
      BY UnitFacts
    <3>3. QED
      BY <3>1, <3>2
  <2>3. QED
    BY <2>1, <2>2 DEF PeerInv, Fresh
<1>14. StInv(Buffers)
  BY <1>2, <1>10, <1>11, <1>12, Zenon DEF StInv, st, Fresh
<1>15. QED
  BY <1>1, <1>13, <1>14 DEF IInv

\* The invariant holds at the start.
LEMMA InitSound == Init => IInv
BY FreshSound, Zenon DEF Init, Fresh

\* rlcAmmDlReEstablish empties both lists and starts the window anew.
LEMMA ReEstablishSound == IInv /\ ReEstablish => IInv'
<1>1. (Fresh /\ undef \in BOOLEAN => IInv)'
  BY FreshSound, PTL
<1>2. IInv /\ ReEstablish => Fresh' /\ undef' \in BOOLEAN
  BY DEF IInv, TypeOK, ReEstablish, Fresh
<1>3. QED
  BY <1>1, <1>2

-----------------------------------------------------------------------------
(* Steps that change no list: rlcAmmQSdu, discarded SDUs.                  *)

\* A step that leaves the window, the SDU being segmented and the peer alone.
LEMMA SamePeer ==
    ASSUME UNCHANGED <<txNext, txNextAck, segOff, peerNext, got>>, PeerInv,
           \A c \in chan' : c \in chan \/ (c.so <= c.end /\ Span(c) \subseteq SentUnits(c.sn))
    PROVE  /\ PeerInv'
           /\ \A sn : PeerHas(sn)' = PeerHas(sn)
<1>1. \A sn : SentUnits(sn)' = SentUnits(sn) /\ Dist(sn)' = Dist(sn)
  BY SameWindow
<1>2. \A sn : PeerHas(sn)' = PeerHas(sn)
  BY DEF PeerHas
<1>3. Dist(txNext)' <= WinSz /\ (segOff' > 0 => Dist(txNext)' < WinSz) /\ Dist(peerNext)' <= Dist(txNext)'
  BY DEF PeerInv, Dist
<1>4. \A p \in chan' : p.so <= p.end /\ Span(p) \subseteq SentUnits(p.sn)'
  BY <1>1 DEF PeerInv
<1>5. \A sn \in Sn : got'[sn] # {} => got'[sn] \subseteq SentUnits(sn)' /\ Dist(peerNext)' <= Dist(sn)'
  BY <1>1 DEF PeerInv, Dist
<1>6. got'[peerNext'] # Unit
  BY DEF PeerInv
<1>7. PeerInv'
  BY <1>3, <1>4, <1>5, <1>6 DEF PeerInv, Span
<1>8. QED
  BY <1>2, <1>7

\* A step that changes the buffers and what is in flight, and neither window.
LEMMA BufferStep ==
    ASSUME UNCHANGED <<txNext, txNextAck, segOff, peerNext, got>>, PeerInv, TypeOK',
           \A c \in chan' : c \in chan \/ (c.so <= c.end /\ Span(c) \subseteq SentUnits(c.sn)),
           NEW s2, s2 = Buffers', Shape(s2), Full(s2), Laminar(s2)', GotWhole(s2), Arrived(s2), Reached(s2)
    PROVE  IInv'
<1>1. PeerInv' /\ \A sn : PeerHas(sn)' = PeerHas(sn)
  BY SamePeer
<1>2. Shape(s2)' /\ Full(s2)' /\ \A sn : SentUnits(sn)' = SentUnits(sn)
  BY SameWindow
<1>3. GotWhole(s2)'
  BY DEF GotWhole, Wholes
<1>4. Arrived(s2)'
  BY <1>1, <1>2 DEF Arrived
<1>5. Reached(s2)'
  BY DEF Reached
<1>6. s2 \in BufType
  <2>1. (TypeOK => WinOK /\ PeerOK /\ Buffers \in BufType)'
    BY Stated, PTL
  <2>2. QED
    BY <2>1
<1>7. s2.max = maxReTxReached'
  BY DEF Buffers
<1>8. StInv(Buffers)'
  BY <1>2, <1>3, <1>4, <1>5, <1>6, <1>7, StNamedNext
<1>9. QED
  BY <1>1, <1>8 DEF IInv

\* A step that changes counters and timers only.
LEMMA IdleStep ==
    ASSUME IInv, TypeOK',
           UNCHANGED <<winVars, segOff, rcvdSz, bufVars, maxReTxReached, peerVars, chan>>
    PROVE  IInv'
<1>0. UNCHANGED <<txNext, txNextAck, segOff, peerNext, got, chan>> /\ PeerInv
  BY DEF winVars, peerVars, IInv
<1>1. PICK st : st = Buffers
  OBVIOUS
<1>2. PICK s2 : s2 = Buffers'
  OBVIOUS
<1>3. /\ s2.txBuf = st.txBuf /\ s2.retx = st.retx /\ s2.nxt = st.nxt
      /\ s2.rcvd = st.rcvd /\ s2.max = st.max
  BY <1>1, <1>2 DEF Buffers, bufVars
<1>4. Shape(st) /\ Full(st) /\ Laminar(st) /\ GotWhole(st) /\ Arrived(st) /\ Reached(st)
  BY <1>1 DEF IInv, StInv
<1>5. Shape(s2) /\ Full(s2) /\ Pieces(s2) = Pieces(st) /\ \A sn : UnitsAt(s2, sn) = UnitsAt(st, sn)
  BY <1>3, <1>4, SameLists
<1>6. Reached(s2)
  BY <1>3, <1>4, SameLists DEF Reached
<1>7. GotWhole(s2) /\ Arrived(s2)
  BY <1>3, <1>4, <1>5 DEF GotWhole, Arrived
<1>8. Laminar(s2)'
  BY <1>0, <1>4, <1>5 DEF Laminar, Span
<1>9. QED
  BY <1>0, <1>2, <1>5, <1>6, <1>7, <1>8, BufferStep

\* A buffer occupancy is a number.
LEMMA NonNegInt == ASSUME NEW n \in Int PROVE NonNeg(n) \in Int
BY SMT DEF NonNeg

\* rlcAmmQSdu adds an SDU to the queue and touches no list.
LEMMA QSduSound == IInv /\ QSdu => IInv'
<1> SUFFICES ASSUME IInv, QSdu
             PROVE  IInv'
  OBVIOUS
<1>1. queued' \in Nat /\ bo' \in Int /\ retxBo' \in Int
  <2>1. queued \in Nat /\ bo \in Int /\ retxBo \in Int /\ SduLen \in Int
    BY SduLenAssumption DEF IInv, TypeOK
  <2>2. queued + 1 \in Nat /\ bo + SduLen \in Int
    BY <2>1, SMT
  <2>3. QED
    BY <2>1, <2>2, NonNegInt DEF QSdu, ReportBo
<1>2. TypeOK'
  BY <1>1 DEF IInv, TypeOK, QSdu, winVars, bufVars, pollVars, errVars, peerVars
<1>3. UNCHANGED <<winVars, segOff, rcvdSz, bufVars, maxReTxReached, peerVars, chan>>
  BY DEF QSdu, errVars
<1>4. QED
  BY <1>2, <1>3, IdleStep

\* An SDU that rlcAssembleSdus discards leaves the queue before it has an SN.
LEMMA DiscSduSound == IInv /\ DiscSdu => IInv'
<1> SUFFICES ASSUME IInv, DiscSdu
             PROVE  IInv'
  OBVIOUS
<1>1. queued' \in Nat /\ bo' \in Int /\ retxBo' \in Int
  <2>1. queued \in Nat /\ bo \in Int /\ retxBo \in Int /\ SduLen \in Int
    BY SduLenAssumption DEF IInv, TypeOK
  <2>2. queued - 1 \in Nat /\ bo - SduLen \in Int
    BY <2>1, SMT DEF DiscSdu
  <2>3. QED
    BY <2>1, <2>2, NonNegInt DEF DiscSdu, ReportBo
<1>2. TypeOK'
  BY <1>1 DEF IInv, TypeOK, DiscSdu, winVars, bufVars, pollVars, errVars, peerVars
<1>3. UNCHANGED <<winVars, segOff, rcvdSz, bufVars, maxReTxReached, peerVars, chan>>
  BY DEF DiscSdu, errVars
<1>4. QED
  BY <1>2, <1>3, IdleStep

\* A grant that finds nxtRetx at a removed entry ends the model: nothing changes.
LEMMA ResegReleasedSound == IInv /\ ResegReleased => IInv'
<1> SUFFICES ASSUME IInv, ResegReleased
             PROVE  IInv'
  OBVIOUS
<1>1. TypeOK'
  BY DEF IInv, TypeOK, ResegReleased, winVars, sduVars, bufVars, boVars, pollVars, peerVars
<1>2. UNCHANGED <<winVars, segOff, rcvdSz, bufVars, maxReTxReached, peerVars, chan>>
  BY DEF ResegReleased, sduVars
<1>3. QED
  BY <1>1, <1>2, IdleStep

\* Nothing changes.
LEMMA StutterSound == IInv /\ UNCHANGED vars => IInv'
<1> SUFFICES ASSUME IInv, UNCHANGED vars
             PROVE  IInv'
  OBVIOUS
<1>1. TypeOK'
  BY DEF IInv, TypeOK, vars, winVars, sduVars, bufVars, boVars, pollVars, errVars, peerVars
<1>2. UNCHANGED <<winVars, segOff, rcvdSz, bufVars, maxReTxReached, peerVars, chan>>
  BY DEF vars, sduVars, errVars
<1>3. QED
  BY <1>1, <1>2, IdleStep

-----------------------------------------------------------------------------
(* rlcAmmPollRetxTmrExp.                                                   *)

\* Good, in the words of the invariant.
LEMMA GoodShape ==
    ASSUME NEW P, NEW M, NEW st
    PROVE  Good(P, M, st) <=> /\ st \in BufType /\ Shape(st) /\ Keeps(M, st)
                              /\ Pieces(st) \subseteq P /\ (maxReTxReached => st.max)
BY DEF Good, Shape

\* What a handler that keeps every unit leaves is sound.
LEMMA KeptSound ==
    ASSUME NEW st, Laminar(st), GotWhole(st), Arrived(st),
           NEW M, M = [sn \in Sn |-> UnitsAt(st, sn)],
           NEW s2, Good(Pieces(st), M, s2), st.max => s2.max
    PROVE  Shape(s2) /\ Laminar(s2) /\ GotWhole(s2) /\ Arrived(s2)
<1>1. Shape(s2) /\ Keeps(M, s2) /\ Pieces(s2) \subseteq Pieces(st)
  BY GoodShape
<1>2. Laminar(s2) /\ GotWhole(s2)
  BY <1>1 DEF Laminar, GotWhole, Wholes
<1>3. Arrived(s2)
  BY <1>1 DEF Arrived, Keeps
<1>4. QED
  BY <1>1, <1>2, <1>3

\* The SDU before txNext.
LEMMA LastSn ==
    ASSUME WinOK, NEW sn, sn = AddSn(txNext, SnMod - 1)
    PROVE  /\ sn \in Sn /\ sn # txNext
           /\ Dist(sn) < Dist(txNext) => Dist(txNext) = Dist(sn) + 1
<1>1. sn \in Sn /\ sn # txNext
  BY WinSzAssumption, SMT DEF AddSn, Sn, SnMod, WinOK
<1>2. Dist(sn) < Dist(txNext) => Dist(txNext) = Dist(sn) + 1
  BY WinSzAssumption, SMT DEF AddSn, Sn, SnMod, WinOK, Dist, ModSn
<1>3. QED
  BY <1>1, <1>2

\* PollRetxTmrExp with the last SDU in txBuf moves its PDUs to retxLst,
LEMMA PollMoves ==
    ASSUME WinOK, NEW st \in BufType, Shape(st), Full(st), maxReTxReached => st.max,
           NEW M, M = [sn \in Sn |-> UnitsAt(st, sn)], NEW P, P = Pieces(st),
           NEW sn, sn = AddSn(txNext, SnMod - 1), st.txBuf[sn] # <<>>,
           NEW s2, s2 = MoveFrmTxtoRetxBuffer(st, sn)
    PROVE  /\ Good(P, M, s2) /\ Full(s2) /\ s2.max = st.max /\ s2.rcvd = st.rcvd
           /\ Linked(st) => Linked(s2)
<1>1. sn \in Sn /\ sn # txNext
  BY LastSn
<1>2. Dist(sn) < Dist(txNext)
  <2>1. 1 \in DOMAIN st.txBuf[sn]
    BY <1>1, TxEntries, EmptySeq, SMT
  <2>2. QED
    BY <1>1, <2>1 DEF Shape, InWin
<1>3. Keeps(M, st)
  BY DEF Keeps
<1>4. Good(P, M, st)
  BY <1>3, GoodShape
<1>5. MoveInv(P, M, sn, st, 0, s2)
  BY <1>1, <1>2, <1>4, MoveLoop
<1>6. Good(P, M, s2) /\ s2.max = st.max /\ s2.rcvd = st.rcvd
  BY <1>5 DEF MoveInv
<1>7. Top(st, sn)
  <2>1. Dist(txNext) = Dist(sn) + 1 /\ Dist(sn) \in Nat
    BY <1>1, <1>2, LastSn, DistNat DEF WinOK
  <2>2. SUFFICES ASSUME NEW j \in DOMAIN st.retx
                 PROVE  Dist(st.retx[j].sn) <= Dist(sn)
    BY DEF Top
  <2>3. Dist(st.retx[j].sn) < Dist(txNext) /\ Dist(st.retx[j].sn) \in Nat
    BY RetxEntries, DistNat DEF Shape, InWin, WinOK
  <2>4. QED
    BY <2>1, <2>3, SMT
<1>8. Linked(st) => Linked(s2)
  BY <1>5, <1>7 DEF MoveInv
<1>9. Full(s2)
  <2>1. SUFFICES ASSUME NEW t \in Sn, s2.txBuf[t] # <<>> \/ t = txNext
                 PROVE  SentUnits(t) \subseteq TxUnits(s2, t)
    BY DEF Full
  <2>2. t # sn
    <3>1. SUFFICES ASSUME t = sn
                   PROVE  FALSE
      OBVIOUS
    <3>2. s2.txBuf[sn] \in Seq(SegType) /\ Len(s2.txBuf[sn]) = 0
      BY <1>1, <1>5, TxEntries DEF MoveInv
    <3>3. s2.txBuf[sn] = <<>>
      BY <3>2, EmptySeq
    <3>4. QED
      BY <1>1, <2>1, <3>1, <3>3
  <2>3. s2.txBuf[t] = st.txBuf[t]
    BY <1>5, <2>2 DEF MoveInv
  <2>4. SentUnits(t) \subseteq TxUnits(st, t)
    BY <2>1, <2>3 DEF Full
  <2>5. QED
    BY <2>3, <2>4 DEF TxUnits
<1>10. QED
  BY <1>6, <1>8, <1>9

\* and with txBuf empty it marks the last entry of retxLst.
LEMMA PollMarks ==
    ASSUME WinOK, NEW st \in BufType, Shape(st), Full(st), maxReTxReached => st.max,
           NEW M, M = [sn \in Sn |-> UnitsAt(st, sn)], NEW P, P = Pieces(st),
           st.retx # <<>>, st.node = Len(st.retx), NEW s2, s2 = MarkPduForReTx(st)
    PROVE  /\ Good(P, M, s2) /\ Full(s2) /\ (st.max => s2.max) /\ s2.rcvd = st.rcvd
           /\ ~s2.max => ~st.max /\ (Linked(st) => Linked(s2))
<1> DEFINE n == Len(st.retx)
<1>1. n \in Nat /\ DOMAIN st.retx = 1 .. n /\ n > 0 /\ st.retx \in Seq(RetxType)
  <2>1. st.retx \in Seq(RetxType)
    BY BufFields
  <2>2. n \in Nat /\ DOMAIN st.retx = 1 .. n /\ n # 0
    BY <2>1, EmptySeq, LenProperties
  <2>3. QED
    BY <2>1, <2>2, SMT
<1>2. n \in Nat \ {0} /\ n \in DOMAIN st.retx /\ \A j \in DOMAIN st.retx : ~(j > n)
  BY <1>1, SMT
<1> HIDE DEF n
<1>3. st.node = n
  BY DEF n
<1>7. Keeps(M, st)
  BY DEF Keeps
<1>8. Good(P, M, st)
  BY <1>7, GoodShape
<1>9. /\ Good(P, M, s2) /\ s2.txBuf = st.txBuf /\ s2.rcvd = st.rcvd
      /\ MarkedAt(st, s2) \/ GivenUpAt(st, s2)
  <2>1. st.node \in DOMAIN st.retx
    BY <1>2, <1>3
  <2>2. QED
    BY <1>8, <2>1, MarkGood
<1>10. Full(s2)
  BY <1>9 DEF Full, TxUnits
<1>11. st.max => s2.max
  BY <1>9, Zenon DEF MarkedAt, GivenUpAt
<1>12. ASSUME ~s2.max, Linked(st)
       PROVE  Linked(s2)
  <2>1. MarkedAt(st, s2) /\ ~st.max
    BY <1>9, <1>11, <1>12 DEF GivenUpAt
  <2>2. /\ SameShape(st.retx, s2.retx)
        /\ \A j \in DOMAIN st.retx : j # n => s2.retx[j] = st.retx[j]
        /\ s2.nxt = st.nxt \/ (st.nxt = NoRetx /\ s2.nxt = Ptr(s2.retx[n]))
        /\ s2.nxt = NoRetx => st.retx[n].pendingReTrans
    BY <1>3, <2>1 DEF MarkedAt
  <2>3. DOMAIN s2.retx = DOMAIN st.retx
    BY <2>2 DEF SameShape
  <2>4. CASE st.nxt = NoRetx /\ \A j \in DOMAIN st.retx : ~st.retx[j].pendingReTrans
    <3>1. s2.nxt = Ptr(s2.retx[n])
      BY <1>2, <2>2, <2>4
    <3>2. \A j \in DOMAIN s2.retx : j < n => ~s2.retx[j].pendingReTrans
      <4>1. \A j \in DOMAIN s2.retx : j < n => j # n
        BY <1>1, <2>3, SMT
      <4>2. QED
        BY <2>2, <2>3, <2>4, <4>1
    <3>3. QED
      BY <1>2, <2>3, <3>1, <3>2 DEF Linked
  <2>5. CASE \E i \in DOMAIN st.retx :
                 /\ Ptr(st.retx[i]) = st.nxt
                 /\ \A j \in DOMAIN st.retx : j < i => ~st.retx[j].pendingReTrans
    <3>1. PICK i \in DOMAIN st.retx :
                 /\ Ptr(st.retx[i]) = st.nxt
                 /\ \A j \in DOMAIN st.retx : j < i => ~st.retx[j].pendingReTrans
      BY <2>5
    <3>2. Ptr(s2.retx[i]) = s2.nxt
      <4>1. Ptr(s2.retx[i]) = Ptr(st.retx[i])
        BY <3>1, <2>2 DEF SameShape, Ptr
      <4>2. st.nxt # NoRetx
        BY <3>1, RetxEntries, MarkedFacts
      <4>3. QED
        BY <2>2, <3>1, <4>1, <4>2
    <3>3. \A j \in DOMAIN s2.retx : j < i => ~s2.retx[j].pendingReTrans
      <4>1. \A j \in DOMAIN s2.retx : j < i => j # n
        BY <1>1, <2>3, SMT
      <4>2. QED
        BY <2>2, <2>3, <3>1, <4>1
    <3>4. QED
      BY <2>3, <3>2, <3>3 DEF Linked
  <2>6. QED
    BY <1>12, <2>4, <2>5 DEF Linked
<1>13. QED
  BY <1>9, <1>10, <1>11, <1>12

\* What PollRetxTmrExp makes of the buffers, in the state.
LEMMA PollStores ==
    ASSUME IInv, NEW st, st.txBuf = txBuf, st.retx = retxLst, st.rcvd = rcvdSz, st.max = maxReTxReached,
           st.nxt = nxtRetx,
           NEW M, M = [sn \in Sn |-> UnitsAt(st, sn)],
           NEW s2, Good(Pieces(st), M, s2), Full(s2), s2.rcvd = st.rcvd,
           st.max => s2.max, ~s2.max /\ Linked(st) => Linked(s2),
           txBuf' = s2.txBuf, retxLst' = s2.retx, nxtRetx' = s2.nxt, maxReTxReached' = s2.max,
           rcvdSz' = rcvdSz, pollRetxTmr' = FALSE, bo' \in Int, retxBo' \in Int,
           UNCHANGED <<winVars, queued, segOff, pollSn, pduWoPoll, undef, peerVars, chan>>
    PROVE  IInv'
<1>0. UNCHANGED <<txNext, txNextAck, segOff, peerNext, got, chan>> /\ PeerInv
  BY DEF winVars, peerVars, IInv
<1>1. s2 \in BufType
  BY DEF Good
<1>2. TypeOK'
  <2>1. /\ txBuf' \in [Sn -> Seq(SegType)] /\ nxtRetx' \in PtrType /\ maxReTxReached' \in BOOLEAN
        /\ retxLst' \in Seq(RetxType)
    BY <1>1, BufFields
  <2>2. nxtRetx' = NoRetx \/ nxtRetx' \in Sn \X Unit
    BY <2>1 DEF PtrType
  <2>3. QED
    BY <2>1, <2>2, Zenon DEF IInv, TypeOK, RetxType, winVars, peerVars
<1>3. PICK s3 : s3 = Buffers'
  OBVIOUS
<1>4. /\ s3.txBuf = s2.txBuf /\ s3.retx = s2.retx /\ s3.nxt = s2.nxt
      /\ s3.rcvd = s2.rcvd /\ s3.max = s2.max
  BY <1>3 DEF Buffers
<1>5. PICK sb : sb = Buffers
  OBVIOUS
<1>6. /\ st.txBuf = sb.txBuf /\ st.retx = sb.retx /\ st.nxt = sb.nxt
      /\ st.rcvd = sb.rcvd /\ st.max = sb.max
  BY <1>5, BuffersFields
<1>7. Shape(sb) /\ Full(sb) /\ Laminar(sb) /\ GotWhole(sb) /\ Arrived(sb) /\ Reached(sb)
  BY <1>5 DEF IInv, StInv
<1>8. Pieces(st) = Pieces(sb) /\ (\A sn : UnitsAt(st, sn) = UnitsAt(sb, sn)) /\ (Linked(sb) => Linked(st))
  BY <1>6, SameLists
<1>9. Laminar(st) /\ GotWhole(st) /\ Arrived(st)
  BY <1>6, <1>7, <1>8 DEF Laminar, GotWhole, Arrived
<1>10. Shape(s2) /\ Laminar(s2) /\ GotWhole(s2) /\ Arrived(s2)
  BY <1>9, KeptSound
<1>11. Shape(s3) /\ Full(s3) /\ Pieces(s3) = Pieces(s2) /\ (\A sn : UnitsAt(s3, sn) = UnitsAt(s2, sn))
       /\ (Linked(s2) => Linked(s3))
  BY <1>4, <1>10, SameLists
<1>12. Reached(s3)
  <2>1. ~s2.max => ~sb.max
    BY <1>6
  <2>2. ~s2.max => Linked(s2)
    BY <1>7, <1>8, <2>1 DEF Reached
  <2>3. QED
    BY <1>4, <1>11, <2>2 DEF Reached
<1>13. GotWhole(s3) /\ Arrived(s3)
  BY <1>4, <1>10, <1>11 DEF GotWhole, Arrived
<1>14. Laminar(s3)'
  BY <1>0, <1>10, <1>11 DEF Laminar, Span
<1>15. QED
  BY <1>0, <1>2, <1>3, <1>11, <1>12, <1>13, <1>14, BufferStep

\* rlcAmmPollRetxTmrExp: what awaits retransmission afterwards is still held.
LEMMA PollRetxTmrExpSound == IInv /\ PollRetxTmrExp => IInv'
<1> SUFFICES ASSUME IInv, PollRetxTmrExp
             PROVE  IInv'
  OBVIOUS
<1>1. PICK sn : sn = AddSn(txNext, SnMod - 1)
  OBVIOUS
<1> DEFINE stalled == \/ queued = 0 /\ nxtRetx = NoRetx
                      \/ WinStalledAt(txNext, txNextAck)
           acts == stalled /\ (txBuf[sn] # <<>> \/ retxLst # <<>>)
<1>2. TypeOK /\ WinOK /\ Buffers \in BufType /\ sn \in Sn
  BY <1>1, Stated, LastSn DEF IInv
<1>3. PICK st : st = Buffers
  OBVIOUS
<1>4. PICK sl : sl = [Buffers EXCEPT !.node = Len(retxLst)]
  BY Zenon
<1>5. /\ UNCHANGED <<winVars, queued, segOff, pollSn, pduWoPoll, undef, peerVars, chan>>
      /\ rcvdSz' = rcvdSz /\ pollRetxTmr' = FALSE
  BY DEF PollRetxTmrExp, sduVars
<1>6. CASE ~acts
  <2>1. UNCHANGED <<bufVars, boVars, maxReTxReached>>
    BY <1>1, <1>6 DEF PollRetxTmrExp
  <2>2. TypeOK'
    BY <1>2, <1>5, <2>1, Zenon DEF TypeOK, winVars, peerVars, bufVars, boVars
  <2>3. QED
    BY <1>5, <2>1, <2>2, IdleStep
<1>7. ASSUME acts, NEW s2,
             s2 = IF txBuf[sn] # <<>> THEN MoveFrmTxtoRetxBuffer(Buffers, sn) ELSE MarkPduForReTx(sl)
      PROVE  /\ txBuf' = s2.txBuf /\ retxLst' = s2.retx /\ nxtRetx' = s2.nxt
             /\ maxReTxReached' = s2.max /\ ReportBo(s2.bo, s2.retxBo)
  BY <1>1, <1>4, <1>7 DEF PollRetxTmrExp
<1>8. Shape(st) /\ Full(st) /\ (maxReTxReached => st.max) /\ st \in BufType
  BY <1>2, <1>3 DEF IInv, StInv
<1>9. /\ st.txBuf = txBuf /\ st.retx = retxLst /\ st.rcvd = rcvdSz /\ st.max = maxReTxReached
      /\ st.nxt = nxtRetx
  BY <1>3, BuffersFields
<1>10. CASE acts /\ txBuf[sn] # <<>>
  <2>1. PICK s2 : s2 = MoveFrmTxtoRetxBuffer(st, sn)
    OBVIOUS
  <2>2. PICK M : M = [t \in Sn |-> UnitsAt(st, t)]
    BY Zenon
  <2>3. PICK P : P = Pieces(st)
    OBVIOUS
  <2>4. Good(P, M, s2) /\ Full(s2) /\ s2.max = st.max /\ s2.rcvd = st.rcvd /\ (Linked(st) => Linked(s2))
    BY <1>1, <1>2, <1>8, <1>9, <1>10, <2>1, <2>2, <2>3, PollMoves
  <2>5. /\ txBuf' = s2.txBuf /\ retxLst' = s2.retx /\ nxtRetx' = s2.nxt
        /\ maxReTxReached' = s2.max /\ ReportBo(s2.bo, s2.retxBo)
    BY <1>3, <1>7, <1>10, <2>1
  <2>6. bo' \in Int /\ retxBo' \in Int
    BY <2>4, <2>5, BufFields, NonNegInt DEF ReportBo, Good
  <2>7. QED
    BY <1>5, <1>9, <2>2, <2>3, <2>4, <2>5, <2>6, PollStores, Zenon
<1>11. CASE acts /\ ~(txBuf[sn] # <<>>)
  <2>1. PICK s2 : s2 = MarkPduForReTx(sl)
    OBVIOUS
  <2>0. /\ sl.txBuf = st.txBuf /\ sl.retx = st.retx /\ sl.rcvd = st.rcvd /\ sl.max = st.max
        /\ sl.nxt = st.nxt /\ sl.node = Len(retxLst) /\ sl \in BufType
    <3>1. Len(retxLst) \in Nat \ {0}
      <4>1. retxLst # <<>> /\ retxLst \in Seq(RetxType)
        BY <1>8, <1>9, <1>11, BufFields
      <4>2. QED
        BY <4>1, EmptySeq, LenProperties
    <3> DEFINE n == Len(retxLst)
    <3> HIDE DEF n
    <3>2. sl = [st EXCEPT !.node = n] /\ n \in Nat \ {0}
      BY <1>3, <1>4, <3>1 DEF n
    <3>3. sl \in BufType
      BY <1>8, <3>2, Zenon DEF BufType
    <3>4. /\ sl.txBuf = st.txBuf /\ sl.retx = st.retx /\ sl.rcvd = st.rcvd /\ sl.max = st.max
          /\ sl.nxt = st.nxt /\ sl.node = n
      BY <1>8, <3>2, Zenon DEF BufType
    <3>5. QED
      BY <3>3, <3>4 DEF n
  <2>2. PICK M : M = [t \in Sn |-> UnitsAt(sl, t)]
    BY Zenon
  <2>3. PICK P : P = Pieces(sl)
    OBVIOUS
  <2>4. Shape(sl) /\ Full(sl) /\ (maxReTxReached => sl.max) /\ sl.retx # <<>> /\ sl.node = Len(sl.retx)
    BY <1>8, <1>9, <1>11, <2>0, SameLists
  <2>5. /\ Good(P, M, s2) /\ Full(s2) /\ (sl.max => s2.max) /\ s2.rcvd = sl.rcvd
        /\ ~s2.max => ~sl.max /\ (Linked(sl) => Linked(s2))
    BY <1>2, <2>0, <2>1, <2>2, <2>3, <2>4, PollMarks
  <2>6. /\ txBuf' = s2.txBuf /\ retxLst' = s2.retx /\ nxtRetx' = s2.nxt
        /\ maxReTxReached' = s2.max /\ ReportBo(s2.bo, s2.retxBo)
    BY <1>7, <1>11, <2>1
  <2>7. bo' \in Int /\ retxBo' \in Int
    BY <2>5, <2>6, BufFields, NonNegInt DEF ReportBo, Good
  <2>8. /\ sl.txBuf = txBuf /\ sl.retx = retxLst /\ sl.rcvd = rcvdSz /\ sl.max = maxReTxReached
        /\ sl.nxt = nxtRetx
    BY <1>9, <2>0
  <2>9. QED
    BY <1>5, <2>2, <2>3, <2>5, <2>6, <2>7, <2>8, PollStores, Zenon
<1>12. QED
  BY <1>6, <1>10, <1>11

-----------------------------------------------------------------------------
(* A grant for retransmission: rlcResegRetxPdus.                           *)

\* IndexOfPtr finds the first entry with the pointer's SN and start.
LEMMA IndexPlace ==
    ASSUME retxLst \in Seq(RetxType), NEW ptr, NEW i, i = IndexOfPtr(ptr)
    PROVE  /\ i \in 0 .. Len(retxLst)
           /\ i # 0 => i \in DOMAIN retxLst /\ Ptr(retxLst[i]) = ptr
           /\ \A j \in DOMAIN retxLst : Ptr(retxLst[j]) = ptr => i # 0 /\ i <= j
<1> DEFINE I == {j \in 1 .. Len(retxLst) : Ptr(retxLst[j]) = ptr}
<1>1. i = IF I # {} THEN Min(I) ELSE 0
  BY DEF IndexOfPtr, SelectInSeq
<1>2. Len(retxLst) \in Nat /\ DOMAIN retxLst = 1 .. Len(retxLst)
  BY LenProperties
<1>3. I \in SUBSET Nat
  BY <1>2, SMT
<1>4. CASE I = {}
  BY <1>1, <1>2, <1>4, SMT
<1>5. CASE I # {}
  <2>1. i \in I /\ \A y \in I : i <= y
    BY <1>1, <1>3, <1>5, MinOfNaturals, Zenon
  <2>2. QED
    BY <1>2, <2>1, SMT
<1>6. QED
  BY <1>4, <1>5

\* The entry at i of l1 is cut in two, a and b.
SplitAt(l1, l2, i, a, b) ==
    /\ DOMAIN l2 = 1 .. Len(l1) + 1
    /\ \A j \in DOMAIN l1 : (j < i => l2[j] = l1[j]) /\ (j > i => l2[j + 1] = l1[j])
    /\ l2[i] = a /\ l2[i + 1] = b
    /\ \A j \in DOMAIN l2 : /\ j < i => j \in DOMAIN l1 /\ l2[j] = l1[j]
                            /\ j > i + 1 => j - 1 \in DOMAIN l1 /\ l2[j] = l1[j - 1]

\* The list after its entry at i was shortened to a and b put in behind it.
LEMMA SplitList ==
    ASSUME NEW l1 \in Seq(RetxType), NEW i \in DOMAIN l1, NEW a \in RetxType, NEW b \in RetxType
    PROVE  /\ InsertAt([l1 EXCEPT ![i] = a], i + 1, b) \in Seq(RetxType)
           /\ SplitAt(l1, InsertAt([l1 EXCEPT ![i] = a], i + 1, b), i, a, b)
<1> DEFINE l == [l1 EXCEPT ![i] = a]
           m == i + 1
           n == Len(l1)
           g == InsertAt(l, m, b)
<1>1. l \in Seq(RetxType) /\ Len(l) = n /\ n \in Nat /\ DOMAIN l1 = 1 .. n
  BY LenProperties, ExceptSeq
<1>2. \A j \in DOMAIN l1 : l[j] = IF j = i THEN a ELSE l1[j]
  OBVIOUS
<1>3. m \in 1 .. Len(l) + 1
  BY <1>1, SMT
<1>0. l \in Seq(RetxType)
  BY <1>1
<1> HIDE DEF l, m, n
<1>4. /\ g \in Seq(RetxType)
      /\ DOMAIN g = 1 .. Len(l) + 1
      /\ \A j \in 1 .. Len(l) + 1 : g[j] = IF j < m THEN l[j] ELSE IF j = m THEN b ELSE l[j - 1]
  BY <1>0, <1>3, InsertAtList
<1> HIDE DEF g
<1>5. /\ n \in Nat /\ DOMAIN l1 = 1 .. n /\ i \in 1 .. n /\ m = i + 1 /\ DOMAIN g = 1 .. n + 1
      /\ \A j \in 1 .. n + 1 : g[j] = IF j < m THEN l[j] ELSE IF j = m THEN b ELSE l[j - 1]
      /\ \A j \in 1 .. n : l[j] = IF j = i THEN a ELSE l1[j]
  BY <1>1, <1>2, <1>4, Zenon DEF m
<1>6. ASSUME NEW j \in 1 .. n, j < i
      PROVE  g[j] = l1[j]
  <2>1. j \in 1 .. n + 1 /\ j < m /\ j # i
    BY <1>5, <1>6, SMT
  <2>2. QED
    BY <1>5, <1>6, <2>1
<1>7. ASSUME NEW j \in 1 .. n, j > i
      PROVE  g[j + 1] = l1[j]
  <2> DEFINE k == j + 1
  <2>1. k \in 1 .. n + 1 /\ ~(k < m) /\ k # m /\ k - 1 = j /\ j # i
    BY <1>5, <1>7, SMT
  <2> HIDE DEF k
  <2>2. g[k] = l[k - 1]
    BY <1>5, <2>1
  <2>3. l[j] = l1[j]
    BY <1>5, <2>1
  <2>4. QED
    BY <2>1, <2>2, <2>3 DEF k
<1>8. g[i] = a /\ g[m] = b
  <2>1. i \in 1 .. n + 1 /\ i < m /\ m \in 1 .. n + 1 /\ ~(m < m)
    BY <1>5, SMT
  <2>2. QED
    BY <1>5, <2>1
<1>9. ASSUME NEW j \in 1 .. n + 1, j < i
      PROVE  j \in 1 .. n /\ g[j] = l1[j]
  <2>1. j \in 1 .. n
    BY <1>5, <1>9, SMT
  <2>2. QED
    BY <1>6, <1>9, <2>1
<1>10. ASSUME NEW j \in 1 .. n + 1, j > m
       PROVE  j - 1 \in 1 .. n /\ g[j] = l1[j - 1]
  <2> DEFINE k == j - 1
  <2>1. k \in 1 .. n /\ k # i /\ ~(j < m) /\ j # m
    BY <1>5, <1>10, SMT
  <2>2. g[j] = l[k]
    BY <1>5, <2>1
  <2> HIDE DEF k
  <2>3. l[k] = l1[k]
    BY <1>5, <2>1
  <2>4. QED
    BY <2>1, <2>2, <2>3 DEF k
<1>11. SplitAt(l1, g, i, a, b)
  <2>1. \A j \in DOMAIN l1 : (j < i => g[j] = l1[j]) /\ (j > i => g[j + 1] = l1[j])
    BY <1>5, <1>6, <1>7
  <2>2. \A j \in DOMAIN g : /\ j < i => j \in DOMAIN l1 /\ g[j] = l1[j]
                            /\ j > m => j - 1 \in DOMAIN l1 /\ g[j] = l1[j - 1]
    BY <1>5, <1>9, <1>10
  <2>3. QED
    BY <1>5, <1>8, <2>1, <2>2, Zenon DEF SplitAt, m, n
<1>12. g = InsertAt([l1 EXCEPT ![i] = a], i + 1, b)
  BY DEF g, l, m
<1>13. QED
  BY <1>4, <1>11, <1>12

\* Where an entry of the new list comes from.
OldIndex(i, j) == IF j <= i THEN j ELSE j - 1
Within(p, r) == p.sn = r.sn /\ r.so <= p.so /\ p.end <= r.end

\* Every entry of the new list is one of the old list or half of the one cut.
LEMMA SplitFrom ==
    ASSUME NEW st \in BufType, NEW i \in DOMAIN st.retx, NEW s2, NEW a \in RetxType, NEW b \in RetxType,
           SplitAt(st.retx, s2.retx, i, a, b),
           Within(a, st.retx[i]), Within(b, st.retx[i]),
           NEW j \in DOMAIN s2.retx
    PROVE  /\ OldIndex(i, j) \in DOMAIN st.retx /\ Within(s2.retx[j], st.retx[OldIndex(i, j)])
           /\ s2.retx[j] \in RetxType
           /\ OldIndex(i, j) = i => s2.retx[j] = a \/ s2.retx[j] = b
           /\ OldIndex(i, j) # i => s2.retx[j] = st.retx[OldIndex(i, j)]
<1> DEFINE n == Len(st.retx)
<1>1. /\ n \in Nat /\ DOMAIN st.retx = 1 .. n /\ DOMAIN s2.retx = 1 .. n + 1 /\ i \in 1 .. n
      /\ j \in 1 .. n + 1
  BY RetxEntries DEF SplitAt
<1>2. \A k \in DOMAIN st.retx : st.retx[k] \in RetxType /\ Within(st.retx[k], st.retx[k])
  <2>1. SUFFICES ASSUME NEW k \in DOMAIN st.retx
                 PROVE  st.retx[k] \in RetxType /\ Within(st.retx[k], st.retx[k])
    OBVIOUS
  <2> DEFINE x == st.retx[k].so
             y == st.retx[k].end
  <2>2. st.retx[k] \in RetxType /\ x \in Unit /\ y \in Unit
    BY RetxEntries
  <2>3. x <= x /\ y <= y
    BY <2>2, UnitFacts, SMT
  <2>4. QED
    BY <2>2, <2>3 DEF Within
<1> HIDE DEF n
<1>3. CASE j < i
  <2>1. OldIndex(i, j) = j /\ j # i
    BY <1>1, <1>3, SMT DEF OldIndex
  <2>2. j \in DOMAIN st.retx /\ s2.retx[j] = st.retx[j]
    BY <1>3 DEF SplitAt
  <2>3. QED
    BY <1>2, <2>1, <2>2
<1>4. CASE j = i
  <2>1. OldIndex(i, j) = i
    BY <1>1, <1>4, SMT DEF OldIndex
  <2>2. s2.retx[j] = a
    BY <1>4 DEF SplitAt
  <2>3. QED
    BY <2>1, <2>2
<1>5. CASE j = i + 1
  <2>1. OldIndex(i, j) = i
    BY <1>1, <1>5, SMT DEF OldIndex
  <2>2. s2.retx[j] = b
    BY <1>5 DEF SplitAt
  <2>3. QED
    BY <2>1, <2>2
<1>6. CASE j > i + 1
  <2>1. OldIndex(i, j) = j - 1 /\ j - 1 # i
    BY <1>1, <1>6, SMT DEF OldIndex
  <2>2. j - 1 \in DOMAIN st.retx /\ s2.retx[j] = st.retx[j - 1]
    BY <1>6 DEF SplitAt
  <2>3. QED
    BY <1>2, <2>1, <2>2
<1>7. QED
  BY <1>1, <1>3, <1>4, <1>5, <1>6, SMT

\* a and b are r cut in two.
Halves(r, a, b) ==
    /\ a \in RetxType /\ b \in RetxType /\ a.sn = r.sn /\ b.sn = r.sn
    /\ a.so = r.so /\ a.so <= a.end /\ a.end < b.so /\ b.so <= b.end /\ b.end = r.end
    /\ \A u \in Unit : u <= a.end \/ b.so <= u

\* Units are ordered as numbers are.  (Stated for leaves that Zenon proves.)
LEMMA UnitOrder ==
    ASSUME NEW x \in Unit, NEW y \in Unit, NEW z \in Unit
    PROVE  /\ x <= x /\ (x <= y /\ y <= z => x <= z) /\ (x <= y /\ y < z => x < z)
           /\ (x < y /\ y <= z => x < z) /\ (x < y => x <= y) /\ (x <= y <=> ~(y < x))
BY UnitFacts, SMT

\* The halves are entries, and have the units of the whole between them.
LEMMA HalvesWithin ==
    ASSUME NEW r \in RetxType, NEW a, NEW b, Halves(r, a, b)
    PROVE  /\ Within(a, r) /\ Within(b, r) /\ a \in RetxType /\ b \in RetxType
           /\ \A u \in Unit : u \in Span(r) <=> u \in Span(a) \/ u \in Span(b)
<1> DEFINE rs == r.so  re == r.end  ae == a.end  bs == b.so
<1>1. /\ rs \in Unit /\ re \in Unit /\ ae \in Unit /\ bs \in Unit
      /\ a.so = rs /\ b.end = re /\ a.sn = r.sn /\ b.sn = r.sn /\ a \in RetxType /\ b \in RetxType
      /\ rs <= ae /\ ae < bs /\ bs <= re /\ \A u \in Unit : u <= ae \/ bs <= u
  BY DEF Halves, RetxType
<1>2. Span(r) = rs .. re /\ Span(a) = rs .. ae /\ Span(b) = bs .. re
  BY <1>1 DEF Span
<1>3. Within(a, r) <=> rs <= rs /\ ae <= re
  BY <1>1 DEF Within
<1>4. Within(b, r) <=> rs <= bs /\ re <= re
  BY <1>1 DEF Within
<1> HIDE DEF rs, re, ae, bs
<1>5. rs <= rs /\ ae <= re /\ rs <= bs /\ re <= re
  BY <1>1, UnitFacts, SMT
<1>6. \A u \in Unit : u \in rs .. re <=> u \in rs .. ae \/ u \in bs .. re
  BY <1>1, <1>5, UnitFacts, SMT
<1>7. QED
  BY <1>1, <1>2, <1>3, <1>4, <1>5, <1>6

\* What lies within something keeps its place.
LEMMA WithinBefore ==
    ASSUME NEW p \in RetxType, NEW q \in RetxType, NEW r \in RetxType, NEW t \in RetxType,
           Within(p, r), Within(q, t), Before(r, t), r.so <= r.end, p.so <= p.end
    PROVE  Before(p, q)
<1> DEFINE pe == p.end  re == r.end  ts == t.so  qs == q.so
<1>1. /\ pe \in Unit /\ re \in Unit /\ ts \in Unit /\ qs \in Unit
      /\ pe <= re /\ ts <= qs
  BY DEF RetxType, Within
<1>2. p.sn = r.sn /\ q.sn = t.sn
  BY DEF Within
<1>3. Dist(r.sn) < Dist(t.sn) \/ (r.sn = t.sn /\ re < ts)
  BY DEF Before
<1>4. Before(p, q) <=> Dist(r.sn) < Dist(t.sn) \/ (r.sn = t.sn /\ pe < qs)
  BY <1>2 DEF Before
<1> HIDE DEF pe, re, ts, qs
<1>5. re < ts => pe < qs
  BY <1>1, UnitFacts, SMT
<1>6. QED
  BY <1>3, <1>4, <1>5

\* Entries of the new list come from entries in the same order.
LEMMA OldIndexOrder ==
    ASSUME NEW i \in Nat, NEW j \in Nat, NEW k \in Nat, j < k
    PROVE  OldIndex(i, j) < OldIndex(i, k) \/ (j = i /\ k = i + 1 /\ OldIndex(i, j) = i /\ OldIndex(i, k) = i)
BY SMT DEF OldIndex

\* Cutting an entry in two keeps the order of the lists and the units held.
LEMMA SplitShape ==
    ASSUME WinOK, NEW st \in BufType, Shape(st), NEW i \in DOMAIN st.retx,
           NEW a, NEW b, Halves(st.retx[i], a, b),
           NEW s2 \in BufType, s2.txBuf = st.txBuf, s2.rcvd = st.rcvd, s2.max = st.max,
           SplitAt(st.retx, s2.retx, i, a, b)
    PROVE  /\ Shape(s2)
           /\ \A sn : TxUnits(s2, sn) = TxUnits(st, sn) /\ UnitsAt(s2, sn) = UnitsAt(st, sn)
<1> DEFINE r == st.retx[i]
<1>1. /\ r \in RetxType /\ i \in Nat /\ DOMAIN st.retx = 1 .. Len(st.retx)
      /\ DOMAIN s2.retx = 1 .. Len(s2.retx)
      /\ \A j \in DOMAIN st.retx : st.retx[j] \in RetxType /\ st.retx[j].so <= st.retx[j].end
      /\ \A j, k \in DOMAIN st.retx : j < k => Before(st.retx[j], st.retx[k])
  BY RetxEntries DEF Shape, RetxOrder
<1>2. /\ Within(a, r) /\ Within(b, r) /\ a \in RetxType /\ b \in RetxType
      /\ \A u \in Unit : u \in Span(r) <=> u \in Span(a) \/ u \in Span(b)
  BY <1>1, HalvesWithin
<1>3. \A j \in DOMAIN s2.retx :
           /\ OldIndex(i, j) \in DOMAIN st.retx /\ Within(s2.retx[j], st.retx[OldIndex(i, j)])
           /\ s2.retx[j] \in RetxType
           /\ OldIndex(i, j) = i => s2.retx[j] = a \/ s2.retx[j] = b
           /\ OldIndex(i, j) # i => s2.retx[j] = st.retx[OldIndex(i, j)]
  BY <1>2, SplitFrom
<1>4. \A j \in DOMAIN s2.retx : s2.retx[j].so <= s2.retx[j].end
  <2>1. a.so <= a.end /\ b.so <= b.end
    BY DEF Halves
  <2>2. QED
    BY <1>1, <1>3, <2>1
<1>5. ASSUME NEW j \in DOMAIN s2.retx, NEW k \in DOMAIN s2.retx, j < k
      PROVE  Before(s2.retx[j], s2.retx[k])
  <2>1. j \in Nat /\ k \in Nat
    BY <1>1, SMT
  <2> DEFINE oj == OldIndex(i, j)
             ok == OldIndex(i, k)
  <2>2. oj < ok \/ (j = i /\ k = i + 1)
    BY <1>1, <1>5, <2>1, OldIndexOrder
  <2>3. CASE oj < ok
    <3> DEFINE p == s2.retx[j]
               q == s2.retx[k]
               x == st.retx[oj]
               y == st.retx[ok]
    <3>1. /\ p \in RetxType /\ q \in RetxType /\ x \in RetxType /\ y \in RetxType
          /\ Within(p, x) /\ Within(q, y) /\ Before(x, y) /\ x.so <= x.end /\ p.so <= p.end
      BY <1>1, <1>3, <1>4, <2>3
    <3> HIDE DEF p, q, x, y
    <3>2. Before(p, q)
      BY <3>1, WithinBefore
    <3>3. QED
      BY <3>2 DEF p, q
  <2>4. CASE j = i /\ k = i + 1
    <3>1. s2.retx[j] = a /\ s2.retx[k] = b
      BY <2>4 DEF SplitAt
    <3>2. Before(a, b)
      BY DEF Halves, Before
    <3>3. QED
      BY <3>1, <3>2
  <2>5. QED
    BY <2>2, <2>3, <2>4
<1>6. RetxOrder(s2)
  BY <1>4, <1>5 DEF RetxOrder
<1>7. RetxBelowTx(s2)
  <2>1. SUFFICES ASSUME NEW j \in DOMAIN s2.retx, NEW k \in DOMAIN s2.txBuf[s2.retx[j].sn]
                 PROVE  s2.retx[j].end < s2.txBuf[s2.retx[j].sn][k].so
    BY DEF RetxBelowTx
  <2> DEFINE o == OldIndex(i, j)
             sn == s2.retx[j].sn
             x == s2.retx[j].end
             y == st.retx[o].end
             z == st.txBuf[sn][k].so
  <2>2. o \in DOMAIN st.retx /\ st.retx[o].sn = sn /\ x <= y
    BY <1>3 DEF Within
  <2>3. x \in Unit /\ y \in Unit /\ sn \in Sn
    BY <1>1, <1>3, <2>2 DEF RetxType
  <2>4. k \in DOMAIN st.txBuf[sn] /\ z \in Unit
    BY <2>1, <2>3, TxEntries
  <2>5. y < z
    BY <2>2, <2>4 DEF Shape, RetxBelowTx
  <2> HIDE DEF x, y, z
  <2>6. x < z
    BY <2>2, <2>3, <2>4, <2>5, UnitOrder
  <2>7. QED
    BY <2>6 DEF x, z
<1>8. InWin(s2)
  <2>1. \A j \in DOMAIN s2.retx : Dist(s2.retx[j].sn) < Dist(txNext)
    <3>1. SUFFICES ASSUME NEW j \in DOMAIN s2.retx
                   PROVE  Dist(s2.retx[j].sn) < Dist(txNext)
      OBVIOUS
    <3> DEFINE o == OldIndex(i, j)
    <3>2. o \in DOMAIN st.retx /\ st.retx[o].sn = s2.retx[j].sn
      BY <1>3 DEF Within
    <3>3. Dist(st.retx[o].sn) < Dist(txNext)
      BY <3>2 DEF Shape, InWin
    <3>4. QED
      BY <3>2, <3>3
  <2>2. QED
    BY <2>1 DEF Shape, InWin
<1>9. TxOrder(s2)
  BY DEF Shape, TxOrder
<1>10. \A sn : TxUnits(s2, sn) = TxUnits(st, sn)
  BY DEF TxUnits
<1>11. \A sn : RetxUnits(s2, sn) = RetxUnits(st, sn)
  <2>1. ASSUME NEW sn, NEW u \in RetxUnits(s2, sn)
        PROVE  u \in RetxUnits(st, sn)
    <3>1. PICK j \in DOMAIN s2.retx : s2.retx[j].sn = sn /\ u \in Span(s2.retx[j]) /\ u \in Unit
      BY <2>1 DEF RetxUnits
    <3> DEFINE o == OldIndex(i, j)
    <3>2. o \in DOMAIN st.retx /\ st.retx[o].sn = s2.retx[j].sn
      BY <1>3 DEF Within
    <3>3. u \in Span(st.retx[o])
      <4>1. CASE o = i
        <5>1. s2.retx[j] = a \/ s2.retx[j] = b
          BY <1>3, <4>1
        <5>2. QED
          BY <1>2, <3>1, <4>1, <5>1
      <4>2. CASE o # i
        BY <1>3, <3>1, <4>2
      <4>3. QED
        BY <4>1, <4>2
    <3>4. QED
      BY <3>1, <3>2, <3>3 DEF RetxUnits
  <2>2. ASSUME NEW sn, NEW u \in RetxUnits(st, sn)
        PROVE  u \in RetxUnits(s2, sn)
    <3>1. PICK j \in DOMAIN st.retx : st.retx[j].sn = sn /\ u \in Span(st.retx[j]) /\ u \in Unit
      BY <2>2 DEF RetxUnits
    <3>2. \E k \in DOMAIN s2.retx : s2.retx[k].sn = sn /\ u \in Span(s2.retx[k])
      <4>1. /\ Len(st.retx) \in Nat /\ DOMAIN s2.retx = 1 .. Len(st.retx) + 1
            /\ j \in 1 .. Len(st.retx) /\ i \in 1 .. Len(st.retx)
        BY <1>1, RetxEntries DEF SplitAt
      <4>2. j \in DOMAIN s2.retx /\ j + 1 \in DOMAIN s2.retx /\ i + 1 \in DOMAIN s2.retx /\ i \in DOMAIN s2.retx
        BY <4>1, SMT
      <4>3. CASE j < i
        BY <3>1, <4>2, <4>3 DEF SplitAt
      <4>4. CASE j > i
        BY <3>1, <4>2, <4>4 DEF SplitAt
      <4>5. CASE j = i
        <5>1. u \in Span(a) \/ u \in Span(b)
          BY <1>2, <3>1, <4>5
        <5>2. a.sn = sn /\ b.sn = sn
          BY <3>1, <4>5 DEF Halves
        <5>3. s2.retx[i] = a /\ s2.retx[i + 1] = b
          BY DEF SplitAt
        <5>4. QED
          BY <4>2, <5>1, <5>2, <5>3
      <4>6. j < i \/ j > i \/ j = i
        BY <4>1, SMT
      <4>7. QED
        BY <4>3, <4>4, <4>5, <4>6
    <3>3. QED
      BY <3>1, <3>2 DEF RetxUnits
  <2>3. \A sn : RetxUnits(s2, sn) \subseteq RetxUnits(st, sn)
    BY <2>1
  <2>4. \A sn : RetxUnits(st, sn) \subseteq RetxUnits(s2, sn)
    BY <2>2
  <2>5. QED
    <3>1. SUFFICES ASSUME NEW sn
                   PROVE  RetxUnits(s2, sn) = RetxUnits(st, sn)
      OBVIOUS
    <3>2. RetxUnits(s2, sn) \subseteq RetxUnits(st, sn) /\ RetxUnits(st, sn) \subseteq RetxUnits(s2, sn)
      BY <2>3, <2>4
    <3>3. QED
      BY <3>2, Zenon
<1>12. \A sn : UnitsAt(s2, sn) = UnitsAt(st, sn)
  BY <1>10, <1>11 DEF UnitsAt
<1>13. Counts(s2)
  BY <1>12 DEF Shape, Counts, Total
<1>14. QED
  BY <1>6, <1>7, <1>8, <1>9, <1>10, <1>12, <1>13 DEF Shape

\* Of a part the peer has all or nothing when it has so of the whole.
LEMMA WholePart ==
    ASSUME NEW x \in Unit, NEW y \in Unit, NEW x2 \in Unit, NEW y2 \in Unit, x <= x2, y2 <= y,
           NEW U, IsWhole(x, y, U)
    PROVE  IsWhole(x2, y2, U)
<1>1. x2 .. y2 \subseteq x .. y
  BY UnitFacts, SMT
<1>2. QED
  BY <1>1 DEF IsWhole

\* A piece is an SN and two units.
LEMMA PieceUnits ==
    ASSUME NEW st \in BufType, NEW p \in Pieces(st)
    PROVE  p[1] \in Sn /\ p[2] \in Unit /\ p[3] \in Unit
BY DEF Pieces

\* Spans one behind the other have no unit in common.
LEMMA SpanApart ==
    ASSUME NEW x \in Unit, NEW y \in Unit, NEW v \in Unit, NEW w \in Unit, y < v \/ w < x
    PROVE  (x .. y) \intersect (v .. w) = {}
BY UnitFacts, SMT

\* An entry of retxLst is apart from everything else that is held.
LEMMA NodeWhole ==
    ASSUME WinOK, NEW st \in BufType, Shape(st), NEW i \in DOMAIN st.retx,
           NEW p \in Pieces(st), p[1] = st.retx[i].sn
    PROVE  IsWhole(p[2], p[3], Span(st.retx[i]))
<1> DEFINE e == st.retx[i]
           x == e.so
           y == e.end
           v == p[2]
           w == p[3]
           sn == p[1]
<1>1. x \in Unit /\ y \in Unit /\ v \in Unit /\ w \in Unit /\ sn \in Sn
  BY RetxEntries, PieceUnits
<1>2. /\ DOMAIN st.retx = 1 .. Len(st.retx) /\ Len(st.retx) \in Nat
      /\ \A j \in DOMAIN st.retx : Dist(st.retx[j].sn) \in Nat
  BY RetxEntries, DistNat DEF WinOK
<1>3. \/ \E j \in DOMAIN st.retx : st.retx[j].sn = sn /\ st.retx[j].so = v /\ st.retx[j].end = w
      \/ \E k \in DOMAIN st.txBuf[sn] : st.txBuf[sn][k].so = v /\ st.txBuf[sn][k].end = w
  BY DEF Pieces
<1>4. CASE \E j \in DOMAIN st.retx : st.retx[j].sn = sn /\ st.retx[j].so = v /\ st.retx[j].end = w
  <2>1. PICK j \in DOMAIN st.retx : st.retx[j].sn = sn /\ st.retx[j].so = v /\ st.retx[j].end = w
    BY <1>4
  <2>2. j < i \/ j = i \/ i < j
    BY <1>2, SMT
  <2>3. CASE j = i
    <3>1. v .. w = x .. y
      BY <2>1, <2>3
    <3>2. QED
      BY <3>1, Zenon DEF IsWhole, Span
  <2>4. CASE j # i
    <3>1. Before(st.retx[j], st.retx[i]) \/ Before(st.retx[i], st.retx[j])
      BY <2>1, <2>2, <2>4 DEF Shape, RetxOrder
    <3>2. ~(Dist(sn) < Dist(sn)) /\ e.sn = sn
      BY <1>2, <2>1, SMT
    <3>3. w < x \/ y < v
      BY <2>1, <3>1, <3>2 DEF Before
    <3> HIDE DEF x, y, v, w
    <3>4. (v .. w) \intersect (x .. y) = {}
      BY <1>1, <3>3, SpanApart
    <3>5. QED
      BY <3>4 DEF IsWhole, Span, x, y, v, w
  <2>5. QED
    BY <2>3, <2>4
<1>5. CASE \E k \in DOMAIN st.txBuf[sn] : st.txBuf[sn][k].so = v /\ st.txBuf[sn][k].end = w
  <2>1. PICK k \in DOMAIN st.txBuf[sn] : st.txBuf[sn][k].so = v /\ st.txBuf[sn][k].end = w
    BY <1>5, Zenon
  <2>2. y < v
    BY <2>1 DEF Shape, RetxBelowTx
  <2> HIDE DEF x, y, v, w
  <2>3. (v .. w) \intersect (x .. y) = {}
    BY <1>1, <2>2, SpanApart
  <2>4. QED
    BY <2>3 DEF IsWhole, Span, x, y, v, w
<1>6. QED
  BY <1>3, <1>4, <1>5, Zenon

\* Every piece of the new list is one of the old list or a part of one.
LEMMA SplitPieces ==
    ASSUME NEW st \in BufType, NEW i \in DOMAIN st.retx,
           NEW a, NEW b, Halves(st.retx[i], a, b),
           NEW s2 \in BufType, s2.txBuf = st.txBuf, SplitAt(st.retx, s2.retx, i, a, b),
           NEW p \in Pieces(s2)
    PROVE  \E q \in Pieces(st) : q[1] = p[1] /\ q[2] <= p[2] /\ p[3] <= q[3]
<1>1. /\ p \in Sn \X Unit \X Unit
      /\ \/ \E j \in DOMAIN s2.retx : s2.retx[j].sn = p[1] /\ s2.retx[j].so = p[2] /\ s2.retx[j].end = p[3]
         \/ \E k \in DOMAIN s2.txBuf[p[1]] : s2.txBuf[p[1]][k].so = p[2] /\ s2.txBuf[p[1]][k].end = p[3]
  BY DEF Pieces
<1>2. CASE \E j \in DOMAIN s2.retx : s2.retx[j].sn = p[1] /\ s2.retx[j].so = p[2] /\ s2.retx[j].end = p[3]
  <2>1. PICK j \in DOMAIN s2.retx : s2.retx[j].sn = p[1] /\ s2.retx[j].so = p[2] /\ s2.retx[j].end = p[3]
    BY <1>2
  <2>2. st.retx[i] \in RetxType
    BY RetxEntries
  <2>3. Within(a, st.retx[i]) /\ Within(b, st.retx[i]) /\ a \in RetxType /\ b \in RetxType
    BY <2>2, HalvesWithin
  <2> DEFINE o == OldIndex(i, j)
  <2>4. o \in DOMAIN st.retx /\ Within(s2.retx[j], st.retx[o])
    BY <2>3, SplitFrom
  <2> HIDE DEF o
  <2> DEFINE q == <<st.retx[o].sn, st.retx[o].so, st.retx[o].end>>
  <2>5. q \in Pieces(st)
    <3>1. st.retx[o].sn \in Sn /\ st.retx[o].so \in Unit /\ st.retx[o].end \in Unit
      BY <2>4, RetxEntries
    <3>2. QED
      BY <2>4, <3>1, Zenon DEF Pieces
  <2>6. q[1] = p[1] /\ q[2] <= p[2] /\ p[3] <= q[3]
    BY <2>1, <2>4 DEF Within
  <2>7. QED
    BY <2>5, <2>6
<1>3. CASE \E k \in DOMAIN s2.txBuf[p[1]] : s2.txBuf[p[1]][k].so = p[2] /\ s2.txBuf[p[1]][k].end = p[3]
  <2>1. p \in Pieces(st)
    BY <1>1, <1>3 DEF Pieces
  <2>2. p[2] <= p[2] /\ p[3] <= p[3]
    BY <1>1, UnitOrder
  <2>3. QED
    BY <2>1, <2>2
<1>4. QED
  BY <1>1, <1>2, <1>3

\* Cutting an entry in two keeps every piece a part of what was transmitted.
LEMMA SplitWhole ==
    ASSUME NEW st \in BufType, NEW i \in DOMAIN st.retx,
           NEW a, NEW b, Halves(st.retx[i], a, b),
           NEW s2 \in BufType, s2.txBuf = st.txBuf, SplitAt(st.retx, s2.retx, i, a, b),
           Laminar(st), GotWhole(st)
    PROVE  Laminar(s2) /\ GotWhole(s2)
<1>1. SUFFICES ASSUME NEW p \in Pieces(s2), NEW U,
                      \A q \in Pieces(st) : q[1] = p[1] => IsWhole(q[2], q[3], U)
               PROVE  IsWhole(p[2], p[3], U)
  BY DEF Laminar, GotWhole, Wholes
<1>2. PICK q \in Pieces(st) : q[1] = p[1] /\ q[2] <= p[2] /\ p[3] <= q[3]
  BY SplitPieces, Zenon
<1>3. p[2] \in Unit /\ p[3] \in Unit /\ q[2] \in Unit /\ q[3] \in Unit
  BY PieceUnits
<1>4. IsWhole(q[2], q[3], U)
  BY <1>1, <1>2
<1>5. QED
  BY <1>2, <1>3, <1>4, WholePart

\* rlcAmmDlCheckAndSetPoll keeps the types of the poll's state.
LEMMA PollType ==
    ASSUME TypeOK, txNext' \in Sn, NEW newPdu \in BOOLEAN, NEW null,
           \/ CheckAndSetPoll(newPdu, null) \/ UNCHANGED pollVars
    PROVE  pollSn' \in Sn /\ pduWoPoll' \in 0 .. (PollPdu - 1) /\ pollRetxTmr' \in BOOLEAN
<1>1. pollSn \in Sn /\ pduWoPoll \in 0 .. (PollPdu - 1) /\ pollRetxTmr \in BOOLEAN
  BY DEF TypeOK
<1>2. CASE UNCHANGED pollVars
  BY <1>1, <1>2 DEF pollVars
<1>3. CASE CheckAndSetPoll(newPdu, null)
  <2>1. PICK bit : /\ bit \in BOOLEAN
                   /\ pduWoPoll' = IF bit THEN 0 ELSE IF newPdu THEN pduWoPoll + 1 ELSE pduWoPoll
                   /\ pollSn' = IF bit THEN AddSn(txNext', SnMod - 1) ELSE pollSn
                   /\ pollRetxTmr' = (pollRetxTmr \/ bit)
                   /\ newPdu /\ pduWoPoll + 1 >= PollPdu => bit
    <3> DEFINE woPoll == IF newPdu THEN pduWoPoll + 1 ELSE pduWoPoll
               bit == \/ (newPdu /\ woPoll >= PollPdu)
                      \/ (null /\ nxtRetx' = NoRetx)
                      \/ WinStalledAt(txNext', txNextAck)
    <3>1. bit \in BOOLEAN
      OBVIOUS
    <3>2. /\ pduWoPoll' = IF bit THEN 0 ELSE woPoll
          /\ pollSn' = IF bit THEN AddSn(txNext', SnMod - 1) ELSE pollSn
          /\ pollRetxTmr' = (pollRetxTmr \/ bit)
      BY <1>3, Zenon DEF CheckAndSetPoll
    <3>3. newPdu /\ pduWoPoll + 1 >= PollPdu => bit
      OBVIOUS
    <3> HIDE DEF bit
    <3>4. QED
      BY <3>1, <3>2, <3>3
  <2>2. AddSn(txNext', SnMod - 1) \in Sn
    <3>1. SnMod - 1 \in 0 .. SnMod
      BY WinSzAssumption, SMT DEF SnMod
    <3> DEFINE x == txNext'
               k == SnMod - 1
    <3>2. x \in Sn /\ k \in 0 .. SnMod
      BY <3>1
    <3> HIDE DEF x, k
    <3>3. AddSn(x, k) \in Sn
      BY <3>2, AddSnType
    <3>4. QED
      BY <3>3 DEF x, k
  <2>3. pduWoPoll' \in 0 .. (PollPdu - 1)
    BY <1>1, <2>1, PollPduAssumption, SMT
  <2>4. QED
    BY <1>1, <2>1, <2>2, <2>3
<1>4. QED
  BY <1>2, <1>3

\* What ResegRetxPdu makes of the buffers, in the state.
LEMMA ResegStores ==
    ASSUME IInv, TypeOK', UNCHANGED <<txNext, txNextAck, segOff, peerNext, got>>,
           NEW st, st = Buffers, NEW s2, s2 = Buffers', Shape(s2), s2.max = st.max, s2.txBuf = st.txBuf,
           \A sn : TxUnits(s2, sn) = TxUnits(st, sn) /\ UnitsAt(s2, sn) = UnitsAt(st, sn),
           Laminar(s2), GotWhole(s2), Reached(s2),
           NEW i \in DOMAIN s2.retx, NEW c, chan' = chan \union {c},
           c.sn = s2.retx[i].sn, c.so = s2.retx[i].so, c.end = s2.retx[i].end
    PROVE  IInv'
<1>1. s2 \in BufType
  <2>1. (TypeOK => WinOK /\ PeerOK /\ Buffers \in BufType)'
    BY Stated, PTL
  <2>2. QED
    BY <2>1
<1>2. TypeOK /\ WinOK
  BY Stated DEF IInv
<1>3. Full(st) /\ Arrived(st) /\ PeerInv
  BY DEF IInv, StInv
<1>4. Full(s2) /\ Arrived(s2)
  BY <1>3 DEF Full, Arrived
<1>5. /\ c.so <= c.end /\ c.so \in Unit /\ c.end \in Unit /\ c.sn \in Sn
      /\ Dist(c.sn) < Dist(txNext)
  BY <1>1, RetxEntries DEF Shape, RetxOrder, InWin
<1>6. Span(c) \subseteq SentUnits(c.sn)
  BY <1>5, SpanFacts DEF SentUnits
<1>7. \A d \in chan' : d \in chan \/ (d.so <= d.end /\ Span(d) \subseteq SentUnits(d.sn))
  BY <1>5, <1>6
<1>8. Laminar(s2)'
  <2>1. SUFFICES ASSUME NEW p \in Pieces(s2), NEW d \in chan', d.sn = p[1]
                 PROVE  IsWhole(p[2], p[3], Span(d))
    BY DEF Laminar
  <2>2. CASE d \in chan
    BY <2>1, <2>2 DEF Laminar
  <2>3. CASE d = c
    <3>1. IsWhole(p[2], p[3], Span(s2.retx[i]))
      BY <1>1, <1>2, <2>1, <2>3, NodeWhole
    <3>2. Span(d) = Span(s2.retx[i])
      BY <2>3 DEF Span
    <3>3. QED
      BY <3>1, <3>2
  <2>4. QED
    BY <2>2, <2>3
<1>9. QED
  BY <1>3, <1>4, <1>7, <1>8, BufferStep

\* What lies before the entry that is retransmitted does not wait.
LEMMA FirstPending ==
    ASSUME NEW st \in BufType, Linked(st), NEW i \in DOMAIN st.retx, Ptr(st.retx[i]) = st.nxt,
           \A j \in DOMAIN st.retx : Ptr(st.retx[j]) = st.nxt => i <= j
    PROVE  \A j \in DOMAIN st.retx : j < i => ~st.retx[j].pendingReTrans
<1>1. DOMAIN st.retx = 1 .. Len(st.retx) /\ Len(st.retx) \in Nat
  BY RetxEntries
<1>2. CASE st.nxt = NoRetx
  BY <1>2, RetxEntries, MarkedFacts
<1>3. CASE \E k \in DOMAIN st.retx :
               /\ Ptr(st.retx[k]) = st.nxt
               /\ \A j \in DOMAIN st.retx : j < k => ~st.retx[j].pendingReTrans
  <2>1. PICK k \in DOMAIN st.retx :
               /\ Ptr(st.retx[k]) = st.nxt
               /\ \A j \in DOMAIN st.retx : j < k => ~st.retx[j].pendingReTrans
    BY <1>3
  <2>2. \A j \in DOMAIN st.retx : j < i => j < k
    BY <1>1, <2>1, SMT
  <2>3. QED
    BY <2>1, <2>2
<1>4. QED
  BY <1>2, <1>3 DEF Linked

\* Where a grant of n units cuts an entry.
LEMMA ResegCut ==
    ASSUME NEW r \in RetxType, r.so <= r.end, NEW n \in 1 .. SduLen, n <= Size(r),
           NEW cut, cut = r.so + n - 1
    PROVE  /\ cut \in Unit /\ r.so <= cut /\ cut <= r.end
           /\ n = Size(r) => cut = r.end
           /\ n # Size(r) => cut < r.end /\ cut + 1 \in Unit /\ cut < cut + 1 /\ cut + 1 <= r.end
           /\ \A u \in Unit : u <= cut \/ cut + 1 <= u
<1> DEFINE x == r.so
           y == r.end
<1>1. x \in Unit /\ y \in Unit /\ x <= y /\ n <= y - x + 1 /\ Size(r) = y - x + 1 /\ cut = x + n - 1
  BY DEF RetxType, Size
<1> HIDE DEF x, y
<1>2. cut \in Unit /\ x <= cut /\ cut <= y /\ (n = y - x + 1 => cut = y)
  BY <1>1, UnitFacts, SMT
<1>3. n # y - x + 1 => cut < y /\ cut + 1 \in Unit /\ cut < cut + 1 /\ cut + 1 <= y
  BY <1>1, UnitFacts, SMT
<1>4. \A u \in Unit : u <= cut \/ cut + 1 <= u
  BY <1>2, UnitFacts, SMT
<1>5. QED
  BY <1>1, <1>2, <1>3, <1>4 DEF x, y

\* Lists with the same pieces hold the same units.
LEMMA SameShapeUnits ==
    ASSUME NEW st, NEW s2, SameShape(st.retx, s2.retx), s2.txBuf = st.txBuf
    PROVE  \A sn : TxUnits(s2, sn) = TxUnits(st, sn) /\ UnitsAt(s2, sn) = UnitsAt(st, sn)
<1>1. \A sn : TxUnits(s2, sn) = TxUnits(st, sn)
  BY DEF TxUnits
<1>2. \A sn : RetxUnits(s2, sn) = RetxUnits(st, sn)
  <2>1. SUFFICES ASSUME NEW sn
                 PROVE  RetxUnits(s2, sn) = RetxUnits(st, sn)
    OBVIOUS
  <2>2. \A u \in Unit : (\E i \in DOMAIN s2.retx : s2.retx[i].sn = sn /\ u \in Span(s2.retx[i]))
                        <=> (\E i \in DOMAIN st.retx : st.retx[i].sn = sn /\ u \in Span(st.retx[i]))
    BY DEF SameShape, Span
  <2>3. QED
    BY <2>2 DEF RetxUnits
<1>3. QED
  BY <1>1, <1>2 DEF UnitsAt

\* The next entry behind i that waits.
NextWaiting(lst, i) == SelectInSubSeq(lst, i + 1, Len(lst), LAMBDA t : t.pendingReTrans)

\* NextWaiting is 0 or the first entry behind i that waits.
LEMMA NextPending ==
    ASSUME NEW lst \in Seq(RetxType), NEW i \in DOMAIN lst, NEW l, l = NextWaiting(lst, i)
    PROVE  /\ l = 0 \/ (l \in DOMAIN lst /\ i < l)
           /\ \A j \in DOMAIN lst : i < j /\ (l = 0 \/ j < l) => ~lst[j].pendingReTrans
<1> DEFINE I == {j \in i + 1 .. Len(lst) : lst[j].pendingReTrans}
<1>1. l = IF I # {} THEN Min(I) ELSE 0
  BY DEF NextWaiting, SelectInSubSeq
<1>2. Len(lst) \in Nat /\ DOMAIN lst = 1 .. Len(lst)
  BY LenProperties
<1>3. I \in SUBSET Nat
  BY <1>2, SMT
<1>4. CASE I = {}
  <2>1. \A j \in DOMAIN lst : i < j => j \in i + 1 .. Len(lst)
    BY <1>2, SMT
  <2>2. QED
    BY <1>1, <1>4, <2>1
<1>5. CASE I # {}
  <2>1. l \in I /\ \A y \in I : l <= y
    BY <1>1, <1>3, <1>5, MinOfNaturals, Zenon
  <2>2. l \in DOMAIN lst /\ i < l /\ l # 0
    BY <1>2, <2>1, SMT
  <2>3. \A j \in DOMAIN lst : i < j /\ j < l => j \in i + 1 .. Len(lst) /\ ~(l <= j)
    BY <1>2, <2>2, SMT
  <2>4. QED
    BY <2>1, <2>2, <2>3
<1>6. QED
  BY <1>4, <1>5

\* rlcResegRetxPdus with room for the whole entry: it waits no more, and nxtRetx
\* goes to the next one that does.
LEMMA ResegWhole ==
    ASSUME WinOK, NEW st \in BufType, Shape(st), Laminar(st), GotWhole(st), Reached(st),
           NEW i \in DOMAIN st.retx, Ptr(st.retx[i]) = st.nxt,
           \A j \in DOMAIN st.retx : Ptr(st.retx[j]) = st.nxt => i <= j,
           NEW l, l = NextWaiting(st.retx, i),
           NEW s2 \in BufType, s2.txBuf = st.txBuf, s2.rcvd = st.rcvd, s2.max = st.max,
           maxReTxReached => st.max,
           NEW a, a.sn = st.retx[i].sn, a.so = st.retx[i].so, a.end = st.retx[i].end, ~a.pendingReTrans,
           DOMAIN s2.retx = DOMAIN st.retx, s2.retx[i] = a,
           \A j \in DOMAIN st.retx : j # i => s2.retx[j] = st.retx[j],
           s2.nxt = PtrAt(st.retx, l)
    PROVE  /\ Shape(s2) /\ Laminar(s2) /\ GotWhole(s2) /\ Reached(s2)
           /\ \A sn : TxUnits(s2, sn) = TxUnits(st, sn) /\ UnitsAt(s2, sn) = UnitsAt(st, sn)
           /\ i \in DOMAIN s2.retx /\ s2.retx[i].sn = st.retx[i].sn /\ s2.retx[i].so = st.retx[i].so
           /\ s2.retx[i].end = st.retx[i].end
<1>1. DOMAIN st.retx = 1 .. Len(st.retx) /\ Len(st.retx) \in Nat /\ st.retx \in Seq(RetxType)
  BY RetxEntries, BufFields
<1>5. SameShape(st.retx, s2.retx)
  BY DEF SameShape
<1>6. \A sn : TxUnits(s2, sn) = TxUnits(st, sn) /\ UnitsAt(s2, sn) = UnitsAt(st, sn)
  BY <1>5, SameShapeUnits
<1>7. PICK P : P = Pieces(st)
  OBVIOUS
<1>8. PICK M : M = [sn \in Sn |-> {}]
  BY Zenon
<1>9. Keeps(M, st)
  BY <1>8 DEF Keeps
<1>10. Good(P, M, st)
  BY <1>7, <1>9, GoodShape
<1>11. Good(P, M, s2)
  BY <1>5, <1>10, SameShapeGood
<1>12. Shape(s2) /\ Pieces(s2) \subseteq Pieces(st)
  BY <1>7, <1>11, GoodShape
<1>13. Laminar(s2) /\ GotWhole(s2)
  BY <1>12 DEF Laminar, GotWhole, Wholes
<1>14. /\ l = 0 \/ (l \in DOMAIN st.retx /\ i < l)
       /\ \A j \in DOMAIN st.retx : i < j /\ (l = 0 \/ j < l) => ~st.retx[j].pendingReTrans
  BY <1>1, NextPending
<1>15. ASSUME ~s2.max
       PROVE  Linked(s2)
  <2>1. \A j \in DOMAIN st.retx : j < i => ~st.retx[j].pendingReTrans
    BY <1>15, FirstPending DEF Reached
  <2>2. \A j \in DOMAIN st.retx : j < i \/ j = i \/ i < j
    BY <1>1, SMT
  <2>3. \A j \in DOMAIN st.retx : l = 0 \/ j < l => ~s2.retx[j].pendingReTrans
    BY <1>14, <2>1, <2>2
  <2>4. CASE l = 0
    <3>1. ~(0 \in DOMAIN st.retx)
      BY <1>1, SMT
    <3>2. s2.nxt = NoRetx
      BY <2>4, <3>1 DEF PtrAt
    <3>3. QED
      BY <2>3, <2>4, <3>2 DEF Linked
  <2>5. CASE l # 0
    <3>1. l \in DOMAIN s2.retx /\ s2.nxt = Ptr(st.retx[l]) /\ l # i
      BY <1>1, <1>14, <2>5, SMT DEF PtrAt
    <3>2. Ptr(s2.retx[l]) = s2.nxt
      BY <3>1
    <3>3. QED
      BY <2>3, <3>1, <3>2 DEF Linked
  <2>6. QED
    BY <2>4, <2>5
<1>16. QED
  BY <1>6, <1>12, <1>13, <1>15 DEF Reached

\* rlcResegRetxPdus with room for its first part: the rest is an entry of its
\* own, waits, and is what nxtRetx points to.
LEMMA ResegSplit ==
    ASSUME WinOK, NEW st \in BufType, Shape(st), Laminar(st), GotWhole(st), Reached(st),
           NEW i \in DOMAIN st.retx, Ptr(st.retx[i]) = st.nxt,
           \A j \in DOMAIN st.retx : Ptr(st.retx[j]) = st.nxt => i <= j,
           NEW a, NEW b, Halves(st.retx[i], a, b), ~a.pendingReTrans,
           NEW s2 \in BufType, s2.txBuf = st.txBuf, s2.rcvd = st.rcvd, s2.max = st.max,
           SplitAt(st.retx, s2.retx, i, a, b), s2.nxt = Ptr(b)
    PROVE  /\ Shape(s2) /\ Laminar(s2) /\ GotWhole(s2) /\ Reached(s2)
           /\ \A sn : TxUnits(s2, sn) = TxUnits(st, sn) /\ UnitsAt(s2, sn) = UnitsAt(st, sn)
           /\ i \in DOMAIN s2.retx /\ s2.retx[i] = a
<1>1. /\ Shape(s2) /\ \A sn : TxUnits(s2, sn) = TxUnits(st, sn) /\ UnitsAt(s2, sn) = UnitsAt(st, sn)
  BY SplitShape, Zenon
<1>2. Laminar(s2) /\ GotWhole(s2)
  BY SplitWhole, Zenon
<1> DEFINE m == i + 1
<1>3. /\ i \in DOMAIN s2.retx /\ m \in DOMAIN s2.retx /\ s2.retx[i] = a /\ s2.retx[m] = b
      /\ \A j \in DOMAIN s2.retx : j < m => j < i \/ j = i
      /\ \A j \in DOMAIN s2.retx : j < i => j \in DOMAIN st.retx /\ s2.retx[j] = st.retx[j]
  <2>1. /\ DOMAIN st.retx = 1 .. Len(st.retx) /\ Len(st.retx) \in Nat /\ DOMAIN s2.retx = 1 .. Len(st.retx) + 1
    BY RetxEntries DEF SplitAt
  <2>2. i \in DOMAIN s2.retx /\ m \in DOMAIN s2.retx /\ \A j \in DOMAIN s2.retx : j < m => j < i \/ j = i
    BY <2>1, SMT
  <2>3. QED
    BY <2>2 DEF SplitAt
<1> HIDE DEF m
<1>4. ASSUME ~s2.max
      PROVE  Linked(s2)
  <2>1. \A j \in DOMAIN st.retx : j < i => ~st.retx[j].pendingReTrans
    BY <1>4, FirstPending DEF Reached
  <2>2. \A j \in DOMAIN s2.retx : j < m => ~s2.retx[j].pendingReTrans
    BY <1>3, <2>1
  <2>3. Ptr(s2.retx[m]) = s2.nxt
    BY <1>3
  <2>4. QED
    BY <1>3, <2>2, <2>3 DEF Linked
<1>5. QED
  BY <1>1, <1>2, <1>3, <1>4 DEF Reached

\* A grant for retransmission keeps the invariant.
LEMMA ResegRetxPduSound ==
    ASSUME IInv, NEW n \in 1 .. SduLen, ResegRetxPdu(n)
    PROVE  IInv'
<1>1. TypeOK /\ WinOK /\ Buffers \in BufType /\ retxLst \in Seq(RetxType)
  BY Stated DEF IInv, TypeOK, RetxType
<1>2. PICK i : i = IndexOfPtr(nxtRetx)
  OBVIOUS
<1>3. /\ i \in DOMAIN retxLst /\ Ptr(retxLst[i]) = nxtRetx
      /\ \A j \in DOMAIN retxLst : Ptr(retxLst[j]) = nxtRetx => i <= j
  BY <1>1, <1>2, IndexPlace DEF ResegRetxPdu
<1>4. PICK r : r = retxLst[i]
  OBVIOUS
<1>5. PICK cut : cut = r.so + n - 1
  OBVIOUS
<1>6. PICK st : st = Buffers
  OBVIOUS
<1>7. PICK s2 : s2 = Buffers'
  OBVIOUS
<1>8. /\ st.txBuf = txBuf /\ st.retx = retxLst /\ st.rcvd = rcvdSz /\ st.max = maxReTxReached
      /\ st.nxt = nxtRetx /\ st \in BufType
  BY <1>1, <1>6, BuffersFields
<1>9. /\ s2.txBuf = txBuf' /\ s2.retx = retxLst' /\ s2.rcvd = rcvdSz' /\ s2.max = maxReTxReached'
      /\ s2.nxt = nxtRetx'
  BY <1>7 DEF Buffers
<1>10. Shape(st) /\ Laminar(st) /\ GotWhole(st) /\ Reached(st)
  BY <1>6 DEF IInv, StInv
<1>11. r \in RetxType /\ r.so <= r.end /\ r.sn \in Sn
  BY <1>3, <1>4, <1>8, <1>10, RetxEntries DEF Shape, RetxOrder
<1>12. n <= Size(r)
  BY <1>2, <1>4, Zenon DEF ResegRetxPdu
<1>13. /\ cut \in Unit /\ r.so <= cut /\ cut <= r.end
       /\ n = Size(r) => cut = r.end
       /\ n # Size(r) => cut < r.end /\ cut + 1 \in Unit /\ cut < cut + 1 /\ cut + 1 <= r.end
       /\ \A u \in Unit : u <= cut \/ cut + 1 <= u
  BY <1>5, <1>11, <1>12, ResegCut
<1> DEFINE a == [r EXCEPT !.end = cut, !.pendingReTrans = FALSE]
           b == [r EXCEPT !.so = cut + 1]
           lst == [retxLst EXCEPT ![i] = a]
           c == [sn |-> r.sn, so |-> r.so, end |-> cut]
           l == SelectInSubSeq(retxLst, i + 1, Len(retxLst), LAMBDA t : t.pendingReTrans)
<1>14. /\ UNCHANGED <<txNextAck, sduVars, txBuf, errVars, peerVars, txNext>>
       /\ chan' = chan \union {c}
       /\ ReportBo(bo, retxBo - n)
       /\ IF n = Size(r)
          THEN /\ retxLst' = lst /\ nxtRetx' = PtrAt(retxLst, l)
               /\ CheckAndSetPoll(FALSE, queued = 0)
          ELSE /\ retxLst' = InsertAt(lst, i + 1, b)
               /\ nxtRetx' = <<r.sn, cut + 1>>
               /\ UNCHANGED pollVars
  <2>1. [retxLst EXCEPT ![i].end = cut, ![i].pendingReTrans = FALSE] = lst
    BY <1>3, <1>4, Zenon
  <2>2. QED
    BY <1>2, <1>4, <1>5, <2>1, Zenon DEF ResegRetxPdu, Transmit
<1>15. /\ a \in RetxType /\ a.sn = r.sn /\ a.so = r.so /\ a.end = cut /\ a.pendingReTrans = FALSE
       /\ n # Size(r) => b \in RetxType /\ b.sn = r.sn /\ b.so = cut + 1 /\ b.end = r.end
  BY <1>11, <1>13, Zenon DEF RetxType
<1>16. lst \in Seq(RetxType)
  BY <1>1, <1>3, <1>15, ExceptSeq
<1>17. retxLst' \in Seq(RetxType) /\ nxtRetx' \in PtrType
  <2>1. CASE n = Size(r)
    <3>1. PtrAt(retxLst, l) \in PtrType
      <4>1. CASE l \in DOMAIN retxLst
        <5>1. retxLst[l] \in RetxType
          BY <1>8, <4>1, RetxEntries
        <5>2. Ptr(retxLst[l]) \in PtrType
          BY <5>1, MarkedFacts
        <5>3. QED
          BY <4>1, <5>2 DEF PtrAt
      <4>2. CASE l \notin DOMAIN retxLst
        BY <4>2 DEF PtrAt, PtrType
      <4>3. QED
        BY <4>1, <4>2
    <3> HIDE DEF lst, l
    <3>2. QED
      BY <1>14, <1>16, <2>1, <3>1
  <2>2. CASE n # Size(r)
    <3>1. InsertAt(lst, i + 1, b) \in Seq(RetxType)
      BY <1>1, <1>3, <1>15, <2>2, SplitList, Zenon
    <3>2. <<r.sn, cut + 1>> \in PtrType
      BY <1>11, <1>13, <2>2 DEF PtrType
    <3> HIDE DEF lst
    <3>3. QED
      BY <1>14, <2>2, <3>1, <3>2
  <2>3. QED
    BY <2>1, <2>2
<1>18. c \in [sn : Sn, so : Unit, end : Unit]
  BY <1>11, <1>13 DEF RetxType
<1>19. /\ UNCHANGED <<txNext, txNextAck, queued, segOff, rcvdSz, txBuf, maxReTxReached, undef, peerNext, got>>
  BY <1>14 DEF sduVars, errVars, peerVars
<1>20. TypeOK'
  <2>1. pollSn' \in Sn /\ pduWoPoll' \in 0 .. (PollPdu - 1) /\ pollRetxTmr' \in BOOLEAN
    <3>1. txNext' \in Sn
      BY <1>19 DEF IInv, TypeOK
    <3>2. PICK q : q = (queued = 0)
      OBVIOUS
    <3>3. CheckAndSetPoll(FALSE, q) \/ UNCHANGED pollVars
      BY <1>14, <3>2, Zenon
    <3>4. QED
      BY <1>1, <3>1, <3>3, PollType, Zenon
  <2>2. bo' \in Int /\ retxBo' \in Int
    <3>1. retxBo \in Int /\ bo \in Int
      BY <1>1 DEF TypeOK
    <3>2. retxBo - n \in Int
      BY <3>1, SMT
    <3>3. QED
      BY <1>14, <3>1, <3>2, NonNegInt DEF ReportBo
  <2>3. chan' \subseteq [sn : Sn, so : Unit, end : Unit]
    BY <1>1, <1>14, <1>18 DEF TypeOK
  <2>4. nxtRetx' = NoRetx \/ nxtRetx' \in Sn \X Unit
    BY <1>17 DEF PtrType
  <2> HIDE DEF c
  <2>5. QED
    BY <1>1, <1>17, <1>19, <2>1, <2>2, <2>3, <2>4 DEF TypeOK, RetxType
<1>21. s2 \in BufType
  <2>1. (TypeOK => WinOK /\ PeerOK /\ Buffers \in BufType)'
    BY Stated, PTL
  <2>2. QED
    BY <1>7, <1>20, <2>1
<1>22. s2.txBuf = st.txBuf /\ s2.rcvd = st.rcvd /\ s2.max = st.max /\ (maxReTxReached => st.max)
  BY <1>8, <1>9, <1>19
<1>23. /\ Shape(s2) /\ Laminar(s2) /\ GotWhole(s2) /\ Reached(s2)
       /\ \A sn : TxUnits(s2, sn) = TxUnits(st, sn) /\ UnitsAt(s2, sn) = UnitsAt(st, sn)
       /\ i \in DOMAIN s2.retx /\ s2.retx[i].sn = c.sn /\ s2.retx[i].so = c.so /\ s2.retx[i].end = c.end
  <2>1. CASE n = Size(r)
    <3>2. /\ DOMAIN s2.retx = DOMAIN st.retx /\ s2.retx[i] = a
          /\ \A j \in DOMAIN st.retx : j # i => s2.retx[j] = st.retx[j]
      BY <1>3, <1>4, <1>8, <1>9, <1>14, <2>1
    <3>9. a.sn = st.retx[i].sn /\ a.so = st.retx[i].so /\ a.end = st.retx[i].end /\ ~a.pendingReTrans
      BY <1>4, <1>8, <1>13, <1>15, <2>1
    <3>3. PICK lx : lx = NextWaiting(st.retx, i)
      OBVIOUS
    <3>4. s2.nxt = PtrAt(st.retx, lx)
      BY <1>8, <1>9, <1>14, <2>1, <3>3 DEF NextWaiting
    <3> HIDE DEF a, b, lst, l
    <3>5. /\ i \in DOMAIN st.retx /\ Ptr(st.retx[i]) = st.nxt
          /\ \A j \in DOMAIN st.retx : Ptr(st.retx[j]) = st.nxt => i <= j
      BY <1>3, <1>8
    <3>6. /\ Shape(s2) /\ Laminar(s2) /\ GotWhole(s2) /\ Reached(s2)
          /\ \A sn : TxUnits(s2, sn) = TxUnits(st, sn) /\ UnitsAt(s2, sn) = UnitsAt(st, sn)
          /\ i \in DOMAIN s2.retx /\ s2.retx[i].sn = st.retx[i].sn /\ s2.retx[i].so = st.retx[i].so
          /\ s2.retx[i].end = st.retx[i].end
      BY <1>1, <1>8, <1>10, <1>21, <1>22, <3>2, <3>3, <3>4, <3>5, <3>9, ResegWhole
    <3>7. st.retx[i] = r /\ c.sn = r.sn /\ c.so = r.so /\ c.end = cut /\ cut = r.end
      BY <1>4, <1>8, <1>13, <2>1
    <3>8. QED
      BY <3>6, <3>7
  <2>2. CASE n # Size(r)
    <3>1. SplitAt(retxLst, retxLst', i, a, b)
      <4>1. retxLst' = InsertAt([retxLst EXCEPT ![i] = a], i + 1, b)
        BY <1>14, <2>2
      <4>2. SplitAt(retxLst, InsertAt([retxLst EXCEPT ![i] = a], i + 1, b), i, a, b)
        BY <1>1, <1>3, <1>15, <2>2, SplitList, Zenon
      <4>3. QED
        BY <4>1, <4>2
    <3>2. Halves(r, a, b)
      <4> HIDE DEF a, b
      <4>1. QED
        BY <1>13, <1>15, <2>2 DEF Halves
    <3>3. s2.nxt = Ptr(b)
      BY <1>9, <1>14, <1>15, <2>2 DEF Ptr
    <3>4. c.sn = a.sn /\ c.so = a.so /\ c.end = a.end /\ ~a.pendingReTrans
      BY <1>15
    <3> HIDE DEF a, b, lst, l, c
    <3>5. /\ i \in DOMAIN st.retx /\ Ptr(st.retx[i]) = st.nxt
          /\ \A j \in DOMAIN st.retx : Ptr(st.retx[j]) = st.nxt => i <= j
          /\ Halves(st.retx[i], a, b) /\ SplitAt(st.retx, s2.retx, i, a, b)
      BY <1>3, <1>4, <1>8, <1>9, <3>1, <3>2
    <3>6. /\ Shape(s2) /\ Laminar(s2) /\ GotWhole(s2) /\ Reached(s2)
          /\ \A sn : TxUnits(s2, sn) = TxUnits(st, sn) /\ UnitsAt(s2, sn) = UnitsAt(st, sn)
          /\ i \in DOMAIN s2.retx /\ s2.retx[i] = a
      BY <1>1, <1>8, <1>10, <1>21, <1>22, <3>3, <3>4, <3>5, ResegSplit
    <3>7. QED
      BY <3>4, <3>6
  <2>3. QED
    BY <2>1, <2>2
<1> HIDE DEF a, b, lst, l
<1>24. PICK cc : cc = c
  BY Zenon
<1> HIDE DEF c
<1>25. QED
  BY <1>6, <1>7, <1>14, <1>19, <1>20, <1>22, <1>23, <1>24, ResegStores

-----------------------------------------------------------------------------
(* A grant for new data: rlcAssembleSdus.                                  *)

\* AssembleSdu: what has been transmitted of which SDU, before and after.
LEMMA AssembleWindow ==
    ASSUME WinOK, Dist(txNext) <= WinSz, NEW n \in 1 .. SduLen, AssembleSdu(n),
           NEW e, e = segOff + n - 1, NEW sn, sn = txNext
    PROVE  /\ e \in Unit /\ segOff \in Unit /\ segOff <= e /\ sn \in Sn
           /\ txNext' \in Sn /\ segOff' \in Unit /\ txNextAck' = txNextAck
           /\ \A t : Dist(t)' = Dist(t)
           /\ Dist(txNext)' <= WinSz /\ (segOff' > 0 => Dist(txNext)' < WinSz)
           /\ Dist(txNext) <= Dist(txNext)'
           /\ Dist(sn)' < Dist(txNext)' \/ (sn = txNext' /\ e < segOff' /\ segOff' > 0)
           /\ SentUnits(sn) = 0 .. segOff - 1 /\ SentUnits(sn)' = 0 .. e
           /\ \A t \in Sn : t # sn => SentUnits(t)' = SentUnits(t)
           /\ \A t \in Sn : t # sn => UnsentUnits(t)' = {} /\ UnsentUnits(t) = {}
           /\ UnsentUnits(sn)' = e + 1 .. LastUnit
<1> DEFINE d == Dist(txNext)
           d2 == ModSn(txNext', txNextAck)
           done == segOff + n = SduLen
<1>1. /\ txNextAck' = txNextAck /\ ~(d >= WinSz) /\ n <= SduLen - segOff
      /\ segOff' = IF done THEN 0 ELSE segOff + n
      /\ txNext' = IF done THEN AddSn(txNext, 1) ELSE txNext
  BY Zenon DEF AssembleSdu, WinStalledAt, Dist
<1>2. /\ d \in Nat /\ WinSz \in Nat /\ segOff \in Unit /\ segOff \in Nat /\ n \in Nat \ {0} /\ SduLen \in Nat
      /\ \A t \in Sn : Dist(t) \in Nat
      /\ LastUnit = SduLen - 1 /\ Unit = 0 .. LastUnit
  BY UnitFacts, DistNat, WinSzAssumption, SMT DEF WinOK, LastUnit, Unit
<1>3. \A t : Dist(t)' = Dist(t)
  BY <1>1 DEF Dist
<1>4. Dist(txNext)' = d2
  BY <1>1 DEF Dist
<1>5. done => txNext' \in Sn /\ d2 = d + 1 /\ segOff' = 0
  <2>1. txNext \in Sn /\ txNextAck \in Sn /\ ModSn(txNext, txNextAck) < WinSz
    BY <1>1, <1>2, SMT DEF WinOK, Dist
  <2>2. ModSn(AddSn(txNext, 1), txNextAck) = ModSn(txNext, txNextAck) + 1
    BY <2>1, ModSnSucc
  <2>3. 1 \in 0 .. SnMod
    BY WinSzAssumption, SMT DEF SnMod
  <2>4. AddSn(txNext, 1) \in Sn
    BY <2>1, <2>3, AddSnType
  <2>5. QED
    BY <1>1, <2>2, <2>4 DEF Dist
<1>6. ~done => txNext' = txNext /\ d2 = d /\ segOff' = segOff + n /\ txNext' \in Sn
  BY <1>1 DEF Dist, WinOK
<1>7. e \in Unit /\ segOff <= e /\ (done => e = LastUnit) /\ (~done => segOff' = e + 1 /\ segOff' \in Unit /\ segOff' > 0 /\ e < segOff')
  BY <1>1, <1>2, <1>6, SMT
<1>8. txNext' \in Sn /\ segOff' \in Unit
  BY <1>2, <1>5, <1>6, <1>7, UnitFacts, SMT
<1>9. d2 <= WinSz /\ (segOff' > 0 => d2 < WinSz) /\ d <= d2
  BY <1>1, <1>2, <1>5, <1>6, <1>7, SMT
<1>10. sn \in Sn /\ Dist(sn) = d
  BY DEF WinOK
<1>11. d < d2 \/ (sn = txNext' /\ e < segOff' /\ segOff' > 0)
  BY <1>2, <1>5, <1>6, <1>7, SMT
<1>12. SentUnits(sn) = 0 .. segOff - 1
  <2>1. ~(d < d)
    BY <1>2, SMT
  <2>2. QED
    BY <1>10, <2>1 DEF SentUnits
<1>13. SentUnits(sn)' = 0 .. e
  <2>1. CASE done
    <3>1. Dist(sn)' < Dist(txNext)'
      BY <1>2, <1>3, <1>4, <1>5, <1>10, <2>1, SMT
    <3>2. SentUnits(sn)' = Unit
      BY <3>1 DEF SentUnits
    <3>3. QED
      BY <1>2, <1>7, <2>1, <3>2
  <2>2. CASE ~done
    <3>1. ~(Dist(sn)' < Dist(txNext)')
      BY <1>2, <1>3, <1>4, <1>6, <1>10, <2>2, SMT
    <3>2. segOff' - 1 = e
      BY <1>2, <1>7, <2>2, SMT
    <3>3. SentUnits(sn)' = 0 .. segOff' - 1
      BY <1>6, <2>2, <3>1 DEF SentUnits
    <3>4. QED
      BY <3>2, <3>3
  <2>3. QED
    BY <2>1, <2>2
<1>14. ASSUME NEW t \in Sn, t # sn
       PROVE  SentUnits(t)' = SentUnits(t)
  <2>1. Dist(t) # d
    BY <1>10, <1>14, ModSnInjective DEF Dist, WinOK
  <2>2. Dist(t) < d2 <=> Dist(t) < d \/ (done /\ Dist(t) < d + 1)
    BY <1>2, <1>5, <1>6, SMT
  <2>3. ~(done /\ ~(Dist(t) < d) /\ Dist(t) < d + 1)
    BY <1>2, <2>1, SMT
  <2>4. Dist(t)' < Dist(txNext)' <=> Dist(t) < Dist(txNext)
    BY <1>3, <1>4, <2>2, <2>3
  <2>5. t = txNext' => segOff' = 0
    BY <1>5, <1>6, <1>14
  <2>6. t = txNext' => 0 .. segOff' - 1 = {}
    <3>1. 0 .. 0 - 1 = {}
      BY SMT
    <3>2. QED
      BY <2>5, <3>1
  <2>7. SentUnits(t)' = IF Dist(t)' < Dist(txNext)' THEN Unit ELSE {}
    BY <2>6, Zenon DEF SentUnits
  <2>8. SentUnits(t) = IF Dist(t) < Dist(txNext) THEN Unit ELSE {}
    BY <1>14 DEF SentUnits
  <2>9. QED
    BY <2>4, <2>7, <2>8
<1>15. ASSUME NEW t \in Sn, t # sn
       PROVE  UnsentUnits(t)' = {} /\ UnsentUnits(t) = {}
  <2>1. t = txNext' => ~(segOff' > 0)
    BY <1>2, <1>5, <1>6, <1>15, SMT
  <2>2. QED
    BY <1>15, <2>1 DEF UnsentUnits
<1>16. UnsentUnits(sn)' = e + 1 .. LastUnit
  <2>1. CASE done
    <3>1. e + 1 .. LastUnit = {}
      BY <1>2, <1>7, <2>1, SMT
    <3>2. ~(segOff' > 0)
      BY <1>2, <1>5, <2>1, SMT
    <3>3. QED
      BY <3>1, <3>2 DEF UnsentUnits
  <2>2. CASE ~done
    <3>1. segOff' = e + 1 /\ segOff' > 0 /\ sn = txNext'
      BY <1>6, <1>7, <2>2
    <3>2. UnsentUnits(sn)' = segOff' .. LastUnit
      BY <3>1 DEF UnsentUnits
    <3>3. QED
      BY <3>1, <3>2
  <2>3. QED
    BY <2>1, <2>2
<1>17. QED
  BY <1>1, <1>2, <1>3, <1>4, <1>7, <1>8, <1>9, <1>10, <1>11, <1>12, <1>13, <1>14, <1>15, <1>16

\* s2 has one PDU more in the list of sn.
AppendedAt(st, s2, sn, seg) ==
    /\ \A t \in Sn : t # sn => s2.txBuf[t] = st.txBuf[t]
    /\ \A k \in DOMAIN st.txBuf[sn] : k \in DOMAIN s2.txBuf[sn] /\ s2.txBuf[sn][k] = st.txBuf[sn][k]
    /\ \A k \in DOMAIN s2.txBuf[sn] :
           \/ k \in DOMAIN st.txBuf[sn]
           \/ s2.txBuf[sn][k] = seg /\ \A j \in DOMAIN s2.txBuf[sn] : j # k => j \in DOMAIN st.txBuf[sn] /\ j < k
    /\ \E k \in DOMAIN s2.txBuf[sn] : s2.txBuf[sn][k] = seg

\* Where the PDUs of txBuf are when one was added.
LEMMA AppendIndex ==
    ASSUME NEW st \in BufType, NEW sn \in Sn, NEW seg \in SegType,
           NEW s2, s2.txBuf = [st.txBuf EXCEPT ![sn] = Append(@, seg)]
    PROVE  AppendedAt(st, s2, sn, seg) /\ s2.txBuf \in [Sn -> Seq(SegType)]
<1> DEFINE l == st.txBuf[sn]
           l2 == Append(l, seg)
           n == Len(l)
           m == n + 1
<1>1. l \in Seq(SegType) /\ n \in Nat /\ DOMAIN l = 1 .. n /\ st.txBuf \in [Sn -> Seq(SegType)]
  BY TxEntries, BufFields
<1>2. l2 \in Seq(SegType) /\ Len(l2) = n + 1 /\ DOMAIN l2 = 1 .. n + 1 /\ l2[n + 1] = seg
      /\ \A k \in 1 .. n : l2[k] = l[k]
  BY <1>1, AppendProperties, SMT
<1>3. s2.txBuf[sn] = l2 /\ (\A t \in Sn : t # sn => s2.txBuf[t] = st.txBuf[t])
      /\ s2.txBuf \in [Sn -> Seq(SegType)]
  BY <1>1, <1>2
<1> HIDE DEF l, l2, n
<1>4. /\ m \in DOMAIN l2 /\ l2[m] = seg
      /\ \A k \in DOMAIN l : k \in DOMAIN l2 /\ l2[k] = l[k]
      /\ \A k \in DOMAIN l2 : k \in DOMAIN l \/ k = m
      /\ \A j \in DOMAIN l2 : j # m => j \in DOMAIN l /\ j < m
  BY <1>1, <1>2, SMT
<1> HIDE DEF m
<1>5. AppendedAt(st, s2, sn, seg)
  BY <1>3, <1>4 DEF AppendedAt, l
<1>6. QED
  BY <1>3, <1>5

\* A PDU of sn whose units come after all others of it.
LEMMA AppendShape ==
    ASSUME NEW st \in BufType, TxOrder(st), NEW sn \in Sn, NEW seg \in SegType, seg.so <= seg.end,
           \A k \in DOMAIN st.txBuf[sn] : st.txBuf[sn][k].end < seg.so,
           NEW s2 \in BufType, AppendedAt(st, s2, sn, seg)
    PROVE  /\ TxOrder(s2)
           /\ \A t \in Sn : t # sn => TxUnits(s2, t) = TxUnits(st, t)
           /\ \A u \in Unit : u \in TxUnits(s2, sn) <=> u \in TxUnits(st, sn) \/ u \in Span(seg)
<1>1. DOMAIN st.txBuf[sn] = 1 .. Len(st.txBuf[sn]) /\ DOMAIN s2.txBuf[sn] = 1 .. Len(s2.txBuf[sn])
      /\ Len(s2.txBuf[sn]) \in Nat
  BY TxEntries
<1>2. ASSUME NEW t \in Sn, t # sn
      PROVE  /\ s2.txBuf[t] = st.txBuf[t] /\ TxUnits(s2, t) = TxUnits(st, t)
             /\ \A k \in DOMAIN s2.txBuf[t] : s2.txBuf[t][k].so <= s2.txBuf[t][k].end
             /\ \A k, m \in DOMAIN s2.txBuf[t] : k < m => s2.txBuf[t][k].end < s2.txBuf[t][m].so
  <2>1. s2.txBuf[t] = st.txBuf[t]
    BY <1>2 DEF AppendedAt
  <2>2. QED
    BY <2>1 DEF TxOrder, TxUnits
<1>3. ASSUME NEW k \in DOMAIN s2.txBuf[sn]
      PROVE  s2.txBuf[sn][k].so <= s2.txBuf[sn][k].end
  BY <1>3 DEF AppendedAt, TxOrder
<1>4. ASSUME NEW k \in DOMAIN s2.txBuf[sn], NEW m \in DOMAIN s2.txBuf[sn], k < m
      PROVE  s2.txBuf[sn][k].end < s2.txBuf[sn][m].so
  <2>1. k # m /\ ~(m < k)
    BY <1>1, <1>4, SMT
  <2>2. k \in DOMAIN st.txBuf[sn] /\ s2.txBuf[sn][k] = st.txBuf[sn][k]
    BY <2>1 DEF AppendedAt
  <2>3. CASE m \in DOMAIN st.txBuf[sn]
    <3>1. s2.txBuf[sn][m] = st.txBuf[sn][m]
      BY <2>3 DEF AppendedAt
    <3>2. QED
      BY <1>4, <2>2, <2>3, <3>1 DEF TxOrder
  <2>4. CASE m \notin DOMAIN st.txBuf[sn]
    <3>1. s2.txBuf[sn][m] = seg
      BY <2>4 DEF AppendedAt
    <3>2. QED
      BY <2>2, <3>1
  <2>5. QED
    BY <2>3, <2>4
<1>5. TxOrder(s2)
  <2>1. SUFFICES ASSUME NEW t \in Sn
                 PROVE  /\ \A k \in DOMAIN s2.txBuf[t] : s2.txBuf[t][k].so <= s2.txBuf[t][k].end
                        /\ \A k, m \in DOMAIN s2.txBuf[t] : k < m => s2.txBuf[t][k].end < s2.txBuf[t][m].so
    BY DEF TxOrder
  <2>2. CASE t = sn
    BY <1>3, <1>4, <2>2
  <2>3. CASE t # sn
    BY <1>2, <2>3
  <2>4. QED
    BY <2>2, <2>3
<1>6. \A u \in Unit : u \in TxUnits(s2, sn) <=> u \in TxUnits(st, sn) \/ u \in Span(seg)
  <2>1. SUFFICES ASSUME NEW u \in Unit
                 PROVE  (\E k \in DOMAIN s2.txBuf[sn] : u \in Span(s2.txBuf[sn][k]))
                        <=> (\E k \in DOMAIN st.txBuf[sn] : u \in Span(st.txBuf[sn][k])) \/ u \in Span(seg)
    BY DEF TxUnits
  <2>2. QED
    BY DEF AppendedAt
<1>7. QED
  BY <1>2, <1>5, <1>6

\* What is held are the pieces from before and the new PDU.
LEMMA AppendPieces ==
    ASSUME NEW st \in BufType, NEW sn \in Sn, NEW seg \in SegType,
           NEW s2 \in BufType, AppendedAt(st, s2, sn, seg), s2.retx = st.retx,
           NEW p \in Pieces(s2)
    PROVE  \/ p \in Pieces(st)
           \/ p[1] = sn /\ p[2] = seg.so /\ p[3] = seg.end
<1>1. /\ p \in Sn \X Unit \X Unit
      /\ \/ \E j \in DOMAIN s2.retx : s2.retx[j].sn = p[1] /\ s2.retx[j].so = p[2] /\ s2.retx[j].end = p[3]
         \/ \E k \in DOMAIN s2.txBuf[p[1]] : s2.txBuf[p[1]][k].so = p[2] /\ s2.txBuf[p[1]][k].end = p[3]
  BY DEF Pieces
<1>2. CASE \E j \in DOMAIN s2.retx : s2.retx[j].sn = p[1] /\ s2.retx[j].so = p[2] /\ s2.retx[j].end = p[3]
  BY <1>1, <1>2 DEF Pieces
<1>3. CASE \E k \in DOMAIN s2.txBuf[p[1]] : s2.txBuf[p[1]][k].so = p[2] /\ s2.txBuf[p[1]][k].end = p[3]
  <2>1. PICK k \in DOMAIN s2.txBuf[p[1]] : s2.txBuf[p[1]][k].so = p[2] /\ s2.txBuf[p[1]][k].end = p[3]
    BY <1>3
  <2>2. \/ k \in DOMAIN st.txBuf[p[1]] /\ s2.txBuf[p[1]][k] = st.txBuf[p[1]][k]
        \/ p[1] = sn /\ s2.txBuf[p[1]][k] = seg
    BY <1>1, <2>1 DEF AppendedAt
  <2>3. QED
    BY <1>1, <2>1, <2>2 DEF Pieces
<1>4. QED
  BY <1>1, <1>2, <1>3

\* How many units the first e + 1 are.
LEMMA FirstUnits ==
    ASSUME NEW e \in Unit
    PROVE  /\ Cardinality(0 .. e) = e + 1 /\ Cardinality(0 .. e - 1) = e
           /\ Cardinality(e + 1 .. LastUnit) = LastUnit - e
           /\ 0 .. e \subseteq Unit /\ 0 .. e - 1 \subseteq Unit
<1>1. e \in Nat /\ SduLen \in Nat \ {0} /\ e < SduLen /\ LastUnit = SduLen - 1
  BY UnitFacts DEF LastUnit
<1> DEFINE a == e - 1
           b == e + 1
<1>2. a \in Int /\ b \in Int /\ LastUnit \in Int /\ 0 \in Int /\ e \in Int
  BY <1>1, SMT
<1> HIDE DEF a, b
<1>3. Cardinality(0 .. e) = IF 0 > e THEN 0 ELSE e - 0 + 1
  BY <1>2, FS_Interval
<1>4. Cardinality(0 .. a) = IF 0 > a THEN 0 ELSE a - 0 + 1
  BY <1>2, FS_Interval
<1>5. Cardinality(b .. LastUnit) = IF b > LastUnit THEN 0 ELSE LastUnit - b + 1
  BY <1>2, FS_Interval
<1>6. 0 .. e \subseteq Unit /\ 0 .. e - 1 \subseteq Unit
  BY <1>1, SMT DEF Unit
<1>8. Cardinality(0 .. e) = e + 1 /\ Cardinality(0 .. a) = e /\ Cardinality(b .. LastUnit) = LastUnit - e
  BY <1>1, <1>3, <1>4, <1>5, SMT DEF a, b
<1>7. QED
  BY <1>6, <1>8 DEF a, b

\* What is held of the SDU being segmented: the PDUs already made of it.
LEMMA AssembleOld ==
    ASSUME WinOK, NEW st \in BufType, Shape(st), Full(st), NEW sn, sn = txNext,
           SentUnits(sn) = 0 .. segOff - 1
    PROVE  /\ \A i \in DOMAIN st.retx : st.retx[i].sn # sn
           /\ \A k \in DOMAIN st.txBuf[sn] : st.txBuf[sn][k].end < segOff
           /\ RetxUnits(st, sn) = {} /\ TxUnits(st, sn) = 0 .. segOff - 1
           /\ segOff > 0 => st.rcvd[sn] = 0
<1>1. sn \in Sn /\ Dist(sn) \in Nat /\ segOff \in Unit /\ segOff \in Nat
  BY DistNat, UnitFacts DEF WinOK
<1>2. ~(Dist(sn) < Dist(txNext))
  BY <1>1, SMT
<1>3. \A i \in DOMAIN st.retx : st.retx[i].sn # sn
  BY <1>2 DEF Shape, InWin
<1>4. \A k \in DOMAIN st.txBuf[sn] : st.txBuf[sn][k].end < segOff
  BY <1>1, <1>2 DEF Shape, InWin
<1>5. RetxUnits(st, sn) = {}
  BY <1>3 DEF RetxUnits
<1>6. TxUnits(st, sn) \subseteq 0 .. segOff - 1
  <2>1. SUFFICES ASSUME NEW u \in TxUnits(st, sn)
                 PROVE  u \in 0 .. segOff - 1
    OBVIOUS
  <2>2. PICK k \in DOMAIN st.txBuf[sn] : u \in Span(st.txBuf[sn][k])
    BY DEF TxUnits
  <2>3. u \in Unit /\ st.txBuf[sn][k].end < segOff /\ st.txBuf[sn][k].end \in Unit
    BY <1>1, <1>4, TxEntries DEF TxUnits
  <2> DEFINE x == st.txBuf[sn][k].end
  <2>4. u <= x /\ x < segOff /\ x \in Nat /\ u \in Nat
    BY <2>2, <2>3, UnitFacts DEF Span
  <2> HIDE DEF x
  <2>5. QED
    BY <1>1, <2>4, SMT
<1>7. TxUnits(st, sn) = 0 .. segOff - 1
  BY <1>1, <1>6, Zenon DEF Full
<1>8. ASSUME segOff > 0
      PROVE  st.rcvd[sn] = 0
  <2> DEFINE a == st.rcvd[sn]
             b == Cardinality(UnitsAt(st, sn))
             c == Cardinality(UnsentUnits(sn))
  <2>1. UnitsAt(st, sn) = 0 .. segOff - 1
    BY <1>5, <1>7 DEF UnitsAt
  <2>2. b = segOff
    BY <1>1, <2>1, FirstUnits
  <2>3. c = SduLen - segOff
    BY <1>1, <1>8, UnsentFacts
  <2>4. a \in Nat
    BY <1>1, BufFields, SduLenAssumption, SMT
  <2>5. a + b + c <= SduLen
    BY <1>1 DEF Shape, Counts, Total
  <2> HIDE DEF a, b, c
  <2>6. a = 0
    BY <1>1, <2>2, <2>3, <2>4, <2>5, SduLenAssumption, SMT
  <2>7. QED
    BY <2>6 DEF a
<1>9. QED
  BY <1>3, <1>4, <1>5, <1>7, <1>8

\* What AssembleSdu does to the lists, whatever else it does.
Assembled(st, s2, sn, e, seg) ==
    /\ s2 \in BufType /\ seg \in SegType /\ seg.so = segOff /\ seg.end = e
    /\ AppendedAt(st, s2, sn, seg) /\ s2.retx = st.retx /\ s2.nxt = st.nxt /\ s2.max = st.max
    /\ \A t \in Sn : t # sn => s2.rcvd[t] = st.rcvd[t]
    /\ s2.rcvd[sn] = IF segOff = 0 THEN 0 ELSE st.rcvd[sn]

WindowMoved(sn, e) ==
    /\ e \in Unit /\ segOff \in Unit /\ segOff <= e /\ sn \in Sn
    /\ txNext' \in Sn /\ segOff' \in Unit /\ txNextAck' = txNextAck
    /\ \A t : Dist(t)' = Dist(t)
    /\ Dist(txNext)' <= WinSz /\ (segOff' > 0 => Dist(txNext)' < WinSz)
    /\ Dist(txNext) <= Dist(txNext)'
    /\ Dist(sn)' < Dist(txNext)' \/ (sn = txNext' /\ e < segOff' /\ segOff' > 0)
    /\ SentUnits(sn) = 0 .. segOff - 1 /\ SentUnits(sn)' = 0 .. e
    /\ \A t \in Sn : t # sn => SentUnits(t)' = SentUnits(t)
    /\ \A t \in Sn : t # sn => UnsentUnits(t)' = {} /\ UnsentUnits(t) = {}
    /\ UnsentUnits(sn)' = e + 1 .. LastUnit

\* The lists keep their order, and the units held of the SDU are those from its
\* start up to the end of the new PDU.
LEMMA AssembledShape ==
    ASSUME WinOK, NEW st \in BufType, Shape(st), Full(st), NEW sn, sn = txNext, NEW e, NEW seg,
           WindowMoved(sn, e), NEW s2, Assembled(st, s2, sn, e, seg)
    PROVE  /\ TxOrder(s2) /\ RetxOrder(s2)' /\ RetxBelowTx(s2) /\ InWin(s2)'
           /\ \A t \in Sn : t # sn => UnitsAt(s2, t) = UnitsAt(st, t) /\ TxUnits(s2, t) = TxUnits(st, t)
           /\ UnitsAt(s2, sn) = 0 .. e /\ TxUnits(s2, sn) = 0 .. e
<1>1. /\ \A i \in DOMAIN st.retx : st.retx[i].sn # sn
      /\ \A k \in DOMAIN st.txBuf[sn] : st.txBuf[sn][k].end < segOff
      /\ RetxUnits(st, sn) = {} /\ TxUnits(st, sn) = 0 .. segOff - 1
  BY AssembleOld DEF WindowMoved
<1>2. /\ s2 \in BufType /\ s2.retx = st.retx /\ AppendedAt(st, s2, sn, seg) /\ seg \in SegType
      /\ seg.so = segOff /\ seg.end = e /\ sn \in Sn /\ e \in Unit /\ segOff \in Unit /\ segOff <= e
  BY DEF Assembled, WindowMoved
<1>3. /\ TxOrder(s2)
      /\ \A t \in Sn : t # sn => TxUnits(s2, t) = TxUnits(st, t)
      /\ \A u \in Unit : u \in TxUnits(s2, sn) <=> u \in TxUnits(st, sn) \/ u \in Span(seg)
  <2>1. seg.so <= seg.end /\ \A k \in DOMAIN st.txBuf[sn] : st.txBuf[sn][k].end < seg.so
    BY <1>1, <1>2
  <2>2. TxOrder(st)
    BY DEF Shape
  <2>3. QED
    BY <1>2, <2>1, <2>2, AppendShape
<1>4. \A t : RetxUnits(s2, t) = RetxUnits(st, t)
  BY <1>2 DEF RetxUnits
<1>5. TxUnits(s2, sn) = 0 .. e
  <2>1. TxUnits(s2, sn) \subseteq Unit
    BY DEF TxUnits
  <2>2. 0 .. e \subseteq Unit
    BY <1>2, FirstUnits
  <2>3. \A u \in Unit : u \in 0 .. e <=> u \in 0 .. segOff - 1 \/ u \in Span(seg)
    <3>1. Span(seg) = segOff .. e
      BY <1>2 DEF Span
    <3>2. e \in Nat /\ segOff \in Nat /\ \A u \in Unit : u \in Nat
      BY <1>2, UnitFacts
    <3>3. QED
      BY <1>2, <3>1, <3>2, SMT
  <2>4. \A u \in Unit : u \in TxUnits(s2, sn) <=> u \in 0 .. e
    BY <1>1, <1>3, <2>3
  <2>5. QED
    BY <2>1, <2>2, <2>4, Zenon
<1>6. UnitsAt(s2, sn) = 0 .. e
  BY <1>1, <1>4, <1>5 DEF UnitsAt
<1>7. \A t \in Sn : t # sn => UnitsAt(s2, t) = UnitsAt(st, t)
  BY <1>3, <1>4 DEF UnitsAt
<1>8. RetxOrder(s2)'
  <2>1. \A t : Dist(t)' = Dist(t)
    BY DEF WindowMoved
  <2>2. RetxOrder(st)
    BY DEF Shape
  <2>3. \A a, b : Before(a, b) => Before(a, b)'
    BY <2>1 DEF Before
  <2>4. QED
    BY <1>2, <2>2, <2>3 DEF RetxOrder
<1>9. RetxBelowTx(s2)
  <2>1. SUFFICES ASSUME NEW i \in DOMAIN s2.retx, NEW k \in DOMAIN s2.txBuf[s2.retx[i].sn]
                 PROVE  s2.retx[i].end < s2.txBuf[s2.retx[i].sn][k].so
    BY DEF RetxBelowTx
  <2>2. s2.retx[i] = st.retx[i] /\ i \in DOMAIN st.retx /\ s2.retx[i].sn \in Sn
    BY <1>2, RetxEntries
  <2>3. s2.txBuf[s2.retx[i].sn] = st.txBuf[st.retx[i].sn]
    BY <1>1, <1>2, <2>2 DEF AppendedAt
  <2>4. QED
    BY <2>2, <2>3 DEF Shape, RetxBelowTx
<1>10. InWin(s2)'
  <2> DEFINE d == Dist(txNext)
             d2 == Dist(txNext)'
  <2>1. /\ d \in Nat /\ d <= d2 /\ \A t \in Sn : Dist(t) \in Nat /\ Dist(t)' = Dist(t)
        /\ d2 <= WinSz /\ WinSz \in Nat
    BY DistNat, WinSzAssumption DEF WinOK, WindowMoved
  <2>2. d2 \in Nat
    <3>1. txNext' \in Sn /\ txNextAck' \in Sn
      BY DEF WindowMoved, WinOK
    <3>2. ModSn(txNext', txNextAck') \in Sn
      BY <3>1, ModSnType
    <3>3. ModSn(txNext', txNextAck') \in Nat
      BY <3>2 DEF Sn
    <3>4. QED
      BY <3>3 DEF Dist
  <2>3. \A t \in Sn : Dist(t) < d => Dist(t)' < d2
    <3> HIDE DEF d, d2
    <3>1. SUFFICES ASSUME NEW t \in Sn, Dist(t) < d
                   PROVE  Dist(t)' < d2
      OBVIOUS
    <3>2. Dist(t) \in Nat /\ Dist(t)' = Dist(t)
      BY <2>1
    <3>3. QED
      BY <2>1, <2>2, <3>1, <3>2, SMT
  <2>4. \A i \in DOMAIN s2.retx : Dist(s2.retx[i].sn)' < d2
    <3>1. \A i \in DOMAIN s2.retx : s2.retx[i].sn \in Sn /\ Dist(s2.retx[i].sn) < d
      BY <1>2, RetxEntries DEF Shape, InWin
    <3>2. QED
      BY <2>3, <3>1
  <2>5. ASSUME NEW t \in Sn, NEW k \in DOMAIN s2.txBuf[t]
        PROVE  Dist(t)' < d2 \/ (t = txNext' /\ s2.txBuf[t][k].end < segOff')
    <3>1. CASE t = sn
      <4>1. s2.txBuf[sn][k].end <= e /\ s2.txBuf[sn][k].end \in Unit
        <5>1. s2.txBuf[sn][k] \in SegType /\ s2.txBuf[sn][k].so \in Unit /\ s2.txBuf[sn][k].end \in Unit
          BY <1>2, <2>5, <3>1, TxEntries
        <5>2. s2.txBuf[sn][k].so <= s2.txBuf[sn][k].end
          BY <1>2, <1>3, <2>5, <3>1 DEF TxOrder
        <5>3. s2.txBuf[sn][k].end \in Span(s2.txBuf[sn][k])
          BY <5>1, <5>2, SpanFacts
        <5>4. s2.txBuf[sn][k].end \in TxUnits(s2, sn)
          BY <2>5, <3>1, <5>1, <5>3 DEF TxUnits
        <5>5. s2.txBuf[sn][k].end \in 0 .. e
          BY <1>5, <5>4
        <5>6. QED
          BY <5>1, <5>5
      <4>2. Dist(sn)' < d2 \/ (sn = txNext' /\ e < segOff')
        BY DEF WindowMoved
      <4>3. e < segOff' => s2.txBuf[sn][k].end < segOff'
        <5>1. segOff' \in Nat /\ e \in Nat /\ s2.txBuf[sn][k].end \in Nat
          BY <1>2, <4>1, UnitFacts DEF WindowMoved
        <5> DEFINE x == s2.txBuf[sn][k].end
        <5>2. x <= e /\ x \in Nat
          BY <4>1, <5>1
        <5> HIDE DEF x
        <5>3. e < segOff' => x < segOff'
          BY <5>1, <5>2, SMT
        <5>4. QED
          BY <5>3 DEF x
      <4>4. QED
        BY <3>1, <4>2, <4>3
    <3>2. CASE t # sn
      <4>1. k \in DOMAIN st.txBuf[t]
        BY <1>2, <2>5, <3>2 DEF AppendedAt
      <4>2. Dist(t) < d
        BY <2>5, <3>2, <4>1 DEF Shape, InWin
      <4>3. QED
        BY <2>3, <2>5, <4>2
    <3>3. QED
      BY <3>1, <3>2
  <2>6. QED
    BY <2>4, <2>5 DEF InWin
<1>11. QED
  BY <1>3, <1>5, <1>6, <1>7, <1>8, <1>9, <1>10

\* What has been confirmed, is held and is not yet transmitted still add up.
LEMMA AssembledCounts ==
    ASSUME WinOK, NEW st \in BufType, Shape(st), Full(st), NEW sn, sn = txNext, NEW e, NEW seg,
           WindowMoved(sn, e), NEW s2, Assembled(st, s2, sn, e, seg)
    PROVE  Counts(s2)' /\ Full(s2)'
<1>1. /\ \A t \in Sn : t # sn => UnitsAt(s2, t) = UnitsAt(st, t) /\ TxUnits(s2, t) = TxUnits(st, t)
      /\ UnitsAt(s2, sn) = 0 .. e /\ TxUnits(s2, sn) = 0 .. e
  BY AssembledShape
<1>2. SentUnits(sn) = 0 .. segOff - 1 /\ e \in Unit /\ segOff \in Unit /\ sn \in Sn
      /\ UnsentUnits(sn)' = e + 1 .. LastUnit /\ SentUnits(sn)' = 0 .. e
      /\ \A t \in Sn : t # sn => SentUnits(t)' = SentUnits(t) /\ UnsentUnits(t)' = UnsentUnits(t)
  BY DEF WindowMoved
<1>3. segOff > 0 => st.rcvd[sn] = 0
  BY <1>2, AssembleOld
<1>4. s2.rcvd[sn] = 0
  <2>1. segOff \in Nat
    BY <1>2, UnitFacts
  <2>2. segOff # 0 => segOff > 0
    BY <2>1, SMT
  <2>3. QED
    BY <1>3, <2>2 DEF Assembled
<1>5. s2.max = st.max /\ \A t \in Sn : t # sn => s2.rcvd[t] = st.rcvd[t]
  BY DEF Assembled
<1>6. Total(s2, sn)' = SduLen
  <2>1. Cardinality(0 .. e) = e + 1 /\ Cardinality(e + 1 .. LastUnit) = LastUnit - e
    BY <1>2, FirstUnits
  <2>2. Total(s2, sn)' = s2.rcvd[sn] + Cardinality(UnitsAt(s2, sn)) + Cardinality(UnsentUnits(sn)')
    BY DEF Total
  <2>3. Total(s2, sn)' = 0 + (e + 1) + (LastUnit - e)
    BY <1>1, <1>2, <1>4, <2>1, <2>2
  <2>4. e \in Nat /\ SduLen \in Nat /\ LastUnit = SduLen - 1
    BY <1>2, UnitFacts DEF LastUnit
  <2>5. QED
    BY <2>3, <2>4, SMT
<1>7. \A t \in Sn : t # sn => Total(s2, t)' = Total(st, t)
  BY <1>1, <1>2, <1>5 DEF Total
<1>8. Counts(s2)'
  <2>1. SUFFICES ASSUME NEW t \in Sn
                 PROVE  Total(s2, t)' <= SduLen /\ (s2.max \/ Total(s2, t)' \in {0, SduLen})
    BY DEF Counts
  <2>2. CASE t = sn
    BY <1>6, <2>2, UnitFacts
  <2>3. CASE t # sn
    BY <1>5, <1>7, <2>3 DEF Shape, Counts
  <2>4. QED
    BY <2>2, <2>3
<1>9. Full(s2)'
  <2>1. SUFFICES ASSUME NEW t \in Sn, s2.txBuf[t] # <<>> \/ t = txNext'
                 PROVE  SentUnits(t)' \subseteq TxUnits(s2, t)
    BY DEF Full
  <2>2. CASE t = sn
    BY <1>1, <1>2, <2>2
  <2>3. CASE t # sn
    <3>1. s2.txBuf[t] = st.txBuf[t]
      BY <2>3 DEF Assembled, AppendedAt
    <3>2. CASE st.txBuf[t] # <<>>
      BY <1>1, <1>2, <2>3, <3>2 DEF Full
    <3>3. CASE t = txNext'
      <4>1. SentUnits(t) = {}
        <5>1. ~(Dist(t) < Dist(txNext))
          <6>1. Dist(txNext) <= Dist(txNext)' /\ Dist(t)' = Dist(t) /\ Dist(txNext)' = Dist(t)'
            BY <3>3 DEF WindowMoved, Dist
          <6>2. Dist(t) \in Nat /\ Dist(txNext) \in Nat
            BY DistNat DEF WinOK
          <6>3. QED
            BY <6>1, <6>2, SMT
        <5>2. QED
          BY <2>3, <5>1 DEF SentUnits
      <4>2. QED
        BY <1>2, <2>3, <4>1
    <3>4. QED
      BY <2>1, <3>1, <3>2, <3>3
  <2>4. QED
    BY <2>2, <2>3
<1>10. QED
  BY <1>8, <1>9

\* The new PDU lies apart from the others, from what they were made of and from
\* what the peer has.
LEMMA AssembledWhole ==
    ASSUME WinOK, PeerInv, NEW st \in BufType, Shape(st), Full(st), Laminar(st), GotWhole(st),
           NEW sn, sn = txNext, NEW e, NEW seg,
           WindowMoved(sn, e), NEW s2, Assembled(st, s2, sn, e, seg),
           NEW c, c.sn = sn, c.so = segOff, c.end = e, chan' = chan \union {c}, got' = got
    PROVE  Laminar(s2)' /\ GotWhole(s2)'
<1>1. SentUnits(sn) = 0 .. segOff - 1 /\ e \in Unit /\ segOff \in Unit /\ sn \in Sn /\ segOff <= e
      /\ segOff \in Nat
  BY UnitFacts DEF WindowMoved
<1>2. ASSUME NEW p \in Pieces(s2)
      PROVE  p \in Pieces(st) \/ (p[1] = sn /\ p[2] = segOff /\ p[3] = e)
  BY <1>1, <1>2, AppendPieces DEF Assembled
<1>3. ASSUME NEW U, U \subseteq SentUnits(sn)
      PROVE  (segOff .. e) \intersect U = {}
  <2>1. SUFFICES ASSUME NEW u, u \in segOff .. e, u \in U
                 PROVE  FALSE
    OBVIOUS
  <2>2. u \in 0 .. segOff - 1
    BY <1>1, <1>3, <2>1
  <2>3. QED
    BY <1>1, <2>1, <2>2, SMT
<1>4. ASSUME NEW p \in Pieces(st), p[1] = sn
      PROVE  (p[2] .. p[3]) \subseteq SentUnits(sn)
  <2>1. PICK k \in DOMAIN st.txBuf[sn] : st.txBuf[sn][k].so = p[2] /\ st.txBuf[sn][k].end = p[3]
    <3>1. \/ \E i \in DOMAIN st.retx : st.retx[i].sn = p[1] /\ st.retx[i].so = p[2] /\ st.retx[i].end = p[3]
          \/ \E k \in DOMAIN st.txBuf[p[1]] : st.txBuf[p[1]][k].so = p[2] /\ st.txBuf[p[1]][k].end = p[3]
      BY DEF Pieces
    <3>2. \A i \in DOMAIN st.retx : st.retx[i].sn # sn
      BY <1>1, AssembleOld
    <3>3. QED
      BY <1>4, <3>1, <3>2
  <2>2. p[3] < segOff /\ p[2] \in Unit /\ p[3] \in Unit
    BY <1>1, <2>1, AssembleOld, TxEntries
  <2>3. p[2] \in Nat /\ p[3] \in Nat
    BY <2>2, UnitFacts
  <2> DEFINE a == p[2]
             b == p[3]
  <2>4. a \in Nat /\ b \in Nat /\ b < segOff
    BY <2>2, <2>3
  <2> HIDE DEF a, b
  <2>5. a .. b \subseteq 0 .. segOff - 1
    BY <1>1, <2>4, SMT
  <2>6. QED
    BY <1>1, <2>5 DEF a, b
<1>5. ASSUME NEW p \in Pieces(s2), NEW x \in chan', x.sn = p[1]
      PROVE  IsWhole(p[2], p[3], Span(x))
  <2>1. CASE p \in Pieces(st) /\ x \in chan
    BY <1>5, <2>1 DEF Laminar
  <2>2. CASE p \in Pieces(st) /\ x = c
    <3>1. Span(x) = segOff .. e /\ p[1] = sn
      BY <1>5, <2>2 DEF Span
    <3>2. (segOff .. e) \intersect (p[2] .. p[3]) = {}
      BY <1>3, <1>4, <2>2, <3>1
    <3>3. QED
      BY <3>1, <3>2 DEF IsWhole
  <2>3. CASE p[1] = sn /\ p[2] = segOff /\ p[3] = e /\ x \in chan
    <3>1. Span(x) \subseteq SentUnits(sn)
      BY <1>5, <2>3 DEF PeerInv
    <3>2. QED
      BY <1>3, <2>3, <3>1 DEF IsWhole
  <2>4. CASE p[1] = sn /\ p[2] = segOff /\ p[3] = e /\ x = c
    BY <2>4 DEF IsWhole, Span
  <2>5. QED
    BY <1>2, <1>5, <2>1, <2>2, <2>3, <2>4
<1>6. Laminar(s2)'
  <2>1. Pieces(s2)' = Pieces(s2)
    BY DEF Pieces
  <2>2. \A x : Span(x)' = Span(x)
    BY DEF Span
  <2>3. QED
    BY <1>5, <2>1, <2>2 DEF Laminar
<1>7. ASSUME NEW p \in Pieces(s2)
      PROVE  IsWhole(p[2], p[3], got[p[1]])
  <2>1. CASE p \in Pieces(st)
    BY <2>1 DEF GotWhole, Wholes
  <2>2. CASE p[1] = sn /\ p[2] = segOff /\ p[3] = e
    <3>1. got[sn] \subseteq SentUnits(sn)
      BY <1>1 DEF PeerInv
    <3>2. QED
      BY <1>3, <2>2, <3>1 DEF IsWhole
  <2>3. QED
    BY <1>2, <1>7, <2>1, <2>2
<1>8. GotWhole(s2)'
  BY <1>7 DEF GotWhole, Wholes
<1>9. QED
  BY <1>6, <1>8

\* Nothing that is no longer held is missing at the peer, and the peer has
\* nothing that was not transmitted.
LEMMA AssembledRest ==
    ASSUME WinOK, PeerInv, NEW st \in BufType, Shape(st), Full(st), Arrived(st), Reached(st),
           NEW sn, sn = txNext, NEW e, NEW seg,
           WindowMoved(sn, e), NEW s2, Assembled(st, s2, sn, e, seg),
           NEW c, c.sn = sn, c.so = segOff, c.end = e, chan' = chan \union {c},
           got' = got, peerNext' = peerNext, peerNext \in Sn, \A p \in chan : p.sn \in Sn
    PROVE  Arrived(s2)' /\ Reached(s2)' /\ PeerInv'
<1>1. /\ \A t \in Sn : t # sn => UnitsAt(s2, t) = UnitsAt(st, t)
      /\ UnitsAt(s2, sn) = 0 .. e
  BY AssembledShape
<1>2. /\ \A t \in Sn : t # sn => SentUnits(t)' = SentUnits(t)
      /\ SentUnits(sn)' = 0 .. e /\ SentUnits(sn) = 0 .. segOff - 1
      /\ sn \in Sn /\ e \in Unit /\ segOff \in Unit /\ segOff <= e /\ \A t : Dist(t)' = Dist(t)
  BY DEF WindowMoved
<1>3. s2.max = st.max /\ s2.retx = st.retx /\ s2.nxt = st.nxt
  BY DEF Assembled
<1>4. Arrived(s2)'
  <2>1. SUFFICES ASSUME ~s2.max, NEW t \in Sn
                 PROVE  SentUnits(t)' \ UnitsAt(s2, t) \subseteq PeerHas(t)'
    BY DEF Arrived
  <2>2. PeerHas(t)' = PeerHas(t)
    BY DEF PeerHas
  <2>3. CASE t = sn
    BY <1>1, <1>2, <2>3
  <2>4. CASE t # sn
    BY <1>1, <1>2, <1>3, <2>1, <2>2, <2>4 DEF Arrived
  <2>5. QED
    BY <2>3, <2>4
<1>5. Reached(s2)'
  BY <1>3 DEF Reached, Linked
<1>6. SentUnits(sn) \subseteq SentUnits(sn)' /\ segOff .. e \subseteq SentUnits(sn)'
  <2>1. e \in Nat /\ segOff \in Nat
    BY <1>2, UnitFacts
  <2>2. 0 .. segOff - 1 \subseteq 0 .. e /\ segOff .. e \subseteq 0 .. e
    BY <1>2, <2>1, SMT
  <2>3. QED
    BY <1>2, <2>2
<1>7. \A t \in Sn : SentUnits(t) \subseteq SentUnits(t)'
  BY <1>2, <1>6, Zenon
<1>8. \A p \in chan' : p.so <= p.end /\ Span(p) \subseteq SentUnits(p.sn)'
  <2>1. SUFFICES ASSUME NEW p \in chan'
                 PROVE  p.so <= p.end /\ Span(p) \subseteq SentUnits(p.sn)'
    OBVIOUS
  <2>2. CASE p \in chan
    BY <1>7, <2>2 DEF PeerInv
  <2>3. CASE p = c
    BY <1>2, <1>6, <2>3, Zenon DEF Span
  <2>4. QED
    BY <2>1, <2>2, <2>3
<1>9. \A t \in Sn : got'[t] # {} => got'[t] \subseteq SentUnits(t)' /\ Dist(peerNext)' <= Dist(t)'
  <2>1. Dist(peerNext)' = Dist(peerNext)
    BY <1>2 DEF Dist
  <2>2. QED
    BY <1>2, <1>7, <2>1 DEF PeerInv
<1>10. Dist(peerNext)' <= Dist(txNext)'
  <2> DEFINE a == Dist(peerNext)
             b == Dist(txNext)
             d == Dist(txNext)'
  <2>1. Dist(peerNext)' = a
    BY <1>2 DEF Dist
  <2>2. a \in Nat /\ b \in Nat /\ a <= b /\ b <= d
    BY DistNat DEF WinOK, PeerInv, WindowMoved
  <2>3. d \in Int
    <3>1. txNext' \in Sn /\ txNextAck' \in Sn
      BY DEF WindowMoved, WinOK
    <3>2. ModSn(txNext', txNextAck') \in Sn
      BY <3>1, ModSnType
    <3>3. ModSn(txNext', txNextAck') \in Int
      BY <3>2 DEF Sn
    <3>4. QED
      BY <3>3 DEF Dist
  <2> HIDE DEF a, b, d
  <2>4. a <= d
    BY <2>2, <2>3, SMT
  <2>5. QED
    BY <2>1, <2>4 DEF d
<1>11. PeerInv'
  <2>1. Dist(txNext)' <= WinSz /\ (segOff' > 0 => Dist(txNext)' < WinSz)
    BY DEF WindowMoved
  <2>2. got'[peerNext'] # Unit
    BY DEF PeerInv
  <2>3. QED
    BY <1>8, <1>9, <1>10, <2>1, <2>2 DEF PeerInv, Span
<1>12. QED
  BY <1>4, <1>5, <1>11

\* rlcAssembleSdus keeps the types.
LEMMA AssembleType ==
    ASSUME TypeOK, NEW n \in 1 .. SduLen, AssembleSdu(n), NEW e, e = segOff + n - 1,
           WindowMoved(txNext, e)
    PROVE  TypeOK'
<1> DEFINE seg == [so |-> segOff, end |-> e]
           c == [sn |-> txNext, so |-> segOff, end |-> e]
           done == segOff + n = SduLen
<1>1. /\ txBuf' = [txBuf EXCEPT ![txNext] = Append(txBuf[txNext], seg)]
      /\ chan' = chan \union {c}
      /\ rcvdSz' = IF segOff = 0 THEN [rcvdSz EXCEPT ![txNext] = 0] ELSE rcvdSz
      /\ queued' = IF done THEN queued - 1 ELSE queued
      /\ UNCHANGED <<retxLst, nxtRetx, maxReTxReached, undef, peerNext, got>>
      /\ CheckAndSetPoll(TRUE, FALSE) /\ ReportBo(bo - n, retxBo) /\ queued > 0
  BY Zenon DEF AssembleSdu, Transmit, errVars, peerVars
<1>2. e \in Unit /\ segOff \in Unit /\ txNext \in Sn /\ txNext' \in Sn /\ txNextAck' = txNextAck /\ segOff' \in Unit
  BY DEF WindowMoved
<1>3. seg \in SegType /\ c \in [sn : Sn, so : Unit, end : Unit]
  BY <1>2 DEF SegType
<1> HIDE DEF seg, c, done
<1>4. txBuf' \in [Sn -> Seq(SegType)]
  <2>1. txBuf \in [Sn -> Seq(SegType)]
    BY DEF TypeOK
  <2>2. Append(txBuf[txNext], seg) \in Seq(SegType)
    BY <1>2, <1>3, <2>1, AppendProperties
  <2>3. QED
    BY <1>1, <2>1, <2>2, Zenon
<1>5. rcvdSz' \in [Sn -> 0 .. SduLen]
  <2>1. rcvdSz \in [Sn -> 0 .. SduLen] /\ 0 \in 0 .. SduLen
    BY SduLenAssumption, SMT DEF TypeOK
  <2>2. QED
    BY <1>1, <2>1, Zenon
<1>6. queued' \in Nat
  <2>1. queued \in Nat
    BY DEF TypeOK
  <2>2. QED
    BY <1>1, <2>1, SMT
<1>7. chan' \subseteq [sn : Sn, so : Unit, end : Unit]
  BY <1>1, <1>3 DEF TypeOK
<1>8. pollSn' \in Sn /\ pduWoPoll' \in 0 .. (PollPdu - 1) /\ pollRetxTmr' \in BOOLEAN
  BY <1>1, <1>2, PollType, Zenon
<1>9. bo' \in Int /\ retxBo' \in Int
  <2>1. bo \in Int /\ retxBo \in Int /\ n \in Int
    BY DEF TypeOK
  <2>2. bo - n \in Int
    BY <2>1, SMT
  <2>3. QED
    BY <1>1, <2>1, <2>2, NonNegInt DEF ReportBo
<1>10. QED
  BY <1>1, <1>2, <1>4, <1>5, <1>6, <1>7, <1>8, <1>9, Zenon DEF TypeOK

\* A grant for new data keeps the invariant.
LEMMA AssembleSduSound ==
    ASSUME IInv, NEW n \in 1 .. SduLen, AssembleSdu(n)
    PROVE  IInv'
<1>1. TypeOK /\ WinOK /\ PeerOK /\ Buffers \in BufType /\ PeerInv /\ StInv(Buffers)
  BY Stated DEF IInv
<1>2. PICK e : e = segOff + n - 1
  OBVIOUS
<1>3. PICK sn : sn = txNext
  OBVIOUS
<1>4. WindowMoved(sn, e)
  <2>1. Dist(txNext) <= WinSz
    BY <1>1 DEF PeerInv
  <2>2. QED
    BY <1>1, <1>2, <1>3, <2>1, AssembleWindow DEF WindowMoved
<1>5. PICK st : st = Buffers
  OBVIOUS
<1>6. PICK s2 : s2 = Buffers'
  OBVIOUS
<1>7. /\ st.txBuf = txBuf /\ st.retx = retxLst /\ st.rcvd = rcvdSz /\ st.max = maxReTxReached
      /\ st.nxt = nxtRetx /\ st \in BufType
  BY <1>1, <1>5, BuffersFields
<1>8. /\ s2.txBuf = txBuf' /\ s2.retx = retxLst' /\ s2.rcvd = rcvdSz' /\ s2.max = maxReTxReached'
      /\ s2.nxt = nxtRetx'
  BY <1>6 DEF Buffers
<1>9. Shape(st) /\ Full(st) /\ Laminar(st) /\ GotWhole(st) /\ Arrived(st) /\ Reached(st)
  BY <1>1, <1>5 DEF StInv
<1>10. TypeOK'
  BY <1>1, <1>2, <1>3, <1>4, AssembleType
<1>11. s2 \in BufType
  <2>1. (TypeOK => WinOK /\ PeerOK /\ Buffers \in BufType)'
    BY Stated, PTL
  <2>2. QED
    BY <1>6, <1>10, <2>1
<1> DEFINE seg == [so |-> segOff, end |-> e]
           c == [sn |-> sn, so |-> segOff, end |-> e]
<1>12. /\ txBuf' = [txBuf EXCEPT ![txNext] = Append(@, seg)]
       /\ chan' = chan \union {c}
       /\ rcvdSz' = IF segOff = 0 THEN [rcvdSz EXCEPT ![txNext] = 0] ELSE rcvdSz
       /\ UNCHANGED <<retxLst, nxtRetx, maxReTxReached, peerNext, got>>
  BY <1>2, <1>3, Zenon DEF AssembleSdu, Transmit, errVars, peerVars
<1>13. seg \in SegType /\ seg.so = segOff /\ seg.end = e /\ c.sn = sn /\ c.so = segOff /\ c.end = e
  BY <1>4 DEF SegType, WindowMoved
<1> HIDE DEF seg, c
<1>14. Assembled(st, s2, sn, e, seg)
  <2>1. sn \in Sn
    BY <1>4 DEF WindowMoved
  <2>2. s2.txBuf = [st.txBuf EXCEPT ![sn] = Append(@, seg)]
    BY <1>3, <1>7, <1>8, <1>12
  <2>3. AppendedAt(st, s2, sn, seg)
    BY <1>7, <1>13, <2>1, <2>2, AppendIndex, Zenon
  <2>4. st.rcvd \in [Sn -> 0 .. SduLen]
    BY <1>7, BufFields
  <2>5. /\ \A t \in Sn : t # sn => s2.rcvd[t] = st.rcvd[t]
        /\ s2.rcvd[sn] = IF segOff = 0 THEN 0 ELSE st.rcvd[sn]
    BY <1>3, <1>7, <1>8, <1>12, <2>1, <2>4
  <2>6. QED
    BY <1>7, <1>8, <1>11, <1>12, <1>13, <2>3, <2>5 DEF Assembled
<1>15. TxOrder(s2) /\ RetxOrder(s2)' /\ RetxBelowTx(s2) /\ InWin(s2)'
  BY <1>1, <1>3, <1>4, <1>7, <1>9, <1>14, AssembledShape, Zenon
<1>16. Counts(s2)' /\ Full(s2)'
  BY <1>1, <1>3, <1>4, <1>7, <1>9, <1>14, AssembledCounts
<1>17. Shape(s2)'
  <2>1. TxOrder(s2)' /\ RetxBelowTx(s2)'
    BY <1>15 DEF TxOrder, RetxBelowTx
  <2>2. QED
    BY <1>15, <1>16, <2>1 DEF Shape
<1>18. Laminar(s2)' /\ GotWhole(s2)'
  BY <1>1, <1>3, <1>4, <1>7, <1>9, <1>12, <1>13, <1>14, AssembledWhole
<1>19. Arrived(s2)' /\ Reached(s2)' /\ PeerInv'
  <2>1. peerNext \in Sn /\ \A p \in chan : p.sn \in Sn
    BY <1>1 DEF TypeOK
  <2>2. QED
    BY <1>1, <1>3, <1>4, <1>7, <1>9, <1>12, <1>13, <1>14, <2>1, AssembledRest
<1>20. StInv(Buffers)'
  BY <1>6, <1>8, <1>11, <1>16, <1>17, <1>18, <1>19, StNamedNext
<1>21. QED
  BY <1>10, <1>19, <1>20 DEF IInv

-----------------------------------------------------------------------------
(* A PDU at the peer.                                                      *)

\* Of the SNs of which something was transmitted, those at or above the peer's
\* window start are in its window and the others are below it.
LEMMA SentInWindow ==
    ASSUME WinOK, PeerInv, NEW p \in Sn, Dist(p) <= Dist(txNext), NEW t \in Sn, SentUnits(t) # {}
    PROVE  ModSn(t, p) < WinSz <=> Dist(p) <= Dist(t)
<1> DEFINE a == Dist(p)
           b == Dist(txNext)
           d == Dist(t)
           m == ModSn(t, p)
<1>1. txNextAck \in Sn /\ txNext \in Sn /\ segOff \in Unit
  BY DEF WinOK
<1>2. /\ m = IF a <= d THEN d - a ELSE d - a + SnMod
      /\ d \in Nat /\ a \in Nat /\ m \in Nat
  BY <1>1, Rebase DEF Dist
<1>3. b \in Nat /\ a <= b /\ b <= WinSz /\ WinSz \in Nat \ {0} /\ SnMod = 2 * WinSz /\ (segOff > 0 => b < WinSz)
  BY <1>1, DistNat, WinSzAssumption DEF PeerInv, SnMod
<1>4. d < b \/ (d = b /\ segOff > 0)
  <2>1. d < b \/ (t = txNext /\ 0 .. segOff - 1 # {})
    BY DEF SentUnits
  <2>2. 0 .. segOff - 1 # {} => segOff > 0
    <3>1. segOff \in Nat
      BY <1>1, UnitFacts
    <3>2. QED
      BY <3>1, SMT
  <2>3. QED
    BY <2>1, <2>2
<1> HIDE DEF a, b, d, m
<1>5. m < WinSz <=> a <= d
  BY <1>2, <1>3, <1>4, SMT
<1>6. QED
  BY <1>5 DEF a, d, m

\* A PDU arrives and the peer's window moves to the first SDU not complete.
Now(p) == [got EXCEPT ![p.sn] = @ \union Span(p)]
NotYet(now) == {k \in 0 .. WinSz : now[AddSn(peerNext, k)] # Unit}

\* What the peer has once a PDU has arrived was transmitted, and none of it is
\* of an SN below its window.
LEMMA NowFacts ==
    ASSUME WinOK, PeerOK, PeerInv, NEW p \in chan, p.sn \in Sn, p.so \in Unit, p.end \in Unit,
           PeerDist(p.sn) < WinSz, NEW now, now = Now(p)
    PROVE  /\ now \in [Sn -> SUBSET Unit]
           /\ \A t \in Sn : now[t] = IF t = p.sn THEN got[t] \union Span(p) ELSE got[t]
           /\ \A t \in Sn : now[t] \subseteq SentUnits(t)
           /\ \A t \in Sn : now[t] # {} => Dist(peerNext) <= Dist(t)
<1>1. p.so <= p.end /\ Span(p) \subseteq SentUnits(p.sn) /\ Span(p) \subseteq Unit
  BY SpanFacts DEF PeerInv
<1>2. got \in [Sn -> SUBSET Unit] /\ \A t \in Sn : got[t] \subseteq SentUnits(t)
  BY DEF PeerOK, PeerInv
<1>3. \A t \in Sn : now[t] = IF t = p.sn THEN got[t] \union Span(p) ELSE got[t]
  BY <1>2 DEF Now
<1>4. now \in [Sn -> SUBSET Unit]
  BY <1>1, <1>2 DEF Now
<1>5. Dist(peerNext) <= Dist(p.sn)
  BY PeerDistances
<1>6. ASSUME NEW t \in Sn, now[t] # {}
      PROVE  Dist(peerNext) <= Dist(t)
  <2>1. t = p.sn \/ got[t] # {}
    BY <1>3, <1>6
  <2>2. QED
    BY <1>5, <2>1 DEF PeerInv
<1>7. QED
  BY <1>1, <1>2, <1>3, <1>4, <1>6

\* The peer's window moves over complete SDUs only and not beyond txNext.
LEMMA NextFacts ==
    ASSUME WinOK, PeerOK, PeerInv, NEW now \in [Sn -> SUBSET Unit],
           \A t \in Sn : now[t] \subseteq SentUnits(t),
           NEW m, m = Min(NotYet(now)), NEW next, next = AddSn(peerNext, m)
    PROVE  /\ next \in Sn /\ now[next] # Unit
           /\ m \in Nat /\ Dist(next) = Dist(peerNext) + m /\ Dist(next) <= Dist(txNext)
           /\ PeerDist(next) = m
           /\ \A t \in Sn : PeerDist(t) < m <=> Dist(peerNext) <= Dist(t) /\ Dist(t) < Dist(next)
           /\ \A t \in Sn : PeerDist(t) < m => now[t] = Unit
<1> DEFINE K == NotYet(now)
           k == PeerDist(txNext)
<1>1. txNextAck \in Sn /\ txNext \in Sn /\ segOff \in Unit /\ peerNext \in Sn
  BY DEF WinOK, PeerOK
<1>2. /\ Dist(txNext) \in Nat /\ Dist(peerNext) \in Nat /\ k \in Nat
      /\ k = Dist(txNext) - Dist(peerNext) /\ Dist(peerNext) <= Dist(txNext) /\ Dist(txNext) <= WinSz
  BY <1>1, PeerDistances DEF PeerInv
<1>3. WinSz \in Nat \ {0} /\ SnMod = 2 * WinSz
  BY WinSzAssumption DEF SnMod
<1>4. k \in K
  <2>1. k \in 0 .. WinSz
    BY <1>2, <1>3, SMT
  <2>2. AddSn(peerNext, k) = txNext
    BY <1>1, AddSnModSn DEF PeerDist
  <2>3. now[txNext] # Unit
    <3>1. ~(Dist(txNext) < Dist(txNext))
      BY <1>2, SMT
    <3>2. SentUnits(txNext) = 0 .. segOff - 1
      BY <3>1 DEF SentUnits
    <3>3. LastUnit \in Unit /\ LastUnit \notin 0 .. segOff - 1
      <4>1. LastUnit \in Unit /\ segOff \in Nat /\ segOff < SduLen /\ SduLen \in Nat
        BY <1>1, UnitFacts
      <4>2. QED
        BY <4>1, SMT DEF LastUnit
    <3>4. QED
      BY <1>1, <3>2, <3>3, Zenon
  <2>4. QED
    BY <2>1, <2>2, <2>3 DEF NotYet
<1>5. K \in SUBSET Nat
  <2>1. 0 .. WinSz \subseteq Nat
    BY <1>3, SMT
  <2>2. QED
    BY <2>1 DEF NotYet
<1> HIDE DEF K
<1>6. m \in K /\ \A y \in K : m <= y
  BY <1>4, <1>5, MinOfNaturals DEF K
<1>7. m \in 0 .. WinSz /\ now[AddSn(peerNext, m)] # Unit /\ m <= k /\ m \in Nat
  BY <1>4, <1>5, <1>6, Zenon DEF K, NotYet
<1>8. m \in Sn /\ m \in 0 .. SnMod
  BY <1>3, <1>7, SMT DEF Sn
<1>9. next \in Sn /\ PeerDist(next) = m
  BY <1>1, <1>8, AddSnType, ModSnAddSn DEF PeerDist
<1>10. Dist(next) = Dist(peerNext) + m
  <2> DEFINE a == Dist(next)
             b == Dist(peerNext)
             d == Dist(txNext)
  <2>1. m = IF b <= a THEN a - b ELSE a - b + SnMod
    BY <1>1, <1>9, Rebase DEF Dist, PeerDist
  <2>2. a \in Nat /\ b \in Nat /\ d \in Nat /\ m <= d - b /\ d <= WinSz
    BY <1>1, <1>2, <1>7, <1>9, DistNat
  <2> HIDE DEF a, b, d
  <2>3. a = b + m
    BY <1>3, <1>7, <2>1, <2>2, SMT
  <2>4. QED
    BY <2>3 DEF a, b
<1>11. Dist(next) <= Dist(txNext)
  BY <1>2, <1>7, <1>10, SMT
<1>12. ASSUME NEW t \in Sn
       PROVE  PeerDist(t) < m <=> Dist(peerNext) <= Dist(t) /\ Dist(t) < Dist(next)
  <2> DEFINE a == PeerDist(t)
             b == Dist(peerNext)
             d == Dist(t)
  <2>1. /\ a = IF b <= d THEN d - b ELSE d - b + SnMod
        /\ a \in Nat /\ b \in Nat /\ d \in Nat
    <3>1. /\ ModSn(t, peerNext) = IF ModSn(peerNext, txNextAck) <= ModSn(t, txNextAck)
                                  THEN ModSn(t, txNextAck) - ModSn(peerNext, txNextAck)
                                  ELSE ModSn(t, txNextAck) - ModSn(peerNext, txNextAck) + SnMod
          /\ ModSn(t, peerNext) \in Nat /\ ModSn(peerNext, txNextAck) \in Nat /\ ModSn(t, txNextAck) \in Nat
      BY <1>1, Rebase
    <3>2. a = ModSn(t, peerNext) /\ b = ModSn(peerNext, txNextAck) /\ d = ModSn(t, txNextAck)
      BY DEF Dist, PeerDist
    <3> HIDE DEF a, b, d
    <3>3. QED
      BY <3>1, <3>2, Zenon
  <2>2. b + m <= WinSz
    <3> DEFINE x == Dist(txNext)
               y == k
    <3>1. x \in Nat /\ b \in Nat /\ y \in Nat /\ y = x - b /\ x <= WinSz /\ m <= y /\ m \in Nat
      BY <1>2, <1>7
    <3> HIDE DEF x, y, b, k
    <3>2. QED
      BY <1>3, <3>1, SMT
  <2> HIDE DEF a, b, d
  <2>3. a < m <=> b <= d /\ d < b + m
    BY <1>3, <1>7, <2>1, <2>2, SMT
  <2>4. QED
    BY <1>10, <2>3 DEF a, b, d
<1>13. ASSUME NEW t \in Sn, PeerDist(t) < m
       PROVE  now[t] = Unit
  <2>1. PeerDist(t) \in Nat /\ AddSn(peerNext, PeerDist(t)) = t
    BY <1>1, AddSnModSn, Rebase DEF PeerDist
  <2> DEFINE a == PeerDist(t)
  <2>2. a \in Nat /\ a < m
    BY <1>13, <2>1
  <2> HIDE DEF a
  <2>3. a \in 0 .. WinSz /\ ~(m <= a)
    BY <1>3, <1>7, <2>2, SMT
  <2>4. a \notin K
    BY <1>6, <2>3
  <2>5. QED
    BY <2>1, <2>3, <2>4 DEF K, NotYet, a
<1>14. QED
  BY <1>7, <1>9, <1>10, <1>11, <1>12, <1>13

\* What the peer has after a PDU arrived: whatever it had, the PDU's units, and
\* nothing below its window.
Received(now, next) ==
    /\ now \in [Sn -> SUBSET Unit] /\ next \in Sn /\ now[next] # Unit
    /\ \A t \in Sn : got[t] \subseteq now[t] /\ now[t] \subseteq SentUnits(t)
    /\ \A t \in Sn : now[t] # {} => Dist(peerNext) <= Dist(t)
    /\ Dist(peerNext) <= Dist(next) /\ Dist(next) <= Dist(txNext)
    /\ peerNext' = next
    /\ got' = [t \in Sn |-> IF Dist(peerNext) <= Dist(t) /\ Dist(t) < Dist(next) THEN {} ELSE now[t]]
    /\ UNCHANGED <<txNext, txNextAck, segOff, chan>>

\* The peer has no less than before of every SN in the transmitter's window.
LEMMA ReceivedPeer ==
    ASSUME WinOK, PeerOK, PeerInv, NEW now, NEW next, Received(now, next)
    PROVE  /\ PeerInv' /\ PeerOK'
           /\ \A t \in Sn : SentUnits(t) # {} => PeerHas(t) \subseteq PeerHas(t)'
<1>1. /\ \A sn : SentUnits(sn)' = SentUnits(sn) /\ UnsentUnits(sn)' = UnsentUnits(sn)
      /\ \A sn : Dist(sn)' = Dist(sn)
  BY SameWindow DEF Received
<1>2. /\ next \in Sn /\ peerNext' = next /\ now \in [Sn -> SUBSET Unit] /\ peerNext \in Sn
      /\ got' = [t \in Sn |-> IF Dist(peerNext) <= Dist(t) /\ Dist(t) < Dist(next) THEN {} ELSE now[t]]
      /\ Dist(peerNext) <= Dist(next) /\ Dist(next) <= Dist(txNext)
      /\ UNCHANGED <<txNext, txNextAck, segOff, chan>>
  BY DEF Received, PeerOK
<1>3. PeerOK'
  <2>1. got' \in [Sn -> SUBSET Unit]
    BY <1>2
  <2>2. QED
    BY <1>2, <2>1 DEF PeerOK
<1>4. \A t \in Sn : Dist(t) \in Nat
  BY DistNat DEF WinOK
<1>5. ASSUME NEW t \in Sn, got'[t] # {}
      PROVE  got'[t] \subseteq SentUnits(t)' /\ Dist(peerNext)' <= Dist(t)'
  <2>1. got'[t] = now[t] /\ ~(Dist(peerNext) <= Dist(t) /\ Dist(t) < Dist(next))
    BY <1>2, <1>5
  <2>2. Dist(peerNext) <= Dist(t)
    BY <1>5, <2>1 DEF Received
  <2>3. Dist(next) <= Dist(t)
    BY <1>2, <1>4, <2>1, <2>2, SMT
  <2>4. Dist(peerNext)' = Dist(next) /\ Dist(t)' = Dist(t)
    BY <1>1, <1>2 DEF Dist
  <2>5. now[t] \subseteq SentUnits(t)
    BY DEF Received
  <2>6. QED
    BY <1>1, <2>1, <2>3, <2>4, <2>5
<1>6. PeerInv'
  <2>1. Dist(peerNext)' = Dist(next) /\ Dist(txNext)' = Dist(txNext)
    BY <1>2 DEF Dist
  <2>2. Dist(txNext)' <= WinSz /\ (segOff' > 0 => Dist(txNext)' < WinSz) /\ Dist(peerNext)' <= Dist(txNext)'
    BY <1>2, <2>1 DEF PeerInv
  <2>3. \A p \in chan' : p.so <= p.end /\ Span(p) \subseteq SentUnits(p.sn)'
    BY <1>1, <1>2 DEF PeerInv
  <2>4. got'[peerNext'] # Unit
    <3>1. ~(Dist(next) < Dist(next))
      BY <1>2, <1>4, SMT
    <3>2. got'[next] = now[next]
      BY <1>2, <3>1
    <3>3. QED
      BY <1>2, <3>2, Zenon DEF Received
  <2>5. QED
    BY <1>5, <2>2, <2>3, <2>4 DEF PeerInv, Span
<1>7. ASSUME NEW t \in Sn, SentUnits(t) # {}
      PROVE  PeerHas(t) \subseteq PeerHas(t)'
  <2>1. (ModSn(t, peerNext) < WinSz <=> Dist(peerNext) <= Dist(t)) /\ Dist(peerNext) <= Dist(txNext)
    BY <1>2, <1>7, SentInWindow DEF PeerInv
  <2>2. ModSn(t, next) < WinSz <=> Dist(next) <= Dist(t)
    BY <1>2, <1>7, SentInWindow
  <2>3. PeerHas(t)' = IF Dist(next) <= Dist(t) THEN got'[t] ELSE Unit
    BY <1>2, <2>2 DEF PeerHas
  <2>4. PeerHas(t) = IF Dist(peerNext) <= Dist(t) THEN got[t] ELSE Unit
    BY <2>1 DEF PeerHas
  <2>5. CASE Dist(next) <= Dist(t)
    <3>1. ~(Dist(t) < Dist(next)) /\ Dist(peerNext) <= Dist(t)
      BY <1>2, <1>4, <2>5, SMT
    <3>2. got'[t] = now[t]
      BY <1>2, <3>1
    <3>3. got[t] \subseteq now[t]
      BY DEF Received
    <3>4. QED
      BY <2>3, <2>4, <2>5, <3>1, <3>2, <3>3
  <2>6. CASE ~(Dist(next) <= Dist(t))
    <3>1. got[t] \subseteq Unit
      BY DEF PeerOK
    <3>2. QED
      BY <2>3, <2>4, <2>6, <3>1
  <2>7. QED
    BY <2>5, <2>6
<1>8. QED
  BY <1>3, <1>6, <1>7

\* Reception at the peer, in these words.
LEMMA PeerRcvMoves ==
    ASSUME IInv, NEW p \in chan, PeerRcv(p)
    PROVE  \E next \in Sn : Received(Now(p), next)
<1>1. WinOK /\ PeerOK /\ PeerInv /\ TypeOK
  BY Stated DEF IInv
<1>2. p.sn \in Sn /\ p.so \in Unit /\ p.end \in Unit
  BY <1>1 DEF TypeOK
<1>3. PICK now : now = Now(p)
  OBVIOUS
<1>4. PICK m : m = Min(NotYet(now))
  OBVIOUS
<1>5. PICK next : next = AddSn(peerNext, m)
  OBVIOUS
<1>6. /\ PeerDist(p.sn) < WinSz /\ peerNext' = next
      /\ got' = [sn \in Sn |-> IF PeerDist(sn) < PeerDist(next) THEN {} ELSE now[sn]]
      /\ UNCHANGED <<txNext, txNextAck, segOff, chan>>
  <2> DEFINE nw == [got EXCEPT ![p.sn] = @ \union (p.so .. p.end)]
             K == {k \in 0 .. WinSz : nw[AddSn(peerNext, k)] # Unit}
             nx == AddSn(peerNext, Min(K))
  <2>5. /\ PeerDist(p.sn) < WinSz /\ peerNext' = nx
        /\ got' = [sn \in Sn |-> IF PeerDist(sn) < PeerDist(nx) THEN {} ELSE nw[sn]]
    BY Zenon DEF PeerRcv
  <2>6. nw = now
    BY <1>3 DEF Now, Span
  <2> HIDE DEF nw
  <2>7. K = NotYet(now)
    BY <2>6 DEF NotYet
  <2> HIDE DEF K
  <2>8. nx = next
    BY <1>4, <1>5, <2>7
  <2> HIDE DEF nx
  <2>1. /\ PeerDist(p.sn) < WinSz /\ peerNext' = next
        /\ got' = [sn \in Sn |-> IF PeerDist(sn) < PeerDist(next) THEN {} ELSE now[sn]]
    BY <2>5, <2>6, <2>8
  <2>4. UNCHANGED <<winVars, sduVars, bufVars, boVars, pollVars, errVars, chan>>
    BY Zenon DEF PeerRcv
  <2>2. UNCHANGED <<txNext, txNextAck, segOff, chan>>
    BY <2>4 DEF winVars, sduVars
  <2>3. QED
    BY <2>1, <2>2
<1>7. /\ now \in [Sn -> SUBSET Unit]
      /\ \A t \in Sn : now[t] = IF t = p.sn THEN got[t] \union Span(p) ELSE got[t]
      /\ \A t \in Sn : now[t] \subseteq SentUnits(t)
      /\ \A t \in Sn : now[t] # {} => Dist(peerNext) <= Dist(t)
  BY <1>1, <1>2, <1>3, <1>6, NowFacts
<1>8. /\ next \in Sn /\ now[next] # Unit
      /\ m \in Nat /\ Dist(next) = Dist(peerNext) + m /\ Dist(next) <= Dist(txNext)
      /\ PeerDist(next) = m
      /\ \A t \in Sn : PeerDist(t) < m <=> Dist(peerNext) <= Dist(t) /\ Dist(t) < Dist(next)
  BY <1>1, <1>4, <1>5, <1>7, NextFacts
<1>9. got' = [t \in Sn |-> IF Dist(peerNext) <= Dist(t) /\ Dist(t) < Dist(next) THEN {} ELSE now[t]]
  BY <1>6, <1>8
<1>10. Dist(peerNext) <= Dist(next)
  <2>1. Dist(peerNext) \in Nat
    BY <1>1, DistNat DEF WinOK, PeerOK
  <2>2. QED
    BY <1>8, <2>1, SMT
<1>11. \A t \in Sn : got[t] \subseteq now[t]
  BY <1>7
<1>12. Received(now, next)
  BY <1>6, <1>7, <1>8, <1>9, <1>10, <1>11 DEF Received
<1>13. QED
  BY <1>3, <1>8, <1>12

\* A PDU that arrives at the peer, first or again, keeps the invariant.
LEMMA PeerRcvSound ==
    ASSUME IInv, NEW p \in chan, PeerRcv(p)
    PROVE  IInv'
<1>1. WinOK /\ PeerOK /\ PeerInv /\ TypeOK /\ StInv(Buffers)
  BY Stated DEF IInv
<1>2. PICK next \in Sn : Received(Now(p), next)
  BY PeerRcvMoves
<1>3. /\ PeerInv' /\ PeerOK'
      /\ \A t \in Sn : SentUnits(t) # {} => PeerHas(t) \subseteq PeerHas(t)'
  BY <1>1, <1>2, ReceivedPeer
<1>4. UNCHANGED <<winVars, sduVars, bufVars, boVars, pollVars, errVars, chan>>
  BY Zenon DEF PeerRcv
<1>5. TypeOK'
  BY <1>1, <1>3, <1>4 DEF TypeOK, PeerOK, winVars, sduVars, bufVars, boVars, pollVars, errVars
<1>6. PICK st : st = Buffers
  OBVIOUS
<1>7. st = Buffers' /\ st.max = maxReTxReached' /\ st \in BufType
  BY <1>1, <1>4, <1>6, Stated, BuffersFields DEF Buffers, winVars, sduVars, bufVars, boVars, errVars
<1>8. Shape(st) /\ Full(st) /\ Laminar(st) /\ GotWhole(st) /\ Arrived(st) /\ Reached(st)
  BY <1>1, <1>6 DEF StInv
<1>9. Shape(st)' /\ Full(st)' /\ \A sn : SentUnits(sn)' = SentUnits(sn)
  BY <1>4, <1>8, SameWindow DEF winVars, sduVars
<1>10. Laminar(st)' /\ Reached(st)'
  BY <1>4, <1>8 DEF Laminar, Reached, Pieces, Span, Linked
<1>11. GotWhole(st)'
  <2>1. \A q \in Pieces(st) : q[1] \in Sn
    BY DEF Pieces
  <2>2. ASSUME NEW q \in Pieces(st)
        PROVE  IsWhole(q[2], q[3], got'[q[1]])
    <3>1. q[1] \in Sn
      BY <2>1
    <3>2. /\ got' = [t \in Sn |-> IF Dist(peerNext) <= Dist(t) /\ Dist(t) < Dist(next) THEN {} ELSE Now(p)[t]]
          /\ got \in [Sn -> SUBSET Unit]
      BY <1>1, <1>2 DEF Received, PeerOK
    <3>3. \/ got'[q[1]] = {}
          \/ got'[q[1]] = got[q[1]]
          \/ got'[q[1]] = got[q[1]] \union Span(p) /\ p.sn = q[1]
      BY <3>1, <3>2 DEF Now
    <3>4. IsWhole(q[2], q[3], got[q[1]])
      BY <1>8 DEF GotWhole, Wholes
    <3>5. p.sn = q[1] => IsWhole(q[2], q[3], Span(p))
      BY <1>8 DEF Laminar
    <3>6. QED
      BY <3>3, <3>4, <3>5 DEF IsWhole
  <2>3. QED
    BY <2>2 DEF GotWhole, Wholes, Pieces
<1>12. Arrived(st)'
  <2>1. SUFFICES ASSUME ~st.max, NEW t \in Sn
                 PROVE  SentUnits(t) \ UnitsAt(st, t) \subseteq PeerHas(t)'
    BY <1>9 DEF Arrived, UnitsAt, TxUnits, RetxUnits
  <2>2. SentUnits(t) \ UnitsAt(st, t) \subseteq PeerHas(t)
    BY <1>8, <2>1 DEF Arrived
  <2>3. QED
    BY <1>3, <2>2
<1>13. StInv(Buffers)'
  BY <1>7, <1>9, <1>10, <1>11, <1>12, StNamedNext
<1>14. QED
  BY <1>3, <1>5, <1>13 DEF IInv

-----------------------------------------------------------------------------
(* A report: rlcDlUdxStaUpdReq and rlcAmmDlHndlStatusPdu.                  *)

\* A piece is among the units held.
LEMMA PieceHeld ==
    ASSUME NEW st \in BufType, NEW p \in Pieces(st)
    PROVE  p[2] .. p[3] \subseteq UnitsAt(st, p[1])
<1>1. p[1] \in Sn /\ p[2] \in Unit /\ p[3] \in Unit
  BY PieceUnits
<1>2. p[2] .. p[3] \subseteq Unit
  BY <1>1, UnitFacts, SMT DEF Unit
<1>3. \/ \E i \in DOMAIN st.retx : st.retx[i].sn = p[1] /\ st.retx[i].so = p[2] /\ st.retx[i].end = p[3]
      \/ \E k \in DOMAIN st.txBuf[p[1]] : st.txBuf[p[1]][k].so = p[2] /\ st.txBuf[p[1]][k].end = p[3]
  BY DEF Pieces
<1>4. CASE \E i \in DOMAIN st.retx : st.retx[i].sn = p[1] /\ st.retx[i].so = p[2] /\ st.retx[i].end = p[3]
  BY <1>2, <1>4 DEF UnitsAt, RetxUnits, Span
<1>5. CASE \E k \in DOMAIN st.txBuf[p[1]] : st.txBuf[p[1]][k].so = p[2] /\ st.txBuf[p[1]][k].end = p[3]
  BY <1>2, <1>5 DEF UnitsAt, TxUnits, Span
<1>6. QED
  BY <1>3, <1>4, <1>5

\* What a report with ackSn ack tells the sender is true of what is held.
LEMMA ReportTruthful ==
    ASSUME IInv, NEW ack \in Sn, CanReport(ack), Dist(ack) <= Dist(txNext),
           NEW ns, ns = Report(ack).nacks, NEW d, d = Dist(ack)
    PROVE  Truthful(Pieces(Buffers), Lacks(ack), ns, d)
<1>1. WinOK /\ PeerOK /\ PeerInv /\ Buffers \in BufType /\ StInv(Buffers)
  BY Stated DEF IInv
<1>2. Names(Lacks(ack), ns, d)
  BY <1>1, ReportNames
<1>3. d \in Nat /\ d <= Dist(txNext)
  BY <1>1, DistNat DEF WinOK
<1>4. ASSUME NEW p \in Pieces(Buffers)
      PROVE  IsWhole(p[2], p[3], Lacks(ack)[p[1]])
  <2>1. p[1] \in Sn /\ p[2] \in Unit /\ p[3] \in Unit
    BY <1>1, <1>4, PieceUnits
  <2>2. CASE Dist(p[1]) < Dist(ack)
    <3>1. Lacks(ack)[p[1]] = Unit \ PeerHas(p[1])
      BY <2>1, <2>2 DEF Lacks
    <3>2. IsWhole(p[2], p[3], got[p[1]])
      BY <1>1, <1>4 DEF StInv, GotWhole, Wholes
    <3>3. p[2] .. p[3] \subseteq Unit
      BY <2>1, UnitFacts, SMT DEF Unit
    <3>4. PeerHas(p[1]) = got[p[1]] \/ PeerHas(p[1]) = Unit
      BY DEF PeerHas
    <3>5. QED
      BY <3>1, <3>2, <3>3, <3>4 DEF IsWhole
  <2>3. CASE ~(Dist(p[1]) < Dist(ack))
    <3>1. Lacks(ack)[p[1]] = UnitsAt(Buffers, p[1])
      BY <2>1, <2>3 DEF Lacks
    <3>2. QED
      BY <1>1, <1>4, <3>1, PieceHeld DEF IsWhole
  <2>4. QED
    BY <2>2, <2>3
<1>5. QED
  BY <1>2, <1>3, <1>4 DEF Truthful

\* The handler of any report the peer can send releases nothing the peer lacks,
\* and what the report asks for awaits retransmission.
LEMMA ReportHandled ==
    ASSUME IInv, NEW ack \in Sn, CanReport(ack), Dist(ack) <= Dist(txNext),
           NEW rep, rep = Report(ack)
    PROVE  /\ Handled(Pieces(Buffers), Lacks(ack), rep.nacks, Dist(ack), AfterStatus(rep))
           /\ Names(Lacks(ack), rep.nacks, Dist(ack)) /\ rep.ackSn = ack
           /\ Len(rep.nacks) > 0 => rep.nacks[1].sn = peerNext
           /\ Len(rep.nacks) = 0 => ack = peerNext
<1>1. WinOK /\ PeerOK /\ PeerInv /\ Buffers \in BufType /\ StInv(Buffers)
  BY Stated DEF IInv
<1>2. PICK ns : ns = rep.nacks
  OBVIOUS
<1>3. PICK d : d = Dist(ack)
  OBVIOUS
<1>4. PICK st : st = Buffers
  OBVIOUS
<1>5. PICK M : M = Lacks(ack)
  OBVIOUS
<1>6. PICK P : P = Pieces(st)
  OBVIOUS
<1>7. /\ Names(M, ns, d) /\ rep.ackSn = ack
      /\ Len(ns) > 0 => ns[1].sn = peerNext
      /\ Len(ns) = 0 => ack = peerNext
  BY <1>1, <1>2, <1>3, <1>5, ReportNames
<1>8. Truthful(P, M, ns, d)
  BY <1>2, <1>3, <1>4, <1>5, <1>6, ReportTruthful
<1>9. Shape(st) /\ Full(st) /\ Arrived(st) /\ st \in BufType /\ (maxReTxReached => st.max)
  BY <1>1, <1>4 DEF StInv
<1>10. Keeps(M, st)
  <2>1. SUFFICES ASSUME ~st.max, NEW t \in Sn
                 PROVE  M[t] \subseteq UnitsAt(st, t)
    BY DEF Keeps
  <2>2. CASE Dist(t) < Dist(ack)
    <3>1. M[t] = Unit \ PeerHas(t)
      BY <1>5, <2>2 DEF Lacks
    <3>2. Dist(t) < Dist(txNext)
      <4>1. Dist(t) \in Nat /\ Dist(ack) \in Nat /\ Dist(txNext) \in Nat
        BY <1>1, DistNat DEF WinOK
      <4>2. QED
        BY <2>2, <4>1, SMT
    <3>3. SentUnits(t) = Unit
      BY <3>2 DEF SentUnits
    <3>4. QED
      BY <1>9, <2>1, <3>1, <3>3 DEF Arrived
  <2>3. CASE ~(Dist(t) < Dist(ack))
    BY <1>4, <1>5, <2>3 DEF Lacks
  <2>4. QED
    BY <2>2, <2>3
<1>11. Good(P, M, st)
  BY <1>6, <1>9, <1>10, GoodShape
<1>12. d = Dist(rep.ackSn)
  BY <1>3, <1>7
<1>13. Handled(P, M, ns, d, AfterStatus(rep))
  BY <1>1, <1>2, <1>4, <1>8, <1>9, <1>11, <1>12, StatusDone
<1>14. QED
  BY <1>2, <1>3, <1>4, <1>5, <1>6, <1>7, <1>13

\* The window starts at the peer's: distances shrink, and what lies below is
\* out of it.
LEMMA Advanced ==
    ASSUME WinOK, PeerOK, PeerInv, txNextAck' = peerNext, UNCHANGED <<txNext, segOff, peerNext>>
    PROVE  /\ \A t \in Sn : Dist(peerNext) <= Dist(t) => Dist(t)' = Dist(t) - Dist(peerNext)
           /\ \A t \in Sn : ~(Dist(peerNext) <= Dist(t)) => ~(Dist(t)' <= Dist(txNext)')
           /\ \A t \in Sn : SentUnits(t)' = IF Dist(peerNext) <= Dist(t) THEN SentUnits(t) ELSE {}
           /\ \A t : UnsentUnits(t)' = UnsentUnits(t)
           /\ Dist(peerNext)' = 0 /\ WinOK'
           /\ Dist(txNext)' <= WinSz /\ (segOff' > 0 => Dist(txNext)' < WinSz)
           /\ \A t \in Sn : Dist(t) \in Nat /\ Dist(t)' \in Nat
<1>1. txNextAck \in Sn /\ txNext \in Sn /\ peerNext \in Sn /\ segOff \in Unit
  BY DEF WinOK, PeerOK
<1>2. WinSz \in Nat \ {0} /\ SnMod = 2 * WinSz
  BY WinSzAssumption DEF SnMod
<1>3. \A t : Dist(t)' = ModSn(t, peerNext)
  BY DEF Dist
<1>4. ASSUME NEW t \in Sn
      PROVE  /\ Dist(t)' = IF Dist(peerNext) <= Dist(t) THEN Dist(t) - Dist(peerNext)
                           ELSE Dist(t) - Dist(peerNext) + SnMod
             /\ Dist(t) \in Nat /\ Dist(t)' \in Nat /\ Dist(peerNext) \in Nat
  <2>1. /\ ModSn(t, peerNext) = IF ModSn(peerNext, txNextAck) <= ModSn(t, txNextAck)
                                THEN ModSn(t, txNextAck) - ModSn(peerNext, txNextAck)
                                ELSE ModSn(t, txNextAck) - ModSn(peerNext, txNextAck) + SnMod
        /\ ModSn(t, peerNext) \in Nat /\ ModSn(peerNext, txNextAck) \in Nat /\ ModSn(t, txNextAck) \in Nat
    BY <1>1, <1>4, Rebase
  <2>2. /\ Dist(t)' = ModSn(t, peerNext) /\ Dist(t) = ModSn(t, txNextAck)
        /\ Dist(peerNext) = ModSn(peerNext, txNextAck)
    BY <1>3 DEF Dist
  <2>3. QED
    BY <2>1, <2>2, Zenon
<1>5. /\ Dist(peerNext) <= Dist(txNext) /\ Dist(txNext) <= WinSz /\ (segOff > 0 => Dist(txNext) < WinSz)
      /\ Dist(txNext) \in Nat /\ Dist(peerNext) \in Nat
  BY <1>1, <1>4 DEF PeerInv
<1>6. Dist(txNext)' = Dist(txNext) - Dist(peerNext)
  <2>1. ModSn(txNext, peerNext) = Dist(txNext) - Dist(peerNext)
    BY <1>1, <1>3, <1>4, <1>5
  <2>2. QED
    BY <2>1 DEF Dist
<1>7. Dist(peerNext)' = 0
  <2>1. ModSn(peerNext, peerNext) = 0
    BY <1>1, ModSnType
  <2>2. QED
    BY <2>1 DEF Dist
<1>8. \A t \in Sn : Dist(peerNext) <= Dist(t) => Dist(t)' = Dist(t) - Dist(peerNext)
  BY <1>4
<1>10. ASSUME NEW t \in Sn, ~(Dist(peerNext) <= Dist(t))
       PROVE  ~(Dist(t)' <= Dist(txNext)')
  <2> DEFINE a == Dist(peerNext)
             b == Dist(txNext)
             d == Dist(t)
             d2 == Dist(t)'
             b2 == Dist(txNext)'
  <2>1. d2 = d - a + SnMod /\ b2 = b - a /\ a \in Nat /\ b \in Nat /\ d \in Nat /\ b <= WinSz
    BY <1>4, <1>5, <1>6, <1>10
  <2> HIDE DEF a, b, d, d2, b2
  <2>2. ~(d2 <= b2)
    BY <1>2, <2>1, SMT
  <2>3. QED
    BY <2>2 DEF d2, b2
<1>11. ASSUME NEW t \in Sn
       PROVE  SentUnits(t)' = IF Dist(peerNext) <= Dist(t) THEN SentUnits(t) ELSE {}
  <2>1. CASE Dist(peerNext) <= Dist(t)
    <3> DEFINE a == Dist(peerNext)
               b == Dist(txNext)
               d == Dist(t)
               d2 == Dist(t)'
               b2 == Dist(txNext)'
    <3>1. d2 = d - a /\ b2 = b - a /\ a \in Nat /\ b \in Nat /\ d \in Nat
      BY <1>4, <1>5, <1>6, <2>1
    <3> HIDE DEF a, b, d, d2, b2
    <3>2. d2 < b2 <=> d < b
      BY <3>1, SMT
    <3>3. Dist(t)' < Dist(txNext)' <=> Dist(t) < Dist(txNext)
      BY <3>2 DEF b, d, d2, b2
    <3>4. QED
      BY <2>1, <3>3 DEF SentUnits
  <2>2. CASE ~(Dist(peerNext) <= Dist(t))
    <3>1. ~(Dist(t)' <= Dist(txNext)') /\ Dist(t)' \in Nat /\ Dist(txNext)' \in Nat
      <4>1. Dist(txNext)' = ModSn(txNext, peerNext) /\ ModSn(txNext, peerNext) \in Nat
        <5>1. ModSn(txNext, peerNext) \in Sn
          BY <1>1, ModSnType
        <5>2. QED
          BY <5>1 DEF Dist, Sn
      <4>2. QED
        BY <1>4, <1>10, <2>2, <4>1
    <3>2. ~(Dist(t)' < Dist(txNext)') /\ t # txNext
      <4>1. ~(Dist(t)' < Dist(txNext)')
        BY <3>1, SMT
      <4>2. QED
        BY <1>5, <2>2, <4>1
    <3>3. QED
      BY <2>2, <3>2 DEF SentUnits
  <2>3. QED
    BY <2>1, <2>2
<1>12. \A t : UnsentUnits(t)' = UnsentUnits(t)
  BY DEF UnsentUnits
<1>13. Dist(txNext)' <= WinSz /\ (segOff' > 0 => Dist(txNext)' < WinSz)
  <2> DEFINE b2 == Dist(txNext)'
             a == Dist(peerNext)
             b == Dist(txNext)
  <2>1. b2 = b - a /\ a \in Nat /\ b \in Nat /\ b <= WinSz /\ (segOff > 0 => b < WinSz)
    BY <1>5, <1>6
  <2> HIDE DEF a, b, b2
  <2>2. b2 <= WinSz /\ (segOff > 0 => b2 < WinSz)
    BY <1>2, <2>1, SMT
  <2>3. QED
    BY <2>2 DEF b2
<1>14. WinOK'
  BY <1>1 DEF WinOK
<1>15. QED
  BY <1>4, <1>7, <1>8, <1>10, <1>11, <1>12, <1>13, <1>14

\* The lists of a handled report, seen from the new start of the window,
LEMMA AdvancedShape ==
    ASSUME WinOK, PeerOK, PeerInv, txNextAck' = peerNext, UNCHANGED <<txNext, segOff, peerNext>>,
           NEW st \in BufType, Shape(st), Full(st), CleanBelow(st, Dist(peerNext))
    PROVE  Shape(st)' /\ Full(st)'
<1>1. /\ \A t \in Sn : Dist(peerNext) <= Dist(t) => Dist(t)' = Dist(t) - Dist(peerNext)
      /\ \A t \in Sn : SentUnits(t)' = IF Dist(peerNext) <= Dist(t) THEN SentUnits(t) ELSE {}
      /\ \A t : UnsentUnits(t)' = UnsentUnits(t)
      /\ \A t \in Sn : Dist(t) \in Nat /\ Dist(t)' \in Nat
  BY Advanced
<1>2. peerNext \in Sn /\ txNext \in Sn /\ Dist(peerNext) <= Dist(txNext)
  BY DEF WinOK, PeerOK, PeerInv
<1>3. ASSUME NEW t \in Sn, NEW u \in Sn, Dist(peerNext) <= Dist(t), Dist(peerNext) <= Dist(u)
      PROVE  Dist(t)' < Dist(u)' <=> Dist(t) < Dist(u)
  <2> DEFINE a == Dist(peerNext)
             x == Dist(t)
             y == Dist(u)
             x2 == Dist(t)'
             y2 == Dist(u)'
  <2>1. a \in Nat /\ x \in Nat /\ y \in Nat /\ x2 = x - a /\ y2 = y - a
    BY <1>1, <1>2, <1>3
  <2> HIDE DEF a, x, y, x2, y2
  <2>2. x2 < y2 <=> x < y
    BY <2>1, SMT
  <2>3. QED
    BY <2>2 DEF x, y, x2, y2
<1>4. \A i \in DOMAIN st.retx : st.retx[i].sn \in Sn /\ Dist(peerNext) <= Dist(st.retx[i].sn)
  <2>1. \A i \in DOMAIN st.retx : st.retx[i].sn \in Sn /\ Dist(st.retx[i].sn) >= Dist(peerNext)
    BY RetxEntries DEF CleanBelow
  <2>2. \A i \in DOMAIN st.retx : Dist(st.retx[i].sn) \in Nat /\ Dist(peerNext) \in Nat
    BY <1>1, <1>2, <2>1
  <2>3. SUFFICES ASSUME NEW i \in DOMAIN st.retx
                 PROVE  Dist(peerNext) <= Dist(st.retx[i].sn)
    BY <2>1
  <2>4. QED
    BY <2>1, <2>2, SMT
<1>5. ASSUME NEW t \in Sn, st.txBuf[t] # <<>>
      PROVE  Dist(peerNext) <= Dist(t)
  <2>1. ~(Dist(t) < Dist(peerNext))
    BY <1>5 DEF CleanBelow
  <2>2. QED
    BY <1>1, <1>2, <2>1, SMT
<1>6. RetxOrder(st)'
  <2>1. ASSUME NEW i \in DOMAIN st.retx, NEW j \in DOMAIN st.retx, i < j
        PROVE  Before(st.retx[i], st.retx[j])'
    <3>1. Before(st.retx[i], st.retx[j])
      BY <2>1 DEF Shape, RetxOrder
    <3>2. Dist(st.retx[i].sn)' < Dist(st.retx[j].sn)' <=> Dist(st.retx[i].sn) < Dist(st.retx[j].sn)
      BY <1>3, <1>4
    <3>3. QED
      BY <3>1, <3>2 DEF Before
  <2>2. QED
    BY <2>1 DEF Shape, RetxOrder
<1>7. TxOrder(st)' /\ RetxBelowTx(st)'
  BY DEF Shape, TxOrder, RetxBelowTx
<1>8. InWin(st)'
  <2>1. \A i \in DOMAIN st.retx : Dist(st.retx[i].sn)' < Dist(txNext)'
    <3>1. \A t \in Sn : Dist(peerNext) <= Dist(t) /\ Dist(t) < Dist(txNext) => Dist(t)' < Dist(txNext)'
      <4>1. SUFFICES ASSUME NEW t \in Sn, Dist(peerNext) <= Dist(t), Dist(t) < Dist(txNext)
                     PROVE  Dist(t)' < Dist(txNext)'
        OBVIOUS
      <4>2. PICK u \in Sn : u = txNext
        BY <1>2
      <4>3. Dist(t)' < Dist(u)'
        BY <1>2, <1>3, <4>1, <4>2
      <4>4. txNext' = u
        BY <4>2
      <4>5. QED
        BY <4>3, <4>4 DEF Dist
    <3>2. QED
      BY <1>4, <3>1 DEF Shape, InWin
  <2>2. ASSUME NEW t \in Sn, NEW k \in DOMAIN st.txBuf[t]
        PROVE  Dist(t)' < Dist(txNext)' \/ (t = txNext' /\ st.txBuf[t][k].end < segOff')
    <3>1. Dist(peerNext) <= Dist(t)
      <4>1. st.txBuf[t] # <<>>
        BY <2>2
      <4>2. QED
        BY <1>5, <4>1
    <3>2. Dist(t) < Dist(txNext) \/ (t = txNext /\ st.txBuf[t][k].end < segOff)
      BY <2>2 DEF Shape, InWin
    <3>3. PICK u \in Sn : u = txNext
      BY <1>2
    <3>4. Dist(t) < Dist(u) => Dist(t)' < Dist(u)'
      BY <1>2, <1>3, <3>1, <3>3
    <3>5. txNext' = u /\ Dist(txNext)' = Dist(u)'
      BY <3>3 DEF Dist
    <3>6. QED
      BY <3>2, <3>3, <3>4, <3>5
  <2>3. QED
    BY <2>1, <2>2 DEF InWin
<1>9. Counts(st)'
  <2>1. \A t \in Sn : Total(st, t)' = Total(st, t)
    <3>1. \A t : UnitsAt(st, t)' = UnitsAt(st, t)
      BY DEF UnitsAt, TxUnits, RetxUnits
    <3>2. QED
      BY <1>1, <3>1 DEF Total
  <2>2. QED
    BY <2>1 DEF Shape, Counts
<1>10. Full(st)'
  <2>1. SUFFICES ASSUME NEW t \in Sn, st.txBuf[t] # <<>> \/ t = txNext'
                 PROVE  SentUnits(t)' \subseteq TxUnits(st, t)
    BY DEF Full, TxUnits
  <2>2. Dist(peerNext) <= Dist(t)
    BY <1>2, <1>5, <2>1
  <2>3. SentUnits(t)' = SentUnits(t)
    BY <1>1, <2>2
  <2>4. QED
    BY <2>1, <2>3 DEF Full
<1>11. QED
  BY <1>6, <1>7, <1>8, <1>9, <1>10 DEF Shape

\* and the peer.
LEMMA AdvancedPeer ==
    ASSUME WinOK, PeerOK, PeerInv, txNextAck' = peerNext, UNCHANGED <<txNext, segOff, peerNext, got>>,
           \A p \in chan : p.sn \in Sn, chan' = StillInFlight
    PROVE  PeerInv'
<1>1. /\ \A t \in Sn : Dist(peerNext) <= Dist(t) => Dist(t)' = Dist(t) - Dist(peerNext)
      /\ \A t \in Sn : ~(Dist(peerNext) <= Dist(t)) => ~(Dist(t)' <= Dist(txNext)')
      /\ \A t \in Sn : SentUnits(t)' = IF Dist(peerNext) <= Dist(t) THEN SentUnits(t) ELSE {}
      /\ Dist(peerNext)' = 0
      /\ Dist(txNext)' <= WinSz /\ (segOff' > 0 => Dist(txNext)' < WinSz)
      /\ \A t \in Sn : Dist(t) \in Nat /\ Dist(t)' \in Nat
  BY Advanced
<1>2. peerNext \in Sn /\ txNext \in Sn /\ Dist(peerNext) <= Dist(txNext)
  BY DEF WinOK, PeerOK, PeerInv
<1>3. ASSUME NEW p \in chan'
      PROVE  p.so <= p.end /\ Span(p) \subseteq SentUnits(p.sn)'
  <2>1. p \in chan /\ Dist(p.sn)' <= Dist(txNext)' /\ p.sn \in Sn
    BY <1>3 DEF StillInFlight, Dist
  <2>2. p.so <= p.end /\ Span(p) \subseteq SentUnits(p.sn)
    BY <2>1 DEF PeerInv
  <2>3. SentUnits(p.sn)' = SentUnits(p.sn)
    BY <1>1, <2>1
  <2>4. QED
    BY <2>2, <2>3
<1>4. ASSUME NEW t \in Sn, got'[t] # {}
      PROVE  got'[t] \subseteq SentUnits(t)' /\ Dist(peerNext)' <= Dist(t)'
  <2>1. got[t] \subseteq SentUnits(t) /\ Dist(peerNext) <= Dist(t)
    BY <1>4 DEF PeerInv
  <2>2. SentUnits(t)' = SentUnits(t) /\ Dist(t)' \in Nat
    BY <1>1, <2>1
  <2>3. Dist(peerNext)' <= Dist(t)'
    BY <1>1, <2>2, SMT
  <2>4. QED
    BY <2>1, <2>2, <2>3
<1>5. Dist(peerNext)' <= Dist(txNext)'
  <2>1. Dist(txNext)' = ModSn(txNext, peerNext) /\ ModSn(txNext, peerNext) \in Nat
    <3>1. ModSn(txNext, peerNext) \in Sn
      BY <1>2, ModSnType
    <3>2. QED
      BY <3>1 DEF Dist, Sn
  <2>2. QED
    BY <1>1, <2>1, SMT
<1>6. got'[peerNext'] # Unit
  BY DEF PeerInv
<1>7. QED
  BY <1>1, <1>3, <1>4, <1>5, <1>6 DEF PeerInv, Span

\* What is left once a report was handled.
LEMMA StatusKeeps ==
    ASSUME IInv, NEW ack \in Sn, CanReport(ack), Dist(ack) <= Dist(txNext),
           NEW rep, rep = Report(ack), NEW s, s = AfterStatus(rep)
    PROVE  /\ s \in BufType /\ Shape(s) /\ Full(s) /\ ~s.err /\ ~s.undef
           /\ Laminar(s) /\ GotWhole(s) /\ Arrived(s)
           /\ CleanBelow(s, Dist(peerNext))
           /\ (IF rep.nacks = <<>> THEN rep.ackSn ELSE rep.nacks[1].sn) = peerNext
<1>1. PICK M : M = Lacks(ack)
  OBVIOUS
<1>2. PICK st : st = Buffers
  OBVIOUS
<1>3. PICK ns : ns = rep.nacks
  OBVIOUS
<1>4. /\ Handled(Pieces(st), M, ns, Dist(ack), s)
      /\ Names(M, ns, Dist(ack)) /\ rep.ackSn = ack
      /\ Len(ns) > 0 => ns[1].sn = peerNext
      /\ Len(ns) = 0 => ack = peerNext
  BY <1>1, <1>2, <1>3, ReportHandled
<1>5. /\ s \in BufType /\ Shape(s) /\ Keeps(M, s) /\ Pieces(s) \subseteq Pieces(st)
      /\ maxReTxReached => s.max
      /\ ~s.err /\ ~s.undef /\ Full(s)
      /\ CleanBelow(s, IF Len(ns) = 0 THEN Dist(ack) ELSE Dist(ns[1].sn))
  BY <1>4, GoodShape DEF Handled
<1>6. Len(ns) \in Nat /\ (Len(ns) = 0 <=> ns = <<>>)
  <2>1. ns \in Seq(NackType)
    BY <1>4 DEF Names
  <2>2. QED
    BY <2>1, EmptySeq, LenProperties
<1>7. CleanBelow(s, Dist(peerNext)) /\ (IF ns = <<>> THEN rep.ackSn ELSE ns[1].sn) = peerNext
  <2>1. CASE Len(ns) = 0
    BY <1>4, <1>5, <1>6, <2>1
  <2>2. CASE Len(ns) # 0
    <3>1. ns[1].sn = peerNext
      BY <1>4, <1>6, <2>2, SMT
    <3>2. CleanBelow(s, Dist(ns[1].sn))
      BY <1>5, <2>2
    <3>3. QED
      BY <1>6, <2>2, <3>1, <3>2
  <2>3. QED
    BY <2>1, <2>2
<1>8. Laminar(st) /\ GotWhole(st) /\ Arrived(st) /\ st.max = maxReTxReached
  BY <1>2 DEF IInv, StInv
<1>9. Laminar(s) /\ GotWhole(s)
  BY <1>5, <1>8 DEF Laminar, GotWhole, Wholes
<1>10. Arrived(s)
  <2>1. SUFFICES ASSUME ~s.max, NEW t \in Sn
                 PROVE  SentUnits(t) \ UnitsAt(s, t) \subseteq PeerHas(t)
    BY DEF Arrived
  <2>2. M[t] \subseteq UnitsAt(s, t)
    BY <1>5, <2>1 DEF Keeps
  <2>3. CASE Dist(t) < Dist(ack)
    <3>1. M[t] = Unit \ PeerHas(t)
      BY <1>1, <2>3 DEF Lacks
    <3>2. SentUnits(t) \subseteq Unit
      <4>1. segOff \in Unit
        BY DEF IInv, TypeOK
      <4>2. 0 .. segOff - 1 \subseteq Unit
        BY <4>1, FirstUnits
      <4>3. QED
        BY <4>2 DEF SentUnits
    <3>3. QED
      BY <2>2, <3>1, <3>2
  <2>4. CASE ~(Dist(t) < Dist(ack))
    <3>1. M[t] = UnitsAt(st, t)
      BY <1>1, <1>2, <2>4 DEF Lacks
    <3>2. SentUnits(t) \ UnitsAt(st, t) \subseteq PeerHas(t)
      BY <1>5, <1>8, <2>1 DEF Arrived
    <3>3. QED
      BY <2>2, <3>1, <3>2
  <2>5. QED
    BY <2>3, <2>4
<1>11. QED
  BY <1>3, <1>5, <1>7, <1>9, <1>10

\* Before the first entry nothing waits.
LEMMA FirstIsLinked ==
    ASSUME NEW s \in BufType, NEW s2, s2.retx = s.retx, s2.nxt = PtrAt(s.retx, 1)
    PROVE  Linked(s2) /\ s2.nxt \in PtrType
<1>1. DOMAIN s.retx = 1 .. Len(s.retx) /\ Len(s.retx) \in Nat /\ \A i \in DOMAIN s.retx : s.retx[i] \in RetxType
  BY RetxEntries
<1>2. CASE 1 \in DOMAIN s.retx
  <2>1. s2.nxt = Ptr(s.retx[1])
    BY <1>2 DEF PtrAt
  <2>2. s.retx[1] \in RetxType
    BY <1>1, <1>2
  <2>3. s2.nxt \in PtrType
    BY <2>1, <2>2, MarkedFacts
  <2>4. \A j \in DOMAIN s.retx : ~(j < 1)
    BY <1>1, SMT
  <2>5. QED
    BY <1>2, <2>1, <2>3, <2>4 DEF Linked
<1>3. CASE 1 \notin DOMAIN s.retx
  <2>1. s2.nxt = NoRetx
    BY <1>3 DEF PtrAt
  <2>2. DOMAIN s.retx = {}
    BY <1>1, <1>3, SMT
  <2>3. QED
    BY <2>1, <2>2 DEF Linked, PtrType
<1>4. QED
  BY <1>2, <1>3

\* A report from the UL thread keeps the invariant.
LEMMA RcvStatusSound ==
    ASSUME IInv, NEW ack \in Sn, RcvStatus(ack)
    PROVE  IInv'
<1>1. TypeOK /\ WinOK /\ PeerOK /\ PeerInv /\ Buffers \in BufType
  BY Stated DEF IInv
<1>2. PICK rep : rep = Report(ack)
  OBVIOUS
<1>3. CanReport(ack) /\ HndlStatusPdu(rep)
  BY <1>2, Zenon DEF RcvStatus
<1>4. rep.ackSn = ack
  BY <1>2 DEF Report
<1>5. PICK s : s = AfterStatus(rep)
  OBVIOUS
<1>6. /\ Dist(ack) <= Dist(txNext)
      /\ pollRetxTmr' = (pollRetxTmr /\ Dist(pollSn) > Dist(ack))
      /\ rcvdSz' = s.rcvd /\ txBuf' = s.txBuf /\ retxLst' = s.retx /\ maxReTxReached' = s.max
      /\ undef' = s.undef /\ chan' = StillInFlight
      /\ ~s.err => /\ txNextAck' = IF rep.nacks = <<>> THEN rep.ackSn ELSE rep.nacks[1].sn
                   /\ nxtRetx' = PtrAt(s.retx, 1)
      /\ ReportBo(s.bo, s.retxBo) \/ (bo' = s.bo /\ retxBo' = s.retxBo)
  BY <1>3, <1>4, <1>5, Zenon DEF HndlStatusPdu, NxtRetxAfterStatus
<1>7. UNCHANGED <<txNext, queued, segOff, pollSn, pduWoPoll, peerNext, got>>
  <2>1. UNCHANGED <<txNext, queued, segOff, pollSn, pduWoPoll, peerVars>>
    BY <1>3, Zenon DEF HndlStatusPdu
  <2>2. QED
    BY <2>1 DEF peerVars
<1>8. /\ s \in BufType /\ Shape(s) /\ Full(s) /\ ~s.err /\ ~s.undef
      /\ Laminar(s) /\ GotWhole(s) /\ Arrived(s)
      /\ CleanBelow(s, Dist(peerNext))
      /\ (IF rep.nacks = <<>> THEN rep.ackSn ELSE rep.nacks[1].sn) = peerNext
  BY <1>2, <1>3, <1>5, <1>6, StatusKeeps
<1>9. txNextAck' = peerNext /\ nxtRetx' = PtrAt(s.retx, 1)
  BY <1>6, <1>8
<1>10. PICK s2 : s2 = Buffers'
  OBVIOUS
<1>11. /\ s2.txBuf = s.txBuf /\ s2.retx = s.retx /\ s2.rcvd = s.rcvd /\ s2.max = s.max
       /\ s2.nxt = nxtRetx' /\ s2.max = maxReTxReached'
  BY <1>6, <1>10 DEF Buffers
<1>12. Linked(s2) /\ nxtRetx' \in PtrType
  BY <1>8, <1>9, <1>11, FirstIsLinked
<1>13. TypeOK'
  <2>1. /\ s.txBuf \in [Sn -> Seq(SegType)] /\ s.retx \in Seq(RetxType)
        /\ s.rcvd \in [Sn -> 0 .. SduLen]
        /\ s.bo \in Int /\ s.retxBo \in Int /\ s.max \in BOOLEAN /\ s.undef \in BOOLEAN
    BY <1>8, BufFields
  <2>2. bo' \in Int /\ retxBo' \in Int
    BY <1>6, <2>1, NonNegInt, Zenon DEF ReportBo
  <2>3. pollRetxTmr' \in BOOLEAN
    BY <1>6
  <2>4. chan' \subseteq [sn : Sn, so : Unit, end : Unit]
    BY <1>1, <1>6 DEF TypeOK, StillInFlight
  <2>5. nxtRetx' = NoRetx \/ nxtRetx' \in Sn \X Unit
    BY <1>12 DEF PtrType
  <2>6. txNextAck' \in Sn
    BY <1>1, <1>9 DEF PeerOK
  <2>7. QED
    BY <1>1, <1>6, <1>7, <2>1, <2>2, <2>3, <2>4, <2>5, <2>6, Zenon DEF TypeOK, RetxType
<1>14. s2 \in BufType
  <2>1. (TypeOK => WinOK /\ PeerOK /\ Buffers \in BufType)'
    BY Stated, PTL
  <2>2. QED
    BY <1>10, <1>13, <2>1
<1>15. /\ Shape(s2) /\ Full(s2) /\ Pieces(s2) = Pieces(s)
       /\ \A sn : UnitsAt(s2, sn) = UnitsAt(s, sn)
  BY <1>8, <1>11, SameLists, Zenon
<1>16. CleanBelow(s2, Dist(peerNext))
  BY <1>8, <1>11 DEF CleanBelow
<1>17. Shape(s2)' /\ Full(s2)'
  BY <1>1, <1>7, <1>9, <1>14, <1>15, <1>16, AdvancedShape
<1>18. PeerInv'
  <2>1. \A p \in chan : p.sn \in Sn
    BY <1>1 DEF TypeOK
  <2>2. QED
    BY <1>1, <1>6, <1>7, <1>9, <2>1, AdvancedPeer
<1>19. Laminar(s2)' /\ GotWhole(s2)'
  <2>1. chan' \subseteq chan /\ got' = got
    BY <1>6, <1>7 DEF StillInFlight
  <2>2. Pieces(s2)' = Pieces(s2) /\ \A c : Span(c)' = Span(c)
    BY DEF Pieces, Span
  <2>3. QED
    BY <1>8, <1>15, <2>1, <2>2 DEF Laminar, GotWhole, Wholes
<1>20. Arrived(s2)'
  <2>1. SUFFICES ASSUME ~s2.max, NEW t \in Sn
                 PROVE  SentUnits(t)' \ UnitsAt(s2, t) \subseteq PeerHas(t)'
    BY DEF Arrived, UnitsAt, TxUnits, RetxUnits
  <2>2. PeerHas(t)' = PeerHas(t)
    BY <1>7 DEF PeerHas
  <2>3. SentUnits(t)' \subseteq SentUnits(t)
    BY <1>1, <1>7, <1>9, Advanced
  <2>4. SentUnits(t) \ UnitsAt(s, t) \subseteq PeerHas(t)
    BY <1>8, <1>11, <2>1 DEF Arrived
  <2>5. QED
    BY <1>15, <2>2, <2>3, <2>4
<1>21. Reached(s2)'
  BY <1>12 DEF Reached, Linked
<1>22. StInv(Buffers)'
  BY <1>10, <1>11, <1>14, <1>17, <1>19, <1>20, <1>21, StNamedNext
<1>23. QED
  BY <1>13, <1>18, <1>22 DEF IInv

-----------------------------------------------------------------------------
(* The theorems.                                                           *)

\* Every step keeps the invariant.
LEMMA NextSound == IInv /\ [Next]_vars => IInv'
<1> SUFFICES ASSUME IInv, [Next]_vars
             PROVE  IInv'
  OBVIOUS
<1>1. CASE QSdu
  BY <1>1, QSduSound
<1>2. ASSUME NEW n \in 1 .. SduLen, ResegRetxPdu(n)
      PROVE  IInv'
  BY <1>2, ResegRetxPduSound
<1>3. CASE ResegReleased
  BY <1>3, ResegReleasedSound
<1>4. ASSUME NEW n \in 1 .. SduLen, AssembleSdu(n)
      PROVE  IInv'
  BY <1>4, AssembleSduSound
<1>5. CASE DiscSdu
  BY <1>5, DiscSduSound
<1>6. ASSUME NEW ack \in Sn, RcvStatus(ack)
      PROVE  IInv'
  BY <1>6, RcvStatusSound
<1>7. CASE PollRetxTmrExp
  BY <1>7, PollRetxTmrExpSound
<1>8. CASE ReEstablish
  BY <1>8, ReEstablishSound
<1>9. ASSUME NEW p \in chan, PeerRcv(p)
      PROVE  IInv'
  BY <1>9, PeerRcvSound
<1>10. CASE UNCHANGED vars
  BY <1>10, StutterSound
<1>11. QED
  BY <1>1, <1>2, <1>3, <1>4, <1>5, <1>6, <1>7, <1>8, <1>9, <1>10 DEF Next

\* IInv, the inductive invariant, holds always: both lists are in order and lie
\* in the window, hold every unit that the peer may lack, and hold it as it was
\* transmitted or in parts of that, while grants re-segment and reports release.
THEOREM Inductive == Spec => []IInv
BY InitSound, NextSound, PTL DEF Spec

\* The state's own names for what IInv says of Buffers.
LEMMA ListFacts ==
    ASSUME IInv
    PROVE  /\ WinOK /\ PeerOK /\ PeerInv /\ Buffers \in BufType /\ Shape(Buffers) /\ Arrived(Buffers)
           /\ Reached(Buffers) /\ retxLst \in Seq(RetxType) /\ txBuf \in [Sn -> Seq(SegType)]
           /\ \A i \in DOMAIN retxLst :
                  /\ retxLst[i].sn \in Sn /\ retxLst[i].so \in Unit /\ retxLst[i].end \in Unit
                  /\ retxLst[i].so <= retxLst[i].end /\ Span(retxLst[i]) \subseteq Unit /\ Span(retxLst[i]) # {}
           /\ \A sn \in Sn : \A k \in DOMAIN txBuf[sn] :
                  /\ txBuf[sn][k].so \in Unit /\ txBuf[sn][k].end \in Unit
                  /\ txBuf[sn][k].so <= txBuf[sn][k].end
                  /\ Span(txBuf[sn][k]) \subseteq Unit /\ Span(txBuf[sn][k]) # {}
<1>1. /\ WinOK /\ PeerOK /\ PeerInv /\ Buffers \in BufType /\ Shape(Buffers) /\ Arrived(Buffers)
      /\ Reached(Buffers) /\ Buffers.retx = retxLst /\ Buffers.txBuf = txBuf
  BY Stated, BuffersFields DEF IInv, StInv
<1>2. retxLst \in Seq(RetxType) /\ txBuf \in [Sn -> Seq(SegType)]
  BY DEF IInv, TypeOK, RetxType
<1>3. PICK st : st = Buffers
  OBVIOUS
<1>4. st \in BufType /\ Shape(st) /\ st.retx = retxLst /\ st.txBuf = txBuf
  BY <1>1, <1>3
<1>5. ASSUME NEW i \in DOMAIN retxLst
      PROVE  /\ retxLst[i].sn \in Sn /\ retxLst[i].so \in Unit /\ retxLst[i].end \in Unit
             /\ retxLst[i].so <= retxLst[i].end /\ Span(retxLst[i]) \subseteq Unit /\ Span(retxLst[i]) # {}
  <2>1. /\ retxLst[i].sn \in Sn /\ retxLst[i].so \in Unit /\ retxLst[i].end \in Unit
        /\ retxLst[i].so <= retxLst[i].end
    BY <1>4, RetxEntries DEF Shape, RetxOrder
  <2>2. QED
    BY <2>1, SpanFacts
<1>6. ASSUME NEW sn \in Sn, NEW k \in DOMAIN txBuf[sn]
      PROVE  /\ txBuf[sn][k].so \in Unit /\ txBuf[sn][k].end \in Unit
             /\ txBuf[sn][k].so <= txBuf[sn][k].end
             /\ Span(txBuf[sn][k]) \subseteq Unit /\ Span(txBuf[sn][k]) # {}
  <2>1. /\ txBuf[sn][k].so \in Unit /\ txBuf[sn][k].end \in Unit
        /\ txBuf[sn][k].so <= txBuf[sn][k].end
    BY <1>4, TxEntries DEF Shape, TxOrder
  <2>2. QED
    BY <2>1, SpanFacts
<1>7. QED
  BY <1>1, <1>2, <1>5, <1>6

\* A removed entry and the uninitialised retx are read only after an entry was
\* given up: a report leads to neither, and nxtRetx points to an entry till then.
ReadsHeld == undef => maxReTxReached

\* Every step keeps that,
LEMMA NextReadsHeld == IInv /\ ReadsHeld /\ [Next]_vars => ReadsHeld'
<1> SUFFICES ASSUME IInv, ReadsHeld, [Next]_vars
             PROVE  ReadsHeld'
  OBVIOUS
<1>1. ASSUME UNCHANGED errVars
      PROVE  ReadsHeld'
  BY <1>1 DEF ReadsHeld, errVars
<1>2. CASE QSdu
  BY <1>1, <1>2 DEF QSdu
<1>3. ASSUME NEW n \in 1 .. SduLen, ResegRetxPdu(n)
      PROVE  ReadsHeld'
  BY <1>1, <1>3 DEF ResegRetxPdu
<1>4. CASE ResegReleased
  <2>1. nxtRetx # NoRetx /\ IndexOfPtr(nxtRetx) = 0 /\ maxReTxReached' = maxReTxReached
    BY <1>4 DEF ResegReleased
  <2>2. ASSUME ~maxReTxReached
        PROVE  FALSE
    <3>1. Linked(Buffers) /\ retxLst \in Seq(RetxType)
      BY <2>2, ListFacts, BuffersFields DEF Reached
    <3>2. PICK k \in DOMAIN retxLst : Ptr(retxLst[k]) = nxtRetx
      BY <2>1, <3>1, BuffersFields DEF Linked
    <3>3. IndexOfPtr(nxtRetx) # 0
      BY <3>1, <3>2, IndexPlace
    <3>4. QED
      BY <2>1, <3>3
  <2>3. QED
    BY <2>1, <2>2 DEF ReadsHeld
<1>5. ASSUME NEW n \in 1 .. SduLen, AssembleSdu(n)
      PROVE  ReadsHeld'
  BY <1>1, <1>5 DEF AssembleSdu
<1>6. CASE DiscSdu
  BY <1>1, <1>6 DEF DiscSdu
<1>7. ASSUME NEW ack \in Sn, RcvStatus(ack)
      PROVE  ReadsHeld'
  <2>1. PICK rep : rep = Report(ack)
    OBVIOUS
  <2>2. CanReport(ack) /\ HndlStatusPdu(rep)
    BY <1>7, <2>1, Zenon DEF RcvStatus
  <2>3. rep.ackSn = ack
    BY <2>1 DEF Report
  <2>4. Dist(ack) <= Dist(txNext) /\ undef' = AfterStatus(rep).undef
    BY <2>2, <2>3, Zenon DEF HndlStatusPdu
  <2>5. ~AfterStatus(rep).undef
    BY <2>1, <2>2, <2>4, ReportHandled DEF Handled
  <2>6. QED
    BY <2>4, <2>5 DEF ReadsHeld
<1>8. CASE PollRetxTmrExp
  BY <1>8 DEF PollRetxTmrExp, ReadsHeld
<1>9. CASE ReEstablish
  BY <1>9 DEF ReEstablish, ReadsHeld
<1>10. ASSUME NEW p \in chan, PeerRcv(p)
       PROVE  ReadsHeld'
  BY <1>1, <1>10 DEF PeerRcv
<1>11. CASE UNCHANGED vars
  BY <1>1, <1>11 DEF vars, errVars
<1>12. QED
  BY <1>2, <1>3, <1>4, <1>5, <1>6, <1>7, <1>8, <1>9, <1>10, <1>11 DEF Next

\* and it holds always.
LEMMA ReadsHeldAlways == Spec => []ReadsHeld
<1>1. Init => ReadsHeld
  BY DEF Init, ReadsHeld
<1>2. QED
  BY <1>1, Inductive, NextReadsHeld, PTL DEF Spec

\* Every variable of the transmitter keeps its type: in particular no SN, segment
\* offset or retransmission count that rlc_amm_dl.c computes leaves its range.
THEOREM TypesKept == Spec => []TypeOK
BY Inductive, PTL DEF IInv

\* Held, as indices into the lists.
LEMMA HeldEntries ==
    ASSUME NEW sn \in Sn
    PROVE  \A s : s \in Held(sn) <=>
               \/ \E k \in DOMAIN txBuf[sn] : s = txBuf[sn][k]
               \/ \E i \in DOMAIN retxLst : s = retxLst[i] /\ s.sn = sn
BY DEF Held, Range

\* HeldUnits, as the units in the lists.
LEMMA HeldSpans ==
    ASSUME IInv, NEW sn \in Sn
    PROVE  /\ HeldUnits(sn) = UnitsAt(Buffers, sn)
           /\ UnitsAt(Buffers, sn) = {} => Held(sn) = {}
<1>1. \A s : s \in Held(sn) <=>
          \/ \E k \in DOMAIN txBuf[sn] : s = txBuf[sn][k]
          \/ \E i \in DOMAIN retxLst : s = retxLst[i] /\ s.sn = sn
  BY HeldEntries
<1>2. /\ TxUnits(Buffers, sn) = {u \in Unit : \E k \in DOMAIN txBuf[sn] : u \in Span(txBuf[sn][k])}
      /\ RetxUnits(Buffers, sn) =
             {u \in Unit : \E i \in DOMAIN retxLst : retxLst[i].sn = sn /\ u \in Span(retxLst[i])}
  BY BuffersFields DEF TxUnits, RetxUnits
<1>3. \A s \in Held(sn) : Span(s) \subseteq Unit /\ Span(s) # {}
  BY <1>1, ListFacts
<1>4. ASSUME NEW s \in Held(sn)
      PROVE  Span(s) \subseteq UnitsAt(Buffers, sn)
  <2>1. Span(s) \subseteq Unit
    BY <1>3
  <2>2. CASE \E k \in DOMAIN txBuf[sn] : s = txBuf[sn][k]
    BY <1>2, <2>1, <2>2 DEF UnitsAt
  <2>3. CASE \E i \in DOMAIN retxLst : s = retxLst[i] /\ s.sn = sn
    BY <1>2, <2>1, <2>3 DEF UnitsAt
  <2>4. QED
    BY <1>1, <2>2, <2>3
<1>5. ASSUME NEW u \in UnitsAt(Buffers, sn)
      PROVE  \E s \in Held(sn) : u \in Span(s)
  <2>1. CASE u \in TxUnits(Buffers, sn)
    <3>1. PICK k \in DOMAIN txBuf[sn] : u \in Span(txBuf[sn][k])
      BY <1>2, <2>1
    <3>2. txBuf[sn][k] \in Held(sn)
      BY <1>1
    <3>3. QED
      BY <3>1, <3>2
  <2>2. CASE u \in RetxUnits(Buffers, sn)
    <3>1. PICK i \in DOMAIN retxLst : retxLst[i].sn = sn /\ u \in Span(retxLst[i])
      BY <1>2, <2>2
    <3>2. retxLst[i] \in Held(sn)
      BY <1>1, <3>1
    <3>3. QED
      BY <3>1, <3>2
  <2>3. QED
    BY <2>1, <2>2 DEF UnitsAt
<1>6. \A u : u \in HeldUnits(sn) <=> \E s \in Held(sn) : u \in Span(s)
  BY DEF HeldUnits, Span
<1>7. HeldUnits(sn) = UnitsAt(Buffers, sn)
  BY <1>4, <1>5, <1>6
<1>8. UnitsAt(Buffers, sn) = {} => Held(sn) = {}
  BY <1>3, <1>4
<1>9. QED
  BY <1>7, <1>8

\* The invariant implies HeldInWindow,
LEMMA InWindow == IInv => HeldInWindow
<1> SUFFICES ASSUME IInv
             PROVE  HeldInWindow
  OBVIOUS
<1>1. Dist(txNext) <= WinSz
  BY DEF IInv, PeerInv
<1>2. ASSUME NEW sn \in Sn, Held(sn) # {}
      PROVE  Dist(sn) < Dist(txNext) \/ (sn = txNext /\ segOff > 0)
  <2>1. PICK s : s \in Held(sn)
    BY <1>2
  <2>2. InWin(Buffers) /\ Buffers.txBuf = txBuf /\ Buffers.retx = retxLst
    BY ListFacts, BuffersFields DEF Shape
  <2>3. CASE \E k \in DOMAIN txBuf[sn] : s = txBuf[sn][k]
    <3>1. PICK k \in DOMAIN txBuf[sn] : TRUE
      BY <2>3
    <3>2. Dist(sn) < Dist(txNext) \/ (sn = txNext /\ txBuf[sn][k].end < segOff)
      BY <2>2 DEF InWin
    <3>3. txBuf[sn][k].end \in Nat /\ segOff \in Nat
      BY ListFacts, UnitFacts DEF WinOK
    <3>4. txBuf[sn][k].end < segOff => segOff > 0
      BY <3>3, SMT
    <3>5. QED
      BY <3>2, <3>4
  <2>4. CASE \E i \in DOMAIN retxLst : s = retxLst[i] /\ s.sn = sn
    BY <2>2, <2>4 DEF InWin
  <2>5. QED
    BY <2>1, <2>3, <2>4, HeldEntries
<1>3. QED
  BY <1>1, <1>2 DEF HeldInWindow

\* No more than the window is in flight, and nothing is ever held of an SN
\* outside it, however reports move txNextAck: an SN's list in txBuf is empty when
\* the SN comes round again (rlcAssembleSdus, rlcAmmDlHndlStatusPdu).
THEOREM HeldInWindowAlways == Spec => []HeldInWindow
BY Inductive, InWindow, PTL

\* The invariant implies ReleasedArrived,
LEMMA Confirmed == IInv => ReleasedArrived
<1> SUFFICES ASSUME IInv, ~maxReTxReached, NEW sn \in Sn,
                    Dist(sn) < Dist(txNext) \/ (sn = txNext /\ segOff > 0)
             PROVE  Unit \ (HeldUnits(sn) \union UnsentUnits(sn)) \subseteq PeerHas(sn)
  BY DEF ReleasedArrived
<1>1. SentUnits(sn) \ UnitsAt(Buffers, sn) \subseteq PeerHas(sn)
  BY ListFacts, BuffersFields DEF Arrived
<1>2. HeldUnits(sn) = UnitsAt(Buffers, sn)
  BY HeldSpans
<1>3. Unit \ UnsentUnits(sn) \subseteq SentUnits(sn)
  <2>1. CASE Dist(sn) < Dist(txNext)
    BY <2>1 DEF SentUnits
  <2>2. CASE ~(Dist(sn) < Dist(txNext))
    <3>1. segOff \in Nat /\ LastUnit \in Nat
      BY UnitFacts DEF IInv, TypeOK
    <3>2. Unit \ (segOff .. LastUnit) \subseteq 0 .. segOff - 1
      BY <3>1, SMT DEF Unit
    <3>3. QED
      BY <2>2, <3>2 DEF SentUnits, UnsentUnits
  <2>3. QED
    BY <2>1, <2>2
<1>4. QED
  BY <1>1, <1>2, <1>3

\* Until an entry is given up, a unit that rlcAmmDlProcessSuccessfulTxPdu and
\* rlcAmmDlProcessSuccessfulReTx have released is with the peer, in whatever order
\* losses, re-segmentations and reports came.
THEOREM ReleasedArrivedAlways == Spec => []ReleasedArrived
BY Inductive, Confirmed, PTL

\* The sizes of the pieces of an SN add up to the number of its units held: no
\* unit is in two pieces.
LEMMA HeldSizes ==
    ASSUME IInv, NEW sn \in Sn
    PROVE  HeldSize(sn) = Cardinality(UnitsAt(Buffers, sn))
<1>1. PICK st : st = Buffers
  OBVIOUS
<1>2. st \in BufType /\ Shape(st) /\ st.retx = retxLst /\ st.txBuf = txBuf
  BY <1>1, ListFacts, BuffersFields
<1> DEFINE I == {j \in DOMAIN retxLst : retxLst[j].sn = sn}
<1>3. RetxSize(sn) = Cardinality(RetxUnits(st, sn))
  <2>1. \A i \in I : Span(retxLst[i]) \subseteq Unit
    BY ListFacts
  <2>2. ASSUME NEW i \in I, NEW j \in I, i # j
        PROVE  Span(retxLst[i]) \intersect Span(retxLst[j]) = {}
    <3>1. i < j \/ j < i
      BY <1>2, <2>2, RetxEntries, SMT
    <3>2. Before(retxLst[i], retxLst[j]) \/ Before(retxLst[j], retxLst[i])
      BY <1>2, <3>1 DEF Shape, RetxOrder
    <3>3. Dist(sn) \in Nat /\ ~(Dist(sn) < Dist(sn))
      <4>1. Dist(sn) \in Nat
        BY ListFacts, DistNat DEF WinOK
      <4>2. QED
        BY <4>1, SMT
    <3>4. retxLst[i].end < retxLst[j].so \/ retxLst[j].end < retxLst[i].so
      BY <3>2, <3>3 DEF Before
    <3>5. QED
      BY <3>4, ListFacts, SpanApart DEF Span
  <2>3. Cardinality(TagSet(I, retxLst)) = Cardinality(UnitSet(I, retxLst))
    <3> HIDE DEF I
    <3>1. QED
      BY <2>1, <2>2, TaggedUnits
  <2>4. TagSet(I, retxLst) = UNION {{i} \X (retxLst[i].so .. retxLst[i].end) :
                                        i \in {j \in DOMAIN retxLst : retxLst[j].sn = sn}}
    BY DEF TagSet
  <2>5. UnitSet(I, retxLst) = RetxUnits(st, sn)
    BY <1>2 DEF UnitSet, RetxUnits
  <2>6. QED
    BY <2>3, <2>4, <2>5, Zenon DEF RetxSize
<1>4. SizeOf(txBuf[sn]) = Cardinality(TxUnits(st, sn))
  BY <1>2, TxSize DEF Shape
<1>5. TxUnits(st, sn) \intersect RetxUnits(st, sn) = {}
  <2>1. SUFFICES ASSUME NEW u \in TxUnits(st, sn), u \in RetxUnits(st, sn)
                 PROVE  FALSE
    OBVIOUS
  <2>2. PICK k \in DOMAIN txBuf[sn] : u \in Span(txBuf[sn][k])
    BY <1>2 DEF TxUnits
  <2>3. PICK i \in DOMAIN retxLst : retxLst[i].sn = sn /\ u \in Span(retxLst[i])
    BY <1>2, <2>1 DEF RetxUnits
  <2>4. retxLst[i].end < txBuf[sn][k].so
    BY <1>2, <2>3 DEF Shape, RetxBelowTx
  <2>5. Span(retxLst[i]) \intersect Span(txBuf[sn][k]) = {}
    BY <2>4, ListFacts, SpanApart DEF Span
  <2>6. QED
    BY <2>2, <2>3, <2>5
<1>6. /\ IsFiniteSet(TxUnits(st, sn)) /\ IsFiniteSet(RetxUnits(st, sn))
      /\ Cardinality(TxUnits(st, sn)) \in Nat /\ Cardinality(RetxUnits(st, sn)) \in Nat
  BY UnitSets, FS_CardinalityType DEF TxUnits, RetxUnits
<1>7. Cardinality(UnitsAt(st, sn)) =
          Cardinality(TxUnits(st, sn)) + Cardinality(RetxUnits(st, sn)) - Cardinality({})
  BY <1>5, <1>6, FS_Union DEF UnitsAt
<1>8. Cardinality({}) = 0
  BY FS_EmptySet
<1>9. Cardinality(UnitsAt(st, sn)) = Cardinality(TxUnits(st, sn)) + Cardinality(RetxUnits(st, sn))
  BY <1>6, <1>7, <1>8, SMT
<1>10. QED
  BY <1>1, <1>3, <1>4, <1>9 DEF HeldSize

\* The invariant implies ConfirmedOnce,
LEMMA CountedOnceEach == IInv => ConfirmedOnce
<1> SUFFICES ASSUME IInv, ~maxReTxReached, NEW sn \in Sn
             PROVE  LET n == rcvdSz[sn] + HeldSize(sn) + Cardinality(UnsentUnits(sn))
                    IN  n = SduLen \/ (n = 0 /\ Held(sn) = {})
  BY DEF ConfirmedOnce
<1>1. PICK st : st = Buffers
  OBVIOUS
<1> DEFINE a == rcvdSz[sn]
           b == Cardinality(UnitsAt(st, sn))
           c == Cardinality(UnsentUnits(sn))
<1>2. a + b + c \in {0, SduLen}
  <2>1. Total(st, sn) \in {0, SduLen}
    BY <1>1, ListFacts, BuffersFields DEF Shape, Counts
  <2>2. QED
    BY <1>1, <2>1, BuffersFields DEF Total
<1>3. a \in Nat /\ b \in Nat /\ c \in Nat
  <2>1. a \in 0 .. SduLen /\ segOff \in Unit
    BY DEF IInv, TypeOK
  <2>2. b \in 0 .. SduLen /\ c \in 0 .. SduLen
    BY <2>1, UnitsAtFacts, UnsentFacts
  <2>3. QED
    BY <2>1, <2>2
<1>4. a + b + c = 0 => Held(sn) = {}
  <2>1. b = 0 => UnitsAt(st, sn) = {}
    BY UnitsAtFacts, FS_EmptySet
  <2>2. UnitsAt(st, sn) = {} => Held(sn) = {}
    BY <1>1, HeldSpans
  <2>3. a + b + c = 0 => b = 0
    <3> HIDE DEF a, b, c
    <3>1. QED
      BY <1>3, SMT
  <2>4. QED
    BY <2>1, <2>2, <2>3
<1>5. HeldSize(sn) = b
  BY <1>1, HeldSizes
<1>6. QED
  BY <1>2, <1>4, <1>5

\* rlcAmmDlCheckIsSDUDelivered counts every unit of an SDU once: what it has
\* counted, what is held and what is not yet transmitted make up the SDU.
THEOREM ConfirmedOnceAlways == Spec => []ConfirmedOnce
BY Inductive, CountedOnceEach, PTL

\* The invariant implies RetxInOrder,
LEMMA Ordered == IInv => RetxInOrder
BY ListFacts, BuffersFields DEF Shape, RetxOrder, Before, RetxInOrder

\* retxLst is always in the order of the SNs and segments, which
\* rlcAmmAddPduToRetxLst and rlcResegRetxPdus maintain and the loops that stop at
\* the first entry that is too high need.
THEOREM RetxInOrderAlways == Spec => []RetxInOrder
BY Inductive, Ordered, PTL

\* The invariant implies PendingIsReachable,
LEMMA Reachable == IInv /\ ReadsHeld => PendingIsReachable
<1> SUFFICES ASSUME IInv, ReadsHeld, ~maxReTxReached
             PROVE  /\ nxtRetx # NoRetx => IndexOfPtr(nxtRetx) # 0
                    /\ \A i \in DOMAIN retxLst :
                           retxLst[i].pendingReTrans => IndexOfPtr(nxtRetx) \in 1 .. i
  BY DEF PendingIsReachable, ReadsHeld
<1>1. Linked(Buffers) /\ retxLst \in Seq(RetxType)
  BY ListFacts, BuffersFields DEF Reached
<1> SUFFICES ASSUME nxtRetx # NoRetx \/ \E i \in DOMAIN retxLst : retxLst[i].pendingReTrans
             PROVE  /\ IndexOfPtr(nxtRetx) # 0
                    /\ \A i \in DOMAIN retxLst :
                           retxLst[i].pendingReTrans => IndexOfPtr(nxtRetx) \in 1 .. i
  OBVIOUS
<1>2. PICK k \in DOMAIN retxLst :
          Ptr(retxLst[k]) = nxtRetx /\ \A j \in DOMAIN retxLst : j < k => ~retxLst[j].pendingReTrans
  BY <1>1, BuffersFields DEF Linked
<1>3. PICK m : m = IndexOfPtr(nxtRetx)
  OBVIOUS
<1>4. m \in 0 .. Len(retxLst) /\ m # 0 /\ m <= k
  BY <1>1, <1>2, <1>3, IndexPlace
<1>5. ASSUME NEW i \in DOMAIN retxLst, retxLst[i].pendingReTrans
      PROVE  m \in 1 .. i
  <2>1. ~(i < k)
    BY <1>2, <1>5
  <2>2. i \in Nat /\ k \in Nat /\ m \in Nat
    BY <1>1, <1>4
  <2>3. QED
    BY <1>4, <2>1, <2>2, SMT
<1>6. QED
  BY <1>3, <1>4, <1>5

\* Until an entry is given up, whatever awaits retransmission is at nxtRetx or
\* behind it, so rlcResegRetxPdus comes to it: reports, the poll timer and grants
\* never move nxtRetx past it, nor leave it at an entry that rlcRemRetxPdu has
\* removed.
THEOREM PendingIsReachableAlways == Spec => []PendingIsReachable
BY Inductive, ReadsHeldAlways, Reachable, PTL

\* The invariant implies NackedAwaitsRetx,
LEMMA Awaited == IInv => NackedAwaitsRetx
<1> SUFFICES ASSUME IInv, NEW ack \in Sn, CanReport(ack), Dist(ack) <= Dist(txNext),
                    NEW st, st = AfterStatus(Report(ack))
             PROVE  /\ ~st.undef
                    /\ \/ st.max
                       \/ \A n \in Range(Report(ack).nacks) : \A u \in n.soStart .. n.soEnd :
                              \E r \in Range(st.retx) : Awaits(r, n.sn, u)
  BY DEF NackedAwaitsRetx
<1>1. PICK rep : rep = Report(ack)
  OBVIOUS
<1>2. PICK ns : ns = rep.nacks
  OBVIOUS
<1>3. /\ ~st.undef /\ AllAwait(ns, Len(ns), st) /\ ns \in Seq(NackType)
  BY <1>1, <1>2, ReportHandled DEF Handled, Names
<1>4. ASSUME ~st.max, NEW n \in Range(ns), NEW u \in n.soStart .. n.soEnd
      PROVE  \E r \in Range(st.retx) : Awaits(r, n.sn, u)
  <2>1. PICK j \in DOMAIN ns : ns[j] = n
    BY DEF Range
  <2>2. j <= Len(ns)
    BY <1>3, LenProperties, SMT
  <2>3. AwaitAt(st, n.sn, u)
    BY <1>3, <1>4, <2>1, <2>2 DEF AllAwait, Run
  <2>4. QED
    BY <2>3 DEF AwaitAt, Range
<1>5. QED
  BY <1>1, <1>2, <1>3, <1>4

\* Whatever report comes next, rlcAmmDlHndlStatusPdu does not read the
\* uninitialised retx, and leaves every unit the report asks for awaiting
\* retransmission, unless it gives an entry up.
THEOREM NackedAwaitsRetxAlways == Spec => []NackedAwaitsRetx
BY Inductive, Awaited, PTL
=============================================================================
