--------------------------- MODULE RlcAmUl_proofs ---------------------------
(***************************************************************************)
(* The receiver's invariants, for every window, SDU length and content.    *)
(***************************************************************************)
EXTENDS RlcAmUl, AmSn_proofs, SequenceTheorems

-----------------------------------------------------------------------------
(* One reception buffer *)

\* Segments lie inside their SDU, so the unit after the SDU is always a gap;
\* FirstGap finds the lowest one.
LEMMA FirstGapIsLeast ==
    ASSUME NEW segs \in SUBSET Seg
    PROVE  /\ FirstGap(segs) \in 0 .. SduLen
           /\ FirstGap(segs) \notin Covered(segs)
           /\ \A u \in 0 .. SduLen : u \notin Covered(segs) => FirstGap(segs) <= u
<1> DEFINE gaps == (0 .. SduLen) \ Covered(segs)
<1>1. Covered(segs) \subseteq Unit
  BY SduLenAssumption DEF Covered, Seg, Unit, LastByte
<1>2. SduLen \in gaps
  BY <1>1, SduLenAssumption DEF Unit, LastByte
<1>3. gaps \in SUBSET Nat /\ gaps # {}
  BY <1>2, SduLenAssumption
<1>4. Min(gaps) \in gaps /\ \A u \in gaps : Min(gaps) <= u
  BY <1>3, MinOfNaturals
<1>5. QED
  BY <1>4 DEF FirstGap

\* The empty reception buffer is a buffer.
LEMMA NoBufType == NoBuf \in Buf
  BY SduLenAssumption DEF NoBuf, Buf

\* The fields of a PDU.
LEMMA PduType ==
    ASSUME NEW p \in Pdu
    PROVE  /\ p.sn \in Sn /\ p.so \in Unit /\ p.end \in Unit /\ p.sdu \in Sdu
           /\ p.so <= p.end
           /\ [so |-> p.so, end |-> p.end, sdu |-> p.sdu] \in Seg
  BY DEF Pdu, Seg

\* Placing a PDU keeps the buffer well formed.
LEMMA BufWithType ==
    ASSUME TypeOK, NEW p \in Pdu
    PROVE  BufWith(p) \in Buf
<1>1. recBuf[p.sn] \in Buf
  BY PduType DEF TypeOK
<1>2. SegsWith(p) \in SUBSET Seg
  BY <1>1, PduType DEF SegsWith, Buf
<1>3. FirstGap(SegsWith(p)) \in 0 .. SduLen
  BY <1>2, FirstGapIsLeast
<1>4. SegBuf(p) \in Buf
  BY <1>1, <1>2, <1>3 DEF SegBuf, Buf
<1>5. QED
  BY <1>1, <1>4 DEF BufWith, Buf

-----------------------------------------------------------------------------
(* The step of the window when a PDU is accepted.  Everything is measured   *)
(* from rxNext before the step.                                             *)

WinInv ==
    /\ TypeOK
    /\ WindowOrder
    /\ BufferedInWindow
    /\ EdgesIncomplete

Bufs(p) == [recBuf EXCEPT ![p.sn] = BufWith(p)]

\* The scans of rlcAmmProcessPdus, from distance d, when the SN at distance k
\* is not completely received: they stop at or below it, at the first such SN.
LEMMA ScanStops ==
    ASSUME NEW bufs, NEW d \in Nat, NEW k \in d .. WinSz,
           ~bufs[AddSn(rxNext, k)].allRcvd
    PROVE  /\ NotRcvd(bufs, d) # {}
           /\ Min(NotRcvd(bufs, d)) \in d .. k
           /\ ~bufs[AddSn(rxNext, Min(NotRcvd(bufs, d)))].allRcvd
           /\ \A j \in d .. WinSz :
                 ~bufs[AddSn(rxNext, j)].allRcvd => Min(NotRcvd(bufs, d)) <= j
<1>1. k \in NotRcvd(bufs, d)
  BY DEF NotRcvd
<1>2. NotRcvd(bufs, d) \in SUBSET Nat
  BY WinSzAssumption DEF NotRcvd
<1>3. /\ Min(NotRcvd(bufs, d)) \in NotRcvd(bufs, d)
      /\ \A y \in NotRcvd(bufs, d) : Min(NotRcvd(bufs, d)) <= y
  BY <1>1, <1>2, MinOfNaturals
<1>4. Min(NotRcvd(bufs, d)) <= k
  BY <1>1, <1>3
<1>5. /\ Min(NotRcvd(bufs, d)) \in d .. WinSz
      /\ ~bufs[AddSn(rxNext, Min(NotRcvd(bufs, d)))].allRcvd
  BY <1>3, Zenon DEF NotRcvd
<1>6. ASSUME NEW j \in d .. WinSz, ~bufs[AddSn(rxNext, j)].allRcvd
      PROVE  Min(NotRcvd(bufs, d)) <= j
  <2>1. j \in NotRcvd(bufs, d)
    BY <1>6 DEF NotRcvd
  <2>2. QED
    BY <1>3, <2>1
<1>7. Min(NotRcvd(bufs, d)) \in d .. k
  BY <1>4, <1>5, WinSzAssumption
<1>8. QED
  BY <1>1, <1>5, <1>6, <1>7

\* What acceptance means for the window.
LEMMA AcceptedPdu ==
    ASSUME WinInv, NEW p \in Pdu, Accepts(p)
    PROVE  /\ p.sn \in Sn
           /\ Dist(p.sn) \in 0 .. (WinSz - 1)
           /\ Bufs(p) \in [Sn -> Buf]
           /\ Bufs(p)[p.sn] = BufWith(p)
           /\ \A sn \in Sn : sn # p.sn => Bufs(p)[sn] = recBuf[sn]
           /\ \A sn \in Sn : Dist(sn) \in Sn
<1>1. rxNext \in Sn /\ recBuf \in [Sn -> Buf]
  BY DEF WinInv, TypeOK
<1>2. ModSn(vrMr, rxNext) = WinSz
  BY <1>1, ModSnAddSn, WinSzAssumption DEF vrMr, Sn, SnMod
<1>3. p.sn \in Sn /\ BufWith(p) \in Buf
  BY PduType, BufWithType DEF WinInv
<1>4. \A sn \in Sn : Dist(sn) \in Sn
  BY <1>1, ModSnType DEF Dist
<1>5. ModSn(p.sn, rxNext) \in 0 .. (WinSz - 1)
  <2>1. ModSn(p.sn, rxNext) < WinSz
    BY <1>2 DEF Accepts, InRcvWindow
  <2>2. ModSn(p.sn, rxNext) \in 0 .. (SnMod - 1)
    BY <1>3, <1>4 DEF Dist, Sn
  <2>3. QED
    BY <2>1, <2>2, WinSzAssumption DEF SnMod
<1>6. /\ Bufs(p) \in [Sn -> Buf]
      /\ Bufs(p)[p.sn] = BufWith(p)
      /\ \A sn \in Sn : sn # p.sn => Bufs(p)[sn] = recBuf[sn]
  BY <1>1, <1>3 DEF Bufs
<1>7. QED
  BY <1>3, <1>4, <1>5, <1>6 DEF Dist

\* rxNextHighestRcvd passes the PDU and stays within the window; what is
\* buffered stays below it.
LEMMA HighestRcvdStep ==
    ASSUME WinInv, NEW p \in Pdu, Accepts(p),
           NEW next, next = UpdatedNextHighestRcvd(p)
    PROVE  /\ next \in Sn
           /\ Dist(next) \in (Dist(p.sn) + 1) .. WinSz
           /\ Dist(rxNextHighestRcvd) <= Dist(next)
           /\ \A sn \in Sn : Bufs(p)[sn] # NoBuf => Dist(sn) < Dist(next)
           /\ Bufs(p)[next] = NoBuf
<1>1. rxNext \in Sn /\ rxNextHighestRcvd \in Sn /\ Dist(rxNextHighestRcvd) <= WinSz
  BY DEF WinInv, TypeOK, WindowOrder
<1>2. p.sn \in Sn /\ Dist(p.sn) \in 0 .. (WinSz - 1)
  BY AcceptedPdu
<1>3. AddSn(p.sn, 1) \in Sn /\ Dist(AddSn(p.sn, 1)) = Dist(p.sn) + 1
  <2>1. 1 \in 0 .. SnMod
    BY WinSzAssumption DEF SnMod
  <2>2. ModSn(p.sn, rxNext) < WinSz
    BY <1>2, WinSzAssumption DEF Dist
  <2>3. QED
    BY <1>1, <1>2, <2>1, <2>2, ModSnSucc, AddSnType DEF Dist
<1>4. Dist(rxNextHighestRcvd) \in Sn
  BY <1>1, ModSnType DEF Dist
<1>5. /\ next \in Sn
      /\ Dist(next) = IF Dist(p.sn) >= Dist(rxNextHighestRcvd) THEN Dist(p.sn) + 1
                      ELSE Dist(rxNextHighestRcvd)
  BY <1>1, <1>3 DEF UpdatedNextHighestRcvd, Dist
<1>6. /\ Dist(next) \in (Dist(p.sn) + 1) .. WinSz
      /\ Dist(rxNextHighestRcvd) <= Dist(next)
  BY <1>1, <1>2, <1>4, <1>5, WinSzAssumption DEF Sn, SnMod
<1>7. ASSUME NEW sn \in Sn, Bufs(p)[sn] # NoBuf
      PROVE  Dist(sn) < Dist(next)
  <2>1. CASE sn = p.sn
    BY <1>2, <1>6, <2>1
  <2>2. CASE sn # p.sn
    <3>1. Dist(sn) < Dist(rxNextHighestRcvd)
      BY <1>7, <2>2, AcceptedPdu DEF WinInv, BufferedInWindow
    <3>2. Dist(sn) \in Sn
      BY AcceptedPdu
    <3>3. QED
      BY <1>2, <1>4, <1>6, <3>1, <3>2 DEF Sn
  <2>3. QED
    BY <2>1, <2>2
<1>8. Bufs(p)[next] = NoBuf
  <2>1. ~(Dist(next) < Dist(next))
    BY <1>2, <1>6
  <2>2. QED
    BY <1>5, <1>7, <2>1
<1>9. QED
  BY <1>5, <1>6, <1>7, <1>8

\* rxHighestStatus moves to the next incomplete SDU, if it moves: never back,
\* never past an incomplete SDU and never past rxNextHighestRcvd.
LEMMA HighestStatusStep ==
    ASSUME WinInv, NEW p \in Pdu, Accepts(p),
           NEW high, high = UpdatedNextHighestRcvd(p),
           NEW stat, stat = UpdatedHighestStatus(p, Bufs(p))
    PROVE  /\ stat \in Sn
           /\ Dist(rxHighestStatus) <= Dist(stat)
           /\ Dist(stat) <= Dist(high)
           /\ ~Bufs(p)[stat].allRcvd
           /\ \A sn \in Sn : /\ ~Bufs(p)[sn].allRcvd
                             /\ Dist(rxHighestStatus) <= Dist(sn)
                             /\ Dist(sn) <= WinSz
                             => Dist(stat) <= Dist(sn)
<1> DEFINE moves == Bufs(p)[p.sn].allRcvd /\ p.sn = rxHighestStatus
           d == Dist(p.sn) + 1
           m == Min(NotRcvd(Bufs(p), d))
<1>1. /\ rxNext \in Sn /\ rxHighestStatus \in Sn
      /\ Dist(rxHighestStatus) <= Dist(rxNextHighestRcvd)
      /\ ~recBuf[rxHighestStatus].allRcvd
  BY DEF WinInv, TypeOK, WindowOrder, EdgesIncomplete
<1>2. /\ p.sn \in Sn /\ Dist(p.sn) \in 0 .. (WinSz - 1)
      /\ \A sn \in Sn : sn # p.sn => Bufs(p)[sn] = recBuf[sn]
      /\ \A sn \in Sn : Dist(sn) \in Sn
  BY AcceptedPdu
<1>3. /\ high \in Sn /\ Dist(high) \in d .. WinSz
      /\ Dist(rxNextHighestRcvd) <= Dist(high)
      /\ Bufs(p)[high] = NoBuf
  BY HighestRcvdStep
<1>4. AddSn(rxNext, Dist(high)) = high /\ ~Bufs(p)[high].allRcvd
  BY <1>1, <1>3, AddSnModSn DEF Dist, NoBuf
<1>5. CASE moves
  <2>1. d \in Nat
    BY <1>2
  <2>2. /\ NotRcvd(Bufs(p), d) # {} /\ m \in d .. Dist(high)
        /\ ~Bufs(p)[AddSn(rxNext, m)].allRcvd
        /\ \A j \in d .. WinSz : ~Bufs(p)[AddSn(rxNext, j)].allRcvd => m <= j
    BY <2>1, <1>3, <1>4, ScanStops
  <2>3. stat = AddSn(rxNext, m)
    BY <1>5, <2>2 DEF UpdatedHighestStatus, Dist
  <2>4. m \in Sn /\ m \in 0 .. SnMod
    BY <1>2, <1>3, <2>2, WinSzAssumption DEF Sn, SnMod
  <2>5. stat \in Sn /\ Dist(stat) = m
    BY <1>1, <2>3, <2>4, ModSnAddSn, AddSnType DEF Dist
  <2>6. Dist(rxHighestStatus) <= Dist(stat) /\ Dist(stat) <= Dist(high)
    BY <1>2, <1>3, <1>5, <2>2, <2>5
  <2>7. ASSUME NEW sn \in Sn, ~Bufs(p)[sn].allRcvd,
               Dist(rxHighestStatus) <= Dist(sn), Dist(sn) <= WinSz
        PROVE  Dist(stat) <= Dist(sn)
    <3>1. sn # p.sn
      BY <1>5, <2>7
    <3>2. Dist(sn) # Dist(p.sn)
      BY <1>1, <1>2, <3>1, ModSnInjective DEF Dist
    <3>3. Dist(sn) \in d .. WinSz
      BY <1>2, <1>5, <2>7, <3>2, WinSzAssumption DEF Sn, SnMod
    <3>4. AddSn(rxNext, Dist(sn)) = sn
      BY <1>1, AddSnModSn DEF Dist
    <3>5. QED
      BY <2>2, <2>5, <2>7, <3>3, <3>4
  <2>8. QED
    BY <2>2, <2>3, <2>5, <2>6, <2>7
<1>6. CASE ~moves
  <2>1. stat = rxHighestStatus
    BY <1>6 DEF UpdatedHighestStatus
  <2>2. ~Bufs(p)[stat].allRcvd
    BY <1>1, <1>2, <1>6, <2>1
  <2>3. /\ Dist(stat) \in Sn /\ Dist(high) \in Sn /\ Dist(rxNextHighestRcvd) \in Sn
    BY <1>1, <1>2, <1>3, <2>1 DEF WinInv, TypeOK
  <2>4. Dist(stat) <= Dist(stat) /\ Dist(stat) <= Dist(high)
    BY <1>1, <1>3, <2>1, <2>3, WinSzAssumption DEF Sn, SnMod
  <2>5. QED
    BY <1>1, <2>1, <2>2, <2>4
<1>7. QED
  BY <1>5, <1>6

\* rxNext moves to the first incomplete SDU: over complete ones only, and at
\* most to rxHighestStatus.
LEMMA NextStep ==
    ASSUME WinInv, NEW p \in Pdu, Accepts(p),
           NEW stat, stat = UpdatedHighestStatus(p, Bufs(p)),
           NEW next, next = UpdatedNext(p, Bufs(p))
    PROVE  /\ next \in Sn
           /\ Dist(next) <= Dist(stat)
           /\ ~Bufs(p)[next].allRcvd
           /\ \A sn \in Sn : Dist(sn) < Dist(next) => Bufs(p)[sn].allRcvd
           /\ next # rxNext => p.sn = rxNext /\ Bufs(p)[p.sn].allRcvd
<1> DEFINE moves == Bufs(p)[p.sn].allRcvd /\ p.sn = rxNext
           high == UpdatedNextHighestRcvd(p)
           m == Min(NotRcvd(Bufs(p), 0))
<1>1. rxNext \in Sn /\ ~recBuf[rxNext].allRcvd
  BY DEF WinInv, TypeOK, EdgesIncomplete
<1>2. /\ p.sn \in Sn
      /\ \A sn \in Sn : sn # p.sn => Bufs(p)[sn] = recBuf[sn]
      /\ \A sn \in Sn : Dist(sn) \in Sn
  BY AcceptedPdu
<1>3. stat \in Sn /\ Dist(stat) <= Dist(high) /\ ~Bufs(p)[stat].allRcvd
  BY HighestStatusStep
<1>4. Dist(high) \in 0 .. WinSz
  <2>1. Dist(high) \in (Dist(p.sn) + 1) .. WinSz /\ Dist(p.sn) \in 0 .. (WinSz - 1)
    BY HighestRcvdStep, AcceptedPdu
  <2>2. QED
    BY <2>1, WinSzAssumption
<1>5. Dist(stat) \in 0 .. WinSz /\ AddSn(rxNext, Dist(stat)) = stat
  <2>1. Dist(stat) \in 0 .. WinSz
    BY <1>2, <1>3, <1>4, WinSzAssumption DEF Sn, SnMod
  <2>2. QED
    BY <1>1, <1>3, <2>1, AddSnModSn DEF Dist
<1>6. CASE moves
  <2>1. /\ NotRcvd(Bufs(p), 0) # {} /\ m \in 0 .. Dist(stat)
        /\ ~Bufs(p)[AddSn(rxNext, m)].allRcvd
        /\ \A j \in 0 .. WinSz : ~Bufs(p)[AddSn(rxNext, j)].allRcvd => m <= j
    BY <1>3, <1>5, ScanStops
  <2>2. next = AddSn(rxNext, m)
    BY <1>6, <2>1 DEF UpdatedNext
  <2>3. m \in Sn /\ m \in 0 .. SnMod
    BY <1>5, <2>1, WinSzAssumption DEF Sn, SnMod
  <2>4. next \in Sn /\ Dist(next) = m
    BY <1>1, <2>2, <2>3, ModSnAddSn, AddSnType DEF Dist
  <2>5. ASSUME NEW sn \in Sn, Dist(sn) < Dist(next)
        PROVE  Bufs(p)[sn].allRcvd
    <3>1. Dist(sn) \in 0 .. WinSz /\ ~(m <= Dist(sn))
      BY <1>2, <1>5, <2>1, <2>4, <2>5, WinSzAssumption DEF Sn, SnMod
    <3>2. AddSn(rxNext, Dist(sn)) = sn
      BY <1>1, AddSnModSn DEF Dist
    <3>3. QED
      BY <2>1, <3>1, <3>2
  <2>6. QED
    BY <1>5, <1>6, <2>1, <2>2, <2>4, <2>5
<1>7. CASE ~moves
  <2>1. next = rxNext
    BY <1>7 DEF UpdatedNext
  <2>2. Dist(next) = 0
    BY <1>1, <2>1, ModSnType DEF Dist
  <2>3. ~Bufs(p)[next].allRcvd
    BY <1>1, <1>2, <1>7, <2>1
  <2>4. \A sn \in Sn : ~(Dist(sn) < 0)
    BY <1>2, WinSzAssumption DEF Sn, SnMod
  <2>5. QED
    BY <1>1, <1>5, <2>1, <2>2, <2>3, <2>4
<1>8. QED
  BY <1>6, <1>7

\* The whole step of an accepted PDU, seen from rxNext before it; k is the
\* number of SNs the window slides over.
LEMMA PlacePduFacts ==
    ASSUME WinInv, NEW p \in Pdu, Accepts(p), PlacePdu(p),
           NEW k, k = Dist(rxNext')
    PROVE  /\ rxNext' \in Sn /\ rxNextHighestRcvd' \in Sn /\ rxHighestStatus' \in Sn
           /\ recBuf' \in [Sn -> Buf]
           /\ k \in 0 .. WinSz
           /\ k <= Dist(rxHighestStatus')
           /\ Dist(rxHighestStatus') <= Dist(rxNextHighestRcvd')
           /\ Dist(rxNextHighestRcvd') \in (Dist(p.sn) + 1) .. WinSz
           /\ \A sn \in Sn : Dist(sn)' = IF k <= Dist(sn) THEN Dist(sn) - k
                                        ELSE Dist(sn) - k + SnMod
           /\ \A sn \in Sn : recBuf'[sn] = IF Dist(sn) < k THEN NoBuf ELSE Bufs(p)[sn]
<1>1. /\ rxNextHighestRcvd' = UpdatedNextHighestRcvd(p)
      /\ rxHighestStatus' = UpdatedHighestStatus(p, Bufs(p))
      /\ rxNext' = UpdatedNext(p, Bufs(p))
      /\ recBuf' = [sn \in Sn |-> IF Dist(sn) < Dist(rxNext') THEN NoBuf ELSE Bufs(p)[sn]]
  BY DEF PlacePdu, Bufs, Dist
<1>2. /\ rxNextHighestRcvd' \in Sn
      /\ Dist(rxNextHighestRcvd') \in (Dist(p.sn) + 1) .. WinSz
  BY <1>1, HighestRcvdStep
<1>3. /\ rxHighestStatus' \in Sn
      /\ Dist(rxHighestStatus') <= Dist(rxNextHighestRcvd')
  BY <1>1, HighestStatusStep
<1>4. rxNext' \in Sn /\ k <= Dist(rxHighestStatus')
  BY <1>1, NextStep
<1>5. /\ rxNext \in Sn
      /\ Dist(p.sn) \in 0 .. (WinSz - 1)
      /\ Bufs(p) \in [Sn -> Buf]
      /\ \A sn \in Sn : Dist(sn) \in Sn
  BY AcceptedPdu DEF WinInv, TypeOK
<1>6. k \in 0 .. WinSz /\ k \in Sn
  <2>1. k \in Sn /\ Dist(rxHighestStatus') \in Sn
    BY <1>3, <1>4, <1>5
  <2>2. QED
    BY <1>2, <1>3, <1>4, <1>5, <2>1, WinSzAssumption DEF Sn, SnMod
<1>7. AddSn(rxNext, k) = rxNext'
  BY <1>4, <1>5, AddSnModSn DEF Dist
<1>8. \A sn \in Sn : Dist(sn)' = IF k <= Dist(sn) THEN Dist(sn) - k
                                ELSE Dist(sn) - k + SnMod
  BY <1>5, <1>6, <1>7, ModSnShift DEF Dist
<1>9. /\ recBuf' \in [Sn -> Buf]
      /\ \A sn \in Sn : recBuf'[sn] = IF Dist(sn) < k THEN NoBuf ELSE Bufs(p)[sn]
  BY <1>1, <1>5, NoBufType
<1>10. QED
  BY <1>2, <1>3, <1>4, <1>6, <1>8, <1>9

\* Placing a PDU keeps the window ordered and what it holds inside it.
LEMMA PlacePduWindow ==
    ASSUME WinInv, NEW p \in Pdu, Accepts(p), PlacePdu(p)
    PROVE  /\ WindowOrder'
           /\ BufferedInWindow'
           /\ EdgesIncomplete'
<1> DEFINE k == Dist(rxNext')
           s == Dist(rxHighestStatus')
           h == Dist(rxNextHighestRcvd')
<1>1. /\ rxNext' \in Sn /\ rxNextHighestRcvd' \in Sn /\ rxHighestStatus' \in Sn
      /\ k \in 0 .. WinSz /\ k <= s /\ s <= h /\ h \in (Dist(p.sn) + 1) .. WinSz
      /\ \A sn \in Sn : Dist(sn)' = IF k <= Dist(sn) THEN Dist(sn) - k
                                   ELSE Dist(sn) - k + SnMod
      /\ \A sn \in Sn : recBuf'[sn] = IF Dist(sn) < k THEN NoBuf ELSE Bufs(p)[sn]
  BY PlacePduFacts
<1>2. /\ rxNextHighestRcvd' = UpdatedNextHighestRcvd(p)
      /\ rxHighestStatus' = UpdatedHighestStatus(p, Bufs(p))
      /\ rxNext' = UpdatedNext(p, Bufs(p))
  BY DEF PlacePdu, Bufs
<1>3. Dist(p.sn) \in 0 .. (WinSz - 1) /\ \A sn \in Sn : Dist(sn) \in Sn
  BY AcceptedPdu
<1>4. s \in 0 .. WinSz /\ h \in 0 .. WinSz
  BY <1>1, <1>3, WinSzAssumption DEF Sn, SnMod
<1>5. /\ ModSn(rxHighestStatus', rxNext') = s - k
      /\ ModSn(rxNextHighestRcvd', rxNext') = h - k
  <2>1. k <= h
    BY <1>1, <1>4
  <2>2. QED
    BY <1>1, <2>1 DEF Dist
<1>6. WindowOrder'
  <2>1. s - k <= h - k /\ h - k <= WinSz
    BY <1>1, <1>4, WinSzAssumption
  <2>2. QED
    BY <1>5, <2>1 DEF WindowOrder, Dist
<1>7. BufferedInWindow'
  <2>1. ASSUME NEW sn \in Sn, recBuf'[sn] # NoBuf
        PROVE  ModSn(sn, rxNext') < h - k
    <3>1. ~(Dist(sn) < k) /\ Bufs(p)[sn] # NoBuf
      BY <1>1, <2>1
    <3>2. Dist(sn) < h
      BY <1>2, <3>1, HighestRcvdStep
    <3>3. k <= Dist(sn) /\ Dist(sn) - k < h - k
      BY <1>1, <1>3, <1>4, <3>1, <3>2 DEF Sn
    <3>4. QED
      BY <1>1, <3>3 DEF Dist
  <2>2. QED
    BY <1>5, <2>1 DEF BufferedInWindow, Dist
<1>8. EdgesIncomplete'
  <2>1. ~Bufs(p)[rxNext'].allRcvd
    BY <1>2, NextStep
  <2>2. ~Bufs(p)[rxHighestStatus'].allRcvd
    BY <1>2, HighestStatusStep
  <2>3. ~NoBuf.allRcvd
    BY DEF NoBuf
  <2>4. QED
    BY <1>1, <2>1, <2>2, <2>3 DEF EdgesIncomplete
<1>9. QED
  BY <1>6, <1>7, <1>8

\* The reassembly timer after an accepted PDU: if it was running and its
\* trigger has not been overtaken, the trigger is still in place; if it is
\* started, its trigger is rxNextHighestRcvd, which is then above rxNext.
LEMMA PlacePduTmr ==
    ASSUME WinInv, RunningTmrTrigger, NEW p \in Pdu, Accepts(p), PlacePdu(p)
    PROVE  rxNextStatusTrig' \in Sn /\ reAsmblTmr' \in BOOLEAN /\ RunningTmrTrigger'
<1> DEFINE k == Dist(rxNext')
           s == Dist(rxHighestStatus')
           h == Dist(rxNextHighestRcvd')
           t == Dist(rxNextStatusTrig)
           fetched == LastFetched(p, Bufs(p))
<1>1. /\ rxNext' \in Sn /\ rxNextHighestRcvd' \in Sn /\ rxHighestStatus' \in Sn
      /\ k \in 0 .. WinSz /\ k <= s /\ s <= h /\ h \in (Dist(p.sn) + 1) .. WinSz
      /\ \A sn \in Sn : Dist(sn)' = IF k <= Dist(sn) THEN Dist(sn) - k
                                   ELSE Dist(sn) - k + SnMod
      /\ \A sn \in Sn : recBuf'[sn] = IF Dist(sn) < k THEN NoBuf ELSE Bufs(p)[sn]
  BY PlacePduFacts
<1>2. /\ rxNextHighestRcvd' = UpdatedNextHighestRcvd(p)
      /\ rxHighestStatus' = UpdatedHighestStatus(p, Bufs(p))
      /\ rxNext' = UpdatedNext(p, Bufs(p))
      /\ ReAsmblTmrAfterPdu(fetched)
  BY DEF PlacePdu, Bufs
<1>3. Dist(p.sn) \in 0 .. (WinSz - 1) /\ \A sn \in Sn : Dist(sn) \in Sn
  BY AcceptedPdu
<1>4. s \in 0 .. WinSz /\ h \in 0 .. WinSz /\ k <= h
  BY <1>1, <1>3, WinSzAssumption DEF Sn, SnMod
<1>5. rxNext \in Sn /\ rxNextStatusTrig \in Sn /\ reAsmblTmr \in BOOLEAN
  BY DEF WinInv, TypeOK
<1>6. rxNextStatusTrig' \in Sn /\ reAsmblTmr' \in BOOLEAN
  BY <1>1, <1>2, <1>5 DEF ReAsmblTmrAfterPdu
<1>7. ModSn(rxNextHighestRcvd', rxNext') = h - k /\ ModSn(rxHighestStatus', rxNext') = s - k
  BY <1>1, <1>4 DEF Dist
<1>8. CASE reAsmblTmr /\ ~TmrOvertaken
  <2>1. rxNextStatusTrig' = rxNextStatusTrig
    BY <1>2, <1>8 DEF ReAsmblTmrAfterPdu
  <2>2. /\ t \in 1 .. Dist(rxNextHighestRcvd)
        /\ recBuf[rxNextStatusTrig].allRcvd \/ Dist(rxHighestStatus) <= t
    <3>1. t \in Sn /\ t # 0
      BY <1>3, <1>5, <1>8, ModSnType DEF RunningTmrTrigger, Dist
    <3>2. Dist(rxNextHighestRcvd) \in Sn
      BY <1>3 DEF WinInv, TypeOK
    <3>3. QED
      BY <1>8, <3>1, <3>2, WinSzAssumption DEF RunningTmrTrigger, Sn, SnMod
  <2>3. Dist(rxNextHighestRcvd) <= h /\ Dist(rxNextHighestRcvd) \in 0 .. WinSz
    <3>1. Dist(rxNextHighestRcvd) <= h
      BY <1>2, HighestRcvdStep
    <3>2. Dist(rxNextHighestRcvd) \in Sn /\ Dist(rxNextHighestRcvd) <= WinSz
      BY <1>3 DEF WinInv, TypeOK, WindowOrder
    <3>3. QED
      BY <3>1, <3>2, WinSzAssumption DEF Sn, SnMod
  <2>4. /\ ModSn(rxNextStatusTrig, rxNext') = IF k <= t THEN t - k ELSE t - k + SnMod
        /\ t \in 1 .. WinSz
    <3>1. ModSn(rxNextStatusTrig, rxNext') = IF k <= t THEN t - k ELSE t - k + SnMod
      BY <1>1, <1>5 DEF Dist
    <3>2. t \in 1 .. WinSz
      BY <2>2, <2>3, WinSzAssumption
    <3>3. QED
      BY <3>1, <3>2
  <2>5. ModSn(rxNextStatusTrig, rxNext') <= WinSz /\ rxNextStatusTrig # rxNext'
    <3>1. ModSn(vrMr', rxNext') = WinSz /\ vrMr' = AddSn(rxNext', WinSz)
      BY <1>1, ModSnAddSn, WinSzAssumption DEF vrMr, Sn, SnMod
    <3>2. \/ ModSn(rxNextStatusTrig, rxNext') < WinSz
          \/ rxNextStatusTrig = vrMr'
      BY <1>8, <3>1 DEF TmrOvertaken
    <3>3. ModSn(rxNextStatusTrig, rxNext') \in Sn
      BY <1>1, <1>5, ModSnType
    <3>4. QED
      BY <1>8, <3>1, <3>2, <3>3, WinSzAssumption DEF TmrOvertaken, Sn, SnMod
  <2>6. k <= t /\ ModSn(rxNextStatusTrig, rxNext') = t - k
    BY <1>1, <2>4, <2>5, WinSzAssumption DEF SnMod
  <2>7. t - k <= h - k
    BY <1>1, <1>4, <2>2, <2>3
  <2>8. recBuf'[rxNextStatusTrig].allRcvd \/ s - k <= t - k
    <3>1. CASE Bufs(p)[rxNextStatusTrig].allRcvd
      <4>1. recBuf'[rxNextStatusTrig] = Bufs(p)[rxNextStatusTrig]
        BY <1>1, <1>5, <2>4, <2>6
      <4>2. QED
        BY <3>1, <4>1
    <3>2. CASE ~Bufs(p)[rxNextStatusTrig].allRcvd
      <4>1. ~recBuf[rxNextStatusTrig].allRcvd
        <5>1. CASE rxNextStatusTrig = p.sn
          BY <1>3, <5>1, <3>2, AcceptedPdu DEF Accepts
        <5>2. CASE rxNextStatusTrig # p.sn
          BY <1>5, <5>2, <3>2, AcceptedPdu
        <5>3. QED
          BY <5>1, <5>2
      <4>2. Dist(rxHighestStatus) <= t /\ t <= WinSz
        BY <2>2, <2>4, <4>1
      <4>3. s <= t
        BY <1>2, <1>5, <3>2, <4>2, HighestStatusStep
      <4>4. QED
        BY <1>1, <1>4, <2>4, <4>3
    <3>3. QED
      BY <3>1, <3>2
  <2>9. QED
    BY <1>6, <1>7, <2>1, <2>5, <2>6, <2>7, <2>8 DEF RunningTmrTrigger, Dist
<1>9. CASE ~(reAsmblTmr /\ ~TmrOvertaken) /\ TmrNeeded(fetched)
  <2>1. rxNextStatusTrig' = rxNextHighestRcvd'
    BY <1>2, <1>9 DEF ReAsmblTmrAfterPdu
  <2>2. rxNextHighestRcvd' # rxNext'
    <3>1. SUFFICES ASSUME rxNextHighestRcvd' = rxNext'
                   PROVE  FALSE
      OBVIOUS
    <3>2. fetched # NoBuf
      BY <1>1, <1>9, <3>1 DEF TmrNeeded, Sn
    <3>3. rxNext' # rxNext
      <4>1. k # 0
        BY <1>1, <1>3, <3>1
      <4>2. QED
        BY <1>5, <4>1, ModSnType DEF Dist
    <3>4. p.sn = rxNext /\ Bufs(p)[p.sn].allRcvd
      BY <1>2, <3>3, NextStep
    <3>5. fetched = Bufs(p)[rxNext']
      BY <3>4 DEF LastFetched
    <3>6. Bufs(p)[rxNextHighestRcvd'] = NoBuf
      BY <1>2, HighestRcvdStep
    <3>7. QED
      BY <3>1, <3>2, <3>5, <3>6
  <2>3. s - k <= h - k /\ h - k <= h - k
    BY <1>1, <1>4
  <2>4. QED
    BY <1>6, <1>7, <2>1, <2>2, <2>3 DEF RunningTmrTrigger, Dist
<1>10. CASE ~(reAsmblTmr /\ ~TmrOvertaken) /\ ~TmrNeeded(fetched)
  <2>1. ~reAsmblTmr'
    BY <1>2, <1>10 DEF ReAsmblTmrAfterPdu
  <2>2. QED
    BY <1>6, <2>1 DEF RunningTmrTrigger
<1>11. QED
  BY <1>8, <1>9, <1>10

-----------------------------------------------------------------------------
(* Segments *)

GapOK(b) ==
    /\ b.expSo = FirstGap(b.segs)
    /\ b.expSo < SduLen
    /\ \A s, t \in b.segs : s = t \/ s.end < t.so \/ t.end < s.so

\* The empty buffer names its first gap.
LEMMA NoBufGapOK == GapOK(NoBuf)
<1>1. {} \in SUBSET Seg /\ Covered({}) = {}
  BY DEF Covered
<1>2. FirstGap({}) \in 0 .. SduLen /\ FirstGap({}) <= 0
  BY <1>1, FirstGapIsLeast, SduLenAssumption
<1>3. QED
  BY <1>2, SduLenAssumption DEF GapOK, NoBuf

\* One more segment covers its own units and what was covered before.
LEMMA CoveredAdd ==
    ASSUME NEW segs, NEW s
    PROVE  Covered(segs \union {s}) = Covered(segs) \union (s.so .. s.end)
  BY Zenon DEF Covered

\* A segment that is accepted keeps expSo on the first gap: if it starts there,
\* expSo walks to the next gap; if not, it does not cover expSo.
LEMMA BufWithGap ==
    ASSUME TypeOK, ExpSoIsFirstGap, NEW p \in Pdu, Accepts(p), ~BufWith(p).allRcvd
    PROVE  GapOK(BufWith(p))
<1> DEFINE b == recBuf[p.sn]
           new == [so |-> p.so, end |-> p.end, sdu |-> p.sdu]
           segs == b.segs \union {new}
<1>1. /\ p.sn \in Sn /\ p.so \in Unit /\ p.end \in Unit /\ p.so <= p.end /\ new \in Seg
      /\ b \in Buf
  BY PduType DEF TypeOK
<1>2. ~IsFull(p) /\ BufWith(p) = SegBuf(p) /\ SegsWith(p) = segs
  <2>1. IsFull(p) => BufWith(p).allRcvd
    BY <1>1 DEF BufWith, Buf
  <2>2. ~IsFull(p)
    BY <2>1
  <2>3. BufWith(p) = SegBuf(p)
    BY <2>2 DEF BufWith
  <2>4. SegsWith(p) = segs
    BY <2>2 DEF SegsWith
  <2>5. QED
    BY <2>2, <2>3, <2>4
<1>3. ~b.allRcvd /\ \A s \in b.segs : s.end < p.so \/ p.end < s.so
  BY <1>2 DEF Accepts
<1>4. GapOK(b)
  BY <1>1, <1>3 DEF ExpSoIsFirstGap, GapOK
<1>5. b.segs \in SUBSET Seg /\ segs \in SUBSET Seg
  BY <1>1 DEF Buf
<1>6. \A s, t \in segs : s = t \/ s.end < t.so \/ t.end < s.so
  BY <1>3, <1>4 DEF GapOK
<1>7. CASE p.so # b.expSo
  <2>1. BufWith(p) = [b EXCEPT !.segs = segs]
    BY <1>2, <1>7 DEF SegBuf
  <2>2. BufWith(p).segs = segs /\ BufWith(p).expSo = b.expSo
    BY <1>1, <2>1 DEF Buf
  <2>3. Covered(segs) = Covered(b.segs) \union (p.so .. p.end)
    <3>1. new.so = p.so /\ new.end = p.end
      OBVIOUS
    <3>2. QED
      BY <3>1, CoveredAdd
  <2>4. b.expSo \notin p.so .. p.end
    <3>1. SUFFICES ASSUME b.expSo \in p.so .. p.end
                   PROVE  FALSE
      OBVIOUS
    <3>2. b.expSo \in 0 .. SduLen
      BY <1>1 DEF Buf
    <3>3. p.so \in 0 .. SduLen /\ p.so < b.expSo
      BY <1>1, <1>7, <3>1, <3>2, SduLenAssumption DEF Unit, LastByte
    <3>4. p.so \in Covered(b.segs)
      BY <1>4, <1>5, <3>2, <3>3, FirstGapIsLeast, SduLenAssumption DEF GapOK
    <3>5. PICK s \in b.segs : p.so \in s.so .. s.end
      BY <3>4 DEF Covered
    <3>6. s.so \in Unit /\ s.end \in Unit
      BY <1>5 DEF Seg
    <3>7. s.end < p.so \/ p.end < s.so
      BY <1>3
    <3>8. QED
      BY <1>1, <3>5, <3>6, <3>7, SduLenAssumption DEF Unit, LastByte
  <2>5. b.expSo \in (0 .. SduLen) \ Covered(segs)
    BY <1>1, <1>4, <1>5, <2>3, <2>4, FirstGapIsLeast DEF GapOK, Buf
  <2>6. FirstGap(segs) \notin Covered(b.segs) /\ FirstGap(segs) \in 0 .. SduLen
    BY <1>5, <2>3, FirstGapIsLeast
  <2>7. FirstGap(segs) <= b.expSo /\ b.expSo <= FirstGap(segs)
    BY <1>4, <1>5, <2>5, <2>6, FirstGapIsLeast DEF GapOK
  <2>8. b.expSo = FirstGap(segs)
    BY <1>1, <2>6, <2>7, SduLenAssumption DEF Buf
  <2>9. QED
    BY <1>4, <1>6, <2>2, <2>8 DEF GapOK
<1>8. CASE p.so = b.expSo
  <2>1. /\ BufWith(p).segs = segs
        /\ BufWith(p).expSo = FirstGap(segs)
        /\ BufWith(p).allRcvd = (FirstGap(segs) = SduLen)
    BY <1>2, <1>8 DEF SegBuf
  <2>2. FirstGap(segs) \in 0 .. SduLen /\ FirstGap(segs) # SduLen
    BY <1>5, <2>1, FirstGapIsLeast
  <2>3. FirstGap(segs) < SduLen
    BY <2>2, SduLenAssumption
  <2>4. QED
    BY <1>6, <2>1, <2>3 DEF GapOK
<1>9. QED
  BY <1>7, <1>8

\* Placing a PDU leaves every buffer naming its first gap.
LEMMA PlacePduGaps ==
    ASSUME WinInv, ExpSoIsFirstGap, NEW p \in Pdu, Accepts(p), PlacePdu(p)
    PROVE  ExpSoIsFirstGap'
<1>1. ASSUME NEW sn \in Sn, ~recBuf'[sn].allRcvd
      PROVE  GapOK(recBuf'[sn])
  <2>1. recBuf'[sn] = NoBuf \/ recBuf'[sn] = Bufs(p)[sn]
    BY PlacePduFacts
  <2>2. CASE recBuf'[sn] = NoBuf
    BY <2>2, NoBufGapOK
  <2>3. CASE recBuf'[sn] = Bufs(p)[sn] /\ sn = p.sn
    <3>1. recBuf'[sn] = BufWith(p)
      BY <2>3, AcceptedPdu
    <3>2. QED
      BY <1>1, <3>1, BufWithGap DEF WinInv
  <2>4. CASE recBuf'[sn] = Bufs(p)[sn] /\ sn # p.sn
    <3>1. recBuf'[sn] = recBuf[sn]
      BY <2>4, AcceptedPdu
    <3>2. QED
      BY <1>1, <3>1 DEF ExpSoIsFirstGap, GapOK
  <2>5. QED
    BY <2>1, <2>2, <2>3, <2>4
<1>2. QED
  BY <1>1 DEF ExpSoIsFirstGap, GapOK

-----------------------------------------------------------------------------
(* The inductive invariant *)

\* A status report is built from values of the right types.
LEMMA StaPduTyped ==
    ASSUME NEW next, NEW highestStatus \in Sn, NEW bufs
    PROVE  StaPdu(next, highestStatus, bufs) \in StaPduType
<1> DEFINE Nack == [sn : Sn, isSegment : BOOLEAN, soStart : Unit, soEnd : Unit]
<1>1. ASSUME NEW sn \in Sn, NEW b
      PROVE  NackInfo(sn, b) \subseteq Nack
  <2>1. SUFFICES ASSUME NEW n \in NackInfo(sn, b)
                 PROVE  n \in Nack
    OBVIOUS
  <2>2. PICK g \in Unit \X Unit :
          n = [sn |-> sn, isSegment |-> b.segs # {}, soStart |-> g[1], soEnd |-> g[2]]
    BY <2>1, Zenon DEF NackInfo
  <2>3. (b.segs # {}) \in BOOLEAN /\ g[1] \in Unit /\ g[2] \in Unit
    OBVIOUS
  <2>4. QED
    BY <2>2, <2>3
<1>2. StaPdu(next, highestStatus, bufs).nacks \subseteq Nack
  BY <1>1 DEF StaPdu
<1>3. QED
  BY <1>2 DEF StaPdu, StaPduType

\* Sending a report keeps the queue and the flags typed, and no trigger is left.
LEMMA AssembleCntrlInfoType ==
    ASSUME staPduReq \in Seq(StaPduType), rxHighestStatus' \in Sn, AssembleCntrlInfo
    PROVE  /\ staPduReq' \in Seq(StaPduType)
           /\ staTrg' = FALSE /\ gatherStaPduInfo' = FALSE
<1>1. StaPdu(rxNext', rxHighestStatus', recBuf') \in StaPduType
  BY StaPduTyped
<1>2. QED
  BY <1>1 DEF AssembleCntrlInfo

IInv ==
    /\ TypeOK
    /\ WindowOrder
    /\ BufferedInWindow
    /\ EdgesIncomplete
    /\ RunningTmrTrigger
    /\ ExpSoIsFirstGap
    /\ HoleIsTimed
    /\ TriggerIsPending

\* IInv by the variables its parts are about.
WinTypeOK ==
    /\ rxNext \in Sn /\ rxNextHighestRcvd \in Sn /\ rxNextStatusTrig \in Sn
    /\ rxHighestStatus \in Sn
    /\ recBuf \in [Sn -> Buf]
    /\ reAsmblTmr \in BOOLEAN

WinOK ==
    /\ WindowOrder /\ BufferedInWindow /\ EdgesIncomplete
    /\ RunningTmrTrigger /\ ExpSoIsFirstGap /\ HoleIsTimed

StaTypeOK ==
    /\ staProhTmr \in BOOLEAN /\ staTrg \in BOOLEAN /\ gatherStaPduInfo \in BOOLEAN
    /\ inDatInd \in BOOLEAN
    /\ staPduReq \in Seq(StaPduType)
    /\ staProhReq \in Nat

\* The parts of the inductive invariant, for the steps that need only some.
LEMMA IInvParts == IInv => WinTypeOK /\ WinOK /\ StaTypeOK /\ TriggerIsPending
  BY DEF WinTypeOK, WinOK, StaTypeOK, IInv, TypeOK

\* The same parts, put together again after a step.
LEMMA IInvNext == WinTypeOK' /\ WinOK' /\ StaTypeOK' /\ TriggerIsPending' => IInv'
  BY DEF WinTypeOK, WinOK, StaTypeOK, IInv, TypeOK

tmrTrigVars == <<winVars, reAsmblTmr>>

\* A step that leaves the window alone keeps every fact about it.
LEMMA UnchangedWindow ==
    ASSUME IInv, UNCHANGED tmrTrigVars
    PROVE  WinTypeOK' /\ WinOK'
<1>1. WinTypeOK /\ WinOK
  BY IInvParts
<1>2. QED
  BY <1>1 DEF tmrTrigVars, winVars, WinTypeOK, WinOK, WindowOrder, BufferedInWindow,
              EdgesIncomplete, RunningTmrTrigger, ExpSoIsFirstGap, HoleIsTimed, Dist

\* The inductive invariant holds initially.
LEMMA InitIInv == Init => IInv
<1> SUFFICES ASSUME Init PROVE IInv
  OBVIOUS
<1>1. 0 \in Sn /\ ModSn(0, 0) = 0
  BY WinSzAssumption DEF Sn, SnMod, ModSn
<1>2. TypeOK
  BY <1>1, NoBufType DEF Init, TypeOK
<1>3. WindowOrder /\ HoleIsTimed /\ RunningTmrTrigger /\ TriggerIsPending
  BY <1>1, WinSzAssumption DEF Init, WindowOrder, HoleIsTimed, RunningTmrTrigger,
                              TriggerIsPending, Dist
<1>4. BufferedInWindow
  BY DEF Init, BufferedInWindow
<1>5. EdgesIncomplete
  BY <1>1 DEF Init, EdgesIncomplete, NoBuf
<1>6. ExpSoIsFirstGap
  BY NoBufGapOK DEF Init, ExpSoIsFirstGap, GapOK
<1>7. QED
  BY <1>2, <1>3, <1>4, <1>5, <1>6 DEF IInv

\* A PDU of a data indication, accepted or discarded.
LEMMA RcvPduIInv ==
    ASSUME IInv, NEW p \in Pdu, NEW last \in BOOLEAN, RcvPdu(p, last)
    PROVE  IInv'
<1> DEFINE triggered == PollTriggers(p, ~Accepts(p))
           gather == GatherAfterPdu(triggered)
<1>1. TypeOK /\ WinInv
  BY DEF IInv, WinInv
<1>2. ASSUME Accepts(p)
      PROVE  WinTypeOK' /\ WinOK'
  <2>1. PlacePdu(p)
    BY <1>2 DEF RcvPdu
  <2>2. WindowOrder' /\ BufferedInWindow' /\ EdgesIncomplete'
    BY <1>1, <1>2, <2>1, PlacePduWindow
  <2>3. rxNextStatusTrig' \in Sn /\ reAsmblTmr' \in BOOLEAN /\ RunningTmrTrigger'
    BY <1>1, <1>2, <2>1, PlacePduTmr DEF IInv
  <2>4. ExpSoIsFirstGap'
    BY <1>1, <1>2, <2>1, PlacePduGaps DEF IInv
  <2>5. /\ rxNext' \in Sn /\ rxNextHighestRcvd' \in Sn /\ rxHighestStatus' \in Sn
        /\ recBuf' \in [Sn -> Buf]
    BY <1>1, <1>2, <2>1, PlacePduFacts
  <2>6. HoleIsTimed'
    <3>1. rxNext' < rxNextHighestRcvd' => rxNextHighestRcvd' > rxNext'
      BY <2>5 DEF Sn
    <3>2. QED
      BY <2>1, <3>1, Zenon DEF PlacePdu, ReAsmblTmrAfterPdu, TmrNeeded, HoleIsTimed
  <2>7. QED
    BY <2>2, <2>3, <2>4, <2>5, <2>6 DEF WinTypeOK, WinOK
<1>3. ASSUME ~Accepts(p)
      PROVE  WinTypeOK' /\ WinOK'
  <2>1. UNCHANGED tmrTrigVars
    BY <1>3 DEF RcvPdu, tmrTrigVars
  <2>2. QED
    BY <2>1, UnchangedWindow
<1>4. WinTypeOK' /\ WinOK'
  BY <1>2, <1>3
<1>5. triggered \in BOOLEAN /\ gather \in BOOLEAN
  BY <1>1, Zenon DEF PollTriggers, GatherAfterPdu, TypeOK
<1>6. CASE last /\ gather
  <2>1. AssembleCntrlInfo /\ UNCHANGED <<staProhTmr, staProhReq>> /\ inDatInd' = FALSE
    BY <1>6 DEF RcvPdu
  <2>2. /\ staPduReq' \in Seq(StaPduType)
        /\ staTrg' = FALSE /\ gatherStaPduInfo' = FALSE
    BY <1>1, <1>4, <2>1, AssembleCntrlInfoType DEF TypeOK, WinTypeOK
  <2>3. QED
    BY <1>1, <1>4, <2>1, <2>2, IInvNext DEF StaTypeOK, TypeOK, TriggerIsPending
<1>7. CASE ~(last /\ gather)
  <2>1. /\ staTrg' = (staTrg \/ triggered)
        /\ gatherStaPduInfo' = gather
        /\ UNCHANGED <<staPduReq, staProhTmr, staProhReq>>
        /\ inDatInd' = ~last
    BY <1>7, Zenon DEF RcvPdu
  <2>2. TriggerIsPending'
    BY <1>1, <1>5, <1>7, <2>1, Zenon DEF IInv, TriggerIsPending, GatherAfterPdu, TypeOK
  <2>3. QED
    BY <1>1, <1>4, <1>5, <2>1, <2>2, IInvNext DEF StaTypeOK, TypeOK
<1>8. QED
  BY <1>6, <1>7

\* The expiry of the reassembly timer.
LEMMA ReAsmblTmrExpIInv == IInv /\ ReAsmblTmrExp => IInv'
<1> SUFFICES ASSUME IInv, ReAsmblTmrExp PROVE IInv'
  OBVIOUS
<1> DEFINE h == Dist(rxNextHighestRcvd)
           s == Dist(rxHighestStatus)
           t == Dist(rxNextStatusTrig)
           found == /\ ModSn(rxNextStatusTrig, rxNext) < ModSn(vrMr, rxNext)
                    /\ ~recBuf[rxNextStatusTrig].allRcvd
           fetched == recBuf[rxNextStatusTrig]
           restart == \/ h > Dist(rxHighestStatus')
                      \/ /\ h = Dist(rxHighestStatus')
                         /\ fetched # NoBuf /\ ~fetched.noMissingSeg
<1>1. /\ TypeOK
      /\ rxNext \in Sn /\ rxHighestStatus \in Sn /\ rxNextHighestRcvd \in Sn
      /\ rxNextStatusTrig \in Sn
      /\ recBuf \in [Sn -> Buf]
      /\ h \in Sn /\ s \in Sn /\ t \in Sn
      /\ s <= h /\ h <= WinSz
  BY ModSnType DEF IInv, TypeOK, WindowOrder, Dist
<1>2. rxNextStatusTrig # rxNext /\ t <= h
  BY DEF IInv, RunningTmrTrigger, ReAsmblTmrExp
<1>3. /\ rxHighestStatus' = IF found THEN rxNextStatusTrig ELSE rxHighestStatus
      /\ UNCHANGED <<rxNext, rxNextHighestRcvd, recBuf>>
      /\ reAsmblTmr' = restart
      /\ rxNextStatusTrig' = IF restart THEN rxNextHighestRcvd ELSE rxNextStatusTrig
      /\ UNCHANGED <<staProhTmr, inDatInd, staProhReq>>
      /\ ~inDatInd
  BY Zenon DEF ReAsmblTmrExp, Dist
<1>4. /\ rxHighestStatus' \in Sn
      /\ Dist(rxHighestStatus') \in Sn
      /\ Dist(rxHighestStatus') <= h
      /\ ~recBuf[rxHighestStatus'].allRcvd
  BY <1>1, <1>2, <1>3 DEF IInv, EdgesIncomplete
<1>5. restart => rxNextHighestRcvd # rxNext
  <2>1. CASE h > Dist(rxHighestStatus')
    BY <1>1, <1>4, <2>1, ModSnType, WinSzAssumption DEF Dist, Sn, SnMod
  <2>2. CASE fetched # NoBuf
    <3>1. t < h
      BY <1>1, <2>2 DEF IInv, BufferedInWindow
    <3>2. QED
      BY <1>1, <3>1, ModSnType, WinSzAssumption DEF Dist, Sn, SnMod
  <2>3. QED
    BY <2>1, <2>2
<1>6. WinTypeOK'
  BY <1>1, <1>3, <1>4 DEF WinTypeOK
<1>7. WindowOrder' /\ BufferedInWindow' /\ EdgesIncomplete'
  BY <1>1, <1>3, <1>4 DEF IInv, WindowOrder, BufferedInWindow, EdgesIncomplete, Dist
<1>8. RunningTmrTrigger'
  <2>1. h <= h /\ Dist(rxHighestStatus') <= h
    BY <1>1, <1>4 DEF Sn
  <2>2. QED
    BY <1>3, <1>5, <2>1 DEF RunningTmrTrigger, Dist
<1>9. ExpSoIsFirstGap'
  BY <1>3 DEF IInv, ExpSoIsFirstGap
<1>10. HoleIsTimed'
  <2>1. rxHighestStatus' # rxNextHighestRcvd => h # Dist(rxHighestStatus')
    BY <1>1, <1>4, ModSnInjective DEF Dist
  <2>2. h # Dist(rxHighestStatus') => h > Dist(rxHighestStatus')
    BY <1>1, <1>4 DEF Sn
  <2>3. QED
    BY <1>3, <2>1, <2>2, Zenon DEF HoleIsTimed
<1>11. WinOK'
  BY <1>7, <1>8, <1>9, <1>10 DEF WinOK
<1>12. CASE found /\ ~staProhTmr
  <2>1. AssembleCntrlInfo
    BY <1>12 DEF ReAsmblTmrExp
  <2>2. /\ staPduReq' \in Seq(StaPduType)
        /\ staTrg' = FALSE /\ gatherStaPduInfo' = FALSE
    BY <1>1, <1>4, <2>1, AssembleCntrlInfoType DEF TypeOK
  <2>3. QED
    BY <1>1, <1>3, <1>6, <1>11, <2>2, IInvNext DEF StaTypeOK, TypeOK, TriggerIsPending
<1>13. CASE ~(found /\ ~staProhTmr)
  <2>1. /\ staTrg' = (staTrg \/ found)
        /\ gatherStaPduInfo' = (gatherStaPduInfo /\ ~found)
        /\ UNCHANGED staPduReq
    BY <1>13, Zenon DEF ReAsmblTmrExp
  <2>2. TriggerIsPending'
    BY <1>1, <1>3, <1>13, <2>1, Zenon DEF IInv, TriggerIsPending, TypeOK
  <2>3. staTrg' \in BOOLEAN /\ gatherStaPduInfo' \in BOOLEAN
    BY <2>1
  <2>4. QED
    BY <1>1, <1>3, <1>6, <1>11, <2>1, <2>2, <2>3, IInvNext DEF StaTypeOK, TypeOK
<1>14. QED
  BY <1>12, <1>13

\* What does not touch the window: the prohibit timer and the DL thread.
LEMMA StatusIInv ==
    IInv /\ (\/ StaProTmrExp \/ StaProhTmrStart
             \/ \E sends \in BOOLEAN : DlTakesStaPdu(sends)) => IInv'
<1> SUFFICES ASSUME IInv,
                    \/ StaProTmrExp \/ StaProhTmrStart
                    \/ \E sends \in BOOLEAN : DlTakesStaPdu(sends)
             PROVE  IInv'
  OBVIOUS
<1>1. TypeOK /\ TriggerIsPending
  BY DEF IInv
<1>2. UNCHANGED tmrTrigVars
  BY DEF StaProTmrExp, StaProhTmrStart, DlTakesStaPdu, tmrTrigVars, tmrVars
<1>3. WinTypeOK' /\ WinOK'
  BY <1>2, UnchangedWindow
<1>4. CASE StaProTmrExp
  <2>1. /\ UNCHANGED <<inDatInd, staProhReq>> /\ staProhTmr' = FALSE /\ ~inDatInd
    BY <1>4 DEF StaProTmrExp
  <2>2. CASE staTrg
    <3>1. /\ staPduReq' \in Seq(StaPduType)
          /\ staTrg' = FALSE /\ gatherStaPduInfo' = FALSE
      BY <1>1, <1>3, <1>4, <2>2, AssembleCntrlInfoType DEF StaProTmrExp, TypeOK, WinTypeOK
    <3>2. QED
      BY <1>1, <1>3, <2>1, <3>1, IInvNext DEF StaTypeOK, TypeOK, TriggerIsPending
  <2>3. CASE ~staTrg
    <3>1. gatherStaPduInfo' = FALSE /\ UNCHANGED <<staTrg, staPduReq>>
      BY <1>4, <2>3 DEF StaProTmrExp
    <3>2. QED
      BY <1>1, <1>3, <2>1, <2>3, <3>1, IInvNext DEF StaTypeOK, TypeOK, TriggerIsPending
  <2>4. QED
    BY <2>2, <2>3
<1>5. CASE StaProhTmrStart
  <2>1. staProhReq' \in Nat
    BY <1>1, <1>5 DEF StaProhTmrStart, TypeOK
  <2>2. QED
    BY <1>1, <1>3, <1>5, <2>1, IInvNext
       DEF StaTypeOK, StaProhTmrStart, TypeOK, TriggerIsPending, staVars
<1>6. ASSUME NEW sends \in BOOLEAN, DlTakesStaPdu(sends)
      PROVE  IInv'
  <2>1. staPduReq' \in Seq(StaPduType)
    BY <1>1, <1>6, HeadTailProperties DEF DlTakesStaPdu, TypeOK
  <2>2. staProhReq' \in Nat
    BY <1>1, <1>6 DEF DlTakesStaPdu, TypeOK
  <2>3. QED
    BY <1>1, <1>3, <1>6, <2>1, <2>2, IInvNext
       DEF StaTypeOK, DlTakesStaPdu, TypeOK, TriggerIsPending, tmrVars
<1>7. QED
  BY <1>4, <1>5, <1>6

\* Re-establishment resets everything the invariant speaks of.
LEMMA ReEstablishIInv == IInv /\ ReEstablish => IInv'
<1> SUFFICES ASSUME IInv, ReEstablish PROVE IInv'
  OBVIOUS
<1>1. 0 \in Sn /\ ModSn(0, 0) = 0
  BY WinSzAssumption DEF Sn, SnMod, ModSn
<1>2. WinTypeOK'
  BY <1>1, NoBufType DEF ReEstablish, WinTypeOK
<1>3. WindowOrder' /\ HoleIsTimed' /\ RunningTmrTrigger' /\ TriggerIsPending'
  BY <1>1, WinSzAssumption DEF ReEstablish, WindowOrder, HoleIsTimed, RunningTmrTrigger,
                              TriggerIsPending, Dist
<1>4. BufferedInWindow'
  BY DEF ReEstablish, BufferedInWindow
<1>5. EdgesIncomplete'
  BY <1>1 DEF ReEstablish, EdgesIncomplete, NoBuf
<1>6. ExpSoIsFirstGap'
  BY NoBufGapOK DEF ReEstablish, ExpSoIsFirstGap, GapOK
<1>7. WinOK'
  BY <1>3, <1>4, <1>5, <1>6 DEF WinOK
<1>8. QED
  BY <1>2, <1>3, <1>7, IInvNext DEF StaTypeOK, IInv, TypeOK, ReEstablish

\* IInv is inductive: it holds initially and every step of Next keeps it.
THEOREM Inductive == Spec => []IInv
<1>1. IInv /\ [Next]_vars => IInv'
  <2> SUFFICES ASSUME IInv, [Next]_vars PROVE IInv'
    OBVIOUS
  <2>1. CASE \E p \in Pdu, last \in BOOLEAN : RcvPdu(p, last)
    BY <2>1, RcvPduIInv
  <2>2. CASE ReAsmblTmrExp
    BY <2>2, ReAsmblTmrExpIInv
  <2>3. CASE \/ StaProTmrExp \/ StaProhTmrStart
             \/ \E sends \in BOOLEAN : DlTakesStaPdu(sends)
    BY <2>3, StatusIInv
  <2>4. CASE ReEstablish
    BY <2>4, ReEstablishIInv
  <2>5. CASE UNCHANGED vars
    <3>1. UNCHANGED tmrTrigVars
      BY <2>5 DEF vars, tmrTrigVars, tmrVars
    <3>2. WinTypeOK' /\ WinOK'
      BY <3>1, UnchangedWindow
    <3>3. QED
      BY <2>5, <3>2, IInvNext
         DEF StaTypeOK, IInv, TypeOK, TriggerIsPending, vars, tmrVars, staVars
  <2>6. QED
    BY <2>1, <2>2, <2>3, <2>4, <2>5 DEF Next
<1>2. QED
  BY <1>1, InitIInv, PTL DEF Spec

-----------------------------------------------------------------------------
(* The properties *)

\* Every variable keeps its type: sequence numbers stay masked, buffers well
\* formed and the status information sent to the DL thread complete.
THEOREM TypeCorrect == Spec => []TypeOK
  BY Inductive, PTL DEF IInv

\* rxNext, rxHighestStatus and rxNextHighestRcvd stay in this order around the
\* sequence-number circle, at most a window apart.
THEOREM WindowOrdered == Spec => []WindowOrder
  BY Inductive, PTL DEF IInv

\* The sliding window leaves no buffer behind.
THEOREM NothingLeftBehind == Spec => []BufferedInWindow
  BY Inductive, PTL DEF IInv

\* rxNext and rxHighestStatus stand on incomplete SDUs.
THEOREM EdgesStandOnGaps == Spec => []EdgesIncomplete
  BY Inductive, PTL DEF IInv

\* The trigger of a running reassembly timer lies in the window, and not below
\* rxHighestStatus unless it is complete.
THEOREM TriggerInPlace == Spec => []RunningTmrTrigger
  BY Inductive, PTL DEF IInv

\* expSo is the first missing unit, for every way of cutting an SDU.
THEOREM FirstGapKnown == Spec => []ExpSoIsFirstGap
  BY Inductive, PTL DEF IInv

\* An SDU missing above rxHighestStatus is timed while the window does not lie
\* across the wrap-around.
THEOREM HolesTimed == Spec => []HoleIsTimed
  BY Inductive, PTL DEF IInv

\* A triggered report is held back by nothing but the prohibit timer and the
\* unfinished data indication.
THEOREM ReportsPending == Spec => []TriggerIsPending
  BY Inductive, PTL DEF IInv

\* The window slides only over what has been received completely.
THEOREM WindowSlides == Spec => SlidesOverReceived
<1> DEFINE Slides ==
             \/ \A sn \in Sn :
                    Dist(sn) < Dist(rxNext') => sn = rxNext \/ recBuf[sn].allRcvd
             \/ ReEstablish
<1>1. IInv /\ [Next]_vars => Slides \/ UNCHANGED vars
  <2> SUFFICES ASSUME IInv, Next PROVE Slides
    OBVIOUS
  <2>1. WinInv /\ rxNext \in Sn
    BY DEF IInv, WinInv, TypeOK
  <2>2. ASSUME UNCHANGED rxNext
        PROVE  Slides
    <3>1. Dist(rxNext') = 0
      BY <2>1, <2>2, ModSnType DEF Dist
    <3>2. \A sn \in Sn : ~(Dist(sn) < 0)
      BY <2>1, ModSnType, WinSzAssumption DEF Dist, Sn, SnMod
    <3>3. QED
      BY <3>1, <3>2
  <2>3. ASSUME NEW p \in Pdu, NEW last \in BOOLEAN, RcvPdu(p, last)
        PROVE  Slides
    <3>1. CASE ~Accepts(p)
      BY <2>2, <2>3, <3>1 DEF RcvPdu, winVars
    <3>2. CASE Accepts(p)
      <4>1. rxNext' = UpdatedNext(p, Bufs(p))
        BY <2>3, <3>2 DEF RcvPdu, PlacePdu, Bufs
      <4>2. /\ \A sn \in Sn : Dist(sn) < Dist(rxNext') => Bufs(p)[sn].allRcvd
            /\ rxNext' # rxNext => p.sn = rxNext
        BY <2>1, <3>2, <4>1, NextStep
      <4>3. \A sn \in Sn : sn # p.sn => Bufs(p)[sn] = recBuf[sn]
        BY <2>1, <3>2, AcceptedPdu
      <4>4. CASE rxNext' # rxNext
        BY <4>2, <4>3, <4>4
      <4>5. QED
        BY <2>2, <4>4
    <3>3. QED
      BY <3>1, <3>2
  <2>4. CASE \/ ReAsmblTmrExp \/ StaProTmrExp \/ StaProhTmrStart
             \/ \E sends \in BOOLEAN : DlTakesStaPdu(sends)
    BY <2>2, <2>4 DEF ReAsmblTmrExp, StaProTmrExp, StaProhTmrStart, DlTakesStaPdu, winVars
  <2>5. QED
    BY <2>3, <2>4 DEF Next
<1>2. QED
  BY <1>1, Inductive, PTL DEF Spec, SlidesOverReceived

\* rxHighestStatus never moves back.
THEOREM StatusEdgeGrows == Spec => StatusEdgeAdvances
<1> DEFINE Advances == Dist(rxHighestStatus) <= Dist(rxHighestStatus') \/ ReEstablish
<1>1. IInv /\ [Next]_vars => Advances \/ UNCHANGED vars
  <2> SUFFICES ASSUME IInv, Next PROVE Advances
    OBVIOUS
  <2>1. WinInv /\ Dist(rxHighestStatus) \in Sn
    BY ModSnType DEF IInv, WinInv, TypeOK, Dist
  <2>2. ASSUME UNCHANGED rxHighestStatus
        PROVE  Advances
    BY <2>1, <2>2 DEF Sn
  <2>3. ASSUME NEW p \in Pdu, NEW last \in BOOLEAN, RcvPdu(p, last)
        PROVE  Advances
    <3>1. CASE ~Accepts(p)
      BY <2>2, <2>3, <3>1 DEF RcvPdu, winVars
    <3>2. CASE Accepts(p)
      <4>1. rxHighestStatus' = UpdatedHighestStatus(p, Bufs(p))
        BY <2>3, <3>2 DEF RcvPdu, PlacePdu, Bufs
      <4>2. QED
        BY <2>1, <3>2, <4>1, HighestStatusStep
    <3>3. QED
      BY <3>1, <3>2
  <2>4. CASE ReAsmblTmrExp
    <3>1. \/ rxHighestStatus' = rxHighestStatus
          \/ /\ rxHighestStatus' = rxNextStatusTrig
             /\ ~recBuf[rxNextStatusTrig].allRcvd
      BY <2>4, Zenon DEF ReAsmblTmrExp
    <3>2. reAsmblTmr
      BY <2>4 DEF ReAsmblTmrExp
    <3>3. QED
      BY <2>2, <3>1, <3>2 DEF IInv, RunningTmrTrigger
  <2>5. CASE \/ StaProTmrExp \/ StaProhTmrStart
             \/ \E sends \in BOOLEAN : DlTakesStaPdu(sends)
    BY <2>2, <2>5 DEF StaProTmrExp, StaProhTmrStart, DlTakesStaPdu, winVars
  <2>6. QED
    BY <2>3, <2>4, <2>5 DEF Next
<1>2. QED
  BY <1>1, Inductive, PTL DEF Spec, StatusEdgeAdvances

=============================================================================
