------------------------------ MODULE RlcAmUl ------------------------------
(***************************************************************************)
(* The receiving half of an RLC acknowledged-mode entity, as it runs in    *)
(* the RLC UL thread: rlc_amm_ul.c, with the reception buffer of           *)
(* rlc_utl_ul.c and the two timers of rlc_tmr.c.                           *)
(*                                                                         *)
(* An SDU is SduLen units long and a PDU carries the units so .. end of    *)
(* it.  One action handles one PDU of a data indication; the indication's  *)
(* last PDU also runs the tail of rlcAmmProcessPdus, which builds the      *)
(* status information.  Nothing else of the thread runs in between.        *)
(***************************************************************************)
EXTENDS AmSn, FiniteSets, FiniteSetsExt, Sequences

CONSTANTS
    SduLen,     \* units of data in an SDU
    Sdu,        \* SDU contents
    MaxUdx      \* bound: status reports on their way to the DL thread

ASSUME SduLenAssumption == SduLen \in Nat \ {0}

VARIABLES
    rxNext,             \* first SN not completely received
    rxNextHighestRcvd,  \* one above the highest SN of which anything came
    rxNextStatusTrig,   \* rxNextHighestRcvd when reAsmblTmr was started
    rxHighestStatus,    \* the ackSn a status report may carry
    recBuf,             \* recBufLst: per SN, what has been received
    reAsmblTmr,         \* is the reassembly timer running?
    staProhTmr,         \* is the status prohibit timer running?
    staTrg,             \* a status report has been triggered
    gatherStaPduInfo,   \* ... and may be built at the end of the indication
    inDatInd,           \* rlcAmmProcessPdus still has PDUs to process
    staPduReq,          \* UDX: status information sent to the DL thread
    staProhReq          \* UDX: number of StaProhTmrStart on their way back

winVars == <<rxNext, rxNextHighestRcvd, rxNextStatusTrig, rxHighestStatus, recBuf>>
tmrVars == <<reAsmblTmr, staProhTmr>>
staVars == <<staTrg, gatherStaPduInfo, staPduReq>>
vars == <<winVars, tmrVars, staVars, inDatInd, staProhReq>>

-----------------------------------------------------------------------------
(* Data *)

LastByte == SduLen - 1
Unit == 0 .. LastByte
Seg == {s \in [so : Unit, end : Unit, sdu : Sdu] : s.so <= s.end}

Pdu == {p \in [sn : Sn, so : Unit, end : Unit, sdu : Sdu, poll : BOOLEAN] :
           p.so <= p.end}

IsFull(p) == p.so = 0 /\ p.end = LastByte  \* amHdr.si = 0

\* A reception buffer (RlcAmRecBuf).  NoBuf stands for an SN that has none.
\* A complete buffer has already been handed up and holds no data; it stays
\* in the list until rxNext passes it.
NoBuf == [segs |-> {}, expSo |-> 0, allRcvd |-> FALSE, noMissingSeg |-> FALSE]
Buf == [segs : SUBSET Seg, expSo : 0 .. SduLen,
        allRcvd : BOOLEAN, noMissingSeg : BOOLEAN]

Covered(segs) == UNION {s.so .. s.end : s \in segs}
Missing(b) == Unit \ Covered(b.segs)

vrMr == AddSn(rxNext, WinSz)

InRcvWindow(sn) == ModSn(sn, rxNext) < ModSn(vrMr, rxNext)

-----------------------------------------------------------------------------
(* Placing a PDU in the reception buffer *)

\* rlcAmmUlPlacePduInRecBuf: inside the window and not a duplicate.  For a
\* segment, the search of rlcAmmAddRcvdSeg: the segment before must end
\* below it and the segment after must start above it.
Accepts(p) ==
    /\ InRcvWindow(p.sn)
    /\ ~recBuf[p.sn].allRcvd
    /\ IsFull(p) \/ \A s \in recBuf[p.sn].segs : s.end < p.so \/ p.end < s.so

SegsWith(p) ==
    IF IsFull(p) THEN {[so |-> p.so, end |-> p.end, sdu |-> p.sdu]}
    ELSE recBuf[p.sn].segs \union {[so |-> p.so, end |-> p.end, sdu |-> p.sdu]}

\* rlcAmmUpdExpByteSeg, for a segment that starts at expSo: the walk to the
\* first gap.  A segment that starts elsewhere leaves the fields alone.
FirstGap(segs) == Min((0 .. SduLen) \ Covered(segs))

\* Slip: expSo is the end of the new segment, without the walk over the
\* segments that follow it.
SegBufNoWalk(p) ==
    LET b == recBuf[p.sn]
        segs == SegsWith(p)
    IN  IF p.so # b.expSo
        THEN [b EXCEPT !.segs = segs]
        ELSE [segs |-> segs, expSo |-> p.end + 1,
              allRcvd |-> p.end = LastByte, noMissingSeg |-> TRUE]

SegBuf(p) ==
    LET b == recBuf[p.sn]
        segs == SegsWith(p)
    IN  IF p.so # b.expSo
        THEN [b EXCEPT !.segs = segs]
        ELSE [segs |-> segs,
              expSo |-> FirstGap(segs),
              allRcvd |-> FirstGap(segs) = SduLen,
              noMissingSeg |-> \A s \in segs : s.so < FirstGap(segs)]

\* The buffer of p.sn once p is placed.  A complete SDU is reassembled and
\* handed to the DU in the same step (rlcAmmUlReassembleSdus), which empties
\* the buffer but keeps it in the list.
BufWith(p) ==
    LET b == IF IsFull(p) THEN [recBuf[p.sn] EXCEPT !.allRcvd = TRUE] ELSE SegBuf(p)
    IN  IF b.allRcvd THEN [b EXCEPT !.segs = {}] ELSE b

Completes(p) == Accepts(p) /\ BufWith(p).allRcvd

\* What rlcAmmProcPduOrSeg sends up when p completes an SDU.
Reassembled(p) == {s.sdu : s \in SegsWith(p)}

-----------------------------------------------------------------------------
(* Status information for the DL thread *)

\* rlcAmmUlSetNackInfo: a whole SDU, or a maximal run of missing units.
NackInfo(sn, b) ==
    LET Run(so, end) == [sn |-> sn, isSegment |-> b.segs # {}, soStart |-> so, soEnd |-> end]
    IN  {Run(g[1], g[2]) : g \in
           {g \in Unit \X Unit :
               /\ g[1] .. g[2] \subseteq Missing(b) /\ g[1] <= g[2]
               /\ (g[1] - 1) \notin Missing(b)
               /\ (g[2] + 1) \notin Missing(b)}}

\* rlcAmmUlAssembleCntrlInfo, on the values the handler has at that point.
\* Its scan runs from rxNext to rxHighestStatus.
StaPdu(next, highestStatus, bufs) ==
    [ackSn |-> highestStatus,
     nacks |-> UNION {NackInfo(sn, bufs[sn]) : sn \in
                 {n \in Sn : /\ ModSn(n, next) < ModSn(highestStatus, next)
                             /\ ~bufs[n].allRcvd}}]

\* The guard MaxUdx bounds the UDX queue for model checking.
UdxHasRoom == Len(staPduReq) < MaxUdx

AssembleCntrlInfo ==
    /\ staTrg' = FALSE
    /\ gatherStaPduInfo' = FALSE
    /\ staPduReq' = Append(staPduReq, StaPdu(rxNext', rxHighestStatus', recBuf'))

-----------------------------------------------------------------------------
(* rlcAmmProcessPdus *)

\* Slip: an SN counts as received as soon as it has a buffer.
NotRcvdAnyBuf(bufs, d) == {k \in d .. WinSz : bufs[AddSn(rxNext, k)] = NoBuf}

\* SNs the scans of rlcAmmProcessPdus look for: at or above distance d from
\* rxNext, up to vrMr, and not completely received.
NotRcvd(bufs, d) == {k \in d .. WinSz : ~bufs[AddSn(rxNext, k)].allRcvd}

\* Slips: moved by any complete SDU; or moved by one without a scan.
UpdatedHighestStatusByAny(p, bufs) ==
    LET scan == NotRcvd(bufs, ModSn(p.sn, rxNext) + 1)
    IN  IF bufs[p.sn].allRcvd /\ scan # {}
        THEN AddSn(rxNext, Min(scan))
        ELSE rxHighestStatus

UpdatedHighestStatusNoScan(p, bufs) ==
    IF bufs[p.sn].allRcvd /\ p.sn = rxHighestStatus THEN AddSn(p.sn, 1)
    ELSE rxHighestStatus

UpdatedHighestStatus(p, bufs) ==
    LET scan == NotRcvd(bufs, ModSn(p.sn, rxNext) + 1)
    IN  IF bufs[p.sn].allRcvd /\ p.sn = rxHighestStatus /\ scan # {}
        THEN AddSn(rxNext, Min(scan))
        ELSE rxHighestStatus

UpdatedNext(p, bufs) ==
    LET scan == NotRcvd(bufs, 0)
    IN  IF bufs[p.sn].allRcvd /\ p.sn = rxNext /\ scan # {}
        THEN AddSn(rxNext, Min(scan))
        ELSE rxNext

\* Slips: > for >=; sequence numbers compared without a base; or incremented
\* without the mask.
UpdatedNextHighestRcvdLate(p) ==
    IF ModSn(p.sn, rxNext) > ModSn(rxNextHighestRcvd, rxNext)
    THEN AddSn(p.sn, 1)
    ELSE rxNextHighestRcvd

UpdatedNextHighestRcvdRaw(p) ==
    IF p.sn >= rxNextHighestRcvd THEN AddSn(p.sn, 1) ELSE rxNextHighestRcvd

UpdatedNextHighestRcvdUnmasked(p) ==
    IF ModSn(p.sn, rxNext) >= ModSn(rxNextHighestRcvd, rxNext)
    THEN p.sn + 1
    ELSE rxNextHighestRcvd

UpdatedNextHighestRcvd(p) ==
    IF ModSn(p.sn, rxNext) >= ModSn(rxNextHighestRcvd, rxNext)
    THEN AddSn(p.sn, 1)
    ELSE rxNextHighestRcvd

\* The buffer the local variable recBuf points to when the timer is looked
\* at: the one last fetched by the scans above, or that of p.sn.
LastFetched(p, bufs) ==
    IF bufs[p.sn].allRcvd /\ p.sn = rxNext THEN bufs[rxNext']
    ELSE IF bufs[p.sn].allRcvd /\ p.sn = rxHighestStatus THEN bufs[rxHighestStatus']
    ELSE bufs[p.sn]

\* Slip: the timer stops only when rxNext stands on its trigger.
TmrOvertakenOnHit == rxNextStatusTrig = rxNext'

\* 38.322 5.2.3.2.3 as the code has it: stop reAsmblTmr when the window has
\* passed its trigger, then start it if it does not run and something is
\* outstanding.  The comparison of rxNextHighestRcvd with rxNext is between
\* the raw values.
TmrOvertaken ==
    \/ rxNextStatusTrig = rxNext'
    \/ /\ ~(ModSn(rxNextStatusTrig, rxNext') < ModSn(vrMr', rxNext'))
       /\ rxNextStatusTrig # vrMr'

\* Slip: off by one.
TmrNeededLate(fetched) ==
    \/ rxNextHighestRcvd' > rxNext' + 1
    \/ /\ rxNextHighestRcvd' = rxNext'
       /\ fetched # NoBuf /\ ~fetched.noMissingSeg

TmrNeeded(fetched) ==
    \/ rxNextHighestRcvd' > rxNext'
    \/ /\ rxNextHighestRcvd' = rxNext'
       /\ fetched # NoBuf /\ ~fetched.noMissingSeg

ReAsmblTmrAfterPdu(fetched) ==
    LET runs == reAsmblTmr /\ ~TmrOvertaken
        start == ~runs /\ TmrNeeded(fetched)
    IN  /\ reAsmblTmr' = (runs \/ start)
        /\ rxNextStatusTrig' = IF start THEN rxNextHighestRcvd' ELSE rxNextStatusTrig

PlacePdu(p) ==
    LET bufs == [recBuf EXCEPT ![p.sn] = BufWith(p)]
    IN  /\ rxNextHighestRcvd' = UpdatedNextHighestRcvd(p)
        /\ rxHighestStatus' = UpdatedHighestStatus(p, bufs)
        /\ rxNext' = UpdatedNext(p, bufs)
        /\ recBuf' = [sn \in Sn |->
                         IF ModSn(sn, rxNext) < ModSn(rxNext', rxNext) THEN NoBuf
                         ELSE bufs[sn]]
        /\ ReAsmblTmrAfterPdu(LastFetched(p, bufs))

\* rlcAmmTriggerStatus, evaluated after the window has moved.
PollTriggers(p, discarded) ==
    /\ p.poll
    /\ \/ discarded
       \/ ModSn(p.sn, rxNext') < ModSn(rxHighestStatus', rxNext')
       \/ ModSn(p.sn, rxNext') >= ModSn(vrMr', rxNext')

\* Slip: a second poll while the first is pending forgets the first.
GatherAfterPduOverwrite(triggered) == triggered /\ ~staProhTmr

\* A triggered report waits for the prohibit timer, or for the end of the
\* data indication.
GatherAfterPdu(triggered) == IF triggered THEN ~staProhTmr ELSE gatherStaPduInfo

\* One PDU of a data indication; last tells that it is the last one.
RcvPdu(p, last) ==
    /\ UdxHasRoom
    /\ IF Accepts(p)
       THEN PlacePdu(p)
       ELSE UNCHANGED <<winVars, reAsmblTmr>>
    /\ inDatInd' = ~last
    /\ LET triggered == PollTriggers(p, ~Accepts(p))
           gather == GatherAfterPdu(triggered)
       IN  IF last /\ gather
           THEN AssembleCntrlInfo
           ELSE /\ staTrg' = (staTrg \/ triggered)
                /\ gatherStaPduInfo' = gather
                /\ UNCHANGED staPduReq
    /\ UNCHANGED <<staProhTmr, staProhReq>>

-----------------------------------------------------------------------------
(* Timers and re-establishment *)

\* rlcAmmReAsmblTmrExp.  The buffer of rxNextStatusTrig is fetched once,
\* before the loop that is to find the first SN not completely received; so
\* either that SN is rxNextStatusTrig itself or the loop finds none.
ReAsmblTmrExp ==
    /\ ~inDatInd /\ reAsmblTmr /\ UdxHasRoom
    /\ LET found == /\ ModSn(rxNextStatusTrig, rxNext) < ModSn(vrMr, rxNext)
                    /\ ~recBuf[rxNextStatusTrig].allRcvd
           fetched == recBuf[rxNextStatusTrig]
           mHighest == ModSn(rxNextHighestRcvd, rxNext)
           mStatus == ModSn(rxHighestStatus', rxNext)
           restart == \/ mHighest > mStatus
                      \/ /\ mHighest = mStatus
                         /\ fetched # NoBuf /\ ~fetched.noMissingSeg
       IN  /\ rxHighestStatus' = IF found THEN rxNextStatusTrig ELSE rxHighestStatus
           /\ UNCHANGED <<rxNext, rxNextHighestRcvd, recBuf>>
           /\ IF found /\ ~staProhTmr
              THEN AssembleCntrlInfo
              ELSE /\ staTrg' = (staTrg \/ found)
                   /\ gatherStaPduInfo' = (gatherStaPduInfo /\ ~found)
                   /\ UNCHANGED staPduReq
           /\ reAsmblTmr' = restart
           /\ rxNextStatusTrig' = IF restart THEN rxNextHighestRcvd ELSE rxNextStatusTrig
    /\ UNCHANGED <<staProhTmr, inDatInd, staProhReq>>

\* rlcAmmStaProTmrExp
StaProTmrExp ==
    /\ ~inDatInd /\ staProhTmr /\ UdxHasRoom
    /\ staProhTmr' = FALSE
    /\ UNCHANGED <<winVars, reAsmblTmr, inDatInd>>
    /\ UNCHANGED staProhReq
    /\ IF staTrg
       THEN AssembleCntrlInfo
       ELSE gatherStaPduInfo' = FALSE /\ UNCHANGED <<staTrg, staPduReq>>

\* rlcUlUdxStaProhTmrStart: the DL thread has sent a status PDU.
StaProhTmrStart ==
    /\ ~inDatInd /\ staProhReq > 0
    /\ staProhReq' = staProhReq - 1
    /\ staProhTmr' = TRUE
    /\ UNCHANGED <<winVars, reAsmblTmr, staVars, inDatInd>>

\* rlcAmmUlReEstablish
ReEstablish ==
    /\ ~inDatInd
    /\ rxNext' = 0
    /\ rxNextHighestRcvd' = 0
    /\ rxNextStatusTrig' = 0
    /\ rxHighestStatus' = 0
    /\ recBuf' = [sn \in Sn |-> NoBuf]
    /\ reAsmblTmr' = FALSE
    /\ staProhTmr' = FALSE
    /\ staTrg' = FALSE
    /\ gatherStaPduInfo' = FALSE
    /\ UNCHANGED <<staPduReq, inDatInd, staProhReq>>

\* The DL thread takes the oldest status information.  If it sends it, it asks
\* for the prohibit timer (rlcAmmDlAssembleCntrlInfo); newer information that
\* arrives first replaces it.
DlTakesStaPdu(sends) ==
    /\ staPduReq # <<>>
    /\ sends => staProhReq < MaxUdx
    /\ staPduReq' = Tail(staPduReq)
    /\ staProhReq' = IF sends THEN staProhReq + 1 ELSE staProhReq
    /\ UNCHANGED <<winVars, tmrVars, staTrg, gatherStaPduInfo, inDatInd>>

-----------------------------------------------------------------------------
Init ==
    /\ rxNext = 0
    /\ rxNextHighestRcvd = 0
    /\ rxNextStatusTrig = 0
    /\ rxHighestStatus = 0
    /\ recBuf = [sn \in Sn |-> NoBuf]
    /\ reAsmblTmr = FALSE
    /\ staProhTmr = FALSE
    /\ staTrg = FALSE
    /\ gatherStaPduInfo = FALSE
    /\ inDatInd = FALSE
    /\ staPduReq = <<>>
    /\ staProhReq = 0

Next ==
    \/ \E p \in Pdu, last \in BOOLEAN : RcvPdu(p, last)
    \/ ReAsmblTmrExp
    \/ StaProTmrExp
    \/ StaProhTmrStart
    \/ ReEstablish
    \/ \E sends \in BOOLEAN : DlTakesStaPdu(sends)

Spec == Init /\ [][Next]_vars

-----------------------------------------------------------------------------
(* Properties *)

Dist(sn) == ModSn(sn, rxNext)

StaPduType ==
    [ackSn : Sn,
     nacks : SUBSET [sn : Sn, isSegment : BOOLEAN, soStart : Unit, soEnd : Unit]]

TypeOK ==
    /\ rxNext \in Sn
    /\ rxNextHighestRcvd \in Sn
    /\ rxNextStatusTrig \in Sn
    /\ rxHighestStatus \in Sn
    /\ recBuf \in [Sn -> Buf]
    /\ reAsmblTmr \in BOOLEAN
    /\ staProhTmr \in BOOLEAN
    /\ staTrg \in BOOLEAN
    /\ gatherStaPduInfo \in BOOLEAN
    /\ inDatInd \in BOOLEAN
    /\ staPduReq \in Seq(StaPduType)
    /\ staProhReq \in Nat

\* The state variables of 38.322 7.1 stay in order around the sequence-number
\* circle, whatever PDUs arrive: rxNext, then rxHighestStatus, then
\* rxNextHighestRcvd, none beyond vrMr.
WindowOrder ==
    /\ Dist(rxHighestStatus) <= Dist(rxNextHighestRcvd)
    /\ Dist(rxNextHighestRcvd) <= WinSz

\* Nothing is buffered outside [rxNext, rxNextHighestRcvd): a buffer left
\* behind when the window slides would be taken for the SN's next SDU.
BufferedInWindow ==
    \A sn \in Sn : recBuf[sn] # NoBuf => Dist(sn) < Dist(rxNextHighestRcvd)

\* The two edges a peer relies on point at SDUs that are still incomplete, so
\* that no scan starts or stops one too far.
EdgesIncomplete ==
    /\ ~recBuf[rxNext].allRcvd
    /\ ~recBuf[rxHighestStatus].allRcvd

\* A running reassembly timer has its trigger above rxNext and at most at
\* rxNextHighestRcvd; otherwise its expiry would look at SNs of another round
\* of the sequence-number circle.  A trigger that rxHighestStatus has passed
\* is complete; otherwise the expiry would move rxHighestStatus back.
RunningTmrTrigger ==
    reAsmblTmr =>
        /\ rxNextStatusTrig # rxNext
        /\ Dist(rxNextStatusTrig) <= Dist(rxNextHighestRcvd)
        /\ \/ recBuf[rxNextStatusTrig].allRcvd
           \/ Dist(rxHighestStatus) <= Dist(rxNextStatusTrig)

\* An incomplete buffer's expSo is the first missing unit, however the
\* segments were cut and in whatever order they came: without this an SDU
\* whose last gap is filled would not be recognised as complete.
ExpSoIsFirstGap ==
    \A sn \in Sn : LET b == recBuf[sn] IN
        ~b.allRcvd => /\ b.expSo = FirstGap(b.segs)
                      /\ b.expSo < SduLen
                      /\ \A s, t \in b.segs : s = t \/ s.end < t.so \/ t.end < s.so

\* An SDU that is missing below rxNextHighestRcvd either lies below
\* rxHighestStatus, where status reports ask for it, or has a reassembly timer
\* running for it, as long as the window does not lie across the wrap-around.
HoleIsTimed ==
    rxNext < rxNextHighestRcvd /\ rxHighestStatus # rxNextHighestRcvd => reAsmblTmr

\* A triggered report is only held back by the prohibit timer (or by the
\* unfinished data indication): otherwise nothing would ever send it.
TriggerIsPending ==
    /\ staTrg => staProhTmr \/ gatherStaPduInfo
    /\ gatherStaPduInfo => inDatInd /\ staTrg

\* The window slides over rxNext, which the PDU at hand completes, and over
\* nothing else that was not completely received and handed up before
\* (re-establishment starts afresh).
SlidesOverReceived ==
    [][(\A sn \in Sn : Dist(sn) < Dist(rxNext') => sn = rxNext \/ recBuf[sn].allRcvd)
       \/ ReEstablish]_vars

\* rxHighestStatus, the acknowledgement a peer acts on, never moves back.
StatusEdgeAdvances ==
    [][Dist(rxHighestStatus) <= Dist(rxHighestStatus') \/ ReEstablish]_vars

-----------------------------------------------------------------------------
(* What comments of the source say and the code does not do; each is the    *)
(* property of a run that TLC refutes.                                      *)

\* "spec 38.322v15.3.0 - 5.2.3.2.3": while an SDU is missing below
\* rxNextHighestRcvd and not yet below rxHighestStatus, the reassembly timer
\* runs.  HoleIsTimed without the exception for the wrap-around.
HoleIsAlwaysTimed ==
    rxNext # rxNextHighestRcvd /\ rxHighestStatus # rxNextHighestRcvd => reAsmblTmr

=============================================================================
