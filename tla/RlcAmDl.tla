------------------------------ MODULE RlcAmDl ------------------------------
(***************************************************************************)
(* The transmitting half of an RLC acknowledged-mode entity, as it runs in *)
(* the RLC DL thread: rlc_amm_dl.c, with the transmission buffer of        *)
(* rlc_utl_dl.c and the poll retransmission timer of rlc_tmr.c.            *)
(*                                                                         *)
(* All SDUs are SduLen units long.  SDUs get sequence numbers in the order *)
(* in which they were queued, so an SDU that has one is known by it and    *)
(* the others are only counted.  MAC may grant at any time.  A grant for   *)
(* several PDUs has the effect of one grant for each of them, because the  *)
(* counters it corrects when it ends (rlcAmmCalculateBo) only decrease     *)
(* while it is handled; so an action handles a grant for one PDU.          *)
(*                                                                         *)
(* The other end is any receiver that reports truthfully: a report names   *)
(* everything that is missing below its ackSn.  A PDU may arrive at any    *)
(* time after it was transmitted, more than once or never, in any order,   *)
(* but not after its SN was acknowledged.  A report is handled in the step *)
(* that makes it: one that is late is one made before the PDUs arrived     *)
(* that the peer has received since; and it may never be made.             *)
(***************************************************************************)
EXTENDS AmSn, FiniteSets, FiniteSetsExt, Sequences, SequencesExt

CONSTANTS
    SduLen,     \* units of data in an SDU
    MaxRetx,    \* maxRetx
    PollPdu,    \* pollPdu; pollByte is infinite
    MaxQ        \* bound: SDUs queued and not yet transmitted

ASSUME SduLenAssumption == SduLen \in Nat \ {0}
ASSUME MaxRetxAssumption == MaxRetx \in Nat \ {0}
ASSUME PollPduAssumption == PollPdu \in Nat \ {0}

VARIABLES
    txNext,         \* SN of the next SDU
    txNextAck,      \* first SN not acknowledged
    queued,         \* SDUs from nxtTx to the end of sduQ
    segOff,         \* units of the SDU at nxtTx already transmitted
    rcvdSz,         \* per SN, units of its SDU confirmed so far
    txBuf,          \* txBufLst: per SN, PDUs transmitted once
    retxLst,        \* PDUs and segments to be, or being, retransmitted
    nxtRetx,        \* the entry of retxLst to be retransmitted next
    bo, retxBo,     \* buffer occupancy, new data and retransmissions
    pollSn,
    pduWoPoll,
    pollRetxTmr,    \* is the poll retransmission timer running?
    maxReTxReached,
    undef,          \* a pointer was used that was never set or is dangling:
                    \* behaviour is undefined from then on and the model ends
    chan,           \* PDUs transmitted of SNs not yet acknowledged
    peerNext,       \* the peer's rxNext
    got             \* per SN of the peer's window, the units it has received

winVars == <<txNext, txNextAck>>
sduVars == <<queued, segOff, rcvdSz>>
bufVars == <<txBuf, retxLst, nxtRetx>>
boVars == <<bo, retxBo>>
pollVars == <<pollSn, pduWoPoll, pollRetxTmr>>
errVars == <<maxReTxReached, undef>>
peerVars == <<peerNext, got>>
vars == <<winVars, sduVars, bufVars, boVars, pollVars, errVars, peerVars, chan>>

-----------------------------------------------------------------------------
(* Data *)

LastUnit == SduLen - 1
Unit == 0 .. LastUnit
Size(s) == s.end - s.so + 1
SizeOf(segs) == Cardinality(UNION {{i} \X (segs[i].so .. segs[i].end) : i \in DOMAIN segs})
Dist(sn) == ModSn(sn, txNextAck)

\* An entry of retxLst (RlcRetx).  The pointer nxtRetx is the SN and start of
\* the entry pointed to; NoRetx is NULL.
Retx(sn, s) ==
    [sn |-> sn, so |-> s.so, end |-> s.end, retxCnt |-> 1, pendingReTrans |-> TRUE]
NoRetx == <<>>
Ptr(r) == <<r.sn, r.so>>
PtrAt(lst, i) == IF i \in DOMAIN lst THEN Ptr(lst[i]) ELSE NoRetx
IndexOfPtr(ptr) == SelectInSeq(retxLst, LAMBDA r : Ptr(r) = ptr)

\* RLC_AM_IS_TRANS_WIN_STALLED.  Slip: the window is one too large.
WinStalledLate(next, ack) == ModSn(next, ack) > WinSz

WinStalledAt(next, ack) == ModSn(next, ack) >= WinSz

\* rlcAmmCalculateBo resets negative counters; every report of the buffer
\* occupancy to MAC goes through it (rlcAmmSendDedLcBoStatus).
NonNeg(n) == IF n < 0 THEN 0 ELSE n

ReportBo(newBo, newRetxBo) == bo' = NonNeg(newBo) /\ retxBo' = NonNeg(newRetxBo)

-----------------------------------------------------------------------------
(* The buffers while a handler works on them.  node is the handler's index  *)
(* into retx, the next entry to look at, and lnk that into the list of one   *)
(* SN in txBuf.                                                              *)

Buffers ==
    [txBuf |-> txBuf, retx |-> retxLst, nxt |-> nxtRetx, rcvd |-> rcvdSz,
     bo |-> bo, retxBo |-> retxBo, max |-> maxReTxReached,
     undef |-> FALSE, err |-> FALSE, node |-> 1, lnk |-> 1, from |-> txNextAck]

AtNode(st) == st.node \in DOMAIN st.retx

\* What n turns of a loop make of st.
AfterTurns(n, Turn(_, _), st) ==
    LET s[i \in 0 .. n] == IF i = 0 THEN st ELSE Turn(i, s[i - 1])
    IN  s[n]

\* A loop over retx: at most as many turns as it has entries.
WhileNodes(Turn(_, _), st) == AfterTurns(Len(st.retx), Turn, st)

\* rlcAmmDlCheckIsSDUDelivered: n more units of sn's SDU reached the peer.  A
\* delivered SDU is confirmed and leaves sduQ, and its count goes with it.
Counted(n) == IF n = SduLen THEN 0 ELSE n
Delivered(st, sn, n) == [st EXCEPT !.rcvd[sn] = Counted(@ + n)]

\* rlcRemRetxPdu, of the entry at node or of an earlier one.
RemRetxPdu(st, i) ==
    LET r == st.retx[i]
    IN  [st EXCEPT
           !.retx = RemoveAt(@, i),
           !.nxt = IF Len(st.retx) = 1 THEN NoRetx ELSE @,
           !.retxBo = IF r.pendingReTrans THEN @ - Size(r) ELSE @]

SuccessfulReTx(st) ==
    LET r == st.retx[st.node] IN RemRetxPdu(Delivered(st, r.sn, Size(r)), st.node)

\* Slip: txBuf keeps what has been confirmed.
SuccessfulTxPdusKept(st, sns) ==
    [st EXCEPT !.rcvd = [sn \in Sn |-> IF sn \in sns THEN Counted(@[sn] + SizeOf(st.txBuf[sn]))
                                       ELSE @[sn]]]

\* rlcAmmDlProcessSuccessfulTxPdu, of each of sns.
SuccessfulTxPdus(st, sns) ==
    [st EXCEPT !.rcvd = [sn \in Sn |-> IF sn \in sns THEN Counted(@[sn] + SizeOf(st.txBuf[sn]))
                                       ELSE @[sn]],
               !.txBuf = [sn \in Sn |-> IF sn \in sns THEN <<>> ELSE @[sn]]]

\* Slip: off by one.
TooManyRetxLate(cnt) == cnt > MaxRetx + 1

TooManyRetx(cnt) == cnt > MaxRetx

\* rlcAmmDlMarkPduForReTx, and on to the next node.
MarkPduForReTx(st) ==
    LET i == st.node
        r == [st.retx[i] EXCEPT !.pendingReTrans = TRUE, !.retxCnt = @ + 1]
    IN  IF st.max \/ st.retx[i].pendingReTrans
        THEN [st EXCEPT !.node = i + 1]
        ELSE IF TooManyRetx(r.retxCnt)
        THEN RemRetxPdu([st EXCEPT !.max = TRUE, !.bo = 0, !.retxBo = 0, !.retx[i] = r], i)
        ELSE [st EXCEPT !.retx[i] = r,
                        !.retxBo = @ + Size(r),
                        !.nxt = IF @ = NoRetx THEN Ptr(r) ELSE @,
                        !.node = i + 1]

\* Slip: always at the tail.
InsertAfterTail(lst, r) == Len(lst)

\* rlcAmmAddPduToRetxLst: the entry to insert after, in the order of the SNs.
InsertAfter(lst, r) == SelectLastInSeq(lst, LAMBDA t : Dist(t.sn) <= Dist(r.sn))

\* rlcAmmDlMoveSduByteSegFrmTxtoRetxBuffer; node is then the entry after it.
AddPduToRetxLst(st, r) ==
    LET k == InsertAfter(st.retx, r)
    IN  [st EXCEPT !.retx = InsertAt(@, k + 1, r),
                   !.retxBo = @ + Size(r),
                   !.nxt = IF @ = NoRetx THEN Ptr(r) ELSE @,
                   !.node = k + 2]

\* The PDU at k of sn's list goes from txBuf to retxLst.
MoveSeg(st, sn, k) ==
    [AddPduToRetxLst(st, Retx(sn, st.txBuf[sn][k])) EXCEPT !.txBuf[sn] = RemoveAt(@, k)]

MoveFrmTxtoRetxBuffer(st, sn) ==
    AfterTurns(Len(st.txBuf[sn]), LAMBDA i, s : MoveSeg(s, sn, 1), st)

-----------------------------------------------------------------------------
(* rlcAmmDlHndlStatusPdu *)

\* rlcAmmDlUpdTxAndReTxBufForLessThanNackSn
LessThanTurn(s, mNackSn) ==
    IF AtNode(s) /\ Dist(s.retx[s.node].sn) < mNackSn THEN SuccessfulReTx(s) ELSE s

LessThanInRetx(st, mNackSn) == WhileNodes(LAMBDA i, s : LessThanTurn(s, mNackSn), st)

LessThanNackSn(st, mNackSn) ==
    SuccessfulTxPdus(LessThanInRetx(st, mNackSn),
                     {sn \in Sn : Dist(st.from) <= Dist(sn) /\ Dist(sn) < mNackSn})

\* Slip: <= for <.
SegAckedIncl(s, n) == s.end <= n.soStart

SegAcked(s, n) == s.end < n.soStart

\* Slip: < for <=.
SegNackedExcl(s, n) == ~SegAcked(s, n) /\ s.end < n.soEnd

SegNacked(s, n) == ~SegAcked(s, n) /\ s.end <= n.soEnd

\* rlcAmmDlHndlStatus4SduByteSegInTxBuf.  What ends below soStart is
\* acknowledged, what ends at most at soEnd is moved, the rest stays.  When
\* nothing is moved, the caller reads the uninitialised retx.
SegTurn(s, n) ==
    LET seg == s.txBuf[n.sn][s.lnk]
    IN  IF s.lnk \notin DOMAIN s.txBuf[n.sn] THEN s
        ELSE IF SegAcked(seg, n)
        THEN [Delivered(s, n.sn, Size(seg)) EXCEPT !.txBuf[n.sn] = RemoveAt(@, s.lnk)]
        ELSE IF SegNacked(seg, n) THEN [MoveSeg(s, n.sn, s.lnk) EXCEPT !.undef = FALSE]
        ELSE [s EXCEPT !.lnk = @ + 1]

NackSegInTxBuf(st, n) ==
    AfterTurns(Len(st.txBuf[n.sn]), LAMBDA i, s : SegTurn(s, n),
               [st EXCEPT !.lnk = 1, !.undef = TRUE])

\* The loop over retxLst of rlcAmmDlUpdateTxAndReTxBufForNackSn.
NackTurn(s, n) ==
    LET r == s.retx[s.node]
    IN  IF ~AtNode(s) \/ r.sn # n.sn THEN s
        ELSE IF n.isSegment /\ SegAcked(r, n) THEN SuccessfulReTx(s)
        ELSE IF ~n.isSegment \/ SegNacked(r, n) THEN MarkPduForReTx(s)
        ELSE s

NackInRetxLst(st, n) == WhileNodes(LAMBDA i, s : NackTurn(s, n), st)

ForNackSn(st, n) ==
    IF st.txBuf[n.sn] = <<>> THEN NackInRetxLst(st, n)
    ELSE IF n.isSegment THEN NackSegInTxBuf(st, n)
    ELSE MoveFrmTxtoRetxBuffer(st, n.sn)

ErroneousNack(n, mAckSn) == Dist(n.sn) > mAckSn \/ Dist(n.sn) >= Dist(txNext)

HndlNack(st, n, mAckSn) ==
    IF st.err \/ st.undef THEN st
    ELSE IF ErroneousNack(n, mAckSn) THEN [st EXCEPT !.err = TRUE]
    ELSE ForNackSn([LessThanNackSn(st, Dist(n.sn)) EXCEPT !.from = AddSn(n.sn, 1)], n)

\* rlcAmmDlUpdateTxAndReTxBufForAckSn
AckTurn(s, mAckSn) ==
    IF ~AtNode(s) THEN s
    ELSE IF Dist(s.retx[s.node].sn) < mAckSn THEN SuccessfulReTx(s)
    ELSE [s EXCEPT !.node = @ + 1]

AckInRetx(st, mAckSn) == WhileNodes(LAMBDA i, s : AckTurn(s, mAckSn), st)

ForAckSn(st, mAckSn) ==
    SuccessfulTxPdus(AckInRetx(st, mAckSn), {sn \in Sn : Dist(sn) < mAckSn})

\* An erroneous NACK ends the handler before ACKs are looked at.
AfterNacks(rep) ==
    AfterTurns(Len(rep.nacks), LAMBDA i, s : HndlNack(s, rep.nacks[i], Dist(rep.ackSn)), Buffers)

AfterStatus(rep) ==
    LET st == AfterNacks(rep)
    IN  IF st.err \/ st.undef THEN st ELSE ForAckSn(st, Dist(rep.ackSn))

\* Slip: nxtRetx stays where the handlers of the NACKs left it.
NxtRetxAfterStatusLeft(st) == st.nxt

\* RLC_LLIST_FIRST_RETX at the end of the handler.
NxtRetxAfterStatus(st) == PtrAt(st.retx, 1)

StillInFlight == {p \in chan : ModSn(p.sn, txNextAck') <= ModSn(txNext, txNextAck')}

\* (TLC evaluates what \E takes from a set of one element only once.)
HndlStatusPdu(rep) ==
    /\ ~undef
    /\ \E st \in {AfterStatus(rep)}, mAckSn \in {Dist(rep.ackSn)} :
           /\ mAckSn <= Dist(txNext)
           /\ pollRetxTmr' = (pollRetxTmr /\ Dist(pollSn) > mAckSn)
           /\ rcvdSz' = st.rcvd
           /\ txBuf' = st.txBuf
           /\ retxLst' = st.retx
           /\ maxReTxReached' = st.max
           /\ undef' = st.undef
           /\ IF st.err
              THEN UNCHANGED txNextAck /\ nxtRetx' = st.nxt
              ELSE /\ txNextAck' = IF rep.nacks = <<>> THEN rep.ackSn
                                   ELSE rep.nacks[1].sn
                   /\ nxtRetx' = NxtRetxAfterStatus(st)
           /\ IF ~st.err /\ st.retxBo # retxBo
              THEN ReportBo(st.bo, st.retxBo)
              ELSE bo' = st.bo /\ retxBo' = st.retxBo
           /\ chan' = StillInFlight
    /\ UNCHANGED <<txNext, queued, segOff, pollSn, pduWoPoll, peerVars>>

-----------------------------------------------------------------------------
(* New data and grants *)

\* rlcAmmQSdu
QSdu ==
    /\ ~undef
    /\ queued < MaxQ
    /\ queued' = queued + 1
    /\ ReportBo(bo + SduLen, retxBo)
    /\ UNCHANGED <<winVars, segOff, rcvdSz, bufVars, pollVars, errVars, peerVars, chan>>

Transmit(sn, so, end) ==
    /\ chan' = chan \union {[sn |-> sn, so |-> so, end |-> end]}
    /\ UNCHANGED peerVars

\* rlcAmmDlCheckAndSetPoll, with txNext' and nxtRetx' as they are then.
\* nxtTxNull tells whether nxtTx is NULL at that point.
CheckAndSetPoll(newPdu, nxtTxNull) ==
    LET woPoll == IF newPdu THEN pduWoPoll + 1 ELSE pduWoPoll
        pollBit == \/ (newPdu /\ woPoll >= PollPdu)
                   \/ (nxtTxNull /\ nxtRetx' = NoRetx)
                   \/ WinStalledAt(txNext', txNextAck)
    IN  /\ pduWoPoll' = IF pollBit THEN 0 ELSE woPoll
        /\ pollSn' = IF pollBit THEN AddSn(txNext', SnMod - 1) ELSE pollSn
        /\ pollRetxTmr' = (pollRetxTmr \/ pollBit)

\* rlcResegRetxPdus: the entry at nxtRetx is sent whole, or n units of it are
\* split off (rlcSplitPdu).
ResegRetxPdu(n) ==
    /\ ~undef
    /\ IndexOfPtr(nxtRetx) # 0
    /\ LET i == IndexOfPtr(nxtRetx)
           r == retxLst[i]
           cut == r.so + n - 1
           lst == [retxLst EXCEPT ![i].end = cut, ![i].pendingReTrans = FALSE]
           later == SelectInSubSeq(retxLst, i + 1, Len(retxLst), LAMBDA t : t.pendingReTrans)
       IN  /\ n <= Size(r)
           /\ Transmit(r.sn, r.so, cut)
           /\ ReportBo(bo, retxBo - n)
           /\ UNCHANGED txNext
           /\ IF n = Size(r)
              THEN /\ retxLst' = lst
                   /\ nxtRetx' = PtrAt(retxLst, later)
                   /\ CheckAndSetPoll(FALSE, queued = 0)
              ELSE /\ retxLst' = InsertAt(lst, i + 1, [r EXCEPT !.so = cut + 1])
                   /\ nxtRetx' = <<r.sn, cut + 1>>
                   /\ UNCHANGED pollVars
    /\ UNCHANGED <<txNextAck, sduVars, txBuf, errVars>>

\* The same, when nxtRetx points to an entry that rlcRemRetxPdu has released.
ResegReleased ==
    /\ ~undef
    /\ nxtRetx # NoRetx /\ IndexOfPtr(nxtRetx) = 0
    /\ undef' = TRUE
    /\ UNCHANGED <<winVars, sduVars, bufVars, boVars, pollVars, maxReTxReached,
                   peerVars, chan>>

\* rlcAssembleSdus and rlcAmmCreatePdu: n units of the SDU at nxtTx, once
\* nothing is left to retransmit.  nxtTx is only updated after the loop, so it
\* is never NULL when the poll is decided.
AssembleSdu(n) ==
    /\ ~undef
    /\ nxtRetx = NoRetx
    /\ queued > 0 /\ ~WinStalledAt(txNext, txNextAck)
    /\ n <= SduLen - segOff
    /\ LET seg == [so |-> segOff, end |-> segOff + n - 1]
           done == segOff + n = SduLen
       IN  /\ Transmit(txNext, seg.so, seg.end)
           /\ txBuf' = [txBuf EXCEPT ![txNext] = Append(@, seg)]
           /\ rcvdSz' = IF segOff = 0 THEN [rcvdSz EXCEPT ![txNext] = 0] ELSE rcvdSz
           /\ segOff' = IF done THEN 0 ELSE segOff + n
           /\ queued' = IF done THEN queued - 1 ELSE queued
           /\ txNext' = IF done THEN AddSn(txNext, 1) ELSE txNext
    /\ UNCHANGED <<txNextAck, retxLst, nxtRetx>>
    /\ CheckAndSetPoll(TRUE, FALSE)
    /\ ReportBo(bo - n, retxBo)
    /\ UNCHANGED errVars

\* rlcAssembleSdus discards an SDU older than discTmrInt of which nothing has
\* been transmitted.
DiscSdu ==
    /\ ~undef
    /\ nxtRetx = NoRetx
    /\ queued > 0 /\ segOff = 0
    /\ queued' = queued - 1
    /\ ReportBo(bo - SduLen, retxBo)
    /\ UNCHANGED <<winVars, segOff, rcvdSz, bufVars, pollVars, errVars, peerVars, chan>>

\* rlcAmmPollRetxTmrExp
PollRetxTmrExp ==
    /\ ~undef
    /\ pollRetxTmr
    /\ pollRetxTmr' = FALSE
    /\ LET sn == AddSn(txNext, SnMod - 1)
           nothingToSend == \/ queued = 0 /\ nxtRetx = NoRetx
                            \/ WinStalledAt(txNext, txNextAck)
           inTxBuf == txBuf[sn] # <<>>
           st == IF inTxBuf THEN MoveFrmTxtoRetxBuffer(Buffers, sn)
                 ELSE MarkPduForReTx([Buffers EXCEPT !.node = Len(retxLst)])
       IN  IF nothingToSend /\ (inTxBuf \/ retxLst # <<>>)
           THEN /\ txBuf' = st.txBuf
                /\ retxLst' = st.retx
                /\ nxtRetx' = st.nxt
                /\ maxReTxReached' = st.max
                /\ ReportBo(st.bo, st.retxBo)
           ELSE UNCHANGED <<bufVars, boVars, maxReTxReached>>
    /\ UNCHANGED <<winVars, sduVars, pollSn, pduWoPoll, undef, peerVars, chan>>

\* rlcAmmDlReEstablish; the peer is re-established with it.
ReEstablish ==
    /\ ~undef
    /\ txNext' = 0
    /\ txNextAck' = 0
    /\ queued' = 0
    /\ segOff' = 0
    /\ rcvdSz' = [sn \in Sn |-> 0]
    /\ txBuf' = [sn \in Sn |-> <<>>]
    /\ retxLst' = <<>>
    /\ nxtRetx' = NoRetx
    /\ bo' = 0
    /\ retxBo' = 0
    /\ pollSn' = 0
    /\ pduWoPoll' = 0
    /\ pollRetxTmr' = FALSE
    /\ maxReTxReached' = FALSE
    /\ peerNext' = 0
    /\ got' = [sn \in Sn |-> {}]
    /\ chan' = {}
    /\ UNCHANGED undef

-----------------------------------------------------------------------------
(* The air interface and the peer *)

PeerDist(sn) == ModSn(sn, peerNext)

\* The peer keeps what lies in its window and is new to it (the rest changes
\* nothing, and such a step is a stutter), and moves the window over what is
\* complete.
PeerRcv(p) ==
    LET now == [got EXCEPT ![p.sn] = @ \union (p.so .. p.end)]
        next == AddSn(peerNext, Min({k \in 0 .. WinSz : now[AddSn(peerNext, k)] # Unit}))
    IN  /\ ~undef
        /\ PeerDist(p.sn) < WinSz
        /\ ~(p.so .. p.end \subseteq got[p.sn])
        /\ peerNext' = next
        /\ got' = [sn \in Sn |-> IF PeerDist(sn) < PeerDist(next) THEN {} ELSE now[sn]]
        /\ UNCHANGED <<winVars, sduVars, bufVars, boVars, pollVars, errVars, chan>>

\* A status report has one NACK per maximal run of missing units, in order.
Missing(sn) == Unit \ got[sn]
IsRun(sn, so, end) ==
    /\ so <= end /\ so .. end \subseteq Missing(sn)
    /\ so - 1 \notin Missing(sn) /\ end + 1 \notin Missing(sn)
Nacks(sn) ==
    {[sn |-> sn, isSegment |-> got[sn] # {}, soStart |-> run[1], soEnd |-> run[2]] :
        run \in {p \in Unit \X Unit : IsRun(sn, p[1], p[2])}}
NacksBelow(ack) == UNION {Nacks(sn) : sn \in {s \in Sn : PeerDist(s) < PeerDist(ack)}}
Earlier(m, n) ==
    \/ PeerDist(m.sn) < PeerDist(n.sn)
    \/ m.sn = n.sn /\ m.soStart < n.soStart

CanReport(ack) ==
    /\ got[ack] # Unit
    /\ \/ ack = peerNext
       \/ \E sn \in Sn : got[sn] # {} /\ PeerDist(ack) <= PeerDist(sn) + 1

Report(ack) ==
    LET ns == NacksBelow(ack)
    IN  [ackSn |-> ack,
         nacks |-> [k \in 1 .. Cardinality(ns) |->
                       CHOOSE n \in ns : Cardinality({m \in ns : Earlier(m, n)}) = k - 1]]

\* The UL thread has received a report with ackSn ack (rlcDlUdxStaUpdReq).
RcvStatus(ack) == CanReport(ack) /\ \E rep \in {Report(ack)} : HndlStatusPdu(rep)

-----------------------------------------------------------------------------
Init ==
    /\ txNext = 0
    /\ txNextAck = 0
    /\ queued = 0
    /\ segOff = 0
    /\ rcvdSz = [sn \in Sn |-> 0]
    /\ txBuf = [sn \in Sn |-> <<>>]
    /\ retxLst = <<>>
    /\ nxtRetx = NoRetx
    /\ bo = 0
    /\ retxBo = 0
    /\ pollSn = 0
    /\ pduWoPoll = 0
    /\ pollRetxTmr = FALSE
    /\ maxReTxReached = FALSE
    /\ undef = FALSE
    /\ chan = {}
    /\ peerNext = 0
    /\ got = [sn \in Sn |-> {}]

Next ==
    \/ QSdu
    \/ \E n \in 1 .. SduLen : ResegRetxPdu(n)
    \/ ResegReleased
    \/ \E n \in 1 .. SduLen : AssembleSdu(n)
    \/ DiscSdu
    \/ \E ack \in Sn : RcvStatus(ack)
    \/ PollRetxTmrExp
    \/ ReEstablish
    \/ \E p \in chan : PeerRcv(p)

Spec == Init /\ [][Next]_vars

-----------------------------------------------------------------------------
(* Properties *)

SegType == [so : Unit, end : Unit]

TypeOK ==
    /\ txNext \in Sn /\ txNextAck \in Sn /\ pollSn \in Sn
    /\ queued \in Nat
    /\ segOff \in Unit
    /\ rcvdSz \in [Sn -> 0 .. SduLen]
    /\ txBuf \in [Sn -> Seq(SegType)]
    /\ retxLst \in Seq([sn : Sn, so : Unit, end : Unit, retxCnt : 1 .. MaxRetx,
                        pendingReTrans : BOOLEAN])
    /\ nxtRetx = NoRetx \/ nxtRetx \in Sn \X Unit
    /\ bo \in Int /\ retxBo \in Int
    /\ pduWoPoll \in 0 .. (PollPdu - 1)
    /\ pollRetxTmr \in BOOLEAN
    /\ maxReTxReached \in BOOLEAN /\ undef \in BOOLEAN
    /\ chan \subseteq [sn : Sn, so : Unit, end : Unit]
    /\ peerNext \in Sn /\ got \in [Sn -> SUBSET Unit]

Held(sn) == Range(txBuf[sn]) \union {r \in Range(retxLst) : r.sn = sn}
HeldUnits(sn) == UNION {s.so .. s.end : s \in Held(sn)}
RetxSize(sn) ==
    Cardinality(UNION {{i} \X (retxLst[i].so .. retxLst[i].end) :
                           i \in {j \in DOMAIN retxLst : retxLst[j].sn = sn}})
HeldSize(sn) == SizeOf(txBuf[sn]) + RetxSize(sn)
UnsentUnits(sn) == IF sn = txNext /\ segOff > 0 THEN segOff .. LastUnit ELSE {}

\* What the peer has received of an SN not yet acknowledged.
PeerHas(sn) == IF ModSn(sn, peerNext) < WinSz THEN got[sn] ELSE Unit

\* No more than the window is in flight, and nothing is held of SNs outside it
\* (the SDU being segmented has SN txNext): what was left behind there would be
\* mixed up with the SN's next SDU.
HeldInWindow ==
    /\ Dist(txNext) <= WinSz
    /\ \A sn \in Sn : Held(sn) # {} => Dist(sn) < Dist(txNext) \/ (sn = txNext /\ segOff > 0)

\* What was transmitted and is no longer held has arrived at the peer, whatever
\* order NACKs, losses and re-segmentations come in; after the maximum number of
\* retransmissions the code gives up.
ReleasedArrived ==
    ~maxReTxReached =>
        \A sn \in Sn : Dist(sn) < Dist(txNext) \/ (sn = txNext /\ segOff > 0) =>
            Unit \ (HeldUnits(sn) \union UnsentUnits(sn)) \subseteq PeerHas(sn)

\* Every unit of an SDU is confirmed once: units confirmed, held and not yet
\* transmitted add up.  A unit counted twice would confirm an SDU that has not
\* arrived; one counted not at all would keep it in sduQ for ever.
ConfirmedOnce ==
    ~maxReTxReached =>
        \A sn \in Sn :
            LET n == rcvdSz[sn] + HeldSize(sn) + Cardinality(UnsentUnits(sn))
            IN  n = SduLen \/ (n = 0 /\ Held(sn) = {})

\* retxLst is in the order of the SNs and, within one SN, of the segments,
\* which the loops over it that stop at the first entry that is too high need.
RetxInOrder ==
    \A i, j \in DOMAIN retxLst : i < j =>
        \/ Dist(retxLst[i].sn) < Dist(retxLst[j].sn)
        \/ retxLst[i].sn = retxLst[j].sn /\ retxLst[i].end < retxLst[j].so

\* Everything marked for retransmission is at or behind nxtRetx, where the
\* next grants find it, and nxtRetx never points to an entry that was removed:
\* neither that entry nor the uninitialised retx is read, before the maximum
\* number of retransmissions is reached.
PendingIsReachable ==
    ~maxReTxReached =>
        /\ ~undef
        /\ nxtRetx # NoRetx => IndexOfPtr(nxtRetx) # 0
        /\ \A i \in DOMAIN retxLst :
               retxLst[i].pendingReTrans => IndexOfPtr(nxtRetx) \in 1 .. i

\* Whatever report comes next, once it is handled every unit it asks for awaits
\* retransmission, however its SDU was segmented and re-segmented, and the
\* handler did not read the uninitialised retx.
Awaits(r, sn, u) == r.sn = sn /\ u \in r.so .. r.end /\ r.pendingReTrans

NackedAwaitsRetx ==
    \A ack \in {a \in Sn : CanReport(a) /\ Dist(a) <= Dist(txNext)} :
    \A st \in {AfterStatus(Report(ack))} :
        /\ ~st.undef
        /\ \/ st.max
           \/ \A n \in Range(Report(ack).nacks) : \A u \in n.soStart .. n.soEnd :
                  \E r \in Range(st.retx) : Awaits(r, n.sn, u)

=============================================================================
