------------------------------ MODULE RlcUmUl ------------------------------
(***************************************************************************)
(* The receiving half of an RLC unacknowledged-mode entity, as it runs in  *)
(* the RLC UL thread: rlc_umm_ul.c, with the reception buffers of          *)
(* rlc_utl_ul.c and the timer of rlc_tmr.c.                                *)
(*                                                                         *)
(* An SDU is SduLen units long and a segment carries the units so .. end   *)
(* of it; rnd tells two SDUs with the same SN apart, which the code        *)
(* cannot.  A PDU with a whole SDU has no SN and is handed on unseen; it   *)
(* is left out.  There is memory for every segment.                        *)
(***************************************************************************)
EXTENDS RlcUmSdu, FiniteSets, FiniteSetsExt

CONSTANTS
    Rnd,            \* what tells SDUs of the same SN apart
    AcrossWrap      \* whether the timer may expire with the SNs it skips
                    \* across the wrap-around

VARIABLES
    vrUr,           \* first SN not reassembled
    vrUh,           \* one above the highest SN received
    vrUx,           \* vrUh when reAsmblTmr was started
    recBuf,         \* recBufLst: per SN, what has been received
    reAsmblTmr      \* is the reassembly timer running?

umUlVars == <<vrUr, vrUh, vrUx, recBuf, reAsmblTmr>>

Seg == [so : 0 .. LastByte, end : 0 .. LastByte, rnd : Rnd]

\* RlcUmRecBuf; NoBuf stands for an SN that has none.  The buffer of an SDU that
\* was handed up is empty, and stays until vrUr passes it.
NoBuf == [segs |-> {}, expSo |-> 0, allSegRcvd |-> FALSE, noMissingSeg |-> FALSE]
Buf == [segs : SUBSET Seg, expSo : 0 .. SduLen, allSegRcvd : BOOLEAN, noMissingSeg : BOOLEAN]

UmUlInit ==
    /\ vrUr = 0 /\ vrUh = 0 /\ vrUx = 0
    /\ recBuf = [sn \in Sn |-> NoBuf]
    /\ reAsmblTmr = FALSE

\* RLC_UM_GET_VALUE for vrUh = uh: the window below uh has the values below WinSz.
Value(sn, uh) == ModSn(sn, AddSn(uh, WinSz))

\* rlcUmmCheckSnInReassemblyWindow
InReassemblyWindow(sn, uh) == Value(sn, uh) < Value(uh, uh)

-----------------------------------------------------------------------------
(* Placing a segment *)

\* rlcUmmAddRcvdSeg
Accepts(p) ==
    /\ ~recBuf[p.sn].allSegRcvd
    /\ \A s \in recBuf[p.sn].segs : s.end < p.so \/ p.end < s.so

FirstGap(segs) == Min((0 .. SduLen) \ UNION {s.so .. s.end : s \in segs})

\* rlcUmmAddRcvdSeg, rlcUmmUpdExpByteSeg: a segment that is not at expSo changes
\* no field.
BufWith(p) ==
    LET b == recBuf[p.sn]
        segs == b.segs \union {[so |-> p.so, end |-> p.end, rnd |-> p.rnd]}
    IN  IF p.so # b.expSo
        THEN [b EXCEPT !.segs = segs]
        ELSE [segs |-> segs,
              expSo |-> FirstGap(segs),
              allSegRcvd |-> FirstGap(segs) = SduLen,
              noMissingSeg |-> \A s \in segs : s.so < FirstGap(segs)]

-----------------------------------------------------------------------------
(* Moving the window.  w has the variables the loops of the code work on. *)

\* rlcUtlDelUmRecBuf for the SNs of a loop.  Slip: for none of them.
DeletedNone(buf, sns) == buf
Deleted(buf, sns) == [sn \in Sn |-> IF sn \in sns THEN NoBuf ELSE buf[sn]]

\* rlcUmmFindRxNextReassembly: from ur to the first SN not below next that is not
\* reassembled.  While ur goes up to next it is not masked, so from SnMod on it
\* is the SN of no buffer.
FindRxNextReassembly(w, next) ==
    LET u == Value(w.ur, w.uh)
        n == Value(next, w.uh)
        At(k) == AddSn(AddSn(w.uh, WinSz), k)
        m == Min({k \in n .. SnMod - 1 : ~w.buf[At(k)].allSegRcvd})
    IN  IF u >= n THEN w
        ELSE [ur |-> At(m),
              uh |-> w.uh,
              buf |-> Deleted(w.buf, {w.ur + j : j \in 0 .. n - u - 1}
                                        \union {At(k) : k \in n .. m - 1})]

\* rlcUmmProcessPdus for an SN above the window.
\* Slip: vrUh is not masked.
ShiftedUnmasked(w, sn) == [w EXCEPT !.uh = sn + 1]
Shifted(w, sn) ==
    LET uh == AddSn(sn, 1)
        edge == AddSn(uh, WinSz)
        below == {s \in Sn : ModSn(s, w.ur) < ModSn(edge, w.ur)}
        moved == [ur |-> edge, uh |-> uh, buf |-> Deleted(w.buf, below)]
    IN  IF InReassemblyWindow(w.ur, uh) THEN [w EXCEPT !.uh = uh]
        ELSE IF moved.buf[edge].allSegRcvd
        THEN FindRxNextReassembly(moved, AddSn(edge, 1))
        ELSE moved

\* The condition to start the timer: below vrUh more than one SDU is missing, or
\* there is a gap in b, which should be the buffer of the only one.
\* Slip: more than two are.
HoleBelowLate(w, b) == ModSn(w.uh, w.ur) > 2
HoleBelow(w, b) ==
    LET nxt == Value(AddSn(w.ur, 1), w.uh) IN
    \/ Value(w.uh, w.uh) > nxt
    \/ Value(w.uh, w.uh) = nxt /\ b # NoBuf /\ ~b.noMissingSeg

\* The timer that runs has nothing to wait for.
TmrOvertaken(w) ==
    \/ Value(vrUx, w.uh) <= Value(w.ur, w.uh)
    \/ ~InReassemblyWindow(vrUx, w.uh) /\ vrUx # w.uh
    \/ /\ w.uh = AddSn(w.ur, 1)
       /\ w.buf[w.ur] # NoBuf /\ w.buf[w.ur].noMissingSeg

SetWindow(w) == vrUr' = w.ur /\ vrUh' = w.uh /\ recBuf' = w.buf

-----------------------------------------------------------------------------
(* Actions *)

\* The PDU is placed.
Placed(p) == Value(p.sn, vrUh) >= Value(vrUr, vrUh) /\ Accepts(p)

\* rlcUmmReAssembleSdus: the segments of the SDU that p makes whole, for DU.
SduInd(p) ==
    IF Placed(p) /\ BufWith(p).allSegRcvd THEN BufWith(p).segs ELSE {}

\* rlcUmmProcessPdus for one PDU
RcvSeg(p) ==
    LET b == BufWith(p)
        w == [ur |-> vrUr, uh |-> vrUh, buf |->
                [recBuf EXCEPT ![p.sn] = IF b.allSegRcvd THEN [b EXCEPT !.segs = {}] ELSE b]]
        moved == IF b.allSegRcvd
                 THEN IF p.sn = vrUr THEN FindRxNextReassembly(w, AddSn(vrUr, 1)) ELSE w
                 ELSE IF InReassemblyWindow(p.sn, vrUh) THEN w ELSE Shifted(w, p.sn)
        runs == reAsmblTmr /\ ~TmrOvertaken(moved)
        starts == ~runs /\ HoleBelow(moved, moved.buf[p.sn])
    IN IF Placed(p)
       THEN /\ SetWindow(moved)
            /\ reAsmblTmr' = (runs \/ starts)
            /\ vrUx' = IF starts THEN moved.uh ELSE vrUx
       ELSE UNCHANGED umUlVars

\* The SNs that the expiry skips
Skipped ==
    LET u == Value(vrUr, vrUh)
        x == Value(vrUx, vrUh)
    IN {vrUr + j : j \in 0 .. x - u - 1}

\* rlcUmmReAsmblTmrExp
ReAsmblTmrExp ==
    LET w == FindRxNextReassembly([ur |-> vrUr, uh |-> vrUh, buf |-> recBuf], vrUx)
        starts == HoleBelow(w, w.buf[w.ur])
    IN
    /\ reAsmblTmr
    /\ AcrossWrap \/ Skipped \subseteq Sn
    /\ SetWindow(w)
    /\ reAsmblTmr' = starts
    /\ vrUx' = IF starts THEN vrUh ELSE vrUx

\* rlcUmmUlReEstablish
UlReEstablish ==
    /\ recBuf' = Deleted(recBuf,
            {sn \in Sn : Value(sn, vrUh) \in Value(vrUr, vrUh) .. WinSz - 1})
    /\ vrUr' = 0 /\ vrUh' = 0 /\ vrUx' = 0
    /\ reAsmblTmr' = FALSE

=============================================================================
