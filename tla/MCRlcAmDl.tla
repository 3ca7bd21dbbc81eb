----------------------------- MODULE MCRlcAmDl -----------------------------
(* The transmitter against a truthful receiver over a lossy channel.        *)
EXTENDS RlcAmDl

\* Sequence numbers enter RlcAmDl only as distances (ModSn) and by AddSn, so
\* states that differ by a rotation of all of them behave alike.  Rotated is
\* the state with txNextAck moved to 0.
OfSn(sn) == <<rcvdSz[sn], txBuf[sn], got[sn]>>
Moved(r) == [r EXCEPT !.sn = Dist(@)]

Rotated ==
    <<Dist(txNext), Dist(pollSn), Dist(peerNext),
      [k \in Sn |-> OfSn(AddSn(txNextAck, k))],
      [i \in DOMAIN retxLst |-> Moved(retxLst[i])],
      IF nxtRetx = NoRetx THEN NoRetx ELSE <<Dist(nxtRetx[1]), nxtRetx[2]>>,
      {Moved(p) : p \in chan},
      queued, segOff, boVars, pduWoPoll, pollRetxTmr, errVars>>

=============================================================================
