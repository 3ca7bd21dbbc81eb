------------------------------- MODULE RlcUm -------------------------------
(***************************************************************************)
(* RLC unacknowledged mode: the transmitting half of one entity, and the   *)
(* receiving half of its peer, taken to be this code too, over a channel   *)
(* that loses and reorders.                                                *)
(*                                                                         *)
(* External: the channel.  It delivers a segment once or never, and none   *)
(* that is WinSz SDUs behind the newest; and of WinSz SDUs in a row it     *)
(* does not lose everything.  Otherwise no receiver could tell two SDUs    *)
(* with the same SN apart.                                                 *)
(***************************************************************************)
EXTENDS RlcUmUl, RlcUmDl

ASSUME RlcUmAssumption == Rnd = {0, 1}

VARIABLES
    rnd,        \* which SDU of its SN the next one is
    air,        \* segments that may still arrive
    owed,       \* the last WinSz SDUs sent in segments, but those handed up
    bad         \* whether something else was handed up

chVars == <<rnd, air, owed, bad>>
umVars == <<umUlVars, umDlVars, chVars>>

UmInit ==
    /\ UmUlInit /\ UmDlInit
    /\ rnd = 0 /\ air = {} /\ owed = {} /\ bad = FALSE

\* The segment s sets off, and those too old to be told apart are lost.
OnAir(s) ==
    {p \in air : ModSn(s.sn, p.sn) < WinSz}
        \union {[sn |-> s.sn, so |-> s.so, end |-> s.end, rnd |-> rnd]}

Send(n) ==
    LET s == SegOf(n) IN
    /\ s.so = 0 => ModSn(txNext, vrUh) < WinSz
    /\ ProcessSdus(n)
    /\ IF IsWhole(s)
       THEN UNCHANGED <<air, owed, rnd>>
       ELSE /\ air' = OnAir(s)
            /\ owed' = {o \in owed : ModSn(s.sn, o[1]) < WinSz} \union {<<s.sn, rnd>>}
            /\ rnd' = IF txNext' < txNext THEN 1 - rnd ELSE rnd
    /\ UNCHANGED <<umUlVars, bad>>

Receive(p) ==
    /\ p \in air
    /\ air' = air \ {p}
    /\ RcvSeg(p)
    /\ LET got == {<<p.sn, s.rnd>> : s \in SduInd(p)} IN
        /\ bad' = (bad \/ Cardinality(got) > 1 \/ ~(got \subseteq owed))
        /\ owed' = owed \ got
    /\ UNCHANGED <<umDlVars, rnd>>

Expire == ReAsmblTmrExp /\ UNCHANGED <<umDlVars, chVars>>

\* Upper layers re-establish both halves, and nothing from before arrives.
ReEstablish ==
    /\ UlReEstablish /\ DlReEstablish
    /\ rnd' = 1 - rnd /\ air' = {} /\ owed' = {}
    /\ UNCHANGED bad

UmNext ==
    \/ (QSdu \/ DiscSdu) /\ UNCHANGED <<umUlVars, chVars>>
    \/ \E n \in 1 .. SduLen : Send(n)
    \/ \E p \in air : Receive(p)
    \/ Expire
    \/ ReEstablish

UmSpec == UmInit /\ [][UmNext]_umVars

-----------------------------------------------------------------------------
(* Properties *)

TypeOK ==
    /\ {vrUr, vrUh, vrUx, txNext} \subseteq Sn
    /\ recBuf \in [Sn -> Buf]
    /\ {reAsmblTmr, bad} \subseteq BOOLEAN
    /\ sduQ \in 0 .. MaxQ /\ segOff \in 0 .. LastByte
    /\ owed \subseteq Sn \X Rnd
    /\ air \subseteq [sn : Sn, so : 0 .. LastByte, end : 0 .. LastByte, rnd : Rnd]

\* What is handed up is an SDU as it was sent: of the segments of no other SDU,
\* and not for a second time.
DeliveredWhole == ~bad

\* While an SDU is missing below the highest one of which anything came, the
\* reassembly timer runs: the receiver gives it up in the end.
HoleIsTimed == ModSn(vrUh, vrUr) > 1 => reAsmblTmr

=============================================================================
