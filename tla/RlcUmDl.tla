------------------------------ MODULE RlcUmDl ------------------------------
(***************************************************************************)
(* The transmitting half of an RLC unacknowledged-mode entity, as it runs  *)
(* in the RLC DL thread: rlc_umm_dl.c.                                     *)
(*                                                                         *)
(* A grant for several PDUs is as many grants for one.  Left out: the size *)
(* of headers, and the buffer occupancy.                                   *)
(***************************************************************************)
EXTENDS RlcUmSdu

CONSTANT MaxQ   \* bound: SDUs in the queue

ASSUME MaxQAssumption == MaxQ \in Nat

VARIABLES
    txNext,     \* SN of the next SDU that is segmented
    sduQ,       \* number of SDUs in the queue
    segOff      \* units already sent of the first of them (isSegmented)

umDlVars == <<txNext, sduQ, segOff>>

UmDlInit == txNext = 0 /\ sduQ = 0 /\ segOff = 0

\* rlcUmmQSdu
QSdu ==
    /\ sduQ < MaxQ
    /\ sduQ' = sduQ + 1
    /\ UNCHANGED <<txNext, segOff>>

\* The segment of the first SDU for a grant of n units; nothing is sent of an SDU
\* that fits the grant whole but so and end.
SegOf(n) ==
    [sn |-> txNext, so |-> segOff,
     end |-> IF segOff + n > SduLen THEN SduLen - 1 ELSE segOff + n - 1]

IsWhole(s) == s.so = 0 /\ s.end = SduLen - 1

\* rlcUmmCreatePdu: the SN is used up with the last segment.  Slip: with any.
TxNextAfterAny(s) == AddSn(txNext, 1)
TxNextAfter(s) ==
    IF s.end = SduLen - 1 /\ ~IsWhole(s) THEN AddSn(txNext, 1) ELSE txNext

\* rlcUmmProcessSdus for one PDU
ProcessSdus(n) ==
    /\ sduQ > 0
    /\ LET s == SegOf(n) IN
        /\ txNext' = TxNextAfter(s)
        /\ IF s.end = SduLen - 1
           THEN sduQ' = sduQ - 1 /\ segOff' = 0
           ELSE segOff' = s.end + 1 /\ UNCHANGED sduQ

\* rlcUmmProcessSdus: the first SDU has waited for too long.
DiscSdu ==
    /\ sduQ > 0 /\ segOff = 0
    /\ sduQ' = sduQ - 1
    /\ UNCHANGED <<txNext, segOff>>

\* rlcDlUmmReEstablish, rlcUmmFreeDlRbCb
DlReEstablish == txNext' = 0 /\ sduQ' = 0 /\ segOff' = 0

=============================================================================
