------------------------------ MODULE SchFcfs ------------------------------
(***************************************************************************)
(* The first-come-first-served scheduler of 5gnrsch (sch_fcfs.c) with the  *)
(* HARQ entities of the UEs it serves (sch_harq_dl.c, sch_harq_ul.c), and  *)
(* the copies of the downlink blocks that MAC holds (mac_harq_dl.c).       *)
(*                                                                         *)
(* SCH runs in one thread.  A slot indication handles the UEs of the list  *)
(* ueToBeScheduled one after the other; a step of the model handles one    *)
(* UE, and no other handler runs before the last of them.                  *)
(*                                                                         *)
(* Slots are those in which feedback can be expected.  A slot is reserved  *)
(* when a transmission is scheduled and stays so until its feedback came   *)
(* (or was lost): a slot number is not used again before that.  Which free *)
(* slot K0, K1 and K2 lead to is left open, and so is the order of the     *)
(* free processes.  Retransmissions are for connected UEs, after MSG4.     *)
(*                                                                         *)
(* A list node that is inserted where it already is, or removed from where *)
(* it is not, damages the lists.  The model ends there (corrupt).          *)
(***************************************************************************)
EXTENDS Naturals, FiniteSets, Sequences, SequencesExt

CONSTANTS
    Ue,
    DlUe, UlUe,     \* UEs that get downlink data; that ask for the uplink
    RaUe,           \* UEs that attached by random access, not by handover
    Proc,           \* HARQ processes of a UE and direction
    Proc0,          \* the process with the number 0
    Slot,
    MaxTx,          \* SCH_MAX_NUM_DL_HQ_TX
    Faults          \* what may go wrong: a subset of AllFaults

AllFaults ==
    {"dlPrb",       \* no PRB for a transmission whose PUCCH is reserved
     "uci",         \* the feedback of a slot is lost
     "crc",         \* the CRC indication of a slot is lost
     "zeroBsr",     \* a BSR reports empty buffers
     "ulPrb"}       \* no PRB for the volume that a BSR reported

ASSUME UeAssumption == DlUe \subseteq Ue /\ UlUe \subseteq Ue /\ RaUe \subseteq Ue
ASSUME MaxTxAssumption == MaxTx \in Nat \ {0}
ASSUME FaultsAssumption == Faults \subseteq AllFaults

VARIABLES
    toSched,        \* ueToBeScheduled
    left,           \* ueCount: UEs this slot indication has still to handle
    hqP,            \* the local variable hqP of schFcfsScheduleSlot, and UE of it
    boInd,          \* boIndBitMap: UEs with downlink data
    dlFree,         \* per UE, dlHqEnt.free; the other processes are in inUse
    tb,             \* per UE and process, tbInfo[0] and tbInfo[1]
    dlRetx,         \* per UE, dlRetxHqList
    hqDlmap,        \* per UE and slot, the processes whose feedback is due
    pucch,          \* per UE, the slots reserved for feedback
    macTb,          \* per UE, the processes whose block MAC holds
    srRcvd, bsrRcvd,\* UEs that asked for a grant
    bsrVol,         \* UEs whose last BSR reported data not granted yet
    ulFree, ulRetx, hqUlmap, pusch,     \* the uplink's dlFree, ..., pucch
    corrupt

schedVars == <<toSched, left, hqP>>
dlVars == <<boInd, dlFree, tb, dlRetx, hqDlmap, pucch, macTb>>
ulVars == <<srRcvd, bsrRcvd, bsrVol, ulFree, ulRetx, hqUlmap, pusch>>
vars == <<schedVars, dlVars, ulVars, corrupt>>

-----------------------------------------------------------------------------
(* Data *)

NoProc == <<>>

\* A TB after schDlReleaseHqPTb.
Released == [state |-> "ACKED", isEnabled |-> FALSE, txCntr |-> 0]

\* fillDlMsgInfo.  Slips: the transmission is not counted; TB 1 is forgotten.
FilledNotCounted(t) == [state |-> "WAITING", isEnabled |-> TRUE, txCntr |-> t.txCntr]
FilledOne(tbs) == <<FilledNotCounted(tbs[1]), tbs[2]>>
Filled(t) == [state |-> "WAITING", isEnabled |-> TRUE, txCntr |-> t.txCntr + 1]
FilledTbs(tbs) == <<Filled(tbs[1]), Filled(tbs[2])>>

\* schDlHqFeedbackUpdate and schDlHqTbFail for one TB.  A TB that is enabled
\* and not WAITING was NACKED, and its old feedback counts again.
\* Slip: one transmission too many.
EndsLate(t, fdbk) ==
    /\ t.isEnabled
    /\ \/ t.state = "WAITING" /\ fdbk = "ACK"
       \/ t.txCntr > MaxTx
Ends(t, fdbk) ==
    /\ t.isEnabled
    /\ \/ t.state = "WAITING" /\ fdbk = "ACK"
       \/ t.txCntr >= MaxTx
Fails(t, fdbk) == t.isEnabled /\ ~Ends(t, fdbk)
AfterFdbk(t, fdbk) ==
    CASE Ends(t, fdbk)  -> Released
      [] Fails(t, fdbk) -> [t EXCEPT !.state = "NACKED"]
      [] OTHER          -> t

DlInUse(u) == Proc \ dlFree[u]
UlInUse(u) == Proc \ ulFree[u]
Awaited(map, u) == UNION {ToSet(map[u][s]) : s \in Slot}

\* cmLListAdd2Tail for a node that is in another list: what the two lists are
\* is clear only if they hold nothing else.
Clean(map, u, s, p) ==
    /\ \A r \in Slot : p \in ToSet(map[u][r]) => Len(map[u][r]) = 1 /\ map[u][s] = <<>>
    /\ p \notin ToSet(map[u][s])
AddTo(map, u, s, p) == [map EXCEPT ![u][s] = Append(@, p)]

\* The process is taken from the retransmission list of its UE
\* (schFcfsRemoveFrmDlHqRetxList, schFcfsRemoveFrmUlHqRetxList).  Slip: it stays.
RemoveFrmRetxNot(retx, u) == retx
RemoveFrmRetx(retx, u) == [retx EXCEPT ![u] = Tail(@)]

\* MacSchReleaseDlHarqProc.  A UE that attached by random access keeps raCb, the
\* pointer to its MSG4, which is all zeroes since MSG4 was acknowledged: process
\* 0 is taken for that of MSG4.  Slip: MAC is not told.
MacReleaseNot(u, released) == macTb
MacRelease(u, released) ==
    [macTb EXCEPT ![u] = @ \ {p \in released : u \in RaUe => p # Proc0}]

\* addDlHqProcInUe, fetchTbfromDlHarqProc.  Slip: the last block is kept only.
MacAddLast(u, p) == [macTb EXCEPT ![u] = {p}]
MacAdd(u, p) == [macTb EXCEPT ![u] = @ \union {p}]
MacFinds(u, p) == p \in macTb[u]

\* A grant answers what the UE asked for.  Slip: it is asked for again.
AnsweredNot(asked, u) == asked
Answered(asked, u) == asked \ {u}

\* The entries of a list, in its order, for which a loop over it takes a branch.
Picked(lst, S) ==
    LET upTo[i \in 0 .. Len(lst)] ==
            IF i = 0 THEN <<>>
            ELSE IF lst[i] \in S THEN Append(upTo[i - 1], lst[i]) ELSE upTo[i - 1]
    IN upTo[Len(lst)]

\* schFcfsAddUeToSchedule
AddUeToSchedule(u) == IF u \in ToSet(toSched) THEN toSched ELSE Append(toSched, u)

\* schDlHqEntReset, schUlHqEntInit, and a cell with nothing to schedule
Init ==
    /\ toSched = <<>>
    /\ left = 0
    /\ hqP = NoProc
    /\ boInd = {}
    /\ dlFree = [u \in Ue |-> Proc]
    /\ tb = [u \in Ue |-> [p \in Proc |-> <<Released, Released>>]]
    /\ dlRetx = [u \in Ue |-> <<>>]
    /\ hqDlmap = [u \in Ue |-> [s \in Slot |-> <<>>]]
    /\ pucch = [u \in Ue |-> {}]
    /\ macTb = [u \in Ue |-> {}]
    /\ srRcvd = {} /\ bsrRcvd = {} /\ bsrVol = {}
    /\ ulFree = [u \in Ue |-> Proc]
    /\ ulRetx = [u \in Ue |-> <<>>]
    /\ hqUlmap = [u \in Ue |-> [s \in Slot |-> <<>>]]
    /\ pusch = [u \in Ue |-> {}]
    /\ corrupt = FALSE

-----------------------------------------------------------------------------
(* What is reported to SCH between slot indications *)

Idle == left = 0 /\ ~corrupt

\* SchProcDlRlcBoInfo
DlRlcBoInfo(u) ==
    /\ Idle
    /\ u \in DlUe
    /\ boInd' = boInd \union {u}
    /\ toSched' = AddUeToSchedule(u)
    /\ UNCHANGED <<left, hqP, dlFree, tb, dlRetx, hqDlmap, pucch, macTb, ulVars, corrupt>>

\* SchProcSrUciInd
SrUciInd(u) ==
    /\ Idle
    /\ u \in UlUe
    /\ srRcvd' = srRcvd \union {u}
    /\ toSched' = AddUeToSchedule(u)
    /\ UNCHANGED <<left, hqP, dlVars, bsrRcvd, bsrVol, ulFree, ulRetx, hqUlmap, pusch, corrupt>>

\* SchProcBsr
Bsr(u) ==
    /\ Idle
    /\ u \in UlUe
    /\ bsrRcvd' = bsrRcvd \union {u}
    /\ \/ bsrVol' = bsrVol \union {u}
       \/ "zeroBsr" \in Faults /\ bsrVol' = bsrVol \ {u}
    /\ toSched' = AddUeToSchedule(u)
    /\ UNCHANGED <<left, hqP, dlVars, srRcvd, ulFree, ulRetx, hqUlmap, pusch, corrupt>>

\* schDlHqFeedbackUpdate of a process with feedback f.  TB 1 is always taken to
\* be acknowledged.  The process is released, or goes to the retransmission list.
IsGone(u, p, f) ==
    LET t == tb[u][p] IN
    \/ Ends(t[1], f) /\ t[2].state = "ACKED"
    \/ Ends(t[2], "ACK") /\ AfterFdbk(t[1], f).state = "ACKED"
IsRetx(u, p, f) == Fails(tb[u][p][1], f) /\ tb[u][p][2].state = "WAITING"

\* schUpdateHarqFdbk with numHarq = 1: harqPayload[0] is for the first process
\* of the slot's list; for the others the code reads on behind the array, and
\* finds anything there.
DlHarqInd(u, s) ==
    LET lst == hqDlmap[u][s] IN
    /\ Idle
    /\ s \in pucch[u]
    /\ pucch' = [pucch EXCEPT ![u] = @ \ {s}]
    /\ hqDlmap' = [hqDlmap EXCEPT ![u][s] = <<>>]
    /\ \E fdbk \in [ToSet(lst) -> {"ACK", "NACK"}] :
        LET released == {p \in ToSet(lst) : IsGone(u, p, fdbk[p])}
            again == Picked(lst, {p \in ToSet(lst) : IsRetx(u, p, fdbk[p])})
        IN
        /\ tb' = [tb EXCEPT ![u] = [p \in Proc |->
                    IF p \in ToSet(lst)
                    THEN <<AfterFdbk(tb[u][p][1], fdbk[p]), AfterFdbk(tb[u][p][2], "ACK")>>
                    ELSE tb[u][p]]]
        /\ dlFree' = [dlFree EXCEPT ![u] = @ \union released]
        /\ macTb' = MacRelease(u, released)
        /\ dlRetx' = [dlRetx EXCEPT ![u] = @ \o again]
        /\ toSched' = IF again = <<>> THEN toSched ELSE AddUeToSchedule(u)
        /\ corrupt' = \/ released \intersect (dlFree[u] \union ToSet(dlRetx[u])) # {}
                      \/ ToSet(again) \intersect ToSet(dlRetx[u]) # {}
    /\ UNCHANGED <<left, hqP, boInd, ulVars>>

\* The feedback never comes: it is not found by PHY, or came with a PUSCH,
\* which procUciInd does not read.
LoseUci(u, s) ==
    /\ "uci" \in Faults
    /\ Idle
    /\ s \in pucch[u]
    /\ pucch' = [pucch EXCEPT ![u] = @ \ {s}]
    /\ UNCHANGED <<schedVars, boInd, dlFree, tb, dlRetx, hqDlmap, macTb, ulVars, corrupt>>

\* SchProcCrcInd for a connected UE: the first process of the slot's list.
\* The txCntr of uplink data is never advanced, so every NACK is retried.
CrcInd(u, s) ==
    /\ Idle
    /\ s \in pusch[u]
    /\ pusch' = [pusch EXCEPT ![u] = @ \ {s}]
    /\ \/ /\ hqUlmap[u][s] = <<>>
          /\ UNCHANGED <<toSched, ulFree, ulRetx, hqUlmap, corrupt>>
       \/ /\ hqUlmap[u][s] # <<>>
          /\ hqUlmap' = [hqUlmap EXCEPT ![u][s] = Tail(@)]
          /\ LET p == Head(hqUlmap[u][s]) IN
             \/ /\ ulFree' = [ulFree EXCEPT ![u] = @ \union {p}]
                /\ corrupt' = (p \in ulFree[u] \union ToSet(ulRetx[u]))
                /\ UNCHANGED <<toSched, ulRetx>>
             \/ /\ ulRetx' = [ulRetx EXCEPT ![u] = Append(@, p)]
                /\ corrupt' = (p \in ToSet(ulRetx[u]))
                /\ toSched' = AddUeToSchedule(u)
                /\ UNCHANGED ulFree
    /\ UNCHANGED <<left, hqP, dlVars, srRcvd, bsrRcvd, bsrVol>>

LoseCrc(u, s) ==
    /\ "crc" \in Faults
    /\ Idle
    /\ s \in pusch[u]
    /\ pusch' = [pusch EXCEPT ![u] = @ \ {s}]
    /\ UNCHANGED <<schedVars, dlVars, srRcvd, bsrRcvd, bsrVol, ulFree, ulRetx, hqUlmap, corrupt>>

-----------------------------------------------------------------------------
(* A slot indication: schFcfsScheduleSlot.  Its parts for one UE, DL and UL, *)
(* each say what became of the direction: nothing was pending ("none"), or   *)
(* it was "scheduled" or "refused".                                          *)

SlotInd ==
    /\ Idle
    /\ toSched # <<>>
    /\ left' = Len(toSched)
    /\ UNCHANGED <<toSched, hqP, dlVars, ulVars, corrupt>>

\* findValidK0K1Value and fillDlMsgInfo
ReserveDl(u, s, p) ==
    /\ s \in Slot \ pucch[u]
    /\ pucch' = [pucch EXCEPT ![u] = @ \union {s}]
    /\ hqDlmap' = AddTo(hqDlmap, u, s, p)
    /\ tb' = [tb EXCEPT ![u][p] = FilledTbs(@)]

\* A retransmission (schFillBoGrantDlSchedInfo with isRetx); hq is hqP after it.  MAC copies the
\* block that it holds, or from a null pointer if it holds none.
DlRetx(u, outcome, hq) ==
    LET p == Head(dlRetx[u]) IN
    /\ dlRetx[u] # <<>>
    /\ \/ /\ outcome = "scheduled"
          /\ \E s \in Slot :
                /\ ReserveDl(u, s, p)
                /\ corrupt' = ~(Clean(hqDlmap, u, s, p) /\ MacFinds(u, p))
          /\ dlRetx' = RemoveFrmRetx(dlRetx, u)
       \/ /\ outcome = "refused"        \* no PDCCH or PUCCH
          /\ UNCHANGED <<pucch, hqDlmap, tb, dlRetx, corrupt>>
       \/ /\ outcome = "refused"        \* no PRB
          /\ "dlPrb" \in Faults
          /\ \E s \in Slot :
                /\ ReserveDl(u, s, p)
                /\ corrupt' = ~Clean(hqDlmap, u, s, p)
          /\ UNCHANGED dlRetx
    /\ hq = hqP
    /\ UNCHANGED <<boInd, dlFree, macTb>>

\* schDlReleaseHqProcess by its caller: MAC is not told.
ReleaseDl(free, q) ==
    IF q = NoProc THEN free ELSE [free EXCEPT ![q[1]] = @ \union {q[2]}]

\* A first transmission.  If there is no free process, hqP still points to the
\* process of a UE handled before in this slot, if any.
DlNew(u, outcome, hq) ==
    /\ dlRetx[u] = <<>>
    /\ u \in boInd
    /\ \/ /\ outcome = "scheduled"
          /\ \E p \in dlFree[u], s \in Slot :
                /\ ReserveDl(u, s, p)
                /\ corrupt' = ~Clean(hqDlmap, u, s, p)
                /\ dlFree' = [dlFree EXCEPT ![u] = @ \ {p}]
                /\ macTb' = MacAdd(u, p)
                /\ hq = <<u, p>>
          /\ boInd' = boInd \ {u}
       \/ /\ outcome = "refused"        \* no PDCCH or PUCCH
          /\ \E p \in dlFree[u] : hq = <<u, p>>
          /\ UNCHANGED <<pucch, hqDlmap, tb, boInd, dlFree, macTb, corrupt>>
       \/ /\ outcome = "refused"        \* no PRB
          /\ "dlPrb" \in Faults
          /\ \E p \in dlFree[u], s \in Slot :
                /\ ReserveDl(u, s, p)
                /\ corrupt' = ~Clean(hqDlmap, u, s, p)
                /\ hq = <<u, p>>
          /\ UNCHANGED <<boInd, dlFree, macTb>>
       \/ /\ outcome = "refused"        \* no process
          /\ dlFree[u] = {}
          /\ dlFree' = ReleaseDl(dlFree, hqP)
          /\ corrupt' = (hqP # NoProc /\ hqP[2] \in dlFree[hqP[1]])
          /\ hq = hqP
          /\ UNCHANGED <<pucch, hqDlmap, tb, boInd, macTb>>
    /\ UNCHANGED dlRetx

DlPart(u, outcome, hq) ==
    \/ DlRetx(u, outcome, hq)
    \/ DlNew(u, outcome, hq)
    \/ /\ outcome = "none"
       /\ dlRetx[u] = <<>> /\ u \notin boInd
       /\ hq = hqP
       /\ UNCHANGED <<dlVars, corrupt>>

\* schFcfsScheduleUlLc when a grant results.  A BSR may be met in part.
GrantUl(u, p) ==
    /\ \E s \in Slot \ pusch[u] :
        /\ pusch' = [pusch EXCEPT ![u] = @ \union {s}]
        /\ hqUlmap' = AddTo(hqUlmap, u, s, p)
    /\ srRcvd' = Answered(srRcvd, u)
    /\ bsrRcvd' = Answered(bsrRcvd, u)
    /\ \E rest \in SUBSET (bsrVol \intersect {u}) : bsrVol' = (bsrVol \ {u}) \union rest

\* schFcfsScheduleUlLc when it does not: it returns ROK all the same.
NoGrantUl(u) ==
    /\ Slot \ pusch[u] # {}
    /\ UNCHANGED <<pusch, hqUlmap, srRcvd, bsrRcvd, bsrVol>>

NoUlPrb(u) == "ulPrb" \in Faults /\ u \in bsrVol

\* schProcessSrOrBsrReq with isRetx
UlRetx(u, outcome) ==
    /\ ulRetx[u] # <<>>
    /\ \/ /\ outcome = "scheduled"
          /\ GrantUl(u, Head(ulRetx[u])) \/ (NoUlPrb(u) /\ NoGrantUl(u))
          /\ ulRetx' = RemoveFrmRetx(ulRetx, u)
       \/ /\ outcome = "refused"        \* no K2
          /\ UNCHANGED <<pusch, hqUlmap, srRcvd, bsrRcvd, bsrVol, ulRetx>>
    /\ UNCHANGED ulFree

\* schProcessSrOrBsrReq for new data.  It is of type bool, and what it returns
\* without a free process is RFAILED, which is true.  If it returns false it
\* has just assigned a process, which is released.
UlNew(u, outcome) ==
    /\ ulRetx[u] = <<>>
    /\ u \in srRcvd \union bsrRcvd
    /\ \/ /\ outcome = "scheduled"
          /\ \E p \in ulFree[u] :
                /\ \/ u \in srRcvd \union bsrVol /\ GrantUl(u, p)
                   \/ u \notin srRcvd \union bsrVol /\ NoGrantUl(u)
                   \/ NoUlPrb(u) /\ NoGrantUl(u)
                /\ ulFree' = [ulFree EXCEPT ![u] = @ \ {p}]
       \/ /\ outcome = "scheduled"
          /\ ulFree[u] = {}
          /\ UNCHANGED <<pusch, hqUlmap, srRcvd, bsrRcvd, bsrVol, ulFree>>
       \/ /\ outcome = "refused"        \* no K2
          /\ ulFree[u] # {}
          /\ UNCHANGED <<pusch, hqUlmap, srRcvd, bsrRcvd, bsrVol, ulFree>>
    /\ UNCHANGED ulRetx

UlPart(u, outcome) ==
    \/ UlRetx(u, outcome)
    \/ UlNew(u, outcome)
    \/ /\ outcome = "none"
       /\ ulRetx[u] = <<>> /\ u \notin srRcvd \union bsrRcvd
       /\ UNCHANGED ulVars

\* The UE goes to the end of the list if a direction was refused, and leaves
\* the list otherwise.  Slip: it always stays.
RequeueAlways(u, dl, ul) == toSched' = Append(Tail(toSched), u)
Requeue(u, dl, ul) ==
    toSched' = IF "refused" \in {dl, ul} THEN Append(Tail(toSched), u) ELSE Tail(toSched)

\* One UE.  The loop ends early when the slot has no PRB left.
ScheduleUe(u, dl, ul) ==
    /\ ~corrupt
    /\ left > 0
    /\ u = Head(toSched)
    /\ UlPart(u, ul)
    /\ Requeue(u, dl, ul)
    /\ left' \in {0, left - 1}
    /\ \E hq \in {NoProc} \union (Ue \X Proc) :
        /\ DlPart(u, dl, hq)
        /\ hqP' = IF left' = 0 THEN NoProc ELSE hq

Outcome == {"none", "scheduled", "refused"}

Next ==
    \/ SlotInd
    \/ \E u \in Ue :
        \/ DlRlcBoInfo(u) \/ SrUciInd(u) \/ Bsr(u)
        \/ \E s \in Slot : DlHarqInd(u, s) \/ LoseUci(u, s) \/ CrcInd(u, s) \/ LoseCrc(u, s)
        \/ \E dl, ul \in Outcome : ScheduleUe(u, dl, ul)

Spec == Init /\ [][Next]_vars

-----------------------------------------------------------------------------
(* Properties *)

Tb == [state : {"ACKED", "NACKED", "WAITING"}, isEnabled : BOOLEAN, txCntr : 0 .. MaxTx]

\* Type invariant; a block is never transmitted more than MaxTx times.
TypeOK ==
    /\ toSched \in Seq(Ue) /\ IsInjective(toSched)
    /\ left \in 0 .. Len(toSched)
    /\ hqP \in {NoProc} \union (Ue \X Proc)
    /\ boInd \subseteq Ue
    /\ dlFree \in [Ue -> SUBSET Proc]
    /\ tb \in [Ue -> [Proc -> Tb \X Tb]]
    /\ dlRetx \in [Ue -> Seq(Proc)]
    /\ hqDlmap \in [Ue -> [Slot -> Seq(Proc)]]
    /\ pucch \in [Ue -> SUBSET Slot]
    /\ macTb \in [Ue -> SUBSET Proc]
    /\ srRcvd \subseteq Ue /\ bsrRcvd \subseteq Ue /\ bsrVol \subseteq Ue
    /\ ulFree \in [Ue -> SUBSET Proc]
    /\ ulRetx \in [Ue -> Seq(Proc)]
    /\ hqUlmap \in [Ue -> [Slot -> Seq(Proc)]]
    /\ pusch \in [Ue -> SUBSET Slot]
    /\ corrupt \in BOOLEAN

\* Every downlink process in use is waiting for feedback in one slot, which is
\* reserved, or is NACKED and in the retransmission list; a free one is in
\* neither (sch_harq_dl.c, the hqDlmap of schAllocPucchResource).
DlInUseHasPlace ==
    \A u \in Ue :
        /\ DlInUse(u) = Awaited(hqDlmap, u) \union ToSet(dlRetx[u])
        /\ IsInjective(dlRetx[u])
        /\ \A p \in ToSet(dlRetx[u]) : tb[u][p][1].state = "NACKED"
        /\ \A s \in Slot :
            /\ s \in pucch[u] <=> Len(hqDlmap[u][s]) = 1
            /\ s \notin pucch[u] <=> hqDlmap[u][s] = <<>>
            /\ \A p \in ToSet(hqDlmap[u][s]) :
                /\ tb[u][p][1].state = "WAITING"
                /\ \A r \in Slot \ {s} : p \notin ToSet(hqDlmap[u][r])

\* MAC holds the block of every process in use and of no free one, so that a
\* retransmission finds its block and a first transmission replaces none
\* (MacSchReleaseDlHarqProc, addDlHqProcInUe).
MacHoldsInUse == \A u \in Ue : macTb[u] = DlInUse(u)

\* Whatever fails, and even for process 0 of a UE that attached by random
\* access: MAC never drops the block of a process that is in use, so that a
\* retransmission finds its block (MacSchReleaseDlHarqProc, addDlHqProcInUe,
\* fetchTbfromDlHarqProc).
InUseIsHeld == \A u \in Ue : DlInUse(u) \subseteq macTb[u]

\* The same for the uplink: its processes are not lost or used twice.
UlInUseHasPlace ==
    \A u \in Ue :
        /\ UlInUse(u) = Awaited(hqUlmap, u) \union ToSet(ulRetx[u])
        /\ IsInjective(ulRetx[u])
        /\ \A s \in Slot :
            /\ s \in pusch[u] <=> Len(hqUlmap[u][s]) = 1
            /\ s \notin pusch[u] <=> hqUlmap[u][s] = <<>>
            /\ \A p \in ToSet(hqUlmap[u][s]) :
                /\ p \notin ToSet(ulRetx[u])
                /\ \A r \in Slot \ {s} : p \notin ToSet(hqUlmap[u][r])

\* Feedback for a process that is free is never expected in the uplink, even
\* if CRC indications are lost and grants fail.
UlFreeIsUnused ==
    \A u \in Ue : ulFree[u] \intersect (Awaited(hqUlmap, u) \union ToSet(ulRetx[u])) = {}

DlPending(u) == dlRetx[u] # <<>> \/ u \in boInd
UlPending(u) == ulRetx[u] # <<>> \/ u \in srRcvd \union bsrRcvd

\* No UE is "wrongly queued": in the list with nothing to schedule.
QueuedIsPending == \A u \in ToSet(toSched) : DlPending(u) \/ UlPending(u)

\* A process that MAC holds a block of is not free: SCH must not schedule a new
\* block on it.
HeldIsNotFree == \A u \in Ue : macTb[u] \intersect dlFree[u] = {}

\* How the processes of all UEs look to HarqTx: a process is idle, sent or
\* failed; its block was transmitted so often; its block is held.
DlSt ==
    [x \in Ue \X Proc |->
        CASE x[2] \in dlFree[x[1]] -> "idle"
          [] x[2] \notin dlFree[x[1]] /\ tb[x[1]][x[2]][1].state = "NACKED" -> "failed"
          [] OTHER -> "sent"]
DlTx == [x \in Ue \X Proc |-> tb[x[1]][x[2]][1].txCntr]
DlHeld == {x \in Ue \X Proc : x[2] \in macTb[x[1]]}

\* What SchFcfs and MAC do with the downlink processes is what HARQ promises.
DlHarq == INSTANCE HarqTx WITH Id <- Ue \X Proc, st <- DlSt, tx <- DlTx, held <- DlHeld
DlHarqSpec == DlHarq!Spec

\* The slot indication comes again and again, and PHY reports every slot it was
\* asked to; what is reported is handled between slot indications, hence SF.
\* No UE finds PDCCH, PUCCH or PUSCH full every time it is tried.
Fairness ==
    /\ WF_vars(SlotInd)
    /\ \A u \in Ue :
        /\ WF_vars(\E dl, ul \in Outcome : ScheduleUe(u, dl, ul))
        /\ SF_vars(\E ul \in Outcome : ScheduleUe(u, "scheduled", ul))
        /\ SF_vars(\E dl \in Outcome : ScheduleUe(u, dl, "scheduled"))
        /\ \A s \in Slot : SF_vars(DlHarqInd(u, s)) /\ SF_vars(CrcInd(u, s))

FairSpec == Spec /\ Fairness

\* Traffic that does not end: RLC reports downlink data and the UE asks for the
\* uplink again and again.
BusySpec ==
    /\ FairSpec
    /\ \A u \in DlUe : SF_vars(DlRlcBoInfo(u))
    /\ \A u \in UlUe : SF_vars(SrUciInd(u))

\* A UE that asked for the uplink gets a grant.
AskedIsGranted == \A u \in Ue : u \in srRcvd ~> u \notin srRcvd

\* While there is traffic, no process is kept for ever: its block is
\* acknowledged, or given up after its last transmission.
DlIsReleased == \A u \in Ue : \A p \in Proc : p \in DlInUse(u) ~> p \in dlFree[u]

=============================================================================
