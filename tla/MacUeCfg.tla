----------------------------- MODULE MacUeCfg -----------------------------
(***************************************************************************)
(* The UEs of a cell in MAC (mac_ue_mgr.c, mac_rach.c, mac_msg_hdl.c,      *)
(* mac_harq_dl.c) and in SCH (sch_ue_mgr.c, sch_rach.c), which run in one  *)
(* thread and call each other: a request of the DU application is handled  *)
(* by both in one step.                                                    *)
(*                                                                         *)
(* Of random access the model has what lasts: which id a preamble gets,    *)
(* that MSG3 brings the UE's CCCH message, and that MSG4 is acknowledged.  *)
(* It leaves out that either may fail.  The crnti is a function of the UE  *)
(* id, so crnti = 0 is "not there".  There is a dedicated preamble for     *)
(* every UE, and memory for every request.                                 *)
(***************************************************************************)
EXTENDS UeIds, FiniteSets, Sequences

VARIABLES
    duToMac, macToDu,
    ueBitMap,       \* ids taken: actvCellLst[..]->ueBitMap
    macRaCb,        \* MAC: ids with a macRaCb, whose random access goes on
    msg4Pdu,        \* MAC: those of them whose MSG4 is there to be sent
    macUe,          \* MAC: per id "NONE", "ACTIVE" or "HANDIN"
    macLc,          \* MAC: per id, the logical channels
    macCfra,        \* MAC: ids with dedicated preambles
    macNumActvUe,   \* MAC: numActvUe, a uint16_t
    schUe, schLc,   \* SCH: the same as macUe and macLc
    schTcrnti,      \* SCH: ids whose raCb has a tcrnti
    schMsg4Done,    \* SCH: ids whose raState is MSG4_DONE
    schPreamble     \* SCH: ids a dedicated preamble is reserved for

raVars == <<ueBitMap, macRaCb, msg4Pdu, macCfra, schTcrnti, schMsg4Done, schPreamble>>
macUeVars == <<macUe, macLc, macNumActvUe, schUe, schLc>>
macVars == <<duToMac, macToDu, raVars, macUeVars>>

MacInit ==
    /\ duToMac = <<>> /\ macToDu = <<>>
    /\ ueBitMap = {} /\ macRaCb = {} /\ msg4Pdu = {} /\ macCfra = {}
    /\ macUe = [i \in Id |-> "NONE"] /\ macLc = [i \in Id |-> {}]
    /\ schUe = [i \in Id |-> "NONE"] /\ schLc = [i \in Id |-> {}]
    /\ schTcrnti = {} /\ schMsg4Done = {} /\ schPreamble = {}
    /\ macNumActvUe = 0

\* getFreeBitFromUeBitMap.  Slip: the lowest bit is taken whether it is set or not.
FreeBitAny(i) == i = 1
FreeBit(i) == i \notin ueBitMap /\ \A j \in Id : j < i => j \in ueBitMap

ToDu(ev, i, ok) == macToDu' = Append(macToDu, [ev |-> ev, ue |-> i, ok |-> ok])

\* The logical channels of a UE after op on lcs (fillSchUeCbFrmRecfgReq,
\* updateMacUeCb).  Slip: channels that are added replace those that are there.
WithLcsReplaced(op, lcs, present) ==
    CASE op = "ADD" -> lcs
      [] op = "MODIFY" -> present
      [] op = "DEL" -> present \ lcs
WithLcs(op, lcs, present) ==
    CASE op = "ADD" -> present \union lcs
      [] op = "MODIFY" -> present
      [] op = "DEL" -> present \ lcs

MaxUint16 == 65535

-----------------------------------------------------------------------------
(* Random access *)

\* createMacRaCb with a preamble of the cell, createSchRaCb, and then the UL
\* CCCH message of MSG3.
Rach(i) ==
    /\ FreeBit(i)
    /\ ueBitMap' = ueBitMap \union {i}
    /\ macRaCb' = macRaCb \union {i}
    /\ msg4Pdu' = msg4Pdu \ {i}
    /\ schTcrnti' = schTcrnti \union {i}
    /\ schMsg4Done' = schMsg4Done \ {i}
    /\ ToDu("UL_CCCH", i, TRUE)
    /\ UNCHANGED <<duToMac, macCfra, schPreamble, macUeVars>>

\* A preamble that is dedicated to a UE.  SchProcRachInd takes the access for
\* one without contention, of a UE that needs no MSG3, if the UE is in hand-in.
RachCfra(i) ==
    /\ i \in macCfra
    /\ IF schUe[i] = "HANDIN"
       THEN /\ schUe' = [schUe EXCEPT ![i] = "ACTIVE"]
            /\ schMsg4Done' = schMsg4Done \union {i}
            /\ UNCHANGED schTcrnti
       ELSE /\ schTcrnti' = schTcrnti \union {i}
            /\ schMsg4Done' = schMsg4Done \ {i}
            /\ UNCHANGED schUe
    /\ UNCHANGED <<duToMac, macToDu, ueBitMap, macRaCb, msg4Pdu, macCfra, schPreamble,
                   macUe, macLc, macNumActvUe, schLc>>

\* schMsg4Complete, and MacSchReleaseDlHarqProc for MSG4's process with
\* deleteMacRaCb.  The context of the UE is there by then.  SCH keeps tcrnti.
Msg4Acked(i) ==
    /\ i \in msg4Pdu
    /\ macUe[i] # "NONE"
    /\ macRaCb' = macRaCb \ {i}
    /\ msg4Pdu' = msg4Pdu \ {i}
    /\ schMsg4Done' = schMsg4Done \union {i}
    /\ UNCHANGED <<duToMac, macToDu, ueBitMap, macCfra, schTcrnti, schPreamble, macUeVars>>

-----------------------------------------------------------------------------
(* Requests of the DU application *)

Request(ev) == duToMac # <<>> /\ Head(duToMac).ev = ev /\ duToMac' = Tail(duToMac)

\* MacProcDlCcchInd
MacProcDlCcchInd ==
    /\ Request("DL_CCCH")
    /\ msg4Pdu' = msg4Pdu \union ({Head(duToMac).ue} \intersect macRaCb)
    /\ UNCHANGED <<macToDu, ueBitMap, macRaCb, macCfra, schTcrnti, schMsg4Done, schPreamble,
                   macUeVars>>

\* createUeCb: a UE that has not accessed the cell before is in hand-in, and not
\* counted.  Slip: it is.
CreateUeCbCounted(i, lcs) ==
    /\ macUe' = [macUe EXCEPT ![i] = IF i \in macRaCb THEN "ACTIVE" ELSE "HANDIN"]
    /\ macLc' = [macLc EXCEPT ![i] = lcs]
    /\ macNumActvUe' = macNumActvUe + 1
CreateUeCb(i, lcs) ==
    /\ macUe' = [macUe EXCEPT ![i] = IF i \in macRaCb THEN "ACTIVE" ELSE "HANDIN"]
    /\ macLc' = [macLc EXCEPT ![i] = lcs]
    /\ macNumActvUe' = IF i \in macRaCb THEN macNumActvUe + 1 ELSE macNumActvUe

\* MacProcUeCreateReq, SchAddUeConfigReq and MacProcSchUeCfgRsp.  MAC refuses the
\* UE (procMacUeCfgData) when it counts too many.
MacProcUeCreateReq ==
    /\ Request("CREATE")
    /\ LET i == Head(duToMac).ue
           lcs == Head(duToMac).lcs
           full == macNumActvUe > MaxNumUe
           new == macUe[i] # "ACTIVE" /\ ~full
       IN
        /\ IF schUe[i] = "ACTIVE"
           THEN UNCHANGED <<schUe, schLc>>
           ELSE /\ schUe' = [schUe EXCEPT ![i] = IF i \in schTcrnti THEN "ACTIVE" ELSE "HANDIN"]
                /\ schLc' = [schLc EXCEPT ![i] = lcs]
        /\ IF new
           THEN CreateUeCb(i, lcs)
           ELSE UNCHANGED <<macUe, macLc, macNumActvUe>>
        /\ ToDu("CREATE", i, new)
    /\ UNCHANGED raVars

\* MacProcUeReconfigReq, SchModUeConfigReq, MacProcSchUeRecfgRsp and modifyUeCb.
\* SCH answers nothing about a UE that is not active.
MacProcUeReconfigReq ==
    /\ Request("RECONFIG")
    /\ LET r == Head(duToMac)
           i == r.ue
           ok == macUe[i] = "ACTIVE" /\ macNumActvUe <= MaxNumUe
       IN IF schUe[i] = "ACTIVE"
          THEN /\ schLc' = [schLc EXCEPT ![i] = WithLcs(r.op, r.lcs, @)]
               /\ macLc' = IF ok THEN [macLc EXCEPT ![i] = WithLcs(r.op, r.lcs, @)] ELSE macLc
               /\ ToDu("RECONFIG", i, ok)
          ELSE UNCHANGED <<schLc, macLc, macToDu>>
    /\ UNCHANGED <<raVars, macUe, macNumActvUe, schUe>>

\* MacProcUeDeleteReq, SchProcUeDeleteReq and MacProcSchUeDeleteRsp: SCH keeps a
\* UE that is not active, and then MAC keeps it too.
MacProcUeDeleteReq ==
    /\ Request("DELETE")
    /\ LET i == Head(duToMac).ue
           ok == macUe[i] # "NONE" /\ schUe[i] = "ACTIVE"
       IN
        /\ IF ok
           THEN /\ schUe' = [schUe EXCEPT ![i] = "NONE"]
                /\ schLc' = [schLc EXCEPT ![i] = {}]
                /\ macUe' = [macUe EXCEPT ![i] = "NONE"]
                /\ macLc' = [macLc EXCEPT ![i] = {}]
                /\ macNumActvUe' = (macNumActvUe + MaxUint16) % (MaxUint16 + 1)
                /\ macCfra' = macCfra \ {i}
           ELSE UNCHANGED <<macUeVars, macCfra>>
        /\ ToDu("DELETE", i, ok)
    /\ UNCHANGED <<ueBitMap, macRaCb, msg4Pdu, schTcrnti, schMsg4Done, schPreamble>>

\* SCH gives a preamble to any UE it has.  Slip: to an active one.
SchFindsActive(i) == schUe[i] = "ACTIVE"
SchFinds(i) == schUe[i] # "NONE"

\* MacProcRachRsrcReq, SchProcRachRsrcReq and MacProcSchRachRsrcRsp
MacProcRachRsrcReq ==
    /\ Request("RACH_REQ")
    /\ LET i == Head(duToMac).ue
           ok == SchFinds(i)
       IN IF macUe[i] # "NONE"
          THEN /\ schPreamble' = IF ok THEN schPreamble \union {i} ELSE schPreamble
               /\ macCfra' = IF ok THEN macCfra \union {i} ELSE macCfra
               /\ ToDu("RACH", i, ok)
          ELSE UNCHANGED <<schPreamble, macCfra, macToDu>>
    /\ UNCHANGED <<ueBitMap, macRaCb, msg4Pdu, schTcrnti, schMsg4Done, macUeVars>>

\* MacProcRachRsrcRel and SchProcRachRsrcRel: held has the id if MAC has
\* preambles for it.  Slip: SCH is not told.
ReleaseCfraInMac(held) == macCfra' = macCfra \ held /\ UNCHANGED schPreamble
ReleaseCfra(held) == macCfra' = macCfra \ held /\ schPreamble' = schPreamble \ held
MacProcRachRsrcRel ==
    /\ Request("RACH_REL")
    /\ ReleaseCfra({i \in macCfra : i = Head(duToMac).ue /\ macUe[i] # "NONE"})
    /\ UNCHANGED <<macToDu, ueBitMap, macRaCb, msg4Pdu, schTcrnti, schMsg4Done, macUeVars>>

=============================================================================
