------------------------------- MODULE DuUe -------------------------------
(***************************************************************************)
(* The life of a UE in gNB-DU: how the DU application (du_ue_mgr.c, the    *)
(* UE procedures of du_f1ap_msg_hdl.c, du_msg_hdl.c) has RLC and MAC       *)
(* create, reconfigure and delete what the CU asks for.  Its thread takes  *)
(* messages of RLC, of MAC and of the CU in any order, and those of each   *)
(* sender in their own.                                                    *)
(*                                                                         *)
(* External: the CU and the UEs.  A UE of Access comes by random access,   *)
(* one of HandIn by handover.  The CU runs one procedure at a time for a   *)
(* UE.  What it sends and how gNB-DU takes it is one step, and so is what  *)
(* gNB-DU sends to it.  Left out: a query of the configuration and the     *)
(* indication of a completed reconfiguration, which are answered at once;  *)
(* DRX, tunnels and F1 reset.                                              *)
(***************************************************************************)
EXTENDS RlcUeCfg, MacUeCfg, SequencesExt

CONSTANTS
    Access, HandIn,     \* UEs, by the way they come: gNB-CU UE F1AP ids
    Released,           \* the UEs that the CU releases
    Srb1,               \* the radio bearer of the RRC messages
    DrbsOf,             \* the data radio bearers that the CU has for a UE
    ModOps,             \* what the CU uses a modification for
    Together            \* whether a UE comes while another awaits its RRC Setup

CuUe == Access \union HandIn
Drb == Rb \ {Srb1}

ASSUME DuUeAssumption ==
    /\ CuUe \subseteq Nat \ {0}
    /\ Access \intersect HandIn = {}
    /\ Srb1 \in Rb
    /\ DrbsOf \in [CuUe -> SUBSET Drb]
    /\ ModOps \subseteq {"ADD", "MODIFY", "DEL", "STOP"}

VARIABLES
    ueCb,           \* contexts of the UEs, by id; cu = 0 where there is none
    lcCfgList,      \* bearers that the DU application has stored of a UE, in order:
                    \* its RLC list (duRlcUeCfg) and its MAC list (duMacUeCfg) alike
    ueCcchCtxt,     \* ids that sent a CCCH message, 0 where an entry is cleared
    numUe,          \* entries of ueCcchCtxt
    numActvUes,
    nullDb,         \* whether f1UeDb was used when it is NULL
    duToRlcDl,      \* UEs of the RRC messages on their way to the DL thread
    cuUe            \* the CU's view: procedure under way, id, bearers

duVars == <<ueCb, lcCfgList, ueCcchCtxt, numUe, numActvUes, nullDb>>
rlcOwnVars == <<udxReq, udxCfm, rlcUlUe, rlcUlRb, rlcDlRb, ueDelTmr, rlcUlUdxEventType>>
macOwnVars == <<macRaCb, msg4Pdu, macCfra, schTcrnti, schMsg4Done, schPreamble, macUeVars>>
duUeVars == <<duVars, duToRlcDl, cuUe, rlcVars, macVars>>

\* What f1UeDb keeps of the CU's request: its action, whether there is an RRC
\* message to be sent first, and what is to be done with which bearers.
NoDb == [act |-> "NONE", rrc |-> FALSE, op |-> "ADD", rbs |-> {}]
NoUeCb == [cu |-> 0, state |-> "INACTIVE", db |-> NoDb, rlc |-> "INACTIVE", mac |-> "INACTIVE"]

CfgState == {"INACTIVE", "INPROGRESS", "CREATE_COMPLETE", "RECFG_COMPLETE", "DELETE_COMPLETE"}
Db == [act : {"NONE", "SETUP", "MOD", "RELEASE"}, rrc : BOOLEAN,
       op : {"ADD", "MODIFY", "DEL", "STOP"}, rbs : SUBSET Rb]
UeCb == [cu : CuUe \union {0}, state : {"INACTIVE", "ACTIVE", "HANDIN", "DELETION"},
         db : Db, rlc : CfgState, mac : CfgState]

DuUeInit ==
    /\ RlcInit /\ MacInit
    /\ ueCb = [i \in Id |-> NoUeCb] /\ lcCfgList = [i \in Id |-> <<>>]
    /\ ueCcchCtxt = [k \in 0 .. MaxNumUe - 1 |-> 0]
    /\ numUe = 0 /\ numActvUes = 0 /\ nullDb = FALSE
    /\ duToRlcDl = <<>>
    /\ cuUe = [c \in CuUe |-> [ph |-> "idle", id |-> 0, rbs |-> {}]]

-----------------------------------------------------------------------------
(* Requests to RLC and MAC.  u is the context that is stored for UE i. *)

\* A modification that stops transmission names no bearers.
CfgOp(db) == IF db.op = "STOP" THEN "MODIFY" ELSE db.op

\* updateRlcUeCfg and updateDuMacUeCfg, of the bearers that the CU names: those
\* that a layer hears of.  lcIdFound is what the last comparison with the stored
\* list has left, so a bearer to be deleted that is stored last is copied neither
\* as one that is found, which is for modifications, nor as one that is not.
Conveyed(i, db) ==
    IF db.op = "DEL" /\ lcCfgList[i] # <<>> THEN db.rbs \ {Last(lcCfgList[i])} ELSE db.rbs

SendToRlc(ev, i, db) ==
    duToRlc' = Append(duToRlc, [ev |-> ev, ue |-> i, op |-> CfgOp(db), rbs |-> Conveyed(i, db)])
MacReq(ev, i, db) == [ev |-> ev, ue |-> i, op |-> CfgOp(db), lcs |-> Conveyed(i, db)]
SendToMac(ev, i, db) == duToMac' = Append(duToMac, MacReq(ev, i, db))

\* duUpdateDuUeCbCfg: the stored list becomes what the CU has asked for, whatever
\* the layers have heard of.  The CU lists SRBs before DRBs.
StoreCfg(i, db) ==
    \E s \in SetToSeqs(db.rbs) :
        /\ Srb1 \in db.rbs => Head(s) = Srb1
        /\ lcCfgList' = [lcCfgList EXCEPT ![i] =
                CASE db.op = "ADD" -> @ \o s
                  [] db.op = "DEL" -> SelectSeq(@, LAMBDA rb : rb \notin db.rbs)
                  [] OTHER -> @]

\* duBuildAndSendUeContextModReq, and duBuildAndSendUeContextSetupReq for a UE
\* that is there.  updateDuMacUeCfg returns before it sets the state of MAC's
\* configuration when transmission is to be stopped.  Slip: it always does.
RecfgReqRlcOnly(i, u) ==
    /\ ueCb' = [ueCb EXCEPT ![i] = [u EXCEPT !.rlc = "INPROGRESS"]]
    /\ SendToRlc("RECONFIG", i, u.db)
    /\ SendToMac("RECONFIG", i, u.db)
    /\ UNCHANGED <<duToRlcDl, lcCfgList>>
RecfgReq(i, u) ==
    /\ ueCb' = [ueCb EXCEPT ![i] =
            [u EXCEPT !.rlc = "INPROGRESS", !.mac = IF u.db.op = "STOP" THEN @ ELSE "INPROGRESS"]]
    /\ SendToRlc("RECONFIG", i, u.db)
    /\ SendToMac("RECONFIG", i, u.db)
    /\ UNCHANGED <<duToRlcDl, lcCfgList>>

\* duBuildAndSendUeContextSetupReq
SetupReq(i, u) ==
    IF u.state = "HANDIN"
    THEN /\ ueCb' = [ueCb EXCEPT ![i] = [u EXCEPT !.rlc = "INPROGRESS", !.mac = "INPROGRESS"]]
         /\ SendToRlc("CREATE", i, u.db)
         /\ SendToMac("CREATE", i, u.db)
         /\ StoreCfg(i, u.db)
         /\ UNCHANGED duToRlcDl
    ELSE RecfgReq(i, u)

\* duBuildAndSendUeDeleteReq: RLC first, MAC when RLC has answered.
DeleteReq(i, u) ==
    /\ ueCb' = [ueCb EXCEPT ![i] = [u EXCEPT !.state = "DELETION"]]
    /\ SendToRlc("DELETE", i, NoDb)
    /\ UNCHANGED <<duToMac, duToRlcDl, lcCfgList>>

\* duBuildAndSendDlRrcMsgToRlc: the request waits for the message to be sent.
RrcMsgFirst(i, u) ==
    /\ ueCb' = [ueCb EXCEPT ![i] = u]
    /\ duToRlcDl' = Append(duToRlcDl, i)
    /\ UNCHANGED <<duToRlc, duToMac, lcCfgList>>

-----------------------------------------------------------------------------
(* What the CU asks *)

CuSends ==
    UNCHANGED <<rlcToDu, rlcOwnVars, macToDu, macOwnVars, nullDb>>

\* duCreateUeCb clears the entry of the UE.  Slip: and counts it still.
ClearCcchCtxtOnly(k) == ueCcchCtxt' = [ueCcchCtxt EXCEPT ![k] = 0] /\ UNCHANGED numUe
ClearCcchCtxt(k) == ueCcchCtxt' = [ueCcchCtxt EXCEPT ![k] = 0] /\ numUe' = numUe - 1

\* duProcDlRrcMsg for the RRC Setup
RrcSetup(c) ==
    /\ cuUe[c].ph = "initial"
    /\ LET i == cuUe[c].id
           ctxt == {k \in 0 .. numUe - 1 : ueCcchCtxt[k] = i}
           dlCcch == Append(duToMac, MacReq("DL_CCCH", i, NoDb))
           db == [NoDb EXCEPT !.rbs = {Srb1}]
       IN
        /\ IF ctxt # {} /\ numActvUes < MaxNumUe
           THEN /\ ueCb' = [ueCb EXCEPT ![i] = [NoUeCb EXCEPT !.cu = c, !.state = "ACTIVE"]]
                /\ duToMac' = Append(dlCcch, MacReq("CREATE", i, db))
                /\ SendToRlc("CREATE", i, db)
                /\ lcCfgList' = [lcCfgList EXCEPT ![i] = <<Srb1>>]
                /\ numActvUes' = numActvUes + 1
                /\ \E k \in ctxt : (\A j \in ctxt : k <= j) /\ ClearCcchCtxt(k)
           ELSE /\ duToMac' = IF ctxt # {} THEN dlCcch ELSE duToMac
                /\ UNCHANGED <<ueCb, lcCfgList, duToRlc, numActvUes, ueCcchCtxt, numUe>>
        /\ cuUe' = [cuUe EXCEPT ![c].ph = "connecting", ![c].rbs = {Srb1}]
    /\ CuSends
    /\ UNCHANGED <<duToRlcDl, ueBitMap>>

\* procF1UeContextSetupReq, duProcUeContextSetupRequest for a UE that is there
CtxtSetup(c, rbs, rrc) ==
    /\ cuUe[c].ph = "connected"
    /\ LET i == cuUe[c].id
           u == [ueCb[i] EXCEPT !.db = [act |-> "SETUP", rrc |-> rrc, op |-> "ADD", rbs |-> rbs]]
       IN
        /\ ueCb[i].cu = c
        /\ IF rrc THEN RrcMsgFirst(i, u) ELSE SetupReq(i, u)
    /\ cuUe' = [cuUe EXCEPT ![c].ph = "asked", ![c].rbs = @ \union rbs]
    /\ CuSends
    /\ UNCHANGED <<ueCcchCtxt, numUe, numActvUes, ueBitMap>>

\* The same for a UE in handover: the DU application takes an id for it.
CtxtSetupHandIn(c, i, rbs) ==
    /\ cuUe[c].ph = "idle"
    /\ FreeBit(i)
    /\ ueBitMap' = ueBitMap \union {i}
    /\ SetupReq(i, [ueCb[i] EXCEPT
            !.cu = c, !.state = "HANDIN",
            !.db = [act |-> "SETUP", rrc |-> FALSE, op |-> "ADD", rbs |-> rbs \union {Srb1}]])
    /\ cuUe' = [cuUe EXCEPT ![c] = [ph |-> "handin", id |-> i, rbs |-> rbs \union {Srb1}]]
    /\ CuSends
    /\ UNCHANGED <<ueCcchCtxt, numUe, numActvUes>>

\* procF1UeContextModificationReq, duProcUeContextModReq.  A database that is
\* there keeps its action.
CtxtMod(c, op, rbs, rrc) ==
    /\ cuUe[c].ph = "ready"
    /\ LET i == cuUe[c].id
           u == [ueCb[i] EXCEPT !.db =
                    [act |-> IF @.act = "NONE" THEN "MOD" ELSE @.act,
                     rrc |-> rrc, op |-> op, rbs |-> rbs]]
       IN
        /\ ueCb[i].cu = c
        /\ IF rrc THEN RrcMsgFirst(i, u) ELSE RecfgReq(i, u)
    /\ cuUe' = [cuUe EXCEPT ![c].ph = "asked", ![c].rbs =
            CASE op = "ADD" -> @ \union rbs
              [] op = "DEL" -> @ \ rbs
              [] OTHER -> @]
    /\ CuSends
    /\ UNCHANGED <<ueCcchCtxt, numUe, numActvUes, ueBitMap>>

\* procF1UeContextReleaseCommand, duProcUeContextReleaseCommand.  Without an RRC
\* message a UE whose database is there is not released.
CtxtRelease(c, rrc) ==
    /\ cuUe[c].ph \in {"connected", "ready"}
    /\ LET i == cuUe[c].id
           u == ueCb[i]
       IN
        /\ u.cu = c
        /\ IF rrc
           THEN RrcMsgFirst(i, [u EXCEPT !.db = [NoDb EXCEPT !.act = "RELEASE", !.rrc = TRUE]])
           ELSE IF u.db = NoDb THEN DeleteReq(i, u)
                ELSE UNCHANGED <<ueCb, lcCfgList, duToRlc, duToMac, duToRlcDl>>
    /\ cuUe' = [cuUe EXCEPT ![c].ph = "releasing", ![c].rbs = {}]
    /\ CuSends
    /\ UNCHANGED <<ueCcchCtxt, numUe, numActvUes, ueBitMap>>

-----------------------------------------------------------------------------
(* What MAC sends *)

FromMac(ev) ==
    /\ macToDu # <<>> /\ Head(macToDu).ev = ev
    /\ macToDu' = Tail(macToDu)
    /\ UNCHANGED <<rlcToDu, rlcOwnVars, macOwnVars, duToRlcDl>>

FromRlc(ev) ==
    /\ rlcToDu # <<>> /\ Head(rlcToDu).ev = ev
    /\ rlcToDu' = Tail(rlcToDu)
    /\ UNCHANGED <<macToDu, rlcOwnVars, macOwnVars, ueCcchCtxt, numUe>>

\* BuildAndSendUeCtxtRsp, which frees f1UeDb once it has answered the CU.
CtxtRsp(i, u) ==
    /\ nullDb' = (nullDb \/ u.db = NoDb)
    /\ IF u.db.act \in {"SETUP", "MOD"}
       THEN /\ ueCb' = [ueCb EXCEPT ![i] = [u EXCEPT !.db = NoDb]]
            /\ cuUe' = [cuUe EXCEPT ![u.cu].ph = IF @ = "handin" THEN "arriving" ELSE "ready"]
       ELSE ueCb' = [ueCb EXCEPT ![i] = u] /\ UNCHANGED cuUe

\* DuProcMacUeCreateRsp and DuProcRlcUeCreateRsp, once the state of the layer is
\* stored in u: a UE in handover gets dedicated preambles (duUpdateDuUeCbCfg,
\* duBuildAndSendRachRsrcReqToMac).
CreateDone(i, u) ==
    /\ ueCb' = [ueCb EXCEPT ![i] = u]
    /\ IF u.state = "HANDIN" /\ u.mac = "CREATE_COMPLETE" /\ u.rlc = "CREATE_COMPLETE"
       THEN /\ nullDb' = (nullDb \/ u.db = NoDb)
            /\ StoreCfg(i, u.db)
            /\ SendToMac("RACH_REQ", i, NoDb)
       ELSE UNCHANGED <<lcCfgList, nullDb, duToMac>>
    /\ UNCHANGED <<cuUe, duToRlc>>

\* DuProcMacUeRecfgRsp and DuProcRlcUeReconfigRsp, likewise.  Slip: one layer's
\* response is enough.
RecfgDoneEither(i, u) ==
    /\ IF u.mac = "RECFG_COMPLETE" \/ u.rlc = "RECFG_COMPLETE"
       THEN StoreCfg(i, u.db) /\ CtxtRsp(i, u)
       ELSE ueCb' = [ueCb EXCEPT ![i] = u] /\ UNCHANGED <<lcCfgList, nullDb, cuUe>>
    /\ UNCHANGED <<duToRlc, duToMac>>
RecfgDone(i, u) ==
    /\ IF u.mac = "RECFG_COMPLETE" /\ u.rlc = "RECFG_COMPLETE"
       THEN StoreCfg(i, u.db) /\ CtxtRsp(i, u)
       ELSE ueCb' = [ueCb EXCEPT ![i] = u] /\ UNCHANGED <<lcCfgList, nullDb, cuUe>>
    /\ UNCHANGED <<duToRlc, duToMac>>

NoChange == UNCHANGED <<ueCb, lcCfgList, nullDb, cuUe, duToRlc, duToMac>>

\* duProcUlCcchInd.  The CU hears of the UE.
DuProcUlCcchInd ==
    /\ FromMac("UL_CCCH")
    /\ LET i == Head(macToDu).ue IN
        /\ ueCcchCtxt' = [ueCcchCtxt EXCEPT ![numUe] = i]
        /\ numUe' = numUe + 1
        /\ cuUe' = [c \in CuUe |-> IF cuUe[c].ph = "access" /\ cuUe[c].id = i
                                 THEN [cuUe[c] EXCEPT !.ph = "initial"] ELSE cuUe[c]]
    /\ UNCHANGED <<ueCb, lcCfgList, numActvUes, nullDb, duToRlc, duToMac, ueBitMap>>

DuProcMacUeCreateRsp ==
    /\ FromMac("CREATE")
    /\ LET i == Head(macToDu).ue IN
        IF Head(macToDu).ok /\ ueCb[i].cu # 0
        THEN CreateDone(i, [ueCb[i] EXCEPT !.mac = "CREATE_COMPLETE"])
        ELSE NoChange
    /\ UNCHANGED <<ueCcchCtxt, numUe, numActvUes, ueBitMap>>

DuProcMacUeRecfgRsp ==
    /\ FromMac("RECONFIG")
    /\ LET i == Head(macToDu).ue IN
        IF Head(macToDu).ok /\ ueCb[i].cu # 0
        THEN RecfgDone(i, [ueCb[i] EXCEPT !.mac = "RECFG_COMPLETE"])
        ELSE NoChange
    /\ UNCHANGED <<ueCcchCtxt, numUe, numActvUes, ueBitMap>>

DuProcMacRachRsrcRsp ==
    /\ FromMac("RACH")
    /\ LET i == Head(macToDu).ue IN
        IF Head(macToDu).ok /\ ueCb[i].cu # 0
        THEN CtxtRsp(i, ueCb[i]) /\ UNCHANGED <<lcCfgList, duToRlc, duToMac>>
        ELSE NoChange
    /\ UNCHANGED <<ueCcchCtxt, numUe, numActvUes, ueBitMap>>

\* DuProcMacUeDeleteRsp, with deleteUeCfg and the answer to the CU
DuProcMacUeDeleteRsp ==
    /\ FromMac("DELETE")
    /\ LET i == Head(macToDu).ue
           u == [ueCb[i] EXCEPT !.mac = "DELETE_COMPLETE"]
       IN IF Head(macToDu).ok
          THEN IF u.rlc = "DELETE_COMPLETE"
               THEN /\ ueCb' = [ueCb EXCEPT ![i] = NoUeCb]
                    /\ lcCfgList' = [lcCfgList EXCEPT ![i] = <<>>]
                    /\ ueBitMap' = ueBitMap \ {i}
                    /\ numActvUes' = numActvUes - 1
                    /\ cuUe' = [c \in CuUe |-> IF cuUe[c].ph = "releasing" /\ cuUe[c].id = i
                                             THEN [ph |-> "idle", id |-> 0, rbs |-> {}]
                                             ELSE cuUe[c]]
               ELSE /\ ueCb' = [ueCb EXCEPT ![i] = u]
                    /\ UNCHANGED <<lcCfgList, ueBitMap, numActvUes, cuUe>>
          ELSE UNCHANGED <<ueCb, lcCfgList, ueBitMap, numActvUes, cuUe>>
    /\ UNCHANGED <<ueCcchCtxt, numUe, nullDb, duToRlc, duToMac>>

-----------------------------------------------------------------------------
(* What RLC sends *)

DuProcRlcUeCreateRsp ==
    /\ FromRlc("CREATE")
    /\ LET i == Head(rlcToDu).ue IN CreateDone(i, [ueCb[i] EXCEPT !.rlc = "CREATE_COMPLETE"])
    /\ UNCHANGED <<numActvUes, ueBitMap, duToRlcDl>>

DuProcRlcUeReconfigRsp ==
    /\ FromRlc("RECONFIG")
    /\ LET i == Head(rlcToDu).ue IN RecfgDone(i, [ueCb[i] EXCEPT !.rlc = "RECFG_COMPLETE"])
    /\ UNCHANGED <<numActvUes, ueBitMap, duToRlcDl>>

DuProcRlcUeDeleteRsp ==
    /\ FromRlc("DELETE")
    /\ LET i == Head(rlcToDu).ue IN
        IF Head(rlcToDu).ok
        THEN /\ ueCb' = [ueCb EXCEPT ![i].rlc = "DELETE_COMPLETE"]
             /\ SendToMac("DELETE", i, NoDb)
        ELSE UNCHANGED <<ueCb, duToMac>>
    /\ UNCHANGED <<numActvUes, lcCfgList, ueBitMap, duToRlcDl, nullDb, cuUe, duToRlc>>

\* DuProcRlcDlRrcMsgRsp: a message of the UE has been sent, so what waits for one
\* begins.
DuProcRlcDlRrcMsgRsp ==
    /\ FromRlc("DL_RRC")
    /\ LET i == Head(rlcToDu).ue
           u == ueCb[i]
       IN CASE u.db.rrc /\ u.db.act = "SETUP" -> SetupReq(i, u)
            [] u.db.rrc /\ u.db.act = "MOD" -> RecfgReq(i, u)
            [] u.db.rrc /\ u.db.act = "RELEASE" /\ u.state = "ACTIVE" -> DeleteReq(i, u)
            [] OTHER -> UNCHANGED <<ueCb, lcCfgList, duToRlc, duToMac, duToRlcDl>>
    /\ UNCHANGED <<numActvUes, ueBitMap, nullDb, cuUe>>

\* A UE in handover is there, and its preambles are free.  Slip: it is not counted.
HandInDoneUncounted(i) ==
    /\ ueCb' = [ueCb EXCEPT ![i].state = "ACTIVE"]
    /\ SendToMac("RACH_REL", i, NoDb)
    /\ UNCHANGED numActvUes
HandInDone(i) ==
    /\ ueCb' = [ueCb EXCEPT ![i].state = "ACTIVE"]
    /\ SendToMac("RACH_REL", i, NoDb)
    /\ numActvUes' = numActvUes + 1

\* DuProcRlcUlRrcMsgTrans: with the first message of a UE its handover is done.
DuProcRlcUlRrcMsgTrans ==
    /\ FromRlc("UL_RRC")
    /\ LET i == Head(rlcToDu).ue IN
        /\ IF ueCb[i].state = "HANDIN"
           THEN HandInDone(i)
           ELSE UNCHANGED <<ueCb, numActvUes, duToMac>>
        /\ cuUe' = [c \in CuUe |-> IF cuUe[c].ph = "completing" /\ cuUe[c].id = i
                                 THEN [cuUe[c] EXCEPT !.ph = IF c \in HandIn THEN "ready"
                                                             ELSE "connected"]
                                 ELSE cuUe[c]]
    /\ UNCHANGED <<lcCfgList, ueBitMap, duToRlcDl, nullDb, duToRlc>>

-----------------------------------------------------------------------------
(* RLC's user plane, and the UEs *)

\* RlcProcDlRrcMsgTransfer, and rlcSendDedLcDlData when MAC has taken the message
RlcProcDlRrcMsgTransfer ==
    /\ duToRlcDl # <<>>
    /\ duToRlcDl' = Tail(duToRlcDl)
    /\ LET i == Head(duToRlcDl) IN
        rlcToDu' = IF Srb1 \in rlcDlRb[i]
                   THEN Append(rlcToDu, [ev |-> "DL_RRC", ue |-> i, ok |-> TRUE]) ELSE rlcToDu
    /\ UNCHANGED <<duToRlc, rlcOwnVars, macVars, duVars, cuUe>>

ByRlc == UNCHANGED <<macVars, duVars, duToRlcDl, cuUe>>
ByMac == UNCHANGED <<rlcVars, duVars, duToRlcDl, cuUe>>

RlcUlThread == ByRlc /\ (RlcUeCfgReq \/ RlcProcUeDeleteReq \/ RlcUlUdxCfgCfm)
RlcTimer(i) == ByRlc /\ RlcUeDeleteTmrExpiry(i)
RlcDlThread == ByRlc /\ RlcDlUdxCfgReq
MacThread ==
    /\ ByMac
    /\ \/ MacProcDlCcchInd \/ MacProcUeCreateReq \/ MacProcUeReconfigReq \/ MacProcUeDeleteReq
       \/ MacProcRachRsrcReq \/ MacProcRachRsrcRel

UeStep == UNCHANGED <<rlcVars, duVars, duToRlcDl>>

\* A UE comes by random access, and sends its RRC Setup Request.
UeAccess(c, i) ==
    /\ cuUe[c].ph = "idle"
    /\ Together \/ \A d \in CuUe : cuUe[d].ph \notin {"access", "initial"}
    /\ Rach(i)
    /\ cuUe' = [cuUe EXCEPT ![c].ph = "access", ![c].id = i]
    /\ UeStep

UeMsg4(i) == Msg4Acked(i) /\ ByMac

\* A UE comes by the preamble that the CU has told it.
UeHandIn(c) ==
    /\ cuUe[c].ph = "arriving"
    /\ RachCfra(cuUe[c].id)
    /\ cuUe' = [cuUe EXCEPT ![c].ph = "connecting"]
    /\ UeStep

\* RRC Setup Complete or RRC Reconfiguration Complete, which the uplink half of
\* RLC takes to the DU application.
UeRrc(c) ==
    /\ cuUe[c].ph = "connecting"
    /\ cuUe[c].id \in schMsg4Done
    /\ Srb1 \in rlcUlRb[cuUe[c].id]
    /\ cuUe' = [cuUe EXCEPT ![c].ph = "completing"]
    /\ rlcToDu' = Append(rlcToDu, [ev |-> "UL_RRC", ue |-> cuUe[c].id, ok |-> TRUE])
    /\ UNCHANGED <<duToRlc, rlcOwnVars, macVars, duVars, duToRlcDl>>

-----------------------------------------------------------------------------

CuStep(c) ==
    \/ RrcSetup(c)
    \/ \E rrc \in BOOLEAN, rbs \in SUBSET DrbsOf[c] :
        rbs # {} /\ c \in Access /\ CtxtSetup(c, rbs, rrc)
    \/ \E i \in Id, rbs \in SUBSET DrbsOf[c] :
        rbs # {} /\ c \in HandIn /\ CtxtSetupHandIn(c, i, rbs)
    \/ \E op \in ModOps, rrc \in BOOLEAN, rbs \in SUBSET DrbsOf[c] :
        /\ c \in Access
        /\ IF op = "STOP" THEN rbs = {}
           ELSE rbs # {} /\ IF op = "ADD" THEN rbs \intersect cuUe[c].rbs = {}
                            ELSE rbs \subseteq cuUe[c].rbs
        /\ CtxtMod(c, op, rbs, rrc)
    \/ \E rrc \in BOOLEAN : c \in Released /\ CtxtRelease(c, rrc)

FromMacStep ==
    \/ DuProcUlCcchInd \/ DuProcMacUeCreateRsp \/ DuProcMacUeRecfgRsp
    \/ DuProcMacRachRsrcRsp \/ DuProcMacUeDeleteRsp

FromRlcStep ==
    \/ DuProcRlcUeCreateRsp \/ DuProcRlcUeReconfigRsp \/ DuProcRlcUeDeleteRsp
    \/ DuProcRlcDlRrcMsgRsp \/ DuProcRlcUlRrcMsgTrans

DuUeNext ==
    \/ \E c \in CuUe : CuStep(c) \/ UeHandIn(c) \/ UeRrc(c)
    \/ \E c \in Access, i \in Id : UeAccess(c, i)
    \/ \E i \in Id : UeMsg4(i) \/ RlcTimer(i)
    \/ FromMacStep \/ FromRlcStep
    \/ RlcUlThread \/ RlcDlThread \/ RlcProcDlRrcMsgTransfer \/ MacThread

DuUeSpec == DuUeInit /\ [][DuUeNext]_duUeVars

\* Every thread takes its messages, the timer expires, and a UE that is to
\* answer does; the CU answers the first message of a UE and need do nothing
\* else.  Fairness of the timer is strong because without Overlap the model, not
\* the code, holds it back at times.
DuUeFairSpec ==
    /\ DuUeSpec
    /\ WF_duUeVars(FromMacStep) /\ WF_duUeVars(FromRlcStep)
    /\ WF_duUeVars(RlcUlThread) /\ WF_duUeVars(RlcDlThread)
    /\ WF_duUeVars(RlcProcDlRrcMsgTransfer) /\ WF_duUeVars(MacThread)
    /\ \A i \in Id : SF_duUeVars(RlcTimer(i)) /\ WF_duUeVars(UeMsg4(i))
    /\ \A c \in CuUe : WF_duUeVars(UeRrc(c)) /\ WF_duUeVars(RrcSetup(c))

-----------------------------------------------------------------------------
(* Properties *)

Msgs(q) == {q[k] : k \in DOMAIN q}

TypeOK ==
    /\ duToRlc \in Seq(RlcReq)
    /\ \A u \in Msgs(udxReq) \union Msgs(udxCfm) : u.req \in RlcReq
    /\ rlcUlUe \subseteq Id /\ ueDelTmr \subseteq Id
    /\ rlcUlRb \in [Id -> SUBSET Rb] /\ rlcDlRb \in [Id -> SUBSET Rb]
    /\ rlcUlUdxEventType \in RlcEvent
    /\ macUe \in [Id -> {"NONE", "ACTIVE", "HANDIN"}] /\ schUe \in [Id -> {"NONE", "ACTIVE", "HANDIN"}]
    /\ macLc \in [Id -> SUBSET Rb] /\ schLc \in [Id -> SUBSET Rb]
    /\ macNumActvUe \in 0 .. MaxUint16
    /\ UNION {ueBitMap, macRaCb, msg4Pdu, macCfra, schTcrnti, schMsg4Done, schPreamble} \subseteq Id
    /\ ueCb \in [Id -> UeCb]
    /\ numUe \in 0 .. MaxNumUe
    /\ nullDb \in BOOLEAN

\* An id that is free to be given to another UE is in nobody's tables and in no
\* message under way: whoever gets it finds nothing of the UE before.
FreeIdIsUnused ==
    \A i \in Id \ ueBitMap :
        /\ ueCb[i] = NoUeCb
        /\ \A k \in 0 .. numUe - 1 : ueCcchCtxt[k] # i
        /\ i \notin rlcUlUe \union ueDelTmr /\ rlcUlRb[i] = {} /\ rlcDlRb[i] = {}
        /\ macUe[i] = "NONE" /\ schUe[i] = "NONE" /\ macLc[i] = {} /\ schLc[i] = {}
        /\ i \notin UNION {macRaCb, msg4Pdu, macCfra, schPreamble, Msgs(duToRlcDl)}
        /\ \A m \in UNION {Msgs(duToRlc), Msgs(rlcToDu), Msgs(duToMac), Msgs(macToDu)} : m.ue # i
        /\ \A u \in Msgs(udxReq) \union Msgs(udxCfm) : u.req.ue # i

\* The CU has its answer about a UE "once all layers have responded": no request
\* to RLC or MAC is under way then, and no response to one.
AnsweredWhenDone ==
    \A c \in CuUe : cuUe[c].ph \in {"arriving", "ready"} =>
        /\ \A m \in Msgs(duToMac) \union Msgs(macToDu) : m.ue = cuUe[c].id => m.ev = "RACH_REL"
        /\ \A m \in Msgs(duToRlc) : m.ue # cuUe[c].id
        /\ \A u \in Msgs(udxReq) \union Msgs(udxCfm) : u.req.ue # cuUe[c].id
        /\ \A m \in Msgs(rlcToDu) : m.ue = cuUe[c].id => m.ev \in {"UL_RRC", "DL_RRC"}

\* The context of a UE that CU and gNB-DU talk about is that UE's in both, and no
\* context outlives it.
OneContextPerUe ==
    /\ \A c \in CuUe : cuUe[c].ph \notin {"idle", "access", "initial"} => ueCb[cuUe[c].id].cu = c
    /\ \A i \in Id : ueCb[i].cu # 0 => cuUe[ueCb[i].cu].id = i

\* f1UeDb is there whenever a response makes use of it.
NoNullDb == ~nullDb

\* Both counters of UEs count the UEs, so that a cell refuses one for being full
\* only when it is.
ActvUesAreCounted ==
    numActvUes = Cardinality({i \in Id : ueCb[i].state \in {"ACTIVE", "DELETION"}})

MacActvUesAreCounted ==
    macNumActvUe = Cardinality({i \in Id : macUe[i] = "ACTIVE"})

\* The dedicated preambles of a UE that has come by handover go back to the cell
\* in both MAC and SCH once gNB-DU has asked for it.
CfraIsReleased ==
    \A i \in Id :
        /\ ueCb[i].state = "ACTIVE"
        /\ \A m \in Msgs(duToMac) : m.ue = i => m.ev # "RACH_REL"
        => i \notin macCfra \union schPreamble

-----------------------------------------------------------------------------
(* The abstract life of a UE *)

IsAsked(c) ==
    \/ cuUe[c].ph \in {"handin", "asked", "releasing"}
    \/ cuUe[c].ph \in {"connecting", "completing"} /\ c \in Access

IsOut(c) == cuUe[c].ph \in {"idle", "access", "initial"}

Life == INSTANCE UeLife WITH
    Part <- {"rlcUl", "rlcDl", "mac", "sch"},
    phase <- [c \in CuUe |-> IF IsOut(c) THEN "out" ELSE IF IsAsked(c) THEN "asked" ELSE "in"],
    id <- [c \in CuUe |-> IF IsOut(c) THEN 0 ELSE cuUe[c].id],
    want <- [i \in Id |-> UNION {cuUe[c].rbs : c \in {d \in CuUe : cuUe[d].id = i}}],
    has <- [p \in {"rlcUl", "rlcDl", "mac", "sch"} |->
                CASE p = "rlcUl" -> rlcUlRb
                  [] p = "rlcDl" -> rlcDlRb
                  [] p = "mac" -> macLc
                  [] p = "sch" -> schLc]

\* gNB-DU keeps the promise: every layer moves only to what the CU asked for, and
\* the CU is answered when all of them have.
LifeIsKept == Life!LifeSpec

\* What the CU asks for is answered.
AskedIsAnswered == \A c \in CuUe : IsAsked(c) ~> ~IsAsked(c)

=============================================================================
