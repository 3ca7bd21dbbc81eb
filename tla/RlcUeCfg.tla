----------------------------- MODULE RlcUeCfg -----------------------------
(***************************************************************************)
(* How RLC configures a UE: a request of the DU application is validated   *)
(* by the thread of the uplink half (rlc_upr_inf_mgr.c, rlc_cfg_ul.c),     *)
(* applied by the thread of the downlink half (rlc_dl_ul_inf_dl.c,         *)
(* rlc_cfg_dl.c), and on its confirm applied by the uplink half, which     *)
(* answers (rlc_dl_ul_inf_ul.c).  Deletion waits for a timer first         *)
(* (rlc_msg_hdl.c, rlc_tmr.c).                                             *)
(*                                                                         *)
(* A request is a record [ev, ue, op, rbs]: all its bearers are to be      *)
(* added, modified or deleted.  valid holds the bearers the uplink half    *)
(* found valid; only these have the direction BOTH, and the downlink half  *)
(* handles no other.  A transaction is kept with the request it is about.  *)
(* There is memory for every request.                                      *)
(***************************************************************************)
EXTENDS UeIds, FiniteSets, Sequences

CONSTANT
    Overlap     \* whether the UL half takes a request while one of another kind
                \* is with the DL half

VARIABLES
    duToRlc,            \* requests for the UL thread
    udxReq, udxCfm,     \* requests to the DL thread, and its confirms
    rlcToDu,            \* what both threads send to the DU application
    rlcUlUe, rlcUlRb,   \* UL half: UEs with a context, and their bearers
    rlcDlRb,            \* DL half: the bearers of each UE
    ueDelTmr,           \* UEs whose deletion timer runs
    rlcUlUdxEventType   \* event of the request that the UL half took last

rlcVars == <<duToRlc, udxReq, udxCfm, rlcToDu,
             rlcUlUe, rlcUlRb, rlcDlRb, ueDelTmr, rlcUlUdxEventType>>

RlcEvent == {"CREATE", "RECONFIG", "DELETE"}
RlcOp == {"ADD", "MODIFY", "DEL", "DEL_UE"}
RlcReq == [ev : RlcEvent, ue : Id, op : RlcOp, rbs : SUBSET Rb]

RlcInit ==
    /\ duToRlc = <<>> /\ udxReq = <<>> /\ udxCfm = <<>> /\ rlcToDu = <<>>
    /\ rlcUlUe = {} /\ ueDelTmr = {}
    /\ rlcUlRb = [i \in Id |-> {}]
    /\ rlcDlRb = [i \in Id |-> {}]
    /\ rlcUlUdxEventType = "CREATE"

\* The bearers among rbs that op may be applied to, of those present
\* (rlcCfgValidateUlRb, rlcCfgAddDlRb, rlcCfgReCfgDlRb, rlcCfgDelDlRb).
ValidRbs(op, rbs, present) ==
    CASE op = "ADD" -> rbs \ present
      [] op \in {"MODIFY", "DEL"} -> rbs \intersect present
      [] op = "DEL_UE" -> {}

\* The bearers of a UE after op on rbs (rlcCfgApplyUlRb and the DL half's).
\* Slip: a UE is deleted without its bearers.
AppliedUeOnly(op, rbs, present) ==
    CASE op = "ADD" -> present \union rbs
      [] op \in {"MODIFY", "DEL_UE"} -> present
      [] op = "DEL" -> present \ rbs
Applied(op, rbs, present) ==
    CASE op = "ADD" -> present \union rbs
      [] op = "MODIFY" -> present
      [] op = "DEL" -> present \ rbs
      [] op = "DEL_UE" -> {}

-----------------------------------------------------------------------------
(* The UL thread *)

\* RlcProcCfgReq with rlcUlHdlCfgReq.  A UE context is made before any of its
\* bearers is, and is not rolled back; deletion needs one.  The code has no
\* guard; without Overlap only those interleavings are looked at in which the
\* event is still that of the request when its confirm arrives.
RlcProcCfgReq(r) ==
    /\ Overlap \/ \A k \in DOMAIN udxReq : udxReq[k].req.ev = r.ev
    /\ Overlap \/ \A k \in DOMAIN udxCfm : udxCfm[k].req.ev = r.ev
    /\ rlcUlUdxEventType' = r.ev
    /\ rlcUlUe' = IF r.op = "ADD" /\ r.rbs # {} THEN rlcUlUe \union {r.ue} ELSE rlcUlUe
    /\ udxReq' = Append(udxReq, [req |-> r,
                                 ueOk |-> r.ue \in rlcUlUe,
                                 valid |-> ValidRbs(r.op, r.rbs, rlcUlRb[r.ue])])
    /\ UNCHANGED <<udxCfm, rlcUlRb, rlcDlRb>>

\* RlcProcUeCreateReq, RlcProcUeReconfigReq
RlcUeCfgReq ==
    /\ duToRlc # <<>>
    /\ LET r == Head(duToRlc) IN
        /\ r.ev # "DELETE"
        /\ duToRlc' = Tail(duToRlc)
        /\ RlcProcCfgReq(r)
    /\ UNCHANGED <<rlcToDu, ueDelTmr>>

\* RlcProcUeDeleteReq: deletion begins after a delay.
RlcProcUeDeleteReq ==
    /\ duToRlc # <<>>
    /\ LET r == Head(duToRlc) IN
        /\ r.ev = "DELETE"
        /\ duToRlc' = Tail(duToRlc)
        /\ IF r.ue \in rlcUlUe
           THEN ueDelTmr' = ueDelTmr \union {r.ue} /\ UNCHANGED rlcToDu
           ELSE /\ rlcToDu' = Append(rlcToDu, [ev |-> "DELETE", ue |-> r.ue, ok |-> FALSE])
                /\ UNCHANGED ueDelTmr
    /\ UNCHANGED <<udxReq, udxCfm, rlcUlUe, rlcUlRb, rlcDlRb, rlcUlUdxEventType>>

\* rlcUeDeleteTmrExpiry
RlcUeDeleteTmrExpiry(i) ==
    /\ i \in ueDelTmr
    /\ ueDelTmr' = ueDelTmr \ {i}
    /\ RlcProcCfgReq([ev |-> "DELETE", ue |-> i, op |-> "DEL_UE", rbs |-> {}])
    /\ UNCHANGED <<duToRlc, rlcToDu>>

\* Every bearer of the request was valid in both halves (fillRlcUeCreateRsp).
AllOk(cfm) == cfm.done = cfm.req.rbs

\* rlcUlUdxCfgCfm with rlcHdlCrlcUlCfgReq: what the DL half did is done in the
\* UL half.  The event that came last names the answer; a failed creation or
\* reconfiguration is answered by none (SendRlcUeCreateRspToDu).
RlcUlUdxCfgCfm ==
    /\ udxCfm # <<>>
    /\ LET cfm == Head(udxCfm)
           i == cfm.req.ue
           deletes == cfm.req.op = "DEL_UE" /\ cfm.ueOk
       IN
        /\ udxCfm' = Tail(udxCfm)
        /\ rlcUlRb' = [rlcUlRb EXCEPT ![i] =
                IF deletes THEN {} ELSE Applied(cfm.req.op, cfm.done, @)]
        /\ rlcUlUe' = IF deletes THEN rlcUlUe \ {i} ELSE rlcUlUe
        /\ rlcToDu' = IF rlcUlUdxEventType = "DELETE" \/ AllOk(cfm)
                      THEN Append(rlcToDu, [ev |-> rlcUlUdxEventType, ue |-> i, ok |-> TRUE])
                      ELSE rlcToDu
    /\ UNCHANGED <<duToRlc, udxReq, rlcDlRb, ueDelTmr, rlcUlUdxEventType>>

-----------------------------------------------------------------------------
(* The DL thread *)

\* rlcDlUdxCfgReq
RlcDlUdxCfgReq ==
    /\ udxReq # <<>>
    /\ LET u == Head(udxReq)
           i == u.req.ue
           done == ValidRbs(u.req.op, u.valid, rlcDlRb[i])
       IN
        /\ udxReq' = Tail(udxReq)
        /\ rlcDlRb' = [rlcDlRb EXCEPT ![i] = Applied(u.req.op, done, @)]
        /\ udxCfm' = Append(udxCfm, [req |-> u.req, ueOk |-> u.ueOk, done |-> done])
    /\ UNCHANGED <<duToRlc, rlcToDu, rlcUlUe, rlcUlRb, ueDelTmr, rlcUlUdxEventType>>

=============================================================================
