# A TLA+ model of O-DU High, layer 2

This directory holds TLA+ modules of parts of O-DU High, the TLC configurations
that model-check them, and proofs that TLAPS checks. The modules are translated
from the C code in `src/`; the comment above a definition names the function it
stands for, and `PROJECT.json` gives the lines.

Covered are the two data-carrying modes of RLC, acknowledged (AM) and
unacknowledged (UM); the downlink and uplink HARQ of the first-come-first-served
scheduler with the blocks MAC keeps for it; and the life of a UE from random
access or handover to its release, over the DU application, both threads of RLC,
MAC and SCH. The rest of the system is in the inventory and in the plan.

## 1. The system

O-DU High runs these threads (`docs/overview.rst`): O-DU main; DU APP; RLC DL
with MAC, SCH and lower MAC; RLC UL; SCTP; lower-MAC receiver; EGTP; O1.
Threads exchange messages through demand queues (`src/mt`): a handler runs to
its end before its thread takes the next message, and messages between two
threads keep their order. Within a thread, components call each other directly.

| Component | State | Operations | Interaction | What makes it correct |
|---|---|---|---|---|
| RLC AM receiver, `rlc_amm_ul.c` | window (`rxNext`, `rxHighestStatus`, `rxNextHighestRcvd`, `rxNextStatusTrig`), `recBufLst`, reassembly and status prohibit timers, `staTrg` | data indication from MAC, two expiries, re-establishment | MAC (data), DU APP (SDUs), RLC DL over UDX (status) | window ordered around the wrap-around; every hole asked for; nothing delivered twice or skipped |
| RLC AM transmitter, `rlc_amm_dl.c` | window (`txNext`, `txNextAck`), `sduQ`, `txBufLst`, `retxLst`, `nxtRetx`, BO counters, poll state | SDU from DU APP, grant from MAC, status report, poll expiry, re-establishment | MAC (grants, BO), DU APP (SDUs, confirmations), RLC UL over UDX | nothing released before it arrives; each SDU confirmed once; everything NACKed is retransmitted; BO is what is there |
| UDX, `rlc_dl_ul_inf_*.c` | queues | status information, received status, prohibit timer start, configuration | RLC UL and RLC DL threads | late messages meet a state they still fit |
| RLC UM, `rlc_umm_*.c` | reassembly window and timer; segmentation state | data, expiry, re-establishment | as AM | window and buffers as in AM; lost SDUs discarded, not mixed |
| RLC TM, `rlc_tmm_*.c` | a queue | data | as AM | order |
| RLC configuration and UE deletion, `rlc_cfg_*.c`, `rlc_msg_hdl.c` | RB and UE databases in both threads, UE delete timer | create, reconfigure, delete, re-establish | DU APP; UDX | both threads agree; no RB used after it is deleted |
| RLC timers, buffers, `rlc_tmr.c`, `rlc_utl_*.c` | timer wheel, SN-indexed bins, to-be-freed queues | start, stop, expiry; store, fetch, delete | all RLC | an expiry finds the state it was started for |
| SCH HARQ, `sch_harq_dl.c`, `sch_harq_ul.c`, `sch_crc.c` | process pools, free and used lists per UE | grab, feedback, retransmit, release | MAC (HARQ and CRC indications) | a process is in one list; a TB is kept until it is acknowledged or given up |
| SCH scheduling, `sch.c`, `sch_fcfs.c`, `sch_slice_based.c`, ... | PRB tables per slot, UE queues, BO and BSR | slot indication, BO, BSR, SR | MAC | no PRB granted twice; pending data is scheduled |
| SCH random access and UE management, `sch_rach.c`, `sch_ue_mgr.c`, `sch_drx.c` | RA and UE control blocks | RACH, CRC, msg4 feedback, UE config | MAC | every RA request ends; an RNTI belongs to one UE |
| MAC, `mac_*.c` | UE and cell control blocks, TBs per HARQ process | mux, demux, slot indication | SCH, RLC, lower MAC, DU APP | the TB of a process is what SCH thinks it is |
| Lower MAC, `lwr_mac_fsm.c`, ... | PHY state, queued requests | FAPI messages | MAC, PHY | requests only in the states that allow them |
| DU APP, `src/du_app` | F1AP transactions, UE and cell control blocks, configuration | F1AP handlers, confirmations from MAC and RLC | CU, MAC, RLC | a transaction ends; UE state agrees with MAC and RLC |
| E2 agent, `du_e2ap_*.c` | RAN functions, RIC subscriptions, their timers | E2AP handlers, report timers | RIC, SCH (statistics) | a subscription reports until it is deleted |
| Common library, system services, codecs, O1, stubs, EGTP, SCTP | - | - | - | used through their contracts, generated, or I/O |

What is hard in this code: sequence numbers that wrap and are compared relative
to a moving base; segments cut and cut again in any order; lists walked by
handlers that change them; pointers into such lists kept between handlers;
reports that are late, lost or overtaken; timers that race the answer they wait
for; two halves of one entity in two threads. `PROJECT.json` lists the hazards,
each at its line, with the properties that cover it.

## 2. Plan

Done:

1. `AmSn`, `RlcAmUl` and `RlcAmDl`, both with proofs of all their properties.
2. `SchFcfs` with MAC's blocks, which implements the abstract `HarqTx`, both with
   proofs; liveness of grants and of HARQ processes, model-checked.
3. `RlcUeCfg`, `MacUeCfg`, composed in `DuUe`, which implements the abstract
   `UeLife`; proofs of its invariants and of that; liveness of the CU's requests,
   model-checked.
4. `RlcUmUl`, `RlcUmDl`, composed over a channel in `RlcUm`, with proofs.

Left, in this order:

5. `RlcStaPdu`: the NACK-range compaction of `rlcAmmUlSetNackInfo`, its limit
   `RLC_MAX_NACK_CNT`, its encoding into a grant of limited size and its expansion
   in `RlcDlAmmGetNackSnInfoFrmNackRangeIdx`, as operators checked against the
   set of missing units.
6. `RlcAm`: `RlcAmDl` composed with `RlcAmUl` over a lossy channel, in place of
   the abstract peer, with the abstract delivery service and its liveness.
7. `SchRach` (the RAR window, MSG3 and MSG4 that fail, the id they leak),
   `LwrMacFsm`, `E2Subscription`.

## 3. Modules

| Module | What it is |
|---|---|
| `AmSn` | Sequence-number arithmetic: `ModSn` is `MODAMT`/`MODAMR`, `AddSn` the masked addition. |
| `AmSn_proofs` | Lemmas about it: distance and addition are inverse, a base that moves. |
| `DataLemmas` | Lemmas: induction and recursion over the naturals, least elements; lists without duplicates, and what adding to and removing from them does; entries put into the middle of a list and taken out of it; loops of `n` turns. |
| `RlcAmUl` | The AM receiver. |
| `RlcAmUl_proofs` | Its inductive invariant and the theorems of section 6. |
| `MCRlcAmUl` | The receiver for TLC; checks `ModSn` against the masked subtraction. |
| `RlcAmDl` | The AM transmitter, with a lossy channel and an abstract peer. |
| `RlcAmDl_proofs` | Its inductive invariant, one invariant for each of its loops, and its theorems. |
| `MCRlcAmDl` | The transmitter for TLC, with the view that identifies rotated states. |
| `RlcUmSdu`, `RlcUmUl`, `RlcUmDl` | The two halves of a UM entity, and the SDU they share. |
| `RlcUm`, `MCRlcUm` | A transmitting half and a receiving half over a channel. |
| `RlcUm_proofs` | Their inductive invariant and theorems. |
| `SchFcfs`, `MCSchFcfs` | The scheduler, its HARQ entities, MAC's copies of the blocks. |
| `HarqTx` | Abstract: what HARQ promises of a transport block. |
| `SchFcfs_proofs` | The scheduler's inductive invariants, its theorems, and that it implements `HarqTx`. |
| `UeIds` | UE ids and radio bearers, shared by the modules of a UE's life. |
| `RlcUeCfg` | Configuration of a UE in the two threads of RLC. |
| `MacUeCfg` | Contexts of a UE in MAC and SCH, and what lasts of random access. |
| `DuUe`, `MCDuUe` | The UE procedures of the DU application, composed with those two. |
| `UeLife` | Abstract: what gNB-DU promises its CU about a UE. |
| `DuUe_proofs` | The inductive invariant of a UE's life over all layers, and its theorems; lemmas about messages that are taken from queues and put into them. |
| `DuUeLife_proofs` | That `DuUe` implements `UeLife`. |

### RlcAmUl

The variables carry the names of `RlcAmUl` in `rlc_ul.h`. `recBuf[sn]` stands for
the `RlcAmRecBuf` found under `sn`, `NoBuf` for none. A segment carries the
units `so .. end` of its SDU. `reAsmblTmr` and `staProhTmr` tell whether a timer
runs; that a running timer may expire at any time over-approximates its length.
`staPduReq` and `staProhReq` are the messages over UDX.

| Action | Code |
|---|---|
| `RcvPdu(p, last)` | one turn of the loop of `rlcAmmProcessPdus` for one PDU, with the placing (`rlcAmmUlPlacePduInRecBuf`, `rlcAmmAddRcvdSeg`), the updates of the window, the delivery and the timer; `last` runs the tail of the function, which sends the report gathered |
| `ReAsmblTmrExp` | `rlcAmmReAsmblTmrExp` |
| `StaProTmrExp` | `rlcAmmStaProTmrExp` |
| `StaProhTmrStart` | `rlcUlUdxStaProhTmrStart` |
| `ReEstablish` | `rlcAmmUlReEstablish` |
| `DlTakesStaPdu(sends)` | the DL thread's side of UDX: `rlcDlUdxStaPduReq`, and `rlcAmmDlAssembleCntrlInfo` if it sends |

Between the PDUs of one data indication (`inDatInd`) nothing else of the thread
runs. The peer is not restricted: any PDU may arrive at any time, so the
receiver's properties hold whatever the other end and the channel do.

Three details of the code are kept because the properties depend on them: the
start condition of the reassembly timer compares `rxNextHighestRcvd` with
`rxNext` without a base (`TmrNeeded`); the buffer it looks at is the one the
scans fetched last (`LastFetched`); and the expiry looks at the buffer of
`rxNextStatusTrig` whatever SN its loop has reached (`ReAsmblTmrExp`).

### RlcAmDl

The variables carry the names of `RlcAmDl` in `rlc_dl.h`. SDUs are numbered in
the order of the queue, so `queued` counts those without an SN, `segOff` says
how much of the one at `nxtTx` has been sent, and `rcvdSz[sn]` is the
`mode.am.rcvdSz` of the SDU with that SN, 0 again once it is confirmed and gone.
`txBuf[sn]` is the PDU list of `txBufLst`, `retxLst` the list of `RlcRetx`.
`nxtRetx` is a pointer; it is kept as the SN and start of the entry pointed to,
which survive the removal of that entry, so a dangling pointer can be told from
a valid one.

| Action | Code |
|---|---|
| `QSdu` | `rlcAmmQSdu` |
| `AssembleSdu(n)` | `rlcAssembleSdus`, `rlcAmmCreatePdu`, `rlcAmmDlCheckAndSetPoll` for a PDU of `n` units |
| `DiscSdu` | the discard branch of `rlcAssembleSdus` |
| `ResegRetxPdu(n)` | `rlcResegRetxPdus`, `rlcSplitPdu`, `rlcGetNxtRetx` for a PDU of `n` units |
| `ResegReleased` | the same when `nxtRetx` dangles; behaviour is undefined from then on, so the model ends (`undef`) |
| `RcvStatus(ack)` | `rlcDlUdxStaUpdReq`, `rlcAmmDlHndlStatusPdu` and everything below it |
| `PollRetxTmrExp` | `rlcAmmPollRetxTmrExp` |
| `ReEstablish` | `rlcAmmDlReEstablish`; the peer is re-established with it |
| `PeerRcv(p)` | the peer receives a PDU (external) |

A handler of a status report works on a record of the buffers (`Buffers`) that
the operators for its loops transform one entry at a time, with `node` for the
code's pointer into `retxLst` and `lnk` for that into the PDUs of one SN. A loop is
`AfterTurns`: so many turns as there are entries at its start, of which those after
its end change nothing (`LessThanTurn`, `NackTurn`, `SegTurn`, `AckTurn`; `MoveSeg` takes one
PDU from `txBuf` to `retxLst`).

Grants: a grant for several PDUs is modelled as one grant for each. The only
difference in the code is that counters below zero are reset when the grant
ends; within a grant they only decrease, so resetting them each time leaves the
same values at the end.

The peer and the channel: a PDU sent may arrive any number of times, in any
order, or never, until its SN is acknowledged. The peer keeps what lies in its
window and reports truthfully: a report with `ackSn` names everything missing
below it, and `ackSn` is an incomplete SDU. A report is handled in the step that
makes it. A late one is covered: it is one that was made before the peer
received what it has received since, and not receiving is always possible; a
lost one is never made.

### SchFcfs

The variables carry the names of the fields of `SchUeCb`, `SchFcfsUeCb` and the
HARQ entities. A process is free (`dlFree`, `ulFree`) or in use; `tb` holds what
SCH keeps of its two transport blocks; `hqDlmap` and `hqUlmap` hold, per slot,
whose feedback is due there, `pucch` and `pusch` the slots reserved for it.
`macTb` is MAC's part: the processes whose block it has stored
(`addDlHqProcInUe`), which it is told to drop by `MacSchReleaseDlHarqProc`.

| Action | Code |
|---|---|
| `DlRlcBoInfo`, `SrUciInd`, `Bsr` | `SchProcDlRlcBoInfo`, `SchProcSrUciInd`, `SchProcBsr` |
| `DlHarqInd` | `schUpdateHarqFdbk` with `schDlHqFeedbackUpdate`, `schDlHqTbFail`, `schDlReleaseHqPTb`, and MAC's release |
| `CrcInd` | `SchProcCrcInd` for a connected UE |
| `LoseUci`, `LoseCrc` | PHY reports nothing of a slot (external) |
| `SlotInd` | the beginning of `schFcfsScheduleSlot` |
| `ScheduleUe` | one turn of its loop: the uplink part (`UlRetx`, `UlNew`), the downlink part (`DlRetx`, `DlNew`), and where the UE goes in the list |

Each part of `ScheduleUe` ends as "none", "scheduled" or "refused", and that
decides whether the UE stays in the list. A UE handled later in the same slot
indication sees `hqP` as the UE before it left it; that is why the loop is not
one step. `corrupt` marks a list node inserted twice or removed from where it is
not, a read of a block MAC does not have, and the like; behaviour is undefined
from then on and the model ends.

`HarqTx` says what the downlink part is for: a block is sent, sent again after
each failure up to `MaxTx` times, and a copy of it is held as long. The mapping
reads a process's state off `dlFree` and its first block's state (`DlSt`), the
number of its transmissions off that block (`DlTx`), and the copy off `macTb`
(`DlHeld`), so that the refinement is about SCH and MAC together.

### DuUe: RlcUeCfg, MacUeCfg

One module per layer, each with its queues, and `DuUe` that adds the DU
application, the CU and the UEs and composes them. The queues are those of the
threads: `duToRlc` and `udxCfm` are taken by RLC's uplink thread, `udxReq` by its
downlink thread, `duToMac` by MAC's (which calls SCH directly), `rlcToDu` and
`macToDu` by the DU application's. `udxReq` with its confirms stands for the
configuration messages of UDX.

| Module | Actions | Code |
|---|---|---|
| `RlcUeCfg` | `RlcUeCfgReq`, `RlcProcUeDeleteReq`, `RlcUeDeleteTmrExpiry` | `RlcProcUeCreateReq` and its like, `RlcProcCfgReq`, `rlcUlHdlCfgReq`, the deletion timer |
| | `RlcDlUdxCfgReq`, `RlcUlUdxCfgCfm` | `rlcDlUdxCfgReq`, `rlcUlUdxCfgCfm` and what the halves add, modify, delete |
| `MacUeCfg` | `Rach`, `RachCfra`, `Msg4Acked` | random access, by contention and without; MSG4's acknowledgement |
| | `MacProcUeCreateReq`, `...ReconfigReq`, `...DeleteReq`, `MacProcRachRsrcReq`, `...Rel`, `MacProcDlCcchInd` | the handlers of that name, with SCH's and the confirm that comes back |
| `DuUe` | `RrcSetup`, `CtxtSetup`, `CtxtSetupHandIn`, `CtxtMod`, `CtxtRelease` | what the CU sends: `duProcDlRrcMsg`, `procF1UeContextSetupReq`, `procF1UeContextModificationReq`, `procF1UeContextReleaseCommand` |
| | `DuProc...` | the handlers of that name |
| | `UeAccess`, `UeHandIn`, `UeMsg4`, `UeRrc` | the UEs (external) |

A UE's context is `ueCb[i]`, with the state of the context, the state of RLC's
and of MAC's configuration, and `db`, the CU's request kept in `f1UeDb` until both
have answered. `lcCfgList[i]` is the list of bearers the DU application has stored
of it, which stands for two, in `duRlcUeCfg` and in `duMacUeCfg`: both are searched,
extended and shortened by the same code. What a request conveys depends on it
(`Conveyed`), and it becomes what the CU asked for when both layers have answered
(`StoreCfg`). `cuUe` is the CU's view. `UeLife` is the promise: the CU asks for
bearers, each part (both halves of RLC, MAC, SCH) moves in its own time to what
was asked and to nothing else, the answer is given when all have, and an id
belongs to one UE until nothing is left of it. The mapping takes the bearers of
each part from its own table.

### RlcUm

`RlcUmUl` and `RlcUmDl` follow `rlc_umm_ul.c` and `rlc_umm_dl.c`; the actions are
`RcvSeg` (`rlcUmmProcessPdus` for one PDU), `ReAsmblTmrExp`
(`rlcUmmReAsmblTmrExp`), `UlReEstablish`, `QSdu`, `ProcessSdus` (for one PDU),
`DiscSdu`, `DlReEstablish`. `RlcUm` sends each segment of the one over the channel
to the other. An SDU that goes whole has no sequence number and passes both halves
unseen; only segmented ones count. UM's sequence numbers are 6 or 12 bits and
its window is half of them, so whatever the receiver does about SDUs a window
apart would be ambiguous; the channel therefore delivers nothing that is a
window late and does not lose a whole window of SDUs in a row. `rnd` tells apart
the two SDUs an SN may stand for; `owed` holds what may still be handed up.

## 4. Runs

| Run | Module, configuration | What it asks |
|---|---|---|
| `am_receiver` | `MCRlcAmUl`, `RlcAmUl.cfg` | eight invariants and two action properties of the AM receiver |
| `am_transmitter` | `MCRlcAmDl`, `RlcAmDl.cfg` | seven invariants of the AM transmitter |
| `um` | `MCRlcUm`, `RlcUm.cfg` | UM: SDUs whole and once, holes timed |
| `sch_dl_harq` | `MCSchFcfs`, `SchFcfsDl.cfg` | the downlink HARQ of SCH and MAC, and that it implements `HarqTx` |
| `sch_live` | `MCSchFcfs`, `SchFcfsBusy.cfg` | the uplink's processes; grants and releases under endless traffic |
| `sch_faults` | `MCSchFcfs`, `SchFcfsFaults.cfg` | what survives lost reports and failing allocations |
| `du_ue` | `MCDuUe`, `DuUe.cfg` | the life of UEs over all layers, that it implements `UeLife`, that the CU is answered |
| `am_receiver_hole_at_wrap` | `RlcAmUlHole.cfg` | refuted: a hole is always timed |
| `um_wrap` | `RlcUmWrap.cfg` | refuted: SDUs are handed up whole, if the timer expires across the wrap-around |
| `sch_held_is_not_free` | `SchFcfsHeldIsNotFree.cfg` | refuted: a process MAC holds is not free in SCH |
| `du_ue_delete` | `DuUeDelete.cfg` | refuted: when the CU is told that a bearer is deleted, the layers have deleted it |
| `du_ue_overlap` | `DuUeOverlap.cfg` | refuted: a context setup is answered, with requests overlapping in RLC |

**AM receiver.** `WindowOrder`: `rxNext`, `rxHighestStatus`, `rxNextHighestRcvd`
stay in this order within a window. `BufferedInWindow`: no buffer stays behind when
the window slides. `EdgesIncomplete`: both edges a peer relies on are incomplete
SDUs. `RunningTmrTrigger`: a running reassembly timer has its trigger in the
window, and its expiry cannot move `rxHighestStatus` back. `ExpSoIsFirstGap`: an
SDU is known to be complete exactly when it is. `HoleIsTimed`: a hole not yet
reported is timed, unless the window lies across the wrap-around.
`TriggerIsPending`: a triggered report is held back by the prohibit timer only.
`SlidesOverReceived`, `StatusEdgeAdvances`: the window slides only over received
SDUs, the acknowledged edge never moves back.

**AM transmitter.** `HeldInWindow`: never more than a window in flight, and
nothing held outside it. `ReleasedArrived`: what was sent and is no longer held has
arrived. `ConfirmedOnce`: units confirmed, held and unsent add up to the SDU.
`RetxInOrder`: `retxLst` is ordered by SN and segment. `PendingIsReachable`:
everything pending is at or behind `nxtRetx`, which never points to an entry that
was removed, before one has been given up. `NackedAwaitsRetx`: after any report
the peer could make now, everything it asks for awaits retransmission, and the
handler has not read the uninitialised `retx`.

**UM.** `DeliveredWhole`: what is handed up is one SDU that was sent, and never
twice. `HoleIsTimed`: while an SDU is missing below the highest one of which
anything came, the timer runs, so the receiver gives it up in the end.

**Scheduler.** `DlInUseHasPlace`, `UlInUseHasPlace`: a process in use waits for
feedback in exactly one reserved slot or is in the retransmission list, and a free
one is in neither. `MacHoldsInUse`: MAC holds the blocks of exactly the processes
in use. `QueuedIsPending`: no UE is in the list with nothing to schedule.
`UlFreeIsUnused`: no feedback is awaited for a free uplink process. `InUseIsHeld`:
whatever is lost, a retransmission finds its block at MAC. `DlHarqSpec`: the
refinement. `AskedIsGranted`: a scheduling request is granted in the end.
`DlIsReleased`: no downlink process is in use for ever.

**UE life.** `FreeIdIsUnused`: nothing of a UE is left anywhere, in tables or
messages, when its id is free for the next. `AnsweredWhenDone`: when the CU has
its answer, no request to RLC or MAC and no response is under way.
`OneContextPerUe`: the contexts the CU and gNB-DU have are of the same UE, and none
outlives it. `NoNullDb`: a response finds `f1UeDb`. `ActvUesAreCounted`,
`MacActvUesAreCounted`: the counters that let a UE in or not count the UEs.
`CfraIsReleased`: dedicated preambles go back in both MAC and SCH. `LifeIsKept`: the
refinement. `AskedIsAnswered`: every request of the CU is answered.

### Bounds

For RLC, `WinSz` is the window; the sequence-number space is twice that, as for
all lengths in the code.

- AM receiver: window 3, SN space 6, SDUs of 2 units, one content, one report and
  one timer request in each UDX queue. Window 3 lets holes appear on both sides
  of `rxHighestStatus` and lets the window wrap in every position; 2 units give
  segments in both orders, overlaps and duplicates. The violation run uses 2.
- AM transmitter: window 2, SN space 4, SDUs of 2 units, `maxRetx` 2, `pollPdu` 1
  (every new PDU polls), one SDU waiting. Two SDUs in flight plus segments of a
  third suffice for reports with several NACKs, NACKs of segments over `txBuf` and
  `retxLst`, and re-segmentation.
- UM: window 2, SN space 4, SDUs of 3 units, one SDU waiting. Three units let a
  segment arrive with a gap before it and one after it; the SNs go round many
  times. `AcrossWrap` is FALSE: the timer does not expire while the SNs it skips
  lie across the wrap-around, where the code goes wrong (`um_wrap`).
- `MaxUdx` and `MaxQ` bound queues; they only disable the actions that fill them.
- `VIEW Rotated`: sequence numbers enter `RlcAmDl` only as distances and by
  `AddSn`, so states that differ by a rotation of all sequence numbers behave
  alike; TLC explores one of each. The properties are about distances too.
- `sch_dl_harq`: two UEs, three processes each, two slots for feedback, two
  transmissions of a block. With fewer slots than processes a UE can run out of
  slots and not of processes, so the case of the finding `HeldIsNotFree` is left
  out. Processes and slots are symmetric; this run has no liveness property.
- `sch_live`: one UE with traffic in both directions, two processes, two slots:
  a process is in use in every slot, or all are up for retransmission. A UE without
  a free process and with a slot does not occur. No symmetry, since it checks
  liveness.
- `sch_faults`: one UE, which came by random access, two processes, one slot, every
  fault. One slot suffices for a slot's list to hold several processes after
  feedback is lost.
- `RaUe` is empty in the others: for a UE that came by random access MAC keeps
  the block of process 0 when SCH releases it (section 5).
- `du_ue`: two ids, two UEs by random access of which one is released and may come
  again, one by handover, one signalling and one data bearer, modifications that
  add and modify. A modification then adds the data bearer to a UE set up without
  it, or modifies it; the proofs hold for any set of bearers. With three UEs and two ids, a UE finds the
  cell full, and an id is used again.
- `du_ue` leaves out, each by a constant: requests of two kinds at a time with RLC's
  downlink thread (`Overlap`, run `du_ue_overlap`); a modification that stops
  transmission, and one that deletes bearers (`ModOps`, run `du_ue_delete`); two UEs
  between MSG3 and RRC Setup (`Together`); modification and release of a UE that
  came by handover. Section 5 says why.
- A bearer stands for its logical channel too. The DU application finds the channel
  of a DRB by searching all UEs (`fetchLcId`), so with DRBs numbered alike and
  channels not, a modification may name another UE's channel; MAC and SCH ignore
  one they do not have, and answer. What a deletion would do then is not modelled:
  `du_ue_delete` has one UE and one DRB, where bearer and channel agree.
- `du_ue_delete`: one UE by random access with one data bearer, deleted.

Deadlock is checked but where the system or the model may stop: the transmitter
and `sch_faults`, where undefined behaviour ends the model, and `du_ue_overlap`,
where everyone has come and nothing is asked any more.

### Fairness

The runs of RLC check safety only. The scheduler's specification assumes: slot
indications come again and again, and a UE whose turn it is is handled (weak);
feedback for a slot comes (strong, because what has arrived is handled between
slot indications, which keep interrupting); and a UE that is tried again and
again does not find PDCCH, PUCCH and PUSCH full every time (strong). Nothing in
the code makes sure of the last; a cell that is full for ever starves a UE.
`BusySpec` adds that RLC reports data and the UE asks for the uplink again and
again: without it `DlIsReleased` is false, since a UE may be taken off the list
with a retransmission pending (section 5).

For the life of a UE every thread takes its next message (weak), the deletion
timer expires, UEs answer and the CU answers a UE's first message. The timer's
fairness is strong only because, without `Overlap`, the model holds it back while
another request is with the downlink thread.

## 5. Where the code and its comments disagree

Shown by a run, each with its line in `PROJECT.json`:

- a hole at the wrap-around of an AM receiver has no reassembly timer;
- the UM receiver does not find the buffers its timer skips across the
  wrap-around, and segments of two SDUs are handed up as one;
- the scheduler releases the process of the UE it handled before when a UE has no
  free one, while MAC holds its block and its feedback is to come;
- the deletion of the bearer that the DU application has stored last reaches neither
  RLC nor MAC, since `lcIdFound` counts it as found and a bearer found is copied only
  to be modified (`du_ue_mgr.c:1418`, `:1812`); the CU is told that it is done. With
  ADD after it `AskedIsAnswered` fails as well: RLC refuses a bearer it has;
- RLC names its answer by the request that came last, so with two under way one
  is answered as the other and the CU waits for ever.

Met while modelling and in the models, without a run of their own:

- `du_ue_mgr.c:1334`: `updateDuMacUeCfg` returns for a stop of transmission before it
  sets the state of MAC's configuration; the state left from the procedure before
  lets RLC's response alone answer the CU, where `docs/overview.rst:564` has all
  layers respond first. With `ModOps = {"STOP"}`, `AnsweredWhenDone` fails.
- `rlc_amm_ul.c:1647`: an expiry looks at one buffer, whatever SN its loop has
  reached; if the trigger SN was completed meanwhile, no report is triggered.
- `rlc_amm_dl.c:881`: `nxtRetx` is reset to the head of `retxLst`, pending or not
  (`rlc_dl.h:453`), and the retransmission loop then lowers `retxBo` once too often
  (`rlc_dl.h:447`); `:2170`: after `maxRetx` it may dangle.
- `rlc_amm_dl.c:1943`: the last PDU of the queue does not poll; `:276`: the poll
  timer stops one SN early; `:2064`: `pollSn` is one too low for a polled segment.
- `sch_fcfs.c:1333`: a UE whose one direction was served leaves the list with
  other work pending. `sch_common.c:2078`: a function of type bool returns
  `RFAILED`, which is true, when there is no uplink process.
- `sch_fcfs.c:1269`: a process released by the failure branch stays in the
  feedback list of its slot. `sch_ue_mgr.c:1553`: `numHarq` is not looked at, one
  byte of feedback is read for every process of the list.
- `mac_harq_dl.c:218`: a UE that came by random access keeps the pointer to its
  MSG4 record, zeroed once MSG4 is acknowledged; the release of process 0 is taken
  for MSG4's from then on and its block stays. With `RaUe` not empty,
  `MacHoldsInUse` fails.
- `du_ue_mgr.c:1898`: `ueCcchCtxt` is filled at `numUe` and cleared anywhere, so of
  two UEs between MSG3 and RRC Setup one is forgotten. With `Together` set,
  `OneContextPerUe` fails.
- MAC never sets a UE that came by handover to active: every reconfiguration of it
  is refused (`mac_ue_mgr.c:2599`), and on deletion `numActvUe`, which did not count
  it, is lowered (`mac_ue_mgr.c:3321`) and may wrap.
- `rlc_cfg_ul.c` and `rlc_upr_inf_mgr.c`: a creation or reconfiguration that fails
  in part is not answered.

And outside the models: `rlc_umm_ul.c:191` leaves `noMissingSeg` as it was when a
segment with a gap before it arrives (in the model, without effect on the
properties); `rlc_umm_dl.c:241` takes off the occupancy only the size of a
discarded SDU, not the header counted with it; `rlc_utl_dl.c:380` reports the transmission of a
STATUS PDU of a signalling bearer as that of an RRC message; `sch_crc.c:66` gives up
MSG3 without freeing the UE's id; the ids' bitmap is read and written by MAC's and
the DU application's threads without a lock.

## 6. Proofs

Every theorem holds for all values of the constants that satisfy its
assumptions; `PROJECT.json` lists each with the property it states. Assumed in
all of them is what the modules assume of their constants: windows, SDUs and
numbers of transmissions are positive, bounds of queues are natural numbers.
Whatever else is needed is written before `PROVE`, or before the implication.

### The AM receiver

`RlcAmUl_proofs` proves that each property of the run `am_receiver` holds of
`RlcAmUl`, without a further assumption.

The properties are not inductive one by one. That the window stays ordered
needs `EdgesIncomplete` (a scan from a complete edge would run off), which needs
`BufferedInWindow` (`rxNextHighestRcvd` has no buffer, so every scan stops there);
that `rxHighestStatus` does not move back at an expiry needs `RunningTmrTrigger`;
and that one is kept when `rxHighestStatus` moves past the trigger because the SNs
it passes are complete. Together they are inductive:

    IInv == TypeOK, WindowOrder, BufferedInWindow, EdgesIncomplete,
            RunningTmrTrigger, ExpSoIsFirstGap, HoleIsTimed, TriggerIsPending

`Inductive` proves `Spec => []IInv`, one lemma per action. The step for `RcvPdu` is
split along the code: where `rxNextHighestRcvd`, `rxHighestStatus` and `rxNext` go,
each measured from the old `rxNext` (`HighestRcvdStep` and its like, `ScanStops` for
the two scans); then the change of base to the new `rxNext` (`ModSnShift`); then the
timer; then the buffers' first gaps (`PlacePduGaps`), which do not depend on the
window. `WindowSlides` and `StatusEdgeGrows` are action properties from the same
invariant.

### The AM transmitter

`RlcAmDl_proofs` proves every property of the run `am_transmitter`, without a further
assumption. The invariant speaks of the buffers as a record, `Buffers`, because the
loops of the handlers work on such a record:

    IInv == TypeOK, PeerInv, StInv(Buffers)
    StInv(st) == Shape, Full, Laminar, GotWhole, Arrived, Reached

- `Shape`: `retxLst` is in order (`RetxOrder`), and so are the PDUs of one SN in `txBuf`
  (`TxOrder`); what is being retransmitted of an SN lies below what is not
  (`RetxBelowTx`); both lie in the window (`InWin`); every unit is counted once
  (`Counts`).
- `Full`: where there is something of an SN in `txBuf`, and for the SDU being
  segmented, everything transmitted of it is.
  Without it a NACK of a segment could find PDUs in `txBuf` but not those it asks
  for, leaving `retx` unset (`rlc_amm_dl.c:528`). It does not hold between two NACKs of
  one SN; there `TxFull` and `TxPast` say what does.
- `Laminar`, `GotWhole`: what is held is a PDU as it was transmitted or a part of one,
  so the peer has all of it or nothing. That is why the bounds of a NACK never fall
  inside a PDU, and why the code may look at a PDU's last unit only
  (`rlc_amm_dl.c:434`).
- `Arrived` and `Reached` become `ReleasedArrived` and `PendingIsReachable`. `PeerInv`: what
  the peer has received was transmitted, and its window begins in the
  transmitter's.

The handler of a report nests loops: over the NACKs, and for each over `retxLst`
or over the PDUs of its SN, which both change under it. `TurnsEnd` (`DataLemmas`) turns
a loop of `n` turns into an induction; each loop has its own invariant: `LessInv`,
`NackInv`, `MoveInv`, `SegInv`, `AckInv`, and `Between` for the loop over the NACKs. They
are stated for any report that is `Truthful`: it names the maximal runs of missing
units once and in order, and acknowledges no more than was transmitted. `Nodes`
is the core of `Between`: the code's pointer into `retxLst` divides it into what the
NACKs so far are about and what lies behind them, so a loop that stops at the
first entry too high misses nothing. `Names` is then proved of the reports the peer
makes (`Report`), whose NACKs are in order (`ListedInOrder`).

That nothing is read through a dangling or unset pointer before an entry is
given up (`ReadsHeld`) follows from `NackedAwaitsRetx`'s first part and `Reached`: it is a
conjunct of `PendingIsReachable`. After an entry is given up it is false (section 5).

### Unacknowledged mode

`RlcUm_proofs` proves all properties of the run `um`, under `AcrossWrap = FALSE`:
the timer does not expire with the SNs it skips across the wrap-around. Without
it they are false (`um_wrap`); the rest of what the code does at the wrap-around,
where `rlcUmmFindRxNextReassembly` counts on without a mask, is part of the proof.

The receiver is looked at by the values that `RLC_UM_GET_VALUE` gives SNs. `Window`
says that `vrUr` is in the window below `vrUh` or at its upper edge and that no
buffer exists below `vrUr` or above the window. `FindAdvances` turns the scan with
its two loops into one statement: `vrUr` goes to a value `m`, and all buffers below
`m` are gone. `Keeps` says what a move of the window keeps: an SN that `vrUr` has
passed stays passed until it falls out of the window, and a buffer goes only when
`vrUr` passes it. `HoleIsTimed` follows from `Window` and the condition the code
tests.

`DeliveredWhole` needs the two halves together:

    UmInv == Window, the timer's trigger, HoleIsTimed, LinkTypes, Near,
             AirInv, BufInv, OwedInv, ~bad

`Near`: the receiver is at most a window behind the transmitter, and ahead only by
the SDU of which a part has been sent. `AirInv`: what is in the air is of one of the
last `WinSz` SDUs; with it `AirStaysAbove` shows that a window that moves up for one
segment leaves none of the others behind. `BufInv`: what is in a buffer is of the
last SDU with its SN. `OwedInv`: an SDU of which something is in the air is owed, or
the receiver is done with its SN. All three need the strict bound while an SDU is
half sent, which is why `Send` asks for room before an SDU's first segment only.

### The scheduler

Three theorems of `SchFcfs_proofs` hold whatever is lost or refused:
`BlockIsHeldWhileInUse`, `QueuedHasWork`, `FreeUlProcessIsUnused`. The last rests on
`UlOnePlace`: a process is in one of the free list, the retransmission list and the
lists of the slots, and in none of them twice.

The others assume that nothing is lost and no allocation fails half way; each of
these faults alone violates them (one UE, two processes, one slot; section 5).

- `UlReliable`: every CRC indication comes, no BSR is empty, PRBs suffice.
  `UlInUseIsPlaced` from it: a process in use has a place (`APlace`).
- `DlReliable`: the same of the downlink, and a UE has more processes than there are
  slots to report in. The latter holds of the code where 16 processes
  (`SCH_MAX_NUM_DL_HQ_PROC`, `sch.h`) meet the 10 slots of numerology 0, or the 20 of
  numerology 1 of which only those with uplink symbols take feedback. Two processes
  and two slots suffice to refute `DlInUseHasPlace` without it: a UE with every
  process in use then reaches the branch that frees the process of the UE before
  it. From it `ListsAreIntact` (`corrupt` is never set), `DlInUseIsPlaced` and
  `TypeCorrect`, which says that no block is sent more than `MaxTx` times.
- `RaUe = {}` as well: `MacHoldsExactlyInUse`, and `SchImplementsHarq`, that every step
  is a step of `HarqTx` or a stutter. `DlHarqInd` handles every process in the list of
  a slot; that there is exactly one (`APlace`) makes it a step of one.

The inductive invariant of the downlink, `DlInv`, says of every process that it has
one place (`DlOnePlace`) and no less (`DlAPlace`), that the reserved slots, and no
others, have one process each, and what the blocks of a process say where it is
(`DlFits`): waiting for feedback in a slot's list, NACKED with transmissions left in
the retransmission list, released in the free list. A UE with neither a free process
nor one to retransmit would have each of its processes alone in a slot
(`FreeOrRetx`), which `DlReliable` excludes by the pigeonhole principle.

Lists are sequences without duplicates; what adding at the tail and taking out of
the middle does to their members is in `DataLemmas`. The library's induction
theorems take an operator as a parameter, which the provers cannot instantiate;
it states induction, and the existence of a function defined by recursion,
about sets of natural numbers instead.

### The life of a UE

`DuUe_proofs` proves each invariant of the run `du_ue`, for any number of UEs, ids
and bearers, under `OneByOne`, which says in a formula what that run leaves out
(section 4): RLC is asked for one kind of thing at a time, UEs come one after the
other, the CU does not stop transmission, and it releases no UE that came by handover.
Without one of the first three the code breaks a promise (section 5); the fourth
is a use that MAC does not support, as it never makes such a UE active. The CU may
add, modify and delete bearers; of a deletion the layers hear what `Conveyed` says.
`MacActvUesAreCountedAlways` and `TypeCorrect` also assume that there are no more UEs
than MAC's 16-bit counter holds; `MAX_NUM_UE` is 3 (`common_def.h:62`).

None of the properties is inductive. Whether a table may still have something of
a UE depends on where the UE is in its life and on which of its messages are in
which of seven queues between the DU application, the two RLC threads and MAC, or
with RLC's deletion timer. The inductive invariant says just that:

    Core == Types, Queues, Events, Ccch, Owners, Lives, ~nullDb
    DuInv == Core, ActvUesAreCounted

`Lives` gives, for each phase in which the CU sees a UE (`Connecting`, `Asked`, ...),
what there is of it in the DU application, RLC, MAC and SCH, and for an id without an
owner that there is nothing (`Unused`). Its messages are looked at as tokens: where a
message is, its event, and whether it reports success (`InRlc`, `InMac`). `Owners`:
an id taken belongs to one UE. `Queues`: no queue has the same event of a UE
twice, and of a UE's messages to the DU application the response to its creation
comes before all others, its first RRC message after all others; the responses
that arrive late depend on it. `Events` says that RLC's `rlcUlUdxEventType` is the event
of every request between its two threads, which is what `Overlap = FALSE` buys.
`Ccch`: at most one UE is between its CCCH message and its RRC Setup.

A step concerns one UE. `Frame` and `UnusedFrame` keep the others as they are, and
Lemmas about queues say which tokens a step removes and adds; there is one lemma per action
(`MacUeDeleteReqKeeps` and the like) for the UE concerned. For the counters the
case to be excluded is a step that changes a UE's state without the counter: the
context is a new one when a UE is set up (`RrcSetupCount`), with room for it
(`RoomForOne`), MAC makes a UE active once (`MacCreateCount`), and deletes it only
if it had counted it (`MacDeleteCount`).

`DuUeLife_proofs` proves that `DuUe` implements `UeLife` (`LifeIsKeptAlways`), under
`OneByOne` and `NoDeletion`: the CU adds bearers and modifies them, and deletes none
until it releases the UE. Without `NoDeletion` it is false (`du_ue_delete`). The refinement mapping is that of `Life` in `DuUe`: what is wanted of an
id is what the CU last asked for, what a part has is what its table has. `DuInv`
says which messages there are, not what bearers they carry; `Bearers` adds that,
for the bearers `w` that the CU wants of a UE:

- `RlcReqs`, `MacReqs`: a request under way, or one that only one thread of RLC has
  carried out, turns what the table has now into `w` (`Gives`: ADD of bearers that
  are not there, MODIFY of some that are). So the step that applies it is `Apply`.
- `RlcDone`, `MacDone`: once its requests are no longer under way, the part has `w`.
  So the response that lets the CU be answered is `Answer`.
- `RrcFirst`: while the UE is told before its layers are, what the DU application
  keeps turns what the layers have into `w`.

A UE enters with an id that is free, and `FreeIdIsUnused` is why nothing is left in
any part. The lemmas `Enters`, `Asks`, `Applies`, `Answers` and `Idles` say what a step
must do to be one of `UeLife`'s, `BearersHold` and `BearersMove` what keeps `Bearers` of
the other UEs; there is one lemma per action (`MacUeReconfigReqBears` and the like).

### Only model-checked

Liveness (`AskedIsGranted`, `DlIsReleased`, `AskedIsAnswered`): it rests on fairness and
ENABLED, which are outside what TLAPS proves. The properties that runs refute are
false of the code (section 5).

## 7. Not modelled

- AM receiver: header parsing, NACK ranges and the length of a report, freeing the
  entity, statistics. AM transmitter: NACK ranges, `pollByte` (infinite), building
  and sending of status PDUs (`cntrlBo`), header sizes, deferred freeing except that
  a freed entry must not be used, the confirmations as messages.
- UM: header coding, buffer occupancy and sizes of grants, the memory threshold,
  freeing the entity. TM: it has no state but a queue.
- RLC configuration: the parameters of bearers, re-establishment and change of UE
  id as configuration requests.
- Scheduler: which resource blocks, code words, K0, K1 and K2 a grant gets; the
  slice-based scheduler; broadcast, paging, measurement gaps, DRX; the processes
  of MSG3 and MSG4.
- Random access and contexts: the RAR window, MSG3 and MSG4 that fail, parameters.
- MAC: multiplexing and demultiplexing, slot indications but for what concerns the
  blocks, configuration of cells and slices, statistics.
- DU application: F1 and cell setup, F1 reset, configuration of a UE's parameters,
  tunnels, paging, slices.
- The lower MAC's state machine and the E2 agent: later steps of the plan.
- O1, EGTP and SCTP are I/O, the codecs are generated, the stubs are not part of
  the DU; the common library and the system services are used through their
  contracts: messages between two threads arrive in order, and a handler runs to
  its end.
- Memory that cannot be had, everywhere.
