------------------------------ MODULE HarqTx ------------------------------
(***************************************************************************)
(* What HARQ promises of the transport blocks of one direction: a block is *)
(* transmitted, transmitted again after each failure up to MaxTx times,    *)
(* and given up only when it was acknowledged or when its last try failed. *)
(* A copy of it is held for exactly as long.                               *)
(***************************************************************************)
EXTENDS Naturals

CONSTANTS
    Id,         \* HARQ processes
    MaxTx       \* transmissions of a block

VARIABLES
    st,         \* per process: "idle", "sent" or "failed"
    tx,         \* per process: transmissions of its block so far
    held        \* processes whose block is stored for retransmission

vars == <<st, tx, held>>

Init ==
    /\ st = [p \in Id |-> "idle"]
    /\ tx = [p \in Id |-> 0]
    /\ held = {}

Send(p) ==
    /\ st[p] = "idle"
    /\ p \notin held
    /\ st' = [st EXCEPT ![p] = "sent"]
    /\ tx' = [tx EXCEPT ![p] = 1]
    /\ held' = held \union {p}

\* The block was received, or failed for the last time.
Finish(p) ==
    /\ st[p] = "sent"
    /\ st' = [st EXCEPT ![p] = "idle"]
    /\ tx' = [tx EXCEPT ![p] = 0]
    /\ held' = held \ {p}

Fail(p) ==
    /\ st[p] = "sent"
    /\ tx[p] < MaxTx
    /\ st' = [st EXCEPT ![p] = "failed"]
    /\ UNCHANGED <<tx, held>>

Resend(p) ==
    /\ st[p] = "failed"
    /\ p \in held
    /\ st' = [st EXCEPT ![p] = "sent"]
    /\ tx' = [tx EXCEPT ![p] = @ + 1]
    /\ UNCHANGED held

Next == \E p \in Id : Send(p) \/ Finish(p) \/ Fail(p) \/ Resend(p)

Spec == Init /\ [][Next]_vars

=============================================================================
