---------------------------- MODULE LinkService ----------------------------
(***************************************************************************)
(* What the reliability layer promises its user: transfers are made one at *)
(* a time; the receiver acts on a frame at most once; and a transfer the   *)
(* sender was told is acknowledged has been acted on.  A frame whose       *)
(* transfer was given up may still be acted on, late, or never.            *)
(***************************************************************************)
EXTENDS Integers

CONSTANTS
    LastTransfer,  \* bound: transfers are numbered 0 .. LastTransfer
    Late           \* how many transfers a frame can be late by

VARIABLES
    transfer,  \* the transfer under way or last made, -1 before the first
    status,    \* "none", "sending", "acked" or "gave_up"
    acted,     \* the frames acted on, as far back as one can still arrive
    actions    \* how many times the receiver has acted

vars == <<transfer, status, acted, actions>>

Init ==
    /\ transfer = -1
    /\ status = "none"
    /\ acted = {}
    /\ actions = 0

Begin ==
    /\ status # "sending"
    /\ transfer < LastTransfer
    /\ transfer' = transfer + 1
    /\ status' = "sending"
    /\ acted' = {id \in acted : id > transfer' - Late}
    /\ UNCHANGED actions

Act ==
    /\ \E id \in 0 .. transfer :
         /\ id > transfer - Late
         /\ id \notin acted
         /\ acted' = acted \cup {id}
    /\ actions' = actions + 1
    /\ UNCHANGED <<transfer, status>>

Acknowledge ==
    /\ status = "sending"
    /\ transfer \in acted
    /\ status' = "acked"
    /\ UNCHANGED <<transfer, acted, actions>>

GiveUp ==
    /\ status = "sending"
    /\ status' = "gave_up"
    /\ UNCHANGED <<transfer, acted, actions>>

Next == Begin \/ Act \/ Acknowledge \/ GiveUp

Spec == Init /\ [][Next]_vars
=============================================================================
