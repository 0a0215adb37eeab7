----------------------------- MODULE ConfigCell -----------------------------
(***************************************************************************)
(* What the node's config store promises (config_store.h, ARCHITECTURE.md  *)
(* section 4): one working configuration that is only ever replaced, in    *)
(* one step, by the one that was staged last.  A crash loses what was      *)
(* staged and nothing else.                                                *)
(***************************************************************************)
CONSTANTS Configs, NoConfig

VARIABLES
    current,  \* what the next boot loads
    pending   \* what a promotion would make current

vars == <<current, pending>>

Init == current = NoConfig /\ pending = NoConfig

Stage(c) == pending' = c /\ UNCHANGED current

Commit ==
    /\ pending # NoConfig
    /\ current' = pending
    /\ pending' = NoConfig

Lose == pending' = NoConfig /\ UNCHANGED current

Next == (\E c \in Configs : Stage(c)) \/ Commit \/ Lose

Spec == Init /\ [][Next]_vars
=============================================================================
