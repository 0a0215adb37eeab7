---------------------------- MODULE ConfigStore ----------------------------
(***************************************************************************)
(* The node's A/B configuration store, firmware/node/src/config_store.cpp. *)
(*                                                                         *)
(* Each NVS put is a step of its own: the node may lose power between any  *)
(* two of them, RAM is lost and NVS is not.  A put of a kind in Failing    *)
(* may also leave its key as it was (its namespace does not open, or the   *)
(* flash is full); the code looks at the outcome of the blob's put only.   *)
(***************************************************************************)
CONSTANTS
    Configs,   \* validated configurations, as blobs
    NoConfig,  \* an empty blob key
    Failing    \* the kinds of put that may fail: "status", "meta"

ASSUME ConfigStoreAssumption ==
    /\ NoConfig \notin Configs
    /\ Failing \subseteq {"status", "meta"}

Slots    == {"A", "B"}
Statuses == {"INACTIVE", "STAGING", "ACTIVE"}

VARIABLES
    blob,        \* NVS: the blob key of each slot's namespace
    status,      \* NVS: the status key of each slot's namespace
    activeSlot   \* NVS: the active_slot key of the meta namespace

VARIABLES
    at,          \* where the node is: powered off, between calls, or which
                 \* put of stageConfig or promoteStagedToActive is next
    active_,     \* RAM: active_
    hasStaged    \* RAM: has_staged_

nvs  == <<blob, status, activeSlot>>
storeVars == <<nvs, at, active_, hasStaged>>

\* Mutant: the new configuration is written where the old one is.
InPlace(slot) == slot

Inactive(slot) == IF slot = "A" THEN "B" ELSE "A"

\* staged_ is always the slot active_ does not name.
staged == Inactive(active_)

\* A factory-fresh flash: getUChar answers INACTIVE and A for missing keys.
StoreInit ==
    /\ blob = [s \in Slots |-> NoConfig]
    /\ status = [s \in Slots |-> "INACTIVE"]
    /\ activeSlot = "A"
    /\ at = "off"
    /\ active_ = "A"
    /\ hasStaged = FALSE

-----------------------------------------------------------------------------
\* A put of that kind: written, or lost without anyone noticing.
Put(kind, written, lost) == written \/ (kind \in Failing /\ lost)

PutStatus(slot, value) ==
    Put("status", status' = [status EXCEPT ![slot] = value], UNCHANGED status)

\* Mutant: begin() leaves the member initialisers in place.
BeginWithDefaults ==
    /\ at = "off"
    /\ at' = "idle"
    /\ active_' = "A"
    /\ hasStaged' = FALSE
    /\ UNCHANGED nvs

\* begin(): the only place that reads which slot is active.  setup() goes on when
\* the meta namespace does not open, with the member initialisers.
Begin ==
    /\ at = "off"
    /\ at' = "idle"
    /\ active_' = activeSlot \/ ("meta" \in Failing /\ active_' = "A")
    /\ hasStaged' = FALSE
    /\ UNCHANGED nvs

\* stageConfig(data): the blob first; had that put failed, the call would
\* return false and leave no trace.
StageBlob(c) ==
    /\ at = "idle"
    /\ at' = "stage status"
    /\ blob' = [blob EXCEPT ![staged] = c]
    /\ UNCHANGED <<status, activeSlot, active_, hasStaged>>

StageStatus ==
    /\ at = "stage status"
    /\ at' = "idle"
    /\ PutStatus(staged, "STAGING")
    /\ hasStaged' = TRUE
    /\ UNCHANGED <<blob, activeSlot, active_>>

\* promoteStagedToActive(): mark the new slot, demote the old one, then switch.
PromoteNew ==
    /\ at = "idle"
    /\ hasStaged
    /\ at' = "demote old"
    /\ PutStatus(staged, "ACTIVE")
    /\ UNCHANGED <<blob, activeSlot, active_, hasStaged>>

DemoteOld ==
    /\ at = "demote old"
    /\ at' = "switch"
    /\ PutStatus(active_, "INACTIVE")
    /\ UNCHANGED <<blob, activeSlot, active_, hasStaged>>

\* Mutant: has_staged_ outlives the promotion.
SwitchKeepingStaged ==
    /\ at = "switch"
    /\ at' = "idle"
    /\ Put("meta", activeSlot' = staged, UNCHANGED activeSlot)
    /\ active_' = staged
    /\ UNCHANGED <<blob, status, hasStaged>>

\* The switch in RAM happens whether or not the meta key was written.
Switch ==
    /\ at = "switch"
    /\ at' = "idle"
    /\ Put("meta", activeSlot' = staged, UNCHANGED activeSlot)
    /\ active_' = staged
    /\ hasStaged' = FALSE
    /\ UNCHANGED <<blob, status>>

\* Brownout, watchdog or panic: at any point, also between two puts.
Crash ==
    /\ at # "off"
    /\ at' = "off"
    /\ active_' = "A"
    /\ hasStaged' = FALSE
    /\ UNCHANGED nvs

StoreNext ==
    \/ Begin
    \/ \E c \in Configs : StageBlob(c)
    \/ StageStatus
    \/ PromoteNew
    \/ DemoteOld
    \/ Switch
    \/ Crash

StoreSpec == StoreInit /\ [][StoreNext]_storeVars

-----------------------------------------------------------------------------
StoreTypeOK ==
    /\ blob \in [Slots -> Configs \cup {NoConfig}]
    /\ status \in [Slots -> Statuses]
    /\ activeSlot \in Slots
    /\ at \in {"off", "idle", "stage status", "demote old", "switch"}
    /\ active_ \in Slots
    /\ hasStaged \in BOOLEAN

\* config_store.h:12-14: "the active slot is never overwritten in place".  A
\* configuration the next boot would load stays as it is through every step.
ActiveSlotKept ==
    [][blob[activeSlot] # NoConfig => blob'[activeSlot] = blob[activeSlot]]_storeVars

\* Why: between boots RAM and NVS name the same slot, and what has_staged_
\* announces is there to be promoted.
RamAgreesWithNvs ==
    /\ at # "off" => active_ = activeSlot
    /\ at = "off" => ~hasStaged
    /\ at \in {"demote old", "switch"} => hasStaged
    /\ hasStaged \/ at = "stage status" => blob[staged] # NoConfig

\* The two slots, three puts and a RAM flag behave as one atomic cell: a crash
\* anywhere leaves either the old configuration or the new one, whole.
Cell == INSTANCE ConfigCell WITH
            current <- blob[activeSlot],
            pending <- IF hasStaged THEN blob[staged] ELSE NoConfig
ImplementsCell == Cell!Spec
=============================================================================
