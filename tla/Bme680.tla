------------------------------- MODULE Bme680 -------------------------------
(***************************************************************************)
(* The BME680 driver of firmware/common/src/bme680.c below the dispatch,   *)
(* and the chip it talks to.  A conversion is known by its number: a value *)
(* read from the chip's registers is the conversion it comes from, and the *)
(* compensation is the conversion whose temperature it corrected by.       *)
(***************************************************************************)
EXTENDS Integers

CONSTANTS
    BmeSlots,  \* LH_BME680_MAX_INSTANCES
    Wired      \* the addresses at which the chip is a BME680

ASSUME Bme680Assumption == BmeSlots \in Nat \ {0}

-----------------------------------------------------------------------------
\* The chip.  In forced mode it measures the environment, then the gas, and
\* goes back to sleep; it has new data from the first on.  A conversion
\* that is stopped is given up.  run counts the conversions begun.

NewChip == [phase |-> "sleep", newData |-> FALSE, run |-> 0, env |-> 0, gas |-> 0]

Triggered(chip)   == [chip EXCEPT !.phase = "measuring", !.newData = FALSE, !.run = @ + 1]
EnvMeasured(chip) == [chip EXCEPT !.phase = "gas_measuring", !.newData = TRUE, !.env = chip.run]
GasMeasured(chip) == [chip EXCEPT !.phase = "sleep", !.gas = chip.run]
Stopped(chip)     ==
    [chip EXCEPT !.phase = "sleep", !.newData = (@ /\ chip.phase = "sleep")]
ChipReset(chip)   == [chip EXCEPT !.phase = "sleep", !.newData = FALSE]

-----------------------------------------------------------------------------
\* g_instances, by slot.

NoSample    == [env |-> 0, tFine |-> 0, gas |-> 0]
FreeSlot    == [inUse |-> FALSE, addr |-> "none", have |-> FALSE, sample |-> NoSample]
Table       == 0 .. BmeSlots - 1
NoInstances == [s \in Table |-> FreeSlot]

FreeSlots(table) == {s \in Table : ~table[s].inUse}

\* The first free one.
SlotFor(table) ==
    IF FreeSlots(table) = {} THEN BmeSlots
    ELSE CHOOSE s \in FreeSlots(table) : \A t \in FreeSlots(table) : s <= t

\* Mutant: a failed init keeps the slot.
ReleaseNot(table, slot) == table
Release(table, slot)    == [table EXCEPT ![slot].inUse = FALSE]

\* bme680_init.  bus is the call the bus fails, or "well".  A probe that is
\* answered by another chip is ERR_RANGE, a full table ERR_STATE, and the
\* table and the chip keep what was written before the failure: "reset" is a
\* reset the chip did not hear; one it heard and did not acknowledge ends as
\* "configure" does.
BusFails == {"probe", "reset", "configure", "well"}

InitAnswer(table, addr, bus) ==
    CASE bus = "probe"                         -> "ERR_BUS"
      [] bus # "probe" /\ addr \notin Wired    -> "ERR_RANGE"
      [] bus # "probe" /\ addr \in Wired       ->
           CASE SlotFor(table) = BmeSlots      -> "ERR_STATE"
             [] SlotFor(table) # BmeSlots      -> IF bus = "well" THEN "OK" ELSE "ERR_BUS"

\* The slot is only claimed by an init that comes as far as the soft reset.
Claims(table, addr, bus) == bus # "probe" /\ addr \in Wired /\ SlotFor(table) # BmeSlots

Claimed(table, addr, bus) ==
    LET taken == [table EXCEPT ![SlotFor(table)] = [FreeSlot EXCEPT !.inUse = TRUE, !.addr = addr]]
    IN CASE ~Claims(table, addr, bus)                  -> table
         [] Claims(table, addr, bus) /\ bus = "well"   -> taken
         [] Claims(table, addr, bus) /\ bus # "well"   -> Release(taken, SlotFor(table))

ChipInit(table, addr, bus, chip) ==
    IF Claims(table, addr, bus) /\ bus # "reset" THEN ChipReset(chip) ELSE chip

\* instance_of: a context owns what its scratch names, if that is in use.
Owns(table, slot) == table[slot].inUse

-----------------------------------------------------------------------------
\* bme680_start_read.  Mutant: the sample of the last measurement stays.
StartedKeeping(inst) == inst
StartedReading(inst) == [inst EXCEPT !.have = FALSE]

\* The four lh_bme680_compensate functions, as which conversion each value is
\* made from: the temperature leaves t_fine, by which the pressure and the
\* humidity of the same registers are corrected; the gas has its own register.
Compensated(chip) == [env |-> chip.env, tFine |-> chip.env, gas |-> chip.gas]

\* collect.  The quality of the gas reading, which is the chip's word, is left out.
Collected(inst, chip) ==
    [inst EXCEPT !.have = TRUE, !.sample = Compensated(chip)]

\* bme680_poll: both bits, as the gas is measured after the rest.
\* Mutant: only the first.
MeasuringEnv(chip) == chip.phase = "measuring"
Measuring(chip)    == chip.phase \in {"measuring", "gas_measuring"}

\* A poll may find the bus failing in any of its reads, unless it has a sample.
PollAnswerOf(inst, chip, bus) ==
    CASE inst.have                            -> "OK"
      [] ~inst.have /\ bus = "status"         -> "ERR"
      [] ~inst.have /\ bus # "status"         ->
           CASE Measuring(chip) \/ ~chip.newData -> "NOT_READY"
             [] ~(Measuring(chip) \/ ~chip.newData) -> IF bus = "well" THEN "OK" ELSE "ERR"

\* bme680_sleep, when both writes went through.
SleptInstance(inst) == [inst EXCEPT !.have = FALSE]
=============================================================================
