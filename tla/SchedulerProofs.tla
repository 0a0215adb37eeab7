-------------------------- MODULE SchedulerProofs --------------------------
(***************************************************************************)
(* Proofs about Scheduler, for any number and kind of components, any time *)
(* between ticks and any answers of the drivers: types, when a component   *)
(* is retired, that nothing is measured cold, and how far apart the errors *)
(* of a component are.  All three rest on one invariant, which says of     *)
(* each slot how what the code keeps relates to what has happened.         *)
(***************************************************************************)
EXTENDS Scheduler, ModularArithmetic, FiniteSetTheorems, TLAPS

-----------------------------------------------------------------------------
(* The invariant, by slot.                                                 *)

\* The errors of a context are the strikes against its component, and it is
\* faulted when they are as many as the threshold.
Counted(c, k) ==
    /\ c.errors = k
    /\ c.state = "FAULTED" <=> k = FaultThreshold

\* A warming component has been powered for as long as its clock says; one that
\* is past its warmup has been powered for all of it.
Warmed(vt, c, a) ==
    /\ c.state = "WARMUP" => a >= vt.warmup \/ a >= c.since
    /\ c.state \in {"IDLE", "READING", "READY"} => a >= vt.warmup

\* What is left of the interval after the time since the last error is at most
\* what is left until the component is due.  An empty slot has had no error.
Spaced(vt, c, d, r) ==
    /\ d + r >= vt.interval
    /\ c.state = "EMPTY" => r >= vt.interval

SlotsInv ==
    \A s \in Slots :
      /\ Counted(comp[s], strikes[s])
      /\ Warmed(Vtables[s], comp[s], awake[s])
      /\ Spaced(Vtables[s], comp[s], due[s], rested[s])

IInv == TypeOK /\ SlotsInv

-----------------------------------------------------------------------------
(* What the assumptions say.                                               *)

\* The slots are numbered from 0, and there is one.
LEMMA SlotsAre ==
    /\ Cardinality(Slots) \in Nat \ {0}
    /\ Slots = 0 .. Cardinality(Slots) - 1
<1>1. Cardinality(Slots) \in Nat /\ Cardinality(Slots) # 0
  BY SchedulerAssumption, FS_CardinalityType, FS_EmptySet
<1> QED BY <1>1, SchedulerAssumption

\* A vtable has a warmup, an interval, a channel, and a deadline no shorter than
\* its warmup (lh_driver_op_timeout_ms).
LEMMA VtableIs ==
    ASSUME NEW s \in Slots
    PROVE  /\ Vtables[s].warmup \in Nat
           /\ Vtables[s].interval \in Nat
           /\ Vtables[s].channels \in Nat \ {0}
           /\ OpTimeout(Vtables[s]) \in Nat
           /\ Vtables[s].warmup <= OpTimeout(Vtables[s])
<1> DEFINE w == Vtables[s].warmup
<1>1. /\ w \in Nat
      /\ Vtables[s].interval \in Nat
      /\ Vtables[s].channels \in Nat \ {0}
  BY SchedulerAssumption
<1>2. w * TimeoutFactor \in Nat /\ w <= w * TimeoutFactor
  <2> HIDE DEF w
  <2>1. (TimeoutFactor - 1) \in Nat /\ TimeoutFactor \in Nat
    BY DriverAssumption
  <2>2. w * (TimeoutFactor - 1) \in Nat
    BY <1>1, <2>1
  <2>3. w * TimeoutFactor = w * (TimeoutFactor - 1) + w
    BY <1>1, <2>1
  <2> QED BY <1>1, <2>2, <2>3
<1> QED BY <1>1, <1>2, DriverAssumption DEF OpTimeout

-----------------------------------------------------------------------------
(* What each call of the dispatch does to a context.                       *)

Contexts == [state : DriverStates, errors : Nat, since : Nat]

\* A context of a slot that has neither faulted nor is empty.
InService(c) == c.state \in {"WARMUP", "IDLE", "READING", "READY", "SLEEPING"}

\* fail(): one more error, and the state stays unless it was the last.
LEMMA FailIs ==
    ASSUME NEW c \in Contexts
    PROVE  /\ Fail(c) \in Contexts
           /\ Fail(c).errors = c.errors + 1
           /\ Fail(c).since = c.since
           /\ Fail(c).state = IF c.errors + 1 >= FaultThreshold THEN "FAULTED" ELSE c.state
<1> DEFINE n == c.errors + 1
           new == IF n >= FaultThreshold THEN "FAULTED" ELSE c.state
<1>1. n \in Nat /\ new \in DriverStates
  BY DEF Contexts, DriverStates
<1>2. Fail(c) = [c EXCEPT !.errors = n, !.state = new]
  BY DEF Fail, Contexts
<1>3. c.errors + 1 = n /\ (IF c.errors + 1 >= FaultThreshold THEN "FAULTED" ELSE c.state) = new
  OBVIOUS
<1> HIDE DEF n, new
<1>4. /\ Fail(c) \in Contexts
      /\ Fail(c).errors = n
      /\ Fail(c).since = c.since
      /\ Fail(c).state = new
  BY <1>1, <1>2 DEF Contexts
<1> QED BY <1>3, <1>4

\* lh_driver_start_read sets the clock, and what it leaves is a measurement, or
\* an error of a component at rest.
LEMMA IdledIs ==
    ASSUME NEW c \in Contexts
    PROVE  /\ Idled(c) \in Contexts
           /\ Idled(c).errors = c.errors
           /\ Idled(c).since = 0
           /\ Idled(c).state = IF c.state \in {"WARMUP", "SLEEPING"} THEN "IDLE" ELSE c.state
BY DEF Idled, Contexts, DriverStates

\* An accepted start.
LEMMA StartedOkIs ==
    ASSUME NEW c \in Contexts
    PROVE  /\ Started(c, "OK") \in Contexts
           /\ Started(c, "OK").errors = c.errors
           /\ Started(c, "OK").since = 0
           /\ Started(c, "OK").state = "READING"
<1>1. Started(c, "OK") = [Idled(c) EXCEPT !.state = "READING"]
  BY DEF Started
<1> QED BY <1>1, IdledIs DEF Contexts, DriverStates

\* A refused start.
LEMMA StartedErrIs ==
    ASSUME NEW c \in Contexts
    PROVE  /\ Started(c, "ERR") \in Contexts
           /\ Started(c, "ERR").errors = c.errors + 1
           /\ Started(c, "ERR").since = 0
           /\ Started(c, "ERR").state = IF c.errors + 1 >= FaultThreshold THEN "FAULTED"
                                        ELSE Idled(c).state
<1>1. Started(c, "ERR") = Fail(Idled(c))
  BY DEF Started
<1> QED BY <1>1, IdledIs, FailIs

\* lh_driver_poll, when the driver failed or the deadline is over.
LEMMA PolledErrIs ==
    ASSUME NEW c \in Contexts
    PROVE  /\ Polled(c, "ERR") \in Contexts
           /\ Polled(c, "ERR").errors = c.errors + 1
           /\ Polled(c, "ERR").since = c.since
           /\ Polled(c, "ERR").state = IF Fail(c).state = "FAULTED" THEN "FAULTED" ELSE "IDLE"
<1>1. Polled(c, "ERR") = [Fail(c) EXCEPT !.state = IF @ = "FAULTED" THEN @ ELSE "IDLE"]
  BY DEF Polled
<1> QED BY <1>1, FailIs DEF Contexts, DriverStates

\* A channel that was read.
LEMMA PolledOkIs ==
    ASSUME NEW c \in Contexts
    PROVE  /\ Polled(c, "OK") \in Contexts
           /\ Polled(c, "OK").errors = 0
           /\ Polled(c, "OK").since = c.since
           /\ Polled(c, "OK").state = "READY"
<1>1. Polled(c, "OK") = [c EXCEPT !.state = "READY", !.errors = 0]
  BY DEF Polled
<1>2. "READY" \in DriverStates /\ 0 \in Nat
  BY DEF DriverStates
<1> QED BY <1>1, <1>2 DEF Contexts

\* lh_driver_sleep
LEMMA SleptIs ==
    ASSUME NEW c \in Contexts
    PROVE  /\ Slept(c, "OK") \in Contexts
           /\ Slept(c, "OK").errors = c.errors
           /\ Slept(c, "OK").since = c.since
           /\ Slept(c, "OK").state = "SLEEPING"
           /\ Slept(c, "ERR") = Fail(c)
BY DEF Slept, Contexts, DriverStates

\* Waking up.
LEMMA WokenIs ==
    ASSUME NEW c \in Contexts
    PROVE  /\ Woken(c) \in Contexts
           /\ Woken(c).errors = c.errors
           /\ Woken(c).since = 0
           /\ Woken(c).state = "WARMUP"
BY DEF Woken, Contexts, DriverStates

-----------------------------------------------------------------------------
(* The invariant again, with everything about one slot together.           *)

Shape ==
    /\ comp \in [Slots -> Contexts]
    /\ due \in [Slots -> Nat] /\ cursor \in [Slots -> Nat] /\ strikes \in [Slots -> Nat]
    /\ awake \in [Slots -> Nat] /\ rested \in [Slots -> Nat]
    /\ collected \in [Slots -> SUBSET Nat] /\ repeated \subseteq Slots

Loop ==
    /\ count \in 0 .. Cardinality(Slots)
    /\ turn \in 0 .. count
    /\ rotation \in 0 .. Cardinality(Slots) - 1
    /\ commands \in 0 .. MaxCommands

SlotInv(s) ==
    /\ comp[s].errors <= FaultThreshold
    /\ comp[s].since <= OpTimeout(Vtables[s]) + 1
    /\ comp[s].state = "EMPTY" <=> s >= count
    /\ due[s] <= Vtables[s].interval
    /\ cursor[s] < Vtables[s].channels
    /\ awake[s] <= Vtables[s].warmup
    /\ rested[s] <= Vtables[s].interval
    /\ Counted(comp[s], strikes[s])
    /\ Warmed(Vtables[s], comp[s], awake[s])
    /\ Spaced(Vtables[s], comp[s], due[s], rested[s])

Slotwise == \A s \in Slots : SlotInv(s)

\* The two forms say the same.
LEMMA Parts == IInv <=> Shape /\ Loop /\ Slotwise
<1> USE DEF Slotwise
<1>1. ASSUME NEW s \in Slots, comp[s] \in Contexts
      PROVE  comp[s] \in Context(Vtables[s]) <=>
               comp[s].errors <= FaultThreshold /\ comp[s].since <= OpTimeout(Vtables[s]) + 1
  <2>1. OpTimeout(Vtables[s]) \in Nat /\ FaultThreshold \in Nat
    BY VtableIs, DriverAssumption
  <2> QED BY <1>1, <2>1 DEF Contexts, Context
<1>2. Shape => \A s \in Slots : comp[s] \in Contexts
  BY DEF Shape
<1>3. IInv => Shape /\ Loop
  BY DEF IInv, TypeOK, Shape, Loop, Contexts
<1>4. ASSUME IInv, NEW s \in Slots PROVE SlotInv(s)
  BY <1>1, <1>2, <1>3, <1>4 DEF IInv, TypeOK, SlotsInv, SlotInv
<1>5. ASSUME Shape, Loop, \A s \in Slots : SlotInv(s) PROVE IInv
  <2>1. \A s \in Slots : comp[s] \in Context(Vtables[s])
    BY <1>1, <1>2, <1>5 DEF SlotInv
  <2>2. SlotsInv
    BY <1>5 DEF SlotsInv, SlotInv
  <2>3. TypeOK
    BY <1>5, <2>1 DEF TypeOK, Shape, Loop, SlotInv, Contexts
  <2> QED BY <2>2, <2>3 DEF IInv
<1> QED BY <1>3, <1>4, <1>5

\* The same decomposition after a step.
LEMMA PartsNext == IInv' <=> Shape' /\ Loop' /\ Slotwise'
BY Parts, PTL

\* A slot of which nothing changes keeps its invariant.
LEMMA Undisturbed ==
    ASSUME NEW s \in Slots, SlotInv(s),
           comp'[s] = comp[s], strikes'[s] = strikes[s], due'[s] = due[s],
           cursor'[s] = cursor[s], awake'[s] = awake[s], rested'[s] = rested[s],
           s >= count <=> s >= count'
    PROVE  SlotInv(s)'
BY DEF SlotInv

-----------------------------------------------------------------------------
(* One turn of the loop, by what it does.                                  *)

\* What a slot is known to be when it can step.
LEMMA SteppingSlot ==
    ASSUME IInv, NEW s \in Slots
    PROVE  /\ Shape /\ SlotInv(s)
           /\ comp[s] \in Contexts
           /\ comp[s].errors \in Nat /\ comp[s].since \in Nat /\ comp[s].state \in DriverStates
           /\ {due[s], cursor[s], strikes[s], awake[s], rested[s]} \subseteq Nat
           /\ FaultThreshold \in Nat \ {0}
<1>1. Shape /\ SlotInv(s)
  BY Parts DEF Slotwise
<1> QED BY <1>1, DriverAssumption DEF Shape, Contexts

\* Skipping, and warming that goes on, change no slot.
LEMMA StepSkipsKeeps ==
    ASSUME IInv, NEW s \in Slots, UNCHANGED count, StepSkips(s)
    PROVE  Shape' /\ \A t \in Slots : SlotInv(t)'
<1>1. Shape /\ \A t \in Slots : SlotInv(t)
  BY Parts DEF Slotwise
<1>2. UNCHANGED <<comp, due, cursor, strikes, awake, rested, collected, repeated>>
  BY DEF StepSkips, ghostVars
<1>3. Shape'
  BY <1>1, <1>2 DEF Shape
<1>4. ASSUME NEW t \in Slots PROVE SlotInv(t)'
  BY <1>1, <1>2, Undisturbed
<1> QED BY <1>3, <1>4

\* A component wakes up to warm: its clock is as far as its power, at nothing.
LEMMA StepWarmsKeeps ==
    ASSUME IInv, NEW s \in Slots, UNCHANGED count, StepWarms(s)
    PROVE  Shape' /\ \A t \in Slots : SlotInv(t)'
<1>1. Shape /\ \A t \in Slots : SlotInv(t)
  BY Parts DEF Slotwise
<1>2. UNCHANGED <<due, cursor, strikes, awake, rested, collected, repeated>>
  BY DEF StepWarms, ghostVars
<1>3. CASE UNCHANGED comp
  <2>1. Shape'
    BY <1>1, <1>2, <1>3 DEF Shape
  <2>2. ASSUME NEW t \in Slots PROVE SlotInv(t)'
    BY <1>1, <1>2, <1>3, Undisturbed
  <2> QED BY <2>1, <2>2
<1>4. CASE Wakes(Vtables[s], comp[s]) /\ comp' = [comp EXCEPT ![s] = Woken(@)]
  <2>1. /\ comp'[s] = Woken(comp[s]) /\ comp' \in [Slots -> Contexts]
        /\ \A t \in Slots \ {s} : comp'[t] = comp[t]
    BY <1>1, <1>4, WokenIs DEF Shape
  <2>2. Shape'
    BY <1>1, <1>2, <2>1 DEF Shape
  <2>3. ASSUME NEW t \in Slots, t # s PROVE SlotInv(t)'
    BY <1>1, <1>2, <2>1, <2>3, Undisturbed
  <2>4. /\ comp'[s].errors = comp[s].errors
        /\ comp'[s].since = 0
        /\ comp'[s].state = "WARMUP"
    BY <2>1, SteppingSlot, WokenIs
  <2>5. comp[s].state = "SLEEPING"
    BY <1>4 DEF Wakes
  <2>6. Counted(comp[s], strikes[s])' /\ Warmed(Vtables[s], comp[s], awake[s])'
    BY <1>1, <1>2, <2>4, <2>5, SteppingSlot DEF SlotInv, Counted, Warmed
  <2>7. Spaced(Vtables[s], comp[s], due[s], rested[s])'
    BY <1>1, <1>2, <2>4 DEF SlotInv, Spaced
  <2>8. SlotInv(s)'
    BY <1>1, <1>2, <2>4, <2>5, <2>6, <2>7, VtableIs DEF SlotInv
  <2> QED BY <2>2, <2>3, <2>8
<1> QED BY <1>3, <1>4 DEF StepWarms

\* An error in a tick: the component is put off for as long as it has to rest.
LEMMA StruckKeeps ==
    ASSUME IInv, NEW s \in Slots, UNCHANGED <<count, awake>>, Struck(s),
           InService(comp[s]),
           NEW c \in Contexts, comp' = [comp EXCEPT ![s] = c],
           c.errors = comp[s].errors + 1, c.since <= comp[s].since,
           c.state = "FAULTED" <=> comp[s].errors + 1 >= FaultThreshold,
           c.state \notin {"WARMUP", "EMPTY"},
           c.state \in {"IDLE", "READING", "READY"} => awake[s] >= Vtables[s].warmup,
           cursor' \in [Slots -> Nat], cursor'[s] < Vtables[s].channels,
           \A t \in Slots \ {s} : cursor'[t] = cursor[t],
           collected' \in [Slots -> SUBSET Nat], repeated' \subseteq Slots
    PROVE  Shape' /\ \A t \in Slots : SlotInv(t)'
<1>1. Shape /\ \A t \in Slots : SlotInv(t)
  BY Parts DEF Slotwise
<1>2. /\ comp'[s] = c /\ comp' \in [Slots -> Contexts]
      /\ \A t \in Slots \ {s} : comp'[t] = comp[t]
  BY <1>1 DEF Shape
<1>3. /\ due'[s] = Vtables[s].interval /\ due' \in [Slots -> Nat]
      /\ \A t \in Slots \ {s} : due'[t] = due[t]
  BY <1>1, VtableIs DEF Shape, Struck
<1>4. /\ strikes'[s] = strikes[s] + 1 /\ strikes' \in [Slots -> Nat]
      /\ \A t \in Slots \ {s} : strikes'[t] = strikes[t]
  BY <1>1 DEF Shape, Struck
<1>5. /\ rested'[s] = 0 /\ rested' \in [Slots -> Nat]
      /\ \A t \in Slots \ {s} : rested'[t] = rested[t]
  BY <1>1 DEF Shape, Struck
<1>6. Shape'
  BY <1>1, <1>2, <1>3, <1>4, <1>5 DEF Shape
<1>7. ASSUME NEW t \in Slots, t # s PROVE SlotInv(t)'
  BY <1>1, <1>2, <1>3, <1>4, <1>5, <1>7, Undisturbed
<1>8. comp[s].errors < FaultThreshold /\ comp[s].errors = strikes[s]
  <2>1. comp[s].errors = strikes[s] /\ comp[s].errors <= FaultThreshold
    BY <1>1 DEF SlotInv, Counted
  <2>2. strikes[s] # FaultThreshold
    BY <1>1 DEF SlotInv, Counted, InService
  <2> QED BY <2>1, <2>2, SteppingSlot
<1>9. Counted(comp[s], strikes[s])'
  BY <1>2, <1>4, <1>8, SteppingSlot DEF Counted
<1>10. Warmed(Vtables[s], comp[s], awake[s])'
  BY <1>2 DEF Warmed
<1>11. Spaced(Vtables[s], comp[s], due[s], rested[s])'
  BY <1>2, <1>3, <1>5, VtableIs DEF Spaced
<1>12. comp[s].state # "EMPTY" /\ comp'[s].state # "EMPTY"
  BY <1>2 DEF InService
<1>13. comp'[s].errors <= FaultThreshold /\ comp'[s].since <= OpTimeout(Vtables[s]) + 1
  <2>1. c.since \in Nat
    BY DEF Contexts
  <2> QED BY <1>1, <1>2, <1>8, <2>1, SteppingSlot, VtableIs DEF SlotInv
<1>14. SlotInv(s)'
  BY <1>1, <1>3, <1>5, <1>9, <1>10, <1>11, <1>12, <1>13, VtableIs DEF SlotInv
<1> QED BY <1>6, <1>7, <1>14

\* driver.c asks the driver for a measurement only of a component that has been
\* powered for its warmup.
LEMMA StartsWarm ==
    ASSUME IInv, NEW s \in Slots, CanStart(Vtables[s], comp[s])
    PROVE  awake[s] >= Vtables[s].warmup /\ InService(comp[s])
<1>1. SlotInv(s) /\ Vtables[s].warmup \in Nat /\ awake[s] \in Nat /\ comp[s].since \in Nat
  BY SteppingSlot, VtableIs
<1>2. CASE comp[s].state = "WARMUP"
  <2>1. comp[s].since >= Vtables[s].warmup
    BY <1>1, <1>2 DEF CanStart, Warming
  <2>2. awake[s] >= Vtables[s].warmup \/ awake[s] >= comp[s].since
    BY <1>1, <1>2 DEF SlotInv, Warmed
  <2> QED BY <1>1, <1>2, <2>1, <2>2 DEF InService
<1>3. CASE comp[s].state = "SLEEPING"
  BY <1>1, <1>3 DEF CanStart, Wakes, InService
<1>4. CASE comp[s].state \in {"IDLE", "READY"}
  BY <1>1, <1>4 DEF SlotInv, Warmed, InService
<1> QED BY <1>2, <1>3, <1>4 DEF CanStart

\* A start, accepted or refused.
LEMMA StepStartsKeeps ==
    ASSUME IInv, NEW s \in Slots, UNCHANGED count, StepStarts(s)
    PROVE  Shape' /\ \A t \in Slots : SlotInv(t)'
<1>1. Shape /\ \A t \in Slots : SlotInv(t)
  BY Parts DEF Slotwise
<1>2. PICK answer \in StartAnswers(Vtables[s]) :
        /\ comp' = [comp EXCEPT ![s] = Started(@, answer)]
        /\ IF answer = "OK"
           THEN /\ cursor' = [cursor EXCEPT ![s] = 0]
                /\ collected' = [collected EXCEPT ![s] = {}]
                /\ UNCHANGED <<due, strikes, rested>>
           ELSE /\ Struck(s)
                /\ UNCHANGED <<cursor, collected>>
  BY DEF StepStarts
<1>3. UNCHANGED <<awake, repeated>>
  BY DEF StepStarts
<1>4. awake[s] >= Vtables[s].warmup /\ InService(comp[s])
  BY StartsWarm DEF StepStarts
<1>5. comp[s] \in Contexts
  BY SteppingSlot
<1>6. CASE answer = "OK"
  <2>1. /\ comp'[s] = Started(comp[s], "OK") /\ comp' \in [Slots -> Contexts]
        /\ \A t \in Slots \ {s} : comp'[t] = comp[t]
    BY <1>1, <1>2, <1>6, StartedOkIs DEF Shape
  <2>2. /\ cursor'[s] = 0 /\ cursor' \in [Slots -> Nat]
        /\ \A t \in Slots \ {s} : cursor'[t] = cursor[t]
        /\ collected' \in [Slots -> SUBSET Nat]
        /\ UNCHANGED <<due, strikes, rested>>
    BY <1>1, <1>2, <1>6 DEF Shape
  <2>3. Shape'
    BY <1>1, <1>3, <2>1, <2>2 DEF Shape
  <2>4. ASSUME NEW t \in Slots, t # s PROVE SlotInv(t)'
    BY <1>1, <1>3, <2>1, <2>2, <2>4, Undisturbed
  <2>5. /\ comp'[s].errors = comp[s].errors
        /\ comp'[s].since = 0
        /\ comp'[s].state = "READING"
    BY <1>5, <2>1, StartedOkIs
  <2>6. comp[s].state # "EMPTY" /\ comp[s].state # "FAULTED"
    BY <1>4 DEF InService
  <2>7. Counted(comp[s], strikes[s])' /\ Warmed(Vtables[s], comp[s], awake[s])'
    BY <1>1, <1>3, <1>4, <2>2, <2>5, <2>6 DEF SlotInv, Counted, Warmed
  <2>8. Spaced(Vtables[s], comp[s], due[s], rested[s])'
    BY <1>1, <2>2, <2>5 DEF SlotInv, Spaced
  <2>9. SlotInv(s)'
    BY <1>1, <1>3, <2>2, <2>5, <2>6, <2>7, <2>8, VtableIs DEF SlotInv
  <2> QED BY <2>3, <2>4, <2>9
<1>7. CASE answer = "ERR"
  <2> DEFINE c == Started(comp[s], "ERR")
  <2>1. comp' = [comp EXCEPT ![s] = c] /\ Struck(s) /\ UNCHANGED <<cursor, collected>>
    BY <1>2, <1>7
  <2>2. /\ c \in Contexts /\ c.errors = comp[s].errors + 1 /\ c.since = 0
        /\ c.state = IF comp[s].errors + 1 >= FaultThreshold THEN "FAULTED"
                     ELSE Idled(comp[s]).state
    BY <1>5, StartedErrIs
  <2>3. Idled(comp[s]).state \in {"IDLE", "READING", "READY"}
    BY <1>4, <1>5, IdledIs DEF InService
  <2> HIDE DEF c
  <2>4. /\ c.state = "FAULTED" <=> comp[s].errors + 1 >= FaultThreshold
        /\ c.state \notin {"WARMUP", "EMPTY"}
    BY <2>2, <2>3
  <2>5. c.since <= comp[s].since
    BY <2>2, SteppingSlot
  <2>6. /\ cursor' \in [Slots -> Nat] /\ cursor'[s] < Vtables[s].channels
        /\ \A t \in Slots \ {s} : cursor'[t] = cursor[t]
        /\ collected' \in [Slots -> SUBSET Nat] /\ repeated' \subseteq Slots
    BY <1>1, <1>3, <2>1 DEF Shape, SlotInv
  <2> QED BY <1>3, <1>4, <2>1, <2>2, <2>4, <2>5, <2>6, StruckKeeps
<1> QED BY <1>6, <1>7 DEF StartAnswers

\* What a poll leaves alone.
LEMMA PollsIs ==
    ASSUME IInv, NEW s \in Slots, NEW verdict, Polls(s, verdict)
    PROVE  /\ comp' = [comp EXCEPT ![s] = Polled(comp[s], verdict)]
           /\ awake' = awake /\ awake[s] >= Vtables[s].warmup
           /\ InService(comp[s])
<1>1. SlotInv(s) /\ comp[s].state \in {"READING", "READY"}
  BY SteppingSlot DEF Polls
<1> QED BY <1>1 DEF Polls, SlotInv, Warmed, InService

\* No answer yet: nothing happens.
LEMMA StepWaitsKeeps ==
    ASSUME IInv, NEW s \in Slots, UNCHANGED count, StepWaits(s)
    PROVE  Shape' /\ \A t \in Slots : SlotInv(t)'
<1>1. Shape /\ \A t \in Slots : SlotInv(t)
  BY Parts DEF Slotwise
<1>2. UNCHANGED <<due, cursor, strikes, rested, collected, repeated, awake>>
  BY PollsIs DEF StepWaits
<1>3. comp' = comp
  <2>1. comp' = [comp EXCEPT ![s] = Polled(comp[s], "NOT_READY")]
    BY PollsIs DEF StepWaits
  <2>2. Polled(comp[s], "NOT_READY") = comp[s]
    BY DEF Polled
  <2> QED BY <1>1, <2>1, <2>2 DEF Shape
<1>4. Shape'
  BY <1>1, <1>2, <1>3 DEF Shape
<1>5. ASSUME NEW t \in Slots PROVE SlotInv(t)'
  BY <1>1, <1>2, <1>3, Undisturbed
<1> QED BY <1>4, <1>5

\* A failed poll, or one past the deadline.
LEMMA StepFailsKeeps ==
    ASSUME IInv, NEW s \in Slots, UNCHANGED count, StepFails(s)
    PROVE  Shape' /\ \A t \in Slots : SlotInv(t)'
<1> DEFINE c == Polled(comp[s], "ERR")
<1>1. Shape /\ SlotInv(s) /\ comp[s] \in Contexts
  BY SteppingSlot
<1>2. /\ comp' = [comp EXCEPT ![s] = c] /\ awake' = awake
      /\ awake[s] >= Vtables[s].warmup /\ InService(comp[s])
  BY PollsIs DEF StepFails
<1>3. /\ c \in Contexts /\ c.errors = comp[s].errors + 1 /\ c.since = comp[s].since
      /\ c.state = IF Fail(comp[s]).state = "FAULTED" THEN "FAULTED" ELSE "IDLE"
  BY <1>1, PolledErrIs
<1>4. Fail(comp[s]).state = IF comp[s].errors + 1 >= FaultThreshold THEN "FAULTED"
                            ELSE comp[s].state
  BY <1>1, FailIs
<1> HIDE DEF c
<1>5. /\ c.state = "FAULTED" <=> comp[s].errors + 1 >= FaultThreshold
      /\ c.state \notin {"WARMUP", "EMPTY"}
  BY <1>2, <1>3, <1>4 DEF InService
<1>6. c.since <= comp[s].since
  BY <1>3, SteppingSlot
<1>7. /\ cursor' \in [Slots -> Nat] /\ cursor'[s] < Vtables[s].channels
      /\ \A t \in Slots \ {s} : cursor'[t] = cursor[t]
  BY <1>1, VtableIs DEF StepFails, Shape
<1>8. collected' \in [Slots -> SUBSET Nat] /\ repeated' \subseteq Slots /\ Struck(s)
  BY <1>1 DEF StepFails, Shape
<1> QED BY <1>2, <1>3, <1>5, <1>6, <1>7, <1>8, StruckKeeps

\* A channel is read: the strikes are forgotten, and a finished cycle puts the
\* component off for an interval.
LEMMA StepReadsKeeps ==
    ASSUME IInv, NEW s \in Slots, UNCHANGED count, StepReads(s)
    PROVE  Shape' /\ \A t \in Slots : SlotInv(t)'
<1>1. Shape /\ \A t \in Slots : SlotInv(t)
  BY Parts DEF Slotwise
<1>2. /\ comp' = [comp EXCEPT ![s] = Polled(comp[s], "OK")] /\ awake' = awake
      /\ awake[s] >= Vtables[s].warmup /\ InService(comp[s])
  BY PollsIs DEF StepReads
<1>3. /\ comp'[s].errors = 0 /\ comp'[s].since = comp[s].since /\ comp'[s].state = "READY"
      /\ comp' \in [Slots -> Contexts]
      /\ \A t \in Slots \ {s} : comp'[t] = comp[t]
  BY <1>1, <1>2, SteppingSlot, PolledOkIs DEF Shape
<1>4. /\ cursor' \in [Slots -> Nat] /\ cursor'[s] < Vtables[s].channels
      /\ \A t \in Slots \ {s} : cursor'[t] = cursor[t]
      /\ due' \in [Slots -> Nat] /\ due'[s] \in {due[s], Vtables[s].interval}
      /\ \A t \in Slots \ {s} : due'[t] = due[t]
  <2>1. CASE MoreChannels(s)
    BY <1>1, <2>1, VtableIs DEF StepReads, Shape, MoreChannels
  <2>2. CASE ~MoreChannels(s)
    BY <1>1, <2>2, VtableIs DEF StepReads, Shape
  <2> QED BY <2>1, <2>2
<1>5. /\ strikes'[s] = 0 /\ strikes' \in [Slots -> Nat]
      /\ \A t \in Slots \ {s} : strikes'[t] = strikes[t]
      /\ rested' = rested
  BY <1>1 DEF StepReads, Shape
<1>6. collected' \in [Slots -> SUBSET Nat] /\ repeated' \subseteq Slots
  BY <1>1 DEF StepReads, Shape
<1>7. Shape'
  BY <1>1, <1>2, <1>3, <1>4, <1>5, <1>6 DEF Shape
<1>8. ASSUME NEW t \in Slots, t # s PROVE SlotInv(t)'
  BY <1>1, <1>2, <1>3, <1>4, <1>5, <1>8, Undisturbed
<1>9. Counted(comp[s], strikes[s])'
  BY <1>3, <1>5, DriverAssumption DEF Counted
<1>10. Warmed(Vtables[s], comp[s], awake[s])'
  BY <1>2, <1>3 DEF Warmed
<1>11. Spaced(Vtables[s], comp[s], due[s], rested[s])'
  <2>1. due[s] + rested[s] >= Vtables[s].interval /\ rested[s] \in Nat /\ due[s] \in Nat
    BY <1>1, SteppingSlot DEF SlotInv, Spaced
  <2>2. due'[s] + rested'[s] >= Vtables[s].interval
    BY <1>4, <1>5, <2>1, VtableIs
  <2> QED BY <1>3, <2>2 DEF Spaced
<1>12. comp[s].state # "EMPTY" /\ comp'[s].state # "EMPTY"
  BY <1>2, <1>3 DEF InService
<1>13. due'[s] <= Vtables[s].interval
  BY <1>1, <1>4, VtableIs DEF SlotInv
<1>14. SlotInv(s)'
  BY <1>1, <1>2, <1>3, <1>4, <1>5, <1>9, <1>10, <1>11, <1>12, <1>13, DriverAssumption DEF SlotInv
<1> QED BY <1>7, <1>8, <1>14

-----------------------------------------------------------------------------
(* The steps between the turns.                                            *)

\* The rotation stays among the slots.
LEMMA StepLoop ==
    ASSUME Loop, turn < count, TurnOver
    PROVE  Loop'
<1> DEFINE n == Cardinality(Slots)
<1>1. n \in Nat \ {0} /\ count \in 0 .. n /\ turn \in 0 .. count /\ rotation \in 0 .. n - 1
  BY SlotsAre DEF Loop
<1>2. count \in Nat \ {0} /\ rotation + 1 \in Int
  BY <1>1
<1>3. (rotation + 1) % count \in 0 .. count - 1
  BY <1>2, Division, Zenon
<1>4. rotation' \in 0 .. n - 1
  BY <1>1, <1>2, <1>3 DEF TurnOver
<1>5. turn' \in 0 .. count' /\ UNCHANGED <<count, commands>>
  BY <1>1 DEF TurnOver
<1> HIDE DEF n
<1> QED BY <1>4, <1>5 DEF Loop, n

\* A turn serves one slot, as one of the cases.
LEMMA StepKeeps == ASSUME IInv, Step PROVE IInv'
<1>1. PICK s \in Slots :
        /\ Serves(s)
        /\ TurnOver
        /\ \/ StepSkips(s) \/ StepWarms(s) \/ StepStarts(s)
           \/ StepWaits(s) \/ StepFails(s) \/ StepReads(s)
  BY DEF Step
<1>2. Loop'
  BY <1>1, Parts, StepLoop DEF Serves
<1>3. UNCHANGED count
  BY <1>1 DEF TurnOver
<1>4. Shape' /\ \A t \in Slots : SlotInv(t)'
  BY <1>1, <1>3, StepSkipsKeeps, StepWarmsKeeps, StepStartsKeeps, StepWaitsKeeps,
     StepFailsKeeps, StepReadsKeeps
<1> QED BY <1>2, <1>4, PartsNext DEF Slotwise

\* lh_sched_add: the slot starts cold and not yet tried, or retired at once.
LEMMA AddKeeps == ASSUME IInv, Add PROVE IInv'
<1>0. PICK s \in Slots : s = count
  BY DEF Add
<1>1. Shape /\ Loop /\ \A t \in Slots : SlotInv(t)
  BY Parts DEF Slotwise
<1>2. PICK answer \in {"OK", "ERR"} :
        /\ comp' = [comp EXCEPT ![s] = Bind(Vtables[s], answer)]
        /\ strikes' = [strikes EXCEPT ![s] = IF answer = "OK" THEN 0 ELSE FaultThreshold]
  BY <1>0 DEF Add
<1>3. s \in Slots /\ s \in Nat /\ FaultThreshold \in Nat \ {0}
  BY <1>0, SlotsAre, DriverAssumption
<1> DEFINE c == Bind(Vtables[s], answer)
           k == IF answer = "OK" THEN 0 ELSE FaultThreshold
<1>4. /\ c \in Contexts /\ c.errors = k /\ c.since = 0 /\ k \in Nat /\ k <= FaultThreshold
      /\ c.state \in {"WARMUP", "IDLE", "FAULTED"}
      /\ c.state = "FAULTED" <=> k = FaultThreshold
      /\ c.state = "IDLE" => Vtables[s].warmup = 0
  <2>1. CASE answer = "OK"
    <3>1. c = [state |-> WarmOrIdle(Vtables[s]), errors |-> 0, since |-> 0] /\ k = 0
      BY <2>1 DEF Bind
    <3>2. WarmOrIdle(Vtables[s]) \in {"WARMUP", "IDLE"}
      BY DEF WarmOrIdle
    <3>3. WarmOrIdle(Vtables[s]) = "IDLE" => Vtables[s].warmup = 0
      BY <1>3, VtableIs DEF WarmOrIdle
    <3> HIDE DEF c, k
    <3>4. /\ c.state = WarmOrIdle(Vtables[s]) /\ c.errors = 0 /\ c.since = 0
          /\ c \in Contexts
      BY <3>1, <3>2 DEF Contexts, DriverStates
    <3> QED BY <1>3, <3>1, <3>2, <3>3, <3>4
  <2>2. CASE answer = "ERR"
    <3>1. c = [state |-> "FAULTED", errors |-> FaultThreshold, since |-> 0] /\ k = FaultThreshold
      BY <2>2 DEF Bind
    <3> HIDE DEF c, k
    <3> QED BY <1>3, <3>1 DEF Contexts, DriverStates
  <2> QED BY <2>1, <2>2
<1> HIDE DEF c, k
<1>5. /\ comp' = [comp EXCEPT ![s] = c] /\ strikes' = [strikes EXCEPT ![s] = k]
      /\ due' = [due EXCEPT ![s] = 0] /\ cursor' = [cursor EXCEPT ![s] = 0]
      /\ awake' = [awake EXCEPT ![s] = 0] /\ UNCHANGED <<rested, collected, repeated>>
  BY <1>0, <1>2 DEF Add, c, k
<1>6. /\ comp'[s] = c /\ strikes'[s] = k /\ due'[s] = 0 /\ cursor'[s] = 0 /\ awake'[s] = 0
      /\ \A t \in Slots \ {s} :
           /\ comp'[t] = comp[t] /\ strikes'[t] = strikes[t] /\ due'[t] = due[t]
           /\ cursor'[t] = cursor[t] /\ awake'[t] = awake[t] /\ rested'[t] = rested[t]
      /\ rested'[s] = rested[s]
  BY <1>1, <1>3, <1>5 DEF Shape
<1>7. Shape'
  BY <1>1, <1>4, <1>5 DEF Shape
<1>8. Loop' /\ count' = s + 1
  BY <1>0, <1>1, <1>3, SlotsAre DEF Add, Loop
<1>9. ASSUME NEW t \in Slots, t # s PROVE SlotInv(t)'
  <2>1. t \in Nat
    BY SlotsAre
  <2>2. t >= count <=> t >= count'
    BY <1>0, <1>3, <1>8, <1>9, <2>1
  <2> QED BY <1>1, <1>6, <1>9, <2>2, Undisturbed
<1>10. rested[s] = Vtables[s].interval
  <2>1. /\ SlotInv(s) /\ comp[s].state = "EMPTY" /\ rested[s] \in Nat
    BY <1>0, <1>1, <1>3 DEF SlotInv, Shape
  <2> QED BY <1>3, <2>1, VtableIs DEF SlotInv, Spaced
<1>11. SlotInv(s)'
  <2>1. Counted(comp'[s], strikes'[s])
    BY <1>4, <1>6 DEF Counted
  <2>2. Warmed(Vtables[s], comp'[s], awake'[s])
    BY <1>4, <1>6 DEF Warmed
  <2>3. Spaced(Vtables[s], comp'[s], due'[s], rested'[s])
    BY <1>3, <1>4, <1>6, <1>10, VtableIs DEF Spaced
  <2>4. ~(s >= count') /\ comp'[s].state # "EMPTY"
    BY <1>3, <1>4, <1>6, <1>8
  <2>5. /\ comp'[s].errors <= FaultThreshold /\ comp'[s].since <= OpTimeout(Vtables[s]) + 1
        /\ due'[s] <= Vtables[s].interval /\ cursor'[s] < Vtables[s].channels
        /\ awake'[s] <= Vtables[s].warmup /\ rested'[s] <= Vtables[s].interval
    BY <1>3, <1>4, <1>6, <1>10, VtableIs
  <2> QED BY <2>1, <2>2, <2>3, <2>4, <2>5 DEF SlotInv
<1>12. \A t \in Slots : SlotInv(t)'
  BY <1>9, <1>11
<1> QED BY <1>7, <1>8, <1>12, PartsNext DEF Slotwise

\* Time passes: clocks, power and rest grow together, up to where each is cut off.
LEMMA BeginTickKeeps == ASSUME IInv, BeginTick PROVE IInv'
<1>1. Shape /\ Loop /\ \A t \in Slots : SlotInv(t)
  BY Parts DEF Slotwise
<1>2. PICK d \in 1 .. MaxLate : Elapse(d)
  BY DEF BeginTick
<1>3. d \in Nat
  BY SchedulerAssumption
<1>4. UNCHANGED <<count, cursor, rotation, commands, strikes, collected, repeated>> /\ turn' = 0
  BY DEF BeginTick
<1>5. ASSUME NEW s \in Slots
      PROVE  /\ comp'[s] \in Contexts /\ due'[s] \in Nat /\ awake'[s] \in Nat /\ rested'[s] \in Nat
             /\ SlotInv(s)'
  <2> DEFINE vt == Vtables[s]
             c == comp[s]
  <2>1. /\ SlotInv(s) /\ c \in Contexts /\ c.since \in Nat
        /\ due[s] \in Nat /\ awake[s] \in Nat /\ rested[s] \in Nat
    BY <1>1, <1>5, SteppingSlot
  <2>2. /\ vt.warmup \in Nat /\ vt.interval \in Nat /\ OpTimeout(vt) \in Nat
        /\ vt.warmup <= OpTimeout(vt)
    BY VtableIs
  <2>3. /\ comp'[s] = [c EXCEPT !.since = Later(vt, c.since, d)]
        /\ due'[s] = IF due[s] > d THEN due[s] - d ELSE 0
        /\ awake'[s] = IF c.state = "SLEEPING" THEN 0 ELSE UpTo(awake[s], d, vt.warmup)
        /\ rested'[s] = UpTo(rested[s], d, vt.interval)
    BY <1>2 DEF Elapse
  <2>4. /\ Later(vt, c.since, d) \in Nat /\ Later(vt, c.since, d) <= c.since + d
        /\ Later(vt, c.since, d) <= OpTimeout(vt) + 1
    BY <1>3, <2>1, <2>2 DEF Later
  <2>5. /\ comp'[s] \in Contexts /\ comp'[s].errors = c.errors /\ comp'[s].state = c.state
        /\ comp'[s].since <= c.since + d /\ comp'[s].since \in Nat
        /\ comp'[s].since <= OpTimeout(vt) + 1
    <3> DEFINE l == Later(vt, c.since, d)
    <3> HIDE DEF l
    <3>1. l \in Nat /\ comp'[s] = [c EXCEPT !.since = l] /\ c \in Contexts
      BY <2>1, <2>3, <2>4 DEF l
    <3> HIDE DEF c
    <3>2. /\ comp'[s] \in Contexts /\ comp'[s].errors = c.errors /\ comp'[s].state = c.state
          /\ comp'[s].since = l
      BY <3>1 DEF Contexts
    <3> QED BY <2>4, <3>2 DEF l
  <2>6. due'[s] \in Nat /\ due'[s] <= vt.interval /\ due'[s] + d >= due[s]
    BY <1>3, <2>1, <2>2, <2>3 DEF SlotInv
  <2>7. /\ rested'[s] \in Nat /\ rested'[s] <= vt.interval
        /\ rested'[s] = rested[s] + d \/ rested'[s] = vt.interval
    BY <1>3, <2>1, <2>2, <2>3 DEF UpTo
  <2>8. /\ awake'[s] \in Nat /\ awake'[s] <= vt.warmup
        /\ c.state # "SLEEPING" => awake'[s] = awake[s] + d \/ awake'[s] = vt.warmup
    BY <1>3, <2>1, <2>2, <2>3 DEF UpTo
  <2>9. Counted(comp[s], strikes[s])'
    BY <1>4, <2>1, <2>5 DEF SlotInv, Counted
  <2>10. Warmed(Vtables[s], comp[s], awake[s])'
    <3>1. CASE c.state = "WARMUP"
      <4>1. awake[s] >= vt.warmup \/ awake[s] >= c.since
        BY <2>1, <3>1 DEF SlotInv, Warmed
      <4>2. awake'[s] >= vt.warmup \/ awake'[s] >= comp'[s].since
        BY <1>3, <2>1, <2>2, <2>5, <2>8, <3>1, <4>1
      <4> QED BY <2>5, <3>1, <4>2 DEF Warmed
    <3>2. CASE c.state \in {"IDLE", "READING", "READY"}
      <4>1. awake[s] >= vt.warmup
        BY <2>1, <3>2 DEF SlotInv, Warmed
      <4>2. awake'[s] >= vt.warmup
        BY <1>3, <2>1, <2>2, <2>8, <3>2, <4>1
      <4> QED BY <2>5, <3>2, <4>2 DEF Warmed
    <3> QED BY <2>5, <3>1, <3>2 DEF Warmed
  <2>11. Spaced(Vtables[s], comp[s], due[s], rested[s])'
    <3>1. due[s] + rested[s] >= vt.interval /\ (c.state = "EMPTY" => rested[s] >= vt.interval)
      BY <2>1 DEF SlotInv, Spaced
    <3>2. due'[s] + rested'[s] >= vt.interval
      BY <1>3, <2>1, <2>2, <2>6, <2>7, <3>1
    <3>3. rested[s] >= vt.interval => rested'[s] >= vt.interval
      BY <1>3, <2>1, <2>2, <2>7
    <3> QED BY <2>5, <3>1, <3>2, <3>3 DEF Spaced
  <2>12. SlotInv(s)'
    BY <1>4, <2>1, <2>5, <2>6, <2>7, <2>8, <2>9, <2>10, <2>11 DEF SlotInv
  <2> QED BY <2>5, <2>6, <2>7, <2>8, <2>12
<1>6. Shape'
  <2>1. comp' \in [Slots -> Contexts] /\ due' \in [Slots -> Nat]
    BY <1>2, <1>5 DEF Elapse
  <2>2. awake' \in [Slots -> Nat] /\ rested' \in [Slots -> Nat]
    BY <1>2, <1>5 DEF Elapse
  <2> QED BY <1>1, <1>4, <2>1, <2>2 DEF Shape
<1>7. Loop'
  BY <1>1, <1>4, SlotsAre DEF Loop
<1> QED BY <1>5, <1>6, <1>7, PartsNext DEF Slotwise

\* Sleep ends the power; a driver that refuses it has erred once more.
LEMMA SleepKeeps ==
    ASSUME IInv, NEW s \in Slots, Sleep(s),
           UNCHANGED <<count, due, cursor, rested, collected, repeated>>
    PROVE  Shape' /\ Slotwise'
<1>1. Shape /\ \A t \in Slots : SlotInv(t)
  BY Parts DEF Slotwise
<1>2. PICK answer \in {"OK", "ERR"} :
        /\ comp' = [comp EXCEPT ![s] = Slept(@, answer)]
        /\ strikes' = [strikes EXCEPT ![s] = IF answer = "OK" THEN @ ELSE @ + 1]
        /\ awake' = [awake EXCEPT ![s] = IF answer = "OK" THEN 0 ELSE @]
  BY DEF Sleep
<1> DEFINE c == Slept(comp[s], answer)
<1>3. /\ comp[s] \in Contexts /\ comp[s].state \in DriverStates \ {"EMPTY", "FAULTED"}
      /\ FaultThreshold \in Nat \ {0}
  BY SteppingSlot DEF Sleep
<1>4. comp[s].errors < FaultThreshold /\ comp[s].errors = strikes[s]
  <2>1. comp[s].errors = strikes[s] /\ comp[s].errors <= FaultThreshold
    BY <1>1 DEF SlotInv, Counted
  <2>2. strikes[s] # FaultThreshold
    BY <1>1, <1>3 DEF SlotInv, Counted
  <2> QED BY <2>1, <2>2, SteppingSlot
<1>5. /\ c \in Contexts /\ c.since = comp[s].since
      /\ answer = "OK" => c.errors = comp[s].errors /\ c.state = "SLEEPING"
      /\ answer = "ERR" => /\ c.errors = comp[s].errors + 1
                           /\ c.state = IF comp[s].errors + 1 >= FaultThreshold
                                        THEN "FAULTED" ELSE comp[s].state
  BY <1>3, SleptIs, FailIs
<1>6. /\ comp'[s] = c /\ comp' \in [Slots -> Contexts]
      /\ \A t \in Slots \ {s} : comp'[t] = comp[t]
  BY <1>1, <1>2, <1>5 DEF Shape
<1> HIDE DEF c
<1>7. /\ strikes' \in [Slots -> Nat] /\ \A t \in Slots \ {s} : strikes'[t] = strikes[t]
      /\ awake' \in [Slots -> Nat] /\ \A t \in Slots \ {s} : awake'[t] = awake[t]
      /\ answer = "OK" => strikes'[s] = strikes[s] /\ awake'[s] = 0
      /\ answer = "ERR" => strikes'[s] = strikes[s] + 1 /\ awake'[s] = awake[s]
  BY <1>1, <1>2 DEF Shape
<1>8. Shape'
  BY <1>1, <1>6, <1>7 DEF Shape
<1>9. ASSUME NEW t \in Slots, t # s PROVE SlotInv(t)'
  BY <1>1, <1>6, <1>7, <1>9, Undisturbed
<1>10. CASE answer = "OK"
  <2>1. Counted(comp[s], strikes[s])'
    BY <1>3, <1>4, <1>5, <1>6, <1>7, <1>10 DEF Counted
  <2>2. Warmed(Vtables[s], comp[s], awake[s])' /\ Spaced(Vtables[s], comp[s], due[s], rested[s])'
    BY <1>1, <1>5, <1>6, <1>10 DEF SlotInv, Warmed, Spaced
  <2>3. SlotInv(s)'
    BY <1>1, <1>3, <1>5, <1>6, <1>7, <1>10, <2>1, <2>2, VtableIs DEF SlotInv
  <2> QED BY <1>8, <1>9, <2>3 DEF Slotwise
<1>11. CASE answer = "ERR"
  <2>1. c.state = "FAULTED" \/ c.state = comp[s].state
    BY <1>5, <1>11
  <2>2. Counted(comp[s], strikes[s])'
    <3>1. c.errors = strikes'[s] /\ (comp[s].errors + 1 >= FaultThreshold <=> strikes'[s] = FaultThreshold)
      BY <1>3, <1>4, <1>5, <1>7, <1>11, SteppingSlot
    <3>2. c.state = "FAULTED" <=> comp[s].errors + 1 >= FaultThreshold
      BY <1>3, <1>5, <1>11
    <3> QED BY <1>6, <3>1, <3>2 DEF Counted
  <2>3. Warmed(Vtables[s], comp[s], awake[s])' /\ Spaced(Vtables[s], comp[s], due[s], rested[s])'
    BY <1>1, <1>5, <1>6, <1>7, <1>11, <2>1 DEF SlotInv, Warmed, Spaced
  <2>4. c.errors <= FaultThreshold /\ c.since <= OpTimeout(Vtables[s]) + 1
    BY <1>1, <1>3, <1>4, <1>5, <1>11, SteppingSlot DEF SlotInv
  <2>5. comp[s].state # "EMPTY" /\ c.state # "EMPTY"
    BY <1>3, <2>1
  <2>6. SlotInv(s)'
    BY <1>1, <1>6, <1>7, <1>11, <2>2, <2>3, <2>4, <2>5 DEF SlotInv
  <2> QED BY <1>8, <1>9, <2>6 DEF Slotwise
<1> QED BY <1>10, <1>11

\* A cleared fault is as a fresh bind: cold, and without errors.
LEMMA ClearFaultKeeps ==
    ASSUME IInv, NEW s \in Slots, ClearFault(s),
           UNCHANGED <<count, due, cursor, rested, collected, repeated>>
    PROVE  Shape' /\ Slotwise'
<1> DEFINE c == Cleared(Vtables[s])
<1>1. Shape /\ (\A t \in Slots : SlotInv(t)) /\ FaultThreshold \in Nat \ {0}
  BY Parts, DriverAssumption DEF Slotwise
<1>2. /\ c \in Contexts /\ c.errors = 0 /\ c.since = 0
      /\ c.state \in {"WARMUP", "IDLE"} /\ (c.state = "IDLE" => Vtables[s].warmup = 0)
  <2>1. /\ WarmOrIdle(Vtables[s]) \in {"WARMUP", "IDLE"}
        /\ WarmOrIdle(Vtables[s]) = "IDLE" => Vtables[s].warmup = 0
    BY VtableIs DEF WarmOrIdle
  <2> QED BY <2>1 DEF Cleared, Contexts, DriverStates
<1>3. /\ comp'[s] = c /\ comp' \in [Slots -> Contexts]
      /\ \A t \in Slots \ {s} : comp'[t] = comp[t]
      /\ strikes'[s] = 0 /\ strikes' \in [Slots -> Nat]
      /\ \A t \in Slots \ {s} : strikes'[t] = strikes[t]
      /\ awake'[s] = 0 /\ awake' \in [Slots -> Nat]
      /\ \A t \in Slots \ {s} : awake'[t] = awake[t]
  BY <1>1, <1>2 DEF ClearFault, Shape
<1> HIDE DEF c
<1>4. Shape'
  BY <1>1, <1>3 DEF Shape
<1>5. ASSUME NEW t \in Slots, t # s PROVE SlotInv(t)'
  BY <1>1, <1>3, <1>5, Undisturbed
<1>6. Counted(comp[s], strikes[s])'
  BY <1>1, <1>2, <1>3 DEF Counted
<1>7. Warmed(Vtables[s], comp[s], awake[s])' /\ Spaced(Vtables[s], comp[s], due[s], rested[s])'
  BY <1>1, <1>2, <1>3 DEF Warmed, Spaced, SlotInv
<1>8. SlotInv(s)'
  BY <1>1, <1>2, <1>3, <1>6, <1>7, VtableIs DEF SlotInv, ClearFault
<1> QED BY <1>4, <1>5, <1>8 DEF Slotwise

\* What the host does between ticks.
LEMMA CommandKeeps == ASSUME IInv, Command PROVE IInv'
<1>1. Loop'
  <2>1. commands \in Nat /\ commands' = commands + 1 /\ commands < MaxCommands /\ MaxCommands \in Nat
    BY Parts, SchedulerAssumption DEF Command, Loop
  <2> QED BY <2>1, Parts DEF Command, Loop
<1>2. Shape' /\ Slotwise'
  BY SleepKeeps, ClearFaultKeeps DEF Command
<1> QED BY <1>1, <1>2, PartsNext

-----------------------------------------------------------------------------
(* The results.                                                            *)

\* Nothing is configured yet.
LEMMA InitHolds == Init => IInv
<1> SUFFICES ASSUME Init PROVE IInv
  OBVIOUS
<1>1. EmptyContext \in Contexts
  BY DEF EmptyContext, Contexts, DriverStates
<1>2. Shape
  BY <1>1, VtableIs DEF Init, Shape
<1>3. Loop
  BY SlotsAre, SchedulerAssumption DEF Init, Loop
<1>4. ASSUME NEW s \in Slots PROVE SlotInv(s)
  <2>1. /\ comp[s].state = "EMPTY" /\ comp[s].errors = 0 /\ comp[s].since = 0
        /\ count = 0 /\ due[s] = 0 /\ cursor[s] = 0 /\ strikes[s] = 0 /\ awake[s] = 0
        /\ rested[s] = Vtables[s].interval
    BY DEF Init, EmptyContext
  <2>2. s \in Nat /\ FaultThreshold \in Nat \ {0}
    BY SlotsAre, DriverAssumption
  <2>3. Counted(comp[s], strikes[s]) /\ Warmed(Vtables[s], comp[s], awake[s])
    BY <2>1, <2>2 DEF Counted, Warmed
  <2>4. Spaced(Vtables[s], comp[s], due[s], rested[s])
    BY <2>1, VtableIs DEF Spaced
  <2> QED BY <2>1, <2>2, <2>3, <2>4, VtableIs DEF SlotInv
<1> QED BY <1>2, <1>3, <1>4, Parts DEF Slotwise

\* Every step keeps the invariant.
LEMMA NextKeeps == IInv /\ [Next]_vars => IInv'
<1> SUFFICES ASSUME IInv, [Next]_vars PROVE IInv'
  OBVIOUS
<1>1. CASE UNCHANGED vars
  <2>1. Shape /\ Loop /\ \A t \in Slots : SlotInv(t)
    BY Parts DEF Slotwise
  <2>2. Shape' /\ Loop'
    BY <1>1, <2>1 DEF Shape, Loop, vars, schedVars, ghostVars
  <2>3. ASSUME NEW t \in Slots PROVE SlotInv(t)'
    BY <1>1, <2>1, Undisturbed DEF vars, schedVars, ghostVars
  <2> QED BY <2>2, <2>3, PartsNext DEF Slotwise
<1> QED BY <1>1, AddKeeps, BeginTickKeeps, StepKeeps, CommandKeeps DEF Next

\* The invariant.
LEMMA Invariant == Spec => []IInv
BY InitHolds, NextKeeps, PTL DEF Spec

\* Every state of the scheduler is well typed: cursors and deadlines in the
\* bounds of the vtables, the table filled from the front (scheduler.c).
THEOREM TypeCorrect == Spec => []TypeOK
<1>1. IInv => TypeOK
  BY DEF IInv
<1> QED BY <1>1, Invariant, PTL

\* driver.c, fail(): whatever the drivers answer, however long ticks are apart
\* and whatever the host does between them, a component is retired by
\* FaultThreshold errors without a reading between them, and by nothing less.
THEOREM RetirementIsEarned == Spec => []RetiredByStrikes
<1>1. IInv => RetiredByStrikes
  <2> SUFFICES ASSUME IInv, NEW s \in Slots
               PROVE  comp[s].state = "FAULTED" <=> strikes[s] >= FaultThreshold
    BY DEF RetiredByStrikes
  <2>1. comp[s].errors <= FaultThreshold /\ comp[s].errors = strikes[s]
    BY SteppingSlot DEF SlotInv, Counted
  <2>2. strikes[s] >= FaultThreshold <=> strikes[s] = FaultThreshold
    BY <2>1, SteppingSlot
  <2> QED BY <2>2, SteppingSlot DEF SlotInv, Counted
<1> QED BY <1>1, Invariant, PTL

\* driver.c: no component is measured before it has been powered for its warmup,
\* through sleeps, refused sleeps, faults and their clearing.
THEOREM NothingMeasuredCold == Spec => []WarmBeforeMeasuring
<1>1. IInv => WarmBeforeMeasuring
  BY SteppingSlot DEF WarmBeforeMeasuring, SlotInv, Warmed
<1> QED BY <1>1, Invariant, PTL

\* Only a slot that steps is struck by a step, and it was due.
LEMMA StrikesAreDue ==
    ASSUME IInv, Step, NEW s \in Slots, strikes'[s] > strikes[s]
    PROVE  due[s] = 0
<1>1. PICK t \in Slots :
        StepSkips(t) \/ StepWarms(t) \/ StepStarts(t) \/ StepWaits(t) \/ StepFails(t) \/ StepReads(t)
  BY DEF Step
<1>2. strikes \in [Slots -> Nat] /\ strikes[s] \in Nat
  BY SteppingSlot DEF Shape
<1>3. ~(strikes' = strikes)
  BY <1>2
<1>4. CASE StepStarts(t)
  <2>1. strikes' = [strikes EXCEPT ![t] = @ + 1] /\ due[t] = 0
    BY <1>3, <1>4 DEF StepStarts, Struck, CanStep
  <2>2. s = t
    BY <1>2, <2>1
  <2> QED BY <2>1, <2>2
<1>5. CASE StepFails(t)
  <2>1. strikes' = [strikes EXCEPT ![t] = @ + 1] /\ due[t] = 0
    BY <1>5 DEF StepFails, Polls, Struck, CanStep
  <2>2. s = t
    BY <1>2, <2>1
  <2> QED BY <2>1, <2>2
<1>6. CASE StepReads(t)
  <2>1. strikes' = [strikes EXCEPT ![t] = 0]
    BY <1>6 DEF StepReads
  <2> QED BY <1>2, <2>1
<1> QED BY <1>1, <1>3, <1>4, <1>5, <1>6 DEF StepSkips, StepWarms, StepWaits, ghostVars

\* scheduler.c: a failing component is not retried at the tick rate.  Two errors
\* of a component in ticks are its interval apart, however ticks are spaced.
THEOREM ErrorsAreSpaced == Spec => FailuresAreSpaced
<1> DEFINE A == \A s \in Slots : turn' = turn + 1 /\ strikes'[s] > strikes[s] /\ count' = count
                                    => rested[s] >= Vtables[s].interval
<1>1. IInv /\ [Next]_vars => [A]_vars
  <2> SUFFICES ASSUME IInv, Next, NEW s \in Slots,
                      turn' = turn + 1, strikes'[s] > strikes[s], count' = count
               PROVE  rested[s] >= Vtables[s].interval
    OBVIOUS
  <2>1. Loop /\ SlotInv(s) /\ {due[s], rested[s], strikes[s]} \subseteq Nat
    BY Parts, SteppingSlot
  <2>2. turn \in Int /\ count \in Int
    BY <2>1, SlotsAre DEF Loop
  <2>3. ~Add /\ ~BeginTick /\ ~Command
    <3>1. ~Add
      BY <2>2 DEF Add
    <3>2. ~BeginTick
      BY <2>1, <2>2 DEF BeginTick, Loop
    <3>3. ~Command
      BY <2>2 DEF Command
    <3> QED BY <3>1, <3>2, <3>3
  <2>4. due[s] = 0
    BY <2>3, StrikesAreDue DEF Next
  <2> QED BY <2>1, <2>4, VtableIs DEF SlotInv, Spaced
<1> QED BY <1>1, Invariant, PTL DEF Spec, FailuresAreSpaced
=============================================================================
