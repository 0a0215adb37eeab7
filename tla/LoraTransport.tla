--------------------------- MODULE LoraTransport ---------------------------
(***************************************************************************)
(* The half-duplex radio driver, firmware/common/src/lora_transport.cpp,   *)
(* and the SX1262 it drives.  The chip signals both the end of a           *)
(* transmission and a received packet on one pin, DIO1; the interrupt sets *)
(* a flag and poll() tells the two apart by the state of the driver.  The  *)
(* chip moves at any time, so poll() is split after it takes the flag.     *)
(*                                                                         *)
(* The chip, external, is modelled as the code uses it: it listens until   *)
(* it holds a packet, raises DIO1 once for it, and forgets it when it is   *)
(* told to listen or to send.                                              *)
(***************************************************************************)
EXTENDS Integers

VARIABLES
    state,       \* state_: "receiving" or "transmitting"
    irqPending,  \* g_irqPending
    radio,       \* the chip: "rx", "rxdone", "tx", "txdone"
    left         \* airtime until the transmission in progress ends

transportVars == <<state, irqPending, radio, left>>

\* begin() has armed the receiver.
TransportInit ==
    /\ state = "receiving"
    /\ irqPending = FALSE
    /\ radio = "rx"
    /\ left = 0

StartReceive == radio' = "rx" /\ left' = 0

-----------------------------------------------------------------------------
\* The chip, with onDio1Interrupt().

\* A packet is complete; length, CRC and content are up to its sender.
PacketArrives ==
    /\ radio = "rx"
    /\ radio' = "rxdone"
    /\ irqPending' = TRUE
    /\ UNCHANGED <<state, left>>

TransmissionEnds ==
    /\ radio = "tx"
    /\ left = 0
    /\ radio' = "txdone"
    /\ irqPending' = TRUE
    /\ UNCHANGED <<state, left>>

AirTimePasses ==
    /\ radio = "tx" => left > 0
    /\ left' = IF radio = "tx" THEN left - 1 ELSE 0
    /\ UNCHANGED <<state, irqPending, radio>>

-----------------------------------------------------------------------------
\* send() while a frame is on its way: refused, never queued.
Busy == state = "transmitting" /\ UNCHANGED transportVars

\* send() of a frame of that airtime.  startTransmit may refuse.
SendOk(cost) ==
    /\ state # "transmitting"
    /\ state' = "transmitting"
    /\ radio' = "tx"
    /\ left' = cost
    /\ UNCHANGED irqPending

SendFails ==
    /\ state # "transmitting"
    /\ StartReceive
    /\ UNCHANGED <<state, irqPending>>

\* poll() takes the flag ...
TakeFlag ==
    /\ irqPending
    /\ irqPending' = FALSE
    /\ UNCHANGED <<state, radio, left>>

\* Mutant: the flag is cleared after the receiver is armed, not before the
\* event is handled; a packet that completes in between has no flag left.
FinishTransmitLate ==
    /\ state = "transmitting"
    /\ state' = "receiving"
    /\ radio' \in {"rx", "rxdone"}
    /\ left' = 0
    /\ irqPending' = FALSE

\* ... and takes it for the end of a transmission, if one was started,
FinishTransmit ==
    /\ state = "transmitting"
    /\ state' = "receiving"
    /\ StartReceive
    /\ UNCHANGED irqPending

\* ... or for a packet: read, handed up if its header decodes, re-armed last.
ReadPacket ==
    /\ state = "receiving"
    /\ StartReceive
    /\ UNCHANGED <<state, irqPending>>
=============================================================================
