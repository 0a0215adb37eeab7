-------------------------------- MODULE Arq --------------------------------
(***************************************************************************)
(* The stop-and-wait sender of firmware/common/src/arq.c (twin: arq.ts):   *)
(* one frame in flight, retransmitted with exponential backoff and jitter, *)
(* given up after MaxRetries retransmissions, each of which a duty-cycle   *)
(* guard may postpone.                                                     *)
(*                                                                         *)
(* Time is counted in units of the deferral delay.  next_retry_us is kept  *)
(* as what is left of it, due.  The statistics and the frame buffer are    *)
(* left out.                                                               *)
(***************************************************************************)
EXTENDS Integers

CONSTANTS
    ArqSeqs,      \* the sequence numbers a frame can carry
    MaxRetries,   \* LH_ARQ_MAX_RETRIES
    Base,         \* LH_ARQ_BASE_TIMEOUT_MS
    Jitter,       \* the largest jitter, LH_ARQ_JITTER_MS - 1
    Defer         \* LH_ARQ_DEFER_RETRY_MS

ASSUME ArqAssumption ==
    /\ 0 \in ArqSeqs
    /\ MaxRetries \in Nat
    /\ Base \in Nat \ {0}
    /\ Jitter \in Nat
    /\ Defer \in Nat \ {0}

VARIABLES
    state,       \* lh_arq_state_t
    seq,         \* the frame in flight
    retryCount,  \* retransmissions of it so far
    due          \* time left until next_retry_us, 0 once it is reached

arqVars == <<state, seq, retryCount, due>>

States == {"idle", "wait_ack", "done", "failed"}

\* lh_arq_timeout_ms: doubling, capped at the last retry, plus jitter.
Backoff(retry) ==
    Base * 2 ^ (IF retry > MaxRetries THEN MaxRetries ELSE retry)

Timeout(retry) == {Backoff(retry) + j : j \in 0 .. Jitter}

ArqInit ==
    /\ state = "idle"
    /\ seq = 0
    /\ retryCount = 0
    /\ due = 0

\* lh_arq_send accepts a frame unless one is in flight.
SendFrame(s) ==
    /\ state # "wait_ack"
    /\ state' = "wait_ack"
    /\ seq' = s
    /\ retryCount' = 0
    /\ due' \in Timeout(0)

\* lh_arq_on_ack: only the frame in flight can be acknowledged.
AckMatches(s) == state = "wait_ack" /\ s = seq

OnAck(s) ==
    IF AckMatches(s)
    THEN state' = "done" /\ UNCHANGED <<seq, retryCount, due>>
    ELSE UNCHANGED <<state, seq, retryCount, due>>

\* lh_arq_tick when the retry is due, one action for each of its answers.
RetryDue == state = "wait_ack" /\ due = 0

\* Mutants: the last wait is never ended; a deferral costs an attempt; a
\* backoff that does not double.
GiveUpNever == RetryDue /\ retryCount > MaxRetries /\ state' = "failed"
               /\ UNCHANGED <<seq, retryCount, due>>
PostponeCounts == RetryDue /\ retryCount < MaxRetries /\ due' = Defer
                  /\ retryCount' = retryCount + 1 /\ UNCHANGED <<state, seq>>
RetransmitFlat == RetryDue /\ retryCount < MaxRetries /\ due' \in Timeout(0)
                  /\ retryCount' = retryCount + 1 /\ UNCHANGED <<state, seq>>

GiveUp ==
    /\ RetryDue
    /\ retryCount >= MaxRetries
    /\ state' = "failed"
    /\ UNCHANGED <<seq, retryCount, due>>

\* The guard said no: ask again shortly, without consuming an attempt.
Postpone ==
    /\ RetryDue
    /\ retryCount < MaxRetries
    /\ due' = Defer
    /\ UNCHANGED <<state, seq, retryCount>>

Retransmit ==
    /\ RetryDue
    /\ retryCount < MaxRetries
    /\ retryCount' = retryCount + 1
    /\ due' \in Timeout(retryCount')
    /\ UNCHANGED <<state, seq>>

\* lh_arq_reset
Reset ==
    /\ state' = "idle"
    /\ seq' = 0
    /\ retryCount' = 0
    /\ due' = 0

\* One unit of time.
Elapse ==
    /\ state = "wait_ack"
    /\ due > 0
    /\ due' = due - 1
    /\ UNCHANGED <<state, seq, retryCount>>

ArqTypeOK ==
    /\ state \in States
    /\ seq \in ArqSeqs
    /\ retryCount \in 0 .. MaxRetries
    /\ due \in 0 .. (Backoff(MaxRetries) + Jitter + Defer)
=============================================================================
