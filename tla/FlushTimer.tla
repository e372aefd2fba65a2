----------------------------- MODULE FlushTimer -----------------------------
(***************************************************************************)
(* When does the worker of splunk_file_logger.rs write its buffer to the   *)
(* file by itself?  Two clocks decide: the timeout of recv_timeout, which  *)
(* starts again with every command, and WorkerState.next_auto_flush, which *)
(* every write moves into the future.  Time advances in ticks; the worker  *)
(* is prompt: a command or an expired timeout is handled before the next   *)
(* tick, and flush_if_due runs after it as in worker_loop.                 *)
(***************************************************************************)
EXTENDS Integers

CONSTANTS
    Interval,       \* auto_flush_interval (Some), in ticks
    BufferRecords,  \* records that fit in the BufWriter
    MaxFaults,      \* bound: flushes that fail
    MaxTime         \* bound: ticks counted by age and quiet

ASSUME TimerAssumption ==
    /\ Interval \in Nat \ {0}
    /\ BufferRecords \in Nat \ {0}
    /\ MaxFaults \in Nat
    /\ MaxTime \in Nat

VARIABLES
    wait,      \* ticks until recv_timeout gives up
    deadline,  \* ticks until next_auto_flush
    dirty,     \* WorkerState.dirty
    held,      \* number of records in the BufWriter
    faults,    \* number of flushes that failed so far
    age,       \* history: ticks since the oldest of them was written
    quiet      \* history: ticks since the last write

timerVars == <<wait, deadline, dirty, held, faults, age, quiet>>

TimerTypeOK ==
    /\ wait \in 0..Interval
    /\ deadline \in 0..Interval
    /\ dirty \in BOOLEAN
    /\ held \in 0..BufferRecords
    /\ faults \in 0..MaxFaults
    /\ age \in 0..MaxTime
    /\ quiet \in 0..MaxTime

\* WorkerState::new
TimerInit ==
    /\ wait = Interval
    /\ deadline = Interval
    /\ dirty = FALSE
    /\ held = 0
    /\ faults = 0
    /\ age = 0
    /\ quiet = 0

\* flush: the buffer is written and next_auto_flush starts again; a failed
\* flush leaves both, and the flag, as they are.
FlushOk ==
    /\ held' = 0
    /\ age' = 0
    /\ dirty' = FALSE
    /\ deadline' = Interval
    /\ UNCHANGED faults

FlushErr ==
    /\ faults < MaxFaults
    /\ faults' = faults + 1
    /\ UNCHANGED <<held, age, dirty, deadline>>

FlushIfDue ==
    IF dirty /\ deadline = 0
    THEN FlushOk \/ FlushErr
    ELSE UNCHANGED <<held, age, dirty, deadline, faults>>

\* Command::Write; flush_if_due finds the deadline it has just moved.
Write ==
    /\ IF held < BufferRecords
       THEN held' = held + 1 /\ UNCHANGED age
       ELSE held' = 1 /\ age' = 0
    /\ dirty' = TRUE
    /\ deadline' = Interval
    /\ quiet' = 0
    /\ wait' = Interval
    /\ UNCHANGED faults

\* Command::Flush (Sync and Rotate flush too); after an error flush_if_due
\* may try once more, with the same outcomes.
Flush ==
    /\ FlushOk \/ FlushErr
    /\ wait' = Interval
    /\ UNCHANGED quiet

\* Mutant of AskStats: flush_if_due is called on a timeout only.
StatsOnly ==
    /\ wait' = Interval
    /\ UNCHANGED <<deadline, dirty, held, faults, age, quiet>>

\* Command::Stats: nothing but the flush_if_due that follows it.
AskStats ==
    /\ FlushIfDue
    /\ wait' = Interval
    /\ UNCHANGED quiet

\* Mutant of Timeout: flush_if_due is called after a command only.
TimeoutOnly ==
    /\ wait = 0
    /\ wait' = Interval
    /\ UNCHANGED <<deadline, dirty, held, faults, age, quiet>>

\* recv_timeout gives up.
Timeout ==
    /\ wait = 0
    /\ FlushIfDue
    /\ wait' = Interval
    /\ UNCHANGED quiet

Tick ==
    /\ wait > 0
    /\ age < MaxTime /\ quiet < MaxTime
    /\ wait' = wait - 1
    /\ deadline' = IF deadline > 0 THEN deadline - 1 ELSE 0
    /\ age' = IF held > 0 THEN age + 1 ELSE 0
    /\ quiet' = IF held > 0 THEN quiet + 1 ELSE 0
    /\ UNCHANGED <<dirty, held, faults>>

TimerNext == Write \/ Flush \/ AskStats \/ Timeout \/ Tick

TimerSpec == TimerInit /\ [][TimerNext]_timerVars

----------------------------------------------------------------------------
(***************************************************************************)
(* Once writes stop, what is buffered is flushed in less than two          *)
(* intervals, however often other commands start recv_timeout again; each  *)
(* failed flush costs one more interval at most.                           *)
(***************************************************************************)
QuietFlushed ==
    held > 0 => quiet < (2 + faults) * Interval

(***************************************************************************)
(* While writes keep coming, nothing but a full buffer forces a flush: a   *)
(* record may wait for as many writes as the buffer holds, each just under *)
(* two intervals after the one before, and no longer.                      *)
(***************************************************************************)
AgeBounded ==
    faults = 0 => age <= BufferRecords * (2 * Interval - 1)

=============================================================================
