---------------------------- MODULE FileLogger ----------------------------
(***************************************************************************)
(* The concurrent side of splunk_file_logger.rs: clones of a FileLogger in *)
(* several threads, the bounded command queue, the worker thread, shutdown *)
(* and Drop.  A caller may be overtaken between any two accesses to shared *)
(* state: the load of the shutdown flag and the send that follows it, the  *)
(* look at strong_count and the release of the Arc, the reply and the      *)
(* join.  What the worker does to its file are the actions of LogSink,     *)
(* which LogFile implements.                                               *)
(***************************************************************************)
EXTENDS Integers, Sequences, FiniteSets

CONSTANTS
    Handle,         \* the clones of the logger, one per thread
    First,          \* the one FileLogger::new returns
    QueueCapacity,  \* FileLoggerConfig.queue_capacity, 0 standing for None
    MaxWrites,      \* bound: records logged through one handle
    MaxRecords,     \* bound: records logged through all of them
    MaxBatch,       \* bound: records in one call
    MaxRequests     \* bound: flush, rotate and stats calls of one handle

MIN_QUEUE_CAPACITY == 64

Capacity == IF QueueCapacity > 0 THEN QueueCapacity ELSE MIN_QUEUE_CAPACITY

ASSUME FileLoggerAssumption ==
    /\ IsFiniteSet(Handle)
    /\ First \in Handle
    /\ QueueCapacity \in Nat
    /\ MaxWrites \in Nat
    /\ MaxRecords \in Nat
    /\ MaxBatch \in Nat
    /\ MaxRequests \in Nat

\* The n-th record that goes through handle h.
Record == Handle \X (1..MaxWrites)

VARIABLES
    shutdown,    \* FileLoggerInner.shutdown
    join,        \* FileLoggerInner.join is Some
    finalStats,  \* FileLoggerInner.final_stats is Some
    handles,     \* the handles that hold the Arc (strong_count of them)
    queue,       \* the bounded channel
    receiver,    \* the Receiver of the channel exists
    pc,          \* where each caller is
    call,        \* the command of its current or last call
    reply,       \* its reply channel
    dropping,    \* the handles whose Drop is running
    written,     \* number of records logged through each handle
    requests,    \* number of other calls made through each handle
    worker,      \* where the worker thread is
    job,         \* the command in its hands
    panicked,    \* it has panicked
    buffered, stored, refused, writer,  \* the worker's file, see LogSink
    accepted,    \* history: records that went into the queue
    late,        \* history: those that did when shutdown was already set
    overtook,    \* history: the handles whose request did
    discarded,   \* history: records thrown away with the queue
    perished,    \* history: records lost with the worker's state
    before       \* history: records accepted when a flush or rotate began

Sink == INSTANCE LogSink

shared == <<shutdown, join, finalStats, handles>>
channel == <<queue, receiver>>
locals == <<pc, call, reply, before>>
counters == <<written, requests>>
caller == <<locals, dropping, counters>>
work == <<worker, job, panicked>>
sinkVars == <<buffered, stored, refused, writer>>
history == <<accepted, late, overtook, discarded, perished>>
vars == <<shared, channel, caller, work, sinkVars, history>>

Request == {"flush", "rotate", "stats"}
Command == [kind : {"none", "write", "shutdown"} \cup Request,
            from : Handle,
            records : Seq(Record)]

NoCommand(h) == [kind |-> "none", from |-> h, records |-> <<>>]
\* Only writes carry records, and no write is empty.
WellFormed(c) == c.kind = "write" <=> c.records # <<>>

Elements(s) == {s[i] : i \in DOMAIN s}
Queued == UNION {Elements(queue[i].records) : i \in DOMAIN queue}
Settled == Elements(stored) \cup refused

SharedOK ==
    /\ shutdown \in BOOLEAN
    /\ join \in BOOLEAN
    /\ finalStats \in BOOLEAN
    /\ handles \subseteq Handle

ChannelOK ==
    /\ queue \in Seq(Command)
    /\ \A i \in DOMAIN queue : WellFormed(queue[i])
    /\ receiver \in BOOLEAN

LocalsOK ==
    /\ pc \in [Handle -> {"unborn", "idle", "recheck", "send", "trySend",
                          "wait", "lock", "join", "query", "dropJoin",
                          "release", "gone"}]
    /\ call \in [Handle -> Command]
    /\ \A h \in Handle : call[h].from = h /\ WellFormed(call[h])
    /\ reply \in [Handle -> {"none", "ok", "ioError"}]
    /\ before \in [Handle -> SUBSET Record]

CountersOK ==
    /\ dropping \subseteq Handle
    /\ written \in [Handle -> 0..MaxWrites]
    /\ requests \in [Handle -> 0..MaxRequests]

WorkOK ==
    /\ worker \in {"recv", "write", "serve", "finalize", "close", "exit",
                   "done"}
    /\ job \in Command
    /\ panicked \in BOOLEAN
    /\ worker = "write" => job.records # <<>>

HistoryOK ==
    /\ accepted \subseteq Record
    /\ late \subseteq Record
    /\ overtook \subseteq Handle
    /\ discarded \subseteq Record
    /\ perished \subseteq Record

TypeOK ==
    /\ SharedOK
    /\ ChannelOK
    /\ LocalsOK
    /\ CountersOK
    /\ WorkOK
    /\ Sink!SinkTypeOK
    /\ HistoryOK

\* FileLogger::new
Init ==
    /\ shutdown = FALSE
    /\ join = TRUE
    /\ finalStats = FALSE
    /\ handles = {First}
    /\ queue = <<>>
    /\ receiver = TRUE
    /\ pc = [h \in Handle |-> IF h = First THEN "idle" ELSE "unborn"]
    /\ call = [h \in Handle |-> NoCommand(h)]
    /\ reply = [h \in Handle |-> "none"]
    /\ dropping = {}
    /\ written = [h \in Handle |-> 0]
    /\ requests = [h \in Handle |-> 0]
    /\ worker = "recv"
    /\ job = NoCommand(First)
    /\ panicked = FALSE
    /\ Sink!SinkInit
    /\ accepted = {}
    /\ late = {}
    /\ overtook = {}
    /\ discarded = {}
    /\ perished = {}
    /\ before = [h \in Handle |-> {}]

----------------------------------------------------------------------------
(* Calls.                                                                  *)

\* A call of h begins with a command for the worker ...
Enter(h, kind, records, where) ==
    /\ pc[h] = "idle"
    /\ pc' = [pc EXCEPT ![h] = where]
    /\ call' = [call EXCEPT ![h] = [kind |-> kind, from |-> h,
                                    records |-> records]]
    /\ before' = [before EXCEPT ![h] =
                      IF kind \in {"flush", "rotate"} THEN accepted ELSE {}]
    /\ UNCHANGED reply

\* ... goes on at `where' ...
Goto(h, where) ==
    /\ pc' = [pc EXCEPT ![h] = where]
    /\ UNCHANGED <<call, reply, before>>

\* ... and returns, when its locals go away; Drop releases the Arc next.
Return(h) ==
    /\ pc' = [pc EXCEPT ![h] = IF h \in dropping THEN "release" ELSE "idle"]
    /\ call' = [call EXCEPT ![h] = NoCommand(h)]
    /\ reply' = [reply EXCEPT ![h] = "none"]
    /\ before' = [before EXCEPT ![h] = {}]

\* send_command and try_send_command load the shutdown flag and, when it is
\* set, return an error (the call ends at once); the send is a later step.
Begin(h, kind, records, mode) ==
    IF shutdown
    THEN pc[h] = "idle" /\ UNCHANGED locals
    ELSE Enter(h, kind, records, mode)

\* log (n = 1) and log_batch (n > 0, an empty batch returns at once), and
\* their try_ forms.
Log(h, n, mode) ==
    /\ written[h] + n <= MaxWrites
    /\ Cardinality({r \in Record : r[2] <= written[r[1]]}) + n <= MaxRecords
    /\ Begin(h, "write", [i \in 1..n |-> <<h, written[h] + i>>], mode)
    /\ written' = [written EXCEPT ![h] = @ + n]
    /\ UNCHANGED <<shared, channel, dropping, requests, work, sinkVars,
                   history>>

\* flush (sync has the same form), rotate and their try_ forms.
Ask(h, kind, mode) ==
    /\ requests[h] < MaxRequests
    /\ Begin(h, kind, <<>>, mode)
    /\ requests' = [requests EXCEPT ![h] = @ + 1]
    /\ UNCHANGED <<shared, channel, dropping, written, work, sinkVars, history>>

\* stats loads the flag once before it calls send_command.
Stats(h) ==
    /\ ~shutdown
    /\ requests[h] < MaxRequests
    /\ Enter(h, "stats", <<>>, "recheck")
    /\ requests' = [requests EXCEPT ![h] = @ + 1]
    /\ UNCHANGED <<shared, channel, dropping, written, work, sinkVars, history>>

Recheck(h) ==
    /\ pc[h] = "recheck"
    /\ IF shutdown THEN Return(h) ELSE Goto(h, "send")
    /\ UNCHANGED <<shared, channel, dropping, counters, work, sinkVars, history>>

\* The first shutdown: it sets the flag and sends without looking at it.
StartShutdown(h) ==
    /\ ~shutdown
    /\ shutdown' = TRUE
    /\ Enter(h, "shutdown", <<>>, "send")
    /\ UNCHANGED <<join, finalStats, handles>>

Shutdown(h) ==
    /\ StartShutdown(h)
    /\ UNCHANGED <<channel, dropping, counters, work, sinkVars, history>>

\* shutdown or stats when the flag is set: they return the final statistics,
\* or an error when there are none, but wait for the lock first.
Query(h) ==
    /\ shutdown
    /\ requests[h] < MaxRequests
    /\ Enter(h, "stats", <<>>, "query")
    /\ requests' = [requests EXCEPT ![h] = @ + 1]
    /\ UNCHANGED <<shared, channel, dropping, written, work, sinkVars, history>>

\* shutdown holds final_stats while it joins the worker.
Locked == \E h \in Handle : pc[h] = "join"

QueryReturn(h) ==
    /\ pc[h] = "query"
    /\ ~Locked
    /\ Return(h)
    /\ UNCHANGED <<shared, channel, dropping, counters, work, sinkVars, history>>

----------------------------------------------------------------------------
(* The channel, as seen by a sender.                                       *)

\* The record of a write is accepted: the call returns Ok.
SendOk(h) ==
    LET records == Elements(call[h].records)
    IN  /\ pc[h] \in {"send", "trySend"}
        /\ receiver
        /\ Len(queue) < Capacity
        /\ queue' = Append(queue, call[h])
        /\ accepted' = accepted \cup records
        /\ late' = IF shutdown THEN late \cup records ELSE late
        /\ overtook' = IF shutdown /\ call[h].kind \notin {"write", "shutdown"}
                       THEN overtook \cup {h}
                       ELSE overtook
        /\ IF call[h].kind = "write" THEN Return(h) ELSE Goto(h, "wait")
        /\ UNCHANGED <<shared, receiver, dropping, counters, work, sinkVars,
                       discarded, perished>>

\* Mutant of TrySendFull: the record is dropped and the call returns Ok.
TrySendDrops(h) ==
    /\ pc[h] = "trySend"
    /\ receiver
    /\ Len(queue) >= Capacity
    /\ accepted' = accepted \cup Elements(call[h].records)
    /\ Return(h)
    /\ UNCHANGED <<shared, channel, dropping, counters, work, sinkVars, late,
                   overtook, discarded, perished>>

\* try_send: WouldBlock.
TrySendFull(h) ==
    /\ pc[h] = "trySend"
    /\ receiver
    /\ Len(queue) >= Capacity
    /\ Return(h)
    /\ UNCHANGED <<shared, channel, dropping, counters, work, sinkVars, history>>

\* A send, blocked or not, when the Receiver is gone: BrokenPipe.
SendDisconnected(h) ==
    /\ pc[h] \in {"send", "trySend"}
    /\ ~receiver
    /\ Return(h)
    /\ UNCHANGED <<shared, channel, dropping, counters, work, sinkVars, history>>

----------------------------------------------------------------------------
(* The reply, and the end of shutdown.                                     *)

\* shutdown goes on to join the worker.
Receive(h) ==
    /\ pc[h] = "wait"
    /\ reply[h] # "none"
    /\ IF call[h].kind = "shutdown" THEN Goto(h, "lock") ELSE Return(h)
    /\ UNCHANGED <<shared, channel, dropping, counters, work, sinkVars, history>>

\* The locks of join and of final_stats.
Lock(h) ==
    /\ pc[h] = "lock"
    /\ ~Locked
    /\ Goto(h, "join")
    /\ UNCHANGED <<shared, channel, dropping, counters, work, sinkVars, history>>

\* Mutant of Join: the handle is dropped, which detaches the thread.
Detach(h) ==
    /\ pc[h] = "join"
    /\ join' = FALSE
    /\ finalStats' = TRUE
    /\ Return(h)
    /\ UNCHANGED <<shutdown, handles, channel, dropping, counters, work,
                   sinkVars, history>>

Join(h) ==
    /\ pc[h] = "join"
    /\ join => worker = "done"
    /\ join' = FALSE
    /\ finalStats' = TRUE
    /\ Return(h)
    /\ UNCHANGED <<shutdown, handles, channel, dropping, counters, work,
                   sinkVars, history>>

----------------------------------------------------------------------------
(* Clone and Drop.                                                         *)

Clone(h, new) ==
    /\ pc[h] = "idle"
    /\ pc[new] = "unborn"
    /\ handles' = handles \cup {new}
    /\ Goto(new, "idle")
    /\ UNCHANGED <<shutdown, join, finalStats, channel, dropping, counters, work,
                   sinkVars, history>>

SoleOwner == Cardinality(handles) = 1

\* Mutant of DropStart: with the flag set, shutdown is taken to have joined.
DropStartLeaves(h) ==
    /\ pc[h] = "idle"
    /\ dropping' = dropping \cup {h}
    /\ \/ /\ ~SoleOwner \/ shutdown
          /\ Goto(h, "release")
          /\ UNCHANGED shared
       \/ /\ SoleOwner
          /\ StartShutdown(h)
    /\ UNCHANGED <<channel, counters, work, sinkVars, history>>

\* Drop::drop looks at strong_count and at the flag ...
DropStart(h) ==
    /\ pc[h] = "idle"
    /\ dropping' = dropping \cup {h}
    /\ \/ /\ ~SoleOwner
          /\ Goto(h, "release")
          /\ UNCHANGED shared
       \/ /\ SoleOwner
          /\ shutdown
          /\ Goto(h, IF join THEN "dropJoin" ELSE "release")
          /\ UNCHANGED shared
       \/ /\ SoleOwner
          /\ StartShutdown(h)
    /\ UNCHANGED <<channel, counters, work, sinkVars, history>>

DropJoin(h) ==
    /\ pc[h] = "dropJoin"
    /\ worker = "done"
    /\ join' = FALSE
    /\ Goto(h, "release")
    /\ UNCHANGED <<shutdown, finalStats, handles, channel, dropping, counters,
                   work, sinkVars, history>>

\* ... and only then is the Arc released, in a step of its own.
Release(h) ==
    /\ pc[h] = "release"
    /\ handles' = handles \ {h}
    /\ Goto(h, "gone")
    /\ UNCHANGED <<shutdown, join, finalStats, channel, dropping, counters, work,
                   sinkVars, history>>

----------------------------------------------------------------------------
(* The worker: worker_loop.                                                *)

Recv ==
    /\ worker = "recv"
    /\ queue # <<>>
    /\ job' = Head(queue)
    /\ queue' = Tail(queue)
    /\ worker' = CASE Head(queue).kind = "write" -> "write"
                   [] Head(queue).kind = "shutdown" -> "finalize"
                   [] OTHER -> "serve"
    /\ UNCHANGED <<shared, receiver, caller, panicked, sinkVars, history>>

\* Mutants of RecvDisconnected: the loop ends as soon as the flag is set, or
\* only once it is set.
RecvPollsFlag ==
    /\ worker = "recv"
    /\ shutdown \/ (queue = <<>> /\ handles = {})
    /\ job' = NoCommand(First)
    /\ worker' = "finalize"
    /\ UNCHANGED <<shared, channel, caller, panicked, sinkVars, history>>
RecvNeedsFlag ==
    /\ worker = "recv"
    /\ queue = <<>>
    /\ handles = {} /\ shutdown
    /\ job' = NoCommand(First)
    /\ worker' = "finalize"
    /\ UNCHANGED <<shared, channel, caller, panicked, sinkVars, history>>

\* All senders are gone and the queue is empty: break, then finalize.
RecvDisconnected ==
    /\ worker = "recv"
    /\ queue = <<>>
    /\ handles = {}
    /\ job' = NoCommand(First)
    /\ worker' = "finalize"
    /\ UNCHANGED <<shared, channel, caller, panicked, sinkVars, history>>

\* flush_if_due, after a command or a timeout; its error is only recorded.
AutoFlush ==
    /\ worker = "recv"
    /\ buffered # <<>>
    /\ \/ Sink!FlushOk
       \/ Sink!FlushErr
    /\ UNCHANGED <<shared, channel, caller, work, history>>

\* The next record of a Write or WriteBatch.
WriteOk ==
    LET records == job.records
    IN  /\ worker = "write"
        /\ Sink!Put(Head(records))
        /\ job' = [job EXCEPT !.records = Tail(records)]
        /\ worker' = IF Len(records) = 1 THEN "recv" ELSE "write"
        /\ UNCHANGED <<shared, channel, caller, panicked, history>>

\* Mutant of WriteErr: the command is queued again for a later attempt.
WriteRetry ==
    /\ worker = "write"
    /\ Sink!Fail({})
    /\ queue' = Append(queue, job)
    /\ job' = [job EXCEPT !.records = <<>>]
    /\ worker' = "recv"
    /\ UNCHANGED <<shared, receiver, caller, panicked, history>>

\* It fails, and with it the rest of the batch.
WriteErr ==
    /\ worker = "write"
    /\ Sink!Fail(Elements(job.records))
    /\ job' = [job EXCEPT !.records = <<>>]
    /\ worker' = "recv"
    /\ UNCHANGED <<shared, channel, caller, panicked, history>>

\* The panic of handle_write without a writer.
WritePanic ==
    /\ worker = "write"
    /\ ~writer
    /\ panicked' = TRUE
    /\ perished' = perished \cup Elements(job.records)
    /\ job' = [job EXCEPT !.records = <<>>]
    /\ worker' = "close"
    /\ UNCHANGED <<shared, channel, caller, sinkVars, accepted, late,
                   overtook, discarded>>

Reply(r) == reply' = [reply EXCEPT ![job.from] = r]

\* Mutant of Serve: a flush is answered with Ok whatever its outcome.
ServeOk ==
    /\ worker = "serve"
    /\ Reply("ok")
    /\ \/ job.kind = "stats" /\ UNCHANGED sinkVars
       \/ job.kind # "stats" /\ (Sink!FlushOk \/ Sink!FlushErr)
    /\ worker' = "recv"
    /\ job' = NoCommand(First)
    /\ UNCHANGED <<shared, channel, pc, call, before, dropping, counters,
                   panicked, history>>

\* Mutant of Serve: an error is only recorded, as it is for a write.
ServeSilent ==
    /\ worker = "serve"
    /\ \/ job.kind = "stats" /\ Reply("ok") /\ UNCHANGED sinkVars
       \/ job.kind # "stats" /\ Reply("ok") /\ Sink!FlushOk
       \/ job.kind = "flush" /\ UNCHANGED reply /\ Sink!FlushErr
       \/ job.kind = "rotate" /\ UNCHANGED reply /\ Sink!Fail({})
    /\ worker' = "recv"
    /\ job' = NoCommand(First)
    /\ UNCHANGED <<shared, channel, pc, call, before, dropping, counters,
                   panicked, history>>

\* Flush, Sync, Rotate and Stats; only a failed rotation can lose the writer.
Serve ==
    /\ worker = "serve"
    /\ \/ job.kind = "stats" /\ Reply("ok") /\ UNCHANGED sinkVars
       \/ job.kind # "stats" /\ Reply("ok") /\ Sink!FlushOk
       \/ job.kind = "flush" /\ Reply("ioError") /\ Sink!FlushErr
       \/ job.kind = "rotate" /\ Reply("ioError") /\ Sink!Fail({})
    /\ worker' = "recv"
    /\ job' = NoCommand(First)
    /\ UNCHANGED <<shared, channel, pc, call, before, dropping, counters,
                   panicked, history>>

\* Mutant of Finalize: the loop goes on after it has answered Shutdown.
FinalizeGoesOn ==
    /\ worker = "finalize"
    /\ \/ Sink!FlushOk
       \/ Sink!FlushErr
    /\ IF job.kind = "shutdown" THEN Reply("ok") ELSE UNCHANGED reply
    /\ worker' = IF job.kind = "shutdown" THEN "recv" ELSE "close"
    /\ UNCHANGED <<shared, channel, pc, call, before, dropping, counters, job,
                   panicked, history>>

\* finalize, and the reply to Shutdown if that is what ended the loop.
Finalize ==
    /\ worker = "finalize"
    /\ \/ Sink!FlushOk
       \/ Sink!FlushErr
    /\ IF job.kind = "shutdown" THEN Reply("ok") ELSE UNCHANGED reply
    /\ worker' = "close"
    /\ UNCHANGED <<shared, channel, pc, call, before, dropping, counters, job,
                   panicked, history>>

\* worker_loop returns or unwinds and drops the Receiver.  That disconnects
\* the bounded channel: blocked senders are woken with an error and nothing
\* in the queue is ever received.  It answers no request in it either: the
\* messages, with the reply Senders they hold, stay in the channel's memory
\* as long as a Sender does, and whoever waits for a reply holds one.
DropReceiver ==
    /\ worker = "close"
    /\ receiver' = FALSE
    /\ queue' = <<>>
    /\ discarded' = discarded \cup Queued
    /\ worker' = "exit"
    /\ UNCHANGED <<shared, caller, job, panicked, sinkVars, accepted, late,
                   overtook, perished>>

\* The closure drops WorkerState, and the thread ends.
Exit ==
    /\ worker = "exit"
    /\ Sink!Close
    /\ perished' = perished \cup (Elements(buffered) \ Elements(stored'))
    /\ worker' = "done"
    /\ UNCHANGED <<shared, channel, caller, job, panicked, accepted, late,
                   overtook, discarded>>

----------------------------------------------------------------------------
(* The behaviour.                                                          *)

\* What a caller starts, and what it does once it has started.
Start(h) ==
    \/ \E n \in 1..MaxBatch, mode \in {"send", "trySend"} : Log(h, n, mode)
    \/ \E kind \in {"flush", "rotate"}, mode \in {"send", "trySend"} :
          Ask(h, kind, mode)
    \/ Stats(h)
    \/ Shutdown(h)
    \/ Query(h)
    \/ DropStart(h)
    \/ \E new \in Handle : Clone(h, new)

Continue(h) ==
    \/ Recheck(h) \/ SendOk(h) \/ TrySendFull(h) \/ SendDisconnected(h)
    \/ Receive(h) \/ QueryReturn(h) \/ Lock(h) \/ Join(h)
    \/ DropJoin(h) \/ Release(h)

WorkerStep ==
    \/ Recv \/ RecvDisconnected
    \/ WriteOk \/ WriteErr \/ WritePanic
    \/ Serve \/ Finalize \/ DropReceiver \/ Exit

Next == (\E h \in Handle : Start(h) \/ Continue(h)) \/ WorkerStep \/ AutoFlush

Spec == Init /\ [][Next]_vars

\* The worker thread runs, and so does a caller inside a call; nobody has to
\* start one.
FairSpec ==
    Spec /\ WF_vars(WorkerStep) /\ \A h \in Handle : WF_vars(Continue(h))

----------------------------------------------------------------------------
(* What callers may rely on.                                               *)

InQueue(h) ==
    \E i \in DOMAIN queue : queue[i].from = h /\ queue[i].kind # "write"
InHand(h) ==
    /\ job.from = h
    /\ \/ worker = "serve"
       \/ worker = "finalize" /\ job.kind = "shutdown"

(***************************************************************************)
(* A record whose call returned Ok is in exactly one place: in the queue,  *)
(* in the worker's hands, in its buffer, stored, refused because of an I/O *)
(* error, or lost in one of the two ways the code has to lose it.          *)
(***************************************************************************)
Accounted ==
    LET places == <<Queued, Elements(job.records), Elements(buffered),
                    Elements(stored), refused, discarded, perished>>
    IN  /\ accepted = UNION {places[p] : p \in DOMAIN places}
        /\ \A p, q \in DOMAIN places : p # q => places[p] \cap places[q] = {}

(***************************************************************************)
(* The records of one handle reach the file in the order of its calls,     *)
(* whatever other threads do and whatever failed in between.               *)
(***************************************************************************)
CallerOrder ==
    \A h \in Handle :
        LET line == stored \o buffered \o job.records
        IN  /\ \A i, j \in DOMAIN line :
                  i < j /\ line[i][1] = h /\ line[j][1] = h
                      => line[i][2] < line[j][2]
            /\ \A i \in DOMAIN line, r \in Queued :
                  line[i][1] = h /\ r[1] = h => line[i][2] < r[2]

(***************************************************************************)
(* flush is a barrier: when flush or rotate returns Ok, every record that  *)
(* any thread had logged before the call began is stored or was refused    *)
(* because of an I/O error; none is still on its way, none was discarded.  *)
(***************************************************************************)
FlushBarrier ==
    \A h \in Handle :
        call[h].kind \in {"flush", "rotate"} /\ reply[h] = "ok"
            => before[h] \subseteq Settled

(***************************************************************************)
(* A call that returned Ok before shutdown was called is never undone by   *)
(* it: unless the worker panicked, only records that overtook the check of *)
(* the flag are thrown away with the queue.                                *)
(***************************************************************************)
DiscardedAreLate == ~panicked => discarded \subseteq late

(***************************************************************************)
(* When shutdown has returned its statistics, the file is final: every     *)
(* record accepted in time is stored or was refused, except those the last *)
(* flush failed to write, and nothing is buffered or queued any more.      *)
(***************************************************************************)
ShutdownDrains ==
    finalStats /\ ~panicked =>
        /\ worker = "done"
        /\ accepted \ late \subseteq Settled \cup perished
        /\ queue = <<>> /\ buffered = <<>>

\* A caller waits for a reply to a request that nobody will receive: the
\* worker panicked, or the request overtook the check of the flag.
Stranded(h) ==
    /\ ~receiver
    /\ pc[h] = "wait" /\ reply[h] = "none"
    /\ panicked \/ h \in overtook

(***************************************************************************)
(* A caller that waits for a reply will get one: its request is in the     *)
(* queue, in the worker's hands or answered.  Two kinds of callers do not: *)
(* those whose request was in the queue when the worker panicked, and      *)
(* those that loaded the shutdown flag before another thread set it and    *)
(* sent their request after.                                               *)
(***************************************************************************)
ReplyPending ==
    \A h \in Handle :
        pc[h] = "wait" /\ reply[h] = "none"
            => InQueue(h) \/ InHand(h) \/ Stranded(h)

(***************************************************************************)
(* What the error paths of flush, rotate, stats and shutdown say: a caller *)
(* whose request the worker will not receive gets "logger worker           *)
(* disconnected", so nobody waits for a reply that nobody can give.        *)
(***************************************************************************)
NobodyStranded == \A h \in Handle : ~Stranded(h)

(***************************************************************************)
(* A Drop that finds itself the last one does not return before the worker *)
(* thread has ended, even one that panicked and whose JoinHandle an        *)
(* earlier, failed shutdown left behind.  One case is left: the Drop calls *)
(* shutdown itself and its send fails, because the worker panicked.        *)
(***************************************************************************)
SoleDropWaits ==
    [][\A h \in dropping' :
          SoleOwner /\ pc[h] # "release" /\ pc'[h] = "release"
              => worker = "done" \/ (panicked /\ pc[h] = "send")]_vars

(***************************************************************************)
(* Every call returns: no thread waits forever for room in the queue, for  *)
(* a lock or for the worker, shut down or panicked or not, nor for a reply *)
(* unless it is stranded.                                                  *)
(***************************************************************************)
CallsReturn ==
    \A h \in Handle :
        []<>(pc[h] \in {"unborn", "idle", "gone"} \/ Stranded(h))

(***************************************************************************)
(* When the last handle is gone the worker ends too, even if no drop saw   *)
(* itself as the last one and so nobody called shutdown or joined it.      *)
(***************************************************************************)
WorkerEnds == []<>(handles = {} => worker = "done")
=============================================================================
