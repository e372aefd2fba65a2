----------------------------- MODULE JsonLogger -----------------------------
(***************************************************************************)
(* splunk_json_logger.rs: clones of a JsonLogger in several threads, the   *)
(* lock that covers the test of the shutdown flag and the send, the worker *)
(* that collects records into batches, and their delivery: over HTTP, to a *)
(* file, or over HTTP with the file for what could not be delivered.       *)
(* Each record is followed until it is delivered, written, or lost, and so *)
(* is the news of its loss.  The file is a FileLogger whose only caller is *)
(* the worker: what module FileLogger shows of it is assumed here.         *)
(***************************************************************************)
EXTENDS Integers, Sequences, FiniteSets

CONSTANTS
    Handle,         \* the clones of the logger, one per thread
    First,          \* the one JsonLogger::new returns
    QueueCapacity,  \* JsonLoggerConfig.queue_capacity, 0 standing for None
    BatchSize,      \* JsonLoggerConfig.batch_size
    MaxLogs,        \* bound: records logged
    MaxCalls        \* bound: calls other than clone, drop and the first shutdown

MIN_QUEUE_CAPACITY == 64
Capacity == IF QueueCapacity > 0 THEN QueueCapacity ELSE MIN_QUEUE_CAPACITY

ASSUME JsonLoggerAssumption ==
    /\ IsFiniteSet(Handle)
    /\ First \in Handle
    /\ QueueCapacity \in Nat
    /\ BatchSize \in Nat
    /\ MaxLogs \in Nat
    /\ MaxCalls \in Nat

\* Records are numbered in the order in which their calls begin.
Record == 1..MaxLogs

VARIABLES
    destination,  \* LogDestination
    timer,        \* auto_flush_interval is Some
    lock,         \* who holds command_lock
    shutdown,     \* JsonLoggerInner.shutdown
    finalStats,   \* JsonLoggerInner.final_stats is Some
    handles,      \* the handles that hold the Arc (strong_count of them)
    dropping,     \* those whose Drop is running
    queue,        \* the bounded channel
    receiver,     \* its Receiver exists
    pc,           \* where each caller is
    call,         \* its command
    reply,        \* the reply channel of the command
    logged,       \* number of records logged so far
    requests,     \* number of other calls made so far
    worker,       \* where the worker thread is
    job,          \* the command that made it flush the batch
    batch,        \* WorkerCtx.batch
    pending,      \* WorkerCtx.pending_delivery_error is Some
    result,       \* what flush_batch returned
    fileUp,       \* the FileLogger's own worker runs
    filed,        \* records the FileLogger has taken and not settled
    stored,       \* records it has settled: in the file, or given up after
                  \* an I/O error that only its own statistics tell of
    perished,     \* records lost with the FileLogger's worker
    delivered,    \* records the HTTP endpoint has accepted
    lost,         \* records flush_batch could not deliver anywhere
    doubtful,     \* history: those of requests that failed after acceptance
    accepted,     \* history: records that went into the queue
    told,         \* history: losses that a flush has returned an error after
    before        \* history: records accepted when the current flush began

callers == <<lock, shutdown, finalStats, handles, dropping, pc, call, reply,
             logged, requests, before>>
channel == <<queue, receiver>>
work == <<worker, job, batch, pending, result>>
fileSide == <<fileUp, filed, stored, perished>>
outcome == <<fileSide, delivered, lost, doubtful, told>>
config == <<destination, timer>>
vars == <<config, callers, channel, work, outcome, accepted>>

Http == destination \in {"http", "httpWithFileFallback"}
File == destination \in {"file", "httpWithFileFallback"}

Kind == {"none", "log", "flush", "stats", "shutdown"}
\* ifFull: what the call does when there is no room in the queue.
Command == [kind : Kind, from : Handle, record : 0..MaxLogs, ifFull : {"wait", "return"}]
NoCommand(h) == [kind |-> "none", from |-> h, record |-> 0, ifFull |-> "wait"]

Elements(s) == {s[i] : i \in DOMAIN s}
Queued == {queue[i].record : i \in {j \in DOMAIN queue : queue[j].kind = "log"}}
Settled == delivered \cup stored

CallersOK ==
    /\ lock \in SUBSET Handle
    /\ shutdown \in BOOLEAN
    /\ finalStats \in BOOLEAN
    /\ handles \subseteq Handle
    /\ dropping \subseteq Handle
    /\ pc \in [Handle -> {"unborn", "idle", "lock", "send", "wait", "join",
                          "query", "release", "gone"}]
    /\ call \in [Handle -> Command]
    /\ \A h \in Handle : call[h].kind = "log" => call[h].record \in Record
    /\ reply \in [Handle -> {"none", "ok", "error"}]
    /\ logged \in 0..MaxLogs
    /\ requests \in 0..MaxCalls
    /\ before \in [Handle -> SUBSET Record]

WorkOK ==
    /\ queue \in Seq(Command)
    /\ \A i \in DOMAIN queue : queue[i].kind = "log" => queue[i].record \in Record
    /\ receiver \in BOOLEAN
    /\ worker \in {"recv", "flush", "after", "stuck", "done"}
    /\ job \in [kind : Kind \cup {"timeout"}, from : Handle]
    /\ batch \in Seq(Record)
    /\ pending \in BOOLEAN
    /\ result \in {"ok", "error"}

OutcomeOK ==
    /\ fileUp \in BOOLEAN
    /\ filed \subseteq Record /\ stored \subseteq Record /\ perished \subseteq Record
    /\ delivered \subseteq Record /\ lost \subseteq Record /\ doubtful \subseteq Record
    /\ accepted \subseteq Record /\ told \subseteq Record

TypeOK ==
    /\ destination \in {"http", "httpWithFileFallback", "file"}
    /\ timer \in BOOLEAN
    /\ CallersOK
    /\ WorkOK
    /\ OutcomeOK

----------------------------------------------------------------------------
(* JsonLogger::new.                                                        *)

\* An invalid URL, or a client that cannot be built, counts as none when
\* there is a file to use instead, and is an error otherwise.
Destination(url, hasFile) ==
    CASE url = "good" -> IF hasFile THEN "httpWithFileFallback" ELSE "http"
      [] url = "none" /\ ~hasFile -> "noDestination"
      [] url = "invalid" /\ ~hasFile -> "invalidUrl"
      [] url = "setupFails" /\ ~hasFile -> "httpSetup"
      [] OTHER -> "file"

Init ==
    /\ \E url \in {"none", "invalid", "setupFails", "good"}, hasFile \in BOOLEAN :
          /\ destination = Destination(url, hasFile)
          /\ destination \notin {"noDestination", "invalidUrl", "httpSetup"}
    /\ timer \in BOOLEAN
    /\ lock = {}
    /\ shutdown = FALSE
    /\ finalStats = FALSE
    /\ handles = {First}
    /\ dropping = {}
    /\ queue = <<>>
    /\ receiver = TRUE
    /\ pc = [h \in Handle |-> IF h = First THEN "idle" ELSE "unborn"]
    /\ call = [h \in Handle |-> NoCommand(h)]
    /\ reply = [h \in Handle |-> "none"]
    /\ logged = 0
    /\ requests = 0
    /\ worker = "recv"
    /\ job = [kind |-> "none", from |-> First]
    /\ batch = <<>>
    /\ pending = FALSE
    /\ result = "ok"
    /\ fileUp = File
    /\ filed = {} /\ stored = {} /\ perished = {}
    /\ delivered = {} /\ lost = {} /\ doubtful = {}
    /\ accepted = {}
    /\ told = {}
    /\ before = [h \in Handle |-> {}]

----------------------------------------------------------------------------
(* Calls.                                                                  *)

Enter(h, kind, record, ifFull, where) ==
    /\ pc[h] = "idle"
    /\ pc' = [pc EXCEPT ![h] = where]
    /\ call' = [call EXCEPT ![h] = [kind |-> kind, from |-> h, record |-> record,
                                    ifFull |-> ifFull]]
    /\ before' = [before EXCEPT ![h] = IF kind = "flush" THEN accepted ELSE {}]
    /\ UNCHANGED reply

Goto(h, where) ==
    /\ pc' = [pc EXCEPT ![h] = where]
    /\ UNCHANGED <<call, reply, before>>

\* The call returns, and when Drop has made it the Arc is released next.
Return(h) ==
    /\ pc' = [pc EXCEPT ![h] = IF h \in dropping THEN "release" ELSE "idle"]
    /\ call' = [call EXCEPT ![h] = NoCommand(h)]
    /\ reply' = [reply EXCEPT ![h] = "none"]
    /\ before' = [before EXCEPT ![h] = {}]

RestOfLogger == UNCHANGED <<config, channel, work, outcome, accepted>>

\* log_json, log_fields, info, ... and try_log_json.
Log(h, ifFull) ==
    /\ logged < MaxLogs /\ logged + requests < MaxCalls
    /\ Enter(h, "log", logged + 1, ifFull, "lock")
    /\ logged' = logged + 1
    /\ UNCHANGED <<lock, shutdown, finalStats, handles, dropping, requests>>
    /\ RestOfLogger

\* flush; stats, which looks at the flag first; shutdown, also a second one.
Ask(h, kind) ==
    /\ kind # "shutdown" \/ shutdown => logged + requests < MaxCalls
    /\ Enter(h, kind, 0, "wait",
             IF kind = "stats" /\ shutdown THEN "query" ELSE "lock")
    /\ requests' = IF kind # "shutdown" \/ shutdown
                   THEN requests + 1 ELSE requests
    /\ UNCHANGED <<lock, shutdown, finalStats, handles, dropping, logged>>
    /\ RestOfLogger

\* Mutant of Acquire: the lock is taken for the send only.
AcquireUnlocked(h) ==
    /\ pc[h] = "lock"
    /\ IF shutdown
       THEN /\ IF call[h].kind = "shutdown" THEN Goto(h, "query") ELSE Return(h)
            /\ UNCHANGED <<lock, shutdown>>
       ELSE /\ shutdown' = (call[h].kind = "shutdown")
            /\ Goto(h, "send")
            /\ UNCHANGED lock
    /\ UNCHANGED <<finalStats, handles, dropping, logged, requests>>
    /\ RestOfLogger

\* Under command_lock the flag is tested, and set by shutdown; the lock is
\* kept for the send, or released by the early return.
Acquire(h) ==
    /\ pc[h] = "lock"
    /\ lock = {}
    /\ IF shutdown
       THEN /\ IF call[h].kind = "shutdown" THEN Goto(h, "query") ELSE Return(h)
            /\ UNCHANGED <<lock, shutdown>>
       ELSE /\ shutdown' = (call[h].kind = "shutdown")
            /\ Goto(h, "send")
            /\ lock' = {h}
    /\ UNCHANGED <<finalStats, handles, dropping, logged, requests>>
    /\ RestOfLogger

\* send blocks while the queue is full, with the lock held.
Send(h) ==
    /\ pc[h] = "send"
    /\ receiver
    /\ Len(queue) < Capacity
    /\ queue' = Append(queue, call[h])
    /\ lock' = lock \ {h}
    /\ IF call[h].kind = "log"
       THEN accepted' = accepted \cup {call[h].record} /\ Return(h)
       ELSE UNCHANGED accepted /\ Goto(h, "wait")
    /\ UNCHANGED <<shutdown, finalStats, handles, dropping, logged, requests,
                   receiver, config, work, outcome>>

\* Mutant of QueueFull: the lock is not released on the error path.
QueueFullKeepsLock(h) ==
    /\ pc[h] = "send"
    /\ call[h].ifFull = "return"
    /\ Len(queue) >= Capacity
    /\ Return(h)
    /\ UNCHANGED <<lock, shutdown, finalStats, handles, dropping, logged, requests>>
    /\ RestOfLogger

QueueFull(h) ==
    /\ pc[h] = "send"
    /\ call[h].ifFull = "return"
    /\ Len(queue) >= Capacity
    /\ lock' = lock \ {h}
    /\ Return(h)
    /\ UNCHANGED <<shutdown, finalStats, handles, dropping, logged, requests>>
    /\ RestOfLogger

\* shutdown goes on to join the worker.
Receive(h) ==
    /\ pc[h] = "wait"
    /\ reply[h] # "none"
    /\ IF call[h].kind = "shutdown" THEN Goto(h, "join") ELSE Return(h)
    /\ UNCHANGED <<lock, shutdown, finalStats, handles, dropping, logged, requests>>
    /\ RestOfLogger

\* It does so with the locks of join and final_stats held.
Join(h) ==
    /\ pc[h] = "join"
    /\ worker = "done"
    /\ finalStats' = TRUE
    /\ Return(h)
    /\ UNCHANGED <<lock, shutdown, handles, dropping, logged, requests>>
    /\ RestOfLogger

\* stats or a second shutdown looks for the final statistics; without any
\* stats sends its command all the same and shutdown fails.
Query(h) ==
    /\ pc[h] = "query"
    /\ \A g \in Handle : pc[g] # "join"
    /\ IF call[h].kind = "stats" /\ ~finalStats
       THEN Goto(h, "lock")
       ELSE Return(h)
    /\ UNCHANGED <<lock, shutdown, finalStats, handles, dropping, logged, requests>>
    /\ RestOfLogger

Clone(h, new) ==
    /\ pc[h] = "idle"
    /\ pc[new] = "unborn"
    /\ handles' = handles \cup {new}
    /\ Goto(new, "idle")
    /\ UNCHANGED <<lock, shutdown, finalStats, dropping, logged, requests>>
    /\ RestOfLogger

\* Drop looks at strong_count, and the last one calls shutdown; the Arc is
\* released in a step of its own.
DropStart(h) ==
    /\ dropping' = dropping \cup {h}
    /\ IF handles = {h}
       THEN Enter(h, "shutdown", 0, "wait", "lock")
       ELSE pc[h] = "idle" /\ Goto(h, "release")
    /\ UNCHANGED <<lock, shutdown, finalStats, handles, logged, requests>>
    /\ RestOfLogger

Release(h) ==
    /\ pc[h] = "release"
    /\ handles' = handles \ {h}
    /\ Goto(h, "gone")
    /\ UNCHANGED <<lock, shutdown, finalStats, dropping, logged, requests>>
    /\ RestOfLogger

----------------------------------------------------------------------------
(* The FileLogger, as module FileLogger shows it to its only caller.       *)

\* Its worker ends: some of what it had taken is in the file, the rest gone.
FileDies(taken) ==
    \E S \in SUBSET filed :
        /\ stored' = stored \cup S
        /\ perished' = perished \cup (filed \ S) \cup taken
        /\ filed' = {}
        /\ fileUp' = FALSE

(***************************************************************************)
(* write_ndjson: log_with_header of each record of R; those the FileLogger *)
(* does not take (its worker has ended, perhaps on the way) are lost, and  *)
(* the result is the first error.                                          *)
(***************************************************************************)
FileWrite(R, res) ==
    \E taken \in SUBSET R :
        /\ taken # {} => fileUp
        /\ IF taken = R
           THEN filed' = filed \cup R /\ UNCHANGED <<fileUp, stored, perished>>
           ELSE FileDies(taken)
        /\ lost' = lost \cup (R \ taken)
        /\ res = IF taken = R THEN "ok" ELSE "error"

\* FileLogger::flush.  It is a barrier when it returns Ok; records that met
\* an I/O error on the way are not its concern.
FileFlush(res) ==
    \/ /\ res = "ok"
       /\ fileUp
       /\ stored' = stored \cup filed
       /\ filed' = {}
       /\ UNCHANGED <<fileUp, perished>>
    \/ res = "error" /\ UNCHANGED fileSide
    \/ res = "error" /\ fileUp /\ FileDies({})

\* FileLogger::flush or shutdown when its worker panics with their command
\* in the queue: the caller is stranded (see module FileLogger).
FileStrands == fileUp /\ filed # {} /\ FileDies({})

----------------------------------------------------------------------------
(* The worker: worker_loop and flush_batch.                                *)

Reply(h, r) == reply' = [reply EXCEPT ![h] = r]
JobIs(kind, h) == job' = [kind |-> kind, from |-> h]
\* Back to the loop; the locals of flush_batch and of the command are gone.
Loop == worker' = "recv" /\ JobIs("none", First) /\ result' = "ok"
CallersWait == UNCHANGED <<config, callers, accepted>>

\* A record joins the batch, which is flushed when it is full; without HTTP
\* it goes to the file at once and the result is ignored.
RecvLog ==
    /\ worker = "recv"
    /\ queue # <<>> /\ Head(queue).kind = "log"
    /\ queue' = Tail(queue)
    /\ LET r == Head(queue).record
       IN  IF Http
           THEN /\ batch' = Append(batch, r)
                /\ JobIs("log", First)
                /\ worker' = IF Len(batch) + 1 >= BatchSize THEN "flush" ELSE "recv"
                /\ UNCHANGED <<fileSide, lost>>
           ELSE /\ \E res \in {"ok", "error"} : FileWrite({r}, res)
                /\ UNCHANGED <<batch, job, worker>>
    /\ UNCHANGED <<receiver, pending, result, delivered, doubtful, told>>
    /\ CallersWait

RecvStats ==
    /\ worker = "recv"
    /\ queue # <<>> /\ Head(queue).kind = "stats"
    /\ queue' = Tail(queue)
    /\ Reply(Head(queue).from, "ok")
    /\ UNCHANGED <<config, lock, shutdown, finalStats, handles, dropping, pc, call,
                   logged, requests, before, receiver, work, outcome, accepted>>

\* Flush and Shutdown begin with flush_batch.
RecvFlush ==
    /\ worker = "recv"
    /\ queue # <<>> /\ Head(queue).kind \in {"flush", "shutdown"}
    /\ queue' = Tail(queue)
    /\ JobIs(Head(queue).kind, Head(queue).from)
    /\ worker' = "flush"
    /\ UNCHANGED <<receiver, batch, pending, result, outcome>>
    /\ CallersWait

\* Mutant of Timeout: it only starts the interval again.
TimeoutIdle ==
    /\ worker = "recv"
    /\ queue = <<>> /\ timer /\ handles # {}
    /\ UNCHANGED <<config, callers, channel, work, outcome, accepted>>

\* recv_timeout finds nothing before next_flush.
Timeout ==
    /\ worker = "recv"
    /\ queue = <<>> /\ timer /\ handles # {}
    /\ JobIs("timeout", First)
    /\ worker' = "flush"
    /\ UNCHANGED <<channel, batch, pending, result, outcome>>
    /\ CallersWait

\* All handles are gone without a shutdown: the loop breaks.
RecvDisconnected ==
    /\ worker = "recv"
    /\ queue = <<>> /\ handles = {}
    /\ JobIs("none", First)
    /\ worker' = "flush"
    /\ UNCHANGED <<channel, batch, pending, result, outcome>>
    /\ CallersWait

\* flush_batch of an empty batch.
FlushNothing ==
    /\ worker = "flush"
    /\ batch = <<>>
    /\ result' = "ok"
    /\ worker' = "after"
    /\ UNCHANGED <<channel, job, batch, pending, outcome>>
    /\ CallersWait

\* Mutant of HttpOk: a delivery clears the error of an earlier one.
HttpOkClears ==
    /\ worker = "flush"
    /\ batch # <<>>
    /\ delivered' = delivered \cup Elements(batch)
    /\ batch' = <<>>
    /\ pending' = FALSE
    /\ result' = "ok"
    /\ worker' = "after"
    /\ UNCHANGED <<channel, job, fileSide, lost, doubtful, told>>
    /\ CallersWait

HttpOk ==
    /\ worker = "flush"
    /\ batch # <<>>
    /\ delivered' = delivered \cup Elements(batch)
    /\ batch' = <<>>
    /\ result' = "ok"
    /\ worker' = "after"
    /\ UNCHANGED <<channel, job, pending, fileSide, lost, doubtful, told>>
    /\ CallersWait

\* The batch reached nobody: it goes to the file if there is one, otherwise
\* it is lost and the error is kept for the next flush.
Fallback ==
    \/ /\ File
       /\ \E res \in {"ok", "error"} :
             FileWrite(Elements(batch), res) /\ result' = res
       /\ pending' = FALSE
    \/ /\ ~File
       /\ lost' = lost \cup Elements(batch)
       /\ result' = "error"
       /\ pending' = TRUE
       /\ UNCHANGED fileSide

\* What the endpoint takes of a request that fails.
HttpTakes(taken) ==
    IF taken
    THEN /\ delivered' = delivered \cup Elements(batch)
         /\ doubtful' = doubtful \cup Elements(batch)
    ELSE UNCHANGED <<delivered, doubtful>>

\* Mutant of HttpErr: the batch is sent again although the file has it.
HttpErrAgain(taken) ==
    /\ worker = "flush"
    /\ batch # <<>>
    /\ HttpTakes(taken)
    /\ Fallback
    /\ worker' = "after"
    /\ UNCHANGED <<channel, job, batch, told>>
    /\ CallersWait

(***************************************************************************)
(* The request fails: no connection, a status that is not 2xx, or no       *)
(* complete answer in time, and then the endpoint may have taken it.       *)
(***************************************************************************)
HttpErr(taken) ==
    /\ worker = "flush"
    /\ batch # <<>>
    /\ HttpTakes(taken)
    /\ Fallback
    /\ batch' = <<>>
    /\ worker' = "after"
    /\ UNCHANGED <<channel, job, told>>
    /\ CallersWait

\* After a full batch and after a timeout the result is dropped; a timeout
\* flushes the file as well.
Resume ==
    /\ worker = "after"
    /\ job.kind \in {"log", "timeout"}
    /\ IF job.kind = "timeout" /\ File
       THEN \E res \in {"ok", "error"} : FileFlush(res)
       ELSE UNCHANGED fileSide
    /\ Loop
    /\ UNCHANGED <<channel, batch, pending, delivered, lost, doubtful, told>>
    /\ CallersWait

\* The reply to a flush, after which the losses up to now count as told.
Answer(res) ==
    /\ Reply(job.from, res)
    /\ told' = IF res = "error" THEN told \cup lost ELSE told

\* Mutant of AnswerFlush: a flush that failed itself keeps its error as well.
AnswerFlushTwice ==
    /\ worker = "after"
    /\ job.kind = "flush"
    /\ \/ result = "error" /\ Answer("error") /\ UNCHANGED <<fileSide, pending>>
       \/ /\ result = "ok" /\ pending
          /\ Answer("error") /\ pending' = FALSE /\ UNCHANGED fileSide
       \/ /\ result = "ok" /\ ~pending
          /\ IF File
             THEN \E res \in {"ok", "error"} : FileFlush(res) /\ Answer(res)
             ELSE Answer("ok") /\ UNCHANGED fileSide
          /\ UNCHANGED pending
    /\ Loop
    /\ UNCHANGED <<config, lock, shutdown, finalStats, handles, dropping, pc, call,
                   logged, requests, before, channel, batch, delivered, lost,
                   doubtful, accepted>>

\* An explicit flush returns its own error, else the one that was kept, else
\* that of the file.
AnswerFlush ==
    /\ worker = "after"
    /\ job.kind = "flush"
    /\ \/ /\ result = "error" \/ pending
          /\ Answer("error")
          /\ pending' = FALSE
          /\ UNCHANGED fileSide
       \/ /\ result = "ok" /\ ~pending
          /\ IF File
             THEN \E res \in {"ok", "error"} : FileFlush(res) /\ Answer(res)
             ELSE Answer("ok") /\ UNCHANGED fileSide
          /\ UNCHANGED pending
    /\ Loop
    /\ UNCHANGED <<config, lock, shutdown, finalStats, handles, dropping, pc, call,
                   logged, requests, before, channel, batch, delivered, lost,
                   doubtful, accepted>>

(***************************************************************************)
(* Shutdown, or the end of the loop: the file is flushed and shut down,    *)
(* errors are ignored, Shutdown is answered, and the thread ends; what is  *)
(* still in the queue goes with the Receiver.                              *)
(***************************************************************************)
Finish ==
    /\ worker = "after"
    /\ job.kind \in {"shutdown", "none"}
    /\ IF File THEN FileDies({}) ELSE UNCHANGED fileSide
    /\ IF job.kind = "shutdown" THEN Reply(job.from, "ok") ELSE UNCHANGED reply
    /\ worker' = "done"
    /\ receiver' = FALSE
    /\ queue' = <<>>
    /\ UNCHANGED <<config, lock, shutdown, finalStats, handles, dropping, pc, call,
                   logged, requests, before, job, batch, pending, result,
                   delivered, lost, doubtful, told, accepted>>

\* What the worker does after flush_batch it does through the file, in all
\* cases but a full batch and a flush that has an error to return; and if it
\* is stranded there it never comes back.
Hang ==
    /\ worker = "after"
    /\ File
    /\ \/ job.kind \in {"timeout", "shutdown", "none"}
       \/ job.kind = "flush" /\ result = "ok" /\ ~pending
    /\ FileStrands
    /\ worker' = "stuck"
    /\ UNCHANGED <<channel, job, batch, pending, result, delivered, lost, doubtful,
                   told>>
    /\ CallersWait

----------------------------------------------------------------------------
(* The behaviour.                                                          *)

Start(h) ==
    \/ \E ifFull \in {"wait", "return"} : Log(h, ifFull)
    \/ \E kind \in {"flush", "stats", "shutdown"} : Ask(h, kind)
    \/ \E new \in Handle : Clone(h, new)
    \/ DropStart(h)

Continue(h) ==
    \/ Acquire(h) \/ Send(h) \/ QueueFull(h) \/ Receive(h)
    \/ Query(h) \/ Join(h) \/ Release(h)

WorkerStep ==
    \/ RecvLog \/ RecvStats \/ RecvFlush \/ RecvDisconnected \/ Timeout
    \/ FlushNothing \/ HttpOk \/ (\E taken \in BOOLEAN : HttpErr(taken))
    \/ Resume \/ AnswerFlush \/ Finish \/ Hang

Next == (\E h \in Handle : Start(h) \/ Continue(h)) \/ WorkerStep

Spec == Init /\ [][Next]_vars

\* The worker thread runs, and so does a caller inside a call; a request
\* ends, by request_timeout if by nothing else.
FairSpec ==
    /\ Spec
    /\ WF_vars(WorkerStep)
    /\ \A h \in Handle : WF_vars(Continue(h))

----------------------------------------------------------------------------
(* What callers may rely on.                                               *)

(***************************************************************************)
(* A record whose call returned Ok is in exactly one place: queued, in the *)
(* batch, delivered, with the FileLogger, or lost; a second copy exists    *)
(* only of a request that failed after the endpoint had taken it.          *)
(***************************************************************************)
Accounted ==
    LET places == <<Queued, Elements(batch), delivered, filed, stored, perished,
                    lost>>
    IN  /\ accepted = UNION {places[p] : p \in DOMAIN places}
        /\ \A p, q \in DOMAIN places :
              p # q => places[p] \cap places[q] \subseteq
                          IF p = 3 \/ q = 3 THEN doubtful ELSE {}

(***************************************************************************)
(* flush tells of losses: when it returns Ok, every record any thread had  *)
(* logged before it began was delivered or stored, or was refused by the   *)
(* file with an I/O error, or an earlier flush has returned an error since *)
(* it was lost.                                                            *)
(***************************************************************************)
FlushTellsLosses ==
    \A h \in Handle :
        call[h].kind = "flush" /\ reply[h] = "ok" => before[h] \subseteq Settled \cup told

(***************************************************************************)
(* ... and tells of each once: with HTTP alone a flush returns an error    *)
(* only when records were lost that no earlier flush was told of ("do not  *)
(* report the same consumed batch again next time").                       *)
(***************************************************************************)
ToldOnce ==
    [][\A h \in Handle :
          destination = "http" /\ reply[h] = "none" /\ reply'[h] = "error"
              => lost \ told # {}]_vars

(***************************************************************************)
(* shutdown returns its statistics when the worker is gone, and then the   *)
(* logger is at rest: every record that was ever accepted went to the      *)
(* endpoint or to the file, or was lost on the way there; none was thrown  *)
(* away unsent, for the lock closes the window FileLogger has: when the    *)
(* worker goes nobody is about to send.                                    *)
(***************************************************************************)
ShutdownDrains ==
    /\ finalStats => worker = "done"
    /\ worker = "done" => /\ accepted \subseteq Settled \cup lost \cup perished
                          /\ \A h \in Handle : pc[h] # "send"

(***************************************************************************)
(* Every call returns, though all of them go through one lock and its      *)
(* holder may block in send: try_log_json included.  The exception is the  *)
(* one FileLogger makes: the worker waits for a reply of a FileLogger that *)
(* panicked, and everyone waits for the worker.                            *)
(***************************************************************************)
CallsReturn ==
    \A h \in Handle :
        []<>(pc[h] \in {"unborn", "idle", "gone"} \/ worker = "stuck")

(***************************************************************************)
(* With an auto_flush_interval no record waits for others to fill the      *)
(* batch: it is sent, or found impossible to send, without another call.   *)
(***************************************************************************)
BatchesLeave == []<>(timer => batch = <<>>)
=============================================================================
