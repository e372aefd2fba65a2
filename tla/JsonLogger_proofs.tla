-------------------------- MODULE JsonLogger_proofs --------------------------
(***************************************************************************)
(* Theorems about JsonLogger for any number of threads, any queue capacity *)
(* and batch size, and any number of calls and records.                    *)
(***************************************************************************)
EXTENDS JsonLogger, SequenceTheorems, TLAPS

USE JsonLoggerAssumption DEF JsonLoggerAssumption, callers, channel, work, fileSide,
        outcome, config

----------------------------------------------------------------------------
(* Types.                                                                  *)

\* The Boolean variables, apart from the rest: they need Zenon.
Flags ==
    /\ timer \in BOOLEAN /\ shutdown \in BOOLEAN /\ finalStats \in BOOLEAN
    /\ receiver \in BOOLEAN /\ pending \in BOOLEAN /\ fileUp \in BOOLEAN

LEMMA InitFlags == Init => Flags
<1> SUFFICES ASSUME Init PROVE Flags
  OBVIOUS
<1>1. /\ timer \in BOOLEAN /\ shutdown \in BOOLEAN /\ finalStats \in BOOLEAN
      /\ receiver \in BOOLEAN /\ pending \in BOOLEAN
  BY Zenon DEF Init
<1>2. fileUp \in BOOLEAN
  <2>1. File \in BOOLEAN
    BY DEF File
  <2> QED
    BY <2>1, Zenon DEF Init
<1> QED
  BY <1>1, <1>2, Zenon DEF Flags

LEMMA FileDiesFlag == ASSUME NEW taken, FileDies(taken) PROVE fileUp' \in BOOLEAN
  BY Zenon DEF FileDies

LEMMA FileWriteFlag ==
    ASSUME fileUp \in BOOLEAN, NEW R, NEW res, FileWrite(R, res)
    PROVE  fileUp' \in BOOLEAN
<1>1. PICK taken \in SUBSET R :
         IF taken = R
         THEN filed' = filed \cup R /\ UNCHANGED <<fileUp, stored, perished>>
         ELSE FileDies(taken)
  BY Zenon DEF FileWrite
<1> QED
  BY <1>1, FileDiesFlag, Zenon

LEMMA FileFlushFlag ==
    ASSUME fileUp \in BOOLEAN, NEW res, FileFlush(res)
    PROVE  fileUp' \in BOOLEAN
  BY FileDiesFlag, Zenon DEF FileFlush

LEMMA CallerFlags ==
    ASSUME Flags, NEW h \in Handle, Start(h) \/ Continue(h)
    PROVE  Flags'
<1> USE DEF Flags, RestOfLogger
<1>1. CASE Start(h)
  BY <1>1, Zenon DEF Start, Log, Ask, Clone, DropStart
<1>2. CASE Continue(h)
  BY <1>2, Zenon DEF Continue, Acquire, Send, QueueFull, Receive, Query, Join, Release
<1> QED
  BY <1>1, <1>2, Zenon

LEMMA WorkerFlags ==
    ASSUME Flags, WorkerStep
    PROVE  Flags'
<1> USE DEF Flags, CallersWait
<1>1. CASE RecvLog
  BY <1>1, FileWriteFlag, Zenon DEF RecvLog
<1>2. CASE RecvStats \/ RecvFlush \/ RecvDisconnected \/ Timeout
  BY <1>2, Zenon DEF RecvStats, RecvFlush, RecvDisconnected, Timeout
<1>3. CASE FlushNothing \/ HttpOk
  BY <1>3, Zenon DEF FlushNothing, HttpOk
<1>4. ASSUME NEW taken \in BOOLEAN, HttpErr(taken) PROVE Flags'
  BY <1>4, FileWriteFlag, Zenon DEF HttpErr, Fallback
<1>5. CASE Resume
  BY <1>5, FileFlushFlag, Zenon DEF Resume
<1>6. CASE AnswerFlush
  BY <1>6, FileFlushFlag, Zenon DEF AnswerFlush
<1>7. CASE Finish
  BY <1>7, FileDiesFlag, Zenon DEF Finish
<1>8. CASE Hang
  BY <1>8, FileDiesFlag, Zenon DEF Hang, FileStrands
<1> QED
  BY <1>1, <1>2, <1>3, <1>4, <1>5, <1>6, <1>7, <1>8, Zenon DEF WorkerStep

\* What TypeOK says besides.
Locals ==
    /\ pc \in [Handle -> {"unborn", "idle", "lock", "send", "wait", "join",
                          "query", "release", "gone"}]
    /\ call \in [Handle -> Command]
    /\ \A h \in Handle : call[h].kind = "log" => call[h].record \in Record
    /\ reply \in [Handle -> {"none", "ok", "error"}]
    /\ before \in [Handle -> SUBSET Record]

Inner ==
    /\ destination \in {"http", "httpWithFileFallback", "file"}
    /\ lock \in SUBSET Handle
    /\ handles \subseteq Handle
    /\ dropping \subseteq Handle
    /\ logged \in 0..MaxLogs
    /\ requests \in 0..MaxCalls

Records ==
    /\ filed \subseteq Record /\ stored \subseteq Record /\ perished \subseteq Record
    /\ delivered \subseteq Record /\ lost \subseteq Record /\ doubtful \subseteq Record
    /\ accepted \subseteq Record /\ told \subseteq Record

Work ==
    /\ queue \in Seq(Command)
    /\ \A i \in DOMAIN queue : queue[i].kind = "log" => queue[i].record \in Record
    /\ worker \in {"recv", "flush", "after", "stuck", "done"}
    /\ job \in [kind : Kind \cup {"timeout"}, from : Handle]
    /\ batch \in Seq(Record)
    /\ result \in {"ok", "error"}

LEMMA TypeParts == TypeOK <=> Flags /\ Locals /\ Inner /\ Records /\ Work
  BY Zenon DEF TypeOK, CallersOK, WorkOK, OutcomeOK, Flags, Locals, Inner, Records, Work

LEMMA NoCommandType == ASSUME NEW h \in Handle PROVE NoCommand(h) \in Command
  BY DEF NoCommand, Command, Kind

LEMMA InitType == Init => TypeOK
<1> SUFFICES ASSUME Init PROVE TypeOK
  OBVIOUS
<1>1. Flags
  BY InitFlags
<1>2. Locals
  BY NoCommandType DEF Init, Locals, NoCommand
<1>3. Inner
  BY DEF Init, Inner, Destination
<1>4. Records /\ Work
  BY DEF Init, Records, Work, Kind
<1> QED
  BY <1>1, <1>2, <1>3, <1>4, TypeParts

\* The steps of a call keep the types of its locals.
LEMMA EnterType ==
    ASSUME Locals, Records, NEW h \in Handle, NEW kind \in Kind, NEW record \in 0..MaxLogs,
           NEW ifFull \in {"wait", "return"}, NEW where \in {"lock", "query"},
           kind = "log" => record \in Record,
           Enter(h, kind, record, ifFull, where)
    PROVE  Locals'
<1> DEFINE c == [kind |-> kind, from |-> h, record |-> record, ifFull |-> ifFull]
<1>1. c \in Command /\ (c.kind = "log" => c.record \in Record)
  BY DEF Command
<1>2. call' = [call EXCEPT ![h] = c]
  BY DEF Enter
<1> HIDE DEF c
<1> QED
  BY <1>1, <1>2 DEF Enter, Locals, Records

LEMMA GotoType ==
    ASSUME Locals, NEW h \in Handle,
           NEW where \in {"idle", "lock", "send", "wait", "join", "query", "release",
                          "gone"},
           Goto(h, where)
    PROVE  Locals'
  BY DEF Goto, Locals

LEMMA ReturnType ==
    ASSUME Locals, NEW h \in Handle, Return(h)
    PROVE  Locals'
<1>1. NoCommand(h) \in Command /\ NoCommand(h).kind # "log"
  BY NoCommandType DEF NoCommand
<1> QED
  BY <1>1 DEF Return, Locals

LEMMA CallerType ==
    ASSUME TypeOK, NEW h \in Handle, Start(h) \/ Continue(h)
    PROVE  TypeOK'
<1>p. Locals /\ Inner /\ Records /\ Work
  BY TypeParts
<1> DEFINE Rest == Locals' /\ Inner' /\ Records' /\ Work'
<1> USE DEF RestOfLogger
<1>1. ASSUME NEW ifFull \in {"wait", "return"}, Log(h, ifFull) PROVE Rest
  <2>1. logged + 1 \in Record /\ logged + 1 \in 0..MaxLogs
    BY <1>p, <1>1 DEF Log, Record, Inner
  <2>2. Locals'
    BY <1>p, <1>1, <2>1, EnterType DEF Log, Kind
  <2> QED
    BY <1>p, <1>1, <2>1, <2>2 DEF Log, Inner, Records, Work
<1>2. ASSUME NEW kind \in {"flush", "stats", "shutdown"}, Ask(h, kind) PROVE Rest
  <2>1. Locals'
    BY <1>p, <1>2, EnterType DEF Ask, Kind
  <2>2. requests' \in 0..MaxCalls
    BY <1>p, <1>2 DEF Ask, Inner
  <2> QED
    BY <1>p, <1>2, <2>1, <2>2 DEF Ask, Inner, Records, Work
<1>3. ASSUME NEW new \in Handle, Clone(h, new) PROVE Rest
  <2>1. Locals'
    BY <1>p, <1>3, GotoType DEF Clone
  <2> QED
    BY <1>p, <1>3, <2>1 DEF Clone, Inner, Records, Work
<1>4. ASSUME DropStart(h) PROVE Rest
  <2>1. Locals'
    BY <1>p, <1>4, GotoType, EnterType DEF DropStart, Kind
  <2> QED
    BY <1>p, <1>4, <2>1 DEF DropStart, Inner, Records, Work
<1>5. ASSUME Acquire(h) PROVE Rest
  <2>1. Locals'
    BY <1>p, <1>5, GotoType, ReturnType DEF Acquire
  <2> QED
    BY <1>p, <1>5, <2>1 DEF Acquire, Inner, Records, Work
<1>6. ASSUME Send(h) PROVE Rest
  <2>1. Locals'
    BY <1>p, <1>6, GotoType, ReturnType DEF Send
  <2>2. call[h] \in Command /\ (call[h].kind = "log" => call[h].record \in Record)
    BY <1>p DEF Locals
  <2>3. Work'
    BY <1>p, <1>6, <2>2 DEF Send, Work
  <2> QED
    BY <1>p, <1>6, <2>1, <2>2, <2>3 DEF Send, Inner, Records
<1>7. ASSUME QueueFull(h) \/ Receive(h) \/ Query(h) \/ Join(h) \/ Release(h)
      PROVE  Rest
  <2>1. Locals'
    BY <1>p, <1>7, GotoType, ReturnType DEF QueueFull, Receive, Query, Join, Release
  <2> QED
    BY <1>p, <1>7, <2>1
       DEF QueueFull, Receive, Query, Join, Release, Inner, Records, Work
<1>8. Rest
  BY <1>1, <1>2, <1>3, <1>4, <1>5, <1>6, <1>7 DEF Start, Continue
<1>9. Flags'
  BY CallerFlags, TypeParts
<1> QED
  BY <1>8, <1>9, Zenon
     DEF TypeOK, CallersOK, WorkOK, OutcomeOK, Flags, Locals, Inner, Records, Work

\* The file takes records from the worker, and keeps or loses them.
FileRecords ==
    filed \subseteq Record /\ stored \subseteq Record /\ perished \subseteq Record

LEMMA FileDiesType ==
    ASSUME FileRecords, NEW taken \in SUBSET Record, FileDies(taken)
    PROVE  FileRecords'
  BY DEF FileRecords, FileDies

LEMMA FileWriteType ==
    ASSUME FileRecords, lost \subseteq Record, NEW R \in SUBSET Record, NEW res,
           FileWrite(R, res)
    PROVE  FileRecords' /\ lost' \subseteq Record
<1>1. PICK taken \in SUBSET R :
         /\ IF taken = R
            THEN filed' = filed \cup R /\ UNCHANGED <<fileUp, stored, perished>>
            ELSE FileDies(taken)
         /\ lost' = lost \cup (R \ taken)
  BY DEF FileWrite
<1>2. FileRecords'
  BY <1>1, FileDiesType DEF FileRecords
<1> QED
  BY <1>1, <1>2

LEMMA FileFlushType ==
    ASSUME FileRecords, NEW res, FileFlush(res)
    PROVE  FileRecords'
<1>1. CASE FileDies({})
  BY <1>1, FileDiesType
<1>2. CASE ~FileDies({})
  BY <1>2 DEF FileFlush, FileRecords
<1> QED
  BY <1>1, <1>2

LEMMA FallbackType ==
    ASSUME FileRecords, lost \subseteq Record, batch \in Seq(Record), Fallback
    PROVE  FileRecords' /\ lost' \subseteq Record /\ result' \in {"ok", "error"}
<1>1. Elements(batch) \subseteq Record
  BY DEF Elements
<1>2. CASE File /\ \E res \in {"ok", "error"} :
                     FileWrite(Elements(batch), res) /\ result' = res
  BY <1>1, <1>2, FileWriteType
<1>3. CASE lost' = lost \cup Elements(batch) /\ result' = "error" /\ UNCHANGED fileSide
  BY <1>1, <1>3 DEF FileRecords
<1> QED
  BY <1>2, <1>3 DEF Fallback

LEMMA WorkerType ==
    ASSUME TypeOK, WorkerStep
    PROVE  TypeOK'
<1>p. Locals /\ Inner /\ Records /\ Work /\ FileRecords
  BY TypeParts DEF Records, FileRecords
<1> DEFINE Rest == Locals' /\ Inner' /\ Records' /\ Work'
<1> USE DEF CallersWait
<1>a. queue # <<>> => /\ Head(queue) \in Command
                      /\ Head(queue).kind = "log" => Head(queue).record \in Record
                      /\ Tail(queue) \in Seq(Command)
                      /\ \A i \in DOMAIN Tail(queue) : Tail(queue)[i] = queue[i + 1]
                                                       /\ i + 1 \in DOMAIN queue
  BY <1>p DEF Work
<1>b. ASSUME NEW h \in Handle, NEW r \in {"ok", "error"}, Reply(h, r), UNCHANGED <<pc, call, before>>
      PROVE  Locals'
  BY <1>p, <1>b DEF Reply, Locals
<1>c. job.from \in Handle /\ job.kind \in Kind \cup {"timeout"}
  BY <1>p DEF Work
<1>d. Elements(batch) \subseteq Record
  BY <1>p DEF Work, Elements
<1>1. ASSUME RecvLog PROVE Rest
  <2>1. Head(queue).record \in Record
    BY <1>1, <1>a DEF RecvLog
  <2>2. /\ queue' \in Seq(Command)
        /\ \A i \in DOMAIN queue' : queue'[i].kind = "log" => queue'[i].record \in Record
    BY <1>1, <1>a, <1>p DEF RecvLog, Work
  <2>3. CASE Http
    <3>1. batch' \in Seq(Record)
      BY <1>1, <1>p, <2>1, <2>3 DEF RecvLog, Work
    <3>2. /\ job' \in [kind : Kind \cup {"timeout"}, from : Handle]
          /\ worker' \in {"recv", "flush"}
      BY <1>1, <2>3 DEF RecvLog, JobIs, Kind
    <3> QED
      BY <1>1, <1>p, <2>2, <2>3, <3>1, <3>2 DEF RecvLog, Locals, Inner, Records, Work
  <2>4. CASE ~Http
    <3>1. PICK res \in {"ok", "error"} : FileWrite({Head(queue).record}, res)
      BY <1>1, <2>4 DEF RecvLog
    <3>2. FileRecords' /\ lost' \subseteq Record
      BY <1>p, <2>1, <3>1, FileWriteType DEF Records
    <3> QED
      BY <1>1, <1>p, <2>2, <2>4, <3>2
         DEF RecvLog, Locals, Inner, Records, Work, FileRecords
  <2> QED
    BY <2>3, <2>4
<1>2. ASSUME RecvStats PROVE Rest
  <2>1. Head(queue).from \in Handle
    BY <1>2, <1>a DEF RecvStats, Command
  <2>2. Locals'
    BY <1>2, <1>b, <2>1 DEF RecvStats
  <2>3. /\ queue' \in Seq(Command)
        /\ \A i \in DOMAIN queue' : queue'[i].kind = "log" => queue'[i].record \in Record
    BY <1>2, <1>a, <1>p DEF RecvStats, Work
  <2> QED
    BY <1>2, <1>p, <2>2, <2>3 DEF RecvStats, Inner, Records, Work
<1>3. ASSUME RecvFlush PROVE Rest
  <2>1. Head(queue).from \in Handle /\ Head(queue).kind \in Kind
    BY <1>3, <1>a DEF RecvFlush, Command
  <2>2. job' \in [kind : Kind \cup {"timeout"}, from : Handle]
    BY <1>3, <2>1 DEF RecvFlush, JobIs
  <2>3. /\ queue' \in Seq(Command)
        /\ \A i \in DOMAIN queue' : queue'[i].kind = "log" => queue'[i].record \in Record
    BY <1>3, <1>a, <1>p DEF RecvFlush, Work
  <2> QED
    BY <1>3, <1>p, <2>2, <2>3 DEF RecvFlush, Locals, Inner, Records, Work
<1>4. ASSUME Timeout \/ RecvDisconnected PROVE Rest
  BY <1>4, <1>p
     DEF Timeout, RecvDisconnected, JobIs, Locals, Inner, Records, Work, Kind
<1>e. <<>> \in Seq(Record)
  OBVIOUS
<1>5. ASSUME FlushNothing \/ HttpOk PROVE Rest
  BY <1>5, <1>p, <1>d, <1>e DEF FlushNothing, HttpOk, Locals, Inner, Records, Work
<1>6. ASSUME NEW taken \in BOOLEAN, HttpErr(taken) PROVE Rest
  <2>1. FileRecords' /\ lost' \subseteq Record /\ result' \in {"ok", "error"}
    BY <1>6, <1>p, FallbackType DEF HttpErr, Records, Work
  <2>2. delivered' \subseteq Record /\ doubtful' \subseteq Record
    BY <1>6, <1>p, <1>d DEF HttpErr, HttpTakes, Records
  <2>3. /\ batch' = <<>> /\ worker' = "after"
        /\ UNCHANGED <<channel, job, told>>
        /\ CallersWait
    BY <1>6, Zenon DEF HttpErr
  <2> QED
    BY <1>p, <1>e, <2>1, <2>2, <2>3 DEF Locals, Inner, Records, Work, FileRecords
<1>7. ASSUME Resume PROVE Rest
  <2>1. FileRecords'
    BY <1>7, <1>p, FileFlushType DEF Resume, FileRecords
  <2> QED
    BY <1>7, <1>p, <2>1
       DEF Resume, Loop, JobIs, Locals, Inner, Records, Work, FileRecords, Kind
<1>8. ASSUME AnswerFlush PROVE Rest
  <2>1. FileRecords'
    BY <1>8, <1>p, FileFlushType DEF AnswerFlush, FileRecords
  <2>2. PICK res \in {"ok", "error"} : Answer(res)
    BY <1>8 DEF AnswerFlush
  <2>3. Locals'
    BY <1>8, <1>b, <1>c, <2>2 DEF AnswerFlush, Answer
  <2>4. told' \subseteq Record
    BY <1>p, <2>2 DEF Answer, Records
  <2> QED
    BY <1>8, <1>p, <2>1, <2>3, <2>4
       DEF AnswerFlush, Loop, JobIs, Inner, Records, Work, FileRecords, Kind
<1>9. ASSUME Finish PROVE Rest
  <2>1. FileRecords'
    BY <1>9, <1>p, FileDiesType DEF Finish, FileRecords
  <2>2. Locals'
    <3>1. CASE job.kind = "shutdown"
      BY <1>9, <1>b, <1>c, <3>1 DEF Finish
    <3>2. CASE job.kind # "shutdown"
      BY <1>9, <1>p, <3>2 DEF Finish, Locals
    <3> QED
      BY <3>1, <3>2
  <2> QED
    BY <1>9, <1>p, <2>1, <2>2 DEF Finish, Inner, Records, Work, FileRecords
<1>10. ASSUME Hang PROVE Rest
  <2>1. FileRecords'
    BY <1>10, <1>p, FileDiesType DEF Hang, FileStrands, FileRecords
  <2> QED
    BY <1>10, <1>p, <2>1 DEF Hang, Locals, Inner, Records, Work, FileRecords
<1>11. Rest
  BY <1>1, <1>2, <1>3, <1>4, <1>5, <1>6, <1>7, <1>8, <1>9, <1>10 DEF WorkerStep
<1>12. Flags'
  BY WorkerFlags, TypeParts
<1> QED
  BY <1>11, <1>12, Zenon
     DEF TypeOK, CallersOK, WorkOK, OutcomeOK, Flags, Locals, Inner, Records, Work

LEMMA StutterType == TypeOK /\ UNCHANGED vars => TypeOK'
  BY Zenon DEF vars, TypeOK, CallersOK, WorkOK, OutcomeOK

\* In every reachable state the variables have their types, for every number of
\* threads, queue capacity and batch size.
THEOREM TypeCorrect == Spec => []TypeOK
<1>1. TypeOK /\ [Next]_vars => TypeOK'
  BY CallerType, WorkerType, StutterType DEF Next
<1> QED
  BY InitType, <1>1, PTL DEF Spec

----------------------------------------------------------------------------
(* What a step leaves alone.                                               *)

\* The worker answers, and touches nothing else of its callers.
LEMMA WorkerLeaves ==
    WorkerStep => UNCHANGED <<config, lock, shutdown, finalStats, handles, dropping, pc,
                              call, logged, requests, before, accepted>>
<1> SUFFICES ASSUME WorkerStep
             PROVE  UNCHANGED <<config, lock, shutdown, finalStats, handles, dropping, pc,
                                call, logged, requests, before, accepted>>
  OBVIOUS
<1> USE DEF CallersWait
<1>1. CASE RecvLog \/ RecvStats \/ RecvFlush \/ RecvDisconnected \/ Timeout
  BY <1>1, Zenon DEF RecvLog, RecvStats, RecvFlush, RecvDisconnected, Timeout
<1>2. CASE FlushNothing \/ HttpOk \/ \E taken \in BOOLEAN : HttpErr(taken)
  BY <1>2, Zenon DEF FlushNothing, HttpOk, HttpErr
<1>3. CASE Resume \/ AnswerFlush \/ Finish \/ Hang
  BY <1>3, Zenon DEF Resume, AnswerFlush, Finish, Hang
<1> QED
  BY <1>1, <1>2, <1>3 DEF WorkerStep

\* Callers only add to the queue, and that in Send.
LEMMA CallerLeaves ==
    ASSUME NEW h \in Handle, Start(h) \/ Continue(h)
    PROVE  /\ UNCHANGED <<config, receiver, work, outcome>>
           /\ Send(h) \/ UNCHANGED <<queue, accepted>>
<1> USE DEF RestOfLogger
<1>1. CASE Start(h)
  BY <1>1, Zenon DEF Start, Log, Ask, Clone, DropStart
<1>2. CASE Continue(h)
  BY <1>2, Zenon DEF Continue, Acquire, Send, QueueFull, Receive, Query, Join, Release
<1> QED
  BY <1>1, <1>2, Zenon

\* The flag is set once, by a caller that takes the lock for a shutdown.
LEMMA FlagIsKept ==
    ASSUME [Next]_vars
    PROVE  shutdown => shutdown'
<1> SUFFICES ASSUME shutdown PROVE shutdown'
  OBVIOUS
<1>1. CASE UNCHANGED vars
  BY <1>1, Zenon DEF vars
<1>2. CASE WorkerStep
  BY <1>2, WorkerLeaves, Zenon
<1>3. ASSUME NEW h \in Handle, Start(h) PROVE shutdown'
  BY <1>3, Zenon DEF Start, Log, Ask, Clone, DropStart
<1>4. ASSUME NEW h \in Handle, Continue(h) PROVE shutdown'
  BY <1>4, Zenon DEF Continue, Acquire, Send, QueueFull, Receive, Query, Join, Release
<1> QED
  BY <1>1, <1>2, <1>3, <1>4, Zenon DEF Next

\* A caller takes the lock when it is free and the flag is not set, and sets it then if
\* it shuts the logger down.
LEMMA AcquireShape ==
    ASSUME NEW h \in Handle, Acquire(h)
    PROVE  /\ pc[h] = "lock" /\ lock = {}
           /\ UNCHANGED <<handles, dropping, logged, queue, finalStats, accepted>>
           /\ \/ UNCHANGED lock /\ (Goto(h, "query") \/ Return(h))
              \/ ~shutdown /\ Goto(h, "send") /\ lock' = {h}
                    /\ (call[h].kind = "shutdown" => shutdown')
  BY Zenon DEF Acquire, RestOfLogger

----------------------------------------------------------------------------
(* Shutdown.                                                               *)

\* Only threads with a handle make calls.
Alive == \A h \in Handle : pc[h] \notin {"unborn", "gone"} => h \in handles

\* The lock is held for the send, by one thread, and for a shutdown with the flag set.
Locking ==
    /\ \A h \in Handle : pc[h] = "send" <=> h \in lock
    /\ \A g, h \in lock : g = h
    /\ \A h \in Handle : pc[h] = "send" /\ call[h].kind = "shutdown" => shutdown

\* The command of a shutdown is the last one in the queue, and nobody can add another.
LastWords ==
    \A i \in DOMAIN queue : queue[i].kind = "shutdown" =>
        shutdown /\ lock = {} /\ i = Len(queue)

Ending == worker \in {"flush", "after", "done"} /\ job.kind \in {"shutdown", "none"}

\* The worker ends with an empty queue and an empty batch, and nobody is left to send.
Closing ==
    /\ Ending => /\ queue = <<>>
                 /\ job.kind = "shutdown" => shutdown /\ lock = {}
                 /\ job.kind = "none" => handles = {}
    /\ worker = "done" => Ending /\ filed = {}
    /\ worker \in {"after", "done"} => batch = <<>>
    /\ finalStats => worker = "done"

\* Without a file nothing is with the FileLogger.
NoFile == ~File => filed = {} /\ perished = {}

EndInv == TypeOK /\ Alive /\ Locking /\ LastWords /\ Closing /\ NoFile

LEMMA InitEnd == Init => EndInv
<1> SUFFICES ASSUME Init PROVE EndInv
  OBVIOUS
<1>1. ~finalStats
  BY Zenon DEF Init
<1> QED
  BY <1>1, InitType DEF Init, EndInv, Alive, Locking, LastWords, Closing, Ending, NoFile

\* A caller that does not take part in the locking: it was not sending and is not now.
LEMMA MoveLocking ==
    ASSUME Locals, Locking, NEW h \in Handle, NEW where, where # "send", pc[h] # "send",
           pc' = [pc EXCEPT ![h] = where],
           \A g \in Handle \ {h} : call'[g] = call[g],
           shutdown => shutdown', lock' = lock
    PROVE  Locking'
  BY DEF Locking, Locals

\* A caller that lets the lock go.
LEMMA UnlockLocking ==
    ASSUME Locals, Locking, NEW h \in Handle, NEW where, where # "send",
           pc' = [pc EXCEPT ![h] = where],
           \A g \in Handle \ {h} : call'[g] = call[g],
           shutdown => shutdown', lock' = lock \ {h}
    PROVE  Locking'
  BY DEF Locking, Locals

LEMMA CallerLocking ==
    ASSUME EndInv, NEW h \in Handle, Start(h) \/ Continue(h)
    PROVE  Alive' /\ Locking'
<1>a. Locals /\ Locking /\ Alive
  BY TypeParts DEF EndInv
<1>b. shutdown => shutdown'
  BY FlagIsKept, Zenon DEF Next
<1>1. ASSUME NEW kind, NEW record, NEW ifFull, NEW where \in {"lock", "query"},
             Enter(h, kind, record, ifFull, where), UNCHANGED <<lock, handles>>
      PROVE  Alive' /\ Locking'
  <2>1. Locking'
    BY <1>1, <1>a, <1>b, MoveLocking DEF Enter, Locals
  <2> QED
    BY <1>1, <1>a, <2>1 DEF Enter, Alive, Locals
<1>2. ASSUME NEW g \in Handle, NEW where \in {"idle", "wait", "join", "query", "lock", "release", "gone"},
             Goto(g, where), pc[g] # "send", UNCHANGED lock,
             where \notin {"gone"} => g \in handles',
             \A u \in Handle \ {g} : u \in handles => u \in handles'
      PROVE  Alive' /\ Locking'
  <2>1. Locking'
    BY <1>2, <1>a, <1>b, MoveLocking DEF Goto, Locals
  <2> QED
    BY <1>2, <1>a, <2>1 DEF Goto, Alive, Locals
<1>3. ASSUME Return(h), pc[h] \notin {"unborn", "gone"}, UNCHANGED handles,
             lock' = lock \ {h} \/ (pc[h] # "send" /\ UNCHANGED lock)
      PROVE  Alive' /\ Locking'
  <2> DEFINE where == IF h \in dropping THEN "release" ELSE "idle"
  <2>1. /\ pc' = [pc EXCEPT ![h] = where] /\ where \in {"release", "idle"}
        /\ \A g \in Handle \ {h} : call'[g] = call[g]
    BY <1>3, <1>a DEF Return, Locals
  <2> HIDE DEF where
  <2>2. Locking'
    BY <1>3, <1>a, <1>b, <2>1, MoveLocking, UnlockLocking
  <2> QED
    BY <1>3, <1>a, <2>1, <2>2 DEF Alive, Locals
<1>4. CASE Start(h)
  BY <1>1, <1>2, <1>4, <1>a DEF Start, Log, Ask, Clone, DropStart, Enter, Goto, Alive
<1>5. CASE Acquire(h)
  <2>1. CASE UNCHANGED lock /\ (Goto(h, "query") \/ Return(h))
    BY <1>2, <1>3, <1>5, <1>a, <2>1, AcquireShape DEF Alive
  <2>2. CASE Goto(h, "send") /\ lock' = {h} /\ (call[h].kind = "shutdown" => shutdown')
    BY <1>5, <1>a, <2>2, AcquireShape DEF Goto, Alive, Locking, Locals
  <2> QED
    BY <1>5, <2>1, <2>2, AcquireShape
<1>6. CASE Send(h)
  <2>1. CASE Return(h)
    BY <1>3, <1>6, <2>1 DEF Send
  <2>2. CASE Goto(h, "wait")
    <3>1. Locking'
      BY <1>6, <1>a, <1>b, <2>2, UnlockLocking DEF Send, Goto
    <3> QED
      BY <1>6, <1>a, <2>2, <3>1 DEF Send, Goto, Alive, Locals
  <2> QED
    BY <1>6, <2>1, <2>2 DEF Send
<1>7. CASE QueueFull(h)
  BY <1>3, <1>7 DEF QueueFull
<1>8. CASE Receive(h) \/ Query(h) \/ Join(h)
  BY <1>2, <1>3, <1>8, <1>a DEF Receive, Query, Join, Alive
<1>9. CASE Release(h)
  BY <1>2, <1>9 DEF Release
<1> QED
  BY <1>4, <1>5, <1>6, <1>7, <1>8, <1>9 DEF Continue

LEMMA CallerClosing ==
    ASSUME EndInv, NEW h \in Handle, Start(h) \/ Continue(h)
    PROVE  LastWords' /\ Closing'
<1>a. Locals /\ Work /\ Locking /\ Alive /\ LastWords /\ Closing
  BY TypeParts DEF EndInv
<1>b. shutdown => shutdown'
  BY FlagIsKept, Zenon DEF Next
<1>c. UNCHANGED work /\ UNCHANGED outcome
  BY CallerLeaves
<1>0. ASSUME UNCHANGED queue, UNCHANGED finalStats \/ worker = "done",
             shutdown /\ lock = {} => lock' = {}, handles = {} => handles' = {}
      PROVE  LastWords' /\ Closing'
  <2>1. LastWords'
    BY <1>0, <1>a, <1>b DEF LastWords
  <2>2. finalStats' => worker' = "done"
    BY <1>0, <1>a, <1>c, Zenon DEF Closing
  <2> QED
    BY <1>0, <1>a, <1>b, <1>c, <2>1, <2>2 DEF Closing, Ending
<1> USE DEF RestOfLogger
<1>1. CASE Start(h)
  <2>1. UNCHANGED <<queue, finalStats, lock>>
    BY <1>1, Zenon DEF Start, Log, Ask, Clone, DropStart
  <2>2. handles = {} => handles' = {}
    <3>1. handles' = handles \/ \E new \in Handle : Clone(h, new)
      BY <1>1, Zenon DEF Start, Log, Ask, DropStart
    <3>2. ASSUME NEW new \in Handle, Clone(h, new) PROVE handles # {}
      BY <1>a, <3>2 DEF Clone, Alive
    <3> QED
      BY <3>1, <3>2
  <2> QED
    BY <1>0, <2>1, <2>2
<1>2. CASE Acquire(h)
  <2>1. UNCHANGED <<queue, finalStats, handles>>
    BY <1>2, AcquireShape
  <2>2. shutdown /\ lock = {} => lock' = {}
    BY <1>2, AcquireShape
  <2> QED
    BY <1>0, <2>1, <2>2
<1>3. CASE Send(h)
  <2>1. h \in lock /\ lock' = lock \ {h} /\ h \in handles
    BY <1>3, <1>a DEF Send, Locking, Alive
  <2>2. lock' = {}
    BY <1>a, <2>1 DEF Locking
  <2>3. ~Ending
    BY <1>a, <2>1 DEF Closing, Ending
  <2>4. \A i \in DOMAIN queue : queue[i].kind # "shutdown"
    BY <1>a, <2>1 DEF LastWords
  <2>5. call[h].kind = "shutdown" => shutdown'
    BY <1>3, <1>a, <1>b DEF Send, Locking
  <2>6. queue' = Append(queue, call[h]) /\ call[h] \in Command
    BY <1>3, <1>a DEF Send, Locals
  <2>7. LastWords'
    BY <1>a, <2>2, <2>4, <2>5, <2>6 DEF LastWords, Work
  <2>8. UNCHANGED finalStats
    BY <1>3, Zenon DEF Send
  <2>9. finalStats' => worker' = "done"
    BY <1>a, <1>c, <2>8, Zenon DEF Closing
  <2> QED
    BY <1>a, <1>c, <2>3, <2>7, <2>9 DEF Closing, Ending
<1>4. CASE QueueFull(h) \/ Receive(h) \/ Query(h) \/ Join(h) \/ Release(h)
  <2>1. UNCHANGED queue /\ (UNCHANGED finalStats \/ worker = "done")
    BY <1>4, Zenon DEF QueueFull, Receive, Query, Join, Release
  <2>2. (lock' = lock \/ lock' = lock \ {h}) /\ (handles' = handles \/ handles' = handles \ {h})
    BY <1>4, Zenon DEF QueueFull, Receive, Query, Join, Release
  <2> QED
    BY <1>0, <2>1, <2>2
<1> QED
  BY <1>1, <1>2, <1>3, <1>4 DEF Continue

\* The first command leaves the queue.
LEMMA TailLastWords ==
    ASSUME Work, LastWords, queue # <<>>, queue' = Tail(queue), shutdown => shutdown',
           lock' = lock
    PROVE  LastWords' /\ (Head(queue).kind = "shutdown" => queue' = <<>> /\ shutdown /\ lock = {})
<1>1. Len(queue) > 0 /\ 1 \in DOMAIN queue /\ Head(queue) = queue[1]
  BY DEF Work
<1>2. Len(queue') = Len(queue) - 1 /\ queue' \in Seq(Command)
  BY <1>1 DEF Work
<1>3. \A i \in DOMAIN queue' : i + 1 \in DOMAIN queue /\ queue'[i] = queue[i + 1]
  BY <1>1 DEF Work
<1>4. LastWords'
  BY <1>2, <1>3 DEF LastWords, Work
<1>5. ASSUME Head(queue).kind = "shutdown" PROVE queue' = <<>> /\ shutdown /\ lock = {}
  <2>1. Len(queue) = 1 /\ shutdown /\ lock = {}
    BY <1>1, <1>5 DEF LastWords
  <2>2. Len(queue') = 0
    BY <1>2, <2>1
  <2> QED
    BY <1>2, <2>1, <2>2
<1> QED
  BY <1>4, <1>5

LEMMA WorkerNoFile ==
    ASSUME Inner, WorkerStep, ~File
    PROVE  UNCHANGED fileSide
<1>1. Http
  BY DEF Inner, File, Http
<1>2. CASE RecvLog
  BY <1>1, <1>2, Zenon DEF RecvLog
<1>3. CASE RecvStats \/ RecvFlush \/ Timeout \/ RecvDisconnected \/ FlushNothing \/ HttpOk
  BY <1>3, Zenon DEF RecvStats, RecvFlush, Timeout, RecvDisconnected, FlushNothing, HttpOk
<1>4. CASE \E taken \in BOOLEAN : HttpErr(taken)
  BY <1>4, Zenon DEF HttpErr, Fallback
<1>5. CASE Resume \/ Finish \/ Hang
  BY <1>5, Zenon DEF Resume, Finish, Hang
<1>6. CASE AnswerFlush
  BY <1>6, Zenon DEF AnswerFlush
<1> QED
  BY <1>2, <1>3, <1>4, <1>5, <1>6 DEF WorkerStep

LEMMA WorkerClosing ==
    ASSUME EndInv, WorkerStep
    PROVE  LastWords' /\ Closing'
<1>a. Work /\ Records /\ LastWords /\ Closing /\ NoFile
  BY TypeParts DEF EndInv
<1>b. shutdown' = shutdown /\ lock' = lock /\ handles' = handles /\ finalStats' = finalStats
  BY WorkerLeaves, Zenon
<1>c. worker # "done" => ~finalStats'
  BY <1>a, <1>b, Zenon DEF Closing
<1>d. shutdown => shutdown'
  BY <1>b, Zenon
<1> DEFINE Rest ==
        /\ Ending' => /\ queue' = <<>>
                      /\ job'.kind = "shutdown" => shutdown /\ lock' = {}
                      /\ job'.kind = "none" => handles' = {}
        /\ worker' = "done" => Ending' /\ filed' = {}
        /\ worker' \in {"after", "done"} => batch' = <<>>
<1>1. ASSUME RecvLog PROVE LastWords' /\ Rest /\ worker # "done"
  <2>1. LastWords'
    BY <1>1, <1>a, <1>b, <1>d, TailLastWords DEF RecvLog
  <2>2. worker = "recv" /\ worker' \in {"recv", "flush"} /\ (worker' = "flush" => job'.kind = "log")
    BY <1>1 DEF RecvLog, JobIs
  <2> QED
    BY <2>1, <2>2 DEF Ending
<1>2. ASSUME RecvStats PROVE LastWords' /\ Rest /\ worker # "done"
  BY <1>2, <1>a, <1>b, <1>d, TailLastWords DEF RecvStats, Ending
<1>3. ASSUME RecvFlush PROVE LastWords' /\ Rest /\ worker # "done"
  <2>1. LastWords' /\ (Head(queue).kind = "shutdown" => queue' = <<>> /\ shutdown /\ lock = {})
    BY <1>3, <1>a, <1>b, <1>d, TailLastWords DEF RecvFlush
  <2>2. worker = "recv" /\ worker' = "flush" /\ job'.kind = Head(queue).kind
        /\ Head(queue).kind \in {"flush", "shutdown"}
    BY <1>3 DEF RecvFlush, JobIs
  <2> QED
    BY <1>b, <2>1, <2>2 DEF Ending
<1>4. ASSUME Timeout PROVE LastWords' /\ Rest /\ worker # "done"
  <2>1. LastWords'
    BY <1>4, <1>a, <1>b, <1>d DEF Timeout, LastWords
  <2> QED
    BY <1>4, <2>1 DEF Timeout, JobIs, Ending
<1>5. ASSUME RecvDisconnected PROVE LastWords' /\ Rest /\ worker # "done"
  <2>1. LastWords'
    BY <1>5, <1>a, <1>b, <1>d DEF RecvDisconnected, LastWords
  <2> QED
    BY <1>5, <1>b, <2>1 DEF RecvDisconnected, JobIs, Ending
<1>6. ASSUME FlushNothing \/ HttpOk \/ \E taken \in BOOLEAN : HttpErr(taken)
      PROVE  LastWords' /\ Rest /\ worker # "done"
  <2>1. /\ worker = "flush" /\ worker' = "after" /\ batch' = <<>>
        /\ UNCHANGED <<queue, job>>
    BY <1>6, Zenon DEF FlushNothing, HttpOk, HttpErr
  <2>2. LastWords'
    BY <1>a, <1>b, <1>d, <2>1 DEF LastWords
  <2> QED
    BY <1>a, <1>b, <2>1, <2>2 DEF Closing, Ending
<1>7. ASSUME Resume \/ AnswerFlush PROVE LastWords' /\ Rest /\ worker # "done"
  <2>1. worker = "after" /\ worker' = "recv" /\ UNCHANGED queue
    BY <1>7, Zenon DEF Resume, AnswerFlush, Loop
  <2>2. LastWords'
    BY <1>a, <1>b, <1>d, <2>1 DEF LastWords
  <2> QED
    BY <2>1, <2>2 DEF Ending
<1>8. ASSUME Finish PROVE LastWords' /\ Rest /\ worker # "done"
  <2>1. /\ worker = "after" /\ worker' = "done" /\ UNCHANGED <<job, batch>>
        /\ queue' = <<>> /\ job.kind \in {"shutdown", "none"}
    BY <1>8, Zenon DEF Finish
  <2>2. LastWords'
    BY <2>1 DEF LastWords
  <2>3. filed' = {}
    BY <1>8, <1>a DEF Finish, FileDies, NoFile
  <2> QED
    BY <1>a, <1>b, <2>1, <2>2, <2>3 DEF Closing, Ending
<1>9. ASSUME Hang PROVE LastWords' /\ Rest /\ worker # "done"
  <2>1. worker = "after" /\ worker' = "stuck" /\ UNCHANGED queue
    BY <1>9, Zenon DEF Hang
  <2>2. LastWords'
    BY <1>a, <1>b, <1>d, <2>1 DEF LastWords
  <2> QED
    BY <2>1, <2>2 DEF Ending
<1>10. LastWords' /\ Rest /\ worker # "done"
  BY <1>1, <1>2, <1>3, <1>4, <1>5, <1>6, <1>7, <1>8, <1>9 DEF WorkerStep
<1> QED
  BY <1>10, <1>b, <1>c, <1>d DEF Closing

LEMMA EndStep == EndInv /\ [Next]_vars => EndInv'
<1> SUFFICES ASSUME EndInv, [Next]_vars PROVE EndInv'
  OBVIOUS
<1>a. TypeOK'
  BY CallerType, WorkerType, StutterType DEF Next, EndInv
<1>1. ASSUME NEW h \in Handle, Start(h) \/ Continue(h) PROVE EndInv'
  <2>1. NoFile'
    <3>1. UNCHANGED <<config, outcome>>
      BY <1>1, CallerLeaves
    <3> QED
      BY <3>1 DEF EndInv, NoFile, File
  <2> QED
    BY <1>a, <1>1, <2>1, CallerLocking, CallerClosing DEF EndInv
<1>2. CASE WorkerStep
  <2>1. UNCHANGED <<destination, lock, handles, pc, call>>
    BY <1>2, WorkerLeaves, Zenon
  <2>2. shutdown => shutdown'
    BY FlagIsKept, Zenon
  <2>3. Alive' /\ Locking'
    BY <2>1, <2>2 DEF EndInv, Alive, Locking
  <2>4. NoFile'
    BY <1>2, <2>1, WorkerNoFile, TypeParts DEF EndInv, NoFile, File
  <2> QED
    BY <1>a, <1>2, <2>3, <2>4, WorkerClosing DEF EndInv
<1>3. CASE UNCHANGED vars
  BY <1>3, <1>a, Zenon
     DEF EndInv, vars, Alive, Locking, LastWords, Closing, Ending, NoFile, File
<1> QED
  BY <1>1, <1>2, <1>3 DEF Next

----------------------------------------------------------------------------
(* Where the records are.                                                  *)

\* The first command leaves the queue: its record, if it has one, too.
LEMMA TailQueued ==
    ASSUME Work, queue # <<>>, queue' = Tail(queue)
    PROVE  /\ Head(queue).kind = "log" => Queued \subseteq Queued' \cup {Head(queue).record}
           /\ Head(queue).kind # "log" => Queued \subseteq Queued'
           /\ Queued' \subseteq Queued
<1>1. Len(queue) > 0 /\ 1 \in DOMAIN queue /\ Head(queue) = queue[1]
  BY DEF Work
<1>2. \A i \in DOMAIN queue' : i + 1 \in DOMAIN queue /\ queue'[i] = queue[i + 1]
  BY <1>1 DEF Work
<1>3. \A i \in DOMAIN queue : i = 1 \/ (i - 1 \in DOMAIN queue' /\ queue[i] = queue'[i - 1])
  BY <1>1 DEF Work
<1>4. Queued' \subseteq Queued
  BY <1>2 DEF Queued
<1>5. ASSUME NEW i \in DOMAIN queue, queue[i].kind = "log"
      PROVE  i = 1 \/ queue[i].record \in Queued'
  BY <1>3, <1>5 DEF Queued
<1> QED
  BY <1>1, <1>4, <1>5 DEF Queued

LEMMA AppendQueued ==
    ASSUME Work, NEW c \in Command, queue' = Append(queue, c)
    PROVE  /\ c.kind = "log" => Queued' = Queued \cup {c.record}
           /\ c.kind # "log" => Queued' = Queued
<1>1. /\ \A i \in DOMAIN queue : i \in DOMAIN queue' /\ queue'[i] = queue[i]
      /\ \A i \in DOMAIN queue' : i \in DOMAIN queue \/ queue'[i] = c
      /\ \E i \in DOMAIN queue' : queue'[i] = c
  BY DEF Work
<1> QED
  BY <1>1 DEF Queued

\* A record joins the batch.
LEMMA AppendElements ==
    ASSUME NEW s \in Seq(Record), NEW r \in Record
    PROVE  Elements(Append(s, r)) = Elements(s) \cup {r}
<1>1. /\ \A i \in DOMAIN s : i \in DOMAIN Append(s, r) /\ Append(s, r)[i] = s[i]
      /\ \A i \in DOMAIN Append(s, r) : i \in DOMAIN s \/ Append(s, r)[i] = r
      /\ \E i \in DOMAIN Append(s, r) : Append(s, r)[i] = r
  OBVIOUS
<1> QED
  BY <1>1 DEF Elements

LEMMA NoElements == Elements(<<>>) = {}
  BY DEF Elements

\* The places other than the queue, the batch and the endpoint.
Aside == filed \cup stored \cup perished \cup lost
AsideApart ==
    /\ filed \cap stored = {} /\ filed \cap perished = {} /\ filed \cap lost = {}
    /\ stored \cap perished = {} /\ stored \cap lost = {} /\ perished \cap lost = {}

\* Accounted, place by place.
Placed ==
    /\ accepted = Queued \cup Elements(batch) \cup delivered \cup Aside
    /\ Queued \cap Elements(batch) = {}
    /\ Queued \cap Aside = {}
    /\ Elements(batch) \cap Aside = {}
    /\ AsideApart
    /\ delivered \cap (Queued \cup Elements(batch) \cup Aside) \subseteq doubtful

LEMMA PlacedAccounted == Placed => Accounted
<1> SUFFICES ASSUME Placed PROVE Accounted
  OBVIOUS
<1> DEFINE places == <<Queued, Elements(batch), delivered, filed, stored, perished, lost>>
<1>1. DOMAIN places = 1..7
  OBVIOUS
<1>2. UNION {places[p] : p \in DOMAIN places} =
         Queued \cup Elements(batch) \cup delivered \cup filed \cup stored \cup perished \cup lost
  <2>1. 1..7 = {1, 2, 3, 4, 5, 6, 7}
    OBVIOUS
  <2>2. {places[p] : p \in DOMAIN places} =
           {Queued, Elements(batch), delivered, filed, stored, perished, lost}
    BY <1>1, <2>1
  <2> QED
    BY <2>2
<1>3. ASSUME NEW p \in 1..7, NEW q \in 1..7, p < q
      PROVE  places[p] \cap places[q] \subseteq IF p = 3 \/ q = 3 THEN doubtful ELSE {}
  BY <1>3, SMTT(60) DEF Placed, Aside, AsideApart
<1>4. ASSUME NEW p \in 1..7, NEW q \in 1..7, p # q
      PROVE  places[p] \cap places[q] \subseteq IF p = 3 \/ q = 3 THEN doubtful ELSE {}
  <2>1. p < q \/ q < p
    BY <1>4
  <2> HIDE DEF places
  <2> QED
    BY <1>3, <2>1
<1>5. accepted = UNION {places[p] : p \in DOMAIN places}
  BY <1>2 DEF Placed, Aside
<1> QED
  BY <1>1, <1>4, <1>5 DEF Accounted

\* Records a call is on the way to send with are new, and of different calls.
Fresh ==
    /\ accepted \subseteq 1..logged
    /\ \A h \in Handle : call[h].kind = "log" =>
          /\ call[h].record \in (1..logged) \ accepted
          /\ \A g \in Handle :
                call[g].kind = "log" /\ call[g].record = call[h].record => g = h

\* The queue holds each record once.
Distinct ==
    \A i, j \in DOMAIN queue :
        queue[i].kind = "log" /\ queue[j].kind = "log" /\ queue[i].record = queue[j].record
            => i = j

PlaceInv == TypeOK /\ Fresh /\ Distinct /\ Placed

LEMMA InitPlace == Init => PlaceInv
<1> SUFFICES ASSUME Init PROVE PlaceInv
  OBVIOUS
<1>1. Queued = {} /\ Elements(batch) = {}
  BY DEF Init, Queued, Elements
<1> QED
  BY <1>1, InitType
     DEF Init, PlaceInv, Fresh, Distinct, Placed, Aside, AsideApart, NoCommand

LEMMA CallerFresh ==
    ASSUME PlaceInv, NEW h \in Handle, Start(h) \/ Continue(h)
    PROVE  Fresh'
<1>a. Locals /\ Inner /\ Fresh /\ Records
  BY TypeParts DEF PlaceInv
<1>0. ASSUME \A g \in Handle : call'[g] = call[g] \/ call'[g].kind # "log",
             UNCHANGED <<logged, accepted>>
      PROVE  Fresh'
  BY <1>0, <1>a DEF Fresh
<1>1. ASSUME NEW kind, NEW record, NEW ifFull, NEW where, kind # "log",
             Enter(h, kind, record, ifFull, where)
      PROVE  \A g \in Handle : call'[g] = call[g] \/ call'[g].kind # "log"
  BY <1>1, <1>a DEF Enter, Locals
<1>2. ASSUME Return(h)
      PROVE  call'[h].kind # "log" /\ \A g \in Handle \ {h} : call'[g] = call[g]
  BY <1>2, <1>a DEF Return, Locals, NoCommand
<1>3. ASSUME NEW g, NEW where, Goto(g, where)
      PROVE  \A u \in Handle : call'[u] = call[u]
  BY <1>3 DEF Goto
<1> USE DEF RestOfLogger
<1>4. ASSUME NEW ifFull \in {"wait", "return"}, Log(h, ifFull) PROVE Fresh'
  <2>1. /\ call'[h].record = logged + 1 /\ \A g \in Handle \ {h} : call'[g] = call[g]
        /\ logged' = logged + 1 /\ accepted' = accepted
    BY <1>4, <1>a DEF Log, Enter, Locals
  <2>2. logged \in Nat /\ logged + 1 \notin 1..logged /\ 1..logged \subseteq 1..(logged + 1)
    BY <1>a DEF Inner
  <2> QED
    BY <1>a, <2>1, <2>2 DEF Fresh
<1>5. ASSUME \E kind \in {"flush", "stats", "shutdown"} : Ask(h, kind) PROVE Fresh'
  BY <1>0, <1>1, <1>5 DEF Ask
<1>6. ASSUME (\E new \in Handle : Clone(h, new)) \/ DropStart(h) PROVE Fresh'
  BY <1>0, <1>1, <1>3, <1>6 DEF Clone, DropStart
<1>7. ASSUME Send(h) PROVE Fresh'
  <2>1. CASE call[h].kind = "log"
    <3>1. /\ call'[h].kind # "log" /\ \A g \in Handle \ {h} : call'[g] = call[g]
          /\ accepted' = accepted \cup {call[h].record} /\ logged' = logged
      BY <1>2, <1>7, <2>1 DEF Send
    <3> QED
      BY <1>a, <2>1, <3>1 DEF Fresh
  <2>2. CASE call[h].kind # "log"
    BY <1>0, <1>3, <1>7, <2>2 DEF Send
  <2> QED
    BY <2>1, <2>2
<1>8. ASSUME Acquire(h) PROVE Fresh'
  BY <1>0, <1>2, <1>3, <1>8, AcquireShape
<1>9. ASSUME QueueFull(h) \/ Receive(h) \/ Query(h) \/ Join(h) \/ Release(h) PROVE Fresh'
  BY <1>0, <1>2, <1>3, <1>9 DEF QueueFull, Receive, Query, Join, Release
<1> QED
  BY <1>4, <1>5, <1>6, <1>7, <1>8, <1>9 DEF Start, Continue

LEMMA CallerPlaced ==
    ASSUME PlaceInv, NEW h \in Handle, Start(h) \/ Continue(h)
    PROVE  Distinct' /\ Placed'
<1>a. Locals /\ Work /\ Fresh /\ Distinct /\ Placed
  BY TypeParts DEF PlaceInv
<1>b. UNCHANGED <<batch, delivered, doubtful, filed, stored, perished, lost>>
  BY CallerLeaves
<1>1. CASE UNCHANGED <<queue, accepted>>
  BY <1>a, <1>b, <1>1 DEF Distinct, Placed, Queued, Elements, Aside, AsideApart
<1>2. CASE Send(h)
  <2>1. queue' = Append(queue, call[h]) /\ call[h] \in Command
    BY <1>2, <1>a DEF Send, Locals
  <2>2. CASE call[h].kind = "log"
    <3>1. accepted' = accepted \cup {call[h].record} /\ call[h].record \notin accepted
      BY <1>2, <1>a, <2>2 DEF Send, Fresh
    <3>2. Queued' = Queued \cup {call[h].record}
      BY <1>a, <2>1, <2>2, AppendQueued
    <3>3. Placed'
      BY <1>a, <1>b, <3>1, <3>2 DEF Placed, Elements, Aside, AsideApart
    <3>4. \A i \in DOMAIN queue : queue[i].kind = "log" => queue[i].record # call[h].record
      BY <1>a, <3>1 DEF Placed, Queued
    <3>5. Distinct'
      BY <1>a, <2>1, <3>4 DEF Distinct, Work
    <3> QED
      BY <3>3, <3>5
  <2>3. CASE call[h].kind # "log"
    <3>1. accepted' = accepted
      BY <1>2, <2>3 DEF Send
    <3>2. Queued' = Queued
      BY <1>a, <2>1, <2>3, AppendQueued
    <3>3. Placed'
      BY <1>a, <1>b, <3>1, <3>2 DEF Placed, Elements, Aside, AsideApart
    <3>4. Distinct'
      BY <1>a, <2>1, <2>3 DEF Distinct, Work
    <3> QED
      BY <3>3, <3>4
  <2> QED
    BY <2>2, <2>3
<1> QED
  BY <1>1, <1>2, CallerLeaves

\* The FileLogger settles or loses what it has taken: nothing leaves the four places.
LEMMA FileDiesAside ==
    ASSUME AsideApart, NEW taken, taken \cap Aside = {}, FileDies(taken)
    PROVE  /\ filed' \cup stored' \cup perished' = filed \cup stored \cup perished \cup taken
           /\ filed' \cap stored' = {} /\ filed' \cap perished' = {}
           /\ stored' \cap perished' = {}
<1>1. PICK S \in SUBSET filed :
         /\ stored' = stored \cup S
         /\ perished' = perished \cup (filed \ S) \cup taken
         /\ filed' = {}
  BY DEF FileDies
<1> QED
  BY <1>1 DEF AsideApart, Aside

LEMMA FileDiesOnly ==
    ASSUME AsideApart, FileDies({}), lost' = lost
    PROVE  Aside' = Aside /\ AsideApart'
<1>1. {} \cap Aside = {}
  OBVIOUS
<1>2. /\ filed' \cup stored' \cup perished' = filed \cup stored \cup perished \cup {}
      /\ filed' \cap stored' = {} /\ filed' \cap perished' = {}
      /\ stored' \cap perished' = {}
  BY <1>1, FileDiesAside
<1> QED
  BY <1>2 DEF AsideApart, Aside

LEMMA FileFlushAside ==
    ASSUME AsideApart, NEW res, FileFlush(res), lost' = lost
    PROVE  Aside' = Aside /\ AsideApart'
<1>1. CASE FileDies({})
  BY <1>1, FileDiesOnly
<1>2. CASE ~FileDies({})
  BY <1>2 DEF FileFlush, AsideApart, Aside
<1> QED
  BY <1>1, <1>2

LEMMA FileWriteAside ==
    ASSUME AsideApart, NEW R, NEW res, R \cap Aside = {}, FileWrite(R, res)
    PROVE  Aside' = Aside \cup R /\ AsideApart'
<1>1. PICK taken \in SUBSET R :
         /\ IF taken = R
            THEN filed' = filed \cup R /\ UNCHANGED <<fileUp, stored, perished>>
            ELSE FileDies(taken)
         /\ lost' = lost \cup (R \ taken)
  BY DEF FileWrite
<1>2. CASE taken = R
  BY <1>1, <1>2 DEF AsideApart, Aside
<1>3. CASE taken # R
  <2>1. taken \cap Aside = {}
    BY DEF Aside
  <2>2. /\ filed' \cup stored' \cup perished' = filed \cup stored \cup perished \cup taken
        /\ filed' \cap stored' = {} /\ filed' \cap perished' = {}
        /\ stored' \cap perished' = {}
    BY <1>1, <1>3, <2>1, FileDiesAside
  <2> QED
    BY <1>1, <2>2 DEF AsideApart, Aside
<1> QED
  BY <1>2, <1>3

LEMMA FallbackAside ==
    ASSUME AsideApart, Elements(batch) \cap Aside = {}, Fallback
    PROVE  Aside' = Aside \cup Elements(batch) /\ AsideApart'
<1>1. CASE \E res \in {"ok", "error"} : FileWrite(Elements(batch), res)
  BY <1>1, FileWriteAside
<1>2. CASE lost' = lost \cup Elements(batch) /\ UNCHANGED fileSide
  BY <1>2 DEF AsideApart, Aside
<1> QED
  BY <1>1, <1>2 DEF Fallback

\* The first command leaves the queue.
LEMMA TailDistinct ==
    ASSUME Work, Distinct, queue # <<>>, queue' = Tail(queue)
    PROVE  /\ Distinct'
           /\ Head(queue).kind = "log" => /\ Head(queue).record \in Queued
                                          /\ Queued' = Queued \ {Head(queue).record}
           /\ Head(queue).kind # "log" => Queued' = Queued
<1>1. Len(queue) > 0 /\ 1 \in DOMAIN queue /\ Head(queue) = queue[1]
  BY DEF Work
<1>2. \A i \in DOMAIN queue' : i + 1 \in DOMAIN queue /\ queue'[i] = queue[i + 1] /\ i + 1 # 1
  BY <1>1 DEF Work
<1>3. Distinct'
  BY <1>2 DEF Distinct
<1>4. Head(queue).kind = "log" => Head(queue).record \in Queued
  BY <1>1 DEF Queued
<1>5. Head(queue).kind = "log" => Head(queue).record \notin Queued'
  BY <1>1, <1>2 DEF Distinct, Queued
<1> QED
  BY <1>3, <1>4, <1>5, TailQueued

LEMMA WorkerPlaced ==
    ASSUME PlaceInv, EndInv, WorkerStep
    PROVE  Distinct' /\ Placed'
<1>a. Locals /\ Work /\ Inner /\ Distinct /\ Placed /\ AsideApart
  BY TypeParts DEF PlaceInv, Placed
<1>b. accepted' = accepted
  BY WorkerLeaves
<1>0. ASSUME UNCHANGED <<delivered, doubtful>>, Distinct', Queued' = Queued,
             Elements(batch)' = Elements(batch), Aside' = Aside, AsideApart'
      PROVE  Distinct' /\ Placed'
  BY <1>0, <1>a, <1>b DEF Placed
<1>c. queue' = queue => Distinct' /\ Queued' = Queued
  BY <1>a DEF Distinct, Queued
<1>d. batch' = batch => Elements(batch)' = Elements(batch)
  BY DEF Elements
<1>e. UNCHANGED <<fileSide, lost>> => Aside' = Aside /\ AsideApart'
  BY <1>a DEF Aside, AsideApart
<1>1. CASE RecvLog
  <2> DEFINE r == Head(queue).record
  <2>1. Distinct' /\ r \in Queued /\ Queued' = Queued \ {r}
    BY <1>1, <1>a, TailDistinct DEF RecvLog
  <2>2. r \in Record
    BY <1>a, <2>1 DEF Work, Queued
  <2>3. UNCHANGED <<delivered, doubtful>>
    BY <1>1 DEF RecvLog
  <2>4. CASE Http
    <3>1. batch' = Append(batch, r)
      BY <1>1, <2>4 DEF RecvLog
    <3>2. Elements(batch)' = Elements(batch) \cup {r}
      <4>1. batch \in Seq(Record)
        BY <1>a DEF Work
      <4>2. Elements(batch') = Elements(batch) \cup {r}
        BY <2>2, <3>1, <4>1, AppendElements
      <4> QED
        BY <4>2 DEF Elements
    <3>3. Aside' = Aside /\ AsideApart'
      BY <1>1, <1>e, <2>4 DEF RecvLog
    <3> HIDE DEF r
    <3> QED
      BY <1>a, <1>b, <2>1, <2>3, <3>2, <3>3 DEF Placed
  <2>5. CASE ~Http
    <3>1. batch' = batch /\ \E res \in {"ok", "error"} : FileWrite({r}, res)
      BY <1>1, <2>5 DEF RecvLog
    <3>2. {r} \cap Aside = {}
      BY <1>a, <2>1 DEF Placed
    <3> HIDE DEF r
    <3>3. Aside' = Aside \cup {r} /\ AsideApart'
      BY <1>a, <3>1, <3>2, FileWriteAside
    <3> QED
      BY <1>a, <1>b, <1>d, <2>1, <2>3, <3>1, <3>3 DEF Placed
  <2> QED
    BY <2>4, <2>5
<1>2. CASE RecvStats
  <2>1. Distinct' /\ Queued' = Queued
    BY <1>2, <1>a, TailDistinct DEF RecvStats
  <2> QED
    BY <1>0, <1>2, <1>d, <1>e, <2>1 DEF RecvStats
<1>3. CASE RecvFlush
  <2>1. Distinct' /\ Queued' = Queued
    BY <1>3, <1>a, TailDistinct DEF RecvFlush
  <2> QED
    BY <1>0, <1>3, <1>d, <1>e, <2>1 DEF RecvFlush
<1>4. CASE Timeout \/ RecvDisconnected \/ FlushNothing
  BY <1>0, <1>4, <1>c, <1>d, <1>e DEF Timeout, RecvDisconnected, FlushNothing
<1>5. CASE HttpOk
  <2>1. Aside' = Aside /\ AsideApart'
    BY <1>5, <1>e DEF HttpOk
  <2>2. /\ delivered' = delivered \cup Elements(batch) /\ doubtful' = doubtful
        /\ queue' = queue /\ batch' = <<>>
    BY <1>5 DEF HttpOk
  <2>3. Elements(batch)' = {}
    BY <2>2 DEF Elements
  <2> QED
    BY <1>a, <1>b, <1>c, <2>1, <2>2, <2>3 DEF Placed
<1>6. ASSUME NEW taken \in BOOLEAN, HttpErr(taken) PROVE Distinct' /\ Placed'
  <2>1. Aside' = Aside \cup Elements(batch) /\ AsideApart'
    BY <1>6, <1>a, FallbackAside DEF HttpErr, Placed
  <2>2. \/ /\ delivered' = delivered \cup Elements(batch)
           /\ doubtful' = doubtful \cup Elements(batch)
        \/ UNCHANGED <<delivered, doubtful>>
    BY <1>6, Zenon DEF HttpErr, HttpTakes
  <2>3. queue' = queue /\ batch' = <<>>
    BY <1>6, Zenon DEF HttpErr
  <2>4. Elements(batch)' = {}
    BY <2>3 DEF Elements
  <2> QED
    BY <1>a, <1>b, <1>c, <2>1, <2>2, <2>3, <2>4 DEF Placed
<1>7. CASE Resume \/ AnswerFlush
  <2>1. Aside' = Aside /\ AsideApart'
    <3>1. UNCHANGED fileSide \/ \E res \in {"ok", "error"} : FileFlush(res)
      BY <1>7, Zenon DEF Resume, AnswerFlush
    <3>2. lost' = lost
      BY <1>7 DEF Resume, AnswerFlush
    <3> QED
      BY <1>a, <1>e, <3>1, <3>2, FileFlushAside
  <2> QED
    BY <1>0, <1>7, <1>c, <1>d, <2>1 DEF Resume, AnswerFlush
<1>8. ASSUME Finish PROVE Queued = {} => Distinct' /\ Placed'
  <2>1. Aside' = Aside /\ AsideApart'
    <3>1. UNCHANGED fileSide \/ FileDies({})
      BY <1>8, Zenon DEF Finish
    <3>2. lost' = lost
      BY <1>8 DEF Finish
    <3> QED
      BY <1>a, <1>e, <3>1, <3>2, FileDiesOnly
  <2>2. queue' = <<>> /\ UNCHANGED <<batch, delivered, doubtful>>
    BY <1>8 DEF Finish
  <2>3. Distinct' /\ Queued' = {}
    BY <2>2 DEF Distinct, Queued
  <2> QED
    BY <1>0, <1>d, <2>1, <2>2, <2>3
<1>9. Finish => Queued = {}
  BY DEF Finish, Closing, Ending, EndInv, Queued
<1>10. CASE Hang
  <2>1. FileDies({}) /\ UNCHANGED <<queue, batch, delivered, doubtful, lost>>
    BY <1>10, Zenon DEF Hang, FileStrands
  <2>2. Aside' = Aside /\ AsideApart'
    BY <1>a, <2>1, FileDiesOnly
  <2> QED
    BY <1>0, <1>c, <1>d, <2>1, <2>2
<1> QED
  BY <1>1, <1>2, <1>3, <1>4, <1>5, <1>6, <1>7, <1>8, <1>9, <1>10 DEF WorkerStep

LEMMA PlaceStep == PlaceInv /\ EndInv /\ [Next]_vars => PlaceInv'
<1> SUFFICES ASSUME PlaceInv, EndInv, [Next]_vars PROVE PlaceInv'
  OBVIOUS
<1>a. TypeOK'
  BY CallerType, WorkerType, StutterType DEF Next, EndInv
<1>1. ASSUME NEW h \in Handle, Start(h) \/ Continue(h) PROVE PlaceInv'
  BY <1>1, <1>a, CallerFresh, CallerPlaced DEF PlaceInv
<1>2. CASE WorkerStep
  <2>1. UNCHANGED <<call, logged, accepted>>
    BY <1>2, WorkerLeaves, Zenon
  <2>2. Fresh'
    BY <2>1 DEF PlaceInv, Fresh
  <2> QED
    BY <1>2, <1>a, <2>2, WorkerPlaced DEF PlaceInv
<1>3. CASE UNCHANGED vars
  <2>1. UNCHANGED <<call, logged, accepted, queue, batch, delivered, doubtful, filed, stored,
                    perished, lost>>
    BY <1>3, Zenon DEF vars
  <2> QED
    BY <1>a, <2>1 DEF PlaceInv, Fresh, Distinct, Placed, Queued, Elements, Aside, AsideApart
<1> QED
  BY <1>1, <1>2, <1>3 DEF Next

\* A record that was accepted is in exactly one place: none is forgotten, and none is
\* sent twice unless the endpoint had taken it in a request that failed.
THEOREM AccountedHolds == Spec => []Accounted
<1>1. Init => EndInv /\ PlaceInv
  BY InitEnd, InitPlace
<1>2. EndInv /\ PlaceInv /\ [Next]_vars => EndInv' /\ PlaceInv'
  BY EndStep, PlaceStep
<1>3. PlaceInv => Accounted
  BY PlacedAccounted DEF PlaceInv
<1> QED
  BY <1>1, <1>2, <1>3, PTL DEF Spec

\* The final statistics exist only when the worker has ended, and then nothing that was
\* accepted is left and nobody is about to send.
THEOREM ShutdownDrainsHolds == Spec => []ShutdownDrains
<1>1. Init => EndInv /\ PlaceInv
  BY InitEnd, InitPlace
<1>2. EndInv /\ PlaceInv /\ [Next]_vars => EndInv' /\ PlaceInv'
  BY EndStep, PlaceStep
<1>3. EndInv /\ PlaceInv => ShutdownDrains
  <2> SUFFICES ASSUME EndInv, PlaceInv PROVE ShutdownDrains
    OBVIOUS
  <2>1. finalStats => worker = "done"
    BY Zenon DEF EndInv, Closing
  <2>2. ASSUME worker = "done" PROVE accepted \subseteq Settled \cup lost \cup perished
    <3>1. queue = <<>> /\ batch = <<>> /\ filed = {}
      BY <2>2 DEF EndInv, Closing, Ending
    <3>2. Queued = {} /\ Elements(batch) = {}
      BY <3>1 DEF Queued, Elements
    <3> QED
      BY <3>1, <3>2 DEF PlaceInv, Placed, Aside, Settled
  <2>3. ASSUME worker = "done", NEW h \in Handle PROVE pc[h] # "send"
    <3>1. lock = {} \/ handles = {}
      BY <2>3 DEF EndInv, Closing, Ending
    <3> QED
      BY <3>1 DEF EndInv, Locking, Alive
  <2> QED
    BY <2>1, <2>2, <2>3, Zenon DEF ShutdownDrains
<1> QED
  BY <1>1, <1>2, <1>3, PTL DEF Spec

----------------------------------------------------------------------------
(* Requests and their replies.                                             *)

Request == {"flush", "stats", "shutdown"}

\* h waits for the reply to a request of this kind, and has none yet.
Open(h, kind) == pc[h] = "wait" /\ reply[h] = "none" /\ call[h].kind = kind
StillOpen(h, kind) == pc'[h] = "wait" /\ reply'[h] = "none" /\ call'[h].kind = kind

\* The worker is busy with a request.
Working == worker \in {"flush", "after"} /\ job.kind \in Request

\* Every request in the queue or with the worker is that of one caller, who waits for it.
Requests ==
    /\ \A h \in Handle : call[h].from = h
    /\ \A h \in Handle : reply[h] = "none" \/ pc[h] \in {"wait", "join"}
    /\ \A i \in DOMAIN queue : queue[i].kind \in Request =>
          /\ Open(queue[i].from, queue[i].kind)
          /\ Working => job.from # queue[i].from
    /\ \A i, j \in DOMAIN queue :
          queue[i].kind \in Request /\ queue[j].kind \in Request /\ queue[i].from = queue[j].from
              => i = j
    /\ Working => Open(job.from, job.kind)

\* What had been logged before a flush began is ahead of its command.
Barrier ==
    /\ \A h \in Handle : before[h] \subseteq accepted
    /\ \A i, j \in DOMAIN queue : queue[i].kind = "flush" /\ queue[j].kind = "log" /\ i < j =>
          queue[j].record \notin before[queue[i].from]
    /\ Working /\ job.kind = "flush" => before[job.from] \cap Queued = {}

\* A caller that is not waiting for its reply, or has it, goes on; the others do not.
LEMMA CallerOpen ==
    ASSUME Locals, Requests, NEW h \in Handle, Start(h) \/ Continue(h)
    PROVE  /\ \A g \in Handle : call'[g].from = g
           /\ \A g \in Handle : reply'[g] = "none" \/
                 /\ pc'[g] \in {"wait", "join"}
                 /\ reply'[g] = reply[g] /\ call'[g] = call[g] /\ before'[g] = before[g]
           /\ \A g \in Handle, kind \in Request : Open(g, kind) =>
                 StillOpen(g, kind) /\ before'[g] = before[g]
           /\ \A g \in Handle : before'[g] \subseteq before[g] \cup accepted
<1> DEFINE Others == \A g \in Handle \ {h} : /\ reply'[g] = reply[g] /\ call'[g] = call[g]
                                             /\ before'[g] = before[g]
           Goal == /\ \A g \in Handle : call'[g].from = g
                   /\ \A g \in Handle : reply'[g] = "none" \/
                         /\ pc'[g] \in {"wait", "join"}
                         /\ reply'[g] = reply[g] /\ call'[g] = call[g] /\ before'[g] = before[g]
                   /\ \A g \in Handle, kind \in Request : Open(g, kind) =>
                         StillOpen(g, kind) /\ before'[g] = before[g]
                   /\ \A g \in Handle : before'[g] \subseteq before[g] \cup accepted
<1>1. ASSUME NEW kind \in Kind, NEW record, NEW ifFull, NEW where,
             Enter(h, kind, record, ifFull, where)
      PROVE  Goal
  BY <1>1 DEF Enter, Locals, Requests, Open, StillOpen
<1>2. ASSUME NEW g \in Handle, NEW where, Goto(g, where),
             pc[g] \notin {"wait", "join"} \/ (pc[g] = "wait" /\ reply[g] # "none" /\ where = "join")
      PROVE  Goal
  BY <1>2 DEF Goto, Locals, Requests, Open, StillOpen
<1>3. ASSUME Return(h), pc[h] # "wait" \/ reply[h] # "none"
      PROVE  Goal
  BY <1>3 DEF Return, Locals, Requests, Open, StillOpen, NoCommand
<1>4. CASE Start(h)
  BY <1>1, <1>2, <1>4 DEF Start, Log, Ask, Clone, DropStart, Kind
<1>5. CASE Acquire(h)
  BY <1>2, <1>3, <1>5, AcquireShape
<1>6. CASE Send(h)
  BY <1>2, <1>3, <1>6 DEF Send
<1>7. CASE QueueFull(h) \/ Receive(h) \/ Query(h) \/ Join(h) \/ Release(h)
  BY <1>2, <1>3, <1>7 DEF QueueFull, Receive, Query, Join, Release
<1> QED
  BY <1>4, <1>5, <1>6, <1>7 DEF Continue

LEMMA CallerRequests ==
    ASSUME TypeOK, Requests, Barrier, Fresh, NEW h \in Handle, Start(h) \/ Continue(h)
    PROVE  Requests' /\ Barrier'
<1>a. Locals /\ Work
  BY TypeParts
<1>b. UNCHANGED <<worker, job>>
  BY CallerLeaves
<1>c. /\ \A g \in Handle : call'[g].from = g
      /\ \A g \in Handle : reply'[g] = "none" \/
            /\ pc'[g] \in {"wait", "join"}
            /\ reply'[g] = reply[g] /\ call'[g] = call[g] /\ before'[g] = before[g]
      /\ \A g \in Handle, kind \in Request : Open(g, kind) =>
            StillOpen(g, kind) /\ before'[g] = before[g]
      /\ \A g \in Handle : before'[g] \subseteq before[g] \cup accepted
  BY <1>a, CallerOpen
<1>d. job.from \in Handle /\ \A i \in DOMAIN queue : queue[i].from \in Handle
  <2>1. \A i \in DOMAIN queue : queue[i] \in Command
    BY <1>a DEF Work
  <2>2. job.from \in Handle
    BY <1>a DEF Work
  <2> QED
    BY <2>1, <2>2 DEF Command
<1>e. Working' <=> Working
  BY <1>b DEF Working
<1>f. Working => StillOpen(job.from, job.kind) /\ before'[job.from] = before[job.from]
  BY <1>c, <1>d DEF Requests, Working
<1>g. \A i \in DOMAIN queue : queue[i].kind \in Request =>
         /\ StillOpen(queue[i].from, queue[i].kind)
         /\ before'[queue[i].from] = before[queue[i].from]
         /\ Working => job.from # queue[i].from
  BY <1>c, <1>d DEF Requests
<1>1. CASE UNCHANGED <<queue, accepted>>
  <2>1. Requests'
    <3>1. /\ \A i \in DOMAIN queue' : queue'[i].kind \in Request =>
                /\ StillOpen(queue'[i].from, queue'[i].kind)
                /\ Working' => job'.from # queue'[i].from
          /\ Working' => StillOpen(job'.from, job'.kind)
      BY <1>b, <1>e, <1>f, <1>g, <1>1
    <3> QED
      BY <1>c, <1>1, <3>1 DEF Requests, Open, StillOpen
  <2>2. Queued' = Queued
    BY <1>1 DEF Queued
  <2>3. Barrier'
    BY <1>b, <1>c, <1>e, <1>f, <1>g, <1>1, <2>2 DEF Barrier, Request
  <2> QED
    BY <2>1, <2>3
<1>2. CASE Send(h)
  <2>1. queue' = Append(queue, call[h]) /\ call[h] \in Command
    BY <1>2, <1>a DEF Send, Locals
  <2>2. pc[h] = "send" /\ reply[h] = "none" /\ call[h].from = h
    BY <1>2 DEF Send, Requests
  <2>3. /\ Len(queue') = Len(queue) + 1 /\ queue'[Len(queue) + 1] = call[h]
        /\ \A i \in DOMAIN queue : i \in DOMAIN queue' /\ queue'[i] = queue[i]
                                   /\ i < Len(queue) + 1
        /\ \A i \in DOMAIN queue' : i \in DOMAIN queue \/ i = Len(queue) + 1
    BY <1>a, <2>1 DEF Work
  <2>4. /\ Working => job.from # h
        /\ \A i \in DOMAIN queue : queue[i].kind \in Request => queue[i].from # h
    BY <2>2 DEF Requests, Open
  <2>5. call[h].kind \in Request => StillOpen(h, call[h].kind)
    BY <1>2, <1>a, <2>2 DEF Send, Goto, StillOpen, Request, Locals
  <2>6. Requests'
    <3>1. \A i \in DOMAIN queue' : queue'[i].kind \in Request =>
             /\ StillOpen(queue'[i].from, queue'[i].kind)
             /\ Working' => job'.from # queue'[i].from
      BY <1>b, <1>e, <1>g, <2>2, <2>3, <2>4, <2>5
    <3>2. \A i, j \in DOMAIN queue' :
             queue'[i].kind \in Request /\ queue'[j].kind \in Request
                 /\ queue'[i].from = queue'[j].from => i = j
      BY <2>2, <2>3, <2>4 DEF Requests
    <3>3. Working' => StillOpen(job'.from, job'.kind)
      BY <1>b, <1>e, <1>f
    <3> QED
      BY <1>c, <3>1, <3>2, <3>3 DEF Requests, Open, StillOpen
  <2>7. accepted \subseteq accepted'
    BY <1>2 DEF Send
  <2>8. /\ call[h].kind = "log" => /\ Queued' = Queued \cup {call[h].record}
                                   /\ \A g \in Handle : call[h].record \notin before[g]
        /\ call[h].kind # "log" => Queued' = Queued
    BY <1>a, <2>1, AppendQueued DEF Fresh, Barrier
  <2>9. \A i, j \in DOMAIN queue' :
           queue'[i].kind = "flush" /\ queue'[j].kind = "log" /\ i < j =>
               queue'[j].record \notin before'[queue'[i].from]
    <3> SUFFICES ASSUME NEW i \in DOMAIN queue', NEW j \in DOMAIN queue',
                        queue'[i].kind = "flush", queue'[j].kind = "log", i < j
                 PROVE  queue'[j].record \notin before'[queue'[i].from]
      OBVIOUS
    <3>1. i \in DOMAIN queue
      BY <1>a, <2>3 DEF Work
    <3>2. before'[queue'[i].from] = before[queue[i].from] /\ queue[i].from \in Handle
      BY <1>d, <1>g, <2>3, <3>1 DEF Request
    <3>3. CASE j \in DOMAIN queue
      BY <2>3, <3>1, <3>2, <3>3 DEF Barrier
    <3>4. CASE j = Len(queue) + 1
      BY <2>3, <2>8, <3>2, <3>4
    <3> QED
      BY <2>3, <3>3, <3>4
  <2>10. Barrier'
    BY <1>b, <1>c, <1>d, <1>e, <1>f, <2>7, <2>8, <2>9 DEF Barrier
  <2> QED
    BY <2>6, <2>10
<1> QED
  BY <1>1, <1>2, CallerLeaves

\* The worker takes commands from the head of the queue only.
LEMMA QueueShrinks ==
    ASSUME Work, Requests, Barrier, UNCHANGED <<before>>,
           \/ queue' = queue
           \/ queue # <<>> /\ queue' = Tail(queue)
           \/ queue' = <<>>
    PROVE  /\ \A i \in DOMAIN queue' : \E j \in DOMAIN queue :
                 queue'[i] = queue[j] /\ (queue' = Tail(queue) /\ queue # <<>> => j > 1)
           /\ \A i, j \in DOMAIN queue' :
                 queue'[i].kind \in Request /\ queue'[j].kind \in Request
                     /\ queue'[i].from = queue'[j].from => i = j
           /\ \A i, j \in DOMAIN queue' :
                 queue'[i].kind = "flush" /\ queue'[j].kind = "log" /\ i < j =>
                     queue'[j].record \notin before'[queue'[i].from]
           /\ Queued' \subseteq Queued
<1>1. CASE queue' = queue /\ ~(queue # <<>> /\ queue' = Tail(queue))
  BY <1>1 DEF Requests, Barrier, Queued
<1>2. CASE queue # <<>> /\ queue' = Tail(queue)
  <2>1. Len(queue) > 0 /\ Len(queue) \in Nat
    BY <1>2 DEF Work
  <2>2. \A i \in DOMAIN queue' : /\ i \in Nat /\ i + 1 \in DOMAIN queue /\ i + 1 > 1
                                 /\ queue'[i] = queue[i + 1]
    BY <1>2, <2>1 DEF Work
  <2>3. \A i, j \in DOMAIN queue' :
           queue'[i].kind \in Request /\ queue'[j].kind \in Request
               /\ queue'[i].from = queue'[j].from => i = j
    BY <2>2 DEF Requests
  <2>4. \A i, j \in DOMAIN queue' :
           queue'[i].kind = "flush" /\ queue'[j].kind = "log" /\ i < j =>
               queue'[j].record \notin before'[queue'[i].from]
    BY <2>2 DEF Barrier
  <2>5. Queued' \subseteq Queued
    BY <2>2 DEF Queued
  <2> QED
    BY <1>2, <2>2, <2>3, <2>4, <2>5
<1>3. CASE queue' = <<>> /\ ~(queue # <<>> /\ queue' = Tail(queue))
  BY <1>3 DEF Queued
<1> QED
  BY <1>1, <1>2, <1>3

LEMMA WorkerRequests ==
    ASSUME TypeOK, Requests, Barrier, WorkerStep
    PROVE  Requests' /\ Barrier'
<1>a. Locals /\ Work
  BY TypeParts
<1>b. UNCHANGED <<pc, call, before, accepted>>
  BY WorkerLeaves
<1> DEFINE Shape == \/ queue' = queue
                    \/ queue # <<>> /\ queue' = Tail(queue)
                    \/ queue' = <<>>
           Waits == \A g \in Handle : reply'[g] = "none" \/ pc[g] \in {"wait", "join"}
           Inside == \A i \in DOMAIN queue' : queue'[i].kind \in Request =>
                        /\ StillOpen(queue'[i].from, queue'[i].kind)
                        /\ Working' => job'.from # queue'[i].from
           Busy == Working' => /\ StillOpen(job'.from, job'.kind)
                               /\ job'.kind = "flush" => before[job'.from] \cap Queued' = {}
<1>0. ASSUME Shape, Waits, Inside, Busy PROVE Requests' /\ Barrier'
  <2>1. /\ \A i, j \in DOMAIN queue' :
              queue'[i].kind \in Request /\ queue'[j].kind \in Request
                  /\ queue'[i].from = queue'[j].from => i = j
        /\ \A i, j \in DOMAIN queue' :
              queue'[i].kind = "flush" /\ queue'[j].kind = "log" /\ i < j =>
                  queue'[j].record \notin before'[queue'[i].from]
    BY <1>0, <1>a, <1>b, QueueShrinks
  <2>2. Requests'
    BY <1>0, <1>b, <2>1 DEF Requests, Open, StillOpen
  <2>3. Barrier'
    BY <1>0, <1>b, <2>1 DEF Barrier
  <2> QED
    BY <2>2, <2>3
<1>c. Shape => /\ \A i \in DOMAIN queue' : \E j \in DOMAIN queue :
                     queue'[i] = queue[j] /\ (queue' = Tail(queue) /\ queue # <<>> => j > 1)
               /\ Queued' \subseteq Queued
  BY <1>a, <1>b, QueueShrinks
<1>d. \A g, kind : Open(g, kind) /\ reply'[g] = reply[g] => StillOpen(g, kind)
  BY <1>b DEF Open, StillOpen
<1>e. /\ job.from \in Handle
      /\ \A i \in DOMAIN queue : queue[i].from \in Handle
      /\ queue # <<>> => 1 \in DOMAIN queue /\ Head(queue) = queue[1]
  <2>1. \A i \in DOMAIN queue : queue[i] \in Command
    BY <1>a DEF Work
  <2>2. job.from \in Handle
    BY <1>a DEF Work
  <2>3. queue # <<>> => 1 \in DOMAIN queue /\ Head(queue) = queue[1]
    BY <1>a DEF Work
  <2> QED
    BY <2>1, <2>2, <2>3 DEF Command
\* Without a request to work on, and without an answer, nothing changes for the callers.
<1>f. ASSUME Shape, reply' = reply, ~Working' PROVE Requests' /\ Barrier'
  <2>1. Inside
    BY <1>c, <1>d, <1>f DEF Requests
  <2> QED
    BY <1>0, <1>f, <2>1 DEF Requests
<1>1. CASE RecvLog
  BY <1>1, <1>f DEF RecvLog, JobIs, Working, Request, CallersWait
<1>2. CASE RecvStats
  <2> DEFINE h == Head(queue).from
  <2>1. Shape /\ queue # <<>> /\ queue' = Tail(queue) /\ ~Working' /\ Reply(h, "ok")
    BY <1>2 DEF RecvStats, Working
  <2>2. queue[1].kind \in Request /\ h = queue[1].from /\ h \in Handle /\ Open(h, "stats")
    BY <1>2, <1>e, <2>1 DEF RecvStats, Requests, Request
  <2>3. \A g \in Handle \ {h} : reply'[g] = reply[g]
    BY <1>a, <2>1 DEF Reply, Locals
  <2>4. \A i \in DOMAIN queue' : queue'[i].kind \in Request =>
           \E j \in DOMAIN queue : queue'[i] = queue[j] /\ queue[j].from # h
    BY <1>c, <1>e, <2>1, <2>2 DEF Requests
  <2>5. Inside
    BY <1>d, <1>e, <2>1, <2>3, <2>4 DEF Requests
  <2>6. Waits
    BY <2>2, <2>3 DEF Requests, Open
  <2> QED
    BY <1>0, <2>1, <2>5, <2>6
<1>3. CASE RecvFlush
  <2>1. /\ Shape /\ queue # <<>> /\ queue' = Tail(queue)
        /\ job' = [kind |-> Head(queue).kind, from |-> Head(queue).from]
        /\ reply' = reply /\ Head(queue).kind \in Request
    BY <1>3 DEF RecvFlush, JobIs, CallersWait, Request
  <2>2. \A i \in DOMAIN queue' : queue'[i].kind \in Request =>
           \E j \in DOMAIN queue : queue'[i] = queue[j] /\ queue[j].from # Head(queue).from
    BY <1>c, <1>e, <2>1 DEF Requests
  <2>3. Inside
    BY <1>d, <2>1, <2>2 DEF Requests
  <2>4. StillOpen(job'.from, job'.kind)
    BY <1>d, <1>e, <2>1 DEF Requests
  <2>5. ASSUME Head(queue).kind = "flush"
        PROVE  before[Head(queue).from] \cap Queued' = {}
    <3>1. \A i \in DOMAIN queue' : queue'[i].kind = "log" =>
             queue'[i].record \notin before[Head(queue).from]
      BY <1>c, <1>e, <2>1, <2>5 DEF Barrier
    <3> QED
      BY <3>1 DEF Queued
  <2> QED
    BY <1>0, <2>1, <2>3, <2>4, <2>5 DEF Requests
<1>4. CASE Timeout \/ RecvDisconnected
  BY <1>4, <1>f DEF Timeout, RecvDisconnected, JobIs, Working, Request, CallersWait
<1>5. CASE FlushNothing \/ HttpOk \/ \E taken \in BOOLEAN : HttpErr(taken)
  <2>1. /\ queue' = queue /\ job' = job /\ worker = "flush" /\ worker' = "after"
        /\ reply' = reply
    BY <1>5, Zenon DEF FlushNothing, HttpOk, HttpErr, CallersWait
  <2>2. Working' <=> Working
    BY <2>1 DEF Working
  <2>3. Inside /\ Busy
    BY <1>d, <2>1, <2>2 DEF Requests, Barrier, Queued
  <2> QED
    BY <1>0, <2>1, <2>3 DEF Requests
<1>6. CASE Resume
  BY <1>6, <1>f DEF Resume, Loop, Working, CallersWait
<1>7. ASSUME Reply(job.from, "ok") \/ Reply(job.from, "error"), ~Working', Shape,
             Working, queue' # queue => queue' = <<>>
      PROVE  Requests' /\ Barrier'
  <2>1. Open(job.from, job.kind)
    BY <1>7 DEF Requests
  <2>2. \A g \in Handle \ {job.from} : reply'[g] = reply[g]
    BY <1>7, <1>a DEF Reply, Locals
  <2>3. Inside
    BY <1>7, <1>d, <1>e, <2>2 DEF Requests
  <2>4. Waits
    BY <2>1, <2>2 DEF Requests, Open
  <2> QED
    BY <1>0, <1>7, <2>3, <2>4
<1>8. CASE AnswerFlush
  <2>1. Reply(job.from, "ok") \/ Reply(job.from, "error")
    BY <1>8 DEF AnswerFlush, Answer
  <2>2. queue' = queue /\ ~Working' /\ Working
    BY <1>8 DEF AnswerFlush, Loop, Working, Request
  <2> QED
    BY <1>7, <2>1, <2>2
<1>9. CASE Finish
  <2>1. queue' = <<>> /\ ~Working'
    BY <1>9 DEF Finish, Working
  <2>2. CASE job.kind = "shutdown"
    BY <1>7, <1>9, <2>1, <2>2 DEF Finish, Working, Request
  <2>3. CASE job.kind # "shutdown"
    BY <1>9, <1>f, <2>1, <2>3 DEF Finish
  <2> QED
    BY <2>2, <2>3
<1>10. CASE Hang
  <2>1. Shape /\ reply' = reply /\ ~Working'
    BY <1>10 DEF Hang, Working, CallersWait
  <2> QED
    BY <1>f, <2>1
<1> QED
  BY <1>1, <1>2, <1>3, <1>4, <1>5, <1>6, <1>8, <1>9, <1>10 DEF WorkerStep

----------------------------------------------------------------------------
(* Losses and who is told of them.                                         *)

Untold == lost \ told

(***************************************************************************)
(* A loss nobody has been told of leaves a mark the next flush finds: with *)
(* a file, that its worker is gone, and without, the pending error.  There *)
(* is no such mark, and no failed result, without such a loss.             *)
(***************************************************************************)
Losses ==
    /\ told \subseteq lost
    /\ File /\ (perished # {} \/ Untold # {}) => ~fileUp
    /\ ~File => perished = {} /\ filed = {}
    /\ ~File /\ Untold # {} => pending
    /\ pending => ~File /\ Untold # {}
    /\ result = "error" => worker \in {"after", "stuck", "done"} /\ (~File => Untold # {})

\* A flush that returned Ok said so truly.
Truthful ==
    \A h \in Handle :
        call[h].kind = "flush" /\ reply[h] = "ok" => before[h] \subseteq Settled \cup told

\* What may have happened to the file when the worker has written or flushed.
LEMMA FileWriteMarks ==
    ASSUME NEW R, NEW res, FileWrite(R, res)
    PROVE  /\ lost \subseteq lost' /\ stored \subseteq stored'
           /\ fileUp' => fileUp /\ perished' = perished /\ lost' = lost
<1>1. PICK taken \in SUBSET R :
         /\ taken # {} => fileUp
         /\ IF taken = R
            THEN filed' = filed \cup R /\ UNCHANGED <<fileUp, stored, perished>>
            ELSE FileDies(taken)
         /\ lost' = lost \cup (R \ taken)
  BY DEF FileWrite
<1>2. CASE taken = R
  <2>1. /\ fileUp' = fileUp /\ stored' = stored /\ perished' = perished /\ lost' = lost
    BY <1>1, <1>2
  <2> QED
    BY <2>1, Zenon
<1>3. CASE taken # R
  <2>1. ~fileUp'
    BY <1>1, <1>3, Zenon DEF FileDies
  <2>2. stored \subseteq stored' /\ lost \subseteq lost'
    BY <1>1, <1>3 DEF FileDies
  <2> QED
    BY <2>1, <2>2
<1> QED
  BY <1>2, <1>3

LEMMA FileFlushMarks ==
    ASSUME NEW res, FileFlush(res)
    PROVE  /\ stored \subseteq stored'
           /\ fileUp' => fileUp /\ perished' = perished
           /\ res # "error" => fileUp /\ perished' = perished /\ stored' = stored \cup filed
<1>1. CASE FileDies({})
  <2>1. ~fileUp' /\ stored \subseteq stored'
    BY <1>1 DEF FileDies
  <2>2. res # "error" => fileUp /\ perished' = perished /\ stored' = stored \cup filed
    BY DEF FileFlush
  <2> QED
    BY <2>1, <2>2
<1>2. CASE ~FileDies({})
  <2>1. fileUp' = fileUp /\ perished' = perished /\ stored \subseteq stored'
    BY <1>2 DEF FileFlush
  <2>2. res # "error" => fileUp /\ perished' = perished /\ stored' = stored \cup filed
    BY DEF FileFlush
  <2>3. fileUp' => fileUp
    BY <2>1, Zenon
  <2> QED
    BY <2>1, <2>2, <2>3
<1> QED
  BY <1>1, <1>2

LEMMA WorkerLosses ==
    ASSUME EndInv, PlaceInv, Losses, WorkerStep
    PROVE  Losses' /\ Settled \subseteq Settled' /\ told \subseteq told'
<1>a. Inner /\ Work
  BY TypeParts DEF EndInv
<1>b. File' <=> File
  BY WorkerLeaves DEF File
<1>c. ~File => Http
  BY <1>a DEF Inner, File, Http
<1>d. ~File => UNCHANGED fileSide
  BY <1>a, WorkerNoFile
<1> DEFINE Goal == Losses' /\ Settled \subseteq Settled' /\ told \subseteq told'
\* The file may have ended, and records may be lost that it did not take.
<1>1. ASSUME File, lost \subseteq lost', told' = told, ~pending',
             fileUp' => fileUp /\ perished' = perished /\ lost' = lost,
             result' = "error" => worker' \in {"after", "stuck", "done"}
      PROVE  Losses'
  BY <1>1, <1>b DEF Losses, Untold
<1>2. ASSUME UNCHANGED <<fileSide, lost, told, pending>>,
             result' = "error" => result = "error" /\ worker' \in {"after", "stuck", "done"}
      PROVE  Losses'
  BY <1>2, <1>b DEF Losses, Untold
<1>p. ~pending \/ ~File
  BY DEF Losses
<1>3. CASE RecvLog
  <2>1. delivered' = delivered /\ told' = told /\ pending' = pending /\ result' = result
        /\ worker = "recv"
    BY <1>3, Zenon DEF RecvLog
  <2>2. result # "error"
    BY <2>1 DEF Losses
  <2>3. CASE Http
    <3>1. UNCHANGED <<fileSide, lost>>
      BY <1>3, <2>3 DEF RecvLog
    <3> QED
      BY <1>2, <2>1, <2>2, <3>1 DEF Settled
  <2>4. CASE ~Http
    <3>1. PICK res \in {"ok", "error"} : FileWrite({Head(queue).record}, res)
      BY <1>3, <2>4 DEF RecvLog
    <3>2. /\ lost \subseteq lost' /\ stored \subseteq stored'
          /\ fileUp' => fileUp /\ perished' = perished /\ lost' = lost
      BY <3>1, FileWriteMarks
    <3>3. File /\ ~pending'
      BY <1>c, <1>p, <2>1, <2>4, Zenon
    <3> QED
      BY <1>1, <2>1, <2>2, <3>2, <3>3 DEF Settled
  <2> QED
    BY <2>3, <2>4
<1>4. CASE RecvStats \/ RecvFlush \/ Timeout \/ RecvDisconnected
  <2>1. UNCHANGED <<fileSide, lost, told, pending, delivered, result>> /\ worker = "recv"
    BY <1>4, Zenon DEF RecvStats, RecvFlush, Timeout, RecvDisconnected
  <2> QED
    BY <1>2, <2>1 DEF Settled, Losses
<1>5. CASE FlushNothing
  BY <1>2, <1>5 DEF FlushNothing, Settled
<1>6. CASE HttpOk
  BY <1>2, <1>6 DEF HttpOk, Settled
<1>7. ASSUME NEW taken \in BOOLEAN, HttpErr(taken) PROVE Goal
  <2>1. delivered \subseteq delivered'
    <3>1. delivered' = delivered \cup Elements(batch) \/ delivered' = delivered
      BY <1>7, Zenon DEF HttpErr, HttpTakes
    <3> QED
      BY <3>1
  <2>2. told' = told /\ worker' = "after" /\ batch # <<>> /\ Fallback
    BY <1>7, Zenon DEF HttpErr
  <2>3. CASE File /\ (\E res \in {"ok", "error"} : FileWrite(Elements(batch), res)) /\ ~pending'
    <3>1. /\ lost \subseteq lost' /\ stored \subseteq stored'
          /\ fileUp' => fileUp /\ perished' = perished /\ lost' = lost
      BY <2>3, FileWriteMarks
    <3> QED
      BY <1>1, <2>1, <2>2, <2>3, <3>1 DEF Settled
  <2>4. CASE /\ ~File /\ lost' = lost \cup Elements(batch) /\ result' = "error" /\ pending'
             /\ UNCHANGED fileSide
    <3>1. PICK r : r \in Elements(batch)
      <4>1. 1 \in DOMAIN batch
        BY <1>a, <2>2 DEF Work
      <4> QED
        BY <4>1 DEF Elements
    <3>2. r \notin lost
      BY <3>1 DEF PlaceInv, Placed, Aside
    <3>3. r \in Untold'
      BY <2>2, <2>4, <3>1, <3>2 DEF Losses, Untold
    <3>4. told' \subseteq lost'
      BY <2>2, <2>4 DEF Losses
    <3>5. Losses'
      BY <1>b, <2>2, <2>4, <3>3, <3>4 DEF Losses
    <3> QED
      BY <2>1, <2>2, <2>4, <3>5 DEF Settled
  <2> QED
    <3>1. \/ File /\ (\E res \in {"ok", "error"} : FileWrite(Elements(batch), res)) /\ ~pending'
          \/ /\ ~File /\ lost' = lost \cup Elements(batch) /\ result' = "error" /\ pending'
             /\ UNCHANGED fileSide
      BY <2>2, Zenon DEF Fallback
    <3> QED
      BY <2>3, <2>4, <3>1
<1>8. CASE Resume
  <2>1. UNCHANGED <<lost, told, pending, delivered>> /\ result' = "ok"
    BY <1>8, Zenon DEF Resume, Loop
  <2>2. CASE UNCHANGED fileSide
    BY <1>2, <2>1, <2>2 DEF Settled
  <2>3. CASE File /\ \E res \in {"ok", "error"} : FileFlush(res)
    <3>1. stored \subseteq stored' /\ (fileUp' => fileUp /\ perished' = perished)
      BY <2>3, FileFlushMarks
    <3>2. ~pending'
      BY <1>p, <2>1, <2>3, Zenon
    <3> QED
      BY <1>1, <2>1, <2>3, <3>1, <3>2 DEF Settled
  <2> QED
    BY <1>8, <2>2, <2>3 DEF Resume
<1>9. CASE AnswerFlush
  <2>1. UNCHANGED <<lost, delivered>> /\ result' = "ok"
    BY <1>9, Zenon DEF AnswerFlush, Loop
  \* It says that there were losses: nothing is left untold.
  <2>2. ASSUME told' = told \cup lost, ~pending', stored \subseteq stored',
               fileUp' => fileUp /\ perished' = perished, UNCHANGED fileSide \/ File
        PROVE  Goal
    BY <1>b, <2>1, <2>2 DEF Losses, Untold, Settled
  <2>3. CASE (result = "error" \/ pending) /\ Answer("error") /\ ~pending' /\ UNCHANGED fileSide
    <3>1. fileUp' => fileUp /\ perished' = perished
      BY <2>3, Zenon
    <3> QED
      BY <2>2, <2>3, <3>1 DEF Answer
  <2>4. CASE /\ result = "ok" /\ ~pending /\ pending' = pending
             /\ \/ File /\ \E res \in {"ok", "error"} : FileFlush(res) /\ Answer(res)
                \/ Answer("ok") /\ UNCHANGED fileSide
    <3>1. ~pending'
      BY <2>4, Zenon
    <3>2. CASE Answer("ok") /\ UNCHANGED fileSide
      BY <1>2, <2>1, <2>4, <3>2 DEF Answer, Settled
    <3>3. ASSUME NEW res \in {"ok", "error"}, File, FileFlush(res), Answer(res)
          PROVE  Goal
      <4>1. stored \subseteq stored' /\ (fileUp' => fileUp /\ perished' = perished)
        BY <3>3, FileFlushMarks
      <4>2. CASE res = "error"
        BY <2>2, <3>1, <3>3, <4>1, <4>2 DEF Answer
      <4>3. CASE res = "ok"
        BY <1>1, <2>1, <3>1, <3>3, <4>1, <4>3 DEF Answer, Settled
      <4> QED
        BY <4>2, <4>3
    <3> QED
      BY <2>4, <3>2, <3>3
  <2> QED
    <3>1. \/ (result = "error" \/ pending) /\ Answer("error") /\ ~pending' /\ UNCHANGED fileSide
          \/ /\ result = "ok" /\ ~pending /\ pending' = pending
             /\ \/ File /\ \E res \in {"ok", "error"} : FileFlush(res) /\ Answer(res)
                \/ Answer("ok") /\ UNCHANGED fileSide
      BY <1>9, Zenon DEF AnswerFlush
    <3> QED
      BY <2>3, <2>4, <3>1
<1>10. CASE Finish
  <2>1. /\ UNCHANGED <<lost, told, pending, delivered, result>>
        /\ worker' = "done"
        /\ UNCHANGED fileSide \/ (File /\ FileDies({}))
    BY <1>10, Zenon DEF Finish
  <2>2. CASE UNCHANGED fileSide
    BY <1>2, <2>1, <2>2 DEF Settled
  <2>3. CASE File /\ FileDies({})
    <3>1. ~fileUp' /\ stored \subseteq stored'
      BY <2>3 DEF FileDies
    <3>2. ~pending'
      BY <1>p, <2>1, <2>3, Zenon
    <3> QED
      BY <1>1, <2>1, <2>3, <3>1, <3>2 DEF Settled
  <2> QED
    BY <2>1, <2>2, <2>3
<1>11. CASE Hang
  <2>1. /\ UNCHANGED <<lost, told, pending, delivered, result>>
        /\ worker' = "stuck" /\ File /\ FileDies({})
    BY <1>11, Zenon DEF Hang, FileStrands
  <2>2. ~fileUp' /\ stored \subseteq stored'
    BY <2>1 DEF FileDies
  <2>3. ~pending'
    BY <1>p, <2>1, Zenon
  <2> QED
    BY <1>1, <2>1, <2>2, <2>3 DEF Settled
<1> QED
  BY <1>3, <1>4, <1>5, <1>6, <1>7, <1>8, <1>9, <1>10, <1>11 DEF WorkerStep

LEMMA WorkerTruthful ==
    ASSUME EndInv, PlaceInv, Losses, Requests, Barrier, Truthful, WorkerStep
    PROVE  Truthful'
<1>a. Locals /\ Work /\ Placed /\ Closing
  BY TypeParts DEF EndInv, PlaceInv
<1>b. UNCHANGED <<call, before>>
  BY WorkerLeaves
<1>c. Settled \subseteq Settled' /\ told \subseteq told'
  BY WorkerLosses
<1>0. ASSUME NEW h \in Handle, NEW r, Reply(h, r),
             call[h].kind = "flush" /\ r = "ok" => before[h] \subseteq Settled' \cup told'
      PROVE  Truthful'
  <2>1. reply'[h] = r /\ \A g \in Handle \ {h} : reply'[g] = reply[g]
    BY <1>0, <1>a DEF Reply, Locals
  <2>2. ASSUME NEW g \in Handle, call'[g].kind = "flush", reply'[g] = "ok"
        PROVE  before'[g] \subseteq (Settled \cup told)'
    <3>1. CASE g = h
      BY <1>0, <1>b, <2>1, <2>2, <3>1
    <3>2. CASE g # h
      BY <1>b, <1>c, <2>1, <2>2, <3>2 DEF Truthful
    <3> QED
      BY <3>1, <3>2
  <2> QED
    BY <2>2 DEF Truthful
<1>1. CASE reply' = reply
  BY <1>b, <1>c, <1>1 DEF Truthful
<1>2. CASE RecvStats
  <2>1. 1 \in DOMAIN queue /\ Head(queue) = queue[1] /\ queue[1] \in Command
    BY <1>2, <1>a DEF RecvStats, Work
  <2>2. call[Head(queue).from].kind = "stats" /\ Head(queue).from \in Handle
    BY <1>2, <2>1 DEF RecvStats, Requests, Request, Open, Command
  <2> QED
    BY <1>0, <1>2, <2>2 DEF RecvStats
<1>3. CASE AnswerFlush
  <2>1. worker = "after" /\ job.kind = "flush" /\ job.from \in Handle
    BY <1>3, <1>a DEF AnswerFlush, Work
  <2>2. PICK r \in {"ok", "error"} :
           /\ Answer(r)
           /\ r = "ok" => /\ ~pending
                          /\ File => FileFlush("ok")
                          /\ ~File => UNCHANGED fileSide
    BY <1>3, SMT, Zenon DEF AnswerFlush
  <2>3. ASSUME r = "ok" PROVE before[job.from] \subseteq Settled' \cup told'
    <3>1. before[job.from] \cap Queued = {} /\ before[job.from] \subseteq accepted
      BY <2>1 DEF Barrier, Working, Request
    <3>2. Elements(batch) = {}
      BY <1>a, <2>1 DEF Closing, Elements
    <3>3. before[job.from] \subseteq Settled \cup filed \cup perished \cup lost
      BY <1>a, <3>1, <3>2 DEF Placed, Aside, Settled
    <3>4. CASE File
      <4>1. fileUp /\ stored' = stored \cup filed
        BY <2>2, <2>3, <3>4, FileFlushMarks
      <4>2. perished = {} /\ lost \subseteq told
        BY <3>4, <4>1 DEF Losses, Untold
      <4> QED
        BY <1>c, <3>3, <4>1, <4>2 DEF Settled
    <3>5. CASE ~File
      BY <1>c, <2>2, <2>3, <3>3, <3>5 DEF Losses, Untold
    <3> QED
      BY <3>4, <3>5
  <2> QED
    BY <1>0, <2>1, <2>2, <2>3 DEF Answer
<1>4. CASE Finish
  <2>1. CASE job.kind = "shutdown"
    <3>1. job.from \in Handle /\ call[job.from].kind = "shutdown"
      BY <1>4, <1>a, <2>1 DEF Finish, Work, Requests, Working, Open, Request
    <3> QED
      BY <1>0, <1>4, <2>1, <3>1 DEF Finish
  <2>2. CASE job.kind # "shutdown"
    BY <1>1, <1>4, <2>2 DEF Finish
  <2> QED
    BY <2>1, <2>2
<1>5. CASE RecvLog \/ RecvFlush \/ RecvDisconnected \/ Timeout \/ FlushNothing \/ HttpOk
           \/ (\E taken \in BOOLEAN : HttpErr(taken)) \/ Resume \/ Hang
  <2>1. reply' = reply
    BY <1>5, Zenon DEF RecvLog, RecvFlush, RecvDisconnected, Timeout, FlushNothing, HttpOk,
         HttpErr, Resume, Hang, CallersWait
  <2> QED
    BY <1>1, <2>1
<1> QED
  BY <1>2, <1>3, <1>4, <1>5 DEF WorkerStep

TellInv == Losses /\ Requests /\ Barrier /\ Truthful

LEMMA InitTell == Init => TellInv
<1> SUFFICES ASSUME Init PROVE TellInv
  OBVIOUS
<1>1. ~pending
  BY Zenon DEF Init
<1> QED
  BY <1>1 DEF Init, TellInv, Losses, Untold, Requests, Barrier, Truthful, NoCommand, Working

LEMMA TellStep == EndInv /\ PlaceInv /\ TellInv /\ [Next]_vars => TellInv'
<1> SUFFICES ASSUME EndInv, PlaceInv, TellInv, [Next]_vars PROVE TellInv'
  OBVIOUS
<1>1. ASSUME NEW h \in Handle, Start(h) \/ Continue(h) PROVE TellInv'
  <2>1. Requests' /\ Barrier'
    BY <1>1, CallerRequests DEF EndInv, PlaceInv, TellInv
  <2>2. UNCHANGED <<config, work, outcome>>
    BY <1>1, CallerLeaves
  <2>3. Losses'
    BY <2>2 DEF TellInv, Losses, Untold, File
  <2>4. \A g \in Handle : reply'[g] = "none" \/
           (reply'[g] = reply[g] /\ call'[g] = call[g] /\ before'[g] = before[g])
    <3>1. Locals /\ Requests
      BY TypeParts DEF EndInv, TellInv
    <3> QED
      BY <1>1, <3>1, CallerOpen
  <2>5. Truthful'
    BY <2>2, <2>4 DEF TellInv, Truthful, Settled
  <2> QED
    BY <2>1, <2>3, <2>5 DEF TellInv
<1>2. CASE WorkerStep
  <2>1. Losses'
    BY <1>2, WorkerLosses DEF TellInv
  <2>2. Requests' /\ Barrier'
    BY <1>2, WorkerRequests DEF EndInv, TellInv
  <2>3. Truthful'
    BY <1>2, WorkerTruthful DEF TellInv
  <2> QED
    BY <2>1, <2>2, <2>3 DEF TellInv
<1>3. CASE UNCHANGED vars
  <2>1. UNCHANGED <<config, work, outcome, queue, pc, call, reply, before, accepted>>
    BY <1>3, Zenon DEF vars
  <2>2. Losses' /\ Truthful'
    BY <2>1 DEF TellInv, Losses, Untold, File, Truthful, Settled
  <2>3. Requests'
    BY <2>1 DEF TellInv, Requests, Open, Working
  <2>4. Barrier'
    BY <2>1 DEF TellInv, Barrier, Queued, Working
  <2> QED
    BY <2>2, <2>3, <2>4 DEF TellInv
<1> QED
  BY <1>1, <1>2, <1>3 DEF Next

\* What one flush leaves to the next: when it returns Ok, nothing logged before it began is
\* lost without a flush having told of it.
THEOREM FlushTellsLossesHolds == Spec => []FlushTellsLosses
<1>1. Init => EndInv /\ PlaceInv /\ TellInv
  BY InitEnd, InitPlace, InitTell
<1>2. EndInv /\ PlaceInv /\ TellInv /\ [Next]_vars => EndInv' /\ PlaceInv' /\ TellInv'
  BY EndStep, PlaceStep, TellStep
<1>3. TellInv => FlushTellsLosses
  BY DEF TellInv, Truthful, FlushTellsLosses
<1> QED
  BY <1>1, <1>2, <1>3, PTL DEF Spec

\* A flush fails with HTTP alone only if records were lost that no flush has told of: the
\* error that is kept is given away once.
THEOREM ToldOnceHolds == Spec => ToldOnce
<1> DEFINE Once == \A h \in Handle :
                      destination = "http" /\ reply[h] = "none" /\ reply'[h] = "error"
                          => lost \ told # {}
<1>1. Init => EndInv /\ PlaceInv /\ TellInv
  BY InitEnd, InitPlace, InitTell
<1>2. EndInv /\ PlaceInv /\ TellInv /\ [Next]_vars => EndInv' /\ PlaceInv' /\ TellInv'
  BY EndStep, PlaceStep, TellStep
<1>3. EndInv /\ PlaceInv /\ TellInv /\ [Next]_vars => [Once]_vars
  <2> SUFFICES ASSUME EndInv, TellInv, Next, NEW g \in Handle,
                      destination = "http", reply[g] = "none", reply'[g] = "error"
               PROVE  lost \ told # {}
    BY DEF Once
  <2>a. Locals /\ ~File
    BY TypeParts DEF EndInv, File
  <2>1. WorkerStep
    <3>1. ASSUME NEW h \in Handle, Start(h) \/ Continue(h) PROVE reply'[g] = "none" \/ reply'[g] = reply[g]
      BY <2>a, <3>1, CallerOpen DEF TellInv
    <3> QED
      BY <3>1 DEF Next
  <2>2. ASSUME NEW h, NEW r, Reply(h, r), r # "error" PROVE FALSE
    BY <2>a, <2>2 DEF Reply, Locals
  <2>3. AnswerFlush
    <3>1. reply' # reply
      OBVIOUS
    <3>2. RecvStats \/ Finish \/ AnswerFlush
      BY <2>1, <3>1, Zenon
         DEF WorkerStep, RecvLog, RecvFlush, RecvDisconnected, Timeout, FlushNothing, HttpOk,
             HttpErr, Resume, Hang, CallersWait, callers
    <3>3. ~RecvStats
      BY <2>2 DEF RecvStats
    <3>4. ~Finish
      BY <2>2, <3>1 DEF Finish
    <3> QED
      BY <3>2, <3>3, <3>4
  <2>4. result = "error" \/ pending
    <3>1. CASE result = "ok" /\ ~pending
      <4>1. Answer("ok")
        BY <2>3, <2>a, <3>1 DEF AnswerFlush
      <4> QED
        BY <2>2, <4>1 DEF Answer
    <3>2. CASE ~(result = "ok" /\ ~pending)
      BY <2>3, <3>2 DEF AnswerFlush
    <3> QED
      BY <3>1, <3>2
  <2> QED
    BY <2>4, <2>a DEF TellInv, Losses, Untold
<1> QED
  BY <1>1, <1>2, <1>3, PTL DEF Spec, ToldOnce, Once
=============================================================================
