-------------------------- MODULE FileLogger_proofs --------------------------
(***************************************************************************)
(* Theorems about FileLogger for any number of threads, any queue capacity *)
(* and any number of calls and records; and, at the end, about FlushTimer, *)
(* the clocks of its worker.                                               *)
(***************************************************************************)
EXTENDS FileLogger, FlushTimer, SequenceTheorems, TLAPS

USE FileLoggerAssumption DEF FileLoggerAssumption, shared, channel, locals,
        counters, caller, work, sinkVars, history

----------------------------------------------------------------------------
(* Types.                                                                  *)

LEMMA InitType == Init => TypeOK
<1> SUFFICES ASSUME Init PROVE TypeOK
  OBVIOUS
<1>1. /\ shutdown \in BOOLEAN /\ join \in BOOLEAN /\ finalStats \in BOOLEAN
      /\ receiver \in BOOLEAN /\ panicked \in BOOLEAN
  BY Zenon DEF Init
<1>2. Sink!SinkTypeOK
  <2>1. writer \in BOOLEAN
    BY Zenon DEF Init, Sink!SinkInit
  <2> QED
    BY <2>1 DEF Init, Sink!SinkInit, Sink!SinkTypeOK
<1>3. \A h \in Handle : /\ NoCommand(h) \in Command
                          /\ NoCommand(h).from = h
                          /\ WellFormed(NoCommand(h))
  BY DEF NoCommand, Command, WellFormed
<1> QED
  BY <1>1, <1>2, <1>3 DEF Init, TypeOK, SharedOK, ChannelOK, LocalsOK,
       CountersOK, WorkOK, HistoryOK

\* The steps of a call keep the types of its locals.
LEMMA EnterType ==
    ASSUME TypeOK, NEW h \in Handle, NEW kind \in {"write", "shutdown"} \cup Request,
           NEW records \in Seq(Record), kind = "write" <=> records # <<>>,
           NEW where \in {"recheck", "send", "trySend", "query"},
           Enter(h, kind, records, where)
    PROVE  LocalsOK'
<1> DEFINE c == [kind |-> kind, from |-> h, records |-> records]
<1>1. c \in Command /\ c.from = h /\ WellFormed(c)
  BY DEF Command, WellFormed
<1>2. call' = [call EXCEPT ![h] = c]
  BY DEF Enter
<1> HIDE DEF c
<1> QED
  BY <1>1, <1>2 DEF Enter, TypeOK, LocalsOK, HistoryOK

LEMMA GotoType ==
    ASSUME TypeOK, NEW h \in Handle,
           NEW where \in {"idle", "send", "wait", "lock", "join", "dropJoin",
                          "release", "gone"},
           Goto(h, where)
    PROVE  LocalsOK'
  BY DEF Goto, TypeOK, LocalsOK

LEMMA ReturnType ==
    ASSUME TypeOK, NEW h \in Handle, Return(h)
    PROVE  LocalsOK'
<1>1. NoCommand(h) \in Command /\ NoCommand(h).from = h /\ WellFormed(NoCommand(h))
  BY DEF NoCommand, Command, WellFormed
<1> QED
  BY <1>1 DEF Return, TypeOK, LocalsOK

LEMMA BeginType ==
    ASSUME TypeOK, NEW h \in Handle, NEW kind \in {"write"} \cup Request,
           NEW records \in Seq(Record), kind = "write" <=> records # <<>>,
           NEW mode \in {"send", "trySend"},
           Begin(h, kind, records, mode)
    PROVE  LocalsOK'
<1>1. CASE shutdown
  BY <1>1 DEF Begin, TypeOK, LocalsOK
<1>2. CASE ~shutdown
  <2>1. Enter(h, kind, records, mode)
    BY <1>2 DEF Begin
  <2> QED
    BY <2>1, EnterType
<1> QED
  BY <1>1, <1>2

\* The same for a command without records.
LEMMA NoRecords ==
    ASSUME NEW kind \in {"shutdown"} \cup Request
    PROVE  /\ <<>> \in Seq(Record)
           /\ kind \in {"write", "shutdown"} \cup Request
           /\ kind = "write" <=> <<>> # <<>>
  BY DEF Request

LEMMA EnterEmptyType ==
    ASSUME TypeOK, NEW h \in Handle, NEW kind \in {"shutdown"} \cup Request,
           NEW where \in {"recheck", "send", "trySend", "query"},
           Enter(h, kind, <<>>, where)
    PROVE  LocalsOK'
  BY NoRecords, EnterType, Zenon

\* The actions of the sink keep its types.
LEMMA SinkType ==
    ASSUME Sink!SinkTypeOK,
           \/ \E r \in Record : Sink!Put(r)
           \/ Sink!FlushOk
           \/ Sink!FlushErr
           \/ \E R \in SUBSET Record : Sink!Fail(R)
           \/ Sink!Close
           \/ UNCHANGED sinkVars
    PROVE  Sink!SinkTypeOK'
<1> USE DEF Sink!SinkTypeOK
<1>1. ASSUME NEW k \in 0..Len(buffered)
      PROVE  /\ SubSeq(buffered, 1, k) \in Seq(Record)
             /\ SubSeq(buffered, k + 1, Len(buffered)) \in Seq(Record)
  <2>1. \A i \in 1..k : buffered[i] \in Record
    BY <1>1
  <2>2. \A i \in k + 1..Len(buffered) : buffered[i] \in Record
    BY <1>1
  <2>3. 1 \in Int /\ k \in Int /\ k + 1 \in Int /\ Len(buffered) \in Int
    OBVIOUS
  <2>4. SubSeq(buffered, 1, k) \in Seq(Record)
    BY <2>1, <2>3, SubSeqProperties, Zenon
  <2>5. SubSeq(buffered, k + 1, Len(buffered)) \in Seq(Record)
    BY <2>2, <2>3, SubSeqProperties, Zenon
  <2> QED
    BY <2>4, <2>5
<1>2. CASE \E r \in Record : Sink!Put(r)
  <2>1. PICK r \in Record : Sink!Put(r)
    BY <1>2
  <2>2. Append(buffered, r) \in Seq(Record) /\ <<r>> \in Seq(Record)
    OBVIOUS
  <2>3. /\ stored \o buffered \in Seq(Record)
        /\ stored \o Append(buffered, r) \in Seq(Record)
    BY <2>2, ConcatProperties
  <2>4. writer' \in BOOLEAN /\ UNCHANGED refused
    BY <2>1, Zenon DEF Sink!Put
  <2>5. stored' \in Seq(Record) /\ buffered' \in Seq(Record)
    <3>1. \/ stored' = stored /\ buffered' = Append(buffered, r)
          \/ stored' = stored \o buffered /\ buffered' = <<r>>
          \/ stored' = stored \o Append(buffered, r) /\ buffered' = <<>>
      BY <2>1, Zenon DEF Sink!Put
    <3>2. <<>> \in Seq(Record)
      OBVIOUS
    <3> QED
      BY <2>2, <2>3, <3>1, <3>2, Zenon
  <2> QED
    BY <2>4, <2>5
<1>3. CASE Sink!FlushOk
  BY <1>1, <1>3 DEF Sink!FlushOk, Sink!Drain
<1>4. CASE Sink!FlushErr
  BY <1>1, <1>4 DEF Sink!FlushErr, Sink!GiveUp, Sink!Drain
<1>5. CASE \E R \in SUBSET Record : Sink!Fail(R)
  <2>1. writer' \in BOOLEAN
    BY <1>5, Zenon DEF Sink!Fail
  <2> QED
    BY <1>1, <1>5, <2>1 DEF Sink!Fail, Sink!GiveUp, Sink!Drain
<1>6. CASE Sink!Close
  <2>1. writer' \in BOOLEAN
    BY <1>6, Zenon DEF Sink!Close
  <2> QED
    BY <1>1, <1>6, <2>1 DEF Sink!Close
<1>7. CASE UNCHANGED sinkVars
  BY <1>7
<1> QED
  BY <1>2, <1>3, <1>4, <1>5, <1>6, <1>7

----------------------------------------------------------------------------
LEMMA CallerType ==
    ASSUME TypeOK, NEW h \in Handle, Start(h) \/ Continue(h)
    PROVE  TypeOK'
<1> USE DEF TypeOK, SharedOK, ChannelOK, CountersOK, WorkOK, HistoryOK,
            Sink!SinkTypeOK
<1>1. ASSUME NEW n \in 1..MaxBatch, NEW mode \in {"send", "trySend"},
             Log(h, n, mode)
      PROVE  TypeOK'
  <2> DEFINE records == [i \in 1..n |-> <<h, written[h] + i>>]
  <2>1. records \in Seq(Record)
    <3>1. written[h] \in Nat /\ written[h] + n <= MaxWrites
      BY <1>1 DEF Log
    <3>2. \A i \in 1..n : written[h] + i \in 1..MaxWrites
      BY <3>1
    <3> QED
      BY <3>2 DEF Record
  <2>2. records # <<>>
    <3>1. Len(records) = n /\ n > 0
      BY <2>1
    <3>2. Len(<<>>) = 0
      OBVIOUS
    <3> HIDE DEF records
    <3> QED
      BY <3>1, <3>2
  <2>3. LocalsOK'
    <3>1. Begin(h, "write", records, mode)
      BY <1>1 DEF Log
    <3> HIDE DEF records
    <3> QED
      BY <2>1, <2>2, <3>1, BeginType
  <2> QED
    BY <1>1, <2>3 DEF Log
<1>2. ASSUME NEW kind \in {"flush", "rotate"}, NEW mode \in {"send", "trySend"},
             Ask(h, kind, mode)
      PROVE  TypeOK'
  <2>1. LocalsOK'
    <3>1. CASE shutdown
      BY <1>2, <3>1 DEF Ask, Begin, LocalsOK
    <3>2. CASE ~shutdown
      BY <1>2, <3>2, EnterEmptyType DEF Ask, Begin, Request
    <3> QED
      BY <3>1, <3>2
  <2> QED
    BY <1>2, <2>1 DEF Ask
<1>3. CASE Stats(h)
  <2>1. LocalsOK'
    BY <1>3, EnterEmptyType DEF Stats, Request
  <2> QED
    BY <1>3, <2>1 DEF Stats
<1>4. CASE Query(h)
  <2>1. LocalsOK'
    BY <1>4, EnterEmptyType DEF Query, Request
  <2> QED
    BY <1>4, <2>1 DEF Query
<1>5. ASSUME StartShutdown(h), UNCHANGED <<channel, counters, work, sinkVars, history>>,
             dropping' \subseteq Handle
      PROVE  TypeOK'
  <2>1. LocalsOK'
    BY <1>5, EnterEmptyType DEF StartShutdown
  <2>2. shutdown' \in BOOLEAN
    BY <1>5, Zenon DEF StartShutdown
  <2> QED
    BY <1>5, <2>1, <2>2 DEF StartShutdown
<1>6. CASE Shutdown(h)
  BY <1>5, <1>6 DEF Shutdown
<1>7. CASE DropStart(h)
  <2>1. CASE StartShutdown(h)
    BY <1>5, <1>7, <2>1 DEF DropStart
  <2>2. CASE ~StartShutdown(h)
    <3>1. LocalsOK'
      BY <1>7, <2>2, GotoType DEF DropStart
    <3> QED
      BY <1>7, <2>2, <3>1 DEF DropStart
  <2> QED
    BY <2>1, <2>2
<1>8. ASSUME NEW new \in Handle, Clone(h, new)
      PROVE  TypeOK'
  <2>1. LocalsOK'
    BY <1>8, GotoType DEF Clone
  <2> QED
    BY <1>8, <2>1 DEF Clone
<1>9. CASE Recheck(h) \/ TrySendFull(h) \/ SendDisconnected(h) \/ Receive(h)
           \/ QueryReturn(h) \/ Lock(h)
  <2>1. LocalsOK'
    BY <1>9, GotoType, ReturnType
       DEF Recheck, TrySendFull, SendDisconnected, Receive, QueryReturn, Lock
  <2> QED
    BY <1>9, <2>1
       DEF Recheck, TrySendFull, SendDisconnected, Receive, QueryReturn, Lock
<1>10. CASE SendOk(h)
  <2>1. LocalsOK'
    BY <1>10, GotoType, ReturnType DEF SendOk
  <2>2. call[h] \in Command /\ WellFormed(call[h])
    BY DEF LocalsOK
  <2>3. Elements(call[h].records) \subseteq Record
    BY <2>2 DEF Command, Elements
  <2>4. queue' \in Seq(Command) /\ \A i \in DOMAIN queue' : WellFormed(queue'[i])
    BY <1>10, <2>2 DEF SendOk
  <2> QED
    BY <1>10, <2>1, <2>3, <2>4 DEF SendOk
<1>11. CASE Join(h)
  <2>1. LocalsOK'
    BY <1>11, ReturnType DEF Join
  <2>2. join' \in BOOLEAN /\ finalStats' \in BOOLEAN
    BY <1>11, Zenon DEF Join
  <2> QED
    BY <1>11, <2>1, <2>2 DEF Join
<1>12. CASE DropJoin(h)
  <2>1. LocalsOK'
    BY <1>12, GotoType DEF DropJoin
  <2>2. join' \in BOOLEAN
    BY <1>12, Zenon DEF DropJoin
  <2> QED
    BY <1>12, <2>1, <2>2 DEF DropJoin
<1>13. CASE Release(h)
  <2>1. LocalsOK'
    BY <1>13, GotoType DEF Release
  <2> QED
    BY <1>13, <2>1 DEF Release
<1> QED
  BY <1>1, <1>2, <1>3, <1>4, <1>6, <1>7, <1>8, <1>9, <1>10, <1>11, <1>12, <1>13
     DEF Start, Continue

LEMMA QueuedType == ChannelOK => Queued \subseteq Record
<1> SUFFICES ASSUME ChannelOK, NEW i \in DOMAIN queue
             PROVE  Elements(queue[i].records) \subseteq Record
  BY DEF Queued
<1>1. queue[i] \in Command
  BY DEF ChannelOK
<1>2. queue[i].records \in Seq(Record)
  BY <1>1 DEF Command
<1> QED
  BY <1>2 DEF Elements

LEMMA WorkerType ==
    ASSUME TypeOK, WorkerStep \/ AutoFlush
    PROVE  TypeOK'
<1> USE DEF TypeOK, SharedOK, ChannelOK, LocalsOK, CountersOK, WorkOK, HistoryOK,
            Sink!SinkTypeOK
<1>0. job.from \in Handle /\ job.records \in Seq(Record)
  BY DEF Command
<1>a. NoCommand(First) \in Command
  BY FileLoggerAssumption DEF FileLoggerAssumption, NoCommand, Command
<1>1. CASE Recv
  <2>1. Head(queue) \in Command /\ WellFormed(Head(queue))
    BY <1>1 DEF Recv
  <2>2. queue' \in Seq(Command) /\ \A i \in DOMAIN queue' : WellFormed(queue'[i])
    BY <1>1 DEF Recv
  <2>3. WorkOK'
    BY <1>1, <2>1 DEF Recv, WellFormed
  <2> QED
    BY <1>1, <2>2, <2>3 DEF Recv
<1>2. CASE RecvDisconnected
  BY <1>2, <1>a DEF RecvDisconnected
<1>3. CASE AutoFlush
  <2>1. Sink!SinkTypeOK'
    BY <1>3, SinkType DEF AutoFlush
  <2> QED
    BY <1>3, <2>1 DEF AutoFlush
<1>4. ASSUME NEW records \in Seq(Record)
      PROVE  [job EXCEPT !.records = records] \in Command
  BY DEF Command
<1>5. CASE WriteOk
  <2>1. Head(job.records) \in Record /\ Tail(job.records) \in Seq(Record)
    BY <1>0, <1>5 DEF WriteOk
  <2>2. Sink!SinkTypeOK'
    BY <1>5, <2>1, SinkType DEF WriteOk
  <2>3. job' \in Command /\ job'.records = Tail(job.records)
    BY <1>4, <1>5, <2>1 DEF WriteOk, Command
  <2>4. ASSUME worker' = "write" PROVE Tail(job.records) # <<>>
    <3>1. job.records # <<>> /\ Len(job.records) # 1
      BY <1>5, <2>4 DEF WriteOk
    <3>2. Len(Tail(job.records)) = Len(job.records) - 1
      BY <1>0, <3>1
    <3>3. Len(Tail(job.records)) # 0
      BY <1>0, <3>1, <3>2
    <3>4. Len(<<>>) = 0
      OBVIOUS
    <3> QED
      BY <3>3, <3>4, Zenon
  <2> QED
    BY <1>5, <2>2, <2>3, <2>4 DEF WriteOk
<1>6. <<>> \in Seq(Record)
  OBVIOUS
<1>7. CASE WriteErr
  <2>1. Elements(job.records) \in SUBSET Record
    BY <1>0 DEF Elements
  <2>2. Sink!SinkTypeOK'
    BY <1>7, <2>1, SinkType DEF WriteErr
  <2> QED
    BY <1>4, <1>6, <1>7, <2>2 DEF WriteErr
<1>8. CASE WritePanic
  <2>1. Elements(job.records) \subseteq Record
    BY <1>0 DEF Elements
  <2>2. panicked' \in BOOLEAN
    BY <1>8, Zenon DEF WritePanic
  <2> QED
    BY <1>4, <1>6, <1>8, <2>1, <2>2 DEF WritePanic
<1>9. CASE Serve
  <2>1. Sink!SinkTypeOK'
    BY <1>9, SinkType DEF Serve
  <2> QED
    BY <1>0, <1>a, <1>9, <2>1 DEF Serve, Reply
<1>10. CASE Finalize
  <2>1. Sink!SinkTypeOK'
    BY <1>10, SinkType DEF Finalize
  <2> QED
    BY <1>0, <1>10, <2>1 DEF Finalize, Reply
<1>11. CASE DropReceiver
  <2>1. Queued \subseteq Record
    BY QueuedType
  <2>2. receiver' \in BOOLEAN
    BY <1>11, Zenon DEF DropReceiver
  <2> QED
    BY <1>11, <2>1, <2>2 DEF DropReceiver
<1>12. CASE Exit
  <2>1. Sink!SinkTypeOK'
    BY <1>12, SinkType DEF Exit
  <2>2. Elements(buffered) \subseteq Record
    BY DEF Elements, Sink!SinkTypeOK
  <2> QED
    BY <1>12, <2>1, <2>2 DEF Exit
<1> QED
  BY <1>1, <1>2, <1>3, <1>5, <1>7, <1>8, <1>9, <1>10, <1>11, <1>12
     DEF WorkerStep

(***************************************************************************)
(* Every variable keeps its type: in particular the worker never starts a  *)
(* write without a record in its hands.                                    *)
(***************************************************************************)
THEOREM TypeCorrect == Spec => []TypeOK
<1>1. TypeOK /\ [Next]_vars => TypeOK'
  <2>1. TypeOK /\ UNCHANGED vars => TypeOK'
    BY DEF vars, TypeOK, SharedOK, ChannelOK, LocalsOK, CountersOK, WorkOK,
           HistoryOK, Sink!SinkTypeOK
  <2> QED
    BY <2>1, CallerType, WorkerType DEF Next
<1> QED
  BY <1>1, InitType, PTL DEF Spec

----------------------------------------------------------------------------
(* Shutdown discards only what came too late.                              *)

Ending == {"finalize", "close", "exit", "done"}

(***************************************************************************)
(* DiscardedAreLate is not inductive by itself.  It is because everything  *)
(* behind a Shutdown command in the queue is late, and because once the    *)
(* worker has left its loop only late records can still be queued: either  *)
(* the flag is set, or there is no handle left to send through.            *)
(***************************************************************************)
CallersHold ==
    /\ \A h \in Handle : pc[h] \notin {"unborn", "gone"} => h \in handles
    /\ \A h \in Handle : call[h].kind = "shutdown" => shutdown

LateInv ==
    /\ CallersHold
    /\ \A i \in DOMAIN queue : queue[i].kind = "shutdown" => shutdown
    /\ \A i, j \in DOMAIN queue :
          i < j /\ queue[i].kind = "shutdown"
              => Elements(queue[j].records) \subseteq late
    /\ worker \in Ending /\ ~panicked =>
          /\ shutdown \/ handles = {}
          /\ \A i \in DOMAIN queue : Elements(queue[i].records) \subseteq late
    /\ DiscardedAreLate

LEMMA InitLate == Init => LateInv
  BY DEF Init, LateInv, CallersHold, Ending, DiscardedAreLate, NoCommand

\* A step of h leaves the other callers where they are.
LEMMA OneMoves ==
    ASSUME TypeOK, CallersHold, NEW h \in Handle, h \in handles,
           \A g \in Handle \ {h} : pc'[g] = pc[g] /\ call'[g] = call[g],
           call'[h].kind = "shutdown" => shutdown',
           shutdown => shutdown', handles' = handles
    PROVE  CallersHold'
  BY DEF CallersHold

LEMMA EnterHolds ==
    ASSUME TypeOK, NEW h \in Handle, NEW kind, NEW records, NEW where,
           Enter(h, kind, records, where)
    PROVE  /\ pc[h] = "idle"
           /\ \A g \in Handle \ {h} : pc'[g] = pc[g] /\ call'[g] = call[g]
           /\ call'[h].kind = kind
  BY DEF TypeOK, LocalsOK, Enter

LEMMA GotoHolds ==
    ASSUME TypeOK, NEW h \in Handle, NEW where, Goto(h, where)
    PROVE  /\ \A g \in Handle \ {h} : pc'[g] = pc[g] /\ call'[g] = call[g]
           /\ pc'[h] = where /\ call'[h] = call[h]
  BY DEF TypeOK, LocalsOK, Goto

LEMMA ReturnHolds ==
    ASSUME TypeOK, NEW h \in Handle, Return(h)
    PROVE  /\ \A g \in Handle \ {h} : pc'[g] = pc[g] /\ call'[g] = call[g]
           /\ call'[h].kind = "none"
  BY DEF TypeOK, LocalsOK, Return, NoCommand

LEMMA SendKeepsLate ==
    ASSUME TypeOK, LateInv, NEW h \in Handle, SendOk(h)
    PROVE  LateInv'
<1> USE DEF TypeOK, LocalsOK, ChannelOK, SharedOK
<1> DEFINE records == Elements(call[h].records)
<1>1. /\ queue' = Append(queue, call[h]) /\ call[h] \in Command
      /\ late' = IF shutdown THEN late \cup records ELSE late
      /\ UNCHANGED <<shared, worker, panicked, discarded>>
  BY DEF SendOk
<1>2. \A i \in DOMAIN queue' :
         \/ i \in DOMAIN queue /\ queue'[i] = queue[i]
         \/ i = Len(queue) + 1 /\ queue'[i] = call[h]
  BY <1>1
<1>3. late \subseteq late' /\ (shutdown => records \subseteq late')
  BY <1>1
<1> HIDE DEF records
<1>4. h \in handles
  BY DEF LateInv, CallersHold, SendOk
<1>5. CallersHold'
  <2>1. CASE Return(h)
    BY <2>1, <1>1, <1>4, ReturnHolds, OneMoves DEF LateInv, shared
  <2>2. CASE Goto(h, "wait")
    BY <2>2, <1>1, <1>4, GotoHolds, OneMoves DEF LateInv, CallersHold, shared
  <2> QED
    BY <2>1, <2>2 DEF SendOk
<1>6. \A i \in DOMAIN queue' : queue'[i].kind = "shutdown" => shutdown'
  BY <1>1, <1>2 DEF LateInv, CallersHold, shared
<1>7. ASSUME NEW i \in DOMAIN queue', NEW j \in DOMAIN queue', i < j,
             queue'[i].kind = "shutdown"
      PROVE  Elements(queue'[j].records) \subseteq late'
  <2>1. i \in DOMAIN queue /\ queue'[i] = queue[i]
    BY <1>2, <1>7
  <2>2. shutdown
    BY <1>7, <2>1 DEF LateInv
  <2>3. CASE j \in DOMAIN queue /\ queue'[j] = queue[j]
    BY <1>3, <1>7, <2>1, <2>3 DEF LateInv
  <2>4. CASE queue'[j] = call[h]
    BY <1>3, <2>2, <2>4 DEF records
  <2> QED
    BY <1>2, <2>3, <2>4
<1>8. ASSUME worker' \in Ending, ~panicked'
      PROVE  /\ shutdown' \/ handles' = {}
             /\ \A i \in DOMAIN queue' :
                   Elements(queue'[i].records) \subseteq late'
  <2>1. shutdown
    BY <1>1, <1>4, <1>8 DEF LateInv
  <2>2. ASSUME NEW i \in DOMAIN queue'
        PROVE  Elements(queue'[i].records) \subseteq late'
    <3>1. CASE i \in DOMAIN queue /\ queue'[i] = queue[i]
      BY <1>1, <1>3, <1>8, <3>1 DEF LateInv
    <3>2. CASE queue'[i] = call[h]
      BY <1>3, <2>1, <3>2 DEF records
    <3> QED
      BY <1>2, <3>1, <3>2
  <2> QED
    BY <1>1, <2>1, <2>2
<1>9. DiscardedAreLate'
  BY <1>1, <1>3 DEF LateInv, DiscardedAreLate
<1> QED
  BY <1>5, <1>6, <1>7, <1>8, <1>9 DEF LateInv

LEMMA CallerKeepsLate ==
    ASSUME TypeOK, LateInv, NEW h \in Handle, Start(h) \/ Continue(h), ~SendOk(h)
    PROVE  LateInv'
<1> USE DEF TypeOK, LocalsOK, ChannelOK, SharedOK
<1>1. UNCHANGED <<channel, work, accepted, late, discarded, perished>>
  BY DEF Start, Continue, Log, Ask, Stats, Shutdown, StartShutdown, Query,
         DropStart, Clone, Recheck, TrySendFull, SendDisconnected,
         Receive, QueryReturn, Lock, Join, DropJoin, Release
<1>2. /\ shutdown => shutdown'
      /\ handles = {} => handles' = {}
      /\ CallersHold'
  <2>1. ASSUME NEW n \in 1..MaxBatch, NEW mode \in {"send", "trySend"},
               Log(h, n, mode)
        PROVE  <1>2!:
    <3>1. UNCHANGED <<shutdown, handles>>
      BY <2>1 DEF Log, shared
    <3>2. CASE shutdown
      BY <2>1, <3>1, <3>2 DEF Log, Begin, LateInv, CallersHold, locals
    <3>3. CASE ~shutdown
      <4> DEFINE records == [i \in 1..n |-> <<h, written[h] + i>>]
      <4>1. Enter(h, "write", records, mode)
        BY <2>1, <3>3 DEF Log, Begin
      <4> HIDE DEF records
      <4>2. /\ pc[h] = "idle" /\ call'[h].kind = "write"
            /\ \A g \in Handle \ {h} : pc'[g] = pc[g] /\ call'[g] = call[g]
        BY <4>1, EnterHolds, Zenon
      <4>3. h \in handles /\ CallersHold
        BY <4>2 DEF LateInv, CallersHold
      <4>4. call'[h].kind = "shutdown" => shutdown'
        BY <4>2
      <4>5. (shutdown => shutdown') /\ handles' = handles
        BY <3>1, Zenon
      <4>6. CallersHold'
        BY <4>2, <4>3, <4>4, <4>5, OneMoves, Zenon
      <4> QED
        BY <4>5, <4>6
    <3> QED
      BY <3>2, <3>3
  <2>2. ASSUME NEW kind \in {"flush", "rotate"}, NEW mode \in {"send", "trySend"},
               Ask(h, kind, mode)
        PROVE  <1>2!:
    <3>1. UNCHANGED <<shutdown, handles>>
      BY <2>2 DEF Ask, shared
    <3>2. CASE shutdown
      BY <2>2, <3>1, <3>2 DEF Ask, Begin, LateInv, CallersHold, locals
    <3>3. CASE ~shutdown
      <4>1. Enter(h, kind, <<>>, mode)
        BY <2>2, <3>3 DEF Ask, Begin
      <4> QED
        BY <3>1, <4>1, EnterHolds, OneMoves DEF LateInv, CallersHold
    <3> QED
      BY <3>2, <3>3
  <2>3. CASE Stats(h) \/ Query(h)
    <3>1. UNCHANGED <<shutdown, handles>>
      BY <2>3 DEF Stats, Query, shared
    <3>2. Enter(h, "stats", <<>>, "recheck") \/ Enter(h, "stats", <<>>, "query")
      BY <2>3 DEF Stats, Query
    <3> QED
      BY <3>1, <3>2, EnterHolds, OneMoves DEF LateInv, CallersHold
  <2>4. CASE StartShutdown(h)
    <3>1. shutdown' = TRUE /\ handles' = handles
      BY <2>4 DEF StartShutdown
    <3>2. Enter(h, "shutdown", <<>>, "send")
      BY <2>4 DEF StartShutdown
    <3> QED
      BY <3>1, <3>2, EnterHolds, OneMoves DEF LateInv, CallersHold
  <2>5. ASSUME NEW where \in {"release", "dropJoin", "send", "lock", "join", "wait"},
               Goto(h, where), UNCHANGED <<shutdown, handles>>,
               pc[h] \notin {"unborn", "gone"}
        PROVE  <1>2!:
    BY <2>5, GotoHolds, OneMoves DEF LateInv, CallersHold
  <2>6. ASSUME Return(h), UNCHANGED <<shutdown, handles>>,
               pc[h] \notin {"unborn", "gone"}
        PROVE  <1>2!:
    BY <2>6, ReturnHolds, OneMoves DEF LateInv, CallersHold
  <2>7. ASSUME NEW new \in Handle, Clone(h, new)
        PROVE  <1>2!:
    <3>1. UNCHANGED shutdown /\ handles' = handles \cup {new} /\ h \in handles
      BY <2>7 DEF Clone, LateInv, CallersHold
    <3>2. Goto(new, "idle")
      BY <2>7 DEF Clone
    <3> QED
      BY <3>1, <3>2, GotoHolds DEF LateInv, CallersHold
  <2>8. CASE Release(h)
    <3>1. UNCHANGED shutdown /\ handles' = handles \ {h} /\ Goto(h, "gone")
      BY <2>8 DEF Release
    <3> QED
      BY <3>1, GotoHolds DEF LateInv, CallersHold
  <2>9. CASE DropStart(h)
    <3>1. \/ StartShutdown(h)
          \/ /\ Goto(h, "release") \/ Goto(h, "dropJoin")
             /\ UNCHANGED <<shutdown, handles>>
             /\ pc[h] = "idle"
      BY <2>9 DEF DropStart, shared
    <3> QED
      BY <3>1, <2>4, <2>5
  <2>10. CASE \/ Recheck(h) \/ TrySendFull(h) \/ SendDisconnected(h)
              \/ Receive(h) \/ QueryReturn(h) \/ Lock(h) \/ Join(h) \/ DropJoin(h)
    <3>1. /\ UNCHANGED <<shutdown, handles>>
          /\ pc[h] \notin {"unborn", "gone"}
          /\ \/ Return(h) \/ Goto(h, "send") \/ Goto(h, "lock")
             \/ Goto(h, "join") \/ Goto(h, "release")
      BY <2>10 DEF Recheck, TrySendFull, SendDisconnected, Receive, QueryReturn,
                   Lock, Join, DropJoin, shared
    <3> QED
      BY <3>1, <2>5, <2>6
  <2> QED
    BY <2>1, <2>2, <2>3, <2>4, <2>7, <2>8, <2>9, <2>10
       DEF Start, Continue, Shutdown
<1> QED
  BY <1>1, <1>2 DEF LateInv, DiscardedAreLate, channel, work

\* The worker does not touch the callers, and adds to what is discarded only
\* when it drops the Receiver.
LEMMA WorkerKeepsLate ==
    ASSUME TypeOK, LateInv, WorkerStep \/ AutoFlush
    PROVE  LateInv'
<1> USE DEF TypeOK, LocalsOK, ChannelOK, SharedOK
<1>1. CallersHold' /\ UNCHANGED <<shutdown, handles, late>>
  <2>1. UNCHANGED <<shutdown, handles, late, pc, call>>
    BY DEF WorkerStep, Recv, RecvDisconnected, WriteOk, WriteErr, WritePanic,
           Serve, Finalize, DropReceiver, Exit, AutoFlush, shared, history,
           caller, locals
  <2> QED
    BY <2>1 DEF LateInv, CallersHold
<1>2. CASE Recv
  <2>1. queue \in Seq(Command) /\ queue # <<>> /\ Len(queue) \in Nat
    BY <1>2 DEF Recv
  <2>2. /\ \A i \in DOMAIN queue' :
              i + 1 \in DOMAIN queue /\ queue'[i] = queue[i + 1]
        /\ 1 \in DOMAIN queue /\ Head(queue) = queue[1]
        /\ \A i \in DOMAIN queue' : i \in Nat \ {0}
    BY <1>2, <2>1 DEF Recv
  <2>3. \A i \in DOMAIN queue' : queue'[i].kind = "shutdown" => shutdown'
    BY <1>1, <2>2 DEF LateInv
  <2>4. \A i, j \in DOMAIN queue' :
           i < j /\ queue'[i].kind = "shutdown"
               => Elements(queue'[j].records) \subseteq late'
    <3>1. \A i, j \in DOMAIN queue :
             i < j /\ queue[i].kind = "shutdown"
                 => Elements(queue[j].records) \subseteq late
      BY DEF LateInv
    <3>2. \A i, j \in DOMAIN queue' : i < j => i + 1 < j + 1
      BY <2>2
    <3> HIDE DEF TypeOK, LocalsOK, ChannelOK, SharedOK
    <3> QED
      BY <1>1, <2>2, <3>1, <3>2
  <2>5. ASSUME worker' \in Ending
        PROVE  /\ shutdown' \/ handles' = {}
               /\ \A i \in DOMAIN queue' :
                     Elements(queue'[i].records) \subseteq late'
    <3>1. queue[1].kind = "shutdown"
      BY <1>2, <2>2, <2>5 DEF Recv, Ending
    <3>2. shutdown
      BY <2>2, <3>1 DEF LateInv
    <3>3. ASSUME NEW i \in DOMAIN queue'
          PROVE  Elements(queue'[i].records) \subseteq late'
      <4>1. 1 < i + 1
        BY <2>2
      <4> QED
        BY <1>1, <2>2, <3>1, <4>1 DEF LateInv
    <3> QED
      BY <1>1, <3>2, <3>3
  <2>6. DiscardedAreLate'
    BY <1>1, <1>2 DEF Recv, history, LateInv, DiscardedAreLate
  <2> QED
    BY <1>1, <2>3, <2>4, <2>5, <2>6 DEF LateInv
<1>3. CASE RecvDisconnected
  <2>1. UNCHANGED <<queue, panicked, discarded>> /\ queue = <<>> /\ handles = {}
    BY <1>3 DEF RecvDisconnected, channel, history
  <2>2. DOMAIN queue = {}
    BY <2>1
  <2> QED
    BY <1>1, <2>1, <2>2 DEF LateInv, DiscardedAreLate
<1>4. CASE WritePanic
  <2>1. UNCHANGED <<queue, discarded>> /\ panicked'
    BY <1>4 DEF WritePanic, channel
  <2> QED
    BY <1>1, <2>1 DEF LateInv, DiscardedAreLate
<1>5. CASE DropReceiver
  <2>1. queue' = <<>> /\ UNCHANGED panicked
    BY <1>5 DEF DropReceiver
  <2>2. DOMAIN queue' = {}
    BY <2>1
  <2>3. ~panicked => Queued \subseteq late /\ (shutdown \/ handles = {})
    BY <1>5 DEF DropReceiver, LateInv, Ending, Queued
  <2>4. DiscardedAreLate'
    BY <1>1, <1>5, <2>1, <2>3 DEF DropReceiver, LateInv, DiscardedAreLate
  <2> QED
    BY <1>1, <2>1, <2>2, <2>3, <2>4 DEF LateInv
<1>6. CASE WriteOk \/ WriteErr \/ Serve \/ AutoFlush
  <2>1. /\ UNCHANGED <<queue, panicked, discarded>>
        /\ worker' \notin Ending
    BY <1>6 DEF WriteOk, WriteErr, Serve, AutoFlush, channel, history, work, Ending
  <2> QED
    BY <1>1, <2>1 DEF LateInv, DiscardedAreLate
<1>7. CASE Finalize \/ Exit
  <2>1. /\ UNCHANGED <<queue, panicked, discarded>>
        /\ worker \in Ending
    BY <1>7 DEF Finalize, Exit, channel, history, Ending
  <2> QED
    BY <1>1, <2>1 DEF LateInv, DiscardedAreLate
<1> QED
  BY <1>2, <1>3, <1>4, <1>5, <1>6, <1>7 DEF WorkerStep

LEMMA LateAlways == Spec => []LateInv
<1>1. ASSUME LateInv, UNCHANGED vars
      PROVE  LateInv'
  BY <1>1 DEF vars, shared, channel, caller, locals, work, history, LateInv,
              CallersHold, DiscardedAreLate
<1>2. TypeOK /\ LateInv /\ [Next]_vars => LateInv'
  BY <1>1, SendKeepsLate, CallerKeepsLate, WorkerKeepsLate DEF Next, Continue
<1> QED
  BY <1>2, InitLate, TypeCorrect, PTL DEF Spec

(***************************************************************************)
(* Whatever the number of threads and the capacity of the queue, shutdown  *)
(* never throws away a record whose call returned Ok before the flag was   *)
(* set: only a panic of the worker does.                                   *)
(***************************************************************************)
THEOREM DiscardedAreLateHolds == Spec => []DiscardedAreLate
<1>1. LateInv => DiscardedAreLate
  BY DEF LateInv
<1> QED
  BY <1>1, LateAlways, PTL

----------------------------------------------------------------------------
(* Where the worker is, and who is left.                                   *)

\* The worker answers, and touches nothing else of its callers.
LEMMA WorkerLeaves ==
    WorkerStep \/ AutoFlush =>
        UNCHANGED <<shared, pc, call, before, dropping, counters, accepted, late, overtook>>
<1> SUFFICES ASSUME WorkerStep \/ AutoFlush
             PROVE  UNCHANGED <<shared, pc, call, before, dropping, counters, accepted,
                                late, overtook>>
  OBVIOUS
<1>1. CASE Recv \/ RecvDisconnected \/ AutoFlush \/ WriteOk \/ WriteErr \/ WritePanic
  BY <1>1, Zenon DEF Recv, RecvDisconnected, AutoFlush, WriteOk, WriteErr, WritePanic
<1>2. CASE Serve \/ Finalize \/ DropReceiver \/ Exit
  BY <1>2, Zenon DEF Serve, Finalize, DropReceiver, Exit
<1> QED
  BY <1>1, <1>2, Zenon DEF WorkerStep

\* Callers only add to the queue, and that in SendOk.
LEMMA CallerLeaves ==
    ASSUME NEW h \in Handle, Start(h) \/ Continue(h)
    PROVE  /\ UNCHANGED <<receiver, work, sinkVars, discarded, perished>>
           /\ SendOk(h) \/ UNCHANGED <<queue, accepted, late, overtook>>
<1>1. CASE Start(h)
  BY <1>1, Zenon DEF Start, Log, Ask, Stats, Shutdown, Query, DropStart, Clone
<1>2. CASE Continue(h)
  BY <1>2, Zenon DEF Continue, Recheck, SendOk, TrySendFull, SendDisconnected, Receive,
                     QueryReturn, Lock, Join, DropJoin, Release
<1> QED
  BY <1>1, <1>2, Zenon

(***************************************************************************)
(* The worker has records in its hands only while it writes; nothing is    *)
(* thrown away or lost before it closes, and nothing is left when it ends. *)
(***************************************************************************)
Stages ==
    /\ worker # "write" => job.records = <<>>
    /\ worker \notin {"close", "exit", "done"} => discarded = {} /\ perished = {}
    /\ worker \in {"exit", "done"} => queue = <<>>
    /\ receiver <=> worker \notin {"exit", "done"}
    /\ worker = "done" => buffered = <<>>

\* The worker is joined, and its statistics kept, when it has ended.
Joined == ~join \/ finalStats => worker = "done"

LEMMA InitStages == Init => Stages /\ Joined
<1> SUFFICES ASSUME Init PROVE Stages /\ Joined
  OBVIOUS
<1>1. join /\ ~finalStats /\ receiver
  BY Zenon DEF Init
<1> QED
  BY <1>1 DEF Init, NoCommand, Stages, Joined

LEMMA CallerStages ==
    ASSUME Stages, Joined, NEW h \in Handle, Start(h) \/ Continue(h)
    PROVE  Stages' /\ Joined'
<1>1. UNCHANGED <<receiver, work, sinkVars, discarded, perished>>
  BY CallerLeaves
<1>2. worker \in {"exit", "done"} => queue' = queue
  <2>1. ASSUME SendOk(h) PROVE worker \notin {"exit", "done"}
    BY <2>1 DEF SendOk, Stages
  <2> QED
    BY <2>1, CallerLeaves
<1>3. receiver' <=> receiver
  BY <1>1, Zenon
<1>4. Stages'
  BY <1>1, <1>2, <1>3 DEF Stages
<1>5. Joined'
  <2>1. \/ Join(h) \/ DropJoin(h)
        \/ UNCHANGED <<join, finalStats>>
    BY Zenon DEF Start, Log, Ask, Stats, Shutdown, StartShutdown, Query, DropStart, Clone,
           Continue, Recheck, SendOk, TrySendFull, SendDisconnected, Receive, QueryReturn,
           Lock, Release
  <2>2. CASE Join(h) \/ DropJoin(h)
    BY <1>1, <2>2, Zenon DEF Join, DropJoin, Joined
  <2>3. CASE UNCHANGED <<join, finalStats>>
    BY <1>1, <2>3, Zenon DEF Joined
  <2> QED
    BY <2>1, <2>2, <2>3
<1> QED
  BY <1>4, <1>5

LEMMA WorkerStages ==
    ASSUME TypeOK, Stages, Joined, WorkerStep \/ AutoFlush
    PROVE  Stages' /\ Joined'
<1>a. UNCHANGED <<join, finalStats>>
  BY WorkerLeaves
<1>b. worker # "done"
  BY DEF WorkerStep, Recv, RecvDisconnected, AutoFlush, WriteOk, WriteErr, WritePanic,
         Serve, Finalize, DropReceiver, Exit
<1>c. Joined'
  BY <1>a, <1>b, Zenon DEF Joined
<1>d. NoCommand(First).records = <<>> /\ job.records \in Seq(Record)
  BY DEF NoCommand, TypeOK, WorkOK, Command
<1>e. [job EXCEPT !.records = <<>>].records = <<>>
  BY DEF TypeOK, WorkOK, Command
<1>f. ASSUME UNCHANGED receiver PROVE receiver' <=> receiver
  BY <1>f, Zenon
<1>1. CASE Recv
  <2>1. WellFormed(Head(queue))
    BY <1>1 DEF Recv, TypeOK, ChannelOK
  <2> QED
    BY <1>1, <1>c, <1>f, <2>1 DEF Recv, Stages, WellFormed
<1>2. CASE RecvDisconnected
  BY <1>2, <1>c, <1>d, <1>f DEF RecvDisconnected, Stages
<1>3. CASE AutoFlush
  BY <1>3, <1>c, <1>f DEF AutoFlush, Stages
<1>4. CASE WriteOk
  <2>1. job'.records = Tail(job.records)
    BY <1>4 DEF WriteOk, TypeOK, WorkOK, Command
  <2>2. ASSUME worker' # "write" PROVE Tail(job.records) = <<>>
    <3>1. Len(job.records) = 1 /\ job.records # <<>>
      BY <1>4, <2>2 DEF WriteOk, TypeOK, WorkOK
    <3>2. Tail(job.records) \in Seq(Record) /\ Len(Tail(job.records)) = 0
      BY <1>d, <3>1, HeadTailProperties
    <3> QED
      BY <3>2, EmptySeq
  <2> QED
    BY <1>4, <1>c, <1>f, <2>1, <2>2 DEF WriteOk, Stages
<1>5. CASE WriteErr
  BY <1>5, <1>c, <1>e, <1>f DEF WriteErr, Stages
<1>6. CASE WritePanic
  BY <1>6, <1>c, <1>e, <1>f DEF WritePanic, Stages
<1>7. CASE Serve
  BY <1>7, <1>c, <1>d, <1>f DEF Serve, Stages
<1>8. CASE Finalize
  BY <1>8, <1>c, <1>f DEF Finalize, Stages
<1>9. CASE DropReceiver
  BY <1>9, <1>c DEF DropReceiver, Stages
<1>10. CASE Exit
  BY <1>10, <1>c, <1>f DEF Exit, Sink!Close, Stages
<1> QED
  BY <1>1, <1>2, <1>3, <1>4, <1>5, <1>6, <1>7, <1>8, <1>9, <1>10 DEF WorkerStep

LEMMA StagesStep == TypeOK /\ Stages /\ Joined /\ [Next]_vars => Stages' /\ Joined'
<1>1. ASSUME Stages, Joined, UNCHANGED vars PROVE Stages' /\ Joined'
  <2>1. UNCHANGED <<join, finalStats, receiver, queue, worker, job, buffered, discarded,
                    perished>>
    BY <1>1, Zenon DEF vars
  <2>2. receiver' <=> receiver
    BY <2>1, Zenon
  <2>3. Joined'
    BY <1>1, <2>1, Zenon DEF Joined
  <2> QED
    BY <1>1, <2>1, <2>2, <2>3 DEF Stages
<1> QED
  BY <1>1, CallerStages, WorkerStages DEF Next

----------------------------------------------------------------------------
(* The order of the records of one caller.                                 *)

\* Every handle's records stand in s in the order of its calls, and those in R were
\* logged before those in S.
Ordered(s) == \A i, j \in DOMAIN s : i < j /\ s[i][1] = s[j][1] => s[i][2] < s[j][2]
Below(R, S) == \A r \in R, t \in S : r[1] = t[1] => r[2] < t[2]

LEMMA NoElements == Elements(<<>>) = {} /\ Ordered(<<>>)
  BY DEF Elements, Ordered

LEMMA ElementsType == ASSUME NEW s \in Seq(Record) PROVE Elements(s) \subseteq Record
  BY DEF Elements

\* What was logged before something else is something else.
LEMMA BelowApart ==
    ASSUME NEW R \in SUBSET Record, NEW S \in SUBSET Record, Below(R, S)
    PROVE  R \cap S = {}
<1> SUFFICES ASSUME NEW r \in R \cap S PROVE FALSE
  OBVIOUS
<1>1. r[2] < r[2]
  BY DEF Below
<1>2. r[2] \in Int
  BY DEF Record
<1> QED
  BY <1>1, <1>2

LEMMA BelowParts ==
    ASSUME NEW R, NEW S, NEW P, NEW Q, Below(R, S), P \subseteq R, Q \subseteq S
    PROVE  Below(P, Q)
  BY DEF Below

LEMMA CutOrder ==
    ASSUME NEW s \in Seq(Record), NEW k \in 0..Len(s), Ordered(s)
    PROVE  LET p == SubSeq(s, 1, k)  q == SubSeq(s, k + 1, Len(s))
           IN  /\ p \in Seq(Record) /\ q \in Seq(Record)
               /\ Elements(s) = Elements(p) \cup Elements(q)
               /\ Ordered(p) /\ Ordered(q) /\ Below(Elements(p), Elements(q))
<1> DEFINE p == SubSeq(s, 1, k)
           q == SubSeq(s, k + 1, Len(s))
<1>0. \A i \in 1..Len(s) : s[i] \in Record
  OBVIOUS
<1>1. p \in Seq(Record) /\ Len(p) = k /\ \A i \in 1..k : p[i] = s[i]
  <2>1. \A i \in 1..k : s[i] \in Record
    BY <1>0
  <2> QED
    BY <2>1, SubSeqProperties
<1>2. q \in Seq(Record) /\ Len(q) = Len(s) - k
      /\ \A i \in 1..(Len(s) - k) : q[i] = s[k + i]
  <2>1. \A i \in k + 1..Len(s) : s[i] \in Record
    BY <1>0
  <2>2. /\ q \in Seq(Record)
        /\ Len(q) = IF k + 1 <= Len(s) THEN Len(s) - (k + 1) + 1 ELSE 0
        /\ \A i \in 1..(Len(s) - (k + 1) + 1) : q[i] = s[k + 1 + i - 1]
    BY <2>1, SubSeqProperties
  <2> QED
    BY <2>2
<1> HIDE DEF p, q
<1>3. DOMAIN p = 1..k /\ DOMAIN q = 1..(Len(s) - k) /\ DOMAIN s = 1..Len(s)
  BY <1>1, <1>2
<1>4. \A i \in DOMAIN s : i \in DOMAIN p \/ (i - k \in DOMAIN q /\ s[i] = q[i - k])
  BY <1>2, <1>3
<1>5. Elements(s) \subseteq Elements(p) \cup Elements(q)
  BY <1>1, <1>3, <1>4 DEF Elements
<1>6. Elements(p) \cup Elements(q) \subseteq Elements(s)
  <2>1. /\ \A i \in DOMAIN p : i \in DOMAIN s /\ p[i] = s[i]
        /\ \A i \in DOMAIN q : k + i \in DOMAIN s /\ q[i] = s[k + i]
    BY <1>1, <1>2, <1>3
  <2> QED
    BY <2>1 DEF Elements
<1>7. Ordered(p)
  BY <1>1, <1>3 DEF Ordered
<1>8. Ordered(q)
  <2> SUFFICES ASSUME NEW i \in 1..(Len(s) - k), NEW j \in 1..(Len(s) - k), i < j,
                      q[i][1] = q[j][1]
               PROVE  q[i][2] < q[j][2]
    BY <1>3 DEF Ordered
  <2>1. q[i] = s[k + i] /\ q[j] = s[k + j] /\ k + i < k + j
    BY <1>2
  <2>2. k + i \in DOMAIN s /\ k + j \in DOMAIN s
    BY <1>3
  <2> QED
    BY <2>1, <2>2 DEF Ordered
<1>9. Below(Elements(p), Elements(q))
  <2> SUFFICES ASSUME NEW i \in 1..k, NEW j \in 1..(Len(s) - k), p[i][1] = q[j][1]
               PROVE  p[i][2] < q[j][2]
    BY <1>3 DEF Below, Elements
  <2>1. p[i] = s[i] /\ q[j] = s[k + j] /\ i < k + j
    BY <1>1, <1>2
  <2>2. i \in DOMAIN s /\ k + j \in DOMAIN s
    BY <1>3
  <2> QED
    BY <2>1, <2>2 DEF Ordered
<1> QED
  BY <1>1, <1>2, <1>5, <1>6, <1>7, <1>8, <1>9 DEF p, q

LEMMA ConcatOrder ==
    ASSUME NEW s \in Seq(Record), NEW t \in Seq(Record), Ordered(s), Ordered(t),
           Below(Elements(s), Elements(t))
    PROVE  /\ s \o t \in Seq(Record)
           /\ Elements(s \o t) = Elements(s) \cup Elements(t)
           /\ Ordered(s \o t)
<1> DEFINE u == s \o t
<1>1. /\ u \in Seq(Record) /\ Len(u) = Len(s) + Len(t)
      /\ \A i \in 1..(Len(s) + Len(t)) :
            u[i] = IF i <= Len(s) THEN s[i] ELSE t[i - Len(s)]
  BY ConcatProperties
<1> HIDE DEF u
<1>2. /\ DOMAIN u = 1..(Len(s) + Len(t)) /\ DOMAIN s = 1..Len(s) /\ DOMAIN t = 1..Len(t)
      /\ Len(s) \in Nat /\ Len(t) \in Nat
  BY <1>1
<1>3. \A i \in DOMAIN u : \/ i \in DOMAIN s /\ u[i] = s[i]
                          \/ i - Len(s) \in DOMAIN t /\ u[i] = t[i - Len(s)] /\ i > Len(s)
  BY <1>1, <1>2
<1>4. /\ \A i \in DOMAIN s : i \in DOMAIN u /\ u[i] = s[i]
      /\ \A i \in DOMAIN t : Len(s) + i \in DOMAIN u /\ u[Len(s) + i] = t[i]
  BY <1>1, <1>2
<1>5. Elements(u) = Elements(s) \cup Elements(t)
  BY <1>3, <1>4 DEF Elements
<1>6. ASSUME NEW i \in DOMAIN u, NEW j \in DOMAIN u, i < j, u[i][1] = u[j][1]
      PROVE  u[i][2] < u[j][2]
  <2>1. CASE i \in DOMAIN s /\ u[i] = s[i] /\ j \in DOMAIN s /\ u[j] = s[j]
    BY <1>6, <2>1 DEF Ordered
  <2>2. CASE i \in DOMAIN s /\ u[i] = s[i] /\ j - Len(s) \in DOMAIN t /\ u[j] = t[j - Len(s)]
    BY <1>6, <2>2 DEF Below, Elements
  <2>3. CASE /\ i - Len(s) \in DOMAIN t /\ u[i] = t[i - Len(s)]
             /\ j - Len(s) \in DOMAIN t /\ u[j] = t[j - Len(s)]
    <3>1. i - Len(s) < j - Len(s)
      BY <1>2, <1>6
    <3> QED
      BY <1>6, <2>3, <3>1 DEF Ordered
  <2>4. ~(j \in DOMAIN s /\ i > Len(s))
    BY <1>2, <1>6
  <2> QED
    BY <1>3, <2>1, <2>2, <2>3, <2>4
<1> QED
  BY <1>1, <1>5, <1>6 DEF u, Ordered

LEMMA HeadOrder ==
    ASSUME NEW s \in Seq(Record), s # <<>>, Ordered(s)
    PROVE  /\ Head(s) \in Record /\ Tail(s) \in Seq(Record)
           /\ Elements(s) = {Head(s)} \cup Elements(Tail(s))
           /\ Ordered(Tail(s)) /\ Below({Head(s)}, Elements(Tail(s)))
<1>1. /\ Head(s) \in Record /\ Tail(s) \in Seq(Record) /\ Len(Tail(s)) = Len(s) - 1
      /\ \A i \in 1..Len(Tail(s)) : Tail(s)[i] = s[i + 1]
      /\ Len(s) \in Nat /\ Len(s) > 0 /\ Head(s) = s[1]
  BY HeadTailProperties, EmptySeq
<1>2. DOMAIN s = 1..Len(s) /\ DOMAIN Tail(s) = 1..Len(Tail(s))
  BY <1>1
<1>3. \A i \in DOMAIN Tail(s) : i + 1 \in DOMAIN s /\ Tail(s)[i] = s[i + 1] /\ 1 < i + 1
  BY <1>1, <1>2
<1>4. \A i \in DOMAIN s : i = 1 \/ (i - 1 \in DOMAIN Tail(s) /\ s[i] = Tail(s)[i - 1])
  BY <1>1, <1>2
<1>5. 1 \in DOMAIN s
  BY <1>1, <1>2
<1>6. Elements(s) = {Head(s)} \cup Elements(Tail(s))
  <2> DEFINE first == Head(s)
             rest == Tail(s)
  <2>1. /\ \A i \in DOMAIN rest : \E j \in DOMAIN s : rest[i] = s[j]
        /\ \A i \in DOMAIN s : s[i] = first \/ \E j \in DOMAIN rest : s[i] = rest[j]
        /\ \E j \in DOMAIN s : first = s[j]
    BY <1>1, <1>3, <1>4, <1>5
  <2> HIDE DEF first, rest
  <2>2. Elements(s) = {first} \cup Elements(rest)
    BY <2>1 DEF Elements
  <2> QED
    BY <2>2 DEF first, rest
<1>7. Ordered(Tail(s))
  <2> SUFFICES ASSUME NEW i \in DOMAIN Tail(s), NEW j \in DOMAIN Tail(s), i < j,
                      Tail(s)[i][1] = Tail(s)[j][1]
               PROVE  Tail(s)[i][2] < Tail(s)[j][2]
    BY DEF Ordered
  <2>1. i + 1 < j + 1
    BY <1>2
  <2> QED
    BY <1>3, <2>1 DEF Ordered
<1>8. Below({Head(s)}, Elements(Tail(s)))
  BY <1>1, <1>3, <1>5 DEF Below, Elements, Ordered
<1> QED
  BY <1>1, <1>6, <1>7, <1>8

----------------------------------------------------------------------------
(* Where the records are, and in which order.                              *)

InFile == Elements(stored) \cup Elements(buffered)
Hand == Elements(job.records)
Live == InFile \cup Hand \cup Queued
Dropped == refused \cup discarded \cup perished

\* From the file to the end of the queue the records of a handle are in the order of
\* its calls: what the worker has not written yet is later than what it has.
FileOrder ==
    Ordered(stored) /\ Ordered(buffered) /\ Below(Elements(stored), Elements(buffered))

QueueOrder ==
    /\ \A i \in DOMAIN queue : Ordered(queue[i].records)
    /\ \A i, j \in DOMAIN queue :
          i < j => Below(Elements(queue[i].records), Elements(queue[j].records))

InOrder ==
    /\ FileOrder
    /\ Ordered(job.records) /\ Below(InFile, Hand)
    /\ QueueOrder /\ Below(InFile \cup Hand, Queued)

\* A record that was given up is in no other place.
DroppedApart ==
    refused \cap discarded = {} /\ refused \cap perished = {} /\ discarded \cap perished = {}

Placed ==
    /\ accepted = Live \cup Dropped
    /\ Live \cap Dropped = {}
    /\ DroppedApart

\* The records of a call in progress are later than all that were accepted.
Fresh ==
    /\ \A r \in accepted : r[2] <= written[r[1]]
    /\ \A h \in Handle :
          /\ Ordered(call[h].records)
          /\ \A r \in Elements(call[h].records) : r[1] = h /\ r[2] <= written[h]
          /\ Below(accepted, Elements(call[h].records))

PlaceInv == TypeOK /\ Stages /\ Joined /\ InOrder /\ Placed /\ Fresh

LEMMA InitPlace == Init => PlaceInv
<1> SUFFICES ASSUME Init PROVE PlaceInv
  OBVIOUS
<1>1. /\ stored = <<>> /\ buffered = <<>> /\ queue = <<>> /\ job.records = <<>>
      /\ accepted = {} /\ refused = {} /\ discarded = {} /\ perished = {}
      /\ \A h \in Handle : call[h].records = <<>>
  BY DEF Init, Sink!SinkInit, NoCommand
<1>2. InFile = {} /\ Hand = {} /\ Queued = {}
  BY <1>1, NoElements DEF InFile, Hand, Queued
<1>3. InOrder
  BY <1>1, <1>2, NoElements DEF InOrder, FileOrder, QueueOrder, Below
<1>4. Placed
  BY <1>1, <1>2 DEF Placed, Live, Dropped, DroppedApart
<1>5. Fresh
  BY <1>1, NoElements DEF Fresh, Below
<1> QED
  BY <1>3, <1>4, <1>5, InitType, InitStages DEF PlaceInv

LEMMA LiveApart ==
    ASSUME TypeOK, InOrder
    PROVE  /\ Elements(stored) \cap Elements(buffered) = {}
           /\ InFile \cap Hand = {} /\ (InFile \cup Hand) \cap Queued = {}
           /\ InFile \subseteq Record /\ Hand \subseteq Record /\ Queued \subseteq Record
<1>1. Elements(stored) \subseteq Record /\ Elements(buffered) \subseteq Record
  BY ElementsType DEF TypeOK, Sink!SinkTypeOK
<1>2. Hand \subseteq Record
  BY ElementsType DEF TypeOK, WorkOK, Command, Hand
<1>3. Queued \subseteq Record
  BY QueuedType DEF TypeOK
<1>4. InFile \subseteq Record
  BY <1>1 DEF InFile
<1> QED
  BY <1>1, <1>2, <1>3, <1>4, BelowApart DEF InOrder, FileOrder

\* Accounted speaks of a list of places: they are the ones Placed names.
LEMMA PlacedAccounted ==
    ASSUME TypeOK, InOrder, Placed
    PROVE  Accounted
<1> DEFINE places == <<Queued, Hand, Elements(buffered), Elements(stored), refused,
                       discarded, perished>>
<1>1. DOMAIN places = 1..7 /\ 1..7 = {1, 2, 3, 4, 5, 6, 7}
  OBVIOUS
<1>2. {places[p] : p \in DOMAIN places} =
         {Queued, Hand, Elements(buffered), Elements(stored), refused, discarded, perished}
  BY <1>1
<1>3. accepted = UNION {places[p] : p \in DOMAIN places}
  <2>1. UNION {Queued, Hand, Elements(buffered), Elements(stored), refused, discarded,
               perished} =
           Queued \cup Hand \cup Elements(buffered) \cup Elements(stored) \cup refused
               \cup discarded \cup perished
    OBVIOUS
  <2> QED
    BY <1>2, <2>1 DEF Placed, Live, Dropped, InFile
<1>4. ASSUME NEW p \in 1..7, NEW q \in 1..7, p < q
      PROVE  places[p] \cap places[q] = {}
  BY <1>4, LiveApart, SMTT(60) DEF Placed, Live, Dropped, InFile, DroppedApart
<1>5. ASSUME NEW p \in 1..7, NEW q \in 1..7, p # q
      PROVE  places[p] \cap places[q] = {}
  <2>1. p < q \/ q < p
    BY <1>5
  <2> HIDE DEF places
  <2> QED
    BY <1>4, <2>1
<1> QED
  BY <1>1, <1>3, <1>5 DEF Accounted, Hand

----------------------------------------------------------------------------
(* What the steps of the sink do to order and places.                      *)

LEMMA DrainOrder ==
    ASSUME Sink!SinkTypeOK, FileOrder, NEW k \in 0..Len(buffered), Sink!Drain(k)
    PROVE  FileOrder' /\ InFile' = InFile
<1> DEFINE p == SubSeq(buffered, 1, k)
           q == SubSeq(buffered, k + 1, Len(buffered))
<1>1. /\ p \in Seq(Record) /\ q \in Seq(Record)
      /\ Elements(buffered) = Elements(p) \cup Elements(q)
      /\ Ordered(p) /\ Ordered(q) /\ Below(Elements(p), Elements(q))
  BY CutOrder DEF FileOrder, Sink!SinkTypeOK
<1>2. stored' = stored \o p /\ buffered' = q
  BY DEF Sink!Drain
<1> HIDE DEF p, q
<1>3. /\ Elements(stored \o p) = Elements(stored) \cup Elements(p) /\ Ordered(stored \o p)
  <2>1. Below(Elements(stored), Elements(p))
    BY <1>1 DEF FileOrder, Below
  <2> QED
    BY <1>1, <2>1, ConcatOrder DEF FileOrder, Sink!SinkTypeOK
<1>4. Elements(stored') = Elements(stored) \cup Elements(p) /\ Elements(buffered') = Elements(q)
  BY <1>2, <1>3
<1>5. Ordered(stored') /\ Ordered(buffered')
  BY <1>1, <1>2, <1>3
<1>6. Below(Elements(stored'), Elements(buffered'))
  BY <1>1, <1>4 DEF FileOrder, Below
<1>7. FileOrder'
  BY <1>5, <1>6 DEF FileOrder, Elements, Ordered
<1>8. InFile' = InFile
  BY <1>1, <1>4 DEF InFile, Elements
<1> QED
  BY <1>7, <1>8

LEMMA PutOrder ==
    ASSUME Sink!SinkTypeOK, FileOrder, NEW r \in Record, Below(InFile, {r}), Sink!Put(r)
    PROVE  FileOrder' /\ InFile' = InFile \cup {r}
<1>1. <<r>> \in Seq(Record) /\ Elements(<<r>>) = {r} /\ Ordered(<<r>>)
  <2>1. DOMAIN <<r>> = {1} /\ <<r>>[1] = r /\ <<r>> \in Seq(Record)
    OBVIOUS
  <2> QED
    BY <2>1 DEF Elements, Ordered
<1>0. /\ Below(Elements(buffered), {r}) /\ Below(Elements(stored), {r})
      /\ Append(buffered, r) \in Seq(Record)
      /\ Elements(Append(buffered, r)) = Elements(buffered) \cup {r}
      /\ Ordered(Append(buffered, r))
  <2>1. Append(buffered, r) = buffered \o <<r>> /\ Append(buffered, r) \in Seq(Record)
    BY AppendIsConcat DEF Sink!SinkTypeOK
  <2>2. Below(Elements(buffered), {r}) /\ Below(Elements(stored), {r})
    BY DEF InFile, Below
  <2>3. /\ Elements(buffered \o <<r>>) = Elements(buffered) \cup {r}
        /\ Ordered(buffered \o <<r>>)
    BY <1>1, <2>2, ConcatOrder DEF FileOrder, Sink!SinkTypeOK
  <2> QED
    BY <2>1, <2>2, <2>3
<1>2. CASE buffered' = Append(buffered, r) /\ stored' = stored
  <2>2. Below(Elements(buffered), {r}) /\ Below(Elements(stored), {r})
    BY <1>0
  <2>4. Elements(buffered') = Elements(buffered) \cup {r} /\ Ordered(buffered')
    BY <1>0, <1>2
  <2>5. Below(Elements(stored'), Elements(buffered'))
    BY <1>2, <2>2, <2>4 DEF FileOrder, Below
  <2>6. FileOrder'
    BY <1>2, <2>4, <2>5 DEF FileOrder, Elements, Ordered
  <2>7. InFile' = InFile \cup {r}
    BY <1>2, <2>4 DEF InFile, Elements
  <2> QED
    BY <2>6, <2>7
<1>3. CASE stored' = stored \o buffered /\ buffered' = <<r>>
  <2>1. /\ Elements(stored \o buffered) = InFile
        /\ Ordered(stored \o buffered)
    BY ConcatOrder DEF FileOrder, Sink!SinkTypeOK, InFile
  <2>2. /\ Elements(stored') = InFile /\ Ordered(stored')
        /\ Elements(buffered') = {r} /\ Ordered(buffered')
    BY <1>1, <1>3, <2>1
  <2>3. Below(Elements(stored'), Elements(buffered'))
    BY <2>2
  <2>4. FileOrder'
    BY <2>2, <2>3 DEF FileOrder, Elements, Ordered
  <2>5. InFile' = InFile \cup {r}
    <3>1. InFile' = Elements(stored') \cup Elements(buffered')
      BY DEF InFile, Elements
    <3> QED
      BY <2>2, <3>1
  <2> QED
    BY <2>4, <2>5
<1>4. CASE stored' = stored \o Append(buffered, r) /\ buffered' = <<>>
  <2> DEFINE q == Append(buffered, r)
  <2>1. Below(Elements(stored), Elements(q))
    BY <1>0 DEF FileOrder, Below
  <2>2. /\ q \in Seq(Record) /\ stored \in Seq(Record) /\ Ordered(q) /\ Ordered(stored)
        /\ Elements(q) = Elements(buffered) \cup {r}
    BY <1>0 DEF FileOrder, Sink!SinkTypeOK
  <2> HIDE DEF q
  <2>3. /\ Elements(stored \o q) = Elements(stored) \cup Elements(q)
        /\ Ordered(stored \o q)
    BY <2>1, <2>2, ConcatOrder
  <2>4. Elements(stored') = InFile \cup {r} /\ Ordered(stored')
    BY <1>4, <2>2, <2>3 DEF q, InFile
  <2>5. Elements(buffered') = {} /\ Ordered(buffered')
    BY <1>4, NoElements
  <2>6. Below(Elements(stored'), Elements(buffered'))
    BY <2>5 DEF Below
  <2>7. FileOrder'
    BY <2>4, <2>5, <2>6 DEF FileOrder, Elements, Ordered
  <2>8. InFile' = InFile \cup {r}
    <3>1. InFile' = Elements(stored') \cup Elements(buffered')
      BY DEF InFile, Elements
    <3> QED
      BY <2>4, <2>5, <3>1
  <2> QED
    BY <2>7, <2>8
<1> QED
  BY <1>2, <1>3, <1>4 DEF Sink!Put

\* A flush or a failure moves records on, and may give up those of the command.
LEMMA FailOrder ==
    ASSUME Sink!SinkTypeOK, FileOrder, NEW R, Sink!Fail(R)
    PROVE  FileOrder' /\ InFile' = InFile /\ refused' = refused \cup R
  BY DrainOrder DEF Sink!Fail, Sink!GiveUp

LEMMA FlushOrder ==
    ASSUME Sink!SinkTypeOK, FileOrder, Sink!FlushOk \/ Sink!FlushErr \/ Sink!Fail({})
    PROVE  FileOrder' /\ InFile' = InFile /\ refused' = refused
<1>1. /\ \E k \in 0..Len(buffered) : Sink!Drain(k)
      /\ refused' = refused
  <2>1. Len(buffered) \in 0..Len(buffered)
    BY DEF Sink!SinkTypeOK
  <2> QED
    BY <2>1 DEF Sink!FlushOk, Sink!FlushErr, Sink!Fail, Sink!GiveUp
<1> QED
  BY <1>1, DrainOrder

LEMMA CloseOrder ==
    ASSUME Sink!SinkTypeOK, FileOrder, Sink!Close
    PROVE  /\ FileOrder' /\ InFile' \subseteq InFile
           /\ InFile \ InFile' = Elements(buffered) \ Elements(stored')
           /\ Elements(stored') \subseteq InFile'
<1>1. PICK k \in 0..Len(buffered) : stored' = stored \o SubSeq(buffered, 1, k)
  BY DEF Sink!Close
<1> DEFINE p == SubSeq(buffered, 1, k)
<1>2. /\ p \in Seq(Record) /\ Elements(p) \subseteq Elements(buffered) /\ Ordered(p)
  BY CutOrder DEF FileOrder, Sink!SinkTypeOK
<1> HIDE DEF p
<1>3. Elements(stored \o p) = Elements(stored) \cup Elements(p) /\ Ordered(stored \o p)
  <2>1. Below(Elements(stored), Elements(p))
    BY <1>2 DEF FileOrder, Below
  <2> QED
    BY <1>2, <2>1, ConcatOrder DEF FileOrder, Sink!SinkTypeOK
<1>4. Elements(stored') = Elements(stored) \cup Elements(p) /\ Ordered(stored')
  BY <1>1, <1>3 DEF p
<1>5. buffered' = <<>> /\ Elements(buffered') = {} /\ Ordered(buffered')
  BY NoElements DEF Sink!Close
<1>6. InFile' = Elements(stored')
  <2>1. InFile' = Elements(stored') \cup Elements(buffered')
    BY DEF InFile, Elements
  <2> QED
    BY <1>5, <2>1
<1>7. FileOrder'
  <2>1. Below(Elements(stored'), Elements(buffered'))
    BY <1>5 DEF Below
  <2> QED
    BY <1>4, <1>5, <2>1 DEF FileOrder, Elements, Ordered
<1> QED
  BY <1>2, <1>4, <1>6, <1>7 DEF InFile

----------------------------------------------------------------------------
(* What the steps of the channel do to them.                               *)

LEMMA AppendOrder ==
    ASSUME ChannelOK, QueueOrder, NEW c \in Command, queue' = Append(queue, c),
           Ordered(c.records), Below(Queued, Elements(c.records))
    PROVE  QueueOrder' /\ Queued' = Queued \cup Elements(c.records)
<1>1. /\ \A i \in DOMAIN queue : i \in DOMAIN queue' /\ queue'[i] = queue[i]
      /\ \A i \in DOMAIN queue' : i \in DOMAIN queue \/ i = Len(queue) + 1
      /\ Len(queue) + 1 \in DOMAIN queue' /\ queue'[Len(queue) + 1] = c
      /\ \A i \in DOMAIN queue : i < Len(queue) + 1
      /\ Len(queue) \in Nat /\ DOMAIN queue = 1..Len(queue)
  BY DEF ChannelOK
<1>2. Queued' = Queued \cup Elements(c.records)
  <2>1. \A i \in DOMAIN queue' : queue'[i] = c \/ \E j \in DOMAIN queue : queue'[i] = queue[j]
    BY <1>1
  <2> QED
    BY <1>1, <2>1 DEF Queued, Elements
<1>3. \A i \in DOMAIN queue' : Ordered(queue'[i].records)
  BY <1>1 DEF QueueOrder
<1>4. ASSUME NEW i \in DOMAIN queue', NEW j \in DOMAIN queue', i < j
      PROVE  Below(Elements(queue'[i].records), Elements(queue'[j].records))
  <2>1. i \in DOMAIN queue
    BY <1>1, <1>4
  <2>2. CASE j \in DOMAIN queue
    BY <1>1, <1>4, <2>1, <2>2 DEF QueueOrder
  <2>3. CASE j = Len(queue) + 1
    <3>1. Elements(queue[i].records) \subseteq Queued
      BY <2>1 DEF Queued
    <3> QED
      BY <1>1, <2>1, <2>3, <3>1, BelowParts
  <2> QED
    BY <1>1, <2>2, <2>3
<1> QED
  BY <1>2, <1>3, <1>4 DEF QueueOrder, Elements, Ordered, Below

LEMMA TailOrder ==
    ASSUME ChannelOK, QueueOrder, queue # <<>>, queue' = Tail(queue)
    PROVE  /\ QueueOrder'
           /\ Queued = Elements(Head(queue).records) \cup Queued'
           /\ Ordered(Head(queue).records)
           /\ Below(Elements(Head(queue).records), Queued')
<1>1. /\ 1 \in DOMAIN queue /\ Head(queue) = queue[1]
      /\ \A i \in DOMAIN queue' : /\ i + 1 \in DOMAIN queue /\ queue'[i] = queue[i + 1]
                                  /\ 1 < i + 1 /\ i \in Nat
      /\ \A i \in DOMAIN queue : i = 1 \/ (i - 1 \in DOMAIN queue' /\ queue[i] = queue'[i - 1])
  <2>1. queue \in Seq(Command) /\ Len(queue) > 0
    BY DEF ChannelOK
  <2> QED
    BY <2>1
<1>2. Queued = Elements(Head(queue).records) \cup Queued'
  <2> DEFINE E(c) == Elements(c.records)
  <2>1. /\ \A i \in DOMAIN queue : queue[i] = Head(queue)
                                   \/ \E j \in DOMAIN queue' : queue[i] = queue'[j]
        /\ \A i \in DOMAIN queue' : \E j \in DOMAIN queue : queue'[i] = queue[j]
        /\ \E i \in DOMAIN queue : queue[i] = Head(queue)
    BY <1>1
  <2>2. Queued = UNION {E(queue[i]) : i \in DOMAIN queue}
    BY DEF Queued
  <2>3. Queued' = UNION {E(queue'[i]) : i \in DOMAIN queue'}
    BY DEF Queued, Elements
  <2> HIDE DEF E
  <2>4. Queued = E(Head(queue)) \cup Queued'
    BY <2>1, <2>2, <2>3
  <2> QED
    BY <2>4 DEF E
<1>3. QueueOrder'
  <2>1. \A i \in DOMAIN queue' : Ordered(queue'[i].records)
    BY <1>1 DEF QueueOrder
  <2>2. \A i, j \in DOMAIN queue' :
           i < j => Below(Elements(queue'[i].records), Elements(queue'[j].records))
    BY <1>1 DEF QueueOrder
  <2> QED
    BY <2>1, <2>2 DEF QueueOrder, Elements, Ordered, Below
<1>4. \A i \in DOMAIN queue' : Below(Elements(Head(queue).records), Elements(queue'[i].records))
  BY <1>1 DEF QueueOrder
<1>5. Below(Elements(Head(queue).records), Queued')
  <2>1. Queued' = UNION {Elements(queue'[i].records) : i \in DOMAIN queue'}
    BY DEF Queued, Elements
  <2> QED
    BY <1>4, <2>1 DEF Below
<1> QED
  BY <1>1, <1>2, <1>3, <1>5 DEF QueueOrder

LEMMA SameQueue ==
    ASSUME queue' = queue
    PROVE  Queued' = Queued /\ (QueueOrder => QueueOrder')
  BY DEF Queued, QueueOrder, Elements, Ordered, Below

LEMMA SameFile ==
    ASSUME UNCHANGED <<stored, buffered>>
    PROVE  InFile' = InFile /\ (FileOrder => FileOrder')
  BY DEF InFile, FileOrder, Elements, Ordered, Below

----------------------------------------------------------------------------
(* The worker moves records on; what leaves the line of live ones is given *)
(* up in one way.                                                          *)

LEMMA GiveUpPlaces ==
    ASSUME Placed, NEW M, M \subseteq Live, Live' = Live \ M, accepted' = accepted,
           \/ M = {} /\ UNCHANGED <<refused, discarded, perished>>
           \/ refused' = refused \cup M /\ UNCHANGED <<discarded, perished>>
           \/ discarded' = discarded \cup M /\ UNCHANGED <<refused, perished>>
           \/ perished' = perished \cup M /\ UNCHANGED <<refused, discarded>>
    PROVE  Placed'
<1>1. Dropped' = Dropped \cup M
  BY DEF Dropped
<1>2. DroppedApart'
  BY DEF Placed, Dropped, DroppedApart
<1> QED
  BY <1>1, <1>2 DEF Placed

LEMMA WorkerPlaced ==
    ASSUME PlaceInv, WorkerStep \/ AutoFlush
    PROVE  InOrder' /\ Placed'
<1>a. /\ ChannelOK /\ Sink!SinkTypeOK /\ FileOrder /\ QueueOrder /\ Placed /\ InOrder
      /\ job.records \in Seq(Record) /\ job \in Command
  BY DEF PlaceInv, TypeOK, WorkOK, Command, InOrder
<1>b. accepted' = accepted
  BY WorkerLeaves
<1>c. /\ Ordered(job.records) /\ Below(InFile, Hand) /\ Below(InFile \cup Hand, Queued)
      /\ InFile \cap Hand = {} /\ (InFile \cup Hand) \cap Queued = {}
  BY LiveApart DEF PlaceInv, InOrder
<1>d. worker # "write" => Hand = {}
  BY NoElements DEF PlaceInv, Stages, Hand
<1>e. ASSUME NEW s, job'.records = s, Ordered(s)
      PROVE  Ordered(job.records)' /\ Hand' = Elements(s)
  BY <1>e DEF Hand, Elements, Ordered
<1>f. NoCommand(First).records = <<>> /\ [job EXCEPT !.records = <<>>].records = <<>>
  BY <1>a DEF NoCommand, Command
\* The records in hand go nowhere, or away, and the file and the queue stay as they are.
<1>0. ASSUME FileOrder', InFile' = InFile, queue' = queue, job'.records = <<>>,
             \/ refused' = refused \cup Hand /\ UNCHANGED <<discarded, perished>>
             \/ perished' = perished \cup Hand /\ UNCHANGED <<refused, discarded>>
      PROVE  InOrder' /\ Placed'
  <2>1. Ordered(job.records)' /\ Hand' = {}
    BY <1>0, <1>e, NoElements
  <2>2. Queued' = Queued /\ QueueOrder'
    BY <1>0, <1>a, SameQueue
  <2>3. InOrder'
    <3>1. Below(InFile, Hand)'
      BY <2>1 DEF Below
    <3>2. Below(InFile \cup Hand, Queued)'
      BY <1>0, <1>c, <2>1, <2>2 DEF Below
    <3> QED
      BY <1>0, <2>1, <2>2, <3>1, <3>2 DEF InOrder
  <2>4. Hand \subseteq Live /\ Live' = Live \ Hand
    BY <1>0, <1>c, <2>1, <2>2 DEF Live
  <2> QED
    BY <1>0, <1>a, <1>b, <2>3, <2>4, GiveUpPlaces
<1>1. CASE Recv
  <2>1. /\ queue # <<>> /\ queue' = Tail(queue) /\ job' = Head(queue) /\ worker = "recv"
        /\ UNCHANGED <<buffered, stored, refused, discarded, perished>>
    BY <1>1 DEF Recv
  <2>2. /\ QueueOrder'
        /\ Queued = Elements(Head(queue).records) \cup Queued'
        /\ Ordered(Head(queue).records)
        /\ Below(Elements(Head(queue).records), Queued')
    BY <1>a, <2>1, TailOrder
  <2>3. Ordered(job.records)' /\ Hand' = Elements(Head(queue).records)
    BY <1>e, <2>1, <2>2
  <2>4. Hand = {}
    BY <1>d, <2>1
  <2>5. InFile' = InFile /\ FileOrder'
    BY <1>a, <2>1, SameFile
  <2>6. Below(InFile, Hand)'
    BY <1>c, <2>2, <2>3, <2>5 DEF Below
  <2>7. Below(InFile \cup Hand, Queued)'
    BY <1>c, <2>2, <2>3, <2>5 DEF Below
  <2>8. Live' = Live
    BY <2>2, <2>3, <2>4, <2>5 DEF Live
  <2>9. Placed'
    <3>1. {} \subseteq Live /\ Live' = Live \ {}
      BY <2>8
    <3> QED
      BY <1>a, <1>b, <2>1, <3>1, GiveUpPlaces
  <2> QED
    BY <2>2, <2>3, <2>5, <2>6, <2>7, <2>9 DEF InOrder
\* With empty hands the worker flushes, ends its loop, or does nothing to the records.
<1>g. ASSUME worker # "write", FileOrder', InFile' = InFile, queue' = queue,
             job'.records = <<>>, UNCHANGED <<refused, discarded, perished>>
      PROVE  InOrder' /\ Placed'
  <2>1. refused' = refused \cup Hand
    BY <1>d, <1>g
  <2> QED
    BY <1>0, <1>g, <2>1
<1>h. worker # "write" => job.records = <<>>
  BY DEF PlaceInv, Stages
<1>2. CASE RecvDisconnected
  BY <1>2, <1>a, <1>f, <1>g, SameFile DEF RecvDisconnected
<1>3. CASE AutoFlush \/ Finalize
  <2>1. /\ worker # "write" /\ UNCHANGED <<queue, job, discarded, perished>>
        /\ Sink!FlushOk \/ Sink!FlushErr
    BY <1>3 DEF AutoFlush, Finalize
  <2>2. FileOrder' /\ InFile' = InFile /\ refused' = refused
    BY <1>a, <2>1, FlushOrder
  <2> QED
    BY <1>g, <1>h, <2>1, <2>2
<1>4. CASE Serve
  <2>1. /\ worker # "write" /\ UNCHANGED <<queue, discarded, perished>>
        /\ job'.records = <<>>
    BY <1>4, <1>f DEF Serve
  <2>2. UNCHANGED sinkVars \/ Sink!FlushOk \/ Sink!FlushErr \/ Sink!Fail({})
    BY <1>4 DEF Serve
  <2>3. FileOrder' /\ InFile' = InFile /\ refused' = refused
    <3>1. CASE UNCHANGED sinkVars
      BY <1>a, <3>1, SameFile
    <3>2. CASE Sink!FlushOk \/ Sink!FlushErr \/ Sink!Fail({})
      BY <1>a, <3>2, FlushOrder
    <3> QED
      BY <2>2, <3>1, <3>2
  <2> QED
    BY <1>g, <2>1, <2>3
<1>5. CASE WriteOk
  <2> DEFINE r == Head(job.records)
             rest == Tail(job.records)
  <2>1. /\ Sink!Put(r) /\ job'.records = rest
        /\ UNCHANGED <<queue, discarded, perished>>
    BY <1>5, <1>a DEF WriteOk, Command
  <2>2. job.records # <<>>
    BY <1>5 DEF WriteOk, PlaceInv, TypeOK, WorkOK
  <2>3. /\ r \in Record /\ rest \in Seq(Record)
        /\ Hand = {r} \cup Elements(rest)
        /\ Ordered(rest) /\ Below({r}, Elements(rest))
    BY <1>a, <1>c, <2>2, HeadOrder DEF Hand
  <2> HIDE DEF r, rest
  <2>4. refused' = refused
    BY <2>1 DEF Sink!Put
  <2>5. FileOrder' /\ InFile' = InFile \cup {r}
    <3>1. Below(InFile, {r})
      BY <1>c, <2>3 DEF Below
    <3> QED
      BY <1>a, <2>1, <2>3, <3>1, PutOrder
  <2>6. Ordered(job.records)' /\ Hand' = Elements(rest)
    BY <1>e, <2>1, <2>3
  <2>7. Queued' = Queued /\ QueueOrder'
    BY <1>a, <2>1, SameQueue
  <2>8. Below(InFile, Hand)'
    BY <1>c, <2>3, <2>5, <2>6 DEF Below
  <2>9. Below(InFile \cup Hand, Queued)'
    BY <1>c, <2>3, <2>5, <2>6, <2>7 DEF Below
  <2>10. Placed'
    <3>1. {} \subseteq Live /\ Live' = Live \ {}
      BY <2>3, <2>5, <2>6, <2>7 DEF Live
    <3> QED
      BY <1>a, <1>b, <2>1, <2>4, <3>1, GiveUpPlaces
  <2> QED
    BY <2>5, <2>6, <2>7, <2>8, <2>9, <2>10 DEF InOrder
<1>6. CASE WriteErr
  <2>1. /\ Sink!Fail(Hand) /\ job'.records = <<>>
        /\ UNCHANGED <<queue, discarded, perished>>
    BY <1>6, <1>f DEF WriteErr, Hand
  <2>2. FileOrder' /\ InFile' = InFile /\ refused' = refused \cup Hand
    BY <1>a, <2>1, FailOrder
  <2> QED
    BY <1>0, <2>1, <2>2
<1>7. CASE WritePanic
  <2>1. /\ job'.records = <<>> /\ perished' = perished \cup Hand
        /\ UNCHANGED <<queue, stored, buffered, refused, discarded>>
    BY <1>7, <1>f DEF WritePanic, Hand
  <2> QED
    BY <1>0, <1>a, <2>1, SameFile
<1>8. CASE DropReceiver
  <2>1. /\ queue' = <<>> /\ discarded' = discarded \cup Queued
        /\ UNCHANGED <<job, stored, buffered, refused, perished>>
    BY <1>8 DEF DropReceiver
  <2>2. Queued' = {} /\ QueueOrder'
    BY <2>1 DEF Queued, QueueOrder
  <2>3. InFile' = InFile /\ FileOrder'
    BY <1>a, <2>1, SameFile
  <2>4. Ordered(job.records)' /\ Hand' = Hand
    BY <1>c, <2>1 DEF Hand, Ordered, Elements
  <2>5. InOrder'
    <3>1. Below(InFile, Hand)' /\ Below(InFile \cup Hand, Queued)'
      BY <1>c, <2>2, <2>3, <2>4 DEF Below
    <3> QED
      BY <2>2, <2>3, <2>4, <3>1 DEF InOrder
  <2>6. Queued \subseteq Live /\ Live' = Live \ Queued
    BY <1>c, <2>2, <2>3, <2>4 DEF Live
  <2> QED
    BY <1>a, <1>b, <2>1, <2>5, <2>6, GiveUpPlaces
<1>9. CASE Exit
  <2>1. /\ Sink!Close /\ perished' = perished \cup (Elements(buffered) \ Elements(stored'))
        /\ UNCHANGED <<queue, job, discarded>> /\ worker = "exit"
    BY <1>9 DEF Exit
  <2>2. /\ FileOrder' /\ InFile' \subseteq InFile
        /\ InFile \ InFile' = Elements(buffered) \ Elements(stored')
    BY <1>a, <2>1, CloseOrder
  <2>3. refused' = refused
    BY <2>1 DEF Sink!Close
  <2>4. Ordered(job.records)' /\ Hand' = Hand /\ Hand = {}
    BY <1>c, <1>d, <2>1 DEF Hand, Ordered, Elements
  <2>5. Queued' = Queued /\ QueueOrder'
    BY <1>a, <2>1, SameQueue
  <2>6. InOrder'
    <3>1. Below(InFile, Hand)' /\ Below(InFile \cup Hand, Queued)'
      BY <1>c, <2>2, <2>4, <2>5 DEF Below
    <3> QED
      BY <2>2, <2>4, <2>5, <3>1 DEF InOrder
  <2>7. Live' = Live \ (InFile \ InFile') /\ InFile \ InFile' \subseteq Live
    BY <1>c, <2>2, <2>4, <2>5 DEF Live
  <2>8. perished' = perished \cup (InFile \ InFile')
    BY <2>1, <2>2
  <2> QED
    BY <1>a, <1>b, <2>1, <2>3, <2>6, <2>7, <2>8, GiveUpPlaces
<1> QED
  BY <1>1, <1>2, <1>3, <1>4, <1>5, <1>6, <1>7, <1>8, <1>9 DEF WorkerStep

----------------------------------------------------------------------------
(* Callers add records at the end of the line.                             *)

\* A call that logs nothing new leaves Fresh alone.
LEMMA FreshKept ==
    ASSUME TypeOK, Fresh, accepted' = accepted,
           \A g \in Handle : written'[g] \in Nat /\ written[g] <= written'[g],
           \A g \in Handle : call'[g] = call[g] \/ call'[g].records = <<>>
    PROVE  Fresh'
<1>1. /\ \A g \in Handle : written[g] \in Nat
      /\ accepted \subseteq Record
      /\ \A g \in Handle : Elements(call[g].records) \subseteq Record
  BY ElementsType DEF TypeOK, CountersOK, HistoryOK, LocalsOK, Command
<1>2. \A r \in accepted' : r[2] <= written'[r[1]]
  <2> SUFFICES ASSUME NEW r \in accepted PROVE r[2] <= written'[r[1]]
    OBVIOUS
  <2>1. r[1] \in Handle /\ r[2] \in Nat /\ r[2] <= written[r[1]]
    BY <1>1 DEF Record, Fresh
  <2> QED
    BY <1>1, <2>1
<1>3. ASSUME NEW g \in Handle
      PROVE  /\ Ordered(call'[g].records)
             /\ \A r \in Elements(call'[g].records) : r[1] = g /\ r[2] <= written'[g]
             /\ Below(accepted', Elements(call'[g].records))
  <2>1. CASE call'[g] = call[g]
    <3>1. \A r \in Elements(call[g].records) : r[1] = g /\ r[2] <= written[g] /\ r[2] \in Nat
      BY <1>1 DEF Fresh, Record
    <3> QED
      BY <1>1, <2>1, <3>1 DEF Fresh
  <2>2. CASE call'[g].records = <<>>
    BY <2>2, NoElements DEF Below
  <2> QED
    BY <2>1, <2>2
<1> QED
  BY <1>2, <1>3 DEF Fresh, Elements, Ordered, Below

LEMMA LogFresh ==
    ASSUME TypeOK, Fresh, NEW h \in Handle, NEW n \in 1..MaxBatch,
           NEW mode \in {"send", "trySend"}, Log(h, n, mode)
    PROVE  Fresh'
<1>1. /\ written' = [written EXCEPT ![h] = @ + n] /\ accepted' = accepted
      /\ written \in [Handle -> Nat] /\ n \in Nat
  BY DEF Log, TypeOK, CountersOK
<1>2. \A g \in Handle : written'[g] \in Nat /\ written[g] <= written'[g]
  BY <1>1
<1>3. CASE shutdown
  <2>1. call' = call
    BY <1>3 DEF Log, Begin
  <2> QED
    BY <1>1, <1>2, <2>1, FreshKept
<1>4. CASE ~shutdown
  <2> DEFINE new == [i \in 1..n |-> <<h, written[h] + i>>]
  <2>1. \A g \in Handle : call'[g].records = IF g = h THEN new ELSE call[g].records
    <3> DEFINE c == [kind |-> "write", from |-> h, records |-> new]
    <3>1. call' = [call EXCEPT ![h] = c]
      BY <1>4 DEF Log, Begin, Enter
    <3>2. c.records = new /\ call \in [Handle -> Command]
      BY DEF TypeOK, LocalsOK
    <3> HIDE DEF c, new
    <3> QED
      BY <3>1, <3>2
  <2>2. /\ DOMAIN new = 1..n
        /\ \A i \in 1..n : new[i][1] = h /\ new[i][2] = written[h] + i
        /\ written[h] \in Nat /\ written'[h] = written[h] + n
    BY <1>1
  <2> HIDE DEF new
  <2>3. Ordered(new)
    BY <2>2 DEF Ordered
  <2>4. \A r \in Elements(new) : r[1] = h /\ r[2] > written[h] /\ r[2] <= written'[h]
    BY <2>2 DEF Elements
  <2>5. Below(accepted, Elements(new))
    <3> SUFFICES ASSUME NEW r \in accepted, NEW t \in Elements(new), r[1] = t[1]
                 PROVE  r[2] < t[2]
      BY DEF Below
    <3>1. r[2] <= written[h] /\ r[2] \in Nat
      BY <2>4 DEF Fresh, TypeOK, HistoryOK, Record
    <3>2. t[2] \in Nat /\ t[2] > written[h]
      BY <2>2 DEF Elements
    <3> QED
      BY <2>2, <3>1, <3>2
  <2>6. /\ \A r \in accepted : r[2] <= written'[r[1]]
        /\ \A g \in Handle \ {h} :
              /\ Ordered(call[g].records)
              /\ \A r \in Elements(call[g].records) : r[1] = g /\ r[2] <= written'[g]
              /\ Below(accepted, Elements(call[g].records))
    <3>1. \A r \in accepted : r[1] \in Handle /\ r[2] \in Nat
      BY DEF TypeOK, HistoryOK, Record
    <3> QED
      BY <1>1, <1>2, <3>1 DEF Fresh
  <2>7. \A g \in Handle : /\ Ordered(call'[g].records)
                          /\ \A r \in Elements(call'[g].records) :
                                r[1] = g /\ r[2] <= written'[g]
                          /\ Below(accepted', Elements(call'[g].records))
    BY <1>1, <2>1, <2>3, <2>4, <2>5, <2>6
  <2> QED
    BY <1>1, <2>6, <2>7 DEF Fresh, Elements, Ordered, Below
<1> QED
  BY <1>3, <1>4

\* The command that goes into the queue, and the caller after it.
LEMMA SendShape ==
    ASSUME TypeOK, NEW h \in Handle, SendOk(h)
    PROVE  /\ queue' = Append(queue, call[h]) /\ call[h] \in Command
           /\ accepted' = accepted \cup Elements(call[h].records)
           /\ call'[h].records = <<>>
           /\ \A g \in Handle \ {h} : call'[g] = call[g]
           /\ written' = written
<1>1. CASE call[h].kind = "write"
  BY <1>1 DEF SendOk, Return, NoCommand, TypeOK, LocalsOK
<1>2. CASE call[h].kind # "write"
  <2>1. call[h].records = <<>>
    BY <1>2 DEF TypeOK, LocalsOK, WellFormed
  <2> QED
    BY <1>2, <2>1 DEF SendOk, Goto, TypeOK, LocalsOK
<1> QED
  BY <1>1, <1>2

LEMMA SendPlaced ==
    ASSUME PlaceInv, NEW h \in Handle, SendOk(h)
    PROVE  InOrder' /\ Placed' /\ Fresh'
<1> DEFINE new == Elements(call[h].records)
<1>a. TypeOK /\ ChannelOK /\ InOrder /\ Placed /\ Fresh /\ FileOrder /\ QueueOrder
  BY DEF PlaceInv, TypeOK, InOrder
<1>b. /\ queue' = Append(queue, call[h]) /\ call[h] \in Command
      /\ accepted' = accepted \cup new
      /\ call'[h].records = <<>> /\ \A g \in Handle \ {h} : call'[g] = call[g]
      /\ written' = written
  BY <1>a, SendShape
<1>c. /\ Ordered(call[h].records) /\ Below(accepted, new)
      /\ \A r \in new : r[1] = h /\ r[2] <= written[h]
      /\ new \subseteq Record /\ accepted \subseteq Record
  BY <1>a, <1>b, ElementsType DEF Fresh, Command, TypeOK, HistoryOK
<1> HIDE DEF new
<1>d. UNCHANGED <<job, stored, buffered, refused, discarded, perished>>
  BY DEF SendOk
<1>1. QueueOrder' /\ Queued' = Queued \cup new
  <2>1. Below(Queued, new)
    BY <1>a, <1>c DEF Placed, Live, Below
  <2> QED
    BY <1>a, <1>b, <1>c, <2>1, AppendOrder DEF new
<1>2. InFile' = InFile /\ FileOrder'
  BY <1>a, <1>d, SameFile
<1>3. Hand' = Hand /\ Ordered(job.records)'
  BY <1>a, <1>d DEF InOrder, Hand, Ordered, Elements
<1>4. Below(InFile \cup Hand, Queued)' /\ Below(InFile, Hand)'
  BY <1>a, <1>c, <1>1, <1>2, <1>3 DEF InOrder, Placed, Live, Below
<1>5. InOrder'
  BY <1>1, <1>2, <1>3, <1>4 DEF InOrder
<1>6. Placed'
  <2>1. accepted \cap new = {}
    BY <1>c, BelowApart
  <2>2. Live' = Live \cup new /\ Dropped' = Dropped /\ DroppedApart'
    BY <1>a, <1>d, <1>1, <1>2, <1>3 DEF Live, Dropped, DroppedApart, Placed
  <2> QED
    BY <1>a, <1>b, <2>1, <2>2 DEF Placed
<1>7. Fresh'
  <2>1. \A r \in accepted' : r[2] <= written'[r[1]]
    BY <1>a, <1>b, <1>c DEF Fresh
  <2>2. ASSUME NEW g \in Handle
        PROVE  /\ Ordered(call'[g].records)
               /\ \A r \in Elements(call'[g].records) : r[1] = g /\ r[2] <= written'[g]
               /\ Below(accepted', Elements(call'[g].records))
    <3>1. CASE g = h
      BY <1>b, <3>1, NoElements DEF Below
    <3>2. CASE g # h
      BY <1>a, <1>b, <1>c, <3>2 DEF Fresh, Below
    <3> QED
      BY <3>1, <3>2
  <2> QED
    BY <2>1, <2>2 DEF Fresh, Elements, Ordered, Below
<1> QED
  BY <1>5, <1>6, <1>7

LEMMA CallerPlaced ==
    ASSUME PlaceInv, NEW h \in Handle, Start(h) \/ Continue(h), ~SendOk(h)
    PROVE  InOrder' /\ Placed' /\ Fresh'
<1>a. TypeOK /\ InOrder /\ Placed /\ Fresh
  BY DEF PlaceInv
<1>b. UNCHANGED <<queue, job, stored, buffered, refused, discarded, perished, accepted>>
  BY CallerLeaves
<1>1. InOrder' /\ Placed'
  BY <1>a, <1>b DEF InOrder, FileOrder, QueueOrder, Placed, Live, Dropped, DroppedApart,
                    InFile, Hand, Queued, Elements, Ordered, Below
<1>c. \A g \in Handle : written[g] \in Nat /\ written[g] <= written[g]
  BY <1>a DEF TypeOK, CountersOK
\* Every step but Log leaves the records of the calls alone or ends a call.
<1>2. ASSUME written' = written, \A g \in Handle : call'[g] = call[g] \/ call'[g].records = <<>>
      PROVE  Fresh'
  BY <1>2, <1>a, <1>b, <1>c, FreshKept
<1>3. ASSUME NEW kind, NEW where, Enter(h, kind, <<>>, where)
      PROVE  \A g \in Handle : call'[g] = call[g] \/ call'[g].records = <<>>
  BY <1>3, <1>a DEF Enter, TypeOK, LocalsOK
<1>4. ASSUME Return(h)
      PROVE  \A g \in Handle : call'[g] = call[g] \/ call'[g].records = <<>>
  BY <1>4, <1>a DEF Return, NoCommand, TypeOK, LocalsOK
<1>5. ASSUME \E n \in 1..MaxBatch, mode \in {"send", "trySend"} : Log(h, n, mode) PROVE Fresh'
  BY <1>5, <1>a, LogFresh
<1>6. ASSUME \E kind \in {"flush", "rotate"}, mode \in {"send", "trySend"} : Ask(h, kind, mode)
      PROVE  Fresh'
  BY <1>2, <1>3, <1>6 DEF Ask, Begin
<1>7. ASSUME Stats(h) \/ Shutdown(h) \/ Query(h) PROVE Fresh'
  BY <1>2, <1>3, <1>7 DEF Stats, Shutdown, StartShutdown, Query
<1>8. ASSUME DropStart(h) \/ \E new \in Handle : Clone(h, new) PROVE Fresh'
  BY <1>2, <1>3, <1>8 DEF DropStart, StartShutdown, Clone, Goto
<1>9. ASSUME Continue(h) PROVE Fresh'
  BY <1>2, <1>4, <1>9 DEF Continue, Recheck, TrySendFull, SendDisconnected, Receive,
                          QueryReturn, Lock, Join, DropJoin, Release, Goto
<1> QED
  BY <1>1, <1>5, <1>6, <1>7, <1>8, <1>9 DEF Start

LEMMA PlaceStep == PlaceInv /\ [Next]_vars => PlaceInv'
<1> SUFFICES ASSUME PlaceInv, [Next]_vars PROVE PlaceInv'
  OBVIOUS
<1>1. TypeOK'
  BY CallerType, WorkerType DEF Next, PlaceInv, vars, TypeOK, SharedOK, ChannelOK, LocalsOK,
     CountersOK, WorkOK, HistoryOK, Sink!SinkTypeOK
<1>2. Stages' /\ Joined'
  BY StagesStep DEF PlaceInv
<1>3. CASE WorkerStep \/ AutoFlush
  <2>1. UNCHANGED <<call, written, accepted>>
    BY <1>3, WorkerLeaves
  <2>2. Fresh'
    BY <2>1 DEF PlaceInv, Fresh, Elements, Ordered, Below
  <2> QED
    BY <1>1, <1>2, <1>3, <2>2, WorkerPlaced DEF PlaceInv
<1>4. ASSUME NEW h \in Handle, Start(h) \/ Continue(h) PROVE PlaceInv'
  BY <1>1, <1>2, <1>4, SendPlaced, CallerPlaced DEF PlaceInv
<1>5. CASE UNCHANGED vars
  <2>1. UNCHANGED <<queue, job, stored, buffered, refused, discarded, perished, accepted, call,
                    written>>
    BY <1>5, Zenon DEF vars
  <2> QED
    BY <1>1, <1>2, <2>1
       DEF PlaceInv, InOrder, FileOrder, QueueOrder, Placed, Live, Dropped, DroppedApart,
           InFile, Hand, Queued, Fresh, Elements, Ordered, Below
<1> QED
  BY <1>3, <1>4, <1>5 DEF Next

LEMMA PlaceAlways == Spec => []PlaceInv
  BY InitPlace, PlaceStep, PTL DEF Spec

(***************************************************************************)
(* No record is lost or doubled: whatever the threads do, whatever fails   *)
(* and however the worker ends, a record whose call returned Ok is in      *)
(* exactly one of the places the code has for it.                          *)
(***************************************************************************)
THEOREM AccountedHolds == Spec => []Accounted
<1>1. PlaceInv => Accounted
  BY PlacedAccounted DEF PlaceInv
<1> QED
  BY <1>1, PlaceAlways, PTL

(***************************************************************************)
(* For any number of threads and of files, the records of one handle are   *)
(* in the order of its calls in the file, in the buffer behind it, in the  *)
(* worker's hands behind that, and in the queue.                           *)
(***************************************************************************)
THEOREM CallerOrderHolds == Spec => []CallerOrder
<1>1. ASSUME PlaceInv PROVE CallerOrder
  <2>1. /\ stored \in Seq(Record) /\ buffered \in Seq(Record)
        /\ job.records \in Seq(Record)
    BY <1>1 DEF PlaceInv, TypeOK, Sink!SinkTypeOK, WorkOK, Command
  <2>2. /\ stored \o buffered \in Seq(Record) /\ Elements(stored \o buffered) = InFile
        /\ Ordered(stored \o buffered)
    BY <1>1, <2>1, ConcatOrder DEF PlaceInv, InOrder, FileOrder, InFile
  <2> DEFINE file == stored \o buffered
             line == file \o job.records
  <2> HIDE DEF file
  <2>3. Elements(line) = InFile \cup Hand /\ Ordered(line)
    BY <1>1, <2>1, <2>2, ConcatOrder DEF file, PlaceInv, InOrder, Hand
  <2> HIDE DEF line
  <2>4. Below(Elements(line), Queued)
    BY <1>1, <2>3 DEF PlaceInv, InOrder
  <2>5. \A h \in Handle :
           /\ \A i, j \in DOMAIN line :
                 i < j /\ line[i][1] = h /\ line[j][1] = h => line[i][2] < line[j][2]
           /\ \A i \in DOMAIN line, r \in Queued :
                 line[i][1] = h /\ r[1] = h => line[i][2] < r[2]
    BY <2>3, <2>4 DEF Ordered, Below, Elements
  <2> QED
    BY <2>5, Zenon DEF CallerOrder, line, file
<1> QED
  BY <1>1, PlaceAlways, PTL

(***************************************************************************)
(* Once shutdown has handed out its statistics, the file is final: what    *)
(* was accepted in time is stored, was refused, or is what the last flush  *)
(* could not write, and nothing is left in the buffer or in the queue.     *)
(***************************************************************************)
THEOREM ShutdownDrainsHolds == Spec => []ShutdownDrains
<1>1. ASSUME PlaceInv, LateInv PROVE ShutdownDrains
  <2> SUFFICES ASSUME finalStats, ~panicked
               PROVE  /\ worker = "done"
                      /\ accepted \ late \subseteq Settled \cup perished
                      /\ queue = <<>> /\ buffered = <<>>
    BY DEF ShutdownDrains
  <2>1. worker = "done"
    BY <1>1, Zenon DEF PlaceInv, Joined
  <2>2. queue = <<>> /\ buffered = <<>> /\ job.records = <<>>
    BY <1>1, <2>1 DEF PlaceInv, Stages
  <2>3. Queued = {} /\ Hand = {} /\ InFile = Elements(stored)
    BY <2>2, NoElements DEF Queued, Hand, InFile
  <2>4. discarded \subseteq late
    BY <1>1 DEF LateInv, DiscardedAreLate
  <2>5. accepted = Elements(stored) \cup Dropped
    BY <1>1, <2>3 DEF PlaceInv, Placed, Live
  <2> QED
    BY <2>1, <2>2, <2>4, <2>5 DEF Dropped, Settled
<1> QED
  BY <1>1, PlaceAlways, LateAlways, PTL

----------------------------------------------------------------------------
(* Requests and their replies.                                             *)

Barriers == {"flush", "rotate"}

\* h waits for the reply to a request of this kind, and has none yet.
Open(h, kind) == pc[h] = "wait" /\ reply[h] = "none" /\ call[h].kind = kind
StillOpen(h, kind) == pc'[h] = "wait" /\ reply'[h] = "none" /\ call'[h].kind = kind

\* The worker is busy with a request.
Working == worker = "serve" \/ (worker = "finalize" /\ job.kind = "shutdown")

\* Every request in the queue or with the worker is that of one caller, who waits for it.
Requests ==
    /\ \A h \in Handle : reply[h] = "none" \/ pc[h] \in {"wait", "lock", "join"}
    /\ \A i \in DOMAIN queue : queue[i].kind # "write" =>
          /\ Open(queue[i].from, queue[i].kind)
          /\ Working => job.from # queue[i].from
    /\ \A i, j \in DOMAIN queue :
          queue[i].kind # "write" /\ queue[j].kind # "write" /\ queue[i].from = queue[j].from
              => i = j
    /\ Working => Open(job.from, job.kind)

\* What had been logged before a flush or a rotation began is ahead of its command.
Barrier ==
    /\ \A h \in Handle : before[h] \subseteq accepted
    /\ \A i, j \in DOMAIN queue : queue[i].kind \in Barriers /\ i < j =>
          Elements(queue[j].records) \cap before[queue[i].from] = {}
    /\ Working /\ job.kind \in Barriers => before[job.from] \cap Queued = {}

BarrierInv == Requests /\ Barrier /\ FlushBarrier

LEMMA InitBarrier == Init => BarrierInv
  BY DEF Init, BarrierInv, Requests, Barrier, FlushBarrier, Working, NoCommand

\* A caller that is not waiting for its reply, or has it, goes on; the others do not.
LEMMA CallerOpen ==
    ASSUME LocalsOK, Requests, NEW h \in Handle, Start(h) \/ Continue(h)
    PROVE  /\ \A g \in Handle : reply'[g] = "none" \/
                 /\ pc'[g] \in {"wait", "lock", "join"}
                 /\ reply'[g] = reply[g] /\ call'[g] = call[g] /\ before'[g] = before[g]
           /\ \A g \in Handle : \A kind : Open(g, kind) =>
                 StillOpen(g, kind) /\ before'[g] = before[g]
           /\ \A g \in Handle : before'[g] \subseteq before[g] \cup accepted
<1> DEFINE Goal == /\ \A g \in Handle : reply'[g] = "none" \/
                         /\ pc'[g] \in {"wait", "lock", "join"}
                         /\ reply'[g] = reply[g] /\ call'[g] = call[g] /\ before'[g] = before[g]
                   /\ \A g \in Handle : \A kind : Open(g, kind) =>
                         StillOpen(g, kind) /\ before'[g] = before[g]
                   /\ \A g \in Handle : before'[g] \subseteq before[g] \cup accepted
<1>1. ASSUME NEW kind, NEW records, NEW where, Enter(h, kind, records, where)
      PROVE  Goal
  BY <1>1 DEF Enter, LocalsOK, Requests, Open, StillOpen
<1>2. ASSUME NEW g \in Handle, NEW where, Goto(g, where),
             \/ pc[g] \notin {"wait", "lock", "join"}
             \/ pc[g] \in {"wait", "lock"} /\ reply[g] # "none" /\ where \in {"lock", "join"}
             \/ pc[g] = "lock" /\ where = "join"
      PROVE  Goal
  BY <1>2 DEF Goto, LocalsOK, Requests, Open, StillOpen
<1>3. ASSUME Return(h), pc[h] # "wait" \/ reply[h] # "none"
      PROVE  Goal
  BY <1>3 DEF Return, LocalsOK, Requests, Open, StillOpen, NoCommand
<1>4. ASSUME UNCHANGED locals PROVE Goal
  BY <1>4 DEF LocalsOK, Requests, Open, StillOpen
<1>5. ASSUME NEW kind, NEW records, NEW mode, Begin(h, kind, records, mode)
      PROVE  Goal
  <2>1. CASE shutdown
    BY <1>4, <1>5, <2>1 DEF Begin
  <2>2. CASE ~shutdown
    BY <1>1, <1>5, <2>2 DEF Begin
  <2> QED
    BY <2>1, <2>2
<1>6. ASSUME Start(h) PROVE Goal
  <2>1. ASSUME \E n \in 1..MaxBatch, mode \in {"send", "trySend"} : Log(h, n, mode)
        PROVE  Goal
    BY <1>5, <2>1 DEF Log
  <2>2. ASSUME \E kind \in Barriers, mode \in {"send", "trySend"} : Ask(h, kind, mode)
        PROVE  Goal
    BY <1>5, <2>2 DEF Ask
  <2>3. ASSUME Stats(h) \/ Shutdown(h) \/ Query(h) PROVE Goal
    BY <1>1, <2>3 DEF Stats, Shutdown, StartShutdown, Query
  <2>4. ASSUME DropStart(h) PROVE Goal
    BY <1>1, <1>2, <2>4 DEF DropStart, StartShutdown
  <2>5. ASSUME \E new \in Handle : Clone(h, new) PROVE Goal
    BY <1>2, <2>5 DEF Clone
  <2> QED
    BY <1>6, <2>1, <2>2, <2>3, <2>4, <2>5 DEF Start, Barriers
<1>7. ASSUME Recheck(h) \/ SendOk(h) \/ TrySendFull(h) \/ SendDisconnected(h) PROVE Goal
  BY <1>2, <1>3, <1>7 DEF Recheck, SendOk, TrySendFull, SendDisconnected
<1>8. ASSUME Receive(h) \/ QueryReturn(h) \/ Lock(h) PROVE Goal
  BY <1>2, <1>3, <1>8 DEF Receive, QueryReturn, Lock
<1>9. ASSUME Join(h) \/ DropJoin(h) \/ Release(h) PROVE Goal
  BY <1>2, <1>3, <1>9 DEF Join, DropJoin, Release
<1> QED
  BY <1>6, <1>7, <1>8, <1>9 DEF Continue

LEMMA CallerBarrier ==
    ASSUME PlaceInv, BarrierInv, NEW h \in Handle, Start(h) \/ Continue(h)
    PROVE  BarrierInv'
<1>a. LocalsOK /\ ChannelOK /\ WorkOK /\ Requests /\ Barrier /\ FlushBarrier
  BY DEF PlaceInv, TypeOK, BarrierInv
<1>b. UNCHANGED <<worker, job, stored, buffered, refused>>
  BY CallerLeaves
<1>c. /\ \A g \in Handle : reply'[g] = "none" \/
            /\ pc'[g] \in {"wait", "lock", "join"}
            /\ reply'[g] = reply[g] /\ call'[g] = call[g] /\ before'[g] = before[g]
      /\ \A g \in Handle : \A kind : Open(g, kind) =>
            StillOpen(g, kind) /\ before'[g] = before[g]
      /\ \A g \in Handle : before'[g] \subseteq before[g] \cup accepted
  BY <1>a, CallerOpen
<1>d. job.from \in Handle /\ \A i \in DOMAIN queue : queue[i].from \in Handle
  <2>1. \A i \in DOMAIN queue : queue[i] \in Command
    BY <1>a DEF ChannelOK
  <2>2. job \in Command
    BY <1>a DEF WorkOK
  <2> QED
    BY <2>1, <2>2 DEF Command
<1>e. Working' <=> Working
  BY <1>b DEF Working
<1>f. Working => StillOpen(job.from, job.kind) /\ before'[job.from] = before[job.from]
  BY <1>a, <1>c, <1>d DEF Requests
<1>g. \A i \in DOMAIN queue : queue[i].kind # "write" =>
         /\ StillOpen(queue[i].from, queue[i].kind)
         /\ before'[queue[i].from] = before[queue[i].from]
         /\ Working => job.from # queue[i].from
  BY <1>a, <1>c, <1>d DEF Requests
<1>h. FlushBarrier'
  <2>1. Settled' = Settled
    BY <1>b DEF Settled, Elements
  <2> QED
    BY <1>a, <1>c, <2>1 DEF FlushBarrier
<1>1. CASE UNCHANGED <<queue, accepted>>
  <2>1. Requests'
    <3>1. /\ \A i \in DOMAIN queue' : queue'[i].kind # "write" =>
                /\ StillOpen(queue'[i].from, queue'[i].kind)
                /\ Working' => job'.from # queue'[i].from
          /\ Working' => StillOpen(job'.from, job'.kind)
      BY <1>b, <1>e, <1>f, <1>g, <1>1
    <3> QED
      BY <1>a, <1>c, <1>1, <3>1 DEF Requests, Open, StillOpen
  <2>2. Queued' = Queued
    BY <1>1 DEF Queued, Elements
  <2>3. Barrier'
    BY <1>a, <1>b, <1>c, <1>e, <1>f, <1>g, <1>1, <2>2 DEF Barrier, Barriers, Elements
  <2> QED
    BY <1>h, <2>1, <2>3 DEF BarrierInv
<1>2. CASE SendOk(h)
  <2>1. queue' = Append(queue, call[h]) /\ call[h] \in Command
    BY <1>2, <1>a DEF SendOk, LocalsOK
  <2>2. pc[h] \in {"send", "trySend"} /\ reply[h] = "none" /\ call[h].from = h
    BY <1>2, <1>a DEF SendOk, Requests, LocalsOK
  <2>3. /\ Len(queue) \in Nat /\ DOMAIN queue = 1..Len(queue)
        /\ Len(queue') = Len(queue) + 1 /\ queue'[Len(queue) + 1] = call[h]
        /\ \A i \in DOMAIN queue : i \in DOMAIN queue' /\ queue'[i] = queue[i]
                                   /\ i < Len(queue) + 1
        /\ \A i \in DOMAIN queue' : i \in DOMAIN queue \/ i = Len(queue) + 1
    BY <1>a, <2>1 DEF ChannelOK
  <2>4. /\ Working => job.from # h
        /\ \A i \in DOMAIN queue : queue[i].kind # "write" => queue[i].from # h
    BY <1>a, <2>2 DEF Requests, Open
  <2>5. call[h].kind # "write" => StillOpen(h, call[h].kind)
    BY <1>2, <1>a, <2>2 DEF SendOk, Goto, StillOpen, LocalsOK
  <2>6. Requests'
    <3>1. \A i \in DOMAIN queue' : queue'[i].kind # "write" =>
             /\ StillOpen(queue'[i].from, queue'[i].kind)
             /\ Working' => job'.from # queue'[i].from
      BY <1>b, <1>e, <1>g, <2>2, <2>3, <2>4, <2>5
    <3>2. \A i, j \in DOMAIN queue' :
             queue'[i].kind # "write" /\ queue'[j].kind # "write"
                 /\ queue'[i].from = queue'[j].from => i = j
      BY <1>a, <2>2, <2>3, <2>4 DEF Requests
    <3>3. Working' => StillOpen(job'.from, job'.kind)
      BY <1>b, <1>e, <1>f
    <3> QED
      BY <1>a, <1>c, <3>1, <3>2, <3>3 DEF Requests, Open, StillOpen
  <2> DEFINE new == Elements(call[h].records)
  <2>7. /\ accepted' = accepted \cup new
        /\ accepted \cap new = {}
        /\ Queued' = Queued \cup new
    <3>1. accepted \subseteq Record /\ new \subseteq Record
      BY <2>1, ElementsType DEF PlaceInv, TypeOK, HistoryOK, Command
    <3>2. Below(accepted, new) /\ Ordered(call[h].records)
      BY DEF PlaceInv, Fresh
    <3>3. Below(Queued, new)
      BY <3>2 DEF PlaceInv, Placed, Live, Below
    <3>4. QueueOrder
      BY DEF PlaceInv, InOrder
    <3> QED
      BY <1>2, <1>a, <2>1, <3>1, <3>2, <3>3, <3>4, BelowApart, AppendOrder DEF SendOk
  <2>8. \A g \in Handle : new \cap before[g] = {}
    BY <1>a, <2>7 DEF Barrier
  <2> HIDE DEF new
  <2>9. \A i, j \in DOMAIN queue' : queue'[i].kind \in Barriers /\ i < j =>
           Elements(queue'[j].records) \cap before'[queue'[i].from] = {}
    <3> SUFFICES ASSUME NEW i \in DOMAIN queue', NEW j \in DOMAIN queue',
                        queue'[i].kind \in Barriers, i < j
                 PROVE  Elements(queue'[j].records) \cap before'[queue'[i].from] = {}
      OBVIOUS
    <3>1. i \in DOMAIN queue
      BY <2>3
    <3>2. before'[queue'[i].from] = before[queue[i].from] /\ queue[i].from \in Handle
      BY <1>d, <1>g, <2>3, <3>1 DEF Barriers
    <3>3. CASE j \in DOMAIN queue
      BY <1>a, <2>3, <3>1, <3>2, <3>3 DEF Barrier
    <3>4. CASE j = Len(queue) + 1
      BY <2>3, <2>8, <3>2, <3>4 DEF new
    <3> QED
      BY <2>3, <3>3, <3>4
  <2>10. Barrier'
    BY <1>a, <1>b, <1>c, <1>d, <1>e, <1>f, <2>7, <2>8, <2>9 DEF Barrier, Elements
  <2> QED
    BY <1>h, <2>6, <2>10 DEF BarrierInv
<1> QED
  BY <1>1, <1>2, CallerLeaves

\* The worker takes commands from the head of the queue only.
LEMMA QueueShrinks ==
    ASSUME ChannelOK, Requests, Barrier, UNCHANGED <<before>>,
           \/ queue' = queue
           \/ queue # <<>> /\ queue' = Tail(queue)
           \/ queue' = <<>>
    PROVE  /\ \A i \in DOMAIN queue' : \E j \in DOMAIN queue :
                 queue'[i] = queue[j] /\ (queue' = Tail(queue) /\ queue # <<>> => j > 1)
           /\ \A i, j \in DOMAIN queue' :
                 queue'[i].kind # "write" /\ queue'[j].kind # "write"
                     /\ queue'[i].from = queue'[j].from => i = j
           /\ \A i, j \in DOMAIN queue' : queue'[i].kind \in Barriers /\ i < j =>
                 Elements(queue'[j].records) \cap before'[queue'[i].from] = {}
           /\ Queued' \subseteq Queued
<1>1. CASE queue' = queue /\ ~(queue # <<>> /\ queue' = Tail(queue))
  BY <1>1 DEF Requests, Barrier, Queued, Elements
<1>2. CASE queue # <<>> /\ queue' = Tail(queue)
  <2>1. Len(queue) > 0 /\ Len(queue) \in Nat
    BY <1>2 DEF ChannelOK
  <2>2. \A i \in DOMAIN queue' : /\ i \in Nat /\ i + 1 \in DOMAIN queue /\ i + 1 > 1
                                 /\ queue'[i] = queue[i + 1]
    BY <1>2, <2>1 DEF ChannelOK
  <2>3. \A i, j \in DOMAIN queue' :
           queue'[i].kind # "write" /\ queue'[j].kind # "write"
               /\ queue'[i].from = queue'[j].from => i = j
    BY <2>2 DEF Requests
  <2>4. \A i, j \in DOMAIN queue' : queue'[i].kind \in Barriers /\ i < j =>
           Elements(queue'[j].records) \cap before'[queue'[i].from] = {}
    <3> SUFFICES ASSUME NEW i \in DOMAIN queue', NEW j \in DOMAIN queue',
                        queue'[i].kind \in Barriers, i < j
                 PROVE  Elements(queue'[j].records) \cap before'[queue'[i].from] = {}
      OBVIOUS
    <3>1. i + 1 < j + 1 /\ i + 1 \in DOMAIN queue /\ j + 1 \in DOMAIN queue
      BY <2>2
    <3>2. Elements(queue[j + 1].records) \cap before[queue[i + 1].from] = {}
      BY <2>2, <3>1 DEF Barrier
    <3> QED
      BY <2>2, <3>2
  <2>5. Queued' \subseteq Queued
    BY <2>2 DEF Queued, Elements
  <2> QED
    BY <1>2, <2>2, <2>3, <2>4, <2>5
<1>3. CASE queue' = <<>> /\ ~(queue # <<>> /\ queue' = Tail(queue))
  BY <1>3 DEF Queued, Elements
<1> QED
  BY <1>1, <1>2, <1>3

\* What has reached the file, or was refused, stays so.
LEMMA SettledGrows ==
    ASSUME TypeOK, FileOrder, WorkerStep \/ AutoFlush
    PROVE  Settled \subseteq Settled'
<1>1. ASSUME NEW t \in Seq(Record), stored' = stored \o t
      PROVE  Elements(stored) \subseteq Elements(stored')
  <2> DEFINE u == stored \o t
  <2>1. /\ u \in Seq(Record) /\ Len(u) = Len(stored) + Len(t)
        /\ \A i \in 1..(Len(stored) + Len(t)) :
              u[i] = IF i <= Len(stored) THEN stored[i] ELSE t[i - Len(stored)]
    BY ConcatProperties DEF TypeOK, Sink!SinkTypeOK
  <2> HIDE DEF u
  <2>2. \A i \in DOMAIN stored : i \in DOMAIN u /\ u[i] = stored[i]
    BY <2>1 DEF TypeOK, Sink!SinkTypeOK
  <2>3. Elements(stored) \subseteq Elements(u)
    BY <2>2 DEF Elements
  <2> QED
    BY <1>1, <2>3 DEF u
<1>2. ASSUME NEW k \in 0..Len(buffered), Sink!Drain(k)
      PROVE  Elements(stored) \subseteq Elements(stored')
  <2>1. SubSeq(buffered, 1, k) \in Seq(Record)
    BY CutOrder DEF FileOrder, TypeOK, Sink!SinkTypeOK
  <2> QED
    BY <1>1, <1>2, <2>1 DEF Sink!Drain
<1>3. Len(buffered) \in 0..Len(buffered)
  BY DEF TypeOK, Sink!SinkTypeOK
<1>4. ASSUME Sink!FlushOk \/ Sink!FlushErr \/ \E R : Sink!Fail(R)
      PROVE  Elements(stored) \subseteq Elements(stored') /\ refused \subseteq refused'
  BY <1>2, <1>3, <1>4 DEF Sink!FlushOk, Sink!FlushErr, Sink!Fail, Sink!GiveUp
<1>5. ASSUME NEW r \in Record, Sink!Put(r)
      PROVE  Elements(stored) \subseteq Elements(stored') /\ refused \subseteq refused'
  <2>1. buffered \in Seq(Record) /\ Append(buffered, r) \in Seq(Record)
    BY DEF TypeOK, Sink!SinkTypeOK
  <2>2. /\ UNCHANGED refused
        /\ \/ UNCHANGED stored
           \/ stored' = stored \o buffered
           \/ stored' = stored \o Append(buffered, r)
    BY <1>5, Zenon DEF Sink!Put
  <2>3. Elements(stored) \subseteq Elements(stored')
    <3>1. CASE UNCHANGED stored
      BY <3>1
    <3>2. CASE stored' = stored \o buffered
      BY <1>1, <2>1, <3>2
    <3>3. CASE stored' = stored \o Append(buffered, r)
      BY <1>1, <2>1, <3>3, Zenon
    <3> QED
      BY <2>2, <3>1, <3>2, <3>3
  <2> QED
    BY <2>2, <2>3
<1>6. ASSUME Sink!Close
      PROVE  Elements(stored) \subseteq Elements(stored') /\ refused \subseteq refused'
  <2>1. \A k \in 0..Len(buffered) : SubSeq(buffered, 1, k) \in Seq(Record)
    BY CutOrder DEF FileOrder, TypeOK, Sink!SinkTypeOK
  <2> QED
    BY <1>1, <1>6, <2>1 DEF Sink!Close
<1>7. Elements(stored) \subseteq Elements(stored') /\ refused \subseteq refused'
  <2>1. ASSUME Recv \/ RecvDisconnected \/ WritePanic \/ DropReceiver
        PROVE  UNCHANGED <<stored, refused>>
    BY <2>1, Zenon DEF Recv, RecvDisconnected, WritePanic, DropReceiver
  <2>2. ASSUME AutoFlush \/ Finalize PROVE Sink!FlushOk \/ Sink!FlushErr
    BY <2>2, Zenon DEF AutoFlush, Finalize
  <2>3. ASSUME Serve
        PROVE  UNCHANGED <<stored, refused>> \/ Sink!FlushOk \/ Sink!FlushErr \/ Sink!Fail({})
    BY <2>3, Zenon DEF Serve
  <2>4. ASSUME WriteErr \/ Exit
        PROVE  Sink!Fail(Elements(job.records)) \/ Sink!Close
    BY <2>4, Zenon DEF WriteErr, Exit
  <2>6. ASSUME WriteOk
        PROVE  \E r \in Record : Sink!Put(r)
    <3>1. job.records \in Seq(Record) /\ job.records # <<>>
      BY <2>6 DEF WriteOk, TypeOK, WorkOK, Command
    <3>2. Head(job.records) \in Record
      BY <3>1
    <3> QED
      BY <2>6, <3>2 DEF WriteOk
  <2>5. ASSUME UNCHANGED <<stored, refused>>
        PROVE  Elements(stored) \subseteq Elements(stored') /\ refused \subseteq refused'
    BY <2>5
  <2> QED
    BY <1>4, <1>5, <1>6, <2>1, <2>2, <2>3, <2>4, <2>5, <2>6 DEF WorkerStep
<1> QED
  BY <1>7 DEF Settled, Elements

\* A flush that succeeds leaves nothing in the buffer.
LEMMA FlushSettles ==
    ASSUME TypeOK, FileOrder, Sink!FlushOk
    PROVE  InFile \cup refused \subseteq Settled'
<1>1. Len(buffered) \in 0..Len(buffered) /\ Sink!Drain(Len(buffered)) /\ refused' = refused
  BY DEF Sink!FlushOk, TypeOK, Sink!SinkTypeOK
<1>2. InFile' = InFile
  BY <1>1, DrainOrder DEF TypeOK
<1>3. Elements(buffered)' = {}
  <2>1. buffered' = SubSeq(buffered, Len(buffered) + 1, Len(buffered))
    BY <1>1 DEF Sink!Drain
  <2>2. /\ SubSeq(buffered, Len(buffered) + 1, Len(buffered)) \in Seq(Record)
        /\ Len(SubSeq(buffered, Len(buffered) + 1, Len(buffered))) = 0
    BY SubSeqProperties DEF TypeOK, Sink!SinkTypeOK
  <2>3. buffered' = <<>>
    BY <2>1, <2>2, EmptySeq
  <2> QED
    BY <2>3, NoElements DEF Elements
<1> QED
  BY <1>1, <1>2, <1>3 DEF InFile, Settled, Elements

LEMMA WorkerBarrier ==
    ASSUME PlaceInv, BarrierInv, WorkerStep \/ AutoFlush
    PROVE  BarrierInv'
<1>a. /\ TypeOK /\ LocalsOK /\ ChannelOK /\ WorkOK /\ FileOrder
      /\ Requests /\ Barrier /\ FlushBarrier
  BY DEF PlaceInv, InOrder, TypeOK, BarrierInv
<1>b. UNCHANGED <<pc, call, before, accepted>>
  BY WorkerLeaves
<1>s. Settled \subseteq Settled'
  BY <1>a, SettledGrows
<1> DEFINE Shape == \/ queue' = queue
                    \/ queue # <<>> /\ queue' = Tail(queue)
                    \/ queue' = <<>>
           Waits == \A g \in Handle : reply'[g] = "none" \/ pc[g] \in {"wait", "lock", "join"}
           Inside == \A i \in DOMAIN queue' : queue'[i].kind # "write" =>
                        /\ StillOpen(queue'[i].from, queue'[i].kind)
                        /\ Working' => job'.from # queue'[i].from
           Busy == Working' => /\ StillOpen(job'.from, job'.kind)
                               /\ job'.kind \in Barriers => before[job'.from] \cap Queued' = {}
           Kept == \A g \in Handle : call[g].kind \in Barriers /\ reply'[g] = "ok" =>
                       reply[g] = "ok" \/ before[g] \subseteq Settled'
<1>0. ASSUME Shape, Waits, Inside, Busy, Kept PROVE BarrierInv'
  <2>1. /\ \A i, j \in DOMAIN queue' :
              queue'[i].kind # "write" /\ queue'[j].kind # "write"
                  /\ queue'[i].from = queue'[j].from => i = j
        /\ \A i, j \in DOMAIN queue' : queue'[i].kind \in Barriers /\ i < j =>
              Elements(queue'[j].records) \cap before'[queue'[i].from] = {}
    BY <1>0, <1>a, <1>b, QueueShrinks
  <2>2. Requests'
    BY <1>0, <1>b, <2>1 DEF Requests, Open, StillOpen
  <2>3. Barrier'
    BY <1>0, <1>a, <1>b, <2>1 DEF Barrier, Elements
  <2>4. FlushBarrier'
    BY <1>0, <1>a, <1>b, <1>s DEF FlushBarrier, Barriers
  <2> QED
    BY <2>2, <2>3, <2>4 DEF BarrierInv
<1>c. Shape => /\ \A i \in DOMAIN queue' : \E j \in DOMAIN queue :
                     queue'[i] = queue[j] /\ (queue' = Tail(queue) /\ queue # <<>> => j > 1)
               /\ Queued' \subseteq Queued
  BY <1>a, <1>b, QueueShrinks
<1>d. \A g, kind : Open(g, kind) /\ reply'[g] = reply[g] => StillOpen(g, kind)
  BY <1>b DEF Open, StillOpen
<1>e. /\ job.from \in Handle
      /\ \A i \in DOMAIN queue : queue[i].from \in Handle
      /\ queue # <<>> => 1 \in DOMAIN queue /\ Head(queue) = queue[1]
  <2>1. \A i \in DOMAIN queue : queue[i] \in Command
    BY <1>a DEF ChannelOK
  <2>2. job \in Command
    BY <1>a DEF WorkOK
  <2>3. queue # <<>> => 1 \in DOMAIN queue /\ Head(queue) = queue[1]
    BY <1>a DEF ChannelOK
  <2> QED
    BY <2>1, <2>2, <2>3 DEF Command
\* Without a request to work on, and without an answer, nothing changes for the callers.
<1>f. ASSUME Shape, reply' = reply, ~Working' PROVE BarrierInv'
  <2>1. Inside
    BY <1>a, <1>c, <1>d, <1>f DEF Requests
  <2> QED
    BY <1>0, <1>a, <1>f, <2>1 DEF Requests
<1>1. CASE Recv
  <2>1. /\ Shape /\ queue # <<>> /\ queue' = Tail(queue) /\ job' = Head(queue)
        /\ reply' = reply
        /\ Working' => Head(queue).kind # "write"
    BY <1>1 DEF Recv, Working
  <2>2. CASE Working'
    <3> DEFINE c == Head(queue)
    <3>1. c = queue[1] /\ 1 \in DOMAIN queue /\ c.kind # "write" /\ job' = c
      BY <1>e, <2>1, <2>2
    <3>2. queue # <<>> /\ queue' = Tail(queue) /\ reply' = reply
      BY <2>1
    <3> HIDE DEF c
    <3>3. ASSUME NEW i \in DOMAIN queue'
          PROVE  \E j \in DOMAIN queue : queue'[i] = queue[j] /\ 1 < j
      <4>1. PICK j \in DOMAIN queue : queue'[i] = queue[j] /\ j > 1
        BY <1>c, <3>2
      <4>2. 1 < j
        BY <1>a, <4>1 DEF ChannelOK
      <4> QED
        BY <4>1, <4>2
    <3>4. \A i \in DOMAIN queue' : queue'[i].kind # "write" =>
             \E j \in DOMAIN queue : queue'[i] = queue[j] /\ queue[j].from # c.from
      <4>1. \A j \in DOMAIN queue : queue[j].kind # "write" /\ 1 < j => queue[j].from # c.from
        BY <1>a, <3>1 DEF Requests
      <4> QED
        BY <3>3, <4>1
    <3>5. Inside
      BY <1>a, <1>d, <3>1, <3>2, <3>4 DEF Requests
    <3>6. StillOpen(job'.from, job'.kind)
      <4>1. Open(c.from, c.kind)
        BY <1>a, <3>1 DEF Requests
      <4> QED
        BY <1>d, <3>1, <3>2, <4>1
    <3>7. ASSUME c.kind \in Barriers
          PROVE  before[c.from] \cap Queued' = {}
      <4>1. ASSUME NEW i \in DOMAIN queue'
            PROVE  Elements(queue'[i].records) \cap before[c.from] = {}
        <5>1. PICK j \in DOMAIN queue : queue'[i] = queue[j] /\ 1 < j
          BY <3>3
        <5> QED
          BY <1>a, <3>1, <3>7, <5>1 DEF Barrier
      <4> QED
        BY <4>1 DEF Queued, Elements
    <3>8. Waits /\ Kept
      BY <1>a, <3>2 DEF Requests
    <3> QED
      BY <1>0, <3>1, <3>2, <3>5, <3>6, <3>7, <3>8
  <2> QED
    BY <1>f, <2>1, <2>2
<1>2. CASE RecvDisconnected
  BY <1>2, <1>f DEF RecvDisconnected, Working, NoCommand
<1>3. CASE AutoFlush \/ WriteOk \/ WriteErr \/ WritePanic \/ Exit
  BY <1>3, <1>f DEF AutoFlush, WriteOk, WriteErr, WritePanic, Exit, Working
\* An answer goes to the caller whose request the worker has.
<1>4. ASSUME NEW r \in {"ok", "ioError"}, Reply(r), Working, ~Working', queue' = queue,
             job.kind \in Barriers /\ r = "ok" => before[job.from] \subseteq Settled'
      PROVE  BarrierInv'
  <2>1. Open(job.from, job.kind)
    BY <1>4, <1>a DEF Requests
  <2>2. \A g \in Handle \ {job.from} : reply'[g] = reply[g]
    BY <1>4, <1>a DEF Reply, LocalsOK
  <2>3. reply'[job.from] = r
    BY <1>4, <1>a, <1>e DEF Reply, LocalsOK
  <2>4. Inside
    BY <1>4, <1>a, <1>d, <1>e, <2>2 DEF Requests
  <2>5. Waits
    BY <1>a, <2>1, <2>2 DEF Requests, Open
  <2>6. Kept
    BY <1>4, <2>1, <2>2, <2>3 DEF Open
  <2> QED
    BY <1>0, <1>4, <2>4, <2>5, <2>6
<1>5. CASE Serve
  <2>1. Working /\ ~Working' /\ queue' = queue
    BY <1>5 DEF Serve, Working
  <2>2. CASE job.kind # "stats" /\ Reply("ok") /\ Sink!FlushOk
    <3>1. job.records = <<>> /\ discarded = {} /\ perished = {}
      BY <1>5 DEF Serve, PlaceInv, Stages
    <3>2. Hand = {}
      BY <3>1, NoElements DEF Hand
    <3>3. accepted \subseteq InFile \cup refused \cup Queued
      BY <3>1, <3>2 DEF PlaceInv, Placed, Live, Dropped
    <3>4. InFile \cup refused \subseteq Settled'
      BY <1>a, <2>2, FlushSettles
    <3>5. job.kind \in Barriers => before[job.from] \subseteq Settled'
      BY <1>a, <1>e, <2>1, <3>3, <3>4 DEF Barrier
    <3> QED
      BY <1>4, <2>1, <2>2, <3>5
  <2>3. CASE job.kind = "stats" /\ Reply("ok")
    BY <1>4, <2>1, <2>3 DEF Barriers
  <2>4. CASE Reply("ioError")
    BY <1>4, <2>1, <2>4
  <2> QED
    BY <1>5, <2>2, <2>3, <2>4 DEF Serve
<1>6. CASE Finalize
  <2>1. queue' = queue /\ ~Working' /\ worker = "finalize"
    BY <1>6 DEF Finalize, Working
  <2>2. CASE job.kind = "shutdown"
    BY <1>4, <1>6, <2>1, <2>2 DEF Finalize, Working, Barriers
  <2>3. CASE job.kind # "shutdown"
    BY <1>6, <1>f, <2>1, <2>3 DEF Finalize
  <2> QED
    BY <2>2, <2>3
<1>7. CASE DropReceiver
  <2>1. queue' = <<>> /\ ~Working' /\ reply' = reply
    BY <1>7 DEF DropReceiver, Working
  <2>2. Waits
    BY <1>a, <2>1 DEF Requests
  <2>3. Kept /\ Inside
    BY <2>1
  <2> QED
    BY <1>0, <2>1, <2>2, <2>3
<1> QED
  BY <1>1, <1>2, <1>3, <1>5, <1>6, <1>7 DEF WorkerStep

LEMMA BarrierAlways == Spec => []BarrierInv
<1>1. ASSUME BarrierInv, UNCHANGED vars PROVE BarrierInv'
  <2>1. UNCHANGED <<queue, pc, call, reply, before, accepted, worker, job, stored, refused>>
    BY <1>1, Zenon DEF vars
  <2>2. Working' <=> Working
    BY <2>1 DEF Working
  <2> QED
    BY <1>1, <2>1, <2>2 DEF BarrierInv, Requests, Barrier, FlushBarrier, Open, Queued,
                            Settled, Elements
<1>2. PlaceInv /\ BarrierInv /\ [Next]_vars => BarrierInv'
  BY <1>1, CallerBarrier, WorkerBarrier DEF Next
<1> QED
  BY <1>2, InitBarrier, PlaceAlways, PTL DEF Spec

(***************************************************************************)
(* flush and rotate are barriers for any number of threads: when one of    *)
(* them returns Ok, every record that any thread had logged before the     *)
(* call began is stored or was refused because of an I/O error.            *)
(***************************************************************************)
THEOREM FlushBarrierHolds == Spec => []FlushBarrier
<1>1. BarrierInv => FlushBarrier
  BY DEF BarrierInv
<1> QED
  BY <1>1, BarrierAlways, PTL

----------------------------------------------------------------------------
(* The last drop.                                                          *)

Closing(h) == call[h].kind = "shutdown"

(***************************************************************************)
(* One caller at most shuts the logger down, and until the worker has      *)
(* taken its command only a panic ends the loop: there is still a sender.  *)
(* A drop in progress is that caller, or has found out what it needs.      *)
(***************************************************************************)
DropInv ==
    /\ \A g, h \in Handle : Closing(g) /\ Closing(h) => g = h
    /\ \A h \in Handle : Closing(h) =>
          /\ shutdown
          /\ pc[h] \in {"send", "wait", "lock", "join"}
          /\ pc[h] = "send" /\ worker \in Ending => panicked
    /\ \A i \in DOMAIN queue : queue[i].kind = "shutdown" /\ worker \in Ending => panicked
    /\ \A h \in dropping : pc[h] \in {"dropJoin", "release", "gone"} \/ Closing(h)

LEMMA InitDrop == Init => DropInv
  BY DEF Init, DropInv, Closing, NoCommand

LEMMA CallerDrops ==
    ASSUME TypeOK, LateInv, Requests, DropInv, NEW h \in Handle, Start(h) \/ Continue(h)
    PROVE  DropInv'
<1>a. LocalsOK /\ ChannelOK /\ dropping \subseteq Handle
  BY DEF TypeOK, CountersOK
<1>b. worker' = worker /\ (panicked => panicked')
  <2>1. UNCHANGED <<worker, panicked>>
    BY CallerLeaves
  <2> QED
    BY <2>1, Zenon
<1>c. shutdown => shutdown'
  <2>1. UNCHANGED shutdown \/ StartShutdown(h)
    BY Zenon DEF Start, Continue, Log, Ask, Stats, Shutdown, Query, DropStart, Clone, Recheck,
           SendOk, TrySendFull, SendDisconnected, Receive, QueryReturn, Lock, Join, DropJoin,
           Release
  <2> QED
    BY <2>1, Zenon DEF StartShutdown
\* What is left to show of each step.
<1> DEFINE Others(g) ==
               \A f \in Handle \ {g} : call'[f] = call[f] /\ pc'[f] = pc[f]
           One(g) == Closing(g)' =>
               /\ Closing(g) \/ ~shutdown
               /\ shutdown'
               /\ pc'[g] \in {"send", "wait", "lock", "join"}
               /\ pc'[g] = "send" /\ worker \in Ending => panicked
           Drops(g) == /\ dropping' \subseteq dropping \cup {g}
                       /\ g \in dropping' => \/ pc'[g] \in {"dropJoin", "release", "gone"}
                                             \/ Closing(g)'
           Sent == queue' = queue \/ (queue' = Append(queue, call[h]) /\ pc[h] \in {"send", "trySend"})
<1>0. ASSUME NEW g \in Handle, Others(g), One(g), Drops(g), Sent
      PROVE  DropInv'
  <2>1. \A f \in Handle \ {g} : Closing(f)' <=> Closing(f)
    BY <1>0 DEF Closing
  <2>2. \A f, e \in Handle : Closing(f)' /\ Closing(e)' => f = e
    BY <1>0, <2>1 DEF DropInv
  <2>3. \A f \in Handle : Closing(f)' =>
          /\ shutdown'
          /\ pc'[f] \in {"send", "wait", "lock", "join"}
          /\ pc'[f] = "send" /\ worker' \in Ending => panicked'
    BY <1>0, <1>b, <1>c, <2>1 DEF DropInv
  <2>4. \A i \in DOMAIN queue' : queue'[i].kind = "shutdown" /\ worker' \in Ending => panicked'
    <3>1. \A i \in DOMAIN queue' : \/ i \in DOMAIN queue /\ queue'[i] = queue[i]
                                   \/ queue'[i] = call[h] /\ pc[h] \in {"send", "trySend"}
      <4>1. CASE queue' = queue
        BY <4>1
      <4>2. CASE queue' = Append(queue, call[h]) /\ pc[h] \in {"send", "trySend"}
        <5>1. call[h] \in Command
          BY <1>a DEF LocalsOK
        <5> QED
          BY <1>a, <4>2, <5>1 DEF ChannelOK
      <4> QED
        BY <1>0, <4>1, <4>2
    <3>2. call[h].kind = "shutdown" /\ pc[h] \in {"send", "trySend"} /\ worker \in Ending
             => panicked
      BY DEF DropInv, Closing
    <3> QED
      BY <1>b, <3>1, <3>2 DEF DropInv
  <2>5. \A f \in dropping' : pc'[f] \in {"dropJoin", "release", "gone"} \/ Closing(f)'
    BY <1>0, <1>a, <2>1 DEF DropInv
  <2> QED
    BY <2>2, <2>3, <2>4, <2>5 DEF DropInv, Closing
<1>1. ASSUME NEW kind, NEW records, NEW where, kind # "shutdown",
             Enter(h, kind, records, where), dropping' = dropping, Sent
      PROVE  DropInv'
  <2>1. Others(h) /\ One(h) /\ Drops(h)
    BY <1>1, <1>a DEF Enter, LocalsOK, DropInv, Closing
  <2> QED
    BY <1>0, <1>1, <2>1
<1>2. ASSUME StartShutdown(h), dropping' \subseteq dropping \cup {h}, Sent
      PROVE  DropInv'
  <2>1. /\ Others(h) /\ Drops(h) /\ Closing(h)' /\ pc'[h] = "send"
        /\ pc[h] = "idle" /\ ~shutdown
    BY <1>2, <1>a DEF StartShutdown, Enter, LocalsOK, Closing
  <2>3. worker \in Ending => panicked
    BY <2>1 DEF LateInv, CallersHold
  <2>4. shutdown'
    BY <1>2, Zenon DEF StartShutdown
  <2>5. One(h)
    BY <2>1, <2>3, <2>4
  <2> QED
    BY <1>0, <1>2, <2>1, <2>5
<1>3. ASSUME NEW g \in Handle, NEW where, Goto(g, where), Sent,
             Closing(g) => where \in {"wait", "lock", "join"},
             \/ dropping' = dropping /\ (g \in dropping => Closing(g) \/ where \in {"release", "gone"})
             \/ dropping' = dropping \cup {g} /\ where \in {"dropJoin", "release"}
      PROVE  DropInv'
  <2>1. Others(g) /\ Drops(g) /\ pc'[g] = where /\ call'[g] = call[g]
    BY <1>3, <1>a DEF Goto, LocalsOK, Closing
  <2>2. Closing(g)' <=> Closing(g)
    BY <2>1 DEF Closing
  <2>3. One(g)
    BY <1>3, <1>c, <2>1, <2>2 DEF DropInv
  <2> QED
    BY <1>0, <1>3, <2>1, <2>3
<1>4. ASSUME Return(h), dropping' = dropping, Sent PROVE DropInv'
  <2>1. Others(h) /\ One(h) /\ Drops(h)
    BY <1>4, <1>a DEF Return, NoCommand, LocalsOK, Closing
  <2> QED
    BY <1>0, <1>4, <2>1
<1>5. ASSUME UNCHANGED locals, dropping' = dropping, Sent PROVE DropInv'
  <2>1. Others(h) /\ One(h) /\ Drops(h)
    BY <1>5, <1>c DEF DropInv, Closing
  <2> QED
    BY <1>0, <1>5, <2>1
\* Callers inside a call, or that have released the logger, are not elsewhere.
<1>6. \A g \in Handle : pc[g] \in {"unborn", "idle", "recheck", "query"} =>
         ~Closing(g) /\ g \notin dropping
  BY DEF DropInv
<1>7. ASSUME Start(h) PROVE DropInv'
  <2>1. ASSUME NEW kind, NEW records, NEW mode, kind # "shutdown",
               Begin(h, kind, records, mode), dropping' = dropping, Sent
        PROVE  DropInv'
    BY <1>1, <1>5, <2>1 DEF Begin
  <2>2. ASSUME \E n \in 1..MaxBatch, mode \in {"send", "trySend"} : Log(h, n, mode)
        PROVE  DropInv'
    BY <2>1, <2>2 DEF Log
  <2>3. ASSUME \E kind \in Barriers, mode \in {"send", "trySend"} : Ask(h, kind, mode)
        PROVE  DropInv'
    BY <2>1, <2>3 DEF Ask, Barriers
  <2>4. ASSUME Stats(h) \/ Query(h) PROVE DropInv'
    BY <1>1, <2>4 DEF Stats, Query
  <2>5. ASSUME Shutdown(h) PROVE DropInv'
    BY <1>2, <2>5 DEF Shutdown
  <2>6. ASSUME DropStart(h) PROVE DropInv'
    <3>1. pc[h] = "idle" /\ dropping' = dropping \cup {h} /\ queue' = queue
      BY <2>6 DEF DropStart
    <3>2. CASE StartShutdown(h)
      BY <1>2, <3>1, <3>2
    <3>3. CASE ~StartShutdown(h)
      <4>1. PICK where \in {"dropJoin", "release"} : Goto(h, where)
        BY <2>6, <3>3 DEF DropStart
      <4> QED
        BY <1>3, <1>6, <3>1, <4>1
    <3> QED
      BY <3>2, <3>3
  <2>7. ASSUME \E new \in Handle : Clone(h, new) PROVE DropInv'
    BY <1>3, <1>6, <2>7 DEF Clone
  <2> QED
    BY <1>7, <2>2, <2>3, <2>4, <2>5, <2>6, <2>7 DEF Start, Barriers
<1>8. ASSUME Recheck(h) \/ TrySendFull(h) \/ SendDisconnected(h) \/ QueryReturn(h) \/ Join(h)
      PROVE  DropInv'
  BY <1>3, <1>4, <1>6, <1>8 DEF Recheck, TrySendFull, SendDisconnected, QueryReturn, Join
<1>9. ASSUME SendOk(h) PROVE DropInv'
  <2>1. dropping' = dropping /\ Sent
    BY <1>9 DEF SendOk
  <2>2. h \in dropping => Closing(h)
    BY <1>9 DEF SendOk, DropInv
  <2> QED
    BY <1>3, <1>4, <1>9, <2>1, <2>2 DEF SendOk
<1>10. ASSUME Receive(h) \/ Lock(h) PROVE DropInv'
  <2>1. h \in dropping => Closing(h)
    BY <1>10 DEF Receive, Lock, DropInv
  <2> QED
    BY <1>3, <1>4, <1>10, <2>1 DEF Receive, Lock
<1>11. ASSUME DropJoin(h) \/ Release(h) PROVE DropInv'
  <2>1. ~Closing(h)
    BY <1>11 DEF DropJoin, Release, DropInv
  <2> QED
    BY <1>3, <1>11, <2>1 DEF DropJoin, Release
<1> QED
  BY <1>7, <1>8, <1>9, <1>10, <1>11 DEF Continue

LEMMA WorkerDrops ==
    ASSUME TypeOK, LateInv, Requests, DropInv, WorkerStep \/ AutoFlush
    PROVE  DropInv'
<1>a. LocalsOK /\ ChannelOK /\ WorkOK
  BY DEF TypeOK
<1>b. UNCHANGED <<pc, call, dropping>> /\ (shutdown => shutdown')
  <2>1. UNCHANGED <<pc, call, dropping, shutdown>>
    BY WorkerLeaves
  <2> QED
    BY <2>1, Zenon
<1>c. panicked => panicked'
  <2>1. UNCHANGED panicked \/ panicked'
    BY Zenon DEF WorkerStep, Recv, RecvDisconnected, WriteOk, WriteErr, WritePanic, Serve,
           Finalize, DropReceiver, Exit, AutoFlush
  <2> QED
    BY <2>1, Zenon
\* What is left to show of each step.
<1> DEFINE Sender == \A h \in Handle :
                         Closing(h) /\ pc[h] = "send" /\ worker' \in Ending => panicked'
           Left == \A i \in DOMAIN queue' :
                       queue'[i].kind = "shutdown" /\ worker' \in Ending => panicked'
<1>0. ASSUME Sender, Left PROVE DropInv'
  BY <1>0, <1>b DEF DropInv, Closing
<1>1. CASE Recv
  <2> DEFINE c == Head(queue)
  <2>1. /\ queue # <<>> /\ queue' = Tail(queue) /\ c = queue[1] /\ 1 \in DOMAIN queue
    BY <1>1, <1>a DEF Recv, ChannelOK
  <2>2. \A i \in DOMAIN queue' : i + 1 \in DOMAIN queue /\ i + 1 # 1 /\ queue'[i] = queue[i + 1]
    BY <1>a, <2>1 DEF ChannelOK
  <2>3. worker' \in Ending => c.kind = "shutdown"
    BY <1>1 DEF Recv, Ending
  <2>4. c.from \in Handle /\ \A i \in DOMAIN queue : queue[i].from \in Handle
    <3>1. \A i \in DOMAIN queue : queue[i] \in Command
      BY <1>a DEF ChannelOK
    <3>2. \A i \in DOMAIN queue : queue[i].from \in Handle
      BY <3>1 DEF Command
    <3> QED
      BY <2>1, <3>2
  <2> HIDE DEF c
  <2>5. CASE c.kind = "shutdown"
    <3>1. Closing(c.from) /\ pc[c.from] = "wait"
      BY <2>1, <2>5 DEF Requests, Open, Closing
    <3>2. Sender
      BY <2>4, <3>1 DEF DropInv
    <3>3. \A j \in DOMAIN queue : queue[j].kind = "shutdown" => queue[j].from = c.from
      BY <2>4, <3>1 DEF Requests, Open, DropInv, Closing
    <3>4. \A j \in DOMAIN queue : queue[j].kind = "shutdown" => j = 1
      BY <2>1, <2>5, <3>3 DEF Requests
    <3>5. Left
      BY <2>2, <3>4
    <3> QED
      BY <1>0, <1>c, <2>1, <3>2, <3>5 DEF DropInv
  <2>6. CASE c.kind # "shutdown"
    BY <1>0, <1>c, <2>1, <2>3, <2>6 DEF DropInv
  <2> QED
    BY <2>5, <2>6
<1>2. CASE RecvDisconnected
  <2>1. queue' = queue /\ queue = <<>> /\ handles = {}
    BY <1>2 DEF RecvDisconnected
  <2>2. \A h \in Handle : pc[h] \in {"unborn", "gone"}
    BY <2>1 DEF LateInv, CallersHold
  <2> QED
    BY <1>0, <1>c, <2>1, <2>2 DEF DropInv
<1>3. CASE WritePanic
  <2>1. panicked'
    BY <1>3, Zenon DEF WritePanic
  <2> QED
    BY <1>0, <2>1
<1>4. CASE AutoFlush \/ WriteOk \/ WriteErr
  <2>1. worker' \notin Ending
    BY <1>4 DEF AutoFlush, WriteOk, WriteErr, Ending
  <2> QED
    BY <1>0, <1>c, <2>1 DEF DropInv
<1>5. CASE Serve
  <2>1. worker' \notin Ending
    BY <1>5 DEF Serve, Ending
  <2> QED
    BY <1>0, <1>c, <2>1 DEF DropInv
<1>6. CASE Finalize \/ Exit
  <2>1. queue' = queue /\ worker \in Ending
    BY <1>6 DEF Finalize, Exit, Ending
  <2> QED
    BY <1>0, <1>c, <2>1 DEF DropInv
<1>7. CASE DropReceiver
  <2>1. queue' = <<>> /\ worker \in Ending
    BY <1>7 DEF DropReceiver, Ending
  <2> QED
    BY <1>0, <1>c, <2>1 DEF DropInv
<1> QED
  BY <1>1, <1>2, <1>3, <1>4, <1>5, <1>6, <1>7 DEF WorkerStep

LEMMA LastDropWaits ==
    ASSUME TypeOK, Stages, Joined, DropInv, [Next]_vars, NEW h \in dropping,
           pc[h] # "release", pc'[h] = "release"
    PROVE  worker = "done" \/ (panicked /\ pc[h] = "send")
<1>a. LocalsOK /\ h \in Handle /\ (pc[h] = "dropJoin" \/ pc[h] = "gone" \/ Closing(h))
  BY DEF TypeOK, CountersOK, DropInv
<1>b. ~receiver => worker \in Ending
  BY DEF Stages, Ending
<1>1. ASSUME WorkerStep \/ AutoFlush \/ UNCHANGED vars PROVE pc' = pc
  <2>1. ASSUME UNCHANGED vars PROVE pc' = pc
    BY <2>1, Zenon DEF vars
  <2> QED
    BY <1>1, <2>1, WorkerLeaves
<1>2. ASSUME NEW g \in Handle, Start(g) PROVE worker = "done" \/ (panicked /\ pc[h] = "send")
  <2>1. pc'[h] = pc[h] \/ (g = h /\ pc[h] = "idle") \/ pc'[h] = "idle"
    BY <1>2, <1>a DEF Start, Log, Ask, Begin, Stats, Shutdown, StartShutdown, Query, DropStart,
                      Clone, Enter, Goto, LocalsOK
  <2> QED
    BY <1>a, <2>1 DEF DropInv
<1>3. ASSUME NEW g \in Handle, Continue(g) PROVE worker = "done" \/ (panicked /\ pc[h] = "send")
  <2>1. g = h
    BY <1>3, <1>a DEF Continue, Recheck, SendOk, TrySendFull, SendDisconnected, Receive,
       QueryReturn, Lock, Join, DropJoin, Release, Goto, Return, LocalsOK
  <2>2. ASSUME Recheck(h) \/ TrySendFull(h) \/ QueryReturn(h) PROVE FALSE
    BY <2>2, <1>a DEF Recheck, TrySendFull, QueryReturn, DropInv
  <2>3. ASSUME SendOk(h) \/ Lock(h) \/ Release(h) PROVE FALSE
    BY <2>3, <1>a DEF SendOk, Lock, Release, Goto, LocalsOK, Closing
  <2>4. ASSUME SendDisconnected(h) PROVE panicked /\ pc[h] = "send"
    BY <2>4, <1>a, <1>b DEF SendDisconnected, DropInv
  <2>5. ASSUME Receive(h) PROVE FALSE
    BY <2>5, <1>a DEF Receive, Goto, LocalsOK, Closing
  <2>6. ASSUME Join(h) \/ DropJoin(h) PROVE worker = "done"
    BY <2>6, Zenon DEF Join, DropJoin, Joined
  <2> QED
    BY <1>3, <2>1, <2>2, <2>3, <2>4, <2>5, <2>6 DEF Continue
<1> QED
  BY <1>1, <1>2, <1>3 DEF Next

\* A drop that goes straight to the release is not the last, or has nothing
\* to join.
LEMMA DropBegins ==
    ASSUME LocalsOK, CountersOK, Joined, [Next]_vars, SoleOwner,
           NEW h \in dropping', h \notin dropping, pc'[h] = "release"
    PROVE  worker = "done"
<1>1. dropping' # dropping /\ h \in dropping'
  BY Zenon
<1>2. ~(WorkerStep \/ AutoFlush \/ UNCHANGED vars)
  <2>1. ASSUME UNCHANGED vars PROVE FALSE
    <3>1. dropping' = dropping
      BY <2>1, Zenon DEF vars
    <3> QED
      BY <1>1, <3>1
  <2>2. ASSUME WorkerStep \/ AutoFlush PROVE FALSE
    BY <1>1, <2>2, WorkerLeaves
  <2> QED
    BY <2>1, <2>2
<1>3. PICK g \in Handle : Start(g) \/ Continue(g)
  BY <1>2, Zenon DEF Next
<1>4. ~Continue(g)
  BY <1>1, Zenon DEF Continue, Recheck, SendOk, TrySendFull, SendDisconnected, Receive,
     QueryReturn, Lock, Join, DropJoin, Release
<1>5. DropStart(g)
  BY <1>1, <1>3, <1>4, Zenon DEF Start, Log, Ask, Stats, Shutdown, Query, Clone
<1>6. g = h
  BY <1>1, <1>5 DEF DropStart
<1>7. ASSUME join PROVE FALSE
  BY <1>5, <1>6, <1>7 DEF DropStart, StartShutdown, Enter, Goto, LocalsOK, CountersOK
<1> QED
  BY <1>7, Zenon DEF Joined

LEMMA DropAlways == Spec => []DropInv
<1>1. ASSUME DropInv, UNCHANGED vars PROVE DropInv'
  <2>1. UNCHANGED <<queue, pc, call, dropping, worker>>
    BY <1>1, Zenon DEF vars
  <2>2. (shutdown => shutdown') /\ (panicked => panicked')
    BY <1>1, Zenon DEF vars
  <2> QED
    BY <1>1, <2>1, <2>2 DEF DropInv, Closing
<1>2. TypeOK /\ LateInv /\ BarrierInv /\ DropInv /\ [Next]_vars => DropInv'
  BY <1>1, CallerDrops, WorkerDrops DEF Next, BarrierInv
<1> QED
  BY <1>2, InitDrop, TypeCorrect, LateAlways, BarrierAlways, PTL DEF Spec

(***************************************************************************)
(* However many clones are dropped in whatever order, the one that sees    *)
(* itself as the last does not come back before the worker has ended, even *)
(* by a panic, unless its own shutdown met a worker that had panicked.     *)
(***************************************************************************)
THEOREM SoleDropWaitsHolds == Spec => SoleDropWaits
<1>1. PlaceInv /\ DropInv /\ [Next]_vars =>
          [\A h \in dropping' :
              SoleOwner /\ pc[h] # "release" /\ pc'[h] = "release"
                  => worker = "done" \/ (panicked /\ pc[h] = "send")]_vars
  <2> SUFFICES ASSUME PlaceInv, DropInv, [Next]_vars, NEW h \in dropping', SoleOwner,
                      pc[h] # "release", pc'[h] = "release"
               PROVE  worker = "done" \/ (panicked /\ pc[h] = "send")
    BY Zenon
  <2>1. CASE h \in dropping
    BY <2>1, LastDropWaits DEF PlaceInv
  <2>2. CASE h \notin dropping
    <3>1. TypeOK /\ Joined
      BY DEF PlaceInv
    <3>2. LocalsOK /\ CountersOK
      BY <3>1 DEF TypeOK
    <3> QED
      BY <2>2, <3>1, <3>2, DropBegins
  <2> QED
    BY <2>1, <2>2
<1> QED
  BY <1>1, DropAlways, PlaceAlways, PTL DEF Spec, SoleDropWaits

----------------------------------------------------------------------------
(* Who is left waiting.                                                    *)

\* A request that only the worker's own end can leave unanswered.
Plain(c) == c.kind \notin {"write", "shutdown"}

(***************************************************************************)
(* ReplyPending is not inductive by itself.  It is because every request   *)
(* behind a Shutdown command in the queue overtook the check of the flag,  *)
(* and so did every one still queued when the worker has left its loop:    *)
(* the only Shutdown command is the one it left the loop for.              *)
(***************************************************************************)
Overtaken ==
    /\ \A i, j \in DOMAIN queue :
          i < j /\ queue[i].kind = "shutdown" /\ Plain(queue[j])
              => queue[j].from \in overtook
    /\ worker \in Ending /\ ~panicked =>
          \A i \in DOMAIN queue : Plain(queue[i]) => queue[i].from \in overtook

ReplyInv == Overtaken /\ ReplyPending

LEMMA InitReply == Init => ReplyInv
  BY DEF Init, ReplyInv, Overtaken, ReplyPending

LEMMA SendReply ==
    ASSUME TypeOK, LateInv, ReplyInv, NEW h \in Handle, SendOk(h)
    PROVE  ReplyInv'
<1>a. LocalsOK /\ ChannelOK
  BY DEF TypeOK
<1>1. /\ queue' = Append(queue, call[h]) /\ call[h] \in Command /\ call[h].from = h
      /\ UNCHANGED <<shutdown, handles, receiver, worker, job>>
      /\ receiver
  BY <1>a DEF SendOk, LocalsOK
<1>2. /\ \A i \in DOMAIN queue' : \/ (i \in DOMAIN queue /\ queue'[i] = queue[i])
                                 \/ (i = Len(queue) + 1 /\ queue'[i] = call[h])
      /\ \A i \in DOMAIN queue : i \in DOMAIN queue' /\ queue'[i] = queue[i]
      /\ Len(queue) + 1 \in DOMAIN queue' /\ queue'[Len(queue) + 1] = call[h]
      /\ \A i, j \in DOMAIN queue' : i < j => i \in DOMAIN queue
  <2>1. queue \in Seq(Command)
    BY <1>a DEF ChannelOK
  <2> QED
    BY <1>1, <2>1
<1>3. overtook \subseteq overtook' /\ (shutdown /\ Plain(call[h]) => h \in overtook')
  BY Zenon DEF SendOk, Plain
<1>4. (panicked' => panicked) /\ (panicked => panicked')
  BY Zenon DEF SendOk
<1>5. worker \in Ending /\ ~panicked => shutdown
  <2>1. h \in handles
    BY DEF SendOk, LateInv, CallersHold
  <2> QED
    BY <2>1 DEF LateInv
<1>6. Overtaken'
  <2>1. ASSUME NEW i \in DOMAIN queue', NEW j \in DOMAIN queue', i < j,
               queue'[i].kind = "shutdown", Plain(queue'[j])
        PROVE  queue'[j].from \in overtook'
    <3>1. i \in DOMAIN queue /\ queue'[i] = queue[i]
      BY <1>2, <2>1
    <3>2. CASE j \in DOMAIN queue /\ queue'[j] = queue[j]
      BY <1>3, <2>1, <3>1, <3>2 DEF ReplyInv, Overtaken
    <3>3. CASE queue'[j] = call[h]
      BY <1>1, <1>3, <2>1, <3>1, <3>3 DEF LateInv
    <3> QED
      BY <1>2, <3>2, <3>3
  <2>2. ASSUME worker' \in Ending, ~panicked', NEW i \in DOMAIN queue', Plain(queue'[i])
        PROVE  queue'[i].from \in overtook'
    <3>1. CASE i \in DOMAIN queue /\ queue'[i] = queue[i]
      BY <1>1, <1>3, <1>4, <2>2, <3>1 DEF ReplyInv, Overtaken
    <3>2. CASE queue'[i] = call[h]
      BY <1>1, <1>3, <1>4, <1>5, <2>2, <3>2
    <3> QED
      BY <1>2, <3>1, <3>2
  <2> QED
    BY <2>1, <2>2 DEF Overtaken, Plain
<1>7. ASSUME NEW g \in Handle, pc'[g] = "wait", reply'[g] = "none"
      PROVE  InQueue(g)' \/ InHand(g)'
  <2>1. CASE g = h
    <3>1. call[h].kind # "write"
      BY <1>7, <1>a, <2>1 DEF SendOk, Return, LocalsOK
    <3> QED
      BY <1>1, <1>2, <2>1, <3>1 DEF InQueue
  <2>2. CASE g # h
    <3>1. pc[g] = "wait" /\ reply[g] = "none"
      BY <1>7, <1>a, <2>2 DEF SendOk, Return, Goto, LocalsOK
    <3>2. InQueue(g) \/ InHand(g)
      BY <1>1, <3>1 DEF ReplyInv, ReplyPending, Stranded
    <3> QED
      BY <1>1, <1>2, <3>2 DEF InQueue, InHand
  <2> QED
    BY <2>1, <2>2
<1> QED
  BY <1>6, <1>7 DEF ReplyInv, ReplyPending

\* A caller is where it was, or does not wait any more.
LEMMA CallerReply ==
    ASSUME TypeOK, ReplyInv, NEW h \in Handle, Start(h) \/ Continue(h), ~SendOk(h)
    PROVE  ReplyInv'
<1>1. /\ UNCHANGED <<queue, overtook, receiver, worker, job, panicked>>
  BY CallerLeaves DEF work
<1>2. (panicked' <=> panicked) /\ (receiver' <=> receiver)
  BY <1>1, Zenon
<1>3. ASSUME NEW g \in Handle, pc'[g] = "wait", reply'[g] = "none"
      PROVE  pc[g] = "wait" /\ reply[g] = "none"
  BY <1>3 DEF TypeOK, LocalsOK, Start, Continue, Log, Ask, Stats, Shutdown, StartShutdown,
         Query, DropStart, Clone, Recheck, TrySendFull, SendDisconnected,
         Receive, QueryReturn, Lock, Join, DropJoin, Release, Begin, Enter, Goto, Return
<1>4. Overtaken'
  BY <1>1, <1>2 DEF ReplyInv, Overtaken, Plain
<1>5. ReplyPending'
  BY <1>1, <1>2, <1>3 DEF ReplyInv, ReplyPending, InQueue, InHand, Stranded
<1> QED
  BY <1>4, <1>5 DEF ReplyInv

LEMMA WorkerReply ==
    ASSUME TypeOK, Stages, DropInv, ReplyInv, WorkerStep \/ AutoFlush
    PROVE  ReplyInv'
<1>a. LocalsOK /\ ChannelOK /\ WorkOK /\ Overtaken
  BY DEF TypeOK, ReplyInv
<1>b. UNCHANGED <<pc, overtook>>
  BY WorkerLeaves
<1>c. \A g \in Handle : reply'[g] = "none" => reply[g] = "none"
  BY <1>a DEF WorkerStep, AutoFlush, Recv, RecvDisconnected, WriteOk, WriteErr,
         WritePanic, Serve, Finalize, DropReceiver, Exit, Reply, LocalsOK
<1>d. panicked => panicked'
  <2>1. UNCHANGED panicked \/ panicked'
    BY Zenon DEF WorkerStep, Recv, RecvDisconnected, WriteOk, WriteErr, WritePanic, Serve,
           Finalize, DropReceiver, Exit, AutoFlush
  <2> QED
    BY <2>1, Zenon
<1>e. receiver' => receiver
  <2>1. UNCHANGED receiver \/ ~receiver'
    BY Zenon DEF WorkerStep, Recv, RecvDisconnected, WriteOk, WriteErr, WritePanic, Serve,
           Finalize, DropReceiver, Exit, AutoFlush
  <2> QED
    BY <2>1, Zenon
\* Who was stranded stays so, and others were waiting for the worker.
<1> DEFINE Waits(g) == pc[g] = "wait" /\ reply'[g] = "none"
<1>0. ASSUME Overtaken',
             \A g \in Handle : Waits(g) /\ (InQueue(g) \/ InHand(g))
                 => InQueue(g)' \/ InHand(g)' \/ Stranded(g)'
      PROVE  ReplyInv'
  <2>1. ASSUME NEW g \in Handle, pc'[g] = "wait", reply'[g] = "none"
        PROVE  InQueue(g)' \/ InHand(g)' \/ Stranded(g)'
    <3>1. Waits(g) /\ reply[g] = "none"
      BY <1>b, <1>c, <2>1
    <3>2. CASE InQueue(g) \/ InHand(g)
      BY <1>0, <3>1, <3>2
    <3>3. CASE Stranded(g)
      BY <1>b, <1>d, <1>e, <2>1, <3>3, Zenon DEF Stranded
    <3> QED
      BY <3>1, <3>2, <3>3 DEF ReplyInv, ReplyPending
  <2> QED
    BY <1>0, <2>1 DEF ReplyInv, ReplyPending
<1> HIDE DEF Waits
<1>1. CASE Recv
  <2>1. /\ queue # <<>> /\ queue' = Tail(queue) /\ job' = Head(queue) /\ worker = "recv"
    BY <1>1 DEF Recv
  <2>2. /\ 1 \in DOMAIN queue /\ Head(queue) = queue[1]
        /\ \A i \in DOMAIN queue' :
              i + 1 \in DOMAIN queue /\ 1 < i + 1 /\ queue'[i] = queue[i + 1]
        /\ \A i \in DOMAIN queue : i # 1 =>
              i - 1 \in DOMAIN queue' /\ queue'[i - 1] = queue[i]
        /\ \A i, j \in DOMAIN queue' : i < j => i + 1 < j + 1
    BY <1>a, <2>1 DEF ChannelOK
  <2>3. worker' \in Ending => queue[1].kind = "shutdown"
    BY <1>1, <2>2 DEF Recv, Ending
  <2>4. Overtaken'
    <3>1. ASSUME NEW i \in DOMAIN queue', NEW j \in DOMAIN queue', i < j,
                 queue'[i].kind = "shutdown", Plain(queue'[j])
          PROVE  queue'[j].from \in overtook'
      BY <1>a, <1>b, <2>2, <3>1 DEF Overtaken
    <3>2. ASSUME worker' \in Ending, NEW i \in DOMAIN queue', Plain(queue'[i])
          PROVE  queue'[i].from \in overtook'
      BY <1>a, <1>b, <2>2, <2>3, <3>2 DEF Overtaken
    <3> QED
      BY <3>1, <3>2 DEF Overtaken, Plain
  <2>5. ASSUME NEW g \in Handle, InQueue(g) \/ InHand(g)
        PROVE  InQueue(g)' \/ InHand(g)'
    <3>1. PICK i \in DOMAIN queue : queue[i].from = g /\ queue[i].kind # "write"
      BY <2>1, <2>5 DEF InQueue, InHand
    <3>2. CASE i = 1
      <4>1. job'.from = g /\ job'.kind # "write"
        BY <2>1, <2>2, <3>1, <3>2
      <4>2. worker' = "serve" \/ (worker' = "finalize" /\ job'.kind = "shutdown")
        BY <1>1, <4>1 DEF Recv
      <4> QED
        BY <4>1, <4>2 DEF InHand
    <3>3. CASE i # 1
      BY <2>2, <3>1, <3>3 DEF InQueue
    <3> QED
      BY <3>2, <3>3
  <2> QED
    BY <1>0, <2>4, <2>5
<1>2. CASE RecvDisconnected
  <2>1. queue' = queue /\ queue = <<>> /\ worker = "recv"
    BY <1>2 DEF RecvDisconnected
  <2>2. DOMAIN queue = {}
    BY <2>1
  <2>3. Overtaken'
    BY <2>1, <2>2 DEF Overtaken
  <2>4. \A g : ~InQueue(g) /\ ~InHand(g)
    BY <2>1, <2>2 DEF InQueue, InHand
  <2> QED
    BY <1>0, <2>3, <2>4
<1>3. CASE WriteOk \/ WriteErr \/ AutoFlush
  <2>1. queue' = queue /\ worker \in {"recv", "write"} /\ worker' \notin Ending
    BY <1>3 DEF WriteOk, WriteErr, AutoFlush, Ending
  <2>2. Overtaken'
    BY <1>a, <1>b, <2>1 DEF Overtaken, Plain
  <2> QED
    BY <1>0, <2>1, <2>2 DEF InQueue, InHand
<1>4. CASE WritePanic
  <2>1. queue' = queue /\ worker = "write"
    BY <1>4 DEF WritePanic
  <2>2. panicked'
    BY <1>4, Zenon DEF WritePanic
  <2>3. Overtaken'
    BY <1>a, <1>b, <2>1, <2>2 DEF Overtaken, Plain
  <2> QED
    BY <1>0, <2>1, <2>3 DEF InQueue, InHand
<1>5. CASE Serve
  <2>1. queue' = queue /\ worker = "serve" /\ worker' \notin Ending
        /\ (Reply("ok") \/ Reply("ioError"))
    BY <1>5 DEF Serve, Ending
  <2>2. Overtaken'
    BY <1>a, <1>b, <2>1 DEF Overtaken, Plain
  <2>3. \A g \in Handle : Waits(g) => g # job.from
    BY <1>a, <2>1 DEF Waits, Reply, LocalsOK
  <2> QED
    BY <1>0, <2>1, <2>2, <2>3 DEF InQueue, InHand
<1>6. CASE Finalize
  <2>1. /\ queue' = queue /\ worker \in Ending /\ worker = "finalize"
        /\ job.kind = "shutdown" => Reply("ok")
    BY <1>6 DEF Finalize, Ending
  <2>2. Overtaken'
    <3>1. UNCHANGED panicked
      BY <1>6, Zenon DEF Finalize
    <3> QED
      BY <1>a, <1>b, <2>1, <3>1 DEF Overtaken, Plain, WorkOK, TypeOK
  <2>3. \A g \in Handle : Waits(g) => g # job.from \/ job.kind # "shutdown"
    BY <1>a, <2>1 DEF Waits, Reply, LocalsOK
  <2> QED
    BY <1>0, <2>1, <2>2, <2>3 DEF InQueue, InHand
<1>7. CASE DropReceiver
  <2>1. queue' = <<>> /\ worker = "close" /\ worker \in Ending /\ reply' = reply
    BY <1>7 DEF DropReceiver, Ending
  <2>2. Overtaken'
    BY <2>1 DEF Overtaken
  <2>3. ~receiver'
    BY <1>7, Zenon DEF DropReceiver
  <2>4. ASSUME NEW g \in Handle, Waits(g), InQueue(g) \/ InHand(g)
        PROVE  Stranded(g)'
    <3>1. PICK i \in DOMAIN queue : queue[i].from = g /\ queue[i].kind # "write"
      BY <2>1, <2>4 DEF InQueue, InHand
    <3>2. panicked \/ g \in overtook
      BY <1>a, <2>1, <3>1 DEF Overtaken, DropInv, Plain
    <3>3. panicked' \/ g \in overtook'
      BY <1>b, <1>d, <3>2
    <3>4. pc'[g] = "wait" /\ reply'[g] = "none"
      BY <1>b, <2>4 DEF Waits
    <3> QED
      BY <2>3, <3>3, <3>4, Zenon DEF Stranded
  <2> QED
    BY <1>0, <2>2, <2>4
<1>8. CASE Exit
  <2>1. queue' = queue /\ worker = "exit" /\ worker \in Ending
    BY <1>8 DEF Exit, Ending
  <2>2. Overtaken'
    <3>1. UNCHANGED panicked
      BY <1>8, Zenon DEF Exit
    <3> QED
      BY <1>a, <1>b, <2>1, <3>1 DEF Overtaken, Plain, WorkOK, TypeOK
  <2> QED
    BY <1>0, <2>1, <2>2 DEF InQueue, InHand
<1> QED
  BY <1>1, <1>2, <1>3, <1>4, <1>5, <1>6, <1>7, <1>8 DEF WorkerStep

(***************************************************************************)
(* For any number of threads and any queue: a caller that waits for a      *)
(* reply has its request in the queue, in the worker's hands or answered,  *)
(* unless the worker panicked or the request overtook the check of the     *)
(* flag; an orderly shutdown strands nobody else.                          *)
(***************************************************************************)
THEOREM ReplyPendingHolds == Spec => []ReplyPending
<1>1. ASSUME ReplyInv, UNCHANGED vars PROVE ReplyInv'
  <2>1. UNCHANGED <<queue, pc, reply, overtook, worker, job>>
    BY <1>1, Zenon DEF vars
  <2>2. (panicked' <=> panicked) /\ (receiver' <=> receiver)
    BY <1>1, Zenon DEF vars
  <2> QED
    BY <1>1, <2>1, <2>2 DEF ReplyInv, Overtaken, Plain, ReplyPending, InQueue, InHand, Stranded
<1>2. TypeOK /\ LateInv /\ Stages /\ DropInv /\ ReplyInv /\ [Next]_vars => ReplyInv'
  BY <1>1, SendReply, CallerReply, WorkerReply DEF Next, Continue
<1>3. ReplyInv => ReplyPending
  BY DEF ReplyInv
<1>4. PlaceInv => Stages
  BY DEF PlaceInv
<1> QED
  BY <1>2, <1>3, <1>4, InitReply, TypeCorrect, LateAlways, PlaceAlways, DropAlways, PTL
     DEF Spec

----------------------------------------------------------------------------
(* The automatic flush.  The bounds of FlushTimer, which looks at the      *)
(* worker's clocks alone, hold for every interval, buffer and number of    *)
(* failures.                                                               *)

USE TimerAssumption DEF TimerAssumption

(***************************************************************************)
(* While something is buffered the flag is set; until the deadline passes  *)
(* the time since the last write is what the deadline has run down; from   *)
(* then on the next look at it is at most `wait' ticks away, and each      *)
(* failure has cost at most one interval.                                  *)
(***************************************************************************)
Clock ==
    held > 0 =>
        /\ dirty
        /\ deadline > 0 => quiet = Interval - deadline
        /\ deadline = 0 => quiet + wait < 2 * Interval + faults * Interval

(***************************************************************************)
(* The clocks, the buffer and the counters keep to their ranges.  (The     *)
(* flag is Boolean by logic, the other variables by arithmetic.)           *)
(***************************************************************************)
THEOREM TimerTypeCorrect ==
    TimerSpec => []TimerTypeOK
<1> DEFINE Numbers ==
      /\ wait \in 0..Interval
      /\ deadline \in 0..Interval
      /\ held \in 0..BufferRecords
      /\ faults \in 0..MaxFaults
      /\ age \in 0..MaxTime
      /\ quiet \in 0..MaxTime
<1>1. TimerInit => TimerTypeOK
  <2>1. TimerInit => Numbers
    BY DEF TimerInit
  <2>2. TimerInit => dirty \in BOOLEAN
    BY Zenon DEF TimerInit
  <2> QED
    BY <2>1, <2>2 DEF TimerTypeOK
<1>2. TimerTypeOK /\ [TimerNext]_timerVars => TimerTypeOK'
  <2> SUFFICES ASSUME Numbers, dirty \in BOOLEAN, [TimerNext]_timerVars
               PROVE  Numbers' /\ dirty' \in BOOLEAN
    BY DEF TimerTypeOK
  <2>1. Numbers'
    <3>1. CASE Write
      BY <3>1 DEF Write
    <3>2. CASE Flush
      BY <3>2 DEF Flush, FlushOk, FlushErr
    <3>3. CASE AskStats \/ Timeout
      BY <3>3 DEF AskStats, Timeout, FlushIfDue,
           FlushOk, FlushErr
    <3>4. CASE Tick
      BY <3>4 DEF Tick
    <3>5. CASE UNCHANGED timerVars
      BY <3>5 DEF timerVars
    <3> QED
      BY <3>1, <3>2, <3>3, <3>4, <3>5 DEF TimerNext
  <2>2. dirty' \in BOOLEAN
    BY Zenon DEF TimerNext, Write, Flush, AskStats,
         Timeout, Tick, FlushIfDue, FlushOk,
                 FlushErr, timerVars
  <2> QED
    BY <2>1, <2>2
<1> QED
  BY <1>1, <1>2, PTL DEF TimerSpec

\* One more failure adds one interval to the allowance.
LEMMA OneMoreFault ==
    ASSUME NEW f \in Nat
    PROVE  (f + 1) * Interval = f * Interval + Interval /\ f * Interval \in Nat
  OBVIOUS

\* Every step keeps the clocks in step.
LEMMA ClockInductive ==
    TimerTypeOK /\ Clock /\ [TimerNext]_timerVars => Clock'
<1> SUFFICES ASSUME TimerTypeOK, Clock, [TimerNext]_timerVars PROVE Clock'
  OBVIOUS
<1> USE DEF TimerTypeOK, Clock
<1>0. /\ faults * Interval \in Nat
      /\ (faults + 1) * Interval = faults * Interval + Interval
  BY OneMoreFault
<1> DEFINE f == faults * Interval
<1>1. CASE Write
  BY <1>0, <1>1 DEF Write
<1>2. ASSUME FlushErr, wait' = Interval, UNCHANGED quiet
      PROVE  Clock'
  BY <1>0, <1>2 DEF FlushErr
<1>3. CASE Flush
  BY <1>2, <1>3 DEF Flush, FlushOk
<1>4. ASSUME FlushIfDue, wait' = Interval, UNCHANGED quiet
      PROVE  Clock'
  <2>1. CASE dirty /\ deadline = 0
    BY <1>2, <1>4, <2>1 DEF FlushIfDue, FlushOk
  <2>2. CASE ~(dirty /\ deadline = 0)
    BY <1>4, <2>2 DEF FlushIfDue
  <2> QED
    BY <2>1, <2>2
<1>5. CASE AskStats
  BY <1>4, <1>5 DEF AskStats
<1>6. CASE Timeout
  BY <1>4, <1>6 DEF Timeout
<1>7. CASE Tick
  BY <1>0, <1>7 DEF Tick
<1>8. CASE UNCHANGED timerVars
  BY <1>8 DEF timerVars
<1> QED
  BY <1>1, <1>3, <1>5, <1>6, <1>7, <1>8 DEF TimerNext

(***************************************************************************)
(* Once writes stop, the buffer is flushed in less than two intervals and  *)
(* one more for each flush that failed.                                    *)
(***************************************************************************)
THEOREM QuietFlushedHolds ==
    TimerSpec => []QuietFlushed
<1>1. TimerInit => Clock
  BY DEF TimerInit, Clock
<1>2. TimerTypeOK /\ Clock => QuietFlushed
  <2> SUFFICES ASSUME TimerTypeOK, Clock, held > 0
               PROVE  quiet < (2 + faults) * Interval
    BY DEF QuietFlushed
  <2>1. faults * Interval \in Nat
    BY OneMoreFault DEF TimerTypeOK
  <2>2. (2 + faults) * Interval = 2 * Interval + faults * Interval
    BY DEF TimerTypeOK
  <2> QED
    BY <2>1, <2>2 DEF TimerTypeOK, Clock
<1> QED
  BY <1>1, <1>2, ClockInductive, TimerTypeCorrect, PTL DEF TimerSpec

(***************************************************************************)
(* Each of the buffered records but the newest has waited for one write to *)
(* follow it, which happens in less than two intervals, and then together  *)
(* they have waited since the last write.                                  *)
(***************************************************************************)
Waiting ==
    /\ held = 0 => age = 0
    /\ faults = 0 /\ held > 0
          => age <= (held - 1) * (2 * Interval - 1) + quiet

LEMMA WaitingInductive ==
    TimerTypeOK /\ Clock /\ Waiting /\ [TimerNext]_timerVars => Waiting'
<1> SUFFICES ASSUME TimerTypeOK, Clock, Waiting, [TimerNext]_timerVars PROVE Waiting'
  OBVIOUS
<1> DEFINE slack == 2 * Interval - 1
<1> USE DEF TimerTypeOK, Clock
<1>1. CASE Write
  <2>1. CASE held = 0
    BY <1>1, <2>1 DEF Write, Waiting
  <2>2. CASE held > 0 /\ faults = 0
    <3>1. quiet <= slack
      BY <2>2
    <3>2. age <= (held - 1) * slack + slack
      BY <2>2, <3>1 DEF Waiting
    <3>3. (held - 1) * slack + slack = held * slack
      OBVIOUS
    <3> QED
      BY <1>1, <2>2, <3>2, <3>3 DEF Write, Waiting
  <2> QED
    BY <1>1, <2>1, <2>2 DEF Write, Waiting
<1>2. CASE Flush
  BY <1>2 DEF Flush, FlushOk, FlushErr, Waiting
<1>3. CASE AskStats \/ Timeout
  BY <1>3 DEF AskStats, Timeout, FlushIfDue,
       FlushOk, FlushErr, Waiting
<1>4. CASE Tick
  BY <1>4 DEF Tick, Waiting
<1>5. CASE UNCHANGED timerVars
  BY <1>5 DEF timerVars, Waiting
<1> QED
  BY <1>1, <1>2, <1>3, <1>4, <1>5 DEF TimerNext

(***************************************************************************)
(* Under a steady stream of writes a record stays in memory for at most    *)
(* just under two intervals per record the buffer holds.                   *)
(***************************************************************************)
THEOREM AgeBoundedHolds ==
    TimerSpec => []AgeBounded
<1>1. TimerInit => Clock /\ Waiting
  BY DEF TimerInit, Clock, Waiting
<1>2. TimerTypeOK /\ Clock /\ Waiting => AgeBounded
  <2> SUFFICES ASSUME TimerTypeOK, Clock, Waiting, faults = 0
               PROVE  age <= BufferRecords * (2 * Interval - 1)
    BY DEF AgeBounded
  <2> DEFINE slack == 2 * Interval - 1
  <2> USE DEF TimerTypeOK, Clock, Waiting
  <2>1. slack \in Nat /\ BufferRecords * slack \in Nat
    OBVIOUS
  <2>2. CASE held = 0
    BY <2>1, <2>2
  <2>3. CASE held > 0
    <3>1. age <= (held - 1) * slack + slack
      BY <2>3
    <3>2. (held - 1) * slack + slack = held * slack
      OBVIOUS
    <3>3. held * slack <= BufferRecords * slack
      <4> HIDE DEF slack
      <4> QED
        BY <2>1
    <3> QED
      BY <3>1, <3>2, <3>3, <2>1
  <2> QED
    BY <2>2, <2>3
<1> QED
  BY <1>1, <1>2, ClockInductive, WaitingInductive, TimerTypeCorrect, PTL DEF TimerSpec
=============================================================================
