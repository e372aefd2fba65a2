------------------------------ MODULE LogFile ------------------------------
(***************************************************************************)
(* The file side of the FileLogger worker: WorkerState, rotate_files and   *)
(* open_log_file of splunk_file_logger.rs, one step per file-system call,  *)
(* so that a call may fail or the process may die between any two of them. *)
(* The commands arrive in any order; FileLogger models where from.         *)
(*                                                                         *)
(* A record is its number in the order of arrival; a file is the sequence  *)
(* of the records in it.  Slot 0 is the base path, slot k the path with    *)
(* the suffix ".k" of rotated_path.                                        *)
(***************************************************************************)
EXTENDS Integers, Sequences, SequencesExt

CONSTANTS
    Configs,     \* the FileLoggerConfig values to consider, each with the
                 \*   lengths in bytes of the records it is tried with
    MaxFiles,    \* the largest max_rotate_files in Configs
    MaxRecords,  \* bound: records submitted
    MaxBatch,    \* bound: records in one WriteBatch
    MaxFaults,   \* bound: file-system calls that fail
    MaxRestarts  \* bound: loggers opened on the path after the first

Record == 1..MaxRecords
Slot == 0..MaxFiles

ASSUME BoundsAssumption ==
    /\ MaxFiles \in Nat
    /\ MaxRecords \in Nat
    /\ MaxBatch \in Nat
    /\ MaxFaults \in Nat
    /\ MaxRestarts \in Nat

(***************************************************************************)
(* A record may have any length, that of the BufWriter's capacity or more  *)
(* included.  rotateSizeBytes = 0 stands for None as well, both switch     *)
(* rotation off.                                                           *)
(***************************************************************************)
ASSUME ConfigsAssumption ==
    \A c \in Configs :
        /\ c.bufferSize \in Nat
        /\ c.rotateSizeBytes \in Nat
        /\ c.maxRotateFiles \in Slot
        /\ c.length \in [Record -> Nat]

VARIABLES
    config,       \* WorkerState.config, fixed when the logger is created
    names,        \* the slots whose path exists
    content,      \* the records in each slot; a missing file holds none
    torn,         \* bytes of records that are only partly in the base file
    writer,       \* WorkerState.writer is Some
    buffer,       \* the records in the BufWriter
    currentSize,  \* WorkerState.current_size
    missed,       \* history: bytes of failed writes it does not count
    dirty,        \* WorkerState.dirty
    lastError,    \* WorkerState.stats.last_error is Some
    batch,        \* records of the current command not yet written
    pc,           \* where the worker is
    index,        \* the loop variable of rotate_files
    rotatedOk,    \* rotation_result.is_ok()
    submitted,    \* number of records received so far
    faults,       \* number of failed calls so far
    restarts,     \* number of restarts so far
    stored,       \* history: records handed to the OS, in that order
    refused,      \* history: records given up after an I/O error
    perished      \* history: records in memory when the worker died

disk == <<names, content, torn>>
state == <<writer, buffer, currentSize, missed, dirty>>
control == <<batch, pc, index, rotatedOk>>
history == <<stored, refused, perished>>
bounds == <<submitted, faults, restarts>>
vars == <<config, disk, state, lastError, control, history, bounds>>

Gone == {"down", "closed", "panicked"}
Rotating == {"remove", "rename", "reopen"}
Busy == {"write", "append", "flush", "exit"} \cup Rotating

\* What a sequence of records takes, given the length of each.
Size(length, s) ==
    LET upTo[n \in 0..Len(s)] == IF n = 0 THEN 0 ELSE upTo[n - 1] + length[s[n]]
    IN  upTo[Len(s)]

Bytes(s) == Size(config.length, s)

Init ==
    /\ config \in Configs
    /\ names = {0}
    /\ content = [s \in Slot |-> <<>>]
    /\ torn = 0
    /\ writer = TRUE
    /\ buffer = <<>>
    /\ currentSize = 0
    /\ missed = 0
    /\ dirty = FALSE
    /\ lastError = FALSE
    /\ batch = <<>>
    /\ pc = "idle"
    /\ index = 0
    /\ rotatedOk = TRUE
    /\ submitted = 0
    /\ faults = 0
    /\ restarts = 0
    /\ stored = <<>>
    /\ refused = {}
    /\ perished = {}

----------------------------------------------------------------------------
(* Steps shared by the actions.                                            *)

Fault ==
    /\ faults < MaxFaults
    /\ faults' = faults + 1
    /\ UNCHANGED <<submitted, restarts>>

\* BufWriter::flush_buf: the oldest k buffered records reach the base file.
\* (A part of the next may as well; the rest of it stays in the buffer and
\* follows with the next flush, unless there is none, see Exit and Crash.)
Drain(k) ==
    /\ content' = [content EXCEPT ![0] = @ \o SubSeq(buffer, 1, k)]
    /\ stored' = stored \o SubSeq(buffer, 1, k)
    /\ buffer' = SubSeq(buffer, k + 1, Len(buffer))
    /\ UNCHANGED <<names, torn>>

\* What a write that is cut off can leave of one of these records.
Part(records) == {0} \cup UNION {1..(config.length[r] - 1) : r \in records}

\* A `?' of handle_write, handle_batch or rotate returns to worker_loop,
\* which records the error; the rest of the command's records are dropped.
GiveUp ==
    /\ refused' = refused \cup ToSet(batch)
    /\ batch' = <<>>
    /\ pc' = "idle"
    /\ lastError' = TRUE
    /\ UNCHANGED <<config, perished>>

----------------------------------------------------------------------------
(* Writing.                                                                *)

\* Command::Write (n = 1) or Command::WriteBatch (never empty).
Submit(n) ==
    /\ pc = "idle"
    /\ submitted + n <= MaxRecords
    /\ batch' = [i \in 1..n |-> submitted + i]
    /\ submitted' = submitted + n
    /\ pc' = "write"
    /\ UNCHANGED <<config, disk, state, lastError, index, rotatedOk, history,
                   faults, restarts>>

\* Mutant of RotationNeeded: it looks at the size before the write.
RotationOverdue(r) ==
    /\ config.rotateSizeBytes > 0
    /\ currentSize > config.rotateSizeBytes

RotationNeeded(r) ==
    /\ config.rotateSizeBytes > 0
    /\ currentSize + config.length[r] > config.rotateSizeBytes

\* handle_write up to rotate_if_needed.
HandleWrite ==
    /\ pc = "write"
    /\ pc' = IF RotationNeeded(Head(batch)) THEN "flush" ELSE "append"
    /\ UNCHANGED <<config, disk, state, lastError, batch, index, rotatedOk,
                   history, bounds>>

\* BufWriter::write_all buffers a record if there is room, after emptying
\* the buffer if there is not; one that is no shorter than the whole buffer
\* goes straight to the file.
Fits(r) == Bytes(buffer) + config.length[r] <= config.bufferSize
Direct(r) == config.length[r] >= config.bufferSize

ToBuffer(r) ==
    /\ ~Direct(r)
    /\ \/ /\ Fits(r)
          /\ buffer' = Append(buffer, r)
          /\ UNCHANGED <<disk, stored>>
       \/ /\ ~Fits(r)
          /\ content' = [content EXCEPT ![0] = @ \o buffer]
          /\ stored' = stored \o buffer
          /\ buffer' = <<r>>
          /\ UNCHANGED <<names, torn>>

\* Mutant of ToFile: the buffer is left for later.
ToFileFirst(r) ==
    /\ Direct(r)
    /\ content' = [content EXCEPT ![0] = Append(@, r)]
    /\ stored' = Append(stored, r)
    /\ UNCHANGED <<names, torn, buffer>>

ToFile(r) ==
    /\ Direct(r)
    /\ content' = [content EXCEPT ![0] = @ \o Append(buffer, r)]
    /\ stored' = stored \o Append(buffer, r)
    /\ buffer' = <<>>
    /\ UNCHANGED <<names, torn>>

\* write_all succeeds.
AppendOk ==
    LET r == Head(batch)
    IN  /\ pc = "append"
        /\ writer
        /\ ToBuffer(r) \/ ToFile(r)
        /\ currentSize' = currentSize + config.length[r]
        /\ dirty' = TRUE
        /\ batch' = Tail(batch)
        /\ pc' = IF Len(batch) = 1 THEN "idle" ELSE "write"
        /\ UNCHANGED <<config, writer, missed, lastError, index, rotatedOk,
                       refused, perished, bounds>>

\* write_all fails while it empties the buffer.
AppendErr ==
    /\ pc = "append"
    /\ writer
    /\ ~Fits(Head(batch))
    /\ Fault
    /\ \E k \in 0..Len(buffer) - 1 : Drain(k)
    /\ GiveUp
    /\ UNCHANGED <<writer, currentSize, missed, dirty, index, rotatedOk>>

\* Mutant of DirectErr: current_size is moved on before the write.
DirectErrCounts ==
    LET r == Head(batch)
    IN  /\ pc = "append"
        /\ writer
        /\ Direct(r)
        /\ Fault
        /\ \E p \in Part({r}) :
              /\ torn' = torn + p
              /\ missed' = missed + p
        /\ content' = [content EXCEPT ![0] = @ \o buffer]
        /\ stored' = stored \o buffer
        /\ buffer' = <<>>
        /\ currentSize' = currentSize + config.length[r]
        /\ GiveUp
        /\ UNCHANGED <<names, writer, dirty, index, rotatedOk>>

\* It fails after that, with part of a long record in the file: the `?' skips
\* the addition to current_size.
DirectErr ==
    LET r == Head(batch)
    IN  /\ pc = "append"
        /\ writer
        /\ Direct(r)
        /\ Fault
        /\ \E p \in Part({r}) :
              /\ torn' = torn + p
              /\ missed' = missed + p
        /\ content' = [content EXCEPT ![0] = @ \o buffer]
        /\ stored' = stored \o buffer
        /\ buffer' = <<>>
        /\ GiveUp
        /\ UNCHANGED <<names, writer, currentSize, dirty, index, rotatedOk>>

\* The panic of handle_write: there is no writer and no rotation was tried.
AppendPanic ==
    /\ pc = "append"
    /\ ~writer
    /\ pc' = "panicked"
    /\ perished' = perished \cup ToSet(batch)
    /\ batch' = <<>>
    /\ UNCHANGED <<config, disk, state, lastError, index, rotatedOk, stored,
                   refused, bounds>>

----------------------------------------------------------------------------
(* Flushing: Command::Flush, Command::Sync and flush_if_due.               *)

FlushOk ==
    /\ pc = "idle"
    /\ writer
    /\ Drain(Len(buffer))
    /\ dirty' = FALSE
    /\ UNCHANGED <<config, writer, currentSize, missed, lastError, control,
                   refused, perished, bounds>>

\* k = Len(buffer) is a sync_all that fails after the buffer was written, in
\* flush (which leaves dirty set) or in sync (after flush has cleared it).
FlushErr ==
    /\ pc = "idle"
    /\ writer
    /\ Fault
    /\ \E k \in 0..Len(buffer) :
          /\ Drain(k)
          /\ dirty' \in {dirty, dirty /\ k < Len(buffer)}
    /\ GiveUp
    /\ UNCHANGED <<writer, currentSize, missed, index, rotatedOk>>

\* "file logger writer unavailable (flush)"
FlushUnavailable ==
    /\ pc = "idle"
    /\ ~writer
    /\ GiveUp
    /\ UNCHANGED <<disk, state, index, rotatedOk, stored, bounds>>

----------------------------------------------------------------------------
(* Rotation: rotate, called by Command::Rotate or by rotate_if_needed.     *)

Rotate ==
    /\ pc = "idle"
    /\ pc' = "flush"
    /\ UNCHANGED <<config, disk, state, lastError, batch, index, rotatedOk,
                   history, bounds>>

RotateFrom(first) ==
    /\ pc = "flush"
    /\ writer
    /\ dirty' = FALSE
    /\ writer' = FALSE
    /\ pc' = "remove"
    /\ index' = first
    /\ rotatedOk' = TRUE
    /\ UNCHANGED <<config, currentSize, missed, lastError, batch, refused,
                   perished, bounds>>

\* Mutants of RotateFlushOk: the old writer is dropped without a flush; the
\* loop over the files starts one too low.
RotateUnflushed ==
    /\ RotateFrom(config.maxRotateFiles)
    /\ buffer' = <<>>
    /\ UNCHANGED <<disk, stored>>
RotateFewer ==
    /\ RotateFrom(IF config.maxRotateFiles > 0 THEN config.maxRotateFiles - 1
                                               ELSE 0)
    /\ Drain(Len(buffer))

\* The flush of rotate succeeds and the old writer is dropped.
RotateFlushOk ==
    /\ RotateFrom(config.maxRotateFiles)
    /\ Drain(Len(buffer))

\* Mutant of RotateFlushErr: rotate takes the writer before it flushes it.
RotateTakesFirst ==
    /\ pc = "flush"
    /\ writer
    /\ Fault
    /\ \E k \in 0..Len(buffer) :
          /\ content' = [content EXCEPT ![0] = @ \o SubSeq(buffer, 1, k)]
          /\ stored' = stored \o SubSeq(buffer, 1, k)
    /\ buffer' = <<>>
    /\ writer' = FALSE
    /\ GiveUp
    /\ UNCHANGED <<names, torn, currentSize, missed, dirty, index, rotatedOk>>

RotateFlushErr ==
    /\ pc = "flush"
    /\ writer
    /\ Fault
    /\ \E k \in 0..Len(buffer) : Drain(k)
    /\ GiveUp
    /\ UNCHANGED <<writer, currentSize, missed, dirty, index, rotatedOk>>

RotateUnavailable ==
    /\ pc = "flush"
    /\ ~writer
    /\ GiveUp
    /\ UNCHANGED <<disk, state, index, rotatedOk, stored, bounds>>

\* rotate_files fails: rotate records the error and goes on to reopen.
RotateFilesErr ==
    /\ Fault
    /\ rotatedOk' = FALSE
    /\ lastError' = TRUE
    /\ pc' = "reopen"
    /\ UNCHANGED <<config, disk, state, batch, index, history>>

\* remove_file of slot `index', which is the base when no file is kept.
RemoveOk ==
    /\ pc = "remove"
    /\ names' = names \ {index}
    /\ content' = [content EXCEPT ![index] = <<>>]
    /\ torn' = IF index = 0 THEN 0 ELSE torn
    /\ pc' = IF index = 0 THEN "reopen" ELSE "rename"
    /\ UNCHANGED <<config, state, lastError, batch, index, rotatedOk, history,
                   bounds>>

RemoveErr ==
    /\ pc = "remove"
    /\ index \in names
    /\ RotateFilesErr

\* rename of slot `index - 1' to slot `index'; a missing source is skipped.
RenameOk ==
    LET src == index - 1
    IN  /\ pc = "rename"
        /\ names' = IF src \in names THEN (names \ {src}) \cup {index}
                                     ELSE names
        /\ content' = [content EXCEPT ![index] = content[src], ![src] = <<>>]
        /\ torn' = IF src = 0 THEN 0 ELSE torn
        /\ index' = src
        /\ pc' = IF src = 0 THEN "reopen" ELSE "remove"
        /\ UNCHANGED <<config, state, lastError, batch, rotatedOk, history,
                       bounds>>

\* Mutant of RenameErr: the loop goes on after a rename that failed.
RenameSkip ==
    /\ pc = "rename"
    /\ index - 1 \in names
    /\ Fault
    /\ index' = index - 1
    /\ pc' = IF index = 1 THEN "reopen" ELSE "remove"
    /\ UNCHANGED <<config, disk, state, lastError, batch, rotatedOk, history>>

RenameErr ==
    /\ pc = "rename"
    /\ index - 1 \in names
    /\ RotateFilesErr

\* Mutant of ReopenFresh: the limit is looked at again after the rotation.
ReopenRecheck ==
    /\ pc = "reopen"
    /\ rotatedOk
    /\ names' = names \cup {0}
    /\ content' = [content EXCEPT ![0] = <<>>]
    /\ torn' = 0
    /\ writer' = TRUE
    /\ currentSize' = 0
    /\ missed' = 0
    /\ dirty' = FALSE
    /\ pc' = IF batch = <<>> THEN "idle" ELSE "write"
    /\ UNCHANGED <<config, buffer, lastError, batch, index, rotatedOk, history,
                   bounds>>

\* open_log_file with truncate after a rotation that succeeded.
ReopenFresh ==
    /\ pc = "reopen"
    /\ rotatedOk
    /\ names' = names \cup {0}
    /\ content' = [content EXCEPT ![0] = <<>>]
    /\ torn' = 0
    /\ writer' = TRUE
    /\ currentSize' = 0
    /\ missed' = 0
    /\ dirty' = FALSE
    /\ pc' = IF batch = <<>> THEN "idle" ELSE "append"
    /\ UNCHANGED <<config, buffer, lastError, batch, index, rotatedOk, history,
                   bounds>>

\* open_log_file in append mode after one that failed: rotate returns the
\* error although the writer is back.
ReopenAppend ==
    /\ pc = "reopen"
    /\ ~rotatedOk
    /\ names' = names \cup {0}
    /\ writer' = TRUE
    /\ currentSize' = Bytes(content[0]) + torn
    /\ missed' = 0
    /\ dirty' = FALSE
    /\ GiveUp
    /\ UNCHANGED <<content, torn, buffer, index, rotatedOk, stored, bounds>>

\* The `?' on open_log_file leaves WorkerState.writer at None.
ReopenErr ==
    /\ pc = "reopen"
    /\ Fault
    /\ GiveUp
    /\ UNCHANGED <<disk, state, index, rotatedOk, stored>>

----------------------------------------------------------------------------
(* The end of a worker, and the next one on the same path.                 *)

\* Command::Shutdown or a disconnected queue: finalize flushes.
FinalizeOk ==
    /\ pc = "idle"
    /\ writer
    /\ Drain(Len(buffer))
    /\ dirty' = FALSE
    /\ pc' = "exit"
    /\ UNCHANGED <<config, writer, currentSize, missed, lastError, batch, index,
                   rotatedOk, refused, perished, bounds>>

FinalizeErr ==
    /\ pc = "idle"
    /\ \/ writer /\ Fault /\ \E k \in 0..Len(buffer) : Drain(k)
       \/ ~writer /\ UNCHANGED <<disk, buffer, stored, bounds>>
    /\ lastError' = TRUE
    /\ pc' = "exit"
    /\ UNCHANGED <<config, writer, currentSize, missed, dirty, batch, index,
                   rotatedOk, refused, perished>>

\* The buffer goes away: k records of it have reached the base file, a part
\* of the record that came next too, and the others perish.
Abandon(k, next) ==
    /\ content' = [content EXCEPT ![0] = @ \o SubSeq(buffer, 1, k)]
    /\ stored' = stored \o SubSeq(buffer, 1, k)
    /\ \E p \in Part(next) : torn' = torn + p
    /\ buffer' = <<>>
    /\ writer' = FALSE

\* The worker's state is dropped, and with it the BufWriter, which tries to
\* write what is left in it and ignores an error.
Exit ==
    /\ pc = "exit"
    /\ \/ /\ Abandon(Len(buffer), {})
          /\ UNCHANGED <<perished, bounds>>
       \/ \E k \in 0..Len(buffer) - 1 :
             /\ Fault
             /\ Abandon(k, {buffer[k + 1]})
             /\ perished' = perished \cup ToSet(SubSeq(buffer, k + 1, Len(buffer)))
    /\ pc' = "closed"
    /\ UNCHANGED <<config, names, currentSize, missed, dirty, lastError, batch,
                   index, rotatedOk, refused>>

\* The record that is being written once k buffered ones are in the file.
Following(k) ==
    IF k < Len(buffer) THEN {buffer[k + 1]}
    ELSE {r \in ToSet(batch) :
             pc = "append" /\ writer /\ r = Head(batch) /\ Direct(r)}

\* The process dies; a flush in progress may have written k records.
Crash ==
    /\ pc \notin Gone
    /\ restarts < MaxRestarts
    /\ \E k \in 0..Len(buffer) :
          /\ pc \notin {"idle", "append", "flush", "exit"} => k = 0
          /\ Abandon(k, Following(k))
          /\ perished' = perished \cup ToSet(batch)
                          \cup ToSet(SubSeq(buffer, k + 1, Len(buffer)))
    /\ batch' = <<>>
    /\ pc' = "down"
    /\ UNCHANGED <<config, names, currentSize, missed, dirty, lastError, index,
                   rotatedOk, refused, bounds>>

\* FileLogger::new: open_log_file in append mode and a fresh WorkerState.
Restart ==
    /\ pc \in Gone
    /\ restarts < MaxRestarts
    /\ restarts' = restarts + 1
    /\ names' = names \cup {0}
    /\ writer' = TRUE
    /\ currentSize' = Bytes(content[0]) + torn
    /\ missed' = 0
    /\ dirty' = FALSE
    /\ lastError' = FALSE
    /\ pc' = "idle"
    /\ UNCHANGED <<config, content, torn, buffer, batch, index, rotatedOk, history,
                   submitted, faults>>

----------------------------------------------------------------------------
(* The behaviour.                                                          *)

Write == HandleWrite \/ AppendOk \/ AppendErr \/ DirectErr \/ AppendPanic
Flush == FlushOk \/ FlushErr \/ FlushUnavailable
RotateStep ==
    \/ RotateFlushOk \/ RotateFlushErr \/ RotateUnavailable
    \/ RemoveOk \/ RemoveErr \/ RenameOk \/ RenameErr
    \/ ReopenFresh \/ ReopenAppend \/ ReopenErr
Finalize == FinalizeOk \/ FinalizeErr

Command == (\E n \in 1..MaxBatch : Submit(n)) \/ Flush \/ Rotate \/ Finalize

Next == Command \/ Write \/ RotateStep \/ Exit \/ Crash \/ Restart

Spec == Init /\ [][Next]_vars

\* The worker thread keeps running while it has a command in hand.
FairSpec == Spec /\ WF_vars(Write \/ RotateStep \/ Exit)

----------------------------------------------------------------------------
(* What a reader of the log files may rely on.                             *)

OnDisk == UNION {ToSet(content[s]) : s \in Slot}

(***************************************************************************)
(* Reading the rotated files from the highest suffix down to the base and  *)
(* then the buffer and the records in hand gives the records in the order  *)
(* in which they came, none of them twice: rotation, a rotation that stops *)
(* halfway, a retry of it and a restart never reorder or copy a record.    *)
(***************************************************************************)
Chronology ==
    /\ \A s, t \in Slot : \A i \in DOMAIN content[s], j \in DOMAIN content[t] :
          (s > t \/ (s = t /\ i < j)) => content[s][i] < content[t][j]
    /\ \A r \in OnDisk, i \in DOMAIN buffer : r < buffer[i]
    /\ \A i, j \in DOMAIN buffer : i < j => buffer[i] < buffer[j]
    /\ \A r \in OnDisk \cup ToSet(buffer), i \in DOMAIN batch : r < batch[i]

(***************************************************************************)
(* What rotation deletes is always the oldest part of the log: once a      *)
(* record has been handed to the operating system it is still in a file    *)
(* as long as any record handed over before it is.  (rotate_files deletes  *)
(* the last slot only, truncation only opens a base that was moved away.)  *)
(***************************************************************************)
NewestKept ==
    \A i, j \in DOMAIN stored :
        i < j /\ stored[i] \in OnDisk => stored[j] \in OnDisk

(***************************************************************************)
(* Every record received is in exactly one place: handed to the operating  *)
(* system, in the buffer, still in hand, given up after an error, or lost  *)
(* with the process.  No error path of write, batch, flush or rotate       *)
(* forgets one or counts it twice, and when one is given up stats() has an *)
(* error to show for it (of this process).                                 *)
(***************************************************************************)
Conservation ==
    LET places == <<ToSet(stored), ToSet(buffer), ToSet(batch), refused,
                    perished>>
    IN  /\ UNION ToSet(places) = 1..submitted
        /\ \A p, q \in DOMAIN places : p # q => places[p] \cap places[q] = {}
        /\ OnDisk \subseteq ToSet(stored)
        /\ refused # {} /\ restarts = 0 => lastError

(***************************************************************************)
(* While there is a writer, current_size is the size the base file has     *)
(* once the buffer is flushed, what earlier processes left torn included,  *)
(* through every error, failed rotation and restart, but for one case: a   *)
(* write past the buffer that failed has put bytes in the file that        *)
(* current_size never learns of, until the file is opened again.  It is    *)
(* short by just these and never too large.                                *)
(***************************************************************************)
SizeExact ==
    writer => /\ currentSize + missed = Bytes(content[0]) + torn + Bytes(buffer)
              /\ missed <= torn

(***************************************************************************)
(* The records in the base file never take more than rotate_size_bytes,    *)
(* unless it holds one record that alone is longer.  The file itself is    *)
(* longer by the torn parts: BaseWithinLimit shows what that can add.      *)
(***************************************************************************)
BaseBounded ==
    LET base == content[0] \o buffer
    IN  config.rotateSizeBytes > 0 /\ Bytes(base) > config.rotateSizeBytes
            => Len(base) = 1

(***************************************************************************)
(* "Automatic rotation by size" (README.md:244): the file at the base path *)
(* stays within rotate_size_bytes, unless what it holds is all of one      *)
(* record, or parts only.                                                  *)
(***************************************************************************)
BaseWithinLimit ==
    LET base == content[0] \o buffer
    IN  config.rotateSizeBytes > 0 /\ Bytes(base) + torn > config.rotateSizeBytes
            => base = <<>> \/ (Len(base) = 1 /\ torn = 0)

(***************************************************************************)
(* As long as no file-system call has failed and the process has not died, *)
(* a record is deleted only when all max_rotate_files rotated files exist: *)
(* the whole configured history is used before anything is discarded.      *)
(***************************************************************************)
HistoryUsed ==
    faults = 0 /\ restarts = 0 /\ pc \notin Rotating \cup {"down"}
        => \/ ToSet(stored) = OnDisk
           \/ 1..config.maxRotateFiles \subseteq names

(***************************************************************************)
(* Every command ends: whatever fails, the worker is ready for the next    *)
(* command, or gone, after finitely many steps.                            *)
(***************************************************************************)
CommandsEnd == pc \in Busy ~> pc \notin Busy

(***************************************************************************)
(* The panic message of handle_write says what it is for: "File logger     *)
(* writer is unavailable due to a rotation failure. Panicking to prevent   *)
(* silent data loss."  So a worker without a writer would not go on and    *)
(* give up one record after the other.                                     *)
(***************************************************************************)
NoDropWithoutWriter ==
    [][pc = "flush" /\ ~writer => refused' = refused]_vars

(***************************************************************************)
(* The worker's files implement LogSink.  While rotate has the base file   *)
(* closed the sink still has its writer: it is lost when reopening fails.  *)
(***************************************************************************)
Sink == INSTANCE LogSink WITH
            buffered <- buffer,
            writer <- writer \/ pc \in Rotating
ImplementsSink == Sink!SinkSpec
=============================================================================
