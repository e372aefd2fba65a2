------------------------------ MODULE LogSink ------------------------------
(***************************************************************************)
(* What the file side of a FileLogger worker promises to the rest of the   *)
(* logger: records it is given are first buffered, then stored in the      *)
(* order in which they came; an I/O error may refuse a record and may take *)
(* the writer away for good; only a closing sink may lose what is buffered.*)
(* Files, sizes and rotation do not appear here: LogFile implements this   *)
(* module with them, and FileLogger builds its worker on these actions.    *)
(***************************************************************************)
EXTENDS Integers, Sequences

CONSTANT Record  \* the records a worker can be given, each at most once

VARIABLES
    buffered,  \* records in the BufWriter, oldest first
    stored,    \* records handed to the operating system, in that order
    refused,   \* records whose write was given up after an I/O error
    writer     \* is there a writer (WorkerState.writer is Some)

sinkVars == <<buffered, stored, refused, writer>>

Elements(s) == {s[i] : i \in DOMAIN s}

SinkTypeOK ==
    /\ buffered \in Seq(Record)
    /\ stored \in Seq(Record)
    /\ refused \subseteq Record
    /\ writer \in BOOLEAN

SinkInit ==
    /\ buffered = <<>>
    /\ stored = <<>>
    /\ refused = {}
    /\ writer = TRUE

Fresh(r) == r \notin Elements(buffered) \cup Elements(stored) \cup refused

\* The oldest k buffered records reach the operating system.
Drain(k) ==
    /\ stored' = stored \o SubSeq(buffered, 1, k)
    /\ buffered' = SubSeq(buffered, k + 1, Len(buffered))

(***************************************************************************)
(* write_all of one record: it joins the buffer, which a full buffer is    *)
(* emptied for first, or follows the buffer to the file if it is too long. *)
(***************************************************************************)
Put(r) ==
    /\ writer
    /\ \/ buffered' = Append(buffered, r) /\ UNCHANGED stored
       \/ /\ stored' = stored \o buffered
          /\ buffered' = <<r>>
       \/ /\ stored' = stored \o Append(buffered, r)
          /\ buffered' = <<>>
    /\ UNCHANGED <<refused, writer>>

FlushOk ==
    /\ writer
    /\ Drain(Len(buffered))
    /\ UNCHANGED <<refused, writer>>

(***************************************************************************)
(* A write, flush, sync or rotation fails: some of the buffer may have     *)
(* reached the file, the records R of the command are given up, and the    *)
(* writer is lost only when nothing was left in its buffer.                *)
(***************************************************************************)
GiveUp(R) ==
    /\ \E k \in 0..Len(buffered) : Drain(k)
    /\ refused' = refused \cup R

FlushErr == GiveUp({}) /\ UNCHANGED writer

Fail(R) ==
    /\ GiveUp(R)
    /\ \/ UNCHANGED writer
       \/ writer' = FALSE /\ buffered' = <<>>

(***************************************************************************)
(* The worker's state goes away (normal exit, panic or process death): the *)
(* BufWriter is flushed once more, fully, partly or not at all.            *)
(***************************************************************************)
Close ==
    /\ \E k \in 0..Len(buffered) : stored' = stored \o SubSeq(buffered, 1, k)
    /\ buffered' = <<>>
    /\ writer' = FALSE
    /\ UNCHANGED refused

\* A new logger opens the same path.
Reopen ==
    /\ ~writer
    /\ writer' = TRUE
    /\ UNCHANGED <<buffered, stored, refused>>

SinkNext ==
    \/ \E r \in Record : Fresh(r) /\ Put(r)
    \/ FlushOk
    \/ \E R \in SUBSET Record : (\A r \in R : Fresh(r)) /\ Fail(R)
    \/ Close
    \/ Reopen

SinkSpec == SinkInit /\ [][SinkNext]_sinkVars
=============================================================================
