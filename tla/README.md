# TLA+ models of splunklib_rust

This directory holds TLA+ specifications of the library under `src/lib/`, the
TLC configurations that check them on small instances, and proofs that TLAPS
checks for every value of the constants. The code is the reference: every
definition is a translation of the lines `PROJECT.json` gives for it.

1. The system · 2. The modules · 3. What TLC checks · 4. What is proved ·
5. What is not modelled

## 1. The system

| Component | State | Operations | What must be right | Modules |
|---|---|---|---|---|
| `FileLogger`, file side (`WorkerState`, `rotate_files`, `open_log_file`) | the base file and its rotated files, the `BufWriter`, `current_size`, `dirty`, `last_error` | write, batch, flush, sync, rotate, finalize, reopen | no record is copied, reordered or forgotten, whichever call fails and wherever the process dies; rotation deletes the oldest only and is decided on the real size | `LogSink`, `LogFile` |
| `FileLogger`, callers and worker | a bounded channel, the `shutdown` flag, the `JoinHandle`, the final statistics, the `Arc` count | log, batch, flush, sync, rotate, stats and their `try_` forms, shutdown, clone, drop; `worker_loop` | accepted records are accounted for; flush is a barrier; shutdown loses nothing accepted before it; every call returns; the worker ends | `FileLogger` |
| `FileLogger`, automatic flush | `next_auto_flush`, the timeout of `recv_timeout` | `flush_if_due` | what is buffered is flushed in bounded time | `FlushTimer` |
| `JsonLogger` | a second queue and worker, a batch, `next_flush`, `pending_delivery_error`, a lock over flag and send; contains a `FileLogger` and an `HttpEventSender` | log, flush, stats, shutdown, drop; `flush_batch` with fallback from HTTP to the file | a record is delivered or its loss reported, once, to somebody | `JsonLogger` |
| `HttpEventSender` (partly) | a header cache with a dirty flag, mode, token and gzip settings, shared by clones | set and add headers, settings, send, batched sends | a request carries the headers set before it and says the truth about its body; a token goes to HEC only | `HttpSender` |
| Config processor: cache | a global LRU cache of file contents with a stamp per entry and a byte count | read, insert, evict, resize, clear | never serves contents older than the file; the count is the sum of the entries | `ConfCache` |
| Config processor: parser, merge, strict | a global limit on continuation lines | parse, merge, set the limit | the value that precedence asks for, whole, in the right stanza | `ConfParser` |
| Configuration layering (partly) | none (reads the file tree) | collect, overlay, inherit `[default]`, expand | precedence of system, apps and user, while the tree changes | `ConfLayering` |
| Configuration spec: patterns | none | scan a pattern, match a name | wildcard matching | `ConfPattern` |
| Configuration spec: rules | the registry | walk, parse, merge, validate | a document is judged by all spec files together | `ConfSpec` |
| Session id and record header, `JsonLogger` configuration, host name, location, file locator, `main.rs` | none that another operation reads | lookups and formatting | - | not modelled, section 5 |

**Interaction.** Callers share a `FileLoggerInner` through an `Arc` and talk to
the worker thread by commands on a bounded channel; answers come back on a channel
of capacity one made for each command. The worker alone touches the files. A
`JsonLogger` is built the same way, with a lock around the test of its flag and
the send; its worker is the only caller of a `FileLogger` and of an
`HttpEventSender`. `merge_configs` reads its files through the cache, its strict
form, on which layering rests, reads them directly; the host name lookup and the
`JsonLogger` read their settings through layering; spec validation takes what
the parser made. Accordingly
`LogFile` implements `LogSink`, `FileLogger` is built on an instance of
`LogSink`, `JsonLogger` on what `FileLogger` is shown to do for its caller, and
`ConfSpec` takes from `ConfPattern` which pattern matches which name.

**What is hard here.** In `FileLogger`: the window between the load of the flag
and the send; shutdown, which joins under two locks; two last handles dropped at
once; what is still in the queue when the worker returns or panics; a rotation
that fails or dies between two renames; a size that is counted by hand while a
write fails halfway; a writer that could not be reopened; two
clocks that decide on the automatic flush. In `JsonLogger`: a lock that is held
over a blocking send; a delivery error kept for a flush that may never come; a
request that timed out after it was accepted; a `FileLogger` that panics while
its worker waits for it. In the sender: four separate steps
to rebuild the header cache and a setting read anew at each await. In the cache:
two looks at a file with the read in between. In parser and patterns: positions
and limits that meet at a boundary. `PROJECT.json` lists all of them under
`hazards`, each at its line and with the properties that would catch it.

## 2. The modules

**`LogSink`** is the abstract specification of what the worker's file promises to
the rest of the logger: `Put`, `FlushOk`, `FlushErr`, `Fail`, `Close`, `Reopen`
over four variables: the buffered records, the stored ones in order, those
refused after an I/O error, and whether there is a writer. It knows no files,
sizes or rotation.

**`LogFile`** is `WorkerState` with one action per file-system call. `names` and
`content` are the directory: slot 0 is the base path, slot k the path
`rotated_path` gives for k. `pc` is where the worker is: `write` (before
`rotate_if_needed`), `append` (before `write_all`), `flush`, `remove`, `rename`,
`reopen` (inside `rotate` and `rotate_files`), `exit` (after `finalize`). `index`
is the loop variable of `rotate_files`, `rotatedOk` its result. Each call has an
`Ok` action and, where it can fail, an `Err` action that follows the `?` of the
code up to `worker_loop`, which records the error: `GiveUp`. `Crash` kills the
process between any two calls, or in the middle of a flush; `Restart` is
`FileLogger::new` on what it left. A record at least as long as the `BufWriter`
(`Direct`) goes past the buffer: `ToFile` writes it to the file, `DirectErr` is
the write that fails, with any `Part` of the record in the file. `torn` counts
the bytes of such parts in the base, `missed` those among them that
`current_size` was never told of. The history variables `stored`, `refused` and
`perished` say what became of each record. `Sink` is the refinement mapping to
`LogSink`; while `rotate` has the base closed the abstract writer is still there.

**`FileLogger`** is everything else: `pc[h]` is where the thread that owns handle
h is inside a call, `call[h]` and `reply[h]` its command and reply channel. A
thread can be overtaken between the load of the flag and the send, between the
reply and the join, and between the look at `strong_count` and the release of
the `Arc`. The worker takes a command, handles it, finalizes, drops the
`Receiver` and then its state. Dropping the `Receiver` of a bounded channel wakes
blocked senders with an error, but leaves what is queued in the channel's memory,
reply channels included, as long as there is a `Sender`, and whoever waits for
an answer holds one: such a request is never answered, and its caller is
`Stranded`. (The channel is crossbeam-channel 0.5, of which `Cargo.toml` names the
version; its source is not in the repository, and this is the one thing the
model takes from it besides the order of messages.) `overtook` has the handles whose
request was sent after the flag was set. Its file is an instance of `LogSink`. `panicked` is the panic of
`handle_write`.

**`FlushTimer`** has the clocks that the others leave out: `wait`, the ticks left
of `recv_timeout`, started again by every command, and `deadline`, the ticks to
`next_auto_flush`, moved by every write and every flush. `age` and `quiet`
measure how long the oldest buffered record and the last write are ago.

**`JsonLogger`** has callers like those of `FileLogger`, except that `Acquire`
takes `command_lock`, tests the flag (and sets it, for shutdown) and keeps the
lock until `Send` has found room in the queue. The worker collects records into
`batch`; a full batch, a flush, a shutdown, a timeout and the loss of the last
handle start `flush_batch`, which is one HTTP request (`HttpOk`, `HttpErr`; a
request that fails may have been taken by the endpoint, `doubtful`) and, if it
fails, `Fallback`: the file, or the kept error, `pending`. What the worker does
then depends on the command: `Resume`, `AnswerFlush`, `Finish`. The
`FileLogger` below appears as what it may do for its one caller: take records
(`filed`), settle them (`stored`), or die with some of them (`perished`). `Hang`
is the worker stranded by a `FileLogger` that panics with its flush or shutdown
queued; nothing happens after it.
`lost` is what could be delivered nowhere, `told` the losses after which a flush
has returned an error.

**`HttpSender`** follows each task through one send call, one access to a shared
setting per step, since another task may run at each of these awaits: mode,
gzip, then the flag of the header cache, the clone of the list, the store of
what was built from it, the clearing of the flag, the load of the cache, the
token, the request. A change of the headers is two steps, list and flag.
`Cancel` drops the future of a call between two awaits. Headers are numbered by
their changes; `raced` has the changes that were written between the clone and
the clearing of the flag, `known[t]` those that had returned when the call of t
began. `taken[t]` is the sequence of the chunks the endpoint has taken.

**`ConfCache`** splits `read_file_view` at the lock: look at the file, look into
the cache, read, look at the file again, insert; under the lock every iteration
of the eviction loop is a step. Other programs change, delete and put back files
at any time, and a new version may have the stamp of the old one if it came soon
enough and is as long. `window[t]` has the versions that were there during the
call of t, `replaced` those that were replaced while some thread had read them and
had not taken the stamp yet.

**`ConfParser`** reads files a line at a time, as `parse_config` does, and merges
each into the dictionary, stanza by stanza and entry by entry, while another
thread may set the limit. A value is the places (file, line) its text comes from.
`Meaning` says without a parser what a list of files means: which lines begin a
logical line, in which stanza the pairs among them are, which lines their values
have, and which pair of a key wins. `taken` only bounds the lines of a run.

**`ConfLayering`** is one call of `read_layered_conf_with_options`; every look at
the file system (a directory, an entry, an `app.conf`, a file that was found
before) may have any outcome, because the tree changes meanwhile.

**`ConfPattern`** is `WildcardPattern::new` and `matches` over sequences of bytes,
each loop iteration a step. `MatchesFrom` is the definition it is compared with.

**`ConfSpec`** is the loading of spec files in any order, the exceptions for
`inputs.conf`, `indexes.conf` and `server.conf`, and `validate_doc`. A file is parsed a
line at a time; the loops of the three parsers, which the code runs one after the
other over the same text, go in step, and `Parsed` takes what the kind of file
calls for. `Verdict`, which reads off the lines of all files what they declare,
is the definition `validate_doc` is compared with.

The `MC*` modules instantiate the modules for TLC where values that a
configuration file cannot hold, or a symmetry set, are needed. Three of them hold
two modules that have no variable in common: `MCFileLogger` (`FileLogger` and
`FlushTimer`), `MCConfig` (`ConfParser` and `ConfLayering`) and `MCConfSpec`
(`ConfPattern` and `ConfSpec`). A variable of theirs chooses at the beginning which
of the two takes all the steps, while the other stays as it was initialised, so
that each is checked as if it were alone and the states of the two add up. The `*_proofs`
modules hold the theorems of section 4.

Operators introduced by a comment "Mutant of ..." are a wrong version of the
definition after them, one for every checked property, each a mistake that could
be made in the code; put in the place of the definition, it makes the property
fail. They are not part of any specification.

### Abstractions

* A record is a number; its contents, header and newline are left out. Only its
  length is kept, where it decides on rotation and on the way into the file. Of a
  record that is only partly in a file the bytes are counted (`torn`), not that
  the next line follows it without a newline. A flush that fails writes a
  whole number of records, as the rest of the next one stays in the `BufWriter` and
  follows; only where the buffer goes away, at the end of the thread or of the
  process, is a record torn by it.
* `sync` behaves as `flush` does, with one more call that can fail: `FlushErr`
  covers both. Calls that fail leave the directory as it was. `Path::exists` in
  `rotate_files` is taken to be truthful.
* Statistics are reduced to `last_error`, in `LogFile`. What a call returns is
  kept only where a property is about it (`reply`).
* The configuration of a logger stays the same over a restart; in between no
  other program touches the log files.
* Each handle is used by one thread at a time; a thread that shares a handle by
  reference behaves as another clone that is never dropped.
* The bounded channel behaves as described above for `FileLogger`.
* In `ConfCache` a file changes from one version to the next at once, and a read
  sees one of them.
* Time is in `FlushTimer` only. In `FileLogger` the automatic flush may happen
  whenever the worker is about to take a command, as `flush_if_due` follows each
  one; in `JsonLogger`, where only `recv_timeout` starts it, when the queue is
  empty.
* Of headers only what the sender treats in its own way is kept: Authorization,
  Content-Encoding, invalid ones. Payloads are chunks with a number.
* In configuration files a line is what the parser can tell of it (header, pair,
  anything else; with or without a backslash at its end). Blanks, comments and
  the characters of a value are left out. In spec files a header with an `=` in it
  is left out too, of which the parser for `indexes.conf` would take a part for a key.
* One variable, `$_index_name`, stands for those `expand_value` knows: it is the
  only one whose value depends on the stanza.

## 3. What TLC checks

| Run | Properties | Bounds | States |
|---|---|---|---|
| `LogFile` | `Chronology` (files, buffer and records in hand read in order of arrival, no copies), `NewestKept` (rotation deletes the oldest only), `Conservation` (every record is in one place, and what was given up shows in `last_error`), `SizeExact` (`current_size` is right whenever there is a writer, short only by what a failed direct write left), `BaseBounded` (the whole records in the base respect the limit unless there is one long one), `HistoryUsed` (nothing is deleted before all rotated files are used, without failures), `CommandsEnd`, and the refinement `ImplementsSink` | 5 records, batches of 1 and 2, 0 to 2 rotated files, 2 failing calls anywhere, 1 process death or restart; six configurations: three that rotate often, with one record over the limit, one whose buffer fills before the limit, one without rotation, one with every other record as long as the buffer | 447,287 |
| `LogFileTornWrite`, `LogFileNoSilentDrop` | violations, see below | same | - |
| `FileLogger` | `Accounted`, `CallerOrder`, `FlushBarrier`, `DiscardedAreLate` (only records that overtook the flag are thrown away), `ShutdownDrains`, `ReplyPending`, `SoleDropWaits`, `CallsReturn` (but for stranded callers), `WorkerEnds`; of the clocks, `QuietFlushed`, `AgeBounded` | 2 handles, the second cloned from the first at any time; a queue of one place; 2 records per handle and 3 in all, batches of 2, one other call per handle besides shutdown and drop; failures and a panic at any write; of the clocks, interval 3, a buffer of 3 records, 2 failed flushes, running past every bound to be shown | 1,291,999 and 1,638 |
| `FileLoggerStranded` | a violation, see below | same | - |
| `JsonLogger` | `Accounted` (a second copy only of a request that failed after it was taken), `FlushTellsLosses`, `ToldOnce`, `ShutdownDrains`, `CallsReturn` (unless the worker is stranded), `BatchesLeave` | 2 handles, a queue of one place, batches of 2, 2 records, 4 calls; all three destinations, with and without a timer | 1,444,134 |
| `HttpSender` | `TokenOnlyHec`, `EncodingTruthful`, `HeadersCurrent`, `ChunksInOrder` | 2 tasks, 2 changes of the headers, 1 other setting, 2 chunks, alone or in one call | 4,982,122 |
| `HttpSenderLostUpdate` | a violation, see below | 1 change of the headers | - |
| `ConfCache` | `SizeExact`, `OrderedByUse`, `StaleOnlyIfRaced` | 2 threads, 2 files of length 1 or 2 with 2 versions each, limits 2 and 3, 3 calls | 3,456,520 |
| `ConfCacheStale` | a violation, see below | 2 calls | - |
| `Config` | of parser and merge, `MeansTheFiles`, `WithinLimit`, `StanzaIndexed`; of layering, `HighestWins`, `OnlyAsked` | 2 stanzas, one key, 2 files, 4 lines, limits 1 and 2; two apps in one root, one with the same name in another, a hidden one, two user apps, one key, three sets of options | 2,790,300 and 2,151,642 |
| `ConfSpec` | of patterns, `MatchesGlob`, `SliceInOrder`; of rules, `JudgedByAll` | patterns of up to 5 characters out of 6, names of up to 4 out of 3, one of them with two bytes; 4 conf files, 2 spec files, 3 lines, patterns that overlap | 9,328,270 and 639,216 |

**Why the bounds are enough.** A rotation chain of two has every kind of step (the
slot that is deleted, a rename between rotated files, the rename of the base);
five records with a limit of three bytes give at least two rotations after a
failed one, and two faults let a retry fail as well, or a direct write and the rotation
it delays. In the two loggers a queue
of one place makes it full and empty in every order; two handles give every race
of two callers with the worker, and a third would only repeat them; two records
let an early and a late one of the same thread meet. A batch of two can be left
half full. The interval of three ticks has a tick strictly inside it. Two tasks
are a rebuild of the header cache and what overtakes it; the second chunk is
sent after an error or a success of the first. Two files of one and two bytes
and limits of two and three make entries fit alone, together, and not at all.
Four lines hold a value of three lines and what follows it, or a header, a value
and a second file. Five characters hold three pieces with wildcards between
them, or a "<...>" with something around it. For most of these the proofs of section 4
remove the bounds.

Deadlock checking is off in every run: a logger that was dropped, a call that
has returned, or a bound that is used up, stop the system for good.

**Fairness.** `LogFile`: the worker goes on while it has a command in its hands
(it is a running thread and file-system calls return); nobody has to send a
command. `FileLogger`, `JsonLogger`: the worker thread is scheduled, and so is a
thread inside a call; an HTTP request ends, by `request_timeout` if by nothing
else. Each blocked call is disabled until what it waits for is there. Weak
fairness is enough: a lock, or a place in the queue, is lost to another
caller's step only finitely often, because calls are bounded. (The code promises
no more: with callers that never stop, `std`'s mutex is not fair.) Starting a
call, failures, and the automatic flush of `FileLogger` are never forced. The liveness
properties have the form `[]<>`: a call returns, or a batch is empty, again and
again; a state in which it never does would be a call that hangs. Callers who do
hang, because their request is in a queue that nobody reads, are excluded by
name (`Stranded`, `stuck`). `HttpSender`
and the configuration modules state safety only and need no fairness.

**Violations**, five disagreements of the code with its own words:

* `BaseWithinLimit` (`splunk_file_logger.rs`). The README of the repository (244) says
  "Automatic rotation by size". A write of a record longer than the buffer that
  fails halfway leaves bytes in the file, and the `?` at 511 skips the line that
  counts them: rotation comes late by as much, and the file at the base path
  grows over `rotate_size_bytes`. `SizeExact` and `BaseBounded` are what holds.
* `NobodyStranded` (`splunk_file_logger.rs`). The error paths of flush, rotate, stats
  and shutdown say "logger worker disconnected" for a request whose worker is gone. A
  request that is sent after another thread's Shutdown command, by a caller that had
  loaded the flag before, is never answered; nor is one that is queued when the
  worker panics. `ReplyPending` says that there are no others.
* `InvalidatedOnChange` (`splunk_config_processor.rs`). The README of the repository
  (113) says that cached files are invalidated when size or modification time change.
  The stamp is taken (344) after the file was read (337): a change in between gives the old
  contents the new stamp, and they are served until the file changes again.
  `StaleOnlyIfRaced` is what holds.
* `NoDropWithoutWriter` (`splunk_file_logger.rs`). The panic message at line 514
  says it is there "to prevent silent data loss" after a failed rotation. When
  reopening failed and the next record needs a rotation again, which it does
  whenever the size asked for the first, `handle_write` returns the error of
  `rotate_if_needed` at 509, before the test for a writer: that record and all
  later ones are dropped, the callers having been told Ok, and only `last_error`
  says so.
* `HeadersReplaced` (`splunk_http_sender.rs`). The comment at line 297 says that
  `set_extra_headers` replaces the headers. A change that falls between the clone
  of the list (358) and the clearing of the flag (417) of another task's send is
  written to the list, but its flag is cleared with the older one: it takes
  effect only after the next change. `HeadersCurrent` is what holds: every other change
  that had returned before the call began is in the request; `raced` names the
  exception.

**Guards that stand for limits of the code.** Some properties hold only as far as
a guard in them says, and the guard is worth knowing:

* `AgeBounded`: the README of the repository calls the automatic flush periodic.
  Every write moves it into the future, so a steady trickle puts it off until the
  buffer is full. The bound that holds grows with the number of records the
  buffer holds.
* `SizeExact`, `ReplyPending` and `CallsReturn` of `FileLogger`,
  `StaleOnlyIfRaced`: what they excuse is what the three violations above show,
  and nothing more: `missed`, `Stranded` and `replaced` name the exact cases.
  `StaleOnlyIfRaced` also leaves out a file whose changes its stamp cannot tell
  (`Traced`).
* `CallsReturn` of `JsonLogger`: the worker is stranded when its `FileLogger` panics with
  a flush or the shutdown of the worker in the queue. The whole logger stands still then.
* `SoleDropWaits`: a drop that calls shutdown itself, and cannot send because
  the worker has panicked, does not join it; the thread may still be writing its
  buffer while it unwinds.
* `MatchesGlob`: the scanner turns each byte into a character of its own, so that
  next to a wildcard a letter outside of ASCII is broken up and not found. Such
  patterns are left out.
* `HighestWins`: `is_dir()` (383) answers no when the caller has no right to look. Such
  an app is passed over without an error, like one that is not there
  (`SkipEntry`), although the comment at 192-193 says that permission errors are
  returned. As every look may have any outcome in the model, no property
  tells an error that is swallowed from a file that is not there.
* `FlushTellsLosses`: a record that the file refused with an I/O error is not a
  loss that a flush reports; it is in the statistics of the `FileLogger`.

## 4. What is proved

For every value of the constants, from the named assumptions on them in each
module (finite sets, natural numbers, and the like). `PROJECT.json` lists the
theorems; each has the form `Spec => []Inv`, `Spec => [][A]_vars`, or
`Spec => Sink!SinkSpec`. None of the properties but a few is inductive by itself; what had
to be added is the interesting part.

* **`Induction`**: induction over the natural numbers, for a set of them (the
  library states it for a predicate, which no installed prover can instantiate;
  the well-founded one it states for sets is enough to derive it), and from it
  the least element of a set of naturals and the sums that weights add up to.
* **`LogFile_proofs`**: `TypeOK`, `Chronology`, `NewestKept`, `Conservation`,
  `HistoryUsed`, `SizeExact`, `BaseBounded`, and the refinement of `LogSink`, for
  any number of rotated files, failures and restarts, and records of any length. `Order` and `Placement` follow the records
  through hand, buffer and file; `Files` adds that slots are in order and that
  a stored record is in a file as long as an older one is; `Hand`, `Writer` and
  `Loop` say what holds at each place of the worker, in particular that
  `rotate_files` deletes the last slot or an empty one, and renames into an empty
  one. Only
  with these is a rename an act that keeps the order. `History` is a second invariant: while nothing has failed,
  the slots have no gap but the one that rotation is about to fill, and if
  something was deleted they are all in use. `Measured` is a third one: while there is a writer, `current_size` and `missed` are the sum of the
  lengths in the base and in the buffer and of `torn`, which `missed` is a part of; a base
  over the limit is one long record; where a record is about to be appended there is room for it (`Room`).
  The size of a file is a recursive function; that it is the sum of the sizes of
  its parts is by induction.
* **`FileLogger_proofs`**, about `FileLogger` and `FlushTimer`: `TypeOK`, `ReplyPending`, `DiscardedAreLate`, `Accounted`,
  `CallerOrder`, `FlushBarrier`, `ShutdownDrains`, `SoleDropWaits`.
  `LateInv` says that behind a Shutdown command everything is late, as such a
  command is in the queue only with the flag set, and that once the worker has
  left its loop either the flag is set or there is no handle. `PlaceInv` follows
  the records of each handle from its call through queue, hand and buffer to the
  file, in order and in one place. `BarrierInv` says that what had been logged
  before a flush began is never behind its command. `DropInv` says that one
  caller at most shuts the logger down, and that until its command was taken only
  a panic can end the worker. `ReplyPending` follows from `Overtaken`: requests behind a
  Shutdown command in the queue overtook the check of the flag, and so did, without a panic,
  all that are queued when the worker has left its loop. For `SoleDropWaits` it is `Joined`
  that counts: once the `JoinHandle` is taken, the worker has ended.
  Of `FlushTimer`: `TimerTypeOK`, `QuietFlushed`, `AgeBounded`. `Clock` and `Waiting`
  relate the two clocks to `quiet` and `age`: a deadline that was missed by the
  last timeout is met by the next one.
* **`JsonLogger_proofs`**: `TypeOK`, `Accounted`, `FlushTellsLosses`, `ShutdownDrains`,
  `ToldOnce`. `EndInv` is about the lock: it is held exactly for a send, so a
  Shutdown command is the last in the queue and nobody can follow it. `PlaceInv`
  is as above, with the endpoint as one place that may have a copy. `TellInv` says that
  a loss nobody was told of leaves a mark that the next flush finds (without a
  file the pending error, with a file that its worker is gone) and that there is
  no pending error without such a loss.
* **`HttpSender_proofs`**: `TypeOK` and all four properties of the run.
  `RequestInv` and `ChunkInv` say what is in the locals of a call at each place;
  `HeaderInv` that while the flag is clear the cache has all completed changes, the raced
  ones apart, and that what is being built has all there are.
* **`ConfCache_proofs`**: `TypeOK`, `StaleOnlyIfRaced`, `SizeExact`, `OrderedByUse`.
  `FreshInv` relates what a thread has in hand, and what the cache holds with a
  stamp, to the versions of the file: contents under the stamp of a later version were
  in some thread's hand, unstamped, when they were replaced, and so are in
  `replaced`. `QueueInv` says that the queue is the cached paths
  in the order of their last use, each once; `LockInv` that one thread at most is in the
  eviction loop; `SizeInv` that the byte count is the sum of the entries, and within the
  limit whenever nobody is in that loop. That the sum over a set does not depend on the
  order its elements are taken in is by induction.
* **`ConfParser_proofs`**, about `ConfParser` and `ConfLayering`: of the first
  `TypeOK`, `WithinLimit`, `StanzaIndexed`, with `WellFormed` for the document
  under construction, and `MeansTheFiles`, for files of any length, any limits and
  either precedence. The lemmas about the definition without a parser say
  how it changes with one line more: what has ended stays as it was (`LastGrows`,
  `ValueGrows`, `StanzaAtGrows`), and the set of lines that begin a logical line is the
  only one its equation has (`LogicalWithin`) and grows by at most that line
  (`LogicalGrows`). Then three invariants follow a file to the dictionary. `Reading`
  says that outside of a value every logical line has ended, and that inside of one
  all have but that of the value, of which `raw` has all lines so far.
  `DocMeans` says that the document has an entry for exactly the pairs whose value
  is complete, each with the key, value and stanza its line means, and those of a
  stanza in the order of their lines. `DictInv` says, at every step of a merge, that the
  dictionary is what the places merged so far mean (`Means`): the next entry
  comes after all merged ones of its stanza, as stanzas are in a document once, and so
  wins or loses by precedence alone (`WinnerGrows`).
  Of `ConfLayering`: `LayeringTypeOK`, `OnlyAsked`, `HighestWins`, for any number of
  roots, apps, priorities and files. `ListInv` has the apps found in order, root by
  root; that `list_app_dirs` can sort them is a lemma (two apps of one root differ
  in name, so they compare). `OrderInv` says that the files found, and after them the
  directories yet to look into, rise in the order of precedence and were asked for. `ReadInv`
  follows the overlay: before the files are merged, then what the
  files read so far say, the last one counting, then inherited, then
  expanded. As the sources rise, the last file that sets a key is the highest.
* **`ConfPattern_proofs`**, about `ConfPattern` and `ConfSpec`: of the first `TypeOK`,
  `SliceInOrder`, `MatchesGlob`, for every pattern and every name. `MatchInv` says at each place that the pattern matches the name if
  and only if what has been done and what is left to do match it: while scanning, that the
  pieces so far can be placed and the rest of the pattern matches from where they
  end (`Meets`, `Reached`); then, that the pieces that remain fit between `pos` and
  `searchEnd` (`Fits`). The anchored ends can be split off (`EndsFit`), and to take
  the first place of a piece is never wrong, because it leaves the most to the
  pieces after it (`FitsFirst`): this is why a greedy search needs no backtracking.
  Of `ConfSpec`: `RegistryTypeOK` and `JudgedByAll`, for any number of spec files of
  any lines, and any relation of patterns to names. `Parsing` says what each of the
  three parsers has of the lines so far: the stanza or the section it is at is that of the last
  header or title before (`Governing`, `SectionAt`), and a key is with a stanza exactly if some line
  declares it there. From it the rules of a file are what its lines declare, for each
  kind of file by its own exceptions (`ParsedMeans`); `SpecsMean` adds them up over the files.

Only model-checked: what holds under fairness (`CommandsEnd`, `CallsReturn`,
`WorkerEnds`, `BatchesLeave`), which is out of the prover's reach. Every other
property of a passing run is a theorem.

## 5. What is not modelled

* TLS and the HTTP protocol (reqwest) and compression (flate2): libraries. The
  sender's URL and payload building, its debug output with the redaction of
  headers: formatting without state. Its response cache has no writer.
  The status of `HttpEventSender` is therefore "partly".
* `FileLogger`: the record header and the session id, an atomic that one record is
  formatted with. Nothing else reads it.
* `JsonLogger`: `from_conf` and `from_dictionary`, which read options one by one,
  and the time and sid of a record.
* Config processor: extraction of a version, the `find_` lookups, the hit counters
  of the cache.
* Layering: variables other than `$_index_name`, which are replaced by text that
  is the same in every stanza; for these the status is "partly".
* Host name, Splunk location and file locator: lookups one after the other and
  path building, without state. `main.rs` prints the results of a few calls.
