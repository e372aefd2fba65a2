------------------------------ MODULE ConfCache ------------------------------
(***************************************************************************)
(* The cache of splunk_config_processor.rs: read_file_view in several      *)
(* threads, the LRUCache behind one lock, and files that other programs    *)
(* change, delete and put back at any time.  The lock is free while the    *)
(* file is looked at and read; under the lock every loop iteration of an   *)
(* eviction is a step of its own.                                          *)
(***************************************************************************)
EXTENDS Integers, Sequences, FiniteSets, FiniteSetsExt

CONSTANTS
    Thread,
    Path,        \* canonical paths: the keys of the cache
    NoPath,      \* the key of a thread that reads no file
    Size,        \* the lengths a file can have
    Limit,       \* the sizes the cache can be given
    MaxVersions, \* bound: versions of one file
    MaxCalls     \* bound: calls of all threads

ASSUME ConfCacheAssumption ==
    /\ IsFiniteSet(Thread) /\ IsFiniteSet(Path) /\ NoPath \notin Path
    /\ Size \subseteq Nat /\ Limit \subseteq Nat
    /\ MaxVersions \in Nat \ {0} /\ MaxCalls \in Nat

\* Of the metadata, the length and the modification time; contents are the
\* number of the version, 0 for what is returned when nothing can be read.
Stamp == [len : Size, modified : 1..MaxVersions]
Entry == [content : 0..MaxVersions, stamp : Stamp, len : Nat]
NoEntry == [content |-> 0, stamp |-> <<>>, len |-> 0]

VARIABLES
    exists,     \* the files that are there
    versions,   \* the stamps of all versions of each file, the present one last
    replaced,   \* history: the versions of each file that were replaced when
                \* a thread had read them and not yet taken the second stamp
    cached,     \* LRUCache.map: its keys ...
    entry,      \* ... and their entries
    order,      \* LRUCache.order, most recently used first
    totalSize,  \* LRUCache.total_size
    maxSize,    \* LRUCache.max_size
    lock,       \* the thread that holds the lock of the cache over a loop
    pc,         \* where each thread is
    key,        \* the path it reads
    local,      \* what it has in hand, at the end the result
    window,     \* history: the versions the file has had during its call
    uses,       \* history: all paths by their last use, latest first
    calls       \* bound: calls so far

files == <<exists, versions, replaced>>
cache == <<cached, entry, order, totalSize, maxSize>>
thread == <<pc, key, local>>
vars == <<files, cache, lock, thread, window, uses, calls>>

Elements(s) == {s[i] : i \in DOMAIN s}
\* The members of s that are in P.
Keep(s, P) ==
    LET upTo[n \in 0..Len(s)] ==
            IF n = 0 THEN <<>>
            ELSE IF s[n] \in P THEN Append(upTo[n - 1], s[n]) ELSE upTo[n - 1]
    IN  upTo[Len(s)]

\* What position and remove leave of s: the first x is taken out.
Without(s, x) ==
    LET at == {i \in DOMAIN s : s[i] = x}
    IN  IF at = {} THEN s
        ELSE SubSeq(s, 1, Min(at) - 1) \o SubSeq(s, Min(at) + 1, Len(s))

\* The length of all that e has for the paths in P.
Total(e, P) == MapThenSumSet(LAMBDA p : e[p].len, P)
Present(p) == Len(versions[p])

TypeOK ==
    /\ exists \subseteq Path
    /\ versions \in [Path -> Seq(Stamp)]
    /\ \A p \in Path : Present(p) \in 1..MaxVersions
    /\ replaced \in [Path -> SUBSET (0..MaxVersions)]
    /\ cached \subseteq Path
    /\ entry \in [Path -> Entry \cup {NoEntry}]
    /\ \A p \in cached : entry[p] \in Entry
    /\ totalSize \in Nat
    /\ maxSize \in Limit
    /\ lock \in SUBSET Thread
    /\ pc \in [Thread -> {"idle", "stat", "lookup", "read", "restat", "insert",
                          "evict", "return"}]
    /\ key \in [Thread -> Path \cup {NoPath}]
    /\ local \in [Thread -> Entry \cup {NoEntry}]
    /\ \A t \in Thread :
          /\ pc[t] \in {"stat", "lookup", "read", "restat", "insert"} => key[t] \in Path
          /\ pc[t] \in {"lookup", "read", "restat", "insert"} => local[t] \in Entry
    /\ window \in [Thread -> SUBSET (1..MaxVersions)]
    /\ calls \in 0..MaxCalls

Init ==
    /\ exists = Path
    /\ versions \in [Path -> {<<[len |-> n, modified |-> 1]>> : n \in Size}]
    /\ replaced = [p \in Path |-> {}]
    /\ cached = {}
    /\ entry = [p \in Path |-> NoEntry]
    /\ order = <<>>
    /\ totalSize = 0
    /\ maxSize \in Limit
    /\ lock = {}
    /\ pc = [t \in Thread |-> "idle"]
    /\ key = [t \in Thread |-> NoPath]
    /\ local = [t \in Thread |-> NoEntry]
    /\ window = [t \in Thread |-> {}]
    /\ uses = <<>>
    /\ calls = 0

----------------------------------------------------------------------------
(* The files, changed by others.                                           *)

Seen(p, v) ==
    window' = [t \in Thread |-> IF pc[t] # "idle" /\ key[t] = p
                                THEN window[t] \cup {v} ELSE window[t]]

\* What threads have in hand of the file at p and are about to stamp.
InHand(p) == {local[t].content : t \in {u \in Thread : pc[u] = "restat" /\ key[u] = p}}

\* A new version, whose stamp differs unless it has the length of the old one
\* and came too soon after it for the clock of the file system.
Change(p) ==
    LET v == Present(p) + 1
    IN  /\ v <= MaxVersions
        /\ \E s \in [len : Size, modified : {v}] \cup {versions[p][v - 1]} :
              versions' = [versions EXCEPT ![p] = Append(@, s)]
        /\ replaced' = [replaced EXCEPT ![p] = @ \cup InHand(p)]
        /\ exists' = exists \cup {p}
        /\ Seen(p, v)
        /\ UNCHANGED <<cache, lock, thread, uses, calls>>

Delete(p) ==
    /\ p \in exists
    /\ exists' = exists \ {p}
    /\ UNCHANGED <<versions, replaced, cache, lock, thread, window, uses, calls>>

----------------------------------------------------------------------------
(* LRUCache.                                                               *)

Minus(m, n) == IF m >= n THEN m - n ELSE 0

Used(p) == uses' = <<p>> \o Keep(uses, Path \ {p})

\* touch, on the order that is left after a removal
Touch(p, rest) == order' = <<p>> \o Without(rest, p) /\ Used(p)

\* HashMap::remove, and what is counted
Unmap(p) ==
    /\ cached' = cached \ {p}
    /\ entry' = [entry EXCEPT ![p] = NoEntry]
    /\ totalSize' = IF p \in cached THEN Minus(totalSize, entry[p].len) ELSE totalSize

Remove(p) == order' = Without(order, p) /\ Unmap(p)

RemoveLast ==
    /\ order' = SubSeq(order, 1, Len(order) - 1)
    /\ Unmap(order[Len(order)])

\* Mutant of Insert: the entry that is replaced stays counted.
InsertOver(t) ==
    LET p == key[t]
    IN  /\ pc[t] = "insert"
        /\ lock = {}
        /\ lock' = {t}
        /\ cached' = cached \cup {p}
        /\ entry' = [entry EXCEPT ![p] = local[t]]
        /\ Touch(p, Without(order, p))
        /\ totalSize' = totalSize + local[t].len
        /\ pc' = [pc EXCEPT ![t] = "evict"]
        /\ UNCHANGED <<files, maxSize, key, local, window, calls>>

\* insert, up to its loop
Insert(t) ==
    LET p == key[t]
        old == IF p \in cached THEN entry[p].len ELSE 0
    IN  /\ pc[t] = "insert"
        /\ lock = {}
        /\ lock' = {t}
        /\ cached' = cached \cup {p}
        /\ entry' = [entry EXCEPT ![p] = local[t]]
        /\ Touch(p, Without(order, p))
        /\ totalSize' = Minus(totalSize, old) + local[t].len
        /\ pc' = [pc EXCEPT ![t] = "evict"]
        /\ UNCHANGED <<files, maxSize, key, local, window, calls>>

\* One iteration of the loop of insert or set_cache_size_mb: remove_last.
EvictOne(t) ==
    /\ pc[t] = "evict"
    /\ totalSize > maxSize
    /\ cached # {} /\ order # <<>>
    /\ RemoveLast
    /\ UNCHANGED <<files, maxSize, lock, thread, window, uses, calls>>

EvictDone(t) ==
    /\ pc[t] = "evict"
    /\ totalSize <= maxSize \/ cached = {} \/ order = <<>>
    /\ lock' = lock \ {t}
    /\ pc' = [pc EXCEPT ![t] = "return"]
    /\ UNCHANGED <<files, cache, key, local, window, uses, calls>>

----------------------------------------------------------------------------
(* Calls.                                                                  *)

\* read_file_view
Begin(t, p) ==
    /\ pc[t] = "idle"
    /\ calls < MaxCalls
    /\ calls' = calls + 1
    /\ pc' = [pc EXCEPT ![t] = "stat"]
    /\ key' = [key EXCEPT ![t] = p]
    /\ window' = [window EXCEPT ![t] = {Present(p)}]
    /\ UNCHANGED <<files, cache, lock, local, uses>>

\* set_cache_size_mb
Resize(t, n) ==
    /\ pc[t] = "idle"
    /\ calls < MaxCalls
    /\ lock = {}
    /\ lock' = {t}
    /\ calls' = calls + 1
    /\ maxSize' = n
    /\ pc' = [pc EXCEPT ![t] = "evict"]
    /\ UNCHANGED <<files, cached, entry, order, totalSize, key, local, window, uses>>

\* clear_cache
Clear(t) ==
    /\ pc[t] = "idle"
    /\ calls < MaxCalls
    /\ lock = {}
    /\ calls' = calls + 1
    /\ cached' = {}
    /\ entry' = [p \in Path |-> NoEntry]
    /\ order' = <<>>
    /\ totalSize' = 0
    /\ UNCHANGED <<files, maxSize, lock, thread, window, uses>>

Goto(t, where) == pc' = [pc EXCEPT ![t] = where] /\ UNCHANGED key
OnlyThread == UNCHANGED <<files, cache, lock, window, uses, calls>>

\* canonicalize and metadata; no file, or any other error, gives "".
Stat(t) ==
    LET p == key[t]
    IN  /\ pc[t] = "stat"
        /\ \/ /\ p \in exists
              /\ local' = [local EXCEPT ![t] = [content |-> 0, len |-> 0,
                               stamp |-> versions[p][Present(p)]]]
              /\ Goto(t, "lookup")
           \/ Goto(t, "return") /\ UNCHANGED local
        /\ OnlyThread

\* Mutant of Lookup: a hit does not move the entry to the front.
LookupOnly(t) ==
    LET p == key[t]
    IN  /\ pc[t] = "lookup"
        /\ lock = {}
        /\ IF p \in cached /\ entry[p].stamp = local[t].stamp
           THEN /\ local' = [local EXCEPT ![t] = entry[p]]
                /\ Goto(t, "return")
                /\ Used(p)
                /\ UNCHANGED <<cached, entry, order, totalSize>>
           ELSE /\ IF p \in cached THEN Remove(p)
                                   ELSE UNCHANGED <<cached, entry, order, totalSize>>
                /\ Goto(t, "read")
                /\ UNCHANGED <<local, uses>>
        /\ UNCHANGED <<files, maxSize, lock, window, calls>>

\* Mutant of Lookup: an entry of the same length will do.
LookupByLength(t) ==
    LET p == key[t]
    IN  /\ pc[t] = "lookup"
        /\ lock = {}
        /\ IF p \in cached /\ entry[p].len = local[t].stamp.len
           THEN /\ local' = [local EXCEPT ![t] = entry[p]]
                /\ Goto(t, "return")
                /\ Touch(p, order)
                /\ UNCHANGED <<cached, entry, totalSize>>
           ELSE /\ IF p \in cached THEN Remove(p)
                                   ELSE UNCHANGED <<cached, entry, order, totalSize>>
                /\ Goto(t, "read")
                /\ UNCHANGED <<local, uses>>
        /\ UNCHANGED <<files, maxSize, lock, window, calls>>

\* get: an entry with another stamp is removed.
Lookup(t) ==
    LET p == key[t]
    IN  /\ pc[t] = "lookup"
        /\ lock = {}
        /\ IF p \in cached /\ entry[p].stamp = local[t].stamp
           THEN /\ local' = [local EXCEPT ![t] = entry[p]]
                /\ Goto(t, "return")
                /\ Touch(p, order)
                /\ UNCHANGED <<cached, entry, totalSize>>
           ELSE /\ IF p \in cached THEN Remove(p)
                                   ELSE UNCHANGED <<cached, entry, order, totalSize>>
                /\ Goto(t, "read")
                /\ UNCHANGED <<local, uses>>
        /\ UNCHANGED <<files, maxSize, lock, window, calls>>

\* read_to_string; an error gives "" and leaves the cache alone.
Read(t) ==
    LET p == key[t]
    IN  /\ pc[t] = "read"
        /\ \/ /\ p \in exists
              /\ local' = [local EXCEPT ![t].content = Present(p),
                                        ![t].len = versions[p][Present(p)].len]
              /\ Goto(t, "restat")
           \/ /\ local' = [local EXCEPT ![t] = NoEntry]
              /\ Goto(t, "return")
        /\ OnlyThread

\* The stamp is taken again; when that fails the first one is kept.
Restat(t) ==
    LET p == key[t]
    IN  /\ pc[t] = "restat"
        /\ \/ /\ p \in exists
              /\ local' = [local EXCEPT ![t].stamp = versions[p][Present(p)]]
           \/ UNCHANGED local
        /\ Goto(t, "insert")
        /\ OnlyThread

Return(t) ==
    /\ pc[t] = "return"
    /\ pc' = [pc EXCEPT ![t] = "idle"]
    /\ key' = [key EXCEPT ![t] = NoPath]
    /\ local' = [local EXCEPT ![t] = NoEntry]
    /\ window' = [window EXCEPT ![t] = {}]
    /\ UNCHANGED <<files, cache, lock, uses, calls>>

----------------------------------------------------------------------------
Next ==
    \/ \E p \in Path : Change(p) \/ Delete(p)
    \/ \E t \in Thread :
          \/ \E p \in Path : Begin(t, p)
          \/ \E n \in Limit : Resize(t, n)
          \/ Clear(t) \/ Stat(t) \/ Lookup(t) \/ Read(t) \/ Restat(t)
          \/ Insert(t) \/ EvictOne(t) \/ EvictDone(t) \/ Return(t)

Spec == Init /\ [][Next]_vars

----------------------------------------------------------------------------
(* What makes the cache correct.                                           *)

(***************************************************************************)
(* total_size is the sum of the entries that are cached, so that nothing   *)
(* is lost to saturating_sub, however entries are replaced, evicted and    *)
(* found stale; and outside of the lock it is within the limit, though one *)
(* entry may be longer than that and the limit may be lowered.             *)
(***************************************************************************)
SizeExact ==
    /\ totalSize = Total(entry, cached)
    /\ lock = {} => totalSize <= maxSize

(***************************************************************************)
(* What is evicted is what was used longest ago: the queue has the keys of *)
(* the map, each once and no other, in the order of their last use by any  *)
(* thread, hits included.                                                  *)
(***************************************************************************)
OrderedByUse == order = Keep(uses, cached)

\* Every change of the file so far has changed its length or its
\* modification time.
Traced(p) == \A v, w \in DOMAIN versions[p] : versions[p][v] = versions[p][w] => v = w

\* read_file_view is about to return what t has in hand.
Answers(t) == pc[t] = "return" /\ key[t] \in Path
Fresh(t) == local[t].content \in {0} \cup window[t]

(***************************************************************************)
(* What the repository's README promises of the cache: an entry goes when  *)
(* the size or the modification time of its file changes.  If every change *)
(* changes one of them, a call returns "" or contents the file had while   *)
(* the call was running.                                                   *)
(***************************************************************************)
InvalidatedOnChange ==
    \A t \in Thread : Answers(t) /\ Traced(key[t]) => Fresh(t)

(***************************************************************************)
(* And what the code keeps of that: whatever other threads put into the    *)
(* cache, evict or find stale meanwhile, a call returns older contents     *)
(* only if the file was changed in the one gap the code leaves, when a     *)
(* thread had read just these contents and had not stamped them yet.       *)
(***************************************************************************)
StaleOnlyIfRaced ==
    \A t \in Thread : Answers(t) /\ Traced(key[t])
        => Fresh(t) \/ local[t].content \in replaced[key[t]]

=============================================================================
