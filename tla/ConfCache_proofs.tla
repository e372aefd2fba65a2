-------------------------- MODULE ConfCache_proofs --------------------------
(***************************************************************************)
(* Theorems about ConfCache for any number of threads, files and versions: *)
(* what a call may return, however the files change and whatever other     *)
(* threads put into the cache meanwhile.                                   *)
(***************************************************************************)
EXTENDS ConfCache, Induction, FiniteSetTheorems, SequenceTheorems, TLAPS

LEMMA ElementType == ASSUME NEW S, NEW s \in Seq(S), NEW n \in 1..Len(s) PROVE s[n] \in S
  OBVIOUS

\* Contents without a stamp, the result of a call that could not read.
LEMMA NoEntryContent == NoEntry.content = 0 /\ NoEntry.len = 0
  BY DEF NoEntry

LEMMA PresentStamp ==
    ASSUME TypeOK, NEW p \in Path
    PROVE  /\ Present(p) \in 1..MaxVersions
           /\ Present(p) \in DOMAIN versions[p]
           /\ versions[p][Present(p)] \in Stamp
<1>1. versions[p] \in Seq(Stamp) /\ Present(p) \in 1..MaxVersions /\ Present(p) = Len(versions[p])
  BY DEF TypeOK, Present
<1>2. Present(p) \in 1..Len(versions[p])
  BY <1>1
<1> QED
  BY <1>1, <1>2, ElementType

----------------------------------------------------------------------------
(* Types.                                                                  *)

LEMMA InitType == Init => TypeOK
<1> SUFFICES ASSUME Init PROVE TypeOK
  OBVIOUS
<1>1. ASSUME NEW p \in Path PROVE versions[p] \in Seq(Stamp) /\ Present(p) = 1
  <2>1. PICK n \in Size : versions[p] = <<[len |-> n, modified |-> 1]>>
    BY DEF Init
  <2>2. [len |-> n, modified |-> 1] \in Stamp
    BY ConfCacheAssumption DEF Stamp, ConfCacheAssumption
  <2> QED
    BY <2>1, <2>2 DEF Present
<1>2. versions \in [Path -> Seq(Stamp)]
  BY <1>1 DEF Init
<1>3. 1 \in 1..MaxVersions
  BY ConfCacheAssumption DEF ConfCacheAssumption
<1> QED
  BY <1>1, <1>2, <1>3, ConfCacheAssumption DEF Init, TypeOK, ConfCacheAssumption

\* The files of one version more.
LEMMA ChangeVersions ==
    ASSUME TypeOK, NEW p \in Path, Change(p)
    PROVE  /\ versions' \in [Path -> Seq(Stamp)]
           /\ Present(p) + 1 \in 1..MaxVersions
           /\ Present(p)' = Present(p) + 1
           /\ \A q \in Path \ {p} : versions'[q] = versions[q]
           /\ \A v \in DOMAIN versions[p] : v \in DOMAIN versions'[p]
                                            /\ versions'[p][v] = versions[p][v]
<1> DEFINE v == Present(p) + 1
<1>0. v \in 1..MaxVersions /\ v - 1 = Present(p)
  <2>1. Present(p) + 1 <= MaxVersions
    BY Zenon DEF Change
  <2>2. Present(p) \in Nat
    BY PresentStamp
  <2> QED
    BY <2>1, <2>2, ConfCacheAssumption DEF ConfCacheAssumption
<1>1. PICK s : /\ s \in [len : Size, modified : {v}] \cup {versions[p][v - 1]}
               /\ versions' = [versions EXCEPT ![p] = Append(@, s)]
  BY DEF Change
<1>2. s \in Stamp
  BY <1>0, <1>1, PresentStamp DEF Stamp
<1>3. versions[p] \in Seq(Stamp) /\ Len(versions[p]) = Present(p)
  BY DEF TypeOK, Present
<1>4. versions'[p] = Append(versions[p], s)
  BY <1>1 DEF TypeOK
<1>5. Append(versions[p], s) \in Seq(Stamp)
  BY <1>2, <1>3
<1>6. \A q \in Path \ {p} : versions'[q] = versions[q]
  BY <1>1 DEF TypeOK
<1>7. versions' \in [Path -> Seq(Stamp)]
  BY <1>1, <1>4, <1>5, <1>6 DEF TypeOK
<1>8. Present(p)' = v
  BY <1>3, <1>4, <1>5 DEF Present
<1>9. \A w \in DOMAIN versions[p] : w \in DOMAIN versions'[p] /\ versions'[p][w] = versions[p][w]
  BY <1>2, <1>3, <1>4
<1> QED
  BY <1>0, <1>6, <1>7, <1>8, <1>9

LEMMA NextType == TypeOK /\ [Next]_vars => TypeOK'
<1> SUFFICES ASSUME TypeOK, [Next]_vars PROVE TypeOK'
  OBVIOUS
<1> USE DEF files, cache, thread, Goto, OnlyThread
<1>p. ASSUME UNCHANGED versions PROVE \A p \in Path : Present(p)' \in 1..MaxVersions
  BY <1>p DEF TypeOK, Present
<1>1. ASSUME NEW p \in Path, Change(p) PROVE TypeOK'
  <2>1. /\ exists' = exists \cup {p}
        /\ Seen(p, Present(p) + 1)
        /\ UNCHANGED <<cache, lock, thread, uses, calls>>
    BY <1>1 DEF Change
  <2>2. \A q \in Path : Present(q)' \in 1..MaxVersions
    BY <1>1, ChangeVersions DEF TypeOK, Present
  <2>3. window' \in [Thread -> SUBSET (1..MaxVersions)]
    BY <1>1, <2>1, ChangeVersions DEF Seen, TypeOK
  <2>4. replaced' \in [Path -> SUBSET (0..MaxVersions)]
    <3>1. InHand(p) \subseteq 0..MaxVersions
      BY DEF InHand, TypeOK, Entry
    <3>2. replaced' = [replaced EXCEPT ![p] = @ \cup InHand(p)]
      BY <1>1 DEF Change
    <3> QED
      BY <3>1, <3>2 DEF TypeOK
  <2> QED
    BY <1>1, <2>1, <2>2, <2>3, <2>4, ChangeVersions DEF TypeOK
<1>2. ASSUME NEW p \in Path, Delete(p) PROVE TypeOK'
  <2>1. UNCHANGED versions
    BY <1>2 DEF Delete
  <2> QED
    BY <1>2, <1>p, <2>1 DEF Delete, TypeOK
<1>3. ASSUME NEW t \in Thread, NEW p \in Path, Begin(t, p) PROVE TypeOK'
  <2>1. UNCHANGED versions /\ window' = [window EXCEPT ![t] = {Present(p)}]
    BY <1>3 DEF Begin
  <2>2. window' \in [Thread -> SUBSET (1..MaxVersions)]
    BY <2>1 DEF TypeOK
  <2>3. calls' \in 0..MaxCalls
    BY <1>3, ConfCacheAssumption DEF Begin, TypeOK, ConfCacheAssumption
  <2> QED
    BY <1>3, <1>p, <2>1, <2>2, <2>3 DEF Begin, TypeOK
<1>4. ASSUME NEW t \in Thread, NEW n \in Limit, Resize(t, n) PROVE TypeOK'
  <2>1. UNCHANGED versions
    BY <1>4 DEF Resize
  <2>2. calls' \in 0..MaxCalls
    BY <1>4, ConfCacheAssumption DEF Resize, TypeOK, ConfCacheAssumption
  <2> QED
    BY <1>4, <1>p, <2>1, <2>2 DEF Resize, TypeOK
<1>5. ASSUME NEW t \in Thread, Clear(t) PROVE TypeOK'
  <2>1. UNCHANGED versions
    BY <1>5 DEF Clear
  <2>2. calls' \in 0..MaxCalls
    BY <1>5, ConfCacheAssumption DEF Clear, TypeOK, ConfCacheAssumption
  <2> QED
    BY <1>5, <1>p, <2>1, <2>2 DEF Clear, TypeOK
<1>6. ASSUME NEW t \in Thread, Stat(t) PROVE TypeOK'
  <2> DEFINE new == [content |-> 0, len |-> 0, stamp |-> versions[key[t]][Present(key[t])]]
  <2>1. key[t] \in Path
    BY <1>6 DEF Stat, TypeOK
  <2>2. new \in Entry
    BY <2>1, PresentStamp, ConfCacheAssumption DEF Entry, ConfCacheAssumption
  <2>3. \/ local' = [local EXCEPT ![t] = new] /\ pc' = [pc EXCEPT ![t] = "lookup"]
        \/ local' = local /\ pc' = [pc EXCEPT ![t] = "return"]
    BY <1>6 DEF Stat
  <2>4. UNCHANGED <<files, cache, lock, window, calls, key>>
    BY <1>6 DEF Stat
  <2> HIDE DEF new
  <2> QED
    BY <2>1, <2>2, <2>3, <2>4, <1>p DEF TypeOK
\* What remove leaves.
<1>r. ASSUME NEW p, Unmap(p)
      PROVE  /\ cached' \subseteq Path
             /\ entry' \in [Path -> Entry \cup {NoEntry}]
             /\ \A q \in cached' : entry'[q] \in Entry
             /\ totalSize' \in Nat
  <2>1. p \in cached => entry[p].len \in Nat
    BY DEF TypeOK, Entry
  <2>2. totalSize' \in Nat
    BY <1>r, <2>1 DEF Unmap, Minus, TypeOK
  <2> QED
    BY <1>r, <2>2 DEF Unmap, TypeOK
<1>7. ASSUME NEW t \in Thread, Lookup(t) PROVE TypeOK'
  <2> DEFINE p == key[t]
  <2>1. pc[t] = "lookup" /\ p \in Path /\ UNCHANGED <<files, maxSize, lock, window, calls, key>>
    BY <1>7 DEF Lookup, TypeOK
  <2>2. CASE p \in cached /\ entry[p].stamp = local[t].stamp
    <3>1. /\ local' = [local EXCEPT ![t] = entry[p]] /\ pc' = [pc EXCEPT ![t] = "return"]
          /\ UNCHANGED <<cached, entry, totalSize>>
      BY <1>7, <2>2 DEF Lookup
    <3> QED
      BY <2>1, <2>2, <3>1, <1>p DEF TypeOK
  <2>3. CASE ~(p \in cached /\ entry[p].stamp = local[t].stamp)
    <3>1. /\ Remove(p) \/ UNCHANGED <<cached, entry, order, totalSize>>
          /\ pc' = [pc EXCEPT ![t] = "read"] /\ UNCHANGED local
      BY <1>7, <2>3 DEF Lookup
    <3>2. /\ cached' \subseteq Path
          /\ entry' \in [Path -> Entry \cup {NoEntry}]
          /\ \A q \in cached' : entry'[q] \in Entry
          /\ totalSize' \in Nat
      BY <3>1, <1>r DEF Remove, TypeOK
    <3> QED
      BY <2>1, <3>1, <3>2, <1>p DEF TypeOK
  <2> QED
    BY <2>2, <2>3
<1>8. ASSUME NEW t \in Thread, Read(t) PROVE TypeOK'
  <2>1. key[t] \in Path /\ local[t] \in Entry /\ pc[t] = "read"
    BY <1>8 DEF Read, TypeOK
  <2> DEFINE p == key[t]
             new == [local[t] EXCEPT !.content = Present(p), !.len = versions[p][Present(p)].len]
  <2>2. new \in Entry
    <3>1. versions[p][Present(p)] \in Stamp /\ Present(p) \in 1..MaxVersions
      BY <2>1, PresentStamp
    <3>2. versions[p][Present(p)].len \in Nat
      BY <3>1, ConfCacheAssumption DEF Stamp, ConfCacheAssumption
    <3>3. Present(p) \in 0..MaxVersions
      BY <3>1, ConfCacheAssumption DEF ConfCacheAssumption
    <3> QED
      BY <2>1, <3>2, <3>3 DEF Entry
  <2>3. \/ local' = [local EXCEPT ![t] = new] /\ pc' = [pc EXCEPT ![t] = "restat"]
        \/ local' = [local EXCEPT ![t] = NoEntry] /\ pc' = [pc EXCEPT ![t] = "return"]
    BY <1>8 DEF Read, TypeOK
  <2>4. UNCHANGED <<files, cache, lock, window, calls, key>>
    BY <1>8 DEF Read
  <2> HIDE DEF new
  <2> QED
    BY <2>1, <2>2, <2>3, <2>4, <1>p DEF TypeOK
<1>9. ASSUME NEW t \in Thread, Restat(t) PROVE TypeOK'
  <2>1. key[t] \in Path /\ local[t] \in Entry /\ pc[t] = "restat"
    BY <1>9 DEF Restat, TypeOK
  <2> DEFINE new == [local[t] EXCEPT !.stamp = versions[key[t]][Present(key[t])]]
  <2>2. new \in Entry
    BY <2>1, PresentStamp DEF Entry
  <2>3. local' = [local EXCEPT ![t] = new] \/ local' = local
    BY <1>9 DEF Restat, TypeOK
  <2>4. UNCHANGED <<files, cache, lock, window, calls, key>> /\ pc' = [pc EXCEPT ![t] = "insert"]
    BY <1>9 DEF Restat
  <2> HIDE DEF new
  <2> QED
    BY <2>1, <2>2, <2>3, <2>4, <1>p DEF TypeOK
<1>10. ASSUME NEW t \in Thread, Insert(t) PROVE TypeOK'
  <2>1. key[t] \in Path /\ local[t] \in Entry /\ local[t].len \in Nat
    BY <1>10 DEF Insert, TypeOK, Entry
  <2>2. (IF key[t] \in cached THEN entry[key[t]].len ELSE 0) \in Nat
    BY DEF TypeOK, Entry
  <2>3. totalSize' \in Nat
    BY <1>10, <2>1, <2>2 DEF Insert, Minus, TypeOK
  <2> QED
    BY <1>10, <2>1, <2>3, <1>p DEF Insert, TypeOK
<1>11. ASSUME NEW t \in Thread, EvictOne(t) PROVE TypeOK'
  <2>1. RemoveLast /\ UNCHANGED <<files, maxSize, lock, thread, window, calls>>
    BY <1>11 DEF EvictOne
  <2> QED
    BY <2>1, <1>r, <1>p DEF RemoveLast, TypeOK
<1>12. ASSUME NEW t \in Thread, EvictDone(t) PROVE TypeOK'
  BY <1>12, <1>p DEF EvictDone, TypeOK
<1>13. ASSUME NEW t \in Thread, Return(t) PROVE TypeOK'
  BY <1>13, <1>p DEF Return, TypeOK
<1>14. CASE UNCHANGED vars
  BY <1>14, <1>p DEF vars, TypeOK
<1> QED
  BY <1>1, <1>2, <1>3, <1>4, <1>5, <1>6, <1>7, <1>8, <1>9, <1>10, <1>11, <1>12, <1>13, <1>14
  DEF Next

\* Every variable keeps its type: no entry is cached without its stamp, and a thread that looks
\* at the cache has a path and a stamp in hand.
THEOREM TypeCorrect == Spec => []TypeOK
  BY InitType, NextType, PTL DEF Spec

----------------------------------------------------------------------------
(* What a call has in hand on its way to the result.                       *)

\* An entry of p has the stamp of a version no later than its contents, unless its contents
\* were replaced between the read and the stamp.
Stamped(p, e) ==
    /\ e.content <= Present(p)
    /\ \E v \in DOMAIN versions[p] :
          versions[p][v] = e.stamp /\ (v <= e.content \/ e.content \in replaced[p])

\* t looked at the file when it had this stamp, and its call has gone on since.
StampSeen(t) ==
    \E v \in DOMAIN versions[key[t]] :
        versions[key[t]][v] = local[t].stamp /\ v..Present(key[t]) \subseteq window[t]

\* t has read the file, and has the stamp of an earlier look.
ReadSince(t) ==
    /\ local[t].content <= Present(key[t])
    /\ local[t].content = Present(key[t]) \/ local[t].content \in replaced[key[t]]
    /\ \E v \in DOMAIN versions[key[t]] :
          versions[key[t]][v] = local[t].stamp /\ v <= local[t].content

FreshThread(t) ==
    /\ pc[t] \in {"idle", "stat"} => local[t] = NoEntry
    /\ pc[t] \in {"stat", "lookup", "read"} => Present(key[t]) \in window[t]
    /\ pc[t] \in {"lookup", "read"} => StampSeen(t)
    /\ pc[t] = "restat" => ReadSince(t)
    /\ pc[t] = "insert" => Stamped(key[t], local[t])
    /\ pc[t] \in {"lookup", "read", "restat", "insert", "evict"} => Fresh(t)
    /\ Answers(t) /\ Traced(key[t]) => Fresh(t) \/ local[t].content \in replaced[key[t]]

FreshInv ==
    /\ \A t \in Thread : FreshThread(t)
    /\ \A p \in cached : Stamped(p, entry[p])

\* A thread that does nothing, while the files stay.
LEMMA FreshStays ==
    ASSUME NEW t \in Thread, FreshThread(t), UNCHANGED <<versions, replaced>>,
           pc'[t] = pc[t], key'[t] = key[t], local'[t] = local[t], window'[t] = window[t]
    PROVE  FreshThread(t)'
  BY DEF FreshThread, StampSeen, ReadSince, Stamped, Fresh, Answers, Traced, Present

\* The contents of an entry are a number.
LEMMA EntryContent == ASSUME NEW e \in Entry PROVE e.content \in Nat
  BY ConfCacheAssumption DEF Entry, ConfCacheAssumption

\* What a new version does to the stamps and to what is counted as replaced.
LEMMA ChangeShows ==
    ASSUME TypeOK, NEW p \in Path, Change(p)
    PROVE  /\ UNCHANGED <<pc, key, local, cached, entry>>
           /\ \A q \in Path : \A v \in DOMAIN versions[q] :
                 v \in DOMAIN versions'[q] /\ versions'[q][v] = versions[q][v]
           /\ \A q \in Path : replaced[q] \subseteq replaced'[q]
           /\ \A t \in Thread : pc[t] = "restat" /\ key[t] = p => local[t].content \in replaced'[p]
           /\ \A t \in Thread : window[t] \subseteq window'[t]
           /\ \A t \in Thread : pc[t] # "idle" /\ key[t] = p => Present(p) + 1 \in window'[t]
           /\ Present(p)' = Present(p) + 1
           /\ \A q \in Path \ {p} : Present(q)' = Present(q)
<1>1. Seen(p, Present(p) + 1) /\ UNCHANGED <<pc, key, local, cached, entry>>
  BY DEF Change, thread, cache
<1>2. /\ \A t \in Thread : window[t] \subseteq window'[t]
      /\ \A t \in Thread : pc[t] # "idle" /\ key[t] = p => Present(p) + 1 \in window'[t]
  BY <1>1 DEF Seen, TypeOK
<1>3. /\ \A q \in Path : replaced[q] \subseteq replaced'[q]
      /\ InHand(p) \subseteq replaced'[p]
  <2>1. replaced' = [replaced EXCEPT ![p] = @ \cup InHand(p)]
    BY DEF Change
  <2>2. replaced \in [Path -> SUBSET (0..MaxVersions)]
    BY DEF TypeOK
  <2> QED
    BY <2>1, <2>2
<1>4. \A t \in Thread : pc[t] = "restat" /\ key[t] = p => local[t].content \in InHand(p)
  BY DEF InHand
<1> QED
  BY <1>1, <1>2, <1>3, <1>4, ChangeVersions DEF Present

LEMMA StampedAfterChange ==
    ASSUME TypeOK, NEW p \in Path, Change(p), NEW q \in Path, NEW e \in Entry, Stamped(q, e)
    PROVE  Stamped(q, e)'
<1>1. Present(q) \in Nat /\ Present(q)' \in Nat /\ Present(q) <= Present(q)' /\ e.content \in Nat
  BY ChangeShows, PresentStamp, EntryContent
<1>2. e.content <= Present(q)'
  BY <1>1 DEF Stamped
<1>3. PICK v \in DOMAIN versions[q] :
         versions[q][v] = e.stamp /\ (v <= e.content \/ e.content \in replaced[q])
  BY DEF Stamped
<1>4. /\ v \in DOMAIN versions'[q] /\ versions'[q][v] = e.stamp
      /\ v <= e.content \/ e.content \in replaced'[q]
  BY <1>3, ChangeShows
<1> QED
  BY <1>2, <1>4 DEF Stamped

\* A new version: the calls that read the file have seen it, what they had read and not
\* stamped is replaced, and stamps that were alike still are.
LEMMA FreshAfterChange ==
    ASSUME TypeOK, NEW p \in Path, Change(p), NEW t \in Thread, FreshThread(t)
    PROVE  FreshThread(t)'
<1> DEFINE k == key[t]
<1>0. UNCHANGED <<pc, key, local>> /\ window[t] \subseteq window'[t]
  BY ChangeShows
<1>1. pc[t] \in {"stat", "lookup", "read", "restat", "insert"} => k \in Path
  BY DEF TypeOK
<1>2. Fresh(t) => Fresh(t)'
  BY <1>0 DEF Fresh
<1>3. ASSUME k \in Path
      PROVE  /\ Present(k) \in Nat /\ Present(k)' \in Nat
             /\ k = p => Present(k)' = Present(k) + 1
             /\ k # p => Present(k)' = Present(k)
             /\ pc[t] # "idle" /\ k = p => Present(k) + 1 \in window'[t]
             /\ \A v \in DOMAIN versions[k] : v \in DOMAIN versions'[k] /\ v \in Nat
                                              /\ versions'[k][v] = versions[k][v]
             /\ replaced[k] \subseteq replaced'[k]
  <2>1. DOMAIN versions[k] \subseteq Nat
    BY <1>3 DEF TypeOK
  <2> QED
    BY <1>3, <2>1, ChangeShows, PresentStamp
<1>4. ASSUME pc[t] \in {"stat", "lookup", "read"} PROVE Present(key[t])' \in window'[t]
  <2>1. Present(k) \in window'[t]
    BY <1>0, <1>4 DEF FreshThread
  <2> QED
    BY <1>0, <1>1, <1>3, <1>4, <2>1 DEF Present
<1>5. ASSUME pc[t] \in {"lookup", "read"} PROVE StampSeen(t)'
  <2>1. PICK v \in DOMAIN versions[k] :
           versions[k][v] = local[t].stamp /\ v..Present(k) \subseteq window[t]
    BY <1>5 DEF FreshThread, StampSeen
  <2>2. v \in DOMAIN versions'[k] /\ versions'[k][v] = local'[t].stamp /\ v \in Nat
    BY <1>0, <1>1, <1>3, <1>5, <2>1
  <2>3. v..(Present(k)') \subseteq window'[t]
    <3>1. ASSUME NEW w \in v..(Present(k)') PROVE w \in v..Present(k) \/ (k = p /\ w = Present(k) + 1)
      BY <1>1, <1>3, <1>5, <2>2, <3>1
    <3> QED
      BY <1>0, <1>1, <1>3, <1>5, <2>1, <3>1
  <2> QED
    BY <1>0, <2>2, <2>3 DEF StampSeen, Present
<1>6. ASSUME pc[t] = "restat" PROVE ReadSince(t)'
  <2>1. local[t].content \in Nat
    BY <1>6, EntryContent DEF TypeOK
  <2>2. local[t].content <= Present(k)'
    BY <1>1, <1>3, <1>6, <2>1 DEF FreshThread, ReadSince
  <2>3. local[t].content = Present(k)' \/ local[t].content \in replaced'[k]
    <3>1. CASE k = p
      BY <1>6, <3>1, ChangeShows
    <3>2. CASE k # p
      BY <1>1, <1>3, <1>6, <3>2 DEF FreshThread, ReadSince
    <3> QED
      BY <3>1, <3>2
  <2>4. \E v \in DOMAIN versions'[k] : versions'[k][v] = local[t].stamp /\ v <= local[t].content
    BY <1>1, <1>3, <1>6 DEF FreshThread, ReadSince
  <2> QED
    BY <1>0, <2>2, <2>3, <2>4 DEF ReadSince, Present
<1>7. ASSUME pc[t] = "insert" PROVE Stamped(key[t], local[t])'
  <2>1. k \in Path /\ local[t] \in Entry /\ Stamped(k, local[t])
    BY <1>7 DEF TypeOK, FreshThread
  <2>2. PICK e \in Entry : e = local[t]
    BY <2>1
  <2>3. Stamped(k, e)'
    <3>1. Stamped(k, e)
      BY <2>1, <2>2, Zenon
    <3>2. PICK q \in Path : q = k
      BY <2>1
    <3>3. Stamped(q, e)
      BY <3>1, <3>2, Zenon
    <3>4. Stamped(q, e)'
      BY <3>3, StampedAfterChange
    <3> QED
      BY <1>0, <3>2, <3>4 DEF Stamped, Present
  <2> QED
    BY <1>0, <2>2, <2>3 DEF Stamped, Present
<1>8. ASSUME Answers(t), Traced(key[t])' PROVE Fresh(t)' \/ local'[t].content \in replaced'[key'[t]]
  <2>1. k \in Path
    BY <1>8 DEF Answers
  <2>2. Traced(k)
    BY <1>0, <1>3, <1>8, <2>1 DEF Traced
  <2> QED
    BY <1>0, <1>2, <1>3, <1>8, <2>1, <2>2 DEF FreshThread
<1>9. Answers(t)' => Answers(t)
  BY <1>0 DEF Answers
<1>10. pc'[t] \in {"idle", "stat"} => local'[t] = NoEntry
  BY <1>0 DEF FreshThread
<1>11. pc[t] \in {"lookup", "read", "restat", "insert", "evict"} => Fresh(t)'
  BY <1>2 DEF FreshThread
<1> HIDE DEF k
<1> QED
  BY <1>0, <1>4, <1>5, <1>6, <1>7, <1>8, <1>9, <1>10, <1>11 DEF FreshThread

\* What is taken out of the cache leaves the other entries.
LEMMA UnmapFresh ==
    ASSUME TypeOK, FreshInv, NEW p, Unmap(p), UNCHANGED <<versions, replaced>>
    PROVE  \A q \in cached' : Stamped(q, entry[q])' /\ q \in cached
<1> SUFFICES ASSUME NEW q \in cached' PROVE Stamped(q, entry[q])' /\ q \in cached
  OBVIOUS
<1>1. q \in cached /\ q # p /\ entry'[q] = entry[q]
  BY DEF Unmap, TypeOK
<1> QED
  BY <1>1 DEF FreshInv, Stamped, Present

LEMMA FreshInvNext == TypeOK /\ FreshInv /\ [Next]_vars => FreshInv'
<1> SUFFICES ASSUME TypeOK, FreshInv, [Next]_vars PROVE FreshInv'
  OBVIOUS
<1> USE DEF files, cache, thread, Goto, OnlyThread
\* The entries of the cache.
<1>c. ASSUME UNCHANGED <<versions, replaced, cached, entry>>
      PROVE  \A q \in cached' : Stamped(q, entry[q])'
  BY <1>c DEF FreshInv, Stamped, Present
<1>u. ASSUME UNCHANGED <<versions, replaced, thread, window>>,
             \A q \in cached' : Stamped(q, entry[q])'
      PROVE  FreshInv'
  BY <1>u, FreshStays DEF FreshInv
<1>1. ASSUME NEW p \in Path, Change(p) PROVE FreshInv'
  <2>1. \A t \in Thread : FreshThread(t)'
    BY <1>1, FreshAfterChange DEF FreshInv
  <2>2. ASSUME NEW q \in cached' PROVE Stamped(q, entry[q])'
    <3>1. q \in cached /\ q \in Path /\ entry[q] \in Entry /\ entry'[q] = entry[q]
      BY <1>1, ChangeShows DEF TypeOK
    <3>2. PICK e \in Entry : e = entry[q]
      BY <3>1
    <3>3. Stamped(q, e)'
      BY <1>1, <3>1, <3>2, StampedAfterChange DEF FreshInv
    <3> QED
      BY <3>1, <3>2, <3>3 DEF Stamped, Present
  <2> QED
    BY <2>1, <2>2 DEF FreshInv
<1>2. ASSUME NEW p \in Path, Delete(p) PROVE FreshInv'
  BY <1>2, <1>u, <1>c DEF Delete
\* One thread takes a step; what remains is to look at that thread and at the cache.
<1>m. ASSUME NEW t \in Thread, UNCHANGED <<versions, replaced>>, FreshThread(t)',
             NEW where, pc' = [pc EXCEPT ![t] = where],
             UNCHANGED key \/ \E k : key' = [key EXCEPT ![t] = k],
             UNCHANGED local \/ \E e : local' = [local EXCEPT ![t] = e],
             UNCHANGED window \/ \E w : window' = [window EXCEPT ![t] = w],
             \A q \in cached' : Stamped(q, entry[q])'
      PROVE  FreshInv'
  <2>1. ASSUME NEW u \in Thread \ {t} PROVE FreshThread(u)'
    <3>1. pc'[u] = pc[u] /\ key'[u] = key[u] /\ local'[u] = local[u] /\ window'[u] = window[u]
      BY <1>m DEF TypeOK
    <3> QED
      BY <1>m, <3>1, FreshStays DEF FreshInv
  <2> QED
    BY <1>m, <2>1 DEF FreshInv
<1>3. ASSUME NEW t \in Thread, NEW p \in Path, Begin(t, p) PROVE FreshInv'
  <2>1. /\ pc[t] = "idle" /\ pc' = [pc EXCEPT ![t] = "stat"] /\ key' = [key EXCEPT ![t] = p]
        /\ window' = [window EXCEPT ![t] = {Present(p)}]
        /\ UNCHANGED <<versions, replaced, cached, entry, local>>
    BY <1>3 DEF Begin
  <2>2. pc'[t] = "stat" /\ key'[t] = p /\ Present(p) \in window'[t] /\ local'[t] = local[t]
    BY <2>1 DEF TypeOK
  <2>3. FreshThread(t)'
    BY <2>1, <2>2 DEF FreshInv, FreshThread, Answers, Present
  <2> QED
    BY <1>m, <1>c, <2>1, <2>3
<1>4. ASSUME NEW t \in Thread, NEW n \in Limit, Resize(t, n) PROVE FreshInv'
  <2>1. /\ pc[t] = "idle" /\ pc' = [pc EXCEPT ![t] = "evict"]
        /\ UNCHANGED <<versions, replaced, cached, entry, key, local, window>>
    BY <1>4 DEF Resize
  <2>2. pc'[t] = "evict" /\ local'[t] = NoEntry
    BY <2>1 DEF TypeOK, FreshInv, FreshThread
  <2>3. FreshThread(t)'
    BY <2>2, NoEntryContent DEF FreshThread, Fresh, Answers
  <2> QED
    BY <1>m, <1>c, <2>1, <2>3
<1>5. ASSUME NEW t \in Thread, Clear(t) PROVE FreshInv'
  BY <1>5, <1>u DEF Clear
<1>6. ASSUME NEW t \in Thread, Stat(t) PROVE FreshInv'
  <2> DEFINE new == [content |-> 0, len |-> 0, stamp |-> versions[key[t]][Present(key[t])]]
  <2>1. key[t] \in Path /\ pc[t] = "stat" /\ Present(key[t]) \in window[t] /\ local[t] = NoEntry
    BY <1>6 DEF Stat, TypeOK, FreshInv, FreshThread
  <2>2. UNCHANGED <<versions, replaced, cached, entry, key, window>>
    BY <1>6 DEF Stat
  <2>3. CASE local' = [local EXCEPT ![t] = new] /\ pc' = [pc EXCEPT ![t] = "lookup"]
    <3>1. pc'[t] = "lookup" /\ local'[t] = new /\ new.content = 0
          /\ new.stamp = versions[key[t]][Present(key[t])]
      BY <2>3 DEF TypeOK
    <3>2. Present(key[t]) \in DOMAIN versions[key[t]] /\ Present(key[t]) \in Nat
      BY <2>1, PresentStamp
    <3> HIDE DEF new
    <3>3. Present(key[t])..Present(key[t]) \subseteq window[t]
      BY <2>1, <3>2
    <3>4. StampSeen(t)' /\ Fresh(t)'
      BY <2>1, <2>2, <3>1, <3>2, <3>3 DEF StampSeen, Fresh, Present
    <3>5. FreshThread(t)'
      BY <2>1, <2>2, <3>1, <3>4 DEF FreshThread, Answers, Present
    <3> QED
      BY <1>m, <1>c, <2>2, <2>3, <3>5
  <2>4. CASE UNCHANGED local /\ pc' = [pc EXCEPT ![t] = "return"]
    <3>1. FreshThread(t)'
      BY <2>1, <2>4, NoEntryContent DEF FreshThread, Fresh, TypeOK
    <3> QED
      BY <1>m, <1>c, <2>2, <2>4, <3>1
  <2> QED
    BY <1>6, <2>3, <2>4 DEF Stat
<1>7. ASSUME NEW t \in Thread, Lookup(t) PROVE FreshInv'
  <2> DEFINE p == key[t]
  <2>1. /\ pc[t] = "lookup" /\ p \in Path /\ StampSeen(t) /\ Fresh(t)
        /\ Present(p) \in window[t]
    BY <1>7 DEF Lookup, TypeOK, FreshInv, FreshThread
  <2>2. UNCHANGED <<versions, replaced, key, window>>
    BY <1>7 DEF Lookup
  <2>3. CASE p \in cached /\ entry[p].stamp = local[t].stamp
    <3>1. /\ local' = [local EXCEPT ![t] = entry[p]] /\ pc' = [pc EXCEPT ![t] = "return"]
          /\ UNCHANGED <<cached, entry>>
      BY <1>7, <2>3 DEF Lookup
    <3>2. pc'[t] = "return" /\ local'[t] = entry[p]
      BY <3>1 DEF TypeOK
    <3>3. PICK v \in DOMAIN versions[p] :
             versions[p][v] = entry[p].stamp /\ v..Present(p) \subseteq window[t]
      BY <2>1, <2>3 DEF StampSeen
    <3>4. /\ entry[p].content <= Present(p)
          /\ \E w \in DOMAIN versions[p] :
                versions[p][w] = entry[p].stamp
                    /\ (w <= entry[p].content \/ entry[p].content \in replaced[p])
      BY <2>3 DEF FreshInv, Stamped
    <3>5. entry[p].content \in Nat /\ Present(p) \in Nat /\ v \in Nat
      BY <2>1, <2>3, <3>3, EntryContent, PresentStamp DEF TypeOK
    <3>6. Traced(p) => entry[p].content \in window[t] \/ entry[p].content \in replaced[p]
      <4>1. Traced(p) => v <= entry[p].content \/ entry[p].content \in replaced[p]
        BY <3>3, <3>4 DEF Traced
      <4>2. v <= entry[p].content => entry[p].content \in v..Present(p)
        BY <3>4, <3>5
      <4> QED
        BY <3>3, <4>1, <4>2
    <3>7. FreshThread(t)'
      BY <2>1, <2>2, <3>2, <3>6 DEF FreshThread, Fresh, Traced
    <3> QED
      BY <1>m, <1>c, <2>2, <3>1, <3>7
  <2>4. CASE ~(p \in cached /\ entry[p].stamp = local[t].stamp)
    <3>1. /\ UNCHANGED local /\ pc' = [pc EXCEPT ![t] = "read"]
          /\ Remove(p) \/ UNCHANGED <<cached, entry>>
      BY <1>7, <2>4 DEF Lookup
    <3>2. pc'[t] = "read" /\ StampSeen(t)' /\ Fresh(t)' /\ Present(p)' \in window'[t]
      BY <2>1, <2>2, <3>1 DEF StampSeen, Fresh, Present, TypeOK
    <3>3. FreshThread(t)'
      BY <2>2, <3>2 DEF FreshThread, Answers, Present
    <3>4. \A q \in cached' : Stamped(q, entry[q])'
      BY <1>c, <2>2, <3>1, UnmapFresh DEF Remove
    <3> QED
      BY <1>m, <2>2, <3>1, <3>3, <3>4
  <2> QED
    BY <2>3, <2>4
<1>8. ASSUME NEW t \in Thread, Read(t) PROVE FreshInv'
  <2> DEFINE p == key[t]
             new == [local[t] EXCEPT !.content = Present(p), !.len = versions[p][Present(p)].len]
  <2>1. /\ pc[t] = "read" /\ Present(p) \in window[t] /\ local[t] \in Entry
        /\ StampSeen(t) /\ p \in Path
    BY <1>8 DEF Read, FreshInv, FreshThread, TypeOK
  <2>2. UNCHANGED <<versions, replaced, cached, entry, key, window>>
    BY <1>8 DEF Read
  <2>3. new.content = Present(p) /\ new.stamp = local[t].stamp
    BY <2>1 DEF Entry
  <2>4. \/ local' = [local EXCEPT ![t] = new] /\ pc' = [pc EXCEPT ![t] = "restat"]
        \/ local' = [local EXCEPT ![t] = NoEntry] /\ pc' = [pc EXCEPT ![t] = "return"]
    BY <1>8 DEF Read, TypeOK
  <2> HIDE DEF new
  <2>5. FreshThread(t)'
    <3>1. CASE local' = [local EXCEPT ![t] = new] /\ pc' = [pc EXCEPT ![t] = "restat"]
      <4>1. pc'[t] = "restat" /\ local'[t] = new
        BY <3>1 DEF TypeOK
      <4>2. PICK v \in DOMAIN versions[p] : versions[p][v] = local[t].stamp
        BY <2>1 DEF StampSeen
      <4>3. v <= Present(p) /\ Present(p) <= Present(p)
        BY <2>1, PresentStamp DEF TypeOK, Present
      <4>4. ReadSince(t)'
        BY <2>2, <2>3, <4>1, <4>2, <4>3 DEF ReadSince, Present
      <4>5. Fresh(t)'
        BY <2>1, <2>2, <2>3, <4>1 DEF Fresh
      <4> QED
        BY <4>1, <4>4, <4>5 DEF FreshThread, Answers
    <3>2. CASE local' = [local EXCEPT ![t] = NoEntry] /\ pc' = [pc EXCEPT ![t] = "return"]
      <4>1. pc'[t] = "return" /\ local'[t] = NoEntry
        BY <3>2 DEF TypeOK
      <4> QED
        BY <4>1, NoEntryContent DEF FreshThread, Fresh
    <3> QED
      BY <2>4, <3>1, <3>2
  <2> QED
    BY <1>m, <1>c, <2>2, <2>4, <2>5
<1>9. ASSUME NEW t \in Thread, Restat(t) PROVE FreshInv'
  <2> DEFINE p == key[t]
             new == [local[t] EXCEPT !.stamp = versions[p][Present(p)]]
  <2>1. pc[t] = "restat" /\ Fresh(t) /\ local[t] \in Entry /\ p \in Path /\ ReadSince(t)
    BY <1>9 DEF Restat, FreshInv, FreshThread, TypeOK
  <2>2. UNCHANGED <<versions, replaced, cached, entry, key, window>>
        /\ pc' = [pc EXCEPT ![t] = "insert"]
    BY <1>9 DEF Restat
  <2>3. new.content = local[t].content /\ new.stamp = versions[p][Present(p)]
    BY <2>1 DEF Entry
  <2>4. local' = [local EXCEPT ![t] = new] \/ local' = local
    BY <1>9 DEF Restat, TypeOK
  <2> HIDE DEF new
  <2>5. pc'[t] = "insert" /\ (local'[t] = new \/ local'[t] = local[t])
    BY <2>2, <2>4 DEF TypeOK
  <2>6. Stamped(p, local[t]) /\ Stamped(p, new)
    <3>1. /\ local[t].content <= Present(p)
          /\ local[t].content = Present(p) \/ local[t].content \in replaced[p]
          /\ \E v \in DOMAIN versions[p] :
                versions[p][v] = local[t].stamp /\ v <= local[t].content
      BY <2>1 DEF ReadSince
    <3>2. Present(p) \in DOMAIN versions[p] /\ Present(p) <= Present(p)
      BY <2>1, PresentStamp
    <3>3. Stamped(p, local[t])
      BY <3>1 DEF Stamped
    <3>4. Stamped(p, new)
      BY <2>3, <3>1, <3>2 DEF Stamped
    <3> QED
      BY <3>3, <3>4
  <2>7. Stamped(key[t], local[t])'
    BY <2>2, <2>5, <2>6 DEF Stamped, Present
  <2>8. Fresh(t)'
    BY <2>1, <2>2, <2>3, <2>5 DEF Fresh
  <2>9. FreshThread(t)'
    BY <2>5, <2>7, <2>8 DEF FreshThread, Answers
  <2> QED
    BY <1>m, <1>c, <2>2, <2>4, <2>9
<1>10. ASSUME NEW t \in Thread, Insert(t) \/ EvictDone(t) PROVE FreshInv'
  <2>1. pc[t] \in {"insert", "evict"} /\ Fresh(t)
    BY <1>10 DEF Insert, EvictDone, FreshInv, FreshThread
  <2>2. UNCHANGED <<versions, replaced, key, local, window>>
        /\ \E where \in {"evict", "return"} : pc' = [pc EXCEPT ![t] = where]
    BY <1>10 DEF Insert, EvictDone
  <2>3. FreshThread(t)'
    BY <2>1, <2>2 DEF FreshThread, Fresh, TypeOK
  <2>4. ASSUME NEW q \in cached' PROVE Stamped(q, entry[q])'
    <3>1. \/ q \in cached /\ entry'[q] = entry[q]
          \/ pc[t] = "insert" /\ q = key[t] /\ entry'[q] = local[t]
      BY <1>10 DEF Insert, EvictDone, TypeOK
    <3>2. Stamped(q, entry'[q])
      BY <3>1 DEF FreshInv, FreshThread
    <3> QED
      BY <2>2, <3>2 DEF Stamped, Present
  <2> QED
    BY <1>m, <2>2, <2>3, <2>4
<1>11. ASSUME NEW t \in Thread, EvictOne(t) PROVE FreshInv'
  <2>1. Unmap(order[Len(order)]) /\ UNCHANGED <<versions, replaced, thread, window>>
    BY <1>11 DEF EvictOne, RemoveLast
  <2> QED
    BY <1>u, <2>1, UnmapFresh
<1>12. ASSUME NEW t \in Thread, Return(t) PROVE FreshInv'
  <2>1. /\ pc' = [pc EXCEPT ![t] = "idle"] /\ key' = [key EXCEPT ![t] = NoPath]
        /\ local' = [local EXCEPT ![t] = NoEntry] /\ window' = [window EXCEPT ![t] = {}]
        /\ UNCHANGED <<versions, replaced, cached, entry>>
    BY <1>12 DEF Return
  <2>2. FreshThread(t)'
    BY <2>1 DEF FreshThread, Answers, TypeOK
  <2> QED
    BY <1>m, <1>c, <2>1, <2>2
<1>13. CASE UNCHANGED vars
  BY <1>13, <1>u, <1>c DEF vars
<1> QED
  BY <1>1, <1>2, <1>3, <1>4, <1>5, <1>6, <1>7, <1>8, <1>9, <1>10, <1>11, <1>12, <1>13 DEF Next

\* For any number of threads, files and versions: while every change of a file shows in its
\* length or its modification time, a call returns contents the file had while it was running,
\* or none, or contents that were replaced just between the read and the stamp of some call.
THEOREM StaleOnlyIfRacedHolds == Spec => []StaleOnlyIfRaced
<1>1. Init => FreshInv
  BY DEF Init, FreshInv, FreshThread, Answers
<1>2. FreshInv => StaleOnlyIfRaced
  BY DEF FreshInv, FreshThread, StaleOnlyIfRaced
<1> QED
  BY <1>1, <1>2, FreshInvNext, TypeCorrect, PTL DEF Spec

----------------------------------------------------------------------------
(* Queues of paths.                                                        *)

Keeping(f, s, P) ==
    f = [n \in 0..Len(s) |->
            IF n = 0 THEN <<>>
            ELSE IF s[n] \in P THEN Append(f[n - 1], s[n]) ELSE f[n - 1]]

LEMMA KeepingExists ==
    ASSUME NEW s \in Seq(Path), NEW P
    PROVE  \E f : Keeping(f, s, P)
<1> DEFINE Q(k, f) == f = [n \in 0..k |->
                 IF n = 0 THEN <<>>
                 ELSE IF s[n] \in P THEN Append(f[n - 1], s[n]) ELSE f[n - 1]]
           S == {k \in Nat : \E f : Q(k, f)}
<1>1. \E f : Q(0, f)
  <2>1. Q(0, [n \in 0..0 |-> <<>>])
    OBVIOUS
  <2> QED
    BY <2>1
<1>2. ASSUME NEW k \in Nat, \E f : Q(k, f) PROVE \E f : Q(k + 1, f)
  <2>1. PICK f : Q(k, f)
    BY <1>2
  <2> DEFINE g == [n \in 0..(k + 1) |->
                 IF n = 0 THEN <<>>
                 ELSE IF s[n] \in P THEN Append(f[n - 1], s[n]) ELSE f[n - 1]]
  <2>2. ASSUME NEW n \in 0..k PROVE g[n] = f[n]
    <3>1. f[n] = IF n = 0 THEN <<>>
                 ELSE IF s[n] \in P THEN Append(f[n - 1], s[n]) ELSE f[n - 1]
      BY <2>1
    <3>2. n \in 0..(k + 1)
      OBVIOUS
    <3> QED
      BY <3>1, <3>2
  <2>3. ASSUME NEW n \in 0..(k + 1)
        PROVE  g[n] = IF n = 0 THEN <<>>
                      ELSE IF s[n] \in P THEN Append(g[n - 1], s[n]) ELSE g[n - 1]
    <3>1. CASE n = 0
      BY <3>1
    <3>2. CASE n # 0
      <4>1. n - 1 \in 0..k
        BY <3>2
      <4>2. g[n - 1] = f[n - 1]
        <5> HIDE DEF g
        <5> QED
          BY <2>2, <4>1
      <4>3. g[n] = IF s[n] \in P THEN Append(f[n - 1], s[n]) ELSE f[n - 1]
        BY <3>2
      <4> HIDE DEF g
      <4> QED
        BY <3>2, <4>2, <4>3
    <3> QED
      BY <3>1, <3>2
  <2>4. g = [n \in 0..(k + 1) |-> g[n]]
    OBVIOUS
  <2>5. Q(k + 1, g)
    <3> HIDE DEF g
    <3> QED
      BY <2>3, <2>4
  <2> HIDE DEF Q, g
  <2> QED
    BY <2>5
<1> HIDE DEF Q
<1>3. 0 \in S /\ \A k \in Nat : k \in S => k + 1 \in S
  BY <1>1, <1>2
<1>4. \A k \in Nat : k \in S
  <2> HIDE DEF S
  <2> QED
    BY <1>3, Induction
<1>5. Len(s) \in Nat
  OBVIOUS
<1> QED
  BY <1>4, <1>5 DEF Q, Keeping

LEMMA KeepIs ==
    ASSUME NEW s \in Seq(Path), NEW P
    PROVE  \E f : Keeping(f, s, P) /\ Keep(s, P) = f[Len(s)]
<1> DEFINE h == CHOOSE f : Keeping(f, s, P)
<1>1. Keep(s, P) = h[Len(s)]
  BY Zenon DEF Keep, Keeping
<1>2. Keeping(h, s, P)
  BY KeepingExists
<1> HIDE DEF h
<1> QED
  BY <1>1, <1>2

LEMMA KeepEmpty == ASSUME NEW P PROVE Keep(<<>>, P) = <<>>
<1>1. <<>> \in Seq(Path) /\ Len(<<>>) = 0
  OBVIOUS
<1>2. PICK f : Keeping(f, <<>>, P) /\ Keep(<<>>, P) = f[Len(<<>>)]
  BY <1>1, KeepIs
<1> QED
  BY <1>1, <1>2 DEF Keeping

LEMMA KeepAppend ==
    ASSUME NEW s \in Seq(Path), NEW x \in Path, NEW P
    PROVE  Keep(Append(s, x), P) = IF x \in P THEN Append(Keep(s, P), x) ELSE Keep(s, P)
<1> DEFINE t == Append(s, x)
<1>1. /\ t \in Seq(Path) /\ Len(t) = Len(s) + 1 /\ Len(s) \in Nat
      /\ \A n \in 1..Len(s) : t[n] = s[n]
      /\ t[Len(s) + 1] = x
  OBVIOUS
<1> HIDE DEF t
<1>2. PICK f : Keeping(f, s, P) /\ Keep(s, P) = f[Len(s)]
  BY KeepIs
<1>3. PICK g : Keeping(g, t, P) /\ Keep(t, P) = g[Len(t)]
  BY <1>1, KeepIs
<1> DEFINE S == {k \in Nat : k <= Len(s) => g[k] = f[k]}
<1>4. \A n \in 0..Len(s) : f[n] = IF n = 0 THEN <<>> ELSE
          IF s[n] \in P THEN Append(f[n - 1], s[n]) ELSE f[n - 1]
  BY <1>2 DEF Keeping
<1>5. \A n \in 0..(Len(s) + 1) : g[n] = IF n = 0 THEN <<>> ELSE
          IF t[n] \in P THEN Append(g[n - 1], t[n]) ELSE g[n - 1]
  BY <1>1, <1>3 DEF Keeping
<1>6. 0 \in S
  BY <1>1, <1>4, <1>5
<1>7. ASSUME NEW k \in Nat, k \in S PROVE k + 1 \in S
  <2>1. SUFFICES ASSUME k + 1 <= Len(s) PROVE g[k + 1] = f[k + 1]
    OBVIOUS
  <2>2. k + 1 \in 0..Len(s) /\ k + 1 \in 0..(Len(s) + 1) /\ k + 1 \in 1..Len(s) /\ k + 1 # 0
        /\ k + 1 - 1 = k /\ k <= Len(s)
    BY <1>1, <2>1
  <2>3. f[k + 1] = IF s[k + 1] \in P THEN Append(f[k], s[k + 1]) ELSE f[k]
    BY <1>4, <2>2
  <2>4. g[k + 1] = IF t[k + 1] \in P THEN Append(g[k], t[k + 1]) ELSE g[k]
    BY <1>5, <2>2
  <2>5. t[k + 1] = s[k + 1] /\ g[k] = f[k]
    BY <1>1, <1>7, <2>2
  <2> QED
    BY <2>3, <2>4, <2>5
<1>8. \A k \in Nat : k \in S
  <2> HIDE DEF S
  <2> QED
    BY <1>6, <1>7, Induction
<1>9. g[Len(s)] = f[Len(s)]
  BY <1>1, <1>8
<1>10. Len(s) + 1 \in 0..(Len(s) + 1) /\ Len(s) + 1 # 0 /\ Len(s) + 1 - 1 = Len(s)
  BY <1>1
<1>11. g[Len(s) + 1] = IF x \in P THEN Append(g[Len(s)], x) ELSE g[Len(s)]
  BY <1>1, <1>5, <1>10
<1> QED
  BY <1>1, <1>2, <1>3, <1>9, <1>11 DEF t

\* Every queue is empty or has a last path.
LEMMA AppendForm ==
    ASSUME NEW n \in Nat, NEW s \in Seq(Path), Len(s) = n + 1
    PROVE  \E u \in Seq(Path), x \in Path : s = Append(u, x) /\ Len(u) = n
<1> DEFINE u == SubSeq(s, 1, n)
<1>1. u \in Seq(Path) /\ Len(u) = n /\ \A i \in 1..n : u[i] = s[i]
  <2>1. \A i \in 1..n : s[i] \in Path
    OBVIOUS
  <2> QED
    BY <2>1, SubSeqProperties
<1>2. s[n + 1] \in Path
  OBVIOUS
<1> HIDE DEF u
<1>3. s = Append(u, s[n + 1])
  <2>1. Append(u, s[n + 1]) \in Seq(Path) /\ Len(Append(u, s[n + 1])) = n + 1
        /\ \A i \in 1..(n + 1) : Append(u, s[n + 1])[i] = s[i]
    BY <1>1, <1>2
  <2> QED
    BY <2>1, SeqEqual
<1> QED
  BY <1>1, <1>2, <1>3

\* A set of queues that has the empty one, and with a queue the queue of one path more, has all.
LEMMA QueueInduction ==
    ASSUME NEW T, <<>> \in T,
           \A u \in Seq(Path), x \in Path : u \in T => Append(u, x) \in T
    PROVE  \A s \in Seq(Path) : s \in T
<1> DEFINE S == {k \in Nat : \A s \in Seq(Path) : Len(s) = k => s \in T}
<1>1. 0 \in S
  OBVIOUS
<1>2. ASSUME NEW k \in Nat, k \in S PROVE k + 1 \in S
  <2>1. ASSUME NEW s \in Seq(Path), Len(s) = k + 1 PROVE s \in T
    <3>1. PICK u \in Seq(Path), x \in Path : s = Append(u, x) /\ Len(u) = k
      BY <2>1, AppendForm
    <3> QED
      BY <1>2, <3>1
  <2> QED
    BY <2>1
<1>3. \A k \in Nat : k \in S
  <2> HIDE DEF S
  <2> QED
    BY <1>1, <1>2, Induction
<1>4. ASSUME NEW s \in Seq(Path) PROVE s \in T
  <2>1. Len(s) \in Nat
    OBVIOUS
  <2> QED
    BY <1>3, <2>1
<1> QED
  BY <1>4

LEMMA KeepType ==
    ASSUME NEW P PROVE \A s \in Seq(Path) : Keep(s, P) \in Seq(Path)
<1> DEFINE T == {s \in Seq(Path) : Keep(s, P) \in Seq(Path)}
<1>1. <<>> \in T
  <2>1. <<>> \in Seq(Path)
    OBVIOUS
  <2> QED
    BY <2>1, KeepEmpty
<1>2. ASSUME NEW u \in Seq(Path), NEW x \in Path, u \in T PROVE Append(u, x) \in T
  <2>1. Keep(Append(u, x), P) = IF x \in P THEN Append(Keep(u, P), x) ELSE Keep(u, P)
    BY KeepAppend
  <2>2. Keep(u, P) \in Seq(Path) /\ Append(u, x) \in Seq(Path)
    BY <1>2
  <2>3. Append(Keep(u, P), x) \in Seq(Path)
    BY <2>2
  <2> QED
    BY <2>1, <2>2, <2>3
<1>3. \A s \in Seq(Path) : s \in T
  <2> HIDE DEF T
  <2> QED
    BY <1>1, <1>2, QueueInduction
<1> QED
  BY <1>3

LEMMA KeepKeep ==
    ASSUME NEW P, NEW R
    PROVE  \A s \in Seq(Path) : Keep(Keep(s, P), R) = Keep(s, P \cap R)
<1> DEFINE T == {s \in Seq(Path) : Keep(Keep(s, P), R) = Keep(s, P \cap R)}
<1>1. <<>> \in T
  BY KeepEmpty
<1>2. ASSUME NEW u \in Seq(Path), NEW x \in Path, u \in T PROVE Append(u, x) \in T
  <2>1. Keep(u, P) \in Seq(Path)
    BY KeepType
  <2>4. /\ Append(u, x) \in Seq(Path)
        /\ Keep(Append(u, x), P) = IF x \in P THEN Append(Keep(u, P), x) ELSE Keep(u, P)
        /\ Keep(Append(u, x), P \cap R) = IF x \in P \cap R THEN Append(Keep(u, P \cap R), x)
                                         ELSE Keep(u, P \cap R)
        /\ Keep(Append(Keep(u, P), x), R) = IF x \in R THEN Append(Keep(Keep(u, P), R), x)
                                            ELSE Keep(Keep(u, P), R)
    BY <2>1, KeepAppend
  <2>2. CASE x \in P
    <3>1. Keep(Append(u, x), P) = Append(Keep(u, P), x)
      BY <2>2, <2>4
    <3>2. Keep(Keep(u, P), R) = Keep(u, P \cap R)
      BY <1>2
    <3>3. Keep(Keep(Append(u, x), P), R) = Keep(Append(u, x), P \cap R)
      <4>1. CASE x \in R
        <5>1. x \in P \cap R
          BY <2>2, <4>1
        <5> QED
          BY Zenon, <2>4, <3>1, <3>2, <4>1, <5>1
      <4>2. CASE x \notin R
        <5>1. x \notin P \cap R
          BY <4>2
        <5> QED
          BY Zenon, <2>4, <3>1, <3>2, <4>2, <5>1
      <4> QED
        BY <4>1, <4>2
    <3> QED
      BY <2>4, <3>3
  <2>3. CASE x \notin P
    BY <1>2, <2>3, <2>4
  <2> QED
    BY <2>2, <2>3
<1>3. \A s \in Seq(Path) : s \in T
  <2> HIDE DEF T
  <2> QED
    BY <1>1, <1>2, QueueInduction
<1> QED
  BY <1>3

LEMMA AppendElements ==
    ASSUME NEW s \in Seq(Path), NEW x \in Path
    PROVE  Elements(Append(s, x)) = Elements(s) \cup {x}
<1> DEFINE t == Append(s, x)
<1>1. /\ t \in Seq(Path) /\ Len(t) = Len(s) + 1 /\ Len(s) \in Nat
      /\ DOMAIN t = 1..(Len(s) + 1) /\ DOMAIN s = 1..Len(s)
      /\ \A n \in 1..Len(s) : t[n] = s[n]
      /\ t[Len(s) + 1] = x
  OBVIOUS
<1>2. \A n \in 1..(Len(s) + 1) : n \in 1..Len(s) \/ n = Len(s) + 1
  BY <1>1
<1>3. Len(s) + 1 \in 1..(Len(s) + 1) /\ \A n \in 1..Len(s) : n \in 1..(Len(s) + 1)
  BY <1>1
<1> HIDE DEF t
<1> QED
  BY <1>1, <1>2, <1>3 DEF Elements, t

LEMMA KeepElements ==
    ASSUME NEW P
    PROVE  \A s \in Seq(Path) : Elements(Keep(s, P)) = Elements(s) \cap P
<1> DEFINE T == {s \in Seq(Path) : Elements(Keep(s, P)) = Elements(s) \cap P}
<1>1. <<>> \in T
  BY KeepEmpty DEF Elements
<1>2. ASSUME NEW u \in Seq(Path), NEW x \in Path, u \in T PROVE Append(u, x) \in T
  <2>1. Keep(u, P) \in Seq(Path)
    BY KeepType
  <2>4. /\ Append(u, x) \in Seq(Path)
        /\ Keep(Append(u, x), P) = IF x \in P THEN Append(Keep(u, P), x) ELSE Keep(u, P)
        /\ Elements(Append(u, x)) = Elements(u) \cup {x}
        /\ Elements(Append(Keep(u, P), x)) = Elements(Keep(u, P)) \cup {x}
    BY <2>1, KeepAppend, AppendElements
  <2>2. CASE x \in P
    BY <1>2, <2>2, <2>4
  <2>3. CASE x \notin P
    BY <1>2, <2>3, <2>4
  <2> QED
    BY <2>2, <2>3
<1>3. \A s \in Seq(Path) : s \in T
  <2> HIDE DEF T
  <2> QED
    BY <1>1, <1>2, QueueInduction
<1> QED
  BY <1>3

LEMMA KeepAll ==
    ASSUME NEW P
    PROVE  \A s \in Seq(Path) : Elements(s) \subseteq P => Keep(s, P) = s
<1> DEFINE T == {s \in Seq(Path) : Elements(s) \subseteq P => Keep(s, P) = s}
<1>1. <<>> \in T
  BY KeepEmpty
<1>2. ASSUME NEW u \in Seq(Path), NEW x \in Path, u \in T PROVE Append(u, x) \in T
  BY <1>2, KeepAppend, AppendElements
<1>3. \A s \in Seq(Path) : s \in T
  <2> HIDE DEF T
  <2> QED
    BY <1>1, <1>2, QueueInduction
<1> QED
  BY <1>3

LEMMA KeepConcat ==
    ASSUME NEW s \in Seq(Path), NEW P
    PROVE  \A t \in Seq(Path) : Keep(s \o t, P) = Keep(s, P) \o Keep(t, P)
<1> DEFINE T == {t \in Seq(Path) : Keep(s \o t, P) = Keep(s, P) \o Keep(t, P)}
<1>0. Keep(s, P) \in Seq(Path)
  BY KeepType
<1>a. \A r, t \in Seq(Path), x \in Path :
         r \o t \in Seq(Path) /\ r \o Append(t, x) = Append(r \o t, x)
  OBVIOUS
<1>b. \A r \in Seq(Path) : r \o <<>> = r
  OBVIOUS
<1>1. <<>> \in T
  BY <1>0, <1>b, KeepEmpty
<1>2. ASSUME NEW u \in Seq(Path), NEW x \in Path, u \in T PROVE Append(u, x) \in T
  <2>1. Keep(u, P) \in Seq(Path)
    BY KeepType
  <2>6. /\ s \o u \in Seq(Path) /\ s \o Append(u, x) = Append(s \o u, x)
        /\ Append(u, x) \in Seq(Path)
    BY <1>a
  <2>7. Keep(Append(s \o u, x), P) = IF x \in P THEN Append(Keep(s \o u, P), x)
                                     ELSE Keep(s \o u, P)
    BY <2>6, KeepAppend
  <2>2. Keep(s \o Append(u, x), P) = IF x \in P THEN Append(Keep(s \o u, P), x)
                                     ELSE Keep(s \o u, P)
    BY <2>6, <2>7
  <2>8. Keep(Append(u, x), P) = IF x \in P THEN Append(Keep(u, P), x) ELSE Keep(u, P)
    BY KeepAppend
  <2>3. Keep(s \o u, P) = Keep(s, P) \o Keep(u, P)
    BY <1>2
  <2>4. CASE x \in P
    <3>1. Keep(s, P) \o Append(Keep(u, P), x) = Append(Keep(s, P) \o Keep(u, P), x)
      BY <1>0, <1>a, <2>1
    <3> QED
      BY <2>2, <2>3, <2>4, <2>6, <2>8, <3>1
  <2>5. CASE x \notin P
    BY <2>2, <2>3, <2>5, <2>6, <2>8
  <2> QED
    BY <2>4, <2>5
<1>3. \A t \in Seq(Path) : t \in T
  <2> HIDE DEF T
  <2> QED
    BY <1>1, <1>2, QueueInduction
<1> QED
  BY <1>3

\* No path is in the queue twice.
Once(s) == \A i, j \in DOMAIN s : s[i] = s[j] => i = j

LEMMA AppendOnce ==
    ASSUME NEW s \in Seq(Path), NEW x \in Path
    PROVE  Once(Append(s, x)) <=> Once(s) /\ x \notin Elements(s)
<1> DEFINE t == Append(s, x)
<1>1. /\ Len(s) \in Nat
      /\ DOMAIN t = 1..(Len(s) + 1) /\ DOMAIN s = 1..Len(s)
      /\ \A n \in 1..Len(s) : t[n] = s[n]
      /\ t[Len(s) + 1] = x
  OBVIOUS
<1>2. \A n \in 1..(Len(s) + 1) : n \in 1..Len(s) \/ n = Len(s) + 1
  BY <1>1
<1>3. Len(s) + 1 \in 1..(Len(s) + 1) /\ \A n \in 1..Len(s) : n \in 1..(Len(s) + 1) /\ n # Len(s) + 1
  BY <1>1
<1> HIDE DEF t
<1>4. Once(t) <=> Once(s) /\ x \notin Elements(s)
  BY <1>1, <1>2, <1>3 DEF Elements, Once
<1> QED
  BY <1>4 DEF t

LEMMA KeepOnce ==
    ASSUME NEW P
    PROVE  \A s \in Seq(Path) : Once(s) => Once(Keep(s, P))
<1> DEFINE T == {s \in Seq(Path) : Once(s) => Once(Keep(s, P))}
<1>1. <<>> \in T
  BY KeepEmpty
<1>2. ASSUME NEW u \in Seq(Path), NEW x \in Path, u \in T PROVE Append(u, x) \in T
  <2>1. Keep(u, P) \in Seq(Path) /\ Elements(Keep(u, P)) = Elements(u) \cap P
    BY KeepType, KeepElements
  <2>2. /\ Append(u, x) \in Seq(Path)
        /\ Keep(Append(u, x), P) = IF x \in P THEN Append(Keep(u, P), x) ELSE Keep(u, P)
        /\ Once(Append(u, x)) <=> Once(u) /\ x \notin Elements(u)
        /\ Once(Append(Keep(u, P), x)) <=> Once(Keep(u, P)) /\ x \notin Elements(Keep(u, P))
    BY <2>1, KeepAppend, AppendOnce
  <2> QED
    BY <1>2, <2>1, <2>2
<1>3. \A s \in Seq(Path) : s \in T
  <2> HIDE DEF T
  <2> QED
    BY <1>1, <1>2, QueueInduction
<1> QED
  BY <1>3

\* Once is what makes it the same to take out the first and to take out all.
LEMMA WithoutKeeps ==
    ASSUME NEW s \in Seq(Path), Once(s), NEW x \in Path
    PROVE  Without(s, x) = Keep(s, Path \ {x})
<1> DEFINE at == {i \in DOMAIN s : s[i] = x}
<1>0. DOMAIN s = 1..Len(s) /\ Len(s) \in Nat /\ \A i \in 1..Len(s) : s[i] \in Path
  OBVIOUS
<1>1. CASE at = {}
  <2>1. Elements(s) \subseteq Path \ {x}
    BY <1>0, <1>1 DEF Elements
  <2> QED
    BY <1>1, <2>1, KeepAll DEF Without
<1>2. CASE at # {}
  <2>1. PICK i \in 1..Len(s) : s[i] = x
    BY <1>0, <1>2
  <2>i. i \in Int /\ 1 <= i /\ i <= Len(s)
    BY <1>0, <2>1
  <2>n. PICK n \in Nat : n = Len(s)
    BY <1>0
  <2>2. at = {i}
    BY <1>0, <2>1 DEF Once
  <2>3. Min(at) = i
    <3>1. Min({i}) = i
      BY <2>1 DEF Min
    <3> HIDE DEF at
    <3> QED
      BY <2>2, <3>1
  <2> DEFINE p == SubSeq(s, 1, i - 1)
             q == SubSeq(s, i + 1, Len(s))
  <2>4. Without(s, x) = p \o q
    BY <1>2, <2>3, Zenon DEF Without
  <2>5. p \in Seq(Path) /\ Len(p) = i - 1 /\ \A j \in 1..(i - 1) : p[j] = s[j]
    <3>1. \A j \in 1..(i - 1) : s[j] \in Path
      BY <1>0
    <3> QED
      BY <3>1, SubSeqProperties
  <2>6. q \in Seq(Path) /\ Len(q) = Len(s) - i /\ \A j \in 1..(Len(s) - i) : q[j] = s[i + j]
    <3>1. \A j \in i + 1..Len(s) : s[j] \in Path
      BY <1>0
    <3>2. /\ q \in Seq(Path)
          /\ Len(q) = IF i + 1 <= Len(s) THEN Len(s) - (i + 1) + 1 ELSE 0
          /\ \A j \in 1..(Len(s) - (i + 1) + 1) : q[j] = s[i + 1 + j - 1]
      BY <1>0, <3>1, SubSeqProperties
    <3>3. Len(q) = Len(s) - i
      <4> HIDE DEF q
      <4>1. CASE i + 1 <= Len(s)
        BY <1>0, <2>i, <3>2, <4>1
      <4>2. CASE ~ (i + 1 <= Len(s))
        <5>1. Len(q) = 0
          BY <3>2, <4>2
        <5>2. Len(s) = i
          BY <2>n, <2>i, <4>2
        <5> QED
          BY <2>i, <5>1, <5>2
      <4> QED
        BY <4>1, <4>2
    <3>4. ASSUME NEW j \in 1..(Len(s) - i) PROVE q[j] = s[i + j]
      <4>1. j \in 1..(Len(s) - (i + 1) + 1) /\ i + 1 + j - 1 = i + j
        BY <1>0
      <4>2. q[j] = s[i + 1 + j - 1]
        BY <3>2, <4>1
      <4> QED
        BY <4>1, <4>2
    <3> QED
      BY <3>2, <3>3, <3>4
  <2> HIDE DEF p, q
  <2>7. x \notin Elements(p)
    <3> SUFFICES ASSUME NEW j \in 1..(i - 1), p[j] = x PROVE FALSE
      BY <2>5 DEF Elements
    <3>1. s[j] = x /\ j \in 1..Len(s) /\ j # i
      BY <2>5, <1>0
    <3> QED
      BY <1>0, <2>1, <3>1 DEF Once
  <2>8. x \notin Elements(q)
    <3> SUFFICES ASSUME NEW j \in 1..(Len(s) - i), q[j] = x PROVE FALSE
      BY <2>6 DEF Elements
    <3>1. s[i + j] = x /\ i + j \in 1..Len(s) /\ i + j # i
      BY <2>6, <1>0
    <3> QED
      BY <1>0, <2>1, <3>1 DEF Once
  <2>9. s = Append(p, x) \o q
    <3> DEFINE a == Append(p, x)
    <3>1. a \in Seq(Path) /\ Len(a) = i /\ \A j \in 1..i : a[j] = s[j]
      BY <2>1, <2>5
    <3> HIDE DEF a
    <3>2. /\ a \o q \in Seq(Path) /\ Len(a \o q) = Len(a) + Len(q)
          /\ \A j \in 1..(Len(a) + Len(q)) : (a \o q)[j] =
                IF j <= Len(a) THEN a[j] ELSE q[j - Len(a)]
      BY <2>6, <3>1, ConcatProperties
    <3>3. Len(a) + Len(q) = Len(s)
      BY <1>0, <2>1, <2>6, <3>1
    <3>4. ASSUME NEW j \in 1..Len(s) PROVE (a \o q)[j] = s[j]
      <4>1. CASE j <= i
        BY <1>0, <3>1, <3>2, <3>3, <4>1
      <4>2. CASE j > i
        <5>1. j - i \in 1..(Len(s) - i) /\ i + (j - i) = j
          BY <1>0, <4>2
        <5>2. q[j - i] = s[i + (j - i)]
          BY <2>6, <5>1
        <5>3. (a \o q)[j] = q[j - i]
          BY <1>0, <3>1, <3>2, <3>3, <4>2
        <5> QED
          BY <5>1, <5>2, <5>3
      <4> QED
        <5>1. j \in Nat /\ (j <= i \/ j > i)
          BY <2>n, <2>i
        <5> QED
          BY <4>1, <4>2, <5>1
    <3>5. s = a \o q
      BY <3>2, <3>3, <3>4, SeqEqual
    <3> QED
      BY <3>5 DEF a
  <2>10. /\ Elements(p) \subseteq Path \ {x} /\ Elements(q) \subseteq Path \ {x}
    BY <2>5, <2>6, <2>7, <2>8 DEF Elements
  <2>11. Keep(p, Path \ {x}) = p /\ Keep(q, Path \ {x}) = q
    BY <2>5, <2>6, <2>10, KeepAll
  <2>12. Keep(Append(p, x), Path \ {x}) = p
    BY <2>5, <2>11, KeepAppend
  <2>13. Keep(s, Path \ {x}) = p \o q
    <3>1. Append(p, x) \in Seq(Path)
      BY <2>5
    <3>2. Keep(Append(p, x) \o q, Path \ {x})
            = Keep(Append(p, x), Path \ {x}) \o Keep(q, Path \ {x})
      BY <2>6, <3>1, KeepConcat
    <3> QED
      BY <2>9, <2>11, <2>12, <3>2
  <2> QED
    BY <2>4, <2>13
<1> QED
  BY <1>1, <1>2

\* The path in front.
LEMMA KeepFront ==
    ASSUME NEW s \in Seq(Path), NEW x \in Path, NEW P, x \in P
    PROVE  Keep(<<x>> \o s, P) = <<x>> \o Keep(s, P)
<1>1. <<x>> \in Seq(Path) /\ <<x>> = Append(<<>>, x) /\ <<>> \in Seq(Path)
  OBVIOUS
<1>2. Keep(<<x>>, P) = <<x>>
  BY <1>1, KeepAppend, KeepEmpty
<1>3. Keep(<<x>> \o s, P) = Keep(<<x>>, P) \o Keep(s, P)
  BY <1>1, KeepConcat
<1> QED
  BY <1>2, <1>3

LEMMA OnceFront ==
    ASSUME NEW s \in Seq(Path), NEW x \in Path, Once(s), x \notin Elements(s)
    PROVE  /\ <<x>> \o s \in Seq(Path) /\ Once(<<x>> \o s)
           /\ Elements(<<x>> \o s) = {x} \cup Elements(s)
<1> DEFINE t == <<x>> \o s
<1>1. /\ t \in Seq(Path) /\ Len(t) = Len(s) + 1 /\ Len(s) \in Nat
      /\ DOMAIN t = 1..(Len(s) + 1) /\ DOMAIN s = 1..Len(s)
      /\ t[1] = x /\ \A n \in 2..(Len(s) + 1) : t[n] = s[n - 1]
  OBVIOUS
<1>2. \A n \in 1..(Len(s) + 1) : n = 1 \/ (n \in 2..(Len(s) + 1) /\ n - 1 \in 1..Len(s))
  BY <1>1
<1>3. \A n \in 1..Len(s) : n + 1 \in 2..(Len(s) + 1) /\ n + 1 \in 1..(Len(s) + 1) /\ n + 1 - 1 = n
  BY <1>1
<1>4. 1 \in 1..(Len(s) + 1)
  BY <1>1
<1> HIDE DEF t
<1>5. Elements(t) = {x} \cup Elements(s)
  <2>1. Elements(t) \subseteq {x} \cup Elements(s)
    BY <1>1, <1>2 DEF Elements
  <2>2. ASSUME NEW n \in 1..Len(s) PROVE s[n] \in Elements(t)
    <3>1. t[n + 1] = s[n + 1 - 1] /\ n + 1 \in DOMAIN t /\ n + 1 - 1 = n
      BY <1>1, <1>3
    <3> QED
      BY <3>1 DEF Elements
  <2>3. x \in Elements(t)
    BY <1>1, <1>4 DEF Elements
  <2> QED
    <3>1. Elements(s) \subseteq Elements(t)
      BY <1>1, <2>2 DEF Elements
    <3> QED
      BY <2>1, <2>3, <3>1
<1>6. Once(t)
  <2> SUFFICES ASSUME NEW i \in DOMAIN t, NEW j \in DOMAIN t, t[i] = t[j] PROVE i = j
    BY DEF Once
  <2>1. CASE i = 1 /\ j = 1
    BY <2>1
  <2>2. CASE i = 1 /\ j # 1
    <3>1. j - 1 \in DOMAIN s /\ s[j - 1] = x
      BY <1>1, <1>2, <2>2
    <3> QED
      BY <3>1 DEF Elements
  <2>3. CASE i # 1 /\ j = 1
    <3>1. i - 1 \in DOMAIN s /\ s[i - 1] = x
      BY <1>1, <1>2, <2>3
    <3> QED
      BY <3>1 DEF Elements
  <2>4. CASE i # 1 /\ j # 1
    <3>1. i - 1 \in DOMAIN s /\ j - 1 \in DOMAIN s /\ s[i - 1] = s[j - 1]
      BY <1>1, <1>2, <2>4
    <3>2. i - 1 = j - 1
      BY <3>1 DEF Once
    <3> QED
      BY <1>1, <3>2
  <2> QED
    BY <2>1, <2>2, <2>3, <2>4
<1> QED
  BY <1>1, <1>5, <1>6 DEF t

\* pop_back
LEMMA BackOf ==
    ASSUME NEW s \in Seq(Path), s # <<>>, Once(s)
    PROVE  /\ s[Len(s)] \in Elements(s) /\ s[Len(s)] \in Path
           /\ SubSeq(s, 1, Len(s) - 1) = Keep(s, Path \ {s[Len(s)]})
<1>1. Len(s) \in Nat \ {0} /\ Len(s) \in DOMAIN s /\ s[Len(s)] \in Path
  OBVIOUS
<1>2. Len(s) - 1 \in Nat /\ Len(s) = (Len(s) - 1) + 1
  BY <1>1
<1>3. PICK u \in Seq(Path), x \in Path : s = Append(u, x) /\ Len(u) = Len(s) - 1
  BY <1>2, AppendForm
<1>4. s[Len(s)] = x /\ SubSeq(s, 1, Len(s) - 1) = u
  BY <1>2, <1>3
<1>5. x \notin Elements(u)
  BY <1>3, AppendOnce
<1>6. Elements(u) \subseteq Path \ {x}
  BY <1>3, <1>5 DEF Elements
<1>7. Keep(s, Path \ {x}) = u
  BY <1>3, <1>6, KeepAll, KeepAppend
<1> QED
  BY <1>1, <1>4, <1>7 DEF Elements

----------------------------------------------------------------------------
(* Totals.  The function that adds up a set takes out one element after    *)
(* another; whichever comes first, the total is the same.                  *)

First(s) == CHOOSE x \in s : TRUE
Folding(f, e, P) ==
    f = [s \in SUBSET P |-> IF s = {} THEN 0 ELSE e[First(s)].len + f[s \ {First(s)}]]
Folds(f, e, P) ==
    \A s \in SUBSET P : f[s] = IF s = {} THEN 0 ELSE e[First(s)].len + f[s \ {First(s)}]

Sized(e, P) == \A p \in P : e[p].len \in Nat

LEMMA SmallSets ==
    ASSUME NEW P, IsFiniteSet(P)
    PROVE  /\ \A s \in SUBSET P : IsFiniteSet(s) /\ Cardinality(s) \in Nat
           /\ \A s \in SUBSET P : Cardinality(s) <= 0 => s = {}
           /\ \A s \in SUBSET P : \A x \in s :
                 s \ {x} \in SUBSET P /\ Cardinality(s \ {x}) = Cardinality(s) - 1
           /\ \A s \in SUBSET P : s # {} => First(s) \in s
<1>1. ASSUME NEW s \in SUBSET P PROVE IsFiniteSet(s) /\ Cardinality(s) \in Nat
  BY FS_Subset, FS_CardinalityType
<1>2. ASSUME NEW s \in SUBSET P, Cardinality(s) <= 0 PROVE s = {}
  BY <1>1, <1>2, FS_EmptySet
<1>3. ASSUME NEW s \in SUBSET P, NEW x \in s
      PROVE  s \ {x} \in SUBSET P /\ Cardinality(s \ {x}) = Cardinality(s) - 1
  BY <1>1, FS_RemoveElement
<1>4. ASSUME NEW s \in SUBSET P, s # {} PROVE First(s) \in s
  BY <1>4 DEF First
<1> QED
  BY <1>1, <1>2, <1>3, <1>4

LEMMA FoldsExists ==
    ASSUME NEW P, IsFiniteSet(P), NEW e
    PROVE  \E f : Folding(f, e, P)
<1> DEFINE Q(k, f) == f = [s \in SUBSET P |->
                 IF s = {} THEN 0 ELSE IF Cardinality(s) > k THEN 0
                 ELSE e[First(s)].len + f[s \ {First(s)}]]
           S == {k \in Nat : \E f : Q(k, f)}
<1>1. \E f : Q(0, f)
  <2>1. Q(0, [s \in SUBSET P |-> 0])
    BY SmallSets
  <2> QED
    BY <2>1
<1>2. ASSUME NEW k \in Nat, \E f : Q(k, f) PROVE \E f : Q(k + 1, f)
  <2>1. PICK f : Q(k, f)
    BY <1>2
  <2> DEFINE g == [s \in SUBSET P |->
                 IF s = {} THEN 0 ELSE IF Cardinality(s) > k + 1 THEN 0
                 ELSE e[First(s)].len + f[s \ {First(s)}]]
  <2>2. ASSUME NEW s \in SUBSET P, Cardinality(s) <= k PROVE g[s] = f[s]
    <3>1. Cardinality(s) \in Nat
      BY SmallSets
    <3>2. /\ ~ (Cardinality(s) > k)
          /\ ~ (Cardinality(s) > k + 1)
      BY <2>2, <3>1
    <3> QED
      BY <2>1, <3>2
  <2>3. ASSUME NEW s \in SUBSET P, s # {}, ~ (Cardinality(s) > k + 1)
        PROVE  g[s \ {First(s)}] = f[s \ {First(s)}]
    <3>1. /\ s \ {First(s)} \in SUBSET P
          /\ Cardinality(s \ {First(s)}) = Cardinality(s) - 1
          /\ Cardinality(s) \in Nat
      BY <2>3, SmallSets
    <3> HIDE DEF g
    <3> QED
      BY <2>2, <2>3, <3>1
  <2>4. Q(k + 1, g)
    <3>1. ASSUME NEW s \in SUBSET P
          PROVE  g[s] = IF s = {} THEN 0 ELSE IF Cardinality(s) > k + 1 THEN 0
                        ELSE e[First(s)].len + g[s \ {First(s)}]
      BY <2>3
    <3>2. g = [s \in SUBSET P |-> g[s]]
      OBVIOUS
    <3> HIDE DEF g
    <3> QED
      BY <3>1, <3>2
  <2> HIDE DEF Q, g
  <2> QED
    BY <2>4
<1> HIDE DEF Q
<1>3. 0 \in S /\ \A k \in Nat : k \in S => k + 1 \in S
  BY <1>1, <1>2
<1>4. \A k \in Nat : k \in S
  <2> HIDE DEF S
  <2> QED
    BY <1>3, Induction
<1>5. Cardinality(P) \in Nat
  BY FS_CardinalityType
<1>6. PICK f : Q(Cardinality(P), f)
  BY <1>4, <1>5
<1>7. \A s \in SUBSET P : ~ (Cardinality(s) > Cardinality(P))
  BY <1>5, SmallSets, FS_Subset
<1> QED
  BY <1>6, <1>7 DEF Q, Folding

LEMMA TotalFolds ==
    ASSUME NEW P, IsFiniteSet(P), NEW e
    PROVE  \E f : Folds(f, e, P) /\ Total(e, P) = f[P]
<1> DEFINE h == CHOOSE g : Folding(g, e, P)
<1>1. Total(e, P) = h[P]
  BY Zenon DEF Total, MapThenSumSet, MapThenFoldSet, First, Folding
<1>3. Folding(h, e, P)
  BY FoldsExists
<1> HIDE DEF h
<1>4. Folds(h, e, P)
  BY <1>3 DEF Folds, Folding
<1> QED
  BY <1>1, <1>4

\* Whichever element is taken out of a set, the rest is what remains of its total.
LEMMA FoldsTake ==
    ASSUME NEW P, IsFiniteSet(P), NEW e, NEW f, Folds(f, e, P), Sized(e, P)
    PROVE  \A s \in SUBSET P : /\ f[s] \in Nat
                               /\ \A x \in s : f[s] = e[x].len + f[s \ {x}]
<1> DEFINE Q(k) == \A s \in SUBSET P : Cardinality(s) <= k =>
                      /\ f[s] \in Nat
                      /\ \A x \in s : f[s] = e[x].len + f[s \ {x}]
           S == {k \in Nat : Q(k)}
<1>0. \A s \in SUBSET P : f[s] = IF s = {} THEN 0 ELSE e[First(s)].len + f[s \ {First(s)}]
  BY DEF Folds
<1>1. Q(0)
  <2>1. f[{}] = 0 /\ \A s \in SUBSET P : Cardinality(s) <= 0 => s = {}
    BY <1>0, SmallSets
  <2> QED
    BY <2>1
<1>2. ASSUME NEW k \in Nat, Q(k) PROVE Q(k + 1)
  <2>1. SUFFICES ASSUME NEW s \in SUBSET P, Cardinality(s) <= k + 1
                 PROVE  f[s] \in Nat /\ \A x \in s : f[s] = e[x].len + f[s \ {x}]
    OBVIOUS
  <2>2. CASE s = {}
    <3>1. f[s] = 0
      BY <1>0, <2>2
    <3> QED
      BY <2>2, <3>1
  <2>3. CASE s # {}
    <3> DEFINE y == First(s)
    <3>1. /\ y \in s
          /\ \A x \in s : s \ {x} \in SUBSET P /\ Cardinality(s \ {x}) <= k
      <4>1. Cardinality(s) \in Nat
        BY SmallSets
      <4> QED
        BY <2>1, <2>3, <4>1, SmallSets
    <3>2. f[s] = e[y].len + f[s \ {y}] /\ e[y].len \in Nat
      BY <1>0, <2>3, <3>1 DEF Sized
    <3> HIDE DEF y
    <3>3. f[s \ {y}] \in Nat
      BY <1>2, <3>1
    <3>4. ASSUME NEW x \in s, x # y PROVE f[s] = e[x].len + f[s \ {x}]
      <4>1. f[s \ {y}] = e[x].len + f[(s \ {y}) \ {x}]
        BY <1>2, <3>1, <3>4
      <4>2. f[s \ {x}] = e[y].len + f[(s \ {x}) \ {y}]
        BY <1>2, <3>1, <3>4
      <4>3. f[(s \ {x}) \ {y}] = f[(s \ {y}) \ {x}]
        <5>1. (s \ {x}) \ {y} = (s \ {y}) \ {x}
          OBVIOUS
        <5> QED
          BY Zenon, <5>1
      <4>4. f[(s \ {x}) \ {y}] \in Nat
        <5>1. (s \ {x}) \ {y} \in SUBSET P /\ Cardinality((s \ {x}) \ {y}) <= k
          <6>1. s \ {x} \in SUBSET P /\ y \in s \ {x} /\ Cardinality(s \ {x}) <= k
            BY <3>1, <3>4
          <6>2. /\ Cardinality((s \ {x}) \ {y}) = Cardinality(s \ {x}) - 1
                /\ (s \ {x}) \ {y} \in SUBSET P
            BY <6>1, SmallSets
          <6>3. Cardinality(s \ {x}) \in Nat
            BY <6>1, SmallSets
          <6> QED
            BY <6>1, <6>2, <6>3
        <5> QED
          BY <1>2, <5>1
      <4>5. e[x].len \in Nat
        BY <3>4 DEF Sized
      <4>6. \A a, b, c \in Nat : a + (b + c) = b + (a + c)
        OBVIOUS
      <4>7. f[s] = e[y].len + (e[x].len + f[(s \ {x}) \ {y}])
        BY Zenon, <3>2, <4>1, <4>3
      <4>8. e[x].len + f[s \ {x}] = e[x].len + (e[y].len + f[(s \ {x}) \ {y}])
        BY Zenon, <4>2
      <4> QED
        BY <3>2, <4>4, <4>5, <4>6, <4>7, <4>8
    <3>5. f[s] \in Nat
      <4>1. \A a, b \in Nat : a + b \in Nat
        OBVIOUS
      <4> QED
        BY <3>2, <3>3, <4>1
    <3>6. ASSUME NEW x \in s PROVE f[s] = e[x].len + f[s \ {x}]
      BY <3>2, <3>4
    <3> QED
      BY <3>5, <3>6
  <2> QED
    BY <2>2, <2>3
<1> HIDE DEF Q
<1>3. 0 \in S /\ \A k \in Nat : k \in S => k + 1 \in S
  BY <1>1, <1>2
<1>4. \A k \in Nat : k \in S
  <2> HIDE DEF S
  <2> QED
    BY <1>3, Induction
<1>5. \A k \in Nat : Q(k)
  BY <1>4
<1>6. \A s \in SUBSET P : Cardinality(s) \in Nat /\ Cardinality(s) <= Cardinality(s)
  BY SmallSets
<1> QED
  BY <1>5, <1>6 DEF Q

\* Entries that are the same for the paths of a set give it the same total.
LEMMA FoldsSame ==
    ASSUME NEW P, IsFiniteSet(P), NEW R, IsFiniteSet(R), NEW e, NEW d, NEW f, NEW g,
           Folds(f, e, P), Folds(g, d, R)
    PROVE  \A s \in SUBSET (P \cap R) : (\A p \in s : e[p].len = d[p].len) => f[s] = g[s]
<1> DEFINE Q(k) == \A s \in SUBSET (P \cap R) :
                      /\ Cardinality(s) <= k
                      /\ \A p \in s : e[p].len = d[p].len
                      => f[s] = g[s]
           S == {k \in Nat : Q(k)}
<1>0. \A s \in SUBSET (P \cap R) :
         /\ f[s] = IF s = {} THEN 0 ELSE e[First(s)].len + f[s \ {First(s)}]
         /\ g[s] = IF s = {} THEN 0 ELSE d[First(s)].len + g[s \ {First(s)}]
  BY DEF Folds
<1>1. Q(0)
  BY <1>0, SmallSets
<1>2. ASSUME NEW k \in Nat, Q(k) PROVE Q(k + 1)
  <2>1. SUFFICES ASSUME NEW s \in SUBSET (P \cap R), Cardinality(s) <= k + 1,
                        \A p \in s : e[p].len = d[p].len
                 PROVE  f[s] = g[s]
    OBVIOUS
  <2>2. CASE s = {}
    BY <1>0, <2>2
  <2>3. CASE s # {}
    <3> DEFINE y == First(s)
    <3>1. y \in s /\ s \ {y} \in SUBSET (P \cap R) /\ Cardinality(s \ {y}) <= k
      <4>1. Cardinality(s) \in Nat /\ s \in SUBSET P
        BY SmallSets
      <4>2. y \in s
        BY <2>3 DEF First
      <4>3. Cardinality(s \ {y}) = Cardinality(s) - 1
        BY <4>1, <4>2, SmallSets
      <4> QED
        BY <2>1, <4>1, <4>2, <4>3
    <3>2. f[s \ {y}] = g[s \ {y}]
      BY <1>2, <2>1, <3>1
    <3> QED
      BY <1>0, <2>1, <2>3, <3>1, <3>2
  <2> QED
    BY <2>2, <2>3
<1> HIDE DEF Q
<1>3. 0 \in S /\ \A k \in Nat : k \in S => k + 1 \in S
  BY <1>1, <1>2
<1>4. \A k \in Nat : k \in S
  <2> HIDE DEF S
  <2> QED
    BY <1>3, Induction
<1>5. \A k \in Nat : Q(k)
  BY <1>4
<1>6. \A s \in SUBSET (P \cap R) : Cardinality(s) \in Nat /\ Cardinality(s) <= Cardinality(s)
  BY SmallSets
<1> QED
  BY <1>5, <1>6 DEF Q

LEMMA TotalEmpty == ASSUME NEW e PROVE Total(e, {}) = 0
<1>1. IsFiniteSet({})
  BY FS_EmptySet
<1>2. PICK f : Folds(f, e, {}) /\ Total(e, {}) = f[{}]
  BY <1>1, TotalFolds
<1> QED
  BY <1>2 DEF Folds

LEMMA TotalSame ==
    ASSUME NEW P, IsFiniteSet(P), NEW e, NEW d, \A p \in P : e[p].len = d[p].len
    PROVE  Total(e, P) = Total(d, P)
<1>1. PICK f : Folds(f, e, P) /\ Total(e, P) = f[P]
  BY TotalFolds
<1>2. PICK g : Folds(g, d, P) /\ Total(d, P) = g[P]
  BY TotalFolds
<1> QED
  BY <1>1, <1>2, FoldsSame

LEMMA TotalTake ==
    ASSUME NEW P, IsFiniteSet(P), NEW e, Sized(e, P), NEW x \in P
    PROVE  /\ Total(e, P) = e[x].len + Total(e, P \ {x})
           /\ Total(e, P \ {x}) \in Nat
<1>1. PICK f : Folds(f, e, P) /\ Total(e, P) = f[P]
  BY TotalFolds
<1>2. IsFiniteSet(P \ {x})
  BY FS_RemoveElement
<1>3. PICK g : Folds(g, e, P \ {x}) /\ Total(e, P \ {x}) = g[P \ {x}]
  BY <1>2, TotalFolds
<1>4. f[P \ {x}] = g[P \ {x}]
  <2>1. P \ {x} \in SUBSET (P \cap (P \ {x}))
    OBVIOUS
  <2> QED
    BY <1>1, <1>2, <1>3, <2>1, FoldsSame
<1>5. f[P] = e[x].len + f[P \ {x}] /\ f[P \ {x}] \in Nat
  <2>1. P \in SUBSET P /\ P \ {x} \in SUBSET P
    OBVIOUS
  <2>2. \A s \in SUBSET P : f[s] \in Nat /\ \A y \in s : f[s] = e[y].len + f[s \ {y}]
    BY <1>1, FoldsTake
  <2> QED
    BY <2>1, <2>2
<1> QED
  BY <1>1, <1>3, <1>4, <1>5

----------------------------------------------------------------------------
(* The queue and the lock.                                                 *)

QueueInv ==
    /\ uses \in Seq(Path) /\ Once(uses)
    /\ order = Keep(uses, cached)
    /\ cached \subseteq Elements(uses)

\* One thread at most has the lock, over its loop.
LockInv ==
    /\ \A t \in Thread : pc[t] = "evict" <=> t \in lock
    /\ \A t, u \in lock : t = u

SizeInv ==
    /\ totalSize = Total(entry, cached)
    /\ lock = {} => totalSize <= maxSize

LEMMA QueueShows ==
    ASSUME QueueInv
    PROVE  /\ order \in Seq(Path) /\ Once(order) /\ Elements(order) = cached
           /\ order = <<>> => cached = {}
           /\ \A p \in Path : Without(order, p) = Keep(uses, cached \cap (Path \ {p}))
           /\ \A p \in Path : Without(order, p) \in Seq(Path) /\ Once(Without(order, p))
<1>1. order \in Seq(Path) /\ Once(order) /\ Elements(order) = cached
  <2>1. /\ uses \in Seq(Path) /\ Once(uses) /\ order = Keep(uses, cached)
        /\ Elements(uses) \cap cached = cached
    BY DEF QueueInv
  <2>2. /\ Keep(uses, cached) \in Seq(Path) /\ Once(Keep(uses, cached))
        /\ Elements(Keep(uses, cached)) = Elements(uses) \cap cached
    BY <2>1, KeepType, KeepOnce, KeepElements
  <2> QED
    BY <2>1, <2>2
<1>2. order = <<>> => cached = {}
  BY <1>1 DEF Elements
<1>3. ASSUME NEW p \in Path
      PROVE  /\ Without(order, p) = Keep(uses, cached \cap (Path \ {p}))
             /\ Without(order, p) \in Seq(Path) /\ Once(Without(order, p))
  <2>1. Without(order, p) = Keep(order, Path \ {p})
    BY <1>1, WithoutKeeps
  <2>2. uses \in Seq(Path) /\ order = Keep(uses, cached)
    BY DEF QueueInv
  <2>3. Keep(Keep(uses, cached), Path \ {p}) = Keep(uses, cached \cap (Path \ {p}))
    BY <2>2, KeepKeep
  <2>4. Keep(order, Path \ {p}) \in Seq(Path) /\ Once(Keep(order, Path \ {p}))
    BY <1>1, KeepType, KeepOnce
  <2> QED
    BY <2>1, <2>2, <2>3, <2>4
<1> QED
  BY <1>1, <1>2, <1>3

\* A path leaves the queue and the map.
LEMMA RemoveQueue ==
    ASSUME TypeOK, QueueInv, NEW p \in Path,
           order' = Without(order, p), cached' = cached \ {p}, uses' = uses
    PROVE  QueueInv'
<1>1. cached \cap (Path \ {p}) = cached \ {p}
  BY DEF TypeOK
<1>2. order' = Keep(uses', cached')
  BY <1>1, QueueShows
<1> QED
  BY <1>2 DEF QueueInv

\* A path is used: it comes to the front, and is cached from then on.
LEMMA TouchQueue ==
    ASSUME TypeOK, QueueInv, NEW p \in Path, NEW rest,
           rest = order \/ rest = Without(order, p),
           Touch(p, rest), cached' = cached \cup {p}
    PROVE  QueueInv'
<1> DEFINE others == Keep(uses, Path \ {p})
<1>0. uses \in Seq(Path) /\ Once(uses)
  BY DEF QueueInv
<1>1. others \in Seq(Path) /\ Once(others) /\ Elements(others) = Elements(uses) \cap (Path \ {p})
  BY <1>0, KeepType, KeepOnce, KeepElements
<1>2. uses' = <<p>> \o others /\ order' = <<p>> \o Without(rest, p)
  BY DEF Touch, Used
<1>3. Without(rest, p) = Keep(uses, cached \ {p})
  <2>1. cached \cap (Path \ {p}) = cached \ {p}
    BY DEF TypeOK
  <2>2. CASE rest = order
    BY <2>1, <2>2, QueueShows
  <2>3. CASE rest = Without(order, p)
    <3>1. rest \in Seq(Path) /\ Once(rest) /\ rest = Keep(uses, cached \ {p})
      BY <2>1, <2>3, QueueShows
    <3>2. Without(rest, p) = Keep(rest, Path \ {p})
      BY <3>1, WithoutKeeps
    <3>3. Keep(Keep(uses, cached \ {p}), Path \ {p}) = Keep(uses, (cached \ {p}) \cap (Path \ {p}))
      BY <1>0, KeepKeep
    <3>4. (cached \ {p}) \cap (Path \ {p}) = cached \ {p}
      BY DEF TypeOK
    <3> QED
      BY <3>1, <3>2, <3>3, <3>4
  <2> QED
    BY <2>2, <2>3
<1>4. Keep(others, cached \cup {p}) = Keep(uses, cached \ {p})
  <2>1. Keep(Keep(uses, Path \ {p}), cached \cup {p})
          = Keep(uses, (Path \ {p}) \cap (cached \cup {p}))
    BY <1>0, KeepKeep
  <2>2. (Path \ {p}) \cap (cached \cup {p}) = cached \ {p}
    BY DEF TypeOK
  <2> QED
    BY <2>1, <2>2
<1> HIDE DEF others
<1>5. Keep(<<p>> \o others, cached \cup {p}) = <<p>> \o Keep(others, cached \cup {p})
  BY <1>1, KeepFront
<1>6. order' = Keep(uses', cached')
  BY <1>2, <1>3, <1>4, <1>5
<1>7. /\ <<p>> \o others \in Seq(Path) /\ Once(<<p>> \o others)
      /\ Elements(<<p>> \o others) = {p} \cup Elements(others)
  BY <1>1, OnceFront
<1>8. cached' \subseteq Elements(uses')
  BY <1>1, <1>2, <1>7 DEF QueueInv, TypeOK
<1> QED
  BY <1>2, <1>6, <1>7, <1>8 DEF QueueInv

LEMMA QueueNext == TypeOK /\ QueueInv /\ [Next]_vars => QueueInv'
<1> SUFFICES ASSUME TypeOK, QueueInv, [Next]_vars PROVE QueueInv'
  OBVIOUS
<1> USE DEF files, cache, thread, Goto, OnlyThread
<1>u. ASSUME UNCHANGED <<uses, order, cached>> PROVE QueueInv'
  BY <1>u DEF QueueInv
<1>1. ASSUME NEW p \in Path, Change(p) \/ Delete(p) PROVE QueueInv'
  BY <1>1, <1>u DEF Change, Delete
<1>2. ASSUME NEW t \in Thread, \/ \E p \in Path : Begin(t, p)
                               \/ \E n \in Limit : Resize(t, n)
                               \/ Stat(t) \/ Read(t) \/ Restat(t) \/ EvictDone(t) \/ Return(t)
      PROVE  QueueInv'
  BY <1>2, <1>u DEF Begin, Resize, Stat, Read, Restat, EvictDone, Return
<1>3. ASSUME NEW t \in Thread, Clear(t) PROVE QueueInv'
  <2>1. cached' = {} /\ order' = <<>> /\ uses' = uses
    BY <1>3 DEF Clear
  <2>2. uses \in Seq(Path)
    BY DEF QueueInv
  <2>3. Keep(uses, {}) = <<>>
    <3> DEFINE k == Keep(uses, {})
    <3>1. k \in Seq(Path) /\ Elements(k) = Elements(uses) \cap {}
      BY <2>2, KeepType, KeepElements
    <3> HIDE DEF k
    <3>2. \A i \in DOMAIN k : k[i] \in Elements(k)
      BY DEF Elements
    <3>3. DOMAIN k = {}
      BY <3>1, <3>2
    <3>4. k = <<>>
      BY <3>1, <3>3
    <3> QED
      BY <3>4 DEF k
  <2> QED
    BY <2>1, <2>3 DEF QueueInv
<1>4. ASSUME NEW t \in Thread, Lookup(t) PROVE QueueInv'
  <2> DEFINE p == key[t]
  <2>1. p \in Path
    BY <1>4 DEF Lookup, TypeOK
  <2>2. CASE p \in cached /\ entry[p].stamp = local[t].stamp
    <3>1. Touch(p, order) /\ cached' = cached \cup {p}
      BY <1>4, <2>2 DEF Lookup
    <3> QED
      BY <2>1, <3>1, TouchQueue
  <2>3. CASE ~ (p \in cached /\ entry[p].stamp = local[t].stamp)
    <3>1. uses' = uses /\ (Remove(p) \/ UNCHANGED <<cached, order>>)
      BY <1>4, <2>3 DEF Lookup
    <3>2. CASE Remove(p)
      BY <2>1, <3>1, <3>2, RemoveQueue DEF Remove, Unmap
    <3> QED
      BY <1>u, <3>1, <3>2
  <2> QED
    BY <2>2, <2>3
<1>5. ASSUME NEW t \in Thread, Insert(t) PROVE QueueInv'
  <2>1. key[t] \in Path /\ Touch(key[t], Without(order, key[t])) /\ cached' = cached \cup {key[t]}
    BY <1>5 DEF Insert, TypeOK
  <2> QED
    BY <2>1, TouchQueue
<1>6. ASSUME NEW t \in Thread, EvictOne(t) PROVE QueueInv'
  <2> DEFINE p == order[Len(order)]
  <2>1. /\ order # <<>> /\ uses' = uses
        /\ order' = SubSeq(order, 1, Len(order) - 1) /\ cached' = cached \ {p}
    BY <1>6 DEF EvictOne, RemoveLast, Unmap
  <2>2. order \in Seq(Path) /\ Once(order)
    BY QueueShows
  <2>3. p \in Path /\ SubSeq(order, 1, Len(order) - 1) = Keep(order, Path \ {p})
    BY <2>1, <2>2, BackOf
  <2>4. Keep(order, Path \ {p}) = Without(order, p)
    BY <2>2, <2>3, WithoutKeeps
  <2> QED
    BY <2>1, <2>3, <2>4, RemoveQueue
<1>7. CASE UNCHANGED vars
  BY <1>7, <1>u DEF vars
<1> QED
  BY <1>1, <1>2, <1>3, <1>4, <1>5, <1>6, <1>7 DEF Next

\* What is evicted is what any thread used longest ago: the queue has the keys of the map, each
\* once, in the order of their last use.
THEOREM OrderedByUseHolds == Spec => []OrderedByUse
<1>1. Init => QueueInv
  <2> SUFFICES ASSUME Init PROVE QueueInv
    OBVIOUS
  <2>1. uses = <<>> /\ order = <<>> /\ cached = {} /\ <<>> \in Seq(Path)
    BY DEF Init
  <2> QED
    BY <2>1, KeepEmpty DEF QueueInv, Once
<1>2. QueueInv => OrderedByUse
  BY DEF QueueInv, OrderedByUse
<1> QED
  BY <1>1, <1>2, QueueNext, TypeCorrect, PTL DEF Spec

----------------------------------------------------------------------------
(* The size.                                                               *)

LEMMA CachedSized ==
    ASSUME TypeOK
    PROVE  /\ IsFiniteSet(cached) /\ Sized(entry, cached)
           /\ \A p \in cached : entry[p].len \in Nat
           /\ \A p \in Path : IsFiniteSet(cached \ {p}) /\ Sized(entry, cached \ {p})
<1>1. cached \in SUBSET Path /\ \A p \in cached : entry[p].len \in Nat
  BY DEF TypeOK, Entry
<1>2. IsFiniteSet(cached)
  BY <1>1, ConfCacheAssumption, FS_Subset DEF ConfCacheAssumption
<1> QED
  BY <1>1, <1>2, FS_RemoveElement DEF Sized

\* Nothing is lost to saturating_sub.
LEMMA UnmapSize ==
    ASSUME TypeOK, totalSize = Total(entry, cached), NEW p \in Path, Unmap(p)
    PROVE  totalSize' = Total(entry, cached)' /\ totalSize' <= totalSize
<1>1. cached' = cached \ {p} /\ entry' = [entry EXCEPT ![p] = NoEntry]
      /\ totalSize' = IF p \in cached THEN Minus(totalSize, entry[p].len) ELSE totalSize
  BY DEF Unmap
<1>2. \A q \in cached \ {p} : entry[q].len = entry'[q].len
  BY <1>1 DEF TypeOK
<1>3. Total(entry, cached \ {p}) = Total(entry', cached \ {p})
  BY <1>2, CachedSized, TotalSame
<1>4. CASE p \in cached
  <2>1. /\ Total(entry, cached) = entry[p].len + Total(entry, cached \ {p})
        /\ Total(entry, cached \ {p}) \in Nat
    BY <1>4, CachedSized, TotalTake
  <2>2. totalSize' = Total(entry, cached \ {p}) /\ totalSize' <= totalSize
    BY <1>1, <1>4, <2>1, CachedSized DEF Minus
  <2> QED
    BY <1>1, <1>3, <2>2
<1>5. CASE p \notin cached
  <2>1. cached \ {p} = cached /\ totalSize' = totalSize /\ totalSize \in Nat
    BY <1>1, <1>5 DEF TypeOK
  <2> QED
    BY <1>1, <1>3, <2>1
<1> QED
  BY <1>4, <1>5

LEMMA InsertSize ==
    ASSUME TypeOK, totalSize = Total(entry, cached), NEW t \in Thread, Insert(t)
    PROVE  totalSize' = Total(entry, cached)'
<1> DEFINE p == key[t]
           old == IF p \in cached THEN entry[p].len ELSE 0
<1>1. /\ p \in Path /\ local[t] \in Entry /\ local[t].len \in Nat
      /\ cached' = cached \cup {p} /\ entry' = [entry EXCEPT ![p] = local[t]]
      /\ totalSize' = Minus(totalSize, old) + local[t].len
  BY DEF Insert, TypeOK, Entry
<1>2. Total(entry, cached \ {p}) \in Nat /\ Minus(totalSize, old) = Total(entry, cached \ {p})
  <2>1. CASE p \in cached
    <3>1. /\ Total(entry, cached) = entry[p].len + Total(entry, cached \ {p})
          /\ Total(entry, cached \ {p}) \in Nat
      BY <2>1, CachedSized, TotalTake
    <3> QED
      BY <2>1, <3>1, CachedSized DEF Minus
  <2>2. CASE p \notin cached
    <3>1. cached \ {p} = cached /\ totalSize \in Nat /\ old = 0
      BY <2>2 DEF TypeOK
    <3>2. Minus(totalSize, 0) = totalSize
      BY <3>1 DEF Minus
    <3> QED
      BY <3>1, <3>2
  <2> QED
    BY <2>1, <2>2
<1>3. /\ \A q \in cached \ {p} : entry[q].len = entry'[q].len
      /\ entry'[p] = local[t]
  BY <1>1 DEF TypeOK
<1>4. Total(entry, cached \ {p}) = Total(entry', cached \ {p})
  BY <1>1, <1>3, CachedSized, TotalSame
<1>5. IsFiniteSet(cached \cup {p}) /\ p \in cached \cup {p}
      /\ (cached \cup {p}) \ {p} = cached \ {p} /\ Sized(entry', cached \cup {p})
  BY <1>1, <1>3, CachedSized, FS_AddElement DEF Sized
<1>6. Total(entry', cached \cup {p}) = entry'[p].len + Total(entry', (cached \cup {p}) \ {p})
  BY <1>5, TotalTake
<1> HIDE DEF old
<1>7. totalSize' = Total(entry', cached \cup {p})
  <2>1. totalSize' = Total(entry, cached \ {p}) + local[t].len
    BY <1>1, <1>2
  <2>2. Total(entry', cached \cup {p}) = local[t].len + Total(entry, cached \ {p})
    BY Zenon, <1>3, <1>4, <1>5, <1>6
  <2> QED
    BY <1>1, <1>2, <2>1, <2>2
<1> QED
  BY <1>1, <1>7

LEMMA LockNext == TypeOK /\ LockInv /\ [Next]_vars => LockInv'
<1> SUFFICES ASSUME TypeOK, LockInv, [Next]_vars PROVE LockInv'
  OBVIOUS
<1> USE DEF files, cache, thread, Goto, OnlyThread
\* A step of a thread outside of the lock.
<1>o. ASSUME NEW t \in Thread, lock' = lock, pc[t] # "evict",
             NEW where, pc' = [pc EXCEPT ![t] = where], where # "evict"
      PROVE  LockInv'
  BY <1>o DEF LockInv, TypeOK
<1>1. ASSUME NEW p \in Path, Change(p) \/ Delete(p) PROVE LockInv'
  BY <1>1 DEF Change, Delete, LockInv
<1>2. ASSUME NEW t \in Thread, NEW p \in Path, Begin(t, p) PROVE LockInv'
  BY <1>2, <1>o DEF Begin
<1>3. ASSUME NEW t \in Thread, Stat(t) \/ Lookup(t) \/ Read(t) \/ Restat(t) \/ Return(t)
      PROVE  LockInv'
  <2>1. /\ lock' = lock /\ pc[t] # "evict"
        /\ \E where \in {"lookup", "return", "read", "restat", "insert", "idle"} :
              pc' = [pc EXCEPT ![t] = where]
    BY <1>3 DEF Stat, Lookup, Read, Restat, Return
  <2> QED
    BY <1>o, <2>1
<1>4. ASSUME NEW t \in Thread, Insert(t) \/ \E n \in Limit : Resize(t, n) PROVE LockInv'
  <2>1. lock = {} /\ lock' = {t} /\ pc' = [pc EXCEPT ![t] = "evict"]
    BY <1>4 DEF Insert, Resize
  <2> QED
    BY <2>1 DEF LockInv, TypeOK
<1>5. ASSUME NEW t \in Thread, Clear(t) \/ EvictOne(t) PROVE LockInv'
  BY <1>5 DEF Clear, EvictOne, LockInv
<1>6. ASSUME NEW t \in Thread, EvictDone(t) PROVE LockInv'
  <2>1. lock' = lock \ {t} /\ pc' = [pc EXCEPT ![t] = "return"]
    BY <1>6 DEF EvictDone
  <2> QED
    BY <2>1 DEF LockInv, TypeOK
<1>7. CASE UNCHANGED vars
  BY <1>7 DEF vars, LockInv
<1> QED
  BY <1>1, <1>2, <1>3, <1>4, <1>5, <1>6, <1>7 DEF Next

LEMMA SizeNext ==
    TypeOK /\ QueueInv /\ LockInv /\ SizeInv /\ [Next]_vars => SizeInv'
<1> SUFFICES ASSUME TypeOK, QueueInv, LockInv, SizeInv, [Next]_vars PROVE SizeInv'
  OBVIOUS
<1> USE DEF files, cache, thread, Goto, OnlyThread
<1>0. totalSize = Total(entry, cached) /\ totalSize \in Nat /\ maxSize \in Nat
  BY ConfCacheAssumption DEF SizeInv, TypeOK, ConfCacheAssumption
<1>u. ASSUME UNCHANGED <<totalSize, maxSize, entry, cached, lock>> PROVE SizeInv'
  BY <1>u DEF SizeInv
<1>1. ASSUME NEW p \in Path, Change(p) \/ Delete(p) PROVE SizeInv'
  BY <1>1, <1>u DEF Change, Delete
<1>2. ASSUME NEW t \in Thread, \/ \E p \in Path : Begin(t, p)
                               \/ Stat(t) \/ Read(t) \/ Restat(t) \/ Return(t)
      PROVE  SizeInv'
  BY <1>2, <1>u DEF Begin, Stat, Read, Restat, Return
<1>3. ASSUME NEW t \in Thread, NEW n \in Limit, Resize(t, n) PROVE SizeInv'
  <2>1. lock' = {t} /\ UNCHANGED <<totalSize, entry, cached>>
    BY <1>3 DEF Resize
  <2> QED
    BY <2>1 DEF SizeInv
<1>4. ASSUME NEW t \in Thread, Clear(t) PROVE SizeInv'
  <2>1. cached' = {} /\ totalSize' = 0 /\ maxSize' = maxSize
    BY <1>4 DEF Clear
  <2>2. Total(entry', {}) = 0
    BY TotalEmpty
  <2>3. 0 <= maxSize
    BY <1>0
  <2> QED
    BY <2>1, <2>2, <2>3 DEF SizeInv
<1>5. ASSUME NEW t \in Thread, Lookup(t) PROVE SizeInv'
  <2>1. key[t] \in Path /\ UNCHANGED <<maxSize, lock>>
        /\ (Remove(key[t]) \/ UNCHANGED <<totalSize, entry, cached>>)
    BY <1>5 DEF Lookup, TypeOK
  <2>2. CASE Remove(key[t])
    <3>1. totalSize' = Total(entry, cached)' /\ totalSize' <= totalSize
      BY <1>0, <2>1, <2>2, UnmapSize DEF Remove
    <3>2. lock = {} => totalSize <= maxSize
      BY DEF SizeInv
    <3>3. totalSize' \in Nat
      BY NextType DEF TypeOK
    <3> QED
      BY <1>0, <2>1, <3>1, <3>2, <3>3 DEF SizeInv
  <2> QED
    BY <1>u, <2>1, <2>2
<1>6. ASSUME NEW t \in Thread, Insert(t) PROVE SizeInv'
  <2>1. lock' = {t}
    BY <1>6 DEF Insert
  <2>2. totalSize' = Total(entry, cached)'
    BY <1>0, <1>6, InsertSize
  <2> QED
    BY <2>1, <2>2 DEF SizeInv
<1>7. ASSUME NEW t \in Thread, EvictOne(t) PROVE SizeInv'
  <2>1. lock' = lock /\ pc[t] = "evict" /\ Unmap(order[Len(order)]) /\ order # <<>>
    BY <1>7 DEF EvictOne, RemoveLast
  <2>2. order[Len(order)] \in Path
    BY <2>1, QueueShows, BackOf
  <2>3. totalSize' = Total(entry, cached)'
    BY <1>0, <2>1, <2>2, UnmapSize
  <2>4. lock # {}
    BY <2>1 DEF LockInv
  <2> QED
    BY <2>1, <2>3, <2>4 DEF SizeInv
<1>8. ASSUME NEW t \in Thread, EvictDone(t) PROVE SizeInv'
  <2>1. /\ totalSize <= maxSize \/ cached = {} \/ order = <<>>
        /\ UNCHANGED <<totalSize, maxSize, entry, cached>>
    BY <1>8 DEF EvictDone
  <2>2. cached = {} => totalSize = 0
    BY <1>0, TotalEmpty
  <2>3. totalSize <= maxSize
    BY <1>0, <2>1, <2>2, QueueShows
  <2> QED
    BY <2>1, <2>3 DEF SizeInv
<1>9. CASE UNCHANGED vars
  BY <1>9, <1>u DEF vars
<1> QED
  BY <1>1, <1>2, <1>3, <1>4, <1>5, <1>6, <1>7, <1>8, <1>9 DEF Next

\* total_size is the sum of what is cached, so that saturating_sub takes off all that is
\* removed; and it is within the limit when no thread is in an eviction loop.
THEOREM SizeExactHolds == Spec => []SizeExact
<1>1. Init => QueueInv /\ LockInv /\ SizeInv
  <2> SUFFICES ASSUME Init PROVE QueueInv /\ LockInv /\ SizeInv
    OBVIOUS
  <2>1. uses = <<>> /\ order = <<>> /\ cached = {} /\ <<>> \in Seq(Path)
    BY DEF Init
  <2>2. totalSize = 0 /\ maxSize \in Nat /\ lock = {} /\ \A t \in Thread : pc[t] = "idle"
    BY ConfCacheAssumption DEF Init, ConfCacheAssumption
  <2>3. QueueInv
    BY <2>1, KeepEmpty DEF QueueInv, Once
  <2>4. LockInv /\ SizeInv
    BY <2>1, <2>2, TotalEmpty DEF LockInv, SizeInv
  <2> QED
    BY <2>3, <2>4
<1>2. SizeInv => SizeExact
  BY DEF SizeInv, SizeExact
<1> QED
  BY <1>1, <1>2, QueueNext, LockNext, SizeNext, TypeCorrect, PTL DEF Spec
=============================================================================
