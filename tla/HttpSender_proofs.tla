-------------------------- MODULE HttpSender_proofs --------------------------
(***************************************************************************)
(* Theorems about HttpSender for any number of tasks and any number of     *)
(* changes and calls: the properties of a request that goes out, from      *)
(* inductive invariants about the tasks that are on the way to it.         *)
(***************************************************************************)
EXTENDS HttpSender, TLAPS

USE HttpSenderAssumption DEF HttpSenderAssumption

----------------------------------------------------------------------------
(* Types.                                                                  *)

LEMMA NoSendType == NoSend \in SendState
  BY DEF NoSend, SendState, Headers

\* Changing a field of a send keeps its type.
LEMMA FieldTypes ==
    ASSUME NEW s \in SendState, NEW mode \in {"none", "custom", "hec"},
           NEW b \in {"plain", "gzip"}, NEW headers \in Headers
    PROVE  /\ [s EXCEPT !.mode = mode] \in SendState
           /\ [s EXCEPT !.body = b] \in SendState
           /\ [s EXCEPT !.headers = headers] \in SendState
           /\ [s EXCEPT !.headers = headers, !.encoding = b] \in SendState
           /\ [s EXCEPT !.auth = "token"] \in SendState
  BY DEF SendState

Where == {"idle", "markDirty", "mode", "gzip", "check", "clone", "store", "clear", "load",
          "token", "request"}

\* What TypeOK says of the tasks.
Places ==
    /\ pc \in [Task -> Where]
    /\ send \in [Task -> SendState]
    /\ \A u \in Task :
          /\ pc[u] = "markDirty" => send[u].headers.version \in 0..MaxUpdates
          /\ pc[u] = "store" => "invalid" \notin send[u].headers.kinds
          /\ pc[u] \notin {"idle", "markDirty"} => chunks[u].sent < chunks[u].all

\* A task goes on with other locals, or with the same; the others stay where they are.
LEMMA MoveType ==
    ASSUME Places, NEW t \in Task, NEW new \in SendState, NEW where \in Where,
           Become(t, new), Goto(t, where),
           \A u \in Task \ {t} : chunks'[u] = chunks[u],
           where = "markDirty" => new.headers.version \in 0..MaxUpdates,
           where = "store" => "invalid" \notin new.headers.kinds,
           where \in {"idle", "markDirty"} \/ chunks'[t].sent < chunks'[t].all
    PROVE  Places'
  BY DEF Places, Become, Goto

LEMMA StayType ==
    ASSUME Places, NEW t \in Task, NEW where \in Where \ {"markDirty", "store"},
           UNCHANGED <<send, chunks>>, Goto(t, where),
           pc[t] \notin {"idle", "markDirty"} \/ where = "idle"
    PROVE  Places'
  BY DEF Places, Goto

\* Inside a call a chunk is left to send.
LEMMA NextChunk ==
    ASSUME TypeOK, NEW t \in Task, InCall(t)
    PROVE  /\ chunks[t].sent \in Nat /\ chunks[t].sent + 1 \in 1..MaxSends
           /\ chunks[t].sent + 1 <= chunks[t].all
  BY DEF TypeOK

LEMMA InitType == Init => TypeOK
<1> SUFFICES ASSUME Init PROVE TypeOK
  OBVIOUS
<1>1. dirty \in BOOLEAN /\ gzipEnabled \in BOOLEAN /\ hecToken \in BOOLEAN
  BY Zenon DEF Init
<1>2. TakenOK
  BY DEF Init, TakenOK
<1> QED
  BY <1>1, <1>2, NoSendType DEF Init, TypeOK, Headers, InCall

\* The Boolean variables, apart from the rest: they need Zenon.
LEMMA FlagTypes ==
    TypeOK /\ [Next]_vars
        => dirty' \in BOOLEAN /\ gzipEnabled' \in BOOLEAN /\ hecToken' \in BOOLEAN
  BY Zenon DEF TypeOK, Next, Setting, Sending, UpdateHeaders, MarkDirty, Set, BeginSend,
       ReadMode, ReadGzip, CheckDirty, CloneHeaders, StoreCache, ClearDirty, LoadCache,
       ReadToken, RequestOk, RequestErr, Cancel, Static, headerVars, settingVars, vars

\* What the endpoint has taken of a call: a chunk that is left goes to the end.
LEMMA TakenType == TypeOK /\ [Next]_vars => TakenOK'
<1> SUFFICES ASSUME TypeOK, [Next]_vars PROVE TakenOK'
  OBVIOUS
<1>1. TakenOK
  BY DEF TypeOK
<1>2. \/ UNCHANGED taken
      \/ \E t \in Task : taken' = [taken EXCEPT ![t] = <<>>]
      \/ \E t \in Task : InCall(t) /\ taken' = [taken EXCEPT ![t] = Append(@, chunks[t].sent + 1)]
  BY Zenon DEF Next, Setting, Sending, UpdateHeaders, MarkDirty, Set, BeginSend, ReadMode,
     ReadGzip, CheckDirty, CloneHeaders, StoreCache, ClearDirty, LoadCache, ReadToken,
     RequestOk, RequestErr, Cancel, Static, calls, vars, InCall
<1>3. ASSUME NEW t \in Task, InCall(t) PROVE chunks[t].sent + 1 \in 1..MaxSends
  BY <1>3, NextChunk
<1>4. CASE \E t \in Task : taken' = [taken EXCEPT ![t] = <<>>]
  BY <1>1, <1>4 DEF TakenOK
<1>5. ASSUME NEW t \in Task, InCall(t),
             taken' = [taken EXCEPT ![t] = Append(@, chunks[t].sent + 1)]
      PROVE  TakenOK'
  <2>1. taken[t] \in Seq(1..MaxSends)
    BY <1>1 DEF TakenOK
  <2>2. Append(taken[t], chunks[t].sent + 1) \in Seq(1..MaxSends)
    BY <2>1, <1>3, <1>5
  <2> HIDE DEF TakenOK
  <2> QED
    BY <1>1, <1>5, <2>2 DEF TakenOK
<1> QED
  BY <1>1, <1>2, <1>4, <1>5 DEF TakenOK

LEMMA NextType == TypeOK /\ [Next]_vars => TypeOK'
<1> SUFFICES ASSUME TypeOK, [Next]_vars PROVE TypeOK'
  OBVIOUS
<1>0. dirty' \in BOOLEAN /\ gzipEnabled' \in BOOLEAN /\ hecToken' \in BOOLEAN
  BY FlagTypes, Zenon
<1>p. Places
  BY DEF TypeOK, Places, Where, InCall
<1> DEFINE Rest == /\ extraHeaders' \in Headers /\ extraHeaders'.version >= 0
                   /\ headerCache' \in Headers
                   /\ "invalid" \notin headerCache'.kinds
                   /\ ingestMode' \in {"custom", "hec"}
                   /\ chunks' \in [Task -> [sent : 0..MaxSends, all : 0..MaxSends]]
                   /\ completed' \subseteq 0..MaxUpdates
                   /\ raced' \subseteq 0..MaxUpdates
                   /\ known' \in [Task -> SUBSET (0..MaxUpdates)]
                   /\ settings' \in 0..MaxSettings
                   /\ sends' \in 0..MaxSends
<1> USE DEF headerVars, settingVars, calls, history, Static
<1>1. ASSUME NEW t \in Task, UpdateHeaders(t) PROVE Rest /\ Places'
  <2> DEFINE h == [version |-> extraHeaders.version + 1, kinds |-> {}]
             new == [send[t] EXCEPT !.headers = h]
  <2>1. h \in Headers /\ h.version \in 0..MaxUpdates
    BY <1>1 DEF UpdateHeaders, TypeOK, Headers
  <2>2. Become(t, new) /\ Goto(t, "markDirty") /\ UNCHANGED chunks
    BY <1>1 DEF UpdateHeaders
  <2>3. Rest
    BY <1>1 DEF UpdateHeaders, TypeOK, Headers
  <2>4. new.headers = h
    BY DEF TypeOK, SendState
  <2> HIDE DEF h
  <2>5. new \in SendState
    BY <2>1, FieldTypes DEF TypeOK
  <2> HIDE DEF new
  <2>6. Places'
    BY <1>p, <2>1, <2>2, <2>4, <2>5, MoveType DEF Where
  <2> QED
    BY <2>3, <2>6
<1>2. ASSUME NEW t \in Task, MarkDirty(t) PROVE Rest /\ Places'
  <2>1. Become(t, NoSend) /\ Goto(t, "idle") /\ UNCHANGED chunks
    BY <1>2 DEF MarkDirty
  <2>2. Places'
    BY <1>p, <2>1, NoSendType, MoveType DEF Where
  <2> QED
    BY <1>2, <2>2 DEF MarkDirty, TypeOK
<1>3. ASSUME NEW t \in Task, Set(t) PROVE Rest /\ Places'
  BY <1>3, <1>p DEF Set, TypeOK, Places
<1>4. ASSUME NEW t \in Task, BeginSend(t) PROVE Rest /\ Places'
  <2>1. PICK n \in 1..(MaxSends - sends), mode \in {"none", "custom", "hec"} :
           /\ Become(t, [NoSend EXCEPT !.mode = mode])
           /\ Goto(t, IF mode = "none" THEN "mode" ELSE "gzip")
           /\ sends' = sends + n
           /\ chunks' = [chunks EXCEPT ![t] = [sent |-> 0, all |-> n]]
    BY <1>4 DEF BeginSend
  <2> DEFINE new == [NoSend EXCEPT !.mode = mode]
             where == IF mode = "none" THEN "mode" ELSE "gzip"
  <2>2. new \in SendState
    BY DEF NoSend, SendState, Headers
  <2>3. n \in 1..MaxSends /\ sends + n \in 0..MaxSends
    BY DEF TypeOK
  <2>4. /\ chunks' \in [Task -> [sent : 0..MaxSends, all : 0..MaxSends]]
        /\ \A u \in Task \ {t} : chunks'[u] = chunks[u]
        /\ chunks'[t].sent < chunks'[t].all
    BY <2>1, <2>3 DEF TypeOK
  <2>5. where \in {"mode", "gzip"} /\ Become(t, new) /\ Goto(t, where)
    BY <2>1
  <2> HIDE DEF new, where
  <2>6. Places'
    BY <1>p, <2>2, <2>4, <2>5, MoveType DEF Where
  <2> QED
    BY <1>4, <2>1, <2>3, <2>4, <2>6 DEF BeginSend, TypeOK
<1>5. ASSUME NEW t \in Task, ReadMode(t) PROVE Rest /\ Places'
  <2> DEFINE new == [send[t] EXCEPT !.mode = ingestMode]
  <2>1. new \in SendState
    BY FieldTypes DEF TypeOK, Headers
  <2>2. Become(t, new) /\ Goto(t, "gzip") /\ UNCHANGED chunks /\ chunks[t].sent < chunks[t].all
    BY <1>5 DEF ReadMode, TypeOK, InCall
  <2> HIDE DEF new
  <2>3. Places'
    BY <1>p, <2>1, <2>2, MoveType DEF Where
  <2> QED
    BY <1>5, <2>3 DEF ReadMode, TypeOK
<1>6. ASSUME NEW t \in Task, ReadGzip(t) PROVE Rest /\ Places'
  <2>1. PICK body \in {"plain", "gzip"} : Become(t, [send[t] EXCEPT !.body = body])
    BY <1>6 DEF ReadGzip
  <2> DEFINE new == [send[t] EXCEPT !.body = body]
  <2>2. new \in SendState
    BY FieldTypes DEF TypeOK, Headers
  <2>3. Become(t, new) /\ Goto(t, "check") /\ UNCHANGED chunks /\ chunks[t].sent < chunks[t].all
    BY <1>6, <2>1 DEF ReadGzip, TypeOK, InCall
  <2> HIDE DEF new
  <2>4. Places'
    BY <1>p, <2>2, <2>3, MoveType DEF Where
  <2> QED
    BY <1>6, <2>4 DEF ReadGzip, TypeOK
<1>7. ASSUME NEW t \in Task, CheckDirty(t) \/ ClearDirty(t) PROVE Rest /\ Places'
  <2>1. \E where \in Where \ {"markDirty", "store"} : Goto(t, where)
    BY <1>7 DEF CheckDirty, ClearDirty, Where
  <2>2. UNCHANGED <<send, chunks>> /\ pc[t] \notin {"idle", "markDirty"}
    BY <1>7 DEF CheckDirty, ClearDirty
  <2>3. Places'
    BY <1>p, <2>1, <2>2, StayType
  <2> QED
    BY <1>7, <2>3 DEF CheckDirty, ClearDirty, TypeOK
<1>r. ASSUME NEW t \in Task, Return(t), \A u \in Task \ {t} : chunks'[u] = chunks[u]
      PROVE  Places' /\ known' \in [Task -> SUBSET (0..MaxUpdates)]
  <2>1. Places'
    BY <1>p, <1>r, NoSendType, MoveType DEF Return, Where
  <2> QED
    BY <1>r, <2>1 DEF Return, TypeOK
<1>8. ASSUME NEW t \in Task, CloneHeaders(t) PROVE Rest /\ Places'
  <2>1. CASE "invalid" \in extraHeaders.kinds
    <3>1. Return(t) /\ UNCHANGED chunks
      BY <1>8, <2>1 DEF CloneHeaders
    <3> QED
      BY <1>8, <1>r, <3>1 DEF CloneHeaders, TypeOK
  <2>2. CASE "invalid" \notin extraHeaders.kinds
    <3> DEFINE new == [send[t] EXCEPT !.headers = extraHeaders]
    <3>0. new.headers = extraHeaders
      BY DEF TypeOK, SendState
    <3>1. new \in SendState
      BY FieldTypes DEF TypeOK
    <3>2. /\ Become(t, new) /\ Goto(t, "store") /\ UNCHANGED <<chunks, known>>
          /\ chunks[t].sent < chunks[t].all
      BY <1>8, <2>2 DEF CloneHeaders, TypeOK, InCall
    <3> HIDE DEF new
    <3>3. Places'
      BY <1>p, <2>2, <3>0, <3>1, <3>2, MoveType DEF Where
    <3> QED
      BY <1>8, <3>2, <3>3 DEF CloneHeaders, TypeOK
  <2> QED
    BY <2>1, <2>2
<1>9. ASSUME NEW t \in Task, StoreCache(t) PROVE Rest /\ Places'
  <2>1. Places'
    BY <1>9, <1>p, StayType DEF StoreCache, Where
  <2> QED
    BY <1>9, <2>1 DEF StoreCache, TypeOK, SendState
<1>10. ASSUME NEW t \in Task, LoadCache(t) PROVE Rest /\ Places'
  <2> DEFINE new == [send[t] EXCEPT !.headers = headerCache, !.encoding = send[t].body]
  <2>1. new \in SendState
    BY DEF TypeOK, SendState
  <2>2. /\ Become(t, new) /\ UNCHANGED chunks /\ chunks[t].sent < chunks[t].all
        /\ \E where \in {"token", "request"} : Goto(t, where)
    BY <1>10 DEF LoadCache, TypeOK, InCall
  <2> HIDE DEF new
  <2>3. Places'
    BY <1>p, <2>1, <2>2, MoveType DEF Where
  <2> QED
    BY <1>10, <2>3 DEF LoadCache, TypeOK
<1>11. ASSUME NEW t \in Task, ReadToken(t) PROVE Rest /\ Places'
  <2> DEFINE new == [send[t] EXCEPT !.auth = "token"]
  <2>1. new \in SendState
    BY DEF TypeOK, SendState
  <2>2. /\ Goto(t, "request") /\ UNCHANGED chunks /\ chunks[t].sent < chunks[t].all
        /\ pc[t] = "token"
        /\ Become(t, new) \/ UNCHANGED send
    BY <1>11 DEF ReadToken, TypeOK, InCall
  <2> HIDE DEF new
  <2>3. Places'
    BY <1>p, <2>1, <2>2, MoveType, StayType DEF Where
  <2> QED
    BY <1>11, <2>3 DEF ReadToken, TypeOK
<1>12. ASSUME NEW t \in Task, RequestOk(t) PROVE Rest /\ Places'
  <2> DEFINE n == chunks[t].sent + 1
  <2>0. InCall(t)
    BY <1>12 DEF RequestOk, InCall
  <2>1. n \in 1..MaxSends /\ n <= chunks[t].all
    BY <2>0, NextChunk
  <2>3. /\ chunks' \in [Task -> [sent : 0..MaxSends, all : 0..MaxSends]]
        /\ \A u \in Task \ {t} : chunks'[u] = chunks[u]
        /\ chunks'[t].sent = n /\ chunks'[t].all = chunks[t].all
    BY <1>12, <2>1 DEF RequestOk, TypeOK
  <2>4. CASE n = chunks[t].all
    <3>1. Return(t)
      BY <1>12, <2>4 DEF RequestOk
    <3> QED
      BY <1>12, <1>r, <2>3, <3>1 DEF RequestOk, TypeOK
  <2>5. CASE n # chunks[t].all
    <3> DEFINE new == [NoSend EXCEPT !.mode = send[t].mode]
    <3>1. new \in SendState
      BY DEF NoSend, TypeOK, SendState, Headers
    <3>2. Become(t, new) /\ Goto(t, "gzip") /\ UNCHANGED known
      BY <1>12, <2>5 DEF RequestOk
    <3>3. chunks'[t].sent < chunks'[t].all
      BY <2>1, <2>3, <2>5 DEF TypeOK
    <3> HIDE DEF new
    <3>4. Places'
      BY <1>p, <2>3, <3>1, <3>2, <3>3, MoveType DEF Where
    <3> QED
      BY <1>12, <2>3, <3>2, <3>4 DEF RequestOk, TypeOK
  <2> QED
    BY <2>4, <2>5
<1>13. ASSUME NEW t \in Task, RequestErr(t) PROVE Rest /\ Places'
  <2>1. Return(t) /\ UNCHANGED <<headerVars, chunks>> /\ Static
    BY <1>13 DEF RequestErr
  <2> QED
    BY <1>r, <2>1 DEF TypeOK
<1>14. ASSUME NEW t \in Task, Cancel(t) PROVE Rest /\ Places'
  <2>1. Return(t) /\ UNCHANGED <<headerVars, calls>> /\ Static
    BY <1>14 DEF Cancel
  <2> QED
    BY <1>r, <2>1 DEF TypeOK
<1>15. ASSUME UNCHANGED vars PROVE Rest /\ Places'
  BY <1>15, <1>p DEF vars, TypeOK, Places
<1> HIDE DEF Rest
<1>16. Rest /\ Places'
  BY <1>1, <1>2, <1>3, <1>4, <1>5, <1>6, <1>7, <1>8, <1>9, <1>10, <1>11, <1>12,
     <1>13, <1>14, <1>15 DEF Next, Setting, Sending
<1> QED
  BY <1>0, <1>16, TakenType DEF Rest, TypeOK, Places, Where, InCall

\* Every variable keeps its type, and a task that is inside a call has a chunk left to send.
THEOREM TypeCorrect == Spec => []TypeOK
  BY InitType, NextType, PTL DEF Spec

----------------------------------------------------------------------------
(* The token and the encoding: what holds of a send on its way to the request. *)

RequestInv ==
    \A t \in Task :
        /\ pc[t] # "request" => send[t].auth = "none"
        /\ pc[t] = "token" => send[t].mode = "hec"
        /\ pc[t] \in {"token", "request"} => send[t].encoding = send[t].body
        /\ pc[t] = "request" /\ send[t].auth = "token" =>
              send[t].mode = "hec" /\ "authorization" \notin send[t].headers.kinds

LEMMA RequestInvNext == TypeOK /\ RequestInv /\ [Next]_vars => RequestInv'
<1> SUFFICES ASSUME TypeOK, RequestInv, [Next]_vars PROVE RequestInv'
  OBVIOUS
<1> USE DEF RequestInv, TypeOK, SendState, Become, Goto
<1>r. ASSUME NEW t \in Task, Return(t) PROVE RequestInv'
  BY <1>r DEF Return, NoSend
<1>1. ASSUME NEW t \in Task, UpdateHeaders(t) PROVE RequestInv'
  <2>1. PICK h : Become(t, [send[t] EXCEPT !.headers = h])
    BY <1>1 DEF UpdateHeaders
  <2>2. pc[t] = "idle" /\ Goto(t, "markDirty")
    BY <1>1 DEF UpdateHeaders
  <2> QED
    BY <2>1, <2>2
<1>2. ASSUME NEW t \in Task, MarkDirty(t) PROVE RequestInv'
  BY <1>2 DEF MarkDirty, NoSend
<1>3. ASSUME NEW t \in Task, Set(t) PROVE RequestInv'
  BY <1>3 DEF Set
<1>4. ASSUME NEW t \in Task, BeginSend(t) PROVE RequestInv'
  <2>1. PICK mode : /\ Become(t, [NoSend EXCEPT !.mode = mode])
                    /\ Goto(t, IF mode = "none" THEN "mode" ELSE "gzip")
    BY <1>4 DEF BeginSend
  <2> QED
    BY <2>1 DEF NoSend
<1>5. ASSUME NEW t \in Task, ReadMode(t) PROVE RequestInv'
  BY <1>5 DEF ReadMode
<1>6. ASSUME NEW t \in Task, ReadGzip(t) PROVE RequestInv'
  BY <1>6 DEF ReadGzip
<1>7. ASSUME NEW t \in Task, CheckDirty(t) \/ StoreCache(t) \/ ClearDirty(t) PROVE RequestInv'
  BY <1>7 DEF CheckDirty, StoreCache, ClearDirty
<1>8. ASSUME NEW t \in Task, CloneHeaders(t) PROVE RequestInv'
  BY <1>8, <1>r DEF CloneHeaders
<1>9. ASSUME NEW t \in Task, LoadCache(t) PROVE RequestInv'
  BY <1>9 DEF LoadCache
<1>10. ASSUME NEW t \in Task, ReadToken(t) PROVE RequestInv'
  <2>1. pc[t] = "token" /\ Goto(t, "request") /\ send[t].mode = "hec"
        /\ send[t].auth = "none" /\ send[t].encoding = send[t].body
    BY <1>10 DEF ReadToken
  <2>2. CASE hecToken /\ "authorization" \notin send[t].headers.kinds
    <3>1. Become(t, [send[t] EXCEPT !.auth = "token"])
      BY <1>10, <2>2 DEF ReadToken
    <3> QED
      BY <2>1, <2>2, <3>1
  <2>3. CASE ~(hecToken /\ "authorization" \notin send[t].headers.kinds)
    <3>1. UNCHANGED send
      BY <1>10, <2>3 DEF ReadToken
    <3> QED
      BY <2>1, <3>1
  <2> QED
    BY <2>2, <2>3
<1>11. ASSUME NEW t \in Task, RequestOk(t) PROVE RequestInv'
  <2>1. \/ Return(t)
        \/ Become(t, [NoSend EXCEPT !.mode = send[t].mode]) /\ Goto(t, "gzip")
    BY <1>11 DEF RequestOk
  <2> QED
    BY <2>1, <1>r DEF NoSend
<1>12. ASSUME NEW t \in Task, RequestErr(t) \/ Cancel(t) PROVE RequestInv'
  BY <1>12, <1>r DEF RequestErr, Cancel
<1>13. CASE UNCHANGED vars
  BY <1>13 DEF vars
<1> QED
  BY <1>1, <1>2, <1>3, <1>4, <1>5, <1>6, <1>7, <1>8, <1>9, <1>10, <1>11, <1>12, <1>13
  DEF Next, Setting, Sending

LEMMA RequestInvHolds == Spec => []RequestInv
<1>1. Init => RequestInv
  BY DEF Init, RequestInv, NoSend
<1> QED
  BY <1>1, RequestInvNext, TypeCorrect, PTL DEF Spec

\* The token leaves with payloads in the HEC format only, and never next to the user's own
\* Authorization header, however mode, token and headers are changed meanwhile.
THEOREM TokenOnlyHecHolds == Spec => []TokenOnlyHec
<1>1. RequestInv => TokenOnlyHec
  BY DEF RequestInv, TokenOnlyHec, Requesting
<1> QED
  BY <1>1, RequestInvHolds, PTL

\* Content-Encoding tells the truth about the body, however the gzip setting changes meanwhile.
THEOREM EncodingTruthfulHolds == Spec => []EncodingTruthful
<1>1. RequestInv => EncodingTruthful
  BY DEF RequestInv, EncodingTruthful, Requesting
<1> QED
  BY <1>1, RequestInvHolds, PTL

----------------------------------------------------------------------------
(* The chunks of a batched call.                                           *)

ChunkInv ==
    \A t \in Task :
        IF InCall(t) THEN taken[t] = InOrder(chunks[t].sent)
                     ELSE \E k \in {0, 1} : taken[t] = InOrder(chunks[t].sent + k)

LEMMA OneMore ==
    \A n \in Nat : Append(InOrder(n), n + 1) = InOrder(n + 1) /\ InOrder(n) = InOrder(n + 0)
  BY DEF InOrder

LEMMA TakenDomain == TypeOK => DOMAIN taken = Task /\ taken = [t \in Task |-> taken[t]]
  BY DEF TypeOK, TakenOK

LEMMA ChunkInvNext == TypeOK /\ ChunkInv /\ [Next]_vars => ChunkInv'
<1> SUFFICES ASSUME TypeOK, ChunkInv, [Next]_vars PROVE ChunkInv'
  OBVIOUS
<1> USE DEF ChunkInv, InCall, TypeOK, calls, Goto
\* A task that leaves its call, or stays in it or out of it, with the same chunks.
<1>m. ASSUME NEW t \in Task, NEW where, Goto(t, where), UNCHANGED <<chunks, taken>>,
             InCall(t) \/ where \in {"idle", "markDirty"}
      PROVE  ChunkInv'
  <2>1. ASSUME NEW u \in Task
        PROVE  IF InCall(u)' THEN taken'[u] = InOrder(chunks'[u].sent)
                             ELSE \E k \in {0, 1} : taken'[u] = InOrder(chunks'[u].sent + k)
    <3>1. chunks[u].sent = chunks[u].sent + 0
      OBVIOUS
    <3> QED
      BY <1>m, <3>1
  <2> QED
    BY <2>1
<1>1. ASSUME NEW t \in Task, UpdateHeaders(t) \/ MarkDirty(t) PROVE ChunkInv'
  BY <1>1, <1>m DEF UpdateHeaders, MarkDirty
<1>2. ASSUME NEW t \in Task, Set(t) PROVE ChunkInv'
  BY <1>2 DEF Set
<1>3. ASSUME NEW t \in Task, BeginSend(t) PROVE ChunkInv'
  <2>1. PICK n \in 1..(MaxSends - sends), mode \in {"none", "custom", "hec"} :
           /\ chunks' = [chunks EXCEPT ![t] = [sent |-> 0, all |-> n]]
           /\ Goto(t, IF mode = "none" THEN "mode" ELSE "gzip")
    BY <1>3 DEF BeginSend
  <2>2. taken' = [taken EXCEPT ![t] = <<>>]
    BY <1>3 DEF BeginSend
  <2>3. \A u \in Task : taken'[u] = IF u = t THEN <<>> ELSE taken[u]
    BY <2>2, TakenDomain
  <2>4. InOrder(0) = <<>>
    BY DEF InOrder
  <2> QED
    BY <2>1, <2>3, <2>4
<1>4. ASSUME NEW t \in Task,
             \/ ReadMode(t) \/ ReadGzip(t) \/ CheckDirty(t) \/ StoreCache(t)
             \/ ClearDirty(t) \/ LoadCache(t) \/ ReadToken(t)
      PROVE  ChunkInv'
  BY <1>4, <1>m DEF ReadMode, ReadGzip, CheckDirty, StoreCache, ClearDirty, LoadCache, ReadToken
<1>5. ASSUME NEW t \in Task, CloneHeaders(t) \/ Cancel(t) PROVE ChunkInv'
  BY <1>5, <1>m DEF CloneHeaders, Cancel, Return
<1>6. ASSUME NEW t \in Task, RequestOk(t) PROVE ChunkInv'
  <2>1. /\ taken' = [taken EXCEPT ![t] = Append(@, chunks[t].sent + 1)]
        /\ chunks' = [chunks EXCEPT ![t].sent = chunks[t].sent + 1]
        /\ pc[t] = "request"
        /\ \E where : Goto(t, where)
    BY <1>6 DEF RequestOk, Return
  <2>2. taken'[t] = InOrder(chunks'[t].sent)
    <3>0. chunks[t].sent \in Nat
      OBVIOUS
    <3>1. taken[t] = InOrder(chunks[t].sent)
      BY <2>1
    <3>2. taken'[t] = Append(taken[t], chunks[t].sent + 1)
      BY <2>1, TakenDomain
    <3>3. chunks'[t].sent = chunks[t].sent + 1
      BY <2>1
    <3>4. Append(InOrder(chunks[t].sent), chunks[t].sent + 1) = InOrder(chunks[t].sent + 1)
      BY <3>0, OneMore
    <3> HIDE DEF ChunkInv, TypeOK, InCall, calls, Goto
    <3> QED
      BY <3>1, <3>2, <3>3, <3>4
  <2>3. chunks'[t].sent = chunks'[t].sent + 0
    BY <2>1
  <2> QED
    BY <2>1, <2>2, <2>3
<1>7. ASSUME NEW t \in Task, RequestErr(t) PROVE ChunkInv'
  <2>1. /\ UNCHANGED chunks
        /\ taken' = taken \/ taken' = [taken EXCEPT ![t] = Append(@, chunks[t].sent + 1)]
        /\ pc[t] = "request" /\ Goto(t, "idle")
    BY <1>7 DEF RequestErr, Return
  <2>2. taken'[t] = InOrder(chunks[t].sent + 0) \/ taken'[t] = InOrder(chunks[t].sent + 1)
    <3>0. chunks[t].sent \in Nat
      OBVIOUS
    <3>1. taken[t] = InOrder(chunks[t].sent)
      BY <2>1
    <3>2. taken'[t] = taken[t] \/ taken'[t] = Append(taken[t], chunks[t].sent + 1)
      BY <2>1, TakenDomain
    <3> QED
      BY <3>0, <3>1, <3>2, OneMore
  <2>3. \A u \in Task \ {t} : taken'[u] = taken[u] /\ pc'[u] = pc[u]
    BY <2>1, TakenDomain
  <2>4. ~InCall(t)' /\ \E k \in {0, 1} : taken'[t] = InOrder(chunks'[t].sent + k)
    BY <2>1, <2>2
  <2> QED
    BY <2>1, <2>3, <2>4
<1>8. CASE UNCHANGED vars
  BY <1>8 DEF vars
<1> QED
  BY <1>1, <1>2, <1>3, <1>4, <1>5, <1>6, <1>7, <1>8 DEF Next, Setting, Sending

\* A batched call sends its chunks in order, each once, and stops at the first that fails.
THEOREM ChunksInOrderHolds == Spec => []ChunksInOrder
<1>1. Init => ChunkInv
  <2>1. <<>> = InOrder(0) /\ 0 + 0 = 0
    BY DEF InOrder
  <2> QED
    BY <2>1 DEF Init, ChunkInv, InCall
<1>2. TypeOK /\ ChunkInv => ChunksInOrder
  <2> SUFFICES ASSUME TypeOK, ChunkInv, NEW t \in Task
               PROVE  \E k \in {0, 1} : taken[t] = InOrder(chunks[t].sent + k)
    BY DEF ChunksInOrder
  <2>1. chunks[t].sent = chunks[t].sent + 0
    BY DEF TypeOK
  <2> QED
    BY <2>1 DEF ChunkInv
<1> QED
  BY <1>1, <1>2, ChunkInvNext, TypeCorrect, PTL DEF Spec

----------------------------------------------------------------------------
(* The header cache.  A list is fresh when it has every change written so  *)
(* far, those apart that were written in the middle of a rebuild.          *)

Fresh(headers) == \A v \in (0..extraHeaders.version) \ raced : headers.version >= v
Has(headers, changes) == \A v \in changes \ raced : headers.version >= v

HeaderInv ==
    /\ \A v \in completed : v <= extraHeaders.version
    /\ ~dirty => Has(headerCache, completed)
    /\ \A t \in Task :
          /\ known[t] \subseteq completed
          /\ pc[t] = "markDirty" => send[t].headers.version <= extraHeaders.version
          /\ pc[t] \in {"store", "clear"} => Fresh(send[t].headers)
          /\ pc[t] = "clear" => Fresh(headerCache)
          /\ pc[t] = "load" => Has(headerCache, known[t])
          /\ pc[t] \in {"token", "request"} => Has(send[t].headers, known[t])

\* A call that ends, whatever it had got to.
LEMMA ReturnKeepsHeaders ==
    ASSUME TypeOK, HeaderInv, NEW t \in Task, Return(t),
           UNCHANGED <<headerVars, completed, raced>>
    PROVE  HeaderInv'
  BY DEF HeaderInv, Has, Fresh, Return, Goto, Become, TypeOK, headerVars

LEMMA HeaderInvNext == TypeOK /\ HeaderInv /\ [Next]_vars => HeaderInv'
<1> SUFFICES ASSUME TypeOK, HeaderInv, [Next]_vars PROVE HeaderInv'
  OBVIOUS
<1> USE DEF HeaderInv, Has, Fresh, TypeOK, SendState, Headers, Goto, Become,
            headerVars, settingVars, calls, history, Static
<1>1. ASSUME NEW t \in Task, UpdateHeaders(t) PROVE HeaderInv'
  <2> DEFINE next == extraHeaders.version + 1
             h == [version |-> next, kinds |-> {}]
  <2>1. /\ pc[t] = "idle" /\ Goto(t, "markDirty")
        /\ extraHeaders'.version = next
        /\ Become(t, [send[t] EXCEPT !.headers = h])
        /\ raced' = IF Rebuilding THEN raced \cup {next} ELSE raced
        /\ UNCHANGED <<headerCache, dirty, completed, known>>
    BY <1>1 DEF UpdateHeaders
  <2>2. send'[t].headers.version = next
    BY <2>1
  <2>3. ASSUME NEW u \in Task, pc[u] \in {"store", "clear"}
        PROVE  (0..next) \ raced' \subseteq (0..extraHeaders.version) \ raced
    BY <2>1, <2>3 DEF Rebuilding
  <2> QED
    BY <2>1, <2>2, <2>3
<1>2. ASSUME NEW t \in Task, MarkDirty(t) PROVE HeaderInv'
  BY <1>2 DEF MarkDirty
<1>3. ASSUME NEW t \in Task, Set(t) PROVE HeaderInv'
  BY <1>3 DEF Set
<1>4. ASSUME NEW t \in Task, BeginSend(t) PROVE HeaderInv'
  <2>1. /\ pc[t] = "idle"
        /\ \E where \in {"mode", "gzip"} : Goto(t, where)
        /\ \A u \in Task \ {t} : send'[u] = send[u]
        /\ known' = [known EXCEPT ![t] = completed]
        /\ UNCHANGED <<headerVars, completed, raced>>
    BY <1>4 DEF BeginSend
  <2> QED
    BY <2>1
<1>5. ASSUME NEW t \in Task, ReadMode(t) PROVE HeaderInv'
  BY <1>5 DEF ReadMode
<1>6. ASSUME NEW t \in Task, ReadGzip(t) PROVE HeaderInv'
  BY <1>6 DEF ReadGzip
<1>7. ASSUME NEW t \in Task, CheckDirty(t) PROVE HeaderInv'
  BY <1>7 DEF CheckDirty
<1>8. ASSUME NEW t \in Task, CloneHeaders(t) PROVE HeaderInv'
  <2>1. CASE "invalid" \in extraHeaders.kinds
    BY <1>8, <2>1, ReturnKeepsHeaders DEF CloneHeaders
  <2>2. CASE "invalid" \notin extraHeaders.kinds
    BY <1>8, <2>2 DEF CloneHeaders
  <2> QED
    BY <2>1, <2>2
<1>9. ASSUME NEW t \in Task, StoreCache(t) PROVE HeaderInv'
  BY <1>9 DEF StoreCache
<1>10. ASSUME NEW t \in Task, ClearDirty(t) PROVE HeaderInv'
  BY <1>10 DEF ClearDirty
<1>11. ASSUME NEW t \in Task, LoadCache(t) PROVE HeaderInv'
  BY <1>11 DEF LoadCache
<1>12. ASSUME NEW t \in Task, ReadToken(t) PROVE HeaderInv'
  BY <1>12 DEF ReadToken
<1>13. ASSUME NEW t \in Task, RequestOk(t) PROVE HeaderInv'
  <2>1. CASE chunks[t].sent + 1 = chunks[t].all
    BY <1>13, <2>1, ReturnKeepsHeaders DEF RequestOk
  <2>2. CASE chunks[t].sent + 1 # chunks[t].all
    BY <1>13, <2>2 DEF RequestOk
  <2> QED
    BY <2>1, <2>2
<1>14. ASSUME NEW t \in Task, RequestErr(t) \/ Cancel(t) PROVE HeaderInv'
  BY <1>14, ReturnKeepsHeaders DEF RequestErr, Cancel
<1>15. CASE UNCHANGED vars
  BY <1>15 DEF vars
<1> QED
  BY <1>1, <1>2, <1>3, <1>4, <1>5, <1>6, <1>7, <1>8, <1>9, <1>10, <1>11, <1>12, <1>13, <1>14, <1>15
  DEF Next, Setting, Sending

\* A request carries every change of the headers that had returned before its call began and
\* was not written in the middle of a rebuild.
THEOREM HeadersCurrentHolds == Spec => []HeadersCurrent
<1>1. Init => HeaderInv
  BY DEF Init, HeaderInv, Has, Fresh
<1>2. HeaderInv => HeadersCurrent
  BY DEF HeaderInv, Has, HeadersCurrent, Requesting
<1> QED
  BY <1>1, <1>2, HeaderInvNext, TypeCorrect, PTL DEF Spec
=============================================================================
