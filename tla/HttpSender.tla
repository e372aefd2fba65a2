----------------------------- MODULE HttpSender -----------------------------
(***************************************************************************)
(* splunk_http_sender.rs: one HttpEventSender shared by tasks that send    *)
(* and tasks that change its settings.  Every setting has a lock of its    *)
(* own, which is released between two awaits: a task can be overtaken      *)
(* between any two accesses, in the rebuild of the header cache also.      *)
(***************************************************************************)
EXTENDS Integers, Sequences, FiniteSets

CONSTANTS
    Task,        \* the tasks that share the sender
    MaxUpdates,  \* bound: changes of the extra headers
    MaxSettings, \* bound: other changes (mode, token, gzip)
    MaxSends     \* bound: chunks in all send calls

ASSUME HttpSenderAssumption ==
    /\ IsFiniteSet(Task)
    /\ {MaxUpdates, MaxSettings, MaxSends} \subseteq Nat

\* What matters of an extra header: is it one the sender would add itself, or
\* one that HeaderName or HeaderValue refuses?
HeaderKind == {"authorization", "contentEncoding", "invalid"}

\* The header list, numbered by its changes; -1 is the empty HeaderCache::new.
Headers == [version : -1..MaxUpdates, kinds : SUBSET HeaderKind]

VARIABLES
    extraHeaders,  \* HttpEventSender.extra_headers
    headerCache,   \* the headers from which header_cache was built
    dirty,         \* headers_dirty
    gzipEnabled,   \* gzip_enabled
    ingestMode,    \* ingest_mode
    hecToken,      \* hec_token is Some
    pc,            \* where each task is
    send,          \* the locals of its send call
    chunks,        \* how many chunks its call has sent, and has in all
    taken,         \* the chunks of it that the endpoint has taken, one by one
    completed,     \* history: the changes of headers that have returned
    raced,         \* history: those written while a rebuild was under way
    known,         \* history: those that had returned when the send began
    settings, sends  \* bounds: changes and calls so far

headerVars == <<extraHeaders, headerCache, dirty>>
settingVars == <<gzipEnabled, ingestMode, hecToken>>
calls == <<chunks, taken>>
history == <<completed, raced, known>>
vars == <<headerVars, settingVars, pc, send, calls, history, settings, sends>>

\* mode: the format of the payload; body: what it was made into; encoding:
\* what the headers say of it; headers: the list cloned, then the one loaded;
\* auth: the sender's own Authorization.
NoSend == [mode |-> "none", body |-> "plain", encoding |-> "plain",
           headers |-> [version |-> -1, kinds |-> {}], auth |-> "none"]
SendState == [mode : {"none", "custom", "hec"}, body : {"plain", "gzip"},
              encoding : {"plain", "gzip"}, headers : Headers,
              auth : {"none", "token"}]

InCall(t) == pc[t] \notin {"idle", "markDirty"}

TakenOK == taken \in [Task -> Seq(1..MaxSends)]

TypeOK ==
    /\ extraHeaders \in Headers /\ extraHeaders.version >= 0
    /\ headerCache \in Headers
    /\ "invalid" \notin headerCache.kinds
    /\ dirty \in BOOLEAN
    /\ gzipEnabled \in BOOLEAN
    /\ ingestMode \in {"custom", "hec"}
    /\ hecToken \in BOOLEAN
    /\ pc \in [Task -> {"idle", "markDirty", "mode", "gzip", "check", "clone", "store", "clear", "load",
                        "token", "request"}]
    /\ send \in [Task -> SendState]
    /\ \A t \in Task :
          /\ pc[t] = "markDirty" => send[t].headers.version \in 0..MaxUpdates
          /\ pc[t] = "store" => "invalid" \notin send[t].headers.kinds
          /\ InCall(t) => chunks[t].sent < chunks[t].all
    /\ chunks \in [Task -> [sent : 0..MaxSends, all : 0..MaxSends]]
    /\ TakenOK
    /\ completed \subseteq 0..MaxUpdates
    /\ raced \subseteq 0..MaxUpdates
    /\ known \in [Task -> SUBSET (0..MaxUpdates)]
    /\ settings \in 0..MaxSettings
    /\ sends \in 0..MaxSends

\* HttpEventSenderBuilder::build; mode, token and gzip as set there.
Init ==
    /\ extraHeaders = [version |-> 0, kinds |-> {}]
    /\ headerCache = [version |-> -1, kinds |-> {}]
    /\ dirty = TRUE
    /\ gzipEnabled \in BOOLEAN
    /\ ingestMode \in {"custom", "hec"}
    /\ hecToken \in BOOLEAN
    /\ pc = [t \in Task |-> "idle"]
    /\ send = [t \in Task |-> NoSend]
    /\ chunks = [t \in Task |-> [sent |-> 0, all |-> 0]]
    /\ taken = [t \in Task |-> <<>>]
    /\ completed = {0}
    /\ raced = {}
    /\ known = [t \in Task |-> {}]
    /\ settings = 0
    /\ sends = 0

Goto(t, where) == pc' = [pc EXCEPT ![t] = where]
Become(t, local) == send' = [send EXCEPT ![t] = local]

----------------------------------------------------------------------------
(* Settings.                                                               *)

\* Somebody has cloned the headers and not cleared the flag yet.
Rebuilding == \E t \in Task : pc[t] \in {"store", "clear"}

\* set_extra_headers and add_extra_header write the list ...
UpdateHeaders(t) ==
    /\ pc[t] = "idle"
    /\ extraHeaders.version < MaxUpdates
    /\ LET next == extraHeaders.version + 1
       IN  /\ \E add \in BOOLEAN, kinds \in {{}} \cup {{k} : k \in HeaderKind} :
                 extraHeaders' = [version |-> next,
                                  kinds |-> kinds \cup IF add THEN extraHeaders.kinds
                                                              ELSE {}]
           /\ raced' = IF Rebuilding THEN raced \cup {next} ELSE raced
           /\ Become(t, [send[t] EXCEPT !.headers = [version |-> next, kinds |-> {}]])
    /\ Goto(t, "markDirty")
    /\ UNCHANGED <<headerCache, dirty, settingVars, calls, completed, known,
                   settings, sends>>

\* Mutant of MarkDirty: the flag is not set.
MarkNothing(t) ==
    /\ pc[t] = "markDirty"
    /\ completed' = completed \cup {send[t].headers.version}
    /\ Become(t, NoSend)
    /\ Goto(t, "idle")
    /\ UNCHANGED <<headerVars, settingVars, calls, raced, known, settings, sends>>

\* ... and set the flag under its own lock.
MarkDirty(t) ==
    /\ pc[t] = "markDirty"
    /\ dirty' = TRUE
    /\ completed' = completed \cup {send[t].headers.version}
    /\ Become(t, NoSend)
    /\ Goto(t, "idle")
    /\ UNCHANGED <<extraHeaders, headerCache, settingVars, calls, raced, known,
                   settings, sends>>

\* set_ingest_mode, set_hec_token, set_request_gzip (of its two steps only
\* the first is seen here, lengths being left out).
Set(t) ==
    /\ pc[t] = "idle"
    /\ settings < MaxSettings
    /\ \/ \E mode \in {"custom", "hec"} :
             ingestMode' = mode /\ UNCHANGED <<hecToken, gzipEnabled>>
       \/ hecToken' = TRUE /\ UNCHANGED <<ingestMode, gzipEnabled>>
       \/ gzipEnabled' \in BOOLEAN /\ UNCHANGED <<ingestMode, hecToken>>
    /\ settings' = settings + 1
    /\ UNCHANGED <<headerVars, pc, send, calls, history, sends>>

----------------------------------------------------------------------------
(* A send call.                                                            *)

Static == UNCHANGED <<settingVars, completed, raced, settings, sends>>

(***************************************************************************)
(* send_events, send_events_delimited (custom), send_hec_batch,            *)
(* send_hec_events (hec), send_json_events (the mode is read first) and    *)
(* the batched forms, which send n chunks one after the other.             *)
(***************************************************************************)
BeginSend(t) ==
    /\ pc[t] = "idle"
    /\ \E n \in 1..(MaxSends - sends), mode \in {"none", "custom", "hec"} :
          /\ n > 1 => mode # "none"
          /\ Become(t, [NoSend EXCEPT !.mode = mode])
          /\ Goto(t, IF mode = "none" THEN "mode" ELSE "gzip")
          /\ sends' = sends + n
          /\ chunks' = [chunks EXCEPT ![t] = [sent |-> 0, all |-> n]]
    /\ taken' = [taken EXCEPT ![t] = <<>>]
    /\ known' = [known EXCEPT ![t] = completed]
    /\ UNCHANGED <<headerVars, settingVars, completed, raced, settings>>

\* The call ends, with Ok or with an error.
Return(t) ==
    /\ Become(t, NoSend)
    /\ Goto(t, "idle")
    /\ known' = [known EXCEPT ![t] = {}]

ReadMode(t) ==
    /\ pc[t] = "mode"
    /\ Become(t, [send[t] EXCEPT !.mode = ingestMode])
    /\ Goto(t, "gzip")
    /\ UNCHANGED <<headerVars, calls, known>>
    /\ Static

\* do_send_to_url compresses when gzip is enabled, the payload is not too
\* short for it, and the compression succeeds.
ReadGzip(t) ==
    /\ pc[t] = "gzip"
    /\ \E body \in {"plain", "gzip"} :
          /\ body = "gzip" => gzipEnabled
          /\ Become(t, [send[t] EXCEPT !.body = body])
    /\ Goto(t, "check")
    /\ UNCHANGED <<headerVars, calls, known>>
    /\ Static

\* rebuild_header_cache_if_dirty: look at the flag, clone, build and store,
\* clear the flag.
CheckDirty(t) ==
    /\ pc[t] = "check"
    /\ Goto(t, IF dirty THEN "clone" ELSE "load")
    /\ UNCHANGED <<headerVars, send, calls, known>>
    /\ Static

\* A header that is refused ends the call; the flag stays.
CloneHeaders(t) ==
    /\ pc[t] = "clone"
    /\ IF "invalid" \in extraHeaders.kinds
       THEN Return(t)
       ELSE /\ Become(t, [send[t] EXCEPT !.headers = extraHeaders])
            /\ Goto(t, "store")
            /\ UNCHANGED known
    /\ UNCHANGED <<headerVars, calls>>
    /\ Static

StoreCache(t) ==
    /\ pc[t] = "store"
    /\ headerCache' = send[t].headers
    /\ Goto(t, "clear")
    /\ UNCHANGED <<extraHeaders, dirty, send, calls, known>>
    /\ Static

ClearDirty(t) ==
    /\ pc[t] = "clear"
    /\ dirty' = FALSE
    /\ Goto(t, "load")
    /\ UNCHANGED <<extraHeaders, headerCache, send, calls, known>>
    /\ Static

\* Mutants of LoadCache: the setting is read again where the state of the
\* body, or the format of the payload, decides.
LoadByGzip(t) ==
    /\ pc[t] = "load"
    /\ Become(t, [send[t] EXCEPT !.headers = headerCache,
                                 !.encoding = IF gzipEnabled THEN "gzip" ELSE "plain"])
    /\ Goto(t, IF send[t].mode = "hec" THEN "token" ELSE "request")
    /\ UNCHANGED <<headerVars, calls, known>>
    /\ Static
LoadByMode(t) ==
    /\ pc[t] = "load"
    /\ Become(t, [send[t] EXCEPT !.headers = headerCache, !.encoding = send[t].body])
    /\ Goto(t, IF ingestMode = "hec" THEN "token" ELSE "request")
    /\ UNCHANGED <<headerVars, calls, known>>
    /\ Static

\* get_headers takes the map for a compressed or a plain body; the token is
\* for payloads in the HEC format.
LoadCache(t) ==
    /\ pc[t] = "load"
    /\ Become(t, [send[t] EXCEPT !.headers = headerCache, !.encoding = send[t].body])
    /\ Goto(t, IF send[t].mode = "hec" THEN "token" ELSE "request")
    /\ UNCHANGED <<headerVars, calls, known>>
    /\ Static

\* The user's own Authorization goes before the token.
ReadToken(t) ==
    /\ pc[t] = "token"
    /\ IF hecToken /\ "authorization" \notin send[t].headers.kinds
       THEN Become(t, [send[t] EXCEPT !.auth = "token"])
       ELSE UNCHANGED send
    /\ Goto(t, "request")
    /\ UNCHANGED <<headerVars, calls, known>>
    /\ Static

RequestOk(t) ==
    LET n == chunks[t].sent + 1
    IN  /\ pc[t] = "request"
        /\ taken' = [taken EXCEPT ![t] = Append(@, n)]
        /\ chunks' = [chunks EXCEPT ![t].sent = n]
        /\ IF n = chunks[t].all
           THEN Return(t)
           ELSE /\ Become(t, [NoSend EXCEPT !.mode = send[t].mode])
                /\ Goto(t, "gzip")
                /\ UNCHANGED known
        /\ UNCHANGED headerVars
        /\ Static

\* Mutant of RequestErr: a batched call passes over the chunk that failed.
RequestErrSkips(t) ==
    LET n == chunks[t].sent + 1
    IN  /\ pc[t] = "request"
        /\ chunks' = [chunks EXCEPT ![t].sent = n]
        /\ IF n = chunks[t].all
           THEN Return(t)
           ELSE Goto(t, "gzip") /\ UNCHANGED <<send, known>>
        /\ UNCHANGED <<headerVars, taken>>
        /\ Static

\* No answer, or one that is not 2xx: the endpoint may have taken the chunk;
\* the `?' ends a batched call as well.
RequestErr(t) ==
    /\ pc[t] = "request"
    /\ \/ UNCHANGED taken
       \/ taken' = [taken EXCEPT ![t] = Append(@, chunks[t].sent + 1)]
    /\ Return(t)
    /\ UNCHANGED <<headerVars, chunks>>
    /\ Static

\* The caller drops the future of a call between two awaits.
Cancel(t) ==
    /\ pc[t] # "idle"
    /\ Return(t)
    /\ UNCHANGED <<headerVars, calls>>
    /\ Static

----------------------------------------------------------------------------
Setting(t) == UpdateHeaders(t) \/ MarkDirty(t) \/ Set(t)

Sending(t) ==
    \/ BeginSend(t) \/ ReadMode(t) \/ ReadGzip(t)
    \/ CheckDirty(t) \/ CloneHeaders(t) \/ StoreCache(t) \/ ClearDirty(t)
    \/ LoadCache(t) \/ ReadToken(t) \/ RequestOk(t) \/ RequestErr(t)

Next == \E t \in Task : Setting(t) \/ Sending(t) \/ Cancel(t)

Spec == Init /\ [][Next]_vars

----------------------------------------------------------------------------
(* What a request that is about to go out looks like.                      *)

Requesting(t) == pc[t] = "request"

(***************************************************************************)
(* The HEC token leaves with payloads in the HEC format only ("never on    *)
(* IngestMode::Custom sends"), whenever mode and token are changed, and    *)
(* never next to an Authorization header of the user's.                    *)
(***************************************************************************)
TokenOnlyHec ==
    \A t \in Task : Requesting(t) /\ send[t].auth = "token" =>
        /\ send[t].mode = "hec"
        /\ "authorization" \notin send[t].headers.kinds

(***************************************************************************)
(* Content-Encoding tells the truth about the body however the gzip        *)
(* settings change meanwhile, unless the user sets that header himself.    *)
(***************************************************************************)
EncodingTruthful ==
    \A t \in Task : Requesting(t) =>
        LET own == "contentEncoding" \in send[t].headers.kinds
        IN  ~own => send[t].encoding = send[t].body

(***************************************************************************)
(* A request carries every change of the headers that had returned before  *)
(* the call began and was not written in the middle of a rebuild; it never *)
(* leaves with the empty cache of a new sender.                            *)
(***************************************************************************)
HeadersCurrent ==
    \A t \in Task : Requesting(t) =>
        \A v \in known[t] \ raced : send[t].headers.version >= v

(***************************************************************************)
(* "Set extra headers (replaces all existing extra headers)": a request of *)
(* a call that begins after the change has returned carries it.            *)
(***************************************************************************)
HeadersReplaced ==
    \A t \in Task : Requesting(t) =>
        \A v \in known[t] : send[t].headers.version >= v

\* The first n chunks, each once.
InOrder(n) == [i \in 1..n |-> i]

(***************************************************************************)
(* A batched call sends its chunks in order, each once, and stops at the   *)
(* first that fails: the endpoint has the chunks whose results came back   *)
(* and at most the one that failed, though an error returns no results.    *)
(***************************************************************************)
ChunksInOrder ==
    \A t \in Task : \E k \in {0, 1} : taken[t] = InOrder(chunks[t].sent + k)
=============================================================================
