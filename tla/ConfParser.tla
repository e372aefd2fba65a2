----------------------------- MODULE ConfParser -----------------------------
(***************************************************************************)
(* merge_configs and merge_configs_strict of splunk_config_processor.rs:   *)
(* files are parsed one after the other, a line at a time, and their       *)
(* entries merged into one dictionary.  The limit on the lines of a value  *)
(* is a global that another thread may set at any time.                    *)
(*                                                                         *)
(* A line is what the parser can tell of it.  A value is the places (file, *)
(* line) whose text it is made of: equal places, equal text.               *)
(***************************************************************************)
EXTENDS Integers, Sequences, SequencesExt

CONSTANTS
    Stanza,       \* names of stanzas, "default" among them
    Key,          \* names of options
    DefaultLimit, \* DEFAULT_MAX_MULTILINE_LINES
    LimitArg,     \* the arguments set_max_multiline_lines is called with
    MaxFiles,     \* bound: files of a call
    MaxLines      \* bound: lines of all files together

ASSUME ConfParserAssumption ==
    /\ "default" \in Stanza
    /\ DefaultLimit \in Nat \ {0}
    /\ LimitArg \subseteq Nat
    /\ MaxFiles \in Nat /\ MaxLines \in Nat

\* more: does it end in a backslash?  "other" is a blank line, a comment, or
\* anything else that is neither a header nor has a key before a '='; "spaced"
\* is a header with blanks inside of the brackets.
Line ==
    [kind : {"header"}, name : Stanza, more : {FALSE}]
    \cup [kind : {"spaced"}, more : {FALSE}]
    \cup [kind : {"pair"}, name : Key, more : BOOLEAN]
    \cup [kind : {"other"}, more : BOOLEAN]

\* What is built of them: Entry and Stanza of the code.
EntryDoc == [key : Key, value : Seq(Nat \X Nat)]
StanzaDoc == [name : Stanza, entries : Seq(EntryDoc)]

VARIABLES
    maxMultilineLines, \* MAX_MULTILINE_LINES
    precedence,        \* the argument of the call
    strict,            \* is it merge_configs_strict?
    pc,                \* "files", "lines", "merge", "done" or "failed"
    dict,              \* the dictionary built so far
    doc,               \* of this file: the stanzas in the order they appeared
    stanza,            \* current_stanza
    open,              \* {current_key} inside of a multiline value, or {}
    raw,               \* raw_value
    multiline,         \* multiline_lines
    merging,           \* the stanza of doc that is being merged, or 0 ...
    merged,            \* ... and how many of its entries have been
    files,             \* history: lines and limit of the files parsed so far
    taken              \* bound: lines of all files

parser == <<doc, stanza, open, raw, multiline>>
merge == <<dict, merging, merged>>
history == <<files, taken>>
vars == <<maxMultilineLines, precedence, strict, pc, parser, merge, history>>

File == Len(files)
Limit == files[File].limit
Here == <<File, Len(files[File].lines) + 1>>

TypeOK ==
    /\ maxMultilineLines \in {DefaultLimit} \cup (LimitArg \ {0})
    /\ precedence \in {"FirstWins", "LastWins"} /\ strict \in BOOLEAN
    /\ pc \in {"files", "lines", "merge", "done", "failed"}
    /\ doc \in Seq(StanzaDoc)
    /\ stanza \in Stanza
    /\ open \in SUBSET Key
    /\ raw \in Seq(Nat \X Nat)
    /\ multiline \in Nat
    /\ merging \in 0..Len(doc)
    /\ merged \in 0..(IF merging = 0 THEN 0 ELSE Len(doc[merging].entries))
    /\ files \in Seq([lines : Seq(Line), limit : Nat \ {0}])
    /\ pc \in {"lines", "merge"} <=> doc # <<>>
    /\ doc # <<>> => files # <<>>
    /\ pc # "lines" => open = {}
    /\ pc # "merge" => merging = 0
    /\ open = {} <=> multiline = 0

Init ==
    /\ maxMultilineLines = DefaultLimit
    /\ precedence \in {"FirstWins", "LastWins"}
    /\ strict \in BOOLEAN
    /\ pc = "files"
    /\ dict = [s \in {"default"} |-> <<>>]
    /\ doc = <<>>
    /\ stanza = "default"
    /\ open = {}
    /\ raw = <<>>
    /\ multiline = 0
    /\ merging = 0
    /\ merged = 0
    /\ files = <<>>
    /\ taken = 0

----------------------------------------------------------------------------
\* set_max_multiline_lines, by another thread
SetMaxMultilineLines(limit) ==
    /\ maxMultilineLines' = IF limit = 0 THEN DefaultLimit ELSE limit
    /\ UNCHANGED <<precedence, strict, pc, parser, merge, history>>

\* A file that is read.  parse_config looks at the limit once, at the start.
OpenFile ==
    /\ pc = "files"
    /\ File < MaxFiles
    /\ pc' = "lines"
    /\ files' = Append(files, [lines |-> <<>>, limit |-> maxMultilineLines])
    /\ doc' = <<[name |-> "default", entries |-> <<>>]>>
    /\ stanza' = "default"
    /\ UNCHANGED <<maxMultilineLines, precedence, strict, open, raw, multiline, merge, taken>>

\* A file that is not there or cannot be read: merge_configs skips it.
OpenFails ==
    /\ pc = "files"
    /\ File < MaxFiles
    /\ strict
    /\ pc' = "failed"
    /\ UNCHANGED <<maxMultilineLines, precedence, strict, parser, merge, history>>

Return ==
    /\ pc = "files"
    /\ pc' = "done"
    /\ UNCHANGED <<maxMultilineLines, precedence, strict, parser, merge, history>>

----------------------------------------------------------------------------
(* One line.  add_entry puts the value under its key in the current stanza *)
(* and leaves the multiline state.                                         *)

StanzaIndex(d, name) == SelectInSeq(d, LAMBDA st : st.name = name)

AddEntry(d, keys, value) ==
    IF keys = {} THEN d
    ELSE [d EXCEPT ![StanzaIndex(d, stanza)].entries =
             Append(@, [key |-> CHOOSE k \in keys : TRUE, value |-> value])]

Take(line) ==
    /\ pc = "lines"
    /\ taken < MaxLines
    /\ taken' = taken + 1
    /\ files' = [files EXCEPT ![File].lines = Append(@, line)]
    /\ UNCHANGED <<maxMultilineLines, precedence, strict, pc, merge>>

Close(value) ==
    /\ doc' = AddEntry(doc, open, value)
    /\ open' = {}
    /\ raw' = <<>>
    /\ multiline' = 0
    /\ UNCHANGED stanza

\* Mutant of AtLimit: the line that is too much is still taken in.
AtLimitTakes(line) ==
    /\ open # {}
    /\ multiline >= Limit
    /\ Take(line)
    /\ Close(Append(raw, Here))

\* The value has as many lines as it may: this one is dropped, and whatever
\* follows is read as if it did not belong to the value.
AtLimit(line) ==
    /\ open # {}
    /\ multiline >= Limit
    /\ Take(line)
    /\ Close(raw)

Continue(line) ==
    /\ open # {}
    /\ multiline < Limit
    /\ Take(line)
    /\ IF line.more
       THEN /\ raw' = Append(raw, Here)
            /\ multiline' = multiline + 1
            /\ UNCHANGED <<doc, stanza, open>>
       ELSE Close(Append(raw, Here))

Other(line) ==
    /\ open = {}
    /\ line.kind \in {"other", "spaced"}
    /\ Take(line)
    /\ UNCHANGED parser

\* Mutant of Header: the index is not asked.
HeaderAppends(line) ==
    /\ open = {}
    /\ line.kind = "header"
    /\ Take(line)
    /\ stanza' = line.name
    /\ doc' = Append(doc, [name |-> line.name, entries |-> <<>>])
    /\ UNCHANGED <<open, raw, multiline>>

Header(line) ==
    /\ open = {}
    /\ line.kind = "header"
    /\ Take(line)
    /\ stanza' = line.name
    /\ doc' = IF StanzaIndex(doc, line.name) > 0 THEN doc
              ELSE Append(doc, [name |-> line.name, entries |-> <<>>])
    /\ UNCHANGED <<open, raw, multiline>>

Pair(line) ==
    /\ open = {}
    /\ line.kind = "pair"
    /\ Take(line)
    /\ IF line.more
       THEN /\ open' = {line.name}
            /\ raw' = <<Here>>
            /\ multiline' = 1
            /\ UNCHANGED <<doc, stanza>>
       ELSE /\ doc' = AddEntry(doc, {line.name}, <<Here>>)
            /\ UNCHANGED <<stanza, open, raw, multiline>>

----------------------------------------------------------------------------
(* The end of a file: a value that is open is closed, and the stanzas are  *)
(* merged one after the other, entry by entry.                             *)

EndFile ==
    /\ pc = "lines"
    /\ pc' = "merge"
    /\ Close(raw)
    /\ UNCHANGED <<maxMultilineLines, precedence, strict, merge, history>>

\* the entries of the stanza that are yet to be merged
Rest == IF merging = 0 THEN 0 ELSE Len(doc[merging].entries) - merged

\* entry().or_default()
MergeStanza ==
    /\ pc = "merge"
    /\ Rest = 0
    /\ merging < Len(doc)
    /\ merging' = merging + 1
    /\ merged' = 0
    /\ LET name == doc[merging + 1].name
       IN  dict' = [s \in DOMAIN dict \cup {name} |-> IF s \in DOMAIN dict THEN dict[s] ELSE <<>>]
    /\ UNCHANGED <<maxMultilineLines, precedence, strict, pc, parser, history>>

\* Mutant of Put: the first value stays, whatever was asked for.
PutFirst(m, e) ==
    [k \in DOMAIN m \cup {e.key} |-> IF k \in DOMAIN m THEN m[k] ELSE e.value]

\* or_insert or insert
Put(m, e) ==
    [k \in DOMAIN m \cup {e.key} |->
        IF k # e.key \/ (precedence = "FirstWins" /\ k \in DOMAIN m)
        THEN m[k] ELSE e.value]

MergeEntry ==
    /\ pc = "merge"
    /\ Rest > 0
    /\ merged' = merged + 1
    /\ dict' = [dict EXCEPT ![doc[merging].name] = Put(@, doc[merging].entries[merged + 1])]
    /\ UNCHANGED <<maxMultilineLines, precedence, strict, pc, parser, merging, history>>

MergeDone ==
    /\ pc = "merge"
    /\ Rest = 0
    /\ merging = Len(doc)
    /\ pc' = "files"
    /\ doc' = <<>>
    /\ stanza' = "default"
    /\ merging' = 0
    /\ merged' = 0
    /\ UNCHANGED <<maxMultilineLines, precedence, strict, dict, open, raw, multiline, history>>

Next ==
    \/ \E n \in LimitArg : SetMaxMultilineLines(n)
    \/ OpenFile \/ OpenFails \/ Return
    \/ \E line \in Line :
          AtLimit(line) \/ Continue(line) \/ Other(line) \/ Header(line) \/ Pair(line)
    \/ EndFile \/ MergeStanza \/ MergeEntry \/ MergeDone

Spec == Init /\ [][Next]_vars

----------------------------------------------------------------------------
(***************************************************************************)
(* What files mean, said without a parser.  Lines fall into logical lines: *)
(* a pair that ends in a backslash takes in the lines up to the first that *)
(* does not, and at most as many as the limit says.                        *)
(***************************************************************************)
Least(S) == CHOOSE i \in S : \A j \in S : i <= j

\* The last line of the logical line that begins with line i; at the limit one
\* more line is consumed than the value has.
LastOf(f, i) ==
    LET n == Len(f.lines)
    IN  IF f.lines[i].kind # "pair" \/ ~f.lines[i].more THEN i
        ELSE Least({n, i + f.limit} \cup {j \in i+1..n : ~f.lines[j].more})

\* S are the lines of f that begin a logical line.
Logical(f, S) == S = 1..Len(f.lines) \cap ({1} \cup {LastOf(f, i) + 1 : i \in S})
LogicalLines(f) == CHOOSE S \in SUBSET (1..Len(f.lines)) : Logical(f, S)

PairsOf(f) == {i \in LogicalLines(f) : f.lines[i].kind = "pair"}
HeadersOf(f) == {i \in LogicalLines(f) : f.lines[i].kind = "header"}

\* The value of the pair in line i of f, the n-th file.
ValueOf(f, n, i) ==
    LET last == Least({LastOf(f, i), i + f.limit - 1})
    IN  [j \in 1..(last - i + 1) |-> <<n, i + j - 1>>]

StanzaAt(f, i) ==
    LET before == {j \in HeadersOf(f) : j < i}
    IN  IF before = {} THEN "default"
        ELSE f.lines[CHOOSE j \in before : \A k \in before : k <= j].name

\* The places <<file, line>> of pairs, and what a place has.
Places == UNION {{<<n, i>> : i \in PairsOf(files[n])} : n \in DOMAIN files}
StanzaOf(p) == StanzaAt(files[p[1]], p[2])
KeyAt(p) == files[p[1]].lines[p[2]].name
ValueAt(p) == ValueOf(files[p[1]], p[1], p[2])

Before(p, q) == p[1] < q[1] \/ (p[1] = q[1] /\ p[2] < q[2])
Winner(P) ==
    CHOOSE p \in P : \A q \in P \ {p} :
       IF precedence = "FirstWins" THEN Before(p, q) ELSE Before(q, p)

StanzasSeen ==
    {"default"} \cup
    UNION {{files[n].lines[i].name : i \in HeadersOf(files[n])} : n \in DOMAIN files}

\* Of the pairs in P, those of stanza s.
In(P, s) == {p \in P : StanzaOf(p) = s}

Meaning ==
    [s \in StanzasSeen |-> [k \in {KeyAt(p) : p \in In(Places, s)} |->
        ValueAt(Winner({p \in In(Places, s) : KeyAt(p) = k}))]]

(***************************************************************************)
(* After every file the dictionary is what the files read so far mean: no  *)
(* continuation line is taken for a header or a pair, none of a value is   *)
(* lost but what is over the limit in force when its file was begun, and   *)
(* of several values of a key the one that precedence asks for wins,       *)
(* across files and within one.                                            *)
(***************************************************************************)
MeansTheFiles == pc \in {"files", "done"} => dict = Meaning

(***************************************************************************)
(* "Maximum lines" (splunk_config_processor.rs:57): no value has more      *)
(* lines than the limit its file was parsed with, whatever the limit is    *)
(* set to while the file is being parsed.                                  *)
(***************************************************************************)
WithinLimit ==
    /\ Len(raw) = multiline
    /\ \A n \in DOMAIN doc : \A e \in DOMAIN doc[n].entries :
          Len(doc[n].entries[e].value) <= Limit

(***************************************************************************)
(* "BUG: current_stanza must exist in stanza_index": the expect of         *)
(* add_entry never fails, and no stanza is in the document twice.          *)
(***************************************************************************)
StanzaIndexed ==
    pc \in {"lines", "merge"} =>
       /\ \E n \in DOMAIN doc : doc[n].name = stanza
       /\ \A m, n \in DOMAIN doc : doc[m].name = doc[n].name => m = n
=============================================================================
