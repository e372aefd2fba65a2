------------------------------ MODULE ConfSpec ------------------------------
(***************************************************************************)
(* ConfSpecRegistry of splunk_conf_spec.rs: load_from_dir parses the spec  *)
(* files it finds in the apps, in any order, and merges their rules;       *)
(* validate_doc says what of a document no rule allows.                    *)
(*                                                                         *)
(* A line is what the parsers can tell of it; top says that it is not      *)
(* indented.  "bare" is the header [] and "other" a line that never does   *)
(* anything: blank, comment, bullet, text, or a key that is not valid.     *)
(* A header with an = in it is left out: spec_key_from_line would take     *)
(* what is before the = for a key of indexes.conf.                         *)
(* The three loops over lines are taken in step, a line at a time; what    *)
(* they make of a file of another kind than theirs is not used.            *)
(* Which pattern matches which name is ConfPattern's part.                 *)
(***************************************************************************)
EXTENDS Integers, Sequences, FiniteSets

CONSTANTS
    Conf,     \* the conf files there are specs for
    Pattern,  \* the stanzas rules can have ...
    Header,   \* ... and those the headers of spec files give
    Key,      \* the keys of spec files, patterns too
    Name,     \* the stanzas of documents
    Option,   \* the keys of documents
    Lmpool,   \* the stanzas that start with "lmpool:"
    Match,    \* the <<pattern, name>> that match, of stanzas and of keys
    MaxFiles, \* bound: spec files
    MaxLines  \* bound: lines of all of them

ASSUME ConfSpecAssumption ==
    /\ {"default", "<index>", "volume:<volume>", "lmpool:<name>"} \subseteq Pattern
    /\ "disabled" \in Key /\ Header \subseteq Pattern /\ Lmpool \subseteq Pattern
    /\ MaxFiles \in Nat /\ MaxLines \in Nat

Titles == {"PER INDEX OPTIONS", "Volume settings"}
Section == {"default"} \cup Titles

Line ==
    [kind : {"header"}, name : Header, top : BOOLEAN]
    \cup [kind : {"pair"}, name : Key, top : BOOLEAN]
    \cup [kind : {"bare", "other"} \cup Titles, top : {TRUE}]

HeaderLine == {l \in Line : l.kind \in {"header", "bare"} /\ l.top}
TitleLine == {l \in Line : l.kind \in Titles}
KeyLine == {l \in Line : l.kind = "pair" /\ l.top}

VARIABLES
    stage,     \* "scan", "lines", "done" or "failed"
    conf,      \* the conf file the spec at hand is for
    content,   \* its lines so far
    inContent, \* what parse_conf_spec_content has of them: the stanza it is at,
               \* or {}, and its rules, pattern to keys
    inIndexes, \* parse_indexes_conf_spec_content: the section it is at, and the
               \* keys of each
    inCommon,  \* parse_top_level_keys_before_first_stanza: is it past a stanza,
               \* and the keys
    specs,     \* the registry: for a conf file, its rules
    loaded,    \* loaded_files
    files,     \* history: the spec files merged, as [conf, lines]
    taken      \* bound: lines of all files

parsers == <<inContent, inIndexes, inCommon>>
registryVars == <<stage, conf, content, parsers, specs, loaded, files, taken>>

Rules == UNION {[P -> SUBSET Key] : P \in SUBSET Pattern}

RegistryTypeOK ==
    /\ stage \in {"scan", "lines", "done", "failed"}
    /\ conf \in Conf
    /\ content \in Seq(Line)
    /\ inContent \in [at : SUBSET Header, rules : Rules]
    /\ inIndexes \in [at : Section, keys : [Section -> SUBSET Key]]
    /\ inCommon \in [past : BOOLEAN, keys : SUBSET Key]
    /\ DOMAIN specs \subseteq Conf
    /\ \A c \in DOMAIN specs : specs[c] \in Rules
    /\ files \in Seq([conf : Conf, lines : Seq(Line)])
    /\ loaded = Len(files)

ContentStart == [at |-> {}, rules |-> <<>>]
IndexesStart == [at |-> "default", keys |-> [s \in Section |-> {}]]
CommonStart == [past |-> FALSE, keys |-> {}]

RegistryInit ==
    /\ stage = "scan"
    /\ conf \in Conf
    /\ content = <<>>
    /\ inContent = ContentStart
    /\ inIndexes = IndexesStart
    /\ inCommon = CommonStart
    /\ specs = <<>>
    /\ loaded = 0
    /\ files = <<>>
    /\ taken = 0

----------------------------------------------------------------------------
(* Parsing one file.                                                       *)

\* The keys pattern p has in f, and those a line has.
KeysAt(f, p) == IF p \in DOMAIN f THEN f[p] ELSE {}
KeysIn(line) == IF line \in KeyLine THEN {line.name} ELSE {}

\* f with the keys K added to pattern p, which gets a rule if it has none
Adding(f, p, K) ==
    [q \in DOMAIN f \cup {p} |-> KeysAt(f, q) \cup IF q = p THEN K ELSE {}]

\* The stanza that line is the header of.
Opened(line) == IF line.kind = "header" THEN {line.name} ELSE {}

\* parse_conf_spec_content
ContentLine(m, line) ==
    LET at == IF line \in HeaderLine THEN Opened(line) ELSE m.at
    IN  [at |-> at,
         rules |-> [p \in DOMAIN m.rules \cup at |->
                       KeysAt(m.rules, p) \cup IF p \in at THEN KeysIn(line) ELSE {}]]

\* parse_indexes_conf_spec_content
IndexesLine(m, line) ==
    [at |-> IF line \in TitleLine THEN line.kind ELSE m.at,
     keys |-> [m.keys EXCEPT ![m.at] = @ \cup KeysIn(line)]]

\* parse_top_level_keys_before_first_stanza
CommonLine(m, line) ==
    [past |-> m.past \/ line \in HeaderLine,
     keys |-> m.keys \cup IF m.past THEN {} ELSE KeysIn(line)]

IndexesRules ==
    LET keys == inIndexes.keys
    IN  [p \in {"default", "<index>", "volume:<volume>"} |->
            CASE p = "default" -> keys["default"] \cup keys["PER INDEX OPTIONS"]
              [] p = "<index>" -> keys["PER INDEX OPTIONS"]
              [] p = "volume:<volume>" -> keys["Volume settings"]]

\* apply_conf_specific_compatibility
InputsRules ==
    [p \in DOMAIN inContent.rules |-> inContent.rules[p] \cup inCommon.keys \cup {"disabled"}]

ServerRules ==
    LET rules == inContent.rules
        K == UNION {rules[p] : p \in DOMAIN rules \cap Lmpool}
    IN  IF K = {} THEN rules ELSE Adding(rules, "lmpool:<name>", K)

\* parse_conf_spec_content_for_file
Parsed ==
    CASE conf = "indexes.conf" -> IndexesRules
      [] conf = "inputs.conf" -> InputsRules
      [] conf = "server.conf" -> ServerRules
      [] OTHER -> inContent.rules

----------------------------------------------------------------------------
(* Loading.                                                                *)

\* The walk comes to a spec file; what it cannot reach it passes over.
FindFile(c) ==
    /\ stage = "scan"
    /\ Len(files) < MaxFiles
    /\ stage' = "lines"
    /\ conf' = c
    /\ UNCHANGED <<content, parsers, specs, loaded, files, taken>>

\* read_to_string fails, before anything is parsed
ReadFails ==
    /\ stage = "lines"
    /\ content = <<>>
    /\ stage' = "failed"
    /\ UNCHANGED <<conf, content, parsers, specs, loaded, files, taken>>

\* one more line of content.lines()
ParseLine(line) ==
    /\ stage = "lines"
    /\ taken < MaxLines
    /\ taken' = taken + 1
    /\ content' = Append(content, line)
    /\ inContent' = ContentLine(inContent, line)
    /\ inIndexes' = IndexesLine(inIndexes, line)
    /\ inCommon' = CommonLine(inCommon, line)
    /\ UNCHANGED <<stage, conf, specs, loaded, files>>

\* Mutant of MergeParsed: a file that comes later replaces the rule.
MergeParsedOver(old, parsed) ==
    [p \in DOMAIN old \cup DOMAIN parsed |-> IF p \in DOMAIN parsed THEN parsed[p] ELSE old[p]]

MergeParsed(old, parsed) ==
    [p \in DOMAIN old \cup DOMAIN parsed |-> KeysAt(old, p) \cup KeysAt(parsed, p)]

\* merge_spec_file
MergeFile ==
    /\ stage = "lines"
    /\ stage' = "scan"
    /\ specs' = [c \in DOMAIN specs \cup {conf} |->
                    IF c # conf THEN specs[c]
                    ELSE MergeParsed(IF c \in DOMAIN specs THEN specs[c] ELSE <<>>, Parsed)]
    /\ loaded' = loaded + 1
    /\ files' = Append(files, [conf |-> conf, lines |-> content])
    /\ content' = <<>>
    /\ inContent' = ContentStart
    /\ inIndexes' = IndexesStart
    /\ inCommon' = CommonStart
    /\ UNCHANGED <<conf, taken>>

Loaded ==
    /\ stage = "scan"
    /\ stage' = "done"
    /\ UNCHANGED <<conf, content, parsers, specs, loaded, files, taken>>

RegistryNext ==
    \/ \E c \in Conf : FindFile(c)
    \/ \E line \in Line : ParseLine(line)
    \/ ReadFails \/ MergeFile \/ Loaded

RegistrySpec == RegistryInit /\ [][RegistryNext]_registryVars

----------------------------------------------------------------------------
(* validate_doc, of one stanza with one entry: a stanza has entries or is   *)
(* passed over, and each entry is judged by itself.                        *)

MatchingRules(c, name) == {p \in DOMAIN specs[c] : <<p, name>> \in Match}

\* allows_key: the key itself, or a key with wildcard syntax that matches
Validate(c, name, option) ==
    IF c \notin DOMAIN specs THEN "ok"
    ELSE IF MatchingRules(c, name) = {} THEN "UnknownStanza"
    ELSE IF \E p \in MatchingRules(c, name) : \E k \in specs[c][p] : <<k, option>> \in Match
         THEN "ok" ELSE "UnknownKey"

(***************************************************************************)
(* What spec files mean.  Line n of a file speaks for the patterns:         *)
(* that of the last header before it; every pattern of inputs.conf if no   *)
(* header is before it; any pool if it speaks for one in server.conf; and  *)
(* in indexes.conf what its section says.                                  *)
(***************************************************************************)
Before(s, n, L) == {h \in 1..n-1 : s[h] \in L}
LastOf(S) == CHOOSE h \in S : \A g \in S : g <= h
LinesIn(s, L) == {n \in DOMAIN s : s[n] \in L}

Governing(s, n) ==
    LET H == Before(s, n, HeaderLine)
    IN  IF H = {} THEN {} ELSE Opened(s[LastOf(H)])

SectionAt(s, n) ==
    LET T == Before(s, n, TitleLine)
    IN  IF T = {} THEN "default" ELSE s[LastOf(T)].kind

Headers(s) == UNION {Opened(s[h]) : h \in LinesIn(s, HeaderLine)}

SpeaksFor(f, n) ==
    CASE f.conf = "inputs.conf" ->
            IF Before(f.lines, n, HeaderLine) = {} THEN Headers(f.lines) ELSE Governing(f.lines, n)
      [] f.conf = "server.conf" ->
            Governing(f.lines, n) \cup
            IF Governing(f.lines, n) \cap Lmpool # {} THEN {"lmpool:<name>"} ELSE {}
      [] f.conf = "indexes.conf" ->
            (CASE SectionAt(f.lines, n) = "default" -> {"default"}
               [] SectionAt(f.lines, n) = "PER INDEX OPTIONS" -> {"default", "<index>"}
               [] SectionAt(f.lines, n) = "Volume settings" -> {"volume:<volume>"})
      [] OTHER -> Governing(f.lines, n)

Stanzas(f) ==
    IF f.conf = "indexes.conf" THEN {"default", "<index>", "volume:<volume>"}
    ELSE Headers(f.lines) \cup UNION {SpeaksFor(f, n) : n \in LinesIn(f.lines, KeyLine)}

Declares(f, k) ==
    (UNION {SpeaksFor(f, n) : n \in {h \in LinesIn(f.lines, KeyLine) : f.lines[h].name = k}})
    \cup IF f.conf = "inputs.conf" /\ k = "disabled" THEN Headers(f.lines) ELSE {}

FilesOf(c) == {f \in {files[n] : n \in DOMAIN files} : f.conf = c}

Verdict(c, name, option) ==
    LET Matching(P) == \E p \in P : <<p, name>> \in Match
    IN  IF FilesOf(c) = {} THEN "ok"
        ELSE IF ~\E f \in FilesOf(c) : Matching(Stanzas(f)) THEN "UnknownStanza"
        ELSE IF \E f \in FilesOf(c) : \E k \in Key : <<k, option>> \in Match /\ Matching(Declares(f, k))
             THEN "ok" ELSE "UnknownKey"

(***************************************************************************)
(* A document is judged by everything the spec files say together, in       *)
(* whatever order the walk came to them: a stanza is unknown when none has  *)
(* it, a key when no stanza that matches has it.                           *)
(***************************************************************************)
JudgedByAll ==
    \A c \in Conf, name \in Name, option \in Option :
       Validate(c, name, option) = Verdict(c, name, option)

=============================================================================
