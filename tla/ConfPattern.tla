---------------------------- MODULE ConfPattern ----------------------------
(***************************************************************************)
(* WildcardPattern of splunk_conf_spec.rs: new scans a stanza or key of a  *)
(* spec file byte by byte, matches then searches a name for its pieces.    *)
(* Strings are sequences of bytes; the loops are steps.                    *)
(***************************************************************************)
EXTENDS Integers, Sequences, FiniteSets, SequencesExt

CONSTANTS
    PatternChar, \* the characters patterns are made of, each its bytes in UTF-8
    TextChar,    \* the characters names are made of
    Latin1,      \* for a byte that is not ASCII, the UTF-8 of "byte as char"
    MaxPattern,  \* bound: characters of a pattern
    MaxText      \* bound: characters of a name

Strings(chars, n) ==
    {FlattenSeq(s) : s \in UNION {[1..m -> chars] : m \in 0..n}}

\* The characters are sequences of bytes, and so is what is made of them; the UTF-8
\* of a character is never empty.
ASSUME ConfPatternAssumption ==
    /\ DOMAIN Latin1 \subseteq STRING
    /\ \A b \in DOMAIN Latin1 : Latin1[b] \in Seq(STRING) \ {<<>>}
    /\ MaxPattern \in Nat /\ MaxText \in Nat
    /\ Strings(PatternChar, MaxPattern) \cup Strings(TextChar, MaxText) \subseteq Seq(STRING)

VARIABLES
    raw,       \* the pattern
    text,      \* the name
    pc,        \* "scan", "anchor", "search" or "done"
    i,         \* in raw, the next byte of the scan; in pieces, the next piece
    pieces,    \* what is between the wildcards, none of it empty
    buf,       \* the piece being scanned
    starts,    \* starts_with_wildcard
    ends,      \* ends_with_wildcard
    has,       \* has_wildcard
    pos,       \* the bytes of text before the search ...
    searchEnd, \* ... and up to its end
    result     \* {} or {the answer}

pattern == <<pieces, buf, starts, ends, has>>
search == <<pos, searchEnd, result>>
vars == <<raw, text, pc, i, pattern, search>>

TypeOK ==
    /\ pc \in {"scan", "anchor", "search", "done"}
    /\ raw \in Seq(STRING) /\ text \in Seq(STRING)
    /\ i \in Nat \ {0}
    /\ pieces \in Seq(Seq(STRING) \ {<<>>})
    /\ buf \in Seq(STRING)
    /\ starts \in BOOLEAN /\ ends \in BOOLEAN /\ has \in BOOLEAN
    /\ pos \in 0..Len(text) /\ searchEnd \in 0..Len(text)
    /\ pc = "scan" => i <= Len(raw) + 1
    /\ pc = "search" => pieces # <<>> /\ i <= Len(pieces) + 1

Init ==
    /\ raw \in Strings(PatternChar, MaxPattern)
    /\ text \in Strings(TextChar, MaxText)
    /\ pc = "scan"
    /\ i = 1
    /\ pieces = <<>>
    /\ buf = <<>>
    /\ starts = FALSE /\ ends = FALSE /\ has = FALSE
    /\ pos = 0 /\ searchEnd = 0
    /\ result = {}

----------------------------------------------------------------------------
(* WildcardPattern::new                                                    *)

\* The length of the wildcard at byte n of a pattern: "...", "*", or "<" up to
\* the next ">"; 0 if there is none.
Closing(r, n) == {m \in n+1..Len(r) : r[m] = ">"}
WildcardAt(r, n) ==
    IF n + 2 <= Len(r) /\ \A m \in n..n+2 : r[m] = "." THEN 3
    ELSE IF r[n] = "*" THEN 1
    ELSE IF r[n] = "<" /\ Closing(r, n) # {}
         THEN (CHOOSE m \in Closing(r, n) : \A l \in Closing(r, n) : m <= l) - n + 1
    ELSE 0

Pushed == IF buf = <<>> THEN pieces ELSE Append(pieces, buf)

\* Mutant of Wildcard: a piece that ends here is not anchored any more.
WildcardStarts ==
    /\ pc = "scan"
    /\ i <= Len(raw)
    /\ WildcardAt(raw, i) > 0
    /\ starts' = TRUE
    /\ has' = TRUE
    /\ ends' = TRUE
    /\ pieces' = Pushed
    /\ buf' = <<>>
    /\ i' = i + WildcardAt(raw, i)
    /\ UNCHANGED <<raw, text, pc, search>>

Wildcard ==
    /\ pc = "scan"
    /\ i <= Len(raw)
    /\ WildcardAt(raw, i) > 0
    /\ starts' = (starts \/ i = 1)
    /\ has' = TRUE
    /\ ends' = TRUE
    /\ pieces' = Pushed
    /\ buf' = <<>>
    /\ i' = i + WildcardAt(raw, i)
    /\ UNCHANGED <<raw, text, pc, search>>

\* Each byte becomes a character of its own: "bytes[i] as char".
Literal ==
    /\ pc = "scan"
    /\ i <= Len(raw)
    /\ WildcardAt(raw, i) = 0
    /\ ends' = FALSE
    /\ buf' = buf \o (IF raw[i] \in DOMAIN Latin1 THEN Latin1[raw[i]] ELSE <<raw[i]>>)
    /\ i' = i + 1
    /\ UNCHANGED <<raw, text, pc, pieces, starts, has, search>>

ScanDone ==
    /\ pc = "scan"
    /\ i > Len(raw)
    /\ pc' = "anchor"
    /\ pieces' = Pushed
    /\ buf' = <<>>
    /\ UNCHANGED <<raw, text, i, starts, ends, has, search>>

----------------------------------------------------------------------------
(* matches                                                                 *)

Answer(b) == pc' = "done" /\ result' = {b}

Trivial ==
    /\ pc = "anchor"
    /\ ~has \/ pieces = <<>>
    /\ Answer(IF has THEN TRUE ELSE text = raw)
    /\ UNCHANGED <<raw, text, i, pattern, pos, searchEnd>>

FirstLength == IF starts THEN 0 ELSE Len(pieces[1])
LastLength == IF ends THEN 0 ELSE Len(Last(pieces))

\* Mutant of Anchored: the two ends may share bytes of the text.
AnchoredOverlap ==
    /\ starts \/ IsPrefix(pieces[1], text)
    /\ ends \/ IsSuffix(Last(pieces), text)

\* The pieces at the ends, where no wildcard is, do not overlap.
Anchored ==
    /\ starts \/ IsPrefix(pieces[1], text)
    /\ ends \/ IsSuffix(Last(pieces), text)
    /\ FirstLength <= Len(text) - LastLength

Anchor ==
    /\ pc = "anchor"
    /\ has /\ pieces # <<>>
    /\ i' = IF starts THEN 1 ELSE 2
    /\ IF Anchored
       THEN /\ pos' = FirstLength
            /\ searchEnd' = Len(text) - LastLength
            /\ pc' = "search"
            /\ UNCHANGED result
       ELSE Answer(FALSE) /\ UNCHANGED <<pos, searchEnd>>
    /\ UNCHANGED <<raw, text, pattern>>

LastPiece == Len(pieces) - (IF ends THEN 0 ELSE 1)

\* Where a piece begins between pos and searchEnd.
Places(piece) == {p \in pos..searchEnd - Len(piece) : SubSeq(text, p + 1, p + Len(piece)) = piece}

Find ==
    /\ pc = "search"
    /\ i <= LastPiece
    /\ LET places == Places(pieces[i])
       IN  IF places = {} THEN Answer(FALSE) /\ UNCHANGED <<i, pos>>
           ELSE /\ pos' = (CHOOSE p \in places : \A q \in places : p <= q) + Len(pieces[i])
                /\ i' = i + 1
                /\ UNCHANGED <<pc, result>>
    /\ UNCHANGED <<raw, text, pattern, searchEnd>>

FoundAll ==
    /\ pc = "search"
    /\ i > LastPiece
    /\ Answer(TRUE)
    /\ UNCHANGED <<raw, text, i, pattern, pos, searchEnd>>

Next ==
    \/ Wildcard \/ Literal \/ ScanDone
    \/ Trivial \/ Anchor \/ Find \/ FoundAll

Spec == Init /\ [][Next]_vars

----------------------------------------------------------------------------
(***************************************************************************)
(* What a pattern r means: the places in a name t from which byte n of the *)
(* pattern and all that follows match all that is left of the name.        *)
(***************************************************************************)
MatchesFrom(r, t) ==
    LET from[n \in 1..Len(r) + 1] ==
            IF n > Len(r) THEN {Len(t) + 1}
            ELSE IF WildcardAt(r, n) > 0
                 THEN {m \in 1..Len(t) + 1 :
                          \E l \in from[n + WildcardAt(r, n)] : m <= l}
            ELSE {m \in 1..Len(t) : r[n] = t[m] /\ m + 1 \in from[n + 1]}
    IN  from

Ascii == ToSet(raw) \cap DOMAIN Latin1 = {}

(***************************************************************************)
(* Looking for one piece after the other, each at the first place, finds a *)
(* match whenever there is one: wildcards side by side, at the ends, a "<" *)
(* that is never closed, pieces that repeat or overlap.  This holds for    *)
(* ASCII patterns and for those without a wildcard; next to a wildcard     *)
(* another letter is broken up by "as char" and may not be found.          *)
(***************************************************************************)
MatchesGlob == pc = "done" /\ (Ascii \/ ~has) => 
                  result = {1 \in MatchesFrom(raw, text)[1]}

(***************************************************************************)
(* The slices of matches are in order: the search never begins behind its  *)
(* end, so that no name and no spec file can make it panic.                *)
(***************************************************************************)
SliceInOrder == pc = "search" => pos <= searchEnd

=============================================================================
