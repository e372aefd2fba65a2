-------------------------- MODULE ConfParser_proofs --------------------------
(***************************************************************************)
(* Theorems about ConfParser for all files, however long: the document the *)
(* parser builds is well formed and no value is over the limit, so that    *)
(* the expect of add_entry never fails; and after every file the           *)
(* dictionary is what the files read so far mean.  Then theorems about     *)
(* ConfLayering: whatever directories hold, and however they change        *)
(* meanwhile, a call that succeeds lists what was asked for and has the    *)
(* right file win.                                                         *)
(***************************************************************************)
EXTENDS ConfParser, ConfLayering, Induction, FiniteSetTheorems, TLAPS

----------------------------------------------------------------------------
(* Looking for a stanza finds it if it is there.                           *)

LEMMA ElementType == ASSUME NEW S, NEW s \in Seq(S), NEW n \in DOMAIN s PROVE s[n] \in S
  OBVIOUS

LEMMA AppendType ==
    ASSUME NEW S, NEW s \in Seq(S), NEW e \in S
    PROVE  /\ Append(s, e) \in Seq(S) /\ Append(s, e) # <<>>
           /\ Len(Append(s, e)) = Len(s) + 1 /\ Append(s, e)[Len(s) + 1] = e
  OBVIOUS

HasStanza(d, name) == \E n \in DOMAIN d : d[n].name = name

LEMMA StanzaIndexFinds ==
    ASSUME NEW d \in Seq(StanzaDoc), NEW name
    PROVE  /\ HasStanza(d, name) => /\ StanzaIndex(d, name) \in DOMAIN d
                                    /\ d[StanzaIndex(d, name)].name = name
                                    /\ StanzaIndex(d, name) > 0
           /\ ~HasStanza(d, name) => StanzaIndex(d, name) = 0
<1> DEFINE I == {n \in 1..Len(d) : d[n].name = name}
<1>1. StanzaIndex(d, name) = IF I # {} THEN Min(I) ELSE 0
  BY DEF StanzaIndex, SelectInSeq
<1>2. HasStanza(d, name) <=> I # {}
  BY DEF HasStanza
<1>3. ASSUME I # {} PROVE Min(I) \in I
  <2>1. I \in SUBSET Nat
    OBVIOUS
  <2> HIDE DEF I
  <2> QED
    BY <1>3, <2>1, LeastExists DEF Min
<1>4. CASE I # {}
  <2>1. Min(I) \in 1..Len(d) /\ d[Min(I)].name = name
    BY <1>3, <1>4
  <2> HIDE DEF I
  <2> QED
    BY <1>1, <1>2, <1>4, <2>1
<1>5. CASE I = {}
  <2> HIDE DEF I
  <2> QED
    BY <1>1, <1>2, <1>5
<1> QED
  BY <1>4, <1>5

----------------------------------------------------------------------------
(* A document is well formed: each stanza is in it once, the current one   *)
(* among them, and every value is within the limit.                        *)

WellFormed(d, current, limit) ==
    /\ d \in Seq(StanzaDoc)
    /\ HasStanza(d, current)
    /\ \A m, n \in DOMAIN d : d[m].name = d[n].name => m = n
    /\ \A n \in DOMAIN d : \A e \in DOMAIN d[n].entries : Len(d[n].entries[e].value) <= limit

LEMMA NotEmpty == ASSUME NEW d, NEW current, NEW limit, WellFormed(d, current, limit) PROVE d # <<>>
  BY DEF WellFormed, HasStanza

\* add_entry keeps it so, for a value within the limit.
LEMMA AddEntryKeeps ==
    ASSUME NEW d, NEW limit \in Nat, stanza \in Stanza, WellFormed(d, stanza, limit),
           NEW keys \in SUBSET Key, NEW value \in Seq(Nat \X Nat), Len(value) <= limit
    PROVE  WellFormed(AddEntry(d, keys, value), stanza, limit)
<1>1. CASE keys = {}
  BY <1>1 DEF AddEntry
<1>2. CASE keys # {}
  <2> DEFINE x == StanzaIndex(d, stanza)
             entry == [key |-> CHOOSE k \in keys : TRUE, value |-> value]
             added == Append(d[x].entries, entry)
             new == [d[x] EXCEPT !.entries = added]
  <2>1. x \in DOMAIN d
    BY StanzaIndexFinds DEF WellFormed
  <2>2. entry \in EntryDoc
    <3>1. (CHOOSE k \in keys : TRUE) \in Key
      BY <1>2
    <3> QED
      BY <3>1 DEF EntryDoc
  <2>3. d[x] \in StanzaDoc /\ d[x].entries \in Seq(EntryDoc)
    <3>1. d[x] \in StanzaDoc
      BY <2>1, ElementType DEF WellFormed
    <3> QED
      BY <3>1 DEF StanzaDoc
  <2>4. AddEntry(d, keys, value) = [d EXCEPT ![x] = new]
    BY <1>2 DEF AddEntry
  <2>5. entry.value = value
    OBVIOUS
  <2> HIDE DEF x, entry
  <2>6. /\ added \in Seq(EntryDoc)
        /\ DOMAIN added = 1..(Len(d[x].entries) + 1)
        /\ \A e \in DOMAIN d[x].entries : added[e] = d[x].entries[e]
        /\ added[Len(d[x].entries) + 1] = entry
    BY <2>2, <2>3
  <2>7. \A e \in DOMAIN added : Len(added[e].value) <= limit
    BY <2>1, <2>3, <2>5, <2>6 DEF WellFormed
  <2> HIDE DEF added
  <2>8. new \in StanzaDoc /\ new.name = d[x].name /\ new.entries = added
    BY <2>3, <2>6 DEF StanzaDoc
  <2> HIDE DEF new
  <2>9. [d EXCEPT ![x] = new] \in Seq(StanzaDoc) /\ DOMAIN [d EXCEPT ![x] = new] = DOMAIN d
    BY <2>1, <2>8 DEF WellFormed
  <2>10. \A n \in DOMAIN d : /\ n = x => [d EXCEPT ![x] = new][n] = new
                             /\ n # x => [d EXCEPT ![x] = new][n] = d[n]
    BY <2>1
  <2> QED
    BY <2>1, <2>4, <2>7, <2>8, <2>9, <2>10 DEF WellFormed, HasStanza
<1> QED
  BY <1>1, <1>2

----------------------------------------------------------------------------
(* The invariant.                                                          *)

ParserInv ==
    /\ TypeOK
    /\ Len(raw) = multiline
    /\ doc # <<>> => WellFormed(doc, stanza, Limit) /\ multiline <= Limit

LEMMA InitInv == Init => ParserInv
<1> SUFFICES ASSUME Init PROVE ParserInv
  OBVIOUS
<1>1. strict \in BOOLEAN
  BY Zenon DEF Init
<1>2. <<>> \in Seq(StanzaDoc) /\ <<>> \in Seq(Nat \X Nat)
      /\ <<>> \in Seq([lines : Seq(Line), limit : Nat \ {0}]) /\ Len(<<>>) = 0
  OBVIOUS
<1> QED
  BY <1>1, <1>2, ConfParserAssumption DEF Init, ParserInv, TypeOK, ConfParserAssumption

\* A line is taken in: the file and its limit stay.
LEMMA TakeKeeps ==
    ASSUME TypeOK, NEW line \in Line, Take(line)
    PROVE  /\ files' \in Seq([lines : Seq(Line), limit : Nat \ {0}])
           /\ files' # <<>>
           /\ Limit' = Limit
           /\ Limit \in Nat \ {0}
           /\ Here \in Nat \X Nat
           /\ pc = "lines" /\ pc' = "lines"
           /\ UNCHANGED <<maxMultilineLines, precedence, strict, merging, merged>>
           /\ merging = 0 /\ merged = 0 /\ doc # <<>>
<1>m. merging = 0 /\ merged = 0 /\ doc # <<>>
  BY DEF Take, TypeOK
<1>1. /\ files \in Seq([lines : Seq(Line), limit : Nat \ {0}])
      /\ files # <<>> /\ Len(files) \in DOMAIN files
  BY DEF Take, TypeOK
<1> DEFINE f == files[Len(files)]
           new == [f EXCEPT !.lines = Append(f.lines, line)]
<1>2. f \in [lines : Seq(Line), limit : Nat \ {0}]
  BY <1>1, ElementType
<1>3. new \in [lines : Seq(Line), limit : Nat \ {0}] /\ new.limit = f.limit
  BY <1>2
<1>4. files' = [files EXCEPT ![Len(files)] = new]
  BY DEF Take, File
<1>5. Len(f.lines) \in Nat
  BY <1>2
<1>6. Limit = f.limit /\ Here = <<Len(files), Len(f.lines) + 1>>
  BY DEF Limit, Here, File
<1> HIDE DEF new, f
<1>7. /\ files' \in Seq([lines : Seq(Line), limit : Nat \ {0}])
      /\ Len(files') = Len(files) /\ files'[Len(files)] = new
  BY <1>1, <1>3, <1>4
<1>8. Limit' = new.limit
  BY <1>7 DEF Limit, File
<1> QED
  BY <1>m, <1>1, <1>2, <1>3, <1>5, <1>6, <1>7, <1>8 DEF Take, merge

\* After a line that was taken in, the invariant is a matter of the parser's own variables.
LEMMA StillIn ==
    ASSUME ParserInv, NEW line \in Line, Take(line),
           doc' \in Seq(StanzaDoc), stanza' \in Stanza, open' \in SUBSET Key,
           raw' \in Seq(Nat \X Nat), multiline' \in Nat, open' = {} <=> multiline' = 0,
           Len(raw') = multiline', multiline' <= Limit,
           WellFormed(doc', stanza', Limit)
    PROVE  ParserInv'
<1>1. TypeOK
  BY DEF ParserInv
<1>2. /\ files' \in Seq([lines : Seq(Line), limit : Nat \ {0}]) /\ files' # <<>>
      /\ Limit' = Limit /\ pc' = "lines" /\ merging' = 0 /\ merged' = 0
      /\ UNCHANGED <<maxMultilineLines, precedence, strict>>
  BY <1>1, TakeKeeps
<1>3. doc' # <<>>
  BY NotEmpty
<1>4. TypeOK'
  BY <1>1, <1>2, <1>3 DEF TypeOK
<1> QED
  BY <1>2, <1>4 DEF ParserInv

LEMMA Idle == ASSUME TypeOK, pc # "merge" PROVE merging = 0 /\ merged = 0
  BY DEF TypeOK

LEMMA EntriesType ==
    ASSUME NEW d \in Seq(StanzaDoc), NEW a \in 0..Len(d), a # 0
    PROVE  /\ a \in DOMAIN d /\ d[a] \in StanzaDoc /\ d[a].name \in Stanza
           /\ d[a].entries \in Seq(EntryDoc)
           /\ Len(d[a].entries) \in Nat
<1>1. a \in DOMAIN d
  OBVIOUS
<1>2. d[a] \in StanzaDoc
  BY <1>1, ElementType
<1>3. d[a].entries \in Seq(EntryDoc) /\ d[a].name \in Stanza
  BY <1>2 DEF StanzaDoc
<1> QED
  BY <1>1, <1>2, <1>3

LEMMA LimitType == ASSUME TypeOK, doc # <<>> PROVE Limit \in Nat \ {0}
<1>1. files \in Seq([lines : Seq(Line), limit : Nat \ {0}]) /\ Len(files) \in DOMAIN files
  BY DEF TypeOK
<1>2. files[Len(files)] \in [lines : Seq(Line), limit : Nat \ {0}]
  BY <1>1, ElementType
<1> QED
  BY <1>2 DEF Limit, File

LEMMA NextInv == ParserInv /\ [Next]_vars => ParserInv'
<1> SUFFICES ASSUME ParserInv, [Next]_vars PROVE ParserInv'
  OBVIOUS
<1>t. TypeOK
  BY DEF ParserInv
<1> USE DEF parser, merge, history
<1>1. ASSUME NEW n \in LimitArg, SetMaxMultilineLines(n) PROVE ParserInv'
  <2>1. UNCHANGED <<precedence, strict, pc, doc, stanza, open, raw, multiline, merging, merged, files>>
    BY <1>1 DEF SetMaxMultilineLines
  <2>2. maxMultilineLines' \in {DefaultLimit} \cup (LimitArg \ {0})
    BY <1>1 DEF SetMaxMultilineLines
  <2>3. Limit' = Limit
    BY <2>1 DEF Limit, File
  <2> QED
    BY <2>1, <2>2, <2>3 DEF ParserInv, TypeOK
<1>2. ASSUME OpenFile PROVE ParserInv'
  <2> DEFINE f == [lines |-> <<>>, limit |-> maxMultilineLines]
             default == [name |-> "default", entries |-> <<>>]
  <2>1. f \in [lines : Seq(Line), limit : Nat \ {0}] /\ f.limit \in Nat
    BY <1>t, ConfParserAssumption DEF TypeOK, ConfParserAssumption
  <2>2. default \in StanzaDoc /\ default.name = "default" /\ DOMAIN default.entries = {}
    BY ConfParserAssumption DEF StanzaDoc, ConfParserAssumption
  <2>3. /\ files' = Append(files, f) /\ doc' = <<default>> /\ stanza' = "default"
        /\ pc' = "lines" /\ pc = "files"
        /\ UNCHANGED <<maxMultilineLines, precedence, strict, open, raw, multiline, merging, merged>>
    BY <1>2 DEF OpenFile
  <2> HIDE DEF f, default
  <2>4. /\ files' \in Seq([lines : Seq(Line), limit : Nat \ {0}]) /\ files' # <<>>
        /\ files'[Len(files')] = f
    <3> DEFINE S == [lines : Seq(Line), limit : Nat \ {0}]
    <3>1. files \in Seq(S) /\ f \in S
      BY <1>t, <2>1 DEF TypeOK
    <3> HIDE DEF S
    <3>2. files' \in Seq(S) /\ files' # <<>> /\ files'[Len(files')] = f
      BY <2>3, <3>1, AppendType
    <3> QED
      BY <3>2 DEF S
  <2>5. Limit' = f.limit
    BY <2>4 DEF Limit, File
  <2>6. <<default>> \in Seq(StanzaDoc) /\ DOMAIN <<default>> = {1} /\ <<default>>[1] = default
    BY <2>2
  <2>7. WellFormed(<<default>>, "default", f.limit)
    BY <2>2, <2>6 DEF WellFormed, HasStanza
  <2>8. doc' # <<>> /\ merging' = 0 /\ merged' = 0
    BY <1>t, <2>3 DEF TypeOK
  <2> QED
    BY <1>t, <2>1, <2>3, <2>4, <2>5, <2>6, <2>7, <2>8, ConfParserAssumption
    DEF ParserInv, TypeOK, ConfParserAssumption
<1>3. ASSUME OpenFails \/ Return PROVE ParserInv'
  BY <1>3 DEF OpenFails, Return, ParserInv, TypeOK
<1>4. ASSUME EndFile PROVE ParserInv'
  <2>1. /\ pc = "lines" /\ pc' = "merge" /\ doc' = AddEntry(doc, open, raw)
        /\ open' = {} /\ raw' = <<>> /\ multiline' = 0
        /\ UNCHANGED <<maxMultilineLines, precedence, strict, stanza, merging, merged, files>>
    BY <1>4 DEF EndFile, Close
  <2>2. WellFormed(doc', stanza, Limit) /\ Limit' = Limit
    <3>1. doc # <<>> /\ stanza \in Stanza /\ open \in SUBSET Key /\ raw \in Seq(Nat \X Nat)
      BY <1>t, <2>1 DEF TypeOK
    <3>2. WellFormed(doc, stanza, Limit) /\ Len(raw) <= Limit
      BY <3>1 DEF ParserInv
    <3>3. Limit \in Nat
      BY <1>t, <3>1, LimitType
    <3> QED
      BY <2>1, <3>1, <3>2, <3>3, AddEntryKeeps DEF Limit, File
  <2>3. doc' \in Seq(StanzaDoc) /\ doc' # <<>> /\ merging' = 0 /\ merged' = 0
    <3>1. doc' \in Seq(StanzaDoc) /\ doc' # <<>>
      BY <2>2, NotEmpty DEF WellFormed
    <3>2. merging = 0 /\ merged = 0
      BY <1>t, <2>1, Idle
    <3> QED
      BY <2>1, <3>1, <3>2
  <2>4. <<>> \in Seq(Nat \X Nat) /\ Len(<<>>) = 0
    OBVIOUS
  <2>5. Limit \in Nat
    BY <1>t, <2>1, LimitType DEF TypeOK
  <2> HIDE DEF parser, merge, history
  <2>6. TypeOK'
    BY <1>t, <2>1, <2>3, <2>4 DEF TypeOK
  <2> QED
    BY <2>1, <2>2, <2>4, <2>5, <2>6 DEF ParserInv
\* A value that is within the limit is closed.
<1>c. ASSUME NEW line \in Line, Take(line), NEW value \in Seq(Nat \X Nat),
             Len(value) <= Limit, Close(value)
      PROVE  ParserInv'
  <2>1. WellFormed(AddEntry(doc, open, value), stanza, Limit)
    BY <1>t, <1>c, TakeKeeps, AddEntryKeeps DEF ParserInv, TypeOK
  <2>2. <<>> \in Seq(Nat \X Nat) /\ Len(<<>>) = 0
    OBVIOUS
  <2>3. AddEntry(doc, open, value) \in Seq(StanzaDoc)
    BY <2>1 DEF WellFormed
  <2>4. /\ doc' = AddEntry(doc, open, value) /\ stanza' = stanza
        /\ open' = {} /\ raw' = <<>> /\ multiline' = 0
    BY <1>c DEF Close
  <2>5. stanza \in Stanza /\ Limit \in Nat /\ {} \in SUBSET Key
    BY <1>t, <1>c, TakeKeeps DEF TypeOK
  <2>6. doc' \in Seq(StanzaDoc) /\ WellFormed(doc', stanza', Limit)
    BY <2>1, <2>3, <2>4
  <2> HIDE DEF parser
  <2> QED
    BY <1>c, <2>2, <2>4, <2>5, <2>6, StillIn
<1>5. ASSUME NEW line \in Line, AtLimit(line) PROVE ParserInv'
  <2>1. Take(line) /\ Close(raw) /\ pc = "lines"
    BY <1>5 DEF AtLimit, Take
  <2>2. raw \in Seq(Nat \X Nat) /\ Len(raw) <= Limit
    BY <2>1 DEF ParserInv, TypeOK
  <2> QED
    BY <1>c, <2>1, <2>2
<1>6. ASSUME NEW line \in Line, Continue(line) PROVE ParserInv'
  <2>1. Take(line) /\ multiline < Limit /\ open # {}
    BY <1>6 DEF Continue
  <2>2. /\ Append(raw, Here) \in Seq(Nat \X Nat) /\ Len(Append(raw, Here)) = multiline + 1
        /\ multiline + 1 <= Limit /\ multiline \in Nat
    BY <1>t, <2>1, TakeKeeps DEF ParserInv, TypeOK
  <2>3. CASE line.more
    <3>1. raw' = Append(raw, Here) /\ multiline' = multiline + 1 /\ UNCHANGED <<doc, stanza, open>>
      BY <1>6, <2>3 DEF Continue
    <3>2. open \in SUBSET Key /\ WellFormed(doc, stanza, Limit) /\ doc \in Seq(StanzaDoc)
          /\ stanza \in Stanza
      BY <1>t, <2>1, TakeKeeps DEF ParserInv, TypeOK
    <3> QED
      BY <1>t, <2>1, <2>2, <3>1, <3>2, StillIn
  <2>4. CASE ~line.more
    <3>1. Close(Append(raw, Here))
      BY <1>6, <2>4 DEF Continue
    <3> QED
      BY <1>c, <2>1, <2>2, <3>1
  <2> QED
    BY <2>3, <2>4
<1>7. ASSUME NEW line \in Line, Other(line) PROVE ParserInv'
  BY <1>t, <1>7, TakeKeeps DEF Other, ParserInv, TypeOK
<1>8. ASSUME NEW line \in Line, Header(line) PROVE ParserInv'
  <2>1. Take(line) /\ line.kind = "header" /\ UNCHANGED <<open, raw, multiline>>
        /\ stanza' = line.name
    BY <1>8 DEF Header
  <2>2. line.name \in Stanza
    BY <2>1 DEF Line
  <2>3. pc = "lines" /\ doc \in Seq(StanzaDoc) /\ WellFormed(doc, stanza, Limit)
    BY <1>t, <2>1, TakeKeeps DEF ParserInv, TypeOK
  <2>4. WellFormed(doc', line.name, Limit)
    <3>1. CASE HasStanza(doc, line.name)
      <4>1. doc' = doc
        BY <1>8, <2>3, <3>1, StanzaIndexFinds DEF Header
      <4> QED
        BY <2>3, <3>1, <4>1 DEF WellFormed
    <3>2. CASE ~HasStanza(doc, line.name)
      <4> DEFINE new == [name |-> line.name, entries |-> <<>>]
      <4>1. doc' = Append(doc, new)
        BY <1>8, <2>3, <3>2, StanzaIndexFinds DEF Header
      <4>2. new \in StanzaDoc /\ new.name = line.name /\ DOMAIN new.entries = {}
        BY <2>2 DEF StanzaDoc
      <4> HIDE DEF new
      <4>3. /\ doc' \in Seq(StanzaDoc) /\ DOMAIN doc' = 1..(Len(doc) + 1)
            /\ doc'[Len(doc) + 1] = new
            /\ \A n \in DOMAIN doc : doc'[n] = doc[n]
            /\ DOMAIN doc = 1..Len(doc) /\ Len(doc) \in Nat
        BY <2>3, <4>1, <4>2
      <4>4. \A n \in DOMAIN doc' : n \in DOMAIN doc \/ n = Len(doc) + 1
        BY <4>3
      <4>5. Len(doc) + 1 \in DOMAIN doc'
        BY <4>3
      <4>6. \A n \in DOMAIN doc : doc[n].name # line.name
        BY <3>2 DEF HasStanza
      <4>7. HasStanza(doc', line.name)
        BY <4>2, <4>3, <4>5 DEF HasStanza
      <4>8. \A m, n \in DOMAIN doc' : doc'[m].name = doc'[n].name => m = n
        BY <2>3, <4>2, <4>3, <4>4, <4>6 DEF WellFormed
      <4>9. \A n \in DOMAIN doc' : \A e \in DOMAIN doc'[n].entries :
               Len(doc'[n].entries[e].value) <= Limit
        BY <2>3, <4>2, <4>3, <4>4 DEF WellFormed
      <4> QED
        BY <4>3, <4>7, <4>8, <4>9 DEF WellFormed
    <3> QED
      BY <3>1, <3>2
  <2>5. doc' \in Seq(StanzaDoc)
    BY <2>4 DEF WellFormed
  <2> QED
    <3>1. /\ open' \in SUBSET Key /\ raw' \in Seq(Nat \X Nat) /\ multiline' \in Nat
          /\ Len(raw') = multiline' /\ multiline' <= Limit
          /\ open' = {} <=> multiline' = 0
      BY <1>t, <2>1, <2>3, NotEmpty DEF ParserInv, TypeOK
    <3> QED
      BY <2>1, <2>2, <2>4, <2>5, <3>1, StillIn
<1>9. ASSUME NEW line \in Line, Pair(line) PROVE ParserInv'
  <2>1. Take(line) /\ line.kind = "pair" /\ open = {}
    BY <1>9 DEF Pair
  <2>2. line.name \in Key
    BY <2>1 DEF Line
  <2>3. <<Here>> \in Seq(Nat \X Nat) /\ Len(<<Here>>) = 1 /\ 1 <= Limit
    BY <1>t, <2>1, TakeKeeps
  <2>4. CASE line.more
    <3>1. open' = {line.name} /\ raw' = <<Here>> /\ multiline' = 1 /\ UNCHANGED <<doc, stanza>>
      BY <1>9, <2>4 DEF Pair
    <3>2. WellFormed(doc, stanza, Limit) /\ doc \in Seq(StanzaDoc) /\ stanza \in Stanza
      BY <1>t, <2>1, TakeKeeps DEF ParserInv, TypeOK
    <3> QED
      BY <1>t, <2>1, <2>2, <2>3, <3>1, <3>2, StillIn
  <2>5. CASE ~line.more
    <3>1. doc' = AddEntry(doc, {line.name}, <<Here>>) /\ UNCHANGED <<stanza, open, raw, multiline>>
      BY <1>9, <2>5 DEF Pair
    <3>2. WellFormed(doc', stanza, Limit)
      BY <1>t, <2>1, <2>2, <2>3, <3>1, TakeKeeps, AddEntryKeeps DEF ParserInv, TypeOK
    <3>3. doc' \in Seq(StanzaDoc)
      BY <3>2 DEF WellFormed
    <3> QED
      <4>1. /\ open' \in SUBSET Key /\ raw' \in Seq(Nat \X Nat) /\ multiline' \in Nat
            /\ Len(raw') = multiline' /\ multiline' <= Limit
            /\ open' = {} <=> multiline' = 0
        BY <1>t, <2>1, <3>1, TakeKeeps DEF ParserInv, TypeOK
      <4>2. stanza \in Stanza /\ stanza' = stanza
        BY <1>t, <3>1 DEF TypeOK
      <4> QED
        BY <2>1, <3>2, <3>3, <4>1, <4>2, StillIn
  <2> QED
    BY <2>4, <2>5
<1>10. ASSUME UNCHANGED vars PROVE ParserInv'
  BY <1>10 DEF vars, ParserInv, TypeOK, Limit, File
<1>11. ASSUME MergeStanza PROVE ParserInv'
  <2>1. /\ pc = "merge" /\ merging < Len(doc) /\ merging' = merging + 1 /\ merged' = 0
        /\ UNCHANGED <<maxMultilineLines, precedence, strict, pc, doc, stanza, open, raw, multiline, files>>
    BY <1>11 DEF MergeStanza
  <2>2. merging' \in 0..Len(doc) /\ merging' # 0
    BY <1>t, <2>1 DEF TypeOK
  <2>3. Len(doc[merging'].entries) \in Nat
    BY <1>t, <2>2, EntriesType DEF TypeOK
  <2>4. merged' \in 0..(IF merging' = 0 THEN 0 ELSE Len(doc'[merging'].entries))
    BY <2>1, <2>2, <2>3
  <2>5. TypeOK'
    BY <1>t, <2>1, <2>2, <2>4 DEF TypeOK
  <2> QED
    BY <2>1, <2>5 DEF ParserInv, Limit, File
<1>12. ASSUME MergeEntry PROVE ParserInv'
  <2>1. /\ pc = "merge" /\ Rest > 0 /\ merged' = merged + 1
        /\ UNCHANGED <<maxMultilineLines, precedence, strict, pc, doc, stanza, open, raw, multiline,
                       merging, files>>
    BY <1>12 DEF MergeEntry
  <2>2. merging # 0 /\ merging \in 0..Len(doc)
    BY <1>t, <2>1 DEF Rest, TypeOK
  <2>3. Len(doc[merging].entries) \in Nat
    BY <1>t, <2>2, EntriesType DEF TypeOK
  <2>4. merged' \in 0..(IF merging' = 0 THEN 0 ELSE Len(doc'[merging'].entries))
    <3>1. merged \in 0..Len(doc[merging].entries)
      BY <1>t, <2>2 DEF TypeOK
    <3>2. Len(doc[merging].entries) - merged > 0
      BY <2>1, <2>2 DEF Rest
    <3> QED
      BY <2>1, <2>2, <2>3, <3>1, <3>2
  <2>5. TypeOK'
    BY <1>t, <2>1, <2>2, <2>4 DEF TypeOK
  <2> QED
    BY <2>1, <2>5 DEF ParserInv, Limit, File
<1>13. ASSUME MergeDone PROVE ParserInv'
  <2>1. /\ pc = "merge" /\ pc' = "files" /\ doc' = <<>> /\ stanza' = "default"
        /\ merging' = 0 /\ merged' = 0
        /\ UNCHANGED <<maxMultilineLines, precedence, strict, open, raw, multiline, files>>
    BY <1>13 DEF MergeDone
  <2>2. doc' \in Seq(StanzaDoc) /\ merging' \in 0..Len(doc') /\ stanza' \in Stanza
    BY <2>1, ConfParserAssumption DEF ConfParserAssumption
  <2>3. TypeOK'
    BY <1>t, <2>1, <2>2 DEF TypeOK
  <2> QED
    BY <2>1, <2>3 DEF ParserInv
<1> QED
  BY <1>1, <1>2, <1>3, <1>4, <1>5, <1>6, <1>7, <1>8, <1>9, <1>10, <1>11, <1>12, <1>13 DEF Next

\* Every variable keeps its type; outside of a file the parser has nothing in hand.
THEOREM TypeCorrect == Spec => []TypeOK
<1>1. ParserInv => TypeOK
  BY DEF ParserInv
<1> QED
  BY <1>1, InitInv, NextInv, PTL DEF Spec

\* No value has more lines than the limit its file was parsed with.
THEOREM WithinLimitHolds == Spec => []WithinLimit
<1>1. ParserInv => WithinLimit
  BY DEF ParserInv, WithinLimit, TypeOK, WellFormed
<1> QED
  BY <1>1, InitInv, NextInv, PTL DEF Spec

\* The expect of add_entry never fails: the current stanza is in the document, once.
THEOREM StanzaIndexedHolds == Spec => []StanzaIndexed
<1>1. ParserInv => StanzaIndexed
  <2> SUFFICES ASSUME ParserInv, pc \in {"lines", "merge"} PROVE StanzaIndexed
    BY DEF StanzaIndexed
  <2>1. WellFormed(doc, stanza, Limit)
    BY DEF ParserInv, TypeOK
  <2> QED
    BY <2>1 DEF StanzaIndexed, WellFormed, HasStanza
<1> QED
  BY <1>1, InitInv, NextInv, PTL DEF Spec

----------------------------------------------------------------------------
(* What files mean, as they grow.  First, where a logical line ends: one   *)
(* line more ends a logical line where it ended, or the line is part of it. *)

FileDoc == [lines : Seq(Line), limit : Nat \ {0}]

\* g is f with one line more.
Longer(f, g) ==
    /\ f \in FileDoc /\ g \in FileDoc
    /\ g.limit = f.limit
    /\ Len(g.lines) = Len(f.lines) + 1
    /\ \A i \in 1..Len(f.lines) : g.lines[i] = f.lines[i]

\* The logical line that begins with line i goes on; it has ended.
Multi(f, i) == f.lines[i].kind = "pair" /\ f.lines[i].more
Ended(f, i) ==
    ~Multi(f, i) \/ i + f.limit <= Len(f.lines) \/ \E j \in i+1..Len(f.lines) : ~f.lines[j].more

LEMMA LeastIs ==
    ASSUME NEW S \in SUBSET Nat, S # {}
    PROVE  Least(S) \in S /\ \A j \in S : Least(S) <= j
  BY LeastExists DEF Least

LEMMA LeastIsThat ==
    ASSUME NEW S \in SUBSET Nat, NEW m \in S, \A j \in S : m <= j
    PROVE  Least(S) = m
<1>1. S # {}
  OBVIOUS
<1>2. Least(S) \in S /\ \A j \in S : Least(S) <= j
  BY <1>1, LeastIs
<1>3. PICK l \in S : l = Least(S) /\ l <= m
  BY <1>2
<1> QED
  BY <1>3

LEMMA FileType ==
    ASSUME NEW f \in FileDoc
    PROVE  /\ Len(f.lines) \in Nat /\ f.limit \in Nat /\ f.limit > 0 /\ f.lines \in Seq(Line)
           /\ \A i \in 1..Len(f.lines) : f.lines[i] \in Line
<1>1. f.lines \in Seq(Line) /\ f.limit \in Nat \ {0}
  BY DEF FileDoc
<1> QED
  BY <1>1

\* The end of a logical line.
LEMMA LastOfIs ==
    ASSUME NEW f \in FileDoc, NEW i \in 1..Len(f.lines), NEW n, n = Len(f.lines)
    PROVE  /\ LastOf(f, i) \in i..n
           /\ ~Multi(f, i) => LastOf(f, i) = i
           /\ ~Ended(f, i) => LastOf(f, i) = n
           /\ Multi(f, i) => /\ LastOf(f, i) <= i + f.limit
                             /\ \A j \in i+1..n : ~f.lines[j].more => LastOf(f, i) <= j
                             /\ \/ LastOf(f, i) = n \/ LastOf(f, i) = i + f.limit
                                \/ \E j \in i+1..n : ~f.lines[j].more /\ LastOf(f, i) = j
<1>1. n \in Nat /\ i \in Nat /\ i <= n /\ f.limit \in Nat
  BY FileType
<1>2. CASE ~Multi(f, i)
  <2>1. LastOf(f, i) = i
    BY <1>2 DEF LastOf, Multi
  <2> QED
    BY <1>1, <1>2, <2>1 DEF Ended
<1>3. CASE Multi(f, i)
  <2> DEFINE S == {n, i + f.limit} \cup {j \in i+1..n : ~f.lines[j].more}
  <2>1. LastOf(f, i) = Least(S)
    BY <1>3 DEF LastOf, Multi
  <2>2. S \in SUBSET Nat /\ S # {}
    BY <1>1
  <2>3. Least(S) \in S /\ \A j \in S : Least(S) <= j
    <3> HIDE DEF S
    <3> QED
      BY <2>2, LeastIs
  <2>4. PICK l \in S : l = LastOf(f, i) /\ \A j \in S : l <= j
    BY <2>1, <2>3
  <2>5. l \in i..n
    BY <1>1, <2>4
  <2>6. ~Ended(f, i) => l = n
    <3> SUFFICES ASSUME ~Ended(f, i) PROVE l = n
      OBVIOUS
    <3>1. ~(i + f.limit <= n) /\ \A j \in i+1..n : f.lines[j].more
      BY DEF Ended
    <3> QED
      BY <1>1, <2>4, <3>1
  <2> QED
    BY <1>1, <1>3, <2>4, <2>5, <2>6
<1> QED
  BY <1>2, <1>3

\* One line more ends a logical line where it did, or takes it in.
LEMMA LastGrows ==
    ASSUME NEW f, NEW g, Longer(f, g), NEW n, n = Len(f.lines), NEW i \in 1..n
    PROVE  /\ Multi(g, i) <=> Multi(f, i)
           /\ LastOf(g, i) = IF Ended(f, i) THEN LastOf(f, i) ELSE n + 1
           /\ Ended(g, i) <=> \/ Ended(f, i) \/ n + 1 = i + f.limit
                              \/ ~g.lines[n + 1].more
<1>1. /\ f \in FileDoc /\ g \in FileDoc /\ g.limit = f.limit
      /\ Len(g.lines) = n + 1 /\ \A j \in 1..n : g.lines[j] = f.lines[j]
  BY DEF Longer
<1>2. n \in Nat /\ f.limit \in Nat /\ f.limit > 0 /\ i \in Nat /\ i <= n /\ i \in 1..n + 1 /\ n + 1 \in Nat
  BY <1>1, FileType
<1>3. Multi(g, i) <=> Multi(f, i)
  BY <1>1 DEF Multi
<1>4. \A j \in i+1..n + 1 : j \in i+1..n \/ j = n + 1
  BY <1>2
<1>5. \A j \in i+1..n : j \in i+1..n + 1 /\ j \in 1..n
  BY <1>2
<1>6. n + 1 \in i+1..n + 1
  BY <1>2
<1>7. (\E j \in i+1..n + 1 : ~g.lines[j].more)
         <=> (\E j \in i+1..n : ~f.lines[j].more) \/ ~g.lines[n + 1].more
  BY <1>1, <1>4, <1>5, <1>6
<1>8. i + f.limit <= n + 1 <=> i + f.limit <= n \/ n + 1 = i + f.limit
  BY <1>2
<1>9. ~Multi(f, i) => Ended(f, i) /\ Ended(g, i)
  BY <1>3 DEF Ended
<1>10. Ended(g, i) <=> \/ Ended(f, i) \/ n + 1 = i + f.limit
                       \/ ~g.lines[n + 1].more
  BY <1>1, <1>3, <1>7, <1>8, <1>9 DEF Ended
<1>11. LastOf(g, i) = IF Ended(f, i) THEN LastOf(f, i) ELSE n + 1
  <2>1. CASE ~Multi(f, i)
    BY <1>1, <1>2, <1>3, <1>9, <2>1, LastOfIs
  <2>2. CASE Multi(f, i) /\ Ended(f, i)
    <3>1. /\ LastOf(f, i) \in i..n /\ LastOf(f, i) <= i + f.limit
          /\ \A j \in i+1..n : ~f.lines[j].more => LastOf(f, i) <= j
          /\ \/ LastOf(f, i) = n \/ LastOf(f, i) = i + f.limit
             \/ \E j \in i+1..n : ~f.lines[j].more /\ LastOf(f, i) = j
      BY <1>1, <2>2, LastOfIs
    <3>2. /\ LastOf(g, i) \in i..n + 1 /\ LastOf(g, i) <= i + f.limit
          /\ \A j \in i+1..n + 1 : ~g.lines[j].more => LastOf(g, i) <= j
          /\ \/ LastOf(g, i) = n + 1 \/ LastOf(g, i) = i + f.limit
             \/ \E j \in i+1..n + 1 : ~g.lines[j].more /\ LastOf(g, i) = j
      BY <1>1, <1>2, <1>3, <2>2, LastOfIs
    <3>3. PICK a \in Nat : a = LastOf(f, i)
      BY <1>2, <3>1
    <3>4. PICK b \in Nat : b = LastOf(g, i)
      BY <1>2, <3>2
    <3>5. \A j \in i+1..n : ~f.lines[j].more => b <= j
      BY <1>1, <1>5, <3>2, <3>4
    <3>6. i + f.limit <= n \/ \E j \in i+1..n : ~f.lines[j].more
      BY <2>2 DEF Ended
    <3>7. b <= n
      BY <1>2, <3>2, <3>4, <3>5, <3>6
    <3>8. b = i + f.limit \/ \E j \in i+1..n : ~f.lines[j].more /\ b = j
      <4>1. b # n + 1
        BY <1>2, <3>7
      <4>2. CASE \E j \in i+1..n + 1 : ~g.lines[j].more /\ b = j
        <5>1. PICK j \in i+1..n + 1 : ~g.lines[j].more /\ b = j
          BY <4>2
        <5>2. j \in i+1..n
          BY <1>4, <4>1, <5>1
        <5> QED
          BY <1>1, <1>5, <5>1, <5>2
      <4> QED
        BY <3>2, <3>4, <4>1, <4>2
    <3>9. a = b
      <4>1. a <= b
        BY <3>1, <3>3, <3>8
      <4>2. b <= a
        BY <1>2, <3>1, <3>2, <3>3, <3>4, <3>5, <3>7
      <4> QED
        BY <4>1, <4>2
    <3> QED
      BY <2>2, <3>3, <3>4, <3>9
  <2>3. CASE ~Ended(f, i)
    <3>1. Multi(g, i)
      BY <1>3, <1>9, <2>3
    <3>2. /\ LastOf(g, i) \in i..n + 1
          /\ \/ LastOf(g, i) = n + 1 \/ LastOf(g, i) = i + f.limit
             \/ \E j \in i+1..n + 1 : ~g.lines[j].more /\ LastOf(g, i) = j
      BY <1>1, <1>2, <3>1, LastOfIs
    <3>3. ~(i + f.limit <= n) /\ \A j \in i+1..n : f.lines[j].more
      BY <2>3 DEF Ended
    <3>4. CASE LastOf(g, i) = i + f.limit
      BY <1>2, <2>3, <3>2, <3>3, <3>4
    <3>5. CASE \E j \in i+1..n + 1 : ~g.lines[j].more /\ LastOf(g, i) = j
      BY <1>1, <1>4, <1>5, <2>3, <3>3, <3>5
    <3> QED
      BY <2>3, <3>2, <3>4, <3>5
  <2> QED
    BY <1>9, <2>1, <2>2, <2>3
<1> QED
  BY <1>3, <1>10, <1>11

----------------------------------------------------------------------------
(* Which lines begin a logical line.  There is one set that Logical defines, *)
(* and with one line more it is the same set, or has that line in it too.  *)

\* There are lines that begin a logical line, and the next line will be one.
HasLogical(f) == Logical(f, LogicalLines(f)) /\ LogicalLines(f) \in SUBSET (1..Len(f.lines))
Begins(f) ==
    Len(f.lines) = 0 \/ \E i \in LogicalLines(f) : Ended(f, i) /\ LastOf(f, i) = Len(f.lines)

LEMMA LogicalIn ==
    ASSUME NEW f, NEW S, Logical(f, S), NEW i
    PROVE  i \in S <=> i \in 1..Len(f.lines) /\ (i = 1 \/ \E j \in S : i = LastOf(f, j) + 1)
  BY DEF Logical

LEMMA LogicalWithin ==
    ASSUME NEW f \in FileDoc, NEW S \in SUBSET (1..Len(f.lines)), NEW T \in SUBSET (1..Len(f.lines)),
           Logical(f, S), Logical(f, T)
    PROVE  S \subseteq T
<1> DEFINE D == (S \ T) \cup (T \ S)
<1>1. Len(f.lines) \in Nat
  BY FileType
<1>2. D \in SUBSET Nat
  BY <1>1
<1>3. CASE D # {}
  <2>1. PICK m \in D : \A k \in D : m <= k
    <3> HIDE DEF D
    <3> QED
      BY <1>2, <1>3, LeastExists
  <2>2. m \in 1..Len(f.lines) /\ ~(m \in S <=> m \in T)
    OBVIOUS
  <2>3. (\E j \in S : m = LastOf(f, j) + 1) <=> (\E j \in T : m = LastOf(f, j) + 1)
    <3>1. ASSUME NEW j \in 1..Len(f.lines), m = LastOf(f, j) + 1 PROVE j \in S <=> j \in T
      <4>1. LastOf(f, j) \in j..Len(f.lines)
        BY LastOfIs
      <4>2. j < m
        BY <1>1, <2>2, <3>1, <4>1
      <4>3. j \notin D
        <5> HIDE DEF D
        <5> QED
          BY <1>1, <2>1, <2>2, <4>2
      <4> QED
        BY <4>3
    <3> QED
      BY <3>1
  <2> QED
    BY <2>2, <2>3, LogicalIn
<1> QED
  BY <1>3

LEMMA LogicalIs ==
    ASSUME NEW f \in FileDoc, NEW S \in SUBSET (1..Len(f.lines)), Logical(f, S)
    PROVE  LogicalLines(f) = S /\ HasLogical(f)
<1>1. LogicalLines(f) \in SUBSET (1..Len(f.lines)) /\ Logical(f, LogicalLines(f))
  BY DEF LogicalLines
<1>2. LogicalLines(f) = S
  BY <1>1, LogicalWithin
<1> QED
  BY <1>1, <1>2 DEF HasLogical

LEMMA LogicalEmpty ==
    ASSUME NEW f \in FileDoc, Len(f.lines) = 0
    PROVE  LogicalLines(f) = {} /\ HasLogical(f)
<1>1. 1..Len(f.lines) = {}
  OBVIOUS
<1>2. Logical(f, {}) /\ {} \in SUBSET (1..Len(f.lines))
  BY <1>1 DEF Logical
<1> QED
  BY <1>2, LogicalIs

LEMMA LogicalGrows ==
    ASSUME NEW f, NEW g, Longer(f, g), HasLogical(f)
    PROVE  /\ LogicalLines(g) = LogicalLines(f) \cup IF Begins(f) THEN {Len(f.lines) + 1} ELSE {}
           /\ HasLogical(g)
<1> DEFINE S == LogicalLines(f)
           T == S \cup IF Begins(f) THEN {Len(f.lines) + 1} ELSE {}
<1>1. PICK n \in Nat : n = Len(f.lines)
  BY FileType DEF Longer
<1>2. f \in FileDoc /\ g \in FileDoc /\ Len(g.lines) = n + 1
  BY <1>1 DEF Longer
<1>3. S \in SUBSET (1..n) /\ Logical(f, S)
  BY <1>1 DEF HasLogical
<1>4. T \in SUBSET (1..n + 1)
  BY <1>1, <1>3
<1>5. \A i \in S : LastOf(f, i) \in i..n /\ (~Ended(f, i) => LastOf(f, i) = n)
  BY <1>1, <1>2, <1>3, LastOfIs
<1>6. \A i \in S : LastOf(g, i) = IF Ended(f, i) THEN LastOf(f, i) ELSE n + 1
  BY <1>1, <1>3, LastGrows
<1>7. Begins(f) <=> n = 0 \/ \E i \in S : Ended(f, i) /\ LastOf(f, i) = n
  BY <1>1 DEF Begins
<1>8. T = S \cup IF Begins(f) THEN {n + 1} ELSE {}
  BY <1>1
<1>9. LastOf(g, n + 1) = n + 1
  <2>1. n + 1 \in 1..n + 1 /\ LastOf(g, n + 1) \in n + 1..n + 1
    BY <1>1, <1>2, LastOfIs
  <2> QED
    BY <2>1
<1>10. \A x \in 1..n : x \in S <=> x = 1 \/ \E i \in S : x = LastOf(f, i) + 1
  BY <1>1, <1>3, LogicalIn
<1> HIDE DEF S, T
<1>11. ASSUME NEW x \in 1..n + 1
       PROVE  x \in T <=> x = 1 \/ \E i \in T : x = LastOf(g, i) + 1
  <2>1. (\E i \in T : x = LastOf(g, i) + 1) <=> (\E i \in S : x = LastOf(g, i) + 1)
    BY <1>8, <1>9
  <2>2. CASE x \in 1..n
    <3>1. ASSUME NEW i \in S PROVE x = LastOf(g, i) + 1 <=> x = LastOf(f, i) + 1
      <4>1. CASE Ended(f, i)
        BY <1>6, <4>1
      <4>2. CASE ~Ended(f, i)
        <5>1. LastOf(g, i) = n + 1 /\ LastOf(f, i) = n
          BY <1>5, <1>6, <4>2
        <5> QED
          BY <2>2, <5>1
      <4> QED
        BY <4>1, <4>2
    <3>2. x \in T <=> x \in S
      BY <1>8, <2>2
    <3> QED
      BY <1>10, <2>1, <2>2, <3>1, <3>2
  <2>3. CASE x = n + 1
    <3>1. ASSUME NEW i \in S PROVE x = LastOf(g, i) + 1 <=> Ended(f, i) /\ LastOf(f, i) = n
      <4>1. CASE Ended(f, i)
        <5>1. LastOf(g, i) = LastOf(f, i)
          BY <1>6, <4>1
        <5>2. PICK l \in i..n : l = LastOf(f, i)
          BY <1>5
        <5> QED
          BY <1>3, <2>3, <4>1, <5>1, <5>2
      <4>2. CASE ~Ended(f, i)
        <5>1. LastOf(g, i) = n + 1
          BY <1>6, <4>2
        <5> QED
          BY <2>3, <4>2, <5>1
      <4> QED
        BY <4>1, <4>2
    <3>2. x \notin S
      BY <1>3, <2>3
    <3>3. x \in T <=> Begins(f)
      BY <1>8, <2>3, <3>2
    <3>4. x = 1 <=> n = 0
      BY <2>3
    <3> QED
      BY <1>7, <2>1, <3>1, <3>3, <3>4
  <2> QED
    BY <2>2, <2>3
<1>12. Logical(g, T)
  BY <1>2, <1>4, <1>11 DEF Logical
<1> QED
  BY <1>1, <1>2, <1>4, <1>8, <1>12, LogicalIs DEF S

----------------------------------------------------------------------------
(* So headers, pairs, their stanzas and their values stay what they were.  *)

HeaderNames(f) == {f.lines[i].name : i \in HeadersOf(f)}

LEMMA MarksType ==
    ASSUME NEW f, HasLogical(f)
    PROVE  /\ PairsOf(f) \subseteq LogicalLines(f) /\ HeadersOf(f) \subseteq LogicalLines(f)
           /\ LogicalLines(f) \subseteq 1..Len(f.lines)
  BY DEF PairsOf, HeadersOf, HasLogical

OfKind(f, kind) == {i \in LogicalLines(f) : f.lines[i].kind = kind}

LEMMA MarksGrow ==
    ASSUME NEW f, NEW g, Longer(f, g), HasLogical(f), NEW n, n = Len(f.lines), NEW kind
    PROVE  OfKind(g, kind) = OfKind(f, kind)
              \cup IF Begins(f) /\ g.lines[n + 1].kind = kind THEN {n + 1} ELSE {}
<1>1. LogicalLines(g) = LogicalLines(f) \cup IF Begins(f) THEN {n + 1} ELSE {}
  BY LogicalGrows
<1>2. \A i \in LogicalLines(f) : g.lines[i] = f.lines[i]
  BY MarksType DEF Longer
<1> QED
  BY <1>1, <1>2 DEF OfKind

LEMMA HeadersGrow ==
    ASSUME NEW f, NEW g, Longer(f, g), HasLogical(f), NEW n, n = Len(f.lines)
    PROVE  HeadersOf(g) = HeadersOf(f)
                 \cup IF Begins(f) /\ g.lines[n + 1].kind = "header" THEN {n + 1} ELSE {}
<1>1. HeadersOf(f) = OfKind(f, "header") /\ HeadersOf(g) = OfKind(g, "header")
  BY DEF HeadersOf, OfKind
<1> QED
  BY <1>1, MarksGrow

LEMMA PairsGrow ==
    ASSUME NEW f, NEW g, Longer(f, g), HasLogical(f), NEW n, n = Len(f.lines)
    PROVE  PairsOf(g) = PairsOf(f)
                 \cup IF Begins(f) /\ g.lines[n + 1].kind = "pair" THEN {n + 1} ELSE {}
<1>1. PairsOf(f) = OfKind(f, "pair") /\ PairsOf(g) = OfKind(g, "pair")
  BY DEF PairsOf, OfKind
<1> QED
  BY <1>1, MarksGrow

LEMMA GreatestExists ==
    ASSUME NEW n \in Nat, NEW S \in SUBSET (0..n), S # {}
    PROVE  \E m \in S : \A k \in S : k <= m
<1> DEFINE T == {n - k : k \in S}
<1>1. T \in SUBSET Nat /\ T # {}
  OBVIOUS
<1>2. PICK l \in T : \A k \in T : l <= k
  <2> HIDE DEF T
  <2> QED
    BY <1>1, LeastExists
<1>3. PICK m \in S : l = n - m
  OBVIOUS
<1>4. \A k \in S : l <= n - k
  BY <1>2
<1>5. \A k \in S : k <= m
  BY <1>3, <1>4
<1> QED
  BY <1>5

\* The stanza of a line is named by the last header before it.
LEMMA StanzaAtIs ==
    ASSUME NEW f \in FileDoc, HasLogical(f), NEW i
    PROVE  \/ /\ \A j \in HeadersOf(f) : ~(j < i)
              /\ StanzaAt(f, i) = "default"
           \/ \E j \in HeadersOf(f) : /\ j < i /\ \A k \in HeadersOf(f) : k < i => k <= j
                                      /\ StanzaAt(f, i) = f.lines[j].name
<1> DEFINE B == {j \in HeadersOf(f) : j < i}
<1>1. StanzaAt(f, i) = IF B = {} THEN "default" ELSE f.lines[CHOOSE j \in B : \A k \in B : k <= j].name
  BY DEF StanzaAt
<1>2. Len(f.lines) \in Nat /\ HeadersOf(f) \in SUBSET (0..Len(f.lines))
  BY FileType, MarksType
<1>3. B \in SUBSET (0..Len(f.lines))
  BY <1>2
<1>4. CASE B = {}
  BY <1>1, <1>4
<1>5. CASE B # {}
  <2>1. \E j \in B : \A k \in B : k <= j
    <3> HIDE DEF B
    <3> QED
      BY <1>2, <1>3, <1>5, GreatestExists
  <2>2. PICK j \in B : j = (CHOOSE x \in B : \A k \in B : k <= x) /\ \A k \in B : k <= j
    BY <2>1
  <2>3. StanzaAt(f, i) = f.lines[j].name
    BY <1>1, <1>5, <2>2
  <2> QED
    BY <2>2, <2>3
<1> QED
  BY <1>4, <1>5

LEMMA StanzaAtNames ==
    ASSUME NEW f \in FileDoc, HasLogical(f), NEW i
    PROVE  StanzaAt(f, i) \in {"default"} \cup HeaderNames(f)
  BY StanzaAtIs DEF HeaderNames

\* Equal headers before two lines, equal stanzas.
LEMMA StanzaAtSame ==
    ASSUME NEW f, NEW g, NEW i, NEW k,
           {j \in HeadersOf(f) : j < i} = {j \in HeadersOf(g) : j < k},
           \A j \in HeadersOf(f) : j < i => g.lines[j] = f.lines[j],
           HasLogical(f), f \in FileDoc
    PROVE  StanzaAt(f, i) = StanzaAt(g, k)
<1> DEFINE B == {j \in HeadersOf(f) : j < i}
<1>1. /\ StanzaAt(f, i) = IF B = {} THEN "default" ELSE f.lines[CHOOSE j \in B : \A l \in B : l <= j].name
      /\ StanzaAt(g, k) = IF B = {} THEN "default" ELSE g.lines[CHOOSE j \in B : \A l \in B : l <= j].name
  <2> DEFINE C == {j \in HeadersOf(g) : j < k}
  <2>1. StanzaAt(f, i) = IF B = {} THEN "default" ELSE f.lines[CHOOSE j \in B : \A l \in B : l <= j].name
    BY DEF StanzaAt
  <2>2. StanzaAt(g, k) = IF C = {} THEN "default" ELSE g.lines[CHOOSE j \in C : \A l \in C : l <= j].name
    BY DEF StanzaAt
  <2>3. B = C
    OBVIOUS
  <2> HIDE DEF B, C
  <2> QED
    BY <2>1, <2>2, <2>3
<1>2. CASE B = {}
  BY <1>1, <1>2
<1>3. CASE B # {}
  <2>1. Len(f.lines) \in Nat /\ HeadersOf(f) \in SUBSET (0..Len(f.lines))
    BY FileType, MarksType
  <2>2. B \in SUBSET (0..Len(f.lines))
    BY <2>1
  <2>3. \E j \in B : \A l \in B : l <= j
    <3> HIDE DEF B
    <3> QED
      BY <1>3, <2>1, <2>2, GreatestExists
  <2>4. (CHOOSE j \in B : \A l \in B : l <= j) \in B
    BY <2>3
  <2> QED
    BY <1>1, <1>3, <2>4
<1> QED
  BY <1>2, <1>3

\* One line more leaves the lines before it where they were.
LEMMA StanzaAtGrows ==
    ASSUME NEW f, NEW g, Longer(f, g), HasLogical(f), NEW n, n = Len(f.lines), NEW i \in 1..n + 1
    PROVE  StanzaAt(g, i) = StanzaAt(f, i)
<1>1. HeadersOf(g) = HeadersOf(f) \cup IF Begins(f) /\ g.lines[n + 1].kind = "header" THEN {n + 1} ELSE {}
  BY HeadersGrow
<1>2. n \in Nat /\ f \in FileDoc /\ \A j \in 1..n : g.lines[j] = f.lines[j]
  BY FileType DEF Longer
<1>3. \A j \in HeadersOf(f) : j \in 1..n /\ g.lines[j] = f.lines[j]
  BY <1>2, MarksType
<1>4. ~(n + 1 < i)
  BY <1>2
<1>5. {j \in HeadersOf(f) : j < i} = {j \in HeadersOf(g) : j < i}
  BY <1>1, <1>4
<1> QED
  BY <1>2, <1>3, <1>5, StanzaAtSame

\* The stanza that the line after the last is in.
LEMMA StanzaAtEnd ==
    ASSUME NEW f, NEW g, Longer(f, g), HasLogical(f), NEW n, n = Len(f.lines)
    PROVE  StanzaAt(g, n + 2) = IF Begins(f) /\ g.lines[n + 1].kind = "header"
                                THEN g.lines[n + 1].name ELSE StanzaAt(f, n + 1)
<1>1. HeadersOf(g) = HeadersOf(f) \cup IF Begins(f) /\ g.lines[n + 1].kind = "header" THEN {n + 1} ELSE {}
  BY HeadersGrow
<1>2. n \in Nat /\ f \in FileDoc /\ g \in FileDoc /\ \A j \in 1..n : g.lines[j] = f.lines[j]
  BY FileType DEF Longer
<1>3. \A j \in HeadersOf(f) : j \in 1..n /\ g.lines[j] = f.lines[j]
  BY <1>2, MarksType
<1>4. HasLogical(g)
  BY LogicalGrows
<1>5. CASE Begins(f) /\ g.lines[n + 1].kind = "header"
  <2>1. \A j \in HeadersOf(g) : j <= n + 1
    BY <1>1, <1>2, <1>3
  <2>2. n + 1 \in HeadersOf(g) /\ n + 1 < n + 2
    BY <1>1, <1>2, <1>5
  <2>3. PICK j \in HeadersOf(g) : /\ j < n + 2 /\ \A k \in HeadersOf(g) : k < n + 2 => k <= j
                                  /\ StanzaAt(g, n + 2) = g.lines[j].name
    BY <1>2, <1>4, <2>2, StanzaAtIs
  <2>4. j = n + 1
    <3>1. j <= n + 1 /\ n + 1 <= j /\ j \in Nat
      BY <1>1, <1>2, <1>3, <2>1, <2>2, <2>3
    <3> QED
      BY <1>2, <3>1
  <2> QED
    BY <1>5, <2>3, <2>4
<1>6. CASE ~(Begins(f) /\ g.lines[n + 1].kind = "header")
  <2>1. HeadersOf(g) = HeadersOf(f)
    BY <1>1, <1>6
  <2>2. \A j \in HeadersOf(f) : j < n + 1 /\ j < n + 2
    BY <1>2, <1>3
  <2>3. {j \in HeadersOf(f) : j < n + 1} = {j \in HeadersOf(g) : j < n + 2}
    BY <2>1, <2>2
  <2>4. StanzaAt(f, n + 1) = StanzaAt(g, n + 2)
    BY <1>2, <1>3, <2>3, StanzaAtSame
  <2> QED
    BY <1>6, <2>4
<1> QED
  BY <1>5, <1>6

\* So is the value of a logical line that has ended.
LEMMA ValueGrows ==
    ASSUME NEW f, NEW g, Longer(f, g), NEW i \in 1..Len(f.lines), Ended(f, i), NEW m
    PROVE  ValueOf(g, m, i) = ValueOf(f, m, i)
<1>1. LastOf(g, i) = LastOf(f, i) /\ g.limit = f.limit
  BY LastGrows DEF Longer
<1> QED
  BY <1>1 DEF ValueOf

\* A value that ends with line l of the file.
LEMMA ValueIs ==
    ASSUME NEW f \in FileDoc, NEW i \in 1..Len(f.lines), NEW m, NEW l \in Nat,
           \/ LastOf(f, i) = l /\ l <= i + f.limit - 1
           \/ l = i + f.limit - 1 /\ l <= LastOf(f, i)
    PROVE  ValueOf(f, m, i) = [j \in 1..(l - i + 1) |-> <<m, i + j - 1>>]
<1>1. LastOf(f, i) \in i..Len(f.lines) /\ Len(f.lines) \in Nat /\ f.limit \in Nat /\ f.limit > 0
  BY FileType, LastOfIs
<1> DEFINE S == {LastOf(f, i), i + f.limit - 1}
<1>2. S \in SUBSET Nat /\ l \in S /\ \A j \in S : l <= j
  BY <1>1
<1>3. Least(S) = l
  <2> HIDE DEF S
  <2> QED
    BY <1>2, LeastIsThat
<1> QED
  BY <1>3 DEF ValueOf

LEMMA ValueBegins ==
    ASSUME NEW f \in FileDoc, NEW i \in 1..Len(f.lines), NEW m
    PROVE  /\ ValueOf(f, m, i)[1] = <<m, i>>
           /\ m \in Nat => ValueOf(f, m, i) \in Seq(Nat \X Nat)
<1>1. LastOf(f, i) \in i..Len(f.lines) /\ Len(f.lines) \in Nat /\ f.limit \in Nat /\ f.limit > 0
      /\ i \in Nat
  BY FileType, LastOfIs
<1>2. PICK l \in Nat : l >= i /\ \/ LastOf(f, i) = l /\ l <= i + f.limit - 1
                                 \/ l = i + f.limit - 1 /\ l <= LastOf(f, i)
  BY <1>1
<1>3. ValueOf(f, m, i) = [j \in 1..(l - i + 1) |-> <<m, i + j - 1>>]
  BY <1>2, ValueIs
<1>4. l - i + 1 \in Nat /\ 1 \in 1..(l - i + 1) /\ i + 1 - 1 = i
  BY <1>1, <1>2
<1>5. \A j \in 1..(l - i + 1) : i + j - 1 \in Nat
  BY <1>1, <1>4
<1>6. m \in Nat => [j \in 1..(l - i + 1) |-> <<m, i + j - 1>>] \in [1..(l - i + 1) -> Nat \X Nat]
  BY <1>5
<1>7. [1..(l - i + 1) -> Nat \X Nat] \subseteq Seq(Nat \X Nat)
  BY <1>4
<1> QED
  BY <1>3, <1>4, <1>6, <1>7

----------------------------------------------------------------------------
(* The parser within a file: outside of a value every logical line has     *)
(* ended; inside of one all have but the one that the value belongs to.    *)

\* The pairs of f whose value is complete.
Closed(f) == {i \in PairsOf(f) : Ended(f, i)}

\* In f, the m-th file, the value of the pair in line i is yet to end; of its lines
\* those read so far are in value.
OpenAt(f, m, i, keys, value) ==
    /\ i \in PairsOf(f) /\ ~Ended(f, i)
    /\ \A j \in LogicalLines(f) \ {i} : Ended(f, j) /\ LastOf(f, j) < i
    /\ keys = {f.lines[i].name}
    /\ value = [j \in 1..(Len(f.lines) - i + 1) |-> <<m, i + j - 1>>]

Reading(f, m, current, keys, value) ==
    /\ HasLogical(f)
    /\ current = StanzaAt(f, Len(f.lines) + 1)
    /\ keys = {} => Begins(f) /\ \A i \in LogicalLines(f) : Ended(f, i)
    /\ keys # {} => \E i \in PairsOf(f) : OpenAt(f, m, i, keys, value)

LEMMA OpenStays ==
    ASSUME NEW f, NEW g, Longer(f, g), NEW n, n = Len(f.lines), HasLogical(f),
           NEW m, NEW i, NEW keys, NEW value, OpenAt(f, m, i, keys, value)
    PROVE  /\ n \in Nat /\ i \in 1..n /\ Multi(f, i) /\ i + f.limit > n /\ i + f.limit \in Nat
           /\ LogicalLines(g) = LogicalLines(f) /\ HasLogical(g)
           /\ PairsOf(g) = PairsOf(f) /\ HeadersOf(g) = HeadersOf(f)
           /\ LastOf(f, i) = n /\ LastOf(g, i) = n + 1
           /\ Ended(g, i) <=> n + 1 = i + f.limit \/ ~g.lines[n + 1].more
           /\ \A j \in LogicalLines(f) \ {i} : Ended(g, j) /\ LastOf(g, j) < i /\ j < i
           /\ StanzaAt(f, i) = StanzaAt(f, n + 1)
           /\ StanzaAt(g, i) = StanzaAt(f, i) /\ StanzaAt(g, n + 2) = StanzaAt(f, n + 1)
           /\ g.lines[i] = f.lines[i]
<1>1. f \in FileDoc /\ g \in FileDoc /\ n \in Nat /\ f.limit \in Nat /\ f.limit > 0
      /\ \A j \in 1..n : g.lines[j] = f.lines[j]
  BY FileType DEF Longer
<1>2. i \in PairsOf(f) /\ ~Ended(f, i) /\ i \in LogicalLines(f) /\ LogicalLines(f) \subseteq 1..n
  BY MarksType DEF OpenAt
<1>3. i \in 1..n
  BY <1>2
<1>4. Multi(f, i) /\ ~(i + f.limit <= n)
  BY <1>2 DEF Ended
<1>5. LastOf(f, i) = n /\ LastOf(g, i) = n + 1
      /\ (Ended(g, i) <=> n + 1 = i + f.limit \/ ~g.lines[n + 1].more)
  BY <1>1, <1>2, <1>3, LastOfIs, LastGrows
<1>6. \A j \in LogicalLines(f) \ {i} :
         Ended(f, j) /\ LastOf(f, j) < i /\ Ended(g, j) /\ LastOf(g, j) = LastOf(f, j)
  BY <1>2, LastGrows DEF OpenAt
<1>7. \A j \in LogicalLines(f) \ {i} : j < i
  BY <1>1, <1>2, <1>3, <1>6, LastOfIs
<1>8. ~Begins(f)
  BY <1>1, <1>2, <1>3, <1>6 DEF Begins
<1>9. LogicalLines(g) = LogicalLines(f) /\ HasLogical(g) /\ PairsOf(g) = PairsOf(f)
      /\ HeadersOf(g) = HeadersOf(f)
  <2>1. LogicalLines(g) = LogicalLines(f) /\ HasLogical(g)
    BY <1>8, LogicalGrows
  <2>2. PairsOf(g) = PairsOf(f)
    BY <1>8, PairsGrow
  <2>3. HeadersOf(g) = HeadersOf(f)
    BY <1>8, HeadersGrow
  <2> QED
    BY <2>1, <2>2, <2>3
<1>10. StanzaAt(f, i) = StanzaAt(f, n + 1)
  <2>1. \A j \in HeadersOf(f) : j \in 1..n /\ j # i
    BY <1>1, <1>2, MarksType DEF HeadersOf, PairsOf
  <2>2. \A j \in HeadersOf(f) : j < i /\ j < n + 1
    BY <1>1, <1>7, <2>1, MarksType
  <2>3. {j \in HeadersOf(f) : j < i} = {j \in HeadersOf(f) : j < n + 1}
    BY <2>2
  <2> QED
    BY <1>1, <2>3, StanzaAtSame
<1>11. StanzaAt(g, i) = StanzaAt(f, i) /\ StanzaAt(g, n + 2) = StanzaAt(f, n + 1)
  <2>1. i \in 1..n + 1
    BY <1>1, <1>3
  <2> QED
    BY <1>8, <2>1, StanzaAtGrows, StanzaAtEnd
<1> QED
  BY <1>1, <1>3, <1>4, <1>5, <1>6, <1>7, <1>9, <1>10, <1>11

LEMMA Extends ==
    ASSUME NEW n \in Nat, NEW i \in 1..n, NEW m, NEW value,
           value = [j \in 1..(n - i + 1) |-> <<m, i + j - 1>>]
    PROVE  Append(value, <<m, n + 1>>) = [j \in 1..(n + 1 - i + 1) |-> <<m, i + j - 1>>]
<1>1. n - i + 1 \in Nat
  OBVIOUS
<1>2. PICK c \in Nat : c = n - i + 1
  BY <1>1
<1>3. n + 1 = i + (c + 1) - 1 /\ n + 1 - i + 1 = c + 1
  BY <1>2
<1>4. value = [j \in 1..c |-> <<m, i + j - 1>>]
  BY <1>2
<1>5. Append([j \in 1..c |-> <<m, i + j - 1>>], <<m, i + (c + 1) - 1>>)
         = [j \in 1..(c + 1) |-> <<m, i + j - 1>>]
  <2> DEFINE v(j) == <<m, i + j - 1>>
  <2> HIDE DEF v
  <2>1. Append([j \in 1..c |-> v(j)], v(c + 1)) = [j \in 1..(c + 1) |-> v(j)]
    BY <1>2
  <2> QED
    BY <2>1 DEF v
<1> QED
  BY <1>3, <1>4, <1>5

LEMMA OpenLine ==
    ASSUME NEW f, NEW g, Longer(f, g), NEW n, n = Len(f.lines), HasLogical(f),
           NEW m, NEW i, NEW keys, NEW value, OpenAt(f, m, i, keys, value)
    PROVE  /\ n \in Nat /\ i \in 1..n /\ LastOf(g, i) = n + 1
           /\ Ended(g, i) <=> n + 1 = i + f.limit \/ ~g.lines[n + 1].more
  BY OpenStays

\* The value goes on: the new line is part of it.
LEMMA OpenContinues ==
    ASSUME NEW f, NEW g, Longer(f, g), NEW n, n = Len(f.lines), HasLogical(f),
           NEW m, NEW i, NEW keys, NEW value, OpenAt(f, m, i, keys, value), ~Ended(g, i)
    PROVE  /\ OpenAt(g, m, i, keys, Append(value, <<m, n + 1>>))
           /\ Closed(g) = Closed(f)
<1>1. /\ n \in Nat /\ i \in 1..n
      /\ LogicalLines(g) = LogicalLines(f) /\ PairsOf(g) = PairsOf(f)
      /\ \A j \in LogicalLines(f) \ {i} : Ended(g, j) /\ LastOf(g, j) < i
      /\ g.lines[i] = f.lines[i]
  BY OpenStays
<1>2. Len(g.lines) = n + 1
  BY DEF Longer
<1>3. i \in PairsOf(f) /\ ~Ended(f, i) /\ keys = {f.lines[i].name}
      /\ value = [j \in 1..(n - i + 1) |-> <<m, i + j - 1>>]
      /\ \A j \in LogicalLines(f) \ {i} : Ended(f, j)
  BY DEF OpenAt
<1>4. Append(value, <<m, n + 1>>) = [j \in 1..(n + 1 - i + 1) |-> <<m, i + j - 1>>]
  <2>1. n \in Nat /\ i \in 1..n
    BY <1>1
  <2>2. value = [j \in 1..(n - i + 1) |-> <<m, i + j - 1>>]
    BY <1>3
  <2> QED
    BY <2>1, <2>2, Extends
<1>5. OpenAt(g, m, i, keys, Append(value, <<m, n + 1>>))
  <2> DEFINE v == Append(value, <<m, n + 1>>)
  <2>1. /\ i \in PairsOf(g) /\ ~Ended(g, i) /\ keys = {g.lines[i].name}
        /\ \A j \in LogicalLines(g) \ {i} : Ended(g, j) /\ LastOf(g, j) < i
    BY <1>1, <1>3
  <2>2. v = [j \in 1..(Len(g.lines) - i + 1) |-> <<m, i + j - 1>>]
    <3>1. Len(g.lines) - i + 1 = n + 1 - i + 1
      BY <1>1, <1>2
    <3> QED
      BY <1>4, <3>1, Zenon
  <2> HIDE DEF v
  <2>3. OpenAt(g, m, i, keys, v)
    BY <2>1, <2>2 DEF OpenAt
  <2> QED
    BY <2>3 DEF v
<1>6. Closed(g) = Closed(f)
  BY <1>1, <1>3, MarksType DEF Closed
<1> QED
  BY <1>5, <1>6

\* The value ends: the new line is the last of its logical line.
LEMMA OpenEnds ==
    ASSUME NEW f, NEW g, Longer(f, g), NEW n, n = Len(f.lines), HasLogical(f),
           NEW m, NEW i, NEW keys, NEW value, OpenAt(f, m, i, keys, value), Ended(g, i)
    PROVE  /\ \A current : current = StanzaAt(f, n + 1) => Reading(g, m, current, {}, <<>>)
           /\ i \in PairsOf(g) /\ keys = {g.lines[i].name} /\ StanzaAt(g, i) = StanzaAt(f, n + 1)
           /\ Closed(g) = Closed(f) \cup {i} /\ i \notin Closed(f)
           /\ \A j \in Closed(f) : j < i
<1>1. /\ n \in Nat /\ i \in 1..n
      /\ LogicalLines(g) = LogicalLines(f) /\ PairsOf(g) = PairsOf(f) /\ HasLogical(g)
      /\ \A j \in LogicalLines(f) \ {i} : Ended(g, j) /\ j < i
      /\ LastOf(g, i) = n + 1 /\ g.lines[i] = f.lines[i]
      /\ StanzaAt(f, i) = StanzaAt(f, n + 1)
      /\ StanzaAt(g, i) = StanzaAt(f, i) /\ StanzaAt(g, n + 2) = StanzaAt(f, n + 1)
  BY OpenStays
<1>2. Len(g.lines) = n + 1
  BY DEF Longer
<1>3. i \in PairsOf(f) /\ ~Ended(f, i) /\ keys = {f.lines[i].name}
      /\ \A j \in LogicalLines(f) \ {i} : Ended(f, j)
  BY DEF OpenAt
<1>4. PairsOf(f) \subseteq LogicalLines(f)
  BY MarksType
<1>5. Begins(g) /\ \A j \in LogicalLines(g) : Ended(g, j)
  BY <1>1, <1>2, <1>3, <1>4 DEF Begins
<1>6. Closed(g) = Closed(f) \cup {i} /\ i \notin Closed(f)
  BY <1>1, <1>3, <1>4 DEF Closed
<1>7. \A j \in Closed(f) : j < i
  BY <1>1, <1>3, <1>4 DEF Closed
<1>8. n + 1 + 1 = n + 2
  BY <1>1
<1> QED
  BY <1>1, <1>2, <1>3, <1>5, <1>6, <1>7, <1>8 DEF Reading

\* A line that begins a logical line.
LEMMA NextBegins ==
    ASSUME NEW f, NEW g, Longer(f, g), NEW n, n = Len(f.lines),
           NEW m, NEW current, NEW value, Reading(f, m, current, {}, value)
    PROVE  /\ n \in Nat /\ HasLogical(g) /\ n + 1 \in LogicalLines(g)
           /\ LogicalLines(g) = LogicalLines(f) \cup {n + 1} /\ n + 1 \notin LogicalLines(f)
           /\ \A j \in LogicalLines(f) : j < n + 1 /\ Ended(g, j) /\ LastOf(g, j) < n + 1
           /\ PairsOf(g) = PairsOf(f) \cup IF g.lines[n + 1].kind = "pair" THEN {n + 1} ELSE {}
           /\ HeadersOf(g) = HeadersOf(f) \cup IF g.lines[n + 1].kind = "header" THEN {n + 1} ELSE {}
           /\ LastOf(g, n + 1) = n + 1
           /\ Ended(g, n + 1) <=> ~Multi(g, n + 1)
           /\ StanzaAt(g, n + 1) = current
           /\ StanzaAt(g, n + 2) = IF g.lines[n + 1].kind = "header"
                                   THEN g.lines[n + 1].name ELSE current
           /\ Closed(f) \subseteq LogicalLines(f)
           /\ Closed(g) = Closed(f) \cup IF g.lines[n + 1].kind = "pair" /\ ~Multi(g, n + 1)
                                         THEN {n + 1} ELSE {}
<1>1. f \in FileDoc /\ g \in FileDoc /\ n \in Nat /\ g.limit \in Nat /\ g.limit > 0
      /\ Len(g.lines) = n + 1
  BY FileType DEF Longer
<1>2. HasLogical(f) /\ current = StanzaAt(f, n + 1) /\ Begins(f)
      /\ \A i \in LogicalLines(f) : Ended(f, i)
  BY DEF Reading
<1>3. LogicalLines(g) = LogicalLines(f) \cup {n + 1} /\ HasLogical(g)
  BY <1>2, LogicalGrows
<1>4. PairsOf(g) = PairsOf(f) \cup IF g.lines[n + 1].kind = "pair" THEN {n + 1} ELSE {}
  BY <1>2, PairsGrow
<1>5. HeadersOf(g) = HeadersOf(f) \cup IF g.lines[n + 1].kind = "header" THEN {n + 1} ELSE {}
  BY <1>2, HeadersGrow
<1>6. PairsOf(f) \subseteq LogicalLines(f) /\ LogicalLines(f) \subseteq 1..n
  BY <1>2, MarksType
<1>7. \A j \in LogicalLines(f) : Ended(g, j) /\ LastOf(g, j) \in j..n
  <2> SUFFICES ASSUME NEW j \in LogicalLines(f) PROVE Ended(g, j) /\ LastOf(g, j) \in j..n
    OBVIOUS
  <2>1. j \in 1..n /\ Ended(f, j)
    BY <1>2, <1>6
  <2>2. LastOf(f, j) \in j..n
    BY <1>1, <2>1, LastOfIs
  <2> QED
    BY <2>1, <2>2, LastGrows
<1>8. n + 1 \in 1..n + 1 /\ n + 1 + 1 = n + 2
  BY <1>1
<1>9. LastOf(g, n + 1) = n + 1
  <2>1. LastOf(g, n + 1) \in n + 1..n + 1
    BY <1>1, <1>8, LastOfIs
  <2> QED
    BY <1>1, <2>1
<1>10. Ended(g, n + 1) <=> ~Multi(g, n + 1)
  BY <1>1 DEF Ended
<1>11. StanzaAt(g, n + 1) = current
  BY <1>2, <1>8, StanzaAtGrows
<1>12. StanzaAt(g, n + 2) = IF g.lines[n + 1].kind = "header" THEN g.lines[n + 1].name ELSE current
  BY <1>2, StanzaAtEnd
<1>13. \A j \in LogicalLines(f) : j < n + 1 /\ Ended(g, j) /\ LastOf(g, j) < n + 1
  BY <1>1, <1>6, <1>7
<1>14. Closed(f) = PairsOf(f)
  BY <1>2, <1>6 DEF Closed
<1>15. Closed(g) = Closed(f) \cup IF g.lines[n + 1].kind = "pair" /\ ~Multi(g, n + 1)
                                  THEN {n + 1} ELSE {}
  BY <1>4, <1>6, <1>10, <1>13, <1>14 DEF Closed
<1>16. n + 1 \notin LogicalLines(f)
  BY <1>1, <1>6
<1> QED
  BY <1>1, <1>3, <1>4, <1>5, <1>6, <1>9, <1>10, <1>11, <1>12, <1>13, <1>14, <1>15, <1>16

\* It is complete ...
LEMMA OneLine ==
    ASSUME NEW f, NEW g, Longer(f, g), NEW n, n = Len(f.lines),
           NEW m, NEW current, NEW value, Reading(f, m, current, {}, value), ~Multi(g, n + 1)
    PROVE  Reading(g, m, IF g.lines[n + 1].kind = "header" THEN g.lines[n + 1].name ELSE current,
                   {}, value)
<1>1. Len(g.lines) = n + 1 /\ n \in Nat /\ n + 1 + 1 = n + 2
  BY NextBegins DEF Longer
<1> QED
  BY <1>1, NextBegins DEF Reading, Begins

\* ... or it is the first of a value.
LEMMA FirstLine ==
    ASSUME NEW f, NEW g, Longer(f, g), NEW n, n = Len(f.lines),
           NEW m, NEW current, NEW value, Reading(f, m, current, {}, value), Multi(g, n + 1)
    PROVE  Reading(g, m, current, {g.lines[n + 1].name}, <<<<m, n + 1>>>>)
<1>1. Len(g.lines) = n + 1 /\ n \in Nat /\ n + 1 + 1 = n + 2 /\ n + 1 - (n + 1) + 1 = 1
  BY NextBegins DEF Longer
<1>2. <<<<m, n + 1>>>> = [j \in 1..(n + 1 - (n + 1) + 1) |-> <<m, n + 1 + j - 1>>]
  <2>1. [j \in 1..1 |-> <<m, n + 1 + j - 1>>] = <<<<m, n + 1 + 1 - 1>>>>
    OBVIOUS
  <2> QED
    BY <1>1, <2>1
<1>3. g.lines[n + 1].kind = "pair"
  BY DEF Multi
<1>4. n + 1 \in PairsOf(g) /\ ~Ended(g, n + 1)
      /\ \A j \in LogicalLines(g) \ {n + 1} : Ended(g, j) /\ LastOf(g, j) < n + 1
  BY <1>3, NextBegins
<1>5. OpenAt(g, m, n + 1, {g.lines[n + 1].name}, <<<<m, n + 1>>>>)
  BY <1>1, <1>2, <1>4 DEF OpenAt
<1>6. HasLogical(g) /\ current = StanzaAt(g, n + 2)
  BY <1>3, NextBegins
<1> QED
  BY <1>1, <1>4, <1>5, <1>6 DEF Reading

----------------------------------------------------------------------------
(* The document: an entry for every pair whose value is complete, with what *)
(* its line means, and those of a stanza in the order of their lines.      *)

\* The line an entry was read from.
LineOf(e) == e.value[1][2]

\* An entry of stanza s is what its line means; P are the lines whose values are complete.
EntryMeans(e, s, f, m, P) ==
    /\ LineOf(e) \in P
    /\ e.key = f.lines[LineOf(e)].name
    /\ e.value = ValueOf(f, m, LineOf(e))
    /\ StanzaAt(f, LineOf(e)) = s

DocMeans(d, f, m, P) ==
    /\ \A a \in DOMAIN d : \A b \in DOMAIN d[a].entries :
          EntryMeans(d[a].entries[b], d[a].name, f, m, P)
    /\ \A i \in P : \E a \in DOMAIN d : \E b \in DOMAIN d[a].entries : LineOf(d[a].entries[b]) = i
    /\ \A a \in DOMAIN d : \A b, c \in DOMAIN d[a].entries :
          b < c => LineOf(d[a].entries[b]) < LineOf(d[a].entries[c])

NamesMean(d, f) == {d[a].name : a \in DOMAIN d} = {"default"} \cup HeaderNames(f)

LEMMA DocGrows ==
    ASSUME NEW f, NEW g, Longer(f, g), HasLogical(f), NEW d, NEW m, DocMeans(d, f, m, Closed(f))
    PROVE  DocMeans(d, g, m, Closed(f))
<1>1. \A i \in Closed(f) : i \in 1..Len(f.lines) /\ Ended(f, i)
  BY MarksType DEF Closed
<1>2. Len(f.lines) \in Nat
  BY FileType DEF Longer
<1>3. ASSUME NEW e, NEW s, EntryMeans(e, s, f, m, Closed(f)) PROVE EntryMeans(e, s, g, m, Closed(f))
  <2>1. PICK i \in Closed(f) : i = LineOf(e)
    BY <1>3 DEF EntryMeans
  <2>2. i \in 1..Len(f.lines) /\ Ended(f, i) /\ i \in 1..Len(f.lines) + 1
    BY <1>1, <1>2
  <2>3. g.lines[i] = f.lines[i]
    BY <2>2 DEF Longer
  <2>4. ValueOf(g, m, i) = ValueOf(f, m, i)
    BY <2>2, ValueGrows
  <2>5. StanzaAt(g, i) = StanzaAt(f, i)
    BY <2>2, StanzaAtGrows
  <2> QED
    BY <1>3, <2>1, <2>3, <2>4, <2>5 DEF EntryMeans
<1> QED
  BY <1>3 DEF DocMeans

\* What add_entry does to a document.
EntryAdded(d, x, new, e) ==
    /\ new \in Seq(StanzaDoc) /\ DOMAIN new = DOMAIN d
    /\ x \in DOMAIN d
    /\ \A a \in DOMAIN d : new[a].name = d[a].name /\ (a # x => new[a] = d[a])
    /\ DOMAIN d[x].entries = 1..Len(d[x].entries) /\ Len(d[x].entries) \in Nat
    /\ DOMAIN new[x].entries = 1..Len(d[x].entries) + 1
    /\ \A b \in DOMAIN d[x].entries : new[x].entries[b] = d[x].entries[b]
    /\ new[x].entries[Len(d[x].entries) + 1] = e

LEMMA AddEntryIs ==
    ASSUME NEW d, NEW limit, WellFormed(d, stanza, limit), stanza \in Stanza,
           NEW k \in Key, NEW value \in Seq(Nat \X Nat)
    PROVE  \E x \in DOMAIN d : d[x].name = stanza
              /\ EntryAdded(d, x, AddEntry(d, {k}, value), [key |-> k, value |-> value])
<1> DEFINE x == StanzaIndex(d, stanza)
           entry == [key |-> k, value |-> value]
           added == Append(d[x].entries, entry)
           new == [d[x] EXCEPT !.entries = added]
<1>1. x \in DOMAIN d /\ d[x].name = stanza
  BY StanzaIndexFinds DEF WellFormed
<1>2. entry \in EntryDoc
  BY DEF EntryDoc
<1>3. d[x] \in StanzaDoc /\ d[x].entries \in Seq(EntryDoc)
  <2>1. d[x] \in StanzaDoc
    BY <1>1, ElementType DEF WellFormed
  <2> QED
    BY <2>1 DEF StanzaDoc
<1>4. AddEntry(d, {k}, value) = [d EXCEPT ![x] = new]
  <2>1. (CHOOSE y \in {k} : TRUE) = k /\ {k} # {}
    OBVIOUS
  <2> QED
    BY <2>1 DEF AddEntry
<1> HIDE DEF x, entry
<1>5. /\ added \in Seq(EntryDoc)
      /\ DOMAIN d[x].entries = 1..Len(d[x].entries) /\ Len(d[x].entries) \in Nat
      /\ DOMAIN added = 1..Len(d[x].entries) + 1
      /\ \A b \in DOMAIN d[x].entries : added[b] = d[x].entries[b]
      /\ added[Len(d[x].entries) + 1] = entry
  BY <1>2, <1>3
<1> HIDE DEF added
<1>6. new \in StanzaDoc /\ new.name = d[x].name /\ new.entries = added
  BY <1>3, <1>5 DEF StanzaDoc
<1> HIDE DEF new
<1>7. [d EXCEPT ![x] = new] \in Seq(StanzaDoc) /\ DOMAIN [d EXCEPT ![x] = new] = DOMAIN d
  BY <1>1, <1>6 DEF WellFormed
<1>8. \A a \in DOMAIN d : /\ a = x => [d EXCEPT ![x] = new][a] = new
                          /\ a # x => [d EXCEPT ![x] = new][a] = d[a]
  BY <1>1
<1>9. EntryAdded(d, x, [d EXCEPT ![x] = new], entry)
  BY <1>1, <1>5, <1>6, <1>7, <1>8 DEF EntryAdded
<1> QED
  BY <1>1, <1>4, <1>9 DEF entry

\* A document means one pair more after add_entry.
LEMMA DocAdds ==
    ASSUME NEW f \in FileDoc, NEW m, NEW P, NEW d, DocMeans(d, f, m, P),
           NEW limit, WellFormed(d, stanza, limit), stanza \in Stanza,
           NEW k \in Key, NEW value \in Seq(Nat \X Nat),
           NEW i \in 1..Len(f.lines), \A j \in P : j \in Nat /\ j < i, stanza = StanzaAt(f, i),
           k = f.lines[i].name, value = ValueOf(f, m, i)
    PROVE  /\ DocMeans(AddEntry(d, {k}, value), f, m, P \cup {i})
           /\ NamesMean(d, f) => NamesMean(AddEntry(d, {k}, value), f)
<1> DEFINE new == AddEntry(d, {k}, value)
           e == [key |-> k, value |-> value]
<1>1. PICK x \in DOMAIN d : d[x].name = stanza /\ EntryAdded(d, x, new, e)
  BY AddEntryIs
<1>2. LineOf(e) = i
  BY ValueBegins DEF LineOf
<1>3. EntryMeans(e, stanza, f, m, P \cup {i})
  BY <1>2 DEF EntryMeans
<1> HIDE DEF new, e
<1>4. PICK c \in Nat : c = Len(d[x].entries)
  BY <1>1 DEF EntryAdded
<1>5. /\ DOMAIN new = DOMAIN d
      /\ \A a \in DOMAIN d : new[a].name = d[a].name /\ (a # x => new[a] = d[a])
      /\ DOMAIN d[x].entries = 1..c
      /\ DOMAIN new[x].entries = 1..c + 1
      /\ \A b \in 1..c : new[x].entries[b] = d[x].entries[b]
      /\ new[x].entries[c + 1] = e
  BY <1>1, <1>4 DEF EntryAdded
<1>6. \A b \in 1..c + 1 : b \in 1..c \/ b = c + 1
  BY <1>4
<1>7. 1..c \subseteq 1..c + 1 /\ c + 1 \in 1..c + 1 /\ c + 1 \notin 1..c
  BY <1>4
<1>8. ASSUME NEW a \in DOMAIN new, NEW b \in DOMAIN new[a].entries
      PROVE  EntryMeans(new[a].entries[b], new[a].name, f, m, P \cup {i})
  <2>1. CASE a = x /\ b = c + 1
    BY <1>1, <1>3, <1>5, <2>1
  <2>2. CASE ~(a = x /\ b = c + 1)
    <3>1. b \in DOMAIN d[a].entries /\ new[a].entries[b] = d[a].entries[b]
      BY <1>5, <1>6, <1>8, <2>2
    <3>2. EntryMeans(d[a].entries[b], d[a].name, f, m, P)
      BY <1>5, <3>1 DEF DocMeans
    <3> QED
      BY <1>5, <3>1, <3>2 DEF EntryMeans
  <2> QED
    BY <2>1, <2>2
<1>9. ASSUME NEW j \in P \cup {i}
      PROVE  \E a \in DOMAIN new : \E b \in DOMAIN new[a].entries : LineOf(new[a].entries[b]) = j
  <2>1. CASE j = i
    BY <1>1, <1>2, <1>5, <1>7, <2>1
  <2>2. CASE j \in P
    <3>1. PICK a \in DOMAIN d : \E b \in DOMAIN d[a].entries : LineOf(d[a].entries[b]) = j
      BY <2>2 DEF DocMeans
    <3>2. PICK b \in DOMAIN d[a].entries : LineOf(d[a].entries[b]) = j
      BY <3>1
    <3>3. b \in DOMAIN new[a].entries /\ new[a].entries[b] = d[a].entries[b]
      BY <1>5, <1>7
    <3> QED
      BY <1>5, <3>2, <3>3
  <2> QED
    BY <2>1, <2>2
<1>10. ASSUME NEW a \in DOMAIN new, NEW b \in DOMAIN new[a].entries, NEW b2 \in DOMAIN new[a].entries,
              b < b2
       PROVE  LineOf(new[a].entries[b]) < LineOf(new[a].entries[b2])
  <2>1. CASE a # x
    <3>1. new[a] = d[a] /\ a \in DOMAIN d
      BY <1>5, <2>1
    <3> QED
      BY <1>10, <3>1 DEF DocMeans
  <2>2. CASE a = x /\ b2 \in 1..c
    <3>1. b \in 1..c
      BY <1>4, <1>5, <1>10, <2>2
    <3>2. new[a].entries[b] = d[a].entries[b] /\ new[a].entries[b2] = d[a].entries[b2]
          /\ b \in DOMAIN d[a].entries /\ b2 \in DOMAIN d[a].entries
      BY <1>5, <2>2, <3>1
    <3> QED
      BY <1>1, <1>10, <2>2, <3>2 DEF DocMeans
  <2>3. CASE a = x /\ b2 = c + 1
    <3>1. b \in 1..c
      BY <1>4, <1>5, <1>10, <2>3
    <3>2. new[a].entries[b] = d[a].entries[b] /\ b \in DOMAIN d[a].entries
      BY <1>5, <2>3, <3>1
    <3>3. LineOf(d[a].entries[b]) \in P
      BY <1>1, <2>3, <3>2 DEF DocMeans, EntryMeans
    <3> QED
      BY <1>2, <1>5, <2>3, <3>2, <3>3
  <2> QED
    BY <1>5, <1>6, <1>10, <2>1, <2>2, <2>3
<1>11. DocMeans(new, f, m, P \cup {i})
  BY <1>8, <1>9, <1>10 DEF DocMeans
<1>12. NamesMean(d, f) => NamesMean(new, f)
  BY <1>5 DEF NamesMean
<1> QED
  BY <1>11, <1>12 DEF new

\* A stanza that begins has no entries.
LEMMA DocAppends ==
    ASSUME NEW d \in Seq(StanzaDoc), NEW name \in Stanza, NEW f, NEW m, NEW P, DocMeans(d, f, m, P)
    PROVE  LET new == Append(d, [name |-> name, entries |-> <<>>])
           IN  /\ DocMeans(new, f, m, P)
               /\ {new[a].name : a \in DOMAIN new} = {d[a].name : a \in DOMAIN d} \cup {name}
<1> DEFINE s == [name |-> name, entries |-> <<>>]
           new == Append(d, s)
<1>1. s.name = name /\ DOMAIN s.entries = {} /\ s \in StanzaDoc
  BY DEF StanzaDoc
<1> HIDE DEF s
<1>2. /\ DOMAIN new = DOMAIN d \cup {Len(d) + 1} /\ Len(d) + 1 \notin DOMAIN d
      /\ \A a \in DOMAIN d : new[a] = d[a]
      /\ new[Len(d) + 1] = s
  BY <1>1
<1> HIDE DEF new
<1>3. DocMeans(new, f, m, P)
  BY <1>1, <1>2 DEF DocMeans
<1>4. {new[a].name : a \in DOMAIN new} = {d[a].name : a \in DOMAIN d} \cup {name}
  BY <1>1, <1>2
<1> QED
  BY <1>3, <1>4 DEF new, s

----------------------------------------------------------------------------
(* The second invariant says that of the file that is being read.          *)

\* The file that is being read, or was the last.
Current == files[File]

LinesInv ==
    /\ \A x \in DOMAIN files : HasLogical(files[x])
    /\ pc = "lines" => /\ Reading(Current, File, stanza, open, raw)
                       /\ DocMeans(doc, Current, File, Closed(Current))
    /\ pc = "merge" => DocMeans(doc, Current, File, PairsOf(Current))
    /\ doc # <<>> => NamesMean(doc, Current)

LEMMA FilesType ==
    ASSUME TypeOK
    PROVE  /\ files \in Seq(FileDoc) /\ File \in Nat /\ DOMAIN files = 1..File
           /\ \A x \in DOMAIN files : files[x] \in FileDoc
           /\ files # <<>> => File \in DOMAIN files /\ Current \in FileDoc
<1>1. files \in Seq(FileDoc)
  BY DEF TypeOK, FileDoc
<1>2. Len(files) \in Nat /\ DOMAIN files = 1..Len(files) /\ (files # <<>> => Len(files) \in DOMAIN files)
  BY <1>1
<1>3. \A x \in DOMAIN files : files[x] \in FileDoc
  BY <1>1, ElementType
<1> QED
  BY <1>1, <1>2, <1>3 DEF File, Current

LEMMA TakeGrows ==
    ASSUME TypeOK, NEW line \in Line, Take(line)
    PROVE  /\ Longer(Current, Current') /\ File' = File /\ File \in Nat
           /\ Current'.lines[Len(Current.lines) + 1] = line
           /\ DOMAIN files' = DOMAIN files /\ File \in DOMAIN files
           /\ \A x \in DOMAIN files : x # File => files'[x] = files[x]
           /\ Current' = files'[File] /\ Current' \in FileDoc
           /\ Here = <<File, Len(Current.lines) + 1>>
           /\ Limit = Current.limit
           /\ pc = "lines" /\ pc' = "lines" /\ doc # <<>>
<1>1. pc = "lines" /\ pc' = "lines" /\ doc # <<>> /\ files # <<>>
  BY DEF Take, TypeOK
<1>2. files \in Seq(FileDoc) /\ File \in DOMAIN files /\ Current \in FileDoc /\ File \in Nat
  BY <1>1, FilesType
<1> DEFINE new == [Current EXCEPT !.lines = Append(Current.lines, line)]
<1>3. Current.lines \in Seq(Line) /\ Current.limit \in Nat \ {0}
      /\ Current = [lines |-> Current.lines, limit |-> Current.limit]
  BY <1>2 DEF FileDoc
<1>4. /\ Append(Current.lines, line) \in Seq(Line)
      /\ Len(Append(Current.lines, line)) = Len(Current.lines) + 1
      /\ \A i \in 1..Len(Current.lines) : Append(Current.lines, line)[i] = Current.lines[i]
      /\ Append(Current.lines, line)[Len(Current.lines) + 1] = line
  BY <1>3
<1>5. new \in FileDoc /\ new.limit = Current.limit /\ new.lines = Append(Current.lines, line)
  BY <1>2, <1>3, <1>4 DEF FileDoc
<1>6. files' = [files EXCEPT ![File] = new]
  BY DEF Take, Current
<1>7. Longer(Current, new) /\ new.lines[Len(Current.lines) + 1] = line
  BY <1>2, <1>4, <1>5 DEF Longer
<1> HIDE DEF new
<1>8. Len(files') = Len(files) /\ DOMAIN files' = DOMAIN files /\ files'[File] = new
      /\ \A x \in DOMAIN files : x # File => files'[x] = files[x]
  BY <1>2, <1>5, <1>6
<1>9. File' = File
  BY <1>8 DEF File
<1>10. Current' = new
  BY <1>8, <1>9 DEF Current
<1> QED
  BY <1>1, <1>2, <1>5, <1>7, <1>8, <1>9, <1>10 DEF Here, Limit, Current

\* After a line that was taken in, the invariant is a matter of this file.
LEMMA ReadStill ==
    ASSUME TypeOK, LinesInv, NEW line \in Line, Take(line),
           HasLogical(Current'),
           Reading(Current', File, stanza', open', raw'),
           DocMeans(doc', Current', File, Closed(Current')),
           NamesMean(doc', Current')
    PROVE  LinesInv'
<1>1. /\ DOMAIN files' = DOMAIN files /\ File \in DOMAIN files /\ Current' = files'[File]
      /\ \A x \in DOMAIN files : x # File => files'[x] = files[x]
      /\ File' = File /\ pc' = "lines"
  BY TakeGrows
<1>2. \A x \in DOMAIN files' : HasLogical(files'[x])
  BY <1>1 DEF LinesInv
<1> QED
  BY <1>1, <1>2 DEF LinesInv

LEMMA NamesGrow ==
    ASSUME NEW f, NEW g, Longer(f, g), HasLogical(f)
    PROVE  HeaderNames(g) = HeaderNames(f)
              \cup IF Begins(f) /\ g.lines[Len(f.lines) + 1].kind = "header"
                   THEN {g.lines[Len(f.lines) + 1].name} ELSE {}
<1>1. \A i \in HeadersOf(f) : g.lines[i] = f.lines[i]
  BY MarksType DEF Longer
<1>2. HeadersOf(g) = HeadersOf(f)
         \cup IF Begins(f) /\ g.lines[Len(f.lines) + 1].kind = "header" THEN {Len(f.lines) + 1} ELSE {}
  BY HeadersGrow
<1> QED
  BY <1>1, <1>2 DEF HeaderNames

\* A value that the new line ends is closed.
LEMMA CloseReads ==
    ASSUME ParserInv, LinesInv, NEW line \in Line, Take(line),
           NEW i, OpenAt(Current, File, i, open, raw), Ended(Current', i),
           NEW value, value = ValueOf(Current', File, i), Close(value)
    PROVE  LinesInv'
<1> DEFINE f == Current
           g == Current'
<1>1. TypeOK /\ stanza \in Stanza /\ doc # <<>>
  BY TakeGrows DEF ParserInv, TypeOK
<1>2. Longer(f, g) /\ File \in Nat /\ g \in FileDoc /\ pc = "lines" /\ File \in DOMAIN files
  BY <1>1, TakeGrows
<1>3. /\ HasLogical(f) /\ stanza = StanzaAt(f, Len(f.lines) + 1)
      /\ DocMeans(doc, f, File, Closed(f)) /\ NamesMean(doc, f)
  BY <1>1, <1>2 DEF LinesInv, Reading, Current
<1>4. /\ doc' = AddEntry(doc, open, value) /\ stanza' = stanza /\ open' = {} /\ raw' = <<>>
  BY DEF Close
<1> HIDE DEF f, g
<1>5. OpenAt(f, File, i, open, raw) /\ Ended(g, i) /\ value = ValueOf(g, File, i)
  BY DEF f, g
<1>6. /\ Reading(g, File, stanza, {}, <<>>)
      /\ i \in PairsOf(g) /\ open = {g.lines[i].name} /\ StanzaAt(g, i) = stanza
      /\ Closed(g) = Closed(f) \cup {i} /\ \A j \in Closed(f) : j < i
  <2>1. PICK n : n = Len(f.lines)
    OBVIOUS
  <2>2. /\ \A current : current = StanzaAt(f, n + 1) => Reading(g, File, current, {}, <<>>)
        /\ i \in PairsOf(g) /\ open = {g.lines[i].name} /\ StanzaAt(g, i) = StanzaAt(f, n + 1)
        /\ Closed(g) = Closed(f) \cup {i} /\ \A j \in Closed(f) : j < i
    BY <1>2, <1>3, <1>5, <2>1, OpenEnds
  <2> QED
    BY <1>3, <2>1, <2>2
<1>7. HasLogical(g) /\ i \in 1..Len(g.lines)
  BY <1>6, MarksType DEF Reading
<1>8. DocMeans(doc, g, File, Closed(f))
  BY <1>2, <1>3, DocGrows
<1>9. NamesMean(doc, g)
  <2>1. HeadersOf(g) = HeadersOf(f)
    <3>1. PICK n : n = Len(f.lines)
      OBVIOUS
    <3> QED
      BY <1>2, <1>3, <1>5, <3>1, OpenStays
  <2>2. \A j \in HeadersOf(f) : g.lines[j] = f.lines[j]
    BY <1>2, <1>3, MarksType DEF Longer
  <2> QED
    BY <1>3, <2>1, <2>2 DEF NamesMean, HeaderNames
<1>10. g.lines[i].name \in Key
  <2>1. g.lines[i].name \in open /\ open \in SUBSET Key
    BY <1>1, <1>6 DEF TypeOK
  <2> QED
    BY <2>1
<1>11. \A j \in Closed(f) : j \in Nat
  BY <1>3, MarksType DEF Closed
<1>12. value \in Seq(Nat \X Nat)
  BY <1>2, <1>5, <1>7, ValueBegins
<1>13. WellFormed(doc, stanza, Limit)
  BY <1>1 DEF ParserInv
<1>14. DocMeans(doc', g, File, Closed(g)) /\ NamesMean(doc', g)
  <2>1. PICK k \in Key : k = g.lines[i].name
    BY <1>10
  <2>2. /\ DocMeans(AddEntry(doc, {k}, value), g, File, Closed(f) \cup {i})
        /\ NamesMean(doc, g) => NamesMean(AddEntry(doc, {k}, value), g)
    BY <1>1, <1>2, <1>5, <1>6, <1>7, <1>8, <1>11, <1>12, <1>13, <2>1, DocAdds
  <2> QED
    BY <1>4, <1>6, <1>9, <2>1, <2>2
<1>15. Reading(g, File, stanza', open', raw')
  BY <1>4, <1>6
<1> QED
  BY <1>1, <1>7, <1>14, <1>15, ReadStill DEF g

LEMMA ReadingNow ==
    ASSUME ParserInv, LinesInv, NEW line \in Line, Take(line)
    PROVE  /\ Reading(Current, File, stanza, open, raw) /\ HasLogical(Current)
           /\ DocMeans(doc, Current, File, Closed(Current)) /\ NamesMean(doc, Current)
           /\ Len(raw) = multiline /\ multiline <= Current.limit
           /\ raw \in Seq(Nat \X Nat) /\ doc \in Seq(StanzaDoc) /\ stanza \in Stanza
           /\ WellFormed(doc, stanza, Limit)
<1>1. TypeOK
  BY DEF ParserInv
<1>2. pc = "lines" /\ doc # <<>> /\ File \in DOMAIN files /\ Limit = Current.limit
  BY <1>1, TakeGrows
<1> QED
  BY <1>1, <1>2 DEF LinesInv, ParserInv, TypeOK, Current

\* An open value, the line it began with and how much of it there is.
LEMMA OpenNow ==
    ASSUME ParserInv, LinesInv, NEW line \in Line, Take(line), open # {}
    PROVE  \E i : OpenAt(Current, File, i, open, raw)
                  /\ multiline = Len(Current.lines) - i + 1
<1>1. PICK i \in PairsOf(Current) : OpenAt(Current, File, i, open, raw)
  BY ReadingNow DEF Reading
<1>2. TypeOK /\ Len(raw) = multiline
  BY DEF ParserInv
<1>3. PICK n : n = Len(Current.lines)
  OBVIOUS
<1>4. n \in Nat /\ i \in 1..n
  BY <1>1, <1>2, <1>3, TakeGrows, ReadingNow, OpenStays
<1>5. raw = [j \in 1..(n - i + 1) |-> <<File, i + j - 1>>]
  BY <1>1, <1>3 DEF OpenAt
<1>6. PICK c \in Nat : c = n - i + 1
  BY <1>4
<1>7. Len([j \in 1..c |-> <<File, i + j - 1>>]) = c
  OBVIOUS
<1>8. multiline = n - i + 1
  BY <1>2, <1>5, <1>6, <1>7
<1> QED
  BY <1>1, <1>3, <1>8

\* The value that is open means the lines read so far if they are all it may have ...
LEMMA RawIs ==
    ASSUME ParserInv, LinesInv, NEW line \in Line, Take(line),
           NEW i, OpenAt(Current, File, i, open, raw), multiline = Len(Current.lines) - i + 1,
           multiline >= Limit
    PROVE  Ended(Current', i) /\ raw = ValueOf(Current', File, i)
<1> DEFINE f == Current
           g == Current'
<1>1. PICK n : n = Len(f.lines)
  OBVIOUS
<1>2. Longer(f, g) /\ Limit = f.limit /\ g \in FileDoc /\ HasLogical(f) /\ multiline <= f.limit
  BY TakeGrows, ReadingNow DEF ParserInv
<1> HIDE DEF f, g
<1>3. OpenAt(f, File, i, open, raw) /\ multiline = n - i + 1
  BY <1>1 DEF f
<1>4. g.limit = f.limit /\ f.limit \in Nat /\ Len(g.lines) = n + 1
  BY <1>1, <1>2, FileType DEF Longer
<1>5. n \in Nat /\ i \in 1..n /\ LastOf(g, i) = n + 1
      /\ (Ended(g, i) <=> n + 1 = i + f.limit \/ ~g.lines[n + 1].more)
  BY <1>1, <1>2, <1>3, OpenLine
<1>6. n + 1 = i + f.limit
  BY <1>2, <1>3, <1>4, <1>5
<1>7. i \in 1..Len(g.lines) /\ n = i + g.limit - 1 /\ n <= LastOf(g, i)
  BY <1>4, <1>5, <1>6
<1>8. ValueOf(g, File, i) = [j \in 1..(n - i + 1) |-> <<File, i + j - 1>>]
  BY <1>2, <1>5, <1>7, ValueIs
<1>9. raw = [j \in 1..(n - i + 1) |-> <<File, i + j - 1>>]
  BY <1>1, <1>3 DEF OpenAt
<1> QED
  BY <1>5, <1>6, <1>8, <1>9 DEF f, g

\* ... and with the new line if it is the last.
LEMMA RawAndLineAre ==
    ASSUME ParserInv, LinesInv, NEW line \in Line, Take(line),
           NEW i, OpenAt(Current, File, i, open, raw), multiline = Len(Current.lines) - i + 1,
           multiline < Limit
    PROVE  /\ Ended(Current', i) <=> ~line.more
           /\ ~line.more => Append(raw, Here) = ValueOf(Current', File, i)
<1> DEFINE f == Current
           g == Current'
<1>1. PICK n : n = Len(f.lines)
  OBVIOUS
<1>2. Longer(f, g) /\ Limit = f.limit /\ g \in FileDoc /\ HasLogical(f)
      /\ g.lines[n + 1] = line /\ Here = <<File, n + 1>>
  BY <1>1, TakeGrows, ReadingNow DEF ParserInv
<1> HIDE DEF f, g
<1>3. OpenAt(f, File, i, open, raw) /\ multiline = n - i + 1
  BY <1>1 DEF f
<1>4. g.limit = f.limit /\ f.limit \in Nat /\ Len(g.lines) = n + 1
  BY <1>1, <1>2, FileType DEF Longer
<1>5. n \in Nat /\ i \in 1..n /\ LastOf(g, i) = n + 1
      /\ (Ended(g, i) <=> n + 1 = i + f.limit \/ ~line.more)
  BY <1>1, <1>2, <1>3, OpenLine
<1>6. n + 1 < i + f.limit
  BY <1>2, <1>3, <1>4, <1>5
<1>7. Ended(g, i) <=> ~line.more
  BY <1>4, <1>5, <1>6
<1>8. ASSUME ~line.more PROVE Append(raw, Here) = ValueOf(g, File, i)
  <2>1. i \in 1..Len(g.lines) /\ LastOf(g, i) = n + 1 /\ n + 1 <= i + g.limit - 1 /\ n + 1 \in Nat
    BY <1>4, <1>5, <1>6
  <2>2. ValueOf(g, File, i) = [j \in 1..(n + 1 - i + 1) |-> <<File, i + j - 1>>]
    <3>1. PICK l \in Nat : l = n + 1
      BY <2>1
    <3>2. ValueOf(g, File, i) = [j \in 1..(l - i + 1) |-> <<File, i + j - 1>>]
      BY <1>2, <2>1, <3>1, ValueIs
    <3>3. l - i + 1 = n + 1 - i + 1
      BY <1>5, <3>1
    <3> QED
      BY <3>2, <3>3
  <2>3. raw = [j \in 1..(n - i + 1) |-> <<File, i + j - 1>>]
    BY <1>1, <1>3 DEF OpenAt
  <2>4. Append(raw, Here) = [j \in 1..(n + 1 - i + 1) |-> <<File, i + j - 1>>]
    BY <1>2, <1>5, <2>3, Extends
  <2> QED
    BY <2>2, <2>4
<1> QED
  BY <1>7, <1>8 DEF f, g

LEMMA InitReads == Init => LinesInv
  BY DEF Init, LinesInv

LEMMA OpenFileReads == ASSUME ParserInv, LinesInv, OpenFile PROVE LinesInv'
<1> DEFINE f == [lines |-> <<>>, limit |-> maxMultilineLines]
           s == [name |-> "default", entries |-> <<>>]
<1>1. TypeOK
  BY DEF ParserInv
<1>2. f \in FileDoc /\ Len(f.lines) = 0
  BY <1>1, ConfParserAssumption DEF TypeOK, ConfParserAssumption, FileDoc
<1>3. s.name = "default" /\ DOMAIN s.entries = {}
  OBVIOUS
<1>4. pc = "files" /\ pc' = "lines" /\ files' = Append(files, f) /\ doc' = <<s>> /\ stanza' = "default"
      /\ UNCHANGED <<open, raw>>
  BY DEF OpenFile
<1> HIDE DEF f, s
<1>5. files \in Seq(FileDoc)
  BY <1>1, FilesType
<1>6. /\ DOMAIN files' = DOMAIN files \cup {Len(files')} /\ files'[Len(files')] = f
      /\ \A x \in DOMAIN files : files'[x] = files[x]
  BY <1>2, <1>4, <1>5
<1>7. Current' = f
  BY <1>6 DEF Current, File
<1>8. HasLogical(f) /\ LogicalLines(f) = {}
  BY <1>2, LogicalEmpty
<1>9. HeadersOf(f) = {} /\ PairsOf(f) = {}
  BY <1>8 DEF HeadersOf, PairsOf
<1>10. \A x \in DOMAIN files' : HasLogical(files'[x])
  BY <1>6, <1>8 DEF LinesInv
<1>11. open' = {}
  BY <1>1, <1>4 DEF TypeOK
<1>12. StanzaAt(f, 1) = "default"
  BY <1>2, <1>8, <1>9, StanzaAtIs
<1>13. Reading(f, File', stanza', open', raw')
  <2>1. Len(f.lines) + 1 = 1
    BY <1>2
  <2> QED
    BY <1>2, <1>4, <1>8, <1>11, <1>12, <2>1 DEF Reading, Begins
<1>14. DOMAIN <<s>> = {1} /\ <<s>>[1] = s
  OBVIOUS
<1>15. DocMeans(<<s>>, f, File', Closed(f))
  BY <1>3, <1>9, <1>14 DEF DocMeans, Closed
<1>16. NamesMean(<<s>>, f)
  BY <1>3, <1>9, <1>14 DEF NamesMean, HeaderNames
<1> QED
  BY <1>4, <1>7, <1>10, <1>13, <1>15, <1>16 DEF LinesInv

LEMMA EndFileReads == ASSUME ParserInv, LinesInv, EndFile PROVE LinesInv'
<1> DEFINE f == Current
<1>1. TypeOK /\ pc = "lines" /\ doc # <<>> /\ files # <<>>
  BY DEF ParserInv, TypeOK, EndFile
<1>2. /\ pc' = "merge" /\ doc' = AddEntry(doc, open, raw) /\ UNCHANGED <<files, stanza>>
  BY DEF EndFile, Close, history
<1>3. /\ f \in FileDoc /\ File \in Nat /\ File \in DOMAIN files
      /\ raw \in Seq(Nat \X Nat) /\ stanza \in Stanza /\ open \in SUBSET Key
  BY <1>1, FilesType DEF TypeOK
<1>4. Reading(f, File, stanza, open, raw) /\ DocMeans(doc, f, File, Closed(f)) /\ NamesMean(doc, f)
      /\ WellFormed(doc, stanza, Limit)
  BY <1>1 DEF LinesInv, ParserInv
<1>5. f' = f /\ File' = File
  BY <1>2 DEF Current, File
<1> HIDE DEF f
<1>6. HasLogical(f) /\ PairsOf(f) \subseteq LogicalLines(f) /\ LogicalLines(f) \subseteq 1..Len(f.lines)
  BY <1>4, MarksType DEF Reading
<1>7. DocMeans(doc', f, File, PairsOf(f)) /\ NamesMean(doc', f)
  <2>1. CASE open = {}
    <3>1. doc' = doc
      BY <1>2, <2>1 DEF AddEntry
    <3>2. Closed(f) = PairsOf(f)
      BY <1>4, <1>6, <2>1 DEF Reading, Closed
    <3> QED
      BY <1>4, <3>1, <3>2
  <2>2. CASE open # {}
    <3>1. PICK i \in PairsOf(f) : OpenAt(f, File, i, open, raw)
      BY <1>4, <2>2 DEF Reading
    <3>2. PICK n : n = Len(f.lines)
      OBVIOUS
    <3>3. n \in Nat /\ i \in 1..n /\ f.limit \in Nat /\ f.limit > 0
      BY <1>3, <1>6, <3>2, FileType
    <3>4. ~Ended(f, i) /\ open = {f.lines[i].name}
          /\ raw = [j \in 1..(n - i + 1) |-> <<File, i + j - 1>>]
          /\ \A j \in LogicalLines(f) \ {i} : Ended(f, j) /\ LastOf(f, j) < i
      BY <3>1, <3>2 DEF OpenAt
    <3>5. LastOf(f, i) = n /\ n <= i + f.limit - 1
      <4>1. LastOf(f, i) = n
        BY <1>3, <3>2, <3>3, <3>4, LastOfIs
      <4>2. ~(i + f.limit <= n)
        BY <3>2, <3>4 DEF Ended
      <4> QED
        BY <3>3, <4>1, <4>2
    <3>6. raw = ValueOf(f, File, i)
      <4>1. ValueOf(f, File, i) = [j \in 1..(n - i + 1) |-> <<File, i + j - 1>>]
        BY <1>3, <3>2, <3>3, <3>5, ValueIs
      <4> QED
        BY <3>4, <4>1
    <3>7. \A j \in Closed(f) : j \in Nat /\ j < i
      <4> SUFFICES ASSUME NEW j \in Closed(f) PROVE j \in Nat /\ j < i
        OBVIOUS
      <4>1. j \in LogicalLines(f) \ {i} /\ j \in 1..n
        BY <1>6, <3>2, <3>4 DEF Closed
      <4>2. LastOf(f, j) \in j..n /\ LastOf(f, j) < i
        BY <1>3, <3>2, <3>4, <4>1, LastOfIs
      <4> QED
        BY <3>3, <4>1, <4>2
    <3>8. stanza = StanzaAt(f, i)
      <4>1. stanza = StanzaAt(f, n + 1)
        BY <1>4, <3>2 DEF Reading
      <4>2. \A j \in HeadersOf(f) : j \in LogicalLines(f) \ {i} /\ j \in 1..n
        BY <1>6, <3>1, <3>2, MarksType DEF HeadersOf, PairsOf
      <4>3. \A j \in HeadersOf(f) : j < n + 1 /\ j < i
        <5> SUFFICES ASSUME NEW j \in HeadersOf(f) PROVE j < n + 1 /\ j < i
          OBVIOUS
        <5>1. j \in LogicalLines(f) \ {i} /\ j \in 1..n
          BY <4>2
        <5>2. LastOf(f, j) \in j..n /\ LastOf(f, j) < i
          BY <1>3, <3>2, <3>4, <5>1, LastOfIs
        <5> QED
          BY <3>3, <5>1, <5>2
      <4>4. {j \in HeadersOf(f) : j < i} = {j \in HeadersOf(f) : j < n + 1}
        BY <4>3
      <4> QED
        BY <1>3, <1>6, <4>1, <4>4, StanzaAtSame
    <3>9. PICK k \in Key : k = f.lines[i].name
      BY <1>3, <3>4
    <3>10. /\ DocMeans(AddEntry(doc, {k}, raw), f, File, Closed(f) \cup {i})
           /\ NamesMean(doc, f) => NamesMean(AddEntry(doc, {k}, raw), f)
      BY <1>3, <1>4, <3>2, <3>3, <3>6, <3>7, <3>8, <3>9, DocAdds
    <3>11. Closed(f) \cup {i} = PairsOf(f)
      BY <1>6, <3>1, <3>4 DEF Closed
    <3> QED
      BY <1>2, <1>4, <3>4, <3>9, <3>10, <3>11
  <2> QED
    BY <2>1, <2>2
<1> QED
  BY <1>2, <1>5, <1>7 DEF LinesInv, f

LEMMA AtLimitReads == ASSUME ParserInv, LinesInv, NEW line \in Line, AtLimit(line) PROVE LinesInv'
<1>1. Take(line) /\ Close(raw) /\ open # {} /\ multiline >= Limit
  BY DEF AtLimit
<1>2. PICK i : OpenAt(Current, File, i, open, raw) /\ multiline = Len(Current.lines) - i + 1
  BY <1>1, OpenNow
<1>3. Ended(Current', i) /\ raw = ValueOf(Current', File, i)
  BY <1>1, <1>2, RawIs
<1> QED
  BY <1>1, <1>2, <1>3, CloseReads

LEMMA ContinueReads == ASSUME ParserInv, LinesInv, NEW line \in Line, Continue(line) PROVE LinesInv'
<1>1. Take(line) /\ open # {} /\ multiline < Limit /\ TypeOK
  BY DEF Continue, ParserInv
<1>2. PICK i : OpenAt(Current, File, i, open, raw) /\ multiline = Len(Current.lines) - i + 1
  BY <1>1, OpenNow
<1>3. /\ Ended(Current', i) <=> ~line.more
      /\ ~line.more => Append(raw, Here) = ValueOf(Current', File, i)
  BY <1>1, <1>2, RawAndLineAre
<1>4. CASE ~line.more
  <2>1. Close(Append(raw, Here))
    BY <1>4 DEF Continue
  <2> QED
    BY <1>1, <1>2, <1>3, <1>4, <2>1, CloseReads
<1>5. CASE line.more
  <2> DEFINE f == Current
             g == Current'
  <2>1. raw' = Append(raw, Here) /\ UNCHANGED <<doc, stanza, open>>
    BY <1>5 DEF Continue
  <2>2. PICK n : n = Len(f.lines)
    OBVIOUS
  <2>3. Longer(f, g) /\ Here = <<File, n + 1>>
    BY <1>1, <2>2, TakeGrows
  <2>4. /\ HasLogical(f) /\ DocMeans(doc, f, File, Closed(f)) /\ NamesMean(doc, f)
        /\ stanza = StanzaAt(f, n + 1)
    BY <1>1, <2>2, ReadingNow DEF Reading
  <2>5. OpenAt(f, File, i, open, raw) /\ ~Ended(g, i)
    BY <1>2, <1>3, <1>5
  <2> HIDE DEF f, g
  <2>6. OpenAt(g, File, i, open, raw') /\ Closed(g) = Closed(f)
    BY <2>1, <2>2, <2>3, <2>4, <2>5, OpenContinues
  <2>7. /\ n \in Nat /\ HasLogical(g) /\ PairsOf(g) = PairsOf(f) /\ HeadersOf(g) = HeadersOf(f)
        /\ StanzaAt(g, n + 2) = StanzaAt(f, n + 1)
    BY <2>2, <2>3, <2>4, <2>5, OpenStays
  <2>8. Len(g.lines) + 1 = n + 2
    BY <2>2, <2>3, <2>7 DEF Longer
  <2>9. i \in PairsOf(g)
    BY <2>6 DEF OpenAt
  <2>10. Reading(g, File, stanza', open', raw')
    BY <1>1, <2>1, <2>4, <2>6, <2>7, <2>8, <2>9 DEF Reading
  <2>11. DocMeans(doc', g, File, Closed(g))
    BY <2>1, <2>3, <2>4, <2>6, DocGrows
  <2>12. NamesMean(doc', g)
    <3>1. \A j \in HeadersOf(f) : g.lines[j] = f.lines[j]
      BY <2>3, <2>4, MarksType DEF Longer
    <3> QED
      BY <2>1, <2>4, <2>7, <3>1 DEF NamesMean, HeaderNames
  <2> QED
    BY <1>1, <2>7, <2>10, <2>11, <2>12, ReadStill DEF g
<1> QED
  BY <1>4, <1>5

LEMMA LineType ==
    ASSUME NEW line \in Line
    PROVE  /\ line.kind \in {"header", "spaced", "pair", "other"}
           /\ line.kind = "header" => line.name \in Stanza
           /\ line.kind = "pair" => line.name \in Key
  BY DEF Line

\* What holds of a line outside of a value.
LEMMA Outside ==
    ASSUME ParserInv, LinesInv, NEW line \in Line, Take(line), open = {}
    PROVE  \E f, g : /\ f = Current /\ g = Current' /\ Longer(f, g) /\ HasLogical(f) /\ g \in FileDoc
                     /\ g.lines[Len(f.lines) + 1] = line
                     /\ Here = <<File, Len(f.lines) + 1>>
                     /\ Len(g.lines) = Len(f.lines) + 1
                     /\ Reading(f, File, stanza, {}, raw) /\ Begins(f)
                     /\ DocMeans(doc, g, File, Closed(f)) /\ NamesMean(doc, f)
<1>1. TypeOK
  BY DEF ParserInv
<1> DEFINE f == Current
           g == Current'
<1>2. /\ Longer(f, g) /\ g \in FileDoc /\ g.lines[Len(f.lines) + 1] = line
      /\ Here = <<File, Len(f.lines) + 1>>
  BY <1>1, TakeGrows
<1>3. Reading(f, File, stanza, {}, raw) /\ DocMeans(doc, f, File, Closed(f)) /\ NamesMean(doc, f)
  BY ReadingNow
<1> HIDE DEF f, g
<1>4. HasLogical(f) /\ Begins(f)
  BY <1>3 DEF Reading
<1>5. DocMeans(doc, g, File, Closed(f))
  BY <1>2, <1>3, <1>4, DocGrows
<1>6. Len(g.lines) = Len(f.lines) + 1
  BY <1>2 DEF Longer
<1> QED
  BY <1>2, <1>3, <1>4, <1>5, <1>6 DEF f, g

LEMMA OtherReads == ASSUME ParserInv, LinesInv, NEW line \in Line, Other(line) PROVE LinesInv'
<1>1. /\ Take(line) /\ open = {} /\ line.kind \in {"other", "spaced"} /\ TypeOK
      /\ UNCHANGED <<doc, stanza, open, raw>>
  BY DEF Other, ParserInv, parser
<1>2. PICK f, g : /\ f = Current /\ g = Current' /\ Longer(f, g) /\ HasLogical(f)
                  /\ g.lines[Len(f.lines) + 1] = line
                  /\ Reading(f, File, stanza, {}, raw) /\ Begins(f)
                  /\ DocMeans(doc, g, File, Closed(f)) /\ NamesMean(doc, f)
  BY <1>1, Outside
<1>3. PICK n : n = Len(f.lines)
  OBVIOUS
<1>4. g.lines[n + 1] = line /\ line.kind # "pair" /\ line.kind # "header"
  BY <1>1, <1>2, <1>3
<1>5. ~Multi(g, n + 1)
  BY <1>4 DEF Multi
<1>6. Reading(g, File, stanza, {}, raw)
  <2>1. Reading(g, File, IF g.lines[n + 1].kind = "header" THEN g.lines[n + 1].name ELSE stanza, {}, raw)
    BY <1>2, <1>3, <1>5, OneLine
  <2> QED
    BY <1>4, <2>1
<1>7. Closed(g) = Closed(f) /\ HasLogical(g)
  <2>1. /\ HasLogical(g)
        /\ Closed(g) = Closed(f) \cup IF g.lines[n + 1].kind = "pair" /\ ~Multi(g, n + 1)
                                      THEN {n + 1} ELSE {}
    BY <1>2, <1>3, NextBegins
  <2> QED
    BY <1>4, <2>1
<1>8. NamesMean(doc, g)
  <2>1. HeaderNames(g) = HeaderNames(f)
    BY <1>2, <1>3, <1>4, NamesGrow
  <2> QED
    BY <1>2, <2>1 DEF NamesMean
<1> QED
  BY <1>1, <1>2, <1>6, <1>7, <1>8, ReadStill

LEMMA HeaderReads == ASSUME ParserInv, LinesInv, NEW line \in Line, Header(line) PROVE LinesInv'
<1>1. /\ Take(line) /\ open = {} /\ line.kind = "header" /\ TypeOK
      /\ stanza' = line.name /\ UNCHANGED <<open, raw>>
      /\ doc' = IF StanzaIndex(doc, line.name) > 0 THEN doc
                ELSE Append(doc, [name |-> line.name, entries |-> <<>>])
  BY DEF Header, ParserInv
<1>2. PICK f, g : /\ f = Current /\ g = Current' /\ Longer(f, g) /\ HasLogical(f)
                  /\ g.lines[Len(f.lines) + 1] = line
                  /\ Reading(f, File, stanza, {}, raw) /\ Begins(f)
                  /\ DocMeans(doc, g, File, Closed(f)) /\ NamesMean(doc, f)
  BY <1>1, Outside
<1>3. PICK n : n = Len(f.lines)
  OBVIOUS
<1>4. g.lines[n + 1] = line /\ line.kind # "pair" /\ line.name \in Stanza
  BY <1>1, <1>2, <1>3, LineType
<1>5. ~Multi(g, n + 1)
  BY <1>4 DEF Multi
<1>6. Reading(g, File, line.name, {}, raw)
  <2>1. Reading(g, File, IF g.lines[n + 1].kind = "header" THEN g.lines[n + 1].name ELSE stanza, {}, raw)
    BY <1>2, <1>3, <1>5, OneLine
  <2> QED
    BY <1>1, <1>4, <2>1
<1>7. Closed(g) = Closed(f) /\ HasLogical(g)
  <2>1. /\ HasLogical(g)
        /\ Closed(g) = Closed(f) \cup IF g.lines[n + 1].kind = "pair" /\ ~Multi(g, n + 1)
                                      THEN {n + 1} ELSE {}
    BY <1>2, <1>3, NextBegins
  <2> QED
    BY <1>4, <2>1
<1>8. HeaderNames(g) = HeaderNames(f) \cup {line.name}
  <2>1. HeaderNames(g) = HeaderNames(f)
          \cup IF Begins(f) /\ g.lines[n + 1].kind = "header" THEN {g.lines[n + 1].name} ELSE {}
    BY <1>2, <1>3, NamesGrow
  <2> QED
    BY <1>1, <1>2, <1>4, <2>1
<1>9. doc \in Seq(StanzaDoc)
  BY <1>1, ReadingNow
<1>10. DocMeans(doc', g, File, Closed(g)) /\ NamesMean(doc', g)
  <2>1. CASE HasStanza(doc, line.name)
    <3>1. doc' = doc
      BY <1>1, <1>9, <2>1, StanzaIndexFinds
    <3>2. line.name \in {doc[a].name : a \in DOMAIN doc}
      BY <2>1 DEF HasStanza
    <3>3. {doc[a].name : a \in DOMAIN doc} = {"default"} \cup HeaderNames(g)
      BY <1>2, <1>8, <3>2 DEF NamesMean
    <3> QED
      BY <1>2, <1>7, <3>1, <3>3 DEF NamesMean
  <2>2. CASE ~HasStanza(doc, line.name)
    <3>1. doc' = Append(doc, [name |-> line.name, entries |-> <<>>])
      BY <1>1, <1>9, <2>2, StanzaIndexFinds
    <3>2. /\ DocMeans(doc', g, File, Closed(f))
          /\ {doc'[a].name : a \in DOMAIN doc'} = {doc[a].name : a \in DOMAIN doc} \cup {line.name}
      BY <1>2, <1>4, <1>9, <3>1, DocAppends
    <3>3. {doc'[a].name : a \in DOMAIN doc'} = {"default"} \cup HeaderNames(g)
      BY <1>2, <1>8, <3>2 DEF NamesMean
    <3> QED
      BY <1>7, <3>2, <3>3 DEF NamesMean
  <2> QED
    BY <2>1, <2>2
<1> QED
  BY <1>1, <1>2, <1>6, <1>7, <1>10, ReadStill

LEMMA PairReads == ASSUME ParserInv, LinesInv, NEW line \in Line, Pair(line) PROVE LinesInv'
<1>1. Take(line) /\ open = {} /\ line.kind = "pair" /\ TypeOK
  BY DEF Pair, ParserInv
<1>2. PICK f, g : /\ f = Current /\ g = Current' /\ Longer(f, g) /\ HasLogical(f) /\ g \in FileDoc
                  /\ g.lines[Len(f.lines) + 1] = line
                  /\ Here = <<File, Len(f.lines) + 1>> /\ Len(g.lines) = Len(f.lines) + 1
                  /\ Reading(f, File, stanza, {}, raw) /\ Begins(f)
                  /\ DocMeans(doc, g, File, Closed(f)) /\ NamesMean(doc, f)
  BY <1>1, Outside
<1>3. PICK n : n = Len(f.lines)
  OBVIOUS
<1>4. g.lines[n + 1] = line /\ line.kind # "header" /\ line.name \in Key /\ Here = <<File, n + 1>>
  BY <1>1, <1>2, <1>3, LineType
<1>5. /\ n \in Nat /\ HasLogical(g) /\ StanzaAt(g, n + 1) = stanza
      /\ Closed(g) = Closed(f) \cup IF ~Multi(g, n + 1) THEN {n + 1} ELSE {}
      /\ LastOf(g, n + 1) = n + 1
      /\ \A j \in LogicalLines(f) : j < n + 1
      /\ Closed(f) \subseteq LogicalLines(f)
  BY <1>1, <1>2, <1>3, <1>4, NextBegins
<1>6. NamesMean(doc, g)
  <2>1. HeaderNames(g) = HeaderNames(f)
    BY <1>2, <1>3, <1>4, NamesGrow
  <2> QED
    BY <1>2, <2>1 DEF NamesMean
<1>7. Multi(g, n + 1) <=> line.more
  BY <1>1, <1>4 DEF Multi
<1>8. CASE line.more
  <2>1. open' = {line.name} /\ raw' = <<Here>> /\ UNCHANGED <<doc, stanza>>
    BY <1>8 DEF Pair
  <2>2. Reading(g, File, stanza, {g.lines[n + 1].name}, <<<<File, n + 1>>>>)
    BY <1>2, <1>3, <1>7, <1>8, FirstLine
  <2>3. Reading(g, File, stanza', open', raw')
    BY <1>4, <2>1, <2>2
  <2>4. Closed(g) = Closed(f)
    BY <1>5, <1>7, <1>8
  <2> QED
    BY <1>1, <1>2, <1>5, <1>6, <2>1, <2>3, <2>4, ReadStill
<1>9. CASE ~line.more
  <2>1. doc' = AddEntry(doc, {line.name}, <<Here>>) /\ UNCHANGED <<stanza, open, raw>>
    BY <1>9 DEF Pair
  <2>2. Reading(g, File, stanza, {}, raw)
    <3>1. Reading(g, File, IF g.lines[n + 1].kind = "header" THEN g.lines[n + 1].name ELSE stanza, {}, raw)
      BY <1>2, <1>3, <1>7, <1>9, OneLine
    <3> QED
      BY <1>4, <3>1
  <2>3. Closed(g) = Closed(f) \cup {n + 1}
    BY <1>5, <1>7, <1>9
  <2>4. PICK i : i = n + 1 /\ i \in 1..Len(g.lines) /\ i \in Nat
    BY <1>2, <1>3, <1>5
  <2>5. ValueOf(g, File, i) = <<Here>>
    <3>1. g.limit \in Nat /\ g.limit > 0
      BY <1>2, FileType
    <3>2. LastOf(g, i) = i /\ i <= i + g.limit - 1
      BY <1>5, <2>4, <3>1
    <3>3. ValueOf(g, File, i) = [j \in 1..(i - i + 1) |-> <<File, i + j - 1>>]
      BY <1>2, <2>4, <3>2, ValueIs
    <3>4. i - i + 1 = 1 /\ i + 1 - 1 = i
      BY <2>4
    <3>5. [j \in 1..1 |-> <<File, i + j - 1>>] = <<<<File, i + 1 - 1>>>>
      OBVIOUS
    <3> QED
      BY <1>4, <2>4, <3>3, <3>4, <3>5
  <2>6. <<Here>> \in Seq(Nat \X Nat)
    BY <1>1, TakeKeeps
  <2>7. \A j \in Closed(f) : j \in Nat /\ j < i
    <3>1. LogicalLines(f) \subseteq Nat
      BY <1>2, MarksType
    <3> QED
      BY <1>5, <2>4, <3>1
  <2>8. WellFormed(doc, stanza, Limit) /\ stanza \in Stanza
    BY <1>1, ReadingNow
  <2>9. PICK k \in Key : k = g.lines[i].name /\ k = line.name
    BY <1>4, <2>4
  <2>10. PICK v \in Seq(Nat \X Nat) : v = ValueOf(g, File, i) /\ v = <<Here>>
    BY <2>5, <2>6
  <2>11. /\ DocMeans(AddEntry(doc, {k}, v), g, File, Closed(f) \cup {i})
         /\ NamesMean(doc, g) => NamesMean(AddEntry(doc, {k}, v), g)
    BY <1>2, <1>5, <2>4, <2>7, <2>8, <2>9, <2>10, DocAdds
  <2>12. DocMeans(doc', g, File, Closed(g)) /\ NamesMean(doc', g)
    BY <1>6, <2>1, <2>3, <2>4, <2>9, <2>10, <2>11
  <2>13. Reading(g, File, stanza', open', raw')
    BY <1>1, <2>1, <2>2
  <2> QED
    BY <1>1, <1>2, <1>5, <2>12, <2>13, ReadStill
<1> QED
  BY <1>8, <1>9

LEMMA NextReads == ParserInv /\ LinesInv /\ [Next]_vars => LinesInv'
<1> SUFFICES ASSUME ParserInv, LinesInv, [Next]_vars PROVE LinesInv'
  OBVIOUS
<1>t. TypeOK
  BY DEF ParserInv
<1>1. CASE UNCHANGED <<files, pc, doc, stanza, open, raw>>
  BY <1>1 DEF LinesInv, Current, File
<1>2. ASSUME NEW n \in LimitArg, SetMaxMultilineLines(n) PROVE LinesInv'
  BY <1>1, <1>2 DEF SetMaxMultilineLines, parser, merge, history
<1>3. ASSUME OpenFails \/ Return PROVE LinesInv'
  <2>1. pc = "files" /\ pc' \notin {"lines", "merge"} /\ UNCHANGED <<files, doc>>
    BY <1>3 DEF OpenFails, Return, parser, merge, history
  <2>2. doc = <<>>
    BY <1>t, <2>1 DEF TypeOK
  <2> QED
    BY <2>1, <2>2 DEF LinesInv
<1>4. ASSUME MergeStanza \/ MergeEntry PROVE LinesInv'
  BY <1>1, <1>4 DEF MergeStanza, MergeEntry, parser, merge, history
<1>5. ASSUME MergeDone PROVE LinesInv'
  BY <1>5 DEF MergeDone, LinesInv, history
<1>6. ASSUME UNCHANGED vars PROVE LinesInv'
  BY <1>1, <1>6 DEF vars, parser, merge, history
<1> QED
  BY <1>2, <1>3, <1>4, <1>5, <1>6, OpenFileReads, EndFileReads, AtLimitReads, ContinueReads,
     OtherReads, HeaderReads, PairReads DEF Next

----------------------------------------------------------------------------
(* The dictionary.  Of several places one wins, and with a place more after *)
(* all the others it is that place or the winner of old.                   *)

\* Places of finitely many files, each with finitely many lines.
Bounded(P) ==
    /\ P \subseteq Nat \X Nat
    /\ \E n \in Nat : \A p \in P : p[1] <= n
    /\ \A x \in Nat : \E c \in Nat : \A p \in P : p[1] = x => p[2] <= c

\* w comes before every other place of P, or after.
Wins(w, P) ==
    /\ w \in P
    /\ \A q \in P \ {w} : IF precedence = "FirstWins" THEN Before(w, q) ELSE Before(q, w)

LEMMA PlaceType ==
    ASSUME NEW P, Bounded(P), NEW p \in P
    PROVE  p[1] \in Nat /\ p[2] \in Nat /\ p = <<p[1], p[2]>>
  BY DEF Bounded

LEMMA SubsetBounded ==
    ASSUME NEW P, Bounded(P), NEW Q \in SUBSET P PROVE Bounded(Q)
  BY DEF Bounded

LEMMA OneWins ==
    ASSUME NEW P, Bounded(P), NEW v, NEW w, Wins(v, P), Wins(w, P)
    PROVE  v = w
<1> SUFFICES ASSUME v # w PROVE FALSE
  OBVIOUS
<1>1. v \in P /\ w \in P
  BY DEF Wins
<1>2. Before(v, w) /\ Before(w, v)
  BY <1>1 DEF Wins
<1>3. v[1] \in Nat /\ v[2] \in Nat /\ w[1] \in Nat /\ w[2] \in Nat
  BY <1>1, PlaceType
<1> QED
  BY <1>2, <1>3 DEF Before

LEMMA SomeWins ==
    ASSUME NEW P, Bounded(P), P # {}
    PROVE  \E w \in P : Wins(w, P)
<1> DEFINE F == {p[1] : p \in P}
           L(x) == {p[2] : p \in {q \in P : q[1] = x}}
<1>1. \A p \in P : p[1] \in Nat /\ p[2] \in Nat /\ p = <<p[1], p[2]>>
  BY PlaceType
<1>2. F \in SUBSET Nat /\ F # {} /\ \A x : L(x) \in SUBSET Nat
  BY <1>1
<1>3. \A x \in F : L(x) # {}
  OBVIOUS
<1>4. CASE precedence = "FirstWins"
  <2>1. PICK x \in F : \A y \in F : x <= y
    <3> HIDE DEF F
    <3> QED
      BY <1>2, LeastExists
  <2>2. PICK l \in L(x) : \A k \in L(x) : l <= k
    <3>1. L(x) \in SUBSET Nat /\ L(x) # {}
      BY <1>2, <1>3
    <3> HIDE DEF L
    <3> QED
      BY <3>1, LeastExists
  <2>3. PICK w \in P : w[1] = x /\ w[2] = l
    OBVIOUS
  <2>4. ASSUME NEW q \in P \ {w} PROVE Before(w, q)
    <3>1. x <= q[1] /\ (q[1] = x => l <= q[2])
      BY <2>1, <2>2
    <3>2. ~(q[1] = x /\ q[2] = l)
      BY <1>1, <2>3
    <3> QED
      BY <1>1, <2>3, <3>1, <3>2 DEF Before
  <2> QED
    BY <1>4, <2>4 DEF Wins
<1>5. CASE precedence # "FirstWins"
  <2>1. PICK x \in F : \A y \in F : y <= x
    <3>1. PICK n \in Nat : \A p \in P : p[1] <= n
      BY DEF Bounded
    <3>2. F \in SUBSET (0..n)
      BY <1>1, <3>1
    <3> HIDE DEF F
    <3> QED
      BY <1>2, <3>2, GreatestExists
  <2>2. PICK l \in L(x) : \A k \in L(x) : k <= l
    <3>1. PICK c \in Nat : \A p \in P : p[1] = x => p[2] <= c
      BY <1>2 DEF Bounded
    <3>2. L(x) \in SUBSET (0..c) /\ L(x) # {}
      BY <1>1, <1>3, <3>1
    <3> HIDE DEF L
    <3> QED
      BY <3>2, GreatestExists
  <2>3. PICK w \in P : w[1] = x /\ w[2] = l
    OBVIOUS
  <2>4. ASSUME NEW q \in P \ {w} PROVE Before(q, w)
    <3>1. q[1] <= x /\ (q[1] = x => q[2] <= l)
      BY <2>1, <2>2
    <3>2. ~(q[1] = x /\ q[2] = l)
      BY <1>1, <2>3
    <3> QED
      BY <1>1, <2>3, <3>1, <3>2 DEF Before
  <2> QED
    BY <1>5, <2>4 DEF Wins
<1> QED
  BY <1>4, <1>5

LEMMA WinnerIs ==
    ASSUME NEW P, Bounded(P), NEW w, Wins(w, P)
    PROVE  Winner(P) = w
<1>1. Winner(P) = CHOOSE p \in P : Wins(p, P)
  <2>1. \A p \in P : Wins(p, P) <=> \A q \in P \ {p} : IF precedence = "FirstWins" THEN Before(p, q)
                                                        ELSE Before(q, p)
    BY DEF Wins
  <2> QED
    BY <2>1 DEF Winner
<1>2. w \in P
  BY DEF Wins
<1>3. Wins(Winner(P), P)
  BY <1>1, <1>2
<1> QED
  BY <1>3, OneWins

LEMMA WinnerIn ==
    ASSUME NEW P, Bounded(P), P # {}
    PROVE  Winner(P) \in P /\ Wins(Winner(P), P)
  BY SomeWins, WinnerIs

\* A place after all the others, too.
LEMMA WinnerGrows ==
    ASSUME NEW P, NEW p, Bounded(P \cup {p}), \A q \in P : Before(q, p)
    PROVE  Winner(P \cup {p}) = IF P # {} /\ precedence = "FirstWins" THEN Winner(P) ELSE p
<1>1. Bounded(P)
  BY SubsetBounded
<1>2. CASE P # {} /\ precedence = "FirstWins"
  <2>1. Wins(Winner(P), P)
    BY <1>1, <1>2, WinnerIn
  <2>2. Wins(Winner(P), P \cup {p})
    BY <1>2, <2>1 DEF Wins
  <2> QED
    BY <1>2, <2>2, WinnerIs
<1>3. CASE P = {}
  <2>1. Wins(p, P \cup {p})
    BY <1>3 DEF Wins
  <2> QED
    BY <1>3, <2>1, WinnerIs
<1>4. CASE precedence # "FirstWins"
  <2>1. Wins(p, P \cup {p})
    BY <1>4 DEF Wins
  <2> QED
    BY <1>4, <2>1, WinnerIs
<1> QED
  BY <1>2, <1>3, <1>4

\* Of the places in M, those of key k in stanza s; what a stanza and all of them mean.
Of(M, s, k) == {p \in In(M, s) : KeyAt(p) = k}
KeysUnder(M, s) == {KeyAt(p) : p \in In(M, s)}
MeansIn(M, s) == [k \in KeysUnder(M, s) |-> ValueAt(Winner(Of(M, s, k)))]
Means(M, names) == [s \in names |-> MeansIn(M, s)]

LEMMA MeaningIs == Meaning = Means(Places, StanzasSeen)
  BY DEF Meaning, Means, MeansIn, KeysUnder, Of

LEMMA MeansNothing == ASSUME NEW M, NEW s, \A p \in M : StanzaOf(p) # s PROVE MeansIn(M, s) = <<>>
<1>1. KeysUnder(M, s) = {}
  BY DEF KeysUnder, In
<1>2. \A f : f = [k \in {} |-> f[k]] => f = <<>>
  OBVIOUS
<1> QED
  BY <1>1, <1>2 DEF MeansIn

\* A place after all the others of its stanza is put in.
LEMMA MeansInAdds ==
    ASSUME NEW M, NEW p, Bounded(M \cup {p}), NEW s, s = StanzaOf(p),
           \A q \in In(M, s) : Before(q, p),
           NEW e, e.key = KeyAt(p), e.value = ValueAt(p)
    PROVE  MeansIn(M \cup {p}, s) = Put(MeansIn(M, s), e)
<1> DEFINE N == M \cup {p}
<1>1. In(N, s) = In(M, s) \cup {p}
  BY DEF In
<1>2. KeysUnder(N, s) = KeysUnder(M, s) \cup {e.key}
  BY <1>1 DEF KeysUnder
<1>3. \A k : Of(N, s, k) = Of(M, s, k) \cup IF k = e.key THEN {p} ELSE {}
  BY <1>1 DEF Of
<1>4. \A k : k \in KeysUnder(M, s) <=> Of(M, s, k) # {}
  BY DEF KeysUnder, Of
<1>5. DOMAIN MeansIn(M, s) = KeysUnder(M, s)
      /\ \A k \in KeysUnder(M, s) : MeansIn(M, s)[k] = ValueAt(Winner(Of(M, s, k)))
  BY DEF MeansIn
<1> HIDE DEF N
<1>6. ASSUME NEW k \in KeysUnder(N, s)
      PROVE  ValueAt(Winner(Of(N, s, k))) =
                IF k # e.key \/ (precedence = "FirstWins" /\ k \in KeysUnder(M, s))
                THEN MeansIn(M, s)[k] ELSE e.value
  <2>1. CASE k # e.key
    <3>1. Of(N, s, k) = Of(M, s, k)
      BY <1>3, <2>1
    <3>2. k \in KeysUnder(M, s)
      BY <1>2, <1>6, <2>1
    <3> QED
      BY <1>5, <2>1, <3>1, <3>2
  <2>2. CASE k = e.key
    <3>1. Of(N, s, k) = Of(M, s, k) \cup {p}
      BY <1>3, <2>2
    <3>2. Of(M, s, k) \cup {p} \subseteq M \cup {p} /\ \A q \in Of(M, s, k) : Before(q, p)
      BY DEF Of, In
    <3>3. Bounded(Of(M, s, k) \cup {p})
      BY <3>2, SubsetBounded
    <3>4. Winner(Of(M, s, k) \cup {p})
             = IF Of(M, s, k) # {} /\ precedence = "FirstWins" THEN Winner(Of(M, s, k)) ELSE p
      BY <3>2, <3>3, WinnerGrows
    <3>5. CASE precedence = "FirstWins" /\ k \in KeysUnder(M, s)
      BY <1>4, <1>5, <2>2, <3>1, <3>4, <3>5
    <3>6. CASE ~(precedence = "FirstWins" /\ k \in KeysUnder(M, s))
      BY <1>4, <2>2, <3>1, <3>4, <3>6
    <3> QED
      BY <3>5, <3>6
  <2> QED
    BY <2>1, <2>2
<1>7. MeansIn(N, s) = [k \in KeysUnder(M, s) \cup {e.key} |->
                         IF k # e.key \/ (precedence = "FirstWins" /\ k \in KeysUnder(M, s))
                         THEN MeansIn(M, s)[k] ELSE e.value]
  BY <1>2, <1>6 DEF MeansIn
<1> QED
  BY <1>5, <1>7 DEF Put, N

LEMMA MeansAdds ==
    ASSUME NEW M, NEW p, Bounded(M \cup {p}), NEW names, NEW s \in names, s = StanzaOf(p),
           \A q \in In(M, s) : Before(q, p),
           NEW e, e.key = KeyAt(p), e.value = ValueAt(p)
    PROVE  Means(M \cup {p}, names) = [Means(M, names) EXCEPT ![s] = Put(@, e)]
<1>1. MeansIn(M \cup {p}, s) = Put(MeansIn(M, s), e)
  BY MeansInAdds
<1>2. ASSUME NEW t, t # s PROVE MeansIn(M \cup {p}, t) = MeansIn(M, t)
  <2>1. In(M \cup {p}, t) = In(M, t)
    BY <1>2 DEF In
  <2>2. KeysUnder(M \cup {p}, t) = KeysUnder(M, t) /\ \A k : Of(M \cup {p}, t, k) = Of(M, t, k)
    BY <2>1 DEF KeysUnder, Of
  <2> QED
    BY <2>2 DEF MeansIn
<1>3. DOMAIN Means(M, names) = names /\ \A t \in names : Means(M, names)[t] = MeansIn(M, t)
  BY DEF Means
<1>4. [Means(M, names) EXCEPT ![s] = Put(@, e)] =
         [t \in names |-> IF t = s THEN Put(MeansIn(M, s), e) ELSE MeansIn(M, t)]
  BY <1>3
<1>5. Means(M \cup {p}, names) = [t \in names |-> IF t = s THEN Put(MeansIn(M, s), e) ELSE MeansIn(M, t)]
  BY <1>1, <1>2 DEF Means
<1> QED
  BY <1>4, <1>5

\* entry().or_default()
OrDefault(d, name) == [s \in DOMAIN d \cup {name} |-> IF s \in DOMAIN d THEN d[s] ELSE <<>>]

\* A stanza that none of the places is in is empty.
LEMMA MeansNames ==
    ASSUME NEW M, NEW names, \A p \in M : StanzaOf(p) \in names, NEW name
    PROVE  Means(M, names \cup {name}) = OrDefault(Means(M, names), name)
<1>1. DOMAIN Means(M, names) = names /\ \A s \in names : Means(M, names)[s] = MeansIn(M, s)
  BY DEF Means
<1>2. \A s \in names \cup {name} :
         MeansIn(M, s) = IF s \in names THEN Means(M, names)[s] ELSE <<>>
  BY <1>1, MeansNothing
<1>3. Means(M, names \cup {name}) =
         [s \in names \cup {name} |-> IF s \in names THEN Means(M, names)[s] ELSE <<>>]
  BY <1>2 DEF Means
<1> QED
  BY <1>1, <1>3 DEF OrDefault

\* What places mean is a matter of their files.
LEMMA MeansSame ==
    ASSUME NEW M, Bounded(M), NEW names,
           \A p \in M : files'[p[1]] = files[p[1]], precedence' = precedence
    PROVE  Means(M, names)' = Means(M, names)
<1>1. \A p \in M : StanzaOf(p)' = StanzaOf(p) /\ KeyAt(p)' = KeyAt(p) /\ ValueAt(p)' = ValueAt(p)
  BY DEF StanzaOf, KeyAt, ValueAt
<1>2. \A P : Winner(P)' = Winner(P)
  BY DEF Winner
<1>3. ASSUME NEW s PROVE MeansIn(M, s)' = MeansIn(M, s)
  <2>1. In(M, s)' = In(M, s)
    BY <1>1 DEF In
  <2>2. In(M, s) \subseteq M
    BY DEF In
  <2>3. KeysUnder(M, s)' = KeysUnder(M, s) /\ \A k : Of(M, s, k)' = Of(M, s, k)
    BY <1>1, <2>1, <2>2 DEF KeysUnder, Of
  <2>4. ASSUME NEW k \in KeysUnder(M, s)
        PROVE  ValueAt(Winner(Of(M, s, k)))' = ValueAt(Winner(Of(M, s, k)))
    <3>1. Of(M, s, k) # {} /\ Of(M, s, k) \subseteq M
      BY <2>2, <2>4 DEF KeysUnder, Of
    <3>2. PICK P : P = Of(M, s, k) /\ P = Of(M, s, k)'
      BY <2>3
    <3>3. Winner(P) \in M
      BY <3>1, <3>2, SubsetBounded, WinnerIn
    <3>4. PICK w \in M : w = Winner(P) /\ w = Winner(P)'
      BY <1>2, <3>3
    <3>5. ValueAt(w)' = ValueAt(w)
      BY <1>1
    <3> QED
      BY <3>2, <3>4, <3>5
  <2> QED
    BY <2>3, <2>4 DEF MeansIn
<1> QED
  BY <1>3 DEF Means

----------------------------------------------------------------------------
(* The third invariant: at every step of a merge the dictionary is what the *)
(* places merged so far mean.                                              *)

\* The files that are merged; of the one that is being merged, the lines whose entries are.
Upto == IF pc \in {"lines", "merge"} THEN File - 1 ELSE File
MergedLines ==
    UNION {{LineOf(doc[a].entries[b]) : b \in {c \in DOMAIN doc[a].entries : a < merging \/ c <= merged}} :
           a \in 1..merging}

PlacesUpTo(n) == UNION {{<<x, i>> : i \in PairsOf(files[x])} : x \in 1..n}
NamesUpTo(n) == {"default"} \cup UNION {HeaderNames(files[x]) : x \in 1..n}

PlacesSeen == PlacesUpTo(Upto) \cup {<<File, i>> : i \in MergedLines}
NamesSeen == NamesUpTo(Upto) \cup {doc[a].name : a \in 1..merging}

DictInv == dict = Means(PlacesSeen, NamesSeen)

LEMMA UptoType ==
    ASSUME TypeOK
    PROVE  /\ Upto \in Nat /\ File \in Nat /\ DOMAIN files = 1..File /\ 1..Upto \subseteq 1..File
           /\ \A x \in 1..Upto : x \in DOMAIN files /\ files[x] \in FileDoc
           /\ pc \in {"lines", "merge"} => Upto = File - 1 /\ File \in DOMAIN files /\ Current \in FileDoc
           /\ pc \notin {"lines", "merge"} => Upto = File
<1>1. File \in Nat /\ DOMAIN files = 1..File /\ \A x \in DOMAIN files : files[x] \in FileDoc
  BY FilesType
<1>2. pc \in {"lines", "merge"} => files # <<>> /\ File \in DOMAIN files /\ Current \in FileDoc
  BY FilesType DEF TypeOK
<1> QED
  BY <1>1, <1>2 DEF Upto

\* The lines that are merged are pairs of the file, each in the stanza of its entry.
LEMMA MergedAre ==
    ASSUME ParserInv, LinesInv, NEW i \in MergedLines
    PROVE  /\ pc = "merge" /\ i \in PairsOf(Current) /\ i \in Nat
           /\ \E a \in 1..merging : /\ a \in DOMAIN doc /\ StanzaAt(Current, i) = doc[a].name
                                    /\ \E b \in DOMAIN doc[a].entries :
                                          (a < merging \/ b <= merged) /\ i = LineOf(doc[a].entries[b])
<1>1. TypeOK
  BY DEF ParserInv
<1>2. doc \in Seq(StanzaDoc) /\ merging \in 0..Len(doc) /\ (pc # "merge" => merging = 0)
  BY <1>1 DEF TypeOK
<1>3. PICK a \in 1..merging : \E b \in DOMAIN doc[a].entries :
         (a < merging \/ b <= merged) /\ i = LineOf(doc[a].entries[b])
  BY DEF MergedLines
<1>4. a \in DOMAIN doc /\ pc = "merge"
  BY <1>2, <1>3
<1>5. PICK b \in DOMAIN doc[a].entries : i = LineOf(doc[a].entries[b])
  BY <1>3
<1>6. EntryMeans(doc[a].entries[b], doc[a].name, Current, File, PairsOf(Current))
  BY <1>4, <1>5 DEF LinesInv, DocMeans
<1>7. i \in PairsOf(Current) /\ StanzaAt(Current, i) = doc[a].name
  BY <1>5, <1>6 DEF EntryMeans
<1>8. HasLogical(Current)
  BY <1>1, <1>4, UptoType DEF LinesInv, Current
<1>9. i \in Nat
  BY <1>7, <1>8, MarksType
<1> QED
  BY <1>3, <1>4, <1>7, <1>9

LEMMA SeenIs ==
    ASSUME ParserInv, LinesInv
    PROVE  /\ Bounded(PlacesSeen)
           /\ \A p \in PlacesSeen : /\ StanzaOf(p) \in NamesSeen
                                    /\ \/ p[1] \in 1..Upto
                                       \/ pc = "merge" /\ p[1] = File /\ p[2] \in MergedLines
<1>1. TypeOK
  BY DEF ParserInv
<1>2. /\ Upto \in Nat /\ File \in Nat /\ 1..Upto \subseteq 1..File
      /\ \A x \in 1..Upto : x \in DOMAIN files /\ files[x] \in FileDoc
  BY <1>1, UptoType
<1>3. \A x \in 1..Upto : HasLogical(files[x])
  BY <1>2 DEF LinesInv
<1>4. ASSUME NEW p \in PlacesSeen
      PROVE  \/ \E x \in 1..Upto : p[1] = x /\ p[2] \in PairsOf(files[x]) /\ p = <<x, p[2]>>
             \/ p[1] = File /\ p[2] \in MergedLines /\ p = <<File, p[2]>>
  BY DEF PlacesSeen, PlacesUpTo
<1>5. ASSUME NEW p \in PlacesSeen
      PROVE  /\ p \in Nat \X Nat /\ p[1] <= File /\ StanzaOf(p) \in NamesSeen
             /\ p[1] \in DOMAIN files /\ p[2] \in 1..Len(files[p[1]].lines)
             /\ \/ p[1] \in 1..Upto
                \/ pc = "merge" /\ p[1] = File /\ p[2] \in MergedLines
  <2>1. CASE \E x \in 1..Upto : p[1] = x /\ p[2] \in PairsOf(files[x]) /\ p = <<x, p[2]>>
    <3>1. PICK x \in 1..Upto : p[1] = x /\ p[2] \in PairsOf(files[x]) /\ p = <<x, p[2]>>
      BY <2>1
    <3>2. p[2] \in 1..Len(files[x].lines)
      BY <1>3, <3>1, MarksType
    <3>3. StanzaAt(files[x], p[2]) \in {"default"} \cup HeaderNames(files[x])
      BY <1>2, <1>3, StanzaAtNames
    <3>4. StanzaOf(p) \in NamesSeen
      BY <3>1, <3>3 DEF StanzaOf, NamesSeen, NamesUpTo
    <3> QED
      BY <1>2, <3>1, <3>2, <3>4
  <2>2. CASE p[1] = File /\ p[2] \in MergedLines /\ p = <<File, p[2]>>
    <3>1. PICK i \in MergedLines : i = p[2] /\ p[1] = File /\ p = <<File, i>>
      BY <2>2
    <3>2. pc = "merge" /\ i \in PairsOf(Current) /\ i \in Nat
          /\ \E a \in 1..merging : StanzaAt(Current, i) = doc[a].name
      BY <3>1, MergedAre
    <3>3. File \in DOMAIN files
      BY <1>1, <3>2, UptoType
    <3>4. HasLogical(Current)
      BY <3>3 DEF LinesInv, Current
    <3>5. i \in 1..Len(Current.lines)
      BY <3>2, <3>4, MarksType
    <3>6. StanzaOf(p) \in NamesSeen
      BY <3>1, <3>2 DEF StanzaOf, NamesSeen, Current
    <3> QED
      BY <1>2, <3>1, <3>2, <3>3, <3>5, <3>6 DEF Current
  <2> QED
    BY <1>4, <2>1, <2>2
<1>6. Bounded(PlacesSeen)
  <2>1. PlacesSeen \subseteq Nat \X Nat
    BY <1>5
  <2>2. \E n \in Nat : \A p \in PlacesSeen : p[1] <= n
    BY <1>2, <1>5
  <2>3. ASSUME NEW x \in Nat PROVE \E c \in Nat : \A p \in PlacesSeen : p[1] = x => p[2] <= c
    <3>1. CASE x \in DOMAIN files
      <4>1. Len(files[x].lines) \in Nat
        BY <1>1, <3>1, FilesType, FileType
      <4>2. \A p \in PlacesSeen : p[1] = x => p[2] \in 1..Len(files[x].lines)
        BY <1>5
      <4>3. PICK c \in Nat : c = Len(files[x].lines)
        BY <4>1
      <4>4. \A p \in PlacesSeen : p[1] = x => p[2] <= c
        BY <4>2, <4>3
      <4> QED
        BY <4>4
    <3>2. CASE x \notin DOMAIN files
      <4>1. \A p \in PlacesSeen : p[1] # x
        BY <1>5, <3>2
      <4> QED
        BY <4>1
    <3> QED
      BY <3>1, <3>2
  <2> QED
    BY <2>1, <2>2, <2>3 DEF Bounded
<1> QED
  BY <1>5, <1>6

\* While nothing more is merged, the dictionary means what it meant.
LEMMA DictStays ==
    ASSUME ParserInv, LinesInv, DictInv, UNCHANGED <<dict, precedence>>,
           PlacesSeen' = PlacesSeen, NamesSeen' = NamesSeen,
           \A p \in PlacesSeen : files'[p[1]] = files[p[1]]
    PROVE  DictInv'
<1>1. PICK M : M = PlacesSeen
  OBVIOUS
<1>2. PICK N : N = NamesSeen
  OBVIOUS
<1>3. Bounded(M)
  BY <1>1, SeenIs
<1>4. \A p \in M : files'[p[1]] = files[p[1]]
  BY <1>1
<1>5. Means(M, N)' = Means(M, N)
  BY <1>3, <1>4, MeansSame
<1>6. M = PlacesSeen' /\ N = NamesSeen'
  BY <1>1, <1>2
<1>7. Means(PlacesSeen, NamesSeen)' = Means(M, N)'
  BY <1>6
<1> QED
  BY <1>1, <1>2, <1>5, <1>7 DEF DictInv

LEMMA NothingMerged == ASSUME merging = 0 PROVE MergedLines = {} /\ {doc[a].name : a \in 1..merging} = {}
<1>1. 1..merging = {}
  OBVIOUS
<1> QED
  BY <1>1 DEF MergedLines

LEMMA IdleStays ==
    ASSUME ParserInv, LinesInv, DictInv, UNCHANGED <<dict, precedence>>,
           merging = 0, merging' = 0, Upto' = Upto, \A x \in 1..Upto : files'[x] = files[x]
    PROVE  DictInv'
<1>1. MergedLines = {} /\ {doc[a].name : a \in 1..merging} = {}
  BY NothingMerged
<1>2. MergedLines' = {} /\ {doc[a].name : a \in 1..merging}' = {}
  <2>1. 1..merging' = {}
    OBVIOUS
  <2> QED
    BY <2>1 DEF MergedLines
<1>3. PlacesUpTo(Upto)' = PlacesUpTo(Upto) /\ NamesUpTo(Upto)' = NamesUpTo(Upto)
  BY DEF PlacesUpTo, NamesUpTo
<1>4. PlacesSeen' = PlacesSeen /\ NamesSeen' = NamesSeen
  BY <1>1, <1>2, <1>3 DEF PlacesSeen, NamesSeen
<1>5. \A p \in PlacesSeen : files'[p[1]] = files[p[1]]
  BY <1>1, SeenIs
<1> QED
  BY <1>4, <1>5, DictStays

LEMMA InitDict == Init => DictInv
<1> SUFFICES ASSUME Init PROVE DictInv
  OBVIOUS
<1>1. pc = "files" /\ files = <<>> /\ merging = 0 /\ dict = [s \in {"default"} |-> <<>>]
  BY DEF Init
<1>2. MergedLines = {} /\ {doc[a].name : a \in 1..merging} = {}
  BY <1>1, NothingMerged
<1>3. Upto = 0 /\ 1..Upto = {}
  BY <1>1 DEF Upto, File
<1>4. PlacesSeen = {} /\ NamesSeen = {"default"}
  BY <1>2, <1>3 DEF PlacesSeen, NamesSeen, PlacesUpTo, NamesUpTo
<1>5. \A s : MeansIn({}, s) = <<>>
  BY MeansNothing
<1>6. Means({}, {"default"}) = [s \in {"default"} |-> <<>>]
  BY <1>5 DEF Means
<1> QED
  BY <1>1, <1>4, <1>6 DEF DictInv

LEMMA OpenFileDict == ASSUME ParserInv, LinesInv, DictInv, OpenFile PROVE DictInv'
<1> DEFINE f == [lines |-> <<>>, limit |-> maxMultilineLines]
<1>1. TypeOK
  BY DEF ParserInv
<1>2. /\ pc = "files" /\ pc' = "lines" /\ files' = Append(files, f)
      /\ UNCHANGED <<dict, merging, merged, precedence>>
  BY DEF OpenFile, merge
<1> HIDE DEF f
<1>3. merging = 0 /\ merging' = 0
  BY <1>1, <1>2, Idle
<1>4. PICK S : files \in Seq(S) /\ f \in S
  <2>1. files \in Seq(FileDoc)
    BY <1>1, FilesType
  <2>2. files \in Seq(FileDoc \cup {f})
    BY <2>1
  <2> QED
    BY <2>2
<1>5. Len(files') = Len(files) + 1 /\ Len(files) \in Nat
      /\ \A x \in 1..Len(files) : files'[x] = files[x]
  BY <1>2, <1>4
<1>6. Upto = Len(files) /\ Upto' = Len(files)
  BY <1>2, <1>5 DEF Upto, File
<1> QED
  BY <1>2, <1>3, <1>5, <1>6, IdleStays

LEMMA LineDict ==
    ASSUME ParserInv, LinesInv, DictInv, NEW line \in Line, Take(line)
    PROVE  DictInv'
<1>1. TypeOK
  BY DEF ParserInv
<1>2. /\ File' = File /\ pc = "lines" /\ pc' = "lines" /\ File \in Nat
      /\ DOMAIN files = 1..File
      /\ \A x \in DOMAIN files : x # File => files'[x] = files[x]
  BY <1>1, TakeGrows, FilesType
<1>3. UNCHANGED <<dict, merging, precedence>>
  BY DEF Take, merge
<1>4. merging = 0 /\ merging' = 0
  BY <1>1, <1>2, <1>3, Idle
<1>5. Upto = File - 1 /\ Upto' = File - 1
  BY <1>2 DEF Upto
<1>6. \A x \in 1..Upto : files'[x] = files[x]
  BY <1>2, <1>5
<1> QED
  BY <1>3, <1>4, <1>5, <1>6, IdleStays

LEMMA EndFileDict == ASSUME ParserInv, LinesInv, DictInv, EndFile PROVE DictInv'
<1>1. TypeOK
  BY DEF ParserInv
<1>2. pc = "lines" /\ pc' = "merge" /\ UNCHANGED <<files, dict, merging, precedence>>
  BY DEF EndFile, history, merge
<1>3. merging = 0 /\ merging' = 0
  BY <1>1, <1>2, Idle
<1>4. Upto' = Upto
  BY <1>2 DEF Upto, File
<1> QED
  BY <1>2, <1>3, <1>4, IdleStays

\* entry().or_default(): a stanza more is seen.
LEMMA MergeStanzaDict == ASSUME ParserInv, LinesInv, DictInv, MergeStanza PROVE DictInv'
<1>1. TypeOK
  BY DEF ParserInv
<1>2. /\ pc = "merge" /\ Rest = 0 /\ merging < Len(doc)
      /\ merging' = merging + 1 /\ merged' = 0
      /\ dict' = [s \in DOMAIN dict \cup {doc[merging + 1].name} |->
                     IF s \in DOMAIN dict THEN dict[s] ELSE <<>>]
      /\ UNCHANGED <<pc, doc, files, precedence>>
  BY DEF MergeStanza, parser, history
<1>3. doc \in Seq(StanzaDoc) /\ merging \in 0..Len(doc)
  BY <1>1, <1>2 DEF TypeOK
<1>4. \A a \in 1..merging : a \in 1..merging + 1 /\ a < merging'
  BY <1>2, <1>3
<1>5. \A a \in 1..merging' : a \in 1..merging \/ a = merging + 1
  BY <1>2, <1>3
<1>6. Upto' = Upto /\ File' = File
  BY <1>2 DEF Upto, File
<1>7. \A a \in 1..merging : \A b \in DOMAIN doc[a].entries : a < merging \/ b <= merged
  <2> SUFFICES ASSUME NEW a \in 1..merging, NEW b \in DOMAIN doc[a].entries, a = merging
               PROVE  b <= merged
    BY <1>3
  <2>1. merging # 0
    BY <1>3
  <2>2. doc[merging].entries \in Seq(EntryDoc) /\ Len(doc[merging].entries) \in Nat
    BY <1>3, <2>1, EntriesType
  <2>3. merged \in 0..Len(doc[merging].entries) /\ Len(doc[merging].entries) - merged = 0
    BY <1>1, <1>2, <2>1 DEF Rest, TypeOK
  <2> QED
    BY <2>2, <2>3
<1>8. MergedLines' = MergedLines
  <2>1. MergedLines = UNION {{LineOf(doc[a].entries[b]) : b \in DOMAIN doc[a].entries} : a \in 1..merging}
    BY <1>7 DEF MergedLines
  <2>2. MergedLines' = UNION {{LineOf(doc[a].entries[b]) :
                               b \in {c \in DOMAIN doc[a].entries : a < merging' \/ c <= 0}} : a \in 1..merging'}
    BY <1>2 DEF MergedLines
  <2>3. \A b \in DOMAIN doc[merging + 1].entries : ~(merging + 1 < merging') /\ ~(b <= 0)
    <3>1. merging + 1 \in 0..Len(doc) /\ merging + 1 # 0
      BY <1>2, <1>3
    <3>2. doc[merging + 1].entries \in Seq(EntryDoc)
      BY <1>3, <3>1, EntriesType
    <3> QED
      BY <1>2, <1>3, <3>2
  <2>4. \A i : i \in MergedLines <=>
                  \E a \in 1..merging : \E b \in DOMAIN doc[a].entries : i = LineOf(doc[a].entries[b])
    BY <2>1
  <2>5. \A i : i \in MergedLines' <=>
                  \E a \in 1..merging' : \E b \in DOMAIN doc[a].entries :
                     (a < merging' \/ b <= 0) /\ i = LineOf(doc[a].entries[b])
    BY <2>2
  <2>6. ASSUME NEW i
        PROVE  (\E a \in 1..merging' : \E b \in DOMAIN doc[a].entries :
                   (a < merging' \/ b <= 0) /\ i = LineOf(doc[a].entries[b]))
               <=> (\E a \in 1..merging : \E b \in DOMAIN doc[a].entries : i = LineOf(doc[a].entries[b]))
    BY <1>2, <1>4, <1>5, <2>3
  <2> QED
    BY <2>4, <2>5, <2>6
<1>9. PlacesSeen' = PlacesSeen
  <2>1. PlacesUpTo(Upto)' = PlacesUpTo(Upto)
    BY <1>2, <1>6 DEF PlacesUpTo
  <2> QED
    BY <1>6, <1>8, <2>1 DEF PlacesSeen
<1>10. NamesSeen' = NamesSeen \cup {doc[merging + 1].name}
  <2>1. NamesUpTo(Upto)' = NamesUpTo(Upto)
    BY <1>2, <1>6 DEF NamesUpTo
  <2>2. {doc[a].name : a \in 1..merging}' = {doc[a].name : a \in 1..merging} \cup {doc[merging + 1].name}
    BY <1>2, <1>3, <1>4, <1>5
  <2> QED
    BY <2>1, <2>2 DEF NamesSeen
<1>11. PICK M : M = PlacesSeen
  OBVIOUS
<1>12. PICK N : N = NamesSeen
  OBVIOUS
<1>13. PICK name : name = doc[merging + 1].name
  OBVIOUS
<1>14. Bounded(M) /\ \A p \in M : StanzaOf(p) \in N
  BY <1>11, <1>12, SeenIs
<1>15. dict = Means(M, N)
  BY <1>11, <1>12 DEF DictInv
<1>16. dict' = Means(M, N \cup {name})
  <2>1. Means(M, N \cup {name}) = OrDefault(Means(M, N), name)
    BY <1>14, MeansNames
  <2>2. dict' = OrDefault(dict, name)
    BY <1>2, <1>13 DEF OrDefault
  <2> QED
    BY <1>15, <2>1, <2>2
<1>17. Means(M, N \cup {name})' = Means(M, N \cup {name})
  BY <1>2, <1>14, MeansSame
<1>18. M = PlacesSeen' /\ N \cup {name} = NamesSeen'
  BY <1>9, <1>10, <1>11, <1>12, <1>13
<1>19. Means(PlacesSeen, NamesSeen)' = Means(M, N \cup {name})'
  BY <1>18
<1> QED
  BY <1>16, <1>17, <1>19 DEF DictInv

LEMMA BoundedAdd ==
    ASSUME NEW M, Bounded(M), NEW p \in Nat \X Nat
    PROVE  Bounded(M \cup {p})
<1>1. M \cup {p} \subseteq Nat \X Nat /\ p[1] \in Nat /\ p[2] \in Nat
      /\ \A q \in M : q[1] \in Nat /\ q[2] \in Nat
  BY DEF Bounded
<1>2. \E n \in Nat : \A q \in M \cup {p} : q[1] <= n
  <2>1. PICK n \in Nat : \A q \in M : q[1] <= n
    BY DEF Bounded
  <2>2. PICK k \in Nat : k >= n /\ k >= p[1]
    BY <1>1, <2>1
  <2>3. \A q \in M \cup {p} : q[1] <= k
    BY <1>1, <2>1, <2>2
  <2> QED
    BY <2>3
<1>3. ASSUME NEW x \in Nat PROVE \E c \in Nat : \A q \in M \cup {p} : q[1] = x => q[2] <= c
  <2>1. PICK n \in Nat : \A q \in M : q[1] = x => q[2] <= n
    BY DEF Bounded
  <2>2. PICK k \in Nat : k >= n /\ k >= p[2]
    BY <1>1, <2>1
  <2>3. \A q \in M \cup {p} : q[1] = x => q[2] <= k
    BY <1>1, <2>1, <2>2
  <2> QED
    BY <2>3
<1> QED
  BY <1>1, <1>2, <1>3 DEF Bounded

\* or_insert or insert: a place more is seen, after all the others of its stanza.
LEMMA MergeEntryDict == ASSUME ParserInv, LinesInv, DictInv, MergeEntry PROVE DictInv'
<1> DEFINE e == doc[merging].entries[merged + 1]
           p == <<File, LineOf(e)>>
           s == doc[merging].name
<1>1. TypeOK
  BY DEF ParserInv
<1>2. /\ pc = "merge" /\ Rest > 0 /\ merged' = merged + 1
      /\ dict' = [dict EXCEPT ![s] = Put(@, e)]
      /\ UNCHANGED <<pc, doc, files, precedence, merging>>
  BY DEF MergeEntry, parser, history
<1>3. doc \in Seq(StanzaDoc) /\ merging \in 0..Len(doc) /\ merging # 0
  BY <1>1, <1>2 DEF TypeOK, Rest
<1>4. merging \in DOMAIN doc /\ doc[merging].entries \in Seq(EntryDoc)
      /\ Len(doc[merging].entries) \in Nat /\ merging \in 1..merging
  BY <1>3, EntriesType
<1>5. merged \in Nat /\ merged + 1 \in DOMAIN doc[merging].entries
  <2>1. merged \in 0..Len(doc[merging].entries) /\ Len(doc[merging].entries) - merged > 0
    BY <1>1, <1>2, <1>3 DEF TypeOK, Rest
  <2> QED
    BY <1>4, <2>1
<1>6. EntryMeans(e, s, Current, File, PairsOf(Current))
  BY <1>2, <1>4, <1>5 DEF LinesInv, DocMeans
<1>7. File \in DOMAIN files /\ File \in Nat /\ HasLogical(Current) /\ Upto = File - 1
  BY <1>1, <1>2, UptoType DEF LinesInv, Current
<1>8. LineOf(e) \in Nat /\ p \in Nat \X Nat
  BY <1>6, <1>7, MarksType DEF EntryMeans
<1>9. StanzaOf(p) = s /\ KeyAt(p) = e.key /\ ValueAt(p) = e.value
  <2>1. p[1] = File /\ p[2] = LineOf(e)
    OBVIOUS
  <2> HIDE DEF p
  <2> QED
    BY <1>6, <2>1 DEF StanzaOf, KeyAt, ValueAt, EntryMeans, Current
<1>10. Upto' = Upto /\ File' = File
  BY <1>2 DEF Upto, File
<1>11. MergedLines' = MergedLines \cup {LineOf(e)}
  <2>1. MergedLines' = UNION {{LineOf(doc[a].entries[b]) :
                               b \in {c \in DOMAIN doc[a].entries : a < merging \/ c <= merged + 1}} : a \in 1..merging}
    BY <1>2 DEF MergedLines
  <2>2. \A a \in 1..merging : a < merging \/ a = merging
    BY <1>3
  <2>3. ~(merging < merging)
    BY <1>3
  <2>4. \A b \in DOMAIN doc[merging].entries : b <= merged + 1 <=> b <= merged \/ b = merged + 1
    BY <1>4, <1>5
  <2>5. ASSUME NEW i
        PROVE  (\E a \in 1..merging : \E b \in DOMAIN doc[a].entries :
                   (a < merging \/ b <= merged + 1) /\ i = LineOf(doc[a].entries[b]))
               <=> \/ \E a \in 1..merging : \E b \in DOMAIN doc[a].entries :
                         (a < merging \/ b <= merged) /\ i = LineOf(doc[a].entries[b])
                   \/ i = LineOf(doc[merging].entries[merged + 1])
    <3>1. ASSUME NEW a \in 1..merging, NEW b \in DOMAIN doc[a].entries
          PROVE  a < merging \/ b <= merged + 1 <=> (a < merging \/ b <= merged) \/ (a = merging /\ b = merged + 1)
      BY <2>2, <2>3, <2>4
    <3> QED
      BY <1>4, <1>5, <3>1
  <2>6. \A i : i \in MergedLines <=> \E a \in 1..merging : \E b \in DOMAIN doc[a].entries :
                  (a < merging \/ b <= merged) /\ i = LineOf(doc[a].entries[b])
    BY DEF MergedLines
  <2>7. \A i : i \in MergedLines' <=> \E a \in 1..merging : \E b \in DOMAIN doc[a].entries :
                  (a < merging \/ b <= merged + 1) /\ i = LineOf(doc[a].entries[b])
    BY <2>1
  <2> QED
    BY <2>5, <2>6, <2>7
<1>12. PlacesSeen' = PlacesSeen \cup {p}
  <2>1. PlacesUpTo(Upto)' = PlacesUpTo(Upto)
    BY <1>2, <1>10 DEF PlacesUpTo
  <2> HIDE DEF e
  <2> QED
    BY <1>10, <1>11, <2>1 DEF PlacesSeen
<1>13. NamesSeen' = NamesSeen
  BY <1>2, <1>10 DEF NamesSeen, NamesUpTo
<1>14. s \in NamesSeen
  BY <1>4 DEF NamesSeen
<1>15. ASSUME NEW q \in In(PlacesSeen, s) PROVE Before(q, p)
  <2>1. q \in PlacesSeen /\ StanzaOf(q) = s
    BY DEF In
  <2>2. CASE q[1] \in 1..Upto
    BY <1>7, <2>2 DEF Before
  <2>3. CASE q[1] = File /\ q[2] \in MergedLines
    <3>1. PICK i \in MergedLines : i = q[2]
      BY <2>3
    <3>2. PICK a \in 1..merging : /\ a \in DOMAIN doc /\ StanzaAt(Current, i) = doc[a].name
                                  /\ \E b \in DOMAIN doc[a].entries :
                                        (a < merging \/ b <= merged) /\ i = LineOf(doc[a].entries[b])
      BY <3>1, MergedAre
    <3>3. doc[a].name = doc[merging].name
      BY <2>1, <2>3, <3>1, <3>2 DEF StanzaOf, Current
    <3>4. WellFormed(doc, stanza, Limit)
      BY <1>3, <1>4 DEF ParserInv
    <3>5. a = merging
      BY <1>4, <3>2, <3>3, <3>4 DEF WellFormed
    <3>6. PICK b \in DOMAIN doc[merging].entries : b <= merged /\ i = LineOf(doc[merging].entries[b])
      BY <1>3, <3>2, <3>5
    <3>7. b < merged + 1
      BY <1>4, <1>5, <3>6
    <3>8. i < LineOf(e)
      BY <1>2, <1>4, <1>5, <3>6, <3>7 DEF LinesInv, DocMeans
    <3> QED
      BY <2>3, <3>1, <3>8 DEF Before
  <2> QED
    BY <2>1, <2>2, <2>3, SeenIs
<1> HIDE DEF e, p, s
<1>16. PICK M : M = PlacesSeen
  OBVIOUS
<1>17. PICK N : N = NamesSeen
  OBVIOUS
<1>18. PICK e0 : e0 = e
  OBVIOUS
<1>19. PICK p0 \in Nat \X Nat : p0 = p
  BY <1>8
<1>20. PICK s0 \in N : s0 = s
  BY <1>14, <1>17
<1>21. Bounded(M \cup {p0}) /\ Bounded(M)
  BY <1>16, SeenIs, BoundedAdd
<1>22. dict = Means(M, N)
  BY <1>16, <1>17 DEF DictInv
<1>23. Means(M \cup {p0}, N) = [Means(M, N) EXCEPT ![s0] = Put(@, e0)]
  <2>1. s0 = StanzaOf(p0) /\ e0.key = KeyAt(p0) /\ e0.value = ValueAt(p0)
    BY <1>9, <1>18, <1>19, <1>20
  <2>2. \A q \in In(M, s0) : Before(q, p0)
    BY <1>15, <1>16, <1>19, <1>20
  <2> QED
    BY <1>20, <1>21, <2>1, <2>2, MeansAdds
<1>24. dict' = Means(M \cup {p0}, N)
  BY <1>2, <1>18, <1>20, <1>22, <1>23
<1>25. Means(M \cup {p0}, N)' = Means(M \cup {p0}, N)
  BY <1>2, <1>21, MeansSame
<1>26. M \cup {p0} = PlacesSeen' /\ N = NamesSeen'
  BY <1>12, <1>13, <1>16, <1>17, <1>19
<1>27. Means(PlacesSeen, NamesSeen)' = Means(M \cup {p0}, N)'
  BY <1>26
<1> QED
  BY <1>24, <1>25, <1>27 DEF DictInv

\* Every entry of the file has been merged: all of its pairs are seen.
LEMMA MergeDoneDict == ASSUME ParserInv, LinesInv, DictInv, MergeDone PROVE DictInv'
<1>1. TypeOK
  BY DEF ParserInv
<1>2. /\ pc = "merge" /\ pc' = "files" /\ Rest = 0 /\ merging = Len(doc) /\ merging' = 0
      /\ UNCHANGED <<dict, files, precedence>>
  BY DEF MergeDone, history
<1>3. doc \in Seq(StanzaDoc) /\ doc # <<>> /\ DOMAIN doc = 1..merging /\ merging # 0 /\ merging \in 0..Len(doc)
  BY <1>1, <1>2 DEF TypeOK
<1>4. File \in Nat /\ File \in 1..File /\ Upto = File - 1 /\ Upto' = File /\ File' = File
      /\ DOMAIN files = 1..File
  BY <1>1, <1>2, UptoType DEF Upto, File
<1>5. \A x \in 1..File : x \in 1..Upto \/ x = File
  BY <1>4
<1>6. 1..Upto \subseteq 1..File
  BY <1>4
<1>7. MergedLines = PairsOf(Current)
  <2>1. DocMeans(doc, Current, File, PairsOf(Current))
    BY <1>2 DEF LinesInv
  <2>2. ASSUME NEW i \in PairsOf(Current) PROVE i \in MergedLines
    <3>1. PICK a \in DOMAIN doc : \E b \in DOMAIN doc[a].entries : LineOf(doc[a].entries[b]) = i
      BY <2>1, <2>2 DEF DocMeans
    <3>2. PICK b \in DOMAIN doc[a].entries : LineOf(doc[a].entries[b]) = i
      BY <3>1
    <3>3. a < merging \/ b <= merged
      <4> SUFFICES ASSUME ~(a < merging) PROVE b <= merged
        OBVIOUS
      <4>1. a = merging
        BY <1>3
      <4>2. doc[merging].entries \in Seq(EntryDoc) /\ Len(doc[merging].entries) \in Nat
        BY <1>3, EntriesType
      <4>3. merged \in 0..Len(doc[merging].entries) /\ Len(doc[merging].entries) - merged = 0
        BY <1>1, <1>2, <1>3 DEF Rest, TypeOK
      <4> QED
        BY <4>1, <4>2, <4>3
    <3> QED
      BY <1>3, <3>2, <3>3 DEF MergedLines
  <2>3. ASSUME NEW i \in MergedLines PROVE i \in PairsOf(Current)
    BY <2>3, MergedAre
  <2> QED
    BY <2>2, <2>3
<1>8. MergedLines' = {} /\ {doc[a].name : a \in 1..merging}' = {}
  <2>1. 1..merging' = {}
    BY <1>2
  <2> QED
    BY <2>1 DEF MergedLines
<1>9. PlacesSeen' = PlacesSeen
  <2>1. PlacesUpTo(Upto)' = PlacesUpTo(File)
    BY <1>2, <1>4 DEF PlacesUpTo
  <2>2. PlacesUpTo(File) = PlacesUpTo(Upto) \cup {<<File, i>> : i \in PairsOf(Current)}
    BY <1>4, <1>5, <1>6 DEF PlacesUpTo, Current
  <2> QED
    BY <1>7, <1>8, <2>1, <2>2 DEF PlacesSeen
<1>10. NamesSeen' = NamesSeen
  <2>1. NamesUpTo(Upto)' = NamesUpTo(File)
    BY <1>2, <1>4 DEF NamesUpTo
  <2>2. NamesUpTo(File) = NamesUpTo(Upto) \cup HeaderNames(Current)
    BY <1>4, <1>5, <1>6 DEF NamesUpTo, Current
  <2>3. {doc[a].name : a \in 1..merging} = {"default"} \cup HeaderNames(Current)
    BY <1>3 DEF LinesInv, NamesMean
  <2>4. "default" \in NamesUpTo(Upto)
    BY DEF NamesUpTo
  <2> QED
    BY <1>8, <2>1, <2>2, <2>3, <2>4 DEF NamesSeen
<1> QED
  BY <1>2, <1>9, <1>10, DictStays

LEMMA NextDict == ParserInv /\ LinesInv /\ DictInv /\ [Next]_vars => DictInv'
<1> SUFFICES ASSUME ParserInv, LinesInv, DictInv, [Next]_vars PROVE DictInv'
  OBVIOUS
<1>1. CASE UNCHANGED <<files, pc, doc, merge, precedence>>
  <2>1. UNCHANGED <<files, pc, doc, dict, merging, merged, precedence>>
    BY <1>1 DEF merge
  <2>2. PlacesSeen' = PlacesSeen /\ NamesSeen' = NamesSeen
    BY <2>1 DEF PlacesSeen, NamesSeen, PlacesUpTo, NamesUpTo, MergedLines, Upto, File
  <2> QED
    BY <2>1, <2>2, DictStays
<1>2. ASSUME NEW n \in LimitArg, SetMaxMultilineLines(n) PROVE DictInv'
  BY <1>1, <1>2 DEF SetMaxMultilineLines, parser, history
<1>3. ASSUME OpenFails \/ Return PROVE DictInv'
  <2>1. pc = "files" /\ pc' \notin {"lines", "merge"} /\ UNCHANGED <<files, dict, merging, precedence>>
    BY <1>3 DEF OpenFails, Return, merge, history
  <2>2. merging = 0 /\ Upto' = Upto
    BY <2>1, Idle DEF ParserInv, Upto, File
  <2> QED
    BY <2>1, <2>2, IdleStays
<1>4. ASSUME UNCHANGED vars PROVE DictInv'
  BY <1>1, <1>4 DEF vars, parser, history
<1>5. ASSUME NEW line \in Line,
             AtLimit(line) \/ Continue(line) \/ Other(line) \/ Header(line) \/ Pair(line)
      PROVE  DictInv'
  <2>1. Take(line)
    BY <1>5 DEF AtLimit, Continue, Other, Header, Pair
  <2> QED
    BY <2>1, LineDict
<1> QED
  BY <1>2, <1>3, <1>4, <1>5, OpenFileDict, EndFileDict, MergeStanzaDict, MergeEntryDict, MergeDoneDict
  DEF Next

\* After every file the dictionary is what the files read so far mean.
THEOREM MeansTheFilesHolds == Spec => []MeansTheFiles
<1> DEFINE Inv == ParserInv /\ LinesInv /\ DictInv
<1>1. Init => Inv
  BY InitInv, InitReads, InitDict
<1>2. Inv /\ [Next]_vars => Inv'
  BY NextInv, NextReads, NextDict
<1>3. Inv => MeansTheFiles
  <2> SUFFICES ASSUME Inv, pc \in {"files", "done"} PROVE dict = Meaning
    BY DEF MeansTheFiles
  <2>1. TypeOK
    BY DEF ParserInv
  <2>2. merging = 0 /\ Upto = File /\ DOMAIN files = 1..File
    BY <2>1, UptoType, Idle
  <2>3. MergedLines = {} /\ {doc[a].name : a \in 1..merging} = {}
    BY <2>2, NothingMerged
  <2>4. PlacesSeen = Places
    BY <2>2, <2>3 DEF PlacesSeen, PlacesUpTo, Places
  <2>5. NamesSeen = StanzasSeen
    BY <2>2, <2>3 DEF NamesSeen, NamesUpTo, StanzasSeen, HeaderNames
  <2> QED
    BY <2>4, <2>5, MeaningIs DEF DictInv
<1> QED
  BY <1>1, <1>2, <1>3, PTL DEF Spec

----------------------------------------------------------------------------
(***************************************************************************)
(* ConfLayering, for any number of roots, apps, files and options: what    *)
(* list_app_dirs and collect_user_confs find is in order and was asked     *)
(* for, and the value a key ends up with is that of the highest file that  *)
(* sets it.                                                                *)
(*                                                                         *)
(* First, sorting: a finite set of apps that are ahead of each other one   *)
(* way or the other can be put in order.                                   *)
(***************************************************************************)

Total(S) == \A a, b \in S : a # b => Ahead(a, b) \/ Ahead(b, a)

\* Ahead is transitive.
LEMMA AheadTransitive ==
    ASSUME NEW a \in App, NEW b \in App, NEW c \in App, Ahead(a, b), Ahead(b, c)
    PROVE  Ahead(a, c)
  BY DEF App, Ahead

\* Without one of its elements a finite set has one less.
LEMMA OneLess ==
    ASSUME NEW S, IsFiniteSet(S), NEW x \in S, NEW k \in Nat, Cardinality(S) = k + 1
    PROVE  IsFiniteSet(S \ {x}) /\ Cardinality(S \ {x}) = k
<1>1. IsFiniteSet(S \ {x}) /\ Cardinality(S \ {x}) = Cardinality(S) - 1
  BY FS_RemoveElement
<1> QED
  BY <1>1

\* A finite set has a last element.
HasLast(S) == \E m \in S : \A b \in S \ {m} : Ahead(b, m)

\* A finite set that is ordered has a last element.
LEMMA LastExists ==
    ASSUME NEW T \in SUBSET App, IsFiniteSet(T), T # {}, Total(T) PROVE HasLast(T)
<1> DEFINE P(k) == \A S \in SUBSET T : IsFiniteSet(S) /\ Cardinality(S) = k /\ S # {} => HasLast(S)
           N == {k \in Nat : P(k)}
<1>1. P(0)
  BY FS_EmptySet
<1>2. ASSUME NEW k \in Nat, P(k) PROVE P(k + 1)
  <2> SUFFICES ASSUME NEW S \in SUBSET T, IsFiniteSet(S), Cardinality(S) = k + 1, S # {}
               PROVE  HasLast(S)
    OBVIOUS
  <2>1. PICK x \in S : TRUE
    OBVIOUS
  <2>2. IsFiniteSet(S \ {x}) /\ Cardinality(S \ {x}) = k /\ S \ {x} \in SUBSET T
    BY <2>1, OneLess
  <2>3. CASE S \ {x} = {}
    BY <2>1, <2>3 DEF HasLast
  <2>4. CASE S \ {x} # {}
    <3>1. PICK m \in S \ {x} : \A b \in (S \ {x}) \ {m} : Ahead(b, m)
      BY <1>2, <2>2, <2>4 DEF HasLast
    <3>2. CASE Ahead(m, x)
      <4>1. ASSUME NEW b \in S \ {x} PROVE Ahead(b, x)
        <5>1. b \in App /\ m \in App /\ x \in App
          BY <2>1
        <5> QED
          BY <3>1, <3>2, <5>1, AheadTransitive
      <4> QED
        BY <2>1, <4>1 DEF HasLast
    <3>3. CASE Ahead(x, m)
      BY <3>1, <3>3 DEF HasLast
    <3> QED
      BY <2>1, <3>2, <3>3 DEF Total
  <2> QED
    BY <2>3, <2>4
<1> HIDE DEF P
<1>3. \A k \in Nat : k \in N
  <2>1. 0 \in N /\ \A k \in Nat : k \in N => k + 1 \in N
    BY <1>1, <1>2
  <2> HIDE DEF N
  <2> QED
    BY <2>1, Induction
<1>4. Cardinality(T) \in Nat
  BY FS_CardinalityType
<1> QED
  BY <1>3, <1>4 DEF P

Rising(q, n) == \A i, j \in 1..n : i < j => Ahead(q[i], q[j])

\* A finite set that is ordered can be sorted, and Sorted does it.
LEMMA SortedExists ==
    ASSUME NEW T \in SUBSET App, IsFiniteSet(T), Total(T)
    PROVE  /\ Sorted(T) \in [1..Cardinality(T) -> T]
           /\ Rising(Sorted(T), Cardinality(T))
           /\ Cardinality(T) \in Nat
<1> DEFINE P(k) == \A S \in SUBSET T : IsFiniteSet(S) /\ Cardinality(S) = k
                       => \E q \in [1..k -> S] : Rising(q, k)
           N == {k \in Nat : P(k)}
<1>1. P(0)
  <2> SUFFICES ASSUME NEW S PROVE \E q \in [1..0 -> S] : Rising(q, 0)
    OBVIOUS
  <2>1. [i \in 1..0 |-> 0] \in [1..0 -> S] /\ Rising([i \in 1..0 |-> 0], 0)
    BY DEF Rising
  <2> QED
    BY <2>1
<1>2. ASSUME NEW k \in Nat, P(k) PROVE P(k + 1)
  <2> SUFFICES ASSUME NEW S \in SUBSET T, IsFiniteSet(S), Cardinality(S) = k + 1
               PROVE  \E q \in [1..k + 1 -> S] : Rising(q, k + 1)
    OBVIOUS
  <2>1. S # {} /\ S \in SUBSET App /\ Total(S)
    BY FS_EmptySet DEF Total
  <2>2. PICK m \in S : \A b \in S \ {m} : Ahead(b, m)
    BY <2>1, LastExists DEF HasLast
  <2>3. IsFiniteSet(S \ {m}) /\ Cardinality(S \ {m}) = k /\ S \ {m} \in SUBSET T
    BY <2>2, OneLess
  <2>4. PICK q \in [1..k -> S \ {m}] : Rising(q, k)
    BY <1>2, <2>3
  <2> DEFINE r == [i \in 1..k + 1 |-> IF i = k + 1 THEN m ELSE q[i]]
  <2>5. /\ r[k + 1] = m
        /\ \A i \in 1..k : r[i] = q[i] /\ q[i] \in S \ {m}
    BY <2>4
  <2>6. r \in [1..k + 1 -> S]
    BY <2>2, <2>5
  <2>7. Rising(r, k + 1)
    <3> HIDE DEF r
    <3> SUFFICES ASSUME NEW i \in 1..k + 1, NEW j \in 1..k + 1, i < j PROVE Ahead(r[i], r[j])
      BY DEF Rising
    <3>1. i \in 1..k
      OBVIOUS
    <3>2. CASE j = k + 1
      BY <2>2, <2>5, <3>1, <3>2
    <3>3. CASE j # k + 1
      BY <2>4, <2>5, <3>1, <3>3 DEF Rising
    <3> QED
      BY <3>2, <3>3
  <2> QED
    BY <2>6, <2>7
<1> HIDE DEF P
<1>3. \A k \in Nat : k \in N
  <2>1. 0 \in N /\ \A k \in Nat : k \in N => k + 1 \in N
    BY <1>1, <1>2
  <2> HIDE DEF N
  <2> QED
    BY <2>1, Induction
<1>4. Cardinality(T) \in Nat
  BY FS_CardinalityType
<1>5. \E q \in [1..Cardinality(T) -> T] : Rising(q, Cardinality(T))
  BY <1>3, <1>4 DEF P
<1> QED
  BY <1>4, <1>5 DEF Sorted, Rising

----------------------------------------------------------------------------
(* A sequence rises if each element is below all that come after it, and   *)
(* one is under another if all of its elements are.                        *)

Rises(q, R) == \A i, j \in 1..Len(q) : i < j => <<q[i], q[j]>> \in R
Under(p, q, R) == \A i \in 1..Len(p), j \in 1..Len(q) : <<p[i], q[j]>> \in R
Apart(p, q, R) == Rises(p, R) /\ Rises(q, R) /\ Under(p, q, R)

\* A file found moves from the front of what is looked for to the end of the sources.
LEMMA Push ==
    ASSUME NEW S, NEW p \in Seq(S), NEW q \in Seq(S), q # <<>>, NEW R, Apart(p, q, R)
    PROVE  Apart(Append(p, Head(q)), Tail(q), R)
<1> DEFINE a == Append(p, Head(q))
           t == Tail(q)
<1>1. /\ Len(q) \in Nat /\ Len(q) >= 1 /\ Len(p) \in Nat
      /\ Len(a) = Len(p) + 1 /\ Len(t) = Len(q) - 1
  OBVIOUS
<1>2. \A i \in 1..Len(p) : a[i] = p[i]
  OBVIOUS
<1>3. a[Len(p) + 1] = q[1]
  OBVIOUS
<1>4. \A i \in 1..Len(q) - 1 : t[i] = q[i + 1]
  OBVIOUS
<1> HIDE DEF a, t
<1>5. Rises(a, R)
  <2> SUFFICES ASSUME NEW i \in 1..Len(p) + 1, NEW j \in 1..Len(p) + 1, i < j
               PROVE  <<a[i], a[j]>> \in R
    BY <1>1 DEF Rises
  <2>1. i \in 1..Len(p)
    BY <1>1
  <2>2. CASE j = Len(p) + 1
    BY <1>1, <1>2, <1>3, <2>1, <2>2 DEF Apart, Under
  <2>3. CASE j \in 1..Len(p)
    BY <1>2, <2>1, <2>3 DEF Apart, Rises
  <2> QED
    BY <1>1, <2>2, <2>3
<1>6. Rises(t, R)
  <2> SUFFICES ASSUME NEW i \in 1..Len(q) - 1, NEW j \in 1..Len(q) - 1, i < j
               PROVE  <<t[i], t[j]>> \in R
    BY <1>1 DEF Rises
  <2>1. PICK n \in Nat : n = Len(q)
    BY <1>1
  <2>2. i + 1 \in 1..n /\ j + 1 \in 1..n /\ i + 1 < j + 1
    BY <2>1
  <2> QED
    BY <1>4, <2>1, <2>2 DEF Apart, Rises
<1>7. Under(a, t, R)
  <2> SUFFICES ASSUME NEW i \in 1..Len(p) + 1, NEW j \in 1..Len(q) - 1
               PROVE  <<a[i], t[j]>> \in R
    BY <1>1 DEF Under
  <2>1. j + 1 \in 1..Len(q) /\ 1 \in 1..Len(q) /\ 1 < j + 1
    BY <1>1
  <2>2. CASE i = Len(p) + 1
    BY <1>3, <1>4, <2>1, <2>2 DEF Apart, Rises
  <2>3. CASE i \in 1..Len(p)
    BY <1>2, <1>4, <2>1, <2>3 DEF Apart, Under
  <2> QED
    BY <1>1, <2>2, <2>3
<1> QED
  BY <1>5, <1>6, <1>7 DEF Apart, a, t

\* What is not found falls out of what is looked for.
LEMMA Drop ==
    ASSUME NEW S, NEW p \in Seq(S), NEW q \in Seq(S), q # <<>>, NEW R, Apart(p, q, R)
    PROVE  Apart(p, Tail(q), R)
<1> DEFINE t == Tail(q)
<1>1. Len(q) \in Nat /\ Len(q) >= 1 /\ Len(p) \in Nat /\ Len(t) = Len(q) - 1
  OBVIOUS
<1>2. \A i \in 1..Len(q) - 1 : t[i] = q[i + 1]
  OBVIOUS
<1> HIDE DEF t
<1>3. ASSUME NEW i \in 1..Len(q) - 1, NEW j \in 1..Len(q) - 1, i < j
      PROVE  <<t[i], t[j]>> \in R
  <2>1. PICK n \in Nat : n = Len(q)
    BY <1>1
  <2>2. i \in 1..n - 1 /\ j \in 1..n - 1
    BY <2>1
  <2>3. i + 1 \in 1..n /\ j + 1 \in 1..n /\ i + 1 < j + 1
    BY <1>3, <2>2
  <2> QED
    BY <1>2, <2>1, <2>3 DEF Apart, Rises
<1>4. ASSUME NEW i \in 1..Len(p), NEW j \in 1..Len(q) - 1
      PROVE  <<p[i], t[j]>> \in R
  <2>1. j + 1 \in 1..Len(q)
    BY <1>1
  <2> QED
    BY <1>2, <2>1 DEF Apart, Under
<1> QED
  BY <1>1, <1>3, <1>4 DEF Apart, Rises, Under, t

\* Of sequences that are in order, one below the other, the join is in order.
LEMMA Join ==
    ASSUME NEW S, NEW p \in Seq(S), NEW q \in Seq(S), NEW R, Apart(p, q, R)
    PROVE  /\ p \o q \in Seq(S)
           /\ Rises(p \o q, R)
           /\ \A s \in Seq(S) : Under(s, p, R) /\ Under(s, q, R) => Under(s, p \o q, R)
           /\ \A s \in Seq(S) : Under(p, s, R) /\ Under(q, s, R) => Under(p \o q, s, R)
<1> DEFINE a == p \o q
<1>1. /\ Len(q) \in Nat /\ Len(p) \in Nat /\ a \in Seq(S) /\ Len(a) = Len(p) + Len(q)
  OBVIOUS
<1>2. \A i \in 1..Len(p) : a[i] = p[i]
  OBVIOUS
<1>3. \A i \in 1..Len(q) : a[Len(p) + i] = q[i]
  OBVIOUS
<1>4. ASSUME NEW i \in 1..Len(a)
      PROVE  i \in 1..Len(p) \/ \E j \in 1..Len(q) : i = Len(p) + j
  <2>1. CASE i <= Len(p)
    BY <1>1, <2>1
  <2>2. CASE i > Len(p)
    <3>1. i - Len(p) \in 1..Len(q) /\ i = Len(p) + (i - Len(p))
      BY <1>1, <2>2
    <3> QED
      BY <3>1
  <2> QED
    BY <1>1, <2>1, <2>2
<1> HIDE DEF a
<1>5. Rises(a, R)
  <2> SUFFICES ASSUME NEW i \in 1..Len(a), NEW j \in 1..Len(a), i < j
               PROVE  <<a[i], a[j]>> \in R
    BY DEF Rises
  <2>1. CASE i \in 1..Len(p) /\ j \in 1..Len(p)
    BY <1>2, <2>1 DEF Apart, Rises
  <2>2. CASE i \in 1..Len(p) /\ \E k \in 1..Len(q) : j = Len(p) + k
    BY <1>2, <1>3, <2>2 DEF Apart, Under
  <2>3. ASSUME NEW k \in 1..Len(q), i = Len(p) + k PROVE <<a[i], a[j]>> \in R
    <3>1. PICK m \in 1..Len(q) : j = Len(p) + m
      BY <1>1, <1>4, <2>3
    <3>2. k < m
      BY <1>1, <2>3, <3>1
    <3>3. <<q[k], q[m]>> \in R
      BY <3>2 DEF Apart, Rises
    <3> QED
      BY <1>3, <2>3, <3>1, <3>3
  <2> QED
    BY <1>4, <2>1, <2>2, <2>3
<1>6. ASSUME NEW s \in Seq(S), Under(s, p, R), Under(s, q, R) PROVE Under(s, a, R)
  BY <1>2, <1>3, <1>4, <1>6 DEF Under
<1>7. ASSUME NEW s \in Seq(S), Under(p, s, R), Under(q, s, R) PROVE Under(a, s, R)
  BY <1>2, <1>3, <1>4, <1>7 DEF Under
<1> QED
  BY <1>1, <1>5, <1>6, <1>7 DEF a

----------------------------------------------------------------------------
(* What two app.confs make of an app, read one after the other, is what    *)
(* their last words say.                                                   *)

Confs == Install \cup {NotThere}

\* An app.conf, there or not, has a state and a priority.
LEMMA ConfType ==
    ASSUME NEW c \in Confs
    PROVE  /\ c.state \in {"", "enabled", "disabled", "other"}
           /\ c.priority \in SUBSET Int
<1>1. CASE c \in Install
  BY <1>1, ConfLayeringAssumption
<1>2. CASE c = NotThere
  BY <1>2 DEF NotThere
<1> QED
  BY <1>1, <1>2 DEF Confs

\* read_app_install makes of an app what the last words of its app.confs say.
LEMMA LastWordsCount ==
    ASSUME NEW c \in Confs, NEW d \in Confs
    PROVE  /\ Installed(c, d) = Meant(c, d)
           /\ Meant(c, d) \in [enabled : BOOLEAN, priority : Int]
<1>1. /\ c.state \in {"", "enabled", "disabled", "other"} /\ c.priority \in SUBSET Int
      /\ d.state \in {"", "enabled", "disabled", "other"} /\ d.priority \in SUBSET Int
  BY ConfType
<1> DEFINE first == Says(c, [enabled |-> TRUE, priority |-> 0])
<1>2. /\ first.enabled = (c.state # "disabled")
      /\ first.priority = IF c.priority = {} THEN 0 ELSE CHOOSE p \in c.priority : TRUE
  <2>1. /\ first.enabled = (c.state = "enabled" \/ (c.state # "disabled" /\ TRUE))
        /\ first.priority = IF c.priority = {} THEN 0 ELSE CHOOSE p \in c.priority : TRUE
    BY DEF Says
  <2> HIDE DEF first
  <2> QED
    BY <2>1
<1> DEFINE e == IF d.state \in {"enabled", "disabled"} THEN d.state = "enabled"
                ELSE c.state # "disabled"
           P == IF d.priority # {} THEN d.priority
                ELSE IF c.priority # {} THEN c.priority ELSE {0}
           n == CHOOSE p \in P : TRUE
<1>3. e \in BOOLEAN /\ P # {} /\ P \in SUBSET Int
  <2>1. e \in BOOLEAN
    BY Zenon
  <2>2. P # {} /\ P \in SUBSET Int
    <3>1. CASE d.priority # {}
      BY <1>1, <3>1
    <3>2. CASE d.priority = {} /\ c.priority # {}
      BY <1>1, <3>2
    <3>3. CASE d.priority = {} /\ c.priority = {}
      BY <3>3
    <3> QED
      BY <3>1, <3>2, <3>3
  <2> QED
    BY <2>1, <2>2
<1>4. n \in Int
  <2> HIDE DEF P
  <2> QED
    BY <1>3
<1>5. (d.state = "enabled" \/ (d.state # "disabled" /\ first.enabled)) = e
  BY <1>1, <1>2
<1>6. (IF d.priority = {} THEN first.priority ELSE CHOOSE p \in d.priority : TRUE) = n
  <2>1. CASE d.priority # {}
    BY <2>1
  <2>2. CASE d.priority = {} /\ c.priority # {}
    BY <1>2, <2>2
  <2>3. CASE d.priority = {} /\ c.priority = {}
    <3>1. n \in {0}
      BY <2>3
    <3> QED
      BY <1>2, <2>3, <3>1
  <2> QED
    BY <2>1, <2>2, <2>3
<1>7. Installed(c, d) = [enabled |-> e, priority |-> n]
  <2>1. Installed(c, d) =
          [enabled |-> d.state = "enabled" \/ (d.state # "disabled" /\ first.enabled),
           priority |-> IF d.priority = {} THEN first.priority
                        ELSE CHOOSE p \in d.priority : TRUE]
    BY DEF Installed, Says
  <2> HIDE DEF e, n, P, first
  <2> QED
    BY <1>5, <1>6, <2>1, Zenon
<1>8. Meant(c, d) = [enabled |-> e, priority |-> n]
  BY DEF Meant
<1> HIDE DEF e, n, P
<1> QED
  BY <1>3, <1>4, <1>7, <1>8

----------------------------------------------------------------------------
(* The apps found so far are known to meant, in the order of the roots     *)
(* and, in a root, of list_app_dirs.                                       *)

\* meant agrees with the app, and it was asked for.
Known(a) ==
    /\ <<a.root, a.name>> \in DOMAIN meant
    /\ meant[<<a.root, a.name>>].priority = a.priority
    /\ meant[<<a.root, a.name>>].enabled \/ options.includeDisabled
    /\ a.name \notin Hidden
    /\ options.filter \subseteq {a.name}

Ladder == {p \in App \X App : p[1].root < p[2].root \/ (p[1].root = p[2].root /\ Ahead(p[1], p[2]))}

\* What is listed of apps.
ListInv ==
    /\ IsFiniteSet(apps)
    /\ phase = "entries" => \A a \in apps : Known(a) /\ a.root = root /\ a.name \notin left
    /\ \A i \in 1..Len(layered) : Known(layered[i]) /\ layered[i].root < root
    /\ Rises(layered, Ladder)

\* Apps that differ have different names, as there is one priority for each.
LEMMA AppsTotal ==
    ASSUME LayeringTypeOK, ListInv, phase = "entries"
    PROVE  Total(apps)
<1> SUFFICES ASSUME NEW a \in apps, NEW b \in apps, a # b
             PROVE  Ahead(a, b) \/ Ahead(b, a)
  BY DEF Total
<1>1. a \in App /\ b \in App
  BY DEF LayeringTypeOK
<1>2. /\ a.root = root /\ meant[<<a.root, a.name>>].priority = a.priority
      /\ b.root = root /\ meant[<<b.root, b.name>>].priority = b.priority
  BY DEF ListInv, Known
<1>3. a.name # b.name
  BY <1>1, <1>2 DEF App
<1> QED
  BY <1>1, <1>3 DEF App, Ahead

\* The apps of a root can be sorted.
LEMMA AppsSorted ==
    ASSUME LayeringTypeOK, ListInv, phase = "entries"
    PROVE  /\ Sorted(apps) \in Seq(App)
           /\ \A i \in 1..Len(Sorted(apps)) : Sorted(apps)[i] \in apps
           /\ Rises(Sorted(apps), Ladder)
<1>1. apps \in SUBSET App
  BY DEF LayeringTypeOK
<1>2. /\ Sorted(apps) \in [1..Cardinality(apps) -> apps]
      /\ Rising(Sorted(apps), Cardinality(apps))
      /\ Cardinality(apps) \in Nat
  BY <1>1, AppsTotal, SortedExists DEF ListInv
<1> DEFINE q == Sorted(apps)
           n == Cardinality(apps)
<1> HIDE DEF q, n
<1>3. q \in [1..n -> apps] /\ Rising(q, n) /\ n \in Nat
  BY <1>2 DEF q, n
<1>4. q \in Seq(App) /\ Len(q) = n
  BY <1>1, <1>3
<1>5. \A i \in 1..n : q[i] \in apps /\ q[i] \in App /\ q[i].root = root
  BY <1>1, <1>3 DEF ListInv
<1>6. Rises(q, Ladder)
  BY <1>3, <1>4, <1>5 DEF Rises, Rising, Ladder
<1> QED
  BY <1>3, <1>4, <1>6 DEF q

\* There are finitely many roots.
LEMMA RootsType == Len(AppsIn) \in Nat /\ \A r \in Roots : AppsIn[r] \in SUBSET Int
<1>1. AppsIn \in Seq(SUBSET Int)
  BY ConfLayeringAssumption
<1> QED
  BY <1>1 DEF Roots

LEMMA EmptyDomain == ASSUME NEW m, m = <<>> PROVE DOMAIN m = {}
<1>1. <<>> \in Seq({}) /\ Len(<<>>) = 0
  OBVIOUS
<1> QED
  BY <1>1

LEMMA EmptySequence == \A S : <<>> \in Seq(S)
  OBVIOUS

LEMMA Singleton == ASSUME NEW S, NEW e \in S, NEW q, q = <<e>> PROVE q \in Seq(S)
  OBVIOUS

LEMMA JoinType ==
    ASSUME NEW S, NEW p \in Seq(S), NEW q \in Seq(S), NEW r \in Seq(S)
    PROVE  p \o q \o r \in Seq(S)
  OBVIOUS

\* An element of a join is one of a part.
LEMMA JoinElement ==
    ASSUME NEW S, NEW p \in Seq(S), NEW q \in Seq(S), NEW i \in 1..Len(p \o q)
    PROVE  \/ \E j \in 1..Len(p) : (p \o q)[i] = p[j]
           \/ \E j \in 1..Len(q) : (p \o q)[i] = q[j]
<1>1. CASE i <= Len(p)
  BY <1>1
<1>2. CASE i > Len(p)
  <2>1. i - Len(p) \in 1..Len(q) /\ (p \o q)[i] = q[i - Len(p)]
    BY <1>2
  <2> QED
    BY <2>1
<1> QED
  BY <1>1, <1>2

LEMMA PushType ==
    ASSUME NEW S, NEW p \in Seq(S), NEW q \in Seq(S), q # <<>>
    PROVE  Append(p, Head(q)) \in Seq(S) /\ Tail(q) \in Seq(S)
  OBVIOUS

\* A call starts with variables of their types, and with no app found.
LEMMA LayeringInitType == LayeringInit => LayeringTypeOK /\ ListInv
<1> SUFFICES ASSUME LayeringInit PROVE LayeringTypeOK /\ ListInv
  OBVIOUS
<1>1. Len(AppsIn) \in Nat
  BY RootsType
<1>2. SystemDefault \in Place
  BY DEF SystemDefault, Dir, Place, Layers
<1>3. todo \in Seq(Place)
  BY <1>2, Singleton DEF LayeringInit
<1>4. LayeringTypeOK
  <2>1. /\ options \in Options
        /\ phase = "system default"
        /\ root = 1 /\ left = {} /\ apps = {} /\ layered = <<>> /\ sources = <<>>
        /\ contents = <<>> /\ meant = <<>>
    BY DEF LayeringInit
  <2>2. DOMAIN meant = {}
    BY <2>1, EmptyDomain
  <2>3. layered \in Seq(App) /\ sources \in Seq(Place) /\ contents \in Seq(Content)
    BY <2>1, EmptySequence, Zenon
  <2>4. 1 \in 1..Len(AppsIn) + 1
    BY <1>1
  <2> QED
    BY <1>3, <2>1, <2>2, <2>3, <2>4 DEF LayeringTypeOK
<1>5. ListInv
  <2>1. phase = "system default" /\ apps = {} /\ layered = <<>>
    BY DEF LayeringInit
  <2>2. \A i : i \notin 1..Len(layered)
    <3>1. layered = <<>>
      BY <2>1
    <3> QED
      BY <3>1
  <2> QED
    BY <2>1, <2>2, FS_EmptySet, Zenon DEF ListInv, Rises
<1> QED
  BY <1>4, <1>5

\* The directories of sorted apps.
LEMMA DirsType ==
    ASSUME NEW q \in Seq(App), NEW layer \in Layers
    PROVE  /\ Dirs(layer, q) \in Seq(Place)
           /\ Len(Dirs(layer, q)) = Len(q)
           /\ \A i \in 1..Len(q) : /\ Dirs(layer, q)[i].layer = layer
                                   /\ Dirs(layer, q)[i].root = q[i].root
                                   /\ Dirs(layer, q)[i].name = q[i].name
<1>1. \A i \in 1..Len(q) : q[i] \in App
  OBVIOUS
<1>2. \A i \in 1..Len(q) : Dir(layer, q[i].root, q[i].name) \in Place
  BY <1>1 DEF Dir, Place, App
<1>3. Dirs(layer, q) = [i \in 1..Len(q) |-> Dir(layer, q[i].root, q[i].name)]
  BY DEF Dirs
<1>4. Dirs(layer, q) \in Seq(Place) /\ Len(Dirs(layer, q)) = Len(q)
  BY <1>2, <1>3
<1> QED
  BY <1>3, <1>4 DEF Dir

\* The apps of a user, which have no root and no priority.
UserApp(N) == {[root |-> 0, name |-> n, priority |-> 0] : n \in N}

\* Among apps of a user the names decide.
LEMMA UsersSorted ==
    ASSUME NEW N \in SUBSET UserApps
    PROVE  /\ Sorted(UserApp(N)) \in Seq(App)
           /\ \A i \in 1..Len(Sorted(UserApp(N))) :
                 /\ Sorted(UserApp(N))[i].root = 0
                 /\ Sorted(UserApp(N))[i].name \in N
           /\ \A i, j \in 1..Len(Sorted(UserApp(N))) :
                 i < j => Sorted(UserApp(N))[i].name < Sorted(UserApp(N))[j].name
<1> DEFINE T == UserApp(N)
           f == [n \in N |-> [root |-> 0, name |-> n, priority |-> 0]]
<1>1. N \in SUBSET Int /\ IsFiniteSet(N)
  BY ConfLayeringAssumption, FS_Subset
<1>2. f \in Surjection(N, T)
  BY DEF UserApp, Surjection
<1>3. IsFiniteSet(T)
  <2> HIDE DEF T, f
  <2> QED
    BY <1>1, <1>2, FS_Surjection
<1>4. \A t \in T : t \in App /\ t.root = 0 /\ t.priority = 0 /\ t.name \in N
  BY <1>1 DEF UserApp, App
<1>5. Total(T)
  <2> SUFFICES ASSUME NEW a \in T, NEW b \in T, a # b PROVE Ahead(a, b) \/ Ahead(b, a)
    BY DEF Total
  <2> HIDE DEF T
  <2>1. a.name # b.name
    BY <1>4 DEF App
  <2> QED
    BY <1>4, <2>1 DEF App, Ahead
<1> DEFINE q == Sorted(T)
           n == Cardinality(T)
<1>6. q \in [1..n -> T] /\ Rising(q, n) /\ n \in Nat
  <2> HIDE DEF T
  <2>1. T \in SUBSET App
    BY <1>4
  <2> QED
    BY <1>3, <1>5, <2>1, SortedExists
<1> HIDE DEF q, n
<1>7. q \in Seq(App) /\ Len(q) = n
  <2> HIDE DEF T
  <2> QED
    BY <1>4, <1>6
<1>8. \A i \in 1..n : q[i] \in T /\ q[i].root = 0 /\ q[i].priority = 0 /\ q[i].name \in N
  <2> HIDE DEF T
  <2> QED
    BY <1>4, <1>6
<1>9. \A i, j \in 1..n : i < j => q[i].name < q[j].name
  <2> SUFFICES ASSUME NEW i \in 1..n, NEW j \in 1..n, i < j PROVE q[i].name < q[j].name
    OBVIOUS
  <2>1. Ahead(q[i], q[j])
    BY <1>6 DEF Rising
  <2> QED
    BY <1>8, <2>1 DEF Ahead
<1> QED
  BY <1>7, <1>8, <1>9 DEF q

LEMMA SeqUp == ASSUME NEW S, NEW T, S \subseteq T, NEW q \in Seq(S) PROVE q \in Seq(T)
  OBVIOUS

\* A step keeps the types.
LEMMA LayeringTypeStep ==
    ASSUME LayeringTypeOK, ListInv, [LayeringNext]_layeringVars
    PROVE  LayeringTypeOK'
<1> USE DEF collecting, reading
<1>0. /\ Len(AppsIn) \in Nat /\ \A r \in Roots : AppsIn[r] \in SUBSET Int
      /\ todo \in Seq(Place) /\ sources \in Seq(Place)
  BY RootsType DEF LayeringTypeOK
<1>1. CASE PushFile \/ NoFile
  <2>1. todo # <<>>
    BY <1>1 DEF PushFile, NoFile, Looking
  <2>2. Append(sources, Head(todo)) \in Seq(Place) /\ Tail(todo) \in Seq(Place)
    BY <1>0, <2>1, PushType
  <2>3. /\ sources' \in Seq(Place) /\ todo' \in Seq(Place)
        /\ UNCHANGED <<options, phase, root, left, apps, layered, meant, contents>>
    BY <1>0, <1>1, <2>2 DEF PushFile, NoFile
  <2> QED
    BY <2>3 DEF LayeringTypeOK
<1>2. CASE Collected
  BY <1>2 DEF Collected, LayeringTypeOK
<1>3. CASE Failed
  BY <1>3 DEF Failed, LayeringTypeOK
<1>4. CASE ListRoot
  <2>1. /\ left' \in SUBSET AppsIn[root] /\ root \in Roots /\ apps' = {}
        /\ phase' = "entries"
        /\ UNCHANGED <<options, root, layered, todo, sources, meant, contents>>
    BY <1>4 DEF ListRoot
  <2>2. left' \in SUBSET Int
    BY <1>0, <2>1
  <2> QED
    BY <2>1, <2>2 DEF LayeringTypeOK
<1>5. ASSUME NEW n \in left, SkipEntry(n) PROVE LayeringTypeOK'
  BY <1>5 DEF SkipEntry, TakeEntry, LayeringTypeOK
<1>6. ASSUME NEW n \in left, AppEntry(n) PROVE LayeringTypeOK'
  <2>1. PICK c \in Confs, d \in Confs :
          /\ apps' = IF Wanted(Installed(c, d))
                     THEN apps \cup {[root |-> root, name |-> n,
                                      priority |-> Installed(c, d).priority]}
                     ELSE apps
          /\ meant' = [a \in DOMAIN meant \cup {<<root, n>>} |->
                          IF a = <<root, n>> THEN Meant(c, d) ELSE meant[a]]
    BY <1>6 DEF AppEntry, Confs
  <2>2. /\ Installed(c, d) = Meant(c, d)
        /\ Meant(c, d) \in [enabled : BOOLEAN, priority : Int]
    BY LastWordsCount
  <2>3. root \in Nat /\ n \in Int
    <3>1. root \in 1..Len(AppsIn) + 1
      BY DEF LayeringTypeOK
    <3>2. root \in Nat
      BY <1>0, <3>1
    <3>3. n \in Int
      BY DEF LayeringTypeOK
    <3> QED
      BY <3>2, <3>3
  <2> DEFINE m == Meant(c, d)
             app == [root |-> root, name |-> n, priority |-> Installed(c, d).priority]
  <2>4. apps' \in SUBSET App
    <3>1. app \in App
      BY <2>2, <2>3 DEF App
    <3> HIDE DEF app
    <3>2. apps' \in {apps, apps \cup {app}}
      BY <2>1 DEF app
    <3>3. apps \in SUBSET App
      BY DEF LayeringTypeOK
    <3> QED
      BY <3>1, <3>2, <3>3
  <2>5. /\ DOMAIN meant' \subseteq Nat \X Int
        /\ \A a \in DOMAIN meant' : meant'[a] \in [enabled : BOOLEAN, priority : Int]
    <3>1. <<root, n>> \in Nat \X Int
      BY <2>3
    <3> HIDE DEF m
    <3>2. meant' = [a \in DOMAIN meant \cup {<<root, n>>} |-> IF a = <<root, n>> THEN m ELSE meant[a]]
      BY <2>1 DEF m
    <3>3. m \in [enabled : BOOLEAN, priority : Int]
      BY <2>2 DEF m
    <3>4. /\ DOMAIN meant \subseteq Nat \X Int
          /\ \A a \in DOMAIN meant : meant[a] \in [enabled : BOOLEAN, priority : Int]
      BY DEF LayeringTypeOK
    <3> QED
      BY <3>1, <3>2, <3>3, <3>4
  <2>6. /\ UNCHANGED <<options, phase, root, layered, todo, sources, contents>>
        /\ left' \in SUBSET Int
    BY <1>6 DEF AppEntry, TakeEntry, LayeringTypeOK
  <2> QED
    BY <2>4, <2>5, <2>6 DEF LayeringTypeOK
<1>7. CASE RootDone
  <2>1. Sorted(apps) \in Seq(App) /\ layered \in Seq(App)
    BY <1>7, AppsSorted DEF RootDone, LayeringTypeOK
  <2>2. layered' \in Seq(App)
    BY <1>7, <2>1 DEF RootDone
  <2>3. root' \in 1..Len(AppsIn) + 1
    <3>1. root \in 1..Len(AppsIn) /\ root' = root + 1
      BY <1>7 DEF RootDone, Roots, LayeringTypeOK
    <3> QED
      BY <1>0, <3>1
  <2>4. phase' = "list" /\ UNCHANGED <<options, left, apps, todo, sources, meant, contents>>
    BY <1>7 DEF RootDone
  <2> QED
    BY <2>2, <2>3, <2>4 DEF LayeringTypeOK
<1>8. CASE RootsDone
  <2>1. layered \in Seq(App)
    BY DEF LayeringTypeOK
  <2>2. /\ Dirs("app default", layered) \in Seq(Place)
        /\ Dirs("app local", layered) \in Seq(Place)
    BY <2>1, DirsType DEF Layers
  <2>3. <<SystemLocal>> \in Seq(Place)
    BY Singleton DEF SystemLocal, Dir, Place, Layers
  <2>4. todo' \in Seq(Place)
    BY <1>8, <2>2, <2>3, JoinType, Zenon DEF RootsDone
  <2>5. phase' = "apps" /\ UNCHANGED <<options, root, left, apps, layered, sources, meant, contents>>
    BY <1>8 DEF RootsDone
  <2> QED
    BY <2>4, <2>5 DEF LayeringTypeOK
<1>9. CASE UserDirs
  <2>1. PICK N \in SUBSET UserApps : todo' = Dirs("user", Sorted(UserApp(N)))
    BY <1>9 DEF UserDirs, UserApp
  <2>2. todo' \in Seq(Place)
    BY <2>1, UsersSorted, DirsType DEF Layers
  <2>3. phase' = "user" /\ UNCHANGED <<options, root, left, apps, layered, sources, meant, contents>>
    BY <1>9 DEF UserDirs
  <2> QED
    BY <2>2, <2>3 DEF LayeringTypeOK
<1>10. CASE ReadFile
  <2>1. contents \in Seq(Content)
    BY DEF LayeringTypeOK
  <2>2. contents' \in Seq(Content)
    BY <1>10, <2>1 DEF ReadFile
  <2>3. UNCHANGED <<options, phase, root, left, apps, layered, todo, sources, meant>>
    BY <1>10 DEF ReadFile
  <2> QED
    BY <2>2, <2>3 DEF LayeringTypeOK
<1>11. CASE NoUser \/ Merged \/ Inherit \/ Expand \/ UNCHANGED layeringVars
  BY <1>11 DEF NoUser, Merged, Inherit, Expand, layeringVars, LayeringTypeOK
<1>12. CASE \/ PushFails \/ ListRootFails \/ EntryFails \/ UserDirsFails \/ ReadFileFails
  BY <1>3, <1>12, Zenon DEF PushFails, ListRootFails, EntryFails, UserDirsFails, ReadFileFails
<1> QED
  BY <1>1, <1>2, <1>4, <1>5, <1>6, <1>7, <1>8, <1>9, <1>10, <1>11, <1>12, Zenon
     DEF LayeringNext

\* A step keeps the apps found known and in order.
LEMMA ListStep ==
    ASSUME LayeringTypeOK, ListInv, [LayeringNext]_layeringVars
    PROVE  ListInv'
<1> USE DEF collecting, reading
<1>0. /\ IsFiniteSet(apps)
      /\ phase = "entries" => \A a \in apps : Known(a) /\ a.root = root /\ a.name \notin left
      /\ \A i \in 1..Len(layered) : Known(layered[i]) /\ layered[i].root < root
      /\ Rises(layered, Ladder)
  BY DEF ListInv
<1>1. ASSUME UNCHANGED <<options, root, apps, layered, meant>>,
             phase' = "entries" => phase = "entries" /\ left' \subseteq left
      PROVE  ListInv'
  <2>1. \A a : Known(a) => Known(a)'
    BY <1>1 DEF Known
  <2> QED
    BY <1>0, <1>1, <2>1 DEF ListInv
<1>2. CASE PushFile \/ NoFile
  BY <1>1, <1>2 DEF PushFile, NoFile, Looking
<1>3. CASE Collected
  BY <1>1, <1>3 DEF Collected
<1>4. CASE Failed
  BY <1>1, <1>4 DEF Failed
<1>5. CASE ListRoot
  <2>1. apps' = {} /\ UNCHANGED <<options, root, layered, meant>>
    BY <1>5 DEF ListRoot
  <2>2. \A a : Known(a) => Known(a)'
    BY <2>1 DEF Known
  <2> QED
    BY <1>0, <2>1, <2>2, FS_EmptySet DEF ListInv
<1>6. ASSUME NEW n \in left, SkipEntry(n) PROVE ListInv'
  BY <1>1, <1>6 DEF SkipEntry, TakeEntry
<1>7. ASSUME NEW n \in left, AppEntry(n) PROVE ListInv'
  <2>1. PICK c \in Confs, d \in Confs :
          /\ apps' = IF Wanted(Installed(c, d))
                     THEN apps \cup {[root |-> root, name |-> n,
                                      priority |-> Installed(c, d).priority]}
                     ELSE apps
          /\ meant' = [a \in DOMAIN meant \cup {<<root, n>>} |->
                          IF a = <<root, n>> THEN Meant(c, d) ELSE meant[a]]
    BY <1>7 DEF AppEntry, Confs
  <2>2. /\ phase = "entries" /\ left' = left \ {n}
        /\ n \notin Hidden /\ options.filter \subseteq {n}
        /\ UNCHANGED <<options, phase, root, layered>>
    BY <1>7 DEF AppEntry, TakeEntry, Asked
  <2> DEFINE m == Meant(c, d)
  <2>3. Installed(c, d) = m
    BY LastWordsCount
  <2> HIDE DEF m
  <2>4. PICK app : /\ app = [root |-> root, name |-> n, priority |-> m.priority]
                   /\ apps' = (IF Wanted(m) THEN apps \cup {app} ELSE apps)
    BY <2>1, <2>3
  <2>5. meant' = [a \in DOMAIN meant \cup {<<root, n>>} |-> IF a = <<root, n>> THEN m ELSE meant[a]]
    BY <2>1 DEF m
  <2>6. \A a : Known(a) /\ <<a.root, a.name>> # <<root, n>> => Known(a)'
    BY <2>2, <2>5 DEF Known
  <2>7. \A a \in apps : Known(a)' /\ a.root = root /\ a.name \notin left'
    BY <1>0, <2>2, <2>6
  <2>8. \A i \in 1..Len(layered) : Known(layered[i])'
    <3> SUFFICES ASSUME NEW i \in 1..Len(layered) PROVE Known(layered[i])'
      OBVIOUS
    <3>1. Known(layered[i]) /\ layered[i].root < root /\ layered[i].root \in Int /\ root \in Int
      <4>0. layered \in Seq(App) /\ root \in 1..Len(AppsIn) + 1
        BY DEF LayeringTypeOK
      <4>1. layered[i] \in App /\ root \in 1..Len(AppsIn) + 1
        BY <4>0
      <4>2. root \in Int
        BY <4>1, RootsType
      <4> QED
        BY <1>0, <4>1, <4>2 DEF App
    <3>2. layered[i].root # root
      BY <3>1
    <3> QED
      BY <2>2, <2>6, <3>1, <3>2
  <2>9. Wanted(m) => Known(app)' /\ app.root = root /\ app.name \notin left'
    BY <2>2, <2>4, <2>5 DEF Known, Wanted
  <2>10. IsFiniteSet(apps')
    BY <1>0, <2>4, FS_AddElement
  <2>11. \A a \in apps' : Known(a)' /\ a.root = root /\ a.name \notin left'
    BY <2>4, <2>7, <2>9
  <2> QED
    BY <1>0, <2>2, <2>8, <2>10, <2>11 DEF ListInv
<1>8. CASE RootDone
  <2>1. /\ phase = "entries" /\ phase' = "list" /\ root' = root + 1
        /\ layered' = layered \o Sorted(apps)
        /\ UNCHANGED <<options, apps, meant>>
    BY <1>8 DEF RootDone
  <2> DEFINE q == Sorted(apps)
  <2>2. /\ q \in Seq(App) /\ Rises(q, Ladder)
        /\ \A i \in 1..Len(q) : q[i] \in apps
    BY <2>1, AppsSorted
  <2>3. layered \in Seq(App)
    BY DEF LayeringTypeOK
  <2>4. root \in Int
    <3>1. root \in 1..Len(AppsIn) + 1
      BY DEF LayeringTypeOK
    <3> QED
      BY <3>1, RootsType
  <2> HIDE DEF q
  <2>5. \A i \in 1..Len(q) : q[i] \in App /\ Known(q[i]) /\ q[i].root = root
    BY <1>0, <2>1, <2>2
  <2>6. \A i \in 1..Len(layered) : layered[i] \in App /\ Known(layered[i]) /\ layered[i].root < root
    BY <1>0, <2>3
  <2>7. Under(layered, q, Ladder)
    BY <2>5, <2>6 DEF Under, Ladder
  <2>8. Rises(layered \o q, Ladder)
    BY <1>0, <2>2, <2>3, <2>7, Join DEF Apart
  <2>9. \A a : Known(a) => Known(a)'
    BY <2>1 DEF Known
  <2>10. \A i \in 1..Len(layered') : Known(layered[i])' /\ (layered[i].root < root)'
    <3> SUFFICES ASSUME NEW i \in 1..Len(layered')
                 PROVE  Known(layered[i])' /\ (layered[i].root < root)'
      OBVIOUS
    <3>1. PICK a : a = layered'[i]
      OBVIOUS
    <3>2. a = (layered \o q)[i] /\ i \in 1..Len(layered \o q)
      BY <2>1, <3>1 DEF q
    <3>3. (\E j \in 1..Len(layered) : a = layered[j]) \/ (\E j \in 1..Len(q) : a = q[j])
      BY <2>2, <2>3, <3>2, JoinElement
    <3>4. a \in App /\ Known(a) /\ (a.root < root \/ a.root = root)
      BY <2>5, <2>6, <3>3
    <3>5. a.root \in Int
      BY <3>4 DEF App
    <3>6. a.root < root'
      BY <2>1, <2>4, <3>4, <3>5
    <3> QED
      BY <2>9, <3>1, <3>4, <3>6
  <2> QED
    BY <1>0, <2>1, <2>8, <2>10 DEF ListInv, q
<1>9. CASE RootsDone \/ UserDirs
  BY <1>1, <1>9 DEF RootsDone, UserDirs
<1>10. CASE NoUser \/ ReadFile \/ Merged \/ Inherit \/ Expand \/ UNCHANGED layeringVars
  BY <1>1, <1>10 DEF NoUser, ReadFile, Merged, Inherit, Expand, layeringVars
<1>11. CASE \/ PushFails \/ ListRootFails \/ EntryFails \/ UserDirsFails \/ ReadFileFails
  BY <1>4, <1>11, Zenon DEF PushFails, ListRootFails, EntryFails, UserDirsFails, ReadFileFails
<1> QED
  BY <1>2, <1>3, <1>5, <1>6, <1>7, <1>8, <1>9, <1>10, <1>11, Zenon DEF LayeringNext

----------------------------------------------------------------------------
(* Files found and directories yet to look into are such as were asked     *)
(* for, and rise: that is what makes the last one to set a key the highest.*)

\* What a call may look into.
Fine ==
    {f \in Place :
       /\ InApp(f) => /\ meant[<<f.root, f.name>>].enabled \/ options.includeDisabled
                      /\ <<f.root, f.name>> \in DOMAIN meant
                      /\ f.name \notin Hidden
       /\ InApp(f) \/ f.layer = "user" => options.filter \subseteq {f.name}
       /\ f.layer = "user" => options.user}

Lower == {p \in Place \X Place : Below(p[1], p[2])}

Global == {f \in Fine : f.layer # "user"}

\* What is found and what is looked for, in order.
OrderInv ==
    /\ Apart(sources, todo, Lower)
    /\ sources \in Seq(Fine) /\ todo \in Seq(Fine)
    /\ phase \notin {"system default", "apps", "user", "failed"} => todo = <<>>
    /\ phase \in {"system default", "list", "entries"} => sources \in Seq({SystemDefault})
    /\ phase = "system default" => todo \in Seq({SystemDefault})
    /\ phase \in {"apps", "users"} => sources \in Seq(Global)
    /\ phase = "apps" => todo \in Seq(Global)

LEMMA ElementsType == ASSUME NEW S, NEW q \in Seq(S) PROVE \A i \in 1..Len(q) : q[i] \in S
  OBVIOUS

LEMMA Retype ==
    ASSUME NEW S, NEW T, NEW q \in Seq(S), \A i \in 1..Len(q) : q[i] \in T
    PROVE  q \in Seq(T)
  OBVIOUS

\* The level of a file is that of its layer.
LEMMA LevelIs ==
    ASSUME NEW f \in Place
    PROVE  /\ f.layer = "system default" => Level(f) = 1
           /\ f.layer = "app default" => Level(f) = 2
           /\ f.layer = "app local" => Level(f) = 3
           /\ f.layer = "system local" => Level(f) = 4
           /\ f.layer = "user" => Level(f) = 5
           /\ Level(f) \in 1..5
           /\ f.layer # "user" => Level(f) \in 1..4
<1>1. f.layer \in Layers
  BY DEF Place
<1>2. /\ f.layer = "system default" => Level(f) = 1
      /\ f.layer = "app default" => Level(f) = 2
      /\ f.layer = "app local" => Level(f) = 3
      /\ f.layer = "system local" => Level(f) = 4
      /\ f.layer = "user" => Level(f) = 5
  <2>1. ASSUME f.layer = "system default" PROVE Level(f) = 1
    BY <2>1 DEF Level
  <2>2. ASSUME f.layer = "app default" PROVE Level(f) = 2
    BY <2>2 DEF Level
  <2>3. ASSUME f.layer = "app local" PROVE Level(f) = 3
    BY <2>3 DEF Level
  <2>4. ASSUME f.layer = "system local" PROVE Level(f) = 4
    BY <2>4 DEF Level
  <2>5. ASSUME f.layer = "user" PROVE Level(f) = 5
    BY <2>5 DEF Level
  <2> QED
    BY <2>1, <2>2, <2>3, <2>4, <2>5
<1>3. f.layer # "user" => Level(f) \in {1, 2, 3, 4}
  BY <1>1, <1>2, Zenon DEF Layers
<1>4. \A n \in {1, 2, 3, 4} : n \in 1..4 /\ n \in 1..5
  OBVIOUS
<1>5. 5 \in 1..5
  OBVIOUS
<1> QED
  BY <1>2, <1>3, <1>4, <1>5, Zenon

\* A file of a lower layer is below.
LEMMA LayerBelow ==
    ASSUME NEW f \in Place, NEW g \in Place, Level(f) < Level(g)
    PROVE  <<f, g>> \in Lower
  BY DEF Lower, Below

\* The default directory of the system is not below itself.
LEMMA Twice == <<SystemDefault, SystemDefault>> \notin Lower
<1>1. /\ SystemDefault.root = 0 /\ SystemDefault.name = 0
      /\ SystemDefault.layer = "system default" /\ SystemDefault \in Place
  BY DEF SystemDefault, Dir, Place, Layers
<1>2. Level(SystemDefault) = 1
  BY <1>1, LevelIs
<1>3. Priority(SystemDefault) = 0
  BY <1>1 DEF Priority, InApp
<1>4. ~Below(SystemDefault, SystemDefault)
  <2>1. PICK f : f = SystemDefault
    OBVIOUS
  <2>2. Level(f) = 1 /\ Priority(f) = 0 /\ f.root = 0 /\ f.name = 0
    BY <1>1, <1>2, <1>3, <2>1
  <2>3. ~Below(f, f)
    BY <2>2 DEF Below
  <2> QED
    BY <2>1, <2>3
<1> QED
  BY <1>4 DEF Lower

\* The directories of the system are always asked for.
LEMMA SystemFine ==
    /\ SystemDefault \in Global /\ SystemDefault.layer = "system default"
    /\ SystemLocal \in Global /\ SystemLocal.layer = "system local"
<1>1. /\ SystemDefault \in Place /\ SystemDefault.layer = "system default"
      /\ SystemLocal \in Place /\ SystemLocal.layer = "system local"
  BY DEF SystemDefault, SystemLocal, Dir, Place, Layers
<1> QED
  BY <1>1 DEF Global, Fine, InApp

\* A call starts with the default directory of the system alone.
LEMMA InitOrder == LayeringInit => OrderInv
<1> SUFFICES ASSUME LayeringInit PROVE OrderInv
  OBVIOUS
<1>1. phase = "system default" /\ sources = <<>> /\ todo = <<SystemDefault>>
  BY DEF LayeringInit
<1>2. SystemDefault \in Fine /\ SystemDefault \in Global
  BY SystemFine DEF Global
<1>3. \A S : sources \in Seq(S)
  BY <1>1, EmptySequence
<1>4. todo \in Seq(Fine) /\ todo \in Seq({SystemDefault})
  BY <1>1, <1>2, Singleton
<1>5. Len(sources) = 0 /\ Len(todo) = 1
  BY <1>1
<1>6. Apart(sources, todo, Lower)
  BY <1>5 DEF Apart, Rises, Under
<1> QED
  BY <1>1, <1>3, <1>4, <1>6 DEF OrderInv

\* Files of different layers, the sequence of the lower ones first.
LEMMA LayersUnder ==
    ASSUME NEW n \in Nat, NEW p \in Seq({f \in Place : Level(f) <= n}),
           NEW q \in Seq({f \in Place : Level(f) > n})
    PROVE  Under(p, q, Lower)
<1> SUFFICES ASSUME NEW i \in 1..Len(p), NEW j \in 1..Len(q) PROVE <<p[i], q[j]>> \in Lower
  BY DEF Under
<1>1. PICK f \in Place : f = p[i] /\ Level(f) <= n
  OBVIOUS
<1>2. PICK g \in Place : g = q[j] /\ Level(g) > n
  OBVIOUS
<1>3. Level(f) \in Int /\ Level(g) \in Int
  <2>1. Level(f) \in 1..5 /\ Level(g) \in 1..5
    BY LevelIs
  <2> QED
    BY <2>1
<1>4. Level(f) < Level(g)
  BY <1>1, <1>2, <1>3
<1> QED
  BY <1>1, <1>2, <1>4, LayerBelow

\* The directories of one layer of the apps found.
LEMMA AppDirsFine ==
    ASSUME LayeringTypeOK, ListInv, NEW layer \in {"app default", "app local"}
    PROVE  /\ Dirs(layer, layered) \in Seq({f \in Global : f.layer = layer})
           /\ Rises(Dirs(layer, layered), Lower)
<1> DEFINE q == layered
           d == Dirs(layer, q)
<1>1. q \in Seq(App)
  BY DEF LayeringTypeOK
<1>2. /\ d \in Seq(Place) /\ Len(d) = Len(q)
      /\ \A i \in 1..Len(q) : d[i].layer = layer /\ d[i].root = q[i].root /\ d[i].name = q[i].name
  <2>1. layer \in Layers
    BY DEF Layers
  <2> QED
    BY <1>1, <2>1, DirsType
<1>3. \A i \in 1..Len(q) : Known(q[i]) /\ q[i] \in App
  <2>1. \A i \in 1..Len(q) : Known(q[i])
    BY DEF ListInv
  <2>2. \A i \in 1..Len(q) : q[i] \in App
    BY <1>1, ElementsType
  <2> QED
    BY <2>1, <2>2, Zenon
<1>4. Rises(q, Ladder)
  BY DEF ListInv
<1> HIDE DEF d, q
<1>5. d \in Seq(Place) /\ Len(d) = Len(q) /\ \A i \in 1..Len(q) : d[i] \in Place
  <2>1. d \in Seq(Place) /\ Len(d) = Len(q)
    BY <1>2
  <2>2. \A i \in 1..Len(d) : d[i] \in Place
    BY <2>1, ElementsType
  <2> QED
    BY <2>1, <2>2, Zenon
<1>6. \A i \in 1..Len(q) : InApp(d[i]) /\ Priority(d[i]) = q[i].priority
  BY <1>2, <1>3 DEF InApp, Priority, Known
<1>7. \A i \in 1..Len(q) : d[i] \in Global /\ d[i].layer = layer
  BY <1>2, <1>3, <1>5, <1>6 DEF Global, Fine, Known
<1>8. Rises(d, Lower)
  <2> SUFFICES ASSUME NEW i \in 1..Len(q), NEW j \in 1..Len(q), i < j
               PROVE  <<d[i], d[j]>> \in Lower
    BY <1>2 DEF Rises
  <2>1. q[i].root < q[j].root \/ (q[i].root = q[j].root /\ Ahead(q[i], q[j]))
    BY <1>4 DEF Rises, Ladder
  <2>2. Level(d[i]) = Level(d[j])
    BY <1>2, <1>5, LevelIs
  <2>3. Below(d[i], d[j])
    BY <1>2, <1>6, <2>1, <2>2 DEF Below, Ahead
  <2> QED
    BY <1>5, <2>3 DEF Lower
<1>9. d \in Seq({f \in Global : f.layer = layer})
  <2>1. \A i \in 1..Len(d) : d[i] \in {f \in Global : f.layer = layer}
    BY <1>5, <1>7
  <2> QED
    BY <1>5, <2>1, Retype
<1> QED
  BY <1>8, <1>9 DEF d, q

\* Nothing is looked for when apps are listed; what was found is of the system.
LEMMA EntryOrder ==
    ASSUME LayeringTypeOK, OrderInv, NEW n \in left, AppEntry(n)
    PROVE  OrderInv'
<1>1. /\ phase = "entries" /\ phase' = "entries" /\ sources' = sources /\ todo' = todo
      /\ options' = options
  BY DEF AppEntry, TakeEntry
<1>2. sources \in Seq({SystemDefault}) /\ todo = <<>>
  BY <1>1 DEF OrderInv
<1>3. \A i \in 1..Len(sources) : sources[i] = SystemDefault
  <2>1. \A i \in 1..Len(sources) : sources[i] \in {SystemDefault}
    BY <1>2, ElementsType
  <2> QED
    BY <2>1
<1>4. ASSUME NEW i \in 1..Len(sources), NEW j \in 1..Len(sources), i < j PROVE FALSE
  <2>1. <<sources[i], sources[j]>> \in Lower
    BY <1>4 DEF OrderInv, Apart, Rises
  <2> QED
    BY <1>3, <2>1, Twice
<1>5. \A R : Rises(sources, R)
  BY <1>4 DEF Rises
<1>6. Len(todo) = 0
  BY <1>2
<1>7. \A R : Apart(sources, todo, R)
  BY <1>5, <1>6 DEF Apart, Rises, Under
<1>8. (SystemDefault \in Fine)'
  <2>1. SystemDefault \in Place /\ SystemDefault.layer = "system default"
    BY SystemFine DEF Global, Fine
  <2>2. PICK f : f = SystemDefault
    OBVIOUS
  <2>3. (f \in Fine)'
    BY <2>1, <2>2 DEF Fine, InApp
  <2> QED
    BY <2>2, <2>3 DEF SystemDefault
<1>9. sources' \in Seq(Fine') /\ todo' \in Seq(Fine')
  <2>1. SystemDefault \in Fine'
    BY <1>8 DEF SystemDefault
  <2>2. sources \in Seq(Fine')
    BY <1>2, <2>1, SeqUp
  <2> QED
    BY <1>1, <1>2, <2>2, EmptySequence
<1>10. Apart(sources', todo', Lower')
  BY <1>1, <1>7
<1> QED
  BY <1>1, <1>2, <1>9, <1>10 DEF OrderInv

\* The directories of the apps, then that of the system, rise above its default one.
LEMMA RootsDoneOrder ==
    ASSUME LayeringTypeOK, ListInv, OrderInv, RootsDone
    PROVE  OrderInv'
<1>1. /\ phase = "list" /\ phase' = "apps" /\ sources' = sources
      /\ todo' = Dirs("app default", layered) \o Dirs("app local", layered) \o <<SystemLocal>>
      /\ options' = options /\ meant' = meant
  BY DEF RootsDone
<1> DEFINE p == Dirs("app default", layered)
           q == Dirs("app local", layered)
           r == <<SystemLocal>>
<1>2. /\ p \in Seq({f \in Global : f.layer = "app default"}) /\ Rises(p, Lower)
      /\ q \in Seq({f \in Global : f.layer = "app local"}) /\ Rises(q, Lower)
  BY AppDirsFine
<1>3. /\ r \in Seq({f \in Global : f.layer = "system local"}) /\ Len(r) = 1
  BY SystemFine, Singleton
<1>4. sources \in Seq({SystemDefault}) /\ Rises(sources, Lower)
  BY <1>1 DEF OrderInv, Apart
<1>5. Rises(r, Lower)
  <2> SUFFICES ASSUME NEW i \in 1..Len(r), NEW j \in 1..Len(r), i < j PROVE FALSE
    BY DEF Rises
  <2>1. \A a, b \in 1..1 : ~(a < b)
    OBVIOUS
  <2> HIDE DEF r
  <2> QED
    BY <1>3, <2>1
<1>6. Global \subseteq Fine /\ Fine \subseteq Place
  BY DEF Global, Fine
<1> HIDE DEF p, q, r
<1> DEFINE P(k) == {f \in Place : Level(f) <= k}
           Q(k) == {f \in Place : Level(f) > k}
<1>7. /\ p \in Seq(P(2)) /\ p \in Seq(Q(1)) /\ p \in Seq(P(3)) /\ p \in Seq(Global) /\ p \in Seq(Place)
  <2>1. ASSUME NEW f \in Global, f.layer = "app default"
        PROVE  f \in P(2) /\ f \in Q(1) /\ f \in P(3) /\ f \in Place
    <3>1. f \in Place /\ Level(f) = 2
      BY <1>6, <2>1, LevelIs
    <3> QED
      BY <3>1
  <2> HIDE DEF P, Q
  <2> QED
    BY <1>2, <2>1, SeqUp
<1>8. /\ q \in Seq(P(3)) /\ q \in Seq(Q(2)) /\ q \in Seq(Q(1)) /\ q \in Seq(Global) /\ q \in Seq(Place)
  <2>1. ASSUME NEW f \in Global, f.layer = "app local"
        PROVE  f \in P(3) /\ f \in Q(2) /\ f \in Q(1) /\ f \in Place
    <3>1. f \in Place /\ Level(f) = 3
      BY <1>6, <2>1, LevelIs
    <3> QED
      BY <3>1
  <2> HIDE DEF P, Q
  <2> QED
    BY <1>2, <2>1, SeqUp
<1>9. /\ r \in Seq(Q(3)) /\ r \in Seq(Q(1)) /\ r \in Seq(Global) /\ r \in Seq(Place)
  <2>1. ASSUME NEW f \in Global, f.layer = "system local"
        PROVE  f \in Q(3) /\ f \in Q(1) /\ f \in Place
    <3>1. f \in Place /\ Level(f) = 4
      BY <1>6, <2>1, LevelIs
    <3> QED
      BY <3>1
  <2> HIDE DEF P, Q
  <2> QED
    BY <1>3, <2>1, SeqUp
<1>10. sources \in Seq(P(1)) /\ sources \in Seq(Global) /\ sources \in Seq(Place)
  <2>1. SystemDefault \in P(1) /\ SystemDefault \in Global /\ SystemDefault \in Place
    <3>1. SystemDefault \in Global /\ SystemDefault \in Place /\ Level(SystemDefault) = 1
      BY <1>6, LevelIs, SystemFine
    <3> QED
      BY <3>1
  <2> HIDE DEF P, Q
  <2> QED
    BY <1>4, <2>1, SeqUp
<1>11. /\ Under(p, q, Lower) /\ Under(p, r, Lower) /\ Under(q, r, Lower)
       /\ Under(sources, p, Lower) /\ Under(sources, q, Lower) /\ Under(sources, r, Lower)
  BY <1>7, <1>8, <1>9, <1>10, LayersUnder
<1> HIDE DEF P, Q
<1>12. /\ p \o q \in Seq(Place) /\ Rises(p \o q, Lower)
       /\ Under(sources, p \o q, Lower) /\ Under(p \o q, r, Lower)
  BY <1>2, <1>7, <1>8, <1>9, <1>10, <1>11, Join DEF Apart
<1>13. /\ Rises(p \o q \o r, Lower) /\ Under(sources, p \o q \o r, Lower)
  BY <1>5, <1>9, <1>10, <1>11, <1>12, Join DEF Apart
<1>14. todo' = p \o q \o r
  BY <1>1 DEF p, q, r
<1>15. Apart(sources', todo', Lower)
  BY <1>1, <1>4, <1>13, <1>14 DEF Apart
<1>16. todo' \in Seq(Global)
  BY <1>7, <1>8, <1>9, <1>14, JoinType
<1>17. Fine' = Fine /\ Lower' = Lower /\ Global' = Global
  BY <1>1 DEF Fine, Lower, Global, Below, Priority
<1>18. sources' \in Seq(Fine) /\ todo' \in Seq(Fine) /\ sources' \in Seq(Global)
  BY <1>1, <1>6, <1>10, <1>16, SeqUp
<1> QED
  BY <1>1, <1>15, <1>16, <1>17, <1>18 DEF OrderInv

\* The directories of the user rise above all others.
LEMMA UserDirsOrder ==
    ASSUME LayeringTypeOK, OrderInv, UserDirs
    PROVE  OrderInv'
<1>1. /\ phase = "users" /\ phase' = "user" /\ sources' = sources /\ options.user
      /\ options' = options /\ meant' = meant
  BY DEF UserDirs
<1>2. PICK N \in SUBSET {n \in UserApps : options.filter \subseteq {n}} :
         todo' = Dirs("user", Sorted(UserApp(N)))
  BY DEF UserDirs, UserApp
<1> DEFINE q == Sorted(UserApp(N))
           d == Dirs("user", q)
<1>3. /\ q \in Seq(App)
      /\ \A i \in 1..Len(q) : q[i].root = 0 /\ q[i].name \in N
      /\ \A i, j \in 1..Len(q) : i < j => q[i].name < q[j].name
  <2>1. N \in SUBSET UserApps
    OBVIOUS
  <2> QED
    BY <2>1, UsersSorted
<1> HIDE DEF q
<1>4. /\ d \in Seq(Place) /\ Len(d) = Len(q)
      /\ \A i \in 1..Len(q) : d[i].layer = "user" /\ d[i].root = q[i].root /\ d[i].name = q[i].name
  BY <1>3, DirsType DEF Layers
<1> HIDE DEF d
<1>5. \A i \in 1..Len(d) : /\ d[i] \in Place /\ d[i].layer = "user" /\ d[i].root = 0
                           /\ d[i].name \in N
  <2>1. \A i \in 1..Len(d) : d[i] \in Place
    BY <1>4, ElementsType
  <2> QED
    BY <1>3, <1>4, <2>1
<1>6. d \in Seq({f \in Fine : f.layer = "user"})
  <2>1. \A i \in 1..Len(d) : d[i] \in {f \in Fine : f.layer = "user"}
    BY <1>1, <1>5 DEF Fine, InApp
  <2> QED
    BY <1>4, <2>1, Retype
<1>7. Rises(d, Lower)
  <2> SUFFICES ASSUME NEW i \in 1..Len(d), NEW j \in 1..Len(d), i < j PROVE <<d[i], d[j]>> \in Lower
    BY DEF Rises
  <2>1. d[i].name < d[j].name /\ d[i].root = d[j].root
    BY <1>3, <1>4, <1>5
  <2>2. Level(d[i]) = Level(d[j]) /\ Priority(d[i]) = Priority(d[j])
    BY <1>5, LevelIs DEF Priority, InApp
  <2>3. Below(d[i], d[j])
    BY <2>1, <2>2 DEF Below
  <2> QED
    BY <1>5, <2>3 DEF Lower
<1>8. sources \in Seq(Global) /\ Rises(sources, Lower) /\ sources \in Seq(Fine)
  BY <1>1 DEF OrderInv, Apart
<1> DEFINE P == {f \in Place : Level(f) <= 4}
           Q == {f \in Place : Level(f) > 4}
<1>9. sources \in Seq(P) /\ d \in Seq(Q)
  <2>1. ASSUME NEW f \in Global PROVE f \in P
    <3>1. f \in Place /\ Level(f) \in 1..4
      BY LevelIs DEF Global, Fine
    <3> QED
      BY <3>1
  <2>2. ASSUME NEW f \in Fine, f.layer = "user" PROVE f \in Q
    <3>1. f \in Place /\ Level(f) = 5
      BY <2>2, LevelIs DEF Fine
    <3> QED
      BY <3>1
  <2> HIDE DEF P, Q
  <2> QED
    BY <1>6, <1>8, <2>1, <2>2, SeqUp
<1>10. Under(sources, d, Lower)
  BY <1>9, LayersUnder
<1> HIDE DEF P, Q
<1>11. Apart(sources', todo', Lower)
  BY <1>1, <1>2, <1>7, <1>8, <1>10 DEF Apart, d, q
<1>12. Fine' = Fine /\ Lower' = Lower
  BY <1>1 DEF Fine, Lower, Below, Priority
<1>13. sources' \in Seq(Fine) /\ todo' \in Seq(Fine)
  <2>1. d \in Seq(Fine)
    BY <1>6, SeqUp
  <2> QED
    BY <1>1, <1>2, <1>8, <2>1 DEF d, q
<1> QED
  BY <1>1, <1>11, <1>12, <1>13 DEF OrderInv

\* A step keeps what is found and looked for fine and rising.
LEMMA OrderStep ==
    ASSUME LayeringTypeOK, ListInv, OrderInv, [LayeringNext]_layeringVars
    PROVE  OrderInv'
<1> USE DEF collecting, reading
<1>1. ASSUME meant' = meant, options' = options
      PROVE  Fine' = Fine /\ Lower' = Lower /\ Global' = Global
  BY <1>1 DEF Fine, Lower, Global, Below, Priority
<1>2. ASSUME UNCHANGED <<options, meant, sources, todo>>,
             \/ phase' = phase
             \/ phase' = "failed"
             \/ /\ todo = <<>>
                /\ <<phase, phase'>> \in {<<"system default", "list">>, <<"list", "entries">>,
                      <<"entries", "list">>, <<"apps", "users">>, <<"users", "merge">>,
                      <<"user", "merge">>, <<"merge", "inherit">>, <<"inherit", "expand">>,
                      <<"expand", "done">>}
      PROVE  OrderInv'
  BY <1>1, <1>2 DEF OrderInv
<1>3. CASE PushFile \/ NoFile
  <2>1. /\ todo # <<>> /\ todo' = Tail(todo) /\ phase' = phase
        /\ meant' = meant /\ options' = options
        /\ phase \in {"system default", "apps", "user"}
    BY <1>3 DEF PushFile, NoFile, Looking
  <2>2. \A S : sources \in Seq(S) /\ todo \in Seq(S) =>
               sources' \in Seq(S) /\ todo' \in Seq(S)
    <3>1. ASSUME NEW S, sources \in Seq(S), todo \in Seq(S)
          PROVE  sources' \in Seq(S) /\ todo' \in Seq(S)
      <4>1. Append(sources, Head(todo)) \in Seq(S) /\ Tail(todo) \in Seq(S)
        BY <2>1, <3>1, PushType
      <4>2. sources' = sources \/ sources' = Append(sources, Head(todo))
        BY <1>3 DEF PushFile, NoFile
      <4> QED
        BY <2>1, <3>1, <4>1, <4>2
    <3> QED
      BY <3>1
  <2>3. sources \in Seq(Fine) /\ todo \in Seq(Fine) /\ Apart(sources, todo, Lower)
    BY DEF OrderInv
  <2>4. Apart(sources', todo', Lower)
    <3>1. CASE PushFile
      BY <2>1, <2>3, <3>1, Push DEF PushFile
    <3>2. CASE NoFile
      BY <2>1, <2>3, <3>2, Drop DEF NoFile
    <3> QED
      BY <1>3, <3>1, <3>2
  <2> QED
    BY <1>1, <2>1, <2>2, <2>3, <2>4 DEF OrderInv
<1>4. CASE Collected
  BY <1>2, <1>4 DEF Collected
<1>5. CASE Failed
  BY <1>2, <1>5 DEF Failed
<1>6. CASE ListRoot
  <2>1. todo = <<>>
    BY <1>6 DEF ListRoot, OrderInv
  <2> QED
    BY <1>2, <1>6, <2>1 DEF ListRoot
<1>7. ASSUME NEW n \in left, SkipEntry(n) PROVE OrderInv'
  BY <1>2, <1>7 DEF SkipEntry, TakeEntry
<1>8. CASE RootDone
  <2>1. todo = <<>>
    BY <1>8 DEF RootDone, OrderInv
  <2> QED
    BY <1>2, <1>8, <2>1 DEF RootDone
<1>9. CASE NoUser \/ Merged \/ Inherit \/ Expand
  <2>1. todo = <<>>
    BY <1>9 DEF NoUser, Merged, Inherit, Expand, OrderInv
  <2> QED
    BY <1>2, <1>9, <2>1 DEF NoUser, Merged, Inherit, Expand
<1>10. CASE ReadFile \/ UNCHANGED layeringVars
  BY <1>2, <1>10 DEF ReadFile, layeringVars
<1>11. CASE \/ PushFails \/ ListRootFails \/ EntryFails \/ UserDirsFails \/ ReadFileFails
  BY <1>5, <1>11, Zenon DEF PushFails, ListRootFails, EntryFails, UserDirsFails, ReadFileFails
<1> QED
  BY <1>3, <1>4, <1>6, <1>7, <1>8, <1>9, <1>10, <1>11,
     EntryOrder, RootsDoneOrder, UserDirsOrder, Zenon DEF LayeringNext

----------------------------------------------------------------------------
(* What the files read so far say: the last of them to set a key counts.   *)

\* The files that set k in s; the stanzas of the files, and the keys of a stanza.
Sets(cs, s, k) == {i \in 1..Len(cs) : s \in DOMAIN cs[i] /\ k \in DOMAIN cs[i][s]}

Named(cs) == {"default"} \cup UNION {DOMAIN cs[i] : i \in 1..Len(cs)}

KeysOf(cs, s) == UNION {DOMAIN At(cs[i], s) : i \in 1..Len(cs)}

Latest(I) == CHOOSE i \in I : \A j \in I : j <= i

\* What the last file that sets k in s says, and what all say.
Told(cs, q, s, k) ==
    LET i == Latest(Sets(cs, s, k)) IN [from |-> q[i], text |-> cs[i][s][k]]

Said(cs, q) == [s \in Named(cs) |-> [k \in KeysOf(cs, s) |-> Told(cs, q, s, k)]]

\* Of some of the first n numbers, not none, there is a latest.
LEMMA LatestIs ==
    ASSUME NEW n \in Nat, NEW I \in SUBSET (1..n), I # {}
    PROVE  Latest(I) \in I /\ \A j \in I : j <= Latest(I)
<1> DEFINE J == {n - i : i \in I}
<1>1. J \in SUBSET Nat /\ J # {}
  <2>1. \A i \in 1..n : n - i \in Nat
    OBVIOUS
  <2>2. \A i \in I : n - i \in Nat
    BY <2>1
  <2>3. PICK i \in I : TRUE
    OBVIOUS
  <2>4. n - i \in J
    OBVIOUS
  <2> QED
    BY <2>2, <2>4
<1>2. PICK m \in J : \A j \in J : m <= j
  <2> HIDE DEF J
  <2> QED
    BY <1>1, LeastExists
<1>3. PICK i \in I : m = n - i
  BY <1>2
<1>4. \A j \in I : j <= i
  <2> SUFFICES ASSUME NEW j \in I PROVE j <= i
    OBVIOUS
  <2>1. n - j \in J /\ n - i <= n - j
    BY <1>2, <1>3
  <2> QED
    BY <2>1
<1> QED
  BY <1>4 DEF Latest

\* It is the one that is not exceeded.
LEMMA LatestAt ==
    ASSUME NEW I \in SUBSET Nat, NEW i \in I, \A j \in I : j <= i
    PROVE  Latest(I) = i
<1>1. Latest(I) \in I /\ \A j \in I : j <= Latest(I)
  BY DEF Latest
<1>2. PICK m \in I : m = Latest(I) /\ \A j \in I : j <= m
  BY <1>1
<1>3. m \in Nat /\ i \in Nat /\ m <= i /\ i <= m
  BY <1>2
<1>4. m = i
  BY <1>3
<1> QED
  BY <1>2, <1>4

\* A stanza has the keys that some file sets in it.
LEMMA SetKeys ==
    ASSUME NEW cs, NEW s, NEW k
    PROVE  k \in KeysOf(cs, s) <=> Sets(cs, s, k) # {}
<1>1. ASSUME NEW i \in 1..Len(cs)
      PROVE  k \in DOMAIN At(cs[i], s) <=> s \in DOMAIN cs[i] /\ k \in DOMAIN cs[i][s]
  <2>1. CASE s \in DOMAIN cs[i]
    BY <2>1 DEF At
  <2>2. CASE s \notin DOMAIN cs[i]
    BY <2>2, EmptyDomain DEF At
  <2> QED
    BY <2>1, <2>2
<1> QED
  BY <1>1 DEF KeysOf, Sets

\* A stanza that no file has, has no keys.
LEMMA Unnamed ==
    ASSUME NEW cs, NEW s, s \notin Named(cs)
    PROVE  KeysOf(cs, s) = {}
<1>1. \A k : Sets(cs, s, k) = {}
  BY DEF Named, Sets
<1> QED
  BY <1>1, SetKeys

\* No files say nothing: an overlay starts with an empty [default].
LEMMA NothingSaid ==
    ASSUME NEW q
    PROVE  Said(<<>>, q) = [s \in {"default"} |-> <<>>]
<1>1. Len(<<>>) = 0
  OBVIOUS
<1>2. Named(<<>>) = {"default"}
  BY <1>1 DEF Named
<1>3. \A s : KeysOf(<<>>, s) = {}
  BY <1>1 DEF KeysOf
<1>4. ASSUME NEW s PROVE [k \in KeysOf(<<>>, s) |-> Told(<<>>, q, s, k)] = <<>>
  <2>1. PICK f : f = [k \in KeysOf(<<>>, s) |-> Told(<<>>, q, s, k)]
    OBVIOUS
  <2>2. f = [k \in {} |-> f[k]]
    BY <1>3, <2>1, Zenon
  <2>3. f \in [1..0 -> {}]
    BY <2>2
  <2>4. f \in Seq({}) /\ Len(f) = 0
    BY <2>3
  <2>5. f = <<>>
    BY <2>4
  <2> QED
    BY <2>1, <2>5, Zenon
<1> QED
  BY <1>2, <1>4, Zenon DEF Said

\* The files read, and one more.
LEMMA AppendAt ==
    ASSUME NEW cs \in Seq(Content), NEW c \in Content
    PROVE  /\ Len(Append(cs, c)) = Len(cs) + 1 /\ Len(cs) \in Nat
           /\ Append(cs, c)[Len(cs) + 1] = c
           /\ \A i \in 1..Len(cs) : Append(cs, c)[i] = cs[i]
           /\ 1..Len(Append(cs, c)) = 1..Len(cs) \cup {Len(cs) + 1}
           /\ Len(cs) + 1 \notin 1..Len(cs)
<1>1. /\ Len(Append(cs, c)) = Len(cs) + 1 /\ Len(cs) \in Nat
      /\ Append(cs, c)[Len(cs) + 1] = c
  OBVIOUS
<1>2. \A i \in 1..Len(cs) : Append(cs, c)[i] = cs[i]
  OBVIOUS
<1>3. \A n \in Nat : 1..n + 1 = 1..n \cup {n + 1} /\ n + 1 \notin 1..n
  OBVIOUS
<1> QED
  BY <1>1, <1>2, <1>3

\* One file more sets what it sets, and leaves the rest.
LEMMA OneMore ==
    ASSUME NEW cs \in Seq(Content), NEW c \in Content
    PROVE  LET more == Append(cs, c) IN
           /\ Named(more) = Named(cs) \cup DOMAIN c
           /\ \A s, k : Sets(more, s, k) =
                  Sets(cs, s, k) \cup
                  IF s \in DOMAIN c /\ k \in DOMAIN c[s] THEN {Len(cs) + 1} ELSE {}
           /\ \A s, k : Sets(cs, s, k) \in SUBSET (1..Len(cs))
<1> DEFINE more == Append(cs, c)
           n == Len(cs)
<1>1. /\ Len(more) = n + 1 /\ more[n + 1] = c
      /\ \A i \in 1..n : more[i] = cs[i]
      /\ 1..Len(more) = 1..n \cup {n + 1} /\ n + 1 \notin 1..n
  BY AppendAt
<1> HIDE DEF more
<1>2. Named(more) = Named(cs) \cup DOMAIN c
  <2>1. \A s : s \in Named(more) <=> s \in Named(cs) \/ s \in DOMAIN c
    BY <1>1 DEF Named
  <2> QED
    BY <2>1
<1>3. ASSUME NEW s, NEW k
      PROVE  Sets(more, s, k) = Sets(cs, s, k) \cup
                 IF s \in DOMAIN c /\ k \in DOMAIN c[s] THEN {n + 1} ELSE {}
  <2>1. \A i \in 1..n : i \in Sets(more, s, k) <=> i \in Sets(cs, s, k)
    BY <1>1 DEF Sets
  <2>2. n + 1 \in Sets(more, s, k) <=> s \in DOMAIN c /\ k \in DOMAIN c[s]
    BY <1>1 DEF Sets
  <2>3. Sets(more, s, k) \in SUBSET (1..n \cup {n + 1}) /\ Sets(cs, s, k) \in SUBSET (1..n)
    BY <1>1 DEF Sets
  <2> QED
    BY <2>1, <2>2, <2>3
<1>4. \A s, k : Sets(cs, s, k) \in SUBSET (1..n)
  BY DEF Sets
<1> QED
  BY <1>2, <1>3, <1>4 DEF more

\* The last file is the one whose values count, where it has any.
LEMMA OneMoreTold ==
    ASSUME NEW cs \in Seq(Content), NEW c \in Content, NEW q, NEW s, NEW k
    PROVE  LET more == Append(cs, c) IN
           /\ s \in DOMAIN c /\ k \in DOMAIN c[s] =>
                 /\ k \in KeysOf(more, s)
                 /\ Told(more, q, s, k) = [from |-> q[Len(cs) + 1], text |-> c[s][k]]
           /\ ~(s \in DOMAIN c /\ k \in DOMAIN c[s]) =>
                 /\ k \in KeysOf(more, s) <=> k \in KeysOf(cs, s)
                 /\ k \in KeysOf(cs, s) => Told(more, q, s, k) = Told(cs, q, s, k)
<1> DEFINE more == Append(cs, c)
           n == Len(cs)
           I == Sets(cs, s, k)
           J == Sets(more, s, k)
<1>1. /\ n \in Nat /\ more[n + 1] = c
      /\ \A i \in 1..n : more[i] = cs[i]
  BY AppendAt
<1>2. /\ I \in SUBSET (1..n)
      /\ J = I \cup IF s \in DOMAIN c /\ k \in DOMAIN c[s] THEN {n + 1} ELSE {}
  BY OneMore
<1>3. /\ k \in KeysOf(more, s) <=> J # {}
      /\ k \in KeysOf(cs, s) <=> I # {}
  BY SetKeys
<1>4. /\ Told(more, q, s, k) = [from |-> q[Latest(J)], text |-> more[Latest(J)][s][k]]
      /\ Told(cs, q, s, k) = [from |-> q[Latest(I)], text |-> cs[Latest(I)][s][k]]
  BY DEF Told
<1> HIDE DEF more, I, J
<1>5. ASSUME s \in DOMAIN c /\ k \in DOMAIN c[s]
      PROVE  /\ k \in KeysOf(more, s)
             /\ Told(more, q, s, k) = [from |-> q[n + 1], text |-> c[s][k]]
  <2>1. J = I \cup {n + 1}
    BY <1>2, <1>5
  <2>2. J \in SUBSET Nat /\ n + 1 \in J /\ \A j \in J : j <= n + 1
    <3>1. n + 1 \in Nat /\ n + 1 <= n + 1 /\ \A i \in 1..n : i \in Nat /\ i <= n + 1
      BY <1>1
    <3> QED
      BY <1>2, <2>1, <3>1
  <2>3. Latest(J) = n + 1
    BY <2>2, LatestAt
  <2> QED
    BY <1>1, <1>3, <1>4, <2>1, <2>3
<1>6. ASSUME ~(s \in DOMAIN c /\ k \in DOMAIN c[s])
      PROVE  /\ k \in KeysOf(more, s) <=> k \in KeysOf(cs, s)
             /\ k \in KeysOf(cs, s) => Told(more, q, s, k) = Told(cs, q, s, k)
  <2>1. J = I
    BY <1>2, <1>6
  <2>2. ASSUME I # {} PROVE more[Latest(I)] = cs[Latest(I)]
    <3>1. Latest(I) \in I
      BY <1>1, <1>2, <2>2, LatestIs
    <3> QED
      BY <1>1, <1>2, <3>1
  <2> QED
    BY <1>3, <1>4, <2>1, <2>2
<1> QED
  BY <1>5, <1>6 DEF more

\* So to read a file over what was said says what all the files say.
LEMMA OverSaid ==
    ASSUME NEW cs \in Seq(Content), NEW c \in Content, NEW q
    PROVE  Over(ReadFrom(q[Len(cs) + 1], c), Said(cs, q)) = Said(Append(cs, c), q)
<1> DEFINE f == q[Len(cs) + 1]
           more == Append(cs, c)
           d == Said(cs, q)
           e == ReadFrom(f, c)
<1>1. DOMAIN d = Named(cs) /\ DOMAIN e = DOMAIN c
  BY DEF Said, ReadFrom
<1>2. Named(more) = Named(cs) \cup DOMAIN c
  BY OneMore
<1>3. ASSUME NEW s \in Named(more)
      PROVE  OverIn(At(e, s), At(d, s)) = [k \in KeysOf(more, s) |-> Told(more, q, s, k)]
  <2>1. ASSUME NEW k PROVE k \in DOMAIN At(e, s) <=> s \in DOMAIN c /\ k \in DOMAIN c[s]
    <3>1. CASE s \in DOMAIN c
      BY <1>1, <3>1 DEF At, ReadFrom
    <3>2. CASE s \notin DOMAIN c
      BY <1>1, <3>2, EmptyDomain DEF At
    <3> QED
      BY <3>1, <3>2
  <2>2. DOMAIN At(d, s) = KeysOf(cs, s)
    <3>1. CASE s \in Named(cs)
      BY <1>1, <3>1 DEF At, Said
    <3>2. CASE s \notin Named(cs)
      BY <1>1, <3>2, EmptyDomain, Unnamed DEF At
    <3> QED
      BY <3>1, <3>2
  <2>3. \A k : s \in DOMAIN c /\ k \in DOMAIN c[s] =>
             At(e, s)[k] = [from |-> f, text |-> c[s][k]]
    BY <1>1 DEF At, ReadFrom
  <2>4. \A k \in KeysOf(cs, s) : At(d, s)[k] = Told(cs, q, s, k)
    <3>1. CASE s \in Named(cs)
      BY <1>1, <3>1 DEF At, Said
    <3>2. CASE s \notin Named(cs)
      BY <3>2, Unnamed
    <3> QED
      BY <3>1, <3>2
  <2>5. \A k :
           /\ s \in DOMAIN c /\ k \in DOMAIN c[s] =>
                 /\ k \in KeysOf(more, s)
                 /\ Told(more, q, s, k) = [from |-> f, text |-> c[s][k]]
           /\ ~(s \in DOMAIN c /\ k \in DOMAIN c[s]) =>
                 /\ k \in KeysOf(more, s) <=> k \in KeysOf(cs, s)
                 /\ k \in KeysOf(cs, s) => Told(more, q, s, k) = Told(cs, q, s, k)
    BY OneMoreTold
  <2>6. PICK a : a = At(e, s)
    OBVIOUS
  <2>7. PICK b : b = At(d, s)
    OBVIOUS
  <2> HIDE DEF f, more, d, e
  <2>8. DOMAIN b \cup DOMAIN a = KeysOf(more, s)
    <3>1. \A k : k \in DOMAIN b \cup DOMAIN a <=> k \in KeysOf(more, s)
      <4> TAKE k
      <4>1. CASE s \in DOMAIN c /\ k \in DOMAIN c[s]
        BY <2>1, <2>5, <2>6, <4>1
      <4>2. CASE ~(s \in DOMAIN c /\ k \in DOMAIN c[s])
        BY <2>1, <2>2, <2>5, <2>6, <2>7, <4>2
      <4> QED
        BY <4>1, <4>2
    <3> QED
      BY <3>1
  <2>9. ASSUME NEW k \in KeysOf(more, s)
        PROVE  (IF k \in DOMAIN a THEN a[k] ELSE b[k]) = Told(more, q, s, k)
    <3>1. CASE s \in DOMAIN c /\ k \in DOMAIN c[s]
      BY <2>1, <2>3, <2>5, <2>6, <3>1
    <3>2. CASE ~(s \in DOMAIN c /\ k \in DOMAIN c[s])
      BY <2>1, <2>4, <2>5, <2>6, <2>7, <3>2
    <3> QED
      BY <3>1, <3>2
  <2>10. OverIn(a, b) = [k \in KeysOf(more, s) |-> Told(more, q, s, k)]
    BY <2>8, <2>9 DEF OverIn
  <2> QED
    BY <2>6, <2>7, <2>10
<1>4. Over(e, d) = [s \in Named(more) |-> OverIn(At(e, s), At(d, s))]
  BY <1>1, <1>2 DEF Over
<1>5. Said(more, q) = [s \in Named(more) |-> [k \in KeysOf(more, s) |-> Told(more, q, s, k)]]
  BY DEF Said
<1> HIDE DEF more, e, d
<1>6. Over(e, d) = Said(more, q)
  BY <1>3, <1>4, <1>5
<1> QED
  BY <1>6 DEF more, e, d

\* The stanza a key has its value from, and the keys after inheriting.
From(cs, s, k) == IF Sets(cs, s, k) # {} THEN s ELSE "default"

AllKeys(cs, s) == KeysOf(cs, s) \cup IF options.inherit THEN KeysOf(cs, "default") ELSE {}

\* What the call makes of the files, before and after it expands.
Inherited(cs, q) ==
    [s \in Named(cs) |-> [k \in AllKeys(cs, s) |-> Told(cs, q, From(cs, s, k), k)]]

Final(s, v) == IF options.expand THEN [v EXCEPT !.text = Expanded(s, @)] ELSE v

Finished(cs, q) ==
    [s \in Named(cs) |-> [k \in AllKeys(cs, s) |-> Final(s, Told(cs, q, From(cs, s, k), k))]]

\* What the overlay is, phase by phase.
ReadInv ==
    /\ phase \notin {"merge", "inherit", "expand", "done", "failed"} =>
          contents = <<>> /\ overlay = [s \in {"default"} |-> <<>>]
    /\ phase = "merge" => Len(contents) <= Len(sources)
    /\ phase \in {"inherit", "expand", "done"} => Len(contents) = Len(sources)
    /\ phase \in {"merge", "inherit"} => overlay = Said(contents, sources)
    /\ phase = "expand" => overlay = Inherited(contents, sources)
    /\ phase = "done" => overlay = Finished(contents, sources)

\* Inheriting gives a stanza the keys of [default] that it does not have.
LEMMA InheritSays ==
    ASSUME NEW cs, NEW q
    PROVE  (IF ~options.inherit THEN Said(cs, q)
            ELSE [s \in DOMAIN Said(cs, q) |-> OverIn(Said(cs, q)[s], Said(cs, q)["default"])])
               = Inherited(cs, q)
<1> DEFINE d == Said(cs, q)
<1>1. DOMAIN d = Named(cs) /\ "default" \in Named(cs)
  BY DEF Said, Named
<1>2. \A s \in Named(cs) : d[s] = [k \in KeysOf(cs, s) |-> Told(cs, q, s, k)]
  BY DEF Said
<1>3. \A s, k : k \in KeysOf(cs, s) <=> From(cs, s, k) = s /\ Sets(cs, s, k) # {}
  BY SetKeys DEF From
<1>4. d = [s \in Named(cs) |-> [k \in KeysOf(cs, s) |-> Told(cs, q, s, k)]]
  BY DEF Said
<1> HIDE DEF d
<1>5. CASE ~options.inherit
  <2>1. ASSUME NEW s \in Named(cs)
        PROVE  [k \in KeysOf(cs, s) |-> Told(cs, q, s, k)]
                 = [k \in AllKeys(cs, s) |-> Told(cs, q, From(cs, s, k), k)]
    <3>1. AllKeys(cs, s) = KeysOf(cs, s)
      BY <1>5 DEF AllKeys
    <3> QED
      BY <1>3, <3>1
  <2>2. d = Inherited(cs, q)
    BY <1>4, <2>1 DEF Inherited
  <2> QED
    BY <1>5, <2>2 DEF d
<1>6. CASE options.inherit
  <2>1. ASSUME NEW s \in Named(cs)
        PROVE  OverIn(d[s], d["default"]) = [k \in AllKeys(cs, s) |-> Told(cs, q, From(cs, s, k), k)]
    <3>1. /\ DOMAIN d[s] = KeysOf(cs, s) /\ DOMAIN d["default"] = KeysOf(cs, "default")
          /\ \A k \in KeysOf(cs, s) : d[s][k] = Told(cs, q, s, k)
          /\ \A k \in KeysOf(cs, "default") : d["default"][k] = Told(cs, q, "default", k)
      BY <1>1, <1>2
    <3>2. PICK a : a = d[s]
      OBVIOUS
    <3>3. PICK b : b = d["default"]
      OBVIOUS
    <3>4. AllKeys(cs, s) = DOMAIN b \cup DOMAIN a
      BY <1>6, <3>1, <3>2, <3>3 DEF AllKeys
    <3>5. ASSUME NEW k \in AllKeys(cs, s)
          PROVE  (IF k \in DOMAIN a THEN a[k] ELSE b[k]) = Told(cs, q, From(cs, s, k), k)
      <4>1. CASE k \in KeysOf(cs, s)
        BY <1>3, <3>1, <3>2, <4>1
      <4>2. CASE k \notin KeysOf(cs, s)
        <5>1. From(cs, s, k) = "default"
          BY <4>2, SetKeys DEF From
        <5> QED
          BY <3>1, <3>2, <3>3, <3>4, <4>2, <5>1
      <4> QED
        BY <4>1, <4>2
    <3>6. OverIn(a, b) = [k \in AllKeys(cs, s) |-> Told(cs, q, From(cs, s, k), k)]
      BY <3>4, <3>5 DEF OverIn
    <3> QED
      BY <3>2, <3>3, <3>6
  <2>2. [s \in DOMAIN d |-> OverIn(d[s], d["default"])] = Inherited(cs, q)
    BY <1>1, <2>1 DEF Inherited
  <2> QED
    BY <1>6, <2>2 DEF d
<1> QED
  BY <1>5, <1>6

\* Expanding expands each value for its stanza.
LEMMA ExpandSays ==
    ASSUME NEW cs, NEW q, NEW o, o = Inherited(cs, q)
    PROVE  (IF ~options.expand THEN o
            ELSE [s \in DOMAIN o |-> [k \in DOMAIN o[s] |->
                     [o[s][k] EXCEPT !.text = Expanded(s, @)]]])
               = Finished(cs, q)
<1>1. DOMAIN o = Named(cs)
  BY DEF Inherited
<1>2. \A s \in Named(cs) : DOMAIN o[s] = AllKeys(cs, s)
  BY DEF Inherited
<1>3. \A s \in Named(cs) : \A k \in AllKeys(cs, s) : o[s][k] = Told(cs, q, From(cs, s, k), k)
  BY DEF Inherited
<1>4. CASE ~options.expand
  <2>1. \A s, v : Final(s, v) = v
    BY <1>4 DEF Final
  <2>2. Finished(cs, q) = Inherited(cs, q)
    BY <2>1 DEF Finished, Inherited
  <2> QED
    BY <1>4, <2>2
<1>5. CASE options.expand
  <2>1. \A s, v : Final(s, v) = [v EXCEPT !.text = Expanded(s, @)]
    BY <1>5 DEF Final
  <2>2. ASSUME NEW s \in Named(cs)
        PROVE  [k \in DOMAIN o[s] |-> [o[s][k] EXCEPT !.text = Expanded(s, @)]]
                 = [k \in AllKeys(cs, s) |-> Final(s, Told(cs, q, From(cs, s, k), k))]
    BY <1>2, <1>3, <2>1
  <2>3. [s \in DOMAIN o |-> [k \in DOMAIN o[s] |-> [o[s][k] EXCEPT !.text = Expanded(s, @)]]]
          = Finished(cs, q)
    BY <1>1, <2>2 DEF Finished
  <2> QED
    BY <1>5, <2>3
<1> QED
  BY <1>4, <1>5

\* A call starts with nothing read.
LEMMA ReadInit == LayeringInit => ReadInv
  BY DEF LayeringInit, ReadInv

\* A step keeps the overlay what the files read say.
LEMMA ReadStep ==
    ASSUME LayeringTypeOK, ReadInv, [LayeringNext]_layeringVars
    PROVE  ReadInv'
<1> USE DEF collecting, reading
<1>1. ASSUME UNCHANGED reading,
             phase \notin {"merge", "inherit", "expand", "done", "failed"},
             phase' \notin {"merge", "inherit", "expand", "done"}
      PROVE  ReadInv'
  BY <1>1 DEF ReadInv
<1>2. ASSUME UNCHANGED reading, sources' = sources,
             phase \in {"users", "user"}, phase' = "merge"
      PROVE  ReadInv'
  <2>1. contents' = <<>> /\ overlay' = [s \in {"default"} |-> <<>>]
    BY <1>2 DEF ReadInv
  <2>2. overlay' = Said(contents', sources')
    BY <2>1, NothingSaid
  <2>3. Len(contents') <= Len(sources')
    <3>1. Len(sources) \in Nat
      <4>1. sources \in Seq(Place)
        BY DEF LayeringTypeOK
      <4> QED
        BY <4>1
    <3>2. Len(contents') = 0
      BY <2>1
    <3> QED
      BY <1>2, <3>1, <3>2
  <2> QED
    BY <1>2, <2>2, <2>3 DEF ReadInv
<1>3. ASSUME phase' = "failed" PROVE ReadInv'
  BY <1>3 DEF ReadInv
<1>4. CASE PushFile \/ NoFile
  BY <1>1, <1>4 DEF PushFile, NoFile, Looking
<1>5. CASE Collected
  BY <1>1, <1>2, <1>5 DEF Collected
<1>6. CASE ListRoot \/ RootDone \/ RootsDone \/ UserDirs
  BY <1>1, <1>6 DEF ListRoot, RootDone, RootsDone, UserDirs
<1>7. ASSUME NEW n \in left, SkipEntry(n) \/ AppEntry(n) PROVE ReadInv'
  BY <1>1, <1>7 DEF SkipEntry, AppEntry, TakeEntry
<1>8. CASE NoUser
  BY <1>2, <1>8 DEF NoUser
<1>9. CASE ReadFile
  <2>1. PICK c \in Content :
          /\ overlay' = Over(ReadFrom(sources[Len(contents) + 1], c), overlay)
          /\ contents' = Append(contents, c)
    BY <1>9 DEF ReadFile
  <2>2. /\ phase = "merge" /\ phase' = "merge" /\ sources' = sources
        /\ Len(contents) < Len(sources) /\ overlay = Said(contents, sources)
    BY <1>9 DEF ReadFile, ReadInv
  <2>3. contents \in Seq(Content) /\ Len(sources) \in Nat
    <3>1. contents \in Seq(Content) /\ sources \in Seq(Place)
      BY DEF LayeringTypeOK
    <3> QED
      BY <3>1
  <2>4. overlay' = Said(contents', sources')
    BY <2>1, <2>2, <2>3, OverSaid
  <2>5. Len(contents') <= Len(sources')
    <3>1. Len(contents') = Len(contents) + 1 /\ Len(contents) \in Nat
      BY <2>1, <2>3, AppendAt
    <3> QED
      BY <2>2, <2>3, <3>1
  <2> QED
    BY <2>2, <2>4, <2>5 DEF ReadInv
<1>10. CASE Merged
  BY <1>10 DEF Merged, ReadInv
<1>11. CASE Inherit
  <2>1. /\ overlay = Said(contents, sources) /\ Len(contents) = Len(sources)
        /\ phase' = "expand" /\ UNCHANGED <<options, contents, sources>>
        /\ overlay' = IF ~options.inherit THEN overlay
                      ELSE [s \in DOMAIN overlay |-> OverIn(overlay[s], overlay["default"])]
    BY <1>11 DEF Inherit, ReadInv
  <2>2. overlay' = Inherited(contents, sources)
    BY <2>1, InheritSays, Zenon
  <2>3. Inherited(contents, sources)' = Inherited(contents, sources)
    BY <2>1 DEF Inherited, AllKeys
  <2> QED
    BY <2>1, <2>2, <2>3 DEF ReadInv
<1>12. CASE Expand
  <2>1. /\ overlay = Inherited(contents, sources) /\ Len(contents) = Len(sources)
        /\ phase' = "done" /\ UNCHANGED <<options, contents, sources>>
        /\ overlay' = IF ~options.expand THEN overlay
                      ELSE [s \in DOMAIN overlay |-> [k \in DOMAIN overlay[s] |->
                               [overlay[s][k] EXCEPT !.text = Expanded(s, @)]]]
    BY <1>12 DEF Expand, ReadInv
  <2>2. overlay' = Finished(contents, sources)
    BY <2>1, ExpandSays
  <2>3. Finished(contents, sources)' = Finished(contents, sources)
    BY <2>1 DEF Finished, AllKeys, Final
  <2> QED
    BY <2>1, <2>2, <2>3 DEF ReadInv
<1>13. CASE UNCHANGED layeringVars
  <2>1. UNCHANGED <<options, phase, sources, overlay, contents>>
    BY <1>13 DEF layeringVars
  <2>2. Inherited(contents, sources)' = Inherited(contents, sources)
    BY <2>1 DEF Inherited, AllKeys
  <2>3. Finished(contents, sources)' = Finished(contents, sources)
    BY <2>1 DEF Finished, AllKeys, Final
  <2> QED
    BY <2>1, <2>2, <2>3 DEF ReadInv
<1>14. CASE PushFails \/ ListRootFails \/ EntryFails \/ UserDirsFails \/ ReadFileFails
  BY <1>3, <1>14 DEF PushFails, ListRootFails, EntryFails, UserDirsFails, ReadFileFails, Failed
<1> QED
  BY <1>4, <1>5, <1>6, <1>7, <1>8, <1>9, <1>10, <1>11, <1>12, <1>13, <1>14, Zenon
     DEF LayeringNext

\* Of two files at most one is below the other.
LEMMA NotBoth ==
    ASSUME LayeringTypeOK, NEW f \in Fine, NEW g \in Fine, Below(f, g)
    PROVE  ~Below(g, f)
<1>1. /\ f \in Place /\ f.root \in Nat /\ f.name \in Int
      /\ g \in Place /\ g.root \in Nat /\ g.name \in Int
  BY DEF Fine, Place
<1>2. \A h \in Fine : Priority(h) \in Int
  <2> TAKE h \in Fine
  <2>1. CASE InApp(h)
    <3>1. <<h.root, h.name>> \in DOMAIN meant
      BY <2>1 DEF Fine
    <3>2. meant[<<h.root, h.name>>] \in [enabled : BOOLEAN, priority : Int]
      BY <3>1 DEF LayeringTypeOK
    <3> QED
      BY <2>1, <3>2 DEF Priority
  <2>2. CASE ~InApp(h)
    BY <2>2 DEF Priority
  <2> QED
    BY <2>1, <2>2
<1>3. Level(f) \in 1..5 /\ Level(g) \in 1..5
  BY <1>1, LevelIs
<1>4. Level(f) \in Int /\ Level(g) \in Int
  BY <1>3
<1>5. Priority(f) \in Int /\ Priority(g) \in Int
  BY <1>2
<1> QED
  BY <1>1, <1>4, <1>5 DEF Below

\* The highest of some of the files is the one found last.
LEMMA TopIs ==
    ASSUME LayeringTypeOK, OrderInv, NEW I \in SUBSET (1..Len(sources)), I # {}
    PROVE  Top(I) = Latest(I)
<1>1. sources \in Seq(Fine) /\ Rises(sources, Lower)
  BY DEF OrderInv, Apart
<1>2. Len(sources) \in Nat
  BY <1>1
<1>3. \A i \in 1..Len(sources) : sources[i] \in Fine
  BY <1>1, ElementsType
<1>4. PICK m \in I : m = Latest(I) /\ \A j \in I : j <= m
  BY <1>2, LatestIs
<1>5. \A i, j \in 1..Len(sources) : i < j => Below(sources[i], sources[j])
  BY <1>1 DEF Rises, Lower
<1>6. \A j \in I \ {m} : j < m
  BY <1>2, <1>4
<1>7. \A j \in I \ {m} : Below(sources[j], sources[m])
  BY <1>5, <1>6
<1>8. ASSUME NEW i \in I, \A j \in I \ {i} : Below(sources[j], sources[i])
      PROVE  i = m
  <2> SUFFICES ASSUME i # m PROVE FALSE
    OBVIOUS
  <2>1. Below(sources[m], sources[i]) /\ Below(sources[i], sources[m])
    BY <1>7, <1>8
  <2> QED
    BY <1>3, <2>1, NotBoth
<1>9. Top(I) = m
  BY <1>7, <1>8 DEF Top
<1> QED
  BY <1>4, <1>9

\* As the sources rise, what the last file says is what the highest says.
LEMMA HighestIsLast == LayeringTypeOK /\ OrderInv /\ ReadInv => HighestWins
<1> SUFFICES ASSUME LayeringTypeOK, OrderInv, ReadInv, phase = "done"
             PROVE  /\ Len(contents) = Len(sources)
                    /\ overlay = [s \in Stanzas |-> [k \in Keys(s) |-> Value(s, k)]]
  BY DEF HighestWins
<1>1. Len(contents) = Len(sources) /\ overlay = Finished(contents, sources)
  BY DEF ReadInv
<1>2. contents \in Seq(Content)
  BY DEF LayeringTypeOK
<1>3. DOMAIN contents = 1..Len(contents)
  BY <1>2
<1>4. Stanzas = Named(contents)
  BY <1>3 DEF Stanzas, Named
<1>5. \A s : KeysIn(s) = KeysOf(contents, s)
  BY <1>3 DEF KeysIn, KeysOf
<1>6. \A s : Keys(s) = AllKeys(contents, s)
  BY <1>5 DEF Keys, AllKeys
<1>7. \A s, k : Setting(s, k) = Sets(contents, s, k)
  BY <1>3 DEF Setting, Sets
<1>8. ASSUME NEW s, NEW k \in AllKeys(contents, s)
      PROVE  Final(s, Told(contents, sources, From(contents, s, k), k)) = Value(s, k)
  <2> DEFINE from == From(contents, s, k)
             I == Sets(contents, from, k)
             text == contents[Latest(I)][from][k]
             v == [from |-> sources[Latest(I)], text |-> text]
  <2>1. I # {}
    <3>1. k \in KeysOf(contents, s) \/ k \in KeysOf(contents, "default")
      BY DEF AllKeys
    <3> QED
      BY <3>1, SetKeys DEF From
  <2>2. I \in SUBSET (1..Len(sources))
    BY <1>1 DEF Sets
  <2>3. Top(I) = Latest(I)
    <3> HIDE DEF I
    <3> QED
      BY <2>1, <2>2, TopIs
  <2>4. Value(s, k) = [from |-> sources[Latest(I)],
                       text |-> IF options.expand THEN Expanded(s, text) ELSE text]
    <3>1. from = IF Setting(s, k) # {} THEN s ELSE "default"
      BY <1>7 DEF From
    <3>2. Setting(from, k) = I
      BY <1>7
    <3> HIDE DEF from, I
    <3> QED
      BY <2>3, <3>1, <3>2 DEF Value
  <2>5. Told(contents, sources, from, k) = v
    BY DEF Told
  <2> HIDE DEF text
  <2>6. v.text = text /\ v.from = sources[Latest(I)]
    BY Zenon
  <2>7. Final(s, v) = [from |-> sources[Latest(I)],
                       text |-> IF options.expand THEN Expanded(s, text) ELSE text]
    BY DEF Final
  <2> QED
    BY <2>4, <2>5, <2>7
<1> QED
  BY <1>1, <1>4, <1>6, <1>8 DEF Finished

\* What is fine was asked for.
LEMMA FineAsked == LayeringTypeOK /\ OrderInv => OnlyAsked
<1> SUFFICES ASSUME LayeringTypeOK, OrderInv, NEW i \in DOMAIN sources
             PROVE  LET f == sources[i]
                    IN  /\ InApp(f) => /\ meant[<<f.root, f.name>>].enabled \/ options.includeDisabled
                                       /\ f.name \notin Hidden
                        /\ InApp(f) \/ f.layer = "user" => options.filter \subseteq {f.name}
                        /\ f.layer = "user" => options.user
  BY DEF OnlyAsked
<1>1. sources \in Seq(Fine)
  BY DEF OrderInv
<1>2. sources[i] \in Fine
  BY <1>1
<1> QED
  BY <1>2 DEF Fine

LayeringInv == LayeringTypeOK /\ ListInv /\ OrderInv /\ ReadInv

\* All of this holds throughout a call.
LEMMA LayeringInvariant == LayeringSpec => []LayeringInv
<1>1. LayeringInit => LayeringInv
  BY LayeringInitType, InitOrder, ReadInit DEF LayeringInv
<1>2. LayeringInv /\ [LayeringNext]_layeringVars => LayeringInv'
  BY LayeringTypeStep, ListStep, OrderStep, ReadStep DEF LayeringInv
<1> QED
  BY <1>1, <1>2, PTL DEF LayeringSpec

\* Every variable keeps its type, whatever is found at any look.
THEOREM LayeringTypeCorrect == LayeringSpec => []LayeringTypeOK
<1>1. LayeringInv => LayeringTypeOK
  BY DEF LayeringInv
<1> QED
  BY <1>1, LayeringInvariant, PTL

\* No setting comes from an app that is disabled, hidden or filtered out, nor from a
\* user's files for another, however the directories change while the call lists them.
THEOREM OnlyAskedHolds == LayeringSpec => []OnlyAsked
<1>1. LayeringInv => OnlyAsked
  BY FineAsked DEF LayeringInv
<1> QED
  BY <1>1, LayeringInvariant, PTL

\* A call that succeeds gives each key the value of the highest file that sets it:
\* the order the directories are listed in is that of the precedence.
THEOREM HighestWinsHolds == LayeringSpec => []HighestWins
<1>1. LayeringInv => HighestWins
  BY HighestIsLast DEF LayeringInv
<1> QED
  BY <1>1, LayeringInvariant, PTL
=============================================================================
