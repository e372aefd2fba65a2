---------------------------- MODULE LogFile_proofs ----------------------------
(***************************************************************************)
(* Theorems about LogFile for any number of rotated files, any buffer and  *)
(* rotation sizes, and any number of records, faults and restarts: what    *)
(* the log files hold, and that they implement LogSink.                    *)
(***************************************************************************)
EXTENDS LogFile, Induction, SequenceTheorems, TLAPS

----------------------------------------------------------------------------
(* Sizes.                                                                  *)

Weights(length, s) == [i \in 1..Len(s) |-> length[s[i]]]

LEMMA WeightsType ==
    ASSUME NEW length \in [Record -> Nat], NEW s \in Seq(Record)
    PROVE  /\ Weights(length, s) \in [1..Len(s) -> Nat] /\ Len(s) \in Nat
           /\ \A i \in 1..Len(s) : Weights(length, s)[i] = length[s[i]]
  BY DEF Weights

LEMMA SizeSums ==
    ASSUME NEW length \in [Record -> Nat], NEW s \in Seq(Record), NEW f,
           Sums(f, Weights(length, s), Len(s))
    PROVE  Size(length, s) = f[Len(s)]
<1> DEFINE F(g) == g = [n \in 0..Len(s) |-> IF n = 0 THEN 0 ELSE g[n - 1] + length[s[n]]]
           h == CHOOSE g : F(g)
           f0 == [i \in 0..Len(s) |-> f[i]]
<1>1. F(f0)
  BY WeightsType DEF Sums
<1>2. F(h)
  <2> HIDE DEF F, f0
  <2> QED
    BY <1>1
<1>3. Size(length, s) = h[Len(s)]
  BY DEF Size
<1> HIDE DEF h
<1>4. Sums(h, Weights(length, s), Len(s))
  BY <1>2, WeightsType DEF Sums
<1> QED
  BY <1>3, <1>4, WeightsType, SumsUnique

LEMMA SizeAdds ==
    ASSUME NEW length \in [Record -> Nat], NEW s \in Seq(Record)
    PROVE  \E f : Adds(f, Weights(length, s), Len(s)) /\ Size(length, s) = f[Len(s)]
<1>1. PICK f : Adds(f, Weights(length, s), Len(s))
  BY WeightsType, AddsExists
<1> QED
  BY <1>1, SizeSums DEF Adds

LEMMA SizeType ==
    ASSUME NEW length \in [Record -> Nat], NEW s \in Seq(Record)
    PROVE  Size(length, s) \in Nat
<1>1. PICK f : Adds(f, Weights(length, s), Len(s)) /\ Size(length, s) = f[Len(s)]
  BY SizeAdds
<1> QED
  BY <1>1, WeightsType DEF Adds

LEMMA SizeEmpty ==
    ASSUME NEW length \in [Record -> Nat]
    PROVE  Size(length, <<>>) = 0
<1>1. <<>> \in Seq(Record) /\ Len(<<>>) = 0
  OBVIOUS
<1>2. PICK f : Adds(f, Weights(length, <<>>), Len(<<>>)) /\ Size(length, <<>>) = f[Len(<<>>)]
  BY <1>1, SizeAdds
<1> QED
  BY <1>1, <1>2 DEF Adds, Sums

LEMMA SizeOne ==
    ASSUME NEW length \in [Record -> Nat], NEW r \in Record
    PROVE  Size(length, <<r>>) = length[r]
<1>1. <<r>> \in Seq(Record) /\ Len(<<r>>) = 1 /\ <<r>>[1] = r
  OBVIOUS
<1>2. PICK f : Adds(f, Weights(length, <<r>>), Len(<<r>>)) /\ Size(length, <<r>>) = f[Len(<<r>>)]
  BY <1>1, SizeAdds
<1>4. f[1] = f[0] + Weights(length, <<r>>)[1] /\ f[0] = 0
  BY <1>1, <1>2 DEF Adds, Sums
<1>5. Weights(length, <<r>>)[1] = length[r] /\ length[r] \in Nat
  <2>1. 1 \in 1..Len(<<r>>)
    BY <1>1
  <2> QED
    BY <1>1, <2>1, WeightsType
<1> QED
  BY <1>1, <1>2, <1>4, <1>5

LEMMA SizeConcat ==
    ASSUME NEW length \in [Record -> Nat], NEW s \in Seq(Record), NEW t \in Seq(Record)
    PROVE  Size(length, s \o t) = Size(length, s) + Size(length, t)
<1>1. PICK f : Adds(f, Weights(length, s), Len(s)) /\ Size(length, s) = f[Len(s)]
  BY SizeAdds
<1>2. PICK g : Adds(g, Weights(length, t), Len(t)) /\ Size(length, t) = g[Len(t)]
  BY SizeAdds
<1>3. /\ s \o t \in Seq(Record) /\ Len(s \o t) = Len(s) + Len(t)
      /\ \A i \in 1..(Len(s) + Len(t)) :
            (s \o t)[i] = IF i <= Len(s) THEN s[i] ELSE t[i - Len(s)]
  BY ConcatProperties
<1>4. Len(s) \in Nat /\ Len(t) \in Nat
  OBVIOUS
<1>5. ASSUME NEW i \in 1..(Len(s) + Len(t))
      PROVE  Weights(length, s \o t)[i] = IF i <= Len(s) THEN Weights(length, s)[i]
                                          ELSE Weights(length, t)[i - Len(s)]
  <2>1. Weights(length, s \o t)[i] = length[(s \o t)[i]]
    BY <1>3, WeightsType
  <2>2. CASE i <= Len(s)
    BY <1>3, <1>4, <2>1, <2>2, WeightsType
  <2>3. CASE i > Len(s)
    <3>1. i - Len(s) \in 1..Len(t)
      BY <1>4, <2>3
    <3>2. (s \o t)[i] = t[i - Len(s)]
      BY <1>3, <1>4, <2>3
    <3> QED
      BY <1>4, <2>1, <2>3, <3>1, <3>2, WeightsType
  <2> QED
    BY <1>4, <2>2, <2>3
<1>6. Joins(Weights(length, s \o t), Weights(length, s), Len(s), Weights(length, t), Len(t))
  BY <1>5 DEF Joins
<1>7. PICK h : /\ Sums(h, Weights(length, s \o t), Len(s) + Len(t))
               /\ h[Len(s) + Len(t)] = f[Len(s)] + g[Len(t)]
  BY <1>1, <1>2, <1>4, <1>6, SumsJoin
<1>8. Size(length, s \o t) = h[Len(s) + Len(t)]
  BY <1>3, <1>7, SizeSums
<1> QED
  BY <1>1, <1>2, <1>7, <1>8

USE BoundsAssumption, ConfigsAssumption DEF BoundsAssumption, Slot, disk, state, control,
        history, bounds

----------------------------------------------------------------------------
(* Sequences of records, which are numbered in the order they came in.     *)

Ascending(s) == \A i, j \in DOMAIN s : i < j => s[i] < s[j]
Less(R, S) == \A r \in R, t \in S : r < t

LEMMA NoRecords == ToSet(<<>>) = {} /\ Ascending(<<>>) /\ <<>> \in Seq(Record)
<1>1. <<>> \in Seq(Record)
  OBVIOUS
<1> QED
  BY <1>1 DEF ToSet, Ascending

LEMMA SetType == ASSUME NEW s \in Seq(Record) PROVE ToSet(s) \subseteq Record
  BY DEF ToSet

LEMMA CutOrder ==
    ASSUME NEW s \in Seq(Record), NEW k \in 0..Len(s), Ascending(s)
    PROVE  LET p == SubSeq(s, 1, k)  q == SubSeq(s, k + 1, Len(s))
           IN  /\ p \in Seq(Record) /\ q \in Seq(Record)
               /\ ToSet(s) = ToSet(p) \cup ToSet(q)
               /\ Ascending(p) /\ Ascending(q) /\ Less(ToSet(p), ToSet(q))
               /\ k = Len(s) => q = <<>>
               /\ k = 0 => p = <<>> /\ q = s
<1> DEFINE p == SubSeq(s, 1, k)
           q == SubSeq(s, k + 1, Len(s))
<1>0. \A i \in 1..Len(s) : s[i] \in Record
  OBVIOUS
<1>1. p \in Seq(Record) /\ Len(p) = k /\ \A i \in 1..k : p[i] = s[i]
  <2>1. \A i \in 1..k : s[i] \in Record
    BY <1>0
  <2> QED
    BY <2>1, SubSeqProperties
<1>2. q \in Seq(Record) /\ Len(q) = Len(s) - k
      /\ \A i \in 1..(Len(s) - k) : q[i] = s[k + i]
  <2>1. \A i \in k + 1..Len(s) : s[i] \in Record
    BY <1>0
  <2>2. /\ q \in Seq(Record)
        /\ Len(q) = IF k + 1 <= Len(s) THEN Len(s) - (k + 1) + 1 ELSE 0
        /\ \A i \in 1..(Len(s) - (k + 1) + 1) : q[i] = s[k + 1 + i - 1]
    BY <2>1, SubSeqProperties
  <2> QED
    BY <2>2
<1>a. k = 0 => q = s
  BY DEF q
<1> HIDE DEF p, q
<1>3. DOMAIN p = 1..k /\ DOMAIN q = 1..(Len(s) - k) /\ DOMAIN s = 1..Len(s)
  BY <1>1, <1>2
<1>4. \A i \in DOMAIN s : i \in DOMAIN p \/ (i - k \in DOMAIN q /\ s[i] = q[i - k])
  BY <1>2, <1>3
<1>5. ToSet(s) \subseteq ToSet(p) \cup ToSet(q)
  BY <1>1, <1>3, <1>4 DEF ToSet
<1>6. ToSet(p) \cup ToSet(q) \subseteq ToSet(s)
  <2>1. /\ \A i \in DOMAIN p : i \in DOMAIN s /\ p[i] = s[i]
        /\ \A i \in DOMAIN q : k + i \in DOMAIN s /\ q[i] = s[k + i]
    BY <1>1, <1>2, <1>3
  <2> QED
    BY <2>1 DEF ToSet
<1>7. Ascending(p)
  BY <1>1, <1>3 DEF Ascending
<1>8. Ascending(q)
  <2> SUFFICES ASSUME NEW i \in 1..(Len(s) - k), NEW j \in 1..(Len(s) - k), i < j
               PROVE  q[i] < q[j]
    BY <1>3 DEF Ascending
  <2>1. q[i] = s[k + i] /\ q[j] = s[k + j] /\ k + i < k + j
    BY <1>2
  <2>2. k + i \in DOMAIN s /\ k + j \in DOMAIN s
    BY <1>3
  <2> QED
    BY <2>1, <2>2 DEF Ascending
<1>9. Less(ToSet(p), ToSet(q))
  <2> SUFFICES ASSUME NEW i \in 1..k, NEW j \in 1..(Len(s) - k)
               PROVE  p[i] < q[j]
    BY <1>3 DEF Less, ToSet
  <2>1. p[i] = s[i] /\ q[j] = s[k + j] /\ i < k + j
    BY <1>1, <1>2
  <2>2. i \in DOMAIN s /\ k + j \in DOMAIN s
    BY <1>3
  <2> QED
    BY <2>1, <2>2 DEF Ascending
<1>10. (k = Len(s) => q = <<>>) /\ (k = 0 => p = <<>>)
  BY <1>1, <1>2, EmptySeq
<1> QED
  BY <1>1, <1>2, <1>5, <1>6, <1>7, <1>8, <1>9, <1>10, <1>a DEF p, q

LEMMA ConcatOrder ==
    ASSUME NEW s \in Seq(Record), NEW t \in Seq(Record), Ascending(s), Ascending(t),
           Less(ToSet(s), ToSet(t))
    PROVE  /\ s \o t \in Seq(Record)
           /\ ToSet(s \o t) = ToSet(s) \cup ToSet(t)
           /\ Ascending(s \o t)
<1> DEFINE u == s \o t
<1>1. /\ u \in Seq(Record) /\ Len(u) = Len(s) + Len(t)
      /\ \A i \in 1..(Len(s) + Len(t)) :
            u[i] = IF i <= Len(s) THEN s[i] ELSE t[i - Len(s)]
  BY ConcatProperties
<1> HIDE DEF u
<1>2. /\ DOMAIN u = 1..(Len(s) + Len(t)) /\ DOMAIN s = 1..Len(s) /\ DOMAIN t = 1..Len(t)
      /\ Len(s) \in Nat /\ Len(t) \in Nat
  BY <1>1
<1>3. \A i \in DOMAIN u : \/ i \in DOMAIN s /\ u[i] = s[i]
                          \/ i - Len(s) \in DOMAIN t /\ u[i] = t[i - Len(s)] /\ i > Len(s)
  BY <1>1, <1>2
<1>4. /\ \A i \in DOMAIN s : i \in DOMAIN u /\ u[i] = s[i]
      /\ \A i \in DOMAIN t : Len(s) + i \in DOMAIN u /\ u[Len(s) + i] = t[i]
  BY <1>1, <1>2
<1>5. ToSet(u) = ToSet(s) \cup ToSet(t)
  BY <1>3, <1>4 DEF ToSet
<1>6. ASSUME NEW i \in DOMAIN u, NEW j \in DOMAIN u, i < j
      PROVE  u[i] < u[j]
  <2>1. CASE i \in DOMAIN s /\ u[i] = s[i] /\ j \in DOMAIN s /\ u[j] = s[j]
    BY <1>6, <2>1 DEF Ascending
  <2>2. CASE i \in DOMAIN s /\ u[i] = s[i] /\ j - Len(s) \in DOMAIN t /\ u[j] = t[j - Len(s)]
    BY <1>6, <2>2 DEF Less, ToSet
  <2>3. CASE /\ i - Len(s) \in DOMAIN t /\ u[i] = t[i - Len(s)]
             /\ j - Len(s) \in DOMAIN t /\ u[j] = t[j - Len(s)]
    <3>1. i - Len(s) < j - Len(s)
      BY <1>2, <1>6
    <3> QED
      BY <1>6, <2>3, <3>1 DEF Ascending
  <2>4. ~(j \in DOMAIN s /\ i > Len(s))
    BY <1>2, <1>6
  <2> QED
    BY <1>3, <2>1, <2>2, <2>3, <2>4
<1> QED
  BY <1>1, <1>5, <1>6 DEF u, Ascending

LEMMA HeadOrder ==
    ASSUME NEW s \in Seq(Record), s # <<>>, Ascending(s)
    PROVE  /\ Head(s) \in Record /\ Tail(s) \in Seq(Record)
           /\ ToSet(s) = {Head(s)} \cup ToSet(Tail(s))
           /\ Ascending(Tail(s)) /\ Less({Head(s)}, ToSet(Tail(s)))
           /\ Len(s) = 1 <=> Tail(s) = <<>>
<1>1. /\ Head(s) \in Record /\ Tail(s) \in Seq(Record) /\ Len(Tail(s)) = Len(s) - 1
      /\ \A i \in 1..Len(Tail(s)) : Tail(s)[i] = s[i + 1]
      /\ Len(s) \in Nat /\ Len(s) > 0 /\ Head(s) = s[1]
  BY HeadTailProperties, EmptySeq
<1>2. DOMAIN s = 1..Len(s) /\ DOMAIN Tail(s) = 1..Len(Tail(s))
  BY <1>1
<1>3. \A i \in DOMAIN Tail(s) : i + 1 \in DOMAIN s /\ Tail(s)[i] = s[i + 1] /\ 1 < i + 1
  BY <1>1, <1>2
<1>4. \A i \in DOMAIN s : i = 1 \/ (i - 1 \in DOMAIN Tail(s) /\ s[i] = Tail(s)[i - 1])
  BY <1>1, <1>2
<1>5. 1 \in DOMAIN s
  BY <1>1, <1>2
<1>6. ToSet(s) = {Head(s)} \cup ToSet(Tail(s))
  <2> DEFINE first == Head(s)
             rest == Tail(s)
  <2>1. /\ \A i \in DOMAIN rest : \E j \in DOMAIN s : rest[i] = s[j]
        /\ \A i \in DOMAIN s : s[i] = first \/ \E j \in DOMAIN rest : s[i] = rest[j]
        /\ \E j \in DOMAIN s : first = s[j]
    BY <1>1, <1>3, <1>4, <1>5
  <2> HIDE DEF first, rest
  <2>2. ToSet(s) = {first} \cup ToSet(rest)
    BY <2>1 DEF ToSet
  <2> QED
    BY <2>2 DEF first, rest
<1>7. Ascending(Tail(s))
  <2> SUFFICES ASSUME NEW i \in DOMAIN Tail(s), NEW j \in DOMAIN Tail(s), i < j
               PROVE  Tail(s)[i] < Tail(s)[j]
    BY DEF Ascending
  <2>1. i + 1 < j + 1
    BY <1>2
  <2> QED
    BY <1>3, <2>1 DEF Ascending
<1>8. Less({Head(s)}, ToSet(Tail(s)))
  BY <1>1, <1>3, <1>5 DEF Less, ToSet, Ascending
<1>9. Len(s) = 1 <=> Tail(s) = <<>>
  <2>1. Tail(s) = <<>> <=> Len(Tail(s)) = 0
    BY <1>1, EmptySeq
  <2> QED
    BY <1>1, <2>1
<1> QED
  BY <1>1, <1>6, <1>7, <1>8, <1>9

----------------------------------------------------------------------------
(* Types.                                                                  *)

DataOK ==
    /\ content \in [Slot -> Seq(Record)]
    /\ buffer \in Seq(Record)
    /\ batch \in Seq(Record)
    /\ stored \in Seq(Record)
    /\ refused \subseteq Record
    /\ perished \subseteq Record
    /\ submitted \in 0..MaxRecords

FlagsOK ==
    /\ writer \in BOOLEAN
    /\ dirty \in BOOLEAN
    /\ lastError \in BOOLEAN
    /\ rotatedOk \in BOOLEAN

RestOK ==
    /\ config \in Configs
    /\ names \subseteq Slot
    /\ pc \in Busy \cup Gone \cup {"idle"}
    /\ index \in Slot
    /\ faults \in 0..MaxFaults
    /\ restarts \in 0..MaxRestarts
    /\ pc = "rename" => index # 0

SizesOK == currentSize \in Nat /\ torn \in Nat /\ missed \in Nat

TypeOK == DataOK /\ FlagsOK /\ RestOK /\ SizesOK

LEMMA InitType == Init => TypeOK
<1> SUFFICES ASSUME Init PROVE TypeOK
  OBVIOUS
<1>1. FlagsOK
  BY Zenon DEF Init, FlagsOK
<1>2. DataOK
  BY NoRecords DEF Init, DataOK
<1>3. RestOK
  BY DEF Init, RestOK, Busy, Gone, Rotating
<1>4. SizesOK
  BY DEF Init, SizesOK
<1> QED
  BY <1>1, <1>2, <1>3, <1>4 DEF TypeOK

LEMMA FlagsStep == FlagsOK /\ Next => FlagsOK'
<1> SUFFICES ASSUME FlagsOK, Next PROVE FlagsOK'
  OBVIOUS
<1> USE DEF FlagsOK
<1>1. ASSUME NEW n \in 1..MaxBatch, Submit(n) PROVE FlagsOK'
  BY <1>1, Zenon DEF Submit
<1>2. ASSUME FlushErr PROVE FlagsOK'
  <2>1. PICK k \in 0..Len(buffer) : dirty' \in {dirty, dirty /\ k < Len(buffer)}
    BY <1>2, Zenon DEF FlushErr
  <2>2. dirty' \in BOOLEAN
    BY <2>1, Zenon
  <2> QED
    BY <1>2, <2>2, Zenon DEF FlushErr, GiveUp
<1>3. ASSUME Rotate PROVE FlagsOK'
  BY <1>3, Zenon DEF Rotate
<1>4. ASSUME FlushOk PROVE FlagsOK'
  BY <1>4, Zenon DEF FlushOk
<1>5. ASSUME FlushUnavailable PROVE FlagsOK'
  BY <1>5, Zenon DEF FlushUnavailable, GiveUp
<1>6. ASSUME FinalizeOk PROVE FlagsOK'
  BY <1>6, Zenon DEF FinalizeOk
<1>7. ASSUME FinalizeErr PROVE FlagsOK'
  BY <1>7, Zenon DEF FinalizeErr
<1>8. ASSUME HandleWrite PROVE FlagsOK'
  BY <1>8, Zenon DEF HandleWrite
<1>9. ASSUME AppendOk PROVE FlagsOK'
  BY <1>9, Zenon DEF AppendOk
<1>10. ASSUME AppendErr PROVE FlagsOK'
  BY <1>10, Zenon DEF AppendErr, GiveUp
<1>11. ASSUME AppendPanic PROVE FlagsOK'
  BY <1>11, Zenon DEF AppendPanic
<1>12. ASSUME RotateFlushOk PROVE FlagsOK'
  BY <1>12, Zenon DEF RotateFlushOk, RotateFrom
<1>13. ASSUME RotateFlushErr PROVE FlagsOK'
  BY <1>13, Zenon DEF RotateFlushErr, GiveUp
<1>14. ASSUME RotateUnavailable PROVE FlagsOK'
  BY <1>14, Zenon DEF RotateUnavailable, GiveUp
<1>15. ASSUME RemoveOk PROVE FlagsOK'
  BY <1>15, Zenon DEF RemoveOk
<1>16. ASSUME RemoveErr PROVE FlagsOK'
  BY <1>16, Zenon DEF RemoveErr, RotateFilesErr
<1>17. ASSUME RenameOk PROVE FlagsOK'
  BY <1>17, Zenon DEF RenameOk
<1>18. ASSUME RenameErr PROVE FlagsOK'
  BY <1>18, Zenon DEF RenameErr, RotateFilesErr
<1>19. ASSUME ReopenFresh PROVE FlagsOK'
  BY <1>19, Zenon DEF ReopenFresh
<1>20. ASSUME ReopenAppend PROVE FlagsOK'
  BY <1>20, Zenon DEF ReopenAppend, GiveUp
<1>21. ASSUME ReopenErr PROVE FlagsOK'
  BY <1>21, Zenon DEF ReopenErr, GiveUp
<1>22. ASSUME Exit PROVE FlagsOK'
  BY <1>22, Zenon DEF Exit, Abandon
<1>23. ASSUME Crash PROVE FlagsOK'
  BY <1>23, Zenon DEF Crash, Abandon
<1>24. ASSUME Restart PROVE FlagsOK'
  BY <1>24, Zenon DEF Restart
<1>25. ASSUME DirectErr PROVE FlagsOK'
  BY <1>25, Zenon DEF DirectErr, GiveUp
<1> QED
  BY <1>1, <1>2, <1>3, <1>4, <1>5, <1>6, <1>7, <1>8, <1>9, <1>10, <1>11, <1>12,
     <1>13, <1>14, <1>15, <1>16, <1>17, <1>18, <1>19, <1>20, <1>21, <1>22, <1>23,
     <1>24, <1>25
     DEF Next, Command, Flush, Finalize, Write, RotateStep

LEMMA RestStep == RestOK /\ Next => RestOK'
<1> SUFFICES ASSUME RestOK, Next PROVE RestOK'
  OBVIOUS
<1> USE DEF RestOK, Busy, Gone, Rotating
<1>1. ASSUME NEW n \in 1..MaxBatch, Submit(n) PROVE RestOK'
  BY <1>1 DEF Submit
<1>2. ASSUME Rotate PROVE RestOK'
  BY <1>2 DEF Rotate
<1>3. ASSUME FlushOk PROVE RestOK'
  BY <1>3 DEF FlushOk, Drain
<1>4. ASSUME FlushErr PROVE RestOK'
  BY <1>4 DEF FlushErr, Drain, GiveUp, Fault
<1>5. ASSUME FlushUnavailable PROVE RestOK'
  BY <1>5 DEF FlushUnavailable, GiveUp
<1>6. ASSUME FinalizeOk PROVE RestOK'
  BY <1>6 DEF FinalizeOk, Drain
<1>7. ASSUME FinalizeErr PROVE RestOK'
  <2>1. config' = config /\ pc' = "exit" /\ index' = index
    BY <1>7, Zenon DEF FinalizeErr
  <2>2. names' = names
    BY <1>7, Zenon DEF FinalizeErr, Drain
  <2>3. Fault \/ UNCHANGED bounds
    BY <1>7, Zenon DEF FinalizeErr
  <2> QED
    BY <2>1, <2>2, <2>3 DEF Fault
<1>8. ASSUME HandleWrite PROVE RestOK'
  BY <1>8 DEF HandleWrite
<1>9. ASSUME AppendOk PROVE RestOK'
  BY <1>9 DEF AppendOk, ToBuffer, ToFile
<1>10. ASSUME AppendErr PROVE RestOK'
  BY <1>10 DEF AppendErr, Drain, GiveUp, Fault
<1>11. ASSUME AppendPanic PROVE RestOK'
  BY <1>11 DEF AppendPanic
<1>12. ASSUME RotateFlushOk PROVE RestOK'
  BY <1>12, ConfigsAssumption DEF RotateFlushOk, RotateFrom, Drain
<1>13. ASSUME RotateFlushErr PROVE RestOK'
  BY <1>13 DEF RotateFlushErr, Drain, GiveUp, Fault
<1>14. ASSUME RotateUnavailable PROVE RestOK'
  BY <1>14 DEF RotateUnavailable, GiveUp
<1>15. ASSUME RemoveOk PROVE RestOK'
  BY <1>15 DEF RemoveOk
<1>16. ASSUME RemoveErr PROVE RestOK'
  BY <1>16 DEF RemoveErr, RotateFilesErr, Fault
<1>17. ASSUME RenameOk PROVE RestOK'
  BY <1>17 DEF RenameOk
<1>18. ASSUME RenameErr PROVE RestOK'
  BY <1>18 DEF RenameErr, RotateFilesErr, Fault
<1>19. ASSUME ReopenFresh PROVE RestOK'
  BY <1>19 DEF ReopenFresh
<1>20. ASSUME ReopenAppend PROVE RestOK'
  BY <1>20 DEF ReopenAppend, GiveUp
<1>21. ASSUME ReopenErr PROVE RestOK'
  BY <1>21 DEF ReopenErr, GiveUp, Fault
<1>22. ASSUME Exit PROVE RestOK'
  <2>1. config' = config /\ pc' = "closed" /\ index' = index /\ names' = names
    BY <1>22, Zenon DEF Exit
  <2>2. Fault \/ UNCHANGED bounds
    BY <1>22, Zenon DEF Exit
  <2> QED
    BY <2>1, <2>2 DEF Fault
<1>23. ASSUME Crash PROVE RestOK'
  <2>1. pc' = "down" /\ UNCHANGED <<config, names, index, bounds>>
    BY <1>23, Zenon DEF Crash
  <2> QED
    BY <2>1
<1>24. ASSUME Restart PROVE RestOK'
  BY <1>24 DEF Restart
<1>25. ASSUME DirectErr PROVE RestOK'
  <2>1. pc' = "idle" /\ UNCHANGED <<config, names, index>> /\ Fault
    BY <1>25, Zenon DEF DirectErr, GiveUp
  <2> QED
    BY <2>1 DEF Fault
<1> QED
  BY <1>1, <1>2, <1>3, <1>4, <1>5, <1>6, <1>7, <1>8, <1>9, <1>10, <1>11, <1>12,
     <1>13, <1>14, <1>15, <1>16, <1>17, <1>18, <1>19, <1>20, <1>21, <1>22, <1>23,
     <1>24, <1>25
     DEF Next, Command, Flush, Finalize, Write, RotateStep

----------------------------------------------------------------------------
(* Where the records are.  The first two say that what was received passes *)
(* through hand, buffer and file in its order and is in one place; the     *)
(* third, that the files have the last of what was stored, in order.       *)

Order ==
    /\ Ascending(stored) /\ Ascending(buffer) /\ Ascending(batch)
    /\ Less(ToSet(stored), ToSet(buffer))
    /\ Less(ToSet(stored), ToSet(batch))
    /\ Less(ToSet(buffer), ToSet(batch))

Placement ==
    /\ \A r \in Record : r <= submitted
          <=> \/ r \in ToSet(stored) \/ r \in ToSet(buffer) \/ r \in ToSet(batch)
              \/ r \in refused \/ r \in perished
    /\ \A r \in refused : r \notin ToSet(stored) /\ r \notin ToSet(buffer)
                          /\ r \notin ToSet(batch) /\ r \notin perished
    /\ \A r \in perished : r \notin ToSet(stored) /\ r \notin ToSet(buffer)
                           /\ r \notin ToSet(batch)

Files ==
    /\ \A s \in Slot : Ascending(content[s]) /\ ToSet(content[s]) \subseteq ToSet(stored)
    /\ \A s, t \in Slot : s > t => Less(ToSet(content[s]), ToSet(content[t]))
    /\ \A s \in Slot : \A x \in ToSet(content[s]), y \in ToSet(stored) :
          x < y => \E t \in Slot : y \in ToSet(content[t])

Data == DataOK /\ Order /\ Placement /\ Files

Rest(k) == SubSeq(buffer, k + 1, Len(buffer))

\* Some records go to the base file; the first k buffered ones do.
Stores(part) ==
    /\ content' = [content EXCEPT ![0] = @ \o part]
    /\ stored' = stored \o part
Spill(k) == Stores(SubSeq(buffer, 1, k))

LEMMA NumberedRecords == Record \subseteq Int /\ 0 \in Slot /\ Slot \subseteq Int
  BY DEF Record

LEMMA Apart ==
    ASSUME NEW R, NEW S, S \subseteq Record, Less(R, S)
    PROVE  \A r \in S : r \notin R
  BY NumberedRecords DEF Less

LEMMA BatchApart ==
    ASSUME Data
    PROVE  \A r \in ToSet(batch) : r \in Record /\ r \notin ToSet(stored) /\ r \notin ToSet(buffer)
<1>1. ToSet(batch) \subseteq Record
  BY SetType DEF Data, DataOK
<1> QED
  BY <1>1, Apart DEF Data, Order

LEMMA StoreFiles ==
    ASSUME Data, NEW part \in Seq(Record), Ascending(part),
           Less(ToSet(stored), ToSet(part)), Stores(part)
    PROVE  /\ content' \in [Slot -> Seq(Record)] /\ stored' \in Seq(Record)
           /\ Ascending(stored')
           /\ ToSet(stored') = ToSet(stored) \cup ToSet(part)
           /\ ToSet(content'[0]) = ToSet(content[0]) \cup ToSet(part)
           /\ \A s \in Slot : s # 0 => content'[s] = content[s]
           /\ Files'
<1>2. /\ stored' = stored \o part
      /\ content' = [content EXCEPT ![0] = content[0] \o part]
  BY DEF Stores
<1>4. content[0] \in Seq(Record) /\ Ascending(content[0])
      /\ ToSet(content[0]) \subseteq ToSet(stored) /\ stored \in Seq(Record)
      /\ Ascending(stored)
  BY NumberedRecords DEF Data, DataOK, Files, Order
<1>5. Less(ToSet(content[0]), ToSet(part))
  BY <1>4 DEF Less
<1>6. /\ stored' \in Seq(Record) /\ ToSet(stored') = ToSet(stored) \cup ToSet(part)
      /\ Ascending(stored')
  BY <1>2, <1>4, ConcatOrder
<1> DEFINE base == content[0] \o part
<1>7. /\ base \in Seq(Record) /\ ToSet(base) = ToSet(content[0]) \cup ToSet(part)
      /\ Ascending(base)
  BY <1>4, <1>5, ConcatOrder
<1>8. content' = [content EXCEPT ![0] = base]
  BY <1>2
<1> HIDE DEF base
<1>9. /\ content' \in [Slot -> Seq(Record)] /\ content'[0] = base
      /\ \A s \in Slot : s # 0 => content'[s] = content[s]
  BY <1>7, <1>8, NumberedRecords DEF Data, DataOK
<1>11. ASSUME NEW s \in Slot
       PROVE Ascending(content'[s]) /\ ToSet(content'[s]) \subseteq ToSet(stored')
  BY <1>4, <1>6, <1>7, <1>9 DEF Data, Files
<1>12. ASSUME NEW s \in Slot, NEW t \in Slot, s > t
       PROVE Less(ToSet(content'[s]), ToSet(content'[t]))
  <2>0. s # 0
    BY <1>12
  <2>1. s # 0 /\ content'[s] = content[s]
    BY <1>9, <2>0
  <2>2. Less(ToSet(content[s]), ToSet(content[t]))
    BY <1>12 DEF Data, Files
  <2>3. ToSet(content[s]) \subseteq ToSet(stored)
    BY DEF Data, Files
  <2>4. CASE t = 0
    BY <1>7, <1>9, <2>1, <2>2, <2>3, <2>4 DEF Less
  <2>5. CASE t # 0
    BY <1>9, <2>1, <2>2, <2>5
  <2> QED
    BY <2>4, <2>5
<1>13. ASSUME NEW s \in Slot, NEW x \in ToSet(content'[s]), NEW y \in ToSet(stored'),
              x < y
       PROVE \E t \in Slot : y \in ToSet(content'[t])
  <2>1. CASE y \in ToSet(part)
    BY <1>7, <1>9, <2>1, NumberedRecords
  <2>2. CASE y \in ToSet(stored)
    <3>1. x \in Record /\ y \in Record
      BY <1>4, <1>6, <1>9, <2>2, SetType
    <3>2. x \notin ToSet(part)
      BY <1>13, <2>2, <3>1, NumberedRecords DEF Less
    <3>3. x \in ToSet(content[s])
      BY <1>7, <1>9, <1>13, <3>2
    <3>4. PICK t \in Slot : y \in ToSet(content[t])
      BY <1>13, <2>2, <3>3 DEF Data, Files
    <3>5. y \in ToSet(content'[t])
      BY <1>7, <1>9, <3>4
    <3> QED
      BY <3>5
  <2> QED
    BY <1>6, <2>1, <2>2
<1>14. Files'
  BY <1>11, <1>12, <1>13, Zenon DEF Files
<1> QED
  BY <1>6, <1>7, <1>9, <1>14

LEMMA SpillFiles ==
    ASSUME Data, NEW k \in 0..Len(buffer), Spill(k)
    PROVE  /\ content' \in [Slot -> Seq(Record)] /\ stored' \in Seq(Record)
           /\ Rest(k) \in Seq(Record)
           /\ Ascending(stored') /\ Ascending(Rest(k))
           /\ ToSet(stored') \cup ToSet(Rest(k)) = ToSet(stored) \cup ToSet(buffer)
           /\ ToSet(Rest(k)) \subseteq ToSet(buffer)
           /\ Less(ToSet(stored'), ToSet(Rest(k)))
           /\ Files'
<1> DEFINE part == SubSeq(buffer, 1, k)
           rest == Rest(k)
<1>1. /\ part \in Seq(Record) /\ rest \in Seq(Record)
      /\ ToSet(buffer) = ToSet(part) \cup ToSet(rest)
      /\ Ascending(part) /\ Ascending(rest) /\ Less(ToSet(part), ToSet(rest))
  BY CutOrder DEF Data, DataOK, Order, Rest
<1>2. Stores(part)
  BY DEF Spill
<1> HIDE DEF part, rest
<1>3. Less(ToSet(stored), ToSet(part)) /\ Less(ToSet(stored), ToSet(rest))
  BY <1>1 DEF Less, Data, Order
<1>4. /\ content' \in [Slot -> Seq(Record)] /\ stored' \in Seq(Record)
      /\ Ascending(stored') /\ Files'
      /\ ToSet(stored') = ToSet(stored) \cup ToSet(part)
  BY <1>1, <1>2, <1>3, StoreFiles
<1>5. Less(ToSet(stored'), ToSet(rest))
  BY <1>1, <1>3, <1>4 DEF Less
<1> QED
  BY <1>1, <1>4, <1>5 DEF rest

\* The batch stays, or is given up, or is lost with the process.
LEMMA SpillKeeps ==
    ASSUME Data, NEW k \in 0..Len(buffer), Spill(k), buffer' = Rest(k),
           UNCHANGED <<batch, refused, perished, submitted>>
    PROVE  Data'
<1>1. DataOK'
  BY SpillFiles DEF Data, DataOK
<1>2. Order'
  BY SpillFiles DEF Data, Order, Less
<1>3. Placement'
  BY SpillFiles DEF Data, Placement
<1> QED
  BY <1>1, <1>2, <1>3, SpillFiles DEF Data

LEMMA SpillGivesUp ==
    ASSUME Data, NEW k \in 0..Len(buffer), Spill(k), buffer' = Rest(k),
           batch' = <<>>, refused' = refused \cup ToSet(batch),
           UNCHANGED <<perished, submitted>>
    PROVE  Data'
<1>0. ToSet(batch') = {} /\ Ascending(batch') /\ batch' \in Seq(Record)
  BY NoRecords
<1>1. DataOK'
  BY <1>0, SpillFiles, SetType DEF Data, DataOK
<1>2. Order'
  BY <1>0, SpillFiles DEF Data, Order, Less
<1>3. \A r \in ToSet(batch) : r \in Record /\ r \notin ToSet(stored) /\ r \notin ToSet(buffer)
  BY BatchApart
<1>4. Placement'
  BY <1>0, <1>3, SpillFiles DEF Data, Placement
<1> QED
  BY <1>1, <1>2, <1>4, SpillFiles DEF Data

LEMMA SpillPerishes ==
    ASSUME Data, NEW k \in 0..Len(buffer), Spill(k), buffer' = <<>>, batch' = <<>>,
           perished' = perished \cup ToSet(batch) \cup ToSet(Rest(k)),
           UNCHANGED <<refused, submitted>>
    PROVE  Data'
<1>0. /\ ToSet(batch') = {} /\ Ascending(batch') /\ batch' \in Seq(Record)
      /\ ToSet(buffer') = {} /\ Ascending(buffer') /\ buffer' \in Seq(Record)
  BY NoRecords
<1>1. DataOK'
  BY <1>0, SpillFiles, SetType DEF Data, DataOK
<1>2. Order'
  BY <1>0, SpillFiles DEF Data, Order, Less
<1>3. \A r \in ToSet(batch) : r \in Record /\ r \notin ToSet(stored) /\ r \notin ToSet(buffer)
  BY BatchApart
<1>5. \A r \in ToSet(Rest(k)) : r \notin ToSet(stored')
  <2>1. ToSet(Rest(k)) \subseteq Record /\ Less(ToSet(stored'), ToSet(Rest(k)))
    BY SpillFiles, SetType
  <2> QED
    BY <2>1, Apart
<1>4. Placement'
  BY <1>0, <1>3, <1>5, SpillFiles DEF Data, Placement
<1> QED
  BY <1>1, <1>2, <1>4, SpillFiles DEF Data

LEMMA SpillNone ==
    ASSUME Data, UNCHANGED <<content, stored>>
    PROVE  0 \in 0..Len(buffer) /\ Spill(0) /\ Rest(0) = buffer
<1>1. SubSeq(buffer, 1, 0) = <<>> /\ Rest(0) = buffer /\ 0 \in 0..Len(buffer)
  BY CutOrder DEF Data, DataOK, Order, Rest
<1>2. stored \o <<>> = stored /\ content[0] \o <<>> = content[0]
  BY ConcatEmptySeq, NumberedRecords DEF Data, DataOK
<1>3. [content EXCEPT ![0] = content[0]] = content
  BY DEF Data, DataOK
<1> QED
  BY <1>1, <1>2, <1>3 DEF Spill, Stores

LEMMA SpillAll ==
    ASSUME Data
    PROVE  /\ Len(buffer) \in 0..Len(buffer) /\ Rest(Len(buffer)) = <<>>
           /\ SubSeq(buffer, 1, Len(buffer)) = buffer
<1>1. Len(buffer) \in 0..Len(buffer) /\ Rest(Len(buffer)) = <<>>
  <2>1. Len(buffer) \in 0..Len(buffer)
    BY DEF Data, DataOK
  <2> QED
    BY <2>1, CutOrder DEF Data, DataOK, Order, Rest
<1>2. SubSeq(buffer, 1, Len(buffer)) = buffer
  BY DEF Data, DataOK
<1> QED
  BY <1>1, <1>2

LEMMA StayKeeps ==
    ASSUME Data, UNCHANGED <<content, stored, buffer, batch, refused, perished, submitted>>
    PROVE  Data'
  BY DEF Data, DataOK, Order, Placement, Files

LEMMA Single ==
    ASSUME NEW r \in Record
    PROVE  <<r>> \in Seq(Record) /\ ToSet(<<r>>) = {r} /\ Ascending(<<r>>)
<1>1. <<r>> \in Seq(Record) /\ DOMAIN <<r>> = {1} /\ <<r>>[1] = r
  OBVIOUS
<1>2. ToSet(<<r>>) = {r}
  BY <1>1 DEF ToSet
<1>3. Ascending(<<r>>)
  BY <1>1 DEF Ascending
<1> QED
  BY <1>1, <1>2, <1>3

\* The next records are numbered after all earlier ones.
LEMMA SubmitKeeps ==
    ASSUME Data, NEW n \in 1..MaxBatch, submitted + n <= MaxRecords, batch = <<>>,
           batch' = [i \in 1..n |-> submitted + i], submitted' = submitted + n,
           UNCHANGED <<content, stored, buffer, refused, perished>>
    PROVE  Data' /\ batch' # <<>>
<1>1. /\ DOMAIN batch' = 1..n /\ Len(batch') = n
      /\ \A i \in 1..n : batch'[i] = submitted + i
      /\ submitted \in 0..MaxRecords /\ n \in Nat /\ n > 0
  BY DEF Data, DataOK
<1>2. batch' \in Seq(Record) /\ batch' # <<>>
  <2>1. batch' \in [1..n -> Record]
    BY <1>1 DEF Record
  <2>2. batch' \in Seq(Record)
    BY <1>1, <2>1, SeqDef
  <2> QED
    BY <1>1, <2>2, EmptySeq
<1>3. Ascending(batch')
  BY <1>1 DEF Ascending
<1>4. \A r \in Record : r \in ToSet(batch') <=> r > submitted /\ r <= submitted'
  <2>1. ASSUME NEW r \in Record, r > submitted, r <= submitted + n
        PROVE  r \in ToSet(batch')
    <3>1. r - submitted \in DOMAIN batch' /\ batch'[r - submitted] = r
      BY <1>1, <2>1, NumberedRecords
    <3> QED
      BY <3>1 DEF ToSet
  <2>2. ASSUME NEW r \in ToSet(batch')
        PROVE  r > submitted /\ r <= submitted + n
    BY <1>1 DEF ToSet
  <2> QED
    BY <2>1, <2>2
<1>5. \A r \in ToSet(stored) \cup ToSet(buffer) \cup refused \cup perished :
         r \in Record /\ r <= submitted
  <2>1. ToSet(stored) \subseteq Record /\ ToSet(buffer) \subseteq Record
    BY SetType DEF Data, DataOK
  <2> QED
    BY <2>1 DEF Data, DataOK, Placement
<1>6. ToSet(batch) = {} /\ ToSet(batch') \subseteq Record
  BY <1>2, NoRecords, SetType
<1>7. DataOK'
  BY <1>1, <1>2 DEF Data, DataOK
<1>8. Order'
  <2>1. ASSUME NEW x \in ToSet(stored) \cup ToSet(buffer), NEW y \in ToSet(batch')
        PROVE  x < y
    <3>1. x \in Record /\ x <= submitted /\ y \in Record /\ y > submitted
      BY <1>4, <1>5, <1>6
    <3> QED
      BY <1>1, <3>1 DEF Record
  <2>2. Less(ToSet(stored), ToSet(batch')) /\ Less(ToSet(buffer), ToSet(batch'))
    BY <2>1 DEF Less
  <2> QED
    BY <1>3, <2>2 DEF Data, Order
<1>9. Placement'
  <2>1. \A r \in Record : r <= submitted' <=> r <= submitted \/ r \in ToSet(batch')
    BY <1>1, <1>4 DEF Record
  <2>2. \A r \in ToSet(batch') : r \in Record /\ ~(r <= submitted)
    BY <1>1, <1>4, <1>6 DEF Record
  <2> QED
    BY <1>5, <1>6, <2>1, <2>2 DEF Data, Placement
<1>10. Files'
  BY DEF Data, Files
<1> QED
  BY <1>2, <1>7, <1>8, <1>9, <1>10 DEF Data

\* write_all of the record in hand, after the buffer where it did not fit.
LEMMA PutKeeps ==
    ASSUME Data, batch # <<>>, batch' = Tail(batch),
           \/ buffer' = Append(buffer, Head(batch)) /\ UNCHANGED <<content, stored>>
           \/ Spill(Len(buffer)) /\ buffer' = <<Head(batch)>>
           \/ Stores(Append(buffer, Head(batch))) /\ buffer' = <<>>,
           UNCHANGED <<refused, perished, submitted>>
    PROVE  Data' /\ (Len(batch) = 1 <=> batch' = <<>>)
<1> DEFINE first == Head(batch)
           rest == Tail(batch)
<1>1. /\ first \in Record /\ rest \in Seq(Record)
      /\ ToSet(batch) = {first} \cup ToSet(rest)
      /\ Ascending(rest) /\ Less({first}, ToSet(rest))
      /\ Len(batch) = 1 <=> rest = <<>>
  BY HeadOrder DEF Data, DataOK, Order
<1>2. batch' = rest
  OBVIOUS
<1>3. \/ buffer' = Append(buffer, first) /\ UNCHANGED <<content, stored>>
      \/ Spill(Len(buffer)) /\ buffer' = <<first>>
      \/ Stores(Append(buffer, first)) /\ buffer' = <<>>
  OBVIOUS
<1> HIDE DEF first, rest
<1>4. /\ first \notin ToSet(stored) /\ first \notin ToSet(buffer)
      /\ Less(ToSet(stored), {first}) /\ Less(ToSet(buffer), {first})
      /\ Less(ToSet(stored), ToSet(rest)) /\ Less(ToSet(buffer), ToSet(rest))
  BY <1>1, BatchApart DEF Data, Order, Less
<1>5. <<first>> \in Seq(Record) /\ ToSet(<<first>>) = {first} /\ Ascending(<<first>>)
  BY <1>1, Single
<1> DEFINE more == Append(buffer, first)
<1>8. /\ more \in Seq(Record) /\ ToSet(more) = ToSet(buffer) \cup {first}
      /\ Ascending(more)
  <2>1. more = buffer \o <<first>>
    BY <1>1, AppendIsConcat DEF Data, DataOK
  <2> HIDE DEF more
  <2> QED
    BY <1>4, <1>5, <2>1, ConcatOrder DEF Data, DataOK, Order
<1>a. \/ buffer' = more /\ UNCHANGED <<content, stored>>
      \/ Spill(Len(buffer)) /\ buffer' = <<first>>
      \/ Stores(more) /\ buffer' = <<>>
  BY <1>3
<1> HIDE DEF more
<1>6. CASE buffer' = more /\ UNCHANGED <<content, stored>>
  <2>2. /\ buffer' \in Seq(Record) /\ ToSet(buffer') = ToSet(buffer) \cup {first}
        /\ Ascending(buffer')
    BY <1>6, <1>8
  <2>3. DataOK'
    BY <1>1, <1>2, <1>6, <2>2 DEF Data, DataOK
  <2>4. Order'
    BY <1>1, <1>2, <1>4, <1>6, <2>2 DEF Data, Order, Less
  <2>5. Placement'
    BY <1>1, <1>2, <1>6, <2>2 DEF Data, Placement
  <2>6. Files'
    BY <1>6 DEF Data, Files
  <2> QED
    BY <1>1, <1>2, <2>3, <2>4, <2>5, <2>6 DEF Data
<1>7. CASE Spill(Len(buffer)) /\ buffer' = <<first>>
  <2>1. /\ content' \in [Slot -> Seq(Record)] /\ stored' \in Seq(Record)
        /\ Ascending(stored') /\ Files'
        /\ ToSet(stored') = ToSet(stored) \cup ToSet(buffer)
    BY <1>7, SpillFiles, SpillAll, NoRecords
  <2>2. DataOK'
    BY <1>1, <1>2, <1>5, <1>7, <2>1 DEF Data, DataOK
  <2>3. Order'
    BY <1>1, <1>2, <1>4, <1>5, <1>7, <2>1 DEF Data, Order, Less
  <2>4. Placement'
    BY <1>1, <1>2, <1>5, <1>7, <2>1 DEF Data, Placement
  <2> QED
    BY <1>1, <1>2, <2>1, <2>2, <2>3, <2>4 DEF Data
<1>9. CASE Stores(more) /\ buffer' = <<>>
  <2>1. Less(ToSet(stored), ToSet(more))
    BY <1>4, <1>8 DEF Less, Data, Order
  <2>2. /\ content' \in [Slot -> Seq(Record)] /\ stored' \in Seq(Record)
        /\ Ascending(stored') /\ Files'
        /\ ToSet(stored') = ToSet(stored) \cup ToSet(buffer) \cup {first}
    BY <1>8, <1>9, <2>1, StoreFiles
  <2>3. ToSet(buffer') = {} /\ Ascending(buffer') /\ buffer' \in Seq(Record)
    BY <1>9, NoRecords
  <2>4. DataOK'
    BY <1>1, <1>2, <2>2, <2>3 DEF Data, DataOK
  <2>5. Order'
    BY <1>1, <1>2, <1>4, <2>2, <2>3 DEF Data, Order, Less
  <2>6. Placement'
    BY <1>1, <1>2, <2>2, <2>3 DEF Data, Placement
  <2> QED
    BY <1>1, <1>2, <2>2, <2>4, <2>5, <2>6 DEF Data
<1> QED
  BY <1>a, <1>6, <1>7, <1>9

----------------------------------------------------------------------------
(* Rotation, a step at a time.                                             *)

\* What holds at each place of the worker.
Hand ==
    /\ pc \in {"idle", "exit"} \cup Gone => batch = <<>>
    /\ pc \in {"write", "append"} => batch # <<>>

Writer ==
    /\ ~writer => buffer = <<>>
    /\ pc \in Rotating \cup Gone => ~writer

Loop ==
    /\ \A s \in Slot : s > config.maxRotateFiles => content[s] = <<>>
    /\ pc \in {"remove", "rename"} => index <= config.maxRotateFiles
    /\ pc = "remove" => index = config.maxRotateFiles \/ content[index] = <<>>
    /\ pc = "rename" => content[index] = <<>>
    /\ pc = "reopen" => rotatedOk = FALSE \/ content[0] = <<>>

\* Only the highest slot that is in use is deleted, or one that is empty.
LEMMA RemoveKeeps ==
    ASSUME Data, RestOK, Loop, pc = "remove", content' = [content EXCEPT ![index] = <<>>],
           UNCHANGED <<stored, buffer, batch, refused, perished, submitted>>
    PROVE  Data'
<1>0. index \in Slot /\ <<>> \in Seq(Record)
  BY NoRecords DEF RestOK
<1>1. /\ content' \in [Slot -> Seq(Record)] /\ content'[index] = <<>>
      /\ \A s \in Slot : s # index => content'[s] = content[s]
  BY <1>0 DEF Data, DataOK
<1>2. ToSet(content'[index]) = {} /\ Ascending(content'[index])
  BY <1>1, NoRecords
<1>3. DataOK' /\ Order' /\ Placement'
  BY <1>1 DEF Data, DataOK, Order, Placement
<1>4. ASSUME NEW s \in Slot
      PROVE  Ascending(content'[s]) /\ ToSet(content'[s]) \subseteq ToSet(stored')
  BY <1>1, <1>2 DEF Data, Files
<1>5. ASSUME NEW s \in Slot, NEW t \in Slot, s > t
      PROVE  Less(ToSet(content'[s]), ToSet(content'[t]))
  BY <1>1, <1>2, <1>5 DEF Data, Files, Less
<1>6. ASSUME NEW s \in Slot, NEW x \in ToSet(content'[s]), NEW y \in ToSet(stored'), x < y
      PROVE  \E t \in Slot : y \in ToSet(content'[t])
  <2>1. s # index /\ x \in ToSet(content[s])
    BY <1>1, <1>2
  <2>2. PICK t \in Slot : y \in ToSet(content[t])
    BY <1>6, <2>1 DEF Data, Files
  <2>3. CASE t # index
    BY <1>1, <2>2, <2>3
  <2>4. CASE t = index
    <3>1. content[index] # <<>> /\ content[s] # <<>>
      BY <2>1, <2>2, <2>4, NoRecords
    <3>2. index = config.maxRotateFiles /\ ~(s > config.maxRotateFiles)
      BY <3>1 DEF Loop
    <3>3. index > s
      BY <1>0, <2>1, <3>2
    <3>4. y < x
      BY <1>0, <2>1, <2>2, <2>4, <3>3 DEF Data, Files, Less
    <3>5. x \in Record /\ y \in Record
      BY <1>0, <2>1, <2>2, SetType DEF Data, DataOK
    <3> QED
      BY <1>6, <3>4, <3>5 DEF Record
  <2> QED
    BY <2>3, <2>4
<1>7. Files'
  BY <1>4, <1>5, <1>6, Zenon DEF Files
<1> QED
  BY <1>3, <1>7 DEF Data

\* A file moves up one slot, which is empty.
LEMMA RenameKeeps ==
    ASSUME Data, RestOK, Loop, pc = "rename",
           content' = [content EXCEPT ![index] = content[index - 1], ![index - 1] = <<>>],
           UNCHANGED <<stored, buffer, batch, refused, perished, submitted>>
    PROVE  Data' /\ index - 1 \in Slot /\ content'[index - 1] = <<>>
           /\ \A s \in Slot : s > config.maxRotateFiles => content'[s] = <<>>
<1> DEFINE src == index - 1
<1>0. /\ index \in Slot /\ src \in Slot /\ index = src + 1 /\ src # index
      /\ content[index] = <<>> /\ index <= config.maxRotateFiles /\ <<>> \in Seq(Record)
  BY NoRecords DEF RestOK, Loop
<1>1. /\ content' \in [Slot -> Seq(Record)] /\ content'[src] = <<>>
      /\ content'[index] = content[src]
      /\ \A s \in Slot : s # index /\ s # src => content'[s] = content[s]
  <2>1. content' = [content EXCEPT ![index] = content[src], ![src] = <<>>]
    OBVIOUS
  <2>2. content[src] \in Seq(Record) /\ content \in [Slot -> Seq(Record)]
    BY <1>0 DEF Data, DataOK
  <2> HIDE DEF src
  <2> QED
    BY <1>0, <2>1, <2>2
<1>2. ToSet(content'[src]) = {} /\ Ascending(content'[src]) /\ ToSet(content[index]) = {}
  BY <1>0, <1>1, NoRecords
<1>3. DataOK' /\ Order' /\ Placement'
  BY <1>1 DEF Data, DataOK, Order, Placement
<1>a. \A s \in Slot : s > config.maxRotateFiles => content'[s] = <<>>
  <2>1. config.maxRotateFiles \in Slot /\ \A s \in Slot : s > config.maxRotateFiles => content[s] = <<>>
    BY DEF RestOK, Loop
  <2> QED
    BY <1>0, <1>1, <2>1
<1> HIDE DEF src
<1>4. ASSUME NEW s \in Slot
      PROVE  Ascending(content'[s]) /\ ToSet(content'[s]) \subseteq ToSet(stored')
  BY <1>0, <1>1, <1>2 DEF Data, Files
<1>5. ASSUME NEW s \in Slot, NEW t \in Slot, s > t
      PROVE  Less(ToSet(content'[s]), ToSet(content'[t]))
  <2> DEFINE from(n) == IF n = index THEN src ELSE n
  <2>1. \A n \in Slot : n # src => content'[n] = content[from(n)] /\ from(n) \in Slot
    BY <1>0, <1>1
  <2>2. CASE s = src \/ t = src
    BY <1>2, <2>2 DEF Less
  <2>3. CASE s # src /\ t # src
    <3>1. from(s) > from(t)
      BY <1>0, <1>5, <2>3
    <3> QED
      BY <2>1, <2>3, <3>1 DEF Data, Files
  <2> QED
    BY <2>2, <2>3
<1>6. ASSUME NEW s \in Slot, NEW x \in ToSet(content'[s]), NEW y \in ToSet(stored'), x < y
      PROVE  \E t \in Slot : y \in ToSet(content'[t])
  <2>1. \E n \in Slot : x \in ToSet(content[n])
    BY <1>0, <1>1, <1>2
  <2>2. PICK t \in Slot : y \in ToSet(content[t])
    BY <1>6, <2>1 DEF Data, Files
  <2>3. t # index
    BY <1>2, <2>2
  <2> QED
    BY <1>0, <1>1, <2>2, <2>3
<1>7. Files'
  BY <1>4, <1>5, <1>6, Zenon DEF Files
<1> QED
  BY <1>0, <1>1, <1>3, <1>7, <1>a DEF Data, src

----------------------------------------------------------------------------
(* Every action keeps the records where they belong.                       *)

LEMMA DirectSpills ==
    ASSUME Data, DirectErr
    PROVE  Spill(Len(buffer)) /\ buffer' = Rest(Len(buffer)) /\ buffer' = <<>>
<1>1. Stores(buffer) /\ buffer' = <<>>
  BY Zenon DEF DirectErr, Stores
<1> QED
  BY <1>1, SpillAll, Zenon DEF Spill

LEMMA DataStep == Data /\ RestOK /\ Hand /\ Writer /\ Loop /\ Next => Data'
<1> SUFFICES ASSUME Data, RestOK, Hand, Writer, Loop, Next PROVE Data'
  OBVIOUS
<1>a. \A k \in 0..Len(buffer) - 1 : k \in 0..Len(buffer)
  BY DEF Data, DataOK
<1>1. ASSUME NEW n \in 1..MaxBatch, Submit(n) PROVE Data'
  <2>1. /\ submitted + n <= MaxRecords /\ batch = <<>>
        /\ batch' = [i \in 1..n |-> submitted + i] /\ submitted' = submitted + n
        /\ UNCHANGED <<content, stored, buffer, refused, perished>>
    BY <1>1, Zenon DEF Submit, Hand
  <2> QED
    BY <2>1, SubmitKeeps
<1>2. ASSUME Rotate PROVE Data'
  <2>1. UNCHANGED <<content, stored, buffer, batch, refused, perished, submitted>>
    BY <1>2, Zenon DEF Rotate
  <2> QED
    BY <2>1, StayKeeps
<1>3. ASSUME FlushOk PROVE Data'
  <2>1. Spill(Len(buffer)) /\ buffer' = Rest(Len(buffer))
        /\ UNCHANGED <<batch, refused, perished, submitted>>
    BY <1>3, Zenon DEF FlushOk, Drain, Spill, Stores, Rest
  <2> QED
    BY <2>1, SpillAll, SpillKeeps
<1>4. ASSUME FlushErr PROVE Data'
  <2>1. PICK k \in 0..Len(buffer) : Spill(k) /\ buffer' = Rest(k)
    BY <1>4, Zenon DEF FlushErr, Drain, Spill, Stores, Rest
  <2>2. /\ batch' = <<>> /\ refused' = refused \cup ToSet(batch)
        /\ UNCHANGED <<perished, submitted>>
    BY <1>4, Zenon DEF FlushErr, GiveUp, Fault
  <2> QED
    BY <2>1, <2>2, SpillGivesUp
<1>5. ASSUME FlushUnavailable PROVE Data'
  <2>1. /\ UNCHANGED <<content, stored, buffer, perished, submitted>>
        /\ batch' = <<>> /\ refused' = refused \cup ToSet(batch)
    BY <1>5, Zenon DEF FlushUnavailable, GiveUp
  <2> QED
    BY <2>1, SpillNone, SpillGivesUp
<1>6. ASSUME FinalizeOk PROVE Data'
  <2>1. Spill(Len(buffer)) /\ buffer' = Rest(Len(buffer))
        /\ UNCHANGED <<batch, refused, perished, submitted>>
    BY <1>6, Zenon DEF FinalizeOk, Drain, Spill, Stores, Rest
  <2> QED
    BY <2>1, SpillAll, SpillKeeps
<1>7. ASSUME FinalizeErr PROVE Data'
  <2>1. UNCHANGED <<batch, refused, perished, submitted>>
    BY <1>7, Zenon DEF FinalizeErr, Fault
  <2>2. CASE \E k \in 0..Len(buffer) : Drain(k)
    <3>1. PICK k \in 0..Len(buffer) : Spill(k) /\ buffer' = Rest(k)
      BY <2>2, Zenon DEF Drain, Spill, Stores, Rest
    <3> QED
      BY <2>1, <3>1, SpillKeeps
  <2>3. CASE UNCHANGED <<content, buffer, stored>>
    BY <2>1, <2>3, StayKeeps
  <2> QED
    BY <1>7, <2>2, <2>3, Zenon DEF FinalizeErr
<1>8. ASSUME HandleWrite PROVE Data'
  <2>1. UNCHANGED <<content, stored, buffer, batch, refused, perished, submitted>>
    BY <1>8, Zenon DEF HandleWrite
  <2> QED
    BY <2>1, StayKeeps
<1>9. ASSUME AppendOk PROVE Data'
  <2>1. batch # <<>>
    BY <1>9, Zenon DEF AppendOk, Hand
  <2>2. /\ \/ buffer' = Append(buffer, Head(batch)) /\ UNCHANGED <<content, stored>>
           \/ /\ content' = [content EXCEPT ![0] = @ \o buffer]
              /\ stored' = stored \o buffer /\ buffer' = <<Head(batch)>>
           \/ Stores(Append(buffer, Head(batch))) /\ buffer' = <<>>
        /\ batch' = Tail(batch) /\ UNCHANGED <<refused, perished, submitted>>
    BY <1>9, Zenon DEF AppendOk, ToBuffer, ToFile, Stores
  <2>3. \/ buffer' = Append(buffer, Head(batch)) /\ UNCHANGED <<content, stored>>
        \/ Spill(Len(buffer)) /\ buffer' = <<Head(batch)>>
        \/ Stores(Append(buffer, Head(batch))) /\ buffer' = <<>>
    BY <2>2, SpillAll, Zenon DEF Spill, Stores
  <2> QED
    BY <2>1, <2>2, <2>3, PutKeeps
<1>10. ASSUME AppendErr PROVE Data'
  <2>1. PICK k \in 0..Len(buffer) : Spill(k) /\ buffer' = Rest(k)
    BY <1>10, <1>a, Zenon DEF AppendErr, Drain, Spill, Stores, Rest
  <2>2. /\ batch' = <<>> /\ refused' = refused \cup ToSet(batch)
        /\ UNCHANGED <<perished, submitted>>
    BY <1>10, Zenon DEF AppendErr, GiveUp, Fault
  <2> QED
    BY <2>1, <2>2, SpillGivesUp
<1>11. ASSUME AppendPanic PROVE Data'
  <2>1. /\ UNCHANGED <<content, stored, buffer, refused, submitted>>
        /\ batch' = <<>> /\ perished' = perished \cup ToSet(batch) /\ buffer = <<>>
    BY <1>11, Zenon DEF AppendPanic, Writer
  <2>2. perished' = perished \cup ToSet(batch) \cup ToSet(Rest(0))
    BY <2>1, SpillNone, NoRecords
  <2> QED
    BY <2>1, <2>2, SpillNone, SpillPerishes
<1>12. ASSUME RotateFlushOk PROVE Data'
  <2>1. Spill(Len(buffer)) /\ buffer' = Rest(Len(buffer))
        /\ UNCHANGED <<batch, refused, perished, submitted>>
    BY <1>12, Zenon DEF RotateFlushOk, RotateFrom, Drain, Spill, Stores, Rest
  <2> QED
    BY <2>1, SpillAll, SpillKeeps
<1>13. ASSUME RotateFlushErr PROVE Data'
  <2>1. PICK k \in 0..Len(buffer) : Spill(k) /\ buffer' = Rest(k)
    BY <1>13, Zenon DEF RotateFlushErr, Drain, Spill, Stores, Rest
  <2>2. /\ batch' = <<>> /\ refused' = refused \cup ToSet(batch)
        /\ UNCHANGED <<perished, submitted>>
    BY <1>13, Zenon DEF RotateFlushErr, GiveUp, Fault
  <2> QED
    BY <2>1, <2>2, SpillGivesUp
<1>14. ASSUME RotateUnavailable PROVE Data'
  <2>1. /\ UNCHANGED <<content, stored, buffer, perished, submitted>>
        /\ batch' = <<>> /\ refused' = refused \cup ToSet(batch)
    BY <1>14, Zenon DEF RotateUnavailable, GiveUp
  <2> QED
    BY <2>1, SpillNone, SpillGivesUp
<1>15. ASSUME RemoveOk PROVE Data'
  <2>1. /\ pc = "remove" /\ content' = [content EXCEPT ![index] = <<>>]
        /\ UNCHANGED <<stored, buffer, batch, refused, perished, submitted>>
    BY <1>15, Zenon DEF RemoveOk
  <2> QED
    BY <2>1, RemoveKeeps
<1>16. ASSUME RemoveErr PROVE Data'
  <2>1. UNCHANGED <<content, stored, buffer, batch, refused, perished, submitted>>
    BY <1>16, Zenon DEF RemoveErr, RotateFilesErr, Fault
  <2> QED
    BY <2>1, StayKeeps
<1>17. ASSUME RenameOk PROVE Data'
  <2>1. /\ pc = "rename"
        /\ content' = [content EXCEPT ![index] = content[index - 1], ![index - 1] = <<>>]
        /\ UNCHANGED <<stored, buffer, batch, refused, perished, submitted>>
    BY <1>17, Zenon DEF RenameOk
  <2> QED
    BY <2>1, RenameKeeps
<1>18. ASSUME RenameErr PROVE Data'
  <2>1. UNCHANGED <<content, stored, buffer, batch, refused, perished, submitted>>
    BY <1>18, Zenon DEF RenameErr, RotateFilesErr, Fault
  <2> QED
    BY <2>1, StayKeeps
<1>19. ASSUME ReopenFresh PROVE Data'
  <2>1. /\ content' = [content EXCEPT ![0] = <<>>] /\ content[0] = <<>>
        /\ UNCHANGED <<stored, buffer, batch, refused, perished, submitted>>
    BY <1>19, Zenon DEF ReopenFresh, Loop
  <2>2. content' = content
    BY <2>1 DEF Data, DataOK
  <2> QED
    BY <2>1, <2>2, StayKeeps
<1>20. ASSUME ReopenAppend PROVE Data'
  <2>1. /\ UNCHANGED <<content, stored, buffer, perished, submitted>>
        /\ batch' = <<>> /\ refused' = refused \cup ToSet(batch)
    BY <1>20, Zenon DEF ReopenAppend, GiveUp
  <2> QED
    BY <2>1, SpillNone, SpillGivesUp
<1>21. ASSUME ReopenErr PROVE Data'
  <2>1. /\ UNCHANGED <<content, stored, buffer, perished, submitted>>
        /\ batch' = <<>> /\ refused' = refused \cup ToSet(batch)
    BY <1>21, Zenon DEF ReopenErr, Fault, GiveUp
  <2> QED
    BY <2>1, SpillNone, SpillGivesUp
<1>22. ASSUME Exit PROVE Data'
  <2>1. batch' = batch /\ batch = <<>> /\ refused' = refused
    BY <1>22, Zenon DEF Exit, Hand
  <2>2. CASE Abandon(Len(buffer), {}) /\ UNCHANGED <<perished, bounds>>
    <3>1. Spill(Len(buffer)) /\ buffer' = Rest(Len(buffer))
      BY <2>2, SpillAll, Zenon DEF Spill, Stores, Abandon
    <3> QED
      BY <2>1, <2>2, <3>1, SpillAll, SpillKeeps
  <2>3. CASE \E k \in 0..Len(buffer) - 1 :
                /\ Fault
                /\ Abandon(k, {buffer[k + 1]})
                /\ perished' = perished \cup ToSet(Rest(k))
    <3>1. PICK k \in 0..Len(buffer) :
             /\ Fault /\ Spill(k) /\ buffer' = <<>>
             /\ perished' = perished \cup ToSet(Rest(k))
      BY <1>a, <2>3, Zenon DEF Spill, Stores, Abandon
    <3>2. submitted' = submitted
      BY <3>1 DEF Fault
    <3>3. perished' = perished \cup ToSet(batch) \cup ToSet(Rest(k))
      BY <2>1, <3>1, NoRecords
    <3> QED
      BY <2>1, <3>1, <3>2, <3>3, SpillPerishes
  <2> QED
    BY <1>22, <2>2, <2>3, Zenon DEF Exit, Rest
<1>23. ASSUME Crash PROVE Data'
  <2>1. PICK k \in 0..Len(buffer) :
           /\ Spill(k) /\ buffer' = <<>>
           /\ perished' = perished \cup ToSet(batch) \cup ToSet(Rest(k))
    BY <1>23, Zenon DEF Crash, Abandon, Spill, Stores, Rest
  <2>2. batch' = <<>> /\ UNCHANGED <<refused, submitted>>
    BY <1>23, Zenon DEF Crash
  <2> QED
    BY <2>1, <2>2, SpillPerishes
<1>25. ASSUME DirectErr PROVE Data'
  <2>1. Spill(Len(buffer)) /\ buffer' = Rest(Len(buffer))
    BY <1>25, DirectSpills
  <2>2. /\ batch' = <<>> /\ refused' = refused \cup ToSet(batch)
        /\ UNCHANGED <<perished, submitted>>
    BY <1>25, Zenon DEF DirectErr, GiveUp, Fault
  <2> QED
    BY <2>1, <2>2, SpillAll, SpillGivesUp
<1>24. ASSUME Restart PROVE Data'
  <2>1. UNCHANGED <<content, stored, buffer, batch, refused, perished, submitted>>
    BY <1>24, Zenon DEF Restart
  <2> QED
    BY <2>1, StayKeeps
<1> QED
  BY <1>1, <1>2, <1>3, <1>4, <1>5, <1>6, <1>7, <1>8, <1>9, <1>10, <1>11, <1>12,
     <1>13, <1>14, <1>15, <1>16, <1>17, <1>18, <1>19, <1>20, <1>21, <1>22, <1>23,
     <1>24, <1>25
     DEF Next, Command, Flush, Finalize, Write, RotateStep

LEMMA HandStep == Data /\ Hand /\ Writer /\ Next => Hand'
<1> SUFFICES ASSUME Data, Hand, Writer, Next PROVE Hand'
  OBVIOUS
<1> USE DEF Hand, Gone
<1>1. ASSUME NEW n \in 1..MaxBatch, Submit(n) PROVE Hand'
  <2>1. /\ submitted + n <= MaxRecords /\ batch = <<>> /\ pc' = "write"
        /\ batch' = [i \in 1..n |-> submitted + i] /\ submitted' = submitted + n
        /\ UNCHANGED <<content, stored, buffer, refused, perished>>
    BY <1>1, Zenon DEF Submit
  <2>2. batch' # <<>>
    BY <2>1, SubmitKeeps
  <2> QED
    BY <2>1, <2>2
<1>2. ASSUME Rotate PROVE Hand'
  BY <1>2 DEF Rotate
<1>3. ASSUME FlushOk PROVE Hand'
  BY <1>3 DEF FlushOk, Drain
<1>4. ASSUME FlushErr PROVE Hand'
  BY <1>4 DEF FlushErr, Drain, GiveUp, Fault
<1>5. ASSUME FlushUnavailable PROVE Hand'
  BY <1>5 DEF FlushUnavailable, GiveUp
<1>6. ASSUME FinalizeOk PROVE Hand'
  BY <1>6 DEF FinalizeOk, Drain
<1>7. ASSUME FinalizeErr PROVE Hand'
  BY <1>7 DEF FinalizeErr, Drain, Fault
<1>8. ASSUME HandleWrite PROVE Hand'
  BY <1>8 DEF HandleWrite
<1>9. ASSUME AppendOk PROVE Hand'
  <2>1. batch # <<>> /\ batch' = Tail(batch) /\ pc' = IF Len(batch) = 1 THEN "idle" ELSE "write"
    BY <1>9 DEF AppendOk
  <2>2. Len(batch) = 1 <=> Tail(batch) = <<>>
    BY <2>1, HeadOrder DEF Data, DataOK, Order
  <2> QED
    BY <2>1, <2>2
<1>10. ASSUME AppendErr PROVE Hand'
  BY <1>10 DEF AppendErr, Drain, GiveUp, Fault
<1>11. ASSUME AppendPanic PROVE Hand'
  BY <1>11 DEF AppendPanic
<1>12. ASSUME RotateFlushOk PROVE Hand'
  BY <1>12 DEF RotateFlushOk, RotateFrom, Drain
<1>13. ASSUME RotateFlushErr PROVE Hand'
  BY <1>13 DEF RotateFlushErr, Drain, GiveUp, Fault
<1>14. ASSUME RotateUnavailable PROVE Hand'
  BY <1>14 DEF RotateUnavailable, GiveUp
<1>15. ASSUME RemoveOk PROVE Hand'
  BY <1>15 DEF RemoveOk
<1>16. ASSUME RemoveErr PROVE Hand'
  BY <1>16 DEF RemoveErr, RotateFilesErr, Fault
<1>17. ASSUME RenameOk PROVE Hand'
  BY <1>17 DEF RenameOk
<1>18. ASSUME RenameErr PROVE Hand'
  BY <1>18 DEF RenameErr, RotateFilesErr, Fault
<1>19. ASSUME ReopenFresh PROVE Hand'
  BY <1>19 DEF ReopenFresh
<1>20. ASSUME ReopenAppend PROVE Hand'
  BY <1>20 DEF ReopenAppend, GiveUp
<1>21. ASSUME ReopenErr PROVE Hand'
  BY <1>21 DEF ReopenErr, GiveUp, Fault
<1>22. ASSUME Exit PROVE Hand'
  BY <1>22 DEF Exit
<1>23. ASSUME Crash PROVE Hand'
  BY <1>23 DEF Crash
<1>25. ASSUME DirectErr PROVE Hand'
  BY <1>25 DEF DirectErr, GiveUp
<1>24. ASSUME Restart PROVE Hand'
  BY <1>24 DEF Restart
<1> QED
  BY <1>1, <1>2, <1>3, <1>4, <1>5, <1>6, <1>7, <1>8, <1>9, <1>10, <1>11, <1>12,
     <1>13, <1>14, <1>15, <1>16, <1>17, <1>18, <1>19, <1>20, <1>21, <1>22, <1>23,
     <1>24, <1>25
     DEF Next, Command, Flush, Finalize, Write, RotateStep

LEMMA WriterStep == Data /\ Hand /\ Writer /\ Next => Writer'
<1> SUFFICES ASSUME Data, Hand, Writer, Next PROVE Writer'
  OBVIOUS
<1> USE DEF Writer, Gone, Rotating
<1>1. ASSUME NEW n \in 1..MaxBatch, Submit(n) PROVE Writer'
  BY <1>1 DEF Submit
<1>2. ASSUME Rotate PROVE Writer'
  BY <1>2 DEF Rotate
<1>3. ASSUME FlushOk PROVE Writer'
  BY <1>3 DEF FlushOk, Drain
<1>4. ASSUME FlushErr PROVE Writer'
  BY <1>4 DEF FlushErr, Drain, GiveUp, Fault
<1>5. ASSUME FlushUnavailable PROVE Writer'
  BY <1>5 DEF FlushUnavailable, GiveUp
<1>6. ASSUME FinalizeOk PROVE Writer'
  BY <1>6 DEF FinalizeOk, Drain
<1>7. ASSUME FinalizeErr PROVE Writer'
  BY <1>7 DEF FinalizeErr, Drain, Fault
<1>8. ASSUME HandleWrite PROVE Writer'
  BY <1>8 DEF HandleWrite
<1>9. ASSUME AppendOk PROVE Writer'
  <2>1. writer /\ writer' = writer /\ pc' \in {"idle", "write"}
    BY <1>9 DEF AppendOk
  <2> QED
    BY <2>1
<1>10. ASSUME AppendErr PROVE Writer'
  BY <1>10 DEF AppendErr, Drain, GiveUp, Fault
<1>11. ASSUME AppendPanic PROVE Writer'
  BY <1>11 DEF AppendPanic
<1>12. ASSUME RotateFlushOk PROVE Writer'
  BY <1>12 DEF RotateFlushOk, RotateFrom, Drain
<1>13. ASSUME RotateFlushErr PROVE Writer'
  BY <1>13 DEF RotateFlushErr, Drain, GiveUp, Fault
<1>14. ASSUME RotateUnavailable PROVE Writer'
  BY <1>14 DEF RotateUnavailable, GiveUp
<1>15. ASSUME RemoveOk PROVE Writer'
  BY <1>15 DEF RemoveOk
<1>16. ASSUME RemoveErr PROVE Writer'
  BY <1>16 DEF RemoveErr, RotateFilesErr, Fault
<1>17. ASSUME RenameOk PROVE Writer'
  BY <1>17 DEF RenameOk
<1>18. ASSUME RenameErr PROVE Writer'
  BY <1>18 DEF RenameErr, RotateFilesErr, Fault
<1>19. ASSUME ReopenFresh PROVE Writer'
  BY <1>19 DEF ReopenFresh
<1>20. ASSUME ReopenAppend PROVE Writer'
  BY <1>20 DEF ReopenAppend, GiveUp
<1>21. ASSUME ReopenErr PROVE Writer'
  BY <1>21 DEF ReopenErr, GiveUp, Fault
<1>22. ASSUME Exit PROVE Writer'
  <2>1. buffer' = <<>> /\ writer' = FALSE
    BY <1>22, Zenon DEF Exit, Abandon
  <2> QED
    BY <2>1
<1>23. ASSUME Crash PROVE Writer'
  <2>1. buffer' = <<>> /\ writer' = FALSE
    BY <1>23, Zenon DEF Crash, Abandon
  <2> QED
    BY <2>1
<1>25. ASSUME DirectErr PROVE Writer'
  <2>1. buffer' = <<>> /\ writer' = writer /\ writer /\ pc' = "idle"
    BY <1>25, Zenon DEF DirectErr, GiveUp
  <2> QED
    BY <2>1
<1>24. ASSUME Restart PROVE Writer'
  BY <1>24 DEF Restart
<1> QED
  BY <1>1, <1>2, <1>3, <1>4, <1>5, <1>6, <1>7, <1>8, <1>9, <1>10, <1>11, <1>12,
     <1>13, <1>14, <1>15, <1>16, <1>17, <1>18, <1>19, <1>20, <1>21, <1>22, <1>23,
     <1>24, <1>25
     DEF Next, Command, Flush, Finalize, Write, RotateStep

\* A change of the base only, at a place where no rotation is under way.
LEMMA OutsideRotation ==
    ASSUME Loop, Data, RestOK, config' = config, pc' \notin Rotating,
           \A s \in Slot : s # 0 => content'[s] = content[s]
    PROVE  Loop'
<1>1. config.maxRotateFiles \in Slot
  BY DEF RestOK
<1>2. \A s \in Slot : s > config.maxRotateFiles => content'[s] = <<>>
  BY <1>1 DEF Loop
<1> QED
  BY <1>2 DEF Loop, Rotating

LEMMA SpillSlots ==
    ASSUME Data, NEW k, Spill(k)
    PROVE  \A s \in Slot : s # 0 => content'[s] = content[s]
  BY DEF Data, DataOK, Spill, Stores

LEMMA LoopStep == Data /\ RestOK /\ Loop /\ Next => Loop'
<1> SUFFICES ASSUME Data, RestOK, Loop, Next PROVE Loop'
  OBVIOUS
<1>1. ASSUME NEW n \in 1..MaxBatch, Submit(n) PROVE Loop'
  <2>1. config' = config /\ pc' = "write" /\ content' = content
    BY <1>1, Zenon DEF Submit
  <2> QED
    BY <2>1, OutsideRotation DEF Rotating
<1>2. ASSUME Rotate PROVE Loop'
  <2>1. config' = config /\ pc' = "flush" /\ content' = content
    BY <1>2, Zenon DEF Rotate
  <2> QED
    BY <2>1, OutsideRotation DEF Rotating
<1>3. ASSUME FlushOk PROVE Loop'
  <2>1. config' = config /\ pc' = "idle" /\ \E k : Spill(k)
    BY <1>3, Zenon DEF FlushOk, Drain, Spill, Stores
  <2> QED
    BY <2>1, SpillSlots, OutsideRotation DEF Rotating
<1>4. ASSUME FlushErr PROVE Loop'
  <2>1. config' = config /\ pc' = "idle" /\ \E k : Spill(k)
    BY <1>4, Zenon DEF FlushErr, Drain, Spill, Stores, GiveUp
  <2> QED
    BY <2>1, SpillSlots, OutsideRotation DEF Rotating
<1>5. ASSUME FlushUnavailable PROVE Loop'
  <2>1. config' = config /\ pc' = "idle" /\ content' = content
    BY <1>5, Zenon DEF FlushUnavailable, GiveUp
  <2> QED
    BY <2>1, OutsideRotation DEF Rotating
<1>6. ASSUME FinalizeOk PROVE Loop'
  <2>1. config' = config /\ pc' = "exit" /\ \E k : Spill(k)
    BY <1>6, Zenon DEF FinalizeOk, Drain, Spill, Stores
  <2> QED
    BY <2>1, SpillSlots, OutsideRotation DEF Rotating
<1>7. ASSUME FinalizeErr PROVE Loop'
  <2>1. config' = config /\ pc' = "exit" /\ ((\E k : Spill(k)) \/ content' = content)
    BY <1>7, Zenon DEF FinalizeErr, Drain, Spill, Stores
  <2> QED
    BY <2>1, SpillSlots, OutsideRotation DEF Rotating
<1>8. ASSUME HandleWrite PROVE Loop'
  <2>1. config' = config /\ content' = content /\ pc' \in {"flush", "append"}
    BY <1>8 DEF HandleWrite
  <2> QED
    BY <2>1, OutsideRotation DEF Rotating
<1>9. ASSUME AppendOk PROVE Loop'
  <2>1. config' = config /\ pc' \in {"idle", "write"}
    BY <1>9 DEF AppendOk
  <2>3. content' = content \/ \E x : content' = [content EXCEPT ![0] = x]
    BY <1>9, Zenon DEF AppendOk, ToBuffer, ToFile
  <2>2. \A s \in Slot : s # 0 => content'[s] = content[s]
    BY <2>3 DEF Data, DataOK
  <2> QED
    BY <2>1, <2>2, OutsideRotation DEF Rotating
<1>10. ASSUME AppendErr PROVE Loop'
  <2>1. config' = config /\ pc' = "idle" /\ \E k : Spill(k)
    BY <1>10, Zenon DEF AppendErr, Drain, Spill, Stores, GiveUp
  <2> QED
    BY <2>1, SpillSlots, OutsideRotation DEF Rotating
<1>11. ASSUME AppendPanic PROVE Loop'
  <2>1. config' = config /\ pc' = "panicked" /\ content' = content
    BY <1>11, Zenon DEF AppendPanic
  <2> QED
    BY <2>1, OutsideRotation DEF Rotating
<1>12. ASSUME RotateFlushOk PROVE Loop'
  <2>1. /\ config' = config /\ pc' = "remove" /\ index' = config.maxRotateFiles
        /\ \E k : Spill(k)
    BY <1>12, Zenon DEF RotateFlushOk, RotateFrom, Drain, Spill, Stores
  <2>2. \A s \in Slot : s # 0 => content'[s] = content[s]
    BY <2>1, SpillSlots
  <2>3. config.maxRotateFiles \in Slot
    BY DEF RestOK
  <2> QED
    BY <2>1, <2>2, <2>3 DEF Loop
<1>13. ASSUME RotateFlushErr PROVE Loop'
  <2>1. config' = config /\ pc' = "idle" /\ \E k : Spill(k)
    BY <1>13, Zenon DEF RotateFlushErr, Drain, Spill, Stores, GiveUp
  <2> QED
    BY <2>1, SpillSlots, OutsideRotation DEF Rotating
<1>14. ASSUME RotateUnavailable PROVE Loop'
  <2>1. config' = config /\ pc' = "idle" /\ content' = content
    BY <1>14, Zenon DEF RotateUnavailable, GiveUp
  <2> QED
    BY <2>1, OutsideRotation DEF Rotating
<1>15. ASSUME RemoveOk PROVE Loop'
  <2>1. /\ config' = config /\ index' = index /\ content' = [content EXCEPT ![index] = <<>>]
        /\ pc' = (IF index = 0 THEN "reopen" ELSE "rename") /\ index <= config.maxRotateFiles
    BY <1>15 DEF RemoveOk, Loop
  <2>2. content'[index] = <<>> /\ \A s \in Slot : s # index => content'[s] = content[s]
    BY <2>1 DEF Data, DataOK, RestOK
  <2>3. config.maxRotateFiles \in Slot /\ index \in Slot
    BY DEF RestOK
  <2> QED
    BY <2>1, <2>2, <2>3 DEF Loop
<1>16. ASSUME RemoveErr PROVE Loop'
  <2>1. config' = config /\ pc' = "reopen" /\ rotatedOk' = FALSE /\ content' = content
    BY <1>16, Zenon DEF RemoveErr, RotateFilesErr
  <2> QED
    BY <2>1 DEF Loop
<1>17. ASSUME RenameOk PROVE Loop'
  <2>1. /\ pc = "rename" /\ config' = config /\ index' = index - 1
        /\ content' = [content EXCEPT ![index] = content[index - 1], ![index - 1] = <<>>]
        /\ pc' = (IF index - 1 = 0 THEN "reopen" ELSE "remove")
        /\ index <= config.maxRotateFiles
        /\ UNCHANGED <<stored, buffer, batch, refused, perished, submitted>>
    BY <1>17 DEF RenameOk, Loop
  <2>2. /\ index - 1 \in Slot /\ content'[index - 1] = <<>>
        /\ \A s \in Slot : s > config.maxRotateFiles => content'[s] = <<>>
    BY <2>1, RenameKeeps
  <2>3. config.maxRotateFiles \in Slot /\ index \in Slot
    BY DEF RestOK
  <2>4. content'[index'] = <<>>
    BY <2>1, <2>2
  <2>5. pc' = "reopen" => content'[0] = <<>>
    BY <2>1, <2>2
  <2>6. index' <= config'.maxRotateFiles
    BY <2>1, <2>3
  <2>7. pc' \in {"reopen", "remove"}
    BY <2>1
  <2>8. \A s \in Slot : s > config'.maxRotateFiles => content'[s] = <<>>
    BY <2>1, <2>2
  <2> QED
    BY <2>4, <2>5, <2>6, <2>7, <2>8 DEF Loop
<1>18. ASSUME RenameErr PROVE Loop'
  <2>1. config' = config /\ pc' = "reopen" /\ rotatedOk' = FALSE /\ content' = content
    BY <1>18, Zenon DEF RenameErr, RotateFilesErr
  <2> QED
    BY <2>1 DEF Loop
<1>19. ASSUME ReopenFresh PROVE Loop'
  <2>1. /\ config' = config /\ pc' \in {"idle", "append"}
        /\ content' = [content EXCEPT ![0] = <<>>]
    BY <1>19 DEF ReopenFresh
  <2>2. \A s \in Slot : s # 0 => content'[s] = content[s]
    BY <2>1 DEF Data, DataOK
  <2> QED
    BY <2>1, <2>2, OutsideRotation DEF Rotating
<1>20. ASSUME ReopenAppend PROVE Loop'
  <2>1. config' = config /\ pc' = "idle" /\ content' = content
    BY <1>20, Zenon DEF ReopenAppend, GiveUp
  <2> QED
    BY <2>1, OutsideRotation DEF Rotating
<1>21. ASSUME ReopenErr PROVE Loop'
  <2>1. config' = config /\ pc' = "idle" /\ content' = content
    BY <1>21, Zenon DEF ReopenErr, GiveUp
  <2> QED
    BY <2>1, OutsideRotation DEF Rotating
<1>22. ASSUME Exit PROVE Loop'
  <2>1. config' = config /\ pc' = "closed" /\ \E k : Spill(k)
    BY <1>22, Zenon DEF Exit, Abandon, Spill, Stores
  <2> QED
    BY <2>1, SpillSlots, OutsideRotation DEF Rotating
<1>23. ASSUME Crash PROVE Loop'
  <2>1. config' = config /\ pc' = "down" /\ \E k : Spill(k)
    BY <1>23, Zenon DEF Crash, Abandon, Spill, Stores
  <2> QED
    BY <2>1, SpillSlots, OutsideRotation DEF Rotating
<1>25. ASSUME DirectErr PROVE Loop'
  <2>1. config' = config /\ pc' = "idle"
    BY <1>25, Zenon DEF DirectErr, GiveUp
  <2> QED
    BY <1>25, <2>1, DirectSpills, SpillSlots, OutsideRotation DEF Rotating
<1>24. ASSUME Restart PROVE Loop'
  <2>1. config' = config /\ pc' = "idle" /\ content' = content
    BY <1>24, Zenon DEF Restart
  <2> QED
    BY <2>1, OutsideRotation DEF Rotating
<1> QED
  BY <1>1, <1>2, <1>3, <1>4, <1>5, <1>6, <1>7, <1>8, <1>9, <1>10, <1>11, <1>12,
     <1>13, <1>14, <1>15, <1>16, <1>17, <1>18, <1>19, <1>20, <1>21, <1>22, <1>23,
     <1>24, <1>25
     DEF Next, Command, Flush, Finalize, Write, RotateStep

\* What is given up is to be seen in stats().
Shown == refused # {} /\ restarts = 0 => lastError

LEMMA ShownStep == RestOK /\ Hand /\ Shown /\ Next => Shown'
<1> SUFFICES ASSUME RestOK, Hand, Shown, Next PROVE Shown'
  OBVIOUS
<1> USE DEF Shown
<1>1. ASSUME NEW n \in 1..MaxBatch, Submit(n) PROVE Shown'
  BY <1>1, Zenon DEF Submit
<1>2. ASSUME Rotate PROVE Shown'
  BY <1>2, Zenon DEF Rotate
<1>3. ASSUME FlushOk PROVE Shown'
  BY <1>3, Zenon DEF FlushOk, Drain
<1>4. ASSUME FlushErr PROVE Shown'
  BY <1>4, Zenon DEF FlushErr, GiveUp
<1>5. ASSUME FlushUnavailable PROVE Shown'
  BY <1>5, Zenon DEF FlushUnavailable, GiveUp
<1>6. ASSUME FinalizeOk PROVE Shown'
  BY <1>6, Zenon DEF FinalizeOk, Drain
<1>7. ASSUME FinalizeErr PROVE Shown'
  BY <1>7, Zenon DEF FinalizeErr
<1>8. ASSUME HandleWrite PROVE Shown'
  BY <1>8, Zenon DEF HandleWrite
<1>9. ASSUME AppendOk PROVE Shown'
  BY <1>9, Zenon DEF AppendOk
<1>10. ASSUME AppendErr PROVE Shown'
  BY <1>10, Zenon DEF AppendErr, GiveUp
<1>11. ASSUME AppendPanic PROVE Shown'
  BY <1>11, Zenon DEF AppendPanic
<1>12. ASSUME RotateFlushOk PROVE Shown'
  BY <1>12, Zenon DEF RotateFlushOk, RotateFrom
<1>13. ASSUME RotateFlushErr PROVE Shown'
  BY <1>13, Zenon DEF RotateFlushErr, GiveUp
<1>14. ASSUME RotateUnavailable PROVE Shown'
  BY <1>14, Zenon DEF RotateUnavailable, GiveUp
<1>15. ASSUME RemoveOk PROVE Shown'
  BY <1>15, Zenon DEF RemoveOk
<1>16. ASSUME RemoveErr PROVE Shown'
  BY <1>16, Zenon DEF RemoveErr, RotateFilesErr
<1>17. ASSUME RenameOk PROVE Shown'
  BY <1>17, Zenon DEF RenameOk
<1>18. ASSUME RenameErr PROVE Shown'
  BY <1>18, Zenon DEF RenameErr, RotateFilesErr
<1>19. ASSUME ReopenFresh PROVE Shown'
  BY <1>19, Zenon DEF ReopenFresh
<1>20. ASSUME ReopenAppend PROVE Shown'
  BY <1>20, Zenon DEF ReopenAppend, GiveUp
<1>21. ASSUME ReopenErr PROVE Shown'
  BY <1>21, Zenon DEF ReopenErr, GiveUp
<1>22. ASSUME Exit PROVE Shown'
  BY <1>22, Zenon DEF Exit, Fault
<1>25. ASSUME DirectErr PROVE Shown'
  BY <1>25, Zenon DEF DirectErr, GiveUp
<1>23. ASSUME Crash PROVE Shown'
  BY <1>23, Zenon DEF Crash
<1>24. ASSUME Restart PROVE Shown'
  <2>1. restarts' # 0
    BY <1>24 DEF Restart, RestOK
  <2> QED
    BY <2>1, Zenon
<1> QED
  BY <1>1, <1>2, <1>3, <1>4, <1>5, <1>6, <1>7, <1>8, <1>9, <1>10, <1>11, <1>12,
     <1>13, <1>14, <1>15, <1>16, <1>17, <1>18, <1>19, <1>20, <1>21, <1>22, <1>23,
     <1>24, <1>25
     DEF Next, Command, Flush, Finalize, Write, RotateStep

----------------------------------------------------------------------------
(* The inductive invariant, and what a reader of the files may rely on.    *)

Inv == Data /\ RestOK /\ FlagsOK /\ Hand /\ Writer /\ Loop /\ Shown

LEMMA InitInv == Init => Inv
<1> SUFFICES ASSUME Init PROVE Inv
  OBVIOUS
<1>1. DataOK /\ FlagsOK /\ RestOK
  BY InitType DEF TypeOK
<1>2. /\ \A s \in Slot : content[s] = <<>>
      /\ buffer = <<>> /\ batch = <<>> /\ stored = <<>>
      /\ refused = {} /\ perished = {} /\ submitted = 0
      /\ pc = "idle" /\ writer = TRUE
  BY DEF Init
<1>3. Order
  BY <1>2, NoRecords DEF Order, Less
<1>4. Placement
  BY <1>2, NoRecords DEF Placement, Record
<1>5. Files
  BY <1>2, NoRecords DEF Files, Less
<1>6. Hand /\ Loop
  BY <1>2 DEF Hand, Loop
<1>7. Writer
  BY <1>2 DEF Writer, Gone, Rotating
<1>8. Shown
  BY <1>2, Zenon DEF Shown
<1> QED
  BY <1>1, <1>3, <1>4, <1>5, <1>6, <1>7, <1>8 DEF Inv, Data

LEMMA StutterInv == Inv /\ UNCHANGED vars => Inv'
<1> SUFFICES ASSUME Inv, UNCHANGED vars PROVE Inv'
  OBVIOUS
<1>1. /\ UNCHANGED <<content, stored, buffer, batch, refused, perished, submitted>>
      /\ UNCHANGED <<config, names, pc, index, faults, restarts>>
      /\ UNCHANGED <<writer, dirty, lastError, rotatedOk>>
  BY Zenon DEF vars
<1>2. Data'
  BY <1>1, StayKeeps DEF Inv
<1>3. RestOK' /\ Hand'
  BY <1>1 DEF Inv, RestOK, Hand
<1>4. FlagsOK' /\ Writer' /\ Shown' /\ Loop'
  BY <1>1, Zenon DEF Inv, FlagsOK, Writer, Shown, Loop
<1> QED
  BY <1>2, <1>3, <1>4 DEF Inv

LEMMA InvHolds == Spec => []Inv
<1>1. Inv /\ Next => Inv'
  BY DataStep, RestStep, FlagsStep, HandStep, WriterStep, LoopStep, ShownStep DEF Inv, Data
<1>2. Inv /\ [Next]_vars => Inv'
  BY <1>1, StutterInv
<1> QED
  BY InitInv, <1>2, PTL DEF Spec

(***************************************************************************)
(* The rotated files, the base, the buffer and the records in hand, read   *)
(* in that order, are the records in the order in which they came: for any *)
(* number of rotated files, failed calls, retries and restarts.            *)
(***************************************************************************)
THEOREM ChronologyHolds == Spec => []Chronology
<1>1. ASSUME Inv PROVE Chronology
  <2>1. ASSUME NEW s \in Slot, NEW t \in Slot, NEW i \in DOMAIN content[s],
               NEW j \in DOMAIN content[t], s > t \/ (s = t /\ i < j)
        PROVE  content[s][i] < content[t][j]
    <3>1. content[s][i] \in ToSet(content[s]) /\ content[t][j] \in ToSet(content[t])
      BY DEF ToSet
    <3>2. CASE s > t
      BY <1>1, <3>1, <3>2 DEF Inv, Data, Files, Less
    <3>3. CASE s = t /\ i < j
      <4>1. Ascending(content[s])
        BY <1>1 DEF Inv, Data, Files
      <4> QED
        BY <3>3, <4>1 DEF Ascending
    <3> QED
      BY <2>1, <3>2, <3>3
  <2>2. OnDisk \subseteq ToSet(stored)
    BY <1>1 DEF Inv, Data, Files, OnDisk
  <2>3. \A i \in DOMAIN buffer : buffer[i] \in ToSet(buffer)
    BY DEF ToSet
  <2>4. \A i \in DOMAIN batch : batch[i] \in ToSet(batch)
    BY DEF ToSet
  <2>5. \A r \in OnDisk, i \in DOMAIN buffer : r < buffer[i]
    BY <1>1, <2>2, <2>3 DEF Inv, Data, Order, Less
  <2>6. \A i, j \in DOMAIN buffer : i < j => buffer[i] < buffer[j]
    BY <1>1 DEF Inv, Data, Order, Ascending
  <2>7. \A r \in OnDisk \cup ToSet(buffer), i \in DOMAIN batch : r < batch[i]
    BY <1>1, <2>2, <2>4 DEF Inv, Data, Order, Less
  <2> QED
    BY <2>1, <2>5, <2>6, <2>7, Zenon DEF Chronology
<1> QED
  BY InvHolds, <1>1, PTL

(***************************************************************************)
(* Rotation and truncation delete the oldest part of the log only: what is *)
(* still in the files is the end of what was handed to the system.         *)
(***************************************************************************)
THEOREM NewestKeptHolds == Spec => []NewestKept
<1>1. ASSUME Inv PROVE NewestKept
  <2> SUFFICES ASSUME NEW i \in DOMAIN stored, NEW j \in DOMAIN stored, i < j,
                      stored[i] \in OnDisk
               PROVE  stored[j] \in OnDisk
    BY DEF NewestKept
  <2>1. PICK s \in Slot : stored[i] \in ToSet(content[s])
    BY DEF OnDisk
  <2>2. stored[j] \in ToSet(stored)
    BY DEF ToSet
  <2>3. stored[i] < stored[j]
    BY <1>1 DEF Inv, Data, Order, Ascending
  <2>4. PICK t \in Slot : stored[j] \in ToSet(content[t])
    BY <1>1, <2>1, <2>2, <2>3 DEF Inv, Data, Files
  <2> QED
    BY <2>4 DEF OnDisk
<1> QED
  BY InvHolds, <1>1, PTL

LEMMA UpTo ==
    ASSUME NEW n \in 0..MaxRecords, NEW S, S \subseteq Record,
           \A r \in Record : r <= n <=> r \in S
    PROVE  S = 1..n
<1>1. \A r \in S : r \in 1..n
  BY DEF Record
<1>2. \A r \in 1..n : r \in S
  BY DEF Record
<1> QED
  BY <1>1, <1>2

LEMMA FivePlaces ==
    ASSUME NEW a, NEW b, NEW c, NEW d, NEW e
    PROVE  LET places == <<a, b, c, d, e>>
           IN  /\ DOMAIN places = 1..5
               /\ places[1] = a /\ places[2] = b /\ places[3] = c
               /\ places[4] = d /\ places[5] = e
               /\ UNION ToSet(places) = a \cup b \cup c \cup d \cup e
<1> DEFINE places == <<a, b, c, d, e>>
<1>1. /\ DOMAIN places = 1..5
      /\ places[1] = a /\ places[2] = b /\ places[3] = c
      /\ places[4] = d /\ places[5] = e
  OBVIOUS
<1> HIDE DEF places
<1>2. \A n \in 1..5 : n = 1 \/ n = 2 \/ n = 3 \/ n = 4 \/ n = 5
  OBVIOUS
<1>3. ToSet(places) = {a, b, c, d, e}
  BY <1>1, <1>2 DEF ToSet
<1> QED
  BY <1>1, <1>3 DEF places

(***************************************************************************)
(* Every record received is in exactly one place, whichever error path it  *)
(* met, and when records were given up stats() shows an error.             *)
(***************************************************************************)
THEOREM ConservationHolds == Spec => []Conservation
<1>1. ASSUME Inv PROVE Conservation
  <2> DEFINE a == ToSet(stored)
             b == ToSet(buffer)
             c == ToSet(batch)
             places == <<a, b, c, refused, perished>>
  <2>1. /\ DOMAIN places = 1..5
        /\ places[1] = a /\ places[2] = b /\ places[3] = c
        /\ places[4] = refused /\ places[5] = perished
        /\ UNION ToSet(places) = a \cup b \cup c \cup refused \cup perished
    BY FivePlaces
  <2>2. a \subseteq Record /\ b \subseteq Record /\ c \subseteq Record
        /\ refused \subseteq Record /\ perished \subseteq Record
    BY <1>1, SetType DEF Inv, Data, DataOK
  <2>3. /\ a \cap b = {} /\ a \cap c = {} /\ b \cap c = {}
    BY <1>1, <2>2, Apart DEF Inv, Data, Order
  <2>4. /\ refused \cap a = {} /\ refused \cap b = {} /\ refused \cap c = {}
        /\ perished \cap a = {} /\ perished \cap b = {} /\ perished \cap c = {}
        /\ refused \cap perished = {}
    BY <1>1 DEF Inv, Data, Placement
  <2>5. \A r \in Record : r <= submitted
            <=> r \in a \cup b \cup c \cup refused \cup perished
    BY <1>1, Zenon DEF Inv, Data, Placement
  <2>6. OnDisk \subseteq ToSet(stored)
    BY <1>1 DEF Inv, Data, Files, OnDisk
  <2>7. submitted \in 0..MaxRecords
    BY <1>1 DEF Inv, Data, DataOK
  <2>8. refused # {} /\ restarts = 0 => lastError
    BY <1>1, Zenon DEF Inv, Shown
  <2> HIDE DEF places, a, b, c
  <2>9. UNION ToSet(places) = 1..submitted
    <3> DEFINE all == a \cup b \cup c \cup refused \cup perished
    <3>1. all \subseteq Record /\ UNION ToSet(places) = all
      BY <2>1, <2>2
    <3>2. \A r \in Record : r <= submitted <=> r \in all
      BY <2>5
    <3> HIDE DEF all
    <3>3. all = 1..submitted
      BY <2>7, <3>1, <3>2, UpTo
    <3> QED
      BY <3>1, <3>3
  <2>10. \A p, q \in DOMAIN places : p # q => places[p] \cap places[q] = {}
    BY <2>1, <2>3, <2>4
  <2> QED
    BY <2>6, <2>8, <2>9, <2>10, Zenon DEF Conservation, places, a, b, c
<1> QED
  BY InvHolds, <1>1, PTL

----------------------------------------------------------------------------
(* LogFile implements LogSink: each step is one of the sink, or none.      *)

SinkWriter == writer \/ pc \in Rotating

LEMMA SinkStutter ==
    ASSUME UNCHANGED <<buffer, stored, refused>>, SinkWriter' <=> SinkWriter
    PROVE  UNCHANGED Sink!sinkVars
<1>1. (writer \/ pc \in Rotating)' = (writer \/ pc \in Rotating)
  <2>1. (writer' \/ pc' \in Rotating) <=> (writer \/ pc \in Rotating)
    BY Zenon DEF SinkWriter
  <2> QED
    BY <2>1, Zenon
<1> QED
  BY <1>1, Zenon DEF Sink!sinkVars

LEMMA SinkFlushes ==
    ASSUME SinkWriter, SinkWriter', stored' = stored \o SubSeq(buffer, 1, Len(buffer)),
           buffer' = Rest(Len(buffer)), refused' = refused
    PROVE  Sink!SinkNext
<1>1. (writer \/ pc \in Rotating)' = (writer \/ pc \in Rotating)
  BY Zenon DEF SinkWriter
<1> QED
  BY <1>1, Zenon DEF SinkWriter, Rest, Sink!SinkNext, Sink!FlushOk, Sink!Drain

LEMMA FreshBatch ==
    ASSUME Data, NEW r \in ToSet(batch)
    PROVE  r \in Record /\ Sink!Fresh(r)
<1>1. r \in Record /\ r \notin ToSet(stored) /\ r \notin ToSet(buffer) /\ r \notin refused
  BY BatchApart DEF Data, Placement
<1> QED
  BY <1>1 DEF ToSet, Sink!Fresh, Sink!Elements

LEMMA SinkFails ==
    ASSUME Data, NEW k \in 0..Len(buffer), stored' = stored \o SubSeq(buffer, 1, k),
           buffer' = Rest(k), refused' = refused \cup ToSet(batch),
           (SinkWriter' <=> SinkWriter) \/ (~SinkWriter' /\ buffer' = <<>>)
    PROVE  Sink!SinkNext
<1> DEFINE given == ToSet(batch)
<1>1. given \in SUBSET Record /\ \A r \in given : Sink!Fresh(r)
  BY FreshBatch
<1>2. Sink!GiveUp(given)
  BY DEF Rest, Sink!GiveUp, Sink!Drain
<1>3. \/ (writer \/ pc \in Rotating)' = (writer \/ pc \in Rotating)
      \/ (writer \/ pc \in Rotating)' = FALSE /\ buffer' = <<>>
  BY Zenon DEF SinkWriter
<1>4. Sink!Fail(given)
  BY <1>2, <1>3, Zenon DEF Sink!Fail
<1> QED
  BY <1>1, <1>4, Zenon DEF Sink!SinkNext

LEMMA SinkFailsAlone ==
    ASSUME NEW k \in 0..Len(buffer), stored' = stored \o SubSeq(buffer, 1, k),
           buffer' = Rest(k), refused' = refused, SinkWriter' <=> SinkWriter
    PROVE  Sink!SinkNext
<1> DEFINE given == {}
<1>1. given \in SUBSET Record /\ \A r \in given : Sink!Fresh(r)
  OBVIOUS
<1>2. Sink!GiveUp(given)
  BY DEF Rest, Sink!GiveUp, Sink!Drain
<1>3. (writer \/ pc \in Rotating)' = (writer \/ pc \in Rotating)
  BY Zenon DEF SinkWriter
<1>4. Sink!Fail(given)
  BY <1>2, <1>3, Zenon DEF Sink!Fail
<1> QED
  BY <1>1, <1>4, Zenon DEF Sink!SinkNext

LEMMA SinkCloses ==
    ASSUME NEW k \in 0..Len(buffer), stored' = stored \o SubSeq(buffer, 1, k),
           buffer' = <<>>, refused' = refused, ~SinkWriter'
    PROVE  Sink!SinkNext
<1>1. (writer \/ pc \in Rotating)' = FALSE
  BY Zenon DEF SinkWriter
<1> QED
  BY <1>1, Zenon DEF Sink!SinkNext, Sink!Close

LEMMA NothingSpilled ==
    ASSUME Data
    PROVE  /\ 0 \in 0..Len(buffer) /\ stored \o SubSeq(buffer, 1, 0) = stored
           /\ Rest(0) = buffer
<1>1. SubSeq(buffer, 1, 0) = <<>> /\ Rest(0) = buffer /\ 0 \in 0..Len(buffer)
  BY CutOrder DEF Data, DataOK, Order, Rest
<1>2. stored \o <<>> = stored
  BY ConcatEmptySeq DEF Data, DataOK
<1> QED
  BY <1>1, <1>2

LEMMA SinkStep == Inv /\ Next => Sink!SinkNext \/ UNCHANGED Sink!sinkVars
<1> DEFINE SinkMoves == Sink!SinkNext \/ UNCHANGED Sink!sinkVars
<1> SUFFICES ASSUME Inv, Next PROVE SinkMoves
  OBVIOUS
<1>d. Data
  BY DEF Inv
<1>a. \A k \in 0..Len(buffer) - 1 : k \in 0..Len(buffer)
  BY <1>d DEF Data, DataOK
<1>1. ASSUME NEW n \in 1..MaxBatch, Submit(n) PROVE SinkMoves
  <2>1. UNCHANGED <<buffer, stored, refused>>
    BY <1>1, Zenon DEF Submit
  <2>2. SinkWriter' <=> SinkWriter
    BY <1>1 DEF Submit, SinkWriter, Rotating, Gone, Writer, Inv
  <2> QED
    BY <2>1, <2>2, SinkStutter
<1>2. ASSUME Rotate PROVE SinkMoves
  <2>1. UNCHANGED <<buffer, stored, refused>>
    BY <1>2, Zenon DEF Rotate
  <2>2. SinkWriter' <=> SinkWriter
    BY <1>2 DEF Rotate, SinkWriter, Rotating, Gone, Writer, Inv
  <2> QED
    BY <2>1, <2>2, SinkStutter
<1>3. ASSUME FlushOk PROVE SinkMoves
  <2>1. /\ stored' = stored \o SubSeq(buffer, 1, Len(buffer))
        /\ buffer' = Rest(Len(buffer)) /\ refused' = refused
    BY <1>3, Zenon DEF FlushOk, Drain, Rest
  <2>2. SinkWriter /\ SinkWriter'
    BY <1>3 DEF FlushOk, SinkWriter, Rotating
  <2> QED
    BY <2>1, <2>2, SinkFlushes
<1>4. ASSUME FlushErr PROVE SinkMoves
  <2>1. PICK k \in 0..Len(buffer) :
           stored' = stored \o SubSeq(buffer, 1, k) /\ buffer' = Rest(k)
    BY <1>4, Zenon DEF FlushErr, Drain, Rest
  <2>2. refused' = refused \cup ToSet(batch)
    BY <1>4, Zenon DEF FlushErr, GiveUp
  <2>3. SinkWriter' <=> SinkWriter
    BY <1>4 DEF FlushErr, GiveUp, SinkWriter, Rotating
  <2> QED
    BY <1>d, <2>1, <2>2, <2>3, SinkFails
<1>5. ASSUME FlushUnavailable PROVE SinkMoves
  <2>1. batch = <<>> /\ UNCHANGED <<buffer, stored>> /\ refused' = refused \cup ToSet(batch)
    BY <1>5 DEF FlushUnavailable, GiveUp, Hand, Inv
  <2>2. refused' = refused
    BY <2>1, NoRecords
  <2>3. SinkWriter' <=> SinkWriter
    BY <1>5 DEF FlushUnavailable, GiveUp, SinkWriter, Rotating
  <2> QED
    BY <2>1, <2>2, <2>3, SinkStutter
<1>6. ASSUME FinalizeOk PROVE SinkMoves
  <2>1. /\ stored' = stored \o SubSeq(buffer, 1, Len(buffer))
        /\ buffer' = Rest(Len(buffer)) /\ refused' = refused
    BY <1>6, Zenon DEF FinalizeOk, Drain, Rest
  <2>2. SinkWriter /\ SinkWriter'
    BY <1>6 DEF FinalizeOk, SinkWriter, Rotating
  <2> QED
    BY <2>1, <2>2, SinkFlushes
<1>7. ASSUME FinalizeErr PROVE SinkMoves
  <2>1. refused' = refused /\ writer' = writer /\ pc = "idle" /\ pc' = "exit"
    BY <1>7, Zenon DEF FinalizeErr
  <2>2. SinkWriter' <=> SinkWriter
    BY <2>1 DEF SinkWriter, Rotating
  <2>3. CASE \E k \in 0..Len(buffer) : Drain(k)
    <3>1. PICK k \in 0..Len(buffer) :
             stored' = stored \o SubSeq(buffer, 1, k) /\ buffer' = Rest(k)
      BY <2>3, Zenon DEF Drain, Rest
    <3> QED
      BY <2>1, <2>2, <3>1, SinkFailsAlone
  <2>4. CASE UNCHANGED <<disk, buffer, stored, bounds>>
    BY <2>1, <2>2, <2>4, SinkStutter
  <2> QED
    BY <1>7, <2>3, <2>4, Zenon DEF FinalizeErr
<1>8. ASSUME HandleWrite PROVE SinkMoves
  <2>1. UNCHANGED <<buffer, stored, refused>>
    BY <1>8, Zenon DEF HandleWrite
  <2>2. SinkWriter' <=> SinkWriter
    BY <1>8 DEF HandleWrite, SinkWriter, Rotating, Gone, Writer, Inv
  <2> QED
    BY <2>1, <2>2, SinkStutter
<1>9. ASSUME AppendOk PROVE SinkMoves
  <2> DEFINE first == Head(batch)
  <2>1. batch # <<>> /\ writer /\ writer' = writer /\ refused' = refused
    BY <1>9, Zenon DEF AppendOk, Inv, Hand
  <2>2. first \in Record /\ Sink!Fresh(first)
    <3>1. first \in ToSet(batch)
      BY <1>d, <2>1, HeadOrder DEF Data, DataOK, Order
    <3> QED
      BY <1>d, <3>1, FreshBatch
  <2>3. \/ buffer' = Append(buffer, first) /\ UNCHANGED stored
        \/ stored' = stored \o buffer /\ buffer' = <<first>>
        \/ stored' = stored \o Append(buffer, first) /\ buffer' = <<>>
    BY <1>9, Zenon DEF AppendOk, ToBuffer, ToFile
  <2>4. SinkWriter /\ SinkWriter'
    BY <2>1 DEF SinkWriter
  <2> HIDE DEF first
  <2>5. (writer \/ pc \in Rotating)' = (writer \/ pc \in Rotating)
    BY <2>4, Zenon DEF SinkWriter
  <2>6. Sink!Put(first)
    BY <2>1, <2>3, <2>5, Zenon DEF Sink!Put
  <2> QED
    BY <2>2, <2>6, Zenon DEF Sink!SinkNext
<1>10. ASSUME AppendErr PROVE SinkMoves
  <2>1. PICK k \in 0..Len(buffer) :
           stored' = stored \o SubSeq(buffer, 1, k) /\ buffer' = Rest(k)
    BY <1>10, <1>a, Zenon DEF AppendErr, Drain, Rest
  <2>2. refused' = refused \cup ToSet(batch)
    BY <1>10, Zenon DEF AppendErr, GiveUp
  <2>3. SinkWriter' <=> SinkWriter
    BY <1>10 DEF AppendErr, GiveUp, SinkWriter, Rotating
  <2> QED
    BY <1>d, <2>1, <2>2, <2>3, SinkFails
<1>11. ASSUME AppendPanic PROVE SinkMoves
  <2>1. UNCHANGED <<buffer, stored, refused>>
    BY <1>11, Zenon DEF AppendPanic
  <2>2. SinkWriter' <=> SinkWriter
    BY <1>11 DEF AppendPanic, SinkWriter, Rotating, Gone, Writer, Inv
  <2> QED
    BY <2>1, <2>2, SinkStutter
<1>12. ASSUME RotateFlushOk PROVE SinkMoves
  <2>1. /\ stored' = stored \o SubSeq(buffer, 1, Len(buffer))
        /\ buffer' = Rest(Len(buffer)) /\ refused' = refused
    BY <1>12, Zenon DEF RotateFlushOk, RotateFrom, Drain, Rest
  <2>2. SinkWriter /\ SinkWriter'
    BY <1>12 DEF RotateFlushOk, RotateFrom, SinkWriter, Rotating
  <2> QED
    BY <2>1, <2>2, SinkFlushes
<1>13. ASSUME RotateFlushErr PROVE SinkMoves
  <2>1. PICK k \in 0..Len(buffer) :
           stored' = stored \o SubSeq(buffer, 1, k) /\ buffer' = Rest(k)
    BY <1>13, Zenon DEF RotateFlushErr, Drain, Rest
  <2>2. refused' = refused \cup ToSet(batch)
    BY <1>13, Zenon DEF RotateFlushErr, GiveUp
  <2>3. SinkWriter' <=> SinkWriter
    BY <1>13 DEF RotateFlushErr, GiveUp, SinkWriter, Rotating
  <2> QED
    BY <1>d, <2>1, <2>2, <2>3, SinkFails
<1>14. ASSUME RotateUnavailable PROVE SinkMoves
  <2>1. UNCHANGED <<buffer, stored>> /\ refused' = refused \cup ToSet(batch)
    BY <1>14, Zenon DEF RotateUnavailable, GiveUp
  <2>2. SinkWriter' <=> SinkWriter
    BY <1>14 DEF RotateUnavailable, GiveUp, SinkWriter, Rotating
  <2> QED
    BY <1>d, <2>1, <2>2, NothingSpilled, SinkFails
<1>15. ASSUME RemoveOk PROVE SinkMoves
  <2>1. UNCHANGED <<buffer, stored, refused>>
    BY <1>15, Zenon DEF RemoveOk
  <2>2. SinkWriter' <=> SinkWriter
    BY <1>15 DEF RemoveOk, SinkWriter, Rotating, Gone, Writer, Inv
  <2> QED
    BY <2>1, <2>2, SinkStutter
<1>16. ASSUME RemoveErr PROVE SinkMoves
  <2>1. UNCHANGED <<buffer, stored, refused>>
    BY <1>16, Zenon DEF RemoveErr, RotateFilesErr
  <2>2. SinkWriter' <=> SinkWriter
    BY <1>16 DEF RemoveErr, RotateFilesErr, SinkWriter, Rotating, Gone, Writer, Inv
  <2> QED
    BY <2>1, <2>2, SinkStutter
<1>17. ASSUME RenameOk PROVE SinkMoves
  <2>1. UNCHANGED <<buffer, stored, refused>>
    BY <1>17, Zenon DEF RenameOk
  <2>2. SinkWriter' <=> SinkWriter
    BY <1>17 DEF RenameOk, SinkWriter, Rotating, Gone, Writer, Inv
  <2> QED
    BY <2>1, <2>2, SinkStutter
<1>18. ASSUME RenameErr PROVE SinkMoves
  <2>1. UNCHANGED <<buffer, stored, refused>>
    BY <1>18, Zenon DEF RenameErr, RotateFilesErr
  <2>2. SinkWriter' <=> SinkWriter
    BY <1>18 DEF RenameErr, RotateFilesErr, SinkWriter, Rotating, Gone, Writer, Inv
  <2> QED
    BY <2>1, <2>2, SinkStutter
<1>19. ASSUME ReopenFresh PROVE SinkMoves
  <2>1. UNCHANGED <<buffer, stored, refused>>
    BY <1>19, Zenon DEF ReopenFresh
  <2>2. SinkWriter' <=> SinkWriter
    BY <1>19 DEF ReopenFresh, SinkWriter, Rotating, Gone, Writer, Inv
  <2> QED
    BY <2>1, <2>2, SinkStutter
<1>20. ASSUME ReopenAppend PROVE SinkMoves
  <2>1. UNCHANGED <<buffer, stored>> /\ refused' = refused \cup ToSet(batch)
    BY <1>20, Zenon DEF ReopenAppend, GiveUp
  <2>2. SinkWriter' <=> SinkWriter
    BY <1>20 DEF ReopenAppend, GiveUp, SinkWriter, Rotating
  <2> QED
    BY <1>d, <2>1, <2>2, NothingSpilled, SinkFails
<1>21. ASSUME ReopenErr PROVE SinkMoves
  <2>1. /\ UNCHANGED <<buffer, stored>> /\ refused' = refused \cup ToSet(batch)
        /\ pc = "reopen" /\ pc' = "idle" /\ UNCHANGED writer
    BY <1>21, Zenon DEF ReopenErr, GiveUp
  <2>2. ~writer
    BY <2>1 DEF Inv, Writer, Rotating
  <2>3. buffer' = <<>>
    BY <2>1, <2>2 DEF Inv, Writer
  <2>4. ~SinkWriter'
    BY <2>1, <2>2 DEF SinkWriter, Rotating
  <2> QED
    BY <1>d, <2>1, <2>3, <2>4, NothingSpilled, SinkFails
<1>22. ASSUME Exit PROVE SinkMoves
  <2>1. refused' = refused /\ pc' = "closed"
    BY <1>22, Zenon DEF Exit
  <2>2. \E k \in 0..Len(buffer) : \E next : Abandon(k, next)
    BY <1>22, <1>a, <1>d, SpillAll, Zenon DEF Exit
  <2>3. /\ buffer' = <<>> /\ writer' = FALSE
        /\ \E k \in 0..Len(buffer) : stored' = stored \o SubSeq(buffer, 1, k)
    BY <2>2, Zenon DEF Abandon
  <2>4. ~SinkWriter'
    BY <2>1, <2>3 DEF SinkWriter, Rotating
  <2> QED
    BY <2>1, <2>3, <2>4, SinkCloses
<1>23. ASSUME Crash PROVE SinkMoves
  <2>1. /\ buffer' = <<>> /\ refused' = refused /\ writer' = FALSE /\ pc' = "down"
        /\ \E k \in 0..Len(buffer) : stored' = stored \o SubSeq(buffer, 1, k)
    BY <1>23, Zenon DEF Crash, Abandon
  <2>2. ~SinkWriter'
    BY <2>1 DEF SinkWriter, Rotating
  <2> QED
    BY <2>1, <2>2, SinkCloses
<1>25. ASSUME DirectErr PROVE SinkMoves
  <2>1. /\ stored' = stored \o SubSeq(buffer, 1, Len(buffer))
        /\ buffer' = Rest(Len(buffer)) /\ Len(buffer) \in 0..Len(buffer)
    BY <1>25, <1>d, DirectSpills, SpillAll DEF Spill, Stores
  <2>2. refused' = refused \cup ToSet(batch)
    BY <1>25, Zenon DEF DirectErr, GiveUp
  <2>3. SinkWriter' <=> SinkWriter
    BY <1>25 DEF DirectErr, GiveUp, SinkWriter, Rotating
  <2> QED
    BY <1>d, <2>1, <2>2, <2>3, SinkFails
<1>24. ASSUME Restart PROVE SinkMoves
  <2>1. /\ pc \in Gone /\ writer' = TRUE
        /\ UNCHANGED <<buffer, stored, refused>>
    BY <1>24, Zenon DEF Restart
  <2>2. ~SinkWriter
    BY <2>1 DEF Inv, Writer, SinkWriter, Rotating, Gone
  <2>3. (writer \/ pc \in Rotating)' = TRUE
    BY <2>1, Zenon
  <2> QED
    BY <2>1, <2>2, <2>3, Zenon DEF SinkWriter, Sink!SinkNext, Sink!Reopen
<1> QED
  BY <1>1, <1>2, <1>3, <1>4, <1>5, <1>6, <1>7, <1>8, <1>9, <1>10, <1>11, <1>12,
     <1>13, <1>14, <1>15, <1>16, <1>17, <1>18, <1>19, <1>20, <1>21, <1>22, <1>23,
     <1>24, <1>25
     DEF Next, Command, Flush, Finalize, Write, RotateStep

LEMMA SinkStart == Init => Sink!SinkInit
<1> SUFFICES ASSUME Init PROVE Sink!SinkInit
  OBVIOUS
<1>1. (writer \/ pc \in Rotating) = TRUE
  BY Zenon DEF Init
<1> QED
  BY <1>1, Zenon DEF Init, Sink!SinkInit

(***************************************************************************)
(* LogFile implements LogSink: whatever rotation, failed calls and process *)
(* death do to the files, the rest of the logger sees a sink that stores   *)
(* records in order, refuses some after errors, and may lose its writer.   *)
(***************************************************************************)
THEOREM ImplementsSinkHolds == Spec => ImplementsSink
<1>1. Inv /\ [Next]_vars => [Sink!SinkNext]_(Sink!sinkVars)
  <2>1. Inv /\ Next => Sink!SinkNext \/ UNCHANGED Sink!sinkVars
    BY SinkStep
  <2>2. UNCHANGED vars => UNCHANGED Sink!sinkVars
    <3> SUFFICES ASSUME UNCHANGED vars PROVE UNCHANGED Sink!sinkVars
      OBVIOUS
    <3>1. UNCHANGED <<buffer, stored, refused, pc, writer>>
      BY Zenon DEF vars
    <3>2. SinkWriter' <=> SinkWriter
      BY <3>1, Zenon DEF SinkWriter
    <3> QED
      BY <3>1, <3>2, SinkStutter
  <2> QED
    BY <2>1, <2>2
<1> QED
  BY InvHolds, SinkStart, <1>1, PTL DEF Spec, ImplementsSink, Sink!SinkSpec

----------------------------------------------------------------------------
(* As long as nothing fails the files are numbered without a gap, but for  *)
(* the one that rotation is about to fill, and nothing is deleted before   *)
(* the last of them exists.                                                *)

Quiet == faults = 0 /\ restarts = 0 /\ pc # "down"

Closed == \A s \in names, t \in Slot : t < s => t \in names
Hole(h) ==
    /\ h \notin names
    /\ \A s \in names, t \in Slot : t < s /\ t # h => t \in names
    /\ h # 0 => 0 \in names

NoneDeleted == \A y \in ToSet(stored) : \E s \in Slot : y \in ToSet(content[s])
AllBut(h) == \A s \in 1..config.maxRotateFiles : s = h \/ s \in names
Deep(h) == NoneDeleted \/ AllBut(h)

History ==
    Quiet =>
       /\ \A s \in Slot : s \notin names => content[s] = <<>>
       /\ pc \notin Rotating => 0 \in names /\ Closed /\ Deep(0)
       /\ pc = "remove" => \/ index = config.maxRotateFiles /\ 0 \in names /\ Closed /\ Deep(0)
                           \/ Hole(index) /\ Deep(index)
       /\ pc = "rename" => Hole(index) /\ Deep(index)
       /\ pc = "reopen" => Hole(0) /\ Deep(0)
       /\ pc \in Rotating => rotatedOk = TRUE

\* What write_all or a flush puts in the base file.
Written ==
    \/ \E k \in 0..Len(buffer) : Spill(k)
    \/ batch # <<>> /\ Stores(Append(buffer, Head(batch)))

LEMMA WrittenPart ==
    ASSUME Data, Written
    PROVE  \E part \in Seq(Record) :
              Ascending(part) /\ Less(ToSet(stored), ToSet(part)) /\ Stores(part)
<1>1. ASSUME NEW k \in 0..Len(buffer), Spill(k)
      PROVE  \E part \in Seq(Record) :
                Ascending(part) /\ Less(ToSet(stored), ToSet(part)) /\ Stores(part)
  <2> DEFINE part == SubSeq(buffer, 1, k)
  <2>1. part \in Seq(Record) /\ Ascending(part) /\ ToSet(part) \subseteq ToSet(buffer)
    BY CutOrder DEF Data, DataOK, Order
  <2>2. Stores(part)
    BY <1>1 DEF Spill
  <2> HIDE DEF part
  <2>3. Less(ToSet(stored), ToSet(part))
    BY <2>1 DEF Data, Order, Less
  <2> QED
    BY <2>1, <2>2, <2>3
<1>2. ASSUME batch # <<>>, Stores(Append(buffer, Head(batch)))
      PROVE  \E part \in Seq(Record) :
                Ascending(part) /\ Less(ToSet(stored), ToSet(part)) /\ Stores(part)
  <2> DEFINE first == Head(batch)
             part == Append(buffer, first)
  <2>1. first \in Record /\ ToSet(batch) = {first} \cup ToSet(Tail(batch))
    BY <1>2, HeadOrder DEF Data, DataOK, Order
  <2>2. part = buffer \o <<first>>
    BY <2>1, AppendIsConcat DEF Data, DataOK
  <2>3. Stores(part)
    BY <1>2
  <2> HIDE DEF first, part
  <2>4. <<first>> \in Seq(Record) /\ ToSet(<<first>>) = {first} /\ Ascending(<<first>>)
    BY <2>1, Single
  <2>5. Less(ToSet(buffer), {first}) /\ Less(ToSet(stored), {first})
    BY <2>1 DEF Data, Order, Less
  <2>6. /\ part \in Seq(Record) /\ Ascending(part)
        /\ ToSet(part) = ToSet(buffer) \cup {first}
    <3>1. buffer \in Seq(Record) /\ Ascending(buffer)
      BY DEF Data, DataOK, Order
    <3>2. Less(ToSet(buffer), ToSet(<<first>>))
      BY <2>4, <2>5
    <3> QED
      BY <2>2, <2>4, <3>1, <3>2, ConcatOrder
  <2>7. Less(ToSet(stored), ToSet(part))
    BY <2>5, <2>6 DEF Data, Order, Less
  <2> QED
    BY <2>3, <2>6, <2>7
<1> QED
  BY <1>1, <1>2 DEF Written

\* Writing, with no rotation under way before or after.
LEMMA QuietWrites ==
    ASSUME Inv, History, Quiet, pc \notin Rotating, names' = names, config' = config,
           (content' = content /\ stored' = stored) \/ Written
    PROVE  /\ \A s \in Slot : s \notin names' => content'[s] = <<>>
           /\ 0 \in names' /\ Closed' /\ Deep(0)'
<1>1. 0 \in names /\ Closed /\ Deep(0) /\ \A s \in Slot : s \notin names => content[s] = <<>>
  BY DEF History
<1>2. CASE content' = content /\ stored' = stored
  BY <1>1, <1>2 DEF Closed, Deep, NoneDeleted, AllBut
<1>3. CASE Written
  <2>1. PICK part \in Seq(Record) :
           Ascending(part) /\ Less(ToSet(stored), ToSet(part)) /\ Stores(part)
    BY <1>3, WrittenPart DEF Inv
  <2>2. /\ ToSet(stored') = ToSet(stored) \cup ToSet(part)
        /\ ToSet(content'[0]) = ToSet(content[0]) \cup ToSet(part)
        /\ \A s \in Slot : s # 0 => content'[s] = content[s]
    BY <2>1, StoreFiles DEF Inv
  <2>4. ASSUME NoneDeleted PROVE NoneDeleted'
    <3> SUFFICES ASSUME NEW y \in ToSet(stored') PROVE \E s \in Slot : y \in ToSet(content'[s])
      BY DEF NoneDeleted
    <3>1. CASE y \in ToSet(part)
      BY <2>2, <3>1, NumberedRecords
    <3>2. CASE y \in ToSet(stored)
      <4>1. PICK s \in Slot : y \in ToSet(content[s])
        BY <2>4, <3>2 DEF NoneDeleted
      <4>2. y \in ToSet(content'[s])
        BY <2>2, <4>1
      <4> QED
        BY <4>2
    <3> QED
      BY <2>2, <3>1, <3>2
  <2>5. Deep(0)'
    BY <1>1, <2>4 DEF Deep, AllBut
  <2> QED
    BY <1>1, <2>2, <2>5 DEF Closed
<1> QED
  BY <1>2, <1>3

LEMMA QuietRemoves ==
    ASSUME Inv, History, Quiet, RemoveOk
    PROVE  /\ \A s \in Slot : s \notin names' => content'[s] = <<>>
           /\ Hole(index)' /\ Deep(index)'
<1>1. /\ pc = "remove" /\ names' = names \ {index} /\ index' = index /\ config' = config
      /\ content' = [content EXCEPT ![index] = <<>>] /\ stored' = stored
  BY DEF RemoveOk
<1>2. index \in Slot /\ config.maxRotateFiles \in Slot /\ names \subseteq Slot
  BY DEF Inv, RestOK
<1>3. content'[index] = <<>> /\ \A s \in Slot : s # index => content'[s] = content[s]
  BY <1>1, <1>2 DEF Inv, Data, DataOK
<1>4. \A s \in Slot : s \notin names => content[s] = <<>>
  BY DEF History
<1>5. \A s \in Slot : s \notin names' => content'[s] = <<>>
  BY <1>1, <1>3, <1>4
<1>6. ASSUME NoneDeleted, index \notin names PROVE NoneDeleted'
  <2>1. ToSet(content[index]) = {}
    BY <1>2, <1>4, <1>6, NoRecords
  <2> QED
    BY <1>1, <1>3, <1>6, <2>1 DEF NoneDeleted
<1>7. CASE index = config.maxRotateFiles /\ 0 \in names /\ Closed /\ Deep(0)
  <2>1. Hole(index)'
    BY <1>1, <1>2, <1>7 DEF Hole, Closed
  <2>2. CASE index \in names
    <3>1. AllBut(index)'
      BY <1>1, <1>2, <1>7, <2>2 DEF AllBut, Closed
    <3> QED
      BY <1>5, <2>1, <3>1 DEF Deep
  <2>3. CASE index \notin names
    <3>1. AllBut(0) => AllBut(index)'
      BY <1>1, <1>2, <1>7 DEF AllBut
    <3> QED
      BY <1>5, <1>6, <1>7, <2>1, <2>3, <3>1 DEF Deep
  <2> QED
    BY <2>2, <2>3
<1>8. CASE Hole(index) /\ Deep(index)
  <2>1. index \notin names /\ names' = names
    BY <1>1, <1>8 DEF Hole
  <2>2. AllBut(index) => AllBut(index)'
    BY <1>1, <2>1 DEF AllBut
  <2>3. Hole(index)'
    BY <1>1, <1>8, <2>1 DEF Hole
  <2> QED
    BY <1>5, <1>6, <1>8, <2>1, <2>2, <2>3 DEF Deep
<1> QED
  BY <1>1, <1>7, <1>8 DEF History

LEMMA QuietRenames ==
    ASSUME Inv, History, Quiet, RenameOk
    PROVE  /\ \A s \in Slot : s \notin names' => content'[s] = <<>>
           /\ Hole(index)' /\ Deep(index)'
<1> DEFINE src == index - 1
<1>1. /\ pc = "rename" /\ index' = src /\ config' = config /\ stored' = stored
      /\ names' = (IF src \in names THEN (names \ {src}) \cup {index} ELSE names)
      /\ content' = [content EXCEPT ![index] = content[src], ![src] = <<>>]
  BY DEF RenameOk
<1>2. /\ index \in Slot /\ src \in Slot /\ index = src + 1 /\ src # index
      /\ config.maxRotateFiles \in Slot /\ index <= config.maxRotateFiles
      /\ names \subseteq Slot
  BY <1>1 DEF Inv, RestOK, Loop
<1> HIDE DEF src
<1>3. /\ content'[src] = <<>> /\ content'[index] = content[src]
      /\ \A s \in Slot : s # index /\ s # src => content'[s] = content[s]
  BY <1>1, <1>2 DEF Inv, Data, DataOK
<1>4. Hole(index) /\ Deep(index) /\ \A s \in Slot : s \notin names => content[s] = <<>>
  BY <1>1 DEF History
<1>5. \A s \in Slot : s \notin names' => content'[s] = <<>>
  BY <1>1, <1>2, <1>3, <1>4 DEF Hole
<1>6. ASSUME NoneDeleted PROVE NoneDeleted'
  <2>1. ToSet(content[index]) = {}
    BY <1>2, <1>4, NoRecords DEF Hole
  <2> SUFFICES ASSUME NEW y \in ToSet(stored') PROVE \E s \in Slot : y \in ToSet(content'[s])
    BY DEF NoneDeleted
  <2>2. PICK s \in Slot : y \in ToSet(content[s])
    BY <1>1, <1>6 DEF NoneDeleted
  <2>3. s # index
    BY <2>1, <2>2
  <2>4. CASE s = src
    BY <1>2, <1>3, <2>2, <2>4
  <2>5. CASE s # src
    BY <1>3, <2>2, <2>3, <2>5
  <2> QED
    BY <2>4, <2>5
<1>7. CASE src \in names
  <2>1. names' = (names \ {src}) \cup {index}
    BY <1>1, <1>7
  <2>2. ASSUME NEW s \in names', NEW u \in Slot, u < s, u # src PROVE u \in names'
    <3>1. CASE s = index
      <4>1. u < src
        BY <1>2, <2>2, <3>1
      <4>2. u \in names
        BY <1>2, <1>4, <1>7, <4>1 DEF Hole
      <4> QED
        BY <2>1, <2>2, <4>2
    <3>2. CASE s # index
      <4>1. s \in names
        BY <2>1, <3>2
      <4> QED
        BY <1>4, <2>1, <2>2, <4>1 DEF Hole
    <3> QED
      BY <3>1, <3>2
  <2>3. src \notin names' /\ (src # 0 => 0 \in names')
    BY <1>2, <1>4, <2>1 DEF Hole
  <2>4. Hole(index)'
    BY <1>1, <2>2, <2>3 DEF Hole
  <2>5. AllBut(index) => AllBut(index)'
    BY <1>1, <2>1 DEF AllBut
  <2> QED
    BY <1>4, <1>5, <1>6, <2>4, <2>5 DEF Deep
<1>8. CASE src \notin names
  <2>1. names' = names
    BY <1>1, <1>8
  <2>2. \A s \in names : ~(s > src)
    BY <1>2, <1>4, <1>8 DEF Hole
  <2>3. 0 \in names /\ src # 0
    BY <1>2, <1>4, <1>8 DEF Hole
  <2>4. Hole(index)'
    BY <1>1, <1>2, <1>4, <1>8, <2>1, <2>2, <2>3 DEF Hole
  <2>5. ~AllBut(index)
    BY <1>2, <1>8, <2>3 DEF AllBut
  <2> QED
    BY <1>4, <1>5, <1>6, <2>4, <2>5 DEF Deep
<1> QED
  BY <1>7, <1>8

LEMMA QuietReopens ==
    ASSUME Inv, History, Quiet, ReopenFresh
    PROVE  /\ \A s \in Slot : s \notin names' => content'[s] = <<>>
           /\ 0 \in names' /\ Closed' /\ Deep(0)'
<1>1. /\ pc = "reopen" /\ names' = names \cup {0} /\ config' = config /\ stored' = stored
      /\ content' = [content EXCEPT ![0] = <<>>]
  BY DEF ReopenFresh
<1>2. Hole(0) /\ Deep(0) /\ \A s \in Slot : s \notin names => content[s] = <<>>
  BY <1>1 DEF History
<1>3. content[0] = <<>>
  BY <1>2, NumberedRecords DEF Hole
<1>4. content' = content
  BY <1>1, <1>3 DEF Inv, Data, DataOK
<1>5. Closed'
  <2>1. \A u \in Slot : ~(u < 0)
    OBVIOUS
  <2> QED
    BY <1>1, <1>2, <2>1 DEF Closed, Hole
<1>6. Deep(0)'
  BY <1>1, <1>2, <1>4 DEF Deep, AllBut, NoneDeleted
<1> QED
  BY <1>1, <1>2, <1>4, <1>5, <1>6

LEMMA FaultEndsQuiet == RestOK /\ Fault => History'
  BY DEF RestOK, Fault, History, Quiet

LEMMA QuietOutside ==
    ASSUME Inv, History, pc \notin Rotating, pc' \notin Rotating, pc # "down",
           UNCHANGED <<names, config, faults, restarts>>,
           (content' = content /\ stored' = stored) \/ Written
    PROVE  History'
<1>1. ASSUME Quiet' PROVE History'
  <2>1. Quiet
    BY <1>1 DEF Quiet
  <2> QED
    BY <2>1, QuietWrites DEF History, Rotating
<1> QED
  BY <1>1 DEF History

LEMMA HistoryStep == Inv /\ History /\ Next => History'
<1> SUFFICES ASSUME Inv, History, Next PROVE History'
  OBVIOUS
<1>d. Data /\ RestOK
  BY DEF Inv
<1>1. ASSUME NEW n \in 1..MaxBatch, Submit(n) PROVE History'
  <2>1. /\ pc = "idle" /\ pc' = "write" /\ content' = content /\ stored' = stored
        /\ UNCHANGED <<names, config, faults, restarts>>
    BY <1>1, Zenon DEF Submit
  <2> QED
    BY <2>1, QuietOutside DEF Rotating, Written
<1>2. ASSUME Rotate PROVE History'
  <2>1. /\ pc = "idle" /\ pc' = "flush" /\ content' = content /\ stored' = stored
        /\ UNCHANGED <<names, config, faults, restarts>>
    BY <1>2, Zenon DEF Rotate
  <2> QED
    BY <2>1, QuietOutside DEF Rotating, Written
<1>3. ASSUME FlushOk PROVE History'
  <2>1. /\ pc = "idle" /\ pc' = "idle" /\ UNCHANGED <<names, config, faults, restarts>>
        /\ Spill(Len(buffer))
    BY <1>3, Zenon DEF FlushOk, Drain, Spill, Stores
  <2> QED
    BY <1>d, <2>1, SpillAll, QuietOutside DEF Rotating, Written
<1>4. ASSUME FlushErr PROVE History'
  <2>1. Fault
    BY <1>4, Zenon DEF FlushErr
  <2> QED
    BY <1>d, <2>1, FaultEndsQuiet
<1>5. ASSUME FlushUnavailable PROVE History'
  <2>1. /\ pc = "idle" /\ pc' = "idle" /\ content' = content /\ stored' = stored
        /\ UNCHANGED <<names, config, faults, restarts>>
    BY <1>5, Zenon DEF FlushUnavailable, GiveUp
  <2> QED
    BY <2>1, QuietOutside DEF Rotating, Written
<1>6. ASSUME FinalizeOk PROVE History'
  <2>1. /\ pc = "idle" /\ pc' = "exit" /\ UNCHANGED <<names, config, faults, restarts>>
        /\ Spill(Len(buffer))
    BY <1>6, Zenon DEF FinalizeOk, Drain, Spill, Stores
  <2> QED
    BY <1>d, <2>1, SpillAll, QuietOutside DEF Rotating, Written
<1>7. ASSUME FinalizeErr PROVE History'
  <2>1. pc = "idle" /\ pc' = "exit" /\ config' = config
    BY <1>7, Zenon DEF FinalizeErr
  <2>2. Fault \/ UNCHANGED <<disk, stored, bounds>>
    BY <1>7, Zenon DEF FinalizeErr
  <2>3. CASE UNCHANGED <<disk, stored, bounds>>
    BY <2>1, <2>3, QuietOutside DEF Rotating, Written
  <2> QED
    BY <1>d, <2>2, <2>3, FaultEndsQuiet
<1>8. ASSUME HandleWrite PROVE History'
  <2>1. /\ pc = "write" /\ pc' \in {"flush", "append"}
        /\ content' = content /\ stored' = stored
        /\ UNCHANGED <<names, config, faults, restarts>>
    BY <1>8 DEF HandleWrite
  <2> QED
    BY <2>1, QuietOutside DEF Rotating, Written
<1>9. ASSUME AppendOk PROVE History'
  <2>1. pc = "append" /\ pc' \in {"idle", "write"}
    BY <1>9 DEF AppendOk
  <2>4. UNCHANGED <<names, config, faults, restarts>>
    BY <1>9, Zenon DEF AppendOk, ToBuffer, ToFile
  <2>2. \/ content' = content /\ stored' = stored
        \/ Stores(buffer)
        \/ Stores(Append(buffer, Head(batch)))
    BY <1>9, Zenon DEF AppendOk, ToBuffer, ToFile, Stores
  <2>5. batch # <<>>
    BY <1>9, Zenon DEF AppendOk, Inv, Hand
  <2>3. (content' = content /\ stored' = stored) \/ Written
    BY <1>d, <2>2, <2>5, SpillAll, Zenon DEF Spill, Written
  <2> QED
    BY <2>1, <2>3, <2>4, QuietOutside DEF Rotating
<1>10. ASSUME AppendErr PROVE History'
  <2>1. Fault
    BY <1>10, Zenon DEF AppendErr
  <2> QED
    BY <1>d, <2>1, FaultEndsQuiet
<1>11. ASSUME AppendPanic PROVE History'
  <2>1. /\ pc = "append" /\ pc' = "panicked" /\ content' = content /\ stored' = stored
        /\ UNCHANGED <<names, config, faults, restarts>>
    BY <1>11, Zenon DEF AppendPanic
  <2> QED
    BY <2>1, QuietOutside DEF Rotating, Written
<1>12. ASSUME RotateFlushOk PROVE History'
  <2>1. /\ pc = "flush" /\ pc' = "remove" /\ index' = config.maxRotateFiles
        /\ UNCHANGED <<names, config, faults, restarts>> /\ Spill(Len(buffer))
    BY <1>12, Zenon DEF RotateFlushOk, RotateFrom, Drain, Spill, Stores
  <2>2. ASSUME Quiet
        PROVE  /\ \A s \in Slot : s \notin names' => content'[s] = <<>>
               /\ 0 \in names' /\ Closed' /\ Deep(0)'
    BY <1>d, <2>1, <2>2, SpillAll, QuietWrites DEF Rotating, Written
  <2>3. Quiet' => Quiet
    BY <2>1 DEF Quiet
  <2>4. index' = config'.maxRotateFiles
    BY <2>1
  <2>5. rotatedOk' = TRUE
    BY <1>12, Zenon DEF RotateFlushOk, RotateFrom
  <2> QED
    BY <2>1, <2>2, <2>3, <2>4, <2>5 DEF History, Rotating
<1>13. ASSUME RotateFlushErr PROVE History'
  <2>1. Fault
    BY <1>13, Zenon DEF RotateFlushErr
  <2> QED
    BY <1>d, <2>1, FaultEndsQuiet
<1>14. ASSUME RotateUnavailable PROVE History'
  <2>1. /\ pc = "flush" /\ pc' = "idle" /\ content' = content /\ stored' = stored
        /\ UNCHANGED <<names, config, faults, restarts>>
    BY <1>14, Zenon DEF RotateUnavailable, GiveUp
  <2> QED
    BY <2>1, QuietOutside DEF Rotating, Written
<1>15. ASSUME RemoveOk PROVE History'
  <2>1. /\ pc \in Rotating /\ pc' \in {"reopen", "rename"} /\ UNCHANGED <<faults, restarts>>
        /\ (pc' = "reopen" => index' = 0)
    BY <1>15 DEF RemoveOk, Rotating
  <2>2. rotatedOk' = rotatedOk
    BY <1>15, Zenon DEF RemoveOk
  <2>3. SUFFICES ASSUME Quiet' PROVE History'
    BY DEF History
  <2>4. Quiet
    BY <2>1, <2>3 DEF Quiet, Rotating
  <2>5. /\ \A s \in Slot : s \notin names' => content'[s] = <<>>
        /\ Hole(index)' /\ Deep(index)'
    BY <1>15, <2>4, QuietRemoves
  <2>6. rotatedOk' = TRUE
    BY <2>1, <2>2, <2>4 DEF History
  <2>7. CASE pc' = "reopen"
    <3>1. Hole(0)' /\ Deep(0)'
      BY <2>1, <2>5, <2>7 DEF Hole, Deep, AllBut
    <3> QED
      BY <2>5, <2>6, <2>7, <3>1 DEF History, Rotating
  <2>8. CASE pc' = "rename"
    BY <2>5, <2>6, <2>8 DEF History, Rotating
  <2> QED
    BY <2>1, <2>7, <2>8
<1>16. ASSUME RemoveErr PROVE History'
  <2>1. Fault
    BY <1>16, Zenon DEF RemoveErr, RotateFilesErr
  <2> QED
    BY <1>d, <2>1, FaultEndsQuiet
<1>17. ASSUME RenameOk PROVE History'
  <2>1. /\ pc \in Rotating /\ pc' \in {"reopen", "remove"} /\ UNCHANGED <<faults, restarts>>
        /\ (pc' = "reopen" => index' = 0)
    BY <1>17 DEF RenameOk, Rotating
  <2>2. rotatedOk' = rotatedOk
    BY <1>17, Zenon DEF RenameOk
  <2>3. SUFFICES ASSUME Quiet' PROVE History'
    BY DEF History
  <2>4. Quiet
    BY <2>1, <2>3 DEF Quiet, Rotating
  <2>5. /\ \A s \in Slot : s \notin names' => content'[s] = <<>>
        /\ Hole(index)' /\ Deep(index)'
    BY <1>17, <2>4, QuietRenames
  <2>6. rotatedOk' = TRUE
    BY <2>1, <2>2, <2>4 DEF History
  <2>7. CASE pc' = "reopen"
    <3>1. Hole(0)' /\ Deep(0)'
      BY <2>1, <2>5, <2>7 DEF Hole, Deep, AllBut
    <3> QED
      BY <2>5, <2>6, <2>7, <3>1 DEF History, Rotating
  <2>8. CASE pc' = "remove"
    BY <2>5, <2>6, <2>8 DEF History, Rotating
  <2> QED
    BY <2>1, <2>7, <2>8
<1>18. ASSUME RenameErr PROVE History'
  <2>1. Fault
    BY <1>18, Zenon DEF RenameErr, RotateFilesErr
  <2> QED
    BY <1>d, <2>1, FaultEndsQuiet
<1>19. ASSUME ReopenFresh PROVE History'
  <2>1. pc = "reopen" /\ pc' \in {"idle", "append"} /\ UNCHANGED <<faults, restarts>>
    BY <1>19 DEF ReopenFresh
  <2> QED
    BY <1>19, <2>1, QuietReopens DEF History, Quiet, Rotating
<1>20. ASSUME ReopenAppend PROVE History'
  <2>1. pc = "reopen" /\ ~rotatedOk /\ UNCHANGED <<faults, restarts>>
    BY <1>20, Zenon DEF ReopenAppend
  <2>2. ~Quiet
    BY <2>1 DEF History, Rotating
  <2>3. ~Quiet'
    BY <2>1, <2>2 DEF Quiet
  <2> QED
    BY <2>3, Zenon DEF History
<1>21. ASSUME ReopenErr PROVE History'
  <2>1. Fault
    BY <1>21, Zenon DEF ReopenErr
  <2> QED
    BY <1>d, <2>1, FaultEndsQuiet
<1>22. ASSUME Exit PROVE History'
  <2>1. pc = "exit" /\ pc' = "closed" /\ UNCHANGED <<config, names>>
    BY <1>22, Zenon DEF Exit
  <2>2. Fault \/ (Abandon(Len(buffer), {}) /\ UNCHANGED bounds)
    BY <1>22, Zenon DEF Exit
  <2>3. ASSUME Abandon(Len(buffer), {}), UNCHANGED bounds
        PROVE  History'
    <3>1. Spill(Len(buffer)) /\ UNCHANGED <<faults, restarts>>
      BY <2>3, Zenon DEF Abandon, Spill, Stores
    <3> QED
      BY <1>d, <2>1, <3>1, SpillAll, QuietOutside DEF Rotating, Written
  <2> QED
    BY <1>d, <2>2, <2>3, FaultEndsQuiet
<1>25. ASSUME DirectErr PROVE History'
  <2>1. Fault
    BY <1>25, Zenon DEF DirectErr
  <2> QED
    BY <1>d, <2>1, FaultEndsQuiet
<1>23. ASSUME Crash PROVE History'
  <2>1. pc' = "down"
    BY <1>23, Zenon DEF Crash
  <2> QED
    BY <2>1 DEF History, Quiet
<1>24. ASSUME Restart PROVE History'
  <2>1. restarts' # 0
    BY <1>d, <1>24 DEF Restart, RestOK
  <2> QED
    BY <2>1 DEF History, Quiet
<1> QED
  BY <1>1, <1>2, <1>3, <1>4, <1>5, <1>6, <1>7, <1>8, <1>9, <1>10, <1>11, <1>12,
     <1>13, <1>14, <1>15, <1>16, <1>17, <1>18, <1>19, <1>20, <1>21, <1>22, <1>23,
     <1>24, <1>25
     DEF Next, Command, Flush, Finalize, Write, RotateStep

LEMMA HistoryHolds == Spec => [](Inv /\ History)
<1>1. Init => History
  <2> SUFFICES ASSUME Init PROVE History
    OBVIOUS
  <2>1. /\ names = {0} /\ content = [s \in Slot |-> <<>>] /\ stored = <<>> /\ pc = "idle"
    BY DEF Init
  <2>2. NoneDeleted
    BY <2>1, NoRecords DEF NoneDeleted
  <2>3. Closed
    BY <2>1 DEF Closed
  <2> QED
    BY <2>1, <2>2, <2>3 DEF History, Deep, Rotating
<1>2. Inv /\ History /\ UNCHANGED vars => History'
  <2> SUFFICES ASSUME Inv, History, UNCHANGED vars PROVE History'
    OBVIOUS
  <2>1. /\ UNCHANGED <<config, names, content, pc, index, faults, restarts, stored>>
        /\ rotatedOk' = rotatedOk
    BY Zenon DEF vars
  <2> QED
    BY <2>1 DEF History, Quiet, Closed, Hole, Deep, NoneDeleted, AllBut
<1>3. Inv /\ History /\ [Next]_vars => History'
  BY <1>2, HistoryStep
<1> QED
  BY <1>1, <1>3, InvHolds, PTL DEF Spec

(***************************************************************************)
(* As long as nothing fails, a record is deleted only once all of the      *)
(* max_rotate_files rotated files exist, for any number of them.           *)
(***************************************************************************)
THEOREM HistoryUsedHolds == Spec => []HistoryUsed
<1>1. ASSUME Inv, History PROVE HistoryUsed
  <2> SUFFICES ASSUME faults = 0, restarts = 0, pc \notin Rotating \cup {"down"}
               PROVE  ToSet(stored) = OnDisk \/ 1..config.maxRotateFiles \subseteq names
    BY DEF HistoryUsed
  <2>1. Deep(0)
    BY <1>1 DEF History, Quiet
  <2>2. OnDisk \subseteq ToSet(stored)
    BY <1>1 DEF Inv, Data, Files, OnDisk
  <2>3. NoneDeleted => ToSet(stored) = OnDisk
    BY <2>2 DEF NoneDeleted, OnDisk
  <2>4. AllBut(0) => 1..config.maxRotateFiles \subseteq names
    BY DEF AllBut
  <2> QED
    BY <2>1, <2>3, <2>4 DEF Deep
<1> QED
  BY HistoryHolds, <1>1, PTL

----------------------------------------------------------------------------
(* The size of the base file, which rotation is decided on.                *)

\* The base file as it is once the buffer is flushed.
Base == content[0] \o buffer

\* Where a record may be appended, it fits, or the base file is empty.
Room ==
    config.rotateSizeBytes > 0 /\ writer /\ pc = "append"
        => \/ currentSize + config.length[Head(batch)] <= config.rotateSizeBytes
           \/ Base = <<>>

\* What current_size misses is all of it in torn.
Measured ==
    /\ SizesOK
    /\ writer => currentSize + missed = Bytes(Base) + torn /\ missed <= torn
    /\ config.rotateSizeBytes > 0 /\ Bytes(Base) > config.rotateSizeBytes => Len(Base) = 1
    /\ Room

LEMMA ConfigType ==
    ASSUME RestOK
    PROVE  /\ config.length \in [Record -> Nat] /\ config.rotateSizeBytes \in Nat
           /\ \A r \in Record : config.length[r] \in Nat
<1>1. config \in Configs
  BY DEF RestOK
<1>2. config.length \in [Record -> Nat] /\ config.rotateSizeBytes \in Nat
  BY <1>1 DEF ConfigsAssumption
<1> QED
  BY <1>2

LEMMA BaseType ==
    ASSUME DataOK
    PROVE  Base \in Seq(Record) /\ content[0] \in Seq(Record) /\ buffer \in Seq(Record)
<1>1. content[0] \in Seq(Record) /\ buffer \in Seq(Record)
  BY NumberedRecords DEF DataOK
<1> QED
  BY <1>1, ConcatProperties DEF Base

LEMMA RecordsConcat == \A a, b, c \in Seq(Record) : (a \o b) \o c = a \o (b \o c)
  BY ConcatAssociative

\* Nothing is flushed but what was to be in the base file anyway.
LEMMA SpillBase ==
    ASSUME DataOK, NEW k \in 0..Len(buffer), Spill(k)
    PROVE  /\ buffer' = Rest(k) => Base' = Base
           /\ content'[0] \in Seq(Record) /\ Rest(k) \in Seq(Record)
           /\ Base = content'[0] \o Rest(k)
<1> DEFINE p == SubSeq(buffer, 1, k)
<1>1. buffer \in Seq(Record) /\ content[0] \in Seq(Record)
  BY BaseType
<1>2. p \o Rest(k) = buffer
  <2>1. SubSeq(buffer, 1, k) \o SubSeq(buffer, k + 1, Len(buffer)) = SubSeq(buffer, 1, Len(buffer))
    <3>1. 1 \in 1..Len(buffer) + 1 /\ k \in 1 - 1..Len(buffer) /\ Len(buffer) \in k..Len(buffer)
      BY <1>1
    <3> QED
      BY <1>1, <3>1, ConcatAdjacentSubSeq
  <2>2. SubSeq(buffer, 1, Len(buffer)) = buffer
    BY <1>1, SubSeqFull
  <2> QED
    BY <2>1, <2>2 DEF Rest
<1>3. p \in Seq(Record) /\ Rest(k) \in Seq(Record)
  BY <1>1 DEF Rest
<1>4. content'[0] = content[0] \o p
  BY NumberedRecords DEF Spill, Stores, DataOK
<1> HIDE DEF p
<1>5. content'[0] \in Seq(Record)
  BY <1>1, <1>3, <1>4, ConcatProperties
<1>6. (content[0] \o p) \o Rest(k) = content[0] \o buffer
  <2>1. (content[0] \o p) \o Rest(k) = content[0] \o (p \o Rest(k))
    BY <1>1, <1>3, RecordsConcat
  <2> QED
    BY <1>2, <2>1, Zenon
<1> QED
  BY <1>3, <1>4, <1>5, <1>6 DEF Base

LEMMA MeasuredStays ==
    ASSUME Measured, Base' = Base, UNCHANGED <<config, currentSize, missed>>,
           writer' => writer /\ torn' = torn, torn' \in Nat,
           pc' = "append" => pc = "append" /\ batch' = batch
    PROVE  Measured'
<1>1. Bytes(Base)' = Bytes(Base)
  BY DEF Bytes
<1> QED
  BY <1>1 DEF Measured, SizesOK, Room

\* What is left of the base file when the rest is lost or deleted is not longer.
LEMMA MeasuredCut ==
    ASSUME Measured, DataOK, RestOK, NEW s \in Seq(Record), NEW t \in Seq(Record),
           Base = s \o t, Base' = s, UNCHANGED <<config, currentSize, missed>>,
           torn' \in Nat, writer' = FALSE
    PROVE  Measured'
<1> DEFINE L == config.rotateSizeBytes
<1>1. Bytes(Base) = Bytes(s) + Bytes(t) /\ Bytes(s) \in Nat /\ Bytes(t) \in Nat
  BY ConfigType, SizeConcat, SizeType DEF Bytes
<1>2. Bytes(Base)' = Bytes(s)
  BY DEF Bytes
<1>3. Len(Base) = Len(s) + Len(t) /\ Len(s) \in Nat /\ Len(t) \in Nat
  BY ConcatProperties
<1>4. L > 0 /\ Bytes(s) > L => Len(s) = 1
  <2> SUFFICES ASSUME L > 0, Bytes(s) > L PROVE Len(s) = 1
    OBVIOUS
  <2>1. Len(Base) = 1
    BY <1>1, ConfigType DEF Measured
  <2>2. Bytes(<<>>) = 0
    BY ConfigType, SizeEmpty DEF Bytes
  <2>3. s # <<>>
    <3>1. ~(L > 0 /\ 0 > L)
      BY ConfigType
    <3> QED
      BY <2>2, <3>1, Zenon
  <2>4. Len(s) \in Nat \ {0}
    BY <2>3, EmptySeq
  <2>5. \A a \in Nat \ {0}, b \in Nat : 1 = a + b => a = 1
    OBVIOUS
  <2> QED
    BY <1>3, <2>1, <2>4, <2>5, Zenon
<1> QED
  BY <1>2, <1>4 DEF Measured, SizesOK, Room

LEMMA MeasuredGrows ==
    ASSUME Measured, writer, NEW n \in Nat, NEW b \in Nat, NEW grown, b = Bytes(Base),
           grown = b + n, currentSize' = currentSize + n, UNCHANGED <<torn, missed>>
    PROVE  SizesOK' /\ currentSize' + missed' = grown + torn' /\ missed' <= torn'
<1>1. currentSize + missed = b + torn /\ missed <= torn
  BY DEF Measured
<1>2. currentSize \in Nat /\ torn \in Nat /\ missed \in Nat
  BY DEF Measured, SizesOK
<1>3. currentSize + n + missed = b + n + torn
  BY <1>1, <1>2
<1> QED
  BY <1>1, <1>2, <1>3 DEF SizesOK

LEMMA MeasuredPut ==
    ASSUME Measured, DataOK, RestOK, writer, pc = "append", batch # <<>>,
           Base' = Append(Base, Head(batch)), pc' # "append",
           UNCHANGED <<config, torn, missed, writer>>,
           currentSize' = currentSize + config.length[Head(batch)]
    PROVE  Measured'
<1> DEFINE r == Head(batch)
           L == config.rotateSizeBytes
<1>1. r \in Record
  BY HeadTailProperties DEF DataOK
<1>2. Base \in Seq(Record) /\ Base' = Base \o <<r>> /\ <<r>> \in Seq(Record)
  BY <1>1, BaseType, AppendIsConcat
<1>3. Bytes(Base)' = Bytes(Base) + config.length[r] /\ Bytes(Base) \in Nat
  BY <1>1, <1>2, ConfigType, SizeConcat, SizeOne, SizeType DEF Bytes
<1>4. config.length[r] \in Nat /\ L \in Nat
  BY <1>1, ConfigType
<1>5. /\ SizesOK'
      /\ currentSize' + missed' = Bytes(Base)' + torn' /\ missed' <= torn'
  BY <1>3, <1>4, MeasuredGrows
<1>6. Base = <<>> => Len(Base') = 1
  BY <1>2
<1>7. L > 0 /\ Bytes(Base)' > L => Len(Base') = 1
  <2>1. Bytes(Base) <= currentSize
    BY <1>3 DEF Measured, SizesOK
  <2> QED
    BY <1>3, <1>4, <1>6, <2>1 DEF Measured, SizesOK, Room
<1> HIDE DEF r
<1> QED
  BY <1>5, <1>7 DEF Measured, Room

\* The writer is back, with the size its file has.
LEMMA MeasuredReopens ==
    ASSUME Measured, DataOK, RestOK, buffer = <<>>, buffer' = <<>>,
           UNCHANGED <<config, content>>, torn' \in Nat, missed' = 0,
           currentSize' = Bytes(content[0]) + torn',
           pc' = "append" => content[0] = <<>>
    PROVE  Measured'
<1>1. content[0] \o <<>> = content[0]
  BY BaseType, ConcatEmptySeq
<1>2. Base = content[0] /\ Base' = content[0]
  BY <1>1 DEF Base
<1>3. Bytes(Base)' = Bytes(Base) /\ Bytes(content[0])= Bytes(Base)
  BY <1>2 DEF Bytes
<1>4. Bytes(Base) \in Nat
  BY BaseType, ConfigType, SizeType DEF Bytes
<1> QED
  BY <1>2, <1>3, <1>4 DEF Measured, SizesOK, Room

LEMMA PartType ==
    ASSUME RestOK, NEW R \in SUBSET Record, NEW p \in Part(R)
    PROVE  p \in Nat
<1>1. \A r \in R : 1..(config.length[r] - 1) \subseteq Nat
  BY ConfigType
<1> QED
  BY <1>1 DEF Part

\* A torn part that current_size does not count, or the writer is gone.
LEMMA MeasuredTears ==
    ASSUME Measured, DataOK, RestOK, Base' = Base, UNCHANGED <<config, currentSize>>,
           pc' # "append",
           writer' => writer, NEW p \in Nat, torn' = torn + p, missed' = missed + p
    PROVE  Measured'
<1>1. Bytes(Base)' = Bytes(Base)
  BY DEF Bytes
<1>2. SizesOK'
  BY DEF Measured, SizesOK
<1>3. ASSUME writer
      PROVE  currentSize' + missed' = Bytes(Base)' + torn' /\ missed' <= torn'
  <2>1. currentSize + missed = Bytes(Base) + torn /\ missed <= torn
    BY <1>3 DEF Measured
  <2>2. Bytes(Base) \in Nat /\ currentSize \in Nat /\ torn \in Nat /\ missed \in Nat
    BY BaseType, ConfigType, SizeType DEF Bytes, Measured, SizesOK
  <2>3. \A b, c, t, m \in Nat : c + m = b + t /\ m <= t
           => c + (m + p) = b + (t + p) /\ m + p <= t + p
    OBVIOUS
  <2>4. currentSize + (missed + p) = Bytes(Base) + (torn + p) /\ missed + p <= torn + p
    BY <2>1, <2>2, <2>3
  <2> QED
    BY <1>1, <2>4
<1> QED
  BY <1>1, <1>2, <1>3 DEF Measured, Room

LEMMA MeasuredStep == Inv /\ Measured /\ Next => Measured'
<1> SUFFICES ASSUME Inv, Measured, Next PROVE Measured'
  OBVIOUS
<1>a. \A k \in 0..Len(buffer) - 1 : k \in 0..Len(buffer)
  BY DEF Inv, Data, DataOK
<1>b. DataOK /\ RestOK /\ Data /\ Len(buffer) \in 0..Len(buffer)
  BY SpillAll DEF Inv, Data
<1>c. ASSUME ~writer
      PROVE  buffer = <<>> /\ Base = content[0] /\ content[0] \in Seq(Record)
  BY <1>b, <1>c, BaseType, ConcatEmptySeq DEF Inv, Writer, Base
<1>i. torn \in Nat /\ missed \in Nat
  BY DEF Measured, SizesOK
<1>d. ASSUME NEW k \in 0..Len(buffer), Drain(k), UNCHANGED <<config, currentSize, missed>>,
             writer' => writer, pc' # "append"
      PROVE  Measured'
  <2>1. Spill(k) /\ buffer' = Rest(k) /\ torn' = torn
    BY <1>d, Zenon DEF Drain, Spill, Stores, Rest
  <2>2. Base' = Base
    BY <1>b, <2>1, SpillBase
  <2> QED
    BY <1>d, <1>i, <2>1, <2>2, MeasuredStays
<1>e. ASSUME UNCHANGED <<content, torn, buffer, config, currentSize, missed>>,
             writer' => writer,
             pc' = "append" => pc = "append" /\ batch' = batch
      PROVE  Measured'
  <2>1. Base' = Base
    BY <1>e DEF Base
  <2> QED
    BY <1>e, <1>i, <2>1, MeasuredStays
<1>1. ASSUME NEW n \in 1..MaxBatch, Submit(n) PROVE Measured'
  BY <1>1, <1>e DEF Submit
<1>2. ASSUME Rotate PROVE Measured'
  BY <1>2, <1>e DEF Rotate
<1>3. ASSUME FlushOk PROVE Measured'
  BY <1>3, <1>b, <1>d DEF FlushOk
<1>4. ASSUME FlushErr PROVE Measured'
  BY <1>4, <1>d DEF FlushErr, GiveUp
<1>5. ASSUME FlushUnavailable PROVE Measured'
  BY <1>5, <1>e DEF FlushUnavailable, GiveUp
<1>6. ASSUME FinalizeOk PROVE Measured'
  BY <1>6, <1>b, <1>d DEF FinalizeOk
<1>7. ASSUME FinalizeErr PROVE Measured'
  BY <1>7, <1>d, <1>e DEF FinalizeErr
<1>8. ASSUME HandleWrite PROVE Measured'
  <2>1. Base' = Base /\ Bytes(Base)' = Bytes(Base)
    BY <1>8 DEF HandleWrite, Base, Bytes
  <2>2. batch # <<>> /\ Head(batch) \in Record
    BY <1>8, HeadTailProperties DEF HandleWrite, Inv, Hand, Data, DataOK
  <2>3. config.length[Head(batch)] \in Nat /\ config.rotateSizeBytes \in Nat
    BY <1>b, <2>2, ConfigType
  <2>4. Room'
    BY <1>8, <2>3 DEF HandleWrite, Room, RotationNeeded, Measured, SizesOK
  <2> QED
    BY <1>8, <2>1, <2>4 DEF HandleWrite, Measured, SizesOK
<1>9. ASSUME AppendOk PROVE Measured'
  <2> DEFINE r == Head(batch)
  <2>1. batch # <<>>
    BY <1>9, Zenon DEF AppendOk, Inv, Hand
  <2>2. r \in Record /\ <<r>> \in Seq(Record)
    BY <1>b, <2>1, HeadTailProperties DEF DataOK
  <2>3. buffer \in Seq(Record) /\ content[0] \in Seq(Record) /\ Base \in Seq(Record)
    BY <1>b, BaseType
  <2> HIDE DEF r
  <2>4. Append(Base, r) = (content[0] \o buffer) \o <<r>>
    BY <2>2, <2>3, AppendIsConcat DEF Base
  <2>5. ASSUME buffer' = Append(buffer, r), UNCHANGED content
        PROVE  Base' = Append(Base, r)
    <3>1. Base' = content[0] \o (buffer \o <<r>>)
      BY <2>2, <2>3, <2>5, AppendIsConcat DEF Base
    <3>2. (content[0] \o buffer) \o <<r>> = content[0] \o (buffer \o <<r>>)
      BY <2>2, <2>3, RecordsConcat
    <3> QED
      BY <2>4, <3>1, <3>2, Zenon
  <2>6. ASSUME content' = [content EXCEPT ![0] = @ \o buffer], buffer' = <<r>>
        PROVE  Base' = Append(Base, r)
    BY <1>b, <2>4, <2>6, NumberedRecords DEF Base, DataOK
  <2>9. ASSUME content' = [content EXCEPT ![0] = @ \o Append(buffer, r)], buffer' = <<>>
        PROVE  Base' = Append(Base, r)
    <3> DEFINE more == Append(buffer, r)
    <3>1. more = buffer \o <<r>> /\ more \in Seq(Record)
      BY <2>2, <2>3, AppendIsConcat
    <3>2. content' = [content EXCEPT ![0] = content[0] \o more]
      BY <2>9
    <3> HIDE DEF more
    <3>3. content'[0] = content[0] \o more
      BY <1>b, <3>2, NumberedRecords DEF DataOK
    <3>4. content[0] \o more \in Seq(Record)
      BY <2>3, <3>1, ConcatProperties
    <3>5. (content[0] \o more) \o <<>> = content[0] \o more
      BY <3>4, ConcatEmptySeq
    <3>6. (content[0] \o buffer) \o <<r>> = content[0] \o (buffer \o <<r>>)
      BY <2>2, <2>3, RecordsConcat
    <3>7. Base' = (content[0] \o more) \o <<>>
      BY <2>9, <3>3, Zenon DEF Base
    <3> QED
      BY <2>4, <3>1, <3>5, <3>6, <3>7, Zenon
  <2>7. Base' = Append(Base, r)
    BY <1>9, <2>5, <2>6, <2>9, Zenon DEF AppendOk, ToBuffer, ToFile, r, disk
  <2>8. writer /\ pc = "append" /\ pc' # "append"
        /\ UNCHANGED <<config, missed, writer>>
        /\ currentSize' = currentSize + config.length[Head(batch)]
    BY <1>9 DEF AppendOk
  <2>10. torn' = torn
    BY <1>9, Zenon DEF AppendOk, ToBuffer, ToFile
  <2> QED
    BY <1>b, <2>1, <2>7, <2>8, <2>10, MeasuredPut DEF r
<1>10. ASSUME AppendErr PROVE Measured'
  BY <1>10, <1>a, <1>d DEF AppendErr, GiveUp
<1>11. ASSUME AppendPanic PROVE Measured'
  BY <1>11, <1>e DEF AppendPanic
<1>12. ASSUME RotateFlushOk PROVE Measured'
  BY <1>12, <1>b, <1>d DEF RotateFlushOk, RotateFrom
<1>13. ASSUME RotateFlushErr PROVE Measured'
  BY <1>13, <1>d DEF RotateFlushErr, GiveUp
<1>14. ASSUME RotateUnavailable PROVE Measured'
  BY <1>14, <1>e DEF RotateUnavailable, GiveUp
<1>f. ASSUME content'[0] \in {content[0], <<>>}, pc \in Rotating, pc' # "append",
             UNCHANGED <<config, currentSize, missed, buffer, writer>>, torn' \in Nat
      PROVE  Measured'
  <2>1. writer = FALSE /\ buffer = <<>> /\ content[0] \in Seq(Record) /\ Base = content[0]
    BY <1>f, <1>c DEF Inv, Writer, FlagsOK
  <2>2. Base' = content'[0] \o <<>> /\ <<>> \in Seq(Record)
    BY <1>f, <2>1 DEF Base
  <2>3. CASE content'[0] = content[0]
    BY <1>f, <2>1, <2>2, <2>3, ConcatEmptySeq, MeasuredStays
  <2>4. CASE content'[0] = <<>>
    <3>1. <<>> \o content[0] = content[0] /\ <<>> \o <<>> = <<>>
      BY <2>1, <2>2, ConcatEmptySeq
    <3> QED
      BY <1>b, <1>f, <2>1, <2>2, <2>4, <3>1, MeasuredCut
  <2> QED
    BY <1>f, <2>3, <2>4
<1>15. ASSUME RemoveOk PROVE Measured'
  <2>1. content'[0] \in {content[0], <<>>}
    BY <1>15, <1>b, NumberedRecords DEF RemoveOk, DataOK
  <2>2. torn' \in Nat
    BY <1>15, <1>i DEF RemoveOk
  <2> QED
    BY <1>15, <1>f, <2>1, <2>2 DEF RemoveOk, Rotating
<1>16. ASSUME RemoveErr PROVE Measured'
  BY <1>16, <1>e DEF RemoveErr, RotateFilesErr
<1>17. ASSUME RenameOk PROVE Measured'
  <2>1. index \in Slot /\ index # 0
    BY <1>17, <1>b DEF RenameOk, RestOK
  <2>2. content'[0] \in {content[0], <<>>}
    BY <1>17, <1>b, <2>1, NumberedRecords DEF RenameOk, DataOK
  <2>3. torn' \in Nat
    BY <1>17, <1>i DEF RenameOk
  <2> QED
    BY <1>17, <1>f, <2>2, <2>3 DEF RenameOk, Rotating
<1>18. ASSUME RenameErr PROVE Measured'
  BY <1>18, <1>e DEF RenameErr, RotateFilesErr
<1>g. pc \in Rotating \cup Gone => ~writer /\ buffer = <<>>
  BY <1>c DEF Inv, Writer
<1>19. ASSUME ReopenFresh PROVE Measured'
  <2>1. content' = content /\ content[0] = <<>>
    BY <1>19, <1>b, NumberedRecords DEF ReopenFresh, DataOK, Inv, Loop
  <2>2. Bytes(content[0]) = 0
    BY <1>b, <2>1, ConfigType, SizeEmpty DEF Bytes
  <2>3. buffer = <<>> /\ buffer' = <<>>
    BY <1>19, <1>g DEF ReopenFresh, Rotating
  <2> QED
    BY <1>19, <1>b, <2>1, <2>2, <2>3, MeasuredReopens DEF ReopenFresh
<1>20. ASSUME ReopenAppend PROVE Measured'
  <2>1. buffer = <<>> /\ buffer' = <<>>
    BY <1>20, <1>g DEF ReopenAppend, Rotating
  <2> QED
    BY <1>20, <1>b, <1>i, <2>1, MeasuredReopens DEF ReopenAppend, GiveUp
<1>21. ASSUME ReopenErr PROVE Measured'
  BY <1>21, <1>e DEF ReopenErr, GiveUp
<1>h. ASSUME NEW k \in 0..Len(buffer), NEW R \in SUBSET Record, Abandon(k, R),
             UNCHANGED <<config, currentSize, missed>>
      PROVE  Measured'
  <2>0. Spill(k) /\ buffer' = <<>> /\ writer' = FALSE
    BY <1>h, Zenon DEF Abandon, Spill, Stores
  <2>1. /\ content'[0] \in Seq(Record) /\ Rest(k) \in Seq(Record)
        /\ Base = content'[0] \o Rest(k)
    BY <1>b, <1>h, <2>0, SpillBase
  <2>2. Base' = content'[0]
    BY <2>0, <2>1, ConcatEmptySeq DEF Base
  <2>3. PICK p \in Part(R) : torn' = torn + p
    BY <1>h, Zenon DEF Abandon
  <2>4. torn' \in Nat
    BY <1>b, <1>i, <2>3, PartType
  <2> QED
    BY <1>b, <1>h, <2>0, <2>1, <2>2, <2>4, MeasuredCut
<1>22. ASSUME Exit PROVE Measured'
  <2>1. UNCHANGED <<config, currentSize, missed>>
    BY <1>22 DEF Exit
  <2>2. CASE Abandon(Len(buffer), {})
    BY <1>b, <1>h, <2>1, <2>2
  <2>3. CASE \E k \in 0..Len(buffer) - 1 : Abandon(k, {buffer[k + 1]})
    <3>1. PICK k \in 0..Len(buffer) - 1 : Abandon(k, {buffer[k + 1]})
      BY <2>3
    <3>2. {buffer[k + 1]} \in SUBSET Record
      BY <1>b DEF DataOK
    <3> QED
      BY <1>a, <1>h, <2>1, <3>1, <3>2
  <2> QED
    BY <1>22, <2>2, <2>3, Zenon DEF Exit
<1>23. ASSUME Crash PROVE Measured'
  <2>1. PICK k \in 0..Len(buffer) : Abandon(k, Following(k))
    BY <1>23, Zenon DEF Crash
  <2>2. UNCHANGED <<config, currentSize, missed>>
    BY <1>23 DEF Crash
  <2>3. Following(k) \in SUBSET Record
    <3>1. CASE k < Len(buffer)
      BY <1>b, <3>1 DEF Following, DataOK
    <3>2. CASE ~(k < Len(buffer))
      BY <1>b, <3>2, SetType DEF Following, DataOK
    <3> QED
      BY <3>1, <3>2
  <2> QED
    BY <1>h, <2>1, <2>2, <2>3
<1>25. ASSUME DirectErr PROVE Measured'
  <2>1. PICK p \in Part({Head(batch)}) : torn' = torn + p /\ missed' = missed + p
    BY <1>25, Zenon DEF DirectErr
  <2>2. batch # <<>>
    BY <1>25, Zenon DEF DirectErr, Inv, Hand
  <2>3. {Head(batch)} \in SUBSET Record
    BY <1>b, <2>2, HeadTailProperties DEF DataOK
  <2>4. p \in Nat
    BY <1>b, <2>1, <2>3, PartType
  <2>5. Base' = Base
    BY <1>25, <1>b, DirectSpills, SpillBase
  <2>6. pc' # "append" /\ writer' = writer /\ UNCHANGED <<config, currentSize>>
    BY <1>25 DEF DirectErr, GiveUp
  <2> QED
    BY <1>b, <2>1, <2>4, <2>5, <2>6, MeasuredTears
<1>24. ASSUME Restart PROVE Measured'
  <2>1. buffer = <<>> /\ buffer' = <<>>
    BY <1>24, <1>g DEF Restart
  <2> QED
    BY <1>24, <1>b, <1>i, <2>1, MeasuredReopens DEF Restart
<1> QED
  BY <1>1, <1>2, <1>3, <1>4, <1>5, <1>6, <1>7, <1>8, <1>9, <1>10, <1>11, <1>12,
     <1>13, <1>14, <1>15, <1>16, <1>17, <1>18, <1>19, <1>20, <1>21, <1>22, <1>23,
     <1>24, <1>25
     DEF Next, Command, Flush, Finalize, Write, RotateStep

LEMMA MeasuredHolds == Spec => [](Inv /\ Measured)
<1>1. Init => Measured
  <2> SUFFICES ASSUME Init PROVE Measured
    OBVIOUS
  <2>1. content[0] = <<>> /\ buffer = <<>> /\ currentSize = 0 /\ pc = "idle"
        /\ torn = 0 /\ missed = 0
    BY NumberedRecords DEF Init
  <2>2. Base = <<>> /\ <<>> \o <<>> = <<>>
    BY <2>1, NoRecords, ConcatEmptySeq DEF Base
  <2>3. Bytes(Base) = 0 /\ config.rotateSizeBytes \in Nat
    BY <2>2, InitType, ConfigType, SizeEmpty DEF Bytes, TypeOK
  <2> QED
    BY <2>1, <2>2, <2>3 DEF Measured, SizesOK, Room
<1>2. Measured /\ UNCHANGED vars => Measured'
  <2> SUFFICES ASSUME Measured, UNCHANGED vars PROVE Measured'
    OBVIOUS
  <2>1. UNCHANGED <<content, torn, missed, buffer, config, currentSize, writer, pc, batch>>
    BY Zenon DEF vars
  <2> QED
    BY <2>1, MeasuredStays DEF Base, Measured, SizesOK
<1>3. Inv /\ Measured /\ [Next]_vars => (Inv /\ Measured)'
  <2>1. Inv /\ Next => Inv'
    BY DataStep, RestStep, FlagsStep, HandStep, WriterStep, LoopStep, ShownStep DEF Inv, Data
  <2> QED
    BY <1>2, <2>1, StutterInv, MeasuredStep
<1> QED
  BY <1>1, <1>3, InitInv, PTL DEF Spec

(***************************************************************************)
(* Every variable of the worker and its files keeps its type, whichever    *)
(* calls fail and wherever the process dies.                               *)
(***************************************************************************)
THEOREM TypeCorrect == Spec => []TypeOK
<1>1. Inv /\ Measured => TypeOK
  BY DEF Inv, TypeOK, Data, Measured
<1> QED
  BY MeasuredHolds, <1>1, PTL

(***************************************************************************)
(* While there is a writer, current_size is the size the base file has     *)
(* once the buffer is flushed, less the bytes that writes past the buffer  *)
(* have left in the file when they failed since it was opened (the `?' of  *)
(* handle_write skips the addition), and never more: for any lengths of    *)
(* records, the buffer's capacity and longer included, after every error,  *)
(* a rotation that stopped halfway, and restarts.                          *)
(***************************************************************************)
THEOREM SizeExactHolds == Spec => []SizeExact
<1>1. Inv /\ Measured => SizeExact
  <2> SUFFICES ASSUME Inv, Measured, writer
               PROVE  /\ currentSize + missed = Bytes(content[0]) + torn + Bytes(buffer)
                      /\ missed <= torn
    BY DEF SizeExact
  <2>1. /\ Bytes(Base) = Bytes(content[0]) + Bytes(buffer)
        /\ Bytes(content[0]) \in Nat /\ Bytes(buffer) \in Nat
    BY BaseType, ConfigType, SizeConcat, SizeType DEF Inv, Data, Base, Bytes
  <2> QED
    BY <2>1 DEF Measured, SizesOK
<1> QED
  BY <1>1, MeasuredHolds, PTL

(***************************************************************************)
(* The whole records in the base file never take more than                 *)
(* rotate_size_bytes, unless it holds one record that alone is longer: for *)
(* any limit, buffer and lengths, and in spite of the bytes current_size   *)
(* misses after a failed write.  (These come on top, see BaseWithinLimit.) *)
(***************************************************************************)
THEOREM BaseBoundedHolds == Spec => []BaseBounded
<1>1. Measured => BaseBounded
  BY DEF Measured, BaseBounded, Base
<1> QED
  BY <1>1, MeasuredHolds, PTL
=============================================================================
