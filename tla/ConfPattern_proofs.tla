------------------------- MODULE ConfPattern_proofs -------------------------
(***************************************************************************)
(* Theorems about ConfPattern, for every alphabet and every length of      *)
(* patterns and names: no index and no slice of WildcardPattern is out of  *)
(* bounds, and the search finds a match exactly when there is one.  And    *)
(* about ConfSpec, for every set of spec files: validate_doc judges by     *)
(* what all of them say together.                                          *)
(***************************************************************************)
EXTENDS ConfPattern, ConfSpec, Induction, SequenceTheorems, TLAPS

----------------------------------------------------------------------------
(* Both searches take the first place there is: there is one.              *)

\* A wildcard is within the pattern.
LEMMA WildcardLength ==
    ASSUME NEW r \in Seq(STRING), NEW n \in 1..Len(r)
    PROVE  WildcardAt(r, n) \in Nat /\ n + WildcardAt(r, n) <= Len(r) + 1
<1>1. CASE n + 2 <= Len(r) /\ \A m \in n..n+2 : r[m] = "."
  BY <1>1 DEF WildcardAt
<1>2. CASE ~(n + 2 <= Len(r) /\ \A m \in n..n+2 : r[m] = ".")
  <2>1. CASE r[n] = "*"
    BY <1>2, <2>1 DEF WildcardAt
  <2>2. CASE r[n] # "*" /\ r[n] = "<" /\ Closing(r, n) # {}
    <3> DEFINE first == CHOOSE m \in Closing(r, n) : \A l \in Closing(r, n) : m <= l
    <3>1. Closing(r, n) \in SUBSET Nat
      BY DEF Closing
    <3>2. first \in Closing(r, n)
      BY <2>2, <3>1, LeastExists
    <3>3. first \in n+1..Len(r)
      BY <3>2 DEF Closing
    <3>4. WildcardAt(r, n) = first - n + 1
      BY <1>2, <2>2 DEF WildcardAt
    <3> HIDE DEF first
    <3> QED
      BY <3>3, <3>4
  <2>3. CASE r[n] # "*" /\ ~(r[n] = "<" /\ Closing(r, n) # {})
    BY <1>2, <2>3 DEF WildcardAt
  <2> QED
    BY <2>1, <2>2, <2>3
<1> QED
  BY <1>1, <1>2

----------------------------------------------------------------------------
PatternInv == TypeOK /\ SliceInOrder

LEMMA InitInv == Init => PatternInv
<1> SUFFICES ASSUME Init PROVE PatternInv
  OBVIOUS
<1>1. starts \in BOOLEAN /\ ends \in BOOLEAN /\ has \in BOOLEAN
  BY Zenon DEF Init
<1>2. raw \in Seq(STRING) /\ text \in Seq(STRING)
  BY ConfPatternAssumption DEF Init, ConfPatternAssumption
<1>3. <<>> \in Seq(STRING) /\ <<>> \in Seq(Seq(STRING) \ {<<>>})
  OBVIOUS
<1> QED
  BY <1>1, <1>2, <1>3 DEF Init, PatternInv, TypeOK, SliceInOrder

LEMMA FlagTypes ==
    TypeOK /\ [Next]_vars => starts' \in BOOLEAN /\ ends' \in BOOLEAN /\ has' \in BOOLEAN
  BY Zenon DEF TypeOK, Next, Wildcard, Literal, ScanDone, Trivial, Anchor, Find, FoundAll,
               pattern, search, vars

LEMMA PushedType ==
    ASSUME TypeOK PROVE Pushed \in Seq(Seq(STRING) \ {<<>>})
  BY DEF TypeOK, Pushed

LEMMA NextInv == PatternInv /\ [Next]_vars => PatternInv'
<1> SUFFICES ASSUME PatternInv, [Next]_vars PROVE PatternInv'
  OBVIOUS
<1>0. starts' \in BOOLEAN /\ ends' \in BOOLEAN /\ has' \in BOOLEAN
  BY FlagTypes, Zenon DEF PatternInv
<1>t. TypeOK /\ SliceInOrder
  BY DEF PatternInv
<1> DEFINE Rest ==
      /\ pc' \in {"scan", "anchor", "search", "done"}
      /\ raw' \in Seq(STRING) /\ text' \in Seq(STRING)
      /\ i' \in Nat \ {0}
      /\ pieces' \in Seq(Seq(STRING) \ {<<>>})
      /\ buf' \in Seq(STRING)
      /\ pos' \in 0..Len(text') /\ searchEnd' \in 0..Len(text')
      /\ pc' = "scan" => i' <= Len(raw') + 1
      /\ pc' = "search" => pieces' # <<>> /\ i' <= Len(pieces') + 1
      /\ pc' = "search" => pos' <= searchEnd'
<1> USE DEF pattern, search, Answer
<1>1. ASSUME Wildcard PROVE Rest
  <2>1. i \in 1..Len(raw)
    BY <1>t, <1>1 DEF Wildcard, TypeOK
  <2>2. i + WildcardAt(raw, i) \in Nat \ {0} /\ i + WildcardAt(raw, i) <= Len(raw) + 1
    BY <1>t, <2>1, WildcardLength DEF TypeOK
  <2>3. Pushed \in Seq(Seq(STRING) \ {<<>>})
    BY <1>t, PushedType
  <2> QED
    BY <1>t, <1>1, <2>2, <2>3 DEF Wildcard, TypeOK
<1>2. ASSUME Literal PROVE Rest
  <2>1. i \in 1..Len(raw)
    BY <1>t, <1>2 DEF Literal, TypeOK
  <2>2. raw[i] \in STRING
    BY <1>t, <2>1 DEF TypeOK
  <2> DEFINE add == IF raw[i] \in DOMAIN Latin1 THEN Latin1[raw[i]] ELSE <<raw[i]>>
  <2>3. add \in Seq(STRING)
    <3>1. <<raw[i]>> \in Seq(STRING)
      BY <2>2
    <3>2. raw[i] \in DOMAIN Latin1 => Latin1[raw[i]] \in Seq(STRING)
      BY ConfPatternAssumption, Zenon DEF ConfPatternAssumption
    <3> QED
      BY <3>1, <3>2, Zenon
  <2>4. buf' = buf \o add
    BY <1>2 DEF Literal
  <2> HIDE DEF add
  <2>5. buf' \in Seq(STRING)
    BY <1>t, <2>3, <2>4 DEF TypeOK
  <2> QED
    BY <1>t, <1>2, <2>1, <2>5 DEF Literal, TypeOK
<1>3. ASSUME ScanDone PROVE Rest
  <2>1. Pushed \in Seq(Seq(STRING) \ {<<>>})
    BY <1>t, PushedType
  <2> QED
    BY <1>t, <1>3, <2>1 DEF ScanDone, TypeOK
<1>4. ASSUME Trivial PROVE Rest
  BY <1>t, <1>4 DEF Trivial, TypeOK
<1>5. ASSUME Anchor PROVE Rest
  <2>1. pieces # <<>> /\ Len(pieces) >= 1 /\ has
    BY <1>t, <1>5 DEF Anchor, TypeOK
  <2>2. pieces[1] \in Seq(STRING) /\ Last(pieces) \in Seq(STRING)
    BY <1>t, <2>1 DEF TypeOK, Last
  <2>3. FirstLength \in Nat /\ LastLength \in Nat
    BY <2>2 DEF FirstLength, LastLength
  <2>4. CASE Anchored
    <3>1. FirstLength <= Len(text) - LastLength
      BY <2>4 DEF Anchored
    <3>2. pos' = FirstLength /\ searchEnd' = Len(text) - LastLength /\ pc' = "search"
      BY <1>5, <2>4 DEF Anchor
    <3>3. Len(text) \in Nat
      BY <1>t DEF TypeOK
    <3> QED
      BY <1>t, <1>5, <2>1, <2>3, <3>1, <3>2, <3>3 DEF Anchor, TypeOK
  <2>5. CASE ~Anchored
    BY <1>t, <1>5, <2>1, <2>5 DEF Anchor, TypeOK
  <2> QED
    BY <2>4, <2>5
<1>6. ASSUME Find PROVE Rest
  <2> DEFINE piece == pieces[i]
  <2>1. i \in 1..Len(pieces) /\ pc = "search"
    BY <1>t, <1>6 DEF Find, LastPiece, TypeOK
  <2>2. Len(piece) \in Nat
    BY <1>t, <2>1 DEF TypeOK
  <2>3. CASE Places(piece) = {}
    BY <1>t, <1>6, <2>3 DEF Find, TypeOK
  <2>4. CASE Places(piece) # {}
    <3> DEFINE first == CHOOSE p \in Places(piece) : \A q \in Places(piece) : p <= q
    <3>1. Places(piece) \in SUBSET Nat
      BY <1>t DEF Places, TypeOK
    <3>2. first \in Places(piece)
      BY <2>4, <3>1, LeastExists
    <3>3. first \in Nat /\ first + Len(piece) <= searchEnd
      BY <1>t, <2>2, <3>2 DEF Places, TypeOK
    <3>4. pos' = first + Len(piece) /\ i' = i + 1 /\ UNCHANGED <<pc, result>>
      BY <1>6, <2>4 DEF Find
    <3> HIDE DEF first, piece
    <3> QED
      BY <1>t, <1>6, <2>1, <2>2, <3>3, <3>4 DEF Find, TypeOK
  <2> QED
    BY <2>3, <2>4
<1>7. ASSUME FoundAll PROVE Rest
  BY <1>t, <1>7 DEF FoundAll, TypeOK
<1>8. ASSUME UNCHANGED vars PROVE Rest
  BY <1>t, <1>8 DEF vars, TypeOK, SliceInOrder
<1> HIDE DEF Rest
<1>9. Rest
  BY <1>1, <1>2, <1>3, <1>4, <1>5, <1>6, <1>7, <1>8 DEF Next
<1> QED
  BY <1>0, <1>9 DEF Rest, PatternInv, TypeOK, SliceInOrder

\* No index into the pieces is out of bounds, and pos and search_end lie within the name.
THEOREM TypeCorrect == Spec => []TypeOK
<1>1. PatternInv => TypeOK
  BY DEF PatternInv
<1> QED
  BY <1>1, InitInv, NextInv, PTL DEF Spec

\* The slice text[pos..search_end] is in order: matches does not panic.
THEOREM SliceInOrderHolds == Spec => []SliceInOrder
<1>1. PatternInv => SliceInOrder
  BY DEF PatternInv
<1> QED
  BY <1>1, InitInv, NextInv, PTL DEF Spec

----------------------------------------------------------------------------
(* What a pattern means: the recursion over its bytes has a solution.      *)

\* From the places where the bytes after n match to those where n does.
From(r, t, f, n) ==
    IF n > Len(r) THEN {Len(t) + 1}
    ELSE IF WildcardAt(r, n) > 0
         THEN {m \in 1..Len(t) + 1 : \E l \in f[n + WildcardAt(r, n)] : m <= l}
    ELSE {m \in 1..Len(t) : r[n] = t[m] /\ m + 1 \in f[n + 1]}

\* f is the solution for the last k bytes.
Solves(f, r, t, k) ==
    f = [n \in 1..Len(r) + 1 |-> IF n + k <= Len(r) THEN {} ELSE From(r, t, f, n)]

LEMMA SolvesMore ==
    ASSUME NEW r \in Seq(STRING), NEW t \in Seq(STRING), NEW k \in Nat, NEW f,
           Solves(f, r, t, k)
    PROVE  \E g : Solves(g, r, t, k + 1)
<1> DEFINE g == [n \in 1..Len(r) + 1 |->
                    IF n + (k + 1) <= Len(r) THEN {} ELSE From(r, t, f, n)]
<1>0. Len(r) \in Nat
  OBVIOUS
<1>1. ASSUME NEW n \in 1..Len(r) + 1, n + k > Len(r) PROVE g[n] = f[n]
  <2>1. f[n] = From(r, t, f, n)
    <3>1. ~(n + k <= Len(r))
      BY <1>0, <1>1
    <3> QED
      BY <3>1 DEF Solves
  <2>2. ~(n + (k + 1) <= Len(r))
    BY <1>0, <1>1
  <2> QED
    BY <2>1, <2>2
<1>2. ASSUME NEW n \in 1..Len(r) + 1, n + (k + 1) > Len(r)
      PROVE  From(r, t, g, n) = From(r, t, f, n)
  <2>1. CASE n > Len(r)
    BY <2>1 DEF From
  <2>2. CASE n <= Len(r) /\ WildcardAt(r, n) > 0
    <3> DEFINE w == n + WildcardAt(r, n)
    <3>1. n \in 1..Len(r) /\ WildcardAt(r, n) \in Nat /\ w <= Len(r) + 1
      BY <1>0, <2>2, WildcardLength
    <3>2. w \in 1..Len(r) + 1 /\ w + k > Len(r)
      BY <1>0, <1>2, <2>2, <3>1
    <3>3. g[w] = f[w]
      <4> HIDE DEF g, w
      <4> QED
        BY <1>1, <3>2
    <3> HIDE DEF g
    <3> QED
      BY <1>0, <2>2, <3>1, <3>3 DEF From
  <2>3. CASE n <= Len(r) /\ ~(WildcardAt(r, n) > 0)
    <3>1. n + 1 \in 1..Len(r) + 1 /\ n + 1 + k > Len(r)
      BY <1>0, <1>2, <2>3
    <3> HIDE DEF g
    <3>2. g[n + 1] = f[n + 1]
      BY <1>1, <3>1
    <3> QED
      BY <1>0, <2>3, <3>2 DEF From
  <2> QED
    BY <1>0, <2>1, <2>2, <2>3
<1>3. ASSUME NEW n \in 1..Len(r) + 1
      PROVE  g[n] = IF n + (k + 1) <= Len(r) THEN {} ELSE From(r, t, g, n)
  <2>1. CASE n + (k + 1) <= Len(r)
    BY <2>1
  <2>2. CASE ~(n + (k + 1) <= Len(r))
    <3>1. n + (k + 1) > Len(r)
      BY <1>0, <2>2
    <3>2. g[n] = From(r, t, f, n)
      BY <2>2
    <3> HIDE DEF g
    <3> QED
      BY <1>2, <2>2, <3>1, <3>2
  <2> QED
    BY <2>1, <2>2
<1>4. g = [n \in 1..Len(r) + 1 |-> g[n]]
  OBVIOUS
<1> HIDE DEF g
<1>5. Solves(g, r, t, k + 1)
  BY <1>3, <1>4 DEF Solves
<1> QED
  BY <1>5

\* The equations of MatchesFrom.
LEMMA MatchesFromIs ==
    ASSUME NEW r \in Seq(STRING), NEW t \in Seq(STRING)
    PROVE  LET M == MatchesFrom(r, t)
           IN  \A n \in 1..Len(r) + 1 : M[n] = From(r, t, M, n)
<1> DEFINE S == {k \in Nat : \E f : Solves(f, r, t, k)}
           F(f) == f = [n \in 1..Len(r) + 1 |-> From(r, t, f, n)]
           h == CHOOSE f : F(f)
<1>0. Len(r) \in Nat
  OBVIOUS
<1>1. 0 \in S
  <2> DEFINE f == [n \in 1..Len(r) + 1 |-> IF n <= Len(r) THEN {} ELSE {Len(t) + 1}]
  <2>1. ASSUME NEW n \in 1..Len(r) + 1
        PROVE  f[n] = IF n + 0 <= Len(r) THEN {} ELSE From(r, t, f, n)
    BY <1>0 DEF From
  <2>2. f = [n \in 1..Len(r) + 1 |-> f[n]]
    OBVIOUS
  <2> HIDE DEF f
  <2>3. Solves(f, r, t, 0)
    BY <2>1, <2>2 DEF Solves
  <2> QED
    BY <2>3
<1>2. ASSUME NEW k \in Nat, k \in S PROVE k + 1 \in S
  BY <1>2, SolvesMore
<1>3. \A k \in Nat : k \in S
  <2> HIDE DEF S
  <2> QED
    BY <1>1, <1>2, Induction
<1>4. PICK f : Solves(f, r, t, Len(r))
  BY <1>0, <1>3
<1>5. F(f)
  <2>1. \A n \in 1..Len(r) + 1 : ~(n + Len(r) <= Len(r))
    BY <1>0
  <2> QED
    BY <1>4, <2>1 DEF Solves
<1>6. F(h)
  <2> HIDE DEF F
  <2> QED
    BY <1>5
<1>7. MatchesFrom(r, t) = h
  BY Zenon DEF MatchesFrom, From
<1> HIDE DEF h
<1> QED
  BY <1>6, <1>7

\* The same, for each kind of byte.
LEMMA MatchesFromBytes ==
    ASSUME NEW r \in Seq(STRING), NEW t \in Seq(STRING)
    PROVE  LET M == MatchesFrom(r, t)
           IN  /\ M[Len(r) + 1] = {Len(t) + 1}
               /\ \A n \in 1..Len(r) :
                     /\ WildcardAt(r, n) > 0 =>
                           M[n] = {m \in 1..Len(t) + 1 :
                                      \E l \in M[n + WildcardAt(r, n)] : m <= l}
                     /\ WildcardAt(r, n) = 0 =>
                           M[n] = {m \in 1..Len(t) : r[n] = t[m] /\ m + 1 \in M[n + 1]}
               /\ \A n \in 1..Len(r) + 1 : M[n] \subseteq 1..Len(t) + 1
<1> DEFINE M == MatchesFrom(r, t)
<1>0. Len(r) \in Nat /\ Len(t) \in Nat
  OBVIOUS
<1>1. \A n \in 1..Len(r) + 1 : M[n] = From(r, t, M, n)
  BY MatchesFromIs
<1> HIDE DEF M
<1>2. M[Len(r) + 1] = {Len(t) + 1}
  <2>1. Len(r) + 1 \in 1..Len(r) + 1 /\ Len(r) + 1 > Len(r)
    BY <1>0
  <2>2. M[Len(r) + 1] = From(r, t, M, Len(r) + 1)
    BY <1>1, <2>1
  <2> QED
    BY <2>1, <2>2 DEF From
<1>3. ASSUME NEW n \in 1..Len(r)
      PROVE  /\ WildcardAt(r, n) > 0 =>
                   M[n] = {m \in 1..Len(t) + 1 : \E l \in M[n + WildcardAt(r, n)] : m <= l}
             /\ WildcardAt(r, n) = 0 =>
                   M[n] = {m \in 1..Len(t) : r[n] = t[m] /\ m + 1 \in M[n + 1]}
  <2>1. n \in 1..Len(r) + 1 /\ ~(n > Len(r))
    BY <1>0
  <2>2. M[n] = From(r, t, M, n)
    BY <1>1, <2>1
  <2>3. WildcardAt(r, n) = 0 => ~(WildcardAt(r, n) > 0)
    OBVIOUS
  <2> QED
    BY Zenon, <2>1, <2>2, <2>3 DEF From
<1>4. ASSUME NEW n \in 1..Len(r) + 1 PROVE M[n] \subseteq 1..Len(t) + 1
  <2>1. M[n] = From(r, t, M, n)
    BY <1>1
  <2>2. Len(t) + 1 \in 1..Len(t) + 1 /\ 1..Len(t) \subseteq 1..Len(t) + 1
    BY <1>0
  <2> QED
    BY <2>1, <2>2, Zenon DEF From
<1> QED
  BY <1>2, <1>3, <1>4 DEF M

----------------------------------------------------------------------------
(* Pieces and where they are in a name t.                                  *)

Chars == STRING
Strs == Seq(Chars)

\* s is in t behind the first p bytes.
At(t, p, s) == p + Len(s) <= Len(t) /\ \A j \in 1..Len(s) : t[p + j] = s[j]

\* q places the pieces ps, one after the other, the first one at the start of the
\* name unless it is free to be anywhere.
Placed(t, free, q, ps) ==
    /\ \A j \in 1..Len(ps) : At(t, q[j], ps[j])
    /\ \A j, k \in 1..Len(ps) : j < k => q[j] + Len(ps[j]) <= q[k]
    /\ ~free /\ ps # <<>> => q[1] = 0

EndOf(q, ps) == IF ps = <<>> THEN 0 ELSE q[Len(ps)] + Len(ps[Len(ps)])

\* Pieces that are placed match the name up to byte m: up to there and not beyond, or, after
\* a wildcard, up to there at most.
Reached(t, free, ps, open, m) ==
    \E q \in [Nat -> Nat] :
        /\ Placed(t, free, q, ps)
        /\ IF open THEN EndOf(q, ps) <= m - 1 ELSE EndOf(q, ps) = m - 1

LEMMA LenStr == \A s \in Strs : Len(s) \in Nat
  BY DEF Strs

LEMMA LastEnd ==
    ASSUME NEW q, NEW ps \in Seq(Strs), ps # <<>>
    PROVE  EndOf(q, ps) = q[Len(ps)] + Len(ps[Len(ps)])
  BY DEF EndOf

LEMMA EndType ==
    ASSUME NEW t \in Strs, NEW free, NEW q \in [Nat -> Nat], NEW ps \in Seq(Strs),
           Placed(t, free, q, ps)
    PROVE  EndOf(q, ps) \in 0..Len(t)
<1>0. Len(t) \in Nat
  BY LenStr
<1>1. CASE ps = <<>>
  BY <1>0, <1>1 DEF EndOf
<1>2. CASE ps # <<>>
  <2> DEFINE N == Len(ps)
             L == Len(ps[N])
  <2>1. N \in 1..N /\ N \in Nat /\ ps[N] \in Strs
    BY <1>2
  <2>2. At(t, q[N], ps[N])
    BY <2>1 DEF Placed
  <2>3. L \in Nat /\ q[N] \in Nat
    BY <2>1, LenStr
  <2>4. q[N] + L <= Len(t)
    BY <2>2 DEF At
  <2>5. EndOf(q, ps) = q[N] + L
    BY <1>2, LastEnd
  <2>6. PICK x \in Nat, y \in Nat, z \in Nat : x = q[N] /\ y = L /\ z = Len(t)
    BY <1>0, <2>3
  <2>7. x + y <= z /\ EndOf(q, ps) = x + y
    BY <2>4, <2>5, <2>6
  <2>8. x + y \in 0..z
    BY <2>7
  <2> QED
    BY <2>6, <2>7, <2>8
<1> QED
  BY <1>1, <1>2

\* The pieces ps and then the piece s, and where s is.
With(ps, s) == Append(ps, s)
After(q, ps) == q[Len(ps) + 1]
Follows(t, free, q, ps, s) ==
    /\ At(t, After(q, ps), s)
    /\ EndOf(q, ps) <= After(q, ps)
    /\ ps = <<>> /\ ~free => After(q, ps) = 0

LEMMA WithType ==
    ASSUME NEW q \in [Nat -> Nat], NEW ps \in Seq(Strs), NEW s \in Strs
    PROVE  With(ps, s) \in Seq(Strs) /\ After(q, ps) \in Nat
<1>1. Len(ps) + 1 \in Nat
  OBVIOUS
<1> QED
  BY <1>1, AppendProperties DEF With, After

LEMMA PlacedAppend ==
    ASSUME NEW t \in Strs, NEW free, NEW q \in [Nat -> Nat], NEW ps \in Seq(Strs),
           NEW s \in Strs
    PROVE  /\ Placed(t, free, q, With(ps, s)) <=>
                 Placed(t, free, q, ps) /\ Follows(t, free, q, ps, s)
           /\ EndOf(q, With(ps, s)) = After(q, ps) + Len(s)
<1> DEFINE a == Append(ps, s)
           N == Len(ps)
<1>0. /\ N \in Nat /\ Len(a) = N + 1 /\ a # <<>> /\ a[N + 1] = s
      /\ \A j \in 1..N : a[j] = ps[j] /\ Len(ps[j]) \in Nat
      /\ (ps = <<>> <=> N = 0)
      /\ \A j \in Nat : q[j] \in Nat
  <2>1. /\ N \in Nat /\ Len(a) = N + 1 /\ a # <<>> /\ a[N + 1] = s
        /\ \A j \in 1..N : a[j] = ps[j] /\ ps[j] \in Strs
        /\ (ps = <<>> <=> N = 0)
    <3>1. /\ N \in Nat /\ Len(a) = N + 1 /\ a # <<>> /\ a[N + 1] = s
          /\ \A j \in 1..N : a[j] = ps[j]
      BY AppendProperties
    <3>2. (\A j \in 1..N : ps[j] \in Strs) /\ (ps = <<>> <=> N = 0)
      OBVIOUS
    <3> QED
      BY <3>1, <3>2
  <2> QED
    BY <2>1, LenStr
<1>e. N # 0 => EndOf(q, ps) = q[N] + Len(ps[N])
  BY <1>0 DEF EndOf
<1>z. N = 0 => EndOf(q, ps) = 0
  BY <1>0 DEF EndOf
<1>1. EndOf(q, a) = q[N + 1] + Len(s)
  BY <1>0 DEF EndOf
<1>2. ASSUME Placed(t, free, q, a)
      PROVE  /\ Placed(t, free, q, ps)
             /\ At(t, q[N + 1], s)
             /\ EndOf(q, ps) <= q[N + 1]
             /\ ps = <<>> /\ ~free => q[1] = 0
  <2> HIDE DEF a, N
  <2>1. /\ \A j \in 1..(N + 1) : At(t, q[j], a[j])
        /\ \A j, k \in 1..(N + 1) : j < k => q[j] + Len(a[j]) <= q[k]
        /\ ~free => q[1] = 0
    BY <1>0, <1>2 DEF Placed
  <2>2. \A j \in 1..N : j \in 1..(N + 1) /\ j < N + 1
    BY <1>0
  <2>3. N + 1 \in 1..(N + 1)
    BY <1>0
  <2>4. Placed(t, free, q, ps)
    BY <1>0, <2>1, <2>2 DEF Placed, N
  <2>5. EndOf(q, ps) <= q[N + 1]
    <3>1. CASE N = 0
      BY <1>0, <1>z, <3>1
    <3>2. CASE N # 0
      <4>1. N \in 1..N
        BY <1>0, <3>2
      <4>2. q[N] + Len(a[N]) <= q[N + 1] /\ a[N] = ps[N]
        BY <1>0, <2>1, <2>2, <2>3, <4>1
      <4> QED
        BY <1>e, <3>2, <4>2
    <3> QED
      BY <3>1, <3>2
  <2> QED
    BY <1>0, <2>1, <2>3, <2>4, <2>5
<1>3. ASSUME Placed(t, free, q, ps), At(t, q[N + 1], s), EndOf(q, ps) <= q[N + 1],
             ps = <<>> /\ ~free => q[1] = 0
      PROVE  Placed(t, free, q, a)
  <2> HIDE DEF a, N
  <2>1. /\ \A j \in 1..N : At(t, q[j], ps[j])
        /\ \A j, k \in 1..N : j < k => q[j] + Len(ps[j]) <= q[k]
        /\ ~free /\ ps # <<>> => q[1] = 0
    BY <1>3 DEF Placed, N
  <2>2. ASSUME NEW j \in 1..N PROVE q[j] + Len(ps[j]) <= q[N + 1]
    <3>0. N \in 1..N /\ N # 0 /\ j \in Nat
      BY <1>0
    <3>1. EndOf(q, ps) = q[N] + Len(ps[N]) /\ q[N] \in Nat /\ Len(ps[N]) \in Nat
      BY <1>0, <1>e, <3>0
    <3>2. q[j] \in Nat /\ Len(ps[j]) \in Nat /\ q[N + 1] \in Nat
      BY <1>0, <3>0
    <3> DEFINE L == Len(ps[N])
               e == EndOf(q, ps)
    <3>5. q[N] <= q[N + 1]
      <4>1. PICK x \in Nat, y \in Nat, z \in Nat : x = q[N] /\ y = L /\ z = q[N + 1]
        BY <3>1, <3>2
      <4>2. x + y <= z
        BY <1>3, <3>1, <4>1
      <4>3. x <= z
        BY <4>2
      <4> QED
        BY <4>1, <4>3
    <3>3. CASE j = N
      BY <1>3, <3>1, <3>3
    <3>4. CASE j # N
      <4>1. j < N
        BY <1>0, <3>4
      <4>2. q[j] + Len(ps[j]) <= q[N]
        BY <2>1, <3>0, <4>1
      <4>3. PICK x \in Nat, y \in Nat, z \in Nat, w \in Nat :
               x = q[j] /\ y = Len(ps[j]) /\ z = q[N] /\ w = q[N + 1]
        BY <3>1, <3>2
      <4>4. x + y <= z /\ z <= w
        BY <3>5, <4>2, <4>3
      <4>5. x + y <= w
        BY <4>4
      <4> QED
        BY <4>3, <4>5
    <3> QED
      BY <3>3, <3>4
  <2>3. \A j \in 1..(N + 1) : j = N + 1 \/ j \in 1..N
    BY <1>0
  <2>4. \A j \in 1..(N + 1) : At(t, q[j], a[j])
    BY <1>0, <1>3, <2>1, <2>3
  <2>5. ASSUME NEW j \in 1..(N + 1), NEW k \in 1..(N + 1), j < k
        PROVE  q[j] + Len(a[j]) <= q[k]
    <3>1. j \in 1..N
      BY <1>0, <2>5
    <3>2. CASE k = N + 1
      BY <1>0, <2>2, <3>1, <3>2
    <3>3. CASE k # N + 1
      <4>1. k \in 1..N
        BY <2>3, <3>3
      <4> QED
        BY <1>0, <2>1, <2>5, <3>1, <4>1
    <3> QED
      BY <3>2, <3>3
  <2>6. ~free => q[1] = 0
    BY <1>3, <2>1
  <2> QED
    BY <1>0, <2>4, <2>5, <2>6 DEF Placed
<1>4. Placed(t, free, q, a) <=>
        /\ Placed(t, free, q, ps)
        /\ At(t, q[N + 1], s)
        /\ EndOf(q, ps) <= q[N + 1]
        /\ ps = <<>> /\ ~free => q[1] = 0
  <2> HIDE DEF a, N
  <2> QED
    BY <1>2, <1>3
<1>5. Follows(t, free, q, ps, s) <=>
        /\ At(t, q[N + 1], s)
        /\ EndOf(q, ps) <= q[N + 1]
        /\ ps = <<>> /\ ~free => q[1] = 0
  <2>1. ps = <<>> => q[N + 1] = q[1]
    BY <1>0
  <2> QED
    BY <2>1 DEF Follows, After
<1>6. a = With(ps, s) /\ After(q, ps) = q[N + 1]
  BY DEF With, After
<1> HIDE DEF a, N
<1> QED
  BY <1>1, <1>4, <1>5, <1>6

\* Where later pieces are does not matter.
Alike(q, p, ps) == \A j \in 1..Len(ps) : q[j] = p[j]

LEMMA PlacedSame ==
    ASSUME NEW t, NEW free, NEW q, NEW p, NEW ps \in Seq(Strs),
           Alike(q, p, ps), Placed(t, free, q, ps)
    PROVE  Placed(t, free, p, ps) /\ EndOf(p, ps) = EndOf(q, ps)
<1>0. Len(ps) \in Nat /\ (ps # <<>> => Len(ps) \in 1..Len(ps) /\ 1 \in 1..Len(ps))
  OBVIOUS
<1>1. EndOf(p, ps) = EndOf(q, ps)
  BY <1>0 DEF EndOf, Alike
<1>2. Placed(t, free, p, ps)
  BY <1>0 DEF Placed, Alike
<1> QED
  BY <1>1, <1>2

LEMMA PlacedNone ==
    ASSUME NEW t, NEW free, NEW q
    PROVE  Placed(t, free, q, <<>>) /\ EndOf(q, <<>>) = 0
<1>1. Len(<<>>) = 0
  OBVIOUS
<1> QED
  BY <1>1 DEF Placed, EndOf

LEMMA AppendIs ==
    ASSUME NEW S, NEW s \in Seq(S), NEW c \in S
    PROVE  /\ Append(s, c) \in Seq(S) /\ Len(Append(s, c)) = Len(s) + 1
           /\ Append(s, c)[Len(s) + 1] = c
           /\ \A j \in 1..Len(s) : Append(s, c)[j] = s[j]
  BY AppendProperties

\* One byte more.
LEMMA AtLonger ==
    ASSUME NEW t \in Strs, NEW p \in Nat, NEW s \in Strs, NEW c \in Chars
    PROVE  /\ At(t, p, Append(s, c)) <=>
                 At(t, p, s) /\ p + Len(s) + 1 <= Len(t) /\ t[p + Len(s) + 1] = c
           /\ Append(s, c) \in Strs /\ Len(Append(s, c)) = Len(s) + 1
<1> DEFINE a == Append(s, c)
           n == Len(s)
<1>0. /\ a \in Strs /\ Len(a) = n + 1 /\ n \in Nat /\ a[n + 1] = c
      /\ \A j \in 1..n : a[j] = s[j]
      /\ Len(t) \in Nat
  <2>0. s \in Seq(Chars)
    BY DEF Strs
  <2>1. /\ a \in Seq(Chars) /\ Len(a) = n + 1 /\ a[n + 1] = c
        /\ \A j \in 1..n : a[j] = s[j]
    BY <2>0, AppendIs
  <2>2. n \in Nat
    BY LenStr
  <2> QED
    BY <2>1, <2>2, LenStr DEF Strs
<1>1. \A j \in 1..(n + 1) : j \in 1..n \/ j = n + 1
  BY <1>0
<1>2. n + 1 \in 1..(n + 1) /\ \A j \in 1..n : j \in 1..(n + 1)
  BY <1>0
<1>3. p + (n + 1) = p + n + 1
  BY <1>0
<1> HIDE DEF a
<1>4. ASSUME At(t, p, a) PROVE At(t, p, s) /\ p + n + 1 <= Len(t) /\ t[p + n + 1] = c
  <2> HIDE DEF n
  <2>1. p + (n + 1) <= Len(t) /\ \A j \in 1..(n + 1) : t[p + j] = a[j]
    BY <1>0, <1>4 DEF At
  <2>2. t[p + (n + 1)] = c
    BY <1>0, <1>2, <2>1
  <2>3. \A j \in 1..n : t[p + j] = s[j]
    BY <1>0, <1>2, <2>1
  <2>4. p + n <= Len(t)
    BY <1>0, <2>1
  <2> QED
    BY <1>3, <2>1, <2>2, <2>3, <2>4 DEF At, n
<1>5. ASSUME At(t, p, s), p + n + 1 <= Len(t), t[p + n + 1] = c PROVE At(t, p, a)
  <2> HIDE DEF n
  <2>1. \A j \in 1..n : t[p + j] = s[j]
    BY <1>5 DEF At, n
  <2>2. \A j \in 1..(n + 1) : t[p + j] = a[j]
    BY <1>0, <1>1, <1>3, <1>5, <2>1
  <2> QED
    BY <1>0, <1>3, <1>5, <2>2 DEF At
<1> QED
  BY <1>0, <1>4, <1>5 DEF a

\* The places from which a byte c and then one of the places M match, and those
\* from which a wildcard and then one of M do.
ByteBefore(t, c, M) == {m \in 1..Len(t) : c = t[m] /\ m + 1 \in M}
WildBefore(t, M) == {m \in 1..Len(t) + 1 : \E l \in M : m <= l}

\* What has been placed and what may follow meet.
Meets(t, free, ps, open, M) == \E m \in M : Reached(t, free, ps, open, m)

\* A wildcard.
LEMMA MeetsWild ==
    ASSUME NEW t \in Strs, NEW free, NEW ps \in Seq(Strs), NEW open,
           NEW M \in SUBSET (1..Len(t) + 1)
    PROVE  Meets(t, free, ps, open, WildBefore(t, M)) <=> Meets(t, free, ps, TRUE, M)
<1> DEFINE T == Len(t)
<1>0. T \in Nat
  BY LenStr
<1>1. ASSUME Meets(t, free, ps, open, WildBefore(t, M)) PROVE Meets(t, free, ps, TRUE, M)
  <2>1. PICK m \in WildBefore(t, M) : Reached(t, free, ps, open, m)
    BY <1>1 DEF Meets
  <2>2. PICK q \in [Nat -> Nat] :
           /\ Placed(t, free, q, ps)
           /\ IF open THEN EndOf(q, ps) <= m - 1 ELSE EndOf(q, ps) = m - 1
    BY <2>1 DEF Reached
  <2>3. PICK l \in M : m <= l
    BY DEF WildBefore
  <2>4. EndOf(q, ps) \in 0..T
    BY <2>2, EndType
  <2>5. m \in Nat /\ l \in Nat
    BY <1>0 DEF WildBefore
  <2>6. PICK e \in Nat : e = EndOf(q, ps)
    BY <1>0, <2>4
  <2>7. e <= m - 1
    BY <2>2, <2>5, <2>6
  <2>8. EndOf(q, ps) <= l - 1
    BY <2>3, <2>5, <2>6, <2>7
  <2> QED
    BY <2>2, <2>8 DEF Meets, Reached
<1> HIDE DEF T
<1>2. ASSUME Meets(t, free, ps, TRUE, M) PROVE Meets(t, free, ps, open, WildBefore(t, M))
  <2>1. PICK l \in M : Reached(t, free, ps, TRUE, l)
    BY <1>2 DEF Meets
  <2>2. PICK q \in [Nat -> Nat] : Placed(t, free, q, ps) /\ EndOf(q, ps) <= l - 1
    BY <2>1 DEF Reached
  <2>3. EndOf(q, ps) \in 0..T
    BY <2>2, EndType DEF T
  <2>4. PICK e \in Nat : e = EndOf(q, ps) /\ e <= T
    BY <1>0, <2>3
  <2>5. l \in Nat /\ e <= l - 1
    BY <1>0, <2>2, <2>4 DEF T
  <2>6. PICK m \in Nat : m = e + 1
    BY <2>4
  <2>a. e <= T
    BY <2>4
  <2>7. m \in 1..T + 1 /\ m <= l /\ e = m - 1 /\ e <= m - 1
    BY <1>0, <2>5, <2>6, <2>a
  <2>8. m \in WildBefore(t, M)
    BY <2>7 DEF WildBefore, T
  <2>9. Reached(t, free, ps, open, m)
    BY <2>2, <2>4, <2>7 DEF Reached
  <2> QED
    BY <2>8, <2>9 DEF Meets
<1> QED
  BY <1>1, <1>2

\* One more byte of a piece.
LEMMA MeetsLonger ==
    ASSUME NEW t \in Strs, NEW free, NEW ps \in Seq(Strs), NEW b \in Strs, NEW c \in Chars,
           NEW M \in SUBSET (1..Len(t) + 1)
    PROVE  Meets(t, free, With(ps, b), FALSE, ByteBefore(t, c, M)) <=>
           Meets(t, free, With(ps, Append(b, c)), FALSE, M)
<1> DEFINE T == Len(t)
           L == Len(b)
           d == Append(b, c)
<1>0. T \in Nat /\ L \in Nat /\ d \in Strs /\ Len(d) = L + 1
  BY LenStr, AtLonger, 0 \in Nat
<1>1. ASSUME NEW q \in [Nat -> Nat]
      PROVE  \E x \in Nat :
                /\ Placed(t, free, q, With(ps, d)) <=>
                      Placed(t, free, q, With(ps, b)) /\ x + L + 1 <= T /\ t[x + L + 1] = c
                /\ EndOf(q, With(ps, b)) = x + L
                /\ EndOf(q, With(ps, d)) = x + L + 1
  <2> DEFINE x == After(q, ps)
  <2>1. x \in Nat
    BY WithType
  <2>2. /\ Placed(t, free, q, With(ps, d)) <=>
              Placed(t, free, q, ps) /\ Follows(t, free, q, ps, d)
        /\ EndOf(q, With(ps, d)) = x + Len(d)
    <3> HIDE DEF d
    <3> QED
      BY <1>0, PlacedAppend
  <2>3. /\ Placed(t, free, q, With(ps, b)) <=>
              Placed(t, free, q, ps) /\ Follows(t, free, q, ps, b)
        /\ EndOf(q, With(ps, b)) = x + L
    BY PlacedAppend
  <2>4. At(t, x, d) <=> At(t, x, b) /\ x + L + 1 <= T /\ t[x + L + 1] = c
    BY <2>1, AtLonger
  <2>5. Follows(t, free, q, ps, d) <=>
           Follows(t, free, q, ps, b) /\ x + L + 1 <= T /\ t[x + L + 1] = c
    <3> HIDE DEF d, T, L
    <3> QED
      BY <2>4 DEF Follows
  <2>6. x + Len(d) = x + L + 1
    <3> HIDE DEF d, T, L, x
    <3> QED
      BY <1>0, <2>1
  <2> HIDE DEF d, T, L, x
  <2> QED
    BY <2>1, <2>2, <2>3, <2>5, <2>6
<1> HIDE DEF d, T, L
<1>2. ASSUME Meets(t, free, With(ps, b), FALSE, ByteBefore(t, c, M))
      PROVE  Meets(t, free, With(ps, d), FALSE, M)
  <2>1. PICK m \in ByteBefore(t, c, M) : Reached(t, free, With(ps, b), FALSE, m)
    BY <1>2 DEF Meets
  <2>2. PICK q \in [Nat -> Nat] :
           Placed(t, free, q, With(ps, b)) /\ EndOf(q, With(ps, b)) = m - 1
    BY <2>1 DEF Reached
  <2>3. m \in 1..T /\ c = t[m] /\ m + 1 \in M
    BY DEF ByteBefore, T
  <2>4. PICK x \in Nat :
                /\ Placed(t, free, q, With(ps, d)) <=>
                      Placed(t, free, q, With(ps, b)) /\ x + L + 1 <= T /\ t[x + L + 1] = c
                /\ EndOf(q, With(ps, b)) = x + L
                /\ EndOf(q, With(ps, d)) = x + L + 1
    BY <1>1
  <2>5. x + L + 1 = m /\ m = m + 1 - 1 /\ m <= T
    BY <1>0, <2>2, <2>3, <2>4
  <2>6. Placed(t, free, q, With(ps, d)) /\ EndOf(q, With(ps, d)) = m + 1 - 1
    BY <2>2, <2>3, <2>4, <2>5
  <2>7. PICK l \in M : l = m + 1
    BY <2>3
  <2>8. EndOf(q, With(ps, d)) = l - 1
    BY <1>0, <2>3, <2>6, <2>7
  <2>9. Reached(t, free, With(ps, d), FALSE, l)
    BY <2>6, <2>8 DEF Reached
  <2> QED
    BY <2>9 DEF Meets
<1>3. ASSUME Meets(t, free, With(ps, d), FALSE, M)
      PROVE  Meets(t, free, With(ps, b), FALSE, ByteBefore(t, c, M))
  <2>1. PICK l \in M : Reached(t, free, With(ps, d), FALSE, l)
    BY <1>3 DEF Meets
  <2>2. PICK q \in [Nat -> Nat] :
           Placed(t, free, q, With(ps, d)) /\ EndOf(q, With(ps, d)) = l - 1
    BY <2>1 DEF Reached
  <2>3. l \in Nat
    BY <1>0 DEF T
  <2>4. PICK x \in Nat :
                /\ Placed(t, free, q, With(ps, d)) <=>
                      Placed(t, free, q, With(ps, b)) /\ x + L + 1 <= T /\ t[x + L + 1] = c
                /\ EndOf(q, With(ps, b)) = x + L
                /\ EndOf(q, With(ps, d)) = x + L + 1
    BY <1>1
  <2>5. PICK m \in Nat : m = x + L + 1
    BY <1>0
  <2>6. m = l - 1 /\ m \in 1..T /\ t[m] = c
    BY <1>0, <2>2, <2>4, <2>5
  <2>7. m + 1 = l /\ x + L = m - 1
    BY <1>0, <2>3, <2>5, <2>6
  <2>8. m \in ByteBefore(t, c, M)
    BY <2>6, <2>7 DEF ByteBefore, T
  <2>9. Reached(t, free, With(ps, b), FALSE, m)
    BY <2>2, <2>4, <2>7 DEF Reached
  <2> QED
    BY <2>8, <2>9 DEF Meets
<1> QED
  BY <1>2, <1>3 DEF d

\* The first byte of a piece, after a wildcard or at the start.
LEMMA MeetsFirst ==
    ASSUME NEW t \in Strs, NEW free, NEW ps \in Seq(Strs), NEW open, NEW c \in Chars,
           open <=> ~(ps = <<>> /\ ~free),
           NEW M \in SUBSET (1..Len(t) + 1)
    PROVE  Meets(t, free, ps, open, ByteBefore(t, c, M)) <=>
           Meets(t, free, With(ps, <<c>>), FALSE, M)
<1> DEFINE T == Len(t)
           N == Len(ps)
           d == <<c>>
<1>0. T \in Nat /\ N \in Nat /\ d \in Strs /\ Len(d) = 1 /\ d[1] = c
  BY LenStr DEF Strs
<1>z. (ps = <<>> <=> N = 0) /\ \A q : ps = <<>> => EndOf(q, ps) = 0
  BY DEF EndOf
<1>1. ASSUME NEW p \in Nat PROVE At(t, p, d) <=> p + 1 <= T /\ t[p + 1] = c
  <2>1. \A j \in 1..Len(d) : j = 1
    BY <1>0
  <2>2. 1 \in 1..Len(d)
    BY <1>0
  <2> HIDE DEF d
  <2> QED
    BY <1>0, <2>1, <2>2 DEF At
<1> HIDE DEF d, T
<1> DEFINE First(q, x) ==
              /\ x \in Nat
              /\ Placed(t, free, q, With(ps, d)) <=>
                    /\ Placed(t, free, q, ps)
                    /\ x + 1 <= T /\ t[x + 1] = c
                    /\ EndOf(q, ps) <= x
                    /\ ps = <<>> /\ ~free => x = 0
              /\ EndOf(q, With(ps, d)) = x + 1
<1>2. ASSUME NEW q \in [Nat -> Nat] PROVE First(q, After(q, ps))
  <2>0. PICK x \in Nat : x = After(q, ps)
    BY WithType
  <2>2. /\ Placed(t, free, q, With(ps, d)) <=>
              Placed(t, free, q, ps) /\ Follows(t, free, q, ps, d)
        /\ EndOf(q, With(ps, d)) = x + Len(d)
    BY <1>0, <2>0, PlacedAppend
  <2>3. At(t, x, d) <=> x + 1 <= T /\ t[x + 1] = c
    BY <1>1
  <2> HIDE DEF N
  <2>4. First(q, x)
    BY <1>0, <2>0, <2>2, <2>3 DEF Follows
  <2> HIDE DEF First
  <2> QED
    BY <2>0, <2>4
<1> HIDE DEF First
<1>3. ASSUME Meets(t, free, ps, open, ByteBefore(t, c, M))
      PROVE  Meets(t, free, With(ps, d), FALSE, M)
  <2>1. PICK m \in ByteBefore(t, c, M) : Reached(t, free, ps, open, m)
    BY <1>3 DEF Meets
  <2>2. PICK q \in [Nat -> Nat] :
           /\ Placed(t, free, q, ps)
           /\ IF open THEN EndOf(q, ps) <= m - 1 ELSE EndOf(q, ps) = m - 1
    BY <2>1 DEF Reached
  <2>3. m \in 1..T /\ c = t[m] /\ m + 1 \in M
    BY DEF ByteBefore, T
  <2>4. EndOf(q, ps) \in 0..T
    BY <2>2, EndType DEF T
  <2>p. PICK p : p = [q EXCEPT ![N + 1] = m - 1]
    OBVIOUS
  <2>5. /\ p \in [Nat -> Nat] /\ p[N + 1] = m - 1 /\ \A j \in 1..N : q[j] = p[j]
        /\ m - 1 + 1 = m /\ m + 1 - 1 = m /\ EndOf(q, ps) <= m - 1
    <3>1. m - 1 \in Nat /\ N + 1 \in Nat /\ m - 1 + 1 = m /\ m + 1 - 1 = m
      BY <1>0, <2>3
    <3>2. \A j \in 1..N : j \in Nat /\ j # N + 1
      BY <1>0
    <3>3. EndOf(q, ps) <= m - 1
      <4>1. PICK e \in Nat : e = EndOf(q, ps)
        BY <1>0, <2>4
      <4> QED
        BY <2>2, <3>1, <4>1
    <3> QED
      BY <2>p, <3>1, <3>2, <3>3
  <2>6. Placed(t, free, p, ps) /\ EndOf(p, ps) = EndOf(q, ps)
    <3>1. Alike(q, p, ps)
      BY <2>5 DEF Alike
    <3>2. Placed(t, free, q, ps)
      BY <2>2
    <3> QED
      BY <3>1, <3>2, PlacedSame
  <2>7. PICK x : x = After(p, ps) /\ x = m - 1
    BY <2>5 DEF After
  <2>8. ps = <<>> /\ ~free => x = 0
    BY <1>z, <2>2, <2>7
  <2>9. Placed(t, free, p, With(ps, d)) /\ EndOf(p, With(ps, d)) = m + 1 - 1
    <3>1. x + 1 = m /\ m <= T /\ t[m] = c /\ EndOf(p, ps) <= x
      BY <1>0, <2>3, <2>5, <2>6, <2>7
    <3>2. First(p, x)
      BY <1>2, <2>5, <2>7
    <3> HIDE DEF N
    <3> QED
      BY <2>5, <2>6, <2>8, <3>1, <3>2 DEF First
  <2>a. PICK l \in M : l = m + 1
    BY <2>3
  <2>c. EndOf(p, With(ps, d)) = l - 1
    BY <1>0, <2>3, <2>9, <2>a
  <2>b. Reached(t, free, With(ps, d), FALSE, l)
    BY <2>5, <2>9, <2>c DEF Reached
  <2> QED
    BY <2>b DEF Meets
<1>4. ASSUME Meets(t, free, With(ps, d), FALSE, M)
      PROVE  Meets(t, free, ps, open, ByteBefore(t, c, M))
  <2>1. PICK l \in M : Reached(t, free, With(ps, d), FALSE, l)
    BY <1>4 DEF Meets
  <2>2. PICK q \in [Nat -> Nat] :
           Placed(t, free, q, With(ps, d)) /\ EndOf(q, With(ps, d)) = l - 1
    BY <2>1 DEF Reached
  <2>3. PICK x : x = After(q, ps)
    OBVIOUS
  <2>4. /\ x \in Nat
        /\ Placed(t, free, q, ps)
        /\ x + 1 <= T /\ t[x + 1] = c
        /\ EndOf(q, ps) <= x
        /\ ps = <<>> /\ ~free => x = 0
        /\ x + 1 = l - 1
    <3>1. First(q, x)
      BY <1>2, <2>3
    <3> QED
      BY <2>2, <3>1 DEF First
  <2>5. PICK m \in Nat : m = x + 1
    BY <2>4
  <2>6. l \in Nat
    BY <1>0 DEF T
  <2>7. m \in 1..T /\ m + 1 = l /\ m - 1 = x
    BY <1>0, <2>4, <2>5, <2>6
  <2>8. m \in ByteBefore(t, c, M)
    BY <2>4, <2>5, <2>7 DEF ByteBefore, T
  <2>9. ~open => EndOf(q, ps) = x
    BY <1>z, <2>4
  <2>a. Reached(t, free, ps, open, m)
    BY <2>4, <2>7, <2>9 DEF Reached
  <2> QED
    BY <2>8, <2>a DEF Meets
<1> QED
  BY <1>3, <1>4 DEF d

----------------------------------------------------------------------------
(* Pieces in a part of the name.                                           *)

LEMMA AtSubSeq ==
    ASSUME NEW t \in Strs, NEW s \in Strs, NEW p \in Nat, p + Len(s) <= Len(t)
    PROVE  At(t, p, s) <=> SubSeq(t, p + 1, p + Len(s)) = s
<1> DEFINE L == Len(s)
           u == SubSeq(t, p + 1, p + L)
<1>0. L \in Nat /\ Len(t) \in Nat /\ t \in Seq(Chars) /\ s \in Seq(Chars)
  BY LenStr DEF Strs
<1>1. u \in Seq(Chars) /\ Len(u) = L /\ \A j \in 1..L : u[j] = t[p + j]
  <2>1. p + 1 \in 1..Len(t) + 1 /\ p + L \in p..Len(t)
    BY <1>0
  <2>2. u = [j \in 1..p + L - (p + 1) + 1 |-> t[p + 1 + j - 1]]
    BY <1>0 DEF SubSeq
  <2>3. p + L - (p + 1) + 1 = L
    BY <1>0
  <2>4. \A j \in 1..L : p + 1 + j - 1 = p + j /\ p + j \in 1..Len(t)
    BY <1>0
  <2>5. u = [j \in 1..L |-> t[p + 1 + j - 1]]
    BY <2>2, <2>3
  <2>6. \A j \in 1..L : u[j] = t[p + j] /\ t[p + j] \in Chars
    <3> TAKE j \in 1..L
    <3>1. t[p + j] \in Chars
      BY <1>0, <2>4
    <3>2. p + 1 + j - 1 = p + j
      BY <2>4
    <3> HIDE DEF L, u
    <3>3. u[j] = t[p + 1 + j - 1]
      BY <2>5
    <3> QED
      BY <3>1, <3>2, <3>3
  <2>7. DOMAIN u = 1..L
    BY <2>5
  <2> HIDE DEF u
  <2>8. u = [j \in 1..L |-> t[p + j]]
    BY <2>5, <2>6, <2>7
  <2> HIDE DEF L
  <2>9. u \in Seq(Chars)
    BY <1>0, <2>6, <2>8
  <2> QED
    BY <1>0, <2>6, <2>7, <2>9
<1> HIDE DEF u
<1>2. ASSUME At(t, p, s) PROVE u = s
  <2>1. \A j \in 1..L : u[j] = s[j]
    BY <1>1, <1>2 DEF At
  <2> QED
    BY <1>0, <1>1, <2>1
<1>3. ASSUME u = s PROVE At(t, p, s)
  BY <1>1, <1>3 DEF At
<1> QED
  BY <1>2, <1>3 DEF u

LEMMA PrefixAt ==
    ASSUME NEW t \in Strs, NEW s \in Strs
    PROVE  IsPrefix(s, t) <=> At(t, 0, s)
<1>0. Len(s) \in Nat /\ Len(t) \in Nat
  BY LenStr
<1>1. SubSeq(s, 1, Len(s)) = s
  <2>1. At(s, 0, s)
    BY <1>0 DEF At
  <2> QED
    BY <1>0, <2>1, AtSubSeq
<1>2. Len(s) <= Len(t) => (At(t, 0, s) <=> SubSeq(t, 1, Len(s)) = s)
  <2>1. ASSUME Len(s) <= Len(t) PROVE At(t, 0, s) <=> SubSeq(t, 0 + 1, 0 + Len(s)) = s
    BY <1>0, <2>1, AtSubSeq
  <2> QED
    BY <1>0, <2>1
<1>3. At(t, 0, s) => Len(s) <= Len(t)
  BY <1>0 DEF At
<1> QED
  BY <1>1, <1>2, <1>3 DEF IsPrefix

LEMMA ReverseIs ==
    ASSUME NEW s \in Strs
    PROVE  /\ Reverse(s) \in Strs /\ Len(Reverse(s)) = Len(s)
           /\ \A j \in 1..Len(s) : Reverse(s)[j] = s[Len(s) - j + 1]
<1>0. Len(s) \in Nat /\ s \in Seq(Chars)
  BY LenStr DEF Strs
<1>1. \A j \in 1..Len(s) : Len(s) - j + 1 \in 1..Len(s)
  BY <1>0
<1> QED
  BY <1>0, <1>1 DEF Reverse, Strs

LEMMA SuffixAt ==
    ASSUME NEW t \in Strs, NEW s \in Strs
    PROVE  IsSuffix(s, t) <=> Len(s) <= Len(t) /\ At(t, Len(t) - Len(s), s)
<1> DEFINE L == Len(s)
           T == Len(t)
<1>0. L \in Nat /\ T \in Nat
  BY LenStr
<1>1. IsSuffix(s, t) <=> At(Reverse(t), 0, Reverse(s))
  BY ReverseIs, PrefixAt DEF IsSuffix
<1>2. At(Reverse(t), 0, Reverse(s)) <=>
         L <= T /\ \A j \in 1..L : t[T - j + 1] = s[L - j + 1]
  <2>1. Len(Reverse(s)) = L /\ Len(Reverse(t)) = T
    BY ReverseIs
  <2>2. \A j \in 1..L : Reverse(s)[j] = s[L - j + 1]
    BY ReverseIs
  <2>3. L <= T => \A j \in 1..L : 0 + j \in 1..T /\ 0 + j = j
    BY <1>0
  <2>4. L <= T => \A j \in 1..L : Reverse(t)[0 + j] = t[T - j + 1]
    BY <2>3, ReverseIs
  <2> HIDE DEF L, T
  <2> QED
    BY <1>0, <2>1, <2>2, <2>4 DEF At
<1>3. L <= T => ((\A j \in 1..L : t[T - j + 1] = s[L - j + 1]) <=>
                 (\A j \in 1..L : t[T - L + j] = s[j]))
  <2> HIDE DEF L, T
  <2> SUFFICES ASSUME L <= T
               PROVE  (\A j \in 1..L : t[T - j + 1] = s[L - j + 1]) <=>
                      (\A j \in 1..L : t[T - L + j] = s[j])
    OBVIOUS
  <2>1. ASSUME \A j \in 1..L : t[T - j + 1] = s[L - j + 1], NEW j \in 1..L
        PROVE  t[T - L + j] = s[j]
    <3>1. PICK k \in 1..L : k = L - j + 1
      BY <1>0
    <3>2. T - k + 1 = T - L + j /\ L - k + 1 = j
      BY <1>0, <3>1
    <3>3. t[T - k + 1] = s[L - k + 1]
      BY <2>1
    <3> QED
      BY <3>2, <3>3
  <2>2. ASSUME \A j \in 1..L : t[T - L + j] = s[j], NEW j \in 1..L
        PROVE  t[T - j + 1] = s[L - j + 1]
    <3>1. PICK k \in 1..L : k = L - j + 1
      BY <1>0
    <3>2. T - j + 1 = T - L + k
      BY <1>0, <3>1
    <3>3. t[T - L + k] = s[k]
      BY <2>2
    <3> QED
      BY <3>1, <3>2, <3>3
  <2> QED
    BY <2>1, <2>2
<1>4. L <= T => (At(t, T - L, s) <=> \A j \in 1..L : t[T - L + j] = s[j])
  <2>1. T - L + L <= T
    BY <1>0
  <2> HIDE DEF T
  <2> QED
    BY <2>1 DEF At, T
<1> QED
  BY <1>1, <1>2, <1>3, <1>4

\* q places the pieces from the a-th to the b-th between the bytes lo and hi.
Lies(t, q, ps, a, b, lo, hi) ==
    /\ \A j \in a..b : At(t, q[j], ps[j]) /\ lo <= q[j] /\ q[j] + Len(ps[j]) <= hi
    /\ \A j, k \in a..b : j < k => q[j] + Len(ps[j]) <= q[k]

Fits(t, ps, a, b, lo, hi) == \E q \in [Nat -> Nat] : Lies(t, q, ps, a, b, lo, hi)

\* Where the piece s may be.
PlacesOf(t, s, lo, hi) == {p \in lo..hi - Len(s) : At(t, p, s)}

LEMMA FitsNone ==
    ASSUME NEW t, NEW ps, NEW a \in Nat, NEW b \in Int, a > b, NEW lo, NEW hi
    PROVE  Fits(t, ps, a, b, lo, hi)
<1>1. a..b = {}
  OBVIOUS
<1>2. [j \in Nat |-> 0] \in [Nat -> Nat]
  OBVIOUS
<1>3. Lies(t, [j \in Nat |-> 0], ps, a, b, lo, hi)
  BY <1>1 DEF Lies
<1> QED
  BY <1>2, <1>3 DEF Fits

LEMMA FitsNowhere ==
    ASSUME NEW t \in Strs, NEW ps \in Seq(Strs), NEW a \in Nat, NEW b \in Nat,
           1 <= a, a <= b, b <= Len(ps), NEW lo \in Nat, NEW hi \in Nat,
           Fits(t, ps, a, b, lo, hi)
    PROVE  PlacesOf(t, ps[a], lo, hi) # {}
<1>1. PICK q \in [Nat -> Nat] : Lies(t, q, ps, a, b, lo, hi)
  BY DEF Fits
<1>2. a \in a..b /\ ps[a] \in Strs
  OBVIOUS
<1>3. PICK L \in Nat : L = Len(ps[a])
  BY <1>2, LenStr
<1>4. PICK x \in Nat : x = q[a]
  OBVIOUS
<1>5. At(t, x, ps[a]) /\ lo <= x /\ x + L <= hi
  BY <1>1, <1>2, <1>3, <1>4 DEF Lies
<1>6. x \in lo..hi - L
  BY <1>5
<1> QED
  BY <1>3, <1>5, <1>6 DEF PlacesOf

\* The first place for a piece leaves the most for the others.
LEMMA FitsFirst ==
    ASSUME NEW t \in Strs, NEW ps \in Seq(Strs), NEW a \in Nat, NEW b \in Nat,
           1 <= a, a <= b, b <= Len(ps), NEW lo \in Nat, NEW hi \in Nat,
           NEW p \in PlacesOf(t, ps[a], lo, hi),
           \A x \in PlacesOf(t, ps[a], lo, hi) : p <= x
    PROVE  Fits(t, ps, a, b, lo, hi) <=> Fits(t, ps, a + 1, b, p + Len(ps[a]), hi)
<1>1. \A j \in a..b : ps[j] \in Strs /\ Len(ps[j]) \in Nat /\ j \in Nat
  <2>1. \A j \in a..b : ps[j] \in Strs /\ j \in Nat
    OBVIOUS
  <2> QED
    BY <2>1, LenStr
<1>2. a \in a..b /\ \A j \in a..b : j = a \/ (j \in a + 1..b /\ a < j)
  OBVIOUS
<1>3. \A j \in a + 1..b : j \in a..b /\ a < j /\ j # a
  OBVIOUS
<1>4. PICK L \in Nat : L = Len(ps[a])
  BY <1>1, <1>2
<1>5. p \in Nat /\ lo <= p /\ p + L <= hi /\ At(t, p, ps[a])
  <2>1. p \in lo..hi - L /\ At(t, p, ps[a])
    BY <1>4 DEF PlacesOf
  <2> QED
    BY <2>1
<1>6. ASSUME Fits(t, ps, a, b, lo, hi) PROVE Fits(t, ps, a + 1, b, p + L, hi)
  <2>1. PICK q \in [Nat -> Nat] : Lies(t, q, ps, a, b, lo, hi)
    BY <1>6 DEF Fits
  <2>2. PICK x \in Nat : x = q[a]
    OBVIOUS
  <2>3. At(t, x, ps[a]) /\ lo <= x /\ x + L <= hi
    BY <1>2, <1>4, <2>1, <2>2 DEF Lies
  <2>4. x \in PlacesOf(t, ps[a], lo, hi)
    BY <1>4, <2>3 DEF PlacesOf
  <2>5. p <= x
    BY <2>4
  <2>6. ASSUME NEW j \in a + 1..b PROVE p + L <= q[j]
    <3>1. q[a] + Len(ps[a]) <= q[j]
      BY <1>2, <1>3, <2>1 DEF Lies
    <3>2. PICK y \in Nat : y = q[j]
      BY <1>1, <1>3
    <3>3. x + L <= y
      BY <1>4, <2>2, <3>1, <3>2
    <3>4. p + L <= y
      BY <1>5, <2>5, <3>3
    <3> QED
      BY <3>2, <3>4
  <2>7. Lies(t, q, ps, a + 1, b, p + L, hi)
    BY <1>3, <2>1, <2>6 DEF Lies
  <2> QED
    BY <2>7 DEF Fits
<1>7. ASSUME Fits(t, ps, a + 1, b, p + L, hi) PROVE Fits(t, ps, a, b, lo, hi)
  <2>1. PICK q \in [Nat -> Nat] : Lies(t, q, ps, a + 1, b, p + L, hi)
    BY <1>7 DEF Fits
  <2>2. PICK r : r = [q EXCEPT ![a] = p]
    OBVIOUS
  <2>3. r \in [Nat -> Nat] /\ r[a] = p /\ \A j \in a + 1..b : r[j] = q[j] /\ q[j] \in Nat
    BY <1>1, <1>3, <1>5, <2>2
  <2>4. \A j \in a + 1..b : At(t, r[j], ps[j]) /\ p + L <= r[j] /\ r[j] + Len(ps[j]) <= hi
    BY <2>1, <2>3 DEF Lies
  <2>5. \A j, k \in a + 1..b : j < k => r[j] + Len(ps[j]) <= r[k]
    BY <2>1, <2>3 DEF Lies
  <2>6. ASSUME NEW j \in a + 1..b PROVE lo <= r[j]
    <3>1. PICK y \in Nat : y = r[j]
      BY <2>3
    <3>2. p + L <= y
      BY <2>4, <3>1
    <3>3. lo <= y
      BY <1>5, <3>2
    <3> QED
      BY <3>1, <3>3
  <2>7. \A j \in a..b : At(t, r[j], ps[j]) /\ lo <= r[j] /\ r[j] + Len(ps[j]) <= hi
    BY <1>2, <1>4, <1>5, <2>3, <2>4, <2>6
  <2>8. ASSUME NEW j \in a..b, NEW k \in a..b, j < k PROVE r[j] + Len(ps[j]) <= r[k]
    <3>1. k \in a + 1..b
      BY <2>8
    <3>2. CASE j = a
      BY <1>4, <2>3, <2>4, <3>1, <3>2
    <3>3. CASE j # a
      BY <1>2, <2>5, <2>8, <3>1, <3>3
    <3> QED
      BY <3>2, <3>3
  <2>9. Lies(t, r, ps, a, b, lo, hi)
    BY <2>7, <2>8 DEF Lies
  <2> QED
    BY <2>3, <2>9 DEF Fits
<1> QED
  BY <1>4, <1>6, <1>7

LEMMA Minus == \A x, y, z \in Nat : x <= y - z => y - z \in Nat
  OBVIOUS

\* A and Z are the lengths of the pieces at the ends, if no wildcard is there, and the
\* others are those from the a-th to the b-th.
Anchors(free, ps, open, a, b, A, Z) ==
    /\ ps # <<>>
    /\ ~free /\ ~open => Len(ps) >= 2
    /\ A = (IF free THEN 0 ELSE Len(ps[1]))
    /\ Z = (IF open THEN 0 ELSE Len(ps[Len(ps)]))
    /\ a = (IF free THEN 1 ELSE 2)
    /\ b = (IF open THEN Len(ps) ELSE Len(ps) - 1)

EndsFit(t, free, ps, open, a, b, A, Z) ==
    /\ free \/ At(t, 0, ps[1])
    /\ open \/ (Z <= Len(t) /\ At(t, Len(t) - Z, ps[Len(ps)]))
    /\ A <= Len(t) - Z
    /\ Fits(t, ps, a, b, A, Len(t) - Z)

\* The pieces at the ends are where they must be, and the others between them.
LEMMA EndsMeet ==
    ASSUME NEW t \in Strs, NEW free \in BOOLEAN, NEW open \in BOOLEAN,
           NEW ps \in Seq(Strs), NEW a, NEW b, NEW A, NEW Z,
           Anchors(free, ps, open, a, b, A, Z)
    PROVE  Meets(t, free, ps, open, {Len(t) + 1}) <=> EndsFit(t, free, ps, open, a, b, A, Z)
<1> DEFINE N == Len(ps)
           T == Len(t)
<1>0. N \in Nat /\ N >= 1 /\ T \in Nat /\ A \in Nat /\ Z \in Nat /\ b \in Nat /\ a \in Nat
  <2>1. N \in Nat /\ N >= 1 /\ ps[1] \in Strs /\ ps[N] \in Strs
    BY DEF Anchors
  <2> HIDE DEF N
  <2>2. Len(ps[1]) \in Nat /\ Len(ps[N]) \in Nat /\ T \in Nat
    BY <2>1, LenStr
  <2> QED
    BY <2>1, <2>2 DEF N, Anchors
<1>1. \A j \in 1..N : Len(ps[j]) \in Nat /\ j \in Nat
  <2>1. \A j \in 1..N : ps[j] \in Strs /\ j \in Nat
    OBVIOUS
  <2> QED
    BY <2>1, LenStr
<1>c. (~free => A = Len(ps[1])) /\ (~open => Z = Len(ps[N]))
  BY DEF Anchors
<1>d. (free => A = 0 /\ a = 1) /\ (~free => a = 2) /\ (open => Z = 0 /\ b = N) /\ (~open => b = N - 1)
  BY DEF Anchors
<1>e. ~free /\ ~open => N >= 2
  BY DEF Anchors
<1>h. a = (IF free THEN 1 ELSE 2) /\ b = (IF open THEN N ELSE N - 1)
  BY DEF Anchors
<1> DEFINE Right ==
              /\ free \/ At(t, 0, ps[1])
              /\ open \/ (Z <= T /\ At(t, T - Z, ps[N]))
              /\ A <= T - Z
              /\ Fits(t, ps, a, b, A, T - Z)
<1>E. ps # <<>> /\ \A q : EndOf(q, ps) = q[N] + Len(ps[N])
  BY LastEnd DEF Anchors
<1> HIDE DEF N, T
<1>2. ASSUME Meets(t, free, ps, open, {T + 1}) PROVE Right
  <2>m. PICK m : m = T + 1 /\ Reached(t, free, ps, open, m)
    BY <1>2 DEF Meets
  <2>n. m - 1 = T
    BY <1>0, <2>m
  <2>1. PICK q \in [Nat -> Nat] :
           Placed(t, free, q, ps) /\ IF open THEN EndOf(q, ps) <= T ELSE EndOf(q, ps) = T
    BY <2>m, <2>n DEF Reached
  <2>2. /\ \A j \in 1..N : At(t, q[j], ps[j])
        /\ \A j, k \in 1..N : j < k => q[j] + Len(ps[j]) <= q[k]
        /\ ~free => q[1] = 0
    BY <1>E, <2>1 DEF Placed, N
  <2>3. \A j \in 1..N : q[j] + Len(ps[j]) <= T /\ q[j] \in Nat
    BY <1>1, <2>2 DEF At, T
  <2>4. ASSUME ~open PROVE q[N] = T - Z /\ q[N] + Z = T /\ Z <= T
    <3>1. PICK x \in Nat : x = q[N]
      BY <1>0
    <3>2. x + Z = T
      BY <1>E, <1>c, <2>1, <2>4, <3>1
    <3>3. x = T - Z /\ x + Z = T /\ Z <= T
      BY <1>0, <3>2
    <3> QED
      BY <3>1, <3>3
  <2>5. free \/ At(t, 0, ps[1])
    BY <1>0, <2>2
  <2>6. open \/ (Z <= T /\ At(t, T - Z, ps[N]))
    <3>1. N \in 1..N
      BY <1>0
    <3> QED
      BY <2>2, <2>4, <3>1
  <2>7. A <= T - Z
    <3>1. CASE free /\ open
      BY <1>0, <1>d, <3>1
    <3>2. CASE free /\ ~open
      BY <1>0, <1>d, <2>4, <3>2
    <3>3. CASE ~free /\ open
      <4>1. q[1] + A <= T /\ q[1] = 0
        BY <1>0, <1>c, <2>2, <2>3, <3>3
      <4> QED
        BY <1>0, <1>d, <3>3, <4>1
    <3>4. CASE ~free /\ ~open
      <4>1. 1 \in 1..N /\ N \in 1..N /\ 1 < N
        BY <1>0, <1>e, <3>4
      <4>2. q[1] + A <= q[N] /\ q[1] = 0
        BY <1>c, <2>2, <3>4, <4>1
      <4>3. A <= q[N]
        BY <1>0, <4>2
      <4> QED
        BY <2>4, <3>4, <4>3
    <3> QED
      BY <3>1, <3>2, <3>3, <3>4
  <2>8. \A j \in a..b : j \in 1..N
    BY <1>0, <1>h
  <2>9. \A j \in a..b : A <= q[j]
    <3>1. CASE free
      BY <1>d, <2>3, <2>8, <3>1
    <3>2. CASE ~free
      <4> TAKE j \in a..b
      <4>1. 1 \in 1..N /\ 1 < j /\ j \in 1..N
        BY <1>0, <1>h, <2>8, <3>2
      <4>2. q[1] + A <= q[j] /\ q[1] = 0
        BY <1>c, <2>2, <3>2, <4>1
      <4> QED
        BY <1>0, <4>2
    <3> QED
      BY <3>1, <3>2
  <2>a. \A j \in a..b : q[j] + Len(ps[j]) <= T - Z
    <3>1. CASE open
      <4>1. T - Z = T
        BY <1>0, <1>d, <3>1
      <4> QED
        BY <2>3, <2>8, <4>1
    <3>2. CASE ~open
      <4> TAKE j \in a..b
      <4>1. N \in 1..N /\ j < N /\ j \in 1..N
        BY <1>0, <1>h, <2>8, <3>2
      <4>2. q[j] + Len(ps[j]) <= q[N]
        BY <2>2, <4>1
      <4> QED
        BY <2>4, <3>2, <4>2
    <3> QED
      BY <3>1, <3>2
  <2>b. Lies(t, q, ps, a, b, A, T - Z)
    BY <2>2, <2>8, <2>9, <2>a DEF Lies
  <2> QED
    BY <2>5, <2>6, <2>7, <2>b DEF Fits
<1>3. ASSUME Right PROVE Meets(t, free, ps, open, {T + 1})
  <2>1. PICK q \in [Nat -> Nat] : Lies(t, q, ps, a, b, A, T - Z)
    BY <1>3 DEF Fits
  <2>2. PICK W \in Nat : W = T - Z
    <3>1. A <= T - Z
      BY <1>3
    <3>2. T - Z \in Nat
      BY <1>0, <3>1, Minus, Zenon
    <3> QED
      BY <3>2, Zenon
  <2> DEFINE At1(j) == ~free /\ j = 1
             AtN(j) == ~open /\ j = N
             r == [j \in Nat |-> IF At1(j) THEN 0 ELSE IF AtN(j) THEN W ELSE q[j]]
  <2>3. r \in [Nat -> Nat]
    BY <2>2
  <2>4. \A j \in 1..N : \/ At1(j) /\ ~AtN(j) /\ r[j] = 0
                        \/ AtN(j) /\ ~At1(j) /\ r[j] = W
                        \/ j \in a..b /\ ~At1(j) /\ ~AtN(j) /\ r[j] = q[j]
    <3> TAKE j \in 1..N
    <3>1. CASE At1(j)
      BY <1>0, <1>e, <3>1
    <3>2. CASE AtN(j) /\ ~At1(j)
      BY <1>0, <3>2
    <3>3. CASE ~AtN(j) /\ ~At1(j)
      <4>1. j \in a..b
        BY <1>0, <1>h, <3>3
      <4>2. r[j] = q[j]
        BY <3>3
      <4> QED
        BY <3>3, <4>1, <4>2
    <3> QED
      BY <3>1, <3>2, <3>3
  <2>5. /\ \A j \in a..b : At(t, q[j], ps[j]) /\ A <= q[j] /\ q[j] + Len(ps[j]) <= W
        /\ \A j, k \in a..b : j < k => q[j] + Len(ps[j]) <= q[k]
    BY <2>1, <2>2 DEF Lies
  <2>6. /\ ~free => At(t, 0, ps[1]) /\ r[1] = 0
        /\ ~open => At(t, W, ps[N]) /\ W + Z = T
        /\ A <= W
    <3>1. r[1] = 0 \/ free
      OBVIOUS
    <3>2. open \/ W + Z = T
      BY <1>0, <2>2
    <3> HIDE DEF r
    <3>3. /\ free \/ At(t, 0, ps[1])
          /\ open \/ (Z <= T /\ At(t, W, ps[N]))
          /\ A <= W
      BY <1>3, <2>2
    <3> QED
      BY <3>1, <3>2, <3>3
  <2> HIDE DEF r
  <2>7. ASSUME NEW j \in 1..N PROVE At(t, r[j], ps[j])
    BY <2>4, <2>5, <2>6
  <2>8. ASSUME NEW j \in 1..N, NEW k \in 1..N, j < k PROVE r[j] + Len(ps[j]) <= r[k]
    <3>1. ~At1(k) /\ ~AtN(j)
      <4>1. j \in Nat /\ k \in Nat /\ 1 <= j /\ k <= N /\ j < k
        BY <1>0, <2>8
      <4>2. \A x, y, z \in Nat : 1 <= x /\ x < y /\ y <= z => y # 1 /\ x # z
        OBVIOUS
      <4>3. k # 1 /\ j # N
        BY <1>0, <4>1, <4>2
      <4> QED
        BY <4>3
    <3>2. CASE At1(j)
      <4>1. r[j] = 0 /\ Len(ps[j]) = A
        BY <1>c, <2>4, <3>2
      <4>2. A <= r[k]
        BY <2>4, <2>5, <2>6, <3>1
      <4> QED
        BY <1>0, <4>1, <4>2
    <3>3. CASE ~At1(j)
      <4>1. j \in a..b /\ r[j] = q[j]
        BY <2>4, <3>1, <3>3
      <4>2. CASE AtN(k)
        BY <2>4, <2>5, <4>1, <4>2
      <4>3. CASE ~AtN(k)
        <5>1. k \in a..b /\ r[k] = q[k]
          BY <2>4, <3>1, <4>3
        <5> QED
          BY <2>5, <2>8, <4>1, <5>1
      <4> QED
        BY <4>2, <4>3
    <3> QED
      BY <3>2, <3>3
  <2>9. Placed(t, free, r, ps)
    BY <2>6, <2>7, <2>8 DEF Placed, N
  <2>b. IF open THEN EndOf(r, ps) <= T ELSE EndOf(r, ps) = T
    <3>1. N \in 1..N
      BY <1>0
    <3>2. CASE open
      <4>1. r[N] + Len(ps[N]) <= T
        BY <2>7, <3>1 DEF At, T
      <4> QED
        BY <1>E, <3>2, <4>1
    <3>3. CASE ~open
      <4>1. r[N] = W
        <5>1. AtN(N)
          BY <3>3
        <5> QED
          BY <2>4, <3>1, <5>1
      <4> QED
        BY <1>E, <1>c, <2>6, <3>3, <4>1
    <3> QED
      BY <3>2, <3>3
  <2>m. PICK m : m = T + 1 /\ m - 1 = T
    BY <1>0
  <2>c. Reached(t, free, ps, open, m)
    BY <2>3, <2>9, <2>b, <2>m DEF Reached
  <2> QED
    BY <2>c, <2>m DEF Meets
<1> QED
  BY <1>2, <1>3 DEF Right, N, T, EndsFit

----------------------------------------------------------------------------
(* The whole pattern.                                                      *)

\* The pattern matches the name.
Means == 1 \in MatchesFrom(raw, text)[1]

\* The places from which what is not scanned yet matches the rest of the name.
Left == MatchesFrom(raw, text)[i]

\* What has been scanned has no wildcard and is the beginning of the name.
Same == \A j \in 1..i - 1 : j <= Len(text) /\ raw[j] = text[j]

\* The flags say where the wildcards are.
ScanFlags ==
    /\ i = 1 => ~has /\ pieces = <<>> /\ buf = <<>> /\ ~starts /\ ~ends
    /\ ~ends => i = 1 \/ buf # <<>>
    /\ ends => buf = <<>> /\ has
    /\ has /\ ~starts => pieces # <<>>

AnchorFlags ==
    /\ has /\ ~starts /\ ~ends => Len(pieces) >= 2
    /\ has /\ pieces = <<>> => ends

\* What is done and what is left to do mean the same as the pattern.
ScanMeans ==
    /\ ~has => (Means <=> Same /\ i \in Left)
    /\ Ascii => (Means <=> Meets(text, starts, Pushed, ends, Left))

AnchorMeans ==
    /\ ~has => (Means <=> text = raw)
    /\ Ascii /\ has => (Means <=> Meets(text, starts, pieces, ends, {Len(text) + 1}))

SearchMeans ==
    Ascii => (Means <=> Fits(text, pieces, i, LastPiece, pos, searchEnd))

MatchInv ==
    /\ pc = "scan" => ScanFlags /\ ScanMeans
    /\ pc = "anchor" => AnchorFlags /\ AnchorMeans
    /\ pc = "search" => has /\ SearchMeans
    /\ MatchesGlob

LEMMA TypeIsStrs ==
    ASSUME TypeOK
    PROVE  /\ raw \in Strs /\ text \in Strs /\ buf \in Strs
           /\ pieces \in Seq(Strs) /\ Pushed \in Seq(Strs)
           /\ MatchesFrom(raw, text)[i] \subseteq 1..Len(text) + 1 \/ i > Len(raw) + 1
<1>1. Strs = Seq(STRING)
  BY DEF Strs, Chars
<1>2. raw \in Seq(STRING) /\ text \in Seq(STRING) /\ buf \in Seq(STRING) /\ i \in Nat \ {0}
  BY DEF TypeOK
<1>3. pieces \in Seq(Seq(STRING) \ {<<>>}) /\ Pushed \in Seq(Seq(STRING) \ {<<>>})
  BY PushedType DEF TypeOK
<1>4. \A s \in Seq(Seq(STRING) \ {<<>>}) : s \in Seq(Seq(STRING))
  OBVIOUS
<1>5. i <= Len(raw) + 1 => i \in 1..Len(raw) + 1
  BY <1>2
<1>6. i <= Len(raw) + 1 => MatchesFrom(raw, text)[i] \subseteq 1..Len(text) + 1
  BY <1>2, <1>5, MatchesFromBytes
<1>7. i <= Len(raw) + 1 \/ i > Len(raw) + 1
  BY <1>2
<1> QED
  BY <1>1, <1>2, <1>3, <1>4, <1>6, <1>7

LEMMA MeetsNone ==
    ASSUME NEW t \in Strs, NEW f \in BOOLEAN, NEW g \in BOOLEAN, NEW open \in BOOLEAN,
           NEW M \in SUBSET (1..Len(t) + 1)
    PROVE  /\ Meets(t, f, <<>>, open, M) <=> Meets(t, g, <<>>, open, M)
           /\ Meets(t, f, <<>>, FALSE, M) <=> 1 \in M
           /\ Meets(t, f, <<>>, TRUE, M) <=> M # {}
<1>0. Len(t) \in Nat
  BY LenStr
<1>1. \A m : Reached(t, f, <<>>, open, m) <=> Reached(t, g, <<>>, open, m)
  BY PlacedNone DEF Reached
<1>2. ASSUME NEW m \in M
      PROVE  /\ Reached(t, f, <<>>, FALSE, m) <=> m = 1
             /\ Reached(t, f, <<>>, TRUE, m)
  <2>1. m \in Nat /\ m >= 1 /\ (0 = m - 1 <=> m = 1) /\ 0 <= m - 1
    BY <1>0
  <2>2. [j \in Nat |-> 0] \in [Nat -> Nat]
    OBVIOUS
  <2> QED
    BY <2>1, <2>2, PlacedNone DEF Reached
<1> QED
  BY <1>1, <1>2 DEF Meets

LEMMA InitMatch == Init => MatchInv
<1> SUFFICES ASSUME Init PROVE MatchInv
  OBVIOUS
<1>1. TypeOK
  BY InitInv DEF PatternInv
<1>2. /\ pc = "scan" /\ i = 1 /\ pieces = <<>> /\ buf = <<>>
      /\ ~starts /\ ~ends /\ ~has
  BY DEF Init
<1>3. ScanFlags
  BY <1>2 DEF ScanFlags
<1>4. Same
  BY <1>2 DEF Same
<1>5. Left \subseteq 1..Len(text) + 1 /\ (Means <=> i \in Left)
  <2>1. Len(raw) \in Nat
    BY <1>1 DEF TypeOK
  <2>2. ~(i > Len(raw) + 1)
    BY <1>2, <2>1
  <2> QED
    BY <1>1, <1>2, <2>2, TypeIsStrs DEF Left, Means
<1>6. Meets(text, FALSE, <<>>, FALSE, Left) <=> 1 \in Left
  BY <1>1, <1>5, TypeIsStrs, MeetsNone
<1>7. Pushed = <<>> /\ starts = FALSE /\ ends = FALSE
  <2>1. starts \in BOOLEAN /\ ends \in BOOLEAN
    BY <1>1 DEF TypeOK
  <2> QED
    BY <1>2, <2>1 DEF Pushed
<1>8. ScanMeans
  BY <1>2, <1>4, <1>5, <1>6, <1>7 DEF ScanMeans
<1> QED
  BY <1>2, <1>3, <1>8 DEF MatchInv, MatchesGlob

LEMMA WildcardMatch ==
    ASSUME TypeOK, TypeOK', MatchInv, Wildcard PROVE MatchInv'
<1>0. /\ pc = "scan" /\ pc' = "scan" /\ i <= Len(raw) /\ WildcardAt(raw, i) > 0
      /\ starts' = (starts \/ i = 1) /\ has' /\ ends'
      /\ pieces' = Pushed /\ buf' = <<>> /\ i' = i + WildcardAt(raw, i)
      /\ raw' = raw /\ text' = text
  BY DEF Wildcard
<1>1. ScanFlags /\ ScanMeans
  BY <1>0 DEF MatchInv
<1>2. /\ raw \in Seq(STRING) /\ text \in Seq(STRING) /\ i \in 1..Len(raw)
      /\ starts \in BOOLEAN /\ ends \in BOOLEAN /\ Len(raw) \in Nat
  BY <1>0 DEF TypeOK
<1>3. WildcardAt(raw, i) \in Nat /\ i' \in Nat /\ i' # 1 /\ i' <= Len(raw) + 1
  BY <1>0, <1>2, WildcardLength
<1>4. Left = WildBefore(text, Left')
  <2>1. MatchesFrom(raw, text)[i] =
           {m \in 1..Len(text) + 1 : \E l \in MatchesFrom(raw, text)[i + WildcardAt(raw, i)] : m <= l}
    BY <1>0, <1>2, MatchesFromBytes
  <2> QED
    BY <1>0, <2>1 DEF Left, WildBefore
<1>5. /\ text \in Strs /\ Pushed \in Seq(Strs) /\ Left' \subseteq 1..Len(text) + 1
  <2>1. ~(i' > Len(raw') + 1)
    BY <1>0, <1>2, <1>3
  <2>2. text \in Strs /\ Pushed \in Seq(Strs)
    BY TypeIsStrs
  <2>3. MatchesFrom(raw', text')[i'] \subseteq 1..Len(text') + 1
    BY <1>0, <1>2, <1>3, MatchesFromBytes
  <2> QED
    BY <1>0, <2>2, <2>3 DEF Left
<1>6. Pushed' = Pushed
  BY <1>0 DEF Pushed
<1>7. Meets(text, starts, Pushed, TRUE, Left') <=> Meets(text, starts', Pushed, TRUE, Left')
  <2>1. CASE i = 1
    <3>1. Pushed = <<>>
      BY <1>1, <2>1 DEF ScanFlags, Pushed
    <3>2. starts' \in BOOLEAN
      BY DEF TypeOK
    <3> QED
      BY <1>2, <1>5, <3>1, <3>2, MeetsNone
  <2>2. CASE i # 1
    BY <1>0, <1>2, <2>2
  <2> QED
    BY <2>1, <2>2
<1>8. Ascii' => (Means' <=> Meets(text', starts', Pushed', ends', Left'))
  <2>1. ends' = TRUE
    BY <1>0 DEF TypeOK
  <2>2. Ascii' = Ascii /\ Means' = Means
    BY <1>0 DEF Ascii, Means
  <2>3. Meets(text, starts, Pushed, ends, Left) <=> Meets(text, starts, Pushed, TRUE, Left')
    BY <1>4, <1>5, MeetsWild
  <2> QED
    BY <1>0, <1>1, <1>6, <1>7, <2>1, <2>2, <2>3 DEF ScanMeans
<1>9. ScanFlags'
  <2>1. has' /\ ~starts' => pieces' # <<>>
    <3>1. ASSUME ~starts' PROVE pieces' # <<>>
      <4>1. ~starts /\ i # 1
        BY <1>0, <3>1
      <4>2. CASE buf # <<>>
        BY <1>0, <4>2 DEF Pushed, TypeOK
      <4>3. CASE buf = <<>>
        <5>1. ends
          BY <1>1, <4>1, <4>3 DEF ScanFlags
        <5>2. pieces # <<>>
          BY <1>1, <4>1, <5>1 DEF ScanFlags
        <5> QED
          BY <1>0, <4>3, <5>2 DEF Pushed
      <4> QED
        BY <4>2, <4>3
    <3> QED
      BY <3>1
  <2> QED
    BY <1>0, <1>3, <2>1 DEF ScanFlags
<1> QED
  BY <1>0, <1>8, <1>9 DEF MatchInv, ScanMeans, MatchesGlob

LEMMA LiteralMatch ==
    ASSUME TypeOK, TypeOK', MatchInv, Literal PROVE MatchInv'
<1> DEFINE c == raw[i]
           add == IF raw[i] \in DOMAIN Latin1 THEN Latin1[raw[i]] ELSE <<raw[i]>>
<1>0. /\ pc = "scan" /\ pc' = "scan" /\ i <= Len(raw) /\ WildcardAt(raw, i) = 0
      /\ starts' = starts /\ has' = has /\ ends' = FALSE
      /\ pieces' = pieces /\ buf' = buf \o add /\ i' = i + 1
      /\ raw' = raw /\ text' = text
  BY DEF Literal, pattern, search
<1>1. ScanFlags /\ ScanMeans
  BY <1>0 DEF MatchInv
<1>2. /\ raw \in Seq(STRING) /\ text \in Seq(STRING) /\ i \in 1..Len(raw)
      /\ starts \in BOOLEAN /\ ends \in BOOLEAN /\ Len(raw) \in Nat /\ Len(text) \in Nat
      /\ c \in Chars
  BY <1>0 DEF TypeOK, Chars
<1>3. i' \in Nat /\ i' # 1 /\ i' \in 1..Len(raw) + 1
  BY <1>0, <1>2
<1>4. Left = ByteBefore(text, c, Left')
  <2>1. MatchesFrom(raw, text)[i] =
           {m \in 1..Len(text) : raw[i] = text[m] /\ m + 1 \in MatchesFrom(raw, text)[i + 1]}
    BY <1>0, <1>2, MatchesFromBytes
  <2> QED
    BY <1>0, <2>1 DEF Left, ByteBefore
<1>5. /\ text \in Strs /\ pieces \in Seq(Strs) /\ buf \in Strs /\ Left' \subseteq 1..Len(text) + 1
  <2>2. text \in Strs /\ pieces \in Seq(Strs) /\ buf \in Strs
    BY TypeIsStrs
  <2>3. MatchesFrom(raw', text')[i'] \subseteq 1..Len(text') + 1
    BY <1>0, <1>2, <1>3, MatchesFromBytes
  <2> QED
    BY <1>0, <2>2, <2>3 DEF Left
<1>m. Ascii' = Ascii /\ Means' = Means
  BY <1>0 DEF Ascii, Means
<1>b. buf' # <<>>
  <2>1. add \in Seq(STRING) /\ buf \in Seq(STRING)
    <3>1. raw[i] \in DOMAIN Latin1 => Latin1[raw[i]] \in Seq(STRING)
      BY ConfPatternAssumption, Zenon DEF ConfPatternAssumption
    <3>2. <<raw[i]>> \in Seq(STRING)
      BY <1>2 DEF Chars
    <3>3. add \in Seq(STRING)
      BY <3>1, <3>2, Zenon
    <3> QED
      BY <3>3 DEF TypeOK
  <2>2. add # <<>>
    <3>1. raw[i] \in DOMAIN Latin1 => Latin1[raw[i]] # <<>>
      BY ConfPatternAssumption DEF ConfPatternAssumption
    <3>2. <<raw[i]>> # <<>>
      OBVIOUS
    <3> QED
      BY <3>1, <3>2, Zenon
  <2> HIDE DEF add
  <2> QED
    BY <1>0, <2>1, <2>2
<1>6. ASSUME Ascii PROVE Means' <=> Meets(text', starts', Pushed', ends', Left')
  <2>1. add = <<c>>
    <3>1. raw[i] \in ToSet(raw)
      BY <1>2 DEF ToSet
    <3>2. raw[i] \notin DOMAIN Latin1
      BY <1>6, <3>1 DEF Ascii
    <3> QED
      BY <3>2
  <2> HIDE DEF add, c
  <2>2. Means <=> Meets(text, starts, Pushed, ends, ByteBefore(text, c, Left'))
    BY <1>1, <1>4, <1>6 DEF ScanMeans
  <2>3. Pushed' = Append(pieces, buf')
    BY <1>0, <1>b DEF Pushed
  <2>4. CASE buf = <<>>
    <3>1. buf' = <<c>>
      BY <1>0, <1>2, <2>1, <2>4
    <3>2. Pushed = pieces /\ Pushed' = With(pieces, <<c>>)
      BY <2>3, <2>4, <3>1 DEF Pushed, With
    <3>3. ends <=> ~(pieces = <<>> /\ ~starts)
      BY <1>1, <2>4 DEF ScanFlags
    <3>4. Meets(text, starts, pieces, ends, ByteBefore(text, c, Left')) <=>
          Meets(text, starts, With(pieces, <<c>>), FALSE, Left')
      BY <1>2, <1>5, <3>3, MeetsFirst
    <3> QED
      BY <1>0, <1>m, <2>2, <3>2, <3>4
  <2>5. CASE buf # <<>>
    <3>1. buf' = Append(buf, c)
      BY <1>0, <1>2, <1>5, <2>1 DEF Strs
    <3>2. Pushed = With(pieces, buf) /\ Pushed' = With(pieces, Append(buf, c))
      BY <2>3, <2>5, <3>1 DEF Pushed, With
    <3>3. ends = FALSE
      BY <1>1, <1>2, <2>5 DEF ScanFlags
    <3>4. Meets(text, starts, With(pieces, buf), FALSE, ByteBefore(text, c, Left')) <=>
          Meets(text, starts, With(pieces, Append(buf, c)), FALSE, Left')
      BY <1>2, <1>5, MeetsLonger
    <3> QED
      BY <1>0, <1>m, <2>2, <3>2, <3>3, <3>4
  <2> QED
    BY <2>4, <2>5
<1>7. ASSUME ~has PROVE Means' <=> Same' /\ i' \in Left'
  <2>1. Means <=> Same /\ i \in Left
    BY <1>1, <1>7 DEF ScanMeans
  <2>2. i \in Left <=> i \in 1..Len(text) /\ raw[i] = text[i] /\ i' \in Left'
    BY <1>0, <1>4 DEF ByteBefore
  <2>3. Same' <=> Same /\ i <= Len(text) /\ raw[i] = text[i]
    <3>1. \A j : j \in 1..i' - 1 <=> j \in 1..i - 1 \/ j = i
      BY <1>0, <1>2
    <3>2. Same' <=> \A j \in 1..i' - 1 : j <= Len(text) /\ raw[j] = text[j]
      BY <1>0 DEF Same
    <3> QED
      BY <3>1, <3>2 DEF Same
  <2>4. i \in 1..Len(text) <=> i <= Len(text)
    BY <1>2
  <2> QED
    BY <1>m, <2>1, <2>2, <2>3, <2>4
<1>8. ScanFlags'
  BY <1>0, <1>1, <1>3, <1>b DEF ScanFlags
<1> QED
  BY <1>0, <1>m, <1>6, <1>7, <1>8 DEF MatchInv, ScanMeans, MatchesGlob

LEMMA ScanDoneMatch ==
    ASSUME TypeOK, TypeOK', MatchInv, ScanDone PROVE MatchInv'
<1>0. /\ pc = "scan" /\ pc' = "anchor" /\ i > Len(raw)
      /\ starts' = starts /\ has' = has /\ ends' = ends
      /\ pieces' = Pushed /\ buf' = <<>> /\ i' = i
      /\ raw' = raw /\ text' = text
  BY DEF ScanDone
<1>1. ScanFlags /\ ScanMeans
  BY <1>0 DEF MatchInv
<1>2. /\ raw \in Seq(STRING) /\ text \in Seq(STRING)
      /\ starts \in BOOLEAN /\ ends \in BOOLEAN /\ Len(raw) \in Nat /\ Len(text) \in Nat
      /\ i = Len(raw) + 1
  BY <1>0 DEF TypeOK
<1>3. Left = {Len(text) + 1}
  BY <1>2, MatchesFromBytes DEF Left
<1>m. Ascii' = Ascii /\ Means' = Means
  BY <1>0 DEF Ascii, Means
<1>4. pieces \in Seq(Strs) /\ Pushed \in Seq(Strs)
  BY TypeIsStrs
<1>5. AnchorFlags'
  <2>1. ASSUME has, ~starts, ~ends PROVE Len(Pushed) >= 2
    <3>1. buf # <<>> /\ pieces # <<>>
      BY <1>1, <2>1 DEF ScanFlags
    <3>2. Len(pieces) >= 1 /\ Len(Pushed) = Len(pieces) + 1 /\ Len(pieces) \in Nat
      BY <1>4, <3>1 DEF Pushed
    <3> QED
      BY <3>2
  <2>2. ASSUME has, Pushed = <<>> PROVE ends
    <3>1. CASE buf # <<>>
      <4>1. Append(pieces, buf) # <<>>
        BY <1>4, TypeIsStrs, AppendProperties
      <4> QED
        BY <2>2, <3>1, <4>1 DEF Pushed
    <3>2. CASE buf = <<>>
      BY <1>1, <2>2, <3>2 DEF ScanFlags
    <3> QED
      BY <3>1, <3>2
  <2> QED
    BY <1>0, <2>1, <2>2 DEF AnchorFlags
<1>6. ASSUME ~has PROVE Means <=> text = raw
  <2>1. Means <=> Same /\ Len(raw) = Len(text)
    BY <1>1, <1>2, <1>3, <1>6 DEF ScanMeans
  <2>2. Same <=> \A j \in 1..Len(raw) : j <= Len(text) /\ raw[j] = text[j]
    BY <1>2 DEF Same
  <2>3. Same /\ Len(raw) = Len(text) => raw = text
    BY <1>2, <2>2
  <2>4. raw = text => Same /\ Len(raw) = Len(text)
    BY <1>2, <2>2
  <2> QED
    BY <2>1, <2>3, <2>4
<1>7. Ascii => (Means <=> Meets(text, starts, Pushed, ends, {Len(text) + 1}))
  BY <1>1, <1>3 DEF ScanMeans
<1>8. AnchorMeans'
  BY <1>0, <1>m, <1>6, <1>7 DEF AnchorMeans
<1> QED
  BY <1>0, <1>5, <1>8 DEF MatchInv, MatchesGlob

LEMMA Agrees ==
    ASSUME MatchInv, NEW b \in BOOLEAN, pc' = "done", result' = {b},
           raw' = raw, text' = text, has' = has,
           Ascii \/ ~has => (Means <=> b)
    PROVE  MatchInv'
<1>1. Ascii' = Ascii
  BY DEF Ascii
<1>2. Ascii \/ ~has => b = (1 \in MatchesFrom(raw, text)[1])
  BY DEF Means
<1>3. MatchesGlob'
  BY <1>1, <1>2 DEF MatchesGlob
<1> QED
  BY <1>3 DEF MatchInv

LEMMA TrivialMatch ==
    ASSUME TypeOK, MatchInv, Trivial PROVE MatchInv'
<1> DEFINE b == IF has THEN TRUE ELSE text = raw
<1>0. /\ pc = "anchor" /\ (~has \/ pieces = <<>>)
      /\ pc' = "done" /\ result' = {b} /\ raw' = raw /\ text' = text /\ has' = has
  BY DEF Trivial, Answer, pattern
<1>1. AnchorFlags /\ AnchorMeans /\ has \in BOOLEAN
  BY <1>0 DEF MatchInv, TypeOK
<1>2. b \in BOOLEAN
  OBVIOUS
<1>3. ASSUME Ascii \/ ~has PROVE Means <=> b
  <2>1. CASE ~has
    BY <1>1, <2>1 DEF AnchorMeans
  <2>2. CASE has
    <3>1. pieces = <<>> /\ ends /\ Ascii
      BY <1>0, <1>1, <1>3, <2>2 DEF AnchorFlags
    <3>2. text \in Strs /\ starts \in BOOLEAN /\ ends = TRUE
      BY <3>1, TypeIsStrs DEF TypeOK
    <3>3. {Len(text) + 1} \subseteq 1..Len(text) + 1
      <4>1. Len(text) \in Nat
        BY <3>2, LenStr
      <4> QED
        BY <4>1
    <3>4. Meets(text, starts, <<>>, TRUE, {Len(text) + 1})
      BY <3>2, <3>3, MeetsNone
    <3>5. Means
      BY <1>1, <2>2, <3>1, <3>2, <3>4 DEF AnchorMeans
    <3> QED
      BY <2>2, <3>5
  <2> QED
    BY <2>1, <2>2
<1> HIDE DEF b
<1> QED
  BY <1>0, <1>2, <1>3, Agrees

LEMMA AnchoredMeans ==
    ASSUME TypeOK, AnchorFlags, has, pieces # <<>>,
           NEW a, a = (IF starts THEN 1 ELSE 2)
    PROVE  Meets(text, starts, pieces, ends, {Len(text) + 1}) <=>
              Anchored /\ Fits(text, pieces, a, LastPiece, FirstLength, Len(text) - LastLength)
<1>1. /\ text \in Strs /\ pieces \in Seq(Strs) /\ starts \in BOOLEAN /\ ends \in BOOLEAN
  BY TypeIsStrs DEF TypeOK
<1>2. ~starts /\ ~ends => Len(pieces) >= 2
  BY DEF AnchorFlags
<1>3. /\ FirstLength = IF starts THEN 0 ELSE Len(pieces[1])
      /\ LastLength = IF ends THEN 0 ELSE Len(pieces[Len(pieces)])
      /\ LastPiece = IF ends THEN Len(pieces) ELSE Len(pieces) - 1
  <2>1. Len(pieces) - 0 = Len(pieces)
    BY <1>1
  <2> QED
    BY <2>1 DEF FirstLength, LastLength, LastPiece, Last
<1>4. pieces[1] \in Strs /\ Last(pieces) \in Strs /\ Last(pieces) = pieces[Len(pieces)]
  BY <1>1 DEF Last
<1>5. IsPrefix(pieces[1], text) <=> At(text, 0, pieces[1])
  BY <1>1, <1>4, PrefixAt
<1>6. ends \/ (IsSuffix(Last(pieces), text) <=>
           LastLength <= Len(text) /\ At(text, Len(text) - LastLength, pieces[Len(pieces)]))
  <2>1. IsSuffix(Last(pieces), text) <=>
           /\ Len(Last(pieces)) <= Len(text)
           /\ At(text, Len(text) - Len(Last(pieces)), Last(pieces))
    BY <1>1, <1>4, SuffixAt
  <2> QED
    BY <1>3, <1>4, <2>1
<1>7. Anchors(starts, pieces, ends, a, LastPiece, FirstLength, LastLength)
  BY <1>2, <1>3 DEF Anchors
<1>8. Meets(text, starts, pieces, ends, {Len(text) + 1}) <=>
         EndsFit(text, starts, pieces, ends, a, LastPiece, FirstLength, LastLength)
  BY <1>1, <1>7, EndsMeet
<1> QED
  BY <1>1, <1>5, <1>6, <1>8 DEF Anchored, EndsFit

LEMMA AnchorMatch ==
    ASSUME TypeOK, TypeOK', MatchInv, Anchor PROVE MatchInv'
<1>0. /\ pc = "anchor" /\ has /\ pieces # <<>> /\ i' = (IF starts THEN 1 ELSE 2)
      /\ raw' = raw /\ text' = text /\ has' = has
      /\ pieces' = pieces /\ ends' = ends
  BY DEF Anchor, pattern
<1>1. AnchorFlags /\ AnchorMeans
  BY <1>0 DEF MatchInv
<1>2. Ascii => (Means <=> Anchored /\ Fits(text, pieces, i', LastPiece, FirstLength,
                                           Len(text) - LastLength))
  BY <1>0, <1>1, AnchoredMeans DEF AnchorMeans
<1>3. CASE Anchored
  <2>1. /\ pc' = "search" /\ pos' = FirstLength /\ searchEnd' = Len(text) - LastLength
    BY <1>3 DEF Anchor
  <2>2. Ascii' = Ascii /\ Means' = Means /\ LastPiece' = LastPiece
    BY <1>0 DEF Ascii, Means, LastPiece
  <2>3. SearchMeans'
    BY <1>0, <1>2, <1>3, <2>1, <2>2 DEF SearchMeans
  <2> QED
    BY <1>0, <2>1, <2>3 DEF MatchInv, MatchesGlob
<1>4. CASE ~Anchored
  <2>1. pc' = "done" /\ result' = {FALSE}
    BY <1>4 DEF Anchor, Answer
  <2>2. Ascii \/ ~has => (Means <=> FALSE)
    BY <1>0, <1>2, <1>4
  <2> QED
    BY <1>0, <2>1, <2>2, Agrees
<1> QED
  BY <1>3, <1>4

LEMMA PlacesAre ==
    ASSUME TypeOK, NEW s \in Strs
    PROVE  Places(s) = PlacesOf(text, s, pos, searchEnd)
<1>0. text \in Strs /\ Len(text) \in Nat /\ Len(s) \in Nat
  BY TypeIsStrs, LenStr
<1>1. pos \in Nat /\ searchEnd \in Nat /\ searchEnd <= Len(text)
  BY <1>0 DEF TypeOK
<1>2. ASSUME NEW p \in pos..searchEnd - Len(s)
      PROVE  At(text, p, s) <=> SubSeq(text, p + 1, p + Len(s)) = s
  <2>1. p \in Nat /\ p + Len(s) <= Len(text)
    BY <1>0, <1>1
  <2> QED
    BY <1>0, <2>1, AtSubSeq
<1> QED
  BY <1>2 DEF Places, PlacesOf

LEMMA FindMatch ==
    ASSUME TypeOK, TypeOK', MatchInv, Find PROVE MatchInv'
<1>0. /\ pc = "search" /\ i <= LastPiece
      /\ raw' = raw /\ text' = text /\ has' = has
      /\ pieces' = pieces /\ ends' = ends /\ searchEnd' = searchEnd
  BY DEF Find, pattern
<1>1. has /\ SearchMeans
  BY <1>0 DEF MatchInv
<1>2. /\ text \in Strs /\ pieces \in Seq(Strs) /\ Len(pieces) \in Nat
      /\ i \in Nat /\ 1 <= i /\ LastPiece \in Nat /\ LastPiece <= Len(pieces)
      /\ pos \in Nat /\ searchEnd \in Nat
  <2>1. text \in Strs /\ pieces \in Seq(Strs) /\ Len(pieces) \in Nat
    BY TypeIsStrs
  <2>2. i \in Nat /\ 1 <= i /\ pos \in Nat /\ searchEnd \in Nat /\ Len(pieces) >= 1
    BY <1>0, <2>1 DEF TypeOK
  <2>3. LastPiece \in Nat /\ LastPiece <= Len(pieces)
    BY <2>1, <2>2 DEF LastPiece
  <2> QED
    BY <2>1, <2>2, <2>3
<1>3. pieces[i] \in Strs
  <2>1. i \in 1..Len(pieces)
    BY <1>0, <1>2
  <2> QED
    BY <1>2, <2>1
<1>4. Places(pieces[i]) = PlacesOf(text, pieces[i], pos, searchEnd)
  BY <1>3, PlacesAre
<1>m. Ascii' = Ascii /\ Means' = Means /\ LastPiece' = LastPiece
  BY <1>0 DEF Ascii, Means, LastPiece
<1>5. CASE Places(pieces[i]) = {}
  <2>1. pc' = "done" /\ result' = {FALSE}
    BY <1>5 DEF Find, Answer
  <2>2. ~Fits(text, pieces, i, LastPiece, pos, searchEnd)
    BY <1>0, <1>2, <1>4, <1>5, FitsNowhere
  <2>3. Ascii \/ ~has => (Means <=> FALSE)
    BY <1>1, <2>2 DEF SearchMeans
  <2> QED
    BY <1>0, <2>1, <2>3, Agrees
<1>6. CASE Places(pieces[i]) # {}
  <2> DEFINE S == Places(pieces[i])
             p == CHOOSE x \in S : \A y \in S : x <= y
  <2>1. pc' = pc /\ i' = i + 1 /\ pos' = p + Len(pieces[i])
    BY <1>6 DEF Find
  <2>2. S \in SUBSET Nat
    BY <1>2 DEF Places
  <2>3. p \in S /\ \A y \in S : p <= y
    <3> HIDE DEF S
    <3> QED
      BY <1>6, <2>2, LeastExists DEF S
  <2> HIDE DEF p
  <2>4. Fits(text, pieces, i, LastPiece, pos, searchEnd) <=>
        Fits(text, pieces, i + 1, LastPiece, p + Len(pieces[i]), searchEnd)
    BY <1>0, <1>2, <1>4, <2>3, FitsFirst
  <2>5. SearchMeans'
    BY <1>0, <1>1, <1>m, <2>1, <2>4 DEF SearchMeans
  <2> QED
    BY <1>0, <1>1, <2>1, <2>5 DEF MatchInv, MatchesGlob
<1> QED
  BY <1>5, <1>6

LEMMA FoundAllMatch ==
    ASSUME TypeOK, MatchInv, FoundAll PROVE MatchInv'
<1>0. /\ pc = "search" /\ i > LastPiece
      /\ raw' = raw /\ text' = text /\ has' = has /\ pc' = "done" /\ result' = {TRUE}
  BY DEF FoundAll, pattern, Answer
<1>1. has /\ SearchMeans
  BY <1>0 DEF MatchInv
<1>2. i \in Nat /\ LastPiece \in Int
  <2>1. Len(pieces) \in Nat
    BY TypeIsStrs
  <2> QED
    BY <2>1 DEF TypeOK, LastPiece
<1>3. Fits(text, pieces, i, LastPiece, pos, searchEnd)
  BY <1>0, <1>2, FitsNone
<1>4. Ascii \/ ~has => (Means <=> TRUE)
  BY <1>1, <1>3 DEF SearchMeans
<1> QED
  BY <1>0, <1>4, Agrees

LEMMA NextMatch == PatternInv /\ MatchInv /\ [Next]_vars => MatchInv'
<1> SUFFICES ASSUME PatternInv, MatchInv, [Next]_vars PROVE MatchInv'
  OBVIOUS
<1>1. TypeOK /\ TypeOK'
  BY NextInv DEF PatternInv
<1>2. ASSUME UNCHANGED vars PROVE MatchInv'
  <2>1. /\ UNCHANGED <<raw, text, pc, i, pieces, buf, starts, ends, has>>
        /\ UNCHANGED <<pos, searchEnd, result>>
    BY <1>2 DEF vars, pattern, search
  <2> QED
    BY <2>1 DEF MatchInv, ScanFlags, ScanMeans, AnchorFlags, AnchorMeans, SearchMeans,
                MatchesGlob, Means, Left, Same, Ascii, Pushed, LastPiece
<1> QED
  BY <1>1, <1>2, WildcardMatch, LiteralMatch, ScanDoneMatch, TrivialMatch, AnchorMatch,
     FindMatch, FoundAllMatch DEF Next

\* The search says that a name matches exactly when the pattern, read byte by byte, does: for
\* every ASCII pattern, and for every one without a wildcard.
THEOREM MatchesGlobHolds == Spec => []MatchesGlob
<1>1. MatchInv => MatchesGlob
  BY DEF MatchInv
<1> QED
  BY <1>1, InitInv, NextInv, InitMatch, NextMatch, PTL DEF Spec

----------------------------------------------------------------------------
(* ConfSpec.                                                               *)
(*                                                                         *)
(* First, lines, and the last of those before a line.                      *)

\* No line is two of a header, a title and a key.
LEMMA LineKinds ==
    ASSUME NEW l \in Line
    PROVE  /\ l \in HeaderLine => l \notin KeyLine /\ Opened(l) \subseteq Header
           /\ l \in KeyLine => l.name \in Key /\ l \notin HeaderLine /\ l \notin TitleLine
           /\ l \in TitleLine => l.kind \in Titles
<1>1. CASE l \in [kind : {"header"}, name : Header, top : BOOLEAN]
  BY <1>1 DEF HeaderLine, KeyLine, TitleLine, Opened, Titles
<1>2. CASE l \in [kind : {"pair"}, name : Key, top : BOOLEAN]
  BY <1>2 DEF HeaderLine, KeyLine, TitleLine, Opened, Titles
<1>3. CASE l \in [kind : {"bare", "other"} \cup Titles, top : {TRUE}]
  BY <1>3 DEF HeaderLine, KeyLine, TitleLine, Opened, Titles
<1> QED
  BY <1>1, <1>2, <1>3 DEF Line

\* LastOf has a value.
LEMMA LastIs ==
    ASSUME NEW n \in Nat, NEW S \in SUBSET (1..n), S # {}
    PROVE  LastOf(S) \in S /\ \A g \in S : g <= LastOf(S)
<1> DEFINE J == {n - h : h \in S}
<1>1. J \in SUBSET Nat /\ J # {}
  <2>1. \A h \in 1..n : n - h \in Nat
    OBVIOUS
  <2>2. \A h \in S : n - h \in Nat
    BY <2>1
  <2>3. PICK h \in S : TRUE
    OBVIOUS
  <2>4. n - h \in J
    OBVIOUS
  <2> QED
    BY <2>2, <2>4
<1>2. PICK m \in J : \A j \in J : m <= j
  <2> HIDE DEF J
  <2> QED
    BY <1>1, LeastExists
<1>3. PICK h \in S : m = n - h
  BY <1>2
<1>4. \A g \in S : g <= h
  <2> SUFFICES ASSUME NEW g \in S PROVE g <= h
    OBVIOUS
  <2>1. n - g \in J /\ n - h <= n - g
    BY <1>2, <1>3
  <2> QED
    BY <2>1
<1> QED
  BY <1>4 DEF LastOf

\* ... which is what is added last.
LEMMA LastWith ==
    ASSUME NEW n \in Nat, NEW S \in SUBSET (1..n)
    PROVE  LastOf(S \cup {n + 1}) = n + 1
<1> DEFINE T == S \cup {n + 1}
<1>1. T \in SUBSET (1..n + 1) /\ n + 1 \in T /\ n + 1 \in Nat /\ T # {}
  OBVIOUS
<1> HIDE DEF T
<1>2. LastOf(T) \in T /\ \A g \in T : g <= LastOf(T)
  BY <1>1, LastIs
<1>3. PICK h \in T : h = LastOf(T) /\ n + 1 <= h
  BY <1>1, <1>2
<1>4. h = n + 1
  BY <1>1, <1>3
<1> QED
  BY <1>3, <1>4 DEF T

\* One line more.
LEMMA Longer ==
    ASSUME NEW s \in Seq(Line), NEW e \in Line
    PROVE  /\ Len(s) \in Nat /\ Append(s, e) \in Seq(Line) /\ Len(Append(s, e)) = Len(s) + 1
           /\ Append(s, e)[Len(s) + 1] = e
           /\ \A n \in 1..Len(s) : Append(s, e)[n] = s[n]
           /\ DOMAIN s = 1..Len(s)
           /\ DOMAIN Append(s, e) = 1..Len(s) \cup {Len(s) + 1}
           /\ Len(s) + 1 \notin 1..Len(s)
<1>1. /\ Len(s) \in Nat /\ Append(s, e) \in Seq(Line) /\ Len(Append(s, e)) = Len(s) + 1
      /\ Append(s, e)[Len(s) + 1] = e
  OBVIOUS
<1>2. \A n \in 1..Len(s) : Append(s, e)[n] = s[n]
  OBVIOUS
<1>3. DOMAIN s = 1..Len(s) /\ DOMAIN Append(s, e) = 1..Len(Append(s, e))
  BY <1>1
<1>4. \A n \in Nat : 1..n + 1 = 1..n \cup {n + 1} /\ n + 1 \notin 1..n
  OBVIOUS
<1> QED
  BY <1>1, <1>2, <1>3, <1>4

\* Of the lines of a kind before a line, and of all of them.
LEMMA LongerBefore ==
    ASSUME NEW s \in Seq(Line), NEW e \in Line, NEW L
    PROVE  LET t == Append(s, e) IN
           /\ \A n \in 1..Len(s) + 1 : Before(t, n, L) = Before(s, n, L)
           /\ Before(t, Len(t) + 1, L) = Before(s, Len(s) + 1, L) \cup IF e \in L THEN {Len(s) + 1} ELSE {}
           /\ LinesIn(t, L) = LinesIn(s, L) \cup IF e \in L THEN {Len(s) + 1} ELSE {}
<1> DEFINE t == Append(s, e)
<1>1. PICK m \in Nat : m = Len(s)
  OBVIOUS
<1>2. /\ Len(t) = m + 1 /\ t[m + 1] = e
      /\ \A n \in 1..m : t[n] = s[n]
      /\ DOMAIN s = 1..m /\ DOMAIN t = 1..m \cup {m + 1} /\ m + 1 \notin 1..m
  BY <1>1, Longer
<1> HIDE DEF t
<1>3. ASSUME NEW n \in 1..m + 1 PROVE Before(t, n, L) = Before(s, n, L)
  <2>1. \A h \in 1..n - 1 : h \in 1..m
    OBVIOUS
  <2> QED
    BY <1>2, <2>1 DEF Before
<1>4. Before(t, m + 1 + 1, L) = Before(s, m + 1, L) \cup IF e \in L THEN {m + 1} ELSE {}
  <2>1. m + 1 + 1 - 1 = m + 1 /\ m + 1 - 1 = m /\ 1..m + 1 = 1..m \cup {m + 1}
    OBVIOUS
  <2>2. /\ Before(t, m + 1 + 1, L) = {h \in 1..m \cup {m + 1} : t[h] \in L}
        /\ Before(s, m + 1, L) = {h \in 1..m : s[h] \in L}
    BY <2>1 DEF Before
  <2> QED
    BY <1>2, <2>2
<1>5. LinesIn(t, L) = LinesIn(s, L) \cup IF e \in L THEN {m + 1} ELSE {}
  BY <1>2 DEF LinesIn
<1> QED
  BY <1>1, <1>2, <1>3, <1>4, <1>5 DEF t

LEMMA BeforeType ==
    ASSUME NEW s \in Seq(Line), NEW m \in Nat, NEW n \in 1..m + 1, NEW L
    PROVE  Before(s, n, L) \in SUBSET (1..m)
<1>1. \A h \in 1..n - 1 : h \in 1..m
  OBVIOUS
<1> QED
  BY <1>1 DEF Before

\* The last header, and the last title, before a line.
LEMMA LongerGoverning ==
    ASSUME NEW s \in Seq(Line), NEW e \in Line
    PROVE  LET t == Append(s, e) IN
           /\ \A n \in 1..Len(s) + 1 : Governing(t, n) = Governing(s, n)
           /\ Governing(t, Len(t) + 1) =
                 IF e \in HeaderLine THEN Opened(e) ELSE Governing(s, Len(s) + 1)
           /\ \A n \in 1..Len(s) + 1 : SectionAt(t, n) = SectionAt(s, n)
           /\ SectionAt(t, Len(t) + 1) =
                 IF e \in TitleLine THEN e.kind ELSE SectionAt(s, Len(s) + 1)
<1> DEFINE t == Append(s, e)
<1>1. PICK m \in Nat : m = Len(s)
  OBVIOUS
<1>2. /\ Len(t) = m + 1 /\ t[m + 1] = e
      /\ \A n \in 1..m : t[n] = s[n]
  BY <1>1, Longer
<1>3. ASSUME NEW L
      PROVE  /\ \A n \in 1..m + 1 : Before(t, n, L) = Before(s, n, L)
             /\ Before(t, m + 2, L) = Before(s, m + 1, L) \cup IF e \in L THEN {m + 1} ELSE {}
  <2>1. m + 1 + 1 = m + 2
    OBVIOUS
  <2> QED
    BY <1>1, <1>2, <2>1, LongerBefore
<1>4. \A L : \A n \in 1..m + 1 : Before(s, n, L) # {} => LastOf(Before(s, n, L)) \in 1..m
  <2> SUFFICES ASSUME NEW L, NEW n \in 1..m + 1, Before(s, n, L) # {}
               PROVE  LastOf(Before(s, n, L)) \in 1..m
    OBVIOUS
  <2>1. Before(s, n, L) \in SUBSET (1..m)
    BY BeforeType
  <2> QED
    BY <2>1, LastIs
<1>5. \A L : LastOf(Before(s, m + 1, L) \cup {m + 1}) = m + 1
  <2> TAKE L
  <2>1. m + 1 \in 1..m + 1
    OBVIOUS
  <2>2. Before(s, m + 1, L) \in SUBSET (1..m)
    BY <2>1, BeforeType
  <2> QED
    BY <2>2, LastWith
<1> HIDE DEF t
<1>6. m + 1 \in 1..m + 1 /\ m + 1 + 1 = m + 2
  OBVIOUS
<1>7. ASSUME NEW L, NEW a \in 1..m + 2, NEW b \in 1..m + 1, Before(t, a, L) = Before(s, b, L)
      PROVE  Before(t, a, L) # {} => t[LastOf(Before(t, a, L))] = s[LastOf(Before(s, b, L))]
  <2>1. Before(s, b, L) # {} => LastOf(Before(s, b, L)) \in 1..m
    BY <1>4
  <2> QED
    BY <1>2, <1>7, <2>1
<1>8. ASSUME NEW a \in 1..m + 2, NEW b \in 1..m + 1,
             Before(t, a, HeaderLine) = Before(s, b, HeaderLine)
      PROVE  Governing(t, a) = Governing(s, b)
  <2>1. Before(t, a, HeaderLine) # {} =>
           t[LastOf(Before(t, a, HeaderLine))] = s[LastOf(Before(s, b, HeaderLine))]
    BY <1>7, <1>8
  <2> QED
    BY <1>8, <2>1 DEF Governing
<1>9. ASSUME NEW a \in 1..m + 2, NEW b \in 1..m + 1,
             Before(t, a, TitleLine) = Before(s, b, TitleLine)
      PROVE  SectionAt(t, a) = SectionAt(s, b)
  <2>1. Before(t, a, TitleLine) # {} =>
           t[LastOf(Before(t, a, TitleLine))] = s[LastOf(Before(s, b, TitleLine))]
    BY <1>7, <1>9
  <2> QED
    BY <1>9, <2>1 DEF SectionAt
<1>10. m + 2 \in 1..m + 2 /\ \A n \in 1..m + 1 : n \in 1..m + 2
  OBVIOUS
<1>11. \A n \in 1..m + 1 : Governing(t, n) = Governing(s, n) /\ SectionAt(t, n) = SectionAt(s, n)
  <2> TAKE n \in 1..m + 1
  <2>1. /\ Before(t, n, HeaderLine) = Before(s, n, HeaderLine)
        /\ Before(t, n, TitleLine) = Before(s, n, TitleLine)
    BY <1>3
  <2> QED
    BY <1>8, <1>9, <1>10, <2>1
<1>12. Governing(t, m + 2) = IF e \in HeaderLine THEN Opened(e) ELSE Governing(s, m + 1)
  <2>1. CASE e \in HeaderLine
    <3>1. Before(t, m + 2, HeaderLine) = Before(s, m + 1, HeaderLine) \cup {m + 1}
      BY <1>3, <2>1
    <3>2. LastOf(Before(t, m + 2, HeaderLine)) = m + 1 /\ Before(t, m + 2, HeaderLine) # {}
      BY <1>5, <3>1
    <3> QED
      BY <1>2, <2>1, <3>2 DEF Governing
  <2>2. CASE e \notin HeaderLine
    <3>1. Before(t, m + 2, HeaderLine) = Before(s, m + 1, HeaderLine)
      BY <1>3, <2>2
    <3> QED
      BY <1>6, <1>8, <1>10, <2>2, <3>1
  <2> QED
    BY <2>1, <2>2
<1>13. SectionAt(t, m + 2) = IF e \in TitleLine THEN e.kind ELSE SectionAt(s, m + 1)
  <2>1. CASE e \in TitleLine
    <3>1. Before(t, m + 2, TitleLine) = Before(s, m + 1, TitleLine) \cup {m + 1}
      BY <1>3, <2>1
    <3>2. LastOf(Before(t, m + 2, TitleLine)) = m + 1 /\ Before(t, m + 2, TitleLine) # {}
      BY <1>5, <3>1
    <3> QED
      BY <1>2, <2>1, <3>2 DEF SectionAt
  <2>2. CASE e \notin TitleLine
    <3>1. Before(t, m + 2, TitleLine) = Before(s, m + 1, TitleLine)
      BY <1>3, <2>2
    <3> QED
      BY <1>6, <1>9, <1>10, <2>2, <3>1
  <2> QED
    BY <2>1, <2>2
<1> QED
  BY <1>1, <1>2, <1>6, <1>11, <1>12, <1>13 DEF t

----------------------------------------------------------------------------
(* What the three parsers have of the lines of a file, whatever its kind.  *)

\* Key k is on a line that the header p governs; on one in section x; on one
\* before every header.
Governed(s, p, k) == \E n \in LinesIn(s, KeyLine) : s[n].name = k /\ p \in Governing(s, n)
InSection(s, x, k) == \E n \in LinesIn(s, KeyLine) : s[n].name = k /\ SectionAt(s, n) = x
Heads(s, k) == \E n \in LinesIn(s, KeyLine) : s[n].name = k /\ Before(s, n, HeaderLine) = {}

\* m is what each of the parsers makes of the lines s.
ContentMeans(m, s) ==
    /\ m.at = Governing(s, Len(s) + 1)
    /\ DOMAIN m.rules = Headers(s)
    /\ \A p, k : k \in KeysAt(m.rules, p) <=> Governed(s, p, k)

IndexesMeans(m, s) ==
    /\ m.at = SectionAt(s, Len(s) + 1)
    /\ \A x \in Section : \A k : k \in m.keys[x] <=> InSection(s, x, k)

CommonMeans(m, s) ==
    /\ m.past <=> Before(s, Len(s) + 1, HeaderLine) # {}
    /\ \A k : k \in m.keys <=> Heads(s, k)

\* What one more line adds to each of the three.
LEMMA LineIsKey ==
    ASSUME NEW s \in Seq(Line), NEW n \in LinesIn(s, KeyLine)
    PROVE  n \in 1..Len(s) /\ s[n] \in KeyLine /\ s[n] \in Line
<1>1. Len(s) \in Nat /\ DOMAIN s = 1..Len(s) /\ n \in 1..Len(s) /\ s[n] \in KeyLine
  BY DEF LinesIn
<1> QED
  BY <1>1

LEMMA LongerKeys ==
    ASSUME NEW s \in Seq(Line), NEW e \in Line
    PROVE  LET t == Append(s, e) IN
           /\ LinesIn(t, KeyLine) = LinesIn(s, KeyLine) \cup IF e \in KeyLine THEN {Len(s) + 1} ELSE {}
           /\ \A n \in LinesIn(s, KeyLine) : n \in 1..Len(s) /\ n \in 1..Len(s) + 1 /\ t[n] = s[n]
           /\ t[Len(s) + 1] = e
           /\ Len(s) + 1 \in 1..Len(s) + 1
<1>1. Len(s) \in Nat /\ Len(s) + 1 \in 1..Len(s) + 1 /\ \A n \in 1..Len(s) : n \in 1..Len(s) + 1
  OBVIOUS
<1> QED
  BY <1>1, LineIsKey, Longer, LongerBefore

LEMMA LongerGoverned ==
    ASSUME NEW s \in Seq(Line), NEW e \in Line, NEW p, NEW k
    PROVE  Governed(Append(s, e), p, k) <=>
              Governed(s, p, k) \/ (k \in KeysIn(e) /\ p \in Governing(s, Len(s) + 1))
<1> DEFINE t == Append(s, e)
<1>1. /\ LinesIn(t, KeyLine) = LinesIn(s, KeyLine) \cup IF e \in KeyLine THEN {Len(s) + 1} ELSE {}
      /\ \A n \in LinesIn(s, KeyLine) : n \in 1..Len(s) + 1 /\ t[n] = s[n]
      /\ t[Len(s) + 1] = e
      /\ Len(s) + 1 \in 1..Len(s) + 1
  BY LongerKeys
<1>2. \A n \in 1..Len(s) + 1 : Governing(t, n) = Governing(s, n)
  BY LongerGoverning
<1> HIDE DEF t
<1>3. Governed(t, p, k) <=> Governed(s, p, k) \/ (k \in KeysIn(e) /\ p \in Governing(s, Len(s) + 1))
  BY <1>1, <1>2 DEF Governed, KeysIn
<1> QED
  BY <1>3 DEF t

LEMMA LongerSection ==
    ASSUME NEW s \in Seq(Line), NEW e \in Line, NEW x, NEW k
    PROVE  InSection(Append(s, e), x, k) <=>
              InSection(s, x, k) \/ (k \in KeysIn(e) /\ x = SectionAt(s, Len(s) + 1))
<1> DEFINE t == Append(s, e)
<1>1. /\ LinesIn(t, KeyLine) = LinesIn(s, KeyLine) \cup IF e \in KeyLine THEN {Len(s) + 1} ELSE {}
      /\ \A n \in LinesIn(s, KeyLine) : n \in 1..Len(s) + 1 /\ t[n] = s[n]
      /\ t[Len(s) + 1] = e
      /\ Len(s) + 1 \in 1..Len(s) + 1
  BY LongerKeys
<1>2. \A n \in 1..Len(s) + 1 : SectionAt(t, n) = SectionAt(s, n)
  BY LongerGoverning
<1> HIDE DEF t
<1>3. InSection(t, x, k) <=> InSection(s, x, k) \/ (k \in KeysIn(e) /\ x = SectionAt(s, Len(s) + 1))
  BY <1>1, <1>2 DEF InSection, KeysIn
<1> QED
  BY <1>3 DEF t

LEMMA LongerHeads ==
    ASSUME NEW s \in Seq(Line), NEW e \in Line, NEW k
    PROVE  Heads(Append(s, e), k) <=>
              Heads(s, k) \/ (k \in KeysIn(e) /\ Before(s, Len(s) + 1, HeaderLine) = {})
<1> DEFINE t == Append(s, e)
<1>1. /\ LinesIn(t, KeyLine) = LinesIn(s, KeyLine) \cup IF e \in KeyLine THEN {Len(s) + 1} ELSE {}
      /\ \A n \in LinesIn(s, KeyLine) : n \in 1..Len(s) + 1 /\ t[n] = s[n]
      /\ t[Len(s) + 1] = e
      /\ Len(s) + 1 \in 1..Len(s) + 1
  BY LongerKeys
<1>2. \A n \in 1..Len(s) + 1 : Before(t, n, HeaderLine) = Before(s, n, HeaderLine)
  BY LongerBefore
<1> HIDE DEF t
<1>3. Heads(t, k) <=> Heads(s, k) \/ (k \in KeysIn(e) /\ Before(s, Len(s) + 1, HeaderLine) = {})
  BY <1>1, <1>2 DEF Heads, KeysIn
<1> QED
  BY <1>3 DEF t

LEMMA GoverningIsHeader ==
    ASSUME NEW s \in Seq(Line), NEW n \in 1..Len(s) + 1
    PROVE  Governing(s, n) \subseteq Headers(s) /\ Headers(s) \subseteq Header
<1>1. Len(s) \in Nat /\ DOMAIN s = 1..Len(s) /\ \A h \in 1..Len(s) : s[h] \in Line
  OBVIOUS
<1>2. Before(s, n, HeaderLine) \in SUBSET (1..Len(s))
  BY <1>1, BeforeType
<1>3. Before(s, n, HeaderLine) # {} => LastOf(Before(s, n, HeaderLine)) \in Before(s, n, HeaderLine)
  BY <1>1, <1>2, LastIs
<1>4. Before(s, n, HeaderLine) \subseteq LinesIn(s, HeaderLine)
  BY <1>1, <1>2 DEF Before, LinesIn
<1>5. Governing(s, n) \subseteq Headers(s)
  BY <1>3, <1>4 DEF Governing, Headers
<1>6. \A h \in LinesIn(s, HeaderLine) : Opened(s[h]) \subseteq Header
  BY <1>1, LineKinds DEF LinesIn
<1> QED
  BY <1>5, <1>6 DEF Headers

LEMMA LongerHeaders ==
    ASSUME NEW s \in Seq(Line), NEW e \in Line
    PROVE  Headers(Append(s, e)) = Headers(s) \cup IF e \in HeaderLine THEN Opened(e) ELSE {}
<1> DEFINE t == Append(s, e)
<1>1. /\ LinesIn(t, HeaderLine) = LinesIn(s, HeaderLine) \cup IF e \in HeaderLine THEN {Len(s) + 1} ELSE {}
      /\ t[Len(s) + 1] = e
      /\ \A h \in LinesIn(s, HeaderLine) : t[h] = s[h]
  BY Longer, LongerBefore DEF LinesIn
<1> HIDE DEF t
<1>2. Headers(t) = Headers(s) \cup IF e \in HeaderLine THEN Opened(e) ELSE {}
  BY <1>1 DEF Headers
<1> QED
  BY <1>2 DEF t

\* The steps of the parsers.
LEMMA ContentLineMeans ==
    ASSUME NEW s \in Seq(Line), NEW e \in Line, NEW m, ContentMeans(m, s)
    PROVE  ContentMeans(ContentLine(m, e), Append(s, e))
<1> DEFINE t == Append(s, e)
           at == IF e \in HeaderLine THEN Opened(e) ELSE m.at
           rules == [p \in DOMAIN m.rules \cup at |->
                        KeysAt(m.rules, p) \cup IF p \in at THEN KeysIn(e) ELSE {}]
<1>1. ContentLine(m, e) = [at |-> at, rules |-> rules]
  BY DEF ContentLine
<1>2. at = Governing(t, Len(t) + 1)
  BY LongerGoverning DEF ContentMeans
<1>3. DOMAIN m.rules \cup at = Headers(t)
  <2>1. Len(s) + 1 \in 1..Len(s) + 1
    OBVIOUS
  <2> QED
    BY <2>1, GoverningIsHeader, LongerHeaders DEF ContentMeans
<1>4. ASSUME NEW p, NEW k PROVE k \in KeysAt(rules, p) <=> Governed(t, p, k)
  <2>1. Governed(t, p, k) <=>
           k \in KeysAt(m.rules, p) \/ (k \in KeysIn(e) /\ p \in m.at)
    BY LongerGoverned DEF ContentMeans
  <2>2. e \in HeaderLine => KeysIn(e) = {}
    BY LineKinds DEF KeysIn
  <2>3. k \in KeysAt(rules, p) <=> k \in KeysAt(m.rules, p) \/ (k \in KeysIn(e) /\ p \in at)
    BY DEF KeysAt
  <2> QED
    BY <2>1, <2>2, <2>3
<1> HIDE DEF t, at, rules
<1>5. ContentMeans([at |-> at, rules |-> rules], t)
  <2>1. DOMAIN rules = Headers(t)
    BY <1>3 DEF rules
  <2> QED
    BY <1>2, <1>4, <2>1 DEF ContentMeans
<1> QED
  BY <1>1, <1>5 DEF t

LEMMA IndexesLineMeans ==
    ASSUME NEW s \in Seq(Line), NEW e \in Line,
           NEW m \in [at : Section, keys : [Section -> SUBSET Key]], IndexesMeans(m, s)
    PROVE  IndexesMeans(IndexesLine(m, e), Append(s, e))
<1> DEFINE t == Append(s, e)
           at == IF e \in TitleLine THEN e.kind ELSE m.at
           keys == [m.keys EXCEPT ![m.at] = @ \cup KeysIn(e)]
<1>1. IndexesLine(m, e) = [at |-> at, keys |-> keys]
  BY DEF IndexesLine
<1>2. at = SectionAt(t, Len(t) + 1)
  BY LongerGoverning DEF IndexesMeans
<1>3. ASSUME NEW x \in Section, NEW k PROVE k \in keys[x] <=> InSection(t, x, k)
  <2>1. InSection(t, x, k) <=> k \in m.keys[x] \/ (k \in KeysIn(e) /\ x = m.at)
    BY LongerSection DEF IndexesMeans
  <2> QED
    BY <2>1
<1> HIDE DEF t, at, keys
<1>4. IndexesMeans([at |-> at, keys |-> keys], t)
  BY <1>2, <1>3 DEF IndexesMeans
<1> QED
  BY <1>1, <1>4 DEF t

LEMMA CommonLineMeans ==
    ASSUME NEW s \in Seq(Line), NEW e \in Line, NEW m \in [past : BOOLEAN, keys : SUBSET Key],
           CommonMeans(m, s)
    PROVE  CommonMeans(CommonLine(m, e), Append(s, e))
<1> DEFINE t == Append(s, e)
           past == m.past \/ e \in HeaderLine
           keys == m.keys \cup IF m.past THEN {} ELSE KeysIn(e)
<1>1. CommonLine(m, e) = [past |-> past, keys |-> keys]
  BY DEF CommonLine
<1>2. past <=> Before(t, Len(t) + 1, HeaderLine) # {}
  <2>1. Before(t, Len(t) + 1, HeaderLine)
           = Before(s, Len(s) + 1, HeaderLine) \cup IF e \in HeaderLine THEN {Len(s) + 1} ELSE {}
    BY LongerBefore
  <2>2. m.past <=> Before(s, Len(s) + 1, HeaderLine) # {}
    BY DEF CommonMeans
  <2>3. CASE e \in HeaderLine
    BY <2>1, <2>3
  <2>4. CASE e \notin HeaderLine
    <3>1. Before(t, Len(t) + 1, HeaderLine) = Before(s, Len(s) + 1, HeaderLine)
      BY <2>1, <2>4
    <3> HIDE DEF t
    <3> QED
      BY <2>2, <2>4, <3>1
  <2> QED
    BY <2>3, <2>4
<1>3. ASSUME NEW k PROVE k \in keys <=> Heads(t, k)
  BY LongerHeads DEF CommonMeans
<1> HIDE DEF t, past, keys
<1>4. CommonMeans([past |-> past, keys |-> keys], t)
  BY <1>2, <1>3 DEF CommonMeans
<1> QED
  BY <1>1, <1>4 DEF t

LEMMA NothingMeans ==
    /\ ContentMeans(ContentStart, <<>>)
    /\ IndexesMeans(IndexesStart, <<>>)
    /\ CommonMeans(CommonStart, <<>>)
<1>1. Len(<<>>) = 0 /\ DOMAIN <<>> = {} /\ 1..(0 + 1 - 1) = {}
  OBVIOUS
<1>2. \A L : LinesIn(<<>>, L) = {} /\ Before(<<>>, 0 + 1, L) = {}
  BY <1>1 DEF LinesIn, Before
<1>3. Headers(<<>>) = {} /\ Governing(<<>>, 0 + 1) = {} /\ SectionAt(<<>>, 0 + 1) = "default"
  BY <1>2 DEF Headers, Governing, SectionAt
<1>4. ContentMeans(ContentStart, <<>>)
  BY <1>1, <1>2, <1>3 DEF ContentMeans, ContentStart, KeysAt, Governed
<1>5. IndexesMeans(IndexesStart, <<>>)
  BY <1>1, <1>2, <1>3 DEF IndexesMeans, IndexesStart, InSection
<1>6. CommonMeans(CommonStart, <<>>)
  BY <1>1, <1>2, <1>3 DEF CommonMeans, CommonStart, Heads
<1> QED
  BY <1>4, <1>5, <1>6

----------------------------------------------------------------------------
(* The rules of a file are what its lines declare, for each kind of file.  *)

\* The definitions, a member at a time.
LEMMA DeclaresIs ==
    ASSUME NEW f, NEW p, NEW k
    PROVE  p \in Declares(f, k) <=>
              \/ \E n \in LinesIn(f.lines, KeyLine) : f.lines[n].name = k /\ p \in SpeaksFor(f, n)
              \/ f.conf = "inputs.conf" /\ k = "disabled" /\ p \in Headers(f.lines)
<1> DEFINE N == {n \in LinesIn(f.lines, KeyLine) : f.lines[n].name = k}
           D == UNION {SpeaksFor(f, n) : n \in N}
           E == IF f.conf = "inputs.conf" /\ k = "disabled" THEN Headers(f.lines) ELSE {}
<1>1. Declares(f, k) = D \cup E
  BY DEF Declares
<1>2. p \in D <=> \E n \in LinesIn(f.lines, KeyLine) : f.lines[n].name = k /\ p \in SpeaksFor(f, n)
  OBVIOUS
<1>3. p \in E <=> f.conf = "inputs.conf" /\ k = "disabled" /\ p \in Headers(f.lines)
  OBVIOUS
<1> HIDE DEF D, E
<1> QED
  BY <1>1, <1>2, <1>3

LEMMA StanzasIs ==
    ASSUME NEW f, f.conf # "indexes.conf", NEW p
    PROVE  p \in Stanzas(f) <=>
              \/ p \in Headers(f.lines)
              \/ \E n \in LinesIn(f.lines, KeyLine) : p \in SpeaksFor(f, n)
  BY DEF Stanzas

LEMMA SpeaksForIs ==
    ASSUME NEW f, NEW n
    PROVE  /\ f.conf = "inputs.conf" => SpeaksFor(f, n) =
                IF Before(f.lines, n, HeaderLine) = {} THEN Headers(f.lines) ELSE Governing(f.lines, n)
           /\ f.conf = "server.conf" => SpeaksFor(f, n) =
                Governing(f.lines, n) \cup
                IF Governing(f.lines, n) \cap Lmpool # {} THEN {"lmpool:<name>"} ELSE {}
           /\ f.conf \notin {"inputs.conf", "server.conf", "indexes.conf"} =>
                SpeaksFor(f, n) = Governing(f.lines, n)
<1>1. CASE f.conf = "inputs.conf"
  BY <1>1 DEF SpeaksFor
<1>2. CASE f.conf = "server.conf"
  BY <1>2 DEF SpeaksFor
<1>3. CASE f.conf \notin {"inputs.conf", "server.conf", "indexes.conf"}
  <2>1. f.conf # "inputs.conf" /\ f.conf # "server.conf" /\ f.conf # "indexes.conf"
    BY <1>3
  <2>2. SpeaksFor(f, n) = Governing(f.lines, n)
    BY <2>1 DEF SpeaksFor
  <2> QED
    BY <2>1, <2>2
<1> QED
  BY <1>1, <1>2, <1>3

LEMMA SpeaksForIndexes ==
    ASSUME NEW f, f.conf = "indexes.conf", NEW n
    PROVE  /\ SectionAt(f.lines, n) = "default" => SpeaksFor(f, n) = {"default"}
           /\ SectionAt(f.lines, n) = "PER INDEX OPTIONS" => SpeaksFor(f, n) = {"default", "<index>"}
           /\ SectionAt(f.lines, n) = "Volume settings" => SpeaksFor(f, n) = {"volume:<volume>"}
<1>1. CASE SectionAt(f.lines, n) = "default"
  BY <1>1 DEF SpeaksFor
<1>2. CASE SectionAt(f.lines, n) = "PER INDEX OPTIONS"
  BY <1>2 DEF SpeaksFor
<1>3. CASE SectionAt(f.lines, n) = "Volume settings"
  BY <1>3 DEF SpeaksFor
<1> QED
  BY <1>1, <1>2, <1>3

LEMMA SectionAtType ==
    ASSUME NEW s \in Seq(Line), NEW n \in 1..Len(s) + 1
    PROVE  SectionAt(s, n) \in Section
<1>1. Len(s) \in Nat /\ DOMAIN s = 1..Len(s) /\ \A h \in 1..Len(s) : s[h] \in Line
  OBVIOUS
<1>2. Before(s, n, TitleLine) \in SUBSET (1..Len(s))
  BY <1>1, BeforeType
<1>3. Before(s, n, TitleLine) # {} => LastOf(Before(s, n, TitleLine)) \in Before(s, n, TitleLine)
  BY <1>1, <1>2, LastIs
<1>4. \A h \in Before(s, n, TitleLine) : s[h].kind \in Titles
  BY <1>1, <1>2, LineKinds DEF Before
<1> QED
  BY <1>3, <1>4 DEF SectionAt, Section

\* What the parsers have of a file, as long as they have its lines.
Parsing ==
    /\ ContentMeans(inContent, content)
    /\ IndexesMeans(inIndexes, content)
    /\ CommonMeans(inCommon, content)

\* The file at hand, if it ended here, and its rules.
AtHand == [conf |-> conf, lines |-> content]
ParsedMeans ==
    /\ DOMAIN Parsed = Stanzas(AtHand)
    /\ \A p, k : k \in KeysAt(Parsed, p) <=> p \in Declares(AtHand, k)

\* A conf file without rules of its own.
LEMMA OtherMeans ==
    ASSUME RegistryTypeOK, Parsing, conf \notin {"inputs.conf", "server.conf", "indexes.conf"}
    PROVE  ParsedMeans
<1>1. AtHand.conf = conf /\ AtHand.lines = content
  BY DEF AtHand
<1>2. Parsed = inContent.rules
  BY DEF Parsed
<1>3. \A n : SpeaksFor(AtHand, n) = Governing(content, n)
  BY <1>1, SpeaksForIs
<1>4. \A n \in LinesIn(content, KeyLine) : Governing(content, n) \subseteq Headers(content)
  <2> TAKE n \in LinesIn(content, KeyLine)
  <2>1. content \in Seq(Line)
    BY DEF RegistryTypeOK
  <2>2. n \in 1..Len(content) /\ Len(content) \in Nat
    BY <2>1, LineIsKey
  <2>3. n \in 1..Len(content) + 1
    BY <2>2
  <2> QED
    BY <2>1, <2>3, GoverningIsHeader
<1>5. DOMAIN Parsed = Stanzas(AtHand)
  <2>1. \A p : p \in Stanzas(AtHand) <=> p \in Headers(content)
    BY <1>1, <1>3, <1>4, StanzasIs
  <2> QED
    BY <1>2, <2>1 DEF Parsing, ContentMeans
<1>6. ASSUME NEW p, NEW k PROVE k \in KeysAt(Parsed, p) <=> p \in Declares(AtHand, k)
  <2>1. p \in Declares(AtHand, k) <=> Governed(content, p, k)
    BY <1>1, <1>3, DeclaresIs DEF Governed
  <2> QED
    BY <1>2, <2>1 DEF Parsing, ContentMeans
<1> QED
  BY <1>5, <1>6 DEF ParsedMeans

LEMMA GovernedAreHeaders ==
    ASSUME NEW s \in Seq(Line), NEW n \in LinesIn(s, KeyLine)
    PROVE  /\ Governing(s, n) \subseteq Headers(s)
           /\ n \in 1..Len(s) + 1
<1>1. n \in 1..Len(s) /\ Len(s) \in Nat
  BY LineIsKey
<1>2. n \in 1..Len(s) + 1
  BY <1>1
<1> QED
  BY <1>2, GoverningIsHeader

LEMMA ContentIs ==
    ASSUME RegistryTypeOK, Parsing
    PROVE  /\ content \in Seq(Line)
           /\ DOMAIN inContent.rules = Headers(content)
           /\ \A p, k : k \in KeysAt(inContent.rules, p) <=> Governed(content, p, k)
           /\ \A p, k : Governed(content, p, k) => p \in Headers(content)
<1>1. content \in Seq(Line)
  BY DEF RegistryTypeOK
<1>2. \A p, k : Governed(content, p, k) => p \in Headers(content)
  BY <1>1, GovernedAreHeaders DEF Governed
<1> QED
  BY <1>1, <1>2 DEF Parsing, ContentMeans

\* The keys before every header are of every stanza, and so is "disabled".
LEMMA InputsMeans ==
    ASSUME RegistryTypeOK, Parsing, conf = "inputs.conf"
    PROVE  ParsedMeans
<1>1. AtHand.conf = "inputs.conf" /\ AtHand.lines = content
  BY DEF AtHand
<1>2. Parsed = InputsRules
  BY DEF Parsed
<1>3. \A n : SpeaksFor(AtHand, n) =
                IF Before(content, n, HeaderLine) = {} THEN Headers(content) ELSE Governing(content, n)
  BY <1>1, SpeaksForIs
<1>4. \A n \in LinesIn(content, KeyLine) : Governing(content, n) \subseteq Headers(content)
  BY ContentIs, GovernedAreHeaders
<1>5. \A n : Before(content, n, HeaderLine) = {} => Governing(content, n) = {}
  BY DEF Governing
<1>6. DOMAIN Parsed = Stanzas(AtHand)
  <2>1. \A p : p \in Stanzas(AtHand) <=> p \in Headers(content)
    BY <1>1, <1>3, <1>4, StanzasIs
  <2>2. DOMAIN InputsRules = Headers(content)
    BY ContentIs DEF InputsRules
  <2> QED
    BY <1>2, <2>1, <2>2
<1>7. ASSUME NEW p, NEW k PROVE k \in KeysAt(Parsed, p) <=> p \in Declares(AtHand, k)
  <2>1. p \in Declares(AtHand, k) <=>
           p \in Headers(content) /\ (Governed(content, p, k) \/ Heads(content, k) \/ k = "disabled")
    <3>1. p \in Declares(AtHand, k) <=>
             \/ \E n \in LinesIn(content, KeyLine) : content[n].name = k /\ p \in SpeaksFor(AtHand, n)
             \/ k = "disabled" /\ p \in Headers(content)
      BY <1>1, DeclaresIs
    <3> QED
      BY <1>3, <1>4, <1>5, <3>1 DEF Governed, Heads
  <2>2. k \in inCommon.keys <=> Heads(content, k)
    BY DEF Parsing, CommonMeans
  <2>3. k \in KeysAt(InputsRules, p) <=>
           p \in Headers(content)
           /\ (k \in KeysAt(inContent.rules, p) \/ k \in inCommon.keys \/ k = "disabled")
    BY ContentIs DEF InputsRules, KeysAt
  <2> QED
    BY <1>2, <2>1, <2>2, <2>3, ContentIs
<1> QED
  BY <1>6, <1>7 DEF ParsedMeans

\* What one pool has, every pool has.
LEMMA ServerMeans ==
    ASSUME RegistryTypeOK, Parsing, conf = "server.conf"
    PROVE  ParsedMeans
<1> DEFINE rules == inContent.rules
           K == UNION {rules[p] : p \in DOMAIN rules \cap Lmpool}
           pool == "lmpool:<name>"
<1>1. AtHand.conf = "server.conf" /\ AtHand.lines = content
  BY DEF AtHand
<1>2. Parsed = IF K = {} THEN rules ELSE Adding(rules, pool, K)
  BY DEF Parsed, ServerRules
<1>3. \A n : SpeaksFor(AtHand, n) =
                Governing(content, n) \cup IF Governing(content, n) \cap Lmpool # {} THEN {pool} ELSE {}
  BY <1>1, SpeaksForIs
<1>4. \A n \in LinesIn(content, KeyLine) : Governing(content, n) \subseteq Headers(content)
  BY ContentIs, GovernedAreHeaders
<1>5. \A k : k \in K <=> \E n \in LinesIn(content, KeyLine) :
                            content[n].name = k /\ Governing(content, n) \cap Lmpool # {}
  <2> TAKE k
  <2>1. k \in K <=> \E p \in DOMAIN rules \cap Lmpool : k \in KeysAt(rules, p)
    BY DEF KeysAt
  <2>2. k \in K <=> \E p \in Lmpool : Governed(content, p, k)
    <3> HIDE DEF K
    <3> QED
      BY <2>1, ContentIs
  <2> QED
    BY <2>2 DEF Governed
<1> HIDE DEF K
<1>6. DOMAIN Parsed = Stanzas(AtHand)
  <2>1. \A p : p \in Stanzas(AtHand) <=> p \in Headers(content) \/ (p = pool /\ K # {})
    <3> TAKE p
    <3>1. p \in Stanzas(AtHand) <=>
             p \in Headers(content) \/ \E n \in LinesIn(content, KeyLine) : p \in SpeaksFor(AtHand, n)
      BY <1>1, StanzasIs
    <3> QED
      BY <1>3, <1>4, <1>5, <3>1
  <2>2. DOMAIN rules = Headers(content)
    BY ContentIs
  <2>3. DOMAIN Parsed = IF K = {} THEN DOMAIN rules ELSE DOMAIN rules \cup {pool}
    BY <1>2 DEF Adding
  <2> QED
    BY <2>1, <2>2, <2>3
<1>7. ASSUME NEW p, NEW k PROVE k \in KeysAt(Parsed, p) <=> p \in Declares(AtHand, k)
  <2>1. p \in Declares(AtHand, k) <=> Governed(content, p, k) \/ (p = pool /\ k \in K)
    <3>1. p \in Declares(AtHand, k) <=>
             \E n \in LinesIn(content, KeyLine) : content[n].name = k /\ p \in SpeaksFor(AtHand, n)
      BY <1>1, DeclaresIs
    <3> QED
      BY <1>3, <1>5, <3>1 DEF Governed
  <2>2. k \in KeysAt(Parsed, p) <=> k \in KeysAt(rules, p) \/ (p = pool /\ k \in K)
    BY <1>2 DEF Adding, KeysAt
  <2> QED
    BY <2>1, <2>2, ContentIs
<1> QED
  BY <1>6, <1>7 DEF ParsedMeans

\* What counts is the section.
LEMMA IndexesMeansRules ==
    ASSUME RegistryTypeOK, Parsing, conf = "indexes.conf"
    PROVE  ParsedMeans
<1> DEFINE keys == inIndexes.keys
           three == {"default", "<index>", "volume:<volume>"}
<1>1. AtHand.conf = "indexes.conf" /\ AtHand.lines = content
  BY DEF AtHand
<1>2. Parsed = IndexesRules
  BY DEF Parsed
<1>3. \A p, k : k \in KeysAt(IndexesRules, p) <=>
            \/ p = "default" /\ (k \in keys["default"] \/ k \in keys["PER INDEX OPTIONS"])
            \/ p = "<index>" /\ k \in keys["PER INDEX OPTIONS"]
            \/ p = "volume:<volume>" /\ k \in keys["Volume settings"]
  <2>1. DOMAIN IndexesRules = three
    BY DEF IndexesRules
  <2>2. IndexesRules["default"] = keys["default"] \cup keys["PER INDEX OPTIONS"]
    BY DEF IndexesRules
  <2>3. IndexesRules["<index>"] = keys["PER INDEX OPTIONS"]
    BY DEF IndexesRules
  <2>4. IndexesRules["volume:<volume>"] = keys["Volume settings"]
    BY DEF IndexesRules
  <2> HIDE DEF keys
  <2> QED
    BY <2>1, <2>2, <2>3, <2>4 DEF KeysAt
<1>4. \A x \in Section : \A k : k \in keys[x] <=> InSection(content, x, k)
  BY DEF Parsing, IndexesMeans
<1>5. \A n \in LinesIn(content, KeyLine) : SectionAt(content, n) \in Section
  BY ContentIs, GovernedAreHeaders, SectionAtType
<1> HIDE DEF keys
<1>6. DOMAIN Parsed = Stanzas(AtHand)
  <2>1. DOMAIN IndexesRules = three
    BY DEF IndexesRules
  <2> QED
    BY <1>1, <1>2, <2>1 DEF Stanzas
<1>7. ASSUME NEW p, NEW k PROVE k \in KeysAt(Parsed, p) <=> p \in Declares(AtHand, k)
  <2>1. p \in Declares(AtHand, k) <=>
           \E n \in LinesIn(content, KeyLine) : content[n].name = k /\ p \in SpeaksFor(AtHand, n)
    BY <1>1, DeclaresIs
  <2>2. ASSUME NEW n \in LinesIn(content, KeyLine)
        PROVE  p \in SpeaksFor(AtHand, n) <=>
                 \/ p = "default" /\ (SectionAt(content, n) = "default"
                                      \/ SectionAt(content, n) = "PER INDEX OPTIONS")
                 \/ p = "<index>" /\ SectionAt(content, n) = "PER INDEX OPTIONS"
                 \/ p = "volume:<volume>" /\ SectionAt(content, n) = "Volume settings"
    <3>1. CASE SectionAt(content, n) = "default"
      <4>1. SpeaksFor(AtHand, n) = {"default"}
        BY <1>1, <3>1, SpeaksForIndexes
      <4> QED
        BY <3>1, <4>1
    <3>2. CASE SectionAt(content, n) = "PER INDEX OPTIONS"
      <4>1. SpeaksFor(AtHand, n) = {"default", "<index>"}
        BY <1>1, <3>2, SpeaksForIndexes
      <4> QED
        BY <3>2, <4>1
    <3>3. CASE SectionAt(content, n) = "Volume settings"
      <4>1. SpeaksFor(AtHand, n) = {"volume:<volume>"}
        BY <1>1, <3>3, SpeaksForIndexes
      <4> QED
        BY <3>3, <4>1
    <3> QED
      BY <1>5, <3>1, <3>2, <3>3 DEF Section, Titles
  <2>3. /\ k \in keys["default"] <=> InSection(content, "default", k)
        /\ k \in keys["PER INDEX OPTIONS"] <=> InSection(content, "PER INDEX OPTIONS", k)
        /\ k \in keys["Volume settings"] <=> InSection(content, "Volume settings", k)
    BY <1>4 DEF Section, Titles
  <2>4. p \in Declares(AtHand, k) <=>
            \/ p = "default" /\ (InSection(content, "default", k)
                                 \/ InSection(content, "PER INDEX OPTIONS", k))
            \/ p = "<index>" /\ InSection(content, "PER INDEX OPTIONS", k)
            \/ p = "volume:<volume>" /\ InSection(content, "Volume settings", k)
    BY <2>1, <2>2 DEF InSection
  <2> QED
    BY <1>2, <1>3, <2>3, <2>4
<1> QED
  BY <1>6, <1>7 DEF ParsedMeans

LEMMA ParsedIs ==
    ASSUME RegistryTypeOK, Parsing
    PROVE  ParsedMeans
<1>1. CASE conf = "inputs.conf"
  BY <1>1, InputsMeans
<1>2. CASE conf = "server.conf"
  BY <1>2, ServerMeans
<1>3. CASE conf = "indexes.conf"
  BY <1>3, IndexesMeansRules
<1>4. CASE conf \notin {"inputs.conf", "server.conf", "indexes.conf"}
  BY <1>4, OtherMeans
<1> QED
  BY <1>1, <1>2, <1>3, <1>4

----------------------------------------------------------------------------
(* Types.                                                                  *)

LEMMA IsRules ==
    ASSUME NEW P \in SUBSET Pattern, NEW f \in [P -> SUBSET Key]
    PROVE  f \in Rules
  BY DEF Rules

LEMMA OfRules ==
    ASSUME NEW f \in Rules
    PROVE  /\ DOMAIN f \subseteq Pattern
           /\ \A p \in DOMAIN f : f[p] \in SUBSET Key
           /\ \A p : KeysAt(f, p) \in SUBSET Key
<1>1. PICK P \in SUBSET Pattern : f \in [P -> SUBSET Key]
  BY DEF Rules
<1> QED
  BY <1>1 DEF KeysAt

LEMMA KeysInType == ASSUME NEW e \in Line PROVE KeysIn(e) \in SUBSET Key
  BY LineKinds DEF KeysIn

LEMMA ContentLineType ==
    ASSUME NEW m \in [at : SUBSET Header, rules : Rules], NEW e \in Line
    PROVE  ContentLine(m, e) \in [at : SUBSET Header, rules : Rules]
<1> DEFINE at == IF e \in HeaderLine THEN Opened(e) ELSE m.at
           rules == [p \in DOMAIN m.rules \cup at |->
                        KeysAt(m.rules, p) \cup IF p \in at THEN KeysIn(e) ELSE {}]
<1>1. ContentLine(m, e) = [at |-> at, rules |-> rules]
  BY DEF ContentLine
<1>2. at \in SUBSET Header
  BY LineKinds
<1>3. m.rules \in Rules
  OBVIOUS
<1>4. DOMAIN m.rules \cup at \in SUBSET Pattern
  BY <1>2, <1>3, OfRules, ConfSpecAssumption
<1>5. \A p : KeysAt(m.rules, p) \cup (IF p \in at THEN KeysIn(e) ELSE {}) \in SUBSET Key
  BY <1>3, OfRules, KeysInType
<1>6. rules \in [DOMAIN m.rules \cup at -> SUBSET Key]
  <2> HIDE DEF at
  <2> QED
    BY <1>5
<1> HIDE DEF at, rules
<1>7. rules \in Rules
  BY <1>4, <1>6, IsRules
<1> QED
  BY <1>1, <1>2, <1>7

LEMMA IndexesLineType ==
    ASSUME NEW m \in [at : Section, keys : [Section -> SUBSET Key]], NEW e \in Line
    PROVE  IndexesLine(m, e) \in [at : Section, keys : [Section -> SUBSET Key]]
  BY LineKinds, KeysInType DEF IndexesLine, Section

LEMMA CommonLineType ==
    ASSUME NEW m \in [past : BOOLEAN, keys : SUBSET Key], NEW e \in Line
    PROVE  CommonLine(m, e) \in [past : BOOLEAN, keys : SUBSET Key]
  BY KeysInType DEF CommonLine

LEMMA ParsedType ==
    ASSUME RegistryTypeOK
    PROVE  Parsed \in Rules
<1>1. inContent.rules \in Rules
  BY DEF RegistryTypeOK
<1>2. IndexesRules \in Rules
  <2> DEFINE three == {"default", "<index>", "volume:<volume>"}
  <2>1. inIndexes.keys \in [Section -> SUBSET Key]
    BY DEF RegistryTypeOK
  <2>2. /\ inIndexes.keys["default"] \in SUBSET Key
        /\ inIndexes.keys["PER INDEX OPTIONS"] \in SUBSET Key
        /\ inIndexes.keys["Volume settings"] \in SUBSET Key
    BY <2>1 DEF Section, Titles
  <2>3. IndexesRules \in [three -> SUBSET Key]
    BY <2>2 DEF IndexesRules
  <2>4. three \in SUBSET Pattern
    BY ConfSpecAssumption
  <2> QED
    BY <2>3, <2>4, IsRules
<1>3. InputsRules \in Rules
  <2>1. \A p \in DOMAIN inContent.rules :
           inContent.rules[p] \cup inCommon.keys \cup {"disabled"} \in SUBSET Key
    BY <1>1, OfRules, ConfSpecAssumption DEF RegistryTypeOK
  <2>2. InputsRules \in [DOMAIN inContent.rules -> SUBSET Key]
    BY <2>1 DEF InputsRules
  <2> QED
    BY <1>1, <2>2, OfRules, IsRules
<1>4. ServerRules \in Rules
  <2> DEFINE K == UNION {inContent.rules[p] : p \in DOMAIN inContent.rules \cap Lmpool}
             D == DOMAIN inContent.rules \cup {"lmpool:<name>"}
  <2>1. ServerRules = IF K = {} THEN inContent.rules ELSE Adding(inContent.rules, "lmpool:<name>", K)
    BY DEF ServerRules
  <2>2. K \in SUBSET Key
    BY <1>1, OfRules
  <2> HIDE DEF K
  <2>3. \A q : KeysAt(inContent.rules, q) \cup (IF q = "lmpool:<name>" THEN K ELSE {}) \in SUBSET Key
    BY <1>1, <2>2, OfRules
  <2>4. Adding(inContent.rules, "lmpool:<name>", K) \in [D -> SUBSET Key]
    BY <2>3 DEF Adding
  <2>5. D \in SUBSET Pattern
    BY <1>1, OfRules, ConfSpecAssumption
  <2>6. Adding(inContent.rules, "lmpool:<name>", K) \in Rules
    <3> HIDE DEF D
    <3> QED
      BY <2>4, <2>5, IsRules
  <2> QED
    BY <1>1, <2>1, <2>6
<1>5. CASE conf = "inputs.conf"
  BY <1>3, <1>5 DEF Parsed
<1>6. CASE conf = "server.conf"
  BY <1>4, <1>6 DEF Parsed
<1>7. CASE conf = "indexes.conf"
  BY <1>2, <1>7 DEF Parsed
<1>8. CASE conf # "inputs.conf" /\ conf # "server.conf" /\ conf # "indexes.conf"
  BY <1>1, <1>8 DEF Parsed
<1> QED
  BY <1>5, <1>6, <1>7, <1>8

LEMMA MergeParsedType ==
    ASSUME NEW old \in Rules, NEW parsed \in Rules
    PROVE  MergeParsed(old, parsed) \in Rules
<1> DEFINE D == DOMAIN old \cup DOMAIN parsed
<1>1. \A p : KeysAt(old, p) \cup KeysAt(parsed, p) \in SUBSET Key
  BY OfRules
<1>2. MergeParsed(old, parsed) \in [D -> SUBSET Key]
  BY <1>1 DEF MergeParsed
<1>3. D \in SUBSET Pattern
  BY OfRules
<1> HIDE DEF D
<1> QED
  BY <1>2, <1>3, IsRules

LEMMA NoRules == <<>> \in Rules
<1>1. <<>> \in [{} -> SUBSET Key]
  OBVIOUS
<1> QED
  BY <1>1, IsRules

LEMMA StartType ==
    /\ ContentStart \in [at : SUBSET Header, rules : Rules]
    /\ IndexesStart \in [at : Section, keys : [Section -> SUBSET Key]]
    /\ CommonStart \in [past : BOOLEAN, keys : SUBSET Key]
    /\ <<>> \in Seq(Line)
  BY NoRules DEF ContentStart, IndexesStart, CommonStart, Section

LEMMA RegistryTypeStep ==
    ASSUME RegistryTypeOK, [RegistryNext]_registryVars
    PROVE  RegistryTypeOK'
<1> USE DEF RegistryTypeOK
<1>1. ASSUME NEW c \in Conf, FindFile(c) PROVE RegistryTypeOK'
  BY <1>1 DEF FindFile, parsers
<1>2. ASSUME NEW line \in Line, ParseLine(line) PROVE RegistryTypeOK'
  <2>1. /\ inContent' \in [at : SUBSET Header, rules : Rules]
        /\ inIndexes' \in [at : Section, keys : [Section -> SUBSET Key]]
        /\ inCommon' \in [past : BOOLEAN, keys : SUBSET Key]
    BY <1>2, ContentLineType, IndexesLineType, CommonLineType DEF ParseLine
  <2>2. content' \in Seq(Line)
    BY <1>2 DEF ParseLine
  <2> QED
    BY <1>2, <2>1, <2>2 DEF ParseLine
<1>3. CASE ReadFails
  BY <1>3 DEF ReadFails, parsers
<1>4. CASE MergeFile
  <2> DEFINE old == IF conf \in DOMAIN specs THEN specs[conf] ELSE <<>>
             here == [conf |-> conf, lines |-> content]
  <2>1. MergeParsed(old, Parsed) \in Rules
    BY NoRules, ParsedType, MergeParsedType
  <2>2. specs' = [c \in DOMAIN specs \cup {conf} |->
                    IF c # conf THEN specs[c] ELSE MergeParsed(old, Parsed)]
    BY <1>4 DEF MergeFile
  <2>3. DOMAIN specs' \subseteq Conf /\ \A c \in DOMAIN specs' : specs'[c] \in Rules
    <3> HIDE DEF old
    <3>1. DOMAIN specs' = DOMAIN specs \cup {conf}
      BY <2>2
    <3>2. \A c \in DOMAIN specs' : specs'[c] \in Rules
      BY <2>1, <2>2, <3>1
    <3> QED
      BY <3>1, <3>2
  <2>4. files' \in Seq([conf : Conf, lines : Seq(Line)]) /\ loaded' = Len(files')
    <3>1. files \in Seq([conf : Conf, lines : Seq(Line)]) /\ here \in [conf : Conf, lines : Seq(Line)]
      OBVIOUS
    <3>2. files' = Append(files, here) /\ loaded' = loaded + 1
      BY <1>4 DEF MergeFile
    <3> HIDE DEF here
    <3> QED
      BY <3>1, <3>2
  <2> QED
    BY <1>4, <2>3, <2>4, StartType DEF MergeFile
<1>5. CASE Loaded
  BY <1>5 DEF Loaded, parsers
<1>6. CASE UNCHANGED registryVars
  BY <1>6 DEF registryVars, parsers
<1> QED
  BY <1>1, <1>2, <1>3, <1>4, <1>5, <1>6 DEF RegistryNext

LEMMA RegistryTypeInit == RegistryInit => RegistryTypeOK
  BY StartType DEF RegistryInit, RegistryTypeOK

\* load_from_dir keeps its state well formed, and loaded_files counts the files it merged.
THEOREM RegistryTypeCorrect == RegistrySpec => []RegistryTypeOK
  BY RegistryTypeInit, RegistryTypeStep, PTL DEF RegistrySpec

----------------------------------------------------------------------------
(* The registry, and what validate_doc says by it.                         *)

\* What the registry has of the files that are merged.
SpecsMean ==
    /\ \A c : c \in DOMAIN specs <=> FilesOf(c) # {}
    /\ \A c \in DOMAIN specs : \A p :
          p \in DOMAIN specs[c] <=> \E f \in FilesOf(c) : p \in Stanzas(f)
    /\ \A c \in DOMAIN specs : \A p, k :
          k \in KeysAt(specs[c], p) <=> \E f \in FilesOf(c) : p \in Declares(f, k)

\* The inductive invariant.
RegistryInv == RegistryTypeOK /\ Parsing /\ SpecsMean

LEMMA OneMoreFile ==
    ASSUME RegistryTypeOK, files' = Append(files, AtHand), NEW c
    PROVE  FilesOf(c)' = FilesOf(c) \cup IF c = conf THEN {AtHand} ELSE {}
<1> DEFINE F == [conf : Conf, lines : Seq(Line)]
<1>1. files \in Seq(F) /\ AtHand \in F
  BY DEF RegistryTypeOK, AtHand
<1>2. AtHand.conf = conf
  BY DEF AtHand
<1>3. {files'[n] : n \in DOMAIN files'} = {files[n] : n \in DOMAIN files} \cup {AtHand}
  <2> HIDE DEF F
  <2>1. /\ DOMAIN files = 1..Len(files) /\ Len(files) \in Nat
        /\ DOMAIN files' = 1..Len(files) + 1
        /\ files'[Len(files) + 1] = AtHand
    BY <1>1
  <2>2. \A n \in 1..Len(files) : files'[n] = files[n]
    BY <1>1
  <2>3. 1..Len(files) + 1 = 1..Len(files) \cup {Len(files) + 1}
    BY <2>1
  <2> QED
    BY <2>1, <2>2, <2>3
<1> QED
  BY <1>2, <1>3 DEF FilesOf

LEMMA SpecsMeanMerge ==
    ASSUME RegistryInv, MergeFile
    PROVE  SpecsMean'
<1> DEFINE old == IF conf \in DOMAIN specs THEN specs[conf] ELSE <<>>
<1>1. RegistryTypeOK /\ SpecsMean /\ ParsedMeans
  BY ParsedIs DEF RegistryInv
<1>2. specs' = [c \in DOMAIN specs \cup {conf} |->
                  IF c # conf THEN specs[c] ELSE MergeParsed(old, Parsed)]
  BY DEF MergeFile
<1>3. /\ DOMAIN specs' = DOMAIN specs \cup {conf}
      /\ \A c \in DOMAIN specs : c # conf => specs'[c] = specs[c]
      /\ specs'[conf] = MergeParsed(old, Parsed)
  <2> HIDE DEF old
  <2> QED
    BY <1>2
<1>4. files' = Append(files, AtHand)
  BY DEF MergeFile, AtHand
<1>5. \A c : FilesOf(c)' = FilesOf(c) \cup IF c = conf THEN {AtHand} ELSE {}
  BY <1>1, <1>4, OneMoreFile
<1>6. \A p : p \in DOMAIN old <=> \E f \in FilesOf(conf) : p \in Stanzas(f)
  BY <1>1 DEF SpecsMean
<1>7. \A p, k : k \in KeysAt(old, p) <=> \E f \in FilesOf(conf) : p \in Declares(f, k)
  <2>1. CASE conf \in DOMAIN specs
    BY <1>1, <2>1 DEF SpecsMean
  <2>2. CASE conf \notin DOMAIN specs
    <3>1. DOMAIN old = {} /\ FilesOf(conf) = {}
      BY <1>1, <2>2 DEF SpecsMean
    <3> QED
      BY <3>1 DEF KeysAt
  <2> QED
    BY <2>1, <2>2
<1> HIDE DEF old
<1>8. DOMAIN MergeParsed(old, Parsed) = DOMAIN old \cup Stanzas(AtHand)
  BY <1>1 DEF MergeParsed, ParsedMeans
<1>9. \A p, k : k \in KeysAt(MergeParsed(old, Parsed), p)
                   <=> k \in KeysAt(old, p) \/ p \in Declares(AtHand, k)
  BY <1>1 DEF MergeParsed, ParsedMeans, KeysAt
<1>10. \A c : c \in DOMAIN specs' <=> FilesOf(c)' # {}
  BY <1>1, <1>3, <1>5 DEF SpecsMean
<1>11. ASSUME NEW c \in DOMAIN specs', NEW p
       PROVE  /\ p \in DOMAIN specs'[c] <=> \E f \in FilesOf(c)' : p \in Stanzas(f)
              /\ \A k : k \in KeysAt(specs'[c], p) <=> \E f \in FilesOf(c)' : p \in Declares(f, k)
  <2>1. CASE c = conf
    BY <1>3, <1>5, <1>6, <1>7, <1>8, <1>9, <2>1
  <2>2. CASE c # conf
    <3>1. c \in DOMAIN specs /\ specs'[c] = specs[c] /\ FilesOf(c)' = FilesOf(c)
      BY <1>3, <1>5, <2>2
    <3> QED
      BY <1>1, <3>1 DEF SpecsMean
  <2> QED
    BY <2>1, <2>2
<1> QED
  BY <1>10, <1>11 DEF SpecsMean, Stanzas, Declares, KeysAt

LEMMA RegistryInvStep ==
    ASSUME RegistryInv, [RegistryNext]_registryVars
    PROVE  RegistryInv'
<1>1. RegistryTypeOK'
  BY RegistryTypeStep DEF RegistryInv
<1> SUFFICES Parsing' /\ SpecsMean'
  BY <1>1 DEF RegistryInv
<1>2. ASSUME UNCHANGED <<specs, files>> PROVE SpecsMean'
  <2>1. SpecsMean
    BY DEF RegistryInv
  <2> QED
    BY <1>2, <2>1 DEF SpecsMean, FilesOf
<1>3. ASSUME UNCHANGED <<content, parsers>> PROVE Parsing'
  BY <1>3 DEF RegistryInv, Parsing, parsers
<1>4. ASSUME NEW c \in Conf, FindFile(c) PROVE Parsing' /\ SpecsMean'
  BY <1>2, <1>3, <1>4 DEF FindFile
<1>5. ASSUME NEW line \in Line, ParseLine(line) PROVE Parsing' /\ SpecsMean'
  <2>1. /\ content \in Seq(Line)
        /\ inIndexes \in [at : Section, keys : [Section -> SUBSET Key]]
        /\ inCommon \in [past : BOOLEAN, keys : SUBSET Key]
        /\ ContentMeans(inContent, content)
        /\ IndexesMeans(inIndexes, content)
        /\ CommonMeans(inCommon, content)
    BY DEF RegistryInv, RegistryTypeOK, Parsing
  <2>2. /\ content' = Append(content, line)
        /\ inContent' = ContentLine(inContent, line)
        /\ inIndexes' = IndexesLine(inIndexes, line)
        /\ inCommon' = CommonLine(inCommon, line)
    BY <1>5 DEF ParseLine
  <2>3. Parsing'
    BY <2>1, <2>2, ContentLineMeans, IndexesLineMeans, CommonLineMeans DEF Parsing
  <2> QED
    BY <1>2, <1>5, <2>3 DEF ParseLine
<1>6. CASE ReadFails
  BY <1>2, <1>3, <1>6 DEF ReadFails
<1>7. CASE MergeFile
  BY <1>7, SpecsMeanMerge, NothingMeans DEF MergeFile, Parsing
<1>8. CASE Loaded
  BY <1>2, <1>3, <1>8 DEF Loaded
<1>9. CASE UNCHANGED registryVars
  BY <1>2, <1>3, <1>9 DEF registryVars
<1> QED
  BY <1>4, <1>5, <1>6, <1>7, <1>8, <1>9 DEF RegistryNext

LEMMA RegistryInvInit == RegistryInit => RegistryInv
<1> SUFFICES ASSUME RegistryInit PROVE RegistryInv
  OBVIOUS
<1>1. RegistryTypeOK
  BY RegistryTypeInit
<1>2. Parsing
  BY NothingMeans DEF RegistryInit, Parsing
<1>3. DOMAIN specs = {} /\ \A c : FilesOf(c) = {}
  BY DEF RegistryInit, FilesOf
<1> QED
  BY <1>1, <1>2, <1>3 DEF RegistryInv, SpecsMean

LEMMA InvJudgesByAll ==
    ASSUME RegistryInv
    PROVE  JudgedByAll
<1> SUFFICES ASSUME NEW c \in Conf, NEW name \in Name, NEW option \in Option
             PROVE  Validate(c, name, option) = Verdict(c, name, option)
  BY DEF JudgedByAll
<1>1. CASE c \notin DOMAIN specs
  <2>1. FilesOf(c) = {}
    BY <1>1 DEF RegistryInv, SpecsMean
  <2> QED
    BY <1>1, <2>1 DEF Validate, Verdict
<1>2. CASE c \in DOMAIN specs
  <2>1. /\ FilesOf(c) # {}
        /\ \A p : p \in DOMAIN specs[c] <=> \E f \in FilesOf(c) : p \in Stanzas(f)
        /\ \A p, k : k \in KeysAt(specs[c], p) <=> \E f \in FilesOf(c) : p \in Declares(f, k)
    BY <1>2 DEF RegistryInv, SpecsMean
  <2>2. MatchingRules(c, name) = {}
           <=> ~\E f \in FilesOf(c) : \E p \in Stanzas(f) : <<p, name>> \in Match
    BY <2>1 DEF MatchingRules
  <2>3. (\E p \in MatchingRules(c, name) : \E k \in specs[c][p] : <<k, option>> \in Match)
           <=> \E f \in FilesOf(c) : \E k \in Key :
                  <<k, option>> \in Match /\ \E p \in Declares(f, k) : <<p, name>> \in Match
    <3>1. specs[c] \in Rules
      BY <1>2 DEF RegistryInv, RegistryTypeOK
    <3>2. \A p : KeysAt(specs[c], p) \in SUBSET Key
      BY <3>1, OfRules
    <3>3. (\E p \in MatchingRules(c, name) : \E k \in specs[c][p] : <<k, option>> \in Match)
             <=> \E p, k : k \in KeysAt(specs[c], p) /\ <<p, name>> \in Match /\ <<k, option>> \in Match
      BY DEF MatchingRules, KeysAt
    <3> QED
      BY <2>1, <3>2, <3>3
  <2> QED
    BY <1>2, <2>1, <2>2, <2>3 DEF Validate, Verdict
<1> QED
  BY <1>1, <1>2

\* validate_doc judges an entry by all spec files together: whatever files load_from_dir meets,
\* in whatever order, and whatever they say.
THEOREM JudgedByAllHolds == RegistrySpec => []JudgedByAll
  BY RegistryInvInit, RegistryInvStep, InvJudgesByAll, PTL DEF RegistrySpec

=============================================================================
