--------------------------- MODULE EntryLogAppend ---------------------------
(***************************************************************************)
(* What the operators of EntryLog do to sequences of lines, and one append.*)
(* A file of lines that are WellFormed has one index, IndexOf, and folding *)
(* an appended line into it (Observe) gives the index of the longer file:  *)
(* the fold of observeLocked and the scan of rescanLocked cannot disagree  *)
(* (ObserveIsScan).  The index in memory differs from the scan in one way: *)
(* between the turn_open of a carrier a rewind has minted and its record,  *)
(* that carrier (MintedIn) is not marked yet.                              *)
(***************************************************************************)
EXTENDS EntryLog, SequenceFacts

----------------------------------------------------------------------------
\* The lines of one kind, and those of one turn.

\* No lines, of any kind or turn.
LEMMA OfKindEmpty == \A k : OfKind(<<>>, k) = <<>> /\ OfTurn(<<>>, k) = <<>>
BY PickEmpty DEF OfKind, OfTurn

\* The lines of a kind, one line later.
LEMMA OfKindAppend ==
  ASSUME NEW X, NEW L \in Seq(X), NEW l \in X, NEW k
  PROVE  OfKind(Append(L, l), k) =
           IF l.kind = k THEN Append(OfKind(L, k), l) ELSE OfKind(L, k)
<1> DEFINE M == Append(L, l)
           I == {i \in DOMAIN L : L[i].kind = k}
           J == {i \in DOMAIN M : M[i].kind = k}
<1>1. /\ DOMAIN L = 1..Len(L) /\ DOMAIN M = 1..(Len(L) + 1) /\ Len(L) \in Nat
      /\ M[Len(L) + 1] = l /\ \A i \in 1..Len(L) : M[i] = L[i]
  BY AppendProperties, LenProperties
<1> HIDE DEF M
<1>2. \A i \in 1..Len(L) : i \in I <=> i \in J
  BY <1>1
<1>3. Len(L) + 1 \in J <=> l.kind = k
  BY <1>1
<1> HIDE DEF I, J
<1>4. Pick(Append(L, l), J) = IF Len(L) + 1 \in J THEN Append(Pick(L, I), l) ELSE Pick(L, I)
  BY <1>2, PickAppend
<1>5. QED
  BY <1>3, <1>4 DEF OfKind, I, J, M

\* The lines of a turn, one line later.
LEMMA OfTurnAppend ==
  ASSUME NEW X, NEW L \in Seq(X), NEW l \in X, NEW t
  PROVE  OfTurn(Append(L, l), t) =
           IF l.turn = t THEN Append(OfTurn(L, t), l) ELSE OfTurn(L, t)
<1> DEFINE M == Append(L, l)
           I == {i \in DOMAIN L : L[i].turn = t}
           J == {i \in DOMAIN M : M[i].turn = t}
<1>1. /\ DOMAIN L = 1..Len(L) /\ DOMAIN M = 1..(Len(L) + 1) /\ Len(L) \in Nat
      /\ M[Len(L) + 1] = l /\ \A i \in 1..Len(L) : M[i] = L[i]
  BY AppendProperties, LenProperties
<1> HIDE DEF M
<1>2. \A i \in 1..Len(L) : i \in I <=> i \in J
  BY <1>1
<1>3. Len(L) + 1 \in J <=> l.turn = t
  BY <1>1
<1> HIDE DEF I, J
<1>4. Pick(Append(L, l), J) = IF Len(L) + 1 \in J THEN Append(Pick(L, I), l) ELSE Pick(L, I)
  BY <1>2, PickAppend
<1>5. QED
  BY <1>3, <1>4 DEF OfTurn, I, J, M

\* The lines of a kind in two files, one behind the other.
LEMMA OfKindConcat ==
  ASSUME NEW X, NEW L \in Seq(X), NEW M \in Seq(X), NEW k
  PROVE  OfKind(L \o M, k) = OfKind(L, k) \o OfKind(M, k)
<1> DEFINE I == {i \in DOMAIN L : L[i].kind = k}
           J == {i \in DOMAIN M : M[i].kind = k}
           K == {i \in DOMAIN (L \o M) : (L \o M)[i].kind = k}
<1>1. /\ DOMAIN L = 1..Len(L) /\ DOMAIN M = 1..Len(M) /\ Len(L) \in Nat /\ Len(M) \in Nat
      /\ L \o M \in Seq(X) /\ Len(L \o M) = Len(L) + Len(M)
      /\ DOMAIN (L \o M) = 1..(Len(L) + Len(M))
  BY ConcatProperties, LenProperties
<1>2. /\ \A i \in 1..Len(L) : i \in DOMAIN (L \o M) /\ (L \o M)[i] = L[i]
      /\ \A i \in 1..Len(M) : Len(L) + i \in DOMAIN (L \o M) /\ (L \o M)[Len(L) + i] = M[i]
  <2>1. \A i \in 1..(Len(L) + Len(M)) :
           (L \o M)[i] = IF i <= Len(L) THEN L[i] ELSE M[i - Len(L)]
    BY ConcatProperties
  <2>2. \A i \in 1..Len(L) : i \in 1..(Len(L) + Len(M)) /\ i <= Len(L)
    BY <1>1
  <2>3. \A i \in 1..Len(M) : /\ Len(L) + i \in 1..(Len(L) + Len(M))
                             /\ ~(Len(L) + i <= Len(L)) /\ (Len(L) + i) - Len(L) = i
    BY <1>1
  <2>4. QED
    BY <1>1, <2>1, <2>2, <2>3
<1>3. \A i \in 1..Len(L) : i \in K <=> i \in I
  BY <1>1, <1>2
<1>4. \A i \in 1..Len(M) : Len(L) + i \in K <=> i \in J
  BY <1>1, <1>2
<1> HIDE DEF I, J, K
<1>5. Pick(L \o M, K) = Pick(L, I) \o Pick(M, J)
  BY <1>3, <1>4, PickConcat
<1>6. QED
  BY <1>5 DEF OfKind, I, J, K

\* The lines of a turn in two files, one behind the other.
LEMMA OfTurnConcat ==
  ASSUME NEW X, NEW L \in Seq(X), NEW M \in Seq(X), NEW t
  PROVE  OfTurn(L \o M, t) = OfTurn(L, t) \o OfTurn(M, t)
<1> DEFINE I == {i \in DOMAIN L : L[i].turn = t}
           J == {i \in DOMAIN M : M[i].turn = t}
           K == {i \in DOMAIN (L \o M) : (L \o M)[i].turn = t}
<1>1. /\ DOMAIN L = 1..Len(L) /\ DOMAIN M = 1..Len(M) /\ Len(L) \in Nat /\ Len(M) \in Nat
      /\ L \o M \in Seq(X) /\ Len(L \o M) = Len(L) + Len(M)
      /\ DOMAIN (L \o M) = 1..(Len(L) + Len(M))
  BY ConcatProperties, LenProperties
<1>2. /\ \A i \in 1..Len(L) : i \in DOMAIN (L \o M) /\ (L \o M)[i] = L[i]
      /\ \A i \in 1..Len(M) : Len(L) + i \in DOMAIN (L \o M) /\ (L \o M)[Len(L) + i] = M[i]
  <2>1. \A i \in 1..(Len(L) + Len(M)) :
           (L \o M)[i] = IF i <= Len(L) THEN L[i] ELSE M[i - Len(L)]
    BY ConcatProperties
  <2>2. \A i \in 1..Len(L) : i \in 1..(Len(L) + Len(M)) /\ i <= Len(L)
    BY <1>1
  <2>3. \A i \in 1..Len(M) : /\ Len(L) + i \in 1..(Len(L) + Len(M))
                             /\ ~(Len(L) + i <= Len(L)) /\ (Len(L) + i) - Len(L) = i
    BY <1>1
  <2>4. QED
    BY <1>1, <2>1, <2>2, <2>3
<1>3. \A i \in 1..Len(L) : i \in K <=> i \in I
  BY <1>1, <1>2
<1>4. \A i \in 1..Len(M) : Len(L) + i \in K <=> i \in J
  BY <1>1, <1>2
<1> HIDE DEF I, J, K
<1>5. Pick(L \o M, K) = Pick(L, I) \o Pick(M, J)
  BY <1>3, <1>4, PickConcat
<1>6. QED
  BY <1>5 DEF OfTurn, I, J, K

\* The lines of a kind are just those.
LEMMA OfKindElements ==
  ASSUME NEW X, NEW L \in Seq(X), NEW k
  PROVE  /\ OfKind(L, k) \in Seq(X)
         /\ ToSet(OfKind(L, k)) = {l \in ToSet(L) : l.kind = k}
<1> DEFINE I == {i \in DOMAIN L : L[i].kind = k}
<1>1. ToSet(Pick(L, I)) = {L[i] : i \in {j \in 1..Len(L) : j \in I}} /\ Pick(L, I) \in Seq(X)
  BY PickElements
<1>2. DOMAIN L = 1..Len(L)
  BY LenProperties
<1>3. {L[i] : i \in {j \in 1..Len(L) : j \in I}} = {l \in ToSet(L) : l.kind = k}
  BY <1>2 DEF ToSet
<1>4. QED
  BY <1>1, <1>3 DEF OfKind

\* The lines of a turn are just those.
LEMMA OfTurnElements ==
  ASSUME NEW X, NEW L \in Seq(X), NEW t
  PROVE  /\ OfTurn(L, t) \in Seq(X)
         /\ ToSet(OfTurn(L, t)) = {l \in ToSet(L) : l.turn = t}
<1> DEFINE I == {i \in DOMAIN L : L[i].turn = t}
<1>1. ToSet(Pick(L, I)) = {L[i] : i \in {j \in 1..Len(L) : j \in I}} /\ Pick(L, I) \in Seq(X)
  BY PickElements
<1>2. DOMAIN L = 1..Len(L)
  BY LenProperties
<1>3. {L[i] : i \in {j \in 1..Len(L) : j \in I}} = {l \in ToSet(L) : l.turn = t}
  BY <1>2 DEF ToSet
<1>4. QED
  BY <1>1, <1>3 DEF OfTurn

\* A sequence of one turn's lines.
LEMMA OfTurnOne ==
  ASSUME NEW X, NEW L \in Seq(X), NEW t, NEW u, \A i \in 1..Len(L) : L[i].turn = t
  PROVE  OfTurn(L, u) = IF u = t THEN L ELSE <<>>
<1> DEFINE I == {i \in DOMAIN L : L[i].turn = u}
<1>1. DOMAIN L = 1..Len(L)
  BY LenProperties
<1>2. CASE u = t
  <2>1. \A i \in 1..Len(L) : i \in I
    BY <1>1, <1>2
  <2>2. Pick(L, I) = L
    BY <2>1, PickAll
  <2>3. QED
    BY <1>2, <2>2 DEF OfTurn
<1>3. CASE u # t
  <2>1. \A i \in 1..Len(L) : i \notin I
    BY <1>1, <1>3
  <2>2. Pick(L, I) = <<>>
    BY <2>1, PickNone
  <2>3. QED
    BY <1>3, <2>2 DEF OfTurn
<1>4. QED
  BY <1>2, <1>3

\* A sequence whose only line of a kind is the first.
LEMMA OfKindFirst ==
  ASSUME NEW X, NEW L \in Seq(X), NEW k, L # <<>>,
         \A i \in 1..Len(L) : L[i].kind = k <=> i = 1
  PROVE  OfKind(L, k) = <<L[1]>>
<1> DEFINE I == {i \in DOMAIN L : L[i].kind = k}
<1>1. \A i \in 1..Len(L) : i \in I <=> i = 1
  BY LenProperties
<1>2. Pick(L, I) = <<L[1]>>
  BY <1>1, PickFirst
<1>3. QED
  BY <1>2 DEF OfKind

----------------------------------------------------------------------------
\* The order of the turns.

\* Only a turn_open adds to the order.
LEMMA OrderAppend ==
  ASSUME NEW X, NEW L \in Seq(X), NEW l \in X
  PROVE  OrderOf(Append(L, l)) =
           IF l.kind = "turn_open" THEN Append(OrderOf(L), l.turn) ELSE OrderOf(L)
<1> DEFINE P == OfKind(L, "turn_open")
<1>1. OfKind(Append(L, l), "turn_open") = IF l.kind = "turn_open" THEN Append(P, l) ELSE P
  BY OfKindAppend
<1>2. P \in Seq(X)
  BY OfKindElements
<1> HIDE DEF P
<1>3. CASE l.kind = "turn_open"
  <2>1. OrderOf(Append(L, l)) = [i \in DOMAIN Append(P, l) |-> Append(P, l)[i].turn]
    BY <1>1, <1>3 DEF OrderOf
  <2>2. OrderOf(L) = [i \in DOMAIN P |-> P[i].turn]
    BY DEF OrderOf, P
  <2>3. /\ DOMAIN Append(P, l) = 1..(Len(P) + 1) /\ DOMAIN P = 1..Len(P) /\ Len(P) \in Nat
        /\ Append(P, l)[Len(P) + 1] = l /\ \A i \in 1..Len(P) : Append(P, l)[i] = P[i]
    BY <1>2, AppendProperties, LenProperties
  <2> DEFINE Y == {P[i].turn : i \in 1..Len(P)} \cup {l.turn}
  <2>4. OrderOf(L) \in Seq(Y) /\ Len(OrderOf(L)) = Len(P)
    BY <2>2, <2>3
  <2>5. OrderOf(Append(L, l)) \in Seq(Y) /\ Len(OrderOf(Append(L, l))) = Len(P) + 1
    <3>1. \A i \in 1..(Len(P) + 1) : Append(P, l)[i].turn \in Y
      BY <2>3
    <3>2. QED
      BY <2>1, <2>3, <3>1
  <2>6. Append(OrderOf(L), l.turn) \in Seq(Y) /\ Len(Append(OrderOf(L), l.turn)) = Len(P) + 1
    BY <2>4, AppendProperties
  <2>7. \A i \in 1..(Len(P) + 1) : OrderOf(Append(L, l))[i] = Append(OrderOf(L), l.turn)[i]
    <3> TAKE i \in 1..(Len(P) + 1)
    <3>1. OrderOf(Append(L, l))[i] = Append(P, l)[i].turn
      BY <2>1, <2>3
    <3> l.turn \in Y
      OBVIOUS
    <3> HIDE DEF Y
    <3>2. CASE i = Len(P) + 1
      <4>1. Append(OrderOf(L), l.turn)[Len(P) + 1] = l.turn
        BY <2>4, AppendProperties
      <4>2. QED
        BY <2>3, <3>1, <3>2, <4>1
    <3>3. CASE i \in 1..Len(P)
      <4>1. Append(OrderOf(L), l.turn)[i] = OrderOf(L)[i]
        BY <2>4, <3>3, AppendProperties
      <4>2. QED
        BY <2>2, <2>3, <3>1, <3>3, <4>1
    <3>4. i = Len(P) + 1 \/ i \in 1..Len(P)
      BY <2>3
    <3>5. QED
      BY <3>2, <3>3, <3>4
  <2> HIDE DEF Y
  <2>8. OrderOf(Append(L, l)) = Append(OrderOf(L), l.turn)
    BY <2>5, <2>6, <2>7, SeqEqual
  <2>9. QED
    BY <1>3, <2>8
<1>4. CASE l.kind # "turn_open"
  BY <1>1, <1>4 DEF OrderOf, P
<1>5. QED
  BY <1>3, <1>4

\* No lines, no turns.
LEMMA OrderEmpty == OrderOf(<<>>) = <<>>
BY OfKindEmpty DEF OrderOf

\* The order names the turns of the turn_open lines.
LEMMA OrderElements ==
  ASSUME NEW X, NEW L \in Seq(X)
  PROVE  /\ OrderOf(L) \in Seq({l.turn : l \in X})
         /\ ToSet(OrderOf(L)) = {l.turn : l \in {m \in ToSet(L) : m.kind = "turn_open"}}
<1> DEFINE P == OfKind(L, "turn_open")
<1>1. P \in Seq(X) /\ ToSet(P) = {m \in ToSet(L) : m.kind = "turn_open"}
  BY OfKindElements
<1>2. OrderOf(L) = [i \in DOMAIN P |-> P[i].turn]
  BY DEF OrderOf
<1> HIDE DEF P
<1>3. DOMAIN P = 1..Len(P) /\ Len(P) \in Nat /\ \A i \in 1..Len(P) : P[i] \in X
  BY <1>1, LenProperties, ElementOfSeq
<1>4. OrderOf(L) \in Seq({l.turn : l \in X})
  BY <1>2, <1>3
<1>5. ToSet(OrderOf(L)) = {l.turn : l \in ToSet(P)}
  BY <1>2 DEF ToSet
<1>6. QED
  BY <1>1, <1>4, <1>5

\* Appending, in the language of sets.
LEMMA OrderConcat ==
  ASSUME NEW X, NEW L \in Seq(X), NEW M \in Seq(X), M # <<>>,
         \A i \in 1..Len(M) : M[i].kind = "turn_open" <=> i = 1
  PROVE  OrderOf(L \o M) = Append(OrderOf(L), M[1].turn)
<1> DEFINE P == OfKind(L, "turn_open")
<1>1. OfKind(L \o M, "turn_open") = P \o <<M[1]>>
  <2>1. OfKind(M, "turn_open") = <<M[1]>>
    BY OfKindFirst
  <2>2. \A k : OfKind(L \o M, k) = OfKind(L, k) \o OfKind(M, k)
    BY OfKindConcat
  <2>3. QED
    BY <2>1, <2>2
<1>2. M[1] \in X /\ P \in Seq(X) /\ M[1].kind = "turn_open"
  BY OfKindElements, ElementOfSeq, EmptySeq
<1>3. OfKind(Append(L, M[1]), "turn_open") = Append(P, M[1])
  BY <1>2, OfKindAppend
<1>4. P \o <<M[1]>> = Append(P, M[1])
  BY <1>2, AppendIsConcat
<1>5. OrderOf(L \o M) = OrderOf(Append(L, M[1]))
  BY <1>1, <1>3, <1>4 DEF OrderOf
<1>6. QED
  BY <1>2, <1>5, OrderAppend

----------------------------------------------------------------------------
\* FlattenSeq: again, the recursive function exists.

Flattens(ss, f, n) ==
    f = [i \in 1..n |-> IF i = 1 THEN ss[i] ELSE f[i - 1] \o ss[i]]

\* FlattenSeq's recursion has a solution for every length.
LEMMA FlattensExists ==
  ASSUME NEW ss, NEW n \in Nat
  PROVE  \E f : Flattens(ss, f, n)
<1> DEFINE T == {k \in Nat : \E f : Flattens(ss, f, k)}
<1>1. 0 \in T
  <2>1. Flattens(ss, [i \in 1..0 |-> <<>>], 0)
    BY DEF Flattens
  <2>2. QED
    BY <2>1
<1>2. ASSUME NEW k \in T, k \in Nat PROVE k + 1 \in T
  <2>1. PICK f : Flattens(ss, f, k)
    OBVIOUS
  <2> DEFINE g == [i \in 1..(k + 1) |->
                     IF i <= k THEN f[i] ELSE IF i = 1 THEN ss[i] ELSE f[i - 1] \o ss[i]]
  <2>2. \A i \in 1..(k + 1) : g[i] = IF i = 1 THEN ss[i] ELSE g[i - 1] \o ss[i]
    <3> TAKE i \in 1..(k + 1)
    <3>1. CASE i = 1
      <4>1. CASE k = 0
        BY <3>1, <4>1
      <4>2. CASE k # 0
        <5>1. 1 \in 1..k /\ 1 \in 1..(k + 1) /\ 1 <= k
          BY <1>2, <4>2
        <5>2. f[1] = ss[1]
          BY <2>1, <5>1 DEF Flattens
        <5>3. g[1] = f[1]
          BY <5>1
        <5>4. QED
          BY <3>1, <5>2, <5>3
      <4>3. QED
        BY <4>1, <4>2
    <3>2. CASE i \in 2..k
      <4>1. g[i] = f[i] /\ g[i - 1] = f[i - 1]
        BY <1>2, <3>2
      <4>2. i \in 1..k /\ i # 1
        BY <1>2, <3>2
      <4>3. f[i] = f[i - 1] \o ss[i]
        BY <2>1, <4>2 DEF Flattens
      <4>4. QED
        BY <4>1, <4>2, <4>3
    <3>3. CASE i = k + 1 /\ i # 1
      <4>1. ~(i <= k) /\ i - 1 \in 1..(k + 1) /\ i - 1 <= k
        BY <1>2, <3>3
      <4>2. g[i] = f[i - 1] \o ss[i]
        BY <3>3, <4>1
      <4>3. g[i - 1] = f[i - 1]
        BY <4>1
      <4>4. QED
        BY <3>3, <4>2, <4>3
    <3>4. QED
      BY <1>2, <3>1, <3>2, <3>3
  <2>3. Flattens(ss, g, k + 1)
    BY <2>2 DEF Flattens
  <2>4. QED
    BY <1>2, <2>3
<1> HIDE DEF T
<1>3. Nat \subseteq T
  BY <1>1, <1>2, NatInduct
<1>4. QED
  BY <1>3 DEF T

\* And only one.
LEMMA FlattensUnique ==
  ASSUME NEW ss, NEW tt, NEW f, NEW g, NEW n \in Nat, NEW m \in Nat, n <= m,
         Flattens(ss, f, n), Flattens(tt, g, m), \A i \in 1..n : ss[i] = tt[i],
         NEW j \in 1..n
  PROVE  f[j] = g[j]
<1> DEFINE T == {k \in Nat : k + 1 <= n => f[k + 1] = g[k + 1]}
<1>1. 0 \in T
  BY DEF Flattens
<1>2. ASSUME NEW k \in T, k \in Nat PROVE k + 1 \in T
  <2>1. SUFFICES ASSUME (k + 1) + 1 <= n PROVE f[(k + 1) + 1] = g[(k + 1) + 1]
    BY <1>2
  <2>2. f[k + 1] = g[k + 1]
    BY <1>2, <2>1
  <2> DEFINE i == (k + 1) + 1
  <2>3. i \in 1..n /\ i \in 1..m /\ i # 1 /\ i - 1 = k + 1
    BY <1>2, <2>1
  <2> HIDE DEF i
  <2>4. f[i] = f[i - 1] \o ss[i] /\ g[i] = g[i - 1] \o tt[i]
    BY <2>3 DEF Flattens
  <2>5. f[i] = g[i]
    BY <2>2, <2>3, <2>4
  <2>6. QED
    BY <2>5 DEF i
<1> HIDE DEF T
<1>3. Nat \subseteq T
  BY <1>1, <1>2, NatInduct
<1>4. j - 1 \in Nat /\ (j - 1) + 1 = j
  OBVIOUS
<1>5. QED
  BY <1>3, <1>4 DEF T

\* FlattenSeq is the last value of such a function.
LEMMA FlattenValue ==
  ASSUME NEW X, NEW ss \in Seq(X), ss # <<>>
  PROVE  \E f : Flattens(ss, f, Len(ss)) /\ FlattenSeq(ss) = f[Len(ss)]
<1> DEFINE F == CHOOSE f : Flattens(ss, f, Len(ss))
<1>1. Flattens(ss, F, Len(ss))
  BY FlattensExists, LenProperties
<1>2. Len(ss) # 0
  BY EmptySeq
<1>3. FlattenSeq(ss) = F[Len(ss)]
  BY <1>2 DEF FlattenSeq, Flattens
<1>4. QED
  BY <1>1, <1>3

\* No sequences flatten to none.
LEMMA FlattenEmpty == FlattenSeq(<<>>) = <<>>
BY DEF FlattenSeq

\* One sequence more is appended whole.
LEMMA FlattenAppend ==
  ASSUME NEW X, NEW ss \in Seq(Seq(X)), NEW s \in Seq(X)
  PROVE  FlattenSeq(Append(ss, s)) = FlattenSeq(ss) \o s
<1> DEFINE tt == Append(ss, s)
<1>1. /\ tt \in Seq(Seq(X)) /\ tt # <<>> /\ Len(tt) = Len(ss) + 1 /\ tt[Len(ss) + 1] = s
      /\ \A i \in 1..Len(ss) : ss[i] = tt[i]
      /\ Len(ss) \in Nat /\ Len(tt) \in Nat
  BY AppendProperties, LenProperties
<1> HIDE DEF tt
<1>2. PICK g : Flattens(tt, g, Len(tt)) /\ FlattenSeq(tt) = g[Len(tt)]
  BY <1>1, FlattenValue
<1>3. CASE ss = <<>>
  <2>1. Len(tt) = 1 /\ tt[1] = s
    BY <1>1, <1>3
  <2>2. g[1] = s
    BY <1>2, <2>1 DEF Flattens
  <2>3. FlattenSeq(ss) \o s = s
    BY <1>3, FlattenEmpty, ConcatEmptySeq
  <2>4. QED
    BY <1>2, <2>1, <2>2, <2>3 DEF tt
<1>4. CASE ss # <<>>
  <2>1. PICK f : Flattens(ss, f, Len(ss)) /\ FlattenSeq(ss) = f[Len(ss)]
    BY <1>4, FlattenValue
  <2>2. Len(ss) \in 1..Len(ss) /\ Len(ss) <= Len(tt)
    BY <1>1, <1>4, EmptySeq
  <2> DEFINE n == Len(ss)
             m == Len(tt)
  <2>3. f[n] = g[n]
    <3>1. n \in Nat /\ m \in Nat /\ n <= m /\ n \in 1..n
      BY <1>1, <2>2
    <3>2. Flattens(ss, f, n) /\ Flattens(tt, g, m) /\ \A i \in 1..n : ss[i] = tt[i]
      BY <1>1, <1>2, <2>1
    <3> HIDE DEF n, m
    <3>3. QED
      BY <3>1, <3>2, FlattensUnique
  <2>4. Len(tt) \in 1..Len(tt) /\ Len(tt) # 1 /\ Len(tt) - 1 = Len(ss)
    BY <1>1, <2>2
  <2>5. g[Len(tt)] = g[Len(ss)] \o s
    BY <1>1, <1>2, <2>4 DEF Flattens
  <2>6. QED
    BY <1>2, <2>1, <2>3, <2>5 DEF tt
<1>5. QED
  BY <1>3, <1>4

\* The elements of two sequences, one behind the other.
LEMMA ToSetConcat ==
  ASSUME NEW X, NEW s \in Seq(X), NEW u \in Seq(X)
  PROVE  ToSet(s \o u) = ToSet(s) \cup ToSet(u)
<1>1. \A v : ToSet(v) = Range(v)
  BY DEF ToSet, Range
<1>2. QED
  BY <1>1, RangeConcatenation

\* The elements of the flattened sequence.
LEMMA FlattenElements ==
  ASSUME NEW X, NEW ss \in Seq(Seq(X))
  PROVE  /\ FlattenSeq(ss) \in Seq(X)
         /\ ToSet(FlattenSeq(ss)) = UNION {ToSet(ss[i]) : i \in 1..Len(ss)}
<1> DEFINE T == {rr \in Seq(Seq(X)) : /\ FlattenSeq(rr) \in Seq(X)
                                      /\ ToSet(FlattenSeq(rr)) = UNION {ToSet(rr[i]) : i \in 1..Len(rr)}}
<1>1. <<>> \in T
  <2>1. ToSet(<<>>) = {} /\ UNION {ToSet(<<>>[i]) : i \in 1..Len(<<>>)} = {}
    BY DEF ToSet
  <2>2. QED
    BY <2>1, FlattenEmpty, EmptySeq
<1>2. ASSUME NEW rr \in Seq(Seq(X)), NEW s \in Seq(X), rr \in T PROVE Append(rr, s) \in T
  <2>1. FlattenSeq(Append(rr, s)) = FlattenSeq(rr) \o s
    BY FlattenAppend
  <2>2. FlattenSeq(rr) \in Seq(X) /\ FlattenSeq(rr) \o s \in Seq(X)
    BY <1>2, ConcatProperties
  <2>3. ToSet(FlattenSeq(rr) \o s) = ToSet(FlattenSeq(rr)) \cup ToSet(s)
    BY <2>2, ToSetConcat
  <2>4. UNION {ToSet(Append(rr, s)[i]) : i \in 1..Len(Append(rr, s))} =
          (UNION {ToSet(rr[i]) : i \in 1..Len(rr)}) \cup ToSet(s)
    <3>1. Len(Append(rr, s)) = Len(rr) + 1 /\ Len(rr) \in Nat
      BY AppendProperties, LenProperties
    <3>2. 1..(Len(rr) + 1) = 1..Len(rr) \cup {Len(rr) + 1}
      BY <3>1
    <3>3. Append(rr, s)[Len(rr) + 1] = s /\ \A i \in 1..Len(rr) : Append(rr, s)[i] = rr[i]
      BY AppendProperties
    <3>4. QED
      BY <3>1, <3>2, <3>3
  <2>5. ToSet(FlattenSeq(rr)) = UNION {ToSet(rr[i]) : i \in 1..Len(rr)}
    BY <1>2
  <2>6. ToSet(FlattenSeq(Append(rr, s))) = UNION {ToSet(Append(rr, s)[i]) : i \in 1..Len(Append(rr, s))}
    BY <2>1, <2>3, <2>4, <2>5
  <2>7. QED
    BY <2>1, <2>2, <2>6, AppendProperties
<1> HIDE DEF T
<1>3. Seq(Seq(X)) \subseteq T
  BY <1>1, <1>2, SeqInduct
<1>4. QED
  BY <1>3 DEF T

----------------------------------------------------------------------------
\* Places in an order that names no turn twice.

\* The place of the i-th turn of an order without repeats is i.
LEMMA PosAt ==
  ASSUME NEW X, NEW order \in Seq(X), IsInjective(order), NEW i \in 1..Len(order)
  PROVE  Pos(order, order[i]) = i
<1> DEFINE I == {j \in 1..Len(order) : order[j] = order[i]}
<1>1. I = {i}
  BY LenProperties DEF IsInjective
<1>2. Min({i}) = i
  BY LenProperties DEF Min
<1>3. QED
  BY <1>1, <1>2 DEF Pos, SelectInSeq

\* A turn that is not in the order has place 0.
LEMMA PosAbsent ==
  ASSUME NEW X, NEW order \in Seq(X), NEW t, t \notin ToSet(order)
  PROVE  Pos(order, t) = 0
<1> DEFINE I == {j \in 1..Len(order) : order[j] = t}
<1>1. I = {}
  BY LenProperties DEF ToSet
<1>2. QED
  BY <1>1 DEF Pos, SelectInSeq

\* A turn of the order is found at its place.
LEMMA PosPresent ==
  ASSUME NEW X, NEW order \in Seq(X), IsInjective(order), NEW t \in ToSet(order)
  PROVE  Pos(order, t) \in 1..Len(order) /\ order[Pos(order, t)] = t
<1>1. PICK i \in 1..Len(order) : order[i] = t
  BY LenProperties DEF ToSet
<1>2. QED
  BY <1>1, PosAt

\* A place is positive just for the turns of the order.
LEMMA PosIsNat ==
  ASSUME NEW X, NEW order \in Seq(X), IsInjective(order), NEW t
  PROVE  Pos(order, t) \in Nat /\ (Pos(order, t) > 0 <=> t \in ToSet(order))
<1>1. CASE t \in ToSet(order)
  BY <1>1, PosPresent, LenProperties
<1>2. CASE t \notin ToSet(order)
  BY <1>2, PosAbsent
<1>3. QED
  BY <1>1, <1>2

\* A new turn at the end leaves the others at their places.
LEMMA PosAppend ==
  ASSUME NEW X, NEW order \in Seq(X), IsInjective(order), NEW x \in X, x \notin ToSet(order)
  PROVE  /\ IsInjective(Append(order, x))
         /\ Pos(Append(order, x), x) = Len(order) + 1
         /\ \A t \in ToSet(order) : Pos(Append(order, x), t) = Pos(order, t)
<1> DEFINE next == Append(order, x)
<1>1. /\ next \in Seq(X) /\ Len(next) = Len(order) + 1 /\ next[Len(order) + 1] = x
      /\ \A i \in 1..Len(order) : next[i] = order[i]
      /\ DOMAIN next = 1..(Len(order) + 1) /\ DOMAIN order = 1..Len(order)
      /\ Len(order) \in Nat
  BY AppendProperties, LenProperties
<1> HIDE DEF next
<1>2. IsInjective(next)
  <2>1. SUFFICES ASSUME NEW i \in 1..(Len(order) + 1), NEW j \in 1..(Len(order) + 1),
                        next[i] = next[j]
                 PROVE  i = j
    BY <1>1 DEF IsInjective
  <2>2. \A k \in 1..Len(order) : next[k] # x
    BY <1>1 DEF ToSet
  <2>3. (i \in 1..Len(order) \/ i = Len(order) + 1) /\ (j \in 1..Len(order) \/ j = Len(order) + 1)
    BY <1>1
  <2>4. CASE i \in 1..Len(order) /\ j \in 1..Len(order)
    BY <1>1, <2>1, <2>4 DEF IsInjective
  <2>5. QED
    BY <1>1, <2>1, <2>2, <2>3, <2>4
<1>3. Pos(next, x) = Len(order) + 1
  <2>1. Len(order) + 1 \in 1..Len(next)
    BY <1>1
  <2>2. QED
    BY <1>1, <1>2, <2>1, PosAt
<1>4. ASSUME NEW t \in ToSet(order) PROVE Pos(next, t) = Pos(order, t)
  <2>1. Pos(order, t) \in 1..Len(order) /\ order[Pos(order, t)] = t
    BY PosPresent
  <2>2. Pos(order, t) \in 1..Len(next) /\ next[Pos(order, t)] = t
    BY <1>1, <2>1
  <2>3. QED
    BY <1>1, <1>2, <2>2, PosAt
<1>5. QED
  BY <1>2, <1>3, <1>4 DEF next

----------------------------------------------------------------------------
\* The readable lines of a file.

\* Torn bytes are no line.
LEMMA TornIsNoLine == \A l \in Lines : l.kind # "torn"
BY DEF Lines, BodyKinds

\* Readable reads all the lines, and stops at torn bytes.
LEMMA ReadableClean ==
  ASSUME NEW L \in Seq(Lines)
  PROVE  Readable(L) = L /\ Readable(Append(L, TornLine)) = L
<1> DEFINE X == Lines \cup {TornLine}
           M == Append(L, TornLine)
           N == Append(M, TornLine)
           n == Len(L)
<1>1. n \in Nat /\ \A i \in 1..n : L[i] \in Lines /\ L[i].kind # "torn"
  BY TornIsNoLine, LenProperties, ElementOfSeq
<1>2. L \in Seq(X) /\ TornLine \in X /\ TornLine.kind = "torn"
  BY SeqMonotonic DEF TornLine
<1>3. M \in Seq(X) /\ Len(M) = n + 1 /\ M[n + 1] = TornLine /\ \A i \in 1..n : M[i] = L[i]
  BY <1>2, AppendProperties
<1>4. /\ N \in Seq(X) /\ Len(N) = n + 2 /\ N[n + 1] = TornLine /\ N[n + 2] = TornLine
      /\ \A i \in 1..n : N[i] = L[i]
  <2>1. N \in Seq(X) /\ Len(N) = Len(M) + 1 /\ N[Len(M) + 1] = TornLine
        /\ \A i \in 1..Len(M) : N[i] = M[i]
    BY <1>2, <1>3, AppendProperties
  <2>2. n + 1 \in 1..Len(M) /\ Len(M) + 1 = n + 2 /\ \A i \in 1..n : i \in 1..Len(M)
    BY <1>1, <1>3
  <2>3. QED
    BY <1>3, <2>1, <2>2
<1> HIDE DEF M, N, X
<1>5. SelectInSeq(M, LAMBDA l : l.kind = "torn") = n + 1
  <2> DEFINE I == {i \in 1..Len(M) : M[i].kind = "torn"}
  <2>1. I = {n + 1}
    <3>1. \A i \in 1..(n + 1) : i = n + 1 \/ i \in 1..n
      BY <1>1
    <3>2. QED
      BY <1>1, <1>2, <1>3, <3>1
  <2>2. Min({n + 1}) = n + 1
    BY <1>1 DEF Min
  <2>3. QED
    BY <2>1, <2>2 DEF SelectInSeq
<1>6. SelectInSeq(N, LAMBDA l : l.kind = "torn") = n + 1
  <2> DEFINE I == {i \in 1..Len(N) : N[i].kind = "torn"}
  <2>1. I = {n + 1, n + 2}
    <3>1. \A i \in 1..(n + 2) : i = n + 1 \/ i = n + 2 \/ i \in 1..n
      BY <1>1
    <3>2. QED
      BY <1>1, <1>2, <1>4, <3>1
  <2>2. Min({n + 1, n + 2}) = n + 1
    BY <1>1 DEF Min
  <2>3. QED
    BY <2>1, <2>2 DEF SelectInSeq
<1>7. (n + 1) - 1 = n
  BY <1>1
<1>8. SubSeq(L, 1, n) = L
  BY SubSeqFull
<1>9. SubSeq(M, 1, n) = L
  <2>1. \A i \in 1..n : M[i] \in Lines
    BY <1>1, <1>3
  <2>2. /\ SubSeq(M, 1, n) \in Seq(Lines) /\ Len(SubSeq(M, 1, n)) = n
        /\ \A i \in 1..n : SubSeq(M, 1, n)[i] = L[i]
    <3>1. /\ SubSeq(M, 1, n) \in Seq(Lines)
          /\ Len(SubSeq(M, 1, n)) = IF 1 <= n THEN n - 1 + 1 ELSE 0
          /\ \A i \in 1..(n - 1 + 1) : SubSeq(M, 1, n)[i] = M[1 + i - 1]
      BY <1>1, <2>1, SubSeqProperties
    <3>2. n - 1 + 1 = n /\ \A i \in 1..n : 1 + i - 1 = i
      BY <1>1
    <3>3. QED
      BY <1>1, <1>3, <3>1, <3>2
  <2>3. QED
    BY <2>2, SeqEqual
<1>10. Readable(L) = SubSeq(L, 1, n)
  BY <1>5, <1>7 DEF Readable, M
<1>11. Readable(M) = SubSeq(M, 1, n)
  BY <1>6, <1>7 DEF Readable, N
<1>12. QED
  BY <1>8, <1>9, <1>10, <1>11 DEF M

----------------------------------------------------------------------------
\* The index, one line later.

\* The turn_revert lines among L.
Records(L) == {l \in ToSet(L) : l.kind = "turn_revert"}

\* A record's window is a stretch of the order, and its own turn is outside.
RecordFits(order, l) ==
    /\ l.from \in ToSet(order)
    /\ l.through \in ToSet(order)
    /\ Pos(order, l.from) <= Pos(order, l.through)
    /\ Pos(order, l.turn) \notin Pos(order, l.from) .. Pos(order, l.through)

\* A turn's lines: the turn_open first and only once, and no result without its call.
TurnFits(mine, t) ==
    /\ \A i \in DOMAIN mine : mine[i].kind = "turn_open" <=> i = 1
    /\ mine[1].msg = t
    /\ HasKind(mine, "tool_result") => HasKind(mine, "tool_call")

\* The order is a permutation of the ids given so far.
OrderFits(order) == IsInjective(order) /\ ToSet(order) = 1..Len(order)

WellFormed(L) ==
    /\ L \in Seq(Lines)
    /\ OrderFits(OrderOf(L))
    /\ \A l \in ToSet(L) : l.turn \in ToSet(OrderOf(L))
    /\ \A t \in ToSet(OrderOf(L)) : TurnFits(OfTurn(L, t), t)
    /\ \A l \in Records(L) : RecordFits(OrderOf(L), l)

Hides(L, t) == \E l \in Records(L) : InWindow(OrderOf(L), l, t)

\* The turns minted to carry a record.
Carriers(L) == {l.turn : l \in {m \in ToSet(L) : m.kind = "turn_open" /\ m.source = "revert"}}

\* The index of the lines L, but that carrier c is not marked for want of its record.
IndexOf(L, c) ==
    [size    |-> Len(L),
     order   |-> OrderOf(L),
     rows    |-> [t \in TurnIds |-> [RowOf(L, t) EXCEPT !.reverted =
                     Hides(L, t) \/ (t # c /\ IncompleteCarrier(RowOf(L, t)))]],
     cleared |-> UNION {Clears(L[i]) : i \in DOMAIN L},
     newest  |-> IF Records(L) = {} THEN NoTurn ELSE Last(OfKind(L, "turn_revert")).from]

\* A line that may follow the lines L.
LineJoins(L, l) ==
    /\ l \in Lines
    /\ l.kind = "turn_open"   => l.turn = Len(OrderOf(L)) + 1 /\ l.msg = l.turn
    /\ l.kind # "turn_open"   => l.turn \in ToSet(OrderOf(L))
    /\ l.kind = "tool_call"   => ~HasKind(OfTurn(L, l.turn), "tool_call")
    /\ l.kind = "tool_result" => HasKind(OfTurn(L, l.turn), "tool_call")
    /\ l.kind = "turn_revert" => RecordFits(OrderOf(L), l)

----------------------------------------------------------------------------
\* The fields of a line.
LEMMA LineFields ==
  ASSUME NEW l \in Lines
  PROVE  /\ l.kind \in {"turn_open", "turn_close", "turn_revert", "reconciled"} \cup BodyKinds
         /\ l.turn \in TurnIds /\ l.seq \in Nat
         /\ l.kind = "turn_open" => l.source \in Sources /\ l.n \in Nat /\ l.msg \in TurnIds
         /\ l.kind = "turn_close" => l.raw \in Raws
         /\ l.kind = "turn_revert" => l.from \in TurnIds /\ l.through \in TurnIds
         /\ l.kind = "reconciled" => l.names \in TurnIds \cup {Session}
BY DEF Lines, BodyKinds

\* The order of lines, and what an order that fits gives.
LEMMA OrderIsSeq ==
  ASSUME NEW L \in Seq(Lines)
  PROVE  OrderOf(L) \in Seq(TurnIds) /\ Len(OrderOf(L)) \in Nat
<1>1. OrderOf(L) \in Seq({l.turn : l \in Lines})
  BY OrderElements
<1>2. {l.turn : l \in Lines} \subseteq TurnIds
  BY LineFields
<1>3. OrderOf(L) \in Seq(TurnIds)
  BY <1>1, <1>2, SeqMonotonic
<1>4. QED
  BY <1>3, LenProperties

\* Whether there is a line of a kind, one line later.
LEMMA HasKindAppend ==
  ASSUME NEW X, NEW L \in Seq(X), NEW l \in X, NEW k
  PROVE  HasKind(Append(L, l), k) <=> HasKind(L, k) \/ l.kind = k
<1>1. /\ DOMAIN L = 1..Len(L) /\ DOMAIN Append(L, l) = 1..(Len(L) + 1) /\ Len(L) \in Nat
      /\ Append(L, l)[Len(L) + 1] = l /\ \A i \in 1..Len(L) : Append(L, l)[i] = L[i]
  BY AppendProperties, LenProperties
<1>2. 1..(Len(L) + 1) = 1..Len(L) \cup {Len(L) + 1}
  BY <1>1
<1>3. QED
  BY <1>1, <1>2 DEF HasKind

\* Whether there is one, said of the elements.
LEMMA HasKindElement ==
  ASSUME NEW L, NEW k
  PROVE  HasKind(L, k) <=> \E l \in ToSet(L) : l.kind = k
BY DEF HasKind, ToSet

\* A sequence without elements is empty.
LEMMA NoElements ==
  ASSUME NEW X, NEW s \in Seq(X), ToSet(s) = {}
  PROVE  s = <<>>
<1>1. \A i \in DOMAIN s : s[i] \in ToSet(s)
  BY DEF ToSet
<1>2. DOMAIN s = 1..Len(s) /\ Len(s) \in Nat
  BY LenProperties
<1>3. Len(s) = 0
  <2>1. SUFFICES ASSUME Len(s) # 0 PROVE FALSE
    OBVIOUS
  <2>2. 1 \in DOMAIN s
    BY <1>2, <2>1
  <2>3. QED
    BY <1>1, <2>2
<1>4. QED
  BY <1>3, EmptySeq

\* The lines of a turn of the order are not none.
LEMMA TurnHasLines ==
  ASSUME NEW L \in Seq(Lines)
  PROVE  /\ \A t \in ToSet(OrderOf(L)) : OfTurn(L, t) # <<>>
         /\ (\A l \in ToSet(L) : l.turn \in ToSet(OrderOf(L)))
              => \A t : t \notin ToSet(OrderOf(L)) => OfTurn(L, t) = <<>>
<1>1. ASSUME NEW t \in ToSet(OrderOf(L)) PROVE OfTurn(L, t) # <<>>
  <2>0. ToSet(OrderOf(L)) = {l.turn : l \in {m \in ToSet(L) : m.kind = "turn_open"}}
    BY OrderElements
  <2>1. PICK l \in ToSet(L) : l.turn = t
    BY <2>0
  <2>2. l \in ToSet(OfTurn(L, t))
    BY <2>1, OfTurnElements
  <2>3. ToSet(<<>>) = {}
    BY DEF ToSet
  <2>4. QED
    BY <2>2, <2>3
<1>2. ASSUME \A l \in ToSet(L) : l.turn \in ToSet(OrderOf(L)), NEW t, t \notin ToSet(OrderOf(L))
      PROVE  OfTurn(L, t) = <<>>
  <2>1. ToSet(OfTurn(L, t)) = {} /\ OfTurn(L, t) \in Seq(Lines)
    BY <1>2, OfTurnElements
  <2>2. QED
    BY <2>1, NoElements
<1>3. QED
  BY <1>1, <1>2

\* The window a record hides stays what it was when a line is appended: a turn opened
\* later lies behind it.
LEMMA WindowAppend ==
  ASSUME NEW order \in Seq(TurnIds), IsInjective(order), NEW x \in TurnIds, x \notin ToSet(order),
         NEW l \in Lines, l.kind = "turn_revert", RecordFits(order, l), NEW t
  PROVE  /\ RecordFits(Append(order, x), l)
         /\ InWindow(Append(order, x), l, t) <=> InWindow(order, l, t)
<1> DEFINE next == Append(order, x)
<1>1. /\ next \in Seq(TurnIds) /\ IsInjective(next) /\ Pos(next, x) = Len(order) + 1
      /\ \A u \in ToSet(order) : Pos(next, u) = Pos(order, u)
      /\ ToSet(next) = ToSet(order) \cup {x}
  BY PosAppend, ToSetAppend, AppendProperties
<1> HIDE DEF next
<1>2. /\ Pos(order, l.from) \in 1..Len(order) /\ Pos(order, l.through) \in 1..Len(order)
      /\ Len(order) \in Nat
  BY PosPresent, LenProperties DEF RecordFits
<1>3. Pos(next, l.from) = Pos(order, l.from) /\ Pos(next, l.through) = Pos(order, l.through)
  BY <1>1 DEF RecordFits
<1>4. \A u : u # x => Pos(next, u) = Pos(order, u)
  <2> TAKE u
  <2>1. CASE u \in ToSet(order)
    BY <1>1, <2>1
  <2>2. CASE u \notin ToSet(order) /\ u # x
    <3>1. Pos(next, u) = 0
      BY <1>1, <2>2, PosAbsent
    <3>2. Pos(order, u) = 0
      BY <2>2, PosAbsent
    <3>3. QED
      BY <3>1, <3>2
  <2>3. QED
    BY <2>1, <2>2
<1>5. Pos(order, x) = 0
  BY PosAbsent
<1>6. RecordFits(next, l)
  <2>1. CASE l.turn = x
    BY <1>1, <1>2, <1>3, <2>1 DEF RecordFits
  <2>2. CASE l.turn # x
    <3>1. Pos(next, l.turn) = Pos(order, l.turn)
      BY <1>4, <2>2
    <3>2. QED
      BY <1>1, <1>3, <3>1 DEF RecordFits
  <2>3. QED
    BY <2>1, <2>2
<1>7. InWindow(next, l, t) <=> InWindow(order, l, t)
  <2>1. CASE t = x
    BY <1>1, <1>2, <1>3, <1>5, <2>1 DEF InWindow
  <2>2. CASE t # x
    BY <1>3, <1>4, <2>2 DEF InWindow
  <2>3. QED
    BY <2>1, <2>2
<1>8. QED
  BY <1>6, <1>7 DEF next

\* Appending a line that fits leaves the log well formed.
LEMMA WellFormedAppend ==
  ASSUME NEW L, WellFormed(L), NEW l, LineJoins(L, l)
  PROVE  WellFormed(Append(L, l))
<1> DEFINE M     == Append(L, l)
           order == OrderOf(L)
           next  == OrderOf(M)
<1>1. /\ L \in Seq(Lines) /\ l \in Lines /\ M \in Seq(Lines)
      /\ order \in Seq(TurnIds) /\ Len(order) \in Nat /\ IsInjective(order)
      /\ ToSet(order) = 1..Len(order)
  BY OrderIsSeq, AppendProperties DEF WellFormed, LineJoins, OrderFits
<1>2. next = IF l.kind = "turn_open" THEN Append(order, l.turn) ELSE order
  BY <1>1, OrderAppend
<1>3. ToSet(M) = ToSet(L) \cup {l}
  BY <1>1, ToSetAppend
<1>4. l.turn \in TurnIds /\ (l.kind = "turn_open" => l.turn \notin ToSet(order))
  BY <1>1, LineFields DEF LineJoins
<1>5. ToSet(order) \subseteq ToSet(next) /\ OrderFits(next)
      /\ (l.kind = "turn_open" => ToSet(next) = ToSet(order) \cup {l.turn})
  <2>1. CASE l.kind = "turn_open"
    <3>1. ToSet(next) = ToSet(order) \cup {l.turn} /\ Len(next) = Len(order) + 1 /\ IsInjective(next)
      BY <1>1, <1>2, <1>4, <2>1, ToSetAppend, AppendProperties, PosAppend
    <3>2. l.turn = Len(order) + 1
      BY <2>1 DEF LineJoins
    <3>3. 1..(Len(order) + 1) = 1..Len(order) \cup {Len(order) + 1}
      BY <1>1
    <3>4. QED
      BY <1>1, <3>1, <3>2, <3>3 DEF OrderFits
  <2>2. CASE l.kind # "turn_open"
    BY <1>1, <1>2, <2>2 DEF OrderFits
  <2>3. QED
    BY <2>1, <2>2
<1>6. l.turn \in ToSet(next)
  BY <1>2, <1>5 DEF LineJoins
<1>7. \A m \in ToSet(M) : m.turn \in ToSet(next)
  BY <1>3, <1>5, <1>6 DEF WellFormed
<1>8. ASSUME NEW t \in ToSet(next) PROVE TurnFits(OfTurn(M, t), t)
  <2> DEFINE mine == OfTurn(L, t)
  <2>1. OfTurn(M, t) = IF l.turn = t THEN Append(mine, l) ELSE mine
    BY <1>1, OfTurnAppend
  <2>2. mine \in Seq(Lines)
    BY <1>1, OfTurnElements
  <2>3. CASE t \in ToSet(order)
    <3>1. TurnFits(mine, t) /\ mine # <<>>
      BY <1>1, <2>3, TurnHasLines DEF WellFormed
    <3>2. CASE l.turn # t
      BY <2>1, <3>1, <3>2
    <3>3. CASE l.turn = t
      <4>1. l.kind # "turn_open"
        BY <1>4, <2>3, <3>3
      <4>2. /\ DOMAIN mine = 1..Len(mine) /\ DOMAIN Append(mine, l) = 1..(Len(mine) + 1)
            /\ Len(mine) \in Nat /\ Len(mine) # 0
            /\ Append(mine, l)[Len(mine) + 1] = l
            /\ \A i \in 1..Len(mine) : Append(mine, l)[i] = mine[i]
        BY <1>1, <2>2, <3>1, AppendProperties, LenProperties, EmptySeq
      <4> HIDE DEF mine
      <4>3. \A i \in DOMAIN Append(mine, l) : Append(mine, l)[i].kind = "turn_open" <=> i = 1
        <5>1. \A i \in 1..(Len(mine) + 1) : i \in 1..Len(mine) \/ (i = Len(mine) + 1 /\ i # 1)
          BY <4>2
        <5>2. QED
          BY <3>1, <4>1, <4>2, <5>1 DEF TurnFits
      <4>4. Append(mine, l)[1].msg = t
        BY <3>1, <4>2 DEF TurnFits
      <4>5. HasKind(Append(mine, l), "tool_result") => HasKind(Append(mine, l), "tool_call")
        <5>1. \A k : HasKind(Append(mine, l), k) <=> HasKind(mine, k) \/ l.kind = k
          BY <1>1, <2>2, HasKindAppend
        <5>2. l.kind = "tool_result" => HasKind(mine, "tool_call")
          BY <3>3 DEF LineJoins, mine
        <5>3. QED
          BY <3>1, <5>1, <5>2 DEF TurnFits
      <4>6. QED
        BY <2>1, <3>3, <4>3, <4>4, <4>5 DEF TurnFits
    <3>4. QED
      BY <3>2, <3>3
  <2>4. CASE t \notin ToSet(order)
    <3>1. l.kind = "turn_open" /\ l.turn = t /\ l.msg = t
      BY <1>2, <1>5, <2>4 DEF LineJoins
    <3>2. mine = <<>>
      BY <1>1, <2>4, TurnHasLines DEF WellFormed
    <3>3. OfTurn(M, t) = <<l>>
      BY <2>1, <3>1, <3>2
    <3>4. QED
      BY <3>1, <3>3 DEF TurnFits, HasKind
  <2>5. QED
    BY <2>3, <2>4
<1>9. ASSUME NEW r \in Records(M) PROVE RecordFits(next, r)
  <2>1. r \in Lines /\ r.kind = "turn_revert"
    <3>1. ToSet(M) \subseteq Lines
      BY <1>1, ElementOfSeq, LenProperties DEF ToSet
    <3>2. QED
      BY <3>1 DEF Records
  <2>2. RecordFits(order, r)
    BY <1>3, <2>1 DEF WellFormed, LineJoins, Records
  <2>3. CASE l.kind = "turn_open"
    BY <1>1, <1>2, <1>4, <2>1, <2>2, <2>3, WindowAppend
  <2>4. CASE l.kind # "turn_open"
    BY <1>2, <2>2, <2>4
  <2>5. QED
    BY <2>3, <2>4
<1>10. QED
  BY <1>1, <1>5, <1>7, <1>8, <1>9 DEF WellFormed

\* What the appended line hides, and what was hidden.
LEMMA HidesAppend ==
  ASSUME NEW L, WellFormed(L), NEW l, LineJoins(L, l), NEW t
  PROVE  Hides(Append(L, l), t) <=>
            Hides(L, t) \/ (l.kind = "turn_revert" /\ InWindow(OrderOf(L), l, t))
<1> DEFINE M     == Append(L, l)
           order == OrderOf(L)
           next  == OrderOf(M)
<1>1. /\ L \in Seq(Lines) /\ l \in Lines
      /\ order \in Seq(TurnIds) /\ Len(order) \in Nat /\ IsInjective(order)
      /\ ToSet(order) = 1..Len(order)
  BY OrderIsSeq, AppendProperties DEF WellFormed, LineJoins, OrderFits
<1>2. next = IF l.kind = "turn_open" THEN Append(order, l.turn) ELSE order
  BY <1>1, OrderAppend
<1>3. ToSet(M) = ToSet(L) \cup {l}
  BY <1>1, ToSetAppend
<1>4. l.turn \in TurnIds /\ (l.kind = "turn_open" => l.turn \notin ToSet(order))
  BY <1>1, LineFields DEF LineJoins
<1>5. Records(M) = IF l.kind = "turn_revert" THEN Records(L) \cup {l} ELSE Records(L)
  BY <1>3 DEF Records
<1>6. ASSUME NEW r \in Records(L) PROVE InWindow(next, r, t) <=> InWindow(order, r, t)
  <2>1. r \in Lines /\ r.kind = "turn_revert"
    <3>1. ToSet(L) \subseteq Lines
      BY <1>1, ElementOfSeq, LenProperties DEF ToSet
    <3>2. QED
      BY <3>1 DEF Records
  <2>2. RecordFits(order, r)
    BY DEF WellFormed
  <2>3. QED
    BY <1>1, <1>2, <1>4, <2>1, <2>2, WindowAppend
<1>7. l.kind = "turn_revert" => next = order
  BY <1>2
<1> HIDE DEF M, order, next
<1>8. Hides(M, t) <=> \E r \in Records(M) : InWindow(next, r, t)
  BY DEF Hides, next
<1>9. Hides(L, t) <=> \E r \in Records(L) : InWindow(order, r, t)
  BY DEF Hides, order
<1>10. QED
  BY <1>5, <1>6, <1>7, <1>8, <1>9 DEF M, order

\* The ends of a sequence one longer.
LEMMA LastAppend ==
  ASSUME NEW X, NEW s \in Seq(X), NEW x \in X
  PROVE  Last(Append(s, x)) = x /\ Append(s, x) # <<>> /\ Append(s, x)[1] = IF s = <<>> THEN x ELSE s[1]
<1>1. Len(Append(s, x)) = Len(s) + 1 /\ Append(s, x)[Len(s) + 1] = x /\ Append(s, x) # <<>>
      /\ Len(s) \in Nat /\ (s # <<>> => Len(s) # 0)
      /\ \A i \in 1..Len(s) : Append(s, x)[i] = s[i]
  BY AppendProperties, LenProperties, EmptySeq
<1>2. Last(Append(s, x)) = x
  BY <1>1 DEF Last
<1>3. QED
  BY <1>1, <1>2

\* What the fold makes of a row when a line of its turn is appended (observeLocked).
RowStep(row, l) ==
    IF l.kind = "turn_open"
    THEN [NoRow EXCEPT !.source = l.source, !.n = l.n, !.msg = l.msg, !.nextSeq = l.seq + 1]
    ELSE [row EXCEPT !.nextSeq = l.seq + 1,
                     !.call = CASE l.kind = "tool_call"   -> "open"
                                [] l.kind = "tool_result" -> "settled"
                                [] OTHER                  -> @,
                     !.bound = @ \/ l.kind = "turn_bind",
                     !.closed = @ \/ l.kind = "turn_close",
                     !.unterminated = IF l.kind = "turn_close" THEN l.raw = "unterminated" ELSE @,
                     !.hasRevert = @ \/ l.kind = "turn_revert"]

\* The fold of a line that opens no turn, field by field.
LEMMA RowStepIs ==
  ASSUME NEW row, NEW l, l.kind # "turn_open",
         row = [source |-> row.source, n |-> row.n, msg |-> row.msg, nextSeq |-> row.nextSeq,
                call |-> row.call, bound |-> row.bound, closed |-> row.closed,
                unterminated |-> row.unterminated, hasRevert |-> row.hasRevert,
                reverted |-> row.reverted]
  PROVE  RowStep(row, l) =
         [source |-> row.source, n |-> row.n, msg |-> row.msg, nextSeq |-> l.seq + 1,
          call         |-> IF l.kind = "tool_call" THEN "open"
                           ELSE IF l.kind = "tool_result" THEN "settled" ELSE row.call,
          bound        |-> row.bound \/ l.kind = "turn_bind",
          closed       |-> row.closed \/ l.kind = "turn_close",
          unterminated |-> IF l.kind = "turn_close" THEN l.raw = "unterminated"
                           ELSE row.unterminated,
          hasRevert    |-> row.hasRevert \/ l.kind = "turn_revert",
          reverted     |-> row.reverted]
BY DEF RowStep

\* The row a scan gives a turn is the fold of the new line into its row.
LEMMA RowAppend ==
  ASSUME NEW L, WellFormed(L), NEW l, LineJoins(L, l), NEW t \in TurnIds
  PROVE  RowOf(Append(L, l), t) = IF t = l.turn THEN RowStep(RowOf(L, t), l) ELSE RowOf(L, t)
<1> DEFINE mine == OfTurn(L, t)
           next == OfTurn(Append(L, l), t)
           closes == OfKind(mine, "turn_close")
<1>1. L \in Seq(Lines) /\ l \in Lines
  BY DEF WellFormed, LineJoins
<1>2. mine \in Seq(Lines)
  BY <1>1, OfTurnElements
<1>3. next = IF t = l.turn THEN Append(mine, l) ELSE mine
  BY <1>1, OfTurnAppend
<1>4. CASE t # l.turn
  BY <1>3, <1>4 DEF RowOf
<1>5. CASE t = l.turn /\ l.kind = "turn_open"
  <2>1. mine = <<>>
    <3>1. t \notin ToSet(OrderOf(L))
      BY <1>1, <1>5, OrderIsSeq DEF WellFormed, LineJoins, OrderFits
    <3>2. QED
      BY <1>1, <3>1, TurnHasLines DEF WellFormed
  <2>2. next = <<l>>
    BY <1>3, <1>5, <2>1
  <2>3. OfKind(<<l>>, "turn_close") = <<>>
    <3>1. <<l>> = Append(<<>>, l) /\ <<>> \in Seq(Lines)
      OBVIOUS
    <3>2. OfKind(Append(<<>>, l), "turn_close") = <<>>
      <4>1. OfKind(Append(<<>>, l), "turn_close") =
              IF l.kind = "turn_close" THEN Append(OfKind(<<>>, "turn_close"), l)
              ELSE OfKind(<<>>, "turn_close")
        BY <1>1, <3>1, OfKindAppend
      <4>2. QED
        BY <1>5, <4>1, OfKindEmpty
    <3>3. QED
      BY <3>1, <3>2
  <2>4. \A k : HasKind(<<l>>, k) = (l.kind = k)
    <3>1. <<l>> = Append(<<>>, l) /\ <<>> \in Seq(Lines)
      OBVIOUS
    <3>2. \A k : HasKind(Append(<<>>, l), k) <=> HasKind(<<>>, k) \/ l.kind = k
      BY <1>1, <3>1, HasKindAppend
    <3>3. \A k : ~HasKind(<<>>, k)
      BY DEF HasKind
    <3>4. \A s, k : HasKind(s, k) \in BOOLEAN
      BY DEF HasKind
    <3>5. QED
      BY <3>1, <3>2, <3>3, <3>4
  <2>5. next[1] = l /\ Last(next) = l /\ next # <<>>
    BY <2>2 DEF Last
  <2>6. RowOf(Append(L, l), t) =
          [source |-> l.source, n |-> l.n, msg |-> l.msg, nextSeq |-> l.seq + 1,
           call |-> "none", bound |-> FALSE, closed |-> FALSE, unterminated |-> FALSE,
           hasRevert |-> FALSE, reverted |-> FALSE]
    <3> HIDE DEF next
    <3>1. RowOf(Append(L, l), t) =
              [source       |-> next[1].source,
               n            |-> next[1].n,
               msg          |-> next[1].msg,
               nextSeq      |-> Last(next).seq + 1,
               call         |-> IF ~HasKind(next, "tool_call") THEN "none"
                                ELSE IF HasKind(next, "tool_result") THEN "settled" ELSE "open",
               bound        |-> HasKind(next, "turn_bind"),
               closed       |-> OfKind(next, "turn_close") # <<>>,
               unterminated |-> OfKind(next, "turn_close") # <<>>
                                  /\ Last(OfKind(next, "turn_close")).raw = "unterminated",
               hasRevert    |-> HasKind(next, "turn_revert"),
               reverted     |-> FALSE]
      BY <2>5 DEF RowOf, next
    <3>2. /\ HasKind(next, "tool_call") = FALSE /\ HasKind(next, "turn_bind") = FALSE
          /\ HasKind(next, "turn_revert") = FALSE /\ OfKind(next, "turn_close") = <<>>
      BY <1>5, <2>2, <2>3, <2>4
    <3>3. QED
      BY <2>5, <3>1, <3>2
  <2>7. QED
    BY <1>5, <2>6 DEF RowStep, NoRow
<1>6. CASE t = l.turn /\ l.kind # "turn_open"
  <2>1. t \in ToSet(OrderOf(L)) /\ TurnFits(mine, t) /\ mine # <<>>
    BY <1>1, <1>6, TurnHasLines DEF WellFormed, LineJoins
  <2>2. next = Append(mine, l) /\ next # <<>> /\ Last(next) = l /\ next[1] = mine[1]
    BY <1>1, <1>2, <1>3, <1>6, <2>1, LastAppend
  <2>3. \A k : HasKind(next, k) = (HasKind(mine, k) \/ l.kind = k)
    <3>1. \A k : HasKind(next, k) <=> HasKind(mine, k) \/ l.kind = k
      BY <1>1, <1>2, <2>2, HasKindAppend
    <3>2. \A s, k : HasKind(s, k) \in BOOLEAN
      BY DEF HasKind
    <3>3. QED
      BY <3>1, <3>2
  <2>4. closes \in Seq(Lines)
    BY <1>2, OfKindElements
  <2>5. OfKind(next, "turn_close") = IF l.kind = "turn_close" THEN Append(closes, l) ELSE closes
    BY <1>1, <1>2, <2>2, OfKindAppend
  <2>6. Last(Append(closes, l)) = l /\ Append(closes, l) # <<>>
    BY <1>1, <2>4, LastAppend
  <2>7. /\ l.kind = "tool_call" => ~HasKind(mine, "tool_call") /\ ~HasKind(mine, "tool_result")
        /\ l.kind = "tool_result" => HasKind(mine, "tool_call")
    BY <1>6, <2>1 DEF LineJoins, TurnFits
  <2> HIDE DEF mine, next, closes
  <2> DEFINE row == RowOf(L, t)
  <2>8. row = [source       |-> mine[1].source,
               n            |-> mine[1].n,
               msg          |-> mine[1].msg,
               nextSeq      |-> Last(mine).seq + 1,
               call         |-> IF ~HasKind(mine, "tool_call") THEN "none"
                                ELSE IF HasKind(mine, "tool_result") THEN "settled" ELSE "open",
               bound        |-> HasKind(mine, "turn_bind"),
               closed       |-> closes # <<>>,
               unterminated |-> closes # <<>> /\ Last(closes).raw = "unterminated",
               hasRevert    |-> HasKind(mine, "turn_revert"),
               reverted     |-> FALSE]
    BY <2>1 DEF RowOf, mine, closes
  <2>9. RowOf(Append(L, l), t) =
              [source       |-> row.source,
               n            |-> row.n,
               msg          |-> row.msg,
               nextSeq      |-> l.seq + 1,
               call         |-> IF l.kind = "tool_call" THEN "open"
                                ELSE IF l.kind = "tool_result" THEN "settled" ELSE row.call,
               bound        |-> row.bound \/ l.kind = "turn_bind",
               closed       |-> row.closed \/ l.kind = "turn_close",
               unterminated |-> IF l.kind = "turn_close" THEN l.raw = "unterminated"
                                ELSE row.unterminated,
               hasRevert    |-> row.hasRevert \/ l.kind = "turn_revert",
               reverted     |-> row.reverted]
    <3> HIDE DEF row
    <3>1. RowOf(Append(L, l), t) =
              [source       |-> next[1].source,
               n            |-> next[1].n,
               msg          |-> next[1].msg,
               nextSeq      |-> Last(next).seq + 1,
               call         |-> IF ~HasKind(next, "tool_call") THEN "none"
                                ELSE IF HasKind(next, "tool_result") THEN "settled" ELSE "open",
               bound        |-> HasKind(next, "turn_bind"),
               closed       |-> OfKind(next, "turn_close") # <<>>,
               unterminated |-> OfKind(next, "turn_close") # <<>>
                                  /\ Last(OfKind(next, "turn_close")).raw = "unterminated",
               hasRevert    |-> HasKind(next, "turn_revert"),
               reverted     |-> FALSE]
      BY <2>2 DEF RowOf, next
    <3>2. (IF ~HasKind(next, "tool_call") THEN "none"
           ELSE IF HasKind(next, "tool_result") THEN "settled" ELSE "open") =
          (IF l.kind = "tool_call" THEN "open"
           ELSE IF l.kind = "tool_result" THEN "settled" ELSE row.call)
      BY <2>3, <2>7, <2>8
    <3>3. HasKind(next, "turn_bind") = (row.bound \/ l.kind = "turn_bind")
      BY <2>3, <2>8
    <3>4. (OfKind(next, "turn_close") # <<>>) = (row.closed \/ l.kind = "turn_close")
      BY <2>5, <2>6, <2>8
    <3>5. (OfKind(next, "turn_close") # <<>>
             /\ Last(OfKind(next, "turn_close")).raw = "unterminated") =
          (IF l.kind = "turn_close" THEN l.raw = "unterminated" ELSE row.unterminated)
      BY <2>5, <2>6, <2>8
    <3>6. HasKind(next, "turn_revert") = (row.hasRevert \/ l.kind = "turn_revert")
      BY <2>3, <2>8
    <3>7. /\ next[1].source = row.source /\ next[1].n = row.n /\ next[1].msg = row.msg
          /\ row.reverted = FALSE /\ Last(next).seq = l.seq
      BY <2>2, <2>8
    <3>8. QED
      BY <3>7, <3>1, <3>2, <3>3, <3>4, <3>5, <3>6
  <2>10. RowOf(Append(L, l), t) = RowStep(row, l)
    <3>1. row = [source |-> row.source, n |-> row.n, msg |-> row.msg, nextSeq |-> row.nextSeq,
                 call |-> row.call, bound |-> row.bound, closed |-> row.closed,
                 unterminated |-> row.unterminated, hasRevert |-> row.hasRevert,
                 reverted |-> row.reverted]
      BY <2>8
    <3> HIDE DEF row
    <3>2. RowStep(row, l) =
         [source |-> row.source, n |-> row.n, msg |-> row.msg, nextSeq |-> l.seq + 1,
          call         |-> IF l.kind = "tool_call" THEN "open"
                           ELSE IF l.kind = "tool_result" THEN "settled" ELSE row.call,
          bound        |-> row.bound \/ l.kind = "turn_bind",
          closed       |-> row.closed \/ l.kind = "turn_close",
          unterminated |-> IF l.kind = "turn_close" THEN l.raw = "unterminated"
                           ELSE row.unterminated,
          hasRevert    |-> row.hasRevert \/ l.kind = "turn_revert",
          reverted     |-> row.reverted]
      BY <1>6, <3>1, RowStepIs
    <3>3. QED
      BY <2>9, <3>2
  <2>11. QED
    BY <1>6, <2>10
<1>7. QED
  BY <1>4, <1>5, <1>6

\* A row has the ten fields, whatever the lines.
Shaped(row) ==
    row = [source |-> row.source, n |-> row.n, msg |-> row.msg, nextSeq |-> row.nextSeq,
           call |-> row.call, bound |-> row.bound, closed |-> row.closed,
           unterminated |-> row.unterminated, hasRevert |-> row.hasRevert,
           reverted |-> row.reverted]

\* A scanned row has all its fields, its mark unset.
LEMMA RowShaped ==
  ASSUME NEW L, NEW t
  PROVE  Shaped(RowOf(L, t)) /\ RowOf(L, t).reverted = FALSE
<1>1. CASE OfTurn(L, t) = <<>>
  <2>1. RowOf(L, t) = NoRow
    BY <1>1 DEF RowOf
  <2>2. QED
    BY <2>1 DEF Shaped, NoRow
<1>2. CASE OfTurn(L, t) # <<>>
  BY <1>2 DEF RowOf, Shaped
<1>3. QED
  BY <1>1, <1>2

\* Observe's row of a line that opens no turn is the fold's, with its own mark.
Own(row, l) ==
    [row EXCEPT !.nextSeq = l.seq + 1,
                !.call = CASE l.kind = "tool_call"   -> "open"
                           [] l.kind = "tool_result" -> "settled"
                           [] OTHER                  -> @,
                !.bound = @ \/ l.kind = "turn_bind",
                !.closed = @ \/ l.kind = "turn_close",
                !.unterminated = IF l.kind = "turn_close" THEN l.raw = "unterminated" ELSE @,
                !.hasRevert = @ \/ l.kind = "turn_revert"]

\* The mark passes through the fold untouched.
LEMMA OwnIsRowStep ==
  ASSUME NEW row, Shaped(row), NEW l, l.kind # "turn_open", NEW v
  PROVE  Own([row EXCEPT !.reverted = v], l) = [RowStep(row, l) EXCEPT !.reverted = v]
<1> DEFINE marked == [row EXCEPT !.reverted = v]
<1>1. /\ Shaped(marked) /\ marked.reverted = v
      /\ marked.source = row.source /\ marked.n = row.n /\ marked.msg = row.msg
      /\ marked.call = row.call /\ marked.bound = row.bound /\ marked.closed = row.closed
      /\ marked.unterminated = row.unterminated /\ marked.hasRevert = row.hasRevert
  BY DEF Shaped
<1> HIDE DEF marked
<1>2. Own(marked, l) = RowStep(marked, l)
  BY DEF Own, RowStep
<1> DEFINE next(m) ==
        [source |-> row.source, n |-> row.n, msg |-> row.msg, nextSeq |-> l.seq + 1,
         call         |-> IF l.kind = "tool_call" THEN "open"
                          ELSE IF l.kind = "tool_result" THEN "settled" ELSE row.call,
         bound        |-> row.bound \/ l.kind = "turn_bind",
         closed       |-> row.closed \/ l.kind = "turn_close",
         unterminated |-> IF l.kind = "turn_close" THEN l.raw = "unterminated"
                          ELSE row.unterminated,
         hasRevert    |-> row.hasRevert \/ l.kind = "turn_revert",
         reverted     |-> m]
<1>3. RowStep(marked, l) = next(v)
  BY <1>1, RowStepIs DEF Shaped
<1>4. RowStep(row, l) = next(row.reverted)
  BY RowStepIs DEF Shaped
<1>5. [next(row.reverted) EXCEPT !.reverted = v] = next(v)
  OBVIOUS
<1> HIDE DEF next
<1>6. QED
  BY <1>2, <1>3, <1>4, <1>5 DEF marked

\* A turn_open's row has all its fields, its mark unset.
LEMMA OpenedShaped ==
  ASSUME NEW row, NEW l, l.kind = "turn_open"
  PROVE  Shaped(RowStep(row, l)) /\ RowStep(row, l).reverted = FALSE
<1>1. RowStep(row, l) =
          [source |-> l.source, n |-> l.n, msg |-> l.msg, nextSeq |-> l.seq + 1,
           call |-> "none", bound |-> FALSE, closed |-> FALSE, unterminated |-> FALSE,
           hasRevert |-> FALSE, reverted |-> FALSE]
  BY DEF RowStep, NoRow
<1>2. QED
  BY <1>1 DEF Shaped

\* With no carrier exempt it is the scan.
LEMMA IndexIsRescan ==
  ASSUME NEW L \in Seq(Lines)
  PROVE  IndexOf(L, NoTurn) = Rescan(L)
<1>1. ToSet(OfKind(L, "turn_revert")) = Records(L)
  BY OfKindElements DEF Records
<1> DEFINE rows == [t \in TurnIds |-> RowOf(L, t)]
<1>2. ASSUME NEW t \in TurnIds
      PROVE  [RowOf(L, t) EXCEPT !.reverted =
                  Hides(L, t) \/ (t # NoTurn /\ IncompleteCarrier(RowOf(L, t)))]
             = [rows[t] EXCEPT !.reverted =
                  \/ \E l \in Records(L) : InWindow(OrderOf(L), l, t)
                  \/ IncompleteCarrier(rows[t])]
  <2>1. t # NoTurn
    BY LogBoundsAssumption DEF TurnIds, NoTurn
  <2>2. rows[t] = RowOf(L, t)
    OBVIOUS
  <2>3. QED
    BY <2>1, <2>2 DEF Hides
<1>3. Rescan(L) =
           [size    |-> Len(L),
            order   |-> OrderOf(L),
            rows    |-> [t \in TurnIds |-> [rows[t] EXCEPT !.reverted =
                         \/ \E l \in Records(L) : InWindow(OrderOf(L), l, t)
                         \/ IncompleteCarrier(rows[t])]],
            cleared |-> UNION {Clears(L[i]) : i \in DOMAIN L},
            newest  |-> IF Records(L) = {} THEN NoTurn
                        ELSE Last(OfKind(L, "turn_revert")).from]
  BY <1>1 DEF Rescan
<1>4. [t \in TurnIds |-> [RowOf(L, t) EXCEPT !.reverted =
                  Hides(L, t) \/ (t # NoTurn /\ IncompleteCarrier(RowOf(L, t)))]]
      = [t \in TurnIds |-> [rows[t] EXCEPT !.reverted =
                         \/ \E l \in Records(L) : InWindow(OrderOf(L), l, t)
                         \/ IncompleteCarrier(rows[t])]]
  BY <1>2
<1> HIDE DEF rows
<1>5. QED
  BY <1>3, <1>4 DEF IndexOf

\* Folding one appended line into the index is scanning the longer file.
LEMMA ObserveIsScan ==
  ASSUME NEW L, WellFormed(L), NEW l, LineJoins(L, l), NEW c, NEW d,
         l.kind = "turn_open" => l.seq = 0,
         l.kind = "turn_revert" => ~IndexOf(L, c).rows[l.turn].reverted,
         \A t \in TurnIds : IncompleteCarrier(RowOf(Append(L, l), t)) =>
            (t = d <=> t = c \/ (l.kind = "turn_open" /\ t = l.turn))
  PROVE  Observe(IndexOf(L, c), l) = IndexOf(Append(L, l), d)
<1> DEFINE M   == Append(L, l)
           ix  == IndexOf(L, c)
           V(t) == Hides(L, t) \/ (t # c /\ IncompleteCarrier(RowOf(L, t)))
           W(t) == Hides(M, t) \/ (t # d /\ IncompleteCarrier(RowOf(M, t)))
<1>1. L \in Seq(Lines) /\ l \in Lines /\ M \in Seq(Lines) /\ l.turn \in TurnIds
  BY AppendProperties, LineFields DEF WellFormed, LineJoins
<1>2. /\ ix.size = Len(L) /\ ix.order = OrderOf(L)
      /\ ix.rows = [t \in TurnIds |-> [RowOf(L, t) EXCEPT !.reverted = V(t)]]
      /\ ix.cleared = UNION {Clears(L[i]) : i \in DOMAIN L}
      /\ ix.newest = IF Records(L) = {} THEN NoTurn ELSE Last(OfKind(L, "turn_revert")).from
  BY DEF IndexOf
<1> DEFINE marked  == [t \in TurnIds |-> [RowOf(M, t) EXCEPT !.reverted = W(t)]]
           cleared == UNION {Clears(M[i]) : i \in DOMAIN M}
           newest  == IF Records(M) = {} THEN NoTurn ELSE Last(OfKind(M, "turn_revert")).from
<1>3. IndexOf(M, d) = [size |-> Len(M), order |-> OrderOf(M), rows |-> marked,
                       cleared |-> cleared, newest |-> newest]
  BY DEF IndexOf
<1>4. \A t \in TurnIds : Shaped(RowOf(L, t)) /\ RowOf(L, t).reverted = FALSE
  BY RowShaped
<1>5. \A t \in TurnIds :
         RowOf(M, t) = IF t = l.turn THEN RowStep(RowOf(L, t), l) ELSE RowOf(L, t)
  BY RowAppend
<1> HIDE DEF ix, M
\* The rows.
<1> DEFINE own    == [ix.rows[l.turn] EXCEPT
                        !.nextSeq = l.seq + 1,
                        !.call = CASE l.kind = "tool_call"   -> "open"
                                   [] l.kind = "tool_result" -> "settled"
                                   [] OTHER                  -> @,
                        !.bound = @ \/ l.kind = "turn_bind",
                        !.closed = @ \/ l.kind = "turn_close",
                        !.unterminated = IF l.kind = "turn_close" THEN l.raw = "unterminated" ELSE @,
                        !.hasRevert = @ \/ l.kind = "turn_revert"]
           opened == [NoRow EXCEPT !.source = l.source, !.n = l.n, !.msg = l.msg, !.nextSeq = 1]
           rows   == [ix.rows EXCEPT ![l.turn] = IF l.kind = "turn_open" THEN opened ELSE own]
           after  == IF l.kind # "turn_revert" THEN rows
                     ELSE [t \in TurnIds |-> [rows[t] EXCEPT
                              !.reverted = @ \/ InWindow(ix.order, l, t)]]
<1>6. l.kind = "turn_open" => opened = RowStep(RowOf(L, l.turn), l) /\ opened.reverted = FALSE
                              /\ Shaped(opened)
  <2> SUFFICES ASSUME l.kind = "turn_open"
               PROVE  opened = RowStep(RowOf(L, l.turn), l) /\ opened.reverted = FALSE
                        /\ Shaped(opened)
    OBVIOUS
  <2>1. l.seq + 1 = 1
    OBVIOUS
  <2>2. RowStep(RowOf(L, l.turn), l) = opened
    BY <2>1 DEF RowStep
  <2> HIDE DEF opened
  <2>3. opened.reverted = FALSE /\ Shaped(opened)
    BY <2>2, OpenedShaped
  <2>4. QED
    BY <2>2, <2>3
<1>7. l.kind # "turn_open" => own = [RowStep(RowOf(L, l.turn), l) EXCEPT !.reverted = V(l.turn)]
  <2>1. ix.rows[l.turn] = [RowOf(L, l.turn) EXCEPT !.reverted = V(l.turn)]
    BY <1>1, <1>2
  <2>2. Shaped(RowOf(L, l.turn))
    BY <1>1, <1>4
  <2> HIDE DEF V
  <2>3. own = Own(ix.rows[l.turn], l)
    BY DEF Own
  <2> HIDE DEF own
  <2>4. QED
    BY <2>1, <2>2, <2>3, OwnIsRowStep
<1> HIDE DEF own, opened
<1>8. ASSUME NEW t \in TurnIds
      PROVE  rows[t] = [RowOf(M, t) EXCEPT !.reverted =
                           IF l.kind = "turn_open" /\ t = l.turn THEN FALSE ELSE V(t)]
  <2>1. CASE t # l.turn
    BY <1>1, <1>2, <1>5, <2>1
  <2>2. CASE t = l.turn /\ l.kind = "turn_open"
    <3>1. rows[t] = opened
      BY <1>1, <1>2, <2>2
    <3>2. RowOf(M, t) = opened
      BY <1>5, <1>6, <2>2
    <3>3. opened = [opened EXCEPT !.reverted = FALSE]
      BY <1>6, <2>2 DEF Shaped
    <3>4. QED
      BY <2>2, <3>1, <3>2, <3>3
  <2>3. CASE t = l.turn /\ l.kind # "turn_open"
    <3>1. rows[t] = own
      BY <1>1, <1>2, <2>3
    <3>2. RowOf(M, t) = RowStep(RowOf(L, t), l)
      BY <1>5, <2>3
    <3>3. QED
      BY <1>7, <2>3, <3>1, <3>2
  <2>4. QED
    BY <2>1, <2>2, <2>3
<1> HIDE DEF rows
<1>9. ASSUME NEW t \in TurnIds
      PROVE  W(t) <=> \/ IF l.kind = "turn_open" /\ t = l.turn THEN FALSE ELSE V(t)
                      \/ l.kind = "turn_revert" /\ InWindow(OrderOf(L), l, t)
  <2>1. Hides(M, t) <=> Hides(L, t) \/ (l.kind = "turn_revert" /\ InWindow(OrderOf(L), l, t))
    BY HidesAppend DEF M
  <2>2. CASE l.kind = "turn_open" /\ t = l.turn
    <3>1. t \notin ToSet(OrderOf(L))
      BY <1>1, <2>2, OrderIsSeq DEF WellFormed, LineJoins, OrderFits
    <3>2. Pos(OrderOf(L), t) = 0
      BY <1>1, <3>1, OrderIsSeq, PosAbsent
    <3>3. ~Hides(L, t)
      <4>1. \A r : Pos(OrderOf(L), r.from) > 0 => ~(Pos(OrderOf(L), r.from) <= 0)
        <5>1. \A x : Pos(OrderOf(L), x) \in Nat
          BY <1>1, OrderIsSeq, PosIsNat DEF WellFormed, OrderFits
        <5>2. QED
          BY <5>1
      <4>2. QED
        BY <3>2, <4>1 DEF Hides, InWindow
    <3>4. QED
      BY <2>1, <2>2, <3>3 DEF M
  <2>3. CASE ~(l.kind = "turn_open" /\ t = l.turn)
    <3>1. IncompleteCarrier(RowOf(M, t)) => (t = d <=> t = c)
      BY <2>3 DEF M
    <3>2. CASE t # l.turn \/ l.kind # "turn_revert"
      <4>1. IncompleteCarrier(RowOf(M, t)) <=> IncompleteCarrier(RowOf(L, t))
        <5>1. CASE t # l.turn
          BY <1>5, <5>1
        <5>2. CASE t = l.turn
          <6>1. l.kind # "turn_open" /\ l.kind # "turn_revert"
            BY <2>3, <3>2, <5>2
          <6>2. /\ RowStep(RowOf(L, t), l).source = RowOf(L, t).source
                /\ RowStep(RowOf(L, t), l).hasRevert <=> RowOf(L, t).hasRevert
            <7> DEFINE row == RowOf(L, t)
            <7>1. Shaped(row)
              BY <1>4
            <7> HIDE DEF row
            <7>2. RowStep(row, l).source = row.source /\ (RowStep(row, l).hasRevert <=> row.hasRevert)
              BY <6>1, <7>1 DEF RowStep, Shaped
            <7>3. QED
              BY <7>2 DEF row
          <6>3. QED
            BY <1>5, <5>2, <6>2 DEF IncompleteCarrier
        <5>3. QED
          BY <5>1, <5>2
      <4>2. QED
        BY <2>1, <2>3, <3>1, <4>1
    <3>3. CASE t = l.turn /\ l.kind = "turn_revert"
      <4>1. ~V(t)
        <5> DEFINE row == RowOf(L, l.turn)
                   v   == V(l.turn)
        <5>1. Shaped(row) /\ ix.rows[l.turn] = [row EXCEPT !.reverted = v]
          BY <1>1, <1>2, <1>4
        <5>2. ~ix.rows[l.turn].reverted
          BY <3>3 DEF ix
        <5> HIDE DEF row, v
        <5>3. [row EXCEPT !.reverted = v].reverted = v
          BY <5>1 DEF Shaped
        <5>4. ~v
          BY <5>1, <5>2, <5>3
        <5>5. QED
          BY <3>3, <5>4 DEF v
      <4>2. ~IncompleteCarrier(RowOf(M, t))
        <5> DEFINE row == RowOf(L, t)
        <5>1. Shaped(row) /\ RowOf(M, t) = RowStep(row, l)
          BY <1>4, <1>5, <3>3
        <5> HIDE DEF row
        <5>2. RowStep(row, l).hasRevert
          BY <3>3, <5>1 DEF RowStep, Shaped
        <5>3. QED
          BY <5>1, <5>2 DEF IncompleteCarrier
      <4>3. QED
        BY <2>1, <2>3, <4>1, <4>2
    <3>4. QED
      BY <3>2, <3>3
  <2>4. QED
    BY <2>2, <2>3
<1> HIDE DEF V, W
<1>10. after = marked
  <2>1. rows = [t \in TurnIds |-> rows[t]]
    BY <1>2 DEF rows
  <2>2. after = [t \in TurnIds |-> after[t]]
    BY <2>1
  <2>3. ASSUME NEW t \in TurnIds PROVE after[t] = [RowOf(M, t) EXCEPT !.reverted = W(t)]
    <3>1. Shaped(RowOf(M, t))
      BY RowShaped
    <3>2. W(t) \in BOOLEAN /\ V(t) \in BOOLEAN /\ InWindow(ix.order, l, t) \in BOOLEAN
      BY DEF W, V, InWindow, Hides, IncompleteCarrier
    <3>3. CASE l.kind = "turn_revert"
      <4>1. rows[t] = [RowOf(M, t) EXCEPT !.reverted = V(t)]
        BY <1>8, <3>3
      <4>2. after[t] = [rows[t] EXCEPT !.reverted = @ \/ InWindow(ix.order, l, t)]
        BY <3>3
      <4>3. W(t) = (V(t) \/ InWindow(ix.order, l, t))
        BY <1>2, <1>9, <3>2, <3>3
      <4>4. rows[t].reverted = V(t)
        BY <3>1, <4>1 DEF Shaped
      <4>5. after[t] = [rows[t] EXCEPT !.reverted = W(t)]
        BY <4>2, <4>3, <4>4
      <4>6. QED
        BY <3>1, <4>1, <4>5 DEF Shaped
    <3>4. CASE l.kind # "turn_revert"
      <4>1. after[t] = rows[t]
        BY <3>4
      <4>2. W(t) = IF l.kind = "turn_open" /\ t = l.turn THEN FALSE ELSE V(t)
        BY <1>9, <3>2, <3>4
      <4>3. QED
        BY <1>8, <4>1, <4>2
    <3>5. QED
      BY <3>3, <3>4
  <2> HIDE DEF after
  <2>4. QED
    BY <2>2, <2>3
<1>11. Observe(ix, l) =
          [size    |-> Len(L) + 1,
           order   |-> IF l.kind = "turn_open" THEN Append(OrderOf(L), l.turn) ELSE OrderOf(L),
           rows    |-> after,
           cleared |-> ix.cleared \cup Clears(l),
           newest  |-> IF l.kind = "turn_revert" THEN l.from ELSE ix.newest]
  BY <1>2 DEF Observe, rows, own, opened
<1> HIDE DEF after
<1>12. Len(M) = Len(L) + 1
  BY <1>1, AppendProperties DEF M
<1>13. OrderOf(M) = IF l.kind = "turn_open" THEN Append(OrderOf(L), l.turn) ELSE OrderOf(L)
  BY <1>1, OrderAppend DEF M
<1>14. ix.cleared \cup Clears(l) = cleared
  <2>1. \A s : UNION {Clears(s[i]) : i \in DOMAIN s} = UNION {Clears(m) : m \in ToSet(s)}
    BY DEF ToSet
  <2>2. ToSet(M) = ToSet(L) \cup {l}
    BY <1>1, ToSetAppend DEF M
  <2>3. QED
    BY <1>2, <2>1, <2>2
<1>15. (IF l.kind = "turn_revert" THEN l.from ELSE ix.newest) = newest
  <2>1. Records(M) = IF l.kind = "turn_revert" THEN Records(L) \cup {l} ELSE Records(L)
    BY <1>1, ToSetAppend DEF Records, M
  <2>2. OfKind(M, "turn_revert") =
          IF l.kind = "turn_revert" THEN Append(OfKind(L, "turn_revert"), l)
          ELSE OfKind(L, "turn_revert")
    BY <1>1, OfKindAppend DEF M
  <2>3. Last(Append(OfKind(L, "turn_revert"), l)) = l
    BY <1>1, OfKindElements, LastAppend
  <2>4. QED
    BY <1>2, <2>1, <2>2, <2>3
<1> HIDE DEF marked, cleared, newest
<1>16. Observe(ix, l) = IndexOf(M, d)
  BY <1>3, <1>10, <1>11, <1>12, <1>13, <1>14, <1>15
<1>17. QED
  BY <1>16 DEF ix, M

----------------------------------------------------------------------------
\* The lines an operation appends.

\* The carrier of the rewind whose record is still to be appended.
MintedIn(lines) == IF lines # <<>> /\ Last(lines).kind = "turn_revert"
                   THEN Last(lines).turn ELSE NoTurn

\* A line an operation still appends, the i-th, fits the index.
LineFits(ix, lines, i) ==
    LET l == lines[i]
    IN  /\ l \in Lines
        /\ l.kind = "turn_open" =>
              /\ i = 1 /\ l.turn = Fresh(ix) /\ l.msg = l.turn
              /\ l.source = "revert" => Len(lines) > 1 /\ MintedIn(lines) = l.turn
        /\ l.kind # "turn_open" => \/ l.turn \in ToSet(ix.order)
                                   \/ lines[1].kind = "turn_open" /\ l.turn = lines[1].turn
        /\ l.kind = "tool_call" => i = 1 /\ ix.rows[l.turn].call = "none"
        /\ l.kind = "tool_result" => ix.rows[l.turn].call # "none"
        /\ l.kind = "turn_revert" =>
              /\ i = Len(lines)
              /\ RecordFits(ix.order, l)
              /\ ~ix.rows[l.from].reverted
              /\ l.turn \in ToSet(ix.order) => ~ix.rows[l.turn].reverted

Fits(ix, lines) ==
    /\ lines \in Seq(Lines) /\ lines # <<>>
    /\ \A i \in 1..Len(lines) : LineFits(ix, lines, i)

----------------------------------------------------------------------------
\* What the index of well-formed lines is made of.

\* A scanned row has its type; it is blank just for turns that are not there.
LEMMA RowTypes ==
  ASSUME NEW L, WellFormed(L), NEW t \in TurnIds
  PROVE  /\ RowOf(L, t) \in Rows
         /\ t \in ToSet(OrderOf(L)) => RowOf(L, t).msg = t /\ RowOf(L, t).source \in Sources
         /\ t \notin ToSet(OrderOf(L)) => RowOf(L, t) = NoRow
<1> DEFINE mine   == OfTurn(L, t)
           closes == OfKind(mine, "turn_close")
<1>1. L \in Seq(Lines) /\ mine \in Seq(Lines) /\ closes \in Seq(Lines)
      /\ ToSet(closes) = {l \in ToSet(mine) : l.kind = "turn_close"}
  BY OfTurnElements, OfKindElements DEF WellFormed
<1>2. CASE t \notin ToSet(OrderOf(L))
  <2>1. mine = <<>>
    BY <1>1, <1>2, TurnHasLines DEF WellFormed
  <2>2. RowOf(L, t) = NoRow
    BY <2>1 DEF RowOf
  <2>3. NoRow \in Rows
    BY DEF NoRow, Rows, NoTurn
  <2>4. QED
    BY <1>2, <2>2, <2>3
<1>3. CASE t \in ToSet(OrderOf(L))
  <2>1. mine # <<>> /\ TurnFits(mine, t)
    BY <1>1, <1>3, TurnHasLines DEF WellFormed
  <2> HIDE DEF mine, closes
  <2>2. /\ Len(mine) \in Nat /\ Len(mine) # 0 /\ DOMAIN mine = 1..Len(mine)
        /\ \A i \in 1..Len(mine) : mine[i] \in Lines
    BY <1>1, <2>1, LenProperties, EmptySeq, ElementOfSeq
  <2>3. mine[1] \in Lines /\ mine[1].kind = "turn_open" /\ Last(mine) \in Lines
    BY <2>1, <2>2 DEF TurnFits, Last
  <2>4. /\ mine[1].source \in Sources /\ mine[1].n \in Nat /\ mine[1].msg = t
        /\ Last(mine).seq + 1 \in Nat
    BY <2>1, <2>3, LineFields DEF TurnFits
  <2> DEFINE call == IF ~HasKind(mine, "tool_call") THEN "none"
                     ELSE IF HasKind(mine, "tool_result") THEN "settled" ELSE "open"
             unterminated == closes # <<>> /\ Last(closes).raw = "unterminated"
  <2>5. RowOf(L, t) =
        [source       |-> mine[1].source,
         n            |-> mine[1].n,
         msg          |-> mine[1].msg,
         nextSeq      |-> Last(mine).seq + 1,
         call         |-> call,
         bound        |-> HasKind(mine, "turn_bind"),
         closed       |-> closes # <<>>,
         unterminated |-> unterminated,
         hasRevert    |-> HasKind(mine, "turn_revert"),
         reverted     |-> FALSE]
    BY <2>1 DEF RowOf, mine, closes
  <2>6. call \in {"none", "open", "settled"} /\ unterminated \in BOOLEAN
        /\ \A k : HasKind(mine, k) \in BOOLEAN
    BY DEF HasKind
  <2> HIDE DEF call, unterminated
  <2>7. RowOf(L, t) \in Rows
    BY <1>3, <2>4, <2>5, <2>6 DEF Rows
  <2>8. QED
    BY <1>3, <2>4, <2>5, <2>7
<1>4. QED
  BY <1>2, <1>3

\* A carrier is what its row says it is.
LEMMA CarriersAre ==
  ASSUME NEW L, WellFormed(L), NEW t \in ToSet(OrderOf(L))
  PROVE  t \in Carriers(L) <=> RowOf(L, t).source = "revert"
<1> DEFINE mine == OfTurn(L, t)
<1>1. L \in Seq(Lines) /\ TurnFits(mine, t)
  BY DEF WellFormed
<1>2. mine # <<>> /\ mine \in Seq(Lines) /\ ToSet(mine) = {l \in ToSet(L) : l.turn = t}
  BY <1>1, TurnHasLines, OfTurnElements
<1>3. RowOf(L, t).source = mine[1].source
  BY <1>2 DEF RowOf
<1> HIDE DEF mine
<1>4. DOMAIN mine = 1..Len(mine) /\ 1 \in DOMAIN mine
  BY <1>2, LenProperties, EmptySeq
<1>5. mine[1] \in ToSet(L) /\ mine[1].turn = t /\ mine[1].kind = "turn_open"
  BY <1>1, <1>2, <1>4 DEF ToSet, TurnFits
<1>6. ASSUME NEW l \in ToSet(L), l.turn = t, l.kind = "turn_open" PROVE l = mine[1]
  <2>1. PICK i \in DOMAIN mine : mine[i] = l
    BY <1>2, <1>6 DEF ToSet
  <2>2. i = 1
    BY <1>1, <1>6, <2>1 DEF TurnFits
  <2>3. QED
    BY <2>1, <2>2
<1>7. QED
  BY <1>3, <1>5, <1>6 DEF Carriers

\* Only turns of the log are hidden.
LEMMA HidesOnlyOrdered ==
  ASSUME NEW L, WellFormed(L), NEW t, Hides(L, t)
  PROVE  t \in ToSet(OrderOf(L))
<1>1. OrderOf(L) \in Seq(TurnIds) /\ IsInjective(OrderOf(L))
  BY OrderIsSeq DEF WellFormed, OrderFits
<1>2. \A x : Pos(OrderOf(L), x) \in Nat /\ (Pos(OrderOf(L), x) > 0 <=> x \in ToSet(OrderOf(L)))
  BY <1>1, PosIsNat
<1>3. QED
  BY <1>2 DEF Hides, InWindow

\* The last record hides the turn it starts from.
LEMMA NewestIsHidden ==
  ASSUME NEW L, WellFormed(L), NEW c, IndexOf(L, c).newest # NoTurn
  PROVE  /\ IndexOf(L, c).newest \in ToSet(OrderOf(L))
         /\ Hides(L, IndexOf(L, c).newest)
<1> DEFINE all == OfKind(L, "turn_revert")
           l   == Last(all)
<1>1. all \in Seq(Lines) /\ ToSet(all) = Records(L)
  BY OfKindElements DEF Records, WellFormed
<1>2. Records(L) # {} /\ IndexOf(L, c).newest = l.from
  BY DEF IndexOf
<1>3. l \in Records(L)
  <2>1. all # <<>>
    BY <1>1, <1>2 DEF ToSet
  <2>2. Len(all) \in DOMAIN all
    BY <1>1, <2>1, LenProperties, EmptySeq
  <2>3. QED
    BY <1>1, <2>2 DEF Last, ToSet
<1>4. RecordFits(OrderOf(L), l)
  BY <1>3 DEF WellFormed
<1> HIDE DEF l
<1>5. OrderOf(L) \in Seq(TurnIds) /\ IsInjective(OrderOf(L))
  BY OrderIsSeq DEF WellFormed, OrderFits
<1>6. \A x : Pos(OrderOf(L), x) \in Nat /\ (Pos(OrderOf(L), x) > 0 <=> x \in ToSet(OrderOf(L)))
  BY <1>5, PosIsNat
<1>7. l.from # l.turn
  BY <1>4, <1>6 DEF RecordFits
<1>8. InWindow(OrderOf(L), l, l.from)
  BY <1>4, <1>6, <1>7 DEF RecordFits, InWindow
<1>9. QED
  BY <1>2, <1>3, <1>4, <1>8 DEF Hides, RecordFits

\* What the index of well-formed lines says of each turn.
LEMMA IndexFacts ==
  ASSUME NEW L, WellFormed(L), NEW c, NEW ix, ix = IndexOf(L, c)
  PROVE  /\ ix.size = Len(L) /\ ix.order = OrderOf(L)
         /\ ix.order \in Seq(TurnIds) /\ Len(ix.order) \in Nat /\ OrderFits(ix.order)
         /\ ToSet(ix.order) \subseteq TurnIds
         /\ ix.rows \in [TurnIds -> Rows]
         /\ \A t \in TurnIds : /\ ix.rows[t] = [RowOf(L, t) EXCEPT !.reverted = ix.rows[t].reverted]
                               /\ ix.rows[t].reverted <=>
                                     Hides(L, t) \/ (t # c /\ IncompleteCarrier(ix.rows[t]))
         /\ \A t \in ToSet(ix.order) : ix.rows[t].msg = t /\ ix.rows[t].source \in Sources
         /\ \A t \in TurnIds : t \notin ToSet(ix.order) => ix.rows[t] = NoRow
<1>1. /\ ix.size = Len(L) /\ ix.order = OrderOf(L)
      /\ ix.rows = [t \in TurnIds |-> [RowOf(L, t) EXCEPT !.reverted =
                     Hides(L, t) \/ (t # c /\ IncompleteCarrier(RowOf(L, t)))]]
  BY DEF IndexOf
<1>2. /\ ix.order \in Seq(TurnIds) /\ Len(ix.order) \in Nat /\ OrderFits(ix.order)
      /\ ToSet(ix.order) \subseteq TurnIds
  <2>1. ix.order \in Seq(TurnIds) /\ Len(ix.order) \in Nat /\ OrderFits(ix.order)
    BY <1>1, OrderIsSeq DEF WellFormed
  <2>2. QED
    BY <2>1, LenProperties, ElementOfSeq DEF ToSet
<1>3. ASSUME NEW t \in TurnIds
      PROVE  /\ ix.rows[t] \in Rows
             /\ ix.rows[t] = [RowOf(L, t) EXCEPT !.reverted = ix.rows[t].reverted]
             /\ ix.rows[t].reverted <=>
                   Hides(L, t) \/ (t # c /\ IncompleteCarrier(ix.rows[t]))
             /\ t \in ToSet(ix.order) => ix.rows[t].msg = t /\ ix.rows[t].source \in Sources
             /\ t \notin ToSet(ix.order) => ix.rows[t] = NoRow
  <2> DEFINE row == RowOf(L, t)
             v   == Hides(L, t) \/ (t # c /\ IncompleteCarrier(row))
  <2>1. ix.rows[t] = [row EXCEPT !.reverted = v]
    BY <1>1
  <2>2. row \in Rows
        /\ (t \in ToSet(ix.order) => row.msg = t /\ row.source \in Sources)
        /\ (t \notin ToSet(ix.order) => row = NoRow)
    BY <1>1, RowTypes
  <2>3. v \in BOOLEAN
    BY DEF Hides, IncompleteCarrier
  <2>4. t \notin ToSet(ix.order) => v = FALSE
    BY <1>1, <2>2, HidesOnlyOrdered DEF IncompleteCarrier, NoRow
  <2>5. IncompleteCarrier([row EXCEPT !.reverted = v]) <=> IncompleteCarrier(row)
    BY <2>2 DEF IncompleteCarrier, Rows
  <2> DEFINE w == v
  <2>6. (w <=> Hides(L, t) \/ (t # c /\ IncompleteCarrier(row))) /\ w = v
    OBVIOUS
  <2> HIDE DEF row, v, w
  <2>7. ix.rows[t].reverted = v /\ ix.rows[t] \in Rows
    BY <2>1, <2>2, <2>3 DEF Rows
  <2>8. t \notin ToSet(ix.order) => ix.rows[t] = NoRow
    <3> SUFFICES ASSUME t \notin ToSet(ix.order) PROVE ix.rows[t] = NoRow
      OBVIOUS
    <3>1. Shaped(row) /\ row.reverted = FALSE
      BY RowShaped DEF row
    <3>2. [row EXCEPT !.reverted = FALSE] = row
      BY <3>1 DEF Shaped
    <3>3. QED
      BY <2>1, <2>2, <2>4, <3>2
  <2>9. t \in ToSet(ix.order) => ix.rows[t].msg = t /\ ix.rows[t].source \in Sources
    BY <2>1, <2>2 DEF Rows
  <2>10. ix.rows[t].reverted <=> Hides(L, t) \/ (t # c /\ IncompleteCarrier(ix.rows[t]))
    BY <2>1, <2>5, <2>6, <2>7
  <2>11. QED
    BY <2>1, <2>7, <2>8, <2>9, <2>10 DEF row
<1>4. ix.rows \in [TurnIds -> Rows]
  BY <1>1, <1>3
<1>5. QED
  BY <1>1, <1>2, <1>3, <1>4

\* The survivors are the unmarked turns of the order.
LEMMA SurvivingIs ==
  ASSUME NEW ix, ix.order \in Seq(TurnIds)
  PROVE  SurvivingTurns(ix) = {t \in ToSet(ix.order) : ~ix.rows[t].reverted}
<1> DEFINE I == {i \in DOMAIN ix.order : ~ix.rows[ix.order[i]].reverted}
<1>1. ToSet(Pick(ix.order, I)) = {ix.order[i] : i \in {j \in 1..Len(ix.order) : j \in I}}
  BY PickElements
<1>2. DOMAIN ix.order = 1..Len(ix.order)
  BY LenProperties
<1>3. {ix.order[i] : i \in {j \in 1..Len(ix.order) : j \in I}} =
         {t \in ToSet(ix.order) : ~ix.rows[t].reverted}
  BY <1>2 DEF ToSet
<1>4. QED
  BY <1>1, <1>3 DEF SurvivingTurns, Surviving

----------------------------------------------------------------------------
\* One append, of a line an operation may write next.

\* Stamped, of any index.
StampedBy(ix, l) == [l EXCEPT !.seq = ix.rows[l.turn].nextSeq]

\* A stamped line is the line but for its seq.
LEMMA StampFields ==
  ASSUME NEW l \in Lines, NEW n \in Nat
  PROVE  LET s == [l EXCEPT !.seq = n]
         IN  /\ s \in Lines /\ s.kind = l.kind /\ s.turn = l.turn /\ s.seq = n
             /\ KeyOf(s) = KeyOf(l)
             /\ l.kind = "turn_open" => s.source = l.source /\ s.n = l.n /\ s.msg = l.msg
             /\ l.kind = "turn_close" => s.raw = l.raw
             /\ l.kind = "turn_revert" => s.from = l.from /\ s.through = l.through
             /\ l.kind = "reconciled" => s.names = l.names
BY DEF Lines, KeyOf, BodyKinds

\* The first line of an operation that fits joins the file.
LEMMA FitsJoins ==
  ASSUME NEW L, WellFormed(L), NEW c, NEW lines, Fits(IndexOf(L, c), lines)
  PROVE  LET ix == IndexOf(L, c)
             l  == Head(lines)
             s  == StampedBy(ix, l)
         IN  /\ l \in Lines /\ s \in Lines /\ LineJoins(L, s)
             /\ l.kind = "turn_open" => s.seq = 0
             /\ l.kind = "turn_revert" => ~ix.rows[l.turn].reverted
<1> DEFINE ix == IndexOf(L, c)
           l  == Head(lines)
           s  == StampedBy(ix, l)
<1>1. /\ ix.order = OrderOf(L) /\ ix.order \in Seq(TurnIds) /\ Len(ix.order) \in Nat
      /\ OrderFits(ix.order) /\ ToSet(ix.order) \subseteq TurnIds
      /\ ix.rows \in [TurnIds -> Rows]
      /\ \A t \in TurnIds : ix.rows[t] = [RowOf(L, t) EXCEPT !.reverted = ix.rows[t].reverted]
      /\ \A t \in TurnIds : t \notin ToSet(ix.order) => ix.rows[t] = NoRow
  BY IndexFacts
<1> HIDE DEF ix
<1>2. Fits(ix, lines) /\ L \in Seq(Lines)
  BY DEF ix, WellFormed
<1>3. l = lines[1] /\ LineFits(ix, lines, 1)
  BY <1>2, LenProperties, EmptySeq DEF Fits
<1> HIDE DEF l
<1>4. l \in Lines /\ l.turn \in TurnIds
  BY <1>3, LineFields DEF LineFits
<1>5. ix.rows[l.turn] \in Rows /\ ix.rows[l.turn].nextSeq \in Nat
  BY <1>1, <1>4 DEF Rows
<1>6. /\ s \in Lines /\ s.kind = l.kind /\ s.turn = l.turn /\ s.seq = ix.rows[l.turn].nextSeq
      /\ l.kind = "turn_open" => s.source = l.source /\ s.n = l.n /\ s.msg = l.msg
      /\ l.kind = "turn_revert" => s.from = l.from /\ s.through = l.through
  BY <1>4, <1>5, StampFields DEF StampedBy
<1> HIDE DEF s
<1>7. l.kind # "turn_open" => l.turn \in ToSet(ix.order)
  BY <1>3 DEF LineFits
<1>8. l.kind = "turn_open" => l.turn = Len(ix.order) + 1 /\ l.msg = l.turn
  BY <1>3 DEF LineFits, Fresh
<1>9. l.kind = "turn_open" => s.seq = 0
  BY <1>1, <1>4, <1>6, <1>8 DEF OrderFits, NoRow
<1>10. ix.rows[l.turn].call = RowOf(L, l.turn).call
  <2>1. ix.rows[l.turn] = [RowOf(L, l.turn) EXCEPT !.reverted = ix.rows[l.turn].reverted]
    BY <1>1, <1>4
  <2>2. RowOf(L, l.turn) \in Rows
    BY <1>4, RowTypes
  <2>3. QED
    BY <2>1, <2>2 DEF Rows
<1>11. /\ RowOf(L, l.turn).call = "none" => ~HasKind(OfTurn(L, l.turn), "tool_call")
       /\ RowOf(L, l.turn).call # "none" => HasKind(OfTurn(L, l.turn), "tool_call")
  <2>1. CASE OfTurn(L, l.turn) = <<>>
    BY <2>1 DEF RowOf, HasKind, NoRow
  <2>2. CASE OfTurn(L, l.turn) # <<>>
    BY <2>2 DEF RowOf
  <2>3. QED
    BY <2>1, <2>2
<1>12. l.kind = "turn_revert" => RecordFits(ix.order, s) /\ ~ix.rows[l.turn].reverted
  BY <1>3, <1>6, <1>7 DEF LineFits, RecordFits
<1>13. LineJoins(L, s)
  <2>1. l.kind = "tool_call" => ~HasKind(OfTurn(L, s.turn), "tool_call")
    BY <1>3, <1>6, <1>10, <1>11 DEF LineFits
  <2>2. l.kind = "tool_result" => HasKind(OfTurn(L, s.turn), "tool_call")
    BY <1>3, <1>6, <1>10, <1>11 DEF LineFits
  <2>3. QED
    BY <1>1, <1>6, <1>7, <1>8, <1>12, <2>1, <2>2 DEF LineJoins
<1>14. QED
  BY <1>4, <1>6, <1>9, <1>12, <1>13 DEF ix, l, s

\* Observe's row of a line that opens no turn, field by field.
LEMMA OwnIs ==
  ASSUME NEW row, Shaped(row), NEW l, l.kind # "turn_open"
  PROVE  Own(row, l) =
         [source |-> row.source, n |-> row.n, msg |-> row.msg, nextSeq |-> l.seq + 1,
          call         |-> IF l.kind = "tool_call" THEN "open"
                           ELSE IF l.kind = "tool_result" THEN "settled" ELSE row.call,
          bound        |-> row.bound \/ l.kind = "turn_bind",
          closed       |-> row.closed \/ l.kind = "turn_close",
          unterminated |-> IF l.kind = "turn_close" THEN l.raw = "unterminated"
                           ELSE row.unterminated,
          hasRevert    |-> row.hasRevert \/ l.kind = "turn_revert",
          reverted     |-> row.reverted]
<1>1. Own(row, l) = RowStep(row, l)
  BY DEF Own, RowStep
<1>2. QED
  BY <1>1, RowStepIs DEF Shaped

\* A row of the type has all its fields.
LEMMA RowsShaped == \A row \in Rows : Shaped(row)
BY DEF Rows, Shaped

\* What one line does to a row.
RowEffect(was, row, order, l, t) ==
    /\ t # l.turn /\ l.kind # "turn_revert" => row = was
    /\ t = l.turn /\ l.kind = "turn_open" => row.reverted = FALSE
    /\ t # l.turn \/ l.kind # "turn_open" =>
          /\ was.call # "none" => row.call # "none"
          /\ row.source = was.source /\ row.msg = was.msg
          /\ row.reverted <=> \/ was.reverted
                              \/ l.kind = "turn_revert" /\ InWindow(order, l, t)
          /\ row.closed <=> was.closed \/ (l.kind = "turn_close" /\ t = l.turn)
          /\ row.hasRevert <=> was.hasRevert \/ (l.kind = "turn_revert" /\ t = l.turn)

\* What Observe does to the row of any turn.
LEMMA ObserveRows ==
  ASSUME NEW ix, ix.rows \in [TurnIds -> Rows], NEW l \in Lines, NEW t \in TurnIds
  PROVE  RowEffect(ix.rows[t], Observe(ix, l).rows[t], ix.order, l, t)
<1> DEFINE was    == ix.rows[t]
           own    == [ix.rows[l.turn] EXCEPT
                        !.nextSeq = l.seq + 1,
                        !.call = CASE l.kind = "tool_call"   -> "open"
                                   [] l.kind = "tool_result" -> "settled"
                                   [] OTHER                  -> @,
                        !.bound = @ \/ l.kind = "turn_bind",
                        !.closed = @ \/ l.kind = "turn_close",
                        !.unterminated = IF l.kind = "turn_close" THEN l.raw = "unterminated" ELSE @,
                        !.hasRevert = @ \/ l.kind = "turn_revert"]
           opened == [NoRow EXCEPT !.source = l.source, !.n = l.n, !.msg = l.msg, !.nextSeq = 1]
           rows   == [ix.rows EXCEPT ![l.turn] = IF l.kind = "turn_open" THEN opened ELSE own]
           row    == Observe(ix, l).rows[t]
<1>1. l.turn \in TurnIds
  BY LineFields
<1>2. was \in Rows /\ ix.rows[l.turn] \in Rows
  BY <1>1
<1>3. Observe(ix, l).rows = IF l.kind # "turn_revert" THEN rows
                            ELSE [u \in TurnIds |-> [rows[u] EXCEPT
                                     !.reverted = @ \/ InWindow(ix.order, l, u)]]
  BY DEF Observe
<1>4. own = Own(ix.rows[l.turn], l)
  BY DEF Own
<1>6. opened.reverted = FALSE
  BY DEF NoRow
<1> HIDE DEF own, opened
<1>7. rows[t] = IF t # l.turn THEN was ELSE IF l.kind = "turn_open" THEN opened ELSE own
  BY <1>1
<1> HIDE DEF rows
<1>8. /\ l.kind # "turn_revert" => row = rows[t]
      /\ l.kind = "turn_revert" =>
            row = [rows[t] EXCEPT !.reverted = @ \/ InWindow(ix.order, l, t)]
  BY <1>3
<1> HIDE DEF row
<1>9. t # l.turn /\ l.kind # "turn_revert" => row = was
  BY <1>7, <1>8
<1>10. t = l.turn /\ l.kind = "turn_open" => row.reverted = FALSE
  BY <1>6, <1>7, <1>8
<1>11. ASSUME t # l.turn \/ l.kind # "turn_open"
       PROVE  /\ was.call # "none" => row.call # "none"
              /\ row.source = was.source /\ row.msg = was.msg
              /\ row.reverted <=> \/ was.reverted
                                  \/ l.kind = "turn_revert" /\ InWindow(ix.order, l, t)
              /\ row.closed <=> was.closed \/ (l.kind = "turn_close" /\ t = l.turn)
              /\ row.hasRevert <=> was.hasRevert \/ (l.kind = "turn_revert" /\ t = l.turn)
  <2>1. CASE t # l.turn
    <3>1. rows[t] = was
      BY <1>7, <2>1
    <3> HIDE DEF was
    <3>2. QED
      BY <1>2, <1>8, <2>1, <3>1 DEF Rows
  <2>2. CASE t = l.turn
    <3>1. rows[t] = Own(was, l)
      BY <1>4, <1>7, <1>11, <2>2
    <3> DEFINE r == [source |-> was.source, n |-> was.n,
          msg |-> was.msg, nextSeq |-> l.seq + 1,
          call         |-> IF l.kind = "tool_call" THEN "open"
                           ELSE IF l.kind = "tool_result" THEN "settled" ELSE was.call,
          bound        |-> was.bound \/ l.kind = "turn_bind",
          closed       |-> was.closed \/ l.kind = "turn_close",
          unterminated |-> IF l.kind = "turn_close" THEN l.raw = "unterminated"
                           ELSE was.unterminated,
          hasRevert    |-> was.hasRevert \/ l.kind = "turn_revert",
          reverted     |-> was.reverted]
    <3> HIDE DEF was
    <3>8. Own(was, l) = r
      BY <1>2, <1>11, <2>2, RowsShaped, OwnIs
    <3>2. rows[t] = r
      BY <3>1, <3>8
    <3>3. /\ was.call # "none" => r.call # "none"
          /\ r.source = was.source /\ r.msg = was.msg /\ (r.reverted <=> was.reverted)
          /\ r.closed <=> was.closed \/ l.kind = "turn_close"
          /\ r.hasRevert <=> was.hasRevert \/ l.kind = "turn_revert"
      OBVIOUS
    <3>9. Shaped(r)
      BY DEF Shaped
    <3> HIDE DEF r
    <3>4. l.kind = "turn_revert" =>
             /\ row.call = r.call /\ row.source = r.source /\ row.msg = r.msg
             /\ row.closed = r.closed /\ row.hasRevert = r.hasRevert
             /\ row.reverted <=> was.reverted \/ InWindow(ix.order, l, t)
      BY <1>8, <3>2, <3>3, <3>9 DEF Shaped
    <3>5. QED
      BY <1>8, <2>2, <3>2, <3>3, <3>4
  <2>3. QED
    BY <2>1, <2>2
<1>12. QED
  BY <1>9, <1>10, <1>11 DEF was, row, RowEffect

\* Marking one row of an index leaves the rest of it.
LEMMA MarkRow ==
  ASSUME NEW ix, NEW size, NEW order, NEW rows, NEW cleared, NEW newest, NEW c,
         ix = [size |-> size, order |-> order, rows |-> rows, cleared |-> cleared,
               newest |-> newest]
  PROVE  [ix EXCEPT !.rows[c].reverted = TRUE] =
         [size |-> size, order |-> order, rows |-> [rows EXCEPT ![c].reverted = TRUE],
          cleared |-> cleared, newest |-> newest]
<1>1. ix.rows = rows
  OBVIOUS
<1> DEFINE marked == [rows EXCEPT ![c].reverted = TRUE]
<1>2. [ix EXCEPT !.rows[c].reverted = TRUE] = [ix EXCEPT !.rows = marked]
  BY <1>1
<1> HIDE DEF marked
<1>3. [ix EXCEPT !.rows = marked] =
         [size |-> size, order |-> order, rows |-> marked, cleared |-> cleared, newest |-> newest]
  OBVIOUS
<1>4. QED
  BY <1>2, <1>3 DEF marked

\* Whether a carrier is exempt from the mark of one without a record.
LEMMA Exempt ==
  ASSUME NEW L, WellFormed(L), NEW c \in TurnIds
  PROVE  /\ IncompleteCarrier(IndexOf(L, c).rows[c]) <=> IncompleteCarrier(RowOf(L, c))
         /\ ~IncompleteCarrier(RowOf(L, c)) => IndexOf(L, c) = IndexOf(L, NoTurn)
         /\ IncompleteCarrier(RowOf(L, c)) =>
               [IndexOf(L, c) EXCEPT !.rows[c].reverted = TRUE] = IndexOf(L, NoTurn)
<1> DEFINE V(t, d) == Hides(L, t) \/ (t # d /\ IncompleteCarrier(RowOf(L, t)))
           rows(d) == [t \in TurnIds |-> [RowOf(L, t) EXCEPT !.reverted = V(t, d)]]
           ix(d)   == IndexOf(L, d)
           cleared == UNION {Clears(L[i]) : i \in DOMAIN L}
           newest  == IF Records(L) = {} THEN NoTurn ELSE Last(OfKind(L, "turn_revert")).from
<1>1. \A d : ix(d) = [size |-> Len(L), order |-> OrderOf(L), rows |-> rows(d),
                      cleared |-> cleared, newest |-> newest]
  BY DEF IndexOf
<1>2. c # NoTurn /\ \A t \in TurnIds : t # NoTurn
  BY LogBoundsAssumption DEF TurnIds, NoTurn
<1>3. \A t \in TurnIds : RowOf(L, t) \in Rows
  BY RowTypes
<1>4. \A t, d : V(t, d) \in BOOLEAN
  BY DEF Hides, IncompleteCarrier
<1>5. \A t \in TurnIds : t # c => V(t, c) = V(t, NoTurn)
  BY <1>2, <1>4
<1>6. /\ ~IncompleteCarrier(RowOf(L, c)) => V(c, c) = V(c, NoTurn)
      /\ IncompleteCarrier(RowOf(L, c)) => V(c, NoTurn) = TRUE
  BY <1>2, <1>4
<1> HIDE DEF V
<1>7. IncompleteCarrier(rows(c)[c]) <=> IncompleteCarrier(RowOf(L, c))
  <2>1. rows(c)[c] = [RowOf(L, c) EXCEPT !.reverted = V(c, c)]
    OBVIOUS
  <2>2. QED
    BY <1>3, <2>1 DEF IncompleteCarrier, Rows
<1>8. ~IncompleteCarrier(RowOf(L, c)) => rows(c) = rows(NoTurn)
  BY <1>5, <1>6
<1>9. IncompleteCarrier(RowOf(L, c)) =>
         [rows(c) EXCEPT ![c].reverted = TRUE] = rows(NoTurn)
  <2> SUFFICES ASSUME IncompleteCarrier(RowOf(L, c))
               PROVE  [rows(c) EXCEPT ![c].reverted = TRUE] = rows(NoTurn)
    OBVIOUS
  <2> DEFINE marked == [rows(c) EXCEPT ![c].reverted = TRUE]
  <2>1. marked = [t \in TurnIds |-> marked[t]]
    OBVIOUS
  <2>2. ASSUME NEW t \in TurnIds
        PROVE  marked[t] = [RowOf(L, t) EXCEPT !.reverted = V(t, NoTurn)]
    <3>1. CASE t # c
      BY <1>5, <3>1
    <3>2. CASE t = c
      <4>1. marked[c] = [[RowOf(L, c) EXCEPT !.reverted = V(c, c)] EXCEPT !.reverted = TRUE]
        OBVIOUS
      <4>2. [[RowOf(L, c) EXCEPT !.reverted = V(c, c)] EXCEPT !.reverted = TRUE]
              = [RowOf(L, c) EXCEPT !.reverted = TRUE]
        BY <1>3 DEF Rows
      <4>3. QED
        BY <1>6, <3>2, <4>1, <4>2
    <3>3. QED
      BY <3>1, <3>2
  <2> HIDE DEF marked
  <2>3. QED
    BY <2>1, <2>2 DEF marked
<1> HIDE DEF rows, cleared, newest
<1>10. [ix(c) EXCEPT !.rows[c].reverted = TRUE] =
          [size |-> Len(L), order |-> OrderOf(L), rows |-> [rows(c) EXCEPT ![c].reverted = TRUE],
           cleared |-> cleared, newest |-> newest]
  BY <1>1, MarkRow
<1>11. QED
  BY <1>1, <1>7, <1>8, <1>9, <1>10

\* The first line of an operation and the ones behind it.
LEMMA HeadAndTail ==
  ASSUME NEW lines \in Seq(Lines), lines # <<>>
  PROVE  /\ Head(lines) = lines[1] /\ Head(lines) \in Lines /\ Tail(lines) \in Seq(Lines)
         /\ Len(lines) \in Nat /\ Len(lines) > 0 /\ Last(lines) = lines[Len(lines)]
         /\ Last(lines) \in Lines
         /\ Len(Tail(lines)) = Len(lines) - 1
         /\ \A i \in 1..Len(Tail(lines)) : Tail(lines)[i] = lines[i + 1] /\ i + 1 \in 2..Len(lines)
         /\ Tail(lines) # <<>> => Last(Tail(lines)) = Last(lines) /\ Len(lines) > 1
         /\ Tail(lines) = <<>> => Last(lines) = Head(lines) /\ Len(lines) = 1
<1>1. /\ Head(lines) \in Lines /\ Tail(lines) \in Seq(Lines)
      /\ Len(Tail(lines)) = Len(lines) - 1
      /\ \A i \in 1..Len(Tail(lines)) : Tail(lines)[i] = lines[i + 1]
  BY HeadTailProperties
<1>2. Len(lines) \in Nat /\ Len(lines) > 0 /\ Head(lines) = lines[1]
  BY LenProperties, EmptySeq
<1>3. Last(lines) = lines[Len(lines)] /\ Last(lines) \in Lines
  BY <1>2, ElementOfSeq DEF Last
<1>4. \A i \in 1..Len(Tail(lines)) : i + 1 \in 2..Len(lines)
  BY <1>1, <1>2
<1>5. ASSUME Tail(lines) # <<>> PROVE Last(Tail(lines)) = Last(lines) /\ Len(lines) > 1
  <2> DEFINE tail == Tail(lines)
  <2>1. Len(tail) \in Nat /\ Len(tail) > 0
    BY <1>1, <1>5, LenProperties, EmptySeq
  <2>2. tail[Len(tail)] = lines[Len(tail) + 1] /\ Len(tail) + 1 = Len(lines) /\ Len(lines) > 1
    BY <1>1, <1>2, <2>1
  <2>3. QED
    BY <1>3, <2>2 DEF Last
<1>6. Tail(lines) = <<>> => Len(lines) = 1
  <2> SUFFICES ASSUME Tail(lines) = <<>> PROVE Len(lines) = 1
    OBVIOUS
  <2>1. Len(<<>>) = 0
    OBVIOUS
  <2> DEFINE n == Len(lines)
             m == Len(Tail(lines))
  <2>2. n \in Nat /\ m = n - 1 /\ m = 0
    BY <1>1, <1>2, <2>1
  <2> HIDE DEF n, m
  <2>3. n = 1
    BY <2>2
  <2>4. QED
    BY <2>3 DEF n
<1>7. QED
  BY <1>1, <1>2, <1>3, <1>4, <1>5, <1>6

\* The line s written, the first of lines: the index folded is the index of the longer
\* file, and the lines behind it fit that one.
WriteEffect(L, ix, lines, s, next, tail) ==
    /\ s \in Lines /\ LineJoins(L, s) /\ WellFormed(Append(L, s))
    /\ next = IndexOf(Append(L, s), MintedIn(tail))
    /\ s.kind = Head(lines).kind /\ s.turn = Head(lines).turn
    /\ KeyOf(s) = KeyOf(Head(lines))
    /\ next.order = IF s.kind = "turn_open" THEN Append(ix.order, s.turn) ELSE ix.order
    /\ ToSet(next.order) = ToSet(ix.order) \cup {s.turn}
    /\ tail # <<>> => /\ Fits(next, tail) /\ MintedIn(tail) = MintedIn(lines)
                      /\ tail[1].kind # "turn_open"
                      /\ s.kind # "turn_revert"

\* What the write of an operation's first line leaves.
LEMMA WrittenIndex ==
  ASSUME NEW L, WellFormed(L), NEW lines, NEW ix, ix = IndexOf(L, MintedIn(lines)),
         Fits(ix, lines), NEW s, s = StampedBy(ix, Head(lines))
  PROVE  WriteEffect(L, ix, lines, s, Observe(ix, s), Tail(lines))
<1> DEFINE l    == Head(lines)
           tail == Tail(lines)
           M    == Append(L, s)
           c    == MintedIn(lines)
           d    == MintedIn(tail)
           next == Observe(ix, s)
<1>1. /\ lines \in Seq(Lines) /\ lines # <<>>
      /\ \A i \in 1..Len(lines) : LineFits(ix, lines, i)
  BY DEF Fits
<1>2. /\ l = lines[1] /\ l \in Lines /\ tail \in Seq(Lines)
      /\ Len(lines) \in Nat /\ Len(lines) > 0 /\ Last(lines) = lines[Len(lines)]
      /\ Last(lines) \in Lines
      /\ Len(tail) = Len(lines) - 1
      /\ \A i \in 1..Len(tail) : tail[i] = lines[i + 1] /\ i + 1 \in 2..Len(lines)
      /\ tail # <<>> => Last(tail) = Last(lines) /\ Len(lines) > 1
      /\ tail = <<>> => Last(lines) = l /\ Len(lines) = 1
  BY <1>1, HeadAndTail
<1>3. /\ s \in Lines /\ LineJoins(L, s)
      /\ l.kind = "turn_open" => s.seq = 0
      /\ l.kind = "turn_revert" => ~ix.rows[l.turn].reverted
  BY FitsJoins
<1>4. /\ ix.order = OrderOf(L) /\ ix.order \in Seq(TurnIds) /\ Len(ix.order) \in Nat
      /\ OrderFits(ix.order) /\ ToSet(ix.order) \subseteq TurnIds
      /\ ix.rows \in [TurnIds -> Rows]
      /\ \A t \in TurnIds : t \notin ToSet(ix.order) => ix.rows[t] = NoRow
  BY IndexFacts
<1>5. /\ s.kind = l.kind /\ s.turn = l.turn /\ KeyOf(s) = KeyOf(l) /\ l.turn \in TurnIds
      /\ l.kind = "turn_open" => s.source = l.source
  <2>1. l.turn \in TurnIds
    BY <1>2, LineFields
  <2>2. ix.rows[l.turn].nextSeq \in Nat
    BY <1>4, <2>1 DEF Rows
  <2>3. QED
    BY <1>2, <2>1, <2>2, StampFields DEF StampedBy
<1>6. WellFormed(M)
  BY <1>3, WellFormedAppend
<1>7. /\ tail # <<>> => d = c
      /\ tail = <<>> => d = NoTurn
      /\ tail = <<>> => c = IF l.kind = "turn_revert" THEN l.turn ELSE NoTurn
  BY <1>1, <1>2 DEF MintedIn
<1>8. LineFits(ix, lines, 1) /\ 1 \in 1..Len(lines)
  BY <1>1, <1>2
<1>9. tail # <<>> => s.kind # "turn_revert"
  BY <1>2, <1>5, <1>8 DEF LineFits
<1>10. l.kind = "turn_open" /\ l.source = "revert" => tail # <<>> /\ c = l.turn
  BY <1>2, <1>8 DEF LineFits
<1> HIDE DEF c, d, tail
<1>11. \A t \in TurnIds : RowOf(M, t) = IF t = s.turn THEN RowStep(RowOf(L, t), s) ELSE RowOf(L, t)
  BY <1>6, <1>3, RowAppend
<1>12. ASSUME NEW t \in TurnIds, IncompleteCarrier(RowOf(M, t))
       PROVE  t = d <=> t = c \/ (s.kind = "turn_open" /\ t = s.turn)
  <2>1. t # NoTurn
    BY LogBoundsAssumption DEF TurnIds, NoTurn
  <2>2. s.kind = "turn_open" /\ t = s.turn => l.source = "revert"
    <3>1. s.kind = "turn_open" /\ t = s.turn => RowOf(M, t).source = s.source
      BY <1>11 DEF RowStep, NoRow
    <3>2. QED
      BY <1>5, <1>12, <3>1 DEF IncompleteCarrier
  <2>3. ~(s.kind = "turn_revert" /\ t = s.turn)
    <3>1. Shaped(RowOf(L, t))
      BY RowShaped
    <3>2. s.kind = "turn_revert" /\ t = s.turn => RowOf(M, t).hasRevert
      <4> DEFINE row == RowOf(L, t)
      <4>1. s.kind = "turn_revert" => RowStep(row, s).hasRevert
        <5> SUFFICES ASSUME s.kind = "turn_revert" PROVE RowStep(row, s).hasRevert
          OBVIOUS
        <5>1. Shaped(row) /\ s.kind # "turn_open"
          BY <3>1
        <5> HIDE DEF row
        <5>2. Own(row, s) = RowStep(row, s)
          BY <5>1 DEF Own, RowStep
        <5>3. Own(row, s).hasRevert = (row.hasRevert \/ s.kind = "turn_revert")
          BY <5>1, OwnIs
        <5>4. QED
          BY <5>2, <5>3
      <4>2. QED
        BY <1>11, <4>1
    <3>3. QED
      BY <1>12, <3>2 DEF IncompleteCarrier
  <2>4. CASE tail = <<>>
    BY <1>5, <1>7, <1>10, <2>1, <2>2, <2>3, <2>4
  <2>5. CASE tail # <<>>
    BY <1>5, <1>7, <1>10, <2>2, <2>5
  <2>6. QED
    BY <2>4, <2>5
<1>13. next = IndexOf(M, d)
  <2>1. s.kind = "turn_open" => s.seq = 0
    BY <1>3, <1>5
  <2>2. s.kind = "turn_revert" => ~IndexOf(L, c).rows[s.turn].reverted
    BY <1>3, <1>5 DEF c
  <2>3. ix = IndexOf(L, c)
    BY DEF c
  <2>4. QED
    BY <1>3, <1>12, <2>1, <2>2, <2>3, ObserveIsScan
<1>14. next.order = IF s.kind = "turn_open" THEN Append(ix.order, s.turn) ELSE ix.order
  BY DEF Observe
<1>15. s.kind # "turn_open" => s.turn \in ToSet(ix.order)
  BY <1>3, <1>4 DEF LineJoins
<1>16. ToSet(next.order) = ToSet(ix.order) \cup {s.turn}
  BY <1>4, <1>5, <1>14, <1>15, ToSetAppend
<1>17. s.kind = "turn_open" => s.turn \notin ToSet(ix.order)
  BY <1>3, <1>4 DEF LineJoins, OrderFits
<1>20. ASSUME NEW t \in TurnIds
       PROVE  /\ t = s.turn /\ s.kind = "turn_open" => next.rows[t].reverted = FALSE
              /\ t # s.turn \/ s.kind # "turn_open" =>
                    /\ ix.rows[t].call # "none" => next.rows[t].call # "none"
                    /\ s.kind # "turn_revert" =>
                          (next.rows[t].reverted <=> ix.rows[t].reverted)
  <2>1. RowEffect(ix.rows[t], next.rows[t], ix.order, s, t)
    BY <1>3, <1>4, ObserveRows
  <2> HIDE DEF next
  <2>2. QED
    BY <2>1 DEF RowEffect
<1> HIDE DEF next, l
<1>18. ASSUME tail # <<>> PROVE Fits(next, tail) /\ tail[1].kind # "turn_open"
  <2>1. ASSUME NEW i \in 1..Len(tail)
        PROVE  LineFits(next, tail, i) /\ tail[i].kind # "turn_open"
    <3> DEFINE m == lines[i + 1]
    <3>1. tail[i] = m /\ i + 1 \in 2..Len(lines) /\ i + 1 \in 1..Len(lines) /\ i \in Nat
      BY <1>2 DEF tail
    <3>2. LineFits(ix, lines, i + 1)
      BY <1>1, <3>1
    <3>3. m.kind # "turn_open" /\ m.kind # "tool_call" /\ m \in Lines
      BY <3>1, <3>2 DEF LineFits
    <3>4. m.turn \in ToSet(next.order) /\ m.turn \in TurnIds
      <4>1. m.turn \in ToSet(ix.order) \/ (lines[1].kind = "turn_open" /\ m.turn = lines[1].turn)
        BY <3>2, <3>3 DEF LineFits
      <4>2. m.turn \in TurnIds
        BY <3>3, LineFields
      <4>3. QED
        BY <1>2, <1>5, <1>16, <4>1, <4>2 DEF l
    <3>5. m.kind = "tool_result" => next.rows[m.turn].call # "none"
      <4> SUFFICES ASSUME m.kind = "tool_result" PROVE next.rows[m.turn].call # "none"
        OBVIOUS
      <4>1. ix.rows[m.turn].call # "none"
        BY <3>2 DEF LineFits
      <4>2. m.turn # s.turn \/ s.kind # "turn_open"
        BY <1>4, <1>17, <3>4, <4>1 DEF NoRow
      <4> DEFINE t == m.turn
      <4> HIDE DEF m
      <4>4. t \in TurnIds
        BY <3>4
      <4> HIDE DEF t
      <4>3. ix.rows[t].call # "none" /\ (t # s.turn \/ s.kind # "turn_open")
              => next.rows[t].call # "none"
        BY <1>20, <4>4
      <4>5. QED
        BY <4>1, <4>2, <4>3 DEF t
    <3>6. ASSUME NEW t \in ToSet(ix.order)
          PROVE  next.rows[t].reverted <=> ix.rows[t].reverted
      <4>1. t \in TurnIds /\ (t # s.turn \/ s.kind # "turn_open")
        BY <1>4, <1>17
      <4>2. QED
        BY <1>9, <1>18, <1>20, <4>1
    <3>7. m.kind = "turn_revert" =>
              /\ i = Len(tail)
              /\ RecordFits(next.order, m)
              /\ ~next.rows[m.from].reverted
              /\ m.turn \in ToSet(next.order) => ~next.rows[m.turn].reverted
      <4> SUFFICES ASSUME m.kind = "turn_revert"
                   PROVE  /\ i = Len(tail)
                          /\ RecordFits(next.order, m)
                          /\ ~next.rows[m.from].reverted
                          /\ m.turn \in ToSet(next.order) => ~next.rows[m.turn].reverted
        OBVIOUS
      <4>1. /\ i + 1 = Len(lines) /\ RecordFits(ix.order, m) /\ ~ix.rows[m.from].reverted
            /\ m.turn \in ToSet(ix.order) => ~ix.rows[m.turn].reverted
        BY <3>2 DEF LineFits
      <4>2. i = Len(tail)
        BY <1>2, <3>1, <4>1
      <4>3. RecordFits(next.order, m)
        <5>1. CASE s.kind = "turn_open"
          BY <1>4, <1>5, <1>14, <1>17, <3>3, <4>1, <5>1, WindowAppend DEF OrderFits
        <5>2. CASE s.kind # "turn_open"
          BY <1>14, <4>1, <5>2
        <5>3. QED
          BY <5>1, <5>2
      <4>4. ~next.rows[m.from].reverted
        BY <3>6, <4>1 DEF RecordFits
      <4>5. ~next.rows[m.turn].reverted
        <5>1. CASE m.turn \in ToSet(ix.order)
          BY <3>6, <4>1, <5>1
        <5>2. CASE m.turn \notin ToSet(ix.order)
          <6>1. m.turn = s.turn /\ s.kind = "turn_open"
            BY <1>15, <1>16, <3>4, <5>2
          <6>2. s.turn \in TurnIds
            BY <1>5
          <6>3. next.rows[s.turn].reverted = FALSE
            BY <1>20, <6>1, <6>2
          <6>4. QED
            BY <6>1, <6>3
        <5>3. QED
          BY <5>1, <5>2
      <4>6. QED
        BY <4>2, <4>3, <4>4, <4>5
    <3> HIDE DEF m
    <3>8. QED
      BY <3>1, <3>3, <3>4, <3>5, <3>7 DEF LineFits
  <2>2. 1 \in 1..Len(tail)
    BY <1>2, <1>18, LenProperties, EmptySeq
  <2>3. QED
    BY <1>2, <1>18, <2>1, <2>2 DEF Fits, tail
<1>19. QED
  BY <1>3, <1>5, <1>6, <1>7, <1>9, <1>13, <1>14, <1>16, <1>18
     DEF M, d, c, tail, next, l, WriteEffect

=============================================================================
