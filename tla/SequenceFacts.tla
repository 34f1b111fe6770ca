--------------------------- MODULE SequenceFacts ---------------------------
(***************************************************************************)
(* Facts about sequences of any length and the entries picked from them.   *)
(* Induction is stated over SETS (NatInduct, SeqInduct): each inductive    *)
(* fact first defines the set of the sequences it holds of, then shows     *)
(* that the set is closed.                                                 *)
(***************************************************************************)
EXTENDS Picking, SequencesExt, WellFoundedInduction, SequenceTheorems, TLAPS

----------------------------------------------------------------------------
\* Induction.

\* A set that holds 0 and the successor of each of its naturals holds all of them.
LEMMA NatInduct ==
  ASSUME NEW T, 0 \in T, \A n \in T : n \in Nat => n + 1 \in T
  PROVE  Nat \subseteq T
<1> DEFINE R == {p \in Nat \X Nat : p[1] < p[2]}
<1>1. IsWellFoundedOn(R, Nat)
  BY NatLessThanWellFounded DEF OpToRel, IsWellFoundedOn
<1>2. SUFFICES ASSUME ~(Nat \subseteq T) PROVE FALSE
  OBVIOUS
<1> DEFINE B == {n \in Nat : n \notin T}
<1>3. B \subseteq Nat /\ B # {}
  BY <1>2
<1>4. PICK m \in B : \A y \in B : <<y, m>> \notin R
  BY <1>1, <1>3, WFMin
<1>5. m # 0
  OBVIOUS
<1>6. m - 1 \in Nat /\ m - 1 < m /\ (m - 1) + 1 = m
  BY <1>5
<1>7. m - 1 \in T
  BY <1>4, <1>6
<1>8. QED
  BY <1>6, <1>7

\* A set that holds the empty sequence, and every one-element extension of each
\* sequence it holds, holds all sequences.
LEMMA SeqInduct ==
  ASSUME NEW X, NEW T, <<>> \in T,
         \A s \in Seq(X), x \in X : s \in T => Append(s, x) \in T
  PROVE  Seq(X) \subseteq T
<1> DEFINE N == {n \in Nat : \A s \in Seq(X) : Len(s) = n => s \in T}
<1>1. 0 \in N
  OBVIOUS
<1>2. ASSUME NEW n \in N, n \in Nat PROVE n + 1 \in N
  <2>1. SUFFICES ASSUME NEW s \in Seq(X), Len(s) = n + 1 PROVE s \in T
    OBVIOUS
  <2>2. s # <<>>
    BY <2>1
  <2>3. PICK u \in Seq(X), x \in X : s = Append(u, x)
    BY <2>2, SequenceEmptyOrAppend
  <2>4. Len(u) = n
    BY <2>1, <2>3, AppendProperties, LenProperties
  <2>5. u \in T
    BY <2>4
  <2>6. QED
    BY <2>3, <2>5
<1> HIDE DEF N
<1>3. Nat \subseteq N
  BY <1>1, <1>2, NatInduct
<1>4. QED
  BY <1>3 DEF N

----------------------------------------------------------------------------
\* Pick: the recursive function in it exists, whatever the length.

\* One step of Pick's recursion.
UpTo(s, I, f, n) ==
    f = [i \in 0..n |-> IF i = 0 THEN <<>>
                        ELSE IF i \in I THEN Append(f[i - 1], s[i]) ELSE f[i - 1]]

\* The recursion has a solution for every length.
LEMMA UpToExists ==
  ASSUME NEW s, NEW I, NEW n \in Nat
  PROVE  \E f : UpTo(s, I, f, n)
<1> DEFINE T == {k \in Nat : \E f : UpTo(s, I, f, k)}
<1>1. 0 \in T
  <2>1. UpTo(s, I, [i \in 0..0 |-> <<>>], 0)
    BY DEF UpTo
  <2>2. QED
    BY <2>1
<1>2. ASSUME NEW k \in T, k \in Nat PROVE k + 1 \in T
  <2>1. PICK f : UpTo(s, I, f, k)
    OBVIOUS
  <2> DEFINE g == [i \in 0..(k + 1) |->
                     IF i <= k THEN f[i]
                     ELSE IF i \in I THEN Append(f[i - 1], s[i]) ELSE f[i - 1]]
  <2>2. \A i \in 0..(k + 1) :
          g[i] = IF i = 0 THEN <<>>
                 ELSE IF i \in I THEN Append(g[i - 1], s[i]) ELSE g[i - 1]
    <3> TAKE i \in 0..(k + 1)
    <3>1. CASE i = 0
      BY <1>2, <2>1, <3>1 DEF UpTo
    <3>2. CASE i \in 1..k
      <4>1. g[i] = f[i] /\ g[i - 1] = f[i - 1]
        BY <1>2, <3>2
      <4>2. f[i] = IF i \in I THEN Append(f[i - 1], s[i]) ELSE f[i - 1]
        <5>1. i \in 0..k /\ i # 0
          BY <1>2, <3>2
        <5>2. QED
          BY <2>1, <5>1 DEF UpTo
      <4>3. QED
        BY <3>2, <4>1, <4>2
    <3>3. CASE i = k + 1
      <4>1. g[i - 1] = f[i - 1]
        BY <1>2, <3>3
      <4>2. g[i] = IF i \in I THEN Append(f[i - 1], s[i]) ELSE f[i - 1]
        BY <1>2, <3>3
      <4>3. QED
        BY <1>2, <3>3, <4>1, <4>2
    <3>4. QED
      BY <1>2, <3>1, <3>2, <3>3
  <2>3. UpTo(s, I, g, k + 1)
    BY <2>2 DEF UpTo
  <2>4. QED
    BY <1>2, <2>3
<1> HIDE DEF T
<1>3. Nat \subseteq T
  BY <1>1, <1>2, NatInduct
<1>4. QED
  BY <1>3 DEF T

\* Two such functions agree where both are defined, for sequences that agree there.
LEMMA UpToUnique ==
  ASSUME NEW s, NEW t, NEW I, NEW J, NEW f, NEW g, NEW n \in Nat, NEW m \in Nat, n <= m,
         UpTo(s, I, f, n), UpTo(t, J, g, m),
         \A i \in 1..n : s[i] = t[i] /\ (i \in I <=> i \in J)
  PROVE  f[n] = g[n]
<1> DEFINE T == {k \in Nat : k <= n => f[k] = g[k]}
<1>1. 0 \in T
  BY DEF UpTo
<1>2. ASSUME NEW k \in T, k \in Nat PROVE k + 1 \in T
  <2>1. SUFFICES ASSUME k + 1 <= n PROVE f[k + 1] = g[k + 1]
    BY <1>2
  <2>2. f[k] = g[k]
    BY <1>2, <2>1
  <2>3. f[k + 1] = IF k + 1 \in I THEN Append(f[k], s[k + 1]) ELSE f[k]
    <3>1. k + 1 \in 0..n /\ k + 1 # 0 /\ (k + 1) - 1 = k
      BY <1>2, <2>1
    <3>2. QED
      BY <3>1 DEF UpTo
  <2>4. g[k + 1] = IF k + 1 \in J THEN Append(g[k], t[k + 1]) ELSE g[k]
    <3>1. k + 1 \in 0..m /\ k + 1 # 0 /\ (k + 1) - 1 = k
      BY <1>2, <2>1
    <3>2. QED
      BY <3>1 DEF UpTo
  <2>5. k + 1 \in 1..n
    BY <1>2, <2>1
  <2>6. QED
    BY <2>2, <2>3, <2>4, <2>5
<1> HIDE DEF T
<1>3. Nat \subseteq T
  BY <1>1, <1>2, NatInduct
<1>4. QED
  BY <1>3 DEF T

\* Pick is the last value of such a function.
LEMMA PickValue ==
  ASSUME NEW X, NEW s \in Seq(X), NEW I
  PROVE  \E f : UpTo(s, I, f, Len(s)) /\ Pick(s, I) = f[Len(s)]
<1> DEFINE F == CHOOSE f : UpTo(s, I, f, Len(s))
<1>1. UpTo(s, I, F, Len(s))
  BY UpToExists
<1>2. Pick(s, I) = F[Len(s)]
  BY DEF Pick, UpTo
<1>3. QED
  BY <1>1, <1>2

\* Picking from a sequence with one more element.
LEMMA PickAppend ==
  ASSUME NEW X, NEW s \in Seq(X), NEW x \in X, NEW I, NEW J,
         \A i \in 1..Len(s) : i \in I <=> i \in J
  PROVE  Pick(Append(s, x), J) =
           IF Len(s) + 1 \in J THEN Append(Pick(s, I), x) ELSE Pick(s, I)
<1> DEFINE t == Append(s, x)
<1>1. t \in Seq(X) /\ Len(t) = Len(s) + 1 /\ t[Len(s) + 1] = x
      /\ \A i \in 1..Len(s) : t[i] = s[i]
  OBVIOUS
<1> HIDE DEF t
<1>2. PICK f : UpTo(s, I, f, Len(s)) /\ Pick(s, I) = f[Len(s)]
  BY PickValue
<1>3. PICK g : UpTo(t, J, g, Len(t)) /\ Pick(t, J) = g[Len(t)]
  BY <1>1, PickValue
<1>4. f[Len(s)] = g[Len(s)]
  BY <1>1, <1>2, <1>3, UpToUnique
<1>5. g[Len(s) + 1] = IF Len(s) + 1 \in J THEN Append(g[Len(s)], x) ELSE g[Len(s)]
  <2>1. /\ Len(s) + 1 \in 0..Len(t) /\ Len(s) + 1 # 0 /\ (Len(s) + 1) - 1 = Len(s)
    BY <1>1, LenProperties
  <2>2. QED
    BY <1>1, <1>3, <2>1 DEF UpTo
<1>6. QED
  BY <1>1, <1>2, <1>3, <1>4, <1>5 DEF t

\* Nothing is picked from the empty sequence.
LEMMA PickEmpty ==
  ASSUME NEW I
  PROVE  Pick(<<>>, I) = <<>>
<1>1. <<>> \in Seq({}) /\ Len(<<>>) = 0
  OBVIOUS
<1>2. PICK f : UpTo(<<>>, I, f, 0) /\ Pick(<<>>, I) = f[0]
  BY <1>1, PickValue
<1>3. QED
  BY <1>2 DEF UpTo

\* Only the places inside the sequence count.
LEMMA PickSame ==
  ASSUME NEW X, NEW s \in Seq(X), NEW I, NEW J,
         \A i \in 1..Len(s) : i \in I <=> i \in J
  PROVE  Pick(s, I) = Pick(s, J)
<1>1. PICK f : UpTo(s, I, f, Len(s)) /\ Pick(s, I) = f[Len(s)]
  BY PickValue
<1>2. PICK g : UpTo(s, J, g, Len(s)) /\ Pick(s, J) = g[Len(s)]
  BY PickValue
<1>3. QED
  BY <1>1, <1>2, UpToUnique

\* The elements of a sequence one longer.
LEMMA ToSetAppend ==
  ASSUME NEW X, NEW s \in Seq(X), NEW x \in X
  PROVE  ToSet(Append(s, x)) = ToSet(s) \cup {x}
<1>1. DOMAIN Append(s, x) = 1..(Len(s) + 1) /\ DOMAIN s = 1..Len(s) /\ Len(s) \in Nat
  BY AppendProperties, LenProperties
<1>2. 1..(Len(s) + 1) = 1..Len(s) \cup {Len(s) + 1}
  BY <1>1
<1>3. \A i \in 1..Len(s) : Append(s, x)[i] = s[i]
  BY AppendProperties
<1>4. Append(s, x)[Len(s) + 1] = x
  BY AppendProperties
<1>5. QED
  BY <1>1, <1>2, <1>3, <1>4 DEF ToSet

\* What is picked is a sequence of the elements at the picked places.
LEMMA PickElements ==
  ASSUME NEW X, NEW s \in Seq(X), NEW I
  PROVE  /\ Pick(s, I) \in Seq(X)
         /\ ToSet(Pick(s, I)) = {s[i] : i \in {j \in 1..Len(s) : j \in I}}
<1> DEFINE T == {u \in Seq(X) : /\ Pick(u, I) \in Seq(X)
                                /\ ToSet(Pick(u, I)) = {u[i] : i \in {j \in 1..Len(u) : j \in I}}}
<1>1. <<>> \in T
  <2>1. ToSet(<<>>) = {} /\ {<<>>[i] : i \in {j \in 1..Len(<<>>) : j \in I}} = {}
    BY DEF ToSet
  <2>2. <<>> \in Seq(X)
    OBVIOUS
  <2>3. QED
    BY <2>1, <2>2, PickEmpty
<1>2. ASSUME NEW u \in Seq(X), NEW x \in X, u \in T PROVE Append(u, x) \in T
  <2>1. Pick(Append(u, x), I) = IF Len(u) + 1 \in I THEN Append(Pick(u, I), x) ELSE Pick(u, I)
    BY PickAppend
  <2>2. Pick(Append(u, x), I) \in Seq(X)
    BY <1>2, <2>1
  <2>3. ToSet(Pick(Append(u, x), I)) =
          IF Len(u) + 1 \in I THEN ToSet(Pick(u, I)) \cup {x} ELSE ToSet(Pick(u, I))
    <3>1. Pick(u, I) \in Seq(X)
      BY <1>2
    <3>2. ToSet(Append(Pick(u, I), x)) = ToSet(Pick(u, I)) \cup {x}
      BY <3>1, ToSetAppend
    <3>3. QED
      BY <2>1, <3>2
  <2>4. {Append(u, x)[i] : i \in {j \in 1..Len(Append(u, x)) : j \in I}} =
          {u[i] : i \in {j \in 1..Len(u) : j \in I}} \cup (IF Len(u) + 1 \in I THEN {x} ELSE {})
    OBVIOUS
  <2>5. ToSet(Pick(u, I)) = {u[i] : i \in {j \in 1..Len(u) : j \in I}}
    BY <1>2
  <2>6. ToSet(Pick(Append(u, x), I)) =
          {Append(u, x)[i] : i \in {j \in 1..Len(Append(u, x)) : j \in I}}
    BY <2>3, <2>4, <2>5
  <2>7. QED
    BY <2>2, <2>6, AppendProperties
<1> HIDE DEF T
<1>3. Seq(X) \subseteq T
  BY <1>1, <1>2, SeqInduct
<1>4. QED
  BY <1>3 DEF T

\* Nothing is picked where no place is, and everything where all are.
LEMMA PickNone ==
  ASSUME NEW X, NEW s \in Seq(X), NEW I, \A i \in 1..Len(s) : i \notin I
  PROVE  Pick(s, I) = <<>>
<1>1. Pick(s, I) \in Seq(X) /\ ToSet(Pick(s, I)) = {}
  BY PickElements
<1>2. \A i \in 1..Len(Pick(s, I)) : FALSE
  <2>1. DOMAIN Pick(s, I) = 1..Len(Pick(s, I))
    BY <1>1, LenProperties
  <2>2. QED
    BY <1>1, <2>1 DEF ToSet
<1>3. QED
  BY <1>1, <1>2, EmptySeq

\* What is picked where every place is.
LEMMA PickAll ==
  ASSUME NEW X, NEW s \in Seq(X), NEW I, \A i \in 1..Len(s) : i \in I
  PROVE  Pick(s, I) = s
<1> DEFINE T == {u \in Seq(X) : Pick(u, Nat) = u}
<1>1. <<>> \in T
  BY PickEmpty
<1>2. ASSUME NEW u \in Seq(X), NEW x \in X, u \in T PROVE Append(u, x) \in T
  <2>1. Len(u) + 1 \in Nat
    BY LenProperties
  <2>2. QED
    BY <1>2, <2>1, PickAppend, AppendProperties
<1> HIDE DEF T
<1>3. Seq(X) \subseteq T
  BY <1>1, <1>2, SeqInduct
<1>4. \A i \in 1..Len(s) : i \in I <=> i \in Nat
  BY LenProperties
<1>5. Pick(s, I) = Pick(s, Nat)
  BY <1>4, PickSame
<1>6. QED
  BY <1>3, <1>5 DEF T

\* Picking from a concatenation.
LEMMA PickConcat ==
  ASSUME NEW X, NEW s \in Seq(X), NEW u \in Seq(X), NEW I, NEW J, NEW K,
         \A i \in 1..Len(s) : i \in K <=> i \in I,
         \A i \in 1..Len(u) : Len(s) + i \in K <=> i \in J
  PROVE  Pick(s \o u, K) = Pick(s, I) \o Pick(u, J)
<1> DEFINE T == {v \in Seq(X) : (\A i \in 1..Len(v) : Len(s) + i \in K <=> i \in J)
                                  => Pick(s \o v, K) = Pick(s, I) \o Pick(v, J)}
<1>1. <<>> \in T
  <2>1. s \o <<>> = s /\ Pick(s, I) \o <<>> = Pick(s, I)
    BY PickElements, ConcatEmptySeq
  <2>2. Pick(s, K) = Pick(s, I)
    BY PickSame
  <2>3. Pick(s \o <<>>, K) = Pick(s, I) \o Pick(<<>>, J)
    BY <2>1, <2>2, PickEmpty
  <2>4. QED
    BY <2>3, EmptySeq
<1>2. ASSUME NEW v \in Seq(X), NEW x \in X, v \in T PROVE Append(v, x) \in T
  <2>1. SUFFICES ASSUME \A i \in 1..Len(Append(v, x)) : Len(s) + i \in K <=> i \in J
                 PROVE  Pick(s \o Append(v, x), K) = Pick(s, I) \o Pick(Append(v, x), J)
    BY AppendProperties
  <2>2. Len(v) \in Nat /\ Len(s) \in Nat /\ Len(Append(v, x)) = Len(v) + 1
    BY LenProperties, AppendProperties
  <2>3. Pick(s \o v, K) = Pick(s, I) \o Pick(v, J)
    BY <1>2, <2>1, <2>2
  <2>4. /\ s \o v \in Seq(X) /\ Len(s \o v) = Len(s) + Len(v)
        /\ s \o Append(v, x) = Append(s \o v, x)
    <3>1. s \o v \in Seq(X) /\ Len(s \o v) = Len(s) + Len(v)
      BY ConcatProperties
    <3>2. Append(v, x) = v \o <<x>> /\ Append(s \o v, x) = (s \o v) \o <<x>>
      BY <3>1, AppendIsConcat
    <3>3. <<x>> \in Seq(X)
      OBVIOUS
    <3>4. QED
      BY <3>1, <3>2, <3>3, ConcatAssociative
  <2>5. (Len(s) + Len(v)) + 1 = Len(s) + (Len(v) + 1) /\ Len(v) + 1 \in 1..Len(Append(v, x))
    BY <2>2
  <2>6. Len(s \o v) + 1 \in K <=> Len(v) + 1 \in J
    BY <2>1, <2>4, <2>5
  <2>7. Pick(Append(s \o v, x), K) =
          IF Len(v) + 1 \in J THEN Append(Pick(s \o v, K), x) ELSE Pick(s \o v, K)
    <3>1. \A w \in Seq(X) : Pick(Append(w, x), K) =
            IF Len(w) + 1 \in K THEN Append(Pick(w, K), x) ELSE Pick(w, K)
      BY PickAppend
    <3>2. QED
      BY <2>4, <2>6, <3>1
  <2>8. Pick(Append(v, x), J) =
          IF Len(v) + 1 \in J THEN Append(Pick(v, J), x) ELSE Pick(v, J)
    BY PickAppend
  <2>9. Pick(s, I) \o Append(Pick(v, J), x) = Append(Pick(s, I) \o Pick(v, J), x)
    <3>1. Pick(s, I) \in Seq(X) /\ Pick(v, J) \in Seq(X) /\ <<x>> \in Seq(X)
      BY PickElements
    <3>2. Pick(s, I) \o Pick(v, J) \in Seq(X)
      BY <3>1, ConcatProperties
    <3>3. QED
      BY <3>1, <3>2, AppendIsConcat, ConcatAssociative
  <2>10. QED
    BY <2>3, <2>4, <2>7, <2>8, <2>9
<1> HIDE DEF T
<1>3. Seq(X) \subseteq T
  BY <1>1, <1>2, SeqInduct
<1>4. QED
  BY <1>3 DEF T

\* The first place alone.
LEMMA PickFirst ==
  ASSUME NEW X, NEW s \in Seq(X), NEW I, s # <<>>, \A i \in 1..Len(s) : i \in I <=> i = 1
  PROVE  Pick(s, I) = <<s[1]>>
<1> DEFINE T == {u \in Seq(X) : u # <<>> => Pick(u, {1}) = <<u[1]>>}
<1>1. <<>> \in T
  OBVIOUS
<1>2. ASSUME NEW u \in Seq(X), NEW x \in X, u \in T PROVE Append(u, x) \in T
  <2>1. Pick(Append(u, x), {1}) =
          IF Len(u) + 1 \in {1} THEN Append(Pick(u, {1}), x) ELSE Pick(u, {1})
    BY PickAppend
  <2>2. CASE u = <<>>
    <3>1. Append(u, x) = <<x>> /\ Len(u) + 1 \in {1}
      BY <2>2
    <3>2. Pick(u, {1}) = <<>>
      BY <2>2, PickEmpty
    <3>3. QED
      BY <2>1, <2>2, <3>1, <3>2
  <2>3. CASE u # <<>>
    <3>1. Len(u) + 1 \notin {1} /\ Append(u, x)[1] = u[1]
      BY <2>3, AppendProperties, LenProperties, EmptySeq
    <3>2. QED
      BY <1>2, <2>1, <2>3, <3>1, AppendProperties
  <2>4. QED
    BY <2>2, <2>3
<1> HIDE DEF T
<1>3. Seq(X) \subseteq T
  BY <1>1, <1>2, SeqInduct
<1>4. Pick(s, I) = Pick(s, {1})
  BY PickSame
<1>5. QED
  BY <1>3, <1>4 DEF T
=============================================================================
