--------------------------- MODULE EntryLogProofs ---------------------------
(***************************************************************************)
(* The entry log keeps its promises, for every number of turns, lines and  *)
(* crashes.  IInv is inductive: the lines on disk are well formed up to    *)
(* torn bytes (DiskInv), the index is that of the lines it holds           *)
(* (MemoryInv), what was acknowledged and what was rewound is kept by the  *)
(* lines on disk AND by those the index holds, since a failed write may    *)
(* have left one more (Keeps), the lines an operation still appends fit    *)
(* (TodoInv), the closers a recovery still appends close every turn a      *)
(* reader sees (Recovers), and a projection whose snapshot still stands is *)
(* about turns no rewind has taken since (ProjFits).                       *)
(***************************************************************************)
EXTENDS EntryLogAppend, FiniteSetTheorems

----------------------------------------------------------------------------
(***************************************************************************)
(* What a merge of an agent's replay makes of a well-formed log: its turns *)
(* in their old order with at most one turn inserted, every old line under *)
(* its own key, and every window of a revert record around the same turns. *)
(***************************************************************************)

----------------------------------------------------------------------------
\* Places.

\* The place of a turn is a number, whatever the order.
LEMMA PlaceIsNat ==
  ASSUME NEW X, NEW order \in Seq(X), NEW t
  PROVE  Pos(order, t) \in Nat
<1> DEFINE I == {j \in 1..Len(order) : order[j] = t}
           R == {p \in Nat \X Nat : p[1] < p[2]}
<1>1. Len(order) \in Nat
  BY LenProperties
<1>2. CASE I = {}
  BY <1>2 DEF Pos, SelectInSeq
<1>3. CASE I # {}
  <2>1. IsWellFoundedOn(R, Nat)
    BY NatLessThanWellFounded DEF OpToRel, IsWellFoundedOn
  <2>2. I \subseteq Nat
    BY <1>1
  <2> HIDE DEF I
  <2>3. PICK m \in I : \A y \in I : <<y, m>> \notin R
    BY <1>3, <2>1, <2>2, WFMin
  <2>4. \A y \in I : m =< y
    <3>1. ASSUME NEW x \in Nat, NEW y \in Nat PROVE <<x, y>> \notin R => y =< x
      OBVIOUS
    <3> HIDE DEF R
    <3>2. QED
      BY <2>2, <2>3, <3>1
  <2>5. Min(I) \in I
    BY <2>3, <2>4 DEF Min
  <2>6. Pos(order, t) = Min(I)
    BY <1>3 DEF Pos, SelectInSeq, I
  <2>7. QED
    BY <2>2, <2>5, <2>6
<1>4. QED
  BY <1>2, <1>3

\* An order with at most one new turn inserted behind its first a: where the old turns
\* are found.
Inserted(order, q, a, k) ==
    /\ q \in Seq(TurnIds) /\ Len(q) = Len(order) + k
    /\ \A i \in 1..a : q[i] = order[i]
    /\ k = 1 => q[a + 1] = Len(order) + 1
    /\ \A i \in (a + 1)..Len(order) : q[i + k] = order[i]

\* The longer order has no repeats, and its old turns have moved by the one inserted.
LEMMA InsertedPlaces ==
  ASSUME NEW order \in Seq(TurnIds), OrderFits(order), NEW a \in 0..Len(order),
         NEW k \in {0, 1}, NEW q, Inserted(order, q, a, k)
  PROVE  /\ OrderFits(q)
         /\ ToSet(order) \subseteq ToSet(q)
         /\ \A i \in 1..Len(order) : Pos(q, order[i]) = IF i <= a THEN i ELSE i + k
<1>1. /\ Len(order) \in Nat /\ DOMAIN order = 1..Len(order) /\ DOMAIN q = 1..(Len(order) + k)
      /\ q \in Seq(TurnIds) /\ Len(q) = Len(order) + k
  BY LenProperties DEF Inserted
<1>2. /\ \A i \in 1..Len(order) : order[i] \in 1..Len(order)
      /\ \A i, j \in 1..Len(order) : order[i] = order[j] => i = j
      /\ \A t \in 1..Len(order) : \E i \in 1..Len(order) : order[i] = t
  BY <1>1 DEF OrderFits, IsInjective, ToSet
<1>3. \A j \in 1..(Len(order) + k) :
            \/ j \in 1..a /\ q[j] = order[j]
            \/ k = 1 /\ j = a + 1 /\ q[j] = Len(order) + 1
            \/ j - k \in (a + 1)..Len(order) /\ q[j] = order[j - k]
  <2> TAKE j \in 1..(Len(order) + k)
  <2>1. j \in 1..a \/ (k = 1 /\ j = a + 1)
          \/ (j - k \in (a + 1)..Len(order) /\ (j - k) + k = j)
    <3> DEFINE n == Len(order)
    <3>1. n \in Nat /\ a \in 0..n /\ k \in {0, 1} /\ j \in 1..(n + k)
      BY <1>1
    <3> HIDE DEF n
    <3>2. j \in 1..a \/ (k = 1 /\ j = a + 1) \/ j - k \in (a + 1)..n
      BY <3>1
    <3>3. (j - k) + k = j
      BY <3>1
    <3>4. QED
      BY <3>2, <3>3 DEF n
  <2>2. CASE j - k \in (a + 1)..Len(order) /\ (j - k) + k = j
    <3>1. q[(j - k) + k] = order[j - k]
      BY <2>2 DEF Inserted
    <3>2. QED
      BY <2>2, <3>1
  <2>3. QED
    BY <2>1, <2>2 DEF Inserted
<1>4. IsInjective(q)
  <2>1. ASSUME NEW i \in 1..(Len(order) + k), NEW j \in 1..(Len(order) + k), q[i] = q[j]
        PROVE  i = j
    <3> DEFINE n == Len(order)
    <3>0. n \in Nat
      BY <1>1
    <3>1. \/ i \in 1..a /\ q[i] = order[i]
          \/ k = 1 /\ i = a + 1 /\ q[i] = n + 1
          \/ i - k \in (a + 1)..n /\ q[i] = order[i - k]
      BY <1>3
    <3>2. \/ j \in 1..a /\ q[j] = order[j]
          \/ k = 1 /\ j = a + 1 /\ q[j] = n + 1
          \/ j - k \in (a + 1)..n /\ q[j] = order[j - k]
      BY <1>3
    <3>3. \A x \in 1..n : order[x] \in 1..n /\ order[x] # n + 1
      BY <1>2, <3>0
    <3>4. \A x, y \in 1..n : order[x] = order[y] => x = y
      BY <1>2
    <3>5. 1..a \subseteq 1..n /\ (a + 1)..n \subseteq 1..n
      BY <3>0
    <3> HIDE DEF n
    <3>6. CASE i \in 1..a /\ q[i] = order[i]
      <4>1. i # a + 1 /\ i \in 1..n /\ i \notin (a + 1)..n
        BY <3>5, <3>6
      <4>2. CASE j \in 1..a /\ q[j] = order[j]
        BY <2>1, <3>4, <3>5, <3>6, <4>2
      <4>3. CASE k = 1 /\ j = a + 1 /\ q[j] = n + 1
        BY <2>1, <3>3, <3>6, <4>1, <4>3
      <4>4. CASE j - k \in (a + 1)..n /\ q[j] = order[j - k]
        <5>1. i = j - k
          BY <2>1, <3>4, <3>5, <3>6, <4>4
        <5>2. QED
          BY <4>1, <4>4, <5>1
      <4>5. QED
        BY <3>2, <4>2, <4>3, <4>4
    <3>7. CASE k = 1 /\ i = a + 1 /\ q[i] = n + 1
      BY <2>1, <3>2, <3>3, <3>5, <3>7
    <3>8. CASE i - k \in (a + 1)..n /\ q[i] = order[i - k]
      <4>2. CASE j \in 1..a /\ q[j] = order[j]
        <5>1. i - k = j
          BY <2>1, <3>4, <3>5, <3>8, <4>2
        <5>2. QED
          BY <3>8, <4>2, <5>1
      <4>3. CASE k = 1 /\ j = a + 1 /\ q[j] = n + 1
        BY <2>1, <3>3, <3>5, <3>8, <4>3
      <4>4. CASE j - k \in (a + 1)..n /\ q[j] = order[j - k]
        <5>1. i - k = j - k
          BY <2>1, <3>4, <3>5, <3>8, <4>4
        <5>2. i \in Nat /\ j \in Nat /\ k \in Nat
          BY <1>1
        <5>3. QED
          BY <5>1, <5>2
      <4>5. QED
        BY <3>2, <4>2, <4>3, <4>4
    <3>9. QED
      BY <3>1, <3>6, <3>7, <3>8
  <2>2. QED
    BY <1>1, <2>1 DEF IsInjective
<1>5. ASSUME NEW i \in 1..Len(order)
      PROVE  Pos(q, order[i]) = IF i <= a THEN i ELSE i + k
  <2>1. CASE i <= a
    <3>1. i \in 1..a /\ i \in 1..Len(q)
      BY <1>1, <2>1
    <3>2. q[i] = order[i]
      BY <3>1 DEF Inserted
    <3>3. QED
      BY <1>1, <1>4, <2>1, <3>1, <3>2, PosAt
  <2>2. CASE ~(i <= a)
    <3>1. i \in (a + 1)..Len(order) /\ i + k \in 1..Len(q)
      BY <1>1, <2>2
    <3>2. q[i + k] = order[i]
      BY <3>1 DEF Inserted
    <3>3. Pos(q, q[i + k]) = i + k
      BY <1>1, <1>4, <3>1, PosAt
    <3>4. QED
      BY <2>2, <3>2, <3>3
  <2>3. QED
    BY <2>1, <2>2
<1>6. ToSet(order) \subseteq ToSet(q)
  <2>1. ASSUME NEW i \in 1..Len(order) PROVE \E j \in 1..(Len(order) + k) : q[j] = order[i]
    <3>1. CASE i <= a
      <4>1. i \in 1..a /\ i \in 1..(Len(order) + k)
        BY <1>1, <3>1
      <4>2. QED
        BY <4>1 DEF Inserted
    <3>2. CASE ~(i <= a)
      <4>1. i \in (a + 1)..Len(order) /\ i + k \in 1..(Len(order) + k)
        BY <1>1, <3>2
      <4>2. QED
        BY <4>1 DEF Inserted
    <3>3. QED
      BY <3>1, <3>2
  <2>2. QED
    BY <1>1, <2>1 DEF ToSet
<1>7. ToSet(q) = 1..Len(q)
  <2>1. ASSUME NEW j \in 1..(Len(order) + k) PROVE q[j] \in 1..(Len(order) + k)
    <3>1. 1..a \subseteq 1..Len(order) /\ (a + 1)..Len(order) \subseteq 1..Len(order)
          /\ 1..Len(order) \subseteq 1..(Len(order) + k)
          /\ (k = 1 => Len(order) + 1 \in 1..(Len(order) + k))
      BY <1>1
    <3>2. QED
      BY <1>2, <1>3, <3>1
  <2>2. ToSet(q) \subseteq 1..Len(q)
    BY <1>1, <2>1 DEF ToSet
  <2>3. k = 1 => Len(order) + 1 \in ToSet(q)
    <3>1. k = 1 => a + 1 \in DOMAIN q
      BY <1>1
    <3>2. QED
      BY <3>1 DEF Inserted, ToSet
  <2>4. 1..Len(q) = 1..Len(order) \cup (IF k = 1 THEN {Len(order) + 1} ELSE {})
    BY <1>1
  <2>5. 1..Len(order) \subseteq ToSet(q)
    BY <1>6 DEF OrderFits
  <2>6. QED
    BY <2>2, <2>3, <2>4, <2>5
<1>8. QED
  BY <1>4, <1>5, <1>6, <1>7 DEF OrderFits

\* A record of turns of the old order keeps its window, hides what it hid and nothing else:
\* a turn inserted inside its window follows one it hides.
LEMMA InsertedWindows ==
  ASSUME NEW order \in Seq(TurnIds), OrderFits(order), NEW a \in 0..Len(order),
         NEW k \in {0, 1}, NEW q, Inserted(order, q, a, k),
         NEW l, l.turn \in ToSet(order), RecordFits(order, l)
  PROVE  /\ RecordFits(q, l)
         /\ \A t : InWindow(order, l, t) => InWindow(q, l, t)
         /\ \A t \in ToSet(order) : InWindow(q, l, t) => InWindow(order, l, t)
         /\ \A t : InWindow(q, l, t) /\ t \notin ToSet(order) =>
               a \in 1..Len(order) /\ InWindow(order, l, order[a])
<1>1. /\ OrderFits(q) /\ ToSet(order) \subseteq ToSet(q) /\ Len(order) \in Nat
      /\ \A i \in 1..Len(order) : Pos(q, order[i]) = IF i <= a THEN i ELSE i + k
  BY InsertedPlaces, LenProperties
<1>2. /\ \A t : Pos(order, t) \in Nat /\ (Pos(order, t) > 0 <=> t \in ToSet(order))
      /\ \A t \in ToSet(order) : Pos(order, t) \in 1..Len(order) /\ order[Pos(order, t)] = t
  BY PosIsNat, PosPresent DEF OrderFits
<1>3. \A t \in ToSet(order) : Pos(q, t) = IF Pos(order, t) <= a THEN Pos(order, t)
                                          ELSE Pos(order, t) + k
  BY <1>1, <1>2
<1>4. \A t, u \in ToSet(order) : Pos(order, t) <= Pos(order, u) <=> Pos(q, t) <= Pos(q, u)
  <2> TAKE t, u \in ToSet(order)
  <2> DEFINE x == Pos(order, t)
             y == Pos(order, u)
  <2>1. x \in Nat /\ y \in Nat /\ Pos(q, t) = (IF x <= a THEN x ELSE x + k)
        /\ Pos(q, u) = (IF y <= a THEN y ELSE y + k)
    BY <1>2, <1>3
  <2> HIDE DEF x, y
  <2>2. x <= y <=> Pos(q, t) <= Pos(q, u)
    BY <2>1
  <2>3. QED
    BY <2>2 DEF x, y
<1>5. \A t \in ToSet(order) : Pos(q, t) \in Nat /\ Pos(q, t) > 0
  BY <1>2, <1>3
<1>6. l.from \in ToSet(order) /\ l.through \in ToSet(order)
  BY DEF RecordFits
<1>7. RecordFits(q, l)
  BY <1>1, <1>2, <1>4, <1>5, <1>6 DEF RecordFits
<1>8. ASSUME NEW t, InWindow(order, l, t) PROVE InWindow(q, l, t)
  <2>1. t \in ToSet(order)
    BY <1>2, <1>8 DEF InWindow
  <2>2. QED
    BY <1>4, <1>5, <1>6, <1>8, <2>1 DEF InWindow
<1>9. ASSUME NEW t \in ToSet(order), InWindow(q, l, t) PROVE InWindow(order, l, t)
  BY <1>2, <1>4, <1>6, <1>9 DEF InWindow
<1>10. ASSUME NEW t, InWindow(q, l, t), t \notin ToSet(order)
       PROVE  a \in 1..Len(order) /\ InWindow(order, l, order[a])
  <2> DEFINE n == Len(order)
             j == Pos(q, t)
             x == Pos(order, l.from)
             y == Pos(order, l.through)
  <2>1. /\ q \in Seq(TurnIds) /\ Len(q) = n + k /\ IsInjective(q)
        /\ n \in Nat /\ DOMAIN order = 1..n
    BY <1>1, LenProperties DEF Inserted, OrderFits
  <2>2. j \in 1..(n + k) /\ q[j] = t
    <3>1. j > 0 /\ j \in Nat
      <4>1. Pos(q, l.from) > 0 /\ Pos(q, l.from) <= j /\ Pos(q, l.from) \in Nat
        BY <1>5, <1>6, <1>10 DEF InWindow
      <4>2. j \in Nat
        BY <2>1, PosIsNat
      <4> HIDE DEF j
      <4>3. QED
        BY <4>1, <4>2
    <3>2. t \in ToSet(q)
      BY <2>1, <3>1, PosIsNat
    <3>3. QED
      BY <2>1, <3>2, PosPresent
  <2>3. \A i \in 1..n : order[i] # t
    BY <1>10, <2>1 DEF ToSet
  <2>4. x \in 1..n /\ y \in 1..n
    BY <1>2, <1>6
  <2>5. /\ (IF x <= a THEN x ELSE x + k) <= j
        /\ j <= (IF y <= a THEN y ELSE y + k)
    BY <1>3, <1>6, <1>10 DEF InWindow
  <2> HIDE DEF n, j, x, y
  <2>6. a \in 0..n /\ k \in {0, 1}
    BY DEF n
  <2>7. j \notin 1..a
    <3>1. j \in 1..a => j \in 1..n
      BY <2>1, <2>6
    <3>2. j \in 1..a => q[j] = order[j]
      BY DEF Inserted
    <3>3. QED
      BY <2>2, <2>3, <3>1, <3>2
  <2>8. j - k \notin (a + 1)..n
    <3>1. j - k \in (a + 1)..n => (j - k) + k = j /\ j - k \in 1..n
      BY <2>1, <2>2, <2>6
    <3>2. j - k \in (a + 1)..n => q[(j - k) + k] = order[j - k]
      BY DEF Inserted, n
    <3>3. QED
      BY <2>2, <2>3, <3>1, <3>2
  <2>9. j = a + 1 /\ k = 1
    BY <2>1, <2>2, <2>6, <2>7, <2>8
  <2>10. x <= a /\ a <= y /\ a \in 1..n
    BY <2>1, <2>4, <2>5, <2>6, <2>9
  <2>11. Pos(order, order[a]) = a /\ order[a] \in ToSet(order)
    BY <2>1, <2>10, PosAt DEF OrderFits, ToSet, n
  <2>12. order[a] # l.turn
    <3>1. Pos(order, l.turn) \notin x..y
      BY DEF RecordFits, x, y
    <3>2. a \in x..y
      BY <2>4, <2>10
    <3>3. QED
      BY <2>11, <3>1, <3>2
  <2>13. InWindow(order, l, order[a])
    <3>1. x > 0
      BY <2>4
    <3>2. QED
      BY <2>10, <2>11, <2>12, <3>1 DEF InWindow, x, y
  <2>14. QED
    BY <2>10, <2>13 DEF n
<1>11. QED
  BY <1>7, <1>8, <1>9, <1>10

----------------------------------------------------------------------------
\* One turn's lines, merged.

\* What a rewrite leaves of a line.
Same(l, was) ==
    /\ l \in Lines /\ l.kind = was.kind /\ l.turn = was.turn /\ KeyOf(l) = KeyOf(was)
    /\ l.kind = "turn_open" => l.msg = was.msg /\ l.source = was.source
    /\ l.kind = "turn_revert" => l.from = was.from /\ l.through = was.through

\* The lines a merge may put behind a turn's own.
Closers(t) == {l \in Lines : l.turn = t /\ l.kind \in {"turn_close", "reconciled"}}

\* The lines group are a turn's own lines, rewritten, and closers behind them.
Extends(mine, group, t) ==
    /\ group \in Seq(Lines)
    /\ Len(mine) <= Len(group)
    /\ \A i \in 1..Len(mine) : Same(group[i], mine[i])
    /\ \A i \in 1..Len(group) : i \notin 1..Len(mine) => group[i] \in Closers(t)

\* A turn's own lines.
GroupFits(group, t) ==
    /\ group \in Seq(Lines) /\ group # <<>>
    /\ \A i \in 1..Len(group) : group[i].turn = t
    /\ TurnFits(group, t)

\* Closers put behind the lines.
LEMMA ExtendsConcat ==
  ASSUME NEW mine \in Seq(Lines), NEW group, NEW t, Extends(mine, group, t),
         NEW more \in Seq(Closers(t))
  PROVE  Extends(mine, group \o more, t)
<1> DEFINE all == group \o more
<1>1. /\ more \in Seq(Lines) /\ group \in Seq(Lines) /\ all \in Seq(Lines)
      /\ Len(all) = Len(group) + Len(more)
      /\ Len(group) \in Nat /\ Len(more) \in Nat /\ Len(mine) \in Nat
      /\ \A i \in 1..Len(group) : all[i] = group[i]
      /\ \A i \in 1..Len(more) : all[Len(group) + i] = more[i]
  <2>1. Closers(t) \subseteq Lines
    BY DEF Closers
  <2>2. more \in Seq(Lines) /\ group \in Seq(Lines)
    BY <2>1, SeqMonotonic DEF Extends
  <2>3. Len(group) \in Nat /\ Len(more) \in Nat /\ Len(mine) \in Nat
    BY <2>2, LenProperties
  <2>4. all \in Seq(Lines) /\ Len(all) = Len(group) + Len(more)
        /\ \A i \in 1..(Len(group) + Len(more)) :
              all[i] = IF i <= Len(group) THEN group[i] ELSE more[i - Len(group)]
    BY <2>2, ConcatProperties
  <2>5. \A i \in 1..Len(more) : /\ Len(group) + i \in 1..(Len(group) + Len(more))
                                /\ ~(Len(group) + i <= Len(group))
                                /\ (Len(group) + i) - Len(group) = i
    BY <2>3
  <2>6. \A i \in 1..Len(group) : i \in 1..(Len(group) + Len(more)) /\ i <= Len(group)
    BY <2>3
  <2>7. QED
    BY <2>2, <2>3, <2>4, <2>5, <2>6
<1>2. Len(mine) <= Len(group)
  BY DEF Extends
<1> HIDE DEF all
<1>3. \A i \in 1..Len(mine) : Same(all[i], mine[i])
  <2>1. 1..Len(mine) \subseteq 1..Len(group)
    BY <1>1, <1>2
  <2>2. QED
    BY <1>1, <2>1 DEF Extends
<1>4. ASSUME NEW i \in 1..Len(all), i \notin 1..Len(mine) PROVE all[i] \in Closers(t)
  <2>1. CASE i \in 1..Len(group)
    BY <1>1, <1>4, <2>1 DEF Extends
  <2>2. CASE i \notin 1..Len(group)
    <3>1. i - Len(group) \in 1..Len(more) /\ Len(group) + (i - Len(group)) = i
      BY <1>1, <2>2
    <3>2. all[i] = more[i - Len(group)]
      BY <1>1, <3>1
    <3>3. QED
      BY <3>1, <3>2, ElementOfSeq
  <2>3. QED
    BY <2>1, <2>2
<1>5. QED
  BY <1>1, <1>2, <1>3, <1>4 DEF Extends, all

\* Every line rewritten once more.
LEMMA ExtendsRewrite ==
  ASSUME NEW mine \in Seq(Lines), NEW group, NEW t, Extends(mine, group, t),
         NEW next \in Seq(Lines), Len(next) = Len(group),
         \A i \in 1..Len(group) : Same(next[i], group[i])
  PROVE  Extends(mine, next, t)
<1>1. Len(mine) <= Len(group) /\ Len(mine) \in Nat /\ Len(group) \in Nat
  BY LenProperties DEF Extends
<1>2. 1..Len(mine) \subseteq 1..Len(group)
  BY <1>1
<1>3. ASSUME NEW i \in 1..Len(mine) PROVE Same(next[i], mine[i])
  <2>1. Same(next[i], group[i]) /\ Same(group[i], mine[i])
    BY <1>2 DEF Extends
  <2>2. QED
    BY <2>1 DEF Same
<1>4. ASSUME NEW i \in 1..Len(next), i \notin 1..Len(mine) PROVE next[i] \in Closers(t)
  <2>1. Same(next[i], group[i]) /\ group[i] \in Closers(t)
    BY <1>4 DEF Extends
  <2>2. QED
    BY <2>1 DEF Same, Closers
<1>5. QED
  BY <1>1, <1>3, <1>4 DEF Extends

\* A rewritten turn is a turn.
LEMMA ExtendsFits ==
  ASSUME NEW mine, NEW t, GroupFits(mine, t), NEW group, Extends(mine, group, t)
  PROVE  GroupFits(group, t)
<1>1. /\ mine \in Seq(Lines) /\ group \in Seq(Lines) /\ Len(mine) \in Nat /\ Len(group) \in Nat
      /\ Len(mine) # 0 /\ Len(mine) <= Len(group)
      /\ DOMAIN mine = 1..Len(mine) /\ DOMAIN group = 1..Len(group)
  BY LenProperties, EmptySeq DEF GroupFits, Extends
<1>2. 1 \in 1..Len(mine) /\ 1 \in 1..Len(group) /\ 1..Len(mine) \subseteq 1..Len(group)
  BY <1>1
<1>3. group # <<>>
  BY <1>1, <1>2
<1>4. ASSUME NEW i \in 1..Len(group)
      PROVE  \/ i \in 1..Len(mine) /\ Same(group[i], mine[i]) /\ mine[i].turn = t
             \/ i # 1 /\ i \notin 1..Len(mine) /\ group[i] \in Closers(t)
  BY <1>2 DEF Extends, GroupFits
<1>5. \A i \in 1..Len(group) : group[i].turn = t
  BY <1>4 DEF Same, Closers
<1>6. \A i \in 1..Len(mine) : mine[i].kind = "turn_open" <=> i = 1
  BY <1>1 DEF GroupFits, TurnFits
<1>7. \A i \in 1..Len(group) : group[i].kind = "turn_open" <=> i = 1
  BY <1>4, <1>6 DEF Same, Closers
<1>8. group[1].msg = t
  <2>1. Same(group[1], mine[1]) /\ mine[1].kind = "turn_open" /\ mine[1].msg = t
    BY <1>2, <1>6 DEF Extends, GroupFits, TurnFits
  <2>2. QED
    BY <2>1 DEF Same
<1>9. HasKind(group, "tool_result") => HasKind(group, "tool_call")
  <2> SUFFICES ASSUME NEW i \in 1..Len(group), group[i].kind = "tool_result"
               PROVE  HasKind(group, "tool_call")
    BY <1>1 DEF HasKind
  <2>1. i \in 1..Len(mine) /\ mine[i].kind = "tool_result"
    BY <1>4 DEF Same, Closers
  <2>2. HasKind(mine, "tool_call")
    BY <1>1, <2>1 DEF GroupFits, TurnFits, HasKind
  <2>3. PICK j \in 1..Len(mine) : mine[j].kind = "tool_call"
    BY <1>1, <2>2 DEF HasKind
  <2>4. group[j].kind = "tool_call" /\ j \in 1..Len(group)
    BY <1>2, <2>3 DEF Extends, Same
  <2>5. QED
    BY <1>1, <2>4 DEF HasKind
<1>10. TurnFits(group, t)
  BY <1>1, <1>7, <1>8, <1>9 DEF TurnFits
<1>11. QED
  BY <1>1, <1>3, <1>5, <1>10 DEF GroupFits

\* Its own lines are found again in it, and no record is added.
LEMMA ExtendsLines ==
  ASSUME NEW mine, NEW t, GroupFits(mine, t), NEW group, Extends(mine, group, t)
  PROVE  /\ \A was \in ToSet(mine) : \E l \in ToSet(group) : Same(l, was)
         /\ \A l \in ToSet(group) : l.kind = "turn_revert" =>
               \E was \in ToSet(mine) : Same(l, was)
<1>1. /\ mine \in Seq(Lines) /\ group \in Seq(Lines) /\ Len(mine) \in Nat /\ Len(group) \in Nat
      /\ Len(mine) <= Len(group)
      /\ DOMAIN mine = 1..Len(mine) /\ DOMAIN group = 1..Len(group)
  BY LenProperties DEF GroupFits, Extends
<1>2. 1..Len(mine) \subseteq 1..Len(group)
  BY <1>1
<1>3. \A was \in ToSet(mine) : \E l \in ToSet(group) : Same(l, was)
  BY <1>1, <1>2 DEF ToSet, Extends
<1>4. ASSUME NEW l \in ToSet(group), l.kind = "turn_revert"
      PROVE  \E was \in ToSet(mine) : Same(l, was)
  <2>1. PICK i \in 1..Len(group) : l = group[i]
    BY <1>1 DEF ToSet
  <2>2. i \in 1..Len(mine)
    BY <1>4, <2>1 DEF Extends, Closers
  <2>3. QED
    BY <1>1, <2>1, <2>2 DEF ToSet, Extends
<1>5. QED
  BY <1>3, <1>4

----------------------------------------------------------------------------
\* The turns' lines, one turn behind the other.

\* The lines M are the groups g of the turns of q, in the order of q.
Grouped(M, g, q) ==
    /\ M \in Seq(Lines)
    /\ OrderOf(M) = q
    /\ ToSet(M) = UNION {ToSet(g[t]) : t \in ToSet(q)}
    /\ \A t : OfTurn(M, t) = IF t \in ToSet(q) THEN g[t] ELSE <<>>

\* Groups written one behind the other can be read back, in their order.
LEMMA FlattenGroups ==
  ASSUME NEW S, NEW g, \A t \in S : GroupFits(g[t], t), NEW q \in Seq(S), IsInjective(q)
  PROVE  Grouped(FlattenSeq([i \in DOMAIN q |-> g[q[i]]]), g, q)
<1> DEFINE parts(u) == [i \in DOMAIN u |-> g[u[i]]]
           flat(u)  == FlattenSeq(parts(u))
           T        == {u \in Seq(S) : IsInjective(u) => Grouped(flat(u), g, u)}
<1>0. ASSUME NEW u \in Seq(S) PROVE parts(u) \in Seq(Seq(Lines))
  <2>1. DOMAIN u = 1..Len(u) /\ Len(u) \in Nat /\ \A i \in 1..Len(u) : u[i] \in S
    BY LenProperties, ElementOfSeq
  <2>2. \A i \in 1..Len(u) : g[u[i]] \in Seq(Lines)
    BY <2>1 DEF GroupFits
  <2>3. parts(u) \in [1..Len(u) -> Seq(Lines)]
    BY <2>1, <2>2
  <2> HIDE DEF parts
  <2>4. QED
    BY <2>1, <2>3, SeqDef
<1>1. <<>> \in T
  <2>1. parts(<<>>) = <<>>
    OBVIOUS
  <2>2. flat(<<>>) = <<>>
    BY <2>1, FlattenEmpty
  <2>3. ToSet(<<>>) = {} /\ OrderOf(<<>>) = <<>> /\ \A t : OfTurn(<<>>, t) = <<>>
    BY OrderEmpty, OfKindEmpty DEF ToSet
  <2> HIDE DEF flat, parts
  <2>4. Grouped(flat(<<>>), g, <<>>)
    BY <2>2, <2>3, EmptySeq DEF Grouped
  <2>5. QED
    BY <2>4, EmptySeq
<1>2. ASSUME NEW u \in Seq(S), NEW x \in S, u \in T PROVE Append(u, x) \in T
  <2> DEFINE v == Append(u, x)
             A == flat(u)
             G == g[x]
  <2>1. /\ v \in Seq(S) /\ Len(v) = Len(u) + 1 /\ v[Len(u) + 1] = x
        /\ \A i \in 1..Len(u) : v[i] = u[i]
        /\ DOMAIN v = 1..(Len(u) + 1) /\ DOMAIN u = 1..Len(u) /\ Len(u) \in Nat
    BY AppendProperties, LenProperties
  <2>2. SUFFICES ASSUME IsInjective(v) PROVE Grouped(flat(v), g, v)
    BY <2>1
  <2>3. IsInjective(u) /\ x \notin ToSet(u)
    <3>0. /\ \A i \in 1..Len(u) : i \in 1..(Len(u) + 1) /\ i # Len(u) + 1
          /\ Len(u) + 1 \in 1..(Len(u) + 1)
      BY <2>1
    <3> HIDE DEF v
    <3>1. IsInjective(u)
      BY <2>1, <2>2, <3>0 DEF IsInjective
    <3>2. x \notin ToSet(u)
      BY <2>1, <2>2, <3>0 DEF IsInjective, ToSet
    <3>3. QED
      BY <3>1, <3>2
  <2>4. Grouped(A, g, u)
    BY <1>2, <2>3
  <2>5. GroupFits(G, x)
    OBVIOUS
  <2>6. flat(v) = A \o G
    <3>1. parts(v) = Append(parts(u), G)
      <4>1. parts(u) \in Seq(Seq(Lines)) /\ Len(parts(u)) = Len(u) /\ G \in Seq(Lines)
            /\ parts(v) \in Seq(Seq(Lines)) /\ Len(parts(v)) = Len(u) + 1
        <5>1. parts(u) \in Seq(Seq(Lines)) /\ parts(v) \in Seq(Seq(Lines))
          BY <1>0, <2>1
        <5>2. DOMAIN parts(u) = 1..Len(u) /\ DOMAIN parts(v) = 1..(Len(u) + 1)
          BY <2>1
        <5> HIDE DEF parts, v
        <5>3. Len(parts(u)) = Len(u) /\ Len(parts(v)) = Len(u) + 1
          BY <2>1, <5>1, <5>2, LenProperties
        <5>4. QED
          BY <2>5, <5>1, <5>3 DEF GroupFits
      <4>2. \A i \in 1..(Len(u) + 1) : parts(v)[i] = g[v[i]]
        BY <2>1
      <4>3. \A i \in 1..Len(u) : parts(u)[i] = g[u[i]]
        BY <2>1
      <4>4. /\ \A i \in 1..Len(u) : i \in 1..(Len(u) + 1)
            /\ Len(u) + 1 \in 1..(Len(u) + 1)
        BY <2>1
      <4> DEFINE P == parts(u)
                 R == parts(v)
                 n == Len(u)
      <4>5. /\ P \in Seq(Seq(Lines)) /\ Len(P) = n /\ R \in Seq(Seq(Lines)) /\ Len(R) = n + 1
            /\ \A i \in 1..n : R[i] = P[i]
            /\ R[n + 1] = G /\ n \in Nat
        <5>1. \A i \in 1..n : v[i] = u[i]
          BY <2>1
        <5>2. v[n + 1] = x
          BY <2>1
        <5> HIDE DEF parts, v
        <5>3. QED
          BY <2>1, <4>1, <4>2, <4>3, <4>4, <5>1, <5>2
      <4> HIDE DEF P, R, n, G
      <4>6. G \in Seq(Lines)
        BY <4>1
      <4>7. R = Append(P, G)
        BY <4>5, <4>6, AppendProperties, SeqEqual
      <4>8. QED
        BY <4>7 DEF P, R
    <3> HIDE DEF parts, G, v
    <3>2. QED
      BY <1>0, <2>5, <3>1, FlattenAppend DEF GroupFits
  <2> HIDE DEF flat, parts, A, G, v
  <2>7. A \in Seq(Lines) /\ G \in Seq(Lines) /\ G # <<>> /\ A \o G \in Seq(Lines)
    BY <2>4, <2>5, ConcatProperties DEF Grouped, GroupFits
  <2>8. /\ \A i \in 1..Len(G) : G[i].turn = x
        /\ \A i \in 1..Len(G) : G[i].kind = "turn_open" <=> i = 1
        /\ Len(G) \in Nat /\ Len(G) # 0
    BY <2>5, <2>7, LenProperties, EmptySeq DEF GroupFits, TurnFits
  <2>9. OrderOf(A \o G) = v
    <3>1. OrderOf(A \o G) = Append(OrderOf(A), G[1].turn)
      BY <2>7, <2>8, OrderConcat
    <3>2. G[1].turn = x
      BY <2>8
    <3>3. QED
      BY <2>4, <3>1, <3>2 DEF Grouped, v
  <2>10. ToSet(v) = ToSet(u) \cup {x}
    BY ToSetAppend DEF v
  <2>11. ToSet(A \o G) = UNION {ToSet(g[t]) : t \in ToSet(v)}
    <3>1. ToSet(A \o G) = ToSet(A) \cup ToSet(G)
      BY <2>7, ToSetConcat
    <3>2. ToSet(A) = UNION {ToSet(g[t]) : t \in ToSet(u)}
      BY <2>4 DEF Grouped
    <3>3. QED
      BY <2>10, <3>1, <3>2 DEF G
  <2>12. ASSUME NEW t PROVE OfTurn(A \o G, t) = IF t \in ToSet(v) THEN g[t] ELSE <<>>
    <3>1. OfTurn(A \o G, t) = OfTurn(A, t) \o OfTurn(G, t)
      BY <2>7, OfTurnConcat
    <3>2. OfTurn(A, t) = IF t \in ToSet(u) THEN g[t] ELSE <<>>
      BY <2>4 DEF Grouped
    <3>3. OfTurn(G, t) = IF t = x THEN G ELSE <<>>
      BY <2>7, <2>8, OfTurnOne
    <3>4. CASE t = x
      <4>1. OfTurn(A \o G, t) = <<>> \o G
        BY <2>3, <3>1, <3>2, <3>3, <3>4
      <4>2. QED
        BY <2>7, <2>10, <3>4, <4>1, ConcatEmptySeq DEF G
    <3>5. CASE t # x /\ t \in ToSet(u)
      <4>1. OfTurn(A \o G, t) = g[t] \o <<>>
        BY <3>1, <3>2, <3>3, <3>5
      <4>2. g[t] \in Seq(Lines)
        <5>1. OfTurn(A, t) \in Seq(Lines)
          BY <2>7, OfTurnElements
        <5>2. QED
          BY <3>2, <3>5, <5>1
      <4>3. QED
        BY <2>10, <3>5, <4>1, <4>2, ConcatEmptySeq
    <3>6. CASE t # x /\ t \notin ToSet(u)
      <4>1. OfTurn(A \o G, t) = <<>> \o <<>>
        BY <3>1, <3>2, <3>3, <3>6
      <4>2. <<>> \o <<>> = <<>>
        BY ConcatEmptySeq, EmptySeq
      <4>3. QED
        BY <2>10, <3>6, <4>1, <4>2
    <3>7. QED
      BY <3>4, <3>5, <3>6
  <2>13. QED
    BY <2>6, <2>7, <2>9, <2>11, <2>12 DEF Grouped
<1> HIDE DEF T
<1>3. Seq(S) \subseteq T
  BY <1>1, <1>2, SeqInduct
<1>4. q \in T
  BY <1>3
<1>5. QED
  BY <1>4 DEF T

----------------------------------------------------------------------------
\* The merge of a projection that still stands.

MergeReady ==
    /\ WellFormed(Held)
    /\ idx = IndexOf(Held, NoTurn)
    /\ proj.turns \subseteq SurvivingTurns(idx)

\* A projection that still stands inserts one turn at most.
LEMMA MergeShape ==
  ASSUME MergeReady, NEW m \in Merges
  PROVE  /\ m.anchor \in 0..Len(idx.order)
         /\ m.anchor # 0 => idx.order[m.anchor] \in SurvivingTurns(idx)
         /\ m.msgs \in {<<>>, <<Fresh(idx)>>} /\ Len(m.msgs) \in {0, 1}
         /\ Len(idx.order) + Len(m.msgs) <= MaxTurns
         /\ Len(m.msgs) = 0 => m.msgs = <<>>
         /\ Len(m.msgs) = 1 => m.msgs = <<Fresh(idx)>>
<1> DEFINE ix == idx
           L  == Held
<1>1. /\ ix.order \in Seq(TurnIds) /\ Len(ix.order) \in Nat /\ OrderFits(ix.order)
  <2>1. ix = IndexOf(L, NoTurn) /\ WellFormed(L)
    BY DEF MergeReady
  <2> HIDE DEF ix, L
  <2>2. QED
    BY <2>1, IndexFacts
<1>2. Stale = <<>>
  <2>1. {idx.rows[t].msg : t \in proj.turns \ SurvivingTurns(idx)} = {}
    BY DEF MergeReady
  <2>2. Cardinality({}) = 0
    BY FS_EmptySet
  <2>3. \A f \in [1..0 -> {}] : f = <<>>
    OBVIOUS
  <2>4. <<>> \in [1..0 -> {}] /\ IsInjective(<<>>)
    BY DEF IsInjective
  <2>5. SetToSeq({}) = <<>>
    BY <2>2, <2>3, <2>4 DEF SetToSeq
  <2>6. QED
    BY <2>1, <2>5 DEF Stale
<1>3. Append(Stale, Fresh(idx) + Len(Stale)) = <<Fresh(idx)>>
  <2>1. Len(<<>>) = 0 /\ Fresh(idx) + 0 = Fresh(idx)
    BY <1>1 DEF Fresh
  <2>2. QED
    BY <1>2, <2>1
<1>4. /\ m.msgs \in {<<>>, <<Fresh(idx)>>}
      /\ Len(idx.order) + Len(m.msgs) <= MaxTurns
      /\ m.anchor \in {0} \cup {Pos(idx.order, t) : t \in Paired}
  <2> DEFINE fresh == {msgs \in {Stale, Append(Stale, Fresh(idx) + Len(Stale))} :
                         Len(idx.order) + Len(msgs) <= MaxTurns}
             S(msgs) == SUBSET ({t \in Paired : idx.rows[t].unterminated}
                                    \cup (Fresh(idx) .. Fresh(idx) + Len(msgs) - 1))
             A == {0} \cup {Pos(idx.order, t) : t \in Paired}
  <2>1. m \in UNION {[settled : S(msgs), msgs : {msgs}, anchor : A] : msgs \in fresh}
    BY DEF Merges
  <2> HIDE DEF S, A
  <2>2. PICK msgs \in fresh : m \in [settled : S(msgs), msgs : {msgs}, anchor : A]
    BY <2>1
  <2>3. m.msgs = msgs /\ m.anchor \in A
    BY <2>2
  <2>4. msgs \in {<<>>, <<Fresh(idx)>>} /\ Len(idx.order) + Len(msgs) <= MaxTurns
    BY <1>2, <1>3
  <2>5. QED
    BY <2>3, <2>4 DEF A
<1>5. \A t \in Paired : /\ Pos(idx.order, t) \in 1..Len(idx.order)
                        /\ idx.order[Pos(idx.order, t)] = t /\ t \in SurvivingTurns(idx)
  <2>1. Paired \subseteq ToSet(idx.order)
    BY <1>1, SurvivingIs DEF Paired
  <2>2. QED
    BY <1>1, <2>1, PosPresent DEF OrderFits, Paired
<1>6. /\ m.anchor \in 0..Len(idx.order)
      /\ m.anchor # 0 => idx.order[m.anchor] \in SurvivingTurns(idx)
  BY <1>1, <1>4, <1>5
<1>7. Len(<<>>) = 0 /\ \A x : Len(<<x>>) = 1
  OBVIOUS
<1>8. CASE m.msgs = <<>>
  BY <1>4, <1>6, <1>7, <1>8
<1>9. CASE m.msgs = <<Fresh(idx)>>
  <2>1. Len(m.msgs) = 1
    BY <1>7, <1>9
  <2>2. QED
    BY <1>4, <1>6, <1>9, <2>1
<1>10. QED
  BY <1>4, <1>8, <1>9

\* The merge's order is the old one with that turn inserted.
LEMMA MergeOrder ==
  ASSUME MergeReady, NEW m \in Merges
  PROVE  Inserted(idx.order, MergedOrder(m), m.anchor, Len(m.msgs))
<1> DEFINE order == idx.order
           n     == Len(order)
           a     == m.anchor
           k     == Len(m.msgs)
           new   == [i \in DOMAIN m.msgs |-> Fresh(idx) + i - 1]
           pre   == SubSeq(order, 1, a)
           post  == SubSeq(order, a + 1, n)
<1>1. order \in Seq(TurnIds) /\ n \in Nat
  <2> DEFINE ix == idx
             L  == Held
  <2>1. ix = IndexOf(L, NoTurn) /\ WellFormed(L)
    BY DEF MergeReady
  <2> HIDE DEF ix, L
  <2>2. ix.order \in Seq(TurnIds) /\ Len(ix.order) \in Nat
    BY <2>1, IndexFacts
  <2>3. QED
    BY <2>2 DEF ix
<1>2. /\ a \in 0..n /\ k \in {0, 1} /\ n + k <= MaxTurns
      /\ m.msgs \in {<<>>, <<Fresh(idx)>>}
      /\ k = 1 => m.msgs = <<Fresh(idx)>>
      /\ k = 0 => m.msgs = <<>>
  BY MergeShape
<1>3. /\ new \in Seq(TurnIds) /\ Len(new) = k
      /\ k = 1 => new[1] = n + 1
  <2>1. CASE k = 0
    <3>1. new = <<>>
      BY <1>2, <2>1
    <3>2. QED
      BY <2>1, <3>1
  <2>2. CASE k = 1
    <3>1. m.msgs = <<Fresh(idx)>> /\ Fresh(idx) = n + 1
      BY <1>2, <2>2 DEF Fresh
    <3>2. new = <<n + 1>>
      BY <1>1, <3>1
    <3>3. n + 1 \in TurnIds
      BY <1>1, <1>2, <2>2, LogBoundsAssumption DEF TurnIds
    <3>4. QED
      BY <2>2, <3>2, <3>3
  <2>3. QED
    BY <1>2, <2>1, <2>2
<1>4. /\ pre \in Seq(TurnIds) /\ Len(pre) = a /\ \A i \in 1..a : pre[i] = order[i]
      /\ post \in Seq(TurnIds) /\ Len(post) = n - a
      /\ \A i \in 1..(n - a) : post[i] = order[a + i]
  <2>1. a \in Int /\ a + 1 \in Int /\ n \in Int /\ 1 \in Int
    BY <1>1, <1>2
  <2>2. (\A i \in 1..a : order[i] \in TurnIds) /\ (\A i \in (a + 1)..n : order[i] \in TurnIds)
    <3>1. 1..a \subseteq 1..n /\ (a + 1)..n \subseteq 1..n
      BY <1>1, <1>2
    <3>2. QED
      BY <1>1, <3>1, ElementOfSeq
  <2>3. /\ pre \in Seq(TurnIds) /\ Len(pre) = (IF 1 <= a THEN a - 1 + 1 ELSE 0)
        /\ \A i \in 1..(a - 1 + 1) : pre[i] = order[1 + i - 1]
    BY <2>1, <2>2, SubSeqProperties
  <2>4. /\ post \in Seq(TurnIds)
        /\ Len(post) = (IF a + 1 <= n THEN n - (a + 1) + 1 ELSE 0)
        /\ \A i \in 1..(n - (a + 1) + 1) : post[i] = order[(a + 1) + i - 1]
    BY <2>1, <2>2, SubSeqProperties
  <2>5. /\ (IF 1 <= a THEN a - 1 + 1 ELSE 0) = a /\ a - 1 + 1 = a
        /\ (IF a + 1 <= n THEN n - (a + 1) + 1 ELSE 0) = n - a /\ n - (a + 1) + 1 = n - a
        /\ \A i \in 1..a : 1 + i - 1 = i
        /\ \A i \in 1..(n - a) : (a + 1) + i - 1 = a + i
    BY <1>1, <1>2
  <2> HIDE DEF pre, post, n, a
  <2>6. QED
    BY <2>3, <2>4, <2>5
<1>5. MergedOrder(m) = (pre \o new) \o post
  BY DEF MergedOrder
<1> HIDE DEF pre, new, post, order, n, a, k
<1> DEFINE fore == pre \o new
           q    == fore \o post
<1>6. /\ fore \in Seq(TurnIds) /\ Len(fore) = a + k
      /\ \A i \in 1..a : fore[i] = order[i]
      /\ k = 1 => fore[a + 1] = n + 1
  <2>1. fore \in Seq(TurnIds) /\ Len(fore) = a + k
    BY <1>3, <1>4, ConcatProperties
  <2>2. \A i \in 1..(a + k) : fore[i] = IF i <= a THEN pre[i] ELSE new[i - a]
    BY <1>3, <1>4, ConcatProperties
  <2>3. (\A i \in 1..a : i \in 1..(a + k) /\ i <= a)
        /\ (k = 1 => a + 1 \in 1..(a + k) /\ ~(a + 1 <= a) /\ (a + 1) - a = 1)
    BY <1>1, <1>2
  <2> HIDE DEF fore
  <2>4. QED
    BY <1>3, <1>4, <2>1, <2>2, <2>3
<1> HIDE DEF fore
<1>7. /\ q \in Seq(TurnIds) /\ Len(q) = (a + k) + (n - a)
      /\ \A i \in 1..((a + k) + (n - a)) : q[i] = IF i <= a + k THEN fore[i] ELSE post[i - (a + k)]
  <2>1. /\ q \in Seq(TurnIds) /\ Len(q) = Len(fore) + Len(post)
        /\ \A i \in 1..(Len(fore) + Len(post)) :
              q[i] = IF i <= Len(fore) THEN fore[i] ELSE post[i - Len(fore)]
    BY <1>4, <1>6, ConcatProperties
  <2> HIDE DEF q
  <2>2. QED
    BY <1>4, <1>6, <2>1
<1> HIDE DEF q
<1>8. (a + k) + (n - a) = n + k
  BY <1>1, <1>2
<1>9. \A i \in 1..a : q[i] = order[i]
  <2>1. \A i \in 1..a : i \in 1..(n + k) /\ i <= a + k
    BY <1>1, <1>2
  <2>2. QED
    BY <1>6, <1>7, <1>8, <2>1
<1>10. k = 1 => q[a + 1] = n + 1
  <2>1. k = 1 => a + 1 \in 1..(n + k) /\ a + 1 <= a + k
    BY <1>1, <1>2
  <2>2. QED
    BY <1>6, <1>7, <1>8, <2>1
<1>11. ASSUME NEW i \in (a + 1)..n PROVE q[i + k] = order[i]
  <2>1. i + k \in 1..(n + k) /\ ~(i + k <= a + k) /\ (i + k) - (a + k) = i - a
        /\ i - a \in 1..(n - a) /\ a + (i - a) = i
    BY <1>1, <1>2
  <2>2. q[i + k] = post[i - a]
    BY <1>7, <1>8, <2>1
  <2>3. QED
    BY <1>4, <2>1, <2>2
<1>12. Inserted(order, q, a, k)
  BY <1>7, <1>8, <1>9, <1>10, <1>11 DEF Inserted, n
<1>13. QED
  BY <1>5, <1>12 DEF order, q, a, k, fore

\* The turn's own lines a merged turn is made of: a fresh one has its turn_open.
BaseOf(t) == IF t = Fresh(idx) THEN <<TurnOpenLine(t, "replay", 0, t)>> ELSE OfTurn(Held, t)

\* The lines a merge makes.
LEMMA CloserLines ==
  ASSUME NEW m, NEW t \in TurnIds
  PROVE  /\ CloserOf(m, t) \in Closers(t)
         /\ ReconciledLine(t, t) \in Closers(t) /\ ReconciledLine(t, Session) \in Closers(t)
         /\ <<>> \in Seq(Closers(t))
         /\ TurnOpenLine(t, "replay", 0, t) \in Lines
<1>1. CloserOf(m, t) \in Closers(t)
  BY DEF CloserOf, TurnCloseLine, Closers, Lines, Raws
<1>2. ReconciledLine(t, t) \in Closers(t) /\ ReconciledLine(t, Session) \in Closers(t)
  BY DEF ReconciledLine, Closers, Lines
<1>3. TurnOpenLine(t, "replay", 0, t) \in Lines
  BY DEF TurnOpenLine, Lines, Sources
<1>4. QED
  BY <1>1, <1>2, <1>3

\* A line is the same as itself.
LEMMA SameIsSame == \A l \in Lines : Same(l, l)
BY DEF Same

\* The lines a merged turn starts from are a turn's.
LEMMA BaseFits ==
  ASSUME MergeReady, NEW t, t \in ToSet(idx.order) \/ (t = Fresh(idx) /\ t \in TurnIds)
  PROVE  GroupFits(BaseOf(t), t) /\ t \in TurnIds
         /\ (t \in ToSet(idx.order) => BaseOf(t) = OfTurn(Held, t) /\ t \in Nat /\ t < Fresh(idx))
<1> DEFINE ix == idx
           L  == Held
<1>1. /\ ix.order = OrderOf(L) /\ ix.order \in Seq(TurnIds) /\ Len(ix.order) \in Nat
      /\ OrderFits(ix.order) /\ ToSet(ix.order) \subseteq TurnIds /\ WellFormed(L)
      /\ L \in Seq(Lines)
  <2>1. ix = IndexOf(L, NoTurn) /\ WellFormed(L)
    BY DEF MergeReady
  <2> HIDE DEF ix, L
  <2>2. QED
    BY <2>1, IndexFacts DEF WellFormed
<1>2. CASE t \in ToSet(idx.order)
  <2>1. t \in 1..Len(idx.order)
    BY <1>1, <1>2 DEF OrderFits
  <2>2. t \in Nat /\ t < Fresh(idx) /\ t # Fresh(idx)
    BY <1>1, <2>1 DEF Fresh
  <2>3. BaseOf(t) = OfTurn(L, t)
    BY <2>2 DEF BaseOf
  <2>4. OfTurn(L, t) \in Seq(Lines) /\ ToSet(OfTurn(L, t)) = {l \in ToSet(L) : l.turn = t}
        /\ OfTurn(L, t) # <<>> /\ TurnFits(OfTurn(L, t), t)
    BY <1>1, <1>2, OfTurnElements, TurnHasLines DEF WellFormed
  <2> DEFINE mine == OfTurn(L, t)
  <2>5. \A i \in 1..Len(mine) : mine[i].turn = t
    <3>1. DOMAIN mine = 1..Len(mine)
      BY <2>4, LenProperties
    <3>2. \A i \in DOMAIN mine : mine[i] \in ToSet(mine)
      BY DEF ToSet
    <3>3. QED
      BY <2>4, <3>1, <3>2
  <2>6. GroupFits(mine, t)
    BY <2>4, <2>5 DEF GroupFits
  <2>7. QED
    BY <1>1, <1>2, <2>2, <2>3, <2>6
<1>3. CASE t = Fresh(idx) /\ t \in TurnIds
  <2> DEFINE l    == TurnOpenLine(t, "replay", 0, t)
             mine == <<l>>
  <2>1. l \in Lines /\ l.kind = "turn_open" /\ l.turn = t /\ l.msg = t
    BY <1>3, CloserLines DEF TurnOpenLine
  <2>2. BaseOf(t) = mine
    BY <1>3 DEF BaseOf
  <2> HIDE DEF l
  <2>3. mine \in Seq(Lines) /\ mine # <<>> /\ Len(mine) = 1 /\ DOMAIN mine = {1} /\ mine[1] = l
    BY <2>1
  <2>4. TurnFits(mine, t)
    BY <2>1, <2>3 DEF TurnFits, HasKind
  <2>5. \A i \in 1..Len(mine) : mine[i].turn = t
    BY <2>1, <2>3
  <2>6. t \notin ToSet(idx.order)
    BY <1>1, <1>3 DEF OrderFits, Fresh
  <2>7. QED
    BY <1>3, <2>2, <2>3, <2>4, <2>5, <2>6 DEF GroupFits
<1>4. QED
  BY <1>2, <1>3

\* A merged turn is its own lines and closers.
LEMMA MergedTurnExtends ==
  ASSUME MergeReady, NEW m \in Merges, NEW t \in ToSet(MergedOrder(m))
  PROVE  /\ t \in ToSet(idx.order) \/ (t = Fresh(idx) /\ t \in TurnIds)
         /\ Extends(BaseOf(t), MergedTurn(m, t), t)
<1> DEFINE ix == idx
           L  == Held
<1>1. /\ ix.order \in Seq(TurnIds) /\ Len(ix.order) \in Nat /\ OrderFits(ix.order)
  <2>1. ix = IndexOf(L, NoTurn) /\ WellFormed(L)
    BY DEF MergeReady
  <2> HIDE DEF ix, L
  <2>2. QED
    BY <2>1, IndexFacts
<1>2. /\ m.anchor \in 0..Len(idx.order) /\ Len(m.msgs) \in {0, 1}
      /\ Len(m.msgs) = 1 => m.msgs = <<Fresh(idx)>>
  BY MergeShape
<1>3. /\ MergedOrder(m) \in Seq(TurnIds) /\ Len(MergedOrder(m)) = Len(idx.order) + Len(m.msgs)
      /\ ToSet(MergedOrder(m)) = 1..Len(MergedOrder(m))
  <2>1. Inserted(idx.order, MergedOrder(m), m.anchor, Len(m.msgs))
    BY MergeOrder
  <2>2. OrderFits(MergedOrder(m))
    BY <1>1, <1>2, <2>1, InsertedPlaces
  <2>3. QED
    BY <2>1, <2>2 DEF Inserted, OrderFits
<1>4. t \in TurnIds
  <2> DEFINE q == MergedOrder(m)
  <2>1. q \in Seq(TurnIds) /\ t \in ToSet(q)
    BY <1>3
  <2> HIDE DEF q
  <2>2. DOMAIN q = 1..Len(q) /\ \A i \in 1..Len(q) : q[i] \in TurnIds
    BY <2>1, LenProperties, ElementOfSeq
  <2>3. QED
    BY <2>1, <2>2 DEF ToSet
<1>5. t \in 1..(Len(idx.order) + Len(m.msgs))
  BY <1>3
<1>6. /\ t \in ToSet(idx.order) \/ (t = Fresh(idx) /\ t \in TurnIds /\ m.msgs = <<Fresh(idx)>>)
  <2>1. t \in 1..Len(idx.order) \/ (t = Len(idx.order) + 1 /\ Len(m.msgs) = 1)
    <3> DEFINE n == Len(idx.order)
               k == Len(m.msgs)
    <3>1. n \in Nat /\ k \in {0, 1} /\ t \in 1..(n + k)
      BY <1>1, <1>2, <1>5
    <3> HIDE DEF n, k
    <3>2. t \in 1..n \/ (t = n + 1 /\ k = 1)
      BY <3>1
    <3>3. QED
      BY <3>2 DEF n, k
  <2>2. QED
    BY <1>1, <1>2, <1>4, <2>1 DEF OrderFits, Fresh
<1>7. /\ GroupFits(BaseOf(t), t) /\ t \in Nat
      /\ (t \in ToSet(idx.order) => BaseOf(t) = OfTurn(Held, t) /\ t < Fresh(idx))
  BY <1>5, <1>6, BaseFits
<1>8. \A i \in 1..Len(BaseOf(t)) : BaseOf(t)[i] \in Lines
  BY <1>7, ElementOfSeq DEF GroupFits
<1>9. CASE t = Fresh(idx)
  <2>1. m.msgs[t - Fresh(idx) + 1] = t
    <3>1. t \notin ToSet(idx.order) /\ t - Fresh(idx) + 1 = 1
      BY <1>1, <1>7, <1>9 DEF Fresh, OrderFits
    <3>2. QED
      BY <1>6, <1>9, <3>1
  <2>2. MergedTurn(m, t) = <<TurnOpenLine(t, "replay", 0, t), CloserOf(m, t)>>
    <3>1. t >= Fresh(idx)
      BY <1>7, <1>9
    <3>2. QED
      BY <2>1, <3>1 DEF MergedTurn
  <2> DEFINE open  == TurnOpenLine(t, "replay", 0, t)
             close == CloserOf(m, t)
  <2>3. /\ open \in Lines /\ close \in Closers(t) /\ close \in Lines
    BY <1>4, CloserLines DEF Closers
  <2>4. BaseOf(t) = <<open>>
    BY <1>9 DEF BaseOf
  <2> HIDE DEF open, close
  <2>5. Same(open, open)
    BY <2>3, SameIsSame
  <2>6. <<open, close>> \in Seq(Lines) /\ Len(<<open, close>>) = 2 /\ Len(<<open>>) = 1
        /\ <<open, close>>[1] = open /\ <<open, close>>[2] = close /\ <<open>>[1] = open
    BY <2>3
  <2>7. Extends(<<open>>, <<open, close>>, t)
    BY <2>3, <2>5, <2>6 DEF Extends
  <2>8. QED
    BY <1>6, <2>2, <2>4, <2>7 DEF open, close
<1>10. CASE t # Fresh(idx)
  <2> DEFINE mine == OfTurn(Held, t)
             kept == [i \in DOMAIN mine |->
                        IF t \in m.settled /\ mine[i].kind = "turn_close"
                        THEN [mine[i] EXCEPT !.raw = "ended"] ELSE mine[i]]
             more == IF idx.rows[t].closed THEN <<>> ELSE <<CloserOf(m, t)>>
  <2>1. /\ BaseOf(t) = mine /\ ~(t >= Fresh(idx)) /\ mine \in Seq(Lines)
        /\ GroupFits(mine, t)
    <3>1. Fresh(idx) \in Nat
      BY <1>1 DEF Fresh
    <3>2. QED
      BY <1>6, <1>7, <1>10, <3>1 DEF GroupFits
  <2>2. MergedTurn(m, t) = IF t \notin Paired THEN mine ELSE kept \o more
    BY <2>1 DEF MergedTurn
  <2> HIDE DEF mine
  <2>3. /\ DOMAIN mine = 1..Len(mine) /\ Len(mine) \in Nat
        /\ \A i \in 1..Len(mine) : mine[i] \in Lines
    BY <2>1, LenProperties, ElementOfSeq
  <2>4. Extends(mine, mine, t)
    BY <2>1, <2>3, SameIsSame DEF Extends
  <2>5. \A i \in 1..Len(mine) : Same(kept[i], mine[i])
    <3>1. \A l \in Lines : l.kind = "turn_close" => Same([l EXCEPT !.raw = "ended"], l)
      BY DEF Same, Lines, Raws, KeyOf, BodyKinds
    <3>2. QED
      BY <2>3, <3>1, SameIsSame
  <2>6. kept \in Seq(Lines) /\ Len(kept) = Len(mine)
    <3>1. \A i \in 1..Len(mine) : kept[i] \in Lines
      BY <2>5 DEF Same
    <3>2. kept \in [1..Len(mine) -> Lines]
      BY <2>3, <3>1
    <3> HIDE DEF kept
    <3>3. kept \in Seq(Lines) /\ DOMAIN kept = 1..Len(mine)
      BY <2>3, <3>2, SeqDef
    <3>4. QED
      BY <2>3, <3>3, LenProperties
  <2> HIDE DEF kept
  <2>7. Extends(mine, kept, t)
    BY <2>1, <2>4, <2>5, <2>6, ExtendsRewrite
  <2>8. more \in Seq(Closers(t))
    BY <1>4, CloserLines
  <2> HIDE DEF more
  <2>9. Extends(mine, kept \o more, t)
    BY <2>1, <2>7, <2>8, ExtendsConcat
  <2>10. QED
    BY <1>6, <2>1, <2>2, <2>4, <2>9
<1>11. QED
  BY <1>9, <1>10

\* The groups Rewrite is given.
GroupsOf(m) ==
    [t \in ToSet(MergedOrder(m)) |-> Renumbered(m, t, MergedTurn(m, t) \o Verdict(m, t))]

\* Each group is its turn's own lines, renumbered, with closers behind them.
LEMMA GroupsFit ==
  ASSUME MergeReady, NEW m \in Merges, NEW t \in ToSet(MergedOrder(m))
  PROVE  /\ Extends(BaseOf(t), GroupsOf(m)[t], t)
         /\ GroupFits(BaseOf(t), t) /\ GroupFits(GroupsOf(m)[t], t)
<1> DEFINE turn == MergedTurn(m, t)
           all  == turn \o Verdict(m, t)
           next == Renumbered(m, t, all)
<1>1. /\ t \in ToSet(idx.order) \/ (t = Fresh(idx) /\ t \in TurnIds)
      /\ Extends(BaseOf(t), turn, t)
  BY MergedTurnExtends
<1>2. GroupFits(BaseOf(t), t) /\ BaseOf(t) \in Seq(Lines) /\ t \in TurnIds
  BY <1>1, BaseFits DEF GroupFits
<1>3. Verdict(m, t) \in Seq(Closers(t))
  <2> DEFINE X == IF (\E i \in DOMAIN turn : turn[i].kind = "turn_close" /\ turn[i].raw = "unterminated")
                       /\ Kept(t) /\ t \notin idx.cleared THEN <<ReconciledLine(t, t)>> ELSE <<>>
             Y == IF Unadopted(idx) /\ OrdinalOf(m, t) = Len(MergedKept(m)) /\ Kept(t)
                  THEN <<ReconciledLine(t, Session)>> ELSE <<>>
  <2>1. Verdict(m, t) = X \o Y
    BY DEF Verdict
  <2>2. X \in Seq(Closers(t)) /\ Y \in Seq(Closers(t))
    <3>1. <<ReconciledLine(t, t)>> \in Seq(Closers(t)) /\ <<ReconciledLine(t, Session)>> \in Seq(Closers(t))
          /\ <<>> \in Seq(Closers(t))
      BY <1>2, CloserLines
    <3>2. QED
      BY <3>1
  <2> HIDE DEF X, Y
  <2>3. QED
    BY <2>1, <2>2, ConcatProperties
<1>4. Extends(BaseOf(t), all, t)
  BY <1>1, <1>2, <1>3, ExtendsConcat
<1> HIDE DEF turn, all
<1>5. OrdinalOf(m, t) \in Nat
  <2>1. MergedOrder(m) \in Seq(TurnIds)
    BY MergeOrder DEF Inserted
  <2>2. MergedKept(m) \in Seq(TurnIds)
    BY <2>1, PickElements DEF MergedKept
  <2>3. QED
    BY <2>2, PlaceIsNat DEF OrdinalOf
<1>6. /\ all \in Seq(Lines) /\ DOMAIN all = 1..Len(all) /\ Len(all) \in Nat
      /\ \A i \in 1..Len(all) : all[i] \in Lines
  <2>1. all \in Seq(Lines)
    BY <1>4 DEF Extends
  <2>2. QED
    BY <2>1, LenProperties, ElementOfSeq
<1>7. \A i \in 1..Len(all) : Same(next[i], all[i])
  <2>1. \A l \in Lines, s \in Nat : Same([l EXCEPT !.seq = s], l)
    BY DEF Same, Lines, KeyOf, BodyKinds
  <2>2. \A l \in Lines, s, n \in Nat :
            l.kind = "turn_open" => Same([l EXCEPT !.seq = s, !.n = n], l)
    <3> SUFFICES ASSUME NEW l \in Lines, NEW s \in Nat, NEW n \in Nat, l.kind = "turn_open"
                 PROVE  Same([l EXCEPT !.seq = s, !.n = n], l)
      OBVIOUS
    <3> DEFINE new == [l EXCEPT !.seq = s, !.n = n]
    <3>1. l \in [kind : {"turn_open"}, turn : TurnIds, seq : Nat, source : Sources, n : Nat,
                 msg : TurnIds]
      BY DEF Lines, BodyKinds
    <3>2. /\ new \in [kind : {"turn_open"}, turn : TurnIds, seq : Nat, source : Sources, n : Nat,
                      msg : TurnIds]
          /\ new.kind = "turn_open" /\ new.turn = l.turn
          /\ new.msg = l.msg /\ new.source = l.source
      BY <3>1
    <3> HIDE DEF new
    <3>3. new \in Lines
      BY <3>2 DEF Lines
    <3>4. KeyOf(new) = KeyOf(l)
      BY <3>2 DEF KeyOf
    <3>5. QED
      BY <3>2, <3>3, <3>4 DEF Same, new
  <2>3. \A i \in 1..Len(all) : i - 1 \in Nat
    BY <1>6
  <2>4. \A i \in 1..Len(all) :
            next[i] = IF all[i].kind = "turn_open" /\ Kept(t)
                      THEN [all[i] EXCEPT !.seq = i - 1, !.n = OrdinalOf(m, t)]
                      ELSE [all[i] EXCEPT !.seq = i - 1]
    BY <1>6 DEF Renumbered
  <2> HIDE DEF next
  <2>5. ASSUME NEW i \in 1..Len(all) PROVE Same(next[i], all[i])
    <3> DEFINE l == all[i]
               s == i - 1
               n == OrdinalOf(m, t)
    <3>1. l \in Lines /\ s \in Nat /\ n \in Nat
      BY <1>5, <1>6, <2>3
    <3>2. next[i] = IF l.kind = "turn_open" /\ Kept(t)
                    THEN [l EXCEPT !.seq = s, !.n = n] ELSE [l EXCEPT !.seq = s]
      BY <2>4
    <3> HIDE DEF l, s, n
    <3>3. Same([l EXCEPT !.seq = s], l)
      BY <2>1, <3>1
    <3>4. l.kind = "turn_open" => Same([l EXCEPT !.seq = s, !.n = n], l)
      BY <2>2, <3>1
    <3>5. Same(next[i], l)
      BY <3>2, <3>3, <3>4
    <3>6. QED
      BY <3>5 DEF l
  <2>6. QED
    BY <2>5
<1>8. next \in Seq(Lines) /\ Len(next) = Len(all)
  <2>1. \A i \in 1..Len(all) : next[i] \in Lines
    BY <1>7 DEF Same
  <2>2. next \in [1..Len(all) -> Lines]
    BY <1>6, <2>1 DEF Renumbered
  <2> HIDE DEF next
  <2>3. next \in Seq(Lines) /\ DOMAIN next = 1..Len(all)
    BY <1>6, <2>2, SeqDef
  <2>4. QED
    BY <1>6, <2>3, LenProperties
<1> HIDE DEF next
<1>9. Extends(BaseOf(t), next, t)
  BY <1>2, <1>4, <1>7, <1>8, ExtendsRewrite
<1>10. GroupFits(next, t)
  BY <1>2, <1>9, ExtendsFits
<1>11. GroupsOf(m)[t] = next
  BY DEF GroupsOf, next, all, turn
<1>12. QED
  BY <1>2, <1>9, <1>10, <1>11

\* The merged file: well formed, with the entries, the turns and the carriers it had, and
\* hiding neither more nor less.
LEMMA MergedIs ==
  ASSUME MergeReady, NEW m \in Merges
  PROVE  /\ WellFormed(Merged(m))
         /\ {KeyOf(l) : l \in ToSet(Held)} \subseteq {KeyOf(l) : l \in ToSet(Merged(m))}
         /\ \A t : Hides(Held, t) <=> Hides(Merged(m), t)
         /\ Carriers(Held) \subseteq Carriers(Merged(m))
         /\ ToSet(idx.order) \subseteq ToSet(OrderOf(Merged(m)))
<1> DEFINE ix == idx
           L  == Held
           M  == Merged(m)
           q  == MergedOrder(m)
           g  == GroupsOf(m)
           order == idx.order
           a == m.anchor
           k == Len(m.msgs)
<1>1. /\ ix.order = OrderOf(L) /\ ix.order \in Seq(TurnIds) /\ OrderFits(ix.order) /\ WellFormed(L)
  <2>1. ix = IndexOf(L, NoTurn) /\ WellFormed(L)
    BY DEF MergeReady
  <2> HIDE DEF ix, L
  <2>2. QED
    BY <2>1, IndexFacts
<1>2. /\ a \in 0..Len(order) /\ k \in {0, 1} /\ Inserted(order, q, a, k)
  BY MergeShape, MergeOrder
<1>3. /\ q \in Seq(TurnIds) /\ OrderFits(q) /\ ToSet(order) \subseteq ToSet(q)
  <2>1. order \in Seq(TurnIds) /\ OrderFits(order)
    BY <1>1
  <2> HIDE DEF order, q, a, k
  <2>2. q \in Seq(TurnIds)
    BY <1>2 DEF Inserted
  <2>3. OrderFits(q) /\ ToSet(order) \subseteq ToSet(q)
    BY <1>2, <2>1, InsertedPlaces
  <2>4. QED
    BY <2>2, <2>3
<1>4. \A t \in ToSet(q) : /\ Extends(BaseOf(t), g[t], t)
                          /\ GroupFits(BaseOf(t), t) /\ GroupFits(g[t], t)
                          /\ t \in ToSet(order) \/ t = Fresh(idx)
                          /\ t \in ToSet(order) => BaseOf(t) = OfTurn(L, t)
                          /\ t \notin ToSet(order) => BaseOf(t) = <<TurnOpenLine(t, "replay", 0, t)>>
  BY GroupsFit, MergedTurnExtends, BaseFits DEF BaseOf
<1>5. Grouped(M, g, q)
  <2>1. M = FlattenSeq([i \in DOMAIN q |-> g[q[i]]])
    <3>1. \A i \in DOMAIN q : q[i] \in ToSet(q)
      BY DEF ToSet
    <3>2. [i \in DOMAIN q |-> Renumbered(m, q[i], MergedTurn(m, q[i]) \o Verdict(m, q[i]))]
            = [i \in DOMAIN q |-> g[q[i]]]
      BY <3>1 DEF GroupsOf
    <3> HIDE DEF q, g
    <3>3. QED
      BY <3>2 DEF Merged, q
  <2> HIDE DEF M, q, g
  <2> DEFINE S == ToSet(q)
  <2>2. q \in Seq(S)
    <3>1. DOMAIN q = 1..Len(q) /\ Len(q) \in Nat
      BY <1>3, LenProperties
    <3>2. q \in [1..Len(q) -> S]
      <4>1. \A i \in 1..Len(q) : q[i] \in S
        BY <3>1 DEF ToSet
      <4>2. q = [i \in 1..Len(q) |-> q[i]]
        BY <1>3
      <4> HIDE DEF S
      <4>3. QED
        BY <4>1, <4>2
    <3> HIDE DEF S
    <3>3. QED
      BY <3>1, <3>2, SeqDef
  <2>3. \A t \in S : GroupFits(g[t], t)
    BY <1>4
  <2> HIDE DEF S
  <2>4. Grouped(FlattenSeq([i \in DOMAIN q |-> g[q[i]]]), g, q)
    BY <1>3, <2>2, <2>3, FlattenGroups DEF OrderFits
  <2>5. QED
    BY <2>1, <2>4
<1> HIDE DEF ix, L, M, q, g, order, a, k
<1>6. order = ix.order
  BY DEF ix, order
<1>7. /\ M \in Seq(Lines) /\ OrderOf(M) = q
      /\ ToSet(M) = UNION {ToSet(g[t]) : t \in ToSet(q)}
      /\ \A t \in ToSet(q) : OfTurn(M, t) = g[t]
  BY <1>5 DEF Grouped
<1>8. ASSUME NEW l \in ToSet(M) PROVE l.turn \in ToSet(q)
  <2>1. PICK t \in ToSet(q) : l \in ToSet(g[t])
    BY <1>7
  <2>2. DOMAIN g[t] = 1..Len(g[t]) /\ \A i \in 1..Len(g[t]) : g[t][i].turn = t
    BY <1>4, LenProperties DEF GroupFits
  <2>3. l.turn = t
    BY <2>1, <2>2 DEF ToSet
  <2>4. QED
    BY <2>3
<1>9. \A t \in ToSet(q) : TurnFits(OfTurn(M, t), t)
  BY <1>4, <1>7 DEF GroupFits
<1>10. ASSUME NEW was \in ToSet(L) PROVE was.turn \in ToSet(order) /\ \E l \in ToSet(M) : Same(l, was)
  <2> DEFINE t == was.turn
  <2>1. t \in ToSet(order)
    BY <1>1, <1>6 DEF WellFormed
  <2>2. was \in ToSet(OfTurn(L, t))
    <3>1. ToSet(OfTurn(L, t)) = {l \in ToSet(L) : l.turn = t}
      BY <1>1, OfTurnElements DEF WellFormed
    <3>2. QED
      BY <3>1
  <2>3. BaseOf(t) = OfTurn(L, t) /\ t \in ToSet(q) /\ Extends(BaseOf(t), g[t], t) /\ GroupFits(BaseOf(t), t)
    BY <1>3, <1>4, <2>1
  <2> HIDE DEF t
  <2>4. PICK l \in ToSet(g[t]) : Same(l, was)
    BY <2>2, <2>3, ExtendsLines
  <2>5. l \in ToSet(M)
    BY <1>7, <2>3
  <2>6. QED
    BY <2>1, <2>4, <2>5 DEF t
<1>11. \A r \in Records(L) : r.turn \in ToSet(order) /\ RecordFits(order, r)
  BY <1>1, <1>6, <1>10 DEF WellFormed, Records
<1>12. \A r \in Records(L) :
          /\ RecordFits(q, r)
          /\ \A t : InWindow(order, r, t) => InWindow(q, r, t)
          /\ \A t \in ToSet(order) : InWindow(q, r, t) => InWindow(order, r, t)
          /\ \A t : InWindow(q, r, t) /\ t \notin ToSet(order) =>
                a \in 1..Len(order) /\ InWindow(order, r, order[a])
  BY <1>1, <1>2, <1>6, <1>11, InsertedWindows
<1>13. ASSUME NEW l \in Records(M)
       PROVE  /\ RecordFits(q, l)
              /\ \E r \in Records(L) : r.from = l.from /\ r.through = l.through /\ r.turn = l.turn
  <2>1. l \in ToSet(M) /\ l.kind = "turn_revert"
    BY DEF Records
  <2>2. PICK t \in ToSet(q) : l \in ToSet(g[t])
    BY <1>7, <2>1
  <2>3. PICK was \in ToSet(BaseOf(t)) : Same(l, was)
    BY <1>4, <2>1, <2>2, ExtendsLines
  <2>4. was.kind = "turn_revert" /\ was.from = l.from /\ was.through = l.through /\ was.turn = l.turn
    BY <2>1, <2>3 DEF Same
  <2>5. t \in ToSet(order)
    <3>1. SUFFICES ASSUME t \notin ToSet(order) PROVE FALSE
      OBVIOUS
    <3>2. BaseOf(t) = <<TurnOpenLine(t, "replay", 0, t)>>
      BY <1>4, <3>1
    <3>3. was = TurnOpenLine(t, "replay", 0, t)
      BY <3>2 DEF ToSet
    <3>4. QED
      BY <2>4, <3>3 DEF TurnOpenLine
  <2>6. was \in Records(L)
    <3>1. ToSet(OfTurn(L, t)) = {x \in ToSet(L) : x.turn = t}
      BY <1>1, OfTurnElements DEF WellFormed
    <3>2. QED
      BY <1>4, <2>3, <2>4, <2>5, <3>1 DEF Records
  <2>7. RecordFits(q, was)
    BY <1>12, <2>6
  <2>8. QED
    BY <2>4, <2>6, <2>7 DEF RecordFits
<1>14. WellFormed(M)
  BY <1>3, <1>7, <1>8, <1>9, <1>13 DEF WellFormed
<1>15. {KeyOf(l) : l \in ToSet(L)} \subseteq {KeyOf(l) : l \in ToSet(M)}
  BY <1>10 DEF Same
<1>16. ASSUME NEW t, Hides(L, t) PROVE Hides(M, t)
  <2>1. PICK r \in Records(L) : InWindow(order, r, t)
    BY <1>1, <1>6, <1>16 DEF Hides
  <2>2. InWindow(q, r, t)
    BY <1>12, <2>1
  <2>3. PICK l \in ToSet(M) : Same(l, r)
    BY <1>10 DEF Records
  <2>4. l.kind = "turn_revert" /\ r.from = l.from /\ r.through = l.through /\ r.turn = l.turn
    BY <2>3 DEF Same, Records
  <2>5. l \in Records(M) /\ InWindow(q, l, t)
    BY <2>2, <2>3, <2>4 DEF Records, InWindow
  <2>6. QED
    BY <1>7, <2>5 DEF Hides
<1>17. ASSUME NEW t, Hides(M, t) PROVE Hides(L, t)
  <2>1. PICK l \in Records(M) : InWindow(q, l, t)
    BY <1>7, <1>17 DEF Hides
  <2>2. PICK r \in Records(L) : r.from = l.from /\ r.through = l.through /\ r.turn = l.turn
    BY <1>13
  <2>3. InWindow(q, r, t)
    BY <2>1, <2>2 DEF InWindow
  <2>4. CASE t \in ToSet(order)
    <3>1. InWindow(order, r, t)
      BY <1>12, <2>3, <2>4
    <3>2. QED
      BY <1>1, <1>6, <3>1 DEF Hides
  <2>5. CASE t \notin ToSet(order)
    <3>1. a \in 1..Len(order) /\ InWindow(order, r, order[a])
      BY <1>12, <2>3, <2>5
    <3>2. Hides(L, order[a])
      BY <1>1, <1>6, <3>1 DEF Hides
    <3>3. a # 0
      BY <3>1
    <3>4. order[a] \in SurvivingTurns(ix)
      BY <3>3, MergeShape DEF order, a, ix
    <3>5. order[a] \in TurnIds /\ ~ix.rows[order[a]].reverted
      BY <1>1, <1>6, <3>1, <3>4, SurvivingIs, ElementOfSeq
    <3> DEFINE u == order[a]
    <3> HIDE DEF u
    <3>6. u \in TurnIds => (ix.rows[u].reverted <=>
               Hides(L, u) \/ (u # NoTurn /\ IncompleteCarrier(ix.rows[u])))
      <4>1. WellFormed(L) /\ ix = IndexOf(L, NoTurn)
        BY DEF MergeReady, ix, L
      <4>2. QED
        BY <4>1, IndexFacts
    <3>7. QED
      BY <3>2, <3>5, <3>6 DEF u
  <2>6. QED
    BY <2>4, <2>5
<1>18. Carriers(L) \subseteq Carriers(M)
  <2> SUFFICES ASSUME NEW was \in ToSet(L), was.kind = "turn_open", was.source = "revert"
               PROVE  was.turn \in Carriers(M)
    BY DEF Carriers
  <2>1. PICK l \in ToSet(M) : Same(l, was)
    BY <1>10
  <2>2. l.kind = "turn_open" /\ l.source = "revert" /\ l.turn = was.turn
    BY <2>1 DEF Same
  <2>3. QED
    BY <2>2 DEF Carriers
<1>19. QED
  BY <1>3, <1>7, <1>14, <1>15, <1>16, <1>17, <1>18 DEF L, M, order

----------------------------------------------------------------------------
\* The invariant.

\* What the history promises of the lines L: the acknowledged entries are among them,
\* every prompt a recorded rewind took is hidden, and none but those a rewind asked for.
Keeps(L, a, h, k) ==
    /\ a \subseteq {KeyOf(l) : l \in ToSet(L)}
    /\ \A t \in h : Hides(L, t)
    /\ \A t : Hides(L, t) => t \in k \cup Carriers(L)

\* The lines the recovery still appends close every turn a reader would see open.
Recovers(ix, lines) ==
    /\ lines # <<>>
    /\ \A i \in 1..Len(lines) : lines[i].kind \in {"tool_result", "turn_close"}
    /\ \A t \in SurvivingTurns(ix) :
          \/ ix.rows[t].closed
          \/ \E i \in 1..Len(lines) : lines[i].turn = t /\ lines[i].kind = "turn_close"

\* A projection p whose snapshot still stands is about turns that survive.
ProjFits(p, ix, lines) ==
    p.open =>
       /\ p.turns \subseteq ToSet(ix.order)
       /\ MintedIn(lines) \notin p.turns
       /\ p.snapshot # NoTurn => p.snapshot \in ToSet(ix.order) /\ ix.rows[p.snapshot].reverted
       /\ ix.newest = p.snapshot => p.turns \subseteq SurvivingTurns(ix)

DiskInv ==
    /\ WellFormed(Readable(disk))
    /\ disk \in {Readable(disk), Append(Readable(disk), TornLine)}
    /\ Keeps(Readable(disk), acked, hidden, asked)

MemoryInv ==
    status # "down" =>
        /\ idx.size \in 0..Len(Readable(disk))
        /\ WellFormed(Held)
        /\ Keeps(Held, acked, hidden, asked)
        /\ idx = IndexOf(Held, MintedIn(todo))
        /\ ~failed => disk = Held
        /\ live \subseteq ToSet(idx.order)

TodoInv ==
    /\ todo # <<>> => Fits(idx, todo) /\ todo[1].kind # "turn_open"
    /\ status = "down" => idx = EmptyIndex /\ todo = <<>>
    /\ status # "up" => ~failed /\ live = {} /\ rewind = NoRewind /\ proj = NoProjection
    /\ status = "recovering" => Recovers(idx, todo)

IInv ==
    /\ status \in {"down", "recovering", "up"} /\ failed \in BOOLEAN
    /\ DiskInv
    /\ MemoryInv
    /\ TodoInv
    /\ ProjFits(proj, idx, todo)

----------------------------------------------------------------------------
\* What a rewind's record takes, of any index (Takes).
TakenOf(ix, l) ==
    IF l.kind # "turn_revert" THEN {}
    ELSE {ix.rows[t].msg : t \in {u \in SurvivingTurns(ix) :
            Pos(ix.order, u) \in Pos(ix.order, l.from) .. Pos(ix.order, l.through)}}

\* An appended line keeps what the log keeps, and its record hides what it takes: of the
\* turns in its window, one that was hidden already was asked for, or is a carrier.
LEMMA KeepsAppend ==
  ASSUME NEW L, WellFormed(L), NEW c, NEW ix, ix = IndexOf(L, c), NEW s, LineJoins(L, s),
         NEW a, NEW h, NEW k, Keeps(L, a, h, k)
  PROVE  /\ Keeps(Append(L, s), a, h, k \cup TakenOf(ix, s))
         /\ Keeps(Append(L, s), a \cup {KeyOf(s)}, h \cup TakenOf(ix, s), k \cup TakenOf(ix, s))
<1> DEFINE M == Append(L, s)
<1>1. /\ ix.order = OrderOf(L) /\ ix.order \in Seq(TurnIds) /\ OrderFits(ix.order)
      /\ ToSet(ix.order) \subseteq TurnIds
      /\ \A t \in ToSet(ix.order) : ix.rows[t].msg = t
  BY IndexFacts
<1>2. ToSet(M) = ToSet(L) \cup {s}
  BY ToSetAppend DEF WellFormed, LineJoins
<1>3. \A t : Hides(M, t) <=>
             Hides(L, t) \/ (s.kind = "turn_revert" /\ InWindow(OrderOf(L), s, t))
  BY HidesAppend
<1> HIDE DEF M
<1>4. ASSUME NEW t \in TakenOf(ix, s) PROVE Hides(M, t)
  <2>1. s.kind = "turn_revert"
    BY <1>4 DEF TakenOf
  <2>2. SurvivingTurns(ix) \subseteq ToSet(ix.order)
    BY <1>1, SurvivingIs
  <2>3. /\ t \in ToSet(ix.order)
        /\ Pos(ix.order, t) \in Pos(ix.order, s.from) .. Pos(ix.order, s.through)
    BY <1>1, <1>4, <2>1, <2>2 DEF TakenOf
  <2>4. RecordFits(ix.order, s)
    BY <1>1, <2>1 DEF LineJoins
  <2>5. \A x : Pos(ix.order, x) \in Nat /\ (Pos(ix.order, x) > 0 <=> x \in ToSet(ix.order))
    BY <1>1, PosIsNat DEF OrderFits
  <2>6. t # s.turn
    BY <2>3, <2>4 DEF RecordFits
  <2>7. InWindow(ix.order, s, t)
    BY <2>3, <2>4, <2>5, <2>6 DEF InWindow, RecordFits
  <2>8. QED
    BY <1>1, <1>3, <2>1, <2>7
<1>5. Carriers(L) \subseteq Carriers(M)
  BY <1>2 DEF Carriers
<1>6. ASSUME NEW t, Hides(M, t) PROVE t \in (k \cup TakenOf(ix, s)) \cup Carriers(M)
  <2>1. CASE Hides(L, t)
    BY <1>5, <2>1 DEF Keeps
  <2>2. CASE ~Hides(L, t)
    <3>1. s.kind = "turn_revert" /\ InWindow(ix.order, s, t)
      BY <1>1, <1>3, <1>6, <2>2
    <3>2. \A x : Pos(ix.order, x) \in Nat /\ (Pos(ix.order, x) > 0 <=> x \in ToSet(ix.order))
      BY <1>1, PosIsNat DEF OrderFits
    <3>3. /\ t \in ToSet(ix.order) /\ t \in TurnIds
          /\ Pos(ix.order, t) \in Pos(ix.order, s.from) .. Pos(ix.order, s.through)
      BY <1>1, <3>1, <3>2 DEF InWindow
    <3>4. CASE ix.rows[t].reverted
      <4>1. ix.rows[t].source = "revert"
        <5>1. ix.rows[t].reverted <=> Hides(L, t) \/ (t # c /\ IncompleteCarrier(ix.rows[t]))
          BY <3>3, IndexFacts
        <5>2. QED
          BY <2>2, <3>4, <5>1 DEF IncompleteCarrier
      <4>2. RowOf(L, t).source = "revert"
        <5>1. ix.rows[t] = [RowOf(L, t) EXCEPT !.reverted = ix.rows[t].reverted]
          BY <3>3, IndexFacts
        <5>2. RowOf(L, t) \in Rows
          BY <3>3, RowTypes
        <5>3. QED
          BY <4>1, <5>1, <5>2 DEF Rows
      <4>3. QED
        BY <1>1, <1>5, <3>3, <4>2, CarriersAre
    <3>5. CASE ~ix.rows[t].reverted
      <4>1. t \in SurvivingTurns(ix) /\ ix.rows[t].msg = t
        BY <1>1, <3>3, <3>5, SurvivingIs
      <4>2. QED
        BY <3>1, <3>3, <4>1 DEF TakenOf
    <3>6. QED
      BY <3>4, <3>5
  <2>3. QED
    BY <2>1, <2>2
<1>7. QED
  BY <1>2, <1>3, <1>4, <1>6 DEF Keeps, M

\* The recovery goes on from the line written.
LEMMA RecoveryGoesOn ==
  ASSUME NEW L, WellFormed(L), NEW lines, NEW ix, ix = IndexOf(L, MintedIn(lines)),
         Fits(ix, lines), Recovers(ix, lines), NEW s, s = StampedBy(ix, Head(lines))
  PROVE  LET next == Observe(ix, s)
             tail == Tail(lines)
         IN  /\ tail # <<>> => Recovers(next, tail)
             /\ tail = <<>> => \A t \in SurvivingTurns(next) : next.rows[t].closed
<1> DEFINE next == Observe(ix, s)
           tail == Tail(lines)
<1>1. /\ s \in Lines /\ s.kind = Head(lines).kind /\ s.turn = Head(lines).turn
      /\ next.order = IF s.kind = "turn_open" THEN Append(ix.order, s.turn) ELSE ix.order
  <2>1. WriteEffect(L, ix, lines, s, next, tail)
    BY WrittenIndex
  <2> HIDE DEF next, tail
  <2>2. QED
    BY <2>1 DEF WriteEffect
<1>2. /\ lines \in Seq(Lines) /\ lines # <<>>
  BY DEF Fits
<1>3. /\ Head(lines) = lines[1] /\ Len(lines) \in Nat /\ Len(lines) > 0
      /\ Len(tail) = Len(lines) - 1
      /\ \A i \in 1..Len(tail) : tail[i] = lines[i + 1] /\ i + 1 \in 2..Len(lines)
      /\ tail = <<>> => Len(lines) = 1
  BY <1>2, HeadAndTail
<1>4. s.kind \in {"tool_result", "turn_close"}
  BY <1>1, <1>3 DEF Recovers
<1>5. /\ ix.order \in Seq(TurnIds) /\ ToSet(ix.order) \subseteq TurnIds
      /\ ix.rows \in [TurnIds -> Rows]
  BY IndexFacts
<1>6. next.order = ix.order
  BY <1>1, <1>4
<1>7. ASSUME NEW t \in TurnIds PROVE RowEffect(ix.rows[t], next.rows[t], ix.order, s, t)
  BY <1>1, <1>5, ObserveRows
<1> HIDE DEF next, tail
<1>8. ASSUME NEW t \in SurvivingTurns(next)
      PROVE  /\ t \in SurvivingTurns(ix) /\ t \in TurnIds
             /\ next.rows[t].closed <=>
                   ix.rows[t].closed \/ (s.kind = "turn_close" /\ t = s.turn)
  <2>1. t \in ToSet(ix.order) /\ ~next.rows[t].reverted
    BY <1>5, <1>6, SurvivingIs
  <2>2. t \in TurnIds
    BY <1>5, <2>1
  <2>3. RowEffect(ix.rows[t], next.rows[t], ix.order, s, t)
    BY <1>7, <2>2
  <2>4. ~ix.rows[t].reverted /\ (next.rows[t].closed <=>
             ix.rows[t].closed \/ (s.kind = "turn_close" /\ t = s.turn))
    BY <1>4, <2>1, <2>3 DEF RowEffect
  <2>5. QED
    BY <1>5, <2>1, <2>2, <2>4, SurvivingIs
<1>9. ASSUME NEW t \in SurvivingTurns(next), ~next.rows[t].closed
      PROVE  \E i \in 1..Len(tail) : tail[i].turn = t /\ tail[i].kind = "turn_close"
  <2>1. t \in SurvivingTurns(ix) /\ ~ix.rows[t].closed /\ ~(s.kind = "turn_close" /\ t = s.turn)
    BY <1>8, <1>9
  <2>2. PICK i \in 1..Len(lines) : lines[i].turn = t /\ lines[i].kind = "turn_close"
    BY <2>1 DEF Recovers
  <2>3. i # 1
    BY <1>1, <1>3, <2>1, <2>2
  <2>4. i - 1 \in 1..Len(tail) /\ (i - 1) + 1 = i
    BY <1>3, <2>2, <2>3
  <2>5. tail[i - 1] = lines[i]
    BY <1>3, <2>4
  <2>6. QED
    BY <2>2, <2>4, <2>5
<1>10. ASSUME tail = <<>>, NEW t \in SurvivingTurns(next) PROVE next.rows[t].closed
  <2>1. Len(tail) = 0
    BY <1>3, <1>10
  <2>2. 1..Len(tail) = {}
    BY <2>1
  <2>3. QED
    BY <1>9, <2>2
<1>11. ASSUME NEW i \in 1..Len(tail) PROVE tail[i].kind \in {"tool_result", "turn_close"}
  <2>1. i + 1 \in 1..Len(lines)
    BY <1>3
  <2>2. QED
    BY <1>3, <2>1 DEF Recovers
<1>12. QED
  BY <1>9, <1>10, <1>11 DEF Recovers, next, tail

\* The projection still fits, once the line is written.
LEMMA ProjectionGoesOn ==
  ASSUME NEW L, WellFormed(L), NEW lines, NEW ix, ix = IndexOf(L, MintedIn(lines)),
         Fits(ix, lines), NEW p, ProjFits(p, ix, <<>>),
         Len(lines) > 1 /\ p.open => MintedIn(lines) \notin p.turns,
         NEW s, s = StampedBy(ix, Head(lines))
  PROVE  ProjFits(p, Observe(ix, s), Tail(lines))
<1> DEFINE next == Observe(ix, s)
           tail == Tail(lines)
<1> SUFFICES ASSUME p.open PROVE ProjFits(p, next, tail)
  BY DEF ProjFits
<1>1. /\ s \in Lines /\ LineJoins(L, s)
      /\ s.kind = Head(lines).kind /\ s.turn = Head(lines).turn
      /\ ToSet(next.order) = ToSet(ix.order) \cup {s.turn}
      /\ tail # <<>> => MintedIn(tail) = MintedIn(lines)
      /\ next.order = IF s.kind = "turn_open" THEN Append(ix.order, s.turn) ELSE ix.order
  <2>1. WriteEffect(L, ix, lines, s, next, tail)
    BY WrittenIndex
  <2> HIDE DEF next, tail
  <2>2. QED
    BY <2>1 DEF WriteEffect
<1>2. lines \in Seq(Lines) /\ lines # <<>> /\ LineFits(ix, lines, 1)
  BY LenProperties, EmptySeq DEF Fits
<1>3. /\ Head(lines) = lines[1]
      /\ tail # <<>> => Len(lines) > 1
  BY <1>2, HeadAndTail
<1>4. /\ ix.order = OrderOf(L)
      /\ ix.order \in Seq(TurnIds) /\ ToSet(ix.order) \subseteq TurnIds /\ OrderFits(ix.order)
      /\ ix.rows \in [TurnIds -> Rows] /\ Len(ix.order) \in Nat
  BY IndexFacts
<1>5. ASSUME NEW t \in TurnIds PROVE RowEffect(ix.rows[t], next.rows[t], ix.order, s, t)
  BY <1>1, <1>4, ObserveRows
<1>6. next.newest = IF s.kind = "turn_revert" THEN s.from ELSE ix.newest
  BY DEF Observe
<1>7. next.order \in Seq(TurnIds)
  <2>1. s.turn \in TurnIds
    BY <1>1, LineFields
  <2>2. Append(ix.order, s.turn) \in Seq(TurnIds)
    BY <1>4, <2>1, AppendProperties
  <2>3. QED
    BY <1>1, <1>4, <2>2
<1> HIDE DEF next
<1>8. s.kind = "turn_open" => s.turn \notin ToSet(ix.order)
  BY <1>1, <1>4 DEF LineJoins, OrderFits
<1>9. s.kind = "turn_revert" => s.from \in ToSet(ix.order) /\ ~ix.rows[s.from].reverted
  <2> SUFFICES ASSUME s.kind = "turn_revert"
               PROVE  s.from \in ToSet(ix.order) /\ ~ix.rows[s.from].reverted
    OBVIOUS
  <2>1. s.from = Head(lines).from
    <3>1. Head(lines) \in Lines /\ Head(lines).turn \in TurnIds
      BY <1>2, HeadAndTail, LineFields
    <3>2. ix.rows[Head(lines).turn].nextSeq \in Nat
      BY <1>4, <3>1 DEF Rows
    <3>3. QED
      BY <1>1, <3>1, <3>2, StampFields DEF StampedBy
  <2>2. QED
    BY <1>1, <1>2, <1>3, <2>1 DEF LineFits, RecordFits
<1>10. NoTurn \notin TurnIds
  BY LogBoundsAssumption DEF TurnIds, NoTurn
<1>11. /\ p.turns \subseteq ToSet(ix.order)
       /\ p.snapshot # NoTurn => p.snapshot \in ToSet(ix.order) /\ ix.rows[p.snapshot].reverted
       /\ ix.newest = p.snapshot => p.turns \subseteq SurvivingTurns(ix)
  BY DEF ProjFits
<1>12. p.turns \subseteq ToSet(next.order)
  BY <1>1, <1>11
<1>13. MintedIn(tail) \notin p.turns
  <2>1. CASE tail = <<>>
    BY <1>4, <1>10, <1>11, <2>1 DEF MintedIn
  <2>2. CASE tail # <<>>
    BY <1>1, <1>3, <2>2
  <2>3. QED
    BY <2>1, <2>2
<1>14. ASSUME p.snapshot # NoTurn
       PROVE  p.snapshot \in ToSet(next.order) /\ next.rows[p.snapshot].reverted
  <2>1. p.snapshot \in ToSet(ix.order) /\ ix.rows[p.snapshot].reverted /\ p.snapshot \in TurnIds
    BY <1>4, <1>11, <1>14
  <2>2. RowEffect(ix.rows[p.snapshot], next.rows[p.snapshot], ix.order, s, p.snapshot)
    BY <1>5, <2>1
  <2>3. QED
    BY <1>1, <1>8, <2>1, <2>2 DEF RowEffect
<1>15. ASSUME next.newest = p.snapshot, NEW t \in p.turns PROVE t \in SurvivingTurns(next)
  <2>1. s.kind # "turn_revert"
    <3> SUFFICES ASSUME s.kind = "turn_revert" PROVE FALSE
      OBVIOUS
    <3>1. p.snapshot = s.from /\ s.from \in TurnIds
      BY <1>4, <1>6, <1>9, <1>15
    <3>2. QED
      BY <1>9, <1>10, <1>11, <3>1
  <2>2. t \in SurvivingTurns(ix)
    BY <1>6, <1>11, <1>15, <2>1
  <2>3. t \in ToSet(ix.order) /\ ~ix.rows[t].reverted /\ t \in TurnIds
    BY <1>4, <2>2, SurvivingIs
  <2>4. RowEffect(ix.rows[t], next.rows[t], ix.order, s, t)
    BY <1>5, <2>3
  <2>5. ~next.rows[t].reverted /\ t \in ToSet(next.order)
    BY <1>1, <1>8, <2>1, <2>3, <2>4 DEF RowEffect
  <2>6. QED
    BY <1>7, <2>5, SurvivingIs
<1> HIDE DEF tail
<1>16. QED
  BY <1>12, <1>13, <1>14, <1>15 DEF ProjFits

----------------------------------------------------------------------------
\* The append path.

\* The lines before the last.
LEMMA Prefix ==
  ASSUME NEW X, NEW L \in Seq(X), NEW x
  PROVE  SubSeq(L, 1, Len(L)) = L /\ SubSeq(Append(L, x), 1, Len(L)) = L
OBVIOUS

\* The lines the index holds; all of the file while the latch is open.
LEMMA HeldIs ==
  ASSUME IInv, status # "down"
  PROVE  /\ WellFormed(Held) /\ Held \in Seq(Lines) /\ Len(Held) = idx.size
         /\ Keeps(Held, acked, hidden, asked)
         /\ Room => disk = Held /\ Readable(disk) = Held
<1>1. WellFormed(Held) /\ Keeps(Held, acked, hidden, asked) /\ idx = IndexOf(Held, MintedIn(todo))
  BY DEF IInv, MemoryInv
<1>2. Held \in Seq(Lines)
  BY <1>1 DEF WellFormed
<1>3. Len(Held) = idx.size
  BY <1>1 DEF IndexOf
<1>4. Room => disk = Held
  BY DEF IInv, MemoryInv, Room
<1>5. QED
  BY <1>1, <1>2, <1>3, <1>4, ReadableClean

\* An operation's lines, the new ones of a log at rest or those still to do.
Pending(lines) ==
    /\ Fits(idx, lines)
    /\ \/ lines = todo
       \/ Ready /\ (Len(lines) > 1 /\ proj.open => MintedIn(lines) \notin proj.turns)

\* The carrier of an operation's record is never one without a record already.
LEMMA PendingIndex ==
  ASSUME IInv, status # "down", NEW lines, Pending(lines)
  PROVE  /\ idx = IndexOf(Held, MintedIn(lines))
         /\ Len(lines) > 1 /\ proj.open => MintedIn(lines) \notin proj.turns
         /\ ProjFits(proj, idx, <<>>)
         /\ proj.open /\ MintedIn(lines) \in proj.turns
              => IndexOf(Held, MintedIn(lines)) = IndexOf(Held, NoTurn)
<1>1. /\ WellFormed(Held) /\ idx = IndexOf(Held, MintedIn(todo))
      /\ ProjFits(proj, idx, todo) /\ Fits(idx, lines)
  BY HeldIs DEF IInv, MemoryInv, Pending
<1>2. /\ idx.order = OrderOf(Held)
      /\ ToSet(idx.order) \subseteq TurnIds /\ idx.rows \in [TurnIds -> Rows]
      /\ \A t \in TurnIds : t \notin ToSet(idx.order) => idx.rows[t] = NoRow
      /\ \A t \in TurnIds : idx.rows[t].reverted <=>
            Hides(Held, t) \/ (t # MintedIn(todo) /\ IncompleteCarrier(idx.rows[t]))
  <2> DEFINE ix == idx
             c  == MintedIn(todo)
             L  == Held
  <2>1. WellFormed(L) /\ ix = IndexOf(L, c)
    BY <1>1
  <2> HIDE DEF ix, c, L
  <2>2. /\ ix.order = OrderOf(L)
        /\ ToSet(ix.order) \subseteq TurnIds /\ ix.rows \in [TurnIds -> Rows]
        /\ \A t \in TurnIds : t \notin ToSet(ix.order) => ix.rows[t] = NoRow
    BY <2>1, IndexFacts
  <2>4. ASSUME NEW t \in TurnIds
        PROVE  ix.rows[t].reverted <=> Hides(L, t) \/ (t # c /\ IncompleteCarrier(ix.rows[t]))
    BY <2>1, IndexFacts
  <2>3. QED
    BY <2>2, <2>4 DEF ix, c, L
<1>3. NoTurn \notin TurnIds
  BY LogBoundsAssumption DEF TurnIds, NoTurn
<1>4. ProjFits(proj, idx, <<>>)
  BY <1>1, <1>2, <1>3 DEF ProjFits, MintedIn
<1>5. CASE lines = todo
  BY <1>1, <1>4, <1>5 DEF ProjFits
<1>6. CASE Ready /\ (Len(lines) > 1 /\ proj.open => MintedIn(lines) \notin proj.turns)
  <2> DEFINE c == MintedIn(lines)
  <2>1. MintedIn(todo) = NoTurn
    BY <1>6 DEF Ready, MintedIn
  <2>2. c = NoTurn \/ (c \in TurnIds /\ ~IncompleteCarrier(idx.rows[c]))
    <3> SUFFICES ASSUME c # NoTurn PROVE c \in TurnIds /\ ~IncompleteCarrier(idx.rows[c])
      OBVIOUS
    <3>1. /\ lines \in Seq(Lines) /\ lines # <<>> /\ Len(lines) \in 1..Len(lines)
          /\ Last(lines) = lines[Len(lines)] /\ Last(lines) \in Lines
      BY <1>1, HeadAndTail DEF Fits
    <3>2. Last(lines).kind = "turn_revert" /\ c = Last(lines).turn
      BY DEF MintedIn
    <3>3. LineFits(idx, lines, Len(lines))
      BY <1>1, <3>1 DEF Fits
    <3>4. c \in ToSet(idx.order) => ~idx.rows[c].reverted
      BY <3>1, <3>2, <3>3 DEF LineFits
    <3>5. c \in TurnIds
      BY <3>1, <3>2, LineFields
    <3> HIDE DEF c
    <3>6. CASE c \in ToSet(idx.order)
      BY <1>2, <2>1, <3>4, <3>5, <3>6
    <3>7. CASE c \notin ToSet(idx.order)
      BY <1>2, <3>5, <3>7 DEF IncompleteCarrier, NoRow
    <3>8. QED
      BY <3>5, <3>6, <3>7
  <2> HIDE DEF c
  <2>3. IndexOf(Held, c) = IndexOf(Held, NoTurn)
    <3>1. CASE c = NoTurn
      BY <3>1
    <3>2. CASE c \in TurnIds /\ ~IncompleteCarrier(idx.rows[c])
      <4>1. idx.rows[c].source = RowOf(Held, c).source
            /\ idx.rows[c].hasRevert = RowOf(Held, c).hasRevert
        <5>1. idx.rows[c] = [RowOf(Held, c) EXCEPT !.reverted = idx.rows[c].reverted]
          BY <1>1, <3>2, IndexFacts
        <5>2. RowOf(Held, c) \in Rows
          BY <1>1, <3>2, RowTypes
        <5>3. QED
          BY <5>1, <5>2 DEF Rows
      <4>2. QED
        BY <1>1, <3>2, <4>1, Exempt DEF IncompleteCarrier
    <3>3. QED
      BY <2>2, <3>1, <3>2
  <2>4. QED
    BY <1>1, <1>4, <1>6, <2>1, <2>3 DEF c
<1>7. QED
  BY <1>5, <1>6 DEF Pending

\* The mark a refused record leaves makes the index the scan of the lines held.
LEMMA WithoutCarrierIs ==
  ASSUME NEW L, WellFormed(L), NEW lines, lines \in Seq(Lines), lines # <<>>,
         idx = IndexOf(L, MintedIn(lines))
  PROVE  WithoutCarrier(lines) = IndexOf(L, NoTurn)
<1> DEFINE c == MintedIn(lines)
<1>1. CASE Last(lines).kind # "turn_revert"
  <2>1. c = NoTurn
    BY <1>1 DEF MintedIn
  <2>2. QED
    BY <1>1, <2>1 DEF WithoutCarrier
<1>2. CASE Last(lines).kind = "turn_revert"
  <2>1. c = Last(lines).turn /\ c \in TurnIds
    BY <1>2, HeadAndTail, LineFields DEF MintedIn
  <2> HIDE DEF c
  <2>2. idx = IndexOf(L, c)
    BY DEF c
  <2>3. WithoutCarrier(lines) = IF IncompleteCarrier(idx.rows[c])
                                THEN [idx EXCEPT !.rows[c].reverted = TRUE] ELSE idx
    BY <1>2, <2>1 DEF WithoutCarrier
  <2>4. /\ IncompleteCarrier(idx.rows[c]) <=> IncompleteCarrier(RowOf(L, c))
        /\ ~IncompleteCarrier(RowOf(L, c)) => idx = IndexOf(L, NoTurn)
        /\ IncompleteCarrier(RowOf(L, c)) =>
              [idx EXCEPT !.rows[c].reverted = TRUE] = IndexOf(L, NoTurn)
    BY <2>1, <2>2, Exempt
  <2>5. QED
    BY <2>3, <2>4
<1>3. QED
  BY <1>1, <1>2

\* What the operations leave of a rewind and of a projection in flight.
Aside ==
    /\ status # "up" => rewind' = rewind
    /\ proj' \in {proj, NoProjection}

\* A line written keeps the invariant, and the last closer of a recovery comes up clean.
LEMMA WrittenStep ==
  ASSUME IInv, status # "down", NEW lines, Pending(lines), Written(lines), Aside
  PROVE  IInv' /\ (status # "up" /\ status' = "up" =>
                      \A t \in SurvivingTurns(idx') : idx'.rows[t].closed)
<1> DEFINE s    == Stamped(Head(lines))
           L    == Held
           M    == Append(L, s)
           tail == Tail(lines)
<1>1. /\ WellFormed(L) /\ L \in Seq(Lines) /\ Len(L) = idx.size /\ Keeps(L, acked, hidden, asked)
      /\ disk = L /\ Readable(disk) = L
  BY HeldIs DEF Written
<1>2. /\ idx = IndexOf(L, MintedIn(lines))
      /\ Len(lines) > 1 /\ proj.open => MintedIn(lines) \notin proj.turns
      /\ ProjFits(proj, idx, <<>>)
  BY PendingIndex
<1>3. s = StampedBy(idx, Head(lines)) /\ Fits(idx, lines)
  BY DEF Stamped, StampedBy, Pending
<1>4. /\ disk' = M /\ idx' = Observe(idx, s) /\ todo' = tail
      /\ status' = IF tail = <<>> THEN "up" ELSE status
      /\ failed' = failed /\ ~failed
      /\ acked' = acked \cup {KeyOf(s)}
      /\ hidden' = hidden \cup Takes(s) /\ asked' = asked \cup Takes(s)
      /\ live' = CASE s.kind = "turn_open" /\ s.source = "prompt" -> live \cup {s.turn}
                   [] s.kind = "turn_close"                       -> live \ {s.turn}
                   [] OTHER                                       -> live
  BY <1>1 DEF Written, Room
<1> HIDE DEF s, L, tail
<1>5. WriteEffect(L, idx, lines, s, idx', tail)
  BY <1>1, <1>2, <1>3, <1>4, WrittenIndex DEF tail
<1>6. /\ s \in Lines /\ LineJoins(L, s) /\ WellFormed(M)
      /\ idx' = IndexOf(M, MintedIn(tail))
      /\ s.kind = Head(lines).kind /\ s.turn = Head(lines).turn
      /\ ToSet(idx'.order) = ToSet(idx.order) \cup {s.turn}
      /\ tail # <<>> => /\ Fits(idx', tail)
                        /\ tail[1].kind # "turn_open"
  BY <1>5 DEF WriteEffect
<1>7. M \in Seq(Lines) /\ Readable(M) = M /\ idx'.size = Len(M)
  BY <1>6, ReadableClean DEF WellFormed, IndexOf
<1>8. Held' = M /\ Len(M) \in Nat
  BY <1>4, <1>7, Prefix, LenProperties DEF Held
<1>9. Keeps(M, acked', hidden', asked')
  <2>1. TakenOf(idx, s) = Takes(s)
    BY DEF TakenOf, Takes
  <2>2. Keeps(M, acked \cup {KeyOf(s)}, hidden \cup TakenOf(idx, s), asked \cup TakenOf(idx, s))
    BY <1>1, <1>2, <1>6, KeepsAppend
  <2>3. QED
    BY <1>4, <2>1, <2>2
<1> HIDE DEF M
<1>10. DiskInv'
  BY <1>4, <1>6, <1>7, <1>9 DEF DiskInv
<1>11. MemoryInv'
  <2>1. live' \subseteq ToSet(idx'.order)
    <3>1. live \subseteq ToSet(idx.order)
      BY DEF IInv, MemoryInv
    <3>2. live' \subseteq live \cup {s.turn}
      BY <1>4
    <3>3. QED
      BY <1>6, <3>1, <3>2
  <2>2. idx'.size \in 0..Len(Readable(disk'))
    BY <1>4, <1>7, <1>8
  <2>3. QED
    BY <1>4, <1>6, <1>8, <1>9, <2>1, <2>2 DEF MemoryInv
<1>12. status' # "up" => lines = todo /\ status = "recovering"
  BY <1>4 DEF Pending, Ready, IInv
<1>13. status = "recovering" => /\ lines = todo /\ Recovers(idx, lines)
                                /\ live = {} /\ rewind = NoRewind /\ proj = NoProjection
  BY DEF IInv, TodoInv, Pending, Ready
<1>14. status = "recovering" =>
          /\ tail # <<>> => Recovers(idx', tail)
          /\ tail = <<>> => \A t \in SurvivingTurns(idx') : idx'.rows[t].closed
  BY <1>1, <1>2, <1>3, <1>4, <1>13, RecoveryGoesOn DEF tail
<1>15. TodoInv'
  <2>1. todo' # <<>> => Fits(idx', todo') /\ todo'[1].kind # "turn_open"
    BY <1>4, <1>6
  <2>2. status' # "down"
    BY <1>4
  <2>3. ASSUME status' # "up"
        PROVE  ~failed' /\ live' = {} /\ rewind' = NoRewind /\ proj' = NoProjection
    <3>1. status = "recovering" /\ Recovers(idx, lines) /\ live = {} /\ rewind = NoRewind
          /\ proj = NoProjection
      BY <1>12, <1>13, <2>3
    <3>2. s.kind # "turn_open"
      <4>1. Head(lines) = lines[1] /\ 1 \in 1..Len(lines)
        BY <1>3, HeadAndTail DEF Fits
      <4>2. QED
        BY <1>6, <3>1, <4>1 DEF Recovers
    <3>3. QED
      BY <1>4, <3>1, <3>2 DEF Aside
  <2>4. status' = "recovering" => Recovers(idx', todo')
    BY <1>4, <1>12, <1>14
  <2>5. QED
    BY <2>1, <2>2, <2>3, <2>4 DEF TodoInv
<1>16. ProjFits(proj', idx', todo')
  <2>1. ProjFits(proj, idx', todo')
    BY <1>1, <1>2, <1>3, <1>4, ProjectionGoesOn DEF tail
  <2>2. ProjFits(NoProjection, idx', todo')
    BY DEF ProjFits, NoProjection
  <2>3. QED
    BY <2>1, <2>2 DEF Aside
<1>17. status' \in {"down", "recovering", "up"} /\ failed' \in BOOLEAN
  BY <1>4 DEF IInv
<1>18. ASSUME status # "up", status' = "up"
       PROVE  \A t \in SurvivingTurns(idx') : idx'.rows[t].closed
  <2>1. status = "recovering" /\ tail = <<>>
    BY <1>4, <1>18 DEF IInv
  <2>2. QED
    BY <1>14, <2>1
<1>19. QED
  BY <1>10, <1>11, <1>15, <1>16, <1>17, <1>18 DEF IInv

\* An operation that gives up, with a failed line on disk or none.
LEMMA AbandonStep ==
  ASSUME IInv, status # "down", NEW lines, Pending(lines), Abandon(lines), Aside,
         \/ UNCHANGED <<disk, failed, asked>>
         \/ /\ Room
            /\ disk' \in {disk, Append(disk, TornLine), Append(disk, Stamped(Head(lines)))}
            /\ failed' = Latch
            /\ asked' = asked \cup Takes(Head(lines))
  PROVE  IInv' /\ (status # "up" => status' # "up")
<1> DEFINE s == Stamped(Head(lines))
           L == Held
           R == Readable(disk)
<1>1. /\ WellFormed(L) /\ L \in Seq(Lines) /\ Len(L) = idx.size /\ Keeps(L, acked, hidden, asked)
      /\ Room => disk = L /\ R = L
  BY HeldIs
<1>2. /\ idx = IndexOf(L, MintedIn(lines)) /\ ProjFits(proj, idx, <<>>)
  BY PendingIndex
<1>3. s = StampedBy(idx, Head(lines)) /\ Fits(idx, lines) /\ lines \in Seq(Lines) /\ lines # <<>>
  BY DEF Stamped, StampedBy, Pending, Fits
<1>4. /\ todo' = <<>> /\ acked' = acked /\ hidden' = hidden
      /\ idx' = IF status = "up" THEN WithoutCarrier(lines) ELSE EmptyIndex
      /\ status' = IF status = "up" THEN "up" ELSE "down"
      /\ live' \subseteq live
  BY DEF Abandon
<1> HIDE DEF L, s, R
<1>5. WriteEffect(L, idx, lines, s, Observe(idx, s), Tail(lines))
  BY <1>1, <1>2, <1>3, WrittenIndex
<1>6. s \in Lines /\ LineJoins(L, s) /\ WellFormed(Append(L, s)) /\ Append(L, s) \in Seq(Lines)
  BY <1>5 DEF WriteEffect, WellFormed
<1>7. Keeps(Append(L, s), acked, hidden, asked \cup Takes(Head(lines)))
  <2>1. /\ Head(lines) \in Lines /\ idx.rows \in [TurnIds -> Rows]
        /\ Head(lines).turn \in TurnIds
    BY <1>1, <1>2, <1>3, HeadAndTail, LineFields, IndexFacts
  <2>2. idx.rows[Head(lines).turn].nextSeq \in Nat
    BY <2>1 DEF Rows
  <2>3. /\ s.kind = Head(lines).kind
        /\ s.kind = "turn_revert" => s.from = Head(lines).from /\ s.through = Head(lines).through
    BY <1>3, <2>1, <2>2, StampFields DEF StampedBy
  <2>4. TakenOf(idx, s) = Takes(Head(lines))
    BY <2>3 DEF TakenOf, Takes
  <2>5. QED
    BY <1>1, <1>2, <1>6, <2>4, KeepsAppend
<1>8. \A X : Keeps(X, acked, hidden, asked) => Keeps(X, acked, hidden, asked \cup Takes(Head(lines)))
  BY DEF Keeps
<1>9. DiskInv'
  <2>1. CASE UNCHANGED <<disk, failed, asked>>
    BY <1>4, <2>1 DEF DiskInv, IInv
  <2>2. CASE /\ Room /\ disk' \in {L, Append(L, TornLine)}
             /\ asked' = asked \cup Takes(Head(lines))
    <3>1. Readable(disk') = L
      BY <1>1, <2>2, ReadableClean
    <3>2. QED
      BY <1>1, <1>4, <1>8, <2>2, <3>1 DEF DiskInv
  <2>3. CASE /\ Room /\ disk' = Append(L, s)
             /\ asked' = asked \cup Takes(Head(lines))
    <3>1. Readable(disk') = disk'
      BY <1>6, <2>3, ReadableClean
    <3>2. QED
      BY <1>4, <1>6, <1>7, <2>3, <3>1 DEF DiskInv
  <2>4. QED
    BY <1>1, <2>1, <2>2, <2>3 DEF s
<1>10. status = "up" => idx' = IndexOf(L, NoTurn)
  BY <1>1, <1>2, <1>3, <1>4, WithoutCarrierIs
<1>11. ASSUME status = "up" PROVE idx'.size = Len(L) /\ idx'.order = idx.order /\ idx'.newest = idx.newest
  BY <1>2, <1>10, <1>11 DEF IndexOf
<1>12. ASSUME status = "up" PROVE Held' = L /\ idx'.size \in 0..Len(Readable(disk'))
  <2>1. CASE UNCHANGED <<disk, failed, asked>>
    <3>1. idx.size \in 0..Len(R) /\ L = SubSeq(disk, 1, idx.size)
      BY DEF IInv, MemoryInv, Held, L, R
    <3>2. disk' = disk /\ Readable(disk') = R
      BY <2>1 DEF R
    <3>3. QED
      BY <1>1, <1>11, <1>12, <3>1, <3>2 DEF Held
  <2>2. CASE /\ Room /\ disk' \in {L, Append(L, TornLine)}
             /\ asked' = asked \cup Takes(Head(lines))
    <3>1. Readable(disk') = L /\ Len(L) \in Nat
      BY <1>1, <2>2, ReadableClean, LenProperties
    <3>2. SubSeq(disk', 1, Len(L)) = L
      BY <1>1, <2>2, Prefix
    <3>3. QED
      BY <1>11, <1>12, <3>1, <3>2 DEF Held
  <2>3. CASE /\ Room /\ disk' = Append(L, s)
             /\ asked' = asked \cup Takes(Head(lines))
    <3>1. Readable(disk') = Append(L, s) /\ Len(L) \in Nat /\ Len(Append(L, s)) = Len(L) + 1
      BY <1>1, <1>6, <2>3, ReadableClean, LenProperties, AppendProperties
    <3>2. SubSeq(disk', 1, Len(L)) = L
      BY <1>1, <2>3, Prefix
    <3>3. QED
      BY <1>11, <1>12, <3>1, <3>2 DEF Held
  <2>4. QED
    BY <1>1, <2>1, <2>2, <2>3 DEF s
<1>13. MintedIn(<<>>) = NoTurn
  BY DEF MintedIn
<1>14. MemoryInv'
  <2> SUFFICES ASSUME status = "up" PROVE MemoryInv'
    BY <1>4 DEF MemoryInv
  <2>1. ~failed' => disk' = Held'
    <3>1. CASE UNCHANGED <<disk, failed, asked>>
      <4>1. ~failed => disk = L
        BY DEF IInv, MemoryInv, L
      <4>2. QED
        BY <1>12, <3>1, <4>1
    <3>2. CASE failed' = Latch
      BY <3>2 DEF Latch
    <3>3. QED
      BY <3>1, <3>2
  <2>2. live' \subseteq ToSet(idx'.order)
    BY <1>4, <1>11 DEF IInv, MemoryInv
  <2>3. Keeps(L, acked', hidden', asked')
    <3>1. asked' \in {asked, asked \cup Takes(Head(lines))}
      OBVIOUS
    <3>2. QED
      BY <1>1, <1>4, <1>8, <3>1
  <2>4. QED
    BY <1>1, <1>4, <1>10, <1>12, <1>13, <2>1, <2>2, <2>3 DEF MemoryInv
<1>15. status # "up" => ~failed /\ live = {} /\ rewind = NoRewind /\ proj = NoProjection
  BY DEF IInv, TodoInv
<1>16. TodoInv'
  <2>1. CASE status = "up"
    BY <1>4, <2>1 DEF TodoInv
  <2>2. CASE status # "up"
    <3>1. ~failed'
      BY <1>15, <2>2 DEF Latch
    <3>2. live' = {} /\ rewind' = NoRewind /\ proj' = NoProjection
      BY <1>4, <1>15, <2>2 DEF Aside
    <3>3. QED
      BY <1>4, <2>2, <3>1, <3>2 DEF TodoInv
  <2>3. QED
    BY <2>1, <2>2
<1>17. ProjFits(proj', idx', todo')
  <2>1. CASE proj' = NoProjection
    BY <2>1 DEF ProjFits, NoProjection
  <2>2. CASE proj' = proj /\ proj.open
    <3>1. status = "up"
      BY <1>15, <2>2 DEF NoProjection
    <3> DEFINE ix == IndexOf(L, NoTurn)
               c  == MintedIn(lines)
    <3>2. idx' = ix /\ ix.order = idx.order /\ ix.newest = idx.newest
      BY <1>10, <1>11, <3>1
    <3>3. /\ idx.order \in Seq(TurnIds) /\ ToSet(idx.order) \subseteq TurnIds
          /\ \A t \in TurnIds : idx.rows[t] = [RowOf(L, t) EXCEPT !.reverted = idx.rows[t].reverted]
      BY <1>1, <1>2, IndexFacts
    <3>4. \A t \in TurnIds : ix.rows[t] = [RowOf(L, t) EXCEPT !.reverted = ix.rows[t].reverted]
      BY <1>1, IndexFacts
    <3>5. ASSUME NEW t \in TurnIds
          PROVE  /\ idx.rows[t].reverted <=> Hides(L, t) \/ (t # c /\ IncompleteCarrier(idx.rows[t]))
                 /\ ix.rows[t].reverted <=> Hides(L, t) \/ (t # NoTurn /\ IncompleteCarrier(ix.rows[t]))
                 /\ IncompleteCarrier(idx.rows[t]) <=> IncompleteCarrier(ix.rows[t])
      <4>1. idx.rows[t].reverted <=> Hides(L, t) \/ (t # c /\ IncompleteCarrier(idx.rows[t]))
        BY <1>1, <1>2, IndexFacts
      <4>2. ix.rows[t].reverted <=> Hides(L, t) \/ (t # NoTurn /\ IncompleteCarrier(ix.rows[t]))
        BY <1>1, IndexFacts
      <4>3. RowOf(L, t) \in Rows
        BY <1>1, RowTypes
      <4> HIDE DEF ix
      <4>4. /\ idx.rows[t].source = RowOf(L, t).source /\ ix.rows[t].source = RowOf(L, t).source
            /\ idx.rows[t].hasRevert = RowOf(L, t).hasRevert
            /\ ix.rows[t].hasRevert = RowOf(L, t).hasRevert
        BY <3>3, <3>4, <4>3 DEF Rows
      <4>5. IncompleteCarrier(idx.rows[t]) <=> IncompleteCarrier(ix.rows[t])
        BY <4>4 DEF IncompleteCarrier
      <4>6. QED
        BY <4>1, <4>2, <4>5
    <3>6. NoTurn \notin TurnIds
      BY LogBoundsAssumption DEF TurnIds, NoTurn
    <3>7. /\ proj.turns \subseteq ToSet(idx.order)
          /\ proj.snapshot # NoTurn =>
                proj.snapshot \in ToSet(idx.order) /\ idx.rows[proj.snapshot].reverted
          /\ idx.newest = proj.snapshot => proj.turns \subseteq SurvivingTurns(idx)
      BY <1>2, <2>2 DEF ProjFits
    <3>8. c \in proj.turns => ix = idx
      BY <1>2, <2>2, PendingIndex DEF L
    <3> HIDE DEF ix, c
    <3>9. ASSUME NEW t \in proj.turns, t \in SurvivingTurns(idx) PROVE t \in SurvivingTurns(ix)
      <4>1. CASE c \in proj.turns
        BY <3>8, <3>9, <4>1
      <4>2. CASE c \notin proj.turns
        <5>1. t # c /\ t \in ToSet(idx.order) /\ t \in TurnIds /\ ~idx.rows[t].reverted
          BY <3>3, <3>9, <4>2, SurvivingIs
        <5>2. ~ix.rows[t].reverted
          BY <3>5, <5>1
        <5>3. QED
          BY <3>2, <3>3, <5>1, <5>2, SurvivingIs
      <4>3. QED
        BY <4>1, <4>2
    <3>10. proj.snapshot # NoTurn => ix.rows[proj.snapshot].reverted
      BY <3>3, <3>5, <3>6, <3>7
    <3>11. MintedIn(<<>>) \notin proj.turns
      BY <1>13, <3>3, <3>6, <3>7
    <3>12. ProjFits(proj, ix, <<>>)
      BY <3>2, <3>7, <3>9, <3>10, <3>11 DEF ProjFits
    <3>13. QED
      BY <1>4, <2>2, <3>2, <3>12
  <2>3. CASE proj' = proj /\ ~proj.open
    BY <2>3 DEF ProjFits
  <2>4. QED
    BY <2>1, <2>2, <2>3 DEF Aside
<1>18. status' \in {"down", "recovering", "up"} /\ failed' \in BOOLEAN
  BY <1>4 DEF IInv, Latch
<1>19. QED
  BY <1>4, <1>9, <1>14, <1>16, <1>17, <1>18 DEF IInv

\* An operation's next line keeps the invariant, whether it is written, fails or is refused.
LEMMA AppendStep ==
  ASSUME IInv, status # "down", NEW lines, Pending(lines), AppendFirst(lines), Aside
  PROVE  IInv' /\ (status # "up" /\ status' = "up" =>
                      \A t \in SurvivingTurns(idx') : idx'.rows[t].closed)
<1>1. CASE Written(lines)
  BY <1>1, WrittenStep
<1>2. CASE WriteFails(lines)
  BY <1>2, AbandonStep DEF WriteFails
<1>3. CASE WriteRefused(lines)
  BY <1>3, AbandonStep DEF WriteRefused
<1>4. QED
  BY <1>1, <1>2, <1>3 DEF AppendFirst

----------------------------------------------------------------------------
\* The operations.

\* A turn's id is a number, and none of the other names.
LEMMA TurnsAreNats == TurnIds \subseteq Nat /\ NoTurn \notin TurnIds /\ Session \notin TurnIds
BY LogBoundsAssumption DEF TurnIds, NoTurn, Session

\* The lines operations make are lines.
LEMMA LineMakers ==
  ASSUME NEW t \in TurnIds
  PROVE  /\ \A n \in Nat : \A source \in Sources : TurnOpenLine(t, source, n, t) \in Lines
         /\ \A kind \in BodyKinds : BodyLine(t, kind) \in Lines
         /\ \A raw \in Raws : TurnCloseLine(t, raw) \in Lines
         /\ \A from \in TurnIds, to \in TurnIds : RevertLine(t, from, to) \in Lines
         /\ \A name \in TurnIds \cup {Session} : ReconciledLine(t, name) \in Lines
BY DEF Lines, TurnOpenLine, BodyLine, TurnCloseLine, RevertLine, ReconciledLine

\* The index of a log at rest.
LEMMA RestFacts ==
  ASSUME IInv, Ready
  PROVE  /\ idx = IndexOf(Held, NoTurn) /\ WellFormed(Held) /\ status = "up" /\ todo = <<>>
         /\ idx.order \in Seq(TurnIds) /\ Len(idx.order) \in Nat
         /\ IsInjective(idx.order) /\ ToSet(idx.order) = 1..Len(idx.order)
         /\ ToSet(idx.order) \subseteq TurnIds
         /\ idx.rows \in [TurnIds -> Rows]
         /\ Fresh(idx) \notin ToSet(idx.order) /\ Fresh(idx) \in Nat
         /\ Fresh(idx) <= MaxTurns => Fresh(idx) \in TurnIds
         /\ live \subseteq ToSet(idx.order)
<1>1. idx = IndexOf(Held, NoTurn) /\ WellFormed(Held) /\ status = "up" /\ todo = <<>>
      /\ live \subseteq ToSet(idx.order)
  BY DEF IInv, MemoryInv, Ready, MintedIn
<1> DEFINE ix == idx
           L  == Held
<1>2. WellFormed(L) /\ ix = IndexOf(L, NoTurn)
  BY <1>1
<1> HIDE DEF ix, L
<1>3. /\ ix.order \in Seq(TurnIds) /\ Len(ix.order) \in Nat /\ OrderFits(ix.order)
      /\ ToSet(ix.order) \subseteq TurnIds
      /\ ix.rows \in [TurnIds -> Rows]
  BY <1>2, IndexFacts
<1>4. Fresh(ix) \notin ToSet(ix.order) /\ Fresh(ix) \in Nat /\ Fresh(ix) >= 1
  BY <1>3 DEF OrderFits, Fresh
<1>5. Fresh(ix) <= MaxTurns => Fresh(ix) \in TurnIds
  BY <1>4, LogBoundsAssumption DEF TurnIds
<1>6. QED
  BY <1>1, <1>3, <1>4, <1>5 DEF OrderFits, ix

\* The newest turn outside a window, and the count of the survivors.
LEMMA NewestIs ==
  ASSUME NEW ix, ix.order \in Seq(TurnIds), NEW W
  PROVE  /\ ToSet(Outside(ix, W)) = SurvivingTurns(ix) \ W
         /\ Outside(ix, W) \in Seq(TurnIds)
         /\ \/ Newest(ix, W) = NoTurn /\ SurvivingTurns(ix) \subseteq W
            \/ Newest(ix, W) \in SurvivingTurns(ix) \ W
<1> DEFINE I   == {i \in DOMAIN ix.order : /\ ~ix.rows[ix.order[i]].reverted
                                          /\ ix.order[i] \notin W}
           out == Pick(ix.order, I)
<1>1. /\ out \in Seq(TurnIds)
      /\ ToSet(out) = {ix.order[i] : i \in {j \in 1..Len(ix.order) : j \in I}}
  BY PickElements
<1>2. DOMAIN ix.order = 1..Len(ix.order)
  BY LenProperties
<1>3. {ix.order[i] : i \in {j \in 1..Len(ix.order) : j \in I}} =
         {t \in ToSet(ix.order) : ~ix.rows[t].reverted} \ W
  BY <1>2 DEF ToSet
<1>4. ToSet(out) = SurvivingTurns(ix) \ W
  BY <1>1, <1>3, SurvivingIs
<1>5. Outside(ix, W) = out
  BY DEF Outside
<1> HIDE DEF out
<1>6. CASE out = <<>>
  <2>1. ToSet(out) = {}
    BY <1>6 DEF ToSet
  <2>2. QED
    BY <1>1, <1>4, <1>5, <1>6, <2>1 DEF Newest
<1>7. CASE out # <<>>
  <2>1. Len(out) \in DOMAIN out
    BY <1>1, <1>7, LenProperties, EmptySeq
  <2>2. Last(out) \in ToSet(out)
    BY <2>1 DEF Last, ToSet
  <2>3. QED
    BY <1>1, <1>4, <1>5, <1>7, <2>2 DEF Newest
<1>8. QED
  BY <1>6, <1>7

\* The count of turns is a number.
LEMMA CountIsNat ==
  ASSUME NEW ix, ix.order \in Seq(TurnIds), ix.rows \in [TurnIds -> Rows]
  PROVE  TurnCount(ix) \in Nat
<1> DEFINE I   == {i \in DOMAIN ix.order : ~ix.rows[ix.order[i]].reverted}
           all == Pick(ix.order, I)
<1>1. all \in Seq(TurnIds) /\ Surviving(ix) = all
  BY PickElements DEF Surviving
<1> HIDE DEF all
<1>2. CASE all = <<>>
  BY <1>1, <1>2 DEF TurnCount
<1>3. CASE all # <<>>
  <2>1. Last(all) \in TurnIds
    BY <1>1, <1>3, LenProperties, EmptySeq, ElementOfSeq DEF Last
  <2>2. QED
    BY <1>1, <1>3, <2>1 DEF TurnCount, Rows
<1>4. QED
  BY <1>2, <1>3

\* One new line.
LEMMA OneLine ==
  ASSUME IInv, Ready, NEW l \in Lines,
         l.kind = "turn_open" => l.turn = Fresh(idx) /\ l.msg = l.turn /\ l.source # "revert",
         l.kind # "turn_open" => l.turn \in ToSet(idx.order),
         l.kind = "tool_call" => idx.rows[l.turn].call = "none",
         l.kind = "tool_result" => idx.rows[l.turn].call # "none",
         l.kind = "turn_revert" => /\ RecordFits(idx.order, l)
                                   /\ ~idx.rows[l.from].reverted
                                   /\ ~idx.rows[l.turn].reverted
  PROVE  Pending(<<l>>)
<1> DEFINE lines == <<l>>
<1>1. lines \in Seq(Lines) /\ lines # <<>> /\ Len(lines) = 1 /\ lines[1] = l
  OBVIOUS
<1> HIDE DEF lines
<1>2. LineFits(idx, lines, 1)
  BY <1>1 DEF LineFits
<1>3. Fits(idx, lines)
  BY <1>1, <1>2 DEF Fits
<1>4. QED
  BY <1>1, <1>3 DEF Pending, lines

\* A prompt's turn_open keeps the invariant.
LEMMA OpenTurnStep ==
  ASSUME IInv, OpenTurn
  PROVE  IInv' /\ (status # "up" /\ status' = "up" =>
                      \A t \in SurvivingTurns(idx') : idx'.rows[t].closed)
<1> DEFINE l == TurnOpenLine(Fresh(idx), "prompt", TurnCount(idx) + 1, Fresh(idx))
<1>1. Ready /\ AppendFirst(<<l>>) /\ Aside /\ Fresh(idx) <= MaxTurns
  BY DEF OpenTurn, Aside
<1>2. Fresh(idx) \in TurnIds /\ TurnCount(idx) + 1 \in Nat
  BY <1>1, RestFacts, CountIsNat
<1>3. l \in Lines
  BY <1>2, LineMakers DEF Sources
<1>4. l.kind = "turn_open" /\ l.turn = Fresh(idx) /\ l.msg = Fresh(idx) /\ l.source # "revert"
  BY DEF TurnOpenLine
<1> HIDE DEF l
<1>5. Pending(<<l>>)
  BY <1>1, <1>3, <1>4, OneLine
<1>6. QED
  BY <1>1, <1>5, AppendStep DEF Ready

\* A turn's entry keeps the invariant.
LEMMA AppendEntryStep ==
  ASSUME IInv, NEW t \in live, AppendEntry(t)
  PROVE  IInv' /\ (status # "up" /\ status' = "up" =>
                      \A u \in SurvivingTurns(idx') : idx'.rows[u].closed)
<1>1. PICK kind \in Entries :
        /\ CASE kind = "tool_call"   -> idx.rows[t].call = "none"
             [] kind = "tool_result" -> idx.rows[t].call = "open"
             [] kind = "turn_bind"   -> ~idx.rows[t].bound
        /\ AppendFirst(<<BodyLine(t, kind)>>)
  BY DEF AppendEntry
<1> DEFINE l == BodyLine(t, kind)
<1>2. Ready /\ Aside
  BY DEF AppendEntry, Aside
<1>3. t \in ToSet(idx.order) /\ t \in TurnIds
  BY <1>2, RestFacts
<1>4. kind \in {"tool_call", "tool_result", "turn_bind"} /\ kind \in BodyKinds
  BY LogBoundsAssumption DEF BodyKinds
<1>5. l \in Lines /\ l.kind = kind /\ l.turn = t
  BY <1>3, <1>4, LineMakers DEF BodyLine
<1>6. /\ kind = "tool_call" => idx.rows[t].call = "none"
      /\ kind = "tool_result" => idx.rows[t].call # "none"
  BY <1>1
<1> HIDE DEF l
<1>7. Pending(<<l>>)
  BY <1>2, <1>3, <1>4, <1>5, <1>6, OneLine
<1>8. QED
  BY <1>1, <1>2, <1>7, AppendStep DEF Ready, l

\* A turn's close keeps the invariant.
LEMMA CloseTurnStep ==
  ASSUME IInv, NEW t \in live, CloseTurn(t)
  PROVE  IInv' /\ (status # "up" /\ status' = "up" =>
                      \A u \in SurvivingTurns(idx') : idx'.rows[u].closed)
<1> DEFINE l == TurnCloseLine(t, "ended")
<1>1. Ready /\ Aside /\ AppendFirst(<<l>>)
  BY DEF CloseTurn, Aside
<1>2. t \in ToSet(idx.order) /\ t \in TurnIds
  BY <1>1, RestFacts
<1>3. l \in Lines /\ l.kind = "turn_close" /\ l.turn = t
  BY <1>2, LineMakers DEF TurnCloseLine, Raws
<1> HIDE DEF l
<1>4. Pending(<<l>>)
  BY <1>1, <1>2, <1>3, OneLine
<1>5. QED
  BY <1>1, <1>4, AppendStep DEF Ready

\* A turn minted for the lines behind it, all its own and none a call.
LEMMA MintedLines ==
  ASSUME IInv, Ready, NEW lines \in Seq(Lines), Len(lines) > 1,
         lines[1].kind = "turn_open", lines[1].turn = Fresh(idx), lines[1].msg = Fresh(idx),
         lines[1].source = "revert" => Last(lines).kind = "turn_revert",
         \A i \in 2..Len(lines) :
            /\ lines[i].turn = Fresh(idx)
            /\ lines[i].kind \in {"note", "turn_close", "reconciled", "turn_revert"}
            /\ lines[i].kind = "turn_revert" =>
                  i = Len(lines) /\ RecordFits(idx.order, lines[i]) /\ ~idx.rows[lines[i].from].reverted
  PROVE  Pending(lines)
<1>1. /\ Fresh(idx) \notin ToSet(idx.order) /\ Fresh(idx) \in Nat
      /\ ProjFits(proj, idx, <<>>)
  BY RestFacts DEF IInv, Ready
<1>2. /\ Len(lines) \in Nat /\ Len(lines) \in 2..Len(lines)
      /\ lines # <<>> /\ Last(lines) = lines[Len(lines)]
  <2>1. Len(lines) \in Nat
    BY LenProperties
  <2>2. Len(<<>>) = 0
    OBVIOUS
  <2>3. QED
    BY <2>1, <2>2 DEF Last
<1>3. MintedIn(lines) \in {NoTurn, Fresh(idx)}
      /\ (Last(lines).kind = "turn_revert" => MintedIn(lines) = Fresh(idx))
  BY <1>2 DEF MintedIn
<1>4. ASSUME NEW i \in 1..Len(lines) PROVE LineFits(idx, lines, i)
  <2>1. CASE i = 1
    BY <1>2, <1>3, <2>1 DEF LineFits
  <2>2. CASE i # 1
    <3>1. i \in 2..Len(lines)
      BY <1>2, <2>2
    <3>2. QED
      BY <1>1, <3>1 DEF LineFits
  <2>3. QED
    BY <2>1, <2>2
<1>5. proj.open => MintedIn(lines) \notin proj.turns
  <2>1. NoTurn \notin ToSet(idx.order)
    BY RestFacts, TurnsAreNats
  <2>2. QED
    BY <1>1, <1>3, <2>1 DEF ProjFits
<1>6. QED
  BY <1>2, <1>4, <1>5 DEF Pending, Fits

\* The headerless turn is a turn_open of a fresh id.
LEMMA EventTurnIs ==
  ASSUME IInv, Ready, Fresh(idx) <= MaxTurns
  PROVE  /\ EventTurn \in Lines /\ EventTurn.kind = "turn_open" /\ EventTurn.turn = Fresh(idx)
         /\ EventTurn.msg = Fresh(idx) /\ EventTurn.source = "event"
<1>1. Fresh(idx) \in TurnIds /\ TurnCount(idx) + 1 \in Nat
  BY RestFacts, CountIsNat
<1>2. "event" \in Sources
  BY DEF Sources
<1>3. EventTurn \in Lines
  BY <1>1, <1>2, LineMakers DEF EventTurn
<1>4. QED
  BY <1>3 DEF EventTurn, TurnOpenLine

\* An entry between turns keeps the invariant, its minted turn included.
LEMMA AppendBetweenTurnsStep ==
  ASSUME IInv, AppendBetweenTurns
  PROVE  IInv' /\ (status # "up" /\ status' = "up" =>
                      \A t \in SurvivingTurns(idx') : idx'.rows[t].closed)
<1>1. Ready /\ Aside
  BY DEF AppendBetweenTurns, Aside
<1>2. /\ idx.order \in Seq(TurnIds) /\ ToSet(idx.order) \subseteq TurnIds
      /\ idx.rows \in [TurnIds -> Rows]
      /\ Fresh(idx) <= MaxTurns => Fresh(idx) \in TurnIds
  BY <1>1, RestFacts
<1>3. CASE BetweenTurns # NoTurn /\ AppendFirst(<<BodyLine(BetweenTurns, "note")>>)
  <2> DEFINE l == BodyLine(BetweenTurns, "note")
  <2>1. BetweenTurns \in SurvivingTurns(idx)
    BY <1>2, <1>3, NewestIs DEF BetweenTurns
  <2>2. BetweenTurns \in ToSet(idx.order) /\ BetweenTurns \in TurnIds
    BY <1>2, <2>1, SurvivingIs
  <2>3. l \in Lines /\ l.kind = "note" /\ l.turn = BetweenTurns
    BY <2>2, LineMakers DEF BodyLine, BodyKinds
  <2>4. AppendFirst(<<l>>)
    BY <1>3
  <2> HIDE DEF l
  <2>5. Pending(<<l>>)
    BY <1>1, <2>2, <2>3, OneLine
  <2>6. QED
    BY <1>1, <2>4, <2>5, AppendStep DEF Ready
<1>4. CASE Fresh(idx) <= MaxTurns /\ AppendFirst(<<EventTurn, BodyLine(Fresh(idx), "note")>>)
  <2> DEFINE lines == <<EventTurn, BodyLine(Fresh(idx), "note")>>
  <2>1. /\ EventTurn \in Lines /\ EventTurn.kind = "turn_open" /\ EventTurn.turn = Fresh(idx)
        /\ EventTurn.msg = Fresh(idx) /\ EventTurn.source = "event"
    BY <1>1, <1>2, <1>4, EventTurnIs
  <2>2. /\ BodyLine(Fresh(idx), "note") \in Lines
        /\ BodyLine(Fresh(idx), "note").kind = "note"
        /\ BodyLine(Fresh(idx), "note").turn = Fresh(idx)
    BY <1>2, <1>4, LineMakers DEF BodyLine, BodyKinds
  <2>3. /\ lines \in Seq(Lines) /\ Len(lines) = 2 /\ lines[1] = EventTurn
        /\ lines[2] = BodyLine(Fresh(idx), "note")
    BY <2>1, <2>2
  <2>4. AppendFirst(lines)
    BY <1>4
  <2> HIDE DEF lines
  <2>5. \A i \in 2..Len(lines) : lines[i].turn = Fresh(idx) /\ lines[i].kind = "note"
    BY <2>2, <2>3
  <2>6. /\ lines \in Seq(Lines) /\ Len(lines) > 1 /\ lines[1].kind = "turn_open"
        /\ lines[1].turn = Fresh(idx) /\ lines[1].msg = Fresh(idx) /\ lines[1].source # "revert"
    BY <2>1, <2>3
  <2>7. Pending(lines)
    BY <1>1, <2>5, <2>6, MintedLines
  <2>8. QED
    BY <1>1, <2>4, <2>7, AppendStep DEF Ready
<1>5. QED
  BY <1>3, <1>4 DEF AppendBetweenTurns

----------------------------------------------------------------------------
\* The rewind's record.

\* Any numbers of a sequence have a greatest.
LEMMA Greatest ==
  \A s \in Seq(Nat) : s # <<>> => \E n \in ToSet(s) : \A m \in ToSet(s) : m <= n
<1> DEFINE T == {s \in Seq(Nat) : s # <<>> => \E n \in ToSet(s) : \A m \in ToSet(s) : m <= n}
<1>1. <<>> \in T
  OBVIOUS
<1>2. ASSUME NEW s \in Seq(Nat), NEW x \in Nat, s \in T PROVE Append(s, x) \in T
  <2>1. ToSet(Append(s, x)) = ToSet(s) \cup {x} /\ Append(s, x) \in Seq(Nat)
    BY ToSetAppend, AppendProperties
  <2>2. ToSet(s) \subseteq Nat
    BY LenProperties, ElementOfSeq DEF ToSet
  <2>6. (\E n \in ToSet(s) \cup {x} : \A m \in ToSet(s) \cup {x} : m <= n) => Append(s, x) \in T
    BY <2>1
  <2> HIDE DEF T
  <2>3. CASE s = <<>>
    <3>1. ToSet(s) = {}
      BY <2>3 DEF ToSet
    <3>2. \A m \in ToSet(s) \cup {x} : m <= x
      BY <3>1
    <3>3. QED
      BY <2>6, <3>2
  <2>4. CASE s # <<>>
    <3>1. PICK n \in ToSet(s) : \A m \in ToSet(s) : m <= n
      BY <1>2, <2>4 DEF T
    <3>2. n \in Nat
      BY <2>2
    <3>3. CASE x <= n
      <4>1. \A m \in ToSet(s) \cup {x} : m <= n
        BY <3>1, <3>3
      <4>2. QED
        BY <2>6, <4>1
    <3>4. CASE ~(x <= n)
      <4>1. \A m \in ToSet(s) \cup {x} : m <= x
        BY <2>2, <3>1, <3>2, <3>4
      <4>2. QED
        BY <2>6, <4>1
    <3>5. QED
      BY <3>3, <3>4
  <2>5. QED
    BY <2>3, <2>4
<1>3. Seq(Nat) \subseteq T
  <2> HIDE DEF T
  <2>1. QED
    BY <1>1, <1>2, SeqInduct
<1>4. QED
  BY <1>3

\* The high water of a window is a number.
LEMMA HighWaterIsNat ==
  ASSUME NEW ix, ix.order \in Seq(TurnIds), ix.rows \in [TurnIds -> Rows], NEW W
  PROVE  HighWater(ix, W) \in Nat
<1> DEFINE out == Outside(ix, W)
           ns  == {ix.rows[t].n : t \in ToSet(out)}
           s   == [i \in 1..Len(out) |-> ix.rows[out[i]].n]
<1>1. out \in Seq(TurnIds)
  BY NewestIs
<1> HIDE DEF out
<1>2. Len(out) \in Nat /\ DOMAIN out = 1..Len(out) /\ \A i \in 1..Len(out) : out[i] \in TurnIds
  BY <1>1, LenProperties, ElementOfSeq
<1>3. \A t \in TurnIds : ix.rows[t].n \in Nat
  BY DEF Rows
<1>4. s \in Seq(Nat) /\ DOMAIN s = 1..Len(out)
  BY <1>2, <1>3, SeqDef
<1>5. ToSet(s) = ns
  BY <1>2 DEF ToSet
<1>6. ns \subseteq Nat
  BY <1>2, <1>3 DEF ToSet
<1> HIDE DEF s
<1>7. CASE ns = {}
  BY <1>7 DEF HighWater, out
<1>8. CASE ns # {}
  <2>1. s # <<>>
    <3>1. ToSet(<<>>) = {}
      BY DEF ToSet
    <3>2. QED
      BY <1>5, <1>8, <3>1
  <2>2. \E n \in ns : \A m \in ns : m <= n
    BY <1>4, <1>5, <2>1, Greatest
  <2>3. HighWater(ix, W) = CHOOSE n \in ns : \A m \in ns : m <= n
    BY <1>8 DEF HighWater, out
  <2> HIDE DEF ns
  <2>4. QED
    BY <1>6, <2>2, <2>3
<1>9. QED
  BY <1>7, <1>8

\* A rewind's record keeps the invariant, its minted carrier included.
LEMMA RecordRevertStep ==
  ASSUME IInv, RecordRevert
  PROVE  IInv' /\ (status # "up" /\ status' = "up" =>
                      \A t \in SurvivingTurns(idx') : idx'.rows[t].closed)
<1> DEFINE t       == rewind.turn
           order   == idx.order
           carrier == CarrierOf(t)
           last    == Last(order)
           record  == RevertLine(carrier, t, last)
<1>1. Ready /\ status = "up" /\ proj' = proj /\ crashes' = crashes
  BY DEF RecordRevert, Ready
<1>2. CASE UNCHANGED <<disk, idx, status, failed, todo, live, history>>
  <2>1. /\ disk' = disk /\ idx' = idx /\ status' = status /\ failed' = failed /\ todo' = todo
        /\ live' = live /\ acked' = acked /\ hidden' = hidden /\ asked' = asked /\ proj' = proj
    BY <1>1, <1>2 DEF history
  <2>2. DiskInv' /\ MemoryInv'
    BY <2>1 DEF IInv, DiskInv, MemoryInv, Held
  <2>3. TodoInv'
    BY <1>1, <2>1 DEF IInv, TodoInv
  <2>4. QED
    BY <1>1, <2>1, <2>2, <2>3 DEF IInv
<1>3. CASE /\ t \in SurvivingTurns(idx)
           /\ carrier <= MaxTurns
           /\ AppendFirst(RevertLines(t, carrier, last))
  <2>1. /\ order \in Seq(TurnIds) /\ Len(order) \in Nat /\ IsInjective(order)
        /\ ToSet(order) = 1..Len(order) /\ ToSet(order) \subseteq TurnIds
        /\ idx.rows \in [TurnIds -> Rows]
        /\ Fresh(idx) \notin ToSet(order)
        /\ Fresh(idx) <= MaxTurns => Fresh(idx) \in TurnIds
    BY <1>1, RestFacts
  <2>2. t \in ToSet(order) /\ ~idx.rows[t].reverted /\ t \in TurnIds
    BY <1>3, <2>1, SurvivingIs
  <2>3. Pos(order, t) \in 1..Len(order) /\ Len(order) > 0
    BY <2>1, <2>2, PosPresent
  <2>4. last = order[Len(order)] /\ last \in ToSet(order) /\ last \in TurnIds
        /\ Pos(order, last) = Len(order)
    <3>1. Len(order) \in 1..Len(order) /\ DOMAIN order = 1..Len(order)
      BY <2>1, <2>3, LenProperties
    <3>2. last = order[Len(order)]
      BY DEF Last
    <3>3. Pos(order, order[Len(order)]) = Len(order)
      BY <2>1, <3>1, PosAt
    <3>4. last \in ToSet(order)
      BY <3>1, <3>2 DEF ToSet
    <3>5. QED
      BY <2>1, <3>2, <3>3, <3>4
  <2>5. \/ carrier = Fresh(idx)
        \/ carrier \in SurvivingTurns(idx) \ Window(idx, t)
    BY <2>1, NewestIs DEF CarrierOf
  <2>6. /\ record.kind = "turn_revert" /\ record.turn = carrier
        /\ record.from = t /\ record.through = last
    BY DEF RevertLine
  <2>7. Pos(order, carrier) \notin Pos(order, t) .. Len(order)
    <3>1. CASE carrier = Fresh(idx)
      <4>1. Pos(order, carrier) = 0
        BY <2>1, <3>1, PosAbsent
      <4>2. QED
        BY <2>3, <4>1
    <3>2. CASE carrier \in SurvivingTurns(idx) \ Window(idx, t)
      <4>1. carrier \in ToSet(order)
        BY <2>1, <3>2, SurvivingIs
      <4>2. ~(Pos(order, t) <= Pos(order, carrier))
        BY <3>2, <4>1 DEF Window
      <4>3. QED
        BY <2>3, <4>2
    <3>3. QED
      BY <2>5, <3>1, <3>2
  <2>8. RecordFits(order, record)
    BY <2>2, <2>3, <2>4, <2>6, <2>7 DEF RecordFits
  <2>9. Pending(RevertLines(t, carrier, last)) /\ Aside
    <3>1. Aside
      BY <1>1 DEF Aside
    <3>2. carrier \in TurnIds
      BY <1>3, <2>1, <2>5, SurvivingIs
    <3>3. record \in Lines
      BY <2>2, <2>4, <3>2, LineMakers
    <3>4. CASE carrier # Fresh(idx)
      <4>1. carrier \in ToSet(order) /\ ~idx.rows[carrier].reverted
        BY <2>1, <2>5, <3>4, SurvivingIs
      <4>2. RevertLines(t, carrier, last) = <<record>>
        BY <3>4 DEF RevertLines
      <4> HIDE DEF record, carrier, t, last
      <4>3. Pending(<<record>>)
        BY <1>1, <2>2, <2>6, <2>8, <3>3, <4>1, OneLine
      <4>4. QED
        BY <3>1, <4>2, <4>3
    <3>5. CASE carrier = Fresh(idx)
      <4> DEFINE n     == HighWater(idx, Window(idx, t)) + 1
                 open  == TurnOpenLine(carrier, "revert", n, carrier)
                 close == TurnCloseLine(carrier, "ended")
                 lines == <<open, close, record>>
      <4>1. n \in Nat
        BY <2>1, HighWaterIsNat
      <4>2. open \in Lines /\ close \in Lines
        BY <3>2, <4>1, LineMakers DEF Sources, Raws
      <4>3. /\ open.kind = "turn_open" /\ open.turn = Fresh(idx) /\ open.msg = Fresh(idx)
            /\ close.kind = "turn_close" /\ close.turn = Fresh(idx)
        BY <3>5 DEF TurnOpenLine, TurnCloseLine
      <4>4. RevertLines(t, carrier, last) = lines
        BY <3>5 DEF RevertLines
      <4> HIDE DEF open, close, record, t, last
      <4>5. /\ lines \in Seq(Lines) /\ Len(lines) = 3 /\ lines[1] = open /\ lines[2] = close
            /\ lines[3] = record /\ Last(lines) = record
        BY <3>3, <4>2 DEF Last
      <4> HIDE DEF lines
      <4>6. \A i \in 2..Len(lines) : i = 2 \/ i = 3
        BY <4>5
      <4>7. ASSUME NEW i \in 2..Len(lines)
            PROVE  /\ lines[i].turn = Fresh(idx)
                   /\ lines[i].kind \in {"note", "turn_close", "reconciled", "turn_revert"}
                   /\ lines[i].kind = "turn_revert" =>
                        i = Len(lines) /\ RecordFits(order, lines[i])
                          /\ ~idx.rows[lines[i].from].reverted
        BY <2>2, <2>6, <2>8, <3>5, <4>3, <4>5, <4>6
      <4>8. Pending(lines)
        <5>1. Last(lines).kind = "turn_revert" /\ Len(lines) > 1
          BY <2>6, <4>5
        <5>2. /\ lines \in Seq(Lines) /\ lines[1].kind = "turn_open"
              /\ lines[1].turn = Fresh(idx) /\ lines[1].msg = Fresh(idx)
          BY <4>3, <4>5
        <5>3. QED
          BY <1>1, <4>7, <5>1, <5>2, MintedLines
      <4>9. QED
        BY <3>1, <4>4, <4>8
    <3>6. QED
      BY <3>4, <3>5
  <2>10. QED
    BY <1>1, <1>3, <2>9, AppendStep
<1>4. QED
  BY <1>2, <1>3 DEF RecordRevert

----------------------------------------------------------------------------
\* The beginning, a crash, and the steps that leave the log alone.

\* The empty file is well formed, and its index is empty.
LEMMA NothingWritten ==
  /\ WellFormed(<<>>) /\ Readable(<<>>) = <<>> /\ EmptyIndex = IndexOf(<<>>, NoTurn)
<1>1. <<>> \in Seq(Lines) /\ DOMAIN <<>> = {} /\ Len(<<>>) = 0
  OBVIOUS
<1>2. ToSet(<<>>) = {} /\ Records(<<>>) = {} /\ OrderOf(<<>>) = <<>>
  BY OrderEmpty DEF ToSet, Records
<1>3. OrderFits(<<>>)
  BY <1>1, <1>2 DEF OrderFits, IsInjective
<1>4. WellFormed(<<>>)
  BY <1>1, <1>2, <1>3 DEF WellFormed
<1>5. Readable(<<>>) = <<>>
  BY <1>1, ReadableClean
<1>6. \A t : RowOf(<<>>, t) = NoRow /\ Hides(<<>>, t) = FALSE
  BY <1>2, OfKindEmpty DEF RowOf, Hides
<1>7. ASSUME NEW t \in TurnIds
      PROVE  [RowOf(<<>>, t) EXCEPT !.reverted =
                  Hides(<<>>, t) \/ (t # NoTurn /\ IncompleteCarrier(RowOf(<<>>, t)))] = NoRow
  <2>1. IncompleteCarrier(NoRow) = FALSE
    BY DEF IncompleteCarrier, NoRow
  <2>2. (Hides(<<>>, t) \/ (t # NoTurn /\ IncompleteCarrier(RowOf(<<>>, t)))) = FALSE
    BY <1>6, <2>1
  <2>3. [NoRow EXCEPT !.reverted = FALSE] = NoRow
    <3>1. Shaped(NoRow) /\ NoRow.reverted = FALSE
      BY DEF Shaped, NoRow
    <3>2. QED
      BY <3>1 DEF Shaped
  <2>4. QED
    BY <1>6, <2>2, <2>3
<1>8. UNION {Clears(<<>>[i]) : i \in DOMAIN <<>>} = {}
  BY <1>1
<1>9. IndexOf(<<>>, NoTurn) = [size |-> 0, order |-> <<>>, rows |-> [t \in TurnIds |-> NoRow],
                              cleared |-> {}, newest |-> NoTurn]
  BY <1>1, <1>2, <1>7, <1>8 DEF IndexOf
<1>10. QED
  BY <1>4, <1>5, <1>9 DEF EmptyIndex

\* A new log satisfies the invariant.
LEMMA InitInv == Init => IInv
<1> SUFFICES ASSUME Init PROVE IInv
  OBVIOUS
<1>1. /\ disk = <<>> /\ idx = EmptyIndex /\ status = "up" /\ failed = FALSE /\ todo = <<>>
      /\ live = {} /\ rewind = NoRewind /\ proj = NoProjection /\ acked = {} /\ hidden = {}
      /\ asked = {}
  BY DEF Init
<1>2. MintedIn(<<>>) = NoTurn /\ SubSeq(<<>>, 1, 0) = <<>> /\ Len(<<>>) = 0
  BY DEF MintedIn
<1>3. Keeps(<<>>, {}, {}, {})
  BY DEF Keeps, Hides, Records, ToSet
<1>4. DiskInv
  BY <1>1, <1>3, NothingWritten DEF DiskInv
<1>5. idx.size = 0
  BY <1>1 DEF EmptyIndex
<1>6. Held = <<>>
  BY <1>1, <1>2, <1>5 DEF Held
<1>7. MemoryInv
  BY <1>1, <1>2, <1>3, <1>5, <1>6, NothingWritten DEF MemoryInv
<1>8. TodoInv
  BY <1>1 DEF TodoInv
<1>9. ProjFits(proj, idx, todo)
  BY <1>1 DEF ProjFits, NoProjection
<1>10. QED
  BY <1>1, <1>4, <1>7, <1>8, <1>9 DEF IInv

\* So does one whose process died.
LEMMA CrashStep ==
  ASSUME IInv, Crash
  PROVE  IInv'
<1>1. /\ disk' = disk /\ acked' = acked /\ hidden' = hidden /\ asked' = asked
      /\ idx' = EmptyIndex /\ status' = "down" /\ failed' = FALSE /\ todo' = <<>>
      /\ live' = {} /\ rewind' = NoRewind /\ proj' = NoProjection
  BY DEF Crash, history
<1>2. DiskInv'
  BY <1>1 DEF IInv, DiskInv
<1>3. MemoryInv'
  BY <1>1 DEF MemoryInv
<1>4. TodoInv'
  BY <1>1 DEF TodoInv
<1>5. ProjFits(proj', idx', todo')
  BY <1>1 DEF ProjFits, NoProjection
<1>6. QED
  BY <1>1, <1>2, <1>3, <1>4, <1>5 DEF IInv

\* A step of a log at rest that changes neither the file nor the index.
LEMMA QuietStep ==
  ASSUME IInv, Ready,
         UNCHANGED <<disk, idx, status, failed, todo, live, acked, hidden, asked>>,
         ProjFits(proj', idx, <<>>)
  PROVE  IInv'
<1>1. status = "up" /\ todo = <<>>
  BY DEF Ready
<1>2. DiskInv' /\ MemoryInv'
  BY DEF IInv, DiskInv, MemoryInv, Held
<1>3. TodoInv'
  BY <1>1 DEF IInv, TodoInv
<1>4. QED
  BY <1>1, <1>2, <1>3 DEF IInv

\* The snapshot is of a turn a record has hidden.
LEMMA OpenProjectionStep ==
  ASSUME IInv, OpenReplayProjection
  PROVE  IInv'
<1>1. /\ Ready /\ proj' = [open |-> TRUE, snapshot |-> idx.newest, turns |-> ReplayTurns]
      /\ UNCHANGED <<disk, idx, status, failed, todo, live, acked, hidden, asked>>
  BY DEF OpenReplayProjection, history
<1> DEFINE ix == idx
           L  == Held
<1>2. /\ WellFormed(L) /\ ix = IndexOf(L, NoTurn)
      /\ ix.order \in Seq(TurnIds) /\ ToSet(ix.order) \subseteq TurnIds
  BY <1>1, RestFacts
<1>3. ReplayTurns \subseteq SurvivingTurns(ix)
  BY DEF ReplayTurns
<1> HIDE DEF ix, L
<1>4. SurvivingTurns(ix) \subseteq ToSet(ix.order)
  BY <1>2, SurvivingIs
<1>5. ASSUME ix.newest # NoTurn
      PROVE  ix.newest \in ToSet(ix.order) /\ ix.rows[ix.newest].reverted
  <2>1. ix.newest \in ToSet(OrderOf(L)) /\ Hides(L, ix.newest)
    BY <1>2, <1>5, NewestIsHidden
  <2>2. ix.order = OrderOf(L)
    BY <1>2, IndexFacts
  <2>3. ix.newest \in TurnIds
    BY <1>2, <2>1, <2>2
  <2> DEFINE n == ix.newest
  <2> HIDE DEF n
  <2>4. n \in TurnIds => (ix.rows[n].reverted <=>
             Hides(L, n) \/ (n # NoTurn /\ IncompleteCarrier(ix.rows[n])))
    BY <1>2, IndexFacts
  <2>5. QED
    BY <2>1, <2>2, <2>3, <2>4 DEF n
<1>6. MintedIn(<<>>) \notin TurnIds
  BY TurnsAreNats DEF MintedIn
<1>7. ProjFits([open |-> TRUE, snapshot |-> ix.newest, turns |-> ReplayTurns], ix, <<>>)
  BY <1>2, <1>3, <1>4, <1>5, <1>6 DEF ProjFits
<1>8. QED
  BY <1>1, <1>7, QuietStep DEF ix

----------------------------------------------------------------------------
\* Opening the log.

\* The lines that close the turns a scan found open.
LEMMA ClosersAre ==
  ASSUME NEW L, WellFormed(L), NEW ix, ix = IndexOf(L, NoTurn)
  PROVE  /\ ClosersOf(ix) \in Seq(Lines)
         /\ \A l \in ToSet(ClosersOf(ix)) :
               /\ l.kind \in {"tool_result", "turn_close"} /\ l.turn \in ToSet(ix.order)
               /\ l.kind = "tool_result" => ix.rows[l.turn].call = "open"
         /\ \A t \in SurvivingTurns(ix) :
               ix.rows[t].closed \/ TurnCloseLine(t, "unterminated") \in ToSet(ClosersOf(ix))
<1> DEFINE I     == {i \in DOMAIN ix.order : /\ ~ix.rows[ix.order[i]].reverted
                                            /\ ~ix.rows[ix.order[i]].closed}
           open  == Pick(ix.order, I)
           lists == [i \in 1..Len(open) |-> SynthesizedClose(ix, open[i])]
<1>1. /\ ix.order \in Seq(TurnIds) /\ ToSet(ix.order) \subseteq TurnIds
      /\ ix.rows \in [TurnIds -> Rows]
  BY IndexFacts
<1>2. /\ open \in Seq(TurnIds)
      /\ ToSet(open) = {ix.order[i] : i \in {j \in 1..Len(ix.order) : j \in I}}
      /\ DOMAIN ix.order = 1..Len(ix.order)
  BY <1>1, PickElements, LenProperties
<1>3. {ix.order[i] : i \in {j \in 1..Len(ix.order) : j \in I}} =
         {t \in SurvivingTurns(ix) : ~ix.rows[t].closed}
  <2>1. SurvivingTurns(ix) = {t \in ToSet(ix.order) : ~ix.rows[t].reverted}
    BY <1>1, SurvivingIs
  <2>2. QED
    BY <1>2, <2>1 DEF ToSet
<1>4. ToSet(open) = {t \in SurvivingTurns(ix) : ~ix.rows[t].closed}
  BY <1>2, <1>3
<1>5. OpenTurns(ix) = open
  BY DEF OpenTurns
<1> HIDE DEF open
<1>6. DOMAIN open = 1..Len(open) /\ Len(open) \in Nat /\ \A i \in 1..Len(open) : open[i] \in TurnIds
  BY <1>2, LenProperties, ElementOfSeq
<1>7. ClosersOf(ix) = FlattenSeq(lists)
  BY <1>5, <1>6 DEF ClosersOf
<1>8. ASSUME NEW t \in TurnIds
      PROVE  /\ SynthesizedClose(ix, t) \in Seq(Lines)
             /\ ToSet(SynthesizedClose(ix, t)) =
                   (IF ix.rows[t].call = "open" THEN {BodyLine(t, "tool_result")} ELSE {})
                      \cup {TurnCloseLine(t, "unterminated")}
  <2> DEFINE result == BodyLine(t, "tool_result")
             close  == TurnCloseLine(t, "unterminated")
             first  == IF ix.rows[t].call = "open" THEN <<result>> ELSE <<>>
  <2>1. result \in Lines /\ close \in Lines
    BY LineMakers DEF BodyKinds, Raws
  <2> HIDE DEF result, close
  <2>2. /\ first \in Seq(Lines) /\ <<close>> \in Seq(Lines)
        /\ ToSet(first) = IF ix.rows[t].call = "open" THEN {result} ELSE {}
        /\ ToSet(<<close>>) = {close}
    <3>1. \A x : ToSet(<<x>>) = {x}
      BY DEF ToSet
    <3>2. ToSet(<<>>) = {} /\ <<>> \in Seq(Lines)
      BY DEF ToSet
    <3>4. <<result>> \in Seq(Lines) /\ <<close>> \in Seq(Lines)
      BY <2>1
    <3>5. CASE ix.rows[t].call = "open"
      <4>1. first = <<result>>
        BY <3>5
      <4>2. QED
        BY <3>1, <3>4, <3>5, <4>1
    <3>6. CASE ix.rows[t].call # "open"
      <4>1. first = <<>>
        BY <3>6
      <4>2. QED
        BY <3>1, <3>2, <3>4, <3>6, <4>1
    <3>3. QED
      BY <3>5, <3>6
  <2>3. SynthesizedClose(ix, t) = first \o <<close>>
    BY DEF SynthesizedClose, result, close
  <2> HIDE DEF first
  <2>4. first \o <<close>> \in Seq(Lines) /\ ToSet(first \o <<close>>) = ToSet(first) \cup ToSet(<<close>>)
    <3> DEFINE last == <<close>>
    <3>1. first \in Seq(Lines) /\ last \in Seq(Lines)
      BY <2>2
    <3> HIDE DEF last
    <3>2. first \o last \in Seq(Lines)
      BY <3>1, ConcatProperties
    <3>3. ToSet(first \o last) = ToSet(first) \cup ToSet(last)
      BY <3>1, ToSetConcat
    <3>4. QED
      BY <3>2, <3>3 DEF last
  <2>5. QED
    BY <2>2, <2>3, <2>4 DEF result, close
<1>9. lists \in Seq(Seq(Lines)) /\ Len(lists) = Len(open)
      /\ \A i \in 1..Len(open) : lists[i] = SynthesizedClose(ix, open[i])
  BY <1>6, <1>8, SeqDef
<1> HIDE DEF lists
<1>10. /\ ClosersOf(ix) \in Seq(Lines)
       /\ ToSet(ClosersOf(ix)) = UNION {ToSet(lists[i]) : i \in 1..Len(lists)}
  BY <1>7, <1>9, FlattenElements
<1>11. ASSUME NEW l \in ToSet(ClosersOf(ix))
       PROVE  /\ l.kind \in {"tool_result", "turn_close"} /\ l.turn \in ToSet(ix.order)
              /\ l.kind = "tool_result" => ix.rows[l.turn].call = "open"
  <2>1. PICK i \in 1..Len(open) : l \in ToSet(SynthesizedClose(ix, open[i]))
    BY <1>9, <1>10
  <2> DEFINE t == open[i]
  <2>2. t \in TurnIds /\ t \in ToSet(ix.order)
    <3>1. t \in ToSet(open)
      BY <1>6 DEF ToSet
    <3>2. QED
      BY <1>1, <1>4, <3>1, SurvivingIs
  <2> HIDE DEF t
  <2>3. \/ ix.rows[t].call = "open" /\ l = BodyLine(t, "tool_result")
        \/ l = TurnCloseLine(t, "unterminated")
    BY <1>8, <2>1, <2>2 DEF t
  <2>4. QED
    BY <2>2, <2>3 DEF BodyLine, TurnCloseLine
<1>12. ASSUME NEW t \in SurvivingTurns(ix), ~ix.rows[t].closed
       PROVE  TurnCloseLine(t, "unterminated") \in ToSet(ClosersOf(ix))
  <2>1. PICK i \in 1..Len(open) : open[i] = t
    BY <1>4, <1>6, <1>12 DEF ToSet
  <2>2. t \in TurnIds
    BY <1>6, <2>1
  <2>3. TurnCloseLine(t, "unterminated") \in ToSet(lists[i])
    BY <1>8, <1>9, <2>1, <2>2
  <2>4. QED
    BY <1>9, <1>10, <2>3
<1>13. QED
  BY <1>10, <1>11, <1>12

\* The scan of an open, with the closers it synthesizes, satisfies the invariant.
LEMMA OpenEntryLogStep ==
  ASSUME IInv, OpenEntryLog
  PROVE  IInv' /\ (status # "up" /\ status' = "up" =>
                      \A t \in SurvivingTurns(idx') : idx'.rows[t].closed)
<1> DEFINE R == Readable(disk)
<1>1. /\ status = "down" /\ disk' = R /\ idx' = Rescan(R) /\ todo' = ClosersOf(idx')
      /\ status' = IF todo' = <<>> THEN "up" ELSE "recovering"
      /\ failed' = failed /\ live' = live /\ rewind' = rewind /\ proj' = proj
      /\ acked' = acked /\ hidden' = hidden /\ asked' = asked
  BY DEF OpenEntryLog, Truncated, history
<1>2. WellFormed(R) /\ Keeps(R, acked, hidden, asked)
      /\ failed = FALSE /\ live = {} /\ rewind = NoRewind /\ proj = NoProjection
  BY <1>1 DEF IInv, DiskInv, TodoInv
<1> HIDE DEF R
<1>3. R \in Seq(Lines) /\ idx' = IndexOf(R, NoTurn)
  BY <1>1, <1>2, IndexIsRescan DEF WellFormed
<1>4. Readable(disk') = R
  BY <1>1, <1>3, ReadableClean
<1>5. idx'.size = Len(R) /\ Len(R) \in Nat /\ Held' = R
  <2>1. idx'.size = Len(R)
    BY <1>3 DEF IndexOf
  <2>2. QED
    BY <1>1, <1>3, <2>1, Prefix, LenProperties DEF Held
<1>6. /\ todo' \in Seq(Lines)
      /\ \A l \in ToSet(todo') :
            /\ l.kind \in {"tool_result", "turn_close"} /\ l.turn \in ToSet(idx'.order)
            /\ l.kind = "tool_result" => idx'.rows[l.turn].call = "open"
      /\ \A t \in SurvivingTurns(idx') :
            idx'.rows[t].closed \/ TurnCloseLine(t, "unterminated") \in ToSet(todo')
  BY <1>1, <1>2, <1>3, ClosersAre
<1>7. /\ DOMAIN todo' = 1..Len(todo') /\ Len(todo') \in Nat
      /\ \A i \in 1..Len(todo') : todo'[i] \in ToSet(todo') /\ todo'[i] \in Lines
  BY <1>6, LenProperties, ElementOfSeq DEF ToSet
<1>8. todo' # <<>> => 1 \in 1..Len(todo') /\ Len(todo') \in 1..Len(todo')
  BY <1>6, <1>7, EmptySeq
<1>9. MintedIn(todo') = NoTurn
  BY <1>6, <1>7, <1>8 DEF MintedIn, Last
<1>10. ASSUME NEW i \in 1..Len(todo') PROVE LineFits(idx', todo', i)
  <2> DEFINE l == todo'[i]
  <2>1. /\ l \in Lines /\ l.kind \in {"tool_result", "turn_close"} /\ l.turn \in ToSet(idx'.order)
        /\ l.kind = "tool_result" => idx'.rows[l.turn].call # "none"
    BY <1>6, <1>7
  <2> HIDE DEF l
  <2>2. QED
    BY <2>1 DEF LineFits, l
<1>11. todo' # <<>> => Fits(idx', todo') /\ todo'[1].kind # "turn_open"
  BY <1>6, <1>7, <1>8, <1>10 DEF Fits
<1>12. todo' # <<>> => Recovers(idx', todo')
  <2>1. ASSUME NEW t \in SurvivingTurns(idx'), ~idx'.rows[t].closed
        PROVE  \E i \in 1..Len(todo') : todo'[i].turn = t /\ todo'[i].kind = "turn_close"
    <3>1. TurnCloseLine(t, "unterminated") \in ToSet(todo')
      BY <1>6, <2>1
    <3>2. PICK i \in 1..Len(todo') : todo'[i] = TurnCloseLine(t, "unterminated")
      BY <1>7, <3>1 DEF ToSet
    <3>3. QED
      BY <3>2 DEF TurnCloseLine
  <2>2. QED
    BY <1>6, <1>7, <2>1 DEF Recovers
<1>13. DiskInv'
  BY <1>1, <1>2, <1>4 DEF DiskInv
<1>14. MemoryInv'
  <2>1. idx'.size \in 0..Len(Readable(disk'))
    BY <1>4, <1>5
  <2>2. QED
    BY <1>1, <1>2, <1>3, <1>5, <1>9, <2>1 DEF MemoryInv
<1>15. TodoInv'
  BY <1>1, <1>2, <1>11, <1>12 DEF TodoInv
<1>16. ProjFits(proj', idx', todo')
  BY <1>1, <1>2 DEF ProjFits, NoProjection
<1>17. ASSUME todo' = <<>>, NEW t \in SurvivingTurns(idx') PROVE idx'.rows[t].closed
  <2>1. ToSet(todo') = {}
    BY <1>17 DEF ToSet
  <2>2. QED
    BY <1>6, <2>1
<1>18. status' \in {"down", "recovering", "up"} /\ failed' \in BOOLEAN
  BY <1>1, <1>2
<1>19. QED
  BY <1>1, <1>13, <1>14, <1>15, <1>16, <1>17, <1>18 DEF IInv

----------------------------------------------------------------------------
\* The merge that adds nothing.

\* The answers to the signals, each in a turn of the log.
LEMMA AnswersPending ==
  ASSUME IInv, Ready, NEW lines \in Seq(Lines), lines # <<>>,
         \A l \in ToSet(lines) : l.kind = "reconciled" /\ l.turn \in ToSet(idx.order)
  PROVE  Pending(lines)
<1>1. /\ DOMAIN lines = 1..Len(lines) /\ Len(lines) \in Nat /\ Len(lines) \in 1..Len(lines)
      /\ \A i \in 1..Len(lines) : lines[i] \in ToSet(lines) /\ lines[i] \in Lines
  BY LenProperties, EmptySeq, ElementOfSeq DEF ToSet
<1>2. \A i \in 1..Len(lines) : LineFits(idx, lines, i)
  BY <1>1 DEF LineFits
<1>3. MintedIn(lines) = NoTurn
  BY <1>1 DEF MintedIn, Last
<1>4. proj.open => NoTurn \notin proj.turns
  BY RestFacts, TurnsAreNats DEF IInv, ProjFits
<1>5. QED
  BY <1>2, <1>3, <1>4 DEF Pending, Fits

\* The turns a merge is asked for survive.
LEMMA TargetsAre ==
  ASSUME NEW ix, ix.order \in Seq(TurnIds)
  PROVE  TargetTurns(ix) \in Seq(TurnIds) /\ ToSet(TargetTurns(ix)) \subseteq SurvivingTurns(ix)
<1> DEFINE I == {i \in DOMAIN ix.order : /\ ~ix.rows[ix.order[i]].reverted
                                        /\ ix.rows[ix.order[i]].unterminated
                                        /\ ix.order[i] \notin ix.cleared}
<1>1. /\ TargetTurns(ix) \in Seq(TurnIds)
      /\ ToSet(TargetTurns(ix)) = {ix.order[i] : i \in {j \in 1..Len(ix.order) : j \in I}}
  BY PickElements DEF TargetTurns
<1>2. DOMAIN ix.order = 1..Len(ix.order)
  BY LenProperties
<1>3. {ix.order[i] : i \in {j \in 1..Len(ix.order) : j \in I}} \subseteq
         {t \in ToSet(ix.order) : ~ix.rows[t].reverted}
  BY <1>2 DEF ToSet
<1>4. QED
  BY <1>1, <1>3, SurvivingIs

\* The records of a merge that adds nothing keep the invariant.
LEMMA SwapClearsStep ==
  ASSUME IInv, SwapClears
  PROVE  IInv' /\ (status # "up" /\ status' = "up" =>
                      \A t \in SurvivingTurns(idx') : idx'.rows[t].closed)
<1> DEFINE turns   == TargetTurns(idx)
           answers == [i \in DOMAIN turns |-> ReconciledLine(turns[i], turns[i])]
           lines   == answers \o SessionRecord
<1>1. /\ Ready /\ Gates /\ proj' = NoProjection /\ rewind' = rewind
      /\ AppendFirst(lines)
      /\ BetweenTurns = NoTurn => Fresh(idx) <= MaxTurns
  BY DEF SwapClears
<1>2. Aside /\ status # "down"
  BY <1>1 DEF Aside, Ready
<1>3. /\ idx.order \in Seq(TurnIds) /\ ToSet(idx.order) \subseteq TurnIds
      /\ Fresh(idx) <= MaxTurns => Fresh(idx) \in TurnIds
  BY <1>1, RestFacts
<1>4. turns \in Seq(TurnIds) /\ ToSet(turns) \subseteq SurvivingTurns(idx)
  BY <1>3, TargetsAre
<1>5. SurvivingTurns(idx) \subseteq ToSet(idx.order)
  BY <1>3, SurvivingIs
<1>6. turns = <<>> => Unadopted(idx)
  BY <1>1 DEF Gates, NeedsReconcile
<1>7. \/ BetweenTurns = NoTurn /\ SurvivingTurns(idx) = {}
      \/ BetweenTurns \in SurvivingTurns(idx)
  BY <1>3, NewestIs DEF BetweenTurns
<1> HIDE DEF turns
<1>8. DOMAIN turns = 1..Len(turns) /\ Len(turns) \in Nat /\ \A i \in 1..Len(turns) : turns[i] \in TurnIds
  BY <1>4, LenProperties, ElementOfSeq
<1>9. answers \in Seq(Lines)
      /\ \A l \in ToSet(answers) : l.kind = "reconciled" /\ l.turn \in ToSet(idx.order)
  <2>1. ASSUME NEW i \in 1..Len(turns)
        PROVE  /\ answers[i] \in Lines /\ answers[i].kind = "reconciled"
               /\ answers[i].turn \in ToSet(idx.order)
    <3>1. answers[i] = ReconciledLine(turns[i], turns[i]) /\ turns[i] \in TurnIds
      BY <1>8
    <3>2. turns[i] \in ToSet(turns)
      BY <1>8 DEF ToSet
    <3>3. ReconciledLine(turns[i], turns[i]) \in Lines
      BY <3>1, LineMakers
    <3>4. turns[i] \in ToSet(idx.order)
      BY <1>4, <1>5, <3>2
    <3>5. QED
      BY <3>1, <3>3, <3>4 DEF ReconciledLine
  <2>2. DOMAIN answers = 1..Len(turns)
    BY <1>8
  <2>3. answers \in [1..Len(turns) -> Lines]
    BY <1>8, <2>1
  <2> HIDE DEF answers
  <2>4. answers \in Seq(Lines)
    BY <1>8, <2>3, SeqDef
  <2>5. QED
    BY <2>1, <2>2, <2>4 DEF ToSet
<1>10. CASE BetweenTurns # NoTurn
  <2>1. BetweenTurns \in ToSet(idx.order) /\ BetweenTurns \in TurnIds
    BY <1>3, <1>5, <1>7, <1>10
  <2> DEFINE l == ReconciledLine(BetweenTurns, Session)
  <2>2. l \in Lines /\ l.kind = "reconciled" /\ l.turn = BetweenTurns
    BY <2>1, LineMakers DEF ReconciledLine
  <2>3. SessionRecord = IF Unadopted(idx) THEN <<l>> ELSE <<>>
    BY <1>10 DEF SessionRecord
  <2> HIDE DEF l, answers
  <2>4. /\ SessionRecord \in Seq(Lines)
        /\ \A m \in ToSet(SessionRecord) : m.kind = "reconciled" /\ m.turn \in ToSet(idx.order)
    <3>1. <<l>> \in Seq(Lines) /\ <<>> \in Seq(Lines)
      BY <2>2
    <3>2. ToSet(<<l>>) = {l} /\ ToSet(<<>>) = {}
      BY DEF ToSet
    <3>3. QED
      BY <2>1, <2>2, <2>3, <3>1, <3>2
  <2>5. lines \in Seq(Lines) /\ ToSet(lines) = ToSet(answers) \cup ToSet(SessionRecord)
        /\ Len(lines) = Len(answers) + Len(SessionRecord)
    BY <1>9, <2>4, ToSetConcat, ConcatProperties
  <2>6. lines # <<>>
    <3>1. CASE turns = <<>>
      <4>1. Len(SessionRecord) = 1 /\ Len(answers) \in Nat
        BY <1>6, <1>9, <2>3, <3>1, LenProperties
      <4>2. Len(<<>>) = 0
        OBVIOUS
      <4>3. QED
        BY <2>5, <4>1, <4>2
    <3>2. CASE turns # <<>>
      <4>1. Len(answers) > 0
        <5>1. Len(turns) > 0
          BY <1>4, <1>8, <3>2, EmptySeq
        <5>2. DOMAIN answers = 1..Len(turns) /\ DOMAIN answers = 1..Len(answers) /\ Len(answers) \in Nat
          BY <1>8, <1>9, LenProperties DEF answers
        <5>3. 1 \in 1..Len(answers)
          BY <1>8, <5>1, <5>2
        <5>4. QED
          BY <5>2, <5>3
      <4>2. Len(SessionRecord) \in Nat /\ Len(answers) \in Nat
        BY <1>9, <2>4, LenProperties
      <4>3. Len(<<>>) = 0
        OBVIOUS
      <4>4. QED
        BY <2>5, <4>1, <4>2, <4>3
    <3>3. QED
      BY <3>1, <3>2
  <2> HIDE DEF lines
  <2>7. Pending(lines)
    BY <1>1, <1>9, <2>4, <2>5, <2>6, AnswersPending
  <2>8. QED
    BY <1>1, <1>2, <2>7, AppendStep
<1>11. CASE BetweenTurns = NoTurn
  <2>1. SurvivingTurns(idx) = {}
    BY <1>3, <1>7, <1>11, TurnsAreNats, <1>5
  <2>2. turns = <<>>
    BY <1>4, <2>1, NoElements
  <2>3. answers = <<>>
    <3>1. DOMAIN answers = {}
      BY <2>2
    <3> HIDE DEF answers
    <3>2. ToSet(answers) = {}
      BY <3>1 DEF ToSet
    <3>3. QED
      BY <1>9, <3>2, NoElements
  <2> DEFINE close == TurnCloseLine(Fresh(idx), "ended")
             name  == ReconciledLine(Fresh(idx), Session)
             three == <<EventTurn, close, name>>
  <2>4. SessionRecord = three
    BY <1>6, <1>11, <2>2 DEF SessionRecord
  <2>5. /\ EventTurn \in Lines /\ EventTurn.kind = "turn_open" /\ EventTurn.turn = Fresh(idx)
        /\ EventTurn.msg = Fresh(idx) /\ EventTurn.source = "event"
    BY <1>1, <1>11, EventTurnIs
  <2>6. /\ close \in Lines /\ close.kind = "turn_close" /\ close.turn = Fresh(idx)
        /\ name \in Lines /\ name.kind = "reconciled" /\ name.turn = Fresh(idx)
    BY <1>1, <1>3, <1>11, LineMakers DEF TurnCloseLine, ReconciledLine, Raws
  <2> HIDE DEF close, name, answers
  <2>7. /\ three \in Seq(Lines) /\ Len(three) = 3 /\ three[1] = EventTurn /\ three[2] = close
        /\ three[3] = name /\ Last(three) = name
    BY <2>5, <2>6 DEF Last
  <2> HIDE DEF three
  <2>8. lines = three
    BY <2>3, <2>4, <2>7, ConcatEmptySeq
  <2>9. \A i \in 2..Len(three) : i = 2 \/ i = 3
    BY <2>7
  <2>10. ASSUME NEW i \in 2..Len(three)
         PROVE  /\ three[i].turn = Fresh(idx)
                /\ three[i].kind \in {"turn_close", "reconciled"}
    BY <2>6, <2>7, <2>9
  <2>11. Pending(three)
    <3>1. /\ Len(three) > 1 /\ three[1].kind = "turn_open"
          /\ three[1].turn = Fresh(idx) /\ three[1].msg = Fresh(idx) /\ three[1].source # "revert"
      BY <2>5, <2>7
    <3>2. QED
      BY <1>1, <2>7, <2>10, <3>1, MintedLines
  <2> HIDE DEF lines
  <2>12. QED
    BY <1>1, <1>2, <2>8, <2>11, AppendStep
<1>12. QED
  BY <1>10, <1>11

\* The next line of the operation in progress keeps the invariant.
LEMMA AppendNextStep ==
  ASSUME IInv, AppendNext
  PROVE  IInv' /\ (status # "up" /\ status' = "up" =>
                      \A t \in SurvivingTurns(idx') : idx'.rows[t].closed)
<1>1. todo # <<>> /\ AppendFirst(todo) /\ Aside
  BY DEF AppendNext, Aside
<1>2. Pending(todo) /\ status # "down"
  BY <1>1 DEF IInv, TodoInv, Pending
<1>3. QED
  BY <1>1, <1>2, AppendStep

----------------------------------------------------------------------------
\* The merge that rewrites.

\* A rewrite keeps the invariant: nothing acknowledged is lost, nothing hidden comes back.
LEMMA SwapRewritesStep ==
  ASSUME IInv, SwapRewrites
  PROVE  IInv'
<1>1. /\ Ready /\ proj.open /\ Gates
      /\ idx' = Rescan(disk') /\ acked' = acked \cup {KeyOf(l) : l \in ToSet(disk')}
      /\ proj' = NoProjection
      /\ UNCHANGED <<status, failed, todo, live, rewind, hidden, asked>>
  BY DEF SwapRewrites
<1>2. PICK m \in Merges : disk' = Merged(m)
  BY DEF SwapRewrites
<1>3. /\ WellFormed(Held) /\ idx = IndexOf(Held, NoTurn) /\ status = "up" /\ todo = <<>>
      /\ live \subseteq ToSet(idx.order)
  BY <1>1, RestFacts
<1>4. MergeReady
  <2>1. proj.turns \subseteq SurvivingTurns(idx)
    BY <1>1 DEF IInv, ProjFits, Gates, NoRevertSince
  <2>2. QED
    BY <1>3, <2>1 DEF MergeReady
<1>5. /\ WellFormed(disk')
      /\ {KeyOf(l) : l \in ToSet(Held)} \subseteq {KeyOf(l) : l \in ToSet(disk')}
      /\ \A t : Hides(Held, t) <=> Hides(disk', t)
      /\ Carriers(Held) \subseteq Carriers(disk')
      /\ ToSet(idx.order) \subseteq ToSet(OrderOf(disk'))
  BY <1>2, <1>4, MergedIs
<1>6. Keeps(Held, acked, hidden, asked)
  BY <1>1, HeldIs DEF Ready
<1>7. Keeps(disk', acked', hidden', asked')
  BY <1>1, <1>5, <1>6 DEF Keeps
<1> DEFINE M == disk'
<1>8. M \in Seq(Lines) /\ idx' = IndexOf(M, NoTurn) /\ Readable(M) = M
  BY <1>1, <1>5, IndexIsRescan, ReadableClean DEF WellFormed
<1>9. idx'.size = Len(M) /\ idx'.order = OrderOf(M) /\ Len(M) \in Nat
  BY <1>8, LenProperties DEF IndexOf
<1>10. Held' = M
  BY <1>8, <1>9, Prefix DEF Held
<1>11. DiskInv'
  BY <1>5, <1>7, <1>8 DEF DiskInv
<1>12. MemoryInv'
  <2>1. idx'.size \in 0..Len(Readable(M))
    BY <1>8, <1>9
  <2>2. MintedIn(todo') = NoTurn
    BY <1>1, <1>3 DEF MintedIn
  <2>3. live' \subseteq ToSet(idx'.order)
    BY <1>1, <1>3, <1>5, <1>9
  <2>4. QED
    BY <1>5, <1>7, <1>8, <1>10, <2>1, <2>2, <2>3 DEF MemoryInv
<1>13. TodoInv'
  BY <1>1, <1>3 DEF TodoInv
<1>14. ProjFits(proj', idx', todo')
  BY <1>1 DEF ProjFits, NoProjection
<1>15. status' \in {"down", "recovering", "up"} /\ failed' \in BOOLEAN
  BY <1>1 DEF IInv
<1>16. QED
  BY <1>11, <1>12, <1>13, <1>14, <1>15 DEF IInv

----------------------------------------------------------------------------
\* Every step.

\* A log comes up only with every surviving turn closed.
ServedStep == status # "up" /\ status' = "up" => \A t \in SurvivingTurns(idx') : idx'.rows[t].closed

\* Every step keeps the invariant, and brings a log up only with its turns closed.
LEMMA NextStep ==
  ASSUME IInv, [Next]_vars
  PROVE  IInv' /\ ServedStep
<1>1. CASE OpenEntryLog
  BY <1>1, OpenEntryLogStep DEF ServedStep
<1>2. CASE OpenTurn
  BY <1>2, OpenTurnStep DEF ServedStep
<1>3. ASSUME NEW t \in live, AppendEntry(t) PROVE IInv' /\ ServedStep
  BY <1>3, AppendEntryStep DEF ServedStep
<1>4. ASSUME NEW t \in live, CloseTurn(t) PROVE IInv' /\ ServedStep
  BY <1>4, CloseTurnStep DEF ServedStep
<1>5. CASE AppendBetweenTurns
  BY <1>5, AppendBetweenTurnsStep DEF ServedStep
<1>6. ASSUME Ready, proj' \in {proj, NoProjection},
             UNCHANGED <<disk, idx, status, failed, todo, live, acked, hidden, asked>>
      PROVE  IInv' /\ ServedStep
  <2>1. ProjFits(proj, idx, <<>>)
    BY <1>6 DEF IInv, Ready
  <2>2. ProjFits(proj', idx, <<>>)
    BY <1>6, <2>1 DEF ProjFits, NoProjection
  <2>3. IInv'
    BY <1>6, <2>2, QuietStep
  <2>4. QED
    BY <1>6, <2>3 DEF ServedStep
<1>7. ASSUME NEW t \in SurvivingTurns(idx), RewindCheck(t) PROVE IInv' /\ ServedStep
  BY <1>6, <1>7 DEF RewindCheck, history
<1>8. CASE RewindAnswered
  BY <1>6, <1>8 DEF RewindAnswered, history
<1>9. CASE RecordRevert
  BY <1>9, RecordRevertStep DEF ServedStep
<1>10. CASE OpenReplayProjection
  <2>1. IInv'
    BY <1>10, OpenProjectionStep
  <2>2. status' = status
    BY <1>10 DEF OpenReplayProjection
  <2>3. QED
    BY <2>1, <2>2 DEF ServedStep
<1>11. CASE DiscardReplayProjection
  BY <1>6, <1>11 DEF DiscardReplayProjection, history
<1>12. CASE SwapRewrites
  <2>1. IInv'
    BY <1>12, SwapRewritesStep
  <2>2. status' = status
    BY <1>12 DEF SwapRewrites
  <2>3. QED
    BY <2>1, <2>2 DEF ServedStep
<1>13. CASE SwapClears
  BY <1>13, SwapClearsStep DEF ServedStep
<1>14. CASE SwapDiscards
  BY <1>6, <1>14 DEF SwapDiscards, history
<1>15. CASE AppendNext
  BY <1>15, AppendNextStep DEF ServedStep
<1>16. CASE Crash
  <2>1. IInv'
    BY <1>16, CrashStep
  <2>2. status' = "down"
    BY <1>16 DEF Crash
  <2>3. QED
    BY <2>1, <2>2 DEF ServedStep
<1>17. CASE UNCHANGED vars
  <2>1. UNCHANGED <<disk, idx, status, failed, todo, live, rewind, proj, acked, hidden, asked>>
    BY <1>17 DEF vars, memory, history
  <2>2. Held' = Held
    BY <2>1 DEF Held
  <2>3. DiskInv'
    BY <2>1 DEF IInv, DiskInv
  <2>5. MemoryInv'
    BY <2>1, <2>2 DEF IInv, MemoryInv
  <2>6. TodoInv'
    BY <2>1 DEF IInv, TodoInv
  <2>7. IInv'
    BY <2>1, <2>3, <2>5, <2>6 DEF IInv
  <2>4. QED
    BY <2>1, <2>7 DEF ServedStep
<1>18. QED
  BY <1>1, <1>2, <1>3, <1>4, <1>5, <1>7, <1>8, <1>9, <1>10, <1>11, <1>12, <1>13, <1>14,
     <1>15, <1>16, <1>17 DEF Next

----------------------------------------------------------------------------
\* The rest of the type: what the operations keep aside from the log.
AsideOK ==
    /\ rewind \in [turn : TurnIds \cup {NoTurn}, phase : {"none", "checked", "reverted"}]
    /\ proj \in [open : BOOLEAN, snapshot : TurnIds \cup {NoTurn}, turns : SUBSET TurnIds]
    /\ crashes \in 0..MaxCrashes
    /\ hidden \subseteq TurnIds /\ asked \subseteq TurnIds

\* The index in memory is that of a log, or empty: its fields are of their types.
LEMMA IndexTyped ==
  ASSUME IInv
  PROVE  /\ idx.order \in Seq(TurnIds) /\ ToSet(idx.order) \subseteq TurnIds
         /\ idx.rows \in [TurnIds -> Rows]
         /\ \A t \in ToSet(idx.order) : idx.rows[t].msg = t
         /\ idx.newest \in TurnIds \cup {NoTurn}
         /\ idx.cleared \subseteq TurnIds \cup {Session}
<1>1. PICK L, c : WellFormed(L) /\ idx = IndexOf(L, c)
  <2>1. CASE status = "down"
    <3>1. idx = EmptyIndex
      BY <2>1 DEF IInv, TodoInv
    <3>2. QED
      BY <3>1, NothingWritten
  <2>2. CASE status # "down"
    BY <2>2 DEF IInv, MemoryInv
  <2>3. QED
    BY <2>1, <2>2
<1> DEFINE ix == idx
<1>2. ix = IndexOf(L, c)
  BY <1>1
<1> HIDE DEF ix
<1>3. /\ ix.order = OrderOf(L)
      /\ ix.order \in Seq(TurnIds) /\ ToSet(ix.order) \subseteq TurnIds
      /\ ix.rows \in [TurnIds -> Rows]
      /\ \A t \in ToSet(ix.order) : ix.rows[t].msg = t
  BY <1>1, <1>2, IndexFacts
<1>4. ix.newest \in TurnIds \cup {NoTurn}
  BY <1>1, <1>2, <1>3, NewestIsHidden
<1>5. ix.cleared \subseteq TurnIds \cup {Session}
  <2>1. ix.cleared = UNION {Clears(L[i]) : i \in DOMAIN L}
    BY <1>2 DEF IndexOf
  <2>2. \A i \in DOMAIN L : L[i] \in Lines
    BY <1>1, LenProperties, ElementOfSeq DEF WellFormed
  <2>3. \A l \in Lines : Clears(l) \subseteq TurnIds \cup {Session}
    BY LineFields DEF Clears
  <2>4. QED
    BY <2>1, <2>2, <2>3
<1>6. QED
  BY <1>3, <1>4, <1>5 DEF ix

\* A record takes turns of the log.
LEMMA TakesTyped ==
  ASSUME IInv
  PROVE  \A l : Takes(l) \subseteq TurnIds
<1>1. SurvivingTurns(idx) \subseteq ToSet(idx.order)
  BY IndexTyped, SurvivingIs
<1>2. QED
  BY <1>1, IndexTyped DEF Takes

\* Every step keeps the types.
LEMMA AsideStep ==
  ASSUME IInv, AsideOK, [Next]_vars
  PROVE  AsideOK'
<1> USE DEF AsideOK
<1>1. /\ SurvivingTurns(idx) \subseteq TurnIds /\ ReplayTurns \subseteq TurnIds
      /\ idx.newest \in TurnIds \cup {NoTurn}
      /\ NoRewind \in [turn : TurnIds \cup {NoTurn}, phase : {"none", "checked", "reverted"}]
      /\ NoProjection \in [open : BOOLEAN, snapshot : TurnIds \cup {NoTurn}, turns : SUBSET TurnIds]
      /\ crashes + 1 \in Nat /\ MaxCrashes \in Nat
  <2>1. SurvivingTurns(idx) \subseteq TurnIds
    BY IndexTyped, SurvivingIs
  <2>2. QED
    BY <2>1, IndexTyped, LogBoundsAssumption DEF ReplayTurns, NoRewind, NoProjection
<1>2. ASSUME NEW lines, AppendFirst(lines)
      PROVE  hidden' \subseteq TurnIds /\ asked' \subseteq TurnIds
  BY <1>2, TakesTyped DEF AppendFirst, Written, WriteFails, WriteRefused, Abandon
<1>3. CASE OpenEntryLog
  BY <1>3 DEF OpenEntryLog, history
<1>4. CASE OpenTurn
  BY <1>2, <1>4 DEF OpenTurn
<1>5. ASSUME NEW t \in live, AppendEntry(t) \/ CloseTurn(t) PROVE AsideOK'
  BY <1>2, <1>5 DEF AppendEntry, CloseTurn
<1>6. CASE AppendBetweenTurns
  BY <1>2, <1>6 DEF AppendBetweenTurns
<1>7. ASSUME NEW t \in SurvivingTurns(idx), RewindCheck(t) PROVE AsideOK'
  BY <1>1, <1>7 DEF RewindCheck, history
<1>8. CASE RewindAnswered
  BY <1>1, <1>8 DEF RewindAnswered, history
<1>9. CASE RecordRevert
  <2>1. rewind' = NoRewind /\ proj' = proj /\ crashes' = crashes
    BY <1>9 DEF RecordRevert
  <2>2. hidden' \subseteq TurnIds /\ asked' \subseteq TurnIds
    BY <1>2, <1>9 DEF RecordRevert, history
  <2>3. QED
    BY <1>1, <2>1, <2>2
<1>10. CASE OpenReplayProjection
  BY <1>1, <1>10 DEF OpenReplayProjection, history
<1>11. CASE DiscardReplayProjection \/ SwapDiscards
  BY <1>1, <1>11 DEF DiscardReplayProjection, SwapDiscards, history
<1>12. CASE SwapRewrites
  BY <1>1, <1>12 DEF SwapRewrites
<1>13. CASE SwapClears
  <2>1. rewind' = rewind /\ proj' = NoProjection /\ crashes' = crashes
    BY <1>13 DEF SwapClears
  <2>2. hidden' \subseteq TurnIds /\ asked' \subseteq TurnIds
    BY <1>2, <1>13 DEF SwapClears
  <2>3. QED
    BY <1>1, <2>1, <2>2
<1>14. CASE AppendNext
  BY <1>2, <1>14 DEF AppendNext
<1>15. CASE Crash
  BY <1>1, <1>15 DEF Crash, history
<1>16. CASE UNCHANGED vars
  BY <1>16 DEF vars, memory, history
<1>17. QED
  BY <1>3, <1>4, <1>5, <1>6, <1>7, <1>8, <1>9, <1>10, <1>11, <1>12, <1>13, <1>14, <1>15,
     <1>16 DEF Next

\* With them, the invariant gives every type.
LEMMA InvariantTypes ==
  ASSUME IInv, AsideOK
  PROVE  TypeOK
<1>1. ASSUME NEW i \in DOMAIN disk PROVE disk[i] \in Lines \/ (disk[i] = TornLine /\ i = Len(disk))
  <2> DEFINE R == Readable(disk)
  <2>1. R \in Seq(Lines) /\ disk \in {R, Append(R, TornLine)}
    BY DEF IInv, DiskInv, WellFormed
  <2> HIDE DEF R
  <2>2. CASE disk = R
    BY <1>1, <2>1, <2>2, LenProperties, ElementOfSeq
  <2>3. CASE disk = Append(R, TornLine)
    <3>1. /\ DOMAIN Append(R, TornLine) = 1..(Len(R) + 1) /\ Len(Append(R, TornLine)) = Len(R) + 1
          /\ Append(R, TornLine)[Len(R) + 1] = TornLine /\ Len(R) \in Nat
          /\ \A j \in 1..Len(R) : Append(R, TornLine)[j] = R[j] /\ R[j] \in Lines
      BY <2>1
    <3>2. i \in 1..Len(R) \/ i = Len(R) + 1
      BY <1>1, <2>3, <3>1
    <3>3. QED
      BY <2>3, <3>1, <3>2
  <2>4. QED
    BY <2>1, <2>2, <2>3
<1>2. idx.size \in 0..Len(disk)
  <2> DEFINE R == Readable(disk)
  <2>1. R \in Seq(Lines) /\ disk \in {R, Append(R, TornLine)}
    BY DEF IInv, DiskInv, WellFormed
  <2>2. idx.size \in 0..Len(R)
    <3>1. CASE status = "down"
      BY <2>1, <3>1, LenProperties DEF IInv, TodoInv, EmptyIndex
    <3>2. CASE status # "down"
      BY <3>2 DEF IInv, MemoryInv
    <3>3. QED
      BY <3>1, <3>2
  <2> HIDE DEF R
  <2>3. Len(disk) \in {Len(R), Len(R) + 1} /\ Len(R) \in Nat
    BY <2>1, LenProperties
  <2>4. QED
    BY <2>2, <2>3
<1>3. todo \in Seq(Lines)
  <2>1. CASE todo = <<>>
    <3>1. <<>> \in Seq(Lines)
      OBVIOUS
    <3>2. QED
      BY <2>1, <3>1
  <2>2. CASE todo # <<>>
    BY <2>2 DEF IInv, TodoInv, Fits
  <2>3. QED
    BY <2>1, <2>2
<1>4. live \subseteq TurnIds
  BY IndexTyped DEF IInv, MemoryInv, TodoInv
<1>5. QED
  BY <1>1, <1>2, <1>3, <1>4, IndexTyped DEF TypeOK, AsideOK, IInv

----------------------------------------------------------------------------
\* The theorems.

\* The inductive invariant holds throughout: the file is well formed but for torn bytes
\* at its end, the index is the scan of the lines it holds, and every line an operation
\* still appends fits (appendLocked, observeLocked, rescanLocked, Rewrite).
THEOREM LogInvariant == Spec => []IInv
<1>1. IInv /\ [Next]_vars => IInv'
  BY NextStep
<1>2. QED
  BY <1>1, InitInv, PTL DEF Spec

\* Every variable keeps its type, and torn bytes are the last of the file: nothing is ever
\* appended behind them (writeLineLocked's latch, dropTailLocked).
THEOREM LogTypeCorrect == Spec => []TypeOK
<1>1. Init => AsideOK
  BY LogBoundsAssumption DEF Init, AsideOK, NoRewind, NoProjection
<1>2. IInv /\ AsideOK /\ [Next]_vars => AsideOK'
  BY AsideStep
<1>3. IInv /\ AsideOK => TypeOK
  BY InvariantTypes
<1>4. QED
  BY <1>1, <1>2, <1>3, LogInvariant, PTL DEF Spec

\* The index that is served is the one the next open reads off the same lines, after
\* every append, refused or failed one, rewind and merge (observeLocked, rescanLocked).
THEOREM ServedIndexIsRead == Spec => []IndexMatchesDisk
<1>1. IInv => IndexMatchesDisk
  <2> SUFFICES ASSUME IInv, AtRest PROVE idx = Rescan(Held)
    BY DEF IndexMatchesDisk
  <2>1. WellFormed(Held) /\ idx = IndexOf(Held, NoTurn)
    BY RestFacts DEF AtRest, Ready
  <2> DEFINE L == Held
  <2>2. L \in Seq(Lines)
    BY <2>1 DEF WellFormed
  <2> HIDE DEF L
  <2>3. IndexOf(L, NoTurn) = Rescan(L)
    BY <2>2, IndexIsRescan
  <2>4. QED
    BY <2>1, <2>3 DEF L
<1>2. QED
  BY <1>1, LogInvariant, PTL

\* What was acknowledged is read by every later open: no torn line ends the log in front
\* of it, and no merge drops it (appendLocked, dropTailLocked, Rewrite).
THEOREM AcknowledgedIsRead == Spec => []AckedIsDurable
<1>1. IInv => AckedIsDurable
  BY DEF IInv, DiskInv, Keeps, AckedIsDurable
<1>2. QED
  BY <1>1, LogInvariant, PTL

\* A recorded rewind stays, and hides no more than it was asked to: no restart, merge or
\* older replay shows a prompt it took, and none puts another turn among those it took
\* (markRevertedLocked, SwapMerged's gate 2).
THEOREM RewindsStay == Spec => []RewindsHold
<1>1. IInv => RewindsHold
  <2> SUFFICES ASSUME IInv, AtRest PROVE RewoundStaysOut /\ OnlyAskedHidden
    BY DEF RewindsHold
  <2> DEFINE ix == idx
             L  == Held
  <2>1. WellFormed(L) /\ ix = IndexOf(L, NoTurn)
    BY RestFacts DEF AtRest, Ready
  <2>2. Keeps(L, acked, hidden, asked)
    BY HeldIs DEF AtRest
  <2> HIDE DEF ix, L
  <2>3. /\ ix.order \in Seq(TurnIds) /\ ToSet(ix.order) \subseteq TurnIds
        /\ ix.order = OrderOf(L)
        /\ \A t \in ToSet(ix.order) : ix.rows[t].msg = t
    BY <2>1, IndexFacts
  <2>4. ASSUME NEW t \in TurnIds
        PROVE  ix.rows[t].reverted <=> Hides(L, t) \/ (t # NoTurn /\ IncompleteCarrier(ix.rows[t]))
    BY <2>1, IndexFacts
  <2>5. ASSUME NEW t \in SurvivingTurns(ix) PROVE ix.rows[t].msg \notin hidden
    <3>1. t \in ToSet(ix.order) /\ ~ix.rows[t].reverted /\ t \in TurnIds /\ ix.rows[t].msg = t
      BY <2>3, SurvivingIs
    <3>2. ~Hides(L, t)
      BY <2>4, <3>1
    <3>3. QED
      BY <2>2, <3>1, <3>2 DEF Keeps
  <2>6. ASSUME NEW t \in ToSet(ix.order), ix.rows[t].reverted, ix.rows[t].source # "revert"
        PROVE  ix.rows[t].msg \in asked
    <3>1. t \in TurnIds /\ t \in ToSet(OrderOf(L)) /\ ix.rows[t].msg = t
      BY <2>3
    <3>2. Hides(L, t)
      BY <2>4, <2>6, <3>1 DEF IncompleteCarrier
    <3>3. RowOf(L, t).source # "revert"
      <4>1. ix.rows[t] = [RowOf(L, t) EXCEPT !.reverted = ix.rows[t].reverted]
        BY <2>1, <3>1, IndexFacts
      <4>2. RowOf(L, t) \in Rows
        BY <2>1, <3>1, RowTypes
      <4>3. QED
        BY <2>6, <4>1, <4>2 DEF Rows
    <3>4. t \notin Carriers(L)
      BY <2>1, <3>1, <3>3, CarriersAre
    <3>5. QED
      BY <2>2, <3>1, <3>2, <3>4 DEF Keeps
  <2>7. QED
    BY <2>5, <2>6 DEF RewoundStaysOut, OnlyAskedHidden, ix
<1>2. QED
  BY <1>1, LogInvariant, PTL

\* A log is served only once every turn a reader sees in it is closed: the closers the
\* recovery synthesizes are all on disk before anything is served (OpenEntryLog).
THEOREM ServedIsClosed == Spec => ServedClosed
<1>1. IInv /\ [Next]_vars => [ServedStep]_vars
  BY NextStep
<1>2. [][ServedStep]_vars => ServedClosed
  BY PTL DEF ServedClosed, ServedStep
<1>3. QED
  BY <1>1, <1>2, LogInvariant, PTL DEF Spec

=============================================================================
