----------------------- MODULE ClientTranscriptProofs -----------------------
(***************************************************************************)
(* A held turn is a prefix of the log's, for any number of turns, entries, *)
(* frames, reads and rewinds.  WindowHolds is not inductive: what the      *)
(* client seats comes off the wire or out of an answer, so the invariant   *)
(* says what those still have to do with a log that went on without them.  *)
(* A frame names an entry of the log at its place (FrameTrue), an answer   *)
(* carries a prefix of each log (LoadTrue, RepairTrue).  Both outlive the  *)
(* server's steps because a log only grows (LogGrows), and that a turn is  *)
(* opened once needs the turns opened to be the first ones (OpenedFirst).  *)
(***************************************************************************)
EXTENDS ClientTranscript, SequenceFacts, FiniteSetTheorems

Kinds == {"turn_open", "text", "turn_close", "turn_revert"}
Entry == [id : Nat, kind : Kinds, n : Nat]
Text == [id : Nat, n : Nat]

Frame == [kind : {"turn_opened", "entry_appended", "turn_closed"},
          turn : Turns, seq : Nat, entry : Entry]
         \cup [kind : {"entry_opened", "entry_delta"}, turn : Turns, open : Text]
         \cup [kind : {"entry_sealed"}, turn : Turns, seq : Nat, open : Text]

\* The server: the turns opened are the first ones, and only an opened one has a tail.
OpenedFirst == \E k \in Nat : Opened = 1..k
ServerInv ==
    /\ slog \in [Turns -> Seq(Entry)] /\ stail \in [Turns -> Text]
    /\ \A t \in Turns : stail[t] # NoTail => t \in Opened
    /\ OpenedFirst

\* A frame on the wire names an entry of the log, at its place.
Stands(log, t, seq, e) == seq \in DOMAIN log[t] /\ log[t][seq] = e
FrameTrue(f, log) ==
    /\ f.kind = "turn_opened" => f.seq = 1
    /\ f.kind \in {"turn_opened", "entry_appended", "turn_closed"}
       => Stands(log, f.turn, f.seq, f.entry)
    /\ f.kind = "entry_sealed"
       => Stands(log, f.turn, f.seq, [id |-> f.open.id, kind |-> "text", n |-> f.open.n])
WireInv == wire \in Seq(Frame) /\ \A i \in DOMAIN wire : FrameTrue(wire[i], slog)

\* An answer, however late, carries a prefix of each log it was read from.
Copy(s, l) == s \in Seq(Entry) /\ IsPrefixOf(s, l)
Behind(logs, log) == \A t \in Turns : Copy(logs[t], log[t])
LoadTrue(l, log) ==
    l # NoLoad => "ans" \in DOMAIN l /\ (l.ans.ok => Behind(l.ans.log, log))
RepairTrue(r, t, log) ==
    r # NoRead => "ans" \in DOMAIN r /\ (r.ans.ok => Copy(r.ans.log, log[t]))
RepairsTrue(reps, log) ==
    reps = [t \in Turns |-> reps[t]] /\ \A t \in Turns : RepairTrue(reps[t], t, log)
ReadsInv == LoadTrue(load, slog) /\ RepairsTrue(repairs, slog)

\* The window: turns with entries and a tail, the entries a prefix of the log's.
Shaped(h) == h = [t \in Turns |-> h[t]] /\ \A t \in Turns : DOMAIN h[t] = {"entries", "tail"}
Mirrors(h, log) == Shaped(h) /\ \A t \in Turns : Copy(h[t].entries, log[t])

TranscriptInv == ServerInv /\ WireInv /\ ReadsInv /\ Mirrors(held, slog)

----------------------------------------------------------------------------
\* Prefixes.

\* A prefix agrees with the longer sequence at each of its places.
LEMMA PrefixPointwise ==
  ASSUME NEW s \in Seq(Entry), NEW l \in Seq(Entry)
  PROVE  IsPrefixOf(s, l) <=> Len(s) <= Len(l) /\ \A i \in 1..Len(s) : s[i] = l[i]
<1>1. ASSUME Len(s) <= Len(l) PROVE s = SubSeq(l, 1, Len(s)) <=> \A i \in 1..Len(s) : s[i] = l[i]
  <2>1. SubSeq(l, 1, Len(s)) \in Seq(Entry) /\ Len(SubSeq(l, 1, Len(s))) = Len(s)
    BY <1>1
  <2>2. \A i \in 1..Len(s) : SubSeq(l, 1, Len(s))[i] = l[i]
    BY <1>1
  <2> DEFINE u == SubSeq(l, 1, Len(s))
  <2>3. (\A i \in 1..Len(s) : s[i] = l[i]) => s = u
    BY <2>1, <2>2, SeqEqual
  <2>4. QED
    BY <2>2, <2>3
<1>2. QED
  BY <1>1 DEF IsPrefixOf

\* Being a copy, place by place.
LEMMA CopyPointwise ==
  ASSUME NEW s \in Seq(Entry), NEW l \in Seq(Entry)
  PROVE  Copy(s, l) <=> Len(s) <= Len(l) /\ \A i \in 1..Len(s) : s[i] = l[i]
BY PrefixPointwise DEF Copy

\* A copy of a log stays one when the log grows.
LEMMA CopyGrows ==
  ASSUME NEW s, NEW l \in Seq(Entry), NEW m \in Seq(Entry), Copy(s, l), Copy(l, m)
  PROVE  Copy(s, m)
<1>1. s \in Seq(Entry)
  BY DEF Copy
<1>2. Len(s) <= Len(l) /\ Len(l) <= Len(m)
  BY <1>1, CopyPointwise
<1>3. Len(s) <= Len(m)
  BY <1>1, <1>2
<1>4. ASSUME NEW i \in 1..Len(s) PROVE s[i] = m[i]
  <2>1. i \in 1..Len(l)
    BY <1>1, <1>2
  <2>2. QED
    BY <1>1, <2>1, CopyPointwise
<1>5. QED
  BY <1>1, <1>3, <1>4, CopyPointwise

\* Nothing is a copy of any log.
LEMMA CopyEmpty ==
  ASSUME NEW l \in Seq(Entry)
  PROVE  Copy(<<>>, l)
<1>1. <<>> \in Seq(Entry) /\ Len(<<>>) = 0 /\ Len(l) \in Nat
  OBVIOUS
<1>2. Len(<<>>) <= Len(l) /\ \A i \in 1..Len(<<>>) : <<>>[i] = l[i]
  BY <1>1
<1>3. QED
  BY <1>1, <1>2, CopyPointwise

\* A log is a copy of itself, and of itself with one more entry.
LEMMA CopyBasics ==
  ASSUME NEW l \in Seq(Entry), NEW e \in Entry
  PROVE  Copy(l, l) /\ Append(l, e) \in Seq(Entry) /\ Copy(l, Append(l, e))
<1>1. Copy(l, l)
  BY CopyPointwise
<1>2. Append(l, e) \in Seq(Entry) /\ Len(Append(l, e)) = Len(l) + 1
  OBVIOUS
<1>3. \A i \in 1..Len(l) : l[i] = Append(l, e)[i]
  OBVIOUS
<1> DEFINE u == Append(l, e)
<1> HIDE DEF u
<1>4. Copy(l, u)
  <2>1. Len(l) <= Len(u)
    BY <1>2 DEF u
  <2>2. QED
    BY <1>2, <1>3, <2>1, CopyPointwise DEF u
<1>5. QED
  BY <1>1, <1>2, <1>4 DEF u

\* A copy with the log's next entry is a copy.
LEMMA CopyNext ==
  ASSUME NEW s, NEW l \in Seq(Entry), Copy(s, l), Len(s) + 1 \in DOMAIN l
  PROVE  Copy(Append(s, l[Len(s) + 1]), l)
<1> DEFINE e == l[Len(s) + 1]  u == Append(s, e)
<1>1. s \in Seq(Entry) /\ e \in Entry
  BY DEF Copy
<1>2. u \in Seq(Entry) /\ Len(u) = Len(s) + 1 /\ Len(u) <= Len(l)
  BY <1>1
<1>3. ASSUME NEW i \in 1..Len(u) PROVE u[i] = l[i]
  <2>1. CASE i = Len(s) + 1
    BY <1>1, <2>1
  <2>2. CASE i \in 1..Len(s)
    <3>1. u[i] = s[i]
      BY <1>1, <2>2
    <3>2. QED
      BY <1>1, <2>2, <3>1, CopyPointwise
  <2>3. QED
    BY <1>1, <1>2, <2>1, <2>2
<1> HIDE DEF u
<1>4. QED
  BY <1>2, <1>3, CopyPointwise DEF u

\* A copy continued with another one's entries, from its own end on, is a copy.
LEMMA CopyExtended ==
  ASSUME NEW p, NEW a, NEW l \in Seq(Entry), Copy(p, l), Copy(a, l),
         NEW e \in Nat, e <= Len(a) \/ e <= Len(p)
  PROVE  Copy(p \o SubSeq(a, Len(p) + 1, e), l)
<1>1. p \in Seq(Entry) /\ a \in Seq(Entry)
  BY DEF Copy
<1>2. CASE e <= Len(p)
  <2>1. SubSeq(a, Len(p) + 1, e) = <<>>
    BY <1>1, <1>2
  <2>2. p \o <<>> = p
    BY <1>1
  <2>3. QED
    BY <2>1, <2>2
<1>3. CASE Len(p) < e /\ e <= Len(a)
  <2> DEFINE b == SubSeq(a, Len(p) + 1, e)  u == p \o b
  <2>1. b \in Seq(Entry) /\ Len(b) = e - Len(p)
    BY <1>1, <1>3
  <2>2. \A i \in 1..(e - Len(p)) : b[i] = a[Len(p) + i]
    <3>1. TAKE i \in 1..(e - Len(p))
    <3>2. (Len(p) + 1) + i - 1 = Len(p) + i
      BY <1>1
    <3>3. QED
      BY <1>1, <1>3, <3>2
  <2> HIDE DEF b
  <2>3. u \in Seq(Entry) /\ Len(u) = e
    BY <1>1, <1>3, <2>1
  <2>4. ASSUME NEW i \in 1..e PROVE u[i] = l[i]
    <3>1. CASE i <= Len(p)
      <4>1. u[i] = p[i] /\ i \in 1..Len(p)
        BY <1>1, <2>1, <3>1
      <4>2. QED
        BY <1>1, <4>1, CopyPointwise
    <3>2. CASE i > Len(p)
      <4>1. u[i] = b[i - Len(p)] /\ i - Len(p) \in 1..(e - Len(p))
        BY <1>1, <2>1, <3>2
      <4>2. b[i - Len(p)] = a[i]
        <5> DEFINE j == i - Len(p)
        <5> HIDE DEF j
        <5>1. b[j] = a[Len(p) + j]
          BY <2>2, <4>1 DEF j
        <5>2. Len(p) + (i - Len(p)) = i
          BY <1>1
        <5>3. QED
          BY <5>1, <5>2 DEF j
      <4>3. i \in 1..Len(a)
        BY <1>1, <1>3
      <4>4. a[i] = l[i]
        BY <1>1, <4>3, CopyPointwise
      <4>5. QED
        BY <4>1, <4>2, <4>4
    <3>3. i <= Len(p) \/ i > Len(p)
      BY <1>1
    <3>4. QED
      BY <3>1, <3>2, <3>3, Zenon
  <2>5. e <= Len(l)
    BY <1>1, <1>3, CopyPointwise
  <2> HIDE DEF u
  <2>6. QED
    BY <2>3, <2>4, <2>5, CopyPointwise DEF u, b
<1>4. QED
  BY <1>1, <1>2, <1>3

\* The first entries of a copy are a copy.
LEMMA CopyCut ==
  ASSUME NEW a, NEW l \in Seq(Entry), Copy(a, l), NEW k \in 0..Len(a)
  PROVE  Copy(SubSeq(a, 1, k), l)
<1>1. a \in Seq(Entry)
  BY DEF Copy
<1>2. k \in Nat /\ k <= Len(a) /\ Len(<<>>) + 1 = 1
  BY <1>1
<1>3. Copy(<<>> \o SubSeq(a, Len(<<>>) + 1, k), l)
  <2>1. Copy(<<>>, l)
    BY CopyEmpty
  <2>2. QED
    BY <1>2, <2>1, CopyExtended
<1>4. SubSeq(a, 1, k) \in Seq(Entry)
  BY <1>1, <1>2
<1>5. <<>> \o SubSeq(a, 1, k) = SubSeq(a, 1, k)
  BY <1>4
<1>6. QED
  BY <1>2, <1>3, <1>5

\* A set of naturals has a least member.
LEMMA LeastExists ==
  ASSUME NEW S \in SUBSET Nat, S # {}
  PROVE  \E i \in S : \A j \in S : i <= j
<1> DEFINE R == {p \in Nat \X Nat : p[1] < p[2]}
<1>1. IsWellFoundedOn(R, Nat)
  BY NatLessThanWellFounded DEF OpToRel, IsWellFoundedOn
<1>2. PICK m \in S : \A y \in S : <<y, m>> \notin R
  BY <1>1, WFMin
<1>3. \A y \in S : m <= y
  <2>1. TAKE y \in S
  <2>2. m \in Nat /\ y \in Nat /\ ~(y < m)
    BY <1>2
  <2>3. QED
    BY <2>2
<1>4. QED
  BY <1>3

\* The newest of some turns is one of them.
LEMMA NewestIn ==
  ASSUME NEW n \in Nat, NEW S \in SUBSET (1..n), S # {}
  PROVE  Newest(S) \in S
<1> DEFINE D == {n - t : t \in S}
<1>1. D \in SUBSET Nat /\ D # {}
  <2>1. \A t \in S : n - t \in Nat
    OBVIOUS
  <2>2. QED
    BY <2>1
<1>2. PICK d \in D : \A c \in D : d <= c
  BY <1>1, LeastExists
<1>3. PICK t \in S : d = n - t
  OBVIOUS
<1>4. \A u \in S : u <= t
  <2>1. TAKE u \in S
  <2>2. n - t <= n - u
    BY <1>2, <1>3
  <2>3. QED
    BY <2>2
<1>5. QED
  BY <1>4 DEF Newest

\* An answer's decoded end is no less than its start, and within the answer.
LEMMA DecodedBounds ==
  ASSUME NEW t, NEW es \in Seq(Entry), NEW from \in Nat \ {0}, from <= Len(es) + 1
  PROVE  Decoded(t, es, from) \in (from - 1)..Len(es)
<1> DEFINE bad == {i \in DOMAIN es : i >= from /\ <<t, i>> \in Undecodable}
           k == CHOOSE i \in bad : \A j \in bad : i <= j
<1>1. CASE bad = {}
  <2>1. Decoded(t, es, from) = Len(es)
    BY <1>1 DEF Decoded
  <2>2. QED
    BY <2>1
<1>2. CASE bad # {}
  <2>1. bad \in SUBSET Nat
    OBVIOUS
  <2> HIDE DEF bad
  <2>2. k \in bad
    BY <1>2, <2>1, LeastExists
  <2>3. Decoded(t, es, from) = k - 1
    BY <1>2 DEF Decoded, bad
  <2> HIDE DEF k
  <2>4. k \in 1..Len(es) /\ k >= from
    BY <2>2 DEF bad
  <2>5. QED
    BY <2>3, <2>4
<1>3. QED
  BY <1>1, <1>2

----------------------------------------------------------------------------
\* A log that grows keeps what frames, answers and the window say of it.

Grows(log, new) == \A t \in Turns : Copy(log[t], new[t])

Logs == [Turns -> Seq(Entry)]

\* An entry of the log stays at its place.
LEMMA StandsGrows ==
  ASSUME NEW log \in Logs, NEW new \in Logs, Grows(log, new),
         NEW t \in Turns, NEW seq, NEW e, Stands(log, t, seq, e)
  PROVE  Stands(new, t, seq, e)
<1>1. log[t] \in Seq(Entry) /\ new[t] \in Seq(Entry) /\ Copy(log[t], new[t])
  BY DEF Grows, Logs
<1>2. seq \in 1..Len(log[t]) /\ log[t][seq] = e
  BY <1>1 DEF Stands
<1>3. Len(log[t]) <= Len(new[t]) /\ new[t][seq] = log[t][seq]
  BY <1>1, <1>2, CopyPointwise
<1>4. seq \in DOMAIN new[t]
  BY <1>1, <1>2, <1>3
<1>5. QED
  BY <1>2, <1>3, <1>4 DEF Stands

\* Frames already on the wire stay true.
LEMMA FramesGrow ==
  ASSUME NEW log \in Logs, NEW new \in Logs, Grows(log, new),
         NEW f \in Frame, FrameTrue(f, log)
  PROVE  FrameTrue(f, new)
<1>1. f.turn \in Turns
  BY DEF Frame
<1>2. QED
  BY <1>1, StandsGrows DEF FrameTrue

\* So does every answer out or on its way, and the window.
LEMMA ReadsGrow ==
  ASSUME NEW log \in Logs, NEW new \in Logs, Grows(log, new), NEW l, NEW reps, NEW h
  PROVE  /\ LoadTrue(l, log) => LoadTrue(l, new)
         /\ RepairsTrue(reps, log) => RepairsTrue(reps, new)
         /\ Mirrors(h, log) => Mirrors(h, new)
<1>1. \A t \in Turns : \A s : Copy(s, log[t]) => Copy(s, new[t])
  <2>1. TAKE t \in Turns
  <2> TAKE s
  <2>2. log[t] \in Seq(Entry) /\ new[t] \in Seq(Entry) /\ Copy(log[t], new[t])
    BY DEF Grows, Logs
  <2>3. QED
    BY <2>2, CopyGrows
<1>2. LoadTrue(l, log) => LoadTrue(l, new)
  BY <1>1 DEF LoadTrue, Behind
<1>3. RepairsTrue(reps, log) => RepairsTrue(reps, new)
  BY <1>1 DEF RepairsTrue, RepairTrue
<1>4. Mirrors(h, log) => Mirrors(h, new)
  BY <1>1 DEF Mirrors
<1>5. QED
  BY <1>2, <1>3, <1>4

----------------------------------------------------------------------------
\* The server's steps: each lets a log grow, and publishes what is true of it.

\* Wire, answers and window outlive a step of the server whose frame is true.
LEMMA ServerStepKeeps ==
  ASSUME TranscriptInv, slog' \in Logs, Grows(slog, slog'),
         NEW f \in Frame, FrameTrue(f, slog'), wire' = Append(wire, f), ServerStep
  PROVE  (WireInv /\ ReadsInv /\ Mirrors(held, slog))'
<1>1. slog \in Logs /\ wire \in Seq(Frame) /\ \A i \in DOMAIN wire : FrameTrue(wire[i], slog)
  BY DEF TranscriptInv, ServerInv, WireInv, Logs
<1>2. load' = load /\ repairs' = repairs /\ held' = held
  BY DEF ServerStep, reads, window
<1>3. wire' \in Seq(Frame) /\ Len(wire') = Len(wire) + 1
  BY <1>1
<1>4. ASSUME NEW i \in DOMAIN wire' PROVE FrameTrue(wire'[i], slog')
  <2>1. CASE i = Len(wire) + 1
    BY <1>1, <2>1
  <2>2. CASE i \in 1..Len(wire)
    <3>1. wire'[i] = wire[i] /\ wire[i] \in Frame /\ FrameTrue(wire[i], slog)
      BY <1>1, <2>2
    <3> DEFINE g == wire[i]
    <3> HIDE DEF g
    <3>2. FrameTrue(g, slog')
      BY <1>1, <3>1, FramesGrow DEF g
    <3>3. QED
      BY <3>1, <3>2 DEF g
  <2>3. QED
    BY <1>1, <1>3, <2>1, <2>2
<1>5. WireInv'
  BY <1>3, <1>4 DEF WireInv
<1>6. LoadTrue(load, slog) /\ RepairsTrue(repairs, slog) /\ Mirrors(held, slog)
  BY DEF TranscriptInv, ReadsInv
<1>7. LoadTrue(load, slog') /\ RepairsTrue(repairs, slog') /\ Mirrors(held, slog')
  BY <1>1, <1>6, ReadsGrow
<1>8. QED
  BY <1>2, <1>5, <1>7 DEF ReadsInv

\* A log with one more entry has grown, and holds the entry at its new end.
LEMMA AppendGrows ==
  ASSUME slog \in Logs, NEW t \in Turns, NEW e \in Entry,
         slog' = [slog EXCEPT ![t] = Append(@, e)]
  PROVE  /\ slog' \in Logs /\ Grows(slog, slog')
         /\ slog'[t] = Append(slog[t], e)
         /\ Len(slog'[t]) \in Nat /\ Stands(slog', t, Len(slog'[t]), e)
<1> DEFINE a == slog[t]  b == Append(a, e)
<1>1. a \in Seq(Entry) /\ b \in Seq(Entry) /\ Len(b) = Len(a) + 1 /\ b[Len(b)] = e
  BY DEF Logs
<1>2. Copy(a, b)
  BY <1>1, CopyBasics
<1>3. slog'[t] = b /\ \A u \in Turns : u # t => slog'[u] = slog[u]
  BY DEF Logs
<1> HIDE DEF b
<1>4. slog' \in Logs
  BY <1>1, <1>3 DEF Logs
<1>5. ASSUME NEW u \in Turns PROVE Copy(slog[u], slog'[u])
  <2>1. CASE u = t
    BY <1>2, <1>3, <2>1
  <2>2. CASE u # t
    <3>1. slog[u] \in Seq(Entry)
      BY DEF Logs
    <3>2. Copy(slog[u], slog[u])
      BY <1>1, <3>1, CopyBasics
    <3>3. QED
      BY <1>3, <2>2, <3>2
  <2>3. QED
    BY <2>1, <2>2
<1>6. Stands(slog', t, Len(slog'[t]), e)
  BY <1>1, <1>3 DEF Stands
<1>7. QED
  BY <1>1, <1>3, <1>4, <1>5, <1>6 DEF b, Grows

\* An entry appended to a turn that is opened opens none.
LEMMA AppendOpensNone ==
  ASSUME slog \in Logs, slog' \in Logs, NEW t \in Opened, NEW e,
         slog' = [slog EXCEPT ![t] = Append(@, e)]
  PROVE  Opened' = Opened
<1>1. t \in Turns /\ slog[t] # <<>> /\ slog[t] \in Seq(Entry)
  BY DEF Opened, Logs
<1>2. slog'[t] = Append(slog[t], e) /\ \A u \in Turns : u # t => slog'[u] = slog[u]
  BY <1>1 DEF Logs
<1>3. slog'[t] # <<>>
  <2> DEFINE s == slog[t]
  <2>1. s \in Seq(Entry \cup {e})
    BY <1>1, SeqDef
  <2> HIDE DEF s
  <2>2. Append(s, e) # <<>>
    BY <2>1, AppendProperties
  <2>3. QED
    BY <1>2, <2>2 DEF s
<1>4. QED
  BY <1>1, <1>2, <1>3 DEF Opened, Turns

\* The next ordinal is a number.
LEMMA CountTyped ==
  ASSUME slog \in Logs
  PROVE  TurnCount \in Nat
<1>1. CASE Visible = {}
  BY <1>1 DEF TurnCount
<1>2. CASE Visible # {}
  <2> DEFINE t == Newest(Visible)
  <2>1. t \in Visible
    BY <1>2, NewestIn, BoundsAssumption DEF Visible, Opened, Turns
  <2>2. slog[t] \in Seq(Entry) /\ slog[t] # <<>>
    BY <2>1 DEF Visible, Opened, Logs
  <2>3. slog[t][1] \in Entry
    BY <2>2
  <2>4. TurnCount = slog[t][1].n
    BY <1>2 DEF TurnCount, Ordinal
  <2> HIDE DEF t
  <2>5. QED
    BY <2>3, <2>4 DEF Entry
<1>3. QED
  BY <1>1, <1>2

\* The turn that opens is one that was not: the opened ones are the first.
LEMMA OpensNext ==
  ASSUME OpenedFirst, Cardinality(Opened) < MaxTurns
  PROVE  \E k \in Nat : /\ Opened = 1..k /\ Cardinality(Opened) = k
                        /\ k + 1 \in Turns /\ slog[k + 1] = <<>>
<1>1. PICK k \in Nat : Opened = 1..k
  BY DEF OpenedFirst
<1>2. Cardinality(Opened) = k
  BY <1>1, FS_Interval
<1>3. k + 1 \in Turns /\ k + 1 \notin Opened
  BY <1>1, <1>2, BoundsAssumption DEF Turns
<1>4. QED
  BY <1>1, <1>2, <1>3 DEF Opened

\* turn_opened: the first entry of a turn that had none.
LEMMA SOpenTurnKeeps ==
  ASSUME TranscriptInv, SOpenTurn
  PROVE  TranscriptInv'
<1> DEFINE t == Cardinality(Opened) + 1
           e == [id |-> 1, kind |-> "turn_open", n |-> TurnCount + 1]
           f == [kind |-> "turn_opened", turn |-> t, seq |-> 1, entry |-> e]
<1>0. slog \in Logs /\ stail \in [Turns -> Text] /\ OpenedFirst
  BY DEF TranscriptInv, ServerInv, Logs
<1>1. PICK k \in Nat : Opened = 1..k /\ t = k + 1 /\ t \in Turns /\ slog[t] = <<>>
  BY <1>0, OpensNext DEF SOpenTurn
<1>2. e \in Entry
  BY <1>0, CountTyped DEF Entry, Kinds
<1>3. slog' = [slog EXCEPT ![t] = <<e>>] /\ wire' = Append(wire, f) /\ stail' = stail /\ ServerStep
  BY DEF SOpenTurn, Publish
<1> HIDE DEF t, e
<1>4. <<e>> \in Seq(Entry) /\ Append(<<>>, e) = <<e>> /\ <<e>>[1] = e /\ 1 \in DOMAIN <<e>>
  BY <1>2
<1>5. slog' = [slog EXCEPT ![t] = Append(@, e)]
  BY <1>1, <1>3, <1>4
<1>6. slog' \in Logs /\ Grows(slog, slog') /\ slog'[t] = <<e>>
  BY <1>0, <1>1, <1>2, <1>4, <1>5, AppendGrows
<1>7. f \in Frame
  BY <1>1, <1>2 DEF Frame
<1>8. FrameTrue(f, slog')
  BY <1>4, <1>6 DEF FrameTrue, Stands
<1> HIDE DEF f
<1>9. (WireInv /\ ReadsInv /\ Mirrors(held, slog))'
  BY <1>3, <1>6, <1>7, <1>8, ServerStepKeeps
<1>10. ServerInv'
  <2>1. \A u \in Turns : u # t => slog'[u] = slog[u]
    BY <1>0, <1>3 DEF Logs
  <2>2. <<e>> # <<>>
    BY <1>4
  <2>3. Opened' = Opened \cup {t}
    BY <1>1, <1>6, <2>1, <2>2 DEF Opened, Turns
  <2>4. Opened \cup {t} = 1..(k + 1)
    BY <1>1
  <2>5. OpenedFirst'
    BY <2>3, <2>4 DEF OpenedFirst
  <2>6. QED
    BY <1>0, <1>3, <1>6, <2>3, <2>5 DEF ServerInv, TranscriptInv, Logs
<1>11. QED
  BY <1>9, <1>10 DEF TranscriptInv

\* A streamed text opened or continued: its tail is the server's, the log stays.
LEMMA TailStepKeeps ==
  ASSUME TranscriptInv, NEW t \in Opened, NEW o \in Text, NEW k \in {"entry_opened", "entry_delta"},
         stail' = [stail EXCEPT ![t] = o], slog' = slog,
         wire' = Append(wire, [kind |-> k, turn |-> t, open |-> o]), ServerStep
  PROVE  TranscriptInv'
<1> DEFINE f == [kind |-> k, turn |-> t, open |-> o]
<1>0. slog \in Logs /\ stail \in [Turns -> Text] /\ t \in Turns
  BY DEF TranscriptInv, ServerInv, Logs, Opened
<1>1. Grows(slog, slog')
  <2>1. ASSUME NEW u \in Turns PROVE Copy(slog[u], slog[u])
    <3>1. slog[u] \in Seq(Entry)
      BY <1>0 DEF Logs
    <3>2. [id |-> 0, kind |-> "text", n |-> 0] \in Entry
      BY DEF Entry, Kinds
    <3>3. QED
      BY <3>1, <3>2, CopyBasics
  <2>2. QED
    BY <2>1 DEF Grows
<1>2. f \in Frame
  BY <1>0 DEF Frame
<1>3. FrameTrue(f, slog')
  BY DEF FrameTrue
<1>4. wire' = Append(wire, f)
  OBVIOUS
<1> HIDE DEF f
<1>5. (WireInv /\ ReadsInv /\ Mirrors(held, slog))'
  BY <1>0, <1>1, <1>2, <1>3, <1>4, ServerStepKeeps
<1>6. ServerInv'
  <2>1. Opened' = Opened
    BY DEF Opened
  <2>2. OpenedFirst'
    BY <2>1 DEF OpenedFirst, TranscriptInv, ServerInv
  <2>3. stail' \in [Turns -> Text]
    BY <1>0
  <2>4. \A u \in Turns : stail'[u] # NoTail => u \in Opened
    BY <1>0 DEF TranscriptInv, ServerInv
  <2>5. QED
    BY <1>0, <2>1, <2>2, <2>3, <2>4 DEF ServerInv, Logs
<1>7. QED
  BY <1>5, <1>6 DEF TranscriptInv

\* An entry appended to an opened turn, and a frame that names it.
LEMMA AppendStepKeeps ==
  ASSUME TranscriptInv, NEW t \in Opened, NEW e \in Entry, NEW f \in Frame,
         slog' = [slog EXCEPT ![t] = Append(@, e)],
         Stands(slog', t, Len(slog'[t]), e) => FrameTrue(f, slog'),
         wire' = Append(wire, f), ServerStep,
         stail' = stail \/ stail' = [stail EXCEPT ![t] = NoTail]
  PROVE  TranscriptInv'
<1>0. slog \in Logs /\ stail \in [Turns -> Text] /\ t \in Turns
  BY DEF TranscriptInv, ServerInv, Logs, Opened
<1>1. slog' \in Logs /\ Grows(slog, slog') /\ FrameTrue(f, slog')
  BY <1>0, AppendGrows
<1>2. (WireInv /\ ReadsInv /\ Mirrors(held, slog))'
  BY <1>1, ServerStepKeeps
<1>3. Opened' = Opened
  BY <1>0, <1>1, AppendOpensNone
<1>4. OpenedFirst'
  BY <1>3 DEF OpenedFirst, TranscriptInv, ServerInv
<1>5. stail' \in [Turns -> Text] /\ \A u \in Turns : stail'[u] # NoTail => u \in Opened
  <2>1. NoTail \in Text
    BY DEF NoTail, Text
  <2>2. QED
    BY <1>0, <2>1 DEF TranscriptInv, ServerInv
<1>6. ServerInv'
  BY <1>1, <1>3, <1>4, <1>5 DEF ServerInv, Logs
<1>7. QED
  BY <1>2, <1>6 DEF TranscriptInv

\* entry_opened and entry_delta: the streamed text's start and its growth.
LEMMA STextKeeps ==
  ASSUME TranscriptInv, NEW t \in Turns, SOpenText(t) \/ SDelta(t)
  PROVE  TranscriptInv'
<1>0. slog \in Logs /\ stail \in [Turns -> Text] /\ (stail[t] # NoTail => t \in Opened)
  BY DEF TranscriptInv, ServerInv, Logs
<1>1. CASE SOpenText(t)
  <2> DEFINE o == [id |-> NewID(t), n |-> 1]
  <2>1. slog[t] \in Seq(Entry)
    BY <1>0 DEF Logs
  <2>2. o \in Text
    BY <2>1 DEF Text, NewID
  <2>3. stail' = [stail EXCEPT ![t] = o]
    BY <1>1 DEF SOpenText
  <2> HIDE DEF o
  <2>4. stail'[t] = o
    BY <1>0, <2>3
  <2>5. t \in Opened /\ slog' = slog /\ ServerStep
    BY <1>1 DEF SOpenText, OpenTurns
  <2>6. wire' = Append(wire, [kind |-> "entry_opened", turn |-> t, open |-> o])
    BY <1>1, <2>4 DEF SOpenText, Publish
  <2>7. QED
    BY <2>2, <2>3, <2>5, <2>6, TailStepKeeps
<1>2. CASE SDelta(t)
  <2> DEFINE o == [stail[t] EXCEPT !.n = @ + 1]
  <2>1. o \in Text
    BY <1>0 DEF Text
  <2>2. stail' = [stail EXCEPT ![t] = o]
    BY <1>2 DEF SDelta
  <2> HIDE DEF o
  <2>3. stail'[t] = o
    BY <1>0, <2>2
  <2>4. t \in Opened /\ slog' = slog /\ ServerStep
    BY <1>0, <1>2 DEF SDelta
  <2>5. wire' = Append(wire, [kind |-> "entry_delta", turn |-> t, open |-> o])
    BY <1>2, <2>3 DEF SDelta, Publish
  <2>6. QED
    BY <2>1, <2>2, <2>4, <2>5, TailStepKeeps
<1>3. QED
  BY <1>1, <1>2

\* entry_sealed: the text becomes an entry.
LEMMA SSealKeeps ==
  ASSUME TranscriptInv, NEW t \in Turns, SSeal(t)
  PROVE  TranscriptInv'
<1> DEFINE o == stail[t]
           e == [id |-> o.id, kind |-> "text", n |-> o.n]
           f == [kind |-> "entry_sealed", turn |-> t, seq |-> Len(slog'[t]), open |-> o]
<1>1. slog \in Logs /\ stail \in [Turns -> Text] /\ t \in Opened
  BY DEF TranscriptInv, ServerInv, Logs, SSeal
<1>2. o \in Text /\ e \in Entry
  BY <1>1 DEF Text, Entry, Kinds
<1>3. /\ slog' = [slog EXCEPT ![t] = Append(@, e)] /\ wire' = Append(wire, f)
      /\ stail' = [stail EXCEPT ![t] = NoTail] /\ ServerStep
  BY DEF SSeal, AppendLog, Publish
<1> HIDE DEF o
<1>4. Len(slog'[t]) \in Nat
  BY <1>1, <1>2, <1>3, AppendGrows
<1>5. f \in Frame
  BY <1>2, <1>4 DEF Frame
<1>6. Stands(slog', t, Len(slog'[t]), e) => FrameTrue(f, slog')
  BY DEF FrameTrue
<1> HIDE DEF e, f
<1>7. QED
  BY <1>1, <1>2, <1>3, <1>5, <1>6, AppendStepKeeps

\* turn_closed: the last entry of the turn, unless a rewind's record follows it.
LEMMA SCloseKeeps ==
  ASSUME TranscriptInv, NEW t \in Turns, SClose(t)
  PROVE  TranscriptInv'
<1> DEFINE e == [id |-> NewID(t), kind |-> "turn_close", n |-> 0]
           f == [kind |-> "turn_closed", turn |-> t, seq |-> Len(slog'[t]), entry |-> e]
<1>1. slog \in Logs /\ t \in Opened /\ slog[t] \in Seq(Entry)
  BY DEF TranscriptInv, ServerInv, Logs, SClose, OpenTurns, Opened
<1>2. e \in Entry
  BY <1>1 DEF Entry, Kinds, NewID
<1>3. /\ slog' = [slog EXCEPT ![t] = Append(@, e)] /\ stail' = stail /\ ServerStep
      /\ wire' = Append(wire, [f EXCEPT !.entry = Last(slog'[t])])
  BY DEF SClose, AppendLog, Publish
<1> HIDE DEF e
<1>4. Len(slog'[t]) \in Nat /\ Stands(slog', t, Len(slog'[t]), e)
  BY <1>1, <1>2, <1>3, AppendGrows
<1>5. Last(slog'[t]) = e
  BY <1>4 DEF Stands, Last
<1>6. wire' = Append(wire, f)
  BY <1>3, <1>5
<1>7. f \in Frame
  BY <1>2, <1>4 DEF Frame
<1>8. Stands(slog', t, Len(slog'[t]), e) => FrameTrue(f, slog')
  BY DEF FrameTrue
<1> HIDE DEF f
<1>9. QED
  BY <1>1, <1>2, <1>3, <1>6, <1>7, <1>8, AppendStepKeeps

\* The rewind's record: an entry of the newest turn that is kept.
LEMMA SRevertKeeps ==
  ASSUME TranscriptInv, NEW t0 \in Turns, SRevert(t0)
  PROVE  TranscriptInv'
<1> DEFINE kept == {t \in Visible : Ordinal(slog[t]) < Ordinal(slog[t0])}
           t == Newest(kept)
           e == [id |-> NewID(t), kind |-> "turn_revert", n |-> Ordinal(slog[t0])]
           f == [kind |-> "entry_appended", turn |-> t, seq |-> Len(slog'[t]), entry |-> e]
<1>0. kept # {} /\ t0 \in Visible
  BY DEF SRevert
<1>1. t \in kept
  BY <1>0, NewestIn, BoundsAssumption DEF Visible, Opened, Turns
<1>2. slog \in Logs /\ t \in Opened /\ t \in Turns /\ slog[t] \in Seq(Entry)
  BY <1>1 DEF TranscriptInv, ServerInv, Logs, Visible, Opened
<1>3. Ordinal(slog[t0]) \in Nat
  <2>1. slog[t0] \in Seq(Entry) /\ slog[t0] # <<>>
    BY <1>0, <1>2 DEF Visible, Opened, Logs
  <2>2. slog[t0][1] \in Entry
    BY <2>1
  <2>3. QED
    BY <2>2 DEF Ordinal, Entry
<1>5. /\ slog' = [slog EXCEPT ![t] = Append(@, e)] /\ stail' = stail /\ ServerStep
      /\ wire' = Append(wire, [kind |-> "entry_appended", turn |-> t,
                             seq |-> Len(slog'[t]), entry |-> Last(slog'[t])])
  <2>1. slog' = [slog EXCEPT ![t] = Append(@, e)]
    BY DEF SRevert, AppendLog
  <2>2. stail' = stail /\ ServerStep
    BY DEF SRevert
  <2>3. wire' = Append(wire, [kind |-> "entry_appended", turn |-> t,
                               seq |-> Len(slog'[t]), entry |-> Last(slog'[t])])
    BY DEF SRevert, Publish
  <2>4. QED
    BY <2>1, <2>2, <2>3
<1> HIDE DEF t, kept
<1>4. e \in Entry
  BY <1>2, <1>3 DEF Entry, Kinds, NewID
<1> HIDE DEF e
<1>6. Len(slog'[t]) \in Nat /\ Stands(slog', t, Len(slog'[t]), e)
  BY <1>2, <1>4, <1>5, AppendGrows
<1>7. Last(slog'[t]) = e
  BY <1>6 DEF Stands, Last
<1>8. wire' = Append(wire, f)
  BY <1>5, <1>7
<1>9. f \in Frame
  BY <1>2, <1>4, <1>6 DEF Frame
<1>10. Stands(slog', t, Len(slog'[t]), e) => FrameTrue(f, slog')
  BY DEF FrameTrue
<1> HIDE DEF f
<1>11. QED
  BY <1>2, <1>4, <1>5, <1>8, <1>9, <1>10, AppendStepKeeps

----------------------------------------------------------------------------
\* The client's window and reads, one operation at a time.

\* One turn of the window replaced by a copy of its log.
LEMMA MirrorsOne ==
  ASSUME NEW log, NEW h, Mirrors(h, log), NEW t \in Turns, NEW s,
         DOMAIN s = {"entries", "tail"}, Copy(s.entries, log[t])
  PROVE  Mirrors([h EXCEPT ![t] = s], log)
<1> DEFINE g == [h EXCEPT ![t] = s]
<1>1. h = [u \in Turns |-> h[u]]
  BY DEF Mirrors, Shaped
<1>2. g[t] = s /\ \A u \in Turns : u # t => g[u] = h[u]
  BY <1>1
<1>3. g = [u \in Turns |-> g[u]]
  BY <1>1
<1> HIDE DEF g
<1>4. QED
  BY <1>2, <1>3 DEF Mirrors, Shaped, g

\* A turn's tail does not touch its entries.
LEMMA MirrorsTail ==
  ASSUME NEW log, NEW h, Mirrors(h, log), NEW t \in Turns, NEW o
  PROVE  Mirrors([h EXCEPT ![t].tail = o], log)
<1> DEFINE s == [h[t] EXCEPT !.tail = o]
<1>1. DOMAIN h[t] = {"entries", "tail"} /\ Copy(h[t].entries, log[t])
  BY DEF Mirrors, Shaped
<1>2. DOMAIN s = {"entries", "tail"} /\ s.entries = h[t].entries
  BY <1>1
<1>3. [h EXCEPT ![t].tail = o] = [h EXCEPT ![t] = s]
  OBVIOUS
<1> HIDE DEF s
<1>4. QED
  BY <1>1, <1>2, <1>3, MirrorsOne

\* A turn that is not held is a copy of any log.
LEMMA NoTurnCopies ==
  ASSUME NEW l \in Seq(Entry)
  PROVE  DOMAIN NoTurn = {"entries", "tail"} /\ Copy(NoTurn.entries, l)
BY CopyEmpty DEF NoTurn

\* A read that is asked, or asked while one is out, has no answer yet.
LEMMA RequestKeeps ==
  ASSUME NEW log, NEW reps, RepairsTrue(reps, log), NEW t \in Turns, NEW from
  PROVE  RepairsTrue(RequestTurnRange(reps, t, from), log)
<1> DEFINE r == [from |-> from, ans |-> Pending]
           new == [reps EXCEPT ![t] = r]
<1>1. CASE reps[t] # NoRead
  BY <1>1 DEF RequestTurnRange
<1>2. CASE reps[t] = NoRead
  <2>1. RequestTurnRange(reps, t, from) = new
    BY <1>2 DEF RequestTurnRange
  <2>2. reps = [u \in Turns |-> reps[u]]
    BY DEF RepairsTrue
  <2>3. "ans" \in DOMAIN r /\ ~r.ans.ok
    BY DEF Pending
  <2>4. RepairTrue(r, t, log)
    BY <2>3 DEF RepairTrue
  <2> HIDE DEF r
  <2>5. new = [u \in Turns |-> new[u]] /\ new[t] = r /\ \A u \in Turns : u # t => new[u] = reps[u]
    BY <2>2
  <2> HIDE DEF new
  <2>6. RepairsTrue(new, log)
    BY <2>4, <2>5 DEF RepairsTrue
  <2>7. QED
    BY <2>1, <2>6
<1>3. QED
  BY <1>1, <1>2

\* Neither has a page load.
LEMMA NewestLoadTrue ==
  ASSUME NEW log, NEW r
  PROVE  LoadTrue(NewestLoad(r), log) /\ LoadTrue(NoLoad, log)
BY DEF LoadTrue, NewestLoad, Pending

\* abortReadsForRevert leaves reads that are out as they are, or drops them.
LEMMA AbortKeeps ==
  ASSUME ReadsInv, slog' = slog, NEW dropped, AbortReadsForRevert(repairs, dropped)
  PROVE  ReadsInv'
<1>1. LoadTrue(load', slog)
  BY NewestLoadTrue DEF AbortReadsForRevert
<1>2. repairs' = [t \in Turns |-> IF t \in dropped THEN NoRead ELSE repairs[t]]
  BY DEF AbortReadsForRevert
<1>3. \A t \in Turns : RepairTrue(NoRead, t, slog) /\ RepairTrue(repairs[t], t, slog)
  BY DEF RepairTrue, ReadsInv, RepairsTrue
<1>4. RepairsTrue(repairs', slog)
  BY <1>2, <1>3 DEF RepairsTrue
<1>5. QED
  BY <1>1, <1>4 DEF ReadsInv

\* A hole: its turn is asked for, nothing is seated.
LEMMA HoleKeeps ==
  ASSUME slog' = slog, ReadsInv, Mirrors(held, slog), NEW t \in Turns, NEW from, MarkHole(t, from)
  PROVE  (ReadsInv /\ Mirrors(held, slog))'
<1>1. held' = held /\ load' = load /\ repairs' = RequestTurnRange(repairs, t, from)
  BY DEF MarkHole
<1>2. RepairsTrue(repairs', slog)
  BY <1>1, RequestKeeps DEF ReadsInv
<1>3. QED
  BY <1>1, <1>2 DEF ReadsInv

\* applyRevert only drops turns.
LEMMA RevertKeeps ==
  ASSUME slog \in Logs, slog' = slog, ReadsInv, NEW h, Mirrors(h, slog), NEW t, NEW n,
         ApplyRevert(h, t, n)
  PROVE  (ReadsInv /\ Mirrors(held, slog))'
<1> DEFINE dropped == DroppedBy(h, t, n)
<1> HIDE DEF dropped
<1>1. /\ held' = [u \in Turns |-> IF u \in dropped THEN NoTurn ELSE h[u]]
      /\ AbortReadsForRevert(repairs, dropped)
  BY DEF ApplyRevert, dropped
<1>2. ReadsInv'
  BY <1>1, AbortKeeps
<1>3. \A u \in Turns : /\ DOMAIN held'[u] = {"entries", "tail"}
                       /\ Copy(held'[u].entries, slog[u])
  <2>1. TAKE u \in Turns
  <2>2. slog[u] \in Seq(Entry)
    BY DEF Logs
  <2>3. DOMAIN h[u] = {"entries", "tail"} /\ Copy(h[u].entries, slog[u])
    BY DEF Mirrors, Shaped
  <2>4. DOMAIN NoTurn = {"entries", "tail"} /\ Copy(NoTurn.entries, slog[u])
    BY <2>2, NoTurnCopies
  <2>5. QED
    BY <1>1, <2>3, <2>4
<1>4. held' = [u \in Turns |-> held'[u]]
  BY <1>1
<1>5. QED
  BY <1>2, <1>3, <1>4 DEF Mirrors, Shaped

\* appendEntry: an entry is seated only at the end it follows, else it is a duplicate or a hole.
LEMMA AppendEntryKeeps ==
  ASSUME slog \in Logs, slog' = slog, ReadsInv, Mirrors(held, slog),
         NEW h, Mirrors(h, slog), NEW t \in Turns, NEW seq, NEW e, Stands(slog, t, seq, e),
         AppendEntry(h, t, seq, e)
  PROVE  (ReadsInv /\ Mirrors(held, slog))'
<1>0. slog[t] \in Seq(Entry) /\ DOMAIN h[t] = {"entries", "tail"} /\ Copy(h[t].entries, slog[t])
  BY DEF Logs, Mirrors, Shaped
<1>1. CASE h[t] = NoTurn /\ e.kind = "turn_revert"
  BY <1>1, RevertKeeps DEF AppendEntry
<1>2. CASE h[t] = NoTurn /\ e.kind # "turn_revert"
  BY <1>2, HoleKeeps DEF AppendEntry
<1>3. CASE h[t] # NoTurn /\ seq # Len(h[t].entries) + 1
  <2>1. held' = h
    BY <1>3 DEF AppendEntry
  <2>2. load' = load /\ (repairs' = repairs
                         \/ repairs' = RequestTurnRange(repairs, t, Len(h[t].entries)))
    BY <1>3 DEF AppendEntry, reads
  <2>3. RepairsTrue(repairs', slog)
    BY <2>2, RequestKeeps DEF ReadsInv
  <2>4. QED
    BY <2>1, <2>2, <2>3 DEF ReadsInv
<1>4. CASE h[t] # NoTurn /\ seq = Len(h[t].entries) + 1
  <2> DEFINE s == [h[t] EXCEPT !.entries = Append(@, e)]
             g == [h EXCEPT ![t] = s]
  <2>1. Len(h[t].entries) + 1 \in DOMAIN slog[t] /\ e = slog[t][Len(h[t].entries) + 1]
    BY <1>4 DEF Stands
  <2>2. DOMAIN s = {"entries", "tail"} /\ s.entries = Append(h[t].entries, e)
    BY <1>0
  <2>3. Copy(s.entries, slog[t])
    BY <1>0, <2>1, <2>2, CopyNext
  <2>4. [h EXCEPT ![t].entries = Append(@, e)] = g
    OBVIOUS
  <2> HIDE DEF s
  <2>5. Mirrors(g, slog)
    BY <2>2, <2>3, MirrorsOne
  <2>6. CASE e.kind = "turn_revert"
    <3>1. ApplyRevert(g, t, e.n)
      BY <1>4, <2>4, <2>6 DEF AppendEntry
    <3> HIDE DEF g
    <3>2. QED
      BY <2>5, <3>1, RevertKeeps
  <2>7. CASE e.kind # "turn_revert"
    <3>1. held' = g /\ UNCHANGED reads
      BY <1>4, <2>4, <2>7 DEF AppendEntry
    <3> HIDE DEF g
    <3>2. QED
      BY <2>5, <3>1 DEF reads, ReadsInv
  <2>8. QED
    BY <2>6, <2>7
<1>5. QED
  BY <1>1, <1>2, <1>3, <1>4

\* openTurn: a turn not held yet starts with the log's first entry.
LEMMA OpenTurnKeeps ==
  ASSUME slog \in Logs, slog' = slog, ReadsInv, Mirrors(held, slog),
         NEW t \in Turns, NEW e, Stands(slog, t, 1, e), OpenTurn(t, e)
  PROVE  (ReadsInv /\ Mirrors(held, slog))'
<1>1. CASE Holds(t)
  BY <1>1 DEF OpenTurn, Ignored, window, reads, ReadsInv
<1>2. CASE ~Holds(t)
  <2> DEFINE s == [entries |-> <<e>>, tail |-> NoTail]
  <2>1. held' = [held EXCEPT ![t] = s] /\ UNCHANGED reads
    BY <1>2 DEF OpenTurn
  <2>2. slog[t] \in Seq(Entry)
    BY DEF Logs
  <2>3. Copy(<<>>, slog[t]) /\ Len(<<>>) + 1 = 1 /\ Append(<<>>, e) = <<e>>
    BY <2>2, CopyEmpty
  <2>4. Copy(<<e>>, slog[t])
    BY <2>2, <2>3, CopyNext DEF Stands
  <2>5. DOMAIN s = {"entries", "tail"} /\ s.entries = <<e>>
    OBVIOUS
  <2> HIDE DEF s
  <2>6. Mirrors(held', slog)
    BY <2>1, <2>4, <2>5, MirrorsOne
  <2>7. QED
    BY <2>1, <2>6 DEF reads, ReadsInv
<1>3. QED
  BY <1>1, <1>2

\* openEntry and applyDelta write the tail alone.
LEMMA TailFrameKeeps ==
  ASSUME slog \in Logs, slog' = slog, ReadsInv, Mirrors(held, slog),
         NEW t \in Turns, NEW o, NEW id, NEW n, OpenEntry(t, o) \/ ApplyDelta(t, id, n)
  PROVE  (ReadsInv /\ Mirrors(held, slog))'
<1>1. CASE \E from : MarkHole(t, from)
  BY <1>1, HoleKeeps
<1>2. CASE held' = [held EXCEPT ![t].tail = o] /\ UNCHANGED reads
  BY <1>2, MirrorsTail DEF reads, ReadsInv
<1>3. CASE held' = [held EXCEPT ![t].tail.n = n] /\ UNCHANGED reads
  <2> DEFINE v == [held[t].tail EXCEPT !.n = n]
  <2>1. held' = [held EXCEPT ![t].tail = v]
    BY <1>3
  <2> HIDE DEF v
  <2>2. Mirrors(held', slog)
    BY <2>1, MirrorsTail
  <2>3. QED
    BY <1>3, <2>2 DEF reads, ReadsInv
<1>4. CASE OpenEntry(t, o)
  <2>1. MarkHole(t, 0) \/ (held' = [held EXCEPT ![t].tail = o] /\ UNCHANGED reads)
    BY <1>4 DEF OpenEntry
  <2>2. QED
    BY <1>1, <1>2, <2>1
<1>5. CASE ApplyDelta(t, id, n)
  <2>1. \/ MarkHole(t, 0) \/ MarkHole(t, Len(held[t].entries))
        \/ held' = [held EXCEPT ![t].tail.n = n] /\ UNCHANGED reads
    BY <1>5 DEF ApplyDelta
  <2>2. QED
    BY <1>1, <1>3, <2>1
<1>6. QED
  BY <1>4, <1>5

\* sealEntry: the tail it seats is the text the frame names.
LEMMA SealKeeps ==
  ASSUME slog \in Logs, slog' = slog, ReadsInv, Mirrors(held, slog),
         NEW t \in Turns, NEW id, NEW seq, NEW n,
         Stands(slog, t, seq, [id |-> id, kind |-> "text", n |-> n]), SealEntry(t, id, seq, n)
  PROVE  (ReadsInv /\ Mirrors(held, slog))'
<1>1. CASE \E from : MarkHole(t, from)
  BY <1>1, HoleKeeps
<1>2. CASE /\ n = held[t].tail.n
           /\ AppendEntry([held EXCEPT ![t].tail = NoTail], t, seq,
                          [id |-> id, kind |-> "text", n |-> held[t].tail.n])
  <2> DEFINE h == [held EXCEPT ![t].tail = NoTail]
             e == [id |-> id, kind |-> "text", n |-> n]
  <2>1. Mirrors(h, slog)
    BY MirrorsTail
  <2>2. AppendEntry(h, t, seq, e) /\ Stands(slog, t, seq, e)
    BY <1>2
  <2> HIDE DEF h, e
  <2>3. QED
    BY <2>1, <2>2, AppendEntryKeeps
<1>3. QED
  BY <1>1, <1>2 DEF SealEntry

\* A frame delivered: one store call, of what the log holds at that place.
LEMMA HandleKeeps ==
  ASSUME slog \in Logs, slog' = slog, ReadsInv, Mirrors(held, slog),
         NEW f \in Frame, FrameTrue(f, slog), Handle(f)
  PROVE  (ReadsInv /\ Mirrors(held, slog))'
<1>1. CASE f \in [kind : {"turn_opened", "entry_appended", "turn_closed"},
                  turn : Turns, seq : Nat, entry : Entry]
  <2>1. f.turn \in Turns
    BY <1>1
  <2>2. CASE f.kind = "turn_opened"
    <3>1. OpenTurn(f.turn, f.entry)
      BY <2>2 DEF Handle
    <3>2. Stands(slog, f.turn, 1, f.entry)
      BY <2>2 DEF FrameTrue
    <3>3. QED
      BY <2>1, <3>1, <3>2, OpenTurnKeeps
  <2>3. CASE f.kind \in {"entry_appended", "turn_closed"}
    <3>1. AppendEntry(held, f.turn, f.seq, f.entry)
      BY <2>3 DEF Handle, TurnClosed
    <3>2. Stands(slog, f.turn, f.seq, f.entry)
      BY <2>3 DEF FrameTrue
    <3>3. QED
      BY <2>1, <3>1, <3>2, AppendEntryKeeps
  <2>4. QED
    BY <1>1, <2>2, <2>3
<1>2. CASE f \in [kind : {"entry_opened", "entry_delta"}, turn : Turns, open : Text]
  <2>1. f.turn \in Turns /\ (f.kind = "entry_opened" \/ f.kind = "entry_delta")
    BY <1>2
  <2>2. OpenEntry(f.turn, f.open) \/ ApplyDelta(f.turn, f.open.id, f.open.n)
    BY <2>1 DEF Handle
  <2>3. QED
    BY <2>1, <2>2, TailFrameKeeps
<1>3. CASE f \in [kind : {"entry_sealed"}, turn : Turns, seq : Nat, open : Text]
  <2>1. f.turn \in Turns /\ f.kind = "entry_sealed"
    BY <1>3
  <2>2. SealEntry(f.turn, f.open.id, f.seq, f.open.n)
    BY <2>1 DEF Handle
  <2>3. Stands(slog, f.turn, f.seq, [id |-> f.open.id, kind |-> "text", n |-> f.open.n])
    BY <2>1 DEF FrameTrue
  <2>4. QED
    BY <2>1, <2>2, <2>3, SealKeeps
<1>4. QED
  BY <1>1, <1>2, <1>3 DEF Frame

----------------------------------------------------------------------------
\* The client's steps: the server's logs stand still, and the wire only gets shorter.

\* A client's step keeps the invariant when it keeps the reads and the window.
LEMMA ClientStep ==
  ASSUME TranscriptInv, UNCHANGED <<slog, stail>>,
         wire' = wire \/ wire' = <<>> \/ (wire # <<>> /\ wire' = Tail(wire)),
         (ReadsInv /\ Mirrors(held, slog))'
  PROVE  TranscriptInv'
<1>1. Opened' = Opened
  BY DEF Opened
<1>2. ServerInv'
  BY <1>1 DEF TranscriptInv, ServerInv, OpenedFirst
<1>3. wire \in Seq(Frame) /\ \A i \in DOMAIN wire : FrameTrue(wire[i], slog)
  BY DEF TranscriptInv, WireInv
<1>4. WireInv'
  <2>1. CASE wire' = wire
    BY <1>3, <2>1 DEF WireInv
  <2>2. CASE wire' = <<>>
    BY <2>2 DEF WireInv
  <2>3. CASE wire # <<>> /\ wire' = Tail(wire)
    <3>1. wire' \in Seq(Frame) /\ Len(wire') = Len(wire) - 1
      BY <1>3, <2>3
    <3>2. ASSUME NEW i \in DOMAIN wire' PROVE FrameTrue(wire'[i], slog)
      <4>1. wire'[i] = wire[i + 1] /\ i + 1 \in DOMAIN wire
        BY <1>3, <2>3
      <4>2. QED
        BY <1>3, <4>1
    <3>3. QED
      BY <3>1, <3>2 DEF WireInv
  <2>4. QED
    BY <2>1, <2>2, <2>3
<1>5. QED
  BY <1>2, <1>4 DEF TranscriptInv

\* What the invariant gives each of them.
LEMMA Given ==
  ASSUME TranscriptInv
  PROVE  /\ slog \in Logs /\ ReadsInv /\ Mirrors(held, slog)
         /\ LoadTrue(load, slog) /\ RepairsTrue(repairs, slog)
BY DEF TranscriptInv, ServerInv, ReadsInv, Logs

\* The stream: a frame delivered, and one that did not decode.
LEMMA StreamKeeps ==
  ASSUME TranscriptInv, DeliverFrame \/ SalvageFrame
  PROVE  TranscriptInv'
<1> DEFINE f == Head(wire)
<1>1. wire # <<>> /\ wire' = Tail(wire) /\ UNCHANGED <<slog, stail>>
  BY DEF DeliverFrame, SalvageFrame, server
<1>2. wire \in Seq(Frame) /\ 1 \in DOMAIN wire /\ wire[1] = f
  BY <1>1 DEF TranscriptInv, WireInv
<1>3. f \in Frame /\ FrameTrue(f, slog)
  <2>1. wire[1] \in Frame /\ FrameTrue(wire[1], slog)
    BY <1>2 DEF TranscriptInv, WireInv
  <2>2. QED
    BY <1>2, <2>1
<1>4. CASE DeliverFrame
  <2>1. Handle(f)
    BY <1>4 DEF DeliverFrame
  <2> HIDE DEF f
  <2>2. (ReadsInv /\ Mirrors(held, slog))'
    BY <1>1, <1>3, <2>1, Given, HandleKeeps
  <2>3. QED
    BY <1>1, <2>2, ClientStep
<1>5. CASE SalvageFrame
  <2>1. repairs' = RequestTurnRange(repairs, f.turn, 0) /\ load' = load /\ held' = held
    BY <1>5 DEF SalvageFrame, window
  <2> HIDE DEF f
  <2>2. f.turn \in Turns
    BY <1>3 DEF Frame
  <2>3. RepairsTrue(repairs', slog)
    BY <2>1, <2>2, Given, RequestKeeps
  <2>4. (ReadsInv /\ Mirrors(held, slog))'
    BY <1>1, <2>1, <2>3, Given DEF ReadsInv
  <2>5. QED
    BY <1>1, <2>4, ClientStep
<1>6. QED
  BY <1>4, <1>5

\* A log is a copy of itself.
LEMMA LogsCopy ==
  ASSUME slog \in Logs
  PROVE  Behind(slog, slog)
<1>1. [id |-> 0, kind |-> "text", n |-> 0] \in Entry
  BY DEF Entry, Kinds
<1>2. ASSUME NEW t \in Turns PROVE Copy(slog[t], slog[t])
  <2>1. slog[t] \in Seq(Entry)
    BY DEF Logs
  <2>2. QED
    BY <1>1, <2>1, CopyBasics
<1>3. QED
  BY <1>2 DEF Behind

\* A page or a range read is answered with the logs as they are.
LEMMA ServeKeeps ==
  ASSUME TranscriptInv, ServePage \/ \E t \in Turns : ServeRange(t)
  PROVE  TranscriptInv'
<1>1. UNCHANGED <<slog, stail, wire, held>>
  BY DEF ServePage, ServeRange, server, window
<1>2. Behind(slog, slog)
  BY Given, LogsCopy
<1>3. CASE ServePage
  <2> DEFINE good == [ok |-> TRUE, served |-> TRUE, page |-> PageOf(load), log |-> slog,
                      tails |-> IF load.newest THEN stail ELSE [t \in Turns |-> NoTail],
                      ver |-> sver, live |-> OpenTurns, count |-> TurnCount]
             ans == IF ~load.newest /\ load.before \notin Visible THEN Failed ELSE good
  <2>1. load' = [load EXCEPT !.ans = ans] /\ load # NoLoad /\ repairs' = repairs
    BY <1>3 DEF ServePage
  <2>2. ans.ok => ans.log = slog
    BY DEF Failed
  <2> HIDE DEF ans
  <2>3. "ans" \in DOMAIN load
    BY <2>1, Given DEF LoadTrue
  <2>4. "ans" \in DOMAIN load' /\ load'.ans = ans
    BY <2>1, <2>3
  <2>5. LoadTrue(load', slog)
    BY <1>2, <2>2, <2>4 DEF LoadTrue
  <2>6. (ReadsInv /\ Mirrors(held, slog))'
    BY <1>1, <2>1, <2>5, Given DEF ReadsInv
  <2>7. QED
    BY <1>1, <2>6, ClientStep
<1>4. ASSUME NEW t \in Turns, ServeRange(t) PROVE TranscriptInv'
  <2> DEFINE good == [ok |-> TRUE, served |-> TRUE, log |-> slog[t], tail |-> stail[t],
                      open |-> t \in OpenTurns]
             ans == IF t \notin Visible THEN Failed ELSE good
             r == [repairs[t] EXCEPT !.ans = ans]
  <2>1. repairs' = [repairs EXCEPT ![t] = r] /\ repairs[t] # NoRead /\ load' = load
    BY <1>4 DEF ServeRange
  <2>2. ans.ok => ans.log = slog[t]
    BY DEF Failed
  <2> HIDE DEF ans
  <2>3. repairs = [u \in Turns |-> repairs[u]] /\ \A u \in Turns : RepairTrue(repairs[u], u, slog)
    BY Given DEF RepairsTrue
  <2>4. "ans" \in DOMAIN repairs[t]
    BY <2>1, <2>3 DEF RepairTrue
  <2>5. "ans" \in DOMAIN r /\ r.ans = ans
    BY <2>4
  <2> HIDE DEF r
  <2>6. RepairTrue(r, t, slog)
    BY <1>2, <2>2, <2>5 DEF RepairTrue, Behind
  <2>7. repairs' = [u \in Turns |-> repairs'[u]] /\ repairs'[t] = r
        /\ \A u \in Turns : u # t => repairs'[u] = repairs[u]
    BY <2>1, <2>3
  <2>8. RepairsTrue(repairs', slog)
    BY <2>3, <2>6, <2>7 DEF RepairsTrue
  <2>9. (ReadsInv /\ Mirrors(held, slog))'
    BY <1>1, <2>1, <2>8, Given DEF ReadsInv
  <2>10. QED
    BY <1>1, <2>9, ClientStep
<1>5. QED
  BY <1>3, <1>4

\* A page's turn, and what it becomes when the turn is held, are copies of the log.
LEMMA PageTurnCopies ==
  ASSUME NEW log \in Logs, NEW a, Behind(a.log, log), NEW t \in Turns
  PROVE  /\ DOMAIN PageTurn(a, t) = {"entries", "tail"}
         /\ Copy(PageTurn(a, t).entries, log[t])
<1> DEFINE k == Decoded(t, a.log[t], 1)
<1>1. log[t] \in Seq(Entry) /\ Copy(a.log[t], log[t]) /\ a.log[t] \in Seq(Entry)
  BY DEF Logs, Behind, Copy
<1>2. k \in 0..Len(a.log[t])
  <2>1. 1 \in Nat \ {0} /\ 1 <= Len(a.log[t]) + 1 /\ 1 - 1 = 0
    BY <1>1
  <2>2. QED
    BY <1>1, <2>1, DecodedBounds
<1>3. CASE k = 0
  <2>1. PageTurn(a, t) = NoTurn
    BY <1>3 DEF PageTurn
  <2>2. QED
    BY <1>1, <2>1, NoTurnCopies
<1>4. CASE k # 0
  <2> DEFINE s == SubSeq(a.log[t], 1, k)
  <2>1. PageTurn(a, t) = [entries |-> s, tail |-> a.tails[t]]
    BY <1>4 DEF PageTurn
  <2>2. Copy(s, log[t])
    BY <1>1, <1>2, CopyCut
  <2> HIDE DEF s
  <2>3. QED
    BY <2>1, <2>2
<1>5. QED
  BY <1>3, <1>4

\* mergeTurn puts back only what follows the page's end.
LEMMA MergeCopies ==
  ASSUME NEW l \in Seq(Entry), NEW p, NEW h, Copy(p.entries, l), Copy(h.entries, l)
  PROVE  /\ DOMAIN MergeTurn(p, h) = {"entries", "tail"}
         /\ Copy(MergeTurn(p, h).entries, l)
<1> DEFINE es == p.entries \o SubSeq(h.entries, Len(p.entries) + 1, Len(h.entries))
<1>1. Len(h.entries) \in Nat /\ Len(h.entries) <= Len(h.entries)
  BY DEF Copy
<1>2. Copy(es, l)
  BY <1>1, CopyExtended
<1>3. DOMAIN MergeTurn(p, h) = {"entries", "tail"} /\ MergeTurn(p, h).entries = es
  BY DEF MergeTurn
<1>4. QED
  BY <1>2, <1>3

\* The window a page leaves: each turn is held as it was, or as the page has it, or both.
LEMMA PageKeeps ==
  ASSUME slog \in Logs, slog' = slog, Mirrors(held, slog), NEW a, Behind(a.log, slog),
         NEW at, ApplyNewest(a, at) \/ ApplyOlder(a)
  PROVE  Mirrors(held, slog)'
<1>1. ASSUME NEW t \in Turns, NEW s,
             s \in {NoTurn, held[t], PageTurn(a, t), MergeTurn(PageTurn(a, t), held[t])}
      PROVE  DOMAIN s = {"entries", "tail"} /\ Copy(s.entries, slog[t])
  <2>1. slog[t] \in Seq(Entry)
    BY DEF Logs
  <2>2. DOMAIN held[t] = {"entries", "tail"} /\ Copy(held[t].entries, slog[t])
    BY DEF Mirrors, Shaped
  <2>3. DOMAIN PageTurn(a, t) = {"entries", "tail"} /\ Copy(PageTurn(a, t).entries, slog[t])
    BY PageTurnCopies
  <2> DEFINE p == PageTurn(a, t)  h == held[t]
  <2> HIDE DEF p, h
  <2>4. DOMAIN MergeTurn(p, h) = {"entries", "tail"} /\ Copy(MergeTurn(p, h).entries, slog[t])
    BY <2>1, <2>2, <2>3, MergeCopies DEF p, h
  <2>5. QED
    BY <1>1, <2>1, <2>2, <2>3, <2>4, NoTurnCopies DEF p, h
<1>2. /\ held' = [t \in Turns |-> held'[t]]
      /\ \A t \in Turns :
           held'[t] \in {NoTurn, held[t], PageTurn(a, t), MergeTurn(PageTurn(a, t), held[t])}
  <2>1. CASE ApplyNewest(a, at)
    BY <2>1 DEF ApplyNewest
  <2>2. CASE ApplyOlder(a)
    BY <2>2 DEF ApplyOlder
  <2>3. QED
    BY <2>1, <2>2
<1>3. \A t \in Turns : /\ DOMAIN held'[t] = {"entries", "tail"}
                       /\ Copy(held'[t].entries, slog[t])
  BY <1>1, <1>2
<1>4. QED
  BY <1>2, <1>3 DEF Mirrors, Shaped

\* A page that lands, and one that does not.
LEMMA LoadKeeps ==
  ASSUME TranscriptInv, LoadLands \/ LoadFails
  PROVE  TranscriptInv'
<1>1. CASE LoadLands
  <2> DEFINE a == load.ans
  <2>1. load # NoLoad /\ a.ok /\ load' = NoLoad /\ UNCHANGED <<slog, stail, wire>>
    BY <1>1 DEF LoadLands, server
  <2>2. Behind(a.log, slog)
    BY <2>1, Given DEF LoadTrue
  <2>3. ApplyNewest(a, load.at) \/ ApplyOlder(a)
    BY <1>1 DEF LoadLands
  <2>4. repairs' = RequestHoles(repairs, a)
    BY <1>1 DEF LoadLands
  <2> HIDE DEF a
  <2>5. Mirrors(held, slog)'
    BY <2>1, <2>2, <2>3, Given, PageKeeps
  <2>6. \A t \in Turns : RepairTrue([from |-> Decoded(t, a.log[t], 1), ans |-> Pending], t, slog)
    BY DEF RepairTrue, Pending
  <2>7. RepairsTrue(repairs', slog)
    BY <2>4, <2>6, Given DEF RequestHoles, RepairsTrue
  <2>8. (ReadsInv /\ Mirrors(held, slog))'
    BY <2>1, <2>5, <2>7, NewestLoadTrue DEF ReadsInv
  <2>9. QED
    BY <2>1, <2>8, ClientStep
<1>2. CASE LoadFails
  <2>1. load' = NoLoad /\ UNCHANGED <<slog, stail, wire, held, repairs>>
    BY <1>2 DEF LoadFails, server
  <2>2. (ReadsInv /\ Mirrors(held, slog))'
    BY <2>1, Given, NewestLoadTrue DEF ReadsInv
  <2>3. QED
    BY <2>1, <2>2, ClientStep
<1>3. QED
  BY <1>1, <1>2

\* What a range read seats ends in the answer, or adds nothing.
LEMMA SeatedBounds ==
  ASSUME NEW t \in Turns, NEW r, r.ans.log \in Seq(Entry), held[t].entries \in Seq(Entry)
  PROVE  /\ SeatedEnd(t, r) \in Nat
         /\ SeatedEnd(t, r) <= Len(r.ans.log) \/ SeatedEnd(t, r) <= Len(held[t].entries)
<1> DEFINE have == Len(held[t].entries)  es == r.ans.log
<1>1. have \in Nat /\ es \in Seq(Entry)
  OBVIOUS
<1>2. SeatedEnd(t, r) = have \/ (have < Len(es) /\ SeatedEnd(t, r) = Decoded(t, es, have + 1))
  BY DEF SeatedEnd
<1>3. CASE have < Len(es) /\ SeatedEnd(t, r) = Decoded(t, es, have + 1)
  <2>1. have + 1 \in Nat \ {0} /\ have + 1 <= Len(es) + 1
    BY <1>1, <1>3
  <2> HIDE DEF have, es
  <2>2. Decoded(t, es, have + 1) \in ((have + 1) - 1)..Len(es)
    BY <1>1, <2>1, DecodedBounds
  <2>3. SeatedEnd(t, r) \in Nat /\ SeatedEnd(t, r) <= Len(es)
    BY <1>1, <1>3, <2>2
  <2>4. QED
    BY <2>3 DEF es
<1>4. QED
  BY <1>1, <1>2, <1>3

\* A read that is over has released its slot.
LEMMA FreedTrue ==
  ASSUME NEW log, NEW reps, RepairsTrue(reps, log), NEW t \in Turns
  PROVE  RepairsTrue([reps EXCEPT ![t] = NoRead], log)
BY DEF RepairsTrue, RepairTrue

\* A range read that lands, and one that does not.
LEMMA RangeKeeps ==
  ASSUME TranscriptInv, NEW t \in Turns, RangeLands(t) \/ RangeFails(t)
  PROVE  TranscriptInv'
<1> DEFINE free == [repairs EXCEPT ![t] = NoRead]
<1>0. UNCHANGED <<slog, stail, wire, load>>
  BY DEF RangeLands, RangeFails, server
<1>1. RepairsTrue(free, slog)
  BY Given, FreedTrue
<1> HIDE DEF free
<1>2. CASE RangeLands(t)
  <2> DEFINE r == repairs[t]
             end == SeatedEnd(t, r)
             es == held[t].entries \o SubSeq(r.ans.log, Len(held[t].entries) + 1, end)
             seat == [entries |-> es, tail |-> r.ans.tail]
  <2>1. r # NoRead /\ r.ans.ok
    BY <1>2 DEF RangeLands
  <2>2. \/ repairs' = free /\ held' = held
        \/ /\ held' = [held EXCEPT ![t] = seat]
           /\ repairs' = free \/ repairs' = RequestTurnRange(free, t, end)
    BY <1>2 DEF RangeLands, free
  <2>3. slog[t] \in Seq(Entry) /\ Copy(r.ans.log, slog[t]) /\ Copy(held[t].entries, slog[t])
    <3>1. slog[t] \in Seq(Entry) /\ Copy(held[t].entries, slog[t])
      BY Given DEF Logs, Mirrors
    <3>2. RepairTrue(r, t, slog)
      BY Given DEF RepairsTrue
    <3>3. QED
      BY <2>1, <3>1, <3>2 DEF RepairTrue
  <2> HIDE DEF r
  <2>4. end \in Nat /\ (end <= Len(r.ans.log) \/ end <= Len(held[t].entries))
    BY <2>3, SeatedBounds DEF Copy
  <2> HIDE DEF end
  <2>5. Copy(es, slog[t])
    BY <2>3, <2>4, CopyExtended
  <2>6. DOMAIN seat = {"entries", "tail"} /\ seat.entries = es
    OBVIOUS
  <2> HIDE DEF es, seat
  <2>7. Mirrors([held EXCEPT ![t] = seat], slog)
    BY <2>5, <2>6, Given, MirrorsOne
  <2>8. RepairsTrue(repairs', slog)
    BY <1>1, <2>2, RequestKeeps
  <2>9. (ReadsInv /\ Mirrors(held, slog))'
    BY <1>0, <2>2, <2>7, <2>8, Given DEF ReadsInv
  <2>10. QED
    BY <1>0, <2>9, ClientStep
<1>3. CASE RangeFails(t)
  <2>1. repairs' = free /\ held' = held
    BY <1>3 DEF RangeFails, window, free
  <2>2. (ReadsInv /\ Mirrors(held, slog))'
    BY <1>0, <1>1, <2>1, Given DEF ReadsInv
  <2>3. QED
    BY <1>0, <2>2, ClientStep
<1>4. QED
  BY <1>2, <1>3

\* The stream's breaks, the revalidations and the reader: reads are asked for or dropped, and
\* an eviction lets every turn go.
LEMMA ReaderKeeps ==
  ASSUME TranscriptInv, Revalidate \/ RevalSettles \/ ReaderNext
  PROVE  TranscriptInv'
<1>1. CASE Revalidate
  <2>1. UNCHANGED <<slog, stail, wire, held>>
    BY <1>1 DEF Revalidate, server, window
  <2>2. LoadTrue(load', slog)
    <3>1. load' = NewestLoad(TRUE) \/ load' = load
      BY <1>1 DEF Revalidate
    <3>2. QED
      BY <3>1, Given, NewestLoadTrue
  <2>3. repairs' = [t \in Turns |-> IF t \in Moved /\ Holds(t) /\ repairs[t] = NoRead
                     THEN [from |-> Len(held[t].entries), ans |-> Pending] ELSE repairs[t]]
    BY <1>1 DEF Revalidate
  <2>4. \A t \in Turns : RepairTrue([from |-> Len(held[t].entries), ans |-> Pending], t, slog)
    BY DEF RepairTrue, Pending
  <2>5. RepairsTrue(repairs', slog)
    BY <2>3, <2>4, Given DEF RepairsTrue
  <2>6. (ReadsInv /\ Mirrors(held, slog))'
    BY <2>1, <2>2, <2>5, Given DEF ReadsInv
  <2>7. QED
    BY <2>1, <2>6, ClientStep
<1>2. CASE Evict
  <2>1. UNCHANGED <<slog, stail, wire, load, repairs>> /\ held' = [t \in Turns |-> NoTurn]
    BY <1>2 DEF Evict, server, reads
  <2>2. \A t \in Turns : DOMAIN NoTurn = {"entries", "tail"} /\ Copy(NoTurn.entries, slog[t])
    <3>1. \A t \in Turns : slog[t] \in Seq(Entry)
      BY Given DEF Logs
    <3>2. QED
      BY <3>1, NoTurnCopies
  <2>3. Mirrors(held', slog)
    BY <2>1, <2>2 DEF Mirrors, Shaped
  <2>4. (ReadsInv /\ Mirrors(held, slog))'
    BY <2>1, <2>3, Given DEF ReadsInv
  <2>5. QED
    BY <2>1, <2>4, ClientStep
<1>3. CASE RevalSettles \/ StreamBreaks \/ Wake \/ Activate \/ LoadOlder
  <2>1. UNCHANGED <<slog, stail, held, repairs>> /\ (wire' = wire \/ wire' = <<>>)
    BY <1>3 DEF RevalSettles, StreamBreaks, Wake, Activate, LoadOlder, server, window, reads
  <2>2. \/ load' = load \/ load' = NoLoad \/ load' = NewestLoad(FALSE)
        \/ load' = [newest |-> FALSE, before |-> Head(order), at |-> {}, ans |-> Pending,
                    reval |-> FALSE]
    BY <1>3 DEF RevalSettles, StreamBreaks, Wake, Activate, LoadOlder, reads
  <2>3. LoadTrue([newest |-> FALSE, before |-> Head(order), at |-> {}, ans |-> Pending,
                  reval |-> FALSE], slog)
    BY DEF LoadTrue, Pending
  <2>4. LoadTrue(load', slog)
    BY <2>2, <2>3, Given, NewestLoadTrue
  <2>5. (ReadsInv /\ Mirrors(held, slog))'
    BY <2>1, <2>4, Given DEF ReadsInv
  <2>6. QED
    BY <2>1, <2>5, ClientStep
<1>4. QED
  BY <1>1, <1>2, <1>3 DEF ReaderNext

----------------------------------------------------------------------------
\* The invariant, and what it says of the window.

\* It holds of a chat nothing has happened to.
LEMMA TranscriptInit ==
  ASSUME Init
  PROVE  TranscriptInv
<1>1. slog = [t \in Turns |-> <<>>] /\ stail = [t \in Turns |-> NoTail] /\ wire = <<>>
      /\ held = [t \in Turns |-> NoTurn] /\ load = NoLoad /\ repairs = [t \in Turns |-> NoRead]
  BY DEF Init
<1>2. ServerInv
  <2>1. Opened = 1..0
    BY <1>1 DEF Opened
  <2>2. QED
    BY <1>1, <2>1 DEF ServerInv, OpenedFirst, NoTail, Text
<1>3. WireInv
  BY <1>1 DEF WireInv
<1>4. ReadsInv
  <2>1. RepairsTrue(repairs, slog)
    BY <1>1 DEF RepairsTrue, RepairTrue
  <2>2. QED
    BY <1>1, <2>1, NewestLoadTrue DEF ReadsInv
<1>5. Mirrors(held, slog)
  <2>1. \A t \in Turns : DOMAIN NoTurn = {"entries", "tail"} /\ Copy(NoTurn.entries, <<>>)
    <3>1. <<>> \in Seq(Entry)
      OBVIOUS
    <3>2. QED
      BY <3>1, NoTurnCopies
  <2>2. QED
    BY <1>1, <2>1 DEF Mirrors, Shaped
<1>6. QED
  BY <1>2, <1>3, <1>4, <1>5 DEF TranscriptInv

\* Every step of server, wire and client keeps it.
LEMMA TranscriptNext ==
  ASSUME TranscriptInv, [Next]_vars
  PROVE  TranscriptInv'
<1>1. CASE ServerNext
  BY <1>1, SOpenTurnKeeps, STextKeeps, SSealKeeps, SCloseKeeps, SRevertKeeps DEF ServerNext
<1>2. CASE ReadNext
  BY <1>2, ServeKeeps, LoadKeeps, RangeKeeps DEF ReadNext
<1>3. CASE StreamNext
  BY <1>3, StreamKeeps, ReaderKeeps DEF StreamNext
<1>4. CASE ReaderNext
  BY <1>4, ReaderKeeps
<1>5. CASE UNCHANGED vars
  <2>1. UNCHANGED <<slog, stail, wire, held, load, repairs>>
    BY <1>5 DEF vars, server, window, reads
  <2>2. (ReadsInv /\ Mirrors(held, slog))'
    BY <2>1, Given DEF ReadsInv
  <2>3. QED
    BY <2>1, <2>2, ClientStep
<1>6. QED
  BY <1>1, <1>2, <1>3, <1>4, <1>5 DEF Next

\* What the reader sees of a turn is what the log holds of it, from its first entry on: no
\* gap, no entry twice or out of place, no text the server did not seal, whatever frames were
\* lost or refused to decode, and whatever answers came late (store.ts's five operations,
\* store-load.ts's mergeTurn and applyTurnRange).
THEOREM WindowIsTheLogs ==
  Spec => []WindowHolds
<1>1. Init => TranscriptInv
  BY TranscriptInit
<1>2. TranscriptInv /\ [Next]_vars => TranscriptInv'
  BY TranscriptNext
<1>3. TranscriptInv => WindowHolds
  BY DEF TranscriptInv, Mirrors, Copy, WindowHolds
<1>4. QED
  BY <1>1, <1>2, <1>3, PTL DEF Spec

=============================================================================
