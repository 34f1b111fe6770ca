-------------------------- MODULE ClientFindProofs --------------------------
(***************************************************************************)
(* What the find boxes show was found for what they hold (ClientFind), for *)
(* any transcript, tabs, file and scenario.  FoundIsAsked is not inductive *)
(* for the chat's box: its counter may speak for a list that came in an    *)
(* answer, so the list on show must be of the chat on screen, and so must  *)
(* the question whose answer is still awaited.  A closed box awaits none:  *)
(* that is what a switch of chats, which closes it, leaves behind.         *)
(* The pages of the specs (ClientSpec) follow: what a page ends up showing *)
(* and running is owed meanwhile to the read that is out, to the one that  *)
(* is remembered, or to the frame that will have it read.                  *)
(***************************************************************************)
EXTENDS ClientFind, ClientSpec, SequenceTheorems, FiniteSetTheorems, TLAPS

FindFields == {"tab", "chat", "len", "res", "folds", "found", "walk", "pin", "searched", "counts",
               "disclosed", "diffs", "nodiff", "at", "open", "box", "cs", "timer", "live", "seq", "outs",
               "eng", "rerun", "hits", "hitsof", "hitsq", "order", "cursor", "announced", "busy", "navs",
               "jump", "resume", "landing", "handoff", "count"}

EngineFields == {"root", "q", "marks", "cur"}

AnswerFields == {"n", "chat", "q", "cs", "at", "res"}

\* A record, as far as it matters which fields it has.
Has(x, fields) == x = [k \in fields |-> x[k]]

Formed(f) ==
    /\ Has(f, FindFields) /\ Has(f.eng, EngineFields)
    /\ {f.open, f.timer} \subseteq BOOLEAN /\ f.seq \in Nat

\* An answer under way has a number of its own and tells of the chat it was asked about.
AnswerFits(o, seq) ==
    /\ Has(o, AnswerFields) /\ o.n \in 1 .. seq
    /\ o.res # <<>> => o.res[1].chat = o.chat

AnswersFit(outs, seq) == \E S : outs \in Seq(S) /\ \A o \in S : AnswerFits(o, seq)

\* An open box is about the chat on screen: its marks, its list, the answer it waits for.
Rooted(f) ==
    /\ f.eng.root = f.chat
    /\ f.hits # <<>> => f.hitsof = f.chat
    /\ \A i \in DOMAIN f.outs : f.outs[i].n = f.live => f.outs[i].chat = f.chat

\* A closed box shows nothing and waits for nothing.
Shut(f) ==
    /\ f.eng.marks = <<>> /\ f.count = NoCount /\ f.hits = <<>>
    /\ f.live = 0 /\ ~f.timer /\ ~f.rerun

\* The marks and the count are those of the text in the box.
Told(f) ==
    /\ f.eng.q = f.box
    /\ f.box # NoText => f.count.q = f.box /\ f.count.chat = f.chat

Grounded(f) ==
    /\ Formed(f) /\ AnswersFit(f.outs, f.seq)
    /\ IF f.open THEN Rooted(f) ELSE Shut(f)

ChatHolds(f) == Grounded(f) /\ (f.open /\ ~f.timer => Told(f))

EditorFields == {"open", "box", "timer", "searched", "res", "cur", "drawn", "mode", "loaded", "conflict", "text"}

EditorHolds(p) ==
    /\ Has(p, EditorFields) /\ {p.open, p.timer} \subseteq BOOLEAN
    /\ IF p.open THEN ~p.timer => p.searched = p.box ELSE p.drawn = Naught /\ ~p.timer

PageFields == {"open", "box", "timer", "live", "outs", "shown"}

\* What the page shows is what its box holds, or an answer to that is under way.
PageHolds(p) ==
    /\ Has(p, PageFields) /\ {p.open, p.timer} \subseteq BOOLEAN
    /\ ~p.open => p.box = NoText
    /\ p.box # NoText /\ ~p.timer => p.shown = p.box \/ \E o \in p.outs : Awaited(p, o)

FindInv == ChatHolds(fn) /\ EditorHolds(ef) /\ PageHolds(pg)

----------------------------------------------------------------------------
(* What changes nothing the invariant is about, and what an open box keeps *)
(* while a hit is landed on.                                               *)

Quiet(f, g) ==
    /\ Has(g, FindFields)
    /\ g.open = f.open /\ g.box = f.box /\ g.timer = f.timer /\ g.live = f.live /\ g.seq = f.seq
    /\ g.outs = f.outs /\ g.hits = f.hits /\ g.hitsof = f.hitsof /\ g.hitsq = f.hitsq /\ g.chat = f.chat
    /\ g.rerun = f.rerun /\ g.eng = f.eng /\ g.count = f.count

\* The box, its chat and what it waits for are as before, and it holds.
Onward(f, g) ==
    /\ ChatHolds(g) /\ g.open = f.open /\ g.box = f.box /\ g.chat = f.chat
    /\ g.live = f.live /\ g.seq = f.seq /\ g.outs = f.outs /\ g.timer = f.timer

\* A quiet step keeps what holds.
LEMMA QuietHolds ==
  ASSUME NEW f, NEW g, ChatHolds(f), Quiet(f, g)
  PROVE  Onward(f, g)
BY DEF ChatHolds, Grounded, Formed, Rooted, Shut, Told, Quiet, Onward

\* The same of what holds before the marks are drawn.
LEMMA QuietGrounds ==
  ASSUME NEW f, NEW g, Grounded(f), Quiet(f, g)
  PROVE  Grounded(g)
BY DEF Grounded, Formed, Rooted, Shut, Quiet

\* One after the other.
LEMMA QuietAgain ==
  ASSUME NEW f, NEW g, NEW h, Quiet(f, g), Quiet(g, h)
  PROVE  Quiet(f, h)
BY DEF Quiet

\* Setting any other field is quiet.
LEMMA OtherFields ==
  ASSUME NEW f, Has(f, FindFields), NEW v,
         NEW k \in FindFields \ {"open", "box", "timer", "live", "seq", "outs", "hits", "hitsof",
                                 "hitsq", "chat", "rerun", "eng", "count"}
  PROVE  Quiet(f, [f EXCEPT ![k] = v])
BY DEF Quiet, Has, FindFields

\* The transcript changed: an open box is to draw its marks anew.
LEMMA MutatedHolds ==
  ASSUME NEW f, ChatHolds(f)
  PROVE  Onward(f, Mutated(f))
<1> DEFINE g == Mutated(f)
<1>1. Has(f, FindFields) /\ f.open \in BOOLEAN
  BY DEF ChatHolds, Grounded, Formed
<1>2. CASE ~f.open
  BY <1>2 DEF Mutated, Onward
<1>3. CASE f.open
  <2>1. /\ Has(g, FindFields)
        /\ g.open = f.open /\ g.box = f.box /\ g.timer = f.timer /\ g.live = f.live /\ g.seq = f.seq
        /\ g.outs = f.outs /\ g.hits = f.hits /\ g.hitsof = f.hitsof /\ g.hitsq = f.hitsq /\ g.chat = f.chat
        /\ g.eng = f.eng /\ g.count = f.count
    BY <1>1, <1>3 DEF Mutated, Has, FindFields
  <2> HIDE DEF g
  <2>2. QED
    BY <2>1, <1>3 DEF ChatHolds, Grounded, Formed, Rooted, Told, Onward, g
<1>4. QED
  BY <1>1, <1>2, <1>3

\* Another mark is lit, or none.
LEMMA LitHolds ==
  ASSUME NEW f, ChatHolds(f), f.open, NEW i
  PROVE  Onward(f, [f EXCEPT !.eng.cur = i])
<1> DEFINE g == [f EXCEPT !.eng.cur = i]
<1>1. Has(f, FindFields) /\ Has(f.eng, EngineFields)
  BY DEF ChatHolds, Grounded, Formed
<1>2. /\ Has(g, FindFields)
      /\ g.open = f.open /\ g.box = f.box /\ g.timer = f.timer /\ g.live = f.live /\ g.seq = f.seq
      /\ g.outs = f.outs /\ g.hits = f.hits /\ g.hitsof = f.hitsof /\ g.hitsq = f.hitsq /\ g.chat = f.chat
      /\ g.rerun = f.rerun /\ g.count = f.count
      /\ g.eng = [f.eng EXCEPT !.cur = i]
  BY <1>1 DEF Has, FindFields
<1>3. Has(g.eng, EngineFields) /\ g.eng.root = f.eng.root /\ g.eng.q = f.eng.q
  BY <1>1, <1>2 DEF Has, EngineFields
<1> HIDE DEF g
<1>4. Grounded(g)
  BY <1>2, <1>3 DEF ChatHolds, Grounded, Formed, Rooted
<1>5. QED
  BY <1>2, <1>3, <1>4 DEF ChatHolds, Told, Onward, g

\* A step of the marks, and the mark nearest a hit.
LEMMA MarksHold ==
  ASSUME NEW f, ChatHolds(f), f.open, NEW i
  PROVE  Onward(f, EngineMove(f, i)) /\ Onward(f, SetCurrent(f, i))
BY LitHolds DEF EngineMove, SetCurrent, Onward

\* What a place in the transcript is scrolled to is quiet.
LEMMA PlacesHold ==
  ASSUME NEW f, ChatHolds(f), NEW e
  PROVE  Onward(f, RevealCurrent(f)) /\ Onward(f, SelectContainer(f, e))
<1>1. Has(f, FindFields)
  BY DEF ChatHolds, Grounded, Formed
<1>2. \A c, t : Quiet(f, [f EXCEPT !.at[c] = t])
  BY <1>1 DEF Quiet, Has, FindFields
<1>3. Onward(f, f)
  BY DEF Onward
<1>4. \A c, t : Onward(f, [f EXCEPT !.at[c] = t])
  BY <1>2, QuietHolds
<1>5. QED
  BY <1>3, <1>4 DEF RevealCurrent, SelectContainer

\* The counter set to what is true of the box.
LEMMA CountHolds ==
  ASSUME NEW f, ChatHolds(f), f.open, NEW c, f.timer \/ f.box = NoText \/ (c.q = f.box /\ c.chat = f.chat)
  PROVE  Onward(f, [f EXCEPT !.count = c])
<1> DEFINE g == [f EXCEPT !.count = c]
<1>1. Has(f, FindFields)
  BY DEF ChatHolds, Grounded, Formed
<1>2. /\ Has(g, FindFields)
      /\ g.open = f.open /\ g.box = f.box /\ g.timer = f.timer /\ g.live = f.live /\ g.seq = f.seq
      /\ g.outs = f.outs /\ g.hits = f.hits /\ g.hitsof = f.hitsof /\ g.hitsq = f.hitsq /\ g.chat = f.chat
      /\ g.rerun = f.rerun /\ g.eng = f.eng /\ g.count = c
  BY <1>1 DEF Has, FindFields
<1> HIDE DEF g
<1>3. Grounded(g)
  BY <1>2 DEF ChatHolds, Grounded, Formed, Rooted
<1>4. QED
  BY <1>2, <1>3 DEF ChatHolds, Told, Onward, g

\* The counter speaks for the list where a step owns it, for the marks elsewhere.
LEMMA CounterHolds ==
  ASSUME NEW f, ChatHolds(f), f.open
  PROVE  Onward(f, UpdateCounter(f, f.box)) /\ Onward(f, PaintHitPosition(f))
<1>1. Rooted(f) /\ (~f.timer => f.eng.q = f.box) /\ f.timer \in BOOLEAN
  BY DEF ChatHolds, Grounded, Formed, Told
<1>2. StepsOwnedList(f, f.box) => /\ SteppedCounter(f, f.box).q = f.box
                                  /\ SteppedCounter(f, f.box).chat = f.chat
  BY <1>1 DEF StepsOwnedList, SteppedCounter, Rooted
<1>3. f.timer \/ f.box = NoText \/ (DomCounter(f, f.box).q = f.box /\ DomCounter(f, f.box).chat = f.chat)
  BY <1>1 DEF DomCounter, Rooted
<1>4. Onward(f, f)
  BY DEF Onward
<1>5. StepsOwnedList(f, f.box) => Onward(f, [f EXCEPT !.count = SteppedCounter(f, f.box)])
  BY <1>2, CountHolds
<1>6. Onward(f, [f EXCEPT !.count = DomCounter(f, f.box)])
  BY <1>3, CountHolds
<1>7. Onward(f, UpdateCounter(f, f.box))
  BY <1>5, <1>6 DEF UpdateCounter
<1>8. QED
  BY <1>4, <1>5, <1>7 DEF PaintHitPosition

\* The marks of the text in the box.
LEMMA SearchedMarks ==
  ASSUME NEW f, Formed(f)
  PROVE  LET g == EngineSearch(f, f.box) IN
         /\ Has(g, FindFields)
         /\ g.open = f.open /\ g.box = f.box /\ g.timer = f.timer /\ g.live = f.live /\ g.seq = f.seq
         /\ g.outs = f.outs /\ g.hits = f.hits /\ g.hitsof = f.hitsof /\ g.hitsq = f.hitsq /\ g.chat = f.chat
         /\ g.rerun = f.rerun /\ g.count = f.count
         /\ Has(g.eng, EngineFields) /\ g.eng.root = f.eng.root /\ g.eng.q = f.box
<1> DEFINE marks == IF f.box = NoText \/ f.eng.root # f.chat THEN <<>> ELSE Marks(f, f.box, f.cs)
           cur == IF marks = <<>> THEN 0 ELSE 1
           g == [f EXCEPT !.eng.q = f.box, !.eng.marks = marks, !.eng.cur = cur]
           eng == [[[f.eng EXCEPT !.q = f.box] EXCEPT !.marks = marks] EXCEPT !.cur = cur]
<1>1. EngineSearch(f, f.box) = g
  BY DEF EngineSearch
<1> HIDE DEF marks, cur
<1>2. Has(f, FindFields) /\ Has(f.eng, EngineFields)
  BY DEF Formed
<1>3. g = [f EXCEPT !.eng = eng]
  BY <1>2 DEF Has, FindFields, EngineFields
<1>4. Has(eng, EngineFields) /\ eng.root = f.eng.root /\ eng.q = f.box
  BY <1>2 DEF Has, EngineFields
<1> HIDE DEF eng
<1>5. /\ Has([f EXCEPT !.eng = eng], FindFields)
      /\ [f EXCEPT !.eng = eng].eng = eng
      /\ \A k \in FindFields \ {"eng"} : [f EXCEPT !.eng = eng][k] = f[k]
  BY <1>2 DEF Has, FindFields
<1> HIDE DEF g
<1>6. QED
  BY <1>1, <1>3, <1>4, <1>5 DEF FindFields

\* Marking the text in the box keeps what holds.
LEMMA SearchHolds ==
  ASSUME NEW f, ChatHolds(f), f.open
  PROVE  Onward(f, EngineSearch(f, f.box))
<1> DEFINE g == EngineSearch(f, f.box)
<1>1. /\ Has(g, FindFields)
      /\ g.open = f.open /\ g.box = f.box /\ g.timer = f.timer /\ g.live = f.live /\ g.seq = f.seq
      /\ g.outs = f.outs /\ g.hits = f.hits /\ g.hitsof = f.hitsof /\ g.hitsq = f.hitsq /\ g.chat = f.chat
      /\ g.rerun = f.rerun /\ g.count = f.count
      /\ Has(g.eng, EngineFields) /\ g.eng.root = f.eng.root /\ g.eng.q = f.box
  BY SearchedMarks DEF ChatHolds, Grounded
<1> HIDE DEF g
<1>2. QED
  BY <1>1 DEF ChatHolds, Grounded, Formed, Rooted, Told, Onward, g

\* Marked and counted, an open box tells of its text whatever it told of before.
LEMMA SearchTells ==
  ASSUME NEW f, Grounded(f), f.open
  PROVE  LET g == UpdateCounter(EngineSearch(f, f.box), f.box) IN
         /\ ChatHolds(g) /\ g.open = f.open /\ g.box = f.box /\ g.chat = f.chat
         /\ g.live = f.live /\ g.seq = f.seq /\ g.outs = f.outs /\ g.timer = f.timer
<1> DEFINE h == EngineSearch(f, f.box)
<1>1. /\ Has(h, FindFields)
      /\ h.open = f.open /\ h.box = f.box /\ h.timer = f.timer /\ h.live = f.live /\ h.seq = f.seq
      /\ h.outs = f.outs /\ h.hits = f.hits /\ h.hitsof = f.hitsof /\ h.hitsq = f.hitsq /\ h.chat = f.chat
      /\ h.rerun = f.rerun /\ h.count = f.count
      /\ Has(h.eng, EngineFields) /\ h.eng.root = f.eng.root /\ h.eng.q = f.box
  BY SearchedMarks DEF Grounded
<1> HIDE DEF h
<1>2. Formed(h) /\ AnswersFit(h.outs, h.seq) /\ Rooted(h)
  BY <1>1 DEF Grounded, Formed, Rooted
<1> DEFINE c == IF StepsOwnedList(h, h.box) THEN SteppedCounter(h, h.box) ELSE DomCounter(h, h.box)
           g == [h EXCEPT !.count = c]
<1>3. h.box # NoText => c.q = h.box /\ c.chat = h.chat
  BY <1>1, <1>2 DEF StepsOwnedList, SteppedCounter, DomCounter, Rooted
<1>4. UpdateCounter(h, f.box) = g
  BY <1>1 DEF UpdateCounter
<1> HIDE DEF c
<1>5. /\ Has(g, FindFields)
      /\ g.open = h.open /\ g.box = h.box /\ g.timer = h.timer /\ g.live = h.live /\ g.seq = h.seq
      /\ g.outs = h.outs /\ g.hits = h.hits /\ g.hitsof = h.hitsof /\ g.hitsq = h.hitsq /\ g.chat = h.chat
      /\ g.rerun = h.rerun /\ g.eng = h.eng /\ g.count = c
  BY <1>1 DEF Has, FindFields
<1> HIDE DEF g
<1>6. ChatHolds(g)
  BY <1>1, <1>2, <1>3, <1>5 DEF ChatHolds, Grounded, Formed, Rooted, Told
<1>7. QED
  BY <1>1, <1>4, <1>5, <1>6 DEF h

\* One step after the other.
LEMMA OnwardAgain ==
  ASSUME NEW f, NEW g, NEW h, Onward(f, g), Onward(g, h)
  PROVE  Onward(f, h)
BY DEF Onward

----------------------------------------------------------------------------
(* Landing on a hit.                                                       *)

\* What is opened, given back or announced is quiet.
LEMMA OpenedIsQuiet ==
  ASSUME NEW f, Has(f, FindFields), NEW c, NEW ts
  PROVE  /\ Quiet(f, OpenForSearch(f, c, ts)) /\ Quiet(f, ClearSearchOpened(f, c))
         /\ Quiet(f, MountForWalk(f, c, ts)) /\ Quiet(f, EndWalkReveal(f, c))
         /\ Quiet(f, TakeBoundaryNotice(f)) /\ Quiet(f, ResetServerSearch(f))
<1>1. Quiet(f, OpenForSearch(f, c, ts))
  BY DEF Quiet, Has, FindFields, OpenForSearch
<1>2. \A g : Has(g, FindFields) => Quiet(g, ClearSearchOpened(g, c))
  BY DEF Quiet, Has, FindFields, ClearSearchOpened
<1>3. Quiet(f, MountForWalk(f, c, ts))
  BY DEF Quiet, Has, FindFields, MountForWalk
<1>4. \A g, d : Has(g, FindFields) => Quiet(g, EndWalkReveal(g, d))
  BY DEF Quiet, Has, FindFields, EndWalkReveal
<1>5. Quiet(f, TakeBoundaryNotice(f))
  BY DEF Quiet, Has, FindFields, TakeBoundaryNotice
<1>6. \A g, d : Has(g, FindFields) => Quiet(g, ClearSearchOpened(g, d))
  BY DEF Quiet, Has, FindFields, ClearSearchOpened
<1>7. Quiet(f, ResetServerSearch(f))
  <2> DEFINE g == [f EXCEPT !.searched = Naught, !.counts = {}]
             h == EndWalkReveal(g, f.searched)
  <2>1. Quiet(f, g)
    BY DEF Quiet, Has, FindFields
  <2>2. Quiet(g, h)
    BY <1>4, <2>1 DEF Quiet
  <2>3. Quiet(h, ClearSearchOpened(h, f.searched))
    BY <1>6, <2>2 DEF Quiet
  <2>4. QED
    BY <2>1, <2>2, <2>3, QuietAgain DEF ResetServerSearch
<1>8. QED
  BY <1>1, <1>2, <1>3, <1>4, <1>5, <1>7

\* A navigation sets out.
LEMMA StartsHold ==
  ASSUME NEW f, ChatHolds(f), NEW e, NEW at
  PROVE  Onward(f, RevealHitTurn(f, e)) /\ Onward(f, Starts(f, e, at))
<1>1. Has(f, FindFields)
  BY DEF ChatHolds, Grounded, Formed
<1> DEFINE c == LogEntries[e].chat
           t == LogEntries[e].turn
           g == OpenForSearch(f, c, {t})
           h == [g EXCEPT !.pin = <<c, t>>]
           s == IF at = "reveal" THEN RevealHitTurn(f, e) ELSE f
           n == [hit |-> e, chat |-> f.chat, at |-> at]
           r == [s EXCEPT !.busy = TRUE, !.navs = Append(s.navs, n)]
<1>2. Quiet(f, g)
  BY <1>1, OpenedIsQuiet
<1>3. Quiet(g, h)
  BY <1>2 DEF Quiet, Has, FindFields
<1>4. Quiet(f, h) /\ h = RevealHitTurn(f, e)
  BY <1>2, <1>3, QuietAgain DEF RevealHitTurn
<1>5. Quiet(f, s)
  BY <1>1, <1>4 DEF Quiet
<1> HIDE DEF n, s
<1>6. Quiet(s, r)
  BY <1>5 DEF Quiet, Has, FindFields
<1>7. Starts(f, e, at) = r
  BY DEF Starts, s, n
<1>8. QED
  BY <1>4, <1>5, <1>6, <1>7, QuietAgain, QuietHolds

\* The mark of the hit is lit, counted and shown.
LEMMA LandHolds ==
  ASSUME NEW f, ChatHolds(f), f.open, NEW e
  PROVE  Onward(f, Land(f, e))
<1> DEFINE g == SetCurrent(f, PickNearestMark(f, e))
           h == UpdateCounter(g, g.box)
<1>1. Onward(f, g)
  BY MarksHold
<1>2. Onward(g, h)
  BY <1>1, CounterHolds DEF Onward
<1>3. Onward(h, RevealCurrent(h))
  BY <1>2, PlacesHold DEF Onward
<1>4. Land(f, e) = RevealCurrent(h)
  BY <1>1 DEF Land, Onward
<1>5. QED
  BY <1>1, <1>2, <1>3, <1>4, OnwardAgain

\* A hit elsewhere is gone to.
LEMMA NavigateHolds ==
  ASSUME NEW f, ChatHolds(f), f.open, NEW e
  PROVE  Onward(f, NavigateToHit(f, e))
<1>1. CASE LogEntries[e].lane
  <2> DEFINE g == TakeBoundaryNotice(f)
             h == PaintHitPosition(g)
             s == Starts(h, e, "import")
             r == [s EXCEPT !.jump = TRUE, !.resume = e]
  <2>1. Onward(f, g)
    BY OpenedIsQuiet, QuietHolds DEF ChatHolds, Grounded, Formed
  <2>2. Onward(g, h)
    BY <2>1, CounterHolds DEF Onward
  <2>3. Onward(h, s)
    BY <2>2, StartsHold DEF Onward
  <2> HIDE DEF s
  <2>4. Has(s, FindFields) /\ ChatHolds(s)
    BY <2>3 DEF Onward, ChatHolds, Grounded, Formed
  <2>5. Quiet(s, r)
    BY <2>4 DEF Quiet, Has, FindFields
  <2>6. Onward(s, r)
    BY <2>4, <2>5, QuietHolds
  <2>7. NavigateToHit(f, e) = r
    BY <1>1 DEF NavigateToHit, s
  <2>8. QED
    BY <2>1, <2>2, <2>3, <2>6, <2>7, OnwardAgain
<1>2. CASE ~LogEntries[e].lane
  BY <1>2, CounterHolds, StartsHold DEF NavigateToHit
<1>3. QED
  BY <1>1, <1>2

\* A step to the list's next hit.
LEMMA StepHolds ==
  ASSUME NEW f, ChatHolds(f), f.open, NEW e, NEW dir
  PROVE  Onward(f, LandOnHit(f, e)) /\ Onward(f, StepServerHit(f, dir))
<1>1. \A g, d : ChatHolds(g) /\ g.open => Onward(g, LandOnHit(g, d))
  BY LandHolds, NavigateHolds DEF LandOnHit
<1>2. \A i : Onward(f, [f EXCEPT !.cursor = i])
  <2> TAKE i
  <2>1. Quiet(f, [f EXCEPT !.cursor = i])
    BY DEF ChatHolds, Grounded, Formed, Quiet, Has, FindFields
  <2>2. QED
    BY <2>1, QuietHolds
<1>3. \A i, d : Onward(f, LandOnHit([f EXCEPT !.cursor = i], d))
  <2> TAKE i, d
  <2> DEFINE g == [f EXCEPT !.cursor = i]
  <2>1. Onward(f, g)
    BY <1>2
  <2> HIDE DEF g
  <2>2. Onward(g, LandOnHit(g, d))
    BY <1>1, <2>1 DEF Onward
  <2>3. QED
    BY <2>1, <2>2, OnwardAgain DEF g
<1>4. Onward(f, f)
  BY DEF Onward
<1>5. Onward(f, StepServerHit(f, dir))
  BY <1>3, <1>4, Zenon DEF StepServerHit
<1>6. QED
  BY <1>1, <1>5

----------------------------------------------------------------------------
(* Searches: what is asked, answered and given up.                         *)

\* An answer under way was asked before the next one is.
LEMMA AnswersAre ==
  ASSUME NEW outs, NEW seq \in Nat, AnswersFit(outs, seq), NEW i \in DOMAIN outs
  PROVE  AnswerFits(outs[i], seq) /\ i \in Nat \ {0} /\ i <= Len(outs) /\ Len(outs) \in Nat
<1>1. PICK S : outs \in Seq(S) /\ \A o \in S : AnswerFits(o, seq)
  BY DEF AnswersFit
<1>2. DOMAIN outs = 1..Len(outs) /\ Len(outs) \in Nat /\ outs[i] \in S
  BY <1>1, LenProperties, ElementOfSeq
<1>3. QED
  BY <1>1, <1>2

\* Answers given, dropped and asked for.
LEMMA AnswersChange ==
  ASSUME NEW outs, NEW seq \in Nat, AnswersFit(outs, seq)
  PROVE  /\ AnswersFit(outs, seq + 1)
         /\ \A o : AnswerFits(o, seq) => AnswersFit(Append(outs, o), seq)
         /\ \A i \in DOMAIN outs : \A o : AnswerFits(o, seq) => AnswersFit([outs EXCEPT ![i] = o], seq)
         /\ \A i \in DOMAIN outs : AnswersFit(RemoveAt(outs, i), seq)
<1>1. PICK S : outs \in Seq(S) /\ \A o \in S : AnswerFits(o, seq)
  BY DEF AnswersFit
<1>2. DOMAIN outs = 1..Len(outs) /\ Len(outs) \in Nat
  BY <1>1, LenProperties
<1>3. AnswersFit(outs, seq + 1)
  BY <1>1 DEF AnswersFit, AnswerFits
<1>4. ASSUME NEW o, AnswerFits(o, seq) PROVE AnswersFit(Append(outs, o), seq)
  <2>1. outs \in Seq(S \cup {o})
    BY <1>1
  <2>2. Append(outs, o) \in Seq(S \cup {o})
    BY <2>1
  <2>3. QED
    BY <1>1, <1>4, <2>2 DEF AnswersFit
<1>5. ASSUME NEW i \in DOMAIN outs, NEW o, AnswerFits(o, seq) PROVE AnswersFit([outs EXCEPT ![i] = o], seq)
  <2>1. outs \in Seq(S \cup {o})
    BY <1>1
  <2>2. [outs EXCEPT ![i] = o] \in Seq(S \cup {o})
    BY <1>2, <2>1
  <2>3. QED
    BY <1>1, <1>5, <2>2 DEF AnswersFit
<1>6. ASSUME NEW i \in DOMAIN outs PROVE AnswersFit(RemoveAt(outs, i), seq)
  <2>1. i \in 1..Len(outs)
    BY <1>2, <1>6
  <2>2. SubSeq(outs, 1, i - 1) \in Seq(S) /\ SubSeq(outs, i + 1, Len(outs)) \in Seq(S)
    BY <1>1, <1>2, <2>1
  <2>3. RemoveAt(outs, i) \in Seq(S)
    BY <2>2 DEF RemoveAt
  <2>4. QED
    BY <1>1, <2>3 DEF AnswersFit
<1>7. QED
  BY <1>3, <1>4, <1>5, <1>6

\* What is left when one is dropped was there before.
LEMMA RestWasThere ==
  ASSUME NEW outs, NEW seq \in Nat, AnswersFit(outs, seq), NEW i \in DOMAIN outs,
         NEW j \in DOMAIN RemoveAt(outs, i)
  PROVE  \E k \in DOMAIN outs : RemoveAt(outs, i)[j] = outs[k]
<1>1. PICK S : outs \in Seq(S) /\ \A o \in S : AnswerFits(o, seq)
  BY DEF AnswersFit
<1>2. DOMAIN outs = 1..Len(outs) /\ Len(outs) \in Nat
  BY <1>1, LenProperties
<1> DEFINE a == SubSeq(outs, 1, i - 1)
           b == SubSeq(outs, i + 1, Len(outs))
<1>3. i \in 1..Len(outs)
  BY <1>2
<1>4. a \in Seq(S) /\ Len(a) = i - 1 /\ \A k \in 1..(i - 1) : a[k] = outs[k]
  BY <1>1, <1>2, <1>3
<1>5. b \in Seq(S) /\ Len(b) = Len(outs) - i /\ \A k \in 1..(Len(outs) - i) : b[k] = outs[k + i]
  BY <1>1, <1>2, <1>3
<1> HIDE DEF a, b
<1>6. RemoveAt(outs, i) = a \o b
  BY DEF RemoveAt, a, b
<1>7. /\ Len(a \o b) = Len(outs) - 1
      /\ \A k \in 1..(Len(outs) - 1) : (a \o b)[k] = IF k <= i - 1 THEN a[k] ELSE b[k - (i - 1)]
  <2>1. Len(a) + Len(b) = Len(outs) - 1 /\ Len(a) = i - 1
    BY <1>2, <1>3, <1>4, <1>5
  <2>2. Len(a \o b) = Len(a) + Len(b)
    BY <1>4, <1>5, ConcatProperties
  <2>3. \A k \in 1..(Len(a) + Len(b)) : (a \o b)[k] = IF k <= Len(a) THEN a[k] ELSE b[k - Len(a)]
    BY <1>4, <1>5, ConcatProperties
  <2>4. QED
    BY <2>1, <2>2, <2>3
<1>8. a \o b \in Seq(S)
  BY <1>4, <1>5
<1>9. j \in 1..(Len(outs) - 1)
  BY <1>6, <1>7, <1>8, LenProperties
<1>10. CASE j <= i - 1
  <2>1. j \in 1..(i - 1) /\ j \in 1..Len(outs)
    BY <1>2, <1>3, <1>9, <1>10
  <2>2. (a \o b)[j] = outs[j]
    BY <1>4, <1>7, <1>9, <1>10, <2>1
  <2>3. QED
    BY <1>2, <1>6, <2>1, <2>2
<1>11. CASE ~(j <= i - 1)
  <2>1. j - (i - 1) \in 1..(Len(outs) - i) /\ j + 1 \in 1..Len(outs) /\ (j - (i - 1)) + i = j + 1
    BY <1>2, <1>3, <1>9, <1>11
  <2>2. (a \o b)[j] = outs[j + 1]
    BY <1>5, <1>7, <1>9, <1>11, <2>1
  <2>3. QED
    BY <1>2, <1>6, <2>1, <2>2
<1>12. QED
  BY <1>10, <1>11

\* A list is taken for the chat it is of.
LEMMA AdoptHolds ==
  ASSUME NEW f, ChatHolds(f), f.open, NEW q, NEW res, res[1].chat = f.chat
  PROVE  Onward(f, Adopt(f, q, res))
<1> DEFINE hits == res[1].hits
           order == BuildStepOrder(hits)
           g == [f EXCEPT !.hits = hits, !.hitsof = f.chat, !.hitsq = q, !.order = order,
                          !.announced = FALSE, !.landing = FALSE, !.resume = 0]
           cursor == IF f.resume = 0 THEN 0 ELSE IndexIn(g.order, f.resume)
           h == [g EXCEPT !.cursor = cursor]
<1>1. Adopt(f, q, res) = h
  BY DEF Adopt
<1>2. Has(f, FindFields)
  BY DEF ChatHolds, Grounded, Formed
<1> HIDE DEF hits, order, cursor
<1>3. /\ Has(g, FindFields)
      /\ g.open = f.open /\ g.box = f.box /\ g.timer = f.timer /\ g.live = f.live /\ g.seq = f.seq
      /\ g.outs = f.outs /\ g.hitsof = f.chat /\ g.chat = f.chat
      /\ g.rerun = f.rerun /\ g.eng = f.eng /\ g.count = f.count
  BY <1>2, ZenonT(60) DEF Has, FindFields
<1> HIDE DEF g
<1>4. Onward(f, g)
  BY <1>3 DEF ChatHolds, Grounded, Formed, Rooted, Told, Onward
<1>5. Quiet(g, h)
  BY <1>3 DEF Quiet, Has, FindFields
<1>6. Onward(g, h)
  BY <1>4, <1>5, QuietHolds DEF Onward
<1>7. QED
  BY <1>1, <1>4, <1>6, OnwardAgain

\* An answer to what the box holds is drawn, and a failed one leaves what was found.
LEMMA RenderHolds ==
  ASSUME NEW f, ChatHolds(f), f.open, NEW res, res # <<>> => res[1].chat = f.chat
  PROVE  Onward(f, Render(f, f.box, res))
<1> DEFINE g == IF res = <<>> THEN f ELSE Adopt(f, f.box, res)
           s == EngineSearch(g, g.box)
           h == UpdateCounter(s, s.box)
<1>1. Onward(f, f)
  BY DEF Onward
<1>2. Onward(f, g)
  BY <1>1, AdoptHolds
<1> HIDE DEF g
<1>3. Onward(g, UpdateCounter(g, g.box))
  BY <1>2, CounterHolds DEF Onward
<1>4. Onward(g, s)
  BY <1>2, SearchHolds DEF Onward
<1>5. Onward(s, h)
  BY <1>2, <1>4, CounterHolds DEF Onward
<1>6. Onward(f, h)
  BY <1>2, <1>4, <1>5, OnwardAgain
<1>7. g.box = f.box /\ s.box = f.box
  BY <1>2, <1>4 DEF Onward
<1>8. Onward(f, UpdateCounter(g, f.box))
  BY <1>2, <1>3, <1>7, OnwardAgain
<1>9. h = UpdateCounter(EngineSearch(g, f.box), f.box)
  BY <1>7
<1> HIDE DEF h
<1>10. ChatHolds(h) /\ h.open
  BY <1>6 DEF Onward
<1>11. Onward(f, RevealCurrent(h))
  BY <1>6, <1>10, PlacesHold, OnwardAgain
<1>12. \A e : Onward(f, LandOnHit(h, e))
  BY <1>6, <1>10, StepHolds, OnwardAgain
<1>13. Render(f, f.box, res) \in {UpdateCounter(g, f.box), LandOnHit(h, g.order[g.cursor]), RevealCurrent(h)}
  BY <1>9 DEF Render, g
<1>14. QED
  BY <1>8, <1>11, <1>12, <1>13

\* A run of the box asks anew, and awaits no answer but that to what it asks.
LEMMA RunHolds ==
  ASSUME NEW f, Grounded(f), f.open
  PROVE  ChatHolds(Run(f)) /\ Run(f).open /\ ~Run(f).timer /\ Run(f).box = f.box
<1> DEFINE n == f.seq + 1
           a == [f EXCEPT !.timer = FALSE, !.seq = n, !.live = n]
           s == EngineSearch(a, a.box)
           g == UpdateCounter(s, a.box)
           h == IF g.landing THEN g ELSE RevealCurrent(g)
<1>1. /\ Has(f, FindFields) /\ Has(f.eng, EngineFields) /\ f.seq \in Nat /\ n \in Nat
      /\ AnswersFit(f.outs, f.seq) /\ Rooted(f)
  BY DEF Grounded, Formed
<1> HIDE DEF n
<1>2. /\ Has(a, FindFields) /\ a.timer = FALSE /\ a.seq = n /\ a.live = n
      /\ a.open = f.open /\ a.box = f.box /\ a.outs = f.outs /\ a.hits = f.hits /\ a.hitsof = f.hitsof
      /\ a.chat = f.chat /\ a.eng = f.eng /\ a.cs = f.cs
  BY <1>1, ZenonT(60) DEF Has, FindFields
<1> HIDE DEF a
<1>3. Formed(a) /\ AnswersFit(a.outs, a.seq)
  BY <1>1, <1>2, AnswersChange DEF Formed, Grounded, n
<1>4. \A i \in DOMAIN f.outs : f.outs[i].n # n
  <2>1. \A i \in DOMAIN f.outs : f.outs[i].n \in 1 .. f.seq
    BY <1>1, AnswersAre DEF AnswerFits
  <2>2. QED
    BY <1>1, <2>1 DEF n
<1>5. Rooted(a)
  BY <1>1, <1>2, <1>4 DEF Rooted
<1>6. Grounded(a) /\ a.open
  BY <1>2, <1>3, <1>5 DEF Grounded
<1>7. /\ ChatHolds(g) /\ g.open = f.open /\ g.box = f.box /\ g.chat = f.chat
      /\ g.live = n /\ g.seq = n /\ g.outs = f.outs /\ g.timer = FALSE
  BY <1>2, <1>6, SearchTells
<1> HIDE DEF g
<1>8. Onward(g, g)
  BY <1>7 DEF Onward
<1>9. Onward(g, h)
  BY <1>7, <1>8, PlacesHold
<1>10. h = IF g.landing THEN g ELSE RevealCurrent(g)
  OBVIOUS
<1> HIDE DEF h
<1>11. /\ ChatHolds(h) /\ h.open /\ h.box = f.box /\ h.chat = f.chat
       /\ h.live = n /\ h.seq = n /\ h.outs = f.outs /\ h.timer = FALSE
  BY <1>7, <1>9 DEF Onward
<1>12. CASE f.box = NoText
  <2> DEFINE r == ResetServerSearch(h)
             l == [r EXCEPT !.live = 0]
             res == <<[chat |-> f.chat, hits |-> <<>>]>>
  <2>1. Onward(h, r)
    BY <1>11, OpenedIsQuiet, QuietHolds DEF ChatHolds, Grounded, Formed
  <2> HIDE DEF r
  <2>2. /\ ChatHolds(r) /\ r.open /\ r.box = f.box /\ r.chat = f.chat /\ r.timer = FALSE
        /\ r.outs = f.outs /\ r.seq = n
    BY <1>11, <2>1 DEF Onward
  <2>3. Has(r, FindFields)
    BY <2>2 DEF ChatHolds, Grounded, Formed
  <2>4. /\ Has(l, FindFields) /\ l.live = 0
        /\ l.open = r.open /\ l.box = r.box /\ l.timer = r.timer /\ l.seq = r.seq
        /\ l.outs = r.outs /\ l.hits = r.hits /\ l.hitsof = r.hitsof /\ l.chat = r.chat
        /\ l.eng = r.eng /\ l.count = r.count
    BY <2>3 DEF Has, FindFields
  <2> HIDE DEF l
  <2>5. \A i \in DOMAIN f.outs : f.outs[i].n # 0
    BY <1>1, AnswersAre DEF AnswerFits
  <2>6. ChatHolds(l)
    BY <2>2, <2>4, <2>5 DEF ChatHolds, Grounded, Formed, Rooted, Told
  <2>7. res # <<>> /\ res[1].chat = l.chat
    BY <2>2, <2>4
  <2> HIDE DEF res
  <2>8. Onward(l, Render(l, l.box, res))
    BY <2>2, <2>4, <2>6, <2>7, RenderHolds
  <2>9. Run(f) = Render(l, l.box, res)
    BY <1>2, <1>10, <1>12, <2>2, <2>4 DEF Run, a, n, g, l, r, res
  <2>10. QED
    BY <2>2, <2>4, <2>8, <2>9 DEF Onward
<1>13. CASE f.box # NoText
  <2> DEFINE o == [n |-> n, chat |-> f.chat, q |-> f.box, cs |-> f.cs, at |-> "asked", res |-> <<>>]
             r == [h EXCEPT !.outs = Append(h.outs, o)]
  <2>1. Run(f) = r
    BY <1>2, <1>10, <1>13 DEF Run, a, n, g
  <2>2. AnswerFits(o, n) /\ o.chat = f.chat
    BY <1>1 DEF AnswerFits, Has, AnswerFields, n
  <2> HIDE DEF o
  <2>3. Has(h, FindFields)
    BY <1>11 DEF ChatHolds, Grounded, Formed
  <2>4. /\ Has(r, FindFields) /\ r.outs = Append(f.outs, o)
        /\ r.open = h.open /\ r.box = h.box /\ r.timer = h.timer /\ r.seq = h.seq /\ r.live = h.live
        /\ r.hits = h.hits /\ r.hitsof = h.hitsof /\ r.chat = h.chat
        /\ r.eng = h.eng /\ r.count = h.count
    BY <1>11, <2>3 DEF Has, FindFields
  <2> HIDE DEF r
  <2>5. AnswersFit(f.outs, n)
    BY <1>2, <1>3
  <2>6. AnswersFit(r.outs, r.seq)
    <3>1. AnswersFit(Append(f.outs, o), n)
      BY <1>1, <2>2, <2>5, AnswersChange
    <3>2. QED
      BY <1>11, <2>4, <3>1
  <2>7. \A i \in DOMAIN r.outs : r.outs[i].n = r.live => r.outs[i].chat = r.chat
    <3>1. PICK S : f.outs \in Seq(S)
      BY <1>1 DEF AnswersFit
    <3>2. \A i \in DOMAIN Append(f.outs, o) : \/ i \in DOMAIN f.outs /\ Append(f.outs, o)[i] = f.outs[i]
                                              \/ Append(f.outs, o)[i] = o
      BY <3>1
    <3>3. QED
      BY <1>4, <1>11, <2>2, <2>4, <3>2
  <2>8. ChatHolds(r)
    BY <1>11, <2>4, <2>6, <2>7 DEF ChatHolds, Grounded, Formed, Rooted, Told
  <2>9. QED
    BY <1>11, <2>1, <2>4, <2>8
<1>14. QED
  BY <1>12, <1>13

----------------------------------------------------------------------------
(* Opening and closing.                                                    *)

\* What closing the box needs: nothing of the chat it was open over.
Closable(f) == Formed(f) /\ AnswersFit(f.outs, f.seq) /\ (~f.open => Shut(f))

\* A closed box marks nothing, counts nothing and waits for nothing.
LEMMA CloseHolds ==
  ASSUME NEW f, Closable(f)
  PROVE  ChatHolds(CloseChatFind(f)) /\ ~CloseChatFind(f).open
<1>1. Has(f, FindFields) /\ Has(f.eng, EngineFields) /\ f.open \in BOOLEAN
  BY DEF Closable, Formed
<1>2. CASE ~f.open
  BY <1>2 DEF CloseChatFind, Closable, ChatHolds, Grounded
<1>3. CASE f.open
  <2> DEFINE a == [f EXCEPT !.open = FALSE]
             b == [a EXCEPT !.live = 0, !.timer = FALSE, !.rerun = FALSE]
             g == EngineClear(b)
             h == [g EXCEPT !.hits = <<>>, !.hitsof = Naught, !.hitsq = NoText, !.order = <<>>, !.cursor = 0,
                            !.announced = FALSE, !.landing = FALSE]
             r == ResetServerSearch(h)
             eng == [[[f.eng EXCEPT !.marks = <<>>] EXCEPT !.cur = 0] EXCEPT !.q = NoText]
  <2>1. CloseChatFind(f) = UpdateCounter(r, NoText)
    BY <1>3 DEF CloseChatFind, Teardown
  <2>2. /\ Has(a, FindFields) /\ a.open = FALSE
        /\ a.outs = f.outs /\ a.seq = f.seq /\ a.eng = f.eng
    BY <1>1 DEF Has, FindFields
  <2> HIDE DEF a
  <2>3. /\ Has(b, FindFields) /\ b.open = FALSE /\ b.live = 0 /\ b.timer = FALSE /\ b.rerun = FALSE
        /\ b.outs = f.outs /\ b.seq = f.seq /\ b.eng = f.eng
    BY <2>2 DEF Has, FindFields
  <2> HIDE DEF b
  <2>4. g = [b EXCEPT !.eng = eng]
    BY <1>1, <2>3 DEF EngineClear, Has, FindFields, EngineFields
  <2>5. Has(eng, EngineFields) /\ eng.marks = <<>>
    BY <1>1 DEF Has, EngineFields
  <2> HIDE DEF eng, g
  <2>6. /\ Has(g, FindFields) /\ g.open = FALSE /\ g.live = 0 /\ g.timer = FALSE /\ g.rerun = FALSE
        /\ g.outs = f.outs /\ g.seq = f.seq /\ g.eng = eng
    BY <2>3, <2>4 DEF Has, FindFields
  <2>7. /\ Has(h, FindFields) /\ h.open = FALSE /\ h.live = 0 /\ h.timer = FALSE /\ h.rerun = FALSE
        /\ h.outs = f.outs /\ h.seq = f.seq /\ h.eng = eng /\ h.hits = <<>>
    BY <2>6, ZenonT(60) DEF Has, FindFields
  <2> HIDE DEF h
  <2>8. Quiet(h, r)
    BY <2>7, OpenedIsQuiet
  <2> HIDE DEF r
  <2>9. UpdateCounter(r, NoText) = [r EXCEPT !.count = NoCount]
    BY <2>7, <2>8 DEF UpdateCounter, StepsOwnedList, DomCounter, Quiet
  <2> DEFINE z == [r EXCEPT !.count = NoCount]
  <2>10. /\ Has(z, FindFields) /\ z.open = FALSE /\ z.live = 0 /\ z.timer = FALSE /\ z.rerun = FALSE
         /\ z.outs = f.outs /\ z.seq = f.seq /\ z.eng = eng /\ z.hits = <<>> /\ z.count = NoCount
    BY <2>7, <2>8 DEF Quiet, Has, FindFields
  <2> HIDE DEF z
  <2>11. Formed(z) /\ AnswersFit(z.outs, z.seq) /\ Shut(z)
    BY <2>5, <2>10 DEF Closable, Formed, Shut
  <2>12. QED
    BY <2>1, <2>9, <2>10, <2>11 DEF ChatHolds, Grounded, z
<1>4. QED
  BY <1>1, <1>2, <1>3

\* What holds can be closed, over whatever chat.
LEMMA AllClose ==
  ASSUME NEW f, ChatHolds(f)
  PROVE  Closable(f) /\ \A t : Closable(Switch(f, t))
<1>1. Closable(f) /\ Has(f, FindFields)
  BY DEF ChatHolds, Grounded, Formed, Closable
<1>2. ASSUME NEW t PROVE Closable(Switch(f, t))
  <2> DEFINE c == IF ViewTabs[t].chat = Naught THEN f.chat ELSE ViewTabs[t].chat
             g == [f EXCEPT !.tab = t, !.chat = c]
  <2>1. Switch(f, t) = g
    BY DEF Switch
  <2> HIDE DEF c
  <2>2. /\ Has(g, FindFields)
        /\ g.open = f.open /\ g.timer = f.timer /\ g.live = f.live /\ g.seq = f.seq /\ g.outs = f.outs
        /\ g.hits = f.hits /\ g.rerun = f.rerun /\ g.eng = f.eng /\ g.count = f.count
    BY <1>1 DEF Has, FindFields
  <2> HIDE DEF g
  <2>3. QED
    BY <1>1, <2>1, <2>2 DEF Closable, Formed, Shut
<1>3. QED
  BY <1>1, <1>2

\* A switch leaves the box closed.
LEMMA ChangeHolds ==
  ASSUME NEW f, Closable(f)
  PROVE  ChatHolds(TabChangedChat(f)) /\ ~TabChangedChat(f).open
<1> DEFINE g == CloseChatFind(f)
           box == IF f.jump THEN g.box ELSE NoText
           h == [g EXCEPT !.jump = FALSE, !.box = box]
<1>1. ChatHolds(g) /\ ~g.open
  BY CloseHolds
<1>2. TabChangedChat(f) = h
  BY DEF TabChangedChat
<1> HIDE DEF g, box
<1>3. Has(g, FindFields)
  BY <1>1 DEF ChatHolds, Grounded, Formed
<1>4. /\ Has(h, FindFields)
      /\ h.open = g.open /\ h.timer = g.timer /\ h.live = g.live /\ h.seq = g.seq /\ h.outs = g.outs
      /\ h.hits = g.hits /\ h.rerun = g.rerun /\ h.eng = g.eng /\ h.count = g.count
  BY <1>3 DEF Has, FindFields
<1> HIDE DEF h
<1>5. QED
  BY <1>1, <1>2, <1>4 DEF ChatHolds, Grounded, Formed, Shut

\* Opened over the chat on screen, or run once more where it was open, whatever it held.
LEMMA OpenHolds ==
  ASSUME NEW f, Grounded(f)
  PROVE  ChatHolds(OpenFindInChat(f)) /\ OpenFindInChat(f).open
<1>1. Has(f, FindFields) /\ Has(f.eng, EngineFields) /\ f.open \in BOOLEAN /\ f.seq \in Nat
  BY DEF Grounded, Formed
<1>2. CASE f.open
  BY <1>2, RunHolds DEF OpenFindInChat
<1>3. CASE ~f.open
  <2> DEFINE eng == [[[f.eng EXCEPT !.marks = <<>>] EXCEPT !.cur = 0] EXCEPT !.q = NoText]
             g == IF f.eng.root = f.chat THEN f ELSE EngineClear(f)
             h == [g EXCEPT !.open = TRUE, !.eng.root = f.chat]
             last == [g.eng EXCEPT !.root = f.chat]
  <2>1. OnOpen(f) = Run(h)
    BY DEF OnOpen
  <2>2. EngineClear(f) = [f EXCEPT !.eng = eng]
    BY <1>1 DEF EngineClear, Has, FindFields, EngineFields
  <2>3. Has(eng, EngineFields)
    BY <1>1 DEF Has, EngineFields
  <2> HIDE DEF eng
  <2>4. /\ Has(g, FindFields) /\ Has(g.eng, EngineFields)
        /\ g.open = f.open /\ g.timer = f.timer /\ g.live = f.live /\ g.seq = f.seq /\ g.outs = f.outs
        /\ g.hits = f.hits /\ g.chat = f.chat
    BY <1>1, <2>2, <2>3 DEF Has, FindFields
  <2> HIDE DEF g
  <2>5. Has(last, EngineFields) /\ last.root = f.chat
    BY <2>4 DEF Has, EngineFields
  <2>6. /\ Has(h, FindFields) /\ h.open = TRUE /\ h.eng = last
        /\ h.timer = f.timer /\ h.live = f.live /\ h.seq = f.seq /\ h.outs = f.outs
        /\ h.hits = f.hits /\ h.chat = f.chat
    BY <2>4 DEF Has, FindFields
  <2> HIDE DEF h, last
  <2>7. Shut(f) /\ AnswersFit(f.outs, f.seq) /\ Formed(f)
    BY <1>3 DEF Grounded
  <2>8. \A i \in DOMAIN f.outs : f.outs[i].n # 0
    BY <1>1, <2>7, AnswersAre DEF AnswerFits
  <2>9. Grounded(h)
    BY <2>5, <2>6, <2>7, <2>8 DEF Grounded, Formed, Rooted, Shut
  <2>10. ChatHolds(Run(h)) /\ Run(h).open
    BY <2>6, <2>9, RunHolds
  <2>11. Grounded(Run(h))
    BY <2>10 DEF ChatHolds
  <2>12. ChatHolds(Run(Run(h))) /\ Run(Run(h)).open
    BY <2>10, <2>11, RunHolds
  <2>13. OpenFindInChat(f) = Run(Run(h))
    BY <1>3, <2>1 DEF OpenFindInChat
  <2>14. QED
    BY <2>12, <2>13
<1>4. QED
  BY <1>1, <1>2, <1>3

\* A box keeps its ground when its text, the case it matches or its landing changes.
LEMMA TextIsGround ==
  ASSUME NEW f, Grounded(f), NEW g, Has(g, FindFields), g.timer \in BOOLEAN, f.open \/ ~g.timer,
         g.open = f.open, g.live = f.live, g.seq = f.seq, g.outs = f.outs, g.hits = f.hits,
         g.hitsof = f.hitsof, g.chat = f.chat, g.rerun = f.rerun, g.eng = f.eng, g.count = f.count
  PROVE  Grounded(g)
BY DEF Grounded, Formed, Rooted, Shut

\* A box opened at a hit holds the text it was found by.
LEMMA OpenAtHolds ==
  ASSUME NEW f, ChatHolds(f), NEW q, NEW e
  PROVE  ChatHolds(OpenChatFindAt(f, q, e))
<1> DEFINE g == [f EXCEPT !.box = q, !.resume = e, !.landing = TRUE]
<1>1. Has(f, FindFields) /\ Grounded(f) /\ f.timer \in BOOLEAN /\ (f.open \/ ~f.timer)
  BY DEF ChatHolds, Grounded, Formed, Shut
<1>2. /\ Has(g, FindFields) /\ g.timer = f.timer
      /\ g.open = f.open /\ g.live = f.live /\ g.seq = f.seq /\ g.outs = f.outs /\ g.hits = f.hits
      /\ g.hitsof = f.hitsof /\ g.chat = f.chat /\ g.rerun = f.rerun /\ g.eng = f.eng /\ g.count = f.count
  BY <1>1 DEF Has, FindFields
<1>3. OpenChatFindAt(f, q, e) = OpenFindInChat(g)
  BY DEF OpenChatFindAt
<1> HIDE DEF g
<1>4. Grounded(g)
  BY <1>1, <1>2, TextIsGround
<1>5. QED
  BY <1>3, <1>4, OpenHolds

\* The key, the button and a step of the box.
LEMMA KeysHold ==
  ASSUME NEW f, ChatHolds(f)
  PROVE  /\ ChatHolds(OpenFindInChat(f)) /\ ChatHolds(CloseChatFind(f)) /\ ChatHolds(ToggleChatFind(f))
         /\ \A dir : f.open => ChatHolds(StepChat(f, dir))
<1>1. ChatHolds(OpenFindInChat(f)) /\ ChatHolds(CloseChatFind(f))
  BY OpenHolds, CloseHolds, AllClose DEF ChatHolds
<1>2. ASSUME NEW dir, f.open PROVE ChatHolds(StepChat(f, dir))
  <2> DEFINE g == EngineMove(f, dir)
             h == UpdateCounter(g, f.box)
  <2>1. Onward(f, g)
    BY <1>2, MarksHold
  <2>2. Onward(g, h)
    <3>1. Onward(g, UpdateCounter(g, g.box)) /\ g.box = f.box
      BY <1>2, <2>1, CounterHolds DEF Onward
    <3>2. QED
      BY <3>1
  <2>3. Onward(h, RevealCurrent(h))
    BY <2>2, PlacesHold DEF Onward
  <2>4. ChatHolds(Run(f)) /\ ChatHolds(StepServerHit(f, dir))
    BY <1>2, RunHolds, StepHolds DEF ChatHolds, Onward
  <2>5. StepChat(f, dir) \in {Run(f), StepServerHit(f, dir), RevealCurrent(h)}
    BY DEF StepChat
  <2>6. QED
    BY <2>3, <2>4, <2>5 DEF Onward
<1>3. QED
  BY <1>1, <1>2 DEF ToggleChatFind

----------------------------------------------------------------------------
(* Find in file, and a page's box.                                         *)

\* A run of the editor's box looks for what it holds.
LEMMA EditorRuns ==
  ASSUME NEW p, Has(p, EditorFields), p.open = TRUE
  PROVE  EditorHolds(RunEditor(p)) /\ RunEditor(p).open
<1> DEFINE g == [ClearMarks(p) EXCEPT !.timer = FALSE, !.searched = p.box, !.res = RunQuery(p, p.box)]
           h == [g EXCEPT !.cur = IF Total(g) > 0 THEN 1 ELSE 0]
           r == Reveal(h)
<1>1. RunEditor(p) = r
  BY DEF RunEditor
<1>2. Has(g, EditorFields) /\ g.open = TRUE /\ g.timer = FALSE /\ g.searched = p.box /\ g.box = p.box
  BY DEF ClearMarks, Has, EditorFields
<1> HIDE DEF g
<1>3. Has(h, EditorFields) /\ h.open = TRUE /\ h.timer = FALSE /\ h.searched = p.box /\ h.box = p.box
  BY <1>2 DEF Has, EditorFields
<1> HIDE DEF h
<1>4. Has(r, EditorFields) /\ r.open = TRUE /\ r.timer = FALSE /\ r.searched = p.box /\ r.box = p.box
  BY <1>3 DEF Reveal, Has, EditorFields
<1>5. QED
  BY <1>1, <1>4 DEF EditorHolds

\* Its key, its button, its steps and a switch.
LEMMA EditorKeys ==
  ASSUME NEW p, EditorHolds(p)
  PROVE  /\ EditorHolds(OpenEditorFind(p)) /\ EditorHolds(ToggleEditorFind(p))
         /\ EditorHolds(TabChangedEditor(p)) /\ EditorHolds(FileLoaded(p))
         /\ p.timer => EditorHolds(RunEditor(p))
         /\ \A dir : p.open => EditorHolds(StepEditor(p, dir))
<1>1. Has(p, EditorFields) /\ p.open \in BOOLEAN /\ p.timer \in BOOLEAN
  BY DEF EditorHolds
<1>2. EditorHolds(OpenEditorFind(p))
  <2> DEFINE g == [p EXCEPT !.open = TRUE]
  <2>1. Has(g, EditorFields) /\ g.open = TRUE
    BY <1>1 DEF Has, EditorFields
  <2> HIDE DEF g
  <2>2. EditorHolds(RunEditor(g))
    BY <2>1, EditorRuns
  <2>3. QED
    BY <2>2 DEF OpenEditorFind, g
<1>3. EditorHolds(CloseEditorFind(p)) /\ ~CloseEditorFind(p).open
  <2> DEFINE g == [ClearMarks(p) EXCEPT !.open = FALSE, !.timer = FALSE, !.res = NoResult, !.cur = 0,
                                        !.searched = NoText]
  <2>1. Has(g, EditorFields) /\ g.open = FALSE /\ g.timer = FALSE /\ g.drawn = Naught
    BY <1>1 DEF ClearMarks, Has, EditorFields
  <2> HIDE DEF g
  <2>2. EditorHolds(g) /\ ~g.open
    BY <2>1 DEF EditorHolds
  <2>3. QED
    BY <2>2 DEF CloseEditorFind, g
<1>4. EditorHolds(TabChangedEditor(p))
  <2> DEFINE c == CloseEditorFind(p)
             g == [c EXCEPT !.box = NoText]
  <2> HIDE DEF c
  <2>1. Has(c, EditorFields) /\ c.open = FALSE /\ c.timer = FALSE /\ c.drawn = Naught
    BY <1>3 DEF EditorHolds, c
  <2>2. Has(g, EditorFields) /\ g.open = FALSE /\ g.timer = FALSE /\ g.drawn = Naught
    BY <2>1 DEF Has, EditorFields
  <2> HIDE DEF g
  <2>3. EditorHolds(g)
    BY <2>2 DEF EditorHolds
  <2>4. QED
    BY <2>3 DEF TabChangedEditor, g, c
<1>5. EditorHolds(FileLoaded(p))
  <2> DEFINE g == [p EXCEPT !.loaded = TRUE]
  <2>1. /\ Has(g, EditorFields) /\ g.open = p.open /\ g.timer = p.timer /\ g.searched = p.searched
        /\ g.box = p.box /\ g.drawn = p.drawn
    BY <1>1 DEF Has, EditorFields
  <2> HIDE DEF g
  <2>2. EditorHolds(g)
    BY <2>1 DEF EditorHolds
  <2>3. p.open => EditorHolds(RunEditor(g))
    BY <1>1, <2>1, EditorRuns
  <2>4. QED
    BY <2>2, <2>3 DEF FileLoaded, g
<1>6. p.open => EditorHolds(RunEditor(p))
  BY <1>1, EditorRuns
<1>7. p.timer => p.open
  BY DEF EditorHolds
<1>8. ASSUME NEW dir, p.open PROVE EditorHolds(StepEditor(p, dir))
  <2> DEFINE g == [p EXCEPT !.cur = ((@ + dir - 1 + Total(p)) % Total(p)) + 1]
             r == Reveal(g)
  <2>1. /\ Has(g, EditorFields) /\ g.open = p.open /\ g.timer = p.timer /\ g.searched = p.searched
        /\ g.box = p.box
    BY <1>1 DEF Has, EditorFields
  <2>2. StepEditor(p, dir) \in {RunEditor(p), p, r}
    BY DEF StepEditor
  <2> HIDE DEF g
  <2>3. /\ Has(r, EditorFields) /\ r.open = p.open /\ r.timer = p.timer /\ r.searched = p.searched
        /\ r.box = p.box
    BY <2>1 DEF Reveal, Has, EditorFields
  <2> HIDE DEF r
  <2>4. EditorHolds(r)
    BY <1>8, <2>3 DEF EditorHolds
  <2>5. QED
    BY <1>6, <1>8, <2>2, <2>4
<1>9. QED
  BY <1>2, <1>3, <1>4, <1>5, <1>6, <1>7, <1>8 DEF ToggleEditorFind

\* A page's box is always followed by what it is to show.
LEMMA PageKeys ==
  ASSUME NEW p, PageHolds(p)
  PROVE  /\ PageHolds(OpenPage(p)) /\ PageHolds(ClosePage(p)) /\ PageHolds(TogglePage(p))
         /\ PageHolds(RunPage(p))
         /\ PageHolds([ResetPage(p) EXCEPT !.shown = NoText])
<1>1. Has(p, PageFields) /\ {p.open, p.timer} \subseteq BOOLEAN /\ (~p.open => p.box = NoText)
  BY DEF PageHolds
<1>2. ASSUME NEW g, Has(g, PageFields), g.open \in BOOLEAN, ~g.open => g.box = NoText
      PROVE  PageHolds(RunPage(g)) /\ RunPage(g).box = g.box /\ RunPage(g).open = g.open
  <2> DEFINE n == g.live + 1
             o == [n |-> n, q |-> g.box]
             h == [g EXCEPT !.timer = FALSE, !.live = n, !.outs = g.outs \cup {o}]
  <2>1. RunPage(g) = h
    BY DEF RunPage
  <2> HIDE DEF n
  <2>2. o.n = n /\ o.q = g.box
    OBVIOUS
  <2> HIDE DEF o
  <2>3. /\ Has(h, PageFields) /\ h.timer = FALSE /\ h.live = n /\ h.outs = g.outs \cup {o}
        /\ h.open = g.open /\ h.box = g.box
    BY <1>2 DEF Has, PageFields
  <2> HIDE DEF h
  <2>4. Awaited(h, o) /\ o \in h.outs
    BY <2>2, <2>3 DEF Awaited
  <2>5. QED
    BY <1>2, <2>1, <2>3, <2>4 DEF PageHolds
<1>3. PageHolds(OpenPage(p))
  <2> DEFINE g == [p EXCEPT !.open = TRUE]
  <2>1. /\ Has(g, PageFields) /\ g.open = TRUE /\ g.timer = p.timer /\ g.box = p.box /\ g.live = p.live
        /\ g.outs = p.outs /\ g.shown = p.shown
    BY <1>1 DEF Has, PageFields
  <2> HIDE DEF g
  <2>2. QED
    BY <2>1 DEF OpenPage, PageHolds, Awaited, g
<1>4. ASSUME NEW g, Has(g, PageFields), g.open \in BOOLEAN, g.timer \in BOOLEAN, ~g.open => g.box = NoText,
             ~g.open => PageHolds(g)
      PROVE  PageHolds(ClosePage(g)) /\ ClosePage(g).box = NoText
  <2> DEFINE h == [g EXCEPT !.open = FALSE, !.timer = FALSE, !.live = @ + 1, !.box = NoText]
  <2>1. Has(h, PageFields) /\ h.open = FALSE /\ h.timer = FALSE /\ h.box = NoText
    BY <1>4 DEF Has, PageFields
  <2>2. ClosePage(g) = IF ~g.open THEN g ELSE IF g.box # NoText THEN RunPage(h) ELSE h
    BY DEF ClosePage
  <2> HIDE DEF h
  <2>3. PageHolds(h)
    BY <2>1 DEF PageHolds
  <2>4. PageHolds(RunPage(h)) /\ RunPage(h).box = NoText
    BY <1>2, <2>1
  <2>5. QED
    BY <1>4, <2>1, <2>2, <2>3, <2>4
<1>5. PageHolds(ClosePage(p))
  BY <1>1, <1>4
<1>6. PageHolds([ResetPage(p) EXCEPT !.shown = NoText])
  <2> DEFINE g == [p EXCEPT !.box = NoText]
             h == ClosePage(g)
             r == [h EXCEPT !.shown = NoText]
  <2>1. Has(g, PageFields) /\ g.open = p.open /\ g.timer = p.timer /\ g.box = NoText
    BY <1>1 DEF Has, PageFields
  <2>2. h = ResetPage(p)
    BY DEF ResetPage
  <2> HIDE DEF g
  <2>3. PageHolds(g)
    BY <1>1, <2>1 DEF PageHolds
  <2>4. PageHolds(h) /\ h.box = NoText
    BY <1>1, <1>4, <2>1, <2>3
  <2> HIDE DEF h
  <2>5. Has(r, PageFields) /\ r.open = h.open /\ r.timer = h.timer /\ r.box = NoText
    BY <2>4 DEF PageHolds, Has, PageFields
  <2>6. PageHolds(r)
    BY <2>4, <2>5 DEF PageHolds
  <2>7. QED
    BY <2>2, <2>6
<1>7. PageHolds(RunPage(p))
  BY <1>1, <1>2
<1>8. QED
  BY <1>3, <1>5, <1>6, <1>7 DEF TogglePage

----------------------------------------------------------------------------
(* The answers and the navigations.                                        *)

\* An answer comes, and what it found is opened; it tells of the chat it was asked about.
LEMMA FoundHolds ==
  ASSUME ChatHolds(fn), NEW i \in DOMAIN fn.outs, SearchFound(i)
  PROVE  ChatHolds(fn')
<1> DEFINE o == fn.outs[i]
           hits == HitsOf(fn, o.chat, o.q, o.cs)
           turns == {LogEntries[e].turn : e \in ToSet(hits)}
           a == [fn EXCEPT !.counts = turns, !.searched = o.chat]
           f == OpenForSearch(a, o.chat, turns)
           g == MountForWalk(f, o.chat, turns)
           res == <<[chat |-> o.chat, hits |-> hits]>>
           h == [g EXCEPT !.outs[i].at = "walking", !.outs[i].res = res]
           new == [[g.outs[i] EXCEPT !.at = "walking"] EXCEPT !.res = res]
           outs == [g.outs EXCEPT ![i] = new]
<1>1. fn' = h
  BY DEF SearchFound
<1>2. res # <<>> /\ res[1].chat = o.chat
  OBVIOUS
<1> HIDE DEF hits, turns, res
<1>3. Has(fn, FindFields) /\ fn.seq \in Nat /\ AnswersFit(fn.outs, fn.seq)
  BY DEF ChatHolds, Grounded, Formed
<1>4. Quiet(fn, a)
  BY <1>3 DEF Quiet, Has, FindFields
<1> HIDE DEF a
<1>5. Quiet(a, f)
  BY <1>4, OpenedIsQuiet DEF Quiet
<1> HIDE DEF f
<1>6. Quiet(f, g)
  BY <1>5, OpenedIsQuiet DEF Quiet
<1> HIDE DEF g
<1>7. Quiet(fn, g)
  BY <1>4, <1>5, <1>6, QuietAgain
<1>8. ChatHolds(g) /\ g.outs = fn.outs /\ g.seq = fn.seq /\ g.live = fn.live /\ Has(g, FindFields)
  BY <1>7, QuietHolds DEF Onward, Quiet
<1>9. AnswerFits(g.outs[i], fn.seq)
  BY <1>3, <1>8, AnswersAre
<1>10. Has(new, AnswerFields) /\ new.n = o.n /\ new.chat = o.chat /\ new.res = res
  BY <1>8, <1>9 DEF AnswerFits, Has, AnswerFields
<1>11. AnswerFits(new, fn.seq)
  BY <1>2, <1>8, <1>9, <1>10 DEF AnswerFits
<1> HIDE DEF new
<1>12. AnswersFit(outs, fn.seq)
  BY <1>3, <1>8, <1>11, AnswersChange
<1>13. DOMAIN outs = DOMAIN fn.outs /\ \A j \in DOMAIN outs : outs[j].n = fn.outs[j].n /\ outs[j].chat = fn.outs[j].chat
  BY <1>8, <1>10
<1>14. h = [g EXCEPT !.outs = outs]
  BY <1>8, <1>9 DEF new, Has, FindFields, AnswerFits, AnswerFields
<1> HIDE DEF outs, h
<1>15. /\ Has(h, FindFields) /\ h.outs = outs
       /\ h.open = g.open /\ h.box = g.box /\ h.timer = g.timer /\ h.live = g.live /\ h.seq = g.seq
       /\ h.hits = g.hits /\ h.hitsof = g.hitsof /\ h.chat = g.chat
       /\ h.rerun = g.rerun /\ h.eng = g.eng /\ h.count = g.count
  BY <1>8, <1>14 DEF Has, FindFields
<1>16. QED
  BY <1>1, <1>8, <1>12, <1>13, <1>15 DEF ChatHolds, Grounded, Formed, Rooted, Shut, Told

\* The shell draws an answer only when its box is open, holds the question and awaits it.
LEMMA ReturnedHolds ==
  ASSUME NEW f, ChatHolds(f), NEW i \in DOMAIN f.outs
  PROVE  ChatHolds(Returned(f, i))
<1> DEFINE o == f.outs[i]
           outs == RemoveAt(f.outs, i)
           g == [f EXCEPT !.outs = outs]
           h == IF o.res # <<>> /\ o.chat = f.chat THEN Mutated(g) ELSE g
           r == [h EXCEPT !.live = 0]
<1>1. Returned(f, i) = IF Awaited(f, o) THEN Render(r, o.q, o.res) ELSE h
  BY DEF Returned
<1>2. Has(f, FindFields) /\ f.seq \in Nat /\ AnswersFit(f.outs, f.seq)
  BY DEF ChatHolds, Grounded, Formed
<1>3. AnswerFits(o, f.seq)
  BY <1>2, AnswersAre
<1>4. AnswersFit(outs, f.seq)
  BY <1>2, AnswersChange
<1>5. \A j \in DOMAIN outs : \E k \in DOMAIN f.outs : outs[j] = f.outs[k]
  BY <1>2, RestWasThere
<1> HIDE DEF outs
<1>6. /\ Has(g, FindFields) /\ g.outs = outs
      /\ g.open = f.open /\ g.box = f.box /\ g.timer = f.timer /\ g.live = f.live /\ g.seq = f.seq
      /\ g.hits = f.hits /\ g.hitsof = f.hitsof /\ g.chat = f.chat
      /\ g.rerun = f.rerun /\ g.eng = f.eng /\ g.count = f.count
  BY <1>2 DEF Has, FindFields
<1> HIDE DEF g
<1>7. ChatHolds(g)
  BY <1>4, <1>5, <1>6 DEF ChatHolds, Grounded, Formed, Rooted, Shut, Told
<1>8. Onward(g, h)
  BY <1>7, MutatedHolds DEF Onward
<1> HIDE DEF h
<1>9. /\ ChatHolds(h) /\ h.open = f.open /\ h.box = f.box /\ h.chat = f.chat /\ h.outs = outs
      /\ h.seq = f.seq /\ h.live = f.live
  BY <1>6, <1>8 DEF Onward
<1>10. CASE Awaited(f, o)
  <2>1. f.live = o.n /\ f.box = o.q /\ o.n # 0
    BY <1>2, <1>3, <1>10 DEF Awaited, AnswerFits
  <2>2. f.open
    BY <2>1 DEF ChatHolds, Grounded, Shut
  <2>3. o.chat = f.chat
    BY <2>1, <2>2 DEF ChatHolds, Grounded, Rooted
  <2>4. Has(h, FindFields)
    BY <1>9 DEF ChatHolds, Grounded, Formed
  <2>5. /\ Has(r, FindFields) /\ r.live = 0
        /\ r.open = h.open /\ r.box = h.box /\ r.timer = h.timer /\ r.outs = h.outs /\ r.seq = h.seq
        /\ r.hits = h.hits /\ r.hitsof = h.hitsof /\ r.chat = h.chat
        /\ r.rerun = h.rerun /\ r.eng = h.eng /\ r.count = h.count
    BY <2>4 DEF Has, FindFields
  <2> HIDE DEF r
  <2>6. \A j \in DOMAIN outs : outs[j].n # 0
    BY <1>2, <1>4, AnswersAre DEF AnswerFits
  <2>7. ChatHolds(r)
    BY <1>9, <2>5, <2>6 DEF ChatHolds, Grounded, Formed, Rooted, Shut, Told
  <2>8. o.res # <<>> => o.res[1].chat = r.chat
    BY <1>3, <1>9, <2>3, <2>5 DEF AnswerFits
  <2>9. r.open /\ r.box = o.q
    BY <1>9, <2>1, <2>2, <2>5
  <2>10. Onward(r, Render(r, r.box, o.res))
    BY <2>7, <2>8, <2>9, RenderHolds
  <2>11. QED
    BY <1>1, <1>10, <2>9, <2>10 DEF Onward
<1>11. QED
  BY <1>1, <1>9, <1>10

\* What a navigation is at is quiet.
LEMMA NavsHold ==
  ASSUME NEW f, ChatHolds(f), NEW i, NEW at
  PROVE  /\ Onward(f, Ends(f, i)) /\ Onward(f, Goes(f, i, at)) /\ Onward(f, Notice(f))
         /\ Onward(f, [f EXCEPT !.navs = RemoveAt(@, i)])
<1>1. Has(f, FindFields) /\ f.open \in BOOLEAN
  BY DEF ChatHolds, Grounded, Formed
<1>2. Quiet(f, Ends(f, i))
  BY <1>1 DEF Quiet, Has, FindFields, Ends
<1>3. Quiet(f, Goes(f, i, at))
  BY <1>1 DEF Quiet, Has, FindFields, Goes
<1>4. Quiet(f, [f EXCEPT !.navs = RemoveAt(@, i)])
  BY <1>1 DEF Quiet, Has, FindFields
<1>5. Onward(f, f)
  BY DEF Onward
<1>6. Onward(f, Notice(f))
  BY <1>1, <1>5, CounterHolds DEF Notice
<1>7. QED
  BY <1>2, <1>3, <1>4, <1>6, QuietHolds

\* The last steps of a navigation: the mark drawn where there is one, the place shown elsewhere.
LEMMA LandOrNoticeHolds ==
  ASSUME NEW f, ChatHolds(f), f.open, NEW i
  PROVE  ChatHolds(LandOrNotice(f, i))
<1> DEFINE e == f.navs[i].hit
           g == EngineSearch(f, f.box)
<1>1. Onward(f, g)
  BY SearchHolds
<1> HIDE DEF e
<1>2. ChatHolds(g) /\ g.open
  BY <1>1 DEF Onward
<1> HIDE DEF g
<1>3. ChatHolds(Land(g, e)) /\ ChatHolds(SelectContainer(g, e))
  BY <1>2, LandHolds, PlacesHold DEF Onward
<1>4. /\ ChatHolds(Ends(f, i)) /\ ChatHolds(Ends(Land(g, e), i))
      /\ ChatHolds(Goes(SelectContainer(g, e), i, "render"))
  BY <1>3, NavsHold DEF Onward
<1>5. LandOrNotice(f, i) \in {Ends(f, i), Ends(Land(g, e), i), Goes(SelectContainer(g, e), i, "render")}
  BY DEF LandOrNotice, g, e
<1>6. QED
  BY <1>4, <1>5

\* What is disclosed is quiet, and so is a diff that comes or is given up.
LEMMA DiffsHold ==
  ASSUME NEW f, ChatHolds(f), NEW e
  PROVE  /\ Onward(f, Disclose(f, e))
         /\ Onward(f, Mutated([f EXCEPT !.diffs = @ \cup {e}]))
         /\ Onward(f, [f EXCEPT !.nodiff = @ \cup {e}])
<1>1. Has(f, FindFields)
  BY DEF ChatHolds, Grounded, Formed
<1>2. Quiet(f, Disclose(f, e))
  BY <1>1 DEF Quiet, Has, FindFields, Disclose
<1> DEFINE g == [f EXCEPT !.diffs = @ \cup {e}]
<1>3. Quiet(f, g)
  BY <1>1 DEF Quiet, Has, FindFields
<1>4. Quiet(f, [f EXCEPT !.nodiff = @ \cup {e}])
  BY <1>1 DEF Quiet, Has, FindFields
<1> HIDE DEF g
<1>5. Onward(f, g) /\ Onward(g, Mutated(g))
  BY <1>3, QuietHolds, MutatedHolds DEF Onward
<1>6. QED
  BY <1>2, <1>4, <1>5, QuietHolds, OnwardAgain DEF g

\* A navigation's steps, between which the box may close and the chat change.
LEMMA NavigationHolds ==
  ASSUME FindInv, NEW i \in DOMAIN fn.navs,
         NavOpens(i) \/ DelegateOpens(i) \/ NavPages(i) \/ NavArrives(i) \/ NavDiff(i) \/ NavRenders(i)
  PROVE  FindInv'
<1>1. ChatHolds(fn) /\ EditorHolds(ef) /\ PageHolds(pg)
  BY DEF FindInv
<1> DEFINE n == fn.navs[i]
<1>2. CASE NavOpens(i)
  <2> DEFINE g == Goes(fn, i, "opening")
             h == [g EXCEPT !.busy = FALSE]
  <2>1. ChatHolds(g) /\ Has(g, FindFields)
    <3>1. ChatHolds(Goes(fn, i, "opening"))
      BY <1>1, NavsHold DEF Onward
    <3>2. QED
      BY <3>1 DEF ChatHolds, Grounded, Formed
  <2>2. fn' = h \/ fn' = Ends(Notice(fn), i)
    BY <1>2 DEF NavOpens
  <2> HIDE DEF g
  <2>3. Quiet(g, h)
    BY <2>1 DEF Quiet, Has, FindFields
  <2>4. ChatHolds(h)
    BY <2>1, <2>3, QuietHolds DEF Onward
  <2>5. ChatHolds(Notice(fn))
    BY <1>1, NavsHold DEF Onward
  <2>6. ChatHolds(Ends(Notice(fn), i))
    BY <2>5, NavsHold DEF Onward
  <2>7. ef' = ef /\ pg' = pg
    BY <1>2 DEF NavOpens
  <2>8. QED
    BY <1>1, <2>2, <2>4, <2>6, <2>7 DEF FindInv
<1>3. CASE DelegateOpens(i)
  <2> DEFINE f == [fn EXCEPT !.navs = RemoveAt(@, i)]
  <2>1. ChatHolds(f)
    BY <1>1, NavsHold DEF Onward
  <2>2. \E t : /\ fn' = f \/ fn' = TabChangedChat(Switch(f, t))
               /\ ef' = ef \/ ef' = TabChangedEditor(ef)
    BY <1>3 DEF DelegateOpens
  <2> HIDE DEF f
  <2>3. ChatHolds(fn')
    BY <2>1, <2>2, AllClose, ChangeHolds
  <2>4. EditorHolds(ef') /\ pg' = pg
    BY <1>1, <1>3, <2>2, EditorKeys DEF DelegateOpens
  <2>5. QED
    BY <1>1, <2>3, <2>4 DEF FindInv
<1>4. CASE NavPages(i)
  <2> DEFINE more == IF fn.res[n.chat] < fn.len[n.chat] THEN fn.res[n.chat] + 1 ELSE fn.res[n.chat]
             a == [fn EXCEPT !.res[n.chat] = more]
             f == Mutated(a)
             at == EnsureHitResident(f, n.hit, n.chat)
  <2>1. /\ \/ fn' = Ends(Notice(f), i) \/ fn' = RevealHitTurn(Goes(f, i, at), n.hit) \/ fn' = f
           \/ fn' = Ends(Notice(fn), i)
        /\ ef' = ef /\ pg' = pg
    BY <1>4, Zenon DEF NavPages
  <2> HIDE DEF more
  <2>2. Quiet(fn, a)
    BY <1>1 DEF ChatHolds, Grounded, Formed, Quiet, Has, FindFields
  <2> HIDE DEF a
  <2>3. ChatHolds(f)
    BY <1>1, <2>2, QuietHolds, MutatedHolds DEF Onward
  <2> HIDE DEF f, at
  <2>4. ChatHolds(Notice(f)) /\ ChatHolds(Notice(fn)) /\ ChatHolds(Goes(f, i, at))
    BY <1>1, <2>3, NavsHold DEF Onward
  <2>5. ChatHolds(Ends(Notice(f), i)) /\ ChatHolds(Ends(Notice(fn), i))
    BY <2>4, NavsHold DEF Onward
  <2>6. ChatHolds(RevealHitTurn(Goes(f, i, at), n.hit))
    BY <2>4, StartsHold DEF Onward
  <2>7. QED
    BY <1>1, <2>1, <2>3, <2>5, <2>6 DEF FindInv
<1>5. CASE NavArrives(i)
  <2> DEFINE f == IF n.chat = fn.chat THEN Mutated(fn) ELSE fn
             g == Disclose(f, n.hit)
             s == SelectContainer(f, n.hit)
  <2>1. ChatHolds(f)
    BY <1>1, MutatedHolds DEF Onward
  <2>2. /\ ef' = ef /\ pg' = pg
        /\ \/ fn' = Ends(f, i)
           \/ f.open /\ fn' = LandOrNotice(f, i)
           \/ f.open /\ fn' = Ends(PaintHitPosition(f), i)
           \/ f.open /\ fn' = Ends(UpdateCounter(s, f.box), i)
           \/ f.open /\ fn' = Goes(g, i, "diff")
           \/ f.open /\ fn' = LandOrNotice(g, i)
    BY <1>5, Zenon DEF NavArrives
  <2> HIDE DEF f
  <2>3. Onward(f, g)
    BY <2>1, DiffsHold
  <2>4. Onward(f, s)
    BY <2>1, PlacesHold
  <2> HIDE DEF g, s
  <2>5. ChatHolds(g) /\ g.open = f.open /\ ChatHolds(s) /\ s.open = f.open /\ s.box = f.box
    BY <2>3, <2>4 DEF Onward
  <2>6. f.open => ChatHolds(LandOrNotice(f, i)) /\ ChatHolds(LandOrNotice(g, i))
    BY <2>1, <2>5, LandOrNoticeHolds
  <2>7. f.open => ChatHolds(PaintHitPosition(f)) /\ ChatHolds(UpdateCounter(s, s.box))
    BY <2>1, <2>5, CounterHolds DEF Onward
  <2>8. f.open => ChatHolds(Ends(PaintHitPosition(f), i)) /\ ChatHolds(Ends(UpdateCounter(s, s.box), i))
    BY <2>7, NavsHold DEF Onward
  <2>9. ChatHolds(Ends(f, i)) /\ ChatHolds(Goes(g, i, "diff"))
    BY <2>1, <2>5, NavsHold DEF Onward
  <2>10. UpdateCounter(s, s.box) = UpdateCounter(s, f.box)
    BY <2>5
  <2>11. ChatHolds(fn')
    BY <2>2, <2>6, <2>8, <2>9, <2>10
  <2>12. QED
    BY <1>1, <2>2, <2>11 DEF FindInv
<1>6. CASE NavDiff(i)
  <2>1. PICK f \in {Mutated([fn EXCEPT !.diffs = @ \cup {n.hit}]), [fn EXCEPT !.nodiff = @ \cup {n.hit}]} :
          fn' = IF f.open /\ EntryElement(f, n.hit) THEN LandOrNotice(f, i) ELSE Ends(f, i)
    BY <1>6 DEF NavDiff
  <2>2. ChatHolds(f)
    <3>1. /\ ChatHolds(Mutated([fn EXCEPT !.diffs = @ \cup {n.hit}]))
          /\ ChatHolds([fn EXCEPT !.nodiff = @ \cup {n.hit}])
      BY <1>1, DiffsHold DEF Onward
    <3>2. QED
      BY <2>1, <3>1
  <2>3. ChatHolds(fn')
    BY <2>1, <2>2, LandOrNoticeHolds, NavsHold DEF Onward
  <2>4. ef' = ef /\ pg' = pg
    BY <1>6 DEF NavDiff
  <2>5. QED
    BY <1>1, <2>3, <2>4 DEF FindInv
<1>7. CASE NavRenders(i)
  <2> DEFINE e == fn.navs[i].hit
             g == EngineSearch(fn, fn.box)
  <2>1. /\ ef' = ef /\ pg' = pg
        /\ \/ fn' = Ends(fn, i)
           \/ fn.open /\ fn' = Ends(Land(g, e), i)
           \/ fn.open /\ fn' = Ends(PaintHitPosition(SelectContainer(g, e)), i)
    BY <1>7 DEF NavRenders
  <2> HIDE DEF e
  <2>2. fn.open => ChatHolds(g) /\ g.open
    BY <1>1, SearchHolds DEF Onward
  <2> HIDE DEF g
  <2>3. fn.open => /\ ChatHolds(Land(g, e)) /\ ChatHolds(SelectContainer(g, e))
                   /\ SelectContainer(g, e).open
    BY <2>2, LandHolds, PlacesHold DEF Onward
  <2>4. fn.open => ChatHolds(PaintHitPosition(SelectContainer(g, e)))
    BY <2>3, CounterHolds DEF Onward
  <2>5. /\ ChatHolds(Ends(fn, i))
        /\ fn.open => /\ ChatHolds(Ends(Land(g, e), i))
                      /\ ChatHolds(Ends(PaintHitPosition(SelectContainer(g, e)), i))
    BY <1>1, <2>3, <2>4, NavsHold DEF Onward
  <2>6. ChatHolds(fn')
    BY <2>1, <2>5
  <2>7. QED
    BY <1>1, <2>1, <2>6 DEF FindInv
<1>8. QED
  BY <1>2, <1>3, <1>4, <1>5, <1>6, <1>7

----------------------------------------------------------------------------
(* Every step.                                                             *)

\* The keys, the typing and the runs.
LEMMA BoxesHold ==
  ASSUME FindInv, FindKey \/ ToggleFind \/ Debounced \/ MatchCase \/ (\E q : TypesWords(q))
                  \/ (\E dir : Submits(dir)) \/ RerunFires
  PROVE  FindInv'
<1>1. ChatHolds(fn) /\ EditorHolds(ef) /\ PageHolds(pg)
  BY DEF FindInv
<1>2. Has(fn, FindFields) /\ Grounded(fn) /\ Has(ef, EditorFields) /\ Has(pg, PageFields)
  BY <1>1 DEF ChatHolds, Grounded, Formed, EditorHolds, PageHolds
<1>3. CASE FindKey
  BY <1>1, <1>3, KeysHold, EditorKeys, PageKeys DEF FindKey, FindInv
<1>4. CASE ToggleFind
  BY <1>1, <1>4, KeysHold, EditorKeys, PageKeys DEF ToggleFind, FindInv
<1>5. CASE Debounced
  <2>1. fn.timer => fn.open
    BY <1>2 DEF Grounded, Shut
  <2>2. fn.timer => ChatHolds(Run(fn))
    BY <1>2, <2>1, RunHolds
  <2>3. QED
    BY <1>1, <1>5, <2>2, EditorKeys, PageKeys DEF Debounced, FindInv
<1>6. CASE MatchCase
  <2> DEFINE g == [fn EXCEPT !.cs = ~@]
  <2>1. Quiet(fn, g)
    BY <1>2 DEF Quiet, Has, FindFields
  <2>2. fn.open /\ fn' = Run(g) /\ ef' = ef /\ pg' = pg
    BY <1>6 DEF MatchCase
  <2> HIDE DEF g
  <2>3. Grounded(g) /\ g.open
    BY <1>2, <2>1, <2>2, QuietGrounds DEF Quiet
  <2>4. QED
    BY <1>1, <2>2, <2>3, RunHolds DEF FindInv
<1>7. ASSUME NEW q, TypesWords(q) PROVE FindInv'
  <2>1. CASE fn.open /\ fn' = [fn EXCEPT !.box = q, !.timer = TRUE] /\ UNCHANGED <<ef, pg>>
    <3> DEFINE g == [fn EXCEPT !.box = q, !.timer = TRUE]
    <3>1. /\ Has(g, FindFields) /\ g.timer = TRUE
          /\ g.open = fn.open /\ g.live = fn.live /\ g.seq = fn.seq /\ g.outs = fn.outs /\ g.hits = fn.hits
          /\ g.hitsof = fn.hitsof /\ g.chat = fn.chat /\ g.rerun = fn.rerun /\ g.eng = fn.eng
          /\ g.count = fn.count
      BY <1>2 DEF Has, FindFields
    <3> HIDE DEF g
    <3>2. Grounded(g)
      BY <1>2, <2>1, <3>1, TextIsGround
    <3>3. ChatHolds(g)
      BY <3>1, <3>2 DEF ChatHolds
    <3>4. QED
      BY <1>1, <2>1, <3>3 DEF FindInv, g
  <2>2. CASE ef.open /\ ef' = [ef EXCEPT !.box = q, !.timer = TRUE] /\ UNCHANGED <<fn, pg>>
    <3> DEFINE g == [ef EXCEPT !.box = q, !.timer = TRUE]
    <3>1. Has(g, EditorFields) /\ g.timer = TRUE /\ g.open = ef.open
      BY <1>2 DEF Has, EditorFields
    <3> HIDE DEF g
    <3>2. EditorHolds(g)
      BY <1>1, <2>2, <3>1 DEF EditorHolds
    <3>3. QED
      BY <1>1, <2>2, <3>2 DEF FindInv, g
  <2>3. CASE pg.open /\ pg' = [pg EXCEPT !.box = q, !.timer = TRUE] /\ UNCHANGED <<fn, ef>>
    <3> DEFINE g == [pg EXCEPT !.box = q, !.timer = TRUE]
    <3>1. Has(g, PageFields) /\ g.timer = TRUE /\ g.open = pg.open
      BY <1>2 DEF Has, PageFields
    <3> HIDE DEF g
    <3>2. PageHolds(g)
      BY <1>1, <2>3, <3>1 DEF PageHolds
    <3>3. QED
      BY <1>1, <2>3, <3>2 DEF FindInv, g
  <2>4. QED
    BY <1>7, <2>1, <2>2, <2>3 DEF TypesWords
<1>8. ASSUME NEW dir, Submits(dir) PROVE FindInv'
  BY <1>1, <1>8, KeysHold, EditorKeys, PageKeys DEF Submits, FindInv
<1>9. CASE RerunFires
  <2> DEFINE a == [fn EXCEPT !.rerun = FALSE]
             g == EngineSearch(a, fn.box)
             h == SetCurrent(g, fn.eng.cur)
             r == UpdateCounter(h, fn.box)
  <2>1. fn.rerun /\ fn' = r /\ ef' = ef /\ pg' = pg
    BY <1>9 DEF RerunFires
  <2>2. fn.open
    BY <1>2, <2>1 DEF Grounded, Shut
  <2>3. /\ Has(a, FindFields)
        /\ a.open = fn.open /\ a.box = fn.box /\ a.timer = fn.timer /\ a.live = fn.live /\ a.seq = fn.seq
        /\ a.outs = fn.outs /\ a.hits = fn.hits /\ a.hitsof = fn.hitsof /\ a.hitsq = fn.hitsq
        /\ a.chat = fn.chat /\ a.eng = fn.eng /\ a.count = fn.count
    BY <1>2 DEF Has, FindFields
  <2> HIDE DEF a
  <2>4. ChatHolds(a) /\ a.open /\ a.box = fn.box
    BY <1>1, <2>2, <2>3 DEF ChatHolds, Grounded, Formed, Rooted, Told
  <2>5. Onward(a, EngineSearch(a, a.box))
    BY <2>4, SearchHolds
  <2>6. Onward(a, g)
    BY <2>4, <2>5
  <2> HIDE DEF g
  <2>7. Onward(g, h)
    BY <2>4, <2>6, MarksHold DEF Onward
  <2> HIDE DEF h
  <2>8. ChatHolds(h) /\ h.open /\ h.box = fn.box
    BY <2>4, <2>6, <2>7 DEF Onward
  <2>9. ChatHolds(UpdateCounter(h, h.box))
    BY <2>8, CounterHolds DEF Onward
  <2>10. ChatHolds(r)
    BY <2>8, <2>9
  <2>11. QED
    BY <1>1, <2>1, <2>10 DEF FindInv
<1>10. QED
  BY <1>3, <1>4, <1>5, <1>6, <1>7, <1>8, <1>9

\* The transcript, the tabs, the history page, the file and the page beside the boxes.
LEMMA BesideHolds ==
  ASSUME FindInv,
         HandedOff \/ FileChanges \/ PageUnmounts \/ (\E t : ShowTab(t)) \/ (\E c : Grows(c))
         \/ (\E t : Folds(t) \/ ScrollsTo(t)) \/ (\E e, q : OpenMatch(e, q))
         \/ (\E o \in pg.outs : PageDraws(o))
  PROVE  FindInv'
<1>1. ChatHolds(fn) /\ EditorHolds(ef) /\ PageHolds(pg)
  BY DEF FindInv
<1>2. Has(fn, FindFields) /\ Has(ef, EditorFields) /\ Has(pg, PageFields)
  BY <1>1 DEF ChatHolds, Grounded, Formed, EditorHolds, PageHolds
<1>3. CASE HandedOff
  <2> DEFINE f == [fn EXCEPT !.handoff = <<>>]
  <2>1. Quiet(fn, f)
    BY <1>2 DEF Quiet, Has, FindFields
  <2>2. fn' = OpenChatFindAt(f, fn.handoff[1].q, fn.handoff[1].hit) /\ pg' = ClosePage(pg) /\ ef' = ef
    BY <1>3 DEF HandedOff
  <2> HIDE DEF f
  <2>3. ChatHolds(f)
    BY <1>1, <2>1, QuietHolds DEF Onward
  <2>4. QED
    BY <1>1, <2>2, <2>3, OpenAtHolds, PageKeys DEF FindInv
<1>4. CASE FileChanges
  <2>1. ASSUME NEW g, Has(g, EditorFields), g.open = ef.open, g.timer = ef.timer, g.searched = ef.searched,
               g.box = ef.box, g.drawn = ef.drawn
        PROVE  EditorHolds(g)
    BY <1>1, <2>1 DEF EditorHolds
  <2>2. \A m : EditorHolds([ef EXCEPT !.mode = m])
    <3> TAKE m
    <3> DEFINE g == [ef EXCEPT !.mode = m]
    <3>1. /\ Has(g, EditorFields) /\ g.open = ef.open /\ g.timer = ef.timer /\ g.searched = ef.searched
          /\ g.box = ef.box /\ g.drawn = ef.drawn
      BY <1>2 DEF Has, EditorFields
    <3> HIDE DEF g
    <3>2. EditorHolds(g)
      BY <2>1, <3>1
    <3>3. QED
      BY <3>2 DEF g
  <2>3. EditorHolds([ef EXCEPT !.text = @ + 1])
    <3> DEFINE g == [ef EXCEPT !.text = @ + 1]
    <3>1. /\ Has(g, EditorFields) /\ g.open = ef.open /\ g.timer = ef.timer /\ g.searched = ef.searched
          /\ g.box = ef.box /\ g.drawn = ef.drawn
      BY <1>2 DEF Has, EditorFields
    <3> HIDE DEF g
    <3>2. EditorHolds(g)
      BY <2>1, <3>1
    <3>3. QED
      BY <3>2 DEF g
  <2>4. EditorHolds([ef EXCEPT !.conflict = TRUE])
    <3> DEFINE g == [ef EXCEPT !.conflict = TRUE]
    <3>1. /\ Has(g, EditorFields) /\ g.open = ef.open /\ g.timer = ef.timer /\ g.searched = ef.searched
          /\ g.box = ef.box /\ g.drawn = ef.drawn
      BY <1>2 DEF Has, EditorFields
    <3> HIDE DEF g
    <3>2. EditorHolds(g)
      BY <2>1, <3>1
    <3>3. QED
      BY <3>2 DEF g
  <2>5. EditorHolds(FileLoaded(ef))
    BY <1>1, EditorKeys
  <2>6. fn' = fn /\ pg' = pg /\ EditorHolds(ef')
    BY <1>4, <2>2, <2>3, <2>4, <2>5 DEF FileChanges
  <2>7. QED
    BY <1>1, <2>6 DEF FindInv
<1>5. CASE PageUnmounts
  <2>1. PageHolds(pg') /\ fn' = fn /\ ef' = ef
    BY <1>1, <1>5, PageKeys DEF PageUnmounts
  <2>2. QED
    BY <1>1, <2>1 DEF FindInv
<1>6. ASSUME NEW t, ShowTab(t) PROVE FindInv'
  <2>1. ChatHolds(fn')
    BY <1>1, <1>6, AllClose, ChangeHolds DEF ShowTab
  <2>2. EditorHolds(ef') /\ pg' = pg
    BY <1>1, <1>6, EditorKeys DEF ShowTab
  <2>3. QED
    BY <1>1, <2>1, <2>2 DEF FindInv
<1>7. ASSUME NEW f, Quiet(fn, f) PROVE ChatHolds(f) /\ ChatHolds(Mutated(f))
  BY <1>1, <1>7, QuietHolds, MutatedHolds DEF Onward
<1>8. ASSUME NEW c, Grows(c) PROVE FindInv'
  <2> DEFINE f == [fn EXCEPT !.len[c] = @ + 1, !.res[c] = @ + 1]
  <2>1. (fn' = f \/ fn' = Mutated(f)) /\ ef' = ef /\ pg' = pg
    BY <1>8 DEF Grows
  <2>2. Quiet(fn, f)
    BY <1>2 DEF Quiet, Has, FindFields
  <2> HIDE DEF f
  <2>3. QED
    BY <1>1, <1>7, <2>1, <2>2 DEF FindInv
<1>9. ASSUME NEW t, Folds(t) PROVE FindInv'
  <2> DEFINE c == fn.chat
             open == IsTurnOpen(fn, c, t)
             f == SetTurnOpen(fn, c, t, ~open)
             g == [f EXCEPT !.pin = <<c, t>>]
  <2>1. (fn' = Mutated(f) \/ fn' = Mutated(g)) /\ ef' = ef /\ pg' = pg
    BY <1>9 DEF Folds
  <2> HIDE DEF open
  <2>2. Quiet(fn, f)
    BY <1>2 DEF Quiet, Has, FindFields, SetTurnOpen
  <2> HIDE DEF f
  <2>3. Quiet(f, g)
    BY <2>2 DEF Quiet, Has, FindFields
  <2>4. Quiet(fn, g)
    BY <2>2, <2>3, QuietAgain
  <2>5. QED
    BY <1>1, <1>7, <2>1, <2>2, <2>4 DEF FindInv
<1>10. ASSUME NEW t, ScrollsTo(t) PROVE FindInv'
  <2>1. Quiet(fn, fn')
    BY <1>2, <1>10 DEF Quiet, Has, FindFields, ScrollsTo
  <2>2. QED
    BY <1>1, <1>7, <1>10, <2>1 DEF FindInv, ScrollsTo
<1>11. ASSUME NEW e, NEW q, OpenMatch(e, q) PROVE FindInv'
  <2>1. PICK t : fn' = [TabChangedChat(Switch(fn, t)) EXCEPT !.handoff = <<[hit |-> e, q |-> q]>>]
    BY <1>11 DEF OpenMatch
  <2> DEFINE g == TabChangedChat(Switch(fn, t))
             to == <<[hit |-> e, q |-> q]>>
             h == [g EXCEPT !.handoff = to]
  <2>2. ChatHolds(g)
    BY <1>1, AllClose, ChangeHolds
  <2>3. fn' = h
    BY <2>1
  <2> HIDE DEF g, to
  <2>4. Quiet(g, h)
    BY <2>2 DEF Quiet, ChatHolds, Grounded, Formed, Has, FindFields
  <2>5. ChatHolds(h)
    BY <2>2, <2>4, QuietHolds DEF Onward
  <2>6. EditorHolds(ef') /\ pg' = pg
    BY <1>1, <1>11, EditorKeys DEF OpenMatch
  <2>7. QED
    BY <1>1, <2>3, <2>5, <2>6 DEF FindInv
<1>12. ASSUME NEW o \in pg.outs, PageDraws(o) PROVE FindInv'
  <2> DEFINE shown == IF Awaited(pg, o) THEN o.q ELSE pg.shown
             g == [pg EXCEPT !.outs = @ \ {o}, !.shown = shown]
  <2>1. pg' = g /\ fn' = fn /\ ef' = ef
    BY <1>12 DEF PageDraws
  <2> HIDE DEF shown
  <2>2. /\ Has(g, PageFields) /\ g.outs = pg.outs \ {o} /\ g.shown = shown
        /\ g.open = pg.open /\ g.box = pg.box /\ g.timer = pg.timer /\ g.live = pg.live
    BY <1>2 DEF Has, PageFields
  <2> HIDE DEF g
  <2>3. g.box # NoText /\ ~g.timer => g.shown = g.box \/ \E p \in g.outs : Awaited(g, p)
    BY <1>1, <2>2 DEF PageHolds, Awaited, shown
  <2>4. PageHolds(g)
    BY <1>1, <2>2, <2>3 DEF PageHolds
  <2>5. QED
    BY <1>1, <2>1, <2>4 DEF FindInv
<1>13. QED
  BY <1>3, <1>4, <1>5, <1>6, <1>8, <1>9, <1>10, <1>11, <1>12

\* The answers of the chat's search.
LEMMA AnswersHold ==
  ASSUME FindInv, NEW i \in DOMAIN fn.outs, SearchFound(i) \/ SearchReturns(i)
  PROVE  FindInv'
<1>1. CASE SearchFound(i)
  <2>1. ChatHolds(fn')
    BY <1>1, FoundHolds DEF FindInv
  <2>2. ef' = ef /\ pg' = pg
    BY <1>1 DEF SearchFound
  <2>3. QED
    BY <2>1, <2>2 DEF FindInv
<1>2. CASE SearchReturns(i)
  BY <1>2, ReturnedHolds DEF SearchReturns, FindInv
<1>3. QED
  BY <1>1, <1>2

\* Nothing is open and nothing is asked at first.
LEMMA FindStarts == FindInit => FindInv
<1> SUFFICES ASSUME FindInit PROVE FindInv
  OBVIOUS
<1>1. ChatHolds(fn)
  <2>1. /\ Has(fn, FindFields) /\ Has(fn.eng, EngineFields) /\ fn.seq = 0 /\ fn.outs = <<>>
        /\ fn.open = FALSE /\ fn.timer = FALSE /\ fn.rerun = FALSE /\ fn.live = 0
        /\ fn.eng.marks = <<>> /\ fn.count = NoCount /\ fn.hits = <<>>
    <3>1. Has(fn, FindFields)
      BY DEF FindInit, Has, FindFields
    <3>2. /\ fn.eng = [root |-> Naught, q |-> NoText, marks |-> <<>>, cur |-> 0] /\ fn.seq = 0 /\ fn.outs = <<>>
          /\ fn.open = FALSE /\ fn.timer = FALSE /\ fn.rerun = FALSE /\ fn.live = 0
          /\ fn.count = NoCount /\ fn.hits = <<>>
      BY DEF FindInit
    <3>3. QED
      BY <3>1, <3>2 DEF Has, EngineFields
  <2>2. AnswersFit(<<>>, 0)
    <3> DEFINE S == {}
    <3>1. <<>> \in Seq(S) /\ \A o \in S : AnswerFits(o, 0)
      OBVIOUS
    <3> HIDE DEF S
    <3>2. QED
      BY <3>1 DEF AnswersFit
  <2>3. {fn.open, fn.timer} \subseteq BOOLEAN /\ fn.seq \in Nat /\ AnswersFit(fn.outs, fn.seq)
    <3>1. AnswersFit(fn.outs, fn.seq)
      BY <2>1, <2>2, Zenon
    <3>2. fn.open \in BOOLEAN /\ fn.timer \in BOOLEAN
      BY <2>1
    <3>3. fn.seq \in Nat
      BY <2>1
    <3>4. QED
      BY <3>1, <3>2, <3>3
  <2>4. QED
    BY <2>1, <2>3 DEF ChatHolds, Grounded, Formed, Shut
<1>2. EditorHolds(ef)
  BY DEF FindInit, EditorHolds, Has, EditorFields
<1>3. PageHolds(pg)
  BY DEF FindInit, PageHolds, Has, PageFields
<1>4. QED
  BY <1>1, <1>2, <1>3 DEF FindInv

\* Every step keeps what holds of the boxes.
LEMMA FindSteps == FindInv /\ [FindNext]_fnvars => FindInv'
<1> SUFFICES ASSUME FindInv, [FindNext]_fnvars PROVE FindInv'
  OBVIOUS
<1>1. CASE UNCHANGED fnvars
  BY <1>1 DEF fnvars, FindInv, ChatHolds, EditorHolds, PageHolds
<1>2. CASE FindNext
  BY <1>2, BoxesHold, BesideHolds, AnswersHold, NavigationHolds DEF FindNext
<1>3. QED
  BY <1>1, <1>2

\* FoundIsAsked, for any transcript, tabs and file: once nothing is on its way, what a find
\* box marks and counts was found for the text in it, in the chat on screen.
THEOREM FoundWasAsked == FindSpec => []FoundIsAsked
<1>1. FindInv => FoundIsAsked
  <2> SUFFICES ASSUME FindInv PROVE FoundIsAsked
    OBVIOUS
  <2>1. ~fn.open => fn.eng.marks = <<>> /\ fn.count = NoCount
    BY DEF FindInv, ChatHolds, Grounded, Shut
  <2>2. fn.open /\ Settled => /\ fn.eng.q = fn.box /\ fn.eng.root = fn.chat
                              /\ fn.box # NoText => fn.count.q = fn.box /\ fn.count.chat = fn.chat
    BY DEF FindInv, ChatHolds, Grounded, Rooted, Told, Settled
  <2>3. IF ef.open THEN ~ef.timer => ef.searched = ef.box ELSE ef.drawn = Naught
    BY DEF FindInv, EditorHolds
  <2>4. pg.open /\ pg.box # NoText /\ ~pg.timer /\ pg.outs = {} => pg.shown = pg.box
    BY DEF FindInv, PageHolds
  <2>5. QED
    BY <2>1, <2>2, <2>3, <2>4 DEF FoundIsAsked
<1>2. QED
  BY <1>1, FindStarts, FindSteps, PTL DEF FindSpec

-----------------------------------------------------------------------------
(* The pages of the specs: what holds of them between their steps.         *)

\* What a page has, and what its read has.
SpecPageKeys == {"on", "spec", "held", "gone", "missed", "fetch", "trailing", "waiters",
                 "dispatched", "busy", "unmoved", "dispatching", "approving", "armed", "last"}

SpecKeys == {"pages", "open", "closed", "shown", "away", "parent", "thinking", "due", "sends",
             "asks", "owed", "fired"}

AtMostOne(q) == q # <<>> => q = <<q[1]>>

\* What waits for a read of s, asked when the file was at version v or before.
AskOk(k, s, v) ==
    /\ k.page = s
    /\ k.kind \in {"note", "task", "all"}
    /\ k.kind # "all" => k.at \in Int /\ k.at <= v

Asking(q, s, v) == \E S : q \in Seq(S) /\ \A k \in S : AskOk(k, s, v)

\* The continuations of q that run all the tasks of s.
RunsAllOf(q, s) == {i \in DOMAIN q : q[i].kind = "all" /\ q[i].page = s}

\* The read that is out, of a file at version v.
FetchOk(f, s, v) ==
    f # <<>> =>
      /\ f = <<[got |-> f[1].got, then |-> f[1].then]>>
      /\ AtMostOne(f[1].got)
      /\ Asking(f[1].then, s, v)
      /\ f[1].got # <<>> =>
           /\ f[1].got[1].ver \in Int
           /\ \A i \in DOMAIN f[1].then :
                f[1].then[i].kind # "all" => f[1].then[i].at <= f[1].got[1].ver

PageOk(p, s, v) ==
    /\ SpecPageKeys \subseteq DOMAIN p
    /\ AtMostOne(p.spec) /\ AtMostOne(p.held)
    /\ p.spec = p.held \/ (p.spec = <<>> /\ p.gone)
    /\ p.spec # <<>> => p.spec[1].ver \in Int /\ p.unmoved \subseteq Pending(p.spec[1])
    /\ p.held # <<>> => p.held[1].ver \in Int
    /\ FetchOk(p.fetch, s, v)
    /\ Asking(p.waiters, s, v)

\* What a page has, or has asked for, of a file no frame is on its way for.
PageCaughtUp(p, doc) ==
    p.on => IF p.fetch # <<>> THEN p.trailing \/ p.fetch[1].got = <<>> \/ p.fetch[1].got = <<doc>>
            ELSE p.missed \/ IF doc.here THEN p.held = <<doc>> ELSE p.gone

\* What awaits its turn once a read is over.
DueOk(k, pages) ==
    /\ k.page \in Specs
    /\ k.kind \in {"note", "task", "all"}
    /\ k.kind # "all" =>
         LET p == pages[k.page] IN p.spec # <<>> => p.missed \/ p.spec[1].ver >= k.at

\* A prompt that waits for its answer: as it was picked, from a read no older than the click.
SentOk(e) ==
    /\ {"page", "row", "chat", "res"} \subseteq DOMAIN e
    /\ e.page \in Specs
    /\ e.res \in {SpNone, "sent", "queued", "starting", "gone", "failed"}
    /\ e.row # All => /\ {"text", "picked", "at", "read", "missed"} \subseteq DOMAIN e
                      /\ e.text = e.picked
                      /\ e.missed \/ e.read >= e.at

SentQueue(q) == \E S : q \in Seq(S) /\ \A e \in S : SentOk(e)

\* The runs of all the tasks of s that are still to come.
ToCome(p, due, s) ==
    (IF p.armed THEN 1 ELSE 0)
      + (IF p.fetch = <<>> THEN 0 ELSE Cardinality(RunsAllOf(p.fetch[1].then, s)))
      + Cardinality(RunsAllOf(p.waiters, s)) + Cardinality(RunsAllOf(due, s))

ClientShape(c) ==
    /\ SpecKeys \subseteq DOMAIN c
    /\ DOMAIN c.pages = Specs /\ DOMAIN c.owed = Specs /\ DOMAIN c.fired = Specs
    /\ DOMAIN c.sends = SpecChats /\ DOMAIN c.asks = Specs
    /\ c.shown \in Specs \cup {SpNone}

\* What holds of the client while the files are these; the pages of X may be behind theirs.
ClientOk(c, files, X) ==
    /\ ClientShape(c)
    /\ \A s \in Specs : PageOk(c.pages[s], s, files[s].ver)
    /\ \A s \in Specs : s \notin X => PageCaughtUp(c.pages[s], files[s])
    /\ \E S : c.due \in Seq(S) /\ \A k \in S : DueOk(k, c.pages)
    /\ \A ch \in SpecChats : SentQueue(c.sends[ch])
    /\ \A s \in Specs : /\ c.fired[s] \in Nat /\ c.owed[s] \in Nat
                        /\ c.fired[s] + ToCome(c.pages[s], c.due, s) <= c.owed[s]

FilesOk ==
    /\ {"files", "turns", "frames", "lost"} \subseteq DOMAIN spsrv
    /\ DOMAIN spsrv.files = Specs
    /\ \A s \in Specs : /\ {"here", "ver", "text", "box", "approved"} \subseteq DOMAIN spsrv.files[s]
                        /\ spsrv.files[s].ver \in Int

\* A page is caught up with its file unless a frame for it is on its way or lost.
SpecInv == FilesOk /\ ClientOk(sp, spsrv.files, spsrv.frames \cup spsrv.lost)

-----------------------------------------------------------------------------
(* The runs of all the tasks that wait.                                    *)

\* The places of a sequence are finitely many.
LEMMA RunsAllFinite ==
  ASSUME NEW S, NEW q \in Seq(S), NEW s
  PROVE  IsFiniteSet(RunsAllOf(q, s)) /\ Cardinality(RunsAllOf(q, s)) \in Nat
<1>1. DOMAIN q = 1..Len(q) /\ Len(q) \in Nat
  OBVIOUS
<1>2. IsFiniteSet(1..Len(q))
  BY <1>1, FS_Interval
<1>3. RunsAllOf(q, s) \in SUBSET (1..Len(q))
  BY <1>1 DEF RunsAllOf
<1>4. IsFiniteSet(RunsAllOf(q, s))
  BY <1>2, <1>3, FS_Subset
<1>5. QED
  BY <1>4, FS_CardinalityType

\* No place, no run.
LEMMA RunsAllNone ==
  ASSUME NEW s
  PROVE  Cardinality(RunsAllOf(<<>>, s)) = 0
<1>1. RunsAllOf(<<>>, s) = {}
  BY DEF RunsAllOf
<1>2. QED
  BY <1>1, FS_EmptySet

\* One continuation is one run, when it is a run of all.
LEMMA RunsAllOne ==
  ASSUME NEW k, NEW s
  PROVE  Cardinality(RunsAllOf(<<k>>, s)) = IF k.kind = "all" /\ k.page = s THEN 1 ELSE 0
<1>1. DOMAIN <<k>> = {1} /\ <<k>>[1] = k
  OBVIOUS
<1>2. CASE k.kind = "all" /\ k.page = s
  <2>1. RunsAllOf(<<k>>, s) = {1}
    BY <1>1, <1>2 DEF RunsAllOf
  <2>2. QED
    BY <1>2, <2>1, FS_Singleton
<1>3. CASE ~(k.kind = "all" /\ k.page = s)
  <2>1. RunsAllOf(<<k>>, s) = {}
    BY <1>1, <1>3 DEF RunsAllOf
  <2>2. QED
    BY <1>3, <2>1, FS_EmptySet
<1>4. QED
  BY <1>2, <1>3

\* Two queues one behind the other hold the runs of both.
LEMMA RunsAllJoined ==
  ASSUME NEW S, NEW q \in Seq(S), NEW r \in Seq(S), NEW s
  PROVE  Cardinality(RunsAllOf(q \o r, s)) =
           Cardinality(RunsAllOf(q, s)) + Cardinality(RunsAllOf(r, s))
<1> DEFINE n == Len(q)
           A == RunsAllOf(q, s)
           B == RunsAllOf(r, s)
           C == {j \in (n + 1)..(n + Len(r)) : j - n \in B}
           f == [i \in B |-> i + n]
<1>1. n \in Nat /\ Len(r) \in Nat /\ DOMAIN q = 1..n /\ DOMAIN r = 1..Len(r)
  OBVIOUS
<1>2. q \o r \in Seq(S) /\ DOMAIN (q \o r) = 1..(n + Len(r))
  OBVIOUS
<1>3. \A i \in 1..n : (q \o r)[i] = q[i]
  OBVIOUS
<1>4. \A j \in (n + 1)..(n + Len(r)) : (q \o r)[j] = r[j - n]
  OBVIOUS
<1>5. RunsAllOf(q \o r, s) = A \cup C
  <2>1. \A j \in 1..(n + Len(r)) : j \in RunsAllOf(q \o r, s) <=> j \in A \cup C
    <3> TAKE j \in 1..(n + Len(r))
    <3>1. CASE j \in 1..n
      BY <1>1, <1>2, <1>3, <3>1 DEF RunsAllOf
    <3>2. CASE j \in (n + 1)..(n + Len(r))
      <4>1. j - n \in DOMAIN r /\ (q \o r)[j] = r[j - n]
        BY <1>1, <1>4, <3>2
      <4>2. j \notin A
        BY <1>1, <3>2 DEF RunsAllOf
      <4>3. QED
        BY <1>2, <3>2, <4>1, <4>2 DEF RunsAllOf
    <3>3. QED
      BY <1>1, <3>1, <3>2
  <2>2. RunsAllOf(q \o r, s) \subseteq 1..(n + Len(r))
    BY <1>2 DEF RunsAllOf
  <2>3. A \cup C \subseteq 1..(n + Len(r))
    BY <1>1 DEF RunsAllOf
  <2>4. QED
    BY <2>1, <2>2, <2>3
<1>6. IsFiniteSet(A) /\ IsFiniteSet(B)
  BY RunsAllFinite
<1>7. B \subseteq 1..Len(r)
  BY <1>1 DEF RunsAllOf
<1>8. f \in Bijection(B, C)
  <2>1. f \in [B -> C]
    BY <1>1, <1>7
  <2>2. \A a, b \in B : f[a] = f[b] => a = b
    BY <1>1, <1>7
  <2>3. \A j \in C : \E i \in B : f[i] = j
    <3> TAKE j \in C
    <3>1. j - n \in B /\ f[j - n] = j
      BY <1>1
    <3>2. QED
      BY <3>1
  <2>4. QED
    BY <2>1, <2>2, <2>3, Zenon DEF Bijection, Injection, Surjection, IsInjective
<1>9. IsFiniteSet(C) /\ Cardinality(C) = Cardinality(B)
  BY <1>6, <1>8, FS_Bijection DEF ExistsBijection
<1>10. A \cap C = {}
  BY <1>1 DEF RunsAllOf
<1> HIDE DEF A, B, C
<1>11. Cardinality(A \cup C) = Cardinality(A) + Cardinality(C) - Cardinality(A \cap C)
  BY <1>6, <1>9, FS_Union
<1>12. Cardinality(A \cap C) = 0 /\ Cardinality(A) \in Nat /\ Cardinality(C) \in Nat
  BY <1>6, <1>9, <1>10, FS_EmptySet, FS_CardinalityType
<1>13. QED
  BY <1>5, <1>9, <1>11, <1>12 DEF A, B

\* What the first of a queue is counted for.
LEMMA RunsAllTail ==
  ASSUME NEW S, NEW q \in Seq(S), q # <<>>, NEW s
  PROVE  Cardinality(RunsAllOf(q, s)) =
           (IF Head(q).kind = "all" /\ Head(q).page = s THEN 1 ELSE 0)
             + Cardinality(RunsAllOf(Tail(q), s))
<1>1. Head(q) \in S /\ Tail(q) \in Seq(S) /\ <<Head(q)>> \in Seq(S)
  OBVIOUS
<1>2. q = <<Head(q)>> \o Tail(q)
  OBVIOUS
<1>3. Cardinality(RunsAllOf(<<Head(q)>> \o Tail(q), s)) =
        Cardinality(RunsAllOf(<<Head(q)>>, s)) + Cardinality(RunsAllOf(Tail(q), s))
  BY <1>1, RunsAllJoined
<1>4. QED
  BY <1>2, <1>3, RunsAllOne

----------------------------------------------------------------------------
(* What waits.                                                             *)

\* Nothing waits at first.
LEMMA AskingNone ==
  ASSUME NEW s, NEW v
  PROVE  Asking(<<>>, s, v)
<1>1. SUFFICES \E S : <<>> \in Seq(S) /\ \A k \in S : AskOk(k, s, v)
  BY DEF Asking
<1> DEFINE T == {}
<1>2. <<>> \in Seq(T) /\ \A k \in T : AskOk(k, s, v)
  OBVIOUS
<1> HIDE DEF T
<1>3. QED
  BY <1>2

\* One may wait alone.
LEMMA AskingOne ==
  ASSUME NEW s, NEW v, NEW k, AskOk(k, s, v)
  PROVE  Asking(<<k>>, s, v)
<1>1. SUFFICES \E S : <<k>> \in Seq(S) /\ \A j \in S : AskOk(j, s, v)
  BY DEF Asking
<1> DEFINE T == {k}
<1>2. <<k>> \in Seq(T) /\ \A j \in T : AskOk(j, s, v)
  OBVIOUS
<1> HIDE DEF T
<1>3. QED
  BY <1>2

\* Those that wait may wait behind others.
LEMMA AskingJoined ==
  ASSUME NEW s, NEW v, NEW q, NEW r, Asking(q, s, v), Asking(r, s, v)
  PROVE  /\ Asking(q \o r, s, v)
         /\ \A p : Cardinality(RunsAllOf(q \o r, p)) =
                     Cardinality(RunsAllOf(q, p)) + Cardinality(RunsAllOf(r, p))
<1>1. PICK S : q \in Seq(S) /\ \A k \in S : AskOk(k, s, v)
  BY Zenon DEF Asking
<1>2. PICK T : r \in Seq(T) /\ \A k \in T : AskOk(k, s, v)
  BY Zenon DEF Asking
<1> DEFINE U == S \cup T
<1>3. q \in Seq(U) /\ r \in Seq(U)
  BY <1>1, <1>2
<1>4. \A k \in U : AskOk(k, s, v)
  BY <1>1, <1>2
<1>5. q \o r \in Seq(U)
  BY <1>3
<1> HIDE DEF U
<1>6. Asking(q \o r, s, v)
  BY <1>4, <1>5, Zenon DEF Asking
<1>7. QED
  BY <1>3, <1>6, RunsAllJoined

\* Each that waits is one that may, and the runs among them are finitely many.
LEMMA AskingEach ==
  ASSUME NEW s, NEW v, NEW q, Asking(q, s, v)
  PROVE  /\ \A i \in DOMAIN q : AskOk(q[i], s, v)
         /\ \A p : Cardinality(RunsAllOf(q, p)) \in Nat
         /\ \E S : q \in Seq(S)
<1>1. PICK S : q \in Seq(S) /\ \A k \in S : AskOk(k, s, v)
  BY Zenon DEF Asking
<1>2. \A i \in DOMAIN q : q[i] \in S
  BY <1>1
<1>3. QED
  BY <1>1, <1>2, RunsAllFinite

\* A file's version only goes up.
LEMMA AskingLater ==
  ASSUME NEW s, NEW v \in Int, NEW w \in Int, v <= w, NEW q, Asking(q, s, v)
  PROVE  Asking(q, s, w)
<1>1. PICK S : q \in Seq(S) /\ \A k \in S : AskOk(k, s, v)
  BY Zenon DEF Asking
<1>2. \A k \in S : AskOk(k, s, w)
  BY <1>1 DEF AskOk
<1>3. QED
  BY <1>1, <1>2, Zenon DEF Asking

----------------------------------------------------------------------------
(* One page changes.                                                       *)

\* The counts of a page that holds together are naturals.
LEMMA ToComeNat ==
  ASSUME NEW p, NEW s, NEW v, PageOk(p, s, v), NEW S, NEW due \in Seq(S), NEW r
  PROVE  ToCome(p, due, r) \in Nat
<1>1. Cardinality(RunsAllOf(due, r)) \in Nat
  BY RunsAllFinite
<1>2. Cardinality(RunsAllOf(p.waiters, r)) \in Nat
  BY AskingEach DEF PageOk
<1>3. p.fetch # <<>> => Cardinality(RunsAllOf(p.fetch[1].then, r)) \in Nat
  BY AskingEach DEF PageOk, FetchOk
<1>4. QED
  BY <1>1, <1>2, <1>3 DEF ToCome

\* d is c but for the page of s, what is sent, and what s's answers were owed and got.
ButFor(c, d, s) ==
    /\ ClientShape(d)
    /\ d.due = c.due
    /\ \A r \in Specs \ {s} :
         d.pages[r] = c.pages[r] /\ d.fired[r] = c.fired[r] /\ d.owed[r] = c.owed[r]

\* A page changes and the client holds together.
LEMMA OnePage ==
  ASSUME NEW c, NEW d, NEW files, NEW X, NEW Y, NEW s \in Specs, ClientOk(c, files, X),
         ButFor(c, d, s),
         \A ch \in SpecChats : SentQueue(d.sends[ch]),
         PageOk(d.pages[s], s, files[s].ver),
         X \subseteq Y \cup {s},
         s \notin Y => PageCaughtUp(d.pages[s], files[s]),
         \/ d.pages[s].spec = <<>>
         \/ d.pages[s].spec = c.pages[s].spec /\ d.pages[s].missed = c.pages[s].missed,
         d.fired[s] \in Nat, d.owed[s] \in Nat,
         d.fired[s] + ToCome(d.pages[s], d.due, s) <= d.owed[s]
  PROVE  ClientOk(d, files, Y)
<1>1. \A r \in Specs : PageOk(d.pages[r], r, files[r].ver)
  BY DEF ClientOk, ButFor
<1>2. \A r \in Specs : r \notin Y => PageCaughtUp(d.pages[r], files[r])
  BY DEF ClientOk, ButFor
<1>3. \E S : d.due \in Seq(S) /\ \A k \in S : DueOk(k, d.pages)
  <2>1. PICK S : c.due \in Seq(S) /\ \A k \in S : DueOk(k, c.pages)
    BY Zenon DEF ClientOk
  <2>2. \A r \in Specs : \/ d.pages[r].spec = <<>>
                         \/ d.pages[r].spec = c.pages[r].spec /\ d.pages[r].missed = c.pages[r].missed
    BY DEF ButFor
  <2>3. \A k \in S : DueOk(k, d.pages)
    BY <2>1, <2>2, Zenon DEF DueOk
  <2>4. QED
    BY <2>1, <2>3, Zenon DEF ButFor
<1>4. \A r \in Specs : /\ d.fired[r] \in Nat /\ d.owed[r] \in Nat
                       /\ d.fired[r] + ToCome(d.pages[r], d.due, r) <= d.owed[r]
  <2> TAKE r \in Specs
  <2>1. CASE r = s
    BY <2>1
  <2>2. CASE r # s
    <3>1. /\ c.fired[r] \in Nat /\ c.owed[r] \in Nat
          /\ c.fired[r] + ToCome(c.pages[r], c.due, r) <= c.owed[r]
      BY Zenon DEF ClientOk
    <3>2. /\ d.fired[r] = c.fired[r] /\ d.owed[r] = c.owed[r] /\ d.pages[r] = c.pages[r]
          /\ d.due = c.due
      BY <2>2, Zenon DEF ButFor
    <3>3. QED
      BY <3>1, <3>2
  <2>3. QED
    BY <2>1, <2>2
<1>5. QED
  BY <1>1, <1>2, <1>3, <1>4, Zenon DEF ClientOk, ButFor

\* Only the pages of d are not those of c.
PagesOnly(c, d) == \A x \in SpecKeys \ {"pages"} : d[x] = c[x]

\* A page is set down in place of another.
LEMMA SetDown ==
  ASSUME NEW c, ClientShape(c), NEW s \in Specs, NEW q
  PROVE  LET d == [c EXCEPT !.pages[s] = q]
         IN  /\ ButFor(c, d, s)
             /\ d.pages[s] = q /\ d.sends = c.sends /\ d.fired = c.fired /\ d.owed = c.owed
             /\ PagesOnly(c, d)
<1> DEFINE d == [c EXCEPT !.pages[s] = q]
<1>1. DOMAIN d = DOMAIN c
  OBVIOUS
<1>2. d.pages = [c.pages EXCEPT ![s] = q]
  BY DEF ClientShape, SpecKeys, PagesOnly
<1>3. PagesOnly(c, d)
  BY DEF ClientShape, SpecKeys, PagesOnly
<1>4. /\ d.due = c.due /\ d.sends = c.sends /\ d.owed = c.owed /\ d.fired = c.fired
      /\ d.shown = c.shown /\ d.asks = c.asks
  BY <1>3 DEF SpecKeys, PagesOnly
<1>5. d.pages[s] = q /\ \A r \in Specs \ {s} : d.pages[r] = c.pages[r]
  BY <1>2 DEF ClientShape
<1>6. DOMAIN d.pages = Specs
  BY <1>2 DEF ClientShape
<1> HIDE DEF d
<1>7. ClientShape(d)
  BY <1>1, <1>4, <1>6 DEF ClientShape
<1>8. ButFor(c, d, s)
  BY <1>4, <1>5, <1>7 DEF ButFor
<1>9. QED
  BY <1>3, <1>4, <1>5, <1>8 DEF d

\* The client still has room for n runs of all the tasks of s.
Room(c, s, n) ==
    c.fired[s] + n + ToCome(c.pages[s], c.due, s) <= c.owed[s]

\* A page changes in what only the eye and the chat look at.
LEMMA PageTouched ==
  ASSUME NEW c, NEW d, NEW files, NEW X, NEW s \in Specs, ClientOk(c, files, X),
         ButFor(c, d, s), d.fired[s] = c.fired[s], d.owed[s] = c.owed[s],
         \A ch \in SpecChats : SentQueue(d.sends[ch]),
         SpecPageKeys \subseteq DOMAIN d.pages[s],
         \A x \in {"on", "spec", "held", "gone", "missed", "fetch", "trailing", "waiters",
                   "unmoved", "armed"} : d.pages[s][x] = c.pages[s][x]
  PROVE  ClientOk(d, files, X)
<1> DEFINE p == c.pages[s]
           q == d.pages[s]
<1>1. /\ q.on = p.on /\ q.spec = p.spec /\ q.held = p.held /\ q.gone = p.gone
      /\ q.missed = p.missed /\ q.fetch = p.fetch /\ q.trailing = p.trailing
      /\ q.waiters = p.waiters /\ q.unmoved = p.unmoved /\ q.armed = p.armed
  OBVIOUS
<1>2. PageOk(p, s, files[s].ver) /\ (s \notin X => PageCaughtUp(p, files[s]))
  BY Zenon DEF ClientOk
<1>3. SpecPageKeys \subseteq DOMAIN q
  OBVIOUS
<1>4. /\ c.fired[s] \in Nat /\ c.owed[s] \in Nat
      /\ c.fired[s] + ToCome(p, c.due, s) <= c.owed[s]
  BY Zenon DEF ClientOk
<1>5. d.due = c.due
  BY DEF ButFor
<1> HIDE DEF p, q
<1>6. PageOk(q, s, files[s].ver)
  BY <1>1, <1>2, <1>3, Zenon DEF PageOk
<1>7. s \notin X => PageCaughtUp(q, files[s])
  BY <1>1, <1>2, Zenon DEF PageCaughtUp
<1>8. ToCome(q, c.due, s) = ToCome(p, c.due, s)
  BY <1>1, Zenon DEF ToCome
<1>9. d.fired[s] + ToCome(q, d.due, s) <= d.owed[s]
  BY <1>4, <1>5, <1>8
<1>10. d.fired[s] \in Nat /\ d.owed[s] \in Nat
  BY <1>4
<1>11. q.spec = p.spec /\ q.missed = p.missed
  BY <1>1
<1>12. X \subseteq X \cup {s}
  OBVIOUS
<1>13. QED
  BY <1>6, <1>7, <1>9, <1>10, <1>11, <1>12, OnePage DEF p, q

----------------------------------------------------------------------------
(* Reads.                                                                  *)

\* A read asked for is out, or remembered behind the one that is out.
LEMMA RefetchAsks ==
  ASSUME NEW c, NEW files, NEW X, NEW s \in Specs, ClientOk(c, files, X), NEW then,
         Asking(then, s, files[s].ver),
         Room(c, s, Cardinality(RunsAllOf(then, s)))
  PROVE  /\ ClientOk(Refetch(c, s, then), files, X \ {s})
         /\ PagesOnly(c, Refetch(c, s, then))
         /\ (Refetch(c, s, then).pages[s].armed <=> c.pages[s].armed)
<1> DEFINE p == c.pages[s]
           d == Refetch(c, s, then)
           v == files[s].ver
<1>1. /\ ClientShape(c) /\ PageOk(p, s, v) /\ \A ch \in SpecChats : SentQueue(c.sends[ch])
      /\ c.fired[s] \in Nat /\ c.owed[s] \in Nat
  BY Zenon DEF ClientOk
<1>2. SpecPageKeys \subseteq DOMAIN p
  BY <1>1, Zenon DEF PageOk
<1>3. PICK S : c.due \in Seq(S)
  BY Zenon DEF ClientOk
<1>4. /\ Cardinality(RunsAllOf(then, s)) \in Nat /\ Cardinality(RunsAllOf(p.waiters, s)) \in Nat
      /\ Cardinality(RunsAllOf(c.due, s)) \in Nat
  BY <1>1, <1>3, AskingEach, RunsAllFinite DEF PageOk
<1>5. CASE ~p.on
  <2>1. d = c
    BY <1>5 DEF Refetch
  <2>2. ButFor(c, c, s)
    BY <1>1 DEF ButFor
  <2>3. PageCaughtUp(p, files[s])
    BY <1>5 DEF PageCaughtUp
  <2>4. c.fired[s] + ToCome(p, c.due, s) <= c.owed[s]
    BY Zenon DEF ClientOk
  <2>5. X \subseteq (X \ {s}) \cup {s}
    OBVIOUS
  <2>6. ClientOk(c, files, X \ {s})
    BY <1>1, <2>2, <2>3, <2>4, <2>5, OnePage
  <2>7. QED
    BY <2>1, <2>6 DEF PagesOnly
<1>6. CASE p.on /\ p.fetch = <<>>
  <2> DEFINE f == <<[got |-> <<>>, then |-> then]>>
             q == [p EXCEPT !.fetch = f]
  <2>1. d = [c EXCEPT !.pages[s] = q]
    BY <1>6, Zenon DEF Refetch
  <2>2. /\ q.on = p.on /\ q.spec = p.spec /\ q.held = p.held /\ q.gone = p.gone
        /\ q.missed = p.missed /\ q.fetch = f /\ q.trailing = p.trailing
        /\ q.waiters = p.waiters /\ q.unmoved = p.unmoved /\ q.armed = p.armed
        /\ SpecPageKeys \subseteq DOMAIN q
    BY <1>2 DEF SpecPageKeys
  <2>3. FetchOk(f, s, v)
    <3>1. /\ f[1].got = <<>> /\ f[1].then = then /\ f[1] = [got |-> <<>>, then |-> then]
      OBVIOUS
    <3> HIDE DEF f
    <3>2. f = <<f[1]>>
      BY DEF f
    <3>3. QED
      BY <3>1, <3>2 DEF FetchOk, AtMostOne
  <2>4. f # <<>> /\ f[1].got = <<>> /\ f[1].then = then
    OBVIOUS
  <2> HIDE DEF f, q
  <2>5. PageOk(q, s, v)
    BY <1>1, <2>2, <2>3, Zenon DEF PageOk
  <2>6. PageCaughtUp(q, files[s])
    BY <2>2, <2>4 DEF PageCaughtUp
  <2>7. ToCome(q, c.due, s) = Cardinality(RunsAllOf(then, s)) + ToCome(p, c.due, s)
    <3>1. ToCome(q, c.due, s) = (IF p.armed THEN 1 ELSE 0) + Cardinality(RunsAllOf(then, s))
                                  + Cardinality(RunsAllOf(p.waiters, s)) + Cardinality(RunsAllOf(c.due, s))
      BY <2>2, <2>4, Zenon DEF ToCome
    <3>2. ToCome(p, c.due, s) = (IF p.armed THEN 1 ELSE 0) + 0
                                  + Cardinality(RunsAllOf(p.waiters, s)) + Cardinality(RunsAllOf(c.due, s))
      BY <1>6, Zenon DEF ToCome
    <3>3. QED
      BY <1>4, <3>1, <3>2
  <2>8. c.fired[s] + ToCome(q, c.due, s) <= c.owed[s]
    <3>1. ToCome(p, c.due, s) \in Nat
      BY <1>1, <1>3, ToComeNat
    <3>2. QED
      BY <1>1, <1>4, <2>7, <3>1 DEF Room
  <2>9. /\ ButFor(c, d, s) /\ d.pages[s] = q /\ d.sends = c.sends
        /\ d.fired = c.fired /\ d.owed = c.owed
        /\ PagesOnly(c, d)
    <3> HIDE DEF d
    <3>1. QED
      BY <1>1, <2>1, SetDown
  <2>10. d.due = c.due
    BY <2>9 DEF ButFor
  <2>11. X \subseteq (X \ {s}) \cup {s}
    OBVIOUS
  <2> HIDE DEF d, p
  <2>12. ClientOk(d, files, X \ {s})
    BY <1>1, <2>2, <2>5, <2>6, <2>8, <2>9, <2>10, <2>11, OnePage DEF p, v
  <2>13. QED
    BY <2>2, <2>9, <2>12 DEF d, p
<1>7. CASE p.on /\ p.fetch # <<>>
  <2> DEFINE w == p.waiters \o then
             q == [p EXCEPT !.trailing = TRUE, !.waiters = w]
  <2>1. d = [c EXCEPT !.pages[s] = q]
    BY <1>7, Zenon DEF Refetch
  <2>2. /\ q.on = p.on /\ q.spec = p.spec /\ q.held = p.held /\ q.gone = p.gone
        /\ q.missed = p.missed /\ q.fetch = p.fetch /\ q.trailing = TRUE
        /\ q.waiters = w /\ q.unmoved = p.unmoved /\ q.armed = p.armed
        /\ SpecPageKeys \subseteq DOMAIN q
    BY <1>2 DEF SpecPageKeys
  <2>3. /\ Asking(w, s, v)
        /\ Cardinality(RunsAllOf(w, s)) =
             Cardinality(RunsAllOf(p.waiters, s)) + Cardinality(RunsAllOf(then, s))
    <3>1. Asking(p.waiters, s, v)
      BY <1>1, Zenon DEF PageOk
    <3>2. Asking(then, s, v)
      OBVIOUS
    <3>3. w = p.waiters \o then
      OBVIOUS
    <3> HIDE DEF p, v, w
    <3>4. Asking(p.waiters \o then, s, v)
      BY <3>1, <3>2, AskingJoined
    <3>5. Cardinality(RunsAllOf(p.waiters \o then, s)) =
            Cardinality(RunsAllOf(p.waiters, s)) + Cardinality(RunsAllOf(then, s))
      BY <3>1, <3>2, AskingJoined
    <3>6. QED
      BY <3>3, <3>4, <3>5
  <2> HIDE DEF w, q
  <2>5. PageOk(q, s, v)
    BY <1>1, <2>2, <2>3, Zenon DEF PageOk
  <2>6. PageCaughtUp(q, files[s])
    BY <1>7, <2>2, Zenon DEF PageCaughtUp
  <2>7. ToCome(q, c.due, s) = Cardinality(RunsAllOf(then, s)) + ToCome(p, c.due, s)
    <3> DEFINE n == Cardinality(RunsAllOf(p.fetch[1].then, s))
    <3>0. n \in Nat
      BY <1>1, <1>7, AskingEach DEF PageOk, FetchOk
    <3> HIDE DEF n
    <3>1. ToCome(q, c.due, s) = (IF p.armed THEN 1 ELSE 0) + n
                                  + Cardinality(RunsAllOf(w, s)) + Cardinality(RunsAllOf(c.due, s))
      BY <1>7, <2>2, Zenon DEF ToCome, n
    <3>2. ToCome(p, c.due, s) = (IF p.armed THEN 1 ELSE 0) + n
                                  + Cardinality(RunsAllOf(p.waiters, s)) + Cardinality(RunsAllOf(c.due, s))
      BY <1>7, Zenon DEF ToCome, n
    <3>3. QED
      BY <1>4, <2>3, <3>0, <3>1, <3>2
  <2>8. c.fired[s] + ToCome(q, c.due, s) <= c.owed[s]
    <3>1. ToCome(p, c.due, s) \in Nat
      BY <1>1, <1>3, ToComeNat
    <3>2. QED
      BY <1>1, <1>4, <2>7, <3>1 DEF Room
  <2>9. /\ ButFor(c, d, s) /\ d.pages[s] = q /\ d.sends = c.sends
        /\ d.fired = c.fired /\ d.owed = c.owed
        /\ PagesOnly(c, d)
    <3> HIDE DEF d
    <3>1. QED
      BY <1>1, <2>1, SetDown
  <2>10. d.due = c.due
    BY <2>9 DEF ButFor
  <2>11. X \subseteq (X \ {s}) \cup {s}
    OBVIOUS
  <2> HIDE DEF d, p
  <2>12. ClientOk(d, files, X \ {s})
    BY <1>1, <2>2, <2>5, <2>6, <2>8, <2>9, <2>10, <2>11, OnePage DEF p, v
  <2>13. QED
    BY <2>2, <2>9, <2>12 DEF d, p
<1>8. QED
  BY <1>5, <1>6, <1>7

\* A page may be left out of the exemption or in it.
LEMMA MoreExempt ==
  ASSUME NEW c, NEW files, NEW X, NEW Y, X \subseteq Y, ClientOk(c, files, X)
  PROVE  ClientOk(c, files, Y)
BY Zenon DEF ClientOk

\* A read nothing waits for asks for no run.
LEMMA RefetchPlain ==
  ASSUME NEW c, NEW files, NEW X, NEW s \in Specs, ClientOk(c, files, X)
  PROVE  /\ ClientOk(Refetch(c, s, <<>>), files, X \ {s})
         /\ PagesOnly(c, Refetch(c, s, <<>>))
<1>1. Asking(<<>>, s, files[s].ver)
  BY AskingNone
<1>2. Cardinality(RunsAllOf(<<>>, s)) = 0
  BY RunsAllNone
<1>3. /\ c.fired[s] \in Nat /\ c.owed[s] \in Nat
      /\ c.fired[s] + ToCome(c.pages[s], c.due, s) <= c.owed[s]
  BY Zenon DEF ClientOk
<1>4. PICK S : c.due \in Seq(S)
  BY Zenon DEF ClientOk
<1>5. ToCome(c.pages[s], c.due, s) \in Nat
  BY <1>4, ToComeNat DEF ClientOk
<1>6. Room(c, s, Cardinality(RunsAllOf(<<>>, s)))
  BY <1>2, <1>3, <1>5 DEF Room
<1>7. QED
  BY <1>1, <1>6, RefetchAsks

\* A read that something other than a run of all waits for asks for no run.
LEMMA RefetchFor ==
  ASSUME NEW c, NEW files, NEW X, NEW s \in Specs, ClientOk(c, files, X),
         NEW k, AskOk(k, s, files[s].ver), k.kind # "all"
  PROVE  /\ ClientOk(Refetch(c, s, <<k>>), files, X \ {s})
         /\ PagesOnly(c, Refetch(c, s, <<k>>))
         /\ (Refetch(c, s, <<k>>).pages[s].armed <=> c.pages[s].armed)
<1> DEFINE t == <<k>>
<1>1. Asking(t, s, files[s].ver)
  BY AskingOne
<1>2. Cardinality(RunsAllOf(t, s)) = 0
  BY RunsAllOne
<1>3. /\ c.fired[s] \in Nat /\ c.owed[s] \in Nat
      /\ c.fired[s] + ToCome(c.pages[s], c.due, s) <= c.owed[s]
  BY Zenon DEF ClientOk
<1>4. PICK S : c.due \in Seq(S)
  BY Zenon DEF ClientOk
<1>5. ToCome(c.pages[s], c.due, s) \in Nat
  BY <1>4, ToComeNat DEF ClientOk
<1> HIDE DEF t
<1>6. Room(c, s, Cardinality(RunsAllOf(t, s)))
  BY <1>2, <1>3, <1>5 DEF Room
<1>7. ClientOk(Refetch(c, s, t), files, X \ {s})
  BY <1>1, <1>6, RefetchAsks
<1>8. PagesOnly(c, Refetch(c, s, t))
  BY <1>1, <1>6, RefetchAsks
<1>9. Refetch(c, s, t).pages[s].armed <=> c.pages[s].armed
  BY <1>1, <1>6, RefetchAsks
<1>10. QED
  BY <1>7, <1>8, <1>9 DEF t

----------------------------------------------------------------------------
(* What the client does of itself.                                         *)

\* A client one field of whose own changes, and is not its pages, its queue or its counts.
LEMMA FieldTouched ==
  ASSUME NEW c, NEW d, NEW files, NEW X, ClientOk(c, files, X), ClientShape(d),
         \A x \in {"pages", "due", "sends", "owed", "fired"} : d[x] = c[x]
  PROVE  ClientOk(d, files, X)
<1>1. /\ d.pages = c.pages /\ d.due = c.due /\ d.sends = c.sends
      /\ d.owed = c.owed /\ d.fired = c.fired
  OBVIOUS
<1>2. QED
  BY <1>1, Zenon DEF ClientOk

\* One more prompt on its way to a chat.
LEMMA SentMore ==
  ASSUME NEW q, SentQueue(q), NEW e, SentOk(e)
  PROVE  SentQueue(Append(q, e))
<1>1. PICK S : q \in Seq(S) /\ \A x \in S : SentOk(x)
  BY Zenon DEF SentQueue
<1> DEFINE T == S \cup {e}
<1>2. Append(q, e) \in Seq(T)
  BY <1>1
<1>3. \A x \in T : SentOk(x)
  BY <1>1
<1> HIDE DEF T
<1>4. QED
  BY <1>2, <1>3, Zenon DEF SentQueue

\* A rising edge is only remembered.
LEMMA RiseKeeps ==
  ASSUME NEW c, NEW files, NEW X, ClientOk(c, files, X)
  PROVE  /\ ClientOk(Rise(c), files, X)
         /\ PagesOnly(c, Rise(c))
<1>1. ClientShape(c) /\ \A ch \in SpecChats : SentQueue(c.sends[ch])
  BY Zenon DEF ClientOk
<1>2. CASE c.shown # SpNone /\ Thinking(c, c.shown)
  <2> DEFINE s == c.shown
             q == [c.pages[s] EXCEPT !.last = TRUE]
             d == [c EXCEPT !.pages[s] = q]
  <2>1. s \in Specs
    BY <1>1, <1>2 DEF ClientShape
  <2>2. Rise(c) = d
    BY <1>2, Zenon DEF Rise
  <2>3. SpecPageKeys \subseteq DOMAIN c.pages[s]
    BY <2>1, Zenon DEF ClientOk, PageOk
  <2>4. /\ SpecPageKeys \subseteq DOMAIN q
        /\ \A x \in {"on", "spec", "held", "gone", "missed", "fetch", "trailing", "waiters",
                     "unmoved", "armed"} : q[x] = c.pages[s][x]
    BY <2>3 DEF SpecPageKeys
  <2>9. d = [c EXCEPT !.pages[s] = q]
    OBVIOUS
  <2> HIDE DEF d, q, s
  <2>5. /\ ButFor(c, d, s) /\ d.pages[s] = q /\ d.sends = c.sends
        /\ d.fired = c.fired /\ d.owed = c.owed
        /\ PagesOnly(c, d)
    BY <1>1, <2>1, <2>9, SetDown
  <2>6. ClientOk(d, files, X)
    BY <1>1, <2>1, <2>4, <2>5, PageTouched
  <2>7. QED
    BY <2>2, <2>5, <2>6
<1>3. CASE ~(c.shown # SpNone /\ Thinking(c, c.shown))
  <2>1. Rise(c) = c
    BY <1>3, Zenon DEF Rise
  <2>2. QED
    BY <2>1 DEF PagesOnly
<1>4. QED
  BY <1>2, <1>3

\* A prompt goes to a chat.
LEMMA SendKeeps ==
  ASSUME NEW c, NEW files, NEW X, ClientOk(c, files, X), NEW e, SentOk(e)
  PROVE  /\ ClientOk(SendPrompt(c, e), files, X)
         /\ \A x \in SpecKeys \ {"pages", "sends", "thinking"} : SendPrompt(c, e)[x] = c[x]
<1> DEFINE d == [c EXCEPT !.sends[e.chat] = Append(@, e), !.thinking = @ \cup {e.chat}]
<1>1. ClientShape(c) /\ \A ch \in SpecChats : SentQueue(c.sends[ch])
  BY Zenon DEF ClientOk
<1>2. d.sends = [c.sends EXCEPT ![e.chat] = Append(@, e)]
  BY <1>1 DEF ClientShape, SpecKeys, PagesOnly
<1>3. \A x \in SpecKeys \ {"sends", "thinking"} : d[x] = c[x]
  BY <1>1 DEF ClientShape, SpecKeys, PagesOnly
<1>4. SpecKeys \subseteq DOMAIN d
  BY <1>1 DEF ClientShape
<1>5. DOMAIN d.sends = SpecChats
  BY <1>1, <1>2 DEF ClientShape
<1>6. \A ch \in SpecChats : SentQueue(d.sends[ch])
  <2> TAKE ch \in SpecChats
  <2>1. CASE ch = e.chat
    <3>1. d.sends[ch] = Append(c.sends[ch], e)
      BY <1>1, <1>2, <2>1 DEF ClientShape
    <3>2. QED
      BY <1>1, <3>1, SentMore
  <2>2. CASE ch # e.chat
    <3>1. d.sends[ch] = c.sends[ch]
      BY <1>1, <1>2, <2>2 DEF ClientShape
    <3>2. QED
      BY <1>1, <3>1
  <2>3. QED
    BY <2>1, <2>2
<1> HIDE DEF d
<1>7. /\ d.pages = c.pages /\ d.due = c.due /\ d.owed = c.owed /\ d.fired = c.fired
      /\ d.asks = c.asks /\ d.shown = c.shown
  BY <1>3 DEF SpecKeys, PagesOnly
<1>8. ClientShape(d)
  BY <1>1, <1>4, <1>5, <1>7, Zenon DEF ClientShape
<1>9. ClientOk(d, files, X)
  BY <1>6, <1>7, <1>8, Zenon DEF ClientOk
<1>10. SendPrompt(c, e) = Rise(d)
  BY Zenon DEF SendPrompt, d
<1>11. /\ ClientOk(Rise(d), files, X)
       /\ PagesOnly(d, Rise(d))
  BY <1>9, RiseKeeps
<1>12. \A x \in SpecKeys \ {"pages", "sends", "thinking"} : Rise(d)[x] = c[x]
  BY <1>3, <1>11 DEF PagesOnly
<1>13. QED
  BY <1>10, <1>11, <1>12, Zenon

\* A run of all the tasks, one of which a checkpoint's answer may be owed.
LEMMA RunAllKeeps ==
  ASSUME NEW c, NEW files, NEW X, NEW s \in Specs, ClientOk(c, files, X),
         NEW arm \in Nat, Room(c, s, arm)
  PROVE  /\ ClientOk(RunAll(c, s, arm), files, X)
         /\ RunAll(c, s, arm).due = c.due
<1>1. /\ ClientShape(c) /\ \A ch \in SpecChats : SentQueue(c.sends[ch])
      /\ PageOk(c.pages[s], s, files[s].ver) /\ c.fired[s] \in Nat /\ c.owed[s] \in Nat
      /\ (s \notin X => PageCaughtUp(c.pages[s], files[s]))
  BY Zenon DEF ClientOk
<1>2. CASE c.pages[s].spec = <<>> \/ c.parent[s] = SpNone
  BY <1>2 DEF RunAll
<1>3. CASE ~(c.pages[s].spec = <<>> \/ c.parent[s] = SpNone)
  <2> DEFINE d == [c EXCEPT !.fired[s] = @ + arm]
             e == RunAllPrompt(c, s)
  <2>1. RunAll(c, s, arm) = SendPrompt(d, e)
    BY <1>3, Zenon DEF RunAll
  <2>2. SentOk(e)
    BY DEF SentOk, RunAllPrompt
  <2>3. /\ d.fired = [c.fired EXCEPT ![s] = @ + arm]
        /\ SpecKeys \subseteq DOMAIN d
        /\ \A x \in SpecKeys \ {"fired"} : d[x] = c[x]
    BY <1>1 DEF ClientShape, SpecKeys, PagesOnly
  <2>4. DOMAIN d.fired = Specs /\ d.fired[s] = c.fired[s] + arm
        /\ \A r \in Specs \ {s} : d.fired[r] = c.fired[r]
    BY <1>1, <2>3 DEF ClientShape
  <2> HIDE DEF d, e
  <2>5. /\ d.pages = c.pages /\ d.due = c.due /\ d.owed = c.owed /\ d.sends = c.sends
        /\ d.asks = c.asks /\ d.shown = c.shown
    BY <2>3 DEF SpecKeys, PagesOnly
  <2>6. ClientShape(d)
    BY <1>1, <2>3, <2>4, <2>5, Zenon DEF ClientShape
  <2>7. ButFor(c, d, s)
    BY <2>4, <2>5, <2>6, Zenon DEF ButFor
  <2>8. PICK S : c.due \in Seq(S)
    BY Zenon DEF ClientOk
  <2>9. ToCome(c.pages[s], c.due, s) \in Nat
    BY <1>1, <2>8, ToComeNat
  <2>10. d.fired[s] + ToCome(d.pages[s], d.due, s) <= d.owed[s]
    BY <1>1, <2>4, <2>5, <2>9 DEF Room
  <2>11. X \subseteq X \cup {s} /\ d.fired[s] \in Nat /\ d.owed[s] \in Nat
    BY <1>1, <2>4, <2>5
  <2>12. ClientOk(d, files, X)
    BY <1>1, <2>5, <2>7, <2>10, <2>11, OnePage
  <2>13. /\ ClientOk(SendPrompt(d, e), files, X)
         /\ \A x \in SpecKeys \ {"pages", "sends", "thinking"} : SendPrompt(d, e)[x] = d[x]
    BY <2>2, <2>12, SendKeeps
  <2>14. SendPrompt(d, e).due = c.due
    BY <2>5, <2>13 DEF SpecKeys, PagesOnly
  <2>15. QED
    BY <2>1, <2>13, <2>14
<1>4. QED
  BY <1>2, <1>3

\* An armed page runs its tasks, now or after the read that first finds them.
LEMMA FireKeeps ==
  ASSUME NEW c, NEW files, NEW X, NEW s \in Specs, ClientOk(c, files, X), c.pages[s].armed
  PROVE  /\ ClientOk(FireArmedRunAll(c, s), files, X)
         /\ FireArmedRunAll(c, s).due = c.due
<1> DEFINE p == c.pages[s]
           q == [p EXCEPT !.armed = FALSE]
           d == [c EXCEPT !.pages[s] = q]
           k == [kind |-> "all", page |-> s]
           v == files[s].ver
<1>1. /\ ClientShape(c) /\ PageOk(p, s, v) /\ \A ch \in SpecChats : SentQueue(c.sends[ch])
      /\ c.fired[s] \in Nat /\ c.owed[s] \in Nat
      /\ c.fired[s] + ToCome(p, c.due, s) <= c.owed[s]
      /\ (s \notin X => PageCaughtUp(p, files[s]))
  BY Zenon DEF ClientOk
<1>2. SpecPageKeys \subseteq DOMAIN p
  BY <1>1, Zenon DEF PageOk
<1>3. PICK S : c.due \in Seq(S)
  BY Zenon DEF ClientOk
<1>4. /\ q.on = p.on /\ q.spec = p.spec /\ q.held = p.held /\ q.gone = p.gone
      /\ q.missed = p.missed /\ q.fetch = p.fetch /\ q.trailing = p.trailing
      /\ q.waiters = p.waiters /\ q.unmoved = p.unmoved /\ q.armed = FALSE
      /\ SpecPageKeys \subseteq DOMAIN q
  BY <1>2 DEF SpecPageKeys
<1>5. d = [c EXCEPT !.pages[s] = q]
  OBVIOUS
<1>6. p.armed
  OBVIOUS
<1>7. FireArmedRunAll(c, s) = IF d.pages[s].spec = <<>> THEN Refetch(d, s, <<k>>) ELSE RunAll(d, s, 1)
  <2>1. d = [c EXCEPT !.pages[s].armed = FALSE]
    BY Zenon
  <2> HIDE DEF d
  <2>2. QED
    BY <2>1 DEF FireArmedRunAll
<1> HIDE DEF p, q, d, k, v
<1>8. /\ ButFor(c, d, s) /\ d.pages[s] = q /\ d.sends = c.sends
      /\ d.fired = c.fired /\ d.owed = c.owed
      /\ PagesOnly(c, d)
  <2>1. ClientShape(c)
    BY <1>1
  <2>2. QED
    BY <1>5, <2>1, SetDown
<1>9. d.due = c.due
  BY <1>8 DEF ButFor
<1>10. PageOk(q, s, v)
  BY <1>1, <1>4, Zenon DEF PageOk
<1>11. s \notin X => PageCaughtUp(q, files[s])
  BY <1>1, <1>4, Zenon DEF PageCaughtUp
<1>12. ToCome(p, c.due, s) \in Nat /\ ToCome(q, c.due, s) \in Nat
  BY <1>1, <1>3, <1>10, ToComeNat
<1>13. ToCome(p, c.due, s) = 1 + ToCome(q, c.due, s)
  <2> DEFINE n == IF p.fetch = <<>> THEN 0 ELSE Cardinality(RunsAllOf(p.fetch[1].then, s))
             m == Cardinality(RunsAllOf(p.waiters, s))
             h == Cardinality(RunsAllOf(c.due, s))
  <2>1. n \in Nat
    BY <1>1, AskingEach DEF PageOk, FetchOk
  <2>2. m \in Nat /\ h \in Nat
    BY <1>1, <1>3, AskingEach, RunsAllFinite DEF PageOk
  <2> HIDE DEF n, m, h
  <2>3. ToCome(p, c.due, s) = 1 + n + m + h
    BY <1>6, Zenon DEF ToCome, n, m, h
  <2>4. ToCome(q, c.due, s) = 0 + n + m + h
    <3>1. ~q.armed
      BY <1>4
    <3>2. QED
      BY <1>4, <3>1, Zenon DEF ToCome, n, m, h
  <2>5. QED
    BY <2>1, <2>2, <2>3, <2>4
<1>14. /\ d.fired[s] + ToCome(q, c.due, s) <= d.owed[s] /\ d.fired[s] \in Nat /\ d.owed[s] \in Nat
       /\ Room(d, s, 1)
  BY <1>1, <1>8, <1>9, <1>12, <1>13 DEF Room
<1>15. X \subseteq X \cup {s}
  OBVIOUS
<1>16. ClientOk(d, files, X)
  BY <1>1, <1>4, <1>8, <1>9, <1>10, <1>11, <1>14, <1>15, OnePage DEF p, v
<1>17. CASE d.pages[s].spec = <<>>
  <2>1. AskOk(k, s, v)
    BY DEF AskOk, k
  <2>2. Asking(<<k>>, s, v)
    BY <2>1, AskingOne
  <2>3. Cardinality(RunsAllOf(<<k>>, s)) = 1
    <3>1. k.kind = "all" /\ k.page = s
      BY DEF k
    <3>2. QED
      BY <3>1, RunsAllOne
  <2>4. Room(d, s, Cardinality(RunsAllOf(<<k>>, s)))
    BY <1>14, <2>3
  <2>5. /\ ClientOk(Refetch(d, s, <<k>>), files, X \ {s})
        /\ PagesOnly(d, Refetch(d, s, <<k>>))
    BY <1>16, <2>2, <2>4, RefetchAsks DEF v
  <2>6. ClientOk(Refetch(d, s, <<k>>), files, X)
    <3>1. X \ {s} \subseteq X
      OBVIOUS
    <3>2. QED
      BY <2>5, <3>1, MoreExempt
  <2>7. Refetch(d, s, <<k>>).due = c.due
    BY <1>9, <2>5 DEF SpecKeys, PagesOnly
  <2>8. QED
    BY <1>7, <1>17, <2>6, <2>7
<1>18. CASE d.pages[s].spec # <<>>
  <2>1. /\ ClientOk(RunAll(d, s, 1), files, X) /\ RunAll(d, s, 1).due = d.due
    BY <1>14, <1>16, RunAllKeeps
  <2>2. QED
    BY <1>7, <1>9, <1>18, <2>1
<1>19. QED
  BY <1>17, <1>18

\* A turn the page saw begin is over: the page reads, to say which boxes moved.
LEMMA SeenOverKeeps ==
  ASSUME NEW c, NEW files, NEW X, NEW s \in Specs, files = spsrv.files,
         files[s].ver \in Int, ClientOk(c, files, X)
  PROVE  /\ ClientOk(TurnSeenOver(c, s), files, X)
         /\ TurnSeenOver(c, s).due = c.due
         /\ (TurnSeenOver(c, s).pages[s].armed <=> c.pages[s].armed)
<1> DEFINE p == c.pages[s]
           q == [p EXCEPT !.dispatching = FALSE, !.dispatched = {}, !.busy = {}]
           d == [c EXCEPT !.pages[s] = q]
           k == [kind |-> "note", page |-> s, rows |-> p.dispatched, at |-> files[s].ver]
           v == files[s].ver
<1>1. CASE ~p.dispatching /\ p.dispatched = {} /\ p.busy = {}
  <2>1. TurnSeenOver(c, s) = c
    BY <1>1, Zenon DEF TurnSeenOver
  <2>2. QED
    BY <2>1
<1>2. CASE ~(~p.dispatching /\ p.dispatched = {} /\ p.busy = {})
  <2>1. TurnSeenOver(c, s) = Refetch(d, s, <<k>>)
    BY <1>2, Zenon DEF TurnSeenOver
  <2>2. /\ ClientShape(c) /\ PageOk(p, s, v) /\ \A ch \in SpecChats : SentQueue(c.sends[ch])
        /\ c.fired[s] \in Nat /\ c.owed[s] \in Nat
        /\ c.fired[s] + ToCome(p, c.due, s) <= c.owed[s]
    BY Zenon DEF ClientOk
  <2>3. SpecPageKeys \subseteq DOMAIN p
    BY <2>2, Zenon DEF PageOk
  <2>4. /\ SpecPageKeys \subseteq DOMAIN q
        /\ \A x \in {"on", "spec", "held", "gone", "missed", "fetch", "trailing", "waiters",
                     "unmoved", "armed"} : q[x] = p[x]
    BY <2>3 DEF SpecPageKeys
  <2>5. d = [c EXCEPT !.pages[s] = q]
    OBVIOUS
  <2>6. AskOk(k, s, v) /\ k.kind = "note"
    <3>1. v \in Int
      OBVIOUS
    <3>2. k.page = s /\ k.kind = "note" /\ k.at = v
      OBVIOUS
    <3> HIDE DEF k, v
    <3>3. QED
      BY <3>1, <3>2 DEF AskOk
  <2> HIDE DEF q, d, k
  <2>7. /\ ButFor(c, d, s) /\ d.pages[s] = q /\ d.sends = c.sends
        /\ d.fired = c.fired /\ d.owed = c.owed
        /\ PagesOnly(c, d)
    BY <2>2, <2>5, SetDown
  <2>8. ClientOk(d, files, X)
    BY <2>2, <2>4, <2>7, PageTouched
  <2>12. /\ ClientOk(Refetch(d, s, <<k>>), files, X \ {s})
         /\ PagesOnly(d, Refetch(d, s, <<k>>))
         /\ (Refetch(d, s, <<k>>).pages[s].armed <=> d.pages[s].armed)
    <3>1. AskOk(k, s, files[s].ver) /\ k.kind # "all"
      BY <2>6
    <3>2. QED
      BY <2>8, <3>1, RefetchFor
  <2>13. ClientOk(Refetch(d, s, <<k>>), files, X)
    <3>1. X \ {s} \subseteq X
      OBVIOUS
    <3>2. QED
      BY <2>12, <3>1, MoreExempt
  <2>14. Refetch(d, s, <<k>>).due = c.due
    BY <2>7, <2>12 DEF SpecKeys, PagesOnly
  <2>15. (d.pages[s].armed <=> p.armed)
    BY <2>4, <2>7
  <2>16. QED
    BY <2>1, <2>12, <2>13, <2>14, <2>15 DEF p
<1>3. QED
  BY <1>1, <1>2

\* The watched chat's edge.
LEMMA OnThinkingKeeps ==
  ASSUME NEW c, NEW files, NEW X, NEW s \in Specs, NEW now, files = spsrv.files,
         files[s].ver \in Int, ClientOk(c, files, X)
  PROVE  /\ ClientOk(OnThinking(c, s, now), files, X)
         /\ OnThinking(c, s, now).due = c.due
<1> DEFINE p == c.pages[s]
           q == [p EXCEPT !.last = now]
           d == [c EXCEPT !.pages[s] = q]
<1>1. /\ ClientShape(c) /\ PageOk(p, s, files[s].ver)
      /\ \A ch \in SpecChats : SentQueue(c.sends[ch])
  BY Zenon DEF ClientOk
<1>2. SpecPageKeys \subseteq DOMAIN p
  BY <1>1, Zenon DEF PageOk
<1>3. /\ SpecPageKeys \subseteq DOMAIN q
      /\ \A x \in {"on", "spec", "held", "gone", "missed", "fetch", "trailing", "waiters",
                   "unmoved", "armed"} : q[x] = p[x]
  BY <1>2 DEF SpecPageKeys
<1>4. d = [c EXCEPT !.pages[s] = q]
  OBVIOUS
<1>5. OnThinking(c, s, now) =
        IF p.last = now THEN c
        ELSE IF now THEN d
        ELSE IF p.armed THEN FireArmedRunAll(TurnSeenOver(d, s), s) ELSE TurnSeenOver(d, s)
  BY Zenon DEF OnThinking
<1> HIDE DEF q, d
<1>6. /\ ButFor(c, d, s) /\ d.pages[s] = q /\ d.sends = c.sends
      /\ d.fired = c.fired /\ d.owed = c.owed
      /\ PagesOnly(c, d)
  BY <1>1, <1>4, SetDown
<1>7. ClientOk(d, files, X)
  BY <1>1, <1>3, <1>6, PageTouched
<1>8. d.due = c.due /\ (d.pages[s].armed <=> p.armed)
  BY <1>3, <1>6 DEF SpecKeys, PagesOnly
<1> DEFINE over == TurnSeenOver(d, s)
<1>9. ClientOk(over, files, X) /\ over.due = c.due /\ (over.pages[s].armed <=> p.armed)
  BY <1>7, <1>8, SeenOverKeeps
<1>10. ASSUME p.armed
       PROVE  ClientOk(FireArmedRunAll(over, s), files, X)
              /\ FireArmedRunAll(over, s).due = c.due
  <2>1. over.pages[s].armed
    BY <1>9, <1>10
  <2> HIDE DEF over
  <2>2. QED
    BY <1>9, <2>1, FireKeeps
<1> HIDE DEF over
<1>11. OnThinking(c, s, now) \in {c, d, over} \/ (p.armed /\ OnThinking(c, s, now) = FireArmedRunAll(over, s))
  BY <1>5, Zenon DEF over
<1>12. QED
  BY <1>7, <1>8, <1>9, <1>10, <1>11

\* A page goes with its tab.
LEMMA ReleasedKeeps ==
  ASSUME NEW c, NEW files, NEW X, ClientOk(c, files, X)
  PROVE  /\ ClientOk(Released(c), files, X)
         /\ Released(c).due = c.due
<1> DEFINE d == Released(c)
           P == [s \in Specs |-> IF s \in c.open THEN c.pages[s] ELSE NoPage]
           w == IF c.shown \in c.open THEN c.shown ELSE SpNone
<1>1. /\ ClientShape(c) /\ \A ch \in SpecChats : SentQueue(c.sends[ch])
  BY Zenon DEF ClientOk
<1>2. d = [c EXCEPT !.pages = P, !.shown = w]
  BY <1>1, Zenon DEF Released
<1>3. /\ d.pages = P /\ d.shown = w /\ d.due = c.due /\ d.sends = c.sends /\ d.owed = c.owed
      /\ d.fired = c.fired /\ d.asks = c.asks /\ SpecKeys \subseteq DOMAIN d
  <2> HIDE DEF d, P, w
  <2>1. QED
    BY <1>1, <1>2 DEF ClientShape, SpecKeys, PagesOnly
<1>4. w \in Specs \cup {SpNone} /\ DOMAIN P = Specs
  BY <1>1 DEF ClientShape
<1>5. NoPage.spec = <<>> /\ NoPage.held = <<>> /\ NoPage.fetch = <<>> /\ NoPage.waiters = <<>>
      /\ NoPage.armed = FALSE /\ NoPage.on = FALSE /\ SpecPageKeys \subseteq DOMAIN NoPage
  BY DEF NoPage, NewPage, SpecPageKeys
<1>6. \A s \in Specs : PageOk(NoPage, s, files[s].ver) /\ PageCaughtUp(NoPage, files[s])
  BY <1>5, AskingNone DEF PageOk, PageCaughtUp, FetchOk, AtMostOne
<1>7. \A s \in Specs : P[s] = IF s \in c.open THEN c.pages[s] ELSE NoPage
  OBVIOUS
<1>8. PICK S : c.due \in Seq(S) /\ \A k \in S : DueOk(k, c.pages)
  BY Zenon DEF ClientOk
<1> HIDE DEF d, P, w
<1>9. ClientShape(d)
  BY <1>1, <1>3, <1>4 DEF ClientShape
<1>10. \A s \in Specs : /\ PageOk(d.pages[s], s, files[s].ver)
                        /\ s \notin X => PageCaughtUp(d.pages[s], files[s])
  BY <1>3, <1>6, <1>7, Zenon DEF ClientOk
<1>11. \A k \in S : DueOk(k, d.pages)
  BY <1>3, <1>5, <1>7, <1>8, Zenon DEF DueOk
<1>12. \A s \in Specs : /\ d.fired[s] \in Nat /\ d.owed[s] \in Nat
                        /\ d.fired[s] + ToCome(d.pages[s], d.due, s) <= d.owed[s]
  <2> TAKE s \in Specs
  <2>1. /\ c.fired[s] \in Nat /\ c.owed[s] \in Nat
        /\ c.fired[s] + ToCome(c.pages[s], c.due, s) <= c.owed[s]
        /\ PageOk(c.pages[s], s, files[s].ver)
    BY Zenon DEF ClientOk
  <2>2. CASE s \in c.open
    BY <1>3, <1>7, <2>1, <2>2
  <2>3. CASE s \notin c.open
    <3> DEFINE p == c.pages[s]
               n == (IF p.armed THEN 1 ELSE 0)
                      + (IF p.fetch = <<>> THEN 0 ELSE Cardinality(RunsAllOf(p.fetch[1].then, s)))
                      + Cardinality(RunsAllOf(p.waiters, s))
               h == Cardinality(RunsAllOf(c.due, s))
    <3>1. n \in Nat
      <4>1. Cardinality(RunsAllOf(p.waiters, s)) \in Nat
        BY <2>1, AskingEach DEF PageOk
      <4>2. p.fetch # <<>> => Cardinality(RunsAllOf(p.fetch[1].then, s)) \in Nat
        BY <2>1, AskingEach DEF PageOk, FetchOk
      <4>3. QED
        BY <4>1, <4>2
    <3>2. h \in Nat
      BY <1>8, RunsAllFinite
    <3>3. ToCome(p, c.due, s) = n + h
      BY DEF ToCome
    <3>4. d.pages[s] = NoPage
      BY <1>3, <1>7, <2>3
    <3> HIDE DEF n, h
    <3>5. ToCome(NoPage, c.due, s) = 0 + 0 + 0 + h
      BY <1>5, RunsAllNone DEF ToCome, h
    <3>6. QED
      BY <1>3, <2>1, <3>1, <3>2, <3>3, <3>4, <3>5
  <2>4. QED
    BY <2>2, <2>3
<1>13. ClientOk(d, files, X)
  BY <1>1, <1>3, <1>8, <1>9, <1>10, <1>11, <1>12, Zenon DEF ClientOk
<1>14. QED
  BY <1>3, <1>13 DEF d

\* The effect: pages of closed tabs go, and the shown one hears of its chat.
LEMMA EffectKeeps ==
  ASSUME NEW c, NEW files, NEW X, files = spsrv.files, \A s \in Specs : files[s].ver \in Int,
         ClientOk(c, files, X)
  PROVE  /\ ClientOk(Effect(c), files, X)
         /\ Effect(c).due = c.due
<1> DEFINE d == Released(c)
<1>1. ClientOk(d, files, X) /\ d.due = c.due
  BY ReleasedKeeps
<1>2. Effect(c) = IF d.shown = SpNone THEN d ELSE OnThinking(d, d.shown, Thinking(d, d.shown))
  BY Zenon DEF Effect
<1> HIDE DEF d
<1>3. CASE d.shown = SpNone
  BY <1>1, <1>2, <1>3
<1>4. CASE d.shown # SpNone
  <2>1. d.shown \in Specs
    BY <1>1, <1>4 DEF ClientOk, ClientShape
  <2>2. /\ ClientOk(OnThinking(d, d.shown, Thinking(d, d.shown)), files, X)
        /\ OnThinking(d, d.shown, Thinking(d, d.shown)).due = d.due
    BY <1>1, <2>1, OnThinkingKeeps
  <2>3. QED
    BY <1>1, <1>2, <1>4, <2>2
<1>5. QED
  BY <1>3, <1>4

----------------------------------------------------------------------------
(* A read is over.                                                         *)

\* What p read holds together.
SpecHeld(p) ==
    /\ AtMostOne(p.spec) /\ AtMostOne(p.held)
    /\ p.spec = p.held \/ (p.spec = <<>> /\ p.gone)
    /\ p.spec # <<>> => p.spec[1].ver \in Int /\ p.unmoved \subseteq Pending(p.spec[1])
    /\ p.held # <<>> => p.held[1].ver \in Int

\* What waited for a read goes on with what it read, or after it failed.
AnswersWaiting(q, then) ==
    \A i \in DOMAIN then :
        then[i].kind # "all" => (q.spec # <<>> => q.missed \/ q.spec[1].ver >= then[i].at)

\* The page a read leaves has what waited served, and the remembered read out.
LEMMA ReadOverKeeps ==
  ASSUME NEW c, NEW files, NEW X, NEW s \in Specs, ClientOk(c, files, X), NEW q,
         c.pages[s].fetch # <<>>,
         SpecPageKeys \subseteq DOMAIN q,
         q.fetch = c.pages[s].fetch, q.waiters = c.pages[s].waiters,
         q.armed <=> c.pages[s].armed,
         SpecHeld(q), AnswersWaiting(q, q.fetch[1].then),
         s \notin X /\ ~q.trailing /\ q.on =>
            q.missed \/ IF files[s].here THEN q.held = <<files[s]>> ELSE q.gone
  PROVE  ClientOk(SpReadOver(c, s, q), files, X)
<1> DEFINE p == c.pages[s]
           then == p.fetch[1].then
           w == p.waiters
           v == files[s].ver
           u == [q EXCEPT !.fetch = <<>>, !.trailing = FALSE, !.waiters = <<>>]
           d == [c EXCEPT !.pages[s] = u, !.due = then]
           Y == IF q.trailing THEN X \cup {s} ELSE X
<1>1. /\ ClientShape(c) /\ \A ch \in SpecChats : SentQueue(c.sends[ch])
      /\ PageOk(p, s, v)
      /\ c.fired[s] \in Nat /\ c.owed[s] \in Nat
      /\ c.fired[s] + ToCome(p, c.due, s) <= c.owed[s]
  BY Zenon DEF ClientOk
<1>2. PICK S : c.due \in Seq(S)
  BY Zenon DEF ClientOk
<1>3. Asking(w, s, v)
  BY <1>1, Zenon DEF PageOk
<1>4. Asking(then, s, v)
  BY <1>1, Zenon DEF PageOk, FetchOk
<1>5. \A k \in Specs : Cardinality(RunsAllOf(then, k)) \in Nat /\ Cardinality(RunsAllOf(w, k)) \in Nat
                         /\ Cardinality(RunsAllOf(c.due, k)) \in Nat
  BY <1>2, <1>3, <1>4, AskingEach, RunsAllFinite
<1>6. /\ u.on = q.on /\ u.spec = q.spec /\ u.held = q.held /\ u.gone = q.gone
      /\ u.missed = q.missed /\ u.fetch = <<>> /\ u.trailing = FALSE
      /\ u.waiters = <<>> /\ u.unmoved = q.unmoved /\ (u.armed <=> q.armed)
      /\ SpecPageKeys \subseteq DOMAIN u
  BY DEF SpecPageKeys
<1>7. SpReadOver(c, s, q) = IF q.trailing THEN Refetch(d, s, w) ELSE d
  BY Zenon DEF SpReadOver
<1>8. d = [c EXCEPT !.pages[s] = u, !.due = then]
  OBVIOUS
<1> HIDE DEF u, d, then, w, v
<1>9. /\ d.due = then
      /\ d.pages = [c.pages EXCEPT ![s] = u]
      /\ SpecKeys \subseteq DOMAIN d
      /\ \A x \in SpecKeys \ {"pages", "due"} : d[x] = c[x]
  <2>1. SpecKeys \subseteq DOMAIN c
    BY <1>1 DEF ClientShape
  <2>2. QED
    BY <1>8, <2>1 DEF SpecKeys
<1>10. /\ d.sends = c.sends /\ d.owed = c.owed /\ d.fired = c.fired
       /\ d.shown = c.shown /\ d.asks = c.asks
  BY <1>9 DEF SpecKeys
<1>11. d.pages[s] = u /\ DOMAIN d.pages = Specs /\ \A r \in Specs \ {s} : d.pages[r] = c.pages[r]
  BY <1>1, <1>9 DEF ClientShape
<1>12. ClientShape(d)
  BY <1>1, <1>9, <1>10, <1>11, Zenon DEF ClientShape
<1>13. PageOk(u, s, v)
  BY <1>6, AskingNone DEF PageOk, SpecHeld, FetchOk
<1>14. s \notin Y => PageCaughtUp(u, files[s])
  BY <1>6, Zenon DEF PageCaughtUp
<1>15. \E T : d.due \in Seq(T) /\ \A k \in T : DueOk(k, d.pages)
  <2> DEFINE T == {then[i] : i \in DOMAIN then}
  <2>1. then \in Seq(T)
    <3>1. PICK U : then \in Seq(U)
      BY <1>4, AskingEach
    <3>2. QED
      BY <3>1
  <2>2. \A i \in DOMAIN then : AskOk(then[i], s, v)
    BY <1>4, AskingEach
  <2>3. AnswersWaiting(q, then)
    BY DEF then
  <2>4. \A i \in DOMAIN then : DueOk(then[i], d.pages)
    <3> TAKE i \in DOMAIN then
    <3>1. then[i].page = s /\ then[i].kind \in {"note", "task", "all"}
      BY <2>2 DEF AskOk
    <3>2. then[i].kind # "all" => (u.spec # <<>> => u.missed \/ u.spec[1].ver >= then[i].at)
      BY <1>6, <2>3, Zenon DEF AnswersWaiting
    <3>3. d.pages[then[i].page] = u
      BY <1>11, <3>1
    <3>4. QED
      BY <3>1, <3>2, <3>3, Zenon DEF DueOk
  <2>5. \A k \in T : DueOk(k, d.pages)
    BY <2>4
  <2> HIDE DEF T
  <2>6. QED
    BY <1>9, <2>1, <2>5, Zenon
<1>16. /\ Room(d, s, Cardinality(RunsAllOf(w, s)))
       /\ d.fired[s] + ToCome(u, then, s) <= d.owed[s]
  <2> DEFINE a == IF p.armed THEN 1 ELSE 0
  <2>1. a \in Nat
    OBVIOUS
  <2> HIDE DEF a
  <2>2. ToCome(p, c.due, s) = a + Cardinality(RunsAllOf(then, s))
                                + Cardinality(RunsAllOf(w, s)) + Cardinality(RunsAllOf(c.due, s))
    BY Zenon DEF ToCome, then, w, a
  <2>3. ToCome(u, then, s) = a + 0 + Cardinality(RunsAllOf(<<>>, s)) + Cardinality(RunsAllOf(then, s))
    <3>1. u.armed <=> p.armed
      BY <1>6
    <3>2. QED
      BY <1>6, <3>1, Zenon DEF ToCome, a
  <2>4. Cardinality(RunsAllOf(<<>>, s)) = 0
    BY RunsAllNone
  <2> HIDE DEF p
  <2>5. d.fired[s] = c.fired[s] /\ d.owed[s] = c.owed[s] /\ d.pages[s] = u /\ d.due = then
    BY <1>9, <1>10, <1>11
  <2> DEFINE n == Cardinality(RunsAllOf(then, s))
             m == Cardinality(RunsAllOf(w, s))
             h == Cardinality(RunsAllOf(c.due, s))
  <2>6. n \in Nat /\ m \in Nat /\ h \in Nat
    BY <1>5
  <2> HIDE DEF n, m, h
  <2>7. c.fired[s] + (a + n + m + h) <= c.owed[s]
    BY <1>1, <2>2 DEF n, m, h
  <2>8. ToCome(u, then, s) = a + n
    BY <2>1, <2>3, <2>4, <2>6 DEF n
  <2>9. c.fired[s] + m + ToCome(u, then, s) <= c.owed[s] /\ c.fired[s] + ToCome(u, then, s) <= c.owed[s]
    BY <1>1, <2>1, <2>6, <2>7, <2>8
  <2>10. QED
    BY <2>5, <2>9, Zenon DEF Room, m
<1>17. \A r \in Specs : /\ d.fired[r] \in Nat /\ d.owed[r] \in Nat
                        /\ d.fired[r] + ToCome(d.pages[r], d.due, r) <= d.owed[r]
  <2> TAKE r \in Specs
  <2>1. CASE r = s
    BY <1>1, <1>9, <1>10, <1>11, <1>16, <2>1
  <2>2. CASE r # s
    <3>1. /\ c.fired[r] \in Nat /\ c.owed[r] \in Nat
          /\ c.fired[r] + ToCome(c.pages[r], c.due, r) <= c.owed[r]
          /\ PageOk(c.pages[r], r, files[r].ver)
      BY Zenon DEF ClientOk
    <3>2. Cardinality(RunsAllOf(then, r)) = 0
      <4>1. \A i \in DOMAIN then : then[i].page = s
        BY <1>4, AskingEach DEF AskOk
      <4>2. RunsAllOf(then, r) = {}
        BY <2>2, <4>1 DEF RunsAllOf
      <4>3. QED
        BY <4>2, FS_EmptySet
    <3> DEFINE n == (IF c.pages[r].armed THEN 1 ELSE 0)
                      + (IF c.pages[r].fetch = <<>> THEN 0
                         ELSE Cardinality(RunsAllOf(c.pages[r].fetch[1].then, r)))
                      + Cardinality(RunsAllOf(c.pages[r].waiters, r))
    <3>3. n \in Nat
      <4>1. Cardinality(RunsAllOf(c.pages[r].waiters, r)) \in Nat
        BY <3>1, AskingEach DEF PageOk
      <4>2. c.pages[r].fetch # <<>> => Cardinality(RunsAllOf(c.pages[r].fetch[1].then, r)) \in Nat
        BY <3>1, AskingEach DEF PageOk, FetchOk
      <4>3. QED
        BY <4>1, <4>2
    <3>4. /\ ToCome(c.pages[r], c.due, r) = n + Cardinality(RunsAllOf(c.due, r))
          /\ ToCome(c.pages[r], then, r) = n + Cardinality(RunsAllOf(then, r))
      BY Zenon DEF ToCome
    <3> HIDE DEF n
    <3>5. ToCome(d.pages[r], d.due, r) <= ToCome(c.pages[r], c.due, r)
          /\ ToCome(d.pages[r], d.due, r) \in Nat /\ ToCome(c.pages[r], c.due, r) \in Nat
      BY <1>5, <1>9, <1>11, <2>2, <3>2, <3>3, <3>4
    <3>6. QED
      BY <1>10, <3>1, <3>5
  <2>3. QED
    BY <2>1, <2>2
<1>18. ClientOk(d, files, Y)
  <2>1. \A r \in Specs : PageOk(d.pages[r], r, files[r].ver)
    BY <1>11, <1>13 DEF ClientOk, v
  <2>2. \A r \in Specs : r \notin Y => PageCaughtUp(d.pages[r], files[r])
    BY <1>11, <1>14 DEF ClientOk
  <2> HIDE DEF Y
  <2>3. QED
    BY <1>1, <1>10, <1>12, <1>15, <1>17, <2>1, <2>2, Zenon DEF ClientOk
<1>19. CASE q.trailing
  <2>1. ClientOk(Refetch(d, s, w), files, Y \ {s})
    BY <1>3, <1>16, <1>18, RefetchAsks DEF v
  <2>2. Y \ {s} \subseteq X
    BY <1>19
  <2> HIDE DEF Y
  <2>3. QED
    BY <1>7, <1>19, <2>1, <2>2, MoreExempt
<1>20. CASE ~q.trailing
  BY <1>7, <1>18, <1>20
<1>21. QED
  BY <1>19, <1>20

\* The reply that lands, whichever it is.
LEMMA LandedHolds ==
  ASSUME NEW p, NEW s, NEW v, PageOk(p, s, v), NEW doc, doc.ver \in Int
  PROVE  LET q == Landed(p, doc)
         IN  /\ SpecPageKeys \subseteq DOMAIN q
             /\ q.fetch = p.fetch /\ q.waiters = p.waiters /\ (q.armed <=> p.armed)
             /\ SpecHeld(q)
             /\ q.spec # <<>> => q.spec = <<doc>>
             /\ IF doc.here THEN q.held = <<doc>> ELSE q.gone
<1> DEFINE q == Landed(p, doc)
<1>1. SpecPageKeys \subseteq DOMAIN p /\ SpecHeld(p)
  BY Zenon DEF PageOk, SpecHeld
<1>2. CASE ~doc.here
  <2>1. q = [p EXCEPT !.gone = TRUE, !.spec = <<>>, !.held = <<>>, !.missed = FALSE]
    BY <1>2, Zenon DEF Landed
  <2> HIDE DEF q
  <2>2. /\ q.gone /\ q.spec = <<>> /\ q.held = <<>> /\ q.fetch = p.fetch /\ q.waiters = p.waiters
        /\ (q.armed <=> p.armed) /\ SpecPageKeys \subseteq DOMAIN q
    BY <1>1, <2>1 DEF SpecPageKeys
  <2>3. SpecHeld(q)
    BY <2>2 DEF SpecHeld, AtMostOne
  <2>4. QED
    BY <1>2, <2>2, <2>3 DEF q
<1>3. CASE doc.here /\ p.held = <<doc>>
  <2>1. q = [p EXCEPT !.missed = FALSE]
    BY <1>3, Zenon DEF Landed
  <2> HIDE DEF q
  <2>2. /\ q.gone = p.gone /\ q.spec = p.spec /\ q.held = p.held /\ q.unmoved = p.unmoved
        /\ q.fetch = p.fetch /\ q.waiters = p.waiters
        /\ (q.armed <=> p.armed) /\ SpecPageKeys \subseteq DOMAIN q
    BY <1>1, <2>1 DEF SpecPageKeys
  <2>3. SpecHeld(q)
    BY <1>1, <2>2, Zenon DEF SpecHeld
  <2>4. q.spec # <<>> => q.spec = <<doc>>
    BY <1>1, <1>3, <2>2, Zenon DEF SpecHeld
  <2>5. QED
    BY <1>3, <2>2, <2>3, <2>4 DEF q
<1>4. CASE doc.here /\ p.held # <<doc>>
  <2>1. q = [[p EXCEPT !.gone = FALSE, !.spec = <<doc>>, !.held = <<doc>>,
                       !.dispatched = @ \cap Pending(doc), !.unmoved = @ \cap Pending(doc)]
             EXCEPT !.missed = FALSE]
    BY <1>4, Zenon DEF Landed, AdoptSpec
  <2> HIDE DEF q
  <2>2. /\ q.spec = <<doc>> /\ q.held = <<doc>> /\ q.unmoved = p.unmoved \cap Pending(doc)
        /\ q.fetch = p.fetch /\ q.waiters = p.waiters
        /\ (q.armed <=> p.armed) /\ SpecPageKeys \subseteq DOMAIN q
    BY <1>1, <2>1 DEF SpecPageKeys
  <2>3. SpecHeld(q)
    <3>1. q.spec[1] = doc /\ q.held[1] = doc /\ q.unmoved \subseteq Pending(q.spec[1])
      BY <2>2
    <3>2. QED
      BY <2>2, <3>1 DEF SpecHeld, AtMostOne
  <2>4. QED
    BY <1>4, <2>2, <2>3 DEF q
<1>5. QED
  BY <1>2, <1>3, <1>4

----------------------------------------------------------------------------
(* What goes on after an answer.                                           *)

\* What an answer may change of a page: what it says is gone, and its marks.
ToldPage(p, q) ==
    /\ SpecPageKeys \subseteq DOMAIN q
    /\ \A x \in {"on", "held", "missed", "fetch", "trailing", "waiters", "armed"} : q[x] = p[x]
    /\ \/ q.spec = <<>> /\ q.gone
       \/ /\ q.spec = p.spec /\ q.gone = p.gone
          /\ p.spec # <<>> => q.unmoved \subseteq p.unmoved \cup Pending(p.spec[1])

\* A page changes in its gone flag and its marks, in ways an answer may.
LEMMA PageTold ==
  ASSUME NEW c, NEW d, NEW files, NEW X, NEW s \in Specs, ClientOk(c, files, X),
         ButFor(c, d, s), d.fired[s] = c.fired[s], d.owed[s] = c.owed[s], d.sends = c.sends,
         ToldPage(c.pages[s], d.pages[s])
  PROVE  ClientOk(d, files, X)
<1> DEFINE p == c.pages[s]
           q == d.pages[s]
<1>1. /\ q.on = p.on /\ q.held = p.held
      /\ q.missed = p.missed /\ q.fetch = p.fetch /\ q.trailing = p.trailing
      /\ q.waiters = p.waiters /\ q.armed = p.armed
  BY DEF ToldPage
<1>2. PageOk(p, s, files[s].ver) /\ (s \notin X => PageCaughtUp(p, files[s]))
  BY Zenon DEF ClientOk
<1>3. SpecPageKeys \subseteq DOMAIN q
  BY Zenon DEF ToldPage
<1>4. /\ c.fired[s] \in Nat /\ c.owed[s] \in Nat
      /\ c.fired[s] + ToCome(p, c.due, s) <= c.owed[s]
      /\ \A ch \in SpecChats : SentQueue(c.sends[ch])
  BY Zenon DEF ClientOk
<1>5. d.due = c.due
  BY DEF ButFor
<1>6. \/ q.spec = <<>> /\ q.gone = TRUE
      \/ /\ q.spec = p.spec /\ q.gone = p.gone
         /\ p.spec # <<>> => q.unmoved \subseteq p.unmoved \cup Pending(p.spec[1])
  BY Zenon DEF ToldPage
<1> HIDE DEF p, q
<1>7. PageOk(q, s, files[s].ver)
  <2>1. CASE q.spec = <<>> /\ q.gone
    BY <1>1, <1>2, <1>3, <2>1, Zenon DEF PageOk, AtMostOne
  <2>2. CASE q.spec = p.spec /\ q.gone = p.gone
             /\ (p.spec # <<>> => q.unmoved \subseteq p.unmoved \cup Pending(p.spec[1]))
    <3>1. p.spec # <<>> => q.unmoved \subseteq Pending(p.spec[1])
      BY <1>2, <2>2 DEF PageOk
    <3>2. QED
      BY <1>1, <1>2, <1>3, <2>2, <3>1, Zenon DEF PageOk
  <2>3. QED
    BY <1>6, <2>1, <2>2
<1>8. s \notin X => PageCaughtUp(q, files[s])
  BY <1>1, <1>2, <1>6, Zenon DEF PageCaughtUp
<1>9. ToCome(q, c.due, s) = ToCome(p, c.due, s)
  BY <1>1, Zenon DEF ToCome
<1>10. d.fired[s] + ToCome(q, d.due, s) <= d.owed[s]
  BY <1>4, <1>5, <1>9
<1>11. d.fired[s] \in Nat /\ d.owed[s] \in Nat
  BY <1>4
<1>12. q.spec = <<>> \/ (q.spec = p.spec /\ q.missed = p.missed)
  BY <1>1, <1>6
<1>13. X \subseteq X \cup {s}
  OBVIOUS
<1>14. QED
  BY <1>4, <1>7, <1>8, <1>10, <1>11, <1>12, <1>13, OnePage DEF p, q

\* Such a page is set down in place of another.
LEMMA SetDownTold ==
  ASSUME NEW c, NEW files, NEW X, NEW s \in Specs, ClientOk(c, files, X), NEW q,
         ToldPage(c.pages[s], q)
  PROVE  LET d == [c EXCEPT !.pages[s] = q] IN ClientOk(d, files, X) /\ d.due = c.due
<1> DEFINE d == [c EXCEPT !.pages[s] = q]
<1>1. ClientShape(c)
  BY Zenon DEF ClientOk
<1>2. d = [c EXCEPT !.pages[s] = q]
  OBVIOUS
<1> HIDE DEF d
<1>3. /\ ButFor(c, d, s) /\ d.pages[s] = q /\ d.sends = c.sends
      /\ d.fired = c.fired /\ d.owed = c.owed
  BY <1>1, <1>2, SetDown
<1>4. ClientOk(d, files, X)
  BY <1>3, PageTold
<1>5. QED
  BY <1>3, <1>4 DEF d, ButFor

\* A prompt's answer is told to its page.
LEMMA ResultKeeps ==
  ASSUME NEW c, NEW files, NEW X, ClientOk(c, files, X), NEW e, SentOk(e), e.res # SpNone
  PROVE  ClientOk(ApplyResult(c, e), files, X) /\ ApplyResult(c, e).due = c.due
<1> DEFINE s == e.page
           p == c.pages[s]
           sent == [p EXCEPT !.unmoved = @ \ {e.row}, !.dispatched = @ \cup {e.row},
                             !.dispatching = TRUE]
           held == [p EXCEPT !.busy = @ \cup {e.row}]
           gone == [p EXCEPT !.gone = TRUE, !.spec = <<>>]
<1>1. s \in Specs /\ e.res \in {"sent", "queued", "starting", "gone", "failed"}
  BY DEF SentOk
<1>2. ClientShape(c)
  BY Zenon DEF ClientOk
<1>3. SpecPageKeys \subseteq DOMAIN p
  BY <1>1, Zenon DEF ClientOk, PageOk
<1>4. ApplyResult(c, e) \in {c, [c EXCEPT !.pages[s] = sent], [c EXCEPT !.pages[s] = held],
                             [c EXCEPT !.pages[s] = gone]}
  <2>1. CASE ~p.on
    <3>1. ApplyResult(c, e) = c
      BY <2>1, Zenon DEF ApplyResult
    <3>2. QED
      BY <3>1
  <2>2. CASE p.on
    <3>1. CASE e.res = "sent"
      <4>1. ApplyResult(c, e) = [c EXCEPT !.pages[s] = sent]
        BY <2>2, <3>1, Zenon DEF ApplyResult
      <4> HIDE DEF sent, held, gone, s
      <4>2. QED
        BY <4>1
    <3>2. CASE e.res \in {"queued", "starting"}
      <4>1. ApplyResult(c, e) = [c EXCEPT !.pages[s] = held]
        BY <2>2, <3>2, Zenon DEF ApplyResult
      <4> HIDE DEF sent, held, gone, s
      <4>2. QED
        BY <4>1
    <3>3. CASE e.res = "gone"
      <4>1. ApplyResult(c, e) = [c EXCEPT !.pages[s] = gone]
        BY <2>2, <3>3, Zenon DEF ApplyResult
      <4> HIDE DEF sent, held, gone, s
      <4>2. QED
        BY <4>1
    <3>4. CASE e.res = "failed"
      <4>1. ApplyResult(c, e) = c
        BY <2>2, <3>4, Zenon DEF ApplyResult
      <4>2. QED
        BY <4>1
    <3>5. QED
      BY <1>1, <3>1, <3>2, <3>3, <3>4
  <2>3. QED
    BY <2>1, <2>2
<1>5. ToldPage(p, sent) /\ ToldPage(p, held) /\ ToldPage(p, gone)
  <2>1. ToldPage(p, sent)
    BY <1>3 DEF SpecPageKeys, ToldPage
  <2>2. ToldPage(p, held)
    BY <1>3 DEF SpecPageKeys, ToldPage
  <2>3. ToldPage(p, gone)
    BY <1>3 DEF SpecPageKeys, ToldPage
  <2>4. QED
    BY <2>1, <2>2, <2>3
<1>6. ASSUME NEW q, ToldPage(p, q)
      PROVE  LET d == [c EXCEPT !.pages[s] = q] IN ClientOk(d, files, X) /\ d.due = c.due
  <2> HIDE DEF s
  <2>1. QED
    BY <1>1, <1>6, SetDownTold
<1> HIDE DEF sent, held, gone, s, p
<1>7. QED
  BY <1>4, <1>5, <1>6

\* The marks that say a box did not move are taken from the page as it is.
LEMMA NoteKeeps ==
  ASSUME NEW c, NEW files, NEW X, ClientOk(c, files, X), NEW k, k.page \in Specs
  PROVE  ClientOk(NoteUnmoved(c, k), files, X)
<1> DEFINE s == k.page
           p == c.pages[s]
           q == [p EXCEPT !.unmoved = @ \cup (k.rows \cap Pending(p.spec[1]))]
           d == [c EXCEPT !.pages[s] = q]
<1>1. CASE p.spec = <<>>
  BY <1>1, Zenon DEF NoteUnmoved
<1>2. CASE p.spec # <<>>
  <2>1. NoteUnmoved(c, k) = d
    BY <1>2, Zenon DEF NoteUnmoved
  <2>2. ClientShape(c) /\ SpecPageKeys \subseteq DOMAIN p
    BY Zenon DEF ClientOk, PageOk
  <2>3. ToldPage(p, q)
    BY <2>2 DEF SpecPageKeys, ToldPage
  <2>4. s \in Specs /\ NoteUnmoved(c, k) = [c EXCEPT !.pages[s] = q]
    BY <2>1
  <2> HIDE DEF q, s, d, p
  <2>5. ToldPage(c.pages[s], q)
    BY <2>3 DEF p
  <2>6. QED
    BY <2>4, <2>5, SetDownTold
<1>3. QED
  BY <1>1, <1>2

\* A task goes out as it was picked, and as its page read it after the click.
LEMMA TaskKeeps ==
  ASSUME NEW c, NEW files, NEW X, ClientOk(c, files, X), NEW k, DueOk(k, c.pages), k.kind = "task"
  PROVE  ClientOk(RunTask(c, k), files, X)
<1> DEFINE p == c.pages[k.page]
           e == TaskPrompt(p, k)
<1>1. CASE ~p.on \/ p.spec = <<>> \/ ~Eligible(c, k, p.spec[1])
  BY <1>1, Zenon DEF RunTask
<1>2. CASE ~(~p.on \/ p.spec = <<>> \/ ~Eligible(c, k, p.spec[1]))
  <2>1. RunTask(c, k) = SendPrompt(c, e)
    BY <1>2, Zenon DEF RunTask
  <2>2. p.spec[1].text[k.row] = k.text
    BY <1>2 DEF Eligible
  <2>3. k.page \in Specs /\ (p.missed \/ p.spec[1].ver >= k.at)
    BY <1>2 DEF DueOk
  <2>4. /\ e.page = k.page /\ e.res = SpNone /\ e.text = p.spec[1].text[k.row] /\ e.picked = k.text
        /\ e.at = k.at /\ e.read = p.spec[1].ver /\ (e.missed <=> p.missed)
        /\ {"page", "row", "chat", "res"} \subseteq DOMAIN e
        /\ {"text", "picked", "at", "read", "missed"} \subseteq DOMAIN e
    BY DEF TaskPrompt
  <2> HIDE DEF e, p
  <2>5. SentOk(e)
    BY <2>2, <2>3, <2>4 DEF SentOk
  <2>6. QED
    BY <2>1, <2>5, SendKeeps
<1>3. QED
  BY <1>1, <1>2

\* The first of what waits its turn is taken from the queue.
LEMMA DueTaken ==
  ASSUME NEW c, NEW files, NEW X, ClientOk(c, files, X), c.due # <<>>
  PROVE  LET d == [c EXCEPT !.due = Tail(@)]
             k == Head(c.due)
         IN  /\ ClientOk(d, files, X) /\ DueOk(k, d.pages)
             /\ k.kind = "all" => Room(d, k.page, 1)
<1> DEFINE d == [c EXCEPT !.due = Tail(@)]
           k == Head(c.due)
<1>1. ClientShape(c) /\ \A ch \in SpecChats : SentQueue(c.sends[ch])
  BY Zenon DEF ClientOk
<1>2. PICK S : c.due \in Seq(S) /\ \A x \in S : DueOk(x, c.pages)
  BY Zenon DEF ClientOk
<1>3. /\ d.due = Tail(c.due) /\ d.pages = c.pages /\ d.sends = c.sends /\ d.owed = c.owed
      /\ d.fired = c.fired /\ d.shown = c.shown /\ d.asks = c.asks /\ SpecKeys \subseteq DOMAIN d
  BY <1>1 DEF ClientShape, SpecKeys
<1>4. Tail(c.due) \in Seq(S) /\ k \in S
  BY <1>2
<1>5. DueOk(k, d.pages)
  BY <1>2, <1>3, <1>4
<1> HIDE DEF d, k
<1>6. ClientShape(d)
  BY <1>1, <1>3 DEF ClientShape
<1>7. \A r \in Specs : /\ c.fired[r] \in Nat /\ c.owed[r] \in Nat
                       /\ d.fired[r] + (IF k.kind = "all" /\ k.page = r THEN 1 ELSE 0)
                            + ToCome(d.pages[r], d.due, r) <= d.owed[r]
                       /\ ToCome(d.pages[r], d.due, r) \in Nat
  <2> TAKE r \in Specs
  <2>1. /\ c.fired[r] \in Nat /\ c.owed[r] \in Nat
        /\ c.fired[r] + ToCome(c.pages[r], c.due, r) <= c.owed[r]
        /\ PageOk(c.pages[r], r, files[r].ver)
    BY Zenon DEF ClientOk
  <2> DEFINE n == (IF c.pages[r].armed THEN 1 ELSE 0)
                    + (IF c.pages[r].fetch = <<>> THEN 0
                       ELSE Cardinality(RunsAllOf(c.pages[r].fetch[1].then, r)))
                    + Cardinality(RunsAllOf(c.pages[r].waiters, r))
             a == IF k.kind = "all" /\ k.page = r THEN 1 ELSE 0
             h == Cardinality(RunsAllOf(Tail(c.due), r))
  <2>2. n \in Nat
    <3>1. Cardinality(RunsAllOf(c.pages[r].waiters, r)) \in Nat
      BY <2>1, AskingEach DEF PageOk
    <3>2. c.pages[r].fetch # <<>> => Cardinality(RunsAllOf(c.pages[r].fetch[1].then, r)) \in Nat
      BY <2>1, AskingEach DEF PageOk, FetchOk
    <3>3. QED
      BY <3>1, <3>2
  <2>3. a \in Nat /\ h \in Nat
    BY <1>4, RunsAllFinite
  <2>4. Cardinality(RunsAllOf(c.due, r)) = a + h
    BY <1>2, RunsAllTail DEF k
  <2>5. /\ ToCome(c.pages[r], c.due, r) = n + Cardinality(RunsAllOf(c.due, r))
        /\ ToCome(c.pages[r], Tail(c.due), r) = n + h
    BY Zenon DEF ToCome
  <2> HIDE DEF n, h, a
  <2>6. ToCome(d.pages[r], d.due, r) = n + h
    BY <1>3, <2>5
  <2>7. d.fired[r] + a + (n + h) <= d.owed[r]
    BY <1>3, <2>1, <2>2, <2>3, <2>4, <2>5
  <2>8. d.fired[r] + a + ToCome(d.pages[r], d.due, r) <= d.owed[r]
        /\ ToCome(d.pages[r], d.due, r) \in Nat
    BY <2>2, <2>3, <2>6, <2>7
  <2>9. QED
    BY <2>1, <2>8 DEF a
<1>8. ClientOk(d, files, X)
  <2>1. \A r \in Specs : /\ d.fired[r] \in Nat /\ d.owed[r] \in Nat
                         /\ d.fired[r] + ToCome(d.pages[r], d.due, r) <= d.owed[r]
    BY <1>3, <1>7
  <2>2. \E T : d.due \in Seq(T) /\ \A x \in T : DueOk(x, d.pages)
    BY <1>2, <1>3, <1>4, Zenon
  <2>3. QED
    BY <1>1, <1>3, <1>6, <2>1, <2>2, Zenon DEF ClientOk
<1>9. k.kind = "all" => Room(d, k.page, 1)
  <2>1. k.page \in Specs
    BY <1>5 DEF DueOk
  <2>2. QED
    BY <1>7, <2>1 DEF Room
<1>10. QED
  BY <1>5, <1>8, <1>9 DEF d, k

----------------------------------------------------------------------------
(* The reader's steps.                                                     *)

\* The pages that may be behind their files: a frame is on its way, or was lost.
Behind == spsrv.frames \cup spsrv.lost

\* What the invariant says of the client and of the files.
LEMMA SpecInvParts ==
  ASSUME SpecInv
  PROVE  /\ ClientOk(sp, spsrv.files, Behind) /\ ClientShape(sp)
         /\ FilesOk /\ \A s \in Specs : spsrv.files[s].ver \in Int
BY Zenon DEF SpecInv, FilesOk, ClientOk, Behind

\* A step of the client alone.
LEMMA ClientStep ==
  ASSUME FilesOk, spsrv' = spsrv, ClientOk(sp', spsrv.files, Behind)
  PROVE  SpecInv'
<1>1. FilesOk'
  BY DEF FilesOk
<1>2. ClientOk(sp', spsrv'.files, spsrv'.frames \cup spsrv'.lost)
  BY DEF Behind
<1>3. QED
  BY <1>1, <1>2 DEF SpecInv, ClientOk, ClientShape, PageOk, PageCaughtUp, DueOk, ToCome, FetchOk, RunsAllOf,
                    Asking, AskOk, SentQueue, SentOk, AtMostOne, Pending

\* showSpec, of a new page or of one there is.
LEMMA ShowKeeps ==
  ASSUME SpecInv, NEW s \in Specs, SpShow(s)
  PROVE  SpecInv'
<1> DEFINE F == spsrv.files
           X == Behind
           fresh == [sp EXCEPT !.pages[s] = NewPage, !.open = @ \cup {s}]
           known == IF sp.pages[s].on THEN sp ELSE fresh
           d == [known EXCEPT !.shown = s, !.away = FALSE]
           e == Effect(d)
<1>1. /\ ClientOk(sp, F, X) /\ ClientShape(sp) /\ FilesOk /\ \A r \in Specs : F[r].ver \in Int
  BY SpecInvParts
<1>2. spsrv' = spsrv /\ sp' = Refetch(e, s, <<>>) /\ sp.due = <<>>
  BY Zenon DEF SpShow, SpFree
<1>3. ClientOk(known, F, X \cup {s}) /\ ClientShape(known)
  <2>1. CASE sp.pages[s].on
    <3>1. X \subseteq X \cup {s} /\ known = sp
      BY <2>1
    <3> HIDE DEF known, X
    <3>2. QED
      BY <1>1, <3>1, MoreExempt
  <2>2. CASE ~sp.pages[s].on
    <3>1. /\ ButFor(sp, fresh, s) /\ fresh.pages[s] = NewPage /\ fresh.sends = sp.sends
          /\ fresh.fired = sp.fired /\ fresh.owed = sp.owed /\ ClientShape(fresh)
      <4>1. /\ SpecKeys \subseteq DOMAIN fresh
            /\ fresh.pages = [sp.pages EXCEPT ![s] = NewPage]
            /\ fresh.due = sp.due /\ fresh.sends = sp.sends /\ fresh.owed = sp.owed
            /\ fresh.fired = sp.fired /\ fresh.asks = sp.asks /\ fresh.shown = sp.shown
        BY <1>1 DEF ClientShape, SpecKeys
      <4> HIDE DEF fresh
      <4>2. /\ DOMAIN fresh.pages = Specs /\ fresh.pages[s] = NewPage
            /\ \A r \in Specs \ {s} : fresh.pages[r] = sp.pages[r]
        BY <1>1, <4>1 DEF ClientShape
      <4>3. ClientShape(fresh)
        BY <1>1, <4>1, <4>2 DEF ClientShape
      <4>4. QED
        BY <4>1, <4>2, <4>3 DEF ButFor
    <3>2. /\ NewPage.spec = <<>> /\ NewPage.held = <<>> /\ NewPage.fetch = <<>>
          /\ NewPage.waiters = <<>> /\ NewPage.armed = FALSE /\ SpecPageKeys \subseteq DOMAIN NewPage
      BY DEF NewPage, SpecPageKeys
    <3>3. PageOk(NewPage, s, F[s].ver)
      BY <3>2, AskingNone DEF PageOk, FetchOk, AtMostOne
    <3>4. /\ sp.fired[s] \in Nat /\ sp.owed[s] \in Nat
          /\ sp.fired[s] + ToCome(sp.pages[s], sp.due, s) <= sp.owed[s]
          /\ PageOk(sp.pages[s], s, F[s].ver) /\ \A ch \in SpecChats : SentQueue(sp.sends[ch])
      BY <1>1, Zenon DEF ClientOk
    <3>5. ToCome(NewPage, sp.due, s) = 0 + 0 + 0 + 0
      BY <1>2, <3>2, RunsAllNone DEF ToCome
    <3>6. ToCome(sp.pages[s], sp.due, s) \in Nat
      <4>1. sp.due \in Seq({})
        BY <1>2
      <4>2. QED
        BY <3>4, <4>1, ToComeNat
    <3>7. fresh.due = sp.due
      BY <3>1 DEF ButFor
    <3>8. /\ fresh.fired[s] + ToCome(fresh.pages[s], fresh.due, s) <= fresh.owed[s]
          /\ fresh.fired[s] \in Nat /\ fresh.owed[s] \in Nat
      <4> HIDE DEF fresh
      <4>1. QED
        BY <3>1, <3>4, <3>5, <3>6, <3>7
    <3>9. X \subseteq (X \cup {s}) \cup {s} /\ s \in X \cup {s}
      OBVIOUS
    <3> HIDE DEF fresh, X
    <3>10. ClientOk(fresh, F, X \cup {s})
      BY <1>1, <3>1, <3>2, <3>3, <3>4, <3>8, <3>9, OnePage
    <3>11. known = fresh
      BY <2>2
    <3>12. QED
      BY <3>1, <3>10, <3>11
  <2>3. QED
    BY <2>1, <2>2
<1> HIDE DEF known, X
<1>4. /\ SpecKeys \subseteq DOMAIN d /\ d.pages = known.pages /\ d.due = known.due
      /\ d.sends = known.sends /\ d.owed = known.owed /\ d.fired = known.fired
      /\ d.asks = known.asks /\ d.shown = s
  BY <1>3 DEF ClientShape, SpecKeys
<1> HIDE DEF d
<1>5. ClientShape(d)
  BY <1>3, <1>4 DEF ClientShape
<1>6. ClientOk(d, F, X \cup {s})
  BY <1>3, <1>4, <1>5, FieldTouched
<1>7. ClientOk(e, F, X \cup {s})
  BY <1>1, <1>6, EffectKeeps
<1> HIDE DEF e
<1>8. ClientOk(Refetch(e, s, <<>>), F, (X \cup {s}) \ {s})
  BY <1>7, RefetchPlain
<1>9. (X \cup {s}) \ {s} \subseteq X
  OBVIOUS
<1>10. ClientOk(Refetch(e, s, <<>>), F, X)
  BY <1>8, <1>9, MoreExempt
<1>11. QED
  BY <1>1, <1>2, <1>10, ClientStep DEF X

\* A step that changes fields of the client no part of the invariant looks at.
LEMMA LeaveKeeps ==
  ASSUME SpecInv, SpLeave
  PROVE  SpecInv'
<1> DEFINE d == [sp EXCEPT !.away = TRUE]
<1>1. /\ ClientOk(sp, spsrv.files, Behind) /\ ClientShape(sp) /\ FilesOk
  BY SpecInvParts
<1>2. spsrv' = spsrv /\ sp' = d
  BY Zenon DEF SpLeave
<1>3. /\ SpecKeys \subseteq DOMAIN d /\ d.pages = sp.pages /\ d.due = sp.due
      /\ d.sends = sp.sends /\ d.owed = sp.owed /\ d.fired = sp.fired
      /\ d.asks = sp.asks /\ d.shown = sp.shown
  BY <1>1 DEF ClientShape, SpecKeys
<1> HIDE DEF d
<1>4. ClientShape(d)
  BY <1>1, <1>3 DEF ClientShape
<1>5. ClientOk(d, spsrv.files, Behind)
  BY <1>1, <1>3, <1>4, FieldTouched
<1>6. QED
  BY <1>1, <1>2, <1>5, ClientStep

\* The effect after such a change, on a server whose files stay.
LEMMA EffectStep ==
  ASSUME SpecInv, NEW d, ClientShape(d), d.pages = sp.pages, d.due = sp.due,
         d.sends = sp.sends, d.owed = sp.owed, d.fired = sp.fired
  PROVE  ClientOk(Effect(d), spsrv.files, Behind)
<1>1. /\ ClientOk(sp, spsrv.files, Behind) /\ ClientShape(sp) /\ FilesOk
      /\ \A s \in Specs : spsrv.files[s].ver \in Int
  BY SpecInvParts
<1>2. ClientOk(d, spsrv.files, Behind)
  BY <1>1, FieldTouched
<1>3. QED
  BY <1>1, <1>2, EffectKeeps

\* A page's tab is closed.
LEMMA CloseKeeps ==
  ASSUME SpecInv, NEW s \in Specs, SpClose(s)
  PROVE  SpecInv'
<1> DEFINE d == [sp EXCEPT !.open = @ \ {s}, !.closed = @ \cup {s}]
<1>1. ClientShape(sp) /\ FilesOk
  BY SpecInvParts
<1>2. spsrv' = spsrv /\ sp' = Effect(d)
  BY Zenon DEF SpClose
<1>3. /\ SpecKeys \subseteq DOMAIN d /\ d.pages = sp.pages /\ d.due = sp.due
      /\ d.sends = sp.sends /\ d.owed = sp.owed /\ d.fired = sp.fired
      /\ d.asks = sp.asks /\ d.shown = sp.shown
  BY <1>1 DEF ClientShape, SpecKeys
<1> HIDE DEF d
<1>4. ClientShape(d)
  BY <1>1, <1>3 DEF ClientShape
<1>5. ClientOk(Effect(d), spsrv.files, Behind)
  BY <1>3, <1>4, EffectStep
<1>6. QED
  BY <1>1, <1>2, <1>5, ClientStep

\* A page's chat is another.
LEMMA ParentKeeps ==
  ASSUME SpecInv, NEW s \in Specs, NEW ch, SpSetParent(s, ch)
  PROVE  SpecInv'
<1> DEFINE d == [sp EXCEPT !.parent[s] = ch]
<1>1. ClientShape(sp) /\ FilesOk
  BY SpecInvParts
<1>2. spsrv' = spsrv /\ sp' = Effect(d)
  BY Zenon DEF SpSetParent
<1>3. /\ SpecKeys \subseteq DOMAIN d /\ d.pages = sp.pages /\ d.due = sp.due
      /\ d.sends = sp.sends /\ d.owed = sp.owed /\ d.fired = sp.fired
      /\ d.asks = sp.asks /\ d.shown = sp.shown
  BY <1>1 DEF ClientShape, SpecKeys
<1> HIDE DEF d
<1>4. ClientShape(d)
  BY <1>1, <1>3 DEF ClientShape
<1>5. ClientOk(Effect(d), spsrv.files, Behind)
  BY <1>3, <1>4, EffectStep
<1>6. QED
  BY <1>1, <1>2, <1>5, ClientStep

\* A task is picked, and reads the file before it goes.
LEMMA RunTaskKeeps ==
  ASSUME SpecInv, NEW s \in Specs, NEW t, SpRunTask(s, t)
  PROVE  SpecInv'
<1> DEFINE k == [kind |-> "task", page |-> s, row |-> t, chat |-> sp.parent[s],
                 text |-> sp.pages[s].spec[1].text[t], at |-> spsrv.files[s].ver]
<1>1. /\ ClientOk(sp, spsrv.files, Behind) /\ FilesOk /\ spsrv.files[s].ver \in Int
  BY SpecInvParts
<1>2. spsrv' = spsrv /\ sp' = Refetch(sp, s, <<k>>)
  BY Zenon DEF SpRunTask
<1>3. k.page = s /\ k.kind = "task" /\ k.at = spsrv.files[s].ver
  OBVIOUS
<1> HIDE DEF k
<1>4. AskOk(k, s, spsrv.files[s].ver) /\ k.kind # "all"
  BY <1>1, <1>3 DEF AskOk
<1>5. ClientOk(Refetch(sp, s, <<k>>), spsrv.files, Behind \ {s})
  BY <1>1, <1>4, RefetchFor
<1>6. ClientOk(Refetch(sp, s, <<k>>), spsrv.files, Behind)
  <2>1. Behind \ {s} \subseteq Behind
    OBVIOUS
  <2>2. QED
    BY <1>5, <2>1, MoreExempt
<1>7. QED
  BY <1>1, <1>2, <1>6, ClientStep

\* A plain read keeps the invariant, and of a page whose frame it was about.
LEMMA PlainStep ==
  ASSUME SpecInv, NEW s \in Specs
  PROVE  ClientOk(Refetch(sp, s, <<>>), spsrv.files, Behind \ {s})
<1>1. ClientOk(sp, spsrv.files, Behind)
  BY SpecInvParts
<1>2. QED
  BY <1>1, RefetchPlain

\* The poll reads.
LEMMA PollKeeps ==
  ASSUME SpecInv, NEW s \in Specs, SpPoll(s)
  PROVE  SpecInv'
<1>1. spsrv' = spsrv /\ sp' = Refetch(sp, s, <<>>)
  BY Zenon DEF SpPoll
<1>2. FilesOk
  BY SpecInvParts
<1>3. ClientOk(sp', spsrv.files, Behind \ {s})
  BY <1>1, PlainStep
<1>4. Behind \ {s} \subseteq Behind
  OBVIOUS
<1>5. ClientOk(sp', spsrv.files, Behind)
  BY <1>3, <1>4, MoreExempt
<1>6. QED
  BY <1>1, <1>2, <1>5, ClientStep

\* There is room for no run at all.
LEMMA RoomForNone ==
  ASSUME NEW c, NEW files, NEW X, ClientOk(c, files, X), NEW s \in Specs
  PROVE  Room(c, s, 0) /\ ToCome(c.pages[s], c.due, s) \in Nat
         /\ c.fired[s] \in Nat /\ c.owed[s] \in Nat
<1>1. /\ c.fired[s] \in Nat /\ c.owed[s] \in Nat
      /\ c.fired[s] + ToCome(c.pages[s], c.due, s) <= c.owed[s]
  BY Zenon DEF ClientOk
<1>2. PICK S : c.due \in Seq(S)
  BY Zenon DEF ClientOk
<1>3. ToCome(c.pages[s], c.due, s) \in Nat
  BY <1>2, ToComeNat DEF ClientOk
<1>4. QED
  BY <1>1, <1>3 DEF Room

\* The head's button runs all the tasks, which no answer owes.
LEMMA RunAllStepKeeps ==
  ASSUME SpecInv, NEW s \in Specs, SpRunAll(s)
  PROVE  SpecInv'
<1>1. spsrv' = spsrv /\ sp' = RunAll(sp, s, 0)
  BY Zenon DEF SpRunAll
<1>2. ClientOk(sp, spsrv.files, Behind) /\ FilesOk
  BY SpecInvParts
<1>3. Room(sp, s, 0)
  BY <1>2, RoomForNone
<1>4. ClientOk(RunAll(sp, s, 0), spsrv.files, Behind)
  BY <1>2, <1>3, RunAllKeeps
<1>5. QED
  BY <1>1, <1>2, <1>4, ClientStep

----------------------------------------------------------------------------
(* A checkpoint's answer, and the reads.                                   *)

\* An answer arms the page, and is owed one run.
LEMMA ArmedKeeps ==
  ASSUME NEW c, NEW files, NEW X, NEW s \in Specs, ClientOk(c, files, X)
  PROVE  LET d == [c EXCEPT !.pages[s].armed = TRUE, !.owed[s] = @ + 1]
         IN  ClientOk(d, files, X) /\ d.pages[s].armed
<1> DEFINE p == c.pages[s]
           q == [p EXCEPT !.armed = TRUE]
           o == [c.owed EXCEPT ![s] = @ + 1]
           d == [c EXCEPT !.pages[s].armed = TRUE, !.owed[s] = @ + 1]
           v == files[s].ver
<1>1. /\ ClientShape(c) /\ PageOk(p, s, v) /\ \A ch \in SpecChats : SentQueue(c.sends[ch])
      /\ c.fired[s] \in Nat /\ c.owed[s] \in Nat
      /\ c.fired[s] + ToCome(p, c.due, s) <= c.owed[s]
      /\ (s \notin X => PageCaughtUp(p, files[s]))
  BY Zenon DEF ClientOk
<1>2. SpecPageKeys \subseteq DOMAIN p
  BY <1>1, Zenon DEF PageOk
<1>3. PICK S : c.due \in Seq(S)
  BY Zenon DEF ClientOk
<1>4. /\ q.on = p.on /\ q.spec = p.spec /\ q.held = p.held /\ q.gone = p.gone
      /\ q.missed = p.missed /\ q.fetch = p.fetch /\ q.trailing = p.trailing
      /\ q.waiters = p.waiters /\ q.unmoved = p.unmoved /\ q.armed = TRUE
      /\ SpecPageKeys \subseteq DOMAIN q
  BY <1>2 DEF SpecPageKeys
<1>5. d = [c EXCEPT !.pages = [c.pages EXCEPT ![s] = q], !.owed = o]
  BY Zenon
<1> HIDE DEF p, q, d, v, o
<1>6. /\ SpecKeys \subseteq DOMAIN d /\ d.pages = [c.pages EXCEPT ![s] = q] /\ d.owed = o
      /\ d.due = c.due /\ d.sends = c.sends
      /\ d.fired = c.fired /\ d.asks = c.asks /\ d.shown = c.shown
  BY <1>1, <1>5 DEF ClientShape, SpecKeys
<1>7. /\ DOMAIN d.pages = Specs /\ d.pages[s] = q
      /\ \A r \in Specs \ {s} : d.pages[r] = c.pages[r]
      /\ DOMAIN d.owed = Specs /\ d.owed[s] = c.owed[s] + 1
      /\ \A r \in Specs \ {s} : d.owed[r] = c.owed[r]
  BY <1>1, <1>6 DEF ClientShape, o
<1>8. ClientShape(d)
  BY <1>1, <1>6, <1>7 DEF ClientShape
<1>9. ButFor(c, d, s)
  BY <1>6, <1>7, <1>8 DEF ButFor
<1>10. PageOk(q, s, v)
  BY <1>1, <1>4, Zenon DEF PageOk
<1>11. s \notin X => PageCaughtUp(q, files[s])
  BY <1>1, <1>4, Zenon DEF PageCaughtUp
<1>12. ToCome(q, c.due, s) <= ToCome(p, c.due, s) + 1
       /\ ToCome(p, c.due, s) \in Nat /\ ToCome(q, c.due, s) \in Nat
  <2> DEFINE n == IF p.fetch = <<>> THEN 0 ELSE Cardinality(RunsAllOf(p.fetch[1].then, s))
             m == Cardinality(RunsAllOf(p.waiters, s))
             h == Cardinality(RunsAllOf(c.due, s))
             a == IF p.armed THEN 1 ELSE 0
  <2>1. n \in Nat
    BY <1>1, AskingEach DEF PageOk, FetchOk
  <2>2. m \in Nat /\ h \in Nat
    BY <1>1, <1>3, AskingEach, RunsAllFinite DEF PageOk
  <2>3. a \in Nat
    OBVIOUS
  <2> HIDE DEF n, m, h, a
  <2>4. ToCome(p, c.due, s) = a + n + m + h
    BY Zenon DEF ToCome, n, m, h, a
  <2>5. ToCome(q, c.due, s) = 1 + n + m + h
    <3>1. q.armed
      BY <1>4
    <3>2. QED
      BY <1>4, <3>1, Zenon DEF ToCome, n, m, h
  <2>6. QED
    BY <2>1, <2>2, <2>3, <2>4, <2>5
<1>13. /\ d.fired[s] + ToCome(d.pages[s], d.due, s) <= d.owed[s]
       /\ d.fired[s] \in Nat /\ d.owed[s] \in Nat
  BY <1>1, <1>6, <1>7, <1>12
<1>14. X \subseteq X \cup {s} /\ d.pages[s].spec = c.pages[s].spec
       /\ d.pages[s].missed = c.pages[s].missed
  BY <1>4, <1>7 DEF p
<1>15. ClientOk(d, files, X)
  BY <1>1, <1>6, <1>7, <1>9, <1>10, <1>11, <1>13, <1>14, OnePage DEF v
<1>16. d.pages[s].armed
  BY <1>4, <1>7
<1>17. QED
  BY <1>15, <1>16 DEF d

\* An answer is carried out at once, or once the chat is quiet.
LEMMA AnsweredKeeps ==
  ASSUME SpecInv, NEW ch \in SpecChats, SpAnswered(ch)
  PROVE  SpecInv'
<1>1. spsrv' = spsrv
  BY Zenon DEF SpAnswered
<1>2. ClientOk(sp, spsrv.files, Behind) /\ FilesOk
  BY SpecInvParts
<1>3. CheckpointTarget(ch) \subseteq Specs
  BY DEF CheckpointTarget
<1> DEFINE Armed(s) == [sp EXCEPT !.pages[s].armed = TRUE, !.owed[s] = @ + 1]
<1>4. PICK s \in CheckpointTarget(ch) :
        sp' = IF Thinking(sp, s) THEN Armed(s) ELSE FireArmedRunAll(Armed(s), s)
  BY Zenon DEF SpAnswered
<1>5. s \in Specs
  BY <1>3
<1>6. ClientOk(Armed(s), spsrv.files, Behind) /\ Armed(s).pages[s].armed
  BY <1>2, <1>5, ArmedKeeps
<1> HIDE DEF Armed
<1>7. ClientOk(FireArmedRunAll(Armed(s), s), spsrv.files, Behind)
  BY <1>5, <1>6, FireKeeps
<1>8. ClientOk(sp', spsrv.files, Behind)
  <2>1. sp' = Armed(s) \/ sp' = FireArmedRunAll(Armed(s), s)
    BY <1>4, Zenon
  <2>2. QED
    BY <1>6, <1>7, <2>1
<1>9. QED
  BY <1>1, <1>2, <1>8, ClientStep

\* What was awaited goes on.
LEMMA ResumeKeeps ==
  ASSUME SpecInv, SpResume
  PROVE  SpecInv'
<1> DEFINE k == Head(sp.due)
           c == [sp EXCEPT !.due = Tail(@)]
<1>1. spsrv' = spsrv /\ sp.due # <<>>
  BY Zenon DEF SpResume
<1>2. ClientOk(sp, spsrv.files, Behind) /\ FilesOk
  BY SpecInvParts
<1>3. /\ ClientOk(c, spsrv.files, Behind) /\ DueOk(k, c.pages)
      /\ k.kind = "all" => Room(c, k.page, 1)
  BY <1>1, <1>2, DueTaken
<1>4. sp' = CASE k.kind = "note" -> NoteUnmoved(c, k)
              [] k.kind = "task" -> RunTask(c, k)
              [] k.kind = "all"  -> RunAll(c, k.page, 1)
  BY Zenon DEF SpResume
<1> HIDE DEF c, k
<1>5. k.page \in Specs /\ k.kind \in {"note", "task", "all"}
  BY <1>3 DEF DueOk
<1>6. ClientOk(sp', spsrv.files, Behind)
  <2>1. CASE k.kind = "note"
    <3>1. sp' = NoteUnmoved(c, k)
      BY <1>4, <2>1
    <3>2. QED
      BY <1>3, <1>5, <3>1, NoteKeeps
  <2>2. CASE k.kind = "task"
    <3>1. sp' = RunTask(c, k)
      BY <1>4, <2>2
    <3>2. QED
      BY <1>3, <2>2, <3>1, TaskKeeps
  <2>3. CASE k.kind = "all"
    <3>1. sp' = RunAll(c, k.page, 1)
      BY <1>4, <2>3
    <3>2. QED
      BY <1>3, <1>5, <2>3, <3>1, RunAllKeeps
  <2>4. QED
    BY <1>5, <2>1, <2>2, <2>3
<1>7. QED
  BY <1>1, <1>2, <1>6, ClientStep

\* The server reads the file for a read that is out.
LEMMA ServedKeeps ==
  ASSUME SpecInv, NEW s \in Specs, SpReadServed(s)
  PROVE  SpecInv'
<1> DEFINE p == sp.pages[s]
           v == spsrv.files[s].ver
           f == [p.fetch EXCEPT ![1] = [p.fetch[1] EXCEPT !.got = <<spsrv.files[s]>>]]
           q == [p EXCEPT !.fetch = f]
           d == [sp EXCEPT !.pages[s] = q]
<1>1. /\ ClientOk(sp, spsrv.files, Behind) /\ ClientShape(sp) /\ FilesOk /\ v \in Int
  BY SpecInvParts
<1>2. spsrv' = spsrv /\ sp' = d /\ p.fetch # <<>> /\ sp.due = <<>>
  BY Zenon DEF SpReadServed, SpFree
<1>3. PageOk(p, s, v) /\ (s \notin Behind => PageCaughtUp(p, spsrv.files[s]))
      /\ \A ch \in SpecChats : SentQueue(sp.sends[ch])
  BY <1>1, Zenon DEF ClientOk
<1>4. SpecPageKeys \subseteq DOMAIN p /\ FetchOk(p.fetch, s, v)
  BY <1>3, Zenon DEF PageOk
<1>5. /\ p.fetch = <<[got |-> p.fetch[1].got, then |-> p.fetch[1].then]>>
      /\ Asking(p.fetch[1].then, s, v)
  BY <1>2, <1>4 DEF FetchOk
<1>6. /\ f = <<f[1]>> /\ f[1] = [got |-> <<spsrv.files[s]>>, then |-> p.fetch[1].then]
  <2> DEFINE g == p.fetch[1].got
             th == p.fetch[1].then
  <2>1. p.fetch = <<[got |-> g, then |-> th]>> /\ p.fetch[1] = [got |-> g, then |-> th]
    BY <1>5
  <2> HIDE DEF g, th
  <2>2. [p.fetch[1] EXCEPT !.got = <<spsrv.files[s]>>] = [got |-> <<spsrv.files[s]>>, then |-> th]
    BY <2>1
  <2>3. f = <<[got |-> <<spsrv.files[s]>>, then |-> th]>>
    BY <2>1, <2>2
  <2>4. QED
    BY <2>3 DEF th
<1>7. /\ q.on = p.on /\ q.spec = p.spec /\ q.held = p.held /\ q.gone = p.gone
      /\ q.missed = p.missed /\ q.fetch = f /\ q.trailing = p.trailing
      /\ q.waiters = p.waiters /\ q.unmoved = p.unmoved /\ (q.armed <=> p.armed)
      /\ SpecPageKeys \subseteq DOMAIN q
  <2> HIDE DEF f, p
  <2>1. QED
    BY <1>4 DEF SpecPageKeys
<1>8. d = [sp EXCEPT !.pages[s] = q]
  OBVIOUS
<1> HIDE DEF d, q, f, p
<1>9. /\ ButFor(sp, d, s) /\ d.pages[s] = q /\ d.sends = sp.sends
      /\ d.fired = sp.fired /\ d.owed = sp.owed
      /\ PagesOnly(sp, d)
  BY <1>1, <1>8, SetDown
<1>10. f # <<>> /\ f[1].got = <<spsrv.files[s]>> /\ f[1].then = p.fetch[1].then
  BY <1>6
<1>11. FetchOk(f, s, v)
  <2>1. \A i \in DOMAIN p.fetch[1].then : AskOk(p.fetch[1].then[i], s, v)
    BY <1>5, AskingEach
  <2>2. f[1].got[1] = spsrv.files[s] /\ AtMostOne(f[1].got)
    BY <1>10 DEF AtMostOne
  <2>3. \A i \in DOMAIN f[1].then : f[1].then[i].kind # "all" => f[1].then[i].at <= v
    BY <1>10, <2>1 DEF AskOk
  <2>4. f = <<[got |-> f[1].got, then |-> f[1].then]>>
    BY <1>6, <1>10
  <2>5. Asking(f[1].then, s, v)
    BY <1>5, <1>10
  <2>6. QED
    BY <1>1, <2>2, <2>3, <2>4, <2>5, Zenon DEF FetchOk
<1>12. PageOk(q, s, v)
  BY <1>3, <1>7, <1>11, Zenon DEF PageOk
<1>13. s \notin Behind => PageCaughtUp(q, spsrv.files[s])
  BY <1>2, <1>3, <1>7, <1>10, Zenon DEF PageCaughtUp
<1>14. ToCome(q, sp.due, s) = ToCome(p, sp.due, s)
  BY <1>2, <1>7, <1>10, Zenon DEF ToCome
<1>15. /\ d.fired[s] + ToCome(d.pages[s], d.due, s) <= d.owed[s]
       /\ d.fired[s] \in Nat /\ d.owed[s] \in Nat
  <2>1. /\ sp.fired[s] \in Nat /\ sp.owed[s] \in Nat
        /\ sp.fired[s] + ToCome(sp.pages[s], sp.due, s) <= sp.owed[s]
    BY <1>1, Zenon DEF ClientOk
  <2>2. d.due = sp.due
    BY <1>9 DEF ButFor
  <2>3. QED
    BY <1>9, <1>14, <2>1, <2>2 DEF p
<1>16. Behind \subseteq Behind \cup {s} /\ q.spec = sp.pages[s].spec /\ q.missed = sp.pages[s].missed
  BY <1>7 DEF p
<1>17. ClientOk(d, spsrv.files, Behind)
  BY <1>1, <1>3, <1>9, <1>12, <1>13, <1>15, <1>16, OnePage
<1>18. QED
  BY <1>1, <1>2, <1>17, ClientStep

\* A reply lands.
LEMMA LandsKeeps ==
  ASSUME SpecInv, NEW s \in Specs, SpReadLands(s)
  PROVE  SpecInv'
<1> DEFINE p == sp.pages[s]
           doc == p.fetch[1].got[1]
           q == Landed(p, doc)
           v == spsrv.files[s].ver
<1>1. ClientOk(sp, spsrv.files, Behind) /\ FilesOk
  BY SpecInvParts
<1>2. /\ spsrv' = spsrv /\ sp' = SpReadOver(sp, s, q) /\ p.fetch # <<>> /\ p.fetch[1].got # <<>>
  BY Zenon DEF SpReadLands
<1>3. PageOk(p, s, v) /\ (s \notin Behind => PageCaughtUp(p, spsrv.files[s]))
  BY <1>1, Zenon DEF ClientOk
<1>4. FetchOk(p.fetch, s, v)
  BY <1>3, Zenon DEF PageOk
<1>5. /\ doc.ver \in Int /\ p.fetch[1].got = <<doc>>
      /\ \A i \in DOMAIN p.fetch[1].then :
           p.fetch[1].then[i].kind # "all" => p.fetch[1].then[i].at <= doc.ver
      /\ Asking(p.fetch[1].then, s, v)
  BY <1>2, <1>4, Zenon DEF FetchOk, AtMostOne
<1> HIDE DEF doc
<1>6. /\ SpecPageKeys \subseteq DOMAIN q
      /\ q.fetch = p.fetch /\ q.waiters = p.waiters /\ (q.armed <=> p.armed)
      /\ SpecHeld(q)
      /\ q.spec # <<>> => q.spec = <<doc>>
      /\ IF doc.here THEN q.held = <<doc>> ELSE q.gone
  BY <1>3, <1>5, LandedHolds
<1>7. (q.trailing <=> p.trailing) /\ (q.on <=> p.on)
  <2>1. SpecPageKeys \subseteq DOMAIN p
    BY <1>3, Zenon DEF PageOk
  <2>2. QED
    BY <2>1 DEF Landed, AdoptSpec, SpecPageKeys
<1> HIDE DEF p, q, v
<1>8. AnswersWaiting(q, q.fetch[1].then)
  <2>1. \A i \in DOMAIN p.fetch[1].then :
          p.fetch[1].then[i].kind # "all" => p.fetch[1].then[i].at \in Int
    BY <1>5, AskingEach DEF AskOk
  <2>2. q.spec # <<>> => q.spec[1].ver = doc.ver
    BY <1>6
  <2>3. QED
    BY <1>5, <1>6, <2>1, <2>2 DEF AnswersWaiting
<1>9. s \notin Behind /\ ~q.trailing /\ q.on => doc = spsrv.files[s]
  <2>1. s \notin Behind /\ ~p.trailing /\ p.on => p.fetch[1].got = <<spsrv.files[s]>>
    BY <1>2, <1>3, Zenon DEF PageCaughtUp
  <2>2. s \notin Behind /\ ~q.trailing /\ q.on => <<doc>> = <<spsrv.files[s]>>
    BY <1>5, <1>7, <2>1, Zenon
  <2>3. QED
    BY <2>2
<1>10. ClientOk(SpReadOver(sp, s, q), spsrv.files, Behind)
  BY <1>1, <1>2, <1>6, <1>8, <1>9, ReadOverKeeps DEF p
<1>11. QED
  BY <1>1, <1>2, <1>10, ClientStep

\* A read fails.
LEMMA FailsKeeps ==
  ASSUME SpecInv, NEW s \in Specs, SpReadFails(s)
  PROVE  SpecInv'
<1> DEFINE p == sp.pages[s]
           q == [p EXCEPT !.missed = TRUE]
<1>1. ClientOk(sp, spsrv.files, Behind) /\ FilesOk
  BY SpecInvParts
<1>2. /\ spsrv' = spsrv /\ sp' = SpReadOver(sp, s, q) /\ p.fetch # <<>>
  BY Zenon DEF SpReadFails
<1>3. PageOk(p, s, spsrv.files[s].ver)
  BY <1>1, Zenon DEF ClientOk
<1>4. SpecPageKeys \subseteq DOMAIN p /\ SpecHeld(p)
  BY <1>3, Zenon DEF PageOk, SpecHeld
<1>5. /\ SpecPageKeys \subseteq DOMAIN q
      /\ q.fetch = p.fetch /\ q.waiters = p.waiters /\ (q.armed <=> p.armed) /\ q.missed = TRUE
      /\ q.spec = p.spec /\ q.held = p.held /\ q.unmoved = p.unmoved /\ q.gone = p.gone
  BY <1>4 DEF SpecPageKeys
<1> HIDE DEF q, p
<1>6. SpecHeld(q)
  BY <1>4, <1>5, Zenon DEF SpecHeld
<1>7. q.missed
  BY <1>5
<1>8. AnswersWaiting(q, q.fetch[1].then)
  BY <1>7, Zenon DEF AnswersWaiting
<1>9. ClientOk(SpReadOver(sp, s, q), spsrv.files, Behind)
  BY <1>1, <1>2, <1>5, <1>6, <1>7, <1>8, ReadOverKeeps DEF p
<1>10. QED
  BY <1>1, <1>2, <1>9, ClientStep

----------------------------------------------------------------------------
(* Prompts, approvals and the server.                                      *)

\* A prompt on its way is answered by the server.
LEMMA FirstAnswered ==
  ASSUME NEW q, SentQueue(q), q # <<>>,
         NEW res \in {"sent", "queued", "starting", "gone", "failed"}
  PROVE  SentQueue([q EXCEPT ![1] = [q[1] EXCEPT !.res = res]])
<1> DEFINE e == [q[1] EXCEPT !.res = res]
           r == [q EXCEPT ![1] = e]
<1>1. PICK S : q \in Seq(S) /\ \A x \in S : SentOk(x)
  BY Zenon DEF SentQueue
<1>2. q[1] \in S
  BY <1>1
<1>3. SentOk(e)
  <2>1. SentOk(q[1])
    BY <1>1, <1>2
  <2> DEFINE f == q[1]
  <2>2. e = [f EXCEPT !.res = res]
    OBVIOUS
  <2> HIDE DEF f, e
  <2>3. SentOk(f)
    BY <2>1 DEF f
  <2>4. DOMAIN e = DOMAIN f /\ e.res = res /\ e.page = f.page /\ e.row = f.row
    BY <2>2, <2>3 DEF SentOk
  <2>5. e.row # All => /\ {"text", "picked", "at", "read", "missed"} \subseteq DOMAIN f
                       /\ e.text = f.text /\ e.picked = f.picked /\ e.at = f.at
                       /\ e.read = f.read /\ (e.missed <=> f.missed)
    BY <2>2, <2>3, <2>4 DEF SentOk
  <2>6. QED
    BY <2>3, <2>4, <2>5 DEF SentOk
<1> DEFINE T == S \cup {e}
<1>4. r \in Seq(T)
  <2> HIDE DEF e
  <2>1. QED
    BY <1>1
<1>5. \A x \in T : SentOk(x)
  BY <1>1, <1>3
<1> HIDE DEF T, r, e
<1>6. SentQueue(r)
  BY <1>4, <1>5, Zenon DEF SentQueue
<1>7. QED
  BY <1>6 DEF r, e

\* One chat's prompts change, each as one that may be sent.
LEMMA SendsTouched ==
  ASSUME NEW c, NEW d, NEW files, NEW X, ClientOk(c, files, X), ClientShape(d),
         d.pages = c.pages, d.due = c.due, d.owed = c.owed, d.fired = c.fired,
         \A ch \in SpecChats : SentQueue(d.sends[ch])
  PROVE  ClientOk(d, files, X)
BY Zenon DEF ClientOk

\* The server admits a prompt, queues it or refuses it.
LEMMA TakenKeeps ==
  ASSUME SpecInv, NEW ch \in SpecChats, SpPromptTaken(ch)
  PROVE  SpecInv'
<1>1. /\ ClientOk(sp, spsrv.files, Behind) /\ ClientShape(sp) /\ FilesOk
  BY SpecInvParts
<1>2. PICK res \in {"sent", "queued", "starting", "gone", "failed"} :
        sp' = [sp EXCEPT !.sends[ch][1].res = res]
  <2>1. CASE sp' = [sp EXCEPT !.sends[ch][1].res = "queued"]
    BY <2>1, Zenon
  <2>2. CASE sp' = [sp EXCEPT !.sends[ch][1].res = "sent"]
    BY <2>2, Zenon
  <2>3. CASE \E res \in {"starting", "gone", "failed"} : sp' = [sp EXCEPT !.sends[ch][1].res = res]
    BY <2>3, Zenon
  <2>4. QED
    BY <2>1, <2>2, <2>3, Zenon DEF SpPromptTaken
<1>3. /\ spsrv'.files = spsrv.files /\ spsrv'.frames = spsrv.frames /\ spsrv'.lost = spsrv.lost
      /\ FilesOk'
  <2>1. CASE spsrv' = spsrv
    BY <1>1, <2>1 DEF FilesOk
  <2>2. CASE spsrv' = [spsrv EXCEPT !.turns = @ \cup {ch}]
    BY <1>1, <2>2 DEF FilesOk
  <2>3. QED
    BY <2>1, <2>2, Zenon DEF SpPromptTaken
<1>4. sp.sends[ch] # <<>> /\ \A x \in SpecChats : SentQueue(sp.sends[x])
  BY <1>1, Zenon DEF SpPromptTaken, ClientOk
<1> DEFINE q == sp.sends[ch]
           r == [q EXCEPT ![1] = [q[1] EXCEPT !.res = res]]
           d == [sp EXCEPT !.sends[ch] = r]
<1>5. sp' = d
  BY <1>2, Zenon
<1>6. SentQueue(r)
  BY <1>4, FirstAnswered
<1> HIDE DEF r
<1>7. /\ SpecKeys \subseteq DOMAIN d /\ d.pages = sp.pages /\ d.due = sp.due
      /\ d.owed = sp.owed /\ d.fired = sp.fired
      /\ d.asks = sp.asks /\ d.shown = sp.shown /\ d.sends = [sp.sends EXCEPT ![ch] = r]
  BY <1>1 DEF ClientShape, SpecKeys
<1> HIDE DEF d
<1>8. DOMAIN d.sends = SpecChats /\ \A x \in SpecChats : SentQueue(d.sends[x])
  BY <1>1, <1>4, <1>6, <1>7 DEF ClientShape
<1>9. ClientShape(d)
  BY <1>1, <1>7, <1>8 DEF ClientShape
<1>10. ClientOk(d, spsrv.files, Behind)
  BY <1>1, <1>7, <1>8, <1>9, SendsTouched
<1>11. ClientOk(sp', spsrv'.files, spsrv'.frames \cup spsrv'.lost)
  BY <1>3, <1>5, <1>10 DEF Behind
<1>12. QED
  BY <1>3, <1>11 DEF SpecInv, ClientOk, ClientShape, PageOk, PageCaughtUp, DueOk, ToCome, FetchOk,
                     RunsAllOf, Asking, AskOk, SentQueue, SentOk, AtMostOne, Pending

\* A step of the server's, the client's part of it shown.
LEMMA ServerStep ==
  ASSUME FilesOk', NEW c, sp' = c, NEW files, spsrv'.files = files, NEW X,
         spsrv'.frames \cup spsrv'.lost = X, ClientOk(c, files, X)
  PROVE  SpecInv'
<1>1. ClientOk(sp', spsrv'.files, spsrv'.frames \cup spsrv'.lost)
  OBVIOUS
<1>2. QED
  BY <1>1 DEF SpecInv, ClientOk, ClientShape, PageOk, PageCaughtUp, DueOk, ToCome, FetchOk,
              RunsAllOf, Asking, AskOk, SentQueue, SentOk, AtMostOne, Pending

\* A prompt's answer.
LEMMA AnswerKeeps ==
  ASSUME SpecInv, NEW ch \in SpecChats, SpPromptAnswered(ch)
  PROVE  SpecInv'
<1> DEFINE e == Head(sp.sends[ch])
           c == [sp EXCEPT !.sends[ch] = Tail(@)]
           d == [c EXCEPT !.thinking = @ \ {ch}]
<1>1. /\ ClientOk(sp, spsrv.files, Behind) /\ ClientShape(sp) /\ FilesOk
      /\ \A s \in Specs : spsrv.files[s].ver \in Int
  BY SpecInvParts
<1>2. /\ spsrv' = spsrv /\ sp.sends[ch] # <<>> /\ e.res # SpNone
  BY Zenon DEF SpPromptAnswered
<1>3. \/ sp' = ApplyResult(Effect(d), e)
      \/ sp' = ApplyResult(c, e)
  BY Zenon DEF SpPromptAnswered
<1>4. \A x \in SpecChats : SentQueue(sp.sends[x])
  BY <1>1, Zenon DEF ClientOk
<1>5. SentOk(e) /\ SentQueue(Tail(sp.sends[ch]))
  <2>1. PICK S : sp.sends[ch] \in Seq(S) /\ \A x \in S : SentOk(x)
    BY <1>4, Zenon DEF SentQueue
  <2>2. e \in S /\ Tail(sp.sends[ch]) \in Seq(S)
    BY <1>2, <2>1
  <2>3. SentOk(e)
    BY <2>1, <2>2
  <2> HIDE DEF e
  <2>4. SentQueue(Tail(sp.sends[ch]))
    BY <2>1, <2>2, Zenon DEF SentQueue
  <2>5. QED
    BY <2>3, <2>4
<1>6. /\ SpecKeys \subseteq DOMAIN c /\ c.pages = sp.pages /\ c.due = sp.due
      /\ c.owed = sp.owed /\ c.fired = sp.fired
      /\ c.asks = sp.asks /\ c.shown = sp.shown /\ c.sends = [sp.sends EXCEPT ![ch] = Tail(@)]
  BY <1>1 DEF ClientShape, SpecKeys
<1> HIDE DEF c, e
<1>7. DOMAIN c.sends = SpecChats /\ \A x \in SpecChats : SentQueue(c.sends[x])
  BY <1>1, <1>4, <1>5, <1>6 DEF ClientShape
<1>8. ClientShape(c)
  BY <1>1, <1>6, <1>7 DEF ClientShape
<1>9. ClientOk(c, spsrv.files, Behind)
  BY <1>1, <1>6, <1>7, <1>8, SendsTouched
<1>10. /\ SpecKeys \subseteq DOMAIN d /\ d.pages = c.pages /\ d.due = c.due /\ d.sends = c.sends
       /\ d.owed = c.owed /\ d.fired = c.fired /\ d.asks = c.asks /\ d.shown = c.shown
  BY <1>8 DEF ClientShape, SpecKeys
<1> HIDE DEF d
<1>11. ClientShape(d)
  BY <1>8, <1>10 DEF ClientShape
<1>12. ClientOk(d, spsrv.files, Behind)
  BY <1>9, <1>10, <1>11, FieldTouched
<1>13. ClientOk(Effect(d), spsrv.files, Behind)
  BY <1>1, <1>12, EffectKeeps
<1>14. /\ ClientOk(ApplyResult(Effect(d), e), spsrv.files, Behind)
       /\ ClientOk(ApplyResult(c, e), spsrv.files, Behind)
  BY <1>2, <1>5, <1>9, <1>13, ResultKeeps
<1>15. ClientOk(sp', spsrv.files, Behind)
  BY <1>3, <1>14
<1>16. QED
  BY <1>1, <1>2, <1>15, ClientStep

\* The approving flag of a page and its approvals change.
LEMMA ApprovingTouched ==
  ASSUME NEW c, NEW files, NEW X, NEW s \in Specs, ClientOk(c, files, X), NEW b, NEW asks
  PROVE  ClientOk([c EXCEPT !.pages[s].approving = b, !.asks[s] = asks], files, X)
<1> DEFINE q == [c.pages[s] EXCEPT !.approving = b]
           P == [c.pages EXCEPT ![s] = q]
           A == [c.asks EXCEPT ![s] = asks]
           d == [c EXCEPT !.pages = P, !.asks = A]
<1>1. ClientShape(c) /\ \A ch \in SpecChats : SentQueue(c.sends[ch])
  BY Zenon DEF ClientOk
<1>2. SpecPageKeys \subseteq DOMAIN c.pages[s]
  BY Zenon DEF ClientOk, PageOk
<1>3. /\ SpecPageKeys \subseteq DOMAIN q
      /\ \A x \in {"on", "spec", "held", "gone", "missed", "fetch", "trailing", "waiters",
                   "unmoved", "armed"} : q[x] = c.pages[s][x]
  BY <1>2 DEF SpecPageKeys
<1>4. [c EXCEPT !.pages[s].approving = b, !.asks[s] = asks] = d
  BY Zenon
<1>5. /\ P[s] = q /\ \A r \in Specs \ {s} : P[r] = c.pages[r]
      /\ DOMAIN P = Specs /\ DOMAIN A = Specs
  <2> HIDE DEF q
  <2>1. QED
    BY <1>1 DEF ClientShape
<1> HIDE DEF q, P, A
<1>6. /\ SpecKeys \subseteq DOMAIN d /\ d.pages = P /\ d.due = c.due /\ d.sends = c.sends
      /\ d.owed = c.owed /\ d.fired = c.fired /\ d.asks = A /\ d.shown = c.shown
  BY <1>1 DEF ClientShape, SpecKeys
<1> HIDE DEF d
<1>7. ClientShape(d)
  BY <1>1, <1>5, <1>6 DEF ClientShape
<1>8. ButFor(c, d, s)
  BY <1>5, <1>6, <1>7 DEF ButFor
<1>9. ClientOk(d, files, X)
  BY <1>1, <1>3, <1>5, <1>6, <1>8, PageTouched
<1>10. QED
  BY <1>4, <1>9

\* The reader signs the spec off.
LEMMA ApproveKeeps ==
  ASSUME SpecInv, NEW s \in Specs, SpApprove(s)
  PROVE  SpecInv'
<1> DEFINE asks == Append(sp.asks[s], [ver |-> sp.pages[s].spec[1].ver, res |-> SpNone])
<1>1. ClientOk(sp, spsrv.files, Behind) /\ FilesOk
  BY SpecInvParts
<1>2. /\ spsrv' = spsrv /\ sp' = [sp EXCEPT !.pages[s].approving = TRUE, !.asks[s] = asks]
  BY Zenon DEF SpApprove
<1> HIDE DEF asks
<1>3. ClientOk([sp EXCEPT !.pages[s].approving = TRUE, !.asks[s] = asks], spsrv.files, Behind)
  BY <1>1, ApprovingTouched
<1>4. QED
  BY <1>1, <1>2, <1>3, ClientStep

\* The page reads again, whatever its approval was answered.
LEMMA ApprovedKeeps ==
  ASSUME SpecInv, NEW s \in Specs, SpApprovalAnswered(s)
  PROVE  SpecInv'
<1> DEFINE asks == Tail(sp.asks[s])
           d == [sp EXCEPT !.asks[s] = asks, !.pages[s].approving = FALSE]
<1>1. ClientOk(sp, spsrv.files, Behind) /\ FilesOk /\ ClientShape(sp)
  BY SpecInvParts
<1>2. /\ spsrv' = spsrv /\ sp' = Refetch(d, s, <<>>)
  BY Zenon DEF SpApprovalAnswered
<1>3. d = [sp EXCEPT !.pages[s].approving = FALSE, !.asks[s] = asks]
  <2> HIDE DEF asks
  <2>1. QED
    BY <1>1 DEF ClientShape, SpecKeys
<1> HIDE DEF asks, d
<1>4. ClientOk(d, spsrv.files, Behind)
  BY <1>1, <1>3, ApprovingTouched
<1>5. ClientOk(Refetch(d, s, <<>>), spsrv.files, Behind \ {s})
  BY <1>4, RefetchPlain
<1>6. Behind \ {s} \subseteq Behind
  OBVIOUS
<1>7. ClientOk(Refetch(d, s, <<>>), spsrv.files, Behind)
  BY <1>5, <1>6, MoreExempt
<1>8. QED
  BY <1>1, <1>2, <1>7, ClientStep

\* A file moves, and a frame of it is on its way.
LEMMA FileMoved ==
  ASSUME NEW c, NEW files, NEW X, NEW s \in Specs, ClientOk(c, files, X), NEW fs, NEW Y,
         \A r \in Specs \ {s} : fs[r] = files[r], X \cup {s} \subseteq Y,
         files[s].ver \in Int, fs[s].ver \in Int, files[s].ver <= fs[s].ver
  PROVE  ClientOk(c, fs, Y)
<1>1. PageOk(c.pages[s], s, files[s].ver)
  BY Zenon DEF ClientOk
<1> DEFINE p == c.pages[s]
           v == files[s].ver
           w == fs[s].ver
<1>2. v \in Int /\ w \in Int /\ v <= w
  OBVIOUS
<1>3. PageOk(p, s, v)
  BY <1>1
<1> HIDE DEF p, v, w
<1>4. FetchOk(p.fetch, s, w)
  <2>1. FetchOk(p.fetch, s, v)
    BY <1>3, Zenon DEF PageOk
  <2>2. p.fetch # <<>> => Asking(p.fetch[1].then, s, w)
    BY <1>2, <2>1, AskingLater DEF FetchOk
  <2>3. QED
    BY <2>1, <2>2, Zenon DEF FetchOk
<1>5. Asking(p.waiters, s, w)
  <2>1. Asking(p.waiters, s, v)
    BY <1>3, Zenon DEF PageOk
  <2>2. QED
    BY <1>2, <2>1, AskingLater
<1>6. PageOk(p, s, w)
  BY <1>3, <1>4, <1>5, Zenon DEF PageOk
<1>7. \A r \in Specs : PageOk(c.pages[r], r, fs[r].ver)
  <2> TAKE r \in Specs
  <2>1. CASE r = s
    BY <1>6, <2>1 DEF p, w
  <2>2. CASE r # s
    <3>1. fs[r] = files[r]
      BY <2>2
    <3>2. PageOk(c.pages[r], r, files[r].ver)
      BY Zenon DEF ClientOk
    <3>3. QED
      BY <3>1, <3>2
  <2>3. QED
    BY <2>1, <2>2
<1>8. \A r \in Specs : r \notin Y => PageCaughtUp(c.pages[r], fs[r])
  <2> TAKE r \in Specs
  <2>1. ASSUME r \notin Y PROVE PageCaughtUp(c.pages[r], fs[r])
    <3>1. fs[r] = files[r] /\ r \notin X
      BY <2>1
    <3>2. PageCaughtUp(c.pages[r], files[r])
      BY <3>1, Zenon DEF ClientOk
    <3>3. QED
      BY <3>1, <3>2
  <2>2. QED
    BY <2>1
<1>9. QED
  BY <1>7, <1>8, Zenon DEF ClientOk

\* A file that moves keeps what a file has, and its version does not go down.
LEMMA FilesMove ==
  ASSUME FilesOk, NEW s \in Specs, NEW doc,
         {"here", "ver", "text", "box", "approved"} \subseteq DOMAIN doc,
         doc.ver \in Int, spsrv.files[s].ver <= doc.ver,
         spsrv' = [spsrv EXCEPT !.files[s] = doc, !.frames = @ \cup {s}],
         ClientOk(sp', spsrv.files, Behind)
  PROVE  SpecInv'
<1> DEFINE fs == [spsrv.files EXCEPT ![s] = doc]
<1>1. /\ spsrv'.files = fs /\ spsrv'.frames = spsrv.frames \cup {s} /\ spsrv'.lost = spsrv.lost
      /\ DOMAIN spsrv' = DOMAIN spsrv
  BY DEF FilesOk
<1>2. fs[s] = doc /\ DOMAIN fs = Specs /\ \A r \in Specs \ {s} : fs[r] = spsrv.files[r]
  BY DEF FilesOk
<1> HIDE DEF fs
<1>3. FilesOk'
  <2>1. \A r \in Specs : /\ {"here", "ver", "text", "box", "approved"} \subseteq DOMAIN fs[r]
                         /\ fs[r].ver \in Int
    BY <1>2 DEF FilesOk
  <2>2. {"files", "turns", "frames", "lost"} \subseteq DOMAIN spsrv'
    BY <1>1 DEF FilesOk
  <2>3. QED
    BY <1>1, <1>2, <2>1, <2>2 DEF FilesOk
<1>4. spsrv.files[s].ver \in Int /\ fs[s].ver \in Int /\ spsrv.files[s].ver <= fs[s].ver
  BY <1>2 DEF FilesOk
<1>5. \E c : c = sp' /\ ClientOk(c, spsrv.files, Behind)
  OBVIOUS
<1>6. PICK c : c = sp' /\ ClientOk(c, spsrv.files, Behind)
  BY <1>5
<1>7. ClientOk(c, fs, Behind \cup {s})
  <2>1. Behind \cup {s} \subseteq Behind \cup {s}
    OBVIOUS
  <2>2. QED
    BY <1>2, <1>4, <1>6, <2>1, FileMoved
<1>8. spsrv'.frames \cup spsrv'.lost = Behind \cup {s}
  BY <1>1 DEF Behind
<1>9. QED
  BY <1>1, <1>3, <1>6, <1>7, <1>8, ServerStep

\* The server records an approval, or does not.
LEMMA ApprovalTakenKeeps ==
  ASSUME SpecInv, NEW s \in Specs, SpApprovalTaken(s)
  PROVE  SpecInv'
<1>1. /\ ClientOk(sp, spsrv.files, Behind) /\ ClientShape(sp) /\ FilesOk
  BY SpecInvParts
<1>2. PICK res : sp' = [sp EXCEPT !.asks[s][1].res = res]
  BY Zenon DEF SpApprovalTaken
<1> DEFINE A == [sp.asks EXCEPT ![s][1].res = res]
           d == [sp EXCEPT !.asks = A]
<1>3. sp' = d
  BY <1>2, Zenon
<1>4. DOMAIN A = Specs
  BY <1>1 DEF ClientShape
<1> HIDE DEF A
<1>5. /\ SpecKeys \subseteq DOMAIN d /\ d.pages = sp.pages /\ d.due = sp.due /\ d.sends = sp.sends
      /\ d.owed = sp.owed /\ d.fired = sp.fired /\ d.asks = A /\ d.shown = sp.shown
  BY <1>1 DEF ClientShape, SpecKeys
<1> HIDE DEF d
<1>6. ClientShape(d)
  BY <1>1, <1>4, <1>5 DEF ClientShape
<1>7. ClientOk(d, spsrv.files, Behind)
  BY <1>1, <1>5, <1>6, FieldTouched
<1>8. ClientOk(sp', spsrv.files, Behind)
  BY <1>3, <1>7
<1> DEFINE doc == [spsrv.files[s] EXCEPT !.approved = spsrv.files[s].ver]
<1>9. spsrv' = spsrv \/ spsrv' = [spsrv EXCEPT !.files[s] = doc, !.frames = @ \cup {s}]
  BY Zenon DEF SpApprovalTaken
<1>10. CASE spsrv' = spsrv
  BY <1>1, <1>8, <1>10, ClientStep
<1>11. CASE spsrv' = [spsrv EXCEPT !.files[s] = doc, !.frames = @ \cup {s}]
  <2>1. /\ {"here", "ver", "text", "box", "approved"} \subseteq DOMAIN doc
        /\ doc.ver \in Int /\ spsrv.files[s].ver <= doc.ver
    BY <1>1 DEF FilesOk
  <2> HIDE DEF doc
  <2>2. QED
    BY <1>1, <1>8, <1>11, <2>1, FilesMove
<1>12. QED
  BY <1>9, <1>10, <1>11

\* A write keeps what a file has, and its version does not go down.
LEMMA WrittenLater ==
  ASSUME NEW old, {"here", "ver", "text", "box", "approved"} \subseteq DOMAIN old, old.ver \in Int,
         NEW doc \in Written(old)
  PROVE  /\ {"here", "ver", "text", "box", "approved"} \subseteq DOMAIN doc
         /\ doc.ver \in Int /\ old.ver <= doc.ver
<1>1. \A t, b : DOMAIN BoxSet(old, t, b) = DOMAIN old /\ BoxSet(old, t, b).ver = old.ver + 1
  BY DEF BoxSet
<1>2. \A t : DOMAIN Reworded(old, t) = DOMAIN old /\ Reworded(old, t).ver = old.ver + 1
  BY DEF Reworded
<1> DEFINE away == [old EXCEPT !.here = FALSE]
<1>3. DOMAIN away = DOMAIN old /\ away.ver = old.ver
  OBVIOUS
<1>4. \/ doc \in {BoxSet(old, t, b) : t \in Tasks, b \in {"completed", "in_progress"}}
      \/ doc \in {Reworded(old, t) : t \in Tasks}
      \/ doc = away
  BY DEF Written
<1> HIDE DEF away
<1>5. CASE doc \in {BoxSet(old, t, b) : t \in Tasks, b \in {"completed", "in_progress"}}
  <2>1. PICK t \in Tasks, b \in {"completed", "in_progress"} : doc = BoxSet(old, t, b)
    BY <1>5
  <2>2. QED
    BY <1>1, <2>1
<1>6. CASE doc \in {Reworded(old, t) : t \in Tasks}
  <2>1. PICK t \in Tasks : doc = Reworded(old, t)
    BY <1>6
  <2>2. QED
    BY <1>2, <2>1
<1>7. CASE doc = away
  BY <1>3, <1>7
<1>8. QED
  BY <1>4, <1>5, <1>6, <1>7

\* An agent or an editor writes the file.
LEMMA WrittenKeeps ==
  ASSUME SpecInv, NEW s \in Specs, SpFileMoves(s)
  PROVE  SpecInv'
<1>1. /\ ClientOk(sp, spsrv.files, Behind) /\ FilesOk
  BY SpecInvParts
<1>2. PICK doc \in Written(spsrv.files[s]) :
        spsrv' = [spsrv EXCEPT !.files[s] = doc, !.frames = @ \cup {s}]
  BY Zenon DEF SpFileMoves
<1>3. sp' = sp
  BY Zenon DEF SpFileMoves
<1>7. /\ {"here", "ver", "text", "box", "approved"} \subseteq DOMAIN doc
      /\ doc.ver \in Int /\ spsrv.files[s].ver <= doc.ver
  BY <1>1, <1>2, WrittenLater DEF FilesOk
<1>8. ClientOk(sp', spsrv.files, Behind)
  BY <1>1, <1>3
<1>9. QED
  BY <1>1, <1>2, <1>7, <1>8, FilesMove

\* A frame arrives, and its page reads.
LEMMA FrameKeeps ==
  ASSUME SpecInv, NEW s \in Specs, SpFrame(s)
  PROVE  SpecInv'
<1>1. spsrv' = [spsrv EXCEPT !.frames = @ \ {s}] /\ sp' = Refetch(sp, s, <<>>)
  BY Zenon DEF SpFrame
<1>2. FilesOk
  BY SpecInvParts
<1>3. /\ spsrv'.files = spsrv.files /\ spsrv'.frames = spsrv.frames \ {s}
      /\ spsrv'.lost = spsrv.lost /\ DOMAIN spsrv' = DOMAIN spsrv
  BY <1>1, <1>2 DEF FilesOk
<1>4. FilesOk'
  BY <1>2, <1>3 DEF FilesOk
<1> DEFINE Y == (spsrv.frames \ {s}) \cup spsrv.lost
<1>5. ClientOk(Refetch(sp, s, <<>>), spsrv.files, Behind \ {s})
  BY PlainStep
<1>6. Behind \ {s} \subseteq Y
  BY DEF Behind
<1> HIDE DEF Y
<1>7. ClientOk(Refetch(sp, s, <<>>), spsrv.files, Y)
  BY <1>5, <1>6, MoreExempt
<1>8. spsrv'.frames \cup spsrv'.lost = Y
  BY <1>3 DEF Y
<1>9. ClientOk(sp', spsrv'.files, spsrv'.frames \cup spsrv'.lost)
  BY <1>1, <1>3, <1>7, <1>8
<1>10. QED
  BY <1>4, <1>9 DEF SpecInv, ClientOk, ClientShape, PageOk, PageCaughtUp, DueOk, ToCome, FetchOk,
                    RunsAllOf, Asking, AskOk, SentQueue, SentOk, AtMostOne, Pending

\* A frame is lost with the stream.
LEMMA FrameLostKeeps ==
  ASSUME SpecInv, NEW s \in Specs, SpFrameLost(s)
  PROVE  SpecInv'
<1>1. spsrv' = [spsrv EXCEPT !.frames = @ \ {s}, !.lost = @ \cup {s}] /\ sp' = sp
      /\ s \in spsrv.frames
  BY Zenon DEF SpFrameLost
<1>2. FilesOk /\ ClientOk(sp, spsrv.files, Behind)
  BY SpecInvParts
<1>3. /\ spsrv'.files = spsrv.files /\ spsrv'.frames = spsrv.frames \ {s}
      /\ spsrv'.lost = spsrv.lost \cup {s} /\ DOMAIN spsrv' = DOMAIN spsrv
  BY <1>1, <1>2 DEF FilesOk
<1>4. FilesOk'
  BY <1>2, <1>3 DEF FilesOk
<1>5. spsrv'.frames \cup spsrv'.lost = Behind
  BY <1>1, <1>3 DEF Behind
<1>6. ClientOk(sp', spsrv'.files, spsrv'.frames \cup spsrv'.lost)
  BY <1>1, <1>2, <1>3, <1>5
<1>7. QED
  BY <1>4, <1>6 DEF SpecInv, ClientOk, ClientShape, PageOk, PageCaughtUp, DueOk, ToCome, FetchOk,
                    RunsAllOf, Asking, AskOk, SentQueue, SentOk, AtMostOne, Pending

\* The chats that think, and their turns, change.
LEMMA TurnsKeep ==
  ASSUME SpecInv, NEW turns, NEW thinking,
         spsrv' = [spsrv EXCEPT !.turns = turns], sp' = Effect([sp EXCEPT !.thinking = thinking])
  PROVE  SpecInv'
<1> DEFINE d == [sp EXCEPT !.thinking = thinking]
<1>1. FilesOk /\ ClientShape(sp)
  BY SpecInvParts
<1>2. /\ spsrv'.files = spsrv.files /\ spsrv'.frames = spsrv.frames
      /\ spsrv'.lost = spsrv.lost /\ DOMAIN spsrv' = DOMAIN spsrv
  BY <1>1 DEF FilesOk
<1>3. FilesOk'
  BY <1>1, <1>2 DEF FilesOk
<1>4. /\ SpecKeys \subseteq DOMAIN d /\ d.pages = sp.pages /\ d.due = sp.due
      /\ d.sends = sp.sends /\ d.owed = sp.owed /\ d.fired = sp.fired
      /\ d.asks = sp.asks /\ d.shown = sp.shown
  BY <1>1 DEF ClientShape, SpecKeys
<1>5. sp' = Effect(d)
  OBVIOUS
<1> HIDE DEF d
<1>6. ClientShape(d)
  BY <1>1, <1>4 DEF ClientShape
<1>7. ClientOk(Effect(d), spsrv.files, Behind)
  BY <1>4, <1>6, EffectStep
<1>8. ClientOk(sp', spsrv'.files, spsrv'.frames \cup spsrv'.lost)
  BY <1>2, <1>5, <1>7 DEF Behind
<1>9. QED
  BY <1>3, <1>8 DEF SpecInv, ClientOk, ClientShape, PageOk, PageCaughtUp, DueOk, ToCome, FetchOk,
                    RunsAllOf, Asking, AskOk, SentQueue, SentOk, AtMostOne, Pending

\* A turn opens, and one closes, as the client hears of them.
LEMMA TurnsStep ==
  ASSUME SpecInv, NEW ch, SpTurnOpens(ch) \/ SpTurnCloses(ch)
  PROVE  SpecInv'
<1>1. CASE SpTurnOpens(ch)
  <2>1. /\ spsrv' = [spsrv EXCEPT !.turns = spsrv.turns \cup {ch}]
        /\ sp' = Effect([sp EXCEPT !.thinking = sp.thinking \cup {ch}])
    BY <1>1, Zenon DEF SpTurnOpens
  <2>2. QED
    BY <2>1, TurnsKeep
<1>2. CASE SpTurnCloses(ch)
  <2>1. /\ spsrv' = [spsrv EXCEPT !.turns = spsrv.turns \ {ch}]
        /\ sp' = Effect([sp EXCEPT !.thinking = sp.thinking \ {ch}])
    BY <1>2, Zenon DEF SpTurnCloses
  <2>2. QED
    BY <2>1, TurnsKeep
<1>3. QED
  BY <1>1, <1>2

----------------------------------------------------------------------------
(* The theorem.                                                            *)

\* The invariant holds at first.
LEMMA SpecInvInit ==
  ASSUME SpecInit
  PROVE  SpecInv
<1>1. /\ SpecKeys \subseteq DOMAIN sp /\ sp.pages = [s \in Specs |-> NoPage] /\ sp.due = <<>>
      /\ sp.sends = [ch \in SpecChats |-> <<>>] /\ sp.asks = [s \in Specs |-> <<>>]
      /\ sp.owed = [s \in Specs |-> 0] /\ sp.fired = [s \in Specs |-> 0] /\ sp.shown = SpNone
  BY DEF SpecInit, SpecKeys
<1>2. /\ DOMAIN spsrv = {"files", "turns", "frames", "lost"}
      /\ spsrv.files = [s \in Specs |-> NewFile]
  BY DEF SpecInit
<1>3. /\ {"here", "ver", "text", "box", "approved"} \subseteq DOMAIN NewFile /\ NewFile.ver \in Int
  BY DEF NewFile
<1>4. FilesOk
  BY <1>2, <1>3 DEF FilesOk
<1>5. /\ NoPage.spec = <<>> /\ NoPage.held = <<>> /\ NoPage.fetch = <<>> /\ NoPage.waiters = <<>>
      /\ NoPage.armed = FALSE /\ NoPage.on = FALSE /\ SpecPageKeys \subseteq DOMAIN NoPage
  BY DEF NoPage, NewPage, SpecPageKeys
<1>6. \A s \in Specs : sp.pages[s] = NoPage
  BY <1>1
<1>7. \A s \in Specs : PageOk(NoPage, s, spsrv.files[s].ver) /\ PageCaughtUp(NoPage, spsrv.files[s])
  BY <1>5, AskingNone DEF PageOk, PageCaughtUp, FetchOk, AtMostOne
<1>8. ClientShape(sp)
  BY <1>1 DEF ClientShape
<1>9. \A ch \in SpecChats : SentQueue(sp.sends[ch])
  <2> DEFINE T == {}
  <2>1. <<>> \in Seq(T) /\ \A e \in T : SentOk(e)
    OBVIOUS
  <2> HIDE DEF T
  <2>2. SentQueue(<<>>)
    BY <2>1, Zenon DEF SentQueue
  <2>3. QED
    BY <1>1, <2>2
<1>10. \E S : sp.due \in Seq(S) /\ \A k \in S : DueOk(k, sp.pages)
  <2> DEFINE T == {}
  <2>1. <<>> \in Seq(T) /\ \A k \in T : DueOk(k, sp.pages)
    OBVIOUS
  <2> HIDE DEF T
  <2>2. QED
    BY <1>1, <2>1, Zenon
<1>11. \A s \in Specs : /\ sp.fired[s] \in Nat /\ sp.owed[s] \in Nat
                        /\ sp.fired[s] + ToCome(sp.pages[s], sp.due, s) <= sp.owed[s]
  <2> TAKE s \in Specs
  <2>1. ToCome(NoPage, <<>>, s) = 0 + 0 + 0 + 0
    BY <1>5, RunsAllNone DEF ToCome
  <2>2. sp.fired[s] = 0 /\ sp.owed[s] = 0 /\ ToCome(sp.pages[s], sp.due, s) = 0
    BY <1>1, <1>6, <2>1
  <2>3. QED
    BY <2>2
<1>12. ClientOk(sp, spsrv.files, spsrv.frames \cup spsrv.lost)
  BY <1>6, <1>7, <1>8, <1>9, <1>10, <1>11, Zenon DEF ClientOk
<1>13. QED
  BY <1>4, <1>12 DEF SpecInv

\* Every step keeps it.
LEMMA SpecInvStep ==
  ASSUME SpecInv, [SpecNext]_spvars
  PROVE  SpecInv'
<1>1. CASE UNCHANGED spvars
  <2>1. sp' = sp /\ spsrv' = spsrv
    BY <1>1 DEF spvars
  <2>2. ClientOk(sp, spsrv.files, Behind) /\ FilesOk
    BY SpecInvParts
  <2>3. ClientOk(sp', spsrv.files, Behind)
    BY <2>1, <2>2
  <2>4. QED
    BY <2>1, <2>2, <2>3, ClientStep
<1>2. CASE SpecNext
  <2>1. CASE SpLeave
    BY <2>1, LeaveKeeps
  <2>2. CASE SpResume
    BY <2>2, ResumeKeeps
  <2>3. ASSUME NEW s \in Specs,
               \/ SpShow(s) \/ SpClose(s) \/ SpRunAll(s) \/ SpPoll(s) \/ SpApprove(s)
               \/ SpReadServed(s) \/ SpReadLands(s) \/ SpReadFails(s)
               \/ SpApprovalTaken(s) \/ SpApprovalAnswered(s)
               \/ SpFileMoves(s) \/ SpFrame(s) \/ SpFrameLost(s)
               \/ \E t \in Tasks : SpRunTask(s, t)
               \/ \E ch \in SpecChats \cup {SpNone} : SpSetParent(s, ch)
        PROVE  SpecInv'
    BY <2>3, ShowKeeps, CloseKeeps, RunAllStepKeeps, PollKeeps, ApproveKeeps, ServedKeeps,
       LandsKeeps, FailsKeeps, ApprovalTakenKeeps, ApprovedKeeps, WrittenKeeps, FrameKeeps,
       FrameLostKeeps, RunTaskKeeps, ParentKeeps
  <2>4. ASSUME NEW ch \in SpecChats,
               \/ SpAnswered(ch) \/ SpPromptTaken(ch) \/ SpPromptAnswered(ch)
               \/ SpTurnOpens(ch) \/ SpTurnCloses(ch)
        PROVE  SpecInv'
    BY <2>4, AnsweredKeeps, TakenKeeps, AnswerKeeps, TurnsStep
  <2>5. QED
    BY <1>2, <2>1, <2>2, <2>3, <2>4 DEF SpecNext
<1>3. QED
  BY <1>1, <1>2

\* What the invariant says of what the page promises.
LEMMA SpecInvShows ==
  ASSUME SpecInv
  PROVE  SpecRuns
<1>1. ClientOk(sp, spsrv.files, spsrv.frames \cup spsrv.lost)
  BY DEF SpecInv
<1>2. SpecCatchesUp
  <2> SUFFICES ASSUME NEW s \in Specs,
                      sp.pages[s].on, sp.pages[s].fetch = <<>>, s \notin spsrv.frames \cup spsrv.lost,
                      ~sp.pages[s].missed, ~(sp.pages[s].gone /\ sp.pages[s].held # <<>>)
               PROVE  IF spsrv.files[s].here THEN sp.pages[s].spec = <<spsrv.files[s]>>
                      ELSE sp.pages[s].gone
    BY Zenon DEF SpecCatchesUp
  <2>1. PageCaughtUp(sp.pages[s], spsrv.files[s]) /\ PageOk(sp.pages[s], s, spsrv.files[s].ver)
    BY <1>1, Zenon DEF ClientOk
  <2>2. IF spsrv.files[s].here THEN sp.pages[s].held = <<spsrv.files[s]>> ELSE sp.pages[s].gone
    BY <2>1, Zenon DEF PageCaughtUp
  <2>3. sp.pages[s].spec = sp.pages[s].held \/ sp.pages[s].gone
    BY <2>1, Zenon DEF PageOk
  <2>4. <<spsrv.files[s]>> # <<>>
    OBVIOUS
  <2>5. QED
    BY <2>2, <2>3, <2>4, Zenon
<1>3. MarksTrue
  <2>1. \A s \in Specs : sp.pages[s].spec # <<>> => sp.pages[s].unmoved \subseteq Pending(sp.pages[s].spec[1])
    BY <1>1, Zenon DEF ClientOk, PageOk
  <2>2. PICK S : sp.due \in Seq(S) /\ \A k \in S : DueOk(k, sp.pages)
    BY <1>1, Zenon DEF ClientOk
  <2>3. \A i \in DOMAIN sp.due : sp.due[i] \in S
    BY <2>2
  <2>4. \A i \in DOMAIN sp.due : DueOk(sp.due[i], sp.pages)
    BY <2>2, <2>3
  <2>5. "note" # "all"
    OBVIOUS
  <2>6. \A i \in DOMAIN sp.due :
          sp.due[i].kind = "note" /\ sp.pages[sp.due[i].page].spec # <<>> =>
            sp.pages[sp.due[i].page].missed \/ sp.pages[sp.due[i].page].spec[1].ver >= sp.due[i].at
    BY <2>4, <2>5 DEF DueOk
  <2>7. QED
    BY <2>1, <2>6, Zenon DEF MarksTrue
<1>4. RunsWhatWasPicked
  <2> SUFFICES ASSUME NEW ch \in SpecChats, NEW i \in DOMAIN sp.sends[ch]
               PROVE  LET e == sp.sends[ch][i]
                      IN  e.row # All => e.text = e.picked /\ (e.missed \/ e.read >= e.at)
    BY Zenon DEF RunsWhatWasPicked
  <2>1. PICK S : sp.sends[ch] \in Seq(S) /\ \A e \in S : SentOk(e)
    BY <1>1, Zenon DEF ClientOk, SentQueue
  <2>2. sp.sends[ch][i] \in S
    BY <2>1
  <2>3. SentOk(sp.sends[ch][i])
    BY <2>1, <2>2
  <2>4. QED
    BY <2>3, Zenon DEF SentOk
<1>5. AnswersRunOnce
  <2> SUFFICES ASSUME NEW s \in Specs PROVE sp.fired[s] <= sp.owed[s]
    BY DEF AnswersRunOnce
  <2>1. /\ Room(sp, s, 0) /\ ToCome(sp.pages[s], sp.due, s) \in Nat
        /\ sp.fired[s] \in Nat /\ sp.owed[s] \in Nat
    BY <1>1, RoomForNone
  <2>2. QED
    BY <2>1 DEF Room
<1>6. QED
  BY <1>2, <1>3, <1>4, <1>5 DEF SpecRuns

\* The page of a spec ends up showing its file, marks only what the file still has open, sends a
\* task as it was picked, and runs an answered checkpoint once.
THEOREM SpecRunsAsPicked == SpecInit /\ [][SpecNext]_spvars => []SpecRuns
<1>1. SpecInit => SpecInv
  BY SpecInvInit
<1>2. SpecInv /\ [SpecNext]_spvars => SpecInv'
  BY SpecInvStep
<1>3. SpecInv => SpecRuns
  BY SpecInvShows
<1>4. QED
  BY <1>1, <1>2, <1>3, PTL

=============================================================================
