-------------------------- MODULE ClientTranscript --------------------------
(***************************************************************************)
(* The transcript window of one chat in the web client (static-src):       *)
(* store.ts, store-load.ts, handlers/entries.ts, handlers/turn.ts and the  *)
(* part of sse-adapter.ts that keeps the two channels together.            *)
(*                                                                         *)
(* The client holds a window of turns.  Frames of the event stream extend  *)
(* it, pages (GET /api/chats/{id}) replace its newest part, range reads    *)
(* (GET .../turns/{turn}) repair one turn, a revert cuts it, the idle      *)
(* sweep evicts it.  Frames are FIFO; a read is answered at one moment and *)
(* its answer lands at a later one, so either channel may be behind the    *)
(* other.  The server (its entry log, EntryLog.tla) is the environment:    *)
(* turns, one coalescing text entry per turn, closes and reverts.          *)
(*                                                                         *)
(* An entry's text is its count of deltas, an entry's place its index (seq *)
(* is index - 1).  One lane.                                               *)
(***************************************************************************)
EXTENDS Integers, Sequences, FiniteSets, SequencesExt

CONSTANTS
    MaxTurns,      \* turns the server mints
    MaxEntries,    \* entries of one turn
    Scenarios      \* the bounds of one behaviour: rewinds, lost streams, wakes, failed
                   \* reads, evictions and older pages that may still happen, frames on
                   \* the wire at once, turns of one page, deltas of one text entry, and
                   \* the entries the decoder refuses, as <<turn, index>>

ASSUME BoundsAssumption ==
    /\ {MaxTurns, MaxEntries} \subseteq Nat \ {0}
    /\ \A s \in Scenarios :
         /\ {s.reverts, s.breaks, s.wakes, s.fails, s.sweeps, s.olders} \subseteq Nat
         /\ {s.wire, s.deltas} \subseteq Nat \ {0} /\ s.page \in Nat /\ s.page >= s.wire
         /\ s.bad \subseteq (1..MaxTurns) \X (1..MaxEntries)

VARIABLES
    \* the server
    slog,       \* turn -> its entries
    stail,      \* turn -> its coalescing entry, or NoTail
    hidden,     \* the turns a revert took
    sver,       \* the `chat` subject's version
    wire,       \* frames on their way, oldest first
    \* the client's window
    order,      \* turn_order
    held,       \* turns: turn -> [entries, tail], or NoTurn
    residency,
    reverted,   \* the turns a revert frame dropped
    count,      \* turn_count
    hasMore,
    turnOpen,   \* the server's last `live` statement
    thinking,
    active,     \* this chat is the one on screen
    vers,       \* the version map: [chat, live]
    \* the client's reads, and the stream's revalidation
    load,       \* the page load in flight, or NoLoad
    repairs,    \* turn -> its range read in flight, or NoRead
    reval,      \* "none", "owed", or "running"
    budget      \* what is left of the behaviour's scenario

server == <<slog, stail, hidden, sver>>
window == <<order, held, residency, reverted, count, hasMore>>
facts == <<turnOpen, thinking, active>>
reads == <<load, repairs>>
vars == <<server, wire, window, facts, vers, reads, reval, budget>>

Turns == 1..MaxTurns
Undecodable == budget.bad
NoTail == [id |-> 0, n |-> 0]
NoTurn == [entries |-> <<>>, tail |-> NoTail]
NoRead == [from |-> -1]
NoLoad == [newest |-> FALSE, before |-> 0]
Pending == [ok |-> FALSE, served |-> FALSE]
Failed == [ok |-> FALSE, served |-> TRUE]
NoVersion == -1

MaxOf(a, b) == IF a > b THEN a ELSE b

-----------------------------------------------------------------------------
(* The server: what the log serves, and the frame each change publishes.   *)

Opened == {t \in Turns : slog[t] # <<>>}
Visible == Opened \ hidden
ClosedLog(es) == \E i \in DOMAIN es : es[i].kind = "turn_close"
OpenTurns == {t \in Opened : ~ClosedLog(slog[t])}
Ordinal(es) == es[1].n
Newest(ts) == CHOOSE t \in ts : \A u \in ts : u <= t
VisibleSeq == SetToSortSeq(Visible, <)
TurnCount == IF Visible = {} THEN 0 ELSE Ordinal(slog[Newest(Visible)])
NewID(t) == Len(slog[t]) + 1

Publish(f) == /\ Len(wire) < budget.wire
              /\ wire' = Append(wire, f)

ServerStep == UNCHANGED <<window, facts, vers, reads, reval>>

AppendLog(t, e) ==
    /\ Len(slog[t]) < MaxEntries
    /\ slog' = [slog EXCEPT ![t] = Append(@, e)]

\* A chat has at most two open turns: the slot's own, and one admitted behind it.
SOpenTurn ==
    /\ Cardinality(Opened) < MaxTurns /\ Cardinality(OpenTurns) < 2
    /\ LET t == Cardinality(Opened) + 1
           e == [id |-> 1, kind |-> "turn_open", n |-> TurnCount + 1]
       IN /\ slog' = [slog EXCEPT ![t] = <<e>>]
          /\ Publish([kind |-> "turn_opened", turn |-> t, seq |-> 1, entry |-> e])
    /\ sver' = sver + 1
    /\ UNCHANGED <<stail, hidden, budget>> /\ ServerStep

SOpenText(t) ==
    /\ t \in OpenTurns /\ stail[t] = NoTail /\ Len(slog[t]) + 1 < MaxEntries
    /\ stail' = [stail EXCEPT ![t] = [id |-> NewID(t), n |-> 1]]
    /\ Publish([kind |-> "entry_opened", turn |-> t, open |-> stail'[t]])
    /\ UNCHANGED <<slog, hidden, sver, budget>> /\ ServerStep

SDelta(t) ==
    /\ stail[t] # NoTail /\ stail[t].n < budget.deltas
    /\ stail' = [stail EXCEPT ![t].n = @ + 1]
    /\ Publish([kind |-> "entry_delta", turn |-> t, open |-> stail'[t]])
    /\ UNCHANGED <<slog, hidden, sver, budget>> /\ ServerStep

SSeal(t) ==
    /\ stail[t] # NoTail
    /\ AppendLog(t, [id |-> stail[t].id, kind |-> "text", n |-> stail[t].n])
    /\ stail' = [stail EXCEPT ![t] = NoTail]
    /\ Publish([kind |-> "entry_sealed", turn |-> t, seq |-> Len(slog'[t]), open |-> stail[t]])
    /\ UNCHANGED <<hidden, sver, budget>> /\ ServerStep

SClose(t) ==
    /\ t \in OpenTurns /\ stail[t] = NoTail
    /\ AppendLog(t, [id |-> NewID(t), kind |-> "turn_close", n |-> 0])
    /\ Publish([kind |-> "turn_closed", turn |-> t, seq |-> Len(slog'[t]), entry |-> Last(slog'[t])])
    /\ sver' = sver + 1
    /\ UNCHANGED <<stail, hidden, budget>> /\ ServerStep

\* A rewind to turn f: the record goes to the newest survivor, and hides f and what follows.
SRevert(f) ==
    /\ budget.reverts > 0 /\ f \in Visible /\ OpenTurns = {}
    /\ LET kept == {t \in Visible : Ordinal(slog[t]) < Ordinal(slog[f])}
           carrier == Newest(kept)
       IN /\ kept # {}
          /\ AppendLog(carrier, [id |-> NewID(carrier), kind |-> "turn_revert", n |-> Ordinal(slog[f])])
          /\ hidden' = hidden \cup (Visible \ kept)
          /\ Publish([kind |-> "entry_appended", turn |-> carrier,
                      seq |-> Len(slog'[carrier]), entry |-> Last(slog'[carrier])])
    /\ sver' = sver + 1
    /\ budget' = [budget EXCEPT !.reverts = @ - 1]
    /\ UNCHANGED stail /\ ServerStep

-----------------------------------------------------------------------------
(* store.ts: the five operations over the window.                          *)

Holds(t) == held[t] # NoTurn
HeldSet == {t \in Turns : Holds(t)}
HasClose(s) == ClosedLog(s.entries)
DerivedHasMore(c, n) == c > n

MarkWindowStale(r) == IF r = "loaded" THEN "partial" ELSE r
NoteResidentMutation(r) == IF r = "evicted" THEN "partial" ELSE r

\* runTurnRange's in-flight guard: one read per turn, a second ask is dropped.
RequestTurnRange(reps, t, from) ==
    IF reps[t] # NoRead THEN reps
    ELSE [reps EXCEPT ![t] = [from |-> from, ans |-> Pending]]

MarkHole(t, from) ==
    /\ residency' = MarkWindowStale(residency)
    /\ repairs' = RequestTurnRange(repairs, t, from)
    /\ UNCHANGED <<order, held, reverted, count, hasMore, load>>

Ignored == UNCHANGED <<window, reads>>

OpenTurn(t, e) ==
    IF Holds(t) THEN Ignored
    ELSE /\ residency' = NoteResidentMutation(residency)
         /\ held' = [held EXCEPT ![t] = [entries |-> <<e>>, tail |-> NoTail]]
         /\ order' = Append(order, t)
         /\ count' = MaxOf(count, e.n)
         /\ hasMore' = DerivedHasMore(count', Len(order'))
         /\ UNCHANGED <<reverted, reads>>

NewestLoad(r) ==
    [newest |-> TRUE, before |-> 0, at |-> ToSet(order'), ans |-> Pending, reval |-> r]

\* abortReadsForRevert: the page load goes (a newest one is asked again), and so do the
\* range reads of the turns just dropped.
AbortReadsForRevert(reps, dropped) ==
    /\ load' = IF load # NoLoad /\ load.newest THEN NewestLoad(FALSE) ELSE NoLoad
    /\ repairs' = [t \in Turns |-> IF t \in dropped THEN NoRead ELSE reps[t]]

DroppedBy(h, carrier, fromN) ==
    {t \in ToSet(order) \ {carrier} : h[t] # NoTurn /\ Ordinal(h[t].entries) >= fromN}

ApplyRevert(h, carrier, fromN) ==
    LET dropped == DroppedBy(h, carrier, fromN)
    IN /\ held' = [t \in Turns |-> IF t \in dropped THEN NoTurn ELSE h[t]]
       /\ order' = SelectSeq(order, LAMBDA t : t \notin dropped)
       /\ reverted' = reverted \cup dropped
       /\ AbortReadsForRevert(repairs, dropped)
       /\ count' = MaxOf(fromN - 1, IF h[carrier] = NoTurn THEN 0 ELSE Ordinal(h[carrier].entries))
       /\ hasMore' = DerivedHasMore(count', Len(order'))

\* appendEntry over a window h (the seal hands it h with the tail taken out).
AppendEntry(h, t, seq, e) ==
    IF h[t] = NoTurn
    THEN IF e.kind = "turn_revert"
         THEN ApplyRevert(h, t, e.n) /\ UNCHANGED residency
         ELSE MarkHole(t, 0)
    ELSE IF seq # Len(h[t].entries) + 1
    THEN IF seq \in DOMAIN h[t].entries /\ h[t].entries[seq].id = e.id
         THEN held' = h /\ UNCHANGED <<order, residency, reverted, count, hasMore, reads>>
         ELSE /\ residency' = MarkWindowStale(residency)
              /\ repairs' = RequestTurnRange(repairs, t, Len(h[t].entries))
              /\ held' = h
              /\ UNCHANGED <<order, reverted, count, hasMore, load>>
    ELSE /\ residency' = NoteResidentMutation(residency)
         /\ LET g == [h EXCEPT ![t].entries = Append(@, e)]
            IN IF e.kind = "turn_revert" THEN ApplyRevert(g, t, e.n)
               ELSE held' = g /\ UNCHANGED <<order, reverted, count, hasMore, reads>>

OpenEntry(t, open) ==
    IF ~Holds(t) THEN MarkHole(t, 0)
    ELSE /\ held' = [held EXCEPT ![t].tail = open]
         /\ UNCHANGED <<order, residency, reverted, count, hasMore, reads>>

ApplyDelta(t, id, n) ==
    IF ~Holds(t) THEN MarkHole(t, 0)
    ELSE IF held[t].tail.id # id \/ n # held[t].tail.n + 1
    THEN MarkHole(t, Len(held[t].entries))
    ELSE /\ held' = [held EXCEPT ![t].tail.n = n]
         /\ UNCHANGED <<order, residency, reverted, count, hasMore, reads>>

\* A mutant of SealEntry: the entry is taken for the next one, whatever its number.
SealUncounted(t, id, seq, n) ==
    IF ~Holds(t) THEN MarkHole(t, 0)
    ELSE IF held[t].tail.id # id THEN MarkHole(t, Len(held[t].entries))
    ELSE AppendEntry([held EXCEPT ![t].tail = NoTail], t, seq,
                     [id |-> id, kind |-> "text", n |-> held[t].tail.n])

\* sealEntry: only the tail this client built whole becomes the entry; else it is a hole.
SealEntry(t, id, seq, n) ==
    IF ~Holds(t) THEN MarkHole(t, 0)
    ELSE IF held[t].tail.id # id \/ n # held[t].tail.n
    THEN MarkHole(t, Len(held[t].entries))
    ELSE AppendEntry([held EXCEPT ![t].tail = NoTail], t, seq,
                     [id |-> id, kind |-> "text", n |-> held[t].tail.n])

-----------------------------------------------------------------------------
(* handlers/entries.ts and handlers/turn.ts: one frame, one store call.    *)

\* markTurnLive: the latch moves on the transition alone, and setThinking(true) forgets the
\* server's last liveness statement.
MarkTurnLive ==
    /\ thinking' = TRUE
    /\ turnOpen' = IF thinking THEN turnOpen ELSE "unstated"
    /\ UNCHANGED active

AnotherTurnOpen(h, t) == \E u \in Turns \ {t} : h[u] # NoTurn /\ ~HasClose(h[u])

\* turn_closed: the append, and the teardown when no other held turn is open.
TurnClosed(f) ==
    /\ AppendEntry(held, f.turn, f.seq, f.entry)
    /\ IF AnotherTurnOpen(held', f.turn) THEN UNCHANGED facts
       ELSE turnOpen' = "false" /\ thinking' = FALSE /\ UNCHANGED active

Handle(f) ==
    CASE f.kind = "turn_opened" -> OpenTurn(f.turn, f.entry) /\ UNCHANGED facts
      [] f.kind = "entry_opened" -> OpenEntry(f.turn, f.open) /\ MarkTurnLive
      [] f.kind = "entry_delta" -> ApplyDelta(f.turn, f.open.id, f.open.n) /\ MarkTurnLive
      [] f.kind = "entry_sealed" -> SealEntry(f.turn, f.open.id, f.seq, f.open.n) /\ UNCHANGED facts
      [] f.kind = "entry_appended" -> AppendEntry(held, f.turn, f.seq, f.entry) /\ UNCHANGED facts
      [] f.kind = "turn_closed" -> TurnClosed(f)

Decodes(f) == "entry" \in DOMAIN f => <<f.turn, f.seq>> \notin Undecodable

\* applyFrame and deliver.  Entry frames carry no stamp, so the map does not move.
DeliverFrame ==
    /\ wire # <<>> /\ reval = "none" /\ Decodes(Head(wire))
    /\ wire' = Tail(wire)
    /\ Handle(Head(wire))
    /\ UNCHANGED <<server, vers, reval, budget>>

\* salvageUndecodable, and the throw that makes the library revalidate.
SalvageFrame ==
    /\ wire # <<>> /\ reval = "none" /\ ~Decodes(Head(wire))
    /\ wire' = Tail(wire)
    /\ repairs' = RequestTurnRange(repairs, Head(wire).turn, 0)
    /\ reval' = "owed"
    /\ UNCHANGED <<server, window, facts, vers, load, budget>>

-----------------------------------------------------------------------------
(* store-load.ts: pages.                                                   *)

PageOf(l) ==
    LET older == {t \in Visible : t < l.before}
        seq == IF l.newest THEN VisibleSeq ELSE SetToSortSeq(older, <)
    IN [turns |-> SubSeq(seq, MaxOf(1, Len(seq) - budget.page + 1), Len(seq)),
        more |-> Len(seq) > budget.page]

\* The server's answer, read in one piece: whole turns, their tails, the stamps.
ServePage ==
    /\ load # NoLoad /\ ~load.ans.served
    /\ load' = [load EXCEPT !.ans =
         IF ~load.newest /\ load.before \notin Visible THEN Failed
         ELSE [ok |-> TRUE, served |-> TRUE, page |-> PageOf(load), log |-> slog,
               tails |-> IF load.newest THEN stail ELSE [t \in Turns |-> NoTail],
               ver |-> sver, live |-> OpenTurns, count |-> TurnCount]]
    /\ UNCHANGED <<server, wire, window, facts, vers, repairs, reval, budget>>

\* buildPageTurns: the entries of a turn up to the first one that did not decode, and the
\* gap, when an entry or a tail past it shows one.
Decoded(t, es, from) ==
    LET bad == {i \in DOMAIN es : i >= from /\ <<t, i>> \in Undecodable}
    IN IF bad = {} THEN Len(es) ELSE (CHOOSE i \in bad : \A j \in bad : i <= j) - 1
GapSeen(t, es, tail) ==
    LET k == Decoded(t, es, 1)
    IN \/ \E i \in (k + 2)..Len(es) : <<t, i>> \notin Undecodable
       \/ k = 0 /\ tail # NoTail

PageTurn(a, t) ==
    LET k == Decoded(t, a.log[t], 1)
    IN IF k = 0 THEN NoTurn ELSE [entries |-> SubSeq(a.log[t], 1, k), tail |-> a.tails[t]]
PageOrder(a) == SelectSeq(a.page.turns, LAMBDA t : PageTurn(a, t) # NoTurn)
PageHoles(a) == {t \in ToSet(a.page.turns) : GapSeen(t, a.log[t], a.tails[t])}

\* mergeTurn: what landed during the flight goes back on past the page's end.
MergeTurn(page, h) ==
    LET es == page.entries \o SubSeq(h.entries, Len(page.entries) + 1, Len(h.entries))
        sealed == {es[i].id : i \in DOMAIN es}
        keep == /\ h.tail # NoTail /\ h.tail.id \notin sealed
                /\ \/ page.tail = NoTail
                   \/ page.tail.id = h.tail.id /\ h.tail.n > page.tail.n
    IN [entries |-> es, tail |-> IF keep THEN h.tail ELSE page.tail]

IndexIn(s, t) == IF \E i \in DOMAIN s : s[i] = t THEN CHOOSE i \in DOMAIN s : s[i] = t ELSE 0

Kept(a) == LET p == PageOrder(a) IN
    IF p = <<>> THEN <<>> ELSE SubSeq(order, 1, IndexIn(order, Head(p)) - 1)
ArrivedUnfiltered(a, at) == LET p == PageOrder(a)
                                i == IF p = <<>> THEN 0 ELSE IndexIn(order, Last(p)) IN
    IF i = 0 THEN <<>>
    ELSE SelectSeq(SubSeq(order, i + 1, Len(order)), LAMBDA t : t \notin ToSet(p))
Arrived(a, at) == LET p == PageOrder(a)
                      i == IF p = <<>> THEN 0 ELSE IndexIn(order, Last(p)) IN
    IF i = 0 THEN <<>>
    ELSE SelectSeq(SubSeq(order, i + 1, Len(order)), LAMBDA t : t \notin ToSet(p) \cup at)

\* applyPage, newest page: kept older turns, the page's, and the arrivals.
ApplyNewest(a, at) ==
    LET page == PageOrder(a)
        others == ToSet(Kept(a)) \cup ToSet(Arrived(a, at))
    IN /\ held' = [t \in Turns |->
             IF t \in ToSet(page)
             THEN IF Holds(t) THEN MergeTurn(PageTurn(a, t), held[t]) ELSE PageTurn(a, t)
             ELSE IF t \in others THEN held[t] ELSE NoTurn]
       /\ order' = SelectSeq(Kept(a) \o page \o Arrived(a, at), LAMBDA t : held'[t] # NoTurn)

\* applyPage, older page: the turns not held yet go in front.
ApplyOlder(a) ==
    LET fresh == SelectSeq(PageOrder(a), LAMBDA t : ~Holds(t))
    IN /\ held' = [t \in Turns |-> IF t \in ToSet(fresh) THEN PageTurn(a, t) ELSE held[t]]
       /\ order' = fresh \o order

RequestHoles(reps, a) ==
    [t \in Turns |-> IF t \in PageHoles(a) /\ reps[t] = NoRead
                     THEN [from |-> Decoded(t, a.log[t], 1), ans |-> Pending] ELSE reps[t]]

\* loadMessages' second half, its answer in hand.
LoadLands ==
    /\ load # NoLoad /\ load.ans.ok
    /\ LET a == load.ans
           startsWindow == ~load.newest \/ Kept(a) = <<>>
       IN /\ IF load.newest THEN ApplyNewest(a, load.at) ELSE ApplyOlder(a)
          /\ count' = a.count
          /\ hasMore' = IF startsWindow THEN a.page.more
                        ELSE DerivedHasMore(count', Len(order'))
          /\ residency' = LET r == IF load.newest THEN "loaded" ELSE residency
                          IN IF PageHoles(a) # {} THEN MarkWindowStale(r) ELSE r
          /\ repairs' = RequestHoles(repairs, a)
          /\ IF load.newest
             THEN /\ turnOpen' = IF a.live # {} THEN "true" ELSE "false"
                  /\ thinking' = (thinking /\ a.live # {})
                  /\ vers' = [chat |-> a.ver,
                              live |-> [t \in Turns |-> IF t \in a.live \cap ToSet(a.page.turns)
                                        THEN Len(a.log[t]) ELSE vers.live[t]]]
             ELSE UNCHANGED <<turnOpen, thinking, vers>>
    /\ load' = NoLoad
    /\ UNCHANGED <<server, wire, reverted, active, reval, budget>>

\* A load with no answer: a newest page's failure is the window's residency.
LoadFails ==
    /\ load # NoLoad
    /\ \/ load.ans = Failed /\ UNCHANGED budget
       \/ budget.fails > 0 /\ budget' = [budget EXCEPT !.fails = @ - 1]
    /\ residency' = IF load.newest THEN "load_failed" ELSE residency
    /\ load' = NoLoad
    /\ UNCHANGED <<server, wire, order, held, reverted, count, hasMore, facts, vers, repairs, reval>>

-----------------------------------------------------------------------------
(* store-load.ts: the range read.                                          *)

ServeRange(t) ==
    /\ repairs[t] # NoRead /\ ~repairs[t].ans.served
    /\ repairs' = [repairs EXCEPT ![t].ans =
         IF t \notin Visible THEN Failed
         ELSE [ok |-> TRUE, served |-> TRUE, log |-> slog[t], tail |-> stail[t],
               open |-> t \in OpenTurns]]
    /\ UNCHANGED <<server, wire, window, facts, vers, load, reval, budget>>

InsertByOrdinal(t, s) ==
    LET above == {i \in DOMAIN order : Ordinal(held[order[i]].entries) > Ordinal(s.entries)}
        at == IF above = {} THEN Len(order) + 1 ELSE CHOOSE i \in above : \A j \in above : i <= j
    IN InsertAt(order, at, t)

\* The answer's decoded entries that are seated: from the held end on, contiguously.
SeatedEnd(t, r) ==
    LET have == Len(held[t].entries)
    IN IF /\ r.from <= have /\ have < Len(r.ans.log)
          /\ \A i \in (r.from + 1)..have : <<t, i>> \in Undecodable
       THEN Decoded(t, r.ans.log, have + 1)
       ELSE have
AnswerSize(t, r) == Cardinality({i \in (r.from + 1)..Len(r.ans.log) : <<t, i>> \notin Undecodable})

Reasks(applied, size) == applied < size /\ applied > 0

\* applyTurnRange, after the read released its slot; then the answer's stamps.
RangeLands(t) ==
    /\ repairs[t] # NoRead /\ repairs[t].ans.ok
    /\ LET r == repairs[t]
           free == [repairs EXCEPT ![t] = NoRead]
           end == SeatedEnd(t, r)
           applied == end - Len(held[t].entries)
           gap == applied < AnswerSize(t, r)
           seat == [entries |-> held[t].entries \o SubSeq(r.ans.log, Len(held[t].entries) + 1, end),
                    tail |-> r.ans.tail]
       IN /\ IF t \in reverted \/ seat.entries = <<>>
             THEN repairs' = free /\ UNCHANGED <<order, held, residency>>
             ELSE /\ held' = [held EXCEPT ![t] = seat]
                  /\ order' = IF Holds(t) THEN order ELSE InsertByOrdinal(t, seat)
                  /\ repairs' = IF Reasks(applied, AnswerSize(t, r)) THEN RequestTurnRange(free, t, end) ELSE free
                  /\ residency' = IF ~gap /\ residency = "partial"
                                     /\ \A u \in Turns : free[u] = NoRead
                                  THEN "loaded" ELSE residency
          /\ vers' = IF r.ans.open THEN [vers EXCEPT !.live[t] = MaxOf(r.from, Len(r.ans.log))] ELSE vers
    /\ UNCHANGED <<server, wire, reverted, count, hasMore, facts, load, reval, budget>>

RangeFails(t) ==
    /\ repairs[t] # NoRead
    /\ \/ repairs[t].ans = Failed /\ UNCHANGED budget
       \/ budget.fails > 0 /\ budget' = [budget EXCEPT !.fails = @ - 1]
    /\ repairs' = [repairs EXCEPT ![t] = NoRead]
    /\ UNCHANGED <<server, wire, window, facts, vers, load, reval>>

-----------------------------------------------------------------------------
(* The stream's life, activation and eviction.                             *)

\* The stream is lost past its replay ring: what was on the wire is gone, and the fresh
\* hello owes a revalidation.
StreamBreaks ==
    /\ budget.breaks > 0
    /\ wire' = <<>> /\ reval' = "owed"
    /\ budget' = [budget EXCEPT !.breaks = @ - 1]
    /\ UNCHANGED <<server, window, facts, vers, reads>>

Wake ==
    /\ budget.wakes > 0 /\ reval = "none"
    /\ reval' = "owed"
    /\ budget' = [budget EXCEPT !.wakes = @ - 1]
    /\ UNCHANGED <<server, wire, window, facts, vers, reads>>

\* revalidate and applyVerdict: the digest compares the versions held, a moved chat is a
\* page load, a moved or closed live turn a range read.
Moved == {t \in Turns : vers.live[t] # NoVersion /\ (t \notin OpenTurns \/ vers.live[t] # Len(slog[t]))}
Revalidate ==
    /\ reval = "owed"
    /\ repairs' = [t \in Turns |-> IF t \in Moved /\ Holds(t) /\ repairs[t] = NoRead
                    THEN [from |-> Len(held[t].entries), ans |-> Pending] ELSE repairs[t]]
    /\ vers' = [vers EXCEPT !.live = [t \in Turns |-> IF t \in OpenTurns THEN @[t] ELSE NoVersion]]
    /\ IF vers.chat \notin {NoVersion, sver}
       THEN /\ order' = order /\ load' = NewestLoad(TRUE) /\ reval' = "running"
            /\ UNCHANGED <<held, residency, reverted, count, hasMore>>
       ELSE reval' = "none" /\ UNCHANGED <<window, load>>
    /\ UNCHANGED <<server, wire, facts, budget>>

\* The run settles when its load has; a run that times out aborts it.
RevalSettles ==
    /\ reval = "running"
    /\ reval' = "none"
    /\ IF load # NoLoad /\ load.reval
       THEN /\ budget.fails > 0 /\ budget' = [budget EXCEPT !.fails = @ - 1]
            /\ load' = NoLoad
       ELSE UNCHANGED <<load, budget>>
    /\ UNCHANGED <<server, wire, window, facts, vers, repairs>>

TranscriptStale == residency # "loaded" \/ vers.chat = NoVersion

\* activateChatView and refreshChatView: a stale window is loaded, a fresh one trusted.
Activate ==
    /\ ~active
    /\ active' = TRUE
    /\ IF TranscriptStale THEN order' = order /\ load' = NewestLoad(FALSE)
       ELSE UNCHANGED <<order, load>>
    /\ UNCHANGED <<server, wire, held, residency, reverted, count, hasMore, turnOpen, thinking,
                   vers, repairs, reval, budget>>

\* The reader goes to another chat, and the idle sweep finds this one.
Evict ==
    /\ budget.sweeps > 0 /\ order # <<>> /\ ~thinking
    /\ budget' = [budget EXCEPT !.sweeps = @ - 1]
    /\ active' = FALSE
    /\ held' = [t \in Turns |-> NoTurn] /\ order' = <<>>
    /\ hasMore' = DerivedHasMore(count, 0)
    /\ residency' = "evicted"
    /\ vers' = [vers EXCEPT !.chat = NoVersion]
    /\ UNCHANGED <<server, wire, reverted, count, turnOpen, thinking, reads, reval>>

\* setupLoadMore's handler: the page before the oldest held turn.
LoadOlder ==
    /\ active /\ hasMore /\ order # <<>> /\ load = NoLoad /\ budget.olders > 0
    /\ budget' = [budget EXCEPT !.olders = @ - 1]
    /\ load' = [newest |-> FALSE, before |-> Head(order), at |-> {}, ans |-> Pending, reval |-> FALSE]
    /\ UNCHANGED <<server, wire, window, facts, vers, repairs, reval>>

Init ==
    /\ slog = [t \in Turns |-> <<>>] /\ stail = [t \in Turns |-> NoTail]
    /\ hidden = {} /\ sver = 0 /\ wire = <<>>
    /\ order = <<>> /\ held = [t \in Turns |-> NoTurn]
    /\ residency = "loaded" /\ reverted = {} /\ count = 0 /\ hasMore = FALSE
    /\ turnOpen = "false" /\ thinking = FALSE /\ active = TRUE
    /\ vers = [chat |-> 0, live |-> [t \in Turns |-> NoVersion]]
    /\ load = NoLoad /\ repairs = [t \in Turns |-> NoRead] /\ reval = "none"
    /\ budget \in Scenarios

ServerNext == SOpenTurn \/ \E t \in Turns : SOpenText(t) \/ SDelta(t) \/ SSeal(t) \/ SClose(t) \/ SRevert(t)
ReadNext == \/ ServePage \/ LoadLands \/ LoadFails
            \/ \E t \in Turns : ServeRange(t) \/ RangeLands(t) \/ RangeFails(t)
StreamNext == DeliverFrame \/ SalvageFrame \/ Revalidate \/ RevalSettles
ReaderNext == StreamBreaks \/ Wake \/ Activate \/ Evict \/ LoadOlder

Next == ServerNext \/ ReadNext \/ StreamNext \/ ReaderNext
Spec == Init /\ [][Next]_vars

-----------------------------------------------------------------------------
IsPrefixOf(s, l) == Len(s) <= Len(l) /\ s = SubSeq(l, 1, Len(s))

TypeOK ==
    /\ residency \in {"loaded", "partial", "evicted", "load_failed"}
    /\ reverted \subseteq Turns /\ count \in 0..MaxTurns /\ hasMore \in BOOLEAN
    /\ turnOpen \in {"true", "false", "unstated"} /\ thinking \in BOOLEAN /\ active \in BOOLEAN
    /\ reval \in {"none", "owed", "running"}

\* Whatever the order of frames, pages and repairs, a held turn is a prefix of the log's:
\* no entry is held twice, at a wrong place, or with text the server did not seal.
WindowHolds == \A t \in Turns : IsPrefixOf(held[t].entries, slog[t])

Quiet == wire = <<>> /\ reval = "none" /\ load = NoLoad /\ \A t \in Turns : repairs[t] = NoRead

\* turn_order lists the turns the window holds, each once, whatever a page, an older page, a
\* repair seated by its ordinal, a frame and a revert do to it in turn.
OrderListsHeld == ToSet(order) = HeldSet /\ Len(order) = Cardinality(HeldSet)

\* A turn that went with a rewind stays out, whatever answers and frames of before it are
\* still to come.  One rewind, and entries that decode: with two of them under way, or with
\* a carrier whose page stopped at a refused entry, a page read ahead of the frames holds
\* turns that are newer than the rewind and wear the numbers it names (see the README).
Rewinds == {e \in Turns \X (1..MaxEntries) :
              e[2] \in DOMAIN slog[e[1]] /\ slog[e[1]][e[2]].kind = "turn_revert"}
RewoundStaysOut ==
    Undecodable = {} /\ Cardinality(Rewinds) = 1 => \A t \in reverted : ~Holds(t)

\* A newest page that is still true when it lands makes its part of the window the server's,
\* whatever frames, repairs, reverts and failed reads went before.
PageIsServers(h, ts, at) ==
    /\ \A t \in ts : (\A i \in 1..MaxEntries : <<t, i>> \notin Undecodable)
                     => h[t] = [entries |-> slog[t], tail |-> stail[t]]
    /\ \A t \in at \ ts : \A u \in ts : h[t] # NoTurn => t < u
PageHeals ==
    [][(/\ LoadLands /\ load.newest
        /\ load.ans.log = slog /\ load.ans.tails = stail /\ load.ans.ver = sver)
       => PageIsServers(held', ToSet(load.ans.page.turns), load.at)]_vars

\* The reads keep the window the server's: its order is that of what it holds, no answer
\* brings back what a rewind took, and a page that is still true leaves nothing else standing.
ReadsHold == [](TypeOK /\ OrderListsHeld /\ RewoundStaysOut) /\ PageHeals

=============================================================================
