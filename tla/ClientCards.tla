---------------------------- MODULE ClientCards ----------------------------
(***************************************************************************)
(* The cards of a turn's tool calls (static-src/messages-tools.ts,         *)
(* tool-card.ts, tool-group.ts, tool-bulk.ts, tool-silence.ts and the tool *)
(* half of store.ts): what a command prints reaches its card by four       *)
(* roads, chunks of its terminal, progress, the result and a later fetch   *)
(* of the whole; cards are mounted late, dropped, parked and rebuilt, and  *)
(* the box around them folds itself.  Output is a sequence of parts.       *)
(***************************************************************************)
EXTENDS Integers, Sequences, FiniteSets, SequencesExt, FiniteSetsExt

CONSTANTS
    MaxHeld,        \* PENDING_CHARS_CAP: parts held for a terminal nobody claimed
    HeldTerminals,  \* PENDING_TERMINALS_CAP
    MaxParked,      \* PARKED_TERM_CHARS_CAP
    LiveCap,        \* LIVE_OUTPUT_CHARS_CAP
    PreviewParts,   \* what the transcript's own answer keeps of an output
    MaxRetained,    \* MAX_RETAINED_BYTES
    CardScenarios   \* the calls, and what may happen how often

VARIABLES
    cd,     \* the page
    cw,     \* the server: the calls, their log, and the frames under way
    cdleft  \* how much more of the scenario may happen

cardvars == <<cd, cw, cdleft>>

\* The calls of the turn, in order: [term, early, wide, input, diff].
Plan == cw.plan
Calls == DOMAIN Plan

Spend(what) == cdleft[what] > 0 /\ cdleft' = [cdleft EXCEPT ![what] = @ - 1]

-----------------------------------------------------------------------------
(* A call, as it was created, as it settled and as the transcript serves it. *)

IsToolDone(st) == st # "running"

Parts(n) == [i \in 1 .. n |-> i]

\* A created call names its terminal early or not at all.
Created(c) == [st |-> "running", term |-> c.term /\ c.early, out |-> <<>>, full |-> FALSE, diff |-> FALSE]

ResultOf(c, st, n) ==
    [st |-> st, term |-> c.term, out |-> Parts(n), full |-> FALSE, diff |-> c.diff /\ st = "done"]

\* previewEntry: an output cut to its window, diffs and inputs dropped when they are large.
Preview(c, e) ==
    LET cut == [e.val EXCEPT !.out = SubSeq(@, 1, IF Len(@) < PreviewParts THEN Len(@) ELSE PreviewParts),
                             !.diff = @ /\ ~c.wide]
    IN  [e EXCEPT !.val = IF e.what = "call" THEN [e.val EXCEPT !.full = c.wide]
                          ELSE [cut EXCEPT !.full = cut # e.val]]

Previewed(plan, log) == [i \in DOMAIN log |-> IF log[i].k = 0 THEN log[i] ELSE Preview(plan[log[i].k], log[i])]

\* The result's own value over the call's; whether there is more of it is not taken over.
SettledToolCall(call, result) ==
    [call EXCEPT !.st = result.st, !.term = @ \/ result.term, !.diff = @ \/ result.diff,
                 !.out = IF result.out = <<>> THEN @ ELSE result.out]

FoldToolCallDelta(prev, p) ==
    [prev EXCEPT !.term = @ \/ p.term, !.out = @ \o p.delta]

HeldToolCall(d, k) ==
    LET at == {i \in DOMAIN d.log : d.log[i].what = "call" /\ d.log[i].k = k}
    IN  IF at = {} THEN <<>> ELSE <<d.log[CHOOSE i \in at : TRUE].val>>

HeldResult(d, k) ==
    LET at == {i \in DOMAIN d.log : d.log[i].what = "result" /\ d.log[i].k = k}
    IN  IF at = {} THEN <<>> ELSE <<d.log[CHOOSE i \in at : TRUE].val>>

\* What a card is built from, once its call is held.
Joined(d, k) ==
    IF HeldResult(d, k) = <<>> THEN HeldToolCall(d, k)[1]
    ELSE SettledToolCall(HeldToolCall(d, k)[1], HeldResult(d, k)[1])

Holds(d, what) == \E i \in DOMAIN d.log : d.log[i].what = what

PaintsTheSame(shown, next) ==
    shown.st = next.st /\ shown.out = next.out /\ shown.term = next.term /\ shown.diff = next.diff

-----------------------------------------------------------------------------
(* The card and the box around it. *)

Mounted(d) == {k \in DOMAIN d.cards : d.cards[k] # <<>>}
Shows(d, k) == d.cards[k][1]

ApplyOutcome(st) ==
    CASE st = "declined" -> "declined" [] st = "aborted" -> "warn" [] st = "failed" -> "fail"
      [] st = "done" -> "ok" [] OTHER -> "running"

\* What there is to open: a toggle is put on only over something.
IsDisclosable(card) == card.asked \/ card.opts.out # <<>> \/ card.pres # <<>>

RestingDiff(call) == IF call.diff THEN 1 ELSE 0

\* A card at rest: the diff of its call is drawn, its body is not.
BuildToolCard(c, call) ==
    [pres |-> <<>>, built |-> FALSE, opts |-> call, asked |-> c.input, open |-> FALSE, live |-> TRUE,
     oc |-> ApplyOutcome(call.st), flight |-> call.st = "running", awaits |-> FALSE,
     diffs |-> RestingDiff(call), mark |-> FALSE]

\* Drawn over what the first pre shows, or into a pre of its own.
ApplyOutputUpdate(card, out) ==
    [card EXCEPT !.pres = IF @ = <<>> THEN <<out>> ELSE [@ EXCEPT ![1] = out]]

InsertDiffPreview(card) == [card EXCEPT !.diffs = @ + 1]

\* At most one preview of a diff, whichever of an update and the bulk comes first.
ApplyDiffUpdate(card) == IF card.diffs = 0 THEN InsertDiffPreview(card) ELSE card

SyncSilenceMarker(d, k) ==
    [d EXCEPT !.cards[k][1].mark = Shows(d, k).flight /\ d.act[k] = "old"]

Outcomes(d) == {Shows(d, k).oc : k \in Mounted(d)}

\* The worst of what is inside.
PaintGroupOutcome(ocs) ==
    CASE "fail" \in ocs -> "fail" [] "running" \in ocs -> "running" [] "declined" \in ocs -> "declined"
      [] "warn" \in ocs -> "warn" [] OTHER -> "ok"

\* A shell that holds no card yet.
BuildToolGroupShell ==
    [ctl |-> FALSE, open |-> TRUE, auto |-> FALSE, born |-> FALSE, user |-> FALSE, collapsed |-> FALSE,
     followed |-> FALSE, oc |-> "ok"]

GroupIsBare(d) == Cardinality(Mounted(d)) < 2

Quiet(d) == "fail" \notin Outcomes(d) /\ \A k \in Mounted(d) : ~Shows(d, k).flight

BornCollapsed(d) == d.grp.followed /\ ~d.grp.user /\ Quiet(d)

\* The box's region is made with its second card, closed if something follows it.
RefreshGroupHeader(d) ==
    LET made == ~d.grp.ctl /\ ~GroupIsBare(d)
        shut == made /\ BornCollapsed(d)
    IN  [d EXCEPT !.grp = [@ EXCEPT !.ctl = @ \/ made, !.open = @ /\ ~shut, !.auto = @ \/ shut,
                                    !.born = @ \/ shut, !.oc = PaintGroupOutcome(Outcomes(d))]]

\* One that fails inside a box that folded itself opens it again.
MaybeCollapseGroup(d) ==
    IF ~GroupIsBare(d) /\ "fail" \in Outcomes(d) /\ d.grp.auto /\ ~d.grp.user
    THEN RefreshGroupHeader([d EXCEPT !.grp.auto = FALSE, !.grp.born = FALSE, !.grp.open = TRUE]) ELSE d

AutoCollapseGroup(d) ==
    IF GroupIsBare(d) \/ ~d.grp.ctl \/ d.grp.auto \/ d.grp.user \/ d.grp.collapsed \/ ~Quiet(d) THEN d
    ELSE RefreshGroupHeader([d EXCEPT !.grp.auto = TRUE, !.grp.open = FALSE])

-----------------------------------------------------------------------------
(* The whole of a previewed call, fetched once and kept for a while. *)

\* The newest used last; of the settled, the oldest go until the rest fits.
Retained(kept) == FoldLeft(LAMBDA sum, e : sum + e.cost, 0, kept)

Sweep(kept) ==
    LET n == Min({i \in 0 .. Len(kept) : Retained(SubSeq(kept, i + 1, Len(kept))) <= MaxRetained})
    IN  SelectSeq(SubSeq(kept, 1, n), LAMBDA e : ~e.settled) \o SubSeq(kept, n + 1, Len(kept))

Settle(d, k, bulk) ==
    LET rest == SelectSeq(d.kept, LAMBDA e : e.k # k)
        cost == Len(bulk[1].out)
        here == [i \in DOMAIN d.kept |-> IF d.kept[i].k = k THEN [d.kept[i] EXCEPT !.cost = cost, !.settled = TRUE] ELSE d.kept[i]]
    IN  [d EXCEPT !.kept = IF bulk = <<>> \/ cost > MaxRetained THEN rest ELSE Sweep(here)]

\* What a bulk fills in: the whole output in place of the preview, and a diff that was dropped.
ApplyBulk(card, bulk) ==
    LET told == [card EXCEPT !.awaits = FALSE, !.pres = IF bulk.out = <<>> THEN @ ELSE <<bulk.out>>]
    IN  IF bulk.diff THEN ApplyDiffUpdate(told) ELSE told

\* One answer for everybody that asks, while it is out and while it is kept.
ToolCallBulk(d, k) ==
    LET hit == SelectSeq(d.kept, LAMBDA e : e.k = k)
        rest == SelectSeq(d.kept, LAMBDA e : e.k # k)
        entry == [k |-> k, cost |-> 0, settled |-> FALSE]
    IN  IF hit = <<>> THEN [d EXCEPT !.kept = Append(@, entry), !.bulks = @ \cup {k}, !.cards[k][1].awaits = TRUE]
        ELSE IF ~hit[1].settled THEN [d EXCEPT !.kept = rest \o hit, !.cards[k][1].awaits = TRUE]
        ELSE [d EXCEPT !.kept = rest \o hit, !.cards[k][1] = ApplyBulk(@, ResultOf(Plan[k], "done", cw.calls[k].out))]

\* Built once, on the first open, from what the card was mounted with.
DetailsBody(d, k) ==
    LET card == Shows(d, k)
        b == [d EXCEPT !.cards[k][1].built = TRUE,
                       !.cards[k][1].pres = IF card.opts.out = <<>> THEN @ ELSE Append(@, card.opts.out)]
    IN  IF card.built THEN d ELSE IF card.opts.full THEN ToolCallBulk(b, k) ELSE b

ExpandToolDetails(d, k) ==
    IF ~IsDisclosable(Shows(d, k)) THEN d ELSE [DetailsBody(d, k) EXCEPT !.cards[k][1].open = TRUE]

-----------------------------------------------------------------------------
(* Terminals. *)

TrimToLiveCap(pre) == IF Len(pre) > LiveCap THEN SubSeq(pre, Len(pre) - LiveCap + 1, Len(pre)) ELSE pre

WriteChunkToCard(card, part) ==
    [card EXCEPT !.pres = IF @ = <<>> THEN <<TrimToLiveCap(<<part>>)>>
                          ELSE [@ EXCEPT ![1] = TrimToLiveCap(Append(@, part))]]

BufferParkedChunk(buf, part) ==
    IF Len(buf) >= MaxParked THEN Append(Tail(buf), part) ELSE Append(buf, part)

\* Held for a terminal nobody has claimed: a beginning, without a hole; the oldest terminal gives way.
HoldChunk(d, k, part) ==
    LET mine == SelectSeq(d.held, LAMBDA h : h.k = k)
        room == IF Len(d.held) >= HeldTerminals THEN Tail(d.held) ELSE d.held
    IN  IF mine = <<>> THEN [d EXCEPT !.held = Append(room, [k |-> k, parts |-> <<part>>, full |-> FALSE])]
        ELSE [d EXCEPT !.held = [i \in DOMAIN @ |->
                IF @[i].k # k THEN @[i]
                ELSE IF @[i].full \/ Len(@[i].parts) >= MaxHeld THEN [@[i] EXCEPT !.full = TRUE]
                ELSE [@[i] EXCEPT !.parts = Append(@, part)]]]

AppendTerminalChunk(d, k, part) ==
    IF k \notin d.links THEN HoldChunk(d, k, part)
    ELSE IF k \notin Mounted(d) THEN d
    ELSE IF d.parked THEN [d EXCEPT !.parkbuf[k] = BufferParkedChunk(@, part)]
    ELSE [d EXCEPT !.cards[k][1] = WriteChunkToCard(@, part)]

ForgetTerminal(d, k) == [d EXCEPT !.held = SelectSeq(@, LAMBDA h : h.k # k)]

(* A mutant of LinkTerminal: what was held is written whatever the call carries. *)
LinkTerminalAlways(d, k, call) ==
    IF ~call.term \/ k \in d.links THEN d
    ELSE LET mine == SelectSeq(d.held, LAMBDA h : h.k = k)
             a == ForgetTerminal([d EXCEPT !.links = @ \cup {k}], k)
         IN  IF mine = <<>> THEN a ELSE FoldLeft(LAMBDA x, part : AppendTerminalChunk(x, k, part), a, mine[1].parts)

\* The card claims its terminal: what was held for it is written, unless the call has the whole.
LinkTerminal(d, k, call) ==
    IF ~call.term \/ k \in d.links THEN d
    ELSE LET mine == SelectSeq(d.held, LAMBDA h : h.k = k)
             a == ForgetTerminal([d EXCEPT !.links = @ \cup {k}], k)
         IN  IF mine = <<>> \/ call.out # <<>> THEN a
             ELSE FoldLeft(LAMBDA x, part : AppendTerminalChunk(x, k, part), a, mine[1].parts)

-----------------------------------------------------------------------------
(* A call's value reaches its card. *)

ApplyStatusUpdate(d, k, st) ==
    LET a == [d EXCEPT !.cards[k][1].oc = ApplyOutcome(st),
                       !.cards[k][1].flight = @ /\ ~IsToolDone(st)]
        b == IF IsToolDone(st) THEN RefreshGroupHeader(MaybeCollapseGroup(a)) ELSE a
    IN  IF st \in {"failed", "declined"} THEN ExpandToolDetails(b, k) ELSE b

ApplyToolCallUpdate(d, k, call) ==
    LET a == LinkTerminal(d, k, call)
        b == IF call.out = <<>> THEN a ELSE [a EXCEPT !.cards[k][1] = ApplyOutputUpdate(@, call.out)]
        c == IF call.diff THEN [b EXCEPT !.cards[k][1] = ApplyDiffUpdate(@)] ELSE b
        s == ApplyStatusUpdate(c, k, call.st)
    IN  IF IsToolDone(call.st) THEN [s EXCEPT !.act[k] = "none"] ELSE s

\* Published to the card's own signal, which only a mounted card has.
RepublishToolCall(d, k, call) ==
    LET a == [d EXCEPT !.sig[k] = <<call>>, !.dirty = TRUE]
    IN  IF d.sig[k] = <<>> THEN [d EXCEPT !.dirty = TRUE]
        ELSE IF ~Shows(d, k).live THEN a ELSE ApplyToolCallUpdate(SyncSilenceMarker(a, k), k, call)

PublishSettledCall(d, k) ==
    IF HeldToolCall(d, k) = <<>> THEN d ELSE RepublishToolCall(d, k, Joined(d, k))

\* A fold onto what the card shows, or onto the call as it was created.
ApplyToolProgress(d, p) ==
    IF HeldToolCall(d, p.k) = <<>> THEN [d EXCEPT !.asks = TRUE]
    ELSE LET prev == IF d.sig[p.k] = <<>> THEN HeldToolCall(d, p.k)[1] ELSE d.sig[p.k][1]
         IN  [RepublishToolCall(d, p.k, FoldToolCallDelta(prev, p)) EXCEPT !.act[p.k] = "fresh"]

RepublishWindowToolCalls(d) ==
    LET tell(x, k) == IF HeldToolCall(x, k) = <<>> \/ x.sig[k] = <<>> THEN x
                      ELSE IF PaintsTheSame(x.sig[k][1], Joined(x, k)) THEN x ELSE RepublishToolCall(x, k, Joined(x, k))
    IN  FoldLeft(tell, d, Parts(Len(Plan)))

-----------------------------------------------------------------------------
(* Mounting, dropping, parking. *)

MountToolCallCard(d, k) ==
    LET call == Joined(d, k)
        a == [d EXCEPT !.cards[k] = <<BuildToolCard(Plan[k], call)>>, !.sig[k] = <<call>>,
                       !.grp.followed = Holds(d, "post"), !.act[k] = IF call.st = "running" THEN "fresh" ELSE @]
        b == IF d.wasOpen[k] THEN [DetailsBody(a, k) EXCEPT !.cards[k][1].open = TRUE] ELSE a
    IN  RefreshGroupHeader(SyncSilenceMarker(LinkTerminal(b, k, call), k))

\* Its slot, its signal, its terminal and what was kept for it while away.
RemoveSlot(d, k) ==
    [d EXCEPT !.cards[k] = <<>>, !.sig[k] = <<>>, !.links = @ \ {k}, !.parkbuf[k] = <<>>]

\* A card that leaves the window tells what its reader had open; the box is not told.
DropCard(d, k) ==
    LET card == Shows(d, k)
        gone == RemoveSlot([d EXCEPT !.wasOpen[k] = IF IsDisclosable(card) THEN card.open ELSE @], k)
    IN  IF Mounted(gone) = {} THEN [gone EXCEPT !.grp = BuildToolGroupShell] ELSE gone

\* A pass over the body: what the window wants and lacks is mounted, and a box that is followed folds.
Paint(d) ==
    LET want(x, k) == IF k < x.from \/ HeldToolCall(x, k) = <<>> \/ x.cards[k] # <<>> THEN x ELSE MountToolCallCard(x, k)
        on == FoldLeft(want, d, Parts(Len(Plan)))
    IN  [IF Holds(on, "post") THEN AutoCollapseGroup(on) ELSE on EXCEPT !.dirty = FALSE]

SuspendToolEffectsFor(d) ==
    [d EXCEPT !.cards = [k \in Calls |-> IF @[k] = <<>> THEN <<>> ELSE <<[@[k][1] EXCEPT !.live = FALSE]>>]]

\* What arrived meanwhile is applied at once, whatever it is.
ResumeToolEffectsFor(d) ==
    LET wake(x, k) == IF x.cards[k] = <<>> \/ Shows(x, k).live THEN x
                      ELSE [ApplyToolCallUpdate(x, k, x.sig[k][1]) EXCEPT !.cards[k][1].live = TRUE]
    IN  FoldLeft(wake, d, Parts(Len(Plan)))

DrainParkedTerminals(d) ==
    LET pour(x, k) == FoldLeft(LAMBDA y, part : [y EXCEPT !.cards[k][1] = WriteChunkToCard(@, part)],
                               [x EXCEPT !.parkbuf[k] = <<>>], x.parkbuf[k])
    IN  FoldLeft(pour, d, SetToSeq(d.links \cap Mounted(d)))

\* A body whose turn was open when it was parked is thrown away and built again.
RebuildTurnBody(d) ==
    LET bare == FoldLeft(RemoveSlot, d, SetToSeq(Mounted(d)))
    IN  Paint([bare EXCEPT !.grp = BuildToolGroupShell])

ResumeView(d) ==
    LET caught == Paint([d EXCEPT !.parked = FALSE])
    IN  DrainParkedTerminals(IF d.openAtPark THEN RebuildTurnBody(caught) ELSE ResumeToolEffectsFor(caught))

-----------------------------------------------------------------------------
Entry(what, k, val) == [what |-> what, k |-> k, val |-> val]

\* The log of a turn that is over: the calls, each with its result, and what came after.
PastLog(s) ==
    FoldLeft(LAMBDA log, k : log \o <<Entry("call", k, Created(s.plan[k])),
                                      Entry("result", k, ResultOf(s.plan[k], s.past[k], s.printed))>>,
             <<>>, Parts(Len(s.past)))
    \o (IF s.past = <<>> THEN <<>> ELSE <<Entry("post", 0, {}), Entry("close", 0, {})>>)

CardsInit ==
    \E s \in CardScenarios :
        /\ cdleft = s
        /\ cw = [plan |-> s.plan, log |-> PastLog(s), wire |-> <<>>, up |-> TRUE, missed |-> FALSE, overtaken |-> {}, unfetched |-> {},
                 calls |-> [k \in DOMAIN s.plan |-> IF s.past = <<>> THEN [st |-> "none", out |-> 0, linked |-> FALSE]
                                                    ELSE [st |-> s.past[k], out |-> s.printed, linked |-> TRUE]]]
        /\ cd = [log |-> Previewed(s.plan, PastLog(s)), from |-> 1, dirty |-> s.past # <<>>, asks |-> FALSE, read |-> <<>>,
                 cards |-> [k \in DOMAIN s.plan |-> <<>>], sig |-> [k \in DOMAIN s.plan |-> <<>>],
                 act |-> [k \in DOMAIN s.plan |-> "none"], wasOpen |-> [k \in DOMAIN s.plan |-> FALSE],
                 links |-> {}, held |-> <<>>, parkbuf |-> [k \in DOMAIN s.plan |-> <<>>],
                 parked |-> FALSE, openAtPark |-> FALSE, grp |-> BuildToolGroupShell, kept |-> <<>>, bulks |-> {}]

-----------------------------------------------------------------------------
(* The turn, as the server records and tells it. *)

Room == Len(cw.wire) < cdleft.room

Tell(w, f) == IF w.up THEN [w EXCEPT !.wire = Append(@, f)] ELSE [w EXCEPT !.missed = TRUE]

Progress(k, term, delta) == [what |-> "progress", k |-> k, term |-> term, delta |-> delta]

\* An entry is recorded, and told with its place in the log.
Record(w, e) == Tell([w EXCEPT !.log = Append(@, e)], [what |-> "entry", at |-> Len(w.log) + 1, e |-> e])

TurnIsOpen == ~\E i \in DOMAIN cw.log : cw.log[i].what = "close"
Unposted == ~\E i \in DOMAIN cw.log : cw.log[i].what = "post"

CallStarts(k) ==
    /\ TurnIsOpen /\ Unposted /\ Room /\ cw.calls[k].st = "none" /\ \A j \in 1 .. k - 1 : cw.calls[j].st # "none"
    /\ cw' = Record([cw EXCEPT !.calls[k] = [st |-> "running", out |-> 0, linked |-> ~Plan[k].term \/ Plan[k].early]],
                    Entry("call", k, Created(Plan[k])))
    /\ UNCHANGED <<cd, cdleft>>

\* The update that names the terminal, after its first output or before.
CallLinks(k) ==
    /\ cw.calls[k].st = "running" /\ ~cw.calls[k].linked /\ Room
    /\ cw' = Tell([cw EXCEPT !.calls[k].linked = TRUE], Progress(k, TRUE, <<>>))
    /\ UNCHANGED <<cd, cdleft>>

CallPrints(k) ==
    /\ cw.calls[k].st = "running" /\ Room /\ Spend("prints")
    /\ LET n == cw.calls[k].out + 1
       IN  cw' = Tell([cw EXCEPT !.calls[k].out = n],
                      IF Plan[k].term THEN [what |-> "chunk", k |-> k, part |-> n] ELSE Progress(k, FALSE, <<n>>))
    /\ UNCHANGED cd

\* The terminal is over, then the call that held it.
CallEnds(k, st) ==
    /\ cw.calls[k].st = "running" /\ Room /\ st \in cdleft.ends
    /\ LET over == [cw EXCEPT !.calls[k].st = st, !.calls[k].linked = TRUE]
           exited == IF Plan[k].term THEN Tell(over, [what |-> "exit", k |-> k]) ELSE over
           result == Entry("result", k, ResultOf(Plan[k], st, cw.calls[k].out))
       IN  cw' = IF cdleft.exitsFirst THEN Record(exited, result)
                 ELSE IF Plan[k].term THEN Tell(Record(over, result), [what |-> "exit", k |-> k]) ELSE Record(over, result)
    /\ UNCHANGED <<cd, cdleft>>

\* Something is said after the calls.
Posts ==
    /\ TurnIsOpen /\ Unposted /\ Room /\ Spend("posts")
    /\ cw' = Record(cw, Entry("post", 0, {}))
    /\ UNCHANGED cd

\* The turn closes once every call of it is over: what still ran is aborted first.
Closes ==
    /\ TurnIsOpen /\ Room /\ Spend("closes")
    /\ LET open == {k \in Calls : cw.calls[k].st = "running"}
           abort(w, k) == Record([w EXCEPT !.calls[k].st = "aborted"], Entry("result", k, ResultOf(Plan[k], "aborted", 0)))
       IN  cw' = Record(FoldLeft(abort, cw, SetToSeq(open)), Entry("close", 0, {}))
    /\ UNCHANGED cd

Breaks ==
    /\ cw.up /\ Spend("breaks")
    /\ cw' = [cw EXCEPT !.up = FALSE, !.missed = @ \/ cw.wire # <<>>, !.wire = <<>>]
    /\ UNCHANGED cd

\* Back: what the page holds is behind, and read again if anything was missed.
Returns ==
    /\ ~cw.up
    /\ cw' = [cw EXCEPT !.up = TRUE, !.missed = FALSE]
    /\ cd' = [cd EXCEPT !.asks = @ \/ cw.missed]
    /\ UNCHANGED cdleft

-----------------------------------------------------------------------------
(* What the page hears and reads. *)

\* An entry that is not the next one is a redelivery, or shows a hole.
AppendEntry(d, f) ==
    IF f.at # Len(d.log) + 1 THEN [d EXCEPT !.asks = @ \/ f.at > Len(d.log) + 1]
    ELSE LET a == [d EXCEPT !.log = Append(@, f.e), !.dirty = TRUE]
         IN  IF f.e.what = "result" THEN PublishSettledCall(a, f.e.k) ELSE a

Hears ==
    /\ cw.wire # <<>>
    /\ LET f == Head(cw.wire)
       IN  cd' = CASE f.what = "entry" -> AppendEntry(cd, f)
                   [] f.what = "progress" -> ApplyToolProgress(cd, f)
                   [] f.what = "chunk" -> AppendTerminalChunk(cd, f.k, f.part)
                   [] OTHER -> ForgetTerminal(cd, f.k)
    /\ cw' = [cw EXCEPT !.wire = Tail(@)]
    /\ UNCHANGED cdleft

\* A range of the turn, or the newest page.
Reads(how) ==
    /\ cd.asks /\ cd.read = <<>> /\ how \in cdleft.reads
    /\ cd' = [cd EXCEPT !.asks = FALSE, !.read = <<[how |-> how, served |-> Previewed(Plan, cw.log)]>>]
    /\ UNCHANGED <<cw, cdleft>>

\* A page is told to the cards on screen; a range fills the log alone.  It may be
\* ahead of what is still under way on the stream, which nothing then holds back.
ReadLands ==
    /\ cd.read # <<>>
    /\ cw' = [cw EXCEPT !.overtaken = @ \cup {f.k : f \in {f \in Range(cw.wire) : f.what \in {"chunk", "progress"}}}]
    /\ LET r == cd.read[1]
           n == Len(r.served)
           d == [cd EXCEPT !.read = <<>>, !.dirty = TRUE]
       IN  cd' = IF r.how = "range" THEN [d EXCEPT !.log = @ \o SubSeq(r.served, Len(@) + 1, n)]
                 ELSE RepublishWindowToolCalls([d EXCEPT !.log = r.served \o SubSeq(@, n + 1, Len(@))])
    /\ UNCHANGED cdleft

Paints == cd.dirty /\ ~cd.parked /\ cd' = Paint(cd) /\ UNCHANGED <<cw, cdleft>>

\* Two minutes without progress, and the clock that shows it.
Waits ==
    /\ Spend("waits") /\ \E k \in Calls : cd.act[k] # "none"
    /\ LET aged == [cd EXCEPT !.act = [k \in Calls |-> IF @[k] = "fresh" THEN "old" ELSE @[k]]]
           tick(x, k) == IF Shows(x, k).live THEN SyncSilenceMarker(x, k) ELSE x
       IN  cd' = FoldLeft(tick, aged, SetToSeq(Mounted(cd)))
    /\ UNCHANGED cw

BulkLands(k, ok) ==
    /\ k \in cd.bulks
    /\ IF ok THEN UNCHANGED cdleft ELSE Spend("fails")
    /\ LET bulk == IF ok THEN <<ResultOf(Plan[k], "done", cw.calls[k].out)>> ELSE <<>>
           d == Settle([cd EXCEPT !.bulks = @ \ {k}], k, bulk)
       IN  cd' = IF cd.cards[k] = <<>> \/ ~Shows(cd, k).awaits THEN d
                 ELSE IF ok THEN [d EXCEPT !.cards[k][1] = ApplyBulk(@, bulk[1])]
                 ELSE [d EXCEPT !.cards[k][1].awaits = FALSE]
    /\ cw' = IF ok THEN cw ELSE [cw EXCEPT !.unfetched = @ \cup {k}]

-----------------------------------------------------------------------------
(* What the reader does. *)

\* The body is built before the toggle turns.
ClicksCard(k) ==
    /\ ~cd.parked /\ k \in Mounted(cd) /\ IsDisclosable(Shows(cd, k)) /\ Spend("clicks")
    /\ cd' = [DetailsBody(cd, k) EXCEPT !.cards[k][1].open = ~@]
    /\ UNCHANGED cw

\* A box that folded itself stays shut, as the reader's own choice, on the first click.
ClicksHeader ==
    /\ ~cd.parked /\ ~GroupIsBare(cd) /\ Spend("clicks")
    /\ LET shut == ~cd.grp.collapsed
       IN  cd' = RefreshGroupHeader([cd EXCEPT !.grp.user = TRUE, !.grp.auto = FALSE, !.grp.collapsed = shut, !.grp.open = ~shut])
    /\ UNCHANGED cw

\* The window leaves the first card behind, or takes it back.
Scrolls ==
    /\ ~cd.parked /\ Spend("scrolls")
    /\ cd' = IF cd.from = 1 THEN (IF cd.cards[1] = <<>> THEN [cd EXCEPT !.from = 2] ELSE DropCard([cd EXCEPT !.from = 2], 1))
             ELSE [cd EXCEPT !.from = 1, !.dirty = TRUE]
    /\ UNCHANGED cw

LeavesChat ==
    /\ ~cd.parked /\ Spend("parks")
    /\ cd' = [SuspendToolEffectsFor(cd) EXCEPT !.parked = TRUE, !.openAtPark = ~Holds(cd, "close")]
    /\ UNCHANGED cw

ComesBack == cd.parked /\ cd' = ResumeView(cd) /\ UNCHANGED <<cw, cdleft>>

CardsNext ==
    \/ \E k \in Calls : CallStarts(k) \/ CallLinks(k) \/ CallPrints(k) \/ ClicksCard(k)
    \/ \E k \in Calls, st \in {"done", "failed", "declined"} : CallEnds(k, st)
    \/ \E k \in cd.bulks, ok \in BOOLEAN : BulkLands(k, ok)
    \/ \E how \in {"range", "page"} : Reads(how)
    \/ Posts \/ Closes \/ Breaks \/ Returns \/ Hears \/ ReadLands \/ Paints \/ Waits
    \/ ClicksHeader \/ Scrolls \/ LeavesChat \/ ComesBack

-----------------------------------------------------------------------------
(* What the cards promise. *)

\* What a card prints says no part twice, and none after a later one; but for two calls.  One
\* was overtaken: a read brought its output before the chunks that were under way.  The other
\* was mounted with its output and written over before it was first opened: its body is then
\* put under what was written, and each of the two says no part twice.
Increasing(parts) == \A i \in 1 .. Len(parts) - 1 : parts[i] < parts[i + 1]
WrittenUnopened(card) == card.opts.out # <<>> /\ Len(card.pres) = 2

PrintedOnce ==
    \A k \in Mounted(cd) \ cw.overtaken :
        LET card == Shows(cd, k)
        IN  IF WrittenUnopened(card) THEN \A p \in DOMAIN card.pres : Increasing(card.pres[p])
            ELSE Increasing(FlattenSeq(card.pres))

\* A card that was told how its call ended shows all that it was told, or all there is.
EndsWhole ==
    \A k \in Mounted(cd) \ cw.overtaken :
        Shows(cd, k).live /\ IsToolDone(cd.sig[k][1].st) /\ cd.sig[k][1].out # <<>> =>
            \A p \in DOMAIN Shows(cd, k).pres : Shows(cd, k).pres[p] \in {cd.sig[k][1].out, Parts(cw.calls[k].out)}

\* The box wears the worst of its cards while they are on screen, and does not fold itself over
\* a failure, but for one that is mounted as a failure into a box made folded by the two before.
BoxIsTold ==
    /\ ~GroupIsBare(cd) /\ cd.from = 1 => cd.grp.oc = PaintGroupOutcome(Outcomes(cd))
    /\ cd.grp.auto => \A k \in Mounted(cd) : Shows(cd, k).oc = "fail" => cd.grp.born /\ Shows(cd, k).opts.st = "failed"

\* An edit is previewed once, whichever of an update and the bulk drew it.
DiffDrawnOnce == \A k \in Mounted(cd) : Shows(cd, k).diffs <= 1

\* What is kept of fetched outputs stays within its bound.
BulkIsBounded == Retained(cd.kept) <= MaxRetained

CardsHold == PrintedOnce /\ EndsWhole /\ BoxIsTold /\ DiffDrawnOnce /\ BulkIsBounded

\* tool-bulk.ts: a card built from a page load sets `has_full`, and the rest is one request
\* away: opened over a preview, it shows the whole once nothing is out for it, unless its fetch
\* failed.
PreviewFilled ==
    \A k \in Mounted(cd) \ cw.unfetched :
        /\ Shows(cd, k).built /\ ~Shows(cd, k).awaits /\ Shows(cd, k).pres # <<>>
        /\ HeldResult(cd, k) # <<>> /\ HeldResult(cd, k)[1].full
        => Parts(cw.calls[k].out) \in Range(Shows(cd, k).pres)
=============================================================================
