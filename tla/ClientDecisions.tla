--------------------------- MODULE ClientDecisions ---------------------------
(***************************************************************************)
(* What waits for the reader: the docks and their queues                   *)
(* (decision-dock.ts), the cards they draw (permission.ts, elicitation.ts, *)
(* user-input.ts, run-input.ts), the frames that offer and withdraw        *)
(* (handlers/turn.ts, run.ts, system.ts, chat.ts) and the answers that go  *)
(* back (actions/chat.ts, actions/runs.ts).  The server keeps what is      *)
(* still unanswered and takes the first answer.                            *)
(***************************************************************************)
EXTENDS Integers, Sequences, SequencesExt, FiniteSets

CONSTANTS
    Asks,           \* the asks in the order of their ids: [key, kind, run, turn, form]
    Turns,          \* turn -> its chat
    Runs,           \* run -> the chat whose agent launched it, or None
    AskScenarios    \* budgets of what may happen

VARIABLES
    dk,     \* the client: queues, docks, held answers, what it knows of turns and runs
    sv,     \* the server: open asks, turns, runs, the stream, requests on their way
    dkleft  \* what may still happen

dkvars == <<dk, sv, dkleft>>

None == "none"
Words == "words"
Blank == ""

Ids == DOMAIN Asks
Chats == {Turns[t] : t \in DOMAIN Turns}
Spend(what) == dkleft[what] > 0 /\ dkleft' = [dkleft EXCEPT ![what] = @ - 1]

-----------------------------------------------------------------------------
(* Queues: one per chat, a run without a chat has one of its own.          *)

IsRunAsk(a) == Asks[a].kind = "run_input"

\* A dock takes what its chat or its run asks; an empty one takes nothing.
Takes(d, h, a) ==
    CASE h = "chat" -> Asks[a].key = d.at
      [] h = "run" -> d.docks.run.of # None /\ d.docks.run.of \in {Asks[a].run, Asks[a].key}
      [] h = "spec" -> Asks[a].key = d.docks.spec.of

Flat(d) == FlattenSeq([i \in DOMAIN d.queues |-> d.queues[i].asks])
Matching(d, h) == SelectSeq(Flat(d), LAMBDA a : Takes(d, h, a))

HasPendingDecision(d, c) == \E i \in DOMAIN d.queues : d.queues[i].key = c

RunPendingAsks(d, r) == {a \in ToSet(Flat(d)) : r \in {Asks[a].run, Asks[a].key}}

-----------------------------------------------------------------------------
(* Cards: a run's question opens on the words last sent for it.            *)

NoCard == [text |-> Blank, stage |-> "options", kept |-> TRUE, saving |-> FALSE, deferred |-> "no"]

BuildCard(d, a) == [NoCard EXCEPT !.text = IF a # 0 /\ IsRunAsk(a) THEN d.held[a] ELSE Blank]

NoDock == [of |-> None, key |-> 0, depth |-> 0, phase |-> None, hidden |-> TRUE, card |-> NoCard]

MotionOff(d) == d.still \/ d.away

\* A card leaves, enters or gives way to the next; its box hides at the end of a leave.
Swap(d, x, head, depth) ==
    [x EXCEPT !.key = head, !.depth = depth, !.card = BuildCard(d, head),
              !.phase = IF MotionOff(d) THEN None
                        ELSE IF head = 0 THEN "leaving" ELSE IF x.key = 0 THEN "entering" ELSE "advancing",
              !.hidden = head = 0 /\ MotionOff(d)]

RenderHost(d, x, mine) ==
    LET head == IF mine = <<>> THEN 0 ELSE Head(mine)
    IN  IF head = x.key THEN [x EXCEPT !.depth = Len(mine)] ELSE Swap(d, x, head, Len(mine))

Bump(d) == [d EXCEPT !.docks = [h \in DOMAIN d.docks |-> RenderHost(d, d.docks[h], Matching(d, h))]]

PhaseOver(x) == [x EXCEPT !.phase = None, !.hidden = @ \/ x.phase = "leaving"]

UnmountDock(d, h) == [d EXCEPT !.docks[h] = NoDock]

-----------------------------------------------------------------------------
(* What joins and leaves the queues; an emptied queue is gone.             *)

Enqueue(d, a) ==
    LET k == Asks[a].key IN
    IF HasPendingDecision(d, k)
    THEN [d EXCEPT !.queues = [i \in DOMAIN d.queues |->
            IF d.queues[i].key = k THEN [key |-> k, asks |-> Append(d.queues[i].asks, a)] ELSE d.queues[i]]]
    ELSE [d EXCEPT !.queues = Append(@, [key |-> k, asks |-> <<a>>])]

\* The same ask offered again keeps the card it has.
PushDecision(d, a) == IF a \in ToSet(Flat(d)) THEN d ELSE Bump(Enqueue(d, a))

Keep(d, Stays(_)) ==
    LET kept == [i \in DOMAIN d.queues |-> [d.queues[i] EXCEPT !.asks = SelectSeq(d.queues[i].asks, Stays)]]
    IN  Bump([d EXCEPT !.queues = SelectSeq(kept, LAMBDA q : q.asks # <<>>)])

DropDecisions(d, c) == Keep(d, LAMBDA a : Asks[a].key # c)

DropRunDecisions(d) == Keep(d, LAMBDA a : Asks[a].key \notin DOMAIN Runs)

\* A run that is over asks nothing any more; the words held for it go too.
DropRunAsks(d, r) ==
    Keep([d EXCEPT !.held = [a \in Ids |-> IF Asks[a].run = r THEN Blank ELSE d.held[a]]],
         LAMBDA a : r \notin {Asks[a].run, Asks[a].key})

\* A turn that ends takes its chat's asks with it, those of a run outlive it.
DropTurnDecisions(d, c) == Keep(d, LAMBDA a : Asks[a].key # c \/ Asks[a].run # None)

CollapseSettledDecision(d, a) == Keep(d, LAMBDA b : b # a)

CollapseSettledRunInput(d, a) == Keep([d EXCEPT !.held[a] = Blank], LAMBDA b : b # a)

\* A card that is settled already answers nothing.
Settle(d, a) == Keep(d, LAMBDA b : b # a)

-----------------------------------------------------------------------------
(* Frames.                                                                 *)

AnotherTurnOpen(d, c, t) == c \in d.known /\ \E u \in d.turns \ {t} : Turns[u] = c

HasLiveRunForChat(d, c) == \E r \in d.live : Runs[r] = c

OnTurnClosed(d, t) ==
    LET c == Turns[t]
        gone == [d EXCEPT !.turns = @ \ {t}]
    IN  IF AnotherTurnOpen(d, c, t) THEN gone ELSE [DropTurnDecisions(gone, c) EXCEPT !.thinking = @ \ {c}]

OnRequest(d, a) == PushDecision(d, a)

\* A run that asks is a live one.
OnRunInputNeeded(d, a) == PushDecision([d EXCEPT !.live = @ \cup {Asks[a].run}], a)

OnAsked(d, a) == IF IsRunAsk(a) THEN OnRunInputNeeded(d, a) ELSE OnRequest(d, a)

OnRunStarted(d, r) == [d EXCEPT !.live = @ \cup {r}]

\* Where no run is left and the chat is at rest, what a lost turn asked goes too.
OnRunFinished(d, r) ==
    LET e == DropRunAsks([d EXCEPT !.live = @ \ {r}], r)
        c == Runs[r]
    IN  IF c # None /\ c \notin e.thinking /\ ~HasLiveRunForChat(e, c) THEN DropTurnDecisions(e, c) ELSE e

\* Every chat held and every run without one is emptied, then what the server has is offered anew.
OnPendingSnapshot(d, items) ==
    LET e == DropRunDecisions(FoldLeft(DropDecisions, d, SetToSeq(d.known)))
    IN  FoldLeft(OnAsked, e, items)

\* Nothing of a chat that is gone is left to answer.
OnChatDeleted(d, c) == [DropDecisions(d, c) EXCEPT !.known = @ \ {c}, !.thinking = @ \ {c}, !.turns = {t \in @ : Turns[t] # c}]

\* What the server says of each chat stands against what the stream had said.
OnConnected(d, busy) == [d EXCEPT !.thinking = busy \cap d.known]

Dispatched(d, f) ==
    CASE f.kind = "asked" -> OnAsked(d, f.of)
      [] f.kind = "settled" ->
           IF IsRunAsk(f.of) THEN CollapseSettledRunInput(d, f.of) ELSE CollapseSettledDecision(d, f.of)
      [] f.kind = "turn_opened" ->
           IF Turns[f.of] \in d.known THEN [d EXCEPT !.turns = @ \cup {f.of}, !.thinking = @ \cup {Turns[f.of]}] ELSE d
      [] f.kind = "turn_closed" -> OnTurnClosed(d, f.of)
      [] f.kind = "run_started" -> OnRunStarted(d, f.of)
      [] f.kind = "run_finished" -> OnRunFinished(d, f.of)
      [] f.kind = "chat_deleted" -> OnChatDeleted(d, f.of)
      [] f.kind = "connected" -> OnConnected(d, f.of)
      [] f.kind = "pending_snapshot" -> OnPendingSnapshot(d, f.of)

-----------------------------------------------------------------------------
(* The server.                                                             *)

Frame(kind, of) == [kind |-> kind, of |-> of]

\* What is said while nobody listens is not said again.
Broadcast(s, fs) == IF s.up THEN [s EXCEPT !.wire = @ \o fs] ELSE s

FramesOf(kind, set) == [i \in 1 .. Cardinality(set) |-> Frame(kind, SetToSortSeq(set, <)[i])]

\* A chat that is stopped forgets what was asked of it and says nothing.
ClearForChat(s, c, kinds) ==
    LET cut == {a \in s.open : Asks[a].key = c /\ Asks[a].kind \in kinds}
    IN  [s EXCEPT !.open = @ \ cut, !.hushed = @ \cup cut]

RequestKinds == {"permission", "elicitation", "user_input"}
AllKinds == RequestKinds \cup {"run_input"}

\* A run that ends says which of its questions are moot; its requests go without a word.
EndsRun(s, r) ==
    LET moot == {a \in s.open : Asks[a].run = r /\ IsRunAsk(a)}
        cut == {a \in s.open : Asks[a].run = r}
    IN  Broadcast([s EXCEPT !.open = @ \ cut, !.runs[r] = "over", !.hushed = @ \cup (cut \ moot)],
                  FramesOf("settled", moot) \o <<Frame("run_finished", r)>>)

EndsTurn(s, t) == Broadcast([s EXCEPT !.turns[t] = "closed"], <<Frame("turn_closed", t)>>)

DkInit ==
    /\ dkleft \in AskScenarios
    /\ dk = [at |-> dkleft.start, known |-> Chats, queues |-> <<>>, turns |-> {}, thinking |-> {}, live |-> {},
             docks |-> [chat |-> NoDock, run |-> NoDock, spec |-> NoDock],
             held |-> [a \in Ids |-> Blank], still |-> dkleft.still, away |-> FALSE]
    /\ sv = [up |-> TRUE, wire |-> <<>>, open |-> {}, asked |-> {}, claimed |-> {},
             turns |-> [t \in DOMAIN Turns |-> "before"], runs |-> [r \in DOMAIN Runs |-> "before"],
             outs |-> <<>>, closing |-> {}, sync |-> "done",
             sent |-> {}, hushed |-> {}, lost |-> {}, stray |-> {}]

OpensTurn(t) ==
    /\ sv.turns[t] = "before" /\ Turns[t] \notin sv.closing /\ t \in dkleft.may.turns
    /\ sv' = Broadcast([sv EXCEPT !.turns[t] = "open"], <<Frame("turn_opened", t)>>)
    /\ UNCHANGED <<dk, dkleft>>

\* A turn waits for what it asked.
ClosesTurn(t) ==
    /\ sv.turns[t] = "open" /\ \A a \in sv.open : Asks[a].turn # t
    /\ sv' = EndsTurn(sv, t)
    /\ UNCHANGED <<dk, dkleft>>

StartsRun(r) ==
    /\ sv.runs[r] = "before" /\ r \in dkleft.may.runs
    /\ sv' = Broadcast([sv EXCEPT !.runs[r] = "live"], <<Frame("run_started", r)>>)
    /\ UNCHANGED <<dk, dkleft>>

FinishesRun(r) ==
    /\ sv.runs[r] = "live" /\ Spend("ends")
    /\ sv' = EndsRun(sv, r)
    /\ UNCHANGED dk

IsAsked(a) ==
    /\ a \notin sv.asked /\ a \in dkleft.may.asks
    /\ IF Asks[a].run # None THEN sv.runs[Asks[a].run] = "live" ELSE sv.turns[Asks[a].turn] = "open"
    /\ sv' = Broadcast([sv EXCEPT !.open = @ \cup {a}, !.asked = @ \cup {a}], <<Frame("asked", a)>>)
    /\ UNCHANGED <<dk, dkleft>>

\* Another window answers, the step moves on, or nobody was watching.
SettledElsewhere(a) ==
    /\ a \in sv.open /\ Spend("elsewhere")
    /\ sv' = Broadcast([sv EXCEPT !.open = @ \ {a}], <<Frame("settled", a)>>)
    /\ UNCHANGED dk

Cancels(c) ==
    /\ \E t \in DOMAIN Turns : Turns[t] = c /\ sv.turns[t] = "open"
    /\ Spend("cancels")
    /\ sv' = ClearForChat(sv, c, RequestKinds)
    /\ UNCHANGED dk

\* A closed chat's turns and runs end with it; where nothing is kept it is deleted.
CloseLands(c) ==
    LET mine == SelectSeq(SetToSeq(DOMAIN Turns), LAMBDA t : Turns[t] = c /\ sv.turns[t] = "open")
        runs == SelectSeq(SetToSeq(DOMAIN Runs), LAMBDA r : Runs[r] = c /\ sv.runs[r] = "live")
        cleared == ClearForChat(sv, c, AllKinds)
        ended == FoldLeft(EndsTurn, FoldLeft(EndsRun, cleared, runs), mine)
    IN  /\ c \in sv.closing
        /\ \/ sv' = [ended EXCEPT !.closing = @ \ {c}]
           \/ sv' = Broadcast([ended EXCEPT !.closing = @ \ {c}], <<Frame("chat_deleted", c)>>)
        /\ UNCHANGED <<dk, dkleft>>

\* The first answer wins; a run's question is claimed until its step has taken the words.
AnswerArrives(i) ==
    LET o == sv.outs[i]
        done == [sv EXCEPT !.outs = RemoveAt(@, i)]
        taken == [done EXCEPT !.open = @ \ {o.ask}]
    IN  /\ o.at = "sent"
        /\ sv' = IF o.ask \notin sv.open THEN done
                 ELSE IF IsRunAsk(o.ask) /\ o.text # None
                 THEN [taken EXCEPT !.claimed = @ \cup {o.ask}, !.outs = Append(@, [o EXCEPT !.at = "claimed"])]
                 ELSE Broadcast(taken, <<Frame("settled", o.ask)>>)
        /\ UNCHANGED <<dk, dkleft>>

AnswerFails(i) ==
    /\ sv.outs[i].at = "sent" /\ Spend("fails")
    /\ sv' = [sv EXCEPT !.outs = RemoveAt(@, i), !.lost = @ \cup {sv.outs[i].ask}]
    /\ UNCHANGED dk

\* The step takes the words, has moved on, or is busy or out of reach: then it asks again.
StepAnswers(i, taken) ==
    LET a == sv.outs[i].ask
        done == [sv EXCEPT !.outs = RemoveAt(@, i), !.claimed = @ \ {a}]
    IN  /\ sv.outs[i].at = "claimed"
        /\ IF taken THEN sv' = Broadcast(done, <<Frame("settled", a)>>) /\ UNCHANGED dkleft
           ELSE Spend("refused") /\ sv' = Broadcast([done EXCEPT !.open = @ \cup {a}], <<Frame("asked", a)>>)
        /\ UNCHANGED dk

-----------------------------------------------------------------------------
(* The stream and what is read again after it broke.                       *)

\* A turn the page has not read yet keeps nothing from the sweep of another, nor one it
\* takes for over from that of a run.
Swept(d, f, e) ==
    IF sv.sync = "due" \/ (f.kind = "run_finished" /\ Runs[f.of] \notin d.thinking)
    THEN (ToSet(Flat(d)) \ ToSet(Flat(e))) \cap sv.open ELSE {}

\* A question of a chat the page does not hold is queued all the same.
Strayed(d, e) == {a \in ToSet(Flat(e)) \ ToSet(Flat(d)) : Asks[a].key \in Chats \ e.known}

\* A turn that closed unheard, until the turns are read again, keeps another's close from sweeping.
Escaped(d, f) ==
    IF sv.sync = "due" /\ f.kind = "turn_closed" /\ AnotherTurnOpen(d, Turns[f.of], f.of)
    THEN {a \in ToSet(Flat(d)) : Asks[a].key = Turns[f.of] /\ Asks[a].run = None} ELSE {}

Hears ==
    LET f == Head(sv.wire)
        e == Dispatched(dk, f)
    IN  /\ sv.wire # <<>>
        /\ dk' = e
        /\ sv' = [sv EXCEPT !.wire = Tail(@),
                            !.stray = @ \cup Strayed(dk, e) \cup Escaped(dk, f),
                            !.lost = IF f.kind = "pending_snapshot" THEN {} ELSE @ \cup Swept(dk, f, e)]
        /\ UNCHANGED dkleft

Breaks ==
    /\ sv.up /\ Spend("breaks")
    /\ sv' = [sv EXCEPT !.up = FALSE, !.wire = <<>>]
    /\ UNCHANGED dk

\* The asks of the chats in the order of their ids, then those of the runs.
Pending(s) ==
    LET all == SetToSortSeq(s.open, <)
    IN  SelectSeq(all, LAMBDA a : ~IsRunAsk(a)) \o SelectSeq(all, IsRunAsk)

Busy(s) == {Turns[t] : t \in {u \in DOMAIN Turns : s.turns[u] = "open"}}

Reconnects ==
    /\ ~sv.up
    /\ sv' = [sv EXCEPT !.up = TRUE, !.sync = "due",
                        !.wire = <<Frame("connected", Busy(sv)), Frame("pending_snapshot", Pending(sv))>>]
    /\ UNCHANGED <<dk, dkleft>>

\* The chats and the live runs are read again.
Rereads ==
    /\ sv.up /\ sv.sync = "due"
    /\ dk' = [dk EXCEPT !.turns = {t \in DOMAIN Turns : sv.turns[t] = "open" /\ Turns[t] \in dk.known},
                        !.live = {r \in DOMAIN Runs : sv.runs[r] = "live"}]
    /\ sv' = [sv EXCEPT !.sync = "done"]
    /\ UNCHANGED dkleft

-----------------------------------------------------------------------------
(* The reader: tabs, docks, cards.                                         *)

ShowChat(c) ==
    /\ c \in dk.known \ {dk.at} /\ Spend("shows")
    /\ dk' = Bump([dk EXCEPT !.at = c])
    /\ UNCHANGED sv

ShowRun(r) ==
    /\ dk.docks.run.of # r /\ Spend("shows")
    /\ dk' = Bump([dk EXCEPT !.docks.run.of = r])
    /\ UNCHANGED sv

ShowSpec(c) ==
    /\ Spend("shows")
    /\ dk' = IF dk.docks.spec.of = c THEN UnmountDock(dk, "spec")
             ELSE Bump([dk EXCEPT !.docks.spec.of = c])
    /\ UNCHANGED sv

LooksAway ==
    /\ Spend("shows")
    /\ dk' = [dk EXCEPT !.away = ~@]
    /\ UNCHANGED sv

PhaseEnds(h) ==
    /\ dk.docks[h].phase # None
    /\ dk' = [dk EXCEPT !.docks[h] = PhaseOver(@)]
    /\ UNCHANGED <<sv, dkleft>>

CloseChatTab(c) ==
    /\ c \in dk.known /\ Spend("closes")
    /\ dk' = [OnChatDeleted(dk, c) EXCEPT !.at = IF @ = c THEN None ELSE @]
    /\ sv' = [sv EXCEPT !.closing = @ \cup {c}]

ReopenChat(c) ==
    /\ c \in Chats \ (dk.known \cup sv.closing) /\ Spend("shows")
    /\ dk' = [dk EXCEPT !.known = @ \cup {c}, !.thinking = @ \cup ({c} \cap Busy(sv)),
                        !.turns = @ \cup {t \in DOMAIN Turns : Turns[t] = c /\ sv.turns[t] = "open"}]
    /\ UNCHANGED sv

Shown(h) == dk.docks[h].key
Form(h) == Asks[Shown(h)].form

Types(h) ==
    /\ Shown(h) # 0 /\ Asks[Shown(h)].kind # "permission" /\ dk.docks[h].card.stage = "options"
    /\ dk.docks[h].card.text = Blank /\ Spend("types")
    /\ dk' = [dk EXCEPT !.docks[h].card.text = Words]
    /\ UNCHANGED sv

\* A file to roll back, an option's own options: each box is ticked to begin with.
Ticks(h) ==
    /\ Shown(h) # 0 /\ (Form(h) = "files" \/ dk.docks[h].card.stage = "sub") /\ Spend("types")
    /\ dk' = [dk EXCEPT !.docks[h].card.kept = ~@]
    /\ UNCHANGED sv

\* Into an option's own options and back: each stage is drawn from nothing.
PicksOption(h) ==
    /\ Shown(h) # 0 /\ Form(h) = "subs" /\ Spend("types")
    /\ dk' = [dk EXCEPT !.docks[h].card.stage = IF @ = "options" THEN "sub" ELSE "options",
                        !.docks[h].card.text = Blank, !.docks[h].card.kept = TRUE]
    /\ UNCHANGED sv

Filled(card) == card.text # Blank

\* What a card sends: a question wants words, a field that is required wants to be filled.
Complete(a, card) ==
    CASE Asks[a].kind = "run_input" -> Filled(card)
      [] Asks[a].kind = "user_input" -> card.stage = "sub" \/ Filled(card) \/ Asks[a].form = "options"
      [] Asks[a].kind = "elicitation" -> Asks[a].form # "required" \/ Filled(card)
      [] Asks[a].kind = "permission" -> TRUE

Sends(s, a, text) == [s EXCEPT !.outs = Append(@, [ask |-> a, text |-> text, at |-> "sent"])]

Answers(h) ==
    LET a == Shown(h)
        text == dk.docks[h].card.text
    IN  /\ a # 0 /\ Complete(a, dk.docks[h].card) /\ Spend("answers")
        /\ dk' = Settle(IF IsRunAsk(a) THEN [dk EXCEPT !.held[a] = text] ELSE dk, a)
        /\ sv' = [Sends(sv, a, text) EXCEPT !.sent = IF IsRunAsk(a) THEN @ \cup {a} ELSE @]

\* Declined, dismissed or rolled back; a run without a chat goes on without an answer.
Declines(h) ==
    LET a == Shown(h)
    IN  /\ a # 0 /\ (IsRunAsk(a) => Runs[Asks[a].run] = None /\ Asks[a].form # "nodeless")
        /\ Spend("answers")
        /\ dk' = Settle(IF IsRunAsk(a) THEN [dk EXCEPT !.held[a] = Blank] ELSE dk, a)
        /\ sv' = [Sends(sv, a, None) EXCEPT !.sent = @ \ {a}]

\* A rule is saved first; the card is answered when it is, if it still waits.
AlwaysAllow(h) ==
    /\ Shown(h) # 0 /\ Form(h) = "rule" /\ ~dk.docks[h].card.saving /\ Spend("answers")
    /\ dk' = [dk EXCEPT !.docks[h].card.saving = TRUE]
    /\ sv' = [sv EXCEPT !.outs = Append(@, [ask |-> Shown(h), text |-> None, at |-> "rule"])]

PersistThenApprove(i) ==
    LET a == sv.outs[i].ask
        done == [sv EXCEPT !.outs = RemoveAt(@, i)]
    IN  /\ sv.outs[i].at = "rule"
        /\ \/ /\ dk' = Settle(dk, a) /\ UNCHANGED dkleft
              /\ sv' = IF a \in ToSet(Flat(dk)) THEN Sends(done, a, None) ELSE done
           \/ /\ Spend("fails") /\ sv' = done
              /\ dk' = [dk EXCEPT !.docks = [h \in DOMAIN dk.docks |->
                          IF Shown(h) = a THEN [dk.docks[h] EXCEPT !.card.saving = FALSE] ELSE dk.docks[h]]]

\* The agent that launched the run is asked instead; the question stays.
Defers(h) ==
    LET a == Shown(h)
    IN  /\ a # 0 /\ IsRunAsk(a) /\ Runs[Asks[a].run] # None
        /\ dk.docks[h].card.deferred = "no" /\ Spend("answers")
        /\ dk' = [dk EXCEPT !.docks[h].card.deferred = "asking"]
        /\ UNCHANGED sv

DeferReturns(h) ==
    /\ dk.docks[h].card.deferred = "asking"
    /\ \/ dk' = [dk EXCEPT !.docks[h].card.deferred = "asked"] /\ UNCHANGED dkleft
       \/ dk' = [dk EXCEPT !.docks[h].card.deferred = "no"] /\ Spend("fails")
    /\ UNCHANGED sv

DkNext ==
    \/ Hears \/ Breaks \/ Reconnects \/ Rereads \/ LooksAway
    \/ \E t \in DOMAIN Turns : OpensTurn(t) \/ ClosesTurn(t)
    \/ \E r \in DOMAIN Runs : StartsRun(r) \/ FinishesRun(r) \/ ShowRun(r)
    \/ \E a \in Ids : IsAsked(a) \/ SettledElsewhere(a)
    \/ \E c \in Chats : Cancels(c) \/ CloseLands(c) \/ ShowChat(c) \/ ShowSpec(c) \/ CloseChatTab(c) \/ ReopenChat(c)
    \/ \E i \in DOMAIN sv.outs : AnswerArrives(i) \/ AnswerFails(i) \/ PersistThenApprove(i)
    \/ \E i \in DOMAIN sv.outs, taken \in BOOLEAN : StepAnswers(i, taken)
    \/ \E h \in DOMAIN dk.docks :
         \/ PhaseEnds(h) \/ Types(h) \/ Ticks(h) \/ PicksOption(h) \/ Answers(h) \/ Declines(h)
         \/ AlwaysAllow(h) \/ Defers(h) \/ DeferReturns(h)

-----------------------------------------------------------------------------
\* The stream is up and nothing is on its way.
Quiet == sv.up /\ sv.wire = <<>> /\ sv.outs = <<>> /\ sv.sync = "done" /\ sv.closing = {}

\* Dropped without a word while what asked it goes on: only its end sweeps it.
Unswept(a) ==
    /\ a \in sv.hushed
    /\ IF Asks[a].run # None THEN sv.runs[Asks[a].run] = "live"
       ELSE \E t \in DOMAIN Turns : Turns[t] = Asks[a].key /\ sv.turns[t] = "open"

\* No question is in the queues twice.  Once nothing is on its way every question the server
\* still waits for is in a queue (but one whose answer failed, or that a sweep took before
\* the page knew of its turn), and nothing else is but what the server dropped without a
\* word from a chat with a turn still open or from a run still going (once these are over
\* it is gone), what was asked in a chat the page did not hold, and what a close heard
\* before the turns were read again left alone.  Each dock shows the first of what it takes
\* and hides when it has none, and the words sent for a run's question are kept until it is
\* settled or the run is over.
AsksMatch ==
    /\ IsInjective(Flat(dk))
    /\ Quiet => LET queued == ToSet(Flat(dk)) IN
         /\ \A a \in sv.open \ sv.lost : Asks[a].key \in dk.known \cup DOMAIN Runs => a \in queued
         /\ \A a \in queued \ (sv.open \cup sv.stray) : Unswept(a)
    /\ \A h \in DOMAIN dk.docks : LET x == dk.docks[h] mine == Matching(dk, h) IN
         /\ x.key = (IF mine = <<>> THEN 0 ELSE Head(mine)) /\ x.depth = Len(mine)
         /\ x.phase # "leaving" => (x.hidden <=> x.key = 0)
    /\ \A a \in sv.sent \cap (sv.open \cup sv.claimed) : sv.runs[Asks[a].run] = "live" => dk.held[a] = Words
=============================================================================
