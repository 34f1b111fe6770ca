----------------------------- MODULE ClientCues -----------------------------
(***************************************************************************)
(* How the reader is told (static-src/attention.ts, notify.ts with         *)
(* notify-ask.ts, agent-finished-cue.ts, chat-settled.ts, run-dots.ts,     *)
(* chat-run-dots.ts, subagent-dots.ts, the dots of tabs.ts and store.ts,   *)
(* settings-notifications.ts).  Every row of the strip has a dot painted   *)
(* by effects that wake when a signal they read moves; the dots of chats   *)
(* and runs are cues, counted in the title and on the icon until the       *)
(* reader has looked; a finished turn is told once, when everything its    *)
(* chat started is over; and the notifications follow a switch the server  *)
(* keeps, a permission the browser keeps and a registration that takes     *)
(* several steps.                                                          *)
(***************************************************************************)
EXTENDS Integers, Sequences, FiniteSets, SequencesExt

CONSTANTS
    Strip,          \* row -> [kind: "chat", "run" or "task", ref]
    RunOf,          \* run -> the chat that started it, or "none"
    CueCap,         \* MAP_CAP of agent-finished-cue.ts
    CueScenarios    \* what may happen, and how often

VARIABLES
    cu,     \* the page
    wd,     \* the server and the browser
    culeft  \* how much more of the scenario may happen

cuevars == <<cu, wd, culeft>>

Runs == DOMAIN RunOf

Chats == {Strip[t].ref : t \in {u \in DOMAIN Strip : Strip[u].kind = "chat"}}

RowOf(kind, ref) == CHOOSE t \in DOMAIN Strip : Strip[t].kind = kind /\ Strip[t].ref = ref

HasRow(kind, ref) == \E t \in DOMAIN Strip : Strip[t].kind = kind /\ Strip[t].ref = ref

IsOpen(d, kind, ref) == HasRow(kind, ref) /\ RowOf(kind, ref) \in d.open

CueStatuses == {"input", "failed", "waiting", "done"}

Spend(what) == culeft[what] > 0 /\ culeft' = [culeft EXCEPT ![what] = @ - 1]

-----------------------------------------------------------------------------
(* What the page holds of a chat and of a run, and the dots made of it. *)

\* A turn the window holds open, the server's word for a window not held, or a row that
\* answers neither.
TurnLive(s) == s.held \/ s.flag = "yes" \/ s.provisional

HasPendingDecision(d, c) == \E a \in d.asks : a.chat = c

RunPendingAsks(d, r) == {a \in d.asks : a.run = r}

LiveRunsForChat(d, c) == {r \in Runs : RunOf[r] = c /\ d.live[r] # "no"}

\* chatOutstanding: the turn, the runs and the questions of a chat.
ChatSettled(d, c) ==
    /\ ~(d.chats[c].here /\ TurnLive(d.chats[c]))
    /\ LiveRunsForChat(d, c) = {}
    /\ ~HasPendingDecision(d, c)

TabStatusFor(s, pendingAsk) ==
    CASE ~s.here -> ""
      [] s.here /\ pendingAsk -> "input"
      [] s.here /\ ~pendingAsk /\ TurnLive(s) -> "working"
      [] s.here /\ ~pendingAsk /\ ~TurnLive(s) /\ s.latch = "failed" -> "failed"
      [] s.here /\ ~pendingAsk /\ ~TurnLive(s) /\ s.latch # "failed" /\ s.waiting -> "waiting"
      [] OTHER -> IF s.latch = "done" THEN "done" ELSE "idle"

RunStatusFor(status, pendingAsk) ==
    IF pendingAsk THEN "input"
    ELSE CASE status = "running" -> "working"
           [] status = "paused" -> "waiting"
           [] status = "need_input" -> "input"
           [] status \in {"failed", "aborted"} -> "failed"
           [] status \in {"completed", "cancelled"} -> "done"
           [] OTHER -> ""

\* A delegate still in progress in a turn that is over was given up with it.
SubagentStatusFor(status, turnLive) ==
    CASE status \in {"pending", "in_progress"} ->
            IF status = "in_progress" /\ ~turnLive THEN "done" ELSE "working"
      [] status \in {"completed", "aborted"} -> "done"
      [] status = "failed" -> "failed"
      [] OTHER -> ""

\* The mark a chat's row carries for its live runs: the most urgent of theirs.
FoldRuns(d, c) ==
    LET of == {RunStatusFor(IF d.cell[r] # "unread" THEN d.cell[r]
                            ELSE IF d.live[r] = "going" THEN "running" ELSE "unread",
                            RunPendingAsks(d, r) # {}) : r \in LiveRunsForChat(d, c)}
    IN  CASE "input" \in of -> "input"
          [] "input" \notin of /\ "waiting" \in of -> "waiting"
          [] "input" \notin of /\ "waiting" \notin of /\ "working" \in of -> "working"
          [] OTHER -> ""

-----------------------------------------------------------------------------
(* Painting: each effect over the rows that are open. *)

SetTabStatus(d, t, status) == [d EXCEPT !.dot[t] = status]

\* chatRowEffect, one per open chat the store knows.
ChatRows(d, cs) ==
    [d EXCEPT !.moved = @ \ cs, !.dot = [t \in DOMAIN Strip |->
        IF t \in d.open /\ Strip[t].kind = "chat" /\ Strip[t].ref \in cs /\ d.chats[Strip[t].ref].here
        THEN TabStatusFor(d.chats[Strip[t].ref], HasPendingDecision(d, Strip[t].ref))
        ELSE @[t]]]

\* Only the runs an event or an open row has named are painted.
RunRows(d) ==
    [d EXCEPT !.dot = [t \in DOMAIN Strip |->
        IF t \in d.open /\ Strip[t].kind = "run" /\ Strip[t].ref \in d.tracked
        THEN RunStatusFor(d.cell[Strip[t].ref], RunPendingAsks(d, Strip[t].ref) # {})
        ELSE @[t]]]

RunMarks(d) ==
    [d EXCEPT !.runDot = [t \in DOMAIN Strip |->
        IF t \in d.open /\ Strip[t].kind = "chat" THEN FoldRuns(d, Strip[t].ref) ELSE @[t]]]

\* A delegate's row: its call as the chat's window has it.
TaskRows(d) ==
    [d EXCEPT !.dot = [t \in DOMAIN Strip |->
        IF t \in d.open /\ Strip[t].kind = "task"
        THEN SubagentStatusFor(IF d.chats[Strip[t].ref].here THEN d.task ELSE "none",
                               ~d.chats[Strip[t].ref].here \/ TurnLive(d.chats[Strip[t].ref]))
        ELSE @[t]]]

-----------------------------------------------------------------------------
(* The cues: what is counted, and what the reader has seen of it. *)

\* A chat's "done" or "failed" says nothing while the chat's work goes on.
FoldedDotStatus(d, t) ==
    IF Strip[t].kind = "chat" /\ d.dot[t] \in {"done", "failed"} /\ ~ChatSettled(d, Strip[t].ref)
    THEN "" ELSE d.dot[t]

CueCandidates(d) == {t \in d.open : Strip[t].kind \in {"chat", "run"}}

IsUnseenCue(d, t) == FoldedDotStatus(d, t) \in CueStatuses /\ d.seen[t] # FoldedDotStatus(d, t)

WorstOf(statuses) ==
    IF statuses = {} THEN ""
    ELSE CHOOSE s \in statuses : \A o \in statuses :
            \E i, j \in 1 .. 4 : <<"input", "failed", "waiting", "done">>[i] = s
                              /\ <<"input", "failed", "waiting", "done">>[j] = o /\ i <= j

Summarize(d) ==
    LET unseen == {t \in CueCandidates(d) : IsUnseenCue(d, t)}
    IN  [count |-> Cardinality(unseen), worst |-> WorstOf({FoldedDotStatus(d, t) : t \in unseen})]

NoAttention == [count |-> 0, worst |-> ""]

Mark(d, ts) ==
    [d EXCEPT !.seen = [t \in DOMAIN Strip |->
        IF t \in ts /\ FoldedDotStatus(d, t) \in CueStatuses THEN FoldedDotStatus(d, t) ELSE @[t]]]

Apply(d, next) == [d EXCEPT !.surface = next]

\* A cue left behind is forgotten, the watched row's is seen; "" says nothing either way.
Sweep(d, watched) ==
    [d EXCEPT !.seen = [t \in DOMAIN Strip |->
        IF t \notin CueCandidates(d) \/ FoldedDotStatus(d, t) = "" THEN @[t]
        ELSE IF FoldedDotStatus(d, t) \notin CueStatuses THEN ""
        ELSE IF t \in watched THEN FoldedDotStatus(d, t) ELSE @[t]]]

(* A mutant of Refresh: the row on screen is seen though the page is hidden. *)
RefreshUnseen(d) == Apply(Sweep(d, {d.active}), Summarize(Sweep(d, {d.active})))

Refresh(d) ==
    LET swept == Sweep(d, IF d.visible THEN {d.active} ELSE {})
    IN  Apply(swept, Summarize(swept))

AckSeen(d) == IF d.visible THEN Refresh(Mark(d, d.inView \cap CueCandidates(d))) ELSE d

AckSwitch(d, t) == Refresh(IF d.visible THEN Mark(d, {t} \cap CueCandidates(d)) ELSE d)

ForgetSeen(d, t) == Refresh([d EXCEPT !.seen[t] = ""])

-----------------------------------------------------------------------------
(* Notifications: the automatic ask, the banner, the finished cue. *)

Askable(d) == d.permission = "default" /\ ~d.spent

ArmAsk(d) == IF d.requested \/ ~Askable(d) THEN d ELSE [d EXCEPT !.armed = TRUE]

NotifyIfHidden(d, tag, about) ==
    IF d.enabled /\ ~d.visible /\ d.permission = "granted"
    THEN [ArmAsk(d) EXCEPT !.shown[tag] = about] ELSE ArmAsk(d)

CloseNotificationsFor(d, tag) == [d EXCEPT !.shown[tag] = ""]

CloseNotificationsExcept(d, tags) ==
    [d EXCEPT !.shown = [x \in DOMAIN @ |-> IF x \in tags THEN @[x] ELSE ""]]

\* The tag of a question: its run's, or its chat's.
AskTag(a) == IF a.run # "none" THEN a.run ELSE a.chat

\* Raised through the switch of its kind and the window that drops replays; what is owed
\* is then paid, shown or not.
Raise(d, c, body) ==
    IF ~d.kinds.finished \/ c \in d.stamped THEN [d EXCEPT !.due = @ \ {c}]
    ELSE NotifyIfHidden([d EXCEPT !.stamped = @ \cup {c}, !.due = @ \ {c},
                                  !.early = @ \/ ~ChatSettled(d, c)], c, body)

\* The release effect: every parked cue whose chat is settled, and what it reads on its way.
Release(d) ==
    LET ready == {i \in DOMAIN d.parked : ChatSettled(d, d.parked[i].chat)}
        stay(p) == \A i \in ready : d.parked[i] # p
        kept == [d EXCEPT !.parked = SelectSeq(@, stay), !.reads = {d.parked[i].chat : i \in DOMAIN d.parked}]
    IN  FoldLeft(LAMBDA e, i : IF i \in ready THEN Raise(e, d.parked[i].chat, d.parked[i].body) ELSE e,
                 kept, [i \in DOMAIN d.parked |-> i])

\* What the signals wake: the effects that read them, and then the count.
SessionWakes(d, c) ==
    Refresh(IF c \in d.reads THEN Release(TaskRows(ChatRows(d, {c}))) ELSE TaskRows(ChatRows(d, {c})))

AsksWake(d) ==
    LET painted == RunMarks(RunRows(ChatRows(d, Chats)))
    IN  Refresh(IF d.reads # {} THEN Release(painted) ELSE painted)

LiveWakes(d) == Refresh(IF d.reads # {} THEN Release(RunMarks(d)) ELSE RunMarks(d))

CellWakes(d) == Refresh(RunMarks(RunRows(d)))

\* The set of rows: the chats' effects are installed, an unheard run's row is asked for.
TabsWake(d) ==
    LET unheard == {r \in Runs : IsOpen(d, "run", r)} \ d.tracked
    IN  Refresh(TaskRows(RunMarks(RunRows(ChatRows(
            [d EXCEPT !.tracked = @ \cup unheard, !.reading = @ \cup unheard], Chats)))))

(* A mutant of NoteFinished: parking wakes nothing. *)
ParkQuietly(d, c, body) ==
    IF body = "" \/ ~d.kinds.finished THEN d
    ELSE IF ChatSettled(d, c) THEN Raise([d EXCEPT !.due = @ \cup {c}], c, body)
    ELSE [d EXCEPT !.due = @ \cup {c}, !.parked = Append(@, [chat |-> c, body |-> body])]

NoteFinished(d, c, body) ==
    LET at == {i \in DOMAIN d.parked : d.parked[i].chat = c}
        placed == IF at # {} THEN [i \in DOMAIN d.parked |-> IF i \in at THEN [chat |-> c, body |-> body]
                                                             ELSE d.parked[i]]
                  ELSE Append(d.parked, [chat |-> c, body |-> body])
        fits == SubSeq(placed, 1 + Len(placed) - (IF Len(placed) > CueCap THEN CueCap ELSE Len(placed)), Len(placed))
    IN  IF body = "" \/ ~d.kinds.finished THEN d
        ELSE IF ChatSettled(d, c) THEN Raise([d EXCEPT !.due = @ \cup {c}], c, body)
        ELSE Release([d EXCEPT !.parked = fits,
                               !.due = (@ \cup {c}) \cap {fits[i].chat : i \in DOMAIN fits}])

ForgetDeferred(d, c) ==
    [d EXCEPT !.parked = SelectSeq(@, LAMBDA p : p.chat # c), !.due = @ \ {c}]

-----------------------------------------------------------------------------
(* What the store does with a frame. *)

Unknown ==
    [here |-> FALSE, held |-> FALSE, flag |-> "unset", provisional |-> FALSE,
     thinking |-> FALSE, waiting |-> FALSE, latch |-> ""]

SetThinking(d, c, v) ==
    IF ~d.chats[c].here THEN d
    ELSE SessionWakes([d EXCEPT !.chats[c].thinking = v,
                                !.chats[c].waiting = @ /\ ~v,
                                !.chats[c].flag = IF v THEN "unset" ELSE @], c)

SetTurnOpen(d, c, open) ==
    LET says == IF open THEN "yes" ELSE "no"
    IN  IF ~d.chats[c].here \/ d.chats[c].flag = says THEN d
        ELSE SessionWakes([d EXCEPT !.chats[c].flag = says], c)

SetAgentStatus(d, c, waiting) ==
    IF ~d.chats[c].here \/ d.chats[c].waiting = waiting THEN d
    ELSE SessionWakes([d EXCEPT !.chats[c].waiting = waiting], c)

\* The header's word on the newest finished turn is the one writer of the latch.
UpsertHeader(d, c, latch) ==
    SessionWakes([d EXCEPT !.chats[c].latch = latch, !.chats[c].here = TRUE], c)

ClearTurnState(d, c) ==
    LET over == SetThinking(d, c, FALSE)
    IN  IF IsOpen(over, "chat", c)
        THEN Refresh(SetTabStatus(over, RowOf("chat", c),
                                  TabStatusFor(over.chats[c], HasPendingDecision(over, c))))
        ELSE over

\* The queue's signal moves only when something was dropped.
DropAsks(d, kept) == IF kept = d.asks THEN d ELSE AsksWake([d EXCEPT !.asks = kept])

DropDecisions(d, c) == DropAsks([d EXCEPT !.orphans = @ \cup {c}], {a \in d.asks : a.chat # c})

\* A chat's own questions; those of its runs stay.
DropTurnDecisions(d, c) ==
    DropAsks([d EXCEPT !.orphans = @ \cup {c}], {a \in d.asks : a.chat # c \/ a.run # "none"})

RemoveChat(d, c) == SessionWakes([d EXCEPT !.chats[c] = Unknown], c)

\* turn_opened puts the turn in the window in place: no signal of the session moves.
OnTurnOpened(d, c) == IF d.chats[c].here THEN TaskRows([d EXCEPT !.chats[c].held = TRUE, !.moved = @ \cup {c}]) ELSE d

OnEntry(d, c) == IF d.chats[c].here /\ ~d.chats[c].thinking THEN SetThinking(d, c, TRUE) ELSE d

NotifyBody(outcome) == CASE outcome = "clean" -> "finished" [] outcome = "broken" -> "failed" [] OTHER -> ""

\* turn_closed: the close is appended, the turn's questions go, the latches settle, and then
\* the reader is told.
OnTurnClosed(d, c, outcome) ==
    LET appended == IF d.chats[c].here THEN [d EXCEPT !.chats[c].held = FALSE] ELSE d
        settled == ClearTurnState(SetTurnOpen(DropTurnDecisions(appended, c), c, FALSE), c)
    IN  NoteFinished(settled, c, NotifyBody(outcome))

OnAsk(d, a) ==
    LET told == NotifyIfHidden(d, AskTag(a), "ask")
    IN  AsksWake([told EXCEPT !.asks = @ \cup {a}, !.orphans = @ \ {AskTag(a)}])

\* A run's own question names the run, and its chat, to the live list first.
OnRunInput(d, a) ==
    OnAsk(LiveWakes(RunRows([d EXCEPT !.tracked = @ \cup {a.run}, !.live[a.run] = "parked"])), a)

OnSettled(d, a) == CloseNotificationsFor(AsksWake([d EXCEPT !.asks = @ \ {a}]), AskTag(a))

InvalidateRun(d, r) == [d EXCEPT !.reading = @ \cup {r}]

OnRunStarted(d, r) ==
    InvalidateRun(LiveWakes(RunRows([d EXCEPT !.tracked = @ \cup {r}, !.live[r] = "going"])), r)

DropRunAsks(d, r) == DropAsks([d EXCEPT !.orphans = @ \cup {r}], {a \in d.asks : a.run # r})

OnRunFinished(d, r, status) ==
    LET seen == [d EXCEPT !.tracked = @ \cup {r}]
        c == RunOf[r]
        parked == LiveWakes(RunRows([seen EXCEPT !.live[r] = "parked"]))
        over == DropRunAsks(LiveWakes(RunRows([seen EXCEPT !.live[r] = "no"])), r)
    IN  InvalidateRun(
            IF status = "paused" THEN parked
            ELSE IF c = "none" \/ over.chats[c].thinking \/ LiveRunsForChat(over, c) # {} THEN over
            ELSE DropTurnDecisions(over, c), r)

-----------------------------------------------------------------------------
(* The stream's return, and what it says first. *)

\* Nothing the client holds is trusted: latches go, the lists and the runs are read again.
OnReconcile(d) ==
    LET torn == FoldLeft(LAMBDA e, c : IF e.chats[c].here THEN ClearTurnState(e, c) ELSE e, d, SetToSeq(Chats))
    IN  [torn EXCEPT !.reading = @ \cup {r \in Runs : torn.cell[r] # "unread"},
                     !.lists = {"chats", "runs"}, !.stale = Chats,
                     !.owed = <<"connected", "pending", "statuses">>]

AdoptLiveRuns(d, live) ==
    LiveWakes(RunRows([d EXCEPT !.live = live, !.tracked = @ \cup {r \in Runs : live[r] # "no"}]))

\* connected: the busy chats are latched and the others unlatched, then the live runs.
OnConnected(d, busy, live) ==
    AdoptLiveRuns(
        FoldLeft(LAMBDA e, c :
                    IF ~e.chats[c].here THEN e
                    ELSE IF busy[c] THEN (IF e.chats[c].thinking THEN e ELSE SetThinking(e, c, TRUE))
                    ELSE IF e.chats[c].thinking THEN ClearTurnState(e, c) ELSE e,
                 d, SetToSeq(Chats)), live)

\* pending_snapshot: every banner and question goes but those it names, and those come anew.
OnPending(d, asks) ==
    LET kept == CloseNotificationsExcept(d, {AskTag(a) : a \in asks})
        bare == AsksWake([kept EXCEPT !.asks = {}])
    IN  FoldLeft(LAMBDA e, a : IF a.run # "none" THEN OnRunInput(e, a) ELSE OnAsk(e, a), bare, SetToSeq(asks))

OnStatuses(d, waiting) ==
    FoldLeft(LAMBDA e, c : SetAgentStatus(e, c, waiting[c]), d, SetToSeq(Chats))

\* The list of chats: rows rebuilt, with nothing left of a guess.
OnList(d, here, latch) ==
    LET rebuilt == [c \in Chats |->
                      IF ~here[c] THEN Unknown
                      ELSE [d.chats[c] EXCEPT !.here = TRUE, !.provisional = FALSE, !.flag = "unset",
                                              !.latch = latch[c]]]
    IN  FoldLeft(LAMBDA e, c : SessionWakes(e, c), [d EXCEPT !.chats = rebuilt], SetToSeq(Chats))

-----------------------------------------------------------------------------
(* The switch, the permission and the registration. *)

Call(d, call) == [d EXCEPT !.calls = Append(@, call)]

Answered(d, i) == [d EXCEPT !.calls = RemoveAt(@, i)]

InFlight(d, kind) == {i \in DOMAIN d.calls : d.calls[i].kind = kind}

RegisterPush(d) ==
    IF d.push \in {"registered", "registering"} THEN d
    ELSE Call([d EXCEPT !.push = "registering"], [kind |-> "register", at |-> 0, off |-> FALSE, late |-> ~d.enabled])

AutoSubscribe(d) ==
    IF d.push \in {"registered", "failed", "registering"} \/ d.permission # "granted" THEN d
    ELSE RegisterPush(d)

UnregisterPush(d) ==
    LET idle == [d EXCEPT !.push = "idle",
                          !.calls = [i \in DOMAIN @ |-> IF @[i].kind = "register" THEN [@[i] EXCEPT !.off = TRUE]
                                                        ELSE @[i]]]
    IN  IF d.registration THEN Call([idle EXCEPT !.registration = FALSE], [kind |-> "drop"]) ELSE idle

\* The panel's toggles redrawn from what is held.
PaintToggles(d) == [d EXCEPT !.toggle = [master |-> d.enabled, finished |-> d.kinds.finished, runs |-> d.kinds.runs]]

RestoreNotifications(d, s) ==
    LET held == [d EXCEPT !.enabled = s.enabled, !.kinds = [finished |-> s.finished, runs |-> s.runs]]
    IN  PaintToggles(IF s.enabled THEN AutoSubscribe(held)
                     ELSE IF d.enabled THEN UnregisterPush(held) ELSE held)

SpendAsk(d) == [d EXCEPT !.armed = FALSE, !.requested = TRUE, !.spent = TRUE]

\* requestPermission of the switch: the automatic ask is spent with it.
RequestPermission(d) ==
    CASE d.permission = "granted" -> RegisterPush(SpendAsk(d))
      [] d.permission = "default" -> Call(SpendAsk(d), [kind |-> "prompt", by |-> "switch"])
      [] OTHER -> SpendAsk(d)

\* patchSettings: the changes, the inputs to turn back, and what follows.
Patch(d, body, inputs, then) ==
    Call(d, [kind |-> "patch", body |-> body, was |-> [x \in inputs |-> ~d.toggle[x]], then |-> then])

AdoptGrant(d) == IF d.enabled THEN RegisterPush(d) ELSE Patch(d, [enabled |-> TRUE], {}, "adopt")

\* The switch turned on: every kind back to its default, under one patch.
EnableEverything(d) ==
    LET on == [d EXCEPT !.toggle = [master |-> TRUE, finished |-> TRUE, runs |-> TRUE]]
    IN  Call(on, [kind |-> "patch", body |-> [enabled |-> TRUE, finished |-> TRUE, runs |-> TRUE], then |-> "all",
                  was |-> [x \in {"master"} \cup {k \in {"finished", "runs"} : ~d.toggle[k]} |-> FALSE]])

ApplyKindChange(d, k) ==
    LET v == d.toggle[k]
        allOff == ~d.toggle.finished /\ ~d.toggle.runs
        off == IF allOff THEN [d EXCEPT !.toggle.master = FALSE] ELSE d
    IN  IF v = d.kinds[k] THEN d
        ELSE Patch(off, IF allOff THEN (k :> v) @@ [enabled |-> FALSE] ELSE (k :> v),
                   IF allOff THEN {k, "master"} ELSE {k}, IF allOff THEN "off " \o k ELSE k)

\* What each caller does with the answer to its patch.
PatchAnswered(d, call, ok) ==
    LET back == [d EXCEPT !.toggle = call.was @@ @]
        off(e) == UnregisterPush(SpendAsk([e EXCEPT !.enabled = FALSE]))
        kept(e, k) == [e EXCEPT !.kinds[k] = e.toggle[k]]
    IN  CASE ~ok /\ call.then = "all" ->
                UnregisterPush([back EXCEPT !.enabled = FALSE, !.kinds = [finished |-> FALSE, runs |-> FALSE]])
          [] ~ok /\ call.then # "all" -> back
          [] ok /\ call.then = "all" ->
                RequestPermission([d EXCEPT !.enabled = TRUE, !.kinds = [finished |-> TRUE, runs |-> TRUE]])
          [] ok /\ call.then = "adopt" -> RegisterPush(PaintToggles([d EXCEPT !.enabled = TRUE]))
          [] ok /\ call.then = "off" -> off(d)
          [] ok /\ call.then \in {"off finished", "off runs"} ->
                off(kept(d, IF call.then = "off runs" THEN "runs" ELSE "finished"))
          [] OTHER -> kept(d, call.then)

-----------------------------------------------------------------------------
(* The page at its start, and at its reload. *)

BlankChat(latch) == [Unknown EXCEPT !.here = TRUE, !.latch = latch]

Blank(s) ==
    [chats |-> [c \in Chats |-> BlankChat("")],
     asks |-> {}, live |-> [r \in Runs |-> "no"], cell |-> [r \in Runs |-> "unread"], task |-> "none",
     tracked |-> {}, reading |-> {}, lists |-> {}, windows |-> {}, stale |-> {}, owed |-> <<>>, booting |-> FALSE,
     open |-> s.open, active |-> s.active, visible |-> TRUE, gone |-> FALSE, inView |-> {},
     dot |-> [t \in DOMAIN Strip |-> ""], runDot |-> [t \in DOMAIN Strip |-> ""],
     seen |-> [t \in DOMAIN Strip |-> ""], surface |-> NoAttention,
     parked |-> <<>>, reads |-> {}, stamped |-> {},
     shown |-> [x \in Chats \cup Runs |-> ""],
     enabled |-> s.on, kinds |-> [finished |-> TRUE, runs |-> TRUE], permission |-> s.permission,
     armed |-> FALSE, requested |-> FALSE, spent |-> FALSE,
     push |-> IF s.on /\ s.permission = "granted" THEN "registered" ELSE "idle",
     registration |-> s.on /\ s.permission = "granted",
     toggle |-> [master |-> s.on, finished |-> TRUE, runs |-> TRUE], calls |-> <<>>,
     due |-> {}, early |-> FALSE, orphans |-> {}, moved |-> {}, made |-> s.on]

CuesInit ==
    \E s \in CueScenarios :
        /\ culeft = s
        /\ cu = TabsWake(Blank(s))
        /\ wd = [turn |-> [c \in Chats |-> FALSE], here |-> [c \in Chats |-> TRUE],
                 latch |-> [c \in Chats |-> ""], headers |-> {}, closing |-> [c \in Chats |-> ""],
                 waiting |-> [c \in Chats |-> FALSE], run |-> [r \in Runs |-> "none"], asks |-> {},
                 up |-> TRUE, set |-> [enabled |-> s.on, finished |-> TRUE, runs |-> TRUE],
                 sub |-> s.on /\ s.permission = "granted"]

-----------------------------------------------------------------------------
(* The server's moves, and the page's when it hears of them. *)

Hears == wd.up /\ cu.owed = <<>> /\ ~cu.gone

\* Between the stream's return and its first frames nothing else comes.
Calm == cu.owed = <<>> \/ ~wd.up

Told(d) == cu' = IF Hears THEN d ELSE cu

TurnOpens(c) ==
    /\ Calm /\ Spend("turns") /\ wd.here[c] /\ ~wd.turn[c]
    /\ wd' = [wd EXCEPT !.turn[c] = TRUE, !.waiting[c] = FALSE]
    /\ Told(OnTurnOpened(cu, c))

TurnWorks(c) ==
    /\ Hears /\ wd.turn[c] /\ ~cu.chats[c].thinking /\ cu.chats[c].here
    /\ cu' = OnEntry(cu, c)
    /\ UNCHANGED <<wd, culeft>>

\* A delegate's call moves on in its chat's window.
TaskMoves(status) ==
    /\ Hears /\ Spend("tasks") /\ cu.task # status
    /\ \E t \in DOMAIN Strip : Strip[t].kind = "task" /\ cu.chats[Strip[t].ref].held
    /\ cu' = TaskRows([cu EXCEPT !.task = status])
    /\ UNCHANGED wd

TurnCloses(c, outcome) ==
    /\ Calm /\ wd.turn[c] /\ UNCHANGED culeft
    /\ outcome = "stopped" => culeft.stops > 0
    /\ wd' = [wd EXCEPT !.turn[c] = FALSE, !.headers = IF Hears THEN @ \cup {c} ELSE @,
                        !.asks = {a \in @ : a.chat # c \/ a.run # "none"},
                        !.latch[c] = IF outcome = "broken" THEN "failed" ELSE "done"]
    /\ Told(OnTurnClosed(cu, c, outcome))

HeaderArrives(c) ==
    /\ c \in wd.headers /\ Calm
    /\ wd' = [wd EXCEPT !.headers = @ \ {c}]
    /\ cu' = IF Hears /\ wd.here[c] THEN UpsertHeader(cu, c, wd.latch[c]) ELSE cu
    /\ UNCHANGED culeft

AgentWaits(c) ==
    /\ Calm /\ Spend("waits") /\ wd.here[c] /\ ~wd.turn[c]
    /\ wd' = [wd EXCEPT !.waiting[c] = TRUE]
    /\ Told(SetAgentStatus(cu, c, TRUE))

TurnAsks(c) ==
    LET a == [chat |-> c, run |-> "none"]
    IN  /\ Calm /\ Spend("asks") /\ wd.turn[c] /\ a \notin wd.asks
        /\ wd' = [wd EXCEPT !.asks = @ \cup {a}]
        /\ Told(OnAsk(cu, a))

\* Answered here or elsewhere: the settled frame is what takes the card and the banner away.
AskSettles(a) ==
    /\ Calm /\ a \in wd.asks
    /\ wd' = [wd EXCEPT !.asks = @ \ {a}, !.run = IF a.run = "none" THEN @ ELSE [@ EXCEPT ![a.run] = "running"]]
    /\ Told(OnSettled(cu, a))
    /\ UNCHANGED culeft

RunStarts(r) ==
    /\ Calm /\ Spend("runs") /\ wd.run[r] = "none" /\ (RunOf[r] # "none" => wd.turn[RunOf[r]])
    /\ wd' = [wd EXCEPT !.run[r] = "running"]
    /\ Told(OnRunStarted(cu, r))

RunAsks(r) ==
    LET a == [chat |-> RunOf[r], run |-> r]
    IN  /\ Calm /\ Spend("asks") /\ wd.run[r] = "running"
        /\ wd' = [wd EXCEPT !.run[r] = "need_input", !.asks = @ \cup {a}]
        /\ Told(OnRunInput(cu, a))

RunEnds(r, status) ==
    /\ Calm /\ wd.run[r] \in {"running", "need_input"} \cup (IF status = "paused" THEN {} ELSE {"paused"})
    /\ status = "paused" => culeft.pauses > 0
    /\ culeft' = IF status = "paused" THEN [culeft EXCEPT !.pauses = @ - 1] ELSE culeft
    /\ wd' = [wd EXCEPT !.run[r] = status, !.asks = {a \in @ : a.run # r}]
    /\ Told(OnRunFinished(cu, r, status))

RunReadLands(r) ==
    /\ r \in cu.reading /\ ~cu.gone /\ UNCHANGED <<wd, culeft>>
    /\ cu' = CellWakes([cu EXCEPT !.reading = @ \ {r},
                                  !.cell[r] = IF wd.run[r] = "none" THEN @ ELSE wd.run[r]])

ChatDeleted(c) ==
    /\ Calm /\ Spend("deletes") /\ wd.here[c] /\ ~wd.turn[c]
    /\ wd' = [wd EXCEPT !.here[c] = FALSE, !.headers = @ \ {c}]
    /\ Told(RemoveChat(ForgetDeferred(DropDecisions(cu, c), c), c))

Breaks ==
    /\ wd.up /\ ~cu.gone /\ cu.owed = <<>> /\ Spend("breaks")
    /\ wd' = [wd EXCEPT !.up = FALSE, !.headers = {}]
    /\ UNCHANGED cu

WatchWindow(d) ==
    LET c == Strip[d.active].ref
    IN  IF d.active \in d.open /\ Strip[d.active].kind = "chat" /\ c \in d.stale
        THEN [d EXCEPT !.stale = @ \ {c}, !.windows = @ \cup {c}] ELSE d

Returns ==
    /\ ~wd.up /\ ~cu.gone
    /\ wd' = [wd EXCEPT !.up = TRUE]
    /\ cu' = WatchWindow(OnReconcile(cu))
    /\ UNCHANGED culeft

\* The first frames, in their order; a page that boots holds them until its list is read.
Hello ==
    /\ cu.owed # <<>> /\ wd.up /\ ~cu.gone /\ (cu.booting => "chats" \notin cu.lists)
    /\ LET d == [cu EXCEPT !.owed = Tail(@), !.booting = FALSE]
           live == [r \in Runs |-> CASE wd.run[r] = "running" -> "going"
                                     [] wd.run[r] \in {"paused", "need_input"} -> "parked"
                                     [] OTHER -> "no"]
       IN  cu' = CASE Head(cu.owed) = "connected" -> OnConnected(d, wd.turn, live)
                   [] Head(cu.owed) = "pending" -> OnPending(d, wd.asks)
                   [] OTHER -> OnStatuses(d, wd.waiting)
    /\ UNCHANGED <<wd, culeft>>

ListLands(answered) ==
    /\ "chats" \in cu.lists /\ ~cu.gone
    /\ IF answered THEN UNCHANGED culeft ELSE Spend("fails")
    /\ LET d == [cu EXCEPT !.lists = @ \ {"chats"}]
       IN  cu' = IF answered THEN OnList(d, wd.here, wd.latch) ELSE d
    /\ UNCHANGED wd

RunListLands ==
    /\ "runs" \in cu.lists /\ ~cu.gone /\ UNCHANGED <<wd, culeft>>
    /\ LET live == [r \in Runs |-> CASE wd.run[r] = "running" -> "going"
                                     [] wd.run[r] \in {"paused", "need_input"} -> "parked"
                                     [] OTHER -> "no"]
       IN  cu' = [AdoptLiveRuns([cu EXCEPT !.lists = @ \ {"runs"}], live)
                    EXCEPT !.reading = @ \cup {r \in Runs : live[r] # "no"}]

\* The newest page of a chat's window, with the server's word on its turn.
WindowLands(c) ==
    /\ c \in cu.windows /\ ~cu.gone /\ UNCHANGED <<wd, culeft>>
    /\ LET d == [cu EXCEPT !.windows = @ \ {c}]
           paged == SetTurnOpen([d EXCEPT !.chats[c].held = wd.turn[c]], c, wd.turn[c])
       IN  cu' = IF ~cu.chats[c].here \/ ~wd.here[c] THEN d
                 ELSE IF wd.turn[c] THEN paged ELSE ClearTurnState(paged, c)

-----------------------------------------------------------------------------
(* The reader: where they look, what they close, whether the page is there. *)

Switches(t) ==
    /\ t \in cu.open /\ t # cu.active /\ ~cu.gone /\ Spend("views")
    /\ LET shown == WatchWindow(TabsWake([cu EXCEPT !.active = t]))
       IN  cu' = IF Strip[t].kind = "chat" THEN AckSwitch(shown, t) ELSE shown
    /\ UNCHANGED wd

Hides ==
    /\ cu.visible /\ Spend("hides")
    /\ cu' = [cu EXCEPT !.visible = FALSE]
    /\ UNCHANGED wd

Shows ==
    /\ ~cu.visible /\ ~cu.gone /\ UNCHANGED <<wd, culeft>>
    /\ cu' = AckSeen([cu EXCEPT !.visible = TRUE])

\* The drawer opens over the strip, or shuts.
DrawerMoves ==
    /\ ~cu.gone /\ cu.visible /\ Spend("drawers")
    /\ cu' = AckSeen([cu EXCEPT !.inView = IF @ = {} THEN cu.open ELSE {}])
    /\ UNCHANGED wd

\* A row's close takes what the page holds of its chat with it.
ClosesTab(t) ==
    /\ t \in cu.open /\ ~cu.gone /\ Cardinality(cu.open) > 1 /\ Spend("closes")
    /\ LET c == Strip[t].ref
           left == IF Strip[t].kind = "chat" THEN RemoveChat(ForgetDeferred(DropDecisions(cu, c), c), c) ELSE cu
           gone == [left EXCEPT !.open = @ \ {t}, !.inView = @ \ {t}, !.dot[t] = "", !.runDot[t] = "",
                                !.active = IF @ = t THEN CHOOSE u \in cu.open \ {t} : TRUE ELSE @]
       IN  cu' = WatchWindow(ForgetSeen(TabsWake(gone), t))
    /\ UNCHANGED wd

\* A row is opened on the server's answer: a chat the store does not know is read first.
OpensTab(t) ==
    /\ t \in DOMAIN Strip \ cu.open /\ ~cu.gone /\ Spend("opens")
    /\ Strip[t].kind = "chat" => wd.here[Strip[t].ref]
    /\ LET c == Strip[t].ref
           known == IF Strip[t].kind # "chat" \/ cu.chats[c].here THEN cu
                    ELSE [UpsertHeader(cu, c, wd.latch[c]) EXCEPT !.stale = @ \cup {c}]
       IN  cu' = WatchWindow(TabsWake([known EXCEPT !.open = @ \cup {t}, !.active = t]))
    /\ UNCHANGED wd

StampExpires(c) == c \in cu.stamped /\ ~cu.gone /\ cu' = [cu EXCEPT !.stamped = @ \ {c}] /\ UNCHANGED <<wd, culeft>>

\* pagehide: a page kept aside claims nothing, and hears nothing.
PageGone ==
    /\ ~cu.gone /\ cu.owed = <<>> /\ Spend("asides")
    /\ cu' = Apply([cu EXCEPT !.gone = TRUE, !.visible = FALSE], NoAttention)
    /\ wd' = [wd EXCEPT !.up = FALSE, !.headers = {}]

PageBack ==
    /\ cu.gone /\ UNCHANGED <<wd, culeft>>
    /\ cu' = Refresh([cu EXCEPT !.gone = FALSE, !.visible = TRUE])

\* A reload: the rows come from the snapshot, as guesses, and everything else is read again.
Reload ==
    /\ ~cu.gone /\ cu.owed = <<>> /\ cu.lists = {} /\ Spend("reloads")
    /\ LET s == [open |-> cu.open, active |-> cu.active, on |-> FALSE, permission |-> cu.permission]
           hint(c) == IF cu.chats[c].here THEN [BlankChat(cu.chats[c].latch) EXCEPT !.provisional = TRUE] ELSE Unknown
           fresh == [Blank(s) EXCEPT !.chats = [c \in Chats |-> hint(c)], !.seen = cu.seen, !.spent = cu.spent,
                                     !.booting = TRUE, !.lists = {"chats", "runs"}, !.stale = Chats,
                                     !.owed = <<"connected", "pending", "statuses">>,
                                     !.calls = <<[kind |-> "sync", s |-> <<>>]>>]
       IN  cu' = WatchWindow(TabsWake(fresh))
    /\ wd' = [wd EXCEPT !.up = TRUE, !.headers = {}]

-----------------------------------------------------------------------------
(* The notifications panel, the settings and the browser. *)

StartSync(d) == IF InFlight(d, "sync") # {} THEN d ELSE Call(d, [kind |-> "sync", s |-> <<>>])

Busy(d) == InFlight(d, "patch") # {} \/ InFlight(d, "register") # {}

FlipsMaster ==
    /\ ~cu.gone /\ ~Busy(cu) /\ Spend("flips")
    /\ cu' = IF cu.toggle.master
             THEN Patch([cu EXCEPT !.toggle.master = FALSE], [enabled |-> FALSE], {"master"}, "off")
             ELSE EnableEverything(cu)
    /\ UNCHANGED wd

FlipsKind(k) ==
    /\ ~cu.gone /\ cu.toggle.master /\ Spend("kinds")
    /\ cu' = ApplyKindChange([cu EXCEPT !.toggle[k] = ~@], k)
    /\ UNCHANGED wd

\* Patches are sent one after the other; an accepted one is announced to every device.
PatchLands(ok) ==
    /\ InFlight(cu, "patch") # {} /\ ~cu.gone
    /\ IF ok THEN UNCHANGED culeft ELSE Spend("fails")
    /\ LET i == Min(InFlight(cu, "patch"))
           call == cu.calls[i]
           done == PatchAnswered(Answered(cu, i), call, ok)
       IN  /\ wd' = IF ok THEN [wd EXCEPT !.set = call.body @@ @] ELSE wd
           /\ cu' = IF ok /\ Hears THEN StartSync(done) ELSE done

ElsewhereSets ==
    /\ Calm /\ Spend("elsewhere")
    /\ wd' = [wd EXCEPT !.set.enabled = ~@]
    /\ Told(StartSync(cu))

SyncServed(i) ==
    /\ cu.calls[i].kind = "sync" /\ cu.calls[i].s = <<>> /\ ~cu.gone
    /\ cu' = [cu EXCEPT !.calls[i].s = <<wd.set>>]
    /\ UNCHANGED <<wd, culeft>>

SyncLands(i) ==
    /\ cu.calls[i].kind = "sync" /\ cu.calls[i].s # <<>> /\ ~cu.gone
    /\ cu' = RestoreNotifications(Answered(cu, i), cu.calls[i].s[1])
    /\ UNCHANGED <<wd, culeft>>

\* A click anywhere: the ask that was armed is made, once.
Gesture ==
    /\ cu.armed /\ ~cu.requested /\ ~cu.gone /\ UNCHANGED <<wd, culeft>>
    /\ cu' = IF ~Askable(cu) THEN [cu EXCEPT !.armed = FALSE]
             ELSE Call(SpendAsk(cu), [kind |-> "prompt", by |-> "ask"])

PromptAnswered(i, answer) ==
    /\ cu.calls[i].kind = "prompt" /\ ~cu.gone /\ UNCHANGED <<wd, culeft>>
    /\ LET d == [Answered(cu, i) EXCEPT !.permission = answer]
       IN  cu' = IF answer # "granted" THEN d
                 ELSE IF cu.calls[i].by = "ask" THEN AdoptGrant(d) ELSE RegisterPush(d)

RegisterEnds(i, ok) ==
    LET d == Answered(cu, i)
    IN  IF ok THEN [d EXCEPT !.push = "registered", !.registration = TRUE]
        ELSE [d EXCEPT !.push = "failed", !.toggle.master = @ /\ cu.calls[i].off]

\* The registration's own steps, each of which looks whether it was called off.
RegisterMoves(i, ok) ==
    LET call == cu.calls[i]
    IN  /\ call.kind = "register" /\ ~cu.gone
        /\ IF ok \/ call.off THEN UNCHANGED culeft ELSE Spend("fails")
        /\ CASE call.at = 0 /\ (call.off \/ ~ok) ->
                    cu' = RegisterEnds(i, FALSE) /\ UNCHANGED wd
             [] call.at = 0 /\ ~call.off /\ ok ->
                    /\ wd' = [wd EXCEPT !.sub = TRUE]
                    /\ cu' = [cu EXCEPT !.calls[i].at = 1, !.made = @ \/ ~call.late]
             [] call.at = 1 /\ (call.off \/ ~ok) ->
                    cu' = RegisterEnds(i, FALSE) /\ wd' = [wd EXCEPT !.sub = FALSE]
             [] OTHER -> cu' = RegisterEnds(i, TRUE) /\ UNCHANGED wd

DropLands(i) ==
    /\ cu.calls[i].kind = "drop" /\ ~cu.gone
    /\ cu' = Answered(cu, i)
    /\ wd' = [wd EXCEPT !.sub = FALSE]
    /\ UNCHANGED culeft

-----------------------------------------------------------------------------
CuesNext ==
    \/ \E c \in Chats : \/ TurnOpens(c) \/ TurnWorks(c) \/ HeaderArrives(c) \/ AgentWaits(c)
                        \/ TurnAsks(c) \/ ChatDeleted(c) \/ WindowLands(c) \/ StampExpires(c)
                        \/ \E o \in {"clean", "broken", "stopped"} : TurnCloses(c, o)
    \/ \E a \in wd.asks : AskSettles(a)
    \/ \E r \in Runs : \/ RunStarts(r) \/ RunAsks(r) \/ RunReadLands(r)
                       \/ \E st \in {"completed", "failed", "paused"} : RunEnds(r, st)
    \/ \E st \in {"in_progress", "completed", "failed"} : TaskMoves(st)
    \/ \E t \in DOMAIN Strip : Switches(t) \/ ClosesTab(t) \/ OpensTab(t)
    \/ Breaks \/ Returns \/ Hello \/ RunListLands
    \/ \E ok \in BOOLEAN : ListLands(ok) \/ PatchLands(ok)
    \/ Hides \/ Shows \/ DrawerMoves \/ PageGone \/ PageBack \/ Reload
    \/ FlipsMaster \/ ElsewhereSets \/ Gesture
    \/ \E k \in {"finished", "runs"} : FlipsKind(k)
    \/ \E i \in DOMAIN cu.calls : \/ SyncServed(i) \/ SyncLands(i) \/ DropLands(i)
                                  \/ \E ans \in {"granted", "denied", "default"} : PromptAnswered(i, ans)
                                  \/ \E ok \in BOOLEAN : RegisterMoves(i, ok)

-----------------------------------------------------------------------------
\* A finished turn is told exactly when all its chat started is over: a parked cue has
\* something to wait for, what is owed is parked, and nothing is told before.
FinishedIsTold ==
    /\ ~cu.early
    /\ \A i \in DOMAIN cu.parked : ~ChatSettled(cu, cu.parked[i].chat)
    /\ cu.due \subseteq {cu.parked[i].chat : i \in DOMAIN cu.parked}

\* Every open row shows what the page holds, but for a turn seen to open and not yet to work.
DotsTell ==
    /\ \A t \in cu.open :
        LET c == Strip[t].ref
        IN  CASE Strip[t].kind = "chat" ->
                    /\ cu.runDot[t] = FoldRuns(cu, c)
                    /\ cu.chats[c].here /\ c \notin cu.moved =>
                            cu.dot[t] = TabStatusFor(cu.chats[c], HasPendingDecision(cu, c))
              [] Strip[t].kind = "run" -> cu.dot[t] = RunStatusFor(cu.cell[c], RunPendingAsks(cu, c) # {})
              [] OTHER -> TRUE

\* The title and the icon count the unseen rows, and never the one the reader looks at.
CountsUnseen ==
    /\ cu.gone \/ cu.moved # {} \/ cu.surface = Summarize(cu)
    /\ cu.gone => cu.surface = NoAttention
    /\ cu.visible /\ cu.active \in CueCandidates(cu) => ~IsUnseenCue(cu, cu.active) \/ cu.moved # {}

\* A banner about a question is up only while the question is, but where the turn or the
\* run it belonged to ended first.
BannersAreLive ==
    \A x \in DOMAIN cu.shown : cu.shown[x] = "ask" => x \in cu.orphans \/ \E a \in cu.asks : AskTag(a) = x

CuesAreTrue == FinishedIsTold /\ DotsTell /\ CountsUnseen /\ BannersAreLive

\* With nothing under way, a switch that is off leaves no subscription this page made while it was on.
OffIsOff == cu.calls = <<>> /\ ~cu.enabled /\ cu.made => ~wd.sub

\* What a row newly has to say is counted unless it is watched, is counted until it is looked
\* at, and once looked at is not counted again by the same word, but for a question a
\* snapshot drops and brings back.
NotSwallowed ==
    \A t \in cu.open \cap cu'.open :
        LET was == FoldedDotStatus(cu, t)
            is == FoldedDotStatus(cu', t)
        IN  /\ is \in CueStatuses /\ was \notin CueStatuses \cup {""} /\ ~(cu'.visible /\ cu'.active = t)
                => IsUnseenCue(cu', t) \/ cu'.booting
            /\ is = was /\ t \in CueCandidates(cu) /\ IsUnseenCue(cu, t) /\ ~IsUnseenCue(cu', t)
                => cu'.visible /\ (cu'.active = t \/ t \in cu'.inView)
            /\ is = was /\ t \in CueCandidates(cu) /\ ~IsUnseenCue(cu, t) /\ IsUnseenCue(cu', t)
                => cu.owed # <<>> /\ Head(cu.owed) = "pending"

=============================================================================
