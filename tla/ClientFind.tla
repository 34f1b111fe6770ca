----------------------------- MODULE ClientFind -----------------------------
(***************************************************************************)
(* Finding text in the client: the chat's find box (find-in-chat.ts over   *)
(* find-engine.ts and chat-search.ts), find in file (editor-find.ts), the  *)
(* page boxes (search-popup.ts), the shell they share (search-shell.ts),   *)
(* the key that picks one of them (find-dispatch.ts) and the folds a       *)
(* search opens (fold-state.ts).  A conversation is a sequence of entries; *)
(* a mark is the entry it is drawn in; text is the words it matches.       *)
(***************************************************************************)
EXTENDS Integers, Sequences, SequencesExt, FiniteSets

CONSTANTS
    LogEntries,     \* the entries of every chat in order: [chat, turn, lane, kind, words, exact]
    LoadedTurns,    \* how many turns of a chat are loaded at first
    ViewTabs,       \* tab -> [kind, chat]
    Texts,          \* the versions of the file: word -> how often it occurs
    TypedWords,     \* what may be typed
    FindScenarios   \* budgets of what may happen

VARIABLES
    fn,     \* the chat's find: tabs, folds, box, engine, hits, navigations, counter
    ef,     \* find in file
    pg,     \* a page's box
    fnleft  \* what may still happen

fnvars == <<fn, ef, pg, fnleft>>

Naught == "none"
NoText == ""

SpendFind(what) == fnleft[what] > 0 /\ fnleft' = [fnleft EXCEPT ![what] = @ - 1]

Ids == DOMAIN LogEntries
Chats == {LogEntries[e].chat : e \in Ids}
TurnsOf(c) == {LogEntries[e].turn : e \in {d \in Ids : LogEntries[d].chat = c}}

\* Turns are numbered in their order; the newest `res` of the `len` there are are loaded.
Resident(f, c) == {t \in TurnsOf(c) : t <= f.len[c] /\ t > f.len[c] - f.res[c]}

-----------------------------------------------------------------------------
(* Folds: the newest turn is open, then the reader's own choice decides,   *)
(* then what a search opened.                                              *)

IsTurnOpen(f, c, t) ==
    IF t = f.len[c] THEN TRUE
    ELSE IF f.folds[c][t] # Naught THEN f.folds[c][t] = "open" ELSE t \in f.found[c]

SetTurnOpen(f, c, t, open) == [f EXCEPT !.folds[c][t] = IF open THEN "open" ELSE "shut"]

OpenForSearch(f, c, ts) == [f EXCEPT !.found[c] = @ \cup ts]

ClearSearchOpened(f, c) == IF c = Naught THEN f ELSE [f EXCEPT !.found[c] = {}]

\* The turns a search-wide reveal holds built, of one chat at a time.
MountForWalk(f, c, ts) ==
    LET before == IF f.walk.chat = c THEN f.walk.turns ELSE {}
    IN  IF ts = {} THEN f ELSE [f EXCEPT !.walk = [chat |-> c, turns |-> before \cup ts]]

EndWalkReveal(f, c) == IF f.walk.chat = c THEN [f EXCEPT !.walk = [chat |-> Naught, turns |-> {}]] ELSE f

\* A turn's body is in the page for the newest, for the one asked for and for those walked.
Built(f, c, t) ==
    /\ t \in Resident(f, c)
    /\ t = f.len[c] \/ IsTurnOpen(f, c, t) \/ <<c, t>> = f.pin \/ (f.walk.chat = c /\ t \in f.walk.turns)

-----------------------------------------------------------------------------
(* The engine: marks over what is rendered under its root.                 *)

WordMatches(e, q, cs) == q \in (IF cs THEN LogEntries[e].exact ELSE LogEntries[e].words)

\* A delegate's entries are on a page of their own, an empty entry has no text, what is
\* behind a disclosure or out of view is not rendered.
Searchable(f, e) ==
    LET x == LogEntries[e] IN
    /\ ~x.lane /\ x.kind # "entry" /\ x.chat = f.chat
    /\ f.at[x.chat] = x.turn
    /\ x.turn \in Resident(f, x.chat)
    /\ x.kind # "failure" => Built(f, x.chat, x.turn) /\ IsTurnOpen(f, x.chat, x.turn)
    /\ x.kind \in {"output", "diff"} => e \in f.disclosed
    /\ x.kind = "diff" => e \in f.diffs

Marks(f, q, cs) ==
    SelectSeq([i \in 1 .. Len(LogEntries) |-> i], LAMBDA e : Searchable(f, e) /\ WordMatches(e, q, cs))

EngineClear(f) == [f EXCEPT !.eng.marks = <<>>, !.eng.cur = 0, !.eng.q = NoText]

EngineSearch(f, q) ==
    LET marks == IF q = NoText \/ f.eng.root # f.chat THEN <<>> ELSE Marks(f, q, f.cs)
    IN  [f EXCEPT !.eng.q = q, !.eng.marks = marks, !.eng.cur = IF marks = <<>> THEN 0 ELSE 1]

EngineMove(f, dir) ==
    LET n == Len(f.eng.marks)
    IN  IF n = 0 THEN f ELSE [f EXCEPT !.eng.cur = ((@ + dir - 1 + n) % n) + 1]

SetCurrent(f, i) == IF i \in DOMAIN f.eng.marks THEN [f EXCEPT !.eng.cur = i] ELSE f

CurrentMark(f) == IF f.eng.cur = 0 THEN 0 ELSE f.eng.marks[f.eng.cur]

-----------------------------------------------------------------------------
(* The list an answer gave, and the counter.                               *)

HitsOf(f, c, q, cs) ==
    SelectSeq([i \in 1 .. Len(LogEntries) |-> i],
              LAMBDA e : LogEntries[e].chat = c /\ LogEntries[e].turn <= f.len[c] /\ WordMatches(e, q, cs))

\* What is answered in place comes before what opens another view.
BuildStepOrder(hits) ==
    SelectSeq(hits, LAMBDA e : ~LogEntries[e].lane) \o SelectSeq(hits, LAMBDA e : LogEntries[e].lane)

IndexIn(seq, e) == IF e \in ToSet(seq) THEN CHOOSE i \in DOMAIN seq : seq[i] = e ELSE 0

StepsOwnedList(f, q) == f.cursor > 0 /\ f.hits # <<>> /\ f.hitsq = q

NoCount == [kind |-> Naught, q |-> NoText, chat |-> Naught]

SteppedCounter(f, q) == [kind |-> "step", q |-> q, chat |-> f.hitsof]

DomCounter(f, q) == IF q = NoText THEN NoCount ELSE [kind |-> "dom", q |-> f.eng.q, chat |-> f.eng.root]

UpdateCounter(f, q) == [f EXCEPT !.count = IF StepsOwnedList(f, q) THEN SteppedCounter(f, q) ELSE DomCounter(f, q)]

PaintHitPosition(f) == IF StepsOwnedList(f, f.box) THEN [f EXCEPT !.count = SteppedCounter(f, f.box)] ELSE f

\* The boundary sentence is said once per answer.
TakeBoundaryNotice(f) ==
    LET locals == Len(SelectSeq(f.order, LAMBDA e : ~LogEntries[e].lane))
    IN  IF locals > 0 /\ f.cursor = locals + 1 THEN [f EXCEPT !.announced = TRUE] ELSE f

RevealCurrent(f) == IF CurrentMark(f) = 0 THEN f ELSE [f EXCEPT !.at[f.chat] = LogEntries[CurrentMark(f)].turn]

SelectContainer(f, e) == [f EXCEPT !.at[f.chat] = LogEntries[e].turn]

-----------------------------------------------------------------------------
(* Landing on a hit: at once where its text is marked already, through a   *)
(* navigation of several steps where it must be loaded, opened or drawn.   *)

\* The hit's element: in the page, folded away or not.
EntryElement(f, e) == LogEntries[e].chat = f.chat /\ ~LogEntries[e].lane /\ Built(f, f.chat, LogEntries[e].turn)

PickNearestMark(f, e) == IndexIn(f.eng.marks, e)

LandInPlace(f, e) == ~LogEntries[e].lane /\ LogEntries[e].kind # "entry" /\ EntryElement(f, e) /\ PickNearestMark(f, e) # 0

Land(f, e) == RevealCurrent(UpdateCounter(SetCurrent(f, PickNearestMark(f, e)), f.box))

\* The hit's turn is opened and its body asked for around the entry.
RevealHitTurn(f, e) == [OpenForSearch(f, LogEntries[e].chat, {LogEntries[e].turn}) EXCEPT !.pin = <<LogEntries[e].chat, LogEntries[e].turn>>]

Starts(f, e, at) ==
    [(IF at = "reveal" THEN RevealHitTurn(f, e) ELSE f) EXCEPT
        !.busy = TRUE, !.navs = Append(@, [hit |-> e, chat |-> f.chat, at |-> at])]

IsResident(f, e) == LogEntries[e].chat = f.chat /\ LogEntries[e].turn \in Resident(f, f.chat)
HasMore(f) == f.res[f.chat] < f.len[f.chat]

\* A page older than what is loaded is asked for until the hit's turn is there.
EnsureHitResident(f, e, chat) ==
    IF IsResident(f, e) THEN "reveal" ELSE IF HasMore(f) /\ f.chat = chat THEN "page" ELSE "missing"

NavigateToHit(f, e) ==
    IF LogEntries[e].lane
    THEN [Starts(PaintHitPosition(TakeBoundaryNotice(f)), e, "import") EXCEPT !.jump = TRUE, !.resume = e]
    ELSE LET at == EnsureHitResident(f, e, f.chat)
         IN  IF at = "missing" THEN PaintHitPosition(f) ELSE Starts(f, e, at)

LandOnHit(f, e) == IF LandInPlace(f, e) THEN Land(f, e) ELSE NavigateToHit(f, e)

StepServerHit(f, dir) ==
    LET n == Len(f.order)
        cursor == IF f.cursor = 0 THEN (IF dir = 1 THEN 1 ELSE n) ELSE ((f.cursor + dir - 1 + n) % n) + 1
    IN  IF f.busy \/ n = 0 THEN f ELSE LandOnHit([f EXCEPT !.cursor = cursor], f.order[cursor])

-----------------------------------------------------------------------------
(* A search: the page is marked at once, the chat's log is asked.          *)

\* What the search opened in the page is given back.
ResetServerSearch(f) ==
    ClearSearchOpened(EndWalkReveal([f EXCEPT !.searched = Naught, !.counts = {}], f.searched), f.searched)

\* A failed answer keeps the list before it.
Adopt(f, q, res) ==
    LET g == [f EXCEPT !.hits = res[1].hits, !.hitsof = res[1].chat, !.hitsq = q, !.order = BuildStepOrder(res[1].hits),
                       !.announced = FALSE, !.landing = FALSE, !.resume = 0]
    IN  [g EXCEPT !.cursor = IF f.resume = 0 THEN 0 ELSE IndexIn(g.order, f.resume)]

Render(f, q, res) ==
    LET g == IF res = <<>> THEN f ELSE Adopt(f, q, res)
        h == UpdateCounter(EngineSearch(g, q), q)
    IN  IF res = <<>> \/ g.hits = <<>> THEN UpdateCounter(g, q)
        ELSE IF f.landing /\ g.cursor > 0 THEN LandOnHit(h, g.order[g.cursor])
        ELSE RevealCurrent(h)

\* Every run asks anew; what the run before asked is answered all the same.
Run(f) ==
    LET q == f.box
        g == UpdateCounter(EngineSearch([f EXCEPT !.timer = FALSE, !.seq = @ + 1, !.live = f.seq + 1], q), q)
        h == IF g.landing THEN g ELSE RevealCurrent(g)
    IN  IF q = NoText THEN Render([ResetServerSearch(h) EXCEPT !.live = 0], q, <<[chat |-> f.chat, hits |-> <<>>]>>)
        ELSE [h EXCEPT !.outs = Append(@, [n |-> f.seq + 1, chat |-> f.chat, q |-> q, cs |-> f.cs, at |-> "asked", res |-> <<>>])]

Teardown(f) ==
    LET g == EngineClear([f EXCEPT !.live = 0, !.timer = FALSE, !.rerun = FALSE])
        h == [g EXCEPT !.hits = <<>>, !.hitsof = Naught, !.hitsq = NoText, !.order = <<>>, !.cursor = 0,
                       !.announced = FALSE, !.landing = FALSE]
    IN  UpdateCounter(ResetServerSearch(h), NoText)

CloseChatFind(f) == IF f.open THEN Teardown([f EXCEPT !.open = FALSE]) ELSE f

\* The box opens over the chat on screen and runs what it holds.
OnOpen(f) == Run([(IF f.eng.root = f.chat THEN f ELSE EngineClear(f)) EXCEPT !.open = TRUE, !.eng.root = f.chat])

\* What the box holds is run once more for the focus it is given.
OpenFindInChat(f) == Run(IF f.open THEN f ELSE OnOpen(f))

ToggleChatFind(f) == IF f.open THEN CloseChatFind(f) ELSE OpenFindInChat(f)

OpenChatFindAt(f, q, e) == OpenFindInChat([f EXCEPT !.box = q, !.resume = e, !.landing = TRUE])

\* A switch closes the box and forgets what it held, unless a hit of it caused the switch.
TabChangedChat(f) == [CloseChatFind(f) EXCEPT !.jump = FALSE, !.box = IF f.jump THEN @ ELSE NoText]

Mutated(f) == IF f.open THEN [f EXCEPT !.rerun = TRUE] ELSE f

\* A step of a box whose text has not been run runs it.
StepChat(f, dir) ==
    IF f.eng.q # f.box THEN Run(f)
    ELSE IF f.hits # <<>> /\ f.hitsq = f.box THEN StepServerHit(f, dir)
    ELSE RevealCurrent(UpdateCounter(EngineMove(f, dir), f.box))

-----------------------------------------------------------------------------
(* Find in file: one list over the text or over what is drawn of it.       *)

SurfaceEngine(p) ==
    IF p.mode = "image" THEN Naught ELSE IF p.mode \in {"diff", "preview"} THEN "dom" ELSE "buffer"

NoResult == [kind |-> Naught, q |-> NoText, overlay |-> 0, n |-> 0]

Total(p) == p.res.overlay + p.res.n

ClearMarks(p) == [p EXCEPT !.drawn = Naught]

RunQuery(p, q) ==
    LET n == IF q = NoText THEN 0 ELSE Texts[p.text][q]
    IN  IF SurfaceEngine(p) = "dom" THEN [kind |-> "dom", q |-> q, overlay |-> 0, n |-> n]
        ELSE IF ~p.loaded THEN [kind |-> Naught, q |-> q, overlay |-> 0, n |-> 0]
        ELSE [kind |-> "buffer", q |-> q, overlay |-> IF p.conflict /\ q # NoText THEN 1 ELSE 0, n |-> n]

\* The text of a hit is marked in the buffer, a mark of the page or of the overlay is lit.
Reveal(p) ==
    IF p.cur = 0 THEN p
    ELSE [p EXCEPT !.drawn = IF p.res.kind = "buffer" /\ p.cur > p.res.overlay THEN "span" ELSE "mark"]

RunEditor(p) ==
    LET g == [ClearMarks(p) EXCEPT !.timer = FALSE, !.searched = p.box, !.res = RunQuery(p, p.box)]
    IN  Reveal([g EXCEPT !.cur = IF Total(g) > 0 THEN 1 ELSE 0])

StepEditor(p, dir) ==
    IF p.searched # p.box THEN RunEditor(p)
    ELSE IF Total(p) = 0 THEN p
    ELSE Reveal([p EXCEPT !.cur = ((@ + dir - 1 + Total(p)) % Total(p)) + 1])

OpenEditorFind(p) == IF SurfaceEngine(p) = Naught THEN p ELSE RunEditor([p EXCEPT !.open = TRUE])

CloseEditorFind(p) ==
    IF p.open THEN [ClearMarks(p) EXCEPT !.open = FALSE, !.timer = FALSE, !.res = NoResult, !.cur = 0, !.searched = NoText]
    ELSE p

ToggleEditorFind(p) == IF p.open THEN CloseEditorFind(p) ELSE OpenEditorFind(p)

TabChangedEditor(p) == [CloseEditorFind(p) EXCEPT !.box = NoText]

FileLoaded(p) == IF p.open THEN RunEditor([p EXCEPT !.loaded = TRUE]) ELSE [p EXCEPT !.loaded = TRUE]

-----------------------------------------------------------------------------
(* A page's box: the page is asked for what it holds and drawn as answered. *)

RunPage(p) == [p EXCEPT !.timer = FALSE, !.live = @ + 1, !.outs = @ \cup {[n |-> p.live + 1, q |-> p.box]}]

\* Guarded on the box as it stands, whatever the page was last asked.
ClosePage(p) ==
    LET g == [p EXCEPT !.open = FALSE, !.timer = FALSE, !.live = @ + 1, !.box = NoText]
    IN  IF ~p.open THEN p ELSE IF p.box # NoText THEN RunPage(g) ELSE g

ResetPage(p) == ClosePage([p EXCEPT !.box = NoText])

OpenPage(p) == [p EXCEPT !.open = TRUE]

TogglePage(p) == IF p.open THEN ClosePage(p) ELSE OpenPage(p)

-----------------------------------------------------------------------------
FindInit ==
    /\ fnleft \in FindScenarios
    /\ \E first \in Chats :
         /\ ViewTabs[fnleft.start].chat \in {first, Naught}
         /\ fn = [tab |-> fnleft.start, chat |-> first,
                  len |-> [c \in Chats |-> fnleft.turns], res |-> [c \in Chats |-> LoadedTurns],
                  folds |-> [c \in Chats |-> [u \in TurnsOf(c) |-> Naught]], found |-> [c \in Chats |-> {}],
                  walk |-> [chat |-> Naught, turns |-> {}], pin |-> <<Naught, 0>>, searched |-> Naught, counts |-> {},
                  disclosed |-> {}, diffs |-> {}, nodiff |-> {}, at |-> [c \in Chats |-> fnleft.turns],
                  open |-> FALSE, box |-> NoText, cs |-> FALSE, timer |-> FALSE, live |-> 0, seq |-> 0, outs |-> <<>>,
                  eng |-> [root |-> Naught, q |-> NoText, marks |-> <<>>, cur |-> 0], rerun |-> FALSE,
                  hits |-> <<>>, hitsof |-> Naught, hitsq |-> NoText, order |-> <<>>, cursor |-> 0, announced |-> FALSE,
                  busy |-> FALSE, navs |-> <<>>, jump |-> FALSE, resume |-> 0, landing |-> FALSE, handoff |-> <<>>,
                  count |-> NoCount]
    /\ ef = [open |-> FALSE, box |-> NoText, timer |-> FALSE, searched |-> NoText, res |-> NoResult, cur |-> 0,
             drawn |-> Naught, mode |-> "edit", loaded |-> FALSE, conflict |-> FALSE, text |-> 1]
    /\ pg = [open |-> FALSE, box |-> NoText, timer |-> FALSE, live |-> 0, outs |-> {}, shown |-> NoText]

Kind == ViewTabs[fn.tab].kind

\* Which surface the find key and the find button belong to.
Destination ==
    CASE Kind = "chat" -> "transcript"
      [] Kind = "editor" -> "editor"
      [] Kind \in {"docs", "history", "git"} -> "page"
      [] OTHER -> Naught

\* The key is taken where the box can open; elsewhere the browser has it.
ChatHotkey == Destination = "transcript"
EditorHotkey == Destination = "editor" /\ SurfaceEngine(ef) # Naught
PageHotkey == Destination = "page"

Switch(f, t) == [f EXCEPT !.tab = t, !.chat = IF ViewTabs[t].chat = Naught THEN @ ELSE ViewTabs[t].chat]

ShowTab(t) ==
    /\ t # fn.tab /\ SpendFind("shows")
    /\ fn' = TabChangedChat(Switch(fn, t))
    /\ ef' = TabChangedEditor(ef)
    /\ UNCHANGED pg

\* Opening one of the boxes of the group closes another.
FindKey ==
    /\ SpendFind("opens")
    /\ \/ ChatHotkey /\ fn' = OpenFindInChat(fn) /\ pg' = ClosePage(pg) /\ UNCHANGED ef
       \/ EditorHotkey /\ ef' = OpenEditorFind(ef) /\ UNCHANGED <<fn, pg>>
       \/ PageHotkey /\ pg' = OpenPage(pg) /\ fn' = CloseChatFind(fn) /\ UNCHANGED ef

\* The button closes what is open.
ToggleFind ==
    /\ SpendFind("opens")
    /\ \/ Destination = "transcript" /\ fn' = ToggleChatFind(fn) /\ pg' = ClosePage(pg) /\ UNCHANGED ef
       \/ Destination = "editor" /\ ef' = ToggleEditorFind(ef) /\ UNCHANGED <<fn, pg>>
       \/ Destination = "page" /\ pg' = TogglePage(pg) /\ fn' = CloseChatFind(fn) /\ UNCHANGED ef

TypesWords(q) ==
    /\ SpendFind("types")
    /\ \/ Destination = "transcript" /\ fn.open /\ q # fn.box
          /\ fn' = [fn EXCEPT !.box = q, !.timer = TRUE] /\ UNCHANGED <<ef, pg>>
       \/ Destination = "editor" /\ ef.open /\ q # ef.box
          /\ ef' = [ef EXCEPT !.box = q, !.timer = TRUE] /\ UNCHANGED <<fn, pg>>
       \/ Destination = "page" /\ pg.open /\ q # pg.box
          /\ pg' = [pg EXCEPT !.box = q, !.timer = TRUE] /\ UNCHANGED <<fn, ef>>

Debounced ==
    /\ UNCHANGED fnleft
    /\ \/ fn.timer /\ fn' = Run(fn) /\ UNCHANGED <<ef, pg>>
       \/ ef.timer /\ ef' = RunEditor(ef) /\ UNCHANGED <<fn, pg>>
       \/ pg.timer /\ pg' = RunPage(pg) /\ UNCHANGED <<fn, ef>>

\* Enter, the arrows and their buttons; in a page's box Enter asks again.
Submits(dir) ==
    /\ SpendFind("steps")
    /\ \/ fn.open /\ fn' = StepChat(fn, dir) /\ UNCHANGED <<ef, pg>>
       \/ ef.open /\ ef' = StepEditor(ef, dir) /\ UNCHANGED <<fn, pg>>
       \/ pg.open /\ dir = 1 /\ pg' = RunPage(pg) /\ UNCHANGED <<fn, ef>>

MatchCase == fn.open /\ SpendFind("cases") /\ fn' = Run([fn EXCEPT !.cs = ~@]) /\ UNCHANGED <<ef, pg>>

-----------------------------------------------------------------------------
(* The answers of the chat's search.                                       *)

\* The turns with hits are opened and built, for whatever question this answers.
SearchFound(i) ==
    LET o == fn.outs[i]
        hits == HitsOf(fn, o.chat, o.q, o.cs)
        turns == {LogEntries[e].turn : e \in ToSet(hits)}
        f == OpenForSearch([fn EXCEPT !.counts = turns, !.searched = o.chat], o.chat, turns)
    IN  /\ o.at = "asked"
        /\ fn' = [MountForWalk(f, o.chat, turns) EXCEPT !.outs[i].at = "walking", !.outs[i].res = <<[chat |-> o.chat, hits |-> hits]>>]
        /\ UNCHANGED <<ef, pg, fnleft>>

\* A mutant of Awaited: any answer is drawn while the box is open.
AwaitedAny(p, o) == p.open

\* The shell draws the answer of its last run, if the box still holds its question.
Awaited(p, o) == o.n = p.live /\ p.box = o.q

Returned(f, i) ==
    LET o == f.outs[i]
        g == [f EXCEPT !.outs = RemoveAt(@, i)]
        h == IF o.res # <<>> /\ o.chat = f.chat THEN Mutated(g) ELSE g
    IN  IF Awaited(f, o) THEN Render([h EXCEPT !.live = 0], o.q, o.res) ELSE h

SearchReturns(i) ==
    /\ \/ fn.outs[i].at = "walking" /\ UNCHANGED fnleft
       \/ fn.outs[i].at = "asked" /\ SpendFind("fails")
    /\ fn' = Returned(fn, i)
    /\ UNCHANGED <<ef, pg>>

\* The transcript changed under the marks: they are drawn anew, at the same place in their list.
RerunFires ==
    /\ fn.rerun
    /\ fn' = UpdateCounter(SetCurrent(EngineSearch([fn EXCEPT !.rerun = FALSE], fn.box), fn.eng.cur), fn.box)
    /\ UNCHANGED <<ef, pg, fnleft>>

-----------------------------------------------------------------------------
(* A navigation's steps; the box may close and the chat change between them. *)

Ends(f, i) == [f EXCEPT !.navs = RemoveAt(@, i), !.busy = FALSE]
Goes(f, i, at) == [f EXCEPT !.navs[i].at = at]

Notice(f) == IF f.open THEN PaintHitPosition(f) ELSE f

\* The delegate's page is asked for; its tab comes in its own time.
NavOpens(i) ==
    LET n == fn.navs[i] IN
    /\ n.at = "import"
    /\ \/ fn' = [Goes(fn, i, "opening") EXCEPT !.busy = FALSE] /\ UNCHANGED fnleft
       \/ SpendFind("fails") /\ fn' = Ends(Notice(fn), i)
    /\ UNCHANGED <<ef, pg>>

DelegateOpens(i) ==
    LET n == fn.navs[i]
        f == [fn EXCEPT !.navs = RemoveAt(@, i)]
    IN  /\ n.at = "opening"
        /\ \E t \in {u \in DOMAIN ViewTabs : ViewTabs[u].kind = "subagent" /\ ViewTabs[u].chat = n.chat} :
             /\ fn' = IF t = fn.tab THEN f ELSE TabChangedChat(Switch(f, t))
             /\ ef' = IF t = fn.tab THEN ef ELSE TabChangedEditor(ef)
        /\ UNCHANGED <<pg, fnleft>>

NavPages(i) ==
    LET n == fn.navs[i]
        f == Mutated([fn EXCEPT !.res[n.chat] = IF @ < fn.len[n.chat] THEN @ + 1 ELSE @])
        at == EnsureHitResident(f, n.hit, n.chat)
    IN  /\ n.at = "page"
        /\ \/ UNCHANGED fnleft
              /\ fn' = CASE at = "missing" -> Ends(Notice(f), i)
                         [] at = "reveal" -> RevealHitTurn(Goes(f, i, at), n.hit)
                         [] OTHER -> f
           \/ SpendFind("fails") /\ fn' = Ends(Notice(fn), i)
        /\ UNCHANGED <<ef, pg>>

\* The last steps: the box must be open and its list the one it asked for.
LandOrNotice(f, i) ==
    LET e == f.navs[i].hit
        g == EngineSearch(f, f.box)
    IN  IF ~StepsOwnedList(f, f.box) THEN Ends(f, i)
        ELSE IF PickNearestMark(g, e) # 0 THEN Ends(Land(g, e), i)
        ELSE Goes(SelectContainer(g, e), i, "render")

AwaitsDiff(f, e) == LogEntries[e].kind = "diff" /\ e \notin f.diffs \cup f.nodiff

\* What the hit is folded behind is opened; a diff's card only when the diff is waited for.
Disclose(f, e) ==
    IF LogEntries[e].kind = "output" \/ AwaitsDiff(f, e) THEN [f EXCEPT !.disclosed = @ \cup {e}] ELSE f

NavArrives(i) ==
    LET n == fn.navs[i]
        x == LogEntries[n.hit]
        f == IF n.chat = fn.chat THEN Mutated(fn) ELSE fn
        g == Disclose(f, n.hit)
    IN  /\ n.at = "reveal"
        /\ fn' = IF ~f.open THEN Ends(f, i)
                 ELSE IF x.kind = "failure" /\ IsResident(f, n.hit) THEN LandOrNotice(f, i)
                 ELSE IF ~EntryElement(f, n.hit) THEN Ends(PaintHitPosition(f), i)
                 ELSE IF x.kind = "entry" THEN Ends(UpdateCounter(SelectContainer(f, n.hit), f.box), i)
                 ELSE IF AwaitsDiff(f, n.hit) THEN Goes(g, i, "diff")
                 ELSE LandOrNotice(g, i)
        /\ UNCHANGED <<ef, pg, fnleft>>

\* The diff is drawn, or waited for no longer and not waited for again.
NavDiff(i) ==
    LET n == fn.navs[i] IN
    /\ n.at = "diff"
    /\ \E f \in {Mutated([fn EXCEPT !.diffs = @ \cup {n.hit}]), [fn EXCEPT !.nodiff = @ \cup {n.hit}]} :
         fn' = IF f.open /\ EntryElement(f, n.hit) THEN LandOrNotice(f, i) ELSE Ends(f, i)
    /\ UNCHANGED <<ef, pg, fnleft>>

\* The place is drawn, or the wait for a frame is over.
NavRenders(i) ==
    LET e == fn.navs[i].hit
        g == EngineSearch(fn, fn.box)
    IN  /\ fn.navs[i].at = "render"
        /\ fn' = IF ~fn.open \/ LogEntries[e].chat # fn.chat \/ ~StepsOwnedList(fn, fn.box) THEN Ends(fn, i)
                 ELSE IF PickNearestMark(g, e) # 0 THEN Ends(Land(g, e), i)
                 ELSE Ends(PaintHitPosition(SelectContainer(g, e)), i)
        /\ UNCHANGED <<ef, pg, fnleft>>

-----------------------------------------------------------------------------
(* The transcript, the history page, the file and the page beside the boxes. *)

\* A new turn begins: the one before it may fold.
Grows(c) ==
    /\ fn.len[c] + 1 \in TurnsOf(c) /\ SpendFind("grows")
    /\ LET f == [fn EXCEPT !.len[c] = @ + 1, !.res[c] = @ + 1]
       IN  fn' = IF c = fn.chat THEN Mutated(f) ELSE f
    /\ UNCHANGED <<ef, pg>>

\* The reader's choice stands against what a search opened.
Folds(t) ==
    LET c == fn.chat
        open == IsTurnOpen(fn, c, t)
        f == SetTurnOpen(fn, c, t, ~open)
    IN  /\ Kind = "chat" /\ t \in Resident(fn, c) \ {fn.len[c]} /\ SpendFind("folds")
        /\ fn' = Mutated(IF ~open /\ ~Built(fn, c, t) THEN [f EXCEPT !.pin = <<c, t>>] ELSE f)
        /\ UNCHANGED <<ef, pg>>

ScrollsTo(t) ==
    /\ Kind = "chat" /\ t \in Resident(fn, fn.chat) \ {fn.at[fn.chat]} /\ SpendFind("scrolls")
    /\ fn' = [fn EXCEPT !.at[fn.chat] = t]
    /\ UNCHANGED <<ef, pg>>

\* A row of the history page opens its chat, then the chat's box at the hit it named.
OpenMatch(e, q) ==
    /\ Kind = "history" /\ WordMatches(e, q, FALSE) /\ SpendFind("matches")
    /\ \E t \in {u \in DOMAIN ViewTabs : ViewTabs[u].kind = "chat" /\ ViewTabs[u].chat = LogEntries[e].chat} :
         fn' = [TabChangedChat(Switch(fn, t)) EXCEPT !.handoff = <<[hit |-> e, q |-> q]>>]
    /\ ef' = TabChangedEditor(ef)
    /\ UNCHANGED pg

HandedOff ==
    /\ fn.handoff # <<>>
    /\ fn' = OpenChatFindAt([fn EXCEPT !.handoff = <<>>], fn.handoff[1].q, fn.handoff[1].hit)
    /\ pg' = ClosePage(pg)
    /\ UNCHANGED <<ef, fnleft>>

FileChanges ==
    /\ Kind = "editor" /\ SpendFind("edits")
    /\ \/ \E m \in {"edit", "preview", "diff", "image"} \ {ef.mode} : ef' = [ef EXCEPT !.mode = m]
       \/ ef.loaded /\ ef.text + 1 \in DOMAIN Texts /\ ef' = [ef EXCEPT !.text = @ + 1]
       \/ ~ef.conflict /\ ef' = [ef EXCEPT !.conflict = TRUE]
       \/ ef' = FileLoaded(ef)
    /\ UNCHANGED <<fn, pg>>

PageDraws(o) ==
    /\ pg' = [pg EXCEPT !.outs = @ \ {o}, !.shown = IF Awaited(pg, o) THEN o.q ELSE @]
    /\ UNCHANGED <<fn, ef, fnleft>>

\* The page's view goes: its box is emptied and its next mount draws everything.
PageUnmounts ==
    /\ pg.open /\ SpendFind("mounts")
    /\ pg' = [ResetPage(pg) EXCEPT !.shown = NoText]
    /\ UNCHANGED <<fn, ef>>

FindNext ==
    \/ FindKey \/ ToggleFind \/ Debounced \/ MatchCase \/ RerunFires \/ HandedOff \/ FileChanges \/ PageUnmounts
    \/ \E t \in DOMAIN ViewTabs : ShowTab(t)
    \/ \E q \in TypedWords \cup {NoText} : TypesWords(q)
    \/ \E dir \in {1, -1} : Submits(dir)
    \/ \E i \in DOMAIN fn.outs : SearchFound(i) \/ SearchReturns(i)
    \/ \E i \in DOMAIN fn.navs :
         NavOpens(i) \/ DelegateOpens(i) \/ NavPages(i) \/ NavArrives(i) \/ NavDiff(i) \/ NavRenders(i)
    \/ \E c \in Chats : Grows(c)
    \/ \E t \in TurnsOf(fn.chat) : Folds(t) \/ ScrollsTo(t)
    \/ \E e \in Ids, q \in TypedWords : OpenMatch(e, q)
    \/ \E o \in pg.outs : PageDraws(o)

FindSpec == FindInit /\ [][FindNext]_fnvars

-----------------------------------------------------------------------------
Settled == ~fn.timer /\ ~fn.rerun /\ \A i \in DOMAIN fn.outs : fn.outs[i].n # fn.live

\* Once nothing is on its way, what a box marks, counts and shows is what was found for the
\* text in it, in the chat or file on screen; a closed box leaves no mark and no count.
FoundIsAsked ==
    /\ ~fn.open => fn.eng.marks = <<>> /\ fn.count = NoCount
    /\ fn.open /\ Settled =>
         /\ fn.eng.q = fn.box /\ fn.eng.root = fn.chat
         /\ fn.box # NoText => fn.count.q = fn.box /\ fn.count.chat = fn.chat
    /\ IF ef.open THEN ~ef.timer => ef.searched = ef.box ELSE ef.drawn = Naught
    /\ pg.open /\ pg.box # NoText /\ ~pg.timer /\ pg.outs = {} => pg.shown = pg.box

=============================================================================
