---------------------------- MODULE ClientEditor ----------------------------
(***************************************************************************)
(* The file editor (static-src/editor-core.ts, editor-openers.ts,          *)
(* editor-conflict.ts, editor-modes.ts, editor-ui.ts, editor-diff.ts,      *)
(* actions/editor.ts): a buffer per open file behind one text area and one *)
(* pane that all of them share, loads that a switch of file aborts, a      *)
(* refresh of a file that moved on disk, saves that are refused over one,  *)
(* diffs against git, conflicts resolved by hand or by a suggestion.       *)
(* Left out: where a file is scrolled to, the marks in the gutter, images, *)
(* and what the answer to a request of a closed buffer still paints.       *)
(***************************************************************************)
EXTENDS Integers, FiniteSets

CONSTANTS
    Files,           \* files that may be opened
    Untracked,       \* those git has nothing of at HEAD
    EditorScenarios  \* budgets of what may happen, and the files that begin with a conflict

VARIABLES
    ed,      \* the editor
    eddisk,  \* the files on the server
    edleft   \* what may still happen

edvars == <<ed, eddisk, edleft>>

None == ""
Spend(what) == edleft[what] > 0 /\ edleft' = [edleft EXCEPT ![what] = @ - 1]

\* A text: whose it is, the version other writers left, the reader's last edit in it, how many
\* conflicts are marked in it.  Its digest is the text itself.
Text(f, ext, hunks) == [of |-> f, ext |-> ext, mine |-> 0, hunks |-> hunks]
Blank == Text(None, 0, 0)
Gone == Text(None, -1, 0)
NoHash == Text(None, -2, 0)

\* dirty: derived from the two texts of a buffer.
Dirty(s) == s.cur # s.orig

NoBuffer ==
    [there |-> FALSE, loaded |-> FALSE, orig |-> Blank, cur |-> Blank, hash |-> NoHash, err |-> None,
     mode |-> "read", ref |-> None, back |-> None, parsed |-> Blank, sugg |-> [i \in 1..2 |-> "none"]]
FreshState == [NoBuffer EXCEPT !.there = TRUE]

\* ensureFileState.
Ensure(e, f) == IF e.st[f].there THEN e ELSE [e EXCEPT !.st[f] = FreshState, !.born[f] = @ + 1]

Active(e) == e.active # None
Buffer(e) == e.st[e.active]
Ask(what, f) ==
    [what |-> what, f |-> f, born |-> ed.born[f], st |-> "sent", ref |-> None, at |-> 0, gen |-> 0,
     text |-> Blank, hash |-> NoHash, ans |-> Blank, how |-> "ok"]

-----------------------------------------------------------------------------
(* Painting.  One surface is up, with the buttons that go with it.         *)

Shown(e, surface, edit, keep, diff) ==
    [e EXCEPT !.surface = surface, !.edit = edit, !.keep = keep, !.diff = diff]

\* renderEditModeUI: the text area while the buffer is being edited, else its text to read.
RenderEditModeUI(e, f) ==
    LET s == e.st[f] IN
    IF s.mode = "edit" THEN [Shown(e, "edit", FALSE, TRUE, Dirty(s)) EXCEPT !.area = s.cur]
    ELSE Shown(e, "read", TRUE, FALSE, Dirty(s))

\* renderDiffModeUI: a diff that can be shown before the buffer is read offers no edit.
RenderDiffModeUI(e, f) == Shown(e, "diff", e.st[f].loaded, FALSE, e.st[f].mode # "git")

\* renderConflictOverlay: a row that says the same as before is kept, with the buffer its
\* buttons were made for.
RenderConflictOverlay(e, f) ==
    LET s == e.st[f] IN
    IF s.mode # "conflict" \/ s.parsed.hunks = 0 THEN [e EXCEPT !.rows = <<>>, !.over = FALSE]
    ELSE [e EXCEPT !.over = TRUE, !.rows = [i \in 1..s.parsed.hunks |->
             IF i \in DOMAIN e.rows /\ e.rows[i].says = s.sugg[i] THEN e.rows[i]
             ELSE [of |-> f, says |-> s.sugg[i]]]]

RenderConflictModeUI(e, f) ==
    RenderConflictOverlay([Shown(e, "edit", FALSE, TRUE, FALSE) EXCEPT !.area = e.st[f].cur], f)

\* restoreUI.
RestoreUI(e, f) ==
    LET s == e.st[f]
        g == [e EXCEPT !.says = None]
    IN  IF s.err # None THEN [Shown(e, "read", FALSE, FALSE, FALSE) EXCEPT !.says = s.err]
        ELSE IF s.mode \in {"git", "diff"} THEN RenderDiffModeUI(g, f)
        ELSE IF s.mode = "conflict" THEN RenderConflictModeUI(g, f)
        ELSE RenderEditModeUI(g, f)

-----------------------------------------------------------------------------
(* Opening and showing files.                                              *)

\* saveCurrentState: what is in the text area goes to the buffer that is active.
SaveCurrentState(e) ==
    IF Active(e) /\ Buffer(e).loaded /\ Buffer(e).mode \in {"edit", "conflict"}
    THEN [e EXCEPT !.st[e.active].cur = e.area] ELSE e

\* abortSuggestion: of the active file.
AbortSuggestion(e, f) ==
    IF f = None THEN e
    ELSE [e EXCEPT !.st[f].sugg = [i \in 1..2 |-> IF @[i] = "loading" THEN "error" ELSE @[i]],
                   !.gens[f] = @ + 1]

\* activateFile: the load before it is aborted, and a refresh with it.
ActivateFile(e, f) ==
    LET a == AbortSuggestion(SaveCurrentState(e), e.active)
        g == [Ensure([a EXCEPT !.reqs = {r \in @ : r.what \notin {"load", "refresh"}}], f)
                 EXCEPT !.active = f, !.says = None]
        s == g.st[f]
        load == [Ask("load", f) EXCEPT !.born = g.born[f]]
    IN  IF s.loaded THEN RestoreUI(g, f)
        ELSE IF s.mode = "git" THEN [g EXCEPT !.surface = "read"]
        ELSE IF s.mode = "diff" THEN [RestoreUI(g, f) EXCEPT !.reqs = @ \cup {load}]
        ELSE [g EXCEPT !.surface = "read", !.edit = FALSE, !.reqs = @ \cup {load}]

\* fetchGitDiffSources, as far as its request.
FetchGitDiff(e, f, ref) ==
    [e EXCEPT !.reqs = @ \cup {[Ask("git", f) EXCEPT !.born = e.born[f], !.ref = ref]}]

\* open: the mode is the opener's, whatever the buffer was in.
Opened(e, f, mode, ref) ==
    LET g == [Ensure(SaveCurrentState(e), f) EXCEPT !.st[f].mode = mode, !.st[f].ref = ref]
        h == ActivateFile(g, f)
    IN  IF mode = "git" THEN FetchGitDiff(h, f, ref) ELSE h

OpenFile(f) ==
    /\ Spend("opens") /\ UNCHANGED eddisk
    /\ \/ ed' = Opened(ed, f, "read", None)
       \/ ed' = Opened(ed, f, "diff", None)
       \/ ed' = Opened(ed, f, "git", "HEAD")

\* A tab opened behind the one on screen changes the mode of a buffer that is open already.
OpenFileInBackground(f) ==
    /\ Spend("opens") /\ ed' = [Ensure(ed, f) EXCEPT !.st[f].mode = "read"] /\ UNCHANGED eddisk

\* A tab of the strip is shown.
ShowFile(f) == ed.st[f].there /\ Spend("shows") /\ ed' = ActivateFile(ed, f) /\ UNCHANGED eddisk

\* closeEditorFile: the tab store's close.
CloseEditorFile(f) ==
    /\ ed.st[f].there /\ Spend("closes") /\ UNCHANGED eddisk
    /\ ed' = [ed EXCEPT !.st[f] = NoBuffer, !.gens[f] = 0, !.ask = IF @ = f THEN None ELSE @,
                        !.active = IF @ = f THEN None ELSE @, !.reqs = {r \in @ : r.f # f}]

\* refreshFile: the view of the active tab is stale.  A diff against git is read again at the
\* ref its label names.
RefreshFile ==
    /\ Active(ed) /\ Buffer(ed).loaded /\ Spend("refreshes") /\ UNCHANGED eddisk
    /\ ed' = IF Buffer(ed).mode = "git" THEN FetchGitDiff(ed, ed.active, Buffer(ed).ref)
             ELSE [ed EXCEPT !.reqs = {r \in @ : r.what # "refresh"} \cup {Ask("refresh", ed.active)}]

-----------------------------------------------------------------------------
(* Answers.                                                                *)

\* adoptDiskBytes: the bytes on disk decide whether the buffer is in conflict.
AdoptDiskBytes(e, f, text) ==
    [e EXCEPT !.st[f].orig = text, !.st[f].cur = text, !.st[f].hash = text, !.st[f].err = None,
              !.st[f].parsed = text,
              !.st[f].mode = IF text.hunks > 0 /\ @ \in {"read", "edit"} THEN "conflict"
                             ELSE IF text.hunks = 0 /\ @ = "conflict" THEN "read" ELSE @]

\* failBufferLoad: a diff that paints itself stays, its buffer not loaded.
FailBufferLoad(e, f) ==
    IF e.st[f].mode = "diff" THEN e
    ELSE RestoreUI([e EXCEPT !.st[f].err = "failed", !.st[f].loaded = TRUE], f)

LoadFile(e, r) ==
    IF r.ans = Gone \/ r.how = "failed" THEN FailBufferLoad(e, r.f)
    ELSE RestoreUI([AdoptDiskBytes(e, r.f, r.ans) EXCEPT !.st[r.f].loaded = TRUE], r.f)

\* A mutant of Follows: whatever the reader typed.
FollowsAlways(s) == TRUE

\* A clean buffer follows its file.
Follows(s) == ~Dirty(s)

\* applyRefreshedRead: a failure says nothing, a file that is gone takes the pane, a clean
\* buffer follows the disk, a dirty one keeps its text and shows what moved.
ApplyRefreshedRead(e, r) ==
    LET s == e.st[r.f] IN
    IF r.how = "failed" THEN e
    ELSE IF r.ans = Gone THEN RestoreUI([e EXCEPT !.st[r.f].err = "gone"], r.f)
    ELSE IF r.ans = s.hash THEN e
    ELSE IF Follows(s) THEN RestoreUI(AdoptDiskBytes(e, r.f, r.ans), r.f)
    ELSE LET g == [e EXCEPT !.st[r.f].orig = r.ans, !.st[r.f].hash = r.ans,
                            !.st[r.f].mode = IF @ \in {"read", "edit"} THEN "diff" ELSE @]
         IN  [RenderEditModeUI(g, r.f) EXCEPT !.says = "changed"]

\* baseLabelFor: the label of what git does not have is not its ref any more.
LabelFor(f, ref) == IF f \in Untracked THEN "not in HEAD" ELSE ref

\* fetchGitDiffSources, from its answer: a buffer never loaded takes the working copy.
GitDiffSources(e, r) ==
    LET s == e.st[r.f]
        failed == [e EXCEPT !.st[r.f].loaded = TRUE, !.st[r.f].err = "failed"]
        text == IF r.ans = Gone THEN Blank ELSE r.ans
        g == [e EXCEPT !.st[r.f].ref = LabelFor(r.f, r.ref),
                       !.st[r.f].orig = IF s.loaded THEN @ ELSE text,
                       !.st[r.f].cur = IF s.loaded THEN @ ELSE text,
                       !.st[r.f].loaded = TRUE, !.st[r.f].err = None]
    IN  IF r.how = "failed" \/ r.ref = "not in HEAD"
        THEN IF e.active = r.f THEN RestoreUI(failed, r.f) ELSE failed
        ELSE IF s.mode \notin {"git", "diff"} THEN e
        ELSE IF e.active = r.f THEN RestoreUI(g, r.f) ELSE g

\* saveFile's end.  A refusal brings the bytes on disk; only the file on screen takes them.
SaveAnswered(e, r) ==
    LET s == e.st[r.f]
        here == e.active = r.f
        told == [e EXCEPT !.says = "failed"]
        stale == [told EXCEPT !.st[r.f].orig = r.ans, !.st[r.f].hash = r.ans, !.st[r.f].mode = "diff"]
        done == [e EXCEPT !.st[r.f].orig = r.text, !.says = None]
        over == IF s.mode = "conflict" /\ s.parsed.hunks = 0
                THEN RenderEditModeUI([done EXCEPT !.st[r.f].mode = "read"], r.f) ELSE done
    IN  IF r.how = "failed" THEN IF here THEN told ELSE e
        ELSE IF r.how = "stale" THEN IF here THEN RenderEditModeUI(stale, r.f) ELSE e
        ELSE IF ~here THEN done
        ELSE IF s.back = None THEN over
        ELSE FetchGitDiff([over EXCEPT !.st[r.f].mode = "git", !.st[r.f].ref = s.back, !.st[r.f].back = None],
                          r.f, s.back)

\* requestSuggestion's end: dropped when it was superseded, or the file is not on screen.
Suggested(e, r) ==
    IF r.gen # e.gens[r.f] \/ e.st[r.f].mode # "conflict" \/ e.active # r.f \/ r.at > e.st[r.f].parsed.hunks
    THEN e
    ELSE RenderConflictOverlay([e EXCEPT !.st[r.f].sugg[r.at] = IF r.how = "ok" THEN "preview" ELSE "error"], r.f)

\* PUT /api/file: a write over a file that is not the one expected is refused.
Refused(r) == eddisk[r.f] # Gone /\ r.hash # NoHash /\ eddisk[r.f] # r.hash

Served(r) ==
    /\ r.st = "sent" /\ UNCHANGED edleft
    /\ LET answer(how) == [ed EXCEPT !.reqs = (@ \ {r}) \cup {[r EXCEPT !.st = "served", !.ans = eddisk[r.f], !.how = how]}]
       IN  IF r.what = "save" /\ ~Refused(r)
           THEN ed' = answer("ok") /\ eddisk' = [eddisk EXCEPT ![r.f] = r.text]
           ELSE ed' = answer(IF r.what = "save" THEN "stale" ELSE "ok") /\ UNCHANGED eddisk

Answered(e, r) ==
    LET g == [e EXCEPT !.reqs = @ \ {r}] IN
    IF ~e.st[r.f].there \/ e.born[r.f] # r.born THEN g
    ELSE CASE r.what = "load" -> LoadFile(g, r)
           [] r.what = "refresh" -> ApplyRefreshedRead(g, r)
           [] r.what = "git" -> GitDiffSources(g, r)
           [] r.what = "save" -> SaveAnswered(g, r)
           [] r.what = "suggest" -> Suggested(g, r)

Arrives(r) ==
    /\ UNCHANGED eddisk
    /\ \/ r.st = "served" /\ ed' = Answered(ed, r) /\ UNCHANGED edleft
       \/ /\ Spend("fails")
          /\ ed' = LET f == [r EXCEPT !.how = "failed"]
                   IN  Answered([ed EXCEPT !.reqs = (@ \ {r}) \cup {f}], f)

-----------------------------------------------------------------------------
(* The reader's hands.  Buttons act on the file that is active.            *)

\* The input handler; the conflicts are parsed again on the next frame.
Type ==
    /\ Active(ed) /\ ed.surface = "edit" /\ Spend("types") /\ UNCHANGED eddisk
    /\ LET text == [ed.area EXCEPT !.mine = ed.edits + 1]
       IN  ed' = [ed EXCEPT !.area = text, !.edits = @ + 1, !.st[ed.active].cur = text,
                            !.frame = @ \/ Buffer(ed).mode = "conflict"]

Frame ==
    /\ ed.frame /\ UNCHANGED <<eddisk, edleft>>
    /\ LET g == [ed EXCEPT !.frame = FALSE] IN
       ed' = IF Active(g) /\ Buffer(g).mode = "conflict"
             THEN RenderConflictOverlay([g EXCEPT !.st[g.active].parsed = Buffer(g).cur], g.active) ELSE g

StartEditing ==
    /\ Active(ed) /\ ed.edit /\ Spend("acts") /\ UNCHANGED eddisk
    /\ LET s == Buffer(ed)
           back == IF s.mode = "git" THEN s.ref ELSE IF s.mode = "diff" THEN None ELSE s.back
       IN  ed' = [Shown([ed EXCEPT !.st[ed.active].mode = "edit", !.st[ed.active].back = back],
                        "edit", FALSE, TRUE, FALSE) EXCEPT !.area = s.cur]

\* stopEditing: the text on disk is the text again; a diff that was left for the edit is back.
\* The overlay is hidden with its rows in it.
StopEditing(e, f) ==
    LET s == e.st[f]
        g == [e EXCEPT !.st[f].cur = s.orig]
    IN  IF e.active # f THEN g
        ELSE IF s.back # None
        THEN FetchGitDiff([g EXCEPT !.st[f].mode = "git", !.st[f].ref = s.back, !.st[f].back = None, !.over = FALSE],
                          f, s.back)
        ELSE Shown([g EXCEPT !.st[f].mode = "read", !.over = FALSE], "read", TRUE, FALSE, FALSE)

\* confirmStopEditing: a buffer with edits asks first, and the reader may do other things
\* before they answer.
ConfirmStopEditing ==
    /\ UNCHANGED eddisk
    /\ \/ /\ Active(ed) /\ ed.keep /\ ed.ask = None /\ Spend("acts")
          /\ ed' = IF Dirty(Buffer(ed)) THEN [ed EXCEPT !.ask = ed.active] ELSE StopEditing(ed, ed.active)
       \/ /\ ed.ask # None /\ UNCHANGED edleft
          /\ \/ ed' = StopEditing([ed EXCEPT !.ask = None], ed.ask)
             \/ ed' = [ed EXCEPT !.ask = None]

\* saveFile: what is in the text area, for the file that is active, over the bytes it loaded.
SaveFile ==
    /\ Active(ed) /\ ed.keep /\ Dirty(Buffer(ed)) /\ ~(\E r \in ed.reqs : r.what = "save")
    /\ Spend("saves") /\ UNCHANGED eddisk
    /\ ed' = [ed EXCEPT !.reqs = @ \cup {[Ask("save", ed.active) EXCEPT !.text = ed.area, !.hash = Buffer(ed).hash]}]

ToggleDiffMode ==
    /\ Active(ed) /\ ed.diff /\ Spend("acts") /\ UNCHANGED eddisk
    /\ LET f == ed.active IN
       ed' = IF Buffer(ed).mode \in {"git", "diff"} THEN RenderEditModeUI([ed EXCEPT !.st[f].mode = "read"], f)
             ELSE IF Dirty(Buffer(ed)) THEN RestoreUI([ed EXCEPT !.st[f].mode = "diff"], f) ELSE ed

\* The button is there on a buffer that is read and on the diff it shows.
ToggleGitDiffMode ==
    /\ Active(ed) /\ Buffer(ed).err = None /\ Buffer(ed).mode \in {"read", "git"}
    /\ Spend("acts") /\ UNCHANGED eddisk
    /\ ed' = IF Buffer(ed).mode = "git" THEN RenderEditModeUI([ed EXCEPT !.st[ed.active].mode = "read"], ed.active)
             ELSE Opened(ed, ed.active, "git", "HEAD")

-----------------------------------------------------------------------------
(* Conflicts.  The buttons of a row act on the buffer they were made for.  *)

\* applyResolution and acceptSuggestion: the text as it was parsed, less the conflict.
Resolved(e, f) ==
    LET text == [e.st[f].parsed EXCEPT !.hunks = @ - 1]
        g == [e EXCEPT !.st[f].cur = text, !.st[f].sugg = [i \in 1..2 |-> "none"], !.area = text,
                       !.st[f].parsed = text]
    IN  IF text.hunks = 0 THEN RenderEditModeUI([g EXCEPT !.st[f].mode = "read"], f)
        ELSE RenderConflictOverlay([g EXCEPT !.rows = <<>>], f)

RowOf(i) == ed.rows[i].of
InConflict(i) == ed.st[RowOf(i)].mode = "conflict" /\ i <= ed.st[RowOf(i)].parsed.hunks

ApplyResolution(i) ==
    /\ ed.rows[i].says # "preview" /\ InConflict(i) /\ Spend("acts")
    /\ ed' = Resolved(ed, RowOf(i)) /\ UNCHANGED eddisk

AcceptSuggestion(i) ==
    /\ ed.rows[i].says = "preview" /\ InConflict(i) /\ ed.st[RowOf(i)].sugg[i] = "preview" /\ Spend("acts")
    /\ ed' = Resolved(ed, RowOf(i)) /\ UNCHANGED eddisk

RejectSuggestion(i) ==
    /\ ed.rows[i].says = "preview" /\ Spend("acts") /\ UNCHANGED eddisk
    /\ ed' = RenderConflictOverlay([ed EXCEPT !.st[RowOf(i)].sugg[i] = "none"], RowOf(i))

\* requestSuggestion: one that is out for another conflict of the file is superseded.
RequestSuggestion(i) ==
    LET f == RowOf(i) IN
    /\ ed.rows[i].says \in {"none", "error"} /\ InConflict(i) /\ ed.st[f].sugg[i] \notin {"loading", "preview"}
    /\ Spend("acts") /\ UNCHANGED eddisk
    /\ ed' = RenderConflictOverlay(
                 [ed EXCEPT !.gens[f] = @ + 1, !.st[f].sugg[i] = "loading",
                            !.reqs = @ \cup {[Ask("suggest", f) EXCEPT !.at = i, !.gen = ed.gens[f] + 1]}], f)

-----------------------------------------------------------------------------
(* The other writers of the files.                                         *)

WorldWrites ==
    /\ Spend("edits") /\ UNCHANGED ed
    /\ \E f \in Files :
           \/ \E hunks \in {0, 1} : eddisk' = [eddisk EXCEPT ![f] = Text(f, edleft.edits + 1, hunks)]
           \/ eddisk' = [eddisk EXCEPT ![f] = Gone]
           \/ eddisk' = [eddisk EXCEPT ![f] = Text(f, 0, 0)]

EditorInit ==
    /\ edleft \in EditorScenarios
    /\ eddisk = [f \in Files |-> Text(f, 0, IF f \in edleft.conflicts THEN edleft.hunks ELSE 0)]
    /\ ed = [active |-> None, st |-> [f \in Files |-> NoBuffer], born |-> [f \in Files |-> 0],
             gens |-> [f \in Files |-> 0], reqs |-> {}, surface |-> "read", edit |-> FALSE, keep |-> FALSE,
             diff |-> FALSE, says |-> None, area |-> Blank, rows |-> <<>>, over |-> FALSE, ask |-> None, frame |-> FALSE,
             edits |-> 0]

EditorNext ==
    \/ \E f \in Files : OpenFile(f) \/ OpenFileInBackground(f) \/ ShowFile(f) \/ CloseEditorFile(f)
    \/ RefreshFile
    \/ \E r \in ed.reqs : Served(r) \/ Arrives(r)
    \/ Type \/ Frame \/ StartEditing \/ ConfirmStopEditing \/ SaveFile \/ ToggleDiffMode \/ ToggleGitDiffMode
    \/ ed.over /\ \E i \in DOMAIN ed.rows :
           ApplyResolution(i) \/ AcceptSuggestion(i) \/ RejectSuggestion(i) \/ RequestSuggestion(i)
    \/ WorldWrites

EditorSpec == EditorInit /\ [][EditorNext]_edvars

-----------------------------------------------------------------------------
\* The reader let the edits of a file go: asked, they answered that they are to be discarded.
LetGo(f) == ed.ask = f /\ ed' = StopEditing([ed EXCEPT !.ask = None], f)

Loses(f) ==
    /\ ed.st[f].loaded /\ Dirty(ed.st[f]) /\ ed.st[f].cur.of = f /\ ed'.st[f].there
    /\ ed'.st[f].cur.of # f \/ ed'.st[f].cur.mine < ed.st[f].cur.mine

\* A conflict resolved over text typed since it was last parsed: the text resolved is the one
\* that was parsed.
Outrun(f) == ed.st[f].parsed # ed.st[f].cur /\ ed' = Resolved(ed, f)

\* The first read of a file answers after a diff against git has loaded its buffer.
LateRead(f) == \E r \in ed.reqs : r.what = "load" /\ r.f = f /\ ed' = Answered(ed, r)

\* What the reader typed stays in its buffer until they discard it, whatever is loaded,
\* refreshed, adopted from disk, saved, refused, resolved, diffed or shown meanwhile; but for
\* a resolution that outruns the parse and a first read that comes after the diff, and as long
\* as the text area the files share holds the text of the file it is shown for.
KeepsEdits ==
    \A f \in Files : Loses(f) => LetGo(f) \/ Outrun(f) \/ LateRead(f) \/ ed.area.of # ed.active
=============================================================================
