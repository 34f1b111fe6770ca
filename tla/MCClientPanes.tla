---------------------------- MODULE MCClientPanes ----------------------------
(***************************************************************************)
(* The panes beside the chat, each explored on an instance of its own. A   *)
(* behaviour is of one pane, picked at the start; the others' variables    *)
(* stay out of it.                                                         *)
(***************************************************************************)
EXTENDS Integers, Sequences, ClientGit, ClientPulls, ClientMcp, ClientForges, ClientFind, ClientSpec

VARIABLES
    about,  \* the part this behaviour is of
    ed, eddisk, edleft,
    fl, fldisk, flleft,
    dk, sv, dkleft,
    cu, wd, culeft,
    tl, te, tlleft,
    srv, past, wire, stream, call, list, c, budget

\* The variables of the parts a behaviour is not about, where a part has none to rest in.
Absent == "absent"

-----------------------------------------------------------------------------
(* The changes pane over two repositories, one of them held by another process. *)

Untried == [fails |-> 0, refreshes |-> 0, acts |-> 0, types |-> 0, views |-> 0, edits |-> 0, stores |-> 0]

(* Requests that act, a read that races them, a typed message, the views, the badges. *)
GitSets == {[Untried EXCEPT !.acts = 2, !.refreshes = 1, !.fails = 1],
            [Untried EXCEPT !.acts = 1, !.types = 1, !.refreshes = 1, !.edits = 1],
            [Untried EXCEPT !.acts = 1, !.types = 1, !.views = 1, !.fails = 1],
            [Untried EXCEPT !.views = 3, !.fails = 1],
            [Untried EXCEPT !.stores = 3, !.fails = 1, !.edits = 1]}

GTvars == <<gt, gtsrv, gtst, gtleft>>

\* It rests in the behaviours of the others.
GTInit == GitInit /\ (about # "git" => gtleft = CHOOSE left \in GitScenarios : TRUE)

-----------------------------------------------------------------------------
(* The pull requests of two groups, one of whose forges can run checks again. *)

Unmoved == [fails |-> 0, refreshes |-> 0, asks |-> 0, writes |-> 0, opens |-> 0, views |-> 0,
            edits |-> 0, links |-> 0]

(* A merge or a close against a listing, a focus link, the dialog and its drafts. *)
PullSets == {[Unmoved EXCEPT !.asks = 1, !.refreshes = 1, !.fails = 1],
             [Unmoved EXCEPT !.asks = 1, !.edits = 1, !.refreshes = 1],
             [Unmoved EXCEPT !.asks = 1, !.edits = 1, !.views = 1],
             [Unmoved EXCEPT !.links = 1, !.edits = 1, !.views = 1],
             [Unmoved EXCEPT !.opens = 1, !.writes = 2, !.asks = 1],
             [Unmoved EXCEPT !.opens = 1, !.fails = 1, !.edits = 1],
             [Unmoved EXCEPT !.asks = 2],
             [Unmoved EXCEPT !.opens = 1, !.refreshes = 1]}

PRvars == <<pr, prsrv, prdlg, prleft>>

\* It rests in the behaviours of the others.
PRInit == PullsInit /\ (about # "pulls" => prleft = CHOOSE left \in PullScenarios : TRUE)

-----------------------------------------------------------------------------
(* The server settings: two servers, one of them remote, and one a Power brings. *)

Unused == [fails |-> 0, acts |-> 0, types |-> 0, opens |-> 0, views |-> 0, writes |-> 0,
           edits |-> 0, events |-> 0]

(* A request against a list or a frame, the search box, the form and its secrets. *)
McpSets == {[Unused EXCEPT !.acts = 1, !.edits = 1, !.fails = 1],
            [Unused EXCEPT !.acts = 1, !.events = 1],
            [Unused EXCEPT !.opens = 1, !.types = 3, !.fails = 1],
            [Unused EXCEPT !.opens = 1, !.writes = 3, !.acts = 1],
            [Unused EXCEPT !.opens = 1, !.views = 1, !.acts = 1, !.writes = 1],
            [Unused EXCEPT !.opens = 1, !.views = 1, !.types = 1],
            [Unused EXCEPT !.edits = 2],
            [Unused EXCEPT !.events = 2]}

MCvars == <<mc, mcsrv, mcnet, mcdlg, mcleft>>

\* It rests in the behaviours of the others.
MCInit == McpInit /\ (about # "mcp" => mcleft = CHOOSE left \in McpScenarios : TRUE)

-----------------------------------------------------------------------------
(* Two forge accounts with their repositories. *)

RepoMap == [r1 |-> "a", r2 |-> "a", r3 |-> "b"]
Unasked == [fails |-> 0, tabs |-> 1, polls |-> 0, banners |-> 0, acts |-> 0, bulks |-> 0, opens |-> 0,
            gates |-> 0, approvals |-> 0, edits |-> 0]

(* Visits and retries, requests, banners, panes with their flows and forms. *)
ForgeSets == {[Unasked EXCEPT !.tabs = 2, !.edits = 1, !.polls = 1],
              [Unasked EXCEPT !.tabs = 2, !.fails = 2],
              [Unasked EXCEPT !.acts = 1, !.fails = 1],
              [Unasked EXCEPT !.acts = 1, !.edits = 1],
              [Unasked EXCEPT !.tabs = 0, !.banners = 4],
              [Unasked EXCEPT !.bulks = 1, !.acts = 1],
              [Unasked EXCEPT !.opens = 2, !.approvals = 1, !.fails = 1],
              [Unasked EXCEPT !.opens = 3],
              [Unasked EXCEPT !.opens = 1, !.gates = 2],
              [Unasked EXCEPT !.opens = 1, !.acts = 1, !.fails = 1]}

FGvars == <<fg, fgsrv, fgleft>>

\* It rests in the behaviours of the others.
FGInit == ForgesInit /\ (about # "forges" => fgleft = CHOOSE left \in ForgeScenarios : TRUE)

-----------------------------------------------------------------------------
(* Two files in the editor, one of them unknown to git. *)

Unread == [opens |-> 1, shows |-> 0, closes |-> 0, refreshes |-> 0, types |-> 0, acts |-> 1, saves |-> 0,
           edits |-> 0, fails |-> 0, hunks |-> 1, conflicts |-> {}]

(* Opening over an edit, saves, conflicts of one file and of two, a file that moves on disk. *)
EditorSets == {[Unread EXCEPT !.opens = 2, !.shows = 1, !.types = 1],
               [Unread EXCEPT !.types = 2, !.saves = 2, !.refreshes = 1],
               [Unread EXCEPT !.types = 1, !.acts = 3, !.saves = 1],
               [Unread EXCEPT !.types = 1, !.acts = 3, !.saves = 1, !.conflicts = {"f"}, !.hunks = 2],
               [Unread EXCEPT !.opens = 2, !.shows = 1, !.types = 1, !.conflicts = {"f", "g"}],
               [Unread EXCEPT !.types = 1, !.refreshes = 2, !.edits = 1, !.fails = 1],
               [Unread EXCEPT !.opens = 2, !.closes = 1, !.types = 1, !.saves = 1, !.fails = 1]}

EDT == INSTANCE ClientEditor WITH Files <- {"f", "g"}, Untracked <- {"g"}, EditorScenarios <- EditorSets

EDTvars == <<ed, eddisk, edleft>>

EDTInit ==
    IF about = "editor" THEN EDT!EditorInit
    ELSE ed = Absent /\ eddisk = Absent /\ edleft = Absent

-----------------------------------------------------------------------------
(* Two browsers over a folder in the root, with a file of the same name in both. *)

FilePicks == {<<[name |-> "y", size |-> 1]>>, <<[name |-> "x", size |-> 3], [name |-> "new", size |-> 2]>>}
Still == [fails |-> 0, tabs |-> 1, moves |-> 0, scrolls |-> 0, ticks |-> 0, asks |-> 0, uploads |-> 0,
          edits |-> 0, finds |-> 0, picks |-> 0]

(* Switches and moves over reads, requests, uploads; the search; the picker. *)
FileSets == {[Still EXCEPT !.tabs = 3, !.moves = 2, !.fails = 1],
             [Still EXCEPT !.tabs = 2, !.ticks = 1, !.asks = 1, !.moves = 1],
             [Still EXCEPT !.ticks = 1, !.asks = 2, !.moves = 1],
             [Still EXCEPT !.tabs = 2, !.asks = 1, !.moves = 1, !.fails = 1],
             [Still EXCEPT !.tabs = 2, !.ticks = 1, !.asks = 1, !.fails = 1],
             [Still EXCEPT !.tabs = 2, !.moves = 1, !.uploads = 1],
             [Still EXCEPT !.uploads = 2, !.fails = 1],
             [Still EXCEPT !.moves = 4],
             [Still EXCEPT !.ticks = 3, !.scrolls = 1],
             [Still EXCEPT !.tabs = 3, !.scrolls = 1],
             [Still EXCEPT !.tabs = 2, !.moves = 1, !.edits = 1],
             [Still EXCEPT !.tabs = 2, !.finds = 2, !.moves = 1],
             [Still EXCEPT !.finds = 3, !.moves = 1, !.fails = 1],
             [Still EXCEPT !.tabs = 0, !.picks = 4, !.fails = 1],
             [Still EXCEPT !.picks = 1, !.uploads = 1, !.tabs = 2]}

FB == INSTANCE ClientFiles WITH Names <- <<"d", "new", "x", "y">>, Tree <- {<<>>, <<"d">>}, Files <- {<<"x">>, <<"d", "x">>, <<"d", "y">>}, Browsers <- {<<>>, <<"d">>}, ReadOnly <- {}, MaxTotal <- 2, MaxFiles <- 2, Picks <- FilePicks, FileScenarios <- FileSets

FBvars == <<fl, fldisk, flleft>>

FBInit ==
    IF about = "files" THEN FB!FilesInit
    ELSE fl = Absent /\ fldisk = Absent /\ flleft = Absent

-----------------------------------------------------------------------------
(* The boxes that find text, over two chats, a delegate's page, a file and the history. *)

Said(turn, kind, words, exact) ==
    [chat |-> "c1", turn |-> turn, lane |-> FALSE, kind |-> kind, words |-> words, exact |-> exact]

FindLog == <<Said(1, "output", {"a"}, {}), Said(2, "prose", {"a", "b"}, {"b"}), Said(2, "diff", {"a"}, {"a"}),
             [Said(2, "prose", {"a"}, {}) EXCEPT !.lane = TRUE],
             [Said(2, "prose", {"a", "b"}, {"a"}) EXCEPT !.chat = "c2"], Said(2, "entry", {"b"}, {}),
             Said(2, "failure", {"b"}, {"b"}), Said(3, "prose", {"a"}, {"a"})>>

FindTabs == [c1 |-> [kind |-> "chat", chat |-> "c1"], c2 |-> [kind |-> "chat", chat |-> "c2"],
             s |-> [kind |-> "subagent", chat |-> "c1"], f |-> [kind |-> "editor", chat |-> "none"],
             h |-> [kind |-> "history", chat |-> "none"]]

FindTexts == <<[a |-> 2, b |-> 0], [a |-> 1, b |-> 1]>>

Unfound == [start |-> "c1", turns |-> 2, shows |-> 0, opens |-> 1, types |-> 1, steps |-> 0, cases |-> 0, grows |-> 0,
            folds |-> 0, scrolls |-> 0, matches |-> 0, edits |-> 0, mounts |-> 0, fails |-> 0]

(* Steps over hits of every kind, questions that overtake each other, switches of the tab,
   a hit of the history, a transcript that changes, the file's box and a page's box. *)
FindSets == {[Unfound EXCEPT !.steps = 3, !.fails = 1],
             [Unfound EXCEPT !.types = 2, !.fails = 1, !.opens = 2],
             [Unfound EXCEPT !.types = 2, !.cases = 1, !.steps = 1],
             [Unfound EXCEPT !.shows = 2, !.steps = 3],
             [Unfound EXCEPT !.start = "h", !.shows = 1, !.matches = 1, !.types = 0, !.opens = 0, !.steps = 1],
             [Unfound EXCEPT !.grows = 1, !.folds = 1, !.steps = 2],
             [Unfound EXCEPT !.scrolls = 1, !.folds = 2, !.steps = 1, !.opens = 2],
             [Unfound EXCEPT !.start = "f", !.types = 2, !.steps = 2, !.edits = 2, !.opens = 2],
             [Unfound EXCEPT !.start = "h", !.types = 2, !.steps = 1, !.opens = 2, !.mounts = 1]}

FDvars == <<fn, ef, pg, fnleft>>

\* It rests in the behaviours of the others.
FDInit == FindInit /\ (about # "find" => fnleft = CHOOSE left \in FindScenarios : left.start = "c1")

-----------------------------------------------------------------------------
(* The questions of two chats, three turns, a chat's run and a run of no chat. *)

Ask(key, kind, run, turn, shape) == [key |-> key, kind |-> kind, run |-> run, turn |-> turn, form |-> shape]

AskList == <<Ask("c1", "permission", "none", "t1", "rule"), Ask("c1", "permission", "none", "t1", "files"),
             Ask("c1", "user_input", "none", "t2", "subs"), Ask("c2", "elicitation", "none", "t3", "required"),
             Ask("c1", "permission", "r", "none", "plain"), Ask("c1", "run_input", "r", "none", "plain"),
             Ask("v", "run_input", "v", "none", "plain")>>

May(turns, runs, asks) == [turns |-> turns, runs |-> runs, asks |-> asks]

Unanswered == [start |-> "c1", still |-> TRUE, may |-> May({}, {}, {}), shows |-> 0, closes |-> 0, types |-> 0,
               answers |-> 0, ends |-> 0, elsewhere |-> 0, cancels |-> 0, fails |-> 0, refused |-> 0, breaks |-> 0]

(* Answers given here and elsewhere, failed and refused; turns and runs that end under their
   questions; cancels, closed tabs and lost streams. *)
AskSets == {
  [Unanswered EXCEPT !.may = May({"t1", "t2"}, {}, {1, 3}), !.answers = 2, !.types = 1, !.fails = 1, !.elsewhere = 1],
  [Unanswered EXCEPT !.may = May({"t1", "t2"}, {}, {1, 3}), !.breaks = 1, !.cancels = 1],
  [Unanswered EXCEPT !.may = May({"t1"}, {"r"}, {1, 5}), !.breaks = 1, !.ends = 1],
  [Unanswered EXCEPT !.may = May({"t1"}, {"r"}, {1, 5}), !.cancels = 1, !.ends = 1],
  [Unanswered EXCEPT !.may = May({"t1"}, {"r"}, {2, 6}), !.types = 1, !.answers = 2, !.refused = 1, !.ends = 1, !.fails = 1],
  [Unanswered EXCEPT !.may = May({}, {"r", "v"}, {6, 7}), !.shows = 1, !.types = 1, !.answers = 1, !.refused = 1, !.still = FALSE],
  [Unanswered EXCEPT !.may = May({}, {"v"}, {7}), !.breaks = 1, !.types = 1, !.shows = 1, !.answers = 2, !.refused = 1, !.ends = 1],
  [Unanswered EXCEPT !.may = May({"t1", "t3"}, {}, {1, 4}), !.shows = 2, !.answers = 1, !.still = FALSE],
  [Unanswered EXCEPT !.may = May({"t1"}, {"r"}, {6}), !.closes = 1, !.shows = 1],
  [Unanswered EXCEPT !.may = May({"t1"}, {}, {1}), !.closes = 1, !.breaks = 1],
  [Unanswered EXCEPT !.may = May({"t2"}, {}, {3}), !.types = 4, !.answers = 2, !.shows = 2]
 }

DK == INSTANCE ClientDecisions WITH Asks <- AskList, Turns <- [t1 |-> "c1", t2 |-> "c1", t3 |-> "c2"], Runs <- [r |-> "c1", v |-> "none"], AskScenarios <- AskSets

DKvars == <<dk, sv, dkleft>>

DKInit ==
    IF about = "asks" THEN DK!DkInit
    ELSE dk = Absent /\ sv = Absent /\ dkleft = Absent

-----------------------------------------------------------------------------
(* How the reader is told, over two chats, a run of the first and a delegate of it. *)

CueRows == [c1 |-> [kind |-> "chat", ref |-> "a"], c2 |-> [kind |-> "chat", ref |-> "b"],
            r1 |-> [kind |-> "run", ref |-> "r"], k1 |-> [kind |-> "task", ref |-> "a"]]

Uncued == [open |-> {"c1", "c2"}, active |-> "c1", on |-> TRUE, permission |-> "granted", turns |-> 0, tasks |-> 0,
           stops |-> 0, waits |-> 0, asks |-> 0, runs |-> 0, pauses |-> 0, deletes |-> 0, breaks |-> 0, fails |-> 0,
           views |-> 0, hides |-> 0, drawers |-> 0, closes |-> 0, opens |-> 0, asides |-> 0, reloads |-> 0,
           flips |-> 0, kinds |-> 0, elsewhere |-> 0]

(* Turns, runs and questions of a page that is looked at, hidden, put aside or reloaded, and
   the switches of the notifications against each other, another device and refusals. *)
CueSets == {
  [Uncued EXCEPT !.turns = 1, !.runs = 1, !.hides = 1, !.stops = 1],
  [Uncued EXCEPT !.open = {"c1", "c2", "r1"}, !.turns = 1, !.runs = 1, !.asks = 1, !.views = 1, !.hides = 1],
  [Uncued EXCEPT !.turns = 1, !.asks = 2, !.breaks = 1, !.hides = 1],
  [Uncued EXCEPT !.turns = 1, !.runs = 1, !.asks = 1, !.breaks = 1],
  [Uncued EXCEPT !.turns = 2, !.drawers = 2, !.views = 1],
  [Uncued EXCEPT !.open = {"c1", "c2", "r1"}, !.runs = 1, !.turns = 1, !.pauses = 1, !.closes = 1, !.opens = 1],
  [Uncued EXCEPT !.turns = 1, !.waits = 1, !.asides = 1],
  [Uncued EXCEPT !.turns = 1, !.runs = 1, !.deletes = 1],
  [Uncued EXCEPT !.open = {"c1", "c2", "k1"}, !.turns = 1, !.tasks = 2, !.breaks = 1],
  [Uncued EXCEPT !.turns = 1, !.reloads = 1, !.fails = 1],
  [Uncued EXCEPT !.turns = 1, !.reloads = 1, !.views = 1],
  [Uncued EXCEPT !.turns = 2, !.runs = 1, !.stops = 1],
  [Uncued EXCEPT !.turns = 1, !.runs = 1, !.kinds = 1],
  [Uncued EXCEPT !.on = FALSE, !.permission = "default", !.turns = 1, !.hides = 1, !.flips = 1],
  [Uncued EXCEPT !.flips = 2, !.kinds = 1, !.elsewhere = 1, !.fails = 1],
  [Uncued EXCEPT !.on = FALSE, !.permission = "granted", !.flips = 2, !.elsewhere = 1, !.reloads = 1],
  [Uncued EXCEPT !.kinds = 3, !.fails = 1]
 }

CU == INSTANCE ClientCues WITH Strip <- CueRows, RunOf <- [r |-> "a"], CueCap <- 1, CueScenarios <- CueSets

CUvars == <<cu, wd, culeft>>

CUInit ==
    IF about = "cues" THEN CU!CuesInit
    ELSE cu = Absent /\ wd = Absent /\ culeft = Absent

-----------------------------------------------------------------------------
(* The tools panel: an essential tool, one that needs it, and one to add. *)

ToolManifest == [g |-> [essential |-> TRUE, needs |-> {}],
                 n |-> [essential |-> FALSE, needs |-> {"g"}],
                 x |-> [essential |-> FALSE, needs |-> {}]]

(* Jobs found running, switches, pins and pills, the search that adds, the banner that waits. *)
Unjobbed ==
    [boot |-> FALSE, room |-> 1, may |-> {}, lines |-> 0, breakdowns |-> 0, elsewhere |-> 0,
     breaks |-> 0, opens |-> 1, fails |-> 0, pills |-> 0, acts |-> 0, adds |-> 0, types |-> 0, banners |-> 0]
ToolSets == {
  [Unjobbed EXCEPT !.boot = TRUE, !.lines = 1],
  [Unjobbed EXCEPT !.boot = TRUE, !.pills = 1, !.may = {"reconcile"}],
  [Unjobbed EXCEPT !.boot = TRUE, !.opens = 2, !.fails = 1],
  [Unjobbed EXCEPT !.acts = 1, !.fails = 1, !.may = {"switch"}],
  [Unjobbed EXCEPT !.acts = 1, !.may = {"switch", "delete"}],
  [Unjobbed EXCEPT !.acts = 1, !.pills = 1, !.fails = 1, !.may = {"delete", "cancel"}],
  [Unjobbed EXCEPT !.elsewhere = 1, !.adds = 1],
  [Unjobbed EXCEPT !.acts = 1, !.pills = 1, !.may = {"update", "pin"}],
  [Unjobbed EXCEPT !.acts = 2, !.breakdowns = 1, !.may = {"install", "pin"}, !.adds = 1],
  [Unjobbed EXCEPT !.pills = 2, !.may = {"update", "refresh"}],
  [Unjobbed EXCEPT !.pills = 1, !.fails = 1, !.may = {"reconcile"}],
  [Unjobbed EXCEPT !.adds = 1, !.types = 1, !.acts = 1, !.fails = 1],
  [Unjobbed EXCEPT !.adds = 2, !.types = 1],
  [Unjobbed EXCEPT !.adds = 1, !.acts = 1],
  [Unjobbed EXCEPT !.opens = 0, !.room = 3, !.banners = 1, !.lines = 2, !.breakdowns = 1],
  [Unjobbed EXCEPT !.banners = 1, !.lines = 2, !.fails = 1, !.breaks = 1],
  [Unjobbed EXCEPT !.boot = TRUE, !.opens = 2, !.breaks = 1, !.elsewhere = 1]
 }

TL == INSTANCE ClientTools WITH Tools <- ToolManifest, Present <- {"g", "n"}, Texts <- {"", "n"}, ToolScenarios <- ToolSets

TLvars == <<tl, te, tlleft>>

TLInit ==
    IF about = "tools" THEN TL!ToolsInit
    ELSE tl = Absent /\ te = Absent /\ tlleft = Absent

-----------------------------------------------------------------------------
(* Two specs under one chat, and another chat either may be moved to. *)

Shelved == [shows |-> 1, leaves |-> 0, closes |-> 0, parents |-> 0, runs |-> 0, answers |-> 0, polls |-> 0,
            approvals |-> 0, writes |-> 0, breaks |-> 0, fails |-> 0, turns |-> 0]

(* Tasks sent while the file moves, checkpoints over two pages, approvals, lost frames. *)
SpecSets == {[Shelved EXCEPT !.runs = 1, !.writes = 1, !.fails = 1],
             [Shelved EXCEPT !.runs = 1, !.writes = 2],
             [Shelved EXCEPT !.shows = 2, !.turns = 1, !.answers = 2, !.leaves = 1],
             [Shelved EXCEPT !.turns = 1, !.answers = 1, !.parents = 1, !.fails = 1],
             [Shelved EXCEPT !.approvals = 1, !.writes = 1, !.fails = 1, !.polls = 1],
             [Shelved EXCEPT !.approvals = 2, !.writes = 1, !.closes = 1],
             [Shelved EXCEPT !.runs = 1, !.writes = 1, !.closes = 1],
             [Shelved EXCEPT !.shows = 2, !.runs = 2],
             [Shelved EXCEPT !.writes = 2, !.breaks = 1, !.polls = 1]}

SCvars == <<sp, spsrv, spleft>>

\* It rests in the behaviours of the others.
SCInit == SpecInit /\ (about # "spec" => spleft = CHOOSE left \in SpecScenarios : TRUE)

-----------------------------------------------------------------------------
(* The tab strip: two chats, or two chats and a run's view nested under the first. *)

TwoChats == << [id |-> 1, ref |-> "a", parent |-> 0, pinned |-> FALSE],
               [id |-> 2, ref |-> "b", parent |-> 0, pinned |-> FALSE] >>

WithView == << [id |-> 1, ref |-> "a", parent |-> 0, pinned |-> FALSE],
               [id |-> 2, ref |-> "v", parent |-> 1, pinned |-> FALSE],
               [id |-> 3, ref |-> "b", parent |-> 0, pinned |-> FALSE] >>

Unstirred == [start |-> TwoChats, opens |-> 0, closes |-> 0, moves |-> 0, changes |-> 0, picks |-> 0,
            remote |-> 0, kinds |-> {}, refuses |-> 0, nets |-> 0, times |-> 0,
            breaks |-> 0, fails |-> 0]

(* Two closes that time out or are refused, under another device's acts. *)
StripCloses == [Unstirred EXCEPT !.closes = 2, !.times = 1, !.refuses = 1, !.remote = 1,
                           !.kinds = {"close"}]

(* A chat and its run's view closed together, and a dispatch lost. *)
StripSubtrees == [Unstirred EXCEPT !.start = WithView, !.closes = 1, !.nets = 1, !.remote = 1,
                            !.kinds = {"reorder", "close"}, !.picks = 1]

(* A close and a reopening of what it closed, in either order of answers. *)
StripReopens == [Unstirred EXCEPT !.closes = 1, !.opens = 1, !.times = 1, !.remote = 1,
                             !.kinds = {"reorder"}]

(* A subject opened on a strip another device moves. *)
StripOpens == [Unstirred EXCEPT !.opens = 1, !.remote = 2, !.kinds = {"open", "reorder"},
                           !.refuses = 1]

(* Drops, while another device drops, pins and opens. *)
StripMoves == [Unstirred EXCEPT !.moves = 2, !.remote = 1, !.kinds = {"open", "reorder", "pin"},
                          !.refuses = 1]

(* Pins and new parents. *)
StripNests == [Unstirred EXCEPT !.changes = 2, !.remote = 1, !.kinds = {"reorder", "pin"}]

(* A stream that breaks and lists that fail, over a close and a drop. *)
StripBreaks == [Unstirred EXCEPT !.closes = 1, !.moves = 1, !.remote = 1, !.kinds = {"open"},
                            !.breaks = 1, !.fails = 1]

StripSets == {StripCloses, StripSubtrees, StripReopens, StripOpens, StripMoves, StripNests, StripBreaks}

TB == INSTANCE ClientTabs WITH Refs <- {"a", "b", "d", "v"}, Views <- {"v"}, MaxTabs <- 3, MaxOps <- 2, Scenarios <- StripSets

TBvars == <<srv, past, wire, stream, call, list, c, budget>>

TBInit ==
    IF about = "tabs" THEN TB!TabsInit
    ELSE srv = Absent /\ past = Absent /\ wire = Absent /\ stream = Absent /\ call = Absent /\ list = Absent /\ c = Absent /\ budget = Absent

-----------------------------------------------------------------------------
Init ==
    /\ about \in {"git", "pulls", "mcp", "forges", "editor", "files", "find", "asks", "cues", "tools", "spec", "tabs"}
    /\ GTInit /\ PRInit /\ MCInit /\ FGInit
    /\ EDTInit /\ FBInit /\ FDInit /\ DKInit
    /\ CUInit /\ TLInit /\ SCInit /\ TBInit

Next ==
    \/ about = "git" /\ GitNext
       /\ UNCHANGED <<about, PRvars, MCvars, FGvars, EDTvars, FBvars, FDvars, DKvars, CUvars, TLvars, SCvars, TBvars>>
    \/ about = "pulls" /\ PullsNext
       /\ UNCHANGED <<about, GTvars, MCvars, FGvars, EDTvars, FBvars, FDvars, DKvars, CUvars, TLvars, SCvars, TBvars>>
    \/ about = "mcp" /\ McpNext
       /\ UNCHANGED <<about, GTvars, PRvars, FGvars, EDTvars, FBvars, FDvars, DKvars, CUvars, TLvars, SCvars, TBvars>>
    \/ about = "forges" /\ ForgesNext
       /\ UNCHANGED <<about, GTvars, PRvars, MCvars, EDTvars, FBvars, FDvars, DKvars, CUvars, TLvars, SCvars, TBvars>>
    \/ about = "editor" /\ EDT!EditorNext
       /\ UNCHANGED <<about, GTvars, PRvars, MCvars, FGvars, FBvars, FDvars, DKvars, CUvars, TLvars, SCvars, TBvars>>
    \/ about = "files" /\ FB!FilesNext
       /\ UNCHANGED <<about, GTvars, PRvars, MCvars, FGvars, EDTvars, FDvars, DKvars, CUvars, TLvars, SCvars, TBvars>>
    \/ about = "find" /\ FindNext
       /\ UNCHANGED <<about, GTvars, PRvars, MCvars, FGvars, EDTvars, FBvars, DKvars, CUvars, TLvars, SCvars, TBvars>>
    \/ about = "asks" /\ DK!DkNext
       /\ UNCHANGED <<about, GTvars, PRvars, MCvars, FGvars, EDTvars, FBvars, FDvars, CUvars, TLvars, SCvars, TBvars>>
    \/ about = "cues" /\ CU!CuesNext
       /\ UNCHANGED <<about, GTvars, PRvars, MCvars, FGvars, EDTvars, FBvars, FDvars, DKvars, TLvars, SCvars, TBvars>>
    \/ about = "tools" /\ TL!ToolsNext
       /\ UNCHANGED <<about, GTvars, PRvars, MCvars, FGvars, EDTvars, FBvars, FDvars, DKvars, CUvars, SCvars, TBvars>>
    \/ about = "spec" /\ SpecNext
       /\ UNCHANGED <<about, GTvars, PRvars, MCvars, FGvars, EDTvars, FBvars, FDvars, DKvars, CUvars, TLvars, TBvars>>
    \/ about = "tabs" /\ TB!TabsNext
       /\ UNCHANGED <<about, GTvars, PRvars, MCvars, FGvars, EDTvars, FBvars, FDvars, DKvars, CUvars, TLvars, SCvars>>

Spec == Init /\ [][Next]_<<about, GTvars, PRvars, MCvars, FGvars, EDTvars, FBvars, FDvars, DKvars, CUvars, TLvars, SCvars, TBvars>>

-----------------------------------------------------------------------------
\* What the reader typed stays in its buffer until they discard it, whatever is loaded,
\* refreshed, adopted from disk, saved, refused, resolved, diffed or shown meanwhile; but for
\* a conflict resolved over text typed since it was last parsed and a first read that comes
\* after a diff against git has loaded the buffer, and as long as the text area the files
\* share holds the text of the file it is shown for.
EditsKept == [][about = "editor" => EDT!KeepsEdits]_<<about, EDTvars>>

\* Once nothing is out, the file list shows what is in the folder its tab is at; folders
\* changed without the page being told and failed reads are the exceptions.
ListedIsThere == about = "files" => FB!ListedIsThere

\* Once the stream is quiet and no answer is out, the questions the page shows are the ones
\* the server waits for, and what it dropped without a word from a turn or a run still going;
\* none is ever shown twice.
AsksMatch == about = "asks" => DK!AsksMatch

\* A finished turn is told exactly when all its chat started is over, every dot and count
\* says what the page holds, no banner outlives its question, and a switch that is off leaves
\* no subscription.
CuesAreTrue == about = "cues" => CU!CuesAreTrue /\ CU!OffIsOff

\* What a row newly has to say is counted until it is looked at, and once looked at is not
\* counted again by the same word.
NotSwallowed == [][about = "cues" => CU!NotSwallowed]_<<about, CUvars>>

\* Once all is answered the list is the engine's, no control is left to cancel a job that is
\* over, and whoever waits for an install hears its lines once, in order, and how it ended,
\* but for the frames a lost stream took.
ToolsAreTold == about = "tools" => TL!ToolsAreTold

\* An open tab the server held at the version the strip reflects is on it, unless a close of
\* this device still hides it, and while a drop of this device is unanswered the strip keeps
\* the order it showed.
StripHolds == about = "tabs" => TB!KeepsTabs /\ TB!HoldsDrop

\* What a tab keeps on this device is torn down only when its close is part of the version
\* the strip reflects, or was answered as done.
TearsDownClosed == [][about = "tabs" => TB!TearsDown]_<<about, TBvars>>
=============================================================================
