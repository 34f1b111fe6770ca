---------------------------- MODULE MCClientChat ----------------------------
(***************************************************************************)
(* The parts of the chat pane that do not share state, each explored on an *)
(* instance of its own: the composer and the steer dock, a live run, the   *)
(* bodies of the transcript and its tool cards, the reader's place and the *)
(* turn rail. A behaviour is of one part, picked at the start; the others' *)
(* variables stay out of it.                                               *)
(***************************************************************************)
EXTENDS Integers, Sequences, ClientComposer, ClientSteers, ClientRuns, ClientReader, ClientRail

VARIABLES
    about,  \* the part this behaviour is of
    bd, bdheld, bdopen, bdleft,
    cd, cw, cdleft

\* The variables of the parts a behaviour is not about, where a part has none to rest in.
Absent == "absent"

-----------------------------------------------------------------------------
(* The composer of two chats. *)

Calm == [types |-> 0, recalls |-> 0, sends |-> 0, attaches |-> 0, switches |-> 0, closes |-> 0,
         edits |-> 0, losses |-> 0, remotes |-> 0, deletes |-> 0, fails |-> 0, past |-> FALSE]

(* Drafts of two chats, moved between, and another device's. *)
Drafting == [Calm EXCEPT !.types = 2, !.switches = 2, !.remotes = 1, !.losses = 1]

(* A refused edit over drafts of two chats. *)
Editing == [Calm EXCEPT !.types = 1, !.switches = 2, !.edits = 1]

(* A prompt that fails, its retry, and the chat left or closed meanwhile. *)
Retrying == [Calm EXCEPT !.types = 2, !.sends = 2, !.fails = 1]

(* Files taken by a send and handed back, over a close or a deletion. *)
Attaching == [Calm EXCEPT !.types = 1, !.sends = 1, !.attaches = 1, !.fails = 1, !.closes = 1]
Deleting == [Calm EXCEPT !.types = 1, !.sends = 1, !.fails = 1, !.deletes = 1, !.switches = 1]

(* A failed prompt handed back to one chat while the other's text is due, and a past prompt looked at. *)
Handing == [Calm EXCEPT !.types = 2, !.sends = 1, !.recalls = 2, !.switches = 1, !.fails = 1, !.past = TRUE]

DraftScenarios == {Drafting, Editing, Retrying, Attaching, Deleting, Handing}

CMvars == <<cp, cpsrv, cpnet, cpuse, cpleft>>

\* It rests in the behaviours of the others.
CMInit == ComposerInit /\ (about # "composer" => cpleft = (CHOOSE left \in ComposerScenarios : TRUE) /\ cp.live = (CHOOSE ch \in Chats : TRUE))

-----------------------------------------------------------------------------
(* The steer dock. *)

Still == [sends |-> 0, clears |-> 0, removes |-> 0, reads |-> 0, others |-> 0, compacts |-> 0,
          ends |-> 0, breaks |-> 0, fails |-> 0]

(* Rows deleted one by one while the agent reads the rest as a batch. *)
Deleted == [Still EXCEPT !.sends = 2, !.others = 1, !.removes = 1, !.reads = 2]

(* A discard that may fail, with rows arriving and read meanwhile. *)
Discarded == [Still EXCEPT !.sends = 2, !.others = 1, !.clears = 1, !.reads = 1, !.fails = 1]

(* A turn that ends, a compaction and a reconnect over waiting rows. *)
Ended == [Still EXCEPT !.sends = 2, !.removes = 1, !.reads = 1, !.compacts = 1, !.ends = 1, !.breaks = 1]

DockScenarios == {Deleted, Discarded, Ended}

SDvars == <<sd, sdsrv, sdnet, sdleft>>

\* It rests in the behaviours of the others.
SDInit == SteersInit /\ (about # "steers" => sdleft = CHOOSE left \in SteerScenarios : TRUE)

-----------------------------------------------------------------------------
(* A live run of two leaves. *)

Resting == [moves |-> 0, shapes |-> 0, parks |-> 0, ends |-> 0, writes |-> 0, breaks |-> 0,
            fails |-> 0, gones |-> 0, steps |-> 0, shows |-> 0, cards |-> 0]

(* Progress against reads, over an outage. *)
Progressing == [Resting EXCEPT !.moves = 2, !.shapes = 1, !.breaks = 1]

(* Reads that fail, up to the end of the ladder. *)
Failing == [Resting EXCEPT !.fails = 3, !.gones = 1, !.breaks = 1, !.moves = 1]

(* A run parked and resumed, shown, hidden and forgotten, and its end. *)
Parking == [Resting EXCEPT !.parks = 1, !.ends = 1, !.shows = 1, !.cards = 1]

(* A run that ends during an outage, or is parked over one. *)
Lapsing == [Resting EXCEPT !.parks = 1, !.ends = 1, !.breaks = 1]

(* The step's turn, by frames and ranges over an outage, and by step reads. *)
Writing == [Resting EXCEPT !.writes = 3, !.breaks = 1]
Stepping == [Resting EXCEPT !.writes = 2, !.shows = 1, !.steps = 1]

(* A step read that fails, and the verbs of a run that ends unseen. *)
Ending == [Resting EXCEPT !.writes = 1, !.ends = 1, !.shows = 1, !.steps = 2, !.fails = 1]

LiveRunScenarios == {Progressing, Failing, Parking, Lapsing, Writing, Stepping, Ending}

RNvars == <<rn, rnsrv, rnnet, rnleft>>

\* It rests in the behaviours of the others.
RNInit == RunsInit /\ (about # "runs" => rnleft = (CHOOSE left \in RunScenarios : TRUE) /\ rn.held = Nil)

-----------------------------------------------------------------------------
(* A transcript up to four lines high in a box of one or two. *)

RDvars == <<rd, rdparked, rdleft>>

\* It rests in its first state in the behaviours of the others.
RDInit == ReaderInit

-----------------------------------------------------------------------------
(* The rail of two chats. *)

RLvars == <<rl, rlchat, rljumps, rlreads, rlleft>>

\* It rests in its first state in the behaviours of the others.
RLInit == RailInit

-----------------------------------------------------------------------------
(* Transcript bodies. *)

E(kind) == [k |-> kind, lane |-> 0, run |-> 0, sub |-> 0, pipe |-> 0, of |-> 0, declared |-> 0]
Tool(run) == [E("tool") EXCEPT !.run = run]
Result(of, run) == [E("result") EXCEPT !.of = of, !.run = run]
Driver(p, n) == [E("driver") EXCEPT !.pipe = p, !.declared = n]
Stage(p, b) == [E("delegate") EXCEPT !.pipe = p, !.sub = b]
InLane(b, kind) == [E(kind) EXCEPT !.lane = b]

(* Prose around the tools of a turn. *)
Prose == << <<E("text"), E("text"), Tool(0), Result(3, 0), Tool(0), E("text")>> >>

(* Rows of every kind, and a plan whose state is revised. *)
Plan == << <<E("plan"), Tool(0), E("event"), E("thinking"), E("plan"), E("steer"), E("event"), E("thinking")>> >>

(* A tool call that turns out to have launched a run, in the middle of a run of tool calls. *)
Launch == << <<Tool(0), Tool(0), Tool(0), Result(2, 1), Tool(0), Tool(0)>> >>

(* A run of tool calls that no window holds whole, and thoughts after it. *)
Thoughts == << <<Tool(0), Tool(0), Tool(0), Tool(0), E("thinking"), E("text"), E("thinking")>> >>

(* A pipeline of two stages, and one of a single stage that never starts. *)
Pipeline == << <<Driver(1, 2), Stage(1, 1), InLane(1, "text"), E("event"), E("ack"), Stage(1, 2), E("todo")>> >>
Single == << <<E("text"), Driver(1, 1), E("event"), Result(2, 0), Tool(0), E("close")>> >>

(* A run two turns speak of, the older one loaded last. *)
Older == << <<Tool(1), E("text"), E("close")>>, <<E("text"), Tool(1), E("event"), Tool(0)>> >>

Scripts == {Prose, Plan, Launch, Thoughts, Pipeline, Single, Older}
Writes == {"text", "thinking"}
Budgets == {[scrolls |-> 2, parks |-> 0], [scrolls |-> 1, parks |-> 1]}

BD == INSTANCE ClientBody WITH BodyScripts <- Scripts, BodyWrites <- Writes, BodyBudgets <- Budgets

BDvars == <<bd, bdheld, bdopen, bdleft>>

BDInit ==
    IF about = "body" THEN BD!BodyInit
    ELSE bd = Absent /\ bdheld = Absent /\ bdopen = Absent /\ bdleft = Absent

-----------------------------------------------------------------------------
(* Tool cards: a command that prints, a call that does not, a large one, an edit. *)

Uncalled ==
    [plan |-> <<>>, past |-> <<>>, printed |-> 0, room |-> 2, ends |-> {"done"}, exitsFirst |-> TRUE,
     reads |-> {"page"}, prints |-> 0, posts |-> 0, closes |-> 0, breaks |-> 0, waits |-> 0, fails |-> 0,
     clicks |-> 0, scrolls |-> 0, parks |-> 0]

Command == [term |-> TRUE, early |-> FALSE, wide |-> FALSE, input |-> TRUE, diff |-> FALSE]
Silent == [Command EXCEPT !.term = FALSE, !.input = FALSE]
Wide == [Silent EXCEPT !.wide = TRUE, !.input = TRUE]
WideEdit == [Wide EXCEPT !.diff = TRUE]

(* A turn that is over, opened card by card; one that runs; one left and come back to; one over an outage. *)
CardScripts ==
 {[Uncalled EXCEPT !.plan = <<Wide, WideEdit, Wide>>, !.past = <<"done", "done", "failed">>, !.printed = 2,
                   !.clicks = 3, !.scrolls = 2, !.fails = 1],
  [Uncalled EXCEPT !.plan = <<Silent>>, !.past = <<"done">>, !.printed = 2, !.clicks = 1, !.parks = 1],
  [Uncalled EXCEPT !.plan = <<Command, Silent>>, !.ends = {"done", "failed"}, !.prints = 2, !.posts = 1, !.clicks = 1],
  [Uncalled EXCEPT !.plan = <<Command>>, !.prints = 3, !.closes = 1, !.parks = 1, !.clicks = 1, !.waits = 1],
  [Uncalled EXCEPT !.plan = <<Command>>, !.prints = 3, !.breaks = 1, !.reads = {"page", "range"}, !.closes = 1,
                   !.exitsFirst = FALSE]}

CD == INSTANCE ClientCards WITH MaxHeld <- 1, HeldTerminals <- 1, MaxParked <- 1, LiveCap <- 2, PreviewParts <- 1, MaxRetained <- 3, CardScenarios <- CardScripts

CDvars == <<cd, cw, cdleft>>

CDInit ==
    IF about = "cards" THEN CD!CardsInit
    ELSE cd = Absent /\ cw = Absent /\ cdleft = Absent

-----------------------------------------------------------------------------
Init ==
    /\ about \in {"composer", "steers", "runs", "reader", "rail", "body", "cards"}
    /\ CMInit /\ SDInit /\ RNInit /\ RDInit
    /\ RLInit /\ BDInit /\ CDInit

Next ==
    \/ about = "composer" /\ ComposerNext
       /\ UNCHANGED <<about, SDvars, RNvars, RDvars, RLvars, BDvars, CDvars>>
    \/ about = "steers" /\ SteersNext
       /\ UNCHANGED <<about, CMvars, RNvars, RDvars, RLvars, BDvars, CDvars>>
    \/ about = "runs" /\ RunsNext
       /\ UNCHANGED <<about, CMvars, SDvars, RDvars, RLvars, BDvars, CDvars>>
    \/ about = "reader" /\ ReaderNext
       /\ UNCHANGED <<about, CMvars, SDvars, RNvars, RLvars, BDvars, CDvars>>
    \/ about = "rail" /\ RailNext
       /\ UNCHANGED <<about, CMvars, SDvars, RNvars, RDvars, BDvars, CDvars>>
    \/ about = "body" /\ BD!BodyNext
       /\ UNCHANGED <<about, CMvars, SDvars, RNvars, RDvars, RLvars, CDvars>>
    \/ about = "cards" /\ CD!CardsNext
       /\ UNCHANGED <<about, CMvars, SDvars, RNvars, RDvars, RLvars, BDvars>>

Spec == Init /\ [][Next]_<<about, CMvars, SDvars, RNvars, RDvars, RLvars, BDvars, CDvars>>

-----------------------------------------------------------------------------
\* A body that was mounted, moved and dropped piece by piece shows what a body built at once
\* over the same window shows, in the same order; or just the same things, nothing twice,
\* once it has strayed: something written while its end was out of the window, a pipeline's
\* box whose driver was, or an entry told to launch, or to launch no more, after it was drawn
\* (DrawnAsBuilt says what is left out then); every card of a run is in one body, and that
\* body's; once no build is out and no move is held back, what is mounted is what the plan of
\* the chat wants, no less and no more.
BodyHolds == about = "body" => BD!DrawnAsBuilt /\ BD!OneHost /\ BD!WantedIsMounted

\* A card says no part of an output twice or out of order, but for a call whose chunks a read
\* overtook and a card that was mounted with its output and written over before it was first
\* opened; once told how its call ended it shows what it was told or all there is, and one
\* preview of an edit; its box wears the worst of its cards and folds itself over no failure,
\* but for one mounted into a box already folded; what is kept of fetched outputs is bounded.
CardsHold == about = "cards" => CD!CardsHold

\* A card opened over a preview shows the whole once nothing is out for it, unless its fetch
\* failed.
PreviewFilled == about = "cards" => CD!PreviewFilled
=============================================================================
