----------------------------- MODULE ClientRail -----------------------------
(***************************************************************************)
(* The turn rail beside the transcript (static-src/turn-rail.ts with       *)
(* rail-merge.ts and rail-activation.ts): the chat's turn index, fetched   *)
(* and kept per chat; the markers drawn from it and from the resident      *)
(* turns; the marker the reader picked against the one the offset names;   *)
(* and the jumps, each an asynchronous walk (page the turn in, build its   *)
(* body, scroll, correct) that a later click or a chat switch supersedes.  *)
(***************************************************************************)
EXTENDS Integers, FiniteSets, FiniteSetsExt

CONSTANTS
    RailChats,      \* 1 and the others
    MaxTurns,   \* the bound on a chat's turns
    MaxActs     \* the bound on what happens: clicks, switches and other loads of the index,
                \* turns and rewinds, resizes, resets, broken streams

VARIABLES
    rl,       \* the rail's own state and what it has drawn
    rlchat,   \* per chat: the server's turns, the store's count and its window
    rljumps,  \* the navigateToTurn calls under way
    rlreads,  \* the index requests under way
    rlleft    \* how many more of the MaxActs may come

rlvars == <<rl, rlchat, rljumps, rlreads, rlleft>>

None == 0

NoneShown == 0

NoRecord == [turns |-> {}, at |-> -1]

-----------------------------------------------------------------------------
(* What the rail knows. *)

\* The turns the store holds of a chat: the window's, numbered up to its count.
Resident(c) == IF c = NoneShown THEN {} ELSE rlchat[c].first .. rlchat[c].count

\* mergeTurnSets: the resident turns over the index.
MergeTurnSets(resident, indexed) == indexed \cup resident

\* The merged set replaces the markers' turns; a pick it no longer names is dropped.
SetTurns(r) ==
    LET all == MergeTurnSets(Resident(r.chatID), r.indexed)
    IN  [r EXCEPT !.summaries = all,
                  !.selected = IF @ \in all THEN @ ELSE None]

\* The marked turn: the pick, else the offset's, else the last one that resolved.
MarkedN(r) ==
    LET id == IF r.selected # None THEN r.selected ELSE r.active
    IN  IF id \in r.summaries THEN id ELSE r.held

\* markerSlotFor: the last marker at or before the turn, else the first one.
MarkerSlotFor(shown, n) ==
    LET upTo == {i \in shown : i <= n}
    IN  IF n = None \/ shown = {} THEN None ELSE IF upTo = {} THEN Min(shown) ELSE Max(upTo)

Render(r) ==
    IF r.summaries = {} \/ ~r.tall THEN [r EXCEPT !.drawn = {}, !.marked = None, !.busy = {}]
    ELSE [r EXCEPT !.held = MarkedN(r), !.drawn = r.summaries,
                   !.marked = MarkerSlotFor(r.summaries, MarkedN(r)),
                   !.busy = r.pending \cap r.summaries]

Repick(r) == [r EXCEPT !.pickFrame = TRUE]

RecordCurrent(c) == rl.records[c].at # -1 /\ rl.records[c].at = rlchat[c].count

Happens == rlleft > 0 /\ rlleft' = rlleft - 1

-----------------------------------------------------------------------------
(* The click's intent and the jump's generation. *)

HoldIntent(r) == [r EXCEPT !.intent = TRUE]

ReleaseIntent(r) == [r EXCEPT !.intent = FALSE]

(* A mutant of InvalidateJumps: the jumps of the chat left behind go on. *)
KeepJumps(r) == r

InvalidateJumps(r) == [r EXCEPT !.gen = @ + 1]

OwnsJump(j) == j.gen = rl.gen

-----------------------------------------------------------------------------
(* Pointing, loading and refreshing. *)

Pointed(r, c) ==
    IF c = r.chatID THEN r
    ELSE LET away == InvalidateJumps(ReleaseIntent([r EXCEPT !.selected = None, !.pending = {}]))
         IN  Render(SetTurns([away EXCEPT !.chatID = c, !.indexed = r.records[c].turns,
                                          !.active = None, !.held = None, !.cards = {},
                                          !.asked = None]))

\* The request of refreshTurnRail carries the turn count read before it goes out.
IndexAsk(c) == [chat |-> c, at |-> rlchat[c].count, got |-> FALSE, turns |-> {}]

AskIndex(c) == rlreads' = rlreads \cup {IndexAsk(c)}

\* The reader shows a chat: its rail is pointed, and asked for unless the record is current.
LoadTurnRail(c, force) ==
    /\ Happens
    /\ rl' = Pointed(rl, c)
    /\ IF ~force /\ RecordCurrent(c) THEN UNCHANGED rlreads ELSE AskIndex(c)
    /\ UNCHANGED <<rlchat, rljumps>>

\* A settled turn refreshes the index of its chat, shown or not.
RefreshTurnRail(c) ==
    /\ Happens
    /\ AskIndex(c)
    /\ UNCHANGED <<rl, rlchat, rljumps>>

\* The server reads its log for the request.
IndexRead(q) ==
    /\ ~q.got
    /\ rlreads' = (rlreads \ {q}) \cup {[q EXCEPT !.got = TRUE, !.turns = 1..rlchat[q.chat].server]}
    /\ UNCHANGED <<rl, rlchat, rljumps, rlleft>>

Recorded(q) == [turns |-> q.turns, at |-> q.at]

IndexAnswered(q) ==
    /\ q.got
    /\ LET kept == [rl EXCEPT !.records[q.chat] = Recorded(q)]
       IN  rl' = IF q.chat # rl.chatID THEN kept
                 ELSE Repick(Render(SetTurns([kept EXCEPT !.indexed = q.turns])))
    /\ rlreads' = rlreads \ {q}
    /\ UNCHANGED <<rlchat, rljumps, rlleft>>

\* No answer, or an error: the rail keeps what it has.
IndexFailed(q) ==
    /\ rlreads' = rlreads \ {q}
    /\ UNCHANGED <<rl, rlchat, rljumps, rlleft>>

\* The stream was broken: no record is trusted.
InvalidateTurnRails ==
    /\ Happens
    /\ rl' = [rl EXCEPT !.records = [c \in RailChats |-> NoRecord]]
    /\ UNCHANGED <<rlchat, rljumps, rlreads>>

ResetTurnRail ==
    /\ Happens
    /\ rl.chatID # NoneShown
    /\ rl' = Render(InvalidateJumps([rl EXCEPT
                !.chatID = NoneShown, !.records = [c \in RailChats |-> NoRecord], !.indexed = {},
                !.summaries = {}, !.active = None, !.held = None, !.selected = None,
                !.pending = {}, !.cards = {}, !.intent = FALSE, !.pickFrame = FALSE,
                !.asked = None]))
    /\ UNCHANGED <<rlchat, rljumps, rlreads>>

-----------------------------------------------------------------------------
(* The paint, the frames and the reader's gestures. *)

\* A paint hands over the resident cards of the chat shown.
SetResidentTurns ==
    /\ rl.chatID # NoneShown
    /\ rl' = Repick(Render(SetTurns([rl EXCEPT !.cards = Resident(rl.chatID)])))
    /\ UNCHANGED <<rlchat, rljumps, rlreads, rlleft>>

\* The rail or the transcript changed its size: it may start or stop being navigable.
RailResized ==
    /\ Happens
    /\ \E tall \in BOOLEAN : rl' = Repick(Render([rl EXCEPT !.tall = tall]))
    /\ UNCHANGED <<rlchat, rljumps, rlreads>>

\* The frame that reads which card is at the reading line: any of them, by the offset.
PickActive ==
    /\ rl.pickFrame
    /\ LET off == [rl EXCEPT !.pickFrame = FALSE]
       IN  rl' \in IF rl.intent \/ rl.cards = {} THEN {off}
                   ELSE {IF n = rl.active THEN off ELSE Render([off EXCEPT !.active = n])
                            : n \in rl.cards}
    /\ UNCHANGED <<rlchat, rljumps, rlreads, rlleft>>

ClearSelection ==
    /\ rl' = LET off == ReleaseIntent(rl)
             IN  Repick(IF rl.selected = None THEN off ELSE Render([off EXCEPT !.selected = None]))
    /\ UNCHANGED <<rlchat, rljumps, rlreads, rlleft>>

\* PICK_BUDGET_MS after the click.
IntentExpires ==
    /\ rl.intent
    /\ rl' = ReleaseIntent(rl)
    /\ UNCHANGED <<rlchat, rljumps, rlreads, rlleft>>

-----------------------------------------------------------------------------
(* A jump: navigateToTurn from the click to its finally. *)

DropJump(j) == rljumps' = rljumps \ {j}

At(j, stage) == rljumps' = (rljumps \ {j}) \cup {[j EXCEPT !.stage = stage]}

\* The finally: the mark is taken back by its own jump, the scroll and the pick by the owner.
JumpEnded(r, j) ==
    LET off == [r EXCEPT !.pending = @ \ {j.turn}]
    IN  IF OwnsJump(j) THEN Repick(Render(ReleaseIntent(off))) ELSE off

EndJump(j) == DropJump(j) /\ rl' = JumpEnded(rl, j)

\* A click picks the marker at once and starts a jump, unless one is paging this turn in.
Click ==
    /\ Happens
    /\ \E n \in rl.drawn :
         LET picked == Render(HoldIntent([rl EXCEPT !.selected = n]))
             gone == n \notin rl.cards
             begun == [picked EXCEPT !.gen = @ + 1, !.asked = n,
                                     !.pending = IF gone THEN @ \cup {n} ELSE @]
         IN  IF n \in rl.pending THEN rl' = picked /\ UNCHANGED rljumps
             ELSE /\ rl' = IF gone THEN Render(begun) ELSE begun
                  /\ rljumps' = rljumps \cup {[turn |-> n, gen |-> rl.gen + 1, chat |-> rl.chatID,
                                           stage |-> IF gone THEN "paging" ELSE "building"]}
    /\ UNCHANGED <<rlchat, rlreads>>

\* loadUntilResident: resident, or nothing older, or one more page, or another chat by now.
PageIn(j) ==
    /\ j.stage = "paging"
    /\ UNCHANGED <<rlreads, rlleft>>
    /\ IF j.turn \in Resident(rl.chatID)
       THEN At(j, "paged") /\ UNCHANGED <<rl, rlchat>>
       ELSE IF rl.chatID = NoneShown \/ rlchat[rl.chatID].first = 1
       THEN EndJump(j) /\ UNCHANGED rlchat
       ELSE \/ /\ rlchat' = [rlchat EXCEPT ![rl.chatID].first = @ - 1]
               /\ UNCHANGED <<rl, rljumps>>
            \/ EndJump(j) /\ UNCHANGED rlchat    \* the page failed, or PAGE_BUDGET_MS are spent

Goes(j, stage) ==
    /\ UNCHANGED <<rlchat, rlreads, rlleft>>
    /\ IF OwnsJump(j) THEN At(j, stage) /\ UNCHANGED rl ELSE EndJump(j)

BuildBody(j) == j.stage = "paged" /\ Goes(j, "building")

BodyBuilt(j) == j.stage = "building" /\ Goes(j, "frame")

\* After the frame: the card's top is scrolled to the reading line, if it is drawn.
Land(j) ==
    /\ j.stage = "frame"
    /\ UNCHANGED <<rlchat, rlreads, rlleft>>
    /\ IF OwnsJump(j) /\ j.turn \in rl.cards
       THEN At(j, "settling") /\ rl' = [rl EXCEPT !.landed = [chat |-> rl.chatID, turn |-> j.turn]]
       ELSE EndJump(j)

\* scrollend or PICK_SETTLE_MS: on the line, gone, or scrolled once more.
CorrectLanding(j) ==
    /\ j.stage = "settling"
    /\ UNCHANGED <<rlchat, rlreads, rlleft>>
    /\ \/ EndJump(j)
       \/ /\ OwnsJump(j) /\ j.turn \in rl.cards
          /\ rl' = [rl EXCEPT !.landed = [chat |-> rl.chatID, turn |-> j.turn]]
          /\ UNCHANGED rljumps

-----------------------------------------------------------------------------
(* The chats themselves. *)

\* A turn opens, or a rewind takes the last one back, on the server.
ServerTurn(c) ==
    /\ Happens
    /\ \E n \in 1..MaxTurns :
         /\ n \in {rlchat[c].server - 1, rlchat[c].server + 1}
         /\ rlchat' = [rlchat EXCEPT ![c].server = n, ![c].rewound = @ \/ n < rlchat[c].server]
    /\ UNCHANGED <<rl, rljumps, rlreads>>

\* The store hears of it: its count and its window follow.
StoreHears(c) ==
    /\ rlchat[c].count # rlchat[c].server
    /\ rlchat' = [rlchat EXCEPT ![c].count = rlchat[c].server,
                            ![c].first = IF @ > rlchat[c].server THEN rlchat[c].server ELSE @]
    /\ UNCHANGED <<rl, rljumps, rlreads, rlleft>>

\* A chat not shown is reduced to its newest turn.
Evicted(c) ==
    /\ c # rl.chatID /\ rlchat[c].first # rlchat[c].count
    /\ rlchat' = [rlchat EXCEPT ![c].first = rlchat[c].count]
    /\ UNCHANGED <<rl, rljumps, rlreads, rlleft>>

-----------------------------------------------------------------------------

\* The rail already points at a chat and has drawn its one resident turn.
RailInit ==
    /\ rl = [chatID |-> 1, indexed |-> {}, summaries |-> {MaxTurns - 1}, active |-> None, held |-> None,
             selected |-> None, pending |-> {}, records |-> [c \in RailChats |-> NoRecord],
             cards |-> {}, tall |-> TRUE, gen |-> 0, intent |-> FALSE, pickFrame |-> FALSE,
             drawn |-> {MaxTurns - 1}, marked |-> None, busy |-> {}, asked |-> None,
             landed |-> [chat |-> NoneShown, turn |-> None]]
    /\ rlchat = [c \in RailChats |-> [server |-> MaxTurns - 1, count |-> MaxTurns - 1,
                             first |-> MaxTurns - 1, rewound |-> FALSE]]
    /\ rljumps = {} /\ rlreads = {} /\ rlleft = MaxActs

RailNext ==
    \/ \E c \in RailChats, force \in BOOLEAN : LoadTurnRail(c, force)
    \/ \E c \in RailChats : RefreshTurnRail(c) \/ ServerTurn(c) \/ StoreHears(c) \/ Evicted(c)
    \/ \E q \in rlreads : IndexRead(q) \/ IndexAnswered(q) \/ IndexFailed(q)
    \/ InvalidateTurnRails \/ ResetTurnRail \/ SetResidentTurns \/ RailResized \/ PickActive
    \/ ClearSelection \/ IntentExpires \/ Click
    \/ \E j \in rljumps : PageIn(j) \/ BuildBody(j) \/ BodyBuilt(j) \/ Land(j) \/ CorrectLanding(j)

RailSpec == RailInit /\ [][RailNext]_rlvars

-----------------------------------------------------------------------------
\* A jump moves the scroller to the turn of the last jump the rail accepted, in its own chat.
LandsWhereAsked ==
    \A j \in rljumps :
        (Land(j) \/ CorrectLanding(j)) /\ rl'.landed # rl.landed =>
            rl'.landed = [chat |-> j.chat, turn |-> rl.asked]

(* The scroller is moved only to the turn of the last jump the rail accepted, in the chat   *)
(* that jump was asked in: a jump superseded by another click, or left behind by a chat     *)
(* switch while its page, its body or its frame was awaited, never scrolls again.           *)
LandsAsAsked == [][LandsWhereAsked]_rlvars

=============================================================================
