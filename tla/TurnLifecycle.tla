--------------------------- MODULE TurnLifecycle ---------------------------
(***************************************************************************)
(* The turn lifecycle of ONE chat: internal/agent's chatLifecycle (slots   *)
(* own and pending, the state that gates its doors, the admission          *)
(* reservation, the completion handles), the entry log's turn_open and     *)
(* turn_close, and every goroutine that drives it:                         *)
(*                                                                         *)
(*   Drivers   the prompt goroutines (command/prompt.go), each one running *)
(*             prompt after prompt, with the empty-turn recovery;          *)
(*   Shells    the `!cmd` handlers (command/shell.go);                     *)
(*   Folders   one forward loop per bridge, numbered by its forward        *)
(*             generation, consuming the frames of that bridge in order;   *)
(*   Openers   the calls that open the chat's bridge with no admission    *)
(*             (a fork, a rewind, a rehosted run);                         *)
(*   Retirers  identity changes retiring the chat's bridge (RetireBridges).*)
(*                                                                         *)
(* Every action is one critical section of chatLifecycle.mu (or of the     *)
(* bridge manager's), so the goroutines interleave wherever the code lets  *)
(* the mutex go.  A turn is named by its open sequence Seq.                *)
(***************************************************************************)
EXTENDS Integers, Sequences

CONSTANTS
    Drivers, Shells, Openers, Retirers,  \* the goroutines of this instance
    Frames,                              \* the frame kinds the agent sends
    MaxTurns,                            \* bound: turns opened on the chat
    MaxGens,                             \* bound: bridges spawned for the chat
    MaxFrames                            \* bound: frames read from one bridge

FrameKinds == {"content", "agentContent", "turnStart", "turnEnd", "other"}

Folders == 1..MaxGens
TurnIds == 1..MaxTurns
Callers == Drivers \cup Shells
Spawners == Drivers \cup Openers
Threads == Callers \cup Openers \cup Retirers \cup Folders

ASSUME BoundsAssumption ==
    /\ MaxTurns \in Nat
    /\ MaxGens \in Nat
    /\ MaxFrames \in Nat
    /\ Frames \subseteq FrameKinds

ASSUME ThreadsAssumption ==
    /\ Drivers \cap Shells = {}
    /\ Callers \cap (Openers \cup Retirers) = {}
    /\ Openers \cap Retirers = {}
    /\ (Callers \cup Openers \cup Retirers) \cap Folders = {}

NoTurn   == 0
NoBridge == 0

\* marotte.TurnOpenSource.  PromptClass answers PromptClass() and
\* Acknowledgeable(), which agree: a turn the agent owes a turn_start bracket.
Sources     == {"prompt", "local_shell", "wire_turn_start", "empty_retry"}
PromptClass == {"prompt", "empty_retry"}
Free        == "free"            \* the admission slot held by nobody

Closers == {"promptResponse", "promptFailure", "localShell",
            "bridgeDeath", "wireEnd", "bracketLost"}
Running  == "running"            \* no closer has published the turn's result
NoCloser == "none"               \* the goroutine is not inside finalizeTurn

\* Where a goroutine is, between two critical sections.
CallerLabels == {"idle", "open", "spawn", "starting", "opened", "retired", "acquire",
                 "start", "call", "settle", "parked", "await", "drop", "unslot",
                 "unreserve", "close", "gate", "rereserve", "sweepAll", "sweep",
                 "release"}
\* What a caller still does once its reservation is back.
Continuations == {"close", "gate", "release"}
FolderLabels == {"detached", "run", "fold", "openWire", "rebind", "observe",
                 "unregister", "sweepAll", "sweep", "gone"}
Labels == CallerLabels \cup FolderLabels

VARIABLES
    \* chatLifecycle
    own, pending, state, nextSeq, reserved, retained,
    \* Turn, one field per function on TurnIds
    source, acked, finalizing, holds,
    closedBy,      \* the closer whose result finish published, or Running
    \* the entry log
    closes,        \* how many turn_close entries the log holds for the turn
    \* the read-loop position
    fwdGen, observedSeq, forwardGone,
    \* the bridge manager's entry for the chat, and each bridge's prompt slot
    bridge, slot,
    retire,        \* the bridges marked to be replaced at their next open
    \* each bridge's frame stream: unread frames, frames consumed, still open
    queue, consumed, up,
    \* the goroutines: where each one is, the finalizeTurn it is inside of,
    \* and the turns a death closer still has to close
    pc, phase, target, closer, todo,
    \* a prompt's or a shell's own locals
    turnOf, handles, carrier, need, needGen, dead, retrying, then

slots      == <<own, pending, state, nextSeq>>
records    == <<source, acked>>
claims     == <<finalizing, closedBy, closes>>
holders    == <<holds, retained>>
position   == <<fwdGen, observedSeq, forwardGone>>
bridges    == <<bridge, slot, retire>>
streams    == <<queue, consumed, up>>
closing    == <<phase, target, closer>>
locals     == <<turnOf, handles, carrier, need, needGen, dead, retrying, then>>

registry   == <<slots, records, claims, holders>>
transport  == <<position, bridges, streams>>
vars       == <<registry, reserved, transport, pc, closing, todo, locals>>

-----------------------------------------------------------------------------
(* Helpers.                                                                *)

\* liveLocked: an open record, own or pending.
Live(t) == t # NoTurn /\ t \in {own, pending}

\* turnLocked: open or retained.
Known(t) == Live(t) \/ t \in retained

\* Mutation: a claimed turn claimed again.
ClaimableTwice(t) == Live(t)

\* A turn a closer may still claim.
Claimable(t) == Live(t) /\ ~finalizing[t]

\* foldTarget and ownTurn: own, unless a closer holds its claim.
OwnLive == own # NoTurn /\ ~finalizing[own]

\* awaitNotFinalizing: the doors wait while the chat's own turn is finalizing.
DoorOpen == state # "finalizing"

\* A goroutine at a label of its own, not inside finalizeTurn.
At(p, label) == pc[p] = label /\ phase[p] = "none"

Goto(p, label) == pc' = [pc EXCEPT ![p] = label]

\* slotFreeLocked.
SlotFree(src) == IF src \in PromptClass THEN pending = NoTurn ELSE own = NoTurn

\* openLocked, with pend the pending slot it leaves.
OpenRecord(src, pend) ==
    LET t == nextSeq + 1 IN
    /\ nextSeq < MaxTurns
    /\ nextSeq' = t
    /\ source' = [source EXCEPT ![t] = src]
    /\ own' = IF src \in PromptClass /\ own # NoTurn THEN own ELSE t
    /\ pending' = pend
    /\ state' = "open"

\* Entering finalizeTurn for the turn t.
Finalize(p, t, c) ==
    /\ phase' = [phase EXCEPT ![p] = "claim"]
    /\ target' = [target EXCEPT ![p] = t]
    /\ closer' = [closer EXCEPT ![p] = c]

\* Leaving it.
EndFinalize(p) ==
    /\ phase' = [phase EXCEPT ![p] = "none"]
    /\ target' = [target EXCEPT ![p] = NoTurn]
    /\ closer' = [closer EXCEPT ![p] = NoCloser]

\* Mutations: an empty slot listed as a turn; only a bracketed turn listed.
OpenTurnIDsUnfiltered == <<own, pending>>
OpenTurnIDsBracketed == IF own # NoTurn /\ acked[own] THEN <<own>> ELSE <<>>

\* openTurnIDs: own, then a pending turn that is not own.
OpenTurnIDs ==
    (IF own # NoTurn THEN <<own>> ELSE <<>>) \o
    (IF pending # NoTurn /\ pending # own THEN <<pending>> ELSE <<>>)

-----------------------------------------------------------------------------
Init ==
    /\ own = NoTurn /\ pending = NoTurn /\ state = "idle" /\ nextSeq = 0
    /\ reserved = Free
    /\ retained = {}
    /\ source = [t \in TurnIds |-> "prompt"]
    /\ acked = [t \in TurnIds |-> FALSE]
    /\ finalizing = [t \in TurnIds |-> FALSE]
    /\ holds = [t \in TurnIds |-> 0]
    /\ closedBy = [t \in TurnIds |-> Running]
    /\ closes = [t \in TurnIds |-> 0]
    /\ fwdGen = 0 /\ observedSeq = 0 /\ forwardGone = FALSE
    /\ bridge = NoBridge
    /\ slot = [g \in Folders |-> "starting"]
    /\ retire = {}
    /\ queue = [g \in Folders |-> <<>>]
    /\ consumed = [g \in Folders |-> 0]
    /\ up = [g \in Folders |-> FALSE]
    /\ pc = [p \in Threads |-> IF p \in Folders THEN "detached" ELSE "idle"]
    /\ phase = [p \in Threads |-> "none"]
    /\ target = [p \in Threads |-> NoTurn]
    /\ closer = [p \in Threads |-> NoCloser]
    /\ todo = [p \in Threads |-> <<>>]
    /\ turnOf = [p \in Callers |-> NoTurn]
    /\ handles = [p \in Callers |-> {}]
    /\ carrier = [p \in Callers \cup Openers |-> NoBridge]
    /\ need = [p \in Callers |-> 0]
    /\ needGen = [p \in Callers |-> 0]
    /\ dead = [p \in Callers |-> FALSE]
    /\ retrying = [p \in Callers |-> FALSE]
    /\ then = [p \in Callers |-> "release"]

-----------------------------------------------------------------------------
(* finalizeTurn: claim, effects, publish.  Whoever enters it leaves its own *)
(* pc at the label where it continues.                                     *)

\* claimTurn: id-scoped.  A claim on own moves the chat into finalizing.
ClaimTurn(p) ==
    LET t == target[p] IN
    /\ phase[p] = "claim"
    /\ DoorOpen
    /\ Claimable(t)
    /\ phase' = [phase EXCEPT ![p] = "effects"]
    /\ finalizing' = [finalizing EXCEPT ![t] = TRUE]
    /\ state' = IF own = t THEN "finalizing" ELSE state
    /\ UNCHANGED <<own, pending, nextSeq, records, closedBy, closes, holders,
                   reserved, transport, pc, target, closer, todo, locals>>

\* claimOwn: the wire's turn_end, which names no turn.
ClaimOwn(p) ==
    /\ phase[p] = "claimOwn"
    /\ DoorOpen
    /\ OwnLive
    /\ phase' = [phase EXCEPT ![p] = "effects"]
    /\ target' = [target EXCEPT ![p] = own]
    /\ finalizing' = [finalizing EXCEPT ![own] = TRUE]
    /\ state' = "finalizing"
    /\ UNCHANGED <<own, pending, nextSeq, records, closedBy, closes, holders,
                   reserved, transport, pc, closer, todo, locals>>

\* The claim is lost to another closer, or there is nothing to close; or the
\* caller's ctx died while it waited at the door (awaitNotFinalizing's false).
ClaimLost(p) ==
    /\ \/ phase[p] = "claim" /\ DoorOpen /\ ~Claimable(target[p])
       \/ phase[p] = "claimOwn" /\ DoorOpen /\ ~OwnLive
       \/ phase[p] = "claim" /\ ~DoorOpen /\ p \in Callers /\ dead[p]
    /\ EndFinalize(p)
    /\ UNCHANGED <<registry, reserved, transport, pc, todo, locals>>

\* Mutation: the effects run on the caller's ctx, and a dead one abandons them.
CloseTurnUndetached(p) ==
    /\ phase[p] = "effects"
    /\ IF p \in Callers /\ dead[p]
       THEN EndFinalize(p) /\ UNCHANGED closes
       ELSE /\ phase' = [phase EXCEPT ![p] = "publish"]
            /\ closes' = [closes EXCEPT ![target[p]] = @ + 1]
            /\ UNCHANGED <<target, closer>>
    /\ UNCHANGED <<slots, records, finalizing, closedBy, holders, reserved,
                   transport, pc, todo, locals>>

\* closeTurn: the turn_close append, under no lifecycle mutex.  A failed append
\* is logged and the record still finishes.
CloseTurn(p) ==
    /\ phase[p] = "effects"
    /\ phase' = [phase EXCEPT ![p] = "publish"]
    /\ \/ closes' = [closes EXCEPT ![target[p]] = @ + 1]
       \/ UNCHANGED closes
    /\ UNCHANGED <<slots, records, finalizing, closedBy, holders, reserved,
                   transport, pc, target, closer, todo, locals>>

\* Mutations: finish empties both slots; it leaves the pending slot alone; it never
\* leaves finalizing; it forgets a pending turn that outlives own.
ClearedAlways(s, t) == NoTurn
ClearedOwnOnly(s, t) == IF s = t /\ s = own THEN NoTurn ELSE s
StateKept(o, q) == IF o # NoTurn \/ q # NoTurn THEN "open" ELSE state
\* What finish leaves in a slot of the turn t it closed, and the chat's next state.
Cleared(s, t) == IF s = t THEN NoTurn ELSE s
StateOf(o, q) == IF o # NoTurn \/ q # NoTurn THEN "open" ELSE "idle"

\* finish: the result is published, the slots the turn held are cleared, and a
\* record somebody holds a handle on is retained.
Finish(p) ==
    LET t == target[p] IN
    /\ phase[p] = "publish"
    /\ EndFinalize(p)
    /\ closedBy' = [closedBy EXCEPT ![t] = closer[p]]
    /\ own' = Cleared(own, t) /\ pending' = Cleared(pending, t)
    /\ retained' = IF holds[t] > 0 THEN retained \cup {t} ELSE retained
    /\ state' = StateOf(own', pending')
    /\ UNCHANGED <<nextSeq, records, finalizing, closes, holds, reserved,
                   transport, pc, todo, locals>>

Finalizing(p) ==
    ClaimTurn(p) \/ ClaimOwn(p) \/ ClaimLost(p) \/ CloseTurn(p) \/ Finish(p)

-----------------------------------------------------------------------------
(* The admission slot and OpenTurn.                                        *)

\* Mutation: the slot is taken without a look at its holder.
ReserveUnchecked(p, src) == reserved' = src

\* reserveLocked reads the reservation alone.  A refused caller changes nothing.
Reserve(p, src) ==
    /\ reserved = Free
    /\ reserved' = src

\* ReserveTurnForPrompt, acquired.
ReservePrompt(d) ==
    /\ At(d, "idle") /\ d \in Drivers
    /\ Reserve(d, "prompt")
    /\ Goto(d, "open")
    /\ UNCHANGED <<registry, transport, closing, todo, locals>>

\* HandleShellInterception's TryReserveTurn.
ReserveShell(s) ==
    /\ At(s, "idle") /\ s \in Shells
    /\ Reserve(s, "local_shell")
    /\ Goto(s, "open")
    /\ UNCHANGED <<registry, transport, closing, todo, locals>>

SourceOf(p) ==
    IF p \in Shells THEN "local_shell"
    ELSE IF retrying[p] THEN "empty_retry" ELSE "prompt"

\* OpenTurn: a live ctx, the door, a free slot, the turn_open append, the record
\* and one completion handle for the caller.
OpenTurn(p) ==
    LET t == nextSeq + 1
        src == SourceOf(p) IN
    /\ At(p, "open") /\ p \in Callers
    /\ ~dead[p]
    /\ DoorOpen
    /\ SlotFree(src)
    /\ OpenRecord(src, IF src \in PromptClass THEN t ELSE pending)
    /\ holds' = [holds EXCEPT ![t] = 1]
    /\ turnOf' = [turnOf EXCEPT ![p] = t]
    /\ handles' = [handles EXCEPT ![p] = @ \cup {t}]
    /\ Goto(p, IF src = "prompt" THEN "spawn" ELSE "start")
    /\ UNCHANGED <<acked, claims, retained, reserved, transport, closing, todo,
                   carrier, need, needGen, dead, retrying, then>>

\* The slot is held, the append failed (a tombstoned chat, an I/O error) or the
\* ctx is dead: the caller gives back what it holds.
OpenRefused(p) ==
    /\ At(p, "open") /\ p \in Callers
    /\ Goto(p, IF retrying[p] THEN "unslot" ELSE "unreserve")
    /\ UNCHANGED <<registry, reserved, transport, closing, todo, locals>>

\* releaseReservation.
Unreserve(p) ==
    /\ At(p, "unreserve") /\ p \in Callers
    /\ reserved' = Free
    /\ Goto(p, then[p])
    /\ UNCHANGED <<registry, transport, closing, todo, locals>>

\* The close that follows the releases: AbandonInFlightTurn on a turn whose prompt
\* never started.
CloseBeforeStart(d) ==
    /\ At(d, "close") /\ d \in Drivers
    /\ Finalize(d, turnOf[d], "promptFailure")
    /\ Goto(d, "release")
    /\ UNCHANGED <<registry, reserved, transport, todo, locals>>

\* ReleaseTurn: one completion handle given up, the retained record dropped with
\* its last.  A shell and a retry give theirs up before the reservation, a first
\* prompt after everything else.
LastHandleLate(t) == holds[t] <= 0   \* Mutation: off by one.
LastHandle(t) == holds[t] <= 1

GiveUp(p, t) ==
    /\ handles' = [handles EXCEPT ![p] = @ \ {t}]
    /\ IF Known(t)
       THEN /\ holds' = [holds EXCEPT ![t] = @ - 1]
            /\ retained' = IF LastHandle(t) THEN retained \ {t} ELSE retained
       ELSE UNCHANGED holders
    /\ UNCHANGED <<slots, records, claims, reserved, transport, closing, todo,
                   turnOf, carrier, need, needGen, dead, retrying, then>>

DropTurn(p) ==
    /\ At(p, "drop") /\ p \in Callers
    /\ GiveUp(p, turnOf[p])
    /\ Goto(p, IF p \in Shells THEN "unreserve" ELSE "unslot")

ReleaseTurn(p) ==
    /\ At(p, "release") /\ p \in Callers
    /\ \E t \in handles[p] : GiveUp(p, t)
    /\ UNCHANGED pc

\* The goroutine returns; the caller may be admitted again.
Return(p) ==
    /\ At(p, "release") /\ p \in Callers
    /\ handles[p] = {}
    /\ Goto(p, "idle")
    /\ turnOf' = [turnOf EXCEPT ![p] = NoTurn]
    /\ carrier' = [carrier EXCEPT ![p] = NoBridge]
    /\ need' = [need EXCEPT ![p] = 0]
    /\ needGen' = [needGen EXCEPT ![p] = 0]
    /\ dead' = [dead EXCEPT ![p] = FALSE]
    /\ retrying' = [retrying EXCEPT ![p] = FALSE]
    /\ then' = [then EXCEPT ![p] = "release"]
    /\ UNCHANGED <<registry, reserved, transport, closing, todo, handles>>

-----------------------------------------------------------------------------
(* OpenBridge: the bridge a prompt runs on.                                *)

\* A caller with no admission opens the chat's bridge.
OpenAnyway(o) ==
    /\ At(o, "idle") /\ o \in Openers
    /\ Goto(o, "spawn")
    /\ UNCHANGED <<registry, reserved, transport, closing, todo, locals>>

\* A registered bridge is handed back, one that another caller is still starting
\* included.
ReuseBridge(d) ==
    /\ At(d, "spawn") /\ d \in Spawners
    /\ bridge # NoBridge
    /\ carrier' = [carrier EXCEPT ![d] = bridge]
    /\ Goto(d, "opened")
    /\ UNCHANGED <<registry, reserved, transport, closing, todo,
                   turnOf, handles, need, needGen, dead, retrying, then>>

\* spawnBridge: registered and attached before Start, so frames of the spawn are
\* already folded.  attachForward restarts the position for the new generation.
SpawnBridge(d) ==
    LET g == fwdGen + 1 IN
    /\ At(d, "spawn") /\ d \in Spawners
    /\ bridge = NoBridge
    /\ fwdGen < MaxGens
    /\ bridge' = g
    /\ fwdGen' = g /\ observedSeq' = 0 /\ forwardGone' = FALSE
    /\ up' = [up EXCEPT ![g] = TRUE]
    /\ carrier' = [carrier EXCEPT ![d] = g]
    /\ pc' = [pc EXCEPT ![d] = "starting", ![g] = "run"]
    /\ UNCHANGED <<registry, reserved, slot, retire, queue, consumed, closing, todo,
                   turnOf, handles, need, needGen, dead, retrying, then>>

StartOk(d) ==
    /\ At(d, "starting") /\ d \in Spawners
    /\ slot' = [slot EXCEPT ![carrier[d]] = "idle"]
    /\ Goto(d, "opened")
    /\ UNCHANGED <<registry, reserved, position, bridge, retire, streams, closing,
                   todo, locals>>

\* closeIfRetired: a bridge marked while busy is replaced once its slot is idle; a
\* map that no longer holds it sends the caller round again.
CheckRetired(d) ==
    LET g == carrier[d] IN
    /\ At(d, "opened") /\ d \in Spawners
    /\ \/ /\ bridge # g
          /\ Goto(d, "spawn")
          /\ UNCHANGED <<bridge, up>>
       \/ /\ bridge = g /\ g \in retire /\ slot[g] = "idle"
          /\ bridge' = NoBridge
          /\ up' = [up EXCEPT ![g] = FALSE]
          /\ Goto(d, "retired")
       \/ /\ bridge = g /\ ~(g \in retire /\ slot[g] = "idle")
          /\ Goto(d, IF d \in Openers THEN "idle" ELSE "acquire")
          /\ UNCHANGED <<bridge, up>>
    /\ UNCHANGED <<registry, reserved, position, slot, retire, queue, consumed,
                   closing, todo, locals>>

\* A prompt that never starts gives back what it holds BEFORE it closes its turn; a
\* retry has opened no turn yet.
Abort(d) ==
    then' = [then EXCEPT ![d] = IF retrying[d] THEN "release" ELSE "close"]

\* OpenBridge failing.
OpenBridgeFails(d) ==
    /\ \/ /\ At(d, "spawn") /\ bridge = NoBridge
          /\ UNCHANGED <<bridge, slot, up>>
       \/ /\ At(d, "starting")
          /\ bridge' = IF bridge = carrier[d] THEN NoBridge ELSE bridge
          /\ up' = [up EXCEPT ![carrier[d]] = FALSE]
          /\ slot' = [slot EXCEPT ![carrier[d]] = "idle"]
    /\ d \in Spawners
    /\ IF d \in Openers THEN Goto(d, "idle") /\ UNCHANGED then
                         ELSE Goto(d, "unreserve") /\ Abort(d)
    /\ UNCHANGED <<registry, reserved, position, retire, queue, consumed, closing, todo,
                   turnOf, handles, carrier, need, needGen, dead, retrying>>

\* TryAcquireForPrompt and BeginPromptCall: the bridge's prompt slot, and the ctx
\* the cancel grace may trip.  A slot that is not idle ends the prompt.
AcquireSlot(d) ==
    LET g == carrier[d] IN
    /\ At(d, "acquire") /\ d \in Drivers
    /\ IF slot[g] = "idle"
       THEN /\ slot' = [slot EXCEPT ![g] = "prompting"]
            /\ Goto(d, IF retrying[d] THEN "open" ELSE "start")
            /\ UNCHANGED then
       ELSE /\ Abort(d)
            /\ Goto(d, "unreserve")
            /\ UNCHANGED slot
    /\ UNCHANGED <<registry, reserved, position, bridge, retire, streams, closing, todo,
                   turnOf, handles, carrier, need, needGen, dead, retrying>>

-----------------------------------------------------------------------------
(* StartTurn, the call, the settle.                                        *)

\* StartTurn takes own when own is nil.  It waits at no door.
StartTurn(p) ==
    LET t == turnOf[p] IN
    /\ At(p, "start") /\ p \in Callers
    /\ ~dead[p] /\ Claimable(t)
    /\ IF own = NoTurn THEN own' = t /\ state' = "open" ELSE UNCHANGED <<own, state>>
    /\ Goto(p, "call")
    /\ UNCHANGED <<pending, nextSeq, records, claims, holders, reserved, transport,
                   closing, todo, locals>>

\* A dead ctx, or a turn a death closer already took.  A first prompt gives back
\* both admission holds before it closes its turn; a shell and a retry close first.
StartRefused(p) ==
    LET t == turnOf[p] IN
    /\ At(p, "start") /\ p \in Callers
    /\ dead[p] \/ ~Claimable(t)
    /\ IF SourceOf(p) = "prompt"
       THEN /\ Abort(p)
            /\ Goto(p, "unslot")
            /\ UNCHANGED closing
       ELSE /\ Finalize(p, t, "promptFailure")
            /\ Goto(p, "drop")
            /\ UNCHANGED then
    /\ UNCHANGED <<registry, reserved, transport, todo,
                   turnOf, handles, carrier, need, needGen, dead, retrying>>

\* The shell command returned: FinalizeLocalShellTurn.
ShellDone(s) ==
    /\ At(s, "call") /\ s \in Shells
    /\ Finalize(s, turnOf[s], "localShell")
    /\ Goto(s, "drop")
    /\ UNCHANGED <<registry, reserved, transport, todo, locals>>

\* CallAt returns the response together with the position it was read at: every
\* frame read before it is still queued for the folder, or consumed.
Respond(d) ==
    LET g == carrier[d] IN
    /\ At(d, "call") /\ d \in Drivers
    /\ g # NoBridge /\ up[g]
    /\ need' = [need EXCEPT ![d] = consumed[g] + Len(queue[g])]
    /\ Goto(d, "settle")
    /\ UNCHANGED <<registry, reserved, transport, closing, todo,
                   turnOf, handles, carrier, needGen, dead, retrying, then>>

\* CallAt fails: an RPC error, the bridge gone, or the ctx tripped.
CallFails(d) ==
    /\ At(d, "call") /\ d \in Drivers
    /\ Finalize(d, turnOf[d], "promptFailure")
    /\ Goto(d, IF retrying[d] THEN "drop" ELSE "unslot")
    /\ UNCHANGED <<registry, reserved, transport, todo, locals>>

\* Where a settled prompt continues: a retry awaits no result.
AfterSettle(d) == IF retrying[d] THEN "drop" ELSE "await"

\* The folder has consumed every frame read before the response.
Reached(d) == observedSeq >= need[d]

\* awaitPosition reached (or skipped, for a zero position): the response closes it.
SettleReached(d) ==
    /\ At(d, "settle") \/ At(d, "parked")
    /\ d \in Drivers
    /\ Reached(d)
    /\ Finalize(d, turnOf[d], "promptResponse")
    /\ Goto(d, AfterSettle(d))
    /\ UNCHANGED <<registry, reserved, transport, todo, locals>>

\* awaitPosition parks, remembering the generation it read on entry.
SettleParks(d) ==
    /\ At(d, "settle") /\ d \in Drivers
    /\ ~Reached(d) /\ ~forwardGone
    /\ needGen' = [needGen EXCEPT ![d] = fwdGen]
    /\ Goto(d, "parked")
    /\ UNCHANGED <<registry, reserved, transport, closing, todo,
                   turnOf, handles, carrier, need, dead, retrying, then>>

\* awaitPosition answering false closes nothing: the forward loop is gone, another
\* one is attached, or the ctx died while it was parked.
SettleDefers(d) ==
    /\ d \in Drivers
    /\ \/ At(d, "settle") /\ ~Reached(d) /\ forwardGone
       \/ At(d, "parked") /\ ~Reached(d) /\ (forwardGone \/ fwdGen # needGen[d])
       \/ At(d, "parked") /\ dead[d]
    /\ Goto(d, AfterSettle(d))
    /\ UNCHANGED <<registry, reserved, transport, closing, todo, locals>>

\* AwaitTurn: the published result, no record of the turn, or a dead ctx.
AwaitTurn(d) ==
    LET t == turnOf[d]
        answered == Known(t) /\ closedBy[t] # Running IN
    /\ At(d, "await") /\ d \in Drivers
    /\ \/ answered /\ then' = [then EXCEPT ![d] = "gate"]
       \/ (~Known(t) \/ dead[d]) /\ UNCHANGED then
    /\ Goto(d, "unslot")
    /\ UNCHANGED <<registry, reserved, transport, closing, todo,
                   turnOf, handles, carrier, need, needGen, dead, retrying>>

\* ReleaseAfterPrompt.
ReleaseSlot(d) ==
    /\ At(d, "unslot") /\ d \in Drivers
    /\ slot' = [slot EXCEPT ![carrier[d]] = "idle"]
    /\ Goto(d, "unreserve")
    /\ UNCHANGED <<registry, reserved, position, bridge, retire, streams, closing,
                   todo, locals>>

\* The prompt ctx is tripped (an unacked cancel past its grace, InterruptTurn); the
\* bridge must still be prompting.  A shell's ctx is its POST's own.
CtxDies(p) ==
    /\ p \in Callers /\ ~dead[p]
    /\ \/ p \in Drivers /\ carrier[p] # NoBridge /\ slot[carrier[p]] = "prompting"
          /\ pc[p] \in {"open", "start", "call", "settle", "parked", "await"}
       \/ p \in Shells /\ pc[p] \in {"open", "start", "call"}
    /\ dead' = [dead EXCEPT ![p] = TRUE]
    /\ UNCHANGED <<registry, reserved, transport, pc, closing, todo,
                   turnOf, handles, carrier, need, needGen, retrying, then>>

-----------------------------------------------------------------------------
(* recoverEmptyTurn.                                                       *)

\* The gate: the wire ended the turn, it ended having produced nothing (either
\* answer is possible here), and nothing opened on the chat after it.
Gate(d) ==
    LET t == turnOf[d] IN
    /\ At(d, "gate") /\ d \in Drivers
    /\ \/ /\ closedBy[t] = "wireEnd" /\ ~(Known(t) /\ nextSeq > t)
          /\ Goto(d, "rereserve")
       \/ Goto(d, "release")
    /\ UNCHANGED <<registry, reserved, transport, closing, todo, locals>>

\* The retry takes the slot with a try; a prompt that won it abandons the retry.
ReserveRetry(d) ==
    /\ At(d, "rereserve") /\ d \in Drivers
    /\ IF reserved = Free
       THEN /\ Reserve(d, "empty_retry")
            /\ retrying' = [retrying EXCEPT ![d] = TRUE]
            /\ then' = [then EXCEPT ![d] = "release"]
            /\ Goto(d, "sweepAll")
       ELSE /\ Goto(d, "release")
            /\ UNCHANGED <<reserved, retrying, then>>
    /\ UNCHANGED <<registry, transport, closing, todo,
                   turnOf, handles, carrier, need, needGen, dead>>

\* closeTurnOnBridgeDeath: the open turns as one snapshot, then one finalize each.
\* For a retry's CloseBridge and for a forward loop whose bridge died.
SnapshotTurns(p) ==
    /\ At(p, "sweepAll")
    /\ todo' = [todo EXCEPT ![p] = OpenTurnIDs]
    /\ Goto(p, "sweep")
    /\ UNCHANGED <<registry, reserved, transport, closing, locals>>

SweepTurn(p) ==
    /\ At(p, "sweep")
    /\ todo[p] # <<>>
    /\ Finalize(p, Head(todo[p]), "bridgeDeath")
    /\ todo' = [todo EXCEPT ![p] = Tail(@)]
    /\ UNCHANGED <<registry, reserved, transport, pc, locals>>

\* CloseBridge's second half: the bridge leaves the map and stops.
StopBridge(d) ==
    /\ At(d, "sweep") /\ d \in Drivers
    /\ todo[d] = <<>>
    /\ bridge' = NoBridge
    /\ up' = IF bridge = NoBridge THEN up ELSE [up EXCEPT ![bridge] = FALSE]
    /\ Goto(d, "spawn")
    /\ UNCHANGED <<registry, reserved, position, slot, retire, queue, consumed,
                   closing, todo, locals>>

-----------------------------------------------------------------------------
(* RetireBridges.                                                          *)

\* An idle bridge is stopped at once; a busy one is marked.
RetireBridge(r) ==
    /\ At(r, "idle") /\ r \in Retirers
    /\ bridge # NoBridge
    /\ \/ /\ slot[bridge] = "idle"
          /\ bridge' = NoBridge
          /\ up' = [up EXCEPT ![bridge] = FALSE]
          /\ Goto(r, "retired")
          /\ UNCHANGED retire
       \/ /\ bridge \notin retire
          /\ retire' = retire \cup {bridge}
          /\ UNCHANGED <<bridge, up, pc>>
    /\ UNCHANGED <<registry, reserved, position, slot, queue, consumed, closing,
                   todo, locals>>

\* closeTurnsOnRetire: own, and only when the wire opened it.
CloseTurnsOnRetire(p) ==
    /\ At(p, "retired")
    /\ IF OwnLive /\ source[own] = "wire_turn_start"
       THEN Finalize(p, own, "bridgeDeath")
       ELSE UNCHANGED closing
    /\ Goto(p, IF p \in Retirers THEN "idle" ELSE "spawn")
    /\ UNCHANGED <<registry, reserved, transport, todo, locals>>

-----------------------------------------------------------------------------
(* The bridge: an external process.  It writes frames while its stream is  *)
(* open, and may die at any moment.                                        *)

ReadFrame(g, f) ==
    /\ up[g]
    /\ consumed[g] + Len(queue[g]) < MaxFrames
    /\ queue' = [queue EXCEPT ![g] = Append(@, f)]
    /\ UNCHANGED <<registry, reserved, position, bridges, consumed, up, pc,
                   closing, todo, locals>>

BridgeDies(g) ==
    /\ up[g]
    /\ up' = [up EXCEPT ![g] = FALSE]
    /\ UNCHANGED <<registry, reserved, position, bridges, queue, consumed, pc,
                   closing, todo, locals>>

-----------------------------------------------------------------------------
(* The folder: forwardAt, one frame at a time.                             *)

AtFrame(g, label, kinds) ==
    /\ At(g, label) /\ g \in Folders
    /\ queue[g] # <<>>
    /\ Head(queue[g]) \in kinds

\* observe: the frame is consumed, whatever it did; a straggler of an older
\* generation advances nothing.
Consume(g) ==
    /\ queue' = [queue EXCEPT ![g] = Tail(@)]
    /\ consumed' = [consumed EXCEPT ![g] = @ + 1]
    /\ observedSeq' = IF g = fwdGen /\ consumed[g] + 1 > observedSeq
                      THEN consumed[g] + 1 ELSE observedSeq
    /\ Goto(g, "run")

\* A frame that touches no turn, or a bracket whose handling is over.
Observe(g) ==
    /\ AtFrame(g, "run", {"other"}) \/ AtFrame(g, "observe", FrameKinds)
    /\ Consume(g)
    /\ UNCHANGED <<registry, reserved, fwdGen, forwardGone, bridges, up, closing,
                   todo, locals>>

\* TurnFoldTarget finding an own turn: the frame folds.
FoldContent(g) ==
    /\ AtFrame(g, "run", {"content"}) \/ AtFrame(g, "fold", {"agentContent"})
    /\ OwnLive
    /\ Consume(g)
    /\ UNCHANGED <<registry, reserved, fwdGen, forwardGone, bridges, up, closing,
                   todo, locals>>

\* TurnFoldTarget finding none: on to openWireTurn, with the mutex let go.
FoldMisses(g) ==
    /\ AtFrame(g, "run", {"content"}) \/ AtFrame(g, "fold", {"agentContent"})
    /\ ~OwnLive
    /\ Goto(g, "openWire")
    /\ UNCHANGED <<registry, reserved, transport, closing, todo, locals>>

\* openWireTurn: a turn the agent opened, own and bracketed from the start.
OpenWireTurn(g) ==
    /\ AtFrame(g, "openWire", FrameKinds)
    /\ DoorOpen
    /\ own = NoTurn
    /\ OpenRecord("wire_turn_start", pending)
    /\ acked' = [acked EXCEPT ![nextSeq + 1] = TRUE]
    /\ Consume(g)
    /\ UNCHANGED <<claims, holders, reserved, fwdGen, forwardGone, bridges, up,
                   closing, todo, locals>>

\* openWireTurn opening nothing: the frame folds into a turn that opened meanwhile,
\* or is dropped, because own is finalizing or the append failed.
OpenWireRefused(g) ==
    /\ AtFrame(g, "openWire", FrameKinds)
    /\ DoorOpen
    /\ Consume(g)
    /\ UNCHANGED <<registry, reserved, fwdGen, forwardGone, bridges, up, closing,
                   todo, locals>>

\* bindPending: the pending turn takes the bracket; or another bracketed own turn
\* lost its turn_end and is closed first; or the chat holds nothing for it.
Binds == /\ pending # NoTurn /\ ~acked[pending] /\ ~finalizing[pending]
         /\ own \in {NoTurn, pending}

Lost == IF pending # NoTurn /\ ~acked[pending] /\ ~finalizing[pending]
        THEN IF own \in {NoTurn, pending} THEN NoTurn ELSE own
        ELSE IF own # NoTurn /\ acked[own] THEN own ELSE NoTurn

BindPending(g) ==
    /\ AtFrame(g, "run", {"turnStart"}) \/ AtFrame(g, "rebind", {"turnStart"})
    /\ DoorOpen
    /\ Binds
    /\ acked' = [acked EXCEPT ![pending] = TRUE]
    /\ own' = pending /\ pending' = NoTurn /\ state' = "open"
    /\ Consume(g)
    /\ UNCHANGED <<nextSeq, source, claims, holders, reserved, fwdGen, forwardGone,
                   bridges, up, closing, todo, locals>>

BindMisses(g) ==
    /\ AtFrame(g, "run", {"turnStart"}) \/ AtFrame(g, "rebind", {"turnStart"})
    /\ DoorOpen
    /\ ~Binds
    /\ IF pc[g] = "run" /\ Lost # NoTurn
       THEN Finalize(g, Lost, "bracketLost") /\ Goto(g, "rebind")
       ELSE Goto(g, "openWire") /\ UNCHANGED closing
    /\ UNCHANGED <<registry, reserved, transport, todo, locals>>

\* WireTurnEnd closes the chat's own turn, whichever it is.
WireTurnEnd(g) ==
    /\ AtFrame(g, "run", {"turnEnd"})
    /\ phase' = [phase EXCEPT ![g] = "claimOwn"]
    /\ closer' = [closer EXCEPT ![g] = "wireEnd"]
    /\ Goto(g, "observe")
    /\ UNCHANGED <<registry, reserved, transport, target, todo, locals>>

\* revisableLocked.
Revisable == OwnLive /\ acked[own] /\ source[own] \in PromptClass

\* ReviseTurnBinding: the bracket was the agent's own.  Its turn opens as own, and
\* the prompt's turn goes back to pending, owed its bracket again.
ReviseTurnBinding(g) ==
    /\ AtFrame(g, "run", {"agentContent"})
    /\ DoorOpen
    /\ Revisable
    /\ OpenRecord("wire_turn_start", own)
    /\ acked' = [acked EXCEPT ![own] = FALSE, ![nextSeq + 1] = TRUE]
    /\ Goto(g, "fold")
    /\ UNCHANGED <<claims, holders, reserved, transport, closing, todo, locals>>

\* Nothing to revise, or the append failed: the frame goes on to fold.
ReviseSkipped(g) ==
    /\ AtFrame(g, "run", {"agentContent"})
    /\ DoorOpen
    /\ Goto(g, "fold")
    /\ UNCHANGED <<registry, reserved, transport, closing, todo, locals>>

\* The stream closed: sealPosition, then the forward goroutine's exit.
SealPosition(g) ==
    /\ At(g, "run") /\ g \in Folders
    /\ queue[g] = <<>> /\ ~up[g]
    /\ forwardGone' = (forwardGone \/ g = fwdGen)
    /\ Goto(g, "unregister")
    /\ UNCHANGED <<registry, reserved, fwdGen, observedSeq, bridges, streams, closing,
                   todo, locals>>

\* removeIfBridge: still registered means the process died on its own.
RemoveIfBridge(g) ==
    /\ At(g, "unregister") /\ g \in Folders
    /\ IF bridge = g THEN bridge' = NoBridge /\ Goto(g, "sweepAll")
                     ELSE UNCHANGED bridge /\ Goto(g, "gone")
    /\ UNCHANGED <<registry, reserved, position, slot, retire, streams, closing,
                   todo, locals>>

\* The death closer is done.
ForwardEnds(g) ==
    /\ At(g, "sweep") /\ g \in Folders
    /\ todo[g] = <<>>
    /\ Goto(g, "gone")
    /\ UNCHANGED <<registry, reserved, transport, closing, todo, locals>>

-----------------------------------------------------------------------------
Admission(p) ==
    \/ OpenTurn(p) \/ OpenRefused(p) \/ Unreserve(p) \/ CloseBeforeStart(p)
    \/ DropTurn(p) \/ ReleaseTurn(p) \/ Return(p)

Opening(d) ==
    \/ ReuseBridge(d) \/ SpawnBridge(d) \/ StartOk(d) \/ CheckRetired(d)
    \/ OpenBridgeFails(d) \/ AcquireSlot(d) \/ CloseTurnsOnRetire(d)

Settling(p) ==
    \/ StartTurn(p) \/ StartRefused(p) \/ ShellDone(p) \/ SettleReached(p)
    \/ SettleParks(p) \/ SettleDefers(p) \/ AwaitTurn(p) \/ ReleaseSlot(p)

Recovering(p) ==
    \/ Gate(p) \/ ReserveRetry(p) \/ SnapshotTurns(p) \/ SweepTurn(p) \/ StopBridge(p)

Folding(g) ==
    \/ Observe(g) \/ FoldContent(g) \/ FoldMisses(g) \/ OpenWireTurn(g)
    \/ OpenWireRefused(g) \/ BindPending(g) \/ BindMisses(g) \/ WireTurnEnd(g)
    \/ ReviseTurnBinding(g) \/ ReviseSkipped(g) \/ SealPosition(g)
    \/ RemoveIfBridge(g) \/ ForwardEnds(g)

\* One goroutine running.
Run(p) ==
    \/ Finalizing(p) \/ Admission(p) \/ Opening(p) \/ Settling(p) \/ Recovering(p)
    \/ Folding(p)

\* What the environment decides: the requests, the agent's answers and frames, a
\* bridge's death, a cancelled ctx, an identity change.
Environment ==
    \/ \E p \in Threads : ReservePrompt(p) \/ ReserveShell(p) \/ OpenAnyway(p)
    \/ \E d \in Drivers : Respond(d) \/ CallFails(d)
    \/ \E p \in Callers : CtxDies(p)
    \/ \E r \in Retirers : RetireBridge(r)
    \/ \E g \in Folders : BridgeDies(g) \/ \E f \in Frames : ReadFrame(g, f)

Next == Environment \/ \E p \in Threads : Run(p)

Spec == Init /\ [][Next]_vars

\* A runnable goroutine runs; nothing is assumed of the environment.
FairSpec == Spec /\ \A p \in Threads : WF_vars(Run(p))

-----------------------------------------------------------------------------
(* Type correctness of the whole state.                                    *)
RegistryOK ==
    /\ own \in TurnIds \cup {NoTurn}
    /\ pending \in TurnIds \cup {NoTurn}
    /\ state \in {"idle", "open", "finalizing"}
    /\ nextSeq \in TurnIds \cup {0}
    /\ reserved \in Sources \cup {Free}
    /\ retained \subseteq TurnIds
    /\ source \in [TurnIds -> Sources]
    /\ acked \in [TurnIds -> BOOLEAN]
    /\ finalizing \in [TurnIds -> BOOLEAN]
    /\ holds \in [TurnIds -> Int]
    /\ closedBy \in [TurnIds -> Closers \cup {Running}]
    /\ closes \in [TurnIds -> Nat]

TransportOK ==
    /\ fwdGen \in Folders \cup {0}
    /\ observedSeq \in Nat
    /\ forwardGone \in BOOLEAN
    /\ bridge \in Folders \cup {NoBridge}
    /\ slot \in [Folders -> {"starting", "idle", "prompting"}]
    /\ retire \subseteq Folders
    /\ queue \in [Folders -> Seq(FrameKinds)]
    /\ consumed \in [Folders -> Nat]
    /\ up \in [Folders -> BOOLEAN]

GoroutinesOK ==
    /\ pc \in [Threads -> Labels]
    /\ phase \in [Threads -> {"none", "claim", "claimOwn", "effects", "publish"}]
    /\ target \in [Threads -> TurnIds \cup {NoTurn}]
    /\ closer \in [Threads -> Closers \cup {NoCloser}]
    /\ todo \in [Threads -> Seq(TurnIds)]

LocalsOK ==
    /\ turnOf \in [Callers -> TurnIds \cup {NoTurn}]
    /\ handles \in [Callers -> SUBSET TurnIds]
    /\ carrier \in [Callers \cup Openers -> Folders \cup {NoBridge}]
    /\ need \in [Callers -> Nat]
    /\ needGen \in [Callers -> Folders \cup {0}]
    /\ dead \in [Callers -> BOOLEAN]
    /\ retrying \in [Callers -> BOOLEAN]
    /\ then \in [Callers -> Continuations]

TypeOK == RegistryOK /\ TransportOK /\ GoroutinesOK /\ LocalsOK

-----------------------------------------------------------------------------
(* Safety.                                                                 *)

AtWork(p, t) == phase[p] \in {"effects", "publish"} /\ target[p] = t

\* A claimed turn has exactly one closer at work on it until its result is
\* published: two closers racing one turn (turn_end and the prompt response, a
\* death closer and a cancel) produce one set of effects (finalizeTurn).
ClaimExclusive ==
    \A t \in TurnIds :
        /\ finalizing[t] /\ closedBy[t] = Running => \E p \in Threads : AtWork(p, t)
        /\ \A p, q \in Threads : AtWork(p, t) /\ AtWork(q, t) => p = q

\* The log never holds two turn_close entries for one turn, nor one for a turn no
\* closer claimed (closeTurn, turnlog.Turn.Close).
ClosedAtMostOnce ==
    \A t \in TurnIds : closes[t] <= 1 /\ (closes[t] = 1 => finalizing[t])

\* While the doors are shut somebody is closing own, so they open again: no door
\* waits on a finalize that nobody runs (awaitNotFinalizing, claimLocked, finish).
ShutDoorHasCloser ==
    state = "finalizing" => own # NoTurn /\ \E p \in Threads : AtWork(p, own)

\* A closed turn never comes back to a slot, where the next turn_start would bind
\* to it and the next frame fold into it (finish, StartTurn, reviseLocked).
ClosedHoldsNoSlot ==
    \A t \in TurnIds : closedBy[t] # Running => t \notin {own, pending}

\* The chat reads idle exactly when it holds no turn (setStateLocked).
IdleIsEmpty == state = "idle" <=> own = NoTurn /\ pending = NoTurn

\* A turn in the pending slot is a prompt's and is still owed its bracket, or the
\* next turn_start could not bind it (bindPending, reviseLocked).
PendingIsOwed ==
    pending # NoTurn => source[pending] \in PromptClass /\ ~acked[pending]

\* One caller at a time between taking the admission slot and giving it back, and the
\* slot names that caller's source; everybody else finds it free
\* (reserveLocked, releaseReservation on every path out).
Holding == {"open", "spawn", "starting", "opened", "retired", "acquire", "start", "call",
            "settle", "parked", "await", "drop", "unslot", "unreserve", "sweepAll", "sweep"}
Holder(p) == p \in Callers /\ pc[p] \in Holding

AdmissionExclusive ==
    /\ \A p, q \in Callers : Holder(p) /\ Holder(q) => p = q
    /\ \A p \in Callers : Holder(p) => reserved = SourceOf(p)
    /\ reserved # Free => \E p \in Callers : Holder(p)

\* A caller's handle keeps its turn readable until it gives the handle up, and no
\* retained record outlives its last handle (openLocked's hold, finish, release).
RetainedWhileHeld ==
    \A t \in TurnIds :
        LET held == \E p \in Callers : t \in handles[p] IN
        /\ held /\ closedBy[t] # Running => t \in retained
        /\ t \in retained => held

\* An opened turn stays in the registry until it is closed: "the log and the registry
\* never disagree about which turns exist" (turnRegistry).
NoTurnLost == \A t \in 1..nextSeq : closedBy[t] = Running => Live(t)

\* A turn enters the registry as the log opens it and leaves it as its result is
\* published. One thing else takes it out: a revision, which puts the prompt's turn back
\* into the pending slot over another prompt's that waits there, because reviseLocked
\* alone writes a slot without slotFreeLocked's guard (openLocked, finish, reviseLocked).
LeavesByClosing ==
    [][\A t \in TurnIds :
           /\ nextSeq # t /\ nextSeq' = t => Live(t)'
           /\ Live(t) /\ ~Live(t)' =>
                  \/ closedBy'[t] # Running
                  \/ t = pending /\ t # own /\ \E g \in Folders : ReviseTurnBinding(g)]_vars

\* The registry and the log keep the ledger's promise: claims are first-wins, closes
\* and results are written once, and a published result never changes.
Ledger == INSTANCE TurnLedger WITH
    opened <- nextSeq,
    claimed <- {t \in TurnIds : finalizing[t]},
    result <- closedBy
ImplementsLedger == Ledger!Spec

-----------------------------------------------------------------------------
(* Liveness, under FairSpec.                                               *)

\* Shut doors open again, so every goroutine waiting at one goes on (finish).
DoorReopens == state = "finalizing" ~> DoorOpen

\* A bridge found still registered died on its own, and every turn open then is closed:
\* the third actor does it, because no other closer will (closeTurnOnBridgeDeath).
DeathClosesTurns ==
    \A g \in Folders, t \in TurnIds :
        pc[g] = "sweepAll" /\ Live(t) ~> closedBy[t] # Running
=============================================================================
