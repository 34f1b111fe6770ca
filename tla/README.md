# marotte's turns, their log and its web client, in TLA+

marotte drives coding agents: a Go server (`internal/`) holds chats, runs one agent process
per chat over a JSON-RPC pipe (a *bridge*), logs every exchange as *turns*, and a TypeScript
client (`static-src/`) shows them and acts on them.  This directory is a verification project
for the two places where its logic is concurrent and hard to test:

- the server's core: who may open a turn, who closes it, what the registry in memory and the
  log on disk say about it while prompts, shell commands, agent frames, cancels and dying
  processes interleave, and what is left of the log after rewinds, merges, failed writes and
  crashes;
- the client's state: what each part of the page shows when frames, answers, reads, roll-backs
  and the reader's acts reach it in any order, over streams that break and requests that fail.

Everything here is translated from the code; `PROJECT.json` maps each definition to its
lines, lists the hazards each property is about, and names for each property a plausible bug
(a definition and its mutated form, marked *Mutation* or *A mutant of* in the modules) under
which TLC finds it violated.  To run it, in this directory:

    tlc -workers 4 -config TurnBrackets.cfg MCTurnLifecycle     # Turn*.cfg, RevisionLosesTurn.cfg
    tlc -workers 4 -config EntryLogCore.cfg EntryLog            # and RewindHidesLive.cfg
    tlc -workers 4 -config ClientWindow.cfg MCClientTranscript
    tlc -workers 4 -config ClientChat.cfg   MCClientChat        # and PreviewFilled.cfg
    tlc -workers 4 -config ClientPanes.cfg  MCClientPanes
    tlc -workers 4 -config EditorOverlay.cfg MCClientEditor
    tlapm TurnProofs.tla                                        # any module of section 4

## 1. The system and its parts

The server:

| Part | State | Operations | What makes it correct |
|---|---|---|---|
| Turn registry (`agent/turn*.go`) | per chat: slots `own` and `pending`, the state idle/open/finalizing that gates every door, the admission reservation, retained records and their handles, the folder's position | reserve, open, start, bind a bracket, revise a binding, claim, close, finish, await, release | one closer per turn, one result; no turn lost; no door shut for ever; admission excludes |
| Bridge coordinator and manager (`agent/bridge_coord.go`, `bridge_manager.go`, `bridge_state.go`) | chat -> bridge map, per bridge: starting/idle/prompting slot, retire mark, cancel function and grace timer | open, spawn, close, retire, forward loop, death closer | a bridge's death closes what was open; the prompt slot follows the reservation |
| Prompt, shell (`command/prompt.go`, `shell.go`) | one goroutine per prompt | reserve, open, call, settle, recover an empty turn | every path out gives back everything, in the documented order |
| ACP transport (`bridge/bridge_rpc.go`) | pending calls, the read position | call, deliver a frame, drain on exit | a response carries the count of frames read before it |
| Turn log and entry log (`turnlog`, `chat/entrylog.go`) | an append-only file per chat, an index in memory | open, append, close, revert, reconcile, rewrite, recover | what was acknowledged survives a crash; index and file agree |
| Tabs store (`internal/tabs`) | a versioned set of open subjects | open, close, move, pin, list, notify | an answer, a frame and a list of one version say the same |
| The rest: chat store, translation, steers, runs and leases, scheduler, approvals, push, SSE bus, auth, git, forges, MCP, files, settings | see `PROJECT.json` | | seen here only as what the client modules' servers answer |

The client: one module of signals per concern, over one event stream and many requests.

| Part (`static-src/`) | State | What makes it correct |
|---|---|---|
| Transcript window (`store*.ts`, `turns.ts`) | the held turns with their entries, their order, which ends are loaded, the turns a rewind took | a held turn is a prefix of the log's; nothing rewound comes back; a page still true heals |
| Bodies, cards (`messages-*.ts`, `block-window.ts`, `tool-*.ts`) | what is mounted of the window, deferred builds, details of cards | drawn piece by piece equals drawn at once; an output is shown once, whole, in order |
| Reader's place, rail (`scroll.ts`, `turn-rail*.ts`) | scroll mode, flights; index reads, jumps | nobody reading is moved; a jump lands where it was asked |
| Composer, steers (`composer-state.ts`, `submit.ts`, `steer-*.ts`) | drafts, saves, attachments; waiting steers | no text lost or in another chat; a read steer does not come back |
| Runs, tools, spec pages (`run-store.ts`, `tools*.ts`, `spec-*.ts`) | cached states, reads in flight, jobs, armed runs | caught up when quiet; asked once, done once |
| Tab strip (`tabs*.ts`) | the strip, optimistic overlays, activation history | open tabs stay, roll-backs restore, only what is closed is torn down |
| Panes: git, pull requests, forges, servers, editor, files, find, questions, cues | lists, typed text, optimistic acts, timers | never older than what was shown or told; typed text kept; questions and cues match the server's |

How they interact.  A POST reserves the chat's admission slot and opens a turn (registry record
and `turn_open` line under one mutex); a goroutine then opens the bridge, takes its prompt
slot, starts the turn and calls the agent.  The bridge's read loop delivers frames, in order,
to one forward goroutine per bridge, which folds them into the chat's `own` turn, binds
`turn_start` brackets, opens turns the agent began and closes on `turn_end`.  The response
waits until the frames read before it are folded, and closes the turn if the wire did not.
When a process dies, its forward goroutine closes whatever is left.  Each fold broadcasts what
it appended; the client's stream delivers those frames in order, its requests are answered
beside them, and a stream that breaks for longer than the server's replay ring is a gap that
reads must fill.

What is hard.  On the server, five kinds of goroutine race to close one turn; the mutex is let
go between claim, effects and publish; the wire's brackets name no turn, so binding is a guess
that may be revised; bridges are replaced while responses of the old one are settling; contexts
die in the middle of everything; releases happen in an order that other code depends on.  In the
log one operation is several durable lines with a crash possible at each; a rewind is a record
that hides others by their position in the file, and a merge rewrites that file.  On the client
every `await` lets a frame, another answer or the reader in: lists are read while requests
change them, optimistic acts are rolled back over newer lists, paints rebuild what somebody
types in, timers race answers, and a gap in the stream makes every cached state suspect.

## 2. The modules

| Module | What it is |
|---|---|
| `TurnLifecycle` | the registry, the bridges, and every goroutine of one chat |
| `TurnLedger` | the abstract promise about turns that `TurnLifecycle` implements |
| `EntryLog` | one chat's log: file, index, recovery, rewinds, merges |
| `ClientTranscript` | one chat's window of turns against its log |
| `ClientBody`, `ClientCards`, `ClientReader`, `ClientRail`, `ClientComposer`, `ClientSteers`, `ClientRuns` | the rest of the chat page |
| `ClientTabs` | the tab strip against the server's versioned set |
| `ClientGit`, `ClientPulls`, `ClientForges`, `ClientMcp`, `ClientEditor`, `ClientFiles`, `ClientFind`, `ClientDecisions`, `ClientCues`, `ClientTools`, `ClientSpec` | the panes |
| `Picking` | choosing from a sequence, shared by `EntryLog` and its proofs |
| `MCTurnLifecycle`, `MCClientTranscript`, `MCClientEditor` | instances for TLC |
| `MCClientChat`, `MCClientPanes` | the client parts side by side, each on its own instance |

### TurnLifecycle

One chat.  An action is one critical section of `chatLifecycle.mu` (or of the bridge
manager's), so goroutines interleave exactly where the code lets a mutex go.  Turns are named
by their open sequence (`Turn.Seq`), bridges by their forward generation (`fwdGen`).

| State | Code |
|---|---|
| `own pending state nextSeq reserved retained` | the fields of `chatLifecycle` |
| `source acked finalizing holds closedBy` | the fields of `Turn`; `closedBy` is the published result |
| `closes` | how many `turn_close` lines the log holds |
| `fwdGen observedSeq forwardGone` | the position the folder reached |
| `bridge slot retire` | the manager's map entry, each `sharedBridge`'s state and mark |
| `queue consumed up` | each bridge's notification channel and read loop |
| `pc phase target closer todo` | where a goroutine is; the `finalizeTurn` it is inside of; a death closer's list |
| `turnOf handles carrier need needGen dead retrying then` | locals of a prompt or shell |

| Actions | Code |
|---|---|
| `ClaimTurn ClaimOwn ClaimLost CloseTurn Finish` | `finalizeTurn`: claim, effects, publish |
| `ReservePrompt ReserveShell OpenTurn OpenRefused Unreserve CloseBeforeStart DropTurn ReleaseTurn Return` | admission, `OpenTurn`, the releases |
| `OpenAnyway ReuseBridge SpawnBridge StartOk CheckRetired OpenBridgeFails AcquireSlot` | `OpenBridge`, `closeIfRetired`, the prompt slot |
| `StartTurn StartRefused ShellDone Respond CallFails SettleReached SettleParks SettleDefers AwaitTurn ReleaseSlot CtxDies` | `promptAdmittedTurn`, `HandleShellInterception`, `awaitPosition` |
| `Gate ReserveRetry SnapshotTurns SweepTurn StopBridge` | `recoverEmptyTurn`, `CloseBridge` |
| `RetireBridge CloseTurnsOnRetire` | `RetireBridges` |
| `ReadFrame BridgeDies` | the agent process, an environment |
| `Observe FoldContent FoldMisses OpenWireTurn OpenWireRefused BindPending BindMisses WireTurnEnd ReviseTurnBinding ReviseSkipped SealPosition RemoveIfBridge ForwardEnds` | the forward loop and the folds |

Abstractions.  A frame is its kind: content, content only an agent-begun turn carries
(`agentContent`), `turn_start`, `turn_end`, and everything else.  A close's outcome, its usage
and its text are left out; whether a turn "produced nothing" is a free choice.  `CloseTurn` may
fail, as the append may.  Taking a bridge off the map and stopping it are one step: nobody can
find the bridge in between, and frames its read loop still delivers are the ones read before the
stop.  A retried transport call (`callPromptWithRetry`) touches no turn and is one `Respond` or
`CallFails`.

### EntryLog

One chat's `entries` file and the `EntryLog` over it.  An operation holds the log's mutex while it
appends all of its lines, so operations do not interleave; their lines are still single steps
(`todo` holds those to come), because a crash, a failed write or a refused one may come between
any two.  The three phases of a rewind are separate actions: nothing is held across them.

| State | Code |
|---|---|
| `disk` | the file's lines, with a last torn one where a write was cut |
| `idx` | the index: `size`, `order`, one row per turn (`turnState`), the clearers (`reconciledTurns`, `reconciledSessions`, `boundSessions`), `newestRevert` |
| `status failed todo` | whether the log is open, `l.failed`, the operation in progress |
| `live` | the turns the registry holds open |
| `rewind proj` | a `CmdRewindChat` between its steps; a `loadProjection` |
| `acked hidden asked` | history: entries acknowledged, prompts taken by recorded rewinds, and by those whose failed write may have landed |

| Actions | Code |
|---|---|
| `AppendNext`, `AppendFirst` (`Written WriteFails WriteRefused`) | `appendLocked`, `writeLineLocked`, `checkBoundsLocked` |
| `Crash OpenEntryLog` | the process; `OpenEntryLog`: truncate, scan, close what is open |
| `OpenTurn AppendEntry CloseTurn AppendBetweenTurns` | the store's operations of these names, `turnlog.Close` |
| `RewindCheck RewindAnswered RecordRevert` | `CmdRewindChat` and `Revert` |
| `OpenReplayProjection DiscardReplayProjection SwapRewrites SwapClears SwapDiscards` | the replay's merge: `SwapMerged`, `MergeEntries`, `Rewrite`, `clearReconcileSignals` |

`Observe` is the fold of one appended line and `Rescan` the reading of a whole file; they are
written independently, as in the code, so that `IndexMatchesDisk` compares two accounts.

Abstractions.  A line keeps its kind, turn, `seq` and the fields the index reads.  A turn has at
most one tool call; text, thinking, steers and plans are left out, and with them reconcile
condition (iii), the empty-text steer.  What the replay knows of a paired turn is whether it has
an end for it; a content union changes nothing visible, so a merge with a paired turn may rewrite
for no visible reason.  The replay may also hold one prompt the log never had.  Inserted turns hang
off one anchor.  `msg` ties a turn to the prompt it ran, so that a turn reinserted from an old
replay is recognised.  The file cap is counted in lines.  A rewrite that fails before its rename
leaves everything as it was, and is `DiscardReplayProjection`; one that fails after it returns an
error of a swap that happened.  The header's cached counters and the watermark are not kept.  One
rewind and one projection are in flight at a time, and a replay holds no turn the process is still
writing.  A failed truncation at open is an open that never happened.

### The client modules

They share one shape.  A variable named after the part (`sd`, `gt`, `fg`, ...) is the client's
state, a record whose fields are the module's variables in the code; the one ending in `srv` (or
`disk`, `wd`, `te`) is what the server, the agent or the world holds; `net`, `wire` or a set of
reads and calls inside the client's record is what is under way; the one ending in `left` is what
may still happen, a record of budgets.  A handler runs to its first `await` in one action, and
what follows the `await` is another; the server's half of a request and the arrival of its answer
are two actions, with frames in between.  A handler's synchronous effects (signals re-running
their effects, repaints) are part of its action.  Timers are actions whose only guard is that they
are armed: a timer may be early or late against anything.  Requests of one `scope` are served in
order, a `dedupe` key joins the call already out, and a failure spends a budget and may or may not
have happened at the server, as over a real network.  A `break` of the stream is a gap that
outlived the server's replay ring; shorter ones lose nothing.

| Module | Its own variables and actions, in short |
|---|---|
| `ClientTranscript` | the log and the wire of one chat; `window` (held turns, order, `reverted`), reads of pages and ranges with their versions, revalidation after a break, eviction |
| `ClientBody` | the planned blocks of every turn, what is mounted and where, deferred mounts, folds, run cards and their hosts |
| `ClientCards` | terminal chunks held, linked, parked and trimmed; results by frame, range or page; bulk fetches |
| `ClientReader` | scroll mode and position over lines that grow above and below; jumps and flights |
| `ClientRail` | the turn index of two chats, jumps over several pages, their supersession |
| `ClientComposer` | drafts, the box, debounced saves, sends with hand-back, history |
| `ClientSteers` | rows of the dock against batches read, discards, compactions, replays |
| `ClientRuns` | cells, reads in flight, the ladder of retries, the row and the verbs, step logs with holes |
| `ClientTabs` | the strip with its overlays, calls, frames, lists; the server's versions |
| `ClientGit`, `ClientPulls`, `ClientForges`, `ClientMcp`, `ClientTools` | lists read while requests change them, jobs, dialogs, optimistic acts |
| `ClientEditor`, `ClientFiles`, `ClientFind` | buffers over one text area; tabs over one list; boxes over marks |
| `ClientDecisions`, `ClientCues`, `ClientSpec` | questions, notifications, spec pages and their armed runs |

What each leaves out is in its component's note in `PROJECT.json`.  In all of them text is a
member of a small set, layout and wording are gone, and a list is the set or sequence of what
tells its rows apart.

`MCClientChat` and `MCClientPanes` put parts that share no state side by side: the variable `about`
picks one part at the start, and the behaviour is that part's; a property reads `about = "cards" =>
CD!CardsHold`, the part's own property.  The parts that section 4 proves about are extended
instead of instantiated, so that a run checks the very property, and evaluates the very assumptions,
that a theorem names; such a part rests in its first state while the behaviour is another's.  One run then explores the sum, not the product, of
the parts' states.  Parts interact through the chat's log and the server only, which each part's
module carries its own copy of.

## 3. The runs

| Run | Instance | Shows |
|---|---|---|
| `TurnBrackets` | 1 driver, all frame kinds, 3 turns, 1 bridge, 2 frames | `TypeOK ClaimExclusive ClosedAtMostOnce ClosedHoldsNoSlot ImplementsLedger LeavesByClosing` |
| `TurnRetry` | 1 driver, turn_end, 2 turns, 2 bridges, 1 frame each | `RetainedWhileHeld` through the whole recovery |
| `TurnNeighbours` | 2 drivers (symmetric), shell, opener, retirer, turn_end, 1 turn, 1 bridge, 1 frame | `AdmissionExclusive ShutDoorHasCloser` |
| `TurnAnswered` | fair; 1 driver, content / turn_end, 2 turns, 1 bridge, 2 frames | `DoorReopens DeathClosesTurns` |
| `EntryLogCore` | 3 turns, 2 of them prompts, 6 lines, 1 note, 1 crash; 846k states | `IndexMatchesDisk AckedIsDurable RewindsHold ServedClosed` |
| `ClientWindow` | 2 turns, 3 entries, seven scenarios; 491k states | `WindowHolds ReadsHold` |
| `ClientChat` | seven parts, each with its scenarios | `NoBleed LatestSaved ReadStaysRead RunCatchesUp BodyHolds CardsHold ReaderKept LandsAsAsked` |
| `ClientPanes` | twelve parts, each with its scenarios | `ShownAfterActing MessageKept PullsAsSeen ListCatchesUp NeverGoesBack EditsKept ListedIsThere FoundIsAsked AsksMatch CuesAreTrue NotSwallowed ToolsAreTold SpecRuns StripHolds TearsDownClosed` |
| `RevisionLosesTurn` | 1 driver, turn_start / agent content, 3 turns, 1 bridge, 2 frames | **violates** `NoTurnLost` |
| `RewindHidesLive` | as `EntryLogCore` | **violates** `LiveTurnsSurvive` |
| `EditorOverlay` | two files with a conflict each | **violates** `DirtyKeepsText` |
| `PreviewFilled` | as `ClientChat` | **violates** `PreviewFilled` |

The turn runs.  Closers are exclusive, a turn's log holds at most one close, a published turn
holds no slot and idle means empty, the registry and the log implement the ledger; an open turn
leaves the registry by its close, or by a revision that overwrites it as pending, and in no other way
(that the revision does lose it is `RevisionLosesTurn`); a record is retained exactly while somebody
holds its handle; admission excludes; a shut door has a closer and opens again, and a bridge's death
closes what was open.

`EntryLogCore`.  The index equals a scan of what it holds (`IndexMatchesDisk`); an acknowledged
entry is readable at every later moment (`AckedIsDurable`); a recorded rewind stays, and nothing
it did not ask for is hidden (`RewindsHold`); a log comes up with every turn a reader sees closed,
wherever the recovery itself was cut (`ServedClosed`).

`ClientWindow`.  A held turn is a prefix of the log's (`WindowHolds`); the order lists what is
held, no answer brings back what a rewind took, and a page that is still true when it lands leaves
nothing else standing (`ReadsHold`).

`ClientChat` and `ClientPanes`: each property's comment in `MCClientChat` and `MCClientPanes` says
what it promises, and its component's module says it formally.  They are of four kinds: what is
shown once nothing is under way is what there is (`ShownAfterActing ListCatchesUp RunCatchesUp
ListedIsThere FoundIsAsked AsksMatch ToolsAreTold SpecRuns`); what was shown never goes back or
aside (`NeverGoesBack ReadStaysRead PullsAsSeen StripHolds TearsDownClosed LandsAsAsked`); what the
reader wrote or where they are is not disturbed (`NoBleed LatestSaved MessageKept EditsKept
ReaderKept`); what was drawn piece by piece is what is there (`BodyHolds CardsHold CuesAreTrue
NotSwallowed`).  Where a property has exceptions, they are behaviours of the code, named in its
comment and, where a comment of the code promises otherwise, listed under the observations below.

The bounds.  Two turns are the least for a turn and its successor (a stale binding, a retry), a
third turn lets the agent open one in between; two bridges are the least for a generation
change; one or two frames suffice for a bracket and a frame racing it.  In the log three turns are
the least for two prompts and a carrier or an inserted turn between them; six lines let a rewind of
everything (carrier, close, record) follow a turn with an entry and a close, and let the cap be met
by every operation; one crash at every line and inside it is enough for the two-step hazards
listed.  In the window two turns let a page, a range and a rewind concern different ones, and a
page carries at least as many turns as the wire may hold undelivered frames (the server's page is
20 turns, `router_handlers.go:254`, against frames of which few open one): a page may be ahead of
every frame still to come, and never leaves a hole between itself and what they bring.  A client part's scenarios are records of how often each outside event may happen: each lets two or
three events that interfere meet in every order, and a part has a scenario per pair of events its
hazards name; a single scenario with all of them would only be larger.  Every run of the server
modules checks for deadlock: no chat ends up with every goroutine waiting on another (an idle prompt
goroutine can always ask again, so a chat at rest is not one).  A client whose budgets are spent
stops, so the client runs do not.

Fairness (`FairSpec` of `TurnLifecycle`) is weak fairness of each goroutine's own steps: the Go
scheduler runs a runnable goroutine, and the lifecycle's waits are re-checked after every change of
state.  Nothing is assumed of the agent: no frame, no response and no death need ever happen.  The
client modules state no liveness: "once nothing is under way" is a state, and reaching it is left
to the network.

### Where the code and its comments disagree

1. **`RevisionLosesTurn`** - a prompt's settle is cut off by a dead ctx, its turn bracketed late, and a
   second prompt pending behind it: agent content then revises the binding, `reviseLocked` puts the
   first turn back as pending (`turn_bind.go:107`) without looking at what waits there, and the second
   is in no slot with its log turn open, against `turn.go:134-137` and `turn.go:99-100`.
2. **`RewindHidesLive`** - `CmdRewindChat` asks the registry (`rewind.go:55`), makes the agent's
   round trip and records the revert (`rewind.go:87`) with nothing held: a turn opened in between
   falls into the window and is hidden while it runs, against `store_log.go:405-406`.
3. **`EditorOverlay`** - a conflict's overlay is kept by line and text, without its file
   (`editor-conflict.ts:143`), and stays clickable over the next file: a click writes the first
   file's resolution into the second one's buffer, against `editor-openers.ts:445-446`.
4. **`PreviewFilled`** - `settledToolCall` (`store.ts:1664-1691`) copies a result over its call
   without `has_full` and `output_bytes`, so a card built from a page, of a call whose own part was
   short enough, never asks for the rest of a cut output when opened, against `tool-card.ts:672-673`
   and `entry.go:194-196`.  A fetch that fails is a documented fallback (`tool-card.ts:677`) and no
   part of the property.

Others were met while modelling.  Each is what the code does, seen in a counterexample or on
paper; they have no run of their own, and the properties are stated beside them.

*Turns.*
- A prompt that never starts releases its reservation before it closes its turn
  (`prompt.go:426-428`): the next prompt may find the pending slot held, against `turn.go:99-100`.
- `OpenBridge` hands back a bridge somebody else is still starting, so a prompt with the
  reservation may find the slot held, against `prompt.go:432-433`.
- A retry whose settle defers returns with its turn unclaimed, against `prompt.go:202-203`.
- `finish` of a turn that is not own sets the state to open even while own is finalizing
  (`turn.go:337-341`), so "turnFinalizing IS the exclusion" (`turn.go:21`) does not hold in that
  window; the claim's own flag still keeps closers apart (`ClaimIsExclusive` is proved without it).
- `awaitPosition` takes the generation it compares on entry (`turn_sequence.go:107`), so a response
  of a bridge that died and was replaced before the settle waits on the new bridge's frames.
- A turn the agent opens while its bridge is being stopped, or during a spawn that then fails,
  stays open until another closer comes (`bridge_coord.go:236`, `540-543`).

*The log.* The turn `AppendBetweenTurns` mints is closed by nobody (`entrylog.go:366`), so a clean
restart closes it as unterminated and asks for a merge, against `entrylog.go:1051`.

*The window.* A turn a rewind named stays in `reverted`; that this keeps it out (`RewoundStaysOut`)
holds for one rewind over entries that decode.  (a) A carrier's text entry refused by the page
decoder but sealed live lets a page ahead of the revert frame hold a newer turn that reuses the
ordinal: the late revert drops it, its `turn_opened` brings it back with the turn still in
`reverted`, and later range repairs of it are refused for ever (`store-load.ts:878-882`).  (b) With
two rewinds on the wire, turns opened after them and a page read ahead, `applyRevert` with a carrier
not held drops a newer turn by ordinal.  "A successful newest-page load is the ONE writer of
`loaded`" forgets `applyTurnRange`.  A gap whose repair is refused is swallowed
(`store-load.ts:833`).

*Bodies.*  What is drawn piece by piece is in places not what drawing at once gives.  `BodyHolds` asks
for the same order but for two of these (a body that has *strayed*), where it asks that the same things
are shown, each once.
- An open thought is mounted at the tail though the window ends before it (`messages-blocks.ts:2320-2332`).
- A run's box whose driver is above the window: what is drawn later between the driver and the window
  goes above the box, which at once would stand on top (`captureInsertRef` 2851-2861, `mountHeadRange`
  1099), against 2885-2890.
- A driver that settled with no stage shown: any drop prunes its box (`pruneEmptyContainers` 1486-1495)
  while the driver stays in the window, against 3220-3223.
- A launch told by a later result in the middle of a group of tools puts its card above the group
  (`syncFolds` 825-874), and a stale map of owners folds two calls into one run's card until the next
  paint.
- A build called off as done leaves undrawn, until the next paint, what began being written meanwhile
  (`buildTurnBodyBatches` 2312-2318); a turn parked with its close held back keeps its open surface.

*Cards.*  A settled card can carry a silence marker (`messages-tools.ts:554-558` against
`tool-card.ts:492-495`); a failure that is mounted as one into a group the two before it made folded
stays folded away (`tool-group.ts:55-61`, 66-75); the resume of a closed turn's card draws its output
before its body and the first open appends a second (`tool-card.ts:700-702`), so it is said twice; a
chunk still on the stream when a page with its result is read is written again onto a whole output;
range repairs do not tell mounted cards.  `CardsHold` names the middle three.

*The reader and the rail.* A click on the rail may be dropped when its jump is superseded
(`turn-rail.ts:689-694`), and its `finally` deletes a mark that is not its own; growth within
`READER_CONTROL_MS` leaves a follower off the edge; a rewind and a new turn give the same count
(`turn_count`), which the index read takes for no change.

*Composer, steers, runs.* A prompt handed back after a failed send is not saved until the next key, nor
is the text of another chat whose debounce slot it took: typed again as it is, after a past prompt was
looked at, it is taken for saved (`composer-state.ts:254-266`); there is one `lastFailed` slot for all chats (`submit.ts`); a
refused discard puts rows back over a newer dock; a steer whose answer is lost is forgotten.  When
a chat is deleted elsewhere the store shows another one before the composer does, and what is typed
until the tab's frame comes is filed nowhere; a deletion learnt from a digest brings no such frame
(`sse-adapter.ts:437`), and the box is emptied only for the live chat (`composer-state.ts:325-332`),
so a second deletion in that window leaves the text to the chat shown next.  The model has the
stream's paired frames only.  A run whose first read is out when the stream breaks is never asked again (`run-store.ts:371-380`).  After a
break runs are read again only if the digest names `runs` (`sse-adapter.ts:387-391`), whose version
only a lease moves: a `run_progress` lost with the stream leaves the cell stale until something else
has the run read, though `run-store.ts:369-375` takes it for covered.
`clearRunHole` clears a newer hole (a step's answer while a range is out, a range that a request for
a later place joined); a range answered before a text was sealed puts its open tail back beside the
sealed entry.  `rebuildLiveRuns` can resurrect a finished run, and an answer that lands after a newer
frame was applied can take the tree back until the next read.  `forgetRun` drops the mark of a read of
the verbs that is still out, so a run shown again reads them twice, and the older answer may land last.

*Tabs.* A frame of a version in a gap can be taken for seen in `drain()` (rule 3 of
`tabs-sync.ts`); an older roll-back undoes a newer drop (`tabs.ts:1219`); a close refused after
another device's removal resurrects the tab; an order frame masked by a pending drop is lost.

*Panes.*
- Git: a failed read replaces the pane without harvesting its boxes; text typed during a commit is
  cleared by its answer; the status store joins a read that is older than what caused it.
- Pull requests: an empty answer counts as a read one (`git-prs-tab.ts:357-358`); a refresh begun
  before a merge brings its row back; a dialog's success closes whichever dialog is open.
- Servers: what was found is what was typed, not what was asked (`mcp-panels-search.ts:86-88`); a
  foreign row keeps its origin (`mcp-state.ts:474-478`); a masked secret followed by Enter wipes
  it; a refused toggle is rolled back over a newer list; an edit reverts another device's toggle.
- Forges: the row of an account signed out elsewhere is reused as it was left; `forges_changed`
  joins a list read already in flight; closing the pane leaves its device flow polling; a token
  form's success closes whatever pane its slot holds; a render in flight from before a clone
  overwrites the local names.
- Editor: a save that works does not update `loadedHash` (`editor-core.ts:356` against
  `editor-types.ts:115`); the first read of a file, answered after a diff against git filled its buffer,
  replaces what was typed there since (`loadFile`, `editor-openers.ts:366-417`, against 445-446); a
  conflict resolved while text typed since the last parse waits resolves the older text over it; a
  refused save does not show the promised diff; a refused save answered
  while another file is active is dropped without a word.
- Files: rows are reconciled by name alone and keep the folder they were mounted for
  (`files.ts:589-611`); a rename typed across a tab switch is committed in the new tab's folder
  (`files.ts:926`); a partial upload or a timed-out rename leaves the list stale; an upload's hide
  timer hides the next one's strip (`upload.ts:155-157`).
- Find: the one-shot flag of a return is spent on the outgoing switch, so coming back empties the
  box (`find-in-chat.ts:478-494`); a closed box shows all again (`search-popup.ts:170-178` against
  69); the server's search gets no signal (`find-in-chat.ts:500-503`).
- Questions: a question asked in a chat whose tab was just closed is queued for a chat nobody holds, and no
  snapshot drops it; a turn's close heard before the turns are read again sweeps nothing while the page
  still takes a turn that closed unheard for open (`handlers/turn.ts:65-76`), so a cancelled question's
  card stays; a permission whose answer fails has no card until the next reconnect; every
  `pending_snapshot` rebuilds every card, with what was half typed; one ask's end closes the banner
  its chat's others share.
- Cues: a cue that was dismissed is counted again after a reload (`attention.ts:294-298`, `468-476`
  against `boot-snapshot.ts:155-167`); a turn's parked "finished" body may be released by another's
  close; an answer to the permission prompt after the switch went off registers anyway
  (`notify.ts:335-340`).
- Tools: no poll follows a dispatch though one is promised (`tools.ts:1435-1436` against
  `1437-1514`), so who waits for an install whose end was lost with the stream waits for ever: the one
  case `WaiterIsTold` leaves out; a refused PATCH leaves its switch flipped and dead; a row that names dependents
  sends `force: true` at once, so a stale row is obeyed.
- Spec pages: an armed run of a page not shown fires late or never (the effect watches only
  `shown`); giving the page another parent chat, from a working one to an idle one, fires it into
  that chat; a failed fetch lets `runTask` judge a stale tree.

## 4. The proofs

| Module | Proves | About |
|---|---|---|
| `TurnProofs` | `TypeCorrect ClosingInvariant ClaimIsExclusive ClosesOnce DoorsHaveClosers SlotsHoldOpenTurns Refinement AdmissionIsExclusive HeldIsRetained OnlyRevisionsLose` | `TurnLifecycle` |
| `SequenceFacts` | lemmas on sequences, picking and induction | used below |
| `EntryLogAppend` | `ObserveIsScan` | one append of `EntryLog` |
| `EntryLogProofs` | `LogInvariant LogTypeCorrect ServedIndexIsRead AcknowledgedIsRead RewindsStay ServedIsClosed MergedIs` | `EntryLog` |
| `ClientTranscriptProofs` | `WindowIsTheLogs` | `ClientTranscript` |
| `ClientInputProofs` | `NothingBleeds ReadRowsStayOut RunsCatchUp RailLandsAsAsked ReaderStaysPut` | `ClientComposer`, `ClientSteers`, `ClientRuns`, `ClientRail`, `ClientReader` |
| `ClientPanesProofs` | `NoOldListLast MessagesAreKept PullsStayAsSeen NoOldServersLast PanelGoesForward` | `ClientGit`, `ClientPulls`, `ClientMcp`, `ClientForges` |
| `ClientFindProofs` | `FoundWasAsked SpecRunsAsPicked` | `ClientFind`, `ClientSpec` |

All theorems are for arbitrary sets of goroutines, turns, entries and scenarios and for arbitrary
bounds.  The assumptions are the named ones of the modules: of `TurnLifecycle`, that the bounds are
naturals and the kinds of goroutine disjoint; of `EntryLog` (`LogBoundsAssumption`) and of
`ClientTranscript` (`BoundsAssumption`), that the bounds are naturals and the entries' kinds known
ones; of the composer (`ChatsAssumption`), that no chat has the empty id, which the code keeps for
"no chat"; of steers, that `MaxSteers` is a natural, stated in the theorem; of runs
(`NodesAssumption`), that no leaf is named as a frame about no leaf is.  The rail, the reader's place, the
panes and the spec pages need none.

**Turns: closing.**  Typing alone is not inductive: a closer's target must be a real turn
(`Cleared` and `closes` are applied to it) and a sweeping goroutine's list must hold real turns, so
`TypeInv` adds `CloserNamed` and `TargetNamed`.  `ClosingInv` is `ClaimInv` and `SlotInv` on top of
typing.  `ClaimInv` says that a turn beyond `nextSeq` is untouched, an unclaimed turn has neither
close nor result, a claimed turn without result is in the hands of exactly one goroutine past its
claim, and the log holds a close only if that goroutine is past its effects.  `SlotInv` says what
the slots hold and that a shut door has own at work.  Goroutine by goroutine, an action either
leaves the closing state alone (lemma by lemma, `Quiet`) or is one of the claim, close, finish,
open, start, bind and revise steps.  `Refinement`: an opening step is the ledger's `Open`, a claim
its `Claim`, a close whose append succeeds its `Append`, `Finish` its `Publish`, and everything else
stutters; it rests on `ClosingInv`, which says a close is written only while no result is published.
`AdmissionInv` ties each holder's label to its source: a reservation is free exactly when nobody is
between taking it and giving it back.

**Turns: keeping.**  That no turn is lost is false (`RevisionLosesTurn`); `OnlyRevisionsLose` says how
far it is true, of every agent: the step that takes an open turn out of the registry publishes it, or
is a revision of a binding over the pending turn, and no other.  It follows from `ClosingInv`, action
by action: opening and starting find the slot free or the turn in it, `finish` clears the turn it
publishes, a binding moves `pending` to `own`.  `HeldIsRetained` has no hypothesis either.
`HandleInv` says each record is handed to one caller and counts its handles, `RouteInv` at each label
of a caller's path which of its locals is that handle; with them every release is of a handle the
caller has, and the last one drops the record.  The case to exclude is a turn that a revision took out
of the registry: its caller's release no longer finds it, so a closer that published it afterwards
would retain its record for ever.  `NamedInv` says there is none: whoever is still at work on such a
turn is the caller that holds its handle (`WorkerInv`), because a prompt pending behind another
one's own turn is aimed at by that caller only, and a sweep comes to it after `own` (`BehindInv`);
and no turn that is gone comes back (`GoneStays`).

**The log.**  `IInv` is inductive, and each conjunct is there for a step that needs it.
- `DiskInv`: the lines on disk are well formed (numbered, each of an opened turn, one close) up to
  torn bytes, which are last.
- `MemoryInv`: the served index is the scan of the lines it holds.  It exempts one line, the turn a
  rewind has minted as its carrier and not yet marked (`MintedIn`): the code marks it with the
  revert record's append, one line after.
- `Keeps`: every acknowledged entry, and everything about rewinds, is said twice, of the lines on
  disk and of the lines the index holds (`Held`), because a failed write may have left one more
  line on disk than the index knows.  For rewinds it has both bounds: each rewound prompt is hidden,
  and only what was asked for, or a carrier, is hidden.
- `TodoInv`: each line an operation still appends fits behind those before it; the closers a
  recovery still appends are those of every open turn a reader sees (`Recovers`).
- `ProjFits`: while the snapshot a replay was opened under still stands, no turn it knows has been
  rewound since, so a merge cannot bring one back.

`ObserveIsScan` shows for every well-formed file that the fold of one line is the scan of the longer
file; `MergedIs` shows that a merge leaves the file well formed, keeps every entry, and hides
neither more nor less: a record's window is a set of positions, and the argument is that an inserted
turn follows a surviving anchor, which is inside no window.  What a fold computes of a sequence of
any length is proved by induction; as the library's induction theorems take operators, `NatInduct`
and `SeqInduct` in `SequenceFacts` state it over sets, from well-founded induction.
`LogTypeCorrect` types every reachable state from the same invariant and the few variables it does
not mention (`AsideOK`).

**The window.**  `WindowHolds` is not inductive, for what the client seats comes off the wire or
out of an answer.  `TranscriptInv` adds that a frame on the wire names an entry of the log at its
place, that an answer carries a prefix of each log, and that a turn is opened once because the
turns opened are the first ones.  Those facts outlive the server's steps because a log only grows.
The rest follows handler by handler: a seat is the next place or is left out as a gap, a page is
merged by place, an eviction drops all.

**The composer.**  `NoBleed` is about texts at rest, and the next step may put into the box or a
draft what is under way.  `ComposerInv` therefore follows a text wherever it goes: `Kept` says that
what waits in a debounce slot, each save out, each send with its files, a read of a record, the
prompts shown in the transcript, the text browsing will put back and an edit's two texts belong to
the chat they will be given to; `ServerFits` and `FrameFits` say the same of the server and its
frames.  Every operation of the composer is a lemma about `Kept` for any client state, and the
actions follow.  The box is shared, so `Shown` ties it to the chat on show: the composer is that
chat's or nobody's.  It is nobody's only between a deletion's two frames, when the store has moved
on and the composer has not (`Waits`, from `Paired`: the server sends the two under one lock);
otherwise a second deletion could leave one chat's text in the box of the next.  The chat a text
belongs to is part of the text, so the theorem holds of any texts.

**Steers.**  `ReadStaysRead` lets a pending row off and is not inductive, as an answer confirms it.
`RowHolds` says of every row, pending or not, that the batch id it will be read under is unread, or
that a failed discard put it back.

**A live run.**  `RunCatchesUp` is about a client at rest, so `RunsInv` says how far the client may be
from the server at every other moment, and what will tell it.  Of the state: a cached cell is the run's
but for leaves that frames on the stream are about (`Current`), or a frame on its way will have it read
(`Asking`), or a read or a retry is owed (`Owed`); an answer not yet landed is as good unless another read
fell due (`stale`) or a frame was applied since it was asked for (`overtaken`, a mark of the model's
own, for the exception the property makes).  That needs the stream to
speak the truth: the last frame about a leaf says how far it is (`NodesTold`), and the last one that
speaks of the row says what it is (`RowTold`); both are lost with the stream, and all that is claimed
meanwhile is the shape of the client's record.  A return that reads again
(`Reread`: the digest names the `runs` subject, or the ring could not answer) re-establishes it: its
token has answered nothing yet (`answered \in 0 .. gaps`), so `invalidateRun` cannot take it for a
cause already read for, and a run is read or was not cached.  A return that reads nothing (`Unasked`:
the subject did not move, though progress frames were lost) leaves the cell as it is, and marks it
when it differs (`blind`) or a read out may (`overtaken`, `raced`): the property lets those off until
the next read lands, and the invariant carries the marks.  A retry fires under its cause, and that cause is none or has
been taken back (`RunFits`), so the ladder is not swallowed by the same test.  Of the verbs: those of a
run whose end has been told are an ended run's, or a read is out that will bring them (`VerbsHold`); a
read that a forgotten run left out is why the property lets `crossed` off.

**The turn rail.**  A landing is right if the jump that lands is the last one asked for and the chat on
show is its own; the code tests neither, only the generation (`ownsJump`).  `RailInv` says what the
generation stands for: no jump is of a later one than the rail's, and one of the rail's own names the
turn last asked for and the chat shown.  A click opens a generation for its own jump; a change of chat
and a reset open one for nobody; everything else that the rail draws leaves all four alone.

**The reader's place.**  `ReaderKept` is about one step, but a page that arrives is made up for by a
height measured when it was asked for.  `Measured` is what that needs: while a page is out, the height
is still the measured one, or the growth since is known (`grew`), which is the exception the property
names.  The offset must also never be negative, or the clamp would move whoever reads at the top.  What
is mounted above shifts the offset by as much as it shifts the line (`MadeUpStays`), what comes or goes
below shifts neither (`BelowStays`), each unless the box ends first; all else either leaves the box as it
was or has ended the reading.

**The forges panel.**  `NeverGoesBack` is about each step, and what it needs is an invariant of the
reads out: the read that may be drawn, the one of the newest generation, must not hold a list older
than the one on show.  `OneIsHeard` says there is one such read and that it takes the panel forward;
to keep it when the next read is handed the list that callers share, `ServedLast` says a shared list
once served is as new as every list that anyone holds.  Reads the panel has given up are part of it,
for a read that is stale now may have been the one that made the shared list.

**The changes pane and the server settings.**  Both properties speak of the moment when nothing is
under way, which no step preserves by itself: the step that makes it quiet is the answer of the last
read.  For git, `Fresh` says of the read itself, before its answer, that what it has brought or will
bring is no older than the last request whose success was heard, that one read at most is live, and
that with none live and none failed what is shown is as new; so a request that works while a read is
out must start another, as `reload` does.  For the servers, `Told` says it without stamps: as long as
no change of the configuration is on its way and no reread is due, the list being read is the
server's; and what is shown is the server's list once the read is answered, unless an event was
missed or undone, or a call is still out that showed its effect at once.  Calls of the other kinds
may be out meanwhile; the property itself asks for none, and would not be inductive.

**The commit boxes.**  What a box says is in its element while its section is drawn with one and in
`msgs` otherwise, so `MessageKept` is about the text wherever it is.  The invariant (`Boxed`) says no
more than that each repository has its section, box and text; what there is to prove is that each
paint, which takes the boxes' text into `msgs`, drops what is no longer listed and writes the new
boxes, says the same of every repository still listed (`PaintSays`), and that all that follows an
answer goes through such paints.

**The pull requests.**  A row taken off the list early is with its request, so `ListFits` says that
every pull request of the newest listing is in the tab or taken by a request still out; a refusal
then gives it back, unless its repository has left the listing, which has emptied what it promised.
That nothing else is merged than what was seen needs that no row and no request to merge is without
its commit (`Committed`, `AskFits`), for the forge compares only what it is told.

**The find boxes.**  `FoundIsAsked` is about a box at rest.  Its counter may speak for the marks or
for the list an answer gave, whichever a step owns, so the list on show must be of the chat on
screen; an answer brings the list, so the question still awaited must be about that chat too
(`Rooted`).  Nothing says so of the answers under way in general: runs are many, a chat is left
while they are out, and each is answered.  What saves it is the number: an open box awaits its last
run alone, `Shut` says a closed one awaits none, and a chat is only ever left by closing the box
(`AllClose`, `ChangeHolds`).  A text typed and not yet run suspends the claim about the marks
(`Told`), and the run that follows restores it whatever stood before (`SearchTells`).  For a page's
box, `PageHolds` says an answer to what it holds is on show or under way.

**The spec pages.**  `SpecRuns` says of a page at rest that it shows its file, and of a prompt already
sent that its text is what was picked, read after the click.  `SpecInv` says what stands for each
meanwhile.  A page's validator never outlives its reply but on a page whose file went (`PageOk`).  A page
is caught up, or the reply under way is the file as it is, or a read is remembered for after it
(`PageCaughtUp`), unless a frame for it is on its way or lost: the file only moves with such a frame, so
a write only adds a page to those excused.  What waits for a read, a mark to be judged or a task to be
sent, carries the version the file had when it was asked for, and a reply under way is never older than
what waits for it (`FetchOk`): this is what reading again instead of joining the read that is out is
for.  What a finished read hands on awaits its turn with its page at that version or later, or missed
(`DueOk`), and stays so because versions only grow.  For the checkpoints, a run is armed, waits for a
read that is out, for the one remembered, or for its turn, or has been fired; the invariant is that all
of these together (`ToCome` and `fired`) are no more than the answers given, page by page.

Only model-checked:
- `DoorReopens` and `DeathClosesTurns`: liveness, out of the prover's reach.
- `ReadsHold`: that the order is without repetition rests on ids and ordinals agreeing over every
  answer ever under way, an invariant about pairs of answers that is not written; `RewoundStaysOut`
  is about one rewind only, and `PageHeals` follows what a page does to everything else held.
- `LatestSaved`: with the exceptions its comment names (a text handed back, another chat's text whose
  debounce slot a hand-back took: the scenario `Handing` reaches both), no counterexample is known;
  its invariant is not written.
- `EditsKept`: it is about a step of any of the editor's operations on buffers that share one text
  area, and its exceptions (the area may hold another file's text; a read decided on before the edit)
  are not yet an invariant.
- The other client properties: their invariants are not written yet; see the plan.

## 5. Not modelled

In the turns: shutdown; a chat deleted in the middle of a turn; run-host chats; interrupt causes and
the outcome grade; the cancel-grace generations; session/load replay; model and mode switches; the
compaction reaper.  In the log: reads and paging, removal and tombstones, the entries' content.  Of
the server, the chat store, translation, steers, runs and leases, the scheduler, approvals, push,
the SSE ring, auth and the adapters.  Of the client, generated wire types, the rendering of markdown
and code, the drawn views of runs, the pages of settings, documents and rules, and the shell.  The
components are listed with their reasons in `PROJECT.json`.

## 6. Plan

1. Proofs of the client properties that rest on one sequence number or one list: the strip
   (`StripHolds`), the files' list, the questions; then `LatestSaved`.
2. `ReadsHold`, from an invariant on pairs of answers.
3. Server modules: `PromptSlot` (the cancel grace against a prompt's end and its successor on the
   same bridge), `RunLease`, `SteerQueue`.
