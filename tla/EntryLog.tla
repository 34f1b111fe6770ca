------------------------------ MODULE EntryLog ------------------------------
(***************************************************************************)
(* The entry log of ONE chat (internal/chat/entrylog.go): an append-only   *)
(* file of lines, the in-memory index built from it, and the operations    *)
(* that write it: opening and closing turns, entries inside and between    *)
(* turns, the record of a rewind, the merge of an agent's replay (internal/*)
(* agent/entry_merge.go), and the recovery every open of the log begins    *)
(* with.  A process may die at any line, inside one too; a write may fail  *)
(* or be refused.                                                          *)
(*                                                                         *)
(* One operation holds the log's mutex (and the chat store's lock) while   *)
(* it appends all its lines, so operations do not interleave; the lines    *)
(* the one in progress still has to write are in todo, and a crash, a      *)
(* failed write or a refused one comes between any two of them.            *)
(***************************************************************************)
EXTENDS Integers, FiniteSets, SequencesExt, Picking

CONSTANTS
    MaxTurns,     \* bound: turns the log ever holds
    MaxPrompts,   \* bound: those opened by prompts
    MaxLines,     \* the file's cap, in lines: an append past it is refused
    Entries,      \* the kinds of entry appended inside a turn
    MaxNotes,     \* bound: entries appended between turns
    MaxCrashes    \* bound: times the process dies (a plain restart counts)

ASSUME LogBoundsAssumption ==
    /\ MaxTurns \in Nat
    /\ MaxPrompts \in Nat
    /\ MaxLines \in Nat
    /\ Entries \subseteq {"tool_call", "tool_result", "turn_bind"}
    /\ MaxNotes \in Nat
    /\ MaxCrashes \in Nat

TurnIds == 1..MaxTurns
NoTurn  == 0
Session == 0      \* the session the chat's header names, among the reconciled names

----------------------------------------------------------------------------
\* The lines.  seq is stamped by the append; msg is the prompt a turn ran, as the
\* agent's own history names it.
Sources   == {"prompt", "event", "revert", "replay"}   \* replay: the merge inserted it
BodyKinds == {"tool_call", "tool_result", "turn_bind", "note"}
Raws      == {"ended", "unterminated"}

TurnOpenLine(t, source, n, msg) ==
    [kind |-> "turn_open", turn |-> t, seq |-> 0, source |-> source, n |-> n, msg |-> msg]
BodyLine(t, kind)       == [kind |-> kind, turn |-> t, seq |-> 0]
TurnCloseLine(t, raw)   == [kind |-> "turn_close", turn |-> t, seq |-> 0, raw |-> raw]
RevertLine(t, from, to) == [kind |-> "turn_revert", turn |-> t, seq |-> 0,
                            from |-> from, through |-> to]
ReconciledLine(t, name) == [kind |-> "reconciled", turn |-> t, seq |-> 0, names |-> name]
TornLine                == [kind |-> "torn"]   \* bytes that are no complete line

Lines ==
    [kind : {"turn_open"}, turn : TurnIds, seq : Nat, source : Sources, n : Nat, msg : TurnIds]
      \cup [kind : BodyKinds, turn : TurnIds, seq : Nat]
      \cup [kind : {"turn_close"}, turn : TurnIds, seq : Nat, raw : Raws]
      \cup [kind : {"turn_revert"}, turn : TurnIds, seq : Nat, from : TurnIds, through : TurnIds]
      \cup [kind : {"reconciled"}, turn : TurnIds, seq : Nat, names : TurnIds \cup {Session}]

\* An entry's identity: what stays of a line when a rewrite renumbers it.
KeyOf(l) == [kind |-> l.kind, turn |-> l.turn,
             of |-> CASE l.kind = "turn_revert" -> l.from
                      [] l.kind = "reconciled"  -> l.names
                      [] OTHER                  -> NoTurn]

----------------------------------------------------------------------------
\* The index (EntryLog, turnState), and what one sequential scan of the file makes of
\* it: rescanLocked, with the fold of every kind, the windows of every revert record
\* resolved against the completed order, and the carriers without a record.
NoRow == [source |-> "none", n |-> 0, msg |-> NoTurn, nextSeq |-> 0, call |-> "none",
          bound |-> FALSE, closed |-> FALSE, unterminated |-> FALSE,
          hasRevert |-> FALSE, reverted |-> FALSE]

Rows == [source : Sources \cup {"none"}, n : Nat, msg : TurnIds \cup {NoTurn},
         nextSeq : Nat, call : {"none", "open", "settled"}, bound : BOOLEAN,
         closed : BOOLEAN, unterminated : BOOLEAN, hasRevert : BOOLEAN,
         reverted : BOOLEAN]

EmptyIndex == [size |-> 0, order |-> <<>>, rows |-> [t \in TurnIds |-> NoRow],
               cleared |-> {}, newest |-> NoTurn]

Pos(order, t) == SelectInSeq(order, LAMBDA u : u = t)

\* markRevertedLocked: whether record l hides turn t, in this file order.
InWindow(order, l, t) ==
    /\ Pos(order, l.from) > 0
    /\ Pos(order, l.from) <= Pos(order, t)
    /\ Pos(order, t) <= Pos(order, l.through)
    /\ t # l.turn

OfKind(lines, kind) == Pick(lines, {i \in DOMAIN lines : lines[i].kind = kind})
OfTurn(lines, t)    == Pick(lines, {i \in DOMAIN lines : lines[i].turn = t})
HasKind(lines, kind) == \E i \in DOMAIN lines : lines[i].kind = kind

\* The turns in the order of their turn_open lines.
OrderOf(lines) == LET opens == OfKind(lines, "turn_open")
                  IN  [i \in DOMAIN opens |-> opens[i].turn]

\* One turn's row, but for reverted: that is read off the whole file.
RowOf(lines, t) ==
    LET mine   == OfTurn(lines, t)
        closes == OfKind(mine, "turn_close")
    IN  IF mine = <<>> THEN NoRow ELSE
        [source       |-> mine[1].source,
         n            |-> mine[1].n,
         msg          |-> mine[1].msg,
         nextSeq      |-> Last(mine).seq + 1,
         call         |-> IF ~HasKind(mine, "tool_call") THEN "none"
                          ELSE IF HasKind(mine, "tool_result") THEN "settled" ELSE "open",
         bound        |-> HasKind(mine, "turn_bind"),
         closed       |-> closes # <<>>,
         unterminated |-> closes # <<>> /\ Last(closes).raw = "unterminated",
         hasRevert    |-> HasKind(mine, "turn_revert"),
         reverted     |-> FALSE]

\* foldReconciledLocked and foldTurnBindLocked: what no longer asks for a merge.
Clears(l) == CASE l.kind = "reconciled" -> {l.names}
               [] l.kind = "turn_bind"  -> {Session}
               [] OTHER                 -> {}

\* markIncompleteCarriersLocked.
IncompleteCarrier(row) == row.source = "revert" /\ ~row.hasRevert

Rescan(lines) ==
    LET order   == OrderOf(lines)
        reverts == ToSet(OfKind(lines, "turn_revert"))
        rows    == [t \in TurnIds |-> RowOf(lines, t)]
    IN  [size    |-> Len(lines),
         order   |-> order,
         rows    |-> [t \in TurnIds |-> [rows[t] EXCEPT !.reverted =
                         \/ \E l \in reverts : InWindow(order, l, t)
                         \/ IncompleteCarrier(rows[t])]],
         cleared |-> UNION {Clears(lines[i]) : i \in DOMAIN lines},
         newest  |-> IF reverts = {} THEN NoTurn
                     ELSE Last(OfKind(lines, "turn_revert")).from]

\* scanFileLocked: the first line that cannot be read ends the log.
Readable(bytes) ==
    SubSeq(bytes, 1, SelectInSeq(Append(bytes, TornLine), LAMBDA l : l.kind = "torn") - 1)

----------------------------------------------------------------------------
VARIABLES
    disk,      \* the file: its lines, and the torn bytes a failed write left
    idx,       \* the index in memory
    status,    \* "down", "recovering" (OpenEntryLog closes open turns), "up"
    failed,    \* the latch a failed write sets
    todo,      \* the lines the operation in progress still appends
    live,      \* the turns the process's registry holds open
    rewind,    \* the rewind in progress: its turn, and how far it got
    proj,      \* the replay projection in flight
    crashes,
    \* history
    acked,     \* the entries whose append returned without an error
    hidden,    \* the prompts the recorded rewinds took
    asked      \* and those of a rewind whose record a failed write may have left on disk

memory  == <<idx, status, failed, todo, live, rewind, proj>>
history == <<acked, hidden, asked>>
vars    == <<disk, memory, crashes, history>>

NoRewind     == [turn |-> NoTurn, phase |-> "none"]
NoProjection == [open |-> FALSE, snapshot |-> NoTurn, turns |-> {}]

Surviving(ix) ==
    Pick(ix.order, {i \in DOMAIN ix.order : ~ix.rows[ix.order[i]].reverted})
SurvivingTurns(ix) == ToSet(Surviving(ix))

\* newestSurvivingLocked and turnCountLocked, over the turns outside a window.
Outside(ix, window) ==
    Pick(ix.order, {i \in DOMAIN ix.order : /\ ~ix.rows[ix.order[i]].reverted
                                           /\ ix.order[i] \notin window})
Newest(ix, window)  == IF Outside(ix, window) = <<>> THEN NoTurn
                       ELSE Last(Outside(ix, window))
TurnCount(ix)       == IF Surviving(ix) = <<>> THEN 0 ELSE ix.rows[Last(Surviving(ix))].n

\* survivingHighWaterLocked.
HighWater(ix, window) ==
    LET ns == {ix.rows[t].n : t \in ToSet(Outside(ix, window))}
    IN  IF ns = {} THEN 0 ELSE CHOOSE n \in ns : \A m \in ns : m <= n

\* revertWindowLocked: from t to the newest turn in file order.
Window(ix, t) == {u \in ToSet(ix.order) : Pos(ix.order, t) <= Pos(ix.order, u)}

Fresh(ix) == Len(ix.order) + 1    \* the id a new turn is given

Init ==
    /\ disk = <<>>
    /\ idx = EmptyIndex
    /\ status = "up"
    /\ failed = FALSE
    /\ todo = <<>>
    /\ live = {}
    /\ rewind = NoRewind
    /\ proj = NoProjection
    /\ crashes = 0
    /\ acked = {} /\ hidden = {} /\ asked = {}

\* The log's mutex is free and the log is served.
Ready == status = "up" /\ todo = <<>>

----------------------------------------------------------------------------
\* The append path (appendLocked): stamp the seq, write and sync the line, fold it.
Stamped(l) == [l EXCEPT !.seq = idx.rows[l.turn].nextSeq]

\* observeLocked, and applyRevertsLocked on the spot.
Observe(ix, l) ==
    LET row == ix.rows[l.turn]
        own == [row EXCEPT
                  !.nextSeq = l.seq + 1,
                  !.call = CASE l.kind = "tool_call"   -> "open"
                             [] l.kind = "tool_result" -> "settled"
                             [] OTHER                  -> @,
                  !.bound = @ \/ l.kind = "turn_bind",
                  !.closed = @ \/ l.kind = "turn_close",
                  !.unterminated = IF l.kind = "turn_close" THEN l.raw = "unterminated" ELSE @,
                  !.hasRevert = @ \/ l.kind = "turn_revert"]
        opened == [NoRow EXCEPT !.source = l.source, !.n = l.n, !.msg = l.msg, !.nextSeq = 1]
        rows   == [ix.rows EXCEPT ![l.turn] = IF l.kind = "turn_open" THEN opened ELSE own]
    IN  [size    |-> ix.size + 1,
         order   |-> IF l.kind = "turn_open" THEN Append(ix.order, l.turn) ELSE ix.order,
         rows    |-> IF l.kind # "turn_revert" THEN rows
                     ELSE [t \in TurnIds |-> [rows[t] EXCEPT
                              !.reverted = @ \/ InWindow(ix.order, l, t)]],
         cleared |-> ix.cleared \cup Clears(l),
         newest  |-> IF l.kind = "turn_revert" THEN l.from ELSE ix.newest]

\* What a rewind asked for: the prompts readable from its turn to the newest.
Takes(l) ==
    IF l.kind # "turn_revert" THEN {}
    ELSE {idx.rows[t].msg : t \in {u \in SurvivingTurns(idx) :
            Pos(idx.order, u) \in Pos(idx.order, l.from) .. Pos(idx.order, l.through)}}

Room == ~failed /\ Len(disk) < MaxLines

Written(lines) ==
    /\ Room
    /\ LET l == Stamped(Head(lines))
       IN  /\ disk' = Append(disk, l)
           /\ idx' = Observe(idx, l)
           /\ live' = CASE l.kind = "turn_open" /\ l.source = "prompt" -> live \cup {l.turn}
                        [] l.kind = "turn_close"                       -> live \ {l.turn}
                        [] OTHER                                       -> live
           /\ acked' = acked \cup {KeyOf(l)}
           /\ hidden' = hidden \cup Takes(l)
           /\ asked' = asked \cup Takes(l)
    /\ todo' = Tail(lines)
    /\ status' = IF Tail(lines) = <<>> THEN "up" ELSE status
    /\ UNCHANGED failed

\* Mutation: the mark is left to the next open.
WithoutCarrierUnmarked(lines) == idx

\* appendRevertLocked's deferred mark: the carrier a revert minted and gave no record.
WithoutCarrier(lines) ==
    LET l == Last(lines)
    IN  IF l.kind = "turn_revert" /\ IncompleteCarrier(idx.rows[l.turn])
        THEN [idx EXCEPT !.rows[l.turn].reverted = TRUE]
        ELSE idx

\* The operation returns its error: nothing more is appended.  A close that failed has
\* its turn finished by the registry all the same; a failed open of the log leaves none.
Abandon(lines) ==
    /\ todo' = <<>>
    /\ idx' = IF status = "up" THEN WithoutCarrier(lines) ELSE EmptyIndex
    /\ status' = IF status = "up" THEN "up" ELSE "down"
    /\ live' = IF Head(lines).kind = "turn_close" THEN live \ {Head(lines).turn} ELSE live
    /\ UNCHANGED <<acked, hidden>>

\* writeLineLocked latches; a log whose open failed is thrown away, latch and all.
Latch == status = "up"

\* A write or its sync fails: nothing, a part of the line or all of it is on disk.  A
\* process that dies inside a write leaves the same, and is this step and Crash.
WriteFails(lines) ==
    /\ Room
    /\ disk' \in {disk, Append(disk, TornLine), Append(disk, Stamped(Head(lines)))}
    /\ failed' = Latch
    /\ asked' = asked \cup Takes(Head(lines))
    /\ Abandon(lines)

\* The operations that run on a request's ctx; a turn's close and a merge do not.
CtxMayDie(lines) ==
    status = "recovering" \/ Last(lines).kind \in {"turn_open", "turn_revert", "note"}

\* appendLocked's early returns: the latch, the caller's dead ctx, the cap.
WriteRefused(lines) ==
    /\ ~Room \/ CtxMayDie(lines)
    /\ Abandon(lines)
    /\ UNCHANGED <<disk, failed, asked>>

\* An operation appends the first of its lines, and keeps the mutex for the others.
AppendFirst(lines) == Written(lines) \/ WriteFails(lines) \/ WriteRefused(lines)

AppendNext ==
    /\ todo # <<>>
    /\ AppendFirst(todo)
    /\ UNCHANGED <<rewind, proj, crashes>>

Crash ==
    /\ status # "down"
    /\ crashes < MaxCrashes
    /\ idx' = EmptyIndex
    /\ status' = "down"
    /\ failed' = FALSE
    /\ todo' = <<>>
    /\ live' = {}
    /\ rewind' = NoRewind
    /\ proj' = NoProjection
    /\ crashes' = crashes + 1
    /\ UNCHANGED <<disk, history>>

----------------------------------------------------------------------------
\* OpenEntryLog: drop the unreadable tail, scan, and close every surviving turn the scan
\* found open (closeUnterminatedLocked) before anything is served or appended.

\* Mutation: the tail is skipped and left on disk.
TruncatedNot(bytes) == bytes

\* dropTailLocked.
Truncated(bytes) == Readable(bytes)

\* Mutation: only the newest turn is looked at.
OpenTurnsNewest(ix) ==
    Pick(ix.order, {i \in DOMAIN ix.order : /\ ~ix.rows[ix.order[i]].reverted
                                           /\ ~ix.rows[ix.order[i]].closed
                                           /\ i = Len(ix.order)})

\* openTurnsLocked.
OpenTurns(ix) ==
    Pick(ix.order, {i \in DOMAIN ix.order : /\ ~ix.rows[ix.order[i]].reverted
                                           /\ ~ix.rows[ix.order[i]].closed})

\* synthesizeCloseLocked: the aborted result of the unsettled call, then the closer.
SynthesizedClose(ix, t) ==
    (IF ix.rows[t].call = "open" THEN <<BodyLine(t, "tool_result")>> ELSE <<>>)
        \o <<TurnCloseLine(t, "unterminated")>>

ClosersOf(ix) ==
    LET open == OpenTurns(ix)
    IN  FlattenSeq([i \in DOMAIN open |-> SynthesizedClose(ix, open[i])])

OpenEntryLog ==
    /\ status = "down"
    /\ disk' = Truncated(disk)
    /\ idx' = Rescan(Readable(disk))
    /\ todo' = ClosersOf(idx')
    /\ status' = IF todo' = <<>> THEN "up" ELSE "recovering"
    /\ UNCHANGED <<failed, live, rewind, proj, crashes, history>>

----------------------------------------------------------------------------
\* Turns (OpenTurn, the turn's entries, turnlog's Close) and the entries between them.
OpenTurn ==
    /\ Ready
    /\ Fresh(idx) <= MaxTurns
    /\ Cardinality({t \in TurnIds : idx.rows[t].source = "prompt"}) < MaxPrompts
    /\ AppendFirst(<<TurnOpenLine(Fresh(idx), "prompt", TurnCount(idx) + 1, Fresh(idx))>>)
    /\ UNCHANGED <<rewind, proj, crashes>>

\* turnlog's appends: one call at most, its result, the binding to the session.
AppendEntry(t) ==
    /\ Ready
    /\ \E kind \in Entries :
        /\ CASE kind = "tool_call"   -> idx.rows[t].call = "none"
             [] kind = "tool_result" -> idx.rows[t].call = "open"
             [] kind = "turn_bind"   -> ~idx.rows[t].bound
        /\ AppendFirst(<<BodyLine(t, kind)>>)
    /\ UNCHANGED <<rewind, proj, crashes>>

\* turnlog.Close's last append.  Its first ones, the aborted results of the calls that
\* are still open, are AppendEntry's; a latched or full log refuses all of them.
CloseTurn(t) ==
    /\ Ready
    /\ idx.rows[t].call # "open" \/ ~Room
    /\ AppendFirst(<<TurnCloseLine(t, "ended")>>)
    /\ UNCHANGED <<rewind, proj, crashes>>

\* The turn a lane-less entry joins.
BetweenTurns == Newest(idx, {})

\* The headerless turn minted when none survives.
EventTurn == TurnOpenLine(Fresh(idx), "event", TurnCount(idx) + 1, Fresh(idx))

AppendBetweenTurns ==
    /\ Ready
    /\ Len(OfKind(disk, "note")) < MaxNotes
    /\ \/ /\ BetweenTurns # NoTurn
          /\ AppendFirst(<<BodyLine(BetweenTurns, "note")>>)
       \/ /\ BetweenTurns = NoTurn
          /\ Fresh(idx) <= MaxTurns
          /\ AppendFirst(<<EventTurn, BodyLine(Fresh(idx), "note")>>)
    /\ UNCHANGED <<rewind, proj, crashes>>

----------------------------------------------------------------------------
\* A rewind (CmdRewindChat): the registry's check, the agent's own revert, and only
\* then Revert's record.  Nothing is held across the three.
RewindCheck(t) ==
    /\ Ready
    /\ rewind = NoRewind
    /\ live = {}
    /\ idx.rows[t].source \in {"prompt", "replay"}
    /\ rewind' = [turn |-> t, phase |-> "checked"]
    /\ UNCHANGED <<disk, idx, status, failed, todo, live, proj, crashes, history>>

\* The agent reverts, or refuses.  It commutes with the lines of an operation.
RewindAnswered ==
    /\ Ready
    /\ rewind.phase = "checked"
    /\ rewind' \in {[rewind EXCEPT !.phase = "reverted"], NoRewind}
    /\ UNCHANGED <<disk, idx, status, failed, todo, live, proj, crashes, history>>

\* appendRevertLocked: the record, in a carrier minted and closed first if need be.
RevertLines(t, carrier, to) ==
    LET record == RevertLine(carrier, t, to)
    IN  IF carrier # Fresh(idx) THEN <<record>> ELSE
        <<TurnOpenLine(carrier, "revert", HighWater(idx, Window(idx, t)) + 1, carrier),
          TurnCloseLine(carrier, "ended"), record>>

\* The carrier: the newest turn to survive outside the window, else a new one.
CarrierOf(t) ==
    LET outside == Newest(idx, Window(idx, t))
    IN  IF outside = NoTurn THEN Fresh(idx) ELSE outside

RecordRevert ==
    /\ Ready
    /\ rewind.phase = "reverted"
    /\ rewind' = NoRewind
    /\ LET t == rewind.turn
       IN  \/ /\ t \notin SurvivingTurns(idx)          \* ErrTurnNotInLog
              /\ UNCHANGED <<disk, idx, status, failed, todo, live, history>>
           \/ /\ t \in SurvivingTurns(idx)
              /\ CarrierOf(t) <= MaxTurns
              /\ AppendFirst(RevertLines(t, CarrierOf(t), Last(idx.order)))
    /\ UNCHANGED <<proj, crashes>>

----------------------------------------------------------------------------
\* The merge of a replay (OpenReplayProjection, swapProjectedTranscript, SwapMerged).

\* ReconcileTargets: the turns still closed by a synthesized closer and the session no
\* turn_bind names, unless a reconciled record cleared them.
TargetTurns(ix) ==
    Pick(ix.order, {i \in DOMAIN ix.order : /\ ~ix.rows[ix.order[i]].reverted
                                           /\ ix.rows[ix.order[i]].unterminated
                                           /\ ix.order[i] \notin ix.cleared})
Unadopted(ix)      == Session \notin ix.cleared
NeedsReconcile(ix) == TargetTurns(ix) # <<>> \/ Unadopted(ix)

\* The record turns the agent's history holds and pairing can recognise: they have
\* content or a binding, and no process is still writing them.  A rewind the agent
\* has made is no part of its history any more.
ReplayTurns ==
    {t \in SurvivingTurns(idx) \ live :
        /\ \/ idx.rows[t].call # "none"
           \/ idx.rows[t].bound
           \/ idx.rows[t].source = "replay"
        /\ rewind.phase = "reverted" => t \notin Window(idx, rewind.turn)}

\* The snapshot is taken before the load.  An older snapshot only refuses more, so the
\* two are one step here.  A projection still open is superseded: discarded, then this.
OpenReplayProjection ==
    /\ Ready
    /\ ~proj.open
    /\ proj' = [open |-> TRUE, snapshot |-> idx.newest, turns |-> ReplayTurns]
    /\ UNCHANGED <<disk, idx, status, failed, todo, live, rewind, crashes, history>>

DiscardReplayProjection ==
    /\ Ready
    /\ proj.open
    /\ proj' = NoProjection
    /\ UNCHANGED <<disk, idx, status, failed, todo, live, rewind, crashes, history>>

\* Mutation: the projection is not asked what it was built on.
NoRevertSinceUnchecked == TRUE

\* SwapMerged's gate 2.
NoRevertSince == idx.newest = proj.snapshot

Gates == NeedsReconcile(idx) /\ NoRevertSince

\* A merge: the paired turns the replay has an end for, the prompts it inserts turns
\* for, and the position they follow.
Held   == SubSeq(disk, 1, idx.size)       \* AllWithReverted reads what the index holds
Paired == proj.turns \cap SurvivingTurns(idx)
Stale  == SetToSeq({idx.rows[t].msg : t \in proj.turns \ SurvivingTurns(idx)})

Merges ==
    LET fresh == {msgs \in {Stale, Append(Stale, Fresh(idx) + Len(Stale))} :
                    Len(idx.order) + Len(msgs) <= MaxTurns}
    IN  UNION {[settled : SUBSET ({t \in Paired : idx.rows[t].unterminated}
                                    \cup (Fresh(idx) .. Fresh(idx) + Len(msgs) - 1)),
                msgs    : {msgs},
                anchor  : {0} \cup {Pos(idx.order, t) : t \in Paired}] : msgs \in fresh}

MergedOrder(m) ==
    SubSeq(idx.order, 1, m.anchor)
      \o [i \in DOMAIN m.msgs |-> Fresh(idx) + i - 1]
      \o SubSeq(idx.order, m.anchor + 1, Len(idx.order))

Kept(t)        == ~idx.rows[t].reverted      \* an inserted turn has no row yet
MergedKept(m)  == Pick(MergedOrder(m), {i \in DOMAIN MergedOrder(m) : Kept(MergedOrder(m)[i])})
CloserOf(m, t) == TurnCloseLine(t, IF t \in m.settled THEN "ended" ELSE "unterminated")

\* insertedTurn, keptTurn and mergeTurn: KAS's end replaces a synthesized closer, and a
\* paired turn nobody closed gets one.
MergedTurn(m, t) ==
    LET mine == OfTurn(Held, t)
    IN  IF t >= Fresh(idx)
        THEN <<TurnOpenLine(t, "replay", 0, m.msgs[t - Fresh(idx) + 1]), CloserOf(m, t)>>
        ELSE IF t \notin Paired THEN mine
        ELSE [i \in DOMAIN mine |->
                IF t \in m.settled /\ mine[i].kind = "turn_close"
                THEN [mine[i] EXCEPT !.raw = "ended"] ELSE mine[i]]
             \o (IF idx.rows[t].closed THEN <<>> ELSE <<CloserOf(m, t)>>)

\* renumber's n: a turn's place among the survivors.
OrdinalOf(m, t) == Pos(MergedKept(m), t)

Renumbered(m, t, group) ==
    [i \in DOMAIN group |->
        IF group[i].kind = "turn_open" /\ Kept(t)
        THEN [group[i] EXCEPT !.seq = i - 1, !.n = OrdinalOf(m, t)]
        ELSE [group[i] EXCEPT !.seq = i - 1]]

\* MergeEntries' second answer: whether anything moved.
Changed(m) ==
    \/ m.msgs # <<>>
    \/ \E t \in ToSet(idx.order) : Renumbered(m, t, MergedTurn(m, t)) # OfTurn(Held, t)

\* insertReconciled: one record per signal the merged turns still hold, the session's in
\* the newest survivor.
Verdict(m, t) ==
    LET merged   == MergedTurn(m, t)
        evidence == \E i \in DOMAIN merged :
                        merged[i].kind = "turn_close" /\ merged[i].raw = "unterminated"
    IN  (IF evidence /\ Kept(t) /\ t \notin idx.cleared THEN <<ReconciledLine(t, t)>> ELSE <<>>)
          \o (IF Unadopted(idx) /\ OrdinalOf(m, t) = Len(MergedKept(m)) /\ Kept(t)
              THEN <<ReconciledLine(t, Session)>> ELSE <<>>)

\* Rewrite's groups: each turn contiguous, in the merge's order.
Merged(m) ==
    LET order == MergedOrder(m)
    IN  FlattenSeq([i \in DOMAIN order |->
            Renumbered(m, order[i], MergedTurn(m, order[i]) \o Verdict(m, order[i]))])

\* The merged log takes the file's place by one rename, and the index is scanned anew.
\* Content the union adds to a paired turn is not told apart, so a merge may rewrite
\* with no visible change.  The cap is not asked.
SwapRewrites ==
    /\ Ready
    /\ proj.open
    /\ Gates
    /\ \E m \in {n \in Merges : Changed(n) \/ Paired # {}} : disk' = Merged(m)
    /\ idx' = Rescan(disk')
    /\ acked' = acked \cup {KeyOf(l) : l \in ToSet(disk')}
    /\ proj' = NoProjection
    /\ UNCHANGED <<status, failed, todo, live, rewind, crashes, hidden, asked>>

\* AppendReconciled's session form.
SessionRecord ==
    IF ~Unadopted(idx) THEN <<>>
    ELSE IF BetweenTurns # NoTurn THEN <<ReconciledLine(BetweenTurns, Session)>>
    ELSE <<EventTurn, TurnCloseLine(Fresh(idx), "ended"), ReconciledLine(Fresh(idx), Session)>>

\* clearReconcileSignals: the merge had nothing to add, and says so once per signal.
SwapClears ==
    /\ Ready
    /\ proj.open
    /\ Gates
    /\ proj.turns \subseteq SurvivingTurns(idx)
    /\ ~Changed([settled |-> {}, msgs |-> <<>>, anchor |-> 0])
    /\ BetweenTurns = NoTurn => Fresh(idx) <= MaxTurns
    /\ LET turns == TargetTurns(idx)
       IN  AppendFirst([i \in DOMAIN turns |-> ReconciledLine(turns[i], turns[i])] \o SessionRecord)
    /\ proj' = NoProjection
    /\ UNCHANGED <<rewind, crashes>>

SwapDiscards ==
    /\ Ready
    /\ proj.open
    /\ ~Gates
    /\ proj' = NoProjection
    /\ UNCHANGED <<disk, idx, status, failed, todo, live, rewind, crashes, history>>

----------------------------------------------------------------------------
Next ==
    \/ OpenEntryLog
    \/ OpenTurn
    \/ \E t \in live : AppendEntry(t) \/ CloseTurn(t)
    \/ AppendBetweenTurns
    \/ \E t \in SurvivingTurns(idx) : RewindCheck(t)
    \/ RewindAnswered
    \/ RecordRevert
    \/ OpenReplayProjection
    \/ DiscardReplayProjection
    \/ SwapRewrites
    \/ SwapClears
    \/ SwapDiscards
    \/ AppendNext
    \/ Crash

Spec == Init /\ [][Next]_vars

----------------------------------------------------------------------------
\* What the log promises.
AtRest == status = "up" /\ todo = <<>>

\* Type invariant.  Torn bytes are the last of the file: the latch and the truncation
\* at the next open see to it that nothing is ever appended behind them.
TypeOK ==
    /\ \A i \in DOMAIN disk : disk[i] \in Lines \/ (disk[i] = TornLine /\ i = Len(disk))
    /\ idx.size \in 0..Len(disk)
    /\ idx.order \in Seq(TurnIds)
    /\ idx.rows \in [TurnIds -> Rows]
    /\ idx.cleared \subseteq TurnIds \cup {Session}
    /\ idx.newest \in TurnIds \cup {NoTurn}
    /\ status \in {"down", "recovering", "up"}
    /\ failed \in BOOLEAN
    /\ todo \in Seq(Lines)
    /\ live \subseteq TurnIds
    /\ rewind \in [turn : TurnIds \cup {NoTurn}, phase : {"none", "checked", "reverted"}]
    /\ proj \in [open : BOOLEAN, snapshot : TurnIds \cup {NoTurn}, turns : SUBSET TurnIds]
    /\ crashes \in 0..MaxCrashes
    /\ hidden \subseteq TurnIds /\ asked \subseteq TurnIds

\* The index of a log that is served is the one the next open will read off the same
\* lines, after every append, every failed or refused one, and every merge ("so the two
\* cannot build different indexes", observeLocked).
IndexMatchesDisk == AtRest => idx = Rescan(Held)

\* An entry whose append returned without an error can be read by every later open: no
\* torn line ends the log in front of it, and no merge drops it (appendLocked,
\* dropTailLocked, Rewrite).
AckedIsDurable == acked \subseteq {KeyOf(l) : l \in ToSet(Readable(disk))}

\* A recorded rewind is never undone: no prompt it took is shown again, by a restart, by
\* a merge that moved its record among the turns, or by a replay that predates it
\* (markRevertedLocked, SwapMerged's gate 2).
RewoundStaysOut == \A t \in SurvivingTurns(idx) : idx.rows[t].msg \notin hidden

\* And no rewind hides more than it was asked to: not a turn opened since, not one a merge
\* put among those it took.  A carrier minted for a record is no prompt of the chat.
OnlyAskedHidden ==
    \A t \in ToSet(idx.order) :
        idx.rows[t].reverted => idx.rows[t].source = "revert" \/ idx.rows[t].msg \in asked

\* A rewind of a served log is what the log says it is, no less and no more.
RewindsHold == AtRest => RewoundStaysOut /\ OnlyAskedHidden

\* A log is served only once every turn a reader sees in it is closed (OpenEntryLog).
ServedClosed == [][status # "up" /\ status' = "up"
                       => \A t \in SurvivingTurns(idx') : idx'.rows[t].closed]_vars

\* Store.Revert: "The caller holds the lifecycle mutex across the registry check and
\* this call", so that no turn the registry holds open is hidden by a rewind.
LiveTurnsSurvive == \A t \in live : ~idx.rows[t].reverted

============================================================================
