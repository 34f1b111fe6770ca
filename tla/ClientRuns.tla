----------------------------- MODULE ClientRuns -----------------------------
(***************************************************************************)
(* One workflow run as the web client holds it (run-store.ts,              *)
(* handlers/run.ts, run-step-transcript.ts): the cached state that         *)
(* run_progress frames patch and reads of GET /api/runs/<id> replace, the  *)
(* coalescing and the retry ladder of those reads, the verbs it may        *)
(* offer, the row of runs that are live, and the log of the turn its step  *)
(* is writing.                                                             *)
(*                                                                         *)
(* Frames reach the client in order and are lost when the stream breaks;   *)
(* the answer of a read is a snapshot taken at some moment between its     *)
(* request and its arrival, and nothing orders it against the frames.  A   *)
(* node is the stage it has reached; the shape of the tree is a counter.   *)
(***************************************************************************)
EXTENDS Integers, Sequences, FiniteSets

CONSTANTS
    RunNodes,      \* the leaves of the run's tree
    MaxLog,        \* bound: entries of the turn the step writes
    RetryLimit,    \* RUN_RETRY_LIMIT
    RunScenarios   \* budgets of what may happen

VARIABLES
    rn,      \* the client's view of the run
    rnsrv,   \* the run on the server
    rnnet,   \* frames on the stream, oldest first
    rnleft   \* what may still happen

rnvars == <<rn, rnsrv, rnnet, rnleft>>

\* A frame about no node names none.
ASSUME NodesAssumption == "none" \notin RunNodes

Nil == <<>>
Uncaused == 0

SpendRun(field) == rnleft[field] > 0 /\ rnleft' = [rnleft EXCEPT ![field] = @ - 1]

-----------------------------------------------------------------------------
(* Reads of the run's state.                                               *)

(* Issued under its cause, which counts as answered from here on.          *)
StartRead(x, cause) ==
    [x EXCEPT !.read = <<cause>>, !.overtaken = FALSE,
              !.answered = IF cause = Uncaused THEN @ ELSE cause]

(* A mutant of Invalidate: an invalidation while a read is out is dropped. *)
InvalidateOnce(x, cause) ==
    IF (cause # Uncaused /\ x.answered = cause) \/ x.read # Nil THEN x ELSE StartRead(x, cause)

(* A cause already read for is a no-op; a read that is out makes the next  *)
(* one due when it settles.                                                *)
Invalidate(x, cause) ==
    IF cause # Uncaused /\ x.answered = cause THEN x
    ELSE IF x.read # Nil THEN [x EXCEPT !.stale = <<cause>>]
    ELSE StartRead(x, cause)

NoRetry == [due |-> Nil, attempts |-> 0]

(* A read that produced nothing is asked again, a few times. *)
ScheduleRetry(x, cause) ==
    IF x.retry.attempts >= RetryLimit THEN [x EXCEPT !.retry = NoRetry, !.gaveUp = TRUE]
    ELSE [x EXCEPT !.retry = [due |-> <<cause>>, attempts |-> @.attempts + 1]]

(* fetchRun after its answer: the state, or the ladder for a failure the   *)
(* server did not settle, then the read that fell due meanwhile.           *)
ReadSettles(x, cause, ans) ==
    LET done == [x EXCEPT !.read = Nil]
        y == CASE ans.kind = "state" -> [done EXCEPT !.cell = ans.state, !.retry = NoRetry,
                                                     !.gaveUp = FALSE, !.blind = x.overtaken]
               [] ans.kind = "gone" ->
                      [done EXCEPT !.retry = NoRetry, !.gaveUp = TRUE,
                                   !.answered = IF cause = Uncaused THEN @ ELSE Uncaused]
               [] ans.kind = "failed" ->
                      ScheduleRetry([done EXCEPT !.answered = IF cause = Uncaused THEN @ ELSE Uncaused],
                                    cause)
    IN  IF y.stale = Nil THEN y ELSE StartRead([y EXCEPT !.stale = Nil], y.stale[1])

(* The verbs: the same coalescing, with no ladder.  `late` are the reads   *)
(* that are out and no longer counted as such.                             *)
AskControls(c) == [c EXCEPT !.read = <<"asked">>, !.crossed = c.late # {}]

InvalidateControls(x) ==
    [x EXCEPT !.ctl = IF @.read # Nil THEN [@ EXCEPT !.stale = TRUE] ELSE AskControls(@)]

(* An answer that settles a read no longer counted also stops counting the *)
(* one that is.                                                            *)
ControlsSettle(x, ok, verbs, late) ==
    LET c == [x.ctl EXCEPT !.val = IF ok THEN verbs ELSE @,
                           !.lost = ~ok, !.read = Nil, !.stale = FALSE, !.late = late]
    IN  [x EXCEPT !.ctl = IF x.ctl.stale THEN AskControls(c) ELSE c]

(* forgetRun: a run nothing asks for any more leaves the cache, and a read *)
(* still out puts it back; a read of the verbs is out, and not known to be. *)
ForgetRun(x) ==
    IF x.shown THEN x
    ELSE [x EXCEPT !.cell = Nil, !.stale = Nil, !.answered = Uncaused, !.retry = NoRetry,
                   !.overtaken = @ \/ x.read # Nil,
                   !.ctl = [val |-> "", read |-> Nil, stale |-> FALSE, lost |-> FALSE,
                            late |-> @.late \cup ({@.read} \ {Nil}), crossed |-> @.crossed \/ @.read # Nil],
                   !.log = Nil, !.open = FALSE, !.hole = FALSE, !.blind = FALSE, !.gaveUp = FALSE]

(* A frame that names a node the cached tree holds is applied and needs no *)
(* read; any other frame of the run asks for one.                          *)
ApplyProgress(x, f) ==
    IF x.cell = Nil \/ f.node = "none" THEN Invalidate(x, Uncaused)
    ELSE IF f.shape # x.cell.shape THEN Invalidate(x, Uncaused)
    ELSE [x EXCEPT !.cell.nodes[f.node] = f.stage,
                   !.overtaken = @ \/ x.read # Nil]

-----------------------------------------------------------------------------
(* The row of live runs.                                                   *)

NoteLive(x, executing) == [x EXCEPT !.live = IF executing THEN "executing" ELSE "parked"]
NoteSettled(x) == [x EXCEPT !.live = "no"]

(* A list of live runs replaces the row, and asks for the runs it names.   *)
AdoptLive(x, row, cause) ==
    LET y == [x EXCEPT !.live = row]
    IN  IF row = "no" \/ cause = Nil THEN y ELSE Invalidate(y, cause[1])

-----------------------------------------------------------------------------
(* The log of the step's turn.  An entry is its place.                     *)

(* A gap is marked and the range past what is held asked for, once. *)
MarkRunHole(x) ==
    [x EXCEPT !.hole = TRUE,
              !.range = IF @ = Nil THEN <<IF x.log = Nil THEN 0 ELSE Len(x.log)>> ELSE @]

OpenRunTurn(x) == IF x.log # Nil THEN x ELSE [x EXCEPT !.log = <<0>>]

AppendRunEntry(x, seq) ==
    IF x.log = Nil THEN MarkRunHole(x)
    ELSE IF seq # Len(x.log)
         THEN IF seq < Len(x.log) /\ x.log[seq + 1] = seq THEN x ELSE MarkRunHole(x)
         ELSE [x EXCEPT !.log = Append(@, seq)]

(* A streamed text opens, grows and is sealed as the next entry; a delta   *)
(* or a seal of a text that is not the open one is a gap.                  *)
OpenRunEntry(x) == IF x.log = Nil THEN MarkRunHole(x) ELSE [x EXCEPT !.open = TRUE]

ApplyRunDelta(x) == IF x.log = Nil \/ ~x.open THEN MarkRunHole(x) ELSE x

SealRunEntry(x, seq) ==
    IF x.log = Nil \/ ~x.open THEN MarkRunHole(x)
    ELSE AppendRunEntry([x EXCEPT !.open = FALSE], seq)

(* The entries of an answer, one after the other from a place on: the      *)
(* first of the turn opens it, those held are dropped, those that fit are  *)
(* appended, and one past the end is a gap.                                *)
Seat(x, from, len) ==
    LET y    == IF from = 0 THEN OpenRunTurn(x) ELSE x
        held == IF y.log = Nil THEN 0 ELSE Len(y.log)
    IN  IF from >= len THEN x
        ELSE IF y.log = Nil \/ from > held THEN MarkRunHole(y)
        ELSE [y EXCEPT !.log = @ \o [i \in 1 .. (len - held) |-> held + i - 1]]

(* The answer of a step read is the whole turn; that of a range clears the *)
(* hole only if what is held reaches its end, and asks for no more than    *)
(* the gap it met did.                                                     *)
AdoptStep(x, ans) ==
    IF ans.len = 0 THEN x
    ELSE [Seat(x, 0, ans.len) EXCEPT !.open = ans.open, !.hole = FALSE]

AdoptRange(x, from, ans) ==
    LET y == Seat(x, from, ans.len)
    IN  IF y.log = Nil THEN y
        ELSE [y EXCEPT !.open = ans.open, !.hole = @ /\ from < ans.len /\ Len(y.log) < ans.len]

-----------------------------------------------------------------------------
(* The server.                                                             *)

Live(s) == IF s.status = "done" THEN "no" ELSE IF s.status = "running" THEN "executing" ELSE "parked"
StateOf(s) == [nodes |-> s.nodes, shape |-> s.shape, status |-> s.status]

RunFrame(k) == [kind |-> k, node |-> "none", stage |-> 0, shape |-> 0, seq |-> 0, row |-> "no"]
Sends(f) == rnnet' = IF rnsrv.stream THEN Append(rnnet, f) ELSE rnnet

NodeMoves ==
    /\ SpendRun("moves") /\ rnsrv.status = "running"
    /\ \E n \in RunNodes :
         /\ rnsrv.nodes[n] < 2
         /\ rnsrv' = [rnsrv EXCEPT !.nodes[n] = @ + 1]
         /\ Sends([RunFrame("progress") EXCEPT !.node = n, !.stage = rnsrv.nodes[n] + 1,
                                            !.shape = rnsrv.shape])
    /\ UNCHANGED rn

(* A loop iterates or steps are queued: the tree's shape changes. *)
TreeGrows ==
    /\ SpendRun("shapes") /\ rnsrv.status = "running"
    /\ rnsrv' = [rnsrv EXCEPT !.shape = @ + 1]
    /\ Sends(RunFrame("progress"))
    /\ UNCHANGED rn

(* The run parks for an answer, or pauses, and goes on: its deadline is    *)
(* dropped and set again, which is what moves the lease set.               *)
RunParks ==
    /\ SpendRun("parks") /\ rnsrv.status = "running"
    /\ rnsrv' = [rnsrv EXCEPT !.status = "parked", !.leases = @ + 1]
    /\ rnnet' = IF rnsrv.stream THEN rnnet \o <<RunFrame("paused"), RunFrame("input")>> ELSE rnnet
    /\ UNCHANGED rn

RunResumes ==
    /\ rnsrv.status = "parked"
    /\ rnsrv' = [rnsrv EXCEPT !.status = "running", !.leases = @ + 1]
    /\ Sends(RunFrame("started"))
    /\ UNCHANGED <<rn, rnleft>>

RunEnds ==
    /\ SpendRun("ends") /\ rnsrv.status # "done"
    /\ rnsrv' = [rnsrv EXCEPT !.status = "done", !.leases = @ + 1]
    /\ Sends(RunFrame("finished"))
    /\ UNCHANGED rn

(* The step writes: its turn opens, then an entry appended whole, or a     *)
(* text opened, streamed and sealed.                                       *)
StepWrites ==
    /\ SpendRun("writes") /\ rnsrv.status = "running" /\ rnsrv.len < MaxLog /\ ~rnsrv.open
    /\ \/ /\ rnsrv' = [rnsrv EXCEPT !.len = @ + 1]
          /\ Sends([RunFrame(IF rnsrv.len = 0 THEN "turn" ELSE "entry") EXCEPT !.seq = rnsrv.len])
       \/ /\ rnsrv.len > 0
          /\ rnsrv' = [rnsrv EXCEPT !.open = TRUE]
          /\ Sends(RunFrame("opened"))
    /\ UNCHANGED rn

StepSeals ==
    /\ rnsrv.open
    /\ rnsrv' = [rnsrv EXCEPT !.open = FALSE, !.len = @ + 1]
    /\ rnnet' = IF rnsrv.stream THEN rnnet \o <<RunFrame("delta"), [RunFrame("seal") EXCEPT !.seq = rnsrv.len]>>
                ELSE rnnet
    /\ UNCHANGED <<rn, rnleft>>

-----------------------------------------------------------------------------
(* What reaches the client.                                                *)

OnFrame(x, f) ==
    CASE f.kind = "started"  -> Invalidate(NoteLive(x, TRUE), Uncaused)
      [] f.kind = "progress" -> ApplyProgress(NoteLive(x, TRUE), f)
      [] f.kind = "paused"   -> ApplyProgress(NoteLive(x, FALSE), f)
      [] f.kind = "input"    -> NoteLive(x, FALSE)
      [] f.kind = "finished" -> InvalidateControls(Invalidate(NoteSettled(x), Uncaused))
      [] f.kind = "connected" -> AdoptLive(x, f.row, Nil)
      [] f.kind = "turn"     -> OpenRunTurn(x)
      [] f.kind = "entry"    -> AppendRunEntry(x, f.seq)
      [] f.kind = "opened"   -> OpenRunEntry(x)
      [] f.kind = "delta"    -> ApplyRunDelta(x)
      [] f.kind = "seal"     -> SealRunEntry(x, f.seq)

FrameLands ==
    /\ rnnet # <<>>
    /\ rn' = [OnFrame(rn, Head(rnnet)) EXCEPT
                 !.raced = @ \/ (rn.list # Nil /\ Head(rnnet).kind # "connected")]
    /\ rnnet' = Tail(rnnet)
    /\ UNCHANGED <<rnsrv, rnleft>>

StreamDrops ==
    /\ SpendRun("breaks") /\ rnsrv.stream
    /\ rnsrv' = [rnsrv EXCEPT !.stream = FALSE]
    /\ rnnet' = <<>>
    /\ UNCHANGED rn

(* The cached runs and the list of live ones are read again, under one     *)
(* token.  A run whose first read is still out is not cached yet, so       *)
(* nothing asks again for it.                                              *)
Reread(x) ==
    LET token == x.gaps + 1
        y == [x EXCEPT !.gaps = token, !.list = <<token>>, !.raced = FALSE]
    IN  IF x.cell = Nil /\ ~x.shown THEN [y EXCEPT !.overtaken = @ \/ x.read # Nil]
        ELSE Invalidate(y, token)

(* Nothing is asked for: an answer made before now has missed the outage,  *)
(* and so has a cell that is no longer the run.                            *)
Unasked(x) ==
    [x EXCEPT !.gaps = @ + 1, !.overtaken = @ \/ Len(x.read) = 2, !.raced = @ \/ Len(x.list) = 2,
              !.blind = @ \/ (x.cell # Nil /\ x.cell # StateOf(rnsrv))]

(* The turn's stamp is the newest entry held of it, and gone with the turn: *)
(* a range is asked for when it has moved, and nothing else is read.       *)
Rerange(x) ==
    IF x.log = Nil \/ x.range # Nil \/ (Len(x.log) = rnsrv.len /\ rnsrv.status # "done") THEN x
    ELSE [x EXCEPT !.range = <<Len(x.log)>>]

(* The stream reconnects: its first frame states the live runs.  A new     *)
(* epoch forgets every stamp and reads everything again.  Otherwise the    *)
(* stamps held are compared: `runs`, the version of the lease set, held    *)
(* once a list has been read, moves with the leases of this run or of      *)
(* another, and not with its progress.  The comparison may have no answer. *)
StreamReturns ==
    /\ ~rnsrv.stream
    /\ rnsrv' = [rnsrv EXCEPT !.stream = TRUE]
    /\ rnnet' = <<[RunFrame("connected") EXCEPT !.row = Live(rnsrv)]>>
    /\ \/ rn' = [Reread(rn) EXCEPT !.held = Nil] /\ UNCHANGED rnleft
       \/ rn.held # Nil /\ rn' = Rerange(Reread(rn)) /\ UNCHANGED rnleft
       \/ rn.held \in {Nil, <<rnsrv.leases>>} /\ rn' = Rerange(Unasked(rn)) /\ UNCHANGED rnleft
       \/ SpendRun("fails") /\ rn' = Unasked(rn)

ReadServed ==
    /\ Len(rn.read) = 1
    /\ \/ rn' = [rn EXCEPT !.read = Append(@, [kind |-> "state", state |-> StateOf(rnsrv)])] /\ UNCHANGED rnleft
       \/ SpendRun("fails") /\ rn' = [rn EXCEPT !.read = Append(@, [kind |-> "failed"])]
       \/ SpendRun("gones") /\ rn' = [rn EXCEPT !.read = Append(@, [kind |-> "gone"])]
    /\ UNCHANGED <<rnsrv, rnnet>>

ReadLands ==
    /\ Len(rn.read) = 2
    /\ rn' = ReadSettles(rn, rn.read[1], rn.read[2])
    /\ UNCHANGED <<rnsrv, rnnet, rnleft>>

(* The timer runs out: its slot empties, and the read goes through the     *)
(* same door under its cause.                                              *)
RetryFires ==
    /\ rn.retry.due # Nil
    /\ rn' = Invalidate([rn EXCEPT !.retry.due = Nil], rn.retry.due[1])
    /\ UNCHANGED <<rnsrv, rnnet, rnleft>>

ListServed ==
    /\ Len(rn.list) = 1
    /\ rn' = [rn EXCEPT !.list = Append(@, Live(rnsrv)), !.stamp = rnsrv.leases]
    /\ UNCHANGED <<rnsrv, rnnet, rnleft>>

ListLands ==
    /\ Len(rn.list) = 2
    /\ rn' = [AdoptLive(rn, rn.list[2], <<rn.list[1]>>) EXCEPT !.list = Nil, !.rowBlind = rn.raced,
                                                            !.held = <<rn.stamp>>]
    /\ UNCHANGED <<rnsrv, rnnet, rnleft>>

ControlsServed ==
    /\ \E ans \in {<<"ok", rnsrv.status>>, <<"failed", "">>} :
         /\ IF ans[1] = "ok" THEN UNCHANGED rnleft ELSE SpendRun("fails")
         /\ \/ rn.ctl.read = <<"asked">> /\ rn' = [rn EXCEPT !.ctl.read = ans]
            \/ /\ <<"asked">> \in rn.ctl.late
               /\ rn' = [rn EXCEPT !.ctl.late = (@ \ {<<"asked">>}) \cup {ans}]
    /\ UNCHANGED <<rnsrv, rnnet>>

ControlsLand ==
    /\ \/ /\ Len(rn.ctl.read) = 2
          /\ rn' = ControlsSettle(rn, rn.ctl.read[1] = "ok", rn.ctl.read[2], rn.ctl.late)
       \/ \E ans \in rn.ctl.late :
            /\ Len(ans) = 2
            /\ rn' = ControlsSettle(rn, ans[1] = "ok", ans[2],
                                    (rn.ctl.late \ {ans}) \cup ({rn.ctl.read} \ {Nil}))
    /\ UNCHANGED <<rnsrv, rnnet, rnleft>>

(* The range of the turn past what was held, unless it has no answer, and  *)
(* the whole of it.                                                        *)
LogNow == [len |-> rnsrv.len, open |-> rnsrv.open]

RangeServed ==
    /\ Len(rn.range) = 1
    /\ \/ rn' = [rn EXCEPT !.range = Append(@, LogNow)] /\ UNCHANGED rnleft
       \/ SpendRun("fails") /\ rn' = [rn EXCEPT !.range = Nil]
    /\ UNCHANGED <<rnsrv, rnnet>>

RangeLands ==
    /\ Len(rn.range) = 2
    /\ rn' = AdoptRange([rn EXCEPT !.range = Nil], rn.range[1], rn.range[2])
    /\ UNCHANGED <<rnsrv, rnnet, rnleft>>

(* A settled step is shown: its transcript is read, unless one is out or   *)
(* the last read settled; a hole of it drops the verdict and reads again.  *)
StepShown ==
    /\ SpendRun("steps") /\ rn.shown /\ rn.step.read = Nil
    /\ rn.step.state # "ready" \/ rn.hole
    /\ rn' = [rn EXCEPT !.step = [state |-> "loading", read |-> <<"asked">>]]
    /\ UNCHANGED <<rnsrv, rnnet>>

StepServed ==
    /\ Len(rn.step.read) = 1
    /\ \/ rn' = [rn EXCEPT !.step.read = <<"ok", LogNow>>] /\ UNCHANGED rnleft
       \/ SpendRun("fails") /\ rn' = [rn EXCEPT !.step.read = <<"failed", LogNow>>]
    /\ UNCHANGED <<rnsrv, rnnet>>

StepLands ==
    /\ Len(rn.step.read) = 2
    /\ LET ok == rn.step.read[1] = "ok"
           x  == [rn EXCEPT !.step = [read |-> Nil, state |-> IF ok THEN "ready" ELSE "unavailable"]]
       IN  rn' = IF ok THEN AdoptStep(x, rn.step.read[2]) ELSE x
    /\ UNCHANGED <<rnsrv, rnnet, rnleft>>

(* The run's tab opens, which reads it and its verbs, or closes; a card    *)
(* that is disposed forgets the run nothing shows.                         *)
ShowRun ==
    /\ SpendRun("shows") /\ ~rn.shown
    /\ rn' = InvalidateControls(Invalidate([rn EXCEPT !.shown = TRUE], Uncaused))
    /\ UNCHANGED <<rnsrv, rnnet>>

HideRun ==
    /\ rn.shown
    /\ rn' = [rn EXCEPT !.shown = FALSE, !.step = [state |-> "none", read |-> Nil]]
    /\ UNCHANGED <<rnsrv, rnnet, rnleft>>

CardDisposed ==
    /\ SpendRun("cards")
    /\ rn' = ForgetRun(rn)
    /\ UNCHANGED <<rnsrv, rnnet>>

-----------------------------------------------------------------------------
RunsInit ==
    /\ \E held \in {Nil, <<0>>} :
       rn = [cell |-> Nil, read |-> Nil, stale |-> Nil, answered |-> Uncaused, retry |-> NoRetry,
             overtaken |-> FALSE, blind |-> FALSE, gaveUp |-> FALSE,
             ctl |-> [val |-> "", read |-> Nil, stale |-> FALSE, lost |-> FALSE, late |-> {},
                      crossed |-> FALSE],
             live |-> "executing", list |-> Nil, raced |-> FALSE, rowBlind |-> FALSE, gaps |-> 0,
             stamp |-> 0, held |-> held,
             log |-> Nil, open |-> FALSE, hole |-> FALSE, range |-> Nil,
             step |-> [state |-> "none", read |-> Nil], shown |-> FALSE]
    /\ rnsrv = [nodes |-> [n \in RunNodes |-> 0], shape |-> 0, status |-> "running",
                len |-> 0, open |-> FALSE, stream |-> TRUE, leases |-> 0]
    /\ rnnet = <<RunFrame("started")>>
    /\ rnleft \in RunScenarios

RunsNext ==
    \/ NodeMoves \/ TreeGrows \/ RunParks \/ RunResumes \/ RunEnds \/ StepWrites \/ StepSeals
    \/ FrameLands \/ StreamDrops \/ StreamReturns \/ ReadServed \/ ReadLands \/ RetryFires
    \/ ListServed \/ ListLands \/ ControlsServed \/ ControlsLand \/ RangeServed \/ RangeLands
    \/ StepShown \/ StepServed \/ StepLands \/ ShowRun \/ HideRun \/ CardDisposed

RunsSpec == RunsInit /\ [][RunsNext]_rnvars

-----------------------------------------------------------------------------
(* Nothing of the run is on its way to the client. *)
NoneComing == rnsrv.stream /\ rnnet = <<>> /\ rn.list = Nil
ReadsDone == rn.read = Nil /\ rn.retry.due = Nil /\ ~rn.gaveUp

(* A cached run is then the run, whatever frames were lost, coalesced or   *)
(* patched; unless (`blind`) the last answer that landed was asked for     *)
(* before a frame that was applied while it was out, or before the run was *)
(* forgotten, or was made before an outage that found it not cached yet;   *)
(* or unless an outage swallowed a frame of the run, nothing had the run   *)
(* read when the stream came back - the lease set had not moved, which a   *)
(* run_progress need not move, or its stamp was not held, or the digest    *)
(* had no answer - and nothing has had it read since.                      *)
CellCatchesUp == NoneComing /\ ReadsDone /\ rn.cell # Nil /\ ~rn.blind => rn.cell = StateOf(rnsrv)

(* The row of live runs then says what the server says, unless the list    *)
(* that landed was asked for before a frame that came while it was out, or *)
(* was made before the end of an outage that had no other asked for.       *)
RowCatchesUp == NoneComing /\ ~rn.rowBlind => rn.live = Live(rnsrv)

(* The verbs offered are then an ended run's, if no end was missed in an   *)
(* outage; unless a read of them failed, or one of a forgotten run is out  *)
(* or came beside the last.                                                *)
VerbsCatchUp ==
    LET c == rn.ctl
    IN  NoneComing /\ rn.gaps = 0 /\ rnsrv.status = "done" /\ c.read = Nil /\ ~c.lost /\ ~c.crossed
          => c.val \in {"", "done"}

(* RunCatchesUp: once the stream is quiet and no read is owed, what is     *)
(* shown of a run is what the server says.                                 *)
RunCatchesUp == CellCatchesUp /\ RowCatchesUp /\ VerbsCatchUp

=============================================================================
