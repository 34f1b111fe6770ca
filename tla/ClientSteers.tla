---------------------------- MODULE ClientSteers ----------------------------
(***************************************************************************)
(* The dock of steering messages the agent has not read yet: the rows of   *)
(* one chat (store.ts), the actions that send, discard, delete and edit    *)
(* them (actions/chat.ts, pending-steers.ts) and the steer_queued, entry   *)
(* and pending_snapshot frames that move them.                             *)
(*                                                                         *)
(* Three channels reach the rows: this client's optimistic halves, the     *)
(* answers of its requests (one at a time per chat), and the stream.  The  *)
(* agent reads the rows the server holds one by one, or several resent as  *)
(* one batch under the batch's own id.  Drawing is left out: a row is the  *)
(* record it draws.                                                        *)
(***************************************************************************)
EXTENDS Integers, Sequences, FiniteSets, SequencesExt, Picking

CONSTANTS
    MaxSteers,      \* bound: steers sent, by this device or another
    SteerScenarios  \* budgets of what may happen

VARIABLES
    sd,      \* the client: rows, read entries, requests out, what a rollback restored
    sdsrv,   \* the server: rows it holds, whether the turn is live, ids it gave out
    sdnet,   \* frames on the stream, oldest first
    sdleft   \* what may still happen

sdvars == <<sd, sdsrv, sdnet, sdleft>>

Batch == MaxSteers + 1
NoKas == 0

RowIds(rows) == {rows[i].id : i \in DOMAIN rows}

Without(rows, ids) == Pick(rows, {i \in DOMAIN rows : rows[i].id \notin ids})

-----------------------------------------------------------------------------
(* The rows: store.ts.                                                     *)

(* steerEntrySettles: an entry settles the row it is named for, and every  *)
(* row the server held under its id.                                       *)
Settles(id, row) == id = row.id \/ (row.kas # NoKas /\ id = row.kas)

(* The optimistic row of a steer being sent, in place when it is a retry. *)
RecordSent(x, id) ==
    LET row == [id |-> id, kas |-> NoKas, pending |-> TRUE, compacted |-> FALSE, unsent |-> FALSE]
    IN  IF id \in RowIds(x.rows)
        THEN [x EXCEPT !.rows = [i \in DOMAIN @ |-> IF @[i].id = id THEN row ELSE @[i]]]
        ELSE [x EXCEPT !.rows = Append(@, row)]

ForgetSteer(x, id) == [x EXCEPT !.rows = Without(@, {id})]

(* A batch frame moves the id the rows will be read under, or retires rows *)
(* whose read the transcript already shows.                                *)
AdoptBatch(x, batch, keys) ==
    IF batch \in x.entries
    THEN [x EXCEPT !.rows = Without(@, keys)]
    ELSE [x EXCEPT !.rows = [i \in DOMAIN @ |-> IF @[i].id \in keys THEN [@[i] EXCEPT !.kas = batch]
                                                ELSE @[i]]]

(* A mutant of RecordQueued: the transcript is not asked. *)
RecordQueuedAlways(x, id, state) ==
    IF state = "removed" THEN ForgetSteer(x, id)
    ELSE IF id \in RowIds(x.rows)
    THEN [x EXCEPT !.rows = [i \in DOMAIN @ |->
             IF @[i].id = id THEN [@[i] EXCEPT !.pending = FALSE, !.unsent = state = "unsent"]
             ELSE @[i]]]
    ELSE [x EXCEPT !.rows = Append(@, [id |-> id, kas |-> NoKas, pending |-> FALSE,
                                       compacted |-> FALSE, unsent |-> state = "unsent"])]

(* A row frame, or a steer's own answer: the transcript is asked first.    *)
(* The server keys a steer by the id the client minted, so the fallback    *)
(* that adopts a pending row by its text is never reached.                 *)
RecordQueued(x, id, state) ==
    IF state = "removed" \/ id \in x.entries THEN ForgetSteer(x, id)
    ELSE IF id \in RowIds(x.rows)
    THEN [x EXCEPT !.rows = [i \in DOMAIN @ |->
             IF @[i].id = id THEN [@[i] EXCEPT !.pending = FALSE, !.unsent = state = "unsent"]
             ELSE @[i]]]
    ELSE [x EXCEPT !.rows = Append(@, [id |-> id, kas |-> NoKas, pending |-> FALSE,
                                       compacted |-> FALSE, unsent |-> state = "unsent"])]

(* A steer entry reaches the transcript. *)
RetireRows(x, id) ==
    [x EXCEPT !.entries = @ \cup {id},
              !.rows = Pick(@, {i \in DOMAIN @ : ~Settles(id, @[i])})]

(* A discard takes the confirmed rows out; its rollback puts the rows back *)
(* as they were, over whatever arrived since.                              *)
DropConfirmed(x) == [x EXCEPT !.rows = Pick(@, {i \in DOMAIN @ : @[i].pending})]

Removed(x) == IF DropConfirmed(x).rows = x.rows THEN <<>> ELSE x.rows

RestoreSteers(x, prev) ==
    IF prev = <<>> THEN x ELSE [x EXCEPT !.rows = prev, !.restored = @ \cup RowIds(prev) \cup RowIds(x.rows)]

MarkCompacted(x) == [x EXCEPT !.rows = [i \in DOMAIN @ |-> [@[i] EXCEPT !.compacted = TRUE]]]

ForgetSteers(x) == [x EXCEPT !.rows = <<>>, !.restored = {}]

-----------------------------------------------------------------------------
(* The user's gestures.  A request waits behind the chat's earlier ones.   *)

SpendSteer(field) == sdleft[field] > 0 /\ sdleft' = [sdleft EXCEPT ![field] = @ - 1]

Ask(x, kind, id, removed) ==
    [x EXCEPT !.calls = Append(@, [kind |-> kind, id |-> id, removed |-> removed, res |-> ""])]

SendSteer ==
    /\ SpendSteer("sends") /\ sdsrv.minted < MaxSteers
    /\ LET id == sdsrv.minted + 1
       IN  /\ sd' = Ask(RecordSent(sd, id), "steer", id, <<>>)
           /\ sdsrv' = [sdsrv EXCEPT !.minted = id]
    /\ UNCHANGED sdnet

DiscardSteers ==
    /\ SpendSteer("clears")
    /\ \E i \in DOMAIN sd.rows : ~sd.rows[i].pending
    /\ sd' = Ask(DropConfirmed(sd), "clear", NoKas, Removed(sd))
    /\ UNCHANGED <<sdsrv, sdnet>>

(* Edit and delete ask for one row's removal and draw nothing themselves;  *)
(* a second request for a row already asked about is the same request.     *)
RemoveSteer ==
    /\ SpendSteer("removes")
    /\ \E i \in DOMAIN sd.rows :
         /\ ~sd.rows[i].pending
         /\ \A k \in DOMAIN sd.calls : sd.calls[k].kind # "remove" \/ sd.calls[k].id # sd.rows[i].id
         /\ sd' = Ask(sd, "remove", sd.rows[i].id, <<>>)
    /\ UNCHANGED <<sdsrv, sdnet>>

-----------------------------------------------------------------------------
(* The server, as the client sees it.                                      *)

RowFrame(id, state) == [kind |-> "row", id |-> id, state |-> state, keys |-> {}]
EntryFrame(id) == [kind |-> "entry", id |-> id, state |-> "", keys |-> {}]
BatchFrame(keys) == [kind |-> "batch", id |-> Batch, state |-> "", keys |-> keys]

RemovedFrames(ids) == LET s == SetToSeq(ids) IN [i \in DOMAIN s |-> RowFrame(s[i], "removed")]

(* The oldest request is served.  A steer needs a live turn; a removal a   *)
(* row still unread, and the rows it keeps are resent as one batch; any of *)
(* them may fail, with the server's half done or not.                      *)
CallServed ==
    /\ sd.calls # <<>> /\ Head(sd.calls).res = ""
    /\ LET q == Head(sd.calls)
           says(r) == sd' = [sd EXCEPT !.calls[1].res = r]
           held == sdsrv.held
       IN  \/ /\ q.kind = "steer" /\ sdsrv.live
              /\ sdsrv' = [sdsrv EXCEPT !.held = @ \cup {q.id}]
              /\ sdnet' = Append(sdnet, RowFrame(q.id, "queued"))
              /\ \/ says("ok") /\ UNCHANGED sdleft
                 \/ says("error") /\ SpendSteer("fails")
           \/ q.kind = "steer" /\ ~sdsrv.live /\ says("error") /\ UNCHANGED <<sdsrv, sdnet, sdleft>>
           \/ /\ q.kind = "clear"
              /\ sdsrv' = [sdsrv EXCEPT !.held = {}, !.batch = {}]
              /\ sdnet' = sdnet \o RemovedFrames(held)
              /\ says("ok") /\ UNCHANGED sdleft
           \/ /\ q.kind = "remove" /\ q.id \in held
              /\ LET kept == held \ {q.id}
                 IN  /\ sdsrv' = [sdsrv EXCEPT !.held = kept,
                                               !.batch = IF Cardinality(kept) > 1 THEN kept ELSE {}]
                     /\ sdnet' = Append(sdnet, RowFrame(q.id, "removed"))
                                 \o (IF Cardinality(kept) > 1 THEN <<BatchFrame(kept)>> ELSE <<>>)
              /\ says("ok") /\ UNCHANGED sdleft
           \/ /\ q.kind = "remove" /\ q.id \notin held
              /\ says("error") /\ UNCHANGED <<sdsrv, sdnet, sdleft>>
           \/ SpendSteer("fails") /\ says("error") /\ UNCHANGED <<sdsrv, sdnet>>

(* The agent reads what it holds: a batch under its own id, or one row.    *)
AgentReads ==
    /\ SpendSteer("reads") /\ sdsrv.live
    /\ \/ /\ sdsrv.batch # {}
          /\ sdsrv' = [sdsrv EXCEPT !.held = @ \ sdsrv.batch, !.batch = {}]
          /\ sdnet' = Append(sdnet, EntryFrame(Batch))
       \/ \E id \in sdsrv.held \ sdsrv.batch :
            /\ sdsrv' = [sdsrv EXCEPT !.held = @ \ {id}]
            /\ sdnet' = Append(sdnet, EntryFrame(id))
    /\ UNCHANGED sd

(* Another device steers, or the context is compacted. *)
OtherSteers ==
    /\ SpendSteer("others") /\ sdsrv.live /\ sdsrv.minted < MaxSteers
    /\ LET id == sdsrv.minted + 1
       IN  /\ sdsrv' = [sdsrv EXCEPT !.minted = id, !.held = @ \cup {id}]
           /\ sdnet' = Append(sdnet, RowFrame(id, "queued"))
    /\ UNCHANGED sd

Compacted ==
    /\ SpendSteer("compacts")
    /\ sdnet' = Append(sdnet, [kind |-> "compaction", id |-> NoKas, state |-> "", keys |-> {}])
    /\ UNCHANGED <<sd, sdsrv>>

(* The turn ends with rows unread: they are marked unsent. *)
TurnOver ==
    /\ SpendSteer("ends") /\ sdsrv.live
    /\ sdsrv' = [sdsrv EXCEPT !.live = FALSE, !.batch = {}]
    /\ sdnet' = LET s == SetToSeq(sdsrv.held) IN sdnet \o [i \in DOMAIN s |-> RowFrame(s[i], "unsent")]
    /\ UNCHANGED sd

-----------------------------------------------------------------------------
(* What reaches the client.                                                *)

CallAnswered ==
    /\ sd.calls # <<>> /\ Head(sd.calls).res # ""
    /\ LET q == Head(sd.calls)
           x == [sd EXCEPT !.calls = Tail(@)]
       IN  sd' = CASE q.kind = "steer" /\ q.res = "ok" -> RecordQueued(x, q.id, "queued")
                   [] q.kind = "steer" /\ q.res = "error" ->
                          [ForgetSteer(x, q.id) EXCEPT !.restored = @ \cup {q.id}]
                   [] q.kind = "clear" /\ q.res = "error" -> RestoreSteers(x, q.removed)
                   [] OTHER -> x
    /\ UNCHANGED <<sdsrv, sdnet, sdleft>>

(* A frame of the stream, through the handler its kind names. *)
FrameReaches(x, f) ==
    CASE f.kind = "row" -> RecordQueued(x, f.id, f.state)
      [] f.kind = "batch" -> AdoptBatch(x, f.id, f.keys)
      [] f.kind = "entry" -> RetireRows(x, f.id)
      [] f.kind = "compaction" -> MarkCompacted(x)

(* Several of them, in their order. *)
AllReach(x, fs) ==
    LET after[n \in 0..Len(fs)] == IF n = 0 THEN x ELSE FrameReaches(after[n - 1], fs[n])
    IN  after[Len(fs)]

SteerFrame ==
    /\ sdnet # <<>>
    /\ sd' = FrameReaches(sd, Head(sdnet))
    /\ sdnet' = Tail(sdnet)
    /\ UNCHANGED <<sdsrv, sdleft>>

(* The stream reconnects: what was on it is lost, the transcript catches   *)
(* up, and pending_snapshot replaces every row with what the server holds. *)
Snapshot ==
    LET ids  == SetToSeq(sdsrv.held)
        rows == [i \in DOMAIN ids |-> RowFrame(ids[i], IF sdsrv.live THEN "queued" ELSE "unsent")]
    IN  rows \o (IF sdsrv.batch = {} THEN <<>> ELSE <<BatchFrame(sdsrv.batch)>>)

Reconnects ==
    /\ SpendSteer("breaks")
    /\ LET read == {sdnet[i].id : i \in {j \in DOMAIN sdnet : sdnet[j].kind = "entry"}}
       IN  sd' = AllReach(ForgetSteers([sd EXCEPT !.entries = @ \cup read]), Snapshot)
    /\ sdnet' = <<>>
    /\ UNCHANGED sdsrv

-----------------------------------------------------------------------------
SteersInit ==
    /\ sd = [rows |-> <<>>, entries |-> {}, calls |-> <<>>, restored |-> {}]
    /\ sdsrv = [held |-> {}, batch |-> {}, live |-> TRUE, minted |-> 0]
    /\ sdnet = <<>>
    /\ sdleft \in SteerScenarios

SteersNext ==
    \/ SendSteer \/ DiscardSteers \/ RemoveSteer \/ CallServed \/ AgentReads \/ OtherSteers
    \/ Compacted \/ TurnOver \/ CallAnswered \/ SteerFrame \/ Reconnects

SteersSpec == SteersInit /\ [][SteersNext]_sdvars

-----------------------------------------------------------------------------
(* ReadStaysRead: a message the transcript shows as read is never back in  *)
(* the dock, whichever of its frame, its answer, its batch and a           *)
(* reconnect's replay comes last (rows a refused request put back aside).  *)
ReadStaysRead ==
    \A i \in DOMAIN sd.rows :
        LET r == sd.rows[i]
        IN  r.pending \/ r.id \in sd.restored \/ \A id \in sd.entries : ~Settles(id, r)

=============================================================================
