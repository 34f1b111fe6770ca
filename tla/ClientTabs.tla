----------------------------- MODULE ClientTabs -----------------------------
(***************************************************************************)
(* The tab strip of the web client as a projection of the server-owned tab *)
(* set: the version rules, the serialized frame queue, the stale-snapshot  *)
(* guard and the pending-op machine of static-src/tabs-sync.ts, over the   *)
(* rows, the activation history and the optimistic gestures of             *)
(* static-src/tabs.ts.                                                     *)
(*                                                                         *)
(* Two channels reach the client and neither is ordered against the other: *)
(* the event stream (frames, in commit order, lost when the stream breaks) *)
(* and the answers of its own commands and of GET /api/tabs.  A mutation   *)
(* by another device is a server step with no op of this client.  A row is *)
(* its subject; names, dots, routes and the DOM are left out.              *)
(***************************************************************************)
EXTENDS Integers, Sequences, FiniteSets, SequencesExt, FiniteSetsExt

CONSTANTS
    Refs,          \* what a tab can show: a chat, a run, a file
    Views,         \* the refs whose tabs do not own what they show
    MaxTabs,       \* bound: tab ids the server mints
    MaxOps,        \* bound: mutations this client dispatches
    Scenarios      \* the set a behaviour starts from, and budgets of what may happen

VARIABLES
    srv,     \* internal/tabs.Store: the tabs in order, and their version
    past,    \* the set the server held at each version (history)
    wire,    \* tabs_changed frames on the stream, oldest first
    stream,  \* up since boot, down, or resumed after a break
    call,    \* each command this client dispatched, with its answer
    list,    \* GET /api/tabs: idle, asked, or served with a snapshot; `lost`
             \* tells that the last one failed
    c,       \* the client's projection and its pending operations
    budget   \* what may still happen

Ids == 1..MaxTabs
Ops == 1..MaxOps
None == 0
broken == stream = "down"

NoSubject == [id |-> None, ref |-> "", parent |-> None, pinned |-> FALSE]

IdsOf(rows) == {rows[i].id : i \in DOMAIN rows}
IdSeq(rows) == [i \in DOMAIN rows |-> rows[i].id]
IndexOf(rows, id) == CHOOSE i \in DOMAIN rows : rows[i].id = id
HasRow(rows, id) == id \in IdsOf(rows)
Without(rows, ids) == SelectSeq(rows, LAMBDA r : r.id \notin ids)

(* The open tab of a subject: its first row, or none. *)
TabIdFor(rows, ref) ==
    IF \E i \in DOMAIN rows : rows[i].ref = ref
    THEN rows[Min({i \in DOMAIN rows : rows[i].ref = ref})].id
    ELSE None

(* A tab and everything nested under it.  Parents nest two deep at most    *)
(* below a root, which the bounds of a run never exceed.                   *)
Subtree(rows, id) ==
    LET kids(S) == {r \in IdsOf(rows) : rows[IndexOf(rows, r)].parent \in S}
    IN  IF HasRow(rows, id) THEN {id} \cup kids({id}) \cup kids(kids({id})) ELSE {}

-----------------------------------------------------------------------------
(* Ordering: permute, the parent anchor and the pin partition.             *)

(* A permutation, never a membership statement: an id the order does not   *)
(* name keeps its place among the unnamed ones, and sorts last.            *)
Permute(rows, order) ==
    LET named == SelectSeq(order, LAMBDA id : HasRow(rows, id))
    IN  [i \in DOMAIN named |-> rows[IndexOf(rows, named[i])]]
        \o Without(rows, Range(order))

(* groupsOf: the head of the group row i belongs to, following parents     *)
(* that precede it in the array.                                           *)
GroupHead(rows) ==
    LET head[i \in 1..Len(rows)] ==
            LET owners == {j \in 1..(i - 1) : rows[j].id = rows[i].parent}
            IN  IF owners = {} THEN i ELSE head[Max(owners)]
    IN  head

(* Every pinned group ahead of every unpinned one, stably. *)
PinPartition(rows) ==
    LET head   == GroupHead(rows)
        heads  == SelectSeq([i \in DOMAIN rows |-> i], LAMBDA i : head[i] = i)
        group(h) == SelectSeq([i \in DOMAIN rows |-> i], LAMBDA i : head[i] = h)
        pinned == SelectSeq(heads, LAMBDA h : rows[h].pinned)
        others == SelectSeq(heads, LAMBDA h : ~rows[h].pinned)
        flat   == FlattenSeq([k \in DOMAIN (pinned \o others) |-> group((pinned \o others)[k])])
    IN  IF pinned = <<>> \/ others = <<>> THEN rows
        ELSE [i \in DOMAIN flat |-> rows[flat[i]]]

(* insertRow: a sub-tab after its parent's children, any other at the end. *)
InsertRow(rows, row) ==
    LET p  == IndexOf(rows, row.parent)
        after == CHOOSE n \in p..Len(rows) :
                    /\ \A i \in (p + 1)..n : rows[i].parent = row.parent
                    /\ n = Len(rows) \/ rows[n + 1].parent # row.parent
    IN  IF row.parent = None \/ ~HasRow(rows, row.parent)
        THEN PinPartition(Append(rows, row))
        ELSE InsertAt(rows, after + 1, row)

(* upsertSubject: the one paint of a frame's `changed` and of an adopted   *)
(* answer.                                                                 *)
Upsert(rows, s) ==
    IF HasRow(rows, s.id)
    THEN PinPartition([i \in DOMAIN rows |-> IF rows[i].id = s.id THEN s ELSE rows[i]])
    ELSE InsertRow(rows, s)

(* expandOrder: each tab named, followed by its own subtree. *)
ExpandOrder(rows, order) ==
    LET under(id) == SelectSeq(IdSeq(rows), LAMBDA x : x \in Subtree(rows, id))
        named == Range(order)
        add(id, out) == out \o SelectSeq(under(id), LAMBDA x : x \notin Range(out))
        rest == SelectSeq(IdSeq(rows), LAMBDA x : x \notin named)
    IN  FoldLeft(LAMBDA out, id : add(id, out), <<>>, order \o rest)

-----------------------------------------------------------------------------
(* Activation: this device's alone.                                        *)

(* noteActivation: most recent first. *)
NoteActivation(mru, id) == <<id>> \o SelectSeq(mru, LAMBDA x : x # id)

(* activateTabQuietly; activateTab is the same step from a gesture.  Any   *)
(* activation cancels the empty-state timer and its deferral.              *)
ActivateQuietly(s, id) ==
    IF ~HasRow(s.rows, id) \/ s.active = id THEN s
    ELSE [s EXCEPT !.active = id, !.saved = id, !.mru = NoteActivation(s.mru, id),
                   !.timer = FALSE, !.deferred = FALSE]

RemovesPending(s) == \E o \in Ops : s.pend[o].kind = "remove"

(* scheduleEmpty: deferred while a close may still be rolled back. *)
ScheduleEmpty(s) ==
    IF RemovesPending(s)
    THEN [s EXCEPT !.timer = FALSE, !.deferred = TRUE]
    ELSE [s EXCEPT !.timer = TRUE, !.deferred = FALSE]

(* settleDeferredEmpty, run when the last pending remove settles. *)
NoteRemoveSettled(s) ==
    IF RemovesPending(s) \/ ~s.deferred THEN s
    ELSE LET t == [s EXCEPT !.deferred = FALSE]
         IN  IF t.rows = <<>> /\ t.active = None THEN ScheduleEmpty(t) ELSE t

(* activateSuccessor: the most recently visited tab still open, else the   *)
(* first, else an empty strip, which respawns a chat only for a local act. *)
Successor(s, local) ==
    LET open == SelectSeq(s.mru, LAMBDA id : HasRow(s.rows, id))
        next == IF open # <<>> THEN Head(open)
                ELSE IF s.rows # <<>> THEN s.rows[1].id ELSE None
        bare == [s EXCEPT !.active = None]
    IN  IF next # None THEN ActivateQuietly(bare, next)
        ELSE IF local THEN ScheduleEmpty([bare EXCEPT !.saved = None])
                      ELSE [bare EXCEPT !.saved = None]

(* forgetRow for a set of departed tabs. *)
Forget(s, ids) == [s EXCEPT !.mru = SelectSeq(@, LAMBDA x : x \notin ids)]

(* tearDown: the client-local cleanup of a tab that owns what it shows.    *)
TearDown(s, subjects) ==
    LET owned == {x.id : x \in {y \in subjects : y.ref \notin Views}}
    IN  [s EXCEPT !.torn = [id \in Ids |-> IF id \in owned THEN Min({@[id] + 1, 2}) ELSE @[id]]]

-----------------------------------------------------------------------------
(* The pending-op machine.                                                 *)

NoOp == [kind |-> "none", state |-> "none", id |-> None, cap |-> <<>>, at |-> 0,
         hist |-> <<>>, act |-> None, subj |-> NoSubject, order |-> <<>>,
         prior |-> <<>>, cv |-> -1]

Captured(s, o) == IF s.pend[o].kind = "remove" THEN IdsOf(s.pend[o].cap) ELSE {}

Retire(s, o) == [s EXCEPT !.pend[o] = NoOp]

(* confirmClose: the deferred teardown, but not of a subject that was      *)
(* reopened inside the window.                                             *)
ConfirmClose(s, op) ==
    TearDown(s, {x \in Range(op.cap) : TabIdFor(s.rows, x.ref) = None})

(* restoreActivation, for the captured entries still open and unlisted.    *)
RestoreHistory(mru, rows, hist) ==
    LET at(m, e) == IF e.after = None THEN 1
                    ELSE IF e.after \in Range(m)
                         THEN (CHOOSE i \in DOMAIN m : m[i] = e.after) + 1
                         ELSE Len(m) + 1
        put(m, e) == IF ~HasRow(rows, e.id) \/ e.id \in Range(m) THEN m
                     ELSE InsertAt(m, at(m, e), e.id)
    IN  FoldLeft(put, mru, hist)

(* rollbackClose: the captured rows back where they were, unless the       *)
(* subject was reopened, with their history and the active tab.            *)
RollbackClose(s, op) ==
    LET back == SelectSeq(op.cap, LAMBDA r : /\ ~HasRow(s.rows, r.id)
                                             /\ TabIdFor(s.rows, r.ref) = None)
        at   == IF op.at - 1 < Len(s.rows) THEN op.at - 1 ELSE Len(s.rows)
        rows == IF back = <<>> THEN s.rows
                ELSE PinPartition(SubSeq(s.rows, 1, at) \o back
                                  \o SubSeq(s.rows, at + 1, Len(s.rows)))
        t    == [s EXCEPT !.rows = rows, !.mru = RestoreHistory(@, rows, op.hist)]
    IN  IF op.act # None THEN ActivateQuietly(t, op.act) ELSE t

(* overlayOrder: every pending reorder the version may predate, in the     *)
(* order of the gestures.                                                  *)
OverlayOrder(s, ids, ver) ==
    LET held(o) == /\ s.pend[o].kind = "reorder"
                   /\ s.pend[o].cv = -1 \/ s.pend[o].cv > ver
        step(out, o) == IF held(o)
                        THEN IdSeq(Permute([i \in DOMAIN out |-> [id |-> out[i]]],
                                           s.pend[o].order))
                        ELSE out
    IN  FoldLeft(step, ids, [o \in Ops |-> o])

(* A reorder rolled back: the order before the drop, under any newer one.  *)
RollbackReorder(s, op) ==
    [s EXCEPT !.rows = PinPartition(Permute(@, OverlayOrder(s, op.prior, -1)))]

ConfirmOp(s, o) ==
    LET op == s.pend[o]
        t  == Retire(s, o)
    IN  IF op.kind = "remove" THEN NoteRemoveSettled(ConfirmClose(t, op)) ELSE t

FailOp(s, o) ==
    LET op == s.pend[o]
        t  == Retire(s, o)
    IN  CASE op.kind = "remove"  -> NoteRemoveSettled(RollbackClose(t, op))
          [] op.kind = "reorder" -> RollbackReorder(t, op)
          [] OTHER               -> t

(* absorbCommitted: what the watermark covers is part of the projection.   *)
Absorb(s) ==
    FoldLeft(LAMBDA t, o : IF /\ t.pend[o].state = "confirmed"
                              /\ t.ver >= t.pend[o].cv
                           THEN ConfirmOp(t, o) ELSE t,
             s, [o \in Ops |-> o])

(* The three *Committed transitions: the answer fills the op, which is     *)
(* done at once when nothing was committed or the watermark covers it.     *)
Committed(s, o, ver, nothing) ==
    LET t == [s EXCEPT !.pend[o].cv = ver]
    IN  IF s.pend[o].kind = "none" THEN s
        ELSE IF nothing \/ s.ver >= ver THEN ConfirmOp(t, o)
        ELSE [t EXCEPT !.pend[o].state = "confirmed"]

-----------------------------------------------------------------------------
(* What reaches the projection: one frame, or a whole snapshot.            *)

(* suppressChanged: a row a pending close took out stays out, unless this  *)
(* device reopened the same tab after the newest such close.               *)
Suppressed(s, x) ==
    LET by == {o \in Ops : x.id \in Captured(s, o)}
    IN  /\ by # {}
        /\ ~ \E o \in Ops : /\ s.pend[o].kind = "adopt" /\ o > Max(by)
                            /\ s.pend[o].subj.id = x.id

(* apply: the upsert, the stated removals, the permutation. *)
Upserted(s, f) ==
    IF f.changed.id = None \/ Suppressed(s, f.changed) THEN s.rows ELSE Upsert(s.rows, f.changed)

Ordered(s, rows, f) ==
    IF f.order = <<>> THEN rows ELSE PinPartition(Permute(rows, OverlayOrder(s, f.order, f.ver)))

(* An active tab that is gone gives way to its successor. *)
Succeeded(t, gone, local) == IF t.active # None /\ t.active \in gone THEN Successor(t, local) ELSE t

Removes(s, up, f, local) ==
    LET gone == {r \in Range(up) : r.id \in f.removed}
        ids == {r.id : r \in gone}
    IN  Succeeded(TearDown(Forget([s EXCEPT !.rows = Ordered(s, Without(up, f.removed), f)], ids), gone), ids, local)

Apply(s, f, local) == Removes(s, Upserted(s, f), f, local)

(* An applied frame settles the operation it echoes.                       *)
Settles(t, f) ==
    Absorb(IF f.op # None /\ t.pend[f.op].kind # "none" THEN ConfirmOp(t, f.op) ELSE t)

Ours(s, f) == f.op # None /\ (f.op \in s.marks \/ s.pend[f.op].kind # "none")

Applies(s, f) == Settles(Apply([s EXCEPT !.ver = f.ver, !.marks = @ \ {f.op}], f, Ours(s, f)), f)

(* A mutant of DrainStep: a frame past the next one is applied as a delta. *)
DrainStepAnyNewer(s, f) ==
    IF f.ver <= s.ver THEN s ELSE Applies(s, f)

(* One frame of the drain: the three version rules.  A gap parks the rest  *)
(* of the queue behind a re-list.                                          *)
DrainStep(s, f) ==
    IF s.waiting THEN [s EXCEPT !.queue = Append(@, f)]
    ELSE IF f.ver <= s.ver THEN s
    ELSE IF f.ver > s.ver + 1 THEN [s EXCEPT !.waiting = TRUE]
    ELSE Applies(s, f)

Drain(s) ==
    IF s.waiting THEN s ELSE FoldLeft(DrainStep, [s EXCEPT !.queue = <<>>], s.queue)

(* overlayList: the snapshot as it would look with the pending operations  *)
(* that may postdate it.                                                   *)
OverlayList(s, tabs, ver) ==
    LET newer(o) == s.pend[o].cv = -1 \/ s.pend[o].cv > ver
        hidden == UNION {Captured(s, o) : o \in {x \in Ops : newer(x)}}
        kept   == Without(tabs, hidden)
        back(out, o) ==
            IF /\ s.pend[o].kind = "adopt" /\ s.pend[o].subj.id # None /\ newer(o)
               /\ ~HasRow(out, s.pend[o].subj.id)
            THEN Append(out, s.pend[o].subj) ELSE out
        all    == FoldLeft(back, kept, [o \in Ops |-> o])
    IN  Permute(all, OverlayOrder(s, IdSeq(all), ver))

(* reset: adopt a whole set. *)
Reset(s, tabs) ==
    LET gone == {r \in Range(s.rows) : ~HasRow(tabs, r.id)}
        t == TearDown(Forget([s EXCEPT !.rows = PinPartition(tabs)], {r.id : r \in gone}), gone)
        first == IF s.saved # None /\ HasRow(tabs, s.saved) THEN s.saved
                 ELSE IF tabs # <<>> THEN t.rows[1].id ELSE None
    IN  IF s.active = None
        THEN IF first = None THEN t
             ELSE [t EXCEPT !.active = first, !.mru = NoteActivation(@, first),
                            !.timer = FALSE, !.deferred = FALSE]
        ELSE IF HasRow(tabs, s.active) THEN t ELSE Successor(t, FALSE)

(* The verifying closes a snapshot settles, before it is painted.          *)
Verifying(s) == {o \in Ops : s.pend[o].state = "verifying"}

(* A snapshot adopted as authoritative: a verifying close is settled by    *)
(* membership.                                                             *)
AdoptShown(s, tabs, ver) ==
    LET over  == Verifying(s)
        bare  == [s EXCEPT !.ver = ver, !.pend = [o \in Ops |-> IF o \in over THEN NoOp ELSE @[o]]]
        shown == Reset(bare, OverlayList(bare, tabs, ver))
        asc   == SelectSeq([o \in Ops |-> o], LAMBDA o : o \in over)
        yes   == SelectSeq(asc, LAMBDA o : ~HasRow(tabs, s.pend[o].id))
        no    == SelectSeq(asc, LAMBDA o : HasRow(tabs, s.pend[o].id))
        conf  == FoldLeft(LAMBDA t, o : ConfirmClose(t, s.pend[o]), shown, yes)
        rolled == FoldLeft(LAMBDA t, o : RollbackClose(t, s.pend[o]), conf, no)
    IN  Absorb(IF over = {} THEN rolled ELSE NoteRemoveSettled(rolled))

(* readList's adoption: a snapshot below the watermark is discarded. *)
Adopt(s, tabs, ver) == IF ver < s.ver THEN s ELSE AdoptShown(s, tabs, ver)

-----------------------------------------------------------------------------
(* The server: internal/tabs.Store behind internal/command's membership.   *)

NoCall == [st |-> "free", kind |-> "none", id |-> None, ref |-> "", parent |-> None,
           order |-> <<>>, ok |-> FALSE, stale |-> FALSE, subj |-> NoSubject,
           nothing |-> FALSE, ver |-> 0]

(* The store's insert: after the parent's children, or at the end as a     *)
(* top-level tab when the parent is not open.                              *)
StoreInsert(tabs, x) ==
    LET y == IF HasRow(tabs, x.parent) THEN x ELSE [x EXCEPT !.parent = None]
        p == IndexOf(tabs, y.parent)
        n == CHOOSE k \in p..Len(tabs) :
                /\ \A i \in (p + 1)..k : tabs[i].parent = y.parent
                /\ k = Len(tabs) \/ tabs[k + 1].parent # y.parent
    IN  IF y.parent = None THEN Append(tabs, y) ELSE InsertAt(tabs, n + 1, y)

(* One committed mutation: the version moves, and its frame goes out on a  *)
(* stream that is up.                                                      *)
Commit(tabs, op, changed, removed, order) ==
    /\ srv' = [srv EXCEPT !.tabs = tabs, !.ver = @ + 1,
                          !.next = IF HasRow(tabs, @) THEN @ + 1 ELSE @]
    /\ past' = Append(past, tabs)
    /\ wire' = IF broken THEN wire
               ELSE Append(wire, [ver |-> srv.ver + 1, op |-> op, changed |-> changed,
                                  removed |-> removed, order |-> order])

Answer(op, ver, nothing, subj) ==
    call' = [call EXCEPT ![op].st = IF @ = "orphan" THEN "over" ELSE "done",
                         ![op].ok = TRUE, ![op].ver = ver, ![op].nothing = nothing,
                         ![op].subj = subj]

Reached(op) == call[op].st \in {"sent", "orphan"}

(* Store.Open: an already-open subject commits nothing. *)
ServeOpen(op) ==
    LET q == call[op]
        was == TabIdFor(srv.tabs, q.ref)
        x == [id |-> srv.next, ref |-> q.ref, parent |-> q.parent, pinned |-> FALSE]
        tabs == StoreInsert(srv.tabs, x)
    IN  /\ Reached(op) /\ q.kind = "open"
        /\ IF was # None
           THEN /\ Answer(op, srv.ver, TRUE, srv.tabs[IndexOf(srv.tabs, was)])
                /\ UNCHANGED <<srv, past, wire>>
           ELSE /\ srv.next <= MaxTabs
                /\ Commit(tabs, op, tabs[IndexOf(tabs, x.id)], {}, IdSeq(tabs))
                /\ Answer(op, srv.ver + 1, FALSE, tabs[IndexOf(tabs, x.id)])
        /\ UNCHANGED <<stream, list, c, budget>>

(* Store.Close: the whole subtree in one mutation; nothing to close is a   *)
(* success that commits nothing.                                           *)
ServeClose(op) ==
    LET q == call[op]
        doomed == Subtree(srv.tabs, q.id)
        tabs == Without(srv.tabs, doomed)
    IN  /\ Reached(op) /\ q.kind = "close"
        /\ IF doomed = {}
           THEN Answer(op, srv.ver, TRUE, NoSubject) /\ UNCHANGED <<srv, past, wire>>
           ELSE /\ Commit(tabs, op, NoSubject, doomed, IdSeq(tabs))
                /\ Answer(op, srv.ver + 1, FALSE, NoSubject)
        /\ UNCHANGED <<stream, list, c, budget>>

(* Store.Reorder: the exact set, or a 409. *)
ServeReorder(op) ==
    LET q == call[op]
        tabs == Permute(srv.tabs, q.order)
        fits == Range(q.order) = IdsOf(srv.tabs)
    IN  /\ Reached(op) /\ q.kind = "reorder"
        /\ IF ~fits
           THEN /\ call' = [call EXCEPT ![op].st = "done", ![op].stale = TRUE]
                /\ UNCHANGED <<srv, past, wire>>
           ELSE IF tabs = srv.tabs
           THEN Answer(op, srv.ver, TRUE, NoSubject) /\ UNCHANGED <<srv, past, wire>>
           ELSE /\ Commit(tabs, op, NoSubject, {}, IdSeq(tabs))
                /\ Answer(op, srv.ver + 1, FALSE, NoSubject)
        /\ UNCHANGED <<stream, list, c, budget>>

(* Store.SetPinned and Store.Reparent; an unchanged value commits nothing. *)
ServeChange(op) ==
    LET q == call[op]
        i == IndexOf(srv.tabs, q.id)
        x == IF q.kind = "pin" THEN [srv.tabs[i] EXCEPT !.pinned = TRUE]
             ELSE [srv.tabs[i] EXCEPT !.parent = q.parent]
        tabs == IF q.kind = "pin" THEN [srv.tabs EXCEPT ![i] = x]
                ELSE StoreInsert(Without(srv.tabs, {q.id}), x)
        order == IF q.kind = "pin" THEN <<>> ELSE IdSeq(tabs)
    IN  /\ Reached(op) /\ q.kind \in {"pin", "reparent"}
        /\ q.kind = "reparent" => q.parent \notin Subtree(srv.tabs, q.id)
        /\ IF ~HasRow(srv.tabs, q.id)
           THEN /\ call' = [call EXCEPT ![op].st = "done"]
                /\ UNCHANGED <<srv, past, wire>>
           ELSE IF tabs = srv.tabs
           THEN Answer(op, srv.ver, TRUE, x) /\ UNCHANGED <<srv, past, wire>>
           ELSE /\ Commit(tabs, op, tabs[IndexOf(tabs, q.id)], {}, order)
                /\ Answer(op, srv.ver + 1, FALSE, tabs[IndexOf(tabs, q.id)])
        /\ UNCHANGED <<stream, list, c, budget>>

(* The server refuses (a failed write, the tab limit): nothing was         *)
(* committed.  A close of a tab that is not open is never refused.         *)
ServeRefuse(op) ==
    /\ call[op].st = "sent" /\ budget.refuses > 0
    /\ call[op].kind = "close" => HasRow(srv.tabs, call[op].id)
    /\ call' = [call EXCEPT ![op].st = "done"]
    /\ budget' = [budget EXCEPT !.refuses = @ - 1]
    /\ UNCHANGED <<srv, past, wire, stream, list, c>>

(* Another device opens, closes, pins or reorders. *)
Remote ==
    /\ budget.remote > 0
    /\ \/ \E ref \in Refs, p \in IdsOf(srv.tabs) \cup {None} :
             LET x == [id |-> srv.next, ref |-> ref, parent |-> p, pinned |-> FALSE]
                 tabs == StoreInsert(srv.tabs, x)
             IN  /\ "open" \in budget.kinds /\ srv.next <= MaxTabs
                 /\ TabIdFor(srv.tabs, ref) = None
                 /\ Commit(tabs, None, tabs[IndexOf(tabs, x.id)], {}, IdSeq(tabs))
       \/ \E id \in IdsOf(srv.tabs) :
             LET tabs == Without(srv.tabs, Subtree(srv.tabs, id))
             IN  /\ "close" \in budget.kinds
                 /\ Commit(tabs, None, NoSubject, Subtree(srv.tabs, id), IdSeq(tabs))
       \/ \E i \in DOMAIN srv.tabs :
             LET x == [srv.tabs[i] EXCEPT !.pinned = TRUE]
             IN  /\ "pin" \in budget.kinds
                 /\ srv.tabs[i].parent = None /\ ~srv.tabs[i].pinned
                 /\ Commit([srv.tabs EXCEPT ![i] = x], None, x, {}, <<>>)
       \/ \E id \in IdsOf(srv.tabs) :
             LET order == ExpandOrder(srv.tabs, <<id>>)
                 tabs == Permute(srv.tabs, order)
             IN  /\ "reorder" \in budget.kinds /\ tabs # srv.tabs
                 /\ srv.tabs[IndexOf(srv.tabs, id)].parent = None
                 /\ Commit(tabs, None, NoSubject, {}, order)
    /\ budget' = [budget EXCEPT !.remote = @ - 1]
    /\ UNCHANGED <<stream, call, list, c>>

-----------------------------------------------------------------------------
(* The gestures: each is a dispatch, and what it shows at once.            *)

FreeOps == {o \in Ops : call[o].st = "free"}
NextOp == Min(FreeOps)

(* Every gesture marks its op id, so its echo is told from another's. *)
Sent(req, s) ==
    /\ call' = [call EXCEPT ![NextOp] = req]
    /\ c' = [s EXCEPT !.marks = @ \cup {NextOp}]
    /\ UNCHANGED <<srv, past, wire, stream, list>>

(* openTab: nothing is painted before the answer.  The action's dedupe     *)
(* collapses a second open of the same subject onto the one in flight.     *)
OpenTab(ref, parent) ==
    /\ FreeOps # {} /\ budget.opens > 0
    /\ \A o \in Ops : ~(call[o].kind = "open" /\ call[o].ref = ref
                        /\ call[o].st \in {"sent", "done"})
    /\ Sent([NoCall EXCEPT !.st = "sent", !.kind = "open", !.ref = ref, !.parent = parent],
            [c EXCEPT !.pend[NextOp] = [NoOp EXCEPT !.kind = "adopt", !.state = "awaiting"]])
    /\ budget' = [budget EXCEPT !.opens = @ - 1]

(* closeTab: the subtree leaves the strip at the gesture (captureClose,    *)
(* applyGestureRemoval), reversibly; nothing is torn down.                 *)
CloseTab(id) ==
    LET gone == Subtree(c.rows, id)
        cap  == SelectSeq(c.rows, LAMBDA r : r.id \in gone)
        hist == SelectSeq([i \in DOMAIN c.mru |->
                             [id |-> c.mru[i], after |-> IF i = 1 THEN None ELSE c.mru[i - 1]]],
                          LAMBDA e : e.id \in gone)
        op   == [NoOp EXCEPT !.kind = "remove", !.state = "awaiting", !.id = id, !.cap = cap,
                             !.at = IndexOf(c.rows, id), !.hist = hist,
                             !.act = IF c.active \in gone THEN c.active ELSE None]
        left == Forget([c EXCEPT !.pend[NextOp] = op, !.rows = Without(@, gone)], gone)
    IN  /\ FreeOps # {} /\ budget.closes > 0 /\ HasRow(c.rows, id)
        /\ \A o \in Ops : ~(call[o].kind = "close" /\ call[o].id = id
                            /\ call[o].st \in {"sent", "done"})
        /\ Sent([NoCall EXCEPT !.st = "sent", !.kind = "close", !.id = id],
                IF c.active \in gone THEN Successor(left, TRUE) ELSE left)
        /\ budget' = [budget EXCEPT !.closes = @ - 1]

(* publishReorder: a top-level tab moved to the front, shown at once; a    *)
(* move the pin partition undoes sends nothing.                            *)
Reorder(id) ==
    LET next == PinPartition(Permute(c.rows, ExpandOrder(c.rows, <<id>>)))
        op == [NoOp EXCEPT !.kind = "reorder", !.state = "awaiting",
                           !.order = IdSeq(next), !.prior = IdSeq(c.rows)]
    IN  /\ FreeOps # {} /\ budget.moves > 0
        /\ HasRow(c.rows, id) /\ c.rows[IndexOf(c.rows, id)].parent = None
        /\ next # c.rows
        /\ Sent([NoCall EXCEPT !.st = "sent", !.kind = "reorder", !.order = IdSeq(next)],
                [c EXCEPT !.pend[NextOp] = op, !.rows = next])
        /\ budget' = [budget EXCEPT !.moves = @ - 1]

(* setTabPinned and setTabParent: a dispatch with no pending op. *)
Change(kind, id, parent) ==
    LET row == c.rows[IndexOf(c.rows, id)]
    IN  /\ FreeOps # {} /\ budget.changes > 0 /\ HasRow(c.rows, id)
        /\ IF kind = "pin" THEN row.parent = None /\ ~row.pinned /\ parent = None
           ELSE parent # None /\ row.parent # parent
        /\ Sent([NoCall EXCEPT !.st = "sent", !.kind = kind, !.id = id, !.parent = parent], c)
        /\ budget' = [budget EXCEPT !.changes = @ - 1]

(* activateTab from a tap. *)
Activate(id) ==
    /\ budget.picks > 0 /\ HasRow(c.rows, id) /\ c.active # id
    /\ c' = ActivateQuietly(c, id)
    /\ budget' = [budget EXCEPT !.picks = @ - 1]
    /\ UNCHANGED <<srv, past, wire, stream, call, list>>

(* The empty-state timer: a fresh chat is asked for.  Its own tab is an    *)
(* open like any other and is left to the open budget.                     *)
EmptyTimer ==
    /\ c.timer
    /\ c' = [c EXCEPT !.timer = FALSE, !.respawns = Min({@ + 1, 2})]
    /\ UNCHANGED <<srv, past, wire, stream, call, list, budget>>

-----------------------------------------------------------------------------
(* Answers.                                                                *)

Over(op) == [call EXCEPT ![op].st = "over"]

(* relist: one read at a time; a caller that finds one out joins it. *)
Asked == IF list.st = "idle" THEN [list EXCEPT !.st = "asked"] ELSE list

(* openTab's continuation: adopt the subject, fill the op, activate. *)
OpenAnswered(op) ==
    LET q == call[op]
        shown == [c EXCEPT !.rows = Upsert(@, q.subj)]
        kept == IF c.pend[op].kind = "none" THEN shown
                ELSE [shown EXCEPT !.pend[op].subj = q.subj]
    IN  /\ q.st = "done" /\ q.kind = "open"
        /\ c' = IF q.ok THEN ActivateQuietly(Committed(kept, op, q.ver, q.nothing), q.subj.id)
                ELSE FailOp(c, op)
        /\ call' = Over(op)
        /\ UNCHANGED <<srv, past, wire, stream, list, budget>>

(* closeTab's continuation: committed, or refused and restored. *)
CloseAnswered(op) ==
    LET q == call[op]
    IN  /\ q.st = "done" /\ q.kind = "close"
        /\ c' = IF q.ok THEN Committed(c, op, q.ver, q.nothing) ELSE FailOp(c, op)
        /\ call' = Over(op)
        /\ UNCHANGED <<srv, past, wire, stream, list, budget>>

(* publishReorder's continuation: a 409 rolls back and re-lists. *)
ReorderAnswered(op) ==
    LET q == call[op]
    IN  /\ q.st = "done" /\ q.kind = "reorder"
        /\ c' = IF q.ok THEN Committed(c, op, q.ver, FALSE) ELSE FailOp(c, op)
        /\ list' = IF q.stale THEN Asked ELSE list
        /\ call' = Over(op)
        /\ UNCHANGED <<srv, past, wire, stream, budget>>

(* setTabParent adopts the answered subject; setTabPinned waits for its    *)
(* frame.                                                                  *)
ChangeAnswered(op) ==
    LET q == call[op]
    IN  /\ q.st = "done" /\ q.kind \in {"pin", "reparent"}
        /\ c' = IF q.ok /\ q.kind = "reparent" THEN [c EXCEPT !.rows = Upsert(@, q.subj)] ELSE c
        /\ call' = Over(op)
        /\ UNCHANGED <<srv, past, wire, stream, list, budget>>

(* The dispatch ran out of retries: an answer that was lost, or a request  *)
(* that never arrived, is reported as an error either way.                 *)
DispatchFails(op) ==
    /\ call[op].st \in {"sent", "done"} /\ budget.nets > 0
    /\ c' = FailOp(c, op)
    /\ call' = [call EXCEPT ![op].st = IF @ = "sent" THEN "orphan" ELSE "over"]
    /\ budget' = [budget EXCEPT !.nets = @ - 1]
    /\ UNCHANGED <<srv, past, wire, stream, list>>

(* A mutant of CloseTimesOut: the close is taken for committed. *)
CloseTimesOutDone(op) ==
    /\ call[op].kind = "close" /\ call[op].st \in {"sent", "done"} /\ budget.times > 0
    /\ call' = [call EXCEPT ![op].st = IF @ = "sent" THEN "orphan" ELSE "over"]
    /\ c' = IF c.pend[op].kind = "remove" THEN ConfirmOp(c, op) ELSE c
    /\ budget' = [budget EXCEPT !.times = @ - 1]
    /\ UNCHANGED <<srv, past, wire, stream, list>>

(* CLOSE_CONFIRM_MS elapsed: the close may still reach the server, and its *)
(* removal stays applied until a frame or a list settles it.               *)
CloseTimesOut(op) ==
    /\ call[op].kind = "close" /\ call[op].st \in {"sent", "done"} /\ budget.times > 0
    /\ call' = [call EXCEPT ![op].st = IF @ = "sent" THEN "orphan" ELSE "over"]
    /\ c' = IF c.pend[op].kind = "remove" THEN [c EXCEPT !.pend[op].state = "verifying"] ELSE c
    /\ budget' = [budget EXCEPT !.times = @ - 1]
    /\ UNCHANGED <<srv, past, wire, stream, list>>

(* A request the client gave up on is lost on the way. *)
OrphanLost(op) ==
    /\ call[op].st = "orphan"
    /\ call' = Over(op)
    /\ UNCHANGED <<srv, past, wire, stream, list, c, budget>>

(* armVerify: one re-list per backoff tick while a close verifies. *)
VerifyTick ==
    /\ Verifying(c) # {} /\ list.st = "idle"
    /\ list' = Asked
    /\ UNCHANGED <<srv, past, wire, stream, call, c, budget>>

-----------------------------------------------------------------------------
(* The stream and the list.                                                *)

(* A drain parked at a gap has the set listed anew.                        *)
DrainedTo(s) ==
    /\ c' = s
    /\ list' = IF s.waiting /\ ~c.waiting THEN Asked ELSE list

(* ingestTabsChanged: queue, then drain as far as the version rules go. *)
FrameArrives ==
    /\ wire # <<>> /\ ~broken
    /\ DrainedTo(Drain([c EXCEPT !.queue = Append(@, Head(wire))]))
    /\ wire' = Tail(wire)
    /\ UNCHANGED <<srv, past, stream, call, budget>>

(* The stream drops with what it carried. *)
StreamBreaks ==
    /\ ~broken /\ budget.breaks > 0
    /\ stream' = "down" /\ wire' = <<>>
    /\ budget' = [budget EXCEPT !.breaks = @ - 1]
    /\ UNCHANGED <<srv, past, call, list, c>>

(* The reconnect's digest finds the tab set moved and re-lists. *)
Reconnect ==
    /\ broken
    /\ stream' = "resumed"
    /\ list' = Asked
    /\ UNCHANGED <<srv, past, wire, call, c, budget>>

(* GET /api/tabs reads the set and its version in one critical section. *)
ListServed ==
    /\ list.st = "asked"
    /\ list' = [list EXCEPT !.st = "served", !.tabs = srv.tabs, !.ver = srv.ver]
    /\ UNCHANGED <<srv, past, wire, stream, call, c, budget>>

(* A settled read lets a parked drain go on; a gap still open asks again.  *)
Resume(s) == Drain([s EXCEPT !.waiting = FALSE])

ReadOver(again, lost) ==
    [st |-> IF again THEN "asked" ELSE "idle", tabs |-> <<>>, ver |-> 0, lost |-> lost]

ReadTo(s, lost) == c' = s /\ list' = ReadOver(s.waiting, lost)

ListArrives ==
    /\ list.st = "served"
    /\ ReadTo(Resume(Adopt(c, list.tabs, list.ver)), FALSE)
    /\ UNCHANGED <<srv, past, wire, stream, call, budget>>

ListFails ==
    /\ list.st \in {"asked", "served"} /\ budget.fails > 0
    /\ ReadTo(Resume(c), TRUE)
    /\ budget' = [budget EXCEPT !.fails = @ - 1]
    /\ UNCHANGED <<srv, past, wire, stream, call>>

-----------------------------------------------------------------------------
TabsInit ==
    /\ budget \in Scenarios
    /\ srv = [tabs |-> budget.start, ver |-> 0, next |-> Len(budget.start) + 1]
    /\ past = <<budget.start>>
    /\ wire = <<>> /\ stream = "up"
    /\ call = [o \in Ops |-> NoCall]
    /\ list = [st |-> "idle", tabs |-> <<>>, ver |-> 0, lost |-> FALSE]
    /\ c = [rows |-> PinPartition(budget.start), active |-> 1, mru |-> <<1>>, saved |-> 1,
            ver |-> 0, queue |-> <<>>, waiting |-> FALSE, pend |-> [o \in Ops |-> NoOp],
            marks |-> {}, deferred |-> FALSE, timer |-> FALSE, respawns |-> 0,
            torn |-> [id \in Ids |-> 0]]

Server == \E op \in Ops : \/ ServeOpen(op) \/ ServeClose(op) \/ ServeReorder(op)
                          \/ ServeChange(op)

Answers == \E op \in Ops : \/ OpenAnswered(op) \/ CloseAnswered(op) \/ ReorderAnswered(op)
                           \/ ChangeAnswered(op)

TabsNext ==
    \/ \E ref \in Refs, p \in IdsOf(c.rows) \cup {None} : OpenTab(ref, p)
    \/ \E id \in Ids : CloseTab(id) \/ Reorder(id) \/ Activate(id)
    \/ \E id \in Ids : Change("pin", id, None)
    \/ \E id \in Ids, p \in IdsOf(c.rows) : Change("reparent", id, p)
    \/ EmptyTimer
    \/ Server \/ Answers \/ Remote
    \/ \E op \in Ops : \/ ServeRefuse(op) \/ DispatchFails(op) \/ CloseTimesOut(op)
                       \/ OrphanLost(op)
    \/ VerifyTick \/ FrameArrives \/ StreamBreaks \/ Reconnect
    \/ ListServed \/ ListArrives \/ ListFails

-----------------------------------------------------------------------------
(* Properties.                                                             *)

(* No tab is lost: an open tab the server held at the version the strip    *)
(* reflects is on it, unless a close of this device still hides it. *)
(* Frames, snapshots, roll-backs and overlays all have to agree on this    *)
(* (tabs.ts: "closed tabs nobody closed").                                 *)
KeepsTabs ==
    \A id \in IdsOf(past[c.ver + 1]) \cap IdsOf(srv.tabs) :
        HasRow(c.rows, id) \/ \E o \in Ops : id \in Captured(c, o)

(* A tab's client-local state is torn down only when its close is part of  *)
(* the version the strip reflects: an optimistic close, a timeout, a       *)
(* roll-back or a discarded snapshot may hide the row, never destroy what  *)
(* it shows (tabs.ts applyGestureRemoval: "Nothing here destroys state a   *)
(* rollback cannot bring back").                                           *)
TearsDown ==
    \A id \in Ids : c'.torn[id] > c.torn[id] =>
           \/ id \notin IdsOf(past'[c'.ver + 1])
           \/ \E o \in Ops : /\ id \in Captured(c, o) /\ id \notin IdsOf(srv'.tabs)

(* While a drop of this device is unanswered the strip keeps the order it  *)
(* showed, whatever frames and snapshots from before it arrive (tabs-sync: *)
(* "a render between the drop and the confirming frame keeps the dropped   *)
(* order").  Pins are a partition over it and excluded here, as is an      *)
(* older drop's roll-back.                                                 *)
HoldsDrop ==
    \A o \in Ops :
        (/\ c.pend[o].kind = "reorder"
         /\ \A p \in Ops : call[p].kind = "reorder" =>
                p <= o /\ (call[p].st = "over" => call[p].ok)
         /\ \A i \in DOMAIN c.rows : ~c.rows[i].pinned /\ c.rows[i].parent = None)
        => LET named == SelectSeq(IdSeq(c.rows), LAMBDA x : x \in Range(c.pend[o].order))
           IN  named = SelectSeq(c.pend[o].order, LAMBDA x : HasRow(c.rows, x))
=============================================================================
