---------------------------- MODULE ClientTools ----------------------------
(***************************************************************************)
(* The Tools panel of the settings (static-src/tools.ts, actions/tools.ts) *)
(* over an engine that installs: the list of tools and its switches, the   *)
(* pills that start a job and stop it, the output that follows one, the    *)
(* search that adds a tool, and the install a banner elsewhere waits for.  *)
(* Requests go out one after the other, reads are shared while they are    *)
(* out, and jobs tell of themselves in frames nobody sends again.          *)
(***************************************************************************)
EXTENDS Integers, Sequences, FiniteSets, SequencesExt

CONSTANTS
    Tools,          \* tool -> [essential, needs: the tools it requires]
    Present,        \* the tools the manifest starts with
    Texts,          \* what the search box may say; "" browses
    ToolScenarios   \* what may happen, and how often

VARIABLES
    tl,     \* the page
    te,     \* the engine, its jobs and the frames under way
    tlleft  \* how much more of the scenario may happen

toolvars == <<tl, te, tlleft>>

Names == DOMAIN Tools

Pills == {"update", "refresh", "reconcile"}

Spend(what) == tlleft[what] > 0 /\ tlleft' = [tlleft EXCEPT ![what] = @ - 1]

-----------------------------------------------------------------------------
(* The engine, as the requests and the frames show it. *)

JobIsLive(state) == state \in {"queued", "running"}

LiveJobs(e) == {i \in DOMAIN e.jobs : JobIsLive(e.jobs[i].state)}

\* The queue is single-flight: the first live job is the one that runs.
Active(e) == IF LiveJobs(e) = {} THEN <<>> ELSE <<CHOOSE i \in LiveJobs(e) : \A j \in LiveJobs(e) : i <= j>>

\* What nobody hears is told to nobody later.
Loses(e, frames) ==
    [e EXCEPT !.lost = @ \cup frames, !.unread = @ \/ frames # {},
              !.unseen = @ \/ \E f \in frames : f.what = "changed"]

Tell(e, frame) == IF e.up THEN [e EXCEPT !.wire = Append(@, frame)] ELSE Loses(e, {frame})

Changed(e, i) == Tell(e, [what |-> "changed", id |-> i, kind |-> e.jobs[i].kind, state |-> e.jobs[i].state])

Enqueue(e, kind, t) ==
    LET more == [e EXCEPT !.jobs = Append(@, [kind |-> kind, tool |-> t, state |-> "queued", lines |-> 0])]
    IN  Changed(more, Len(more.jobs))

Dependents(e, t) == {u \in Names : t \in Tools[u].needs /\ e.tools[u].st \notin {"absent", "off"}}

\* A tool as the inventory reports it.
ToolInfo(e, t) ==
    [st |-> e.tools[t].st, pin |-> e.tools[t].pin, latest |-> e.tools[t].latest, deps |-> Dependents(e, t),
     installing |-> \E i \in LiveJobs(e) : e.jobs[i].kind = "install" /\ e.jobs[i].tool = t]

Inventory(e) ==
    [tools |-> [t \in {u \in Names : e.tools[u].st # "absent"} |-> ToolInfo(e, t)],
     job |-> [i \in DOMAIN Active(e) |-> [id |-> Active(e)[i], kind |-> e.jobs[Active(e)[i]].kind]]]

\* What a request does, and what it is answered: the job, or a code.
Serve(e, q) ==
    LET add(x, t) == Enqueue([x EXCEPT !.tools[t].st = "missing"], "install", t)
        gone(x, ts) == [x EXCEPT !.tools = [t \in Names |-> IF t \in ts THEN [@[t] EXCEPT !.st = "absent"] ELSE @[t]]]
        \* ensure: create it, or install what is there, or switch on what is off.
        ensured == IF e.tools[q.tool].st \in {"absent", "off"} THEN add(e, q.tool)
                   ELSE Enqueue(e, "install", q.tool)
    IN  CASE q.what = "add" ->
                IF e.tools[q.tool].st = "absent" THEN [e |-> add(e, q.tool), code |-> "job"] ELSE [e |-> e, code |-> "refused"]
          [] q.what \in {"install", "on"} ->
                IF e.tools[q.tool].st = "absent" THEN [e |-> e, code |-> "refused"]
                ELSE [e |-> IF q.what = "on" THEN add(e, q.tool) ELSE Enqueue(e, "install", q.tool), code |-> "job"]
          [] q.what = "pin" ->
                IF e.tools[q.tool].st = "absent" THEN [e |-> e, code |-> "refused"]
                ELSE [e |-> [e EXCEPT !.tools[q.tool].pin = ~@], code |-> "none"]
          [] q.what = "update" -> [e |-> Enqueue(e, "update", q.tool), code |-> "job"]
          [] q.what = "refresh" -> [e |-> Enqueue(e, "refresh", "none"), code |-> "job"]
          [] q.what = "reconcile" -> [e |-> Enqueue(Enqueue(e, "reconcile", "none"), "update", "none"), code |-> "job"]
          [] q.what = "cancel" ->
                IF q.id \in LiveJobs(e)
                THEN [e |-> Changed([e EXCEPT !.jobs[q.id].state = "cancelled"], q.id), code |-> "none"]
                ELSE [e |-> e, code |-> "refused"]
          [] q.what = "off" ->
                IF e.tools[q.tool].st = "absent" THEN [e |-> e, code |-> "refused"]
                ELSE IF Dependents(e, q.tool) # {} /\ ~q.force THEN [e |-> e, code |-> "has_dependents"]
                ELSE [e |-> Enqueue([e EXCEPT !.tools[q.tool].st = "off"], "disable", q.tool), code |-> "job"]
          [] q.what = "delete" ->
                IF e.tools[q.tool].st = "absent" THEN [e |-> e, code |-> "refused"]
                ELSE IF Tools[q.tool].essential THEN [e |-> e, code |-> "essential"]
                ELSE IF Dependents(e, q.tool) # {} /\ ~q.force THEN [e |-> e, code |-> "has_dependents"]
                ELSE [e |-> Enqueue(gone(e, {q.tool} \cup Dependents(e, q.tool)), "uninstall", q.tool), code |-> "job"]
          [] OTHER -> [e |-> ensured, code |-> "job"]

\* What is installed when a job is over.
Finished(e, i, ok) ==
    LET j == e.jobs[i]
        over == [e EXCEPT !.jobs[i].state = IF ok THEN "done" ELSE "failed"]
        after == CASE j.kind = "install" /\ e.tools[j.tool].st \notin {"absent", "off"} ->
                        [over EXCEPT !.tools[j.tool].st = IF ok THEN "ok" ELSE "failed"]
                   [] j.kind = "update" /\ ok ->
                        [over EXCEPT !.tools = [t \in Names |-> IF j.tool \in {t, "none"} /\ ~@[t].pin
                                                                THEN [@[t] EXCEPT !.latest = FALSE] ELSE @[t]]]
                   [] OTHER -> over
    IN  Changed(after, i)

-----------------------------------------------------------------------------
(* The list and its rows. *)

\* The buttons a row offers, from the inventory alone.
ToolActions(info, essential) ==
    IF info.installing THEN {}
    ELSE (IF info.st \in {"missing", "failed"} THEN {"install"} ELSE {})
         \cup (IF info.st = "ok" /\ info.latest THEN {"update"} ELSE {})
         \cup (IF info.st = "off" THEN {} ELSE {"pin"})
         \cup {"switch"} \cup (IF essential THEN {} ELSE {"delete"})

RenderToolRow(info) == [info |-> info, on |-> info.st # "off", dead |-> FALSE]

\* A row whose every reported field is what it was is the same row, switch and all.
RenderToolsList(d, tools) ==
    [d EXCEPT !.failed = FALSE, !.rows = [t \in DOMAIN tools |->
        IF t \in DOMAIN d.rows /\ d.rows[t].info = tools[t] THEN d.rows[t] ELSE RenderToolRow(tools[t])]]

\* A list read is shared while it is out: one asked for after it was served comes late.
LoadToolsList(d) ==
    IF d.load = <<>> THEN [d EXCEPT !.load = <<[served |-> <<>>]>>, !.late = FALSE]
    ELSE [d EXCEPT !.late = @ \/ d.load[1].served # <<>>]

-----------------------------------------------------------------------------
(* The live job: three pills, the shared Cancel, the output. *)

SetLive(d, job) ==
    LET kind == IF job = <<>> THEN "none" ELSE job[1].kind
    IN  [d EXCEPT !.live = job,
                  !.pills = [p \in Pills |-> IF (p = kind) = @[p].busy THEN @[p]
                                             ELSE [busy |-> p = kind, requested |-> FALSE]]]

\* Another job's output starts over; the same one's end is told below it.
FollowJob(d, f) ==
    IF f.id # d.followed THEN [d EXCEPT !.followed = f.id, !.out = <<f.id>>]
    ELSE IF ~JobIsLive(f.state) THEN [d EXCEPT !.out = Append(@, f.id)] ELSE d

\* The snapshot speaks only until the stream has.
SeedLiveJob(d, job) == IF d.followed # 0 \/ job = <<>> THEN d ELSE SetLive(d, job)

\* A job found running when the panel opens: its output so far is asked for.
ResumeJobOutput(d, job) ==
    IF job = <<>> \/ job[1].id = d.followed THEN d
    ELSE [d EXCEPT !.followed = job[1].id, !.resuming = Append(@, [id |-> job[1].id, served |-> <<>>])]

-----------------------------------------------------------------------------
(* Requests: one at a time, in the order they were made. *)

Request(d, q) == [d EXCEPT !.reqs = Append(@, [q |-> q, reply |-> <<>>])]

Req(what, t) == [what |-> what, tool |-> t, force |-> FALSE, id |-> 0]

Pending(d, what) == \E i \in DOMAIN d.reqs : d.reqs[i].q.what = what

\* A question before or after a request that takes more than the tool it names.
Ask(d, what, t, deps) == [d EXCEPT !.asks = Append(@, [what |-> what, tool |-> t, deps |-> deps])]

\* Known dependents are asked about first, and the request then forces.
Cascade(d, what, t, deps) == IF deps # {} THEN Ask(d, what, t, deps) ELSE Request(d, Req(what, t))

\* A declined switch goes back to what its row was drawn from.
Restore(d, t) == IF t \in DOMAIN d.rows THEN [d EXCEPT !.rows[t] = RenderToolRow(@.info)] ELSE d

-----------------------------------------------------------------------------
(* The search of the dialog that adds. *)

NoHits == [h \in {} |-> "install"]

\* Joined while the same question is out.
RenderSearch(d, text) ==
    IF \E i \in DOMAIN d.finds : d.finds[i].text = text THEN d
    ELSE [d EXCEPT !.finds = Append(@, [text |-> text, served |-> <<>>])]

\* A row kept across a paint is drawn anew only when its hit moved, or the first time.
PaintSearch(d, hits) ==
    [d EXCEPT !.hits = [t \in hits |-> IF t \in DOMAIN @ /\ t \in d.painted THEN @[t] ELSE "install"],
              !.painted = hits \cap DOMAIN d.hits]

-----------------------------------------------------------------------------
(* The install a banner waits for. *)

NotWaiting == [st |-> "none", tool |-> "none", id |-> 0, buffered |-> <<>>, terminal |-> {}, heard |-> <<>>]

SettleFromState(w, state) ==
    CASE state = "done" -> [w EXCEPT !.st = "installed"]
      [] state \in {"failed", "cancelled"} -> [w EXCEPT !.st = "failed"]
      [] OTHER -> w

(* A mutant of Bind: what came before the answer is not looked at. *)
BindLate(w, id) == [w EXCEPT !.st = "bound", !.id = id]

\* The request is answered: what came before its job had a name is read now.
Bind(w, id) ==
    LET bound == [w EXCEPT !.st = "bound", !.id = id, !.buffered = <<>>, !.terminal = {},
                           !.heard = SelectSeq(w.buffered, LAMBDA x : x[1] = id)]
        last == {x \in w.terminal : x.id = id}
    IN  IF last = {} THEN bound ELSE SettleFromState(bound, (CHOOSE x \in last : TRUE).state)

\* The waiter's own ear, opened before the request goes out.
WaiterHears(w, f) ==
    CASE w.st = "asked" /\ f.what = "output" -> [w EXCEPT !.buffered = Append(@, <<f.id, f.line>>)]
      [] w.st = "asked" /\ f.what = "changed" ->
            [w EXCEPT !.terminal = {x \in @ : x.id # f.id} \cup {[id |-> f.id, state |-> f.state]}]
      [] w.st = "bound" /\ f.id = w.id ->
            IF f.what = "output" THEN [w EXCEPT !.heard = Append(@, <<f.id, f.line>>)] ELSE SettleFromState(w, f.state)
      [] OTHER -> w

-----------------------------------------------------------------------------
ToolsInit ==
    \E s \in ToolScenarios :
        /\ tlleft = s
        /\ te = [tools |-> [t \in Names |-> [st |-> IF t \in Present THEN "ok" ELSE "absent", pin |-> FALSE, latest |-> TRUE]],
                 jobs |-> IF s.boot THEN <<[kind |-> "reconcile", tool |-> "none", state |-> "queued", lines |-> 0]>> ELSE <<>>,
                 wire |-> <<>>, up |-> TRUE, lost |-> {}, unread |-> FALSE, unseen |-> FALSE]
        /\ tl = [shown |-> FALSE, rows |-> [t \in {} |-> RenderToolRow({})], failed |-> FALSE, load |-> <<>>, late |-> FALSE,
                 live |-> <<>>, pills |-> [p \in Pills |-> [busy |-> FALSE, requested |-> FALSE]],
                 followed |-> 0, out |-> <<>>, resuming |-> <<>>, reqs |-> <<>>, asks |-> <<>>, refused |-> {},
                 open |-> FALSE, box |-> "", timer |-> FALSE, finds |-> <<>>, hits |-> NoHits, painted |-> {},
                 unfound |-> FALSE, wait |-> NotWaiting]

-----------------------------------------------------------------------------
(* The engine's own moves. *)

\* How many frames may be under way at once.
Room == Len(te.wire) < tlleft.room

JobStarts(i) ==
    /\ te.jobs[i].state = "queued" /\ Active(te) = <<i>> /\ Room
    /\ te' = Changed([te EXCEPT !.jobs[i].state = "running"], i)
    /\ UNCHANGED <<tl, tlleft>>

JobPrints(i) ==
    /\ te.jobs[i].state = "running" /\ Room /\ Spend("lines")
    /\ te' = Tell([te EXCEPT !.jobs[i].lines = @ + 1], [what |-> "output", id |-> i, line |-> te.jobs[i].lines + 1])
    /\ UNCHANGED tl

JobEnds(i, ok) ==
    /\ te.jobs[i].state = "running" /\ Room
    /\ IF ok THEN UNCHANGED tlleft ELSE Spend("breakdowns")
    /\ te' = Finished(te, i, ok)
    /\ UNCHANGED tl

\* Another device adds a tool.
ElsewhereAdds(t) ==
    /\ Spend("elsewhere") /\ te.tools[t].st = "absent"
    /\ te' = Serve(te, Req("add", t)).e
    /\ UNCHANGED tl

Breaks ==
    /\ te.up /\ Spend("breaks")
    /\ te' = Loses([te EXCEPT !.up = FALSE, !.wire = <<>>], ToSet(te.wire))
    /\ UNCHANGED tl

Returns == ~te.up /\ te' = [te EXCEPT !.up = TRUE] /\ UNCHANGED <<tl, tlleft>>

-----------------------------------------------------------------------------
(* What the page hears. *)

\* tool_job_changed and tool_job_output, for the panel, shown or not, and for a waiter.
Hears ==
    /\ te.wire # <<>>
    /\ LET f == Head(te.wire)
           d == [tl EXCEPT !.wait = WaiterHears(@, f)]
           job == IF JobIsLive(f.state) THEN <<[id |-> f.id, kind |-> f.kind]>> ELSE <<>>
       IN  tl' = IF f.what = "changed" THEN LoadToolsList(FollowJob(SetLive(d, job), f))
                 ELSE IF f.id = d.followed THEN [d EXCEPT !.out = Append(@, f.id)] ELSE d
    /\ te' = [te EXCEPT !.wire = Tail(@), !.unseen = @ /\ Head(te.wire).what # "changed"]
    /\ UNCHANGED tlleft

\* The settings are opened on their Tools tab.
OpensPanel ==
    /\ Spend("opens")
    /\ tl' = LoadToolsList([tl EXCEPT !.shown = TRUE])
    /\ UNCHANGED te

ListServed ==
    /\ tl.load # <<>> /\ tl.load[1].served = <<>>
    /\ tl' = [tl EXCEPT !.load[1].served = <<Inventory(te)>>]
    /\ te' = [te EXCEPT !.unread = FALSE]
    /\ UNCHANGED tlleft

ListLands(ok) ==
    /\ tl.load # <<>>
    /\ IF ok THEN tl.load[1].served # <<>> /\ UNCHANGED tlleft ELSE Spend("fails")
    /\ LET d == [tl EXCEPT !.load = <<>>]
           job == tl.load[1].served[1].job
       IN  tl' = IF ~ok THEN [d EXCEPT !.failed = TRUE, !.rows = [t \in {} |-> RenderToolRow({})]]
                 ELSE ResumeJobOutput(SeedLiveJob(RenderToolsList(d, tl.load[1].served[1].tools), job), job)
    /\ UNCHANGED te

\* The jobs read is shared as well: every panel that asked gets the one answer.
JobsServed ==
    /\ tl.resuming # <<>> /\ tl.resuming[1].served = <<>>
    /\ tl' = [tl EXCEPT !.resuming[1].served = <<[k \in DOMAIN Active(te) |-> [id |-> Active(te)[k], lines |-> te.jobs[Active(te)[k]].lines]]>>]
    /\ UNCHANGED <<te, tlleft>>

JobsLand(ok) ==
    /\ tl.resuming # <<>>
    /\ IF ok THEN tl.resuming[1].served # <<>> /\ UNCHANGED tlleft ELSE Spend("fails")
    /\ LET r == tl.resuming[1]
           d == [tl EXCEPT !.resuming = <<>>]
       IN  tl' = IF ok /\ \E k \in DOMAIN r.served[1] : r.served[1][k].id = r.id
                 THEN [d EXCEPT !.out = [k \in 1 .. 1 + r.served[1][1].lines |-> r.id]] ELSE d
    /\ UNCHANGED te

-----------------------------------------------------------------------------
(* What the reader does. *)

\* A pill starts its job, or asks once for the live one to stop.
ClicksPill(p) ==
    /\ tl.shown /\ ~Pending(tl, p) /\ p \in tlleft.may /\ Spend("pills")
    /\ tl' = IF ~tl.pills[p].busy THEN Request(tl, Req(p, "none"))
             ELSE IF tl.pills[p].requested THEN tl
             ELSE Request([tl EXCEPT !.pills[p].requested = TRUE], [Req("cancel", "none") EXCEPT !.id = tl.live[1].id])
    /\ UNCHANGED te

\* The shared Cancel, shown for a live job no pill owns.
ClicksCancel ==
    /\ tl.live # <<>> /\ tl.live[1].kind \notin Pills /\ "cancel" \in tlleft.may /\ Spend("pills")
    /\ tl' = Request(tl, [Req("cancel", "none") EXCEPT !.id = tl.live[1].id])
    /\ UNCHANGED te

ClicksRow(t, what) ==
    /\ t \in DOMAIN tl.rows /\ what \in tlleft.may /\ what \in ToolActions(tl.rows[t].info, Tools[t].essential)
    /\ tl.asks = <<>> /\ ~tl.open /\ Spend("acts")
    /\ LET row == tl.rows[t]
       IN  tl' = CASE what \in {"install", "update", "pin"} -> Request(tl, Req(what, t))
                   [] what = "delete" ->
                        IF row.info.deps = {} THEN Ask(tl, "plain", t, {}) ELSE Cascade(tl, "delete", t, row.info.deps)
                   [] OTHER ->
                        LET d == [tl EXCEPT !.rows[t] = [@ EXCEPT !.on = ~@, !.dead = TRUE]]
                        IN  IF row.on THEN Cascade(d, "off", t, row.info.deps) ELSE Request(d, Req("on", t))
    /\ (what = "switch" => ~tl.rows[t].dead) /\ UNCHANGED te

AnswersAsk(yes) ==
    /\ tl.asks # <<>>
    /\ LET a == Head(tl.asks)
           d == [tl EXCEPT !.asks = Tail(@)]
       IN  tl' = IF ~yes THEN (IF a.what = "off" THEN Restore(d, a.tool) ELSE d)
                 ELSE IF a.what = "plain" THEN Request(d, Req("delete", a.tool))
                 ELSE Request(d, [Req(a.what, a.tool) EXCEPT !.force = TRUE])
    /\ UNCHANGED <<te, tlleft>>

\* The head of the line is served, or refused on its way.
RequestServed ==
    /\ tl.reqs # <<>> /\ tl.reqs[1].reply = <<>>
    /\ LET s == Serve(te, tl.reqs[1].q)
       IN  te' = s.e /\ tl' = [tl EXCEPT !.reqs[1].reply = <<[code |-> s.code, job |-> Len(s.e.jobs),
                                                             deps |-> IF tl.reqs[1].q.tool \in Names
                                                                      THEN Dependents(te, tl.reqs[1].q.tool) ELSE {}]>>]
    /\ UNCHANGED tlleft

RequestLands(ok) ==
    /\ tl.reqs # <<>>
    /\ IF ok THEN tl.reqs[1].reply # <<>> /\ UNCHANGED tlleft ELSE tl.reqs[1].reply = <<>> /\ Spend("fails")
    /\ LET q == tl.reqs[1].q
           reply == IF ok THEN tl.reqs[1].reply[1] ELSE [code |-> "refused", job |-> 0, deps |-> {}]
           d == [tl EXCEPT !.reqs = Tail(@)]
           row == LoadToolsList([d EXCEPT !.refused = IF reply.code = "refused" THEN @ \cup {q.tool} ELSE @])
       IN  tl' = CASE q.what = "add" ->
                        IF reply.code = "refused" THEN RenderSearch(d, d.box) ELSE LoadToolsList([d EXCEPT !.open = FALSE])
                   [] q.what \in {"install", "pin", "on"} -> row
                   [] q.what \in {"off", "delete"} ->
                        IF reply.code = "has_dependents" THEN Ask(d, q.what, q.tool, reply.deps) ELSE row
                   [] q.what = "ensure" ->
                        [d EXCEPT !.wait = IF reply.code = "refused" THEN [@ EXCEPT !.st = "failed"] ELSE Bind(@, reply.job)]
                   [] OTHER -> d
    /\ UNCHANGED te

\* Add tool: the box emptied and the featured tools asked for.
OpensAdd ==
    /\ tl.shown /\ ~tl.open /\ tl.asks = <<>> /\ Spend("adds")
    /\ tl' = RenderSearch([tl EXCEPT !.open = TRUE, !.box = ""], "")
    /\ UNCHANGED te

ClosesAdd == tl.open /\ Spend("adds") /\ tl' = [tl EXCEPT !.open = FALSE] /\ UNCHANGED te

Types(text) ==
    /\ tl.open /\ text # tl.box /\ Spend("types")
    /\ tl' = [tl EXCEPT !.box = text, !.timer = TRUE]
    /\ UNCHANGED te

\* The debounce fires, or Enter and the glass ask at once.
Searches == tl.timer /\ tl' = RenderSearch([tl EXCEPT !.timer = FALSE], tl.box) /\ UNCHANGED <<te, tlleft>>

\* Another order over the rows at hand.
Sorts ==
    /\ tl.open /\ ~tl.unfound /\ Spend("types")
    /\ tl' = PaintSearch(tl, DOMAIN tl.hits)
    /\ UNCHANGED te

SearchServed(i) ==
    /\ tl.finds[i].served = <<>>
    /\ tl' = [tl EXCEPT !.finds[i].served = <<{t \in Names : te.tools[t].st = "absent"}>>]
    /\ UNCHANGED <<te, tlleft>>

SearchLands(i, ok) ==
    /\ IF ok THEN tl.finds[i].served # <<>> /\ UNCHANGED tlleft ELSE tl.finds[i].served = <<>> /\ Spend("fails")
    /\ LET d == [tl EXCEPT !.finds = RemoveAt(@, i), !.unfound = ~ok]
       IN  tl' = IF ok THEN PaintSearch(d, tl.finds[i].served[1]) ELSE [d EXCEPT !.hits = NoHits, !.painted = {}]
    /\ UNCHANGED te

\* A hit is added: its button says so until the row is drawn anew.
Adds(t) ==
    /\ tl.open /\ t \in DOMAIN tl.hits /\ tl.hits[t] = "install" /\ Spend("acts")
    /\ tl' = Request([tl EXCEPT !.hits[t] = "queued"], Req("add", t))
    /\ UNCHANGED te

\* A banner elsewhere installs what it needs, and waits.
BannerInstalls(t) ==
    /\ tl.wait.st = "none" /\ Spend("banners")
    /\ tl' = Request([tl EXCEPT !.wait = [@ EXCEPT !.st = "asked", !.tool = t]], Req("ensure", t))
    /\ UNCHANGED te

-----------------------------------------------------------------------------
ToolsNext ==
    \/ \E i \in DOMAIN te.jobs : JobStarts(i) \/ JobPrints(i) \/ \E ok \in BOOLEAN : JobEnds(i, ok)
    \/ \E t \in Names : \/ ElsewhereAdds(t) \/ Adds(t) \/ BannerInstalls(t)
                        \/ \E what \in {"install", "update", "pin", "switch", "delete"} : ClicksRow(t, what)
    \/ Breaks \/ Returns \/ Hears \/ OpensPanel \/ ListServed \/ JobsServed \/ RequestServed
    \/ \E ok \in BOOLEAN : ListLands(ok) \/ JobsLand(ok) \/ RequestLands(ok) \/ AnswersAsk(ok)
    \/ \E p \in Pills : ClicksPill(p)
    \/ ClicksCancel \/ OpensAdd \/ ClosesAdd \/ Searches \/ Sorts
    \/ \E x \in Texts : Types(x)
    \/ \E i \in DOMAIN tl.finds : SearchServed(i) \/ \E ok \in BOOLEAN : SearchLands(i, ok)

-----------------------------------------------------------------------------
Told == te.up /\ te.wire = <<>>

Still == Told /\ tl.reqs = <<>> /\ tl.load = <<>> /\ tl.asks = <<>>

\* With nothing on its way the list is the engine's, switch by switch, unless its read was
\* one already answered when it was last asked for, or failed, or nothing asked for another
\* after a frame was lost; a switch whose request was refused is the exception.
ListIsEngines ==
    tl.shown /\ Still /\ ~tl.late /\ ~tl.failed /\ ~te.unread =>
        /\ DOMAIN tl.rows = {t \in Names : te.tools[t].st # "absent"}
        /\ \A t \in DOMAIN tl.rows :
                /\ tl.rows[t].info = ToolInfo(te, t)
                /\ t \notin tl.refused => tl.rows[t] = RenderToolRow(tl.rows[t].info)

\* No control is left to cancel a job when none is live, unless a change was lost and none
\* was heard since, and a pill is on its Cancel face exactly when the job it shows is of its kind.
NoPillStranded ==
    /\ Told /\ tl.load = <<>> /\ LiveJobs(te) = {} /\ ~te.unseen => tl.live = <<>>
    /\ \A p \in Pills : tl.pills[p].busy <=> tl.live # <<>> /\ tl.live[1].kind = p

\* The lines a job printed, without those a lost stream took.
LinesTold(id) ==
    SelectSeq([i \in 1 .. te.jobs[id].lines |-> <<id, i>>],
              LAMBDA x : [what |-> "output", id |-> id, line |-> x[2]] \notin te.lost)

EndLost(id) == \E f \in te.lost : f.what = "changed" /\ f.id = id /\ ~JobIsLive(f.state)

\* Whoever waits for an install hears its job's lines, each once and in their order, but for
\* those the stream lost, and is told how it ended; the lines and the end may come before the
\* request is answered.  Only an end the stream itself lost leaves it waiting: nothing polls.
WaiterIsTold ==
    LET w == tl.wait
    IN  /\ w.st \in {"installed", "bound"} =>
             IF Told THEN w.heard = LinesTold(w.id) ELSE IsPrefix(w.heard, LinesTold(w.id))
        /\ w.st = "installed" => te.jobs[w.id].state = "done"
        /\ Told /\ w.st = "bound" => JobIsLive(te.jobs[w.id].state) \/ EndLost(w.id)

ToolsAreTold == ListIsEngines /\ NoPillStranded /\ WaiterIsTold

=============================================================================
