----------------------------- MODULE ClientBody -----------------------------
(***************************************************************************)
(* The bodies of the turns of one chat as the web client draws them        *)
(* (messages-blocks.ts, block-window.ts, turns.ts): a body holds a window  *)
(* of its turn's entries, mounted below as entries arrive, above as the    *)
(* reader scrolls, and dropped at either end; what an entry is drawn as    *)
(* may change when a later entry arrives.                                  *)
(*                                                                         *)
(* The document is a tree of elements: a body, its tool groups, pipeline   *)
(* boxes and cards.  Prose is the list of the entries it shows, and a tool *)
(* call is the card it is drawn as.  The store's transcript of a turn is a *)
(* prefix of a script, with at most one entry still being written.         *)
(***************************************************************************)
EXTENDS Integers, Sequences, FiniteSets, SequencesExt, FiniteSetsExt, TLC

CONSTANTS
    BodyScripts,    \* what the turns of the chat will hold: sequences of entries
    BodyWrites,     \* the kinds of entry seen while they are written
    BodyBudgets     \* budgets of arrivals, window moves and parks

VARIABLES
    bd,      \* the renders of the chat, and who hosts each run's card
    bdheld,  \* per turn, how many of its entries the client holds
    bdopen,  \* per turn, the entry being written, or 0
    bdleft   \* what may still happen

bdvars == <<bd, bdheld, bdopen, bdleft>>

BodyTurns == Len(bd.script)

None == <<>>
Fresh == 0
Silent == {"close", "bind", "result", "reconciled"}

-----------------------------------------------------------------------------
(* What a turn's entries draw.  T is the turn's body.                      *)

(* The first of some positions, or 0.                                      *)
First(positions) == IF positions = {} THEN 0 ELSE Min(positions)

Plans(T) == {i \in DOMAIN T : T[i].k = "plan" /\ T[i].lane = 0}
FirstPlan(T) == First(Plans(T))
NewestPlan(T) == Max(Plans(T) \cup {0})

EntryRenders(T, i) ==
    /\ i \in DOMAIN T
    /\ \/ T[i].k = "steer"
       \/ /\ T[i].lane = 0 /\ T[i].k \notin Silent
          /\ T[i].k = "plan" => i = FirstPlan(T)

Rendering(T) == {i \in DOMAIN T : EntryRenders(T, i)}
LastRendered(T) == Max(Rendering(T) \cup {0})

InProse(T, i) == EntryRenders(T, i) /\ T[i].k = "text"

(* A run of prose: texts with nothing drawn between them.                  *)
SameRun(T, i, j) == \A m \in i..j : EntryRenders(T, m) => InProse(T, m)

RunStart(T, i) == IF InProse(T, i) THEN Min({j \in 1..i : InProse(T, j) /\ SameRun(T, j, i)}) ELSE i
RunEnd(T, i) ==
    IF InProse(T, i) THEN Max({j \in i..Len(T) : InProse(T, j) /\ SameRun(T, i, j)}) ELSE i

Clamp(n, lo, hi) == IF n < lo THEN lo ELSE IF n > hi THEN hi ELSE n

(* A window never cuts a run of prose.  Position 0 is the turn's prompt.   *)
SliceTurn(T, from, to) ==
    LET a == Clamp(from, 0, Len(T) + 1)
        b == Clamp(to, a, Len(T) + 1)
    IN  IF a >= b THEN <<a, b>> ELSE <<RunStart(T, a), RunEnd(T, b - 1) + 1>>

(* The run a tool call launched, which its own result may be first to say. *)
EffectiveRun(T, i) ==
    IF T[i].k # "tool" THEN 0
    ELSE IF T[i].run # 0 THEN T[i].run
    ELSE LET said == {j \in DOMAIN T : T[j].k = "result" /\ T[j].of = i /\ T[j].run # 0} IN
         IF said = {} THEN 0 ELSE T[Max(said)].run

Settled(T, i) == \E j \in DOMAIN T : T[j].k = "result" /\ T[j].of = i
Closed(T) == \E i \in DOMAIN T : T[i].k = "close"

(* The first entry of the chat to launch a run owns the run's card.        *)
RunCardOwner(turns, run) ==
    LET launches == {at \in {<<t, i>> : t \in DOMAIN turns, i \in 1..Max({0} \cup {Len(turns[u]) : u \in DOMAIN turns})} :
                        at[2] \in DOMAIN turns[at[1]] /\ turns[at[1]][at[2]].lane = 0
                        /\ EffectiveRun(turns[at[1]], at[2]) = run}
    IN  IF run = 0 \/ launches = {} THEN None
        ELSE CHOOSE at \in launches :
                \A b \in launches : at[1] < b[1] \/ (at[1] = b[1] /\ at[2] <= b[2])

Stages(T, p) == {T[i].sub : i \in {j \in DOMAIN T : T[j].k = "delegate" /\ T[j].pipe = p}}
InvocationAt(T, sub) == First({i \in DOMAIN T : T[i].k = "delegate" /\ T[i].sub = sub})
StagePipe(T, sub) == IF InvocationAt(T, sub) = 0 THEN 0 ELSE T[InvocationAt(T, sub)].pipe
DriverAt(T, p) == First({i \in DOMAIN T : T[i].k = "driver" /\ T[i].pipe = p})

(* A pipeline of one stage has no box of its own: its stage is promoted.   *)
HasContainer(T, p) ==
    LET driver == {i \in DOMAIN T : i = DriverAt(T, p)}
    IN  Max({T[i].declared : i \in driver} \cup {Cardinality(Stages(T, p))}) # 1

DriverNeedsBox(T, p) ==
    HasContainer(T, p) \/ (Settled(T, DriverAt(T, p)) /\ Stages(T, p) = {})

-----------------------------------------------------------------------------
(* The stretch of the chat mounted around an anchor.                       *)

(* The chat's positions in order, as <<turn, position>>.                   *)
Positions(turns) ==
    FlattenSeq([t \in 1..Len(turns) |-> [n \in 1..(Len(turns[t]) + 1) |-> <<t, n - 1>>]])

(* Grown by one position at each end in turn, until the budget is spent    *)
(* there; a position that draws nothing is free.                           *)
PlanResidency(turns, at, budget) ==
    LET pos == Positions(turns)
        Free(n) == ~EntryRenders(turns[pos[n][1]], pos[n][2])
        Tool(n) == ~Free(n) /\ turns[pos[n][1]][pos[n][2]].k \in {"tool", "todo", "driver", "delegate"}
        Cost(n) == [entries |-> IF Free(n) THEN 0 ELSE 1, tools |-> IF Tool(n) THEN 1 ELSE 0]
        Grow(g, step) ==
            LET side == IF step % 2 = 1 THEN "head" ELSE "tail"
                next == IF side = "head" THEN g.lo - 1 ELSE g.hi
                fits == Free(next) \/ (/\ g.entries + Cost(next).entries <= budget.entries
                                       /\ g.tools + Cost(next).tools <= budget.tools)
            IN  CASE g[side] -> g
                  [] ~g[side] /\ ~fits -> [g EXCEPT ![side] = TRUE]
                  [] OTHER ->
                       [g EXCEPT !.entries = @ + Cost(next).entries, !.tools = @ + Cost(next).tools,
                                 !.lo = IF side = "head" THEN next ELSE @,
                                 !.hi = IF side = "head" THEN @ ELSE next + 1,
                                 ![side] = IF side = "head" THEN next = 1 ELSE next = Len(pos)]
        start == [lo |-> at, hi |-> at + 1, entries |-> Cost(at).entries, tools |-> Cost(at).tools,
                  head |-> at = 1, tail |-> at = Len(pos)]
        grown == FoldLeft(Grow, start, [n \in 1..(2 * Len(pos)) |-> n])
        Kept(t) == {pos[n][2] : n \in {m \in grown.lo..(grown.hi - 1) : pos[m][1] = t}}
    IN  [t \in 1..Len(turns) |->
            IF Kept(t) = {} THEN None ELSE SliceTurn(turns[t], Min(Kept(t)), Max(Kept(t)) + 1)]

-----------------------------------------------------------------------------
(* The document.  An element is its kind and the entry, or the number of   *)
(* the box, it stands for; "kids" gives a container's children in order.   *)

Body == <<"body", 0>>
End == <<"end", 0>>

MaxEntries == Max(UNION {{Len(s[t]) : t \in DOMAIN s} : s \in BodyScripts})
Entries == 1..MaxEntries
Boxes == 1..2
Runs == 1..2
Containers == {Body} \cup {<<"pipe", p>> : p \in Boxes} \cup {<<"group", i>> : i \in 0..(MaxEntries + 1)}

(* A render that holds nothing yet.  "mine": the entries that own the card *)
(* of the run they launch.                                                 *)
EmptyRender(T, from) ==
    [turn |-> T, mine |-> {}, from |-> from, to |-> from,
     kids |-> [c \in Containers |-> <<>>],
     els |-> [i \in Entries |-> None],          \* entryEls
     heads |-> [i \in Entries |-> <<>>],        \* proseRuns: the entries of the run at its head
     tail |-> None,                             \* openTail: <<kind, entry, head>>
     subs |-> <<>>, pipes |-> {}, cards |-> {}, \* subagents, pipelines, runs
     bound |-> [k \in {} |-> 0],                \* boxBindings, at the entry each was made for
     planFrom |-> 0,
     told |-> 0, strayed |-> FALSE,             \* history, for DrawnAsBuilt
     above |-> FALSE, refs |-> [c \in Containers |-> None]]

ParentOf(st, el) ==
    LET holding == {c \in Containers : \E n \in DOMAIN st.kids[c] : st.kids[c][n] = el} IN
    IF holding = {} THEN None ELSE CHOOSE c \in holding : TRUE

IndexOf(seq, el) == CHOOSE n \in DOMAIN seq : seq[n] = el
InsertBefore(seq, el, ref) ==
    IF ref = End THEN Append(seq, el) ELSE InsertAt(seq, IndexOf(seq, ref), el)
Without(seq, el) == SelectSeq(seq, LAMBDA x : x # el)

Detach(st, el) ==
    IF ParentOf(st, el) = None THEN st ELSE [st EXCEPT !.kids[ParentOf(st, el)] = Without(@, el)]

(* The child of a container that an element is, or is inside of.           *)
ChildWithin(st, host, el) ==
    LET around == {c \in ToSet(st.kids[host]) : c = el \/ (c \in Containers /\ Contains(st.kids[c], el))}
    IN  CHOOSE c \in around \cup {None} : around # {} => c # None

(* What is mounted next below a seat.                                      *)
SeatAbove(st, host, at, placed) ==
    LET seats == [i \in Entries |-> IF i > at /\ i < st.to THEN ChildWithin(st, host, st.els[i]) ELSE None]
        below(seat) == First({i \in Entries : seat[i] \notin {None, placed}})
        Lowest(seat) == IF below(seat) = 0 THEN None ELSE seat[below(seat)]
    IN  Lowest(seats)

(* Mounting above: the first child each container held is remembered.      *)
CaptureRef(st, c) ==
    IF st.above /\ st.refs[c] = None
    THEN [st EXCEPT !.refs[c] = IF st.kids[c] = <<>> THEN End ELSE Head(st.kids[c])]
    ELSE st

(* A mutant of PlaceIn: what is mounted above is put first.                *)
PlaceFirst(st, c, el) ==
    IF st.above THEN [st EXCEPT !.kids[c] = <<el>> \o @] ELSE [st EXCEPT !.kids[c] = Append(@, el)]

PlaceIn(st, c, el) ==
    LET x == CaptureRef(st, c) IN
    [x EXCEPT !.kids[c] = InsertBefore(@, el, IF x.above THEN x.refs[c] ELSE End)]

(* A box goes where its entry is seated, among what is mounted already.    *)
PlaceContainer(st, c, el, at) ==
    LET Put(seat) == IF seat = None THEN PlaceIn(st, c, el)
                     ELSE [CaptureRef(st, c) EXCEPT !.kids[c] = InsertBefore(@, el, seat)]
    IN  Put(IF at = 0 THEN None ELSE SeatAbove(st, c, at, el))

(* A card that is already mounted, met again while mounting above.         *)
ReseatInserted(st, c, el) ==
    IF ~st.above THEN st
    ELSE LET x == CaptureRef(st, c)
             ref == x.refs[c]
             seq == x.kids[c]
             after(s) == IF IndexOf(s, el) = Len(s) THEN End ELSE s[IndexOf(s, el) + 1]
         IN  CASE ref = el -> [x EXCEPT !.refs[c] = after(seq)]
               [] ref = End -> x
               [] ref \notin {el, End} /\ IndexOf(seq, el) < IndexOf(seq, ref) -> x
               [] OTHER ->
                    LET moved == InsertBefore(Without(seq, el), el, ref)
                    IN  [x EXCEPT !.kids[c] = moved, !.refs[c] = after(moved)]

Stamp(st, i, el) == [st EXCEPT !.els[i] = el]

Rename(st, old, new) ==
    [st EXCEPT !.kids[Body] = [n \in DOMAIN @ |-> IF @[n] = old THEN new ELSE @[n]]]

-----------------------------------------------------------------------------
(* Which entries share a group of tool cards, and where a box is seated.   *)

(* The boxes an entry opens: its own, or its pipeline's around it.         *)
Opens(st, i) ==
    LET T == st.turn
        e == T[i]
        hosted(p) == p \in st.pipes \/ HasContainer(T, p)
    IN  CASE e.k = "delegate" /\ e.pipe # 0 /\ hosted(e.pipe) -> {<<"pipe", e.pipe>>, <<"sub", e.sub>>}
          [] e.k = "delegate" /\ ~(e.pipe # 0 /\ hosted(e.pipe)) -> {<<"sub", e.sub>>}
          [] e.k = "tool" /\ EffectiveRun(T, i) # 0 /\ i \in st.mine -> {<<"run", EffectiveRun(T, i)>>}
          [] e.k = "driver" /\ (e.pipe \in st.pipes \/ DriverNeedsBox(T, e.pipe)) -> {<<"pipe", e.pipe>>}
          [] OTHER -> {}

ContainerAt(st, box) ==
    First({i \in Rendering(st.turn) : box \in Opens(st, i)})

SeatedInBody(st, box, i) == ~(box[1] = "sub" /\ \E p \in Boxes : <<"pipe", p>> \in Opens(st, i))

PlainTool(st, i) == st.turn[i].k = "tool" /\ ~(EffectiveRun(st.turn, i) # 0 /\ i \in st.mine)

(* What breaks a run of tool cards: everything drawn but a tool card.      *)
Closes(st, i) ==
    \/ st.turn[i].k \notin {"tool", "driver", "delegate"}
    \/ \E box \in Opens(st, i) : ContainerAt(st, box) = i /\ SeatedInBody(st, box, i)

GroupStart(st, i) ==
    Max({0} \cup {n + 1 : n \in {m \in Rendering(st.turn) : m < i /\ Closes(st, m)}})

-----------------------------------------------------------------------------
(* Mounting an entry.                                                      *)

BuildBox(st, p) ==
    LET box == <<"pipe", p>>
        promoted == SelectSeq(st.subs, LAMBDA b : StagePipe(st.turn, b) = p
                                                  /\ ParentOf(st, <<"sub", b>>) = Body)
        cards == [n \in DOMAIN promoted |-> <<"sub", promoted[n]>>]
        x == [st EXCEPT !.pipes = @ \cup {p}]
    IN  IF promoted = <<>> THEN PlaceContainer(x, Body, box, ContainerAt(st, box))
        ELSE [x EXCEPT !.kids[Body] = SelectSeq([n \in DOMAIN @ |-> IF @[n] = cards[1] THEN box ELSE @[n]],
                                                LAMBDA el : ~Contains(cards, el)),
                       !.kids[box] = @ \o cards]

Bind(st, key, i) == [st EXCEPT !.bound = (key :> i) @@ @]
IsBound(st, key) == key \in DOMAIN st.bound
Release(st, keys) == [st EXCEPT !.bound = [k \in DOMAIN @ \ keys |-> @[k]]]

(* The driver of a pipeline paints its box once there is one to paint.     *)
PaintPipeline(st, p, i) ==
    IF ~DriverNeedsBox(st.turn, p) THEN st
    ELSE Stamp(IF p \in st.pipes THEN st ELSE BuildBox(st, p), i, <<"pipe", p>>)

BindPipeline(st, p, i) ==
    IF IsBound(st, <<"pipe", p>>) THEN st ELSE PaintPipeline(Bind(st, <<"pipe", p>>, i), p, i)

BindDriver(st, p) == IF DriverAt(st.turn, p) = 0 THEN st ELSE BindPipeline(st, p, DriverAt(st.turn, p))
PipelineBoxFor(st, p) == IF p \in st.pipes THEN st ELSE BindDriver(BuildBox(st, p), p)

(* A stage sits in its pipeline's box, where the pipeline has one.         *)
Boxed(st, b) == LET p == StagePipe(st.turn, b) IN p # 0 /\ (p \in st.pipes \/ HasContainer(st.turn, p))
StageHost(st, b) == IF Boxed(st, b) THEN <<"pipe", StagePipe(st.turn, b)>> ELSE Body
WithStageBox(st, b) == IF Boxed(st, b) THEN PipelineBoxFor(st, StagePipe(st.turn, b)) ELSE st

SubagentCardFor(st, b) ==
    IF Contains(st.subs, b) THEN st
    ELSE LET In(x) == PlaceContainer(x, StageHost(x, b), <<"sub", b>>, ContainerAt(x, <<"sub", b>>))
         IN  In(WithStageBox(Bind([st EXCEPT !.subs = Append(@, b)], <<"sub", b>>, InvocationAt(st.turn, b)), b))

(* A stage placed before its pipeline was known to have a box moves in.    *)
RehomeStages(st) ==
    LET Into(y, host, el) == IF Contains(y.kids[host], el) THEN y
                             ELSE [Detach(y, el) EXCEPT !.kids[host] = Append(@, el)]
        Rehome(y, b) == Into(y, StageHost(y, b), <<"sub", b>>)
    IN  FoldLeft(LAMBDA x, b : Rehome(WithStageBox(x, b), b), st, st.subs)

MountToolCard(st, i) ==
    LET Into(group) ==
            PlaceIn(IF Contains(st.kids[Body], group) THEN Stamp(st, i, <<"card", i>>)
                    ELSE PlaceIn(Stamp(st, i, <<"card", i>>), Body, group), group, <<"card", i>>)
    IN  Into(<<"group", GroupStart(st, i)>>)

MountOwn(st, i, kind) == PlaceIn(Stamp(st, i, <<kind, i>>), Body, <<kind, i>>)

MountPlan(st, i) ==
    [(IF st.els[i] = None THEN MountOwn(st, i, "plan") ELSE st) EXCEPT !.planFrom = NewestPlan(st.turn)]

(* A thought that was being written keeps the view it grew in.             *)
MountThinking(st, i) ==
    IF st.tail # None /\ st.tail[1] = "thinking" /\ st.tail[2] = i
    THEN Rename(Stamp([st EXCEPT !.tail = None], i, <<"thinking", i>>), <<"thinking", Fresh>>, <<"thinking", i>>)
    ELSE MountOwn(st, i, "thinking")

JoinRun(st, head, i) ==
    IF Contains(st.heads[head], i) THEN st
    ELSE Stamp([st EXCEPT !.heads[head] = Append(@, i),
                          !.tail = IF @ # None /\ @[2] = i THEN None ELSE @],
               i, <<"row", head>>)

(* The row a run of prose is drawn in: its own, or the one its first entry *)
(* was being written in, or a new one.                                     *)
MountProse(st, head, seqs) ==
    LET adopts == st.tail # None /\ st.tail[1] = "text" /\ st.tail[3] = Fresh /\ Contains(seqs, st.tail[2])
        row == CASE st.heads[head] # <<>> -> st
                 [] st.heads[head] = <<>> /\ adopts ->
                      Rename(Stamp([st EXCEPT !.tail[3] = head], head, <<"row", head>>), <<"row", Fresh>>, <<"row", head>>)
                 [] OTHER -> PlaceIn(Stamp(st, head, <<"row", head>>), Body, <<"row", head>>)
    IN  FoldLeft(LAMBDA x, i : JoinRun(x, head, i), row, seqs)

-----------------------------------------------------------------------------
(* The card of a run: one per chat, hosted by one body at a time.          *)

ReleaseRunCard(s, t, run) ==
    IF s.hosts[run] = t THEN [s EXCEPT !.hosts[run] = 0] ELSE s

Adopt(s, t, host, run, seat) ==
    LET el == <<"run", run>>
        out == [s EXCEPT !.r[host] = [Detach(@, el) EXCEPT !.cards = @ \ {run}], !.hosts[run] = t]
        in(st) == IF seat = <<>> THEN PlaceIn(st, Body, el)
                  ELSE [st EXCEPT !.kids[Body] = InsertBefore(@, el, seat[1])]
    IN  [out EXCEPT !.r[t] = in([@ EXCEPT !.cards = @ \cup {run}])]

RunCardFor(s, t, run) ==
    LET st == s.r[t]
        host == s.hosts[run]
        el == <<"run", run>>
    IN  CASE run \in st.cards -> [s EXCEPT !.r[t] = ReseatInserted(st, Body, el)]
          [] run \notin st.cards /\ host # 0 -> Adopt(s, t, host, run, <<>>)
          [] OTHER -> [s EXCEPT !.r[t] = PlaceContainer([st EXCEPT !.cards = @ \cup {run}], Body, el,
                                                       ContainerAt(st, el)),
                                !.hosts[run] = t]

PlaceEntry(s, t, i) ==
    LET st == s.r[t]
        e == st.turn[i]
        In(x) == [s EXCEPT !.r[t] = x]
    IN  CASE e.k \in {"event", "steer"} -> In(MountOwn(st, i, e.k))
          [] e.k = "ack" -> In(MountProse(st, i, <<i>>))
          [] e.k = "thinking" -> In(MountThinking(st, i))
          [] e.k = "plan" -> In(MountPlan(st, i))
          [] e.k = "todo" -> In(MountOwn(st, i, "todo"))
          [] e.k = "driver" -> In(BindPipeline(st, e.pipe, i))
          [] e.k = "delegate" -> In(Stamp(SubagentCardFor(st, e.sub), i, <<"sub", e.sub>>))
          [] e.k = "tool" /\ PlainTool(st, i) -> In(MountToolCard(st, i))
          [] e.k = "tool" /\ ~PlainTool(st, i) ->
               LET run == EffectiveRun(st.turn, i) IN
               [RunCardFor(s, t, run) EXCEPT !.r[t] = Stamp(@, i, <<"run", run>>)]

(* Entries from..to-1, the entries of a run of prose together.             *)
RenderRange(s, t, from, to) ==
    LET T == s.r[t].turn
        shown == {i \in from..(to - 1) : EntryRenders(T, i)}
        heads == {i \in shown : InProse(T, i) => \A j \in shown : j < i => RunStart(T, j) # RunStart(T, i)}
        Together(i) == SetToSortSeq({j \in shown : InProse(T, j) /\ RunStart(T, j) = RunStart(T, i)}, <)
        x0 == [s EXCEPT !.r[t].from = Min({@, from}), !.r[t].to = Max({@, to})]
    IN  FoldLeft(LAMBDA x, i : IF InProse(T, i) THEN [x EXCEPT !.r[t] = MountProse(@, RunStart(T, i), Together(i))]
                               ELSE PlaceEntry(x, t, i),
                 x0, SetToSortSeq(heads, <))

-----------------------------------------------------------------------------
(* The entry being written, drawn at the tail of the body.                 *)

DropOpenSurface(st) ==
    CASE st.tail[1] = "thinking" -> Detach(st, <<"thinking", Fresh>>)
      [] st.tail[1] = "text" /\ st.tail[3] = Fresh -> Detach(st, <<"row", Fresh>>)
      [] OTHER -> st

MountOpenProse(st, open) ==
    LET T == st.turn
        last == LastRendered(T)
        head == IF InProse(T, last) /\ st.heads[RunStart(T, last)] # <<>> THEN RunStart(T, last) ELSE Fresh
        x == [st EXCEPT !.tail = <<"text", open, head>>]
    IN  CASE last # 0 /\ (last < st.from \/ last >= st.to) -> st
          [] head # Fresh /\ ~(last < st.from \/ last >= st.to) -> x
          [] OTHER -> PlaceIn(x, Body, <<"row", Fresh>>)

MountOpenThinking(st, open) ==
    PlaceIn([st EXCEPT !.tail = <<"thinking", open, Fresh>>], Body, <<"thinking", Fresh>>)

SyncOpenTail(st, open, kind) ==
    LET stale == st.tail # None /\ st.tail[2] # open
        x == [(IF stale THEN [DropOpenSurface(st) EXCEPT !.tail = None] ELSE st) EXCEPT !.told = open]
    IN  CASE open = 0 \/ x.tail # None \/ Closed(x.turn) -> x
          [] open # 0 /\ x.tail = None /\ ~Closed(x.turn) /\ kind = "thinking" -> MountOpenThinking(x, open)
          [] OTHER -> MountOpenProse(x, open)

-----------------------------------------------------------------------------
(* Dropping entries.                                                       *)

ContainerRoot(st, el) ==
    \/ el[1] \in {"pipe", "sub"}
    \/ el[1] = "run" /\ el[2] \in st.cards

(* A row goes with the entry at its head; a card that holds others waits.  *)
DropEntry(st, i) ==
    LET el == st.els[i]
        x == [st EXCEPT !.els[i] = None]
        headless == [x EXCEPT !.heads[i] = <<>>,
                              !.tail = IF @ # None /\ @[1] = "text" /\ @[3] = i THEN None ELSE @]
    IN  CASE el = None -> x
          [] el # None /\ el[1] = "row" /\ el[2] # i -> x
          [] el # None /\ el[1] = "row" /\ el[2] = i -> Detach(headless, el)
          [] OTHER -> IF ContainerRoot(st, el) THEN x ELSE Detach(x, el)

PruneEmptyToolGroups(st) ==
    [st EXCEPT !.kids[Body] = SelectSeq(@, LAMBDA el : el[1] = "group" => st.kids[el] # <<>>)]

PruneEmptyContainers(st) ==
    LET empty == {p \in st.pipes : st.kids[<<"pipe", p>>] = <<>>}
        x == PruneEmptyToolGroups(st)
    IN  Release([x EXCEPT !.kids[Body] = SelectSeq(@, LAMBDA el : ~(el[1] = "pipe" /\ el[2] \in empty)),
                          !.pipes = @ \ empty],
                {<<"pipe", p>> : p \in empty})

(* A card whose own invocation left, with no call of its delegate kept.    *)
PruneOrphanedCards(st, from, to) ==
    LET live == {st.turn[i].sub : i \in {j \in from..(to - 1) : j \in DOMAIN st.turn /\ st.turn[j].k = "delegate"}}
        gone == {b \in ToSet(st.subs) : b \notin live}
        x == FoldSet(LAMBDA b, acc : Detach(acc, <<"sub", b>>), st, gone)
    IN  Release([x EXCEPT !.subs = SelectSeq(@, LAMBDA b : b \in live)], {<<"sub", b>> : b \in gone})

(* A box that outlived the entry its binding was released with.            *)
RebindSurvivingBoxes(st) ==
    LET Rebind(acc, b) == IF IsBound(acc, <<"sub", b>>) THEN acc
                          ELSE Bind(acc, <<"sub", b>>, InvocationAt(acc.turn, b))
    IN  FoldSet(LAMBDA p, acc : BindDriver(acc, p), FoldLeft(Rebind, st, st.subs), st.pipes)

(* The first body, in the document's order, whose window has an entry      *)
(* drawn as the card.                                                      *)
LiveRunClaimant(s, run) ==
    LET at(t) == {i \in s.r[t].from..(s.r[t].to - 1) : i \in Entries /\ s.r[t].els[i] = <<"run", run>>}
        claims == {t \in 1..BodyTurns : s.r[t] # None /\ at(t) # {}}
    IN  IF claims = {} THEN None ELSE <<Min(claims), Min(at(Min(claims)))>>

ResolveRunCardFate(s, t, run) ==
    LET el == <<"run", run>>
        Gone == ReleaseRunCard([s EXCEPT !.r[t] = [Detach(@, el) EXCEPT !.cards = @ \ {run}]], t, run)
        Seated(u, seat) == IF u # t THEN Adopt(s, u, t, run, <<seat>>)
                           ELSE [s EXCEPT !.r[t].kids[Body] = InsertBefore(Without(@, el), el, seat)]
        Beside(u, found) == Seated(u, IF found = None THEN End ELSE found)
        Fate(claim) == IF claim = None THEN Gone
                       ELSE Beside(claim[1], SeatAbove(s.r[claim[1]], Body, claim[2], el))
    IN  Fate(LiveRunClaimant(s, run))

DropEntryRange(s, t, from, to) ==
    LET st == s.r[t]
        removed == {i \in st.from..(st.to - 1) : (i < from \/ i >= to) /\ i \in Entries}
        hosted == {EffectiveRun(st.turn, i) : i \in removed \cap DOMAIN st.turn} \cap st.cards
        dropped == FoldSet(LAMBDA i, acc : DropEntry(acc, i), st, removed)
        unbound == Release(dropped, {k \in DOMAIN dropped.bound : dropped.bound[k] \in removed})
        swept == RebindSurvivingBoxes(PruneEmptyContainers(PruneOrphanedCards(unbound, from, to)))
        x == [s EXCEPT !.r[t] = [swept EXCEPT !.from = from, !.to = to]]
    IN  IF st.from >= st.to \/ (\A i \in st.from..(st.to - 1) : from <= i /\ i < to) THEN s
        ELSE FoldSet(LAMBDA run, acc : ResolveRunCardFate(acc, t, run), x, hosted)

-----------------------------------------------------------------------------
(* Bringing a body up to date with its turn.                               *)

HeldTurn(t) == SubSeq(bd.script[t], 1, bdheld[t])
OpenKind(t) == IF bdopen[t] = 0 THEN "" ELSE bd.script[t][bdopen[t]].k

(* A later entry has said, of a turn some of which is drawn, that one of   *)
(* its entries opens a box or that it opens none.                          *)
Retold(old, st) ==
    LET Told(x, i) == Opens([x EXCEPT !.pipes = {}], i) IN
    old.from < old.to /\ \E i \in DOMAIN old.turn \cap DOMAIN st.turn : Told(old, i) # Told(st, i)

(* The turn as the store holds it, and which of its entries own a card.    *)
RefreshTurn(s, t, T) ==
    LET mine == {i \in DOMAIN T : s.owners[EffectiveRun(T, i)] \in {None, <<t, i>>}}
        told == [s.r[t] EXCEPT !.turn = T, !.mine = mine]
    IN  [s EXCEPT !.r[t] = [told EXCEPT !.strayed = @ \/ Retold(s.r[t], told)]]

(* The plan shows the newest state.                                        *)
PlanFolds(s, t) ==
    LET st == s.r[t]
        plan == FirstPlan(st.turn)
    IN  IF plan # 0 /\ st.els[plan] # None /\ st.planFrom # NewestPlan(st.turn)
        THEN [s EXCEPT !.r[t] = MountPlan(st, plan)] ELSE s

(* A call that has turned out to launch a run, not drawn as its card yet.  *)
Relaunched(st, i) ==
    LET run == EffectiveRun(st.turn, i) IN
    /\ run # 0 /\ i \in st.mine /\ st.els[i] # None
    /\ run \in st.cards => st.els[i] # <<"run", run>>

(* The plan, and every such call, drawn as what they have become.          *)
SyncFolds(s, t) ==
    LET mounted == {i \in s.r[t].from..(s.r[t].to - 1) : i \in DOMAIN s.r[t].turn /\ s.r[t].turn[i].k = "tool"}
    IN  FoldLeft(LAMBDA x, i : IF ~Relaunched(x.r[t], i) THEN x
                               ELSE PlaceEntry([x EXCEPT !.r[t] = PruneEmptyToolGroups(DropEntry(@, i))], t, i),
                 PlanFolds(s, t), SetToSortSeq(mounted, <))

(* A body only grows at its tail here.                                     *)
Rehomed(s, t) == [s EXCEPT !.r[t] = RehomeStages(@)]
Grown(s, t, to) == IF to > s.r[t].to THEN RenderRange(s, t, s.r[t].to, to) ELSE s
Tailed(s, t) == [s EXCEPT !.r[t] = SyncOpenTail(@, bdopen[t], OpenKind(t))]
UpdateBody(s, t, T, to) == SyncFolds(Tailed(Grown(Rehomed(RefreshTurn(s, t, T), t), t, to), t), t)

BuildBody(s, t, T, from, to) ==
    LET Empty == RefreshTurn([s EXCEPT !.r[t] = EmptyRender(T, from)], t, T) IN
    Tailed(RenderRange(Empty, t, from, to), t)

MountHeadRange(s, t, T, from, to) ==
    LET upto == Min({s.r[t].from, to})
        in == [RefreshTurn(s, t, T) EXCEPT !.r[t].above = TRUE]
    IN  IF from >= upto THEN s
        ELSE [RenderRange(in, t, from, upto) EXCEPT !.r[t].above = FALSE,
                                                    !.r[t].refs = [c \in Containers |-> None]]

DisposeBody(s, t) ==
    IF s.r[t] = None THEN s
    ELSE FoldSet(LAMBDA run, acc : ReleaseRunCard(acc, t, run), [s EXCEPT !.r[t] = None], s.r[t].cards)

-----------------------------------------------------------------------------
(* A pass over the chat's turns.                                           *)

HeldTurns == {t \in 1..BodyTurns : bdheld[t] >= 0}

(* The turns as the last paint read them.                                  *)
Seen(s, t) == SubSeq(s.script[t], 1, s.seen[t])
SeenTurns(s) == {t \in 1..BodyTurns : s.seen[t] >= 0}
Newest == BodyTurns
BatchEntries == 2
Budget == [entries |-> 4, tools |-> 4]

(* What each turn should have mounted, around the reader or the live edge. *)
WantedWindows(s) ==
    LET first == Min(SeenTurns(s))
        turns == [n \in 1..(BodyTurns - first + 1) |-> Seen(s, n + first - 1)]
        pos == Positions(turns)
        anchor == IF s.reading /\ s.at[1] \in SeenTurns(s)
                  THEN CHOOSE n \in DOMAIN pos :
                        pos[n] = <<s.at[1] - first + 1, Clamp(s.at[2], 0, Len(Seen(s, s.at[1])))>>
                  ELSE Len(pos)
        Around(plan) == [t \in 1..BodyTurns |-> IF t < first THEN None ELSE plan[t - first + 1]]
    IN  Around(PlanResidency(turns, anchor, Budget))

Owners(s) == [run \in Runs \cup {0} |-> RunCardOwner([t \in SeenTurns(s) |-> Seen(s, t)], run)]

Started(s, t) ==
    LET want == s.want[t]
        to == Min({want[2], want[1] + BatchEntries})
    IN  [BuildBody(s, t, Seen(s, t), want[1], to) EXCEPT !.pending = IF to < want[2] THEN @ \cup {t} ELSE @]

(* A pass is the jobs it does, in order, before anything else happens.     *)
Job(op, t, from, to) == [op |-> op, t |-> t, from |-> from, to |-> to, turn |-> None]
Whole(op) == Job(op, 0, 0, 0)

Turnwise(Jobs(_)) == FlattenSeq([t \in 1..BodyTurns |-> Jobs(t)])
Ahead(s, jobs) == [s EXCEPT !.todo = jobs \o @]

(* The moves that take a mounted window to the wanted one: each is a       *)
(* request, dropped if the plan has moved by the time it is done.          *)
MoveWindow(have, t, T, want) ==
    LET Move(op) == [Job(op, t, want[1], want[2]) EXCEPT !.turn = T] IN
    (CASE want[1] < have.from -> <<Move("head")>>
       [] want[1] > have.from -> <<Move("drophead")>>
       [] OTHER -> <<>>)
    \o
    (CASE want[2] < have.to -> <<Move("droptail")>>
       [] want[2] > have.to -> <<Move("grow")>>
       [] OTHER -> <<>>)

Stale(s, job) == s.r[job.t] = None \/ s.want[job.t] # <<job.from, job.to>>

(* A mounted body is brought up to date at its tail, unless it is still    *)
(* being built; a turn that is new gets its card, and its body if wanted.  *)
Reconcile(s) ==
    Turnwise(LAMBDA t :
        CASE s.want[t] = None -> <<>>
          [] s.want[t] # None /\ s.r[t] = None -> IF t \in s.carded THEN <<>> ELSE <<Job("start", t, 0, 0)>>
          [] OTHER -> IF t \in s.pending THEN <<>> ELSE <<Job("update", t, 0, s.want[t][2])>>)

(* A mutant of Refused: a turn still being built counts as moved.          *)
RefusedNever(s) == {}

Refused(s) == {t \in s.pending : s.want[t] # None /\ s.r[t] # None}

(* The moves a pass collects; it records its plan, unless it refused one.  *)
ApplyMoves(s) ==
    LET Change(t) ==
            CASE s.r[t] = None \/ t \in Refused(s) -> <<>>
              [] s.r[t] # None /\ s.want[t] = None -> <<Job("dispose", t, 0, 0)>>
              [] OTHER -> MoveWindow(s.r[t], t, Seen(s, t), s.want[t])
        Recorded(changes) == IF changes = <<>> THEN <<>>
                             ELSE changes \o (IF Refused(s) = {} THEN <<Whole("record")>> ELSE <<>>)
    IN  Recorded(Turnwise(Change))

Start(s) == Turnwise(LAMBDA t : IF s.want[t] # None /\ s.r[t] = None THEN <<Job("start", t, 0, 0)>> ELSE <<>>)
Record(s) == [s EXCEPT !.applied = <<s.want>>]

(* A reader's moves wait until the reader is back at the live edge.        *)
FoldPass(s, immediate) ==
    LET Passed(changes) ==
            CASE changes = <<>> -> IF Refused(s) = {} THEN Record(s) ELSE s
              [] changes # <<>> /\ (immediate \/ ~s.reading) -> Ahead(s, changes)
              [] OTHER -> [s EXCEPT !.queue = Append(@, changes)]
    IN  Ahead(Passed(ApplyMoves(s)), Start(s))

Planned(s) == [s EXCEPT !.want = WantedWindows(s), !.owners = Owners(s)]

Painted(s) ==
    Ahead([s EXCEPT !.dirty = FALSE, !.carded = SeenTurns(s)], Reconcile(s) \o <<Whole("fold")>>)

(* Over the last paint's turns; not while another chat is shown, nor while *)
(* a body is being built; and not when nothing has changed.                *)
WindowPassed(s) ==
    LET Windowed(x) == IF x.applied = <<x.want>> THEN x ELSE FoldPass(x, TRUE) IN
    IF s.parked \/ s.pending # {} \/ SeenTurns(s) = {} THEN s ELSE Windowed(Planned(s))

(* A turn that was streaming when it was parked is built again.            *)
Rebuild(s, t) ==
    IF s.r[t] = None THEN s ELSE BuildBody(DisposeBody(s, t), t, HeldTurn(t), s.r[t].from, s.r[t].to)

Move(s, job) ==
    LET t == job.t
        st == s.r[t]
    IN  CASE Stale(s, job) -> s
          [] ~Stale(s, job) /\ job.op = "head" -> MountHeadRange(s, t, job.turn, job.from, job.to)
          [] ~Stale(s, job) /\ job.op = "grow" /\ t \notin s.pending -> UpdateBody(s, t, job.turn, job.to)
          [] ~Stale(s, job) /\ job.op = "drophead" /\ st.from < job.from -> DropEntryRange(s, t, job.from, st.to)
          [] ~Stale(s, job) /\ job.op = "droptail" /\ st.to > job.to -> DropEntryRange(s, t, st.from, job.to)
          [] OTHER -> s

Do(s, job) ==
    LET t == job.t IN
    CASE job.op = "update" -> UpdateBody(s, t, HeldTurn(t), job.to)
      [] job.op = "start" -> Started(s, t)
      [] job.op = "rebuild" -> Rebuild(s, t)
      [] job.op \in {"head", "drophead", "droptail", "grow"} -> Move(s, job)
      [] job.op = "dispose" -> IF s.want[t] # None THEN s ELSE [DisposeBody(s, t) EXCEPT !.pending = @ \ {t}]
      [] job.op = "record" -> Record(s)
      [] job.op = "fold" -> FoldPass(s, FALSE)
      [] job.op = "paint" -> Painted(Planned([s EXCEPT !.seen = bdheld]))
      [] job.op = "window" -> WindowPassed(s)

-----------------------------------------------------------------------------
Idle == bd.todo = <<>>

(* What is being written is put at the tail of a body though the end of    *)
(* the body is out of its window; and what is mounted between the driver   *)
(* of a pipeline, out of the window, and a stage goes above their box.     *)
Strays(st, t) ==
    \/ st.tail # None /\ LastRendered(HeldTurn(t)) >= st.to
    \/ \E p \in st.pipes : ContainerAt(st, <<"pipe", p>>) < st.from

(* The jobs of a pass, to the last.                                        *)
MaxJobs == 12
Noted(st, t) == IF st = None THEN None ELSE [st EXCEPT !.strayed = @ \/ Strays(st, t)]
DoNext(s) == [Do([s EXCEPT !.todo = Tail(@)], Head(s.todo)) EXCEPT !.r = [t \in 1..BodyTurns |-> Noted(@[t], t)]]

RunPass ==
    /\ ~Idle
    /\ bd' = FoldLeft(LAMBDA s, n : IF s.todo = <<>> THEN s ELSE DoNext(s), bd, [n \in 1..MaxJobs |-> n])
    /\ UNCHANGED <<bdheld, bdopen, bdleft>>

Spend(field) == bdleft[field] > 0 /\ bdleft' = [bdleft EXCEPT ![field] = @ - 1]

(* The next entry of the newest turn: sealed, if it was being written.     *)
Arrive ==
    /\ Idle /\ bdheld[Newest] >= 0 /\ bdheld[Newest] < Len(bd.script[Newest])
    /\ LET i == bdheld[Newest] + 1
           e == bd.script[Newest][i]
           st == bd.r[Newest]
           drives == e.k = "result" /\ st # None /\ e.of \in DOMAIN st.turn /\ st.turn[e.of].k = "driver"
                     /\ IsBound(st, <<"pipe", st.turn[e.of].pipe>>)
           told == [st EXCEPT !.turn = SubSeq(bd.script[Newest], 1, i)]
       IN  /\ bdheld' = [bdheld EXCEPT ![Newest] = i]
           /\ bdopen' = [bdopen EXCEPT ![Newest] = IF @ = i THEN 0 ELSE @]
           /\ bd' = IF drives
                    THEN [bd EXCEPT !.dirty = TRUE,
                                    !.r[Newest] = [PaintPipeline(told, st.turn[e.of].pipe, e.of)
                                                   EXCEPT !.turn = st.turn, !.strayed = @ \/ Retold(st, told)]]
                    ELSE [bd EXCEPT !.dirty = TRUE]
    /\ UNCHANGED bdleft

(* The turn's own lane starts the entry it will seal next.                 *)
StartWriting ==
    LET own == {i \in (bdheld[Newest] + 1)..Len(bd.script[Newest]) : bd.script[Newest][i].lane = 0} IN
    /\ Idle /\ bdopen[Newest] = 0 /\ own # {} /\ bd.script[Newest][Min(own)].k \in BodyWrites
    /\ bdopen' = [bdopen EXCEPT ![Newest] = Min(own)]
    /\ bd' = [bd EXCEPT !.dirty = TRUE]
    /\ UNCHANGED <<bdheld, bdleft>>

LoadOlder ==
    /\ Idle
    /\ \E t \in 1..(BodyTurns - 1) :
        /\ bdheld[t] < 0 /\ bdheld[t + 1] >= 0
        /\ bdheld' = [bdheld EXCEPT ![t] = Len(bd.script[t])]
    /\ bd' = [bd EXCEPT !.dirty = TRUE]
    /\ UNCHANGED <<bdopen, bdleft>>

Paint ==
    /\ Idle /\ bd.dirty /\ ~bd.parked
    /\ bd' = [bd EXCEPT !.todo = <<Whole("paint")>>]
    /\ UNCHANGED <<bdheld, bdopen, bdleft>>

Scroll ==
    /\ Idle /\ ~bd.parked /\ Spend("scrolls")
    /\ \E t \in HeldTurns : \E n \in 0..bdheld[t] :
        /\ bd.r[t] # None /\ n >= bd.r[t].from /\ n < bd.r[t].to
        /\ bd' = [bd EXCEPT !.at = <<t, n>>, !.reading = TRUE, !.todo = <<Whole("window")>>]
    /\ UNCHANGED <<bdheld, bdopen>>

(* Back at the live edge: what was held back is applied, oldest first.     *)
FollowAgain ==
    /\ Idle /\ ~bd.parked /\ bd.reading
    /\ bd' = [bd EXCEPT !.reading = FALSE, !.queue = <<>>,
                        !.todo = FlattenSeq(bd.queue) \o <<Whole("window")>>]
    /\ UNCHANGED <<bdheld, bdopen, bdleft>>

(* One batch of a body that is being built, of the turn and the window as  *)
(* they are by now; a build that settles re-windows.                       *)
GrowBuild ==
    /\ Idle
    /\ \E t \in bd.pending :
        LET want == bd.want[t]
            over == bd.parked \/ want = None \/ bd.r[t] = None \/ bd.r[t].to >= want[2]
            to == Min({want[2], bd.r[t].to + BatchEntries})
            settles == over \/ to = want[2]
        IN  bd' = [bd EXCEPT !.pending = IF settles THEN @ \ {t} ELSE @,
                             !.todo = (IF over THEN <<>> ELSE <<Job("update", t, 0, to)>>)
                                      \o (IF settles THEN <<Whole("window")>> ELSE <<>>)]
    /\ UNCHANGED <<bdheld, bdopen, bdleft>>

(* Another chat is shown: nothing of this one follows the store any more.  *)
Park ==
    /\ Idle /\ ~bd.parked /\ ~bd.dirty /\ Spend("parks")
    /\ bd' = [bd EXCEPT !.parked = TRUE, !.queue = <<>>,
                        !.streaming = {t \in HeldTurns : bd.r[t] # None /\ ~Closed(HeldTurn(t))},
                        !.r = [t \in 1..BodyTurns |-> IF @[t] = None THEN None ELSE [@[t] EXCEPT !.tail = None]]]
    /\ UNCHANGED <<bdheld, bdopen>>

Unpark ==
    /\ Idle /\ bd.parked
    /\ bd' = [bd EXCEPT !.parked = FALSE, !.streaming = {},
                        !.todo = <<Whole("paint")>>
                                 \o Turnwise(LAMBDA t : IF t \in bd.streaming THEN <<Job("rebuild", t, 0, 0)>> ELSE <<>>)]
    /\ UNCHANGED <<bdheld, bdopen, bdleft>>

BodyInit ==
    /\ bdleft \in BodyBudgets
    /\ \E script \in BodyScripts :
        LET turns == DOMAIN script IN
        /\ bd = [script |-> script, r |-> [t \in turns |-> None], hosts |-> [run \in Runs |-> 0],
                 owners |-> [run \in Runs \cup {0} |-> None], want |-> [t \in turns |-> None],
                 seen |-> [t \in turns |-> -1], carded |-> {}, todo |-> <<>>, pending |-> {}, applied |-> None, queue |-> <<>>, reading |-> FALSE, at |-> <<Len(script), 0>>,
                 dirty |-> TRUE, parked |-> FALSE, streaming |-> {}]
        /\ bdheld = [t \in turns |-> IF t = Len(script) THEN 0 ELSE -1]
        /\ bdopen = [t \in turns |-> 0]

BodyNext ==
    \/ RunPass \/ Arrive \/ StartWriting \/ LoadOlder
    \/ Paint \/ Scroll \/ FollowAgain \/ GrowBuild \/ Park \/ Unpark

BodySpec == BodyInit /\ [][BodyNext]_bdvars

-----------------------------------------------------------------------------
(* A body drawn from nothing, over the window a body has.                  *)
Rebuilt(t) ==
    LET st == bd.r[t]
        alone == [bd EXCEPT !.r[t] = None, !.hosts = [run \in Runs |-> IF run \in st.cards THEN 0 ELSE @[run]]]
    IN  BuildBody(alone, t, st.turn, st.from, st.to).r[t]

(* A run another turn speaks of too: whose card it is depends on which     *)
(* turns are held.                                                         *)
Shared(t) ==
    \E u \in HeldTurns \ {t} : \E i \in DOMAIN HeldTurn(u), j \in DOMAIN HeldTurn(t) :
        EffectiveRun(HeldTurn(u), i) # 0 /\ EffectiveRun(HeldTurn(u), i) = EffectiveRun(HeldTurn(t), j)

Lacking(seq, els) == SelectSeq(seq, LAMBDA el : el \notin els)

(* What a body shows in each of its containers, in order; and all that it  *)
(* shows but its boxes and groups.                                         *)
Shows(st, but) == [c \in Containers |-> Lacking(st.kids[c], but)]
ShowsAll(st, but) ==
    LET inside(c) == FlattenSeq([n \in DOMAIN st.kids[c] |->
                        IF st.kids[c][n] \in Containers THEN st.kids[st.kids[c][n]] ELSE <<st.kids[c][n]>>])
    IN  Lacking(inside(Body), but)

(* A body that was mounted, moved and dropped piece by piece shows what a  *)
(* body built at once over the same window shows, in the same order.  But  *)
(* for the order, and for what is being written or a call of a run: once   *)
(* the body has strayed.  And but for the box of a pipeline that shows no  *)
(* stage, which any drop takes down, and for what no pass has drawn since  *)
(* its writing began, a build having been called off.                      *)
DrawnAsBuilt ==
    Idle /\ ~bd.parked /\ ~bd.dirty =>
        \A t \in HeldTurns :
            bd.r[t] # None /\ t \notin bd.pending /\ ~Shared(t) =>
                LET st == bd.r[t]
                    built == Rebuilt(t)
                    written == {<<"row", Fresh>>, <<"thinking", Fresh>>}
                    launches == {<<"run", run>> : run \in Runs}
                                \cup {<<"card", i>> : i \in {j \in DOMAIN st.turn : EffectiveRun(st.turn, j) # 0}}
                    bare == {<<"pipe", p>> : p \in {q \in Boxes : built.kids[<<"pipe", q>>] = <<>>}}
                    undrawn == IF st.told # bdopen[t] THEN written ELSE {}
                IN  IF st.strayed
                    THEN LET but == bare \cup written \cup launches
                             shown == ShowsAll(st, but) IN
                         /\ ToSet(shown) = ToSet(ShowsAll(built, but))
                         /\ Len(shown) = Cardinality(ToSet(shown))
                    ELSE Shows(st, bare \cup undrawn) = Shows(built, bare \cup undrawn)

(* Every card of a run is in one body, and that body's.                    *)
OneHost ==
    Idle => \A run \in Runs : \A t \in 1..BodyTurns :
        (bd.r[t] # None /\ run \in bd.r[t].cards) <=> bd.hosts[run] = t

(* Once no build is out and no move is held back, what is mounted is what  *)
(* the plan of the chat wants, no less and no more.                        *)
WantedIsMounted ==
    Idle /\ ~bd.parked /\ ~bd.dirty /\ bd.pending = {} /\ bd.queue = <<>> =>
        \A t \in 1..BodyTurns :
            bd.want[t] # None => bd.r[t] # None /\ <<bd.r[t].from, bd.r[t].to>> = bd.want[t]
=============================================================================
