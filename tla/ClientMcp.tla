----------------------------- MODULE ClientMcp ------------------------------
(***************************************************************************)
(* The MCP integrations page (static-src/mcp-state.ts, mcp-ui.ts,          *)
(* mcp-panels.ts, mcp-panels-search.ts, mcp-pairs.ts, actions/mcp.ts): two *)
(* reads that supersede themselves, the rows drawn from them, actions that *)
(* show their effect before the answer, frames that change a server's      *)
(* status, the dialog that adds or edits a server and its registry search. *)
(* A server is its id, which is its name too; of its configuration the     *)
(* model keeps whether it is on, its one secret and its tool lists.        *)
(***************************************************************************)
EXTENDS Integers, Sequences, SequencesExt, FiniteSets

CONSTANTS
    ServerIds,   \* the servers that may be configured
    Remotes,     \* those the remote form fits; the others are edited as JSON
    Power,       \* a server the agent reports and this page does not configure
    McpScenarios \* budgets of what may happen

VARIABLES
    mc,      \* the page: lists, statuses, rows, reads and actions out
    mcsrv,   \* the server: its configuration and each server's runtime state
    mcnet,   \* frames on the stream, oldest first
    mcdlg,   \* the dialog and its search panel
    mcleft   \* what may still happen

mcvars == <<mc, mcsrv, mcnet, mcdlg, mcleft>>

Blank == ""
Mask == "***"
Names == ServerIds \cup {Power}
Queries == {"a", "ab", "ac"}

Uses(what) == mcleft[what] > 0 /\ mcleft' = [mcleft EXCEPT ![what] = @ - 1]

At(list, id) == SelectInSeq(list, LAMBDA s : s.id = id)
Configured(list) == {list[i].id : i \in DOMAIN list}

-----------------------------------------------------------------------------
(* The list and the statuses. *)

UpdateConfiguredEntry(list, id, on) == [i \in DOMAIN list |-> IF list[i].id = id THEN [list[i] EXCEPT !.on = on] ELSE list[i]]

RemoveConfiguredEntry(list, id) ==
    IF id \in Configured(list) THEN SelectSeq(list, LAMBDA s : s.id # id) ELSE list

\* Back at the index it was taken from, when the list is still that long and has it not; the code's
\* other place is by the ids' order, and where a row stands nothing here reads: at the end.
InsertConfiguredEntry(list, s, at) ==
    IF s.id \in Configured(list) THEN list ELSE InsertAt(list, IF at <= Len(list) + 1 THEN at ELSE Len(list) + 1, s)

Idle == [st |-> "idle", from |-> "user"]

\* A frame says nothing of where the server comes from: the origin known is kept.
SetStatusFromEvent(m, n, st) == [m EXCEPT !.status[n].st = st]

DeleteStatus(m, n) == [m EXCEPT !.status[n] = Idle]

Slot == [due |-> FALSE, read |-> <<>>]

\* Calls of one turn of the event loop make one read.
RefetchServers(m) == [m EXCEPT !.lists.due = TRUE]
RefetchStatus(m) == [m EXCEPT !.states.due = TRUE]
RefetchBoth(m) == RefetchStatus(RefetchServers(m))

\* A mutant of Restarted: the read already out is the one that answers.
RestartedNot(slot) == IF slot.read = <<>> THEN [due |-> FALSE, read |-> <<"out">>] ELSE [slot EXCEPT !.due = FALSE]

\* CancellableSlot: the read begun before this one will not be heard.
Restarted(slot) == [due |-> FALSE, read |-> <<"out">>]

\* A read that failed leaves no server at all, but the profile's word as it was.
DoRefetchServers(m, ok, list, honours) ==
    [m EXCEPT !.lists.read = <<>>, !.list = IF ok THEN list ELSE <<>>, !.missed = ~ok, !.undone = FALSE,
              !.honoured = IF ok THEN honours ELSE @]

\* A name that is already a row is never a read-only one as well.
DoRefetchStatus(m, ok, rt) ==
    LET seen == IF ok THEN {n \in Names : rt[n] # "none"} ELSE {}
        mine == Configured(m.list)
        of(n) == IF n \in seen THEN [st |-> rt[n], from |-> IF n = Power THEN "power" ELSE "user"]
                 ELSE IF n \in mine THEN Idle ELSE m.status[n]
    IN  [m EXCEPT !.states.read = <<>>, !.status = [n \in Names |-> of(n)],
                  !.disc = [n \in Names |-> IF n \in seen THEN rt[n] = "connected" ELSE @[n] /\ n \notin mine],
                  !.foreign = {n \in seen : of(n).from # "user" /\ n \notin mine}]

SetPrewarm(m, id, st) == IF id \in Configured(m.list) THEN [m EXCEPT !.prewarm[id] = IF st = "done" THEN "none" ELSE st] ELSE m

Loading(m, kind) == \E i \in DOMAIN m.calls : m.calls[i].kind = kind

-----------------------------------------------------------------------------
(* What is drawn. *)

RenderMeta(s, st) == IF ~s.on THEN "disabled" ELSE st

\* The paste box stays while a sign-in is asked and its address was not relayed.
Relay(m, s, was) ==
    IF ~s.on \/ m.status[s.id].st # "needs_auth" THEN "none" ELSE IF was = "none" THEN "shown" ELSE was

RenderDiscovery(m, n, on) == on /\ m.disc[n]

MountRow(m, s) ==
    LET st == m.status[s.id].st
    IN  [on |-> s.on, meta |-> RenderMeta(s, st), reconnect |-> s.on /\ st # "idle",
         pill |-> s.on /\ st \in {"needs_auth", "relayed"}, chip |-> m.status[s.id].from # "user",
         found |-> RenderDiscovery(m, s.id, s.on), warm |-> m.prewarm[s.id]]

MountForeignRow(m, n) ==
    [meta |-> m.status[n].st, chip |-> m.status[n].from # "user", found |-> RenderDiscovery(m, n, TRUE)]

\* Every effect that reads what changed has run when the handler returns.
Drawn(m) ==
    LET mine == Configured(m.list)
        s(id) == m.list[At(m.list, id)]
    IN  [m EXCEPT !.rows = [id \in mine |-> MountRow(m, s(id))],
                  !.others = [n \in m.foreign |-> MountForeignRow(m, n)],
                  !.relay = [id \in ServerIds |-> IF id \in mine THEN Relay(m, s(id), @[id]) ELSE "none"],
                  !.warned = IF m.barred THEN "policy" ELSE IF mine = {} THEN "empty" ELSE "none"]

Announce(m, n) == IF m.status[n].st = "failed" THEN m ELSE [m EXCEPT !.toast = "failed"]

-----------------------------------------------------------------------------
(* The two reads. *)

StartReads ==
    /\ mc.lists.due \/ mc.states.due
    /\ mc' = [mc EXCEPT !.lists = IF @.due THEN Restarted(@) ELSE @,
                        !.states = IF @.due THEN Restarted(@) ELSE @]
    /\ UNCHANGED <<mcsrv, mcnet, mcdlg, mcleft>>

FetchServed ==
    /\ \/ mc.lists.read = <<"out">> /\ mc' = [mc EXCEPT !.lists.read = <<"here", mcsrv.list, mcsrv.honours>>]
       \/ mc.states.read = <<"out">> /\ mc' = [mc EXCEPT !.states.read = <<"here", mcsrv.rt>>]
    /\ UNCHANGED <<mcsrv, mcnet, mcdlg, mcleft>>

FetchArrives ==
    /\ \/ Len(mc.lists.read) = 3 /\ mc' = Drawn(DoRefetchServers(mc, TRUE, mc.lists.read[2], mc.lists.read[3]))
       \/ Len(mc.states.read) = 2 /\ mc' = Drawn(DoRefetchStatus(mc, TRUE, mc.states.read[2]))
    /\ UNCHANGED <<mcsrv, mcnet, mcdlg, mcleft>>

FetchFails ==
    /\ Uses("fails")
    /\ \/ mc.lists.read # <<>> /\ mc' = Drawn(DoRefetchServers(mc, FALSE, <<>>, TRUE))
       \/ mc.states.read # <<>> /\ mc' = Drawn(DoRefetchStatus(mc, FALSE, mcsrv.rt))
    /\ UNCHANGED <<mcsrv, mcnet, mcdlg>>

-----------------------------------------------------------------------------
(* The rows' controls. *)

Call(kind, id, arg) == [kind |-> kind, id |-> id, arg |-> arg, res |-> Blank]

ToggleServer ==
    /\ ~Loading(mc, "toggle") /\ Uses("acts")
    /\ \E i \in DOMAIN mc.list :
         LET s == mc.list[i]
         IN  mc' = Drawn([mc EXCEPT !.list = UpdateConfiguredEntry(@, s.id, ~s.on),
                                    !.calls = Append(@, Call("toggle", s.id, <<~s.on>>))])
    /\ UNCHANGED <<mcsrv, mcnet, mcdlg>>

AsksToDelete ==
    /\ mc.confirm = Blank /\ ~Loading(mc, "delete") /\ Uses("acts")
    /\ \E id \in Configured(mc.list) : mc' = [mc EXCEPT !.confirm = id]
    /\ UNCHANGED <<mcsrv, mcnet, mcdlg>>

\* The row may be gone when the question is answered; a second removal of an id is the first.
DeleteServer ==
    /\ mc.confirm # Blank
    /\ LET id == mc.confirm
           at == At(mc.list, id)
           gone == IF id \in Configured(mc.list) THEN <<mc.list[at], at>> ELSE <<>>
           m == [mc EXCEPT !.confirm = Blank]
       IN  \/ mc' = m
           \/ mc' = Drawn([m EXCEPT !.list = RemoveConfiguredEntry(@, id), !.calls = Append(@, Call("delete", id, gone))])
    /\ UNCHANGED <<mcsrv, mcnet, mcdlg, mcleft>>

ReconnectServer ==
    /\ Uses("acts")
    /\ \E id \in Configured(mc.list) :
         /\ mc.rows[id].reconnect /\ \A i \in DOMAIN mc.calls : mc.calls[i].kind # "reconnect" \/ mc.calls[i].id # id
         /\ mc' = [mc EXCEPT !.calls = Append(@, Call("reconnect", id, <<>>))]
    /\ UNCHANGED <<mcsrv, mcnet, mcdlg>>

\* The box is busy until the relay has been answered; an empty address is refused on the spot.
RenderOAuthRelay ==
    /\ Uses("acts")
    /\ \E id \in ServerIds :
         /\ mc.relay[id] \notin {"none", "busy"}
         /\ \/ mc' = [mc EXCEPT !.relay[id] = "err"]
            \/ mc' = [mc EXCEPT !.relay[id] = "busy", !.calls = Append(@, Call("relay", id, <<>>))]
    /\ UNCHANGED <<mcsrv, mcnet, mcdlg>>

\* A prompt or a resource of a server, read and put into the composer.
Inserts ==
    /\ Uses("acts")
    /\ \E n \in Names :
         /\ \/ n \in Configured(mc.list) /\ mc.rows[n].found
            \/ n \in mc.foreign /\ mc.others[n].found
         /\ mc' = [mc EXCEPT !.calls = Append(@, Call("insert", n, <<>>))]
    /\ UNCHANGED <<mcsrv, mcnet, mcdlg>>

InsertIntoPrompt(m, text) == IF text THEN [m EXCEPT !.prompt = @ + 1, !.toast = "inserted"] ELSE [m EXCEPT !.toast = "empty"]

-----------------------------------------------------------------------------
(* The registry search. *)

NoSearch == [q |-> Blank, wanted |-> Blank, due |-> Blank, out |-> {}, back |-> {}, kind |-> "blank", of |-> Blank,
             known |-> {}, held |-> FALSE]

\* Closing the dialog cancels what was asked and forgets what was wanted.
CleanupSearch(s) == [s EXCEPT !.wanted = Blank, !.due = Blank, !.out = {}, !.back = {}, !.held = FALSE]

Shown(s, kind, q) == [s EXCEPT !.kind = kind, !.of = q, !.held = FALSE]

\* Only what is wanted by now is drawn.
Heard(s, q) == q = s.wanted

\* The same query asked twice is one request.
SearchRegistry(s, q) ==
    IF q \in s.out \cup {b[1] : b \in s.back} THEN [s EXCEPT !.due = Blank]
    ELSE LET x == [s EXCEPT !.due = Blank, !.out = @ \cup {q}]
         IN  IF Heard(s, q) THEN Shown(x, "searching", q) ELSE x

AskLater(s, q) ==
    LET x == [s EXCEPT !.q = q, !.wanted = q]
    IN  IF Len(q) < 2 THEN Shown([x EXCEPT !.due = Blank], "short", q) ELSE [x EXCEPT !.due = q]

AskNow(s) == LET x == AskLater(s, s.q) IN IF x.due = Blank THEN x ELSE SearchRegistry(x, s.q)

\* A row says of each of its options whether it is configured, as the list is when it is drawn.
InstallOptions(res) == IF res = "rows" THEN Configured(mc.list) ELSE {}

RenderSearchResults(s, q, res) ==
    [Shown(s, IF res = "held" THEN "failed" ELSE res, q) EXCEPT !.held = res = "held",
                                                               !.known = InstallOptions(res)]

Searching == mcdlg.open /\ mcdlg.mode = "search"

Searches ==
    /\ Searching
    /\ LET s == mcdlg.find
           becomes(x) == mcdlg' = [mcdlg EXCEPT !.find = x]
       IN  \/ \E q \in Queries \ {s.q} : Uses("types") /\ becomes(AskLater(s, q))
           \/ s.q # Blank /\ s.out = {} /\ s.back = {} /\ Uses("types") /\ becomes(AskNow(s))
           \/ s.due # Blank /\ becomes(SearchRegistry(s, s.due)) /\ UNCHANGED mcleft
           \/ s.held /\ becomes([s EXCEPT !.held = FALSE]) /\ UNCHANGED mcleft
    /\ UNCHANGED <<mc, mcsrv, mcnet>>

\* The button says once more what was wanted, whatever has been typed since.
RenderRetry ==
    /\ Searching /\ Uses("types")
    /\ LET s == mcdlg.find
       IN  /\ s.kind = "failed" /\ ~s.held /\ s.out = {} /\ s.back = {}
           /\ mcdlg' = [mcdlg EXCEPT !.find = [SearchRegistry([s EXCEPT !.wanted = s.of], s.of) EXCEPT !.due = s.due]]
    /\ UNCHANGED <<mc, mcsrv, mcnet>>

RegistryAnswers ==
    /\ \E q \in mcdlg.find.out, res \in {"rows", "none", "withheld", "failed", "held"} :
         /\ IF res \in {"failed", "held"} THEN Uses("fails") ELSE UNCHANGED mcleft
         /\ mcdlg' = [mcdlg EXCEPT !.find.out = @ \ {q}, !.find.back = @ \cup {<<q, res>>}]
    /\ UNCHANGED <<mc, mcsrv, mcnet>>

SearchArrives ==
    /\ \E b \in mcdlg.find.back :
         LET s == [mcdlg.find EXCEPT !.back = @ \ {b}]
         IN  mcdlg' = [mcdlg EXCEPT !.find = IF Heard(s, b[1]) THEN RenderSearchResults(s, b[1], b[2]) ELSE s]
    /\ UNCHANGED <<mc, mcsrv, mcnet, mcleft>>

-----------------------------------------------------------------------------
(* The dialog. *)

NoForm == [of |-> Blank, on |-> TRUE, val |-> Blank, flag |-> FALSE, was |-> FALSE, touched |-> FALSE, focus |-> FALSE]

\* appendKeyPair: a stored secret reads as the mask.
AppendKeyPair(form, val) == [form EXCEPT !.val = val, !.flag = val = Mask, !.was = val = Mask]

\* The panel begins anew each time it is shown; what was asked is still out.
InitSearchPanel(s) == [NoSearch EXCEPT !.out = s.out, !.back = s.back]

SetMode(d, mode, form) ==
    [d EXCEPT !.mode = mode, !.form = form, !.err = FALSE, !.gate = IF mode = "npm" THEN "asked" ELSE @,
              !.find = IF mode = "search" THEN InitSearchPanel(d.find) ELSE @]

EditModeFor(id) == IF id \in Remotes THEN "remote" ELSE "raw"

\* The editing session, its tool lists and the panel are set in one step; the lists say whether
\* the security profile honours them, as the last read of the servers said.
InitModal(d, id, s) ==
    IF id = Blank THEN SetMode([d EXCEPT !.open = TRUE, !.editing = Blank, !.deny = FALSE], "search", NoForm)
    ELSE SetMode([d EXCEPT !.open = TRUE, !.editing = id, !.deny = s.deny, !.suspended = ~mc.honoured], EditModeFor(id),
                 AppendKeyPair([NoForm EXCEPT !.of = id, !.on = s.on], Mask))

CloseModal(d) == [d EXCEPT !.open = FALSE, !.find = CleanupSearch(@)]

OpenAddModal ==
    /\ ~mcdlg.open /\ ~mc.barred /\ Uses("opens")
    /\ mcdlg' = InitModal(mcdlg, Blank, NoForm)
    /\ UNCHANGED <<mc, mcsrv, mcnet>>

OpenEditModal ==
    /\ ~mcdlg.open /\ ~Loading(mc, "edit") /\ Uses("opens")
    /\ \E id \in Configured(mc.list) : mc' = [mc EXCEPT !.calls = Append(@, Call("edit", id, <<>>))]
    /\ UNCHANGED <<mcsrv, mcnet, mcdlg>>

\* The tabs are there for a server being added; a result's option fills the form it opens.
SwitchMode ==
    /\ mcdlg.open /\ mcdlg.editing = Blank /\ Uses("views")
    /\ \/ \E mode \in {"search", "remote", "npm", "raw"} \ {mcdlg.mode} : mcdlg' = SetMode(mcdlg, mode, NoForm)
       \/ mcdlg.find.kind = "rows" /\ mcdlg.mode = "search"
          /\ \E mode \in {"npm", "remote"} : mcdlg' = SetMode(mcdlg, mode, AppendKeyPair(NoForm, "declared"))
    /\ UNCHANGED <<mc, mcsrv, mcnet>>

\* A focused mask empties; left untouched it comes back, typed into it does not.
EditsSecret ==
    /\ mcdlg.open /\ mcdlg.mode \in {"remote", "npm"} /\ Uses("writes")
    /\ LET f == mcdlg.form
           becomes(g) == mcdlg' = [mcdlg EXCEPT !.form = g]
       IN  \/ ~f.focus /\ becomes(IF f.flag THEN [f EXCEPT !.focus = TRUE, !.val = Blank, !.flag = FALSE] ELSE [f EXCEPT !.focus = TRUE])
           \/ f.focus /\ \E v \in {Blank, "new"} \ {f.val} : becomes([f EXCEPT !.val = v, !.touched = TRUE])
           \/ f.focus /\ becomes(IF f.val = Blank /\ f.was /\ ~f.touched
                                 THEN [f EXCEPT !.focus = FALSE, !.val = Mask, !.flag = TRUE]
                                 ELSE [f EXCEPT !.focus = FALSE, !.touched = FALSE])
    /\ UNCHANGED <<mc, mcsrv, mcnet>>

InitToolListSection ==
    /\ mcdlg.open /\ mcdlg.editing # Blank /\ Uses("writes")
    /\ mcdlg' = [mcdlg EXCEPT !.deny = ~@]
    /\ UNCHANGED <<mc, mcsrv, mcnet>>

CollectKeyPairs(f) == IF f.flag THEN Mask ELSE f.val

\* Enter submits the remote form with its field focused; the npm form's button takes the focus first.
SubmitServer ==
    /\ mcdlg.open /\ Uses("acts")
    /\ \/ mcdlg.mode = "remote"
       \/ mcdlg.mode = "npm" /\ ~mcdlg.form.focus
       \/ mcdlg.mode = "raw" /\ mcdlg.editing # Blank
    /\ \A i \in DOMAIN mc.calls : mc.calls[i].kind # "save" \/ mc.calls[i].arg.mode # mcdlg.mode
    /\ LET f == mcdlg.form
       IN  mc' = [mc EXCEPT !.calls = Append(@, Call("save", mcdlg.editing,
                    [mode |-> mcdlg.mode, on |-> f.on, val |-> CollectKeyPairs(f), deny |-> mcdlg.deny]))]
    /\ mcdlg' = [mcdlg EXCEPT !.err = FALSE]
    /\ UNCHANGED <<mcsrv, mcnet>>

SubmitPaste ==
    /\ mcdlg.open /\ mcdlg.mode = "raw" /\ mcdlg.editing = Blank /\ ~Loading(mc, "import") /\ Uses("acts")
    /\ \/ mcdlg' = [mcdlg EXCEPT !.err = TRUE] /\ UNCHANGED mc
       \/ mcdlg' = [mcdlg EXCEPT !.err = FALSE] /\ mc' = [mc EXCEPT !.calls = Append(@, Call("import", Blank, <<>>))]
    /\ UNCHANGED <<mcsrv, mcnet>>

ClosesModal ==
    /\ mcdlg.open /\ mcdlg' = CloseModal(mcdlg)
    /\ UNCHANGED <<mc, mcsrv, mcnet, mcleft>>

\* The banner says Node is missing until an install has been seen to work.
GateNpmPanelOnNode ==
    /\ \/ mcdlg.gate = "asked" /\ \E has \in BOOLEAN : mcdlg' = [mcdlg EXCEPT !.gate = IF has THEN "none" ELSE "banner"]
       \/ mcdlg.gate = "banner" /\ mcdlg.open /\ mcdlg.mode = "npm" /\ mcdlg' = [mcdlg EXCEPT !.gate = "none"]
    /\ UNCHANGED <<mc, mcsrv, mcnet, mcleft>>

-----------------------------------------------------------------------------
(* The server, its answers and its frames. *)

\* The actions on one server go one at a time; those on other things at once.
MayAct(i) ==
    LET c == mc.calls[i]
    IN  /\ c.res = Blank
        /\ c.kind \in {"toggle", "delete", "save"} =>
             \A j \in 1..(i - 1) : mc.calls[j].kind \notin {"toggle", "delete", "save"} \/ mc.calls[j].id # c.id

Free(list) == IF ServerIds \ Configured(list) = {} THEN Blank ELSE CHOOSE id \in ServerIds : id \notin Configured(list)

Applied(list, c) ==
    LET stored(s) == [s EXCEPT !.on = c.arg.on, !.deny = c.arg.deny, !.val = IF c.arg.val = Mask THEN @ ELSE c.arg.val]
    IN  CASE c.kind = "toggle" -> UpdateConfiguredEntry(list, c.id, c.arg[1])
          [] c.kind = "delete" -> RemoveConfiguredEntry(list, c.id)
          [] c.kind = "save" /\ c.id # Blank -> [i \in DOMAIN list |-> IF list[i].id = c.id THEN stored(list[i]) ELSE list[i]]
          [] c.kind \in {"save", "import"} -> Append(list, [id |-> Free(list), on |-> TRUE, val |-> "old", deny |-> FALSE])
          [] OTHER -> list

Accepts(list, c) ==
    CASE c.kind \in {"toggle", "delete", "edit"} -> c.id \in Configured(list)
      [] c.kind \in {"save", "import"} -> IF c.id = Blank THEN Free(list) # Blank ELSE c.id \in Configured(list)
      [] OTHER -> TRUE

Replies(i, res) == mc' = [mc EXCEPT !.calls[i].res = res]

Changes(list, c) ==
    /\ mcsrv' = [mcsrv EXCEPT !.list = list,
                              !.rt = [n \in Names |-> IF c.kind = "relay" /\ n = c.id THEN "relayed" ELSE @[n]]]
    /\ mcnet' = IF list = mcsrv.list THEN mcnet ELSE Append(mcnet, <<"config", Blank>>)

ServerApplies ==
    /\ \E i \in DOMAIN mc.calls :
         LET c == mc.calls[i]
         IN  /\ MayAct(i)
             /\ \/ Accepts(mcsrv.list, c) /\ Changes(Applied(mcsrv.list, c), c) /\ Replies(i, "ok") /\ UNCHANGED mcleft
                \/ Accepts(mcsrv.list, c) /\ Uses("fails") /\ Changes(Applied(mcsrv.list, c), c) /\ Replies(i, "failed")
                \/ ~Accepts(mcsrv.list, c) /\ Replies(i, "failed") /\ UNCHANGED <<mcsrv, mcnet, mcleft>>
                \/ Uses("fails") /\ Replies(i, "failed") /\ UNCHANGED <<mcsrv, mcnet>>
    /\ UNCHANGED mcdlg

Rollback(m, c) ==
    CASE c.kind = "toggle" -> [m EXCEPT !.list = UpdateConfiguredEntry(@, c.id, ~c.arg[1]), !.undone = TRUE]
      [] c.kind = "delete" /\ c.arg # <<>> -> [m EXCEPT !.list = InsertConfiguredEntry(@, c.arg[1], c.arg[2]), !.undone = TRUE]
      [] c.kind = "relay" /\ m.relay[c.id] = "busy" -> [m EXCEPT !.relay[c.id] = "err"]
      [] OTHER -> m

Worked(m, c) ==
    CASE c.kind \in {"toggle", "delete", "save", "import"} -> RefetchBoth(m)
      [] c.kind = "reconnect" -> RefetchStatus(m)
      [] c.kind = "relay" -> RefetchStatus(IF m.relay[c.id] = "busy" THEN [m EXCEPT !.relay[c.id] = "ok"] ELSE m)
      [] OTHER -> m

\* A save that worked closes the dialog there is; one that failed writes in the form there is.
CallAnswered ==
    /\ \E i \in DOMAIN mc.calls :
         LET c == mc.calls[i]
             m == [mc EXCEPT !.calls = RemoveAt(@, i)]
         IN  /\ c.res # Blank
             /\ IF c.res = "failed"
                THEN /\ mc' = Drawn(Rollback(m, c))
                     /\ mcdlg' = IF c.kind \in {"save", "import"} THEN [mcdlg EXCEPT !.err = TRUE] ELSE mcdlg
                ELSE /\ IF c.kind = "insert" THEN \E text \in BOOLEAN : mc' = InsertIntoPrompt(m, text)
                        ELSE IF c.kind = "reconnect"
                        THEN \E none \in BOOLEAN : mc' = Worked(IF none THEN [m EXCEPT !.toast = "nochat"] ELSE m, c)
                        ELSE mc' = Drawn(Worked(m, c))
                     /\ mcdlg' = CASE c.kind = "edit" /\ c.id \in Configured(mcsrv.list)
                                        -> InitModal(mcdlg, c.id, mcsrv.list[At(mcsrv.list, c.id)])
                                   [] c.kind \in {"save", "import"} -> CloseModal(mcdlg)
                                   [] OTHER -> mcdlg
    /\ UNCHANGED <<mcsrv, mcnet, mcleft>>

\* What happens elsewhere: another device, the agent's servers, the organization's policy.
ElsewhereChanges ==
    /\ \/ \E id \in Configured(mcsrv.list) :
            /\ Uses("edits")
            /\ \/ Changes(RemoveConfiguredEntry(mcsrv.list, id), Call("other", id, <<>>))
               \/ Changes(UpdateConfiguredEntry(mcsrv.list, id, ~mcsrv.list[At(mcsrv.list, id)].on), Call("other", id, <<>>))
       \/ \E n \in Names, st \in {"connected", "needs_auth", "failed", "none"} :
            /\ st # mcsrv.rt[n] /\ Uses("events") /\ mcsrv' = [mcsrv EXCEPT !.rt[n] = st]
            /\ mcnet' = Append(mcnet, <<st, n>>)
       \/ /\ Uses("events") /\ UNCHANGED mcsrv
          /\ \/ \E id \in ServerIds, st \in {"installing", "done"} : mcnet' = Append(mcnet, <<st, id>>)
             \/ mcnet' = Append(mcnet, <<"policy", Blank>>)
       \/ Uses("edits") /\ mcsrv' = [mcsrv EXCEPT !.honours = ~@] /\ UNCHANGED mcnet
    /\ UNCHANGED <<mc, mcdlg>>

InitMCP(m, f) ==
    CASE f[1] = "config" -> RefetchBoth(m)
      [] f[1] = "connected" -> RefetchStatus(SetStatusFromEvent(m, f[2], f[1]))
      [] f[1] = "needs_auth" -> SetStatusFromEvent(m, f[2], f[1])
      [] f[1] = "failed" -> SetStatusFromEvent(Announce(m, f[2]), f[2], f[1])
      [] f[1] = "none" -> DeleteStatus(m, f[2])
      [] f[1] = "policy" -> [m EXCEPT !.barred = ~@]
      [] OTHER -> SetPrewarm(m, f[2], f[1])

EventArrives ==
    /\ mcnet # <<>>
    /\ mc' = Drawn(InitMCP(mc, Head(mcnet))) /\ mcnet' = Tail(mcnet)
    /\ UNCHANGED <<mcsrv, mcdlg, mcleft>>

-----------------------------------------------------------------------------
McpInit ==
    /\ mcsrv = [list |-> SetToSeq({[id |-> id, on |-> TRUE, val |-> "old", deny |-> FALSE] : id \in ServerIds}),
                honours |-> TRUE, rt |-> [n \in Names |-> IF n = Power THEN "connected" ELSE "none"]]
    /\ mc = Drawn(RefetchBoth(
              [list |-> <<>>, status |-> [n \in Names |-> Idle], disc |-> [n \in Names |-> FALSE], foreign |-> {},
               prewarm |-> [id \in ServerIds |-> "none"], honoured |-> TRUE, barred |-> FALSE, lists |-> Slot, states |-> Slot,
               missed |-> FALSE, undone |-> FALSE, calls |-> <<>>, confirm |-> Blank, toast |-> Blank, prompt |-> 0,
               rows |-> <<>>, others |-> <<>>, relay |-> [id \in ServerIds |-> "none"], warned |-> "none"]))
    /\ mcnet = <<>>
    /\ mcdlg = [open |-> FALSE, mode |-> "search", editing |-> Blank, form |-> NoForm, deny |-> FALSE, suspended |-> FALSE, err |-> FALSE,
                gate |-> "none", find |-> NoSearch]
    /\ mcleft \in McpScenarios

McpNext ==
    \/ StartReads \/ FetchServed \/ FetchArrives \/ FetchFails
    \/ ToggleServer \/ AsksToDelete \/ DeleteServer \/ ReconnectServer \/ RenderOAuthRelay \/ Inserts
    \/ Searches \/ RenderRetry \/ RegistryAnswers \/ SearchArrives
    \/ OpenAddModal \/ OpenEditModal \/ SwitchMode \/ EditsSecret \/ InitToolListSection
    \/ SubmitServer \/ SubmitPaste \/ ClosesModal \/ GateNpmPanelOnNode
    \/ ServerApplies \/ CallAnswered \/ ElsewhereChanges \/ EventArrives

McpSpec == McpInit /\ [][McpNext]_mcvars

-----------------------------------------------------------------------------
OnOf(list) == {<<s.id, s.on>> : s \in Range(list)}

Quiet == mc.lists = Slot /\ mc.calls = <<>> /\ mcnet = <<>>

\* Once nothing is on its way, the page lists the servers there are, each on or off as it is:
\* an older read never has the last word over an action or another device's.  A read that failed
\* and a refused action put back over a newer list are the exceptions.
ListCatchesUp == Quiet /\ ~mc.missed /\ ~mc.undone => OnOf(mc.list) = OnOf(mcsrv.list)

=============================================================================
