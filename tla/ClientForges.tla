---------------------------- MODULE ClientForges ----------------------------
(***************************************************************************)
(* The connected forges (static-src/forge-store.ts, forge-auth.ts and its  *)
(* -repos, -oauth and -pat parts, actions/forge.ts, git-tabs.ts, git.ts,   *)
(* git-status-banner.ts): one shared list read that callers join, panel    *)
(* renders that go on to read repositories and are superseded by newer     *)
(* ones, a background probe behind each, rows that survive repaints, sign  *)
(* out, clone and remove shown before or after their answer, a device flow *)
(* that polls, a token form.  Every account is of a forge kind of its own. *)
(***************************************************************************)
EXTENDS Integers, Sequences, SequencesExt, FiniteSets

CONSTANTS
    Accounts,       \* the accounts that may be connected
    GitHub,         \* the one whose forge has the device flow
    RepoOf,         \* [repository -> its account]
    ForgeScenarios  \* budgets of what may happen

VARIABLES
    fg,      \* the client
    fgsrv,   \* the server: accounts configured, those that work, local clones
    fgleft   \* what may still happen

fgvars == <<fg, fgsrv, fgleft>>

Repos == DOMAIN RepoOf
Keys == <<"auth", "cli", "none">>
None == ""
Spend(what) == fgleft[what] > 0 /\ fgleft' = [fgleft EXCEPT ![what] = @ - 1]

\* A list answer, the one nobody has, and the read that callers share.
NoList == [at |-> 0, have |-> {}, conn |-> {}]
Listed == [at |-> fgsrv.at, have |-> fgsrv.have, conn |-> fgsrv.conn]
NoRead == [st |-> "none", ans |-> NoList]

NoRow == [there |-> FALSE, hidden |-> FALSE, sig |-> FALSE, bound |-> FALSE, open |-> FALSE]
NoPane == [on |-> FALSE, pane |-> 0, says |-> None, bound |-> FALSE, gate |-> "none"]


-----------------------------------------------------------------------------
(* Painting.  What is drawn is kept per account: a row is reused while its *)
(* account stays in the list, with the marks handlers left on it.          *)

\* paintAccountRow: the top of a row is built again when what it says changed; repositories
\* open when the account was just connected and stay open while they are known.
PaintAccountRow(f, a) ==
    LET o == f.rows[a]
        on == a \in f.shown.data.conn
    IN  [o EXCEPT !.there = TRUE, !.sig = on, !.bound = ~o.there \/ o.sig # on,
                  !.open = on /\ (o.open \/ a \in f.expand)]

\* paintErrorState removes the sections, with a pane that was open in one.
PaintErrorState(f) ==
    [f EXCEPT !.rows = [a \in Accounts |-> NoRow], !.panes = [a \in Accounts |-> NoPane], !.error = TRUE]

\* paintIntoRoot: the busy bindings of buttons and forms are let go first.
PaintIntoRoot(f) ==
    LET g == [f EXCEPT !.rows = [a \in Accounts |-> [f.rows[a] EXCEPT !.bound = FALSE]],
                       !.panes = [a \in Accounts |-> [f.panes[a] EXCEPT !.bound = FALSE]]]
    IN  IF f.shown.err THEN PaintErrorState(g)
        ELSE IF f.shown.data = NoList THEN g
        ELSE [g EXCEPT !.error = FALSE,
                       !.rows = [a \in Accounts |-> IF a \in f.shown.data.have THEN PaintAccountRow(g, a) ELSE NoRow],
                       !.expand = @ \ f.shown.data.conn]

-----------------------------------------------------------------------------
(* Reads.                                                                  *)

\* listForges: a dispatch while one is out joins it.
RefreshForges(f) == IF f.list.st = "none" THEN [f EXCEPT !.list.st = "out"] ELSE f

\* A mutant of Superseded: nothing is.
SupersededNever(f, r) == FALSE

\* A panel render or a probe whose panel has been rendered again since has no say.
Superseded(f, r) == r.gen # f.gen

RenderForgesPanel(f, probes) ==
    RefreshForges([f EXCEPT !.gen = @ + 1,
                            !.reads = @ \cup {[what |-> "render", gen |-> f.gen + 1, st |-> "list", probes |-> probes,
                                               data |-> NoList, local |-> {}, full |-> {}]}])

\* revalidateInBackground: the probe before it is aborted.
Revalidate(f, data) ==
    [f EXCEPT !.reads = {r \in @ : r.what # "probe"} \cup
                 {[what |-> "probe", gen |-> f.gen, st |-> "probe", probes |-> FALSE,
                   data |-> data, local |-> {}, full |-> {}]}]

\* The store's apply: a failure keeps the last list and says so.
Apply(f, ok) == IF ok THEN [f EXCEPT !.state = f.list.ans, !.failed = FALSE] ELSE [f EXCEPT !.failed = TRUE]

\* Whoever waited for the list goes on: a render to the repositories or to the error, a probe
\* to the repositories or to nothing.
ListAnswered(f, ok) ==
    LET waits == {r \in f.reads : r.st = "list" /\ ~(r.what = "render" /\ Superseded(f, r))}
        rest == {r \in f.reads : r.st # "list"}
        g == [Apply(f, ok) EXCEPT !.list = NoRead]
    IN  IF ok THEN [g EXCEPT !.reads = rest \cup {[r EXCEPT !.st = "repos", !.data = f.list.ans] : r \in waits}]
        ELSE IF \E r \in waits : r.what = "render"
        THEN PaintIntoRoot([g EXCEPT !.reads = rest, !.shown.err = TRUE])
        ELSE [g EXCEPT !.reads = rest]

\* The repositories of every connected account and the local names have been answered.
ReposAnswered(f, r) ==
    LET g == [f EXCEPT !.reads = @ \ {r}]
        shown == [err |-> f.shown.err /\ r.what = "probe", data |-> r.data, local |-> r.local, full |-> r.full]
        h == PaintIntoRoot([g EXCEPT !.shown = shown])
    IN  IF Superseded(f, r) THEN g
        ELSE IF r.probes /\ r.data.conn # {} THEN Revalidate(h, r.data) ELSE h

ListServed ==
    /\ fg.list.st = "out"
    /\ fg' = [fg EXCEPT !.list = [st |-> "served", ans |-> Listed]]
    /\ UNCHANGED <<fgsrv, fgleft>>

ListArrives ==
    \/ fg.list.st = "served" /\ fg' = ListAnswered(fg, TRUE) /\ UNCHANGED <<fgsrv, fgleft>>
    \/ fg.list.st # "none" /\ Spend("fails") /\ fg' = ListAnswered(fg, FALSE) /\ UNCHANGED fgsrv

\* A list of local names or of an account's repositories that fails counts as an empty one.
ReposServed(r) ==
    /\ r.st = "repos"
    /\ \/ /\ fg' = [fg EXCEPT !.reads = (@ \ {r}) \cup {[r EXCEPT !.st = "served", !.local = fgsrv.local,
                                                                 !.full = r.data.conn \cap fgsrv.good]}]
          /\ UNCHANGED <<fgsrv, fgleft>>
       \/ /\ Spend("fails") /\ UNCHANGED fgsrv
          /\ \E local \in {{}, fgsrv.local} :
                 fg' = [fg EXCEPT !.reads = (@ \ {r}) \cup {[r EXCEPT !.st = "served", !.local = local]}]

ReposArrive(r) == r.st = "served" /\ fg' = ReposAnswered(fg, r) /\ UNCHANGED <<fgsrv, fgleft>>

\* POST /probe asks each forge whether the saved account still works.
ProbeServed(r) ==
    /\ r.st = "probe"
    /\ LET seen == r.data.conn \cap fgsrv.have
           conn == (fgsrv.conn \ seen) \cup (seen \cap fgsrv.good)
       IN  fgsrv' = [fgsrv EXCEPT !.conn = conn, !.at = IF conn = fgsrv.conn THEN @ ELSE @ + 1]
    /\ fg' = RefreshForges([fg EXCEPT !.reads = (@ \ {r}) \cup {[r EXCEPT !.st = "list"]}])
    /\ UNCHANGED fgleft

-----------------------------------------------------------------------------
(* The tabs of the git view, its banner, the poll, frames.                 *)

\* setGitTab: a switch of tab reads the tab again; selecting it once more does nothing.
SetGitTab(tab) ==
    /\ fg.tab # tab /\ Spend("tabs")
    /\ fg' = IF tab = "sources" THEN RenderForgesPanel([fg EXCEPT !.tab = tab], TRUE)
             ELSE [fg EXCEPT !.tab = tab]
    /\ UNCHANGED fgsrv

Retry == fg.error /\ fg' = RenderForgesPanel(fg, TRUE) /\ Spend("tabs") /\ UNCHANGED fgsrv

\* Every fifteen seconds, and for the badge: the store alone hears of it.
Polls == Spend("polls") /\ fg.list.st = "none" /\ fg' = RefreshForges(fg) /\ UNCHANGED fgsrv

\* forges_changed: the store's read, and the panel's render that joins it.
FrameArrives ==
    /\ fgsrv.frames > 0 /\ fgsrv' = [fgsrv EXCEPT !.frames = @ - 1]
    /\ fg' = RenderForgesPanel(RefreshForges(fg), TRUE)
    /\ UNCHANGED fgleft

RawTop(active) == LET up == SelectSeq(Keys, LAMBDA k : k \in active) IN IF up = <<>> THEN None ELSE Head(up)

\* A dismissal is of the one banner on top: another one on top ends it, and so does its end.
SetBanner(k) ==
    /\ k \notin fg.active /\ Spend("banners")
    /\ fg' = [fg EXCEPT !.active = @ \cup {k},
                        !.dismissed = IF @ # RawTop(fg.active \cup {k}) THEN None ELSE @]
    /\ UNCHANGED fgsrv

ClearBanner(k) ==
    /\ k \in fg.active /\ Spend("banners")
    /\ fg' = [fg EXCEPT !.active = @ \ {k}, !.dismissed = IF @ = k THEN None ELSE @]
    /\ UNCHANGED fgsrv

TopKey == IF RawTop(fg.active) = fg.dismissed THEN None ELSE RawTop(fg.active)

Dismiss == TopKey # None /\ fg' = [fg EXCEPT !.dismissed = TopKey] /\ UNCHANGED <<fgsrv, fgleft>>

\* Its button leads to the accounts.
FireCTA ==
    /\ TopKey # None /\ fg.tab # "sources"
    /\ fg' = RenderForgesPanel([fg EXCEPT !.tab = "sources"], TRUE) /\ UNCHANGED <<fgsrv, fgleft>>

-----------------------------------------------------------------------------
(* Repositories.                                                           *)

\* addCloned and removeCloned change the set in place, whichever read brought it.
AddCloned(f, repo) == PaintIntoRoot([f EXCEPT !.shown.local = @ \cup {repo}])
RemoveCloned(f, repo) == PaintIntoRoot([f EXCEPT !.shown.local = @ \ {repo}])

Rows(a) == {repo \in Repos : RepoOf[repo] = a /\ fg.rows[a].there /\ a \in fg.shown.full}
Cloneable(a) == Rows(a) \ fg.shown.local
ClonedRepos(a) == Rows(a) \cap fg.shown.local
Job(what, repos, one) == [what |-> what, left |-> repos, one |-> one, st |-> "next"]

\* A row's button: the clone shows when it is answered, the removal at once.
CloneRepo ==
    \E a \in Accounts : \E repo \in Cloneable(a) :
        /\ Spend("acts") /\ UNCHANGED fgsrv
        /\ fg' = [fg EXCEPT !.jobs = Append(@, Job("clone", <<repo>>, TRUE))]

RemoveLocalRepo ==
    \E a \in Accounts : \E repo \in ClonedRepos(a) :
        /\ Spend("acts") /\ UNCHANGED fgsrv
        /\ fg' = [RemoveCloned(fg, repo) EXCEPT !.jobs = Append(@, Job("remove", <<repo>>, TRUE))]

\* The account's button: one repository after the other, each shown when it is answered.
CloneAllForAccount ==
    \E a \in Accounts :
        /\ Cloneable(a) # {} /\ Spend("bulks") /\ UNCHANGED fgsrv
        /\ fg' = [fg EXCEPT !.jobs = Append(@, Job("clone", SetToSeq(Cloneable(a)), FALSE))]

DeleteAllForAccount ==
    \E a \in Accounts :
        /\ ClonedRepos(a) # {} /\ Spend("bulks") /\ UNCHANGED fgsrv
        /\ fg' = [fg EXCEPT !.jobs = Append(@, Job("remove", SetToSeq(ClonedRepos(a)), FALSE))]

\* The server's half of the job's next repository; a clone of what is there is refused.
JobServed(i) ==
    LET j == fg.jobs[i]
        repo == Head(j.left)
    IN  /\ j.st = "next" /\ UNCHANGED fgleft
        /\ fg' = [fg EXCEPT !.jobs[i].st = IF (j.what = "clone") = (repo \in fgsrv.local) THEN "refused" ELSE "done"]
        /\ fgsrv' = [fgsrv EXCEPT !.local = IF j.what = "clone" THEN @ \cup {repo} ELSE @ \ {repo}]

\* What an answer does: a failed row puts back what it took, a failed one of many goes on, a
\* clone whose stream says nothing for three minutes has failed whatever the server did.
CloneOrDelete(f, i, ok) ==
    LET j == f.jobs[i]
        repo == Head(j.left)
        g == IF ok THEN (IF j.what = "clone" THEN AddCloned(f, repo)
                         ELSE IF j.one THEN f ELSE RemoveCloned(f, repo))
             ELSE IF j.one /\ j.what = "remove" THEN AddCloned(f, repo) ELSE f
    IN  IF Len(j.left) > 1 THEN [g EXCEPT !.jobs[i].left = Tail(@), !.jobs[i].st = "next"]
        ELSE PaintIntoRoot([g EXCEPT !.jobs = RemoveAt(@, i)])

JobAnswered(i) ==
    \/ /\ fg.jobs[i].st \in {"done", "refused"} /\ UNCHANGED <<fgsrv, fgleft>>
       /\ fg' = CloneOrDelete(fg, i, fg.jobs[i].st = "done")
    \/ Spend("fails") /\ fg' = CloneOrDelete(fg, i, FALSE) /\ UNCHANGED fgsrv

-----------------------------------------------------------------------------
(* Signing out.                                                            *)

OnSignOut(a) ==
    /\ fg.rows[a].there /\ ~fg.rows[a].hidden /\ Spend("acts")
    /\ fg' = [fg EXCEPT !.rows[a].hidden = TRUE, !.outs = @ \cup {[id |-> a, st |-> "sent"]}]
    /\ UNCHANGED fgsrv

SignOutServed(o) ==
    /\ o.st = "sent"
    /\ fg' = [fg EXCEPT !.outs = (@ \ {o}) \cup {[o EXCEPT !.st = "done"]}]
    /\ fgsrv' = [fgsrv EXCEPT !.have = @ \ {o.id}, !.conn = @ \ {o.id}, !.at = @ + 1, !.frames = @ + 1]
    /\ UNCHANGED fgleft

\* A refusal finds the row again, the same or one painted since; with none the panel is
\* rendered, without probing.
SignOutAnswered(o) ==
    LET g == [fg EXCEPT !.outs = @ \ {o}] IN
    \/ o.st = "done" /\ fg' = RenderForgesPanel(g, TRUE) /\ UNCHANGED <<fgsrv, fgleft>>
    \/ /\ Spend("fails") /\ UNCHANGED fgsrv
       /\ fg' = IF g.rows[o.id].there THEN [g EXCEPT !.rows[o.id].hidden = FALSE]
                ELSE RenderForgesPanel(g, FALSE)

-----------------------------------------------------------------------------
(* The add pane: a device flow that polls, a token form, the tool's gate.  *)

CloseSlot(f, a) == [f EXCEPT !.panes[a] = NoPane]

\* startGitHubDeviceFlow: the flow before it is aborted, wherever its pane went.
StartGitHubDeviceFlow(f, pane) ==
    [f EXCEPT !.flows = {[w EXCEPT !.live = FALSE] : w \in @} \cup
                           {[pane |-> pane, st |-> "starting", live |-> TRUE]},
              !.panes[GitHub].says = "contacting"]

\* showAddPane: a new pane, with a device flow where the forge has one.
ShowAddPane(f, a) ==
    LET n == f.made + 1
        g == [f EXCEPT !.panes[a] = [on |-> TRUE, pane |-> n, says |-> None, bound |-> TRUE, gate |-> "asked"], !.made = n]
    IN  IF a = GitHub THEN StartGitHubDeviceFlow(g, n) ELSE g

\* onAddAccount: a second click closes the pane, and leaves its flow to poll.
OnAddAccount(a) ==
    /\ fg.shown.data # NoList /\ ~fg.error /\ Spend("opens") /\ UNCHANGED fgsrv
    /\ fg' = IF fg.panes[a].on THEN CloseSlot(fg, a) ELSE ShowAddPane(fg, a)

\* gateAddPaneOnCLI: the pane stands while the tools are asked for; one that is missing gets a
\* banner, which an install that works takes away.
GateAddPaneOnCLI(a) ==
    /\ Spend("gates") /\ UNCHANGED fgsrv
    /\ \/ fg.panes[a].gate = "asked" /\ \E gate \in {"none", "missing"} : fg' = [fg EXCEPT !.panes[a].gate = gate]
       \/ fg.panes[a].gate = "missing" /\ fg' = [fg EXCEPT !.panes[a].gate = "none"]

\* What a flow says is seen while its pane is the one open.
Says(f, w, text) == IF f.panes[GitHub].pane = w.pane THEN [f EXCEPT !.panes[GitHub].says = text] ELSE f

\* The start is answered, for every flow that joined it; an aborted flow says nothing more.
FlowStarted ==
    LET starting == {w \in fg.flows : w.st = "starting"}
        heard == {w \in starting : w.live}
        rest == fg.flows \ starting
    IN  /\ starting # {} /\ UNCHANGED fgsrv
        /\ \/ /\ UNCHANGED fgleft
              /\ LET up == [fg EXCEPT !.flows = rest \cup {[w EXCEPT !.st = "polling"] : w \in heard}]
                 IN  fg' = IF heard = {} THEN up ELSE Says(up, CHOOSE w \in heard : TRUE, "code")
           \/ /\ Spend("fails")
              /\ LET down == [fg EXCEPT !.flows = rest]
                 IN  fg' = IF heard = {} THEN down ELSE Says(down, CHOOSE w \in heard : TRUE, "failed")

\* The reader approves the code in their browser.
Approve ==
    /\ \E w \in fg.flows : w.st = "polling" /\ ~fgsrv.approved
    /\ Spend("approvals") /\ fgsrv' = [fgsrv EXCEPT !.approved = TRUE] /\ UNCHANGED fg

Connected(s, a) ==
    [s EXCEPT !.have = @ \cup {a}, !.conn = @ \cup {a}, !.good = @ \cup {a}, !.at = @ + 1, !.frames = @ + 1]

\* One poll and its answer.  Nothing closes the pane of a flow that completed.
PollGitHubDevice(w) ==
    /\ w.st = "polling"
    /\ LET f == [fg EXCEPT !.flows = @ \ {w}] IN
       \/ /\ ~w.live /\ fg' = f /\ UNCHANGED <<fgsrv, fgleft>>
       \/ /\ w.live /\ fgsrv.approved /\ UNCHANGED fgleft
          /\ fgsrv' = [Connected(fgsrv, GitHub) EXCEPT !.approved = FALSE]
          /\ fg' = RenderForgesPanel([Says(f, w, "connected") EXCEPT !.expand = @ \cup {GitHub}], TRUE)
       \/ /\ w.live /\ Spend("fails") /\ UNCHANGED fgsrv
          /\ \E text \in {"expired", "timedout"} : fg' = Says(f, w, text)
       \/ /\ w.live /\ fg.panes[GitHub].pane = w.pane /\ fg.panes[GitHub].says = "code"
          /\ Spend("fails") /\ fg' = Says(fg, w, "retrying") /\ UNCHANGED fgsrv

\* renderPATForm's submit, from the pane that is open.
DoPATConnect(a) ==
    /\ fg.panes[a].on /\ fg.panes[a].says # "validating" /\ Spend("acts") /\ UNCHANGED fgsrv
    /\ fg' = [fg EXCEPT !.panes[a].says = "validating",
                        !.pats = @ \cup {[id |-> a, pane |-> fg.panes[a].pane, st |-> "sent"]}]

PATServed(p) ==
    /\ p.st = "sent" /\ UNCHANGED fgleft
    /\ fg' = [fg EXCEPT !.pats = (@ \ {p}) \cup {[p EXCEPT !.st = "done"]}]
    /\ fgsrv' = Connected(fgsrv, p.id)

\* The form of the answer is the one that sent it; the slot it closes is the section's, with
\* whatever pane it holds by then.
PATAnswered(p) ==
    LET f == [fg EXCEPT !.pats = @ \ {p}] IN
    \/ /\ p.st = "done" /\ UNCHANGED <<fgsrv, fgleft>>
       /\ fg' = RenderForgesPanel([CloseSlot(f, p.id) EXCEPT !.expand = @ \cup {p.id}], TRUE)
    \/ /\ Spend("fails") /\ UNCHANGED fgsrv
       /\ fg' = IF f.panes[p.id].pane = p.pane THEN [f EXCEPT !.panes[p.id].says = "failed"] ELSE f

-----------------------------------------------------------------------------
(* The world: an account stops working, another device connects one, signs *)
(* one out or clones.                                                      *)

WorldChanges ==
    /\ Spend("edits") /\ UNCHANGED fg
    /\ \/ \E a \in fgsrv.good : fgsrv' = [fgsrv EXCEPT !.good = @ \ {a}]
       \/ \E a \in Accounts \ fgsrv.have : fgsrv' = Connected(fgsrv, a)
       \/ \E repo \in Repos : fgsrv' = [fgsrv EXCEPT !.local = (@ \cup {repo}) \ (@ \cap {repo})]

ForgesInit ==
    /\ fgsrv = [have |-> Accounts, conn |-> Accounts, good |-> Accounts, local |-> {CHOOSE repo \in Repos : TRUE},
                at |-> 1, frames |-> 0, approved |-> FALSE]
    /\ fg = [gen |-> 0, reads |-> {}, list |-> NoRead, state |-> NoList, failed |-> FALSE,
             shown |-> [err |-> FALSE, data |-> NoList, local |-> {}, full |-> {}], error |-> FALSE,
             rows |-> [a \in Accounts |-> NoRow], panes |-> [a \in Accounts |-> NoPane], made |-> 0, expand |-> {},
             jobs |-> <<>>, outs |-> {}, pats |-> {}, flows |-> {}, tab |-> "changes", active |-> {}, dismissed |-> None]
    /\ fgleft \in ForgeScenarios

ForgesNext ==
    \/ ListServed \/ ListArrives \/ \E r \in fg.reads : ReposServed(r) \/ ReposArrive(r) \/ ProbeServed(r)
    \/ (\E tab \in {"changes", "sources"} : SetGitTab(tab)) \/ Retry \/ Polls \/ FrameArrives
    \/ (\E k \in Range(Keys) : SetBanner(k) \/ ClearBanner(k)) \/ Dismiss \/ FireCTA
    \/ CloneRepo \/ RemoveLocalRepo \/ CloneAllForAccount \/ DeleteAllForAccount
    \/ \E i \in DOMAIN fg.jobs : JobServed(i) \/ JobAnswered(i)
    \/ (\E a \in Accounts : OnSignOut(a) \/ OnAddAccount(a) \/ DoPATConnect(a) \/ GateAddPaneOnCLI(a))
    \/ \E o \in fg.outs : SignOutServed(o) \/ SignOutAnswered(o)
    \/ FlowStarted \/ Approve \/ (\E w \in fg.flows : PollGitHubDevice(w))
    \/ \E p \in fg.pats : PATServed(p) \/ PATAnswered(p)
    \/ WorldChanges

ForgesSpec == ForgesInit /\ [][ForgesNext]_fgvars

-----------------------------------------------------------------------------
\* What the panel shows never goes back to an older list, whichever of its renders, probes
\* and shared reads is answered last (forge-auth.ts, renderGen).
NeverOlder == fg'.shown.data.at >= fg.shown.data.at
NeverGoesBack == [][NeverOlder]_fgvars
=============================================================================
