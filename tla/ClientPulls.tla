----------------------------- MODULE ClientPulls -----------------------------
(***************************************************************************)
(* The git view's pull requests tab (static-src/git-prs-tab.ts with        *)
(* git-prs-state.ts, git-pr-status.ts and actions/git-prs.ts): the listing *)
(* gathered from every repository of every connected forge, the rows drawn *)
(* from it, what the reader asks of a pull request, removed from the list  *)
(* before the answer, the row an arriving link asks for, and the dialog    *)
(* that opens a new one.                                                   *)
(***************************************************************************)
EXTENDS Integers, Sequences, SequencesExt, FiniteSets

CONSTANTS
    Groups,        \* repositories of the connected forges, as strings
    RerunCapable,  \* those whose forge can run checks again
    PullScenarios  \* budgets of what may happen

VARIABLES
    pr,     \* the tab
    prsrv,  \* the forges' pull requests, and whether any forge is connected
    prdlg,  \* the new pull request dialog
    prleft  \* what may still happen

prvars == <<pr, prsrv, prdlg, prleft>>

NoRepo == "none"

NoWant == <<NoRepo, 0>>

SpendPull(what) == prleft[what] > 0 /\ prleft' = [prleft EXCEPT ![what] = @ - 1]

-----------------------------------------------------------------------------
(* What is drawn. *)

\* What the forge says stands in the way: a draft, or a required check that fails.
MergeBlockReason(p) == IF p.checks \in {"draft", "failing"} THEN p.checks ELSE ""

CanArmAutoMerge(p) == ~p.armed /\ p.checks = "running"

SupportsRerun(g) == g \in RerunCapable

RenderPRRow(g, p) ==
    [n |-> p.n, sha |-> p.sha, chip |-> p.checks, armed |-> p.armed,
     offers |-> {"close"} \cup (IF MergeBlockReason(p) = "" THEN {"merge"} ELSE {})
                          \cup (IF CanArmAutoMerge(p) THEN {"arm"} ELSE {})
                          \cup (IF p.checks = "failing" /\ SupportsRerun(g) THEN {"rerun"} ELSE {})]

\* The filter is a repository's name or something a row shows.
GroupMatches(t, g) == t.filter = g

PrMatches(t, p) == t.filter = p.checks

FilteredPRs(t, g) ==
    IF t.filter = "" \/ GroupMatches(t, g) THEN t.groups[g] ELSE {p \in t.groups[g] : PrMatches(t, p)}

HoldsPendingFocus(t, g) == t.want[1] = g /\ \E p \in t.groups[g] : p.n = t.want[2]

WantOpen(t, g) ==
    \/ t.filter # ""
    \/ HoldsPendingFocus(t, g)
    \/ IF t.toggled[g] = NoRepo THEN t.groups[g] # {} ELSE t.toggled[g] = "open"

NoGroup == [open |-> FALSE, rows |-> {}, there |-> FALSE]

PaintGroupBody(t, g) ==
    [open |-> WantOpen(t, g), rows |-> {RenderPRRow(g, p) : p \in FilteredPRs(t, g)}, there |-> TRUE]

\* A repository no longer listed loses the reader's toggle.
PaintPullsInner(t) ==
    LET visible == {g \in t.listed : t.filter = "" \/ GroupMatches(t, g) \/ FilteredPRs(t, g) # {}}
        kind == IF t.listed = {} THEN "noforge"
                ELSE IF t.filter = "" /\ \A g \in visible : t.groups[g] = {} THEN "caughtup"
                ELSE IF visible = {} THEN "nomatch" ELSE "list"
    IN  [t EXCEPT !.toggled = [g \in Groups |-> IF g \in t.listed THEN @[g] ELSE NoRepo], !.kind = kind,
                  !.drawn = [g \in Groups |-> IF kind = "list" /\ g \in visible THEN PaintGroupBody(t, g) ELSE NoGroup]]

\* A paint with a row still asked for tries it on the next frame.
PaintPulls(t) == [PaintPullsInner(t) EXCEPT !.frame = @ \/ t.want # NoWant]

PaintInstead(t, kind) == [t EXCEPT !.kind = kind, !.drawn = [g \in Groups |-> NoGroup]]

-----------------------------------------------------------------------------
(* The dialog.  Its fields are one set of elements, whoever opened it. *)

ClosedDialog == [on |-> NoRepo, body |-> "", status |-> "", gens |-> {}]

\* A request of an earlier opening is aborted and belongs to nobody.
OpenedDialog(g) ==
    [on |-> g, body |-> "", status |-> "busy", gens |-> {[for |-> g, live |-> TRUE]}]

\* The reader asks again: the first request is aborted, and its end is taken for a failure.
GenerateAgain ==
    /\ SpendPull("writes") /\ prdlg.on # NoRepo
    /\ prdlg' = [prdlg EXCEPT !.status = "busy",
                              !.gens = {[gen EXCEPT !.live = FALSE] : gen \in @} \cup {[for |-> prdlg.on, live |-> TRUE]}]
    /\ UNCHANGED <<pr, prsrv>>

\* A description only fills a body nothing was written in.
Generated ==
    \E gen \in prdlg.gens : \E ok \in BOOLEAN :
        /\ ok => gen.live
        /\ prdlg' = [prdlg EXCEPT !.gens = @ \ {gen}, !.status = IF ok THEN "ok" ELSE "err",
                                  !.body = IF ok /\ @ = "" THEN gen.for ELSE @]
        /\ UNCHANGED <<pr, prsrv, prleft>>

WritesBody ==
    /\ SpendPull("writes") /\ prdlg.on # NoRepo
    /\ prdlg' = [prdlg EXCEPT !.body = "mine"]
    /\ UNCHANGED <<pr, prsrv>>

ClosesDialog ==
    /\ prdlg.on # NoRepo
    /\ prdlg' = ClosedDialog
    /\ UNCHANGED <<pr, prsrv, prleft>>

\* The section's button; one dialog is modal.
OpenNewPRDialog ==
    \E g \in Groups :
        /\ SpendPull("opens") /\ pr.drawn[g].there /\ prdlg.on = NoRepo
        /\ prdlg' = OpenedDialog(g)
        /\ UNCHANGED <<pr, prsrv>>

-----------------------------------------------------------------------------
(* Gathering the list: the forges, then every repository; only the newest read counts. *)

RefreshPRs(t, byAction, then) ==
    [t EXCEPT !.reads = {[r EXCEPT !.live = FALSE] : r \in @} \cup
                        {[live |-> TRUE, act |-> byAction, then |-> then, forges |-> FALSE, on |-> FALSE,
                          got |-> [g \in Groups |-> <<>>]]}]

ServerListsForges ==
    \E r \in pr.reads :
        /\ ~r.forges
        /\ pr' = [pr EXCEPT !.reads = (@ \ {r}) \cup {[r EXCEPT !.forges = TRUE, !.on = prsrv.on]}]
        /\ UNCHANGED <<prsrv, prdlg, prleft>>

\* One repository's listing; one that fails, or is aborted by a newer read, counts as empty.
ServerLists ==
    \E r \in pr.reads : \E g \in Groups : \E ok \in BOOLEAN :
        /\ r.forges /\ r.on /\ r.got[g] = <<>> /\ (ok => r.live)
        /\ IF ok \/ ~r.live THEN UNCHANGED prleft ELSE SpendPull("fails")
        /\ pr' = [pr EXCEPT !.reads = (@ \ {r}) \cup
                                      {[r EXCEPT !.got[g] = <<IF ok THEN prsrv.prs[g] ELSE {}, ok>>]}]
        /\ UNCHANGED <<prsrv, prdlg>>

Gathered(r) == r.forges /\ (r.on => \A g \in Groups : r.got[g] # <<>>)

SetPRGroups(t, r) ==
    LET got == [g \in Groups |-> IF r.on THEN r.got[g][1] ELSE {}]
    IN  [t EXCEPT !.groups = got, !.base = got, !.listed = IF r.on THEN Groups ELSE {}, !.answered = TRUE,
                  !.lost = {g \in Groups : r.on /\ ~r.got[g][2]}]

\* openNewPRForRepo, once the read it waited for is over.
ThenOpens(t, g) ==
    IF g = NoRepo THEN pr' = t /\ UNCHANGED prdlg
    ELSE IF g \in t.listed THEN pr' = t /\ prdlg' = (IF prdlg.on = NoRepo THEN OpenedDialog(g) ELSE prdlg)
    ELSE pr' = PaintInstead(t, "unknown") /\ UNCHANGED prdlg

Counts(r) == r.live

Unskeleton(t) == IF t.kind = "skeleton" THEN [t EXCEPT !.kind = "blank"] ELSE t

PullReadArrives ==
    \E r \in pr.reads :
        /\ Gathered(r)
        /\ LET t == [Unskeleton(pr) EXCEPT !.reads = @ \ {r}]
           IN  ThenOpens(IF Counts(r) THEN PaintPulls(SetPRGroups(t, r)) ELSE t, r.then)
        /\ UNCHANGED <<prsrv, prleft>>

\* The forges cannot be listed, the read was overtaken, or its time is up before the listings go out.
ReadEnds ==
    \E r \in pr.reads : \E timeout \in BOOLEAN :
        /\ ~r.forges
        /\ timeout \/ r.live
        /\ IF r.live THEN SpendPull("fails") ELSE UNCHANGED prleft
        /\ LET t == [Unskeleton(pr) EXCEPT !.reads = @ \ {r}]
           IN  ThenOpens(IF timeout THEN t ELSE PaintInstead(t, "error"), r.then)
        /\ UNCHANGED prsrv

ShowPRSkeleton ==
    /\ ~pr.answered /\ pr.kind = "blank" /\ \E r \in pr.reads : r.live
    /\ pr' = [pr EXCEPT !.kind = "skeleton"]
    /\ UNCHANGED <<prsrv, prdlg, prleft>>

\* The refresh button and a changed forge join a refresh of theirs that is still out.
RefreshAction ==
    /\ SpendPull("refreshes")
    /\ pr' = IF \E r \in pr.reads : r.act THEN pr ELSE RefreshPRs(pr, TRUE, NoRepo)
    /\ UNCHANGED <<prsrv, prdlg>>

\* The Changes tab's hint, with the branch it pushed.
OpenNewPRForRepo ==
    \E g \in Groups :
        /\ SpendPull("opens") /\ prdlg.on = NoRepo
        /\ IF pr.listed = {} THEN pr' = RefreshPRs(pr, FALSE, g) /\ UNCHANGED prdlg ELSE ThenOpens(pr, g)
        /\ UNCHANGED prsrv

-----------------------------------------------------------------------------
(* A row asked for by a link: its group opens, and a list that lacks it is read again once. *)

RequestPRFocus ==
    \E g \in Groups, n \in {1, 2} :
        /\ SpendPull("links")
        /\ pr' = PaintPulls([pr EXCEPT !.want = <<g, n>>, !.wantRead = FALSE, !.flashed = NoWant])
        /\ UNCHANGED <<prsrv, prdlg>>

AttemptFocus ==
    /\ pr.frame
    /\ LET t == [pr EXCEPT !.frame = FALSE]
           there == \E row \in pr.drawn[pr.want[1]].rows : row.n = pr.want[2]
       IN  pr' = IF pr.want = NoWant THEN t
                 ELSE IF there THEN [t EXCEPT !.want = NoWant, !.wantRead = FALSE, !.flashed = pr.want]
                 ELSE IF pr.wantRead THEN [t EXCEPT !.want = NoWant]
                 ELSE RefreshPRs([t EXCEPT !.wantRead = TRUE], FALSE, NoRepo)
    /\ UNCHANGED <<prsrv, prdlg, prleft>>

ToggleGroup ==
    \E g \in Groups :
        /\ SpendPull("views") /\ pr.drawn[g].there
        /\ pr' = [pr EXCEPT !.drawn[g].open = ~@, !.toggled[g] = IF pr.drawn[g].open THEN "shut" ELSE "open"]
        /\ UNCHANGED <<prsrv, prdlg>>

PrsFind ==
    \E f \in Groups \cup {"", "passed"} :
        /\ SpendPull("views") /\ f # pr.filter
        /\ pr' = PaintPulls([pr EXCEPT !.filter = f])
        /\ UNCHANGED <<prsrv, prdlg>>

-----------------------------------------------------------------------------
(* What the reader asks of a pull request. *)

\* The same request that is still out is joined, not sent again.
Joins(t, g, kind, n) == \E i \in DOMAIN t.jobs : t.jobs[i].g = g /\ t.jobs[i].kind = kind /\ t.jobs[i].n = n

PinnedSha(row) == row.sha

RemovePRFromGroups(t, g, n) == PaintPulls([t EXCEPT !.groups[g] = {p \in @ : p.n # n}])

\* Merging and closing take the row away at once and keep it for a refusal.
Asks ==
    \E g \in Groups : \E row \in pr.drawn[g].rows : \E kind \in row.offers :
        LET taken == IF kind \in {"merge", "close"} THEN {p \in pr.groups[g] : p.n = row.n} ELSE {}
            job == [g |-> g, n |-> row.n, kind |-> kind, sha |-> IF kind = "close" THEN 0 ELSE PinnedSha(row),
                    saw |-> row.sha, taken |-> taken, phase |-> "out"]
            t == [pr EXCEPT !.jobs = Append(@, job)]
        IN  /\ SpendPull("asks")
            /\ pr.drawn[g].open /\ ~Joins(pr, g, kind, row.n)
            /\ pr' = IF taken = {} THEN t ELSE RemovePRFromGroups(t, g, row.n)
            /\ UNCHANGED <<prsrv, prdlg>>

SubmitsPR ==
    /\ SpendPull("asks") /\ prdlg.on # NoRepo /\ ~Joins(pr, prdlg.on, "create", 0)
    /\ pr' = [pr EXCEPT !.jobs = Append(@, [g |-> prdlg.on, n |-> 0, kind |-> "create", sha |-> 0, saw |-> 0,
                                             taken |-> {}, phase |-> "out"])]
    /\ prdlg' = [prdlg EXCEPT !.status = "busy"]
    /\ UNCHANGED prsrv

\* Requests about one repository go out one at a time.
PullIsNext(i) ==
    /\ pr.jobs[i].phase = "out"
    /\ \A k \in 1 .. i - 1 : pr.jobs[k].g # pr.jobs[i].g \/ pr.jobs[k].phase # "out" \/ pr.jobs[i].kind = "create"

Of(g, n) == {p \in prsrv.prs[g] : p.n = n}

\* The forge refuses what is gone, and a merge or a run of another commit than the one named.
ForgeAccepts(j) ==
    IF j.kind = "create" THEN \A p \in prsrv.prs[j.g] : p.n # 2
    ELSE \E p \in Of(j.g, j.n) : j.sha \in {0, p.sha} /\ (j.kind = "merge" => MergeBlockReason(p) = "")

PullDone(j) ==
    LET rest == prsrv.prs[j.g] \ Of(j.g, j.n)
        p == CHOOSE x \in Of(j.g, j.n) : TRUE
    IN  CASE j.kind \in {"merge", "close"} -> rest
          [] j.kind = "arm"    -> rest \cup {[p EXCEPT !.armed = TRUE]}
          [] j.kind = "rerun"  -> rest \cup {[p EXCEPT !.checks = "running"]}
          [] j.kind = "create" -> rest \cup {[n |-> 2, sha |-> 1, checks |-> "running", armed |-> FALSE]}

ForgeActs ==
    \E i \in DOMAIN pr.jobs :
        LET j == pr.jobs[i]
        IN  /\ PullIsNext(i)
            /\ IF ForgeAccepts(j)
               THEN /\ prsrv' = [prsrv EXCEPT !.prs[j.g] = PullDone(j),
                                              !.unseen = @ \/ (j.kind = "merge" /\ \E p \in Of(j.g, j.n) : p.sha # j.saw)]
                    /\ pr' = [pr EXCEPT !.jobs[i].phase = "ok"]
               ELSE /\ pr' = [pr EXCEPT !.jobs[i].phase = "fail"]
                    /\ UNCHANGED prsrv
            /\ UNCHANGED <<prdlg, prleft>>

NotReached ==
    \E i \in DOMAIN pr.jobs :
        /\ PullIsNext(i) /\ SpendPull("fails")
        /\ pr' = [pr EXCEPT !.jobs[i].phase = "fail"]
        /\ UNCHANGED <<prsrv, prdlg>>

\* A mutant of ReinsertPRInGroups: what was taken away stays away.
ReinsertNothing(t, j) == t

ReinsertPRInGroups(t, j) ==
    IF j.g \notin t.listed \/ \E p \in t.groups[j.g] : p.n = j.n THEN t
    ELSE PaintPulls([t EXCEPT !.groups[j.g] = @ \cup j.taken])

\* A success of what was not taken away reads the list again, and a new one closes the dialog.
PullAnswered ==
    \E i \in DOMAIN pr.jobs :
        LET j == pr.jobs[i]
            t == [pr EXCEPT !.jobs = RemoveAt(@, i)]
        IN  /\ j.phase # "out"
            /\ pr' = IF j.phase = "fail" THEN (IF j.taken = {} THEN t ELSE ReinsertPRInGroups(t, j))
                     ELSE IF j.kind \in {"merge", "close"}
                     THEN [t EXCEPT !.base[j.g] = {p \in @ : p.n # j.n}]
                     ELSE RefreshPRs(t, FALSE, NoRepo)
            /\ prdlg' = IF j.kind # "create" THEN prdlg
                        ELSE IF j.phase = "ok" THEN ClosedDialog ELSE [prdlg EXCEPT !.status = "err"]
            /\ UNCHANGED <<prsrv, prleft>>

\* Others push, run checks, merge and open; forges come and go.
ForgesMove ==
    /\ SpendPull("edits")
    /\ \/ \E g \in Groups : \E p \in prsrv.prs[g] :
              \E q \in {{}, {[p EXCEPT !.sha = 2, !.checks = "running"]}, {[p EXCEPT !.checks = "failing"]}} :
                  prsrv' = [prsrv EXCEPT !.prs[g] = (@ \ {p}) \cup q]
       \/ prsrv' = [prsrv EXCEPT !.on = ~@]
    /\ UNCHANGED <<pr, prdlg>>

-----------------------------------------------------------------------------
PullsInit ==
    /\ prsrv = [on |-> TRUE, unseen |-> FALSE,
                prs |-> [g \in Groups |-> {[n |-> 1, sha |-> 1, armed |-> FALSE,
                                            checks |-> IF g \in RerunCapable THEN "passed" ELSE "running"]}]]
    /\ pr = RefreshPRs([groups |-> [g \in Groups |-> {}], base |-> [g \in Groups |-> {}], listed |-> {}, lost |-> {},
                        drawn |-> [g \in Groups |-> NoGroup], kind |-> "blank", answered |-> FALSE, filter |-> "",
                        toggled |-> [g \in Groups |-> NoRepo], want |-> NoWant, wantRead |-> FALSE, frame |-> FALSE,
                        flashed |-> NoWant, jobs |-> <<>>, reads |-> {}], TRUE, NoRepo)
    /\ prdlg = ClosedDialog
    /\ prleft \in PullScenarios

PullsNext ==
    \/ GenerateAgain \/ Generated \/ WritesBody \/ ClosesDialog \/ OpenNewPRDialog
    \/ ServerListsForges \/ ServerLists \/ PullReadArrives \/ ReadEnds \/ ShowPRSkeleton \/ RefreshAction
    \/ OpenNewPRForRepo \/ RequestPRFocus \/ AttemptFocus \/ ToggleGroup \/ PrsFind
    \/ Asks \/ SubmitsPR \/ ForgeActs \/ NotReached \/ PullAnswered \/ ForgesMove

PullsSpec == PullsInit /\ [][PullsNext]_prvars

-----------------------------------------------------------------------------
\* A pull request the newest listing has stays in the tab until a merge or a close of it has been
\* answered as done: taking the row away early never loses one the forge kept.
RefusedComeBack ==
    \A g \in Groups : \A p \in pr.base[g] :
        \/ \E q \in pr.groups[g] : q.n = p.n
        \/ \E i \in DOMAIN pr.jobs : pr.jobs[i].g = g /\ pr.jobs[i].n = p.n /\ pr.jobs[i].taken # {}

\* Nothing is merged but the commit the row showed when the reader asked.
MergesWhatWasSeen == ~prsrv.unseen

\* The two together: what the tab takes away comes back if the forge kept it, and what it sends is
\* what it showed.
PullsAsSeen == RefusedComeBack /\ MergesWhatWasSeen

=============================================================================
