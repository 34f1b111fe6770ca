------------------------------ MODULE ClientGit ------------------------------
(***************************************************************************)
(* The git view's Changes tab (static-src/git-changes-tab.ts with its      *)
(* commit box, actions and branch switcher) and the status store and badge *)
(* of the rest of the client.  A repository's files are three kinds of     *)
(* entry: staged, changed (tracked) and new.  The list is read whole; what *)
(* the reader does to a repository is a request, and a success reads the   *)
(* list again.  A paint rebuilds every section.                            *)
(***************************************************************************)
EXTENDS Integers, Sequences, SequencesExt, FiniteSets

CONSTANTS
    GitRepos,        \* the repositories of the workspace, as strings
    Held,         \* those a pull-all leaves alone
    GitScenarios  \* budgets of what may happen

VARIABLES
    gt,     \* the tab: what it knows, what it has drawn, what it has out
    gtsrv,  \* the repositories, and how many of the tab's requests changed them
    gtst,   \* the status store: what it published, its reads, and the forges that fail
    gtleft  \* what may still happen

gtvars == <<gt, gtsrv, gtst, gtleft>>

Nothing == "none"

\* What MessageKept need not tell apart.
Other == <<"other", Nothing>>

Gone == [is |-> FALSE, files |-> {}, ahead |-> FALSE, behind |-> FALSE, stashes |-> FALSE,
         branch |-> Nothing]

IsListed(list, r) == list[r].branch # Nothing

Allows(what) == gtleft[what] > 0 /\ gtleft' = [gtleft EXCEPT ![what] = @ - 1]

-----------------------------------------------------------------------------
(* One repository's section. *)

\* The files that pass the filter; a repository without any is not listed.
FilteredFilesFor(g, r) ==
    IF g.filter \in {"", r} THEN g.known[r].files ELSE g.known[r].files \ {"new"}

Matches(g, r) == g.filter \in {"", r} \/ FilteredFilesFor(g, r) # {}

IsFeatureBranch(branch) == branch \notin {"main", Nothing}

StashableCount(files) == Cardinality(files \ {"new"})

\* Open as the reader left it, else as the repository has something to show.
ExpandedDefault(g, r) ==
    \/ g.filter # ""
    \/ /\ r \notin g.collapsed
       /\ \/ r \in g.expanded
          \/ g.known[r].files # {} \/ g.known[r].ahead \/ g.known[r].behind

ActionBar(s) ==
    {k \in {"pull", "push", "stash", "pop"} :
        CASE k = "pull"  -> s.behind
          [] k = "push"  -> s.ahead
          [] k = "stash" -> StashableCount(s.files) > 0
          [] k = "pop"   -> s.stashes}

StagedGroupActions(files) == IF "staged" \in files THEN {"unstage"} ELSE {}

UnstagedGroupActions(files) == IF files \ {"staged"} # {} THEN {"stage", "discard"} ELSE {}

RenderFileList(files) == StagedGroupActions(files) \cup UnstagedGroupActions(files)

RenderCommitArea(s) == IF "staged" \in s.files THEN {"commit", "generate"} ELSE {}

\* What the last pull-all said of it, in the header and over the bar.
RenderPullFlag(g, r) == r \in g.flags

\* For a minute after a push.
RenderOpenPRHint(g, r) == g.known[r].is /\ r \in g.pushed /\ IsFeatureBranch(g.known[r].branch)

RenderRepoSection(g, r) ==
    LET s == g.known[r]
    IN  [open |-> ExpandedDefault(g, r), branch |-> s.branch,
         offers |-> IF s.is
                    THEN ActionBar(s) \cup RenderFileList(FilteredFilesFor(g, r)) \cup RenderCommitArea(s)
                    ELSE {},
         flag |-> RenderPullFlag(g, r), hint |-> RenderOpenPRHint(g, r),
         recent |-> "closed"]

NoSection == [open |-> FALSE, branch |-> Nothing, offers |-> {}, flag |-> FALSE, hint |-> FALSE,
              recent |-> "closed"]

\* The commit box of a repository is in the page.
HasBox(g, r) == "commit" \in g.drawn[r].offers

-----------------------------------------------------------------------------
(* Painting. *)

\* A mutant of Harvest: the rebuild takes the text with it.
HarvestNothing(g) == [r \in GitRepos |-> IF IsListed(g.known, r) THEN g.msgs[r] ELSE ""]

\* The text of every box, kept across the rebuild.
Harvest(g) ==
    [r \in GitRepos |-> IF HasBox(g, r) THEN g.box[r] ELSE IF IsListed(g.known, r) THEN g.msgs[r] ELSE ""]

\* Everything a section held is replaced: nothing out belongs to what is drawn any more.
Disowned(jobs) == [i \in DOMAIN jobs |-> [jobs[i] EXCEPT !.own = FALSE]]

PaintInner(g) ==
    LET active == {r \in GitRepos : IsListed(g.known, r)}
        g1 == [g EXCEPT !.deferred = FALSE, !.msgs = Harvest(g), !.jobs = Disowned(@),
                        !.collapsed = @ \cap active, !.expanded = @ \cap active,
                        !.flags = {r \in @ \cap active : g.known[r].behind}]
        visible == {r \in active : Matches(g, r)}
    IN  [g1 EXCEPT !.kind = IF active = {} THEN "empty" ELSE IF visible = {} THEN "nomatch" ELSE "repos",
                   !.drawn = [r \in GitRepos |-> IF r \in visible THEN RenderRepoSection(g1, r) ELSE NoSection],
                   !.box = g1.msgs]

\* Never under the reader's cursor in a commit box.
Paint(g) == IF g.focus # Nothing THEN [g EXCEPT !.deferred = TRUE] ELSE PaintInner(g)

PaintError(g) ==
    [g EXCEPT !.kind = "error", !.drawn = [r \in GitRepos |-> NoSection], !.focus = Nothing,
              !.jobs = Disowned(@)]

-----------------------------------------------------------------------------
(* Reading the list.  The read begun last is the one that counts. *)

RefreshChanges(g) ==
    [g EXCEPT !.reads = {[rd EXCEPT !.live = FALSE] : rd \in @} \cup {[live |-> TRUE, got |-> <<>>]}]

ServerAnswersRead ==
    \E rd \in gt.reads :
        /\ rd.got = <<>>
        /\ gt' = [gt EXCEPT !.reads = (@ \ {rd}) \cup {[rd EXCEPT !.got = <<gtsrv.repos, gtsrv.at>>]}]
        /\ UNCHANGED <<gtsrv, gtst, gtleft>>

\* A mutant of Outdated: every answer is applied.
OutdatedNever(rd) == FALSE

\* A superseded read is aborted, but its answer may be in already.
Outdated(rd) == ~rd.live

ReadArrives ==
    \E rd \in gt.reads :
        /\ rd.got # <<>>
        /\ LET g == [gt EXCEPT !.reads = @ \ {rd}, !.last = Other]
           IN  gt' = IF Outdated(rd) THEN [g EXCEPT !.kind = IF @ = "skeleton" THEN "blank" ELSE @]
                     ELSE Paint([g EXCEPT !.known = rd.got[1], !.seen = rd.got[2], !.answered = TRUE,
                                          !.failed = FALSE])
        /\ UNCHANGED <<gtsrv, gtst, gtleft>>

\* A read that fails or times out; an aborted one says nothing.
ReadFails ==
    \E rd \in gt.reads :
        /\ IF rd.live THEN Allows("fails") ELSE UNCHANGED gtleft
        /\ LET g == [gt EXCEPT !.reads = @ \ {rd}, !.last = <<"error", Nothing>>]
           IN  gt' = IF rd.live THEN PaintError([g EXCEPT !.failed = TRUE])
                     ELSE [g EXCEPT !.kind = IF @ = "skeleton" THEN "blank" ELSE @]
        /\ UNCHANGED <<gtsrv, gtst>>

\* Before the first answer the pane shows a placeholder once the read takes its time.
GitChangesSkeleton ==
    /\ ~gt.answered /\ gt.kind = "blank" /\ \E rd \in gt.reads : rd.live
    /\ gt' = [gt EXCEPT !.kind = "skeleton"]
    /\ UNCHANGED <<gtsrv, gtst, gtleft>>

\* The refresh button, a turn that closed or a forge that changed.
Refreshes ==
    /\ Allows("refreshes")
    /\ gt' = [RefreshChanges(gt) EXCEPT !.last = Other]
    /\ UNCHANGED <<gtsrv, gtst>>

-----------------------------------------------------------------------------
(* What the reader does. *)

\* A button waits for the requests its binding names, of any repository.
WaitsFor(kind) ==
    CASE kind \in {"pull", "push", "stash", "pop"} -> {"pull", "push", "stash", "pop"}
      [] kind \in {"stage", "unstage", "discard"} -> {kind, "commit"}
      [] kind = "pullAll" -> {"pull", "pullAll"}
      [] OTHER -> {kind}

Busy(g, kind) == \E i \in DOMAIN g.jobs : g.jobs[i].kind \in WaitsFor(kind) /\ g.jobs[i].phase # "confirm"

Request(r, kind, phase, said) ==
    [repo |-> r, kind |-> kind, phase |-> phase, own |-> TRUE, said |-> said, at |-> 0]

\* Discarding asks first, one question per repository.
Clicks ==
    \E r \in GitRepos : \E kind \in gt.drawn[r].offers :
        /\ Allows("acts")
        /\ gt.drawn[r].open /\ ~Busy(gt, kind)
        /\ kind = "discard" => r \notin gt.asking
        /\ kind = "commit" => gt.box[r] # ""
        /\ LET out == IF gt.focus = Nothing THEN gt ELSE [gt EXCEPT !.focus = Nothing]
               g == IF out.deferred THEN PaintInner(out) ELSE out
           IN  gt' = IF kind = "discard"
                     THEN [g EXCEPT !.jobs = Append(@, Request(r, kind, "confirm", "")), !.asking = @ \cup {r},
                                    !.last = Other]
                     ELSE [g EXCEPT !.jobs = Append(@, Request(r, kind, "out",
                                                               IF kind = "commit" THEN gt.box[r] ELSE "")),
                                    !.last = Other]
        /\ UNCHANGED <<gtsrv, gtst>>

ConfirmDialog ==
    \E i \in DOMAIN gt.jobs : \E ok \in BOOLEAN :
        /\ gt.jobs[i].phase = "confirm"
        /\ gt' = IF ok THEN [gt EXCEPT !.jobs[i].phase = "out"]
                 ELSE [gt EXCEPT !.jobs = RemoveAt(@, i), !.asking = @ \ {gt.jobs[i].repo}]
        /\ UNCHANGED <<gtsrv, gtst, gtleft>>

RunPullAll ==
    /\ Allows("acts") /\ ~Busy(gt, "pullAll")
    /\ gt' = [gt EXCEPT !.jobs = Append(@, Request(Nothing, "pullAll", "out", "")), !.last = Other]
    /\ UNCHANGED <<gtsrv, gtst>>

Types ==
    \E r \in GitRepos :
        /\ Allows("types") /\ HasBox(gt, r) /\ gt.drawn[r].open
        /\ \E t \in {"mine", "more"} :
               gt' = [gt EXCEPT !.focus = r, !.box[r] = t, !.last = <<"type", r>>]
        /\ UNCHANGED <<gtsrv, gtst>>

\* Leaving the box runs the paint that waited for it.
LeavesBox ==
    /\ gt.focus # Nothing
    /\ LET g == [gt EXCEPT !.focus = Nothing, !.last = Other]
       IN  gt' = IF g.deferred THEN PaintInner(g) ELSE g
    /\ UNCHANGED <<gtsrv, gtst, gtleft>>

ToggleSection ==
    \E r \in GitRepos :
        /\ Allows("views") /\ gt.drawn[r] # NoSection
        /\ gt' = [gt EXCEPT !.drawn[r].open = ~@, !.last = Other,
                            !.expanded = IF gt.drawn[r].open THEN @ \ {r} ELSE @ \cup {r},
                            !.collapsed = IF gt.drawn[r].open THEN @ \cup {r} ELSE @ \ {r}]
        /\ UNCHANGED <<gtsrv, gtst>>

\* The filter box has the focus while its text changes.
ChangesFind ==
    \E f \in GitRepos \cup {"", "a"} :
        /\ Allows("views") /\ f # gt.filter /\ gt.answered
        /\ gt' = PaintInner([gt EXCEPT !.focus = Nothing, !.filter = f, !.last = Other])
        /\ UNCHANGED <<gtsrv, gtst>>

RenderRecentCommits ==
    \E r \in GitRepos :
        /\ Allows("views") /\ gt.drawn[r].open /\ gt.known[r].is /\ gt.drawn[r].recent = "closed"
        /\ gt' = [gt EXCEPT !.drawn[r].recent = "loading", !.jobs = Append(@, Request(r, "log", "out", "")),
                            !.last = Other]
        /\ UNCHANGED <<gtsrv, gtst>>

\* The branch popover: opened on a chip, closed by a second click or another chip.
OpenBranchSwitcher ==
    \E r \in GitRepos :
        /\ Allows("views") /\ gt.drawn[r] # NoSection
        /\ gt' = [gt EXCEPT !.pop = IF @ = r THEN Nothing ELSE r, !.last = Other]
        /\ UNCHANGED <<gtsrv, gtst>>

\* The chip says the new branch at once.
DoCheckout ==
    /\ Allows("acts") /\ gt.pop # Nothing /\ ~Busy(gt, "checkout")
    /\ gt' = [gt EXCEPT !.jobs = Append(@, Request(gt.pop, "checkout", "out", gt.drawn[gt.pop].branch)),
                        !.drawn[gt.pop].branch = IF @ = Nothing THEN Nothing ELSE "topic",
                        !.last = Other]
    /\ UNCHANGED <<gtsrv, gtst>>

-----------------------------------------------------------------------------
(* The requests.  Those of one repository run one after the other. *)

\* What git does to the repository.
Done(kind, s) ==
    CASE kind = "stage"    -> [s EXCEPT !.files = {"staged"}]
      [] kind = "unstage"  -> [s EXCEPT !.files = (@ \ {"staged"}) \cup {"changed"}]
      [] kind = "discard"  -> [s EXCEPT !.files = @ \cap {"staged"}]
      [] kind = "commit"   -> [s EXCEPT !.files = @ \ {"staged"}, !.ahead = TRUE]
      [] kind = "push"     -> [s EXCEPT !.ahead = FALSE]
      [] kind = "pull"     -> [s EXCEPT !.behind = FALSE]
      [] kind = "stash"    -> [s EXCEPT !.files = @ \cap {"new"}, !.stashes = TRUE]
      [] kind = "pop"      -> [s EXCEPT !.files = @ \cup {"changed"}, !.stashes = FALSE]
      [] kind = "checkout" -> [s EXCEPT !.branch = "topic"]
      [] OTHER -> s

Reads(kind) == kind \in {"log", "generate"}

\* Its turn has come: no earlier request of the repository is unanswered.
IsNext(i) ==
    /\ gt.jobs[i].phase = "out"
    /\ Reads(gt.jobs[i].kind) \/ \A j \in 1 .. i - 1 :
           gt.jobs[j].phase # "out" \/ gt.jobs[j].repo # gt.jobs[i].repo \/ gt.jobs[j].kind = "log"

\* A request about every repository, or about one that is still there.
Here(r) == r \in GitRepos => IsListed(gtsrv.repos, r)

ServerActs ==
    \E i \in DOMAIN gt.jobs :
        LET j == gt.jobs[i]
            all == j.kind = "pullAll"
        IN  /\ IsNext(i) /\ Here(j.repo)
            /\ gtsrv' = [repos |-> [r \in GitRepos |->
                                       IF (all /\ r \notin Held) \/ r = j.repo
                                       THEN Done(IF all THEN "pull" ELSE j.kind, gtsrv.repos[r])
                                       ELSE gtsrv.repos[r]],
                         at |-> IF Reads(j.kind) THEN gtsrv.at ELSE gtsrv.at + 1]
            /\ gt' = [gt EXCEPT !.jobs[i].phase = "ok", !.jobs[i].at = gtsrv'.at]
            /\ UNCHANGED <<gtst, gtleft>>

ServerRefuses ==
    \E i \in DOMAIN gt.jobs :
        /\ IsNext(i)
        /\ IF Here(gt.jobs[i].repo) THEN Allows("fails") ELSE UNCHANGED gtleft
        /\ gt' = [gt EXCEPT !.jobs[i].phase = "fail"]
        /\ UNCHANGED <<gtsrv, gtst>>

\* A request's answer.  Text goes to the box it was asked from, when that box is still the one drawn.
Answered(g, j) ==
    CASE j.kind = "commit"   -> [g EXCEPT !.box[j.repo] = IF j.own THEN "" ELSE @, !.msgs[j.repo] = ""]
      [] j.kind = "generate" -> [g EXCEPT !.box[j.repo] = IF j.own THEN "ai" ELSE @, !.msgs[j.repo] = "ai"]
      [] j.kind = "push"     -> [g EXCEPT !.pushed = @ \cup {j.repo}]
      [] j.kind = "checkout" -> [g EXCEPT !.pop = Nothing]
      [] j.kind = "pullAll"  -> [g EXCEPT !.flags = {r \in Held : g.known[r].behind}]
      [] j.kind = "log"      -> [g EXCEPT !.drawn[j.repo].recent = IF j.own THEN "shown" ELSE @]
      [] OTHER -> g

Refused(g, j) ==
    CASE j.kind = "checkout" -> [g EXCEPT !.pop = Nothing, !.drawn[j.repo].branch = IF j.own THEN j.said ELSE @]
      [] j.kind = "log"      -> [g EXCEPT !.drawn[j.repo].recent = IF j.own THEN "failed" ELSE @]
      [] OTHER -> g

AnswerArrives ==
    \E i \in DOMAIN gt.jobs :
        LET j == gt.jobs[i]
            g == [gt EXCEPT !.jobs = RemoveAt(@, i), !.last = <<"answer", j.repo>>,
                            !.asking = IF j.kind = "discard" THEN @ \ {j.repo} ELSE @]
        IN  /\ j.phase \in {"ok", "fail"}
            /\ gt' = IF j.phase = "fail" THEN Refused(g, j)
                     ELSE IF Reads(j.kind) THEN Answered(g, j)
                     ELSE [RefreshChanges(Answered(g, j)) EXCEPT !.heard = IF j.at > @ THEN j.at ELSE @]
            /\ UNCHANGED <<gtsrv, gtst, gtleft>>

\* RECENTLY_PUSHED_TTL_MS after a push.
PushedExpires ==
    \E r \in gt.pushed :
        /\ gt' = Paint([gt EXCEPT !.pushed = @ \ {r}, !.last = Other])
        /\ UNCHANGED <<gtsrv, gtst, gtleft>>

\* The agent edits, a teammate pushes, a clone comes or goes.
WorkspaceChanges ==
    \E r \in GitRepos :
        /\ Allows("edits")
        /\ \E s \in {[gtsrv.repos[r] EXCEPT !.files = @ \cup {"changed"}],
                     [gtsrv.repos[r] EXCEPT !.files = @ \cup {"new"}],
                     [gtsrv.repos[r] EXCEPT !.behind = TRUE], Gone,
                     [Gone EXCEPT !.branch = "main"], [Gone EXCEPT !.is = TRUE, !.branch = "main"]} :
               /\ s # gtsrv.repos[r]
               /\ s.is \/ (s.files = {} /\ ~s.behind)
               /\ gtsrv' = [gtsrv EXCEPT !.repos[r] = s]
        /\ UNCHANGED <<gt, gtst>>

-----------------------------------------------------------------------------
(* The status store the tree, the editor and the badge read. *)

\* A refresh joins the read that is out; a failed one publishes nothing at all.
RefreshGitStatus ==
    /\ Allows("stores")
    /\ gtst' = [gtst EXCEPT !.out = TRUE, !.started = TRUE]
    /\ UNCHANGED <<gt, gtsrv>>

\* The worst letter under a directory.
StatusUnder(files) ==
    IF "changed" \in files THEN "M" ELSE IF "staged" \in files THEN "A" ELSE IF files # {} THEN "?" ELSE ""

RebuildIndex(list) == [r \in GitRepos |-> IF list[r].is THEN StatusUnder(list[r].files) ELSE ""]

\* A failing forge outranks the repositories with local changes.
DeriveState(list, bad) ==
    IF bad THEN "error"
    ELSE IF \E r \in GitRepos : list[r].is /\ (list[r].files # {} \/ list[r].ahead) THEN "dirty" ELSE Nothing

StoreAnswered ==
    /\ gtst.out
    /\ \E ok \in BOOLEAN :
           /\ IF ok THEN UNCHANGED gtleft ELSE Allows("fails")
           /\ LET list == IF ok THEN gtsrv.repos ELSE [r \in GitRepos |-> Gone]
              IN  gtst' = [gtst EXCEPT !.out = FALSE, !.letters = RebuildIndex(list), !.list = list,
                                       !.badge = DeriveState(list, gtst.bad)]
    /\ UNCHANGED <<gt, gtsrv>>

OnForgeChange ==
    /\ Allows("stores")
    /\ gtst' = [gtst EXCEPT !.bad = ~@, !.badge = DeriveState(gtst.list, ~gtst.bad)]
    /\ UNCHANGED <<gt, gtsrv>>

-----------------------------------------------------------------------------
GitInit ==
    /\ gtsrv = [repos |-> [r \in GitRepos |-> [is |-> TRUE, files |-> {"staged"}, ahead |-> r \notin Held,
                                               behind |-> r \in Held, stashes |-> FALSE, branch |-> "main"]],
                at |-> 0]
    /\ gt = RefreshChanges(
              [known |-> [r \in GitRepos |-> Gone], seen |-> 0, heard |-> 0, answered |-> FALSE, failed |-> FALSE,
               kind |-> "blank", drawn |-> [r \in GitRepos |-> NoSection], box |-> [r \in GitRepos |-> ""],
               msgs |-> [r \in GitRepos |-> ""], focus |-> Nothing, deferred |-> FALSE, flags |-> {}, pushed |-> {},
               collapsed |-> {}, expanded |-> {}, filter |-> "", asking |-> {}, pop |-> Nothing,
               jobs |-> <<>>, reads |-> {}, last |-> Other])
    /\ gtst = [list |-> [r \in GitRepos |-> Gone], letters |-> [r \in GitRepos |-> ""], badge |-> Nothing,
               bad |-> FALSE, out |-> FALSE, started |-> FALSE]
    /\ gtleft \in GitScenarios

GitNext ==
    \/ ServerAnswersRead \/ ReadArrives \/ ReadFails \/ GitChangesSkeleton \/ Refreshes
    \/ Clicks \/ ConfirmDialog \/ RunPullAll \/ Types \/ LeavesBox \/ ToggleSection \/ ChangesFind
    \/ RenderRecentCommits \/ OpenBranchSwitcher \/ DoCheckout
    \/ ServerActs \/ ServerRefuses \/ AnswerArrives \/ PushedExpires \/ WorkspaceChanges
    \/ RefreshGitStatus \/ StoreAnswered \/ OnForgeChange

GitSpec == GitInit /\ [][GitNext]_gtvars

-----------------------------------------------------------------------------
\* Once nothing is out and the last read did not fail, the pane shows the list as it was after
\* the last request the reader was told had worked: a read from before it never has the last word.
ShownAfterActing ==
    (gt.reads = {} /\ ~gt.failed) => gt.seen >= gt.heard

Text(g, r) == IF HasBox(g, r) THEN g.box[r] ELSE g.msgs[r]

\* What one step may do to what the boxes say.
KeepsMessage ==
    \A r \in GitRepos :
        \/ Text(gt, r) \in {"", Text(gt', r)}
        \/ gt'.last \in {<<"type", r>>, <<"answer", r>>}
        \/ gt'.last[1] = "error" \/ ~IsListed(gt'.known, r)

\* A commit message leaves its box only for one the reader typed or asked for, by a commit that was
\* answered, or with its repository; the error that replaces the whole pane is the exception.
MessageKept == [][KeepsMessage]_gtvars
=============================================================================
