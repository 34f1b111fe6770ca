------------------------- MODULE ClientPanesProofs -------------------------
(***************************************************************************)
(* Four panes that ask for their list again and again, and paint while     *)
(* answers are out: the changes pane (ClientGit), the pull requests        *)
(* (ClientPulls), the server settings (ClientMcp) and the forges panel     *)
(* (ClientForges).  A read from before an act never has the last word, the *)
(* panel never goes back to an older list, and what the reader wrote or    *)
(* saw is what is kept and sent, for any repositories, servers, accounts   *)
(* and scenario.                                                           *)
(***************************************************************************)
EXTENDS ClientGit, ClientMcp, ClientForges, ClientPulls, SequenceTheorems, TLAPS

----------------------------------------------------------------------------
(* The changes pane.  One of its reads at most is live, and what that one  *)
(* has brought, or will, is no older than the last request the reader was  *)
(* told had worked; with none live and none failed the list on show is.    *)

\* A record, as far as it matters which fields it has.
Has(x, fields) == x = [k \in fields |-> x[k]]

GitFields == {"known", "seen", "heard", "answered", "failed", "kind", "drawn", "box", "msgs", "focus",
              "deferred", "flags", "pushed", "collapsed", "expanded", "filter", "asking", "pop",
              "jobs", "reads", "last"}

JobFields == {"repo", "kind", "phase", "own", "said", "at"}

\* No request worked later than the server's last change.
JobFits(j, at) == Has(j, JobFields) /\ j.at \in Nat /\ j.at <= at

JobsFit(jobs, at) == \E S : jobs \in Seq(S) /\ \A j \in S : JobFits(j, at)

ReadFits(rd, heard) ==
    /\ Has(rd, {"live", "got"}) /\ rd.live \in BOOLEAN
    /\ rd.got # <<>> => rd.got[2] \in Nat
    /\ rd.live /\ rd.got # <<>> => heard <= rd.got[2]

Fresh(f, at) ==
    /\ Has(f, GitFields) /\ f.seen \in Nat /\ f.heard \in Nat /\ f.failed \in BOOLEAN
    /\ JobsFit(f.jobs, at)
    /\ f.heard <= at
    /\ \A rd \in f.reads : ReadFits(rd, f.heard)
    /\ \A rd, qd \in f.reads : rd.live /\ qd.live => rd = qd
    /\ (\A rd \in f.reads : ~rd.live) /\ ~f.failed => f.heard <= f.seen

\* Nothing of the tab but what the invariant is about matters.
Alike(f, g) ==
    /\ Has(g, GitFields)
    /\ g.reads = f.reads /\ g.seen = f.seen /\ g.heard = f.heard /\ g.failed = f.failed
    /\ \A at : JobsFit(f.jobs, at) => JobsFit(g.jobs, at)

\* A tab alike in that is as fresh.
LEMMA AlikeIsFresh ==
  ASSUME NEW f, NEW g, NEW at, Fresh(f, at), Alike(f, g)
  PROVE  Fresh(g, at)
BY DEF Fresh, Alike

\* One likeness after the other.
LEMMA AlikeAgain ==
  ASSUME NEW f, NEW g, NEW h, Alike(f, g), Alike(g, h)
  PROVE  Alike(f, h)
BY DEF Alike

----------------------------------------------------------------------------
\* The requests out.

\* A request sent is one more of them.
LEMMA JobsAppend ==
  ASSUME NEW jobs, NEW at, JobsFit(jobs, at), NEW j, JobFits(j, at)
  PROVE  JobsFit(Append(jobs, j), at)
<1>1. PICK S : jobs \in Seq(S) /\ \A i \in S : JobFits(i, at)
  BY DEF JobsFit
<1>2. Append(jobs, j) \in Seq(S \cup {j})
  BY <1>1
<1>3. QED
  BY <1>1, <1>2 DEF JobsFit

\* A request that has come back leaves the others as they were.
LEMMA JobsRemove ==
  ASSUME NEW jobs, NEW at, JobsFit(jobs, at), NEW i \in DOMAIN jobs
  PROVE  JobsFit(RemoveAt(jobs, i), at)
<1>1. PICK S : jobs \in Seq(S) /\ \A j \in S : JobFits(j, at)
  BY DEF JobsFit
<1>2. i \in 1..Len(jobs) /\ Len(jobs) \in Nat
  BY <1>1
<1>3. SubSeq(jobs, 1, i - 1) \in Seq(S) /\ SubSeq(jobs, i + 1, Len(jobs)) \in Seq(S)
  BY <1>1, <1>2
<1>4. RemoveAt(jobs, i) \in Seq(S)
  BY <1>3 DEF RemoveAt
<1>5. QED
  BY <1>1, <1>4 DEF JobsFit

\* A request that moves on stays in its place among the others.
LEMMA JobsChange ==
  ASSUME NEW jobs, NEW at, JobsFit(jobs, at), NEW i \in DOMAIN jobs, NEW j, JobFits(j, at)
  PROVE  JobsFit([jobs EXCEPT ![i] = j], at)
<1>1. PICK S : jobs \in Seq(S) /\ \A k \in S : JobFits(k, at)
  BY DEF JobsFit
<1>2. [jobs EXCEPT ![i] = j] \in Seq(S \cup {j})
  BY <1>1
<1>3. QED
  BY <1>1, <1>2 DEF JobsFit

\* Each request out is a well-formed one.
LEMMA JobIsOne ==
  ASSUME NEW jobs, NEW at, JobsFit(jobs, at), NEW i \in DOMAIN jobs
  PROVE  JobFits(jobs[i], at)
BY DEF JobsFit

\* Taking a button from a request leaves what it was about.
LEMMA JobsDisowned ==
  ASSUME NEW jobs, NEW at, JobsFit(jobs, at)
  PROVE  JobsFit(Disowned(jobs), at)
<1>1. PICK S : jobs \in Seq(S) /\ \A j \in S : JobFits(j, at)
  BY DEF JobsFit
<1> DEFINE T == {[j EXCEPT !.own = FALSE] : j \in S}
<1>2. \A j \in S : JobFits([j EXCEPT !.own = FALSE], at)
  BY <1>1 DEF JobFits, Has, JobFields
<1>3. Disowned(jobs) \in Seq(T)
  <2>1. DOMAIN jobs = 1..Len(jobs) /\ Len(jobs) \in Nat /\ \A i \in 1..Len(jobs) : jobs[i] \in S
    BY <1>1
  <2>2. Disowned(jobs) \in [1..Len(jobs) -> T]
    BY <2>1 DEF Disowned
  <2>3. QED
    BY <2>1, <2>2, SeqDef
<1>4. QED
  BY <1>2, <1>3 DEF JobsFit

\* Later is no worse.
LEMMA JobsLater ==
  ASSUME NEW jobs, NEW at \in Nat, NEW bt \in Nat, at <= bt, JobsFit(jobs, at)
  PROVE  JobsFit(jobs, bt)
<1>1. PICK S : jobs \in Seq(S) /\ \A j \in S : JobFits(j, at)
  BY DEF JobsFit
<1>2. \A j \in S : JobFits(j, bt)
  BY <1>1 DEF JobFits
<1>3. QED
  BY <1>1, <1>2 DEF JobsFit

----------------------------------------------------------------------------
\* What paints and answers leave alone.

\* A field nothing of the invariant reads may take any value.
LEMMA Elsewhere ==
  ASSUME NEW f, Has(f, GitFields), NEW v,
         NEW k \in GitFields \ {"seen", "heard", "failed", "jobs", "reads"}
  PROVE  Alike(f, [f EXCEPT ![k] = v])
BY DEF Alike, Has, GitFields

\* Drawing the pane (paintInner) starts no read and tells of no request:
\* it changes what is drawn and which buttons the requests own.
LEMMA PaintInnerIsAlike ==
  ASSUME NEW f, Has(f, GitFields)
  PROVE  Alike(f, PaintInner(f))
<1> DEFINE active == {r \in GitRepos : IsListed(f.known, r)}
           one == [f EXCEPT !.deferred = FALSE, !.msgs = Harvest(f), !.jobs = Disowned(f.jobs),
                            !.collapsed = f.collapsed \cap active, !.expanded = f.expanded \cap active,
                            !.flags = {r \in f.flags \cap active : f.known[r].behind}]
           g == PaintInner(f)
<1>1. PICK kind, drawn : g = [one EXCEPT !.kind = kind, !.drawn = drawn, !.box = one.msgs]
  BY Zenon DEF PaintInner
<1>2. Has(one, GitFields) /\ one.jobs = Disowned(f.jobs)
  BY DEF Has, GitFields
<1>3. one.reads = f.reads /\ one.seen = f.seen /\ one.heard = f.heard /\ one.failed = f.failed
  BY DEF Has, GitFields
<1> HIDE DEF one, g
<1>4. Has(g, GitFields) /\ g.jobs = one.jobs
  BY <1>1, <1>2 DEF Has, GitFields
<1>5. g.reads = one.reads /\ g.seen = one.seen /\ g.heard = one.heard /\ g.failed = one.failed
  BY <1>1, <1>2 DEF Has, GitFields
<1> HIDE DEF g
<1>6. Alike(f, g)
  BY <1>2, <1>3, <1>4, <1>5, JobsDisowned DEF Alike
<1>7. QED
  BY <1>6 DEF g

\* Drawing while a draw is under way is put off, and otherwise it is paintInner.
LEMMA PaintIsAlike ==
  ASSUME NEW f, Has(f, GitFields)
  PROVE  Alike(f, Paint(f))
<1>1. Alike(f, [f EXCEPT !.deferred = TRUE])
  BY DEF Alike, Has, GitFields
<1>2. QED
  BY <1>1, PaintInnerIsAlike DEF Paint

\* Drawing the error in the place of the pane leaves the reads alone as well.
LEMMA PaintErrorIsAlike ==
  ASSUME NEW f, Has(f, GitFields)
  PROVE  Alike(f, PaintError(f))
<1> DEFINE g == PaintError(f)
<1>1. Has(g, GitFields) /\ g.jobs = Disowned(f.jobs)
  BY DEF PaintError, Has, GitFields
<1>2. g.reads = f.reads /\ g.seen = f.seen /\ g.heard = f.heard /\ g.failed = f.failed
  BY DEF PaintError, Has, GitFields
<1> HIDE DEF g
<1>3. Alike(f, g)
  BY <1>1, <1>2, JobsDisowned DEF Alike
<1>4. QED
  BY <1>3 DEF g

\* A new read makes the ones before it old.
LEMMA RefreshIsFresh ==
  ASSUME NEW f, NEW at, Fresh(f, at), NEW heard \in Nat, heard <= at
  PROVE  Fresh([RefreshChanges(f) EXCEPT !.heard = heard], at)
<1> DEFINE old == {[rd EXCEPT !.live = FALSE] : rd \in f.reads}
           new == [live |-> TRUE, got |-> <<>>]
           g == [RefreshChanges(f) EXCEPT !.heard = heard]
<1>1. Has(f, GitFields) /\ JobsFit(f.jobs, at)
  BY DEF Fresh
<1>2. /\ Has(g, GitFields) /\ g.reads = old \cup {new} /\ g.heard = heard
      /\ g.seen = f.seen /\ g.failed = f.failed /\ g.jobs = f.jobs
  BY <1>1 DEF RefreshChanges, Has, GitFields
<1>3. \A rd \in old : rd.live = FALSE /\ ReadFits(rd, heard)
  <2> TAKE rd \in old
  <2>1. PICK qd \in f.reads : rd = [qd EXCEPT !.live = FALSE]
    OBVIOUS
  <2>2. Has(qd, {"live", "got"}) /\ (qd.got # <<>> => qd.got[2] \in Nat)
    BY DEF Fresh, ReadFits
  <2>3. Has(rd, {"live", "got"}) /\ rd.live = FALSE /\ rd.got = qd.got
    BY <2>1, <2>2 DEF Has
  <2>4. QED
    BY <2>2, <2>3 DEF ReadFits
<1>4. ReadFits(new, heard) /\ new.live = TRUE
  BY DEF ReadFits, Has
<1> HIDE DEF old, new, g
<1>5. Fresh(g, at)
  BY <1>1, <1>2, <1>3, <1>4 DEF Fresh
<1>6. QED
  BY <1>5 DEF g

\* Buttons and boxes.
LEMMA AnswersAreAlike ==
  ASSUME NEW f, Has(f, GitFields), NEW j
  PROVE  Alike(f, Answered(f, j)) /\ Alike(f, Refused(f, j))
<1>1. ASSUME NEW box, NEW msgs PROVE Alike(f, [f EXCEPT !.box[j.repo] = box, !.msgs[j.repo] = msgs])
  BY DEF Alike, Has, GitFields
<1>2. ASSUME NEW pushed PROVE Alike(f, [f EXCEPT !.pushed = pushed])
  BY DEF Alike, Has, GitFields
<1>3. Alike(f, [f EXCEPT !.pop = Nothing])
  BY DEF Alike, Has, GitFields
<1>4. ASSUME NEW flags PROVE Alike(f, [f EXCEPT !.flags = flags])
  BY DEF Alike, Has, GitFields
<1>5. ASSUME NEW recent PROVE Alike(f, [f EXCEPT !.drawn[j.repo].recent = recent])
  BY DEF Alike, Has, GitFields
<1>6. ASSUME NEW branch PROVE Alike(f, [f EXCEPT !.pop = Nothing, !.drawn[j.repo].branch = branch])
  BY DEF Alike, Has, GitFields
<1>7. Alike(f, f)
  BY DEF Alike
<1>8. Alike(f, Answered(f, j))
  <2>1. CASE j.kind = "commit"
    <3> DEFINE box == IF j.own THEN "" ELSE f.box[j.repo]
    <3>1. Answered(f, j) = [f EXCEPT !.box[j.repo] = box, !.msgs[j.repo] = ""]
      BY <2>1 DEF Answered
    <3> HIDE DEF box
    <3>2. Alike(f, [f EXCEPT !.box[j.repo] = box, !.msgs[j.repo] = ""])
      BY <1>1
    <3>3. QED
      BY <3>1, <3>2
  <2>2. CASE j.kind = "generate"
    <3> DEFINE box == IF j.own THEN "ai" ELSE f.box[j.repo]
    <3>1. Answered(f, j) = [f EXCEPT !.box[j.repo] = box, !.msgs[j.repo] = "ai"]
      BY <2>2 DEF Answered
    <3> HIDE DEF box
    <3>2. Alike(f, [f EXCEPT !.box[j.repo] = box, !.msgs[j.repo] = "ai"])
      BY <1>1
    <3>3. QED
      BY <3>1, <3>2
  <2>3. CASE j.kind = "push"
    BY <2>3, <1>2 DEF Answered
  <2>4. CASE j.kind = "checkout"
    BY <2>4, <1>3 DEF Answered
  <2>5. CASE j.kind = "pullAll"
    BY <2>5, <1>4 DEF Answered
  <2>6. CASE j.kind = "log"
    <3>1. Answered(f, j) = [f EXCEPT !.drawn[j.repo].recent = IF j.own THEN "shown" ELSE @]
      BY <2>6 DEF Answered
    <3>2. QED
      BY <1>5, <3>1
  <2>7. CASE j.kind \notin {"commit", "generate", "push", "checkout", "pullAll", "log"}
    BY <2>7, <1>7 DEF Answered
  <2>8. QED
    BY <2>1, <2>2, <2>3, <2>4, <2>5, <2>6, <2>7
<1>9. Alike(f, Refused(f, j))
  <2>1. CASE j.kind = "checkout"
    <3>1. Refused(f, j) = [f EXCEPT !.pop = Nothing, !.drawn[j.repo].branch = IF j.own
                           THEN j.said ELSE @]
      BY <2>1 DEF Refused
    <3>2. QED
      BY <1>6, <3>1
  <2>2. CASE j.kind = "log"
    <3>1. Refused(f, j) = [f EXCEPT !.drawn[j.repo].recent = IF j.own THEN "failed" ELSE @]
      BY <2>2 DEF Refused
    <3>2. QED
      BY <1>5, <3>1
  <2>3. CASE j.kind \notin {"checkout", "log"}
    BY <2>3, <1>7 DEF Refused
  <2>4. QED
    BY <2>1, <2>2, <2>3
<1>10. QED
  BY <1>8, <1>9

----------------------------------------------------------------------------
\* The steps.

ServerFits(s) == Has(s, {"repos", "at"}) /\ s.at \in Nat

GitInv == ServerFits(gtsrv) /\ Fresh(gt, gtsrv.at)

\* A step of the tab, and one of the server with the tab as fresh.
LEMMA TabStep ==
  ASSUME GitInv, Fresh(gt', gtsrv.at), UNCHANGED gtsrv
  PROVE  GitInv'
BY DEF GitInv

\* A read is answered with the list there is.
LEMMA AnswersReadStep ==
  ASSUME GitInv, ServerAnswersRead
  PROVE  GitInv'
<1>1. PICK rd \in gt.reads : /\ rd.got = <<>> /\ UNCHANGED gtsrv
                             /\ gt' = [gt EXCEPT !.reads = (@ \ {rd}) \cup
                                         {[rd EXCEPT !.got = <<gtsrv.repos, gtsrv.at>>]}]
  BY DEF ServerAnswersRead
<1> DEFINE qd == [rd EXCEPT !.got = <<gtsrv.repos, gtsrv.at>>]
           g == gt'
<1>2. Fresh(gt, gtsrv.at) /\ gtsrv.at \in Nat /\ Has(gt, GitFields) /\ ReadFits(rd, gt.heard)
  BY DEF GitInv, ServerFits, Fresh
<1>3. Has(qd, {"live", "got"}) /\ qd.live = rd.live /\ qd.got = <<gtsrv.repos, gtsrv.at>>
  BY <1>2 DEF ReadFits, Has
<1>4. ReadFits(qd, gt.heard)
  BY <1>2, <1>3 DEF ReadFits, Fresh
<1>5. gt' = [gt EXCEPT !.reads = (gt.reads \ {rd}) \cup {qd}]
  BY <1>1
<1> HIDE DEF qd
<1>6. /\ Has(g, GitFields) /\ g.reads = (gt.reads \ {rd}) \cup {qd}
      /\ g.seen = gt.seen /\ g.heard = gt.heard /\ g.failed = gt.failed /\ g.jobs = gt.jobs
  BY <1>2, <1>5 DEF Has, GitFields
<1> HIDE DEF g
<1>7. \A ad, bd \in g.reads : ad.live /\ bd.live => ad = bd
  BY <1>2, <1>3, <1>6 DEF Fresh
<1>8. (\A ad \in g.reads : ~ad.live) => \A ad \in gt.reads : ~ad.live
  BY <1>3, <1>6
<1>9. Fresh(g, gtsrv.at)
  BY <1>2, <1>4, <1>6, <1>7, <1>8 DEF Fresh
<1>10. QED
  BY <1>1, <1>9, TabStep DEF g

\* A read arrives: an old one is not heard, the live one is what there is to show.
LEMMA ArrivesStep ==
  ASSUME GitInv, ReadArrives
  PROVE  GitInv'
<1>1. PICK rd \in gt.reads :
         /\ rd.got # <<>> /\ UNCHANGED gtsrv
         /\ LET g == [gt EXCEPT !.reads = @ \ {rd}, !.last = Other]
            IN  gt' = IF Outdated(rd) THEN [g EXCEPT !.kind = IF @ = "skeleton" THEN "blank" ELSE @]
                      ELSE Paint([g EXCEPT !.known = rd.got[1], !.seen = rd.got[2], !.answered = TRUE,
                                              !.failed = FALSE])
  BY DEF ReadArrives
<1> DEFINE g == [gt EXCEPT !.reads = @ \ {rd}, !.last = Other]
           up == [g EXCEPT !.known = rd.got[1], !.seen = rd.got[2], !.answered = TRUE, !.failed = FALSE]
<1>2. Fresh(gt, gtsrv.at) /\ gtsrv.at \in Nat /\ Has(gt, GitFields) /\ ReadFits(rd, gt.heard)
  BY DEF GitInv, ServerFits, Fresh
<1>3. /\ Has(g, GitFields) /\ g.reads = gt.reads \ {rd}
      /\ g.seen = gt.seen /\ g.heard = gt.heard /\ g.failed = gt.failed /\ g.jobs = gt.jobs
  BY <1>2 DEF Has, GitFields
<1>4. CASE ~rd.live
  <2>1. gt' = [g EXCEPT !.kind = IF g.kind = "skeleton" THEN "blank" ELSE g.kind]
    BY <1>1, <1>4 DEF Outdated
  <2> HIDE DEF g
  <2>2. Fresh(g, gtsrv.at)
    BY <1>2, <1>3, <1>4 DEF Fresh
  <2>3. Alike(g, gt')
    BY <1>3, <2>1 DEF Alike, Has, GitFields
  <2>4. QED
    BY <1>1, <2>2, <2>3, AlikeIsFresh, TabStep
<1>5. CASE rd.live
  <2>1. gt' = Paint(up)
    BY <1>1, <1>5 DEF Outdated
  <2> HIDE DEF g
  <2>2. /\ Has(up, GitFields) /\ up.reads = gt.reads \ {rd}
        /\ up.seen = rd.got[2] /\ up.heard = gt.heard /\ up.failed = FALSE /\ up.jobs = gt.jobs
    BY <1>3 DEF Has, GitFields
  <2> HIDE DEF up
  <2>3. rd.got[2] \in Nat /\ gt.heard <= rd.got[2]
    BY <1>1, <1>2, <1>5 DEF ReadFits
  <2>4. Fresh(up, gtsrv.at)
    BY <1>2, <2>2, <2>3 DEF Fresh
  <2>5. Alike(up, gt')
    BY <2>1, <2>2, PaintIsAlike
  <2>6. QED
    BY <1>1, <2>4, <2>5, AlikeIsFresh, TabStep
<1>6. QED
  BY <1>4, <1>5

\* A live read that fails leaves an error, an old one nothing.
LEMMA FailsStep ==
  ASSUME GitInv, ReadFails
  PROVE  GitInv'
<1>1. PICK rd \in gt.reads :
         /\ UNCHANGED gtsrv
         /\ LET g == [gt EXCEPT !.reads = @ \ {rd}, !.last = <<"error", Nothing>>]
            IN  gt' = IF rd.live THEN PaintError([g EXCEPT !.failed = TRUE])
                      ELSE [g EXCEPT !.kind = IF @ = "skeleton" THEN "blank" ELSE @]
  BY DEF ReadFails
<1> DEFINE g == [gt EXCEPT !.reads = @ \ {rd}, !.last = <<"error", Nothing>>]
           down == [g EXCEPT !.failed = TRUE]
<1>2. Fresh(gt, gtsrv.at) /\ gtsrv.at \in Nat /\ Has(gt, GitFields) /\ ReadFits(rd, gt.heard)
  BY DEF GitInv, ServerFits, Fresh
<1>3. /\ Has(g, GitFields) /\ g.reads = gt.reads \ {rd}
      /\ g.seen = gt.seen /\ g.heard = gt.heard /\ g.failed = gt.failed /\ g.jobs = gt.jobs
  BY <1>2 DEF Has, GitFields
<1>4. CASE ~rd.live
  <2>1. gt' = [g EXCEPT !.kind = IF g.kind = "skeleton" THEN "blank" ELSE g.kind]
    BY <1>1, <1>4
  <2> HIDE DEF g
  <2>2. Fresh(g, gtsrv.at)
    BY <1>2, <1>3, <1>4 DEF Fresh
  <2>3. Alike(g, gt')
    BY <1>3, <2>1 DEF Alike, Has, GitFields
  <2>4. QED
    BY <1>1, <2>2, <2>3, AlikeIsFresh, TabStep
<1>5. CASE rd.live
  <2>1. gt' = PaintError(down)
    BY <1>1, <1>5
  <2> HIDE DEF g
  <2>2. /\ Has(down, GitFields) /\ down.reads = gt.reads \ {rd} /\ down.seen = gt.seen
        /\ down.heard = gt.heard /\ down.failed = TRUE /\ down.jobs = gt.jobs
    BY <1>3 DEF Has, GitFields
  <2> HIDE DEF down
  <2>3. Fresh(down, gtsrv.at)
    BY <1>2, <2>2 DEF Fresh
  <2>4. Alike(down, gt')
    BY <2>1, <2>2, PaintErrorIsAlike
  <2>5. QED
    BY <1>1, <2>3, <2>4, AlikeIsFresh, TabStep
<1>6. QED
  BY <1>4, <1>5

\* A tab that differs in nothing but its requests and what the invariant does not read.
LEMMA SameButJobs ==
  ASSUME NEW f, NEW g, NEW at, Fresh(f, at), Has(g, GitFields), JobsFit(g.jobs, at),
         g.reads = f.reads, g.seen = f.seen, g.heard = f.heard, g.failed = f.failed
  PROVE  Fresh(g, at)
BY DEF Fresh

\* A request that is made has changed nothing yet.
LEMMA JobMade ==
  ASSUME NEW r, NEW kind, NEW phase, NEW said, NEW at \in Nat
  PROVE  JobFits(Request(r, kind, phase, said), at)
BY DEF Request, JobFits, Has, JobFields

\* A step that leaves what the invariant reads, on either side.
LEMMA AlikeStep ==
  ASSUME GitInv, Alike(gt, gt'), UNCHANGED gtsrv
  PROVE  GitInv'
BY AlikeIsFresh, TabStep DEF GitInv

\* The steps of the view: none touches a read.
LEMMA ViewSteps ==
  ASSUME GitInv,
         \/ GitChangesSkeleton \/ Types \/ LeavesBox \/ ToggleSection
         \/ ChangesFind \/ OpenBranchSwitcher \/ PushedExpires
  PROVE  GitInv'
<1>1. Has(gt, GitFields)
  BY DEF GitInv, Fresh
<1>2. CASE GitChangesSkeleton
  BY <1>1, <1>2, AlikeStep DEF GitChangesSkeleton, Alike, Has, GitFields
<1>3. CASE Types
  <2>1. PICK r, t : gt' = [gt EXCEPT !.focus = r, !.box[r] = t, !.last = <<"type", r>>]
                           /\ UNCHANGED gtsrv
    BY <1>3 DEF Types
  <2>2. Alike(gt, gt')
    BY <1>1, <2>1 DEF Alike, Has, GitFields
  <2>3. QED
    BY <2>1, <2>2, AlikeStep
<1>4. CASE LeavesBox
  <2> DEFINE g == [gt EXCEPT !.focus = Nothing, !.last = Other]
  <2>1. gt' = (IF g.deferred THEN PaintInner(g) ELSE g) /\ UNCHANGED gtsrv
    BY <1>4 DEF LeavesBox
  <2>2. Alike(gt, g) /\ Has(g, GitFields)
    BY <1>1 DEF Alike, Has, GitFields
  <2> HIDE DEF g
  <2>3. Alike(gt, gt')
    BY <2>1, <2>2, PaintInnerIsAlike, AlikeAgain
  <2>4. QED
    BY <2>1, <2>3, AlikeStep
<1>5. CASE ToggleSection
  <2>1. PICK r, expanded, collapsed :
            /\ gt' = [gt EXCEPT !.drawn[r].open = ~@, !.last = Other, !.expanded = expanded,
                                !.collapsed = collapsed]
            /\ UNCHANGED gtsrv
    BY <1>5, Zenon DEF ToggleSection
  <2>2. Alike(gt, gt')
    BY <1>1, <2>1 DEF Alike, Has, GitFields
  <2>3. QED
    BY <2>1, <2>2, AlikeStep
<1>6. CASE ChangesFind
  <2>1. PICK find : /\ gt' = PaintInner([gt EXCEPT !.focus = Nothing, !.filter = find, !.last = Other])
                    /\ UNCHANGED gtsrv
    BY <1>6 DEF ChangesFind
  <2> DEFINE g == [gt EXCEPT !.focus = Nothing, !.filter = find, !.last = Other]
  <2>2. Alike(gt, g) /\ Has(g, GitFields)
    BY <1>1 DEF Alike, Has, GitFields
  <2>3. gt' = PaintInner(g)
    BY <2>1
  <2> HIDE DEF g
  <2>4. Alike(gt, gt')
    BY <2>2, <2>3, PaintInnerIsAlike, AlikeAgain
  <2>5. QED
    BY <2>1, <2>4, AlikeStep
<1>7. CASE OpenBranchSwitcher
  <2>1. PICK pop : gt' = [gt EXCEPT !.pop = pop, !.last = Other] /\ UNCHANGED gtsrv
    BY <1>7 DEF OpenBranchSwitcher
  <2>2. Alike(gt, gt')
    BY <1>1, <2>1 DEF Alike, Has, GitFields
  <2>3. QED
    BY <2>1, <2>2, AlikeStep
<1>8. CASE PushedExpires
  <2>1. PICK pushed : gt' = Paint([gt EXCEPT !.pushed = pushed, !.last = Other]) /\ UNCHANGED gtsrv
    BY <1>8 DEF PushedExpires
  <2> DEFINE g == [gt EXCEPT !.pushed = pushed, !.last = Other]
  <2>2. Alike(gt, g) /\ Has(g, GitFields)
    BY <1>1 DEF Alike, Has, GitFields
  <2>3. gt' = Paint(g)
    BY <2>1
  <2> HIDE DEF g
  <2>4. Alike(gt, gt')
    BY <2>2, <2>3, PaintIsAlike, AlikeAgain
  <2>5. QED
    BY <2>1, <2>4, AlikeStep
<1>9. QED
  BY <1>2, <1>3, <1>4, <1>5, <1>6, <1>7, <1>8

\* The steps that make a request or take one back.
LEMMA RequestSteps ==
  ASSUME GitInv,
         \/ Clicks \/ ConfirmDialog \/ RunPullAll \/ RenderRecentCommits \/ DoCheckout
         \/ ServerRefuses
  PROVE  GitInv'
<1> DEFINE at == gtsrv.at
<1>1. Has(gt, GitFields) /\ JobsFit(gt.jobs, at) /\ Fresh(gt, at) /\ at \in Nat
  BY DEF GitInv, Fresh, ServerFits
<1> HIDE DEF at
<1>2. ASSUME NEW g, Has(g, GitFields), JobsFit(g.jobs, at), gt' = g, UNCHANGED gtsrv,
             g.reads = gt.reads, g.seen = gt.seen, g.heard = gt.heard, g.failed = gt.failed
      PROVE  GitInv'
  BY <1>1, <1>2, SameButJobs, TabStep DEF at
<1>3. \A i \in DOMAIN gt.jobs : \A phase : JobFits([gt.jobs[i] EXCEPT !.phase = phase], at)
  <2> TAKE i \in DOMAIN gt.jobs
  <2> TAKE phase
  <2>1. JobFits(gt.jobs[i], at)
    BY <1>1, JobIsOne
  <2>2. QED
    BY <2>1 DEF JobFits, Has, JobFields
<1>4. \A i \in DOMAIN gt.jobs :
         \A phase : JobsFit([gt.jobs EXCEPT ![i] = [gt.jobs[i] EXCEPT !.phase = phase]], at)
  BY <1>1, <1>3, JobsChange
<1>5. CASE Clicks
  <2> DEFINE out == IF gt.focus = Nothing THEN gt ELSE [gt EXCEPT !.focus = Nothing]
             g == IF out.deferred THEN PaintInner(out) ELSE out
  <2>1. PICK r, kind, phase, said, asking :
          /\ \/ gt' = [g EXCEPT !.jobs = Append(@, Request(r, kind, phase, said)), !.asking = asking,
                                !.last = Other]
             \/ gt' = [g EXCEPT !.jobs = Append(@, Request(r, kind, phase, said)), !.last = Other]
          /\ UNCHANGED gtsrv
    <3>1. PICK r, kind :
            /\ gt' = IF kind = "discard"
                     THEN [g EXCEPT !.jobs = Append(@, Request(r, kind, "confirm", "")),
                                      !.asking = @ \cup {r},
                                    !.last = Other]
                     ELSE [g EXCEPT !.jobs = Append(@, Request(r, kind, "out",
                                                               IF kind = "commit" THEN gt.box[r] ELSE "")),
                                    !.last = Other]
            /\ UNCHANGED gtsrv
      BY <1>5, Zenon DEF Clicks
    <3> HIDE DEF g
    <3>2. QED
      BY <3>1, Zenon
  <2>2. Has(out, GitFields) /\ Alike(gt, out)
    BY <1>1 DEF Alike, Has, GitFields
  <2> HIDE DEF out
  <2>3. Alike(gt, g)
    BY <2>2, PaintInnerIsAlike, AlikeAgain
  <2> HIDE DEF g
  <2>4. /\ Has(g, GitFields) /\ JobsFit(g.jobs, at)
        /\ g.reads = gt.reads /\ g.seen = gt.seen /\ g.heard = gt.heard /\ g.failed = gt.failed
    BY <1>1, <2>3 DEF Alike
  <2> DEFINE jobs == Append(g.jobs, Request(r, kind, phase, said))
  <2>5. JobsFit(jobs, at)
    BY <1>1, <2>4, JobMade, JobsAppend
  <2>6. CASE gt' = [g EXCEPT !.jobs = jobs, !.asking = asking, !.last = Other]
    <3> HIDE DEF jobs
    <3> DEFINE h == [g EXCEPT !.jobs = jobs, !.asking = asking, !.last = Other]
    <3>1. /\ Has(h, GitFields) /\ h.jobs = jobs /\ h.reads = g.reads
          /\ h.seen = g.seen /\ h.heard = g.heard /\ h.failed = g.failed
      BY <2>4 DEF Has, GitFields
    <3> HIDE DEF h
    <3>2. QED
      BY <1>2, <2>1, <2>4, <2>5, <2>6, <3>1 DEF h
  <2>7. CASE gt' = [g EXCEPT !.jobs = jobs, !.last = Other]
    <3> HIDE DEF jobs
    <3> DEFINE h == [g EXCEPT !.jobs = jobs, !.last = Other]
    <3>1. /\ Has(h, GitFields) /\ h.jobs = jobs /\ h.reads = g.reads
          /\ h.seen = g.seen /\ h.heard = g.heard /\ h.failed = g.failed
      BY <2>4 DEF Has, GitFields
    <3> HIDE DEF h
    <3>2. QED
      BY <1>2, <2>1, <2>4, <2>5, <2>7, <3>1 DEF h
  <2>8. QED
    BY <2>1, <2>6, <2>7
<1>6. CASE ConfirmDialog
  <2>1. PICK i \in DOMAIN gt.jobs :
          /\ \/ gt' = [gt EXCEPT !.jobs[i].phase = "out"]
             \/ gt' = [gt EXCEPT !.jobs = RemoveAt(@, i), !.asking = @ \ {gt.jobs[i].repo}]
          /\ UNCHANGED gtsrv
    <3>1. PICK i \in DOMAIN gt.jobs : \E ok \in BOOLEAN :
            /\ gt' = IF ok THEN [gt EXCEPT !.jobs[i].phase = "out"]
                     ELSE [gt EXCEPT !.jobs = RemoveAt(@, i), !.asking = @ \ {gt.jobs[i].repo}]
            /\ UNCHANGED gtsrv
      BY <1>6, Zenon DEF ConfirmDialog, RemoveAt
    <3>2. QED
      BY <3>1
  <2>2. CASE gt' = [gt EXCEPT !.jobs[i].phase = "out"]
    <3> DEFINE jobs == [gt.jobs EXCEPT ![i] = [gt.jobs[i] EXCEPT !.phase = "out"]]
               h == [gt EXCEPT !.jobs = jobs]
    <3>1. gt' = h
      BY <2>2
    <3>2. JobsFit(jobs, at)
      BY <1>4
    <3> HIDE DEF jobs
    <3>3. /\ Has(h, GitFields) /\ h.jobs = jobs /\ h.reads = gt.reads
          /\ h.seen = gt.seen /\ h.heard = gt.heard /\ h.failed = gt.failed
      BY <1>1 DEF Has, GitFields
    <3> HIDE DEF h
    <3>4. QED
      BY <1>2, <2>1, <3>1, <3>2, <3>3
  <2>3. CASE gt' = [gt EXCEPT !.jobs = RemoveAt(@, i), !.asking = @ \ {gt.jobs[i].repo}]
    <3> DEFINE jobs == RemoveAt(gt.jobs, i)
               h == [gt EXCEPT !.jobs = jobs, !.asking = @ \ {gt.jobs[i].repo}]
    <3>1. gt' = h
      BY <2>3
    <3>2. JobsFit(jobs, at)
      BY <1>1, JobsRemove
    <3> HIDE DEF jobs
    <3>3. /\ Has(h, GitFields) /\ h.jobs = jobs /\ h.reads = gt.reads
          /\ h.seen = gt.seen /\ h.heard = gt.heard /\ h.failed = gt.failed
      BY <1>1 DEF Has, GitFields
    <3> HIDE DEF h
    <3>4. QED
      BY <1>2, <2>1, <3>1, <3>2, <3>3
  <2>4. QED
    BY <2>1, <2>2, <2>3
<1>7. CASE RunPullAll \/ RenderRecentCommits \/ DoCheckout
  <2>1. ASSUME NEW j, JobFits(j, at), NEW drawn, UNCHANGED gtsrv,
               \/ gt' = [gt EXCEPT !.jobs = Append(gt.jobs, j), !.last = Other]
               \/ gt' = [gt EXCEPT !.drawn = drawn, !.jobs = Append(gt.jobs, j), !.last = Other]
        PROVE  GitInv'
    <3> DEFINE jobs == Append(gt.jobs, j)
    <3>1. JobsFit(jobs, at)
      BY <1>1, <2>1, JobsAppend
    <3>2. \/ gt' = [gt EXCEPT !.jobs = jobs, !.last = Other]
          \/ gt' = [gt EXCEPT !.drawn = drawn, !.jobs = jobs, !.last = Other]
      BY <2>1
    <3> HIDE DEF jobs
    <3>3. /\ Has(gt', GitFields) /\ gt'.jobs = jobs /\ gt'.reads = gt.reads
          /\ gt'.seen = gt.seen /\ gt'.heard = gt.heard /\ gt'.failed = gt.failed
      BY <1>1, <3>2 DEF Has, GitFields
    <3>4. QED
      BY <1>2, <2>1, <3>1, <3>3
  <2>2. CASE RunPullAll
    <3> DEFINE j == Request(Nothing, "pullAll", "out", "")
    <3>1. gt' = [gt EXCEPT !.jobs = Append(gt.jobs, j), !.last = Other] /\ UNCHANGED gtsrv
      BY <2>2 DEF RunPullAll
    <3>2. JobFits(j, at)
      BY <1>1, JobMade
    <3> HIDE DEF j
    <3>3. QED
      BY <2>1, <3>1, <3>2
  <2>3. CASE RenderRecentCommits
    <3>1. PICK r \in GitRepos :
            /\ gt' = [gt EXCEPT !.drawn[r].recent = "loading",
                                !.jobs = Append(@, Request(r, "log", "out", "")), !.last = Other]
            /\ UNCHANGED gtsrv
      BY <2>3 DEF RenderRecentCommits
    <3> DEFINE drawn == [gt.drawn EXCEPT ![r] = [gt.drawn[r] EXCEPT !.recent = "loading"]]
               j == Request(r, "log", "out", "")
    <3>2. gt' = [gt EXCEPT !.drawn = drawn, !.jobs = Append(gt.jobs, j), !.last = Other]
      BY <1>1, <3>1 DEF Has, GitFields
    <3>3. JobFits(j, at)
      BY <1>1, JobMade
    <3> HIDE DEF drawn, j
    <3>4. QED
      BY <2>1, <3>1, <3>2, <3>3
  <2>4. CASE DoCheckout
    <3> DEFINE r == gt.pop
               j == Request(r, "checkout", "out", gt.drawn[r].branch)
               branch == IF gt.drawn[r].branch = Nothing THEN Nothing ELSE "topic"
               drawn == [gt.drawn EXCEPT ![r] = [gt.drawn[r] EXCEPT !.branch = branch]]
    <3>1. /\ gt' = [gt EXCEPT !.jobs = Append(@, j),
                              !.drawn[r].branch = IF @ = Nothing THEN Nothing ELSE "topic",
                              !.last = Other]
          /\ UNCHANGED gtsrv
      BY <2>4 DEF DoCheckout
    <3>2. gt' = [gt EXCEPT !.drawn = drawn, !.jobs = Append(gt.jobs, j), !.last = Other]
      BY <1>1, <3>1 DEF Has, GitFields
    <3>3. JobFits(j, at)
      BY <1>1, JobMade
    <3> HIDE DEF drawn, j
    <3>4. QED
      BY <2>1, <3>1, <3>2, <3>3
  <2>5. QED
    BY <1>7, <2>2, <2>3, <2>4
<1>8. CASE ServerRefuses
  <2>1. PICK i \in DOMAIN gt.jobs : gt' = [gt EXCEPT !.jobs[i].phase = "fail"] /\ UNCHANGED gtsrv
    BY <1>8 DEF ServerRefuses
  <2> DEFINE jobs == [gt.jobs EXCEPT ![i] = [gt.jobs[i] EXCEPT !.phase = "fail"]]
             h == [gt EXCEPT !.jobs = jobs]
  <2>2. gt' = h
    BY <2>1
  <2>3. JobsFit(jobs, at)
    BY <1>4
  <2> HIDE DEF jobs
  <2>4. /\ Has(h, GitFields) /\ h.jobs = jobs /\ h.reads = gt.reads
        /\ h.seen = gt.seen /\ h.heard = gt.heard /\ h.failed = gt.failed
    BY <1>1 DEF Has, GitFields
  <2> HIDE DEF h
  <2>5. QED
    BY <1>2, <2>1, <2>2, <2>3, <2>4
<1>9. QED
  BY <1>5, <1>6, <1>7, <1>8

\* A request is carried out: what it changed, and when, is with its answer.
LEMMA ActsStep ==
  ASSUME GitInv, ServerActs
  PROVE  GitInv'
<1>1. PICK i \in DOMAIN gt.jobs : \E repos :
        /\ gtsrv' = [repos |-> repos, at |-> IF Reads(gt.jobs[i].kind) THEN gtsrv.at ELSE gtsrv.at + 1]
        /\ gt' = [gt EXCEPT !.jobs[i].phase = "ok", !.jobs[i].at = gtsrv'.at]
  BY Zenon DEF ServerActs
<1> DEFINE at == gtsrv'.at
           j == [gt.jobs[i] EXCEPT !.phase = "ok", !.at = at]
           jobs == [gt.jobs EXCEPT ![i] = j]
           h == [gt EXCEPT !.jobs = jobs]
<1>2. Has(gt, GitFields) /\ JobsFit(gt.jobs, gtsrv.at) /\ Fresh(gt, gtsrv.at) /\ gtsrv.at \in Nat
  BY DEF GitInv, Fresh, ServerFits
<1>3. ServerFits(gtsrv') /\ at \in Nat /\ gtsrv.at <= at
  BY <1>1, <1>2 DEF ServerFits, Has
<1>4. Fresh(gt, at) /\ JobsFit(gt.jobs, at)
  BY <1>2, <1>3, JobsLater DEF Fresh
<1>5. gt' = h
  <2>1. DOMAIN gt.jobs = DOMAIN [gt.jobs EXCEPT ![i] = [gt.jobs[i] EXCEPT !.phase = "ok"]]
    OBVIOUS
  <2>2. QED
    BY <1>1, <1>2, <2>1 DEF Has, GitFields
<1> HIDE DEF at
<1>6. JobFits(j, at)
  <2>1. JobFits(gt.jobs[i], at)
    BY <1>4, JobIsOne
  <2>2. Has(j, JobFields)
    BY <2>1 DEF JobFits, Has, JobFields
  <2>3. j.at = at
    BY <2>1 DEF JobFits, Has, JobFields
  <2> HIDE DEF j
  <2>4. QED
    BY <1>3, <2>2, <2>3 DEF JobFits
<1> HIDE DEF j
<1>7. JobsFit(jobs, at)
  BY <1>4, <1>6, JobsChange
<1> HIDE DEF jobs
<1>8. /\ Has(h, GitFields) /\ h.jobs = jobs /\ h.reads = gt.reads
      /\ h.seen = gt.seen /\ h.heard = gt.heard /\ h.failed = gt.failed
  BY <1>2 DEF Has, GitFields
<1> HIDE DEF h
<1>9. Fresh(gt', at)
  BY <1>4, <1>5, <1>7, <1>8, SameButJobs
<1>10. QED
  BY <1>3, <1>9 DEF GitInv, at

\* A request is answered: one that worked reads the list again.
LEMMA AnswerStep ==
  ASSUME GitInv, AnswerArrives
  PROVE  GitInv'
<1> DEFINE at == gtsrv.at
<1>1. Has(gt, GitFields) /\ JobsFit(gt.jobs, at) /\ Fresh(gt, at) /\ at \in Nat
  BY DEF GitInv, Fresh, ServerFits
<1>2. PICK i \in DOMAIN gt.jobs :
        LET j == gt.jobs[i]
            g == [gt EXCEPT !.jobs = RemoveAt(@, i), !.last = <<"answer", j.repo>>,
                            !.asking = IF j.kind = "discard" THEN @ \ {j.repo} ELSE @]
        IN  /\ gt' = IF j.phase = "fail" THEN Refused(g, j)
                     ELSE IF Reads(j.kind) THEN Answered(g, j)
                     ELSE [RefreshChanges(Answered(g, j)) EXCEPT !.heard = IF j.at > @ THEN j.at ELSE @]
            /\ UNCHANGED gtsrv
  BY Zenon DEF AnswerArrives, RemoveAt
<1> DEFINE j == gt.jobs[i]
           jobs == RemoveAt(gt.jobs, i)
           asking == IF j.kind = "discard" THEN gt.asking \ {j.repo} ELSE gt.asking
           g == [gt EXCEPT !.jobs = jobs, !.last = <<"answer", j.repo>>, !.asking = asking]
           again == RefreshChanges(Answered(g, j))
           heard == IF j.at > again.heard THEN j.at ELSE again.heard
<1>3. gt' = IF j.phase = "fail" THEN Refused(g, j)
            ELSE IF Reads(j.kind) THEN Answered(g, j) ELSE [again EXCEPT !.heard = heard]
  <2>1. g = [gt EXCEPT !.jobs = RemoveAt(@, i), !.last = <<"answer", j.repo>>,
                       !.asking = IF j.kind = "discard" THEN @ \ {j.repo} ELSE @]
    OBVIOUS
  <2>2. CASE j.phase = "fail"
    BY <1>2, <2>1, <2>2, Zenon
  <2>3. CASE j.phase # "fail" /\ Reads(j.kind)
    BY <1>2, <2>1, <2>3, Zenon
  <2>4. CASE j.phase # "fail" /\ ~Reads(j.kind)
    <3>1. gt' = [RefreshChanges(Answered(g, j)) EXCEPT !.heard = IF j.at > @ THEN j.at ELSE @]
      BY <1>2, <2>1, <2>4, Zenon
    <3> HIDE DEF g
    <3>2. gt' = [again EXCEPT !.heard = heard]
      BY <3>1
    <3>3. QED
      BY <2>4, <3>2
  <2>5. QED
    BY <2>2, <2>3, <2>4
<1>4. JobsFit(jobs, at) /\ JobFits(j, at)
  BY <1>1, JobsRemove, JobIsOne
<1> HIDE DEF jobs, asking
<1>5. /\ Has(g, GitFields) /\ g.jobs = jobs /\ g.reads = gt.reads
      /\ g.seen = gt.seen /\ g.heard = gt.heard /\ g.failed = gt.failed
  BY <1>1 DEF Has, GitFields
<1> HIDE DEF g, j
<1>6. Fresh(g, at)
  BY <1>1, <1>4, <1>5, SameButJobs
<1>7. Fresh(Refused(g, j), at) /\ Fresh(Answered(g, j), at)
  BY <1>5, <1>6, AnswersAreAlike, AlikeIsFresh
<1>8. heard \in Nat /\ heard <= at
  <2>1. Answered(g, j).heard \in Nat /\ Answered(g, j).heard <= at
    BY <1>7 DEF Fresh
  <2>2. again.heard = Answered(g, j).heard
    BY <1>7 DEF RefreshChanges, Fresh, Has, GitFields
  <2>3. j.at \in Nat /\ j.at <= at
    BY <1>4 DEF JobFits
  <2> HIDE DEF again
  <2>4. QED
    BY <2>1, <2>2, <2>3
<1> HIDE DEF heard
<1>9. Fresh([again EXCEPT !.heard = heard], at)
  BY <1>7, <1>8, RefreshIsFresh
<1> HIDE DEF again
<1>10. Fresh(gt', at)
  BY <1>3, <1>7, <1>9
<1>11. QED
  BY <1>2, <1>10, TabStep

\* Reading again on the reader's word, or because something happened.
LEMMA RefreshesStep ==
  ASSUME GitInv, Refreshes
  PROVE  GitInv'
<1> DEFINE at == gtsrv.at
           g == [gt EXCEPT !.last = Other]
           again == RefreshChanges(g)
<1>1. Has(gt, GitFields) /\ Fresh(gt, at) /\ at \in Nat
  BY DEF GitInv, Fresh, ServerFits
<1>2. Has(g, GitFields) /\ Alike(gt, g) /\ g.heard = gt.heard
  BY <1>1 DEF Has, GitFields, Alike
<1>3. gt' = [again EXCEPT !.heard = g.heard] /\ UNCHANGED gtsrv
  BY <1>1, <1>2 DEF Refreshes, RefreshChanges, Has, GitFields
<1> HIDE DEF g
<1>4. Fresh(g, at)
  BY <1>1, <1>2, AlikeIsFresh
<1>5. Fresh([again EXCEPT !.heard = g.heard], at)
  <2>1. g.heard \in Nat /\ g.heard <= at
    BY <1>4 DEF Fresh
  <2>2. QED
    BY <1>4, <2>1, RefreshIsFresh
<1>6. QED
  BY <1>3, <1>5, TabStep

\* What happens without the tab.
LEMMA WorldSteps ==
  ASSUME GitInv,
         \/ WorkspaceChanges \/ RefreshGitStatus \/ StoreAnswered \/ OnForgeChange
         \/ UNCHANGED gtvars
  PROVE  GitInv'
<1>1. gt' = gt
  BY DEF WorkspaceChanges, RefreshGitStatus, StoreAnswered, OnForgeChange, gtvars
<1>2. ServerFits(gtsrv') /\ gtsrv'.at = gtsrv.at
  <2>1. CASE WorkspaceChanges
    <3>1. PICK r, s : gtsrv' = [gtsrv EXCEPT !.repos[r] = s]
      BY <2>1 DEF WorkspaceChanges
    <3>2. QED
      BY <3>1 DEF GitInv, ServerFits, Has
  <2>2. CASE ~WorkspaceChanges
    BY <2>2 DEF RefreshGitStatus, StoreAnswered, OnForgeChange, gtvars, GitInv
  <2>3. QED
    BY <2>1, <2>2
<1>3. QED
  BY <1>1, <1>2 DEF GitInv

\* At first one read is out and nothing was heard.
LEMMA GitStarts ==
  ASSUME GitInit
  PROVE  GitInv
<1> DEFINE f == [known |-> [r \in GitRepos |-> Gone], seen |-> 0, heard |-> 0, answered |-> FALSE,
                 failed |-> FALSE, kind |-> "blank", drawn |-> [r \in GitRepos |-> NoSection],
                 box |-> [r \in GitRepos |-> ""], msgs |-> [r \in GitRepos |-> ""], focus |-> Nothing,
                 deferred |-> FALSE, flags |-> {}, pushed |-> {}, collapsed |-> {}, expanded |-> {},
                 filter |-> "", asking |-> {}, pop |-> Nothing, jobs |-> <<>>, reads |-> {},
                 last |-> Other]
           g == RefreshChanges(f)
<1>1. gt = g
  BY Zenon DEF GitInit
<1>2. gtsrv.at = 0 /\ ServerFits(gtsrv)
  <2>1. PICK repos : gtsrv = [repos |-> repos, at |-> 0]
    BY DEF GitInit
  <2>2. QED
    BY <2>1 DEF ServerFits, Has
<1>3. Has(f, GitFields)
  BY DEF Has, GitFields
<1>4. f.jobs = <<>> /\ f.reads = {} /\ f.seen = 0 /\ f.heard = 0
  OBVIOUS
<1>5. f.failed = FALSE
  OBVIOUS
<1> HIDE DEF f
<1>6. Has(g, GitFields) /\ g.heard = 0
  BY <1>3, <1>4 DEF RefreshChanges, Has, GitFields
<1>7. JobsFit(<<>>, 0)
  <2> DEFINE S == {}
  <2>1. <<>> \in Seq(S) /\ \A j \in S : JobFits(j, 0)
    OBVIOUS
  <2> HIDE DEF S
  <2>2. QED
    BY <2>1 DEF JobsFit
<1>8. Fresh(f, 0)
  <2>1. f.heard <= 0 /\ f.seen \in Nat /\ f.heard \in Nat /\ f.heard <= f.seen
    BY <1>4
  <2>2. JobsFit(f.jobs, 0)
    BY <1>4, <1>7
  <2>3. /\ \A rd \in f.reads : ReadFits(rd, f.heard)
        /\ \A rd, qd \in f.reads : rd.live /\ qd.live => rd = qd
    BY <1>4
  <2>4. QED
    BY <1>3, <1>5, <2>1, <2>2, <2>3 DEF Fresh
<1>9. Fresh([g EXCEPT !.heard = 0], 0)
  BY <1>8, RefreshIsFresh
<1> HIDE DEF g
<1>10. [g EXCEPT !.heard = 0] = g
  BY <1>6 DEF Has, GitFields
<1>11. QED
  BY <1>1, <1>2, <1>9, <1>10 DEF GitInv

\* Once no read is out and the last one did not fail, the pane shows the list as it was after the
\* last request the reader was told had worked (refreshChanges, git-changes-tab.ts).
THEOREM NoOldListLast == GitSpec => []ShownAfterActing
<1>1. GitInit => GitInv
  BY GitStarts
<1>2. GitInv /\ [GitNext]_gtvars => GitInv'
  <2> SUFFICES ASSUME GitInv, [GitNext]_gtvars PROVE GitInv'
    OBVIOUS
  <2>1. CASE GitNext
    BY <2>1, AnswersReadStep, ArrivesStep, FailsStep, ViewSteps, RequestSteps, ActsStep, AnswerStep,
       RefreshesStep, WorldSteps DEF GitNext
  <2>2. CASE UNCHANGED gtvars
    BY <2>2, WorldSteps
  <2>3. QED
    BY <2>1, <2>2
<1>3. GitInv => ShownAfterActing
  BY DEF GitInv, Fresh, ShownAfterActing
<1>4. QED
  BY <1>1, <1>2, <1>3, PTL DEF GitSpec

----------------------------------------------------------------------------
(* The commit boxes.  What a box says is in its element while it is drawn  *)
(* and in `msgs` otherwise; a paint takes the one over into the other.     *)

SectionFields == {"open", "branch", "offers", "flag", "hint", "recent"}

\* Every repository has its section, its box and its text.
Boxed(g) ==
    /\ Has(g, GitFields) /\ Has(g.box, GitRepos) /\ Has(g.msgs, GitRepos) /\ Has(g.drawn, GitRepos)
    /\ \A r \in GitRepos : Has(g.drawn[r], SectionFields)

\* The same said of every repository outside S.
SaysAs(f, g, S) ==
    /\ Boxed(g) /\ g.known = f.known
    /\ \A r \in GitRepos \ S : Text(g, r) = Text(f, r)

\* The same said of all that are listed.
SaysListed(f, g) ==
    /\ Boxed(g)
    /\ \A r \in GitRepos : IsListed(g.known, r) => Text(g, r) = Text(f, r)

\* A tab that differs in nothing a box is made of says the same.
LEMMA SameSaid ==
  ASSUME NEW f, NEW g, Boxed(f), Has(g, GitFields), g.known = f.known, g.drawn = f.drawn,
         g.box = f.box, g.msgs = f.msgs
  PROVE  SaysAs(f, g, {})
BY DEF Boxed, SaysAs, Text, HasBox

\* A section that is drawn differently, but for what it offers.
LEMMA SectionSaid ==
  ASSUME NEW f, NEW g, Boxed(f), Has(g, GitFields), g.known = f.known, g.box = f.box, g.msgs = f.msgs,
         Has(g.drawn, GitRepos), NEW r,
         \A q \in GitRepos : q # r => g.drawn[q] = f.drawn[q],
         r \in GitRepos => Has(g.drawn[r], SectionFields) /\ g.drawn[r].offers = f.drawn[r].offers
  PROVE  SaysAs(f, g, {})
BY DEF Boxed, SaysAs, Text, HasBox

\* A paint takes what every box says over into the new page (harvest).
LEMMA PaintInnerSays ==
  ASSUME NEW f, Boxed(f)
  PROVE  SaysListed(f, PaintInner(f))
<1> DEFINE active == {r \in GitRepos : IsListed(f.known, r)}
           one == [f EXCEPT !.deferred = FALSE, !.msgs = Harvest(f), !.jobs = Disowned(f.jobs),
                            !.collapsed = f.collapsed \cap active, !.expanded = f.expanded \cap active,
                            !.flags = {r \in f.flags \cap active : f.known[r].behind}]
           drawn == [r \in GitRepos |-> IF r \in {q \in active : Matches(f, q)} THEN RenderRepoSection(one, r)
                                          ELSE NoSection]
           g == PaintInner(f)
<1>1. PICK kind : g = [one EXCEPT !.kind = kind, !.drawn = drawn, !.box = one.msgs]
  BY Zenon DEF PaintInner
<1>2. Has(one, GitFields) /\ one.msgs = Harvest(f) /\ one.known = f.known
  BY DEF Boxed, Has, GitFields
<1>3. /\ Has(drawn, GitRepos)
      /\ \A r \in GitRepos : Has(drawn[r], SectionFields)
  <2>1. \A h, r : Has(RenderRepoSection(h, r), SectionFields)
    BY DEF RenderRepoSection, Has, SectionFields
  <2>2. Has(NoSection, SectionFields)
    BY DEF NoSection, Has, SectionFields
  <2>3. \A r \in GitRepos : drawn[r] = RenderRepoSection(one, r) \/ drawn[r] = NoSection
    BY Zenon
  <2>4. Has(drawn, GitRepos)
    BY Zenon DEF Has
  <2> HIDE DEF drawn, one
  <2>5. QED
    BY <2>1, <2>2, <2>3, <2>4
<1> HIDE DEF drawn, one, g
<1>4. /\ Has(g, GitFields) /\ g.drawn = drawn /\ g.box = Harvest(f) /\ g.msgs = Harvest(f)
      /\ g.known = f.known
  BY <1>1, <1>2 DEF Has, GitFields
<1>5. Has(Harvest(f), GitRepos)
  BY DEF Harvest, Has
<1>6. \A r \in GitRepos : IsListed(f.known, r) => Harvest(f)[r] = Text(f, r)
  BY DEF Harvest, Text
<1>7. SaysListed(f, g)
  BY <1>3, <1>4, <1>5, <1>6 DEF SaysListed, Boxed, Text
<1>8. QED
  BY <1>7 DEF g

\* One after the other.
LEMMA SaidThenListed ==
  ASSUME NEW f, NEW g, NEW h, SaysAs(f, g, {}), SaysListed(g, h)
  PROVE  SaysListed(f, h)
BY DEF SaysAs, SaysListed

\* The other way round.
LEMMA ListedThenSaid ==
  ASSUME NEW f, NEW g, NEW h, SaysListed(f, g), SaysAs(g, h, {})
  PROVE  SaysListed(f, h)
BY DEF SaysAs, SaysListed

\* Saying the same of all is saying it of those listed.
LEMMA SaidIsListed ==
  ASSUME NEW f, NEW g, SaysAs(f, g, {})
  PROVE  SaysListed(f, g)
BY DEF SaysAs, SaysListed

\* A paint, or one that waits until the reader has left the box.
LEMMA PaintSays ==
  ASSUME NEW f, Boxed(f)
  PROVE  SaysListed(f, Paint(f))
<1>1. SaysAs(f, [f EXCEPT !.deferred = TRUE], {})
  BY SameSaid DEF Boxed, Has, GitFields
<1>2. QED
  BY <1>1, PaintInnerSays, SaidIsListed DEF Paint

\* A step of the tab that says the same of all that are listed.
KeptStep == Boxed(gt') /\ KeepsMessage

\* It keeps the messages.
LEMMA ListedKept ==
  ASSUME SaysListed(gt, gt')
  PROVE  KeptStep
BY DEF KeptStep, SaysListed, KeepsMessage

\* The reads: an answer paints, a failure takes the whole pane.
LEMMA ReadsKeep ==
  ASSUME Boxed(gt), ServerAnswersRead \/ ReadArrives \/ ReadFails \/ GitChangesSkeleton \/ Refreshes
  PROVE  KeptStep
<1>1. Has(gt, GitFields)
  BY DEF Boxed
<1>2. CASE ServerAnswersRead
  <2>1. PICK reads : gt' = [gt EXCEPT !.reads = reads]
    BY <1>2, Zenon DEF ServerAnswersRead
  <2>2. QED
    BY <1>1, <2>1, SameSaid, SaidIsListed, ListedKept DEF Has, GitFields
<1>3. CASE ReadArrives
  <2>1. PICK rd, reads :
          LET g == [gt EXCEPT !.reads = reads, !.last = Other]
          IN  \/ gt' = [g EXCEPT !.kind = IF @ = "skeleton" THEN "blank" ELSE @]
              \/ gt' = Paint([g EXCEPT !.known = rd.got[1], !.seen = rd.got[2], !.answered = TRUE,
                                       !.failed = FALSE])
    BY <1>3, Zenon DEF ReadArrives
  <2> DEFINE g == [gt EXCEPT !.reads = reads, !.last = Other]
             h == [g EXCEPT !.known = rd.got[1], !.seen = rd.got[2], !.answered = TRUE, !.failed = FALSE]
  <2>2. Has(g, GitFields) /\ g.known = gt.known /\ g.drawn = gt.drawn /\ g.box = gt.box /\ g.msgs = gt.msgs
    BY <1>1 DEF Has, GitFields
  <2> HIDE DEF g
  <2>3. CASE gt' = [g EXCEPT !.kind = IF @ = "skeleton" THEN "blank" ELSE @]
    BY <2>2, <2>3, SameSaid, SaidIsListed, ListedKept DEF Has, GitFields
  <2>4. CASE gt' = Paint(h)
    <3>1. Has(h, GitFields) /\ h.drawn = gt.drawn /\ h.box = gt.box /\ h.msgs = gt.msgs
      BY <2>2 DEF Has, GitFields
    <3> HIDE DEF h
    <3>2. Boxed(h) /\ \A r : Text(h, r) = Text(gt, r)
      BY <3>1 DEF Boxed, Text, HasBox
    <3>3. SaysListed(h, gt')
      BY <2>4, <3>2, PaintSays
    <3>4. SaysListed(gt, gt')
      BY <3>2, <3>3 DEF SaysListed
    <3>5. QED
      BY <3>4, ListedKept
  <2>5. QED
    BY <2>1, <2>3, <2>4 DEF g
<1>4. CASE ReadFails
  <2>1. PICK reads :
          LET g == [gt EXCEPT !.reads = reads, !.last = <<"error", Nothing>>]
          IN  \/ gt' = PaintError([g EXCEPT !.failed = TRUE])
              \/ gt' = [g EXCEPT !.kind = IF @ = "skeleton" THEN "blank" ELSE @]
    BY <1>4, Zenon DEF ReadFails
  <2> DEFINE g == [gt EXCEPT !.reads = reads, !.last = <<"error", Nothing>>]
             h == [g EXCEPT !.failed = TRUE]
  <2>2. Has(g, GitFields) /\ g.known = gt.known /\ g.drawn = gt.drawn /\ g.box = gt.box /\ g.msgs = gt.msgs
    BY <1>1 DEF Has, GitFields
  <2>3. g.last[1] = "error"
    BY <1>1 DEF Has, GitFields
  <2> HIDE DEF g
  <2>4. CASE gt' = [g EXCEPT !.kind = IF @ = "skeleton" THEN "blank" ELSE @]
    BY <2>2, <2>4, SameSaid, SaidIsListed, ListedKept DEF Has, GitFields
  <2>5. CASE gt' = PaintError(h)
    <3>1. /\ Has(h, GitFields) /\ h.drawn = gt.drawn /\ h.box = gt.box /\ h.msgs = gt.msgs
          /\ h.last[1] = "error"
      BY <2>2, <2>3 DEF Has, GitFields
    <3> HIDE DEF h
    <3> DEFINE drawn == [r \in GitRepos |-> NoSection]
    <3>2. Has(drawn, GitRepos) /\ \A r \in GitRepos : drawn[r] = NoSection
      BY Zenon DEF Has
    <3>3. Has(NoSection, SectionFields)
      BY DEF NoSection, Has, SectionFields
    <3>4. gt' = [h EXCEPT !.kind = "error", !.drawn = drawn, !.focus = Nothing, !.jobs = Disowned(h.jobs)]
      BY <2>5, Zenon DEF PaintError
    <3> HIDE DEF drawn
    <3>5. /\ Has(gt', GitFields) /\ gt'.drawn = drawn /\ gt'.box = h.box /\ gt'.msgs = h.msgs
          /\ gt'.last = h.last
      BY <3>1, <3>4 DEF Has, GitFields
    <3>6. Boxed(gt')
      BY <3>1, <3>2, <3>3, <3>5 DEF Boxed
    <3>7. QED
      BY <3>1, <3>5, <3>6 DEF KeptStep, KeepsMessage
  <2>6. QED
    BY <2>1, <2>4, <2>5 DEF g
<1>5. CASE GitChangesSkeleton
  BY <1>1, <1>5, SameSaid, SaidIsListed, ListedKept DEF GitChangesSkeleton, Has, GitFields
<1>6. CASE Refreshes
  <2>1. PICK reads : gt' = [[gt EXCEPT !.reads = reads] EXCEPT !.last = Other]
    BY <1>6, Zenon DEF Refreshes, RefreshChanges
  <2>2. QED
    BY <1>1, <2>1, SameSaid, SaidIsListed, ListedKept DEF Has, GitFields
<1>7. QED
  BY <1>2, <1>3, <1>4, <1>5, <1>6

\* What the reader does that no repository's text hangs on.
LEMMA ViewsKeep ==
  ASSUME Boxed(gt),
         \/ ConfirmDialog \/ RunPullAll \/ LeavesBox \/ ToggleSection \/ ChangesFind
         \/ RenderRecentCommits \/ OpenBranchSwitcher \/ DoCheckout \/ PushedExpires
  PROVE  KeptStep
<1>1. Has(gt, GitFields)
  BY DEF Boxed
<1>2. ASSUME NEW g, Has(g, GitFields), g.known = gt.known, g.drawn = gt.drawn, g.box = gt.box,
             g.msgs = gt.msgs, gt' = g \/ gt' = PaintInner(g) \/ gt' = Paint(g)
      PROVE  KeptStep
  <2>1. SaysAs(gt, g, {}) /\ Boxed(g)
    BY <1>2, SameSaid DEF SaysAs
  <2>2. QED
    BY <1>2, <2>1, PaintInnerSays, PaintSays, SaidThenListed, SaidIsListed, ListedKept
<1>3. CASE ConfirmDialog
  <2>1. \/ \E jobs : gt' = [gt EXCEPT !.jobs = jobs]
        \/ \E jobs, asking : gt' = [gt EXCEPT !.jobs = jobs, !.asking = asking]
    BY <1>3, Zenon DEF ConfirmDialog
  <2>2. /\ Has(gt', GitFields) /\ gt'.known = gt.known /\ gt'.drawn = gt.drawn /\ gt'.box = gt.box
        /\ gt'.msgs = gt.msgs
    BY <1>1, <2>1 DEF Has, GitFields
  <2>3. QED
    BY <2>2, SameSaid, SaidIsListed, ListedKept
<1>4. CASE RunPullAll
  <2>1. PICK jobs : gt' = [gt EXCEPT !.jobs = jobs, !.last = Other]
    BY <1>4, Zenon DEF RunPullAll
  <2>2. /\ Has(gt', GitFields) /\ gt'.known = gt.known /\ gt'.drawn = gt.drawn /\ gt'.box = gt.box
        /\ gt'.msgs = gt.msgs
    BY <1>1, <2>1 DEF Has, GitFields
  <2>3. QED
    BY <2>2, SameSaid, SaidIsListed, ListedKept
<1>5. CASE LeavesBox
  <2> DEFINE g == [gt EXCEPT !.focus = Nothing, !.last = Other]
  <2>1. Has(g, GitFields) /\ g.known = gt.known /\ g.drawn = gt.drawn /\ g.box = gt.box /\ g.msgs = gt.msgs
    BY <1>1 DEF Has, GitFields
  <2>2. gt' = PaintInner(g) \/ gt' = g
    BY <1>5 DEF LeavesBox
  <2> HIDE DEF g
  <2>3. QED
    BY <1>2, <2>1, <2>2
<1>6. CASE ToggleSection
  <2>0. PICK r \in GitRepos : \E expanded, collapsed :
            gt' = [gt EXCEPT !.drawn[r].open = ~@, !.last = Other, !.expanded = expanded,
                             !.collapsed = collapsed]
    BY <1>6, Zenon DEF ToggleSection
  <2>1. PICK expanded, collapsed :
            gt' = [gt EXCEPT !.drawn[r].open = ~@, !.last = Other, !.expanded = expanded,
                             !.collapsed = collapsed]
    BY <2>0, Zenon
  <2> DEFINE open == ~gt.drawn[r].open
             drawn == [gt.drawn EXCEPT ![r] = [@ EXCEPT !.open = open]]
  <2>2. gt' = [gt EXCEPT !.drawn = drawn, !.last = Other, !.expanded = expanded, !.collapsed = collapsed]
    BY <2>1, Zenon
  <2> HIDE DEF open
  <2>3. /\ Has(drawn, GitRepos) /\ \A q \in GitRepos : q # r => drawn[q] = gt.drawn[q]
        /\ Has(drawn[r], SectionFields) /\ drawn[r].offers = gt.drawn[r].offers
    BY <1>1 DEF Boxed, Has, SectionFields
  <2> HIDE DEF drawn
  <2>4. Has(gt', GitFields) /\ gt'.known = gt.known /\ gt'.drawn = drawn /\ gt'.box = gt.box /\ gt'.msgs = gt.msgs
    BY <1>1, <2>2 DEF Has, GitFields
  <2>5. SaysAs(gt, gt', {})
    BY <2>3, <2>4, SectionSaid
  <2>6. QED
    BY <2>5, SaidIsListed, ListedKept
<1>7. CASE ChangesFind
  <2>1. PICK find : gt' = PaintInner([gt EXCEPT !.focus = Nothing, !.filter = find, !.last = Other])
    BY <1>7 DEF ChangesFind
  <2> DEFINE g == [gt EXCEPT !.focus = Nothing, !.filter = find, !.last = Other]
  <2>2. Has(g, GitFields) /\ g.known = gt.known /\ g.drawn = gt.drawn /\ g.box = gt.box /\ g.msgs = gt.msgs
    BY <1>1 DEF Has, GitFields
  <2>3. gt' = PaintInner(g)
    BY <2>1
  <2> HIDE DEF g
  <2>4. QED
    BY <1>2, <2>2, <2>3
<1>8. CASE RenderRecentCommits
  <2>0. PICK r \in GitRepos : \E jobs :
            gt' = [gt EXCEPT !.drawn[r].recent = "loading", !.jobs = jobs, !.last = Other]
    BY <1>8, Zenon DEF RenderRecentCommits
  <2>1. PICK jobs : gt' = [gt EXCEPT !.drawn[r].recent = "loading", !.jobs = jobs, !.last = Other]
    BY <2>0, Zenon
  <2> DEFINE drawn == [gt.drawn EXCEPT ![r] = [@ EXCEPT !.recent = "loading"]]
  <2>2. gt' = [gt EXCEPT !.drawn = drawn, !.jobs = jobs, !.last = Other]
    BY <2>1, Zenon
  <2>3. /\ Has(drawn, GitRepos) /\ \A q \in GitRepos : q # r => drawn[q] = gt.drawn[q]
        /\ Has(drawn[r], SectionFields) /\ drawn[r].offers = gt.drawn[r].offers
    BY <1>1 DEF Boxed, Has, SectionFields
  <2> HIDE DEF drawn
  <2>4. Has(gt', GitFields) /\ gt'.known = gt.known /\ gt'.drawn = drawn /\ gt'.box = gt.box /\ gt'.msgs = gt.msgs
    BY <1>1, <2>2 DEF Has, GitFields
  <2>5. QED
    BY <2>3, <2>4, SectionSaid, SaidIsListed, ListedKept
<1>9. CASE OpenBranchSwitcher
  <2>1. PICK pop : gt' = [gt EXCEPT !.pop = pop, !.last = Other]
    BY <1>9 DEF OpenBranchSwitcher
  <2>2. /\ Has(gt', GitFields) /\ gt'.known = gt.known /\ gt'.drawn = gt.drawn /\ gt'.box = gt.box
        /\ gt'.msgs = gt.msgs
    BY <1>1, <2>1 DEF Has, GitFields
  <2>3. QED
    BY <2>2, SameSaid, SaidIsListed, ListedKept
<1>10. CASE DoCheckout
  <2>1. PICK jobs, branch :
            gt' = [gt EXCEPT !.jobs = jobs, !.drawn[gt.pop].branch = branch, !.last = Other]
    BY <1>10, Zenon DEF DoCheckout
  <2> DEFINE drawn == [gt.drawn EXCEPT ![gt.pop] = [@ EXCEPT !.branch = branch]]
  <2>2. gt' = [gt EXCEPT !.jobs = jobs, !.drawn = drawn, !.last = Other]
    BY <2>1, Zenon
  <2>3. /\ Has(drawn, GitRepos) /\ \A q \in GitRepos : q # gt.pop => drawn[q] = gt.drawn[q]
        /\ gt.pop \in GitRepos => Has(drawn[gt.pop], SectionFields)
                                    /\ drawn[gt.pop].offers = gt.drawn[gt.pop].offers
    <3>1. Has(drawn, GitRepos) /\ \A q \in GitRepos : q # gt.pop => drawn[q] = gt.drawn[q]
      BY DEF Boxed, Has
    <3>2. ASSUME gt.pop \in GitRepos
          PROVE  Has(drawn[gt.pop], SectionFields) /\ drawn[gt.pop].offers = gt.drawn[gt.pop].offers
      <4>1. Has(gt.drawn[gt.pop], SectionFields)
        BY <3>2 DEF Boxed
      <4>2. drawn[gt.pop] = [gt.drawn[gt.pop] EXCEPT !.branch = branch]
        BY <3>2 DEF Boxed, Has
      <4>3. QED
        BY <4>1, <4>2 DEF Has, SectionFields
    <3>3. QED
      BY <3>1, <3>2
  <2> HIDE DEF drawn
  <2>4. Has(gt', GitFields) /\ gt'.known = gt.known /\ gt'.drawn = drawn /\ gt'.box = gt.box /\ gt'.msgs = gt.msgs
    BY <1>1, <2>2 DEF Has, GitFields
  <2>5. QED
    BY <2>3, <2>4, SectionSaid, SaidIsListed, ListedKept
<1>11. CASE PushedExpires
  <2>1. PICK pushed : gt' = Paint([gt EXCEPT !.pushed = pushed, !.last = Other])
    BY <1>11 DEF PushedExpires
  <2> DEFINE g == [gt EXCEPT !.pushed = pushed, !.last = Other]
  <2>2. Has(g, GitFields) /\ g.known = gt.known /\ g.drawn = gt.drawn /\ g.box = gt.box /\ g.msgs = gt.msgs
    BY <1>1 DEF Has, GitFields
  <2>3. gt' = Paint(g)
    BY <2>1
  <2> HIDE DEF g
  <2>4. QED
    BY <1>2, <2>2, <2>3
<1>12. QED
  BY <1>3, <1>4, <1>5, <1>6, <1>7, <1>8, <1>9, <1>10, <1>11

\* A click takes the cursor out of the box, which lets a paint that waited run first.
LEMMA ClickKeeps ==
  ASSUME Boxed(gt), Clicks
  PROVE  KeptStep
<1> DEFINE out == IF gt.focus = Nothing THEN gt ELSE [gt EXCEPT !.focus = Nothing]
           g == IF out.deferred THEN PaintInner(out) ELSE out
<1>1. Has(gt, GitFields)
  BY DEF Boxed
<1>2. PICK jobs, asking :
          \/ gt' = [g EXCEPT !.jobs = jobs, !.asking = asking, !.last = Other]
          \/ gt' = [g EXCEPT !.jobs = jobs, !.last = Other]
  BY ZenonT(60) DEF Clicks
<1>3. SaysAs(gt, out, {}) /\ Boxed(out)
  <2>1. /\ Has(out, GitFields) /\ out.known = gt.known /\ out.drawn = gt.drawn /\ out.box = gt.box
        /\ out.msgs = gt.msgs
    BY <1>1 DEF Has, GitFields
  <2> HIDE DEF out
  <2>2. QED
    BY <2>1, SameSaid DEF SaysAs
<1> HIDE DEF out
<1>4. SaysListed(gt, g)
  BY <1>3, PaintInnerSays, SaidThenListed, SaidIsListed
<1> HIDE DEF g
<1>5. Boxed(g) /\ Has(g, GitFields)
  BY <1>4 DEF SaysListed, Boxed
<1>6. Has(gt', GitFields) /\ gt'.known = g.known /\ gt'.drawn = g.drawn /\ gt'.box = g.box /\ gt'.msgs = g.msgs
  BY <1>2, <1>5 DEF Has, GitFields
<1>7. SaysAs(g, gt', {})
  BY <1>5, <1>6, SameSaid
<1>8. QED
  BY <1>4, <1>7, ListedThenSaid, ListedKept

\* The reader types, and the box says that.
LEMMA TypesKeep ==
  ASSUME Boxed(gt), Types
  PROVE  KeptStep
<1>1. PICK r, t : gt' = [gt EXCEPT !.focus = r, !.box[r] = t, !.last = <<"type", r>>]
  BY DEF Types
<1> DEFINE box == [gt.box EXCEPT ![r] = t]
<1>2. Has(box, GitRepos) /\ \A q \in GitRepos : q # r => box[q] = gt.box[q]
  BY DEF Boxed, Has
<1>3. gt' = [gt EXCEPT !.focus = r, !.box = box, !.last = <<"type", r>>]
  BY <1>1, Zenon
<1> HIDE DEF box
<1>4. /\ Has(gt', GitFields) /\ gt'.known = gt.known /\ gt'.drawn = gt.drawn /\ gt'.box = box /\ gt'.msgs = gt.msgs
      /\ gt'.last = <<"type", r>>
  BY <1>3 DEF Boxed, Has, GitFields
<1>5. QED
  BY <1>2, <1>4 DEF KeptStep, KeepsMessage, Boxed, Text, HasBox

\* An answer touches the text of the repository it was asked for, and of no other.
LEMMA AnswerKeeps ==
  ASSUME Boxed(gt), AnswerArrives
  PROVE  KeptStep
<1>1. PICK j, jobs, asking :
        LET g == [gt EXCEPT !.jobs = jobs, !.last = <<"answer", j.repo>>, !.asking = asking]
        IN  \/ gt' = Refused(g, j)
            \/ gt' = Answered(g, j)
            \/ \E heard : gt' = [RefreshChanges(Answered(g, j)) EXCEPT !.heard = heard]
  <2>1. PICK i \in DOMAIN gt.jobs :
          LET j == gt.jobs[i]
              g == [gt EXCEPT !.jobs = RemoveAt(@, i), !.last = <<"answer", j.repo>>,
                              !.asking = IF j.kind = "discard" THEN @ \ {j.repo} ELSE @]
          IN  gt' = IF j.phase = "fail" THEN Refused(g, j)
                    ELSE IF Reads(j.kind) THEN Answered(g, j)
                    ELSE [RefreshChanges(Answered(g, j)) EXCEPT !.heard = IF j.at > @ THEN j.at ELSE @]
    BY Zenon DEF AnswerArrives
  <2> DEFINE j == gt.jobs[i]
             jobs == RemoveAt(gt.jobs, i)
             asking == IF j.kind = "discard" THEN gt.asking \ {j.repo} ELSE gt.asking
             g == [gt EXCEPT !.jobs = jobs, !.last = <<"answer", j.repo>>, !.asking = asking]
  <2>2. \/ gt' = Refused(g, j)
        \/ gt' = Answered(g, j)
        \/ \E heard : gt' = [RefreshChanges(Answered(g, j)) EXCEPT !.heard = heard]
    BY <2>1, Zenon
  <2> HIDE DEF j, jobs, asking
  <2>3. QED
    BY <2>2
<1> DEFINE g == [gt EXCEPT !.jobs = jobs, !.last = <<"answer", j.repo>>, !.asking = asking]
<1>2. /\ Has(g, GitFields) /\ g.known = gt.known /\ g.drawn = gt.drawn /\ g.box = gt.box /\ g.msgs = gt.msgs
      /\ g.last = <<"answer", j.repo>>
  BY DEF Boxed, Has, GitFields
<1> HIDE DEF g
<1> DEFINE Fits(h) == /\ Boxed(h) /\ h.last = <<"answer", j.repo>>
                      /\ \A r \in GitRepos : r # j.repo => Text(h, r) = Text(gt, r)
<1>3. Boxed(g)
  BY <1>2 DEF Boxed
<1>4. ASSUME NEW h, Has(h, GitFields), h.last = g.last, h.drawn = g.drawn, Has(h.box, GitRepos),
             Has(h.msgs, GitRepos),
             \A r \in GitRepos : r # j.repo => h.box[r] = g.box[r] /\ h.msgs[r] = g.msgs[r]
      PROVE  Fits(h)
  BY <1>2, <1>3, <1>4 DEF Boxed, Text, HasBox
<1>5. ASSUME NEW h, Has(h, GitFields), h.last = g.last, h.box = g.box, h.msgs = g.msgs,
             Has(h.drawn, GitRepos),
             \A r \in GitRepos : Has(h.drawn[r], SectionFields) /\ h.drawn[r].offers = g.drawn[r].offers
      PROVE  Fits(h)
  BY <1>2, <1>3, <1>5 DEF Boxed, Text, HasBox
<1>6. \A box, msgs : Fits([g EXCEPT !.box[j.repo] = box, !.msgs[j.repo] = msgs])
  <2> TAKE box, msgs
  <2> DEFINE b == [g.box EXCEPT ![j.repo] = box]
             m == [g.msgs EXCEPT ![j.repo] = msgs]
             h == [g EXCEPT !.box[j.repo] = box, !.msgs[j.repo] = msgs]
  <2>1. h = [g EXCEPT !.box = b, !.msgs = m]
    BY Zenon
  <2>2. /\ Has(b, GitRepos) /\ Has(m, GitRepos)
        /\ \A r \in GitRepos : r # j.repo => b[r] = g.box[r] /\ m[r] = g.msgs[r]
    BY <1>3 DEF Boxed, Has
  <2> HIDE DEF b, m, h, Fits
  <2>3. Has(h, GitFields) /\ h.last = g.last /\ h.drawn = g.drawn /\ h.box = b /\ h.msgs = m
    BY <1>2, <2>1 DEF Has, GitFields
  <2>4. Fits(h)
    BY <1>4, <2>2, <2>3
  <2>5. QED
    BY <2>4 DEF h
<1>7. \A k \in {"recent", "branch"} : \A v :
        LET d == [g.drawn EXCEPT ![j.repo] = [@ EXCEPT ![k] = v]]
        IN  /\ Has(d, GitRepos)
            /\ \A r \in GitRepos : Has(d[r], SectionFields) /\ d[r].offers = g.drawn[r].offers
  <2> TAKE k \in {"recent", "branch"}
  <2> TAKE v
  <2> DEFINE d == [g.drawn EXCEPT ![j.repo] = [@ EXCEPT ![k] = v]]
  <2>1. Has(d, GitRepos) /\ \A r \in GitRepos : r # j.repo => d[r] = g.drawn[r]
    BY <1>3 DEF Boxed, Has
  <2>2. ASSUME NEW r \in GitRepos
        PROVE  Has(d[r], SectionFields) /\ d[r].offers = g.drawn[r].offers
    <3>1. Has(g.drawn[r], SectionFields)
      BY <1>3 DEF Boxed
    <3>2. d[r] = g.drawn[r] \/ d[r] = [g.drawn[r] EXCEPT ![k] = v]
      BY <1>3 DEF Boxed, Has
    <3> HIDE DEF d
    <3>3. QED
      BY <3>1, <3>2 DEF Has, SectionFields
  <2>3. QED
    BY <2>1, <2>2
<1>8. \A v : Fits([g EXCEPT !.drawn[j.repo].recent = v])
  <2> TAKE v
  <2> DEFINE d == [g.drawn EXCEPT ![j.repo] = [@ EXCEPT !["recent"] = v]]
             h == [g EXCEPT !.drawn[j.repo].recent = v]
  <2>1. h = [g EXCEPT !.drawn = d]
    BY Zenon
  <2>2. /\ Has(d, GitRepos)
        /\ \A r \in GitRepos : Has(d[r], SectionFields) /\ d[r].offers = g.drawn[r].offers
    BY <1>7
  <2> HIDE DEF d, h, Fits
  <2>3. Has(h, GitFields) /\ h.last = g.last /\ h.drawn = d /\ h.box = g.box /\ h.msgs = g.msgs
    BY <1>2, <2>1 DEF Has, GitFields
  <2>4. Fits(h)
    BY <1>5, <2>2, <2>3
  <2>5. QED
    BY <2>4 DEF h
<1>9. \A v : Fits([g EXCEPT !.pop = Nothing, !.drawn[j.repo].branch = v])
  <2> TAKE v
  <2> DEFINE d == [g.drawn EXCEPT ![j.repo] = [@ EXCEPT !["branch"] = v]]
             h == [g EXCEPT !.pop = Nothing, !.drawn[j.repo].branch = v]
  <2>1. h = [g EXCEPT !.pop = Nothing, !.drawn = d]
    BY Zenon
  <2>2. /\ Has(d, GitRepos)
        /\ \A r \in GitRepos : Has(d[r], SectionFields) /\ d[r].offers = g.drawn[r].offers
    BY <1>7
  <2> HIDE DEF d, h, Fits
  <2>3. Has(h, GitFields) /\ h.last = g.last /\ h.drawn = d /\ h.box = g.box /\ h.msgs = g.msgs
    BY <1>2, <2>1 DEF Has, GitFields
  <2>4. Fits(h)
    BY <1>5, <2>2, <2>3
  <2>5. QED
    BY <2>4 DEF h
<1>10. ASSUME NEW h, Has(h, GitFields), h.last = g.last, h.drawn = g.drawn, h.box = g.box, h.msgs = g.msgs
       PROVE  Fits(h)
  BY <1>3, <1>4, <1>10 DEF Boxed
<1>11. Fits(g)
  BY <1>2, <1>10
<1> HIDE DEF Fits
<1>12. Fits(Refused(g, j))
  <2>1. \/ \E v : Refused(g, j) = [g EXCEPT !.pop = Nothing, !.drawn[j.repo].branch = v]
        \/ \E v : Refused(g, j) = [g EXCEPT !.drawn[j.repo].recent = v]
        \/ Refused(g, j) = g
    BY Zenon DEF Refused
  <2>2. QED
    BY <1>8, <1>9, <1>11, <2>1
<1>13. Fits(Answered(g, j))
  <2>1. \/ \E v : Answered(g, j) = [g EXCEPT !.drawn[j.repo].recent = v]
        \/ \E box, msgs : Answered(g, j) = [g EXCEPT !.box[j.repo] = box, !.msgs[j.repo] = msgs]
        \/ \E v : Answered(g, j) = [g EXCEPT !.pushed = v]
        \/ \E v : Answered(g, j) = [g EXCEPT !.pop = v]
        \/ \E v : Answered(g, j) = [g EXCEPT !.flags = v]
        \/ Answered(g, j) = g
    BY Zenon DEF Answered
  <2>2. \A k \in {"pushed", "pop", "flags"} : \A v : Fits([g EXCEPT ![k] = v])
    <3> TAKE k \in {"pushed", "pop", "flags"}
    <3> TAKE v
    <3> DEFINE h == [g EXCEPT ![k] = v]
    <3>1. Has(h, GitFields) /\ h.last = g.last /\ h.drawn = g.drawn /\ h.box = g.box /\ h.msgs = g.msgs
      BY <1>2 DEF Has, GitFields
    <3> HIDE DEF h
    <3>2. Fits(h)
      BY <1>10, <3>1
    <3>3. QED
      BY <3>2 DEF h
  <2>3. \A v : Fits([g EXCEPT !.pushed = v]) /\ Fits([g EXCEPT !.pop = v]) /\ Fits([g EXCEPT !.flags = v])
    BY <2>2
  <2>4. CASE \E box, msgs : Answered(g, j) = [g EXCEPT !.box[j.repo] = box, !.msgs[j.repo] = msgs]
    <3>1. PICK box, msgs : Answered(g, j) = [g EXCEPT !.box[j.repo] = box, !.msgs[j.repo] = msgs]
      BY <2>4
    <3>2. Fits([g EXCEPT !.box[j.repo] = box, !.msgs[j.repo] = msgs])
      BY <1>6
    <3>3. QED
      BY <3>1, <3>2, Zenon
  <2>5. CASE \E v : Answered(g, j) = [g EXCEPT !.drawn[j.repo].recent = v]
    BY <1>8, <2>5
  <2>6. QED
    <3>1. CASE \E v : \/ Answered(g, j) = [g EXCEPT !.pushed = v] \/ Answered(g, j) = [g EXCEPT !.pop = v]
                        \/ Answered(g, j) = [g EXCEPT !.flags = v]
      BY <2>3, <3>1
    <3>2. QED
      BY <1>11, <2>1, <2>4, <2>5, <3>1
<1>14. \A h, heard : Fits(h) => Fits([RefreshChanges(h) EXCEPT !.heard = heard])
  <2> TAKE h, heard
  <2> SUFFICES ASSUME Fits(h) PROVE Fits([RefreshChanges(h) EXCEPT !.heard = heard])
    OBVIOUS
  <2> DEFINE k == [RefreshChanges(h) EXCEPT !.heard = heard]
  <2>1. PICK reads : k = [[h EXCEPT !.reads = reads] EXCEPT !.heard = heard]
    BY Zenon DEF RefreshChanges
  <2>2. Has(h, GitFields)
    BY DEF Fits, Boxed
  <2> HIDE DEF k
  <2>3. Has(k, GitFields) /\ k.last = h.last /\ k.drawn = h.drawn /\ k.box = h.box /\ k.msgs = h.msgs
    BY <2>1, <2>2 DEF Has, GitFields
  <2>4. Fits(k)
    BY <2>3 DEF Fits, Boxed, Text, HasBox
  <2>5. QED
    BY <2>4 DEF k
<1>15. Fits(gt')
  BY <1>1, <1>12, <1>13, <1>14 DEF g
<1>16. QED
  BY <1>15 DEF Fits, KeptStep, KeepsMessage

\* The server's steps and those of the rest of the page.
LEMMA OthersKeep ==
  ASSUME Boxed(gt),
         \/ ServerActs \/ ServerRefuses \/ WorkspaceChanges \/ RefreshGitStatus \/ StoreAnswered
         \/ OnForgeChange \/ UNCHANGED gtvars
  PROVE  KeptStep
<1>1. \/ \E jobs : gt' = [gt EXCEPT !.jobs = jobs]
      \/ gt' = gt
  <2>1. CASE ServerActs
    <3>1. PICK i, at : gt' = [gt EXCEPT !.jobs[i].phase = "ok", !.jobs[i].at = at]
      BY <2>1, Zenon DEF ServerActs
    <3>2. gt' = [gt EXCEPT !.jobs = [[@ EXCEPT ![i].phase = "ok"] EXCEPT ![i].at = at]]
      BY <3>1, Zenon
    <3>3. QED
      BY <3>2
  <2>2. CASE ServerRefuses
    BY <2>2, Zenon DEF ServerRefuses
  <2>3. CASE WorkspaceChanges
    BY <2>3, Zenon DEF WorkspaceChanges
  <2>4. CASE RefreshGitStatus \/ StoreAnswered \/ OnForgeChange \/ UNCHANGED gtvars
    BY <2>4, Zenon DEF RefreshGitStatus, StoreAnswered, OnForgeChange, gtvars
  <2>5. QED
    BY <2>1, <2>2, <2>3, <2>4
<1>2. /\ Has(gt', GitFields) /\ gt'.known = gt.known /\ gt'.drawn = gt.drawn /\ gt'.box = gt.box
      /\ gt'.msgs = gt.msgs
  BY <1>1 DEF Boxed, Has, GitFields
<1>3. QED
  BY <1>2, SameSaid, SaidIsListed, ListedKept

\* At first every box is empty.
LEMMA BoxesStart ==
  ASSUME GitInit
  PROVE  Boxed(gt)
<1> DEFINE none == [r \in GitRepos |-> ""]
           drawn == [r \in GitRepos |-> NoSection]
<1>1. PICK known, other, reads :
        gt = [[known |-> known, seen |-> 0, heard |-> 0, answered |-> FALSE, failed |-> FALSE,
               kind |-> "blank", drawn |-> drawn, box |-> none,
               msgs |-> none, focus |-> Nothing, deferred |-> FALSE, flags |-> {}, pushed |-> {},
               collapsed |-> {}, expanded |-> {}, filter |-> "", asking |-> {}, pop |-> Nothing,
               jobs |-> <<>>, reads |-> {}, last |-> other] EXCEPT !.reads = reads]
  BY Zenon DEF GitInit, RefreshChanges
<1>2. Has(none, GitRepos) /\ Has(drawn, GitRepos) /\ \A r \in GitRepos : drawn[r] = NoSection
  BY Zenon DEF Has
<1>3. Has(NoSection, SectionFields)
  BY DEF NoSection, Has, SectionFields
<1> HIDE DEF none, drawn
<1>4. Has(gt, GitFields) /\ gt.drawn = drawn /\ gt.box = none /\ gt.msgs = none
  BY <1>1 DEF Has, GitFields
<1>5. QED
  BY <1>2, <1>3, <1>4 DEF Boxed

\* A commit message leaves its box only for one the reader typed or asked for, by a commit that was
\* answered, or with its repository: a paint that rebuilds the boxes takes their text with it
\* (harvestCommitMsgs, git-changes-tab.ts).
THEOREM MessagesAreKept == GitSpec => MessageKept
<1>1. GitInit => Boxed(gt)
  BY BoxesStart
<1>2. Boxed(gt) /\ [GitNext]_gtvars => KeptStep
  BY ReadsKeep, ViewsKeep, ClickKeeps, TypesKeep, AnswerKeeps, OthersKeep DEF GitNext
<1>3. Boxed(gt) /\ [GitNext]_gtvars => Boxed(gt)' /\ [KeepsMessage]_gtvars
  BY <1>2 DEF KeptStep
<1>4. QED
  BY <1>1, <1>3, PTL DEF GitSpec, MessageKept

----------------------------------------------------------------------------
(* The pull requests.  What a merge or a close took off the list is with   *)
(* its request until the answer, and a request to merge names the commit   *)
(* its row showed.                                                         *)

TabFields == {"groups", "base", "listed", "lost", "drawn", "kind", "answered", "filter", "toggled",
              "want", "wantRead", "frame", "flashed", "jobs", "reads"}

AskFields == {"g", "n", "kind", "sha", "saw", "taken", "phase"}

PullFields == {"n", "sha", "checks", "armed"}

AskKinds == {"merge", "close", "arm", "rerun", "create"}

\* No list and no row is without its commit.
Committed(S) == \A p \in S : p.sha # 0

\* What was taken is what the request is about; a merge names what its row showed.
AskFits(j) ==
    /\ Has(j, AskFields) /\ j.g \in Groups /\ j.kind \in AskKinds
    /\ j.kind = "merge" => j.sha = j.saw /\ j.sha # 0
    /\ j.taken # {} => j.kind \in {"merge", "close"}
    /\ Committed(j.taken) /\ \A p \in j.taken : p.n = j.n

AsksFit(jobs) == \E S : jobs \in Seq(S) /\ \A j \in S : AskFits(j)

\* The pull request is with a request that took it off the list.
IsTaken(jobs, g, n) == \E i \in DOMAIN jobs : jobs[i].g = g /\ jobs[i].n = n /\ jobs[i].taken # {}

ListingFits(r) ==
    /\ Has(r, {"live", "act", "then", "forges", "on", "got"}) /\ Has(r.got, Groups)
    /\ \A g \in Groups : r.got[g] # <<>> => Committed(r.got[g][1])

RowsFit(rows) == Committed(rows) /\ \A row \in rows : row.offers \subseteq AskKinds

DrawnFits(drawn) ==
    /\ Has(drawn, Groups)
    /\ \A g \in Groups : Has(drawn[g], {"open", "rows", "there"}) /\ RowsFit(drawn[g].rows)

ListFits(t) ==
    /\ Has(t, TabFields) /\ Has(t.groups, Groups) /\ Has(t.base, Groups)
    /\ \A g \in Groups : Committed(t.groups[g])
    /\ t.listed \subseteq Groups /\ \A g \in Groups : g \notin t.listed => t.base[g] = {}
    /\ AsksFit(t.jobs)
    /\ \A r \in t.reads : ListingFits(r)
    /\ \A g \in Groups : \A p \in t.base[g] : (\E q \in t.groups[g] : q.n = p.n) \/ IsTaken(t.jobs, g, p.n)

TabFits(t) == ListFits(t) /\ DrawnFits(t.drawn)

\* The forges': one pull request of a number.
ForgeFits(S) ==
    /\ \A p \in S : Has(p, PullFields) /\ p.sha # 0
    /\ \A p, q \in S : p.n = q.n => p = q

ForgesFit(s) ==
    /\ Has(s, {"on", "unseen", "prs"}) /\ Has(s.prs, Groups) /\ s.unseen = FALSE
    /\ \A g \in Groups : ForgeFits(s.prs[g])

PullsInv == TabFits(pr) /\ ForgesFit(prsrv)

\* A tab that differs in nothing the invariant is about.
LEMMA SameFits ==
  ASSUME NEW f, NEW t, ListFits(f), Has(t, TabFields), t.groups = f.groups, t.base = f.base,
         t.listed = f.listed, t.jobs = f.jobs, t.reads = f.reads
  PROVE  ListFits(t) /\ (DrawnFits(t.drawn) => TabFits(t))
BY DEF ListFits, TabFits

\* Nothing drawn.
LEMMA NoneDrawn ==
  DrawnFits([g \in Groups |-> NoGroup])
BY DEF DrawnFits, NoGroup, Has, RowsFit, Committed

\* A paint draws the rows anew from the list.
LEMMA PaintFits ==
  ASSUME NEW t, ListFits(t)
  PROVE  TabFits(PaintPulls(t))
<1> DEFINE shown == {g \in t.listed : t.filter = "" \/ GroupMatches(t, g) \/ FilteredPRs(t, g) # {}}
           kind == IF t.listed = {} THEN "noforge"
                   ELSE IF t.filter = "" /\ \A g \in shown : t.groups[g] = {} THEN "caughtup"
                   ELSE IF shown = {} THEN "nomatch" ELSE "list"
           toggled == [g \in Groups |-> IF g \in t.listed THEN t.toggled[g] ELSE NoRepo]
           drawn == [g \in Groups |-> IF kind = "list" /\ g \in shown THEN PaintGroupBody(t, g) ELSE NoGroup]
           inner == PaintPullsInner(t)
           f == PaintPulls(t)
<1>1. inner = [t EXCEPT !.toggled = toggled, !.kind = kind, !.drawn = drawn]
  BY Zenon DEF PaintPullsInner
<1>2. DrawnFits(drawn)
  <2>1. Has(drawn, Groups) /\ \A g \in Groups : drawn[g] = PaintGroupBody(t, g) \/ drawn[g] = NoGroup
    BY Zenon DEF Has
  <2>2. ASSUME NEW g \in Groups
        PROVE  Has(PaintGroupBody(t, g), {"open", "rows", "there"}) /\ RowsFit(PaintGroupBody(t, g).rows)
    <3>1. FilteredPRs(t, g) \subseteq t.groups[g]
      BY DEF FilteredPRs
    <3>2. \A p : RenderPRRow(g, p).sha = p.sha /\ RenderPRRow(g, p).offers \subseteq AskKinds
      BY DEF RenderPRRow, AskKinds
    <3>3. PaintGroupBody(t, g).rows = {RenderPRRow(g, p) : p \in FilteredPRs(t, g)}
      BY DEF PaintGroupBody
    <3>4. RowsFit(PaintGroupBody(t, g).rows)
      BY <3>1, <3>2, <3>3 DEF RowsFit, Committed, ListFits
    <3>5. Has(PaintGroupBody(t, g), {"open", "rows", "there"})
      BY DEF PaintGroupBody, Has
    <3>6. QED
      BY <3>4, <3>5
  <2>3. Has(NoGroup, {"open", "rows", "there"}) /\ RowsFit(NoGroup.rows)
    BY DEF NoGroup, Has, RowsFit, Committed
  <2> HIDE DEF drawn
  <2>4. QED
    BY <2>1, <2>2, <2>3 DEF DrawnFits
<1>3. PICK frame : f = [inner EXCEPT !.frame = frame]
  BY Zenon DEF PaintPulls
<1> HIDE DEF shown, kind, toggled, drawn, inner, f
<1>4. /\ Has(f, TabFields) /\ f.drawn = drawn /\ f.groups = t.groups /\ f.base = t.base
      /\ f.listed = t.listed /\ f.jobs = t.jobs /\ f.reads = t.reads
  BY <1>1, <1>3 DEF ListFits, Has, TabFields
<1>5. TabFits(f)
  BY <1>2, <1>4, SameFits
<1>6. QED
  BY <1>5 DEF f

\* The pane replaced by a sentence.
LEMMA InsteadFits ==
  ASSUME NEW t, ListFits(t), NEW kind
  PROVE  TabFits(PaintInstead(t, kind))
<1> DEFINE drawn == [g \in Groups |-> NoGroup]
           f == PaintInstead(t, kind)
<1>1. f = [t EXCEPT !.kind = kind, !.drawn = drawn]
  BY Zenon DEF PaintInstead
<1>2. DrawnFits(drawn)
  BY NoneDrawn
<1> HIDE DEF drawn, f
<1>3. /\ Has(f, TabFields) /\ f.drawn = drawn /\ f.groups = t.groups /\ f.base = t.base
      /\ f.listed = t.listed /\ f.jobs = t.jobs /\ f.reads = t.reads
  BY <1>1 DEF ListFits, Has, TabFields
<1>4. TabFits(f)
  BY <1>2, <1>3, SameFits
<1>5. QED
  BY <1>4 DEF f

\* A read that begins makes the ones before it old, and has brought nothing.
LEMMA RefreshFits ==
  ASSUME NEW t, TabFits(t), NEW act, NEW then
  PROVE  TabFits(RefreshPRs(t, act, then))
<1> DEFINE nothing == [g \in Groups |-> <<>>]
           new == [live |-> TRUE, act |-> act, then |-> then, forges |-> FALSE, on |-> FALSE, got |-> nothing]
           old == {[r EXCEPT !.live = FALSE] : r \in t.reads}
           f == RefreshPRs(t, act, then)
<1>1. f = [t EXCEPT !.reads = old \cup {new}]
  BY Zenon DEF RefreshPRs
<1>2. Has(nothing, Groups) /\ \A g \in Groups : nothing[g] = <<>>
  BY DEF Has
<1> HIDE DEF nothing
<1>3. ListingFits(new)
  <2>1. Has(new, {"live", "act", "then", "forges", "on", "got"}) /\ new.got = nothing
    BY DEF Has
  <2> HIDE DEF new
  <2>2. QED
    BY <1>2, <2>1 DEF ListingFits
<1>4. \A r \in old : ListingFits(r)
  <2> TAKE r \in old
  <2>1. PICK q \in t.reads : r = [q EXCEPT !.live = FALSE]
    OBVIOUS
  <2>2. ListingFits(q)
    BY DEF TabFits, ListFits
  <2>3. Has(r, {"live", "act", "then", "forges", "on", "got"}) /\ r.got = q.got
    BY <2>1, <2>2 DEF ListingFits, Has
  <2>4. QED
    BY <2>2, <2>3 DEF ListingFits
<1> HIDE DEF new, old, f
<1>5. /\ Has(f, TabFields) /\ f.drawn = t.drawn /\ f.groups = t.groups /\ f.base = t.base
      /\ f.listed = t.listed /\ f.jobs = t.jobs /\ f.reads = old \cup {new}
  BY <1>1 DEF TabFits, ListFits, Has, TabFields
<1>6. TabFits(f)
  BY <1>3, <1>4, <1>5 DEF TabFits, ListFits
<1>7. QED
  BY <1>6 DEF f

\* Other reads than before, all of which fit.
LEMMA ReadsFit ==
  ASSUME NEW t, TabFits(t), NEW reads, \A r \in reads : ListingFits(r)
  PROVE  TabFits([t EXCEPT !.reads = reads])
<1> DEFINE f == [t EXCEPT !.reads = reads]
<1>1. /\ Has(f, TabFields) /\ f.drawn = t.drawn /\ f.groups = t.groups /\ f.base = t.base
      /\ f.listed = t.listed /\ f.jobs = t.jobs /\ f.reads = reads
  BY DEF TabFits, ListFits, Has, TabFields
<1> HIDE DEF f
<1>2. TabFits(f)
  BY <1>1 DEF TabFits, ListFits
<1>3. QED
  BY <1>2 DEF f

\* The placeholder gone.
LEMMA UnskeletonFits ==
  ASSUME NEW t, TabFits(t)
  PROVE  TabFits(Unskeleton(t))
<1> DEFINE f == [t EXCEPT !.kind = "blank"]
<1>1. /\ Has(f, TabFields) /\ f.drawn = t.drawn /\ f.groups = t.groups /\ f.base = t.base
      /\ f.listed = t.listed /\ f.jobs = t.jobs /\ f.reads = t.reads
  BY DEF TabFits, ListFits, Has, TabFields
<1> HIDE DEF f
<1>2. TabFits(f)
  BY <1>1, SameFits DEF TabFits
<1>3. QED
  BY <1>2 DEF f, Unskeleton

\* What an answer brought is the list and what it is measured against.
LEMMA ListedFits ==
  ASSUME NEW t, TabFits(t), NEW r, ListingFits(r), Gathered(r)
  PROVE  ListFits(SetPRGroups(t, r))
<1> DEFINE got == [g \in Groups |-> IF r.on THEN r.got[g][1] ELSE {}]
           listed == IF r.on THEN Groups ELSE {}
           lost == {g \in Groups : r.on /\ ~r.got[g][2]}
           f == SetPRGroups(t, r)
<1>1. f = [t EXCEPT !.groups = got, !.base = got, !.listed = listed, !.answered = TRUE, !.lost = lost]
  BY Zenon DEF SetPRGroups
<1>2. Has(got, Groups) /\ \A g \in Groups : Committed(got[g])
  <2>1. Has(got, Groups)
    BY DEF Has
  <2>2. \A g \in Groups : got[g] = {} \/ (r.on /\ got[g] = r.got[g][1])
    OBVIOUS
  <2> HIDE DEF got
  <2>3. QED
    BY <2>1, <2>2 DEF Committed, ListingFits, Gathered
<1>3. listed \subseteq Groups /\ \A g \in Groups : g \notin listed => got[g] = {}
  OBVIOUS
<1> HIDE DEF got, listed, lost, f
<1>4. /\ Has(f, TabFields) /\ f.groups = got /\ f.base = got
      /\ f.listed = listed /\ f.jobs = t.jobs /\ f.reads = t.reads
  BY <1>1 DEF TabFits, ListFits, Has, TabFields
<1>5. ListFits(f)
  BY <1>2, <1>3, <1>4 DEF TabFits, ListFits
<1>6. QED
  BY <1>5 DEF f

\* A step of the tab alone.
LEMMA TabAlone ==
  ASSUME PullsInv, TabFits(pr'), UNCHANGED prsrv
  PROVE  PullsInv'
BY DEF PullsInv

\* What was to follow a read opens the dialog or says the repository is unknown.
LEMMA ThenFits ==
  ASSUME NEW t, TabFits(t), NEW g, ThenOpens(t, g)
  PROVE  TabFits(pr')
BY InsteadFits DEF ThenOpens, TabFits

\* The reads of the listing.
LEMMA ListingSteps ==
  ASSUME PullsInv, ServerListsForges \/ ServerLists
  PROVE  PullsInv'
<1> DEFINE fields == {"live", "act", "then", "forges", "on", "got"}
<1>1. TabFits(pr) /\ ForgesFit(prsrv) /\ \A r \in pr.reads : ListingFits(r)
  BY DEF PullsInv, TabFits, ListFits
<1>2. CASE ServerListsForges
  <2>1. PICK r \in pr.reads :
          /\ pr' = [pr EXCEPT !.reads = (@ \ {r}) \cup {[r EXCEPT !.forges = TRUE, !.on = prsrv.on]}]
          /\ UNCHANGED prsrv
    BY <1>2, Zenon DEF ServerListsForges
  <2> DEFINE on == prsrv.on
             q == [r EXCEPT !.forges = TRUE, !.on = on]
  <2> HIDE DEF on
  <2>2. Has(q, fields) /\ q.got = r.got
    BY <1>1 DEF ListingFits, Has
  <2>3. ListingFits(q)
    BY <1>1, <2>2 DEF ListingFits
  <2> HIDE DEF q
  <2>4. TabFits([pr EXCEPT !.reads = (pr.reads \ {r}) \cup {q}])
    BY <1>1, <2>3, ReadsFit
  <2>5. QED
    BY <2>1, <2>4, TabAlone DEF q, on
<1>3. CASE ServerLists
  <2>1. PICK r \in pr.reads, g \in Groups, ok \in BOOLEAN :
          /\ pr' = [pr EXCEPT !.reads = (pr.reads \ {r}) \cup
                                          {[r EXCEPT !.got[g] = <<IF ok THEN prsrv.prs[g] ELSE {}, ok>>]}]
          /\ UNCHANGED prsrv
    BY <1>3, Zenon DEF ServerLists
  <2> DEFINE list == IF ok THEN prsrv.prs[g] ELSE {}
             got == [r.got EXCEPT ![g] = <<list, ok>>]
             q == [r EXCEPT !.got = got]
  <2>2. Committed(list)
    BY <1>1 DEF ForgesFit, ForgeFits, Committed
  <2> HIDE DEF list
  <2>3. Has(got, Groups) /\ \A h \in Groups : got[h] = IF h = g THEN <<list, ok>> ELSE r.got[h]
    BY <1>1 DEF ListingFits, Has
  <2>4. \A h \in Groups : got[h] # <<>> => Committed(got[h][1])
    BY <1>1, <2>2, <2>3 DEF ListingFits
  <2> HIDE DEF got
  <2>5. Has(q, fields) /\ q.got = got
    BY <1>1 DEF ListingFits, Has
  <2>6. ListingFits(q)
    BY <2>3, <2>4, <2>5 DEF ListingFits
  <2> HIDE DEF q
  <2>7. TabFits([pr EXCEPT !.reads = (pr.reads \ {r}) \cup {q}])
    BY <1>1, <2>6, ReadsFit
  <2>8. pr' = [pr EXCEPT !.reads = (pr.reads \ {r}) \cup {q}]
    BY <2>1, Zenon DEF q, got, list
  <2>9. QED
    BY <2>1, <2>7, <2>8, TabAlone
<1>4. QED
  BY <1>2, <1>3

\* A read is over, the newest with the list or any with nothing.
LEMMA ReadSteps ==
  ASSUME PullsInv, PullReadArrives \/ ReadEnds \/ ShowPRSkeleton \/ RefreshAction \/ OpenNewPRForRepo
  PROVE  PullsInv'
<1>1. TabFits(pr) /\ \A r \in pr.reads : ListingFits(r)
  BY DEF PullsInv, TabFits, ListFits
<1>2. \A r : TabFits([Unskeleton(pr) EXCEPT !.reads = @ \ {r}])
  <2> TAKE r
  <2> DEFINE t == Unskeleton(pr)
  <2>1. TabFits(t)
    BY <1>1, UnskeletonFits
  <2> HIDE DEF t
  <2>2. TabFits([t EXCEPT !.reads = t.reads \ {r}])
    BY <2>1, ReadsFit DEF TabFits, ListFits
  <2>3. QED
    BY <2>2 DEF t
<1>3. CASE PullReadArrives
  <2>1. PICK r \in pr.reads :
          /\ Gathered(r) /\ UNCHANGED prsrv
          /\ LET t == [Unskeleton(pr) EXCEPT !.reads = @ \ {r}]
             IN  ThenOpens(IF Counts(r) THEN PaintPulls(SetPRGroups(t, r)) ELSE t, r.then)
    BY <1>3 DEF PullReadArrives
  <2> DEFINE t == [Unskeleton(pr) EXCEPT !.reads = @ \ {r}]
             f == IF Counts(r) THEN PaintPulls(SetPRGroups(t, r)) ELSE t
  <2>2. TabFits(t)
    BY <1>2
  <2> HIDE DEF t
  <2>3. TabFits(f)
    BY <1>1, <2>1, <2>2, ListedFits, PaintFits
  <2> HIDE DEF f
  <2>4. ThenOpens(f, r.then)
    BY <2>1 DEF f, t
  <2>5. QED
    BY <2>1, <2>3, <2>4, ThenFits, TabAlone
<1>4. CASE ReadEnds
  <2>1. PICK r \in pr.reads, timeout \in BOOLEAN :
          /\ UNCHANGED prsrv
          /\ LET t == [Unskeleton(pr) EXCEPT !.reads = @ \ {r}]
             IN  ThenOpens(IF timeout THEN t ELSE PaintInstead(t, "error"), r.then)
    BY <1>4 DEF ReadEnds
  <2> DEFINE t == [Unskeleton(pr) EXCEPT !.reads = @ \ {r}]
             f == IF timeout THEN t ELSE PaintInstead(t, "error")
  <2>2. TabFits(t)
    BY <1>2
  <2> HIDE DEF t
  <2>3. TabFits(f)
    BY <2>2, InsteadFits DEF TabFits
  <2> HIDE DEF f
  <2>4. ThenOpens(f, r.then)
    BY <2>1 DEF f, t
  <2>5. QED
    BY <2>1, <2>3, <2>4, ThenFits, TabAlone
<1>5. CASE ShowPRSkeleton
  <2>1. pr' = [pr EXCEPT !.kind = "skeleton"] /\ UNCHANGED prsrv
    BY <1>5 DEF ShowPRSkeleton
  <2>2. /\ Has(pr', TabFields) /\ pr'.drawn = pr.drawn /\ pr'.groups = pr.groups /\ pr'.base = pr.base
        /\ pr'.listed = pr.listed /\ pr'.jobs = pr.jobs /\ pr'.reads = pr.reads
    BY <1>1, <2>1 DEF TabFits, ListFits, Has, TabFields
  <2>3. QED
    BY <1>1, <2>1, <2>2, SameFits, TabAlone DEF TabFits
<1>6. CASE RefreshAction
  BY <1>1, <1>6, RefreshFits, TabAlone DEF RefreshAction
<1>7. CASE OpenNewPRForRepo
  BY <1>1, <1>7, RefreshFits, ThenFits, TabAlone DEF OpenNewPRForRepo
<1>8. QED
  BY <1>3, <1>4, <1>5, <1>6, <1>7

\* The reader's view, and a link that asks for a row.
LEMMA PullViewSteps ==
  ASSUME PullsInv, RequestPRFocus \/ AttemptFocus \/ ToggleGroup \/ PrsFind
  PROVE  PullsInv'
<1>1. TabFits(pr) /\ ListFits(pr) /\ Has(pr, TabFields)
  BY DEF PullsInv, TabFits, ListFits
<1>2. ASSUME NEW t, Has(t, TabFields), t.drawn = pr.drawn, t.groups = pr.groups, t.base = pr.base,
             t.listed = pr.listed, t.jobs = pr.jobs, t.reads = pr.reads
      PROVE  TabFits(t) /\ ListFits(t)
  BY <1>1, <1>2, SameFits DEF TabFits
<1>3. CASE RequestPRFocus
  <2>1. PICK want : /\ pr' = PaintPulls([pr EXCEPT !.want = want, !.wantRead = FALSE, !.flashed = NoWant])
                    /\ UNCHANGED prsrv
    BY <1>3 DEF RequestPRFocus
  <2> DEFINE t == [pr EXCEPT !.want = want, !.wantRead = FALSE, !.flashed = NoWant]
  <2>2. /\ Has(t, TabFields) /\ t.drawn = pr.drawn /\ t.groups = pr.groups /\ t.base = pr.base
        /\ t.listed = pr.listed /\ t.jobs = pr.jobs /\ t.reads = pr.reads
    BY <1>1 DEF Has, TabFields
  <2>3. pr' = PaintPulls(t)
    BY <2>1
  <2> HIDE DEF t
  <2>4. QED
    BY <1>2, <2>1, <2>2, <2>3, PaintFits, TabAlone
<1>4. CASE AttemptFocus
  <2> DEFINE t == [pr EXCEPT !.frame = FALSE]
  <2>1. /\ UNCHANGED prsrv
        /\ \/ pr' = t
           \/ pr' = [t EXCEPT !.want = NoWant, !.wantRead = FALSE, !.flashed = pr.want]
           \/ pr' = [t EXCEPT !.want = NoWant]
           \/ pr' = RefreshPRs([t EXCEPT !.wantRead = TRUE], FALSE, NoRepo)
    BY <1>4, Zenon DEF AttemptFocus
  <2>2. /\ Has(t, TabFields) /\ t.drawn = pr.drawn /\ t.groups = pr.groups /\ t.base = pr.base
        /\ t.listed = pr.listed /\ t.jobs = pr.jobs /\ t.reads = pr.reads
    BY <1>1 DEF Has, TabFields
  <2> HIDE DEF t
  <2> DEFINE u == [t EXCEPT !.wantRead = TRUE]
  <2>3. /\ Has(u, TabFields) /\ u.drawn = pr.drawn /\ u.groups = pr.groups /\ u.base = pr.base
        /\ u.listed = pr.listed /\ u.jobs = pr.jobs /\ u.reads = pr.reads
    BY <2>2 DEF Has, TabFields
  <2> HIDE DEF u
  <2>4. CASE pr' = RefreshPRs(u, FALSE, NoRepo)
    BY <1>2, <2>1, <2>3, <2>4, RefreshFits, TabAlone
  <2>5. CASE pr' = [t EXCEPT !.want = NoWant, !.wantRead = FALSE, !.flashed = pr.want]
    <3>1. /\ Has(pr', TabFields) /\ pr'.drawn = pr.drawn /\ pr'.groups = pr.groups /\ pr'.base = pr.base
          /\ pr'.listed = pr.listed /\ pr'.jobs = pr.jobs /\ pr'.reads = pr.reads
      BY <2>2, <2>5 DEF Has, TabFields
    <3>2. QED
      BY <1>1, <2>1, <3>1, SameFits, TabAlone DEF TabFits
  <2>6. CASE pr' = t \/ pr' = [t EXCEPT !.want = NoWant]
    <3>1. /\ Has(pr', TabFields) /\ pr'.drawn = pr.drawn /\ pr'.groups = pr.groups /\ pr'.base = pr.base
          /\ pr'.listed = pr.listed /\ pr'.jobs = pr.jobs /\ pr'.reads = pr.reads
      BY <2>2, <2>6 DEF Has, TabFields
    <3>2. QED
      BY <1>1, <2>1, <3>1, SameFits, TabAlone DEF TabFits
  <2>7. QED
    BY <2>1, <2>4, <2>5, <2>6 DEF u
<1>5. CASE ToggleGroup
  <2>0. PICK g \in Groups : \E way :
          /\ pr' = [pr EXCEPT !.drawn[g].open = ~@, !.toggled[g] = way]
          /\ UNCHANGED prsrv
    BY <1>5, Zenon DEF ToggleGroup
  <2>1. PICK way :
          /\ pr' = [pr EXCEPT !.drawn[g].open = ~@, !.toggled[g] = way]
          /\ UNCHANGED prsrv
    BY <2>0, Zenon
  <2> DEFINE open == ~pr.drawn[g].open
             drawn == [pr.drawn EXCEPT ![g] = [@ EXCEPT !.open = open]]
             toggled == [pr.toggled EXCEPT ![g] = way]
  <2>2. pr' = [pr EXCEPT !.drawn = drawn, !.toggled = toggled]
    BY <2>1, Zenon
  <2> HIDE DEF open
  <2>3. DrawnFits(drawn)
    <3>1. DrawnFits(pr.drawn)
      BY <1>1 DEF TabFits
    <3>2. Has(drawn, Groups) /\ \A h \in Groups : h # g => drawn[h] = pr.drawn[h]
      BY <3>1 DEF DrawnFits, Has
    <3>3. drawn[g] = [pr.drawn[g] EXCEPT !.open = open]
      BY <3>1 DEF DrawnFits, Has
    <3>4. Has(pr.drawn[g], {"open", "rows", "there"})
      BY <3>1 DEF DrawnFits
    <3> HIDE DEF drawn
    <3>5. Has(drawn[g], {"open", "rows", "there"}) /\ drawn[g].rows = pr.drawn[g].rows
      BY <3>3, <3>4 DEF Has
    <3>6. QED
      BY <3>1, <3>2, <3>5 DEF DrawnFits
  <2> HIDE DEF drawn, toggled
  <2>4. /\ Has(pr', TabFields) /\ pr'.drawn = drawn /\ pr'.groups = pr.groups /\ pr'.base = pr.base
        /\ pr'.listed = pr.listed /\ pr'.jobs = pr.jobs /\ pr'.reads = pr.reads
    BY <1>1, <2>2 DEF Has, TabFields
  <2>5. QED
    BY <1>1, <2>1, <2>3, <2>4, SameFits, TabAlone
<1>6. CASE PrsFind
  <2>1. PICK f : pr' = PaintPulls([pr EXCEPT !.filter = f]) /\ UNCHANGED prsrv
    BY <1>6 DEF PrsFind
  <2> DEFINE t == [pr EXCEPT !.filter = f]
  <2>2. /\ Has(t, TabFields) /\ t.drawn = pr.drawn /\ t.groups = pr.groups /\ t.base = pr.base
        /\ t.listed = pr.listed /\ t.jobs = pr.jobs /\ t.reads = pr.reads
    BY <1>1 DEF Has, TabFields
  <2>3. pr' = PaintPulls(t)
    BY <2>1
  <2> HIDE DEF t
  <2>4. QED
    BY <1>2, <2>1, <2>2, <2>3, PaintFits, TabAlone
<1>7. QED
  BY <1>3, <1>4, <1>5, <1>6

----------------------------------------------------------------------------
\* One request more.
LEMMA AskAdded ==
  ASSUME NEW jobs, AsksFit(jobs), NEW j, AskFits(j)
  PROVE  /\ AsksFit(Append(jobs, j))
         /\ \A g, n : IsTaken(jobs, g, n) => IsTaken(Append(jobs, j), g, n)
         /\ j.taken # {} => IsTaken(Append(jobs, j), j.g, j.n)
<1> DEFINE more == Append(jobs, j)
<1>1. PICK S : jobs \in Seq(S) /\ \A i \in S : AskFits(i)
  BY DEF AsksFit
<1>2. more \in Seq(S \cup {j})
  BY <1>1
<1>3. /\ \A i \in DOMAIN jobs : i \in DOMAIN more /\ more[i] = jobs[i]
      /\ Len(jobs) + 1 \in DOMAIN more /\ more[Len(jobs) + 1] = j
  BY <1>1
<1> HIDE DEF more
<1>4. AsksFit(more)
  BY <1>1, <1>2 DEF AsksFit
<1>5. /\ \A g, n : IsTaken(jobs, g, n) => IsTaken(more, g, n)
      /\ j.taken # {} => IsTaken(more, j.g, j.n)
  BY <1>3 DEF IsTaken
<1>6. QED
  BY <1>4, <1>5 DEF more

\* A request that moves on is about what it was about.
LEMMA AskMoved ==
  ASSUME NEW jobs, AsksFit(jobs), NEW i \in DOMAIN jobs, NEW phase
  PROVE  LET moved == [jobs EXCEPT ![i].phase = phase]
         IN  AsksFit(moved) /\ \A g, n : IsTaken(jobs, g, n) => IsTaken(moved, g, n)
<1>1. PICK S : jobs \in Seq(S) /\ \A j \in S : AskFits(j)
  BY DEF AsksFit
<1> DEFINE j == [jobs[i] EXCEPT !.phase = phase]
           moved == [jobs EXCEPT ![i] = j]
<1>2. AskFits(jobs[i])
  BY <1>1
<1>3. Has(j, AskFields) /\ \A k \in AskFields : k # "phase" => j[k] = jobs[i][k]
  BY <1>2 DEF AskFits, Has, AskFields
<1> HIDE DEF j
<1>4. AskFits(j) /\ j.g = jobs[i].g /\ j.n = jobs[i].n /\ j.taken = jobs[i].taken
  BY <1>2, <1>3 DEF AskFits, AskFields
<1>5. moved \in Seq(S \cup {j})
  BY <1>1
<1>6. DOMAIN moved = DOMAIN jobs /\ moved[i] = j /\ \A k \in DOMAIN jobs : k # i => moved[k] = jobs[k]
  BY <1>1
<1> HIDE DEF moved
<1>7. AsksFit(moved)
  BY <1>1, <1>4, <1>5 DEF AsksFit
<1>8. \A g, n : IsTaken(jobs, g, n) => IsTaken(moved, g, n)
  BY <1>4, <1>6 DEF IsTaken
<1>9. QED
  BY <1>7, <1>8 DEF moved, j

\* A request that was answered leaves the others.
LEMMA AskDone ==
  ASSUME NEW jobs, AsksFit(jobs), NEW i \in DOMAIN jobs
  PROVE  /\ AskFits(jobs[i]) /\ AsksFit(RemoveAt(jobs, i))
         /\ \A g, n : IsTaken(jobs, g, n) =>
              \/ IsTaken(RemoveAt(jobs, i), g, n)
              \/ jobs[i].g = g /\ jobs[i].n = n /\ jobs[i].taken # {}
<1>1. PICK S : jobs \in Seq(S) /\ \A j \in S : AskFits(j)
  BY DEF AsksFit
<1>2. i \in 1..Len(jobs) /\ Len(jobs) \in Nat /\ DOMAIN jobs = 1..Len(jobs)
  BY <1>1
<1> DEFINE before == SubSeq(jobs, 1, i - 1)
           after == SubSeq(jobs, i + 1, Len(jobs))
           left == RemoveAt(jobs, i)
<1>3. before \in Seq(S) /\ after \in Seq(S)
  BY <1>1, <1>2
<1>4. left = before \o after
  BY DEF RemoveAt
<1>5. Len(before) = i - 1 /\ \A k \in 1 .. i - 1 : before[k] = jobs[k]
  BY <1>1, <1>2, SubSeqProperties
<1>6. Len(after) = Len(jobs) - i /\ \A k \in 1 .. Len(jobs) - i : after[k] = jobs[i + k]
  BY <1>1, <1>2, SubSeqProperties
<1> HIDE DEF before, after, left
<1>7. left \in Seq(S)
  BY <1>3, <1>4
<1>8. ASSUME NEW k \in DOMAIN jobs, k # i
      PROVE  \E m \in DOMAIN left : left[m] = jobs[k]
  <2>1. CASE k < i
    BY <1>2, <1>3, <1>4, <1>5, <2>1
  <2>2. CASE k > i
    <3>1. k - i \in 1 .. Len(after) /\ after[k - i] = jobs[k]
      BY <1>2, <1>6, <2>2
    <3>2. k - 1 \in 1 .. Len(left) /\ left[k - 1] = after[k - i]
      BY <1>2, <1>3, <1>4, <1>5, <1>6, <2>2, ConcatProperties
    <3>3. QED
      BY <1>7, <3>1, <3>2
  <2>3. QED
    BY <1>2, <1>8, <2>1, <2>2
<1>9. AsksFit(left)
  BY <1>1, <1>7 DEF AsksFit
<1>10. \A g, n : IsTaken(jobs, g, n) =>
          IsTaken(left, g, n) \/ (jobs[i].g = g /\ jobs[i].n = n /\ jobs[i].taken # {})
  BY <1>8 DEF IsTaken
<1>11. QED
  BY <1>1, <1>9, <1>10 DEF left

\* The dialog is of a repository there is.
DialogFits(d) == Has(d, {"on", "body", "status", "gens"}) /\ d.on \in Groups \cup {NoRepo}

\* The reader merges, closes, arms or runs again.
LEMMA AsksStep ==
  ASSUME PullsInv, Asks
  PROVE  PullsInv'
<1>1. /\ TabFits(pr) /\ ListFits(pr) /\ DrawnFits(pr.drawn) /\ Has(pr, TabFields) /\ AsksFit(pr.jobs)
      /\ Has(pr.groups, Groups)
  BY DEF PullsInv, TabFits, ListFits
<1>2. PICK g, row, kind :
        g \in Groups /\ row \in pr.drawn[g].rows /\ kind \in row.offers /\
        LET taken == IF kind \in {"merge", "close"} THEN {p \in pr.groups[g] : p.n = row.n} ELSE {}
            job == [g |-> g, n |-> row.n, kind |-> kind, sha |-> IF kind = "close" THEN 0 ELSE PinnedSha(row),
                    saw |-> row.sha, taken |-> taken, phase |-> "out"]
            t == [pr EXCEPT !.jobs = Append(@, job)]
        IN  /\ pr' = IF taken = {} THEN t ELSE RemovePRFromGroups(t, g, row.n)
            /\ UNCHANGED prsrv
  BY Zenon DEF Asks
<1> DEFINE taken == IF kind \in {"merge", "close"} THEN {p \in pr.groups[g] : p.n = row.n} ELSE {}
           sha == IF kind = "close" THEN 0 ELSE PinnedSha(row)
           job == [g |-> g, n |-> row.n, kind |-> kind, sha |-> sha,
                   saw |-> row.sha, taken |-> taken, phase |-> "out"]
           jobs == Append(pr.jobs, job)
           t == [pr EXCEPT !.jobs = jobs]
           left == {p \in t.groups[g] : p.n # row.n}
           groups == [t.groups EXCEPT ![g] = left]
           u == [t EXCEPT !.groups = groups]
<1>3. g \in Groups /\ row.sha # 0 /\ kind \in AskKinds
  BY <1>1, <1>2 DEF DrawnFits, RowsFit, Committed
<1>4. /\ taken # {} => kind \in {"merge", "close"}
      /\ Committed(taken) /\ \A p \in taken : p.n = row.n
  BY <1>1, <1>2 DEF ListFits, Committed
<1>5. kind = "merge" => sha = row.sha
  BY DEF PinnedSha
<1>6. taken = {} \/ taken = {p \in pr.groups[g] : p.n = row.n}
  OBVIOUS
<1>7. pr' = (IF taken = {} THEN t ELSE PaintPulls(u)) /\ UNCHANGED prsrv
  BY <1>2, Zenon DEF RemovePRFromGroups
<1> HIDE DEF taken, sha
<1>8. /\ Has(job, AskFields) /\ job.g = g /\ job.n = row.n /\ job.kind = kind /\ job.sha = sha
      /\ job.saw = row.sha /\ job.taken = taken
  BY DEF Has, AskFields
<1> HIDE DEF job
<1>9. AskFits(job)
  BY <1>3, <1>4, <1>5, <1>8 DEF AskFits
<1>10. /\ AsksFit(jobs) /\ \A h, n : IsTaken(pr.jobs, h, n) => IsTaken(jobs, h, n)
       /\ taken # {} => IsTaken(jobs, g, row.n)
  BY <1>1, <1>8, <1>9, AskAdded
<1> HIDE DEF jobs
<1>11. /\ Has(t, TabFields) /\ t.drawn = pr.drawn /\ t.groups = pr.groups /\ t.base = pr.base
       /\ t.listed = pr.listed /\ t.jobs = jobs /\ t.reads = pr.reads
  BY <1>1 DEF Has, TabFields
<1> HIDE DEF t
<1>12. ListFits(t)
  BY <1>1, <1>10, <1>11 DEF ListFits
<1>13. CASE taken = {}
  BY <1>1, <1>7, <1>11, <1>12, <1>13, TabAlone DEF TabFits
<1>14. CASE taken # {}
  <2>1. /\ Has(groups, Groups) /\ groups[g] = left
        /\ \A h \in Groups : h # g => groups[h] = pr.groups[h]
    BY <1>1, <1>3, <1>11 DEF Has
  <2>2. \A p \in pr.groups[g] : p \in left \/ p.n = row.n
    BY <1>11
  <2>3. left \subseteq pr.groups[g]
    BY <1>11
  <2> HIDE DEF groups, left
  <2>4. /\ Has(u, TabFields) /\ u.drawn = pr.drawn /\ u.groups = groups /\ u.base = pr.base
        /\ u.listed = pr.listed /\ u.jobs = jobs /\ u.reads = pr.reads
    BY <1>11 DEF Has, TabFields
  <2> HIDE DEF u
  <2>5. \A h \in Groups : Committed(groups[h])
    BY <1>1, <2>1, <2>3 DEF ListFits, Committed
  <2>6. \A h \in Groups : \A p \in pr.base[h] : (\E q \in groups[h] : q.n = p.n) \/ IsTaken(jobs, h, p.n)
    BY <1>1, <1>10, <1>14, <2>1, <2>2 DEF ListFits
  <2>7. ListFits(u)
    BY <1>1, <1>10, <2>1, <2>4, <2>5, <2>6 DEF ListFits
  <2>8. TabFits(pr')
    BY <1>7, <1>14, <2>7, PaintFits
  <2>9. QED
    BY <1>7, <2>8, TabAlone
<1>15. QED
  BY <1>13, <1>14

\* The jobs alone change, and what was taken is still with one of them.
LEMMA JobsFitOnly ==
  ASSUME NEW t, TabFits(t), NEW jobs, AsksFit(jobs),
         \A g, n : IsTaken(t.jobs, g, n) => IsTaken(jobs, g, n)
  PROVE  TabFits([t EXCEPT !.jobs = jobs])
<1> DEFINE f == [t EXCEPT !.jobs = jobs]
<1>1. /\ Has(f, TabFields) /\ f.drawn = t.drawn /\ f.groups = t.groups /\ f.base = t.base
      /\ f.listed = t.listed /\ f.jobs = jobs /\ f.reads = t.reads
  BY DEF TabFits, ListFits, Has, TabFields
<1> HIDE DEF f
<1>2. TabFits(f)
  BY <1>1 DEF TabFits, ListFits
<1>3. QED
  BY <1>2 DEF f

\* The dialog's pull request, and a request that does not reach the forge.
LEMMA SentSteps ==
  ASSUME PullsInv, DialogFits(prdlg), SubmitsPR \/ NotReached
  PROVE  PullsInv'
<1>1. TabFits(pr) /\ AsksFit(pr.jobs)
  BY DEF PullsInv, TabFits, ListFits
<1>2. CASE SubmitsPR
  <2> DEFINE job == [g |-> prdlg.on, n |-> 0, kind |-> "create", sha |-> 0, saw |-> 0,
                     taken |-> {}, phase |-> "out"]
  <2>1. pr' = [pr EXCEPT !.jobs = Append(pr.jobs, job)] /\ UNCHANGED prsrv
    BY <1>2, Zenon DEF SubmitsPR
  <2>2. Has(job, AskFields) /\ job.g = prdlg.on /\ job.kind = "create" /\ job.taken = {}
    BY DEF Has, AskFields
  <2>3. prdlg.on \in Groups
    BY <1>2 DEF SubmitsPR, DialogFits
  <2> HIDE DEF job
  <2>4. AskFits(job)
    BY <2>2, <2>3 DEF AskFits, AskKinds, Committed
  <2>5. QED
    BY <1>1, <2>1, <2>4, AskAdded, JobsFitOnly, TabAlone
<1>3. CASE NotReached
  <2>1. PICK i \in DOMAIN pr.jobs : pr' = [pr EXCEPT !.jobs[i].phase = "fail"] /\ UNCHANGED prsrv
    BY <1>3, Zenon DEF NotReached
  <2> DEFINE moved == [pr.jobs EXCEPT ![i].phase = "fail"]
  <2>2. pr' = [pr EXCEPT !.jobs = moved]
    BY <2>1, Zenon
  <2>3. AsksFit(moved) /\ \A g, n : IsTaken(pr.jobs, g, n) => IsTaken(moved, g, n)
    BY <1>1, AskMoved
  <2> HIDE DEF moved
  <2>4. QED
    BY <1>1, <2>1, <2>2, <2>3, JobsFitOnly, TabAlone
<1>4. QED
  BY <1>2, <1>3

\* What the forge does leaves one pull request of a number, each with its commit.
LEMMA DoneFits ==
  ASSUME NEW j, AskFits(j), ForgesFit(prsrv), ForgeAccepts(j)
  PROVE  ForgeFits(PullDone(j))
<1> DEFINE S == prsrv.prs[j.g]
           rest == S \ Of(j.g, j.n)
           p == CHOOSE x \in Of(j.g, j.n) : TRUE
           new == [n |-> 2, sha |-> 1, checks |-> "running", armed |-> FALSE]
<1>1. ForgeFits(S)
  BY DEF ForgesFit, AskFits
<1>2. ForgeFits(rest) /\ \A q \in rest : q.n # j.n
  BY <1>1 DEF ForgeFits, Of
<1>3. CASE j.kind \in {"merge", "close"}
  <2>1. PullDone(j) = rest
    BY <1>3, Zenon DEF PullDone
  <2>2. QED
    BY <1>2, <2>1
<1>4. CASE j.kind = "create"
  <2>1. PullDone(j) = rest \cup {new}
    BY <1>4, Zenon DEF PullDone
  <2>2. \A q \in S : q.n # 2
    BY <1>4 DEF ForgeAccepts
  <2>3. Has(new, PullFields) /\ new.sha = 1 /\ new.n = 2
    BY DEF Has, PullFields
  <2> HIDE DEF new
  <2>4. QED
    BY <1>2, <2>1, <2>2, <2>3 DEF ForgeFits
<1>5. CASE j.kind \in {"arm", "rerun"}
  <2>1. PICK q : /\ PullDone(j) = rest \cup {q}
                 /\ q = [p EXCEPT !.armed = TRUE] \/ q = [p EXCEPT !.checks = "running"]
    BY <1>5, Zenon DEF PullDone
  <2>2. p \in Of(j.g, j.n)
    BY <1>5 DEF ForgeAccepts
  <2> HIDE DEF p
  <2>3. Has(p, PullFields) /\ p.sha # 0 /\ p.n = j.n
    BY <1>1, <2>2 DEF ForgeFits, Of
  <2>4. Has(q, PullFields) /\ q.sha = p.sha /\ q.n = p.n
    BY <2>1, <2>3 DEF Has, PullFields
  <2> HIDE DEF rest
  <2>5. QED
    BY <1>2, <2>1, <2>3, <2>4 DEF ForgeFits
<1>6. QED
  BY <1>3, <1>4, <1>5 DEF AskFits, AskKinds

\* The forge acts or refuses.
LEMMA ForgeActsStep ==
  ASSUME PullsInv, ForgeActs
  PROVE  PullsInv'
<1>1. TabFits(pr) /\ AsksFit(pr.jobs) /\ ForgesFit(prsrv)
  BY DEF PullsInv, TabFits, ListFits
<1>2. PICK i \in DOMAIN pr.jobs :
        LET j == pr.jobs[i]
        IN  IF ForgeAccepts(j)
            THEN /\ prsrv' = [prsrv EXCEPT !.prs[j.g] = PullDone(j),
                                           !.unseen = @ \/ (j.kind = "merge" /\ \E p \in Of(j.g, j.n) : p.sha # j.saw)]
                 /\ pr' = [pr EXCEPT !.jobs[i].phase = "ok"]
            ELSE /\ pr' = [pr EXCEPT !.jobs[i].phase = "fail"]
                 /\ UNCHANGED prsrv
  BY Zenon DEF ForgeActs
<1> DEFINE j == pr.jobs[i]
<1>3. AskFits(j)
  BY <1>1, AskDone
<1>4. \A phase : TabFits([pr EXCEPT !.jobs[i].phase = phase])
  <2> TAKE phase
  <2> DEFINE moved == [pr.jobs EXCEPT ![i].phase = phase]
  <2>1. AsksFit(moved) /\ \A g, n : IsTaken(pr.jobs, g, n) => IsTaken(moved, g, n)
    BY <1>1, AskMoved
  <2>2. [pr EXCEPT !.jobs[i].phase = phase] = [pr EXCEPT !.jobs = moved]
    BY Zenon
  <2> HIDE DEF moved
  <2>3. QED
    BY <1>1, <2>1, <2>2, JobsFitOnly
<1>5. TabFits(pr')
  BY <1>2, <1>4
<1>6. CASE ForgeAccepts(j)
  <2> DEFINE unseen == prsrv.unseen \/ (j.kind = "merge" /\ \E p \in Of(j.g, j.n) : p.sha # j.saw)
             prs == [prsrv.prs EXCEPT ![j.g] = PullDone(j)]
  <2>1. prsrv' = [prsrv EXCEPT !.prs = prs, !.unseen = unseen]
    BY <1>2, <1>6, Zenon
  <2>2. unseen = FALSE
    <3>1. prsrv.unseen = FALSE
      BY <1>1 DEF ForgesFit
    <3>2. ASSUME j.kind = "merge", NEW p \in Of(j.g, j.n)
          PROVE  p.sha = j.saw
      <4>1. PICK q \in Of(j.g, j.n) : j.sha \in {0, q.sha}
        BY <1>6, <3>2 DEF ForgeAccepts
      <4>2. q.sha = j.saw
        BY <1>3, <3>2, <4>1 DEF AskFits
      <4>3. p = q
        BY <1>1, <1>3, <4>1 DEF ForgesFit, ForgeFits, Of, AskFits
      <4>4. QED
        BY <4>2, <4>3
    <3>3. QED
      BY <3>1, <3>2
  <2>3. Has(prs, Groups) /\ \A g \in Groups : ForgeFits(prs[g])
    <3>1. ForgeFits(PullDone(j))
      BY <1>1, <1>3, <1>6, DoneFits
    <3>2. Has(prsrv.prs, Groups) /\ \A g \in Groups : ForgeFits(prsrv.prs[g])
      BY <1>1 DEF ForgesFit
    <3> HIDE DEF j
    <3>3. QED
      BY <3>1, <3>2 DEF Has
  <2> HIDE DEF unseen, prs, j
  <2>4. Has(prsrv', {"on", "unseen", "prs"}) /\ prsrv'.prs = prs /\ prsrv'.unseen = unseen
    BY <1>1, <2>1 DEF ForgesFit, Has
  <2>5. ForgesFit(prsrv')
    BY <2>2, <2>3, <2>4 DEF ForgesFit
  <2>6. QED
    BY <1>5, <2>5 DEF PullsInv
<1>7. CASE ~ForgeAccepts(j)
  BY <1>2, <1>5, <1>7, TabAlone
<1>8. QED
  BY <1>6, <1>7

\* What was refused comes back; what was done leaves the list it is measured against as well.
LEMMA PullAnsweredStep ==
  ASSUME PullsInv, PullAnswered
  PROVE  PullsInv'
<1>1. /\ TabFits(pr) /\ ListFits(pr) /\ DrawnFits(pr.drawn) /\ Has(pr, TabFields) /\ AsksFit(pr.jobs)
      /\ Has(pr.groups, Groups) /\ Has(pr.base, Groups)
  BY DEF PullsInv, TabFits, ListFits
<1>2. PICK i \in DOMAIN pr.jobs :
        LET j == pr.jobs[i]
            t == [pr EXCEPT !.jobs = RemoveAt(@, i)]
        IN  /\ UNCHANGED prsrv
            /\ j.phase # "out"
            /\ pr' = IF j.phase = "fail" THEN (IF j.taken = {} THEN t ELSE ReinsertPRInGroups(t, j))
                     ELSE IF j.kind \in {"merge", "close"}
                     THEN [t EXCEPT !.base[j.g] = {p \in @ : p.n # j.n}]
                     ELSE RefreshPRs(t, FALSE, NoRepo)
  BY Zenon DEF PullAnswered
<1> DEFINE j == pr.jobs[i]
           jobs == RemoveAt(pr.jobs, i)
           t == [pr EXCEPT !.jobs = jobs]
           base == [t.base EXCEPT ![j.g] = {p \in @ : p.n # j.n}]
           groups == [t.groups EXCEPT ![j.g] = @ \cup j.taken]
           u == [t EXCEPT !.base = base]
           v == [t EXCEPT !.groups = groups]
<1>3. UNCHANGED prsrv /\ AskFits(j) /\ AsksFit(jobs)
  BY <1>1, <1>2, AskDone
<1>4. \A g, n : IsTaken(pr.jobs, g, n) => IsTaken(jobs, g, n) \/ (j.g = g /\ j.n = n /\ j.taken # {})
  BY <1>1, AskDone
<1>5. \/ j.taken = {} /\ (pr' = t \/ pr' = RefreshPRs(t, FALSE, NoRepo))
      \/ j.taken # {} /\ pr' = ReinsertPRInGroups(t, j)
      \/ pr' = u
  <2>1. j.kind \notin {"merge", "close"} => j.taken = {}
    BY <1>3 DEF AskFits
  <2>2. pr' = IF j.phase = "fail" THEN (IF j.taken = {} THEN t ELSE ReinsertPRInGroups(t, j))
              ELSE IF j.kind \in {"merge", "close"} THEN u ELSE RefreshPRs(t, FALSE, NoRepo)
    BY <1>2, Zenon
  <2> HIDE DEF t, u, j
  <2>3. QED
    BY <2>1, <2>2
<1>6. ReinsertPRInGroups(t, j) = IF j.g \notin t.listed \/ \E p \in t.groups[j.g] : p.n = j.n THEN t ELSE PaintPulls(v)
  BY Zenon DEF ReinsertPRInGroups
<1> HIDE DEF j, jobs
<1>7. /\ Has(t, TabFields) /\ t.drawn = pr.drawn /\ t.groups = pr.groups /\ t.base = pr.base
      /\ t.listed = pr.listed /\ t.jobs = jobs /\ t.reads = pr.reads
  BY <1>1 DEF Has, TabFields
<1> HIDE DEF t
<1>8. \A g \in Groups : \A p \in pr.base[g] :
        \/ \E q \in pr.groups[g] : q.n = p.n
        \/ IsTaken(jobs, g, p.n)
        \/ j.g = g /\ j.n = p.n /\ j.taken # {}
  BY <1>1, <1>4 DEF ListFits
<1>9. CASE j.taken = {} /\ (pr' = t \/ pr' = RefreshPRs(t, FALSE, NoRepo))
  <2>1. TabFits(t)
    BY <1>1, <1>3, <1>7, <1>8, <1>9 DEF TabFits, ListFits
  <2>2. QED
    BY <1>3, <1>9, <2>1, RefreshFits, TabAlone
<1>10. CASE pr' = u
  <2>1. /\ Has(base, Groups)
        /\ \A g \in Groups : base[g] \subseteq pr.base[g]
        /\ \A p \in base[j.g] : j.g \in Groups => p.n # j.n
    BY <1>1, <1>7 DEF Has
  <2> HIDE DEF base
  <2>2. /\ Has(u, TabFields) /\ u.drawn = pr.drawn /\ u.groups = pr.groups /\ u.base = base
        /\ u.listed = pr.listed /\ u.jobs = jobs /\ u.reads = pr.reads
    BY <1>7 DEF Has, TabFields
  <2> HIDE DEF u
  <2>3. \A g \in Groups : \A p \in base[g] : (\E q \in pr.groups[g] : q.n = p.n) \/ IsTaken(jobs, g, p.n)
    BY <1>3, <1>8, <2>1 DEF AskFits
  <2>4. \A g \in Groups : g \notin pr.listed => base[g] = {}
    BY <1>1, <2>1 DEF ListFits
  <2>5. TabFits(u)
    BY <1>1, <1>3, <2>1, <2>2, <2>3, <2>4 DEF TabFits, ListFits
  <2>6. QED
    BY <1>3, <1>10, <2>5, TabAlone
<1>11. CASE j.taken # {} /\ pr' = ReinsertPRInGroups(t, j)
  <2>1. CASE j.g \notin t.listed \/ \E p \in t.groups[j.g] : p.n = j.n
    <3>1. pr' = t
      BY <1>6, <1>11, <2>1
    <3>2. \A g \in Groups : \A p \in pr.base[g] : (\E q \in pr.groups[g] : q.n = p.n) \/ IsTaken(jobs, g, p.n)
      BY <1>1, <1>7, <1>8, <2>1 DEF ListFits
    <3>3. TabFits(t)
      BY <1>1, <1>3, <1>7, <3>2 DEF TabFits, ListFits
    <3>4. QED
      BY <1>3, <3>1, <3>3, TabAlone
  <2>2. CASE ~(j.g \notin t.listed \/ \E p \in t.groups[j.g] : p.n = j.n)
    <3>1. pr' = PaintPulls(v)
      BY <1>6, <1>11, <2>2
    <3>2. /\ j.g \in Groups /\ Has(groups, Groups) /\ groups[j.g] = pr.groups[j.g] \cup j.taken
          /\ \A g \in Groups : g # j.g => groups[g] = pr.groups[g]
      BY <1>1, <1>3, <1>7 DEF AskFits, Has
    <3> HIDE DEF groups
    <3>3. /\ Has(v, TabFields) /\ v.drawn = pr.drawn /\ v.groups = groups /\ v.base = pr.base
          /\ v.listed = pr.listed /\ v.jobs = jobs /\ v.reads = pr.reads
      BY <1>7 DEF Has, TabFields
    <3> HIDE DEF v
    <3>4. \A g \in Groups : Committed(groups[g])
      BY <1>1, <1>3, <3>2 DEF ListFits, AskFits, Committed
    <3>5. \E q \in groups[j.g] : q.n = j.n
      BY <1>3, <1>11, <3>2 DEF AskFits
    <3>6. \A g \in Groups : \A p \in pr.base[g] : (\E q \in groups[g] : q.n = p.n) \/ IsTaken(jobs, g, p.n)
      BY <1>8, <3>2, <3>5
    <3>7. ListFits(v)
      BY <1>1, <1>3, <3>2, <3>3, <3>4, <3>6 DEF ListFits
    <3>8. QED
      BY <1>3, <3>1, <3>7, PaintFits, TabAlone
  <2>3. QED
    BY <2>1, <2>2
<1>12. QED
  BY <1>5, <1>9, <1>10, <1>11

\* Others move the forges' pull requests, of which a number stays one.
LEMMA ForgesMoveStep ==
  ASSUME PullsInv, ForgesMove
  PROVE  PullsInv'
<1>1. ForgesFit(prsrv) /\ Has(prsrv, {"on", "unseen", "prs"}) /\ Has(prsrv.prs, Groups)
  BY DEF PullsInv, ForgesFit
<1>2. UNCHANGED pr
  BY DEF ForgesMove
<1>3. CASE \E on : prsrv' = [prsrv EXCEPT !.on = on]
  <2>1. Has(prsrv', {"on", "unseen", "prs"}) /\ prsrv'.prs = prsrv.prs /\ prsrv'.unseen = prsrv.unseen
    BY <1>1, <1>3 DEF Has
  <2>2. ForgesFit(prsrv')
    BY <1>1, <2>1 DEF ForgesFit
  <2>3. QED
    BY <1>2, <2>2 DEF PullsInv
<1>4. ASSUME NEW g \in Groups, NEW p \in prsrv.prs[g],
             NEW q \in {{}, {[p EXCEPT !.sha = 2, !.checks = "running"]}, {[p EXCEPT !.checks = "failing"]}},
             prsrv' = [prsrv EXCEPT !.prs[g] = (@ \ {p}) \cup q]
      PROVE  PullsInv'
  <2> DEFINE S == (prsrv.prs[g] \ {p}) \cup q
             prs == [prsrv.prs EXCEPT ![g] = S]
  <2>1. ForgeFits(prsrv.prs[g]) /\ Has(p, PullFields) /\ p.sha # 0
    BY <1>1, <1>4 DEF ForgesFit, ForgeFits
  <2>2. \A x \in q : Has(x, PullFields) /\ x.sha # 0 /\ x.n = p.n /\ q = {x}
    <3>1. ASSUME NEW x, x = [p EXCEPT !.sha = 2, !.checks = "running"] \/ x = [p EXCEPT !.checks = "failing"]
          PROVE  Has(x, PullFields) /\ x.sha # 0 /\ x.n = p.n
      <4>1. CASE x = [p EXCEPT !.sha = 2, !.checks = "running"]
        <5> DEFINE y == [p EXCEPT !.sha = 2]
        <5>1. Has(y, PullFields) /\ y.sha = 2 /\ y.n = p.n
          BY <2>1 DEF Has, PullFields
        <5>2. x = [y EXCEPT !.checks = "running"]
          BY <4>1, Zenon
        <5> HIDE DEF y
        <5>3. QED
          BY <5>1, <5>2 DEF Has, PullFields
      <4>2. CASE x = [p EXCEPT !.checks = "failing"]
        BY <2>1, <4>2 DEF Has, PullFields
      <4>3. QED
        BY <3>1, <4>1, <4>2
    <3>2. \A x \in q : q = {x} /\ (x = [p EXCEPT !.sha = 2, !.checks = "running"] \/ x = [p EXCEPT !.checks = "failing"])
      BY <1>4
    <3>3. QED
      BY <3>1, <3>2
  <2>3. ForgeFits(S)
    BY <1>4, <2>1, <2>2 DEF ForgeFits
  <2>4. prsrv' = [prsrv EXCEPT !.prs = prs]
    BY <1>4, Zenon
  <2> HIDE DEF S
  <2>5. Has(prs, Groups) /\ \A h \in Groups : prs[h] = IF h = g THEN S ELSE prsrv.prs[h]
    BY <1>1, <1>4 DEF Has
  <2> HIDE DEF prs
  <2>6. Has(prsrv', {"on", "unseen", "prs"}) /\ prsrv'.prs = prs /\ prsrv'.unseen = prsrv.unseen
    BY <1>1, <2>4 DEF Has
  <2>7. ForgesFit(prsrv')
    BY <1>1, <2>3, <2>5, <2>6 DEF ForgesFit
  <2>8. QED
    BY <1>2, <2>7 DEF PullsInv
<1>5. QED
  BY <1>3, <1>4 DEF ForgesMove

\* The dialog is opened on a repository of the list, and changes nothing else.
LEMMA DialogSteps ==
  ASSUME PullsInv, PullsInv', DialogFits(prdlg), PullsNext
  PROVE  DialogFits(prdlg')
<1>1. Has(prdlg, {"on", "body", "status", "gens"}) /\ prdlg.on \in Groups \cup {NoRepo}
  BY DEF DialogFits
<1>2. \A g \in Groups : DialogFits(OpenedDialog(g))
  BY DEF DialogFits, OpenedDialog, Has
<1>3. DialogFits(ClosedDialog)
  BY DEF DialogFits, ClosedDialog, Has
<1>4. \A t, g : t = pr' /\ ThenOpens(t, g) => DialogFits(prdlg')
  BY <1>2 DEF ThenOpens, PullsInv, TabFits, ListFits
<1>5. CASE GenerateAgain \/ Generated \/ WritesBody
  <2>1. CASE GenerateAgain
    <3>1. PICK status, gens : prdlg' = [prdlg EXCEPT !.status = status, !.gens = gens]
      BY <2>1, Zenon DEF GenerateAgain
    <3>2. QED
      BY <1>1, <3>1 DEF DialogFits, Has
  <2>2. CASE Generated
    <3>1. PICK gen \in prdlg.gens, ok \in BOOLEAN :
            prdlg' = [prdlg EXCEPT !.gens = @ \ {gen}, !.status = IF ok THEN "ok" ELSE "err",
                                   !.body = IF ok /\ @ = "" THEN gen.for ELSE @]
      BY <2>2, Zenon DEF Generated
    <3> DEFINE gens == prdlg.gens \ {gen}
               status == IF ok THEN "ok" ELSE "err"
               body == IF ok /\ prdlg.body = "" THEN gen.for ELSE prdlg.body
    <3>2. prdlg' = [prdlg EXCEPT !.gens = gens, !.status = status, !.body = body]
      BY <3>1, Zenon
    <3> HIDE DEF gens, status, body
    <3>3. QED
      BY <1>1, <3>2 DEF DialogFits, Has
  <2>3. CASE WritesBody
    <3>1. PICK body : prdlg' = [prdlg EXCEPT !.body = body]
      BY <2>3, Zenon DEF WritesBody
    <3>2. QED
      BY <1>1, <3>1 DEF DialogFits, Has
  <2>4. QED
    BY <1>5, <2>1, <2>2, <2>3
<1>6. CASE ClosesDialog \/ OpenNewPRDialog
  BY <1>2, <1>3, <1>6 DEF ClosesDialog, OpenNewPRDialog
<1>7. CASE PullReadArrives \/ ReadEnds \/ OpenNewPRForRepo
  <2>1. prdlg' = prdlg \/ \E t, g : ThenOpens(t, g)
    BY <1>7, Zenon DEF PullReadArrives, ReadEnds, OpenNewPRForRepo
  <2>2. \A t, g : ThenOpens(t, g) => prdlg' = prdlg \/ t = pr'
    BY DEF ThenOpens
  <2>3. QED
    BY <1>4, <2>1, <2>2
<1>8. CASE SubmitsPR \/ PullAnswered
  <2>1. prdlg' = prdlg \/ prdlg' = ClosedDialog \/ \E status : prdlg' = [prdlg EXCEPT !.status = status]
    BY <1>8, Zenon DEF SubmitsPR, PullAnswered
  <2>2. QED
    BY <1>1, <1>3, <2>1 DEF DialogFits, Has
<1>9. CASE \/ ServerListsForges \/ ServerLists \/ ShowPRSkeleton \/ RefreshAction \/ RequestPRFocus
           \/ AttemptFocus \/ ToggleGroup \/ PrsFind \/ Asks \/ ForgeActs \/ NotReached \/ ForgesMove
  BY <1>9, Zenon DEF ServerListsForges, ServerLists, ShowPRSkeleton, RefreshAction, RequestPRFocus,
       AttemptFocus, ToggleGroup, PrsFind, Asks, ForgeActs, NotReached, ForgesMove
<1>10. QED
  BY <1>5, <1>6, <1>7, <1>8, <1>9 DEF PullsNext

\* At first nothing is listed.
LEMMA PullsStart ==
  ASSUME PullsInit
  PROVE  PullsInv /\ DialogFits(prdlg)
<1> DEFINE none == [g \in Groups |-> {}]
           drawn == [g \in Groups |-> NoGroup]
           toggled == [g \in Groups |-> NoRepo]
           t == [groups |-> none, base |-> none, listed |-> {}, lost |-> {},
                 drawn |-> drawn, kind |-> "blank", answered |-> FALSE, filter |-> "",
                 toggled |-> toggled, want |-> NoWant, wantRead |-> FALSE, frame |-> FALSE,
                 flashed |-> NoWant, jobs |-> <<>>, reads |-> {}]
<1>1. pr = RefreshPRs(t, TRUE, NoRepo)
  BY Zenon DEF PullsInit
<1>2. Has(none, Groups) /\ \A g \in Groups : none[g] = {}
  BY DEF Has
<1>3. DrawnFits(drawn)
  BY NoneDrawn
<1> HIDE DEF none, drawn, toggled
<1>4. /\ Has(t, TabFields) /\ t.drawn = drawn /\ t.groups = none /\ t.base = none
      /\ t.listed = {} /\ t.jobs = <<>> /\ t.reads = {}
  BY DEF Has, TabFields
<1> HIDE DEF t
<1>5. AsksFit(<<>>)
  <2> DEFINE S == {}
  <2>1. <<>> \in Seq(S) /\ \A j \in S : AskFits(j)
    OBVIOUS
  <2> HIDE DEF S
  <2>2. QED
    BY <2>1 DEF AsksFit
<1>6. TabFits(t)
  BY <1>2, <1>3, <1>4, <1>5 DEF TabFits, ListFits, Committed
<1>7. TabFits(pr)
  BY <1>1, <1>6, RefreshFits
<1>8. ForgesFit(prsrv)
  <2> DEFINE first(g) == [n |-> 1, sha |-> 1, armed |-> FALSE,
                          checks |-> IF g \in RerunCapable THEN "passed" ELSE "running"]
             prs == [g \in Groups |-> {first(g)}]
  <2>1. prsrv = [on |-> TRUE, unseen |-> FALSE, prs |-> prs]
    BY Zenon DEF PullsInit
  <2>2. \A g : ForgeFits({first(g)})
    BY DEF ForgeFits, Has, PullFields
  <2>3. Has(prs, Groups) /\ \A g \in Groups : ForgeFits(prs[g])
    BY <2>2 DEF Has
  <2> HIDE DEF prs
  <2>4. Has(prsrv, {"on", "unseen", "prs"}) /\ prsrv.prs = prs /\ prsrv.unseen = FALSE
    BY <2>1 DEF Has
  <2>5. QED
    BY <2>3, <2>4 DEF ForgesFit
<1>9. DialogFits(prdlg)
  BY DEF PullsInit, ClosedDialog, DialogFits, Has
<1>10. QED
  BY <1>7, <1>8, <1>9 DEF PullsInv

\* A pull request the newest listing has stays in the tab until a merge or a close of it has been
\* answered as done, and nothing is merged but the commit its row showed (reinsertPRInGroups,
\* git-prs-tab.ts).
THEOREM PullsStayAsSeen == PullsSpec => []PullsAsSeen
<1>1. PullsInit => PullsInv /\ DialogFits(prdlg)
  BY PullsStart
<1>2. PullsInv /\ DialogFits(prdlg) /\ [PullsNext]_prvars => PullsInv' /\ DialogFits(prdlg)'
  <2> SUFFICES ASSUME PullsInv, DialogFits(prdlg), [PullsNext]_prvars
               PROVE  PullsInv' /\ DialogFits(prdlg)'
    OBVIOUS
  <2>1. CASE UNCHANGED prvars
    BY <2>1 DEF prvars, PullsInv
  <2>2. CASE PullsNext
    <3>1. PullsInv'
      <4>1. CASE GenerateAgain \/ Generated \/ WritesBody \/ ClosesDialog \/ OpenNewPRDialog
        BY <4>1, Zenon DEF PullsInv, GenerateAgain, Generated, WritesBody, ClosesDialog, OpenNewPRDialog
      <4>2. QED
        BY <2>2, <4>1, ListingSteps, ReadSteps, PullViewSteps, AsksStep, SentSteps, ForgeActsStep,
           PullAnsweredStep, ForgesMoveStep DEF PullsNext
    <3>2. QED
      BY <2>2, <3>1, DialogSteps
  <2>3. QED
    BY <2>1, <2>2
<1>3. PullsInv => PullsAsSeen
  <2>1. PullsInv => RefusedComeBack
    BY DEF PullsInv, TabFits, ListFits, RefusedComeBack, IsTaken
  <2>2. PullsInv => MergesWhatWasSeen
    BY DEF PullsInv, ForgesFit, MergesWhatWasSeen
  <2>3. QED
    BY <2>1, <2>2 DEF PullsAsSeen
<1>4. QED
  BY <1>1, <1>2, <1>3, PTL DEF PullsSpec

----------------------------------------------------------------------------
(* The server settings.  The list on show is the server's once its read    *)
(* has been answered, no change is on its way and nothing was done to the  *)
(* list before its answer: that holds with other calls still out too.      *)

McFields == {"list", "status", "disc", "foreign", "prewarm", "honoured", "barred", "lists", "states",
             "missed", "undone", "calls", "confirm", "toast", "prompt", "rows",
              "others", "relay", "warned"}

CallFields == {"kind", "id", "arg", "res"}

CallsFit(calls) == \E S : calls \in Seq(S) /\ \A c \in S : Has(c, CallFields)

\* What showed its effect on the list before its answer.
Touches(c) == c.kind = "toggle" \/ (c.kind = "delete" /\ c.arg # <<>>)

Untouched(calls) == \A i \in DOMAIN calls : ~Touches(calls[i])

\* No change of the configuration is on its way.
NoneComes(net) == \A i \in DOMAIN net : net[i][1] # "config"

Told(m, list, net) ==
    /\ Has(m, McFields) /\ Has(m.lists, {"due", "read"}) /\ m.lists.due \in BOOLEAN
    /\ CallsFit(m.calls)
    /\ NoneComes(net) /\ ~m.lists.due /\ Len(m.lists.read) = 3 => m.lists.read[2] = list
    /\ NoneComes(net) /\ m.lists = Slot /\ ~m.missed /\ ~m.undone /\ Untouched(m.calls) => m.list = list

McpInv ==
    /\ Has(mcsrv, {"list", "honours", "rt"})
    /\ \E S : mcnet \in Seq(S)
    /\ Told(mc, mcsrv.list, mcnet)

\* Nothing of the page but what the invariant is about matters.
SameLists(m, g) ==
    /\ Has(g, McFields) /\ g.lists = m.lists /\ g.list = m.list
    /\ g.missed = m.missed /\ g.undone = m.undone
    /\ CallsFit(m.calls) => CallsFit(g.calls) /\ (Untouched(g.calls) => Untouched(m.calls))

\* A page alike in that is told as much.
LEMMA SameIsTold ==
  ASSUME NEW m, NEW g, NEW list, NEW net, Told(m, list, net), SameLists(m, g)
  PROVE  Told(g, list, net)
BY DEF Told, SameLists

\* One likeness after the other.
LEMMA SameAgain ==
  ASSUME NEW f, NEW g, NEW h, SameLists(f, g), SameLists(g, h)
  PROVE  SameLists(f, h)
BY DEF SameLists

\* Drawing the rows leaves the list.
LEMMA DrawnIsSame ==
  ASSUME NEW m, Has(m, McFields)
  PROVE  SameLists(m, Drawn(m))
<1>1. PICK rows, others, relay, warned :
         Drawn(m) = [m EXCEPT !.rows = rows, !.others = others, !.relay = relay, !.warned = warned]
  BY Zenon DEF Drawn
<1>2. QED
  BY <1>1 DEF SameLists, Has, McFields

\* A page drawn is told what it was told.
LEMMA DrawnIsTold ==
  ASSUME NEW m, NEW list, NEW net, Told(m, list, net)
  PROVE  Told(Drawn(m), list, net)
<1>1. Has(m, McFields)
  BY DEF Told
<1>2. QED
  BY <1>1, DrawnIsSame, SameIsTold

\* A call made.
LEMMA CallAdded ==
  ASSUME NEW calls, CallsFit(calls), NEW c, Has(c, CallFields)
  PROVE  /\ CallsFit(Append(calls, c))
         /\ Untouched(Append(calls, c)) => Untouched(calls) /\ ~Touches(c)
<1>1. PICK S : calls \in Seq(S) /\ \A d \in S : Has(d, CallFields)
  BY DEF CallsFit
<1>2. Append(calls, c) \in Seq(S \cup {c})
  BY <1>1
<1>3. CallsFit(Append(calls, c))
  BY <1>1, <1>2 DEF CallsFit
<1>4. /\ \A i \in DOMAIN calls : i \in DOMAIN Append(calls, c) /\ Append(calls, c)[i] = calls[i]
      /\ Len(calls) + 1 \in DOMAIN Append(calls, c) /\ Append(calls, c)[Len(calls) + 1] = c
  BY <1>1
<1>5. QED
  BY <1>3, <1>4 DEF Untouched

\* A call taken off.
LEMMA CallTaken ==
  ASSUME NEW calls, CallsFit(calls), NEW i \in DOMAIN calls
  PROVE  /\ CallsFit(RemoveAt(calls, i))
         /\ Untouched(RemoveAt(calls, i)) /\ ~Touches(calls[i]) => Untouched(calls)
<1> DEFINE rest == RemoveAt(calls, i)
           n == Len(calls)
<1>1. PICK S : calls \in Seq(S) /\ \A d \in S : Has(d, CallFields)
  BY DEF CallsFit
<1>2. i \in 1..n /\ n \in Nat /\ DOMAIN calls = 1..n
  BY <1>1
<1> DEFINE before == SubSeq(calls, 1, i - 1)
           after == SubSeq(calls, i + 1, n)
<1>3. before \in Seq(S) /\ after \in Seq(S) /\ Len(before) = i - 1 /\ Len(after) = n - i
  BY <1>1, <1>2
<1>4. /\ \A j \in 1..(i - 1) : before[j] = calls[j]
      /\ \A j \in 1..(n - i) : after[j] = calls[i + j]
  BY <1>1, <1>2
<1>5. rest = before \o after
  BY DEF RemoveAt
<1> HIDE DEF before, after, rest, n
<1>6. rest \in Seq(S) /\ DOMAIN rest = 1..(n - 1)
  BY <1>2, <1>3, <1>5
<1>7. \A j \in 1..(i - 1) : j \in DOMAIN rest /\ rest[j] = calls[j]
  BY <1>2, <1>3, <1>4, <1>5, <1>6
<1>8. \A j \in (i + 1)..n : j - 1 \in DOMAIN rest /\ rest[j - 1] = calls[j]
  <2>1. \A k \in 1..Len(after) : rest[Len(before) + k] = after[k]
    BY <1>3, <1>5
  <2> TAKE j \in (i + 1)..n
  <2>2. j - i \in 1..(n - i) /\ (i - 1) + (j - i) = j - 1 /\ i + (j - i) = j
    BY <1>2
  <2>3. rest[(i - 1) + (j - i)] = after[j - i] /\ after[j - i] = calls[i + (j - i)]
    BY <1>3, <1>4, <2>1, <2>2
  <2>4. j - 1 \in 1..(n - 1)
    BY <1>2
  <2>5. QED
    BY <1>6, <2>2, <2>3, <2>4
<1>9. ASSUME Untouched(rest), ~Touches(calls[i]) PROVE Untouched(calls)
  <2> SUFFICES ASSUME NEW j \in DOMAIN calls PROVE ~Touches(calls[j])
    BY DEF Untouched
  <2>1. j = i \/ j \in 1..(i - 1) \/ j \in (i + 1)..n
    BY <1>2
  <2>2. QED
    BY <1>7, <1>8, <1>9, <2>1 DEF Untouched
<1>10. QED
  BY <1>1, <1>6, <1>9 DEF CallsFit, rest

\* A call answered.
LEMMA CallMarked ==
  ASSUME NEW calls, CallsFit(calls), NEW i \in DOMAIN calls, NEW res
  PROVE  /\ CallsFit([calls EXCEPT ![i].res = res])
         /\ Untouched([calls EXCEPT ![i].res = res]) => Untouched(calls)
<1> DEFINE c == [calls[i] EXCEPT !.res = res]
           marked == [calls EXCEPT ![i] = c]
<1>1. PICK S : calls \in Seq(S) /\ \A d \in S : Has(d, CallFields)
  BY DEF CallsFit
<1>2. Has(calls[i], CallFields)
  BY <1>1
<1>3. Has(c, CallFields) /\ c.kind = calls[i].kind /\ c.arg = calls[i].arg
  BY <1>2 DEF Has, CallFields
<1> HIDE DEF c
<1>4. marked \in Seq(S \cup {c}) /\ DOMAIN marked = DOMAIN calls
  BY <1>1
<1>5. \A j \in DOMAIN calls : marked[j] = IF j = i THEN c ELSE calls[j]
  OBVIOUS
<1>6. CallsFit(marked)
  BY <1>1, <1>3, <1>4 DEF CallsFit
<1>7. Untouched(marked) => Untouched(calls)
  BY <1>3, <1>4, <1>5 DEF Untouched, Touches
<1>8. QED
  BY <1>6, <1>7 DEF c

\* A call about anything but the list.
LEMMA CallIsOne ==
  ASSUME NEW kind, NEW id, NEW arg
  PROVE  Has(Call(kind, id, arg), CallFields) /\ Call(kind, id, arg).kind = kind
      /\ Call(kind, id, arg).arg = arg
BY DEF Call, Has, CallFields

----------------------------------------------------------------------------
\* The steps of the settings.

\* A step of the page, the server and the frames as they were.
LEMMA PageStep ==
  ASSUME McpInv, Told(mc', mcsrv.list, mcnet), UNCHANGED <<mcsrv, mcnet>>
  PROVE  McpInv'
BY DEF McpInv

\* Reads are begun and served.
LEMMA FetchesStep ==
  ASSUME McpInv, StartReads \/ FetchServed
  PROVE  McpInv'
<1>1. /\ Has(mc, McFields) /\ Has(mc.lists, {"due", "read"}) /\ mc.lists.due \in BOOLEAN
      /\ CallsFit(mc.calls) /\ Told(mc, mcsrv.list, mcnet)
  BY DEF McpInv, Told
<1>2. CASE StartReads
  <2> DEFINE lists == IF mc.lists.due THEN Restarted(mc.lists) ELSE mc.lists
             states == IF mc.states.due THEN Restarted(mc.states) ELSE mc.states
             g == [mc EXCEPT !.lists = lists, !.states = states]
  <2>1. mc' = g /\ UNCHANGED <<mcsrv, mcnet>>
    BY <1>2 DEF StartReads
  <2>2. CASE ~mc.lists.due
    <3>1. lists = mc.lists
      BY <2>2
    <3> HIDE DEF lists, states
    <3>2. SameLists(mc, g)
      BY <1>1, <3>1 DEF SameLists, Has, McFields
    <3> HIDE DEF g
    <3>3. QED
      BY <1>1, <2>1, <3>2, SameIsTold, PageStep
  <2>3. CASE mc.lists.due
    <3>1. lists = [due |-> FALSE, read |-> <<"out">>]
      BY <2>3 DEF Restarted
    <3> HIDE DEF lists, states
    <3>2. Has(lists, {"due", "read"}) /\ lists.due \in BOOLEAN
      BY <3>1 DEF Has
    <3>3. Len(lists.read) = 1
      BY <3>1
    <3>4. lists # Slot
      BY <3>1 DEF Slot
    <3>5. Has(g, McFields) /\ g.lists = lists /\ g.calls = mc.calls
      BY <1>1 DEF Has, McFields
    <3> HIDE DEF g
    <3>6. Told(g, mcsrv.list, mcnet)
      BY <1>1, <3>2, <3>3, <3>4, <3>5 DEF Told
    <3>7. QED
      BY <2>1, <3>6, PageStep
  <2>4. QED
    BY <2>2, <2>3
<1>3. CASE FetchServed
  <2>1. /\ UNCHANGED <<mcsrv, mcnet>>
        /\ \/ mc' = [mc EXCEPT !.lists.read = <<"here", mcsrv.list, mcsrv.honours>>]
           \/ mc' = [mc EXCEPT !.states.read = <<"here", mcsrv.rt>>]
    BY <1>3 DEF FetchServed
  <2>2. CASE mc' = [mc EXCEPT !.lists.read = <<"here", mcsrv.list, mcsrv.honours>>]
    <3> DEFINE lists == [mc.lists EXCEPT !.read = <<"here", mcsrv.list, mcsrv.honours>>]
               g == [mc EXCEPT !.lists = lists]
    <3>1. mc' = g
      BY <2>2
    <3>2. /\ Has(lists, {"due", "read"}) /\ lists.due \in BOOLEAN /\ lists.read[2] = mcsrv.list
          /\ lists.read # <<>>
      BY <1>1 DEF Has
    <3>3. lists # Slot
      BY <3>2 DEF Slot
    <3> HIDE DEF lists
    <3>4. Has(g, McFields) /\ g.lists = lists /\ g.calls = mc.calls
      BY <1>1 DEF Has, McFields
    <3> HIDE DEF g
    <3>5. Told(g, mcsrv.list, mcnet)
      BY <1>1, <3>2, <3>3, <3>4 DEF Told
    <3>6. QED
      BY <2>1, <3>1, <3>5, PageStep
  <2>3. CASE mc' = [mc EXCEPT !.states.read = <<"here", mcsrv.rt>>]
    <3>1. SameLists(mc, mc')
      BY <1>1, <2>3 DEF SameLists, Has, McFields
    <3>2. QED
      BY <1>1, <2>1, <3>1, SameIsTold, PageStep
  <2>4. QED
    BY <2>1, <2>2, <2>3
<1>4. QED
  BY <1>2, <1>3

\* The list is answered, or the statuses are.
LEMMA FetchStep ==
  ASSUME McpInv, FetchArrives \/ FetchFails
  PROVE  McpInv'
<1>1. /\ Has(mc, McFields) /\ Has(mc.lists, {"due", "read"}) /\ mc.lists.due \in BOOLEAN
      /\ CallsFit(mc.calls) /\ Told(mc, mcsrv.list, mcnet)
  BY DEF McpInv, Told
<1>2. PICK ok, list, honours, rt :
        /\ ok \in BOOLEAN /\ UNCHANGED <<mcsrv, mcnet>>
        /\ \/ /\ mc' = Drawn(DoRefetchServers(mc, ok, list, honours))
              /\ ok => Len(mc.lists.read) = 3 /\ list = mc.lists.read[2]
           \/ mc' = Drawn(DoRefetchStatus(mc, ok, rt))
  <2>1. CASE FetchArrives
    BY <2>1 DEF FetchArrives
  <2>2. CASE FetchFails
    BY <2>2 DEF FetchFails
  <2>3. QED
    BY <2>1, <2>2
<1>3. CASE /\ mc' = Drawn(DoRefetchServers(mc, ok, list, honours))
           /\ ok => Len(mc.lists.read) = 3 /\ list = mc.lists.read[2]
  <2> DEFINE lists == [mc.lists EXCEPT !.read = <<>>]
             shown == IF ok THEN list ELSE <<>>
             honoured == IF ok THEN honours ELSE mc.honoured
             g == [mc EXCEPT !.lists = lists, !.list = shown, !.missed = ~ok, !.undone = FALSE,
                             !.honoured = honoured]
  <2>1. DoRefetchServers(mc, ok, list, honours) = g
    BY DEF DoRefetchServers
  <2>2. Has(lists, {"due", "read"}) /\ lists.due = mc.lists.due /\ lists.read = <<>>
    BY <1>1 DEF Has
  <2>3. ok => shown = list
    OBVIOUS
  <2> HIDE DEF lists, shown, honoured
  <2>4. /\ Has(g, McFields) /\ g.lists = lists /\ g.list = shown /\ g.calls = mc.calls
    BY <1>1 DEF Has, McFields
  <2>5. g.missed = ~ok
    BY <1>1 DEF Has, McFields
  <2> HIDE DEF g
  <2>6. lists = Slot => ~mc.lists.due
    <3>1. Slot.due = FALSE
      BY DEF Slot
    <3>2. QED
      BY <1>1, <2>2, <3>1
  <2>7. NoneComes(mcnet) /\ lists = Slot /\ ok => shown = mcsrv.list
    BY <1>1, <1>3, <2>3, <2>6 DEF Told
  <2>8. Len(lists.read) # 3
    BY <2>2
  <2>9. Told(g, mcsrv.list, mcnet)
    BY <1>1, <2>2, <2>4, <2>5, <2>7, <2>8 DEF Told
  <2>10. QED
    BY <1>2, <1>3, <2>1, <2>9, DrawnIsTold, PageStep
<1>4. CASE mc' = Drawn(DoRefetchStatus(mc, ok, rt))
  <2>1. PICK status, disc, foreign : DoRefetchStatus(mc, ok, rt) =
            [mc EXCEPT !.states.read = <<>>, !.status = status, !.disc = disc, !.foreign = foreign]
    BY Zenon DEF DoRefetchStatus
  <2>2. SameLists(mc, DoRefetchStatus(mc, ok, rt))
    BY <1>1, <2>1 DEF SameLists, Has, McFields
  <2>3. QED
    BY <1>1, <1>2, <1>4, <2>2, SameIsTold, DrawnIsTold, PageStep
<1>5. QED
  BY <1>2, <1>3, <1>4

\* A call is made: one that shows its effect at once touches the list.
LEMMA CallMadeStep ==
  ASSUME McpInv,
         \/ ToggleServer \/ AsksToDelete \/ DeleteServer \/ ReconnectServer \/ RenderOAuthRelay
         \/ Inserts \/ OpenEditModal \/ SubmitServer \/ SubmitPaste
  PROVE  McpInv'
<1>1. /\ Has(mc, McFields) /\ CallsFit(mc.calls) /\ Told(mc, mcsrv.list, mcnet)
  BY DEF McpInv, Told
<1>2. ASSUME NEW c, Has(c, CallFields), NEW list, Touches(c) \/ list = mc.list, NEW confirm, NEW relay,
             NEW g, g = [mc EXCEPT !.list = list, !.calls = Append(mc.calls, c), !.confirm = confirm,
                                   !.relay = relay]
      PROVE  Told(g, mcsrv.list, mcnet)
  <2> DEFINE calls == Append(mc.calls, c)
  <2>1. CallsFit(calls) /\ (Untouched(calls) => Untouched(mc.calls) /\ list = mc.list)
    BY <1>1, <1>2, CallAdded
  <2>2. g = [mc EXCEPT !.list = list, !.calls = calls, !.confirm = confirm, !.relay = relay]
    BY <1>2
  <2> HIDE DEF calls
  <2>3. /\ Has(g, McFields) /\ g.lists = mc.lists /\ g.list = list /\ g.calls = calls
        /\ g.missed = mc.missed /\ g.undone = mc.undone
    BY <1>1, <2>2 DEF Has, McFields
  <2>4. QED
    BY <1>1, <2>1, <2>3 DEF Told
<1>3. ASSUME NEW c, Has(c, CallFields), mc' = [mc EXCEPT !.calls = Append(mc.calls, c)],
             UNCHANGED <<mcsrv, mcnet>>
      PROVE  McpInv'
  <2> DEFINE list == mc.list
             confirm == mc.confirm
             relay == mc.relay
             g == mc'
  <2>1. g = [mc EXCEPT !.list = list, !.calls = Append(mc.calls, c),
             !.confirm = confirm, !.relay = relay]
    BY <1>1, <1>3 DEF Has, McFields
  <2>2. Told(g, mcsrv.list, mcnet)
    <3>1. list = mc.list
      OBVIOUS
    <3> HIDE DEF list, confirm, relay, g
    <3>2. QED
      BY <1>2, <1>3, <2>1, <3>1
  <2>3. QED
    BY <1>3, <2>2, PageStep
<1>4. CASE ToggleServer
  <2>1. PICK i \in DOMAIN mc.list : \E list, c :
          /\ mc' = Drawn([mc EXCEPT !.list = list, !.calls = Append(mc.calls, c)])
          /\ c = Call("toggle", mc.list[i].id, <<~mc.list[i].on>>) /\ UNCHANGED <<mcsrv, mcnet>>
    BY <1>4, Zenon DEF ToggleServer
  <2>2. PICK list, c :
          /\ mc' = Drawn([mc EXCEPT !.list = list, !.calls = Append(mc.calls, c)])
          /\ c = Call("toggle", mc.list[i].id, <<~mc.list[i].on>>) /\ UNCHANGED <<mcsrv, mcnet>>
    BY <2>1
  <2>3. Has(c, CallFields) /\ Touches(c)
    BY <2>2, CallIsOne DEF Touches
  <2> DEFINE g == [mc EXCEPT !.list = list, !.calls = Append(mc.calls, c)]
  <2>4. g = [mc EXCEPT !.list = list, !.calls = Append(mc.calls, c), !.confirm = mc.confirm,
                       !.relay = mc.relay]
    BY <1>1 DEF Has, McFields
  <2>5. mc' = Drawn(g)
    BY <2>2
  <2> HIDE DEF g
  <2>6. Told(g, mcsrv.list, mcnet)
    BY <1>2, <2>3, <2>4
  <2>7. QED
    BY <2>2, <2>5, <2>6, DrawnIsTold, PageStep
<1>5. CASE AsksToDelete
  <2>1. PICK id : mc' = [mc EXCEPT !.confirm = id] /\ UNCHANGED <<mcsrv, mcnet>>
    BY <1>5 DEF AsksToDelete
  <2>2. SameLists(mc, mc')
    BY <1>1, <2>1 DEF SameLists, Has, McFields
  <2>3. QED
    BY <1>1, <2>1, <2>2, SameIsTold, PageStep
<1>6. CASE DeleteServer
  <2> DEFINE id == mc.confirm
             at == At(mc.list, id)
             gone == IF id \in Configured(mc.list) THEN <<mc.list[at], at>> ELSE <<>>
             c == Call("delete", id, gone)
             list == RemoveConfiguredEntry(mc.list, id)
             g == [mc EXCEPT !.list = list, !.calls = Append(mc.calls, c), !.confirm = Blank,
                             !.relay = mc.relay]
  <2>1. /\ UNCHANGED <<mcsrv, mcnet>>
        /\ \/ mc' = [mc EXCEPT !.confirm = Blank]
           \/ mc' = Drawn([[mc EXCEPT !.confirm = Blank] EXCEPT !.list = list,
                           !.calls = Append(mc.calls, c)])
    <3>1. [mc EXCEPT !.confirm = Blank].list = mc.list /\ [mc EXCEPT !.confirm = Blank].calls = mc.calls
      BY <1>1 DEF Has, McFields
    <3>2. /\ UNCHANGED <<mcsrv, mcnet>>
          /\ \/ mc' = [mc EXCEPT !.confirm = Blank]
             \/ mc' = Drawn([[mc EXCEPT !.confirm = Blank] EXCEPT
                                !.list = RemoveConfiguredEntry(@, id), !.calls = Append(@, c)])
      BY <1>6, Zenon DEF DeleteServer
    <3> HIDE DEF c
    <3>3. QED
      BY <3>1, <3>2
  <2>2. CASE mc' = [mc EXCEPT !.confirm = Blank]
    <3>1. SameLists(mc, mc')
      BY <1>1, <2>2 DEF SameLists, Has, McFields
    <3>2. QED
      BY <1>1, <2>1, <3>1, SameIsTold, PageStep
  <2>3. CASE mc' = Drawn([[mc EXCEPT !.confirm = Blank] EXCEPT !.list = list,
                          !.calls = Append(mc.calls, c)])
    <3>1. Has(c, CallFields) /\ c.kind = "delete" /\ c.arg = gone
      BY CallIsOne
    <3>2. gone # <<>> \/ list = mc.list
      <4>1. CASE id \in Configured(mc.list)
        BY <4>1
      <4>2. CASE id \notin Configured(mc.list)
        BY <4>2 DEF RemoveConfiguredEntry
      <4>3. QED
        BY <4>1, <4>2
    <3>3. Touches(c) \/ list = mc.list
      BY <3>1, <3>2 DEF Touches
    <3> HIDE DEF c, list
    <3>4. [[mc EXCEPT !.confirm = Blank] EXCEPT !.list = list, !.calls = Append(mc.calls, c)] = g
      BY <1>1 DEF Has, McFields
    <3>5. Told(g, mcsrv.list, mcnet)
      BY <1>2, <3>1, <3>3
    <3> HIDE DEF g
    <3>6. QED
      BY <2>1, <2>3, <3>4, <3>5, DrawnIsTold, PageStep
  <2>4. QED
    BY <2>1, <2>2, <2>3
<1>7. CASE ReconnectServer
  <2>1. PICK id : mc' = [mc EXCEPT !.calls = Append(@, Call("reconnect", id, <<>>))]
                         /\ UNCHANGED <<mcsrv, mcnet>>
    BY <1>7 DEF ReconnectServer
  <2>2. QED
    BY <1>3, <2>1, CallIsOne
<1>8. CASE RenderOAuthRelay
  <2>1. PICK id : /\ UNCHANGED <<mcsrv, mcnet>>
                  /\ \/ mc' = [mc EXCEPT !.relay[id] = "err"]
                     \/ mc' = [mc EXCEPT !.relay[id] = "busy", !.calls = Append(@, Call("relay", id, <<>>))]
    BY <1>8 DEF RenderOAuthRelay
  <2>2. CASE mc' = [mc EXCEPT !.relay[id] = "err"]
    <3>1. SameLists(mc, mc')
      BY <1>1, <2>2 DEF SameLists, Has, McFields
    <3>2. QED
      BY <1>1, <2>1, <3>1, SameIsTold, PageStep
  <2>3. CASE mc' = [mc EXCEPT !.relay[id] = "busy", !.calls = Append(@, Call("relay", id, <<>>))]
    <3> DEFINE c == Call("relay", id, <<>>)
               relay == [mc.relay EXCEPT ![id] = "busy"]
    <3>1. Has(c, CallFields)
      BY CallIsOne
    <3>2. mc' = [mc EXCEPT !.list = mc.list, !.calls = Append(mc.calls, c), !.confirm = mc.confirm,
                           !.relay = relay]
      BY <1>1, <2>3 DEF Has, McFields
    <3> HIDE DEF c, relay
    <3>3. QED
      BY <1>2, <2>1, <3>1, <3>2, PageStep
  <2>4. QED
    BY <2>1, <2>2, <2>3
<1>9. CASE Inserts
  <2>1. PICK n : mc' = [mc EXCEPT !.calls = Append(@, Call("insert", n, <<>>))]
                        /\ UNCHANGED <<mcsrv, mcnet>>
    BY <1>9 DEF Inserts
  <2>2. QED
    BY <1>3, <2>1, CallIsOne
<1>10. CASE OpenEditModal
  <2>1. PICK id : mc' = [mc EXCEPT !.calls = Append(@, Call("edit", id, <<>>))]
                         /\ UNCHANGED <<mcsrv, mcnet>>
    BY <1>10 DEF OpenEditModal
  <2>2. QED
    BY <1>3, <2>1, CallIsOne
<1>11. CASE SubmitServer
  <2>1. PICK arg : mc' = [mc EXCEPT !.calls = Append(@, Call("save", mcdlg.editing, arg))]
                          /\ UNCHANGED <<mcsrv, mcnet>>
    BY <1>11 DEF SubmitServer
  <2>2. QED
    BY <1>3, <2>1, CallIsOne
<1>12. CASE SubmitPaste
  <2>1. /\ UNCHANGED <<mcsrv, mcnet>>
        /\ mc' = mc \/ mc' = [mc EXCEPT !.calls = Append(@, Call("import", Blank, <<>>))]
    BY <1>12 DEF SubmitPaste
  <2>2. CASE mc' = mc
    BY <1>1, <2>1, <2>2, PageStep
  <2>3. CASE mc' = [mc EXCEPT !.calls = Append(@, Call("import", Blank, <<>>))]
    BY <1>3, <2>1, <2>3, CallIsOne
  <2>4. QED
    BY <2>1, <2>2, <2>3
<1>13. QED
  BY <1>4, <1>5, <1>6, <1>7, <1>8, <1>9, <1>10, <1>11, <1>12

\* The search and the dialog: neither the list nor a frame.
LEMMA DialogStep ==
  ASSUME McpInv,
         \/ Searches \/ RenderRetry \/ RegistryAnswers \/ SearchArrives
         \/ OpenAddModal \/ SwitchMode \/ EditsSecret \/ InitToolListSection
         \/ ClosesModal \/ GateNpmPanelOnNode \/ UNCHANGED mcvars
  PROVE  McpInv'
<1>1. UNCHANGED <<mc, mcsrv, mcnet>>
  BY DEF Searches, RenderRetry, RegistryAnswers, SearchArrives, OpenAddModal, SwitchMode, EditsSecret,
         InitToolListSection, ClosesModal, GateNpmPanelOnNode, mcvars
<1>2. QED
  BY <1>1 DEF McpInv

\* Frames that come later, and the one that comes now.
LEMMA NetAppend ==
  ASSUME NEW net, \E S : net \in Seq(S), NEW frame
  PROVE  /\ \E S : Append(net, frame) \in Seq(S)
         /\ NoneComes(Append(net, frame)) => NoneComes(net) /\ frame[1] # "config"
<1>1. PICK S : net \in Seq(S)
  OBVIOUS
<1>2. Append(net, frame) \in Seq(S \cup {frame})
  BY <1>1
<1>3. /\ \A i \in DOMAIN net : i \in DOMAIN Append(net, frame) /\ Append(net, frame)[i] = net[i]
      /\ Len(net) + 1 \in DOMAIN Append(net, frame) /\ Append(net, frame)[Len(net) + 1] = frame
  BY <1>1
<1>4. QED
  BY <1>2, <1>3 DEF NoneComes

\* A change of the list is told: a frame is on its way.
LEMMA ChangeIsTold ==
  ASSUME McpInv, NEW list, NEW c, Changes(list, c)
  PROVE  /\ Has(mcsrv', {"list", "honours", "rt"}) /\ \E S : mcnet' \in Seq(S)
         /\ NoneComes(mcnet') => NoneComes(mcnet) /\ mcsrv'.list = mcsrv.list
<1>1. Has(mcsrv, {"list", "honours", "rt"}) /\ \E S : mcnet \in Seq(S)
  BY DEF McpInv
<1>2. PICK rt : mcsrv' = [mcsrv EXCEPT !.list = list, !.rt = rt]
  BY Zenon DEF Changes
<1>3. Has(mcsrv', {"list", "honours", "rt"}) /\ mcsrv'.list = list
  BY <1>1, <1>2 DEF Has
<1>4. mcnet' = IF list = mcsrv.list THEN mcnet ELSE Append(mcnet, <<"config", Blank>>)
  BY DEF Changes
<1>5. CASE list = mcsrv.list
  BY <1>1, <1>3, <1>4, <1>5
<1>6. CASE list # mcsrv.list
  <2>1. mcnet' = Append(mcnet, <<"config", Blank>>)
    BY <1>4, <1>6
  <2>2. <<"config", Blank>>[1] = "config"
    OBVIOUS
  <2>3. (\E S : mcnet' \in Seq(S)) /\ ~NoneComes(mcnet')
    BY <1>1, <2>1, <2>2, NetAppend
  <2>4. QED
    BY <1>3, <2>3
<1>7. QED
  BY <1>5, <1>6

\* With a frame on its way the page is told nothing wrong yet.
LEMMA LaterTold ==
  ASSUME NEW m, NEW list, NEW net, Told(m, list, net), NEW last, NEW frames,
         NoneComes(frames) => NoneComes(net) /\ last = list
  PROVE  Told(m, last, frames)
BY DEF Told

\* A call reaches the server.
LEMMA AppliesStep ==
  ASSUME McpInv, ServerApplies
  PROVE  McpInv'
<1>1. /\ Has(mc, McFields) /\ CallsFit(mc.calls) /\ Told(mc, mcsrv.list, mcnet)
  BY DEF McpInv, Told
<1>2. PICK i \in DOMAIN mc.calls : \E res :
        /\ Replies(i, res)
        /\ \/ Changes(Applied(mcsrv.list, mc.calls[i]), mc.calls[i])
           \/ UNCHANGED <<mcsrv, mcnet>>
  BY DEF ServerApplies
<1>3. PICK res : /\ mc' = [mc EXCEPT !.calls[i].res = res]
                 /\ \/ Changes(Applied(mcsrv.list, mc.calls[i]), mc.calls[i])
                    \/ UNCHANGED <<mcsrv, mcnet>>
  BY <1>2 DEF Replies
<1> DEFINE calls == [mc.calls EXCEPT ![i].res = res]
           g == [mc EXCEPT !.calls = calls]
<1>4. mc' = g
  BY <1>3
<1>5. CallsFit(calls) /\ (Untouched(calls) => Untouched(mc.calls))
  BY <1>1, CallMarked
<1> HIDE DEF calls
<1>6. /\ Has(g, McFields) /\ g.lists = mc.lists /\ g.list = mc.list /\ g.calls = calls
      /\ g.missed = mc.missed /\ g.undone = mc.undone
  BY <1>1 DEF Has, McFields
<1> HIDE DEF g
<1>7. SameLists(mc, g)
  BY <1>5, <1>6 DEF SameLists
<1>8. Told(mc', mcsrv.list, mcnet)
  BY <1>1, <1>4, <1>7, SameIsTold
<1>9. CASE UNCHANGED <<mcsrv, mcnet>>
  BY <1>8, <1>9, PageStep
<1>10. CASE Changes(Applied(mcsrv.list, mc.calls[i]), mc.calls[i])
  <2>1. /\ Has(mcsrv', {"list", "honours", "rt"}) /\ \E S : mcnet' \in Seq(S)
        /\ NoneComes(mcnet') => NoneComes(mcnet) /\ mcsrv'.list = mcsrv.list
    BY <1>10, ChangeIsTold
  <2>2. Told(mc', mcsrv'.list, mcnet')
    BY <1>8, <2>1, LaterTold
  <2>3. QED
    BY <2>1, <2>2 DEF McpInv
<1>11. QED
  BY <1>3, <1>9, <1>10

\* Another device, the agent's servers, the profile.
LEMMA ElsewhereStep ==
  ASSUME McpInv, ElsewhereChanges
  PROVE  McpInv'
<1>1. /\ Has(mcsrv, {"list", "honours", "rt"}) /\ \E S : mcnet \in Seq(S)
      /\ Told(mc, mcsrv.list, mcnet) /\ mc' = mc
  BY DEF McpInv, ElsewhereChanges
<1>2. ASSUME NEW list, NEW c, Changes(list, c) PROVE McpInv'
  <2>1. /\ Has(mcsrv', {"list", "honours", "rt"}) /\ \E S : mcnet' \in Seq(S)
        /\ NoneComes(mcnet') => NoneComes(mcnet) /\ mcsrv'.list = mcsrv.list
    BY <1>2, ChangeIsTold
  <2>2. Told(mc', mcsrv'.list, mcnet')
    BY <1>1, <2>1, LaterTold
  <2>3. QED
    BY <2>1, <2>2 DEF McpInv
<1>3. ASSUME NEW frame, mcnet' = Append(mcnet, frame) \/ mcnet' = mcnet,
             Has(mcsrv', {"list", "honours", "rt"}), mcsrv'.list = mcsrv.list
      PROVE  McpInv'
  <2>1. (\E S : mcnet' \in Seq(S)) /\ (NoneComes(mcnet') => NoneComes(mcnet))
    BY <1>1, <1>3, NetAppend
  <2>2. Told(mc', mcsrv'.list, mcnet')
    BY <1>1, <1>3, <2>1, LaterTold
  <2>3. QED
    BY <1>3, <2>1, <2>2 DEF McpInv
<1>4. \/ \E id : \/ Changes(RemoveConfiguredEntry(mcsrv.list, id), Call("other", id, <<>>))
                 \/ Changes(UpdateConfiguredEntry(mcsrv.list, id, ~mcsrv.list[At(mcsrv.list, id)].on),
                            Call("other", id, <<>>))
      \/ \E n, st : mcsrv' = [mcsrv EXCEPT !.rt[n] = st] /\ mcnet' = Append(mcnet, <<st, n>>)
      \/ mcsrv' = mcsrv /\ \E frame : mcnet' = Append(mcnet, frame)
      \/ mcsrv' = [mcsrv EXCEPT !.honours = ~@] /\ mcnet' = mcnet
  BY DEF ElsewhereChanges
<1>5. CASE \E id : \/ Changes(RemoveConfiguredEntry(mcsrv.list, id), Call("other", id, <<>>))
                   \/ Changes(UpdateConfiguredEntry(mcsrv.list, id, ~mcsrv.list[At(mcsrv.list, id)].on),
                              Call("other", id, <<>>))
  BY <1>2, <1>5
<1>6. CASE \E n, st : mcsrv' = [mcsrv EXCEPT !.rt[n] = st] /\ mcnet' = Append(mcnet, <<st, n>>)
  <2>1. PICK n, st : mcsrv' = [mcsrv EXCEPT !.rt[n] = st] /\ mcnet' = Append(mcnet, <<st, n>>)
    BY <1>6
  <2>2. Has(mcsrv', {"list", "honours", "rt"}) /\ mcsrv'.list = mcsrv.list
    BY <1>1, <2>1 DEF Has
  <2>3. QED
    BY <1>3, <2>1, <2>2
<1>7. CASE mcsrv' = mcsrv /\ \E frame : mcnet' = Append(mcnet, frame)
  BY <1>1, <1>3, <1>7
<1>8. CASE mcsrv' = [mcsrv EXCEPT !.honours = ~@] /\ mcnet' = mcnet
  <2>1. Has(mcsrv', {"list", "honours", "rt"}) /\ mcsrv'.list = mcsrv.list
    BY <1>1, <1>8 DEF Has
  <2>2. QED
    BY <1>3, <1>8, <2>1
<1>9. QED
  BY <1>4, <1>5, <1>6, <1>7, <1>8

\* A list to be read again is told nothing wrong.
LEMMA DueIsTold ==
  ASSUME NEW m, NEW list, NEW net, Has(m, McFields), Has(m.lists, {"due", "read"}), m.lists.due = TRUE,
         CallsFit(m.calls)
  PROVE  Told(m, list, net)
<1>1. m.lists # Slot
  <2>1. Slot.due = FALSE
    BY DEF Slot
  <2>2. QED
    BY <2>1
<1>2. QED
  BY <1>1 DEF Told

\* Reading again leaves all else.
LEMMA RefetchesAre ==
  ASSUME NEW m, Has(m, McFields), Has(m.lists, {"due", "read"})
  PROVE  /\ Has(RefetchBoth(m), McFields) /\ Has(RefetchBoth(m).lists, {"due", "read"})
         /\ RefetchBoth(m).lists.due = TRUE /\ RefetchBoth(m).calls = m.calls
         /\ SameLists(m, RefetchStatus(m))
<1> DEFINE lists == [m.lists EXCEPT !.due = TRUE]
           g == [m EXCEPT !.lists = lists]
           states == [g.states EXCEPT !.due = TRUE]
           h == [g EXCEPT !.states = states]
<1>1. RefetchBoth(m) = h
  BY DEF RefetchBoth, RefetchStatus, RefetchServers
<1>2. Has(lists, {"due", "read"}) /\ lists.due = TRUE
  BY DEF Has
<1> HIDE DEF lists
<1>3. Has(g, McFields) /\ g.lists = lists /\ g.calls = m.calls
  BY DEF Has, McFields
<1> HIDE DEF g, states
<1>4. Has(h, McFields) /\ h.lists = lists /\ h.calls = m.calls
  BY <1>3 DEF Has, McFields
<1>5. SameLists(m, RefetchStatus(m))
  BY DEF RefetchStatus, SameLists, Has, McFields
<1> HIDE DEF h
<1>6. QED
  BY <1>1, <1>2, <1>4, <1>5

\* A call is answered: the list is read again, or what was shown of it is taken back.
LEMMA AnsweredStep ==
  ASSUME McpInv, CallAnswered
  PROVE  McpInv'
<1>1. /\ Has(mc, McFields) /\ CallsFit(mc.calls) /\ Told(mc, mcsrv.list, mcnet)
      /\ Has(mc.lists, {"due", "read"})
  BY DEF McpInv, Told
<1>2. PICK i \in DOMAIN mc.calls :
        LET c == mc.calls[i]
            m == [mc EXCEPT !.calls = RemoveAt(@, i)]
        IN  /\ IF c.res = "failed" THEN mc' = Drawn(Rollback(m, c))
               ELSE IF c.kind = "insert" THEN \E text \in BOOLEAN : mc' = InsertIntoPrompt(m, text)
               ELSE IF c.kind = "reconnect"
                    THEN \E none \in BOOLEAN : mc' = Worked(IF none
                                                            THEN [m EXCEPT !.toast = "nochat"] ELSE m, c)
                    ELSE mc' = Drawn(Worked(m, c))
            /\ UNCHANGED <<mcsrv, mcnet>>
  BY DEF CallAnswered
<1> DEFINE c == mc.calls[i]
           calls == RemoveAt(mc.calls, i)
           m == [mc EXCEPT !.calls = calls]
<1>3. /\ UNCHANGED <<mcsrv, mcnet>>
      /\ \/ mc' = Drawn(Rollback(m, c))
         \/ c.kind = "insert" /\ \E text : mc' = InsertIntoPrompt(m, text)
         \/ c.kind = "reconnect" /\ \E toast : mc' = Worked([m EXCEPT !.toast = toast], c)
         \/ mc' = Drawn(Worked(m, c))
  <2>1. m = [m EXCEPT !.toast = mc.toast]
    BY <1>1 DEF Has, McFields
  <2> HIDE DEF m
  <2>2. /\ UNCHANGED <<mcsrv, mcnet>>
        /\ \/ mc' = Drawn(Rollback(m, c))
           \/ c.kind = "insert" /\ \E text : mc' = InsertIntoPrompt(m, text)
           \/ c.kind = "reconnect" /\ (mc' = Worked(m, c)
                                      \/ mc' = Worked([m EXCEPT !.toast = "nochat"], c))
           \/ mc' = Drawn(Worked(m, c))
    BY <1>2 DEF m
  <2>3. mc' = Worked(m, c) => mc' = Worked([m EXCEPT !.toast = mc.toast], c)
    BY <2>1
  <2>4. QED
    BY <2>2, <2>3
<1>4. CallsFit(calls) /\ (Untouched(calls) /\ ~Touches(c) => Untouched(mc.calls))
  BY <1>1, CallTaken
<1> HIDE DEF calls
<1>5. /\ Has(m, McFields) /\ m.calls = calls /\ m.lists = mc.lists /\ m.list = mc.list
      /\ m.missed = mc.missed /\ m.undone = mc.undone
  BY <1>1 DEF Has, McFields
<1> HIDE DEF m, c
<1>6. ASSUME ~Touches(c) PROVE Told(m, mcsrv.list, mcnet)
  BY <1>1, <1>4, <1>5, <1>6 DEF Told
<1>7. ASSUME NEW g, Has(g, McFields), g.calls = calls, g.lists = mc.lists, g.undone = TRUE
      PROVE  Told(g, mcsrv.list, mcnet)
  BY <1>1, <1>4, <1>7 DEF Told
<1>8. ASSUME NEW g, SameLists(m, g), ~Touches(c)
      PROVE  Told(g, mcsrv.list, mcnet) /\ Told(Drawn(g), mcsrv.list, mcnet)
  BY <1>6, <1>8, SameIsTold, DrawnIsTold
<1>9. SameLists(m, m)
  BY <1>5 DEF SameLists
<1>10. CASE mc' = Drawn(Rollback(m, c))
  <2>1. CASE c.kind = "toggle"
    <3> DEFINE list == UpdateConfiguredEntry(m.list, c.id, ~c.arg[1])
               g == [m EXCEPT !.list = list, !.undone = TRUE]
    <3>1. Rollback(m, c) = g
      BY <2>1 DEF Rollback
    <3> HIDE DEF list
    <3>2. Has(g, McFields) /\ g.calls = calls /\ g.lists = mc.lists /\ g.undone = TRUE
      BY <1>5 DEF Has, McFields
    <3> HIDE DEF g
    <3>3. Told(g, mcsrv.list, mcnet)
      BY <1>7, <3>2
    <3>4. QED
      BY <1>3, <1>10, <3>1, <3>3, DrawnIsTold, PageStep
  <2>2. CASE c.kind = "delete" /\ c.arg # <<>>
    <3> DEFINE list == InsertConfiguredEntry(m.list, c.arg[1], c.arg[2])
               g == [m EXCEPT !.list = list, !.undone = TRUE]
    <3>1. Rollback(m, c) = g
      BY <2>2 DEF Rollback
    <3> HIDE DEF list
    <3>2. Has(g, McFields) /\ g.calls = calls /\ g.lists = mc.lists /\ g.undone = TRUE
      BY <1>5 DEF Has, McFields
    <3> HIDE DEF g
    <3>3. Told(g, mcsrv.list, mcnet)
      BY <1>7, <3>2
    <3>4. QED
      BY <1>3, <1>10, <3>1, <3>3, DrawnIsTold, PageStep
  <2>3. CASE ~Touches(c)
    <3>1. c.kind # "toggle" /\ ~(c.kind = "delete" /\ c.arg # <<>>)
      BY <2>3 DEF Touches
    <3>2. Rollback(m, c) = m \/ Rollback(m, c) = [m EXCEPT !.relay[c.id] = "err"]
      BY <3>1 DEF Rollback
    <3>3. SameLists(m, [m EXCEPT !.relay[c.id] = "err"])
      BY <1>5 DEF SameLists, Has, McFields
    <3>4. QED
      BY <1>3, <1>8, <1>9, <1>10, <2>3, <3>2, <3>3, PageStep
  <2>4. QED
    BY <2>1, <2>2, <2>3 DEF Touches
<1>11. CASE c.kind = "insert" /\ \E text : mc' = InsertIntoPrompt(m, text)
  <2>1. PICK text : mc' = InsertIntoPrompt(m, text)
    BY <1>11
  <2>2. ~Touches(c)
    BY <1>11 DEF Touches
  <2>3. SameLists(m, InsertIntoPrompt(m, text))
    BY <1>5 DEF InsertIntoPrompt, SameLists, Has, McFields
  <2>4. Told(InsertIntoPrompt(m, text), mcsrv.list, mcnet)
    BY <1>8, <2>2, <2>3
  <2>5. QED
    BY <1>3, <2>1, <2>4, PageStep
<1>12. CASE c.kind = "reconnect" /\ \E toast : mc' = Worked([m EXCEPT !.toast = toast], c)
  <2>1. PICK toast : mc' = Worked([m EXCEPT !.toast = toast], c)
    BY <1>12
  <2> DEFINE g == [m EXCEPT !.toast = toast]
  <2>2. ~Touches(c)
    BY <1>12 DEF Touches
  <2>3. SameLists(m, g) /\ Has(g, McFields) /\ g.lists = mc.lists
    BY <1>5 DEF SameLists, Has, McFields
  <2>4. mc' = Worked(g, c)
    BY <2>1
  <2> HIDE DEF g
  <2>5. mc' = RefetchStatus(g)
    BY <1>12, <2>4 DEF Worked
  <2>6. SameLists(g, RefetchStatus(g))
    BY <1>1, <2>3, RefetchesAre
  <2>7. SameLists(m, RefetchStatus(g))
    BY <2>3, <2>6, SameAgain
  <2>8. Told(RefetchStatus(g), mcsrv.list, mcnet)
    BY <1>8, <2>2, <2>7
  <2>9. QED
    BY <1>3, <2>5, <2>8, PageStep
<1>13. CASE mc' = Drawn(Worked(m, c))
  <2>1. CASE c.kind \in {"toggle", "delete", "save", "import"}
    <3>1. Worked(m, c) = RefetchBoth(m)
      BY <2>1 DEF Worked
    <3>2. Told(RefetchBoth(m), mcsrv.list, mcnet)
      BY <1>1, <1>4, <1>5, RefetchesAre, DueIsTold
    <3>3. QED
      BY <1>3, <1>13, <3>1, <3>2, DrawnIsTold, PageStep
  <2>2. CASE c.kind \notin {"toggle", "delete", "save", "import"}
    <3>1. ~Touches(c)
      BY <2>2 DEF Touches
    <3> DEFINE g == [m EXCEPT !.relay[c.id] = "ok"]
    <3>2. Worked(m, c) \in {m, RefetchStatus(m), RefetchStatus(g)}
      BY <2>2 DEF Worked
    <3>3. SameLists(m, g) /\ Has(g, McFields) /\ g.lists = mc.lists
      BY <1>5 DEF SameLists, Has, McFields
    <3> HIDE DEF g
    <3>4. SameLists(m, RefetchStatus(m)) /\ SameLists(g, RefetchStatus(g))
      BY <1>1, <1>5, <3>3, RefetchesAre
    <3>5. SameLists(m, RefetchStatus(g))
      BY <3>3, <3>4, SameAgain
    <3>6. SameLists(m, Worked(m, c))
      BY <1>9, <3>2, <3>4, <3>5
    <3>7. QED
      BY <1>3, <1>8, <1>13, <3>1, <3>6, PageStep
  <2>3. QED
    BY <2>1, <2>2
<1>14. QED
  BY <1>3, <1>10, <1>11, <1>12, <1>13

\* A frame arrives: one about the configuration reads the list again, any other leaves it.
LEMMA EventStep ==
  ASSUME McpInv, EventArrives
  PROVE  McpInv'
<1>1. /\ Has(mc, McFields) /\ CallsFit(mc.calls) /\ Told(mc, mcsrv.list, mcnet)
      /\ Has(mc.lists, {"due", "read"}) /\ Has(mcsrv, {"list", "honours", "rt"})
  BY DEF McpInv, Told
<1>2. PICK S : mcnet \in Seq(S)
  BY DEF McpInv
<1>3. mcnet # <<>> /\ mc' = Drawn(InitMCP(mc, Head(mcnet))) /\ mcnet' = Tail(mcnet) /\ UNCHANGED mcsrv
  BY DEF EventArrives
<1> DEFINE f == Head(mcnet)
           g == InitMCP(mc, f)
<1>4. (\E T : Tail(mcnet) \in Seq(T)) /\ f = mcnet[1]
  BY <1>2, <1>3
<1>5. f[1] # "config" /\ NoneComes(Tail(mcnet)) => NoneComes(mcnet)
  <2> SUFFICES ASSUME f[1] # "config", NoneComes(Tail(mcnet)), NEW i \in DOMAIN mcnet
               PROVE  mcnet[i][1] # "config"
    BY DEF NoneComes
  <2>1. i \in 1..Len(mcnet) /\ Len(mcnet) \in Nat
    BY <1>2
  <2>2. i = 1 \/ (i - 1 \in DOMAIN Tail(mcnet) /\ Tail(mcnet)[i - 1] = mcnet[i])
    BY <1>2, <1>3, <2>1
  <2> HIDE DEF f
  <2>3. QED
    BY <1>4, <2>2 DEF NoneComes
<1> HIDE DEF f
<1>6. CASE f[1] = "config"
  <2>1. g = RefetchBoth(mc)
    BY <1>6 DEF InitMCP
  <2>2. Told(g, mcsrv.list, Tail(mcnet))
    BY <1>1, <2>1, RefetchesAre, DueIsTold
  <2> HIDE DEF g
  <2>3. Told(Drawn(g), mcsrv.list, Tail(mcnet))
    BY <2>2, DrawnIsTold
  <2>4. QED
    BY <1>1, <1>3, <1>4, <2>3 DEF McpInv, g, f
<1>7. CASE f[1] # "config"
  <2>1. \A m, n, st : Has(m, McFields) => SameLists(m, SetStatusFromEvent(m, n, st))
    BY DEF SetStatusFromEvent, SameLists, Has, McFields
  <2>2. SameLists(mc, g)
    <3>1. CASE f[1] = "connected"
      <4> DEFINE h == SetStatusFromEvent(mc, f[2], f[1])
      <4>1. g = RefetchStatus(h)
        BY <3>1 DEF InitMCP
      <4>2. SameLists(mc, h)
        BY <1>1, <2>1
      <4> HIDE DEF h, g
      <4>3. SameLists(h, RefetchStatus(h))
        BY <1>1, <4>2, RefetchesAre DEF SameLists
      <4>4. QED
        BY <4>1, <4>2, <4>3, SameAgain
    <3>2. CASE f[1] = "needs_auth"
      BY <1>1, <2>1, <3>2 DEF InitMCP
    <3>3. CASE f[1] = "failed"
      <4> DEFINE h == Announce(mc, f[2])
      <4>1. g = SetStatusFromEvent(h, f[2], f[1])
        BY <3>3 DEF InitMCP
      <4>2. SameLists(mc, h)
        BY <1>1 DEF Announce, SameLists, Has, McFields
      <4> HIDE DEF h, g
      <4>3. SameLists(h, SetStatusFromEvent(h, f[2], f[1]))
        BY <2>1, <4>2 DEF SameLists
      <4>4. QED
        BY <4>1, <4>2, <4>3, SameAgain
    <3>4. CASE f[1] = "none"
      <4>1. g = DeleteStatus(mc, f[2])
        BY <3>4 DEF InitMCP
      <4>2. QED
        BY <1>1, <4>1 DEF DeleteStatus, SameLists, Has, McFields
    <3>5. CASE f[1] = "policy"
      <4>1. g = [mc EXCEPT !.barred = ~@]
        BY <3>5 DEF InitMCP
      <4>2. QED
        BY <1>1, <4>1 DEF SameLists, Has, McFields
    <3>6. CASE f[1] \notin {"config", "connected", "needs_auth", "failed", "none", "policy"}
      <4>1. g = SetPrewarm(mc, f[2], f[1])
        BY <3>6 DEF InitMCP
      <4>2. QED
        BY <1>1, <4>1 DEF SetPrewarm, SameLists, Has, McFields
    <3>7. QED
      BY <1>7, <3>1, <3>2, <3>3, <3>4, <3>5, <3>6
  <2> HIDE DEF g
  <2>3. Told(Drawn(g), mcsrv.list, mcnet)
    BY <1>1, <2>2, SameIsTold, DrawnIsTold
  <2>4. Told(Drawn(g), mcsrv.list, Tail(mcnet))
    BY <1>5, <1>7, <2>3, LaterTold
  <2>5. QED
    BY <1>1, <1>3, <1>4, <2>4 DEF McpInv, g, f
<1>8. QED
  BY <1>6, <1>7

\* At first the list is to be read.
LEMMA McpStarts ==
  ASSUME McpInit
  PROVE  McpInv
<1> DEFINE m == [list |-> <<>>, status |-> [n \in Names |-> Idle], disc |-> [n \in Names |-> FALSE],
                 foreign |-> {}, prewarm |-> [id \in ServerIds |-> "none"],
                 honoured |-> TRUE, barred |-> FALSE,
                 lists |-> Slot, states |-> Slot, missed |-> FALSE, undone |-> FALSE, calls |-> <<>>,
                 confirm |-> Blank, toast |-> Blank, prompt |-> 0, rows |-> <<>>, others |-> <<>>,
                 relay |-> [id \in ServerIds |-> "none"], warned |-> "none"]
<1>1. mc = Drawn(RefetchBoth(m)) /\ mcnet = <<>>
  BY Zenon DEF McpInit
<1>2. Has(mcsrv, {"list", "honours", "rt"})
  <2>1. PICK list, rt : mcsrv = [list |-> list, honours |-> TRUE, rt |-> rt]
    BY Zenon DEF McpInit
  <2>2. QED
    BY <2>1 DEF Has
<1>3. Has(m, McFields)
  BY DEF Has, McFields
<1>4. m.lists = Slot /\ m.calls = <<>>
  OBVIOUS
<1> HIDE DEF m
<1>5. Has(m.lists, {"due", "read"})
  BY <1>4 DEF Slot, Has
<1>6. CallsFit(m.calls)
  <2> DEFINE S == {}
  <2>1. <<>> \in Seq(S) /\ \A c \in S : Has(c, CallFields)
    OBVIOUS
  <2> HIDE DEF S
  <2>2. QED
    BY <1>4, <2>1 DEF CallsFit
<1>7. Told(RefetchBoth(m), mcsrv.list, mcnet)
  BY <1>3, <1>5, <1>6, RefetchesAre, DueIsTold
<1>8. \E S : mcnet \in Seq(S)
  <2>1. <<>> \in Seq({})
    OBVIOUS
  <2>2. QED
    BY <1>1, <2>1
<1>9. QED
  BY <1>1, <1>2, <1>7, <1>8, DrawnIsTold DEF McpInv

\* Once nothing is on its way the page lists the servers there are, each on or off as it is: an older
\* read never has the last word (MCPStateController, mcp-state.ts).
THEOREM NoOldServersLast == McpSpec => []ListCatchesUp
<1>1. McpInit => McpInv
  BY McpStarts
<1>2. McpInv /\ [McpNext]_mcvars => McpInv'
  <2> SUFFICES ASSUME McpInv, [McpNext]_mcvars PROVE McpInv'
    OBVIOUS
  <2>1. CASE McpNext
    BY <2>1, FetchesStep, FetchStep, CallMadeStep, DialogStep, AppliesStep, AnsweredStep, ElsewhereStep,
       EventStep DEF McpNext
  <2>2. CASE UNCHANGED mcvars
    BY <2>2, DialogStep
  <2>3. QED
    BY <2>1, <2>2
<1>3. McpInv => ListCatchesUp
  <2> SUFFICES ASSUME McpInv, Quiet, ~mc.missed, ~mc.undone PROVE OnOf(mc.list) = OnOf(mcsrv.list)
    BY DEF ListCatchesUp
  <2>1. mc.lists = Slot /\ mc.calls = <<>> /\ mcnet = <<>>
    BY DEF Quiet
  <2>2. NoneComes(mcnet) /\ Untouched(mc.calls)
    BY <2>1 DEF NoneComes, Untouched
  <2>3. mc.list = mcsrv.list
    BY <2>1, <2>2 DEF McpInv, Told
  <2>4. QED
    BY <2>3
<1>4. QED
  BY <1>1, <1>2, <1>3, PTL DEF McpSpec

----------------------------------------------------------------------------
(* The forges panel.  Only reads of the newest render's generation are     *)
(* drawn; there is one of them at a time, and its list is no older than    *)
(* the one on show, because the list that callers share is served after    *)
(* every list that somebody holds.                                         *)

ForgeFields == {"gen", "reads", "list", "state", "failed", "shown", "error", "rows", "panes", "made",
                "expand", "jobs", "outs", "pats", "flows", "tab", "active", "dismissed"}

ReadFields == {"what", "gen", "st", "probes", "data", "local", "full"}

ForgesFormed(f) ==
    /\ Has(f, ForgeFields) /\ f.gen \in Nat
    /\ Has(f.shown, {"err", "data", "local", "full"}) /\ f.shown.data.at \in Nat
    /\ Has(f.list, {"st", "ans"}) /\ f.list.ans.at \in Nat
    /\ \A r \in f.reads : Has(r, ReadFields) /\ r.gen \in Nat /\ r.data.at \in Nat

\* Nothing held is newer than the server; a served list is as new as anything held.
ServedLast(f, at) ==
    /\ f.shown.data.at <= at
    /\ \A r \in f.reads : r.data.at <= at
    /\ f.list.st = "served" => /\ f.shown.data.at <= f.list.ans.at /\ f.list.ans.at <= at
                               /\ \A r \in f.reads : r.data.at <= f.list.ans.at

\* One read at most may be drawn, and it takes the panel forward.
OneIsHeard(f) ==
    /\ \A r \in f.reads : r.gen <= f.gen
    /\ \A r, q \in f.reads : r.gen = f.gen /\ q.gen = f.gen => r = q
    /\ \A r \in f.reads : r.gen = f.gen /\ r.st \in {"repos", "served"} => f.shown.data.at <= r.data.at

PanelFresh(f, at) == ForgesFormed(f) /\ ServedLast(f, at) /\ OneIsHeard(f)

\* What the panel does from f to g: its list is kept or replaced by one as new.
Goes(f, g, at) == PanelFresh(g, at) /\ f.shown.data.at <= g.shown.data.at

\* Nothing of a client state but what the invariant is about matters.
PanelAlike(f, g) == g.gen = f.gen /\ g.reads = f.reads /\ g.list = f.list /\ g.shown.data = f.shown.data

\* A state alike in that is as fresh.
LEMMA PanelAlikeIsFresh ==
  ASSUME NEW f, NEW g, NEW at, PanelFresh(f, at), PanelAlike(f, g), Has(g, ForgeFields),
         Has(g.shown, {"err", "data", "local", "full"})
  PROVE  Goes(f, g, at)
BY DEF PanelFresh, PanelAlike, ForgesFormed, ServedLast, OneIsHeard, Goes

\* Painting reads what is on show and leaves it.
LEMMA PaintIsFresh ==
  ASSUME NEW f, NEW at, PanelFresh(f, at)
  PROVE  Goes(f, PaintIntoRoot(f), at) /\ PanelAlike(f, PaintIntoRoot(f))
<1> DEFINE g == PaintIntoRoot(f)
<1>1. Has(f, ForgeFields) /\ Has(f.shown, {"err", "data", "local", "full"})
  BY DEF PanelFresh, ForgesFormed
<1>2. Has(g, ForgeFields) /\ g.gen = f.gen /\ g.reads = f.reads /\ g.list = f.list /\ g.shown = f.shown
  BY <1>1 DEF Has, ForgeFields, PaintIntoRoot, PaintErrorState
<1> HIDE DEF g
<1>3. PanelAlike(f, g)
  BY <1>2 DEF PanelAlike
<1>4. Goes(f, g, at)
  BY <1>1, <1>2, <1>3, PanelAlikeIsFresh
<1>5. QED
  BY <1>3, <1>4 DEF g

\* Asking for the shared list, or joining whoever did.
LEMMA PanelRefreshIsFresh ==
  ASSUME NEW f, NEW at, PanelFresh(f, at)
  PROVE  Goes(f, RefreshForges(f), at)
<1> DEFINE g == RefreshForges(f)
<1>1. Has(f, ForgeFields) /\ Has(f.list, {"st", "ans"}) /\ f.list.ans.at \in Nat
  BY DEF PanelFresh, ForgesFormed
<1>2. /\ Has(g, ForgeFields) /\ g.gen = f.gen /\ g.reads = f.reads /\ g.shown = f.shown
      /\ Has(g.list, {"st", "ans"}) /\ g.list.ans = f.list.ans
      /\ g.list.st = "served" => f.list.st = "served"
  BY <1>1 DEF Has, ForgeFields, RefreshForges
<1> HIDE DEF g
<1>3. Goes(f, g, at)
  BY <1>2 DEF Goes, PanelFresh, ForgesFormed, ServedLast, OneIsHeard
<1>4. QED
  BY <1>3 DEF g

\* A render takes a generation of its own, and has no list yet.
LEMMA RenderIsFresh ==
  ASSUME NEW f, NEW at \in Nat, PanelFresh(f, at), NEW probes
  PROVE  Goes(f, RenderForgesPanel(f, probes), at)
<1> DEFINE new == [what |-> "render", gen |-> f.gen + 1, st |-> "list", probes |-> probes,
                   data |-> NoList, local |-> {}, full |-> {}]
           h == [f EXCEPT !.gen = @ + 1, !.reads = @ \cup {new}]
<1>1. Has(f, ForgeFields) /\ f.gen \in Nat
  BY DEF PanelFresh, ForgesFormed
<1>2. Has(new, ReadFields) /\ new.gen = f.gen + 1 /\ new.st = "list" /\ new.data.at = 0
  BY DEF Has, ReadFields, NoList
<1>3. /\ Has(h, ForgeFields) /\ h.gen = f.gen + 1 /\ h.reads = f.reads \cup {new}
      /\ h.list = f.list /\ h.shown = f.shown
  BY <1>1 DEF Has, ForgeFields
<1>4. RenderForgesPanel(f, probes) = RefreshForges(h)
  BY DEF RenderForgesPanel
<1> HIDE DEF new, h
<1>5. ForgesFormed(h)
  BY <1>1, <1>2, <1>3 DEF PanelFresh, ForgesFormed
<1>6. ServedLast(h, at)
  BY <1>2, <1>3 DEF PanelFresh, ForgesFormed, ServedLast
<1>7. OneIsHeard(h)
  BY <1>1, <1>2, <1>3 DEF PanelFresh, ForgesFormed, OneIsHeard
<1>8. Goes(h, RefreshForges(h), at)
  BY <1>5, <1>6, <1>7, PanelRefreshIsFresh DEF PanelFresh
<1>9. QED
  BY <1>3, <1>4, <1>8 DEF Goes

\* With a probe to follow and without one.
LEMMA EitherRenderIsFresh ==
  ASSUME NEW f, NEW at \in Nat, PanelFresh(f, at)
  PROVE  /\ Goes(f, RenderForgesPanel(f, TRUE), at)
         /\ Goes(f, RenderForgesPanel(f, FALSE), at)
<1>1. Goes(f, RenderForgesPanel(f, TRUE), at)
  BY RenderIsFresh, Zenon
<1>2. Goes(f, RenderForgesPanel(f, FALSE), at)
  BY RenderIsFresh, Zenon
<1>3. QED
  BY <1>1, <1>2

\* Going on from where one got to.
LEMMA GoesOn ==
  ASSUME NEW f, NEW g, NEW h, NEW at, PanelFresh(f, at), Goes(f, g, at), Goes(g, h, at)
  PROVE  Goes(f, h, at)
BY DEF Goes, PanelFresh, ForgesFormed

\* A server that goes on leaves it fresh.
LEMMA FreshLater ==
  ASSUME NEW f, NEW at \in Nat, NEW bt \in Nat, at <= bt, PanelFresh(f, at)
  PROVE  Goes(f, f, bt)
BY DEF Goes, PanelFresh, ForgesFormed, ServedLast

\* Whoever waited for the list takes it on, or shows that there is none.
LEMMA AnsweredIsFresh ==
  ASSUME NEW f, NEW at \in Nat, PanelFresh(f, at), NEW ok \in BOOLEAN, ok => f.list.st = "served"
  PROVE  Goes(f, ListAnswered(f, ok), at)
<1> DEFINE up(r) == [r EXCEPT !.st = "repos", !.data = f.list.ans]
           waits == {r \in f.reads : r.st = "list" /\ ~(r.what = "render" /\ Superseded(f, r))}
           rest == {r \in f.reads : r.st # "list"}
           app == Apply(f, ok)
           g == [app EXCEPT !.list = NoRead]
           won == [g EXCEPT !.reads = rest \cup {up(r) : r \in waits}]
           err == [g EXCEPT !.reads = rest, !.shown.err = TRUE]
           lost == [g EXCEPT !.reads = rest]
<1>1. /\ Has(f, ForgeFields) /\ Has(f.shown, {"err", "data", "local", "full"}) /\ f.shown.data.at \in Nat
      /\ f.gen \in Nat /\ f.list.ans.at \in Nat
      /\ \A r \in f.reads : Has(r, ReadFields) /\ r.gen \in Nat /\ r.data.at \in Nat
  BY DEF PanelFresh, ForgesFormed
<1>2. ListAnswered(f, ok) = IF ok THEN won
                               ELSE IF \E r \in waits : r.what = "render" THEN PaintIntoRoot(err) ELSE lost
  BY DEF ListAnswered
<1>3. /\ Has(app, ForgeFields) /\ app.gen = f.gen /\ app.reads = f.reads /\ app.shown = f.shown
  BY <1>1 DEF Has, ForgeFields, Apply
<1>4. /\ Has(g, ForgeFields) /\ g.gen = f.gen /\ g.reads = f.reads /\ g.shown = f.shown
      /\ Has(g.list, {"st", "ans"}) /\ g.list.st = "none" /\ g.list.ans.at = 0
  BY <1>3 DEF Has, ForgeFields, NoRead, NoList
<1>5. \A r \in f.reads : /\ Has(up(r), ReadFields) /\ up(r).gen = r.gen
                         /\ up(r).st = "repos" /\ up(r).data = f.list.ans
  BY <1>1 DEF Has, ReadFields
<1>6. /\ Has(won, ForgeFields) /\ won.gen = f.gen /\ won.shown = f.shown /\ won.list = g.list
      /\ won.reads = rest \cup {up(r) : r \in waits}
  BY <1>4 DEF Has, ForgeFields
<1>7. /\ Has(lost, ForgeFields) /\ lost.gen = f.gen /\ lost.shown = f.shown /\ lost.list = g.list
      /\ lost.reads = rest
  BY <1>4 DEF Has, ForgeFields
<1>8. /\ Has(err, ForgeFields) /\ err.gen = f.gen /\ err.shown.data = f.shown.data /\ err.list = g.list
      /\ err.reads = rest /\ Has(err.shown, {"err", "data", "local", "full"})
  <2> DEFINE s == g.shown
             t == [s EXCEPT !.err = TRUE]
  <2>1. err = [g EXCEPT !.reads = rest, !.shown = t]
    OBVIOUS
  <2>2. Has(s, {"err", "data", "local", "full"}) /\ s.data = f.shown.data
    BY <1>1, <1>4
  <2> HIDE DEF s
  <2>3. Has(t, {"err", "data", "local", "full"}) /\ t.data = s.data
    BY <2>2 DEF Has
  <2> HIDE DEF err, t
  <2>4. Has(err, ForgeFields) /\ err.reads = rest /\ err.shown = t
    BY <1>4, <2>1 DEF Has, ForgeFields
  <2>5. err.gen = g.gen /\ err.list = g.list
    BY <1>4, <2>1 DEF Has, ForgeFields
  <2>6. QED
    BY <1>4, <2>2, <2>3, <2>4, <2>5
<1>9. waits \subseteq f.reads /\ rest \subseteq f.reads /\ \A r \in waits : r \notin rest
  OBVIOUS
<1> HIDE DEF up, waits, rest, app, g, won, err, lost
<1>10. CASE ok
  <2>1. \A r \in won.reads : \/ r \in rest
                             \/ \E q \in waits : r = up(q)
    BY <1>6
  <2>2. ForgesFormed(won)
    BY <1>1, <1>4, <1>5, <1>6, <1>9, <2>1 DEF ForgesFormed
  <2>3. ServedLast(won, at)
    BY <1>10, <1>4, <1>5, <1>6, <1>9, <2>1 DEF PanelFresh, ServedLast
  <2>4. OneIsHeard(won)
    <3>1. \A r \in won.reads : r.gen <= won.gen
      BY <1>5, <1>6, <1>9, <2>1 DEF PanelFresh, OneIsHeard
    <3>2. ASSUME NEW r \in won.reads, NEW q \in won.reads, r.gen = won.gen, q.gen = won.gen PROVE r = q
      BY <3>2, <1>5, <1>6, <1>9, <2>1 DEF PanelFresh, OneIsHeard
    <3>3. ASSUME NEW r \in won.reads, r.gen = won.gen, r.st \in {"repos", "served"}
          PROVE  won.shown.data.at <= r.data.at
      BY <3>3, <1>10, <1>5, <1>6, <1>9, <2>1 DEF PanelFresh, OneIsHeard, ServedLast
    <3>4. QED
      BY <3>1, <3>2, <3>3 DEF OneIsHeard
  <2>5. ListAnswered(f, ok) = won
    BY <1>10, <1>2
  <2>6. Goes(f, won, at)
    BY <1>1, <1>6, <2>2, <2>3, <2>4 DEF Goes, PanelFresh
  <2>7. QED
    BY <2>5, <2>6
<1>11. CASE ~ok
  <2>1. Goes(f, lost, at)
    BY <1>1, <1>4, <1>7, <1>9 DEF Goes, PanelFresh, ForgesFormed, ServedLast, OneIsHeard
  <2>2. Goes(f, err, at)
    BY <1>1, <1>4, <1>8, <1>9 DEF Goes, PanelFresh, ForgesFormed, ServedLast, OneIsHeard
  <2>3. Goes(err, PaintIntoRoot(err), at)
    BY <2>2, PaintIsFresh DEF Goes
  <2>4. Goes(f, PaintIntoRoot(err), at)
    BY <2>2, <2>3, GoesOn
  <2>5. ListAnswered(f, ok) = lost \/ ListAnswered(f, ok) = PaintIntoRoot(err)
    BY <1>11, <1>2
  <2>6. QED
    BY <2>1, <2>4, <2>5
<1>12. QED
  BY <1>10, <1>11

\* What is drawn is what the one read that is heard has brought.
LEMMA ReposIsFresh ==
  ASSUME NEW f, NEW at \in Nat, PanelFresh(f, at), NEW r \in f.reads, r.st = "served"
  PROVE  Goes(f, ReposAnswered(f, r), at)
<1> DEFINE g == [f EXCEPT !.reads = @ \ {r}]
           shown == [err |-> f.shown.err /\ r.what = "probe", data |-> r.data, local |-> r.local, full |-> r.full]
           p == [g EXCEPT !.shown = shown]
           h == PaintIntoRoot(p)
           probe == [what |-> "probe", gen |-> h.gen, st |-> "probe", probes |-> FALSE,
                     data |-> r.data, local |-> {}, full |-> {}]
           v == Revalidate(h, r.data)
<1>1. /\ Has(f, ForgeFields) /\ f.shown.data.at \in Nat /\ f.gen \in Nat /\ r.data.at \in Nat
      /\ r.gen \in Nat
  BY DEF PanelFresh, ForgesFormed
<1>2. ReposAnswered(f, r) = IF Superseded(f, r) THEN g
                               ELSE IF r.probes /\ r.data.conn # {} THEN v ELSE h
  BY DEF ReposAnswered
<1>3. /\ Has(g, ForgeFields) /\ g.gen = f.gen /\ g.shown = f.shown /\ g.list = f.list
      /\ g.reads = f.reads \ {r}
  BY <1>1 DEF Has, ForgeFields
<1>4. Has(shown, {"err", "data", "local", "full"}) /\ shown.data = r.data
  BY DEF Has
<1> HIDE DEF shown
<1>5. /\ Has(p, ForgeFields) /\ p.gen = f.gen /\ p.shown = shown /\ p.list = f.list
      /\ p.reads = f.reads \ {r}
  BY <1>3 DEF Has, ForgeFields
<1>6. v = [h EXCEPT !.reads = {q \in @ : q.what # "probe"} \cup {probe}]
  BY DEF Revalidate
<1> HIDE DEF g, p
<1>7. Goes(f, g, at)
  BY <1>1, <1>3 DEF Goes, PanelFresh, ForgesFormed, ServedLast, OneIsHeard
<1>8. ASSUME ~Superseded(f, r) PROVE Goes(f, h, at) /\ (r.data.conn # {} => Goes(f, v, at))
  <2>1. r.gen = f.gen /\ f.shown.data.at <= r.data.at
    BY <1>8 DEF Superseded, PanelFresh, OneIsHeard
  <2>2. \A q \in p.reads : q \in f.reads /\ q.gen # f.gen
    BY <2>1, <1>5 DEF PanelFresh, OneIsHeard
  <2>3. Goes(f, p, at)
    <3>1. ForgesFormed(p)
      BY <1>1, <1>4, <1>5, <2>2 DEF PanelFresh, ForgesFormed
    <3>2. ServedLast(p, at)
      BY <1>1, <1>4, <1>5, <2>2 DEF PanelFresh, ServedLast
    <3>3. OneIsHeard(p)
      BY <1>1, <1>4, <1>5, <2>2 DEF PanelFresh, OneIsHeard
    <3>4. QED
      BY <1>4, <1>5, <2>1, <3>1, <3>2, <3>3 DEF Goes, PanelFresh
  <2>4. Goes(p, h, at) /\ PaintIntoRoot(p).reads = p.reads /\ h.gen = p.gen
        /\ h.list = p.list /\ h.shown.data = p.shown.data
    BY <2>3, PaintIsFresh DEF Goes, PanelAlike
  <2> HIDE DEF h
  <2>5. Goes(f, h, at)
    BY <2>3, <2>4, GoesOn
  <2>6. Has(probe, ReadFields) /\ probe.gen = h.gen /\ probe.st = "probe" /\ probe.data = r.data
    BY DEF Has, ReadFields
  <2>7. Has(h, ForgeFields) /\ h.gen \in Nat
    BY <2>5 DEF Goes, PanelFresh, ForgesFormed
  <2>8. /\ Has(v, ForgeFields) /\ v.gen = h.gen /\ v.shown = h.shown /\ v.list = h.list
        /\ v.reads = {q \in h.reads : q.what # "probe"} \cup {probe}
    BY <1>6, <2>7 DEF Has, ForgeFields
  <2> HIDE DEF v, probe
  <2>9. h.reads = p.reads
    BY <2>4 DEF h
  <2>10. Goes(h, v, at)
    <3>1. ForgesFormed(v)
      BY <1>1, <2>5, <2>6, <2>8 DEF Goes, PanelFresh, ForgesFormed
    <3>2. ServedLast(v, at)
      <4>1. \A q \in v.reads : q \in h.reads \/ q = probe
        BY <2>8
      <4>2. r.data.at <= at /\ (h.list.st = "served" => r.data.at <= h.list.ans.at)
        BY <1>5, <2>4 DEF PanelFresh, ServedLast
      <4>3. QED
        BY <4>1, <4>2, <2>5, <2>6, <2>8 DEF Goes, PanelFresh, ServedLast
    <3>3. OneIsHeard(v)
      BY <1>5, <2>2, <2>4, <2>5, <2>6, <2>7, <2>8, <2>9 DEF Goes, PanelFresh, OneIsHeard
    <3>4. QED
      BY <2>5, <2>8, <3>1, <3>2, <3>3 DEF Goes, PanelFresh, ForgesFormed
  <2>11. QED
    BY <2>5, <2>10, GoesOn
<1>9. QED
  BY <1>2, <1>7, <1>8

\* A client state that differs in nothing of it.
Same(f, g) == Has(g, ForgeFields) /\ g.gen = f.gen /\ g.reads = f.reads /\ g.list = f.list /\ g.shown = f.shown

\* Then it is as fresh as it was.
LEMMA SameIsFresh ==
  ASSUME NEW f, NEW g, NEW at, PanelFresh(f, at), Same(f, g)
  PROVE  Goes(f, g, at)
BY DEF PanelFresh, Same, ForgesFormed, ServedLast, OneIsHeard, Goes

\* A read goes on with the list it has.
LEMMA ReadGoesOn ==
  ASSUME NEW f, NEW at, PanelFresh(f, at), NEW r \in f.reads, NEW q, Has(q, ReadFields),
         q.gen = r.gen, q.data = r.data, q.st \in {"repos", "served"} => r.st \in {"repos", "served"}
  PROVE  Goes(f, [f EXCEPT !.reads = (@ \ {r}) \cup {q}], at)
<1> DEFINE g == [f EXCEPT !.reads = (@ \ {r}) \cup {q}]
<1>1. Has(f, ForgeFields) /\ f.shown.data.at \in Nat
  BY DEF PanelFresh, ForgesFormed
<1>2. /\ Has(g, ForgeFields) /\ g.gen = f.gen /\ g.list = f.list /\ g.shown = f.shown
      /\ g.reads = (f.reads \ {r}) \cup {q}
  BY <1>1 DEF Has, ForgeFields
<1> HIDE DEF g
<1>3. ForgesFormed(g)
  BY <1>2 DEF PanelFresh, ForgesFormed
<1>4. ServedLast(g, at)
  BY <1>2 DEF PanelFresh, ServedLast
<1>5. OneIsHeard(g)
  BY <1>2 DEF PanelFresh, OneIsHeard
<1>6. Goes(f, g, at)
  BY <1>1, <1>2, <1>3, <1>4, <1>5 DEF Goes, PanelFresh
<1>7. QED
  BY <1>6 DEF g

\* The local names of the repositories on show change in place.
LEMMA LocalIsFresh ==
  ASSUME NEW f, NEW at, PanelFresh(f, at), NEW local
  PROVE  Goes(f, PaintIntoRoot([f EXCEPT !.shown.local = local]), at)
<1> DEFINE s == f.shown
           t == [s EXCEPT !.local = local]
           g == [f EXCEPT !.shown = t]
<1>1. Has(f, ForgeFields) /\ Has(s, {"err", "data", "local", "full"})
  BY DEF PanelFresh, ForgesFormed
<1>2. [f EXCEPT !.shown.local = local] = g
  OBVIOUS
<1> HIDE DEF s
<1>3. Has(t, {"err", "data", "local", "full"}) /\ t.data = s.data
  BY <1>1 DEF Has
<1> HIDE DEF t
<1>4. /\ Has(g, ForgeFields) /\ g.gen = f.gen /\ g.reads = f.reads /\ g.list = f.list /\ g.shown = t
  BY <1>1 DEF Has, ForgeFields
<1> HIDE DEF g
<1>5. PanelAlike(f, g)
  BY <1>3, <1>4 DEF PanelAlike, s
<1>6. Goes(f, g, at)
  BY <1>3, <1>4, <1>5, PanelAlikeIsFresh
<1>7. Goes(g, PaintIntoRoot(g), at)
  BY <1>6, PaintIsFresh DEF Goes
<1>8. Goes(f, PaintIntoRoot(g), at)
  BY <1>6, <1>7, GoesOn
<1>9. QED
  BY <1>2, <1>8

----------------------------------------------------------------------------
\* The server's part of the state, as far as the panel's invariant reads it.
ServerFormed(s) ==
    Has(s, {"have", "conn", "good", "local", "at", "frames", "approved"}) /\ s.at \in Nat

ForgesInv == ServerFormed(fgsrv) /\ PanelFresh(fg, fgsrv.at)

ForgesStep == ServerFormed(fgsrv') /\ fgsrv.at <= fgsrv'.at /\ Goes(fg, fg', fgsrv'.at)

\* A step of the panel, with the server at rest.
LEMMA PanelStep ==
  ASSUME ForgesInv, UNCHANGED fgsrv, Goes(fg, fg', fgsrv.at)
  PROVE  ForgesStep
BY DEF ForgesInv, ForgesStep, ServerFormed

\* A step of the server with nothing of it in the panel.
LEMMA ServerStep ==
  ASSUME ForgesInv, ServerFormed(fgsrv'), fgsrv.at <= fgsrv'.at, Same(fg, fg')
  PROVE  ForgesStep
<1>1. Goes(fg, fg, fgsrv'.at)
  BY FreshLater DEF ForgesInv, ServerFormed
<1>2. QED
  BY <1>1, SameIsFresh DEF ForgesStep, Goes

\* The server answers the shared list.
LEMMA ListServedStep ==
  ASSUME ForgesInv, ListServed
  PROVE  ForgesStep
<1> DEFINE g == fg'
<1>1. Has(fg, ForgeFields) /\ fg.shown.data.at \in Nat
  BY DEF ForgesInv, PanelFresh, ForgesFormed
<1>2. /\ Has(g, ForgeFields) /\ g.gen = fg.gen /\ g.reads = fg.reads /\ g.shown = fg.shown
      /\ Has(g.list, {"st", "ans"}) /\ g.list.ans.at = fgsrv.at
  BY <1>1 DEF Has, ForgeFields, ListServed, Listed
<1> HIDE DEF g
<1>3. Goes(fg, g, fgsrv.at)
  BY <1>1, <1>2 DEF ForgesInv, ServerFormed, Goes, PanelFresh, ForgesFormed, ServedLast, OneIsHeard
<1>4. QED
  BY <1>3, PanelStep DEF g, ListServed

\* The answer of the list arrives, or fails.
LEMMA ListArrivesStep ==
  ASSUME ForgesInv, ListArrives
  PROVE  ForgesStep
<1>1. PanelFresh(fg, fgsrv.at) /\ fgsrv.at \in Nat
  BY DEF ForgesInv, ServerFormed
<1>2. CASE fg.list.st = "served" /\ fg' = ListAnswered(fg, TRUE) /\ UNCHANGED fgsrv
  <2>1. Goes(fg, ListAnswered(fg, TRUE), fgsrv.at)
    BY <1>1, <1>2, AnsweredIsFresh
  <2>2. QED
    BY <1>2, <2>1, PanelStep
<1>3. CASE fg' = ListAnswered(fg, FALSE) /\ UNCHANGED fgsrv
  <2>1. Goes(fg, ListAnswered(fg, FALSE), fgsrv.at)
    BY <1>1, AnsweredIsFresh
  <2>2. QED
    BY <1>3, <2>1, PanelStep
<1>4. QED
  BY <1>2, <1>3 DEF ListArrives

\* The repositories a read asks for, and their arrival.
LEMMA ReposStep ==
  ASSUME ForgesInv, NEW r \in fg.reads, ReposServed(r) \/ ReposArrive(r)
  PROVE  ForgesStep
<1>1. PanelFresh(fg, fgsrv.at) /\ fgsrv.at \in Nat /\ Has(r, ReadFields)
  BY DEF ForgesInv, ServerFormed, PanelFresh, ForgesFormed
<1>2. ASSUME NEW local, NEW full, fg' = [fg EXCEPT !.reads =
                (@ \ {r}) \cup {[r EXCEPT !.st = "served", !.local = local, !.full = full]}],
             UNCHANGED fgsrv, r.st = "repos"
      PROVE  ForgesStep
  <2> DEFINE q == [r EXCEPT !.st = "served", !.local = local, !.full = full]
  <2>1. Has(q, ReadFields) /\ q.gen = r.gen /\ q.data = r.data
    BY <1>1 DEF Has, ReadFields
  <2>2. fg' = [fg EXCEPT !.reads = (@ \ {r}) \cup {q}]
    BY <1>2
  <2> HIDE DEF q
  <2>3. Goes(fg, [fg EXCEPT !.reads = (@ \ {r}) \cup {q}], fgsrv.at)
    BY <1>1, <1>2, <2>1, ReadGoesOn
  <2>4. QED
    BY <1>2, <2>2, <2>3, PanelStep
<1>3. ASSUME NEW local, fg' = [fg EXCEPT !.reads =
                (@ \ {r}) \cup {[r EXCEPT !.st = "served", !.local = local]}],
             UNCHANGED fgsrv, r.st = "repos"
      PROVE  ForgesStep
  <2> DEFINE q == [r EXCEPT !.st = "served", !.local = local]
  <2>1. Has(q, ReadFields) /\ q.gen = r.gen /\ q.data = r.data
    BY <1>1 DEF Has, ReadFields
  <2>2. fg' = [fg EXCEPT !.reads = (@ \ {r}) \cup {q}]
    BY <1>3
  <2> HIDE DEF q
  <2>3. Goes(fg, [fg EXCEPT !.reads = (@ \ {r}) \cup {q}], fgsrv.at)
    BY <1>1, <1>3, <2>1, ReadGoesOn
  <2>4. QED
    BY <1>3, <2>2, <2>3, PanelStep
<1>4. CASE ReposServed(r)
  BY <1>2, <1>3, <1>4 DEF ReposServed
<1>5. CASE ReposArrive(r)
  <2>1. Goes(fg, ReposAnswered(fg, r), fgsrv.at)
    BY <1>1, <1>5, ReposIsFresh DEF ReposArrive
  <2>2. QED
    BY <1>5, <2>1, PanelStep DEF ReposArrive
<1>6. QED
  BY <1>4, <1>5

\* The probe's answer may change what the server says of the accounts.
LEMMA ProbeStep ==
  ASSUME ForgesInv, NEW r \in fg.reads, ProbeServed(r)
  PROVE  ForgesStep
<1> DEFINE q == [r EXCEPT !.st = "list"]
           g == [fg EXCEPT !.reads = (@ \ {r}) \cup {q}]
<1>1. PanelFresh(fg, fgsrv.at) /\ fgsrv.at \in Nat /\ Has(r, ReadFields) /\ ServerFormed(fgsrv)
  BY DEF ForgesInv, ServerFormed, PanelFresh, ForgesFormed
<1>2. Has(q, ReadFields) /\ q.gen = r.gen /\ q.data = r.data /\ q.st = "list"
  BY <1>1 DEF Has, ReadFields
<1>3. fg' = RefreshForges(g)
  BY DEF ProbeServed
<1>4. ServerFormed(fgsrv') /\ fgsrv.at <= fgsrv'.at
  <2>1. PICK conn, at : fgsrv' = [fgsrv EXCEPT !.conn = conn, !.at = at] /\ at \in {fgsrv.at, fgsrv.at + 1}
    <3> DEFINE seen == r.data.conn \cap fgsrv.have
               conn == (fgsrv.conn \ seen) \cup (seen \cap fgsrv.good)
               at == IF conn = fgsrv.conn THEN fgsrv.at ELSE fgsrv.at + 1
    <3>1. fgsrv' = [fgsrv EXCEPT !.conn = conn, !.at = at]
      BY DEF ProbeServed
    <3>2. at \in {fgsrv.at, fgsrv.at + 1}
      OBVIOUS
    <3> HIDE DEF conn, at
    <3>3. QED
      BY <3>1, <3>2
  <2>2. /\ Has(fgsrv', {"have", "conn", "good", "local", "at", "frames", "approved"})
        /\ fgsrv'.at = at
    BY <1>1, <2>1 DEF ServerFormed, Has
  <2>3. at \in Nat /\ fgsrv.at <= at
    BY <1>1, <2>1
  <2>4. QED
    BY <2>2, <2>3 DEF ServerFormed
<1> HIDE DEF q
<1>5. Goes(fg, fg, fgsrv'.at)
  BY <1>1, <1>4, FreshLater DEF ServerFormed
<1>6. Goes(fg, g, fgsrv'.at)
  BY <1>2, <1>5, ReadGoesOn DEF Goes
<1> HIDE DEF g
<1>7. Goes(g, RefreshForges(g), fgsrv'.at)
  BY <1>6, PanelRefreshIsFresh DEF Goes
<1>8. Goes(fg, RefreshForges(g), fgsrv'.at)
  BY <1>5, <1>6, <1>7, GoesOn DEF Goes
<1>9. QED
  BY <1>3, <1>4, <1>8 DEF ForgesStep

\* The panel is rendered after something else of it has changed.
LEMMA RenderStep ==
  ASSUME ForgesInv, NEW g, Goes(fg, g, fgsrv.at),
         fg' = RenderForgesPanel(g, TRUE) \/ fg' = RenderForgesPanel(g, FALSE),
         ServerFormed(fgsrv'), fgsrv'.at >= fgsrv.at
  PROVE  ForgesStep
<1>1. PanelFresh(fg, fgsrv.at) /\ fgsrv.at \in Nat /\ fgsrv'.at \in Nat
  BY DEF ForgesInv, ServerFormed
<1>2. Goes(g, RenderForgesPanel(g, TRUE), fgsrv.at) /\ Goes(g, RenderForgesPanel(g, FALSE), fgsrv.at)
  BY <1>1, EitherRenderIsFresh DEF Goes
<1>3. Goes(g, fg', fgsrv.at)
  BY <1>2
<1>4. Goes(fg, fg', fgsrv.at)
  BY <1>1, <1>3, GoesOn
<1>5. Goes(fg', fg', fgsrv'.at)
  BY <1>1, <1>4, FreshLater DEF Goes
<1>6. QED
  BY <1>4, <1>5 DEF ForgesStep, Goes

\* The same while the server rests, and where nothing of the invariant changed before it.
LEMMA RendersOnly ==
  ASSUME ForgesInv, NEW g, Goes(fg, g, fgsrv.at) \/ Same(fg, g), UNCHANGED fgsrv,
         fg' = RenderForgesPanel(g, TRUE) \/ fg' = RenderForgesPanel(g, FALSE)
  PROVE  ForgesStep
<1>1. Goes(fg, g, fgsrv.at)
  BY SameIsFresh DEF ForgesInv
<1>2. ServerFormed(fgsrv') /\ fgsrv'.at >= fgsrv.at
  BY DEF ForgesInv, ServerFormed
<1>3. QED
  BY <1>1, <1>2, RenderStep

\* A step that changes something else of the panel alone.
LEMMA SameStep ==
  ASSUME ForgesInv, Same(fg, fg'), UNCHANGED fgsrv
  PROVE  ForgesStep
BY SameIsFresh, PanelStep DEF ForgesInv

\* The tabs, the poll, the frame and the banner.
LEMMA ViewStep ==
  ASSUME ForgesInv,
         \/ \E tab \in {"changes", "sources"} : SetGitTab(tab)
         \/ Retry \/ Polls \/ FrameArrives \/ Dismiss \/ FireCTA
         \/ \E k \in Range(Keys) : SetBanner(k) \/ ClearBanner(k)
  PROVE  ForgesStep
<1>1. PanelFresh(fg, fgsrv.at) /\ fgsrv.at \in Nat /\ Has(fg, ForgeFields) /\ ServerFormed(fgsrv)
  BY DEF ForgesInv, ServerFormed, PanelFresh, ForgesFormed
<1>2. Same(fg, fg)
  BY <1>1 DEF Same
<1>3. ASSUME NEW tab, SetGitTab(tab) PROVE ForgesStep
  <2> DEFINE g == [fg EXCEPT !.tab = tab]
  <2>1. Same(fg, g)
    BY <1>1 DEF Same, Has, ForgeFields
  <2>2. UNCHANGED fgsrv /\ (fg' = RenderForgesPanel(g, TRUE) \/ fg' = g)
    BY <1>3 DEF SetGitTab
  <2> HIDE DEF g
  <2>3. CASE fg' = RenderForgesPanel(g, TRUE)
    BY <2>1, <2>2, <2>3, RendersOnly
  <2>4. CASE fg' = g
    BY <2>1, <2>2, <2>4, SameStep
  <2>5. QED
    BY <2>2, <2>3, <2>4
<1>4. ASSUME Retry PROVE ForgesStep
  <2>1. fg' = RenderForgesPanel(fg, TRUE) /\ UNCHANGED fgsrv
    BY <1>4 DEF Retry
  <2>2. QED
    BY <1>2, <2>1, RendersOnly
<1>5. ASSUME Polls PROVE ForgesStep
  BY <1>1, <1>5, PanelRefreshIsFresh, PanelStep DEF Polls
<1>6. ASSUME FrameArrives PROVE ForgesStep
  <2>1. fgsrv' = [fgsrv EXCEPT !.frames = fgsrv.frames - 1]
    BY <1>6 DEF FrameArrives
  <2>2. ServerFormed(fgsrv') /\ fgsrv'.at >= fgsrv.at
    BY <1>1, <2>1 DEF ServerFormed, Has
  <2>3. fg' = RenderForgesPanel(RefreshForges(fg), TRUE)
    BY <1>6 DEF FrameArrives
  <2>4. Goes(fg, RefreshForges(fg), fgsrv.at)
    BY <1>1, PanelRefreshIsFresh
  <2>5. QED
    BY <2>2, <2>3, <2>4, RenderStep
<1>7. ASSUME Dismiss PROVE ForgesStep
  <2>1. Same(fg, fg') /\ UNCHANGED fgsrv
    BY <1>1, <1>7 DEF Same, Has, ForgeFields, Dismiss
  <2>2. QED
    BY <2>1, SameStep
<1>8. ASSUME NEW k, SetBanner(k) \/ ClearBanner(k) PROVE ForgesStep
  <2>1. ASSUME NEW active, NEW dismissed,
               fg' = [fg EXCEPT !.active = active, !.dismissed = dismissed]
        PROVE  Same(fg, fg')
    BY <1>1, <2>1 DEF Same, Has, ForgeFields
  <2>2. CASE SetBanner(k)
    <3> DEFINE dismissed == IF fg.dismissed # RawTop(fg.active \cup {k}) THEN None ELSE fg.dismissed
    <3>1. fg' = [fg EXCEPT !.active = fg.active \cup {k}, !.dismissed = dismissed] /\ UNCHANGED fgsrv
      BY <2>2 DEF SetBanner
    <3> HIDE DEF dismissed
    <3>2. Same(fg, fg')
      BY <2>1, <3>1
    <3>3. QED
      BY <3>1, <3>2, SameStep
  <2>3. CASE ClearBanner(k)
    <3> DEFINE dismissed == IF fg.dismissed = k THEN None ELSE fg.dismissed
    <3>1. fg' = [fg EXCEPT !.active = fg.active \ {k}, !.dismissed = dismissed] /\ UNCHANGED fgsrv
      BY <2>3 DEF ClearBanner
    <3> HIDE DEF dismissed
    <3>2. Same(fg, fg')
      BY <2>1, <3>1
    <3>3. QED
      BY <3>1, <3>2, SameStep
  <2>4. QED
    BY <1>8, <2>2, <2>3
<1>9. ASSUME FireCTA PROVE ForgesStep
  <2> DEFINE g == [fg EXCEPT !.tab = "sources"]
  <2>1. Same(fg, g)
    BY <1>1 DEF Same, Has, ForgeFields
  <2>2. fg' = RenderForgesPanel(g, TRUE) /\ UNCHANGED fgsrv
    BY <1>9 DEF FireCTA
  <2> HIDE DEF g
  <2>3. QED
    BY <2>1, <2>2, RendersOnly
<1>10. QED
  BY <1>3, <1>4, <1>5, <1>6, <1>7, <1>8, <1>9

----------------------------------------------------------------------------
\* Steps that put nothing of the invariant elsewhere compose with steps that do.
LEMMA PanelSameAgain ==
  ASSUME NEW f, NEW g, NEW h, Same(f, g), Same(g, h)
  PROVE  Same(f, h)
BY DEF Same

\* The other way round.
LEMMA GoesThenSame ==
  ASSUME NEW f, NEW g, NEW h, NEW at, Goes(f, g, at), Same(g, h)
  PROVE  Goes(f, h, at)
BY SameIsFresh DEF Goes, Same

\* A step of the panel, painted.
LEMMA PaintThenOn ==
  ASSUME NEW f, NEW g, NEW at, PanelFresh(f, at), Goes(f, g, at)
  PROVE  Goes(f, PaintIntoRoot(g), at)
BY PaintIsFresh, GoesOn DEF Goes

\* A repository is added to the local ones on show, or taken from them.
LEMMA ClonedIsFresh ==
  ASSUME NEW f, NEW at, PanelFresh(f, at), NEW repo
  PROVE  Goes(f, AddCloned(f, repo), at) /\ Goes(f, RemoveCloned(f, repo), at)
<1>1. AddCloned(f, repo) = PaintIntoRoot([f EXCEPT !.shown.local = f.shown.local \cup {repo}])
  BY DEF AddCloned
<1>2. RemoveCloned(f, repo) = PaintIntoRoot([f EXCEPT !.shown.local = f.shown.local \ {repo}])
  BY DEF RemoveCloned
<1>3. QED
  BY <1>1, <1>2, LocalIsFresh

\* What the answer about a repository does to the panel.
LEMMA JobDoneIsFresh ==
  ASSUME NEW f, NEW at, PanelFresh(f, at), NEW i, NEW ok
  PROVE  Goes(f, CloneOrDelete(f, i, ok), at)
<1> DEFINE j == f.jobs[i]
           repo == Head(j.left)
           g == IF ok THEN (IF j.what = "clone" THEN AddCloned(f, repo)
                            ELSE IF j.one THEN f ELSE RemoveCloned(f, repo))
                ELSE IF j.one /\ j.what = "remove" THEN AddCloned(f, repo) ELSE f
           next == [g EXCEPT !.jobs[i].left = Tail(@), !.jobs[i].st = "next"]
           last == [g EXCEPT !.jobs = RemoveAt(@, i)]
<1>1. Goes(f, f, at)
  BY DEF Goes, PanelFresh, ForgesFormed
<1>2. g \in {f, AddCloned(f, repo), RemoveCloned(f, repo)}
  OBVIOUS
<1>3. CloneOrDelete(f, i, ok) \in {next, PaintIntoRoot(last)}
  BY DEF CloneOrDelete
<1> HIDE DEF g
<1>4. Goes(f, g, at)
  BY <1>1, <1>2, ClonedIsFresh
<1>5. Same(g, next) /\ Same(g, last)
  <2>1. Has(g, ForgeFields)
    BY <1>4 DEF Goes, PanelFresh, ForgesFormed
  <2>2. Same(g, next)
    BY <2>1 DEF Same, Has, ForgeFields
  <2>3. Same(g, last)
    BY <2>1 DEF Same, Has, ForgeFields
  <2>4. QED
    BY <2>2, <2>3
<1> HIDE DEF next, last
<1>6. Goes(f, next, at) /\ Goes(f, last, at)
  BY <1>4, <1>5, GoesThenSame
<1>7. QED
  BY <1>3, <1>6, PaintThenOn

\* Clones and removals, one at a time or all of an account.
LEMMA RepositoryStep ==
  ASSUME ForgesInv, \/ CloneRepo \/ RemoveLocalRepo \/ CloneAllForAccount \/ DeleteAllForAccount
                    \/ \E i \in DOMAIN fg.jobs : JobServed(i) \/ JobAnswered(i)
  PROVE  ForgesStep
<1>1. PanelFresh(fg, fgsrv.at) /\ fgsrv.at \in Nat /\ Has(fg, ForgeFields) /\ ServerFormed(fgsrv)
  BY DEF ForgesInv, ServerFormed, PanelFresh, ForgesFormed
<1>2. ASSUME NEW jobs, fg' = [fg EXCEPT !.jobs = jobs], UNCHANGED fgsrv PROVE ForgesStep
  <2>1. Same(fg, fg')
    BY <1>1, <1>2 DEF Same, Has, ForgeFields
  <2>2. QED
    BY <1>2, <2>1, SameStep
<1>3. ASSUME CloneRepo \/ CloneAllForAccount \/ DeleteAllForAccount PROVE ForgesStep
  <2>1. PICK jobs : fg' = [fg EXCEPT !.jobs = jobs] /\ UNCHANGED fgsrv
    BY <1>3 DEF CloneRepo, CloneAllForAccount, DeleteAllForAccount
  <2>2. QED
    BY <1>2, <2>1
<1>4. ASSUME RemoveLocalRepo PROVE ForgesStep
  <2>1. PICK repo, jobs : fg' = [RemoveCloned(fg, repo) EXCEPT !.jobs = jobs] /\ UNCHANGED fgsrv
    BY <1>4 DEF RemoveLocalRepo
  <2>2. Goes(fg, RemoveCloned(fg, repo), fgsrv.at)
    BY <1>1, ClonedIsFresh
  <2>3. Same(RemoveCloned(fg, repo), fg')
    BY <2>1, <2>2 DEF Same, Has, ForgeFields, Goes, PanelFresh, ForgesFormed
  <2>4. Goes(fg, fg', fgsrv.at)
    BY <2>2, <2>3, GoesThenSame
  <2>5. QED
    BY <2>1, <2>4, PanelStep
<1>5. ASSUME NEW i, JobServed(i) PROVE ForgesStep
  <2>1. PICK st : fg' = [fg EXCEPT !.jobs[i].st = st]
    BY <1>5 DEF JobServed
  <2>2. PICK local : fgsrv' = [fgsrv EXCEPT !.local = local]
    BY <1>5 DEF JobServed
  <2>3. Same(fg, fg')
    BY <1>1, <2>1 DEF Same, Has, ForgeFields
  <2>4. ServerFormed(fgsrv') /\ fgsrv.at <= fgsrv'.at
    BY <1>1, <2>2 DEF ServerFormed, Has
  <2>5. QED
    BY <2>3, <2>4, ServerStep
<1>6. ASSUME NEW i, JobAnswered(i) PROVE ForgesStep
  <2>1. PICK ok : fg' = CloneOrDelete(fg, i, ok) /\ UNCHANGED fgsrv
    BY <1>6 DEF JobAnswered
  <2>2. Goes(fg, fg', fgsrv.at)
    BY <1>1, <2>1, JobDoneIsFresh
  <2>3. QED
    BY <2>1, <2>2, PanelStep
<1>7. QED
  BY <1>3, <1>4, <1>5, <1>6

\* A sign-out, its answer, and what it does to the row.
LEMMA SignOutStep ==
  ASSUME ForgesInv, \/ \E a \in Accounts : OnSignOut(a)
                    \/ \E o \in fg.outs : SignOutServed(o) \/ SignOutAnswered(o)
  PROVE  ForgesStep
<1>1. PanelFresh(fg, fgsrv.at) /\ fgsrv.at \in Nat /\ Has(fg, ForgeFields) /\ ServerFormed(fgsrv)
  BY DEF ForgesInv, ServerFormed, PanelFresh, ForgesFormed
<1>2. ASSUME NEW a, OnSignOut(a) PROVE ForgesStep
  <2>1. PICK outs : fg' = [fg EXCEPT !.rows[a].hidden = TRUE, !.outs = outs] /\ UNCHANGED fgsrv
    BY <1>2 DEF OnSignOut
  <2>2. Same(fg, fg')
    BY <1>1, <2>1 DEF Same, Has, ForgeFields
  <2>3. QED
    BY <2>1, <2>2, SameStep
<1>3. ASSUME NEW o, SignOutServed(o) PROVE ForgesStep
  <2>1. PICK outs : fg' = [fg EXCEPT !.outs = outs]
    BY <1>3 DEF SignOutServed
  <2>2. PICK have, conn, frames :
          fgsrv' = [fgsrv EXCEPT !.have = have, !.conn = conn, !.at = fgsrv.at + 1, !.frames = frames]
    BY <1>3 DEF SignOutServed
  <2>3. Same(fg, fg')
    BY <1>1, <2>1 DEF Same, Has, ForgeFields
  <2>4. /\ Has(fgsrv', {"have", "conn", "good", "local", "at", "frames", "approved"})
        /\ fgsrv'.at = fgsrv.at + 1
    BY <1>1, <2>2 DEF ServerFormed, Has
  <2>5. ServerFormed(fgsrv') /\ fgsrv.at <= fgsrv'.at
    BY <1>1, <2>4 DEF ServerFormed
  <2>6. QED
    BY <2>3, <2>5, ServerStep
<1>4. ASSUME NEW o, SignOutAnswered(o) PROVE ForgesStep
  <2> DEFINE g == [fg EXCEPT !.outs = @ \ {o}]
             h == [g EXCEPT !.rows[o.id].hidden = FALSE]
  <2>1. UNCHANGED fgsrv /\ (\/ fg' = RenderForgesPanel(g, TRUE) \/ fg' = RenderForgesPanel(g, FALSE)
                            \/ fg' = h)
    BY <1>4 DEF SignOutAnswered
  <2>2. Same(fg, g)
    BY <1>1 DEF Same, Has, ForgeFields
  <2> HIDE DEF g
  <2>3. Same(g, h)
    BY <2>2 DEF Same, Has, ForgeFields
  <2> HIDE DEF h
  <2>4. CASE fg' = h
    BY <2>1, <2>2, <2>3, <2>4, PanelSameAgain, SameStep
  <2>5. CASE fg' = RenderForgesPanel(g, TRUE) \/ fg' = RenderForgesPanel(g, FALSE)
    BY <2>1, <2>2, <2>5, RendersOnly
  <2>6. QED
    BY <2>1, <2>4, <2>5
<1>5. QED
  BY <1>2, <1>3, <1>4

\* An account that is connected at the server.
LEMMA ConnectedIsFormed ==
  ASSUME NEW s, ServerFormed(s), NEW a
  PROVE  ServerFormed(Connected(s, a)) /\ Connected(s, a).at = s.at + 1
<1>1. /\ Has(Connected(s, a), {"have", "conn", "good", "local", "at", "frames", "approved"})
      /\ Connected(s, a).at = s.at + 1
  BY DEF Connected, ServerFormed, Has
<1>2. QED
  BY <1>1 DEF ServerFormed

\* What a flow writes in its pane.
LEMMA SaysIsSame ==
  ASSUME NEW f, NEW w, NEW text, Has(f, ForgeFields)
  PROVE  Same(f, Says(f, w, text))
BY DEF Says, Same, Has, ForgeFields

\* The add pane, its gate and its form.
LEMMA PaneStep ==
  ASSUME ForgesInv,
         \/ \E a \in Accounts : OnAddAccount(a) \/ DoPATConnect(a) \/ GateAddPaneOnCLI(a)
         \/ \E p \in fg.pats : PATServed(p) \/ PATAnswered(p)
  PROVE  ForgesStep
<1>1. PanelFresh(fg, fgsrv.at) /\ fgsrv.at \in Nat /\ Has(fg, ForgeFields) /\ ServerFormed(fgsrv)
  BY DEF ForgesInv, ServerFormed, PanelFresh, ForgesFormed
<1>2. ASSUME NEW a, OnAddAccount(a) PROVE ForgesStep
  <2>1. Same(fg, CloseSlot(fg, a))
    BY <1>1 DEF CloseSlot, Same, Has, ForgeFields
  <2>2. Same(fg, ShowAddPane(fg, a))
    <3> DEFINE n == fg.made + 1
               pane == [on |-> TRUE, pane |-> n, says |-> None, bound |-> TRUE, gate |-> "asked"]
               g == [fg EXCEPT !.panes[a] = pane, !.made = n]
    <3>1. ShowAddPane(fg, a) \in {g, StartGitHubDeviceFlow(g, n)}
      BY DEF ShowAddPane
    <3> HIDE DEF n, pane
    <3>2. Same(fg, g)
      BY <1>1 DEF Same, Has, ForgeFields
    <3> HIDE DEF g
    <3>3. Same(g, StartGitHubDeviceFlow(g, n))
      BY <3>2 DEF StartGitHubDeviceFlow, Same, Has, ForgeFields
    <3>4. QED
      BY <3>1, <3>2, <3>3, PanelSameAgain
  <2>3. fg' \in {CloseSlot(fg, a), ShowAddPane(fg, a)} /\ UNCHANGED fgsrv
    BY <1>2 DEF OnAddAccount
  <2>4. QED
    BY <2>1, <2>2, <2>3, SameStep
<1>3. ASSUME NEW a, DoPATConnect(a) PROVE ForgesStep
  <2>1. PICK pats : fg' = [fg EXCEPT !.panes[a].says = "validating", !.pats = pats] /\ UNCHANGED fgsrv
    BY <1>3 DEF DoPATConnect
  <2>2. Same(fg, fg')
    BY <1>1, <2>1 DEF Same, Has, ForgeFields
  <2>3. QED
    BY <2>1, <2>2, SameStep
<1>4. ASSUME NEW a, GateAddPaneOnCLI(a) PROVE ForgesStep
  <2>1. PICK gate : fg' = [fg EXCEPT !.panes[a].gate = gate] /\ UNCHANGED fgsrv
    BY <1>4 DEF GateAddPaneOnCLI
  <2>2. Same(fg, fg')
    BY <1>1, <2>1 DEF Same, Has, ForgeFields
  <2>3. QED
    BY <2>1, <2>2, SameStep
<1>5. ASSUME NEW p, PATServed(p) PROVE ForgesStep
  <2>1. PICK pats : fg' = [fg EXCEPT !.pats = pats] /\ fgsrv' = Connected(fgsrv, p.id)
    BY <1>5 DEF PATServed
  <2>2. Same(fg, fg')
    BY <1>1, <2>1 DEF Same, Has, ForgeFields
  <2>3. ServerFormed(fgsrv') /\ fgsrv.at <= fgsrv'.at
    BY <1>1, <2>1, ConnectedIsFormed
  <2>4. QED
    BY <2>2, <2>3, ServerStep
<1>6. ASSUME NEW p, PATAnswered(p) PROVE ForgesStep
  <2> DEFINE f == [fg EXCEPT !.pats = @ \ {p}]
             g == [CloseSlot(f, p.id) EXCEPT !.expand = @ \cup {p.id}]
             h == [f EXCEPT !.panes[p.id].says = "failed"]
  <2>1. UNCHANGED fgsrv /\ (fg' = RenderForgesPanel(g, TRUE) \/ fg' = h \/ fg' = f)
    BY <1>6 DEF PATAnswered
  <2>2. Same(fg, f)
    BY <1>1 DEF Same, Has, ForgeFields
  <2> HIDE DEF f
  <2>3. Same(f, h)
    BY <2>2 DEF Same, Has, ForgeFields
  <2>4. Same(f, g)
    <3>1. Same(f, CloseSlot(f, p.id))
      BY <2>2 DEF CloseSlot, Same, Has, ForgeFields
    <3>2. Same(CloseSlot(f, p.id), g)
      BY <3>1 DEF Same, Has, ForgeFields
    <3>3. QED
      BY <3>1, <3>2, PanelSameAgain
  <2> HIDE DEF g, h
  <2>5. Same(fg, g) /\ Same(fg, h)
    BY <2>2, <2>3, <2>4, PanelSameAgain
  <2>6. QED
    BY <2>1, <2>2, <2>5, RendersOnly, SameStep
<1>7. QED
  BY <1>2, <1>3, <1>4, <1>5, <1>6

\* The device flow: its start, the reader's approval, its polls.
LEMMA FlowStep ==
  ASSUME ForgesInv, FlowStarted \/ Approve \/ \E w \in fg.flows : PollGitHubDevice(w)
  PROVE  ForgesStep
<1>1. PanelFresh(fg, fgsrv.at) /\ fgsrv.at \in Nat /\ Has(fg, ForgeFields) /\ ServerFormed(fgsrv)
  BY DEF ForgesInv, ServerFormed, PanelFresh, ForgesFormed
<1>2. ASSUME NEW flows PROVE Same(fg, [fg EXCEPT !.flows = flows])
  BY <1>1 DEF Same, Has, ForgeFields
<1>3. ASSUME FlowStarted PROVE ForgesStep
  <2>1. PICK flows, w, text : /\ UNCHANGED fgsrv
                              /\ \/ fg' = [fg EXCEPT !.flows = flows]
                                 \/ fg' = Says([fg EXCEPT !.flows = flows], w, text)
    BY <1>3 DEF FlowStarted
  <2> DEFINE g == [fg EXCEPT !.flows = flows]
  <2>2. Same(fg, g)
    BY <1>2
  <2> HIDE DEF g
  <2>3. Same(g, Says(g, w, text))
    BY <2>2, SaysIsSame DEF Same
  <2>4. Same(fg, fg')
    BY <2>1, <2>2, <2>3, PanelSameAgain DEF g
  <2>5. QED
    BY <2>1, <2>4, SameStep
<1>4. ASSUME Approve PROVE ForgesStep
  <2>1. fgsrv' = [fgsrv EXCEPT !.approved = TRUE] /\ fg' = fg
    BY <1>4 DEF Approve
  <2>2. ServerFormed(fgsrv') /\ fgsrv.at <= fgsrv'.at
    <3>1. /\ Has(fgsrv', {"have", "conn", "good", "local", "at", "frames", "approved"})
          /\ fgsrv'.at = fgsrv.at
      BY <1>1, <2>1 DEF ServerFormed, Has
    <3>2. QED
      BY <1>1, <3>1 DEF ServerFormed
  <2>3. Same(fg, fg')
    BY <1>1, <2>1 DEF Same
  <2>4. QED
    BY <2>2, <2>3, ServerStep
<1>5. ASSUME NEW w, PollGitHubDevice(w) PROVE ForgesStep
  <2> DEFINE f == [fg EXCEPT !.flows = @ \ {w}]
             g == [Says(f, w, "connected") EXCEPT !.expand = @ \cup {GitHub}]
  <2>1. Same(fg, f)
    BY <1>2
  <2> HIDE DEF f
  <2>2. \A text : Same(f, Says(f, w, text))
    BY <2>1, SaysIsSame DEF Same
  <2>3. \A text : Same(fg, Says(f, w, text))
    BY <2>1, <2>2, PanelSameAgain
  <2>4. \A text : Same(fg, Says(fg, w, text))
    BY <1>1, SaysIsSame
  <2>5. Same(Says(f, w, "connected"), g)
    BY <2>3 DEF Same, Has, ForgeFields
  <2> HIDE DEF g
  <2>6. Same(fg, g)
    BY <2>3, <2>5, PanelSameAgain
  <2>7. CASE fg' = RenderForgesPanel(g, TRUE) /\ fgsrv' = [Connected(fgsrv, GitHub) EXCEPT !.approved = FALSE]
    <3> DEFINE s == Connected(fgsrv, GitHub)
    <3>1. ServerFormed(s) /\ s.at = fgsrv.at + 1
      BY <1>1, ConnectedIsFormed
    <3> HIDE DEF s
    <3>2. ServerFormed([s EXCEPT !.approved = FALSE]) /\ [s EXCEPT !.approved = FALSE].at = s.at
      BY <3>1 DEF ServerFormed, Has
    <3>3. ServerFormed(fgsrv') /\ fgsrv'.at >= fgsrv.at
      BY <1>1, <2>7, <3>1, <3>2 DEF s
    <3>4. Goes(fg, g, fgsrv.at)
      BY <1>1, <2>6, SameIsFresh
    <3>5. QED
      BY <2>7, <3>3, <3>4, RenderStep
  <2>8. CASE UNCHANGED fgsrv /\ (fg' = f \/ \E text : fg' = Says(f, w, text) \/ fg' = Says(fg, w, text))
    BY <2>1, <2>3, <2>4, <2>8, SameStep
  <2>9. QED
    BY <1>5, <2>7, <2>8 DEF PollGitHubDevice, f, g
<1>6. QED
  BY <1>3, <1>4, <1>5

\* What happens elsewhere.
LEMMA WorldStep ==
  ASSUME ForgesInv, WorldChanges
  PROVE  ForgesStep
<1>1. PanelFresh(fg, fgsrv.at) /\ fgsrv.at \in Nat /\ Has(fg, ForgeFields) /\ ServerFormed(fgsrv)
  BY DEF ForgesInv, ServerFormed, PanelFresh, ForgesFormed
<1>2. Same(fg, fg')
  BY <1>1 DEF WorldChanges, Same
<1>3. \/ \E a : fgsrv' = Connected(fgsrv, a)
      \/ \E good : fgsrv' = [fgsrv EXCEPT !.good = good]
      \/ \E local : fgsrv' = [fgsrv EXCEPT !.local = local]
  BY DEF WorldChanges
<1>4. ServerFormed(fgsrv') /\ fgsrv.at <= fgsrv'.at
  <2>1. ASSUME NEW a, fgsrv' = Connected(fgsrv, a) PROVE ServerFormed(fgsrv') /\ fgsrv.at <= fgsrv'.at
    BY <1>1, <2>1, ConnectedIsFormed
  <2>2. ASSUME NEW good, fgsrv' = [fgsrv EXCEPT !.good = good]
        PROVE  ServerFormed(fgsrv') /\ fgsrv.at <= fgsrv'.at
    BY <1>1, <2>2 DEF ServerFormed, Has
  <2>3. ASSUME NEW local, fgsrv' = [fgsrv EXCEPT !.local = local]
        PROVE  ServerFormed(fgsrv') /\ fgsrv.at <= fgsrv'.at
    BY <1>1, <2>3 DEF ServerFormed, Has
  <2>4. QED
    BY <1>3, <2>1, <2>2, <2>3
<1>5. QED
  BY <1>2, <1>4, ServerStep

----------------------------------------------------------------------------
\* The page begins with no list, and the server with its first.
LEMMA ForgesBegin ==
  ASSUME ForgesInit PROVE ForgesInv
<1>1. ServerFormed(fgsrv) /\ fgsrv.at = 1
  <2>1. PICK local : fgsrv = [have |-> Accounts, conn |-> Accounts, good |-> Accounts, local |-> local,
                              at |-> 1, frames |-> 0, approved |-> FALSE]
    BY DEF ForgesInit
  <2>2. QED
    BY <2>1 DEF ServerFormed, Has
<1>2. /\ Has(fg, ForgeFields) /\ fg.gen = 0 /\ fg.reads = {} /\ fg.list = NoRead
      /\ Has(fg.shown, {"err", "data", "local", "full"}) /\ fg.shown.data = NoList
  BY DEF ForgesInit, Has, ForgeFields
<1>3. NoRead.st = "none" /\ NoRead.ans.at = 0 /\ Has(NoRead, {"st", "ans"}) /\ NoList.at = 0
  BY DEF NoRead, NoList, Has
<1>4. QED
  BY <1>1, <1>2, <1>3 DEF ForgesInv, PanelFresh, ForgesFormed, ServedLast, OneIsHeard

\* Every step keeps the invariant and takes the panel forward, or leaves it as it is.
LEMMA ForgesKeep ==
  ASSUME ForgesInv, [ForgesNext]_fgvars
  PROVE  ForgesInv' /\ (fg' = fg \/ NeverOlder)
<1>1. CASE UNCHANGED fgvars
  BY <1>1 DEF ForgesInv, fgvars, ServerFormed, PanelFresh, ForgesFormed, ServedLast, OneIsHeard
<1>2. CASE ForgesNext
  <2>1. ForgesStep
    BY <1>2, ListServedStep, ListArrivesStep, ReposStep, ProbeStep, ViewStep, RepositoryStep,
       SignOutStep, PaneStep, FlowStep, WorldStep DEF ForgesNext
  <2>2. QED
    BY <2>1 DEF ForgesStep, ForgesInv, Goes, NeverOlder
<1>3. QED
  BY <1>1, <1>2

\* What the panel shows never goes back to an older list, whichever of its renders, probes
\* and shared reads is answered last (forge-auth.ts, renderGen).
THEOREM PanelGoesForward == ForgesSpec => NeverGoesBack
<1>1. ForgesInit => ForgesInv
  BY ForgesBegin
<1>2. ForgesInv /\ [ForgesNext]_fgvars => ForgesInv' /\ [NeverOlder]_fgvars
  <2> SUFFICES ASSUME ForgesInv, [ForgesNext]_fgvars PROVE ForgesInv' /\ [NeverOlder]_fgvars
    OBVIOUS
  <2>2. fg.shown.data.at \in Nat
    BY DEF ForgesInv, PanelFresh, ForgesFormed
  <2>3. ForgesInv' /\ (fg' = fg \/ NeverOlder)
    BY ForgesKeep
  <2>4. fg' = fg => NeverOlder
    BY <2>2 DEF NeverOlder
  <2>5. QED
    BY <2>3, <2>4
<1>3. QED
  BY <1>1, <1>2, PTL DEF ForgesSpec, NeverGoesBack

=============================================================================
