----------------------------- MODULE ClientSpec -----------------------------
(***************************************************************************)
(* The spec tab's page (spec-view.ts) with its prompt and approval         *)
(* (actions/spec.ts, chat-commands.ts, actions/chat.ts): what it read of   *)
(* the spec's tasks, the marks of the tasks it sent to its chat, and the   *)
(* run the reader's answer to a checkpoint owes.  The server parses the    *)
(* file anew for every read.  A closed page is not opened a second time.   *)
(***************************************************************************)
EXTENDS Integers, Sequences, FiniteSets

CONSTANTS
    Specs,          \* the specs' directories
    SpecChats,      \* the chats a page may run its tasks in
    SpecHome,       \* the one both tabs begin under
    Tasks,          \* the tasks of every spec
    SpecScenarios   \* budgets of what may happen

VARIABLES
    sp,      \* the client: pages, the page shown, parents, thinking chats, requests
    spsrv,   \* the server: the files, the chats' turns, the frames on their way
    spleft   \* what may still happen

spvars == <<sp, spsrv, spleft>>

SpNone == "none"
All  == "all"      \* the row of a Run all
SpSpend(what) == spleft[what] > 0 /\ spleft' = [spleft EXCEPT ![what] = @ - 1]

\* The file: which of its versions, each task's text and box, the version signed off.
NewFile == [here |-> TRUE, ver |-> 1, text |-> [t \in Tasks |-> 1],
            box |-> [t \in Tasks |-> "pending"], approved |-> 0]

Pending(doc) == {t \in Tasks : doc.box[t] = "pending"}

\* SpecPageState.  held is the reply the page's validator stands for.
NewPage == [on |-> TRUE, spec |-> <<>>, held |-> <<>>, gone |-> FALSE, missed |-> FALSE,
            fetch |-> <<>>, trailing |-> FALSE, waiters |-> <<>>,
            dispatched |-> {}, busy |-> {}, unmoved |-> {}, dispatching |-> FALSE,
            approving |-> FALSE, armed |-> FALSE, last |-> FALSE]
NoPage == [NewPage EXCEPT !.on = FALSE]

-----------------------------------------------------------------------------
(* Reads: one out, one remembered, and what waits for each.                *)

\* Mutation: a call made while a read is out joins that read.
RefetchJoins(c, s, then) ==
    LET p == c.pages[s]
    IN  IF ~p.on THEN c
        ELSE IF p.fetch = <<>> THEN [c EXCEPT !.pages[s].fetch = <<[got |-> <<>>, then |-> then]>>]
        ELSE [c EXCEPT !.pages[s].fetch[1].then = @ \o then]

Refetch(c, s, then) ==
    LET p == c.pages[s]
    IN  IF ~p.on THEN c
        ELSE IF p.fetch = <<>> THEN [c EXCEPT !.pages[s].fetch = <<[got |-> <<>>, then |-> then]>>]
        ELSE [c EXCEPT !.pages[s].trailing = TRUE, !.pages[s].waiters = @ \o then]

\* The reply is taken, and the marks of the tasks that moved are gone.
AdoptSpec(p, doc) ==
    [p EXCEPT !.gone = FALSE, !.spec = <<doc>>, !.held = <<doc>>,
              !.dispatched = @ \cap Pending(doc), !.unmoved = @ \cap Pending(doc)]

\* A reply that matches the validator leaves all as it is.
Landed(p, doc) ==
    IF ~doc.here THEN [p EXCEPT !.gone = TRUE, !.spec = <<>>, !.held = <<>>, !.missed = FALSE]
    ELSE IF p.held = <<doc>> THEN [p EXCEPT !.missed = FALSE]
    ELSE [AdoptSpec(p, doc) EXCEPT !.missed = FALSE]

\* The read is over: the remembered one starts before whoever waited goes on.
SpReadOver(c, s, p) ==
    LET idle == [c EXCEPT !.pages[s] = [p EXCEPT !.fetch = <<>>, !.trailing = FALSE, !.waiters = <<>>],
                          !.due = p.fetch[1].then]
    IN  IF p.trailing THEN Refetch(idle, s, p.waiters) ELSE idle

-----------------------------------------------------------------------------
(* Prompts and the target chat's turns.                                    *)

Thinking(c, s) == c.parent[s] \in c.thinking

\* The effect watches the shown page's chat; a rising edge is only remembered.
Rise(c) == IF c.shown # SpNone /\ Thinking(c, c.shown) THEN [c EXCEPT !.pages[c.shown].last = TRUE] ELSE c

\* sendPromptTo says the chat is thinking before the server has it.
SendPrompt(c, e) ==
    Rise([c EXCEPT !.sends[e.chat] = Append(@, e), !.thinking = @ \cup {e.chat}])

RunAllPrompt(c, s) == [page |-> s, row |-> All, chat |-> c.parent[s], res |-> SpNone]

RunAll(c, s, arm) ==
    IF c.pages[s].spec = <<>> \/ c.parent[s] = SpNone THEN c
    ELSE SendPrompt([c EXCEPT !.fired[s] = @ + arm], RunAllPrompt(c, s))

FireArmedRunAll(c, s) ==
    LET spent == [c EXCEPT !.pages[s].armed = FALSE]
    IN  IF c.pages[s].spec = <<>> THEN Refetch(spent, s, <<[kind |-> "all", page |-> s]>>)
        ELSE RunAll(spent, s, 1)

\* The falling edge: the pulses stop, and the next read says which boxes moved.
TurnSeenOver(c, s) ==
    LET p == c.pages[s]
    IN  IF ~p.dispatching /\ p.dispatched = {} /\ p.busy = {} THEN c
        ELSE Refetch([c EXCEPT !.pages[s] = [p EXCEPT !.dispatching = FALSE, !.dispatched = {},
                                                      !.busy = {}]],
                     s, <<[kind |-> "note", page |-> s, rows |-> p.dispatched,
                           at |-> spsrv.files[s].ver]>>)

OnThinking(c, s, now) ==
    LET turned == [c EXCEPT !.pages[s].last = now]
        over   == TurnSeenOver(turned, s)
    IN  IF c.pages[s].last = now THEN c
        ELSE IF now THEN turned
        ELSE IF c.pages[s].armed THEN FireArmedRunAll(over, s) ELSE over

\* release: a page goes with its tab.
Released(c) ==
    [c EXCEPT !.pages = [s \in Specs |-> IF s \in c.open THEN @[s] ELSE NoPage],
              !.shown = IF @ \in c.open THEN @ ELSE SpNone]

\* The one effect: pages of closed tabs go, the shown one hears of its chat.
Effect(c) ==
    LET kept == Released(c)
    IN  IF kept.shown = SpNone THEN kept ELSE OnThinking(kept, kept.shown, Thinking(kept, kept.shown))

\* noteUnmoved.
NoteUnmoved(c, k) ==
    IF c.pages[k.page].spec = <<>> THEN c
    ELSE [c EXCEPT !.pages[k.page].unmoved = @ \cup (k.rows \cap Pending(c.pages[k.page].spec[1]))]

Eligible(c, k, doc) ==
    /\ doc.text[k.row] = k.text
    /\ doc.box[k.row] # "completed"
    /\ ~(doc.box[k.row] = "in_progress" /\ k.chat \in c.thinking)

\* The row as the page has it now, beside the one that was picked and when.
TaskPrompt(p, k) ==
    [page |-> k.page, row |-> k.row, chat |-> k.chat, res |-> SpNone,
     text |-> p.spec[1].text[k.row], picked |-> k.text, at |-> k.at,
     read |-> p.spec[1].ver, missed |-> p.missed]

\* runTask after its read.
RunTask(c, k) ==
    LET p == c.pages[k.page]
    IN  IF ~p.on \/ p.spec = <<>> THEN c
        ELSE IF Eligible(c, k, p.spec[1]) THEN SendPrompt(c, TaskPrompt(p, k)) ELSE c

\* applyResult.
ApplyResult(c, e) ==
    IF ~c.pages[e.page].on THEN c
    ELSE CASE e.res = "sent" ->
                 [c EXCEPT !.pages[e.page].unmoved = @ \ {e.row},
                           !.pages[e.page].dispatched = @ \cup {e.row},
                           !.pages[e.page].dispatching = TRUE]
           [] e.res \in {"queued", "starting"} -> [c EXCEPT !.pages[e.page].busy = @ \cup {e.row}]
           [] e.res = "gone" -> [c EXCEPT !.pages[e.page].gone = TRUE, !.pages[e.page].spec = <<>>]
           [] e.res = "failed" -> c

-----------------------------------------------------------------------------
(* The reader.                                                             *)

\* What was awaited goes on before anything else happens.
SpFree == sp.due = <<>>

\* showSpec: the page, the effect that now watches its chat, a read.
SpShow(s) ==
    /\ SpFree /\ s \notin sp.closed
    /\ SpSpend("shows")
    /\ sp' = LET known == IF sp.pages[s].on THEN sp
                          ELSE [sp EXCEPT !.pages[s] = NewPage, !.open = @ \cup {s}]
             IN  Refetch(Effect([known EXCEPT !.shown = s, !.away = FALSE]), s, <<>>)
    /\ UNCHANGED spsrv

\* Another view is on screen; the page stays the one its effect watches.
SpLeave ==
    /\ SpFree /\ sp.shown # SpNone /\ ~sp.away
    /\ SpSpend("leaves")
    /\ sp' = [sp EXCEPT !.away = TRUE]
    /\ UNCHANGED spsrv

SpClose(s) ==
    /\ SpFree /\ s \in sp.open
    /\ SpSpend("closes")
    /\ sp' = Effect([sp EXCEPT !.open = @ \ {s}, !.closed = @ \cup {s}])
    /\ UNCHANGED spsrv

\* runInPicker, or a drag in the strip.
SpSetParent(s, ch) ==
    /\ SpFree /\ s \in sp.open /\ sp.parent[s] # ch
    /\ SpSpend("parents")
    /\ sp' = Effect([sp EXCEPT !.parent[s] = ch])
    /\ UNCHANGED spsrv

\* What the reader sees of a page: its documents, or that nothing is there.
SpDrawn(s) == sp.shown = s /\ ~sp.away /\ sp.pages[s].spec # <<>> /\ ~sp.pages[s].gone

\* A run is withheld without a chat, and while the chat is at work.
Runnable(s) == sp.parent[s] # SpNone /\ ~Thinking(sp, s)

\* A task's row offers to run what is not done and not waiting for its chat.
RowOffered(s, t) ==
    sp.pages[s].spec[1].box[t] # "completed" /\ t \notin sp.pages[s].busy

SpRunTask(s, t) ==
    /\ SpFree /\ SpDrawn(s) /\ Runnable(s) /\ RowOffered(s, t)
    /\ SpSpend("runs")
    /\ sp' = Refetch(sp, s, <<[kind |-> "task", page |-> s, row |-> t, chat |-> sp.parent[s],
                               text |-> sp.pages[s].spec[1].text[t], at |-> spsrv.files[s].ver]>>)
    /\ UNCHANGED spsrv

SpRunAll(s) ==
    /\ SpFree /\ SpDrawn(s) /\ Runnable(s) /\ All \notin sp.pages[s].busy
    /\ SpSpend("runs")
    /\ sp' = RunAll(sp, s, 0)
    /\ UNCHANGED spsrv

\* The spec under the chat the checkpoint was asked in; the shown one of several.
CheckpointTarget(ch) ==
    LET under == {s \in Specs : sp.pages[s].on /\ sp.parent[s] = ch}
    IN  IF Cardinality(under) = 1 THEN under ELSE under \cap {sp.shown}

\* An answer to KAS's checkpoint that the client has to carry out.
SpAnswered(ch) ==
    /\ SpFree /\ ch \in spsrv.turns
    /\ SpSpend("answers")
    /\ \E s \in CheckpointTarget(ch) :
          LET armed == [sp EXCEPT !.pages[s].armed = TRUE, !.owed[s] = @ + 1]
          IN  sp' = IF Thinking(sp, s) THEN armed ELSE FireArmedRunAll(armed, s)
    /\ UNCHANGED spsrv

\* The poll's timer, which reads only for a page the reader can see.
SpPoll(s) ==
    /\ SpFree /\ sp.shown = s /\ ~sp.away
    /\ SpSpend("polls")
    /\ sp' = Refetch(sp, s, <<>>)
    /\ UNCHANGED spsrv

\* Signed off for another version, or never.
Unsigned(doc) == doc.approved # doc.ver

ApproveOffered(s) == SpDrawn(s) /\ Unsigned(sp.pages[s].spec[1]) /\ ~sp.pages[s].approving

\* approvePhase, with the version the button was drawn for.
SpApprove(s) ==
    /\ SpFree /\ ApproveOffered(s)
    /\ SpSpend("approvals")
    /\ sp' = [sp EXCEPT !.pages[s].approving = TRUE,
                        !.asks[s] = Append(@, [ver |-> sp.pages[s].spec[1].ver, res |-> SpNone])]
    /\ UNCHANGED spsrv

-----------------------------------------------------------------------------
(* Answers.                                                                *)

SpResume ==
    /\ sp.due # <<>>
    /\ LET k == Head(sp.due)
           c == [sp EXCEPT !.due = Tail(@)]
       IN  sp' = CASE k.kind = "note" -> NoteUnmoved(c, k)
                   [] k.kind = "task" -> RunTask(c, k)
                   [] k.kind = "all"  -> RunAll(c, k.page, 1)
    /\ UNCHANGED <<spsrv, spleft>>

SpReadServed(s) ==
    /\ SpFree /\ sp.pages[s].fetch # <<>> /\ sp.pages[s].fetch[1].got = <<>>
    /\ sp' = [sp EXCEPT !.pages[s].fetch[1].got = <<spsrv.files[s]>>]
    /\ UNCHANGED <<spsrv, spleft>>

SpReadLands(s) ==
    LET p == sp.pages[s]
    IN  /\ SpFree /\ p.fetch # <<>> /\ p.fetch[1].got # <<>>
        /\ sp' = SpReadOver(sp, s, Landed(p, p.fetch[1].got[1]))
        /\ UNCHANGED <<spsrv, spleft>>

SpReadFails(s) ==
    /\ SpFree /\ sp.pages[s].fetch # <<>>
    /\ SpSpend("fails")
    /\ sp' = SpReadOver(sp, s, [sp.pages[s] EXCEPT !.missed = TRUE])
    /\ UNCHANGED spsrv

\* The server's admission: a turn, or what holds the chat.
SpPromptTaken(ch) ==
    /\ SpFree /\ sp.sends[ch] # <<>> /\ Head(sp.sends[ch]).res = SpNone
    /\ \/ /\ ch \in spsrv.turns
          /\ sp' = [sp EXCEPT !.sends[ch][1].res = "queued"]
          /\ UNCHANGED <<spsrv, spleft>>
       \/ /\ ch \notin spsrv.turns
          /\ sp' = [sp EXCEPT !.sends[ch][1].res = "sent"]
          /\ spsrv' = [spsrv EXCEPT !.turns = @ \cup {ch}]
          /\ UNCHANGED spleft
       \/ /\ SpSpend("fails")
          /\ \E res \in {"starting", "gone", "failed"} : sp' = [sp EXCEPT !.sends[ch][1].res = res]
          /\ UNCHANGED spsrv

\* The answer: a chat that took no prompt is quiet again, and the page is told.
SpPromptAnswered(ch) ==
    LET e == Head(sp.sends[ch])
        c == [sp EXCEPT !.sends[ch] = Tail(@)]
    IN  /\ SpFree /\ sp.sends[ch] # <<>> /\ e.res # SpNone
        /\ sp' = ApplyResult(IF e.res \in {"starting", "gone", "failed"}
                             THEN Effect([c EXCEPT !.thinking = @ \ {ch}]) ELSE c, e)
        /\ UNCHANGED <<spsrv, spleft>>

\* The record is made for the version that was read, or not at all.
SpApprovalTaken(s) ==
    /\ SpFree /\ sp.asks[s] # <<>> /\ Head(sp.asks[s]).res = SpNone
    /\ \/ /\ LET fits == spsrv.files[s].here /\ Head(sp.asks[s]).ver = spsrv.files[s].ver
             IN  /\ sp' = [sp EXCEPT !.asks[s][1].res = IF fits THEN "ok" ELSE "doc_changed"]
                 /\ spsrv' = IF fits THEN [spsrv EXCEPT !.files[s].approved = spsrv.files[s].ver,
                                                        !.frames = @ \cup {s}]
                             ELSE spsrv
          /\ UNCHANGED spleft
       \/ /\ SpSpend("fails")
          /\ sp' = [sp EXCEPT !.asks[s][1].res = "failed"]
          /\ UNCHANGED spsrv

\* Whatever was answered, the page reads again.
SpApprovalAnswered(s) ==
    /\ SpFree /\ sp.asks[s] # <<>> /\ Head(sp.asks[s]).res # SpNone
    /\ sp' = Refetch([sp EXCEPT !.asks[s] = Tail(@), !.pages[s].approving = FALSE], s, <<>>)
    /\ UNCHANGED <<spsrv, spleft>>

-----------------------------------------------------------------------------
(* The server.                                                             *)

\* An agent or an editor sets a task's box, rewords a task, or takes the file away.
BoxSet(doc, t, b) == [doc EXCEPT !.ver = @ + 1, !.box[t] = b]
Reworded(doc, t) == [doc EXCEPT !.ver = @ + 1, !.text[t] = @ + 1, !.box[t] = "pending"]
Written(doc) ==
    {BoxSet(doc, t, b) : t \in Tasks, b \in {"completed", "in_progress"}}
      \cup {Reworded(doc, t) : t \in Tasks}
      \cup {[doc EXCEPT !.here = FALSE]}

\* The file is written; the frame that says so may be lost with the stream.
SpFileMoves(s) ==
    /\ SpFree /\ spsrv.files[s].here
    /\ SpSpend("writes")
    /\ \E doc \in Written(spsrv.files[s]) :
          spsrv' = [spsrv EXCEPT !.files[s] = doc, !.frames = @ \cup {s}]
    /\ UNCHANGED sp

SpFrame(s) ==
    /\ SpFree /\ s \in spsrv.frames
    /\ sp' = Refetch(sp, s, <<>>)
    /\ spsrv' = [spsrv EXCEPT !.frames = @ \ {s}]
    /\ UNCHANGED spleft

SpFrameLost(s) ==
    /\ SpFree /\ s \in spsrv.frames
    /\ SpSpend("breaks")
    /\ spsrv' = [spsrv EXCEPT !.frames = @ \ {s}, !.lost = @ \cup {s}]
    /\ UNCHANGED sp

\* A turn somebody else began, and a turn's end, as the client hears of them.
SpTurnOpens(ch) ==
    /\ SpFree /\ ch \notin spsrv.turns
    /\ SpSpend("turns")
    /\ spsrv' = [spsrv EXCEPT !.turns = @ \cup {ch}]
    /\ sp' = Effect([sp EXCEPT !.thinking = @ \cup {ch}])

SpTurnCloses(ch) ==
    /\ SpFree /\ ch \in spsrv.turns
    /\ spsrv' = [spsrv EXCEPT !.turns = @ \ {ch}]
    /\ sp' = Effect([sp EXCEPT !.thinking = @ \ {ch}])
    /\ UNCHANGED spleft

-----------------------------------------------------------------------------
SpecInit ==
    /\ sp \in [pages : {[s \in Specs |-> NoPage]}, open : {{}}, closed : {{}}, shown : {SpNone},
               away : {FALSE}, parent : {[s \in Specs |-> SpecHome]}, thinking : {{}}, due : {<<>>},
               sends : {[ch \in SpecChats |-> <<>>]}, asks : {[s \in Specs |-> <<>>]},
               owed : {[s \in Specs |-> 0]}, fired : {[s \in Specs |-> 0]}]
    /\ spsrv = [files |-> [s \in Specs |-> NewFile], turns |-> {}, frames |-> {}, lost |-> {}]
    /\ spleft \in SpecScenarios

SpecNext ==
    \/ SpLeave
    \/ SpResume
    \/ \E s \in Specs :
          \/ SpShow(s) \/ SpClose(s) \/ SpRunAll(s) \/ SpPoll(s) \/ SpApprove(s)
          \/ SpReadServed(s) \/ SpReadLands(s) \/ SpReadFails(s)
          \/ SpApprovalTaken(s) \/ SpApprovalAnswered(s)
          \/ SpFileMoves(s) \/ SpFrame(s) \/ SpFrameLost(s)
          \/ \E t \in Tasks : SpRunTask(s, t)
          \/ \E ch \in SpecChats \cup {SpNone} : SpSetParent(s, ch)
    \/ \E ch \in SpecChats :
          \/ SpAnswered(ch) \/ SpPromptTaken(ch) \/ SpPromptAnswered(ch)
          \/ SpTurnOpens(ch) \/ SpTurnCloses(ch)

-----------------------------------------------------------------------------
(* What the page promises.                                                 *)

\* A page nothing is under way for shows the file as it is; a lost frame, a failed read and
\* a prompt whose chat was gone are what the next poll or click is for.
SpecCatchesUp ==
    \A s \in Specs :
        LET p == sp.pages[s]
        IN  p.on /\ p.fetch = <<>> /\ s \notin spsrv.frames \cup spsrv.lost /\ ~p.missed
              /\ ~(p.gone /\ p.held # <<>>)
            => IF spsrv.files[s].here THEN p.spec = <<spsrv.files[s]>> ELSE p.gone

\* A row that says its box did not move is pending in the file as the page read it, after
\* the turn was over.
MarksTrue ==
    /\ \A s \in Specs : sp.pages[s].spec # <<>> => sp.pages[s].unmoved \subseteq Pending(sp.pages[s].spec[1])
    /\ \A i \in DOMAIN sp.due :
          LET p == sp.pages[sp.due[i].page]
          IN  sp.due[i].kind = "note" /\ p.spec # <<>> => p.missed \/ p.spec[1].ver >= sp.due[i].at

\* A task goes to the agent as the row the reader picked has it, and as the file had it
\* after the click.
RunsWhatWasPicked ==
    \A ch \in SpecChats : \A i \in DOMAIN sp.sends[ch] :
        LET e == sp.sends[ch][i]
        IN  e.row # All => e.text = e.picked /\ (e.missed \/ e.read >= e.at)

\* An answer to a checkpoint runs the tasks once.
AnswersRunOnce == \A s \in Specs : sp.fired[s] <= sp.owed[s]

\* A page ends up showing its file, marks only what its file still has open, sends a task as it
\* was picked, and runs an answered checkpoint once.
SpecRuns == SpecCatchesUp /\ MarksTrue /\ RunsWhatWasPicked /\ AnswersRunOnce

=============================================================================
