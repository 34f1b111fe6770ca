---------------------------- MODULE ClientReader ----------------------------
(***************************************************************************)
(* The transcript's scroll controller (static-src/scroll.ts): one scroll   *)
(* box, a reader who may be reading or following the live edge, and every  *)
(* write the client itself makes to the scroll offset: the follow frame,   *)
(* the pin pass, the compensation of what is mounted above, the page of    *)
(* older messages, jumps.  Heights are small integers.  A DOM mutation and *)
(* the observers' callback on it are one step: the callback is a microtask *)
(* of the task that mutated.                                               *)
(***************************************************************************)
EXTENDS Integers

CONSTANTS
    Tol,      \* BOTTOM_TOLERANCE_PX, in the model's unit of height
    Near,     \* LOAD_MORE_THRESHOLD_PX
    MaxHigh,  \* the bound on the transcript's height
    MaxDefer, \* the bound on the changes put off while reading
    MaxAsks, MaxChanges \* the bounds on what the reader asks and what the transcript does

VARIABLES
    rd,      \* the scroll box and its controller
    rdparked,  \* the view that is not attached, with its scroll snapshot
    rdleft     \* what the reader and the transcript may still do

rdvars == <<rd, rdparked, rdleft>>

NoAim == -1

-----------------------------------------------------------------------------
(* The geometry. *)

Limit(r) == IF r.high > r.view THEN r.high - r.view ELSE 0

Clamped(r, t) == IF t < 0 THEN 0 ELSE IF t > Limit(r) THEN Limit(r) ELSE t

IsAtBottom(r) == r.top + r.view >= r.high - Tol

AtStrictBottom(r) == r.high - r.view - r.top <= 0

\* The browser keeps the offset inside the box and reports a move with a scroll event.
Placed(r, t) ==
    [r EXCEPT !.top = Clamped(r, t), !.aim = NoAim,
              !.due = @ \cup (IF Clamped(r, t) # r.top THEN {"scroll", "scrollend"} ELSE {})]

\* A scroll the controller makes, clamped to a landing it can reach.
ScrollSelfTo(r, t, behavior) ==
    IF behavior = "smooth"
    THEN [r EXCEPT !.aim = Clamped(r, t)]
    ELSE Placed(r, t)

\* Content of n units appears (n < 0: goes) above or below the reader.
Sized(r, n, where) ==
    LET grown == [r EXCEPT !.high = @ + n, !.due = @ \cup {"resize"}, !.grew = @ \/ r.loading,
                           !.above = IF where = "above" THEN @ + n ELSE @]
    IN  IF grown.top > Limit(grown) THEN Placed(grown, grown.top) ELSE grown

-----------------------------------------------------------------------------
(* The controller. *)

ReaderInControl(r) == r.bar \/ r.control

ParkedByOwnAim(r) == r.up /\ ReaderInControl(r) /\ ~AtStrictBottom(r)

\* Changes put off while the reader was reading run when the reading ends.
FlushDeferred(r) ==
    IF r.deferred = 0 THEN r ELSE Sized([r EXCEPT !.deferred = 0], -r.deferred, "above")

SetState(r, next) ==
    LET asked == [r EXCEPT !.up = @ /\ next = "reading"]
    IN  IF r.state = next THEN asked
        ELSE IF next = "reading" THEN [asked EXCEPT !.state = next, !.edge = FALSE]
        ELSE FlushDeferred([asked EXCEPT !.state = next])

EndSelfScroll(r) == [r EXCEPT !.epoch = FALSE, !.target = 0]

ForgetReaderGesture(r) == [r EXCEPT !.control = FALSE, !.up = FALSE, !.bar = FALSE]

CancelPinPass(r) == [r EXCEPT !.pinFrame = FALSE, !.pin = FALSE]

\* A gesture takes the scroll back from the controller and from a flight under way.
MarkInput(r, dir) ==
    [EndSelfScroll(r) EXCEPT !.control = TRUE, !.up = IF dir = "none" THEN @ ELSE dir = "up"]

MayReleaseReading(r) == r.state = "reading" /\ ~ReaderInControl(r) /\ ~r.epoch

RevalidateReadingState(r, atBottom) ==
    IF MayReleaseReading(r) /\ atBottom THEN SetState(r, "following") ELSE r

MayFollow(r) == r.state # "reading" /\ ~r.pinFrame /\ ~ReaderInControl(r) /\ ~r.epoch

AutoScrollIfAnchored(r) == [r EXCEPT !.raf = @ \/ MayFollow(r)]

\* What the mutation observer does, in the task that mutated.
Mutated(r) == AutoScrollIfAnchored(RevalidateReadingState(r, r.edge))

\* The live edge, or the turn the anchor provider holds above a tail of follow-ups.
FollowTarget(r) == IF r.tail = 0 THEN r.high ELSE r.high - r.tail - r.view

PinLiveEdgeNow(r) ==
    IF r.top = Clamped(r, FollowTarget(r)) THEN r ELSE ScrollSelfTo(r, FollowTarget(r), "instant")

PinToLiveEdge(r) ==
    LET held == ForgetReaderGesture(SetState(r, "following"))
    IN  [PinLiveEdgeNow([held EXCEPT !.pin = TRUE]) EXCEPT !.pinFrame = TRUE]

LandsAtOffsetLiveEdge(r, landing) == landing >= Limit(r) - Tol

\* A change made above the reader, and the offset moved by what it added.
PreserveReadingPosition(r, changed, delta) ==
    IF r.state = "following" \/ delta = 0 THEN changed
    ELSE IF changed.epoch
    THEN ScrollSelfTo([changed EXCEPT !.target = @ + delta], changed.target + delta, "instant")
    ELSE ScrollSelfTo(changed, changed.top + delta, "instant")

\* A page of older messages is asked for; the height is the one the answer is measured from.
MaybeLoadMore(r, force) ==
    IF /\ force \/ (r.top < Near /\ ~r.epoch)
       /\ r.more /\ ~r.loading
    THEN [r EXCEPT !.loading = TRUE, !.prev = r.high, !.grew = FALSE]
    ELSE r

EndLoadPass(r) == [r EXCEPT !.loading = FALSE, !.prev = 0, !.grew = FALSE]

FillViewport(r) == IF r.high > r.view + Tol THEN r ELSE MaybeLoadMore(r, TRUE)

-----------------------------------------------------------------------------
(* What the reader does. *)

ReaderAsks == rdleft.asks > 0 /\ rdleft' = [rdleft EXCEPT !.asks = @ - 1] /\ UNCHANGED rdparked

TranscriptMoves == rdleft.changes > 0 /\ rdleft' = [rdleft EXCEPT !.changes = @ - 1] /\ UNCHANGED rdparked

Delivered == UNCHANGED <<rdleft, rdparked>>

\* Wheel, touch and keys: the gesture, and the move the browser makes of it.
Gesture ==
    /\ \E dir \in {"up", "down"} :
         LET on == [MarkInput(rd, dir) EXCEPT !.aim = NoAim]
         IN  rd' = Placed(on, rd.top + (IF dir = "up" THEN -1 ELSE 1))
    /\ ReaderAsks

\* touchend, or a touch whose direction is not known.
Touched == rd' = MarkInput(rd, "none") /\ ReaderAsks

BarDown ==
    /\ ~rd.bar
    /\ rd' = MarkInput([rd EXCEPT !.bar = TRUE], "none")
    /\ ReaderAsks

BarDrag ==
    /\ rd.bar
    /\ \E to \in 0..Limit(rd) :
         LET on == MarkInput([rd EXCEPT !.aim = NoAim],
                             IF to = rd.top THEN "none" ELSE IF to < rd.top THEN "up" ELSE "down")
         IN  rd' = Placed(on, to)
    /\ ReaderAsks

BarUp ==
    /\ rd.bar
    /\ rd' = MarkInput([rd EXCEPT !.bar = FALSE], "none")
    /\ ReaderAsks

\* READER_CONTROL_MS pass.
ControlEnds ==
    /\ rd.control
    /\ rd' = [rd EXCEPT !.control = FALSE]
    /\ Delivered

\* The jump-to-latest button, the End key, a send.
Resume == rd' = PinToLiveEdge(rd) /\ ReaderAsks

SetUserScrolledUp ==
    /\ \E v \in BOOLEAN : rd' = SetState(rd, IF v THEN "reading" ELSE "following")
    /\ ReaderAsks

\* jumpTo: one scrollIntoView, marked as the controller's own when it moved at once.
JumpTo ==
    /\ \E to \in 0..Limit(rd), behavior \in {"smooth", "instant"} :
         LET ready == [EndSelfScroll(CancelPinPass(rd)) EXCEPT !.control = TRUE]
             aimed == SetState(ready, IF LandsAtOffsetLiveEdge(ready, to)
                                      THEN "following" ELSE "reading")
             moved == IF behavior = "smooth" THEN [aimed EXCEPT !.aim = to] ELSE Placed(aimed, to)
         IN  rd' = moved
    /\ ReaderAsks

\* The rail's jump: an epoch opened, then a landing asked for inside it.
BeginSelfScroll ==
    /\ rd' = [rd EXCEPT !.epoch = TRUE, !.target = rd.top]
    /\ ReaderAsks

ScrollToOffset ==
    /\ rd.epoch
    /\ \E px \in 0..Limit(rd), behavior \in {"smooth", "instant"} :
         LET aimed == SetState(rd, IF LandsAtOffsetLiveEdge(rd, px)
                                   THEN "following" ELSE "reading")
         IN  rd' = ScrollSelfTo([aimed EXCEPT !.target = px], px, behavior)
    /\ ReaderAsks

\* endSelfScroll by the jump's end, or SELF_SCROLL_MAX_MS.
EpochEnds ==
    /\ rd.epoch
    /\ rd' = EndSelfScroll(rd)
    /\ Delivered

-----------------------------------------------------------------------------
(* What the browser delivers. *)

FlightStep ==
    /\ rd.aim # NoAim
    /\ LET to == Clamped(rd, rd.aim)
           step == IF to > rd.top THEN rd.top + 1 ELSE IF to < rd.top THEN rd.top - 1 ELSE to
           on == Placed(rd, step)
       IN  rd' = [on EXCEPT !.aim = IF step = to THEN NoAim ELSE rd.aim]
    /\ Delivered

ScrollEvent ==
    /\ "scroll" \in rd.due
    /\ LET got == [rd EXCEPT !.due = @ \ {"scroll"}]
           edge == IsAtBottom(rd) /\ ~ParkedByOwnAim(rd)
           told == [got EXCEPT !.edge = edge]
           stated == IF rd.epoch THEN got
                     ELSE IF edge THEN SetState(told, "following")
                     ELSE IF rd.up THEN SetState(told, "reading") ELSE told
       IN  rd' = MaybeLoadMore(stated, FALSE)
    /\ Delivered

ScrollEnd ==
    /\ "scrollend" \in rd.due /\ "scroll" \notin rd.due /\ rd.aim = NoAim
    /\ rd' = EndSelfScroll([rd EXCEPT !.due = @ \ {"scrollend"}])
    /\ Delivered

ResizeDelivered ==
    /\ "resize" \in rd.due
    /\ rd' = AutoScrollIfAnchored([rd EXCEPT !.due = @ \ {"resize"}, !.reval = TRUE])
    /\ Delivered

\* The intersection observer reports the edge sentinel when its state changed.
EdgeDelivered ==
    /\ rd.seen # IsAtBottom(rd)
    /\ LET edge == IsAtBottom(rd)
       IN  rd' = RevalidateReadingState([rd EXCEPT !.seen = edge, !.edge = edge], edge)
    /\ Delivered

RevalidateFrame ==
    /\ rd.reval
    /\ rd' = RevalidateReadingState([rd EXCEPT !.reval = FALSE], IsAtBottom(rd))
    /\ Delivered

(* A mutant of FollowFrame: the frame trusts the answer it was queued on. *)
FollowFrameUnasked ==
    /\ rd.raf
    /\ rd' = ScrollSelfTo([rd EXCEPT !.raf = FALSE], FollowTarget(rd), "instant")
    /\ Delivered

\* The frame autoScrollIfAnchored queued asks again whether it may follow.
FollowFrame ==
    /\ rd.raf
    /\ LET off == [rd EXCEPT !.raf = FALSE]
       IN  rd' = IF MayFollow(rd) THEN ScrollSelfTo(off, FollowTarget(rd), "instant") ELSE off
    /\ Delivered

\* PIN_SETTLE_MS pass.
PinExpires ==
    /\ rd.pin
    /\ rd' = [rd EXCEPT !.pin = FALSE]
    /\ Delivered

PinFrame ==
    /\ rd.pinFrame
    /\ LET off == [rd EXCEPT !.pinFrame = FALSE]
       IN  rd' = IF rd.state # "following" \/ ReaderInControl(rd) \/ ~rd.pin
                    THEN [off EXCEPT !.pin = FALSE]
                    ELSE [PinLiveEdgeNow(off) EXCEPT !.pinFrame = TRUE]
    /\ Delivered

-----------------------------------------------------------------------------
(* What the transcript does. *)

\* A turn streams below the reader, or a fold below closes.
Streamed ==
    /\ rd.high < MaxHigh
    /\ rd' = Mutated(Sized(rd, 1, "below"))
    /\ TranscriptMoves

FoldedBelow ==
    /\ rd.high > rd.top + rd.view
    /\ rd' = Mutated(Sized(rd, -1, "below"))
    /\ TranscriptMoves

\* The body window mounts entries above what is drawn.
MountedAbove ==
    /\ rd.high < MaxHigh
    /\ rd' = Mutated(PreserveReadingPosition(rd, Sized(rd, 1, "above"), 1))
    /\ TranscriptMoves

\* The composer takes a unit of the view or gives it back; the browser keeps the offset.
ViewportResizes ==
    /\ \E v \in 2..3 :
         /\ v # rd.view
         /\ rd' = Placed([rd EXCEPT !.view = v], rd.top)
    /\ TranscriptMoves

\* The window drops entries above: at once while following, put off while reading.
DropAbove ==
    /\ rd.deferred < MaxDefer
    /\ rd.above > rd.deferred /\ rd.high > rd.view + rd.deferred
    /\ rd' = IF rd.state = "following" THEN Mutated(Sized(rd, -1, "above"))
                ELSE [rd EXCEPT !.deferred = @ + 1]
    /\ TranscriptMoves

SetAnchor ==
    /\ \E tail \in 0..1 : rd' = [rd EXCEPT !.tail = tail]
    /\ TranscriptMoves

\* setLoadMore by the chat shown, and the paint's fillViewport.
SetLoadMore ==
    /\ \E more \in BOOLEAN : rd' = FillViewport([rd EXCEPT !.more = more])
    /\ TranscriptMoves

LoadMoreClicked ==
    /\ rd' = MaybeLoadMore(rd, TRUE)
    /\ ReaderAsks

\* The answer mounts n units of older turns above and takes the skeleton away.
PageArrives ==
    /\ rd.loading
    /\ \E n \in 0..1 :
         /\ rd.high + n <= MaxHigh
         /\ LET mounted == EndLoadPass(Mutated(Sized(rd, n, "above")))
            IN  rd' = ScrollSelfTo(mounted, mounted.top + (mounted.high - rd.prev), "instant")
    /\ Delivered

\* abandonLoadPass: fifteen seconds without an answer.
PageAbandoned ==
    /\ rd.loading
    /\ rd' = EndLoadPass(rd)
    /\ Delivered

-----------------------------------------------------------------------------
(* Two chats share the box: the one shown is detached, the other attached. *)

Detached(r) ==
    SetState(ForgetReaderGesture(EndSelfScroll(CancelPinPass(EndLoadPass(
        [r EXCEPT !.deferred = 0, !.reval = FALSE, !.more = FALSE, !.due = @ \ {"resize"}])))),
        "following")

Switch ==
    /\ LET out == Detached(rd)
           mounted == [EndSelfScroll(out) EXCEPT !.high = rdparked.high, !.above = rdparked.above,
                                                 !.aim = NoAim, !.tail = 0, !.seen = ~IsAtBottom(rd)]
       IN  rd' = ScrollSelfTo(SetState(mounted, rdparked.state), rdparked.top, "instant")
    /\ rdleft.asks > 0 /\ rdleft' = [rdleft EXCEPT !.asks = @ - 1]
    /\ rdparked' = [top |-> rd.top, state |-> rd.state, high |-> rd.high, above |-> rd.above]

\* resetScrollState: the shown chat's transcript is emptied or replaced.
ResetScrollState == rd' = Detached(rd) /\ ReaderAsks

-----------------------------------------------------------------------------

ReaderInit ==
    /\ rd = [top |-> 2, high |-> 4, view |-> 2, above |-> 1, aim |-> NoAim,
             state |-> "following", control |-> FALSE, bar |-> FALSE, up |-> FALSE,
             epoch |-> FALSE, target |-> 0, pin |-> FALSE, pinFrame |-> FALSE, raf |-> FALSE,
             reval |-> FALSE, edge |-> TRUE, seen |-> TRUE, deferred |-> 0, more |-> TRUE,
             loading |-> FALSE, prev |-> 0, grew |-> FALSE, tail |-> 0, due |-> {}]
    /\ rdparked = [top |-> 1, state |-> "reading", high |-> 4, above |-> 1]
    /\ rdleft = [asks |-> MaxAsks, changes |-> MaxChanges]

\* What the reader or a command of theirs moves.
Commanded ==
    \/ Gesture \/ Touched \/ BarDown \/ BarDrag \/ BarUp \/ Resume \/ SetUserScrolledUp
    \/ JumpTo \/ BeginSelfScroll \/ ScrollToOffset \/ FlightStep \/ Switch \/ ResetScrollState

\* What happens on its own.
OnItsOwn ==
    \/ ControlEnds \/ EpochEnds \/ ScrollEvent \/ ScrollEnd \/ ResizeDelivered \/ EdgeDelivered
    \/ RevalidateFrame \/ FollowFrame \/ PinExpires \/ PinFrame
    \/ Streamed \/ FoldedBelow \/ MountedAbove \/ ViewportResizes \/ DropAbove \/ SetAnchor
    \/ SetLoadMore \/ LoadMoreClicked \/ PageArrives \/ PageAbandoned

ReaderNext == Commanded \/ OnItsOwn

ReaderSpec == ReaderInit /\ [][ReaderNext]_rdvars

-----------------------------------------------------------------------------
\* What happens on its own leaves the line at the top of a reader's view where it is, unless
\* so little is left below it that the box ends.
KeepsPlace ==
    OnItsOwn /\ rd.state = "reading" /\ rd'.state = "reading" /\ ~rd.epoch
        /\ ~(rd.grew /\ ~rd'.loading) =>
    \/ rd'.top - rd'.above = rd.top - rd.above
    \/ rd'.top = Limit(rd') /\ rd'.top - rd'.above < rd.top - rd.above

(* Somebody who is reading is never moved by anything but their own gesture, a jump they   *)
(* asked for or the flight of one: whatever is mounted, streamed, dropped or loaded, and   *)
(* whatever frame was queued before they began to read, the line of the transcript at the  *)
(* top of their view stays there, unless so little is left below it that the box ends.     *)
(* A page that arrives after the transcript's height changed some other way is not         *)
(* covered: the compensation of scroll.ts:1449-1458 counts that change as its own.         *)
ReaderKept == [][KeepsPlace]_rdvars

=============================================================================
