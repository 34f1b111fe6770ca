---------------------------- MODULE TurnProofs -----------------------------
(***************************************************************************)
(* TurnLifecycle is well typed, its turns are closed once and its prompts  *)
(* admitted one at a time, for every value of its constants.               *)
(*                                                                         *)
(* It loses a turn only as a revision overwrites it, and keeps every       *)
(* record somebody reads (the last part).                                  *)
(*                                                                         *)
(* Typing: TypeOK is strengthened with what a goroutine inside             *)
(* finalizeTurn knows, and is proved one group of variables at a time: a   *)
(* step leaves most groups alone, and the frame lemmas dispose of those.   *)
(***************************************************************************)
EXTENDS TurnLifecycle, TLAPS

\* A goroutine inside finalizeTurn knows who it closes for, and past the claim it
\* knows what.
CloserNamed == \A p \in Threads : phase[p] # "none" => closer[p] \in Closers
TargetNamed ==
    \A p \in Threads : phase[p] \in {"effects", "publish"} => target[p] \in TurnIds

TypeInv == TypeOK /\ CloserNamed /\ TargetNamed

\* A step that leaves the registry and the admission slot alone keeps their types.
LEMMA RegistryFrame ==
    ASSUME RegistryOK, UNCHANGED <<registry, reserved>>
    PROVE  RegistryOK'
BY DEF RegistryOK, registry, slots, records, claims, holders

\* Every goroutine step keeps the registry well typed: a turn opened is within the
\* bound, a turn published names its closer, and a retained record is a turn.
LEMMA RegistryStep ==
    ASSUME TypeInv, NEW p \in Threads, Run(p)
    PROVE  RegistryOK'
<1> USE DEF TypeInv, TypeOK
<1>1. CASE Finalizing(p)
  <2> USE DEF RegistryOK, GoroutinesOK, slots, records, claims, holders, registry
  <2>1. CASE ClaimTurn(p)
    BY <2>1 DEF ClaimTurn, Claimable
  <2>2. CASE ClaimOwn(p)
    BY <2>2 DEF ClaimOwn
  <2>3. CASE ClaimLost(p)
    BY <2>3 DEF ClaimLost
  <2>4. CASE CloseTurn(p)
    <3>0. target[p] \in TurnIds
      BY <2>4 DEF CloseTurn, TargetNamed
    <3>1. closes' \in [TurnIds -> Nat]
      <4>1. closes \in [TurnIds -> Nat] /\ closes[target[p]] + 1 \in Nat
        BY <3>0
      <4>2. \/ closes' = [closes EXCEPT ![target[p]] = closes[target[p]] + 1]
            \/ closes' = closes
        BY <2>4 DEF CloseTurn
      <4> HIDE DEF RegistryOK
      <4> QED BY <4>1, <4>2
    <3> QED BY <2>4, <3>1 DEF CloseTurn
  <2>5. CASE Finish(p)
    <3>1. closer[p] \in Closers
      BY <2>5 DEF Finish, CloserNamed
    <3>2. closedBy' \in [TurnIds -> Closers \cup {Running}]
      BY <2>5, <3>1 DEF Finish
    <3>3. target[p] \in TurnIds
      BY <2>5 DEF Finish, TargetNamed
    <3> QED BY <2>5, <3>2, <3>3 DEF Finish, Cleared, StateOf
  <2> QED BY <1>1, <2>1, <2>2, <2>3, <2>4, <2>5 DEF Finalizing
<1>2. CASE Admission(p)
  <2>1. CASE OpenTurn(p)
    BY <2>1, BoundsAssumption DEF OpenTurn, OpenRecord, RegistryOK, SourceOf, Sources,
       records, claims, TurnIds, NoTurn
  <2>2. CASE Unreserve(p)
    BY <2>2 DEF Unreserve, RegistryOK, registry, slots, records, claims, holders
  <2>3. ASSUME NEW t, GiveUp(p, t) PROVE RegistryOK'
    BY <2>3 DEF GiveUp, RegistryOK, slots, records, claims, holders
  <2>4. CASE OpenRefused(p) \/ CloseBeforeStart(p) \/ Return(p)
    BY <2>4, RegistryFrame DEF OpenRefused, CloseBeforeStart, Return
  <2> QED BY <1>2, <2>1, <2>2, <2>3, <2>4 DEF Admission, DropTurn, ReleaseTurn
<1>3. CASE Opening(p)
  BY <1>3, RegistryFrame DEF Opening, ReuseBridge, SpawnBridge, StartOk, CheckRetired,
     OpenBridgeFails, AcquireSlot, CloseTurnsOnRetire
<1>4. CASE Settling(p)
  <2>1. CASE StartTurn(p)
    BY <2>1 DEF StartTurn, Claimable, Live, RegistryOK, LocalsOK, records, claims, holders
  <2> QED BY <1>4, <2>1, RegistryFrame
           DEF Settling, StartRefused, ShellDone, SettleReached, SettleParks, SettleDefers,
                AwaitTurn, ReleaseSlot
<1>5. CASE Recovering(p)
  <2>1. CASE ReserveRetry(p)
    BY <2>1 DEF ReserveRetry, Reserve, RegistryOK, registry, slots, records, claims,
       holders, Sources
  <2> QED BY <1>5, <2>1, RegistryFrame
           DEF Recovering, Gate, SnapshotTurns, SweepTurn, StopBridge
<1>6. CASE Folding(p)
  <2> USE DEF AtFrame, At
  <2>1. CASE OpenWireTurn(p)
    BY <2>1, BoundsAssumption DEF OpenWireTurn, OpenRecord, RegistryOK, Sources, records,
       claims, holders, TurnIds, NoTurn
  <2>2. CASE BindPending(p)
    BY <2>2 DEF BindPending, Binds, RegistryOK, records, claims, holders
  <2>3. CASE ReviseTurnBinding(p)
    <3>1. nextSeq + 1 \in TurnIds
      BY <2>3, BoundsAssumption DEF ReviseTurnBinding, OpenRecord, RegistryOK, TurnIds
    <3>2. acked' \in [TurnIds -> BOOLEAN] /\ source' \in [TurnIds -> Sources]
      BY <2>3 DEF ReviseTurnBinding, OpenRecord, RegistryOK, Sources
    <3> QED BY <2>3, <3>1, <3>2 DEF ReviseTurnBinding, OpenRecord, RegistryOK, claims,
             holders
  <2> QED BY <1>6, <2>1, <2>2, <2>3, RegistryFrame
           DEF Folding, Observe, FoldContent, FoldMisses, OpenWireRefused,
          BindMisses, WireTurnEnd, ReviseSkipped, SealPosition, RemoveIfBridge, ForwardEnds
<1> QED BY <1>1, <1>2, <1>3, <1>4, <1>5, <1>6 DEF Run

\* The environment only takes the admission slot, for a source.
LEMMA RegistryEnvironment ==
    ASSUME TypeInv, Environment
    PROVE  RegistryOK'
<1> USE DEF TypeInv, TypeOK
<1>1. ASSUME NEW p \in Threads, ReservePrompt(p) \/ ReserveShell(p) PROVE RegistryOK'
  BY <1>1 DEF ReservePrompt, ReserveShell, Reserve, RegistryOK, registry, slots, records,
     claims, holders, Sources
<1> QED BY <1>1, RegistryFrame DEF Environment, OpenAnyway, Respond, CallFails, CtxDies,
         RetireBridge, BridgeDies, ReadFrame

\* A step that leaves the bridges alone keeps their types.
LEMMA TransportFrame ==
    ASSUME TransportOK, UNCHANGED transport
    PROVE  TransportOK'
BY DEF TransportOK, transport, position, bridges, streams

\* Consuming a frame (observe) keeps the stream and the position well typed.
LEMMA ConsumeOK ==
    ASSUME TransportOK, NEW g \in Folders, queue[g] # <<>>, Consume(g),
           UNCHANGED <<fwdGen, forwardGone, bridges, up>>
    PROVE  TransportOK'
<1> USE DEF Consume, TransportOK
<1>1. queue' \in [Folders -> Seq(FrameKinds)]
  OBVIOUS
<1>2. consumed' \in [Folders -> Nat]
  OBVIOUS
<1> QED BY <1>1, <1>2 DEF bridges

\* Every goroutine step keeps the bridges, their slots and their streams well typed.
LEMMA TransportStep ==
    ASSUME TypeInv, NEW p \in Threads, Run(p)
    PROVE  TransportOK'
<1> USE DEF TypeInv, TypeOK
<1>1. CASE Finalizing(p)
  BY <1>1, TransportFrame DEF Finalizing, ClaimTurn, ClaimOwn, ClaimLost, CloseTurn, Finish
<1>2. CASE Admission(p)
  BY <1>2, TransportFrame DEF Admission, OpenTurn, OpenRefused, Unreserve,
     CloseBeforeStart, DropTurn, ReleaseTurn, GiveUp, Return
<1>3. CASE Opening(p)
  <2> USE DEF TransportOK, position, bridges, streams
  <2>1. CASE SpawnBridge(p)
    <3>1. fwdGen + 1 \in Folders
      BY <2>1, BoundsAssumption DEF SpawnBridge, Folders
    <3>2. up' \in [Folders -> BOOLEAN]
      BY <2>1 DEF SpawnBridge
    <3> QED BY <2>1, <3>1, <3>2 DEF SpawnBridge
  <2>2. CASE StartOk(p)
    BY <2>2 DEF StartOk
  <2>3. CASE CheckRetired(p)
    BY <2>3 DEF CheckRetired, NoBridge
  <2>4. CASE OpenBridgeFails(p)
    BY <2>4 DEF OpenBridgeFails, NoBridge
  <2>5. CASE AcquireSlot(p)
    BY <2>5 DEF AcquireSlot
  <2> QED BY <1>3, <2>1, <2>2, <2>3, <2>4, <2>5, TransportFrame
           DEF Opening, ReuseBridge, CloseTurnsOnRetire
<1>4. CASE Settling(p)
  <2>1. CASE ReleaseSlot(p)
    BY <2>1 DEF ReleaseSlot, TransportOK, position, bridges, streams
  <2> QED BY <1>4, <2>1, TransportFrame
           DEF Settling, StartTurn, StartRefused, ShellDone, SettleReached, SettleParks,
                SettleDefers, AwaitTurn
<1>5. CASE Recovering(p)
  <2>1. CASE StopBridge(p)
    BY <2>1 DEF StopBridge, TransportOK, position, bridges, streams, NoBridge
  <2> QED BY <1>5, <2>1, TransportFrame
           DEF Recovering, Gate, ReserveRetry, SnapshotTurns, SweepTurn
<1>6. CASE Folding(p)
  <2>1. CASE Observe(p) \/ FoldContent(p) \/ OpenWireTurn(p) \/ OpenWireRefused(p) \/
             BindPending(p)
    BY <2>1, ConsumeOK DEF Observe, FoldContent, OpenWireTurn, OpenWireRefused,
       BindPending, AtFrame
  <2>2. CASE SealPosition(p)
    <3>1. forwardGone' \in BOOLEAN
      BY <2>2, Zenon DEF SealPosition
    <3> QED BY <2>2, <3>1 DEF SealPosition, TransportOK, bridges, streams
  <2>3. CASE RemoveIfBridge(p)
    BY <2>3 DEF RemoveIfBridge, TransportOK, position, streams, NoBridge
  <2> QED BY <1>6, <2>1, <2>2, <2>3, TransportFrame
           DEF Folding, FoldMisses, BindMisses, WireTurnEnd, ReviseTurnBinding,
                ReviseSkipped, ForwardEnds
<1> QED BY <1>1, <1>2, <1>3, <1>4, <1>5, <1>6 DEF Run

\* So do a retirement, a death and a frame read.
LEMMA TransportEnvironment ==
    ASSUME TypeInv, Environment
    PROVE  TransportOK'
<1> USE DEF TypeInv, TypeOK
<1>1. ASSUME NEW r \in Retirers, RetireBridge(r) PROVE TransportOK'
  BY <1>1 DEF RetireBridge, TransportOK, position, NoBridge
<1>2. ASSUME NEW g \in Folders, BridgeDies(g) PROVE TransportOK'
  BY <1>2 DEF BridgeDies, TransportOK, position, bridges
<1>3. ASSUME NEW g \in Folders, NEW f \in Frames, ReadFrame(g, f) PROVE TransportOK'
  BY <1>3, BoundsAssumption DEF ReadFrame, TransportOK, position, bridges
<1> QED BY <1>1, <1>2, <1>3, TransportFrame
         DEF Environment, ReservePrompt, ReserveShell, OpenAnyway, Respond, CallFails,
              CtxDies

GoroutinesInv == GoroutinesOK /\ CloserNamed /\ TargetNamed

\* Moving to another label outside finalizeTurn keeps the goroutines well typed.
LEMMA GotoOK ==
    ASSUME GoroutinesInv, NEW p \in Threads, NEW l \in Labels, Goto(p, l),
           UNCHANGED <<closing, todo>>
    PROVE  GoroutinesInv'
BY DEF Goto, GoroutinesInv, GoroutinesOK, CloserNamed, TargetNamed, closing

\* Entering finalizeTurn does, for a known closer.
LEMMA FinalizeOK ==
    ASSUME GoroutinesInv, NEW p \in Threads, NEW t \in TurnIds \cup {NoTurn},
         NEW c \in Closers,
           Finalize(p, t, c),
           pc' \in [Threads -> Labels], todo' \in [Threads -> Seq(TurnIds)]
    PROVE  GoroutinesInv'
BY DEF Finalize, GoroutinesInv, GoroutinesOK, CloserNamed, TargetNamed

\* A move leads to a label.
LEMMA GotoLabel ==
    ASSUME GoroutinesInv, NEW p \in Threads, NEW l \in Labels, Goto(p, l)
    PROVE  pc' \in [Threads -> Labels]
BY DEF Goto, GoroutinesInv, GoroutinesOK

\* finalizeTurn itself keeps a closer and a turn for whoever is past its claim.
LEMMA FinalizingStep ==
    ASSUME TypeInv, NEW p \in Threads, Finalizing(p)
    PROVE  GoroutinesInv'
<1> USE DEF TypeInv, TypeOK, GoroutinesOK, GoroutinesInv, CloserNamed, TargetNamed
<1>1. CASE ClaimTurn(p)
  BY <1>1 DEF ClaimTurn, Claimable, Live
<1>2. CASE ClaimOwn(p)
  BY <1>2 DEF ClaimOwn, OwnLive, RegistryOK
<1>3. CASE ClaimLost(p)
  BY <1>3 DEF ClaimLost, EndFinalize
<1>4. CASE CloseTurn(p)
  BY <1>4 DEF CloseTurn
<1>5. CASE Finish(p)
  BY <1>5 DEF Finish, EndFinalize
<1> QED BY <1>1, <1>2, <1>3, <1>4, <1>5 DEF Finalizing

\* Every step keeps the goroutines well typed.
LEMMA GoroutinesStep ==
    ASSUME TypeInv, NEW p \in Threads, Run(p)
    PROVE  GoroutinesInv'
<1>0. GoroutinesInv
  BY DEF TypeInv, TypeOK, GoroutinesInv
<1> USE <1>0, GotoOK, FinalizeOK, GotoLabel DEF Labels, CallerLabels, FolderLabels, Closers
<1>1. CASE Finalizing(p)
  BY <1>1, FinalizingStep
<1>2. CASE Admission(p)
  <2>1. CASE OpenTurn(p) \/ OpenRefused(p) \/ Unreserve(p) \/ DropTurn(p) \/ Return(p)
    BY <2>1 DEF OpenTurn, OpenRefused, Unreserve, DropTurn, GiveUp, Return, TypeInv,
       TypeOK, LocalsOK, Continuations
  <2>2. CASE CloseBeforeStart(p)
    BY <2>2 DEF CloseBeforeStart, TypeInv, TypeOK, GoroutinesOK, LocalsOK, Callers
  <2>3. CASE ReleaseTurn(p)
    BY <2>3 DEF ReleaseTurn, GiveUp, GoroutinesInv, GoroutinesOK, CloserNamed, TargetNamed,
       closing
  <2> QED BY <1>2, <2>1, <2>2, <2>3 DEF Admission
<1>3. CASE Opening(p)
  <2>1. CASE ReuseBridge(p) \/ StartOk(p) \/ CheckRetired(p) \/ OpenBridgeFails(p) \/
             AcquireSlot(p)
    BY <2>1 DEF ReuseBridge, StartOk, CheckRetired, OpenBridgeFails, AcquireSlot
  <2>2. CASE SpawnBridge(p)
    BY <2>2 DEF SpawnBridge, GoroutinesInv, GoroutinesOK, CloserNamed, TargetNamed, closing
  <2>3. CASE CloseTurnsOnRetire(p)
    BY <2>3 DEF CloseTurnsOnRetire, TypeInv, TypeOK, GoroutinesOK, RegistryOK
  <2> QED BY <1>3, <2>1, <2>2, <2>3 DEF Opening
<1>4. CASE Settling(p)
  <2>1. CASE StartTurn(p) \/ SettleParks(p) \/ SettleDefers(p) \/ AwaitTurn(p) \/
             ReleaseSlot(p)
    BY <2>1 DEF StartTurn, SettleParks, SettleDefers, AwaitTurn, ReleaseSlot, AfterSettle
  <2>2. CASE StartRefused(p) \/ ShellDone(p) \/ SettleReached(p)
    BY <2>2 DEF StartRefused, ShellDone, SettleReached, AfterSettle, TypeInv, TypeOK,
       GoroutinesOK, LocalsOK, Callers
  <2> QED BY <1>4, <2>1, <2>2 DEF Settling
<1>5. CASE Recovering(p)
  <2>1. CASE Gate(p) \/ ReserveRetry(p) \/ StopBridge(p)
    BY <2>1 DEF Gate, ReserveRetry, StopBridge
  <2>2. CASE SnapshotTurns(p)
    <3>1. OpenTurnIDs \in Seq(TurnIds)
      BY DEF OpenTurnIDs, TypeInv, TypeOK, RegistryOK
    <3> QED BY <2>2, <3>1 DEF SnapshotTurns, Goto, GoroutinesInv, GoroutinesOK,
             CloserNamed, TargetNamed, closing
  <2>3. CASE SweepTurn(p)
    <3>1. Head(todo[p]) \in TurnIds /\ todo' \in [Threads -> Seq(TurnIds)]
      BY <2>3 DEF SweepTurn, GoroutinesInv, GoroutinesOK
    <3> QED BY <2>3, <3>1 DEF SweepTurn, GoroutinesInv, GoroutinesOK
  <2> QED BY <1>5, <2>1, <2>2, <2>3 DEF Recovering
<1>6. CASE Folding(p)
  <2>1. CASE Observe(p) \/ FoldContent(p) \/ FoldMisses(p) \/ OpenWireTurn(p) \/
             OpenWireRefused(p) \/ BindPending(p)
    BY <2>1 DEF Observe, FoldContent, FoldMisses, OpenWireTurn, OpenWireRefused,
       BindPending, Consume
  <2>2. CASE ReviseTurnBinding(p) \/ ReviseSkipped(p) \/ SealPosition(p) \/
             RemoveIfBridge(p) \/ ForwardEnds(p)
    BY <2>2 DEF ReviseTurnBinding, ReviseSkipped, SealPosition, RemoveIfBridge, ForwardEnds
  <2>3. CASE BindMisses(p)
    <3>1. Lost \in TurnIds \cup {NoTurn}
      BY DEF Lost, TypeInv, TypeOK, RegistryOK
    <3> QED BY <2>3, <3>1 DEF BindMisses, TypeInv, TypeOK, GoroutinesOK
  <2>4. CASE WireTurnEnd(p)
    BY <2>4 DEF WireTurnEnd, Goto, GoroutinesInv, GoroutinesOK, CloserNamed, TargetNamed
  <2> QED BY <1>6, <2>1, <2>2, <2>3, <2>4 DEF Folding
<1> QED BY <1>1, <1>2, <1>3, <1>4, <1>5, <1>6 DEF Run

\* So does the environment.
LEMMA GoroutinesEnvironment ==
    ASSUME TypeInv, Environment
    PROVE  GoroutinesInv'
<1>0. GoroutinesInv
  BY DEF TypeInv, TypeOK, GoroutinesInv
<1> USE <1>0, GotoOK, FinalizeOK, GotoLabel DEF Labels, CallerLabels, FolderLabels, Closers
<1>1. ASSUME NEW p \in Threads, ReservePrompt(p) \/ ReserveShell(p) \/ OpenAnyway(p)
           PROVE GoroutinesInv'
  BY <1>1 DEF ReservePrompt, ReserveShell, OpenAnyway
<1>2. ASSUME NEW d \in Drivers, Respond(d) PROVE GoroutinesInv'
  BY <1>2 DEF Respond, Threads, Callers
<1>3. ASSUME NEW d \in Drivers, CallFails(d) PROVE GoroutinesInv'
  BY <1>3 DEF CallFails, Threads, Callers, TypeInv, TypeOK, GoroutinesOK, LocalsOK
<1>4. ASSUME UNCHANGED <<pc, closing, todo>> PROVE GoroutinesInv'
  BY <1>4 DEF GoroutinesInv, GoroutinesOK, CloserNamed, TargetNamed, closing
<1>5. ASSUME NEW r \in Retirers, RetireBridge(r) PROVE GoroutinesInv'
  BY <1>4, <1>5 DEF RetireBridge, Threads
<1> QED BY <1>1, <1>2, <1>3, <1>4, <1>5 DEF Environment, CtxDies, BridgeDies, ReadFrame

\* A step that leaves the callers' locals alone keeps their types.
LEMMA LocalsFrame ==
    ASSUME LocalsOK, UNCHANGED locals
    PROVE  LocalsOK'
BY DEF LocalsOK, locals

\* Every goroutine step keeps the locals well typed.
LEMMA LocalsStep ==
    ASSUME TypeInv, NEW p \in Threads, Run(p)
    PROVE  LocalsOK'
<1> USE DEF TypeInv, TypeOK
<1>1. CASE Finalizing(p)
  BY <1>1, LocalsFrame DEF Finalizing, ClaimTurn, ClaimOwn, ClaimLost, CloseTurn, Finish
<1>2. CASE Admission(p)
  <2>1. CASE OpenTurn(p)
    <3>1. nextSeq + 1 \in TurnIds
      BY <2>1, BoundsAssumption DEF OpenTurn, OpenRecord, RegistryOK, TurnIds
    <3> QED BY <2>1, <3>1 DEF OpenTurn, LocalsOK
  <2>2. ASSUME NEW t, GiveUp(p, t) PROVE LocalsOK'
    BY <2>2 DEF GiveUp, LocalsOK
  <2>3. CASE Return(p)
    BY <2>3 DEF Return, LocalsOK, Continuations
  <2> QED BY <1>2, <2>1, <2>2, <2>3, LocalsFrame
           DEF Admission, OpenRefused, Unreserve, CloseBeforeStart, DropTurn, ReleaseTurn
<1>3. CASE Opening(p)
  <2> USE DEF LocalsOK, Abort, Continuations
  <2>1. CASE ReuseBridge(p)
    BY <2>1 DEF ReuseBridge, TransportOK
  <2>2. CASE SpawnBridge(p)
    <3>1. fwdGen + 1 \in Folders
      BY <2>2, BoundsAssumption DEF SpawnBridge, TransportOK, Folders
    <3> QED BY <2>2, <3>1 DEF SpawnBridge
  <2>3. CASE OpenBridgeFails(p)
    BY <2>3 DEF OpenBridgeFails
  <2>4. CASE AcquireSlot(p)
    BY <2>4 DEF AcquireSlot
  <2> QED BY <1>3, <2>1, <2>2, <2>3, <2>4, LocalsFrame
           DEF Opening, StartOk, CheckRetired, CloseTurnsOnRetire
<1>4. CASE Settling(p)
  <2> USE DEF LocalsOK, Abort, Continuations
  <2>1. CASE StartRefused(p)
    BY <2>1 DEF StartRefused
  <2>2. CASE SettleParks(p)
    BY <2>2 DEF SettleParks, TransportOK
  <2>3. CASE AwaitTurn(p)
    BY <2>3 DEF AwaitTurn
  <2> QED BY <1>4, <2>1, <2>2, <2>3, LocalsFrame
           DEF Settling, StartTurn, ShellDone, SettleReached, SettleDefers, ReleaseSlot
<1>5. CASE Recovering(p)
  <2>1. CASE ReserveRetry(p)
    BY <2>1 DEF ReserveRetry, LocalsOK, Continuations
  <2> QED BY <1>5, <2>1, LocalsFrame
           DEF Recovering, Gate, SnapshotTurns, SweepTurn, StopBridge
<1>6. CASE Folding(p)
  BY <1>6, LocalsFrame DEF Folding, Observe, FoldContent, FoldMisses, OpenWireTurn,
     OpenWireRefused, BindPending,
     BindMisses, WireTurnEnd, ReviseTurnBinding, ReviseSkipped, SealPosition,
          RemoveIfBridge, ForwardEnds
<1> QED BY <1>1, <1>2, <1>3, <1>4, <1>5, <1>6 DEF Run

\* So do an answer and a dying ctx.
LEMMA LocalsEnvironment ==
    ASSUME TypeInv, Environment
    PROVE  LocalsOK'
<1> USE DEF TypeInv, TypeOK
<1>1. ASSUME NEW d \in Drivers, Respond(d) PROVE LocalsOK'
  BY <1>1 DEF Respond, LocalsOK, TransportOK, Callers
<1>2. ASSUME NEW d \in Callers, CtxDies(d) PROVE LocalsOK'
  BY <1>2 DEF CtxDies, LocalsOK
<1> QED BY <1>1, <1>2, LocalsFrame DEF Environment, ReservePrompt, ReserveShell,
         OpenAnyway, CallFails, RetireBridge, BridgeDies, ReadFrame

\* An empty chat is well typed.
LEMMA TypeInit == Init => TypeInv
<1> SUFFICES ASSUME Init PROVE TypeInv
  OBVIOUS
<1> USE BoundsAssumption DEF Init, NoTurn, NoBridge, Running, NoCloser, Free
<1>1. RegistryOK
  BY DEF RegistryOK, Sources
<1>2. TransportOK
  <2>1. queue \in [Folders -> Seq(FrameKinds)]
    OBVIOUS
  <2> QED BY <2>1 DEF TransportOK
<1>3. GoroutinesOK /\ CloserNamed /\ TargetNamed
  BY DEF GoroutinesOK, CloserNamed, TargetNamed, Labels, CallerLabels, FolderLabels
<1>4. LocalsOK
  BY DEF LocalsOK, Continuations
<1> QED BY <1>1, <1>2, <1>3, <1>4 DEF TypeInv, TypeOK

\* Stuttering keeps the types.
LEMMA TypeStutter == TypeInv /\ UNCHANGED vars => TypeInv'
<1> SUFFICES ASSUME TypeInv, UNCHANGED vars PROVE TypeInv'
  OBVIOUS
<1>1. GoroutinesInv'
  BY DEF vars, closing, TypeInv, TypeOK, GoroutinesInv, GoroutinesOK, CloserNamed,
     TargetNamed
<1> QED BY <1>1, RegistryFrame, TransportFrame, LocalsFrame
         DEF vars, TypeInv, TypeOK, GoroutinesInv

\* TypeInv is inductive.
LEMMA TypeStep == TypeInv /\ [Next]_vars => TypeInv'
<1> SUFFICES ASSUME TypeInv, [Next]_vars PROVE TypeInv'
  OBVIOUS
<1>1. CASE Environment
  BY <1>1, RegistryEnvironment, TransportEnvironment, GoroutinesEnvironment,
     LocalsEnvironment
     DEF TypeInv, TypeOK, GoroutinesInv
<1>2. ASSUME NEW p \in Threads, Run(p) PROVE TypeInv'
  BY <1>2, RegistryStep, TransportStep, GoroutinesStep, LocalsStep
     DEF TypeInv, TypeOK, GoroutinesInv
<1>3. CASE UNCHANGED vars
  BY <1>3, TypeStutter
<1> QED BY <1>1, <1>2, <1>3 DEF Next

\* Every reachable state of the lifecycle is well typed, for any number of goroutines,
\* turns, bridges and frames: no slot, snapshot or caller ever names a turn that was
\* never opened by the code (openLocked, openTurnIDs, finish).
THEOREM TypeCorrect == Spec => []TypeOK
<1>1. Spec => []TypeInv
  BY TypeInit, TypeStep, PTL DEF Spec
<1>2. TypeInv => TypeOK
  BY DEF TypeInv
<1> QED BY <1>1, <1>2, PTL

----------------------------------------------------------------------------
(***************************************************************************)
(* A turn is claimed, written closed and published once, whatever closers  *)
(* race for it, and the slots never point at a closed turn.  The inductive *)
(* invariant ClosingInv adds to the properties what makes them inductive:  *)
(* a record not opened yet is blank (Fresh), an unclaimed turn is unclosed *)
(* (Unclaimed), and a goroutine past its claim holds it (Owned).  With it, *)
(* every step of every goroutine is one step of TurnLedger, or none.       *)
(***************************************************************************)

\* A goroutine between its claim and its publication.
Working(p) == phase[p] \in {"effects", "publish"}

Fresh ==
    /\ own <= nextSeq /\ pending <= nextSeq
    /\ \A t \in TurnIds : t > nextSeq => ~finalizing[t] /\ ~acked[t]

Unclaimed ==
    \A t \in TurnIds : ~finalizing[t] => closes[t] = 0 /\ closedBy[t] = Running

Owned ==
    \A p \in Threads : Working(p) =>
        /\ finalizing[target[p]] /\ closedBy[target[p]] = Running
        /\ phase[p] = "effects" => closes[target[p]] = 0

CloseOnce == \A t \in TurnIds : closes[t] <= 1

\* What concerns the claims, and what concerns the slots.
ClaimInv == Unclaimed /\ Owned /\ CloseOnce /\ ClaimExclusive /\ ShutDoorHasCloser
SlotInv  == Fresh /\ ClosedHoldsNoSlot /\ IdleIsEmpty /\ PendingIsOwed
ClosingInv == TypeInv /\ ClaimInv /\ SlotInv

\* A step that touches neither the registry nor a goroutine past its claim.
Quiet ==
    /\ UNCHANGED <<slots, records, claims>>
    /\ \A p \in Threads : Working(p) \/ Working(p)' =>
           phase'[p] = phase[p] /\ target'[p] = target[p]

\* A quiet step keeps the invariant.
LEMMA QuietKeeps ==
    ASSUME ClosingInv, Quiet
    PROVE  ClaimInv' /\ SlotInv'
<1> USE DEF ClosingInv, Quiet, slots, records, claims
<1>1. \A p \in Threads, t \in TurnIds : AtWork(p, t)' <=> AtWork(p, t)
  BY DEF AtWork, Working
<1>2. Unclaimed' /\ CloseOnce'
  BY DEF Unclaimed, CloseOnce, ClaimInv
<1>3. Owned'
  BY DEF Owned, Working, ClaimInv
<1>4. ClaimExclusive'
  BY <1>1 DEF ClaimExclusive, ClaimInv
<1>5. ShutDoorHasCloser'
  BY <1>1 DEF ShutDoorHasCloser, ClaimInv, TypeInv, TypeOK, RegistryOK
<1>6. SlotInv'
  BY DEF SlotInv, Fresh, ClosedHoldsNoSlot, IdleIsEmpty, PendingIsOwed
<1> QED BY <1>2, <1>3, <1>4, <1>5, <1>6 DEF ClaimInv

\* A step that enters and leaves no finalizeTurn is quiet.
LEMMA QuietClosing ==
    ASSUME UNCHANGED <<slots, records, claims>>, UNCHANGED <<phase, target>>
    PROVE  Quiet
BY DEF Quiet, Working

\* Entering finalizeTurn is quiet: nothing is claimed yet.
LEMMA QuietFinalize ==
    ASSUME GoroutinesOK, UNCHANGED <<slots, records, claims>>,
           NEW p \in Threads, phase[p] = "none", NEW t, NEW c, Finalize(p, t, c)
    PROVE  Quiet
BY DEF Quiet, Working, Finalize, GoroutinesOK

\* Every goroutine step but nine is quiet.
LEMMA QuietSteps ==
    ASSUME TypeInv, NEW p \in Threads,
           \/ ClaimLost(p)
           \/ Admission(p) /\ ~OpenTurn(p)
           \/ Opening(p)
           \/ Settling(p) /\ ~StartTurn(p)
           \/ Recovering(p)
           \/ Folding(p) /\ ~OpenWireTurn(p) /\ ~BindPending(p) /\ ~ReviseTurnBinding(p)
    PROVE  Quiet
<1>0. GoroutinesOK
  BY DEF TypeInv, TypeOK
<1> USE DEF registry, closing, At, AtFrame
<1>1. CASE ClaimLost(p)
  BY <1>1, <1>0 DEF ClaimLost, EndFinalize, Quiet, Working, GoroutinesOK
<1>2. CASE Admission(p) /\ ~OpenTurn(p)
  BY <1>0, <1>2, QuietClosing, QuietFinalize
     DEF Admission, OpenRefused, Unreserve, CloseBeforeStart, DropTurn, ReleaseTurn,
          GiveUp, Return
<1>3. CASE Opening(p)
  BY <1>0, <1>3, QuietClosing, QuietFinalize
     DEF Opening, ReuseBridge, SpawnBridge, StartOk, CheckRetired, OpenBridgeFails,
          AcquireSlot, CloseTurnsOnRetire
<1>4. CASE Settling(p) /\ ~StartTurn(p)
  BY <1>0, <1>4, QuietClosing, QuietFinalize
     DEF Settling, StartRefused, ShellDone, SettleReached, SettleParks, SettleDefers,
          AwaitTurn, ReleaseSlot
<1>5. CASE Recovering(p)
  BY <1>0, <1>5, QuietClosing, QuietFinalize
     DEF Recovering, Gate, ReserveRetry, SnapshotTurns, SweepTurn, StopBridge
<1>6. CASE Folding(p) /\ ~OpenWireTurn(p) /\ ~BindPending(p) /\ ~ReviseTurnBinding(p)
  <2>1. CASE WireTurnEnd(p)
    BY <1>0, <2>1 DEF WireTurnEnd, Quiet, Working, GoroutinesOK
  <2> QED BY <1>0, <1>6, <2>1, QuietClosing, QuietFinalize
        DEF Folding, Observe, FoldContent, FoldMisses, OpenWireRefused, BindMisses,
            ReviseSkipped, SealPosition, RemoveIfBridge, ForwardEnds
<1> QED BY <1>1, <1>2, <1>3, <1>4, <1>5, <1>6

\* The environment is quiet: it only asks, answers, sends and fails.
LEMMA QuietEnvironment ==
    ASSUME TypeInv, Environment
    PROVE  Quiet
<1>0. GoroutinesOK
  BY DEF TypeInv, TypeOK
<1> USE DEF registry, closing, At
<1>1. ASSUME NEW d \in Drivers, CallFails(d) PROVE Quiet
  BY <1>0, <1>1, QuietFinalize DEF CallFails, Threads, Callers
<1> QED BY <1>1, QuietClosing
     DEF Environment, ReservePrompt, ReserveShell, OpenAnyway, Respond, CtxDies,
          RetireBridge, BridgeDies, ReadFrame

\* A claim taken on a live, unclaimed turn (claimLocked): nobody else is at work on
\* it, because whoever is at work on a turn holds its claim.
LEMMA ClaimStep ==
    ASSUME ClosingInv, NEW p \in Threads, NEW t \in TurnIds, Live(t), ~finalizing[t],
         DoorOpen,
           ~Working(p),
           phase' = [phase EXCEPT ![p] = "effects"],
           target' = [target EXCEPT ![p] = t],
           finalizing' = [finalizing EXCEPT ![t] = TRUE],
           state' = IF own = t THEN "finalizing" ELSE state,
           UNCHANGED <<own, pending, nextSeq, records, closedBy, closes>>
    PROVE  ClaimInv' /\ SlotInv'
<1> USE DEF ClosingInv, TypeInv, TypeOK
<1>0. /\ \A q \in Threads : q # p => phase'[q] = phase[q] /\ target'[q] = target[q]
      /\ phase'[p] = "effects" /\ target'[p] = t
  BY DEF GoroutinesOK
<1>1. \A q \in Threads : Working(q) => target[q] # t
  BY DEF ClaimInv, Owned
<1>2. \A q \in Threads, u \in TurnIds : AtWork(q, u)' <=> AtWork(q, u) \/ (q = p /\ u = t)
  BY <1>0 DEF AtWork, Working
<1>3. Unclaimed'
  BY DEF ClaimInv, Unclaimed, RegistryOK
<1>4. Owned'
  BY <1>0, <1>1 DEF ClaimInv, Owned, Unclaimed, Working, RegistryOK, TargetNamed
<1>5. CloseOnce'
  BY DEF ClaimInv, CloseOnce
<1>6. ClaimExclusive'
  <2>1. ASSUME NEW u \in TurnIds, finalizing'[u], closedBy'[u] = Running
        PROVE  \E q \in Threads : AtWork(q, u)'
    BY <1>2, <2>1 DEF ClaimInv, ClaimExclusive, RegistryOK
  <2>2. ASSUME NEW u \in TurnIds, NEW q \in Threads, NEW r \in Threads, AtWork(q, u)',
             AtWork(r, u)'
        PROVE  q = r
    BY <1>1, <1>2, <2>2 DEF ClaimInv, ClaimExclusive, AtWork, Working
  <2> QED BY <2>1, <2>2 DEF ClaimExclusive
<1>7. ShutDoorHasCloser'
  BY <1>2 DEF ClaimInv, ShutDoorHasCloser, DoorOpen, Live
<1>8. SlotInv'
  BY DEF SlotInv, Fresh, ClosedHoldsNoSlot, IdleIsEmpty, PendingIsOwed, records,
     RegistryOK, Live, NoTurn, TurnIds, DoorOpen
<1> QED BY <1>3, <1>4, <1>5, <1>6, <1>7, <1>8 DEF ClaimInv

\* The append of the turn_close: the claimant is alone, so no entry precedes it.
LEMMA CloseTurnStep ==
    ASSUME ClosingInv, NEW p \in Threads, CloseTurn(p)
    PROVE  ClaimInv' /\ SlotInv'
<1> USE DEF ClosingInv, TypeInv, TypeOK, CloseTurn, slots, records
<1> DEFINE t == target[p]
<1>0. /\ \A q \in Threads : q # p => phase'[q] = phase[q]
      /\ phase[p] = "effects" /\ phase'[p] = "publish"
      /\ UNCHANGED <<target, finalizing, closedBy>>
  BY DEF GoroutinesOK
<1>1. t \in TurnIds /\ finalizing[t] /\ closes[t] = 0
  BY DEF ClaimInv, Owned, Working, TargetNamed
<1>2. /\ \A u \in TurnIds : u # t => closes'[u] = closes[u]
      /\ closes'[t] \in {0, 1}
  BY <1>1 DEF RegistryOK
<1>3. \A q \in Threads, u \in TurnIds : AtWork(q, u)' <=> AtWork(q, u)
  BY <1>0 DEF AtWork
<1>4. Unclaimed' /\ CloseOnce'
  BY <1>0, <1>1, <1>2 DEF ClaimInv, Unclaimed, CloseOnce, RegistryOK
<1>5. Owned'
  <2>1. \A q \in Threads : Working(q) /\ q # p => target[q] # t
    BY <1>1, <1>0 DEF ClaimInv, ClaimExclusive, AtWork, Working
  <2> QED BY <1>0, <1>2, <2>1 DEF ClaimInv, Owned, Working, TargetNamed
<1>6. ClaimExclusive'
  BY <1>0, <1>3 DEF ClaimInv, ClaimExclusive
<1>7. ShutDoorHasCloser'
  BY <1>3 DEF ClaimInv, ShutDoorHasCloser, RegistryOK
<1>8. SlotInv'
  BY DEF SlotInv, Fresh, ClosedHoldsNoSlot, IdleIsEmpty, PendingIsOwed
<1> QED BY <1>4, <1>5, <1>6, <1>7, <1>8 DEF ClaimInv

\* The publication: the claimant leaves, the slots of its turn are cleared and the
\* doors open.
LEMMA FinishStep ==
    ASSUME ClosingInv, NEW p \in Threads, Finish(p)
    PROVE  ClaimInv' /\ SlotInv'
<1> USE DEF ClosingInv, TypeInv, TypeOK, Finish, EndFinalize, records
<1> DEFINE t == target[p]
<1>0. /\ \A q \in Threads : q # p => phase'[q] = phase[q] /\ target'[q] = target[q]
      /\ phase[p] = "publish" /\ phase'[p] = "none"
      /\ UNCHANGED <<finalizing, closes, nextSeq, source, acked>>
  BY DEF GoroutinesOK
<1>1. t \in TurnIds /\ finalizing[t] /\ AtWork(p, t)
  BY DEF ClaimInv, Owned, Working, TargetNamed, AtWork
<1>2. \A u \in TurnIds : u # t => closedBy'[u] = closedBy[u]
  BY DEF RegistryOK
<1>3. closedBy'[t] # Running
  BY <1>1 DEF RegistryOK, CloserNamed, Closers, Running
<1>4. \A q \in Threads, u \in TurnIds : AtWork(q, u)' <=> AtWork(q, u) /\ q # p
  BY <1>0 DEF AtWork
<1>5. \A q \in Threads : q # p => ~AtWork(q, t)
  BY <1>1 DEF ClaimInv, ClaimExclusive
<1>6. Unclaimed' /\ CloseOnce'
  BY <1>0, <1>1, <1>2 DEF ClaimInv, Unclaimed, CloseOnce
<1>7. Owned'
  BY <1>0, <1>2, <1>5 DEF ClaimInv, Owned, Working, AtWork, TargetNamed
<1>8. ClaimExclusive'
  <2>1. \A u \in TurnIds : u # t => ~AtWork(p, u)
    BY DEF AtWork
  <2> QED BY <1>0, <1>2, <1>3, <1>4, <2>1 DEF ClaimInv, ClaimExclusive
<1>9. ShutDoorHasCloser'
  BY DEF ShutDoorHasCloser, StateOf
<1>10. Fresh' /\ IdleIsEmpty' /\ PendingIsOwed'
  BY <1>0 DEF SlotInv, Fresh, IdleIsEmpty, PendingIsOwed, Cleared, StateOf, RegistryOK,
     NoTurn, TurnIds
<1>11. ClosedHoldsNoSlot'
  BY <1>1, <1>2 DEF SlotInv, ClosedHoldsNoSlot, Cleared, NoTurn, TurnIds
<1> QED BY <1>6, <1>7, <1>8, <1>9, <1>10, <1>11 DEF ClaimInv, SlotInv

\* A step that claims nothing and leaves the doors open, or as they are, keeps the
\* claims.
LEMMA ClaimFrame ==
    ASSUME ClosingInv, UNCHANGED <<claims, phase, target>>,
           state' = "open" \/ UNCHANGED <<own, state>>
    PROVE  ClaimInv'
<1> USE DEF ClosingInv, claims
<1>1. \A q \in Threads : \A u : AtWork(q, u)' <=> AtWork(q, u)
  BY DEF AtWork
<1>2. Unclaimed' /\ Owned' /\ CloseOnce' /\ ClaimExclusive'
  BY <1>1 DEF ClaimInv, Unclaimed, Owned, Working, CloseOnce, ClaimExclusive
<1>3. ShutDoorHasCloser'
  BY <1>1 DEF ClaimInv, ShutDoorHasCloser
<1> QED BY <1>2, <1>3 DEF ClaimInv

\* A caller opens a turn: its record is blank, so neither slot points at a closed
\* turn.
LEMMA OpenTurnStep ==
    ASSUME ClosingInv, NEW p \in Threads, OpenTurn(p)
    PROVE  ClaimInv' /\ SlotInv'
<1> USE DEF ClosingInv, TypeInv, TypeOK, OpenTurn, OpenRecord
<1> DEFINE t == nextSeq + 1
<1>1. t \in TurnIds /\ nextSeq \in Nat
  BY BoundsAssumption DEF RegistryOK, TurnIds
<1>2. ClaimInv'
  BY ClaimFrame DEF closing
<1>3. Fresh'
  BY <1>1 DEF SlotInv, Fresh, RegistryOK, NoTurn, TurnIds, claims
<1>4. ClosedHoldsNoSlot'
  BY <1>1 DEF SlotInv, ClaimInv, Fresh, Unclaimed, ClosedHoldsNoSlot, claims
<1>5. IdleIsEmpty'
  BY <1>1 DEF IdleIsEmpty, NoTurn
<1>6. PendingIsOwed'
  BY <1>1 DEF SlotInv, Fresh, PendingIsOwed, RegistryOK, NoTurn, TurnIds
<1> QED BY <1>2, <1>3, <1>4, <1>5, <1>6 DEF SlotInv

\* StartTurn moves a live, unclaimed turn into own.
LEMMA StartTurnStep ==
    ASSUME ClosingInv, NEW p \in Threads, StartTurn(p)
    PROVE  ClaimInv' /\ SlotInv'
<1> USE DEF ClosingInv, TypeInv, TypeOK, StartTurn, records, claims
<1>1. ClaimInv'
  BY ClaimFrame DEF closing
<1>2. turnOf[p] \in TurnIds /\ ~finalizing[turnOf[p]] /\ turnOf[p] # NoTurn /\
           turnOf[p] <= nextSeq
  BY DEF Claimable, Live, LocalsOK, SlotInv, Fresh
<1>3. SlotInv'
  BY <1>2 DEF SlotInv, ClaimInv, Fresh, Unclaimed, ClosedHoldsNoSlot, IdleIsEmpty,
     PendingIsOwed
<1> QED BY <1>1, <1>3

\* The agent opens a turn, bracketed from the start, and leaves pending alone.
LEMMA OpenWireTurnStep ==
    ASSUME ClosingInv, NEW p \in Threads, OpenWireTurn(p)
    PROVE  ClaimInv' /\ SlotInv'
<1> USE DEF ClosingInv, TypeInv, TypeOK, OpenWireTurn, OpenRecord
<1> DEFINE t == nextSeq + 1
<1>1. t \in TurnIds /\ nextSeq \in Nat
  BY BoundsAssumption DEF RegistryOK, TurnIds
<1>2. ClaimInv'
  BY ClaimFrame DEF closing
<1>3. Fresh'
  BY <1>1 DEF SlotInv, Fresh, RegistryOK, NoTurn, TurnIds, claims
<1>4. ClosedHoldsNoSlot'
  BY <1>1 DEF SlotInv, ClaimInv, Fresh, Unclaimed, ClosedHoldsNoSlot, claims
<1>5. IdleIsEmpty'
  BY <1>1 DEF IdleIsEmpty, NoTurn, PromptClass
<1>6. PendingIsOwed'
  BY <1>1 DEF SlotInv, Fresh, PendingIsOwed, RegistryOK, NoTurn, TurnIds
<1> QED BY <1>2, <1>3, <1>4, <1>5, <1>6 DEF SlotInv

\* A turn_start brackets the pending turn and empties the pending slot.
LEMMA BindPendingStep ==
    ASSUME ClosingInv, NEW p \in Threads, BindPending(p)
    PROVE  ClaimInv' /\ SlotInv'
<1> USE DEF ClosingInv, TypeInv, TypeOK, BindPending, Binds, claims
<1>1. ClaimInv'
  BY ClaimFrame DEF closing
<1>2. SlotInv'
  BY DEF SlotInv, ClaimInv, Fresh, Unclaimed, ClosedHoldsNoSlot, IdleIsEmpty,
     PendingIsOwed, RegistryOK, NoTurn, TurnIds
<1> QED BY <1>1, <1>2

\* A revision puts a prompt's live turn back into pending, owed its bracket again.
LEMMA ReviseStep ==
    ASSUME ClosingInv, NEW p \in Threads, ReviseTurnBinding(p)
    PROVE  ClaimInv' /\ SlotInv'
<1> USE DEF ClosingInv, TypeInv, TypeOK, ReviseTurnBinding, OpenRecord, Revisable, OwnLive
<1> DEFINE t == nextSeq + 1
<1>1. t \in TurnIds /\ nextSeq \in Nat /\ own \in TurnIds /\ own # t
  BY BoundsAssumption DEF RegistryOK, TurnIds, SlotInv, Fresh
<1>2. ClaimInv'
  BY ClaimFrame DEF closing
<1>3. Fresh'
  BY <1>1 DEF SlotInv, Fresh, RegistryOK, NoTurn, TurnIds, claims, PromptClass
<1>4. ClosedHoldsNoSlot'
  BY <1>1 DEF SlotInv, ClaimInv, Fresh, Unclaimed, ClosedHoldsNoSlot, claims, PromptClass
<1>5. IdleIsEmpty'
  BY <1>1 DEF IdleIsEmpty, NoTurn
<1>6. PendingIsOwed'
  BY <1>1 DEF PendingIsOwed, RegistryOK
<1> QED BY <1>2, <1>3, <1>4, <1>5, <1>6 DEF SlotInv

\* claimTurn is a claim.
LEMMA ClaimTurnStep ==
    ASSUME ClosingInv, NEW p \in Threads, ClaimTurn(p)
    PROVE  ClaimInv' /\ SlotInv'
<1>1. target' = [target EXCEPT ![p] = target[p]]
  BY DEF ClaimTurn, ClosingInv, TypeInv, TypeOK, GoroutinesOK
<1>2. target[p] \in TurnIds
  BY DEF ClaimTurn, Claimable, Live, ClosingInv, TypeInv, TypeOK, RegistryOK
<1> QED BY <1>1, <1>2, ClaimStep DEF ClaimTurn, Claimable, Working

\* claimOwn is a claim, of the chat's own turn.
LEMMA ClaimOwnStep ==
    ASSUME ClosingInv, NEW p \in Threads, ClaimOwn(p)
    PROVE  ClaimInv' /\ SlotInv'
<1>1. own \in TurnIds /\ Live(own)
  BY DEF ClaimOwn, OwnLive, Live, ClosingInv, TypeInv, TypeOK, RegistryOK
<1> QED BY <1>1, ClaimStep DEF ClaimOwn, OwnLive, Working

\* An empty chat satisfies the invariant.
LEMMA ClosingInit == Init => ClosingInv
<1> SUFFICES ASSUME Init PROVE ClosingInv
  OBVIOUS
<1>1. ClaimInv
  BY DEF Init, ClaimInv, Unclaimed, Owned, Working, CloseOnce, ClaimExclusive, AtWork,
     ShutDoorHasCloser
<1>2. SlotInv
  BY DEF Init, SlotInv, Fresh, ClosedHoldsNoSlot, IdleIsEmpty, PendingIsOwed, NoTurn
<1> QED BY <1>1, <1>2, TypeInit DEF ClosingInv

\* ClosingInv is inductive.
LEMMA ClosingStep == ClosingInv /\ [Next]_vars => ClosingInv'
<1> SUFFICES ASSUME ClosingInv, [Next]_vars PROVE ClosingInv'
  OBVIOUS
<1>1. TypeInv'
  BY TypeStep DEF ClosingInv
<1>2. ASSUME Quiet PROVE ClosingInv'
  BY <1>1, <1>2, QuietKeeps DEF ClosingInv
<1>3. CASE UNCHANGED vars
  BY <1>2, <1>3, QuietClosing DEF vars, registry, closing
<1>4. CASE Environment
  BY <1>2, <1>4, QuietEnvironment DEF ClosingInv
<1>5. ASSUME NEW p \in Threads, Run(p) PROVE ClosingInv'
  <2>1. CASE ClaimTurn(p) \/ ClaimOwn(p) \/ CloseTurn(p) \/ Finish(p)
    BY <1>1, <2>1, ClaimTurnStep, ClaimOwnStep, CloseTurnStep, FinishStep DEF ClosingInv
  <2>2. CASE OpenTurn(p) \/ StartTurn(p) \/ OpenWireTurn(p) \/ BindPending(p) \/
             ReviseTurnBinding(p)
    BY <1>1, <2>2, OpenTurnStep, StartTurnStep, OpenWireTurnStep, BindPendingStep,
       ReviseStep DEF ClosingInv
  <2> QED BY <1>2, <1>5, <2>1, <2>2, QuietSteps DEF ClosingInv, Run, Finalizing
<1> QED BY <1>3, <1>4, <1>5 DEF Next

\* The inductive invariant holds throughout, for any number of goroutines, turns and
\* bridges: claims, closes and slots agree with the goroutines at work
\* (finalizeTurn).
THEOREM ClosingInvariant == Spec => []ClosingInv
BY ClosingInit, ClosingStep, PTL DEF Spec

\* Closers racing for one turn produce one set of effects: a claimed turn has exactly
\* one goroutine at work on it until its result is published (claimLocked, finish).
THEOREM ClaimIsExclusive == Spec => []ClaimExclusive
<1>1. ClosingInv => ClaimExclusive
  BY DEF ClosingInv, ClaimInv
<1> QED BY <1>1, ClosingInvariant, PTL

\* The log never holds two turn_close entries of a turn, nor one of a turn nobody
\* claimed (closeTurn).
THEOREM ClosesOnce == Spec => []ClosedAtMostOnce
<1>1. ClosingInv => ClosedAtMostOnce
  BY DEF ClosingInv, ClaimInv, CloseOnce, Unclaimed, ClosedAtMostOnce
<1> QED BY <1>1, ClosingInvariant, PTL

\* Shut doors have somebody behind them: whenever the chat is finalizing, a goroutine
\* is closing its own turn (claimLocked, finish).
THEOREM DoorsHaveClosers == Spec => []ShutDoorHasCloser
<1>1. ClosingInv => ShutDoorHasCloser
  BY DEF ClosingInv, ClaimInv
<1> QED BY <1>1, ClosingInvariant, PTL

\* The slots point at open turns only, idle means empty, and what is pending is owed
\* a bracket (finish, StartTurn, bindPending, reviseLocked).
THEOREM SlotsHoldOpenTurns == Spec => [](ClosedHoldsNoSlot /\ IdleIsEmpty /\ PendingIsOwed)
<1>1. ClosingInv => ClosedHoldsNoSlot /\ IdleIsEmpty /\ PendingIsOwed
  BY DEF ClosingInv, SlotInv
<1> QED BY <1>1, ClosingInvariant, PTL

-----------------------------------------------------------------------------
(* TurnLifecycle implements TurnLedger under the mapping Ledger.  Claims   *)
(* and publications map to the ledger's only because ClosingInv holds.     *)

\* A step that opens, claims, appends and publishes nothing is a stutter of the
\* ledger.
LEMMA LedgerFrame ==
    ASSUME UNCHANGED <<nextSeq, claims>>
    PROVE  UNCHANGED Ledger!vars
BY DEF claims, Ledger!vars

\* openLocked is the ledger's Open.
LEMMA LedgerOpen ==
    ASSUME ClosingInv, NEW src, NEW pend, OpenRecord(src, pend), UNCHANGED claims
    PROVE  Ledger!Next
BY DEF OpenRecord, claims, Ledger!Next, Ledger!Open

\* A claim on a live, unclaimed turn is the ledger's Claim: the turn was opened.
LEMMA LedgerClaim ==
    ASSUME ClosingInv, NEW t \in TurnIds, Live(t), ~finalizing[t],
           finalizing' = [finalizing EXCEPT ![t] = TRUE],
           UNCHANGED <<nextSeq, closedBy, closes>>
    PROVE  Ledger!Next
<1>1. t \in 1..nextSeq
  BY DEF Live, ClosingInv, SlotInv, Fresh, TypeInv, TypeOK, RegistryOK, TurnIds, NoTurn
<1>2. {u \in TurnIds : finalizing'[u]} = {u \in TurnIds : finalizing[u]} \cup {t}
  BY DEF ClosingInv, TypeInv, TypeOK, RegistryOK
<1> QED BY <1>1, <1>2 DEF Ledger!Next, Ledger!Claim, Ledger!Turns, TurnIds

\* closeTurn is the ledger's Append, or a stutter when the append fails.
LEMMA LedgerAppend ==
    ASSUME ClosingInv, NEW p \in Threads, CloseTurn(p)
    PROVE  Ledger!Next \/ UNCHANGED Ledger!vars
<1>1. target[p] \in TurnIds /\ finalizing[target[p]] /\ closes[target[p]] = 0 /\
           closedBy[target[p]] = Running
  BY DEF CloseTurn, ClosingInv, ClaimInv, Owned, Working, TypeInv, TargetNamed
<1>2. CASE UNCHANGED closes
  BY <1>2 DEF CloseTurn, Ledger!vars, slots
<1>3. CASE closes' = [closes EXCEPT ![target[p]] = @ + 1]
  <2>1. closes' = [closes EXCEPT ![target[p]] = 1]
    BY <1>1, <1>3 DEF ClosingInv, TypeInv, TypeOK, RegistryOK
  <2> QED BY <1>1, <2>1 DEF CloseTurn, slots, Ledger!Next, Ledger!Append, Ledger!Turns,
           TurnIds
<1> QED BY <1>2, <1>3 DEF CloseTurn

\* finish is the ledger's Publish.
LEMMA LedgerPublish ==
    ASSUME ClosingInv, NEW p \in Threads, Finish(p)
    PROVE  Ledger!Next
<1>1. target[p] \in TurnIds /\ finalizing[target[p]] /\ closedBy[target[p]] = Running
  BY DEF Finish, ClosingInv, ClaimInv, Owned, Working, TypeInv, TargetNamed
<1>2. closer[p] \in Closers
  BY DEF Finish, ClosingInv, TypeInv, CloserNamed
<1> QED BY <1>1, <1>2 DEF Finish, Ledger!Next, Ledger!Publish, Ledger!Turns, TurnIds

\* An empty chat is an empty ledger.
LEMMA LedgerInit == Init => Ledger!Init
BY DEF Init, Ledger!Init, Ledger!Turns, TurnIds

\* Every step is a step of the ledger, or a stutter.
LEMMA LedgerStep == ClosingInv /\ [Next]_vars => [Ledger!Next]_(Ledger!vars)
<1> SUFFICES ASSUME ClosingInv, [Next]_vars PROVE Ledger!Next \/ UNCHANGED Ledger!vars
  OBVIOUS
<1>1. CASE Quiet
  BY <1>1, LedgerFrame DEF Quiet, slots
<1>2. CASE UNCHANGED vars
  BY <1>1, <1>2, QuietClosing DEF vars, registry, closing
<1>3. CASE Environment
  BY <1>1, <1>3, QuietEnvironment DEF ClosingInv
<1>4. ASSUME NEW p \in Threads, Run(p) PROVE Ledger!Next \/ UNCHANGED Ledger!vars
  <2>1. CASE ClaimTurn(p)
    BY <2>1, LedgerClaim DEF ClaimTurn, Claimable, Live, ClosingInv, TypeInv, TypeOK,
       RegistryOK
  <2>2. CASE ClaimOwn(p)
    BY <2>2, LedgerClaim DEF ClaimOwn, OwnLive, Live, ClosingInv, TypeInv, TypeOK,
       RegistryOK
  <2>3. CASE CloseTurn(p) \/ Finish(p)
    BY <2>3, LedgerAppend, LedgerPublish
  <2>4. CASE OpenTurn(p) \/ OpenWireTurn(p) \/ ReviseTurnBinding(p)
    BY <2>4, LedgerOpen DEF OpenTurn, OpenWireTurn, ReviseTurnBinding
  <2>5. CASE StartTurn(p) \/ BindPending(p)
    BY <2>5, LedgerFrame DEF StartTurn, BindPending
  <2> QED BY <1>1, <1>4, <2>1, <2>2, <2>3, <2>4, <2>5, QuietSteps
           DEF ClosingInv, Run, Finalizing
<1> QED BY <1>2, <1>3, <1>4 DEF Next

\* The goroutines, slots and doors of the lifecycle implement the ledger: turns open
\* in sequence, each is claimed once, closed at most once and published once, and no
\* result changes afterwards (openLocked, claimLocked, closeTurn, finish).
THEOREM Refinement == Spec => ImplementsLedger
BY LedgerInit, LedgerStep, ClosingInvariant, PTL DEF Spec, ImplementsLedger, Ledger!Spec

----------------------------------------------------------------------------
(***************************************************************************)
(* The admission slot admits one prompt or shell at a time, and every path *)
(* out of a prompt gives it back.  AdmissionExclusive is inductive once it *)
(* knows that an idle caller is no retry: a retry is admitted under its    *)
(* own source.                                                             *)
(***************************************************************************)

IdleIsFirst == \A p \in Callers : pc[p] = "idle" => ~retrying[p]

AdmissionInv == TypeInv /\ AdmissionExclusive /\ IdleIsFirst

\* A step that admits nobody and lets nobody go.
Kept ==
    /\ UNCHANGED <<reserved, retrying>>
    /\ \A p \in Callers : (Holder(p)' <=> Holder(p)) /\ (pc'[p] = "idle" => pc[p] = "idle")

\* A step that admits nobody and lets nobody go keeps the exclusion.
LEMMA KeptKeeps ==
    ASSUME AdmissionInv, Kept
    PROVE  AdmissionExclusive' /\ IdleIsFirst'
<1>1. \A p \in Callers : SourceOf(p)' = SourceOf(p)
  BY DEF Kept, SourceOf
<1>2. AdmissionExclusive'
  BY <1>1 DEF AdmissionInv, AdmissionExclusive, Kept
<1> QED BY <1>2 DEF AdmissionInv, IdleIsFirst, Kept

\* A step inside finalizeTurn, or of the environment, moves nobody.
LEMMA KeptPc ==
    ASSUME UNCHANGED <<reserved, retrying, pc>>
    PROVE  Kept
BY DEF Kept, Holder

\* A move that does not cross the boundary of the admission keeps it.
LEMMA KeptGoto ==
    ASSUME GoroutinesOK, NEW p \in Threads, NEW l, Goto(p, l), UNCHANGED <<reserved,
         retrying>>,
           p \in Callers => (pc[p] \in Holding <=> l \in Holding),
           p \in Callers => l # "idle"
    PROVE  Kept
<1>1. \A q \in Callers : pc'[q] = IF q = p THEN l ELSE pc[q]
  BY DEF Goto, GoroutinesOK, Threads
<1> QED BY <1>1 DEF Kept, Holder

\* The three ways a label changes: inside the admission, outside it, and for a
\* goroutine that is no caller.
LEMMA KeptInside ==
    ASSUME GoroutinesOK, NEW p \in Threads, NEW l \in Holding, Goto(p, l),
         pc[p] \in Holding,
           UNCHANGED <<reserved, retrying>>
    PROVE  Kept
<1>1. l # "idle"
  BY DEF Holding
<1> QED BY <1>1, KeptGoto

\* A move outside it, that does not return the goroutine.
LEMMA KeptOutside ==
    ASSUME GoroutinesOK, NEW p \in Threads, NEW l, l \notin Holding, l # "idle", Goto(p, l),
           pc[p] \notin Holding, UNCHANGED <<reserved, retrying>>
    PROVE  Kept
BY KeptGoto

\* A move of a goroutine that is no caller.
LEMMA KeptOther ==
    ASSUME GoroutinesOK, NEW p \in Threads, p \notin Callers, NEW l, Goto(p, l),
           UNCHANGED <<reserved, retrying>>
    PROVE  Kept
BY KeptGoto

\* A caller is no opener, retirer or folder, and a driver is no shell.
LEMMA CallersApart ==
    /\ \A p \in Callers : p \notin Openers /\ p \notin Retirers /\ p \notin Folders
    /\ \A p \in Drivers : p \in Callers /\ p \notin Shells
BY ThreadsAssumption DEF Callers

\* Opening, closing and dropping a turn happen inside the admission or outside it.
LEMMA KeptAdmission ==
    ASSUME GoroutinesOK, NEW p \in Threads, Admission(p), ~Unreserve(p), ~Return(p)
    PROVE  Kept
<1> USE DEF At, Holding, locals
<1>1. CASE OpenTurn(p) \/ OpenRefused(p)
  BY <1>1, KeptInside DEF OpenTurn, OpenRefused
<1>2. CASE CloseBeforeStart(p)
  BY <1>2, KeptOutside DEF CloseBeforeStart
<1>3. CASE DropTurn(p)
  BY <1>3, KeptInside DEF DropTurn, GiveUp
<1>4. CASE ReleaseTurn(p)
  BY <1>4, KeptPc DEF ReleaseTurn, GiveUp
<1> QED BY <1>1, <1>2, <1>3, <1>4 DEF Admission

\* OpenBridge happens inside the admission of the prompt that runs it; the other
\* callers of OpenBridge hold none.
LEMMA KeptOpening ==
    ASSUME TypeInv, NEW p \in Threads, Opening(p)
    PROVE  Kept
<1>0. GoroutinesOK
  BY DEF TypeInv, TypeOK
<1> USE <1>0 DEF At, Holding, locals
<1>1. CASE SpawnBridge(p)
  <2>1. fwdGen + 1 \in Folders
    BY <1>1, BoundsAssumption DEF SpawnBridge, Folders, TypeInv, TypeOK, TransportOK
  <2>2. \A q \in Callers : pc'[q] = IF q = p THEN "starting" ELSE pc[q]
    BY <1>1, <2>1, CallersApart DEF SpawnBridge, GoroutinesOK, Threads
  <2>3. UNCHANGED <<reserved, retrying>> /\ pc[p] = "spawn"
    BY <1>1 DEF SpawnBridge
  <2> QED BY <2>2, <2>3 DEF Kept, Holder
<1>2. CASE ReuseBridge(p) \/ StartOk(p)
  BY <1>2, KeptInside DEF ReuseBridge, StartOk
<1>3. CASE CheckRetired(p)
  <2>1. CASE p \in Callers
    BY <1>3, <2>1, KeptInside, CallersApart DEF CheckRetired
  <2>2. CASE p \notin Callers
    BY <1>3, <2>2, KeptOther DEF CheckRetired
  <2> QED BY <2>1, <2>2
<1>4. CASE OpenBridgeFails(p)
  <2>1. CASE p \in Callers
    <3>1. Goto(p, "unreserve") /\ pc[p] \in {"spawn", "starting"} /\ UNCHANGED <<reserved,
               retrying>>
      BY <1>4, <2>1, CallersApart DEF OpenBridgeFails
    <3> QED BY <3>1, KeptInside
  <2>2. CASE p \notin Callers
    BY <1>4, <2>2, KeptOther DEF OpenBridgeFails
  <2> QED BY <2>1, <2>2
<1>5. CASE AcquireSlot(p)
  <2>1. \E l \in {"open", "start", "unreserve"} : Goto(p, l)
    BY <1>5 DEF AcquireSlot
  <2> QED BY <1>5, <2>1, KeptInside DEF AcquireSlot
<1>6. CASE CloseTurnsOnRetire(p)
  <2>1. CASE p \in Callers
    BY <1>6, <2>1, KeptInside, CallersApart DEF CloseTurnsOnRetire
  <2>2. CASE p \notin Callers
    BY <1>6, <2>2, KeptOther DEF CloseTurnsOnRetire
  <2> QED BY <2>1, <2>2
<1> QED BY <1>1, <1>2, <1>3, <1>4, <1>5, <1>6 DEF Opening

\* So do the call and its settle.
LEMMA KeptSettling ==
    ASSUME GoroutinesOK, NEW p \in Threads, Settling(p)
    PROVE  Kept
<1> USE KeptInside DEF At, Holding, locals
<1>1. CASE StartTurn(p) \/ ShellDone(p) \/ SettleParks(p) \/ ReleaseSlot(p)
  BY <1>1 DEF StartTurn, ShellDone, SettleParks, ReleaseSlot
<1>2. CASE StartRefused(p)
  <2>1. \E l \in {"unslot", "drop"} : Goto(p, l)
    BY <1>2 DEF StartRefused
  <2> QED BY <1>2, <2>1 DEF StartRefused
<1>3. CASE SettleReached(p) \/ SettleDefers(p)
  <2>1. pc[p] \in {"settle", "parked"} /\ UNCHANGED <<reserved, retrying>>
    BY <1>3 DEF SettleReached, SettleDefers
  <2>2. \E l \in {"await", "drop"} : Goto(p, l)
    BY <1>3 DEF SettleReached, SettleDefers, AfterSettle
  <2> QED BY <2>1, <2>2
<1>4. CASE AwaitTurn(p)
  BY <1>4 DEF AwaitTurn
<1> QED BY <1>1, <1>2, <1>3, <1>4 DEF Settling

\* The recovery's gate is outside the admission, its sweep inside the retry's.
LEMMA KeptRecovering ==
    ASSUME GoroutinesOK, NEW p \in Threads, Recovering(p), ~ReserveRetry(p)
    PROVE  Kept
<1> USE DEF At, Holding, locals
<1>1. CASE Gate(p)
  <2>1. \E l \in {"rereserve", "release"} : Goto(p, l)
    BY <1>1 DEF Gate
  <2> QED BY <1>1, <2>1, KeptOutside DEF Gate
<1>2. CASE SnapshotTurns(p) \/ StopBridge(p)
  BY <1>2, KeptInside DEF SnapshotTurns, StopBridge
<1>3. CASE SweepTurn(p)
  BY <1>3, KeptPc DEF SweepTurn
<1> QED BY <1>1, <1>2, <1>3 DEF Recovering

\* A folder never touches the admission slot.
LEMMA KeptFolding ==
    ASSUME GoroutinesOK, NEW p \in Threads, Folding(p)
    PROVE  Kept
<1>1. p \notin Callers
  BY CallersApart DEF Folding, AtFrame, Observe, FoldContent, FoldMisses, OpenWireTurn,
     OpenWireRefused, BindPending,
     BindMisses, WireTurnEnd, ReviseTurnBinding, ReviseSkipped, SealPosition,
          RemoveIfBridge, ForwardEnds
<1> QED BY <1>1, KeptOther
     DEF Folding, Consume, locals, Observe, FoldContent, FoldMisses, OpenWireTurn,
          OpenWireRefused, BindPending,
         BindMisses, WireTurnEnd, ReviseTurnBinding, ReviseSkipped, SealPosition,
              RemoveIfBridge, ForwardEnds

\* Only three goroutine steps touch the admission: the release, the return and the
\* retry's try.
LEMMA KeptSteps ==
    ASSUME AdmissionInv, NEW p \in Threads,
           Run(p), ~Unreserve(p), ~Return(p), ~ReserveRetry(p)
    PROVE  Kept
<1>0. TypeInv /\ GoroutinesOK
  BY DEF AdmissionInv, TypeInv, TypeOK
<1>1. CASE Finalizing(p)
  BY <1>1, KeptPc DEF Finalizing, ClaimTurn, ClaimOwn, ClaimLost, CloseTurn, Finish, locals
<1> QED BY <1>0, <1>1, KeptAdmission, KeptOpening, KeptSettling, KeptRecovering,
         KeptFolding DEF Run

\* Taking the slot, for a first prompt, a shell or a retry.
LEMMA AdmitStep ==
    ASSUME AdmissionInv, NEW p \in Callers, reserved = Free,
           pc[p] \notin Holding, NEW l \in Holding, Goto(p, l),
           \A q \in Callers : q # p => retrying'[q] = retrying[q],
           reserved' = SourceOf(p)'
    PROVE  AdmissionExclusive' /\ IdleIsFirst'
<1> USE DEF AdmissionInv
<1>1. \A q \in Callers : pc'[q] = IF q = p THEN l ELSE pc[q]
  BY DEF TypeInv, TypeOK, GoroutinesOK, Goto, Threads
<1>2. \A q \in Callers : ~Holder(q)
  <2>1. ASSUME NEW q \in Callers PROVE SourceOf(q) # Free
    BY DEF SourceOf, Free
  <2> QED BY <2>1 DEF AdmissionExclusive
<1>3. \A q \in Callers : Holder(q)' <=> q = p
  BY <1>1, <1>2 DEF Holder
<1>4. AdmissionExclusive'
  BY <1>3 DEF AdmissionExclusive
<1>5. IdleIsFirst'
  BY <1>1 DEF IdleIsFirst, Holding
<1> QED BY <1>4, <1>5

\* Giving it back.
LEMMA UnreserveStep ==
    ASSUME AdmissionInv, NEW p \in Threads, Unreserve(p)
    PROVE  AdmissionExclusive' /\ IdleIsFirst'
<1> USE DEF AdmissionInv, Unreserve, At, TypeInv, TypeOK
<1>1. then[p] \in {"close", "gate", "release"}
  BY DEF LocalsOK, Continuations
<1>2. \A q \in Callers : pc'[q] = IF q = p THEN then[p] ELSE pc[q]
  BY DEF GoroutinesOK, Goto, Threads
<1>3. \A q \in Callers : Holder(q) => q = p
  BY DEF AdmissionExclusive, Holder, Holding
<1>4. \A q \in Callers : ~Holder(q)'
  BY <1>1, <1>2, <1>3 DEF Holder, Holding
<1>5. AdmissionExclusive'
  BY <1>4 DEF AdmissionExclusive
<1>6. IdleIsFirst'
  BY <1>1, <1>2 DEF IdleIsFirst, locals
<1> QED BY <1>5, <1>6

\* A caller that returns holds nothing and is no retry any more.
LEMMA ReturnStep ==
    ASSUME AdmissionInv, NEW p \in Threads, Return(p)
    PROVE  AdmissionExclusive' /\ IdleIsFirst'
<1> USE DEF AdmissionInv, Return, At, TypeInv, TypeOK
<1>1. \A q \in Callers : /\ pc'[q] = IF q = p THEN "idle" ELSE pc[q]
                         /\ retrying'[q] = IF q = p THEN FALSE ELSE retrying[q]
  BY DEF GoroutinesOK, LocalsOK, Goto, Threads
<1>2. ~Holder(p) /\ \A q \in Callers : Holder(q)' <=> Holder(q)
  BY <1>1 DEF Holder, Holding
<1>3. \A q \in Callers : Holder(q) => SourceOf(q)' = SourceOf(q)
  BY <1>1, <1>2 DEF SourceOf
<1>4. AdmissionExclusive'
  BY <1>2, <1>3 DEF AdmissionExclusive
<1>5. IdleIsFirst'
  BY <1>1 DEF IdleIsFirst
<1> QED BY <1>4, <1>5

\* The retry's try takes a free slot or leaves a held one.
LEMMA ReserveRetryStep ==
    ASSUME AdmissionInv, NEW p \in Threads, ReserveRetry(p)
    PROVE  AdmissionExclusive' /\ IdleIsFirst'
<1> USE DEF AdmissionInv, ReserveRetry, At
<1>1. CASE reserved = Free
  <2>1. \A q \in Callers : retrying'[q] = IF q = p THEN TRUE ELSE retrying[q]
    BY <1>1 DEF TypeInv, TypeOK, LocalsOK
  <2>2. reserved' = SourceOf(p)'
    BY <1>1, <2>1, CallersApart DEF Reserve, SourceOf
  <2> QED BY <1>1, <2>1, <2>2, AdmitStep, CallersApart DEF Holding
<1>2. CASE reserved # Free
  <2>1. Kept
    BY <1>2, KeptGoto DEF TypeInv, TypeOK, Holding
  <2> QED BY <2>1, KeptKeeps
<1> QED BY <1>1, <1>2

\* A prompt or a shell is admitted through a free slot; nothing else admits.
LEMMA EnvironmentStep ==
    ASSUME AdmissionInv, Environment
    PROVE  AdmissionExclusive' /\ IdleIsFirst'
<1>0. GoroutinesOK
  BY DEF AdmissionInv, TypeInv, TypeOK
<1> USE DEF At, Holding
<1>1. ASSUME NEW p \in Threads, ReservePrompt(p) \/ ReserveShell(p)
      PROVE  AdmissionExclusive' /\ IdleIsFirst'
  <2>1. p \in Callers /\ reserved = Free /\ UNCHANGED retrying
    BY <1>1 DEF ReservePrompt, ReserveShell, Reserve, Callers, locals
  <2>2. reserved' = SourceOf(p)'
    BY <1>1, <2>1, CallersApart DEF ReservePrompt, ReserveShell, Reserve, SourceOf,
       AdmissionInv, IdleIsFirst
  <2> QED BY <1>1, <2>1, <2>2, AdmitStep DEF ReservePrompt, ReserveShell
<1>2. ASSUME NEW d \in Drivers, Respond(d) \/ CallFails(d) PROVE Kept
  <2>1. d \in Threads /\ pc[d] = "call" /\ UNCHANGED <<reserved, retrying>>
    BY <1>2 DEF Respond, CallFails, locals, Threads, Callers
  <2>2. \E l \in {"settle", "drop", "unslot"} : Goto(d, l)
    BY <1>2 DEF Respond, CallFails
  <2> QED BY <1>0, <2>1, <2>2, KeptInside
<1>3. ASSUME NEW p \in Threads, OpenAnyway(p) PROVE Kept
  BY <1>0, <1>3, KeptGoto, CallersApart DEF OpenAnyway, locals
<1>4. ASSUME NEW r \in Retirers, RetireBridge(r) PROVE Kept
  BY <1>0, <1>4, KeptGoto, KeptPc, CallersApart DEF RetireBridge, locals, Threads
<1> QED BY <1>1, <1>2, <1>3, <1>4, KeptPc, KeptKeeps
         DEF Environment, CtxDies, BridgeDies, ReadFrame, locals

\* Nobody holds the admission of an empty chat.
LEMMA AdmissionInit == Init => AdmissionInv
<1> SUFFICES ASSUME Init PROVE AdmissionInv
  OBVIOUS
<1>1. \A p \in Callers : ~Holder(p)
  BY CallersApart DEF Init, Holder, Holding, Threads
<1> QED BY <1>1, TypeInit DEF Init, AdmissionInv, AdmissionExclusive, IdleIsFirst

\* AdmissionInv is inductive.
LEMMA AdmissionStep == AdmissionInv /\ [Next]_vars => AdmissionInv'
<1> SUFFICES ASSUME AdmissionInv, [Next]_vars PROVE AdmissionInv'
  OBVIOUS
<1>1. TypeInv'
  BY TypeStep DEF AdmissionInv
<1>2. CASE UNCHANGED vars
  BY <1>1, <1>2, KeptPc, KeptKeeps DEF vars, locals, AdmissionInv
<1>3. CASE Environment
  BY <1>1, <1>3, EnvironmentStep DEF AdmissionInv
<1>4. ASSUME NEW p \in Threads, Run(p) PROVE AdmissionInv'
  BY <1>1, <1>4, KeptSteps, KeptKeeps, UnreserveStep, ReturnStep, ReserveRetryStep
     DEF AdmissionInv
<1> QED BY <1>2, <1>3, <1>4 DEF Next

\* One prompt, shell or retry at a time holds a chat's admission slot, the slot names
\* its source, and no path out of a prompt keeps it, for any number of callers, turns
\* and bridges (reserveLocked, releaseReservation).
THEOREM AdmissionIsExclusive == Spec => []AdmissionExclusive
<1>1. AdmissionInv => AdmissionExclusive
  BY DEF AdmissionInv
<1> QED BY <1>1, AdmissionInit, AdmissionStep, PTL DEF Spec

----------------------------------------------------------------------------
(***************************************************************************)
(* The registry keeps every turn of the log, but for the one a revision    *)
(* overwrites, and every record somebody reads, without exception: both of *)
(* every agent, whatever it brackets.                                      *)
(*                                                                         *)
(* A handle is lost when its caller gives it up on a turn the registry     *)
(* does not know: the count stays at one.  A closer that then published    *)
(* the turn would retain its record for ever.  None does, because whoever  *)
(* is still at work on an overwritten turn is the caller that holds its    *)
(* handle (WorkerInv): a prompt pending behind another one's bracketed     *)
(* turn is in no sweep that has not come to that turn first (BehindInv).   *)
(*                                                                         *)
(* RetainInv adds to ClosingInv these two, where a caller's own handle is  *)
(* (RouteInv), and the count (HandleInv).                                  *)
(***************************************************************************)

\* What takes a turn out of both slots: its publication, or a revision that found it
\* pending behind another.
LEMMA LosingStep ==
    ASSUME ClosingInv, [Next]_vars, NEW t \in TurnIds, Live(t), ~Live(t)'
    PROVE  \/ closedBy'[t] # Running
           \/ \E g \in Folders : ReviseTurnBinding(g) /\ pending = t /\ own # t
<1> USE DEF ClosingInv, TypeInv, TypeOK
<1>1. ASSUME Quiet PROVE FALSE
  BY <1>1 DEF Quiet, slots, Live
<1>2. CASE UNCHANGED vars
  BY <1>1, <1>2, QuietClosing DEF vars, registry, closing
<1>3. CASE Environment
  BY <1>1, <1>3, QuietEnvironment
<1>4. ASSUME NEW p \in Threads, ClaimTurn(p) \/ ClaimOwn(p) \/ CloseTurn(p) PROVE FALSE
  BY <1>4 DEF ClaimTurn, ClaimOwn, CloseTurn, slots, Live
<1>5. ASSUME NEW p \in Threads, Finish(p) PROVE closedBy'[t] # Running
  <2>1. t = target[p]
    BY <1>5 DEF Finish, Cleared, Live
  <2> QED BY <1>5, <2>1 DEF Finish, CloserNamed, Closers, Running, RegistryOK
<1>6. ASSUME NEW p \in Threads, OpenTurn(p) \/ OpenWireTurn(p) \/ StartTurn(p) PROVE FALSE
  BY <1>6 DEF OpenTurn, OpenWireTurn, OpenRecord, SlotFree, StartTurn, Live, RegistryOK, NoTurn
<1>7. ASSUME NEW p \in Threads, BindPending(p) PROVE FALSE
  BY <1>7 DEF BindPending, Binds, Live, RegistryOK, NoTurn
<1>8. ASSUME NEW p \in Threads, ReviseTurnBinding(p)
      PROVE  \E g \in Folders : ReviseTurnBinding(g) /\ pending = t /\ own # t
  BY <1>8 DEF ReviseTurnBinding, AtFrame, OpenRecord, Live
<1> QED BY <1>1, <1>2, <1>3, <1>4, <1>5, <1>6, <1>7, <1>8, QuietSteps
         DEF Next, Run, Finalizing

\* An opened record is in a slot at once.
LEMMA EnteringStep ==
    ASSUME ClosingInv, [Next]_vars, NEW t \in TurnIds, nextSeq # t, nextSeq' = t
    PROVE  Live(t)'
<1> USE DEF ClosingInv, TypeInv, TypeOK
<1>0. t # NoTurn
  BY DEF TurnIds, NoTurn
<1>1. ASSUME UNCHANGED nextSeq PROVE FALSE
  BY <1>1
<1>2. CASE UNCHANGED vars
  BY <1>1, <1>2 DEF vars, registry, slots
<1>3. CASE Environment
  BY <1>1, <1>3, QuietEnvironment DEF Quiet, slots
<1>4. ASSUME NEW p \in Threads, ClaimTurn(p) \/ ClaimOwn(p) \/ CloseTurn(p) \/ Finish(p) PROVE FALSE
  BY <1>1, <1>4 DEF ClaimTurn, ClaimOwn, CloseTurn, Finish, slots
<1>5. ASSUME NEW p \in Threads, StartTurn(p) \/ BindPending(p) PROVE FALSE
  BY <1>1, <1>5 DEF StartTurn, BindPending
<1>6. ASSUME NEW p \in Threads, OpenTurn(p) \/ OpenWireTurn(p) \/ ReviseTurnBinding(p)
      PROVE  Live(t)'
  BY <1>0, <1>6 DEF OpenTurn, OpenWireTurn, ReviseTurnBinding, OpenRecord, Live, PromptClass
<1> QED BY <1>1, <1>2, <1>3, <1>4, <1>5, <1>6, QuietSteps DEF Next, Run, Finalizing, Quiet, slots

\* A turn enters the registry as the log opens it and leaves it published, whatever the
\* agent brackets, any prompts, shells, retries and deaths, unless a revision overwrites
\* it as it waits in the pending slot (reviseLocked, against slotFreeLocked's guard on
\* every other open).
THEOREM OnlyRevisionsLose == Spec => LeavesByClosing
<1>1. ClosingInv /\ [Next]_vars =>
          [\A t \in TurnIds :
               /\ nextSeq # t /\ nextSeq' = t => Live(t)'
               /\ Live(t) /\ ~Live(t)' =>
                      \/ closedBy'[t] # Running
                      \/ t = pending /\ t # own /\ \E g \in Folders : ReviseTurnBinding(g)]_vars
  <2> SUFFICES ASSUME ClosingInv, [Next]_vars, NEW t \in TurnIds
               PROVE  /\ nextSeq # t /\ nextSeq' = t => Live(t)'
                      /\ Live(t) /\ ~Live(t)' =>
                             \/ closedBy'[t] # Running
                             \/ t = pending /\ t # own /\ \E g \in Folders : ReviseTurnBinding(g)
    OBVIOUS
  <2> QED BY EnteringStep, LosingStep
<1> QED BY <1>1, ClosingInvariant, PTL DEF Spec, LeavesByClosing

-----------------------------------------------------------------------------
(* A record somebody holds a handle on stays readable, and no longer.      *)

Held(t) == \E p \in Callers : t \in handles[p]

\* A turn nobody will publish any more: out of both slots, with no closer at work.
Gone(t) == ~Live(t) /\ \A p \in Threads : ~AtWork(p, t)

\* A turn is handed to the one caller that opened it, and its record counts the
\* handle, or keeps the count of one given up on a turn the registry had lost.
OpenedHeld == \A p \in Callers : \A t \in handles[p] : t <= nextSeq
OneHolder  == \A p, q \in Callers : \A t \in handles[p] : t \in handles[q] => p = q
Counted    ==
    \A t \in TurnIds :
        /\ holds[t] \in {0, 1}
        /\ Held(t) => holds[t] = 1
        /\ holds[t] = 1 /\ ~Held(t) => t <= nextSeq /\ t \notin retained /\ Gone(t)

\* Where a caller holds its own turn's handle: from its open to its drop, and on to
\* the recovery's gate when the turn was answered, or to its close when it was not
\* started.
Carrying == {"spawn", "starting", "opened", "retired", "acquire", "start", "call",
             "settle", "parked", "await", "drop", "gate", "rereserve", "sweepAll",
             "sweep", "close"}
Carries(l, k) == l \in Carrying \/ (k \in {"gate", "close"} /\ l \in {"unslot", "unreserve"})
CarriesOwn == \A p \in Callers : Carries(pc[p], then[p]) => turnOf[p] \in handles[p]

\* Only an answered prompt is on its way to the gate, and only one that never started
\* on its way to the close.
ToGate  == {"unslot", "unreserve", "gate", "rereserve", "release"}
ToClose == {"unslot", "unreserve", "close", "release"}
OnRoute(l, k) == (k = "gate" => l \in ToGate) /\ (k = "close" => l \in ToClose)
RouteKept == \A p \in Callers : OnRoute(pc[p], then[p])

\* The turns a goroutine names are turns of the log.
Asked ==
    /\ \A p \in Threads : target[p] <= nextSeq
    /\ \A p \in Threads : \A i \in DOMAIN todo[p] : todo[p][i] <= nextSeq
    /\ \A p \in Callers : turnOf[p] <= nextSeq

\* A prompt waits in the pending slot behind another one's turn.
PromptBehind ==
    /\ own # NoTurn /\ pending # NoTurn /\ own # pending
    /\ source[own] \in PromptClass /\ ~finalizing[own]

\* Then only the caller that holds its handle asks to close it, and a sweep comes to
\* it after own.
Aims(p, t) == phase[p] \in {"claim", "effects", "publish"} /\ target[p] = t
Lists(p, t) == \E i \in DOMAIN todo[p] : todo[p][i] = t
AimsHeld(p) == Aims(p, pending) => p \in Callers /\ pending \in handles[p]
ListsAfter(p) ==
    Lists(p, pending) => todo[p][1] = own \/ (phase[p] = "claim" /\ target[p] = own)
BehindInv == PromptBehind => \A p \in Threads : AimsHeld(p) /\ ListsAfter(p)

\* Whoever is at work on an overwritten turn is the caller that holds it.
WorkerInv ==
    \A p \in Threads, t \in TurnIds :
        AtWork(p, t) /\ ~Live(t) => p \in Callers /\ t \in handles[p]

HandleInv == OpenedHeld /\ OneHolder /\ Counted /\ RetainedWhileHeld
RouteInv  == CarriesOwn /\ RouteKept
NamedInv  == Asked /\ BehindInv /\ WorkerInv
RetainInv == ClosingInv /\ HandleInv /\ RouteInv /\ NamedInv

\* A turn of the log that is gone stays gone.
GoneKept == \A t \in TurnIds : t <= nextSeq /\ Gone(t) => Gone(t)'

\* Nothing brings a turn back: an open takes the next number, a bind and a start move a
\* turn that is in a slot, and a claim needs one.
LEMMA GoneStays ==
    ASSUME ClosingInv, [Next]_vars
    PROVE  GoneKept
<1> USE DEF ClosingInv, TypeInv, TypeOK
<1> SUFFICES ASSUME NEW t \in TurnIds, t <= nextSeq, Gone(t) PROVE Gone(t)'
  BY DEF GoneKept
<1>1. ASSUME Quiet PROVE Gone(t)'
  BY <1>1 DEF Quiet, slots, Gone, Live, AtWork, Working
<1>2. CASE UNCHANGED vars
  BY <1>1, <1>2, QuietClosing DEF vars, registry, closing
<1>3. CASE Environment
  BY <1>1, <1>3, QuietEnvironment
<1>4. ASSUME NEW p \in Threads, ClaimTurn(p) \/ ClaimOwn(p) \/ CloseTurn(p) \/ Finish(p)
      PROVE  Gone(t)'
  <2>1. ~Live(t)'
    BY <1>4 DEF ClaimTurn, ClaimOwn, CloseTurn, Finish, Cleared, slots, Gone, Live
  <2>2. ASSUME NEW q \in Threads, q # p PROVE ~AtWork(q, t)'
    BY <1>4, <2>2 DEF ClaimTurn, ClaimOwn, CloseTurn, Finish, EndFinalize, Gone, AtWork,
       GoroutinesOK
  <2>3. ~AtWork(p, t)'
    BY <1>4 DEF ClaimTurn, Claimable, ClaimOwn, OwnLive, CloseTurn, Finish, EndFinalize, Gone,
       Live, AtWork, GoroutinesOK
  <2> QED BY <2>1, <2>2, <2>3 DEF Gone
<1>5. ASSUME NEW p \in Threads, OpenTurn(p) \/ OpenWireTurn(p) \/ ReviseTurnBinding(p)
      PROVE  Gone(t)'
  <2>1. ~Live(t)'
    BY <1>5 DEF OpenTurn, OpenWireTurn, ReviseTurnBinding, OpenRecord, Gone, Live, TurnIds,
       RegistryOK
  <2> QED BY <1>5, <2>1 DEF OpenTurn, OpenWireTurn, ReviseTurnBinding, closing, Gone, AtWork
<1>6. ASSUME NEW p \in Threads, StartTurn(p) \/ BindPending(p) PROVE Gone(t)'
  BY <1>6 DEF StartTurn, Claimable, BindPending, closing, Gone, Live, AtWork, NoTurn
<1> QED BY <1>1, <1>2, <1>3, <1>4, <1>5, <1>6, QuietSteps DEF Next, Run, Finalizing

\* A step that hands out and gives up no handle keeps the handles.
LEMMA HandleFrame ==
    ASSUME HandleInv, GoneKept, UNCHANGED <<handles, holders, nextSeq, closedBy>>
    PROVE  HandleInv'
BY DEF GoneKept, HandleInv, OpenedHeld, OneHolder, Counted, RetainedWhileHeld, Held, holders

\* A step of p that hands out and gives up nothing, and sends p where its turn's
\* handle is held only from where it is.
Routed(p) ==
    /\ UNCHANGED <<turnOf, handles>>
    /\ \A q \in Callers : q # p => pc'[q] = pc[q] /\ then'[q] = then[q]
    /\ p \in Callers => /\ Carries(pc'[p], then'[p]) => Carries(pc[p], then[p])
                        /\ OnRoute(pc'[p], then'[p])

\* Such a step keeps every caller's handle where its code looks for it.
LEMMA RoutedKeeps ==
    ASSUME RouteInv, NEW p, Routed(p)
    PROVE  RouteInv'
<1>1. CarriesOwn'
  BY DEF RouteInv, CarriesOwn, Routed
<1>2. RouteKept'
  BY DEF RouteInv, RouteKept, Routed
<1> QED BY <1>1, <1>2 DEF RouteInv

\* What a move of one goroutine does to the labels.
LEMMA MovedTo ==
    ASSUME GoroutinesOK, NEW p \in Threads, NEW l, Goto(p, l)
    PROVE  pc'[p] = l /\ \A q \in Threads : q # p => pc'[q] = pc[q]
BY DEF Goto, GoroutinesOK

\* A step that moves no goroutine is routed.
LEMMA RoutedStill ==
    ASSUME RouteInv, NEW p, UNCHANGED <<pc, then, turnOf, handles>>
    PROVE  Routed(p)
BY DEF Routed, RouteInv, RouteKept

\* So is a move of a goroutine that is no caller.
LEMMA RoutedOther ==
    ASSUME GoroutinesOK, NEW p \in Threads, p \notin Callers, NEW l, Goto(p, l),
           UNCHANGED <<then, turnOf, handles>>
    PROVE  Routed(p)
BY MovedTo DEF Routed, Threads

\* And a caller's move that stays on its route.
LEMMA RoutedGoto ==
    ASSUME GoroutinesOK, NEW p \in Callers, NEW l, Goto(p, l),
           UNCHANGED <<then, turnOf, handles>>,
           Carries(l, then[p]) => Carries(pc[p], then[p]),
           OnRoute(l, then[p])
    PROVE  Routed(p)
BY MovedTo DEF Routed, Threads

\* OpenBridge runs between the open and the call, with the turn's handle held.
LEMMA RoutedOpening ==
    ASSUME TypeInv, RouteInv, NEW p \in Threads, Opening(p)
    PROVE  Routed(p)
<1>0. GoroutinesOK /\ then \in [Callers -> Continuations]
  BY DEF TypeInv, TypeOK, LocalsOK
<1>1. p \in Callers => OnRoute(pc[p], then[p])
  BY DEF RouteInv, RouteKept
<1> USE DEF At, locals
<1>2. CASE SpawnBridge(p)
  <2>1. fwdGen + 1 \in Folders
    BY <1>2, BoundsAssumption DEF SpawnBridge, Folders, TypeInv, TypeOK, TransportOK
  <2>2. \A q \in Callers : pc'[q] = IF q = p THEN "starting" ELSE pc[q]
    BY <1>0, <1>2, <2>1, CallersApart DEF SpawnBridge, GoroutinesOK, Threads
  <2> QED BY <1>1, <1>2, <2>2 DEF SpawnBridge, Routed, Carries, Carrying, OnRoute, ToGate, ToClose
<1>3. CASE ReuseBridge(p) \/ StartOk(p) \/ CheckRetired(p) \/ CloseTurnsOnRetire(p)
  <2>1. PICK l \in {"opened", "spawn", "retired", "idle", "acquire"} : Goto(p, l)
    BY <1>3 DEF ReuseBridge, StartOk, CheckRetired, CloseTurnsOnRetire
  <2>2. pc[p] \in {"spawn", "starting", "opened", "retired"}
        /\ UNCHANGED <<then, turnOf, handles>>
    BY <1>3 DEF ReuseBridge, StartOk, CheckRetired, CloseTurnsOnRetire
  <2>3. p \in Callers => then[p] \notin {"gate", "close"}
    BY <1>1, <2>2 DEF OnRoute, ToGate, ToClose
  <2> QED BY <1>0, <2>1, <2>2, <2>3, RoutedOther, RoutedGoto DEF Carries, Carrying, OnRoute
<1>4. CASE OpenBridgeFails(p) /\ p \in Callers
  <2>1. Goto(p, "unreserve") /\ Abort(p) /\ UNCHANGED <<turnOf, handles>>
    BY <1>4, CallersApart DEF OpenBridgeFails
  <2>2. \A q \in Callers : /\ pc'[q] = IF q = p THEN "unreserve" ELSE pc[q]
                           /\ q # p => then'[q] = then[q]
                           /\ then'[p] \in {"release", "close"}
    BY <1>0, <1>4, <2>1, MovedTo DEF Abort, Threads
  <2>3. pc[p] \in {"spawn", "starting"}
    BY <1>4 DEF OpenBridgeFails
  <2> QED BY <1>4, <2>1, <2>2, <2>3 DEF Routed, Carries, Carrying, OnRoute, ToClose
<1>5. CASE OpenBridgeFails(p) /\ p \notin Callers
  BY <1>0, <1>5, RoutedOther DEF OpenBridgeFails, Callers, Spawners
<1>6. CASE AcquireSlot(p)
  <2>1. PICK l \in {"open", "start", "unreserve"} : Goto(p, l)
    BY <1>6 DEF AcquireSlot
  <2>2. UNCHANGED <<turnOf, handles>> /\ p \in Callers /\ pc[p] = "acquire"
        /\ \A q \in Callers : q # p => then'[q] = then[q]
    BY <1>0, <1>6 DEF AcquireSlot, Abort, Callers
  <2>3. pc'[p] = l
    BY <1>0, <2>1, <2>2, MovedTo DEF Threads
  <2>4. OnRoute(l, then'[p])
    BY <1>0, <1>1, <1>6, <2>2, <2>3, MovedTo
       DEF AcquireSlot, Abort, OnRoute, ToGate, ToClose, Threads
  <2> QED BY <1>0, <2>1, <2>2, <2>3, <2>4, MovedTo DEF Routed, Carries, Carrying, Threads
<1> QED BY <1>2, <1>3, <1>4, <1>5, <1>6 DEF Opening

\* The call, its settle and the wait for the result keep the turn's handle.
LEMMA RoutedSettling ==
    ASSUME TypeInv, RouteInv, NEW p \in Threads, Settling(p)
    PROVE  Routed(p)
<1>0. GoroutinesOK /\ then \in [Callers -> Continuations]
  BY DEF TypeInv, TypeOK, LocalsOK
<1>1. p \in Callers => OnRoute(pc[p], then[p])
  BY DEF RouteInv, RouteKept
<1> USE DEF At, locals
<1>2. CASE StartTurn(p) \/ ShellDone(p) \/ SettleReached(p) \/ SettleParks(p) \/ SettleDefers(p)
  <2>1. PICK l \in {"call", "drop", "await", "parked"} : Goto(p, l)
    BY <1>2 DEF StartTurn, ShellDone, SettleReached, SettleParks, SettleDefers, AfterSettle
  <2>2. p \in Callers /\ pc[p] \in {"start", "call", "settle", "parked"}
        /\ UNCHANGED <<then, turnOf, handles>>
    BY <1>2 DEF StartTurn, ShellDone, SettleReached, SettleParks, SettleDefers, Callers
  <2>3. then[p] \notin {"gate", "close"}
    BY <1>1, <2>2 DEF OnRoute, ToGate, ToClose
  <2> QED BY <1>0, <2>1, <2>2, <2>3, RoutedGoto DEF Carries, Carrying, OnRoute
<1>3. CASE StartRefused(p)
  <2>1. PICK l \in {"unslot", "drop"} : Goto(p, l)
    BY <1>3 DEF StartRefused
  <2>2. UNCHANGED <<turnOf, handles>> /\ p \in Callers /\ pc[p] = "start"
        /\ \A q \in Callers : q # p => then'[q] = then[q]
    BY <1>0, <1>3 DEF StartRefused, Abort
  <2>3. pc'[p] = l
    BY <1>0, <2>1, <2>2, MovedTo DEF Threads
  <2>4. OnRoute(l, then'[p])
    BY <1>0, <1>1, <1>3, <2>2, <2>3, MovedTo
       DEF StartRefused, Abort, OnRoute, ToGate, ToClose, Threads
  <2> QED BY <1>0, <2>1, <2>2, <2>3, <2>4, MovedTo DEF Routed, Carries, Carrying, Threads
<1>4. CASE AwaitTurn(p)
  <2>1. Goto(p, "unslot") /\ p \in Callers /\ pc[p] = "await"
        /\ UNCHANGED <<turnOf, handles>>
        /\ \A q \in Callers : q # p => then'[q] = then[q]
    BY <1>0, <1>4 DEF AwaitTurn, Callers
  <2> QED BY <1>0, <2>1, MovedTo DEF Routed, Carries, Carrying, OnRoute, ToGate, ToClose, Threads
<1>5. CASE ReleaseSlot(p)
  <2>1. Goto(p, "unreserve") /\ p \in Callers /\ pc[p] = "unslot"
        /\ UNCHANGED <<then, turnOf, handles>>
    BY <1>5 DEF ReleaseSlot, Callers
  <2> QED BY <1>0, <2>1, RoutedGoto DEF Carries, Carrying, OnRoute, ToGate, ToClose
<1> QED BY <1>2, <1>3, <1>4, <1>5 DEF Settling

\* The recovery starts from the gate with the first turn's handle, and sweeps with it.
LEMMA RoutedRecovering ==
    ASSUME TypeInv, RouteInv, NEW p \in Threads, Recovering(p)
    PROVE  Routed(p)
<1>0. GoroutinesOK /\ then \in [Callers -> Continuations]
  BY DEF TypeInv, TypeOK, LocalsOK
<1>1. p \in Callers => OnRoute(pc[p], then[p])
  BY DEF RouteInv, RouteKept
<1> USE DEF At, locals
<1>2. CASE Gate(p)
  <2>1. PICK l \in {"rereserve", "release"} : Goto(p, l)
    BY <1>2 DEF Gate
  <2>2. p \in Callers /\ pc[p] = "gate" /\ UNCHANGED <<then, turnOf, handles>>
    BY <1>2 DEF Gate, Callers
  <2> QED BY <1>0, <1>1, <2>1, <2>2, RoutedGoto
           DEF Carries, Carrying, OnRoute, ToGate, ToClose
<1>3. CASE ReserveRetry(p)
  <2>1. PICK l \in {"sweepAll", "release"} :
            /\ Goto(p, l)
            /\ l = "sweepAll" => then' = [then EXCEPT ![p] = "release"]
            /\ l = "release" => UNCHANGED then
    BY <1>3 DEF ReserveRetry
  <2>2. p \in Callers /\ pc[p] = "rereserve" /\ UNCHANGED <<turnOf, handles>>
    BY <1>3 DEF ReserveRetry, Callers
  <2>3. CASE l = "release"
    BY <1>0, <1>1, <2>1, <2>2, <2>3, RoutedGoto
       DEF Carries, Carrying, OnRoute, ToGate, ToClose
  <2>4. CASE l = "sweepAll"
    <3>1. then'[p] = "release" /\ \A q \in Callers : q # p => then'[q] = then[q]
      BY <1>0, <2>1, <2>2, <2>4
    <3> QED BY <1>0, <2>1, <2>2, <2>4, <3>1, MovedTo
         DEF Routed, Carries, Carrying, OnRoute, Threads
  <2> QED BY <2>1, <2>3, <2>4
<1>4. CASE SnapshotTurns(p) \/ StopBridge(p)
  <2>1. PICK l \in {"sweep", "spawn"} : Goto(p, l)
    BY <1>4 DEF SnapshotTurns, StopBridge
  <2>2. pc[p] \in {"sweepAll", "sweep"} /\ UNCHANGED <<then, turnOf, handles>>
    BY <1>4 DEF SnapshotTurns, StopBridge
  <2>3. p \in Callers => then[p] \notin {"gate", "close"}
    BY <1>1, <2>2 DEF OnRoute, ToGate, ToClose
  <2> QED BY <1>0, <2>1, <2>2, <2>3, RoutedOther, RoutedGoto DEF Carries, Carrying, OnRoute
<1>5. CASE SweepTurn(p)
  BY <1>5, RoutedStill DEF SweepTurn
<1> QED BY <1>2, <1>3, <1>4, <1>5 DEF Recovering

\* A caller that opens nothing and gives up nothing goes its route.
LEMMA RoutedAdmission ==
    ASSUME TypeInv, RouteInv, NEW p \in Threads,
           OpenRefused(p) \/ Unreserve(p) \/ CloseBeforeStart(p)
    PROVE  Routed(p)
<1>0. GoroutinesOK /\ then \in [Callers -> Continuations]
  BY DEF TypeInv, TypeOK, LocalsOK
<1>1. p \in Callers => OnRoute(pc[p], then[p])
  BY DEF RouteInv, RouteKept
<1> USE DEF At, locals
<1>2. CASE OpenRefused(p)
  <2>1. PICK l \in {"unslot", "unreserve"} : Goto(p, l)
    BY <1>2 DEF OpenRefused
  <2>2. p \in Callers /\ then[p] \notin {"gate", "close"} /\ UNCHANGED <<then, turnOf, handles>>
    BY <1>1, <1>2 DEF OpenRefused, OnRoute, ToGate, ToClose
  <2> QED BY <1>0, <2>1, <2>2, RoutedGoto DEF Carries, Carrying, OnRoute
<1>3. CASE Unreserve(p)
  <2>1. p \in Callers /\ pc[p] = "unreserve" /\ Goto(p, then[p])
        /\ UNCHANGED <<then, turnOf, handles>>
    BY <1>3 DEF Unreserve
  <2>2. then[p] \in {"close", "gate", "release"}
    BY <1>0, <2>1 DEF Continuations
  <2> QED BY <1>0, <1>1, <2>1, <2>2, RoutedGoto
           DEF Carries, Carrying, OnRoute, ToGate, ToClose
<1>4. CASE CloseBeforeStart(p)
  <2>1. p \in Callers /\ Goto(p, "release") /\ UNCHANGED <<then, turnOf, handles>>
    BY <1>4 DEF CloseBeforeStart, Callers
  <2> QED BY <1>0, <2>1, RoutedGoto DEF Carries, Carrying, OnRoute, ToGate, ToClose
<1> QED BY <1>2, <1>3, <1>4

\* finalizeTurn moves nobody, and a folder is no caller.
LEMMA RoutedOthers ==
    ASSUME TypeInv, RouteInv, NEW p \in Threads, Finalizing(p) \/ Folding(p)
    PROVE  Routed(p)
<1>0. GoroutinesOK
  BY DEF TypeInv, TypeOK
<1>1. CASE Finalizing(p)
  BY <1>1, RoutedStill DEF Finalizing, ClaimTurn, ClaimOwn, ClaimLost, CloseTurn, Finish,
     locals
<1>2. CASE Folding(p)
  <2>1. p \notin Callers /\ UNCHANGED <<then, turnOf, handles>>
    BY <1>2, CallersApart DEF Folding, AtFrame, At, Observe, FoldContent, FoldMisses,
       OpenWireTurn, OpenWireRefused, BindPending, BindMisses, WireTurnEnd,
       ReviseTurnBinding, ReviseSkipped, SealPosition, RemoveIfBridge, ForwardEnds, locals
  <2>2. \E l : Goto(p, l)
    BY <1>2 DEF Folding, Consume, Observe, FoldContent, FoldMisses, OpenWireTurn,
       OpenWireRefused, BindPending, BindMisses, WireTurnEnd, ReviseTurnBinding,
       ReviseSkipped, SealPosition, RemoveIfBridge, ForwardEnds
  <2> QED BY <1>0, <2>1, <2>2, RoutedOther
<1> QED BY <1>1, <1>2

\* What the environment decides keeps every caller on its route.
LEMMA RouteEnvironment ==
    ASSUME TypeInv, RouteInv, Environment
    PROVE  RouteInv'
<1>0. GoroutinesOK /\ then \in [Callers -> Continuations]
  BY DEF TypeInv, TypeOK, LocalsOK
<1> USE DEF At, locals
<1>1. ASSUME NEW p \in Threads, ReservePrompt(p) \/ ReserveShell(p) PROVE RouteInv'
  <2>1. p \in Callers /\ pc[p] = "idle" /\ Goto(p, "open")
        /\ UNCHANGED <<then, turnOf, handles>>
    BY <1>1 DEF ReservePrompt, ReserveShell, Callers
  <2> QED BY <1>0, <2>1, RoutedGoto, RoutedKeeps
           DEF RouteInv, RouteKept, Carries, Carrying, OnRoute, ToGate, ToClose
<1>2. ASSUME NEW p \in Threads, OpenAnyway(p) PROVE RouteInv'
  BY <1>0, <1>2, RoutedOther, RoutedKeeps, CallersApart DEF OpenAnyway
<1>3. ASSUME NEW d \in Drivers, Respond(d) \/ CallFails(d) PROVE RouteInv'
  <2>1. PICK l \in {"settle", "drop", "unslot"} : Goto(d, l)
    BY <1>3 DEF Respond, CallFails
  <2>2. d \in Callers /\ pc[d] = "call" /\ UNCHANGED <<then, turnOf, handles>>
    BY <1>3 DEF Respond, CallFails, Callers
  <2> QED BY <1>0, <2>1, <2>2, RoutedGoto, RoutedKeeps
           DEF RouteInv, RouteKept, Carries, Carrying, OnRoute, ToGate, ToClose
<1>4. ASSUME NEW r \in Retirers, RetireBridge(r) PROVE RouteInv'
  <2>1. r \in Threads /\ r \notin Callers /\ UNCHANGED <<then, turnOf, handles>>
    BY <1>4, CallersApart DEF RetireBridge, Threads
  <2>2. CASE Goto(r, "retired")
    BY <1>0, <2>1, <2>2, RoutedOther, RoutedKeeps
  <2>3. CASE UNCHANGED pc
    BY <2>1, <2>3, RoutedStill, RoutedKeeps
  <2> QED BY <1>4, <2>2, <2>3 DEF RetireBridge
<1>5. CASE UNCHANGED <<pc, then, turnOf, handles>>
  BY <1>5 DEF RouteInv, CarriesOwn, RouteKept
<1> QED BY <1>1, <1>2, <1>3, <1>4, <1>5 DEF Environment, CtxDies, BridgeDies, ReadFrame

\* OpenTurn hands the record it opens to its caller, and nobody else holds it.
LEMMA HandOver ==
    ASSUME RetainInv, GoneKept, NEW p \in Callers, OpenTurn(p)
    PROVE  HandleInv' /\ RouteInv'
<1> DEFINE t == nextSeq + 1
<1> USE DEF RetainInv, HandleInv, RouteInv, ClosingInv, TypeInv, TypeOK
<1>0. /\ t \in TurnIds /\ nextSeq \in Nat /\ nextSeq' = t
      /\ UNCHANGED <<closedBy, retained>>
      /\ \A q \in Callers : handles'[q] = IF q = p THEN handles[q] \cup {t} ELSE handles[q]
      /\ \A u \in TurnIds : holds'[u] = IF u = t THEN 1 ELSE holds[u]
  <2>1. t \in TurnIds /\ nextSeq \in Nat /\ nextSeq' = t /\ UNCHANGED <<closedBy, retained>>
    BY BoundsAssumption DEF OpenTurn, OpenRecord, RegistryOK, TurnIds, claims
  <2>2. \A q \in Callers : handles'[q] = IF q = p THEN handles[q] \cup {t} ELSE handles[q]
    BY DEF OpenTurn, LocalsOK
  <2>3. \A u \in TurnIds : holds'[u] = IF u = t THEN 1 ELSE holds[u]
    BY DEF OpenTurn, RegistryOK
  <2> QED BY <2>1, <2>2, <2>3
<1>1. \A q \in Callers : t \notin handles[q]
  BY <1>0 DEF OpenedHeld
<1>2. \A q \in Callers : \A u \in handles[q] : u \in TurnIds /\ u <= nextSeq
  BY DEF OpenedHeld, LocalsOK
<1>3. \A u \in TurnIds : Held(u)' <=> Held(u) \/ u = t
  BY <1>0 DEF Held
<1>4. OpenedHeld' /\ OneHolder' /\ Counted'
  <2>1. ASSUME NEW q \in Callers, NEW u \in handles'[q] PROVE u <= nextSeq'
    <3>1. u \in handles[q] \/ u = t
      BY <1>0
    <3> QED BY <1>0, <1>2, <3>1 DEF TurnIds
  <2>2. ASSUME NEW q \in Callers, NEW r \in Callers, NEW u \in handles'[q], u \in handles'[r]
        PROVE  q = r
    <3> HIDE DEF t
    <3>1. CASE u = t
      BY <1>0, <1>1, <2>2, <3>1
    <3>2. CASE u # t
      <4>1. u \in handles[q] /\ u \in handles[r]
        BY <1>0, <2>2, <3>2
      <4> QED BY <4>1 DEF OneHolder
    <3> QED BY <3>1, <3>2
  <2>3. Counted'
    <3>1. \A u \in TurnIds : u <= nextSeq => u <= nextSeq'
      BY <1>0 DEF TurnIds
    <3> HIDE DEF t
    <3> QED BY <1>0, <1>3, <3>1 DEF Counted, GoneKept
  <2> QED BY <2>1, <2>2, <2>3 DEF OpenedHeld, OneHolder
<1>5. closedBy[t] = Running
  BY <1>0 DEF ClaimInv, Unclaimed, SlotInv, Fresh
<1>6. RetainedWhileHeld'
  BY <1>0, <1>3, <1>5 DEF RetainedWhileHeld, Held
<1>7. /\ pc'[p] \in {"spawn", "start"} /\ then[p] \notin {"gate", "close"}
      /\ \A q \in Callers : q # p => pc'[q] = pc[q] /\ turnOf'[q] = turnOf[q]
      /\ turnOf'[p] = t /\ UNCHANGED then
  BY DEF OpenTurn, At, Goto, GoroutinesOK, LocalsOK, Threads, RouteKept, OnRoute, ToGate, ToClose
<1>8. CarriesOwn' /\ RouteKept'
  BY <1>0, <1>7 DEF CarriesOwn, RouteKept, OnRoute
<1> QED BY <1>4, <1>6, <1>8

\* Giving up the one handle on a turn drops its retained record; on a turn the registry
\* has lost it leaves the count, and nobody will publish that turn.
LEMMA GiveUpStep ==
    ASSUME RetainInv, GoneKept, NEW p \in Callers, NEW t \in handles[p], phase[p] = "none",
           GiveUp(p, t)
    PROVE  HandleInv'
<1> USE DEF RetainInv, HandleInv, ClosingInv, TypeInv, TypeOK
<1>1. t \in TurnIds /\ t <= nextSeq /\ Held(t) /\ holds[t] = 1
  BY DEF LocalsOK, OpenedHeld, Counted, Held
<1>2. /\ \A q \in Callers : handles'[q] = IF q = p THEN handles[q] \ {t} ELSE handles[q]
      /\ UNCHANGED <<nextSeq, closedBy>>
  BY DEF GiveUp, LocalsOK, slots, claims
<1>3. \A q \in Callers : q # p => t \notin handles[q]
  BY DEF OneHolder
<1>4. \A u \in TurnIds : Held(u)' <=> Held(u) /\ u # t
  BY <1>2, <1>3 DEF Held
<1>5. OpenedHeld' /\ OneHolder'
  BY <1>2 DEF OpenedHeld, OneHolder
<1>6. CASE Known(t)
  <2>1. holds' = [holds EXCEPT ![t] = holds[t] - 1] /\ retained' = retained \ {t}
    BY <1>1, <1>6 DEF GiveUp, LastHandle
  <2>2. \A u \in TurnIds : holds'[u] = IF u = t THEN 0 ELSE holds[u]
    BY <1>1, <2>1 DEF RegistryOK
  <2>3. Counted'
    BY <1>2, <1>4, <2>1, <2>2 DEF Counted, GoneKept
  <2>4. RetainedWhileHeld'
    BY <1>2, <1>4, <2>1 DEF RetainedWhileHeld, Held
  <2> QED BY <1>5, <2>3, <2>4
<1>7. CASE ~Known(t)
  <2>1. UNCHANGED <<holds, retained>>
    BY <1>7 DEF GiveUp, holders
  <2>2. ~Live(t) /\ t \notin retained
    BY <1>7 DEF Known
  <2>3. Gone(t)
    <3>1. ASSUME NEW q \in Threads, AtWork(q, t) PROVE FALSE
      BY <1>1, <1>3, <2>2, <3>1 DEF NamedInv, WorkerInv, AtWork
    <3> QED BY <2>2, <3>1 DEF Gone
  <2>4. Counted'
    BY <1>1, <1>2, <1>4, <2>1, <2>2, <2>3 DEF Counted, GoneKept
  <2>5. RetainedWhileHeld'
    BY <1>2, <1>4, <2>1, <2>2 DEF RetainedWhileHeld, Held
  <2> QED BY <1>5, <2>4, <2>5
<1> QED BY <1>6, <1>7

\* A shell and a retry give up the handle of the turn they opened.
LEMMA DropTurnStep ==
    ASSUME RetainInv, GoneKept, NEW p \in Threads, DropTurn(p)
    PROVE  HandleInv' /\ RouteInv'
<1> USE DEF RetainInv, RouteInv, ClosingInv, TypeInv, TypeOK
<1>1. p \in Callers /\ pc[p] = "drop" /\ phase[p] = "none" /\ GiveUp(p, turnOf[p])
  BY DEF DropTurn, At
<1>2. turnOf[p] \in handles[p] /\ then[p] \notin {"gate", "close"}
  BY <1>1 DEF CarriesOwn, RouteKept, Carries, Carrying, OnRoute, ToGate, ToClose
<1>3. HandleInv'
  BY <1>1, <1>2, GiveUpStep
<1>4. /\ pc'[p] \in {"unslot", "unreserve"} /\ UNCHANGED <<turnOf, then>>
      /\ \A q \in Callers : q # p => pc'[q] = pc[q] /\ handles'[q] = handles[q]
  BY <1>1 DEF DropTurn, GiveUp, Goto, GoroutinesOK, LocalsOK, Threads
<1>5. CarriesOwn' /\ RouteKept'
  BY <1>1, <1>2, <1>4 DEF CarriesOwn, RouteKept, Carries, Carrying, OnRoute
<1> QED BY <1>3, <1>5

\* A caller on its way out gives up what it still holds.
LEMMA ReleaseTurnStep ==
    ASSUME RetainInv, GoneKept, NEW p \in Threads, ReleaseTurn(p)
    PROVE  HandleInv' /\ RouteInv'
<1> USE DEF RetainInv, RouteInv, ClosingInv, TypeInv, TypeOK
<1>1. p \in Callers /\ pc[p] = "release" /\ phase[p] = "none" /\ UNCHANGED pc
  BY DEF ReleaseTurn, At
<1>2. PICK t \in handles[p] : GiveUp(p, t)
  BY DEF ReleaseTurn
<1>3. HandleInv'
  BY <1>1, <1>2, GiveUpStep
<1>4. UNCHANGED <<turnOf, then>> /\ \A q \in Callers : q # p => handles'[q] = handles[q]
  BY <1>1, <1>2 DEF GiveUp, LocalsOK
<1>5. CarriesOwn' /\ RouteKept'
  BY <1>1, <1>4 DEF CarriesOwn, RouteKept, Carries, Carrying
<1> QED BY <1>3, <1>5

\* A caller that returns holds nothing.
LEMMA ReturnHandles ==
    ASSUME RetainInv, GoneKept, NEW p \in Threads, Return(p)
    PROVE  HandleInv' /\ RouteInv'
<1> USE DEF RetainInv, RouteInv, ClosingInv, TypeInv, TypeOK
<1>1. HandleInv'
  BY HandleFrame DEF Return, registry, slots, claims
<1>2. /\ p \in Callers /\ pc'[p] = "idle" /\ then'[p] = "release" /\ UNCHANGED handles
      /\ \A q \in Callers : q # p => /\ pc'[q] = pc[q] /\ turnOf'[q] = turnOf[q]
                                     /\ then'[q] = then[q]
  BY DEF Return, Goto, GoroutinesOK, LocalsOK, Threads
<1>3. CarriesOwn' /\ RouteKept'
  BY <1>2 DEF CarriesOwn, RouteKept, Carries, Carrying, OnRoute
<1> QED BY <1>1, <1>3

\* finish retains the record of a closed turn exactly when somebody holds it.
LEMMA FinishRetains ==
    ASSUME RetainInv, GoneKept, NEW p \in Threads, Finish(p)
    PROVE  HandleInv'
<1> USE DEF RetainInv, HandleInv, ClosingInv, TypeInv, TypeOK
<1> DEFINE t == target[p]
<1>1. t \in TurnIds
  BY DEF Finish, TargetNamed
<1>2. /\ \A u \in TurnIds : u # t => closedBy'[u] = closedBy[u]
      /\ retained' = IF holds[t] > 0 THEN retained \cup {t} ELSE retained
      /\ UNCHANGED <<handles, holds, nextSeq>>
  BY <1>1 DEF Finish, RegistryOK, locals
<1>3. \A u : Held(u)' <=> Held(u)
  BY <1>2 DEF Held
<1>4. Held(t) <=> holds[t] > 0
  <2>1. AtWork(p, t)
    BY DEF Finish, AtWork
  <2> QED BY <1>1, <2>1 DEF Counted, Gone
<1>5. OpenedHeld' /\ OneHolder' /\ Counted'
  BY <1>2, <1>3, <1>4 DEF OpenedHeld, OneHolder, Counted, GoneKept
<1>6. RetainedWhileHeld'
  BY <1>1, <1>2, <1>3, <1>4 DEF RetainedWhileHeld, Held
<1> QED BY <1>5, <1>6

\* A turn the agent opens is handed to nobody.
LEMMA OpenWireHandles ==
    ASSUME RetainInv, GoneKept, nextSeq' = nextSeq + 1,
           UNCHANGED <<handles, holders, closedBy>>
    PROVE  HandleInv'
<1>1. nextSeq \in Nat /\ handles \in [Callers -> SUBSET TurnIds]
  BY DEF RetainInv, ClosingInv, TypeInv, TypeOK, RegistryOK, LocalsOK, TurnIds
<1>2. OpenedHeld'
  BY <1>1 DEF RetainInv, HandleInv, OpenedHeld, TurnIds
<1>3. \A u \in TurnIds : u <= nextSeq => u <= nextSeq'
  BY <1>1 DEF TurnIds
<1> QED BY <1>2, <1>3
        DEF RetainInv, HandleInv, OneHolder, Counted, RetainedWhileHeld, Held, holders, GoneKept

\* Every step but five leaves the handles as they are.
LEMMA HandlesStill ==
    ASSUME NEW p \in Threads,
           \/ ClaimTurn(p) \/ ClaimOwn(p) \/ ClaimLost(p) \/ CloseTurn(p)
           \/ OpenRefused(p) \/ Unreserve(p) \/ CloseBeforeStart(p)
           \/ Opening(p) \/ Settling(p) \/ Recovering(p)
           \/ Folding(p) /\ ~OpenWireTurn(p) /\ ~ReviseTurnBinding(p)
    PROVE  UNCHANGED <<handles, holders, nextSeq, closedBy>>
<1> USE DEF registry, slots, claims, locals
<1>1. CASE ClaimTurn(p) \/ ClaimOwn(p) \/ ClaimLost(p) \/ CloseTurn(p)
  BY <1>1 DEF ClaimTurn, ClaimOwn, ClaimLost, CloseTurn
<1>2. CASE OpenRefused(p) \/ Unreserve(p) \/ CloseBeforeStart(p)
  BY <1>2 DEF OpenRefused, Unreserve, CloseBeforeStart
<1>3. CASE Opening(p)
  BY <1>3 DEF Opening, ReuseBridge, SpawnBridge, StartOk, CheckRetired, OpenBridgeFails,
     AcquireSlot, CloseTurnsOnRetire
<1>4. CASE Settling(p)
  BY <1>4 DEF Settling, StartTurn, StartRefused, ShellDone, SettleReached, SettleParks,
     SettleDefers, AwaitTurn, ReleaseSlot
<1>5. CASE Recovering(p)
  BY <1>5 DEF Recovering, Gate, ReserveRetry, SnapshotTurns, SweepTurn, StopBridge
<1>6. CASE Folding(p) /\ ~OpenWireTurn(p) /\ ~ReviseTurnBinding(p)
  BY <1>6 DEF Folding, Observe, FoldContent, FoldMisses, OpenWireRefused, BindPending,
     BindMisses, WireTurnEnd, ReviseSkipped, SealPosition, RemoveIfBridge, ForwardEnds
<1> QED BY <1>1, <1>2, <1>3, <1>4, <1>5, <1>6

\* So does the environment.
LEMMA EnvironmentStill ==
    ASSUME Environment
    PROVE  UNCHANGED <<handles, holders, nextSeq, closedBy>>
BY DEF registry, slots, claims, locals, Environment, ReservePrompt, ReserveShell, OpenAnyway,
   Respond, CallFails, CtxDies, RetireBridge, BridgeDies, ReadFrame

\* A goroutine enters finalizeTurn: for the chat's own turn, for none, or, a caller, for
\* the turn whose handle it holds.
Names(p) ==
    /\ phase[p] = "none"
    /\ UNCHANGED <<slots, records, claims, todo, handles, turnOf>>
    /\ \E t \in TurnIds \cup {NoTurn}, c \in Closers :
           /\ Finalize(p, t, c)
           /\ t \in {own, NoTurn} \/ (p \in Callers /\ t = turnOf[p] /\ t \in handles[p])

\* A step that closes, opens and hands out nothing.
Idles ==
    /\ UNCHANGED <<slots, records, claims, phase, target, todo, handles>>
    /\ \A p \in Callers : turnOf'[p] \in {turnOf[p], NoTurn}

\* The steps that name, claim, close, open or let go of a turn.
Handling(p) ==
    \/ Names(p) \/ SnapshotTurns(p) \/ SweepTurn(p) \/ WireTurnEnd(p) \/ Finalizing(p)
    \/ OpenTurn(p) \/ StartTurn(p) \/ OpenWireTurn(p) \/ BindPending(p)
    \/ ReviseTurnBinding(p) \/ DropTurn(p) \/ ReleaseTurn(p)

\* A call that fails or ends, and a prompt that never started, close the caller's own
\* turn; a lost bracket and a retirement close the chat's.
LEMMA NamingSteps ==
    ASSUME TypeInv, RouteInv, NEW p \in Threads, Run(p), ~Handling(p)
    PROVE  Idles
<1> USE DEF TypeInv, TypeOK, registry, closing, locals, At, AtFrame
<1>1. ASSUME NEW c \in Closers, p \in Callers, phase[p] = "none", turnOf[p] \in handles[p],
             Finalize(p, turnOf[p], c),
             UNCHANGED <<slots, records, claims, todo, handles, turnOf>>
      PROVE  FALSE
  <2>1. turnOf[p] \in TurnIds \cup {NoTurn}
    BY <1>1 DEF LocalsOK
  <2> QED BY <1>1, <2>1 DEF Handling, Names
<1>2. CASE Admission(p)
  <2>1. CASE CloseBeforeStart(p)
    <3>1. p \in Callers /\ turnOf[p] \in handles[p]
      BY <2>1 DEF CloseBeforeStart, Callers, RouteInv, CarriesOwn, Carries, Carrying
    <3> QED BY <1>1, <2>1, <3>1 DEF CloseBeforeStart, Closers
  <2>2. CASE OpenRefused(p) \/ Unreserve(p) \/ Return(p)
    BY <2>2 DEF OpenRefused, Unreserve, Return, Idles, LocalsOK
  <2> QED BY <1>2, <2>1, <2>2 DEF Admission, Handling
<1>3. CASE Opening(p)
  <2>1. CASE CloseTurnsOnRetire(p)
    <3>1. CASE Finalize(p, own, "bridgeDeath")
      <4>1. own \in TurnIds \cup {NoTurn} /\ "bridgeDeath" \in Closers
        BY DEF RegistryOK, Closers
      <4>2. Names(p)
        BY <2>1, <3>1, <4>1 DEF CloseTurnsOnRetire, Names
      <4> QED BY <4>2 DEF Handling
    <3>2. CASE UNCHANGED closing
      BY <2>1, <3>2 DEF CloseTurnsOnRetire, Idles
    <3> QED BY <2>1, <3>1, <3>2 DEF CloseTurnsOnRetire
  <2> QED BY <1>3, <2>1 DEF Opening, ReuseBridge, SpawnBridge, StartOk, CheckRetired,
             OpenBridgeFails, AcquireSlot, Idles
<1>4. CASE Settling(p)
  <2>1. CASE StartRefused(p)
    <3>1. p \in Callers /\ turnOf[p] \in handles[p]
      BY <2>1 DEF StartRefused, RouteInv, CarriesOwn, Carries, Carrying
    <3>2. CASE Finalize(p, turnOf[p], "promptFailure")
      BY <1>1, <2>1, <3>1, <3>2 DEF StartRefused, Closers
    <3>3. CASE UNCHANGED closing
      BY <2>1, <3>3 DEF StartRefused, Idles
    <3> QED BY <2>1, <3>2, <3>3 DEF StartRefused
  <2>2. CASE ShellDone(p)
    <3>1. p \in Callers /\ turnOf[p] \in handles[p]
      BY <2>2 DEF ShellDone, Callers, RouteInv, CarriesOwn, Carries, Carrying
    <3> QED BY <1>1, <2>2, <3>1 DEF ShellDone, Closers
  <2>3. CASE SettleReached(p)
    <3>1. p \in Callers /\ turnOf[p] \in handles[p]
      BY <2>3 DEF SettleReached, Callers, RouteInv, CarriesOwn, Carries, Carrying
    <3> QED BY <1>1, <2>3, <3>1 DEF SettleReached, Closers
  <2> QED BY <1>4, <2>1, <2>2, <2>3
          DEF Settling, Handling, SettleParks, SettleDefers, AwaitTurn, ReleaseSlot, Idles
<1>5. CASE Recovering(p)
  BY <1>5 DEF Recovering, Handling, Gate, ReserveRetry, StopBridge, Idles
<1>6. CASE Folding(p)
  <2>1. CASE BindMisses(p)
    <3>1. Lost \in {own, NoTurn} /\ Lost \in TurnIds \cup {NoTurn} /\ "bracketLost" \in Closers
      BY DEF Lost, RegistryOK, Closers
    <3>2. CASE Finalize(p, Lost, "bracketLost")
      <4>1. Names(p)
        BY <2>1, <3>1, <3>2 DEF BindMisses, Names
      <4> QED BY <4>1 DEF Handling
    <3>3. CASE UNCHANGED closing
      BY <2>1, <3>3 DEF BindMisses, Idles
    <3> QED BY <2>1, <3>2, <3>3 DEF BindMisses
  <2> QED BY <1>6, <2>1 DEF Folding, Handling, Observe, FoldContent, FoldMisses,
             OpenWireRefused, ReviseSkipped, SealPosition, RemoveIfBridge, ForwardEnds, Idles
<1> QED BY <1>2, <1>3, <1>4, <1>5, <1>6 DEF Run, Handling

\* The environment only has a call fail.
LEMMA NamingEnvironment ==
    ASSUME TypeInv, RouteInv, Environment, ~Idles
    PROVE  \E p \in Threads : Names(p)
<1> USE DEF TypeInv, TypeOK, registry, closing, locals, At
<1>1. ASSUME NEW d \in Drivers, CallFails(d) PROVE \E p \in Threads : Names(p)
  <2>1. d \in Callers /\ turnOf[d] \in handles[d]
    BY <1>1 DEF CallFails, Callers, RouteInv, CarriesOwn, Carries, Carrying
  <2>2. turnOf[d] \in TurnIds \cup {NoTurn} /\ "promptFailure" \in Closers
    BY <2>1 DEF LocalsOK, Closers
  <2>3. Names(d)
    BY <1>1, <2>1, <2>2 DEF CallFails, Names
  <2> QED BY <2>1, <2>3 DEF Threads
<1> QED BY <1>1 DEF Environment, ReservePrompt, ReserveShell, OpenAnyway, Respond, CtxDies,
           RetireBridge, BridgeDies, ReadFrame, Idles

\* The turns a goroutine names stay turns of the log.
LEMMA AskedKept ==
    ASSUME ClosingInv, Asked, nextSeq' \in Nat, nextSeq <= nextSeq',
           \A p \in Threads : target'[p] \in {target[p], own, NoTurn}
                              \/ target'[p] <= nextSeq,
           \A p \in Threads : \A i \in DOMAIN todo'[p] : todo'[p][i] <= nextSeq,
           \A p \in Threads : todo'[p] \in Seq(TurnIds),
           \A p \in Callers : turnOf'[p] \in {turnOf[p], NoTurn, nextSeq'},
           target' \in [Threads -> TurnIds \cup {NoTurn}]
    PROVE  Asked'
<1> USE DEF ClosingInv, TypeInv, TypeOK
<1>1. nextSeq \in Nat /\ own <= nextSeq /\ own \in Nat
  BY DEF RegistryOK, TurnIds, SlotInv, Fresh, NoTurn
<1>2. \A p \in Threads : target'[p] <= nextSeq'
  <2> SUFFICES ASSUME NEW p \in Threads PROVE target'[p] <= nextSeq'
    OBVIOUS
  <2>1. target'[p] \in Int
    BY DEF TurnIds, NoTurn
  <2>2. target'[p] <= nextSeq
    BY <1>1 DEF Asked, NoTurn
  <2> QED BY <1>1, <2>1, <2>2
<1>3. \A p \in Threads : \A i \in DOMAIN todo'[p] : todo'[p][i] <= nextSeq'
  <2> SUFFICES ASSUME NEW p \in Threads, NEW i \in DOMAIN todo'[p]
               PROVE  todo'[p][i] <= nextSeq'
    OBVIOUS
  <2>1. todo'[p] \in Seq(TurnIds) /\ todo'[p][i] <= nextSeq
    OBVIOUS
  <2>2. todo'[p][i] \in TurnIds
    BY <2>1
  <2>3. todo'[p][i] \in Int
    BY <2>2 DEF TurnIds
  <2> QED BY <1>1, <2>1, <2>3
<1>4. \A p \in Callers : turnOf'[p] <= nextSeq'
  BY <1>1 DEF Asked, LocalsOK, TurnIds, NoTurn
<1> QED BY <1>2, <1>3, <1>4 DEF Asked

\* A snapshot and a sweep name open turns, everybody else the chat's own or its own.
LEMMA AskedStep ==
    ASSUME ClosingInv, ClosingInv', Asked, NEW p \in Threads, Handling(p)
    PROVE  Asked'
<1> USE DEF ClosingInv, TypeInv, TypeOK
<1>0. /\ nextSeq \in Nat /\ nextSeq' \in Nat
      /\ target' \in [Threads -> TurnIds \cup {NoTurn}]
      /\ todo' \in [Threads -> Seq(TurnIds)]
  BY DEF RegistryOK, GoroutinesOK, TurnIds
<1>1. \A q \in Threads : \A i \in DOMAIN todo[q] : todo[q][i] <= nextSeq
  BY DEF Asked
<1> USE DEF registry, slots, closing, locals, At, AtFrame
<1>2. CASE Names(p)
  <2>1. PICK t \in TurnIds \cup {NoTurn}, c \in Closers :
            /\ Finalize(p, t, c)
            /\ t \in {own, NoTurn} \/ (p \in Callers /\ t = turnOf[p])
    BY <1>2 DEF Names
  <2>2. \A q \in Threads : target'[q] \in {target[q], own, NoTurn} \/ target'[q] <= nextSeq
    BY <2>1 DEF Finalize, GoroutinesOK, Asked
  <2> QED BY <1>0, <1>1, <1>2, <2>2, AskedKept DEF Names
<1>3. CASE SnapshotTurns(p)
  <2>1. own <= nextSeq /\ pending <= nextSeq
    BY DEF SlotInv, Fresh
  <2>2. \A i \in DOMAIN OpenTurnIDs : OpenTurnIDs[i] \in {own, pending}
    BY DEF OpenTurnIDs
  <2>3. \A q \in Threads : \A i \in DOMAIN todo'[q] : todo'[q][i] <= nextSeq
    BY <1>1, <1>3, <2>1, <2>2 DEF SnapshotTurns, GoroutinesOK
  <2> QED BY <1>0, <1>3, <2>3, AskedKept DEF SnapshotTurns
<1>4. CASE SweepTurn(p)
  <2>1. /\ todo[p] \in Seq(TurnIds) /\ todo[p] # <<>>
        /\ \A q \in Threads : todo'[q] = IF q = p THEN Tail(todo[p]) ELSE todo[q]
        /\ \A q \in Threads : target'[q] = IF q = p THEN Head(todo[p]) ELSE target[q]
    BY <1>4 DEF SweepTurn, Finalize, GoroutinesOK
  <2>2. \A i \in DOMAIN Tail(todo[p]) : i + 1 \in DOMAIN todo[p] /\ Tail(todo[p])[i] = todo[p][i + 1]
    BY <2>1
  <2>3. Head(todo[p]) <= nextSeq
    BY <1>1, <2>1
  <2>4. \A q \in Threads : \A i \in DOMAIN todo'[q] : todo'[q][i] <= nextSeq
    BY <1>1, <2>1, <2>2
  <2> QED BY <1>0, <1>4, <2>1, <2>3, <2>4, AskedKept DEF SweepTurn
<1>5. CASE WireTurnEnd(p) \/ StartTurn(p) \/ BindPending(p)
  BY <1>0, <1>1, <1>5, AskedKept DEF WireTurnEnd, StartTurn, BindPending
<1>6. CASE Finalizing(p)
  <2>1. \A q \in Threads : target'[q] \in {target[q], own, NoTurn}
    BY <1>6 DEF Finalizing, ClaimTurn, ClaimOwn, ClaimLost, CloseTurn, Finish, EndFinalize,
       GoroutinesOK
  <2> QED BY <1>0, <1>1, <1>6, <2>1, AskedKept
          DEF Finalizing, ClaimTurn, ClaimOwn, ClaimLost, CloseTurn, Finish
<1>7. CASE OpenTurn(p)
  <2>1. nextSeq' = nextSeq + 1 /\ \A q \in Callers : turnOf'[q] \in {turnOf[q], nextSeq'}
    BY <1>7 DEF OpenTurn, OpenRecord, LocalsOK
  <2> QED BY <1>0, <1>1, <1>7, <2>1, AskedKept DEF OpenTurn
<1>8. CASE OpenWireTurn(p) \/ ReviseTurnBinding(p)
  BY <1>0, <1>1, <1>8, AskedKept DEF OpenWireTurn, ReviseTurnBinding, OpenRecord
<1>9. CASE DropTurn(p) \/ ReleaseTurn(p)
  BY <1>0, <1>1, <1>9, AskedKept DEF DropTurn, ReleaseTurn, GiveUp
<1> QED BY <1>2, <1>3, <1>4, <1>5, <1>6, <1>7, <1>8, <1>9 DEF Handling
\* While a prompt waits behind another one's turn, its turn is aimed at by its caller
\* alone: a caller names its own turn, a bracket and a retirement name own, and a sweep
\* that lists both comes to own first, whose claim ends the wait.
LEMMA BehindStep ==
    ASSUME RetainInv, ClosingInv', NEW p \in Threads, Handling(p)
    PROVE  BehindInv'
<1> USE DEF RetainInv, NamedInv, ClosingInv, TypeInv, TypeOK
<1> SUFFICES ASSUME PromptBehind', NEW q \in Threads
             PROVE  AimsHeld(q)' /\ ListsAfter(q)'
  BY DEF BehindInv
<1> USE DEF registry, slots, records, claims, closing, locals, At, AtFrame
<1>0. ASSUME PromptBehind, UNCHANGED <<own, pending, phase, target, todo, handles>>
      PROVE  AimsHeld(q)' /\ ListsAfter(q)'
  BY <1>0 DEF BehindInv, AimsHeld, Aims, ListsAfter, Lists
<1>1. CASE Names(p)
  <2>1. PICK t \in TurnIds \cup {NoTurn}, c \in Closers :
            /\ Finalize(p, t, c)
            /\ t \in {own, NoTurn} \/ (p \in Callers /\ t \in handles[p])
    BY <1>1 DEF Names
  <2>2. PromptBehind /\ UNCHANGED <<own, pending, todo, handles>> /\ phase[p] = "none"
    BY <1>1 DEF Names, PromptBehind
  <2>3. AimsHeld(q)'
    BY <2>1, <2>2 DEF Finalize, GoroutinesOK, BehindInv, AimsHeld, Aims, PromptBehind
  <2>4. ListsAfter(q)'
    BY <2>1, <2>2 DEF Finalize, GoroutinesOK, BehindInv, ListsAfter, Lists
  <2> QED BY <2>3, <2>4
<1>2. CASE SnapshotTurns(p)
  <2>1. /\ PromptBehind /\ UNCHANGED <<own, pending, phase, target, handles>>
        /\ phase[p] = "none" /\ own # NoTurn
        /\ todo'[q] = IF q = p THEN OpenTurnIDs ELSE todo[q]
    BY <1>2 DEF SnapshotTurns, PromptBehind, GoroutinesOK
  <2>2. AimsHeld(q)'
    BY <2>1 DEF BehindInv, AimsHeld, Aims
  <2>3. OpenTurnIDs[1] = own
    BY <2>1 DEF OpenTurnIDs, PromptBehind
  <2>4. ListsAfter(q)'
    BY <2>1, <2>3 DEF BehindInv, ListsAfter, Lists
  <2> QED BY <2>2, <2>4
<1>3. CASE SweepTurn(p)
  <2>1. /\ PromptBehind /\ UNCHANGED <<own, pending, handles>> /\ phase[p] = "none"
        /\ todo[p] \in Seq(TurnIds) /\ todo[p] # <<>>
    BY <1>3 DEF SweepTurn, PromptBehind, GoroutinesOK
  <2>2. /\ phase'[q] = IF q = p THEN "claim" ELSE phase[q]
        /\ target'[q] = IF q = p THEN todo[p][1] ELSE target[q]
        /\ todo'[q] = IF q = p THEN Tail(todo[p]) ELSE todo[q]
    BY <1>3, <2>1 DEF SweepTurn, Finalize, GoroutinesOK
  <2>3. Lists(p, pending) => todo[p][1] = own
    BY <2>1 DEF BehindInv, ListsAfter
  <2>4. todo[p][1] = pending => Lists(p, pending)
    BY <2>1 DEF Lists
  <2>5. AimsHeld(q)'
    BY <2>1, <2>2, <2>3, <2>4 DEF BehindInv, AimsHeld, Aims, PromptBehind
  <2>6. ASSUME q = p, Lists(p, pending)' PROVE Lists(p, pending)
    <3>1. PICK i \in DOMAIN Tail(todo[p]) : Tail(todo[p])[i] = pending
      BY <2>1, <2>2, <2>6 DEF Lists
    <3>2. i + 1 \in DOMAIN todo[p] /\ todo[p][i + 1] = pending
      BY <2>1, <3>1
    <3> QED BY <3>2 DEF Lists
  <2>7. ListsAfter(q)'
    BY <2>1, <2>2, <2>3, <2>6 DEF BehindInv, ListsAfter, Lists
  <2> QED BY <2>5, <2>7
<1>4. CASE WireTurnEnd(p)
  <2>1. /\ PromptBehind /\ UNCHANGED <<own, pending, target, todo, handles>>
        /\ phase[p] = "none" /\ phase'[q] = IF q = p THEN "claimOwn" ELSE phase[q]
    BY <1>4 DEF WireTurnEnd, PromptBehind, GoroutinesOK
  <2> QED BY <2>1 DEF BehindInv, AimsHeld, Aims, ListsAfter, Lists
<1>5. CASE ClaimTurn(p)
  <2>1. /\ target[p] \in TurnIds /\ UNCHANGED <<own, pending, source, target, todo, handles>>
        /\ finalizing' = [finalizing EXCEPT ![target[p]] = TRUE]
        /\ phase[p] = "claim" /\ phase'[q] = IF q = p THEN "effects" ELSE phase[q]
    BY <1>5 DEF ClaimTurn, Claimable, Live, GoroutinesOK, NoTurn
  <2>2. PromptBehind /\ target[p] # own
    BY <2>1 DEF PromptBehind, RegistryOK, NoTurn
  <2> QED BY <2>1, <2>2 DEF BehindInv, AimsHeld, Aims, ListsAfter, Lists
<1>6. CASE ClaimOwn(p)
  BY <1>6 DEF ClaimOwn, OwnLive, PromptBehind, RegistryOK, NoTurn
<1>7. CASE ClaimLost(p)
  <2>1. /\ PromptBehind /\ UNCHANGED <<own, pending, todo, handles>>
        /\ phase'[q] = IF q = p THEN "none" ELSE phase[q]
        /\ q # p => target'[q] = target[q]
    BY <1>7 DEF ClaimLost, EndFinalize, PromptBehind, GoroutinesOK
  <2>2. DoorOpen
    <3>1. ASSUME NEW u \in Threads, AtWork(u, own) PROVE FALSE
      BY <2>1, <3>1 DEF PromptBehind, ClaimInv, Owned, Working, AtWork
    <3> QED BY <3>1 DEF DoorOpen, ClaimInv, ShutDoorHasCloser
  <2>3. ~(phase[p] = "claim" /\ target[p] = own)
    BY <1>7, <2>1, <2>2 DEF ClaimLost, Claimable, Live, PromptBehind
  <2> QED BY <2>1, <2>3 DEF BehindInv, AimsHeld, Aims, ListsAfter, Lists
<1>8. CASE CloseTurn(p)
  <2>1. /\ PromptBehind /\ UNCHANGED <<own, pending, target, todo, handles>>
        /\ phase[p] = "effects" /\ phase'[q] = IF q = p THEN "publish" ELSE phase[q]
    BY <1>8 DEF CloseTurn, PromptBehind, GoroutinesOK
  <2> QED BY <2>1 DEF BehindInv, AimsHeld, Aims, ListsAfter, Lists
<1>9. CASE Finish(p)
  <2>1. /\ PromptBehind /\ UNCHANGED <<own, pending, todo, handles>> /\ phase[p] = "publish"
        /\ phase'[q] = IF q = p THEN "none" ELSE phase[q]
        /\ q # p => target'[q] = target[q]
    BY <1>9 DEF Finish, EndFinalize, Cleared, PromptBehind, GoroutinesOK
  <2> QED BY <2>1 DEF BehindInv, AimsHeld, Aims, ListsAfter, Lists
<1>10. CASE OpenTurn(p)
  <2>1. /\ pending' = nextSeq + 1 /\ UNCHANGED <<phase, target, todo>>
    BY <1>10 DEF OpenTurn, OpenRecord, SlotFree, PromptBehind, RegistryOK
  <2>2. target[q] # pending' /\ ~Lists(q, pending')
    <3>1. nextSeq \in Nat /\ ~(nextSeq + 1 <= nextSeq)
      BY DEF RegistryOK, TurnIds
    <3> QED BY <2>1, <3>1 DEF Asked, Lists
  <2> QED BY <2>1, <2>2 DEF AimsHeld, Aims, ListsAfter, Lists
<1>11. CASE StartTurn(p)
  <2>1. PromptBehind /\ UNCHANGED <<own, pending>>
    BY <1>11 DEF StartTurn, Claimable, Live, PromptBehind
  <2> QED BY <1>0, <1>11, <2>1 DEF StartTurn
<1>12. CASE OpenWireTurn(p) \/ ReviseTurnBinding(p)
  <2>1. nextSeq + 1 \in TurnIds
    BY <1>12, BoundsAssumption DEF OpenWireTurn, ReviseTurnBinding, OpenRecord, RegistryOK,
       TurnIds
  <2>2. own' = nextSeq + 1 /\ source'[own'] = "wire_turn_start"
    BY <1>12, <2>1 DEF OpenWireTurn, ReviseTurnBinding, OpenRecord, RegistryOK, PromptClass
  <2> QED BY <2>2 DEF PromptBehind, PromptClass
<1>13. CASE BindPending(p)
  BY <1>13 DEF BindPending, PromptBehind
<1>14. CASE DropTurn(p) \/ ReleaseTurn(p)
  <2>1. /\ PromptBehind /\ UNCHANGED <<own, pending, phase, target, todo>>
        /\ phase[p] = "none"
        /\ q \in Callers /\ q # p => handles'[q] = handles[q]
    BY <1>14 DEF DropTurn, ReleaseTurn, GiveUp, PromptBehind, LocalsOK
  <2> QED BY <2>1 DEF BehindInv, AimsHeld, Aims, ListsAfter, Lists
<1> QED BY <1>1, <1>2, <1>3, <1>4, <1>5, <1>6, <1>7, <1>8, <1>9, <1>10, <1>11, <1>12, <1>13,
           <1>14 DEF Handling, Finalizing

\* A turn leaves its slot with a closer still at work on it in one way: overwritten as it
\* waits behind another one's turn, when that closer is the caller that holds it.
LEMMA WorkerStep ==
    ASSUME RetainInv, ClosingInv', NEW p \in Threads, Handling(p)
    PROVE  WorkerInv'
<1> USE DEF RetainInv, NamedInv, ClosingInv, TypeInv, TypeOK
<1> SUFFICES ASSUME NEW q \in Threads, NEW t \in TurnIds, AtWork(q, t)', ~Live(t)'
             PROVE  q \in Callers /\ t \in handles'[q]
  BY DEF WorkerInv
<1> USE DEF registry, slots, records, claims, closing, locals, At, AtFrame
<1>0. ASSUME AtWork(q, t), ~Live(t), UNCHANGED handles PROVE q \in Callers /\ t \in handles'[q]
  BY <1>0 DEF WorkerInv
<1>1. CASE Names(p) \/ SnapshotTurns(p) \/ SweepTurn(p) \/ WireTurnEnd(p)
  <2>1. AtWork(q, t) /\ ~Live(t) /\ UNCHANGED handles
    BY <1>1 DEF Names, SnapshotTurns, SweepTurn, WireTurnEnd, Finalize, AtWork, Live,
       GoroutinesOK
  <2> QED BY <1>0, <2>1
<1>2. CASE ClaimTurn(p) \/ ClaimOwn(p)
  <2>1. AtWork(q, t) /\ ~Live(t) /\ UNCHANGED handles
    BY <1>2 DEF ClaimTurn, Claimable, ClaimOwn, OwnLive, AtWork, Live, GoroutinesOK
  <2> QED BY <1>0, <2>1
<1>3. CASE ClaimLost(p) \/ CloseTurn(p)
  <2>1. AtWork(q, t) /\ ~Live(t) /\ UNCHANGED handles
    BY <1>3 DEF ClaimLost, EndFinalize, CloseTurn, AtWork, Live, GoroutinesOK
  <2> QED BY <1>0, <2>1
<1>4. CASE Finish(p)
  <2>1. AtWork(q, t) /\ q # p /\ UNCHANGED handles /\ AtWork(p, target[p])
    BY <1>4 DEF Finish, EndFinalize, AtWork, GoroutinesOK
  <2>2. t # target[p]
    BY <2>1 DEF ClaimInv, ClaimExclusive
  <2>3. ~Live(t)
    BY <1>4, <2>2 DEF Finish, Cleared, Live
  <2> QED BY <1>0, <2>1, <2>3
<1>5. CASE OpenTurn(p)
  <2>1. AtWork(q, t) /\ (~Live(t) \/ t = nextSeq + 1)
    BY <1>5 DEF OpenTurn, OpenRecord, SlotFree, AtWork, Live
  <2>2. t <= nextSeq
    BY <2>1 DEF Asked, AtWork
  <2>3. ~Live(t)
    BY <2>1, <2>2 DEF RegistryOK, TurnIds
  <2>4. q \in Callers /\ t \in handles[q]
    BY <2>1, <2>3 DEF WorkerInv
  <2> QED BY <1>5, <2>4 DEF OpenTurn, LocalsOK
<1>6. CASE OpenWireTurn(p) \/ StartTurn(p) \/ BindPending(p)
  <2>1. AtWork(q, t) /\ ~Live(t) /\ UNCHANGED handles
    BY <1>6 DEF OpenWireTurn, OpenRecord, StartTurn, Claimable, BindPending, Binds, AtWork,
       Live, PromptClass
  <2> QED BY <1>0, <2>1
<1>7. CASE ReviseTurnBinding(p)
  <2>1. AtWork(q, t) /\ UNCHANGED handles
    BY <1>7 DEF ReviseTurnBinding, AtWork
  <2>2. CASE Live(t)
    <3>1. t = pending /\ PromptBehind
      BY <1>7, <2>2 DEF ReviseTurnBinding, Revisable, OwnLive, OpenRecord, Live, PromptBehind
    <3> QED BY <2>1, <3>1 DEF BehindInv, AimsHeld, Aims, AtWork
  <2> QED BY <1>0, <2>1, <2>2
<1>8. CASE DropTurn(p) \/ ReleaseTurn(p)
  <2>1. /\ AtWork(q, t) /\ ~Live(t) /\ phase[p] = "none"
        /\ q \in Callers /\ q # p => handles'[q] = handles[q]
    BY <1>8 DEF DropTurn, ReleaseTurn, GiveUp, AtWork, Live, LocalsOK
  <2> QED BY <2>1 DEF WorkerInv, AtWork
<1> QED BY <1>1, <1>2, <1>3, <1>4, <1>5, <1>6, <1>7, <1>8 DEF Handling, Finalizing

\* An empty chat hands out nothing.
LEMMA RetainInit == Init => RetainInv
<1> SUFFICES ASSUME Init PROVE RetainInv
  OBVIOUS
<1>1. HandleInv
  BY DEF Init, HandleInv, OpenedHeld, OneHolder, Counted, RetainedWhileHeld, Held
<1>2. \A p \in Callers : pc[p] = "idle" /\ then[p] = "release"
  BY CallersApart DEF Init, Threads
<1>3. RouteInv
  BY <1>2 DEF RouteInv, CarriesOwn, RouteKept, OnRoute, Carries, Carrying
<1>4. NamedInv
  BY DEF Init, NamedInv, Asked, BehindInv, PromptBehind, WorkerInv, AtWork, NoTurn
<1> QED BY <1>1, <1>3, <1>4, ClosingInit DEF RetainInv

\* A step that closes, opens and hands out nothing keeps what the goroutines name.
LEMMA NamedIdles ==
    ASSUME RetainInv, ClosingInv', Idles
    PROVE  NamedInv'
<1> USE DEF RetainInv, NamedInv, Idles, slots, records, claims, ClosingInv, TypeInv, TypeOK
<1>1. Asked'
  <2>1. \A p \in Threads : \A i \in DOMAIN todo[p] : todo[p][i] <= nextSeq
    BY DEF Asked
  <2>2. /\ nextSeq \in Nat /\ target' \in [Threads -> TurnIds \cup {NoTurn}]
        /\ todo' \in [Threads -> Seq(TurnIds)]
    BY DEF RegistryOK, GoroutinesOK, TurnIds
  <2> QED BY <2>1, <2>2, AskedKept
<1>2. BehindInv'
  BY DEF BehindInv, PromptBehind, AimsHeld, Aims, ListsAfter, Lists
<1>3. WorkerInv'
  BY DEF WorkerInv, AtWork, Live
<1> QED BY <1>1, <1>2, <1>3

\* RetainInv is inductive.
LEMMA RetainStep == RetainInv /\ [Next]_vars => RetainInv'
<1> SUFFICES ASSUME RetainInv, [Next]_vars PROVE RetainInv'
  OBVIOUS
<1>0. ClosingInv' /\ GoneKept /\ TypeInv /\ RouteInv
  BY ClosingStep, GoneStays DEF RetainInv, ClosingInv
<1>1. CASE UNCHANGED vars
  <2>1. HandleInv'
    BY <1>0, <1>1, HandleFrame DEF RetainInv, vars, registry, slots, claims, locals
  <2>2. RouteInv'
    BY <1>0, <1>1 DEF RouteInv, CarriesOwn, RouteKept, vars, locals
  <2>3. Idles
    BY <1>1 DEF Idles, vars, registry, closing, locals
  <2> QED BY <1>0, <2>1, <2>2, <2>3, NamedIdles DEF RetainInv
<1>2. CASE Environment
  <2>1. HandleInv' /\ RouteInv'
    BY <1>0, <1>2, EnvironmentStill, HandleFrame, RouteEnvironment DEF RetainInv
  <2>2. CASE Idles
    BY <1>0, <2>1, <2>2, NamedIdles DEF RetainInv
  <2>3. CASE ~Idles
    <3>1. PICK p \in Threads : Handling(p)
      BY <1>0, <1>2, <2>3, NamingEnvironment DEF Handling
    <3> QED BY <1>0, <2>1, <3>1, AskedStep, BehindStep, WorkerStep DEF RetainInv, NamedInv
  <2> QED BY <2>2, <2>3
<1>3. ASSUME NEW p \in Threads, Run(p) PROVE RetainInv'
  <2>1. NamedInv'
    <3>1. CASE Handling(p)
      BY <1>0, <3>1, AskedStep, BehindStep, WorkerStep DEF RetainInv, NamedInv
    <3>2. CASE ~Handling(p)
      BY <1>0, <1>3, <3>2, NamingSteps, NamedIdles
    <3> QED BY <3>1, <3>2
  <2>2. HandleInv' /\ RouteInv'
    <3>1. CASE OpenTurn(p) \/ DropTurn(p) \/ ReleaseTurn(p) \/ Return(p)
      BY <1>0, <3>1, HandOver, DropTurnStep, ReleaseTurnStep, ReturnHandles DEF OpenTurn
    <3>2. CASE Finish(p)
      BY <1>0, <3>2, FinishRetains, RoutedOthers, RoutedKeeps DEF Finalizing
    <3>3. CASE OpenWireTurn(p) \/ ReviseTurnBinding(p)
      BY <1>0, <3>3, OpenWireHandles, RoutedOthers, RoutedKeeps
         DEF Folding, OpenWireTurn, ReviseTurnBinding, OpenRecord, claims, locals
    <3>4. CASE ~(OpenTurn(p) \/ DropTurn(p) \/ ReleaseTurn(p) \/ Return(p)) /\ ~Finish(p)
               /\ ~OpenWireTurn(p) /\ ~ReviseTurnBinding(p)
      <4>1. HandleInv'
        BY <1>0, <1>3, <3>4, HandlesStill, HandleFrame DEF RetainInv, Run, Finalizing, Admission
      <4>2. Routed(p)
        BY <1>0, <1>3, <3>4, RoutedOthers, RoutedAdmission, RoutedOpening, RoutedSettling,
           RoutedRecovering DEF Run, Admission
      <4> QED BY <1>0, <4>1, <4>2, RoutedKeeps
    <3> QED BY <3>1, <3>2, <3>3, <3>4
  <2> QED BY <1>0, <2>1, <2>2 DEF RetainInv
<1> QED BY <1>1, <1>2, <1>3 DEF Next

\* A caller reads the outcome of the turn it opened for as long as it holds the handle,
\* and a record nobody holds is dropped, for any prompts, shells, retries and deaths, and
\* an agent that opens turns of its own inside a prompt's bracket or not (openLocked's
\* hold, finish, release).
THEOREM HeldIsRetained == Spec => []RetainedWhileHeld
<1>1. RetainInv => RetainedWhileHeld
  BY DEF RetainInv, HandleInv
<1> QED BY <1>1, RetainInit, RetainStep, PTL DEF Spec
=============================================================================
