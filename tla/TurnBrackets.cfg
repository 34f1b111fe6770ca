CONSTANTS
    Drivers = {d1}
    Shells = {}
    Openers = {}
    Retirers = {}
    Frames = {"content", "turnStart", "agentContent", "turnEnd"}
    MaxTurns = 3
    MaxGens = 1
    MaxFrames = 2
SPECIFICATION Spec
INVARIANTS TypeOK ClaimExclusive ClosedAtMostOnce ClosedHoldsNoSlot
PROPERTIES ImplementsLedger LeavesByClosing
