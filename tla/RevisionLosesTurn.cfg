CONSTANTS
    Drivers = {d1}
    Shells = {}
    Openers = {}
    Retirers = {}
    Frames = {"turnStart", "agentContent"}
    MaxTurns = 3
    MaxGens = 1
    MaxFrames = 2
SPECIFICATION Spec
INVARIANTS NoTurnLost
