CONSTANTS
    Drivers = {d1}
    Shells = {}
    Openers = {}
    Retirers = {}
    Frames = {"turnEnd"}
    MaxTurns = 2
    MaxGens = 2
    MaxFrames = 1
SPECIFICATION Spec
INVARIANTS RetainedWhileHeld
