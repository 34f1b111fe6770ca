CONSTANTS
    Drivers = {d1, d2}
    Shells = {s1}
    Openers = {o1}
    Retirers = {r1}
    Frames = {"turnEnd"}
    MaxTurns = 1
    MaxGens = 1
    MaxFrames = 1
SPECIFICATION Spec
INVARIANTS AdmissionExclusive ShutDoorHasCloser
SYMMETRY DriverSymmetry
