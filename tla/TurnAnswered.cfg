CONSTANTS
    Drivers = {d1}
    Shells = {}
    Openers = {}
    Retirers = {}
    Frames = {"content", "turnEnd"}
    MaxTurns = 2
    MaxGens = 1
    MaxFrames = 2
SPECIFICATION FairSpec
PROPERTIES DoorReopens DeathClosesTurns
