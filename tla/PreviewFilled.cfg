SPECIFICATION Spec
CONSTANTS
    Chats = {"c1", "c2"}
    FailChats = {"c1"}
    MaxTexts = 2
    ComposerScenarios <- DraftScenarios
    MaxSteers = 3
    SteerScenarios <- DockScenarios
    RunNodes = {"n1", "n2"}
    MaxLog = 3
    RetryLimit = 2
    RunScenarios <- LiveRunScenarios
    Tol = 1
    Near = 1
    MaxHigh = 4
    MaxDefer = 1
    MaxAsks = 2
    MaxChanges = 2
    RailChats = {1, 2}
    MaxTurns = 3
    MaxActs = 3
INVARIANTS PreviewFilled
CHECK_DEADLOCK FALSE
