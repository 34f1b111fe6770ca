SPECIFICATION EditorSpec
CONSTANTS
    Files = {"f", "g"}
    Untracked = {}
    EditorScenarios <- TwoConflicts
PROPERTIES DirtyKeepsText
CHECK_DEADLOCK FALSE
