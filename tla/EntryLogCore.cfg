SPECIFICATION Spec
CONSTANTS
    MaxTurns = 3
    MaxPrompts = 2
    MaxLines = 6
    Entries = {"tool_call", "tool_result", "turn_bind"}
    MaxNotes = 1
    MaxCrashes = 1
INVARIANTS IndexMatchesDisk AckedIsDurable RewindsHold
PROPERTIES ServedClosed
