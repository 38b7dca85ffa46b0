SPECIFICATION Spec
CONSTANTS
    ToolNames <- MCToolNames
    AgentNames <- MCAgentNames
    PresetNames <- MCPresetNames
    Imports = {i1}
    User = User
    MaxEdits = 3
    None = None
INVARIANTS
    CompletedImportIsInForce
    UnresolvedIsReported
CHECK_DEADLOCK FALSE
