SPECIFICATION Spec
CONSTANTS
    ToolNames <- MCTwinNames
    AgentNames <- MCAgentNames
    PresetNames <- MCPresetNames
    Imports = {i1}
    User = User
    MaxEdits = 1
    None = None
INVARIANTS
    ImportedToolIsInForce
CHECK_DEADLOCK FALSE
