CONSTANTS
    Limits <- SmallLimits
    MagicBytes = 1
    AnsiBytes = 1
    CountBytes = 1
    Chunk = 2
    MaxFrames = 2
    MaxEngine = 1
    MaxVariant = 3
    EngineModules = {"core"}
    SystemModules = {"dx"}
    VariableWords <- SmallWords
    CommonWords = {"failed", "gpu", "oom", "<address>", "<number>"}
    Scenarios <- SmallScenarios
    MaxHistory = 2
    MaxClaims = 2
SPECIFICATION ProcessorSpec
INVARIANTS
    QuarantineJustified
    TailIsWhole
    GroupingStable
PROPERTY
    Cleared
