SPECIFICATION NodeSpec
CONSTANTS
    NoArg = NoArg
    NoSpec = NoSpec
    NoPreset = NoPreset
    WASM_BINARY = WASM_BINARY
    KnownRelays = {"rococo-local", "westend-local", "dev"}
    Invocations <- MCInvocations
    InitialFile <- MCInitialFile
    RuntimeBenchmarks = FALSE
    MaxProcesses = 4
    NodesAmongFirst = 2
INVARIANTS
    NoPanic
    NoSilentDegradation
    ConfigsAgree
    ExportsAgree
    PurgeIsComplete
PROPERTIES
    AlwaysStops
CHECK_DEADLOCK FALSE
