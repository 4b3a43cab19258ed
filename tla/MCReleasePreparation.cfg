SPECIFICATION CommandsSpec
CONSTANTS
    RustPackages = {"core"}
    WasmPackage = "wasm"
    WasmMinor = 6
    MaxMinor = 6
    MaxPatch = 1
    MaxRc = 3
    SupportMinors = {5}
    Derivations <- NextDerivations
    Requests <- Asked
    Histories <- Found
    MaxCommands = 3
    MaxCommits = 4
    MaxFaults = 1
INVARIANTS VettedIsCoherent SupportLineHasNoGaps
PROPERTIES NoLockSurvives PreparedIsCoherent LinesAdvance
CHECK_DEADLOCK FALSE
