CONSTANTS
    a1 = a1
    c1 = c1
    w1 = w1
    w2 = w2
    r1 = r1
    NoAsset = NoAsset
    Assets <- MCAssets
    Callers <- MCCallers
    Workers <- MCWorkers
    Reapers <- MCReapers
    Files <- MCFiles
    FaultKinds <- AllFaults
    Antimalware = TRUE
    TotalParts = 1
    MaxRetries = 1
    MaxFaults = 1
SPECIFICATION Spec
SYMMETRY WorkerSymmetry
INVARIANTS
    TypeOK
    ServedIsClean
    ReadyIsComplete
    InfectedIsRemoved
