CONSTANTS
    a1 = a1
    c1 = c1
    w1 = w1
    w2 = w2
    r1 = r1
    NoAsset = NoAsset
    Assets <- MCAssets
    Callers <- MCCallers
    Workers <- OneWorker
    Reapers <- MCReapers
    Files <- FewFiles
    FaultKinds = {"crash", "error"}
    Antimalware = TRUE
    TotalParts = 1
    MaxRetries = 1
    MaxFaults = 2
SPECIFICATION FairSpec
INVARIANTS
    ScanProcessedIsDecided
    ReadyResourceIsServed
PROPERTY
    SurvivorsSettle
