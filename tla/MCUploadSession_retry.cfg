CONSTANTS
    a1 = a1
    c1 = c1
    c2 = c2
    c3 = c3
    r1 = r1
    r2 = r2
    NoAsset = NoAsset
    Assets <- MCAssets
    Callers <- MCCallers
    Reapers <- MCReapers
    TotalParts <- MCTotalParts
    MinPart = 3
    MaxParts = 4
    Sizes <- MCSizes
    FileSize = 5
    MaxRetries = 1
SPECIFICATION UploadSpec
SYMMETRY CallerSymmetry
INVARIANTS
    CompletedIsOnItsWay
