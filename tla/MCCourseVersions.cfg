CONSTANTS
    e1 = e1
    e2 = e2
    m1 = m1
    u1 = u1
    r1 = r1
    u2 = u2
    k1 = k1
    x1 = x1
    Blank = Blank
    Written = Written
    Top = Top
    Editors <- MCEditors
    Ids <- MCIds
    Kind <- MCKind
    StartTree <- MCTree
    Bodies <- MCBodies
    LastVersion = 3
    LastPosition = 2
    LastRevision = 2
    Budget = 4
SPECIFICATION Spec
SYMMETRY EditorSymmetry
INVARIANTS
    TypeOK
    CurrentIsPublished
    TreesHang
PROPERTIES
    PublishedIsImmutable
    PublicationIsSound
    SavesOverWhatWasRead
    ReorderMovesOne
CHECK_DEADLOCK FALSE
