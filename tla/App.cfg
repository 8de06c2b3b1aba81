CONSTANTS
    a = a
    b = b
    c = c
    Images = {a, b, c}
    NumSlots = 2
    NumBlocks = 2
    MaxScans = 3
    Setups <- TurnsAndRaces
    NoImage = NoImage
    Sideload = Sideload
SPECIFICATION FairSpec
INVARIANTS RunsTheImageAskedFor Balanced LentIsAllocated NetworkSurvives
PROPERTIES OnKeyStops CommandAnswered
