CONSTANTS
    a = a
    b = b
    c = c
    Images = {a, b, c}
    NumSlots = 2
    NumBlocks = 2
    MaxScans = 3
    Setups <- OnlyOnKey
    NoImage = NoImage
    Sideload = Sideload
SPECIFICATION Spec
INVARIANTS NoSelfDelete
