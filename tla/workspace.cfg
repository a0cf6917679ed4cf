SPECIFICATION Spec
CONSTANTS
    Sessions = {a, b}
    Dir = {root, s1, s10}
    Root = root
    s1 = s1
    s10 = s10
    Reach <- Begins
    Users = {u1, u2}
    File = {f}
    Threshold = 1
    Chunk = 2
    Lengths = {1, 5}
    Offsets <- From
    MaxResults = 2
    MaxEnters = 2
    MaxWrites = 1
    NoText = NoText
SYMMETRY Symmetry
INVARIANTS TypeOK Kept ReadBack
CHECK_DEADLOCK FALSE
