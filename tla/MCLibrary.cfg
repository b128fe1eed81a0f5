SPECIFICATION MCSpec
CONSTANTS
    Senders = {s1, s2}
    Cap = 1
    MaxSends = 1
    TrySends = TRUE
    MaxOdd = 1
    None = None
INVARIANTS  ReceiverNotStranded ContentsKept ReadRight
CHECK_DEADLOCK FALSE
SYMMETRY Symmetry
