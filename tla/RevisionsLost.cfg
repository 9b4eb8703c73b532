SPECIFICATION Spec
CONSTANTS
    v1 = v1
    v2 = v2
    k1 = k1
    Values = {v1, v2}
    NonExistent = NonExistent
    Same = Same
    Keys = {k1}
    Width = 5
    MaxRounds = 4
    MaxDepth = 4
    Reconnects = TRUE
    Answers = {"response", "invalid name", "fault"}
SYMMETRY MCSymmetry
INVARIANTS
    WritesLand
