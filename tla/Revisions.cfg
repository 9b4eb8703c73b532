SPECIFICATION MCSpec
CONSTANTS
    Values = {v1, v2}
    NonExistent = NonExistent
    Same = Same
    Keys = {k1}
    Width = 4
    MaxRounds = 4
    MaxDepth = 4
    Reconnects = TRUE
    Answers = {"response", "invalid name"}
    Unused = Unused
    NoWorker = NoWorker
    Gone = Gone
    NoHash = NoHash
    Unread = Unread
INVARIANTS
    WritesLand
    HangsAtLimit
    ChangesAreDirty
PROPERTIES
    RepeatableReads
    NothingForgotten
    Converges
CHECK_DEADLOCK FALSE
