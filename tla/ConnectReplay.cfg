SPECIFICATION Spec
CONSTANTS
    Kinds = {"pair", "login", "connect", "enrol"}
    Slot = {1, 2, 3}
    MaxTries = 3
    Scenes <- MCScenes
INVARIANTS
    LostAnswerReplayed
CHECK_DEADLOCK FALSE
