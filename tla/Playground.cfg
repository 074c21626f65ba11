SPECIFICATION Spec
CONSTANTS
    MaxGen = 3
    MaxLetters = 2
    Says <- MCSays
    MaxMsgs = 3
    MaxStored = 2
    Kinds = {"delta", "snapshot", "plain"}
    Habits = {}
INVARIANTS TextExact QuietIsFinal NoOrphan Durable NeverWaitsInVain
PROPERTIES FinalStable
CHECK_DEADLOCK FALSE
