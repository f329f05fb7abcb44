CONSTANTS
    Flows = {"f1"}
    Trigger <- OwnFollowUp
    Actions <- FollowUpActions
    Workers = {w1}
    MaxDepth = 1
    MaxRuns = 3
    MaxChanges = 1
    MaxEdits = 1
    MaxFaults = 0
    w1 = w1
SPECIFICATION Spec
INVARIANTS LoopsAreCut
CHECK_DEADLOCK FALSE
