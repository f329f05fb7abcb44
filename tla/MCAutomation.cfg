CONSTANTS
    Flows = {"f1", "f2"}
    Trigger <- PingPong
    Actions <- PingPongActions
    Workers = {w1}
    MaxDepth = 1
    MaxRuns = 3
    MaxChanges = 1
    MaxEdits = 1
    MaxFaults = 1
    w1 = w1
SPECIFICATION Spec
INVARIANTS TypeOK LoopsAreCut
PROPERTIES InOrder KeepsPipeline QueuedRunStarts
CHECK_DEADLOCK FALSE
