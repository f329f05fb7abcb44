\* Expects a counterexample to UnlockHolds.
SPECIFICATION TargetSpec
CONSTANTS
    Last = 2
    Jobs = {job}
    Requests = {desk}
    MaxUpsets = 1
    Null = Null
    Gone = Gone

PROPERTIES
    UnlockHolds
