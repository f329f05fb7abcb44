\* Two periods, the job and one request at a time, one upset.
SPECIFICATION TargetSpec
CONSTANTS
    Last = 2
    Jobs = {job}
    Requests = {desk}
    MaxUpsets = 1
    Null = Null
    Gone = Gone
INVARIANT TargetTypeOK
PROPERTIES
    FailureIsActedOn
    LocksSubside
