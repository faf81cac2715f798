SPECIFICATION FairSpec
CONSTANTS
    Plain = {}
    Deployment = {dep}
    Job = {job}
    Policy = policy
    Uid = {u1, u2}
    Nobody = nobody
    Hand = hand
    Other = other
    MaxEdits = 1
    MaxFaults = 1
    MaxOthers = 1
PROPERTIES OthersKept PolicyFirst PolicyLast Converges
CHECK_DEADLOCK FALSE
