SPECIFICATION FairSpec
CONSTANTS
    RestoreJob = {j1, j2}
    Request = {q1}
    Dump = {q1}
    NoRequest = NoRequest
    NoJob = NoJob
    MaxToggles = 0
    MaxRequests = 1
    MaxFaults = 1
    MaxDrift = 1
PROPERTIES NothingStartsDuringCopy RequestsEnd
