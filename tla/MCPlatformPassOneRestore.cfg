SPECIFICATION Spec
CONSTANTS
    RestoreJob = {j1, j2}
    Request = {q1}
    Dump = {q1}
    NoRequest = NoRequest
    NoJob = NoJob
    MaxToggles = 0
    MaxRequests = 2
    MaxFaults = 1
    MaxDrift = 0
SYMMETRY Symmetry
INVARIANTS OneRestore
