SPECIFICATION Spec
CONSTANTS
    RestoreJob = {j1, j2}
    Request = {q1, q2}
    Dump = {q1}
    NoRequest = NoRequest
    NoJob = NoJob
    MaxToggles = 2
    MaxRequests = 1
    MaxFaults = 1
    MaxDrift = 0
SYMMETRY Symmetry
INVARIANTS ServesWholeCopy RestoresAlone
PROPERTIES AnsweredOnce VerifyWaitsForRealm KeepsRestorePromise
