SPECIFICATION FairSpec
CONSTANTS
    JobName = {j1, j2}
    Fingerprint = {f1, f2}
    Request = {q1, q2}
    NoJob = NoJob
    NoFingerprint = NoFingerprint
    NoRequest = NoRequest
    MaxEdits = 2
    MaxFaults = 1
    Outcome <- MCOutcome
    NoText = NoText
    MaxChecks = 2
    IntMax = 7
INVARIANTS ReportIsFaithful
PROPERTIES KeepsPromise InFlightNotReplaced AnsweredByItsRun QuietAfterVerdict EveryChangeVerified
