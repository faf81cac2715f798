SPECIFICATION FairBackup
CONSTANTS
    MaxJobs = 2
    MaxSwitches = 1
    MaxFails = 2
INVARIANTS DumpIsASuccess
PROPERTIES NeverBack BackupSettles
