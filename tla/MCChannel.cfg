SPECIFICATION FairSpec
CONSTANTS
    Release = {r1, r2}
    Latest = latest
    NoTag = NoTag
    NoDigest = NoDigest
    MaxEdits = 2
    MaxPushes = 2
    MaxFaults = 2
PROPERTIES Settles NeverRollsBack RolledByPush
