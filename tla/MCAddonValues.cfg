SPECIFICATION FairSpec
CONSTANTS
    Value = {s1, s2}
    Generated = generated
    Field = {f1, f2}
    Charts = {{f1}, {f1, f2}}
    Uid = {u1, u2}
    Nobody = nobody
    MaxEdits = 1
    MaxFaults = 1
INVARIANTS ReferencedThere HandedStay
PROPERTIES HandedBack NeverOverwrites Tidy
CHECK_DEADLOCK FALSE
