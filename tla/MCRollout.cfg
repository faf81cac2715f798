SPECIFICATION FairSpec
CONSTANTS
    Component = {c1, c2}
    Client = {c2}
    Image = {i1, bad}
    Pullable = {i1}
    MaxEdits = 2
    MaxFaults = 1
INVARIANTS ReadyMeansCameUp
PROPERTY PhaseSettles
