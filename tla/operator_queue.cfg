CONSTANTS
    Replicas = {r1}
    SMs = {s1}
    p1 = p1
    p2 = p2
    p3 = p3
    k1 = k1
    k2 = k2
    Providers = {p1, p2, p3}
    Kinds = {k1, k2}
    KindOf <- Grouping
    NoRef = NoRef
    Cap = 1
    Election = TRUE
    MaxEdits = 2
    MaxFaults = 1
SPECIFICATION Spec
INVARIANTS IndexSound IndexTracks NoLostWakeup
PROPERTIES Settles
CHECK_DEADLOCK FALSE
