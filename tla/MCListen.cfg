CONSTANTS
    l1 = l1
    l2 = l2
    v1 = v1
    v2 = v2
    a4 = a4
    b4 = b4
    a6 = a6
    Listener = {l1, l2}
    Id = {v1, v2}
    Node = {a4, b4, a6}
    Scenes <- MCScenes
    Wants <- MCWants
    FamilyOf <- MCFamilyOf
    Ttl = 1
    Grace = 1
    MaxValues = 1
    MaxTime = 2
    MaxSeen = 3
SPECIFICATION Spec
SYMMETRY MCSymmetry
INVARIANTS TypeOK RefCountExact SyncExact SeenIsHeld StoppedSilent ExpiryScheduled
CHECK_DEADLOCK FALSE
