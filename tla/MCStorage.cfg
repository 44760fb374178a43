CONSTANTS
    small = small
    large = large
    Key = {k1, k2}
    Id = {i1, i2, i3}
    Content = {small, large}
    Size <- MCSize
    MaxSize = 2
    Addr = {1, 2}
    NoValue = NoValue
    Ttl = 1
    Limit = 2
    MaxKeys = 1
    MaxValues = 2
    MaxTime = 1
    MaxDrift = 1
    SizeRange = 16
SYMMETRY MCSymmetry
SPECIFICATION Spec
INVARIANTS TypeOK TotalsExact QuotaExact LimitKept ExpiryScheduled HangNeedsDrift
CHECK_DEADLOCK FALSE
