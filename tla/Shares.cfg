SPECIFICATION Spec
CONSTANTS
    m1 = m1
    s1 = s1
    h1 = h1
    maintain = maintain
    Slaves = {m1}
    Shares = {s1}
    Source <- MCSource
    Handlers = {h1}
    Maintain = maintain
    Tries = 2
    MaxRequests = 1
    MaxFaults = 1
INVARIANTS
    TypeOK
    RetryIsArmed
PROPERTIES
    SharesAreServed
    WatchedIsMounted
CHECK_DEADLOCK FALSE
