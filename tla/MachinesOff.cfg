SPECIFICATION Spec
CONSTANTS
    h1 = h1
    h2 = h2
    h3 = h3
    v = v
    w = w
    nfs1 = nfs1
    nfs2 = nfs2
    t1 = t1
    t2 = t2
    none = none
    Hosts = {h1}
    Names = {v, w}
    Shares = {nfs1, nfs2}
    Slots = {t1, t2}
    Created = {v}
    MaxTasks = 4
    MaxFaults = 1
    None = none
PROPERTIES
    MovesOnlyWhatIsOff
CHECK_DEADLOCK FALSE
