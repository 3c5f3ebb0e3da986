SPECIFICATION Spec
CONSTANTS
    v1 = v1
    m1 = m1
    d1 = d1
    loopBaks = loopBaks
    VMs = {v1}
    Names = {}
    Configs = {1}
    Frequencies = {1}
    Retains = {1}
    Deleters = {}
    Loop = loopBaks
    MaxTasks = 2
    MaxDays = 3
    MaxBoots = 1
    MaxFaults = 0
INVARIANTS
    RetentionKept
