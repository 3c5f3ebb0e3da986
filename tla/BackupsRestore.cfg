SPECIFICATION Spec
CONSTANTS
    v1 = v1
    m1 = m1
    d1 = d1
    loopBaks = loopBaks
    VMs = {v1}
    Names = {m1}
    Configs = {1}
    Frequencies = {1}
    Retains = {1}
    Deleters = {}
    Loop = loopBaks
    MaxTasks = 3
    MaxDays = 1
    MaxBoots = 1
    MaxFaults = 0
INVARIANTS
    NewMachinesAreWhole
