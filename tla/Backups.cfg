SPECIFICATION Spec
CONSTANTS
    v1 = v1
    m1 = m1
    d1 = d1
    loopBaks = loopBaks
    VMs = {v1}
    Names = {m1}
    Configs = {1}
    Frequencies = {1}
    Retains = {1}
    Deleters = {d1}
    Loop = loopBaks
    MaxTasks = 2
    MaxDays = 3
    MaxBoots = 1
    MaxFaults = 1
INVARIANTS
    TypeOK
    RowsAreRestorable
PROPERTIES
    PruneSparesTheNewest
    OwnThaw
    GuestsAreThawed
