SPECIFICATION Spec
CONSTANTS
    Hcs = {h1, h2}
    MaxAddr = 4
    MaxDev = 3
    Users = {u1}
    NoDev = NoDev  NoHc = NoHc
    MaxChanges = 2
    Debounce = 1
    Attempts = 2
    DescTries = 2
    AddrTries = 2
CHECK_DEADLOCK FALSE
INVARIANT PortEnumerated
