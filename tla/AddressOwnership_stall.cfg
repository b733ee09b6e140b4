CONSTANTS
    Owners = {o1, o2, o3}
    Past = past
    None = none
    MaxRecords = 3
    MaxThefts = 1
    MaxDeaths = 0
SPECIFICATION Spec
SYMMETRY Interchangeable
CHECK_DEADLOCK FALSE
PROPERTY GuardKept
