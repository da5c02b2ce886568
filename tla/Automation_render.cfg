SPECIFICATION Spec
CONSTANTS
    p1 = p1  bad = bad  a1 = a1  o1 = o1  o2 = o2
    f1 = f1  k1 = k1  v1 = v1  v2 = v2
    Absent = Absent  None = None
    Provisions = {p1}
    BadNames = {bad}
    Automations = {a1}
    Names = {o1, o2}
    Files = {f1}
    Keys = {k1}
    Values = {v1, v2}
    Specs <- MCSpecs
    FileMaps <- MCFileMaps
    MaxEdits = 2
    MaxFaults = 1
CHECK_DEADLOCK FALSE
INVARIANTS TypeOK LastWins NotFoundJustified StrictKeys
SYMMETRY MCSymmetry
