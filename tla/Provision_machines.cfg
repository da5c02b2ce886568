SPECIFICATION Spec
CONSTANTS
    p1 = p1  p2 = p2  m1 = m1  m2 = m2  mac1 = mac1  mac2 = mac2  r1 = r1  r2 = r2
    Absent = Absent  None = None
    Provisions = {p1, p2}
    Machines = {m1, m2}
    MACs = {mac1, mac2}
    Requests = {r1}
    MaxEdits = 3
    MaxFaults = 0
    MaxRestarts = 0
CHECK_DEADLOCK FALSE
SYMMETRY MCSymmetry
INVARIANT DirectiveForOwnMachine
