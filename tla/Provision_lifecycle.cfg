SPECIFICATION FairSpec
CONSTANTS
    p1 = p1  p2 = p2  m1 = m1  m2 = m2  mac1 = mac1  mac2 = mac2  r1 = r1  r2 = r2
    Absent = Absent  None = None
    Provisions = {p1}
    Machines = {m1}
    MACs = {}
    Requests = {r1, r2}
    MaxEdits = 3
    MaxFaults = 1
    MaxRestarts = 1
CHECK_DEADLOCK FALSE
INVARIANTS TypeOK OneAccepted AcceptedSticks
PROPERTY FollowsLifecycleFairly
