SPECIFICATION Spec
CONSTANTS
    a1 = a1  a2 = a2  n1 = n1  n2 = n2  u1 = u1  u2 = u2
    f1 = f1  f2 = f2  c1 = c1  c2 = c2
    None = None  Absent = Absent  NoFile = NoFile  Torn = Torn
    Artifacts = {a1}
    Names = {n1}
    Name <- OwnName
    URLs = {u1, u2}
    Files = {f1}
    Filename <- SameFilename
    Contents <- MCContents
    Specs <- OneSpec
    MaxEdits = 1
    MaxFaults = 1
    MaxCrashes = 0
    Exposed <- NoPath
CHECK_DEADLOCK FALSE
INVARIANT BackoffHonoured
