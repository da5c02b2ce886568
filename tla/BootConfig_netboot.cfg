SPECIFICATION FairSpec
CONSTANTS
    c1 = c1  k = k  i = i  j = j  fw = fw  gw = gw  img = img  jmg = jmg
    v1 = v1  v2 = v2  fk = fk  fi = fi  fj = fj  ff = ff  fs = fs  ft = ft
    p = p  q = q  bad = bad
    None = None  Absent = Absent  NoFile = NoFile  Torn = Torn
    Configs = {c1}
    Artifacts = {k, i, j, fw}
    Revisions = {v1, v2}
    Original = v1
    Files = {fk, fi, fj, ff}
    Filename <- MCFilename
    ISOPaths = {p, q, bad}
    SafePaths = {p, q}
    Specs <- NetbootSpecs
    Initial = {k, i, j, fw}
    Editable = {j}
    MaxEdits = 2
    MaxFaults = 1
    MaxCrashes = 1
    MaxTime = 20
CHECK_DEADLOCK FALSE
INVARIANTS TypeOK ReadyServes
PROPERTY Settles
