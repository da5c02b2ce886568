SPECIFICATION FairBootSpec
CONSTANTS
    c1 = c1  k = k  i = i  j = j  fw = fw  gw = gw  img = img  jmg = jmg
    v1 = v1  v2 = v2  fk = fk  fi = fi  fj = fj  ff = ff  fs = fs  ft = ft
    p = p  q = q  bad = bad
    None = None  Absent = Absent  NoFile = NoFile  Torn = Torn
    Configs = {c1}
    Artifacts = {img}
    Revisions = {v1}
    Original = v1
    Files = {fs}
    Filename <- MCFilename
    ISOPaths = {p, q, bad}
    SafePaths = {p, q}
    Specs <- ISOSpecs
    Initial = {}
    Editable = {img}
    MaxEdits = 2
    MaxFaults = 1
    MaxCrashes = 1
    MaxTime = 14
    pr = pr
    Provisions = {pr}
    BootConfigRef <- MCBootConfigRef
CHECK_DEADLOCK FALSE
INVARIANT BootsAsSpecified
PROPERTY Boots
