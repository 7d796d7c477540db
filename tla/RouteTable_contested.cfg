CONSTANTS
    iA = iA  iB = iB  iC = iC  iD = iD
    work = work  default = default  profile1 = profile1
    chrome = chrome  unclaimed = unclaimed
    ha = ha  hb = hb  hc = hc  hd = hd
    Installs = {iA, iB, iC, iD}
    Parts <- MCParts
    Rows <- MCRowsOfThree
    Dir <- MCDirOfThree
    Derived <- MCDerivedOfThree
    InstallHash <- MCInstallHash
    KeyHash <- MCInstallHash
    Unclaimed <- MCUnclaimed
    Custom <- MCCustomOne
    MaxGen <- GensFour
    Followed = {}
    SavesFail = FALSE
    NoRow = NoRow
    NoRoute = NoRoute
    NoHandle = NoHandle
SPECIFICATION Spec
INVARIANT NobodyHoldsAContestedName
