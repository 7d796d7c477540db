CONSTANTS
    iA = iA  iB = iB  iC = iC  iD = iD
    work = work  default = default  profile1 = profile1
    chrome = chrome  unclaimed = unclaimed
    ha = ha  hb = hb  hc = hc  hd = hd
    Installs = {iA, iB}
    Parts <- MCParts
    Rows <- MCRows
    Dir <- MCDir
    Derived <- MCDerived
    InstallHash <- MCInstallHash
    KeyHash <- MCInstallHash
    Unclaimed <- MCUnclaimed
    Custom <- MCCustom
    MaxGen <- GensTwo
    Followed = {}
    SavesFail = FALSE
    NoRow = NoRow
    NoRoute = NoRoute
    NoHandle = NoHandle
SPECIFICATION Spec
INVARIANT ChosenNameNeverReachesAnother
