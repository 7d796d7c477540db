CONSTANTS
    oldA = oldA  newA = newA  onlyB = onlyB
    iA = iA  iB = iB  m1 = m1  m2 = m2  read = read  eval = eval
    Hosts = {oldA, newA}
    Clients = {m1}
    Installs = {iA}
    InstallOf <- MCInstallOf
    Requests = {}
    Asker <- MCAsker
    Target <- MCTarget
    ArmedOps = {}
    People = {"ann"}
    StaleAfter = 1
    EvictAfter = 2
    FileFails = FALSE
    NoHost = NoHost
    Nobody = Nobody
SPECIFICATION Spec
PROPERTY
    OnlyTheOldSocketIsReplaced
