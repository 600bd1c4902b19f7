CONSTANTS
    a1 = a1  a2 = a2  b1 = b1  vms = vms  rps = rps
    dc = dc  cl = cl  rp = rp  hs = hs  folder = folder
    nDc = nDc  nCl = nCl  nRp = nRp  nHs = nHs  nFolder = nFolder
    NoRef = NoRef
    NoClient = NoClient
    Update = {a1, a2}
    Of <- OfPair
    Collector <- MCCollector
    Kind <- MCKind
    Items <- MCItems
    Serial = FALSE
    Weather = {TRUE, FALSE}
    Mor <- MCMor
    Key <- MCKey
    Name <- MCName
    Type <- MCType
    Under <- MCUnder
    Inventory0 <- MCInventory0
    MaxVersion = 1
SPECIFICATION FairSpec
PROPERTY UpdateEnds
