CONSTANTS
    cl = cl  f1 = f1  f2 = f2  pod = pod  dc = dc
    n1 = n1  n2 = n2
    NoRef = NoRef
    Update = {u1}
    Mor <- MCMor
    Key <- MCKey
    Name <- MCName
    Type <- MCType
    Under <- MCUnder
    Inventory0 <- MCInventory0
    MaxVersion = 3
SPECIFICATION FairSpec
PROPERTY WalkReturns
