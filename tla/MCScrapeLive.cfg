CONSTANTS
    Request = {r1, r2}
    Collector = {esx, off}
    Enabled = {esx}
    Filter = {esx, off}
    Sample = {x}
    MaxRequests = 1
    Capacity = 1
    MaxSamples = 2
    Nothing = Nothing
SPECIFICATION FairSpec
INVARIANTS CompleteAnswer NoServerError
PROPERTY ServiceSpec
