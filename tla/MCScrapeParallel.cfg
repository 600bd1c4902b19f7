CONSTANTS
    Request = {r1, r2}
    Collector = {esx, vm, off}
    Enabled = {esx, vm}
    Filter = {esx, vm, off}
    Sample = {x}
    MaxRequests = 1
    Capacity = 1
    MaxSamples = 1
    Nothing = Nothing
SPECIFICATION Spec
INVARIANT ParallelScrapes
