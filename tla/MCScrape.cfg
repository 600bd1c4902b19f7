CONSTANTS
    Request = {r1, r2}
    Collector = {esx, vm, off}
    Enabled = {esx, vm}
    Filter = {esx, vm, off}
    Sample = {x}
    MaxRequests = 1
    Capacity = 1
    MaxSamples = 1
    Nothing = Nothing
SYMMETRY Symmetric
SPECIFICATION Spec
INVARIANTS TypeOK NoSendOnClosed TokensExact SerialWhenOne CompleteAnswer
