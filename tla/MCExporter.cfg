CONSTANTS
    Collector <- MCKinds
    ByDefault <- MCKinds
    MaxArgs = 3
    Kinds <- MCKinds
    Items <- MCItems
    Mb = 16
    Half32 = 8
    Half64 = 128
SPECIFICATION Spec
INVARIANTS TypeOK EnabledAsAsked LabelsPaired BytesExact ItemComplete PanicNeedsOddItem
PROPERTY ReadsStay
