SPECIFICATION Spec
CONSTANTS
    Channels = {3, 5, 6}
    PartialMax = 7
    MaxData = 2
    MaxTransfers = 3
    MaxLosses = 2
    MaxResets = 3
CHECK_DEADLOCK FALSE
INVARIANTS
    WholeOrCut
    AnnouncedIsPure
    NothingSkipped
    AddressMarked
