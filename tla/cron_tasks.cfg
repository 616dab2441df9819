CONSTANTS
    a = a
    b = b
    c = c
    Ids = {a, b, c}
    Offers <- SomeOffers
    Slots = {s1, s2}
    NoSlot = NoSlot
    MaxCalls = 5
    MaxFaults = 1
    MaxCrashes = 1
SPECIFICATION Spec
INVARIANT AcyclicUnlessRaced
INVARIANT SavedIsCurrent
SYMMETRY Symmetry
