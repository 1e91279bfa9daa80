SPECIFICATION AdaptersSpec
CONSTANTS
    Attestations = {1, 2, 3, 4}
    Matching = {1, 3}
    Take = 2
    Stores = {"s", "t"}
    Records = {"r"}
    MaxResets = 1
INVARIANTS
    PagingTypeOK
    PagingComplete
    IndexedValuesAreStored
PROPERTIES
    QueryEnds
CHECK_DEADLOCK FALSE
