SPECIFICATION Spec
CONSTANTS
    c1 = c1
    c2 = c2
    s1 = s1
    s2 = s2
    alice = alice
    bob = bob
    i1 = i1
    Stores = {s1, s2}
    Calls = {c1, c2}
    StoreOf <- MCStoreOf
    Signers = {alice, bob}
    SignerOf <- MCSignerOf
    Indexers = {i1}
    IndexerOf <- MCIndexerOf
    Keys = {"k"}
    Kinds = {"set", "get"}
    Filters <- Unfiltered
    Trusts <- MCTrusts
    Mode = "onchain"
    Scope = "remote"
    Options = {"plain"}
    AllowExpired = FALSE
    AllowRevoked = FALSE
    RequireTimestamp = FALSE
    Faults = {"revoke"}
    MaxAtt = 3
SYMMETRY SessionSymmetry
INVARIANTS
    WritesExtendKnown
    ReadsArePrefixes
    ReadsFresh
PROPERTIES
    WritesContinueTheirRead
