SPECIFICATION MCSpec
CONSTANTS
    a1 = a1
    a2 = a2
    b1 = b1
    b2 = b2
    alice = alice
    bob = bob
    dapp = dapp
    c1 = c1
    c2 = c2
    Sessions = {a1, a2, b1, b2}
    WalletOf <- MCWalletOf
    Wallets = {alice, bob}
    Dapps = {dapp}
    DappOf <- MCDappOf
    Phrases = {"phrase"}
    Operations <- SetAndGrant
    ReaderLists <- AloneOrWithBob
    MaxKeys = 3
    MaxClaims = 2
    Names = {"note"}
    Calls = {c1, c2}
    Lagging = {}
    MaxLog = 3
INVARIANTS
    GrantLeavesLatestValue
SYMMETRY CallSymmetry
