SPECIFICATION MCSpec
CONSTANTS
    na = na
    nb = nb
    n1 = n1
    n2 = n2
    other = other
    page = page
    Sessions <- MCSessions
    Wallets = {"session", "injected"}
    WalletOf <- MCWalletOf
    Dapps = {na, nb}
    DappOf <- MCDappOf
    Phrases = {"phrase"}
    Operations <- MCOperations
    MaxKeys = 2
    MaxClaims = 1
    Schemas <- MCSchemas
    Clients = {page, other}
    Lists <- MCLists
    Namespaces = {na, nb}
    DefaultNamespace = na
    Networks = {n1, n2}
    Kinds = {"a", "b"}
    Visits <- MCVisits
    Workers = {1, 2}
    MaxReloads = 1
INVARIANTS
    TypeOK
    BusyMeansRunning
    StoresMatchTheView
    PrivateModeHasIdentity
    RowsAreOfTheStoreInUse
    PublishedWasBackedUp
    KeysStayWithTheirWallet
    CreatedOnce
    ResolvedMeansRegistered
PROPERTIES
    BusyEnds
CHECK_DEADLOCK FALSE
