\* Two transfers and one query in any overlap, with a fault and an act of administration.
SPECIFICATION HistorySpec
CONSTANTS
    alice = alice
    bob = bob
    carol = carol
    ann = ann
    ben = ben
    k1 = k1
    c1 = c1
    c2 = c2
    Accounts = {alice, bob, carol}
    Users = {ann, ben}
    NoAccount = NoAccount
    Calls = {c1, c2}
    NoCall = NoCall
    Keys = {k1}
    NoKey = NoKey
    NoUser = NoUser
    Requests <- MCRequests
    InitialAccounts <- MCInitialAccounts
    NewAccounts <- MCNewAccounts
    MinAmount = 1
    MaxAmount = 5
    Misreadings = {}
    Overlap = "free"
    Budget <- MCFaultAndAdmin
    Queries = {q1}
    Asks <- MCAsks
INVARIANTS
    HistoryTypeOK
    ReadYourTransfers
    EntriesAreSettled
    TotalCountsTransfers
PROPERTIES
    HistoryExplainsBalance
    BalanceShowsYourTransfers
SYMMETRY CallSymmetry
