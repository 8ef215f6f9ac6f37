\* Calls from one account do not overlap, others do; handlers are fair (no symmetry).
SPECIFICATION FairSpec
CONSTANTS
    alice = alice
    bob = bob
    carol = carol
    ann = ann
    ben = ben
    k1 = k1
    Accounts = {alice, bob, carol}
    Users = {ann, ben}
    NoAccount = NoAccount
    Calls = {c1, c2}
    NoCall = NoCall
    Keys = {k1}
    NoKey = NoKey
    NoUser = NoUser
    Requests <- MCRequests
    InitialAccounts <- MCInitialAccounts
    NewAccounts <- MCNewAccounts
    MinAmount = 1
    MaxAmount = 5
    Misreadings = {"400 account"}
    Overlap = "distinct payers"
    Budget <- MCTwoOfEach
INVARIANTS
    NoOverdraft
    RefusalLeavesNoRecord
PROPERTY
    EveryCallEnds
