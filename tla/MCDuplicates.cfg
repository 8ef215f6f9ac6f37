\* Two overlapping requests with one key, no faults.
SPECIFICATION Spec
CONSTANTS
    alice = alice
    bob = bob
    carol = carol
    ann = ann
    ben = ben
    k1 = k1
    Accounts = {alice, bob, carol}
    Users = {ann, ben}
    NoAccount = NoAccount
    Calls = {c1, c2}
    NoCall = NoCall
    Keys = {k1}
    NoKey = NoKey
    NoUser = NoUser
    Requests <- MCKeyedRequests
    InitialAccounts <- MCActiveAccounts
    NewAccounts <- MCNewAccounts
    MinAmount = 1
    MaxAmount = 5
    Misreadings = {}
    Overlap = "free"
    Budget <- MCNothing
INVARIANTS
    OneChargePerKey
