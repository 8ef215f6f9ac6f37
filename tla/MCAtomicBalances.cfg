\* A fault between the two updates.
SPECIFICATION Spec
CONSTANTS
    alice = alice
    bob = bob
    carol = carol
    ann = ann
    ben = ben
    k1 = k1
    Accounts = {alice, bob, carol}
    Users = {ann, ben}
    NoAccount = NoAccount
    Calls = {c1}
    NoCall = NoCall
    Keys = {k1}
    NoKey = NoKey
    NoUser = NoUser
    Requests <- MCRacing
    InitialAccounts <- MCActiveAccounts
    NewAccounts <- MCNewAccounts
    MinAmount = 1
    MaxAmount = 5
    Misreadings = {}
    Overlap = "free"
    Budget <- MCFault
INVARIANTS
    BalancesMovedAtomically
