\* Two calls in any overlap, with faults, an eviction and administration; the saga they are.
SPECIFICATION Spec
CONSTANTS
    alice = alice
    bob = bob
    carol = carol
    ann = ann
    ben = ben
    k1 = k1
    Accounts = {alice, bob, carol}
    Users = {ann, ben}
    NoAccount = NoAccount
    Calls = {c1, c2}
    NoCall = NoCall
    Keys = {k1}
    NoKey = NoKey
    NoUser = NoUser
    Requests <- MCRequests
    InitialAccounts <- MCInitialAccounts
    NewAccounts <- MCNewAccounts
    MinAmount = 1
    MaxAmount = 5
    Misreadings = {}
    Overlap = "free"
    Budget <- MCTwoOfEach
INVARIANTS
    TypeOK
    MoneyAccounted
    MoneyConserved
    RefusalMovesNothing
    RecordMeansMoved
    AckMeansSettled
    BarredNeverDebited
    NewBalanceIsNotBehind
PROPERTY
    ImplementsSaga
