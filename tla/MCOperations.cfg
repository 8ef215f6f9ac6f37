\* Two sessions and a holder next to changes that take effect at once; one restart.
SPECIFICATION LifecycleSpec
CONSTANTS
    alice = alice
    bob = bob
    ann = ann
    Accounts = {alice, bob}
    Users = {ann}
    NoAccount = NoAccount
    Sessions = {s1, s2}
    Holders = {h1}
    Reasons = {r1}
    NoReason = NoReason
    Amounts = {2}
    InitialAccounts <- MCInitialAccounts
    Budget = 3
    Restarts = 1
INVARIANTS
    LifecycleTypeOK
    LockedDebitsAreCovered
    BalancesAreLedgers
    StatusHasReason
PROPERTIES
    FrozenIsNotDebited
    ImplementsLocks
    SignalEndsProcess
