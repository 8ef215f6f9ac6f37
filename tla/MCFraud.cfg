\* Three logs of two accounts and addresses, in any overlap of their analyses.
SPECIFICATION FraudSpec
CONSTANTS
    l1 = l1
    l2 = l2
    l3 = l3
    Logs = {l1, l2, l3}
    Details <- MCDetails
    Minute = 2
    VelocityThreshold = 1
    HighValueThreshold = 5
    MaxTime = 3
SYMMETRY LogSymmetry
INVARIANTS
    FraudTypeOK
    PairIsFlagged
    BurstIsNoticed
