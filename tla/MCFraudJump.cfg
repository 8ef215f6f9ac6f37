\* Three logs of one account from two addresses, in one minute.
SPECIFICATION FraudSpec
CONSTANTS
    l1 = l1
    l2 = l2
    l3 = l3
    Logs = {l1, l2, l3}
    Details <- MCTravels
    Minute = 2
    VelocityThreshold = 1
    HighValueThreshold = 5
    MaxTime = 1
SYMMETRY LogSymmetry
INVARIANT
    JumpIsFlagged
