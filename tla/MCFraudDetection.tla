-------------------------- MODULE MCFraudDetection --------------------------
(* Small instances of FraudDetection.                                      *)
EXTENDS FraudDetection, TLC

CONSTANTS l1, l2, l3

Detail(account, amount, ip) == [account |-> account, amount |-> amount, ip |-> ip]

\* Two accounts, one of which is used from two addresses; one large amount.
MCDetails == {Detail("alice", 1, "home"), Detail("alice", 9, "away"), Detail("bob", 1, "home")}
MCTravels == {Detail("alice", 1, "home"), Detail("alice", 1, "away")}

\* Logs are only quantified over, so they may be exchanged.
LogSymmetry == Permutations({l1, l2, l3})
=============================================================================
