------------------------- MODULE MCServiceLifecycle -------------------------
(* A small instance of ServiceLifecycle, with the locks it implements.      *)
EXTENDS OperationsLocks, TLC

CONSTANTS alice, bob, ann

Doc(balance) == [userId |-> ann, balance |-> balance, status |-> "ACTIVE"]

\* Bob's account does not exist: its updates match nothing.
MCInitialAccounts == {(alice :> Doc(2)) @@ (bob :> NoAccount)}
=============================================================================
