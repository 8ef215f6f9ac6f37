--------------------------- MODULE OperationsLocks --------------------------
(* The account operations implement accounts under locks.                  *)
EXTENDS ServiceLifecycle

BalanceOf(a) == IF Exists(a) THEN accounts[a].balance ELSE 0

\* What the transaction of s, if it is not over, has changed a's balance by.
PendingOf(s, a) == IF Alive(s) THEN session[s].added[a] ELSE 0

L == INSTANCE LockedAccounts WITH
        Amounts <- UNION {{n, -n} : n \in Amounts \cup {0}},
        balance <- [a \in Accounts |-> BalanceOf(a)],
        frozen  <- {a \in Accounts : IsFrozen(a)},
        pending <- [s \in Sessions |-> [a \in Accounts |-> PendingOf(s, a)]],
        waived  <- exposed

\* getAccountWithLock takes no lock, and yet sessions behave as if every
\* document they write were locked from the write on: a commit, which puts
\* whole documents back, loses nobody's change, undoes no freeze and needs no
\* check of its own, whatever other sessions, writes and ends of the process
\* come in between.
ImplementsLocks == L!LockedSpec

=============================================================================
