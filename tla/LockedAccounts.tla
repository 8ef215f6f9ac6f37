--------------------------- MODULE LockedAccounts ---------------------------
(***************************************************************************)
(* What the account operations promise, told with the locks that           *)
(* getAccountWithLock is named for.  An account is a balance and a frozen  *)
(* flag.  A change asked for in a transaction is covered when it is asked  *)
(* for, and from then on the account is the transaction's alone: nobody    *)
(* else changes or freezes it.  So a commit needs no check, happens at     *)
(* once, and changes balances only.                                        *)
(*                                                                         *)
(* There are no snapshots, versions or conflicts here, and reading is      *)
(* left out.                                                               *)
(***************************************************************************)
EXTENDS Integers

CONSTANTS
    Accounts,
    Sessions,
    Amounts     \* what a balance may be changed by

VARIABLES
    balance,    \* account -> its balance
    frozen,     \* the frozen accounts
    pending,    \* transaction -> account -> the change asked for in it
    waived      \* the accounts debited at a client's own risk, without cover

lockedVars == <<balance, frozen, pending, waived>>

\* The balances and flags an account starts with are parameters.
LockedInit ==
    /\ pending = [s \in Sessions |-> [a \in Accounts |-> 0]]
    /\ waived = {}

\* No transaction but those in some has asked for a change of a.
FreeBut(a, some) == \A s \in Sessions \ some : pending[s][a] = 0

\* A debit that leaves this much.
Covered(a, left) == a \notin frozen /\ left >= 0

Put(a, n) ==
    /\ FreeBut(a, {})
    /\ n < 0 => Covered(a, balance[a] + n)
    /\ balance' = [balance EXCEPT ![a] = @ + n]
    /\ UNCHANGED <<frozen, pending, waived>>

Force(a, n) ==
    /\ FreeBut(a, {})
    /\ balance' = [balance EXCEPT ![a] = @ + n]
    /\ waived' = waived \cup {a}
    /\ UNCHANGED <<frozen, pending>>

Mark(a) ==
    /\ FreeBut(a, {})
    /\ frozen' \in {frozen \cup {a}, frozen \ {a}}
    /\ UNCHANGED <<balance, pending, waived>>

Add(s, a, n) ==
    /\ FreeBut(a, {s})
    /\ n < 0 => Covered(a, balance[a] + pending[s][a] + n)
    /\ pending' = [pending EXCEPT ![s][a] = @ + n]
    /\ UNCHANGED <<balance, frozen, waived>>

Commit(s) ==
    /\ balance' = [a \in Accounts |-> balance[a] + pending[s][a]]
    /\ pending' = [pending EXCEPT ![s] = [a \in Accounts |-> 0]]
    /\ UNCHANGED <<frozen, waived>>

\* One transaction is dropped, or all that are open when a connection ends.
Drop(some) ==
    /\ pending' = [s \in Sessions |-> IF s \in some THEN [a \in Accounts |-> 0] ELSE pending[s]]
    /\ UNCHANGED <<balance, frozen, waived>>

LockedNext ==
    \/ \E a \in Accounts : \/ Mark(a)
                           \/ \E n \in Amounts : Put(a, n) \/ Force(a, n)
    \/ \E s \in Sessions : \/ Commit(s)
                           \/ \E a \in Accounts, n \in Amounts : Add(s, a, n)
    \/ \E some \in SUBSET Sessions : Drop(some)

LockedSpec == LockedInit /\ [][LockedNext]_lockedVars

=============================================================================
