------------------------- MODULE AccountRepository -------------------------
(***************************************************************************)
(* The accounts collection and the operations AccountRepository offers on  *)
(* it.  Each operation is one MongoDB command on one document, so it is    *)
(* one atomic step.  None of the modelled operations takes a session: they *)
(* act on the collection at once, whatever transaction the caller is in.   *)
(*                                                                         *)
(* A document keeps its owner, balance (in minor units) and status.  The   *)
(* bookkeeping fields (frozenReason, frozenAt, lastTransactionAt, currency *)
(* and accountType) are left out.                                          *)
(***************************************************************************)
EXTENDS Integers

CONSTANTS
    Accounts,    \* the account numbers in use, whether or not they exist now
    Users,
    NoAccount    \* the null that findByAccountNo returns

VARIABLE accounts    \* account number -> its document, or NoAccount

AccountStatus == {"ACTIVE", "FROZEN", "SUSPENDED", "CLOSED"}

AccountDoc == [userId : Users, balance : Int, status : AccountStatus]

ASSUME NoAccountAssumption == NoAccount \notin AccountDoc

AccountsTypeOK == accounts \in [Accounts -> AccountDoc \cup {NoAccount}]

-----------------------------------------------------------------------------

findByAccountNo(a) == accounts[a]

Exists(a) == accounts[a] # NoAccount

IsFrozen(a) == Exists(a) /\ accounts[a].status = "FROZEN"

\* Mutant: the new balance is cut off at zero, as if "min: 0" were enforced.
updateBalanceClamped(a, amount) ==
    accounts' = IF Exists(a)
                   THEN [accounts EXCEPT ![a].balance = IF @ + amount < 0 THEN 0 ELSE @ + amount]
                   ELSE accounts

\* Mutant: an update that matches nothing inserts a document.
updateBalanceUpsert(a, amount) ==
    accounts' = IF Exists(a) THEN [accounts EXCEPT ![a].balance = @ + amount]
                             ELSE [accounts EXCEPT ![a] = [balance |-> amount]]

\* $inc without a condition on the balance; a missing account matches nothing
\* and the null it returns is ignored by the only caller.
updateBalance(a, amount) ==
    accounts' = IF Exists(a) THEN [accounts EXCEPT ![a].balance = @ + amount] ELSE accounts

freeze(a) ==
    /\ Exists(a)
    /\ accounts' = [accounts EXCEPT ![a].status = "FROZEN"]

unfreeze(a) ==
    /\ Exists(a)
    /\ accounts' = [accounts EXCEPT ![a].status = "ACTIVE"]

\* save() runs the validators (min: 0) and the unique index on accountNo.
create(a, doc) ==
    /\ ~Exists(a)
    /\ doc.balance >= 0
    /\ accounts' = [accounts EXCEPT ![a] = doc]

delete(a) ==
    /\ Exists(a)
    /\ accounts' = [accounts EXCEPT ![a] = NoAccount]

=============================================================================
