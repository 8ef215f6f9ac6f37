-------------------------- MODULE AccountOperations -------------------------
(***************************************************************************)
(* The operations AccountRepository offers that the transfer mutation does *)
(* not use: reads and balance changes in a MongoDB session, checks made    *)
(* outside of one, and the freeze and unfreeze methods of a document.      *)
(* They run next to the operations that take effect at once; create and    *)
(* delete are left to Transfer.                                            *)
(*                                                                         *)
(* No code calls them yet, so their callers are clients that call them in  *)
(* any order, with the discipline the operations are there for: a debit is *)
(* made only if a document or a check read before covers it.               *)
(*                                                                         *)
(* Sessions are MongoDB's (external): a transaction sees a snapshot taken  *)
(* at its first operation; its write of a document that another one has    *)
(* written, or that has changed since the snapshot, fails and ends it; a   *)
(* write outside of any session waits until no transaction has written the *)
(* document.                                                               *)
(***************************************************************************)
EXTENDS AccountRepository

CONSTANTS
    Sessions,
    Holders,           \* clients that hold on to a check or to a document
    Reasons,           \* what freezes are given as their reason
    NoReason,
    Amounts,           \* what balances are changed by
    InitialAccounts,
    Budget             \* bounds the changes made

ASSUME AmountsAssumption == Amounts \subseteq Nat \ {0}
ASSUME NoReasonAssumption == NoReason \notin Reasons
ASSUME NoSuchAccountAssumption == NoAccount \notin Accounts
ASSUME InitialAccountsAssumption ==
    \A docs \in InitialAccounts :
        /\ docs \in [Accounts -> AccountDoc \cup {NoAccount}]
        /\ \A a \in Accounts :
              docs[a] # NoAccount => docs[a].balance >= 0 /\ docs[a].status # "FROZEN"
ASSUME BudgetAssumption == Budget \in Nat

VARIABLES
    reason,     \* account -> the frozenReason of its document, or NoReason
    session,    \* session -> its transaction and the documents its client read
    held,       \* holder -> the check or the document it holds
    changes,    \* how much of the Budget is used
    ledger,     \* history: account -> the sum of the changes acknowledged
    exposed,    \* history: accounts debited on the strength of an overtaken check
    muddled     \* history: accounts whose document was saved from a stale copy

operationVars == <<accounts, reason, session, held, changes, ledger, exposed, muddled>>

Docs == AccountDoc \cup {NoAccount}

\* An "orphan" is a transaction that is left open on the server by a process
\* that has ended.
SessionState == [stage : {"idle", "open", "orphan", "over"},
                 view  : [Accounts -> Docs],    \* the snapshot, with its own writes
                 seen  : [Accounts -> Docs],    \* the documents returned to the client
                 added : [Accounts -> Int],     \* the changes made in it
                 dirty : SUBSET Accounts,       \* the documents written in it
                 stale : SUBSET Accounts]       \* what others changed since the snapshot

\* A document as it was loaded, or the document that isAccountActive looked at
\* ("active"), then checkSufficientBalance too ("checked") unless it had
\* changed in between ("overtaken").
HeldState == [has : {"nothing", "document", "active", "checked", "overtaken"},
              of : Accounts \cup {NoAccount}, doc : Docs,
              reason : Reasons \cup {NoReason}, amount : Amounts \cup {0}]

OperationsTypeOK ==
    /\ AccountsTypeOK
    /\ reason \in [Accounts -> Reasons \cup {NoReason}]
    /\ session \in [Sessions -> SessionState]
    /\ held \in [Holders -> HeldState]
    /\ changes \in Nat
    /\ ledger \in [Accounts -> Int]
    /\ exposed \subseteq Accounts
    /\ muddled \subseteq Accounts

Fresh == [stage |-> "idle", view |-> [a \in Accounts |-> NoAccount],
          seen |-> [a \in Accounts |-> NoAccount], added |-> [a \in Accounts |-> 0],
          dirty |-> {}, stale |-> {}]
Over == [Fresh EXCEPT !.stage = "over"]

Nothing == [has |-> "nothing", of |-> NoAccount, doc |-> NoAccount, reason |-> NoReason,
            amount |-> 0]

OperationsInit ==
    /\ accounts \in InitialAccounts
    /\ reason = [a \in Accounts |-> NoReason]
    /\ session = [s \in Sessions |-> Fresh]
    /\ held = [h \in Holders |-> Nothing]
    /\ changes = 0
    /\ ledger = [a \in Accounts |-> IF Exists(a) THEN accounts[a].balance ELSE 0]
    /\ exposed = {}
    /\ muddled = {}

Change == changes < Budget /\ changes' = changes + 1

-----------------------------------------------------------------------------
(* Transactions.                                                           *)

\* The server keeps the transaction and its writes.
Alive(s) == session[s].stage \in {"open", "orphan"}

Usable(s) == session[s].stage \in {"idle", "open"}

\* The session as its next operation finds it: the first one takes the snapshot.
Begun(s) == IF session[s].stage = "idle"
               THEN [Fresh EXCEPT !.stage = "open", !.view = accounts]
               ELSE session[s]

\* Mutant: the document is read outside of the session.
getAccountWithoutSession(s, a) ==
    session' = [session EXCEPT ![s] = [@ EXCEPT !.seen[a] = findByAccountNo(a)]]

\* A plain findOne in the session: it locks nothing, but is part of the snapshot.
getAccountWithLock(s, a) ==
    LET now == Begun(s) IN
    session' = [session EXCEPT ![s] = [now EXCEPT !.seen[a] = now.view[a]]]

Get(s, a) ==
    /\ Usable(s)
    /\ getAccountWithLock(s, a)
    /\ UNCHANGED <<accounts, reason, held, changes, ledger, exposed, muddled>>

Conflict(s, a) ==
    \/ a \in Begun(s).stale
    \/ \E t \in Sessions \ {s} : Alive(t) /\ a \in session[t].dirty

\* Mutant: the session is not passed on, as in updateBalance.
updateBalanceNoSession(s, a, amount) ==
    LET now == Begun(s) IN
    /\ updateBalance(a, amount)
    /\ session' = [session EXCEPT ![s] = [now EXCEPT !.added[a] = @ + amount]]

\* $inc in the session.  A document missing in the snapshot matches nothing.
updateBalanceWithSession(s, a, amount) ==
    LET now == Begun(s)
        new == [now.view[a] EXCEPT !.balance = @ + amount]
    IN  /\ session' = [session EXCEPT ![s] =
               IF now.view[a] = NoAccount THEN now
               ELSE IF Conflict(s, a) THEN Over
               ELSE [now EXCEPT !.view[a] = new, !.seen[a] = new, !.added[a] = @ + amount,
                                !.dirty = @ \cup {a}]]
        /\ UNCHANGED accounts

\* A client debits only what a document read in the session covers.
Covered(s, a, amount) ==
    LET doc == session[s].seen[a] IN
    doc # NoAccount /\ doc.status # "FROZEN" /\ doc.balance >= amount

Update(s, a, amount) ==
    /\ Usable(s)
    /\ amount >= 0 \/ Covered(s, a, -amount)
    /\ Change
    /\ updateBalanceWithSession(s, a, amount)
    /\ UNCHANGED <<reason, held, ledger, exposed, muddled>>

\* The documents in A have changed under the feet of the other transactions.
Touched(t, A) ==
    IF Alive(t) THEN [session[t] EXCEPT !.stale = @ \cup A] ELSE session[t]

CommitSession(s) ==
    /\ session[s].stage = "open"
    /\ accounts' = [a \in Accounts |-> IF a \in session[s].dirty THEN session[s].view[a]
                                                                 ELSE accounts[a]]
    /\ ledger' = [a \in Accounts |-> ledger[a] + session[s].added[a]]
    /\ session' = [t \in Sessions |-> IF t = s THEN Over ELSE Touched(t, session[s].dirty)]
    /\ UNCHANGED <<reason, held, changes, exposed, muddled>>

AbortSession(s) ==
    /\ session[s].stage = "open"
    /\ session' = [session EXCEPT ![s] = Over]
    /\ UNCHANGED <<accounts, reason, held, changes, ledger, exposed, muddled>>

\* The server aborts a transaction that no process will end.
Expire(s) ==
    /\ session[s].stage = "orphan"
    /\ session' = [session EXCEPT ![s] = Over]
    /\ UNCHANGED <<accounts, reason, held, changes, ledger, exposed, muddled>>

-----------------------------------------------------------------------------
(* Changes outside of sessions.                                            *)

\* A write of a's document that takes effect at once.
Write(a) ==
    /\ \A s \in Sessions : Alive(s) => a \notin session[s].dirty
    /\ Change
    /\ session' = [t \in Sessions |-> Touched(t, {a})]

Pay(a, amount) ==
    /\ Write(a)
    /\ updateBalance(a, amount)
    /\ ledger' = [ledger EXCEPT ![a] = IF Exists(a) THEN @ + amount ELSE @]
    /\ UNCHANGED <<reason, held, exposed, muddled>>

FreezeAccount(a, r) ==
    /\ Write(a)
    /\ freeze(a)
    /\ reason' = [reason EXCEPT ![a] = r]
    /\ muddled' = muddled \ {a}
    /\ UNCHANGED <<held, ledger, exposed>>

\* Mutant: the reason is not unset.
UnfreezeOnly(a) ==
    /\ Write(a)
    /\ unfreeze(a)
    /\ muddled' = muddled \ {a}
    /\ UNCHANGED <<reason, held, ledger, exposed>>

UnfreezeAccount(a) ==
    /\ Write(a)
    /\ unfreeze(a)
    /\ reason' = [reason EXCEPT ![a] = NoReason]
    /\ muddled' = muddled \ {a}
    /\ UNCHANGED <<held, ledger, exposed>>

-----------------------------------------------------------------------------
(* Checks, and the debits that rely on them.                               *)

Hold(h, what) ==
    /\ held' = [held EXCEPT ![h] = what]
    /\ UNCHANGED <<accounts, reason, session, changes, ledger, exposed, muddled>>

isAccountActive(a) == Exists(a) /\ findByAccountNo(a).status = "ACTIVE"

checkSufficientBalance(a, amount) == Exists(a) /\ findByAccountNo(a).balance >= amount

CheckActive(h, a) ==
    /\ held[h].has = "nothing"
    /\ isAccountActive(a)
    /\ Hold(h, [Nothing EXCEPT !.has = "active", !.of = a, !.doc = accounts[a]])

CheckBalance(h, amount) ==
    /\ held[h].has = "active"
    /\ checkSufficientBalance(held[h].of, amount)
    /\ Hold(h, [held[h] EXCEPT
                   !.has = IF accounts[held[h].of] = held[h].doc THEN "checked" ELSE "overtaken",
                   !.amount = amount])

\* updateBalance has no condition of its own.
DebitChecked(h) ==
    LET a == held[h].of IN
    /\ held[h].has \in {"checked", "overtaken"}
    /\ Write(a)
    /\ updateBalance(a, -held[h].amount)
    /\ ledger' = [ledger EXCEPT ![a] = IF Exists(a) THEN @ - held[h].amount ELSE @]
    /\ held' = [held EXCEPT ![h] = Nothing]
    /\ exposed' = IF held[h].has = "checked" /\ accounts[a] = held[h].doc
                     THEN exposed ELSE exposed \cup {a}
    /\ UNCHANGED <<reason, muddled>>

-----------------------------------------------------------------------------
(* Documents.                                                              *)

findByUserId(user) == {a \in Accounts : Exists(a) /\ accounts[a].userId = user}

\* A client gets the documents of a user and keeps one of them.
Load(h, user) ==
    /\ held[h].has = "nothing"
    /\ \E a \in findByUserId(user) :
          Hold(h, [Nothing EXCEPT !.has = "document", !.of = a, !.doc = accounts[a],
                                  !.reason = reason[a]])

\* save() first runs the validators on the document as it was loaded, also those
\* of the paths that have not changed, and throws if its balance is negative.
Invalid(h) == held[h].has = "document" /\ held[h].doc.balance < 0

RefuseToSave(h) == Invalid(h) /\ Hold(h, Nothing)

\* Then it sends the paths that differ from the document as it was loaded, and
\* only those.
Save(h, status, why) ==
    LET a == held[h].of
        loaded == held[h]
    IN  /\ loaded.has = "document"
        /\ ~Invalid(h)
        /\ Write(a)
        /\ accounts' = IF status = loaded.doc.status THEN accounts
                       ELSE [accounts EXCEPT ![a].status = status]
        /\ reason' = IF why = loaded.reason THEN reason ELSE [reason EXCEPT ![a] = why]
        /\ muddled' = IF loaded.doc.status = accounts[a].status /\ loaded.reason = reason[a]
                         THEN muddled ELSE muddled \cup {a}
        /\ held' = [held EXCEPT ![h] = Nothing]
        /\ UNCHANGED <<ledger, exposed>>

FreezeDocument(h, r) == Save(h, "FROZEN", r)

UnfreezeDocument(h) == Save(h, "ACTIVE", NoReason)

\* The document was loaded as unfreeze wants it: save() finds nothing to send,
\* unless a frozenAt was left behind, which the model does not keep.
UnfreezeUnfrozen(h) ==
    /\ held[h].has = "document"
    /\ ~Invalid(h)
    /\ held[h].doc.status = "ACTIVE" /\ held[h].reason = NoReason
    /\ Hold(h, Nothing)

-----------------------------------------------------------------------------
(* The end of the connection or of the process.                            *)

\* The driver ends the sessions, and with them their transactions.
EndSessions ==
    /\ session' = [s \in Sessions |-> IF session[s].stage = "open" THEN Over ELSE session[s]]
    /\ UNCHANGED <<accounts, reason, held, changes, ledger, exposed, muddled>>

\* What the process held is gone; its transactions stay open on the server.
Abandon ==
    /\ session' = [s \in Sessions |-> IF session[s].stage = "open"
                                         THEN [session[s] EXCEPT !.stage = "orphan"]
                                         ELSE session[s]]
    /\ held' = [h \in Holders |-> Nothing]
    /\ UNCHANGED <<accounts, reason, changes, ledger, exposed, muddled>>

SessionWork(s) ==
    \/ \E a \in Accounts : \/ Get(s, a)
                           \/ \E n \in Amounts : Update(s, a, n) \/ Update(s, a, -n)
    \/ CommitSession(s)
    \/ AbortSession(s)

AccountWork(a) ==
    \/ \E n \in Amounts : Pay(a, n)
    \/ \E r \in Reasons : FreezeAccount(a, r)
    \/ UnfreezeAccount(a)

HolderWork(h) ==
    \/ \E a \in Accounts : CheckActive(h, a)
    \/ \E n \in Amounts : CheckBalance(h, n)
    \/ DebitChecked(h)
    \/ \E user \in Users : Load(h, user)
    \/ \E r \in Reasons : FreezeDocument(h, r)
    \/ UnfreezeDocument(h)
    \/ UnfreezeUnfrozen(h)
    \/ RefuseToSave(h)

Operate ==
    \/ \E s \in Sessions : SessionWork(s)
    \/ \E a \in Accounts : AccountWork(a)
    \/ \E h \in Holders : HolderWork(h)

OperationsNext == Operate \/ (\E s \in Sessions : Expire(s)) \/ EndSessions \/ Abandon

OperationsSpec == OperationsInit /\ [][OperationsNext]_operationVars

-----------------------------------------------------------------------------
(* Properties.                                                             *)

\* getAccountWithLock locks nothing, and yet a debit made in the session on the
\* strength of its document never overdraws: the write fails if the document
\* has changed since.  Outside of a session a check suffices only if nothing
\* overtakes it.
LockedDebitsAreCovered ==
    \A a \in Accounts : Exists(a) => accounts[a].balance >= 0 \/ a \in exposed

\* Nor is a frozen account debited, except on an overtaken check: neither by a
\* transaction that read the document before the freeze, nor by its commit.
FrozenIsNotDebited ==
    [][\A a \in Accounts :
          IsFrozen(a) /\ accounts'[a].balance < accounts[a].balance => a \in exposed'
      ]_operationVars

\* No change of a balance is lost or made twice, in sessions or outside of
\* them, and none is left by a transaction that was aborted, ended with its
\* connection, or abandoned by its process.
BalancesAreLedgers ==
    \A a \in Accounts : Exists(a) => accounts[a].balance = ledger[a]

\* A document is FROZEN exactly if it has a reason, unless it was saved from a
\* copy loaded before another freeze or unfreeze (accounts.ts:86-98 keep of the
\* two what each of them changed).
StatusHasReason ==
    \A a \in Accounts \ muddled : IsFrozen(a) <=> reason[a] # NoReason
=============================================================================
