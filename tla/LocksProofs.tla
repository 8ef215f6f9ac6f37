----------------------------- MODULE LocksProofs ----------------------------
(* The account operations implement accounts under locks, for every value  *)
(* of the constants: every step of the code is a step of the locked        *)
(* accounts or none.                                                       *)
EXTENDS OperationsLocks, OperationsProofs

Balances == [a \in Accounts |-> BalanceOf(a)]
Frozen == {a \in Accounts : IsFrozen(a)}
Pendings == [s \in Sessions |-> [a \in Accounts |-> PendingOf(s, a)]]
Moves == UNION {{n, -n} : n \in Amounts \cup {0}}

\* A step that the locked accounts do not see.
Stutter == UNCHANGED L!lockedVars

LEMMA MovesType ==
    ASSUME NEW n \in Amounts \cup {0}
    PROVE  n \in Nat /\ n \in Moves /\ -n \in Moves
<1>1. n \in Moves /\ -n \in Moves
  BY DEF Moves
<1>2. n \in Nat
  <2>1. n \in Amounts => n \in Nat
    BY AmountsAssumption
  <2> QED BY <2>1
<1> QED BY <1>1, <1>2

LEMMA LocksInitial == OperationsInit => L!LockedInit
BY FreshFields DEF OperationsInit, L!LockedInit, PendingOf, Alive

-----------------------------------------------------------------------------
(* What the locked accounts see of a state.                                *)

LEMMA DocumentType ==
    ASSUME OperationsInv, NEW a \in Accounts
    PROVE  /\ BalanceOf(a) \in Int
           /\ Exists(a) => accounts[a] \in AccountDoc /\ accounts[a].balance \in Int
BY DEF OperationsInv, OperationsTypeOK, AccountsTypeOK, BalanceOf, Exists, AccountDoc

\* What a transaction has not written it has not changed.
LEMMA PendingDirty ==
    ASSUME OperationsInv, NEW s \in Sessions, NEW a \in Accounts
    PROVE  /\ PendingOf(s, a) \in Int
           /\ ~Alive(s) \/ a \notin session[s].dirty => PendingOf(s, a) = 0
<1>1. session[s].added \in [Accounts -> Int]
  BY DEF OperationsInv, OperationsTypeOK, SessionState
<1>2. Alive(s) => Consistent(session[s])
  BY DEF OperationsInv, SessionsInv
<1> QED BY <1>1, <1>2 DEF PendingOf, Consistent

\* At most a's document has changed.
LEMMA DocumentFrame ==
    ASSUME NEW a \in Accounts, \A b \in Accounts \ {a} : accounts'[b] = accounts[b]
    PROVE  /\ \A n : BalanceOf(a)' = BalanceOf(a) + n
                        => Balances' = [Balances EXCEPT ![a] = @ + n]
           /\ BalanceOf(a)' = BalanceOf(a) => Balances' = Balances
           /\ IsFrozen(a)' = IsFrozen(a) => Frozen' = Frozen
           /\ Frozen' \in {Frozen \cup {a}, Frozen \ {a}}
<1>1. \A b \in Accounts \ {a} : BalanceOf(b)' = BalanceOf(b) /\ IsFrozen(b)' = IsFrozen(b)
  BY DEF BalanceOf, IsFrozen, Exists
<1>2. ASSUME NEW n, BalanceOf(a)' = BalanceOf(a) + n
      PROVE  Balances' = [Balances EXCEPT ![a] = @ + n]
  BY <1>1, <1>2 DEF Balances
<1>3. ASSUME BalanceOf(a)' = BalanceOf(a) PROVE Balances' = Balances
  BY <1>1, <1>3 DEF Balances
<1>4. ASSUME IsFrozen(a)' = IsFrozen(a) PROVE Frozen' = Frozen
  BY <1>1, <1>4 DEF Frozen
<1>5. Frozen' \in {Frozen \cup {a}, Frozen \ {a}}
  BY <1>1 DEF Frozen
<1> QED BY <1>2, <1>3, <1>4, <1>5

\* No document has changed.
LEMMA AccountsFrame ==
    ASSUME accounts' = accounts
    PROVE  Balances' = Balances /\ Frozen' = Frozen
BY DEF Balances, Frozen, BalanceOf, IsFrozen, Exists

\* A write outside of the sessions is of a document that is nobody's.
LEMMA WriteIsFree ==
    ASSUME OperationsInv, NEW a \in Accounts, Write(a)
    PROVE  /\ Pendings' = Pendings
           /\ \A s \in Sessions : Pendings[s][a] = 0
<1>1. \A s \in Sessions : /\ session'[s].stage = session[s].stage
                          /\ session'[s].added = session[s].added
                          /\ Alive(s) => a \notin session[s].dirty
  BY WriteFields DEF OperationsInv
<1>2. Pendings' = Pendings
  BY <1>1 DEF Pendings, PendingOf, Alive
<1>3. \A s \in Sessions : PendingOf(s, a) = 0
  BY <1>1, PendingDirty
<1> QED BY <1>2, <1>3 DEF Pendings

-----------------------------------------------------------------------------
(* Changes outside of sessions.                                            *)

\* An update by n outside of the sessions.
LEMMA UpdateOutside ==
    ASSUME OperationsInv, NEW a \in Accounts, NEW n \in Moves, n \in Int, Write(a),
           updateBalance(a, n),
           \/ /\ exposed' = exposed
              /\ n < 0 => ~IsFrozen(a) /\ BalanceOf(a) + n >= 0
           \/ exposed' = exposed \cup {a} /\ Exists(a)
    PROVE  Stutter \/ L!Put(a, n) \/ L!Force(a, n)
<1>1. Pendings' = Pendings /\ \A s \in Sessions : Pendings[s][a] = 0
  BY WriteIsFree
<1>2. /\ \A b \in Accounts \ {a} : accounts'[b] = accounts[b]
      /\ Exists(a) => /\ BalanceOf(a)' = BalanceOf(a) + n
                      /\ IsFrozen(a)' = IsFrozen(a)
      /\ ~Exists(a) => accounts' = accounts
  BY OpUpdateBalanceType DEF OperationsInv, OperationsTypeOK, BalanceOf, IsFrozen, Exists
<1>3. CASE ~Exists(a)
  BY <1>1, <1>2, <1>3, AccountsFrame DEF Stutter, L!lockedVars, Balances, Frozen, Pendings
<1>4. CASE Exists(a)
  <2>1. Balances' = [Balances EXCEPT ![a] = @ + n] /\ Frozen' = Frozen
    BY <1>2, <1>4, DocumentFrame
  <2>2. Balances[a] = BalanceOf(a) /\ (a \in Frozen <=> IsFrozen(a))
    BY DEF Balances, Frozen
  <2>3. CASE exposed' = exposed /\ (n < 0 => ~IsFrozen(a) /\ BalanceOf(a) + n >= 0)
    <3>1. n < 0 => a \notin Frozen /\ Balances[a] + n >= 0
      BY <2>2, <2>3
    <3> QED BY <1>1, <2>1, <2>3, <3>1
            DEF L!Put, L!FreeBut, L!Covered, Balances, Frozen, Pendings
  <2>4. CASE exposed' = exposed \cup {a}
    BY <1>1, <2>1, <2>4 DEF L!Force, L!FreeBut, Balances, Frozen, Pendings
  <2> QED BY <2>3, <2>4
<1> QED BY <1>3, <1>4

\* A change of at most a's status outside of the sessions.
LEMMA StatusOutside ==
    ASSUME OperationsInv, NEW a \in Accounts, Write(a), Exists(a), exposed' = exposed,
           NEW status \in AccountStatus,
           accounts' = accounts \/ accounts' = [accounts EXCEPT ![a].status = status]
    PROVE  Stutter \/ L!Mark(a)
<1>1. Pendings' = Pendings /\ \A s \in Sessions : Pendings[s][a] = 0
  BY WriteIsFree
<1>2. CASE accounts' = accounts
  BY <1>1, <1>2, AccountsFrame DEF Stutter, L!lockedVars, Balances, Frozen, Pendings
<1>3. CASE accounts' = [accounts EXCEPT ![a].status = status]
  <2>1. /\ \A b \in Accounts \ {a} : accounts'[b] = accounts[b]
        /\ BalanceOf(a)' = BalanceOf(a)
    BY <1>3, StatusChangeType DEF OperationsInv, OperationsTypeOK, BalanceOf, Exists
  <2>2. Balances' = Balances /\ Frozen' \in {Frozen \cup {a}, Frozen \ {a}}
    BY <2>1, DocumentFrame
  <2> QED BY <1>1, <2>2 DEF L!Mark, L!FreeBut, Balances, Frozen, Pendings
<1> QED BY <1>2, <1>3

LEMMA AccountImplements ==
    ASSUME OperationsInv, NEW a \in Accounts, AccountWork(a)
    PROVE  Stutter \/ L!Mark(a) \/ \E n \in Moves : L!Put(a, n) \/ L!Force(a, n)
<1>1. ASSUME NEW n \in Amounts, Pay(a, n)
      PROVE  Stutter \/ \E m \in Moves : L!Put(a, m) \/ L!Force(a, m)
  <2>1. n \in Moves /\ n \in Nat
    BY MovesType
  <2>2. Write(a) /\ updateBalance(a, n) /\ exposed' = exposed /\ n \in Int /\ ~(n < 0)
    BY <1>1, <2>1 DEF Pay
  <2>3. Stutter \/ L!Put(a, n) \/ L!Force(a, n)
    BY <2>1, <2>2, UpdateOutside
  <2> QED BY <2>1, <2>3
<1>2. ASSUME (\E r \in Reasons : FreezeAccount(a, r)) \/ UnfreezeAccount(a)
      PROVE  Stutter \/ L!Mark(a)
  <2>1. PICK status \in {"FROZEN", "ACTIVE"} :
            Exists(a) /\ accounts' = [accounts EXCEPT ![a].status = status]
    BY <1>2 DEF FreezeAccount, UnfreezeAccount, freeze, unfreeze
  <2>2. status \in AccountStatus /\ Write(a) /\ exposed' = exposed
    BY <1>2 DEF AccountStatus, FreezeAccount, UnfreezeAccount
  <2> QED BY <2>1, <2>2, StatusOutside
<1> QED BY <1>1, <1>2 DEF AccountWork

\* Documents and transactions are as they were.
LEMMA NothingSeen ==
    ASSUME accounts' = accounts, exposed' = exposed, Pendings' = Pendings
    PROVE  Stutter
BY AccountsFrame DEF Stutter, L!lockedVars, Balances, Frozen, Pendings

LEMMA HolderImplements ==
    ASSUME OperationsInv, NEW h \in Holders, HolderWork(h)
    PROVE  Stutter \/ \E a \in Accounts : L!Mark(a) \/ \E n \in Moves : L!Put(a, n) \/ L!Force(a, n)
<1>1. ASSUME NEW what, Hold(h, what) PROVE Stutter
  <2>1. UNCHANGED <<accounts, session, exposed>>
    BY <1>1 DEF Hold
  <2>2. Pendings' = Pendings
    BY <2>1 DEF Pendings, PendingOf, Alive
  <2> QED BY <2>1, <2>2, NothingSeen
<1>2. CASE DebitChecked(h)
  <2>1. PICK a \in Accounts : a = held[h].of
    BY <1>2, HeldDebit
  <2>2. PICK n \in Amounts \cup {0} : n = held[h].amount
    BY DEF OperationsInv, OperationsTypeOK, HeldState
  <2>3. n \in Nat /\ -n \in Moves
    BY MovesType
  <2>4. /\ Write(a) /\ updateBalance(a, -n)
        /\ exposed' = IF held[h].has = "checked" /\ accounts[a] = held[h].doc
                         THEN exposed ELSE exposed \cup {a}
    BY <1>2, <2>1, <2>2 DEF DebitChecked
  <2>5. HeldInv(h) /\ held[h].has # "nothing"
    BY <1>2 DEF OperationsInv, DebitChecked
  <2>6. Exists(a) /\ BalanceOf(a) = accounts[a].balance /\ BalanceOf(a) \in Int
    BY <2>1, <2>5, DocumentType DEF HeldInv, BalanceOf
  <2>7. ASSUME held[h].has = "checked" /\ accounts[a] = held[h].doc
        PROVE  ~IsFrozen(a) /\ BalanceOf(a) >= n
    <3>1. accounts[a].status = "ACTIVE" /\ accounts[a].balance >= n
      BY <2>2, <2>5, <2>7 DEF HeldInv
    <3> QED BY <2>6, <3>1 DEF IsFrozen
  <2> DEFINE m == -n
  <2>8. m \in Int /\ m \in Moves /\ updateBalance(a, m) /\ (BalanceOf(a) >= n => BalanceOf(a) + m >= 0)
    BY <2>3, <2>4, <2>6
  <2> HIDE DEF m
  <2>9. \/ exposed' = exposed /\ ~IsFrozen(a) /\ BalanceOf(a) + m >= 0
        \/ exposed' = exposed \cup {a} /\ Exists(a)
    BY <2>4, <2>6, <2>7, <2>8
  <2>10. Stutter \/ L!Put(a, m) \/ L!Force(a, m)
    BY <2>4, <2>8, <2>9, UpdateOutside
  <2> QED BY <2>8, <2>10
<1>3. ASSUME NEW status \in AccountStatus, NEW why, Save(h, status, why)
      PROVE  Stutter \/ \E a \in Accounts : L!Mark(a)
  <2>1. PICK a \in Accounts : a = held[h].of /\ Exists(a)
    BY <1>3 DEF OperationsInv, HeldInv, Save
  <2>2. /\ Write(a) /\ exposed' = exposed
        /\ accounts' = accounts \/ accounts' = [accounts EXCEPT ![a].status = status]
    BY <1>3, <2>1 DEF Save
  <2> QED BY <2>1, <2>2, StatusOutside
<1>4. "FROZEN" \in AccountStatus /\ "ACTIVE" \in AccountStatus
  BY DEF AccountStatus
<1>5. ASSUME ~DebitChecked(h)
      PROVE  \/ \E what : Hold(h, what)
             \/ \E status \in AccountStatus : \E why : Save(h, status, why)
  BY <1>4, <1>5 DEF HolderWork, CheckActive, CheckBalance, Load, FreezeDocument,
                    UnfreezeDocument, UnfreezeUnfrozen, RefuseToSave
<1> QED BY <1>1, <1>2, <1>3, <1>5

-----------------------------------------------------------------------------
(* Steps of a session.                                                     *)

\* At most session s has changed, to new, and in it the change of a by n.
LEMMA SessionSeen ==
    ASSUME OperationsInv, NEW s \in Sessions, NEW new, session' = [session EXCEPT ![s] = new],
           UNCHANGED <<accounts, exposed>>
    PROVE  /\ Balances' = Balances /\ Frozen' = Frozen /\ exposed' = exposed
           /\ \A a \in Accounts :
                 PendingOf(s, a)' = IF new.stage \in {"open", "orphan"} THEN new.added[a] ELSE 0
           /\ \A t \in Sessions \ {s}, a \in Accounts : PendingOf(t, a)' = PendingOf(t, a)
<1>1. session'[s] = new /\ \A t \in Sessions \ {s} : session'[t] = session[t]
  BY DEF OperationsInv, OperationsTypeOK
<1> QED BY <1>1, AccountsFrame DEF PendingOf, Alive

\* A session that goes on with what it has changed so far.
LEMMA SessionGoesOn ==
    ASSUME OperationsInv, NEW s \in Sessions, Usable(s), NEW new,
           session' = [session EXCEPT ![s] = new], UNCHANGED <<accounts, exposed>>,
           new.stage = "open", new.added = Begun(s).added
    PROVE  Stutter
<1>1. \A a \in Accounts : Begun(s).added[a] = PendingOf(s, a)
  BY BegunFields DEF OperationsInv, PendingOf, Alive
<1>2. \A t \in Sessions, a \in Accounts : PendingOf(t, a)' = PendingOf(t, a)
  BY <1>1, SessionSeen
<1>3. Pendings' = Pendings
  BY <1>2 DEF Pendings
<1> QED BY <1>3, NothingSeen

\* A session that ends without effect.
LEMMA SessionDropped ==
    ASSUME OperationsInv, NEW s \in Sessions, session' = [session EXCEPT ![s] = Over],
           UNCHANGED <<accounts, exposed>>
    PROVE  L!Drop({s})
<1>1. /\ \A a \in Accounts : PendingOf(s, a)' = 0
      /\ \A t \in Sessions \ {s}, a \in Accounts : PendingOf(t, a)' = PendingOf(t, a)
  BY SessionSeen, FreshFields
<1>2. Pendings' = [t \in Sessions |-> IF t \in {s} THEN [a \in Accounts |-> 0] ELSE Pendings[t]]
  BY <1>1 DEF Pendings
<1> QED BY <1>2, AccountsFrame DEF L!Drop, Balances, Frozen, Pendings

LEMMA GetImplements ==
    ASSUME OperationsInv, NEW s \in Sessions, NEW a \in Accounts, Get(s, a)
    PROVE  Stutter
<1> DEFINE now == Begun(s)
           new == [now EXCEPT !.seen[a] = now.view[a]]
<1>1. now \in SessionState /\ now.stage = "open"
  BY BegunFields DEF Get, OperationsInv
<1>2. new.stage = now.stage /\ new.added = now.added
  <2> HIDE DEF now
  <2> QED BY <1>1 DEF SessionState
<1>3. Usable(s) /\ session' = [session EXCEPT ![s] = new] /\ UNCHANGED <<accounts, exposed>>
  BY DEF Get, getAccountWithLock
<1> QED BY <1>1, <1>2, <1>3, SessionGoesOn

LEMMA UpdateImplements ==
    ASSUME OperationsInv, NEW s \in Sessions, NEW a \in Accounts, NEW n \in Moves, n \in Int,
           Update(s, a, n)
    PROVE  Stutter \/ L!Drop({s}) \/ L!Add(s, a, n)
<1> DEFINE now == Begun(s)
           doc == now.view[a]
           changed == [doc EXCEPT !.balance = @ + n]
           new == [now EXCEPT !.view[a] = changed, !.seen[a] = changed,
                              !.added[a] = @ + n, !.dirty = @ \cup {a}]
<1>1. now \in SessionState /\ now.stage = "open" /\ Consistent(now)
  BY BegunFields, BegunConsistent DEF Update, OperationsInv
<1>2. /\ Usable(s) /\ UNCHANGED <<accounts, exposed>>
      /\ session' = [session EXCEPT ![s] = IF doc = NoAccount THEN now
                                           ELSE IF Conflict(s, a) THEN Over ELSE new]
  BY DEF Update, updateBalanceWithSession
<1>3. CASE doc = NoAccount
  BY <1>1, <1>2, <1>3, SessionGoesOn
<1>4. CASE doc # NoAccount /\ Conflict(s, a)
  BY <1>2, <1>4, SessionDropped
<1>5. CASE doc # NoAccount /\ ~Conflict(s, a)
  <2>1. a \notin now.stale /\ \A t \in Sessions \ {s} : Alive(t) => a \notin session[t].dirty
    BY <1>5 DEF Conflict
  <2>2. n < 0 => doc.status # "FROZEN" /\ doc.balance + n >= 0
    BY <1>5, UpdateCovered
  <2>3. /\ new.stage = "open"
        /\ \A b \in Accounts \ {a} : new.added[b] = now.added[b]
        /\ new.added[a] = now.added[a] + n
    <3>1. now.added \in [Accounts -> Int]
      BY <1>1 DEF SessionState
    <3> HIDE DEF now, changed
    <3> QED BY <1>1, <3>1 DEF SessionState
  <2>4. \A b \in Accounts : now.added[b] = PendingOf(s, b)
    BY <1>2, BegunFields DEF OperationsInv, PendingOf, Alive
  <2>5. session' = [session EXCEPT ![s] = new] /\ UNCHANGED <<accounts, exposed>>
    BY <1>2, <1>5
  <2> HIDE DEF new
  <2>6. /\ PendingOf(s, a)' = PendingOf(s, a) + n
        /\ \A b \in Accounts \ {a} : PendingOf(s, b)' = PendingOf(s, b)
        /\ \A t \in Sessions \ {s}, b \in Accounts : PendingOf(t, b)' = PendingOf(t, b)
    <3>1. /\ \A b \in Accounts :
                PendingOf(s, b)' = IF new.stage \in {"open", "orphan"} THEN new.added[b] ELSE 0
          /\ \A t \in Sessions \ {s}, b \in Accounts : PendingOf(t, b)' = PendingOf(t, b)
      BY <2>5, SessionSeen
    <3> HIDE DEF now
    <3>2. \A b \in Accounts : PendingOf(s, b)' = new.added[b]
      BY <2>3, <3>1
    <3> QED BY <2>3, <2>4, <3>1, <3>2
  <2>7. Pendings' = [Pendings EXCEPT ![s][a] = @ + n]
    BY <2>6 DEF Pendings
  <2>8. Exists(a) /\ doc.status = accounts[a].status /\ doc.balance = BalanceOf(a) + PendingOf(s, a)
    <3> HIDE DEF now
    <3>1. CASE a \in now.dirty
      <4>1. /\ Exists(a) /\ doc.status = accounts[a].status
            /\ doc.balance = accounts[a].balance + now.added[a]
        BY <1>1, <3>1 DEF Consistent
      <4> QED BY <2>4, <4>1 DEF BalanceOf
    <3>2. CASE a \notin now.dirty
      <4>1. doc = accounts[a] /\ PendingOf(s, a) = 0
        BY <1>1, <2>1, <2>4, <3>2 DEF Consistent
      <4>2. Exists(a) /\ BalanceOf(a) = accounts[a].balance /\ BalanceOf(a) \in Int
        BY <1>5, <4>1, DocumentType DEF Exists, BalanceOf
      <4> QED BY <4>1, <4>2
    <3> QED BY <3>1, <3>2
  <2>9. n < 0 => a \notin Frozen /\ Balances[a] + Pendings[s][a] + n >= 0
    BY <2>2, <2>8 DEF Frozen, IsFrozen, Balances, Pendings
  <2>10. \A t \in Sessions \ {s} : Pendings[t][a] = 0
    BY <2>1, PendingDirty DEF Pendings
  <2>11. Balances' = Balances /\ Frozen' = Frozen
    BY <1>2, AccountsFrame
  <2> QED BY <1>2, <2>7, <2>9, <2>10, <2>11
          DEF L!Add, L!FreeBut, L!Covered, Balances, Frozen, Pendings
<1> QED BY <1>3, <1>4, <1>5

\* A commit puts whole documents back, which comes to adding what it changed.
LEMMA CommitImplements ==
    ASSUME OperationsInv, NEW s \in Sessions, CommitSession(s)
    PROVE  L!Commit(s)
<1> DEFINE x == session[s]
<1>1. /\ Alive(s) /\ Consistent(x) /\ x.dirty \in SUBSET Accounts /\ exposed' = exposed
      /\ accounts' = [a \in Accounts |-> IF a \in x.dirty THEN x.view[a] ELSE accounts[a]]
      /\ session' = [t \in Sessions |-> IF t = s THEN Over ELSE Touched(t, x.dirty)]
  BY DEF OperationsInv, OperationsTypeOK, SessionsInv, SessionState, CommitSession, Alive
<1>2. ASSUME NEW a \in Accounts
      PROVE  /\ BalanceOf(a)' = BalanceOf(a) + PendingOf(s, a)
             /\ IsFrozen(a)' = IsFrozen(a)
  <2>1. CASE a \in x.dirty
    <3>1. /\ Exists(a) /\ x.view[a] # NoAccount /\ x.view[a].status = accounts[a].status
          /\ x.view[a].balance = accounts[a].balance + x.added[a]
      BY <1>1, <2>1 DEF Consistent
    <3>2. accounts'[a] = x.view[a]
      BY <1>1, <2>1
    <3> QED BY <1>1, <3>1, <3>2 DEF BalanceOf, PendingOf, IsFrozen, Exists
  <2>2. CASE a \notin x.dirty
    <3>1. accounts'[a] = accounts[a]
      BY <1>1, <2>2
    <3>2. PendingOf(s, a) = 0 /\ BalanceOf(a) \in Int
      BY <2>2, PendingDirty, DocumentType
    <3>3. BalanceOf(a)' = BalanceOf(a) /\ IsFrozen(a)' = IsFrozen(a)
      BY <3>1 DEF BalanceOf, IsFrozen, Exists
    <3> QED BY <3>2, <3>3
  <2> QED BY <2>1, <2>2
<1>3. \A a \in Accounts : PendingOf(s, a)' = 0
  <2>1. session'[s] = Over
    BY <1>1
  <2> QED BY <2>1, FreshFields DEF PendingOf, Alive
<1>4. ASSUME NEW t \in Sessions \ {s}, NEW a \in Accounts PROVE PendingOf(t, a)' = PendingOf(t, a)
  <2>1. session'[t] = Touched(t, x.dirty)
    BY <1>1
  <2>2. session'[t].stage = session[t].stage /\ session'[t].added = session[t].added
    BY <1>1, <2>1, TouchedFields DEF OperationsInv
  <2> QED BY <2>2 DEF PendingOf, Alive
<1>5. Balances' = [a \in Accounts |-> Balances[a] + Pendings[s][a]]
  BY <1>2 DEF Balances, Pendings
<1>6. Pendings' = [Pendings EXCEPT ![s] = [a \in Accounts |-> 0]]
  BY <1>3, <1>4 DEF Pendings
<1>7. Frozen' = Frozen
  BY <1>2 DEF Frozen
<1> QED BY <1>1, <1>5, <1>6, <1>7 DEF L!Commit, Balances, Frozen, Pendings

LEMMA SessionImplements ==
    ASSUME OperationsInv, NEW s \in Sessions, SessionWork(s)
    PROVE  \/ Stutter \/ L!Commit(s) \/ L!Drop({s})
           \/ \E a \in Accounts, n \in Moves : L!Add(s, a, n)
<1>1. ASSUME NEW a \in Accounts, NEW n \in Amounts, Update(s, a, n) \/ Update(s, a, -n)
      PROVE  Stutter \/ L!Drop({s}) \/ \E m \in Moves : L!Add(s, a, m)
  <2>1. n \in Moves /\ -n \in Moves /\ n \in Int /\ -n \in Int
    BY MovesType
  <2>2. PICK m \in Moves : m \in Int /\ Update(s, a, m)
    BY <1>1, <2>1
  <2> QED BY <2>2, UpdateImplements
<1>2. CASE AbortSession(s)
  BY <1>2, SessionDropped DEF AbortSession
<1> QED BY <1>1, <1>2, GetImplements, CommitImplements DEF SessionWork

-----------------------------------------------------------------------------
(* The end of the connection, of the process, and the whole.               *)

LEMMA EndingsImplement ==
    ASSUME OperationsInv, (\E s \in Sessions : Expire(s)) \/ EndSessions \/ Abandon
    PROVE  Stutter \/ \E some \in SUBSET Sessions : L!Drop(some)
<1>1. ASSUME NEW s \in Sessions, Expire(s) PROVE L!Drop({s})
  BY <1>1, SessionDropped DEF Expire
<1>2. CASE EndSessions
  <2> DEFINE some == {s \in Sessions : session[s].stage = "open"}
  <2>1. \A s \in Sessions : session'[s] = IF s \in some THEN Over ELSE session[s]
    BY <1>2 DEF EndSessions
  <2>2. \A s \in Sessions, a \in Accounts :
            PendingOf(s, a)' = IF s \in some THEN 0 ELSE PendingOf(s, a)
    BY <2>1, FreshFields DEF PendingOf, Alive
  <2>3. Pendings' = [s \in Sessions |-> IF s \in some THEN [a \in Accounts |-> 0] ELSE Pendings[s]]
    BY <2>2 DEF Pendings
  <2>4. L!Drop(some)
    BY <1>2, <2>3, AccountsFrame DEF EndSessions, L!Drop, Balances, Frozen, Pendings
  <2> QED BY <2>4
<1>3. CASE Abandon
  <2>1. \A s \in Sessions, a \in Accounts : PendingOf(s, a)' = PendingOf(s, a)
    BY <1>3 DEF Abandon, PendingOf, Alive, OperationsInv, OperationsTypeOK, SessionState
  <2>2. Pendings' = Pendings
    BY <2>1 DEF Pendings
  <2> QED BY <1>3, <2>2, NothingSeen DEF Abandon
<1> QED BY <1>1, <1>2, <1>3

LEMMA LocksStep ==
    ASSUME OperationsInv, [OperationsNext]_operationVars
    PROVE  [L!LockedNext]_L!lockedVars
<1>1. CASE UNCHANGED operationVars
  <2>1. UNCHANGED <<accounts, session, exposed>>
    BY <1>1 DEF operationVars
  <2>2. Pendings' = Pendings
    BY <2>1 DEF Pendings, PendingOf, Alive
  <2> QED BY <2>1, <2>2, NothingSeen DEF Stutter
<1>2. CASE OperationsNext
  <2>1. \/ Stutter
        \/ \E a \in Accounts : L!Mark(a) \/ \E n \in Moves : L!Put(a, n) \/ L!Force(a, n)
        \/ \E s \in Sessions : \/ L!Commit(s)
                               \/ \E a \in Accounts, n \in Moves : L!Add(s, a, n)
        \/ \E some \in SUBSET Sessions : L!Drop(some)
    BY <1>2, AccountImplements, HolderImplements, SessionImplements, EndingsImplement
       DEF OperationsNext, Operate
  <2> QED BY <2>1 DEF L!LockedNext, Stutter, Moves
<1> QED BY <1>1, <1>2

\* Sessions behave as if what they write were locked from the write on.
THEOREM OperationsImplementLocks == LifecycleSpec => ImplementsLocks
<1>1. OperationsInv /\ [OperationsNext]_operationVars => [L!LockedNext]_L!lockedVars
  BY LocksStep
<1> QED BY <1>1, LocksInitial, LifecycleOperates, OperationsInvariant, PTL
        DEF OperationsSpec, ImplementsLocks, L!LockedSpec

=============================================================================
