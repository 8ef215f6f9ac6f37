--------------------------- MODULE OperationsProofs -------------------------
(* Theorems about the account operations and the life of the process, for  *)
(* every value of the constants.                                           *)
EXTENDS ServiceLifecycle, TLAPS

-----------------------------------------------------------------------------
(* Types.                                                                  *)

LEMMA FreshType == Fresh \in SessionState /\ Over \in SessionState /\ Nothing \in HeldState
BY DEF Fresh, Over, Nothing, SessionState, HeldState, Docs

LEMMA FreshFields ==
    /\ Fresh.stage = "idle" /\ Over.stage = "over"
    /\ Fresh.dirty = {} /\ Fresh.stale = {}
    /\ Fresh.added = [a \in Accounts |-> 0]
    /\ Fresh.seen = [a \in Accounts |-> NoAccount]
    /\ Fresh.view = [a \in Accounts |-> NoAccount]
    /\ Nothing.has = "nothing"
BY DEF Fresh, Over, Nothing

\* The snapshot of a session that its next operation finds.
LEMMA BegunFields ==
    ASSUME OperationsTypeOK, NEW s \in Sessions, Usable(s)
    PROVE  /\ Begun(s) \in SessionState
           /\ Begun(s).stage = "open"
           /\ \/ /\ session[s].stage = "open" /\ Begun(s) = session[s]
              \/ /\ session[s].stage = "idle" /\ Begun(s).view = accounts
                 /\ Begun(s).dirty = {} /\ Begun(s).stale = {}
                 /\ Begun(s).added = [a \in Accounts |-> 0]
                 /\ Begun(s).seen = [a \in Accounts |-> NoAccount]
<1>1. CASE session[s].stage = "idle"
  <2> DEFINE new == [Fresh EXCEPT !.stage = "open", !.view = accounts]
  <2>1. /\ new \in SessionState /\ new.stage = "open" /\ new.view = accounts
        /\ new.dirty = Fresh.dirty /\ new.stale = Fresh.stale
        /\ new.added = Fresh.added /\ new.seen = Fresh.seen
    BY FreshType DEF SessionState, OperationsTypeOK, AccountsTypeOK, Docs
  <2>2. Begun(s) = new
    BY <1>1 DEF Begun
  <2> HIDE DEF new
  <2> QED BY <1>1, <2>1, <2>2, FreshFields
<1>2. CASE session[s].stage = "open"
  BY <1>2 DEF Begun, OperationsTypeOK
<1> QED BY <1>1, <1>2 DEF Usable

LEMMA BalanceChangeType ==
    ASSUME NEW doc \in AccountDoc, NEW amount \in Int
    PROVE  LET new == [doc EXCEPT !.balance = @ + amount] IN
           /\ new \in AccountDoc /\ new # NoAccount
           /\ new.balance = doc.balance + amount /\ new.status = doc.status
BY NoAccountAssumption DEF AccountDoc

LEMMA OpUpdateBalanceType ==
    ASSUME AccountsTypeOK, NEW a \in Accounts, NEW amount \in Int, updateBalance(a, amount)
    PROVE  /\ AccountsTypeOK'
           /\ \A b \in Accounts \ {a} : accounts'[b] = accounts[b]
           /\ Exists(a) => /\ accounts'[a] # NoAccount
                           /\ accounts'[a].balance = accounts[a].balance + amount
                           /\ accounts'[a].status = accounts[a].status
           /\ ~Exists(a) => accounts' = accounts
<1>1. CASE Exists(a)
  <2> DEFINE new == [accounts[a] EXCEPT !.balance = @ + amount]
  <2>1. accounts[a] \in AccountDoc
    BY <1>1 DEF AccountsTypeOK, Exists
  <2>2. /\ new \in AccountDoc /\ new # NoAccount
        /\ new.balance = accounts[a].balance + amount /\ new.status = accounts[a].status
    BY <2>1, BalanceChangeType
  <2>3. accounts' = [accounts EXCEPT ![a] = new]
    BY <1>1, <2>1 DEF updateBalance
  <2> HIDE DEF new
  <2> QED BY <1>1, <2>2, <2>3 DEF AccountsTypeOK
<1>2. CASE ~Exists(a)
  BY <1>2 DEF updateBalance, AccountsTypeOK
<1> QED BY <1>1, <1>2

LEMMA StatusChangeType ==
    ASSUME AccountsTypeOK, NEW a \in Accounts, Exists(a), NEW status \in AccountStatus,
           accounts' = [accounts EXCEPT ![a].status = status]
    PROVE  /\ AccountsTypeOK'
           /\ \A b \in Accounts \ {a} : accounts'[b] = accounts[b]
           /\ accounts'[a] # NoAccount
           /\ accounts'[a].balance = accounts[a].balance
           /\ accounts'[a].status = status
<1> DEFINE new == [accounts[a] EXCEPT !.status = status]
<1>1. accounts[a] \in AccountDoc
  BY DEF AccountsTypeOK, Exists
<1>2. /\ new \in AccountDoc /\ new # NoAccount
      /\ new.balance = accounts[a].balance /\ new.status = status
  BY <1>1, NoAccountAssumption DEF AccountDoc
<1>3. accounts' = [accounts EXCEPT ![a] = new]
  OBVIOUS
<1> HIDE DEF new
<1> QED BY <1>2, <1>3 DEF AccountsTypeOK

LEMMA TouchedFields ==
    ASSUME OperationsTypeOK, NEW t \in Sessions, NEW A \in SUBSET Accounts
    PROVE  /\ Touched(t, A) \in SessionState
           /\ Touched(t, A).stage = session[t].stage
           /\ Touched(t, A).view = session[t].view /\ Touched(t, A).seen = session[t].seen
           /\ Touched(t, A).added = session[t].added /\ Touched(t, A).dirty = session[t].dirty
           /\ Alive(t) => Touched(t, A).stale = session[t].stale \cup A
BY DEF Touched, OperationsTypeOK, SessionState

\* A change outside of sessions of at most a's document.
LEMMA WriteFields ==
    ASSUME OperationsTypeOK, NEW a \in Accounts, Write(a)
    PROVE  /\ session' \in [Sessions -> SessionState] /\ changes' \in Nat
           /\ \A t \in Sessions :
                 /\ session'[t].stage = session[t].stage
                 /\ session'[t].view = session[t].view /\ session'[t].seen = session[t].seen
                 /\ session'[t].added = session[t].added /\ session'[t].dirty = session[t].dirty
                 /\ Alive(t) => /\ session'[t].stale = session[t].stale \cup {a}
                                /\ a \notin session[t].dirty
<1>1. \A t \in Sessions : session'[t] = Touched(t, {a})
  BY DEF Write
<1>2. session' = [t \in Sessions |-> Touched(t, {a})]
  BY DEF Write
<1>3. {a} \in SUBSET Accounts
  OBVIOUS
<1>4. changes' \in Nat
  BY DEF Write, Change, OperationsTypeOK
<1>5. \A t \in Sessions : Alive(t) => a \notin session[t].dirty
  BY DEF Write
<1> QED BY <1>1, <1>2, <1>3, <1>4, <1>5, TouchedFields

-----------------------------------------------------------------------------
(* What a transaction holds.  A document that it has written is nobody      *)
(* else's to change; one that nobody has changed is as in the snapshot.     *)

Consistent(x) ==
    /\ x.dirty \cap x.stale = {}
    /\ \A a \in x.dirty :
          /\ Exists(a) /\ x.view[a] # NoAccount
          /\ x.view[a].status = accounts[a].status
          /\ x.view[a].balance = accounts[a].balance + x.added[a]
          /\ x.view[a].balance >= 0 \/ a \in exposed
          /\ x.added[a] < 0 => accounts[a].status # "FROZEN"
    /\ \A a \in Accounts \ x.dirty : /\ x.added[a] = 0
                                     /\ a \notin x.stale => x.view[a] = accounts[a]
    /\ \A a \in Accounts : x.seen[a] # NoAccount => x.seen[a] = x.view[a]

Separate(s, t) == s # t /\ Alive(s) /\ Alive(t) => session[s].dirty \cap session[t].dirty = {}

SessionsInv ==
    /\ \A s \in Sessions : /\ session[s].stage = "idle" => session[s] = Fresh
                           /\ Alive(s) => Consistent(session[s])
    /\ \A s, t \in Sessions : Separate(s, t)

AccountInv(a) ==
    Exists(a) => /\ accounts[a].balance >= 0 \/ a \in exposed
                 /\ accounts[a].balance = ledger[a]

ReasonInv(a) == a \notin muddled => (IsFrozen(a) <=> reason[a] # NoReason)

HeldInv(h) ==
    /\ held[h].has # "nothing" =>
            held[h].of \in Accounts /\ Exists(held[h].of) /\ held[h].doc \in AccountDoc
    /\ held[h].has \in {"active", "checked"} => held[h].doc.status = "ACTIVE"
    /\ held[h].has = "checked" => held[h].doc.balance >= held[h].amount

OperationsInv ==
    /\ OperationsTypeOK
    /\ SessionsInv
    /\ \A a \in Accounts : AccountInv(a) /\ ReasonInv(a)
    /\ \A h \in Holders : HeldInv(h)

LEMMA OperationsInvInit == OperationsInit => OperationsInv
<1> SUFFICES ASSUME OperationsInit PROVE OperationsInv
  OBVIOUS
<1>1. AccountsTypeOK
  BY InitialAccountsAssumption DEF OperationsInit, AccountsTypeOK
<1>2. \A a \in Accounts : Exists(a) => /\ accounts[a] \in AccountDoc
                                       /\ accounts[a].balance \in Int
                                       /\ accounts[a].balance >= 0
                                       /\ accounts[a].status # "FROZEN"
  BY <1>1, InitialAccountsAssumption DEF OperationsInit, AccountsTypeOK, Exists, AccountDoc
<1>3. OperationsTypeOK
  BY <1>1, <1>2, FreshType DEF OperationsInit, OperationsTypeOK
<1>4. SessionsInv
  BY FreshFields DEF OperationsInit, SessionsInv, Separate, Alive
<1>5. \A a \in Accounts : AccountInv(a) /\ ReasonInv(a)
  BY <1>2 DEF OperationsInit, AccountInv, ReasonInv, IsFrozen
<1>6. \A h \in Holders : HeldInv(h)
  BY FreshFields DEF OperationsInit, HeldInv
<1> QED BY <1>3, <1>4, <1>5, <1>6 DEF OperationsInv

-----------------------------------------------------------------------------
(* Steps of a session.                                                     *)

\* Session s becomes new and nothing else changes but the count of changes.
LEMMA SessionFrame ==
    ASSUME OperationsInv, NEW s \in Sessions, NEW new \in SessionState,
           session' = [session EXCEPT ![s] = new], changes' \in Nat,
           UNCHANGED <<accounts, reason, held, ledger, exposed, muddled>>,
           new.stage # "idle",
           new.stage \in {"open", "orphan"} =>
                /\ Consistent(new)
                /\ \A t \in Sessions \ {s} : Alive(t) => new.dirty \cap session[t].dirty = {}
    PROVE  OperationsInv'
<1>1. session'[s] = new /\ \A t \in Sessions \ {s} : session'[t] = session[t]
  BY DEF OperationsInv, OperationsTypeOK
<1>2. OperationsTypeOK'
  BY DEF OperationsInv, OperationsTypeOK, AccountsTypeOK
<1>3. SessionsInv'
  <2>1. ASSUME NEW t \in Sessions, Alive(t)' PROVE Consistent(session[t])'
    <3>1. Consistent(session'[t])
      BY <1>1, <2>1 DEF OperationsInv, SessionsInv, Alive
    <3> QED BY <3>1 DEF Consistent, Exists
  <2>2. ASSUME NEW t \in Sessions, NEW u \in Sessions PROVE Separate(t, u)'
    BY <1>1 DEF OperationsInv, SessionsInv, Separate, Alive
  <2>3. \A t \in Sessions : session'[t].stage = "idle" => session'[t] = Fresh
    BY <1>1 DEF OperationsInv, SessionsInv
  <2> QED BY <2>1, <2>2, <2>3 DEF SessionsInv, Fresh
<1>4. \A a \in Accounts : AccountInv(a)' /\ ReasonInv(a)'
  BY DEF OperationsInv, AccountInv, ReasonInv, Exists, IsFrozen
<1>5. \A h \in Holders : HeldInv(h)'
  BY DEF OperationsInv, HeldInv, Exists
<1> QED BY <1>2, <1>3, <1>4, <1>5 DEF OperationsInv

\* The session as it is found is consistent, with a snapshot just taken or not.
LEMMA BegunConsistent ==
    ASSUME OperationsInv, NEW s \in Sessions, Usable(s)
    PROVE  /\ Consistent(Begun(s))
           /\ \A t \in Sessions \ {s} : Alive(t) => Begun(s).dirty \cap session[t].dirty = {}
<1>1. CASE session[s].stage = "open" /\ Begun(s) = session[s]
  BY <1>1 DEF OperationsInv, SessionsInv, Separate, Alive
<1>2. CASE /\ Begun(s).view = accounts /\ Begun(s).dirty = {} /\ Begun(s).stale = {}
           /\ Begun(s).added = [a \in Accounts |-> 0]
           /\ Begun(s).seen = [a \in Accounts |-> NoAccount]
  BY <1>2 DEF Consistent
<1> QED BY <1>1, <1>2, BegunFields DEF OperationsInv

LEMMA GetStep ==
    ASSUME OperationsInv, NEW s \in Sessions, NEW a \in Accounts, Get(s, a)
    PROVE  OperationsInv'
<1> DEFINE now == Begun(s)
           new == [now EXCEPT !.seen[a] = now.view[a]]
<1>1. now \in SessionState /\ now.stage = "open"
  BY BegunFields DEF Get, OperationsInv
<1>2. Consistent(now) /\ \A t \in Sessions \ {s} : Alive(t) => now.dirty \cap session[t].dirty = {}
  BY BegunConsistent DEF Get
<1>3. /\ session' = [session EXCEPT ![s] = new]
      /\ UNCHANGED <<accounts, reason, held, changes, ledger, exposed, muddled>>
  BY DEF Get, getAccountWithLock
<1> HIDE DEF now
<1>4. /\ new \in SessionState /\ new.stage = "open" /\ new.view = now.view
      /\ new.added = now.added /\ new.dirty = now.dirty /\ new.stale = now.stale
      /\ new.seen = [now.seen EXCEPT ![a] = now.view[a]]
  BY <1>1 DEF SessionState
<1>5. now.seen \in [Accounts -> Docs]
  BY <1>1 DEF SessionState
<1> HIDE DEF new
<1>6. Consistent(new)
  BY <1>2, <1>4, <1>5 DEF Consistent
<1>7. changes' \in Nat
  BY <1>3 DEF OperationsInv, OperationsTypeOK
<1> QED BY <1>2, <1>3, <1>4, <1>6, <1>7, SessionFrame

\* A debit in a session is covered by the document that its update changes.
LEMMA UpdateCovered ==
    ASSUME OperationsInv, NEW s \in Sessions, NEW a \in Accounts, NEW amount \in Int, amount < 0,
           Update(s, a, amount), Begun(s).view[a] # NoAccount
    PROVE  Begun(s).view[a].status # "FROZEN" /\ Begun(s).view[a].balance + amount >= 0
<1> DEFINE now == Begun(s)
<1>1. Covered(s, a, -amount) /\ Usable(s)
  BY DEF Update
<1>2. session[s].seen[a] # NoAccount
  BY <1>1 DEF Covered
<1>3. now.seen[a] = session[s].seen[a]
  <2>1. CASE session[s].stage = "open"
    BY <2>1 DEF Begun
  <2>2. CASE session[s].stage = "idle"
    BY <1>2, <2>2, FreshFields DEF OperationsInv, SessionsInv
  <2> QED BY <1>1, <2>1, <2>2 DEF Usable
<1>4. Consistent(now) /\ now \in SessionState
  BY <1>1, BegunConsistent, BegunFields DEF OperationsInv
<1> HIDE DEF now
<1>5. now.seen[a] = now.view[a]
  BY <1>2, <1>3, <1>4 DEF Consistent
<1>6. now.view[a] # NoAccount => now.view[a] \in AccountDoc
  BY <1>4 DEF SessionState, Docs
<1>7. now.view[a].balance \in Int
  BY <1>6 DEF AccountDoc, now
<1> QED BY <1>1, <1>3, <1>5, <1>7 DEF Covered, now

LEMMA UpdateStep ==
    ASSUME OperationsInv, NEW s \in Sessions, NEW a \in Accounts, NEW amount \in Int,
           Update(s, a, amount)
    PROVE  OperationsInv'
<1> DEFINE now == Begun(s)
           doc == now.view[a]
           changed == [doc EXCEPT !.balance = @ + amount]
           new == [now EXCEPT !.view[a] = changed, !.seen[a] = changed,
                              !.added[a] = @ + amount, !.dirty = @ \cup {a}]
<1>1. now \in SessionState /\ now.stage = "open"
  BY BegunFields DEF Update, OperationsInv
<1>2. Consistent(now) /\ \A t \in Sessions \ {s} : Alive(t) => now.dirty \cap session[t].dirty = {}
  BY BegunConsistent DEF Update
<1>3. /\ UNCHANGED <<accounts, reason, held, ledger, exposed, muddled>>
      /\ changes' \in Nat
      /\ session' = [session EXCEPT ![s] = IF doc = NoAccount THEN now
                                           ELSE IF Conflict(s, a) THEN Over ELSE new]
  BY DEF Update, updateBalanceWithSession, Change, OperationsInv, OperationsTypeOK
<1>4. CASE doc = NoAccount
  BY <1>1, <1>2, <1>3, <1>4, SessionFrame
<1>5. CASE doc # NoAccount /\ Conflict(s, a)
  BY <1>3, <1>5, FreshType, FreshFields, SessionFrame
<1>6. CASE doc # NoAccount /\ ~Conflict(s, a)
  <2>1. a \notin now.stale /\ \A t \in Sessions \ {s} : Alive(t) => a \notin session[t].dirty
    BY <1>6 DEF Conflict
  <2>2. /\ now.view \in [Accounts -> Docs] /\ now.seen \in [Accounts -> Docs]
        /\ now.added \in [Accounts -> Int] /\ now.dirty \in SUBSET Accounts
        /\ now.stale \in SUBSET Accounts
        /\ doc \in AccountDoc /\ doc.balance \in Int
    BY <1>1, <1>6 DEF SessionState, Docs, AccountDoc
  <2>3. /\ changed \in AccountDoc /\ changed # NoAccount
        /\ changed.balance = doc.balance + amount /\ changed.status = doc.status
    BY <2>2, BalanceChangeType
  <2>4. amount < 0 => doc.status # "FROZEN" /\ doc.balance + amount >= 0
    BY <1>6, UpdateCovered
  <2> DEFINE view == [now.view EXCEPT ![a] = changed]
             seen == [now.seen EXCEPT ![a] = changed]
             added == [now.added EXCEPT ![a] = now.added[a] + amount]
             dirty == now.dirty \cup {a}
  <2> HIDE DEF now, changed
  <2>9. /\ view \in [Accounts -> Docs] /\ seen \in [Accounts -> Docs]
        /\ added \in [Accounts -> Int] /\ dirty \in SUBSET Accounts
    BY <2>2, <2>3 DEF Docs
  <2>10. /\ view[a] = changed /\ seen[a] = changed /\ added[a] = now.added[a] + amount
         /\ \A b \in Accounts \ {a} : /\ view[b] = now.view[b] /\ seen[b] = now.seen[b]
                                      /\ added[b] = now.added[b]
    BY <2>2
  <2>11. new = [now EXCEPT !.view = view, !.seen = seen, !.added = added, !.dirty = dirty]
    BY <1>1 DEF SessionState
  <2> HIDE DEF new, view, seen, added
  <2>5. /\ new \in SessionState /\ new.stage = "open" /\ new.stale = now.stale
        /\ new.view = view /\ new.seen = seen /\ new.added = added /\ new.dirty = dirty
    BY <1>1, <2>9, <2>11 DEF SessionState
  <2>6. Consistent(new)
    <3>1. ASSUME NEW b \in Accounts \ {a}, b \in new.dirty
          PROVE  /\ Exists(b) /\ new.view[b] # NoAccount
                 /\ new.view[b].status = accounts[b].status
                 /\ new.view[b].balance = accounts[b].balance + new.added[b]
                 /\ new.view[b].balance >= 0 \/ b \in exposed
                 /\ new.added[b] < 0 => accounts[b].status # "FROZEN"
      BY <1>2, <2>5, <2>10, <3>1 DEF Consistent
    <3>2. /\ Exists(a) /\ changed # NoAccount /\ changed.status = accounts[a].status
          /\ changed.balance = accounts[a].balance + added[a]
          /\ changed.balance >= 0 \/ a \in exposed
          /\ added[a] < 0 => accounts[a].status # "FROZEN"
      <4>1. CASE a \in now.dirty
        <5>1. /\ Exists(a) /\ doc.status = accounts[a].status
              /\ doc.balance = accounts[a].balance + now.added[a]
              /\ doc.balance >= 0 \/ a \in exposed
              /\ now.added[a] < 0 => accounts[a].status # "FROZEN"
          BY <1>2, <4>1 DEF Consistent
        <5>2. accounts[a].balance \in Int /\ now.added[a] \in Int
          BY <2>2, <5>1 DEF OperationsInv, OperationsTypeOK, AccountsTypeOK, Exists, AccountDoc
        <5> QED BY <2>2, <2>3, <2>4, <2>10, <5>1, <5>2
      <4>2. CASE a \notin now.dirty
        <5>1. doc = accounts[a] /\ now.added[a] = 0
          BY <1>2, <2>1, <4>2 DEF Consistent
        <5>2. Exists(a) /\ (accounts[a].balance >= 0 \/ a \in exposed)
          BY <1>6, <5>1 DEF Exists, OperationsInv, AccountInv
        <5> QED BY <2>2, <2>3, <2>4, <2>10, <5>1, <5>2
      <4> QED BY <4>1, <4>2
    <3>3. \A b \in Accounts : new.seen[b] # NoAccount => new.seen[b] = new.view[b]
      BY <1>2, <2>5, <2>10 DEF Consistent
    <3>4. \A b \in Accounts \ new.dirty : /\ new.added[b] = 0
                                          /\ b \notin new.stale => new.view[b] = accounts[b]
      BY <1>2, <2>5, <2>10 DEF Consistent
    <3>5. new.dirty \cap new.stale = {}
      BY <1>2, <2>1, <2>5 DEF Consistent
    <3>6. \A b \in new.dirty : b \in Accounts
      BY <2>5, <2>9
    <3> QED BY <2>5, <2>10, <3>1, <3>2, <3>3, <3>4, <3>5, <3>6 DEF Consistent
  <2>7. \A t \in Sessions \ {s} : Alive(t) => new.dirty \cap session[t].dirty = {}
    BY <1>2, <2>1, <2>5
  <2>8. session' = [session EXCEPT ![s] = new]
    BY <1>3, <1>6
  <2> QED BY <1>3, <2>5, <2>6, <2>7, <2>8, SessionFrame
<1> QED BY <1>4, <1>5, <1>6

\* A step that ends sessions, or leaves them as they are but for their stage.
LEMMA SessionsEnd ==
    ASSUME OperationsInv, session' \in [Sessions -> SessionState],
           \A s \in Sessions :
              \/ session'[s] = Over
              \/ session'[s] = session[s]
              \/ /\ session[s].stage = "open" /\ session'[s].stage = "orphan"
                 /\ session'[s].view = session[s].view /\ session'[s].seen = session[s].seen
                 /\ session'[s].added = session[s].added
                 /\ session'[s].dirty = session[s].dirty /\ session'[s].stale = session[s].stale,
           held' \in [Holders -> HeldState],
           \A h \in Holders : held'[h] \in {held[h], Nothing},
           UNCHANGED <<accounts, reason, changes, ledger, exposed, muddled>>
    PROVE  OperationsInv'
<1>1. OperationsTypeOK'
  BY FreshType DEF OperationsInv, OperationsTypeOK, AccountsTypeOK
<1>2. ASSUME NEW s \in Sessions
      PROVE  /\ session'[s].stage = "idle" => session'[s] = Fresh
             /\ Alive(s)' => /\ Alive(s) /\ session'[s].dirty = session[s].dirty
                             /\ Consistent(session'[s])
  BY FreshFields DEF OperationsInv, SessionsInv, Alive, Consistent
<1>3. SessionsInv'
  <2>1. ASSUME NEW s \in Sessions, Alive(s)' PROVE Consistent(session[s])'
    <3>1. Consistent(session'[s])
      BY <1>2, <2>1
    <3> QED BY <3>1 DEF Consistent, Exists
  <2>2. ASSUME NEW s \in Sessions, NEW t \in Sessions PROVE Separate(s, t)'
    <3>1. Separate(s, t)
      BY DEF OperationsInv, SessionsInv
    <3> QED BY <1>2, <3>1 DEF Separate
  <2> QED BY <1>2, <2>1, <2>2 DEF SessionsInv, Fresh
<1>4. \A a \in Accounts : AccountInv(a)' /\ ReasonInv(a)'
  BY DEF OperationsInv, AccountInv, ReasonInv, Exists, IsFrozen
<1>5. \A h \in Holders : HeldInv(h)'
  BY FreshFields DEF OperationsInv, HeldInv, Exists
<1> QED BY <1>1, <1>3, <1>4, <1>5 DEF OperationsInv

LEMMA EndingSteps ==
    ASSUME OperationsInv,
           \/ \E s \in Sessions : AbortSession(s) \/ Expire(s)
           \/ EndSessions
           \/ Abandon
    PROVE  OperationsInv'
<1>0. session \in [Sessions -> SessionState] /\ held \in [Holders -> HeldState]
  BY DEF OperationsInv, OperationsTypeOK
<1>1. ASSUME NEW s \in Sessions, AbortSession(s) \/ Expire(s) PROVE OperationsInv'
  BY <1>0, <1>1, FreshType, SessionsEnd DEF AbortSession, Expire
<1>2. CASE EndSessions
  BY <1>0, <1>2, FreshType, SessionsEnd DEF EndSessions
<1>3. CASE Abandon
  <2>1. ASSUME NEW s \in Sessions, session[s].stage = "open"
        PROVE  /\ session'[s] \in SessionState /\ session'[s].stage = "orphan"
               /\ session'[s].view = session[s].view /\ session'[s].seen = session[s].seen
               /\ session'[s].added = session[s].added
               /\ session'[s].dirty = session[s].dirty /\ session'[s].stale = session[s].stale
    BY <1>0, <1>3, <2>1 DEF Abandon, SessionState
  <2>2. \A s \in Sessions : session[s].stage # "open" => session'[s] = session[s]
    BY <1>0, <1>3 DEF Abandon
  <2>3. session' \in [Sessions -> SessionState]
    BY <1>0, <1>3, <2>1, <2>2 DEF Abandon
  <2>4. held' \in [Holders -> HeldState] /\ \A h \in Holders : held'[h] \in {held[h], Nothing}
    BY <1>3, FreshType DEF Abandon
  <2> QED BY <1>3, <2>1, <2>2, <2>3, <2>4, SessionsEnd DEF Abandon
<1> QED BY <1>1, <1>2, <1>3

LEMMA CommitStep ==
    ASSUME OperationsInv, NEW s \in Sessions, CommitSession(s)
    PROVE  OperationsInv'
<1> DEFINE x == session[s]
<1>0. /\ x \in SessionState /\ x.dirty \in SUBSET Accounts /\ x.stage = "open"
      /\ x.view \in [Accounts -> Docs] /\ x.added \in [Accounts -> Int]
      /\ accounts \in [Accounts -> Docs] /\ ledger \in [Accounts -> Int]
  BY DEF OperationsInv, OperationsTypeOK, AccountsTypeOK, SessionState, CommitSession, Docs
<1>1. Consistent(x)
  BY <1>0 DEF OperationsInv, SessionsInv, Alive
<1>2. /\ \A a \in x.dirty : accounts'[a] = x.view[a]
      /\ \A a \in Accounts \ x.dirty : accounts'[a] = accounts[a]
      /\ \A a \in Accounts : ledger'[a] = ledger[a] + x.added[a]
      /\ accounts' \in [Accounts -> Docs] /\ ledger' \in [Accounts -> Int]
      /\ UNCHANGED <<reason, held, changes, exposed, muddled>>
  BY <1>0 DEF CommitSession
<1>3. /\ session'[s] = Over
      /\ session' \in [Sessions -> SessionState]
      /\ \A t \in Sessions \ {s} : session'[t] = Touched(t, x.dirty)
  BY <1>0, FreshType, TouchedFields DEF CommitSession, OperationsInv
<1>4. OperationsTypeOK'
  BY <1>2, <1>3 DEF OperationsInv, OperationsTypeOK, AccountsTypeOK, Docs
<1> HIDE DEF x
<1>5. ASSUME NEW t \in Sessions, Alive(t)'
      PROVE  /\ t # s /\ Alive(t) /\ session'[t].stage = session[t].stage
             /\ session'[t].view = session[t].view /\ session'[t].seen = session[t].seen
             /\ session'[t].added = session[t].added /\ session'[t].dirty = session[t].dirty
             /\ session'[t].stale = session[t].stale \cup x.dirty
             /\ x.dirty \cap session[t].dirty = {}
             /\ session[t].dirty \in SUBSET Accounts
  <2>1. t # s
    BY <1>3, <1>5, FreshFields DEF Alive
  <2>2. Alive(t)
    BY <1>0, <1>3, <1>5, <2>1, TouchedFields DEF Alive, OperationsInv
  <2>3. x.dirty \cap session[t].dirty = {}
    BY <1>0, <2>1, <2>2 DEF x, OperationsInv, SessionsInv, Separate, Alive
  <2>4. session[t].dirty \in SUBSET Accounts
    BY DEF OperationsInv, OperationsTypeOK, SessionState
  <2> QED BY <1>0, <1>3, <2>1, <2>2, <2>3, <2>4, TouchedFields DEF OperationsInv
<1>6. SessionsInv'
  <2>1. ASSUME NEW t \in Sessions, Alive(t)' PROVE Consistent(session[t])'
    <3>1. Consistent(session[t])
      BY <1>5, <2>1 DEF OperationsInv, SessionsInv
    <3>2. \A a \in session[t].dirty : a \in Accounts \ x.dirty
      BY <1>5, <2>1
    <3>3. \A a \in session[t].dirty : accounts'[a] = accounts[a]
      BY <1>2, <3>2
    <3> QED BY <1>2, <1>5, <2>1, <3>1, <3>2, <3>3 DEF Consistent, Exists
  <2>2. ASSUME NEW t \in Sessions, NEW u \in Sessions PROVE Separate(t, u)'
    <3>1. Separate(t, u)
      BY DEF OperationsInv, SessionsInv
    <3> QED BY <1>5, <3>1 DEF Separate
  <2>3. ASSUME NEW t \in Sessions, session'[t].stage = "idle" PROVE session'[t] = Fresh
    <3>1. t # s
      BY <1>3, <2>3, FreshFields
    <3>2. session[t].stage = "idle"
      BY <1>0, <1>3, <2>3, <3>1, TouchedFields DEF OperationsInv
    <3> QED BY <1>3, <3>1, <3>2 DEF Touched, Alive, OperationsInv, SessionsInv
  <2> QED BY <2>1, <2>2, <2>3 DEF SessionsInv, Fresh
<1>7. ASSUME NEW a \in Accounts PROVE AccountInv(a)' /\ ReasonInv(a)'
  <2>1. AccountInv(a) /\ ReasonInv(a)
    BY DEF OperationsInv
  <2>2. CASE a \in x.dirty
    <3>1. /\ Exists(a) /\ x.view[a] # NoAccount /\ x.view[a].status = accounts[a].status
          /\ x.view[a].balance = accounts[a].balance + x.added[a]
          /\ x.view[a].balance >= 0 \/ a \in exposed
      BY <1>1, <2>2 DEF Consistent
    <3> QED BY <1>2, <2>1, <2>2, <3>1 DEF AccountInv, ReasonInv, Exists, IsFrozen
  <2>3. CASE a \notin x.dirty
    <3>1. x.added[a] = 0 /\ accounts'[a] = accounts[a]
      BY <1>1, <1>2, <2>3 DEF Consistent
    <3>2. ledger'[a] = ledger[a]
      BY <1>0, <1>2, <3>1
    <3> QED BY <1>2, <2>1, <3>1, <3>2 DEF AccountInv, ReasonInv, Exists, IsFrozen
  <2> QED BY <2>2, <2>3
<1>8. \A h \in Holders : HeldInv(h)'
  <2>1. \A a \in Accounts : Exists(a) => Exists(a)'
    BY <1>1, <1>2 DEF Consistent, Exists
  <2>2. held' = held
    BY <1>2
  <2> QED BY <2>1, <2>2 DEF OperationsInv, HeldInv
<1> QED BY <1>4, <1>6, <1>7, <1>8 DEF OperationsInv

-----------------------------------------------------------------------------
(* Changes outside of sessions.                                            *)

\* Such a change leaves the transactions consistent: it is of a document that
\* none of them has written, and marks it as changed.
LEMMA WriteKeepsSessions ==
    ASSUME OperationsInv, NEW a \in Accounts, Write(a), exposed \subseteq exposed',
           \A b \in Accounts \ {a} : accounts'[b] = accounts[b]
    PROVE  SessionsInv'
<1>1. \A t \in Sessions :
          /\ session'[t].stage = session[t].stage
          /\ session'[t].view = session[t].view /\ session'[t].seen = session[t].seen
          /\ session'[t].added = session[t].added /\ session'[t].dirty = session[t].dirty
          /\ Alive(t) => /\ session'[t].stale = session[t].stale \cup {a}
                         /\ a \notin session[t].dirty
  BY WriteFields DEF OperationsInv
<1>2. ASSUME NEW t \in Sessions, Alive(t)' PROVE Consistent(session[t])'
  <2>1. Alive(t)
    BY <1>1, <1>2 DEF Alive
  <2>2. Consistent(session[t])
    BY <2>1 DEF OperationsInv, SessionsInv
  <2>3. session[t].dirty \in SUBSET Accounts
    BY DEF OperationsInv, OperationsTypeOK, SessionState
  <2>4. \A b \in session[t].dirty : accounts'[b] = accounts[b]
    BY <1>1, <2>1, <2>3
  <2> QED BY <1>1, <2>1, <2>2, <2>3, <2>4 DEF Consistent, Exists
<1>3. ASSUME NEW t \in Sessions, NEW u \in Sessions PROVE Separate(t, u)'
  <2>1. Separate(t, u)
    BY DEF OperationsInv, SessionsInv
  <2> QED BY <1>1, <2>1 DEF Separate, Alive
<1>4. ASSUME NEW t \in Sessions, session'[t].stage = "idle" PROVE session'[t] = Fresh
  <2>1. session[t].stage = "idle" /\ session[t] = Fresh
    BY <1>1, <1>4 DEF OperationsInv, SessionsInv
  <2> QED BY <2>1 DEF Write, Touched, Alive
<1> QED BY <1>2, <1>3, <1>4 DEF SessionsInv, Fresh

\* What is left to show of such a change.
LEMMA WriteFrame ==
    ASSUME OperationsInv, NEW a \in Accounts, Write(a), AccountsTypeOK',
           \A b \in Accounts \ {a} :
                /\ accounts'[b] = accounts[b] /\ reason'[b] = reason[b]
                /\ ledger'[b] = ledger[b]
                /\ b \in muddled <=> b \in muddled',
           reason' \in [Accounts -> Reasons \cup {NoReason}], ledger' \in [Accounts -> Int],
           muddled' \subseteq Accounts, exposed' \subseteq Accounts, exposed \subseteq exposed',
           \/ held' = held
           \/ \E h \in Holders : held' = [held EXCEPT ![h] = Nothing],
           AccountInv(a)', ReasonInv(a)', Exists(a) => Exists(a)'
    PROVE  OperationsInv'
<1>1. OperationsTypeOK'
  BY WriteFields, FreshType DEF OperationsInv, OperationsTypeOK
<1>2. SessionsInv'
  BY WriteKeepsSessions
<1>3. ASSUME NEW b \in Accounts \ {a} PROVE AccountInv(b)' /\ ReasonInv(b)'
  BY DEF OperationsInv, AccountInv, ReasonInv, Exists, IsFrozen
<1>4. ASSUME NEW h \in Holders PROVE HeldInv(h)'
  <2>1. \A b \in Accounts : Exists(b) => Exists(b)'
    BY DEF Exists
  <2> QED BY <2>1, FreshFields DEF OperationsInv, OperationsTypeOK, HeldInv
<1> QED BY <1>1, <1>2, <1>3, <1>4 DEF OperationsInv

LEMMA AccountSteps ==
    ASSUME OperationsInv, NEW a \in Accounts, AccountWork(a)
    PROVE  OperationsInv'
<1>0. /\ AccountsTypeOK /\ AccountInv(a) /\ ReasonInv(a)
      /\ ledger \in [Accounts -> Int] /\ reason \in [Accounts -> Reasons \cup {NoReason}]
      /\ muddled \subseteq Accounts /\ exposed \subseteq Accounts
      /\ Exists(a) => accounts[a].balance \in Int
  BY DEF OperationsInv, OperationsTypeOK, AccountsTypeOK, Exists, AccountDoc
<1>1. ASSUME NEW n \in Amounts, Pay(a, n) PROVE OperationsInv'
  <2>1. n \in Int /\ n > 0
    BY AmountsAssumption
  <2>2. /\ Write(a) /\ updateBalance(a, n)
        /\ ledger' = [ledger EXCEPT ![a] = IF Exists(a) THEN @ + n ELSE @]
        /\ UNCHANGED <<reason, held, exposed, muddled>>
    BY <1>1 DEF Pay
  <2>3. /\ AccountsTypeOK'
        /\ \A b \in Accounts \ {a} : accounts'[b] = accounts[b]
        /\ Exists(a) => /\ accounts'[a] # NoAccount
                        /\ accounts'[a].balance = accounts[a].balance + n
                        /\ accounts'[a].status = accounts[a].status
        /\ ~Exists(a) => accounts' = accounts
    BY <1>0, <2>1, <2>2, OpUpdateBalanceType
  <2>4. AccountInv(a)' /\ ReasonInv(a)'
    BY <1>0, <2>1, <2>2, <2>3 DEF AccountInv, ReasonInv, Exists, IsFrozen
  <2>5. ledger' \in [Accounts -> Int] /\ \A b \in Accounts \ {a} : ledger'[b] = ledger[b]
    BY <1>0, <2>1, <2>2
  <2>6. Exists(a) => Exists(a)'
    BY <2>3 DEF Exists
  <2> QED BY <1>0, <2>2, <2>3, <2>4, <2>5, <2>6, WriteFrame
<1>2. ASSUME NEW status \in AccountStatus, NEW why \in Reasons \cup {NoReason},
             status = "FROZEN" <=> why # NoReason,
             Exists(a), accounts' = [accounts EXCEPT ![a].status = status], Write(a),
             reason' = [reason EXCEPT ![a] = why], muddled' = muddled \ {a},
             UNCHANGED <<held, ledger, exposed>>
      PROVE  OperationsInv'
  <2>1. /\ AccountsTypeOK'
        /\ \A b \in Accounts \ {a} : accounts'[b] = accounts[b]
        /\ accounts'[a] # NoAccount /\ accounts'[a].balance = accounts[a].balance
        /\ accounts'[a].status = status
    BY <1>0, <1>2, StatusChangeType
  <2>2. AccountInv(a)' /\ ReasonInv(a)'
    BY <1>0, <1>2, <2>1 DEF AccountInv, ReasonInv, Exists, IsFrozen
  <2>3. Exists(a)'
    BY <2>1 DEF Exists
  <2> QED BY <1>0, <1>2, <2>1, <2>2, <2>3, WriteFrame
<1>3. ASSUME NEW r \in Reasons, FreezeAccount(a, r) PROVE OperationsInv'
  <2>1. r # NoReason /\ "FROZEN" \in AccountStatus
    BY NoReasonAssumption DEF AccountStatus
  <2> QED BY <1>2, <1>3, <2>1 DEF FreezeAccount, freeze
<1>4. CASE UnfreezeAccount(a)
  <2>1. "ACTIVE" \in AccountStatus
    BY DEF AccountStatus
  <2> QED BY <1>2, <1>4, <2>1 DEF UnfreezeAccount, unfreeze
<1> QED BY <1>1, <1>3, <1>4 DEF AccountWork

\* A holder takes hold of something and nothing else happens.
LEMMA HoldStep ==
    ASSUME OperationsInv, NEW h \in Holders, NEW what \in HeldState, Hold(h, what),
           what.of \in Accounts, Exists(what.of), what.doc \in AccountDoc,
           what.has \in {"active", "checked"} => what.doc.status = "ACTIVE",
           what.has = "checked" => what.doc.balance >= what.amount
    PROVE  OperationsInv'
<1>1. /\ held' = [held EXCEPT ![h] = what]
      /\ UNCHANGED <<accounts, reason, session, changes, ledger, exposed, muddled>>
  BY DEF Hold
<1>2. OperationsTypeOK'
  BY <1>1 DEF OperationsInv, OperationsTypeOK, AccountsTypeOK
<1>3. SessionsInv'
  <2>1. ASSUME NEW s \in Sessions, Alive(s)' PROVE Consistent(session[s])'
    <3>1. Consistent(session[s])
      BY <1>1, <2>1 DEF OperationsInv, SessionsInv, Alive
    <3> QED BY <1>1, <3>1 DEF Consistent, Exists
  <2> QED BY <1>1, <2>1 DEF OperationsInv, SessionsInv, Separate, Alive, Fresh
<1>4. \A a \in Accounts : AccountInv(a)' /\ ReasonInv(a)'
  BY <1>1 DEF OperationsInv, AccountInv, ReasonInv, Exists, IsFrozen
<1>5. \A g \in Holders : HeldInv(g)'
  BY <1>1 DEF OperationsInv, OperationsTypeOK, HeldInv, Exists
<1> QED BY <1>2, <1>3, <1>4, <1>5 DEF OperationsInv

\* A debit on a check has an account and an amount.
LEMMA HeldDebit ==
    ASSUME OperationsInv, NEW h \in Holders, DebitChecked(h)
    PROVE  held[h].of \in Accounts /\ held[h].amount \in Nat
<1>1. held[h] \in HeldState /\ HeldInv(h) /\ held[h].has # "nothing"
  BY DEF OperationsInv, OperationsTypeOK, DebitChecked
<1>2. held[h].amount \in Amounts \cup {0}
  BY <1>1 DEF HeldState
<1>3. ASSUME NEW n \in Amounts \cup {0} PROVE n \in Nat
  BY AmountsAssumption
<1>4. held[h].of \in Accounts
  BY <1>1 DEF HeldInv
<1> QED BY <1>2, <1>3, <1>4

LEMMA DebitCheckedStep ==
    ASSUME OperationsInv, NEW h \in Holders, DebitChecked(h)
    PROVE  OperationsInv'
<1>0. /\ AccountsTypeOK /\ ledger \in [Accounts -> Int] /\ HeldInv(h)
      /\ reason \in [Accounts -> Reasons \cup {NoReason}]
      /\ muddled \subseteq Accounts /\ exposed \subseteq Accounts
  BY DEF OperationsInv, OperationsTypeOK
<1>1. PICK a \in Accounts, n \in Nat : a = held[h].of /\ n = held[h].amount
  BY HeldDebit
<1>2. /\ Write(a) /\ updateBalance(a, -n)
      /\ ledger' = [ledger EXCEPT ![a] = IF Exists(a) THEN @ - n ELSE @]
      /\ held' = [held EXCEPT ![h] = Nothing]
      /\ exposed' = IF held[h].has = "checked" /\ accounts[a] = held[h].doc
                       THEN exposed ELSE exposed \cup {a}
      /\ UNCHANGED <<reason, muddled>>
  BY <1>1 DEF DebitChecked
<1>3. held[h].has = "checked" /\ accounts[a] = held[h].doc => accounts[a].balance >= n
  BY <1>0, <1>1 DEF HeldInv
<1>4. AccountInv(a) /\ ReasonInv(a) /\ (Exists(a) => accounts[a].balance \in Int)
  BY <1>1 DEF OperationsInv, OperationsTypeOK, AccountsTypeOK, Exists, AccountDoc
<1>5. /\ AccountsTypeOK'
      /\ \A b \in Accounts \ {a} : accounts'[b] = accounts[b]
      /\ Exists(a) => /\ accounts'[a] # NoAccount
                      /\ accounts'[a].balance = accounts[a].balance - n
                      /\ accounts'[a].status = accounts[a].status
      /\ ~Exists(a) => accounts' = accounts
  <2>1. -n \in Int
    BY <1>1
  <2>2. Exists(a) => accounts[a].balance + (-n) = accounts[a].balance - n
    BY <1>1, <1>4
  <2> QED BY <1>0, <1>1, <1>2, <2>1, <2>2, OpUpdateBalanceType
<1>6. AccountInv(a)'
  BY <1>0, <1>1, <1>2, <1>3, <1>4, <1>5 DEF AccountInv, Exists
<1>7. ReasonInv(a)'
  BY <1>2, <1>4, <1>5 DEF ReasonInv, Exists, IsFrozen
<1>8. /\ ledger' \in [Accounts -> Int] /\ \A b \in Accounts \ {a} : ledger'[b] = ledger[b]
      /\ exposed' \subseteq Accounts /\ exposed \subseteq exposed'
  BY <1>0, <1>1, <1>2
<1>9. Exists(a) => Exists(a)'
  BY <1>5 DEF Exists
<1> QED BY <1>0, <1>1, <1>2, <1>5, <1>6, <1>7, <1>8, <1>9, WriteFrame

LEMMA SaveStep ==
    ASSUME OperationsInv, NEW h \in Holders, NEW status \in AccountStatus,
           NEW why \in Reasons \cup {NoReason}, status = "FROZEN" <=> why # NoReason,
           Save(h, status, why)
    PROVE  OperationsInv'
<1> DEFINE loaded == held[h]
<1>0. /\ AccountsTypeOK /\ ledger \in [Accounts -> Int] /\ HeldInv(h)
      /\ reason \in [Accounts -> Reasons \cup {NoReason}]
      /\ muddled \subseteq Accounts /\ exposed \subseteq Accounts
  BY DEF OperationsInv, OperationsTypeOK
<1>1. PICK a \in Accounts : a = held[h].of
  BY <1>0 DEF Save, HeldInv
<1>2. /\ Write(a)
      /\ accounts' = IF status = loaded.doc.status THEN accounts
                     ELSE [accounts EXCEPT ![a].status = status]
      /\ reason' = IF why = loaded.reason THEN reason ELSE [reason EXCEPT ![a] = why]
      /\ muddled' = IF loaded.doc.status = accounts[a].status /\ loaded.reason = reason[a]
                       THEN muddled ELSE muddled \cup {a}
      /\ held' = [held EXCEPT ![h] = Nothing]
      /\ UNCHANGED <<ledger, exposed>>
  BY <1>1 DEF Save
<1>3. AccountInv(a) /\ ReasonInv(a)
  BY <1>1 DEF OperationsInv
<1>4. /\ muddled' \subseteq Accounts /\ reason' \in [Accounts -> Reasons \cup {NoReason}]
      /\ \A b \in Accounts \ {a} : reason'[b] = reason[b] /\ (b \in muddled <=> b \in muddled')
  BY <1>0, <1>1, <1>2
<1>5. Exists(a)
  BY <1>0, <1>1 DEF Save, HeldInv
<1>6. /\ AccountsTypeOK'
      /\ \A b \in Accounts \ {a} : accounts'[b] = accounts[b]
      /\ accounts'[a] # NoAccount /\ accounts'[a].balance = accounts[a].balance
      /\ accounts'[a].status = IF status = loaded.doc.status THEN accounts[a].status ELSE status
  <2>1. CASE status = loaded.doc.status
    BY <1>0, <1>2, <1>5, <2>1 DEF AccountsTypeOK, Exists
  <2>2. CASE status # loaded.doc.status
    <3>1. accounts' = [accounts EXCEPT ![a].status = status]
      BY <1>2, <2>2
    <3>2. /\ AccountsTypeOK'
          /\ \A b \in Accounts \ {a} : accounts'[b] = accounts[b]
          /\ accounts'[a] # NoAccount /\ accounts'[a].balance = accounts[a].balance
          /\ accounts'[a].status = status
      BY <1>0, <1>5, <3>1, StatusChangeType
    <3> QED BY <2>2, <3>2
  <2> QED BY <2>1, <2>2
<1>7. AccountInv(a)' /\ Exists(a)'
  BY <1>2, <1>3, <1>5, <1>6 DEF AccountInv, Exists
<1>8. ReasonInv(a)'
  <2>1. a \notin muddled' => /\ loaded.doc.status = accounts[a].status
                            /\ loaded.reason = reason[a]
    BY <1>1, <1>2
  <2>2. a \notin muddled' => accounts'[a].status = status /\ reason'[a] = why
    BY <1>0, <1>1, <1>2, <1>6, <2>1
  <2> QED BY <1>6, <2>2 DEF ReasonInv, IsFrozen, Exists
<1> QED BY <1>0, <1>1, <1>2, <1>4, <1>6, <1>7, <1>8, WriteFrame

LEMMA HolderSteps ==
    ASSUME OperationsInv, NEW h \in Holders, HolderWork(h)
    PROVE  OperationsInv'
<1>0. held[h] \in HeldState /\ HeldInv(h) /\ 0 \in Amounts \cup {0}
  BY DEF OperationsInv, OperationsTypeOK
<1>1. ASSUME NEW a \in Accounts, CheckActive(h, a) PROVE OperationsInv'
  <2> DEFINE what == [Nothing EXCEPT !.has = "active", !.of = a, !.doc = accounts[a]]
  <2>1. Exists(a) /\ accounts[a] \in AccountDoc /\ accounts[a].status = "ACTIVE"
    BY <1>1 DEF CheckActive, isAccountActive, findByAccountNo, Exists, OperationsInv,
                OperationsTypeOK, AccountsTypeOK
  <2>2. /\ what \in HeldState /\ what.has = "active" /\ what.of = a /\ what.doc = accounts[a]
    BY <1>0, <2>1 DEF Nothing, HeldState, Docs
  <2>3. Hold(h, what)
    BY <1>1 DEF CheckActive
  <2> HIDE DEF what
  <2> QED BY <2>1, <2>2, <2>3, HoldStep
<1>2. ASSUME NEW n \in Amounts, CheckBalance(h, n) PROVE OperationsInv'
  <2> DEFINE a == held[h].of
             verdict == IF accounts[a] = held[h].doc THEN "checked" ELSE "overtaken"
             what == [held[h] EXCEPT !.has = verdict, !.amount = n]
  <2>1. /\ held[h].has = "active" /\ Exists(a) /\ accounts[a].balance >= n
        /\ Hold(h, what)
    BY <1>2 DEF CheckBalance, checkSufficientBalance, findByAccountNo
  <2>2. verdict \in {"checked", "overtaken"} /\ (verdict = "checked" => accounts[a] = held[h].doc)
    OBVIOUS
  <2> HIDE DEF verdict
  <2>3. /\ what \in HeldState /\ what.has = verdict /\ what.of = a /\ what.amount = n
        /\ what.doc = held[h].doc
    BY <1>0, <2>2 DEF HeldState
  <2>4. a \in Accounts /\ held[h].doc \in AccountDoc /\ held[h].doc.status = "ACTIVE"
    BY <1>0, <2>1 DEF HeldInv
  <2> HIDE DEF what, a
  <2> QED BY <2>1, <2>2, <2>3, <2>4, HoldStep
<1>3. ASSUME NEW user \in Users, Load(h, user) PROVE OperationsInv'
  <2>1. PICK a \in findByUserId(user) :
            Hold(h, [Nothing EXCEPT !.has = "document", !.of = a, !.doc = accounts[a],
                                    !.reason = reason[a]])
    BY <1>3 DEF Load
  <2> DEFINE what == [Nothing EXCEPT !.has = "document", !.of = a, !.doc = accounts[a],
                                     !.reason = reason[a]]
  <2>2. /\ a \in Accounts /\ Exists(a) /\ accounts[a] \in AccountDoc
        /\ reason[a] \in Reasons \cup {NoReason}
    BY DEF findByUserId, Exists, OperationsInv, OperationsTypeOK, AccountsTypeOK
  <2>3. /\ what \in HeldState /\ what.has = "document" /\ what.of = a /\ what.doc = accounts[a]
    BY <1>0, <2>2 DEF Nothing, HeldState, Docs
  <2>4. Hold(h, what)
    BY <2>1
  <2> HIDE DEF what
  <2> QED BY <2>2, <2>3, <2>4, HoldStep
<1>4. ASSUME NEW r \in Reasons, FreezeDocument(h, r) PROVE OperationsInv'
  <2>1. r # NoReason /\ "FROZEN" \in AccountStatus
    BY NoReasonAssumption DEF AccountStatus
  <2> QED BY <1>4, <2>1, SaveStep DEF FreezeDocument
<1>5. CASE UnfreezeDocument(h)
  <2>1. "ACTIVE" \in AccountStatus
    BY DEF AccountStatus
  <2> QED BY <1>5, <2>1, SaveStep DEF UnfreezeDocument
<1>6. CASE DebitChecked(h)
  BY <1>6, DebitCheckedStep
<1>7. CASE UnfreezeUnfrozen(h) \/ RefuseToSave(h)
  <2>1. /\ session \in [Sessions -> SessionState] /\ held \in [Holders -> HeldState]
        /\ held' = [held EXCEPT ![h] = Nothing]
        /\ UNCHANGED <<accounts, reason, session, changes, ledger, exposed, muddled>>
    BY <1>7 DEF UnfreezeUnfrozen, RefuseToSave, Hold, OperationsInv, OperationsTypeOK
  <2>2. held' \in [Holders -> HeldState] /\ \A g \in Holders : held'[g] \in {held[g], Nothing}
    BY <2>1, FreshType
  <2> QED BY <2>1, <2>2, SessionsEnd
<1> QED BY <1>1, <1>2, <1>3, <1>4, <1>5, <1>6, <1>7 DEF HolderWork

-----------------------------------------------------------------------------
(* The invariant, and what follows from it.                                *)

LEMMA SessionSteps ==
    ASSUME OperationsInv, NEW s \in Sessions, SessionWork(s)
    PROVE  OperationsInv'
<1>1. ASSUME NEW a \in Accounts, Get(s, a) PROVE OperationsInv'
  BY <1>1, GetStep
<1>2. ASSUME NEW a \in Accounts, NEW n \in Amounts, Update(s, a, n) \/ Update(s, a, -n)
      PROVE  OperationsInv'
  <2>1. n \in Int /\ -n \in Int
    BY AmountsAssumption
  <2> QED BY <1>2, <2>1, UpdateStep
<1> QED BY <1>1, <1>2, CommitStep, EndingSteps DEF SessionWork

LEMMA OperationsStep == OperationsInv /\ [OperationsNext]_operationVars => OperationsInv'
<1> SUFFICES ASSUME OperationsInv, [OperationsNext]_operationVars PROVE OperationsInv'
  OBVIOUS
<1>1. CASE UNCHANGED operationVars
  <2>1. session \in [Sessions -> SessionState] /\ held \in [Holders -> HeldState]
    BY DEF OperationsInv, OperationsTypeOK
  <2> QED BY <1>1, <2>1, SessionsEnd DEF operationVars
<1>2. CASE Operate
  BY <1>2, SessionSteps, AccountSteps, HolderSteps DEF Operate
<1>3. CASE (\E s \in Sessions : Expire(s)) \/ EndSessions \/ Abandon
  BY <1>3, EndingSteps
<1> QED BY <1>1, <1>2, <1>3 DEF OperationsNext

LEMMA OperationsInvariant == OperationsSpec => []OperationsInv
BY OperationsInvInit, OperationsStep, PTL DEF OperationsSpec

\* The life of the process does to the accounts only what the operations, the
\* end of a connection and the end of a process do.
THEOREM LifecycleOperates == LifecycleSpec => OperationsSpec
<1>1. LifecycleInit => OperationsInit
  BY DEF LifecycleInit
<1>2. [LifecycleNext]_lifecycleVars => [OperationsNext]_operationVars
  BY DEF LifecycleNext, lifecycleVars, operationVars, Connect, Work, Signal, CloseConnection,
         ExitWhenFlushed, ExitWhenDisconnected, Exit, Restart, ServerExpires, Ended, processVars,
         OperationsNext
<1> QED BY <1>1, <1>2, PTL DEF LifecycleSpec, OperationsSpec

\* Accounts, sessions, holders and the process keep their types.
THEOREM LifecycleTypeCorrect == LifecycleSpec => []LifecycleTypeOK
<1> DEFINE ProcessTypeOK == /\ process \in {"starting", "connected", "closed", "exited"}
                            /\ handlers \subseteq {"flushLogs", "disconnect"}
                            /\ restarts \in Nat
<1>1. LifecycleInit => ProcessTypeOK
  BY DEF LifecycleInit
<1>2. ASSUME ProcessTypeOK, [LifecycleNext]_lifecycleVars PROVE ProcessTypeOK'
  <2>1. CASE \E signal \in {"SIGINT", "SIGTERM"} : Signal(signal)
    BY <1>2, <2>1 DEF Signal, HandlersOf
  <2>2. CASE Restart
    BY <1>2, <2>2 DEF Restart
  <2>3. CASE Connect \/ CloseConnection \/ ExitWhenFlushed \/ ExitWhenDisconnected
    BY <1>2, <2>3 DEF Connect, CloseConnection, ExitWhenFlushed, ExitWhenDisconnected, Exit
  <2>4. CASE Work \/ ServerExpires \/ Ended \/ UNCHANGED lifecycleVars
    BY <1>2, <2>4 DEF Work, ServerExpires, Ended, processVars, lifecycleVars
  <2> QED BY <1>2, <2>1, <2>2, <2>3, <2>4 DEF LifecycleNext
<1>3. OperationsInv /\ ProcessTypeOK => LifecycleTypeOK
  BY DEF OperationsInv, LifecycleTypeOK
<1>4. LifecycleSpec => []ProcessTypeOK
  BY <1>1, <1>2, PTL DEF LifecycleSpec
<1> HIDE DEF ProcessTypeOK
<1> QED BY <1>3, <1>4, LifecycleOperates, OperationsInvariant, PTL

\* A debit in a session is covered by the document read in it, although that
\* read locks nothing.
THEOREM SessionsNeverOverdraw == LifecycleSpec => []LockedDebitsAreCovered
<1>1. OperationsInv => LockedDebitsAreCovered
  BY DEF OperationsInv, AccountInv, LockedDebitsAreCovered
<1> QED BY <1>1, LifecycleOperates, OperationsInvariant, PTL

\* No change of a balance is lost or made twice, whichever handler of a signal
\* is the first to end the process.
THEOREM NoChangeIsLost == LifecycleSpec => []BalancesAreLedgers
<1>1. OperationsInv => BalancesAreLedgers
  BY DEF OperationsInv, AccountInv, BalancesAreLedgers
<1> QED BY <1>1, LifecycleOperates, OperationsInvariant, PTL

\* Status and reason of a freeze stay together, but for saves of stale copies.
THEOREM ReasonsFollowStatus == LifecycleSpec => []StatusHasReason
<1>1. OperationsInv => StatusHasReason
  BY DEF OperationsInv, ReasonInv, StatusHasReason
<1> QED BY <1>1, LifecycleOperates, OperationsInvariant, PTL

\* No step debits an account while it is frozen, but for overtaken checks.
LEMMA FrozenStep ==
    ASSUME OperationsInv, [OperationsNext]_operationVars, NEW a \in Accounts, IsFrozen(a),
           accounts'[a].balance < accounts[a].balance
    PROVE  a \in exposed'
<1>0. /\ Exists(a) /\ accounts[a].status = "FROZEN" /\ accounts[a].balance \in Int
      /\ AccountsTypeOK
  BY DEF IsFrozen, Exists, OperationsInv, OperationsTypeOK, AccountsTypeOK, AccountDoc
<1>1. accounts'[a].balance # accounts[a].balance
  <2> SUFFICES ASSUME accounts'[a].balance = accounts[a].balance PROVE FALSE
    OBVIOUS
  <2> QED BY <1>0
<1>2. accounts' # accounts
  BY <1>1
<1>3. ASSUME NEW s \in Sessions, CommitSession(s) PROVE FALSE
  <2>1. Consistent(session[s]) /\ session[s].added \in [Accounts -> Int]
    BY <1>3 DEF OperationsInv, OperationsTypeOK, SessionsInv, Alive, CommitSession, SessionState
  <2>2. accounts'[a] = IF a \in session[s].dirty THEN session[s].view[a] ELSE accounts[a]
    BY <1>3 DEF CommitSession
  <2>3. a \in session[s].dirty /\ accounts'[a].balance = session[s].view[a].balance
    BY <1>1, <2>2
  <2>4. session[s].view[a].balance = accounts[a].balance + session[s].added[a]
        /\ (session[s].added[a] < 0 => accounts[a].status # "FROZEN")
    BY <2>1, <2>3 DEF Consistent
  <2> QED BY <1>0, <2>1, <2>3, <2>4
<1>4. ASSUME NEW b \in Accounts, AccountWork(b) PROVE FALSE
  <2>1. ASSUME NEW n \in Amounts, Pay(b, n) PROVE FALSE
    <3>1. n \in Nat
      BY AmountsAssumption
    <3>2. \/ accounts'[a] = accounts[a]
          \/ accounts'[a].balance = accounts[a].balance + n
      BY <1>0, <2>1, <3>1, OpUpdateBalanceType DEF Pay
    <3> QED BY <1>0, <1>1, <3>1, <3>2
  <2>2. ASSUME (\E r \in Reasons : FreezeAccount(b, r)) \/ UnfreezeAccount(b) PROVE FALSE
    <3>1. PICK status \in {"FROZEN", "ACTIVE"} :
              Exists(b) /\ accounts' = [accounts EXCEPT ![b].status = status]
      BY <2>2 DEF FreezeAccount, UnfreezeAccount, freeze, unfreeze
    <3>2. accounts'[a].balance = accounts[a].balance
      BY <1>0, <3>1, StatusChangeType DEF AccountStatus
    <3> QED BY <1>1, <3>2
  <2> QED BY <1>4, <2>1, <2>2 DEF AccountWork
<1>5. ASSUME NEW h \in Holders, DebitChecked(h) PROVE a \in exposed'
  <2>0. HeldInv(h)
    BY DEF OperationsInv
  <2>1. PICK b \in Accounts, n \in Nat : b = held[h].of /\ n = held[h].amount
    BY <1>5, HeldDebit
  <2>2. updateBalance(b, -n)
        /\ exposed' = IF held[h].has = "checked" /\ accounts[b] = held[h].doc
                         THEN exposed ELSE exposed \cup {b}
    BY <1>5, <2>1 DEF DebitChecked
  <2>3. held[h].has = "checked" => held[h].doc.status = "ACTIVE"
    BY <2>0 DEF HeldInv
  <2>4. a = b
    <3>1. -n \in Int
      BY <2>1
    <3>2. a # b => accounts'[a] = accounts[a]
      BY <1>0, <2>1, <2>2, <3>1, OpUpdateBalanceType
    <3> QED BY <1>1, <3>2
  <2> QED BY <1>0, <2>2, <2>3, <2>4
<1>6. ASSUME NEW h \in Holders, NEW status \in AccountStatus, NEW why, Save(h, status, why)
      PROVE  FALSE
  <2>1. held[h].of \in Accounts /\ Exists(held[h].of)
    BY <1>6 DEF Save, HeldInv, OperationsInv
  <2>2. accounts' = [accounts EXCEPT ![held[h].of].status = status]
    BY <1>2, <1>6 DEF Save
  <2>3. accounts'[a].balance = accounts[a].balance
    BY <1>0, <2>1, <2>2, StatusChangeType
  <2> QED BY <1>1, <2>3
<1>7. ASSUME NEW h \in Holders, HolderWork(h) PROVE a \in exposed'
  <2>1. "FROZEN" \in AccountStatus /\ "ACTIVE" \in AccountStatus
    BY DEF AccountStatus
  <2> QED BY <1>2, <1>5, <1>6, <1>7, <2>1
          DEF HolderWork, CheckActive, CheckBalance, Load, Hold, FreezeDocument, UnfreezeDocument,
              UnfreezeUnfrozen, RefuseToSave
<1>8. ASSUME NEW s \in Sessions, SessionWork(s) PROVE FALSE
  BY <1>2, <1>3, <1>8 DEF SessionWork, Get, Update, updateBalanceWithSession, AbortSession
<1>9. CASE (\E s \in Sessions : Expire(s)) \/ EndSessions \/ Abandon \/ UNCHANGED operationVars
  BY <1>2, <1>9 DEF Expire, EndSessions, Abandon, operationVars
<1> QED BY <1>4, <1>7, <1>8, <1>9 DEF OperationsNext, Operate

\* A frozen account is not debited, but for overtaken checks.
THEOREM FreezesHold == LifecycleSpec => FrozenIsNotDebited
<1>1. OperationsInv /\ [OperationsNext]_operationVars =>
          [\A a \in Accounts :
              IsFrozen(a) /\ accounts'[a].balance < accounts[a].balance => a \in exposed'
          ]_operationVars
  BY FrozenStep
<1> QED BY <1>1, LifecycleOperates, OperationsInvariant, PTL DEF OperationsSpec, FrozenIsNotDebited
=============================================================================
