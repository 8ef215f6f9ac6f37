----------------------------- MODULE MoneyProofs -----------------------------
(* Theorems about what balances add up to, how often a key is charged, and *)
(* the balance a transfer answers with, for every value of the constants.  *)
EXTENDS TransferProofs, SumProofs

-----------------------------------------------------------------------------
(* What the steps leave alone.                                             *)

\* A step of a call that changes no balance.
Handles(c) ==
    \/ Submit(c) \/ Authorize(c) \/ Lookup(c) \/ Open(c) \/ ReadFrom(c) \/ ReadTo(c)
    \/ Insert(c) \/ Finalize(c) \/ Commit(c) \/ Store(c) \/ Abort(c) \/ Reject(c)

\* A step between the steps of the calls, other than those of administrators.
Between == Crash \/ (\E k \in Keys : Evict(k)) \/ UNCHANGED vars

LEMMA NextSteps ==
    ASSUME [Next]_vars
    PROVE  \/ \E c \in Calls : Handles(c) \/ Debit(c) \/ Credit(c)
           \/ Between
           \/ Administration
BY DEF Next, Working, Serve, Quiet, Handles, Between

LEMMA HandlesFrame ==
    ASSUME TypeOK, NEW c \in Calls, Handles(c)
    PROVE  /\ UNCHANGED <<accounts, req, moves, gone, endowed>>
           /\ \A d \in Calls \ {c} : call'[d] = call[d]
<1>1. UNCHANGED <<accounts, req, moves, gone, endowed>>
  BY DEF Handles, Submit, Authorize, Lookup, Open, ReadFrom, ReadTo, Insert, Finalize, Commit,
         Store, Abort, Reject, history
<1>2. \A d \in Calls \ {c} : call'[d] = call[d]
  <2>1. CASE ReadFrom(c)
    BY <2>1 DEF ReadFrom, TypeOK
  <2>2. CASE ~ReadFrom(c)
    BY <2>2, SubmitEffect, GotoEffect, FinishEffect, ThrowEffect, AnsweredEffect
       DEF Handles, Authorize, Lookup, Open, ReadTo, Insert, Finalize, Commit, Store,
           Abort, Reject, respond
  <2> QED BY <2>1, <2>2
<1> QED BY <1>1, <1>2

\* Freezing changes no balance; what a document brings or takes is endowed.
LEMMA AdministrationBalances ==
    ASSUME TypeOK, NEW a \in Accounts,
           \/ Freeze(a) \/ Unfreeze(a) \/ Delete(a)
           \/ \E doc \in NewAccounts : Create(a, doc),
           NEW b \in Accounts
    PROVE  /\ BalanceOf(b)' - endowed'[b] = BalanceOf(b) - endowed[b]
           /\ Exists(b) /\ b \notin gone' => Exists(b)' /\ BalanceOf(b)' = BalanceOf(b)
<1>0. BalanceOf(b) \in Int /\ endowed[b] \in Int
  BY BalanceType DEF TypeOK
<1>1. CASE Freeze(a) \/ Unfreeze(a)
  <2> PICK status \in AccountStatus : accounts' = [accounts EXCEPT ![a].status = status]
    BY <1>1 DEF Freeze, Unfreeze, freeze, unfreeze, AccountStatus
  <2>1. Exists(a) /\ endowed' = endowed
    BY <1>1 DEF Freeze, Unfreeze, freeze, unfreeze, history
  <2> DEFINE new == [accounts[a] EXCEPT !.status = status]
  <2>2. new \in AccountDoc /\ new.balance = accounts[a].balance
    BY <2>1, AccountType DEF AccountDoc
  <2>3. accounts' = [accounts EXCEPT ![a] = new]
    OBVIOUS
  <2> HIDE DEF new
  <2>4. BalanceOf(b)' = BalanceOf(b) /\ (Exists(b)' <=> Exists(b))
    BY <2>1, <2>2, <2>3, NoAccountAssumption DEF BalanceOf, Exists, TypeOK, AccountsTypeOK
  <2> QED BY <1>0, <2>1, <2>4
<1>2. CASE Delete(a)
  <2>1. /\ accounts' = [accounts EXCEPT ![a] = NoAccount]
        /\ endowed' = [endowed EXCEPT ![a] = endowed[a] - BalanceOf(a)]
        /\ gone' = gone \cup {a}
    BY <1>2 DEF Delete, delete
  <2>2. CASE b = a
    <3>1. BalanceOf(b)' = 0 /\ endowed'[b] = endowed[b] - BalanceOf(b) /\ b \in gone'
      BY <2>1, <2>2 DEF BalanceOf, Exists, TypeOK, AccountsTypeOK
    <3> QED BY <1>0, <3>1
  <2>3. CASE b # a
    <3>1. BalanceOf(b)' = BalanceOf(b) /\ endowed'[b] = endowed[b] /\ (Exists(b)' <=> Exists(b))
      BY <2>1, <2>3 DEF BalanceOf, Exists, TypeOK, AccountsTypeOK
    <3> QED BY <1>0, <3>1
  <2> QED BY <2>2, <2>3
<1>3. ASSUME NEW doc \in NewAccounts, Create(a, doc)
      PROVE  /\ BalanceOf(b)' - endowed'[b] = BalanceOf(b) - endowed[b]
             /\ Exists(b) /\ b \notin gone' => Exists(b)' /\ BalanceOf(b)' = BalanceOf(b)
  <2>1. doc # NoAccount /\ doc.balance \in Int
    BY NewAccountsAssumption, NoAccountAssumption DEF AccountDoc
  <2>2. /\ ~Exists(a) /\ accounts' = [accounts EXCEPT ![a] = doc]
        /\ endowed' = [endowed EXCEPT ![a] = endowed[a] + doc.balance]
    BY <1>3 DEF Create, create
  <2>3. CASE b = a
    <3>1. /\ BalanceOf(b) = 0 /\ BalanceOf(b)' = doc.balance /\ ~Exists(b)
          /\ endowed'[b] = endowed[b] + doc.balance
      BY <2>1, <2>2, <2>3 DEF BalanceOf, Exists, TypeOK, AccountsTypeOK
    <3> QED BY <1>0, <2>1, <3>1
  <2>4. CASE b # a
    <3>1. BalanceOf(b)' = BalanceOf(b) /\ endowed'[b] = endowed[b] /\ (Exists(b)' <=> Exists(b))
      BY <2>2, <2>4 DEF BalanceOf, Exists, TypeOK, AccountsTypeOK
    <3> QED BY <1>0, <3>1
  <2> QED BY <2>3, <2>4
<1> QED BY <1>1, <1>2, <1>3

\* How the step of a call leads from one place to another.
Advance(from, to) ==
    \/ from = "idle" /\ to = "authorize"
    \/ from = "authorize" /\ to \in {"lookup", "done"}
    \/ from = "lookup" /\ to \in {"open", "done"}
    \/ from = "open" /\ to = "readFrom"
    \/ from = "readFrom" /\ to = "readTo"
    \/ from = "readTo" /\ to \in {"insert", "abort"}
    \/ from = "insert" /\ to = "debit"
    \/ from = "debit" /\ to = "credit"
    \/ from = "credit" /\ to = "finalize"
    \/ from = "finalize" /\ to = "commit"
    \/ from = "commit" /\ to = "store"
    \/ from \in {"store", "abort"} /\ to = "done"

LEMMA SpendEffect ==
    ASSUME TypeOK, NEW kind \in {"fault", "evict", "admin"}, Spend(kind)
    PROVE  /\ spent'[kind] = spent[kind] + 1
           /\ \A other \in {"fault", "evict", "admin"} \ {kind} : spent'[other] = spent[other]
BY DEF Spend, TypeOK

\* The next step of a call costs no fault; a failed one ends or aborts it.
LEMMA StepsOfCall ==
    ASSUME TypeOK, NEW c \in Calls, Handles(c) \/ Debit(c) \/ Credit(c)
    PROVE  /\ \/ spent' = spent /\ Advance(call[c].pc, call'[c].pc)
              \/ /\ spent'["fault"] = spent["fault"] + 1 /\ spent'["evict"] = spent["evict"]
                 /\ InFlight(c) /\ call'[c].pc \in {"abort", "done"}
           /\ call[c].pc = "lookup" /\ call'[c].pc = "open" =>
                 ~Hit(c) /\ req[c].from # req[c].to
<1> DEFINE Faulty == /\ spent'["fault"] = spent["fault"] + 1 /\ spent'["evict"] = spent["evict"]
                     /\ InFlight(c) /\ call'[c].pc \in {"abort", "done"}
           Goal == \/ spent' = spent /\ Advance(call[c].pc, call'[c].pc)
                   \/ Faulty
<1>1. ASSUME NEW next, Answered(c, next), InFlight(c), Advance(call[c].pc, next) PROVE Goal
  BY <1>1, GotoEffect, ThrowEffect, SpendEffect DEF Answered
<1>2. CASE Submit(c)
  BY <1>2, SubmitEffect DEF Submit, Advance
<1>3. CASE Authorize(c)
  BY <1>3, GotoEffect, FinishEffect DEF Authorize, Advance
<1>4. CASE Lookup(c)
  BY <1>4, GotoEffect, FinishEffect DEF Lookup, Advance
<1>5. CASE Open(c) \/ Insert(c) \/ Finalize(c) \/ Abort(c)
  BY <1>5, GotoEffect DEF Open, Insert, Finalize, Abort, Advance
<1>6. CASE ReadFrom(c)
  BY <1>6 DEF ReadFrom, Advance, TypeOK, CallState
<1>7. CASE ReadTo(c)
  BY <1>7, GotoEffect, ThrowEffect DEF ReadTo, Advance
<1>8. CASE Debit(c) \/ Credit(c) \/ Commit(c)
  BY <1>1, <1>8 DEF Debit, Credit, Commit, Move, Advance, InFlight, Running
<1>9. CASE Store(c)
  <2>1. CASE respond(c)
    BY <1>9, <2>1, FinishEffect DEF Store, respond, Advance
  <2>2. CASE Spend("fault") /\ \E outcome : Throw(c, outcome)
    BY <1>9, <2>2, ThrowEffect, SpendEffect DEF Store, InFlight, Running
  <2> QED BY <1>9, <2>1, <2>2 DEF Store
<1>10. CASE Reject(c)
  BY <1>10, FinishEffect, ThrowEffect, SpendEffect DEF Reject
<1>11. call[c].pc = "lookup" /\ call'[c].pc = "open" => ~Hit(c) /\ req[c].from # req[c].to
  <2> SUFFICES ASSUME call[c].pc = "lookup", call'[c].pc = "open"
               PROVE  ~Hit(c) /\ req[c].from # req[c].to
    OBVIOUS
  <2>1. Lookup(c) \/ Reject(c)
    BY DEF Handles, Submit, Authorize, Open, ReadFrom, ReadTo, Insert, Finalize, Commit, Store,
           Abort, Debit, Credit
  <2>2. ~Reject(c)
    BY FinishEffect, ThrowEffect DEF Reject
  <2>3. \A outcome, answer : ~Finish(c, outcome, answer)
    BY FinishEffect
  <2> QED BY <2>1, <2>2, <2>3 DEF Lookup
<1>12. Goal
  BY <1>2, <1>3, <1>4, <1>5, <1>6, <1>7, <1>8, <1>9, <1>10 DEF Handles
<1> QED BY <1>11, <1>12

\* Between the steps of calls: a crash costs a fault, and ends what is in flight.
LEMMA StepsBetween ==
    ASSUME TypeOK, Between
    PROVE  /\ UNCHANGED <<accounts, req, transactions, moves, gone, endowed>>
           /\ \/ /\ spent'["fault"] = spent["fault"] + 1 /\ spent'["evict"] = spent["evict"]
                 /\ cache' = cache
                 /\ \A c \in Calls : /\ InFlight(c) => call'[c].pc = "lost"
                                     /\ ~InFlight(c) => call'[c] = call[c]
              \/ /\ spent'["fault"] = spent["fault"] /\ spent'["evict"] = spent["evict"] + 1
                 /\ call' = call
                 /\ \E k \in Keys : cache' = [cache EXCEPT ![k] = NoCall]
              \/ spent' = spent /\ call' = call /\ cache' = cache
<1>1. CASE Crash
  BY <1>1, SpendEffect DEF Crash, history, TypeOK, CallState
<1>2. CASE \E k \in Keys : Evict(k)
  BY <1>2, SpendEffect DEF Evict, history
<1>3. CASE UNCHANGED vars
  BY <1>3 DEF vars
<1> QED BY <1>1, <1>2, <1>3 DEF Between

\* Administrators leave the calls alone.
LEMMA StepsOfAdministration ==
    ASSUME TypeOK, Administration
    PROVE  /\ UNCHANGED <<req, call, transactions, cache, moves>> /\ gone \subseteq gone'
           /\ spent'["fault"] = spent["fault"] /\ spent'["evict"] = spent["evict"]
BY SpendEffect DEF Administration, Freeze, Unfreeze, Delete, Create, history

-----------------------------------------------------------------------------
(* What has been done to records and balances is not undone by any step.   *)

\* Nothing about call c is taken back.
Kept(c) ==
    /\ req' = req
    /\ transactions[c] # "none" => transactions'[c] # "none"
    /\ moves[c] \subseteq moves'[c] /\ gone \subseteq gone'

LEMMA RecordsStay ==
    ASSUME SagaInv, SagaInv', [Next]_vars, NEW c \in Calls
    PROVE  Kept(c)
<1> USE DEF Kept
<1>0. TypeOK /\ StageInv(c)
  BY DEF SagaInv
<1>1. ASSUME NEW d \in Calls,
             \/ Submit(d) \/ Authorize(d) \/ Lookup(d) \/ Open(d) \/ ReadFrom(d) \/ ReadTo(d)
             \/ Insert(d) \/ Store(d) \/ Abort(d) \/ Reject(d)
      PROVE  Kept(c)
  BY <1>1 DEF Submit, Authorize, Lookup, Open, ReadFrom, ReadTo, Insert, Store, Abort, Reject,
              history
<1>2. ASSUME NEW d \in Calls, Debit(d) \/ Credit(d) PROVE Kept(c)
  BY <1>0, <1>2 DEF Debit, Credit, Move, TypeOK
<1>3. ASSUME NEW d \in Calls, Finalize(d) PROVE Kept(c)
  BY <1>0, <1>3 DEF Finalize, updateStatus, history, TypeOK
<1>4. ASSUME NEW d \in Calls, Commit(d) PROVE Kept(c)
  <2>1. d = c => sessions[c] = "PROCESSING"
    BY <1>0, <1>4 DEF Commit, StageInv
  <2> QED BY <1>0, <1>4, <2>1 DEF Commit, history, TypeOK
<1>5. CASE Crash \/ (\E k \in Keys : Evict(k)) \/ Quiet \/ UNCHANGED vars
  BY <1>5 DEF Crash, Evict, Quiet, history, vars
<1>6. CASE Administration
  BY <1>6 DEF Administration, Freeze, Unfreeze, Delete, Create, history
<1> QED BY <1>1, <1>2, <1>3, <1>4, <1>5, <1>6 DEF Next, Working, Serve

-----------------------------------------------------------------------------
(* Money.  MoneyAccounted is not inductive: a leg must not be taken twice,  *)
(* so where the handler is about to take a leg, it has not taken it yet.    *)

\* Where the payer may have been debited, and past the checks of the request.
Moving == {"credit", "finalize", "commit", "store"}
Accepted == {"open", "readFrom", "readTo", "insert", "debit"} \cup Moving

\* The last part says that without a fault only calls under way have moved
\* money that no record tells of.
LegsInv(c) ==
    /\ call[c].pc = "credit" => "credit" \notin moves[c]
    /\ call[c].pc \in Accepted \/ moves[c] # {} => req[c].from # req[c].to
    /\ moves[c] # {} /\ spent["fault"] = 0 =>
            call[c].pc \in Moving \/ transactions[c] # "none"

MoneyInv == MoneyAccounted /\ \A c \in Calls : LegsInv(c)

LEMMA PaidFinite ==
    ASSUME NEW a
    PROVE  /\ PaidFrom(a) \subseteq Calls /\ IsFiniteSet(PaidFrom(a))
           /\ PaidTo(a) \subseteq Calls /\ IsFiniteSet(PaidTo(a))
BY CallsAssumption, FS_Subset DEF PaidFrom, PaidTo

LEMMA AmountsType ==
    ASSUME TypeOK, NEW S \in SUBSET Calls
    PROVE  /\ SumOf(AmountOf, S) \in Int
           /\ \A c \in S : AmountOf[c] = req[c].amount /\ AmountOf[c] \in Int
<1>1. \A c \in S : AmountOf[c] = req[c].amount /\ AmountOf[c] \in Int
  BY RequestType DEF AmountOf
<1> QED BY <1>1, CallsAssumption, FS_Subset, SumOfType

\* A step that takes no leg.
LEMMA MoneyFrame ==
    ASSUME TypeOK, MoneyAccounted, TypeOK', req' = req, moves' = moves,
           \A a \in Accounts : BalanceOf(a)' - endowed'[a] = BalanceOf(a) - endowed[a],
           \A a \in Accounts : BalanceOf(a)' \in Int
    PROVE  MoneyAccounted'
<1> SUFFICES ASSUME NEW a \in Accounts
             PROVE  (BalanceOf(a) = endowed[a] - SumOf(AmountOf, PaidFrom(a))
                                               + SumOf(AmountOf, PaidTo(a)))'
  BY DEF MoneyAccounted
<1>1. AmountOf' = AmountOf /\ PaidFrom(a)' = PaidFrom(a) /\ PaidTo(a)' = PaidTo(a)
  BY DEF AmountOf, PaidFrom, PaidTo
<1>2. SumOf(AmountOf, PaidFrom(a)) \in Int /\ SumOf(AmountOf, PaidTo(a)) \in Int
  BY PaidFinite, AmountsType
<1>3. /\ BalanceOf(a) \in Int /\ endowed[a] \in Int /\ endowed'[a] \in Int
      /\ BalanceOf(a)' \in Int
  BY BalanceType DEF TypeOK
<1>4. BalanceOf(a) = endowed[a] - SumOf(AmountOf, PaidFrom(a)) + SumOf(AmountOf, PaidTo(a))
  BY DEF MoneyAccounted
<1>5. BalanceOf(a)' - endowed'[a] = BalanceOf(a) - endowed[a]
  OBVIOUS
<1> QED BY <1>1, <1>2, <1>3, <1>4, <1>5

\* The debit joins the sum of what its account paid, the credit the sum of what
\* its account was paid, each once.
LEMMA MoneyMoves ==
    ASSUME TypeOK, MoneyInv, TypeOK', NEW c \in Calls, StageInv(c), Debit(c) \/ Credit(c)
    PROVE  MoneyAccounted'
<1>0. /\ req[c].amount \in Int /\ -req[c].amount \in Int
      /\ req[c].from \in Accounts /\ req[c].to \in Accounts
      /\ \A a \in Accounts : BalanceOf(a) \in Int /\ endowed[a] \in Int
      /\ req' = req /\ endowed' = endowed /\ AmountOf' = AmountOf
      /\ LegsInv(c) /\ MoneyAccounted
  BY RequestType, BalanceType DEF Debit, Credit, Move, AmountOf, TypeOK, MoneyInv
<1>1. PICK leg \in {"debit", "credit"}, a \in Accounts, amount \in Int :
          /\ leg = "debit" => a = req[c].from /\ amount = -req[c].amount
          /\ leg = "credit" => a = req[c].to /\ amount = req[c].amount
          /\ leg \notin moves[c]
          /\ updateBalance(a, amount)
          /\ moves' = [moves EXCEPT ![c] = IF Exists(a) THEN moves[c] \cup {leg} ELSE moves[c]]
  <2>1. CASE Debit(c)
    <3>1. "debit" \notin moves[c]
      BY <2>1 DEF Debit, StageInv, Before
    <3> QED BY <1>0, <2>1, <3>1 DEF Debit, Move
  <2>2. CASE Credit(c)
    <3>1. "credit" \notin moves[c]
      BY <1>0, <2>2 DEF Credit, LegsInv
    <3> QED BY <1>0, <2>2, <3>1 DEF Credit, Move
  <2> QED BY <2>1, <2>2
<1>2. /\ BalanceOf(a)' = IF Exists(a) THEN BalanceOf(a) + amount ELSE 0
      /\ \A b \in Accounts \ {a} : BalanceOf(b)' = BalanceOf(b)
  BY <1>1, BalanceUpdate
<1>3. CASE ~Exists(a)
  <2>1. BalanceOf(a)' = BalanceOf(a)
    BY <1>2, <1>3 DEF BalanceOf
  <2>2. moves' = moves
    BY <1>1, <1>3 DEF TypeOK
  <2>3. ASSUME NEW b \in Accounts
        PROVE  BalanceOf(b)' \in Int /\ BalanceOf(b)' - endowed'[b] = BalanceOf(b) - endowed[b]
    BY <1>0, <1>2, <2>1
  <2> QED BY <1>0, <2>2, <2>3, MoneyFrame
<1>4. CASE Exists(a)
  <2>1. /\ \A d \in Calls \ {c} : moves'[d] = moves[d]
        /\ moves'[c] = moves[c] \cup {leg}
    BY <1>1, <1>4 DEF TypeOK
  <2>2. ASSUME NEW b \in Accounts
        PROVE  (BalanceOf(b) = endowed[b] - SumOf(AmountOf, PaidFrom(b))
                                          + SumOf(AmountOf, PaidTo(b)))'
    <3> DEFINE out == SumOf(AmountOf, PaidFrom(b))
               in == SumOf(AmountOf, PaidTo(b))
    <3>1. out \in Int /\ in \in Int
      BY PaidFinite, AmountsType
    <3>2. BalanceOf(b) = endowed[b] - out + in
      BY <1>0 DEF MoneyAccounted
    <3>3. \A d \in Calls : AmountOf[d] \in Int /\ AmountOf[c] = req[c].amount
      BY AmountsType
    <3>4. CASE b = a /\ leg = "debit"
      <4>1. PaidTo(b)' = PaidTo(b) /\ PaidFrom(b)' = PaidFrom(b) \cup {c} /\ c \notin PaidFrom(b)
        BY <1>0, <1>1, <2>1, <3>4 DEF PaidFrom, PaidTo
      <4>2. SumOf(AmountOf, PaidFrom(b) \cup {c}) = out + req[c].amount
        <5>1. \A d \in PaidFrom(b) \cup {c} : AmountOf[d] \in Int
          BY <3>3, PaidFinite
        <5> QED BY <3>3, <4>1, <5>1, PaidFinite, SumOfAdd
      <4>3. BalanceOf(b)' = BalanceOf(b) + -req[c].amount
        BY <1>1, <1>2, <1>4, <3>4
      <4>4. BalanceOf(b) \in Int /\ endowed[b] \in Int
        BY <1>0
      <4> HIDE DEF out, in
      <4>5. BalanceOf(b) + -req[c].amount = endowed[b] - (out + req[c].amount) + in
        BY <1>0, <3>1, <3>2, <4>4
      <4> QED BY <1>0, <4>1, <4>2, <4>3, <4>5 DEF in
    <3>5. CASE b = a /\ leg = "credit"
      <4>1. PaidFrom(b)' = PaidFrom(b) /\ PaidTo(b)' = PaidTo(b) \cup {c} /\ c \notin PaidTo(b)
        BY <1>0, <1>1, <2>1, <3>5 DEF PaidFrom, PaidTo
      <4>2. SumOf(AmountOf, PaidTo(b) \cup {c}) = in + req[c].amount
        <5>1. \A d \in PaidTo(b) \cup {c} : AmountOf[d] \in Int
          BY <3>3, PaidFinite
        <5> QED BY <3>3, <4>1, <5>1, PaidFinite, SumOfAdd
      <4>3. BalanceOf(b)' = BalanceOf(b) + req[c].amount
        BY <1>1, <1>2, <1>4, <3>5
      <4>4. BalanceOf(b) \in Int /\ endowed[b] \in Int
        BY <1>0
      <4> HIDE DEF out, in
      <4>5. BalanceOf(b) + req[c].amount = endowed[b] - out + (in + req[c].amount)
        BY <1>0, <3>1, <3>2, <4>4
      <4> QED BY <1>0, <4>1, <4>2, <4>3, <4>5 DEF out
    <3>6. CASE b # a
      <4>1. PaidFrom(b)' = PaidFrom(b) /\ PaidTo(b)' = PaidTo(b)
        BY <1>0, <1>1, <2>1, <3>6 DEF PaidFrom, PaidTo
      <4> QED BY <1>0, <1>2, <3>2, <3>6, <4>1
    <3> QED BY <3>4, <3>5, <3>6
  <2> QED BY <2>2 DEF MoneyAccounted
<1> QED BY <1>3, <1>4

\* What a fault has not cost stays uncharged, and what a record says is kept.
LEMMA LegsOfOthers ==
    ASSUME TypeOK, NEW c \in Calls, LegsInv(c), req' = req, moves'[c] = moves[c],
           call'[c] = call[c], spent'["fault"] = 0 => spent["fault"] = 0,
           transactions[c] # "none" => transactions'[c] # "none"
    PROVE  LegsInv(c)'
BY DEF LegsInv

LEMMA LegsStep ==
    ASSUME SagaInv, MoneyInv, SagaInv', [Next]_vars
    PROVE  \A c \in Calls : LegsInv(c)'
<1>0. TypeOK /\ TypeOK' /\ spent["fault"] \in Nat
  BY DEF SagaInv, TypeOK
<1>1. ASSUME NEW d \in Calls, Handles(d) \/ Debit(d) \/ Credit(d), NEW c \in Calls
      PROVE  LegsInv(c)'
  <2>0. StageInv(c) /\ LegsInv(c) /\ Kept(c)
    BY <1>1, RecordsStay DEF SagaInv, MoneyInv
  <2>1. /\ \/ spent' = spent /\ Advance(call[d].pc, call'[d].pc)
           \/ /\ spent'["fault"] = spent["fault"] + 1
              /\ InFlight(d) /\ call'[d].pc \in {"abort", "done"}
        /\ call[d].pc = "lookup" /\ call'[d].pc = "open" => req[d].from # req[d].to
    BY <1>0, <1>1, StepsOfCall
  <2>2. CASE d # c
    <3>1. call'[c] = call[c] /\ moves'[c] = moves[c]
      BY <1>0, <1>1, <2>2, HandlesFrame, AnsweredEffect DEF Debit, Credit, Move, TypeOK
    <3>2. spent'["fault"] = 0 => spent["fault"] = 0
      BY <1>0, <2>1
    <3> QED BY <1>0, <2>0, <3>1, <3>2, LegsOfOthers DEF Kept
  <2>3. CASE d = c
    <3>1. CASE Handles(c)
      <4>1. moves' = moves /\ req' = req
        BY <1>0, <3>1, HandlesFrame
      <4>2. /\ call'[c].pc # "credit"
            /\ call'[c].pc \in Accepted \/ moves'[c] # {} => req[c].from # req[c].to
        <5>1. call[c].pc \notin {"debit", "credit"} 
              \/ call'[c].pc \in {"abort", "done"}
          BY <1>0, <2>1, <2>3, <3>1, FinishEffect, ThrowEffect
             DEF Handles, Submit, Authorize, Lookup, Open, ReadFrom, ReadTo, Insert, Finalize,
                 Commit, Store, Abort, Reject
        <5> QED BY <2>0, <2>1, <2>3, <4>1, <5>1 DEF LegsInv, Advance, Accepted, Moving, StageInv, Before
      <4>3. moves'[c] # {} /\ spent'["fault"] = 0 =>
                call'[c].pc \in Moving \/ transactions'[c] # "none"
        BY <1>0, <2>0, <2>1, <2>3, <4>1 DEF LegsInv, Advance, Moving, StageInv, Before, Kept
      <4> QED BY <4>1, <4>2, <4>3 DEF LegsInv
    <3>2. CASE Debit(c)
      <4>1. /\ call[c].pc = "debit" /\ moves[c] = {} /\ moves'[c] \subseteq {"debit"}
            /\ req' = req /\ req[c].from # req[c].to
        BY <1>0, <2>0, <3>2 DEF Debit, Move, StageInv, Before, LegsInv, Accepted, TypeOK
      <4> QED BY <1>0, <2>1, <2>3, <4>1 DEF LegsInv, Advance, Moving
    <3>3. CASE Credit(c)
      <4>1. call[c].pc = "credit" /\ req' = req /\ req[c].from # req[c].to
        BY <2>0, <3>3 DEF Credit, Move, LegsInv, Accepted, Moving
      <4> QED BY <1>0, <2>1, <2>3, <4>1 DEF LegsInv, Advance, Moving
    <3> QED BY <1>1, <2>3, <3>1, <3>2, <3>3
  <2> QED BY <2>2, <2>3
<1>2. ASSUME Between, NEW c \in Calls PROVE LegsInv(c)'
  <2>1. LegsInv(c)
    BY DEF MoneyInv
  <2> QED BY <1>0, <1>2, <2>1, StepsBetween DEF LegsInv, Accepted, Moving
<1>3. ASSUME Administration, NEW c \in Calls PROVE LegsInv(c)'
  <2>1. LegsInv(c)
    BY DEF MoneyInv
  <2> QED BY <1>0, <1>3, <2>1, StepsOfAdministration, LegsOfOthers
<1> QED BY <1>1, <1>2, <1>3, NextSteps

LEMMA MoneyStep ==
    ASSUME SagaInv, MoneyInv, SagaInv', [Next]_vars
    PROVE  MoneyInv'
<1>0. TypeOK /\ TypeOK' /\ MoneyAccounted
  BY DEF SagaInv, MoneyInv
<1>1. \A a \in Accounts : BalanceOf(a) \in Int /\ BalanceOf(a)' \in Int
  BY <1>0, BalanceType, AccountType DEF BalanceOf, Exists, TypeOK, AccountsTypeOK, AccountDoc
<1>2. ASSUME NEW c \in Calls, Handles(c) PROVE MoneyAccounted'
  <2>1. UNCHANGED <<accounts, req, moves, endowed>>
    BY <1>0, <1>2, HandlesFrame
  <2>2. \A a \in Accounts : BalanceOf(a)' - endowed'[a] = BalanceOf(a) - endowed[a]
    BY <2>1 DEF BalanceOf, Exists
  <2> QED BY <1>0, <1>1, <2>1, <2>2, MoneyFrame
<1>3. ASSUME NEW c \in Calls, Debit(c) \/ Credit(c) PROVE MoneyAccounted'
  BY <1>0, <1>3, MoneyMoves DEF SagaInv
<1>4. ASSUME Between PROVE MoneyAccounted'
  <2>1. UNCHANGED <<accounts, req, moves, endowed>>
    BY <1>0, <1>4, StepsBetween
  <2>2. \A a \in Accounts : BalanceOf(a)' - endowed'[a] = BalanceOf(a) - endowed[a]
    BY <2>1 DEF BalanceOf, Exists
  <2> QED BY <1>0, <1>1, <2>1, <2>2, MoneyFrame
<1>5. ASSUME Administration PROVE MoneyAccounted'
  <2>1. \A a \in Accounts : BalanceOf(a)' - endowed'[a] = BalanceOf(a) - endowed[a]
    BY <1>0, <1>5, AdministrationBalances DEF Administration
  <2>2. req' = req /\ moves' = moves
    BY <1>0, <1>5, StepsOfAdministration
  <2> QED BY <1>0, <1>1, <2>1, <2>2, MoneyFrame
<1>6. MoneyAccounted'
  BY <1>2, <1>3, <1>4, <1>5, NextSteps
<1> QED BY <1>6, LegsStep DEF MoneyInv

LEMMA MoneyInit == Init => MoneyInv
<1> SUFFICES ASSUME Init PROVE MoneyInv
  OBVIOUS
<1>1. \A c \in Calls : moves[c] = {} /\ call[c].pc = "idle"
  BY DEF Init
<1>2. ASSUME NEW a \in Accounts
      PROVE  BalanceOf(a) = endowed[a] - SumOf(AmountOf, PaidFrom(a)) + SumOf(AmountOf, PaidTo(a))
  <2>1. PaidFrom(a) = {} /\ PaidTo(a) = {}
    BY <1>1 DEF PaidFrom, PaidTo
  <2>2. SumOf(AmountOf, PaidFrom(a)) = 0 /\ SumOf(AmountOf, PaidTo(a)) = 0
    BY <2>1, SumOfEmpty
  <2>3. endowed[a] = BalanceOf(a) /\ BalanceOf(a) \in Int
    BY TypeInit, BalanceType DEF Init
  <2> QED BY <2>2, <2>3
<1> QED BY <1>1, <1>2 DEF MoneyInv, MoneyAccounted, LegsInv, Accepted, Moving

LEMMA MoneyInvariant == Spec => [](SagaInv /\ MoneyInv)
<1>1. SagaInv /\ SagaInv' /\ MoneyInv /\ [Next]_vars => MoneyInv'
  BY MoneyStep
<1> QED BY <1>1, MoneyInit, SagaInvariant, PTL DEF Spec

\* Every unit is accounted for: an account holds what its documents brought,
\* less what the debits took, plus what the credits gave, whatever the number
\* of calls, their interleaving, faults, crashes and administration.
THEOREM NoMoneyIsLost == Spec => []MoneyAccounted
<1>1. MoneyInv => MoneyAccounted
  BY DEF MoneyInv
<1> QED BY <1>1, MoneyInvariant, PTL

\* All accounts together: what the calls with a debit took is gone, what those
\* with a credit gave has come.
LEMMA MoneyOfAll ==
    ASSUME TypeOK, MoneyAccounted
    PROVE  SumOf([a \in Accounts |-> BalanceOf(a)], Accounts) =
               SumOf(endowed, Accounts)
               - SumOf(AmountOf, {c \in Calls : "debit" \in moves[c]})
               + SumOf(AmountOf, {c \in Calls : "credit" \in moves[c]})
<1> DEFINE payer == [c \in Calls |-> req[c].from]
           payee == [c \in Calls |-> req[c].to]
           D == {c \in Calls : "debit" \in moves[c]}
           C == {c \in Calls : "credit" \in moves[c]}
           out == SumsBy(AmountOf, payer, Accounts, D)
           in == SumsBy(AmountOf, payee, Accounts, C)
           balance == [a \in Accounts |-> BalanceOf(a)]
<1>1. /\ IsFiniteSet(D) /\ \A c \in D : AmountOf[c] \in Int /\ payer[c] \in Accounts
      /\ IsFiniteSet(C) /\ \A c \in C : AmountOf[c] \in Int /\ payee[c] \in Accounts
  BY CallsAssumption, FS_Subset, AmountsType, RequestType
<1>2. SumOf(out, Accounts) = SumOf(AmountOf, D) /\ SumOf(in, Accounts) = SumOf(AmountOf, C)
  <2> HIDE DEF D, C, payer, payee
  <2> QED BY <1>1, AccountsAssumption, SumOfSums
<1>3. ASSUME NEW a \in Accounts
      PROVE  /\ out[a] \in Int /\ in[a] \in Int /\ endowed[a] \in Int
             /\ balance[a] = endowed[a] - out[a] + in[a]
  <2>1. {c \in D : payer[c] = a} = PaidFrom(a) /\ {c \in C : payee[c] = a} = PaidTo(a)
    BY DEF PaidFrom, PaidTo
  <2> HIDE DEF D, C, payer, payee
  <2>2. out[a] = SumOf(AmountOf, PaidFrom(a)) /\ in[a] = SumOf(AmountOf, PaidTo(a))
    BY <2>1 DEF SumsBy
  <2>3. SumOf(AmountOf, PaidFrom(a)) \in Int /\ SumOf(AmountOf, PaidTo(a)) \in Int
    BY PaidFinite, AmountsType
  <2>4. BalanceOf(a) = endowed[a] - SumOf(AmountOf, PaidFrom(a)) + SumOf(AmountOf, PaidTo(a))
    BY DEF MoneyAccounted
  <2>5. endowed[a] \in Int /\ balance[a] = BalanceOf(a)
    BY DEF TypeOK
  <2> HIDE DEF out, in, balance
  <2> QED BY <2>2, <2>3, <2>4, <2>5
<1> HIDE DEF out, in, balance, D, C
<1>4. SumOf(balance, Accounts) =
          SumOf(endowed, Accounts) - SumOf(out, Accounts) + SumOf(in, Accounts)
  BY <1>3, AccountsAssumption, SumOfNet
<1> QED BY <1>2, <1>4 DEF balance, D, C

\* Transfers as such conserve money: with nothing under way, what the accounts
\* hold together is what their documents brought, unless something failed or
\* the account of a transfer was deleted.
THEOREM MoneyIsConserved == Spec => []MoneyConserved
<1>1. SagaInv /\ MoneyInv => MoneyConserved
  <2> SUFFICES ASSUME SagaInv, MoneyInv, spent["fault"] = 0, \A c \in Calls : ~InFlight(c),
                      \A c \in Calls : moves[c] # {} => {req[c].from, req[c].to} \cap gone = {}
               PROVE  SumOf([a \in Accounts |-> BalanceOf(a)], Accounts) = SumOf(endowed, Accounts)
    BY DEF MoneyConserved
  <2>1. TypeOK /\ MoneyAccounted
    BY DEF SagaInv, MoneyInv
  <2> DEFINE D == {c \in Calls : "debit" \in moves[c]}
             C == {c \in Calls : "credit" \in moves[c]}
  <2>2. ASSUME NEW c \in Calls, moves[c] # {} PROVE c \in D /\ c \in C
    <3>1. call[c].pc \notin Moving
      BY DEF InFlight, Running, Moving
    <3>2. transactions[c] # "none"
      BY <2>2, <3>1 DEF MoneyInv, LegsInv
    <3>3. Settled(c)
      BY <3>2 DEF SagaInv, AnswerInv
    <3> QED BY <2>2, <3>3 DEF Settled
  <2>3. D = C
    BY <2>2
  <2>4. SumOf(AmountOf, D) \in Int
    BY <2>1, AmountsType
  <2>5. SumOf(endowed, Accounts) \in Int
    BY <2>1, AccountsAssumption, SumOfType DEF TypeOK
  <2>6. SumOf([a \in Accounts |-> BalanceOf(a)], Accounts) =
            SumOf(endowed, Accounts) - SumOf(AmountOf, D) + SumOf(AmountOf, C)
    BY <2>1, MoneyOfAll
  <2> HIDE DEF D, C
  <2> QED BY <2>3, <2>4, <2>5, <2>6
<1> QED BY <1>1, MoneyInvariant, PTL

-----------------------------------------------------------------------------
(* One call at a time: a key is charged once for each fault or eviction.    *)

OneAtATime == \A c, d \in Calls : InFlight(c) /\ InFlight(d) => c = d

\* A request with key k has been charged and the cache knows, or will know
\* unless a fault comes in between.
Served(k) ==
    \/ cache[k] # NoCall
    \/ \E c \in Calls : req[c].key = k /\ call[c].pc \in Moving

KeyInv(k) ==
    /\ Charges(k) <= spent["fault"] + spent["evict"] + (IF Served(k) THEN 1 ELSE 0)
    /\ \A c \in Calls : req[c].key = k /\ call[c].pc \in Accepted => cache[k] = NoCall

KeysInv == OneAtATime /\ \A k \in Keys : KeyInv(k)

LEMMA OneAtATimeStep ==
    ASSUME TypeOK, Overlap = "none", OneAtATime, [Next]_vars
    PROVE  OneAtATime'
<1>1. ASSUME NEW c \in Calls, Handles(c) \/ Debit(c) \/ Credit(c) PROVE OneAtATime'
  <2>1. \A d \in Calls \ {c} : call'[d] = call[d]
    BY <1>1, HandlesFrame, AnsweredEffect DEF Debit, Credit, Move
  <2>2. CASE InFlight(c)
    BY <2>1, <2>2 DEF OneAtATime, InFlight
  <2>3. CASE ~InFlight(c)
    <3>1. Submit(c)
      BY <1>1, <2>3 DEF Handles, Authorize, Lookup, Open, ReadFrom, ReadTo, Insert, Finalize,
                        Commit, Store, Abort, Reject, Debit, Credit, InFlight, Running
    <3>2. \A d \in Calls : ~InFlight(d)
      BY <3>1 DEF Submit, MayStart
    <3> QED BY <2>1, <3>2 DEF OneAtATime, InFlight
  <2> QED BY <2>2, <2>3
<1>2. ASSUME Between PROVE OneAtATime'
  <2>1. \A c \in Calls : InFlight(c)' => InFlight(c)
    BY <1>2, StepsBetween DEF InFlight, Running
  <2> QED BY <2>1 DEF OneAtATime
<1>3. ASSUME Administration PROVE OneAtATime'
  BY <1>3, StepsOfAdministration DEF OneAtATime, InFlight
<1> QED BY <1>1, <1>2, <1>3, NextSteps

LEMMA ChargesType ==
    ASSUME NEW k
    PROVE  Charges(k) \in Nat
BY CallsAssumption, FS_Subset, FS_CardinalityType DEF Charges

LEMMA ChargesSame ==
    ASSUME req' = req, moves' = moves, NEW k
    PROVE  Charges(k)' = Charges(k)
BY DEF Charges

\* Only a debit charges, and it charges the key of its call.
LEMMA ChargesOfCall ==
    ASSUME TypeOK, NEW c \in Calls, Handles(c) \/ Debit(c) \/ Credit(c), NEW k
    PROVE  \/ Charges(k)' = Charges(k)
           \/ Charges(k)' = Charges(k) + 1 /\ Debit(c) /\ req[c].key = k
<1> DEFINE charged == {d \in Calls : req[d].key = k /\ "debit" \in moves[d]}
<1>1. ASSUME charged' = charged PROVE Charges(k)' = Charges(k)
  BY <1>1 DEF Charges
<1>2. CASE Handles(c)
  BY <1>2, HandlesFrame, ChargesSame
<1>3. CASE Credit(c)
  <2>1. charged' = charged
    BY <1>3 DEF Credit, Move, TypeOK
  <2> QED BY <1>1, <2>1
<1>4. CASE Debit(c)
  <2>1. \/ charged' = charged
        \/ charged' = charged \cup {c} /\ c \notin charged /\ req[c].key = k
    BY <1>4 DEF Debit, Move, TypeOK
  <2>2. ASSUME charged' = charged \cup {c}, c \notin charged PROVE Charges(k)' = Charges(k) + 1
    <3>1. IsFiniteSet(charged)
      BY CallsAssumption, FS_Subset
    <3>2. Cardinality(charged \cup {c}) = Cardinality(charged) + 1
      BY <2>2, <3>1, FS_AddElement
    <3> QED BY <2>2, <3>2 DEF Charges
  <2> QED BY <1>1, <1>4, <2>1, <2>2
<1> QED BY <1>2, <1>3, <1>4

\* Only the last step of a call changes the cache.
LEMMA CacheOfCall ==
    ASSUME TypeOK, NEW c \in Calls, Handles(c) \/ Debit(c) \/ Credit(c)
    PROVE  \/ cache' = cache /\ (call[c].pc = "store" /\ spent' = spent => req[c].key = NoKey)
           \/ /\ cache' = [cache EXCEPT ![req[c].key] = c] /\ req[c].key # NoKey
              /\ call'[c].pc \in {"abort", "done"}
<1>1. CASE Store(c)
  BY <1>1, FinishEffect, ThrowEffect DEF Store, respond
<1>2. CASE Reject(c)
  BY <1>2, SpendEffect DEF Reject, TypeOK
<1>3. CASE ~Store(c) /\ ~Reject(c)
  BY <1>3 DEF Handles, Submit, Authorize, Lookup, Open, ReadFrom, ReadTo, Insert, Finalize,
              Commit, Abort, Debit, Credit, Move, history
<1> QED BY <1>1, <1>2, <1>3

\* The only call in flight is the one that takes a step, before and after it.
LEMMA OthersRest ==
    ASSUME TypeOK, OneAtATime, Overlap = "none",
           NEW c \in Calls, Handles(c) \/ Debit(c) \/ Credit(c), NEW d \in Calls \ {c}
    PROVE  ~InFlight(d) /\ ~InFlight(d)' /\ call'[d] = call[d]
<1>1. call'[d] = call[d]
  BY HandlesFrame, AnsweredEffect DEF Debit, Credit, Move
<1>2. ~InFlight(d)
  <2>1. CASE InFlight(c)
    BY <2>1 DEF OneAtATime
  <2>2. CASE ~InFlight(c)
    <3>1. Submit(c)
      BY <2>2 DEF Handles, Authorize, Lookup, Open, ReadFrom, ReadTo, Insert, Finalize,
                  Commit, Store, Abort, Reject, Debit, Credit, InFlight, Running
    <3> QED BY <3>1 DEF Submit, MayStart
  <2> QED BY <2>1, <2>2
<1> QED BY <1>1, <1>2 DEF InFlight

LEMMA KeyStepOfCall ==
    ASSUME TypeOK, TypeOK', Overlap = "none", KeysInv, NEW k \in Keys,
           NEW c \in Calls, Handles(c) \/ Debit(c) \/ Credit(c)
    PROVE  KeyInv(k)'
<1>0. /\ OneAtATime /\ KeyInv(k) /\ k # NoKey /\ req' = req
      /\ Charges(k) \in Nat /\ spent["fault"] \in Nat /\ spent["evict"] \in Nat
      /\ spent'["fault"] \in Nat /\ spent'["evict"] \in Nat
  BY NullsAssumption, ChargesType, HandlesFrame DEF KeysInv, TypeOK, Debit, Credit, Move
<1>1. /\ \/ spent' = spent /\ Advance(call[c].pc, call'[c].pc)
         \/ /\ spent'["fault"] = spent["fault"] + 1 /\ spent'["evict"] = spent["evict"]
            /\ call'[c].pc \in {"abort", "done"}
      /\ call[c].pc = "lookup" /\ call'[c].pc = "open" => ~Hit(c)
  BY StepsOfCall
<1>2. \A d \in Calls \ {c} : ~InFlight(d) /\ ~InFlight(d)' /\ call'[d] = call[d]
  BY <1>0, OthersRest
<1>3. \/ cache' = cache /\ (call[c].pc = "store" /\ spent' = spent => req[c].key = NoKey)
      \/ /\ cache' = [cache EXCEPT ![req[c].key] = c] /\ req[c].key # NoKey
         /\ call'[c].pc \in {"abort", "done"}
  BY CacheOfCall
<1>4. Charges(k)' <= spent'["fault"] + spent'["evict"] + (IF Served(k)' THEN 1 ELSE 0)
  <2>1. CASE Charges(k)' = Charges(k) + 1 /\ Debit(c) /\ req[c].key = k
    <3>1. call[c].pc = "debit" /\ cache[k] = NoCall
      BY <1>0, <2>1 DEF Debit, KeyInv, Accepted
    <3>2. ~Served(k)
      BY <1>2, <3>1 DEF Served, InFlight, Running, Moving
    <3>3. Charges(k) <= spent["fault"] + spent["evict"]
      BY <1>0, <3>2 DEF KeyInv
    <3>4. spent' = spent => Served(k)'
      BY <1>0, <1>1, <2>1, <3>1 DEF Served, Advance, Moving
    <3> QED BY <1>0, <1>1, <2>1, <3>3, <3>4
  <2>2. CASE Charges(k)' = Charges(k)
    <3>1. CASE spent' = spent
      <4>1. ASSUME Served(k) PROVE Served(k)'
        <5>1. CASE cache[k] # NoCall
          BY <1>0, <1>3, <5>1, NullsAssumption DEF Served, TypeOK
        <5>2. CASE \E d \in Calls : req[d].key = k /\ call[d].pc \in Moving
          <6>1. req[c].key = k /\ call[c].pc \in Moving
            BY <1>2, <5>2 DEF InFlight, Running, Moving
          <6>2. CASE call[c].pc = "store"
            <7>1. cache'[k] = c
              BY <1>0, <1>3, <3>1, <6>1, <6>2 DEF TypeOK
            <7> QED BY <7>1, NullsAssumption DEF Served
          <6>3. CASE call[c].pc # "store"
            <7>1. call'[c].pc \in Moving
              BY <1>0, <1>1, <3>1, <6>1, <6>3 DEF Advance, Moving
            <7> QED BY <1>0, <6>1, <7>1 DEF Served
          <6> QED BY <6>2, <6>3
        <5> QED BY <4>1, <5>1, <5>2 DEF Served
      <4> QED BY <1>0, <2>2, <3>1, <4>1 DEF KeyInv
    <3>2. CASE spent'["fault"] = spent["fault"] + 1 /\ spent'["evict"] = spent["evict"]
      BY <1>0, <2>2, <3>2 DEF KeyInv
    <3> QED BY <1>1, <3>1, <3>2
  <2> QED BY <2>1, <2>2, ChargesOfCall
<1>5. ASSUME NEW d \in Calls, req'[d].key = k, call'[d].pc \in Accepted PROVE cache'[k] = NoCall
  <2>1. d = c
    BY <1>2, <1>5 DEF InFlight, Running, Accepted, Moving
  <2>2. cache' = cache
    BY <1>3, <1>5, <2>1 DEF Accepted, Moving
  <2>3. call[c].pc \in Accepted \/ (call[c].pc = "lookup" /\ call'[c].pc = "open")
    BY <1>1, <1>5, <2>1 DEF Advance, Accepted, Moving
  <2> QED BY <1>0, <1>1, <1>5, <2>1, <2>2, <2>3 DEF KeyInv, Hit
<1> QED BY <1>4, <1>5 DEF KeyInv

LEMMA KeysStep ==
    ASSUME TypeOK, TypeOK', Overlap = "none", KeysInv, [Next]_vars
    PROVE  KeysInv'
<1>0. OneAtATime /\ spent["fault"] \in Nat /\ spent["evict"] \in Nat
  BY DEF KeysInv, TypeOK
<1>1. OneAtATime'
  BY <1>0, OneAtATimeStep
<1>2. ASSUME Between, NEW k \in Keys PROVE KeyInv(k)'
  <2>0. KeyInv(k) /\ Charges(k) \in Nat
    BY ChargesType DEF KeysInv
  <2>1. req' = req /\ Charges(k)' = Charges(k)
    BY <1>2, StepsBetween, ChargesSame
  <2>2. CASE /\ spent'["fault"] = spent["fault"] + 1 /\ spent'["evict"] = spent["evict"]
             /\ cache' = cache
             /\ \A c \in Calls : /\ InFlight(c) => call'[c].pc = "lost"
                                 /\ ~InFlight(c) => call'[c] = call[c]
    <3>1. \A c \in Calls : call'[c].pc \notin Accepted
      BY <2>2 DEF InFlight, Running, Accepted, Moving
    <3> QED BY <1>0, <2>0, <2>1, <2>2, <3>1 DEF KeyInv
  <2>3. CASE /\ spent'["fault"] = spent["fault"] /\ spent'["evict"] = spent["evict"] + 1
             /\ call' = call
             /\ \E l \in Keys : cache' = [cache EXCEPT ![l] = NoCall]
    <3>1. cache[k] = NoCall => cache'[k] = NoCall
      BY <2>3 DEF TypeOK
    <3> QED BY <1>0, <2>0, <2>1, <2>3, <3>1 DEF KeyInv
  <2>4. CASE spent' = spent /\ call' = call /\ cache' = cache
    BY <2>0, <2>1, <2>4 DEF KeyInv, Served
  <2> QED BY <1>2, <2>2, <2>3, <2>4, StepsBetween
<1>3. ASSUME Administration, NEW k \in Keys PROVE KeyInv(k)'
  <2>1. KeyInv(k) /\ UNCHANGED <<req, call, cache, moves>> /\ Charges(k)' = Charges(k)
        /\ spent'["fault"] = spent["fault"] /\ spent'["evict"] = spent["evict"]
    BY <1>3, StepsOfAdministration, ChargesSame DEF KeysInv
  <2> QED BY <2>1 DEF KeyInv, Served
<1> QED BY <1>1, <1>2, <1>3, KeyStepOfCall, NextSteps DEF KeysInv

LEMMA KeysInit == Init => KeysInv
<1> SUFFICES ASSUME Init PROVE KeysInv
  OBVIOUS
<1>1. \A c \in Calls : call[c].pc = "idle" /\ moves[c] = {}
  BY DEF Init
<1>2. ASSUME NEW k \in Keys PROVE KeyInv(k)
  <2>1. {c \in Calls : req[c].key = k /\ "debit" \in moves[c]} = {}
    BY <1>1
  <2>2. Charges(k) = 0
    BY <2>1, FS_EmptySet DEF Charges
  <2>3. spent["fault"] = 0 /\ spent["evict"] = 0
    BY DEF Init
  <2> QED BY <1>1, <2>2, <2>3 DEF KeyInv, Accepted, Moving
<1> QED BY <1>1, <1>2 DEF KeysInv, OneAtATime, InFlight, Running

\* Requests that never overlap charge a key once, and once more for each fault
\* or eviction: the cache is as good as exactly-once delivery as long as
\* nothing fails, however many calls carry the key.
THEOREM SerialKeysChargeOnce == Overlap = "none" => (Spec => []DuplicatesNeedFaults)
<1> SUFFICES ASSUME Overlap = "none" PROVE Spec => []DuplicatesNeedFaults
  OBVIOUS
<1>1. TypeOK /\ TypeOK' /\ KeysInv /\ [Next]_vars => KeysInv'
  BY KeysStep
<1>2. TypeOK /\ KeysInv => DuplicatesNeedFaults
  <2> SUFFICES ASSUME TypeOK, KeysInv, NEW k \in Keys
               PROVE  Charges(k) <= 1 + spent["fault"] + spent["evict"]
    BY DEF DuplicatesNeedFaults
  <2>1. Charges(k) <= spent["fault"] + spent["evict"] + (IF Served(k) THEN 1 ELSE 0)
    BY DEF KeysInv, KeyInv
  <2>2. Charges(k) \in Nat /\ spent["fault"] \in Nat /\ spent["evict"] \in Nat
    BY ChargesType DEF TypeOK
  <2> QED BY <2>1, <2>2
<1> QED BY <1>1, <1>2, KeysInit, TypeCorrect, PTL DEF Spec

-----------------------------------------------------------------------------
(* What a transfer answers.  A balance is what the transfers that moved     *)
(* money from the account or to it add up to, so the document a call read   *)
(* stands for a set of transfers, and this set only grows.                  *)

Moved(a) == PaidFrom(a) \cup PaidTo(a)

LEMMA EntriesExplain ==
    ASSUME TypeOK, MoneyInv, NEW a \in Accounts
    PROVE  BalanceOf(a) = endowed[a] + Total(Moved(a), a)
<1> DEFINE entry == [c \in Calls |-> Entry(c, a)]
           out == PaidFrom(a)
           in == PaidTo(a)
<1>1. \A c \in Calls : AmountOf[c] \in Int /\ entry[c] \in Int
  BY RequestType DEF AmountOf, Entry
<1>2. /\ out \subseteq Calls /\ IsFiniteSet(out) /\ in \subseteq Calls /\ IsFiniteSet(in)
  BY PaidFinite
<1>3. \A c \in out : entry[c] = -AmountOf[c]
  BY <1>2 DEF PaidFrom, Entry, AmountOf
<1>4. out \cap in = {}
  BY DEF MoneyInv, LegsInv, PaidFrom, PaidTo
<1>5. \A c \in in : AmountOf[c] = entry[c]
  BY <1>2, <1>4 DEF PaidFrom, PaidTo, MoneyInv, LegsInv, Entry, AmountOf
<1>6. BalanceOf(a) = endowed[a] - SumOf(AmountOf, out) + SumOf(AmountOf, in)
  BY DEF MoneyInv, MoneyAccounted
<1>7. Total(Moved(a), a) = SumOf(entry, out \cup in)
  BY DEF Total, Moved
<1>8. endowed[a] \in Int
  BY DEF TypeOK
<1> HIDE DEF entry, out, in
<1>9. SumOf(entry, out) = -SumOf(AmountOf, out)
  BY <1>1, <1>2, <1>3, SumOfNegated
<1>10. SumOf(AmountOf, in) = SumOf(entry, in)
  BY <1>2, <1>5, SumOfSame
<1>11. SumOf(entry, out \cup in) = SumOf(entry, out) + SumOf(entry, in)
  BY <1>1, <1>2, <1>4, SumOfUnion
<1>12. SumOf(AmountOf, out) \in Int /\ SumOf(AmountOf, in) \in Int
  BY <1>2, AmountsType
<1> QED BY <1>6, <1>7, <1>8, <1>9, <1>10, <1>11, <1>12

LEMMA TotalAdd ==
    ASSUME TypeOK, NEW a, NEW set \in SUBSET Calls, NEW c \in Calls \ set
    PROVE  Total(set \cup {c}, a) = Total(set, a) + Entry(c, a) /\ Total(set, a) \in Int
<1> DEFINE entry == [d \in Calls |-> Entry(d, a)]
<1>1. \A d \in Calls : entry[d] \in Int
  BY RequestType DEF Entry
<1>2. IsFiniteSet(set) /\ entry[c] = Entry(c, a)
  BY CallsAssumption, FS_Subset
<1> HIDE DEF entry
<1>3. SumOf(entry, set \cup {c}) = SumOf(entry, set) + entry[c] /\ SumOf(entry, set) \in Int
  BY <1>1, <1>2, SumOfAdd, SumOfType
<1> QED BY <1>2, <1>3 DEF Total, entry

\* A recorded transfer of an account that was not deleted moved its money.
LEMMA RecordedMoved ==
    ASSUME SagaInv, NEW a, a \notin gone,
           NEW c \in Calls, transactions[c] # "none", Involves(c, a)
    PROVE  c \in Moved(a)
BY DEF SagaInv, AnswerInv, Settled, Involves, Moved, PaidFrom, PaidTo

\* Where the payer's document has been read and found good.
Seeing == {"insert", "debit"} \cup Moving

\* The balance c read is that of the transfers clients knew of when they asked
\* for c, and others of the payer's, c not among them.
SeenShows(c) ==
    /\ Exists(req[c].from)
    /\ \E shown \in SUBSET {d \in Calls : d # c /\ Involves(d, req[c].from)} :
          /\ \A d \in call[c].before : Involves(d, req[c].from) => d \in shown
          /\ call[c].seen.balance = endowed[req[c].from] + Total(shown, req[c].from)

SeenInv(c) ==
    /\ \A d \in call[c].before : transactions[d] # "none"
    /\ call[c].answer = c => call[c].pc = "done"
    /\ call[c].pc \in Seeing \/ call[c].answer = c => call[c].seen # NoAccount
    /\ /\ call[c].pc \in {"readTo"} \cup Seeing \/ call[c].answer = c
       /\ call[c].seen # NoAccount /\ req[c].from \notin gone
       => SeenShows(c)

\* A step that leaves what c knows alone.
LEMMA SeenFrame ==
    ASSUME TypeOK, NEW c \in Calls, SeenInv(c), req' = req, gone \subseteq gone',
           \A d \in Calls : transactions[d] # "none" => transactions'[d] # "none",
           Exists(req[c].from) /\ req[c].from \notin gone' =>
               Exists(req[c].from)' /\ endowed'[req[c].from] = endowed[req[c].from],
           call'[c].seen = call[c].seen, call'[c].before = call[c].before,
           call'[c].pc = "readTo" => call[c].pc = "readTo",
           call'[c].pc \in Seeing =>
               call[c].pc \in Seeing \/ (call[c].pc = "readTo" /\ call[c].seen # NoAccount),
           call'[c].answer = c =>
               call'[c].pc = "done" /\ (call[c].pc \in Seeing \/ call[c].answer = c)
    PROVE  SeenInv(c)'
<1>1. call[c].before \subseteq Calls
  BY DEF TypeOK, CallState
<1>2. (\A d \in call[c].before : transactions[d] # "none")'
  BY <1>1 DEF SeenInv
<1>3. (call[c].pc \in Seeing \/ call[c].answer = c => call[c].seen # NoAccount)'
  BY DEF SeenInv
<1>4. ASSUME call'[c].pc \in {"readTo"} \cup Seeing \/ call'[c].answer = c,
             call'[c].seen # NoAccount, req[c].from \notin gone'
      PROVE  SeenShows(c)'
  <2>1. SeenShows(c)
    BY <1>4 DEF SeenInv
  <2>2. \A d, a : Involves(d, a)' <=> Involves(d, a)
    BY DEF Involves
  <2>3. \A set, a : Total(set, a)' = Total(set, a)
    BY DEF Total, Entry
  <2>4. Exists(req[c].from)' /\ endowed'[req[c].from] = endowed[req[c].from]
    BY <1>4, <2>1 DEF SeenShows
  <2>5. PICK shown \in SUBSET {d \in Calls : d # c /\ Involves(d, req[c].from)} :
            /\ \A d \in call[c].before : Involves(d, req[c].from) => d \in shown
            /\ call[c].seen.balance = endowed[req[c].from] + Total(shown, req[c].from)
    BY <2>1 DEF SeenShows
  <2>6. shown \in SUBSET {d \in Calls : d # c /\ Involves(d, req[c].from)'}
    BY <2>2
  <2> QED BY <2>2, <2>3, <2>4, <2>5, <2>6 DEF SeenShows, Exists
<1> QED BY <1>2, <1>3, <1>4 DEF SeenInv

\* Where the document is read, what has moved money is what it shows.
LEMMA SeenReadFrom ==
    ASSUME SagaInv, MoneyInv, NEW c \in Calls, SeenInv(c), ReadFrom(c)
    PROVE  SeenInv(c)'
<1> DEFINE a == req[c].from
<1>0. TypeOK /\ a \in Accounts /\ call[c].before \subseteq Calls
  BY RequestType DEF SagaInv, TypeOK, CallState
<1>1. /\ call'[c].pc = "readTo" /\ call'[c].seen = accounts[a]
      /\ call'[c].before = call[c].before /\ call'[c].answer = call[c].answer
      /\ UNCHANGED <<accounts, req, transactions, moves, gone, endowed>>
  BY <1>0 DEF ReadFrom, findByAccountNo, history, TypeOK, CallState
<1>2. call[c].answer # c /\ c \notin Moved(a)
  BY DEF SeenInv, ReadFrom, SagaInv, StageInv, Before, Moved, PaidFrom, PaidTo
<1>3. ASSUME accounts[a] # NoAccount, a \notin gone PROVE SeenShows(c)'
  <2>1. Moved(a) \in SUBSET {d \in Calls : d # c /\ Involves(d, a)}
    BY <1>2 DEF Moved, PaidFrom, PaidTo, Involves
  <2>2. \A d \in call[c].before : Involves(d, a) => d \in Moved(a)
    BY <1>0, <1>3, RecordedMoved DEF SeenInv
  <2>3. accounts[a].balance = endowed[a] + Total(Moved(a), a)
    BY <1>0, <1>3, EntriesExplain DEF BalanceOf, Exists
  <2>4. \A d : Involves(d, req[c].from)' <=> Involves(d, a)
    BY <1>1 DEF Involves
  <2>5. \A set : Total(set, req[c].from)' = Total(set, a)
    BY <1>1 DEF Total, Entry
  <2> HIDE DEF Moved
  <2>6. \E shown \in SUBSET {d \in Calls : d # c /\ Involves(d, req[c].from)'} :
            /\ \A d \in call[c].before : Involves(d, req[c].from)' => d \in shown
            /\ accounts[a].balance = endowed[a] + Total(shown, req[c].from)'
    <3>1. Moved(a) \in SUBSET {d \in Calls : d # c /\ Involves(d, req[c].from)'}
      BY <2>1, <2>4
    <3> QED BY <2>2, <2>3, <2>4, <2>5, <3>1
  <2> QED BY <1>1, <1>3, <2>6 DEF SeenShows, Exists
<1> QED BY <1>1, <1>2, <1>3 DEF SeenInv, Seeing, Moving

LEMMA SeenHandles ==
    ASSUME SagaInv, SagaInv', MoneyInv, NEW c \in Calls, SeenInv(c), [Next]_vars,
           Handles(c) \/ Debit(c) \/ Credit(c)
    PROVE  SeenInv(c)'
<1>0. TypeOK /\ StageInv(c) /\ req[c].from \in Accounts
  BY RequestType DEF SagaInv
<1>1. /\ req' = req /\ gone' = gone /\ endowed' = endowed
      /\ Exists(req[c].from) => Exists(req[c].from)'
      /\ \A d \in Calls : transactions[d] # "none" => transactions'[d] # "none"
  <2>1. \A d \in Calls : Kept(d)
    BY RecordsStay
  <2>2. \A d \in Calls : transactions[d] # "none" => transactions'[d] # "none"
    BY <2>1 DEF Kept
  <2>3. CASE Handles(c)
    BY <1>0, <2>2, <2>3, HandlesFrame DEF Exists
  <2>4. CASE Debit(c) \/ Credit(c)
    <3>1. req[c].amount \in Int /\ -req[c].amount \in Int
          /\ req[c].from \in Accounts /\ req[c].to \in Accounts
      BY <1>0, RequestType
    <3>2. \A b \in Accounts : Exists(b)' <=> Exists(b)
      BY <1>0, <2>4, <3>1, updateBalanceEffect DEF Debit, Credit, Move
    <3>3. req' = req /\ gone' = gone /\ endowed' = endowed
      BY <2>4 DEF Debit, Credit, Move
    <3> QED BY <1>0, <2>2, <3>2, <3>3 DEF Exists
  <2> QED BY <2>3, <2>4
<1>2. CASE Submit(c)
  <2>1. call'[c].pc = "authorize" /\ call'[c].answer = call[c].answer /\ call'[c].before = Told
    BY <1>0, <1>2, SubmitEffect
  <2>2. call[c].answer # c
    BY <1>2 DEF Submit, SeenInv
  <2>3. \A d \in Told : transactions'[d] # "none"
    BY <1>1 DEF Told, SagaInv, AnswerInv
  <2> QED BY <2>1, <2>2, <2>3 DEF SeenInv, Seeing, Moving
<1>3. CASE ReadFrom(c)
  BY <1>3, SeenReadFrom
<1>4. CASE ReadTo(c)
  <2> DEFINE refusal == Refusal(call[c].seen, findByAccountNo(req[c].to), req[c].amount)
  <2>1. CASE refusal = "none"
    <3>1. call[c].seen # NoAccount /\ Goto(c, "insert") /\ call[c].pc = "readTo"
      BY <1>4, <2>1 DEF Refusal, ReadTo
    <3>2. call[c].answer # c
      BY <3>1 DEF SeenInv
    <3> QED BY <1>0, <1>1, <3>1, <3>2, GotoEffect, SeenFrame
  <2>2. CASE refusal # "none"
    <3>1. Throw(c, refusal) /\ call[c].answer # c
      BY <1>4, <2>2 DEF ReadTo, SeenInv
    <3> QED BY <1>0, <1>1, <3>1, ThrowEffect, SeenFrame DEF Seeing, Moving
  <2> QED BY <2>1, <2>2
<1>5. CASE Authorize(c) \/ Lookup(c) \/ Open(c) \/ Abort(c)
  <2>1. call[c].answer # c /\ call[c].pc \notin {"readTo"} \cup Seeing
    BY <1>5 DEF Authorize, Lookup, Open, Abort, SeenInv, Seeing, Moving
  <2>2. \/ \E next \in {"lookup", "open", "readFrom", "done"} : Goto(c, next)
        \/ \E outcome : Finish(c, outcome, NoCall)
        \/ Hit(c) /\ Finish(c, "ok", cache[req[c].key]) /\ call[c].pc = "lookup"
    BY <1>5 DEF Authorize, Lookup, Open, Abort
  <2>3. call'[c].answer # c
    <3>1. CASE Hit(c) /\ Finish(c, "ok", cache[req[c].key]) /\ call[c].pc = "lookup"
      <4>1. transactions[c] = "none"
        BY <1>0, <3>1 DEF StageInv, Before
      <4>2. cache[req[c].key] # c
        BY <1>0, <3>1, <4>1, RequestType DEF Hit, SagaInv, CacheInv
      <4> QED BY <1>0, <3>1, <4>2, FinishEffect
    <3>2. CASE ~(Hit(c) /\ Finish(c, "ok", cache[req[c].key]) /\ call[c].pc = "lookup")
      BY <1>0, <2>1, <2>2, <3>2, GotoEffect, FinishEffect, NullsAssumption
    <3> QED BY <3>1, <3>2
  <2>4. /\ call'[c].pc \in {"lookup", "open", "readFrom", "done"}
        /\ call'[c].seen = call[c].seen /\ call'[c].before = call[c].before
    BY <1>0, <2>2, GotoEffect, FinishEffect
  <2> QED BY <1>0, <1>1, <2>1, <2>3, <2>4, SeenFrame DEF Seeing, Moving
<1>6. CASE Insert(c) \/ Finalize(c) \/ Commit(c) \/ Debit(c) \/ Credit(c)
  <2>1. call[c].answer # c /\ call[c].pc \in Seeing
    BY <1>6 DEF Insert, Finalize, Commit, Debit, Credit, SeenInv, Seeing, Moving
  <2>2. \E next \in Seeing : Goto(c, next) \/ Answered(c, next)
    BY <1>6 DEF Insert, Finalize, Commit, Debit, Credit, Move, Seeing, Moving
  <2>3. /\ call'[c].pc \in Seeing \cup {"abort"} /\ call'[c].answer = call[c].answer
        /\ call'[c].seen = call[c].seen /\ call'[c].before = call[c].before
    BY <1>0, <2>2, GotoEffect, AnsweredEffect
  <2> QED BY <1>0, <1>1, <2>1, <2>3, SeenFrame DEF Seeing, Moving
<1>7. CASE Store(c)
  <2>1. call[c].pc \in Seeing
    BY <1>7 DEF Store, Seeing, Moving
  <2>2. call[c].answer # c
    BY <1>7 DEF Store, SeenInv
  <2>3. CASE \E outcome : Throw(c, outcome)
    BY <1>0, <1>1, <2>1, <2>2, <2>3, ThrowEffect, SeenFrame DEF Seeing, Moving
  <2>4. CASE Finish(c, "ok", c)
    BY <1>0, <1>1, <2>1, <2>4, FinishEffect, SeenFrame DEF Seeing, Moving
  <2> QED BY <1>7, <2>3, <2>4 DEF Store, respond
<1>8. CASE Reject(c)
  <2>1. call[c].answer # c
    BY <1>8 DEF Reject, InFlight, Running, SeenInv
  <2>2. (\E outcome : Throw(c, outcome)) \/ (\E outcome : Finish(c, outcome, NoCall))
    BY <1>8 DEF Reject
  <2>3. /\ call'[c].pc \in {"abort", "done"} /\ call'[c].answer # c
        /\ call'[c].seen = call[c].seen /\ call'[c].before = call[c].before
    BY <1>0, <2>1, <2>2, ThrowEffect, FinishEffect, NullsAssumption
  <2> QED BY <1>0, <1>1, <2>3, SeenFrame DEF Seeing, Moving
<1> QED BY <1>2, <1>3, <1>4, <1>5, <1>6, <1>7, <1>8 DEF Handles

LEMMA SeenStep ==
    ASSUME SagaInv, SagaInv', MoneyInv, [Next]_vars, \A c \in Calls : SeenInv(c)
    PROVE  \A c \in Calls : SeenInv(c)'
<1> SUFFICES ASSUME NEW c \in Calls PROVE SeenInv(c)'
  OBVIOUS
<1>0. /\ TypeOK /\ req[c].from \in Accounts
      /\ \A d \in Calls : transactions[d] # "none" => transactions'[d] # "none"
  BY RequestType, RecordsStay DEF SagaInv, Kept
<1>1. ASSUME NEW d \in Calls, Handles(d) \/ Debit(d) \/ Credit(d), d # c PROVE SeenInv(c)'
  <2>1. call'[c] = call[c]
    BY <1>0, <1>1, HandlesFrame, AnsweredEffect DEF Debit, Credit, Move
  <2>2. /\ req' = req /\ gone' = gone /\ endowed' = endowed
        /\ Exists(req[c].from) => Exists(req[c].from)'
    <3>1. CASE Handles(d)
      BY <1>0, <1>1, <3>1, HandlesFrame DEF Exists
    <3>2. CASE Debit(d) \/ Credit(d)
      <4>1. req[d].amount \in Int /\ -req[d].amount \in Int
            /\ req[d].from \in Accounts /\ req[d].to \in Accounts
        BY <1>0, RequestType
      <4>2. \A b \in Accounts : Exists(b)' <=> Exists(b)
        BY <1>0, <3>2, <4>1, updateBalanceEffect DEF Debit, Credit, Move
      <4>3. req' = req /\ gone' = gone /\ endowed' = endowed
        BY <3>2 DEF Debit, Credit, Move
      <4> QED BY <1>0, <4>2, <4>3 DEF Exists
    <3> QED BY <1>1, <3>1, <3>2
  <2>3. call[c].answer = c => call[c].pc = "done"
    BY DEF SeenInv
  <2> QED BY <1>0, <2>1, <2>2, <2>3, SeenFrame
<1>2. CASE Between
  <2>1. /\ UNCHANGED <<accounts, req, gone, endowed>>
        /\ call'[c] = call[c] \/ (call'[c].pc = "lost" /\ InFlight(c) /\ Crash)
    <3>1. UNCHANGED <<accounts, req, gone, endowed>>
      BY <1>0, <1>2, StepsBetween
    <3>2. CASE Crash
      BY <1>0, <3>1, <3>2 DEF Crash, TypeOK, CallState
    <3>3. CASE (\E k \in Keys : Evict(k)) \/ UNCHANGED vars
      BY <3>1, <3>3 DEF Evict, vars
    <3> QED BY <1>2, <3>2, <3>3 DEF Between
  <2>2. call[c].answer = c => call[c].pc = "done"
    BY DEF SeenInv
  <2>3. CASE call'[c] = call[c]
    BY <1>0, <2>1, <2>2, <2>3, SeenFrame DEF Exists
  <2>4. CASE call'[c].pc = "lost" /\ InFlight(c) /\ Crash
    <3>1. /\ call'[c].answer = call[c].answer /\ call'[c].seen = call[c].seen
          /\ call'[c].before = call[c].before
      BY <1>0, <2>4 DEF Crash, TypeOK, CallState
    <3>2. call[c].answer # c
      BY <2>2, <2>4 DEF InFlight, Running
    <3> QED BY <1>0, <2>1, <2>4, <3>1, <3>2, SeenFrame DEF Exists, Seeing, Moving
  <2> QED BY <2>1, <2>3, <2>4
<1>3. CASE Administration
  <2>1. req' = req /\ call' = call /\ gone \subseteq gone'
    BY <1>0, <1>3, StepsOfAdministration
  <2>2. Exists(req[c].from) /\ req[c].from \notin gone' =>
            Exists(req[c].from)' /\ endowed'[req[c].from] = endowed[req[c].from]
    <3>1. ASSUME NEW b \in Accounts, Exists(b), b \notin gone'
          PROVE  Exists(b)' /\ endowed'[b] = endowed[b]
      <4>1. /\ BalanceOf(b)' - endowed'[b] = BalanceOf(b) - endowed[b]
            /\ Exists(b)' /\ BalanceOf(b)' = BalanceOf(b)
        BY <1>0, <1>3, <3>1, AdministrationBalances DEF Administration
      <4>2. BalanceOf(b) \in Int /\ endowed[b] \in Int /\ endowed'[b] \in Int
        BY <1>0, BalanceType DEF SagaInv, TypeOK
      <4> QED BY <4>1, <4>2
    <3> QED BY <1>0, <2>1, <3>1 DEF Exists
  <2>3. call[c].answer = c => call[c].pc = "done"
    BY DEF SeenInv
  <2> QED BY <1>0, <2>1, <2>2, <2>3, SeenFrame
<1> QED BY <1>1, <1>2, <1>3, SeenHandles, NextSteps

\* The new_balance of every response includes the transfer and those that clients
\* were told of before it was asked for, however many others overlap with it,
\* fail or are lost: only transfers nobody had been told of can be missing.
THEOREM AnswersAreNotBehind == Spec => []NewBalanceIsNotBehind
<1>1. Init => \A c \in Calls : SeenInv(c)
  <2> SUFFICES ASSUME Init, NEW c \in Calls PROVE SeenInv(c)
    OBVIOUS
  <2>1. call[c].pc = "idle" /\ call[c].answer = NoCall /\ call[c].before = {}
    BY DEF Init
  <2> QED BY <2>1, NullsAssumption DEF SeenInv, Seeing, Moving
<1>2. /\ SagaInv /\ SagaInv' /\ MoneyInv /\ [Next]_vars /\ (\A c \in Calls : SeenInv(c))
      => (\A c \in Calls : SeenInv(c))'
  BY SeenStep
<1>3. SagaInv /\ (\A c \in Calls : SeenInv(c)) => NewBalanceIsNotBehind
  <2> SUFFICES ASSUME SagaInv, NEW c \in Calls, SeenInv(c),
                      call[c].answer = c, req[c].from \notin gone
               PROVE  Shows(newBalance(c), req[c].from,
                            {c} \cup {d \in call[c].before : Involves(d, req[c].from)})
    BY DEF NewBalanceIsNotBehind
  <2> DEFINE a == req[c].from
  <2>0. /\ TypeOK /\ a \in Accounts /\ req[c].amount \in Int /\ endowed[a] \in Int
        /\ call[c].seen # NoAccount /\ call[c].seen.balance \in Int
    BY RequestType DEF SagaInv, SeenInv, TypeOK, CallState, AccountDoc
  <2>1. PICK shown \in SUBSET {d \in Calls : d # c /\ Involves(d, a)} :
            /\ \A d \in call[c].before : Involves(d, a) => d \in shown
            /\ call[c].seen.balance = endowed[a] + Total(shown, a)
    BY <2>0 DEF SeenInv, SeenShows
  <2>2. /\ Total(shown \cup {c}, a) = Total(shown, a) + Entry(c, a)
        /\ Total(shown, a) \in Int
    <3>1. shown \in SUBSET Calls /\ c \in Calls \ shown
      BY <2>1
    <3> QED BY <2>0, <3>1, TotalAdd
  <2>3. Entry(c, a) = -req[c].amount /\ Involves(c, a)
    BY DEF Entry, Involves
  <2>4. newBalance(c) = endowed[a] + Total(shown \cup {c}, a)
    <3> HIDE DEF a
    <3> QED BY <2>0, <2>1, <2>2, <2>3 DEF newBalance
  <2>5. shown \cup {c} \in SUBSET {d \in Calls : Involves(d, a)}
    BY <2>1, <2>3
  <2>6. {c} \cup {d \in call[c].before : Involves(d, a)} \subseteq shown \cup {c}
    BY <2>1
  <2> HIDE DEF a
  <2>7. Shows(newBalance(c), a, {c} \cup {d \in call[c].before : Involves(d, a)})
    BY <2>4, <2>5, <2>6 DEF Shows
  <2> QED BY <2>7 DEF a
<1> QED BY <1>1, <1>2, <1>3, MoneyInvariant, PTL DEF Spec

=============================================================================
