--------------------------- MODULE TransferProofs ---------------------------
(* Theorems about the transfer mutation, for every value of its constants. *)
EXTENDS Transfer, TLAPS

-----------------------------------------------------------------------------
(* Type correctness.                                                       *)

LEMMA GotoType ==
    ASSUME TypeOK, NEW c \in Calls, NEW next \in {"idle"} \cup Running \cup Ended,
           Goto(c, next)
    PROVE  call' \in [Calls -> CallState]
<1> DEFINE new == [call[c] EXCEPT !.pc = next]
<1>1. call[c] \in CallState
  BY DEF TypeOK
<1>2. new \in CallState
  BY <1>1 DEF CallState
<1>3. call' = [call EXCEPT ![c] = new]
  BY DEF Goto
<1> HIDE DEF new
<1> QED BY <1>2, <1>3 DEF TypeOK

LEMMA FinishType ==
    ASSUME TypeOK, NEW c \in Calls, NEW outcome \in Outcomes,
           NEW answer \in Calls \cup {NoCall}, Finish(c, outcome, answer)
    PROVE  call' \in [Calls -> CallState]
<1> DEFINE new == [call[c] EXCEPT !.pc = "done", !.outcome = outcome, !.answer = answer]
<1>1. call[c] \in CallState
  BY DEF TypeOK
<1>2. new \in CallState
  BY <1>1 DEF CallState, Ended
<1>3. call' = [call EXCEPT ![c] = new]
  BY DEF Finish
<1> HIDE DEF new
<1> QED BY <1>2, <1>3 DEF TypeOK

LEMMA ThrowType ==
    ASSUME TypeOK, NEW c \in Calls, NEW outcome \in Outcomes, Throw(c, outcome)
    PROVE  call' \in [Calls -> CallState]
<1> DEFINE new == [call[c] EXCEPT !.pc = "abort", !.outcome = outcome]
<1>1. call[c] \in CallState
  BY DEF TypeOK
<1>2. new \in CallState
  BY <1>1 DEF CallState, Running
<1>3. call' = [call EXCEPT ![c] = new]
  BY DEF Throw
<1> HIDE DEF new
<1> QED BY <1>2, <1>3 DEF TypeOK

LEMMA SubmitType ==
    ASSUME TypeOK, NEW c \in Calls, Submit(c)
    PROVE  call' \in [Calls -> CallState]
<1> DEFINE new == [call[c] EXCEPT !.pc = "authorize", !.before = Told]
<1>1. call[c] \in CallState /\ Told \subseteq Calls
  BY DEF TypeOK, Told
<1>2. new \in CallState
  BY <1>1 DEF CallState, Running
<1>3. call' = [call EXCEPT ![c] = new]
  BY DEF Submit
<1> HIDE DEF new
<1> QED BY <1>2, <1>3 DEF TypeOK

\* A failure is never taken for success, and for a refusal only where a message
\* of the driver's gets to the resolver.
LEMMA FailureAnswers ==
    ASSUME NEW c \in Calls, NEW outcome \in AnswersToFailure(c)
    PROVE  /\ outcome \in Outcomes \ {"none", "ok"}
           /\ outcome \in Refusals =>
                  Misreadings # {} /\ call[c].pc \notin {"insert", "commit", "store"}
BY MisreadingsAssumption DEF AnswersToFailure, Outcomes, Refusals

LEMMA SpendType ==
    ASSUME TypeOK, NEW kind \in {"fault", "evict", "admin"}, Spend(kind)
    PROVE  spent' \in [{"fault", "evict", "admin"} -> Nat]
BY DEF TypeOK, Spend

LEMMA RequestType ==
    ASSUME TypeOK, NEW c \in Calls
    PROVE  /\ req[c].from \in Accounts /\ req[c].to \in Accounts /\ req[c].amount \in Int
           /\ req[c].key \in Keys \cup {NoKey}
BY RequestsAssumption DEF TypeOK, Request

LEMMA AccountType ==
    ASSUME TypeOK, NEW a \in Accounts, Exists(a)
    PROVE  /\ accounts[a] \in AccountDoc
           /\ accounts[a].balance \in Int
BY DEF TypeOK, AccountsTypeOK, Exists, AccountDoc

LEMMA updateBalanceType ==
    ASSUME TypeOK, NEW a \in Accounts, NEW amount \in Int, updateBalance(a, amount)
    PROVE  AccountsTypeOK'
<1>1. CASE Exists(a)
  <2> DEFINE new == [accounts[a] EXCEPT !.balance = @ + amount]
  <2>1. new \in AccountDoc
    BY <1>1, AccountType DEF AccountDoc
  <2>2. accounts' = [accounts EXCEPT ![a] = new]
    BY <1>1 DEF updateBalance
  <2> HIDE DEF new
  <2> QED BY <2>1, <2>2 DEF TypeOK, AccountsTypeOK
<1>2. CASE ~Exists(a)
  BY <1>2 DEF updateBalance, TypeOK, AccountsTypeOK
<1> QED BY <1>1, <1>2

\* Freezing and unfreezing: only the status of one document changes.
LEMMA setStatusType ==
    ASSUME TypeOK, NEW a \in Accounts, Exists(a), NEW status \in AccountStatus,
           accounts' = [accounts EXCEPT ![a].status = status]
    PROVE  AccountsTypeOK'
<1> DEFINE new == [accounts[a] EXCEPT !.status = status]
<1>1. new \in AccountDoc
  BY AccountType DEF AccountDoc
<1>2. accounts' = [accounts EXCEPT ![a] = new]
  OBVIOUS
<1> HIDE DEF new
<1> QED BY <1>1, <1>2 DEF TypeOK, AccountsTypeOK

LEMMA AnsweredType ==
    ASSUME TypeOK, NEW c \in Calls, NEW next \in Running, Answered(c, next)
    PROVE  /\ call' \in [Calls -> CallState]
           /\ spent' \in [{"fault", "evict", "admin"} -> Nat]
BY GotoType, ThrowType, SpendType, FailureAnswers DEF Answered, TypeOK

LEMMA MoveType ==
    ASSUME TypeOK, NEW c \in Calls, NEW leg \in {"debit", "credit"}, NEW a \in Accounts,
           NEW amount \in Int, NEW next \in Running, Move(c, leg, a, amount, next)
    PROVE  TypeOK'
BY updateBalanceType, AnsweredType DEF Move, TypeOK

LEMMA TypeInit == Init => TypeOK
<1> SUFFICES ASSUME Init PROVE TypeOK
  OBVIOUS
<1>1. AccountsTypeOK
  BY InitialAccountsAssumption DEF Init, AccountsTypeOK
<1>2. \A a \in Accounts : BalanceOf(a) \in Int
  BY <1>1 DEF AccountsTypeOK, AccountDoc, BalanceOf, Exists
<1>3. [pc |-> "idle", seen |-> NoAccount, outcome |-> "none", answer |-> NoCall,
      before |-> {}] \in CallState
  BY DEF CallState, Outcomes
<1> QED BY <1>1, <1>2, <1>3 DEF Init, TypeOK, RecordStatus

LEMMA TypeStep == TypeOK /\ [Next]_vars => TypeOK'
<1> SUFFICES ASSUME TypeOK, [Next]_vars PROVE TypeOK'
  OBVIOUS
<1>1. ASSUME NEW c \in Calls, Submit(c) PROVE TypeOK'
  <2>1. call' \in [Calls -> CallState]
    BY <1>1, SubmitType
  <2> QED BY <1>1, <2>1 DEF Submit, TypeOK, AccountsTypeOK
<1>2. ASSUME NEW c \in Calls, Authorize(c) PROVE TypeOK'
  <2>1. call' \in [Calls -> CallState]
    BY <1>2, GotoType, FinishType DEF Authorize, Running, Outcomes, Refusals
  <2> QED BY <1>2, <2>1 DEF Authorize, history, TypeOK, AccountsTypeOK
<1>3. ASSUME NEW c \in Calls, Lookup(c) PROVE TypeOK'
  <2>1. Hit(c) => cache[req[c].key] \in Calls
    BY RequestType DEF Hit, TypeOK
  <2>2. call' \in [Calls -> CallState]
    BY <1>3, <2>1, GotoType, FinishType DEF Lookup, Running, Outcomes, Refusals
  <2> QED BY <1>3, <2>2 DEF Lookup, history, TypeOK, AccountsTypeOK
<1>4. ASSUME NEW c \in Calls, Open(c) PROVE TypeOK'
  <2>1. call' \in [Calls -> CallState]
    BY <1>4, GotoType DEF Open, Running
  <2> QED BY <1>4, <2>1 DEF Open, history, TypeOK, AccountsTypeOK
<1>5. ASSUME NEW c \in Calls, ReadFrom(c) PROVE TypeOK'
  <2>1. findByAccountNo(req[c].from) \in AccountDoc \cup {NoAccount}
    BY RequestType DEF findByAccountNo, TypeOK, AccountsTypeOK
  <2>2. call' \in [Calls -> CallState]
    <3> DEFINE new == [call[c] EXCEPT !.pc = "readTo", !.seen = findByAccountNo(req[c].from)]
    <3>0. call[c] \in CallState
      BY DEF TypeOK
    <3>1. new \in CallState
      BY <2>1, <3>0 DEF CallState, Running
    <3>2. call' = [call EXCEPT ![c] = new]
      BY <1>5 DEF ReadFrom
    <3> HIDE DEF new
    <3> QED BY <3>1, <3>2 DEF TypeOK
  <2> QED BY <1>5, <2>2 DEF ReadFrom, history, TypeOK, AccountsTypeOK
<1>6. ASSUME NEW c \in Calls, ReadTo(c) PROVE TypeOK'
  <2>1. call' \in [Calls -> CallState]
    BY <1>6, GotoType, ThrowType DEF ReadTo, Refusal, Running, Outcomes, Refusals
  <2> QED BY <1>6, <2>1 DEF ReadTo, history, TypeOK, AccountsTypeOK
<1>7. ASSUME NEW c \in Calls, Insert(c) PROVE TypeOK'
  <2>1. call' \in [Calls -> CallState]
    BY <1>7, GotoType DEF Insert, Running
  <2> QED BY <1>7, <2>1 DEF Insert, history, RecordStatus, TypeOK, AccountsTypeOK
<1>8. ASSUME NEW c \in Calls, Debit(c) PROVE TypeOK'
  <2>1. -req[c].amount \in Int
    BY RequestType
  <2> QED BY <1>8, <2>1, RequestType, MoveType DEF Debit, Running
<1>9. ASSUME NEW c \in Calls, Credit(c) PROVE TypeOK'
  BY <1>9, RequestType, MoveType DEF Credit, Running
<1>10. ASSUME NEW c \in Calls, Finalize(c) PROVE TypeOK'
  <2>1. call' \in [Calls -> CallState]
    BY <1>10, GotoType DEF Finalize, Running
  <2> QED BY <1>10, <2>1 DEF Finalize, updateStatus, history, RecordStatus, TypeOK, AccountsTypeOK
<1>11. ASSUME NEW c \in Calls, Commit(c) PROVE TypeOK'
  <2>1. /\ call' \in [Calls -> CallState]
        /\ spent' \in [{"fault", "evict", "admin"} -> Nat]
    BY <1>11, AnsweredType DEF Commit, Running
  <2> QED BY <1>11, <2>1 DEF Commit, history, RecordStatus, TypeOK, AccountsTypeOK
<1>12. ASSUME NEW c \in Calls, Store(c) PROVE TypeOK'
  <2>1. /\ call' \in [Calls -> CallState]
        /\ spent' \in [{"fault", "evict", "admin"} -> Nat]
    <3>1. CASE respond(c)
      BY <3>1, FinishType DEF respond, TypeOK, Outcomes
    <3>2. CASE Spend("fault") /\ \E outcome \in AnswersToFailure(c) : Throw(c, outcome)
      BY <3>2, ThrowType, SpendType, FailureAnswers
    <3> QED BY <1>12, <3>1, <3>2 DEF Store
  <2>2. cache' \in [Keys -> Calls \cup {NoCall}]
    BY <1>12, RequestType DEF Store, TypeOK
  <2> QED BY <1>12, <2>1, <2>2 DEF Store, history, TypeOK, AccountsTypeOK
<1>13. ASSUME NEW c \in Calls, Abort(c) PROVE TypeOK'
  <2>1. call' \in [Calls -> CallState]
    BY <1>13, GotoType DEF Abort, Ended
  <2> QED BY <1>13, <2>1 DEF Abort, history, RecordStatus, TypeOK, AccountsTypeOK
<1>14. ASSUME NEW c \in Calls, Reject(c) PROVE TypeOK'
  <2>1. call' \in [Calls -> CallState]
    BY <1>14, FinishType, ThrowType, FailureAnswers DEF Reject
  <2>2. spent' \in [{"fault", "evict", "admin"} -> Nat]
    BY <1>14, SpendType DEF Reject
  <2> QED BY <1>14, <2>1, <2>2 DEF Reject, history, TypeOK, AccountsTypeOK
<1>15. CASE Crash
  <2>1. call' \in [Calls -> CallState]
    <3>1. ASSUME NEW c \in Calls PROVE [call[c] EXCEPT !.pc = "lost"] \in CallState
      <4>1. call[c] \in CallState
        BY DEF TypeOK
      <4> QED BY <4>1 DEF CallState, Ended
    <3> QED BY <1>15, <3>1 DEF Crash, TypeOK
  <2>2. spent' \in [{"fault", "evict", "admin"} -> Nat]
    BY <1>15, SpendType DEF Crash
  <2> QED BY <1>15, <2>1, <2>2 DEF Crash, history, RecordStatus, TypeOK, AccountsTypeOK
<1>16. ASSUME NEW k \in Keys, Evict(k) PROVE TypeOK'
  <2>1. spent' \in [{"fault", "evict", "admin"} -> Nat]
    BY <1>16, SpendType DEF Evict
  <2> QED BY <1>16, <2>1 DEF Evict, history, TypeOK, AccountsTypeOK
<1>17. ASSUME NEW a \in Accounts,
              \/ Freeze(a) \/ Unfreeze(a) \/ Delete(a)
              \/ \E doc \in NewAccounts : Create(a, doc)
       PROVE  TypeOK'
  <2>1. spent' \in [{"fault", "evict", "admin"} -> Nat]
    BY <1>17, SpendType DEF Freeze, Unfreeze, Delete, Create
  <2>2. AccountsTypeOK'
    <3>1. CASE Freeze(a) \/ Unfreeze(a)
      BY <3>1, setStatusType DEF Freeze, Unfreeze, freeze, unfreeze, AccountStatus
    <3>2. CASE Delete(a)
      BY <3>2 DEF Delete, delete, TypeOK, AccountsTypeOK
    <3>3. ASSUME NEW doc \in NewAccounts, Create(a, doc) PROVE AccountsTypeOK'
      BY <3>3, NewAccountsAssumption DEF Create, create, TypeOK, AccountsTypeOK
    <3> QED BY <1>17, <3>1, <3>2, <3>3
  <2>3. endowed' \in [Accounts -> Int]
    <3>1. BalanceOf(a) \in Int
      BY DEF BalanceOf, Exists, TypeOK, AccountsTypeOK, AccountDoc
    <3>2. \A doc \in NewAccounts : doc.balance \in Int
      BY NewAccountsAssumption DEF AccountDoc
    <3> QED BY <1>17, <3>1, <3>2 DEF Freeze, Unfreeze, Delete, Create, history, TypeOK
  <2> QED BY <1>17, <2>1, <2>2, <2>3 DEF Freeze, Unfreeze, Delete, Create, Release, history, TypeOK
<1>18. CASE UNCHANGED vars
  BY <1>18 DEF vars, TypeOK, AccountsTypeOK
<1> QED
  BY <1>1, <1>2, <1>3, <1>4, <1>5, <1>6, <1>7, <1>8, <1>9, <1>10, <1>11, <1>12, <1>13,
     <1>14, <1>15, <1>16, <1>17, <1>18
     DEF Next, Working, Serve, Administration, Quiet

\* Every variable keeps its type: in particular no balance is ever missing a
\* document and no call is answered with anything but a call's response.
THEOREM TypeCorrect == Spec => []TypeOK
BY TypeInit, TypeStep, PTL DEF Spec

-----------------------------------------------------------------------------
(* What answers and records say.  The three invariants about them are not  *)
(* inductive: what a record or an answer may say depends on how far the    *)
(* handler has come, and a cached response on the record of its call.      *)

\* Where the balances have not been touched.
Before == {"idle", "authorize", "lookup", "open", "readFrom", "readTo", "insert", "debit"}

\* An account that was there and has not been deleted is still there.
Held(a) == Exists(a) \/ a \in gone

\* How far a call has come tells what it has done, and which accounts it saw.
StageInv(c) ==
    /\ call[c].pc \in Before => moves[c] = {} /\ transactions[c] = "none"
    /\ call[c].pc = "readTo" => call[c].seen = NoAccount \/ Held(req[c].from)
    /\ call[c].pc \in {"insert", "debit"} => Held(req[c].from)
    /\ call[c].pc \in {"insert", "debit", "credit"} => Held(req[c].to)
    /\ call[c].pc = "credit" => /\ "debit" \in moves[c] \/ req[c].from \in gone
                                /\ transactions[c] = "none"
    /\ call[c].pc \in {"finalize", "commit"} => Settled(c) /\ transactions[c] = "none"
    /\ call[c].pc \in {"debit", "credit", "finalize", "commit"} => sessions[c] = "PROCESSING"
    /\ call[c].pc = "store" => Settled(c) /\ transactions[c] # "none"
    /\ call[c].pc \in Before \cup {"credit", "finalize", "commit", "store"} =>
            call[c].outcome = "none"
    /\ call[c].pc = "abort" => call[c].outcome # "ok"
    /\ call[c].pc \in {"idle", "authorize", "lookup", "open", "readFrom", "readTo", "insert",
                      "store", "done", "lost"} => sessions[c] = "none"

AnswerInv(c) ==
    /\ call[c].outcome \in Refusals => transactions[c] = "none"
    /\ call[c].outcome \in Refusals /\ Misreadings = {} =>
            moves[c] = {} /\ sessions[c] = "none"
    /\ transactions[c] # "none" => Settled(c)
    /\ call[c].outcome = "ok" =>
            LET d == call[c].answer IN
            /\ d \in Calls
            /\ transactions[d] # "none"
            /\ d # c => moves[c] = {} /\ req[c].key # NoKey /\ req[d].key = req[c].key

CacheInv == \A k \in Keys : cache[k] # NoCall => /\ transactions[cache[k]] # "none"
                                                 /\ req[cache[k]].key = k

SagaInv == TypeOK /\ (\A c \in Calls : StageInv(c) /\ AnswerInv(c)) /\ CacheInv

\* A step of call c: nothing changes for the others, and nothing is taken back.
StepOf(c) ==
    /\ \A d \in Calls \ {c} : /\ call'[d] = call[d] /\ moves'[d] = moves[d]
                              /\ transactions'[d] = transactions[d]
                              /\ sessions'[d] = sessions[d]
    /\ req' = req /\ gone' = gone
    /\ \A a \in Accounts : Exists(a) => Exists(a)'
    /\ moves[c] \subseteq moves'[c]
    /\ transactions[c] # "none" => transactions'[c] # "none"

LEMMA GotoEffect ==
    ASSUME TypeOK, NEW c \in Calls, NEW next, Goto(c, next)
    PROVE  /\ call'[c].pc = next /\ call'[c].outcome = call[c].outcome
           /\ call'[c].answer = call[c].answer /\ call'[c].seen = call[c].seen
           /\ call'[c].before = call[c].before
           /\ \A d \in Calls \ {c} : call'[d] = call[d]
BY DEF TypeOK, CallState, Goto

LEMMA SubmitEffect ==
    ASSUME TypeOK, NEW c \in Calls, Submit(c)
    PROVE  /\ call'[c].pc = "authorize" /\ call'[c].outcome = call[c].outcome
           /\ call'[c].answer = call[c].answer /\ call'[c].seen = call[c].seen
           /\ call'[c].before = Told
           /\ \A d \in Calls \ {c} : call'[d] = call[d]
BY DEF TypeOK, CallState, Submit

LEMMA FinishEffect ==
    ASSUME TypeOK, NEW c \in Calls, NEW outcome, NEW answer, Finish(c, outcome, answer)
    PROVE  /\ call'[c].pc = "done" /\ call'[c].outcome = outcome
           /\ call'[c].answer = answer /\ call'[c].seen = call[c].seen
           /\ call'[c].before = call[c].before
           /\ \A d \in Calls \ {c} : call'[d] = call[d]
BY DEF TypeOK, CallState, Finish

LEMMA ThrowEffect ==
    ASSUME TypeOK, NEW c \in Calls, NEW outcome, Throw(c, outcome)
    PROVE  /\ call'[c].pc = "abort" /\ call'[c].outcome = outcome
           /\ call'[c].answer = call[c].answer /\ call'[c].seen = call[c].seen
           /\ call'[c].before = call[c].before
           /\ \A d \in Calls \ {c} : call'[d] = call[d]
BY DEF TypeOK, CallState, Throw

LEMMA AnsweredEffect ==
    ASSUME TypeOK, NEW c \in Calls, NEW next, Answered(c, next)
    PROVE  /\ \/ call'[c].pc = next /\ call'[c].outcome = call[c].outcome
              \/ call'[c].pc = "abort" /\ call'[c].outcome \in AnswersToFailure(c)
           /\ call'[c].answer = call[c].answer /\ call'[c].seen = call[c].seen
           /\ call'[c].before = call[c].before
           /\ \A d \in Calls \ {c} : call'[d] = call[d]
BY GotoEffect, ThrowEffect DEF Answered

LEMMA updateBalanceEffect ==
    ASSUME TypeOK, NEW a \in Accounts, NEW amount \in Int, updateBalance(a, amount)
    PROVE  /\ \A b \in Accounts : Exists(b)' <=> Exists(b)
           /\ \A b \in Accounts \ {a} : accounts'[b] = accounts[b]
           /\ Exists(a) => /\ accounts'[a].balance = accounts[a].balance + amount
                           /\ accounts'[a].status = accounts[a].status
<1>1. CASE Exists(a)
  <2> DEFINE new == [accounts[a] EXCEPT !.balance = @ + amount]
  <2>1. new \in AccountDoc /\ new.balance = accounts[a].balance + amount
        /\ new.status = accounts[a].status
    BY <1>1, AccountType DEF AccountDoc
  <2>2. accounts' = [accounts EXCEPT ![a] = new]
    BY <1>1 DEF updateBalance
  <2> HIDE DEF new
  <2> QED BY <1>1, <2>1, <2>2, NoAccountAssumption DEF TypeOK, AccountsTypeOK, Exists
<1>2. CASE ~Exists(a)
  BY <1>2 DEF updateBalance, Exists
<1> QED BY <1>1, <1>2

\* A step of one call leaves the invariant of the others alone.
LEMMA OthersKeep ==
    ASSUME SagaInv, NEW c \in Calls, StepOf(c), NEW d \in Calls \ {c}
    PROVE  StageInv(d)' /\ AnswerInv(d)'
<1>1. StageInv(d)'
  BY RequestType DEF SagaInv, StageInv, StepOf, Settled, Held
<1>2. AnswerInv(d)'
  <2>1. \A e \in Calls : transactions[e] # "none" => transactions'[e] # "none"
    BY DEF StepOf
  <2> QED BY <2>1 DEF SagaInv, AnswerInv, StepOf, Settled
<1> QED BY <1>1, <1>2

\* So only the call itself and the cache remain to be looked at.
LEMMA StepKeeps ==
    ASSUME SagaInv, TypeOK', NEW c \in Calls, StepOf(c), StageInv(c)', AnswerInv(c)',
           \/ cache' = cache
           \/ \E k \in Keys : cache' = [cache EXCEPT ![k] = c] /\ req[c].key = k
                              /\ transactions'[c] # "none"
    PROVE  SagaInv'
<1>1. \A d \in Calls : StageInv(d)' /\ AnswerInv(d)'
  BY OthersKeep
<1>2. \A e \in Calls : transactions[e] # "none" => transactions'[e] # "none"
  BY DEF StepOf
<1>3. CacheInv'
  <2>1. CASE cache' = cache
    BY <1>2, <2>1 DEF CacheInv, SagaInv, TypeOK, StepOf
  <2>2. CASE \E k \in Keys : cache' = [cache EXCEPT ![k] = c] /\ req[c].key = k
                             /\ transactions'[c] # "none"
    BY <1>2, <2>2 DEF CacheInv, SagaInv, TypeOK, StepOf
  <2> QED BY <2>1, <2>2
<1> QED BY <1>1, <1>3 DEF SagaInv

\* A step of the handler before the balances are touched, or of its catch block.
LEMMA SagaQuietSteps ==
    ASSUME SagaInv, TypeOK', NEW c \in Calls,
           Submit(c) \/ Authorize(c) \/ Open(c) \/ ReadFrom(c) \/ ReadTo(c) \/ Insert(c)
           \/ Abort(c)
    PROVE  SagaInv'
<1> USE DEF SagaInv
<1>1. CASE Submit(c)
  <2>1. StepOf(c)
    BY <1>1, SubmitEffect DEF Submit, StepOf, Exists
  <2>2. call'[c].pc = "authorize" /\ call'[c].outcome = "none"
    BY <1>1, SubmitEffect DEF Submit, StageInv, Before
  <2>3. StageInv(c)' /\ AnswerInv(c)'
    BY <1>1, <2>2 DEF Submit, StageInv, AnswerInv, Before, Settled, Refusals
  <2> QED BY <1>1, <2>1, <2>3, StepKeeps DEF Submit
<1>2. CASE Authorize(c)
  <2>1. StepOf(c)
    BY <1>2, GotoEffect, FinishEffect DEF Authorize, StepOf, Exists, history
  <2>2. \/ call'[c].pc = "lookup" /\ call'[c].outcome = "none"
        \/ call'[c].pc = "done" /\ call'[c].outcome \in Refusals
    <3>0. call[c].outcome = "none"
      BY <1>2 DEF Authorize, StageInv, Before
    <3>1. Finish(c, "400 account", NoCall) \/ Finish(c, "unauthorized", NoCall)
            \/ Goto(c, "lookup")
      BY <1>2 DEF Authorize
    <3> QED BY <3>0, <3>1, GotoEffect, FinishEffect DEF Refusals
  <2>3. StageInv(c)' /\ AnswerInv(c)'
    BY <1>2, <2>2 DEF Authorize, history, StageInv, AnswerInv, Before, Settled, Refusals
  <2> QED BY <1>2, <2>1, <2>3, StepKeeps DEF Authorize
<1>3. CASE Open(c)
  <2>1. StepOf(c)
    BY <1>3, GotoEffect DEF Open, StepOf, Exists, history
  <2>2. call'[c].pc = "readFrom" /\ call'[c].outcome = "none"
    BY <1>3, GotoEffect DEF Open, StageInv, Before
  <2>3. StageInv(c)' /\ AnswerInv(c)'
    BY <1>3, <2>2 DEF Open, history, StageInv, AnswerInv, Before, Settled, Refusals
  <2> QED BY <1>3, <2>1, <2>3, StepKeeps DEF Open
<1>4. CASE ReadFrom(c)
  <2>1. StepOf(c)
    BY <1>4 DEF ReadFrom, StepOf, Exists, history, TypeOK
  <2>2. /\ call'[c].pc = "readTo" /\ call'[c].outcome = "none"
        /\ call'[c].seen = accounts[req[c].from]
    BY <1>4 DEF ReadFrom, StageInv, Before, TypeOK, CallState, findByAccountNo
  <2>3. StageInv(c)' /\ AnswerInv(c)'
    BY <1>4, <2>2
       DEF ReadFrom, history, StageInv, AnswerInv, Before, Settled, Refusals, Held, Exists
  <2> QED BY <1>4, <2>1, <2>3, StepKeeps DEF ReadFrom
<1>5. CASE ReadTo(c)
  <2>1. StepOf(c)
    BY <1>5, GotoEffect, ThrowEffect DEF ReadTo, StepOf, Exists, history
  <2>2. \/ call'[c].pc = "insert" /\ call'[c].outcome = "none"
           /\ call[c].seen # NoAccount /\ Exists(req[c].to)
        \/ call'[c].pc = "abort" /\ call'[c].outcome \in Refusals
    <3> DEFINE refusal == Refusal(call[c].seen, findByAccountNo(req[c].to), req[c].amount)
    <3>0. call[c].outcome = "none"
      BY <1>5 DEF ReadTo, StageInv, Before
    <3>1. CASE refusal = "none"
      <4>1. call[c].seen # NoAccount /\ Exists(req[c].to)
        BY <3>1 DEF Refusal, findByAccountNo, Exists
      <4> QED BY <1>5, <3>0, <3>1, <4>1, GotoEffect DEF ReadTo
    <3>2. CASE refusal # "none"
      <4>1. refusal \in Refusals
        BY <3>2 DEF Refusal, Refusals
      <4>2. Throw(c, refusal)
        BY <1>5, <3>2 DEF ReadTo
      <4> QED BY <4>1, <4>2, ThrowEffect
    <3> QED BY <3>1, <3>2
  <2>3. StageInv(c)' /\ AnswerInv(c)'
    BY <1>5, <2>2
       DEF ReadTo, history, StageInv, AnswerInv, Before, Settled, Refusals, Held, Exists
  <2> QED BY <1>5, <2>1, <2>3, StepKeeps DEF ReadTo
<1>6. CASE Insert(c)
  <2>1. StepOf(c)
    BY <1>6, GotoEffect DEF Insert, StepOf, Exists, history, TypeOK
  <2>2. /\ call'[c].pc = "debit" /\ call'[c].outcome = "none"
        /\ sessions'[c] = "PROCESSING"
    BY <1>6, GotoEffect DEF Insert, StageInv, Before, TypeOK
  <2>3. StageInv(c)' /\ AnswerInv(c)'
    BY <1>6, <2>2
       DEF Insert, history, StageInv, AnswerInv, Before, Settled, Refusals, Held, Exists
  <2> QED BY <1>6, <2>1, <2>3, StepKeeps DEF Insert
<1>7. CASE Abort(c)
  <2>1. StepOf(c)
    BY <1>7, GotoEffect DEF Abort, StepOf, Exists, history, TypeOK
  <2>2. call'[c].pc = "done" /\ call'[c].outcome = call[c].outcome /\ call'[c].outcome # "ok"
    BY <1>7, GotoEffect DEF Abort, StageInv
  <2>3. sessions'[c] = "none"
    BY <1>7 DEF Abort, TypeOK
  <2>4. StageInv(c)' /\ AnswerInv(c)'
    BY <1>7, <2>2, <2>3 DEF Abort, history, StageInv, AnswerInv, Before, Settled, Refusals
  <2> QED BY <1>7, <2>1, <2>4, StepKeeps DEF Abort
<1> QED BY <1>1, <1>2, <1>3, <1>4, <1>5, <1>6, <1>7

\* A hit in the cache is answered with the response of a recorded transfer.
LEMMA SagaLookup ==
    ASSUME SagaInv, TypeOK', NEW c \in Calls, Lookup(c)
    PROVE  SagaInv'
<1> USE DEF SagaInv
<1>1. StepOf(c)
  BY GotoEffect, FinishEffect DEF Lookup, StepOf, Exists, history
<1>2. call[c].pc = "lookup" /\ moves[c] = {} /\ transactions[c] = "none"
  BY DEF Lookup, StageInv, Before
<1>3. CASE Hit(c)
  <2> DEFINE d == cache[req[c].key]
  <2>1. d \in Calls /\ transactions[d] # "none" /\ req[d].key = req[c].key /\ req[c].key # NoKey
    BY <1>3, RequestType DEF Hit, CacheInv, TypeOK
  <2>2. call'[c].pc = "done" /\ call'[c].outcome = "ok" /\ call'[c].answer = d
    BY <1>3, FinishEffect DEF Lookup
  <2> HIDE DEF d
  <2>3. StageInv(c)' /\ AnswerInv(c)'
    BY <1>2, <2>1, <2>2 DEF Lookup, history, StageInv, AnswerInv, Before, Settled, Refusals
  <2> QED BY <1>1, <2>3, StepKeeps DEF Lookup
<1>4. CASE ~Hit(c)
  <2>1. \/ call'[c].pc = "open" /\ call'[c].outcome = "none"
        \/ call'[c].pc = "done" /\ call'[c].outcome = "invalid"
    BY <1>4, GotoEffect, FinishEffect DEF Lookup, StageInv, Before
  <2>2. StageInv(c)' /\ AnswerInv(c)'
    BY <1>2, <2>1 DEF Lookup, history, StageInv, AnswerInv, Before, Settled, Refusals
  <2> QED BY <1>1, <2>2, StepKeeps DEF Lookup
<1> QED BY <1>3, <1>4

\* The balances change, the record is committed, the response is cached.
LEMMA SagaMovingSteps ==
    ASSUME SagaInv, TypeOK', NEW c \in Calls,
           Debit(c) \/ Credit(c) \/ Finalize(c) \/ Commit(c) \/ Store(c)
    PROVE  SagaInv'
<1> USE DEF SagaInv
<1>0. c \in Calls /\ moves[c] \in SUBSET {"debit", "credit"}
  BY DEF TypeOK
<1>1. CASE Debit(c)
  <2>0. -req[c].amount \in Int /\ req[c].from \in Accounts /\ req[c].to \in Accounts
    BY RequestType
  <2>1. \A b \in Accounts : Exists(b)' <=> Exists(b)
    BY <1>1, <2>0, updateBalanceEffect DEF Debit, Move
  <2>2. StepOf(c)
    BY <1>1, <2>1, AnsweredEffect DEF Debit, Move, StepOf, TypeOK
  <2>3. /\ transactions[c] = "none" /\ sessions[c] = "PROCESSING" /\ call[c].outcome = "none"
        /\ Held(req[c].from) /\ Held(req[c].to)
    BY <1>1 DEF Debit, StageInv, Before
  <2>4. "debit" \in moves'[c] \/ req[c].from \in gone
    BY <1>0, <1>1, <2>3 DEF Debit, Move, Held, TypeOK
  <2>5. \/ call'[c].pc = "credit" /\ call'[c].outcome = "none"
        \/ call'[c].pc = "abort" /\ call'[c].outcome \notin {"none", "ok"}
           /\ (call'[c].outcome \in Refusals => Misreadings # {})
    BY <1>1, <2>3, AnsweredEffect, FailureAnswers DEF Debit, Move
  <2>6. StageInv(c)' /\ AnswerInv(c)'
    BY <1>1, <2>0, <2>1, <2>3, <2>4, <2>5
       DEF Debit, Move, StageInv, AnswerInv, Before, Settled, Refusals, Held
  <2> QED BY <1>1, <2>2, <2>6, StepKeeps DEF Debit, Move
<1>2. CASE Credit(c)
  <2>0. req[c].amount \in Int /\ req[c].from \in Accounts /\ req[c].to \in Accounts
    BY RequestType
  <2>1. \A b \in Accounts : Exists(b)' <=> Exists(b)
    BY <1>2, <2>0, updateBalanceEffect DEF Credit, Move
  <2>2. StepOf(c)
    BY <1>2, <2>1, AnsweredEffect DEF Credit, Move, StepOf, TypeOK
  <2>3. /\ transactions[c] = "none" /\ sessions[c] = "PROCESSING" /\ call[c].outcome = "none"
        /\ "debit" \in moves[c] \/ req[c].from \in gone
        /\ Held(req[c].to)
    BY <1>2 DEF Credit, StageInv
  <2>4. Settled(c)'
    BY <1>0, <1>2, <2>3 DEF Credit, Move, Held, Settled, TypeOK
  <2>5. \/ call'[c].pc = "finalize" /\ call'[c].outcome = "none"
        \/ call'[c].pc = "abort" /\ call'[c].outcome \notin {"none", "ok"}
           /\ (call'[c].outcome \in Refusals => Misreadings # {})
    BY <1>2, <2>3, AnsweredEffect, FailureAnswers DEF Credit, Move
  <2>6. StageInv(c)' /\ AnswerInv(c)'
    BY <1>2, <2>3, <2>4, <2>5
       DEF Credit, Move, StageInv, AnswerInv, Before, Refusals
  <2> QED BY <1>2, <2>2, <2>6, StepKeeps DEF Credit, Move
<1>3. CASE Finalize(c)
  <2>1. /\ transactions[c] = "none" /\ sessions[c] = "PROCESSING" /\ call[c].outcome = "none"
        /\ Settled(c)
    BY <1>3 DEF Finalize, StageInv
  <2>2. StepOf(c) /\ transactions'[c] = "none"
    BY <1>3, <2>1, GotoEffect DEF Finalize, updateStatus, StepOf, Exists, history, TypeOK
  <2>3. call'[c].pc = "commit" /\ call'[c].outcome = "none"
    BY <1>3, <2>1, GotoEffect DEF Finalize
  <2>4. StageInv(c)' /\ AnswerInv(c)'
    BY <1>3, <2>1, <2>2, <2>3
       DEF Finalize, history, StageInv, AnswerInv, Before, Settled, Refusals
  <2> QED BY <1>3, <2>2, <2>4, StepKeeps DEF Finalize
<1>4. CASE Commit(c)
  <2>1. /\ sessions[c] = "PROCESSING" /\ call[c].outcome = "none" /\ Settled(c)
    BY <1>4 DEF Commit, StageInv
  <2>2. StepOf(c) /\ transactions'[c] = "PROCESSING" /\ sessions'[c] = "none"
    BY <1>4, <2>1, AnsweredEffect DEF Commit, StepOf, Exists, history, TypeOK
  <2>3. \/ call'[c].pc = "store" /\ call'[c].outcome = "none"
        \/ call'[c].pc = "abort" /\ call'[c].outcome \notin Refusals \cup {"none", "ok"}
    BY <1>4, <2>1, AnsweredEffect, FailureAnswers DEF Commit
  <2>4. StageInv(c)' /\ AnswerInv(c)'
    BY <1>4, <2>1, <2>2, <2>3
       DEF Commit, history, StageInv, AnswerInv, Before, Settled, Refusals
  <2> QED BY <1>4, <2>2, <2>4, StepKeeps DEF Commit
<1>5. CASE Store(c)
  <2>1. transactions[c] # "none" /\ Settled(c)
    BY <1>5 DEF Store, StageInv
  <2>2. /\ \A d \in Calls \ {c} : call'[d] = call[d]
        /\ \/ call'[c].pc = "done" /\ call'[c].outcome = "ok" /\ call'[c].answer = c
           \/ call'[c].pc = "abort" /\ call'[c].outcome \notin Refusals \cup {"none", "ok"}
    BY <1>5, FinishEffect, ThrowEffect, FailureAnswers DEF Store, respond
  <2>3. StepOf(c)
    BY <1>5, <2>2 DEF Store, StepOf, Exists, history
  <2>4. StageInv(c)' /\ AnswerInv(c)'
    BY <1>5, <2>1, <2>2
       DEF Store, history, StageInv, AnswerInv, Before, Settled, Refusals
  <2>5. \/ cache' = cache
        \/ \E k \in Keys : cache' = [cache EXCEPT ![k] = c] /\ req[c].key = k
                           /\ transactions'[c] # "none"
    BY <1>5, <2>1, RequestType DEF Store
  <2> QED BY <2>3, <2>4, <2>5, StepKeeps
<1> QED BY <1>1, <1>2, <1>3, <1>4, <1>5

LEMMA SagaReject ==
    ASSUME SagaInv, TypeOK', NEW c \in Calls, Reject(c)
    PROVE  SagaInv'
<1> USE DEF SagaInv
<1>1. /\ \A d \in Calls \ {c} : call'[d] = call[d]
      /\ \/ call'[c].pc = "abort"
         \/ call'[c].pc = "done" /\ call[c].pc \in {"authorize", "lookup", "open"}
      /\ call'[c].outcome \in AnswersToFailure(c)
  BY FinishEffect, ThrowEffect DEF Reject
<1>2. StepOf(c)
  BY <1>1 DEF Reject, StepOf, Exists, history
<1>3. /\ call'[c].outcome \notin {"none", "ok"}
      /\ call'[c].outcome \in Refusals =>
            Misreadings # {} /\ call[c].pc \notin {"commit", "store"}
  BY <1>1, FailureAnswers
<1>4. call'[c].outcome \in Refusals => transactions[c] = "none"
  BY <1>3 DEF Reject, InFlight, Running, StageInv, Before
<1>5. StageInv(c)' /\ AnswerInv(c)'
  BY <1>1, <1>3, <1>4 DEF Reject, history, StageInv, AnswerInv, Before, Settled
<1> QED BY <1>2, <1>5, StepKeeps DEF Reject

\* A crash ends every call in flight; a call that is not is where it was.
LEMMA SagaCrash == ASSUME SagaInv, TypeOK', Crash PROVE SagaInv'
<1> USE DEF SagaInv
<1>1. ASSUME NEW c \in Calls PROVE StageInv(c)' /\ AnswerInv(c)'
  <2>1. CASE InFlight(c)
    <3>1. /\ call'[c].pc = "lost" /\ call'[c].outcome = call[c].outcome
          /\ call'[c].answer = call[c].answer
      BY <2>1 DEF Crash, TypeOK, CallState
    <3> QED BY <3>1 DEF Crash, history, StageInv, AnswerInv, Before, Settled
  <2>2. CASE ~InFlight(c)
    <3>1. call'[c] = call[c]
      BY <2>2 DEF Crash
    <3>2. call[c].pc \notin {"debit", "credit", "finalize", "commit"}
      BY <2>2 DEF InFlight, Running
    <3> QED BY <3>1, <3>2, RequestType
            DEF Crash, history, StageInv, AnswerInv, Before, Settled, Held, Exists
  <2> QED BY <2>1, <2>2
<1>2. CacheInv'
  BY DEF Crash, CacheInv
<1> QED BY <1>1, <1>2

\* Accounts come and go, but an account that goes is remembered in gone.
LEMMA SagaAdministration ==
    ASSUME SagaInv, TypeOK', NEW a \in Accounts,
           \/ Freeze(a) \/ Unfreeze(a) \/ Delete(a)
           \/ \E doc \in NewAccounts : Create(a, doc)
    PROVE  SagaInv'
<1> USE DEF SagaInv
<1>1. /\ UNCHANGED <<req, call, sessions, transactions, cache, moves>>
      /\ gone \subseteq gone'
  BY DEF Freeze, Unfreeze, Delete, Create, history
<1>2. ASSUME NEW b \in Accounts, Held(b) PROVE Held(b)'
  <2>1. CASE Freeze(a) \/ Unfreeze(a)
    <3>1. Exists(b) => Exists(b)'
      <4> PICK status \in AccountStatus : accounts' = [accounts EXCEPT ![a].status = status]
        BY <2>1 DEF Freeze, Unfreeze, freeze, unfreeze, AccountStatus
      <4>1. Exists(a)
        BY <2>1 DEF Freeze, Unfreeze, freeze, unfreeze
      <4> DEFINE new == [accounts[a] EXCEPT !.status = status]
      <4>2. new \in AccountDoc
        BY <4>1, AccountType DEF AccountDoc
      <4>3. accounts' = [accounts EXCEPT ![a] = new]
        OBVIOUS
      <4> HIDE DEF new
      <4> QED BY <4>2, <4>3, NoAccountAssumption DEF TypeOK, AccountsTypeOK, Exists
    <3> QED BY <1>1, <1>2, <3>1 DEF Held
  <2>2. CASE Delete(a)
    BY <1>2, <2>2 DEF Delete, delete, Held, Exists, TypeOK, AccountsTypeOK
  <2>3. ASSUME NEW doc \in NewAccounts, Create(a, doc) PROVE Held(b)'
    <3>1. doc # NoAccount
      BY NewAccountsAssumption, NoAccountAssumption
    <3> QED BY <1>2, <2>3, <3>1
            DEF Create, create, history, Held, Exists, TypeOK, AccountsTypeOK
  <2> QED BY <2>1, <2>2, <2>3
<1>3. ASSUME NEW c \in Calls PROVE StageInv(c)' /\ AnswerInv(c)'
  <2>1. \A d \in Calls : Settled(d) => Settled(d)'
    BY <1>1 DEF Settled
  <2>2. /\ Held(req[c].from) => Held(req[c].from)'
        /\ Held(req[c].to) => Held(req[c].to)'
    <3>1. req' = req /\ req[c].from \in Accounts /\ req[c].to \in Accounts
      BY <1>1, RequestType
    <3> QED BY <3>1, <1>2 DEF Held, Exists
  <2>3. StageInv(c)'
    <3>1. StageInv(c)
      OBVIOUS
    <3> QED BY <1>1, <2>1, <2>2, <3>1 DEF StageInv
  <2>4. AnswerInv(c)'
    <3>1. AnswerInv(c)
      OBVIOUS
    <3> QED BY <1>1, <2>1, <3>1 DEF AnswerInv
  <2> QED BY <2>3, <2>4
<1>4. CacheInv'
  BY <1>1 DEF CacheInv
<1> QED BY <1>3, <1>4

LEMMA SagaInit == Init => SagaInv
<1> SUFFICES ASSUME Init PROVE SagaInv
  OBVIOUS
<1>1. ASSUME NEW c \in Calls
      PROVE  call[c].pc = "idle" /\ call[c].outcome = "none" /\ moves[c] = {}
             /\ transactions[c] = "none" /\ sessions[c] = "none"
  BY DEF Init
<1>2. ASSUME NEW c \in Calls PROVE StageInv(c) /\ AnswerInv(c)
  BY <1>1 DEF StageInv, AnswerInv, Before, Refusals
<1>3. CacheInv
  BY DEF Init, CacheInv
<1> QED BY <1>2, <1>3, TypeInit DEF SagaInv

LEMMA SagaStep == ASSUME SagaInv, TypeOK', [Next]_vars PROVE SagaInv'
<1>1. ASSUME NEW k \in Keys, Evict(k) PROVE SagaInv'
  <2>1. ASSUME NEW c \in Calls PROVE StageInv(c)' /\ AnswerInv(c)'
    BY <1>1 DEF Evict, history, SagaInv, StageInv, AnswerInv, Settled, Held, Exists
  <2>2. CacheInv'
    BY <1>1 DEF Evict, history, SagaInv, CacheInv, TypeOK
  <2> QED BY <2>1, <2>2 DEF SagaInv
<1>2. CASE UNCHANGED vars
  BY <1>2 DEF vars, SagaInv, StageInv, AnswerInv, CacheInv, Settled, Held, Exists
<1> QED
  BY <1>1, <1>2, SagaQuietSteps, SagaLookup, SagaMovingSteps, SagaReject, SagaCrash,
     SagaAdministration
     DEF Next, Working, Serve, Administration, Quiet

LEMMA SagaInvariant == Spec => []SagaInv
<1>1. SagaInv /\ [Next]_vars => SagaInv'
  BY SagaStep, TypeStep DEF SagaInv
<1> QED BY <1>1, SagaInit, PTL DEF Spec

\* If no message of the driver's is taken for a refusal, a refusal means that
\* nothing has happened, whatever else went on meanwhile.
THEOREM RefusalsAreSafe == Misreadings = {} => (Spec => []RefusalMovesNothing)
<1> SUFFICES ASSUME Misreadings = {} PROVE Spec => []RefusalMovesNothing
  OBVIOUS
<1>1. SagaInv => RefusalMovesNothing
  BY DEF SagaInv, AnswerInv, RefusalMovesNothing
<1> QED BY <1>1, SagaInvariant, PTL

\* Whatever messages are taken for, a call that has ended with a refusal left no
\* record, staged or committed: where a record may exist, the resolver is given
\* the error of the abort.
THEOREM RefusalsLeaveNoRecord == Spec => []RefusalLeavesNoRecord
<1>1. SagaInv => RefusalLeavesNoRecord
  BY DEF SagaInv, StageInv, AnswerInv, RefusalLeavesNoRecord, Ended
<1> QED BY <1>1, SagaInvariant, PTL

\* A committed record means that both balances were changed, although nothing
\* ties them to the session the record is committed in.
THEOREM RecordsAreSettled == Spec => []RecordMeansMoved
<1>1. SagaInv => RecordMeansMoved
  BY DEF SagaInv, AnswerInv, RecordMeansMoved
<1> QED BY <1>1, SagaInvariant, PTL

\* An acknowledgement, cached or not, is that of a settled and recorded transfer.
THEOREM AcksAreSettled == Spec => []AckMeansSettled
<1>1. SagaInv => AckMeansSettled
  BY DEF SagaInv, AnswerInv, AckMeansSettled
<1> QED BY <1>1, SagaInvariant, PTL

-----------------------------------------------------------------------------
(* Frozen accounts.  The status read before the debit is current for a call *)
(* that was made after the freeze: the account is still frozen then.        *)

BarredCall(c) ==
    /\ IsFrozen(req[c].from)
    /\ "debit" \notin moves[c]
    /\ call[c].pc \in {"authorize", "lookup", "open", "readFrom", "readTo", "abort"} \cup Ended
    /\ call[c].pc = "readTo" => call[c].seen # NoAccount /\ call[c].seen.status = "FROZEN"

BarredInv == TypeOK /\ \A c \in barred : BarredCall(c)

\* A step of call c that keeps frozen accounts frozen.
LEMMA BarredFrame ==
    ASSUME BarredInv, TypeOK', NEW c \in Calls, req' = req, barred' \subseteq barred \cup {c},
           \A d \in Calls \ {c} : call'[d] = call[d] /\ moves'[d] = moves[d],
           \A a \in Accounts : IsFrozen(a) => IsFrozen(a)',
           c \in barred' => BarredCall(c)'
    PROVE  BarredInv'
<1>1. ASSUME NEW d \in barred' PROVE BarredCall(d)'
  <2>1. CASE d = c
    BY <2>1, <1>1
  <2>2. CASE d # c
    <3>1. d \in barred /\ d \in Calls \ {c} /\ req[d].from \in Accounts
      BY <1>1, <2>2, RequestType DEF BarredInv, TypeOK
    <3> QED BY <3>1 DEF BarredInv, BarredCall
  <2> QED BY <2>1, <2>2
<1> QED BY <1>1 DEF BarredInv

\* The steps that leave the accounts and the balances alone.
LEMMA BarredQuietSteps ==
    ASSUME BarredInv, SagaInv, TypeOK', NEW c \in Calls,
           \/ Submit(c) \/ Authorize(c) \/ Lookup(c) \/ Open(c) \/ ReadFrom(c) \/ ReadTo(c)
           \/ Insert(c) \/ Finalize(c) \/ Commit(c) \/ Store(c) \/ Abort(c) \/ Reject(c)
    PROVE  BarredInv'
<1> USE DEF BarredInv
<1>0. /\ req' = req /\ accounts' = accounts /\ moves' = moves
      /\ \A a \in Accounts : IsFrozen(a) => IsFrozen(a)'
  BY DEF Submit, Authorize, Lookup, Open, ReadFrom, ReadTo, Insert, Finalize, Commit, Store,
         Abort, Reject, history, IsFrozen, Exists
<1>1. \A d \in Calls \ {c} : call'[d] = call[d]
  <2>1. CASE ReadFrom(c)
    BY <2>1 DEF ReadFrom, TypeOK
  <2>2. CASE ~ReadFrom(c)
    BY <2>2, SubmitEffect, GotoEffect, FinishEffect, ThrowEffect, AnsweredEffect
       DEF Authorize, Lookup, Open, ReadTo, Insert, Finalize, Commit, Store, Abort,
           Reject, respond
  <2> QED BY <2>1, <2>2
<1>2. CASE Submit(c)
  <2>1. barred' \subseteq barred \cup {c}
    BY <1>2 DEF Submit
  <2>2. call[c].pc = "idle" /\ call'[c].pc = "authorize"
    BY <1>2, SubmitEffect DEF Submit
  <2>3. c \notin barred
    BY <2>2 DEF BarredCall, Ended
  <2>4. moves[c] = {}
    BY <2>2 DEF SagaInv, StageInv, Before
  <2>5. c \in barred' => IsFrozen(req[c].from)
    BY <1>2, <2>3 DEF Submit
  <2>6. c \in barred' => BarredCall(c)'
    BY <1>0, <2>2, <2>4, <2>5 DEF BarredCall, IsFrozen, Exists
  <2> QED BY <1>0, <1>1, <2>1, <2>6, BarredFrame
<1>3. CASE ~Submit(c)
  <2>1. barred' = barred
    BY <1>3 DEF Authorize, Lookup, Open, ReadFrom, ReadTo, Insert, Finalize, Commit, Store,
                Abort, Reject, history
  <2>2. ASSUME c \in barred PROVE BarredCall(c)'
    <3>0. BarredCall(c) /\ IsFrozen(req[c].from)' /\ "debit" \notin moves'[c]
      BY <1>0, <2>2, RequestType DEF BarredCall
    <3>1. CASE Authorize(c)
      BY <3>0, <3>1, GotoEffect, FinishEffect DEF Authorize, BarredCall, Ended
    <3>2. CASE Lookup(c)
      BY <3>0, <3>2, GotoEffect, FinishEffect DEF Lookup, BarredCall, Ended
    <3>3. CASE Open(c)
      BY <3>0, <3>3, GotoEffect DEF Open, BarredCall
    <3>4. CASE ReadFrom(c)
      <4>1. call'[c].pc = "readTo" /\ call'[c].seen = accounts[req[c].from]
        BY <3>4 DEF ReadFrom, findByAccountNo, TypeOK, CallState
      <4> QED BY <1>0, <3>0, <4>1 DEF BarredCall, IsFrozen, Exists
    <3>5. CASE ReadTo(c)
      <4>1. Throw(c, Refusal(call[c].seen, findByAccountNo(req[c].to), req[c].amount))
        BY <3>0, <3>5 DEF ReadTo, BarredCall, Refusal
      <4> QED BY <3>0, <4>1, ThrowEffect DEF BarredCall
    <3>6. CASE Abort(c)
      BY <3>0, <3>6, GotoEffect DEF Abort, BarredCall, Ended
    <3>7. CASE Reject(c)
      BY <3>0, <3>7, FinishEffect, ThrowEffect DEF Reject, BarredCall, Ended
    <3>8. CASE Insert(c) \/ Finalize(c) \/ Commit(c) \/ Store(c)
      BY <3>0, <3>8 DEF Insert, Finalize, Commit, Store, BarredCall, Ended
    <3> QED
      BY <1>3, <3>1, <3>2, <3>3, <3>4, <3>5, <3>6, <3>7, <3>8
  <2> QED BY <1>0, <1>1, <2>1, <2>2, BarredFrame
<1> QED BY <1>2, <1>3

\* A change of balance is no change of status, and no barred call makes one.
LEMMA BarredMoves ==
    ASSUME BarredInv, TypeOK', NEW c \in Calls, Debit(c) \/ Credit(c)
    PROVE  BarredInv'
<1>1. c \notin barred
  BY DEF BarredInv, BarredCall, Debit, Credit, Ended
<1>2. ASSUME NEW a \in Accounts, IsFrozen(a) PROVE IsFrozen(a)'
  <2>1. PICK b \in Accounts, amount \in Int : updateBalance(b, amount)
    <3>1. -req[c].amount \in Int
      BY RequestType DEF BarredInv
    <3> QED BY <3>1, RequestType DEF BarredInv, Debit, Credit, Move
  <2>2. TypeOK
    BY DEF BarredInv
  <2> QED BY <1>2, <2>1, <2>2, updateBalanceEffect DEF IsFrozen
<1>3. \A d \in Calls \ {c} : call'[d] = call[d] /\ moves'[d] = moves[d]
  BY AnsweredEffect DEF BarredInv, Debit, Credit, Move, TypeOK
<1>4. req' = req /\ barred' = barred
  BY DEF Debit, Credit, Move
<1> QED BY <1>1, <1>2, <1>3, <1>4, BarredFrame

LEMMA BarredOtherSteps ==
    ASSUME BarredInv, TypeOK',
           Crash \/ (\E k \in Keys : Evict(k)) \/ Administration \/ UNCHANGED vars
    PROVE  BarredInv'
<1> USE DEF BarredInv
<1>1. CASE Crash
  <2>1. ASSUME NEW c \in barred PROVE BarredCall(c)'
    <3>0. BarredCall(c) /\ c \in Calls
      BY DEF TypeOK
    <3>1. /\ call'[c].pc = IF InFlight(c) THEN "lost" ELSE call[c].pc
          /\ call'[c].seen = call[c].seen
      BY <1>1, <3>0 DEF Crash, TypeOK, CallState
    <3>2. UNCHANGED <<accounts, req, moves>>
      BY <1>1 DEF Crash, history
    <3> QED BY <3>0, <3>1, <3>2 DEF BarredCall, IsFrozen, Exists, Ended
  <2>2. barred' = barred
    BY <1>1 DEF Crash, history
  <2> QED BY <2>1, <2>2
<1>2. CASE (\E k \in Keys : Evict(k)) \/ UNCHANGED vars
  <2>1. UNCHANGED <<accounts, req, moves, call, barred>>
    BY <1>2 DEF Evict, history, vars
  <2> QED BY <2>1 DEF BarredCall, IsFrozen, Exists
<1>3. ASSUME NEW a \in Accounts,
             \/ Freeze(a) \/ Unfreeze(a) \/ Delete(a)
             \/ \E doc \in NewAccounts : Create(a, doc)
      PROVE  BarredInv'
  <2>1. UNCHANGED <<req, call, moves>>
    BY <1>3 DEF Freeze, Unfreeze, Delete, Create, history
  <2>2. barred' \subseteq barred
    BY <1>3 DEF Freeze, Unfreeze, Delete, Create, Release, history
  <2>3. ASSUME NEW c \in barred' PROVE IsFrozen(req[c].from)'
    <3>0. c \in barred /\ IsFrozen(req[c].from) /\ req[c].from \in Accounts /\ req' = req
      BY <2>1, <2>2, <2>3, RequestType DEF BarredCall, TypeOK
    <3>1. CASE Freeze(a)
      <4>1. Exists(a) /\ accounts' = [accounts EXCEPT ![a].status = "FROZEN"]
        BY <3>1 DEF Freeze, freeze
      <4> DEFINE new == [accounts[a] EXCEPT !.status = "FROZEN"]
      <4>2. new \in AccountDoc /\ new.status = "FROZEN"
        BY <4>1, AccountType DEF AccountDoc, AccountStatus
      <4>3. accounts' = [accounts EXCEPT ![a] = new]
        BY <4>1
      <4> HIDE DEF new
      <4> QED BY <3>0, <4>2, <4>3, NoAccountAssumption
              DEF IsFrozen, Exists, TypeOK, AccountsTypeOK
    <3>2. CASE Unfreeze(a) \/ Delete(a)
      <4>1. req[c].from # a
        BY <2>3, <3>2 DEF Unfreeze, Delete, Release
      <4>2. accounts'[req[c].from] = accounts[req[c].from]
        BY <3>0, <3>2, <4>1 DEF Unfreeze, Delete, unfreeze, delete, TypeOK, AccountsTypeOK
      <4> QED BY <3>0, <4>2 DEF IsFrozen, Exists
    <3>3. ASSUME NEW doc \in NewAccounts, Create(a, doc) PROVE IsFrozen(req[c].from)'
      <4>1. req[c].from # a
        BY <3>0, <3>3 DEF Create, create, IsFrozen
      <4>2. accounts'[req[c].from] = accounts[req[c].from]
        BY <3>0, <3>3, <4>1 DEF Create, create, TypeOK, AccountsTypeOK
      <4> QED BY <3>0, <4>2 DEF IsFrozen, Exists
    <3> QED BY <1>3, <3>1, <3>2, <3>3
  <2> QED BY <2>1, <2>2, <2>3 DEF BarredCall
<1> QED BY <1>1, <1>2, <1>3 DEF Administration

\* An account frozen before a transfer from it is asked for is not debited by
\* it while it stays frozen.
THEOREM FrozenIsEffective == Spec => []BarredNeverDebited
<1>1. Init => BarredInv
  BY TypeInit DEF Init, BarredInv
<1>2. BarredInv /\ SagaInv /\ [Next]_vars => BarredInv'
  <2> SUFFICES ASSUME BarredInv, SagaInv, [Next]_vars PROVE BarredInv'
    OBVIOUS
  <2>1. TypeOK'
    BY TypeStep DEF BarredInv
  <2> QED BY <2>1, BarredQuietSteps, BarredMoves, BarredOtherSteps DEF Next, Working, Serve, Quiet
<1>3. BarredInv => BarredNeverDebited
  BY DEF BarredInv, BarredCall, BarredNeverDebited
<1> QED BY <1>1, <1>2, <1>3, SagaInvariant, PTL DEF Spec

-----------------------------------------------------------------------------
(* Funds.  What the check of the balance found still holds at the debit,    *)
(* because no other call in flight debits the same account.                *)

OnePerPayer == Overlap \in {"distinct payers", "none"}

PayersInv ==
    \A c, d \in Calls : c # d /\ InFlight(c) /\ InFlight(d) => req[c].from # req[d].from

Covers(c, amount) == req[c].from \in gone \/ BalanceOf(req[c].from) >= amount

FundsCall(c) ==
    /\ call[c].pc \in {"open", "readFrom", "readTo", "insert", "debit", "credit"} =>
            req[c].amount >= 0
    /\ call[c].pc = "readTo" /\ call[c].seen # NoAccount => Covers(c, call[c].seen.balance)
    /\ call[c].pc \in {"insert", "debit"} => Covers(c, req[c].amount)

FundsInv == TypeOK /\ PayersInv /\ NoOverdraft /\ \A c \in Calls : FundsCall(c)

LEMMA BalanceType == ASSUME TypeOK, NEW a \in Accounts PROVE BalanceOf(a) \in Int
BY AccountType DEF BalanceOf

\* The balance after an update: changed by the amount if there is a document.
LEMMA BalanceUpdate ==
    ASSUME TypeOK, NEW a \in Accounts, NEW amount \in Int, updateBalance(a, amount)
    PROVE  /\ BalanceOf(a)' = IF Exists(a) THEN BalanceOf(a) + amount ELSE 0
           /\ \A b \in Accounts \ {a} : BalanceOf(b)' = BalanceOf(b)
BY updateBalanceEffect DEF BalanceOf, Exists

\* A step of call c in flight that takes nothing from the payers of others.
LEMMA FundsFrame ==
    ASSUME FundsInv, TypeOK', NEW c \in Calls, InFlight(c), req' = req, gone' = gone,
           \A d \in Calls \ {c} : call'[d] = call[d],
           \A a \in Accounts \ {req[c].from} : BalanceOf(a)' >= BalanceOf(a),
           NoOverdraft', FundsCall(c)'
    PROVE  FundsInv'
<1> USE DEF FundsInv
<1>1. PayersInv'
  BY DEF PayersInv, InFlight
<1>2. ASSUME NEW d \in Calls \ {c} PROVE FundsCall(d)'
  <2>1. CASE InFlight(d)
    <3>1. req[d].from \in Accounts \ {req[c].from} /\ req[d].amount \in Int
      BY <2>1, RequestType DEF PayersInv
    <3>2. BalanceOf(req[d].from) \in Int /\ BalanceOf(req[d].from)' \in Int
      BY <3>1, BalanceType, AccountType DEF TypeOK, AccountsTypeOK, BalanceOf, Exists, AccountDoc
    <3>3. call[d].seen # NoAccount => call[d].seen.balance \in Int
      BY DEF TypeOK, CallState, AccountDoc
    <3>4. ASSUME NEW n \in Int, Covers(d, n) PROVE Covers(d, n)'
      BY <3>1, <3>2, <3>4 DEF Covers
    <3> QED BY <3>1, <3>3, <3>4 DEF FundsCall
  <2>2. CASE ~InFlight(d)
    BY <2>2 DEF FundsCall, InFlight, Running
  <2> QED BY <2>1, <2>2
<1> QED BY <1>1, <1>2

\* The steps of the handler that leave the accounts alone.
LEMMA FundsQuietSteps ==
    ASSUME FundsInv, TypeOK', NEW c \in Calls,
           \/ Authorize(c) \/ Lookup(c) \/ Open(c) \/ ReadFrom(c) \/ ReadTo(c)
           \/ Insert(c) \/ Finalize(c) \/ Commit(c) \/ Store(c) \/ Abort(c) \/ Reject(c)
    PROVE  FundsInv'
<1> USE DEF FundsInv
<1>1. /\ req' = req /\ accounts' = accounts /\ gone' = gone
      /\ \A a \in Accounts : BalanceOf(a)' = BalanceOf(a) /\ BalanceOf(a) \in Int
      /\ InFlight(c)
  BY BalanceType
     DEF Authorize, Lookup, Open, ReadFrom, ReadTo, Insert, Finalize, Commit, Store,
         Abort, Reject, history, BalanceOf, Exists, InFlight, Running
<1>2. \A d \in Calls \ {c} : call'[d] = call[d]
  <2>1. CASE ReadFrom(c)
    BY <2>1 DEF ReadFrom, TypeOK
  <2>2. CASE ~ReadFrom(c)
    BY <2>2, GotoEffect, FinishEffect, ThrowEffect, AnsweredEffect
       DEF Authorize, Lookup, Open, ReadTo, Insert, Finalize, Commit, Store, Abort,
           Reject, respond
  <2> QED BY <2>1, <2>2
<1>3. FundsCall(c)'
  <2>0. FundsCall(c) /\ req[c].amount \in Int /\ req[c].from \in Accounts
    BY RequestType
  <2>1. CASE Lookup(c)
    <3>1. CASE Goto(c, "open")
      <4>1. req[c].amount >= MinAmount
        <5>1. ~Finish(c, "ok", cache[req[c].key])
          BY <3>1, GotoEffect, FinishEffect
        <5>2. ~Finish(c, "invalid", NoCall)
          BY <3>1, GotoEffect, FinishEffect
        <5> QED BY <2>1, <5>1, <5>2 DEF Lookup, validateAmount
      <4> QED BY <1>1, <2>0, <3>1, <4>1, GotoEffect, AmountsAssumption DEF FundsCall
    <3>2. CASE ~Goto(c, "open")
      <4>1. call'[c].pc = "done"
        BY <2>1, <3>2, FinishEffect DEF Lookup
      <4> QED BY <4>1 DEF FundsCall
    <3> QED BY <3>1, <3>2
  <2>2. CASE Open(c)
    BY <1>1, <2>0, <2>2, GotoEffect DEF Open, FundsCall
  <2>3. CASE ReadFrom(c)
    <3>1. call'[c].pc = "readTo" /\ call'[c].seen = accounts[req[c].from]
      BY <2>3 DEF ReadFrom, findByAccountNo, TypeOK, CallState
    <3>2. req[c].amount >= 0
      BY <2>0, <2>3 DEF FundsCall, ReadFrom
    <3> QED BY <1>1, <2>0, <3>1, <3>2 DEF FundsCall, Covers, BalanceOf, Exists
  <2>4. CASE ReadTo(c)
    <3> DEFINE refusal == Refusal(call[c].seen, findByAccountNo(req[c].to), req[c].amount)
    <3>1. CASE refusal = "none"
      <4>1. call[c].seen # NoAccount /\ ~(call[c].seen.balance < req[c].amount)
        BY <3>1 DEF Refusal
      <4>2. call[c].seen.balance \in Int
        BY <4>1 DEF TypeOK, CallState, AccountDoc
      <4>3. Covers(c, req[c].amount) /\ req[c].amount >= 0
        BY <1>1, <2>0, <2>4, <4>1, <4>2 DEF FundsCall, ReadTo, Covers
      <4>4. call'[c].pc = "insert"
        BY <2>4, <3>1, GotoEffect DEF ReadTo
      <4> QED BY <1>1, <2>0, <4>3, <4>4 DEF FundsCall, Covers
    <3>2. CASE refusal # "none"
      BY <2>4, <3>2, ThrowEffect DEF ReadTo, FundsCall
    <3> QED BY <3>1, <3>2
  <2>5. CASE Insert(c)
    <3>1. call'[c].pc = "debit" /\ Covers(c, req[c].amount) /\ req[c].amount >= 0
      BY <2>0, <2>5, GotoEffect DEF Insert, FundsCall
    <3> QED BY <1>1, <2>0, <3>1 DEF FundsCall, Covers
  <2>6. CASE \/ Authorize(c) \/ Finalize(c) \/ Commit(c) \/ Store(c) \/ Abort(c) \/ Reject(c)
    <3>1. call'[c].pc \in {"lookup", "commit", "store", "abort", "done"}
      BY <2>6, GotoEffect, FinishEffect, ThrowEffect, AnsweredEffect
         DEF Authorize, Finalize, Commit, Store, Abort, Reject, respond
    <3> QED BY <3>1 DEF FundsCall
  <2> QED BY <2>1, <2>2, <2>3, <2>4, <2>5, <2>6
<1>4. NoOverdraft'
  BY <1>1 DEF NoOverdraft
<1>5. \A a \in Accounts \ {req[c].from} : BalanceOf(a)' >= BalanceOf(a)
  BY <1>1
<1> QED BY <1>1, <1>2, <1>3, <1>4, <1>5, FundsFrame

\* The debit takes what Covers allows, the credit takes nothing.
LEMMA FundsMoves ==
    ASSUME FundsInv, TypeOK', NEW c \in Calls, Debit(c) \/ Credit(c)
    PROVE  FundsInv'
<1> USE DEF FundsInv
<1>0. /\ req[c].amount \in Int /\ -req[c].amount \in Int
      /\ req[c].from \in Accounts /\ req[c].to \in Accounts
      /\ \A a \in Accounts : BalanceOf(a) \in Int
  BY RequestType, BalanceType
<1>1. req' = req /\ gone' = gone /\ InFlight(c) /\ FundsCall(c) /\ req[c].amount >= 0
  BY DEF Debit, Credit, Move, InFlight, Running, FundsCall
<1>2. \A d \in Calls \ {c} : call'[d] = call[d]
  BY AnsweredEffect DEF Debit, Credit, Move
<1>3. FundsCall(c)'
  <2>1. \/ call'[c].pc = "credit"
        \/ call'[c].pc \in {"finalize", "abort"}
    BY AnsweredEffect DEF Debit, Credit, Move
  <2> QED BY <1>1, <2>1 DEF FundsCall
<1>4. CASE Debit(c)
  <2>1. /\ BalanceOf(req[c].from)' =
              IF Exists(req[c].from) THEN BalanceOf(req[c].from) - req[c].amount ELSE 0
        /\ \A b \in Accounts \ {req[c].from} : BalanceOf(b)' = BalanceOf(b)
    BY <1>0, <1>4, BalanceUpdate DEF Debit, Move
  <2>2. Covers(c, req[c].amount)
    BY <1>1, <1>4 DEF Debit, FundsCall
  <2>3. NoOverdraft'
    BY <1>0, <1>1, <2>1, <2>2 DEF NoOverdraft, Covers
  <2>4. \A a \in Accounts \ {req[c].from} : BalanceOf(a)' >= BalanceOf(a)
    BY <1>0, <2>1
  <2> QED BY <1>1, <1>2, <1>3, <2>3, <2>4, FundsFrame
<1>5. CASE Credit(c)
  <2>1. /\ BalanceOf(req[c].to)' =
              IF Exists(req[c].to) THEN BalanceOf(req[c].to) + req[c].amount ELSE 0
        /\ \A b \in Accounts \ {req[c].to} : BalanceOf(b)' = BalanceOf(b)
        /\ ~Exists(req[c].to) => BalanceOf(req[c].to) = 0
    BY <1>0, <1>5, BalanceUpdate DEF Credit, Move, BalanceOf
  <2>2. \A a \in Accounts : BalanceOf(a)' >= BalanceOf(a)
    BY <1>0, <1>1, <2>1
  <2>3. NoOverdraft'
    <3>1. ASSUME NEW a \in Accounts PROVE BalanceOf(a)' \in Int
      <4>1. CASE a = req[c].to
        BY <1>0, <1>1, <2>1, <4>1
      <4>2. CASE a # req[c].to
        BY <1>0, <1>1, <2>1, <4>2
      <4> QED BY <4>1, <4>2
    <3> QED BY <1>0, <1>1, <2>2, <3>1 DEF NoOverdraft
  <2> QED BY <1>1, <1>2, <1>3, <2>2, <2>3, FundsFrame
<1> QED BY <1>4, <1>5

LEMMA FundsSubmit == ASSUME FundsInv, TypeOK', OnePerPayer, NEW c \in Calls, Submit(c)
                     PROVE  FundsInv'
<1> USE DEF FundsInv
<1>1. /\ req' = req /\ accounts' = accounts /\ gone' = gone
      /\ \A d \in Calls \ {c} : call'[d] = call[d]
      /\ call'[c].pc = "authorize"
  BY SubmitEffect DEF Submit
<1>2. \A d \in Calls \ {c} : InFlight(d) => req[d].from # req[c].from
  BY DEF Submit, MayStart, OnePerPayer, InFlight, Running
<1>3. PayersInv'
  BY <1>1, <1>2 DEF PayersInv, InFlight
<1>4. NoOverdraft'
  BY <1>1 DEF NoOverdraft, BalanceOf, Exists
<1>5. ASSUME NEW d \in Calls PROVE FundsCall(d)'
  <2>1. CASE d = c
    BY <1>1, <2>1 DEF FundsCall
  <2>2. CASE d # c
    BY <1>1, <2>2 DEF FundsCall, Covers, BalanceOf, Exists
  <2> QED BY <2>1, <2>2
<1> QED BY <1>3, <1>4, <1>5

\* Whatever else happens takes no money from an account that is not deleted.
LEMMA FundsOtherSteps ==
    ASSUME FundsInv, TypeOK',
           Crash \/ (\E k \in Keys : Evict(k)) \/ Administration \/ UNCHANGED vars
    PROVE  FundsInv'
<1> USE DEF FundsInv
<1>1. CASE Crash
  <2>1. UNCHANGED <<accounts, req, gone>>
    BY <1>1 DEF Crash, history
  <2>2. \A c \in Calls : /\ InFlight(c)' => FALSE
                         /\ call'[c].pc \in {"idle", "done", "lost"}
    BY <1>1 DEF Crash, TypeOK, CallState, InFlight, Running, Ended
  <2> QED BY <2>1, <2>2 DEF PayersInv, NoOverdraft, BalanceOf, Exists, FundsCall
<1>2. CASE (\E k \in Keys : Evict(k)) \/ UNCHANGED vars
  <2>1. UNCHANGED <<accounts, req, gone, call>>
    BY <1>2 DEF Evict, history, vars
  <2> QED BY <2>1 DEF PayersInv, NoOverdraft, BalanceOf, Exists, FundsCall, Covers, InFlight
<1>3. ASSUME NEW a \in Accounts,
             \/ Freeze(a) \/ Unfreeze(a) \/ Delete(a)
             \/ \E doc \in NewAccounts : Create(a, doc)
      PROVE  FundsInv'
  <2>1. UNCHANGED <<req, call>> /\ gone \subseteq gone'
    BY <1>3 DEF Freeze, Unfreeze, Delete, Create, history
  <2>2. ASSUME NEW b \in Accounts
        PROVE  /\ BalanceOf(b)' \in Int
               /\ b \in gone' \/ BalanceOf(b)' >= BalanceOf(b)
    <3>0. BalanceOf(b) \in Int
      BY BalanceType
    <3>1. CASE Freeze(a) \/ Unfreeze(a)
      <4>1. BalanceOf(b)' = BalanceOf(b)
        <5>1. Exists(a)
          BY <3>1 DEF Freeze, Unfreeze, freeze, unfreeze
        <5>2. PICK status \in AccountStatus : accounts' = [accounts EXCEPT ![a].status = status]
          BY <3>1 DEF Freeze, Unfreeze, freeze, unfreeze, AccountStatus
        <5> DEFINE new == [accounts[a] EXCEPT !.status = status]
        <5>3. new \in AccountDoc /\ new.balance = accounts[a].balance
          BY <5>1, AccountType DEF AccountDoc
        <5>4. accounts' = [accounts EXCEPT ![a] = new]
          BY <5>2
        <5> HIDE DEF new
        <5> QED BY <5>1, <5>3, <5>4, NoAccountAssumption
                DEF BalanceOf, Exists, TypeOK, AccountsTypeOK
      <4> QED BY <3>0, <4>1
    <3>2. CASE Delete(a)
      <4>1. CASE b = a
        BY <3>2, <4>1 DEF Delete, delete, BalanceOf, Exists, TypeOK, AccountsTypeOK
      <4>2. CASE b # a
        <5>1. BalanceOf(b)' = BalanceOf(b)
          BY <3>2, <4>2 DEF Delete, delete, BalanceOf, Exists, TypeOK, AccountsTypeOK
        <5> QED BY <3>0, <5>1
      <4> QED BY <4>1, <4>2
    <3>3. ASSUME NEW doc \in NewAccounts, Create(a, doc)
          PROVE  BalanceOf(b)' \in Int /\ BalanceOf(b)' >= BalanceOf(b)
      <4>1. doc \in AccountDoc /\ doc # NoAccount /\ doc.balance \in Int /\ doc.balance >= 0
        BY <3>3, NewAccountsAssumption, NoAccountAssumption DEF Create, create, AccountDoc
      <4>2. ~Exists(a) /\ accounts' = [accounts EXCEPT ![a] = doc]
        BY <3>3 DEF Create, create
      <4>3. CASE b = a
        BY <4>1, <4>2, <4>3 DEF BalanceOf, Exists, TypeOK, AccountsTypeOK
      <4>4. CASE b # a
        <5>1. BalanceOf(b)' = BalanceOf(b)
          BY <4>2, <4>4 DEF BalanceOf, Exists, TypeOK, AccountsTypeOK
        <5> QED BY <3>0, <5>1
      <4> QED BY <4>3, <4>4
    <3> QED BY <1>3, <3>1, <3>2, <3>3
  <2>3. PayersInv'
    BY <2>1 DEF PayersInv, InFlight
  <2>4. NoOverdraft'
    <3>1. ASSUME NEW b \in Accounts PROVE BalanceOf(b)' >= 0 \/ b \in gone'
      <4>1. BalanceOf(b) \in Int /\ (BalanceOf(b) >= 0 \/ b \in gone)
        BY BalanceType DEF NoOverdraft
      <4> QED BY <2>1, <2>2, <4>1
    <3> QED BY <3>1 DEF NoOverdraft
  <2>5. ASSUME NEW c \in Calls PROVE FundsCall(c)'
    <3>0. req[c].from \in Accounts /\ req[c].amount \in Int /\ BalanceOf(req[c].from) \in Int
      BY RequestType, BalanceType
    <3>1. call[c].seen # NoAccount => call[c].seen.balance \in Int
      BY DEF TypeOK, CallState, AccountDoc
    <3>2. ASSUME NEW n \in Int, Covers(c, n) PROVE Covers(c, n)'
      <4>1. /\ BalanceOf(req[c].from)' \in Int
            /\ req[c].from \in gone' \/ BalanceOf(req[c].from)' >= BalanceOf(req[c].from)
        BY <2>1, <2>2, <3>0
      <4> QED BY <2>1, <3>0, <3>2, <4>1 DEF Covers
    <3> QED BY <2>1, <3>0, <3>1, <3>2 DEF FundsCall
  <2> QED BY <2>3, <2>4, <2>5
<1> QED BY <1>1, <1>2, <1>3 DEF Administration

\* Clients that never have two transfers from one account in flight are never
\* overdrawn, although nothing in the handler locks the account it has read.
THEOREM SeparatePayersNeverOverdraw == OnePerPayer => (Spec => []NoOverdraft)
<1> SUFFICES ASSUME OnePerPayer PROVE Spec => []NoOverdraft
  OBVIOUS
<1>1. Init => FundsInv
  <2> SUFFICES ASSUME Init PROVE FundsInv
    OBVIOUS
  <2>1. TypeOK
    BY TypeInit
  <2>2. \A c \in Calls : call[c].pc = "idle"
    BY DEF Init
  <2>3. NoOverdraft
    <3>1. \A a \in Accounts : accounts[a] # NoAccount => accounts[a].balance >= 0
      BY InitialAccountsAssumption DEF Init
    <3>2. ASSUME NEW a \in Accounts PROVE BalanceOf(a) >= 0
      <4>1. CASE Exists(a)
        BY <3>1, <4>1 DEF BalanceOf, Exists
      <4>2. CASE ~Exists(a)
        BY <4>2 DEF BalanceOf
      <4> QED BY <4>1, <4>2
    <3> QED BY <3>2 DEF NoOverdraft
  <2> QED BY <2>1, <2>2, <2>3 DEF FundsInv, PayersInv, InFlight, Running, FundsCall
<1>2. FundsInv /\ [Next]_vars => FundsInv'
  <2> SUFFICES ASSUME FundsInv, [Next]_vars PROVE FundsInv'
    OBVIOUS
  <2>1. TypeOK'
    BY TypeStep DEF FundsInv
  <2> QED BY <2>1, FundsSubmit, FundsQuietSteps, FundsMoves, FundsOtherSteps
          DEF Next, Working, Serve, Quiet
<1>3. FundsInv => NoOverdraft
  BY DEF FundsInv
<1> QED BY <1>1, <1>2, <1>3, PTL DEF Spec

=============================================================================
