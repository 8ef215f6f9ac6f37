------------------------- MODULE TransferSagaProofs -------------------------
(* The transfer mutation implements the saga, for every value of the       *)
(* constants: every step of the code is a step of the saga or none.        *)
EXTENDS TransferSaga, TransferProofs

Recorded == {c \in Calls : transactions[c] # "none"}
Verdicts == [c \in Calls |-> verdictOf(c)]

LEMMA SagaInitial == Init => S!SagaInit
BY DEF Init, S!SagaInit, verdictOf

\* A step that the saga does not see.
Stutter == UNCHANGED S!sagaVars

\* Where only call c may change, the verdicts change at most for c.
LEMMA VerdictFrame ==
    ASSUME NEW c \in Calls, \A d \in Calls \ {c} : call'[d] = call[d]
    PROVE  Verdicts' = [Verdicts EXCEPT ![c] = verdictOf(c)']
BY DEF Verdicts, verdictOf

\* A call that has not returned yet.
LEMMA VerdictPending ==
    ASSUME NEW c \in Calls
    PROVE  /\ call[c].pc \notin Ended => verdictOf(c) = "pending"
           /\ call'[c].pc \notin Ended => verdictOf(c)' = "pending"
BY DEF verdictOf, Ended

\* The handler goes on without moving money, recording or returning.
LEMMA StutterSteps ==
    ASSUME NEW c \in Calls, \A d \in Calls \ {c} : call'[d] = call[d],
           call[c].pc \notin Ended, call'[c].pc \notin Ended,
           UNCHANGED <<req, moves, gone>>,
           \A d \in Calls : transactions'[d] = "none" <=> transactions[d] = "none"
    PROVE  Stutter
<1>1. Verdicts' = Verdicts
  BY VerdictFrame, VerdictPending DEF Verdicts
<1>2. Recorded' = Recorded
  BY DEF Recorded
<1> QED BY <1>1, <1>2 DEF Stutter, S!sagaVars, Verdicts, Recorded

\* The handler returns.
LEMMA ReturnSteps ==
    ASSUME NEW c \in Calls, \A d \in Calls \ {c} : call'[d] = call[d],
           call[c].pc \notin Ended, call'[c].pc = "done",
           UNCHANGED <<req, moves, gone, transactions>>
    PROVE  /\ (\/ call'[c].outcome = "ok"
                  /\ \/ transactions[c] # "none"
                     \/ moves[c] = {} /\ \E d \in Calls : /\ transactions[d] # "none"
                                                          /\ req[d].key = req[c].key)
                  => S!Acknowledge(c)
           /\ call'[c].outcome \in Refusals /\ moves[c] = {} /\ transactions[c] = "none"
                  => S!Refuse(c)
           /\ call'[c].outcome \notin Refusals \cup {"ok"} => S!Fail({c})
<1>1. Verdicts' = [Verdicts EXCEPT ![c] = verdictOf(c)'] /\ verdictOf(c) = "pending"
  BY VerdictFrame, VerdictPending
<1>2. verdictOf(c)' = IF call'[c].outcome = "ok" THEN "acknowledged"
                      ELSE IF call'[c].outcome \in Refusals THEN "refused" ELSE "failed"
  BY DEF verdictOf
<1>3. Recorded' = Recorded /\ UNCHANGED <<req, moves, gone>>
  BY DEF Recorded
<1>4. "ok" \notin Refusals
  BY DEF Refusals
<1>5. ASSUME call'[c].outcome = "ok",
             \/ transactions[c] # "none"
             \/ moves[c] = {} /\ \E d \in Calls : /\ transactions[d] # "none"
                                                  /\ req[d].key = req[c].key
      PROVE  S!Acknowledge(c)
  BY <1>1, <1>2, <1>3, <1>5 DEF S!Acknowledge, S!Pending, Verdicts, Recorded
<1>6. ASSUME call'[c].outcome \in Refusals, moves[c] = {}, transactions[c] = "none"
      PROVE  S!Refuse(c)
  BY <1>1, <1>2, <1>3, <1>4, <1>6 DEF S!Refuse, S!Pending, Verdicts, Recorded
<1>7. ASSUME call'[c].outcome \notin Refusals \cup {"ok"} PROVE S!Fail({c})
  <2>1. Verdicts' = [d \in Calls |-> IF d \in {c} THEN "failed" ELSE Verdicts[d]]
    BY <1>1, <1>2, <1>7 DEF Verdicts
  <2> QED BY <1>1, <1>3, <2>1 DEF S!Fail, S!Pending, Verdicts, Recorded
<1> QED BY <1>5, <1>6, <1>7

-----------------------------------------------------------------------------
(* One lemma per kind of step.                                             *)

LEMMA QuietImplements ==
    ASSUME SagaInv, NEW c \in Calls,
           \/ Submit(c) \/ Open(c) \/ ReadFrom(c) \/ ReadTo(c) \/ Insert(c) \/ Finalize(c)
    PROVE  Stutter
<1>1. TypeOK
  BY DEF SagaInv
<1>2. CASE Submit(c) \/ Open(c) \/ Insert(c)
  <2>1. /\ call'[c].pc \in {"authorize", "readFrom", "debit"}
        /\ \A d \in Calls \ {c} : call'[d] = call[d]
    BY <1>1, <1>2, SubmitEffect, GotoEffect DEF Submit, Open, Insert
  <2> QED BY <1>1, <1>2, <2>1, StutterSteps DEF Submit, Open, Insert, history, Ended
<1>3. CASE ReadFrom(c)
  <2>1. call'[c].pc = "readTo" /\ \A d \in Calls \ {c} : call'[d] = call[d]
    BY <1>1, <1>3 DEF ReadFrom, TypeOK, CallState
  <2> QED BY <1>3, <2>1, StutterSteps DEF ReadFrom, history, Ended
<1>4. CASE ReadTo(c)
  BY <1>1, <1>4, GotoEffect, ThrowEffect, StutterSteps DEF ReadTo, history, Ended
<1>5. CASE Finalize(c)
  <2>1. \A d \in Calls : transactions'[d] = "none" <=> transactions[d] = "none"
    BY <1>1, <1>5 DEF Finalize, updateStatus, TypeOK
  <2> QED BY <1>1, <1>5, <2>1, GotoEffect, StutterSteps DEF Finalize, history, Ended
<1> QED BY <1>2, <1>3, <1>4, <1>5

LEMMA AuthorizeImplements ==
    ASSUME SagaInv, NEW c \in Calls, Authorize(c)
    PROVE  Stutter \/ S!Refuse(c)
<1>1. /\ TypeOK /\ call[c].pc = "authorize" /\ moves[c] = {} /\ transactions[c] = "none"
      /\ UNCHANGED <<req, moves, gone, transactions>>
  BY DEF SagaInv, StageInv, Before, Authorize, history
<1>2. CASE Goto(c, "lookup")
  BY <1>1, <1>2, GotoEffect, StutterSteps DEF Ended
<1>3. CASE Finish(c, "400 account", NoCall) \/ Finish(c, "unauthorized", NoCall)
  <2>1. /\ call'[c].pc = "done" /\ call'[c].outcome \in Refusals
        /\ \A d \in Calls \ {c} : call'[d] = call[d]
    BY <1>1, <1>3, FinishEffect DEF Refusals
  <2> QED BY <1>1, <2>1, ReturnSteps DEF Ended
<1> QED BY <1>2, <1>3 DEF Authorize

LEMMA LookupImplements ==
    ASSUME SagaInv, NEW c \in Calls, Lookup(c)
    PROVE  Stutter \/ S!Refuse(c) \/ S!Acknowledge(c)
<1>1. /\ TypeOK /\ call[c].pc = "lookup" /\ moves[c] = {} /\ transactions[c] = "none"
      /\ UNCHANGED <<req, moves, gone, transactions>>
  BY DEF SagaInv, StageInv, Before, Lookup, history
<1>2. CASE Goto(c, "open")
  BY <1>1, <1>2, GotoEffect, StutterSteps DEF Ended
<1>3. CASE Finish(c, "invalid", NoCall)
  <2>1. /\ call'[c].pc = "done" /\ call'[c].outcome \in Refusals
        /\ \A d \in Calls \ {c} : call'[d] = call[d]
    BY <1>1, <1>3, FinishEffect DEF Refusals
  <2> QED BY <1>1, <2>1, ReturnSteps DEF Ended
<1>4. CASE Hit(c) /\ Finish(c, "ok", cache[req[c].key])
  <2>1. /\ call'[c].pc = "done" /\ call'[c].outcome = "ok"
        /\ \A d \in Calls \ {c} : call'[d] = call[d]
    BY <1>1, <1>4, FinishEffect
  <2>2. \E d \in Calls : transactions[d] # "none" /\ req[d].key = req[c].key
    BY <1>1, <1>4, RequestType DEF Hit, SagaInv, CacheInv, TypeOK
  <2> QED BY <1>1, <2>1, <2>2, ReturnSteps DEF Ended
<1> QED BY <1>2, <1>3, <1>4 DEF Lookup

LEMMA MovesImplement ==
    ASSUME SagaInv, NEW c \in Calls, Debit(c) \/ Credit(c)
    PROVE  Stutter \/ S!TakeDebit(c) \/ S!GiveCredit(c)
<1>1. /\ TypeOK /\ transactions[c] = "none" /\ moves \in [Calls -> SUBSET {"debit", "credit"}]
      /\ call[c].pc = "debit" => moves[c] = {}
      /\ call[c].pc = "credit" => "debit" \in moves[c] \/ req[c].from \in gone
  BY DEF SagaInv, StageInv, Before, Debit, Credit, TypeOK
<1>2. /\ UNCHANGED <<req, transactions, gone>>
      /\ \E next \in Running : Answered(c, next)
      /\ call[c].pc \notin Ended
  BY DEF Debit, Credit, Move, Running, Ended
<1>3. call'[c].pc \notin Ended /\ \A d \in Calls \ {c} : call'[d] = call[d]
  BY <1>1, <1>2, AnsweredEffect DEF Running, Ended
<1>4. Verdicts' = Verdicts /\ Verdicts[c] = "pending"
  BY <1>2, <1>3, VerdictFrame, VerdictPending DEF Verdicts
<1>5. CASE moves' = moves
  BY <1>2, <1>3, <1>5, StutterSteps
<1>6. CASE Debit(c) /\ moves' # moves
  <2>1. moves' = [moves EXCEPT ![c] = {"debit"}]
    BY <1>1, <1>6 DEF Debit, Move
  <2> QED BY <1>1, <1>2, <1>4, <1>6, <2>1
          DEF S!TakeDebit, S!Pending, Debit, Verdicts, Recorded
<1>7. CASE Credit(c) /\ moves' # moves
  <2>1. moves' = [moves EXCEPT ![c] = @ \cup {"credit"}] /\ "credit" \notin moves[c]
    BY <1>1, <1>7 DEF Credit, Move
  <2> QED BY <1>1, <1>2, <1>4, <1>7, <2>1
          DEF S!GiveCredit, S!Pending, S!Debited, Credit, Verdicts, Recorded
<1> QED BY <1>5, <1>6, <1>7

LEMMA CommitImplements ==
    ASSUME SagaInv, NEW c \in Calls, Commit(c)
    PROVE  S!Record(c)
<1>1. /\ TypeOK /\ Settled(c) /\ sessions[c] = "PROCESSING" /\ call[c].pc \notin Ended
      /\ UNCHANGED <<req, moves, gone>>
  BY DEF SagaInv, StageInv, Commit, history, Ended
<1>2. call'[c].pc \notin Ended /\ \A d \in Calls \ {c} : call'[d] = call[d]
  BY <1>1, AnsweredEffect DEF Commit, Ended
<1>3. Verdicts' = Verdicts /\ Verdicts[c] = "pending"
  BY <1>1, <1>2, VerdictFrame, VerdictPending DEF Verdicts
<1>4. Recorded' = Recorded \cup {c}
  BY <1>1 DEF Commit, TypeOK, Recorded
<1> QED BY <1>1, <1>3, <1>4
        DEF S!Record, S!Pending, S!Debited, S!Credited, Settled, Verdicts, Recorded

LEMMA EndingsImplement ==
    ASSUME SagaInv, Misreadings = {}, NEW c \in Calls, Store(c) \/ Abort(c) \/ Reject(c)
    PROVE  Stutter \/ S!Acknowledge(c) \/ S!Refuse(c) \/ S!Fail({c})
<1>1. /\ TypeOK /\ AnswerInv(c) /\ StageInv(c)
      /\ call[c].pc \notin Ended
      /\ UNCHANGED <<req, moves, gone, transactions>>
  BY DEF SagaInv, Store, Abort, Reject, history, InFlight, Running, Ended
<1>2. CASE Store(c) /\ respond(c)
  <2>1. /\ call'[c].pc = "done" /\ call'[c].outcome = "ok"
        /\ \A d \in Calls \ {c} : call'[d] = call[d]
    BY <1>1, <1>2, FinishEffect DEF respond
  <2>2. transactions[c] # "none"
    BY <1>1, <1>2 DEF Store, StageInv
  <2> QED BY <1>1, <2>1, <2>2, ReturnSteps
<1>3. CASE \E outcome : Throw(c, outcome)
  <2>1. call'[c].pc = "abort" /\ \A d \in Calls \ {c} : call'[d] = call[d]
    BY <1>1, <1>3, ThrowEffect
  <2> QED BY <1>1, <2>1, StutterSteps DEF Ended
<1>4. CASE Abort(c)
  <2>1. /\ call'[c].pc = "done" /\ call'[c].outcome = call[c].outcome
        /\ \A d \in Calls \ {c} : call'[d] = call[d]
    BY <1>1, <1>4, GotoEffect DEF Abort
  <2>2. call[c].outcome # "ok"
    BY <1>1, <1>4 DEF Abort, StageInv
  <2>3. CASE call[c].outcome \in Refusals
    BY <1>1, <2>1, <2>3, ReturnSteps DEF AnswerInv
  <2>4. CASE call[c].outcome \notin Refusals
    BY <1>1, <2>1, <2>2, <2>4, ReturnSteps
  <2> QED BY <2>3, <2>4
<1>5. CASE \E outcome \in AnswersToFailure(c) : Finish(c, outcome, NoCall)
  <2>1. /\ call'[c].pc = "done" /\ call'[c].outcome \in AnswersToFailure(c)
        /\ \A d \in Calls \ {c} : call'[d] = call[d]
    BY <1>1, <1>5, FinishEffect
  <2>2. call'[c].outcome \notin Refusals \cup {"ok"}
    BY <2>1, FailureAnswers
  <2> QED BY <1>1, <2>1, <2>2, ReturnSteps
<1> QED BY <1>2, <1>3, <1>4, <1>5 DEF Store, Reject

LEMMA CrashImplements ==
    ASSUME SagaInv, Crash
    PROVE  S!Fail({c \in Calls : InFlight(c)})
<1> DEFINE some == {c \in Calls : InFlight(c)}
<1>1. TypeOK /\ UNCHANGED <<req, moves, gone, transactions>>
  BY DEF SagaInv, Crash, history
<1>2. ASSUME NEW c \in Calls
      PROVE  /\ c \in some => verdictOf(c) = "pending" /\ verdictOf(c)' = "failed"
             /\ c \notin some => verdictOf(c)' = verdictOf(c)
  <2>1. /\ c \in some => call'[c].pc = "lost"
        /\ c \notin some => call'[c] = call[c]
    BY <1>1 DEF Crash, TypeOK, CallState
  <2>2. c \in some => call[c].pc \notin Ended
    BY DEF InFlight, Running, Ended
  <2> QED BY <2>1, <2>2 DEF verdictOf, Ended
<1>3. Verdicts' = [c \in Calls |-> IF c \in some THEN "failed" ELSE Verdicts[c]]
  BY <1>2 DEF Verdicts
<1>4. some # {}
  BY DEF Crash
<1> QED BY <1>1, <1>2, <1>3, <1>4 DEF S!Fail, S!Pending, Verdicts, Recorded

LEMMA OtherStepsImplement ==
    ASSUME (\E k \in Keys : Evict(k)) \/ Administration \/ UNCHANGED vars
    PROVE  Stutter \/ \E a \in Accounts : S!Remove(a)
<1>1. UNCHANGED <<req, call, transactions, moves>>
  BY DEF Evict, Administration, Freeze, Unfreeze, Delete, Create, history, vars
<1>2. Verdicts' = Verdicts /\ Recorded' = Recorded
  BY <1>1 DEF Verdicts, verdictOf, Recorded
<1>3. gone' = gone \/ \E a \in Accounts : gone' = gone \cup {a}
  BY DEF Evict, Administration, Freeze, Unfreeze, Delete, Create, history, vars
<1> QED BY <1>1, <1>2, <1>3 DEF Stutter, S!sagaVars, S!Remove, Verdicts, Recorded

LEMMA StepImplements ==
    ASSUME SagaInv, Misreadings = {}, [Next]_vars
    PROVE  [S!SagaNext]_S!sagaVars
<1>1. ASSUME NEW c \in Calls, Submit(c) \/ Serve(c) \/ Reject(c)
      PROVE  \/ Stutter \/ S!TakeDebit(c) \/ S!GiveCredit(c) \/ S!Record(c)
             \/ S!Acknowledge(c) \/ S!Refuse(c) \/ S!Fail({c})
  BY <1>1, QuietImplements, AuthorizeImplements, LookupImplements, MovesImplement,
     CommitImplements, EndingsImplement DEF Serve
<1>2. \/ \E c \in Calls : Submit(c) \/ Serve(c) \/ Reject(c)
      \/ Crash
      \/ (\E k \in Keys : Evict(k)) \/ Administration \/ UNCHANGED vars
  BY DEF Next, Working, Quiet
<1>3. \/ Stutter
      \/ \E c \in Calls : \/ S!TakeDebit(c) \/ S!GiveCredit(c) \/ S!Record(c)
                          \/ S!Acknowledge(c) \/ S!Refuse(c)
      \/ \E some \in SUBSET Calls : S!Fail(some)
      \/ \E a \in Accounts : S!Remove(a)
  BY <1>1, <1>2, CrashImplements, OtherStepsImplement
<1> QED BY <1>3 DEF S!SagaNext, Stutter

\* The mutation implements the saga, if no message of the driver's is taken for
\* a refusal: it debits, credits, records and only then acknowledges, and refuses
\* only what it has not begun.
THEOREM TransferImplementsSaga == Misreadings = {} => (Spec => ImplementsSaga)
<1> SUFFICES ASSUME Misreadings = {} PROVE Spec => ImplementsSaga
  OBVIOUS
<1>1. SagaInv /\ [Next]_vars => [S!SagaNext]_S!sagaVars
  BY StepImplements
<1> QED BY <1>1, SagaInitial, SagaInvariant, PTL DEF Spec, ImplementsSaga, S!SagaSpec

=============================================================================
