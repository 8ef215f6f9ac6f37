------------------------------ MODULE Transfer ------------------------------
(***************************************************************************)
(* The transfer mutation: the GraphQL resolver (authorization and the      *)
(* mapping of errors to answers) around TransactionService.transfer, over  *)
(* the accounts, the transactions collection and the idempotency cache.    *)
(*                                                                         *)
(* Every await of the handler is a point where other calls, the operators  *)
(* of accounts, the cache's eviction or a crash may come in between, so    *)
(* every awaited operation is a step of its own.  A call that fails in the *)
(* middle goes to "abort", the handler's catch and finally blocks.         *)
(*                                                                         *)
(* Amounts are integers in minor units.  A GraphQL Float is finite, so the *)
(* isFinite check of validateAmount cannot fire and is left out.           *)
(***************************************************************************)
EXTENDS AccountRepository, FiniteSets, Sums

CONSTANTS
    Calls,             \* the transfer calls clients make; a call names its transactionId
    NoCall,
    Keys,              \* idempotency keys
    NoKey,             \* a request without one
    NoUser,            \* a context without an authenticated user
    Requests,          \* what clients may ask for
    InitialAccounts,   \* the possible contents of the collection at the start
    NewAccounts,       \* the documents that create may be given
    MinAmount,
    MaxAmount,
    Misreadings,       \* the refusals that the message of a failed operation may be taken for
    Overlap,           \* which calls may be in flight together (see MayStart)
    Budget             \* bounds on faults, cache evictions and account administration

Request == [from : Accounts, to : Accounts, amount : Int,
            key : Keys \cup {NoKey}, user : Users \cup {NoUser}]

ASSUME AccountsAssumption == IsFiniteSet(Accounts)
ASSUME CallsAssumption == IsFiniteSet(Calls)
ASSUME NullsAssumption == NoCall \notin Calls /\ NoKey \notin Keys /\ NoUser \notin Users
ASSUME RequestsAssumption == Requests \subseteq Request
ASSUME InitialAccountsAssumption ==
    \A docs \in InitialAccounts :
        /\ docs \in [Accounts -> AccountDoc \cup {NoAccount}]
        /\ \A a \in Accounts : docs[a] # NoAccount => docs[a].balance >= 0
ASSUME NewAccountsAssumption == NewAccounts \subseteq AccountDoc
ASSUME AmountsAssumption == MinAmount \in Nat /\ MaxAmount \in Nat
ASSUME MisreadingsAssumption ==
    Misreadings \subseteq {"400 funds", "423 frozen", "409 duplicate", "400 account"}
ASSUME OverlapAssumption ==
    Overlap \in {"free", "distinct payers", "none"}
ASSUME BudgetAssumption == Budget \in [{"fault", "evict", "admin"} -> Nat]

VARIABLES
    req,            \* call -> the request it carries
    call,           \* call -> where its handler is and what it holds
    sessions,       \* call -> the status of the record staged in its session, or "none"
    transactions,   \* call -> the status of its committed record, or "none"
    cache,          \* key -> the call whose response is cached, or NoCall
    spent,          \* how much of the Budget is used
    moves,          \* history: call -> the legs that changed a balance
    gone,           \* history: the accounts deleted at some time
    endowed,        \* history: account -> money that came and went with its document
    barred          \* history: calls made on an account frozen ever since

history == <<moves, gone, endowed, barred>>
vars == <<accounts, req, call, sessions, transactions, cache, spent,
          moves, gone, endowed, barred>>

Running == {"authorize", "lookup", "open", "readFrom", "readTo", "insert", "debit",
            "credit", "finalize", "commit", "store", "abort"}
Ended == {"done", "lost"}

\* The answers that tell the client the transfer was turned down.
Refusals == {"400 funds", "423 frozen", "409 duplicate", "400 account", "unauthorized",
             "invalid"}
Outcomes == {"none", "ok", "error"} \cup Refusals

CallState == [pc : {"idle"} \cup Running \cup Ended,
              seen : AccountDoc \cup {NoAccount},   \* fromAccount as the service read it
              outcome : Outcomes,
              answer : Calls \cup {NoCall},         \* the call whose response was returned
              before : SUBSET Calls]                \* history: told of when it was asked for

\* Type, parties and amount of a record follow from the request of its call,
\* so only its status is kept; it never has the other statuses.
RecordStatus == {"none", "PROCESSING", "SUCCESS"}

TypeOK ==
    /\ AccountsTypeOK
    /\ req \in [Calls -> Requests]
    /\ call \in [Calls -> CallState]
    /\ sessions \in [Calls -> RecordStatus]
    /\ transactions \in [Calls -> RecordStatus]
    /\ cache \in [Keys -> Calls \cup {NoCall}]
    /\ spent \in [{"fault", "evict", "admin"} -> Nat]
    /\ moves \in [Calls -> SUBSET {"debit", "credit"}]
    /\ gone \subseteq Accounts
    /\ endowed \in [Accounts -> Int]
    /\ barred \subseteq Calls

BalanceOf(a) == IF Exists(a) THEN accounts[a].balance ELSE 0

Init ==
    /\ accounts \in InitialAccounts
    /\ req \in [Calls -> Requests]
    /\ call = [c \in Calls |-> [pc |-> "idle", seen |-> NoAccount,
                                outcome |-> "none", answer |-> NoCall, before |-> {}]]
    /\ sessions = [c \in Calls |-> "none"]
    /\ transactions = [c \in Calls |-> "none"]
    /\ cache = [k \in Keys |-> NoCall]
    /\ spent = [kind \in {"fault", "evict", "admin"} |-> 0]
    /\ moves = [c \in Calls |-> {}]
    /\ gone = {}
    /\ endowed = [a \in Accounts |-> BalanceOf(a)]
    /\ barred = {}

-----------------------------------------------------------------------------
(* How a call goes on.                                                     *)

InFlight(c) == call[c].pc \in Running

Goto(c, next) == call' = [call EXCEPT ![c].pc = next]

\* The handler is over before, or without, its catch block.
Finish(c, outcome, answer) ==
    call' = [call EXCEPT ![c] =
                [@ EXCEPT !.pc = "done", !.outcome = outcome, !.answer = answer]]

\* An exception inside the try block.
Throw(c, outcome) ==
    call' = [call EXCEPT ![c] = [@ EXCEPT !.pc = "abort", !.outcome = outcome]]

Spend(kind) ==
    /\ spent[kind] < Budget[kind]
    /\ spent' = [spent EXCEPT ![kind] = @ + 1]

\* Mutant: abortTransaction is not called once the commit has been.
AnswersToAnyFailure(c) ==
    {"error"} \cup (IF call[c].pc = "insert" THEN {} ELSE Misreadings)

\* What the client is told when the operation that c awaits fails.  The resolver
\* goes by words in the message and takes any it does not know for an error.
\* The message is the driver's, except that create throws one of its own, and
\* that once commitTransaction has been called abortTransaction throws another.
AnswersToFailure(c) ==
    {"error"} \cup (IF call[c].pc \in {"insert", "commit", "store"} THEN {} ELSE Misreadings)

\* The awaited operation took effect: its answer arrives, or is lost on the
\* way and the driver throws.
Answered(c, next) ==
    \/ Goto(c, next) /\ UNCHANGED spent
    \/ Spend("fault") /\ \E outcome \in AnswersToFailure(c) : Throw(c, outcome)

\* The assumption on the clients that a run makes.
MayStart(c) ==
    \A d \in Calls :
        InFlight(d) =>
            \/ Overlap = "free"
            \/ Overlap = "distinct payers" /\ req[d].from # req[c].from

\* The transfers that clients were told of, by the response to them or to a
\* request with the same key.
Told == {d \in Calls : \E c \in Calls : call[c].outcome = "ok" /\ call[c].answer = d}

Submit(c) ==
    /\ call[c].pc = "idle"
    /\ MayStart(c)
    /\ call' = [call EXCEPT ![c] = [@ EXCEPT !.pc = "authorize", !.before = Told]]
    /\ barred' = IF IsFrozen(req[c].from) THEN barred \cup {c} ELSE barred
    /\ UNCHANGED <<accounts, req, sessions, transactions, cache, spent, moves, gone, endowed>>

-----------------------------------------------------------------------------
(* The resolver and the part of the service before its try block.          *)

Authorize(c) ==
    LET from == findByAccountNo(req[c].from) IN
    /\ call[c].pc = "authorize"
    /\ CASE from = NoAccount -> Finish(c, "400 account", NoCall)
         [] from # NoAccount /\ req[c].user \notin {NoUser, from.userId} ->
                Finish(c, "unauthorized", NoCall)
         [] OTHER -> Goto(c, "lookup")
    /\ UNCHANGED <<accounts, req, sessions, transactions, cache, spent, history>>

validateAmount(amount) == amount >= MinAmount /\ amount <= MaxAmount

Hit(c) == req[c].key # NoKey /\ cache[req[c].key] # NoCall

\* A hit returns the cached response, whatever request it was made for.
Lookup(c) ==
    /\ call[c].pc = "lookup"
    /\ \/ Hit(c) /\ Finish(c, "ok", cache[req[c].key])
       \/ /\ ~Hit(c)
          /\ IF validateAmount(req[c].amount) /\ req[c].from # req[c].to
                THEN Goto(c, "open")
                ELSE Finish(c, "invalid", NoCall)
    /\ UNCHANGED <<accounts, req, sessions, transactions, cache, spent, history>>

\* createSession and startTransaction: nothing reaches the server yet.
Open(c) ==
    /\ call[c].pc = "open"
    /\ Goto(c, "readFrom")
    /\ UNCHANGED <<accounts, req, sessions, transactions, cache, spent, history>>

-----------------------------------------------------------------------------
(* The try block.                                                          *)

ReadFrom(c) ==
    /\ call[c].pc = "readFrom"
    /\ call' = [call EXCEPT ![c] =
                   [@ EXCEPT !.pc = "readTo", !.seen = findByAccountNo(req[c].from)]]
    /\ UNCHANGED <<accounts, req, sessions, transactions, cache, spent, history>>

\* Mutant: the status of the wrong account is checked.
RefusalByPayee(from, to, amount) ==
    CASE from = NoAccount \/ to = NoAccount -> "400 account"
      [] OTHER -> IF to.status = "FROZEN" THEN "423 frozen"
                  ELSE IF from.balance < amount THEN "400 funds" ELSE "none"

\* Mutant: the balance is compared with the amount the wrong way round.
RefusalOfTheRich(from, to, amount) ==
    CASE from = NoAccount \/ to = NoAccount -> "400 account"
      [] OTHER -> IF from.status = "FROZEN" THEN "423 frozen"
                  ELSE IF from.balance > amount THEN "400 funds" ELSE "none"

\* Mutant: a missing payee goes unnoticed.
RefusalOfPayer(from, to, amount) ==
    CASE from = NoAccount -> "400 account"
      [] OTHER -> IF from.status = "FROZEN" THEN "423 frozen"
                  ELSE IF from.balance < amount THEN "400 funds" ELSE "none"

\* The checks on the documents read, in the order of the code.  Of the two
\* accounts only the payer's status matters, and only FROZEN.
Refusal(from, to, amount) ==
    CASE from = NoAccount \/ to = NoAccount -> "400 account"
      [] OTHER -> IF from.status = "FROZEN" THEN "423 frozen"
                  ELSE IF from.balance < amount THEN "400 funds" ELSE "none"

ReadTo(c) ==
    LET refusal == Refusal(call[c].seen, findByAccountNo(req[c].to), req[c].amount) IN
    /\ call[c].pc = "readTo"
    /\ IF refusal = "none" THEN Goto(c, "insert") ELSE Throw(c, refusal)
    /\ UNCHANGED <<accounts, req, sessions, transactions, cache, spent, history>>

\* Mutant: the record is written outside the session, so it stays after an abort.
InsertOutsideSession(c) ==
    /\ call[c].pc = "insert"
    /\ Goto(c, "debit")
    /\ sessions' = [sessions EXCEPT ![c] = "PROCESSING"]
    /\ transactions' = [transactions EXCEPT ![c] = "PROCESSING"]
    /\ UNCHANGED <<accounts, req, cache, spent, history>>

Insert(c) ==
    /\ call[c].pc = "insert"
    /\ Goto(c, "debit")
    /\ sessions' = [sessions EXCEPT ![c] = "PROCESSING"]
    /\ UNCHANGED <<accounts, req, transactions, cache, spent, history>>

\* One of the two calls of updateBalance.  The session it is given is not a
\* parameter of updateBalance: the balance changes at once, outside of it.
Move(c, leg, a, amount, next) ==
    /\ updateBalance(a, amount)
    /\ moves' = [moves EXCEPT ![c] = IF Exists(a) THEN @ \cup {leg} ELSE @]
    /\ Answered(c, next)
    /\ UNCHANGED <<req, sessions, transactions, cache, gone, endowed, barred>>

\* Mutant: the payee is credited first.
DebitSecond(c) ==
    \/ call[c].pc = "debit" /\ Move(c, "credit", req[c].to, req[c].amount, "credit")
    \/ call[c].pc = "credit" /\ Move(c, "debit", req[c].from, -req[c].amount, "finalize")

Debit(c) ==
    call[c].pc = "debit" /\ Move(c, "debit", req[c].from, -req[c].amount, "credit")

\* Mutant: the amount goes back to the payer.
CreditPayer(c) ==
    call[c].pc = "credit" /\ Move(c, "credit", req[c].from, req[c].amount, "finalize")

Credit(c) ==
    call[c].pc = "credit" /\ Move(c, "credit", req[c].to, req[c].amount, "finalize")

\* The session is taken for updateStatus's error message: the update runs
\* outside of it and matches only a record that is already committed.
updateStatus(c, status) ==
    transactions' = [transactions EXCEPT ![c] = IF @ = "none" THEN "none" ELSE status]

\* Mutant: the response is cached before the record is committed.
FinalizeAndStore(c) ==
    /\ call[c].pc = "finalize"
    /\ Goto(c, "commit")
    /\ updateStatus(c, "SUCCESS")
    /\ cache' = IF req[c].key = NoKey THEN cache ELSE [cache EXCEPT ![req[c].key] = c]
    /\ UNCHANGED <<accounts, req, sessions, spent, history>>

Finalize(c) ==
    /\ call[c].pc = "finalize"
    /\ Goto(c, "commit")
    /\ updateStatus(c, "SUCCESS")
    /\ UNCHANGED <<accounts, req, sessions, cache, spent, history>>

Commit(c) ==
    /\ call[c].pc = "commit"
    /\ transactions' = [transactions EXCEPT ![c] = sessions[c]]
    /\ sessions' = [sessions EXCEPT ![c] = "none"]
    /\ Answered(c, "store")
    /\ UNCHANGED <<accounts, req, cache, history>>

respond(c) == Finish(c, "ok", c) /\ UNCHANGED spent

\* Mutant: the amount is not taken off.
newBalanceUndebited(c) == call[c].seen.balance

\* The new_balance of c's response.
newBalance(c) == call[c].seen.balance - req[c].amount

\* Mutant: the response is not cached.
StoreNothing(c) ==
    /\ call[c].pc = "store"
    /\ respond(c)
    /\ UNCHANGED <<accounts, req, sessions, transactions, cache, history>>

\* cache.set and the return; without a key there is no call of the cache.
Store(c) ==
    /\ call[c].pc = "store"
    /\ IF req[c].key = NoKey
          THEN respond(c) /\ UNCHANGED cache
          ELSE /\ cache' = [cache EXCEPT ![req[c].key] = c]
               /\ \/ respond(c)
                  \/ Spend("fault") /\ \E outcome \in AnswersToFailure(c) : Throw(c, outcome)
    /\ UNCHANGED <<accounts, req, sessions, transactions, history>>

\* Mutant: abortTransaction waits for a session that is still in a transaction.
AbortOpenOnly(c) ==
    /\ call[c].pc = "abort"
    /\ transactions[c] = "none"
    /\ Goto(c, "done")
    /\ sessions' = [sessions EXCEPT ![c] = "none"]
    /\ UNCHANGED <<accounts, req, transactions, cache, spent, history>>

\* The catch and finally blocks.  The driver hides the errors of the abort
\* command, and refuses to abort after a call of commitTransaction with an error
\* of its own, which replaces the one rethrown (see AnswersToFailure).
Abort(c) ==
    /\ call[c].pc = "abort"
    /\ Goto(c, "done")
    /\ sessions' = [sessions EXCEPT ![c] = "none"]
    /\ UNCHANGED <<accounts, req, transactions, cache, spent, history>>

-----------------------------------------------------------------------------
(* What can go wrong around a call.                                        *)

\* Mutant: a failed operation is answered like an unknown account.
RejectAsNotFound(c) ==
    /\ InFlight(c) /\ call[c].pc # "abort"
    /\ call[c].pc \in {"lookup", "store"} => req[c].key # NoKey
    /\ Spend("fault")
    /\ IF call[c].pc \in {"authorize", "lookup", "open"}
          THEN Finish(c, "400 account", NoCall)
          ELSE Throw(c, "400 account")
    /\ UNCHANGED <<accounts, req, sessions, transactions, cache, history>>

\* The awaited operation fails without effect.
Reject(c) ==
    /\ InFlight(c) /\ call[c].pc # "abort"
    /\ call[c].pc \in {"lookup", "store"} => req[c].key # NoKey
    /\ Spend("fault")
    /\ \E outcome \in AnswersToFailure(c) :
          IF call[c].pc \in {"authorize", "lookup", "open"}
             THEN Finish(c, outcome, NoCall)
             ELSE Throw(c, outcome)
    /\ UNCHANGED <<accounts, req, sessions, transactions, cache, history>>

\* The process dies: the calls in flight are never answered and the server
\* drops their open transactions.  It is up again for the next Submit.
Crash ==
    /\ Spend("fault")
    /\ \E c \in Calls : InFlight(c)
    /\ call' = [c \in Calls |-> IF InFlight(c) THEN [call[c] EXCEPT !.pc = "lost"]
                                               ELSE call[c]]
    /\ sessions' = [c \in Calls |-> "none"]
    /\ UNCHANGED <<accounts, req, transactions, cache, history>>

\* A key leaves the cache: its 24 hours are over, or Redis lost it.
Evict(k) ==
    /\ cache[k] # NoCall
    /\ Spend("evict")
    /\ cache' = [cache EXCEPT ![k] = NoCall]
    /\ UNCHANGED <<accounts, req, call, sessions, transactions, history>>

-----------------------------------------------------------------------------
(* The administration of accounts.                                         *)

Release(a) == barred' = {c \in barred : req[c].from # a}

Freeze(a) ==
    /\ freeze(a)
    /\ Spend("admin")
    /\ UNCHANGED <<req, call, sessions, transactions, cache, history>>

Unfreeze(a) ==
    /\ unfreeze(a)
    /\ Spend("admin")
    /\ Release(a)
    /\ UNCHANGED <<req, call, sessions, transactions, cache, moves, gone, endowed>>

Create(a, doc) ==
    /\ create(a, doc)
    /\ Spend("admin")
    /\ endowed' = [endowed EXCEPT ![a] = @ + doc.balance]
    /\ UNCHANGED <<req, call, sessions, transactions, cache, moves, gone, barred>>

Delete(a) ==
    /\ delete(a)
    /\ Spend("admin")
    /\ gone' = gone \cup {a}
    /\ endowed' = [endowed EXCEPT ![a] = @ - BalanceOf(a)]
    /\ Release(a)
    /\ UNCHANGED <<req, call, sessions, transactions, cache, moves>>

-----------------------------------------------------------------------------

\* The steps of the handler itself, which the event loop keeps taking.
Serve(c) ==
    \/ Authorize(c) \/ Lookup(c) \/ Open(c)
    \/ ReadFrom(c) \/ ReadTo(c) \/ Insert(c) \/ Debit(c) \/ Credit(c)
    \/ Finalize(c) \/ Commit(c) \/ Store(c) \/ Abort(c)

Administration ==
    \E a \in Accounts : \/ Freeze(a) \/ Unfreeze(a) \/ Delete(a)
                        \/ \E doc \in NewAccounts : Create(a, doc)

\* Nothing is left to do: every call has been made and has ended.
Quiet == (\A c \in Calls : call[c].pc \in Ended) /\ UNCHANGED vars

\* Everything that can happen while the process is up.
Working ==
    \/ \E c \in Calls : Submit(c) \/ Serve(c) \/ Reject(c)
    \/ \E k \in Keys : Evict(k)
    \/ Administration

Next == Working \/ Crash \/ Quiet

Spec == Init /\ [][Next]_vars

\* MongoDB's driver gives up on a server it cannot select after its default time
\* limit (app.module.ts sets none) and learns of a broken connection from the
\* operating system; Redis is assumed to answer or refuse some day.  So no await
\* lasts for ever.  Clients, administrators, faults and evictions promise nothing.
FairSpec == Spec /\ \A c \in Calls : WF_vars(Serve(c))

-----------------------------------------------------------------------------
(* Properties.                                                             *)

\* A leg is settled when it changed its account, or when the account has been
\* deleted at some time, in which case updateBalance may have matched nothing.
Settled(c) ==
    /\ "debit" \in moves[c] \/ req[c].from \in gone
    /\ "credit" \in moves[c] \/ req[c].to \in gone

PaidFrom(a) == {c \in Calls : req[c].from = a /\ "debit" \in moves[c]}
PaidTo(a) == {c \in Calls : req[c].to = a /\ "credit" \in moves[c]}

AmountOf == [c \in Calls |-> req[c].amount]

\* Every unit on every account is accounted for: what its documents brought,
\* minus what transfers took, plus what transfers gave, whatever fails and
\* however the calls interleave ($inc loses no update).
MoneyAccounted ==
    \A a \in Accounts :
        BalanceOf(a) = endowed[a] - SumOf(AmountOf, PaidFrom(a)) + SumOf(AmountOf, PaidTo(a))

\* Between transfers no money is missing or left over, although nothing makes
\* the two updates one: as long as nothing failed, and no account of a transfer
\* was deleted, all accounts together hold what their documents brought.
MoneyConserved ==
    /\ spent["fault"] = 0
    /\ \A c \in Calls : ~InFlight(c)
    /\ \A c \in Calls : moves[c] # {} => {req[c].from, req[c].to} \cap gone = {}
    => SumOf([a \in Accounts |-> BalanceOf(a)], Accounts) = SumOf(endowed, Accounts)

\* A client that is told its transfer was refused may rely on it, if no driver's
\* message is taken for a refusal: no balance was touched and there is no record,
\* staged or committed.  Only "error" leaves the client in doubt.
RefusalMovesNothing ==
    \A c \in Calls :
        call[c].outcome \in Refusals =>
            moves[c] = {} /\ sessions[c] = "none" /\ transactions[c] = "none"

\* Even if messages are taken for refusals, a refused transfer has no record,
\* and none can appear any more: an error that comes when the record may already
\* be committed is replaced by that of the abort, which is no refusal.
RefusalLeavesNoRecord ==
    \A c \in Calls :
        call[c].pc \in Ended /\ call[c].outcome \in Refusals =>
            sessions[c] = "none" /\ transactions[c] = "none"

\* A committed record means that both balances have been changed, although
\* they are changed outside of the session the record is written in.
RecordMeansMoved == \A c \in Calls : transactions[c] # "none" => Settled(c)

\* A client that is told its transfer succeeded was given the response of a
\* settled and recorded transfer: its own, or one with its idempotency key.
AckMeansSettled ==
    \A c \in Calls :
        call[c].outcome = "ok" =>
            LET d == call[c].answer IN
            /\ d \in Calls
            /\ transactions[d] # "none"
            /\ Settled(d)
            /\ d # c => moves[c] = {} /\ req[c].key # NoKey /\ req[d].key = req[c].key

\* An account that is frozen when a transfer from it is asked for, and stays
\* frozen, is not debited by that transfer.
BarredNeverDebited == \A c \in barred : "debit" \notin moves[c]

\* How often the payers were charged for requests with one key.
Charges(k) == Cardinality({c \in Calls : req[c].key = k /\ "debit" \in moves[c]})

\* If requests never overlap, a key is charged once, and once more for each
\* fault or eviction in between.
DuplicatesNeedFaults ==
    \A k \in Keys : Charges(k) <= 1 + spent["fault"] + spent["evict"]

\* If no two transfers from one account overlap, none is overdrawn.  (Between
\* the check and the debit an account may be deleted and created anew with less
\* money.)
NoOverdraft == \A a \in Accounts : BalanceOf(a) >= 0 \/ a \in gone

Involves(c, a) == a \in {req[c].from, req[c].to}

\* Mutant: an entry's sign is taken from the payee.
EntryOfPayee(c, a) == IF req[c].to = a THEN -req[c].amount ELSE req[c].amount

\* The amount of a transfer seen from an account, negative for a DEBIT.
Entry(c, a) == IF req[c].from = a THEN -req[c].amount ELSE req[c].amount

\* What the transfers in set add up to for an account.
Total(set, a) == SumOf([c \in Calls |-> Entry(c, a)], set)

\* A balance of a that includes the transfers in some, and others of a's at most.
Shows(balance, a, some) ==
    \E shown \in SUBSET {c \in Calls : Involves(c, a)} :
        some \subseteq shown /\ balance = endowed[a] + Total(shown, a)

\* However transfers overlap, the new_balance of a response includes the transfer
\* itself and every one that clients were told of before it was asked for,
\* although it is computed from a document read before the debit.  Only
\* transfers that nobody had been told of by then may be missing.
NewBalanceIsNotBehind ==
    \A c \in Calls :
        LET a == req[c].from IN
        call[c].answer = c /\ a \notin gone =>
            Shows(newBalance(c), a, {c} \cup {d \in call[c].before : Involves(d, a)})

\* Every transfer asked for is answered, or lost with the process.
EveryCallEnds == \A c \in Calls : InFlight(c) ~> call[c].pc \in Ended

-----------------------------------------------------------------------------
(* What the code, its comments and its schema say and the program does not *)
(* keep: each is checked by a run of its own.                              *)

\* transaction.service.ts:86 "Update Balances Atomically": a call that has
\* ended changed both balances or none.
BalancesMovedAtomically ==
    \A c \in Calls :
        call[c].pc \in Ended /\ ~Settled(c) => moves[c] = {}

\* accounts.ts:41 "min: 0": no balance is negative.
NeverNegative == \A a \in Accounts : BalanceOf(a) >= 0

\* transaction.resolver.ts:209 "Duplicate transaction (idempotency key already
\* used)": a key is charged once.
OneChargePerKey == \A k \in Keys : Charges(k) <= 1

\* transaction.service.ts:98 "Finalize": the record of an acknowledged
\* transfer says SUCCESS.
AckedRecordIsFinal ==
    \A c \in Calls :
        call[c].outcome = "ok" /\ call[c].answer = c => transactions[c] = "SUCCESS"

=============================================================================
