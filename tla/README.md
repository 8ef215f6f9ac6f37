# transaction-service in TLA+

A TLA+ model of the transaction service in `src/`: money transfers between
accounts behind a GraphQL API, over MongoDB and a Redis cache, with queries,
fraud detection, and the connection and shutdown of the process. The modules are model-checked with TLC on small
instances; the theorems are proved with TLAPS for every value of the constants.

Paths below are relative to `src/src/`.

## 1. The system

| Part | Code | State | Operations | Who calls it |
|---|---|---|---|---|
| transfer mutation | `transaction/resolver/transaction.resolver.ts:166-217`, `transaction/service/transaction.service.ts:31-135` | locals of a handler; a MongoDB session | `transfer` | GraphQL clients |
| account repository | `account/account.repository.ts`, `account/type/accounts.ts` | the `accounts` collection | find, create, updateBalance, freeze, unfreeze, delete; in a session getAccountWithLock, updateBalanceWithSession; checkSufficientBalance, isAccountActive, findByUserId; a document's freeze and unfreeze | the mutation, the queries, administrators; those from "in a session" on nothing yet |
| transaction repository | `transaction/repository/transaction.repository.ts`, `transaction/transaction.schema.ts` | the `transactions` collection | create (in a session), updateStatus, findById, findByAccount, getStatistics; findByIdempotencyKey and delete without a caller | the mutation and the queries |
| idempotency cache | `utils/cache.module.ts`, `transaction.service.ts:34-50,115-127` | key -> response, for 24 hours | get, set | the mutation |
| history and statistics queries | `transaction.resolver.ts:61-157`, `transaction.service.ts:142-161` | locals of a handler | transactionHistory, transactionStatistics | GraphQL clients |
| account and transaction queries | `transaction.resolver.ts:32-59,92-119` | none | one read each | GraphQL clients |
| bill payment | `transaction.resolver.ts:221-271`, `transaction.service.ts:137-140` | none | an authorization, then an empty stub | GraphQL clients |
| fraud detection | `fraud-detection/` | the `transaction_logs` collection; locals of an analysis | create, processNewTransactionLog, runRiskRules | a log writer and a change stream watcher, neither in the repository |
| database connection | `utils/database.ts` | a connection | connect, disconnect, healthCheck, a SIGINT handler | nothing yet |
| redis client | `utils/redis.ts` | a connection | connect, get, set, ... | nothing |
| logger | `utils/logger/logger.ts` | buffered output | log, flush, SIGINT and SIGTERM handlers | everything |
| middleware | `utils/middleware/` | none | authentication, error mapping, rate limits | nothing installs it |
| idempotency repository | `idemotency/`, `transaction/types/idemotency.ts` | none | a verbatim copy of the account repository, an unused schema | nothing |
| schema, DTOs, bootstrap | `schema.ts`, `*/dto`, `main.ts`, `app.*` | none | types and wiring | - |

How they interact: a handler is an async function; it runs alone between two
`await`s, and every `await` (of MongoDB or Redis) lets any other handler run.
Handlers share the two collections and the cache and nothing else. The
mutation opens a session and a transaction, but of its four writes only the
insertion of the record takes part in it: `updateBalance` has no session
parameter, and `updateStatus` takes the session it is given for an error message.

The parts do not all fit together as committed (some import paths do not
resolve). The modules model the code as its classes call each other by name.

What is hard about it:

* the balances change outside of the session, so failures, crashes and aborts
  leave them half done (`transaction.service.ts:87-96`);
* the balance and the status are checked on a document read several awaits
  before the debit, which has no condition of its own (`:58-70`, `:87`);
* an idempotency key is looked up at the start and stored at the end of the
  handler, and nothing else is unique per key (`:36`, `:117`);
* the catch block runs for errors before, at and after the commit (`:128-134`);
* a history is read by two commands that share no snapshot
  (`transaction.repository.ts:66-75`), from records that become visible later
  than the balances they explain;
* `getAccountWithLock` locks nothing, so a debit in a session rests on the server's
  write conflicts, and one outside of a session on checks that may be overtaken
  (`account.repository.ts:129-164`);
* a document's `freeze` and `unfreeze` save what was read some time before
  (`accounts.ts:86-98`);
* two handlers of SIGINT each end the process when their own part is done
  (`database.ts:60`, `logger.ts:297`), while sessions are open;
* analyses of logs run side by side, and each looks at a collection that goes on
  growing (`fraud-detection.service.ts:52-74`).

What makes each part correct:

* transfer: no money appears or disappears unaccounted; what a client is told
  (done, refused) is true of the balances and records; a frozen account is not
  debited; no overdraft; no double charge for one key; every call ends;
* cache: it only ever answers with a recorded and settled transfer;
* queries: a client sees the transfers it was told of, in histories, by id and in
  balances, sees none that did not move its money, the total counts all it was told of
  and none that did not move its money, the entries explain the balance;
* account operations: a debit is covered by what it relies on, none is made of a frozen
  account, no change is lost or made twice, status and reason of a freeze agree;
* process: a signal ends it, and however it ends no account is the worse for it;
* fraud detection: whatever the overlap, the analyses cannot all miss a change
  of address or a burst.

## 2. The modules

| Module | What it is | Extends |
|---|---|---|
| `AccountRepository` | the accounts collection and one operator per repository operation | - |
| `Sums` | sums over finite sets | - |
| `Transfer` | the mutation, the transactions collection, the cache, administration, faults and crashes | `AccountRepository`, `Sums` |
| `Saga` | what a transfer promises, without its handler | - |
| `TransferSaga` | the refinement mapping from `Transfer` to `Saga` | `Transfer` |
| `TransactionHistory` | the four queries and the billPayment stub next to the transfers | `Transfer` |
| `AccountOperations` | the repository operations without a caller, sessions, documents, checks | `AccountRepository` |
| `ServiceLifecycle` | connecting, signals, shutdown and restart of a process that works on accounts | `AccountOperations` |
| `LockedAccounts` | what the account operations promise: accounts under locks, without sessions' snapshots and conflicts | - |
| `OperationsLocks` | the refinement mapping from `ServiceLifecycle` to `LockedAccounts` | `ServiceLifecycle` |
| `FraudDetection` | insertion and analysis of transaction logs | - |
| `MCTransfer`, `MCTransactionHistory`, `MCServiceLifecycle`, `MCFraudDetection` | the instances for TLC | the above |
| `SumProofs` | lemmas about sums | `Sums` |
| `TransferProofs`, `MoneyProofs`, `TransferSagaProofs`, `HistoryProofs`, `OperationsProofs`, `LocksProofs`, `FraudProofs` | theorems and proofs | the above |

### Transfer

`call[c]` is a handler: `pc` names the await it is at (or `abort`, its catch and
finally blocks; `done`, answered; `lost`, with the process), `seen` the document
of the payer as the service read it, `outcome` and `answer` what the client got, and
`before` (a history field) the transfers clients had been told of when it was asked for.
`sessions[c]` is the record staged in the MongoDB transaction, `transactions[c]`
the committed one, `cache[k]` the call whose response is cached under a key. `moves`,
`gone`, `endowed` and `barred` are history variables: no action reads them.

One action per awaited operation, in the code's order:

| Action | Code |
|---|---|
| `Submit`, `Authorize` | the resolver: read the payer's account, compare the user |
| `Lookup` | `cache.get`, then the validations that follow without an await |
| `Open` | `startSession`, `startTransaction` |
| `ReadFrom`, `ReadTo` | the two `findByAccountNo`, then the checks |
| `Insert` | `transactionRepo.create(..., session)` |
| `Debit`, `Credit` | the two `updateBalance` |
| `Finalize` | `updateStatus`, which changes only a record already committed |
| `Commit` | `commitTransaction` |
| `Store` | `cache.set` if there is a key, and the response |
| `Abort` | `abortTransaction`, `endSession`, rethrow |

Faults: `Reject` is an awaited operation that fails without effect; `Answered`
lets `Debit`, `Credit` and `Commit` (and `Store` itself) take effect and lose the
answer; `AnswersToFailure` is what the resolver then tells the client (see
`Misreadings` below); `Crash` loses all calls in flight and their sessions; `Evict` removes a
key from the cache. `Freeze`, `Unfreeze`, `Create` and `Delete` are the
administration of accounts by the repository's operations.

### TransactionHistory

`query[q]` holds the reads a query still waits for, what they found, the total, and as a
history field the transfers acknowledged when it was asked (`before`). `findByAccount` returns
a page of what matches: which one is left open (`Pages`), since the order is left out.
The service hands it the limit where it expects an object with one (`OptionsOf`), so the only page
there is holds everything. `countDocuments` has the filter but neither skip nor limit.

| Action | Code |
|---|---|
| `AskQuery` | a request arrives |
| `Refuse` | the account is missing or not the user's |
| `AuthorizeHistory`, then `Find` and `Count` in either order | `transactionHistory`, the `Promise.all` of `findByAccount` |
| `AuthorizeStatistics`, then `Group` | `transactionStatistics`, `getStatistics` |
| `AnswerAccount` | `account`: the document it is authorized by is the answer |
| `FindTransaction` | `transaction`: `findById`, then the comparison of its user |
| `PayBill` | `billPayment`: the authorization and an empty stub |
| `FailQuery` | a read fails |

Any steps of the transfers come in between (`TransfersWork`); a crash takes the
queries along (`CrashAll`).

### AccountOperations

`session[s]` is a MongoDB transaction with its snapshot (`view`), the documents its
client read (`seen`), what it wrote (`dirty`, `added`) and what others changed since
(`stale`); `held[h]` is a check or a document that a client keeps. `ledger`, `exposed`
and `muddled` are history variables: the changes acknowledged, the accounts
debited on an overtaken check, the accounts whose document was saved from a stale copy.

| Action | Code |
|---|---|
| `Get`, `Update` | `getAccountWithLock`, `updateBalanceWithSession` |
| `CommitSession`, `AbortSession`, `Expire` | the driver's and the server's |
| `Pay`, `FreezeAccount`, `UnfreezeAccount` | `updateBalance`, `freeze`, `unfreeze` of the repository |
| `CheckActive`, `CheckBalance`, `DebitChecked` | `isAccountActive`, `checkSufficientBalance`, then the `updateBalance` they are called for |
| `Load`, `FreezeDocument`, `UnfreezeDocument`, `UnfreezeUnfrozen` | `findByUserId`, then the document's `freeze` and `unfreeze` |
| `RefuseToSave` | their `save()`, which throws on a document loaded with a negative balance (`accounts.ts:41`) |

Nothing in the repository calls these operations in sequence. The model takes
any order, with one discipline: a debit follows a read or check that covers it.
`FreezeAccount` and `UnfreezeAccount` set `status` and the reason in one command and
end the muddle; the document methods send only what they changed.

`getAccountWithLock` is named for a lock it does not take. `LockedAccounts` says what its
callers may count on all the same: an account is a balance and a flag, a change asked for
in a transaction is covered when it is asked for, and from then on the account is the
transaction's alone (as long as its changes do not cancel out), so its commit needs no check, happens at once and changes balances
only. The mapping of `OperationsLocks` keeps of an open transaction what it has added
to each balance; snapshots, versions and staleness have no counterpart, although a commit
puts whole documents back. That is why a commit might lose another's change or undo a
freeze, and that it does not is what `ImplementsLocks` says.

### ServiceLifecycle

`process` is starting, connected, closed or exited, `handlers` the signal handlers under
way. `Connect` is `connect()`, `Signal` starts the handlers of a signal (`logger.ts`'s
are installed by the import, `database.ts`'s at the end of `connect`), `CloseConnection`
is the answer to `connection.close()`, which ends the sessions; `ExitWhenFlushed` and
`ExitWhenDisconnected` are the two ways to `process.exit`, the second also when the close
fails. An exit abandons the open transactions: the server keeps them, with
their writes, until they expire, also across a `Restart`.

### FraudDetection

A log is stamped (`Make`), inserted (`CreateLog`), handed over by the watcher
(`processNewTransactionLog`, which checks the amount and fixes the start of the
velocity window) and then compared with the collection by two reads
(`CheckVelocity`, `CheckTravel`); a failing read ends the analysis (`FailAnalysis`).

### Abstractions

* Amounts are integers in minor units: the rounding of `Float` is left out. A
  GraphQL Float is finite, so `isFinite` cannot fail.
* The transactions of MongoDB are taken to work, which needs a replica set; the
  MongoDB of `docker-compose.yaml` is a standalone server, where the insertion
  fails and with it every transfer (behaviours of the model too, by `Reject`).
* An operation takes effect at most once and before its answer. The driver hides
  the errors of an abort command; an abort after a call of `commitTransaction` is refused
  by the driver, whose error replaces the one rethrown.
* The resolver tells errors apart by words in their messages
  (`transaction.resolver.ts:199-217`), so the message of a failed operation might be taken
  for a refusal. The constant `Misreadings` is the set of refusals this may happen
  for; it is empty in all runs but `transfer_payers`. Two messages are known and hold none of the
  words: the one `create` throws in place of the driver's (`transaction.repository.ts:31-35`),
  and the driver's refusal to abort after a commit. An operation that is misread may
  have taken effect, so `RefusalMovesNothing` and the saga, which knows no such answer, need the
  assumption that no message is; the other properties do not.
* The repository has two schemas for transactions. The models follow `transaction.schema.ts`,
  whose document type the repository imports: it has no `errorMessage`, so the session that
  `updateStatus` takes for one is dropped from the update. `types/transaction.ts`, of
  which only the enums are used, has an `errorMessage` of type String: with it the session would be cast,
  the cast would throw, and no transfer would get past `updateStatus`.
* A response is the name of the call that made it. A record keeps its status,
  the rest follows from the request. Accounts keep owner, balance and status.
* The order of history entries and dates are left out, and so is the shape of
  answers: `to_account` of a transfer (`schema.ts:88`), `limit` and `offset` of a history
  (`schema.ts:113-114`) and the whole answer of a bill payment are non-null in the schema
  and missing from what the services return.
* The user of a record is the one of the context the transfer was made in.
* The first operation of a MongoDB transaction takes its snapshot; of two writes of one
  document in overlapping transactions the later fails and ends its transaction; a write
  outside of transactions waits for the one that has written the document. An
  operation outside of them takes effect with its answer. `create` and `delete` are not
  among the account operations of `AccountOperations` (they are in `Transfer`).
* `frozenAt` comes and goes with the reason and is left out.
* All processes of fraud detection read one clock. A log's address is one value;
  `runRiskRules` reads `amount` from the log as `ITransactionLog` declares it.

## 3. The checks

`Overlap` states what a run assumes of clients: `"free"` nothing, `"distinct
payers"` that transfers from one account do not overlap, `"none"` that no transfers
do. `Budget` bounds faults, evictions and acts of administration. Both say which
behaviours a run looks at; the handlers are the same in all.

| Run | Instance | Shows |
|---|---|---|
| `transfer_free` | 2 calls out of 5 requests, 3 accounts, 2 faults, 1 eviction, 2 acts; any overlap | `TypeOK`; `MoneyAccounted`: `$inc` loses no update, each balance is what came with its documents and what legs moved; `MoneyConserved`: without faults no money is missing between transfers; `RefusalMovesNothing`; `RecordMeansMoved`; `AckMeansSettled`; `BarredNeverDebited`; `NewBalanceIsNotBehind`: a response's balance misses at most transfers nobody had been told of when it was asked for; `ImplementsSaga` |
| `transfer_serial` | 3 calls, with and without one key, 1 fault, 1 eviction, 1 act; no overlap | `DuplicatesNeedFaults`: one charge per key, plus one per fault or eviction |
| `transfer_payers` | as `transfer_free`, distinct payers, fair handlers, failures that may be taken for an unknown account | `NoOverdraft`; `RefusalLeavesNoRecord`: even a misread failure leaves no record behind; `EveryCallEnds` |
| `history` | 2 calls, 1 query of any kind, 1 fault, 1 act; any overlap; calls symmetric | `HistoryTypeOK`, `ReadYourTransfers`, `EntriesAreSettled`, `TotalCountsTransfers`: the total, read apart from the entries, counts all that its client was told of and only settled transfers; `HistoryExplainsBalance`, `BalanceShowsYourTransfers` |
| `account_operations` | 2 sessions, 1 holder, 2 accounts of which one does not exist, 3 changes, 1 restart | `LifecycleTypeOK`; `LockedDebitsAreCovered` and `FrozenIsNotDebited`: what a session read still holds when it writes and commits, a check may be overtaken; `BalancesAreLedgers`; `StatusHasReason`; `ImplementsLocks`; `SignalEndsProcess` |
| `fraud` | 3 logs of 2 accounts and 2 addresses, a clock of 4 ticks, a minute of 2; logs symmetric | `FraudTypeOK`, `PairIsFlagged`, `BurstIsNoticed` |

Each of these runs is exhaustive, and each property is broken by a seeded change
of the code it is about: the operators marked *Mutant* in the modules, which no
specification uses.

Six runs check what the code or its comments say and find it violated:

| Run | Claim | What happens |
|---|---|---|
| `atomic_balances` | `transaction.service.ts:86` "Update Balances Atomically" | a failure between the two updates leaves the debit without its credit; the abort does not undo it |
| `overdraft` | `accounts.ts:41` `min: 0` | two transfers read one balance, both pass the check, both debit |
| `duplicates` | `transaction.resolver.ts:209` "409: Duplicate transaction" | two overlapping requests with one key both miss in the cache and both charge |
| `final_record` | `transaction.service.ts:98` "Finalize" | an acknowledged transfer's record says PROCESSING for ever; so the statistics, which count SUCCESS, are always empty |
| `history_page` | `schema.ts:13` "with pagination" | `findByAccount` gets numbers where it expects objects: no limit, no offset, no filter |
| `fraud_jump` | `fraud-detection.service.ts:81` "we flag if location changed in under 1 minute" | two logs from the new address are each compared with the other; nothing is flagged |

**Bounds.** Every property but two is about at most two transfers, or two logs
against the rest: two calls make every pair of steps of two handlers meet. A
third call matters for retries of retries (`transfer_serial`); a third log is what
hides a change of address (`fraud_jump`). Two faults allow a failure of the
handler and one of its retry or of the other call; two acts allow freezing and
unfreezing, or deleting and creating anew, within one transfer. The requests reach
every answer the resolver has. Balances are chosen so that one transfer is covered
and two are not; in `history` they cover both, since there the question is what a
query sees. Minute and threshold are the least that tell "in the window" from "out of
it" and "at" from "above". In `account_operations` every invariant is about one
account and every conflict about one document, so the existing account is where all
meet; three changes are a read made stale, its repair, and a write that relied
on it; one restart lets a new process meet the transactions an old one left. The invariants proved in section 4 need no bound.

**Fairness.** `FairSpec` assumes weak fairness of each handler's own steps only:
every await of MongoDB or Redis ends some day. For MongoDB this rests on defaults, since
`app.module.ts:24-29` gives the driver an address and no time limits (those of
`database.ts:22-29` are used by nobody): the driver gives up selecting a server after its default
time, and learns of a broken connection from the operating system. A server that
keeps a connection open and never answers is assumed away, and so is such a Redis. Clients, administrators, faults and evictions promise nothing. The
safety runs assume no fairness; the liveness run uses no symmetry. `LifecycleSpec` assumes that flushing the
logs calls back (their destinations are local streams), nothing of `connection.close()`, which
may hang: the process ends because each handler exits on its own. The watcher of
fraud detection promises nothing (its change stream is not in the repository),
so nothing is said of logs that are never analysed.

**Deadlock** is checked everywhere: the last states, with every call, query and log at
its end, stutter by an explicit action (`Quiet`, `HistoryQuiet`, `Over`), and so does an exited process (`Ended`).

## 4. The proofs

All theorems hold for any sets of accounts, calls, keys, queries and logs, any
requests, sessions, thresholds and budgets that meet the named ASSUMEs of the modules: nulls
are not members of the sets they are added to, the initial balances are not
negative, limits are natural numbers, accounts, calls and logs are finitely many.

| Theorem | States | Inductive invariant |
|---|---|---|
| `TypeCorrect` | `TypeOK` | itself |
| `RefusalsAreSafe` | `RefusalMovesNothing`, if `Misreadings` is empty | `SagaInv` |
| `RefusalsLeaveNoRecord`, `RecordsAreSettled`, `AcksAreSettled` | `RefusalLeavesNoRecord`, `RecordMeansMoved`, `AckMeansSettled` | `SagaInv` |
| `NoMoneyIsLost`, `MoneyIsConserved` | `MoneyAccounted`, `MoneyConserved` | `MoneyInv`, on top of `SagaInv` |
| `SerialKeysChargeOnce` | `DuplicatesNeedFaults`, if transfers never overlap | `KeysInv` |
| `AnswersAreNotBehind` | `NewBalanceIsNotBehind`, in any overlap | `SeenInv`, on top of `SagaInv` and `MoneyInv` |
| `FrozenIsEffective` | `BarredNeverDebited` | `BarredInv` |
| `SeparatePayersNeverOverdraw` | `NoOverdraft`, if transfers from one account never overlap | `FundsInv` |
| `TransferImplementsSaga` | `Transfer` implements `Saga`, if `Misreadings` is empty | `SagaInv` |
| `QueriesOnlyRead` | the system with queries is a behaviour of `Transfer`, so every theorem above holds of it | none needed |
| `HistoryTypeCorrect`, `HistoriesAreComplete`, `OnlySettledEntries`, `TotalsCountTransfers` | `HistoryTypeOK`, `ReadYourTransfers`, `EntriesAreSettled`, `TotalCountsTransfers` | `QueriesInv`, on top of `SagaInv` |
| `BalancesAreNotBehind`, `HistoriesExplain` | `BalanceShowsYourTransfers`, `HistoryExplainsBalance` | `QueriesInv`, `SagaInv`, `MoneyInv` |
| `LifecycleOperates` | the life of the process is a behaviour of `AccountOperations`, so every invariant of the operations holds of it | none needed |
| `SessionsNeverOverdraw`, `NoChangeIsLost`, `ReasonsFollowStatus`, `FreezesHold`, `LifecycleTypeCorrect` | `LockedDebitsAreCovered`, `BalancesAreLedgers`, `StatusHasReason`, `FrozenIsNotDebited`, `LifecycleTypeOK` | `OperationsInv` |
| `OperationsImplementLocks` | the operations and the life of the process implement `LockedAccounts` | `OperationsInv` |
| `FraudTypeCorrect`, `PairsAreFlagged`, `BurstsAreNoticed` | `FraudTypeOK`, `PairIsFlagged`, `BurstIsNoticed` | see below |

* `SagaInv` ties the place of a handler to what it has done (`StageInv`), an answer to
  the record it rests on (`AnswerInv`) and a cached response to its record and key
  (`CacheInv`). The properties alone are not inductive: that a committed
  record is settled follows only from a handler at `commit` having made both
  legs, and that in turn from both accounts having been there when it read them
  and being there still unless deleted (`Held`).
* `BarredInv` carries the FROZEN status from the submission to the document the
  handler reads, since the check is made on that document and not on the account.
* `FundsInv` says that what a handler saw still covers the amount when it debits
  (`FundsCall`), because no other handler in flight has the same payer (`PayersInv`).
  That is where the assumption on overlap enters; the run `overdraft` shows that
  it cannot be dropped.
* `MoneyInv` adds to `MoneyAccounted` that a leg about to be taken has not been taken yet
  (`LegsInv`): the sums are over sets of calls, so a leg taken twice would be counted once.
  Its last part, that without a fault a call which moved money is under way or has a
  record, gives `MoneyConserved`: a record means both legs, and then the
  debits and the credits are those of the same calls. A history adds up to the balance for
  the same reason.
* `KeysInv` counts: a key's charges are at most the faults and evictions, and one more if the
  cache has its response or a call under way will store it (`Served`). That a call with the
  key gets past the lookup only while the cache has nothing is kept because no other call is under way
  (`OneAtATime`); the run `duplicates` shows that this assumption cannot be dropped.
* `SeenInv` says of the document a handler holds that its balance is that of some transfers of
  the account, among them all those that clients knew of when the handler was asked to run and not
  its own. It holds when the document is read, because a transfer that a client knows of has moved its
  money (`SagaInv`) and the balance is the sum of what moved (`MoneyInv`). After that neither the document nor
  what was known changes, so any overlap is allowed.
* What sums do (`SumProofs`: a sum grows by its new term, agrees with the sum of equal
  terms, is that of a function changed at one place, may be swapped with another) cannot be
  proved by the library's induction principles, which take an operator the provers cannot instantiate. The lemmas
  argue by a smallest counterexample instead (`Smallest`): a set for which the claim fails and
  for no proper subset of which it does.
* The refinement of the saga is proved action by action: `Debit`, `Credit` and `Commit` are
  steps of the saga, the ends of handlers are verdicts, a crash is a failure of all
  pending transfers, the rest is invisible.
* `QueriesInv` says that the transfers acknowledged before a query have records
  (which never go away), hence are found, and what has been found is settled; and that
  the total lies between those known before and those settled by now (`CountInv`, `Entitled`):
  the records counted include the former, and each of them is settled.
* `OperationsInv` says of each open transaction (`Consistent`) that what it wrote nobody
  else wrote or changed, that its version of such a document is the committed one plus
  its own changes, covered and not of a frozen account if a debit, and that its other
  documents are as in its snapshot unless marked stale. The properties speak of the
  committed documents only and are not inductive: a commit keeps them because of what
  the transaction held before. Orphaned transactions are kept consistent too, since they
  block and expire like open ones.
* `ImplementsLocks` follows from `OperationsInv` action by action: by `Consistent`, a document that a
  transaction wrote is the committed one plus what it added, so that putting it back is
  adding, and no other transaction has written it, so that its lock is free for the
  next. A read is invisible, and the end of a process or connection is a
  drop of what the transactions had asked for.
* `PairIsFlagged` is inductive given the types: of two analyses the one that reads
  later finds the other log. `BurstIsNoticed` needs a stronger form (`BurstInv`) about logs that have passed
  the velocity check, judged or not: the last of a burst to pass it saw all.

Every safety and action property of the passing runs is stated by a theorem. Only
model-checked are the liveness properties `EveryCallEnds` and `SignalEndsProcess`, since
the provers do not handle fairness and ENABLED; what the six runs of section 3 refute is
false, so there is nothing to prove. `SerialKeysChargeOnce` and
`SeparatePayersNeverOverdraw` are proved under the
assumption on overlap of the run that checks the property; `duplicates` and
`overdraft` show that they fail without it. `RefusalsAreSafe` and `TransferImplementsSaga` assume
that no message of a failed operation is taken for a refusal.

## 5. Not modelled

* Two operations of the transaction repository without a caller: `findByIdempotencyKey`
  (no record is given a key, so it finds nothing) and `delete`.
* `healthCheck` (one ping) and `redis.ts`, which nothing imports: the idempotency
  cache is the one of `cache.module.ts`. The pool and time limits of the connection are
  the driver's.
* Logging but for its shutdown. What a lost connection or a shutdown does to a transfer is
  there as `Reject` and `Crash`; the life of the process is composed with the account
  operations, whose open sessions are what a shutdown cuts off.
* The middleware: nothing installs it, and each is a decision on one request.
  Whether a context has a user is an input.
* The rounding of balances, which are binary floating point numbers.
* Unused copies (`idemotency/`, the schema of `types/transaction.ts`), types, wiring.

## 6. Plan

The order was: the mutation with its faults first, since every other part reads what it
writes; the saga as its abstract specification; the queries composed with it; fraud
detection, which is independent; the account operations with sessions, and the life
of the process around them; their specification by locks. Then the proofs, which now cover
every safety property of the passing runs. Next:

1. A transfer made of `getAccountWithLock` and `updateBalanceWithSession`, to show that
   `BalancesMovedAtomically` and `NeverNegative` would then hold; on top of `LockedAccounts`, where a
   commit is one step, this needs no sessions.
2. Theorems about `LockedAccounts` and `Saga` themselves, inherited by what implements them.
