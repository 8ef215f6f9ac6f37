--------------------------- MODULE HistoryProofs ---------------------------
(* Theorems about the queries, for every value of the constants.  The     *)
(* transfers' own theorems carry over, because queries only read.         *)
EXTENDS TransactionHistory, MoneyProofs

LEMMA HistoryStep == [HistoryNext]_historyVars => [Next]_vars
BY DEF HistoryNext, AnswerQuery, AskQuery, Refuse, AuthorizeHistory, AuthorizeStatistics,
       AnswerAccount, PayBill, FindTransaction, Receive, Become, Find, Count, Group, FailQuery,
       TransfersWork, CrashAll, HistoryQuiet, Next, vars, historyVars

\* The queries leave the transfers as they are: seen from the transfers, the
\* whole is a behaviour of the transfers alone.
THEOREM QueriesOnlyRead == HistorySpec => Spec
<1>1. HistoryInit => Init
  BY DEF HistoryInit
<1> QED BY <1>1, HistoryStep, PTL DEF HistorySpec, Spec

-----------------------------------------------------------------------------
(* What a query holds.  What it has found is only complete once the find is *)
(* no longer due, and a query that is done has nothing due.                 *)

About(q, c) == IF ask[q].kind = "transaction" THEN c = ask[q].of ELSE Involves(c, ask[q].account)

\* Each read belongs to one kind of query.
ReadsInv(q) ==
    /\ query[q].pc \in {"idle", "authorize", "done", "notFound"} => query[q].due = {}
    /\ "record" \in query[q].due => ask[q].kind = "transaction"
    /\ "group" \in query[q].due => ask[q].kind = "statistics"
    /\ "find" \in query[q].due => ask[q].kind = "history"

FoundInv(q) ==
    /\ \A c \in query[q].before : Recorded(c) /\ About(q, c)
    /\ \A c \in query[q].found : Settled(c)
    /\ query[q].pc \in {"read", "done"} /\ ask[q].kind = "history" /\ "find" \notin query[q].due
            => query[q].before \subseteq query[q].found
    /\ query[q].pc = "notFound" => query[q].before = {}

\* The transfers that a history of a may count.
Entitled(a) == {c \in Calls : Involves(c, a) /\ Settled(c)}

\* What was recorded when the history was asked for bounds the count from below,
\* what is settled by now bounds it from above.
CountInv(q) ==
    /\ query[q].pc \in {"read", "done"} /\ ask[q].kind = "history"
    /\ "count" \notin query[q].due
    => /\ Cardinality(query[q].before) <= query[q].total
       /\ query[q].total <= Cardinality(Entitled(ask[q].account))

QueryInv(q) == ReadsInv(q) /\ FoundInv(q) /\ CountInv(q)

QueriesInv == QueryTypeOK /\ \A q \in Queries : QueryInv(q)

\* The page that the service's options leave is everything there is.
LEMMA OnePage ==
    ASSUME NEW a, NEW n
    PROVE  findByAccount(a, OptionsOf(n)) = {Matching(a)}
<1> DEFINE all == Matching(a)
<1>1. IsFiniteSet(all) /\ Cardinality(all) \in Nat
  BY CallsAssumption, FS_Subset, FS_CardinalityType DEF Matching
<1> HIDE DEF all
<1>2. Pages(all, OptionsOf(n)) = {page \in SUBSET all : Cardinality(page) = Cardinality(all)}
  <2>1. OptionsOf(n).limit = 0 /\ OptionsOf(n).offset = 0
    BY DEF OptionsOf
  <2>2. Cardinality(all) - 0 = Cardinality(all) /\ ~(Cardinality(all) < 0)
    BY <1>1
  <2> QED BY <2>1, <2>2 DEF Pages
<1>3. \A page \in SUBSET all : Cardinality(page) = Cardinality(all) => page = all
  BY <1>1, FS_Subset
<1> QED BY <1>2, <1>3 DEF findByAccount, all

LEMMA FoundSettled ==
    ASSUME SagaInv, NEW a, NEW c \in Matching(a) \cup getStatistics(a) \cup findById(a)
    PROVE  c \in Calls /\ Settled(c)
BY DEF SagaInv, AnswerInv, Matching, getStatistics, findById, Recorded

\* What can be counted, and that it only grows.
LEMMA CountBounds ==
    ASSUME SagaInv, NEW a
    PROVE  /\ Cardinality(Matching(a)) \in Nat /\ Cardinality(Entitled(a)) \in Nat
           /\ Cardinality(Matching(a)) <= Cardinality(Entitled(a))
           /\ \A set \in SUBSET Matching(a) :
                  /\ Cardinality(set) \in Nat
                  /\ Cardinality(set) <= Cardinality(Matching(a))
<1>1. IsFiniteSet(Matching(a)) /\ IsFiniteSet(Entitled(a))
  BY CallsAssumption, FS_Subset DEF Matching, Entitled
<1>2. Matching(a) \subseteq Entitled(a)
  BY DEF SagaInv, AnswerInv, Matching, Entitled, Recorded
<1> QED BY <1>1, <1>2, FS_Subset, FS_CardinalityType

LEMMA EntitledGrows ==
    ASSUME NEW a, \A c \in Calls : Settled(c) => Settled(c)'
    PROVE  LET later == {c \in Calls : Involves(c, a) /\ Settled(c)'} IN
           /\ Cardinality(Entitled(a)) \in Nat /\ Cardinality(later) \in Nat
           /\ Cardinality(Entitled(a)) <= Cardinality(later)
<1> DEFINE later == {c \in Calls : Involves(c, a) /\ Settled(c)'}
<1>1. Entitled(a) \subseteq later /\ later \subseteq Calls
  BY DEF Entitled
<1>2. IsFiniteSet(later) /\ IsFiniteSet(Entitled(a))
  BY <1>1, CallsAssumption, FS_Subset
<1> HIDE DEF later
<1>3. /\ Cardinality(Entitled(a)) \in Nat /\ Cardinality(later) \in Nat
      /\ Cardinality(Entitled(a)) <= Cardinality(later)
  BY <1>1, <1>2, FS_Subset, FS_CardinalityType
<1> QED BY <1>3 DEF later

\* A step of the transfers, which at most makes a query fail.
LEMMA QueriesKeep ==
    ASSUME SagaInv, SagaInv', [Next]_vars, QueriesInv, ask' = ask, QueryTypeOK', NEW q \in Queries,
           query'[q].before = query[q].before, query'[q].found = query[q].found,
           query'[q].due = query[q].due, query'[q].pc \in {query[q].pc, "failed"},
           query'[q].total = query[q].total
    PROVE  QueryInv(q)'
<1>1. \A c \in Calls : Kept(c)
  BY RecordsStay
<1>2. query[q].before \subseteq Calls /\ query[q].found \subseteq Calls
  BY DEF QueriesInv, QueryTypeOK, QueryState
<1>3. \A c \in Calls : /\ Settled(c) => Settled(c)'
                       /\ Recorded(c) => Recorded(c)'
                       /\ \A a : Involves(c, a)' <=> Involves(c, a)
  BY <1>1 DEF Kept, Settled, Involves, Recorded
<1>4. QueryInv(q)
  BY DEF QueriesInv
<1>5. ReadsInv(q)'
  BY <1>4 DEF QueryInv, ReadsInv
<1>6. FoundInv(q)'
  BY <1>2, <1>3, <1>4 DEF QueryInv, FoundInv, About
<1>7. CountInv(q)'
  <2> DEFINE entitled == Cardinality(Entitled(ask[q].account))
             later == {c \in Calls : Involves(c, ask[q].account) /\ Settled(c)'}
  <2>1. Entitled(ask[q].account)' = later
    <3>1. \A c \in Calls : Involves(c, ask[q].account)' <=> Involves(c, ask[q].account)
      BY <1>1 DEF Kept, Involves
    <3> QED BY <3>1 DEF Entitled
  <2>2. entitled \in Nat /\ entitled' \in Nat /\ entitled <= entitled'
    BY <1>3, <2>1, EntitledGrows
  <2>3. query[q].total \in Nat
    BY DEF QueriesInv, QueryTypeOK, QueryState
  <2>4. /\ query[q].pc \in {"read", "done"} /\ ask[q].kind = "history"
        /\ "count" \notin query[q].due
        => Cardinality(query[q].before) <= query[q].total /\ query[q].total <= entitled
    BY <1>4 DEF QueryInv, CountInv
  <2> SUFFICES ASSUME query'[q].pc \in {"read", "done"}, ask[q].kind = "history",
                      "count" \notin query[q].due
               PROVE  Cardinality(query[q].before) <= query[q].total /\ query[q].total <= entitled'
    BY DEF CountInv
  <2>5. query[q].pc \in {"read", "done"}
    OBVIOUS
  <2> HIDE DEF entitled
  <2> QED BY <2>2, <2>3, <2>4, <2>5
<1> QED BY <1>5, <1>6, <1>7 DEF QueryInv

LEMMA QueriesInit == Init /\ HistoryInit => QueriesInv
BY DEF HistoryInit, QueriesInv, QueryTypeOK, QueryState, QueryInv, ReadsInv, FoundInv, CountInv

\* A step of query q alone, seen from the invariant: its parts of the new state.
LEMMA QueryFrame ==
    ASSUME SagaInv, QueriesInv, NEW q \in Queries, NEW new \in QueryState, Become(q, new),
           ReadsInv(q)', FoundInv(q)', CountInv(q)'
    PROVE  QueriesInv'
<1>0. UNCHANGED <<vars, ask>> /\ query' = [query EXCEPT ![q] = new]
  BY DEF Become
<1>1. ASSUME NEW p \in Queries \ {q} PROVE QueryInv(p)'
  <2>1. query'[p] = query[p] /\ QueryInv(p)
    BY <1>0 DEF QueriesInv, QueryTypeOK
  <2> QED BY <1>0, <2>1 DEF QueryInv, ReadsInv, FoundInv, CountInv, Settled, Involves, About,
                         Recorded, Entitled, vars
<1>2. QueryTypeOK'
  BY <1>0 DEF QueriesInv, QueryTypeOK
<1> QED BY <1>1, <1>2 DEF QueriesInv, QueryInv

LEMMA AcknowledgedRecorded ==
    ASSUME SagaInv, NEW q, NEW c \in Acknowledged(q)
    PROVE  c \in Calls /\ Recorded(c) /\ About(q, c)
BY DEF SagaInv, AnswerInv, Acknowledged, Told, Recorded, About

\* A query that goes on without having read anything.
LEMMA QueryMoves ==
    ASSUME SagaInv, QueriesInv, NEW q \in Queries, NEW new \in QueryState, Become(q, new),
           new.found = query[q].found,
           new.before = query[q].before \/ new.before = Acknowledged(q),
           \/ new.pc = "failed" /\ new.due = query[q].due
           \/ new.pc = "authorize" /\ new.due = {}
           \/ new.pc = "done" /\ new.due = {} /\ ask[q].kind # "history"
           \/ new.pc = "read" /\ new.due = {"record"} /\ ask[q].kind = "transaction"
           \/ new.pc = "read" /\ new.due = {"group"} /\ ask[q].kind = "statistics"
           \/ new.pc = "read" /\ new.due = {"find", "count"} /\ ask[q].kind = "history"
    PROVE  QueriesInv'
<1>0. query'[q] = new /\ UNCHANGED <<vars, ask>> /\ QueryInv(q)
  BY DEF Become, QueriesInv, QueryTypeOK
<1>1. ReadsInv(q)'
  BY <1>0 DEF QueryInv, ReadsInv
<1>2. FoundInv(q)'
  <2>1. \A c \in new.before : Recorded(c) /\ About(q, c)
    BY <1>0, AcknowledgedRecorded DEF QueryInv, FoundInv
  <2> QED BY <1>0, <2>1 DEF QueryInv, FoundInv, About, Settled, Involves, Recorded, vars
<1>3. CountInv(q)'
  BY <1>0 DEF CountInv
<1> QED BY <1>1, <1>2, <1>3, QueryFrame

LEMMA FindTransactionStep ==
    ASSUME SagaInv, QueriesInv, NEW q \in Queries, FindTransaction(q)
    PROVE  QueriesInv'
<1> DEFINE found == findById(ask[q].of)
           pc == IF found = {} THEN "notFound"
                 ELSE IF ask[q].user \in {NoUser, req[ask[q].of].user} THEN "done"
                 ELSE "failed"
           new == [query[q] EXCEPT !.pc = pc, !.due = {}, !.found = found]
<1>0. query[q] \in QueryState /\ QueryInv(q) /\ ask[q].kind = "transaction"
  BY DEF QueriesInv, QueryTypeOK, FindTransaction, QueryInv, ReadsInv
<1>1. \A c \in found : c \in Calls /\ Settled(c)
  BY FoundSettled
<1>2. found = {} => query[q].before = {}
  BY <1>0 DEF QueryInv, FoundInv, About, findById, QueryState
<1>3. pc \in {"notFound", "done", "failed"} /\ (pc = "notFound" => found = {})
  OBVIOUS
<1>4. Become(q, new)
  BY DEF FindTransaction
<1> HIDE DEF found, pc
<1>5. /\ new \in QueryState /\ new.pc = pc /\ new.due = {} /\ new.found = found
      /\ new.before = query[q].before
  BY <1>0, <1>1, <1>3 DEF QueryState
<1> HIDE DEF new
<1>6. query'[q] = new /\ UNCHANGED <<vars, ask>>
  BY <1>4 DEF Become, QueriesInv, QueryTypeOK
<1>7. ReadsInv(q)'
  BY <1>5, <1>6 DEF ReadsInv
<1>8. FoundInv(q)'
  BY <1>0, <1>1, <1>2, <1>3, <1>5, <1>6
     DEF QueryInv, FoundInv, About, Settled, Involves, Recorded, vars
<1>9. CountInv(q)'
  BY <1>0, <1>6 DEF CountInv
<1> QED BY <1>4, <1>5, <1>7, <1>8, <1>9, QueryFrame

LEMMA ReceiveStep ==
    ASSUME SagaInv, QueriesInv, NEW q \in Queries, NEW read \in Reads,
           NEW found \in SUBSET Calls, NEW total \in Nat,
           Receive(q, read, found, total), \A c \in found : Settled(c),
           \/ /\ read = "find" /\ total = query[q].total
              /\ found = Matching(ask[q].account)
           \/ /\ read = "count" /\ found = query[q].found
              /\ total = Cardinality(Matching(ask[q].account))
           \/ read = "group"
    PROVE  QueriesInv'
<1> DEFINE new == [query[q] EXCEPT !.pc = IF query[q].due = {read} THEN "done" ELSE "read",
                                   !.due = query[q].due \ {read},
                                   !.found = found, !.total = total]
           there == Matching(ask[q].account)
<1>0. query[q] \in QueryState /\ QueryInv(q)
  BY DEF QueriesInv, QueryTypeOK
<1>1. /\ new \in QueryState /\ new.found = found /\ new.before = query[q].before
      /\ new.due = query[q].due \ {read} /\ new.total = total
      /\ new.pc = "done" => query[q].due = {read}
      /\ new.pc \in {"read", "done"}
  BY <1>0 DEF QueryState
<1>2. Become(q, new) /\ query[q].pc = "read" /\ read \in query[q].due
  BY DEF Receive
<1> HIDE DEF new
<1>3. query'[q] = new /\ UNCHANGED <<vars, ask>>
  BY <1>2 DEF Become, QueriesInv, QueryTypeOK
<1>4. ReadsInv(q)'
  BY <1>0, <1>1, <1>3 DEF QueryInv, ReadsInv
<1>5. ask[q].kind = "history" /\ "find" \notin new.due => query[q].before \subseteq found
  <2>1. CASE read = "find"
    BY <1>0, <2>1 DEF QueryInv, FoundInv, About, Matching, QueryState
  <2>2. CASE read # "find"
    BY <1>0, <1>1, <1>2, <2>2 DEF QueryInv, ReadsInv, FoundInv, Reads
  <2> QED BY <2>1, <2>2
<1>6. FoundInv(q)'
  BY <1>0, <1>1, <1>3, <1>5 DEF QueryInv, FoundInv, About, Settled, Involves, Recorded, vars
<1>7. CountInv(q)'
  <2> SUFFICES ASSUME ask[q].kind = "history", "count" \notin new.due
               PROVE  /\ Cardinality(query[q].before) <= total
                      /\ total <= Cardinality(Entitled(ask[q].account))
    <3>1. Entitled(ask[q].account)' = Entitled(ask[q].account)
      BY <1>3 DEF Entitled, Settled, Involves, vars
    <3> QED BY <1>1, <1>3, <3>1 DEF CountInv
  <2>1. CASE read = "count"
    <3>1. query[q].before \subseteq there
      BY <1>0 DEF QueryInv, FoundInv, About, Matching, QueryState
    <3> QED BY <2>1, <3>1, CountBounds
  <2>2. CASE read = "find"
    BY <1>0, <1>1, <1>2, <2>2 DEF QueryInv, CountInv
  <2>3. CASE read = "group"
    BY <1>0, <1>2, <2>3 DEF QueryInv, ReadsInv
  <2> QED BY <2>1, <2>2, <2>3
<1> QED BY <1>1, <1>2, <1>4, <1>6, <1>7, QueryFrame

LEMMA QuerySteps ==
    ASSUME SagaInv, QueriesInv, NEW q \in Queries, AnswerQuery(q) \/ FailQuery(q)
    PROVE  QueriesInv'
<1>0. /\ query[q] \in QueryState /\ ask[q].kind \in Kinds /\ ask[q].account \in Accounts
      /\ QueryInv(q) /\ Acknowledged(q) \subseteq Calls /\ BalanceOf(ask[q].account) \in Int
  <2>1. ask[q].kind \in Kinds /\ ask[q].account \in Accounts
    BY AsksAssumption DEF QueriesInv, QueryTypeOK, Ask
  <2> QED BY <2>1, AcknowledgedRecorded, BalanceType DEF QueriesInv, QueryTypeOK, SagaInv
<1>1. query[q].pc \in {"idle", "authorize"} => query[q].due = {}
  BY <1>0 DEF QueryInv, ReadsInv
<1>2. CASE AskQuery(q) /\ ask[q].kind = "transaction"
  <2> DEFINE new == [query[q] EXCEPT !.pc = "read", !.due = {"record"}, !.before = Acknowledged(q)]
  <2>1. /\ new \in QueryState /\ new.found = query[q].found
        /\ new.before = Acknowledged(q) /\ new.pc = "read" /\ new.due = {"record"}
    BY <1>0 DEF QueryState, Reads
  <2>2. Become(q, new)
    BY <1>2 DEF AskQuery
  <2> HIDE DEF new
  <2> QED BY <1>2, <2>1, <2>2, QueryMoves
<1>3. CASE AskQuery(q) /\ ask[q].kind # "transaction"
  <2> DEFINE new == [query[q] EXCEPT !.pc = "authorize", !.before = Acknowledged(q)]
  <2>1. /\ new \in QueryState /\ new.found = query[q].found
        /\ new.before = Acknowledged(q) /\ new.pc = "authorize" /\ new.due = query[q].due
    BY <1>0 DEF QueryState
  <2>2. Become(q, new) /\ query[q].pc = "idle"
    BY <1>3 DEF AskQuery
  <2> HIDE DEF new
  <2> QED BY <1>1, <2>1, <2>2, QueryMoves
<1>4. CASE Refuse(q) \/ FailQuery(q)
  <2> DEFINE new == [query[q] EXCEPT !.pc = "failed"]
  <2>1. /\ new \in QueryState /\ new.found = query[q].found
        /\ new.before = query[q].before /\ new.pc = "failed" /\ new.due = query[q].due
    BY <1>0, <1>1 DEF QueryState, Reads
  <2>2. Become(q, new)
    BY <1>4 DEF Refuse, FailQuery
  <2> HIDE DEF new
  <2> QED BY <1>1, <2>1, <2>2, QueryMoves
<1>5. CASE AuthorizeHistory(q)
  <2> DEFINE new == [query[q] EXCEPT !.pc = "read", !.due = {"find", "count"}]
  <2>1. /\ new \in QueryState /\ new.found = query[q].found
        /\ new.before = query[q].before /\ new.pc = "read" /\ new.due = {"find", "count"}
    BY <1>0, <1>1 DEF QueryState, Reads
  <2>2. Become(q, new) /\ ask[q].kind = "history"
    BY <1>5 DEF AuthorizeHistory, Authorized
  <2> HIDE DEF new
  <2> QED BY <1>1, <2>1, <2>2, QueryMoves
<1>6. CASE AuthorizeStatistics(q)
  <2> DEFINE new == [query[q] EXCEPT !.pc = "read", !.due = {"group"}]
  <2>1. /\ new \in QueryState /\ new.found = query[q].found
        /\ new.before = query[q].before /\ new.pc = "read" /\ new.due = {"group"}
    BY <1>0, <1>1 DEF QueryState, Reads
  <2>2. Become(q, new) /\ ask[q].kind = "statistics"
    BY <1>6 DEF AuthorizeStatistics, Authorized
  <2> HIDE DEF new
  <2> QED BY <1>1, <2>1, <2>2, QueryMoves
<1>7. CASE AnswerAccount(q)
  <2> DEFINE new == [query[q] EXCEPT !.pc = "done", !.balance = BalanceOf(ask[q].account)]
  <2>1. /\ new \in QueryState /\ new.found = query[q].found
        /\ new.before = query[q].before /\ new.pc = "done" /\ new.due = query[q].due
    BY <1>0, <1>1 DEF QueryState, Reads
  <2>2. Become(q, new) /\ ask[q].kind = "account" /\ query[q].pc = "authorize"
    BY <1>7 DEF AnswerAccount, Authorized
  <2> HIDE DEF new
  <2> QED BY <1>1, <2>1, <2>2, QueryMoves
<1>8. CASE PayBill(q)
  <2> DEFINE new == [query[q] EXCEPT !.pc = "done"]
  <2>1. /\ new \in QueryState /\ new.found = query[q].found
        /\ new.before = query[q].before /\ new.pc = "done" /\ new.due = query[q].due
    BY <1>0, <1>1 DEF QueryState, Reads
  <2>2. Become(q, new) /\ ask[q].kind = "billPayment" /\ query[q].pc = "authorize"
    BY <1>8 DEF PayBill, Authorized
  <2> HIDE DEF new
  <2> QED BY <1>1, <2>1, <2>2, QueryMoves
<1>9. CASE Find(q)
  <2> DEFINE found == Matching(ask[q].account)
  <2>1. found \subseteq Calls /\ \A c \in found : Settled(c)
    BY FoundSettled
  <2>2. query[q].total \in Nat
    BY <1>0 DEF QueryState
  <2>3. Receive(q, "find", found, query[q].total)
    BY <1>9, OnePage DEF Find
  <2> HIDE DEF found
  <2> QED BY <2>1, <2>2, <2>3, ReceiveStep DEF Reads, found
<1>10. CASE Count(q)
  <2> DEFINE there == Matching(ask[q].account)
  <2>1. query[q].found \subseteq Calls /\ \A c \in query[q].found : Settled(c)
    BY <1>0 DEF QueryState, QueryInv, FoundInv
  <2>2. Cardinality(there) \in Nat
    BY CountBounds
  <2>3. Receive(q, "count", query[q].found, Cardinality(there))
    BY <1>10 DEF Count, countDocuments
  <2> HIDE DEF there
  <2> QED BY <2>1, <2>2, <2>3, ReceiveStep DEF Reads, there
<1>11. CASE Group(q)
  <2>1. getStatistics(ask[q].account) \subseteq Calls
        /\ \A c \in getStatistics(ask[q].account) : Settled(c)
    BY FoundSettled
  <2> QED BY <1>11, <2>1, ReceiveStep DEF Group, Reads
<1> QED BY <1>2, <1>3, <1>4, <1>5, <1>6, <1>7, <1>8, <1>9, <1>10, <1>11, FindTransactionStep
        DEF AnswerQuery

LEMMA QueriesStep ==
    ASSUME SagaInv, SagaInv', QueriesInv, [HistoryNext]_historyVars
    PROVE  QueriesInv'
<1>1. CASE TransfersWork \/ CrashAll
  <2>1. ask' = ask /\ [Next]_vars
    BY <1>1, HistoryStep DEF TransfersWork, CrashAll, HistoryNext, queryVars
  <2> DEFINE Keeps(q) ==
        /\ query'[q].before = query[q].before /\ query'[q].found = query[q].found
        /\ query'[q].due = query[q].due /\ query'[q].pc \in {query[q].pc, "failed"}
        /\ query'[q].total = query[q].total
  <2>2. ASSUME NEW q \in Queries PROVE query'[q] \in QueryState /\ Keeps(q)
    <3>1. query[q] \in QueryState
      BY DEF QueriesInv, QueryTypeOK
    <3>2. CASE TransfersWork
      BY <3>1, <3>2 DEF TransfersWork, queryVars
    <3>3. CASE CrashAll
      BY <3>1, <3>3 DEF CrashAll, QueryState
    <3> QED BY <1>1, <3>2, <3>3
  <2>3. \E f : query' = [q \in Queries |-> f[q]]
    BY <1>1 DEF TransfersWork, CrashAll, queryVars, QueriesInv, QueryTypeOK
  <2>4. QueryTypeOK'
    BY <2>1, <2>2, <2>3 DEF QueriesInv, QueryTypeOK
  <2>5. ASSUME NEW q \in Queries PROVE QueryInv(q)'
    BY <2>1, <2>2, <2>4, QueriesKeep
  <2> QED BY <2>4, <2>5 DEF QueriesInv
<1>2. CASE HistoryQuiet \/ UNCHANGED historyVars
  <2>1. UNCHANGED <<vars, ask, query>>
    BY <1>2 DEF HistoryQuiet, Quiet, historyVars, queryVars
  <2>2. ASSUME NEW q \in Queries PROVE QueryInv(q)'
    <3>1. QueryInv(q)
      BY DEF QueriesInv
    <3>2. ReadsInv(q)' /\ FoundInv(q)'
      BY <2>1, <3>1 DEF QueryInv, ReadsInv, FoundInv, About, Recorded, Settled, Involves, vars
    <3>3. CountInv(q)'
      BY <2>1, <3>1 DEF QueryInv, CountInv, Entitled, Settled, Involves, vars
    <3> QED BY <3>2, <3>3 DEF QueryInv
  <2> QED BY <2>1, <2>2 DEF QueriesInv, QueryTypeOK
<1> QED BY <1>1, <1>2, QuerySteps DEF HistoryNext

LEMMA QueriesInvariant == HistorySpec => [](SagaInv /\ QueriesInv)
<1>1. HistorySpec => []SagaInv
  BY QueriesOnlyRead, SagaInvariant, PTL
<1>2. HistoryInit => QueriesInv
  BY QueriesInit DEF HistoryInit
<1>3. SagaInv /\ SagaInv' /\ QueriesInv /\ [HistoryNext]_historyVars => QueriesInv'
  BY QueriesStep
<1> QED BY <1>1, <1>2, <1>3, PTL DEF HistorySpec

\* The variables of the transfers and of the queries keep their types.
THEOREM HistoryTypeCorrect == HistorySpec => []HistoryTypeOK
<1>1. SagaInv /\ QueriesInv => HistoryTypeOK
  BY DEF SagaInv, QueriesInv, HistoryTypeOK
<1> QED BY <1>1, QueriesInvariant, PTL

\* A client sees the transfers it was told of in every later history, and finds
\* each by its id.
THEOREM HistoriesAreComplete == HistorySpec => []ReadYourTransfers
<1>1. QueriesInv => ReadYourTransfers
  BY DEF QueriesInv, QueryInv, ReadsInv, FoundInv, ReadYourTransfers
<1> QED BY <1>1, QueriesInvariant, PTL

\* No query shows a transfer that has not moved its money.
THEOREM OnlySettledEntries == HistorySpec => []EntriesAreSettled
<1>1. QueriesInv => EntriesAreSettled
  BY DEF QueriesInv, QueryInv, FoundInv, EntriesAreSettled
<1> QED BY <1>1, QueriesInvariant, PTL

\* total_count is never behind what clients were told of before they asked, and
\* never counts a transfer that has not moved its money, whatever is committed
\* between the find and the count.
THEOREM TotalsCountTransfers == HistorySpec => []TotalCountsTransfers
<1>1. QueriesInv => TotalCountsTransfers
  <2> SUFFICES ASSUME QueriesInv, NEW q \in Queries,
                      query[q].pc = "done", ask[q].kind = "history"
               PROVE  /\ Cardinality(query[q].before) <= query[q].total
                      /\ query[q].total <= Cardinality(Entitled(ask[q].account))
    BY DEF TotalCountsTransfers, Entitled
  <2>1. query[q].due = {}
    BY DEF QueriesInv, QueryInv, ReadsInv
  <2> QED BY <2>1 DEF QueriesInv, QueryInv, CountInv
<1> QED BY <1>1, QueriesInvariant, PTL

-----------------------------------------------------------------------------
(* What queries show of balances.  An account's balance is what its entries *)
(* add up to, those of the transfers that moved money from it or to it.     *)

\* The only step that answers an account query shows the balance as it is.
LEMMA AccountStep ==
    ASSUME QueriesInv, [HistoryNext]_historyVars, NEW q \in Queries,
           ask[q].kind = "account", query[q].pc = "authorize", query'[q].pc = "done"
    PROVE  query'[q].balance = BalanceOf(ask[q].account)
<1>0. /\ query[q] \in QueryState
      /\ \A new : [query[q] EXCEPT !.pc = "done", !.balance = new].balance = new
      /\ query \in [Queries -> QueryState]
  BY DEF QueriesInv, QueryTypeOK, QueryState
<1>1. ASSUME NEW p \in Queries, NEW next, Become(p, next), query' # query PROVE p = q
  BY <1>0, <1>1 DEF Become
<1>2. AnswerAccount(q)
  <2>1. ~TransfersWork /\ ~CrashAll /\ ~HistoryQuiet /\ ~UNCHANGED historyVars
    <3>1. ~TransfersWork
      BY <1>0 DEF TransfersWork, queryVars, QueryState
    <3>2. ~CrashAll
      BY <1>0 DEF CrashAll, QueryState
    <3> QED BY <3>1, <3>2 DEF HistoryQuiet, queryVars, historyVars
  <2>2. PICK p \in Queries : AnswerQuery(p) \/ FailQuery(p)
    BY <2>1 DEF HistoryNext
  <2>3. p = q
    BY <1>1, <2>2 DEF AnswerQuery, AskQuery, Refuse, AuthorizeHistory, AuthorizeStatistics,
                      AnswerAccount, PayBill, FindTransaction, Receive, Find, Count, Group,
                      FailQuery
  <2>4. query[q].pc # "read" /\ query[q].pc # "idle"
    OBVIOUS
  <2>5. ~Refuse(q) /\ ~FailQuery(q)
    BY <1>0 DEF Refuse, FailQuery, Become, QueryState
  <2> QED BY <2>2, <2>3, <2>4, <2>5
          DEF AnswerQuery, AskQuery, AuthorizeHistory, AuthorizeStatistics, PayBill, Authorized,
              FindTransaction, Receive, Find, Count, Group
<1> QED BY <1>0, <1>2 DEF AnswerAccount, Become

LEMMA AccountShowsStep ==
    ASSUME SagaInv, MoneyInv, QueriesInv, [HistoryNext]_historyVars, NEW q \in Queries,
           ask[q].kind = "account", query[q].pc = "authorize", query'[q].pc = "done",
           ask[q].account \notin gone
    PROVE  Shows(query'[q].balance, ask[q].account, query[q].before)
<1> DEFINE a == ask[q].account
<1>1. TypeOK /\ a \in Accounts
  BY AsksAssumption DEF SagaInv, QueriesInv, QueryTypeOK, Ask
<1>2. Moved(a) \in SUBSET {c \in Calls : Involves(c, a)}
  BY DEF Moved, PaidFrom, PaidTo, Involves
<1>3. query[q].before \subseteq Moved(a)
  <2> SUFFICES ASSUME NEW c \in query[q].before PROVE c \in Moved(a)
    OBVIOUS
  <2>1. c \in Calls /\ Recorded(c) /\ Involves(c, a)
    BY DEF QueriesInv, QueryTypeOK, QueryState, QueryInv, FoundInv, About
  <2> QED BY <2>1, RecordedMoved DEF Recorded
<1>4. query'[q].balance = BalanceOf(a)
  BY AccountStep
<1>5. BalanceOf(a) = endowed[a] + Total(Moved(a), a)
  BY <1>1, EntriesExplain
<1> QED BY <1>2, <1>3, <1>4, <1>5 DEF Shows

LEMMA HistoryMoney == HistorySpec => [](SagaInv /\ MoneyInv /\ QueriesInv)
BY QueriesOnlyRead, MoneyInvariant, QueriesInvariant, PTL

\* The balance of an account query is never behind the transfers that clients
\* were told of before they asked.
THEOREM BalancesAreNotBehind == HistorySpec => BalanceShowsYourTransfers
<1>1. SagaInv /\ MoneyInv /\ QueriesInv /\ [HistoryNext]_historyVars =>
          [\A q \in Queries :
              LET a == ask[q].account IN
              /\ ask[q].kind = "account" /\ query[q].pc = "authorize" /\ query'[q].pc = "done"
              /\ a \notin gone
              => Shows(query'[q].balance, a, query[q].before)
          ]_historyVars
  BY AccountShowsStep
<1> QED BY <1>1, HistoryMoney, PTL DEF HistorySpec, BalanceShowsYourTransfers

\* The only step that answers the find of a history shows the records as they
\* are.
LEMMA FindStep ==
    ASSUME QueriesInv, [HistoryNext]_historyVars, NEW q \in Queries,
           "find" \in query[q].due, "find" \notin query'[q].due
    PROVE  query'[q].found = Matching(ask[q].account)
<1>0. /\ query[q] \in QueryState /\ query \in [Queries -> QueryState]
      /\ ask[q].kind = "history"
      /\ query[q].pc \notin {"idle", "authorize"}
  BY DEF QueriesInv, QueryTypeOK, QueryInv, ReadsInv
<1>1. ASSUME NEW p \in Queries, NEW next, Become(p, next), query' # query PROVE p = q
  BY <1>0, <1>1 DEF Become
<1>2. Find(q)
  <2>1. ~TransfersWork /\ ~CrashAll /\ ~HistoryQuiet /\ ~UNCHANGED historyVars
    <3>1. ~TransfersWork
      BY <1>0 DEF TransfersWork, queryVars, QueryState
    <3>2. ~CrashAll
      BY <1>0 DEF CrashAll, QueryState
    <3> QED BY <3>1, <3>2 DEF HistoryQuiet, queryVars, historyVars
  <2>2. PICK p \in Queries : AnswerQuery(p) \/ FailQuery(p)
    BY <2>1 DEF HistoryNext
  <2>3. p = q
    BY <1>1, <2>2 DEF AnswerQuery, AskQuery, Refuse, AuthorizeHistory, AuthorizeStatistics,
                      AnswerAccount, PayBill, FindTransaction, Receive, Find, Count, Group,
                      FailQuery
  <2>4. ~FailQuery(q)
    BY <1>0 DEF FailQuery, Become, QueryState
  <2>5. ~FindTransaction(q)
    BY <1>0 DEF FindTransaction, QueriesInv, QueryInv, ReadsInv
  <2>6. ~Count(q) /\ ~Group(q)
    <3>1. ASSUME NEW read, NEW found, NEW total, Receive(q, read, found, total),
                 read # "find"
          PROVE  FALSE
      <4>1. query'[q].due = query[q].due \ {read}
        BY <1>0, <3>1 DEF Receive, Become, QueryState
      <4> QED BY <3>1, <4>1
    <3>2. ~Count(q)
      BY <3>1 DEF Count
    <3> QED BY <3>1, <3>2 DEF Group
  <2> QED BY <1>0, <2>2, <2>3, <2>4, <2>5, <2>6
          DEF AnswerQuery, AskQuery, Refuse, AuthorizeHistory, AuthorizeStatistics,
              AnswerAccount, PayBill, Authorized
<1> QED BY <1>0, <1>2, OnePage DEF Find, Receive, Become, QueryState

\* Without faults, and with no transfer of the account under way, what moved
\* its money is what is recorded.
LEMMA RecordsAreMoves ==
    ASSUME SagaInv, MoneyInv, NEW a \in Accounts, a \notin gone, spent["fault"] = 0,
           \A c \in Calls : InFlight(c) => ~Involves(c, a)
    PROVE  Matching(a) = Moved(a)
<1>1. ASSUME NEW c \in Calls, Recorded(c), Involves(c, a) PROVE c \in Moved(a)
  BY <1>1 DEF SagaInv, AnswerInv, Recorded, Settled, Involves, Moved, PaidFrom, PaidTo
<1>2. ASSUME NEW c \in Moved(a) PROVE c \in Calls /\ Recorded(c) /\ Involves(c, a)
  <2>1. c \in Calls /\ Involves(c, a) /\ moves[c] # {}
    BY <1>2 DEF Moved, PaidFrom, PaidTo, Involves
  <2>2. call[c].pc \notin Moving
    BY <2>1 DEF InFlight, Running, Moving
  <2> QED BY <2>1, <2>2 DEF MoneyInv, LegsInv, Recorded
<1> QED BY <1>1, <1>2 DEF Matching, Moved, PaidFrom, PaidTo

\* A history read while nothing fails and nothing is under way explains the
\* balance: its entries add up to it.
THEOREM HistoriesExplain == HistorySpec => HistoryExplainsBalance
<1>1. SagaInv /\ MoneyInv /\ QueriesInv /\ [HistoryNext]_historyVars =>
          [\A q \in Queries :
              LET a == ask[q].account IN
              /\ "find" \in query[q].due /\ "find" \notin query'[q].due
              /\ spent["fault"] = 0 /\ a \notin gone
              /\ \A c \in Calls : InFlight(c) => ~Involves(c, a)
              => BalanceOf(a) = endowed[a] + Total(query'[q].found, a)
          ]_historyVars
  <2> SUFFICES ASSUME SagaInv, MoneyInv, QueriesInv, [HistoryNext]_historyVars,
                      NEW q \in Queries,
                      "find" \in query[q].due, "find" \notin query'[q].due,
                      spent["fault"] = 0, ask[q].account \notin gone,
                      \A c \in Calls : InFlight(c) => ~Involves(c, ask[q].account)
               PROVE  BalanceOf(ask[q].account) =
                          endowed[ask[q].account] + Total(query'[q].found, ask[q].account)
    OBVIOUS
  <2>1. TypeOK /\ ask[q].account \in Accounts
    BY AsksAssumption DEF SagaInv, QueriesInv, QueryTypeOK, Ask
  <2>2. query'[q].found = Moved(ask[q].account)
    BY <2>1, FindStep, RecordsAreMoves
  <2> QED BY <2>1, <2>2, EntriesExplain
<1> QED BY <1>1, HistoryMoney, PTL DEF HistorySpec, HistoryExplainsBalance

=============================================================================
