------------------------- MODULE TransactionHistory -------------------------
(***************************************************************************)
(* The queries and the billPayment stub, next to the transfers whose       *)
(* records and balances they read, outside of any session.  All but the    *)
(* query of one transaction authorize their user by the account they are   *)
(* about.  The history then reads the transactions collection twice, by a  *)
(* find and a count that Promise.all sends together and that the server    *)
(* runs in either order.                                                   *)
(*                                                                         *)
(* The order of the entries and the filter on dates are left out.          *)
(***************************************************************************)
EXTENDS Transfer

CONSTANTS
    Queries,
    Asks     \* what clients may ask for; a limit of 0 stands for none given

Kinds == {"history", "statistics", "account", "transaction", "billPayment"}

\* What is asked about is an account, or the one transaction of a call.
Ask == [kind : Kinds, account : Accounts, of : Calls \cup {NoCall}, limit : Nat,
        user : Users \cup {NoUser}]

ASSUME AsksAssumption == Asks \subseteq Ask

VARIABLES
    ask,     \* query -> what it asks for
    query    \* query -> where its handler is and what it holds

queryVars == <<ask, query>>
historyVars == <<vars, ask, query>>

Reads == {"record", "find", "count", "group"}

QueryState == [pc : {"idle", "authorize", "read", "done", "notFound", "failed"},
               due : SUBSET Reads,       \* the reads not answered yet
               found : SUBSET Calls,     \* the transfers whose records were read
               total : Nat,
               balance : Int,            \* what an account query returned
               before : SUBSET Calls]    \* history: acknowledged when it was asked

QueryTypeOK ==
    /\ ask \in [Queries -> Asks]
    /\ query \in [Queries -> QueryState]

HistoryTypeOK == TypeOK /\ QueryTypeOK

HistoryInit ==
    /\ Init
    /\ ask \in [Queries -> Asks]
    /\ query = [q \in Queries |-> [pc |-> "idle", due |-> {}, found |-> {}, total |-> 0,
                                   balance |-> 0, before |-> {}]]

-----------------------------------------------------------------------------

Reading(q) == query[q].pc \in {"authorize", "read"}

Recorded(c) == transactions[c] # "none"

\* Those that query q is about.
Acknowledged(q) ==
    {c \in Told : IF ask[q].kind = "transaction" THEN c = ask[q].of
                                                ELSE Involves(c, ask[q].account)}

\* Query q goes on; the transfers do not.
Become(q, next) ==
    /\ query' = [query EXCEPT ![q] = next]
    /\ UNCHANGED <<vars, ask>>

AskQuery(q) ==
    /\ query[q].pc = "idle"
    /\ Become(q, IF ask[q].kind = "transaction"
                    THEN [query[q] EXCEPT !.pc = "read", !.due = {"record"},
                                          !.before = Acknowledged(q)]
                    ELSE [query[q] EXCEPT !.pc = "authorize", !.before = Acknowledged(q)])

\* A context without a user may read every account.
MayRead(user, account) == account # NoAccount /\ user \in {NoUser, account.userId}

Permitted(q) == MayRead(ask[q].user, findByAccountNo(ask[q].account))

Refuse(q) ==
    /\ query[q].pc = "authorize"
    /\ ~Permitted(q)
    /\ Become(q, [query[q] EXCEPT !.pc = "failed"])

Authorized(q, kind) == query[q].pc = "authorize" /\ Permitted(q) /\ ask[q].kind = kind

AuthorizeHistory(q) ==
    /\ Authorized(q, "history")
    /\ Become(q, [query[q] EXCEPT !.pc = "read", !.due = {"find", "count"}])

AuthorizeStatistics(q) ==
    /\ Authorized(q, "statistics")
    /\ Become(q, [query[q] EXCEPT !.pc = "read", !.due = {"group"}])

\* The document read for the authorization is the answer.
AnswerAccount(q) ==
    /\ Authorized(q, "account")
    /\ Become(q, [query[q] EXCEPT !.pc = "done", !.balance = BalanceOf(ask[q].account)])

\* The service's billPayment is empty: no money moves, nothing is returned.
PayBill(q) ==
    /\ Authorized(q, "billPayment")
    /\ Become(q, [query[q] EXCEPT !.pc = "done"])

\* Math.min(request.limit || 50, 100)
PageSize(limit) == IF limit = 0 THEN 50 ELSE IF limit > 100 THEN 100 ELSE limit

\* The committed records of an account.
Matching(a) == {c \in Calls : Recorded(c) /\ Involves(c, a)}

\* What skip and limit may leave of a set whose order is left out.  A limit of 0
\* is none, like an undefined one.
Pages(set, options) ==
    LET rest == Cardinality(set) - options.offset
        size == IF options.limit = 0 \/ rest < options.limit THEN rest ELSE options.limit
    IN  {page \in SUBSET set : Cardinality(page) = IF size < 0 THEN 0 ELSE size}

\* Mutant: only the transfers from the account are its transactions.
findBySender(a, options) == Pages({c \in Calls : Recorded(c) /\ req[c].from = a}, options)

findByAccount(a, options) == Pages(Matching(a), options)

\* findByAccount takes limit and offset from options, but the service gives it
\* the limit itself, a number, which has neither (and the offset in the place of
\* its filters, where it sets none).
OptionsOf(number) == [limit |-> 0, offset |-> 0]

\* Mutant: the count takes the collection's estimate, without the filter.
estimatedDocumentCount(a) == Cardinality({c \in Calls : Recorded(c)})

\* The count has the filter of the find, but neither skip nor limit.
countDocuments(a) == Cardinality(Matching(a))

getStatistics(a) == {c \in Calls : transactions[c] = "SUCCESS" /\ Involves(c, a)}

\* Mutant: only transactions marked SUCCESS are found.
findSucceeded(id) == {c \in Calls : transactions[c] = "SUCCESS" /\ c = id}

findById(id) == {c \in Calls : Recorded(c) /\ c = id}

\* The one read of a transaction, and the comparison of its user.
FindTransaction(q) ==
    LET found == findById(ask[q].of) IN
    /\ query[q].pc = "read"
    /\ "record" \in query[q].due
    /\ Become(q, [query[q] EXCEPT
          !.pc = IF found = {} THEN "notFound"
                 ELSE IF ask[q].user \in {NoUser, req[ask[q].of].user} THEN "done"
                 ELSE "failed",
          !.due = {}, !.found = found])

\* A read is answered, and with the last of them the query.
Receive(q, read, found, total) ==
    /\ query[q].pc = "read"
    /\ read \in query[q].due
    /\ Become(q, [query[q] EXCEPT !.pc = IF query[q].due = {read} THEN "done" ELSE "read",
                                  !.due = query[q].due \ {read},
                                  !.found = found, !.total = total])

Find(q) ==
    \E page \in findByAccount(ask[q].account, OptionsOf(PageSize(ask[q].limit))) :
        Receive(q, "find", page, query[q].total)

Count(q) == Receive(q, "count", query[q].found, countDocuments(ask[q].account))

Group(q) == Receive(q, "group", getStatistics(ask[q].account), 0)

\* The awaited read fails; of two, the first to fail makes Promise.all throw.
FailQuery(q) ==
    /\ Reading(q)
    /\ Become(q, [query[q] EXCEPT !.pc = "failed"])

-----------------------------------------------------------------------------

AnswerQuery(q) ==
    \/ AskQuery(q) \/ Refuse(q)
    \/ AuthorizeHistory(q) \/ AuthorizeStatistics(q) \/ AnswerAccount(q) \/ PayBill(q)
    \/ FindTransaction(q) \/ Find(q) \/ Count(q) \/ Group(q)

\* The transfers go on next to the queries.
TransfersWork ==
    /\ Working
    /\ UNCHANGED queryVars

\* A crash takes the queries along.
CrashAll ==
    /\ Crash
    /\ query' = [q \in Queries |->
                    IF Reading(q) THEN [query[q] EXCEPT !.pc = "failed"] ELSE query[q]]
    /\ UNCHANGED ask

HistoryQuiet ==
    /\ \A q \in Queries : query[q].pc \in {"done", "notFound", "failed"}
    /\ Quiet
    /\ UNCHANGED queryVars

HistoryNext ==
    \/ \E q \in Queries : AnswerQuery(q) \/ FailQuery(q)
    \/ TransfersWork
    \/ CrashAll
    \/ HistoryQuiet

HistorySpec == HistoryInit /\ [][HistoryNext]_historyVars

-----------------------------------------------------------------------------
(* Properties.                                                             *)

\* A client who was told that a transfer succeeded sees it in every history
\* asked for afterwards, and finds it by its id, whatever crashed in between:
\* the reads go to the collection, a transfer is acknowledged only once it is
\* there, and no page ends before it (see HistoryIsPaged).
ReadYourTransfers ==
    \A q \in Queries :
        /\ query[q].pc = "done" /\ ask[q].kind = "history"
              => query[q].before \subseteq query[q].found
        /\ query[q].pc = "notFound" => query[q].before = {}

\* No query shows a transfer that has not moved its money, although the money
\* moves outside of the session that its record is written in.
EntriesAreSettled == \A q \in Queries : \A c \in query[q].found : Settled(c)

\* Whatever is committed between the find and the count, which share no
\* snapshot, total_count includes every transfer of the account that clients were
\* told of before they asked, and counts none that has not moved its money.
TotalCountsTransfers ==
    \A q \in Queries :
        query[q].pc = "done" /\ ask[q].kind = "history" =>
            /\ Cardinality(query[q].before) <= query[q].total
            /\ query[q].total <= Cardinality({c \in Calls : Involves(c, ask[q].account)
                                                            /\ Settled(c)})

\* As long as nothing fails, a history read while no transfer is under way
\* explains the balance: its entries add up to what the account gained and lost.
HistoryExplainsBalance ==
    [][\A q \in Queries :
          LET a == ask[q].account IN
          /\ "find" \in query[q].due /\ "find" \notin query'[q].due
          /\ spent["fault"] = 0 /\ a \notin gone
          /\ \A c \in Calls : InFlight(c) => ~Involves(c, a)
          => BalanceOf(a) = endowed[a] + Total(query'[q].found, a)
      ]_historyVars

\* The balance that an account query returns includes every transfer that
\* clients were told of before they asked, next to others at most: it is never
\* behind the answers, although it may be ahead of the history.
BalanceShowsYourTransfers ==
    [][\A q \in Queries :
          LET a == ask[q].account IN
          /\ ask[q].kind = "account" /\ query[q].pc = "authorize" /\ query'[q].pc = "done"
          /\ a \notin gone
          => Shows(query'[q].balance, a, query[q].before)
      ]_historyVars

-----------------------------------------------------------------------------
(* What the schema says and the program does not keep.                     *)

\* schema.ts:13 "Get transaction history for an account with pagination": a
\* page holds no more entries than were asked for.
HistoryIsPaged ==
    \A q \in Queries :
        query[q].pc = "done" /\ ask[q].kind = "history"
            => Cardinality(query[q].found) <= PageSize(ask[q].limit)

=============================================================================
