-------------------------------- MODULE Saga --------------------------------
(***************************************************************************)
(* What the transfer mutation promises, with everything about its handler  *)
(* left out.  A transfer is not a transaction: it is a saga whose steps    *)
(* are a debit, then a credit, then a record, and which is never           *)
(* compensated.  It may stop after any of them.  Its client learns one     *)
(* verdict: acknowledged only on the strength of a complete saga, refused  *)
(* only if nothing has happened, failed at any point.                      *)
(***************************************************************************)
EXTENDS Naturals

CONSTANTS Transfers, Accounts

VARIABLES
    order,     \* transfer -> what is asked: from, to, amount and the key
    legs,      \* transfer -> the legs that changed a balance
    recorded,  \* the transfers with a committed record
    verdict,   \* transfer -> what its client has been told
    gone       \* the accounts deleted at some time

sagaVars == <<order, legs, recorded, verdict, gone>>

Verdicts == {"pending", "acknowledged", "refused", "failed"}

\* The order itself is a parameter that never changes.
SagaInit ==
    /\ legs = [t \in Transfers |-> {}]
    /\ recorded = {}
    /\ verdict = [t \in Transfers |-> "pending"]
    /\ gone = {}

Pending(t) == verdict[t] = "pending"

Debited(t) == "debit" \in legs[t] \/ order[t].from \in gone
Credited(t) == "credit" \in legs[t] \/ order[t].to \in gone

TakeDebit(t) ==
    /\ Pending(t) /\ t \notin recorded /\ legs[t] = {}
    /\ legs' = [legs EXCEPT ![t] = {"debit"}]
    /\ UNCHANGED <<order, recorded, verdict, gone>>

GiveCredit(t) ==
    /\ Pending(t) /\ t \notin recorded /\ Debited(t) /\ "credit" \notin legs[t]
    /\ legs' = [legs EXCEPT ![t] = @ \cup {"credit"}]
    /\ UNCHANGED <<order, recorded, verdict, gone>>

Record(t) ==
    /\ Pending(t) /\ Debited(t) /\ Credited(t)
    /\ recorded' = recorded \cup {t}
    /\ UNCHANGED <<order, legs, verdict, gone>>

\* On its own record, or on that of another transfer with the same key.
Acknowledge(t) ==
    /\ Pending(t)
    /\ \/ t \in recorded
       \/ legs[t] = {} /\ \E u \in recorded : order[u].key = order[t].key
    /\ verdict' = [verdict EXCEPT ![t] = "acknowledged"]
    /\ UNCHANGED <<order, legs, recorded, gone>>

Refuse(t) ==
    /\ Pending(t) /\ t \notin recorded /\ legs[t] = {}
    /\ verdict' = [verdict EXCEPT ![t] = "refused"]
    /\ UNCHANGED <<order, legs, recorded, gone>>

\* One transfer fails, or all that are under way at once when the process dies.
Fail(some) ==
    /\ some # {} /\ \A t \in some : Pending(t)
    /\ verdict' = [t \in Transfers |-> IF t \in some THEN "failed" ELSE verdict[t]]
    /\ UNCHANGED <<order, legs, recorded, gone>>

Remove(a) == gone' = gone \cup {a} /\ UNCHANGED <<order, legs, recorded, verdict>>

SagaNext ==
    \/ \E t \in Transfers : \/ TakeDebit(t) \/ GiveCredit(t) \/ Record(t)
                            \/ Acknowledge(t) \/ Refuse(t)
    \/ \E some \in SUBSET Transfers : Fail(some)
    \/ \E a \in Accounts : Remove(a)

SagaSpec == SagaInit /\ [][SagaNext]_sagaVars

=============================================================================
