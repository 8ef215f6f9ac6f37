--------------------------- MODULE FraudDetection ---------------------------
(***************************************************************************)
(* FraudDetectionService over the transaction_logs collection.  Whoever    *)
(* writes logs stamps and then inserts them; a watcher hands every         *)
(* inserted log to processNewTransactionLog.  Both are outside of the      *)
(* repository.  Analyses run side by side, and each awaits two reads of    *)
(* the collection, between which logs go on being inserted.                *)
(*                                                                         *)
(* All processes read one clock.  Alerts are only logged, so an analysis   *)
(* ends with its list of risks.                                            *)
(***************************************************************************)
EXTENDS Integers, FiniteSets

CONSTANTS
    Logs,                \* a log names its transaction_id
    Details,             \* what logs may say: records of account, amount and ip
    Minute,              \* how far back the velocity check looks
    VelocityThreshold,
    HighValueThreshold,
    MaxTime              \* bounds the clock

ASSUME LogsAssumption == IsFiniteSet(Logs)
\* The fields of a log that the rules look at.
LogFields == {"account", "amount", "ip"}

ASSUME DetailsAssumption == \A d \in Details : DOMAIN d = LogFields /\ d.amount \in Int
ASSUME TimesAssumption == Minute \in Nat /\ MaxTime \in Nat
ASSUME ThresholdsAssumption == VelocityThreshold \in Nat /\ HighValueThreshold \in Nat

VARIABLES
    now,
    log,         \* log -> what it says
    stamp,       \* log -> its timestamp, once it is made
    analysis     \* log -> how far it is on its way, and what its analysis holds

fraudVars == <<now, log, stamp, analysis>>

Risks == {"EXCESSIVE_AMOUNT", "VELOCITY_LIMIT_EXCEEDED", "IMPOSSIBLE_TRAVEL"}

\* "made" but not inserted, "stored", at its two reads, and how it ended.
Stages == {"none", "made", "unsaved", "stored", "count", "last", "judged", "failed"}

Analysis == [stage : Stages, since : -Minute..MaxTime, risks : SUBSET Risks]

FraudTypeOK ==
    /\ now \in 0..MaxTime
    /\ log \in [Logs -> Details]
    /\ stamp \in [Logs -> 0..MaxTime]
    /\ analysis \in [Logs -> Analysis]

FraudInit ==
    /\ now = 0
    /\ log \in [Logs -> Details]
    /\ stamp = [l \in Logs |-> 0]
    /\ analysis = [l \in Logs |-> [stage |-> "none", since |-> 0, risks |-> {}]]

-----------------------------------------------------------------------------
(* The collection.                                                         *)

Stage(l) == analysis[l].stage
Inserted(l) == Stage(l) \notin {"none", "made", "unsaved"}
SameAccount(l, m) == log[l].account = log[m].account

\* Mutant: the window is open at its start ($gt).
countSince(l) ==
    Cardinality({m \in Logs : Inserted(m) /\ SameAccount(l, m) /\ stamp[m] > analysis[l].since})

countRecentByAccount(l) ==
    Cardinality({m \in Logs : Inserted(m) /\ SameAccount(l, m) /\ stamp[m] >= analysis[l].since})

Newest(some) == {m \in some : \A n \in some : stamp[n] <= stamp[m]}

\* Mutant: only a log from before the current one is its last transaction.
getEarlierTransaction(l) ==
    Newest({m \in Logs \ {l} : Inserted(m) /\ SameAccount(l, m) /\ stamp[m] < stamp[l]})

\* The newest other log of the account, which need not be an earlier one.  Of
\* several with the same timestamp the server returns any.
getLastTransaction(l) == Newest({m \in Logs \ {l} : Inserted(m) /\ SameAccount(l, m)})

-----------------------------------------------------------------------------

At(l, stage) == analysis' = [analysis EXCEPT ![l].stage = stage]

Tick == now < MaxTime /\ now' = now + 1 /\ UNCHANGED <<log, stamp, analysis>>

Make(l) ==
    /\ Stage(l) = "none"
    /\ stamp' = [stamp EXCEPT ![l] = now]
    /\ At(l, "made")
    /\ UNCHANGED <<now, log>>

\* insertOne; a failure is rethrown to the writer, and the log is lost.
CreateLog(l) ==
    /\ Stage(l) = "made"
    /\ At(l, "stored") \/ At(l, "unsaved")
    /\ UNCHANGED <<now, log, stamp>>

\* Mutant: the window begins a minute from now.
processWithWindowAhead(l) ==
    /\ Stage(l) = "stored"
    /\ analysis' = [analysis EXCEPT ![l] =
                      [stage |-> "count", since |-> now + Minute, risks |-> {}]]
    /\ UNCHANGED <<now, log, stamp>>

\* The watcher calls, and the rules run up to their first await.
processNewTransactionLog(l) ==
    /\ Stage(l) = "stored"
    /\ analysis' = [analysis EXCEPT ![l] =
                      [stage |-> "count",
                       since |-> now - Minute,
                       risks |-> IF log[l].amount > HighValueThreshold
                                    THEN {"EXCESSIVE_AMOUNT"} ELSE {}]]
    /\ UNCHANGED <<now, log, stamp>>

\* A read is answered: the analysis goes on with the risk it found, if any.
Found(l, risky, risk, next) ==
    /\ analysis' = [analysis EXCEPT ![l] =
                      [stage |-> next, since |-> analysis[l].since,
                       risks |-> analysis[l].risks \cup (IF risky THEN {risk} ELSE {})]]
    /\ UNCHANGED <<now, log, stamp>>

CheckVelocity(l) ==
    /\ Stage(l) = "count"
    /\ Found(l, countRecentByAccount(l) > VelocityThreshold, "VELOCITY_LIMIT_EXCEEDED", "last")

\* Whenever the two transactions were made.
calculateTravelRisk(prev, current) == log[prev].ip # log[current].ip

CheckTravel(l) ==
    /\ Stage(l) = "last"
    /\ \/ getLastTransaction(l) = {} /\ Found(l, FALSE, "IMPOSSIBLE_TRAVEL", "judged")
       \/ \E m \in getLastTransaction(l) :
             Found(l, calculateTravelRisk(m, l), "IMPOSSIBLE_TRAVEL", "judged")

\* A read fails, or the process dies: the error is logged and nothing retries.
FailAnalysis(l) ==
    /\ Stage(l) \in {"count", "last"}
    /\ At(l, "failed")
    /\ UNCHANGED <<now, log, stamp>>

Over == /\ \A l \in Logs : Stage(l) \in {"unsaved", "judged", "failed"}
        /\ now = MaxTime
        /\ UNCHANGED fraudVars

FraudNext ==
    \/ Tick
    \/ \E l \in Logs : \/ Make(l) \/ CreateLog(l) \/ processNewTransactionLog(l)
                       \/ CheckVelocity(l) \/ CheckTravel(l) \/ FailAnalysis(l)
    \/ Over

FraudSpec == FraudInit /\ [][FraudNext]_fraudVars

-----------------------------------------------------------------------------
(* Properties.                                                             *)

Judged(l) == Stage(l) = "judged"

\* If an account has two logs, from different addresses, and both have been
\* judged, at least one of them was flagged, in whatever order they were
\* stamped, inserted and analysed.
PairIsFlagged ==
    \A l, m \in Logs :
        /\ SameAccount(l, m) /\ log[l].ip # log[m].ip
        /\ Judged(l) /\ Judged(m)
        /\ \A n \in Logs \ {l, m} : SameAccount(l, n) => ~Inserted(n)
        => "IMPOSSIBLE_TRAVEL" \in analysis[l].risks \cup analysis[m].risks

\* Of more than VelocityThreshold logs of an account, every one of which is made
\* in the minute before the analysis of each begins or later, at least one is
\* flagged, although no analysis need see all the others.
BurstIsNoticed ==
    \A burst \in SUBSET Logs :
        /\ Cardinality(burst) > VelocityThreshold
        /\ \A l, m \in burst : SameAccount(l, m) /\ Judged(l) /\ stamp[m] >= analysis[l].since
        => \E l \in burst : "VELOCITY_LIMIT_EXCEEDED" \in analysis[l].risks

-----------------------------------------------------------------------------
(* What a comment says and the program does not keep.                      *)

Quick(l, m) == stamp[l] - stamp[m] < Minute /\ stamp[m] - stamp[l] < Minute

\* fraud-detection.service.ts:81 "we flag if location changed in under 1
\* minute": such a change is flagged, by the analysis of some log of the account.
JumpIsFlagged ==
    \A l, m \in Logs :
        /\ SameAccount(l, m) /\ log[l].ip # log[m].ip /\ Inserted(l) /\ Inserted(m) /\ Quick(l, m)
        /\ \A n \in Logs : SameAccount(l, n) => Judged(n)
        => \E n \in Logs : SameAccount(l, n) /\ "IMPOSSIBLE_TRAVEL" \in analysis[n].risks

=============================================================================
