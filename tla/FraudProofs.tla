---------------------------- MODULE FraudProofs ----------------------------
(* Theorems about fraud detection, for any number of logs and any timing.  *)
EXTENDS FraudDetection, FiniteSetTheorems, TLAPS

LEMMA FraudTypeInit == FraudInit => FraudTypeOK
BY TimesAssumption DEF FraudInit, FraudTypeOK, Stages, Analysis

\* What a step does to one log's analysis.
Advance(l, new) == analysis' = [analysis EXCEPT ![l] = new]

LEMMA FoundType ==
    ASSUME FraudTypeOK, NEW l \in Logs, NEW risky, NEW risk \in Risks,
           NEW next \in Stages, Found(l, risky, risk, next)
    PROVE  FraudTypeOK'
<1> DEFINE new == [stage |-> next, since |-> analysis[l].since,
                   risks |-> analysis[l].risks \cup (IF risky THEN {risk} ELSE {})]
<1>1. new \in Analysis
  BY DEF FraudTypeOK, Analysis
<1>2. analysis' = [analysis EXCEPT ![l] = new] /\ UNCHANGED <<now, log, stamp>>
  BY DEF Found
<1> HIDE DEF new
<1> QED BY <1>1, <1>2 DEF FraudTypeOK

LEMMA AtType ==
    ASSUME FraudTypeOK, NEW l \in Logs, NEW stage \in Stages, At(l, stage)
    PROVE  /\ analysis' \in [Logs -> Analysis]
           /\ analysis'[l].stage = stage /\ analysis'[l].since = analysis[l].since
           /\ analysis'[l].risks = analysis[l].risks
           /\ \A m \in Logs \ {l} : analysis'[m] = analysis[m]
<1> DEFINE new == [analysis[l] EXCEPT !.stage = stage]
<1>0. analysis[l] \in Analysis
  BY DEF FraudTypeOK
<1>1. /\ new \in Analysis
      /\ new.stage = stage /\ new.since = analysis[l].since /\ new.risks = analysis[l].risks
  BY <1>0 DEF Analysis
<1>2. analysis' = [analysis EXCEPT ![l] = new]
  BY DEF At
<1> HIDE DEF new
<1> QED BY <1>1, <1>2 DEF FraudTypeOK

LEMMA FraudTypeStep == FraudTypeOK /\ [FraudNext]_fraudVars => FraudTypeOK'
<1> SUFFICES ASSUME FraudTypeOK, [FraudNext]_fraudVars PROVE FraudTypeOK'
  OBVIOUS
<1>1. CASE Tick \/ Over \/ UNCHANGED fraudVars
  BY <1>1, TimesAssumption DEF Tick, Over, fraudVars, FraudTypeOK
<1>2. ASSUME NEW l \in Logs, Make(l) \/ CreateLog(l) \/ FailAnalysis(l) PROVE FraudTypeOK'
  <2>1. \E stage \in {"made", "stored", "unsaved", "failed"} : At(l, stage)
    BY <1>2 DEF Make, CreateLog, FailAnalysis
  <2>2. analysis' \in [Logs -> Analysis]
    BY <2>1, AtType DEF Stages
  <2> QED BY <1>2, <2>2 DEF Make, CreateLog, FailAnalysis, FraudTypeOK
<1>3. ASSUME NEW l \in Logs, processNewTransactionLog(l) PROVE FraudTypeOK'
  <2> DEFINE risks == IF log[l].amount > HighValueThreshold THEN {"EXCESSIVE_AMOUNT"} ELSE {}
  <2>1. risks \in SUBSET Risks
    BY DEF Risks
  <2> HIDE DEF risks
  <2>2. [stage |-> "count", since |-> now - Minute, risks |-> risks]
            \in Analysis
    BY <2>1, TimesAssumption DEF FraudTypeOK, Stages, Analysis
  <2>3. analysis' = [analysis EXCEPT ![l] =
                       [stage |-> "count", since |-> now - Minute, risks |-> risks]]
        /\ UNCHANGED <<now, log, stamp>>
    BY <1>3 DEF processNewTransactionLog, risks
  <2> QED BY <2>2, <2>3 DEF FraudTypeOK
<1>4. ASSUME NEW l \in Logs, CheckVelocity(l) \/ CheckTravel(l) PROVE FraudTypeOK'
  <2>1. \E risk \in Risks, next \in Stages : \E risky : Found(l, risky, risk, next)
    <3>1. CASE CheckVelocity(l)
      <4>1. Found(l, countRecentByAccount(l) > VelocityThreshold, "VELOCITY_LIMIT_EXCEEDED", "last")
        BY <3>1 DEF CheckVelocity
      <4> QED BY <4>1 DEF Risks, Stages
    <3>2. CASE CheckTravel(l)
      <4>1. \/ Found(l, FALSE, "IMPOSSIBLE_TRAVEL", "judged")
            \/ \E m \in getLastTransaction(l) :
                  Found(l, calculateTravelRisk(m, l), "IMPOSSIBLE_TRAVEL", "judged")
        BY <3>2 DEF CheckTravel
      <4> QED BY <4>1 DEF Risks, Stages
    <3> QED BY <1>4, <3>1, <3>2
  <2> QED BY <2>1, FoundType
<1> QED BY <1>1, <1>2, <1>3, <1>4 DEF FraudNext

-----------------------------------------------------------------------------
(* What every step keeps: inserted logs stay, with what they say and when,  *)
(* and an analysis that has gone past a check keeps what it found there.    *)

Checked(l) == Stage(l) \in {"last", "judged"}

Kept(l) ==
    /\ log' = log
    /\ Inserted(l) => Inserted(l)' /\ stamp'[l] = stamp[l]
    /\ Checked(l)' => Inserted(l)
    /\ Checked(l) /\ Checked(l)' => /\ analysis'[l].since = analysis[l].since
                                    /\ analysis[l].risks \subseteq analysis'[l].risks
    /\ Judged(l) => analysis'[l] = analysis[l]

LEMMA FoundEffect ==
    ASSUME FraudTypeOK, NEW l \in Logs, NEW risky, NEW risk, NEW next, Found(l, risky, risk, next)
    PROVE  /\ UNCHANGED <<now, log, stamp>>
           /\ \A m \in Logs \ {l} : analysis'[m] = analysis[m]
           /\ analysis'[l].stage = next /\ analysis'[l].since = analysis[l].since
           /\ analysis[l].risks \subseteq analysis'[l].risks
           /\ risky => risk \in analysis'[l].risks
<1> DEFINE new == [stage |-> next, since |-> analysis[l].since,
                   risks |-> analysis[l].risks \cup (IF risky THEN {risk} ELSE {})]
<1>1. /\ new.stage = next /\ new.since = analysis[l].since
      /\ analysis[l].risks \subseteq new.risks
      /\ risky => risk \in new.risks
  OBVIOUS
<1>2. analysis' = [analysis EXCEPT ![l] = new] /\ UNCHANGED <<now, log, stamp>>
  BY DEF Found
<1> HIDE DEF new
<1> QED BY <1>1, <1>2 DEF FraudTypeOK


\* A step of one log that has not been inserted yet.
LEMMA WriterSteps ==
    ASSUME FraudTypeOK, NEW l \in Logs, Make(l) \/ CreateLog(l), NEW m \in Logs
    PROVE  Kept(m) /\ (Checked(m)' => analysis'[m] = analysis[m])
<1>1. /\ log' = log /\ ~Inserted(l)
      /\ \A n \in Logs \ {l} : stamp'[n] = stamp[n]
  BY DEF Make, CreateLog, Inserted, FraudTypeOK
<1>2. /\ Stage(l)' \in {"made", "stored", "unsaved"}
      /\ \A n \in Logs \ {l} : analysis'[n] = analysis[n]
  BY AtType DEF Make, CreateLog, Stages, Stage
<1> QED BY <1>1, <1>2 DEF Kept, Inserted, Checked, Judged, Stage

\* A step that starts or breaks off an analysis.
LEMMA StartAndFail ==
    ASSUME FraudTypeOK, NEW l \in Logs, processNewTransactionLog(l) \/ FailAnalysis(l),
           NEW m \in Logs
    PROVE  Kept(m) /\ (Checked(m)' => analysis'[m] = analysis[m])
<1>1. UNCHANGED <<log, stamp>> /\ Stage(l) \in {"stored", "count", "last"}
  BY DEF processNewTransactionLog, FailAnalysis
<1>2. /\ Stage(l)' \in {"count", "failed"}
      /\ \A n \in Logs \ {l} : analysis'[n] = analysis[n]
  <2>1. CASE processNewTransactionLog(l)
    BY <2>1 DEF processNewTransactionLog, FraudTypeOK, Stage
  <2>2. CASE FailAnalysis(l)
    BY <2>2, AtType DEF FailAnalysis, Stages, Stage
  <2> QED BY <2>1, <2>2
<1> QED BY <1>1, <1>2 DEF Kept, Inserted, Checked, Judged, Stage

LEMMA CheckSteps ==
    ASSUME FraudTypeOK, NEW l \in Logs, CheckVelocity(l) \/ CheckTravel(l), NEW m \in Logs
    PROVE  Kept(m) /\ (m # l => analysis'[m] = analysis[m])
<1>1. /\ UNCHANGED <<log, stamp>> /\ Stage(l) \in {"count", "last"}
      /\ \A n \in Logs \ {l} : analysis'[n] = analysis[n]
      /\ Stage(l)' \in {"last", "judged"} /\ analysis'[l].since = analysis[l].since
      /\ analysis[l].risks \subseteq analysis'[l].risks
  <2>1. /\ Stage(l) \in {"count", "last"}
        /\ \E next \in {"last", "judged"} : \E risky, risk : Found(l, risky, risk, next)
    BY DEF CheckVelocity, CheckTravel
  <2>2. PICK next \in {"last", "judged"} : \E risky, risk : Found(l, risky, risk, next)
    BY <2>1
  <2>3. PICK risky, risk : Found(l, risky, risk, next)
    BY <2>2
  <2>4. /\ UNCHANGED <<log, stamp>> /\ \A n \in Logs \ {l} : analysis'[n] = analysis[n]
        /\ analysis'[l].stage = next /\ analysis'[l].since = analysis[l].since
        /\ analysis[l].risks \subseteq analysis'[l].risks
    BY <2>3, FoundEffect
  <2> QED BY <2>1, <2>4 DEF Stage
<1> QED BY <1>1 DEF Kept, Inserted, Checked, Judged, Stage

-----------------------------------------------------------------------------
(* Two logs from different addresses.  The property is inductive: whichever *)
(* of the two is judged last sees the other, and nothing else.              *)

LEMMA PairFrame ==
    ASSUME PairIsFlagged, \A m \in Logs : Kept(m) /\ (Judged(m)' => analysis'[m] = analysis[m])
    PROVE  PairIsFlagged'
BY DEF PairIsFlagged, Kept, Judged, Stage, SameAccount

LEMMA PairTravel ==
    ASSUME FraudTypeOK, PairIsFlagged, NEW l \in Logs, CheckTravel(l)
    PROVE  PairIsFlagged'
<1>0. \A m \in Logs : Kept(m) /\ (m # l => analysis'[m] = analysis[m])
  BY CheckSteps
<1>1. ASSUME NEW m \in Logs, SameAccount(l, m), log[l].ip # log[m].ip, Judged(m),
             \A n \in Logs \ {l, m} : SameAccount(l, n) => ~Inserted(n)
      PROVE  "IMPOSSIBLE_TRAVEL" \in analysis'[l].risks
  <2>1. m # l /\ Inserted(m)
    BY <1>1 DEF Judged, Inserted
  <2>2. {n \in Logs \ {l} : Inserted(n) /\ SameAccount(l, n)} = {m}
    BY <1>1, <2>1
  <2>3. stamp[m] <= stamp[m]
    BY TimesAssumption DEF FraudTypeOK
  <2>4. getLastTransaction(l) = {m}
    BY <2>2, <2>3 DEF getLastTransaction, Newest
  <2>5. Found(l, calculateTravelRisk(m, l), "IMPOSSIBLE_TRAVEL", "judged")
    BY <2>4 DEF CheckTravel
  <2>6. calculateTravelRisk(m, l)
    BY <1>1 DEF calculateTravelRisk
  <2> QED BY <2>5, <2>6, FoundEffect
<1>2. ASSUME NEW p \in Logs, NEW q \in Logs,
             SameAccount(p, q)', (log[p].ip # log[q].ip)', Judged(p)', Judged(q)',
             \A n \in Logs \ {p, q} : SameAccount(p, n)' => ~Inserted(n)'
      PROVE  "IMPOSSIBLE_TRAVEL" \in analysis'[p].risks \cup analysis'[q].risks
  <2>0. /\ SameAccount(p, q) /\ log[p].ip # log[q].ip
        /\ \A n \in Logs \ {p, q} : SameAccount(p, n) => ~Inserted(n)
    BY <1>0, <1>2 DEF Kept, SameAccount
  <2>1. CASE p = l
    BY <1>0, <1>1, <1>2, <2>0, <2>1 DEF Judged, Stage
  <2>2. CASE q = l
    BY <1>0, <1>1, <1>2, <2>0, <2>2 DEF Judged, Stage, SameAccount
  <2>3. CASE p # l /\ q # l
    BY <1>0, <1>2, <2>0, <2>3 DEF PairIsFlagged, Judged, Stage
  <2> QED BY <2>1, <2>2, <2>3
<1> QED BY <1>2 DEF PairIsFlagged

\* A step that changes no log and no analysis.
LEMMA IdleSteps ==
    ASSUME Tick \/ Over \/ UNCHANGED fraudVars
    PROVE  UNCHANGED <<log, stamp, analysis>>
BY DEF Tick, Over, fraudVars

LEMMA PairStep ==
    ASSUME FraudTypeOK, PairIsFlagged, [FraudNext]_fraudVars
    PROVE  PairIsFlagged'
<1>1. CASE Tick \/ Over \/ UNCHANGED fraudVars
  BY <1>1, IdleSteps DEF PairIsFlagged, Judged, Stage, SameAccount, Inserted
<1>2. ASSUME NEW l \in Logs,
             Make(l) \/ CreateLog(l) \/ processNewTransactionLog(l) \/ FailAnalysis(l)
      PROVE  PairIsFlagged'
  BY <1>2, WriterSteps, StartAndFail, PairFrame DEF Judged, Checked
<1>3. ASSUME NEW l \in Logs, CheckVelocity(l) PROVE PairIsFlagged'
  <2>1. Stage(l)' = "last"
    BY <1>3, FoundEffect DEF CheckVelocity, Stage
  <2> QED BY <1>3, <2>1, CheckSteps, PairFrame DEF Judged
<1> QED BY <1>1, <1>2, <1>3, PairTravel DEF FraudNext

\* Every variable of fraud detection keeps its type.
THEOREM FraudTypeCorrect == FraudSpec => []FraudTypeOK
BY FraudTypeInit, FraudTypeStep, PTL DEF FraudSpec

\* Of the two logs an account has, from different addresses, one is flagged.
THEOREM PairsAreFlagged == FraudSpec => []PairIsFlagged
<1>1. FraudInit => PairIsFlagged
  BY DEF FraudInit, PairIsFlagged, Judged, Stage
<1> QED BY <1>1, FraudTypeCorrect, PairStep, PTL DEF FraudSpec
-----------------------------------------------------------------------------
(* Bursts.  The last analysis of a burst to count sees all of it; that it   *)
(* has counted, and not that it is over, is what the invariant speaks of.   *)

Flagged(burst) == \E l \in burst : "VELOCITY_LIMIT_EXCEEDED" \in analysis[l].risks

Counted(burst) ==
    /\ Cardinality(burst) > VelocityThreshold
    /\ \A l, m \in burst : SameAccount(l, m) /\ Checked(l) /\ stamp[m] >= analysis[l].since

BurstInv == \A burst \in SUBSET Logs : Counted(burst) => Flagged(burst)

LEMMA BurstFrame ==
    ASSUME BurstInv, NEW burst \in SUBSET Logs, Counted(burst)',
           \A m \in burst : /\ Kept(m)
                            /\ Checked(m) /\ analysis'[m].since = analysis[m].since
                            /\ analysis[m].risks \subseteq analysis'[m].risks
    PROVE  Flagged(burst)'
<1>1. \A m \in burst : stamp'[m] = stamp[m] /\ log' = log
  BY DEF Kept, Checked, Inserted
<1>2. Counted(burst)
  BY <1>1 DEF Counted, SameAccount
<1> QED BY <1>2 DEF BurstInv, Flagged

LEMMA BurstVelocity ==
    ASSUME FraudTypeOK, BurstInv, NEW l \in Logs, CheckVelocity(l),
           NEW burst \in SUBSET Logs, Counted(burst)'
    PROVE  Flagged(burst)'
<1>1. ASSUME NEW m \in burst, m # l
      PROVE  /\ Kept(m) /\ Checked(m) /\ analysis'[m].since = analysis[m].since
             /\ analysis[m].risks \subseteq analysis'[m].risks
  <2>1. Kept(m) /\ analysis'[m] = analysis[m]
    BY <1>1, CheckSteps
  <2> QED BY <1>1, <2>1 DEF Counted, Checked, Stage
<1>2. CASE l \notin burst
  BY <1>1, <1>2, BurstFrame
<1>3. CASE l \in burst
  <2> DEFINE risky == countRecentByAccount(l) > VelocityThreshold
             seen == {m \in Logs : Inserted(m) /\ SameAccount(l, m)
                                   /\ stamp[m] >= analysis[l].since}
  <2>1. Found(l, risky, "VELOCITY_LIMIT_EXCEEDED", "last") /\ Stage(l) = "count"
    BY DEF CheckVelocity
  <2> HIDE DEF risky
  <2>2. /\ UNCHANGED <<log, stamp>> /\ analysis'[l].since = analysis[l].since
        /\ risky => "VELOCITY_LIMIT_EXCEEDED" \in analysis'[l].risks
    BY <2>1, FoundEffect
  <2>3. ASSUME NEW m \in burst PROVE m \in seen
    <3>1. SameAccount(l, m) /\ stamp[m] >= analysis[l].since
      BY <1>3, <2>2 DEF Counted, SameAccount
    <3>2. Inserted(m)
      BY <1>1, <2>1 DEF Checked, Inserted
    <3> QED BY <3>1, <3>2
  <2>4. IsFiniteSet(seen) /\ burst \in SUBSET seen
    BY <2>3, LogsAssumption, FS_Subset
  <2> HIDE DEF seen
  <2>5. /\ Cardinality(burst) <= Cardinality(seen)
        /\ Cardinality(burst) \in Nat /\ Cardinality(seen) \in Nat
    BY <2>4, FS_Subset, FS_CardinalityType
  <2>6. countRecentByAccount(l) = Cardinality(seen)
    BY DEF countRecentByAccount, seen
  <2>7. Cardinality(burst) > VelocityThreshold
    BY DEF Counted
  <2>8. risky
    BY <2>5, <2>6, <2>7, ThresholdsAssumption DEF risky
  <2> QED BY <1>3, <2>2, <2>8 DEF Flagged
<1> QED BY <1>2, <1>3

LEMMA BurstStep ==
    ASSUME FraudTypeOK, BurstInv, [FraudNext]_fraudVars
    PROVE  BurstInv'
<1>1. CASE Tick \/ Over \/ UNCHANGED fraudVars
  BY <1>1, IdleSteps DEF BurstInv, Counted, Flagged, SameAccount, Checked, Stage
<1>2. ASSUME NEW l \in Logs,
             Make(l) \/ CreateLog(l) \/ processNewTransactionLog(l) \/ FailAnalysis(l),
             NEW burst \in SUBSET Logs, Counted(burst)'
      PROVE  Flagged(burst)'
  <2>1. ASSUME NEW m \in burst
        PROVE  Kept(m) /\ Checked(m) /\ analysis'[m] = analysis[m]
    <3>1. Kept(m) /\ (Checked(m)' => analysis'[m] = analysis[m])
      BY <1>2, WriterSteps, StartAndFail
    <3>2. Checked(m)'
      BY <1>2 DEF Counted
    <3> QED BY <3>1, <3>2 DEF Checked, Stage
  <2> QED BY <1>2, <2>1, BurstFrame
<1>3. ASSUME NEW l \in Logs, CheckTravel(l), NEW burst \in SUBSET Logs, Counted(burst)'
      PROVE  Flagged(burst)'
  <2>1. ASSUME NEW m \in burst
        PROVE  /\ Kept(m) /\ Checked(m)
               /\ analysis'[m].since = analysis[m].since
               /\ analysis[m].risks \subseteq analysis'[m].risks
    <3>1. Kept(m) /\ (m # l => analysis'[m] = analysis[m])
      BY <1>3, CheckSteps
    <3>2. Checked(m)'
      BY <1>3 DEF Counted
    <3>3. Checked(l)
      BY <1>3 DEF CheckTravel, Checked
    <3> QED BY <3>1, <3>2, <3>3 DEF Kept, Checked, Stage
  <2> QED BY <1>3, <2>1, BurstFrame
<1> QED BY <1>1, <1>2, <1>3, BurstVelocity DEF FraudNext, BurstInv

\* More logs in a minute than the threshold do not all go unflagged.
THEOREM BurstsAreNoticed == FraudSpec => []BurstIsNoticed
<1>1. FraudInit => BurstInv
  <2> SUFFICES ASSUME FraudInit, NEW burst \in SUBSET Logs, Counted(burst) PROVE FALSE
    BY DEF BurstInv
  <2>1. burst = {}
    BY DEF FraudInit, Counted, Checked, Stage
  <2> QED BY <2>1, FS_EmptySet, ThresholdsAssumption DEF Counted
<1>2. BurstInv => BurstIsNoticed
  BY DEF BurstInv, BurstIsNoticed, Counted, Flagged, Checked, Judged
<1> QED BY <1>1, <1>2, FraudTypeCorrect, BurstStep, PTL DEF FraudSpec

=============================================================================
