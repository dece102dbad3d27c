--------------------------- MODULE AlertingProofs ---------------------------
(***************************************************************************)
(* Theorems about the alerting of an endpoint, for every number of alerts, *)
(* every threshold and every bound: its type invariant; that an alert is   *)
(* announced and ended at its thresholds and its reminders are spaced;     *)
(* and, when no two alerts share a row of the storage, that the rows are   *)
(* the triggered alerts, that no receiver is told of the end of a problem  *)
(* it was not told about, and that the alerting implements AlertIncidents. *)
(***************************************************************************)
EXTENDS Alerting, WellFoundedInduction, TLAPS

\* The handler is at an alert whenever it is about to persist or to notify
AtAlert == stage \in {"persist", "notify"} => at \in Alerts

\* No result is being handled while there is no endpoint object
StoppedIsIdle == ~running => stage = "idle"

TypeInv == TypeOK /\ AtAlert /\ StoppedIsIdle

\* No two alerts share a row: Checksum tells them apart. It leaves out provider-override, so this is not true of every
\* configuration, and the theorems that need it say so.
ChecksumsDiffer == \A a, b \in Alerts : Checksum[a] = Checksum[b] => a = b

\* The rows, the flags and what the receivers know agree at every step of the handler, until a write fails. The alert
\* that was just sent is the only one whose row may lag behind.
RowsNotified == \A a \in Alerts : rows[Checksum[a]] # NoRow => a \in notified
TriggeredNotified == running => \A a \in Alerts : triggered[a] => a \in notified
TriggeredHaveRows ==
    running => \A a \in Alerts :
        ~(stage = "persist" /\ a = at) => (triggered[a] <=> rows[Checksum[a]] # NoRow)
PersistsTriggered == stage = "persist" => triggered[at]
NotifiesOnce == stage = "notify" => at \in notified /\ ~triggered[at]

IncidentInv ==
    storeErrors = 0 =>
        RowsNotified /\ TriggeredNotified /\ TriggeredHaveRows /\ PersistsTriggered /\ NotifiesOnce

-----------------------------------------------------------------------------
(* The last alert restored *)

\* A set of alerts that is not empty has a last one, the one RestorePersistedTriggeredAlerts takes the counters from
LEMMA LastIsMember ==
    ASSUME NEW S \in SUBSET Alerts, S # {}
    PROVE  LastOf(S) \in S
<1> DEFINE Distances == {n \in Nat : \E a \in S : a + n = AlertCount}
<1>1. PICK a0 \in S : TRUE
  OBVIOUS
<1>2. AlertCount - a0 \in Distances
  BY <1>1, AlertCountAssumption DEF Alerts
<1>3. PICK n \in Distances : \A m \in Distances : ~(<<m, n>> \in OpToRel(<, Nat))
  <2>1. Distances \subseteq Nat /\ Distances # {}
    BY <1>2
  <2> HIDE DEF Distances
  <2> QED
    BY <2>1, WFMin, NatLessThanWellFounded, Zenon
<1>4. \A m \in Distances : n <= m
  <2> SUFFICES ASSUME NEW m \in Distances, m < n PROVE FALSE
    OBVIOUS
  <2>1. <<m, n>> \in {ss \in Nat \X Nat : ss[1] < ss[2]}
    OBVIOUS
  <2> QED
    BY <2>1, <1>3 DEF OpToRel
<1>5. PICK a \in S : a + n = AlertCount
  BY <1>3
<1>6. \A b \in S : b <= a
  <2> SUFFICES ASSUME NEW b \in S PROVE b <= a
    OBVIOUS
  <2>1. AlertCount - b \in Distances
    BY AlertCountAssumption DEF Alerts
  <2> QED
    BY <2>1, <1>4, <1>5, AlertCountAssumption DEF Alerts
<1> QED
  BY <1>5, <1>6 DEF LastOf

-----------------------------------------------------------------------------
(* The type invariant *)

\* No alert is being handled at first.
LEMMA TypeInvInit == Init => TypeInv
  BY AlertCountAssumption, CounterCapAssumption, ConfigurationAssumption, BudgetAssumption
  DEF Init, TypeInv, TypeOK, AtAlert, StoppedIsIdle, Alerts, Stages, Kinds, None

\* A saturating counter stays below its cap
LEMMA BumpType == \A n \in 0..CounterCap : Bump(n) \in 0..CounterCap
  BY CounterCapAssumption DEF Bump

\* The handler goes through the alerts from the first one and ends just after the last one
LEMMA AlertBounds ==
    /\ 1 \in 1..(AlertCount + 1)
    /\ \A a \in 1..(AlertCount + 1) : a <= AlertCount => a \in Alerts
    /\ \A a \in Alerts : a + 1 \in 1..(AlertCount + 1) /\ a \in 0..AlertCount
    /\ 0 \in 0..AlertCount
  BY AlertCountAssumption DEF Alerts

\* A threshold is a count that the counters can have
LEMMA ThresholdBounds == \A a \in Alerts : FailureThreshold[a] \in 0..CounterCap
<1>1. \A n \in 1..CounterCap : n \in 0..CounterCap
  BY CounterCapAssumption
<1> QED
  BY <1>1, ThresholdAssumption

\* RestorePersistedTriggeredAlerts only reads counters from the rows that are left
LEMMA StartTypeInv ==
    ASSUME TypeInv, NEW configured \in Configurations, NEW cleaned \in BOOLEAN,
           NEW unread \in SUBSET configured, Start(configured, cleaned, unread)
    PROVE  TypeInv'
<1> DEFINE restored == Restored(configured \ unread)
<1>1. configured \in SUBSET Alerts
  BY ConfigurationAssumption
<1>2. restored \in SUBSET Alerts /\ \A a \in restored : rows'[Checksum[a]] # NoRow
  BY <1>1 DEF Restored
<1>3. rows' \in [Checksums -> (0..CounterCap) \cup {NoRow}]
  BY DEF Start, CleanedRows, TypeInv, TypeOK
<1>4. successes' \in 0..CounterCap /\ failures' \in 0..CounterCap
  <2>1. CASE restored = {}
    BY <2>1 DEF Start, TypeInv, TypeOK
  <2>2. CASE restored # {}
    <3>1. LastOf(restored) \in restored
      BY <1>2, <2>2, LastIsMember
    <3>2. Checksum[LastOf(restored)] \in Checksums
      BY <3>1, <1>2 DEF Checksums
    <3>3. rows'[Checksum[LastOf(restored)]] \in 0..CounterCap
      BY <3>1, <3>2, <1>2, <1>3
    <3>4. FailureThreshold[LastOf(restored)] \in 0..CounterCap
      BY <3>1, <1>2, ThresholdBounds
    <3> QED
      BY <2>2, <3>3, <3>4 DEF Start
  <2> QED
    BY <2>1, <2>2
<1>5. storeErrors' \in 0..MaxStoreErrors
  BY BudgetAssumption DEF Start, TypeInv, TypeOK
<1>6. triggered' \in [Alerts -> BOOLEAN]
  BY DEF Start
<1>7. event' \in [kind : Kinds, alert : 0..AlertCount]
  BY AlertBounds DEF Start, None, Kinds
<1>8. UNCHANGED <<sinceReminder, stage, at, reference, restarts, sendErrors, lastResult, failStreak,
                  okStreak, notified, quiet>> /\ enabled' = configured /\ running' = TRUE
  BY DEF Start, handler, observed
<1> QED
  BY <1>1, <1>3, <1>4, <1>5, <1>6, <1>7, <1>8 DEF TypeInv, TypeOK, AtAlert, StoppedIsIdle

\* Every step of the handler, of the restore and of a stop keeps the types and the alert that is handled.
LEMMA TypeInvStep == TypeInv /\ [Next]_vars => TypeInv'
<1> USE AlertBounds DEF TypeInv, TypeOK, AtAlert, StoppedIsIdle, Stages, Kinds
<1>1. ASSUME TypeInv, ReceiveFailure PROVE TypeInv'
  BY <1>1, BumpType, CounterCapAssumption DEF ReceiveFailure, Idle, TimePasses, CountFailure, None, budgets
<1>2. ASSUME TypeInv, ReceiveSuccess PROVE TypeInv'
  BY <1>2, BumpType, CounterCapAssumption DEF ReceiveSuccess, Idle, TimePasses, CountSuccess, None, budgets
<1>3. ASSUME TypeInv, ReceiveUnhandled PROVE TypeInv'
  BY <1>3, BumpType, CounterCapAssumption DEF ReceiveUnhandled, Idle, TimePasses, None, handler, budgets
<1>4. ASSUME TypeInv, TriggerNotDue PROVE TypeInv'
  BY <1>4 DEF TriggerNotDue, Triggering, None, memory, budgets, observed
<1>5. ASSUME TypeInv, TriggerNotSent PROVE TypeInv'
  BY <1>5, BudgetAssumption DEF TriggerNotSent, Triggering, None, memory, observed
<1>6. ASSUME TypeInv, TriggerSent PROVE TypeInv'
  BY <1>6, CounterCapAssumption DEF TriggerSent, Triggering, Event, budgets
<1>7. ASSUME TypeInv, TriggerPersisted PROVE TypeInv'
  BY <1>7, BudgetAssumption DEF TriggerPersisted, Write, UpsertedRows, Checksums, None, memory, observed
<1>8. ASSUME TypeInv, TriggerDone PROVE TypeInv'
  BY <1>8 DEF TriggerDone, None, memory, budgets, observed
<1>9. ASSUME TypeInv, ResolveNotTriggered PROVE TypeInv'
  BY <1>9 DEF ResolveNotTriggered, Resolving, None, memory, budgets, observed
<1>10. ASSUME TypeInv, ResolveBelowThreshold PROVE TypeInv'
  BY <1>10, BudgetAssumption DEF ResolveBelowThreshold, Resolving, Write, UpsertedRows, Checksums, None, memory, observed
<1>11. ASSUME TypeInv, ResolveClears PROVE TypeInv'
  BY <1>11, BudgetAssumption DEF ResolveClears, Resolving, Write, RemainingRows, Checksums, Event, observed
<1>12. ASSUME TypeInv, ResolveSent PROVE TypeInv'
  BY <1>12 DEF ResolveSent, Event, memory, budgets
<1>13. ASSUME TypeInv, ResolveNotSent PROVE TypeInv'
  BY <1>13, BudgetAssumption DEF ResolveNotSent, None, memory, observed
<1>14. ASSUME TypeInv, ResolveDone PROVE TypeInv'
  BY <1>14, CounterCapAssumption DEF ResolveDone, ResetFailures, None, budgets, observed
<1>15. ASSUME TypeInv, Stop PROVE TypeInv'
  <2>1. triggered' \in [Alerts -> BOOLEAN] /\ event' \in [kind : Kinds, alert : 0..AlertCount]
    BY <1>15 DEF Stop, None
  <2>2. restarts' \in 0..MaxRestarts
    BY <1>15, BudgetAssumption DEF Stop
  <2>3. successes' \in 0..CounterCap /\ failures' \in 0..CounterCap /\ sinceReminder' \in 0..CounterCap
    BY <1>15, CounterCapAssumption DEF Stop
  <2> QED
    BY <1>15, <2>1, <2>2, <2>3 DEF Stop, observed
<1>16. ASSUME TypeInv, StartSome PROVE TypeInv'
  BY <1>16, StartTypeInv DEF StartSome
<1>17. ASSUME TypeInv, UNCHANGED vars PROVE TypeInv'
  BY <1>17 DEF vars, memory, handler, budgets, observed
<1> QED
  BY <1>1, <1>2, <1>3, <1>4, <1>5, <1>6, <1>7, <1>8, <1>9, <1>10, <1>11, <1>12, <1>13, <1>14,
     <1>15, <1>16, <1>17 DEF Next, HandlerStep

\* The counters, the rows and the handler stay what they are, whatever fails and whenever the process restarts: no row
\* outside the counters is restored into them
THEOREM TypeSafety == Spec => []TypeOK
<1>1. TypeInv => TypeOK
  BY DEF TypeInv
<1> QED
  BY <1>1, TypeInvInit, TypeInvStep, PTL DEF Spec

-----------------------------------------------------------------------------
(* The incidents *)

\* No alert is triggered at first, and none has a row.
LEMMA IncidentInvInit == Init => IncidentInv
  BY DEF Init, IncidentInv, RowsNotified, TriggeredNotified, TriggeredHaveRows, PersistsTriggered, NotifiesOnce, Checksums

\* Writing the row of an alert makes it the row of that alert alone
LEMMA RowWritten ==
    ASSUME ChecksumsDiffer, TypeInv, at \in Alerts
    PROVE  \A a \in Alerts :
               UpsertedRows[Checksum[a]] # NoRow <=> a = at \/ rows[Checksum[a]] # NoRow
<1>1. \A a \in Alerts : Checksum[a] \in Checksums
  BY DEF Checksums
<1>2. successes # NoRow
  BY CounterCapAssumption, StorageAssumption DEF TypeInv, TypeOK
<1> QED
  BY <1>1, <1>2 DEF UpsertedRows, ChecksumsDiffer, TypeInv, TypeOK

\* Deleting the row of an alert leaves those of the others
LEMMA RowDeleted ==
    ASSUME ChecksumsDiffer, TypeInv, at \in Alerts
    PROVE  \A a \in Alerts :
               RemainingRows[Checksum[a]] # NoRow <=> a # at /\ rows[Checksum[a]] # NoRow
<1>1. \A a \in Alerts : Checksum[a] \in Checksums
  BY DEF Checksums
<1> QED
  BY <1>1 DEF RemainingRows, ChecksumsDiffer, TypeInv, TypeOK

\* The only rows a new object finds are those of its own alerts
LEMMA StartIncidentInv ==
    ASSUME ChecksumsDiffer, TypeInv, IncidentInv, NEW configured \in Configurations, NEW cleaned \in BOOLEAN,
           NEW unread \in SUBSET configured, Start(configured, cleaned, unread)
    PROVE  IncidentInv'
<1> SUFFICES ASSUME storeErrors' = 0
             PROVE  RowsNotified' /\ TriggeredNotified' /\ TriggeredHaveRows' /\ PersistsTriggered' /\ NotifiesOnce'
  BY DEF IncidentInv
<1>1. cleaned /\ unread = {} /\ storeErrors = 0
  BY DEF Start, TypeInv, TypeOK
<1>2. stage' = "idle" /\ notified' = notified
  BY DEF Start, handler, observed, TypeInv, StoppedIsIdle
<1>3. rows' = CleanedRows(configured)
  BY <1>1 DEF Start
<1>4. \A a \in Alerts : rows'[Checksum[a]] # NoRow => a \in configured /\ rows[Checksum[a]] # NoRow
  BY <1>3, ConfigurationAssumption DEF CleanedRows, Checksums, ChecksumsDiffer
<1>5. \A a \in Alerts : triggered'[a] <=> rows'[Checksum[a]] # NoRow
  BY <1>1, <1>4 DEF Start, Restored
<1> QED
  BY <1>1, <1>2, <1>4, <1>5
  DEF IncidentInv, RowsNotified, TriggeredNotified, TriggeredHaveRows, PersistsTriggered, NotifiesOnce

\* Triggering writes the row after the notification, resolving removes it, and no other step touches either.
LEMMA IncidentInvStep == ChecksumsDiffer /\ TypeInv /\ IncidentInv /\ [Next]_vars => IncidentInv'
<1> USE DEF ChecksumsDiffer, IncidentInv, RowsNotified, TriggeredNotified, TriggeredHaveRows, PersistsTriggered,
            NotifiesOnce, TypeInv, TypeOK, AtAlert, StoppedIsIdle
<1>1. ASSUME ChecksumsDiffer, TypeInv, IncidentInv, ReceiveFailure PROVE IncidentInv'
  BY <1>1 DEF ReceiveFailure, Idle, budgets
<1>2. ASSUME ChecksumsDiffer, TypeInv, IncidentInv, ReceiveSuccess PROVE IncidentInv'
  BY <1>2 DEF ReceiveSuccess, Idle, budgets
<1>3. ASSUME ChecksumsDiffer, TypeInv, IncidentInv, ReceiveUnhandled PROVE IncidentInv'
  BY <1>3 DEF ReceiveUnhandled, handler, budgets
<1>4. ASSUME ChecksumsDiffer, TypeInv, IncidentInv, TriggerNotDue PROVE IncidentInv'
  BY <1>4 DEF TriggerNotDue, Triggering, memory, budgets, observed
<1>5. ASSUME ChecksumsDiffer, TypeInv, IncidentInv, TriggerNotSent PROVE IncidentInv'
  BY <1>5 DEF TriggerNotSent, Triggering, memory, observed
<1>6. ASSUME ChecksumsDiffer, TypeInv, IncidentInv, TriggerSent PROVE IncidentInv'
  <2>1. at \in Alerts /\ stage' = "persist" /\ at' = at
    BY <1>6, AlertBounds DEF TriggerSent, Triggering
  <2>2. UNCHANGED <<running, rows, storeErrors>> /\ notified' = notified \cup {at}
    BY <1>6 DEF TriggerSent, budgets
  <2>3. triggered'[at] /\ \A a \in Alerts : a # at => triggered'[a] = triggered[a]
    BY <1>6, <2>1 DEF TriggerSent
  <2>4. stage # "persist"
    BY <1>6 DEF TriggerSent, Triggering
  <2> QED
    BY <1>6, <2>1, <2>2, <2>3, <2>4
<1>7. ASSUME ChecksumsDiffer, TypeInv, IncidentInv, TriggerPersisted PROVE IncidentInv'
  <2> SUFFICES ASSUME storeErrors' = 0 PROVE IncidentInv'
    OBVIOUS
  <2>1. rows' = UpsertedRows /\ storeErrors = 0
    BY <1>7 DEF TriggerPersisted, Write
  <2>2. at \in Alerts /\ triggered[at] /\ stage' = "trigger"
    BY <1>7, <2>1 DEF TriggerPersisted
  <2>3. UNCHANGED <<running, triggered, notified>>
    BY <1>7 DEF TriggerPersisted, memory, observed
  <2> QED
    BY <1>7, <2>1, <2>2, <2>3, RowWritten DEF TriggerPersisted
<1>8. ASSUME ChecksumsDiffer, TypeInv, IncidentInv, TriggerDone PROVE IncidentInv'
  BY <1>8 DEF TriggerDone, memory, budgets, observed
<1>9. ASSUME ChecksumsDiffer, TypeInv, IncidentInv, ResolveNotTriggered PROVE IncidentInv'
  BY <1>9 DEF ResolveNotTriggered, Resolving, memory, budgets, observed
<1>10. ASSUME ChecksumsDiffer, TypeInv, IncidentInv, ResolveBelowThreshold PROVE IncidentInv'
  <2> SUFFICES ASSUME storeErrors' = 0 PROVE IncidentInv'
    OBVIOUS
  <2>1. rows' = UpsertedRows /\ storeErrors = 0
    BY <1>10 DEF ResolveBelowThreshold, Write
  <2>2. at \in Alerts /\ triggered[at] /\ stage = "resolve" /\ stage' = "resolve"
    BY <1>10, AlertBounds DEF ResolveBelowThreshold, Resolving, Ongoing
  <2>3. UNCHANGED <<running, triggered, notified>>
    BY <1>10 DEF ResolveBelowThreshold, memory, observed
  <2> QED
    BY <1>10, <2>1, <2>2, <2>3, RowWritten DEF ResolveBelowThreshold, Resolving
<1>11. ASSUME ChecksumsDiffer, TypeInv, IncidentInv, ResolveClears PROVE IncidentInv'
  <2> SUFFICES ASSUME storeErrors' = 0 PROVE IncidentInv'
    OBVIOUS
  <2>1. rows' = RemainingRows /\ storeErrors = 0
    BY <1>11 DEF ResolveClears, Write
  <2>2. running /\ at \in Alerts /\ triggered[at] /\ stage = "resolve"
    BY <1>11, AlertBounds DEF ResolveClears, Resolving, Ongoing
  <2>3. UNCHANGED <<running, notified>> /\ stage' # "persist" /\ (stage' = "notify" => at' = at)
    BY <1>11, <2>2 DEF ResolveClears, observed
  <2>4. ~triggered'[at] /\ \A a \in Alerts : a # at => triggered'[a] = triggered[a]
    BY <1>11, <2>2 DEF ResolveClears
  <2> QED
    BY <1>11, <2>1, <2>2, <2>3, <2>4, RowDeleted
<1>12. ASSUME ChecksumsDiffer, TypeInv, IncidentInv, ResolveSent PROVE IncidentInv'
  BY <1>12 DEF ResolveSent, memory, budgets
<1>13. ASSUME ChecksumsDiffer, TypeInv, IncidentInv, ResolveNotSent PROVE IncidentInv'
  BY <1>13 DEF ResolveNotSent, memory, observed
<1>14. ASSUME ChecksumsDiffer, TypeInv, IncidentInv, ResolveDone PROVE IncidentInv'
  BY <1>14 DEF ResolveDone, budgets, observed
<1>15. ASSUME ChecksumsDiffer, TypeInv, IncidentInv, Stop PROVE IncidentInv'
  BY <1>15 DEF Stop, observed
<1>16. ASSUME ChecksumsDiffer, TypeInv, IncidentInv, StartSome PROVE IncidentInv'
  BY <1>16, StartIncidentInv DEF StartSome
<1>17. ASSUME ChecksumsDiffer, TypeInv, IncidentInv, UNCHANGED vars PROVE IncidentInv'
  BY <1>17 DEF vars, memory, handler, budgets, observed
<1> QED
  BY <1>1, <1>2, <1>3, <1>4, <1>5, <1>6, <1>7, <1>8, <1>9, <1>10, <1>11, <1>12, <1>13, <1>14,
     <1>15, <1>16, <1>17 DEF Next, HandlerStep

\* Between two results, and until a write fails, the rows of the storage are exactly the triggered alerts of the
\* endpoint object, whatever was sent and whenever the process was restarted: HandleAlerting writes or deletes the row
\* of every flag it changes, and RestorePersistedTriggeredAlerts leaves no row of an alert that is gone
THEOREM PersistenceSafety ==
    ASSUME ChecksumsDiffer
    PROVE  Spec => []TriggeredArePersisted
<1>1. TypeInv /\ IncidentInv => TriggeredArePersisted
  BY DEF IncidentInv, TriggeredHaveRows, TriggeredArePersisted, Idle
<1> QED
  BY <1>1, TypeInvInit, TypeInvStep, IncidentInvInit, IncidentInvStep, PTL DEF Spec

\* Only ResolveSent tells a receiver of the end of a problem
LEMMA ResolvedStep ==
    ASSUME TypeInv, Next, NEW a \in Alerts, event' = Event("resolved", a)
    PROVE  ResolveSent /\ a = at
<1> DEFINE Others ==
        \/ ReceiveFailure \/ ReceiveSuccess \/ ReceiveUnhandled \/ TriggerNotDue \/ TriggerNotSent
        \/ TriggerSent \/ TriggerPersisted \/ TriggerDone \/ ResolveNotTriggered \/ ResolveBelowThreshold
        \/ ResolveClears \/ ResolveNotSent \/ ResolveDone \/ Stop \/ StartSome
<1>1. event'.kind = "resolved" /\ event'.alert = a
  BY DEF Event
<1>2. ~Others
  <2> SUFFICES ASSUME Others PROVE event'.kind # "resolved"
    BY <1>1
  <2> QED
    BY DEF ReceiveFailure, ReceiveSuccess, ReceiveUnhandled, TriggerNotDue, TriggerNotSent,
           TriggerSent, TriggerPersisted, TriggerDone, ResolveNotTriggered, ResolveBelowThreshold,
           ResolveClears, ResolveNotSent, ResolveDone, Stop, StartSome, Start, None, Event
<1>3. ResolveSent
  BY <1>2 DEF Next, HandlerStep
<1> QED
  BY <1>1, <1>3 DEF ResolveSent, Event

\* Until a write fails, the only receivers told of the end of a problem are those told of the problem and not yet of its
\* end, for every order of failed sends, successes and restarts: an alert is only triggered, and only has a row, when
\* its Send succeeded
THEOREM ResolutionSafety ==
    ASSUME ChecksumsDiffer
    PROVE  Spec => ResolvedOnlyIfNotified
<1> DEFINE Told == \A a \in Alerts : event' = Event("resolved", a) /\ storeErrors = 0 => a \in notified
<1>1. TypeInv /\ IncidentInv /\ [Next]_vars => [Told]_vars
  <2> SUFFICES ASSUME TypeInv, IncidentInv, Next,
                      NEW a \in Alerts, event' = Event("resolved", a), storeErrors = 0
               PROVE  a \in notified
    OBVIOUS
  <2> QED
    BY ResolvedStep DEF ResolveSent, IncidentInv, NotifiesOnce
<1> QED
  BY <1>1, TypeInvInit, TypeInvStep, IncidentInvInit, IncidentInvStep, PTL DEF Spec, ResolvedOnlyIfNotified

-----------------------------------------------------------------------------
(* The thresholds and the reminders of the first object *)

\* Until the endpoint object is replaced, its counters are the results in a row that an observer counts: the failures of
\* an outage are kept while its end is handled, and forgotten once it is.
CountersAreStreaks ==
    restarts = 0 =>
        /\ running /\ successes = okStreak
        /\ stage \in {"idle", "trigger", "persist"} => failures = failStreak
        /\ stage \in {"resolve", "notify"} => failStreak = 0

\* What the last step announced reached its threshold.
ThresholdInv == CountersAreStreaks /\ ThresholdsHonoured

\* A step that counts no result and announces nothing keeps the counters and the streaks.
LEMMA QuietStepKeeps ==
    ASSUME ThresholdInv, event'.kind \notin {"initial", "closed"}, restarts' = restarts, running,
           UNCHANGED <<running, successes, failures, okStreak, failStreak>>,
           \/ stage \in {"idle", "trigger", "persist"} /\ stage' \in {"idle", "trigger", "persist"}
           \/ stage \in {"resolve", "notify"} /\ stage' \in {"resolve", "notify"}
    PROVE  ThresholdInv'
  BY DEF ThresholdInv, CountersAreStreaks, ThresholdsHonoured, InitialAtFailureThreshold, ClosedAtSuccessThreshold

\* A result is counted in the memory as the observer counts it.
LEMMA CountingKeeps ==
    ASSUME TypeInv, ThresholdInv, ReceiveFailure \/ ReceiveSuccess
    PROVE  ThresholdInv'
<1>1. event'.kind = "none" /\ restarts' = restarts /\ stage = "idle" /\ running' = running
  BY DEF ReceiveFailure, ReceiveSuccess, None, budgets, Idle
<1>2. CASE ReceiveFailure
  <2>1. /\ successes' = 0 /\ failures' = Bump(failures) /\ okStreak' = 0 /\ failStreak' = Bump(failStreak)
        /\ stage' = "trigger"
    BY <1>2 DEF ReceiveFailure, CountFailure
  <2> QED
    BY <1>1, <2>1 DEF ThresholdInv, CountersAreStreaks, ThresholdsHonoured, InitialAtFailureThreshold, ClosedAtSuccessThreshold
<1>3. CASE ReceiveSuccess
  <2>1. /\ successes' = Bump(successes) /\ failures' = failures /\ okStreak' = Bump(okStreak) /\ failStreak' = 0
        /\ stage' = "resolve"
    BY <1>3 DEF ReceiveSuccess, CountSuccess
  <2> QED
    BY <1>1, <2>1 DEF ThresholdInv, CountersAreStreaks, ThresholdsHonoured, InitialAtFailureThreshold, ClosedAtSuccessThreshold
<1> QED
  BY <1>2, <1>3

\* A notification is sent when the counters say so, and they are the streaks.
LEMMA AnnouncingKeeps ==
    ASSUME TypeInv, ThresholdInv, TriggerSent \/ ResolveClears
    PROVE  ThresholdInv'
<1>1. restarts' = restarts /\ UNCHANGED <<running, successes, failures, okStreak, failStreak>>
  BY DEF TriggerSent, ResolveClears, budgets, observed
<1>2. CASE TriggerSent
  <2>1. /\ stage = "trigger" /\ stage' = "persist" /\ event'.kind \in {"initial", "reminder"} /\ event'.alert = at
        /\ FailureThreshold[at] <= failures
    BY <1>2 DEF TriggerSent, Triggering, DueToTrigger, Event
  <2> QED
    BY <1>1, <2>1 DEF ThresholdInv, CountersAreStreaks, ThresholdsHonoured, InitialAtFailureThreshold, ClosedAtSuccessThreshold
<1>3. CASE ResolveClears
  <2>1. /\ stage = "resolve" /\ stage' \in {"resolve", "notify"} /\ event'.kind = "closed" /\ event'.alert = at
        /\ ~(SuccessThreshold[at] > successes) /\ at \in Alerts
    BY <1>3, AlertBounds DEF ResolveClears, Resolving, Event, BelowSuccessThreshold, TypeInv, TypeOK
  <2>2. SuccessThreshold[at] \in Nat /\ successes \in Nat
    BY <2>1, ThresholdAssumption DEF TypeInv, TypeOK
  <2>3. successes >= SuccessThreshold[at]
    BY <2>1, <2>2
  <2> QED
    BY <1>1, <2>1, <2>3 DEF ThresholdInv, CountersAreStreaks, ThresholdsHonoured, InitialAtFailureThreshold, ClosedAtSuccessThreshold
<1> QED
  BY <1>2, <1>3

\* A replaced object claims nothing.
LEMMA ReplacingKeeps ==
    ASSUME TypeInv, ThresholdInv, Stop \/ StartSome
    PROVE  ThresholdInv'
<1>1. CASE Stop
  <2>1. restarts' = restarts + 1 /\ restarts \in Nat
    BY <1>1, BudgetAssumption DEF Stop, TypeInv, TypeOK
  <2>2. restarts' # 0
    BY <2>1
  <2> QED
    BY <2>2 DEF ThresholdInv, CountersAreStreaks, ThresholdsHonoured, InitialAtFailureThreshold, ClosedAtSuccessThreshold
<1>2. CASE StartSome
  <2>1. restarts' = restarts /\ ~running
    BY <1>2 DEF StartSome, Start
  <2> QED
    BY <2>1 DEF ThresholdInv, CountersAreStreaks, ThresholdsHonoured, InitialAtFailureThreshold, ClosedAtSuccessThreshold
<1> QED
  BY <1>1, <1>2


\* Every step keeps the counters those of the observer and the notifications at their thresholds.
LEMMA ThresholdInvStep == TypeInv /\ ThresholdInv /\ [Next]_vars => ThresholdInv'
<1> SUFFICES ASSUME TypeInv, ThresholdInv, [Next]_vars PROVE ThresholdInv'
  OBVIOUS
<1>1. CASE \/ ReceiveUnhandled \/ TriggerNotDue \/ TriggerNotSent \/ TriggerPersisted \/ TriggerDone
  <2>1. /\ running /\ UNCHANGED <<running, restarts, successes, failures, okStreak, failStreak>> /\ event'.kind = "none"
        /\ stage \in {"idle", "trigger", "persist"} /\ stage' \in {"idle", "trigger", "persist"}
    BY <1>1 DEF ReceiveUnhandled, TriggerNotDue, TriggerNotSent, TriggerPersisted, TriggerDone, Idle, Triggering, None,
                handler, memory, budgets, observed
  <2> QED
    BY <2>1, QuietStepKeeps
<1>2. CASE \/ ResolveNotTriggered \/ ResolveBelowThreshold \/ ResolveSent \/ ResolveNotSent
  <2>1. /\ running /\ UNCHANGED <<running, restarts, successes, failures, okStreak, failStreak>>
        /\ event'.kind \in {"none", "resolved"}
        /\ stage \in {"resolve", "notify"} /\ stage' \in {"resolve", "notify"}
    BY <1>2 DEF ResolveNotTriggered, ResolveBelowThreshold, ResolveSent, ResolveNotSent, Resolving, None, Event, memory,
                budgets, observed
  <2> QED
    BY <2>1, QuietStepKeeps
<1>3. CASE ResolveDone
  <2>1. /\ running /\ UNCHANGED <<running, restarts, successes, okStreak, failStreak>> /\ event'.kind = "none"
        /\ stage = "resolve" /\ stage' = "idle" /\ failures' = 0
    BY <1>3 DEF ResolveDone, ResetFailures, None, budgets, observed
  <2> QED
    BY <2>1 DEF ThresholdInv, CountersAreStreaks, ThresholdsHonoured, InitialAtFailureThreshold, ClosedAtSuccessThreshold
<1>4. CASE UNCHANGED vars
  BY <1>4 DEF vars, memory, handler, budgets, observed, ThresholdInv, CountersAreStreaks, ThresholdsHonoured,
              InitialAtFailureThreshold, ClosedAtSuccessThreshold
<1> QED
  BY <1>1, <1>2, <1>3, <1>4, CountingKeeps, AnnouncingKeeps, ReplacingKeeps DEF Next, HandlerStep

\* For the first object of an endpoint, an initial notification answers FailureThreshold failed results in a row and an
\* incident ends after SuccessThreshold successful ones, whatever sends and writes fail and however they alternate:
\* HandleAlerting resets one counter when it counts in the other, and the failures only once their end was handled
THEOREM ThresholdSafety == Spec => []ThresholdsHonoured
<1>1. Init => ThresholdInv
  BY DEF Init, ThresholdInv, CountersAreStreaks, ThresholdsHonoured, InitialAtFailureThreshold, ClosedAtSuccessThreshold, None
<1>2. ThresholdInv => ThresholdsHonoured
  BY DEF ThresholdInv
<1> QED
  BY <1>1, <1>2, TypeInvInit, TypeInvStep, ThresholdInvStep, PTL DEF Spec

\* The time since the last reminder of the object is at most the silence of each alert, and the time the handler captured
\* is that of the alerts it has still to look at.
RemindersKnown ==
    restarts = 0 =>
        /\ running
        /\ \A a \in Alerts : sinceReminder <= quiet[a]
        /\ stage = "trigger" => \A a \in Alerts : at <= a => reference <= quiet[a]
        /\ stage = "persist" => \A a \in Alerts : at < a => reference <= quiet[a]

\* Ages that saturate keep their order.
LEMMA BumpOrder == \A m, n \in 0..CounterCap : m <= n => Bump(m) <= Bump(n)
  BY CounterCapAssumption DEF Bump

\* Time goes by for the reminders of the object and for the silence of every alert alike.
LEMMA PassingKeepsOrder ==
    ASSUME TypeInv, RemindersKnown, TimePasses, restarts = 0
    PROVE  \A a \in Alerts : sinceReminder' <= quiet'[a]
<1>1. /\ sinceReminder' = Bump(sinceReminder) /\ sinceReminder \in 0..CounterCap
      /\ \A a \in Alerts : quiet'[a] = Bump(quiet[a]) /\ quiet[a] \in 0..CounterCap /\ sinceReminder <= quiet[a]
  BY DEF TimePasses, TypeInv, TypeOK, RemindersKnown
<1> QED
  BY <1>1, BumpOrder

\* What a step changes of the times and of the handler keeps the order of the times.
LEMMA RemindersKnownStep == KeepsReminderTime /\ TypeInv /\ RemindersKnown /\ [Next]_vars => RemindersKnown'
<1> SUFFICES ASSUME KeepsReminderTime, TypeInv, RemindersKnown, [Next]_vars PROVE RemindersKnown'
  OBVIOUS
<1>1. CASE ReceiveFailure \/ ReceiveSuccess \/ ReceiveUnhandled
  <2>1. /\ running /\ running' = running /\ restarts' = restarts /\ TimePasses /\ stage' # "persist"
        /\ stage' = "trigger" => reference' = sinceReminder'
    BY <1>1 DEF ReceiveFailure, ReceiveSuccess, ReceiveUnhandled, Idle, budgets, handler
  <2> QED
    BY <2>1, PassingKeepsOrder DEF RemindersKnown
<1>2. CASE TriggerSent
  <2>1. /\ running /\ UNCHANGED <<running, restarts, at, reference>> /\ stage = "trigger" /\ stage' = "persist"
        /\ sinceReminder' = 0 /\ quiet' = [quiet EXCEPT ![at] = 0] /\ at \in Alerts
    BY <1>2, AlertBounds DEF TriggerSent, Triggering, budgets, TypeInv, TypeOK
  <2>2. quiet \in [Alerts -> 0..CounterCap] /\ \A a \in Alerts : quiet'[a] \in Nat /\ (at < a => quiet'[a] = quiet[a])
    BY <2>1, SMTT(60) DEF TypeInv, TypeOK, Alerts
  <2> QED
    BY <2>1, <2>2 DEF RemindersKnown, Alerts
<1>3. CASE TriggerNotDue \/ TriggerNotSent \/ TriggerPersisted
  <2>1. /\ running /\ UNCHANGED <<running, restarts, reference, sinceReminder, quiet>> /\ stage' = "trigger" /\ at' = at + 1
        /\ stage \in {"trigger", "persist"} /\ at \in Nat
    BY <1>3, AlertCountAssumption DEF TriggerNotDue, TriggerNotSent, TriggerPersisted, Triggering, memory, budgets, observed,
                                      TypeInv, TypeOK
  <2>2. \A a \in Alerts : at' <= a => at < a /\ at <= a
    BY <2>1 DEF Alerts
  <2> QED
    BY <2>1, <2>2 DEF RemindersKnown
<1>4. CASE \/ TriggerDone \/ ResolveNotTriggered \/ ResolveBelowThreshold \/ ResolveClears \/ ResolveSent
           \/ ResolveNotSent \/ ResolveDone
  <2>1. running /\ UNCHANGED <<running, restarts, sinceReminder, quiet>> /\ stage' \notin {"trigger", "persist"}
    BY <1>4 DEF TriggerDone, ResolveNotTriggered, ResolveBelowThreshold, ResolveClears, ResolveSent, ResolveNotSent,
                ResolveDone, Resolving, memory, budgets, observed
  <2> QED
    BY <2>1 DEF RemindersKnown
<1>5. CASE Stop
  <2>1. restarts' = restarts + 1 /\ restarts \in Nat
    BY <1>5, BudgetAssumption DEF Stop, TypeInv, TypeOK
  <2> QED
    BY <2>1 DEF RemindersKnown
<1>6. CASE StartSome
  BY <1>6 DEF StartSome, Start, RemindersKnown
<1>7. CASE UNCHANGED vars
  BY <1>7 DEF vars, memory, handler, budgets, observed, RemindersKnown
<1> QED
  BY <1>1, <1>2, <1>3, <1>4, <1>5, <1>6, <1>7 DEF Next, HandlerStep

\* An endpoint of the configuration, whose object keeps the time of its last reminder, reminds of an alert only once its
\* interval went by since the alert was last notified: the time handleAlertsToTrigger captures before the first alert is
\* never later than that, whichever alerts are sent before it in the same pass
THEOREM ReminderSpacing ==
    ASSUME KeepsReminderTime
    PROVE  Spec => RemindersSpaced
<1> DEFINE Spaced == \A a \in Alerts : event' = Event("reminder", a) /\ restarts = 0 => quiet[a] >= ReminderInterval[a]
<1>1. TypeInv /\ RemindersKnown /\ [Next]_vars => [Spaced]_vars
  <2> SUFFICES ASSUME TypeInv, RemindersKnown, Next, NEW a \in Alerts, event' = Event("reminder", a), restarts = 0
               PROVE  quiet[a] >= ReminderInterval[a]
    OBVIOUS
  <2>1. event'.kind = "reminder" /\ event'.alert = a
    BY DEF Event
  <2>2. TriggerSent
    BY <2>1 DEF Next, HandlerStep, ReceiveFailure, ReceiveSuccess, ReceiveUnhandled, TriggerNotDue, TriggerNotSent,
           TriggerPersisted, TriggerDone, ResolveNotTriggered, ResolveBelowThreshold,
           ResolveClears, ResolveSent, ResolveNotSent, ResolveDone, Stop, StartSome, Start, None, Event
  <2>3. a = at /\ stage = "trigger" /\ reference >= ReminderInterval[a]
    BY <2>1, <2>2 DEF TriggerSent, Triggering, DueToTrigger, SendInitialAlert, SendReminder, Event
  <2>4. reference \in Nat /\ quiet[a] \in Nat /\ ReminderInterval[a] \in Nat /\ at <= a
    BY <2>3, ThresholdAssumption DEF TypeInv, TypeOK, Alerts
  <2>5. reference <= quiet[a]
    BY <2>3, <2>4 DEF RemindersKnown
  <2> QED
    BY <2>3, <2>4, <2>5
<1>2. Init => RemindersKnown
  BY CounterCapAssumption DEF Init, RemindersKnown
<1> QED
  BY <1>1, <1>2, TypeInvInit, TypeInvStep, RemindersKnownStep, PTL DEF Spec, RemindersSpaced

-----------------------------------------------------------------------------
(* The refinement *)

\* Whoever handles a result handles the last one
HandlesLastResult ==
    /\ stage \in {"trigger", "persist"} => lastResult = "bad"
    /\ stage \in {"resolve", "notify"} => lastResult = "ok"

\* A handler works for the last result until it has ended, for the next result waits for it.
LEMMA HandlesLastResultStep == TypeInv /\ HandlesLastResult /\ [Next]_vars => HandlesLastResult'
<1> USE DEF HandlesLastResult
<1>1. ASSUME HandlesLastResult, ReceiveFailure \/ ReceiveSuccess \/ ReceiveUnhandled PROVE HandlesLastResult'
  BY <1>1 DEF ReceiveFailure, ReceiveSuccess, ReceiveUnhandled, Idle, handler
<1>2. ASSUME HandlesLastResult, TriggerNotDue \/ TriggerNotSent \/ TriggerSent \/ TriggerPersisted \/ TriggerDone
      PROVE HandlesLastResult'
  BY <1>2 DEF TriggerNotDue, TriggerNotSent, TriggerSent, TriggerPersisted, TriggerDone, Triggering, observed
<1>3. ASSUME HandlesLastResult, ResolveNotTriggered \/ ResolveBelowThreshold \/ ResolveClears PROVE HandlesLastResult'
  BY <1>3 DEF ResolveNotTriggered, ResolveBelowThreshold, ResolveClears, Resolving, observed
<1>4. ASSUME HandlesLastResult, ResolveSent \/ ResolveNotSent \/ ResolveDone PROVE HandlesLastResult'
  BY <1>4 DEF ResolveSent, ResolveNotSent, ResolveDone, observed
<1>5. ASSUME HandlesLastResult, Stop PROVE HandlesLastResult'
  BY <1>5 DEF Stop
<1>6. ASSUME TypeInv, HandlesLastResult, StartSome PROVE HandlesLastResult'
  BY <1>6 DEF StartSome, Start, handler, TypeInv, StoppedIsIdle
<1>7. ASSUME HandlesLastResult, UNCHANGED vars PROVE HandlesLastResult'
  BY <1>7 DEF vars, handler, observed
<1> QED
  BY <1>1, <1>2, <1>3, <1>4, <1>5, <1>6, <1>7 DEF Next, HandlerStep

\* What the steps of the handler look like to whoever only knows the incidents
Health == IF lastResult = "none" THEN "unknown" ELSE lastResult
Stutters == OngoingIncidents' = OngoingIncidents /\ Health' = Health

\* A step that keeps the object and its flags keeps the incidents
LEMMA FlagsAreIncidents ==
    ASSUME running, UNCHANGED <<running, triggered>>
    PROVE  OngoingIncidents' = OngoingIncidents
  BY DEF OngoingIncidents

\* Sending the first problem notification of an alert opens its incident; a reminder changes nothing.
LEMMA SendingOpens ==
    ASSUME TypeInv, HandlesLastResult, TriggerSent
    PROVE  Stutters \/ \E a \in Alerts : Incidents!Open(a)
<1>1. at \in Alerts /\ running /\ running' = running /\ lastResult = "bad" /\ lastResult' = lastResult
  BY AlertBounds DEF TriggerSent, Triggering, HandlesLastResult, TypeInv, TypeOK
<1>2. triggered' = [triggered EXCEPT ![at] = TRUE] /\ triggered \in [Alerts -> BOOLEAN]
  BY DEF TriggerSent, TypeInv, TypeOK
<1>3. OngoingIncidents' = OngoingIncidents \cup {at}
  BY <1>1, <1>2 DEF OngoingIncidents
<1>4. Health' = Health
  BY <1>1 DEF Health
<1> QED
  BY <1>1, <1>3, <1>4 DEF Stutters, Health, Incidents!Open

\* Clearing the flag of an alert after a success closes its incident.
LEMMA ClearingCloses ==
    ASSUME TypeInv, HandlesLastResult, ResolveClears
    PROVE  \E a \in Alerts : Incidents!Close(a)
<1>1. /\ at \in Alerts /\ triggered[at] /\ running /\ running' = running
      /\ lastResult = "ok" /\ lastResult' = lastResult
  BY AlertBounds DEF ResolveClears, Resolving, Ongoing, HandlesLastResult, TypeInv, TypeOK, observed
<1>2. triggered' = [triggered EXCEPT ![at] = FALSE] /\ triggered \in [Alerts -> BOOLEAN]
  BY DEF ResolveClears, TypeInv, TypeOK
<1>3. OngoingIncidents' = OngoingIncidents \ {at} /\ at \in OngoingIncidents
  BY <1>1, <1>2 DEF OngoingIncidents
<1> QED
  BY <1>1, <1>3 DEF Incidents!Close

\* The process may end after a problem notification and before the row is written.
LEMMA StoppingLosesAtMostOne ==
    ASSUME TypeInv, IncidentInv, HandlesLastResult, storeErrors = 0, Stop
    PROVE  Stutters \/ \E a \in Alerts : Incidents!Lose(a)
<1>1. running /\ ~running' /\ UNCHANGED <<rows, lastResult>>
  BY DEF Stop, observed
<1>2. OngoingIncidents = {a \in Alerts : triggered[a]} /\ OngoingIncidents' = {a \in Alerts : rows[Checksum[a]] # NoRow}
  BY <1>1 DEF OngoingIncidents
<1>3. Health' = Health
  BY <1>1 DEF Health
<1>4. CASE stage = "persist" /\ rows[Checksum[at]] = NoRow
  <2>1. at \in Alerts /\ triggered[at] /\ lastResult = "bad"
    BY <1>4 DEF TypeInv, AtAlert, IncidentInv, PersistsTriggered, HandlesLastResult
  <2>2. OngoingIncidents' = OngoingIncidents \ {at} /\ at \in OngoingIncidents
    BY <1>1, <1>2, <1>4, <2>1 DEF IncidentInv, TriggeredHaveRows
  <2> QED
    BY <1>1, <2>1, <2>2 DEF Incidents!Lose
<1>5. CASE ~(stage = "persist" /\ rows[Checksum[at]] = NoRow)
  BY <1>1, <1>2, <1>3, <1>5 DEF Stutters, IncidentInv, TriggeredHaveRows, PersistsTriggered
<1> QED
  BY <1>4, <1>5

\* A start that could read all rows withdraws the incidents of the alerts that are no longer configured.
LEMMA StartingWithdraws ==
    ASSUME ChecksumsDiffer, TypeInv, NEW configured \in Configurations, NEW cleaned \in BOOLEAN,
           NEW unread \in SUBSET configured, Start(configured, cleaned, unread), storeErrors' = 0
    PROVE  Incidents!Withdraw(configured)
<1>1. cleaned /\ unread = {}
  BY DEF Start, TypeInv, TypeOK
<1>2. ~running /\ running' = TRUE /\ lastResult' = lastResult
  BY DEF Start, observed
<1>3. rows' = CleanedRows(configured)
  BY <1>1 DEF Start
<1>4. \A a \in Alerts : rows'[Checksum[a]] # NoRow <=> a \in configured /\ rows[Checksum[a]] # NoRow
  BY <1>3, ConfigurationAssumption DEF CleanedRows, Checksums, ChecksumsDiffer
<1>5. \A a \in Alerts : triggered'[a] <=> rows'[Checksum[a]] # NoRow
  BY <1>1, <1>4 DEF Start, Restored
<1>6. OngoingIncidents' = OngoingIncidents \cap configured
  BY <1>2, <1>4, <1>5 DEF OngoingIncidents
<1> QED
  BY <1>2, <1>6 DEF Incidents!Withdraw

\* A result that is received is observed and changes no incident.
LEMMA ObservedResults ==
    ASSUME TypeInv, ReceiveFailure \/ ReceiveSuccess
    PROVE  \E result \in {"ok", "bad"} : Incidents!Observe(result)
<1>1. running /\ UNCHANGED <<running, triggered>> /\ lastResult' \in {"ok", "bad"}
  BY DEF ReceiveFailure, ReceiveSuccess, Idle
<1> QED
  BY <1>1, FlagsAreIncidents DEF Incidents!Observe

\* Every other step of the handler is its own business.
LEMMA OthersStutter ==
    ASSUME \/ ReceiveUnhandled \/ TriggerNotDue \/ TriggerNotSent \/ TriggerPersisted \/ TriggerDone
           \/ ResolveNotTriggered \/ ResolveBelowThreshold \/ ResolveSent \/ ResolveNotSent \/ ResolveDone
    PROVE  Stutters
<1>1. running /\ UNCHANGED <<running, triggered, lastResult>>
  BY DEF ReceiveUnhandled, TriggerNotDue, TriggerNotSent, TriggerPersisted, TriggerDone, ResolveNotTriggered,
         ResolveBelowThreshold, ResolveSent, ResolveNotSent, ResolveDone, Idle, Triggering, Resolving, memory, observed
<1> QED
  BY <1>1, FlagsAreIncidents DEF Stutters, Health

\* A storage that has failed has failed for ever.
LEMMA ErrorsRemain == TypeInv /\ [Next]_vars /\ storeErrors' = 0 => storeErrors = 0
<1> SUFFICES ASSUME TypeInv, [Next]_vars, storeErrors' = 0 PROVE storeErrors = 0
  OBVIOUS
<1>1. storeErrors \in Nat
  BY BudgetAssumption DEF TypeInv, TypeOK
<1>2. storeErrors' = storeErrors \/ storeErrors' = storeErrors + 1
  BY DEF Next, HandlerStep, vars, budgets, ReceiveFailure, ReceiveSuccess, ReceiveUnhandled, TriggerNotDue, TriggerNotSent,
         TriggerSent, TriggerPersisted, TriggerDone, ResolveNotTriggered, ResolveBelowThreshold, ResolveClears,
         ResolveSent, ResolveNotSent, ResolveDone, Stop, StartSome, Start, Write
<1> QED
  BY <1>1, <1>2

\* Every step is a step of the incidents, or changes nothing of them.
LEMMA IncidentsStep ==
    ChecksumsDiffer /\ TypeInv /\ IncidentInv /\ HandlesLastResult /\ [Next]_vars
        => [Incidents!Next]_<<OngoingIncidents, Health, storeErrors = 0>>
<1> SUFFICES ASSUME ChecksumsDiffer, TypeInv, IncidentInv, HandlesLastResult, [Next]_vars
             PROVE  [Incidents!Next]_<<OngoingIncidents, Health, storeErrors = 0>>
  OBVIOUS
<1>1. CASE storeErrors' # 0
  <2>1. (storeErrors = 0)' = FALSE
    BY <1>1
  <2> QED
    BY <2>1 DEF Incidents!Next, Incidents!Unreliable
<1>2. CASE storeErrors' = 0
  <2>1. storeErrors = 0 /\ (storeErrors = 0)' = (storeErrors = 0)
    BY <1>2, ErrorsRemain
  <2>2. Stutters => UNCHANGED <<OngoingIncidents, Health, storeErrors = 0>>
    BY <2>1 DEF Stutters
  <2>3. Incidents!Promised => Incidents!Next
    BY <2>1 DEF Incidents!Next
  <2>4. CASE ReceiveFailure \/ ReceiveSuccess
    BY <2>3, <2>4, ObservedResults DEF Incidents!Promised
  <2>5. CASE TriggerSent
    BY <2>2, <2>3, <2>5, SendingOpens DEF Incidents!Promised, Alerts
  <2>6. CASE ResolveClears
    BY <2>3, <2>6, ClearingCloses DEF Incidents!Promised, Alerts
  <2>7. CASE Stop
    BY <2>1, <2>2, <2>3, <2>7, StoppingLosesAtMostOne DEF Incidents!Promised, Alerts
  <2>8. CASE StartSome
    BY <1>2, <2>3, <2>8, StartingWithdraws DEF StartSome, Incidents!Promised
  <2>9. CASE UNCHANGED vars
    <3>1. UNCHANGED <<running, triggered, rows, lastResult>>
      BY <2>9 DEF vars, memory, observed
    <3> QED
      BY <2>2, <3>1 DEF Stutters, Health, OngoingIncidents
  <2> QED
    BY <2>2, <2>4, <2>5, <2>6, <2>7, <2>8, <2>9, OthersStutter DEF Next, HandlerStep
<1> QED
  BY <1>1, <1>2

\* The handler of results, with its restarts at any step, implements the incidents of AlertIncidents as long as no write
\* or read fails: an incident opens with a failed result and closes with a successful one, a restart invents none, loses
\* at most the one that was being persisted and withdraws those of the alerts that are gone
THEOREM IncidentRefinement ==
    ASSUME ChecksumsDiffer
    PROVE  Spec => ImplementsIncidents
<1>1. Init => Incidents!Init /\ HandlesLastResult
  BY DEF Init, Incidents!Init, HandlesLastResult, OngoingIncidents
<1>2. TypeInv /\ IncidentInv /\ HandlesLastResult /\ [Next]_vars
        => [Incidents!Next]_<<OngoingIncidents, Health, storeErrors = 0>>
  BY IncidentsStep
<1> QED
  BY <1>1, <1>2, TypeInvInit, TypeInvStep, IncidentInvInit, IncidentInvStep, HandlesLastResultStep, PTL
  DEF Spec, ImplementsIncidents, Incidents!Spec, Health

=============================================================================
