------------------------------ MODULE Alerting ------------------------------
(***************************************************************************)
(* The alerting of one endpoint: HandleAlerting of internal/watchdog, the  *)
(* counters and the Triggered flags it keeps in memory, the rows of        *)
(* endpoint_alerts_triggered that survive the process, and                 *)
(* RestorePersistedTriggeredAlerts, which rebuilds the flags and the       *)
(* counters from the rows whenever the endpoint object is created again.   *)
(*                                                                         *)
(* A result is handled with the lock of its key held, one alert after the  *)
(* other.  The calls to the provider and to the storage are steps of their *)
(* own, so that the process may end between any two of them.  An alert     *)
(* that is in the configuration but not enabled is never looked at, and is *)
(* modelled like one that is not there.                                    *)
(***************************************************************************)
EXTENDS Naturals

CONSTANTS
    AlertCount,        \* how many alert definitions there are, in the order of ep.Alerts
    FailureThreshold,  \* by alert
    SuccessThreshold,  \* by alert
    ReminderInterval,  \* by alert, in check intervals; 0 sends no reminder
    SendOnResolved,    \* by alert
    Checksum,          \* by alert: the key of its row in the storage
    Configurations,    \* the sets of enabled alerts a (re)start may find
    KeepsReminderTime, \* FALSE for external endpoints, whose conversion drops LastReminderSent
    NoRow,             \* the absence of a row
    CounterCap,        \* counters and ages saturate here; above every threshold and interval
    MaxRestarts,       \* bound on the restarts of a behaviour
    MaxStoreErrors,    \* bound on the failures of the storage
    MaxSendErrors      \* bound on the failures of the providers

Alerts == 1..AlertCount
Checksums == {Checksum[a] : a \in Alerts}

ASSUME AlertCountAssumption == AlertCount \in Nat \ {0}
ASSUME CounterCapAssumption == CounterCap \in Nat \ {0}
\* ValidateAndSetDefaults replaces a threshold of 0 or less by a default
ASSUME ThresholdAssumption ==
    /\ FailureThreshold \in [Alerts -> 1..CounterCap]
    /\ SuccessThreshold \in [Alerts -> 1..CounterCap]
    /\ ReminderInterval \in [Alerts -> 0..CounterCap]
    /\ SendOnResolved \in [Alerts -> BOOLEAN]
    /\ KeepsReminderTime \in BOOLEAN
ASSUME StorageAssumption == NoRow \notin Nat /\ Checksum \in [Alerts -> Checksums]
ASSUME BudgetAssumption ==
    MaxRestarts \in Nat /\ MaxStoreErrors \in Nat /\ MaxSendErrors \in Nat
ASSUME ConfigurationAssumption == Configurations \subseteq SUBSET Alerts

VARIABLES
    enabled,       \* the enabled alerts of the endpoint object
    running,       \* whether the endpoint object exists
    successes,     \* ep.NumberOfSuccessesInARow
    failures,      \* ep.NumberOfFailuresInARow
    triggered,     \* alert.Triggered
    sinceReminder, \* time since ep.LastReminderSent
    rows,          \* endpoint_alerts_triggered: the persisted successes, by checksum
    stage,         \* what the handler of the result does next
    at,            \* the alert the handler is at
    reference,     \* the lastReminderSent captured by handleAlertsToTrigger, as an age
    restarts, storeErrors, sendErrors,   \* what was used of the bounds
    \* What an observer of the results and of the notifications knows
    lastResult,    \* the last handled result
    failStreak,    \* failed results in a row
    okStreak,      \* successful results in a row
    notified,      \* alerts whose receiver was told of a problem and not of its end
    quiet,         \* by alert, the time since its last problem notification
    event          \* what the last step sent or decided

memory == <<successes, failures, triggered, sinceReminder>>
handler == <<stage, at, reference>>
budgets == <<restarts, storeErrors, sendErrors>>
observed == <<lastResult, failStreak, okStreak, notified, quiet>>
vars == <<enabled, running, memory, rows, handler, budgets, observed, event>>

None == [kind |-> "none", alert |-> 0]
Event(kind, a) == [kind |-> kind, alert |-> a]
Bump(n) == IF n < CounterCap THEN n + 1 ELSE CounterCap

Stages == {"idle", "trigger", "persist", "resolve", "notify"}
Kinds == {"none", "initial", "reminder", "closed", "resolved"}

TypeOK ==
    /\ enabled \subseteq Alerts
    /\ running \in BOOLEAN
    /\ successes \in 0..CounterCap /\ failures \in 0..CounterCap
    /\ triggered \in [Alerts -> BOOLEAN]
    /\ sinceReminder \in 0..CounterCap
    /\ rows \in [Checksums -> (0..CounterCap) \cup {NoRow}]
    /\ stage \in Stages /\ at \in 1..(AlertCount + 1) /\ reference \in 0..CounterCap
    /\ restarts \in 0..MaxRestarts
    /\ storeErrors \in 0..MaxStoreErrors
    /\ sendErrors \in 0..MaxSendErrors
    /\ lastResult \in {"none", "ok", "bad"}
    /\ failStreak \in 0..CounterCap /\ okStreak \in 0..CounterCap
    /\ notified \subseteq Alerts
    /\ quiet \in [Alerts -> 0..CounterCap]
    /\ event \in [kind : Kinds, alert : 0..AlertCount]

Init ==
    /\ enabled \in Configurations
    /\ running = TRUE
    /\ successes = 0 /\ failures = 0
    /\ triggered = [a \in Alerts |-> FALSE]
    /\ sinceReminder = CounterCap        \* the zero time
    /\ rows = [c \in Checksums |-> NoRow]
    /\ stage = "idle" /\ at = 1 /\ reference = CounterCap
    /\ restarts = 0 /\ storeErrors = 0 /\ sendErrors = 0
    /\ lastResult = "none" /\ failStreak = 0 /\ okStreak = 0
    /\ notified = {}
    /\ quiet = [a \in Alerts |-> CounterCap]
    /\ event = None

-----------------------------------------------------------------------------
(* The results *)

Idle == running /\ stage = "idle"

\* One check interval goes by before the result
TimePasses ==
    /\ sinceReminder' = Bump(sinceReminder)
    /\ quiet' = [a \in Alerts |-> Bump(quiet[a])]

\* Variant: a failure does not interrupt the successes
CountFailureKeepingSuccesses == failures' = Bump(failures) /\ UNCHANGED successes
\* Variant: successes are only counted while failures are
CountSuccessOfOutage ==
    /\ successes' = IF failures = 0 THEN successes ELSE Bump(successes)
    /\ UNCHANGED failures

CountFailure == successes' = 0 /\ failures' = Bump(failures)
CountSuccess == successes' = Bump(successes) /\ UNCHANGED failures

\* A failed result: handleAlertsToTrigger updates the counters and captures the time of the last reminder
ReceiveFailure ==
    /\ Idle
    /\ TimePasses
    /\ CountFailure
    /\ stage' = "trigger" /\ at' = 1
    /\ reference' = IF KeepsReminderTime THEN sinceReminder' ELSE CounterCap
    /\ lastResult' = "bad" /\ failStreak' = Bump(failStreak) /\ okStreak' = 0
    /\ event' = None
    /\ UNCHANGED <<enabled, running, triggered, rows, budgets, notified>>

\* A successful result: handleAlertsToResolve counts it
ReceiveSuccess ==
    /\ Idle
    /\ TimePasses
    /\ CountSuccess
    /\ stage' = "resolve" /\ at' = 1
    /\ lastResult' = "ok" /\ okStreak' = Bump(okStreak) /\ failStreak' = 0
    /\ event' = None
    /\ UNCHANGED <<enabled, running, triggered, rows, reference, budgets, notified>>

\* A result under maintenance, pending, or without alerting configuration: HandleAlerting is not reached or returns at
\* once, and only the time goes by
ReceiveUnhandled ==
    /\ Idle
    /\ TimePasses
    /\ event' = None
    /\ UNCHANGED <<enabled, running, successes, failures, triggered, rows, handler, budgets,
                   lastResult, failStreak, okStreak, notified>>

-----------------------------------------------------------------------------
(* handleAlertsToTrigger, one alert at a time *)

Triggering == running /\ stage = "trigger" /\ at <= AlertCount
SendInitialAlert == ~triggered[at]
\* Variant: the reminders sent to the alerts before this one count, too
SendReminderSinceLast ==
    triggered[at] /\ ReminderInterval[at] > 0 /\ sinceReminder >= ReminderInterval[at]
\* Variant: every failure is reminded of
SendReminderAlways == triggered[at] /\ ReminderInterval[at] > 0

SendReminder == triggered[at] /\ ReminderInterval[at] > 0 /\ reference >= ReminderInterval[at]
\* Variant: only the failure that reaches the threshold triggers
DueAtThresholdOnly ==
    /\ at \in enabled
    /\ IF triggered[at] THEN SendReminder ELSE FailureThreshold[at] = failures

DueToTrigger ==
    /\ at \in enabled
    /\ FailureThreshold[at] <= failures
    /\ SendInitialAlert \/ SendReminder

TriggerNotDue ==
    /\ Triggering /\ ~DueToTrigger
    /\ at' = at + 1
    /\ event' = None
    /\ UNCHANGED <<enabled, running, memory, rows, stage, reference, budgets, observed>>

\* Variant: the alert is marked before it is known whether it was sent
TriggerNotSentYetMarked ==
    /\ Triggering /\ DueToTrigger
    /\ sendErrors < MaxSendErrors /\ sendErrors' = sendErrors + 1
    /\ triggered' = [triggered EXCEPT ![at] = TRUE]
    /\ at' = at + 1
    /\ event' = None
    /\ UNCHANGED <<enabled, running, successes, failures, sinceReminder, rows, stage, reference,
                   restarts, storeErrors, observed>>

\* Without a usable provider, or when Send fails, nothing is marked: the next failed result tries again
TriggerNotSent ==
    /\ Triggering /\ DueToTrigger
    /\ sendErrors < MaxSendErrors /\ sendErrors' = sendErrors + 1
    /\ at' = at + 1
    /\ event' = None
    /\ UNCHANGED <<enabled, running, memory, rows, stage, reference, restarts, storeErrors, observed>>

TriggerSent ==
    /\ Triggering /\ DueToTrigger
    /\ triggered' = [triggered EXCEPT ![at] = TRUE]
    /\ sinceReminder' = 0
    /\ stage' = "persist"
    /\ notified' = notified \cup {at}
    /\ quiet' = [quiet EXCEPT ![at] = 0]
    /\ event' = Event(IF SendInitialAlert THEN "initial" ELSE "reminder", at)
    /\ UNCHANGED <<enabled, running, successes, failures, rows, at, reference, budgets,
                   lastResult, failStreak, okStreak>>

\* A write of the storage: it succeeds, or fails and leaves the rows as they are
Write(newRows) ==
    \/ rows' = newRows /\ UNCHANGED storeErrors
    \/ /\ storeErrors < MaxStoreErrors /\ storeErrors' = storeErrors + 1
       /\ UNCHANGED rows

UpsertedRows == [rows EXCEPT ![Checksum[at]] = successes]

TriggerPersisted ==
    /\ running /\ stage = "persist"
    /\ Write(UpsertedRows)
    /\ stage' = "trigger" /\ at' = at + 1
    /\ event' = None
    /\ UNCHANGED <<enabled, running, memory, reference, restarts, sendErrors, observed>>

TriggerDone ==
    /\ running /\ stage = "trigger" /\ at = AlertCount + 1
    /\ stage' = "idle" /\ at' = 1
    /\ event' = None
    /\ UNCHANGED <<enabled, running, memory, rows, reference, budgets, observed>>

-----------------------------------------------------------------------------
(* handleAlertsToResolve, one alert at a time *)

Resolving == running /\ stage = "resolve" /\ at <= AlertCount
Ongoing == at \in enabled /\ triggered[at]
BelowSuccessThreshold == SuccessThreshold[at] > successes

ResolveNotTriggered ==
    /\ Resolving /\ ~Ongoing
    /\ at' = at + 1
    /\ event' = None
    /\ UNCHANGED <<enabled, running, memory, rows, stage, reference, budgets, observed>>

\* The successes so far are persisted with the alert
ResolveBelowThreshold ==
    /\ Resolving /\ Ongoing /\ BelowSuccessThreshold
    /\ Write(UpsertedRows)
    /\ at' = at + 1
    /\ event' = None
    /\ UNCHANGED <<enabled, running, memory, stage, reference, restarts, sendErrors, observed>>

\* Variant: the row is only deleted when the resolution is notified
RemainingRowsIfNotified == IF SendOnResolved[at] THEN [rows EXCEPT ![Checksum[at]] = NoRow] ELSE rows

RemainingRows == [rows EXCEPT ![Checksum[at]] = NoRow]

\* The alert is no longer triggered, whatever becomes of its notification
ResolveClears ==
    /\ Resolving /\ Ongoing /\ ~BelowSuccessThreshold
    /\ triggered' = [triggered EXCEPT ![at] = FALSE]
    /\ Write(RemainingRows)
    /\ event' = Event("closed", at)
    /\ IF SendOnResolved[at]
         THEN stage' = "notify" /\ UNCHANGED at
         ELSE at' = at + 1 /\ UNCHANGED stage
    /\ UNCHANGED <<enabled, running, successes, failures, sinceReminder, reference,
                   restarts, sendErrors, observed>>

ResolveSent ==
    /\ running /\ stage = "notify"
    /\ notified' = notified \ {at}
    /\ event' = Event("resolved", at)
    /\ stage' = "resolve" /\ at' = at + 1
    /\ UNCHANGED <<enabled, running, memory, rows, reference, budgets,
                   lastResult, failStreak, okStreak, quiet>>

ResolveNotSent ==
    /\ running /\ stage = "notify"
    /\ sendErrors < MaxSendErrors /\ sendErrors' = sendErrors + 1
    /\ stage' = "resolve" /\ at' = at + 1
    /\ event' = None
    /\ UNCHANGED <<enabled, running, memory, rows, reference, restarts, storeErrors, observed>>

\* Variant: the failures of the past outage still count
KeepFailures == UNCHANGED failures

ResetFailures == failures' = 0

ResolveDone ==
    /\ running /\ stage = "resolve" /\ at = AlertCount + 1
    /\ ResetFailures
    /\ stage' = "idle" /\ at' = 1
    /\ event' = None
    /\ UNCHANGED <<enabled, running, successes, triggered, sinceReminder, rows, reference,
                   budgets, observed>>

-----------------------------------------------------------------------------
(* The end of an endpoint object and the start of the next one *)

\* The process ends, or the object is replaced while no result is being handled: the memory is lost
Stop ==
    /\ running /\ restarts < MaxRestarts
    /\ restarts' = restarts + 1
    /\ running' = FALSE
    /\ successes' = 0 /\ failures' = 0 /\ sinceReminder' = CounterCap
    /\ triggered' = [a \in Alerts |-> FALSE]
    /\ stage' = "idle" /\ at' = 1
    /\ event' = None
    /\ UNCHANGED <<enabled, rows, reference, storeErrors, sendErrors, observed>>

\* Variant: the rows of the alerts that are gone stay
AllRows(configured) == rows

\* The rows left by DeleteAllTriggeredAlertsNotInChecksumsByEndpoint
CleanedRows(configured) ==
    [c \in Checksums |-> IF \E a \in configured : Checksum[a] = c THEN rows[c] ELSE NoRow]

LastOf(S) == CHOOSE a \in S : \A b \in S : b <= a

\* Variant: the lookup does not tell an alert with a row from one without
RestoredWithoutLookup(readable) == readable

\* The alerts that have a row, once the others were deleted
Restored(readable) == {a \in readable : rows'[Checksum[a]] # NoRow}

\* RestorePersistedTriggeredAlerts on a new object with the given enabled alerts. cleaned is whether the deletion
\* succeeded, unread the alerts whose row could not be read. The counters are those of the last alert restored.
Start(configured, cleaned, unread) ==
    LET restored == Restored(configured \ unread) IN
    /\ ~running
    /\ running' = TRUE
    /\ enabled' = configured
    /\ rows' = IF cleaned THEN CleanedRows(configured) ELSE rows
    /\ triggered' = [a \in Alerts |-> a \in restored]
    /\ IF restored = {}
         THEN UNCHANGED <<successes, failures>>
         ELSE /\ successes' = rows'[Checksum[LastOf(restored)]]
              /\ failures' = FailureThreshold[LastOf(restored)]
    /\ IF cleaned /\ unread = {}
         THEN UNCHANGED storeErrors
         ELSE storeErrors < MaxStoreErrors /\ storeErrors' = storeErrors + 1
    /\ event' = None
    /\ UNCHANGED <<sinceReminder, handler, restarts, sendErrors, observed>>

StartSome ==
    \E configured \in Configurations, cleaned \in BOOLEAN :
        \E unread \in SUBSET configured : Start(configured, cleaned, unread)

-----------------------------------------------------------------------------
HandlerStep ==
    \/ TriggerNotDue \/ TriggerNotSent \/ TriggerSent \/ TriggerPersisted \/ TriggerDone
    \/ ResolveNotTriggered \/ ResolveBelowThreshold \/ ResolveClears
    \/ ResolveSent \/ ResolveNotSent \/ ResolveDone

Next ==
    \/ ReceiveFailure \/ ReceiveSuccess \/ ReceiveUnhandled
    \/ HandlerStep
    \/ Stop
    \/ StartSome

Spec == Init /\ [][Next]_vars

\* The handler and a stopped endpoint go on, and the ticker of the monitoring goroutine keeps bringing results that are
\* handled: maintenance windows end
Fairness ==
    /\ WF_vars(HandlerStep)
    /\ WF_vars(StartSome)
    /\ WF_vars(ReceiveFailure \/ ReceiveSuccess)

FairSpec == Spec /\ Fairness

-----------------------------------------------------------------------------
(* Properties *)

\* Between two results, the rows of the storage are exactly the triggered alerts of the object, so that the next object
\* of the endpoint resumes with the same incidents. Claimed as long as the storage does not fail.
TriggeredArePersisted ==
    Idle /\ storeErrors = 0 =>
        \A a \in Alerts : triggered[a] <=> rows[Checksum[a]] # NoRow

\* A resolved notification only goes to a receiver that was told of the problem and not yet of its end, across any
\* number of restarts, however the handler is interrupted.
ResolvedOnlyIfNotified ==
    [][\A a \in Alerts : event' = Event("resolved", a) /\ storeErrors = 0 => a \in notified]_vars

\* An initial notification is the answer to FailureThreshold failed results in a row, whatever sends and writes failed
\* before. Claimed for the first object: a later one starts with the restored counters.
InitialAtFailureThreshold ==
    event.kind = "initial" /\ restarts = 0 => failStreak >= FailureThreshold[event.alert]

\* An incident is closed after SuccessThreshold successful results in a row. Claimed for the first object: a later one
\* starts with the restored counters.
ClosedAtSuccessThreshold ==
    event.kind = "closed" /\ restarts = 0 => okStreak >= SuccessThreshold[event.alert]

\* Whatever sends and writes fail, and however successes and failures alternate, an initial notification answers
\* FailureThreshold failures in a row and the end of an incident SuccessThreshold successes in a row.
ThresholdsHonoured == InitialAtFailureThreshold /\ ClosedAtSuccessThreshold

\* MinimumReminderInterval goes by between two problem notifications of the same alert of an object.
RemindersSpaced ==
    [][\A a \in Alerts :
         event' = Event("reminder", a) /\ restarts = 0 => quiet[a] >= ReminderInterval[a]]_vars

\* Once a failed result is handled, no reminder is overdue: every alert whose interval has gone by was sent one. Claimed
\* as long as the providers do not fail; after a restart the first failure reminds.
NoReminderOverdue ==
    running /\ stage = "trigger" /\ at = AlertCount + 1 /\ sendErrors = 0 =>
        \A a \in enabled :
            triggered[a] /\ FailureThreshold[a] <= failures /\ ReminderInterval[a] > 0
                => quiet[a] < ReminderInterval[a]

\* Once the endpoint only succeeds, every incident ends, whatever the restarts and the failures before: neither a lost
\* row nor a stale counter keeps an alert triggered for ever.
RecoveryClosesIncidents ==
    <>[](lastResult = "ok") => <>[](\A a \in Alerts : ~triggered[a])

\* Once the endpoint only fails, every enabled alert ends up triggered: a failed Send is retried with the next result
\* (the lazy retry of Alert.Triggered) and a restart counts again.
OutageTriggersAlerts ==
    <>[](lastResult = "bad") => <>[](\A a \in enabled : triggered[a])

\* The alerts end up as the health of the endpoint says, whatever restarts and failed sends there were before.
AlertsFollowHealth == RecoveryClosesIncidents /\ OutageTriggersAlerts

\* The incidents an operator relies on: the Triggered flags, or the rows they will be restored from
OngoingIncidents ==
    IF running THEN {a \in Alerts : triggered[a]} ELSE {a \in Alerts : rows[Checksum[a]] # NoRow}

Incidents == INSTANCE AlertIncidents
    WITH incidents <- OngoingIncidents,
         health <- IF lastResult = "none" THEN "unknown" ELSE lastResult,
         reliable <- storeErrors = 0

\* The alerting implements the incidents of AlertIncidents: as long as the storage does not fail, a restart never invents
\* an incident, loses at most the one whose row was being written, and withdraws those of the alerts that are no longer
\* configured.
ImplementsIncidents == Incidents!Spec


\* A reminder is sent when it is due and not before (handleAlertsToTrigger).
RemindersOnTime == []NoReminderOverdue /\ RemindersSpaced
=============================================================================
