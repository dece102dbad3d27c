----------------------------- MODULE Monitoring -----------------------------
(***************************************************************************)
(* The monitoring registry of internal/watchdog: the endpoints that are    *)
(* monitored, each by a goroutine of its own, the pushes they receive, the *)
(* changes of the administration that stop and start them one by one, and  *)
(* the cycles (reload, shutdown) that stop them all.  internal/lifecycle   *)
(* keeps the changes and the cycles apart.                                 *)
(*                                                                         *)
(* Every start of an endpoint is an entry of its own.  An entry and a push *)
(* process their results with the lock of the key held: the result is      *)
(* stored, then the alerts are handled (see Alerting).                     *)
(***************************************************************************)
EXTENDS Naturals, FiniteSets

CONSTANTS
    Keys,          \* the keys of the endpoints
    Heartbeats,    \* the keys of external endpoints, whose goroutine watches for missing pushes
    FallsBack,     \* the external endpoints of the configuration file: a push that is not monitored is processed anyway
    Pushes,        \* the requests that push results
    Concurrency,   \* the weight of monitoringSemaphore
    MayTimeOut,    \* whether the timers of waitForExecution and close may go off
    MaxEntries,    \* bound on the starts of a behaviour
    MaxCycles,     \* bound on the cycles
    Free           \* no entry, no key, no holder of a lock

Entries == 1..MaxEntries
Actors == Entries \cup Pushes

ASSUME KeysAssumption == Heartbeats \subseteq Keys /\ FallsBack \subseteq Keys
ASSUME ActorsAssumption == Pushes \cap Nat = {} /\ Free \notin Actors /\ Free \notin Keys
ASSUME BoundsAssumption ==
    /\ Concurrency \in Nat \ {0} /\ MaxEntries \in Nat /\ MaxCycles \in Nat \ {0}
    /\ MayTimeOut \in BOOLEAN

VARIABLES
    phase,      \* the cycle: starting, running, pending (its end is asked for), closing or closed
    cycle,      \* how many cycles were started
    entryOf,    \* r.entries: the entry monitored for a key
    keyOf,      \* the key of an entry
    cycleOf,    \* the cycle that started an entry, whose registry and semaphore it uses
    cancelled,  \* the entries whose context is cancelled
    pc,         \* where the goroutine of an entry, or the request of a push, is
    wanted,     \* the key of a push
    target,     \* the entry a push is processed for
    holder,     \* resultLocks: who holds the lock of a key
    change,     \* the change of the administration in progress
    record,     \* what the last step recorded
    stopped,    \* the entries StopEndpoint returned for
    closedOn,   \* observer: the entries Shutdown returned for, but for those past their look at the context by then
    late        \* the pushes that arrived after their endpoint was stopped

control == <<phase, cycle>>
requests == <<wanted, target>>
entries == <<keyOf, cycleOf>>
observed == <<stopped, closedOn, late>>
vars == <<control, entryOf, entries, cancelled, pc, requests, holder, change, record, observed>>

EntryStages == {"unused", "waiting", "evaluating", "locking", "checking", "storing", "alerting", "returned"}
PushStages == {"idle", "locking", "checking", "again", "storing", "alerting"}
NoChange == [stage |-> "none", key |-> Free, entry |-> Free]
Nothing == [what |-> "nothing", by |-> Free, entry |-> Free]
Recorded(what, actor, e) == [what |-> what, by |-> actor, entry |-> e]

TypeOK ==
    /\ phase \in {"starting", "running", "pending", "closing", "closed"} /\ cycle \in 1..MaxCycles
    /\ entryOf \in [Keys -> Entries \cup {Free}]
    /\ keyOf \in [Entries -> Keys \cup {Free}] /\ cycleOf \in [Entries -> 0..MaxCycles]
    /\ cancelled \subseteq Entries
    /\ pc \in [Actors -> EntryStages \cup PushStages]
    /\ wanted \in [Pushes -> Keys \cup {Free}] /\ target \in [Pushes -> Entries \cup {Free}]
    /\ holder \in [Keys -> Actors \cup {Free}]
    /\ \A k \in Keys : holder[k] # Free => pc[holder[k]] \in {"checking", "storing", "alerting"}
    /\ change \in [stage : {"none", "chosen", "removed", "waiting", "locking", "stopped"}, key : Keys \cup {Free},
                   entry : Entries \cup {Free}]
    /\ record \in [what : {"nothing", "result", "alert"}, by : Actors \cup {Free}, entry : Entries \cup {Free}]
    /\ stopped \subseteq Entries /\ closedOn \subseteq Entries /\ late \subseteq Pushes

Processing(a) == pc[a] \in {"checking", "storing", "alerting"}

Init ==
    /\ phase = "starting" /\ cycle = 1
    /\ entryOf = [k \in Keys |-> Free]
    /\ keyOf = [e \in Entries |-> Free] /\ cycleOf = [e \in Entries |-> 0]
    /\ cancelled = {}
    /\ pc = [a \in Actors |-> IF a \in Entries THEN "unused" ELSE "idle"]
    /\ wanted = [p \in Pushes |-> Free] /\ target = [p \in Pushes |-> Free]
    /\ holder = [k \in Keys |-> Free]
    /\ change = NoChange
    /\ record = Nothing
    /\ stopped = {} /\ closedOn = {} /\ late = {}

Move(a, from, to) == pc[a] = from /\ pc' = [pc EXCEPT ![a] = to]

-----------------------------------------------------------------------------
(* Starting an endpoint: start and startExternal *)

Unused == {e \in Entries : pc[e] = "unused"}

\* Variant: an endpoint that is monitored is started again
NotRefused(k) == phase \in {"starting", "running", "pending"}
\* The registry is not closed, and no endpoint with the same key is monitored
MayStart(k) == phase \in {"starting", "running", "pending"} /\ entryOf[k] = Free

StartEntry(k, e) ==
    /\ MayStart(k)
    /\ e \in Unused /\ \A f \in Unused : e <= f
    /\ entryOf' = [entryOf EXCEPT ![k] = e]
    /\ keyOf' = [keyOf EXCEPT ![e] = k] /\ cycleOf' = [cycleOf EXCEPT ![e] = cycle]
    /\ pc' = [pc EXCEPT ![e] = "waiting"]

\* Monitor and StartMonitoring, while the cycle is in progress
StartInCycle(k, e) ==
    /\ phase = "starting"
    /\ StartEntry(k, e)
    /\ record' = Nothing
    /\ UNCHANGED <<control, cancelled, requests, holder, change, observed>>

CycleStarted ==
    /\ phase = "starting" /\ phase' = "running"
    /\ record' = Nothing
    /\ UNCHANGED <<cycle, entryOf, entries, cancelled, pc, requests, holder, change, observed>>

-----------------------------------------------------------------------------
(* The goroutine of an entry: monitorEndpoint and monitorExternalEndpointHeartbeat *)

\* An execution uses one unit of the semaphore of its cycle until it ends
Executing(c) ==
    {e \in Entries : cycleOf[e] = c /\ pc[e] \in {"evaluating", "locking", "checking", "storing", "alerting"}}

GoroutineStep == record' = Nothing /\ UNCHANGED <<control, entryOf, entries, cancelled, requests, change, observed>>

Acquire(e) ==
    /\ Move(e, "waiting", "evaluating")
    /\ e \notin cancelled
    /\ Cardinality(Executing(cycleOf[e])) < Concurrency
    /\ GoroutineStep /\ UNCHANGED holder

\* No connectivity, or a heartbeat whose last push is recent: nothing to record. A heartbeat looks at its context before
\* it waits for the lock, and not afterwards.
Skip(e) ==
    /\ Move(e, "evaluating", "waiting")
    /\ GoroutineStep /\ UNCHANGED holder

\* The result of the evaluation is there, or the heartbeat is missing
Evaluated(e) ==
    /\ Move(e, "evaluating", "locking")
    /\ keyOf[e] \in Heartbeats => e \notin cancelled
    /\ GoroutineStep /\ UNCHANGED holder

\* Variant: the lock of the key is not waited for
LockTaken(a, k) == holder' = [holder EXCEPT ![k] = a]
LockResults(a, k) == holder[k] = Free /\ holder' = [holder EXCEPT ![k] = a]
UnlockResults(k) == holder' = [holder EXCEPT ![k] = Free]

\* A check looks at its context once it has the lock
AfterLock(e) == IF keyOf[e] \in Heartbeats THEN "storing" ELSE "checking"

LockEntry(e) ==
    /\ Move(e, "locking", AfterLock(e))
    /\ LockResults(e, keyOf[e])
    /\ GoroutineStep

\* Variant: the context is not looked at once the lock is taken
KeepAnyway(e) ==
    /\ Move(e, "checking", "storing")
    /\ GoroutineStep /\ UNCHANGED holder

Keep(e) ==
    /\ Move(e, "checking", "storing")
    /\ e \notin cancelled
    /\ GoroutineStep /\ UNCHANGED holder

\* Variant: the lock is not released when the result is discarded
DiscardWithLock(e) ==
    /\ Move(e, "checking", "waiting")
    /\ e \in cancelled
    /\ GoroutineStep /\ UNCHANGED holder

Discard(e) ==
    /\ Move(e, "checking", "waiting")
    /\ e \in cancelled
    /\ UnlockResults(keyOf[e])
    /\ GoroutineStep

\* The result is inserted in the storage and published. When the insertion of a check fails, the alerts are handled
\* all the same (UpdateEndpointStatus only logs the error).
Store(e) ==
    /\ Move(e, "storing", "alerting")
    /\ record' = Recorded("result", e, e)
    /\ UNCHANGED <<control, entryOf, entries, cancelled, requests, holder, change, observed>>

StoreFails(e) ==
    /\ Move(e, "storing", IF keyOf[e] \in Heartbeats THEN "waiting" ELSE "alerting")
    /\ IF keyOf[e] \in Heartbeats THEN UnlockResults(keyOf[e]) ELSE UNCHANGED holder
    /\ GoroutineStep

\* The alerts are handled, the lock is released and the execution ends
HandleAlerting(e) ==
    /\ Move(e, "alerting", "waiting")
    /\ UnlockResults(keyOf[e])
    /\ record' = Recorded("alert", e, e)
    /\ UNCHANGED <<control, entryOf, entries, cancelled, requests, change, observed>>

Return(e) ==
    /\ Move(e, "waiting", "returned")
    /\ e \in cancelled
    /\ GoroutineStep /\ UNCHANGED holder

EntryStep(e) ==
    \/ Acquire(e) \/ Skip(e) \/ Evaluated(e) \/ LockEntry(e) \/ Discard(e) \/ Keep(e)
    \/ Store(e) \/ StoreFails(e) \/ HandleAlerting(e) \/ Return(e)

-----------------------------------------------------------------------------
(* A push: SubmitEndpointResult, and the fallback of pushHandler *)

PushStep == record' = Nothing /\ UNCHANGED <<control, entryOf, entries, cancelled, change, stopped, closedOn>>

\* The entry is looked up with the lock of the registry held, and nothing else
Lookup(p, k) ==
    /\ entryOf[k] # Free
    /\ Move(p, "idle", "locking")
    /\ wanted' = [wanted EXCEPT ![p] = k] /\ target' = [target EXCEPT ![p] = entryOf[k]]
    /\ late' = IF entryOf[k] \in cancelled THEN late \cup {p} ELSE late
    /\ PushStep /\ UNCHANGED holder

\* An endpoint that is not monitored refuses the push, unless it is an external endpoint of the configuration file
LookupFails(p, k) ==
    /\ entryOf[k] = Free /\ k \in FallsBack
    /\ Move(p, "idle", "again")
    /\ wanted' = [wanted EXCEPT ![p] = k]
    /\ PushStep /\ UNCHANGED <<holder, target, late>>

LockPush(p) ==
    /\ Move(p, "locking", "checking")
    /\ LockResults(p, wanted[p])
    /\ PushStep /\ UNCHANGED <<requests, late>>

Answered(p) ==
    /\ wanted' = [wanted EXCEPT ![p] = Free] /\ target' = [target EXCEPT ![p] = Free]
    /\ late' = late \ {p}

\* The endpoint was stopped meanwhile
Refuse(p) ==
    /\ target[p] \in cancelled /\ wanted[p] \notin FallsBack
    /\ Move(p, "checking", "idle")
    /\ UnlockResults(wanted[p])
    /\ Answered(p)
    /\ PushStep

\* The heartbeat was stopped meanwhile: pushHandler processes the push with the endpoint of the configuration file
FallBack(p) ==
    /\ target[p] \in cancelled /\ wanted[p] \in FallsBack
    /\ Move(p, "checking", "again")
    /\ UnlockResults(wanted[p])
    /\ target' = [target EXCEPT ![p] = Free]
    /\ PushStep /\ UNCHANGED <<wanted, late>>

\* ProcessExternalEndpointResult
LockAgain(p) ==
    /\ Move(p, "again", "storing")
    /\ LockResults(p, wanted[p])
    /\ PushStep /\ UNCHANGED <<requests, late>>

\* Variant: the context is not looked at once the lock is taken
AcceptAnyway(p) ==
    /\ Move(p, "checking", "storing")
    /\ PushStep /\ UNCHANGED <<requests, holder, late>>

Accept(p) ==
    /\ target[p] \notin cancelled
    /\ Move(p, "checking", "storing")
    /\ PushStep /\ UNCHANGED <<requests, holder, late>>

StorePush(p) ==
    /\ Move(p, "storing", "alerting")
    /\ record' = Recorded("result", p, target[p])
    /\ UNCHANGED <<control, entryOf, entries, cancelled, requests, holder, change, observed>>

\* Nothing else is done for a push that could not be stored
StorePushFails(p) ==
    /\ Move(p, "storing", "idle")
    /\ UnlockResults(wanted[p])
    /\ Answered(p)
    /\ PushStep

HandlePushAlerting(p) ==
    /\ Move(p, "alerting", "idle")
    /\ UnlockResults(wanted[p])
    /\ record' = Recorded("alert", p, target[p])
    /\ Answered(p)
    /\ UNCHANGED <<control, entryOf, entries, cancelled, change, stopped, closedOn>>

ProcessPush(p) ==
    \/ LockPush(p) \/ Refuse(p) \/ FallBack(p) \/ LockAgain(p) \/ Accept(p)
    \/ StorePush(p) \/ StorePushFails(p) \/ HandlePushAlerting(p)

-----------------------------------------------------------------------------
(* A change of the administration: stop, and start again or not *)

ChangeStep == record' = Nothing /\ UNCHANGED <<control, entries, requests, holder>>

\* Variant: a change begins while a cycle is pending
BeginsAnyway == phase \in {"running", "pending"}
\* TryBeginChange: no cycle is in progress or pending
TryBeginChange == phase = "running"

\* The service looks at what it changes, one change at a time
BeginChange(k) ==
    /\ change.stage = "none" /\ TryBeginChange
    /\ entryOf[k] # Free /\ k \notin FallsBack
    /\ change' = [stage |-> "chosen", key |-> k, entry |-> entryOf[k]]
    /\ ChangeStep /\ UNCHANGED <<entryOf, cancelled, pc, observed>>

\* The definition or its version is refused
RefuseChange ==
    /\ change.stage = "chosen"
    /\ change' = NoChange
    /\ ChangeStep /\ UNCHANGED <<entryOf, cancelled, pc, observed>>

\* The entry is removed from the registry, whose lock is released, and then cancelled
StopBegins ==
    /\ change.stage = "chosen" /\ entryOf[change.key] = change.entry
    /\ entryOf' = [entryOf EXCEPT ![change.key] = Free]
    /\ change' = [change EXCEPT !.stage = "removed"]
    /\ ChangeStep /\ UNCHANGED <<cancelled, pc, observed>>

StopCancels ==
    /\ change.stage = "removed"
    /\ cancelled' = cancelled \cup {change.entry}
    /\ change' = [change EXCEPT !.stage = "waiting"]
    /\ ChangeStep /\ UNCHANGED <<entryOf, pc, observed>>

\* waitForExecution: the goroutine has returned
StopWaits ==
    /\ change.stage = "waiting"
    /\ pc[change.entry] = "returned"
    /\ change' = [change EXCEPT !.stage = "locking"]
    /\ ChangeStep /\ UNCHANGED <<entryOf, cancelled, pc, observed>>

\* waitForExecution: the timer went off
StopTimesOut ==
    /\ change.stage = "waiting" /\ MayTimeOut
    /\ change' = [change EXCEPT !.stage = "locking"]
    /\ ChangeStep /\ UNCHANGED <<entryOf, cancelled, pc, observed>>

\* Variant: the result or the push being processed is not waited for
ReturnsAtOnce(k) == TRUE
\* lockEndpointResults(key)(): whoever processes a result of the key is waited for
NobodyProcesses(k) == holder[k] = Free

StopReturns ==
    /\ change.stage = "locking" /\ NobodyProcesses(change.key)
    /\ stopped' = stopped \cup {change.entry}
    /\ change' = [change EXCEPT !.stage = "stopped"]
    /\ ChangeStep /\ UNCHANGED <<entryOf, cancelled, pc, closedOn, late>>

\* The endpoint is started again, with another definition or with the previous one
StartAgain(e) ==
    /\ change.stage = "stopped"
    /\ StartEntry(change.key, e)
    /\ change' = NoChange
    /\ record' = Nothing
    /\ UNCHANGED <<control, cancelled, requests, holder, observed>>

\* The endpoint was deleted or disabled
LeaveStopped ==
    /\ change.stage = "stopped"
    /\ change' = NoChange
    /\ ChangeStep /\ UNCHANGED <<entryOf, cancelled, pc, observed>>

\* An endpoint that is not monitored is created or enabled
StartNew(k, e) ==
    /\ change.stage = "none" /\ TryBeginChange
    /\ k \notin FallsBack
    /\ StartEntry(k, e)
    /\ record' = Nothing
    /\ UNCHANGED <<control, cancelled, requests, holder, change, observed>>

ChangeSteps == RefuseChange \/ StopBegins \/ StopCancels \/ StopWaits \/ StopTimesOut \/ StopReturns \/ LeaveStopped

-----------------------------------------------------------------------------
(* The end of a cycle and the next one *)

Monitored == {entryOf[k] : k \in Keys} \ {Free}

\* Variant: the cycle does not wait for the changes in progress
CycleBegins == TRUE
\* BeginCycle waits for the changes in progress
NoChangeInProgress == change.stage = "none"

\* The configuration was modified, or the process is told to stop: BeginCycle is called
AskForCycle ==
    /\ phase = "running" /\ phase' = "pending"
    /\ record' = Nothing
    /\ UNCHANGED <<cycle, entryOf, entries, cancelled, pc, requests, holder, change, observed>>

\* close: the entries are cancelled, and nothing is started anymore
Close ==
    /\ phase = "pending" /\ NoChangeInProgress
    /\ phase' = "closing"
    /\ cancelled' = cancelled \cup Monitored
    /\ record' = Nothing
    /\ UNCHANGED <<cycle, entryOf, entries, pc, requests, holder, change, observed>>

\* Variant: the goroutines are only cancelled
NotWaitedFor == TRUE
\* The goroutines have returned
WaitedFor == \A e \in Monitored : pc[e] = "returned"

\* A check looks at its context with the lock, a heartbeat before it waits for the lock
PastItsLook(e) == pc[e] \in {"storing", "alerting"} \/ (pc[e] = "locking" /\ keyOf[e] \in Heartbeats)
\* The executions in progress that "will be discarded", and the goroutines that have none
BeforeTheirLook == {e \in Entries : pc[e] # "unused" /\ ~PastItsLook(e)}

CloseReturns ==
    /\ phase = "closing" /\ WaitedFor
    /\ phase' = "closed"
    /\ closedOn' = closedOn \cup Monitored \cup BeforeTheirLook
    /\ record' = Nothing
    /\ UNCHANGED <<cycle, entryOf, entries, cancelled, pc, requests, holder, change, stopped, late>>

\* The grace period is over: the goroutines are left behind.
CloseTimesOut ==
    /\ phase = "closing" /\ MayTimeOut
    /\ phase' = "closed"
    /\ closedOn' = closedOn \cup BeforeTheirLook
    /\ record' = Nothing
    /\ UNCHANGED <<cycle, entryOf, entries, cancelled, pc, requests, holder, change, stopped, late>>

\* Monitor replaces the registry
NextCycle ==
    /\ phase = "closed" /\ cycle < MaxCycles
    /\ phase' = "starting" /\ cycle' = cycle + 1
    /\ entryOf' = [k \in Keys |-> Free]
    /\ record' = Nothing
    /\ UNCHANGED <<entries, cancelled, pc, requests, holder, change, observed>>

-----------------------------------------------------------------------------
Next ==
    \/ \E k \in Keys, e \in Entries : StartInCycle(k, e) \/ StartNew(k, e)
    \/ \E e \in Entries : EntryStep(e) \/ StartAgain(e)
    \/ \E p \in Pushes : ProcessPush(p) \/ \E k \in Keys : Lookup(p, k) \/ LookupFails(p, k)
    \/ \E k \in Keys : BeginChange(k)
    \/ ChangeSteps
    \/ CycleStarted \/ AskForCycle \/ Close \/ CloseReturns \/ CloseTimesOut \/ NextCycle

Spec == Init /\ [][Next]_vars

\* The goroutines, the requests and the stops go on: checks and deliveries end (client timeouts), and a sync.Mutex is
\* handed over to the one that waits for it, so that no other traffic can keep it for ever. The timers need not go off.
Fairness ==
    /\ \A e \in Entries :
          /\ WF_vars(Skip(e) \/ Evaluated(e)) /\ SF_vars(LockEntry(e)) /\ WF_vars(Discard(e) \/ Keep(e))
          /\ WF_vars(Store(e) \/ StoreFails(e)) /\ WF_vars(HandleAlerting(e)) /\ WF_vars(Return(e))
    /\ \A p \in Pushes :
          /\ SF_vars(LockPush(p)) /\ SF_vars(LockAgain(p)) /\ WF_vars(Refuse(p) \/ FallBack(p) \/ Accept(p))
          /\ WF_vars(StorePush(p) \/ StorePushFails(p)) /\ WF_vars(HandlePushAlerting(p))
    /\ WF_vars(RefuseChange \/ StopBegins) /\ WF_vars(StopCancels) /\ WF_vars(StopWaits) /\ SF_vars(StopReturns)
    /\ WF_vars(LeaveStopped \/ \E e \in Entries : StartAgain(e))
    /\ WF_vars(CycleStarted) /\ WF_vars(Close) /\ WF_vars(CloseReturns)

FairSpec == Spec /\ Fairness

-----------------------------------------------------------------------------
(* Properties *)

\* A key is monitored by one live goroutine at most, the one of the registry or, before anything takes its place, the one
\* that StopEndpoint removed and is about to cancel: a restart never leaves the goroutine of the previous object running
\* beside the new one.
OneMonitorPerKey ==
    \A e \in Entries : pc[e] # "unused" /\ e \notin cancelled =>
        \/ entryOf[keyOf[e]] = e
        \/ change.stage = "removed" /\ change.entry = e /\ entryOf[keyOf[e]] = Free

KeyOfActor(a) == IF a \in Entries THEN keyOf[a] ELSE wanted[a]

\* The checks, the heartbeat and the pushes of a key, of whichever object of the endpoint, are never processed at the
\* same time: what HandleAlerting relies on to update the counters.
OneAtATime ==
    \A a, b \in Actors : Processing(a) /\ Processing(b) /\ a # b => KeyOfActor(a) # KeyOfActor(b)

\* Nothing is recorded for an endpoint object, by its goroutine or by a push, once StopEndpoint returned for it, even
\* when waiting for its execution timed out.
NothingAfterStop == [][record'.what # "nothing" => record'.entry \notin stopped]_vars

\* No execution of a cycle records anything once Shutdown returned, although its timer left it behind ("results of in-flight
\* executions will be discarded"), except the ones that were past their look at the context by then, which finish what they
\* record.  An execution that Shutdown waited for is none of these: without the timer the next cycle has the storage for
\* itself.
NoExecutionAfterClose == [][record'.by \in Entries /\ record'.what # "nothing" => record'.entry \notin closedOn]_vars

\* A push that arrives once the goroutine of its endpoint is told to stop is not recorded.
NoLatePush == [][record'.by \in Pushes /\ record'.what = "result" => record'.by \notin late]_vars

\* Between the stop and the start of a change, nothing takes the place of the endpoint and the registry stays open: the
\* start that ends the change, or that puts the previous definition back, cannot be refused.
StartCannotFail ==
    change.stage = "stopped" => phase \in {"running", "pending"} /\ entryOf[change.key] = Free

\* Stopping an endpoint always ends, whatever the pushes that keep coming: neither the goroutine nor the lock of the
\* key keeps it waiting.
StopReturnsAtLast == change.stage = "waiting" ~> change.stage \in {"stopped", "none"}

\* A reload that was asked for takes place, however many changes the administration tries meanwhile.
CycleEndsAtLast == phase = "pending" ~> phase = "closed"

\* The registry has one live monitor per key, and a change that stopped one may start it again.
RegistryOfOne == OneMonitorPerKey /\ StartCannotFail

\* Whoever stops monitoring is not kept waiting, although no timer helps.
StopsEnd == StopReturnsAtLast /\ CycleEndsAtLast

=============================================================================
