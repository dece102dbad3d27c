-------------------------- MODULE ManagedEndpoints --------------------------
(***************************************************************************)
(* The endpoints managed through the administration (internal/             *)
(* managedendpoint): every change stops the endpoint, restores the         *)
(* triggered alerts of the new definition, writes a transaction, starts    *)
(* the new object inside of it, commits, and publishes the new state.      *)
(* What is stored, what is in memory, what is monitored, the history and   *)
(* the status pages have to agree again whatever fails on the way.         *)
(*                                                                         *)
(* statesMutex and the lifecycle lock allow one change at a time; results, *)
(* edits of the status pages and crashes come between any two steps of it. *)
(* Definitions are valid, endpoints are checked (for pushes, see           *)
(* Monitoring), and the storage is SQLite, with its single connection.     *)
(***************************************************************************)
EXTENDS Naturals, FiniteSets

CONSTANTS
    Keys,           \* the keys of endpoints
    ConfigKeys,     \* the sets of keys the configuration file may define
    AlertSets,      \* the alerts a definition may have, by their checksums
    MaxCreated,     \* bound on the endpoints created
    MaxChanges,     \* bound on the changes
    MaxFailures,    \* bound on the failures of the storage
    MaxLoads,       \* bound on the reloads and the restarts
    Config,         \* who writes the history of an endpoint of the configuration file
    None            \* no row, no state, no object

Ids == 1..MaxCreated
Versions == 1..(MaxChanges + 1)

ASSUME ChoicesAssumption == ConfigKeys \subseteq SUBSET Keys /\ None \notin Nat /\ Config \notin Nat
ASSUME BoundsAssumption ==
    MaxCreated \in Nat /\ MaxChanges \in Nat /\ MaxFailures \in Nat /\ MaxLoads \in Nat

VARIABLES
    phase,      \* running; loading: a start, or a reload that stopped everything
    config,     \* the keys that the configuration file in use defines
    row,        \* managed_endpoints, by key
    data,       \* endpoints: who stored results under a key; empty without a row
    triggered,  \* endpoint_alerts_triggered, by key
    page,       \* a managed status page that selects endpoints by key
    state,      \* the states in memory, by key
    pageState,  \* the status page in memory
    pageLocked, \* the mutex of the status pages, held by a rename
    monitored,  \* the object that is monitored for a key
    change,     \* the change in progress
    shows,      \* the endpoints that the last edit of the page selected
    created, changes, loads,
    failures,   \* the commits that failed
    unlisted    \* the loads that could not list the managed endpoints

stored == <<row, data, triggered, page>>
memory == <<state, pageState, pageLocked>>
counters == <<created, changes, loads, failures, unlisted>>
vars == <<phase, config, stored, memory, monitored, change, shows, counters>>

Alerts == UNION AlertSets
Definition == [id : Ids, version : Versions, enabled : BOOLEAN, alerts : AlertSets]
State == [id : Ids, version : Versions, enabled : BOOLEAN, alerts : AlertSets, conflict : BOOLEAN]
Object == [id : Ids \cup {Config}, alerts : AlertSets \cup {{}}, on : SUBSET Alerts]
Page == [selects : SUBSET Keys, version : Versions]
\* No row, no state and no object is none of them.
ASSUME NoneAssumption == None \notin Definition \cup State \cup Object
NoChange == [stage |-> "none"]
Change == [stage : {"restoring", "planning", "writing", "applying", "committing", "failed", "publishing"},
           op : {"create", "update", "delete"}, key : Keys, newKey : Keys, next : Definition,
           expected : 0..MaxChanges + 1, conflict : BOOLEAN, previous : Object \cup {None}, on : SUBSET Alerts,
           started : BOOLEAN]

\* Every row, state, object and stage has its type, and the counters their bounds (the records of service.go and
\* managed_endpoints.go): in particular a version never grows by more than one for a change.
TypeOK ==
    /\ phase \in {"running", "loading"} /\ config \subseteq Keys
    /\ row \in [Keys -> Definition \cup {None}]
    /\ data \in [Keys -> SUBSET (Ids \cup {Config})]
    /\ triggered \in [Keys -> SUBSET Alerts]
    /\ page \in Page /\ pageState \in Page /\ pageLocked \in BOOLEAN
    /\ state \in [Keys -> State \cup {None}]
    /\ monitored \in [Keys -> Object \cup {None}]
    /\ change \in Change \cup {NoChange}
    /\ shows \subseteq Ids
    /\ created \in 0..MaxCreated /\ changes \in 0..MaxChanges /\ loads \in 0..MaxLoads
    /\ failures \in 0..MaxFailures /\ unlisted \in 0..MaxFailures

Init ==
    /\ phase = "loading" /\ config = {}
    /\ row = [k \in Keys |-> None] /\ data = [k \in Keys |-> {}] /\ triggered = data
    /\ page = [selects |-> {}, version |-> 1] /\ pageState = page /\ pageLocked = FALSE
    /\ state = row /\ monitored = row
    /\ change = NoChange /\ shows = {}
    /\ created = 0 /\ changes = 0 /\ loads = 0 /\ failures = 0 /\ unlisted = 0

Idle == change = NoChange
At(stage) == change.stage = stage
Renames == change.newKey # change.key
\* A rename that moves the history also moves the status pages.
Planned == Renames /\ ~change.conflict
\* SQLite has one connection: whoever writes waits for the transaction.
InTransaction == At("applying") \/ At("committing")

-----------------------------------------------------------------------------
(* What a monitored endpoint stores: its results, and its alerts (see Alerting). *)

Stored(k) ==
    /\ monitored[k] # None /\ ~InTransaction
    /\ data' = [data EXCEPT ![k] = @ \cup {monitored[k].id}]
    /\ UNCHANGED <<phase, config, row, page, memory, change, shows, counters>>

StoreResult(k) ==
    /\ Stored(k)
    /\ UNCHANGED <<triggered, monitored>>

Trigger(k, a) ==
    /\ Stored(k)
    /\ a \in monitored[k].alerts \ monitored[k].on
    /\ monitored' = [monitored EXCEPT ![k].on = @ \cup {a}]
    /\ triggered' = [triggered EXCEPT ![k] = @ \cup {a}]

Resolve(k, a) ==
    /\ Stored(k)
    /\ a \in monitored[k].on
    /\ monitored' = [monitored EXCEPT ![k].on = @ \ {a}]
    /\ triggered' = [triggered EXCEPT ![k] = @ \ {a}]

-----------------------------------------------------------------------------
(* The changes.  Any version may be expected: a form may be open for long.  When it is not the current one nothing *)
(* happens. *)

\* TryBeginChange, statesMutex, and the bound on the changes.
MayBegin == phase = "running" /\ Idle /\ changes < MaxChanges

\* The key of a definition is used neither by the configuration file nor by another managed endpoint.
Valid(k) == k \notin config /\ state[k] = None

Begins(c) ==
    /\ MayBegin
    /\ change' = c
    /\ changes' = changes + 1
    /\ UNCHANGED <<phase, config, stored, memory, shows, loads, failures, unlisted>>

\* Mutant: the service and the storage both increment the version.
NextVersionTwice(version) == version + 2

NextVersion(version) == version + 1

Create(k, alerts, enabled) ==
    /\ Valid(k) /\ created < MaxCreated
    /\ created' = created + 1
    /\ Begins([stage |-> "restoring", op |-> "create", key |-> k, newKey |-> k,
               next |-> [id |-> created + 1, version |-> 1, enabled |-> enabled, alerts |-> alerts],
               expected |-> 0, conflict |-> FALSE, previous |-> None, on |-> {}, started |-> FALSE])
    /\ UNCHANGED monitored

\* The version is checked, and the monitoring stopped before the transaction.  The endpoint of the configuration file that
\* is in conflict with a managed one goes on.
Replaces(k, version, newKey, op, stage, next) ==
    /\ state[k] # None /\ state[k].version = version
    /\ Begins([stage |-> stage, op |-> op, key |-> k, newKey |-> newKey, next |-> next, expected |-> version,
               conflict |-> state[k].conflict, previous |-> IF state[k].conflict THEN None ELSE monitored[k],
               on |-> {}, started |-> FALSE])
    /\ monitored' = IF state[k].conflict THEN monitored ELSE [monitored EXCEPT ![k] = None]
    /\ UNCHANGED created

Update(k, version, newKey, alerts, enabled) ==
    /\ state[k] # None
    /\ newKey # k \/ state[k].conflict => Valid(newKey)
    /\ Replaces(k, version, newKey, "update", "restoring",
                [id |-> state[k].id, version |-> NextVersion(version), enabled |-> enabled, alerts |-> alerts])

Delete(k, version) ==
    /\ state[k] # None
    /\ Replaces(k, version, k, "delete", "writing",
                [id |-> state[k].id, version |-> version, enabled |-> state[k].enabled, alerts |-> state[k].alerts])

\* Mutant: the triggered alerts are looked up by the key of the new definition.
RestoredFromNewKey(k) == IF change.conflict THEN {} ELSE triggered[change.newKey] \cap change.next.alerts

\* The triggered alerts are still stored under the old key.  The ones of a key in conflict are not the endpoint's.
RestoredFrom(k) == IF change.conflict THEN {} ELSE triggered[k] \cap change.next.alerts

\* RestorePersistedTriggeredAlerts: the rows of alerts that the new definition does not have are deleted, outside of the
\* transaction.
RestoreAlerts ==
    /\ At("restoring")
    /\ LET restored == RestoredFrom(change.key) IN
        /\ change' = [change EXCEPT !.stage = IF Planned THEN "planning" ELSE "writing", !.on = restored]
        /\ triggered' = IF change.conflict THEN triggered ELSE [triggered EXCEPT ![change.key] = restored]
    /\ UNCHANGED <<phase, config, row, data, page, memory, monitored, shows, counters>>

\* PrepareKeyRename: no status page changes until the rename is committed or discarded.
PlanPages ==
    /\ At("planning") /\ ~pageLocked
    /\ pageLocked' = TRUE
    /\ change' = [change EXCEPT !.stage = "writing"]
    /\ UNCHANGED <<phase, config, stored, state, pageState, monitored, shows, counters>>

PageChanges == Planned /\ change.key \in pageState.selects
\* Mutant: the status pages are not updated.
NotRenamed(selects) == selects
Renamed(selects) == {IF k = change.key THEN change.newKey ELSE k : k \in selects}

\* The conditions of the transaction, on what is stored.
KeyInUse == row[change.newKey] # None \/ data[change.newKey] # {}
MayWrite ==
    IF change.op = "create" THEN row[change.newKey] = None
    ELSE /\ row[change.key] # None /\ row[change.key].version = change.expected
         /\ Renames => ~KeyInUse
         /\ PageChanges => page.version = pageState.version

\* The connection is held from here, unless the write fails.
Write ==
    /\ At("writing")
    /\ change' = [change EXCEPT !.stage = IF ~MayWrite THEN "failed" ELSE IF change.op = "delete" THEN "committing" ELSE "applying"]
    /\ UNCHANGED <<phase, config, stored, memory, monitored, shows, counters>>

\* The new object is monitored before the commit, unless the key already is.
Apply ==
    /\ At("applying")
    /\ LET starts == change.next.enabled /\ monitored[change.newKey] = None IN
        /\ monitored' = IF starts THEN [monitored EXCEPT ![change.newKey] =
                                            [id |-> change.next.id, alerts |-> change.next.alerts, on |-> change.on]]
                        ELSE monitored
        /\ change' = [change EXCEPT !.stage = IF change.next.enabled /\ ~starts THEN "failed" ELSE "committing", !.started = starts]
    /\ UNCHANGED <<phase, config, stored, memory, shows, counters>>

\* What is stored under the old key moves to the new one, with the update x of it.
Moved(f, empty, x) == [f EXCEPT ![change.key] = empty, ![change.newKey] = x]
\* Mutant: the definition is deleted, what it stored is not.
RemovedDefinitionOnly(f) == f
Removed(f) == [f EXCEPT ![change.key] = {}]

\* Definition, history, triggered alerts and status page in one transaction.
Commit ==
    /\ At("committing")
    /\ change' = [change EXCEPT !.stage = "publishing"]
    /\ LET k == change.key
           deletes == change.op = "delete" IN
        /\ row' = IF deletes THEN [row EXCEPT ![k] = None] ELSE Moved(row, None, change.next)
        /\ data' = IF change.conflict THEN data ELSE IF deletes THEN Removed(data) ELSE Moved(data, {}, data[k])
        /\ triggered' = IF change.conflict THEN triggered ELSE IF deletes THEN Removed(triggered) ELSE Moved(triggered, {}, triggered[k])
        /\ page' = IF PageChanges THEN [selects |-> Renamed(pageState.selects), version |-> pageState.version + 1] ELSE page
        /\ shows' = IF deletes \/ change.conflict THEN shows \ {change.next.id} ELSE shows
    /\ UNCHANGED <<phase, config, memory, monitored, counters>>

CommitFails ==
    /\ At("committing") /\ failures + unlisted < MaxFailures
    /\ failures' = failures + 1
    /\ change' = [change EXCEPT !.stage = "failed"]
    /\ UNCHANGED <<phase, config, stored, memory, monitored, shows, created, changes, loads, unlisted>>

\* Mutant: the plan of a rename that failed is not discarded.
StillLocked == pageLocked

\* plan.Commit or plan.Discard.
Unlocked == IF Planned THEN FALSE ELSE pageLocked

\* The new object is stopped, the previous one restarted as it was.
Undo ==
    /\ At("failed")
    /\ LET stopped == IF change.started THEN [monitored EXCEPT ![change.newKey] = None] ELSE monitored IN
        monitored' = IF change.previous # None THEN [stopped EXCEPT ![change.key] = change.previous] ELSE stopped
    /\ pageLocked' = Unlocked
    /\ change' = NoChange
    /\ UNCHANGED <<phase, config, stored, state, pageState, shows, counters>>

StateOf(r, conflict) == [id |-> r.id, version |-> r.version, enabled |-> r.enabled, alerts |-> r.alerts, conflict |-> conflict]
\* Mutant: the state of the old key is kept.
ReplacedStateKeepingOld == [state EXCEPT ![change.newKey] = StateOf(change.next, FALSE)]
ReplacedState == [state EXCEPT ![change.key] = None, ![change.newKey] = StateOf(change.next, FALSE)]

\* plan.Commit, then replaceState or removeState.
Publish ==
    /\ At("publishing")
    /\ pageState' = IF Planned THEN page ELSE pageState
    /\ pageLocked' = Unlocked
    /\ state' = IF change.op = "delete" THEN [state EXCEPT ![change.key] = None] ELSE ReplacedState
    /\ change' = NoChange
    /\ UNCHANGED <<phase, config, stored, monitored, shows, counters>>

\* A status page is changed through the administration, with the mutex of the status pages.
EditPage(selects) ==
    /\ phase = "running" /\ ~pageLocked /\ ~InTransaction /\ changes < MaxChanges /\ selects # page.selects
    /\ changes' = changes + 1
    /\ page' = [selects |-> selects, version |-> page.version + 1] /\ pageState' = page'
    /\ shows' = {row[k].id : k \in {j \in selects : row[j] # None}}
    /\ UNCHANGED <<phase, config, row, data, triggered, state, pageLocked, monitored, change, created, loads, failures, unlisted>>

-----------------------------------------------------------------------------
(* The cycles and the crashes. *)

\* BeginCycle waits for the change in progress; Shutdown stops every endpoint.
BeginCycle ==
    /\ phase = "running" /\ Idle /\ loads < MaxLoads
    /\ phase' = "loading" /\ loads' = loads + 1
    /\ monitored' = [k \in Keys |-> None]
    /\ UNCHANGED <<config, stored, memory, change, shows, created, changes, failures, unlisted>>

\* The transaction in progress is rolled back, the memory is lost.
Crash ==
    /\ phase = "running" /\ loads < MaxLoads
    /\ phase' = "loading" /\ loads' = loads + 1
    /\ state' = [k \in Keys |-> None] /\ monitored' = [k \in Keys |-> None]
    /\ change' = NoChange /\ pageLocked' = FALSE
    /\ UNCHANGED <<config, stored, pageState, shows, created, changes, failures, unlisted>>

\* start, after initializeStorage: the endpoints of the configuration file, and the managed ones that may be.
Started(cfg) ==
    monitored' = [k \in Keys |->
        IF k \in cfg THEN [id |-> Config, alerts |-> {}, on |-> {}]
        ELSE IF state'[k] # None /\ state'[k].enabled THEN [id |-> state'[k].id, alerts |-> state'[k].alerts, on |-> triggered'[k]]
        ELSE None]

\* The history of the keys that are neither in the configuration file nor managed is deleted.
KeptListed(cfg) == [k \in Keys |-> IF k \in cfg \/ row[k] # None THEN data[k] ELSE {}]

\* initializeStorage and start, with the configuration file of now: the clean-up of the history, then the restored
\* triggered alerts.
Load(cfg) ==
    /\ phase = "loading"
    /\ phase' = "running" /\ config' = cfg
    /\ state' = [k \in Keys |-> IF row[k] = None THEN None ELSE StateOf(row[k], k \in cfg)]
    /\ data' = KeptListed(cfg)
    /\ triggered' = [k \in Keys |-> IF k \in cfg \/ row[k] = None THEN {} ELSE triggered[k] \cap row[k].alerts]
    /\ Started(cfg)
    /\ pageState' = page
    /\ UNCHANGED <<row, page, pageLocked, change, shows, counters>>

\* Mutant: the clean-up takes the managed endpoints that could not be listed for removed ones.
KeptOfConfig(cfg) == [k \in Keys |-> IF k \in cfg THEN data[k] ELSE {}]

\* The clean-up is skipped when the managed endpoints cannot be listed.
KeptUnlisted(cfg) == data

\* The managed endpoints cannot be listed: none is monitored until the next load.
LoadFails(cfg) ==
    /\ phase = "loading" /\ failures + unlisted < MaxFailures
    /\ phase' = "running" /\ config' = cfg
    /\ unlisted' = unlisted + 1
    /\ state' = [k \in Keys |-> None]
    /\ data' = KeptUnlisted(cfg)
    /\ triggered' = [k \in Keys |-> IF k \in cfg THEN {} ELSE triggered[k]]
    /\ Started(cfg)
    /\ pageState' = page
    /\ UNCHANGED <<row, page, pageLocked, change, shows, created, changes, loads, failures>>

-----------------------------------------------------------------------------
ChangeStep == RestoreAlerts \/ PlanPages \/ Write \/ Apply \/ Commit \/ Undo \/ Publish

Next ==
    \/ \E k \in Keys : StoreResult(k)
    \/ \E k \in Keys, a \in Alerts : Trigger(k, a) \/ Resolve(k, a)
    \/ \E k \in Keys, alerts \in AlertSets, enabled \in BOOLEAN : Create(k, alerts, enabled)
    \/ \E k \in Keys, version \in Versions, newKey \in Keys, alerts \in AlertSets, enabled \in BOOLEAN :
        Update(k, version, newKey, alerts, enabled)
    \/ \E k \in Keys, version \in Versions : Delete(k, version)
    \/ ChangeStep \/ CommitFails
    \/ \E selects \in SUBSET Keys : EditPage(selects)
    \/ BeginCycle \/ Crash
    \/ \E cfg \in ConfigKeys : Load(cfg) \/ LoadFails(cfg)

Spec == Init /\ [][Next]_vars

\* The goroutine of a request goes on once it began a change.
FairSpec == Spec /\ WF_vars(ChangeStep)

-----------------------------------------------------------------------------
(* Properties *)

Settled == phase = "running" /\ Idle

\* Between two changes, what is in memory is what is stored, and what is monitored is what is in memory: the current
\* definition of every enabled endpoint, and nothing else.  A change writes them one after the other, and may fail or be
\* cut after any of them (service.go update: restartPrevious, replaceState, plan.Commit).
Agreement ==
    Settled =>
        /\ pageState = page
        /\ \A k \in Keys :
            /\ IF unlisted = 0 \/ state[k] # None
               THEN state[k] = IF row[k] = None THEN None ELSE StateOf(row[k], k \in config)
               ELSE TRUE
            /\ IF k \in config THEN monitored[k] # None /\ monitored[k].id = Config
               ELSE IF state[k] # None /\ state[k].enabled
               THEN monitored[k] # None /\ monitored[k].id = state[k].id /\ monitored[k].alerts = state[k].alerts
               ELSE monitored[k] = None

\* While no commit failed, the alerts that are on in the object that is monitored are the ones stored for its key: a
\* restart neither repeats a notification nor forgets to resolve one (alert_state.go, and the triggered alerts that follow
\* a rename).
IncidentsPersisted ==
    Settled /\ failures = 0 => \A k \in Keys : monitored[k] # None => monitored[k].on = triggered[k]

\* The results that an endpoint stored are under its current key after any step: a rename, a reload, a failed load or a
\* crash.  Only a rename of an endpoint in conflict leaves them to the endpoint of the configuration file
\* (RenameManagedEndpoint with MoveHistory, DeleteAllEndpointStatusesNotInKeys with the keys of Load).
HistoryFollows ==
    [][\A k, newKey \in Keys :
        /\ row[k] # None /\ row[k].id \in data[k]
        /\ row'[newKey] # None /\ row'[newKey].id = row[k].id
        /\ newKey # k => ~change.conflict
        => row[k].id \in data'[newKey]]_vars

\* While the storage works, the results under a key that the configuration file does not define are those of the endpoint
\* that has the key: nothing is inherited from an endpoint that was deleted or renamed.
HistoryOfOneEndpoint ==
    Settled /\ failures = 0 /\ unlisted = 0 =>
        \A k \in Keys \ config : \A i \in data[k] \ {Config} : row[k] # None /\ row[k].id = i

\* An endpoint that was selected by key on a managed status page is still selected after renames, failed renames and
\* reloads (PrepareKeyRename and the update of the pages in the transaction of the rename).
PagesFollow == \A k \in Keys : row[k] # None /\ row[k].id \in shows => k \in page.selects

\* The types, the agreement of storage, memory and monitoring, the selections of the pages, and whose results are kept
Consistent == TypeOK /\ Agreement /\ PagesFollow /\ HistoryOfOneEndpoint

\* A change ends, whatever failed before it: the mutexes it takes are released on every path, or the next rename and the
\* next reload wait forever (service.go update: plan.Commit and plan.Discard).
ChangesEnd == ~Idle ~> Idle

=============================================================================
