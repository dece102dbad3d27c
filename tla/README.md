# A verification development of go-uptime

TLA+ models of the parts of go-uptime in which the order of steps matters, the TLC configurations that check them on
small instances, and TLAPS proofs of the properties that hold for every instance. Everything here is translated from the
source; where a comment or a document of the repository says something else, the divergence is stated in section 6 and,
for five of them, is found by a run.

    tlc -config AlertingRestarts.cfg MCAlerting.tla       # any run: its module and its .cfg are in PROJECT.json
    tlapm AlertingProofs.tla                               # or any other module of proofs (section 5)

## 1. The system

go-uptime checks endpoints at intervals, keeps the results, sends alerts, and shows status pages. One Go process holds
everything; the storage is SQLite, PostgreSQL, MySQL or memory.

| Component | State it keeps | Operations | Modelled in |
|---|---|---|---|
| Alerting of an endpoint (`watchdog/alerting.go`, `alert_state.go`) | failure and success counters, `Triggered` flags, time of the last reminder; rows of `endpoint_alerts_triggered` | handle a result, restore the persisted alerts | `Alerting`, `AlertIncidents` |
| Monitoring registry (`watchdog/registry.go`, `endpoint.go`, `external_endpoint.go`, `push.go`) | the entries by key, a context and a goroutine for each, the lock of the results of each key, the semaphore of the cycle | start, stop, execute, watch for a missing push, submit a push, close | `Monitoring` |
| Health checks (`config/endpoint`, `client`) | the dates of expiration of domains; the context of a suite while it is executed | evaluate: preprocess, resolve, call, compare, hide, store | `HealthChecks` |
| Suites (`config/suite`, `watchdog/suite.go`) | a goroutine and an object for each suite of a cycle, which no registry knows | execute in order, match results and endpoints, stop | `Suites`, `HealthChecks` |
| Pushes and heartbeats (`watchdog/push.go`, `external_endpoint.go`) | retries used and time of the last push for a key | convert a failure to a pending result, watch for silence, forget | `Pushes` |
| Push keys and tokens (`pushkey`, `push`, `managedendpoint`) | tokens of the file, of the administration and of the endpoints; a published index | create, renew, restore, delete, resolve | `PushTokens` |
| Lifecycle (`lifecycle`, `cmd/serve.go`, `cmd/reload.go`, `controller`, part of `config`) | a read-write lock, a pending flag, the server, the time of the file | begin a change, begin a cycle, start, stop, reload, end | `Lifecycle`; the cycles also in `Monitoring`, `ManagedEndpoints` |
| Live updates (`liveupdates`, `api/live_updates.go`, the web page) | a sequence for each key, subscribers, channels of one slot, a limiter of streams; in the browser, an EventSource and the last id | publish, subscribe, cancel, forget, close, open, stream, connect again | `LiveUpdates` |
| Managed endpoints (`managedendpoint`, its tables, `statuspage/rename.go`) | rows, states in memory, versions, conflicts with the file | create, update, enable, disable, rename, delete, load | `ManagedEndpoints` |
| Alert providers of the administration (`alertprovider`) | rows and a published snapshot, the endpoints that use a type | change, plan, stop, publish, restart, load | `AlertProviders` |
| Backup (`adminbackup`) | none of its own; the fingerprint that a client keeps | preview, confirm, restore item by item | `AdminRestore` |
| Result storage (`storage/store`) | bounded results and events of each key, uptimes, buckets, a write-through cache; the store in memory | insert, read, rename, delete, merge, clean up | `ResultStore`, `UptimeHistory` |
| Status pages (`statuspage`, `api/status_page*.go`) | a published snapshot with generations and revisions, cached payloads, remembered verifications, counted failures | edit, load, publish, log in, assemble | `StatusPages`; renames in `ManagedEndpoints` |
| Sessions and authentication (`security`, `api/auth.go`) | login sessions in the storage, a limiter of failures for each configuration | log in, log out, admit, refuse, purge | `Access` |
| Alert services (`alerting/provider/*`, `alerting/config.go`, part of `config`) | 42 services with defaults and overrides; keys of the incidents they opened | validate, merge, drop, send | `AlertServices`, `AlertDelivery` |
| Parsing of the rest of the configuration, API handlers without state, metrics, web interface beyond its event source | — | parsing, formatting | not modelled: section 8 |

### How they interact

* The goroutine of an endpoint and the handler of a push lock the results of the key (`lockEndpointResults`), store the
  result, publish it to the live updates, and call `HandleAlerting`, in this order and under that lock.
  `HandleAlerting` calls `Send` of a service and writes the triggered alerts. A suite does the same for its endpoints,
  one after the other, without that lock.
* A change of the administration takes the read side of the lifecycle lock (`TryBeginChange`) and the mutex of its
  service, stops an endpoint in the registry, restores its triggered alerts, writes a transaction, starts the new object
  from inside that transaction, commits, and then publishes what it keeps in memory. A rename also holds the mutex of
  the status pages. A change of an alert provider holds the mutex of the endpoints that use it. A restore makes such
  changes one by one.
* A reload or the end of the process takes the write side (`BeginCycle`): it closes the live updates, stops the server,
  stops every endpoint, deletes the history of the keys that are gone, and starts again.
* A page keeps an event stream open. An event says only that there is something to fetch. A status page is answered from
  a cache whose keys carry the revision of the page and the sequences of its endpoints.

### What is hard

PROJECT.json lists 40 hazards at their lines. The main families:

* *Interleavings*: checks, heartbeats and pushes of one key; a stop against an execution that is late; a publication
  between a fetch and a subscription; an edit of a page during a rename, an assembly or a login; a token that changes
  hands between its look-up and its use; a server that registers in a goroutine of its own.
* *Order and atomicity*: an alert is sent, then persisted, then perhaps never, when the process ends; recipients are
  told one after the other; the alerts of a definition are restored before the transaction that may refuse it; the id
  of a stream is sent before the event; the limiter is asked before a password is checked and told after it.
* *Failure*: of a send, an answer, a write, a commit, a list of the managed endpoints; a crash between any two of them.
* *Stale state*: the time of the last push taken at the start of a heartbeat, a cached page of results, a plan that was
  previewed, a verification that was remembered, the time of the file, the date of a domain, a client made before an
  override.
* *Limits*: the one slot of a channel, the streams of an address, the semaphore, the maximum of results and events, the
  window of a limiter, the hours that are merged into days.
* *Deadlock and liveness*: lifecycle lock, service mutexes, lock of the results and the only connection of SQLite are
  held across calls of each other.

### What makes each component correct

* Alerting: the persisted alerts are the triggered ones, an incident opens and closes after the counts that were asked
  for, nobody is told of the end of a problem they never heard of, reminders are neither early nor forgotten, an outage
  alerts at last and a recovery closes at last.
* Monitoring: one live goroutine for a key, one result of a key at a time, silence after a stop, starts that cannot fail
  after a stop, stops and reloads that end.
* Health checks: a success is what the target's answer says, hidden things stay hidden, nothing learned earlier decides
  too long.
* Suites: bounded slots, results that tell what was executed, alerts that follow the endpoint they belong to.
* Pushes: silence and nothing else is reported, failures are hidden as often as the retries say; a token has one owner.
* Lifecycle: cycles are exclusive, the next server can listen, a modified file is followed, a signal ends the process.
* Live updates: a page on a quiet stream has fetched all that was published; no subscription or slot leaks; no send on
  a closed channel; streams end when the server stops.
* Managed endpoints and providers: storage, memory and monitoring agree between changes; history follows the key and is
  never inherited; incidents survive; an endpoint only sends through the provider it was validated with.
* Restore: it replaces what was previewed and nothing else, and what was planned succeeds.
* Storage: the caches are the rows, aggregates count nothing wrong, both kinds of store agree.
* Status pages and sessions: whoever is let in is entitled to it and sees what he was let in for; nobody is refused for
  the failures of others; sessions last and end as they should.
* Services: an alert that is accepted can be sent, with what is configured for it; everyone is told; a resolution closes
  what it opened.

## 2. The modules

| Module | Extends | Purpose |
|---|---|---|
| `AlertIncidents` | — | abstract: what the alerting of an endpoint promises |
| `Alerting` | instances `AlertIncidents` | the handler of results, restarts, restoration |
| `Suites` | — | executions of a suite over two cycles |
| `Monitoring` | — | registry, goroutines, pushes, changes, cycles |
| `HealthChecks` | — | one check, its conditions, the context of a suite |
| `Pushes` | — | retries, pending results, heartbeat |
| `PushTokens` | — | whose push a token gives |
| `ManagedEndpoints` | — | changes of managed endpoints, loads, status page |
| `AlertProviders` | — | changes of a provider and of the endpoints that use it |
| `Lifecycle` | — | start, reload, end of the application |
| `ResultStore` | `UptimeHistory` | transactions, cache, events, aggregates, the store in memory |
| `UptimeHistory` | — | the hours of an endpoint, merged and forgotten |
| `AdminRestore` | — | preview and restore of a backup |
| `StatusPages` | — | login, cache and publication of a status page |
| `LiveUpdates` | — | publication, streams, pages |
| `AlertServices` | — | configuration of the services and of what an alert is sent with |
| `AlertDelivery` | `AlertServices` | the requests of a send, the incidents of a service |
| `Access` | — | logins, sessions, credentials, limiter |
| `AlertingProofs`, `SuitesProofs`, `LiveUpdatesProofs` | the module they are named after | theorems |
| `MonitoringProofs` | `Monitoring`, `HealthChecks` | theorems |
| `ResultStoreProofs` | `ResultStore`, `StatusPages`, `AdminRestore` | theorems |
| `PushesProofs`, `AdministrationProofs`, `BordersProofs` | `MCPushes`, `MCManagedEndpoints`, `MCAlertServices` | theorems |
| `MCAlerting` | `Alerting`, `Suites` | finite values for the constants |
| `MCMonitoring` | `Monitoring`, `HealthChecks` | 〃 |
| `MCPushes` | `Pushes`, `PushTokens` | 〃 |
| `MCManagedEndpoints` | `ManagedEndpoints`, `AlertProviders`, `Lifecycle` | 〃 |
| `MCResultStore` | `ResultStore`, `AdminRestore`, `StatusPages` | 〃 |
| `MCLiveUpdates` | `LiveUpdates` | 〃 |
| `MCAlertServices` | `AlertDelivery`, `Access` | 〃 |

An MC module with several components has a variable `part`: a behaviour is one of one component, while the state of the
others stays as it was at first ("quiet"). The components of an MC module use nothing of each other, so that the
product of their behaviours would show nothing more.

The modules meet at narrow places, where one keeps as an atomic step or a free choice what another one details. A step
`HandleAlerting` of `Monitoring` is a whole handler run of `Alerting`, which may rely on `OneAtATime`, and a `Stop` of
`Alerting` outside of an idle handler is a crash, as `NothingAfterStop` shows that an orderly stop waits for the
handler. A send of `Alerting`, which works or not, is a run of `AlertDelivery`: `EveryoneTold` is what lets it work as
one step, and `SentAsConfigured` why the configuration is not in it. The outcome of an execution of `Monitoring` is a
run of `HealthChecks`. `Trigger` and `Resolve` of `ManagedEndpoints` are the incidents that `TriggeredArePersisted`
lets it treat as one step. The stop of an endpoint is a single step in `ManagedEndpoints` and `AlertProviders`, which
`RegistryOfOne` and `StopsEnd` justify. `Store` and `Publish` of `LiveUpdates` are the publication inside of `Store`
of `Monitoring`, and `Forget` in it is the end of a deletion or of a rename of `ManagedEndpoints`. An item of
`AdminRestore` is a whole change of `ManagedEndpoints`, `AlertProviders`, `PushTokens` or of a page. The cycle of
these modules is one step where `Lifecycle` shows that it is alone (`CyclesAreExclusive`).

A definition whose comment begins with *Variant* or *Mutant* is a plausible mistake. No specification uses it: it is
what a property is tested against (section 7).

### 2.1 Alerting

State: `successes` and `failures` are `NumberOfSuccessesInARow` and `NumberOfFailuresInARow`; `triggered` the flags;
`rows` the persisted number of successes for a checksum; `sinceReminder` the age of `LastReminderSent`, counted in
check intervals. `stage`, `at` and `reference` are the program counter, the alert of the loop and the captured
`lastReminderSent` of `handleAlertsToTrigger` and `handleAlertsToResolve`. `lastResult`, `failStreak`, `okStreak`,
`notified`, `quiet` and `event` are not in the program: they are what somebody sees who looks at the results and at the
notifications only, and nothing but the properties read them.

Actions: a result arrives (`ReceiveFailure`, `ReceiveSuccess`, or `ReceiveUnhandled` under maintenance); the loop
skips an alert, fails to send it, sends it (memory changes), persists it (storage changes); or, for a success, counts
and persists, clears, notifies. `Stop` may come between any two of them and loses the memory. `Start` is
`RestorePersistedTriggeredAlerts`: it deletes the rows of the alerts that are gone, sets the flags from the rows, and
takes the counters of the last alert restored, exactly as the loop of the code leaves them. Any deletion or read of a
row may fail within `MaxStoreErrors`.

Time passes between results only, so that an interval of reminders is a number of checks. The counters saturate at
`CounterCap`, which is above every threshold and interval in use; above them the code compares with `<=` only.

`AlertIncidents` states the promise in one variable that matters, the set of ongoing incidents. The refinement maps it
to the flags while the object exists and to the rows while it does not, which makes the window between a send and the
write of the row visible: it is the one `Lose` of the abstract specification.

### 2.2 Suites

State: for each cycle its own object of the suite (`results`, `success`, `flags`, `suiteError`), the context that is
cancelled (`cancelled`), and the goroutine (`suitePc`, `position`); `restored` says that the storage is initialized
for the next cycle. `used` is what is taken of each semaphore: `semaphore` is the cycle whose semaphore a goroutine
waits for or has a slot of, `releases` the one its deferred `Release` is called on, `others` the slots that endpoints
hold. The goroutine reads `monitoringSemaphore` for `Acquire` (`suite.go:37`) and again for the `Release`
(`suite.go:42`), between which `Monitor` may replace it: the slot is then given to a semaphore that it was not taken
from (`stray`, which no code keeps), and a `Release` of a semaphore of which nothing is taken panics (`Panic`).
`muted` are results under maintenance, `unsent` the alerts whose notification failed or has no provider.

Actions: the goroutine waits for its ticker, takes a slot, gives up without connectivity, executes the endpoints in
order (one that is not always-run is skipped after a failure; the `break` of the timeout only leaves the `select`, so
the execution goes on with an error), stores, handles the alerts by position (an alert is triggered unless its
notification is not sent), and gives a slot back; cycles begin and end without waiting for it. Which alerts are found
persisted at the start of a cycle is a free choice (`RestoredRows`), as the writes of their rows are the subject of
`Alerting`. What the endpoints of a suite share is in `HealthChecks`.

### 2.3 Monitoring

State: `entryOf` is the map of the registry; each start of an endpoint is a new number in `Entries`, with `keyOf` and
`cycleOf`. `cancelled` holds the entries whose context is done. `pc` is the place of each goroutine and each push;
`holder` the owner of the lock of a key's results. `phase` and `cycle` are the lifecycle: `pending` is the time in
which `BeginCycle` waits for the changes in progress while new ones are refused. `change` is the change of the
administration: chosen, removed from the registry, waiting for the execution, waiting for the lock, stopped. `record`
is what the last step wrote, `stopped` the objects that `StopEndpoint` returned for, `late` the pushes that arrived
after the stop. `closedOn` are the entries for which `Shutdown` returned, whether it waited for them or its timer
fired, but for those that were past their look at the context by then (`PastItsLook`).

Actions: one for each blocking call or look at shared state of the goroutine (semaphore, evaluation, lock, look at the
context, store, alert, unlock), of a push (look-up under the registry's mutex, lock, look at the context, store, alert,
and the fallback of `pushHandler` to the object of the configuration file), of a change and of a cycle. The heartbeat of
an external endpoint is the same goroutine, except that it looks at its context *before* it waits for the lock, as the
code does.

### 2.4 HealthChecks

A *subject* is an endpoint, or the endpoints of a suite, with what its target may answer. A check goes through the
stages of `EvaluateHealthWithContext`: the placeholders of the context are filled in (`StartCheck`), the address is
parsed, the IP address resolved, the date of the domain looked up in a cache, the target called (one action for each
kind of call, with every way in which it can answer, fail, or break off), the conditions evaluated on the texts, the
result stripped of what the user interface hides, and the values stored in the context (`StoreValue`). `answer` is
what the target really said, whether or not the check looked at it; its `hostname` says that the address could be
parsed. An error is what can be read in it: the hostname, the port, and the URL, either as it is configured or in
another form. `net/http` and `url.Parse` print a URL encoded again, without its password, or the one of a redirection,
which the replacement of the configured text does not find.

A call sets some fields of the result (`With`) and leaves the others. A text is a string; what `strconv`, the patterns
and the options make of a text is given by tables (`NumberOf`, `MatchesOf`, …) of the texts in use. The conditions are
evaluated as the code does: an `INVALID` path counts as 0 in a comparison of numbers, a missing body is empty, stored
texts are converted (`007` is 7, `T` is true). The body is only read if a condition or the store names it, the IP
address only if a condition does, and both only as they are written in upper case: `IsAsLookedFor` is the endpoint of
which every placeholder is seen, and the properties say nothing of another. The port of a DNS query or of a ping is
not parsed (`endpoint.go:327`), hence not hidden.

### 2.5 Pushes and PushTokens

`Pushes` is one external endpoint, of the file, of the administration, or of both (in conflict). `lastPushes` is the
time that the map of that name has for the key, and `age` says how old the times are: the heartbeat keeps the one it
took at its start (`beat`), which need not be the one in the map any more. `used` are the retries of `retriesUsed`. A
push and the heartbeat take the lock of the key (`holder`); the insertion may fail; the endpoint is edited, deleted,
renamed away, put in conflict and reloaded between any two of their steps. Whoever stops a heartbeat waits for a
limited time (`TimesOut`): one that waits for the lock then goes on as the actor `leftover`, of which there is one at
a time (a bound), and a request that the server gave up waiting for likewise (`Load`). A tick without a connection is
dropped (`NoConnectivity`). The heartbeat is assumed to have begun before the timer of whoever stops it fires.
Maintenance starts and ends at any time. `silence` and what else only the properties read count the time without an
accepted push independently.

`PushTokens` has the configuration file (`file`), the rows of the storage (`keyRows`, `rows`) and what is published of
them: the keys (`keys`, `hashes`), the index of the managed endpoints (`states`), and the resolver of the file
(`resolver`). A push reads them without a lock. The creation, restoration and deletion of a key and the saving and
removal of an endpoint check, write and publish in steps of their own (`keyChange`, `endpointChange`), under the mutex
that the code holds (`keyMutex`, `statesMutex`); a write may fail; a crash or a reload comes at any step; a load may
be unable to list the endpoints (`unlisted`), which hides them from the checks.

### 2.6 ManagedEndpoints and AlertProviders

`ManagedEndpoints`: `row`, `data`, `triggered` and `page` are the storage: definitions, who wrote the history of a
key, persisted alerts, and one managed status page that selects keys. `state`, `pageState` and `pageLocked` are the
memory of the two services; `monitored` is the registry, with the alerts that are on in the object. `change` is the
request in progress, `shows` the endpoints that the last edit of the page meant. `Create`, `Update` (which also
enables, disables and renames) and `Delete` check their version and stop the monitoring, then `RestoreAlerts`,
`PlanPages` (`PrepareKeyRename`), `Write` (the conditions of the transaction), `Apply` (the start of the new object),
`Commit` or `CommitFails`, then `Publish` or `Undo` (`restartPrevious`). Results, alerts, edits of the page, reloads
and crashes come in between, except for the writes that wait for the only connection of SQLite. `Load` is
`initializeStorage` and the start, with a configuration file that may have taken or left a key, which puts the managed
endpoint of that key in conflict or out of it. `LoadFails` is the load that cannot list the managed endpoints. A form
may expect any version.

`AlertProviders`: one alert type. `provider` is the row, `entry` what is in memory of it, `file` the declaration of
the file, `alerting` what the watchdog is handed: the file first (`Effective`). `prepared[e]` is what endpoint `e` was
validated with, `watched[e]` what it is monitored with, `incident[e]` the row of its triggered alert, whose checksum
covers the default alert of the provider. A change is planned against the endpoints that use the type, stored, and
applied: each endpoint is stopped, the provider published, each endpoint given its alerts (`Migrate`) and started.
Loads, crashes, failed writes, lists that fail, results and other changes of the endpoints come in between.

### 2.7 Lifecycle

Three goroutines begin cycles: the start, the watcher of the file and the handler of the signal. `lock` and `sharing`
are the write side and the changes on the read side of `lifecycle.mu`; `starts`, `serving`, `server`, `taken`, `shut`
and `left` are the starts and their servers: `Handle` registers the server from a goroutine of its own, so a
`Shutdown` may see none (`controller.go:57`), or give up after its timeout; `onDisk`, `read` and `inUse` are the file,
what is being loaded, and the configuration in use with the time recorded for it (whole seconds, `config.go:294`). A
modified file may be valid, refused (the old configuration goes on), or refused by a strict configuration (the process
ends).

### 2.8 ResultStore and UptimeHistory

State: `data` are the committed rows of each key and `suite` those of the suite, `open` the transactions and what they
wrote, `cache` the cached first pages, `memory` the store in memory, which is given the same. `pc` is the place of
each client: a writer for each key, a suite, a reader, and a remover that renames or deletes. A result is inserted
statement by statement (result, event, trims, uptime), the cache refreshed from the open transaction *before* its
commit (`sql.go:415`), then committed; the bucket of response times is a transaction of its own. With SQLite, whose
transactions survive a failed statement, one of the statements of an insertion whose failure is only logged may fail
(`Unchecked`): the count of the events, the insertion of a START or of an event, the removals of old events and
results, the update of the uptime, the merge of its hours, the insertion of its days, the clean up. The transaction of
a bucket and the commit may fail as well; that the result itself cannot be inserted is not modelled, as the
transaction is then rolled back and nothing has changed, neither the rows nor the cache. Connections bound the open
transactions: with one (SQLite), a reader waits.

`UptimeHistory` is pure: entries by hour, merged into days beyond a number of entries and removed when they are old,
in both stores, as functions on the map of entries. A query of the store in memory truncates the start of its period
to the hour and counts one hour more than that of SQL (`LastHoursInMemory`).

### 2.9 AdminRestore

`installed` is what is registered (push keys, provider, endpoints, page) with versions, `configuration` what the file
defines. `Preview` computes `PlanOf` for a backup; `Confirm` plans again and compares the fingerprints; then one action
applies each item, with what its service accepts, refuses or fails at. Others create, update and delete items, a reload
may begin, a write may fail, and the process may crash and restart (`RestartAll`) in between.

### 2.10 StatusPages

`stored` and `snapshot` are the row and what is published of it, with `revisions` and `generations`; `payloads` the
cache, `flying` the assembly that concurrent requests share (single flight), `verified` the remembered logins, `tally`
the counted failures. A request captures the published page once, is let in (by memory, or by a check of its password
whose slot is bounded), looks for a payload, assembles one or waits for one, and answers. Administrators change the
page, loads replace it, results and replaced endpoints move the sequences, time expires memories.

### 2.11 LiveUpdates

State: `sequence`, `sequences` and `subscribers` are the variables of the package; `stream` has, for each request, the
place of the handler, the `Last-Event-ID` it came with (`seen`), the sequence `Subscribe` returned (`current`), the
slot of its channel (`notified`), whether the channel is open, and what is on the wire. `total` and `perIP` are the
limiter. `page` is the EventSource: `header` is the id the browser remembers, `parameter` the one the page put in the
address, `lastEventId` the one the listener kept, `refresh` a scheduled fetch, `shown` the result fetched last.

Actions: a result is stored, then published; a key is forgotten or created; `Close`, `Shutdown`, `Start`, `Crash`; the
handler checks the key, subscribes, takes a slot or answers 429, greets, catches up, waits, writes, and leaves through
its deferred functions; the browser connects, receives, loses the connection, reconnects by itself after an end and
through the page after an error, hides and shows the tab. Two handlers of one page can be alive at the same time: the
one whose client left, and the new one. The fetch of a page (`Refresh`) is taken to succeed.

### 2.12 AlertServices and AlertDelivery

`AlertServices` is a table of the 42 services (`Service`): which fields they ask for, in which form, what their
validation sets, how overrides of groups and alerts are merged and checked, and how `Send` talks to them. The actions
are those of a load (`ValidateAlertingConfig` and what follows in `config.go`): the alerts are merged with the default
alert of their provider, the provider validated or dropped, the overrides validated or warned of, the endpoints given
their defaults; then an alert is sent with what `GetConfig` gives. The order of the first two is that of the code and
is seen by a property. The services that open issues in a repository have a client, with its host, token and settings,
which `Validate` makes and then keeps for a configuration with the same owner and name (`KeepsClient`;
`declared.repeats` is whether the override repeats them); whoever makes one asks the service, which may not answer
(`MayAnswer`), in a load as at each `Send`.

`AlertDelivery` is a send as the requests it consists of, in ten styles: one message, one message for each recipient
in turn, incidents that are opened and closed by a key the program chose (`deduplication`), by a key the service
answered, by an alias, a fingerprint, issues and tasks that are found in a list. The list is complete in the model,
while the code reads its first page, and the name of a task contains those of the endpoint and of its group, as in the
default template. Each request may be refused, lose its answer, or have one that is unreadable; the program may
restart between any two. `memory` holds the flags and keys of the alerts, `rows` what is persisted. The services
themselves (`incidents`) are external.

### 2.13 Access

A request belongs to the configuration it came in with (`Arrive`) and reads the clock once. `ReadSession` and
`Discard` are `sessionUsername`, `CheckLimit`, `Accept` and `Deny` the check of a password between the two looks at
the limiter, `Purge` and `CreateSession` the rest of a login, `Logout` the deletion. The storage may fail at each of
its calls. `Reload` makes another configuration, with a limiter of its own, while requests in progress go on with
theirs; `RestartProcess` ends them. A memory storage loses the sessions at either. `grants`, `loggedOut`, `lost` and
`failed` are not in the program: they record what the properties compare with.

## 3. The runs

| Run | Question | States | Time |
|---|---|---|---|
| `AlertingRestarts` | Do memory, storage and receivers agree across restarts at any step, do alerts open, close and remind when they should, and does the health win at last? Do the alerts of a suite follow its endpoints? | 750 thousand | 1 min |
| `AlertingStarvedReminder` | *violation*: is every reminder that is due sent? | |
| `MonitoringCycles` | Is one result processed at a time, is a stopped object silent, do stops end? Is a success what the target answered, and is hidden what should be? | 293 thousand | 2 min |
| `HealthChecksEmptySuccess` | *violation*: has a success no error? | |
| `Pushes` | Does a heartbeat see silence, are failures hidden as often as asked for, has a token one owner? | 430 thousand | 2 min |
| `PushesForgottenHeartbeat` | *violation*: is only silence reported? | |
| `SuitesMisplacedAlert` | *violation*: is an alert triggered by its own endpoint? | |
| `ManagedEndpointsChanges` | Do storage, memory, monitoring, history, pages and providers agree after changes, failures, crashes and reloads? Does the lifecycle end what it begins? | 235 thousand | 2 min |
| `ManagedEndpointsRefusedRename` | *violation*: does a refused change change nothing? | |
| `ResultStore` | Are caches and aggregates exact, is a restore what was previewed, is a status page shown to those and only those who may see it? | 1.3 million | 2 min |
| `LiveUpdatesStreams` | Does a page know everything, does anything leak, do streams end? | 440 thousand | 3 min |
| `AlertDelivery` | Is an accepted alert sent, everyone told, and everything closed? Is who is let in entitled to it? | 1.9 million | 1 min |

A violation run ends within seconds. The time is that of two processors.

### The properties

`AlertingRestarts`

* `TriggeredArePersisted`: between two results the rows are the triggered alerts, while no write failed.
* `ThresholdsHonoured`: alerts open and close after streaks that are counted independently of the program's counters
  (`InitialAtFailureThreshold`, `ClosedAtSuccessThreshold`).
* `RemindersOnTime`: never early (`RemindersSpaced`), never forgotten (`NoReminderOverdue`) while the object lives and
  the provider works. The intervals are equal: with different ones see section 6.
* `ResolvedOnlyIfNotified`: a resolved notification follows a problem notification, through any restart.
* `AlertsFollowHealth`: an endpoint that only fails ends up with its alerts triggered, one that only succeeds with none.
* `ImplementsIncidents`: refinement of `AlertIncidents`.
* `SuitesConsistent`: a semaphore has no more holders than its weight and the slots it was wrongly given
  (`SlotsBounded`), which are one at most for each goroutine of a former cycle (`StrayBounded`), and the one in use
  loses no slot (`SlotsKept`); a stored result tells what was executed (`ResultsTell`), and alerts follow the results
  of their endpoints, unless a notification was not sent, as long as none was skipped (`AlertedUntilSkipped`; after
  that, `SuitesMisplacedAlert` is what happens).

`MonitoringCycles`

* `OneAtATime`: the lock of the results of a key. `RegistryOfOne`: one entry of a key is not cancelled, and the start at
  the end of a change cannot be refused, inside of a transaction.
* `NothingAfterStop`: nothing is recorded for an object that `StopEndpoint` returned for, even when its wait timed
  out. `NoExecutionAfterClose`: nor by an execution once `Shutdown` returned, even when its timer fired, unless the
  execution was past its look at the context by then. `StopsEnd`: liveness of both, without a timer.
* `ResultsAreTrue`: a health is that of the answer (`HealthIsEarned`: an endpoint whose target did not answer, or not
  what the conditions say, is not healthy by what a placeholder happens to contain), and nothing learned before is
  used too long (`NothingStale`: dates of domains, the context of another execution, values that were not stored).
  `HiddenStaysHidden`: errors do not spell what is hidden, in whatever order it is replaced, except what the
  replacement does not find (`NotFoundIn`, section 6).

`Pushes`

* `HeartbeatSeesSilence`: a failure is recorded only when no push was accepted for an interval (`MissesAreReal`),
  silence is noticed at the next check that has a connection (`SilenceIsMissed`), and again and again while there is
  one now and then (`SilenceIsReported`, liveness).
* `RetriesHonoured`: as many failures in a row are pending as there are retries, and the next one alerts.
* `TokensHaveOneOwner`: a token resolves to its owner or to nobody (`TokensResolve`), and no change gives a token of
  one to another (`KeysAndEndpointsApart`). `Consistent`: types, and nothing is kept of a key that is not defined any
  more (`NothingLeftBehind`), unless a heartbeat or a request that nobody waits for any more processed a result since
  (`stray`).

`ManagedEndpointsChanges`

* `AllConsistent`: storage, memory, registry and pages agree between two changes of endpoints and of providers; cycles
  are exclusive and the next server can listen (`CyclesAreExclusive`, `CanListen`).
* `HistoryFollows`: the history of an endpoint is under its key after any step.
* `IncidentsKept`: an open incident survives changes of its endpoint and its provider.
* `ServedByItsProvider`: a monitored endpoint sends through the provider in use, or a change in progress will stop it.
* `ChangesAndReloadsEnd`: a failed change leaves no mutex locked; a modified file is used, refused or fatal at last; a
  signal ends the process, whatever is in progress.

`ResultStore`

* `CacheIsCurrent`: a cached page is the page the rows would give. `StoresAgree`: SQL and memory show the same.
  `EventsTell`: events alternate and the last is the health now, whichever statement fails: only a failed count of the
  events adds a later START, and only a failed insertion leaves the last one behind. `AggregatesExact`: the uptime of
  a day is exact unless its update failed, that of longer periods within the precision of a merged day, in the store
  in memory that of each period with the hour it begins in; the buckets count each result once. `Consistent`: types,
  bounds of the tables with the rows that failed removals leave, link of suites.
* `RestoresAsPlanned`: nothing is replaced but what was previewed (`RestoresAsPreviewed`), and what was planned to
  succeed succeeds when nobody interferes (`PlanPredicts`).
* `AnswersFit`: who is let in gets the page that he was let in for, with every result published before (`PayloadsFit`);
  a client is refused for failures of its own within the window only (`RefusedForFailures`).

`LiveUpdatesStreams`

* `NothingMissed`: the sentence "sends at once an event when the client missed one, then an event per new result", as
  an invariant of the page, as long as its fetches succeed and no connection is cut in its greeting. `Consistent`: no
  send on a closed channel (`SubscriptionsAreLive`), no slot lost or given back twice (`SlotsMatchStreams`).
  `PagesGetOn`: pages catch up and streams drain, at last.

`AlertDelivery`

* `SentAsConfigured`: the value that is sent is the most specific one configured, except for the client of a
  repository, whose host, token and settings are those of the default together unless the override names another owner
  or name (`MostSpecificWins`), and an alert that a load accepted without a warning can be sent, unless its service
  has to be asked (`AcceptedIsSendable`).
* `EveryoneTold`: an alert only counts as triggered when every recipient was told or the service has its incident.
  `ResolvedIsClosed`: a resolution closes the incidents of its alert and no others, as long as the open ones fit in
  the page that the code reads. `EachConsistent`: the persisted alerts are the triggered ones, after any failure at
  any request.
* `AccessIsEarned`: whoever is let in has the credential or a session of it that lasts (`AdmittedByCredential`); a
  session stays until its logout, its end or another credential (`SessionsLast`); a client is limited for its own
  failures only, a window holds a bounded number of guesses, and failures are remembered (`LimitedForOwnFailures`,
  `GuessesAreLimited`, `FailuresAreRemembered`).

### Bounds, and why they are enough

* `Alerting`: two alerts are what the loop needs for one to disturb another (shared counters after a restoration,
  shared time of the reminder, a row written in between). Thresholds of 2 and 2 for failures, 1 and 2 for successes:
  one alert is below its threshold while the other is not, and a streak can be interrupted. Intervals of 2 are both
  passed and interrupted. Two restarts let a restored object be restored again; one failed write or read and one
  failed send meet every step. `CounterCap` is one above the largest threshold.
* `Suites`: three endpoints (a failure, a skipped one, an always-run one), two cycles, one slot, one execution after a
  tick, one of a timeout, a maintenance window and a notification that fails: the next cycle overlaps the execution of
  the one before, and the slot it gives back. No alert or two are found persisted.
* `Monitoring`: two keys, the second one a heartbeat that falls back to the object of the file; two starts, one push,
  two cycles and one unit of the semaphore: the object that was stopped and the one that follows it, an execution that
  waits for another one.
* `HealthChecks`: each type of endpoint once, with conditions of every operator and function; an HTTP endpoint with
  every combination of hidden things and a DNS query that hides them; a body in lower case, an address that is only
  stored; a domain of four executions within 13 days, during which it may be renewed once; a suite of three endpoints
  executed twice, whose login stores values that are numbers, truth values or break an address. Durations and codes
  are two of each, on both sides of a condition.
* `Pushes`: one request beside the heartbeat, an interval of two units of time, so that a push is early, late or in
  time; one retry (none in the violation run). `PushTokens`: two endpoints, two keys, two chosen tokens and one
  generated: enough for a token that moves from any kind of owner to any other. One heartbeat is left behind at a time.
* `ManagedEndpoints`: two keys, two endpoints created, three changes, one failure, two loads: a rename that follows a
  deletion, a conflict that appears and goes. One set of alerts in the passing run, because with two the divergence of
  section 6 is reachable; the violation run has two. `AlertProviders`: two endpoints, four definitions (one disables
  the alert, one is not valid for the second endpoint), a file that declares nothing, something valid or something
  invalid, five changes, one failure, two loads. `Lifecycle`: three starts, two writes within two seconds, one change
  of the administration, one signal: a cycle that waits for another one and for a change, a file written while it is
  read.
* `ResultStore`: two endpoints, one with a key that is a prefix of the other's, and one of a suite; two results and
  two events are kept and a page has two, so that they are trimmed by the third. One connection, as for SQLite. Five
  workloads instead of one large one: `Traffic` (all clients in an hour), `Flapping` (events, and the failures of
  their statements), `Suite`, `History` (eight hours, scaled down: a day has two, the buffer two, the retention six, a
  merge happens from five entries on), and `FailedHistory` (seven hours, with a failure of the statements of the
  uptime). `AdminRestore`: two push keys, two endpoints, a provider and a page, three backups that conflict with what
  is registered in different ways, two troubles (changes of others, reloads, crashes, failed writes) at any step.
  `StatusPages`: one page, one client, two requests at a time, which are symmetric, in three workloads: `Logins`,
  `Changes`, `Details`.
* `LiveUpdates`: one page. With one stream, two results (a notification that finds the slot full), a crash and a
  removable key; with two streams, one allowed for an address, a cut connection: the old handler beside the new one,
  and the limiter that refuses. `CutsGreeting = FALSE` excludes the cut of section 6, in which `NothingMissed` fails.
* `AlertServices`: for each of the 42 services, valid and incomplete defaults, none or up to two overrides of groups,
  every single override of an alert, and one of all the fields of a client, which repeats the repository or not; one
  field stands for all those that are treated alike. `AlertDelivery`: one service of each style, two alerts, two
  endpoints (the name of one is contained in the other's), two recipients, two troubles, three incidents, three keys:
  an incident that was opened twice and one of another alert.
* `Access`: two requests at a time, two credentials, two clients of which one is tracked (`MaximumKeys = 1`), two
  failures allowed, windows and sessions of two units of time, in five kinds of traffic. Requests, credentials and
  clients are symmetric, and the run has only invariants.

Deadlock is checked in `LiveUpdatesStreams`, `Pushes` and `PushesForgottenHeartbeat`, in which something can always
happen. Elsewhere a behaviour may end: the traffic, the changes, the cycles or the troubles of a part are used up, or
its process has ended. There, `StopsEnd`, `ChangesAndReloadsEnd` and `AlertsFollowHealth` say that nothing is left
half done.

## 4. Fairness

* *Alerting*: the handler goes on and a stopped object is started again; results keep coming and maintenance windows
  end.
* *Monitoring*: weak fairness of each goroutine, request, stop and cycle: checks and deliveries have client timeouts.
  Strong fairness of taking the lock of the results: it is a `sync.Mutex`, which in its starvation mode (1 ms) hands
  over to the waiter, so that pushes that keep coming cannot keep it from a stop. Nothing is assumed about the
  semaphore, nor that a push or a change ever arrives.
* *LiveUpdates*: a stored result is published, a handler runs until it waits, the browser connects, receives and
  fetches. Not assumed: that a hidden tab is shown, that a failed source is opened again by the page, that a reload
  happens, that a stream reaches its maximum duration. `CatchesUp` excludes hidden and failed pages for this reason.
* *ManagedEndpoints*: the goroutine of a request goes on. Every step of it, among them the wait for the status pages, is
  one for which no other step is waited for.
* *Lifecycle*: each goroutine goes on, and a change ends. Strong fairness of announcing a cycle: a `sync.RWMutex`
  serves its writers in turn. The watcher's ticker goes off. Nobody has to write the file or to signal.
* *Pushes*: time passes and the heartbeat's ticker goes off. Strong fairness of taking the lock of the key, as above,
  of the insertion and of a tick with a connection: a storage that fails does not fail for ever, nor is the connection
  lost for ever (without one the code records nothing, however long the silence). Nobody has to push.
* The other modules promise nothing of progress, and their parts have no fairness.

## 5. The proofs

The theorems hold for every value of the constants that satisfies the named assumptions of the modules: any number of
alerts, thresholds, keys, pushes, starts, cycles, endpoints, definitions, requests, credentials, clients, pages,
streams, tokens, backups, results kept, days and troubles; every declared provider, and every subject of a check
within the rules below. An assumption says which values the constants stand for and nothing about what the code
achieves:

* the value that stands for *nothing* is none of the others (`NoneAssumption`, `StorageAssumption`,
  `ActorsAssumption`, a part of most of them), and names of different things differ (`TokensAssumption`: a generated
  token is not a chosen one);
* limits are numbers, and endpoints, requests, streams and incidents are finitely many (`PagesAssumption`,
  `StreamsAssumption`, `VisitsAssumption`, `AccessAssumption`, `DeliveryAssumption`, `BoundsAssumption`, …);
* what is read has the form that the parser gives it: a configuration without a token that two owners share
  (`TokensAssumption`), providers with the fields of their service and without overrides of groups where the service
  has none (`ServicesAssumption`), backups and registered items of their types (`RestoreAssumption`), subjects whose
  endpoints are a sequence and hide what can be hidden (`ChecksAssumption`).

TLC evaluates each of them for the constants of the runs.

| Theorem | Statement | Extra assumption |
|---|---|---|
| `AlertingProofs!TypeSafety` | `Spec => []TypeOK` | |
| `AlertingProofs!PersistenceSafety` | `Spec => []TriggeredArePersisted` | `ChecksumsDiffer` |
| `AlertingProofs!ResolutionSafety` | `Spec => ResolvedOnlyIfNotified` | `ChecksumsDiffer` |
| `AlertingProofs!IncidentRefinement` | `Spec => ImplementsIncidents` | `ChecksumsDiffer` |
| `AlertingProofs!ThresholdSafety` | `Spec => []ThresholdsHonoured` | |
| `AlertingProofs!ReminderSpacing` | `Spec => RemindersSpaced` | `KeepsReminderTime` |
| `SuitesProofs!SuitesAlwaysConsistent` | `SuitesSpec => []SuitesConsistent` | |
| `MonitoringProofs!TypeSafety` | `Spec => []TypeOK` | |
| `MonitoringProofs!ResultsOneAtATime` | `Spec => []OneAtATime` | |
| `MonitoringProofs!StoppedIsSilent` | `Spec => NothingAfterStop` | no heartbeats |
| `MonitoringProofs!RegistrySafety` | `Spec => []RegistryOfOne` | |
| `MonitoringProofs!ClosedIsSilent` | `Spec => NoExecutionAfterClose` | |
| `MonitoringProofs!ResultsStayTrue` | `ChecksSpec => []ResultsAreTrue` | |
| `MonitoringProofs!HiddenIsNeverShown` | `ChecksSpec => []HiddenStaysHidden` | |
| `PushesProofs!RetriesAlwaysHonoured` | `Spec => []RetriesHonoured` | |
| `PushesProofs!HeartbeatIsRight` | `Spec => MissesAreReal /\ SilenceIsMissed` | |
| `PushesProofs!NothingStaysBehind` | `Spec => [](TypeOK /\ NothingLeftBehind)` | |
| `PushesProofs!TokensAlwaysHaveOneOwner` | `TokensSpec => TokensHaveOneOwner` | |
| `PushesProofs!BothStayConsistent` | `MCSpec => []Consistent` | |
| `PushesProofs!BothKeepTheirPromises` | `MCSpec => []RetriesHonoured /\ TokensHaveOneOwner` | |
| `AdministrationProofs!AdministrationConsistent` | `Spec => []Consistent` | |
| `AdministrationProofs!HistoriesFollow` | `Spec => HistoryFollows` | |
| `AdministrationProofs!AlwaysServed` | `ProvidersSpec => []ServedByItsProvider` | |
| `AdministrationProofs!ProvidersStayConsistent` | `ProvidersSpec => []ProvidersConsistent` | |
| `AdministrationProofs!IncidentsSurviveChanges` | `ProvidersSpec => IncidentsSurvive` | |
| `AdministrationProofs!LifecycleStaysConsistent` | `LifecycleSpec => []LifecycleConsistent` | |
| `AdministrationProofs!ChangesLeaveAllConsistent` | `MCSpec => []AllConsistent` | |
| `AdministrationProofs!MonitoredAreServed` | `MCSpec => []ServedByItsProvider` | |
| `AdministrationProofs!ResultsFollowRenames` | `MCSpec => HistoryFollows` | |
| `AdministrationProofs!IncidentsAreKept` | `MCSpec /\ []Kept => IncidentsKept` | `[]Kept` |
| `ResultStoreProofs!EventsAlwaysTell` | `Spec => []EventsTell` | |
| `ResultStoreProofs!StoresAlwaysAgree` | `Spec => []StoresAgree` | `PageSize <= MaxResults`, `PageSize <= MaxEvents` |
| `ResultStoreProofs!CacheAlwaysCurrent` | `Spec => []CacheIsCurrent` | `Connections = 1` |
| `ResultStoreProofs!EndpointsAlwaysBounded` | `Spec => []EndpointsBounded` | |
| `ResultStoreProofs!StoreTypes` | `Spec => []TypeOK` | |
| `ResultStoreProofs!StoreStaysConsistent` | `Spec => []Consistent` | |
| `ResultStoreProofs!VisitorsSeeWhatTheyMay` | `StatusSpec => []AnswersFit` | |
| `ResultStoreProofs!RestoresFollowTheirPlan` | `RestoreSpec => []RestoresAsPlanned` | |
| `LiveUpdatesProofs!ConsistentAlways` | `Spec => []Consistent` | |
| `LiveUpdatesProofs!NothingMissedAlways` | `Spec => []NothingMissed` | `CutsGreeting = FALSE` |
| `BordersProofs!ConfiguredIsSent` | `MCSpec => []SentAsConfigured` | |
| `BordersProofs!EveryoneIsTold` | `MCSpec => []EveryoneTold` | |
| `BordersProofs!ResolvedAreClosed` | `MCSpec => []ResolvedIsClosed` | |
| `BordersProofs!BordersAreConsistent` | `MCSpec => []EachConsistent` | |
| `BordersProofs!AccessSafety` | `AccessSpec => []AdmittedByCredential` | |
| `BordersProofs!SessionsLastSafety` | `AccessSpec => []SessionsLast` | |
| `BordersProofs!SessionsTypes` | `AccessSpec => []SessionsTypeOK` | |
| `BordersProofs!AccessEarned` | `AccessSpec => []AccessIsEarned` | |
| `BordersProofs!LimiterTypes` | `AccessSpec => []LimiterTypeOK` | |

`MCSpec` is the specification that the run of the module checks, with its parts side by side: the invariant of a
composition is the conjunction of those of its parts, as a step of it is a step of one part that leaves the others
alone.

The theorems of `ResultStoreProofs` about the results also assume `NoneIsNoRow`: the `None` of an endpoint that has no
rows is not itself a record of rows. It says what TLC takes a model value to be; it is a hypothesis of the theorems
because TLC could not evaluate it as an `ASSUME`.

**Alerting.** `TypeInv` adds two facts to `TypeOK`: the handler is at an alert when it is about to persist or notify,
and is idle without an object. The delicate case is `Start`: the counters it restores are those of `LastOf(restored)`,
so the proof first shows that a set of alerts that is not empty has a last one (`LastIsMember`, by the least-number
principle). `TriggeredArePersisted` is not inductive: in the middle of the handler one row lags behind, and it says
nothing while there is no object. `IncidentInv` says it at every step and excludes exactly the alert whose row is about
to be written (`TriggeredHaveRows`), and carries over a restart what receivers know (`RowsNotified`): the flags are
lost, the rows are not, and a row implies that the receiver was told. `NotifiesOnce` keeps that fact after the row is
deleted and before the notification is sent. `ResolutionSafety` follows as only `ResolveSent` sends a resolution
(`ResolvedStep`). `IncidentRefinement` maps each step: a send opens (`SendingOpens`), the end of a streak closes, a stop
loses the alert whose row was being written, a start withdraws those that are no longer configured, and the rest
stutters. It needs `HandlesLastResult`: the abstract health is the last result, and the handler works on no other. All
of these need that no two alerts share a row; the code does not guarantee it (section 6).

The thresholds are compared with streaks that an observer counts (`okStreak`, `failStreak`), so what has to be known is
that the program's counters are these streaks (`CountersAreStreaks`): until a restart, the counter of successes is the
streak of successes and that of failures the streak of failures; while a success is handled the counter of failures
still has its old value, for it is reset only after the loop, and the streak of failures is over. `ReminderSpacing`
needs `RemindersKnown`: the time since the last reminder, which one object keeps for all of its alerts, is never more
than the time for which an alert was quiet. It is assumed that the object keeps that time, which the conversion of an
external endpoint does not. The other half of `RemindersOnTime`, that no reminder is overdue, is not true of every
configuration (`AlertingStarvedReminder`), so that it stays with the intervals of the run.

**Suites.** `SuitesInv` has, for each goroutine, what its execution has done so far (`ExecutionInv`): nothing is known
of it before it holds a slot; while it executes, its results are those of endpoints before its position, in their
order and with nothing but always-run endpoints after a failure (`InOrder`, `SkippedAfterFailure`); while it alerts,
the result of the suite is a success exactly if no endpoint failed and the time sufficed, and the alerts so far are
those of the results before it (`AlertsFollow`). `SlotsBounded` needs an account of each semaphore (`SlotsInv`), as a
goroutine may give back to one semaphore what it took from another. Its holders and the slots of endpoints are no more
than what is taken of it and what was wrongly given to it, and exactly that for the one in use: a slot is only taken
of the semaphore in use, since the contexts of former cycles are cancelled before `Monitor` replaces it. Each
goroutine of a former cycle gives one slot at most: those that still will (`Straying`) and what was given (`stray`)
are together fewer than the cycles. That the alert of result *i* is that of endpoint *i* as long as nothing was
skipped is a pigeonhole argument (`AtItsPosition`): *i* results, each of a different one of the first *i* endpoints,
in their order.

**Monitoring.** `ControlInv` says what goroutines, requests and changes know: who has started has a key, an entry of
the registry is the entry of that key, a push's target has the key that was wanted, and `LocksHeld`: whoever processes
a result is the holder of the lock of its key. That is `OneAtATime` in a stronger form, since a lock has one holder.
`StoppedIsQuiet` adds that nobody is past its look at the context for a stopped entry. It is inductive because
`StopReturns` finds the lock free, hence nobody is processing (`LocksHeld`), and because whoever takes the lock later
looks at the context first, and `stopped` is within `cancelled`. The deletion from the registry and the cancellation
are two steps, between which a push or an execution still passes its look; it has the lock then, which the stop waits
for later. It does not depend on the wait for the goroutine: the timer may go off. A heartbeat does not look after the
lock, so the theorem assumes that the administration has none. `RegistryKept` adds to `OneMonitorPerKey` what a change
in progress relies on: it keeps its cycle from ending, and the key it stopped stays out of the registry until it
starts it again, which is why that start cannot be refused. `ClosedDiscards` is what makes `ClosedIsSilent` inductive:
close cancels every goroutine that it then waits for, and one that it left behind, when its timer fired, before its
look at the context finds it cancelled whenever it gets the lock, also in the next cycle. One that was past that look
records its result all the same (section 6).

**Pushes and tokens.** `PushesInv` says what the map of retries means: the retries used are the failures that were
stored as pending since the last one that was not (`UsedIsConverted`), which counts a failure before its insertion
because the lock of the key is held in between; nothing is kept for an undefined key unless somebody whom nobody
waited for any more processed a result since it was undefined (`UndefinedIsForgotten`). Apart from them, whoever got
the lock of such a key looks at its target first, and finds it stopped (`TargetsKnown`). `TimesKept` relates the age
of the time that accepted pushes restart to the silence an observer measures, and the pointer that the heartbeat keeps
to that time, unless the key was forgotten under it (`orphaned`). From it, `HeartbeatIsRight` is a statement about the
single step in which the heartbeat looks. `TokensInv` follows a change of a key or of an endpoint through its steps:
stored rows do not share tokens (`RowsAreUnique`), what is published is what is stored unless a list could not be made
(`RowsArePublished`, `StatesAreRows`, `HashesAreKeys`), and a change under way holds a token that nobody has
(`KeyChangeKnown`, `EndpointChangeKnown`). Two mutexes guard this, and neither excludes the other kind of change. That
they cannot clash rests on the values: a created key has a generated token, which is in no row, an endpoint has a
chosen one, and only a restore, which holds the mutex of the endpoints as well, gives a chosen token to a key.

**Administration.** A change of a managed endpoint goes through stages, and each of its steps may fail. `EndpointsInv`
separates what it is about from everything else. Whatever no change is about agrees at every moment: the state with
the row, the monitored object with the state (`Undisturbed`). Of what it is about, the invariant tells stage by stage
what is stored (`StoredOfIt`: what was there until the commit, what was asked for afterwards) and what is monitored
(`MonitoredOfIt`: nothing, until the new object is), and why the change may go on (`Subject`: its endpoint is as it
was when the version was compared, and the key it moves to is free). `Numbers` says that an identifier is never used
twice, on which the pages rely (`PagesInv`): they show endpoints by identifier, and a rename holds their mutex from
its plan to its publication. `Histories` and `Incidents` hold what `HistoryFollows` and `IncidentsPersisted` need in
the middle of a change: whose results there are under each key, and which of the alerts that the stopped object had
triggered are those stored. `IncidentsAreKept` assumes `[]Kept`: every load could list the managed endpoints, or all
definitions have one set of alerts. Without it the property is false, as `ManagedEndpointsRefusedRename` shows
(section 6); in the passing run the second alternative holds.

`ServedByItsProvider` speaks of a change in progress, so its strengthening `ServedInv` follows the change: while
endpoints remain to be stopped, every endpoint that the new provider is not the provider of is in its list
(`Stopping`); while endpoints remain to be started, what they are started with is what was published (`Starting`); and
the provider in use is the effective one of the file and of what is published (`InUse`). `ProvidersInv` adds what is
stored (`Written`), that the plan of a change has every endpoint that depends on the provider and makes none of them
invalid (`Covered`), and for each endpoint that its object, its state and its triggered alert belong to the provider
it was prepared with, unless it is among those that are stopped just now (`Prepared`). An incident survives a change
since the endpoint is prepared with a definition before and after it.

`LifecycleInv` says where the three goroutines that start, reload and stop may be together (`WhereTheyAre`), that
whoever is in a cycle holds the lock alone (`Exclusive`), and that a server is registered and taken once, so that the
next start finds the earlier server closed (`Servers`); the last part speaks of the behaviours in which no `Shutdown`
gave up waiting.

**Result store.** `StoreInv` has one part for each promise. `Inserting`: an open transaction would commit the
committed rows with the new result, its event and what is removed, but for what failed of it (`Insertion`), and `lost`
remembers what failed; nobody else changes the rows of the key before the commit, because a removal waits for the
monitoring to end. `HealthKnown`: the last event that is not START is the health of the last result that is not
pending. It needs that the events alternate (`Alternates`): the clean up keeps the latest events, and the last one is
one of them. When a count of the events failed, a START may come anywhere, so that a failed count and failed
insertions after it can push the last health event out (`Tells`). The limits (`EndpointRow`) leave room for the rows
that each failed removal leaves, and for the two events that a failed count adds. `MemoryFollows`: while both stores
were given the same, memory holds the latest `MaxResults` results and `MaxEvents` events of the SQL store, which has
up to `Slack` more. It rests on two lemmas about `Latest`: the latest of the latest are the latest (`LatestOfLatest`),
and appending before or after cutting makes no difference (`LatestOfConcat`). `StoresAlwaysAgree` follows for pages
that are not longer than what memory keeps; with a smaller maximum the SQL store really shows more, until its clean
up. `CacheInv` follows a page through an insertion: after the refresh it is what the transaction will commit, after
the commit what is committed, and a page that a reader is about to cache is current. The last part is where a single
connection is needed (`OneTransaction`): with two, a reader may put the page it read before a commit into the cache
after it, and nothing corrects it until the next insertion. A removal leaves pages behind that are not current; they
are those the remover wipes next.

When the oldest results of a suite are deleted, those of its endpoints that are linked to them go with them.
`LinkedTo` takes as many of the latest results as are still linked, and `LinkedAreLinked` shows that these are the
linked ones: the results of the suite ascend, so do those of its endpoint (`SuiteInv`), hence what comes after a
result that stays stays as well (`LaterStay`, `LastPositions`). That there are never more of them than of the suite's
is a pigeonhole argument (`NoMoreThanTheSuite`).

**Status pages.** `PagesInv` holds what a request knows at each of its stages. It captured something that was
published (`RequestInv`), and what is published later has a later revision; so the revision in the key of a cached
payload stands for the page, the login and the limit it was made for, and the sequence of an endpoint for the results
it had (`Agree`: two requests with the same number mean the same). `PayloadsInv` says of every cached payload that it
fits whoever is published now and every request under way that could look it up; the case to be shown is the payload
that is stored after the page was changed, whose key nobody asks for any more. A page shows at most as many endpoints
as it is limited to, for they are taken by their rank. `FailuresInv` compares the counter of failures with the
failures of its window, and `VerifiedInv` says that a verification is remembered for the right credential only.

**Restore.** `RestoreInv` has three parts while a backup is applied. `PlanKnown` does not change: an update was agreed
to and shows the row it replaces, and no token is planned twice, as the plan gives a token to the first free key or
endpoint that has it. `LeftKnown` says of each item that is left that its row is the one that was shown or a later
one, and, as long as nobody interferes, everything that makes the registry accept it (`Acceptable`): its row is there
or not as the plan says, its token belongs to nobody, its provider is the one in use or about to be. `DoneKnown` says
what has become of the items that were handled. That handling one item keeps the next ones acceptable is the reason
for the order of the restore: the keys first, then the provider, then the endpoints, then the page.

**Live updates.** `StateInv` is what makes channels and slots safe: a page and its stream know each other until the
connection is cut or the handler has returned (`Links`), the subscribers are the handlers that are open and between
subscribing and cancelling, the slots taken are counted by the cardinality of the handlers that hold one, and the
sequence of a key and the results that are about to be published together do not exceed the results stored (`Counted`).
`TellInv` adds what a page may rely on: every id it was given is at most the sequence; and a page that waits, behind
what was published, has its notification under way (`Serves`): in the slot of its handler, with the handler that knows a
newer sequence than the page does or has not read it yet, or on the wire. A page that connected with an id that was
already old is the delicate case: the event follows the id at once (`IdThenEvent`). `Publish` is the step that breaks
every weaker statement, as it makes all ids old at once; it is saved by notifying every subscription in the same step.
`CutsGreeting = FALSE` is used exactly in the step that cuts a connection: between the id and its event the promise does
not hold (section 6).

**Health checks.** A check goes through seven stages, and `ResultsAreTrue` compares its result with what the target
really said. `ChecksInv` keeps the two together at every stage (`AnswerAgrees`): they may differ only in the body and
in the IP address, and only if nothing asks for them. From it, conditions have the same outcome for both, as every
placeholder that occurs is one that was looked up (`ResolveAgrees`, `ConditionsAgree`), and the same values are
stored. `HealthKnown` says that nothing has failed before the call and that the call and the conditions decide. Every
call either gets an answer or fails (`GetsKeeps`, `FailsKeeps`), so that each of the calls is a case of one of two
lemmas. `CacheKnown` and `DomainKnown` follow the date of a domain from the registry through the cache, which it
leaves after ten days or three (`CachedIsRecent`). `ErrorsKnown` says what can be read in an error: the three
replacements are made one after the other, and each leaves alone what the earlier ones have hidden (`RedactedHides`).
What the replacement does not look for (`NotFoundIn`: a URL in another form than configured) or cannot find (an empty
hostname) is shown, and `HiddenStaysHidden` is about the rest. `ContextKnown` and `StoresKnown` say that a value in
the context is one that an endpoint before stored, a path of the context being set without disturbing others
(`PutSets`). The theorems are about an endpoint whose placeholders are all seen (`IsAsLookedFor`); of others, the
result may say something else (section 6).

**Services and delivery.** `ServicesInv` is about what a configuration becomes: a provider whose validation passed is
one that was declared, completed by what the validation sets (`Accepted`), and the settings of an alert are as
declared until the endpoints are validated, and then those settled from the provider. `ServicesAreWhole` looks at the
table of the services once; everything else follows from its few facts and from what merging and completing do to a
field (`MergedIs`, `CompletedIs`, `GetConfigIs`). The fields of a client that was kept (`KeepsClient`) are those of
the default, all of them, and those of a client that was made are the merged ones. `DeliveryInv` follows the requests
that are left of a sending. Everyone was told, or will be before the alert counts as triggered (`ToldAll`); an alert
that is triggered has an incident open (`OpenAll`). That a resolution closes the incidents of its alert and no others
rests on the keys: those of two alerts never meet, in memory, in storage or at the service, unless the service knows
incidents by their endpoint alone, which the alerts of an endpoint share (`Keyed`, `ClosedByTheirs`); a request to
close names an incident that a list found for the endpoint (`ToBeClosed`), and each open incident is known by the key
its alert remembers, unless something happened that the code forgets it by (`Remembered`, `Remaining`).

**Access.** `AccessInv` relates the storage to what was granted. `SessionsGranted`: a stored session is what its login
was granted, and nobody has logged out of it. `RequestsKnown`: what a request has read still says enough when it acts on
it. A request that is about to discard a session has seen one that has ended, and an ended session stays ended (the
clock only goes on, a credential of an earlier configuration is not that of the request), so that the deletion hurts
nobody; a request that is about to purge or to create a session has checked the credential; an admitted one was
entitled. `Later` collects what no step takes back (configurations, grants, logouts, the clock), and every action is
shown to preserve the rest from it.

`LimiterInv` compares a limiter, of any of the configurations that requests still use, with the failures that were
counted in it. A limiter lists clients once, the most recent failure first, and no more than `MaximumKeys` of them.
`EntryKnown`: an entry counts no more failures than there were since its window began, and these with the requests that
have passed the limiter and will be counted in that window are at most one less than the maximum and one for each
request at the same time: the look at the limiter and the count are two steps, which is why `GuessesAreLimited` is not
simply `MaximumFailures`. `Remembered`: the entry of a client that failed has before it only clients that failed later,
so that it is dropped only for `MaximumKeys` others. The removal of the last entry and the move to the front are lemmas
about positions in the list (`PositionOf`).

**Only model-checked.** Liveness under fairness and `ENABLED`, which are beyond the prover: `AlertsFollowHealth`,
`StopsEnd`, `SilenceIsReported` (the liveness of `HeartbeatSeesSilence`), `PagesGetOn`, `ChangesAndReloadsEnd`.
`NoReminderOverdue`, for the reason above. No module uses a recursive operator, but what the folds of `UptimeHistory`
compute for every history would need an induction over data, which the prover does not support: `AggregatesExact`
compares it with the results themselves. Every other property of a passing run is stated by a theorem;
`RemindersOnTime` and `HeartbeatSeesSilence` by one about their safety part. `IncidentsKept`, `StoresAgree`,
`CacheIsCurrent`, `NothingMissed` and the properties that need different checksums are proved under the extra
assumptions of the table, which the constants of the passing runs satisfy.

## 6. Where the code and its documentation part

Found by a run, as a violation:

1. `AlertingStarvedReminder` — `LastReminderSent` belongs to the endpoint. With intervals of 2 and 3 the reminder of
   the first alert keeps renewing it and the second alert is never reminded. The comment at
   `watchdog/alerting.go:33` names this hazard as avoided; capturing the value avoids it within one result only. With
   equal intervals and equal failure thresholds (`AlertingRestarts`) it is avoided.
2. `ManagedEndpointsRefusedRename` — `managedendpoint/service.go:436` deletes rows of triggered alerts before the
   transaction that may answer 409.
3. `PushesForgottenHeartbeat` — deleting or renaming a managed endpoint in conflict forgets the last push of a key
   that the endpoint of the file has; its heartbeat goes on reading the old time.
4. `SuitesMisplacedAlert` — `watchdog/suite.go:60` matches endpoints and results by position, although skipped endpoints
   have no result.
5. `HealthChecksEmptySuccess` — a check whose call failed may be a success, since the conditions decide alone
   (`endpoint.go:354`, against the comment of `Result.Success`).

Reproduced with other constants or another property; each is stated where a property excludes it:

* `CutsGreeting = TRUE` in `LiveUpdatesStreams`: `api/live_updates.go:257` flushes the id before the event of the missed
  result. A client that is cut between the two connects again with that id and is told of nothing until the next
  result (`NothingMissed`).
* `NothingMissed` without `crashes = 0`: sequences of a new process start from 0, so a page that comes back
  with the id of the old process is not told of what it missed.
* `NoLatePush` in `MonitoringCycles`: `api/push.go:143` processes a push the registry refused with the object of the
  configuration file, even for an endpoint with a heartbeat, so that a push is recorded after `Shutdown`.
* `FallsBack <- OneKey` in `MonitoringCycles`: a heartbeat of the administration that waits for the lock while the
  wait for it times out records a failure after the stop (`NothingAfterStop`), against the comment of `StopEndpoint`,
  "No result of the endpoint is recorded afterward". In `Pushes` it may so use a retry of a key that was deleted, or
  of the endpoint that has the key by then (`NothingLeftBehind` without `stray`). A request that the server gave up
  waiting for does the same (`controller.go:81`).
* `NoExecutionAfterClose` with `closedOn` of every entry: an execution that is past its look at the context when the
  timer of `Shutdown` fires records its result, although the message at `watchdog/registry.go:151` says that such
  results are discarded.
* Restarts and counts. An object restored from the row of one alert has the failures of its threshold and the
  successes of its row: another alert may open early and close early. `InitialAtFailureThreshold` and
  `ClosedAtSuccessThreshold` are about the first object for this reason.
* `KeepsReminderTime = FALSE` in `AlertingRestarts` is an external endpoint, whose conversion at
  `watchdog/external_endpoint.go:108` leaves `LastReminderSent` out: every failure reminds (`RemindersSpaced`).
* `Checksum <- SharedChecksum` in `AlertingRestarts`: two alerts that differ only by `provider-override` have one row,
  and a restart gives the incident of one to the other (`ResolvedOnlyIfNotified`).
* `IncidentsPersisted` and what `Consistent` says of histories, without `failures = 0`: after a failed commit the
  previous object is restarted with its alerts on, while the rows were already those of the new definition; and what a
  new object stored under a new key before its commit failed stays there.

Noted while translating; where a model has it, a property excludes it or says nothing of it:

* *Alerting and monitoring.* `UpsertTriggeredEndpointAlert` returns nil although its commit failed. `Create` does not
  look for history under its key, only a rename does.
* *Suites.* The `break` of the timeout only leaves the `select` (against `docs/README.md:388`). A goroutine of the old
  cycle may take a tick after its cancellation and run in the next one, and insert its result after the clean-up of
  `initializeStorage`. The slot of a former semaphore may be given to the one in use (`watchdog/suite.go:42`), so that
  more are evaluated at a time than `concurrency` says (`SlotsBounded` counts them), against the comment at
  `watchdog/watchdog.go:26`; if nothing is taken of that one, `Release` panics. `IsEnabled` of an endpoint is ignored
  within a suite.
* *Health checks.* `hide-url` and `hide-hostname` replace the configured texts (`endpoint.go:371`, `endpoint.go:376`):
  the URL of a redirection, or one that `net/http` encoded again or printed without its password, stays in the error,
  and of an address that has no hostname nothing is hidden. Whether a body is needed is decided by upper-case
  placeholders, although `placeholder.go:127` compares without regard to case. `suite.go:160` sets the duration before
  `StoreResultValues`, and `hide-errors` is applied before `suite.go:165` adds "failed to store values". The port
  stays readable in an error when the URL cannot be parsed, and that of a DNS query or of a ping always does
  (`endpoint.go:327`). The IP address is looked up for conditions only (`endpoint.go:646`), not for a value to store.
  Clients are made once and lazily without a lock: an Identity-Aware Proxy whose token was invalid at first use leaves
  a plain client until the next load, OAuth2 loses `ignore-redirect` and the tunnel, STARTTLS with a resolver of its
  own has no timeout.
* *Pushes and tokens.* The loop at `pushkey.go:262` never adds anything again, which does no harm. `pushTokens`
  (`service.go:658`) ignores endpoints in conflict or invalid, so that two may share a token although
  `definition.go:248` says that it is "not used by another endpoint". The heartbeat looks at the time before it takes
  the lock (`external_endpoint.go:48`). Without a connection it records nothing, however long the silence
  (`external_endpoint.go:41`).
* *Providers.* A load with another effective provider deletes the row of an open incident. A deletion is accepted while
  the managed endpoints could not be listed (`service.go:393`).
* *Lifecycle.* A file that is written within the second of its load, before the time is recorded, is not noticed
  (`config.go:294`). A `Shutdown` that saw no server or gave up waiting may bring the next start down. The signal
  handler stops the configuration of the start, not the one in use.
* *Result storage.* The cache is refreshed from the open transaction (`sql.go:415`); a reader with a connection of its
  own may fill it with the rows before. `InsertSuiteResult` never refreshes it. Keys are matched by prefix. The store
  in memory keeps no results of the endpoints of suites. A merged day at the boundary of a period is left out. Events
  are trimmed by their count before the insertion. A pending result creates no event. The failure of a statement of
  the insertion is only logged: a count of the events that failed adds a START between other events, or an event that
  repeats the last (`sql.go:320`); the update of the uptime is lost (`sql.go:386`); and a merge whose insertion of the
  days fails has removed their hours. The store in memory begins a period at the full hour (`memory.go:132`), so that
  its uptime has an hour more than that of SQL.
* *Restore.* Versions start again at 1, so that a deleted and re-created item may pass for the previewed one; so does
  the generation after a restart. An update of a provider is refused because of a registered endpoint that the same
  backup would change afterwards (`docs/admin-endpoints.md:376`). A token of an endpoint that was invalid at planning
  comes into use with its provider.
* *Status pages.* The sequence 0 is used again for an endpoint that is re-created, whose cached old details may be
  shown for up to 30 s (`PayloadsFit` excludes it). An update does not forget remembered verifications, a load does.
  Concurrent requests may exceed the maximum of failures before the block.
* *Sessions.* A logout whose deletion fails leaves the session valid, although its cookie goes. Check and count are
  two steps, so a window has as many failures as the maximum and the concurrent requests allow. The limiter forgets
  the client it has not seen longest, and a reload forgets all. A session whose credential was replaced and is
  configured again later is accepted if its row is still there. A memory storage loses its sessions at each reload.
* *Services.* GitHub's and Gitea's `Validate` return early when owner and name are the same, so that an override of
  the token alone, or of a repository of that name on another host, is ignored against `docs/README.md:837`
  (`MostSpecificWins` excepts it); with another repository each `Send` asks the service first, and an alert is not
  sent when it does not answer. The first page of open issues (`github.go:137`, `gitea.go:158`) or of tasks
  (`clickup.go:207`) is all that a resolution looks at. incident.io clears its key *and* returns an error although the
  comment says "Silently fail". PagerDuty triggers without a key, so that a reminder opens another incident and the
  earlier one is forgotten. ClickUp closes tasks whose name contains group and name, also of other endpoints, and none
  if its template names the endpoint otherwise. A failed resolution is never repeated. Recipients are told in turn,
  and a retry tells the earlier ones again. Opsgenie creates before it closes; GitLab's fingerprint is never cleared.
  Overrides are only validated when a default alert is set, and only warned of (`config.go:766`, `config.go:780`);
  alerts of the endpoints of suites are not merged with the default alert. Overrides of groups are not checked for
  their form in ClickUp, Home Assistant, incident.io, PagerDuty, email and AWS SES, and not at all in Custom.

## 7. Are the properties about the code?

For each property of a passing run, PROJECT.json names a definition of the model and a plausible mistake in it (a
forgotten reset, a lock that is not taken, an order that is swapped, a guard that is off by one): 88 of them for 40
properties, so that the parts of a combined property are tested as well. Each is found by the property it is listed
for with the constants of its run. The mistakes are the definitions named *Variant* or *Mutant* in the modules.

## 8. What is not modelled

* *Formats.* YAML, templates, bodies of messages, JSON paths and patterns as such (`HealthChecks` has tables of what
  they give), password hashes, the encryption and the limits of a backup, badges and charts. A loaded configuration is
  a constant or a free choice, except for the services.
* *Clients.* How a client is made from its configuration: OAuth2, Identity-Aware Proxy, resolvers, tunnels, TLS.
* *SQL.* Schemas, migrations, dialects. A transaction is one step or none, except in `ResultStore`. Only a single
  connection, as with SQLite, is in the runs; with several, a reader may fill the cache with old rows.
* *Authentication.* OIDC, whose sessions are kept by an external provider; the rules on origins and cookies; who is an
  administrator. A credential is a user name with its password.
* *Registry.* More than one heartbeat or request at a time that nobody waits for any more (`Pushes`); pushes in flight
  during a change of a provider, changes of the administration during a load that could not list the endpoints, and
  the ten seconds a reload waits for a restore.
* *Live updates.* `HEAD`, pings, the delays of the page, a fetch of the page that fails, which nothing repeats until
  the next event; the periodic refresh of a page, which hides a missed update after a while, is not counted on.
* *Managed endpoints.* The validation of a definition, PATCH, the masked secrets and the test of a provider, several
  pages: pages do not depend on each other. A page is published and its cache cleared in one step.
* *Web interface* beyond its event source, metrics (counters that nothing reads), stateless handlers, tests, build
  files, vendored code.

## 9. What is left

As models, in the order of what they would add: the sessions of OIDC, several connections in `ResultStore` with a weaker
promise for its cache, and a change of a provider beside a push in flight. As proofs: the weaker promises that
remain when an extra assumption of section 5 does not hold, for example which incidents survive when two alerts share a
checksum, or how far behind a page may be that was cut between an id and its event.
