----------------------------- MODULE ResultStore -----------------------------
(***************************************************************************)
(* The storage of the results: the transactions of the SQL store, its      *)
(* write-through cache of the first page of each endpoint, the events, the *)
(* uptime and the response time buckets derived from the results, and the  *)
(* store in memory, which is given the same results.                       *)
(*                                                                         *)
(* A transaction needs a connection and its writes are seen by the others  *)
(* once it is committed.  SQLite has one connection; the other databases   *)
(* have several, and read what is committed.  The cache is not part of any *)
(* transaction.                                                            *)
(***************************************************************************)
EXTENDS UptimeHistory, Sequences

CONSTANTS
    Keys,            \* of endpoints
    Extends,         \* the pairs of keys <<k, l>> where l begins with k: GetKeysByPattern(k + "*") finds l
    SuiteKeys,       \* the keys of the endpoints of the suite
    Connections,     \* how many transactions there may be at a time
    MaxResults,      \* maximumNumberOfResults
    MaxEvents,       \* maximumNumberOfEvents
    Slack,           \* resultsAboveMaximumCleanUpThreshold and eventsAboveMaximumCleanUpThreshold
    PageSize,        \* of results and of events
    BucketRetention, \* hours the buckets are kept
    None,            \* no row, no entry of the cache
    Workloads        \* bounds of a behaviour, see Workload

\* The statements of insertEndpointResult whose failure is logged and nothing else: the count of the events, the
\* insertion of a START, that of a health event or the look at the last one, the removals of the oldest events and of the
\* oldest results, and those of the uptime. At most one of them fails in an insertion.
Unchecked == {"count", "start", "event", "oldEvents", "oldResults", "upsert", "merge", "day", "cleanUp"}

\* inserts: results inserted. hours: how long it takes. failures: statements and commits that fail. unchecked: which of
\* the unchecked statements may be among them. kinds: of the results. writers: the endpoints that have results. clients:
\* who else uses the store.
Workload == [inserts : Nat, hours : Nat, failures : Nat, unchecked : SUBSET Unchecked,
             kinds : SUBSET {"up", "down", "pending"}, writers : SUBSET Keys,
             clients : SUBSET {"suite", "reader", "remover"}]

ASSUME StoreAssumption ==
    /\ SuiteKeys \subseteq Keys /\ Extends \subseteq Keys \X Keys
    /\ Keys \cap {"suite", "reader", "remover"} = {} \* the names of the other clients
    /\ Connections \in Nat \ {0}
    /\ MaxResults \in Nat \ {0} /\ MaxEvents \in Nat \ {0} /\ Slack \in Nat \* ValidateAndSetDefaults
    /\ PageSize \in Nat \ {0} /\ BucketRetention \in Nat
    /\ Workloads \subseteq Workload

EndpointKeys == Keys \ SuiteKeys
Kinds == {"up", "down", "pending"}

VARIABLES
    data,      \* by key, the committed rows: None, or results, events, uptime and buckets
    suite,     \* the identifiers of the results of the suite
    memory,    \* the same in the store in memory
    cache,     \* by key, the cached first page, or None
    cleanUps,  \* the keys of responseTimeBucketsCleanUps, with their time
    open,      \* the transactions: by client, what it would commit
    pc,        \* by client, what it does next
    wanted,    \* what a client works on: the result of an insertion, the key of a reader or of a remover
    shown,     \* the page the last reader got
    now,       \* the time
    workload, inserts, failures,   \* the bounds, and what was used of them
    \* What an observer of the calls knows
    actual,    \* by key, the executions that were stored, by hour
    lastHealth,\* by key, the health of the last result that is not pending
    lost       \* by key, what the store missed: the statements that failed, a commit or the transaction of a bucket, and
               \* what the store in memory has not seen

rows == <<data, suite, memory>>
clients == <<open, pc, wanted>>
bounds == <<workload, inserts, failures>>
observed == <<actual, lastHealth, lost>>
vars == <<rows, cache, cleanUps, clients, shown, now, bounds, observed>>

Clients == EndpointKeys \cup {"suite", "reader", "remover"}

-----------------------------------------------------------------------------
(* Rows *)

Latest(seq, n) == IF Len(seq) <= n THEN seq ELSE SubSeq(seq, Len(seq) - n + 1, Len(seq))

\* getEndpointResultsByEndpointID and getEndpointEventsByEndpointID: a page, counted from the most recent row
Page(seq, page, size) ==
    SubSeq(seq, Len(seq) - page * size + 1, Len(seq) - (page - 1) * size)
FirstPage(seq, size) == IF Len(seq) < size THEN seq ELSE Page(seq, 1, size)

\* Mutant: the first result of the page is skipped
StartIndexOffByOne(n, page, size) == IF n - page * size < 0 THEN 0 ELSE n - page * size + 1

\* getStartAndEndIndex of the store in memory
StartIndex(n, page, size) == IF n - page * size < 0 THEN 0 ELSE n - page * size
EndIndex(n, page, size) == n - (page - 1) * size
MemoryPage(seq, page, size) ==
    IF EndIndex(Len(seq), page, size) < 0
      THEN <<>>
      ELSE SubSeq(seq, StartIndex(Len(seq), page, size) + 1, EndIndex(Len(seq), page, size))

\* What a status shows of an endpoint
StatusOf(row) == [results |-> FirstPage(row.results, PageSize), events |-> FirstPage(row.events, PageSize)]
MemoryStatusOf(row) == [results |-> MemoryPage(row.results, 1, PageSize), events |-> MemoryPage(row.events, 1, PageSize)]

NewRow == [results |-> <<>>, events |-> <<>>, uptime |-> NoEntries, buckets |-> NoEntries]

Health(kind) == IF kind = "up" THEN "HEALTHY" ELSE "UNHEALTHY"

\* getLastEndpointHealthEventType, lastHealthEventType: the most recent event that is not START
LastHealthIs(events, health) ==
    \E i \in 1..Len(events) : events[i] = health /\ \A j \in (i + 1)..Len(events) : events[j] = "START"

\* Mutant: the result is compared with the last result, which may be pending
HealthEventOfLastResult(row, result) ==
    IF result.kind = "pending" \/ (row.results # <<>> /\ row.results[Len(row.results)].kind = result.kind)
      THEN <<>> ELSE <<Health(result.kind)>>

\* The event of a result that differs from the last health event
HealthEvent(row, result) ==
    IF result.kind = "pending" \/ LastHealthIs(row.events, Health(result.kind))
      THEN <<>> ELSE <<Health(result.kind)>>

\* Mutant: the clean up keeps the oldest events
EventsAfterKeepingOldest(row, result, failed) ==
    LET start == IF row.events = <<>> THEN <<"START">> ELSE <<>>
        added == row.events \o start \o HealthEvent(row, result) IN
    IF Len(row.events) > MaxEvents + Slack THEN SubSeq(added, 1, MaxEvents) ELSE added

\* Mutant: a count that fails is taken for a count of none, and the result for one without a START before it
EventsAfterWithoutComparison(row, result, failed) ==
    LET start == IF row.events = <<>> THEN <<"START">> ELSE <<>>
        added == row.events \o start \o HealthEvent(IF failed = "count" THEN NewRow ELSE row, result) IN
    IF Len(row.events) > MaxEvents + Slack THEN Latest(added, MaxEvents) ELSE added

\* The events once the result is inserted. A count that fails is one of none: there is a START and an event that is
\* compared with no other. The clean up looks at the number of events before the insertion.
EventsAfter(row, result, failed) ==
    LET counted == IF failed = "count" THEN NewRow ELSE row
        start == IF counted.events = <<>> /\ failed # "start" THEN <<"START">> ELSE <<>>
        event == IF failed = "event" THEN <<>> ELSE HealthEvent(counted, result)
        added == row.events \o start \o event IN
    IF Len(counted.events) > MaxEvents + Slack /\ failed # "oldEvents" THEN Latest(added, MaxEvents) ELSE added

\* Mutant: the clean up keeps the slack, too
TrimmedToSlack(seq) == IF Len(seq) > MaxResults + Slack THEN Latest(seq, MaxResults + Slack + 1) ELSE seq

Trimmed(seq) == IF Len(seq) > MaxResults + Slack THEN Latest(seq, MaxResults) ELSE seq

\* insertEndpointResult in the transaction, when a statement fails
Inserted(row, result, failed) ==
    LET old == IF row = None THEN NewRow ELSE row
        results == Append(old.results, result) IN
    [results |-> IF failed = "oldResults" THEN results ELSE Trimmed(results),
     events |-> EventsAfter(old, result, failed),
     uptime |-> EntriesAfter(old.uptime, now, result.kind = "up", failed),
     buckets |-> old.buckets]

\* AddResult of the store in memory, and what its InsertEndpointResult does around it, all under the lock
AddedInMemory(row, result, cleanUp) ==
    LET old == IF row = None THEN [NewRow EXCEPT !.events = <<"START">>] ELSE row IN
    [results |-> Latest(Append(old.results, result), MaxResults),
     events |-> Latest(old.events \o HealthEvent(old, result), MaxEvents),
     uptime |-> HourlyAfter(old.uptime, now, result.kind = "up"),
     buckets |-> BucketsAfter(old.buckets, now, now, result.kind = "up", cleanUp, BucketRetention)]

-----------------------------------------------------------------------------
TypeOK ==
    /\ \A k \in Keys : data[k] # None => DOMAIN data[k] = DOMAIN NewRow
    /\ \A k \in Keys : cache[k] # None => DOMAIN cache[k] = {"results", "events"}
    /\ DOMAIN open \subseteq Clients /\ Cardinality(DOMAIN open) <= Connections
    /\ pc \in [Clients -> {"idle", "refresh", "commit", "bucket", "lookup", "fill", "end", "wipe"}]
    /\ now \in 0..workload.hours
    /\ inserts \in 0..workload.inserts /\ failures \in 0..workload.failures
    /\ lost \in [Keys -> SUBSET (Unchecked \cup {"bucket", "commit", "memory"})]

Init ==
    /\ data = [k \in Keys |-> None] /\ suite = <<>> /\ memory = [k \in Keys |-> None]
    /\ cache = [k \in Keys |-> None]
    /\ cleanUps = NoEntries
    /\ open = [c \in {} |-> None]
    /\ pc = [c \in Clients |-> "idle"] /\ wanted = [c \in Clients |-> None]
    /\ shown = None
    /\ now = 0
    /\ workload \in Workloads /\ inserts = 0 /\ failures = 0
    /\ actual = [k \in Keys |-> NoEntries] /\ lastHealth = [k \in Keys |-> None]
    /\ lost = [k \in Keys |-> {}]

Idle(c) == pc[c] = "idle" /\ c \in workload.writers \cup workload.clients
Goto(c, label) == pc' = [pc EXCEPT ![c] = label]
Done(c) == Goto(c, "idle") /\ wanted' = [wanted EXCEPT ![c] = None]

\* Mutant: the database does not limit the connections
BeginWithoutConnection(c, writes) == open' = [d \in DOMAIN open \cup {c} |-> IF d = c THEN writes ELSE open[d]]

\* db.Begin waits for a connection, and a transaction keeps it until its end
Free == Cardinality(DOMAIN open) < Connections
Begin(c, writes) == Free /\ open' = [d \in DOMAIN open \cup {c} |-> IF d = c THEN writes ELSE open[d]]
Ended(c) == Restrict(open, DOMAIN open \ {c})
Fail == failures < workload.failures /\ failures' = failures + 1

\* What the transaction of a client sees of a key: what is committed and its own writes
Seen(c, k) == IF k = c THEN open[c] ELSE data[k]

-----------------------------------------------------------------------------
(* InsertEndpointResult of the SQL store: one at a time for a key, as lockEndpointResults ensures *)

\* The statements of the transaction, up to the cache. Only the transactions of SQLite survive a statement that fails.
BeginInsert(k) ==
    /\ Idle(k) /\ inserts < workload.inserts
    /\ \E kind \in workload.kinds, failed \in workload.unchecked \cup {"nothing"} :
        LET result == [id |-> inserts + 1, kind |-> kind] IN
        /\ Begin(k, Inserted(data[k], result, failed))
        /\ wanted' = [wanted EXCEPT ![k] = result]
        /\ IF failed = "nothing"
             THEN UNCHANGED <<failures, lost>>
             ELSE Fail /\ Connections = 1 /\ lost' = [lost EXCEPT ![k] = @ \cup {failed}]
    /\ inserts' = inserts + 1
    /\ Goto(k, "refresh")
    /\ UNCHANGED <<rows, cache, cleanUps, shown, now, workload, actual, lastHealth>>

\* Mutant: only the key of the result is refreshed, with what was committed before
RefreshedFromCommitted(k) ==
    [l \in Keys |-> IF cache[l] # None /\ l = k /\ data[l] # None THEN StatusOf(data[l]) ELSE cache[l]]

\* The cached pages of the keys that begin with the key are read again, in the transaction
Refreshed(k) ==
    [l \in Keys |->
        IF cache[l] = None \/ ~(l = k \/ <<k, l>> \in Extends) THEN cache[l]
        ELSE IF Seen(k, l) = None THEN None ELSE StatusOf(Seen(k, l))]

RefreshCache(k) ==
    /\ pc[k] = "refresh"
    /\ cache' = Refreshed(k)
    /\ Goto(k, "commit")
    /\ UNCHANGED <<rows, cleanUps, open, wanted, shown, now, bounds, observed>>

\* Whether responseTimeBucketsCleanUpDue. ResponseTimeBucketCleanUpInterval is an hour, which may or may not have
\* passed when the hour changed once.
CleanUps(k) ==
    {due \in BOOLEAN : /\ due => k \notin DOMAIN cleanUps \/ now - cleanUps[k] >= 1
                       /\ ~due => k \in DOMAIN cleanUps /\ now - cleanUps[k] <= 1}

BucketedAs(row, k, cleanUp) ==
    [row EXCEPT !.buckets = BucketsAfter(@, now, now, wanted[k].kind = "up", cleanUp, BucketRetention)]

CommitInsert(k) ==
    LET result == wanted[k] IN
    /\ pc[k] = "commit"
    /\ data' = [data EXCEPT ![k] = open[k]]
    /\ \E cleanUp \in CleanUps(k) : memory' = [memory EXCEPT ![k] = AddedInMemory(@, result, cleanUp)]
    /\ open' = Ended(k)
    /\ actual' = [actual EXCEPT ![k] = WithExecution(@, now, result.kind = "up")]
    /\ IF result.kind = "pending"
         THEN UNCHANGED lastHealth
         ELSE lastHealth' = [lastHealth EXCEPT ![k] = Health(result.kind)]
    /\ lost' = [lost EXCEPT ![k] = @ \ {"commit"}]
    /\ Goto(k, "bucket")
    /\ UNCHANGED <<suite, cache, cleanUps, wanted, shown, now, bounds>>

\* The result is lost, and what the transaction put into the cache stays there
CommitInsertFails(k) ==
    /\ pc[k] = "commit"
    /\ Fail
    /\ open' = Ended(k)
    /\ lost' = [lost EXCEPT ![k] = @ \cup {"commit"}]
    /\ Done(k)
    /\ UNCHANGED <<rows, cache, cleanUps, shown, now, workload, inserts, actual, lastHealth>>

\* insertResponseTimeBuckets, a transaction of its own. The endpoint may be gone.
InsertBuckets(k) ==
    /\ pc[k] = "bucket" /\ Free
    /\ IF data[k] = None
         THEN UNCHANGED <<data, cleanUps>>
         ELSE \E cleanUp \in CleanUps(k) :
            /\ data' = [data EXCEPT ![k] = BucketedAs(@, k, cleanUp)]
            /\ cleanUps' = IF cleanUp
                             THEN [l \in DOMAIN cleanUps \cup {k} |-> IF l = k THEN now ELSE cleanUps[l]]
                             ELSE cleanUps
    /\ Done(k)
    /\ UNCHANGED <<suite, memory, cache, open, shown, now, bounds, observed>>

InsertBucketsFails(k) ==
    /\ pc[k] = "bucket"
    /\ Fail
    /\ lost' = [lost EXCEPT ![k] = @ \cup {"bucket"}]
    /\ Done(k)
    /\ UNCHANGED <<rows, cache, cleanUps, open, shown, now, workload, inserts, actual, lastHealth>>

-----------------------------------------------------------------------------
(* InsertSuiteResult: a result of the suite, and a result of each of its endpoints that was executed, in one transaction
   that neither adds events nor looks at the cache *)

\* Mutant: the results of the endpoints are not linked to the result of the suite
LinkedToAny(row, ids) == row.results

\* The results of an endpoint are as old as the results of the suite they are linked to: those that are left are its latest.
LinkedTo(row, ids) ==
    Latest(row.results, Cardinality({i \in DOMAIN row.results : \E j \in DOMAIN ids : ids[j] = row.results[i].id}))

InsertSuiteResult(executed) ==
    LET id == inserts + 1
        kept == Trimmed(Append(suite, id)) IN
    /\ Idle("suite") /\ inserts < workload.inserts /\ Free
    /\ inserts' = inserts + 1
    /\ suite' = kept
    /\ data' = [k \in Keys |->
        LET old == IF data[k] = None THEN NewRow ELSE data[k]
            added == IF k \in executed THEN [old EXCEPT !.results = Append(@, [id |-> id, kind |-> "up"])] ELSE old IN
        IF k \in SuiteKeys /\ (k \in executed \/ data[k] # None)
          THEN [added EXCEPT !.results = LinkedTo(added, kept)] \* ON DELETE CASCADE
          ELSE data[k]]
    /\ UNCHANGED <<memory, cache, cleanUps, clients, shown, now, workload, failures, observed>>

-----------------------------------------------------------------------------
(* GetEndpointStatusByKey *)

\* In the transaction, the cache is looked at first
BeginRead(k) ==
    /\ Idle("reader")
    /\ Begin("reader", None)
    /\ wanted' = [wanted EXCEPT !["reader"] = k]
    /\ IF cache[k] # None
         THEN shown' = cache[k] /\ Goto("reader", "end")
         ELSE UNCHANGED shown /\ Goto("reader", "lookup")
    /\ UNCHANGED <<rows, cache, cleanUps, now, bounds, observed>>

ReadRows ==
    LET k == wanted["reader"] IN
    /\ pc["reader"] = "lookup"
    /\ IF data[k] = None
         THEN shown' = None /\ Goto("reader", "end")
         ELSE shown' = StatusOf(data[k]) /\ Goto("reader", "fill")
    /\ UNCHANGED <<rows, cache, cleanUps, open, wanted, now, bounds, observed>>

FillCache ==
    /\ pc["reader"] = "fill"
    /\ cache' = [cache EXCEPT ![wanted["reader"]] = shown]
    /\ Goto("reader", "end")
    /\ UNCHANGED <<rows, cleanUps, open, wanted, shown, now, bounds, observed>>

EndRead ==
    /\ pc["reader"] = "end"
    /\ open' = Ended("reader")
    /\ shown' = None
    /\ Done("reader")
    /\ UNCHANGED <<rows, cache, cleanUps, now, bounds, observed>>

\* cacheTTL, or the maximum size of the cache
Expire(k) ==
    /\ cache[k] # None
    /\ "reader" \in workload.clients
    /\ cache' = [cache EXCEPT ![k] = None]
    /\ lost' = [lost EXCEPT ![k] = @ \ {"commit"}]
    /\ UNCHANGED <<rows, cleanUps, clients, shown, now, bounds, actual, lastHealth>>

-----------------------------------------------------------------------------
(* Removals, of endpoints whose monitoring was stopped; the cache is wiped once the transaction is committed. The store
   in memory has no managed endpoints: it is not compared with the SQL store any more. *)

Stopped(k) == k \in EndpointKeys => pc[k] = "idle"

\* DeleteManagedEndpoint with its data
Delete(k) ==
    /\ Idle("remover") /\ Free /\ Stopped(k) /\ data[k] # None
    /\ data' = [data EXCEPT ![k] = None]
    /\ wanted' = [wanted EXCEPT !["remover"] = {k}]
    /\ Goto("remover", "wipe")
    /\ actual' = [actual EXCEPT ![k] = NoEntries]
    /\ lastHealth' = [lastHealth EXCEPT ![k] = None]
    /\ lost' = [lost EXCEPT ![k] = {"memory"}]
    /\ UNCHANGED <<suite, memory, cache, cleanUps, open, shown, now, bounds>>

\* RenameManagedEndpoint with its history, which is refused when the new key has one
Rename(k, l) ==
    /\ Idle("remover") /\ Free /\ Stopped(k) /\ Stopped(l)
    /\ data[k] # None /\ data[l] = None
    /\ data' = [data EXCEPT ![l] = data[k], ![k] = None]
    /\ wanted' = [wanted EXCEPT !["remover"] = {k, l}]
    /\ Goto("remover", "wipe")
    /\ actual' = [actual EXCEPT ![l] = actual[k], ![k] = NoEntries]
    /\ lastHealth' = [lastHealth EXCEPT ![l] = lastHealth[k], ![k] = None]
    /\ lost' = [lost EXCEPT ![l] = (lost[k] \ {"commit"}) \cup {"memory"}, ![k] = {"memory"}]
    /\ UNCHANGED <<suite, memory, cache, cleanUps, open, shown, now, bounds>>

\* Mutant: only the old key is removed from the cache
WipedOfOne(keys) == [l \in Keys |-> IF l \in keys /\ data[l] = None THEN None ELSE cache[l]]

\* DeleteKeysByPattern of each key
Wiped(keys) ==
    [l \in Keys |-> IF \E k \in keys : l = k \/ <<k, l>> \in Extends THEN None ELSE cache[l]]

WipeCache ==
    /\ pc["remover"] = "wipe"
    /\ cache' = Wiped(wanted["remover"])
    /\ Done("remover")
    /\ UNCHANGED <<rows, cleanUps, open, shown, now, bounds, observed>>

\* A load of the configuration, when nothing is monitored or served: a new store, with the rows of the old one and
\* without its cache, in which DeleteAllSuiteStatusesNotInKeys and DeleteAllEndpointStatusesNotInKeys remove the rows of
\* the other keys. The store in memory starts empty.
Load(keys) ==
    /\ Idle("remover") /\ \A c \in Clients : pc[c] = "idle"
    /\ data' = [k \in Keys |->
        IF k \notin keys \/ data[k] = None THEN None
        ELSE IF k \in SuiteKeys /\ ~SuiteKeys \subseteq keys THEN [data[k] EXCEPT !.results = <<>>]
        ELSE data[k]]
    /\ suite' = IF SuiteKeys \subseteq keys THEN suite ELSE <<>>
    /\ memory' = [k \in Keys |-> None]
    /\ cache' = [k \in Keys |-> None]
    /\ cleanUps' = NoEntries
    /\ actual' = [k \in Keys |-> IF k \in keys THEN actual[k] ELSE NoEntries]
    /\ lastHealth' = [k \in Keys |-> IF k \in keys THEN lastHealth[k] ELSE None]
    /\ lost' = [k \in Keys |-> IF data'[k] = None THEN {} ELSE (lost[k] \ {"commit"}) \cup {"memory"}]
    /\ UNCHANGED <<open, pc, wanted, shown, now, bounds>>

-----------------------------------------------------------------------------
\* Hours go by between insertions, some of them without a result
Tick ==
    /\ now < workload.hours
    /\ \A k \in EndpointKeys : pc[k] = "idle"
    /\ now' = now + 1
    /\ UNCHANGED <<rows, cache, cleanUps, clients, shown, bounds, observed>>

Next ==
    \/ \E k \in EndpointKeys :
        BeginInsert(k) \/ RefreshCache(k) \/ CommitInsert(k) \/ CommitInsertFails(k) \/ InsertBuckets(k)
            \/ InsertBucketsFails(k)
    \/ \E executed \in SUBSET SuiteKeys : InsertSuiteResult(executed)
    \/ \E k \in Keys : BeginRead(k) \/ Expire(k) \/ Delete(k)
    \/ \E k, l \in EndpointKeys : k # l /\ Rename(k, l)
    \/ ReadRows \/ FillCache \/ EndRead
    \/ \E keys \in SUBSET Keys : Load(keys)
    \/ WipeCache
    \/ Tick

Spec == Init /\ [][Next]_vars

-----------------------------------------------------------------------------
(* Properties *)

\* Whose pages the remover is about to wipe
ToWipe == IF pc["remover"] = "wipe" THEN wanted["remover"] ELSE {}

\* Whether the two stores have been given the same: a store in memory cannot fail
Comparable(k) == lost[k] \cap {"count", "start", "event", "bucket", "memory"} = {}

\* A cached page is the page the rows would give, whatever insertions, reads, renames, removals and expirations come
\* between the transaction that reads it and the one that changes it. Excluded: the endpoints of suites, whose results
\* do not go through the cache, and a key whose last commit failed.
CacheIsCurrent ==
    \A k \in EndpointKeys :
        cache[k] # None /\ k \notin ToWipe /\ pc[k] \notin {"refresh", "commit"} /\ "commit" \notin lost[k]
            => data[k] # None /\ cache[k] = StatusOf(data[k])

\* The events of an endpoint alternate between HEALTHY and UNHEALTHY, after a START that is only ever the first one,
\* although pending results come in between, old events are removed and statements fail. Only a count of the events that
\* failed adds a START later, after which an event may repeat the one before this START.
EventsAlternate ==
    \A k \in Keys : data[k] # None =>
        LET events == data[k].events IN
        \A i \in 2..Len(events) : IF events[i] = "START" THEN "count" \in lost[k] ELSE events[i] # events[i - 1]

\* The last health event is the health of the last result that is not pending, unless the insertion of one failed, or the
\* STARTs of counts that failed pushed it out.
LastEventIsHealth ==
    \A k \in EndpointKeys : data[k] # None /\ lastHealth[k] # None /\ "event" \notin lost[k] =>
        \/ LastHealthIs(data[k].events, lastHealth[k])
        \/ "count" \in lost[k] /\ \A i \in 1..Len(data[k].events) : data[k].events[i] = "START"

\* Neither results nor events grow beyond their maximum and the slack, whatever the order of insertions, renames and
\* removals, but for the rows that each statement that failed may leave.
RowsBounded ==
    /\ Len(suite) <= MaxResults + Slack
    /\ \A k \in Keys : data[k] # None =>
        /\ Len(data[k].results) <= MaxResults + Slack + failures
        /\ Len(data[k].events) <= MaxEvents + Slack + 1 + 2 * failures

\* A result of an endpoint of a suite belongs to a result of the suite that is still there.
SuiteResultsLinked ==
    \A k \in SuiteKeys : data[k] # None =>
        \A i \in 1..Len(data[k].results) : \E j \in 1..Len(suite) : suite[j] = data[k].results[i].id

\* The two stores show the same first page, as long as they were given the same results and none lost an event.
StoresAgree ==
    \A k \in EndpointKeys : Comparable(k) =>
        /\ (data[k] = None) <=> (memory[k] = None)
        /\ data[k] # None => StatusOf(data[k]) = MemoryStatusOf(memory[k])

\* The uptime of the last day is exact in the SQL store, unless it failed to be updated: merging and cleaning up never
\* touch its hours, even when they fail. The store in memory has every hour that can be asked for, up to the one in which
\* the longest period begins.
DayIsExact ==
    \A k \in EndpointKeys : data[k] # None =>
        /\ "upsert" \notin lost[k] => LastHours(data[k].uptime, now, DayHours) = LastHours(actual[k], now, DayHours)
        /\ Comparable(k) => \A hours \in DayHours..RetentionHours :
            LastHoursInMemory(memory[k].uptime, now, hours) = LastHoursInMemory(actual[k], now, hours)

\* The uptime of a longer period counts nothing twice and nothing that is older, and misses at most the executions of
\* the day in which the period begins, those whose update failed, and the days whose insertion failed.
PeriodIsNearlyExact ==
    \A k \in EndpointKeys, hours \in DayHours..RetentionHours : data[k] # None =>
        LET counted == LastHours(data[k].uptime, now, hours)
            wholeDays == TotalOf(actual[k], (DayOf(now - hours) + DayHours)..now) IN
        /\ counted.total <= LastHours(actual[k], now, hours).total
        /\ counted.successful <= LastHours(actual[k], now, hours).successful
        /\ lost[k] \cap {"upsert", "day"} = {} => counted.total >= wholeDays.total

\* The buckets of the retention count every result, except those whose own transaction failed, and are the same in both
\* stores.
BucketsExact ==
    \A k \in EndpointKeys : data[k] # None /\ pc[k] # "bucket" /\ "bucket" \notin lost[k] =>
        LET shownBy(row) == LastHours(row.buckets, now, BucketRetention) IN
        /\ shownBy(data[k]) = LastHours(actual[k], now, BucketRetention)
        /\ Comparable(k) => shownBy(memory[k]) = shownBy(data[k])

\* The types, the bounds of the tables, and the link of the results of a suite
Consistent == TypeOK /\ RowsBounded /\ SuiteResultsLinked

\* The events tell the story of the health: they alternate, and the last one is the health now.
EventsTell == EventsAlternate /\ LastEventIsHealth

\* The aggregates of the results, in the storage and in memory: the last day, the longer periods and the buckets
AggregatesExact == DayIsExact /\ PeriodIsNearlyExact /\ BucketsExact
=============================================================================
