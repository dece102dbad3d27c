---------------------------- MODULE UptimeHistory ----------------------------
(***************************************************************************)
(* The uptime of an endpoint: its executions by hour, which the SQL store  *)
(* merges into days when they are many, and forgets when they are old.     *)
(*                                                                         *)
(* The time is the number of the hour.  A query or a clean up happens      *)
(* within its hour and never on the stroke of it, so that an hour h starts *)
(* less than d hours ago exactly when h > now - d.                         *)
(***************************************************************************)
EXTENDS Integers, FiniteSets, Functions

CONSTANTS
    DayHours,       \* hours of a day
    BufferHours,    \* uptimeHourlyBuffer: hours that are certainly not merged
    RetentionHours, \* uptimeRetention: hours an uptime may be asked for
    CleanUpHours,   \* uptimeAgeCleanUpThreshold: age of an entry that starts a clean up
    MergeEntries    \* uptimeTotalEntriesMergeThreshold: number of entries that starts a merge

ASSUME HoursAssumption ==
    /\ DayHours \in Nat \ {0} /\ MergeEntries \in Nat
    /\ BufferHours \in Nat /\ BufferHours >= DayHours
    /\ RetentionHours \in Nat /\ RetentionHours >= BufferHours + DayHours
    /\ CleanUpHours \in Nat /\ CleanUpHours >= RetentionHours

\* Executions in an hour, and how many of them succeeded
Executions == [total : Nat, successful : Nat]
NoExecution == [total |-> 0, successful |-> 0]
Plus(a, b) == [total |-> a.total + b.total, successful |-> a.successful + b.successful]

NoEntries == [hour \in {} |-> NoExecution]
DayOf(hour) == hour - (hour % DayHours)

\* The executions of the entries whose hour is in the set
TotalOf(entries, hours) == FoldFunctionOnSet(Plus, NoExecution, entries, hours \cap DOMAIN entries)

\* What a query of the last hours sums up in the SQL store: the entries whose hour starts within the period
LastHours(entries, now, hours) == TotalOf(entries, (now - hours + 1)..now)

\* The same in the store in memory, which truncates the start of the period to its hour and counts this hour, too
LastHoursInMemory(entries, now, hours) == TotalOf(entries, (now - hours)..now)

\* updateEndpointUptime: the upsert adds to the entry of the hour
WithExecution(entries, hour, success) ==
    LET execution == [total |-> 1, successful |-> IF success THEN 1 ELSE 0]
        before == IF hour \in DOMAIN entries THEN entries[hour] ELSE NoExecution IN
    [h \in DOMAIN entries \cup {hour} |-> IF h = hour THEN Plus(before, execution) ELSE entries[h]]

Older(entries, hour) == {h \in DOMAIN entries : h < hour}

\* Mutant: only the hours before now are left alone, not the buffer
MergeLimitWithoutBuffer(now) == now

\* The first hour that is not merged: the start of the day of now - uptimeHourlyBuffer
MergeLimit(now) == DayOf(now - BufferHours)

\* Mutant: the merged hours are not deleted
MergedKeepingHours(entries, now) ==
    LET merged == {h \in Older(entries, MergeLimit(now)) : h > now - RetentionHours}
        days == {DayOf(h) : h \in merged} IN
    [h \in DOMAIN entries \cup days |->
        IF h \in days THEN TotalOf(entries, {m \in merged : DayOf(m) = h}) ELSE entries[h]]

\* mergeHourlyUptimeEntriesOlderThanMergeThresholdIntoDailyUptimeEntries: every entry before the limit is deleted, and
\* those within the retention come back as one entry at the start of their day
Merged(entries, now) ==
    LET old == Older(entries, MergeLimit(now))
        merged == {h \in old : h > now - RetentionHours}
        days == {DayOf(h) : h \in merged} IN
    [h \in (DOMAIN entries \ old) \cup days |->
        IF h \in days THEN TotalOf(entries, {m \in merged : DayOf(m) = h}) ELSE entries[h]]

IsOutdated(entries, now) == \E h \in DOMAIN entries : now - h >= CleanUpHours

\* deleteOldUptimeEntries
CleanedUp(entries, now) ==
    IF IsOutdated(entries, now)
      THEN Restrict(entries, {h \in DOMAIN entries : h > now - (RetentionHours + 1)})
      ELSE entries

\* What insertEndpointResult does to the entries of the endpoint when a statement fails, which is logged and nothing
\* else: the upsert, the count or the deletion of the merge, the insertion of its days, which leaves at worst none of
\* them, or the age or the deletion of the clean up.
EntriesAfter(entries, now, success, failed) ==
    LET added == IF failed = "upsert" THEN entries ELSE WithExecution(entries, now, success)
        merges == Cardinality(DOMAIN added) >= MergeEntries
        merged == CASE failed = "day" /\ merges -> Restrict(added, DOMAIN added \ Older(added, MergeLimit(now)))
                    [] failed # "day" /\ failed # "merge" /\ merges -> Merged(added, now)
                    [] OTHER -> added IN
    IF failed = "cleanUp" THEN merged ELSE CleanedUp(merged, now)

\* Mutant: the clean up removes the hour in which the retention begins
HourlyAfterCuttingEarly(entries, now, success) ==
    LET added == WithExecution(entries, now, success) IN
    IF Cardinality(DOMAIN added) > CleanUpHours
      THEN Restrict(added, {h \in DOMAIN added : h > now - RetentionHours})
      ELSE added

\* The store in memory keeps the hours, until they are more than the clean up threshold
HourlyAfter(entries, now, success) ==
    LET added == WithExecution(entries, now, success) IN
    IF Cardinality(DOMAIN added) > CleanUpHours
      THEN Restrict(added, {h \in DOMAIN added : h > now - (RetentionHours + 1)})
      ELSE added

\* Mutant: the clean up removes an hour that is still shown
BucketsAfterCuttingEarly(buckets, now, hour, success, cleanUp, retention) ==
    LET added == WithExecution(buckets, hour, success) IN
    IF cleanUp THEN Restrict(added, {h \in DOMAIN added : h > now - (retention - 1)}) ELSE added

\* The buckets of the response time chart count the results of an hour. addResponseTimeBuckets and
\* upsertResponseTimeBuckets remove the old ones when a clean up is due.
BucketsAfter(buckets, now, hour, success, cleanUp, retention) ==
    LET added == WithExecution(buckets, hour, success) IN
    IF cleanUp THEN Restrict(added, {h \in DOMAIN added : h > now - (retention + 1)}) ELSE added

=============================================================================
