-------------------------------- MODULE Pushes --------------------------------
(***************************************************************************)
(* One external endpoint: the pushes it receives, the heartbeat that       *)
(* watches for missing pushes, and the retries that turn its first         *)
(* failures into pending results.                                          *)
(*                                                                         *)
(* The endpoint is defined in the configuration file, through the          *)
(* administration, or in both: it is then in conflict and the one of the   *)
(* file is monitored.  The time of the last push and the retries used are  *)
(* kept by key, across reloads, until the key is forgotten.  The heartbeat *)
(* holds the time of the last push by reference.  Whoever stops it waits   *)
(* for a limited time, and a reload waits for the requests likewise: both  *)
(* may be left behind with a result that waits for the lock of the key.    *)
(***************************************************************************)
EXTENDS Naturals

CONSTANTS
    Pushers,      \* the requests that push results
    Interval,     \* heartbeat.interval, in ticks of the clock
    Retries,      \* heartbeat.retries
    None          \* no time of a last push, nobody

ASSUME PushesAssumption ==
    /\ Interval \in Nat \ {0} /\ Retries \in Nat
    /\ None \notin Pushers \cup {"heartbeat", "leftover"} \cup Nat
    /\ "heartbeat" \notin Pushers /\ "leftover" \notin Pushers

\* The times of the last push: the one in the map and the one the heartbeat refers to
Times == 1..2
\* Who processes results: the requests, the heartbeat, and one heartbeat that was left behind. The bound on those is one.
Actors == Pushers \cup {"heartbeat", "leftover"}
Kinds == {"up", "down", "pending"}

VARIABLES
    inConfig, managed, \* where the endpoint is defined
    cycle,        \* running, or a reload: stopping, loaded
    change,       \* the change of the administration in progress: none, editing or deleting
    lastPushes,   \* the time the map has for the key
    age,          \* how long ago each of the times is, Interval for at least Interval
    used,         \* retriesUsed of the key
    beat,         \* the goroutine of the heartbeat: where it is, its last push and its ticker
    pc,           \* where an actor is in the processing of its result
    result,       \* the result an actor processes: its kind, whether it is processed in a maintenance window
    fallsBack,    \* the pushes whose target is an endpoint of the configuration file
    stopped,      \* the pushes whose target was stopped since they found it
    holder,       \* who holds the lock of the key
    maintenance,  \* whether a maintenance window is open
    \* What an observer of the results knows
    silence,      \* how long ago the last push was accepted, or the key used first, up to Interval
    orphaned,     \* whether the key was forgotten under a heartbeat that goes on
    converted,    \* the failures stored as pending results since the last success stored, until one is lost
    lost,         \* whether a result could not be stored since then, or the retries were forgotten
    stray         \* whether the key is not defined, and one left behind processed a result since it was forgotten

definition == <<inConfig, managed>>
memory == <<lastPushes, age, used>>
processing == <<pc, result, fallsBack, stopped, holder>>
observed == <<silence, orphaned, converted, lost, stray>>
vars == <<definition, cycle, change, memory, beat, processing, maintenance, observed>>

NoBeat == [at |-> "off", last |-> None, elapsed |-> 0, tick |-> FALSE, cancelled |-> FALSE]
NewBeat == [NoBeat EXCEPT !.at = "starting"]

TypeOK ==
    /\ inConfig \in BOOLEAN /\ managed \in BOOLEAN /\ maintenance \in BOOLEAN
    /\ cycle \in {"running", "stopping", "loaded"} /\ change \in {"none", "editing", "deleting"}
    /\ lastPushes \in Times \cup {None} /\ age \in [Times -> 0..Interval] /\ used \in 0..Retries
    /\ beat \in [at : {"off", "starting", "waiting", "looking", "recording"}, last : Times \cup {None},
                 elapsed : 0..(Interval - 1), tick : BOOLEAN, cancelled : BOOLEAN]
    /\ beat.at \in {"waiting", "looking", "recording"} <=> beat.last # None
    /\ pc \in [Actors -> {"idle", "locking", "inserting", "finishing"}]
    /\ pc["heartbeat"] # "idle" <=> beat.at = "recording"
    /\ result \in [Actors -> [kind : Kinds, failed : BOOLEAN, maintained : BOOLEAN]]
    /\ fallsBack \subseteq Pushers /\ stopped \subseteq Pushers /\ holder \in Actors \cup {None}
    /\ \A a \in Actors : pc[a] \in {"inserting", "finishing"} <=> holder = a
    /\ silence \in 0..Interval /\ orphaned \in BOOLEAN /\ lost \in BOOLEAN /\ stray \in BOOLEAN
    /\ converted \in 0..(Retries + 1)

NoResult == [kind |-> "up", failed |-> FALSE, maintained |-> FALSE]

\* The start of the application with the endpoint in the configuration file, managed, or not defined
Init ==
    /\ inConfig \in BOOLEAN /\ managed \in BOOLEAN
    /\ cycle = "running" /\ change = "none"
    /\ lastPushes = None /\ age = [t \in Times |-> 0] /\ used = 0
    /\ beat = IF inConfig \/ managed THEN NewBeat ELSE NoBeat
    /\ pc = [a \in Actors |-> "idle"] /\ result = [a \in Actors |-> NoResult]
    /\ fallsBack = {} /\ stopped = {} /\ holder = None /\ maintenance = FALSE
    /\ silence = 0 /\ orphaned = FALSE /\ converted = 0 /\ lost = FALSE /\ stray = FALSE

-----------------------------------------------------------------------------
(* Time *)

Older(n) == IF n = Interval THEN n ELSE n + 1

\* A ticker keeps one tick for a goroutine that is late. After the cancellation a tick finds no unit of the semaphore
\* (Acquire looks at the context first), and leads to nothing.
Ticked(b) ==
    IF b.at \in {"off", "starting"} \/ b.cancelled THEN b
    ELSE [b EXCEPT !.elapsed = (@ + 1) % Interval, !.tick = @ \/ b.elapsed + 1 = Interval]

Elapse ==
    /\ age' = [t \in Times |-> Older(age[t])] /\ silence' = Older(silence)
    /\ beat' = Ticked(beat)
    /\ UNCHANGED <<definition, cycle, change, lastPushes, used, processing, maintenance, orphaned, converted, lost, stray>>

ToggleMaintenance ==
    /\ maintenance' = ~maintenance
    /\ UNCHANGED <<definition, cycle, change, memory, beat, processing, observed>>

\* lastPush: the time of the key, which starts now when the key is used first. Nobody refers to the other one.
FirstUse == lastPushes = None
Time == IF FirstUse THEN CHOOSE t \in Times : t # beat.last ELSE lastPushes

-----------------------------------------------------------------------------
(* The processing of a result, with the lock of the key held: processExternalEndpointResult *)

\* Mutant: one retry more
RetriedOnceMore(r) == r.kind = "down" /\ ~r.maintained /\ used <= Retries
\* applyRetries: the failure becomes a pending result
Retried(r) == r.kind = "down" /\ ~r.maintained /\ used < Retries

\* Mutant: a success does not reset the retries
UsedKept(r) == IF Retried(r) THEN used + 1 ELSE used
\* Mutant: a pending push resets the retries
UsedResetByPending(r) ==
    IF r.kind \in {"up", "pending"} THEN 0 ELSE IF Retried(r) THEN used + 1 ELSE used
\* applyRetries: the retries used, before the result is stored
UsedAfter(r) == IF r.kind = "up" THEN 0 ELSE IF Retried(r) THEN used + 1 ELSE used

Undefined == ~inConfig /\ ~managed

\* A heartbeat past its timer, and a request with the endpoint of a former configuration, look at nothing any more.
LeftBehind(a) == a = "leftover" \/ a \in fallsBack

\* The lock is taken and the retries applied.
Retry(a) ==
    /\ holder = None /\ holder' = a
    /\ pc' = [pc EXCEPT ![a] = "inserting"]
    /\ LET r == [result[a] EXCEPT !.maintained = maintenance] IN
        /\ used' = UsedAfter(r)
        /\ result' = [result EXCEPT ![a] = IF Retried(r) THEN [r EXCEPT !.kind = "pending", !.failed = TRUE] ELSE r]
    /\ stray' = (stray \/ (Undefined /\ LeftBehind(a)))
    /\ UNCHANGED <<definition, cycle, change, lastPushes, age, beat, fallsBack, stopped, maintenance>>
    /\ UNCHANGED <<silence, orphaned, converted, lost>>

\* InsertEndpointResult succeeds, and the result is published.
Insert(a) ==
    /\ pc[a] = "inserting"
    /\ pc' = [pc EXCEPT ![a] = "finishing"]
    /\ converted' = IF result[a].kind = "up" THEN 0
                    ELSE IF result[a].failed /\ ~lost /\ converted <= Retries THEN converted + 1 ELSE converted
    /\ lost' = (lost /\ result[a].kind # "up")
    /\ UNCHANGED <<definition, cycle, change, memory, beat, result, fallsBack, stopped, holder, maintenance>>
    /\ UNCHANGED <<silence, orphaned, stray>>

Released(a) ==
    /\ pc' = [pc EXCEPT ![a] = "idle"] /\ holder' = None
    /\ result' = [result EXCEPT ![a] = NoResult]
    /\ fallsBack' = fallsBack \ {a} /\ stopped' = stopped \ {a}
    /\ beat' = IF a = "heartbeat" THEN [beat EXCEPT !.at = "waiting"] ELSE beat

\* Mutant: the lock is kept when the storage fails
InsertFailsLocked(a) ==
    /\ pc[a] = "inserting"
    /\ pc' = [pc EXCEPT ![a] = "idle"] /\ lost' = TRUE /\ converted' = 0
    /\ beat' = IF a = "heartbeat" THEN [beat EXCEPT !.at = "waiting"] ELSE beat
    /\ UNCHANGED <<definition, cycle, change, memory, result, fallsBack, stopped, holder, maintenance>>
    /\ UNCHANGED <<silence, orphaned, stray>>

\* InsertEndpointResult fails: nothing else is done, and the retries stay as they are.
InsertFails(a) ==
    /\ pc[a] = "inserting"
    /\ Released(a)
    /\ lost' = TRUE /\ converted' = 0
    /\ UNCHANGED <<definition, cycle, change, memory, maintenance, silence, orphaned, stray>>

\* Mutant: the result of the heartbeat restarts the interval like a push
RestartsAlways(a) == TRUE
\* Mutant: only a push that reports a success restarts the interval
RestartsOnSuccess(a) == a \in Pushers /\ result[a].kind = "up"
\* A push restarts the interval of the heartbeat
Restarts(a) == a \in Pushers

\* The time of the push is kept, and the alerts are handled (see Alerting) unless the result is pending or maintained.
Finish(a) ==
    /\ pc[a] = "finishing"
    /\ Released(a)
    /\ IF Restarts(a) THEN lastPushes' = Time /\ age' = [age EXCEPT ![Time] = 0]
                      ELSE UNCHANGED <<lastPushes, age>>
    /\ silence' = IF a \in Pushers THEN 0 ELSE silence
    /\ UNCHANGED <<definition, cycle, change, used, maintenance, orphaned, converted, lost, stray>>

Alerts(a) == pc[a] = "finishing" /\ result[a].kind # "pending" /\ ~result[a].maintained

-----------------------------------------------------------------------------
(* A push: pushHandler and SubmitEndpointResult *)

Monitored == beat.at # "off" /\ ~beat.cancelled

\* The target is in the registry, or an external endpoint of the configuration file.
Push(p, kind) ==
    /\ pc[p] = "idle" /\ cycle # "loaded" /\ (inConfig \/ (managed /\ Monitored))
    /\ pc' = [pc EXCEPT ![p] = "locking"]
    /\ result' = [result EXCEPT ![p].kind = kind]
    /\ fallsBack' = IF inConfig THEN fallsBack \cup {p} ELSE fallsBack
    /\ UNCHANGED <<definition, cycle, change, memory, beat, stopped, holder, maintenance, observed>>

\* Mutant: a push that waited for the lock is processed although its endpoint was stopped
AcceptsAnyway(p) == TRUE
\* The context of the entry that was found is looked at with the lock held.
Accepts(p) == p \notin stopped \/ p \in fallsBack

Process(p) == pc[p] = "locking" /\ Accepts(p) /\ Retry(p)

Reject(p) ==
    /\ pc[p] = "locking" /\ holder = None /\ ~Accepts(p)
    /\ pc' = [pc EXCEPT ![p] = "idle"] /\ result' = [result EXCEPT ![p] = NoResult] /\ stopped' = stopped \ {p}
    /\ UNCHANGED <<definition, cycle, change, memory, beat, fallsBack, holder, maintenance, observed>>

-----------------------------------------------------------------------------
(* The heartbeat: monitorExternalEndpointHeartbeat and executeExternalEndpointHeartbeat *)

\* It refers to the time of the last push from its start, even when its context is cancelled already.
BeginHeartbeat ==
    /\ beat.at = "starting"
    /\ beat' = [beat EXCEPT !.at = "waiting", !.last = Time]
    /\ lastPushes' = Time
    /\ IF FirstUse THEN age' = [age EXCEPT ![Time] = 0] /\ silence' = 0 ELSE UNCHANGED <<age, silence>>
    /\ UNCHANGED <<definition, cycle, change, used, processing, maintenance, orphaned, converted, lost, stray>>

BeatStep == UNCHANGED <<definition, cycle, change, memory, fallsBack, stopped, holder, maintenance, observed>>

\* Without a connection the tick is dropped, whatever the last push.
NoConnectivity ==
    /\ beat.at = "waiting" /\ beat.tick
    /\ beat' = [beat EXCEPT !.tick = FALSE]
    /\ UNCHANGED <<pc, result>> /\ BeatStep

\* A tick, a unit of the semaphore and a connection
Tick ==
    /\ beat.at = "waiting" /\ beat.tick
    /\ beat' = [beat EXCEPT !.at = "looking", !.tick = FALSE]
    /\ UNCHANGED <<pc, result>> /\ BeatStep

\* The last push is recent, or the heartbeat is stopped.
Skip ==
    /\ beat.at = "looking" /\ (age[beat.last] < Interval \/ beat.cancelled)
    /\ beat' = [beat EXCEPT !.at = "waiting"]
    /\ UNCHANGED <<pc, result>> /\ BeatStep

\* The push is missing: the failure waits for the lock.
Miss ==
    /\ beat.at = "looking" /\ age[beat.last] = Interval /\ ~beat.cancelled
    /\ beat' = [beat EXCEPT !.at = "recording"]
    /\ pc' = [pc EXCEPT !["heartbeat"] = "locking"]
    /\ result' = [result EXCEPT !["heartbeat"].kind = "down"]
    /\ BeatStep

RecordMiss(a) == a \notin Pushers /\ pc[a] = "locking" /\ Retry(a)

EndHeartbeat ==
    /\ beat.at = "waiting" /\ beat.cancelled
    /\ beat' = NoBeat /\ orphaned' = FALSE
    /\ UNCHANGED <<definition, cycle, change, memory, processing, maintenance, silence, converted, lost, stray>>

\* The timer of waitForExecution, or that of close, fires before the heartbeat ends: it goes on with its result, and has
\* nothing else to do then. One that has not recorded anything yet looks at its context, and just ends.
TimesOut ==
    /\ beat.at = "recording" /\ beat.cancelled /\ pc["leftover"] = "idle"
    /\ beat' = NoBeat /\ orphaned' = FALSE
    /\ pc' = [pc EXCEPT !["leftover"] = pc["heartbeat"], !["heartbeat"] = "idle"]
    /\ result' = [result EXCEPT !["leftover"] = result["heartbeat"], !["heartbeat"] = NoResult]
    /\ holder' = IF holder = "heartbeat" THEN "leftover" ELSE holder
    /\ UNCHANGED <<definition, cycle, change, memory, fallsBack, stopped, maintenance, silence, converted, lost, stray>>

-----------------------------------------------------------------------------
(* The administration, and the reload of the configuration *)

Cancelled(b) == IF b.at = "off" THEN b ELSE [b EXCEPT !.cancelled = TRUE, !.elapsed = 0, !.tick = FALSE]

\* The monitoring is stopped, and with it the target of the pushes that wait for the lock.
Stops ==
    /\ beat' = Cancelled(beat)
    /\ stopped' = stopped \cup {p \in Pushers \ fallsBack : pc[p] = "locking"}
    /\ UNCHANGED <<pc, result, fallsBack, holder>>

\* ForgetExternalEndpoint, with the lock of the key
Forget == lastPushes' = None /\ used' = 0

ChangeBegins == cycle = "running" /\ change = "none"

Create ==
    /\ ChangeBegins /\ ~inConfig /\ ~managed
    /\ managed' = TRUE /\ beat' = NewBeat /\ stray' = FALSE
    /\ UNCHANGED <<inConfig, cycle, change, memory, processing, maintenance, silence, orphaned, converted, lost>>

\* Update without a new name: the monitoring is stopped, then started again.
BeginEdit ==
    /\ ChangeBegins /\ managed /\ ~inConfig
    /\ change' = "editing" /\ Stops
    /\ UNCHANGED <<definition, cycle, memory, maintenance, observed>>

\* The heartbeat has ended or its timer fired, and StopEndpoint waits for the lock.
EndEdit ==
    /\ change = "editing" /\ beat.at = "off" /\ holder = None
    /\ change' = "none" /\ beat' = NewBeat
    /\ UNCHANGED <<definition, cycle, memory, processing, maintenance, observed>>

BeginDelete ==
    /\ ChangeBegins /\ managed /\ ~inConfig
    /\ change' = "deleting" /\ Stops
    /\ UNCHANGED <<definition, cycle, memory, maintenance, observed>>

\* Mutant: the key is forgotten without its lock, while a result is processed
EndDeleteAtOnce ==
    /\ change = "deleting" /\ beat.at = "off"
    /\ change' = "none" /\ managed' = FALSE
    /\ Forget /\ converted' = 0 /\ lost' = FALSE
    /\ UNCHANGED <<inConfig, cycle, age, beat, processing, maintenance, silence, orphaned, stray>>

EndDelete ==
    /\ change = "deleting" /\ beat.at = "off" /\ holder = None
    /\ change' = "none" /\ managed' = FALSE
    /\ Forget /\ converted' = 0 /\ lost' = FALSE
    /\ UNCHANGED <<inConfig, cycle, age, beat, processing, maintenance, silence, orphaned, stray>>

\* Delete, or Update with another name, of the endpoint in conflict: the monitoring is not touched, the key is forgotten.
DeleteInConflict ==
    /\ ChangeBegins /\ managed /\ inConfig /\ holder = None
    /\ managed' = FALSE
    /\ Forget /\ lost' = TRUE /\ converted' = 0
    /\ orphaned' = (beat.last # None)
    /\ UNCHANGED <<inConfig, cycle, change, age, beat, processing, maintenance, silence, stray>>

BeginReload ==
    /\ ChangeBegins
    /\ cycle' = "stopping" /\ Stops
    /\ UNCHANGED <<definition, change, memory, maintenance, observed>>

\* ForgetExternalEndpointsNotIn: only what is kept of a key is forgotten, with its lock.
Forgotten(config) == ~config /\ ~managed /\ (lastPushes # None \/ used # 0)

\* The heartbeat has ended or its timer fired, and so it is for the requests: one past the deadline of the server is left
\* behind, with the endpoint of the former configuration. The new configuration may have the endpoint or not.
Load(config) ==
    /\ cycle = "stopping" /\ beat.at = "off"
    /\ cycle' = "loaded" /\ inConfig' = config
    /\ IF Forgotten(config) THEN holder = None /\ Forget /\ converted' = 0 /\ lost' = FALSE
                            ELSE UNCHANGED <<lastPushes, used, converted, lost>>
    /\ stray' = (~config /\ ~managed /\ holder # None)
    /\ UNCHANGED <<managed, change, age, beat, processing, maintenance, silence, orphaned>>

EndReload ==
    /\ cycle = "loaded" /\ cycle' = "running"
    /\ beat' = IF inConfig \/ managed THEN NewBeat ELSE NoBeat
    /\ UNCHANGED <<definition, change, memory, processing, maintenance, observed>>

Heartbeat == BeginHeartbeat \/ NoConnectivity \/ Tick \/ Skip \/ Miss \/ EndHeartbeat
Administration == Create \/ BeginEdit \/ EndEdit \/ BeginDelete \/ EndDelete \/ DeleteInConflict

Next ==
    \/ Elapse \/ ToggleMaintenance
    \/ \E a \in Actors : RecordMiss(a) \/ Insert(a) \/ InsertFails(a) \/ Finish(a)
    \/ \E p \in Pushers : (\E kind \in Kinds : Push(p, kind)) \/ Process(p) \/ Reject(p)
    \/ Heartbeat \/ TimesOut
    \/ Administration
    \/ BeginReload \/ (\E config \in BOOLEAN : Load(config)) \/ EndReload

Spec == Init /\ [][Next]_vars

\* Time passes and goroutines run. The mutex of the key is handed over to those who wait for it, and neither the storage nor
\* the connection fails for ever: a tick finds a connection again and again.
Fairness ==
    /\ WF_vars(Elapse) /\ WF_vars(Heartbeat) /\ SF_vars(Tick) /\ SF_vars(RecordMiss("heartbeat"))
    /\ SF_vars(Insert("heartbeat")) /\ \A a \in Actors : WF_vars(Insert(a) \/ InsertFails(a) \/ Finish(a))

FairSpec == Spec /\ Fairness

-----------------------------------------------------------------------------
\* The heartbeat finds a push missing only when no push was accepted for a whole interval, however its checks, the pushes,
\* the failed insertions, the reloads and the changes are interleaved: the pointer it took at its start is the one that the
\* pushes restart. The exception is the deletion of a managed endpoint in conflict, see OnlySilenceIsMissed.
MissesAreReal == [][beat.at = "looking" /\ beat'.at = "recording" => silence = Interval \/ orphaned]_vars

\* A check of the heartbeat that has a connection finds nothing missing only if a push was accepted within the interval:
\* the failures that the heartbeat records itself do not count as news of the endpoint.
SilenceIsMissed == [][beat.at = "looking" /\ beat'.at = "waiting" => silence < Interval \/ beat.cancelled]_vars

\* monitorExternalEndpointHeartbeat records a failure "for every full heartbeat interval without an accepted push", and
\* nothing else makes a push missing.
OnlySilenceIsMissed == [][beat.at = "looking" /\ beat'.at = "recording" => silence = Interval]_vars

\* A failure reaches the alerts only after all the retries: since the last success, as many failures were stored as pending
\* as there are retries, unless one of the results could not be stored.
AlertsAfterRetries == \A a \in Actors : Alerts(a) /\ result[a].kind = "down" => converted = Retries \/ lost

\* Between two successes no more failures are hidden as pending results than there are retries, across reloads, edits and
\* maintenance windows, unless the storage lost one of the results.
RetriesBounded == converted <= Retries \/ lost

\* A key that is not defined any more leaves nothing behind for the next endpoint with that key: a push that was waiting
\* for the lock when the endpoint was stopped does not bring its state back. Only those that nobody waits for any more do:
\* a heartbeat whose timer fired while it waited for the lock consumes a retry of the forgotten key, and a request past
\* the deadline of the server, with the endpoint of the former configuration, restarts its time as well.
NothingLeftBehind ==
    Undefined => stray \/ (lastPushes = None /\ used = 0 /\ \A a \in Actors : pc[a] \in {"idle", "locking"})

\* An endpoint that stays monitored without a push, with a connection now and then, has failures recorded again and again.
SilenceIsReported == []<>(~Monitored \/ silence < Interval \/ pc["heartbeat"] = "finishing")

\* Failures are hidden as pending results as often as the retries say, and then reach the alerts.
RetriesHonoured == RetriesBounded /\ AlertsAfterRetries

\* The heartbeat sees silence whenever it has a connection, and nothing else, and keeps reporting it
\* (monitorExternalEndpointHeartbeat). Without a connection it records nothing, however long no push is accepted.
HeartbeatSeesSilence == MissesAreReal /\ SilenceIsMissed /\ SilenceIsReported
=============================================================================
