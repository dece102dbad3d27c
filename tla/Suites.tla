-------------------------------- MODULE Suites --------------------------------
(***************************************************************************)
(* A suite: endpoints executed one after the other by a goroutine that the *)
(* registry does not know.  A cycle has its own context, its own semaphore *)
(* and its own object of the suite; a goroutine reads the first two from   *)
(* the variables of the package, where those of the next cycle may be: it  *)
(* reads the semaphore for Acquire, and again for the deferred Release.    *)
(***************************************************************************)
EXTENDS Naturals, Sequences, FiniteSets

CONSTANTS
    Length,        \* how many endpoints the suite has, in the order of the file
    AlwaysRun,     \* the ones that are executed although another one failed
    Concurrency,   \* weight of the semaphore of a cycle
    RestoredRows,  \* the sets of endpoints whose alert a cycle may find persisted
    MaxCycles, MaxExecutions, MaxMishaps
        \* bounds: cycles, executions after the first of each cycle, and in the executions in progress the timeouts, and the
        \* endpoints with a result under maintenance or a notification not sent

Members == 1..Length
Cycles == 1..MaxCycles

ASSUME SuitesAssumption ==
    /\ Length \in Nat \ {0} /\ AlwaysRun \subseteq Members \* ErrSuiteWithNoEndpoints
    /\ RestoredRows \subseteq SUBSET Members
    /\ Concurrency \in Nat \ {0} /\ MaxCycles \in Nat \ {0} /\ MaxExecutions \in Nat /\ MaxMishaps \in Nat

VARIABLES
    cycle,       \* whose ctx and monitoringSemaphore the package has
    restored,    \* whether the storage is initialized for the next cycle
    cancelled,   \* the cycles whose context is cancelled
    suitePc,     \* of the goroutine of each cycle
    semaphore,   \* the cycle whose semaphore a goroutine waits for or has a slot of
    releases,    \* the cycle whose semaphore the deferred Release of a goroutine is called on
    used,        \* the weight of each semaphore that is taken
    others,      \* the slots of each semaphore that endpoints hold
    stray,       \* observer: the slots each semaphore was given back although they were taken from another one
    position,    \* of the endpoint that is executed or alerted next
    results,     \* EndpointResults of the execution
    suiteError,  \* whether the result has the error of the timeout
    success,     \* Success of the result
    flags,       \* Triggered, by object and endpoint
    muted,       \* the endpoints whose result of the execution came in a maintenance window
    unsent,      \* the endpoints whose alert the execution would have triggered, but for the notification
    executions   \* how many followed a tick

execution == <<position, results, suiteError, success, muted, unsent>>
slots == <<releases, used, others, stray>>
suiteVars == <<cycle, restored, cancelled, suitePc, semaphore, slots, execution, flags, executions>>

SuiteStages == {"unborn", "started", "acquiring", "acquired", "checking", "executing", "alerting", "waiting", "ended"}
Deferred == {"checking", "executing", "alerting"}  \* the Release is deferred
Holding == Deferred \cup {"acquired"}
EndpointResult == [of : Members, ok : BOOLEAN]

AtMost(S, n) == UNION {[1..k -> S] : k \in 0..n}

SuitesTypeOK ==
    /\ cycle \in Cycles /\ restored \in BOOLEAN /\ cancelled \subseteq Cycles
    /\ suitePc \in [Cycles -> SuiteStages] /\ semaphore \in [Cycles -> Cycles]
    /\ releases \in [Cycles -> Cycles] /\ used \in [Cycles -> 0..Concurrency]
    /\ others \in [Cycles -> Nat] /\ stray \in [Cycles -> Nat]
    /\ position \in [Cycles -> 1..Length + 1]
    /\ results \in [Cycles -> AtMost(EndpointResult, Length)] /\ suiteError \in [Cycles -> BOOLEAN] /\ success \in [Cycles -> BOOLEAN]
    /\ flags \in [Cycles -> [Members -> BOOLEAN]]
    /\ executions \in 0..MaxExecutions
    /\ muted \in [Cycles -> SUBSET Members] /\ unsent \in [Cycles -> SUBSET Members]

\* Monitor of the first cycle, with nothing persisted
SuitesInit ==
    /\ cycle = 1 /\ restored = FALSE /\ cancelled = {}
    /\ suitePc = [c \in Cycles |-> IF c = 1 THEN "started" ELSE "unborn"]
    /\ semaphore = [c \in Cycles |-> c] /\ releases = [c \in Cycles |-> c]
    /\ used = [c \in Cycles |-> 0] /\ others = [c \in Cycles |-> 0] /\ stray = [c \in Cycles |-> 0]
    /\ position = [c \in Cycles |-> 1]
    /\ results = [c \in Cycles |-> <<>>] /\ suiteError = [c \in Cycles |-> FALSE] /\ success = [c \in Cycles |-> TRUE]
    /\ flags = [c \in Cycles |-> [e \in Members |-> FALSE]]
    /\ executions = 0
    /\ muted = [c \in Cycles |-> {}] /\ unsent = [c \in Cycles |-> {}]

-----------------------------------------------------------------------------
(* monitorSuite and executeSuite, in the goroutine g *)

Holders(s) == {g \in Cycles : suitePc[g] \in Holding /\ semaphore[g] = s}

Goes(g, stage) == suitePc' = [suitePc EXCEPT ![g] = stage]

NewExecution(g) ==
    /\ position' = [position EXCEPT ![g] = 1]
    /\ results' = [results EXCEPT ![g] = <<>>] /\ suiteError' = [suiteError EXCEPT ![g] = FALSE]
    /\ success' = [success EXCEPT ![g] = TRUE]
    /\ muted' = [muted EXCEPT ![g] = {}] /\ unsent' = [unsent EXCEPT ![g] = {}]

\* An execution begins, at once or by the ticker, which the select may take although the context is cancelled: Acquire is
\* called on the semaphore of the package, with the context of the package.
CallAcquire(g) ==
    /\ \/ suitePc[g] = "started" /\ executions' = executions
       \/ suitePc[g] = "waiting" /\ executions < MaxExecutions /\ executions' = executions + 1
    /\ Goes(g, "acquiring")
    /\ semaphore' = [semaphore EXCEPT ![g] = cycle]
    /\ UNCHANGED <<cycle, restored, cancelled, slots, execution, flags>>

\* Mutant: the semaphore has a slot more
FreeOffByOne(s) == used[s] <= Concurrency
SlotFree(s) == used[s] < Concurrency

\* Acquire succeeds, which it does not once its context is done.
TakeSlot(g) ==
    LET s == semaphore[g] IN
    /\ suitePc[g] = "acquiring" /\ s \notin cancelled /\ SlotFree(s)
    /\ Goes(g, "acquired")
    /\ used' = [used EXCEPT ![s] = @ + 1]
    /\ UNCHANGED <<cycle, restored, cancelled, semaphore, releases, others, stray, execution, flags, executions>>

\* Acquire fails: its context is cancelled
GiveUpSlot(g) ==
    /\ suitePc[g] = "acquiring" /\ semaphore[g] \in cancelled
    /\ Goes(g, "waiting") /\ semaphore' = [semaphore EXCEPT ![g] = g]
    /\ UNCHANGED <<cycle, restored, cancelled, slots, execution, flags, executions>>

\* Mutant: the semaphore of the goroutine's own cycle, as if Monitor passed it like the context
OwnSemaphore(g) == g
Deferring(g) == cycle

\* The defer evaluates monitoringSemaphore again: Monitor may have replaced it.
DeferRelease(g) ==
    /\ suitePc[g] = "acquired"
    /\ Goes(g, "checking")
    /\ releases' = [releases EXCEPT ![g] = Deferring(g)]
    /\ UNCHANGED <<cycle, restored, cancelled, semaphore, used, others, stray, execution, flags, executions>>

\* The deferred Release.  The goroutine has no semaphore any more, which its own number stands for.
GiveSlotBack(g) ==
    LET s == releases[g] IN
    /\ used[s] > 0
    /\ used' = [used EXCEPT ![s] = @ - 1]
    /\ stray' = [stray EXCEPT ![s] = IF s = semaphore[g] THEN @ ELSE @ + 1]
    /\ releases' = [releases EXCEPT ![g] = g] /\ semaphore' = [semaphore EXCEPT ![g] = g]
    /\ UNCHANGED others

\* The connectivity checker says that there is no connection: until the next tick
NoConnectivity(g) ==
    /\ suitePc[g] = "checking"
    /\ Goes(g, "waiting") /\ GiveSlotBack(g)
    /\ UNCHANGED <<cycle, restored, cancelled, execution, flags, executions>>

BeginExecution(g) ==
    /\ suitePc[g] = "checking"
    /\ Goes(g, "executing")
    /\ UNCHANGED <<cycle, restored, cancelled, semaphore, slots, execution, flags, executions>>

MayGoWrong ==
    Cardinality({h \in Cycles : suiteError[h]}) + Cardinality(UNION {muted[h] \cup unsent[h] : h \in Cycles}) < MaxMishaps

HasFailed(g) == \E i \in DOMAIN results[g] : ~results[g][i].ok

\* Mutant: the endpoints after a failure are executed all the same
NeverSkipped(g, e) == FALSE
Skipped(g, e) == HasFailed(g) /\ e \notin AlwaysRun

Skip(g) ==
    /\ suitePc[g] = "executing" /\ position[g] <= Length /\ Skipped(g, position[g])
    /\ position' = [position EXCEPT ![g] = @ + 1]
    /\ UNCHANGED <<cycle, restored, cancelled, suitePc, semaphore, slots, results, suiteError, success, muted, unsent,
                   flags, executions>>

\* An endpoint is evaluated.  The first one after the timeout reads the channel of the timer and adds the error of the
\* suite; its break leaves the select, not the loop, so that this endpoint and the ones after it are executed.
Evaluate(g) ==
    LET e == position[g] IN
    /\ suitePc[g] = "executing" /\ e <= Length /\ ~Skipped(g, e)
    /\ position' = [position EXCEPT ![g] = @ + 1]
    /\ \/ suiteError' = suiteError
       \/ MayGoWrong /\ suiteError' = [suiteError EXCEPT ![g] = TRUE]
    /\ \E ok \in BOOLEAN : results' = [results EXCEPT ![g] = Append(@, [of |-> e, ok |-> ok])]
    /\ UNCHANGED <<cycle, restored, cancelled, suitePc, semaphore, slots, success, muted, unsent, flags, executions>>

\* Mutant: the error of the suite is forgotten
SuccessOfEndpoints(g) == ~HasFailed(g)
CalculateSuccess(g) == ~HasFailed(g) /\ ~suiteError[g]

\* The end of Execute, and UpdateSuiteStatus, whose error is only logged
StoreSuiteResult(g) ==
    /\ suitePc[g] = "executing" /\ position[g] > Length
    /\ Goes(g, "alerting")
    /\ success' = [success EXCEPT ![g] = CalculateSuccess(g)]
    /\ position' = [position EXCEPT ![g] = 1]
    /\ UNCHANGED <<cycle, restored, cancelled, semaphore, slots, results, suiteError, muted, unsent, flags, executions>>

\* The result an endpoint is alerted with: the one at its position among the results.
\* Mutant: the positions are counted from the end
ResultFromTheEnd(g, e) == results[g][Len(results[g]) + 1 - e]
ResultFor(g, e) == results[g][e]

\* HandleAlerting with thresholds of one.  A failure triggers the alert unless the notification fails or has no provider;
\* a success resolves it.  What it writes to the rows of triggered alerts is the subject of Alerting.
Resolve(g, e) ==
    /\ ResultFor(g, e).ok
    /\ flags' = [flags EXCEPT ![g][e] = FALSE]
    /\ UNCHANGED unsent
Trigger(g, e) ==
    /\ ~ResultFor(g, e).ok
    /\ flags' = [flags EXCEPT ![g][e] = TRUE]
    /\ UNCHANGED unsent
FailToTrigger(g, e) ==
    /\ ~ResultFor(g, e).ok /\ ~flags[g][e] /\ MayGoWrong
    /\ unsent' = [unsent EXCEPT ![g] = @ \cup {e}]
    /\ UNCHANGED flags

AlertMember(g) ==
    LET e == position[g] IN
    /\ suitePc[g] = "alerting" /\ e <= Len(results[g])
    /\ position' = [position EXCEPT ![g] = @ + 1]
    /\ Resolve(g, e) \/ Trigger(g, e) \/ FailToTrigger(g, e)
    /\ UNCHANGED <<cycle, restored, cancelled, suitePc, semaphore, slots, results, suiteError, success, muted,
                   executions>>

\* The endpoint or the installation is under maintenance
UnderMaintenance(g) ==
    LET e == position[g] IN
    /\ suitePc[g] = "alerting" /\ e <= Len(results[g])
    /\ MayGoWrong
    /\ position' = [position EXCEPT ![g] = @ + 1]
    /\ muted' = [muted EXCEPT ![g] = @ \cup {e}]
    /\ UNCHANGED <<cycle, restored, cancelled, suitePc, semaphore, slots, results, suiteError, success, unsent,
                   flags, executions>>

\* executeSuite returns.  The variables of the execution are gone.
Handled(g) == suitePc[g] = "alerting" /\ position[g] > Len(results[g])
ReleaseSlot(g) ==
    /\ Handled(g)
    /\ Goes(g, "waiting") /\ GiveSlotBack(g)
    /\ NewExecution(g)
    /\ UNCHANGED <<cycle, restored, cancelled, flags, executions>>

SuiteCancelled(g) ==
    /\ suitePc[g] = "waiting" /\ g \in cancelled
    /\ Goes(g, "ended")
    /\ UNCHANGED <<cycle, restored, cancelled, semaphore, slots, execution, flags, executions>>

-----------------------------------------------------------------------------
(* The rest of the application *)

\* Shutdown, which does not wait for the suites
CancelCycle ==
    /\ cycle \notin cancelled
    /\ cancelled' = cancelled \cup {cycle}
    /\ UNCHANGED <<cycle, restored, suitePc, semaphore, slots, execution, flags, executions>>

\* initializeStorage: RestorePersistedTriggeredAlerts gives the endpoints of the new configuration the
\* alerts that have a row.  Which have one is left open, as writing and deleting them may have failed.
RestoreSuiteAlerts ==
    /\ cycle \in cancelled /\ cycle < MaxCycles /\ ~restored
    /\ restored' = TRUE
    /\ \E rows \in RestoredRows : flags' = [flags EXCEPT ![cycle + 1] = [e \in Members |-> e \in rows]]
    /\ UNCHANGED <<cycle, cancelled, suitePc, semaphore, slots, execution, executions>>

\* Monitor: a context, a semaphore and a goroutine
MonitorSuites ==
    /\ restored
    /\ restored' = FALSE /\ cycle' = cycle + 1
    /\ suitePc' = [suitePc EXCEPT ![cycle + 1] = "started"]
    /\ UNCHANGED <<cancelled, semaphore, slots, execution, flags, executions>>

\* Endpoints take and release slots of the semaphore of the cycle.  They read the variable twice too, but Shutdown waits
\* for them, so that Monitor replaces it in between only if its timer fired; that case is left to the suites.
EndpointTakesSlot ==
    /\ cycle \notin cancelled /\ SlotFree(cycle)
    /\ used' = [used EXCEPT ![cycle] = @ + 1] /\ others' = [others EXCEPT ![cycle] = @ + 1]
    /\ UNCHANGED <<cycle, restored, cancelled, suitePc, semaphore, releases, stray, execution, flags, executions>>
EndpointReleasesSlot(s) ==
    /\ others[s] > 0 /\ used[s] > 0
    /\ used' = [used EXCEPT ![s] = @ - 1] /\ others' = [others EXCEPT ![s] = @ - 1]
    /\ UNCHANGED <<cycle, restored, cancelled, suitePc, semaphore, releases, stray, execution, flags, executions>>

\* Release panics if nothing of the semaphore is taken.  Nothing recovers it: the process is gone, and the next cycle is
\* that of another process.
Panic ==
    /\ \/ \E g \in Cycles : (suitePc[g] = "checking" \/ Handled(g)) /\ used[releases[g]] = 0
       \/ \E s \in Cycles : others[s] > 0 /\ used[s] = 0
    /\ suitePc' = [g \in Cycles |-> IF g <= cycle THEN "ended" ELSE "unborn"]
    /\ cancelled' = cancelled \cup {cycle} /\ restored' = FALSE
    /\ used' = [s \in Cycles |-> 0] /\ others' = [s \in Cycles |-> 0] /\ stray' = [s \in Cycles |-> 0]
    /\ position' = [g \in Cycles |-> 1] /\ results' = [g \in Cycles |-> <<>>]
    /\ suiteError' = [g \in Cycles |-> FALSE] /\ success' = [g \in Cycles |-> TRUE]
    /\ muted' = [g \in Cycles |-> {}] /\ unsent' = [g \in Cycles |-> {}]
    /\ semaphore' = [g \in Cycles |-> g] /\ releases' = [g \in Cycles |-> g]
    /\ UNCHANGED <<cycle, flags, executions>>

SuiteStep(g) ==
    \/ CallAcquire(g) \/ TakeSlot(g) \/ GiveUpSlot(g) \/ DeferRelease(g) \/ NoConnectivity(g) \/ BeginExecution(g)
    \/ Skip(g) \/ Evaluate(g) \/ StoreSuiteResult(g) \/ AlertMember(g) \/ UnderMaintenance(g)
    \/ ReleaseSlot(g) \/ SuiteCancelled(g)

SuitesNext ==
    \/ \E g \in Cycles : SuiteStep(g) \/ EndpointReleasesSlot(g)
    \/ CancelCycle \/ RestoreSuiteAlerts \/ MonitorSuites \/ EndpointTakesSlot \/ Panic

SuitesSpec == SuitesInit /\ [][SuitesNext]_suiteVars

-----------------------------------------------------------------------------
(* Properties *)

\* A semaphore has no more holders than its weight, but for the slots of former semaphores it was given (executeSuite
\* reads monitoringSemaphore a second time for the deferred Release, after Monitor may have replaced it).
SlotsBounded == \A s \in Cycles : Cardinality(Holders(s)) + others[s] <= Concurrency + stray[s]

\* The semaphore in use loses no slot: what is taken of it is what its holders have, less the slots it was given.
SlotsKept == used[cycle] + stray[cycle] = Cardinality(Holders(cycle)) + others[cycle]

\* It was given one slot at most by each goroutine of a former cycle: without a reload there is none, and no execution of
\* a suite that begins after the reload gives a slot to a semaphore it has none of.
StrayBounded == \A s \in Cycles : stray[s] < s

\* The result of a suite says what the execution was: the endpoints in their order, without those that come after a
\* failure and are not always-run, and a success if every endpoint succeeded and the timeout did not elapse.
ResultsTell ==
    \A g \in Cycles : suitePc[g] = "alerting" =>
        LET Failed(i) == ~results[g][i].ok
            Executed(e) == \E i \in DOMAIN results[g] : results[g][i].of = e
        IN
        /\ \A i, j \in DOMAIN results[g] : i < j => results[g][i].of < results[g][j].of
        /\ \A e \in Members : Executed(e) <=> e \in AlwaysRun \/ ~\E i \in DOMAIN results[g] : Failed(i) /\ results[g][i].of < e
        /\ success[g] <=> ~suiteError[g] /\ \A e \in Members : \E i \in DOMAIN results[g] : results[g][i].of = e /\ ~Failed(i)

\* Once the results are handled, the alert of an endpoint that comes before everything the execution skipped is triggered
\* exactly if its own result is a failure, unless its notification was not sent: as far as that, the positions of
\* executeSuite are those of Execute.
AlertedUntilSkipped ==
    \A g \in Cycles : Handled(g) =>
        \A i \in DOMAIN results[g] \ muted[g] :
            (\A j \in 1..i : \E k \in DOMAIN results[g] : results[g][k].of = j)
                => \E k \in DOMAIN results[g] :
                       results[g][k].of = i /\ (flags[g][i] <=> ~results[g][k].ok /\ i \notin unsent[g])

\* What must hold of suites while their executions overlap a reload: the accounts of the semaphores, what a stored result
\* tells and whose results the alerts follow.
SuitesConsistent ==
    SuitesTypeOK /\ SlotsBounded /\ SlotsKept /\ StrayBounded /\ ResultsTell /\ AlertedUntilSkipped

\* The alerts of a suite are those of its endpoints ("Configure alerts on individual endpoints within the suite instead",
\* docs/README.md): an execution triggers the alert of an endpoint only if that endpoint failed in it.
TriggeredByItsEndpoint ==
    [][\A g \in Cycles, e \in Members :
          suitePc[g] = "alerting" /\ ~flags[g][e] /\ flags'[g][e]
              => \E i \in DOMAIN results[g] : results[g][i].of = e /\ ~results[g][i].ok]_suiteVars
=============================================================================
