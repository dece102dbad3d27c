-------------------------- MODULE MonitoringProofs --------------------------
(***************************************************************************)
(* Theorems about the monitoring registry, for every number of keys,       *)
(* pushes, starts and cycles, whether or not the timers go off: the        *)
(* results of a key are processed one at a time, a key has one live        *)
(* monitor, a start that ends a change is not refused, nothing is recorded *)
(* once StopEndpoint returned for an endpoint that is checked, nor once    *)
(* Shutdown returned, except by those past their look at the context.      *)
(* Then about the health checks, for every endpoint and suite, whatever is *)
(* answered: a result is what the target answered, and nothing of an       *)
(* earlier execution is in it.                                             *)
(***************************************************************************)
EXTENDS Monitoring, HealthChecks, TLAPS

\* Where a goroutine and a request can be
StagesOK ==
    /\ \A e \in Entries : pc[e] \in EntryStages
    /\ \A p \in Pushes : pc[p] \in PushStages

\* An entry that was started has the key it is monitored for, looked up for, or changed for
EntriesKnown ==
    /\ \A e \in Entries : pc[e] # "unused" => keyOf[e] \in Keys
    /\ \A e \in cancelled \cup stopped : pc[e] # "unused"
    /\ \A k \in Keys : entryOf[k] # Free => pc[entryOf[k]] # "unused" /\ keyOf[entryOf[k]] = k
    /\ \A p \in Pushes : target[p] # Free => pc[target[p]] # "unused" /\ keyOf[target[p]] = wanted[p]

\* A push has a key until it is answered, and an entry until the lock is taken
PushesKnown ==
    \A p \in Pushes :
        /\ pc[p] # "idle" => wanted[p] \in Keys
        /\ pc[p] \in {"locking", "checking"} => target[p] \in Entries
        /\ pc[p] \in {"idle", "again"} => target[p] = Free

\* A stop in progress has an entry, which is cancelled once it is removed from the registry
ChangeKnown ==
    /\ change.stage # "none" => change.key \in Keys /\ change.entry \in Entries
    /\ change.stage # "none" => pc[change.entry] # "unused" /\ keyOf[change.entry] = change.key
    /\ change.stage \in {"waiting", "locking", "stopped"} => change.entry \in cancelled

\* Whoever processes a result holds the lock of its key, and no other
LocksHeld ==
    /\ \A e \in Entries : Processing(e) => holder[keyOf[e]] = e
    /\ \A p \in Pushes : Processing(p) => holder[wanted[p]] = p
    /\ \A k \in Keys : holder[k] \in Entries => keyOf[holder[k]] = k
    /\ \A k \in Keys : holder[k] \in Pushes => wanted[holder[k]] = k

\* Neither the goroutine nor a push is past its look at the context of an entry whose stop returned
StoppedIsQuiet ==
    /\ stopped \subseteq cancelled
    /\ \A e \in stopped : keyOf[e] \notin FallsBack
    /\ change.stage # "none" => change.key \notin FallsBack
    /\ \A e \in stopped : pc[e] \notin {"storing", "alerting"}
    /\ \A p \in Pushes : target[p] \in stopped => pc[p] \notin {"storing", "alerting"}

ControlInv == TypeOK /\ StagesOK /\ EntriesKnown /\ PushesKnown /\ ChangeKnown /\ LocksHeld

\* The names of entries, pushes and keys do not collide
LEMMA NamesDiffer ==
    /\ \A p \in Pushes, e \in Entries : p # e
    /\ Free \notin Entries /\ Free \notin Pushes /\ Free \notin Keys
    /\ \A e \in Entries : e \in Actors
    /\ \A p \in Pushes : p \in Actors
  BY ActorsAssumption, BoundsAssumption DEF Actors, Entries

\* Nothing is registered, pushed or changed at first.
LEMMA ControlInit == Init => ControlInv
  BY NamesDiffer, BoundsAssumption
  DEF Init, ControlInv, TypeOK, StagesOK, EntriesKnown, PushesKnown, ChangeKnown, LocksHeld, EntryStages, PushStages,
      NoChange, Nothing, Actors, Processing

\* Every step of a goroutine, of a push and of a change of the registry keeps ControlInv.
LEMMA ControlStep == ControlInv /\ [Next]_vars => ControlInv'
<1> USE NamesDiffer DEF ControlInv, TypeOK, StagesOK, EntriesKnown, PushesKnown, ChangeKnown, LocksHeld, Processing,
                        EntryStages, PushStages
<1>1. ASSUME ControlInv, NEW k \in Keys, NEW e \in Entries, StartInCycle(k, e) PROVE ControlInv'
  BY <1>1, BoundsAssumption DEF StartInCycle, StartEntry, MayStart, Unused, control, observed, requests,
     Nothing, Actors
<1>2. ASSUME ControlInv, NEW k \in Keys, NEW e \in Entries, StartNew(k, e) PROVE ControlInv'
  BY <1>2, BoundsAssumption DEF StartNew, StartEntry, MayStart, Unused, control, observed, requests, Nothing,
     Actors
<1>3. ASSUME ControlInv, NEW e \in Entries, StartAgain(e) PROVE ControlInv'
  BY <1>3, BoundsAssumption DEF StartAgain, StartEntry, MayStart, Unused, control, observed, requests, Nothing,
     NoChange, Actors
<1>4. ASSUME ControlInv, NEW e \in Entries, Acquire(e) PROVE ControlInv'
  BY <1>4 DEF Acquire, Move, GoroutineStep, Nothing, control, entries, requests, observed, Actors
<1>5. ASSUME ControlInv, NEW e \in Entries, Skip(e) PROVE ControlInv'
  BY <1>5 DEF Skip, Move, GoroutineStep, Nothing, control, entries, requests, observed, Actors
<1>6. ASSUME ControlInv, NEW e \in Entries, Evaluated(e) PROVE ControlInv'
  BY <1>6 DEF Evaluated, Move, GoroutineStep, Nothing, control, entries, requests, observed, Actors
<1>7. ASSUME ControlInv, NEW e \in Entries, LockEntry(e) PROVE ControlInv'
  <2> USE <1>7 DEF LockEntry, AfterLock, LockResults, Move, GoroutineStep, Nothing, control, entries, requests,
     observed
  <2>1. LocksHeld'
    BY DEF Actors
  <2>2. \A k \in Keys : /\ holder'[k] \in Actors \cup {Free}
                         /\ holder'[k] # Free => pc'[holder'[k]] \in {"checking", "storing", "alerting"}
    BY DEF Actors
  <2>3. TypeOK'
    BY <2>2
  <2>4. StagesOK' /\ EntriesKnown' /\ PushesKnown' /\ ChangeKnown'
    OBVIOUS
  <2> QED
    BY <2>1, <2>3, <2>4
<1>8. ASSUME ControlInv, NEW e \in Entries, Discard(e) PROVE ControlInv'
  <2> USE <1>8 DEF Discard, UnlockResults, Move, GoroutineStep, Nothing, control, entries, requests, observed
  <2>1. LocksHeld'
    BY DEF Actors
  <2>2. \A k \in Keys : /\ holder'[k] \in Actors \cup {Free}
                         /\ holder'[k] # Free => pc'[holder'[k]] \in {"checking", "storing", "alerting"}
    BY DEF Actors
  <2>3. TypeOK'
    BY <2>2
  <2>4. StagesOK' /\ EntriesKnown' /\ PushesKnown' /\ ChangeKnown'
    OBVIOUS
  <2> QED
    BY <2>1, <2>3, <2>4
<1>9. ASSUME ControlInv, NEW e \in Entries, Keep(e) PROVE ControlInv'
  BY <1>9 DEF Keep, Move, GoroutineStep, Nothing, control, entries, requests, observed, Actors
<1>10. ASSUME ControlInv, NEW e \in Entries, Store(e) PROVE ControlInv'
  BY <1>10 DEF Store, Move, Recorded, control, entries, requests, observed, Actors
<1>11. ASSUME ControlInv, NEW e \in Entries, StoreFails(e) PROVE ControlInv'
  <2> USE <1>11 DEF StoreFails, UnlockResults, Move, GoroutineStep, Nothing, control, entries, requests,
     observed
  <2>1. LocksHeld'
    BY DEF Actors
  <2>2. \A k \in Keys : /\ holder'[k] \in Actors \cup {Free}
                         /\ holder'[k] # Free => pc'[holder'[k]] \in {"checking", "storing", "alerting"}
    BY DEF Actors
  <2>3. TypeOK'
    BY <2>2
  <2>4. StagesOK' /\ EntriesKnown' /\ PushesKnown' /\ ChangeKnown'
    OBVIOUS
  <2> QED
    BY <2>1, <2>3, <2>4
<1>12. ASSUME ControlInv, NEW e \in Entries, HandleAlerting(e) PROVE ControlInv'
  <2> USE <1>12 DEF HandleAlerting, UnlockResults, Move, Recorded, control, entries, requests, observed
  <2>1. LocksHeld'
    BY DEF Actors
  <2>2. \A k \in Keys : /\ holder'[k] \in Actors \cup {Free}
                         /\ holder'[k] # Free => pc'[holder'[k]] \in {"checking", "storing", "alerting"}
    BY DEF Actors
  <2>3. TypeOK'
    BY <2>2
  <2>4. StagesOK' /\ EntriesKnown' /\ PushesKnown' /\ ChangeKnown'
    OBVIOUS
  <2> QED
    BY <2>1, <2>3, <2>4
<1>13. ASSUME ControlInv, NEW e \in Entries, Return(e) PROVE ControlInv'
  BY <1>13 DEF Return, Move, GoroutineStep, Nothing, control, entries, requests, observed, Actors
<1>14. ASSUME ControlInv, NEW p \in Pushes, NEW k \in Keys, Lookup(p, k) PROVE ControlInv'
  BY <1>14 DEF Lookup, Move, PushStep, Nothing, control, entries, Actors
<1>15. ASSUME ControlInv, NEW p \in Pushes, NEW k \in Keys, LookupFails(p, k) PROVE ControlInv'
  BY <1>15 DEF LookupFails, Move, PushStep, Nothing, control, entries, Actors
<1>16. ASSUME ControlInv, NEW p \in Pushes, LockPush(p) PROVE ControlInv'
  <2> USE <1>16 DEF LockPush, LockResults, Move, PushStep, Nothing, control, entries, requests
  <2>1. LocksHeld'
    BY DEF Actors
  <2>2. \A k \in Keys : /\ holder'[k] \in Actors \cup {Free}
                         /\ holder'[k] # Free => pc'[holder'[k]] \in {"checking", "storing", "alerting"}
    BY DEF Actors
  <2>3. TypeOK'
    BY <2>2
  <2>4. StagesOK' /\ EntriesKnown' /\ PushesKnown' /\ ChangeKnown'
    OBVIOUS
  <2> QED
    BY <2>1, <2>3, <2>4
<1>17. ASSUME ControlInv, NEW p \in Pushes, Refuse(p) PROVE ControlInv'
  <2> USE <1>17 DEF Refuse, Answered, UnlockResults, Move, PushStep, Nothing, control, entries
  <2>1. LocksHeld'
    BY DEF Actors
  <2>2. \A k \in Keys : /\ holder'[k] \in Actors \cup {Free}
                         /\ holder'[k] # Free => pc'[holder'[k]] \in {"checking", "storing", "alerting"}
    BY DEF Actors
  <2>3. TypeOK'
    BY <2>2
  <2>4. StagesOK' /\ EntriesKnown' /\ PushesKnown' /\ ChangeKnown'
    OBVIOUS
  <2> QED
    BY <2>1, <2>3, <2>4
<1>18. ASSUME ControlInv, NEW p \in Pushes, FallBack(p) PROVE ControlInv'
  <2> USE <1>18 DEF FallBack, UnlockResults, Move, PushStep, Nothing, control, entries
  <2>1. LocksHeld'
    BY DEF Actors
  <2>2. \A k \in Keys : /\ holder'[k] \in Actors \cup {Free}
                         /\ holder'[k] # Free => pc'[holder'[k]] \in {"checking", "storing", "alerting"}
    BY DEF Actors
  <2>3. TypeOK'
    BY <2>2
  <2>4. StagesOK' /\ EntriesKnown' /\ PushesKnown' /\ ChangeKnown'
    OBVIOUS
  <2> QED
    BY <2>1, <2>3, <2>4
<1>19. ASSUME ControlInv, NEW p \in Pushes, LockAgain(p) PROVE ControlInv'
  <2> USE <1>19 DEF LockAgain, LockResults, Move, PushStep, Nothing, control, entries, requests
  <2>1. LocksHeld'
    BY DEF Actors
  <2>2. \A k \in Keys : /\ holder'[k] \in Actors \cup {Free}
                         /\ holder'[k] # Free => pc'[holder'[k]] \in {"checking", "storing", "alerting"}
    BY DEF Actors
  <2>3. TypeOK'
    BY <2>2
  <2>4. StagesOK' /\ EntriesKnown' /\ PushesKnown' /\ ChangeKnown'
    OBVIOUS
  <2> QED
    BY <2>1, <2>3, <2>4
<1>20. ASSUME ControlInv, NEW p \in Pushes, Accept(p) PROVE ControlInv'
  BY <1>20 DEF Accept, Move, PushStep, Nothing, control, entries, requests, Actors
<1>21. ASSUME ControlInv, NEW p \in Pushes, StorePush(p) PROVE ControlInv'
  BY <1>21 DEF StorePush, Move, Recorded, control, entries, requests, observed, Actors
<1>22. ASSUME ControlInv, NEW p \in Pushes, StorePushFails(p) PROVE ControlInv'
  <2> USE <1>22 DEF StorePushFails, Answered, UnlockResults, Move, PushStep, Nothing, control, entries
  <2>1. LocksHeld'
    BY DEF Actors
  <2>2. \A k \in Keys : /\ holder'[k] \in Actors \cup {Free}
                         /\ holder'[k] # Free => pc'[holder'[k]] \in {"checking", "storing", "alerting"}
    BY DEF Actors
  <2>3. TypeOK'
    BY <2>2
  <2>4. StagesOK' /\ EntriesKnown' /\ PushesKnown' /\ ChangeKnown'
    OBVIOUS
  <2> QED
    BY <2>1, <2>3, <2>4
<1>23. ASSUME ControlInv, NEW p \in Pushes, HandlePushAlerting(p) PROVE ControlInv'
  <2> USE <1>23 DEF HandlePushAlerting, Answered, UnlockResults, Move, Recorded, control, entries
  <2>1. LocksHeld'
    BY DEF Actors
  <2>2. \A k \in Keys : /\ holder'[k] \in Actors \cup {Free}
                         /\ holder'[k] # Free => pc'[holder'[k]] \in {"checking", "storing", "alerting"}
    BY DEF Actors
  <2>3. TypeOK'
    BY <2>2
  <2>4. StagesOK' /\ EntriesKnown' /\ PushesKnown' /\ ChangeKnown'
    OBVIOUS
  <2> QED
    BY <2>1, <2>3, <2>4
<1>24. ASSUME ControlInv, NEW k \in Keys, BeginChange(k) PROVE ControlInv'
  BY <1>24 DEF BeginChange, ChangeStep, Nothing, control, entries, requests, observed, Actors
<1>25. ASSUME ControlInv, RefuseChange PROVE ControlInv'
  BY <1>25 DEF RefuseChange, NoChange, ChangeStep, Nothing, control, entries, requests, observed, Actors
<1>26. ASSUME ControlInv, StopBegins PROVE ControlInv'
  BY <1>26 DEF StopBegins, ChangeStep, Nothing, control, entries, requests, observed, Actors
<1>38. ASSUME ControlInv, StopCancels PROVE ControlInv'
  BY <1>38 DEF StopCancels, ChangeStep, Nothing, control, entries, requests, observed, Actors
<1>27. ASSUME ControlInv, StopWaits PROVE ControlInv'
  BY <1>27 DEF StopWaits, ChangeStep, Nothing, control, entries, requests, observed, Actors
<1>28. ASSUME ControlInv, StopReturns PROVE ControlInv'
  BY <1>28 DEF StopReturns, NobodyProcesses, ChangeStep, Nothing, control, entries, requests, Actors
<1>29. ASSUME ControlInv, LeaveStopped PROVE ControlInv'
  BY <1>29 DEF LeaveStopped, NoChange, ChangeStep, Nothing, control, entries, requests, observed, Actors
<1>30. ASSUME ControlInv, CycleStarted PROVE ControlInv'
  BY <1>30, BoundsAssumption DEF CycleStarted, Nothing, entries, requests, observed, Actors
<1>31. ASSUME ControlInv, AskForCycle PROVE ControlInv'
  BY <1>31 DEF AskForCycle, Nothing, entries, requests, observed, Actors
<1>32. ASSUME ControlInv, Close PROVE ControlInv'
  BY <1>32 DEF Close, Monitored, Nothing, entries, requests, observed, Actors
<1>33. ASSUME ControlInv, CloseReturns PROVE ControlInv'
  BY <1>33 DEF CloseReturns, Monitored, BeforeTheirLook, Nothing, entries, requests, Actors
<1>36. ASSUME ControlInv, StopTimesOut PROVE ControlInv'
  BY <1>36 DEF StopTimesOut, ChangeStep, Nothing, control, entries, requests, observed, Actors
<1>37. ASSUME ControlInv, CloseTimesOut PROVE ControlInv'
  BY <1>37 DEF CloseTimesOut, BeforeTheirLook, Nothing, entries, requests, Actors
<1>34. ASSUME ControlInv, NextCycle PROVE ControlInv'
  BY <1>34, BoundsAssumption DEF NextCycle, Nothing, entries, requests, observed, Actors
<1>35. ASSUME ControlInv, UNCHANGED vars PROVE ControlInv'
  BY <1>35 DEF vars, control, entries, requests, observed, Actors
<1> QED
  BY <1>1, <1>2, <1>3, <1>4, <1>5, <1>6, <1>7, <1>8, <1>9, <1>10, <1>11, <1>12, <1>13, <1>14, <1>15, <1>16,
     <1>17, <1>18, <1>19, <1>20, <1>21, <1>22, <1>23, <1>24, <1>25, <1>26, <1>27, <1>28, <1>29, <1>30, <1>31,
     <1>32, <1>33, <1>34, <1>35, <1>36, <1>37, <1>38 DEF Next, EntryStep, ProcessPush, ChangeSteps

-----------------------------------------------------------------------------
(* The results of a key *)

\* The goroutines, the requests, the registry and the locks stay what they are: in particular, a lock is only ever held
\* by an execution or a push that is processing a result, so that none is left locked
THEOREM TypeSafety == Spec => []TypeOK
<1>1. ControlInv => TypeOK
  BY DEF ControlInv
<1> QED
  BY <1>1, ControlInit, ControlStep, PTL DEF Spec

\* The results of a key are processed one at a time, whichever of its checks, heartbeats and pushes they come from, and
\* across the restarts and the cycles: lockEndpointResults is what HandleAlerting relies on to update the counters
THEOREM ResultsOneAtATime == Spec => []OneAtATime
<1>1. ControlInv => OneAtATime
  <2> SUFFICES ASSUME ControlInv, NEW a \in Actors, NEW b \in Actors, Processing(a), Processing(b),
                      KeyOfActor(a) = KeyOfActor(b)
               PROVE  a = b
    BY DEF OneAtATime
  <2>1. holder[KeyOfActor(a)] = a /\ holder[KeyOfActor(b)] = b
    BY NamesDiffer DEF ControlInv, LocksHeld, KeyOfActor, Actors
  <2> QED
    BY <2>1
<1> QED
  BY <1>1, ControlInit, ControlStep, PTL DEF Spec

-----------------------------------------------------------------------------
(* After a stop *)

\* An execution is past its look at the context only if it holds the lock, which the stop waits for, and once the stop
\* has it the context is cancelled. A heartbeat does not look at its context again: the theorem is about the endpoints whose
\* heartbeat, if any, is defined in the configuration file and only stopped by a cycle.
LEMMA QuietStep == Heartbeats \subseteq FallsBack /\ ControlInv /\ StoppedIsQuiet /\ [Next]_vars => StoppedIsQuiet'
<1> USE NamesDiffer DEF ControlInv, StoppedIsQuiet
<1>1. ASSUME Heartbeats \subseteq FallsBack, ControlInv, StoppedIsQuiet, NEW k \in Keys, NEW e \in Entries, StartInCycle(k,
     e) PROVE StoppedIsQuiet'
  BY <1>1 DEF StartInCycle, StartEntry, MayStart, Unused, control, observed, requests, Nothing, TypeOK,
     EntriesKnown, PushesKnown, ChangeKnown
<1>2. ASSUME Heartbeats \subseteq FallsBack, ControlInv, StoppedIsQuiet, NEW k \in Keys, NEW e \in Entries, StartNew(k,
     e) PROVE StoppedIsQuiet'
  BY <1>2 DEF StartNew, StartEntry, MayStart, Unused, control, observed, requests, Nothing, TypeOK,
     EntriesKnown, PushesKnown, ChangeKnown
<1>3. ASSUME Heartbeats \subseteq FallsBack, ControlInv, StoppedIsQuiet, NEW e \in Entries, StartAgain(e) PROVE StoppedIsQuiet'
  BY <1>3 DEF StartAgain, StartEntry, MayStart, Unused, control, observed, requests, Nothing, NoChange, TypeOK,
     EntriesKnown, PushesKnown, ChangeKnown
<1>4. ASSUME Heartbeats \subseteq FallsBack, ControlInv, StoppedIsQuiet, NEW e \in Entries, Acquire(e) PROVE StoppedIsQuiet'
  BY <1>4 DEF Acquire, Move, GoroutineStep, Nothing, control, entries, requests, observed, TypeOK,
     EntriesKnown, PushesKnown, ChangeKnown
<1>5. ASSUME Heartbeats \subseteq FallsBack, ControlInv, StoppedIsQuiet, NEW e \in Entries, Skip(e) PROVE StoppedIsQuiet'
  BY <1>5 DEF Skip, Move, GoroutineStep, Nothing, control, entries, requests, observed, TypeOK, EntriesKnown,
     PushesKnown, ChangeKnown
<1>6. ASSUME Heartbeats \subseteq FallsBack, ControlInv, StoppedIsQuiet, NEW e \in Entries, Evaluated(e) PROVE StoppedIsQuiet'
  BY <1>6 DEF Evaluated, Move, GoroutineStep, Nothing, control, entries, requests, observed, TypeOK,
     EntriesKnown, PushesKnown, ChangeKnown
<1>7. ASSUME Heartbeats \subseteq FallsBack, ControlInv, StoppedIsQuiet, NEW e \in Entries, LockEntry(e) PROVE StoppedIsQuiet'
  BY <1>7 DEF LockEntry, AfterLock, LockResults, Move, GoroutineStep, Nothing, control, entries, requests,
     observed, TypeOK, EntriesKnown, PushesKnown, ChangeKnown
<1>8. ASSUME Heartbeats \subseteq FallsBack, ControlInv, StoppedIsQuiet, NEW e \in Entries, Discard(e) PROVE StoppedIsQuiet'
  BY <1>8 DEF Discard, UnlockResults, Move, GoroutineStep, Nothing, control, entries, requests, observed,
     TypeOK, EntriesKnown, PushesKnown, ChangeKnown
<1>9. ASSUME Heartbeats \subseteq FallsBack, ControlInv, StoppedIsQuiet, NEW e \in Entries, Keep(e) PROVE StoppedIsQuiet'
  BY <1>9 DEF Keep, Move, GoroutineStep, Nothing, control, entries, requests, observed, TypeOK, EntriesKnown,
     PushesKnown, ChangeKnown
<1>10. ASSUME Heartbeats \subseteq FallsBack, ControlInv, StoppedIsQuiet, NEW e \in Entries, Store(e) PROVE StoppedIsQuiet'
  BY <1>10 DEF Store, Move, Recorded, control, entries, requests, observed, TypeOK, EntriesKnown, PushesKnown,
     ChangeKnown
<1>11. ASSUME Heartbeats \subseteq FallsBack, ControlInv, StoppedIsQuiet, NEW e \in Entries,
     StoreFails(e) PROVE StoppedIsQuiet'
  BY <1>11 DEF StoreFails, UnlockResults, Move, GoroutineStep, Nothing, control, entries, requests, observed,
     TypeOK, EntriesKnown, PushesKnown, ChangeKnown
<1>12. ASSUME Heartbeats \subseteq FallsBack, ControlInv, StoppedIsQuiet, NEW e \in Entries,
     HandleAlerting(e) PROVE StoppedIsQuiet'
  BY <1>12 DEF HandleAlerting, UnlockResults, Move, Recorded, control, entries, requests, observed, TypeOK,
     EntriesKnown, PushesKnown, ChangeKnown
<1>13. ASSUME Heartbeats \subseteq FallsBack, ControlInv, StoppedIsQuiet, NEW e \in Entries, Return(e) PROVE StoppedIsQuiet'
  BY <1>13 DEF Return, Move, GoroutineStep, Nothing, control, entries, requests, observed, TypeOK,
     EntriesKnown, PushesKnown, ChangeKnown
<1>14. ASSUME Heartbeats \subseteq FallsBack, ControlInv, StoppedIsQuiet, NEW p \in Pushes, NEW k \in Keys, Lookup(p,
     k) PROVE StoppedIsQuiet'
  BY <1>14 DEF Lookup, Move, PushStep, Nothing, control, entries, TypeOK, EntriesKnown, PushesKnown, ChangeKnown
<1>15. ASSUME Heartbeats \subseteq FallsBack, ControlInv, StoppedIsQuiet, NEW p \in Pushes, NEW k \in Keys, LookupFails(p,
     k) PROVE StoppedIsQuiet'
  BY <1>15 DEF LookupFails, Move, PushStep, Nothing, control, entries, TypeOK, EntriesKnown, PushesKnown,
     ChangeKnown
<1>16. ASSUME Heartbeats \subseteq FallsBack, ControlInv, StoppedIsQuiet, NEW p \in Pushes, LockPush(p) PROVE StoppedIsQuiet'
  BY <1>16 DEF LockPush, LockResults, Move, PushStep, Nothing, control, entries, requests, TypeOK,
     EntriesKnown, PushesKnown, ChangeKnown
<1>17. ASSUME Heartbeats \subseteq FallsBack, ControlInv, StoppedIsQuiet, NEW p \in Pushes, Refuse(p) PROVE StoppedIsQuiet'
  BY <1>17 DEF Refuse, Answered, UnlockResults, Move, PushStep, Nothing, control, entries, TypeOK,
     EntriesKnown, PushesKnown, ChangeKnown
<1>18. ASSUME Heartbeats \subseteq FallsBack, ControlInv, StoppedIsQuiet, NEW p \in Pushes, FallBack(p) PROVE StoppedIsQuiet'
  BY <1>18 DEF FallBack, UnlockResults, Move, PushStep, Nothing, control, entries, TypeOK, EntriesKnown,
     PushesKnown, ChangeKnown
<1>19. ASSUME Heartbeats \subseteq FallsBack, ControlInv, StoppedIsQuiet, NEW p \in Pushes, LockAgain(p) PROVE StoppedIsQuiet'
  BY <1>19 DEF LockAgain, LockResults, Move, PushStep, Nothing, control, entries, requests, TypeOK,
     EntriesKnown, PushesKnown, ChangeKnown
<1>20. ASSUME Heartbeats \subseteq FallsBack, ControlInv, StoppedIsQuiet, NEW p \in Pushes, Accept(p) PROVE StoppedIsQuiet'
  BY <1>20 DEF Accept, Move, PushStep, Nothing, control, entries, requests, TypeOK, EntriesKnown, PushesKnown,
     ChangeKnown
<1>21. ASSUME Heartbeats \subseteq FallsBack, ControlInv, StoppedIsQuiet, NEW p \in Pushes, StorePush(p) PROVE StoppedIsQuiet'
  BY <1>21 DEF StorePush, Move, Recorded, control, entries, requests, observed, TypeOK, EntriesKnown,
     PushesKnown, ChangeKnown
<1>22. ASSUME Heartbeats \subseteq FallsBack, ControlInv, StoppedIsQuiet, NEW p \in Pushes,
     StorePushFails(p) PROVE StoppedIsQuiet'
  BY <1>22 DEF StorePushFails, Answered, UnlockResults, Move, PushStep, Nothing, control, entries, TypeOK,
     EntriesKnown, PushesKnown, ChangeKnown
<1>23. ASSUME Heartbeats \subseteq FallsBack, ControlInv, StoppedIsQuiet, NEW p \in Pushes,
     HandlePushAlerting(p) PROVE StoppedIsQuiet'
  BY <1>23 DEF HandlePushAlerting, Answered, UnlockResults, Move, Recorded, control, entries, TypeOK,
     EntriesKnown, PushesKnown, ChangeKnown
<1>24. ASSUME Heartbeats \subseteq FallsBack, ControlInv, StoppedIsQuiet, NEW k \in Keys, BeginChange(k) PROVE StoppedIsQuiet'
  BY <1>24 DEF BeginChange, ChangeStep, Nothing, control, entries, requests, observed, TypeOK, EntriesKnown,
     PushesKnown, ChangeKnown
<1>25. ASSUME Heartbeats \subseteq FallsBack, ControlInv, StoppedIsQuiet, RefuseChange PROVE StoppedIsQuiet'
  BY <1>25 DEF RefuseChange, NoChange, ChangeStep, Nothing, control, entries, requests, observed, TypeOK,
     EntriesKnown, PushesKnown, ChangeKnown
<1>26. ASSUME Heartbeats \subseteq FallsBack, ControlInv, StoppedIsQuiet, StopBegins PROVE StoppedIsQuiet'
  BY <1>26 DEF StopBegins, ChangeStep, Nothing, control, entries, requests, observed, TypeOK, EntriesKnown,
     PushesKnown, ChangeKnown
<1>38. ASSUME Heartbeats \subseteq FallsBack, ControlInv, StoppedIsQuiet, StopCancels PROVE StoppedIsQuiet'
  BY <1>38 DEF StopCancels, ChangeStep, Nothing, control, entries, requests, observed, TypeOK, EntriesKnown,
     PushesKnown, ChangeKnown
<1>27. ASSUME Heartbeats \subseteq FallsBack, ControlInv, StoppedIsQuiet, StopWaits PROVE StoppedIsQuiet'
  BY <1>27 DEF StopWaits, ChangeStep, Nothing, control, entries, requests, observed, TypeOK, EntriesKnown,
     PushesKnown, ChangeKnown
<1>28. ASSUME Heartbeats \subseteq FallsBack, ControlInv, StoppedIsQuiet, StopReturns PROVE StoppedIsQuiet'
  <2> USE <1>28 DEF StopReturns, NobodyProcesses, ChangeStep, Nothing, control, entries, requests
  <2>1. stopped' = stopped \cup {change.entry} /\ UNCHANGED <<pc, target, cancelled>>
    OBVIOUS
  <2>2. change.entry \in Entries /\ keyOf[change.entry] = change.key /\ change.key \in Keys
    BY DEF ChangeKnown
  <2>3. pc[change.entry] \notin {"storing", "alerting"}
    BY <2>2 DEF LocksHeld, Processing
  <2>4. \A p \in Pushes : target[p] = change.entry => pc[p] \notin {"storing", "alerting"}
    BY <2>2 DEF LocksHeld, Processing, EntriesKnown
  <2> QED
    BY <2>1, <2>2, <2>3, <2>4 DEF ChangeKnown
<1>29. ASSUME Heartbeats \subseteq FallsBack, ControlInv, StoppedIsQuiet, LeaveStopped PROVE StoppedIsQuiet'
  BY <1>29 DEF LeaveStopped, NoChange, ChangeStep, Nothing, control, entries, requests, observed, TypeOK,
     EntriesKnown, PushesKnown, ChangeKnown
<1>30. ASSUME Heartbeats \subseteq FallsBack, ControlInv, StoppedIsQuiet, CycleStarted PROVE StoppedIsQuiet'
  BY <1>30 DEF CycleStarted, Nothing, entries, requests, observed, TypeOK, EntriesKnown, PushesKnown,
     ChangeKnown
<1>31. ASSUME Heartbeats \subseteq FallsBack, ControlInv, StoppedIsQuiet, AskForCycle PROVE StoppedIsQuiet'
  BY <1>31 DEF AskForCycle, Nothing, entries, requests, observed, TypeOK, EntriesKnown, PushesKnown, ChangeKnown
<1>32. ASSUME Heartbeats \subseteq FallsBack, ControlInv, StoppedIsQuiet, Close PROVE StoppedIsQuiet'
  BY <1>32 DEF Close, Monitored, Nothing, entries, requests, observed, TypeOK, EntriesKnown, PushesKnown,
     ChangeKnown
<1>33. ASSUME Heartbeats \subseteq FallsBack, ControlInv, StoppedIsQuiet, CloseReturns PROVE StoppedIsQuiet'
  BY <1>33 DEF CloseReturns, Monitored, Nothing, entries, requests, TypeOK, EntriesKnown, PushesKnown,
     ChangeKnown
<1>36. ASSUME Heartbeats \subseteq FallsBack, ControlInv, StoppedIsQuiet, StopTimesOut PROVE StoppedIsQuiet'
  BY <1>36 DEF StopTimesOut, ChangeStep, Nothing, control, entries, requests, observed, TypeOK, EntriesKnown,
     PushesKnown, ChangeKnown
<1>37. ASSUME Heartbeats \subseteq FallsBack, ControlInv, StoppedIsQuiet, CloseTimesOut PROVE StoppedIsQuiet'
  BY <1>37 DEF CloseTimesOut, Nothing, entries, requests, observed, TypeOK, EntriesKnown, PushesKnown, ChangeKnown
<1>34. ASSUME Heartbeats \subseteq FallsBack, ControlInv, StoppedIsQuiet, NextCycle PROVE StoppedIsQuiet'
  BY <1>34 DEF NextCycle, Nothing, entries, requests, observed, TypeOK, EntriesKnown, PushesKnown, ChangeKnown
<1>35. ASSUME Heartbeats \subseteq FallsBack, ControlInv, StoppedIsQuiet, UNCHANGED vars PROVE StoppedIsQuiet'
  BY <1>35 DEF vars, control, entries, requests, observed, TypeOK, EntriesKnown, PushesKnown, ChangeKnown
<1> QED
  BY <1>1, <1>2, <1>3, <1>4, <1>5, <1>6, <1>7, <1>8, <1>9, <1>10, <1>11, <1>12, <1>13, <1>14, <1>15, <1>16,
     <1>17, <1>18, <1>19, <1>20, <1>21, <1>22, <1>23, <1>24, <1>25, <1>26, <1>27, <1>28, <1>29, <1>30, <1>31,
     <1>32, <1>33, <1>34, <1>35, <1>36, <1>37, <1>38 DEF Next, EntryStep, ProcessPush, ChangeSteps

\* What a step records comes from an execution or a push that is past its look at the context
LEMMA RecordStep ==
    ASSUME ControlInv, Next, record'.what # "nothing"
    PROVE  \/ \E e \in Entries : pc[e] \in {"storing", "alerting"} /\ record'.by = e /\ record'.entry = e
           \/ \E p \in Pushes : pc[p] \in {"storing", "alerting"} /\ record'.by = p /\ record'.entry = target[p]
<1>1. CASE \E e \in Entries : Store(e) \/ HandleAlerting(e)
  BY <1>1 DEF Store, HandleAlerting, Move, Recorded
<1>2. CASE \E p \in Pushes : StorePush(p) \/ HandlePushAlerting(p)
  BY <1>2 DEF StorePush, HandlePushAlerting, Move, Recorded
<1>3. CASE ~(\E e \in Entries : Store(e) \/ HandleAlerting(e)) /\ ~(\E p \in Pushes : StorePush(p) \/ HandlePushAlerting(p))
  <2>1. record' = Nothing
    BY <1>3
    DEF Next, EntryStep, ProcessPush, ChangeSteps, GoroutineStep, PushStep, ChangeStep, StartInCycle, StartNew, StartAgain,
        Acquire, Skip, Evaluated, LockEntry, Discard, Keep, StoreFails, Return, Lookup, LookupFails, LockPush, Refuse,
        FallBack, LockAgain, Accept, StorePushFails, BeginChange, RefuseChange, StopBegins, StopCancels, StopWaits, StopTimesOut,
        StopReturns, LeaveStopped, CycleStarted, AskForCycle, Close, CloseReturns, CloseTimesOut, NextCycle
  <2> QED
    BY <2>1 DEF Nothing
<1> QED
  BY <1>1, <1>2, <1>3

\* No result and no alert of an endpoint is recorded once StopEndpoint returned for its object, by its goroutine or by a
\* push, even when the wait for its execution timed out. Assumed: no endpoint of the administration has a heartbeat, which
\* does not look at its context again once it has the lock.
THEOREM StoppedIsSilent ==
    ASSUME Heartbeats \subseteq FallsBack
    PROVE  Spec => NothingAfterStop
<1> DEFINE Silent == record'.what # "nothing" => record'.entry \notin stopped
<1>1. Init => StoppedIsQuiet
  BY DEF Init, StoppedIsQuiet, NoChange
<1>2. ControlInv /\ StoppedIsQuiet /\ [Next]_vars => [Silent]_vars
  BY RecordStep, NamesDiffer DEF StoppedIsQuiet, ControlInv, TypeOK
<1>3. ControlInv /\ StoppedIsQuiet /\ [Next]_vars => StoppedIsQuiet'
  BY QuietStep
<1> QED
  BY <1>1, <1>2, <1>3, ControlInit, ControlStep, PTL DEF Spec, NothingAfterStop

-----------------------------------------------------------------------------
(* The registry and the changes *)

\* A change that is in progress keeps the cycle from ending, what it stopped stays out of the registry, and an ended cycle
\* leaves nothing that is not cancelled
RegistryKept ==
    /\ OneMonitorPerKey
    /\ change.stage # "none" => phase \in {"running", "pending"}
    /\ change.stage \in {"removed", "waiting", "locking", "stopped"} => entryOf[change.key] = Free
    /\ phase \in {"closing", "closed"} => \A e \in Entries : pc[e] # "unused" => e \in cancelled

RegistryInv == ControlInv /\ RegistryKept

\* Every step keeps one monitor for each key: an entry is replaced only once it is cancelled.
LEMMA RegistryStep == RegistryInv /\ [Next]_vars => RegistryKept'
<1> USE NamesDiffer DEF RegistryInv, ControlInv
<1>1. ASSUME RegistryInv, NEW k \in Keys, NEW e \in Entries, StartInCycle(k, e) PROVE RegistryKept'
  BY <1>1 DEF StartInCycle, StartEntry, MayStart, Unused, control, RegistryKept, OneMonitorPerKey, TypeOK, EntriesKnown, ChangeKnown
<1>2. ASSUME RegistryInv, NEW k \in Keys, NEW e \in Entries, StartNew(k, e) PROVE RegistryKept'
  BY <1>2 DEF StartNew, StartEntry, MayStart, Unused, TryBeginChange, control, RegistryKept, OneMonitorPerKey, TypeOK, EntriesKnown, ChangeKnown
<1>3. ASSUME RegistryInv, NEW e \in Entries, StartAgain(e) PROVE RegistryKept'
  BY <1>3 DEF StartAgain, StartEntry, MayStart, Unused, NoChange, control, RegistryKept, OneMonitorPerKey, TypeOK, EntriesKnown, ChangeKnown
<1>4. ASSUME RegistryInv, NEW e \in Entries, EntryStep(e) PROVE RegistryKept'
  <2>1. UNCHANGED <<phase, entryOf, keyOf, cancelled, change>>
    BY <1>4 DEF EntryStep, Acquire, Skip, Evaluated, LockEntry, Discard, Keep, Store, StoreFails, HandleAlerting, Return,
                GoroutineStep, control, entries
  <2>2. \A f \in Entries : pc[f] = "unused" <=> pc'[f] = "unused"
    BY <1>4 DEF EntryStep, Acquire, Skip, Evaluated, LockEntry, AfterLock, Discard, Keep, Store, StoreFails, HandleAlerting,
                Return, Move, TypeOK
  <2> QED
    BY <1>4, <2>1, <2>2 DEF RegistryKept, OneMonitorPerKey
<1>5. ASSUME RegistryInv, NEW p \in Pushes, ProcessPush(p) \/ \E k \in Keys : Lookup(p, k) \/ LookupFails(p, k)
      PROVE  RegistryKept'
  <2>1. UNCHANGED <<phase, entryOf, keyOf, cancelled, change>>
    BY <1>5 DEF ProcessPush, Lookup, LookupFails, LockPush, Refuse, FallBack, LockAgain, Accept, StorePush, StorePushFails,
                HandlePushAlerting, PushStep, control, entries
  <2>2. \A f \in Entries : pc[f] = pc'[f]
    BY <1>5 DEF ProcessPush, Lookup, LookupFails, LockPush, Refuse, FallBack, LockAgain, Accept, StorePush, StorePushFails,
                HandlePushAlerting, Move, TypeOK
  <2> QED
    BY <1>5, <2>1, <2>2 DEF RegistryKept, OneMonitorPerKey
<1>6. ASSUME RegistryInv, NEW k \in Keys, BeginChange(k) PROVE RegistryKept'
  BY <1>6 DEF BeginChange, TryBeginChange, ChangeStep, control, entries, RegistryKept, OneMonitorPerKey, TypeOK, EntriesKnown, ChangeKnown
<1>7. ASSUME RegistryInv, RefuseChange PROVE RegistryKept'
  BY <1>7 DEF RefuseChange, NoChange, ChangeStep, control, entries, RegistryKept, OneMonitorPerKey, TypeOK, EntriesKnown, ChangeKnown
<1>8. ASSUME RegistryInv, StopBegins PROVE RegistryKept'
  BY <1>8 DEF StopBegins, ChangeStep, control, entries, RegistryKept, OneMonitorPerKey, TypeOK, EntriesKnown, ChangeKnown
<1>20. ASSUME RegistryInv, StopCancels PROVE RegistryKept'
  BY <1>20 DEF StopCancels, ChangeStep, control, entries, RegistryKept, OneMonitorPerKey, TypeOK, EntriesKnown, ChangeKnown
<1>9. ASSUME RegistryInv, StopWaits PROVE RegistryKept'
  BY <1>9 DEF StopWaits, ChangeStep, control, entries, RegistryKept, OneMonitorPerKey, TypeOK, EntriesKnown, ChangeKnown
<1>10. ASSUME RegistryInv, StopTimesOut PROVE RegistryKept'
  BY <1>10 DEF StopTimesOut, ChangeStep, control, entries, RegistryKept, OneMonitorPerKey, TypeOK, EntriesKnown, ChangeKnown
<1>11. ASSUME RegistryInv, StopReturns PROVE RegistryKept'
  BY <1>11 DEF StopReturns, ChangeStep, control, entries, RegistryKept, OneMonitorPerKey, TypeOK, EntriesKnown, ChangeKnown
<1>12. ASSUME RegistryInv, LeaveStopped PROVE RegistryKept'
  BY <1>12 DEF LeaveStopped, NoChange, ChangeStep, control, entries, RegistryKept, OneMonitorPerKey, TypeOK, EntriesKnown, ChangeKnown
<1>13. ASSUME RegistryInv, CycleStarted PROVE RegistryKept'
  BY <1>13 DEF CycleStarted, entries, RegistryKept, OneMonitorPerKey, TypeOK, EntriesKnown, ChangeKnown
<1>14. ASSUME RegistryInv, AskForCycle PROVE RegistryKept'
  BY <1>14 DEF AskForCycle, entries, RegistryKept, OneMonitorPerKey, TypeOK, EntriesKnown, ChangeKnown
<1>15. ASSUME RegistryInv, Close PROVE RegistryKept'
  BY <1>15 DEF Close, Monitored, NoChangeInProgress, entries, RegistryKept, OneMonitorPerKey, TypeOK, EntriesKnown, ChangeKnown
<1>16. ASSUME RegistryInv, CloseReturns PROVE RegistryKept'
  BY <1>16 DEF CloseReturns, entries, RegistryKept, OneMonitorPerKey, TypeOK, EntriesKnown, ChangeKnown
<1>17. ASSUME RegistryInv, CloseTimesOut PROVE RegistryKept'
  BY <1>17 DEF CloseTimesOut, entries, RegistryKept, OneMonitorPerKey, TypeOK, EntriesKnown, ChangeKnown
<1>18. ASSUME RegistryInv, NextCycle PROVE RegistryKept'
  BY <1>18 DEF NextCycle, entries, RegistryKept, OneMonitorPerKey, TypeOK, EntriesKnown, ChangeKnown
<1>19. ASSUME RegistryInv, UNCHANGED vars PROVE RegistryKept'
  BY <1>19 DEF vars, control, entries, RegistryKept, OneMonitorPerKey, TypeOK, EntriesKnown, ChangeKnown
<1> QED
  BY <1>1, <1>2, <1>3, <1>4, <1>5, <1>6, <1>7, <1>8, <1>9, <1>10, <1>11, <1>12, <1>13, <1>14, <1>15, <1>16, <1>17, <1>18, <1>19, <1>20
  DEF Next, ChangeSteps

\* Every key has one live goroutine at most, the one of the registry, and the start that ends a change is never refused:
\* for any number of keys, changes, starts and cycles, whether or not the timers go off
THEOREM RegistrySafety == Spec => []RegistryOfOne
<1>1. Init => RegistryKept
  BY NamesDiffer DEF Init, RegistryKept, OneMonitorPerKey, NoChange, Actors
<1>2. ControlInv /\ RegistryKept /\ [Next]_vars => RegistryKept'
  BY RegistryStep DEF RegistryInv
<1>3. RegistryKept => RegistryOfOne
  BY DEF RegistryKept, RegistryOfOne, StartCannotFail
<1> QED
  BY <1>1, <1>2, <1>3, ControlInit, ControlStep, PTL DEF Spec

-----------------------------------------------------------------------------
(* After a cycle *)

\* A goroutine that had not looked at its context when its cycle was closed finds it cancelled
ClosedDiscards == \A e \in closedOn : e \in cancelled /\ pc[e] # "unused" /\ ~PastItsLook(e)

\* Close cancels whatever was started, so that nobody it left behind passes the look at its context.
LEMMA DiscardStep == RegistryInv /\ ClosedDiscards /\ [Next]_vars => ClosedDiscards'
<1> SUFFICES ASSUME RegistryInv, ClosedDiscards, [Next]_vars PROVE ClosedDiscards'
  OBVIOUS
<1> USE NamesDiffer DEF RegistryInv, ControlInv
<1>1. ASSUME Next, ~CloseReturns, ~CloseTimesOut PROVE UNCHANGED closedOn
  BY <1>1
  DEF Next, EntryStep, ProcessPush, ChangeSteps, GoroutineStep, PushStep, ChangeStep, StartInCycle, StartNew, StartAgain,
      Acquire, Skip, Evaluated, LockEntry, Discard, Keep, Store, StoreFails, HandleAlerting, Return, Lookup, LookupFails,
      LockPush, Refuse, FallBack, LockAgain, Accept, StorePush, StorePushFails, HandlePushAlerting, BeginChange,
      RefuseChange, StopBegins, StopCancels, StopWaits, StopTimesOut, StopReturns, LeaveStopped, CycleStarted, AskForCycle,
      Close, NextCycle, observed
<1>2. CASE CloseReturns \/ CloseTimesOut
  <2>1. /\ phase = "closing" /\ UNCHANGED <<pc, keyOf, cancelled>>
        /\ closedOn' \subseteq closedOn \cup Monitored \cup BeforeTheirLook
        /\ CloseReturns \/ closedOn' \subseteq closedOn \cup BeforeTheirLook
    BY <1>2 DEF CloseReturns, CloseTimesOut, entries
  <2>2. \A e \in BeforeTheirLook : e \in cancelled /\ pc[e] # "unused" /\ ~PastItsLook(e)
    BY <2>1 DEF BeforeTheirLook, RegistryKept
  <2>3. CloseReturns => \A e \in Monitored : e \in cancelled /\ pc[e] = "returned"
    BY <2>1 DEF CloseReturns, WaitedFor, Monitored, RegistryKept, EntriesKnown, TypeOK
  <2>4. \A e \in closedOn' : e \in cancelled /\ pc[e] # "unused" /\ ~PastItsLook(e)
    BY <2>1, <2>2, <2>3 DEF ClosedDiscards, PastItsLook
  <2> QED
    BY <2>1, <2>4 DEF ClosedDiscards, PastItsLook
<1>3. CASE UNCHANGED vars
  BY <1>3 DEF vars, observed, entries, ClosedDiscards, PastItsLook
<1>4. ASSUME Next, ~CloseReturns, ~CloseTimesOut, NEW e \in closedOn
      PROVE  e \in cancelled' /\ pc'[e] # "unused" /\ ~PastItsLook(e)'
  <2>0. e \in Entries /\ e \in cancelled /\ pc[e] # "unused" /\ ~PastItsLook(e)
    BY <1>4 DEF ClosedDiscards, TypeOK
  <2> USE <2>0 DEF PastItsLook
  <2>1. CASE \E k \in Keys, f \in Entries : StartInCycle(k, f) \/ StartNew(k, f)
    BY <2>1 DEF StartInCycle, StartNew, StartEntry, Unused, TypeOK
  <2>2. CASE \E f \in Entries : StartAgain(f)
    BY <2>2 DEF StartAgain, StartEntry, Unused, TypeOK
  <2>3. CASE \E f \in Entries : EntryStep(f)
    BY <2>3 DEF EntryStep, Acquire, Skip, Evaluated, LockEntry, AfterLock, Discard, Keep, Store, StoreFails, HandleAlerting,
                Return, Move, GoroutineStep, entries, TypeOK
  <2>4. CASE \E p \in Pushes : ProcessPush(p) \/ \E k \in Keys : Lookup(p, k) \/ LookupFails(p, k)
    BY <2>4 DEF ProcessPush, Lookup, LookupFails, LockPush, Refuse, FallBack, LockAgain, Accept, StorePush,
                StorePushFails, HandlePushAlerting, Move, PushStep, entries, TypeOK
  <2>5. CASE (\E k \in Keys : BeginChange(k)) \/ ChangeSteps
    BY <2>5 DEF BeginChange, ChangeSteps, RefuseChange, StopBegins, StopCancels, StopWaits, StopTimesOut, StopReturns,
                LeaveStopped, ChangeStep, entries
  <2>6. CASE CycleStarted \/ AskForCycle \/ Close \/ NextCycle
    BY <2>6 DEF CycleStarted, AskForCycle, Close, NextCycle, entries
  <2> QED
    BY <1>4, <2>1, <2>2, <2>3, <2>4, <2>5, <2>6 DEF Next
<1>5. CASE Next /\ ~CloseReturns /\ ~CloseTimesOut
  BY <1>1, <1>4, <1>5 DEF ClosedDiscards
<1> QED
  BY <1>2, <1>3, <1>5

\* No execution records a result or an alert once Shutdown returned, whether it waited for it or its timer left it behind,
\* if it had not passed its look at the context by then: "results of in-flight executions will be discarded" holds of all the
\* others, for any number of keys, cycles and changes, whatever is started afterwards.
THEOREM ClosedIsSilent == Spec => NoExecutionAfterClose
<1> DEFINE Silent == record'.by \in Entries /\ record'.what # "nothing" => record'.entry \notin closedOn
<1>1. Init => ClosedDiscards /\ RegistryKept
  BY NamesDiffer DEF Init, ClosedDiscards, RegistryKept, OneMonitorPerKey, NoChange, Actors
<1>2. ControlInv /\ ClosedDiscards /\ [Next]_vars => [Silent]_vars
  BY RecordStep, NamesDiffer DEF ClosedDiscards, PastItsLook, ControlInv, TypeOK
<1>3. RegistryInv /\ ClosedDiscards /\ [Next]_vars => ClosedDiscards'
  BY DiscardStep
<1>4. RegistryInv /\ [Next]_vars => RegistryInv'
  BY ControlStep, RegistryStep DEF RegistryInv
<1>5. Init => RegistryInv
  BY <1>1, ControlInit DEF RegistryInv
<1>6. RegistryInv => ControlInv
  BY DEF RegistryInv
<1> QED
  BY <1>1, <1>2, <1>3, <1>4, <1>5, <1>6, PTL DEF Spec, NoExecutionAfterClose

-----------------------------------------------------------------------------
(* The health checks.  Everything is about one check, or about what an     *)
(* execution left for the next endpoint.                                   *)

ResultFields ==
    {"success", "errors", "connected", "status", "rcode", "ip", "duration", "certificate", "domain", "body",
     "hostname", "port", "conditions"}
IsResult(r) == DOMAIN r = ResultFields
CheckStages == {"address", "ip", "domain", "call", "conditions", "hide", "store"}
BeforeCall == {"address", "ip", "domain", "call"}

\* A check is one of an endpoint of the subject; the answers are those of the endpoints before it
StageKnown ==
    /\ stage \in CheckStages \cup {"idle", "next"}
    /\ subject \in Subjects /\ position \in Nat /\ day \in Nat
    /\ stage # "idle" => position >= 1
    /\ stage \in CheckStages => position \in DOMAIN subject.endpoints

AnswersKnown ==
    /\ \E S : answers \in Seq(S)
    /\ stage # "idle" => Len(answers) = position - 1

\* A result has what the target answered, but for what nobody asks for
AgreeOn(e, r, a) ==
    /\ IsResult(r) /\ IsResult(a)
    /\ r.status = a.status /\ r.connected = a.connected /\ r.rcode = a.rcode /\ r.duration = a.duration
    /\ r.certificate = a.certificate /\ r.domain = a.domain
    /\ NeedsIP(e) => r.ip = a.ip
    /\ NeedsBody(e) => r.body = a.body
AnswerAgrees == stage \in CheckStages => AgreeOn(Endpoint, result, answer)

\* Nothing fails before the call; the call decides unless it is not made
HealthKnown ==
    /\ stage \in BeforeCall =>
           result.success /\ answer.success /\ answer.errors = {} /\ result.body = NoBody /\ answer.body = NoBody
    /\ stage = "conditions" => (result.success <=> answer.errors = {} /\ answer.success)
    /\ stage = "hide" /\ IsAsLookedFor(Endpoint) =>
           (result.success <=> answer.errors = {} /\ answer.success /\ AllHold(Endpoint, answer, context))

\* How long the date that was read on a day serves
Lasts(date, read) == IF date - read > 30 THEN 10 ELSE 3

\* The registry was renewed once at most, and the entry of the cache has the date of the day on which it was read
RegistryKnown ==
    /\ registry.since \in 0..day
    /\ IsDated(subject) => registry.date \in Int /\ registry.before \in Int
    /\ registry.since = 0 => registry.before = registry.date
CacheKnown ==
    IsDated(subject) /\ whois # Unset =>
        /\ whois.date = registry.date \/ whois.date = registry.before
        /\ \E read \in 0..day :
               /\ whois.until = read + Lasts(whois.date, read)
               /\ whois.date # registry.date => read <= registry.since

\* A date is that of the registry, or was before, for a few days
IsRecent(date) ==
    date # registry.date =>
        /\ date = registry.before
        /\ \E read \in 0..registry.since : day - read < Lasts(registry.before, read)
DomainKnown ==
    /\ stage \in {"ip", "domain", "call"} => result.hostname \/ result.errors # {}
    /\ stage = "call" /\ NeedsDomain(Endpoint) /\ result.errors = {} => IsRecent(result.domain + day)
    /\ stage \in {"conditions", "hide"} /\ NeedsDomain(Endpoint) /\ answer.errors = {} => IsRecent(result.domain + day)

\* What can be read in the errors before anything is hidden; the hostname and the port are known when the URL was parsed
Forms == {"no", "literal", "other"}
IsErrorOf(e, error) == \E url \in Forms, parts \in SUBSET ({"hostname"} \cup PortOf(e)) : error = Error(url, parts)
ErrorsKnown ==
    /\ stage \in CheckStages \ {"store"} => \A error \in result.errors : IsErrorOf(Endpoint, error)
    /\ stage \in CheckStages \ {"store"} /\ answer.hostname =>
           result.hostname /\ (Parsed(Endpoint) => (result.port <=> Endpoint.port))
    /\ HiddenStaysHidden

\* The context is looked at while something is to be stored in it, too
InContext == context # Unset \/ (stage = "store" /\ unsaved # {})
IsOfAnswers(p) ==
    \/ p \in DOMAIN subject.context /\ context[p] = subject.context[p]
    \/ \E i \in DOMAIN answers : IsStoredAs(context[p], p, subject.endpoints[i], answers[i])
ContextKnown ==
    stage # "idle" /\ InContext =>
        \A p \in DOMAIN context :
            IsOfAnswers(p) \/ (stage = "store" /\ IsStoredAs(context[p], p, Endpoint, answer))
StoresKnown ==
    stage = "store" =>
        /\ unsaved \subseteq DOMAIN Endpoint.store
        /\ InContext => \A p \in DOMAIN Endpoint.store \ unsaved : IsStored(p, Endpoint, answer)

ChecksInv ==
    /\ StageKnown /\ AnswersKnown /\ AnswerAgrees /\ HealthKnown /\ RegistryKnown /\ CacheKnown /\ DomainKnown
    /\ ErrorsKnown /\ ContextKnown /\ StoresKnown /\ StoredForTheNext

\* What a call sets of a result
CallFields == {"success", "connected", "status", "rcode", "duration", "certificate", "body"}

\* At first there is nothing to check, and the registry never changed.
LEMMA ChecksStart == ChecksInit => ChecksInv
<1> SUFFICES ASSUME ChecksInit PROVE ChecksInv
  OBVIOUS
<1>1. StageKnown /\ RegistryKnown /\ CacheKnown
  BY ChecksAssumption DEF ChecksInit, StageKnown, RegistryKnown, CacheKnown, CheckStages
<1>2. AnswersKnown
  <2>1. answers \in Seq({}) /\ stage = "idle"
    BY DEF ChecksInit
  <2> QED
    BY <2>1 DEF AnswersKnown
<1>3. AnswerAgrees /\ HealthKnown /\ DomainKnown /\ ErrorsKnown /\ ContextKnown /\ StoresKnown /\ StoredForTheNext
  BY DEF ChecksInit, AnswerAgrees, HealthKnown, DomainKnown, ErrorsKnown, ContextKnown, StoresKnown,
     StoredForTheNext, HiddenStaysHidden, CheckStages, BeforeCall
<1> QED
  BY <1>1, <1>2, <1>3 DEF ChecksInv

\* A placeholder has the same text in two results that have the same body and address where it asks for them.
LEMMA ResolveAgrees ==
  ASSUME NEW e, NEW r, NEW a, NEW c, NEW element, AgreeOn(e, r, a),
         element.of = "BODY" => r.body = a.body, element.of = "IP" => r.ip = a.ip
  PROVE  Resolve(element, r, c) = Resolve(element, a, c)
<1>1. CASE element.of = "BODY"
  BY <1>1 DEF Resolve
<1>2. CASE element.of # "BODY"
  <2>1. DOMAIN Plain(r) = DOMAIN Plain(a)
    BY DEF Plain
  <2>2. element.of \in DOMAIN Plain(r) => Plain(r)[element.of] = Plain(a)[element.of]
    BY DEF Plain, AgreeOn
  <2> QED
    BY <1>2, <2>1, <2>2 DEF Resolve
<1> QED
  BY <1>1, <1>2

\* What an element of the conditions or of the store of an endpoint is, when it is written as it is looked for.
LEMMA ElementAgrees ==
  ASSUME NEW e, NEW r, NEW a, NEW c, NEW element \in Elements(e) \cup Stored(e), AgreeOn(e, r, a), IsAsLookedFor(e)
  PROVE  Resolve(element, r, c) = Resolve(element, a, c)
<1>1. element.of = "BODY" => r.body = a.body
  BY DEF IsAsLookedFor, NeedsBody, AgreeOn
<1>2. element.of = "IP" => r.ip = a.ip
  BY DEF IsAsLookedFor, NeedsIP, AgreeOn
<1> QED
  BY <1>1, <1>2, ResolveAgrees

\* The conditions hold for a result if and only if they hold for what the target answered.
LEMMA ConditionsAgree ==
  ASSUME NEW e, NEW r, NEW a, NEW c, AgreeOn(e, r, a), IsAsLookedFor(e)
  PROVE  AllHold(e, r, c) <=> AllHold(e, a, c)
<1>1. ASSUME NEW i \in DOMAIN e.conditions PROVE Holds(e.conditions[i], r, c) <=> Holds(e.conditions[i], a, c)
  <2> DEFINE k == e.conditions[i]
  <2>1. k.left \in Elements(e) /\ k.right \in Elements(e)
    BY <1>1 DEF Elements
  <2>2. Resolve(k.left, r, c) = Resolve(k.left, a, c)
    BY <2>1, ElementAgrees
  <2>3. Resolve(k.right, r, c) = Resolve(k.right, a, c)
    BY <2>1, ElementAgrees
  <2> QED
    BY <2>2, <2>3 DEF Holds
<1> QED
  BY <1>1 DEF AllHold

\* What is stored of a result is what would be stored of the answer.
LEMMA ExtractedAgrees ==
  ASSUME NEW e, NEW r, NEW a, NEW p \in DOMAIN e.store, AgreeOn(e, r, a), IsAsLookedFor(e)
  PROVE  Extracted(e.store[p], r) = Extracted(e.store[p], a)
  BY ElementAgrees DEF Extracted, Stored

\* A call sets its fields and leaves the others.
LEMMA WithSets ==
  ASSUME NEW r, NEW fields, IsResult(r), DOMAIN fields \subseteq CallFields
  PROVE  /\ IsResult(With(r, fields))
         /\ With(r, fields).errors = r.errors /\ With(r, fields).ip = r.ip /\ With(r, fields).domain = r.domain
         /\ With(r, fields).hostname = r.hostname /\ With(r, fields).port = r.port
         /\ \A f \in CallFields : With(r, fields)[f] = IF f \in DOMAIN fields THEN fields[f] ELSE r[f]
  BY DEF With, IsResult, ResultFields, CallFields

\* A call that sets the same of the result and of the answer leaves them in agreement.
LEMMA WithAgrees ==
  ASSUME NEW e, NEW r, NEW a, NEW fields, AgreeOn(e, r, a), DOMAIN fields \subseteq CallFields
  PROVE  AgreeOn(e, With(r, fields), With(a, fields))
<1>1. \A f \in CallFields : r[f] = a[f] => With(r, fields)[f] = With(a, fields)[f]
  BY WithSets DEF AgreeOn
<1>2. /\ IsResult(With(r, fields)) /\ IsResult(With(a, fields))
      /\ With(r, fields).ip = r.ip /\ With(a, fields).ip = a.ip
      /\ With(r, fields).domain = r.domain /\ With(a, fields).domain = a.domain
  BY WithSets DEF AgreeOn
<1> QED
  BY <1>1, <1>2 DEF AgreeOn, CallFields

-----------------------------------------------------------------------------

\* What an error of the check can be
LEMMA ErrorIsKnown ==
  ASSUME NEW e, NEW url \in Forms, NEW parts \in SUBSET ({"hostname"} \cup PortOf(e))
  PROVE  IsErrorOf(e, Error(url, parts))
  BY DEF IsErrorOf

\* What the steps of a check leave alone.
LEMMA WithinCheck ==
  ASSUME ChecksInv, UNCHANGED <<world, position, whois, answers>>, stage \in CheckStages, stage' \in CheckStages
  PROVE  /\ Endpoint' = Endpoint /\ position \in DOMAIN subject.endpoints /\ Len(answers) = position - 1
         /\ StageKnown' /\ AnswersKnown' /\ RegistryKnown' /\ CacheKnown'
         /\ \A date : IsRecent(date)' <=> IsRecent(date)
<1>1. Endpoint' = Endpoint
  BY DEF Endpoint, world
<1>2. StageKnown' /\ position \in DOMAIN subject.endpoints
  BY DEF ChecksInv, StageKnown, CheckStages, world
<1>3. AnswersKnown' /\ Len(answers) = position - 1
  BY DEF ChecksInv, AnswersKnown, CheckStages, world
<1>4. RegistryKnown' /\ CacheKnown'
  BY DEF ChecksInv, RegistryKnown, CacheKnown, world, IsDated
<1>5. \A date : IsRecent(date)' <=> IsRecent(date)
  BY DEF IsRecent, world
<1> QED
  BY <1>1, <1>2, <1>3, <1>4, <1>5

\* Nothing is stored before it is time to.
LEMMA NothingStored ==
  ASSUME ChecksInv, UNCHANGED <<world, position, whois, answers, context>>, stage \in CheckStages \ {"store"},
         stage' \in CheckStages \ {"store"}
  PROVE  ContextKnown' /\ StoresKnown' /\ StoredForTheNext' /\ HiddenStaysHidden'
<1>1. /\ ContextKnown /\ "store" # "idle" /\ stage # "idle" /\ stage # "store" /\ stage' # "store" /\ stage' # "next"
      /\ subject' = subject
  BY DEF ChecksInv, CheckStages, world
<1>2. InContext' <=> InContext
  BY <1>1 DEF InContext
<1>3. \A p : IsOfAnswers(p)' <=> IsOfAnswers(p)
  BY <1>1 DEF IsOfAnswers
<1>4. ContextKnown'
  BY <1>1, <1>2, <1>3 DEF ContextKnown
<1> QED
  BY <1>1, <1>4 DEF StoresKnown, StoredForTheNext, HiddenStaysHidden

\* The endpoint whose turn it is belongs to the subject, which asks the registry of domains when its endpoint does.
LEMMA EndpointKnown ==
  ASSUME ChecksInv, stage \in CheckStages
  PROVE  /\ Endpoint.hides \subseteq {"url", "hostname", "port", "errors", "conditions"}
         /\ NeedsDomain(Endpoint) => IsDated(subject)
<1>1. subject \in Subjects /\ position \in DOMAIN subject.endpoints
  BY DEF ChecksInv, StageKnown
<1>2. Endpoint.hides \subseteq {"url", "hostname", "port", "errors", "conditions"}
  BY <1>1, ChecksAssumption DEF Endpoint
<1> QED
  BY <1>1, <1>2 DEF Endpoint, IsDated

\* A check begins with what is known before it.
LEMMA StartKeeps == ChecksInv /\ StartCheck => ChecksInv'
<1> SUFFICES ASSUME ChecksInv, StartCheck PROVE ChecksInv'
  OBVIOUS
<1>1. /\ stage = "next" /\ stage' = "address" /\ position <= Len(subject.endpoints)
      /\ subject' = subject /\ registry' = registry /\ day' = day /\ position' = position /\ context' = context
      /\ whois' = whois /\ answers' = answers /\ unsaved' = unsaved
  BY DEF StartCheck, world
<1> DEFINE e == Endpoint
<1>2. Endpoint' = e
  BY <1>1 DEF Endpoint
<1>3. StageKnown'
  BY <1>1, ChecksAssumption DEF ChecksInv, StageKnown, CheckStages
<1>4. AnswersKnown' /\ RegistryKnown' /\ CacheKnown'
  BY <1>1 DEF ChecksInv, AnswersKnown, RegistryKnown, CacheKnown
<1>5. PICK none : none = Error("no", {})
  OBVIOUS
<1>6. /\ result' = [NewResult EXCEPT !.errors = {none : p \in Unresolved(e)}]
      /\ answer' = [NewResult EXCEPT !.ip = IF NeedsIP(e) THEN "" ELSE subject.answers.address]
  BY <1>5 DEF StartCheck
<1>7. /\ IsResult(NewResult) /\ NewResult.ip = "" /\ NewResult.body = NoBody /\ NewResult.errors = {}
      /\ NewResult.success = TRUE
  BY DEF NewResult, IsResult, ResultFields
<1>8. PICK new : new = NewResult
  OBVIOUS
<1>9. /\ IsResult(result') /\ IsResult(answer') /\ result'.errors = {none : p \in Unresolved(e)}
      /\ answer'.ip = (IF NeedsIP(e) THEN "" ELSE subject.answers.address)
      /\ \A f \in ResultFields \ {"errors"} : result'[f] = new[f]
      /\ \A f \in ResultFields \ {"ip"} : answer'[f] = new[f]
  BY <1>6, <1>7, <1>8 DEF IsResult, ResultFields
<1>10. AgreeOn(e, result', answer')
  BY <1>7, <1>8, <1>9 DEF AgreeOn, ResultFields
<1>11. AnswerAgrees'
  BY <1>2, <1>10 DEF AnswerAgrees
<1>12. HealthKnown'
  <2>1. /\ result'.success = TRUE /\ answer'.success = TRUE /\ answer'.errors = {} /\ result'.body = NoBody
        /\ answer'.body = NoBody
    BY <1>7, <1>8, <1>9 DEF ResultFields
  <2> QED
    BY <1>1, <2>1 DEF HealthKnown, BeforeCall
<1>13. DomainKnown'
  BY <1>1 DEF DomainKnown
<1>14. ErrorsKnown'
  <2>1. IsErrorOf(e, none)
    <3>1. "no" \in Forms
      BY DEF Forms
    <3> QED
      BY <1>5, <3>1, ErrorIsKnown
  <2>2. (\A error \in result'.errors : IsErrorOf(e, error))
    BY <1>9, <2>1
  <2>3. answer'.hostname = FALSE
    <3>1. NewResult.hostname = FALSE
      BY DEF NewResult
    <3> QED
      BY <1>8, <1>9, <3>1 DEF ResultFields
  <2> QED
    BY <1>1, <1>2, <2>2, <2>3 DEF ErrorsKnown, HiddenStaysHidden
<1>15. ContextKnown'
  <2>1. \A p : IsOfAnswers(p)' <=> IsOfAnswers(p)
    BY <1>1 DEF IsOfAnswers
  <2>2. InContext' <=> InContext
    BY <1>1 DEF InContext
  <2> QED
    BY <1>1, <2>1, <2>2 DEF ChecksInv, ContextKnown
<1>16. StoresKnown' /\ StoredForTheNext'
  BY <1>1 DEF StoresKnown, StoredForTheNext
<1> QED
  BY <1>3, <1>4, <1>11, <1>12, <1>13, <1>14, <1>15, <1>16 DEF ChecksInv

\* The hostname is known once the URL is parsed, or there is an error.
LEMMA ParseKeeps == ChecksInv /\ ParseAddress => ChecksInv'
<1> SUFFICES ASSUME ChecksInv, ParseAddress PROVE ChecksInv'
  OBVIOUS
<1>1. /\ stage = "address" /\ stage' = "ip"
      /\ UNCHANGED <<world, position, failed, unsaved, context, whois, answers>>
  BY DEF ParseAddress
<1>2. /\ Endpoint' = Endpoint /\ StageKnown' /\ AnswersKnown' /\ RegistryKnown' /\ CacheKnown'
      /\ ContextKnown' /\ StoresKnown' /\ StoredForTheNext' /\ HiddenStaysHidden'
  BY <1>1, WithinCheck, NothingStored DEF CheckStages
<1>3. /\ AgreeOn(Endpoint, result, answer) /\ result.success /\ answer.success /\ answer.errors = {}
      /\ result.body = NoBody /\ answer.body = NoBody /\ (\A error \in result.errors : IsErrorOf(Endpoint, error))
      /\ (answer.hostname => result.hostname /\ (Parsed(Endpoint) => (result.port <=> Endpoint.port)))
  BY <1>1 DEF ChecksInv, AnswerAgrees, HealthKnown, ErrorsKnown, CheckStages, BeforeCall
<1>4. PICK broken : /\ broken = Error("literal", {}) \/ broken = Error("other", {"hostname"} \cup PortOf(Endpoint))
                    /\ \/ /\ result' = [result EXCEPT !.hostname = TRUE, !.port = Endpoint.port /\ Parsed(Endpoint)]
                          /\ answer' = [answer EXCEPT !.hostname = TRUE]
                       \/ result' = [result EXCEPT !.errors = @ \cup {broken}] /\ answer' = answer
  BY DEF ParseAddress
<1>5. IsErrorOf(Endpoint, broken)
  <2>1. "literal" \in Forms /\ "other" \in Forms
    BY DEF Forms
  <2>2. CASE broken = Error("literal", {})
    BY <2>1, <2>2, ErrorIsKnown
  <2>3. CASE broken = Error("other", {"hostname"} \cup PortOf(Endpoint))
    BY <2>1, <2>3, ErrorIsKnown
  <2> QED
    BY <1>4, <2>2, <2>3
<1>6. PICK port : port = (Endpoint.port /\ Parsed(Endpoint))
  OBVIOUS
<1>7. PICK yes : yes = TRUE
  OBVIOUS
<1>8. \/ /\ result' = [result EXCEPT !.hostname = yes, !.port = port]
         /\ answer' = [answer EXCEPT !.hostname = yes]
      \/ result' = [result EXCEPT !.errors = @ \cup {broken}] /\ answer' = answer
  BY <1>4, <1>6, <1>7
<1>9. /\ AgreeOn(Endpoint, result', answer') /\ result'.success = result.success /\ answer'.success = answer.success
      /\ answer'.errors = {} /\ result'.body = NoBody /\ answer'.body = NoBody
  BY <1>3, <1>8 DEF AgreeOn, IsResult, ResultFields
<1>10. /\ (\A error \in result'.errors : IsErrorOf(Endpoint, error))
       /\ result'.hostname \/ result'.errors # {}
  <2>1. CASE result' = [result EXCEPT !.hostname = yes, !.port = port]
    <3>1. result'.errors = result.errors /\ result'.hostname = yes
      BY <1>3, <2>1 DEF AgreeOn, IsResult, ResultFields
    <3> QED
      BY <1>3, <1>7, <3>1
  <2>2. CASE result' = [result EXCEPT !.errors = @ \cup {broken}]
    <3>1. result'.errors = result.errors \cup {broken}
      BY <1>3, <2>2 DEF AgreeOn, IsResult, ResultFields
    <3> QED
      BY <1>3, <1>5, <3>1
  <2> QED
    BY <1>8, <2>1, <2>2
<1>11. answer'.hostname => result'.hostname /\ (Parsed(Endpoint) => (result'.port <=> Endpoint.port))
  <2>1. CASE result'.port = port /\ result'.hostname = yes
    BY <1>6, <1>7, <2>1
  <2>2. CASE result' = [result EXCEPT !.errors = @ \cup {broken}] /\ answer' = answer
    <3>1. result'.port = result.port /\ result'.hostname = result.hostname /\ answer'.hostname = answer.hostname
      BY <1>3, <2>2 DEF AgreeOn, IsResult, ResultFields
    <3> QED
      BY <1>3, <3>1
  <2> QED
    BY <1>3, <1>8, <2>1, <2>2 DEF AgreeOn, IsResult, ResultFields
<1>12. AnswerAgrees' /\ HealthKnown'
  BY <1>1, <1>2, <1>3, <1>9 DEF AnswerAgrees, HealthKnown, BeforeCall
<1>13. DomainKnown'
  BY <1>1, <1>10 DEF DomainKnown
<1>14. ErrorsKnown'
  BY <1>1, <1>2, <1>10, <1>11 DEF ErrorsKnown, CheckStages
<1> QED
  BY <1>2, <1>12, <1>13, <1>14 DEF ChecksInv

\* The address is looked up for the result and for the answer.
LEMMA LookUpKeeps == ChecksInv /\ LookUpIP => ChecksInv'
<1> SUFFICES ASSUME ChecksInv, LookUpIP PROVE ChecksInv'
  OBVIOUS
<1>1. /\ stage = "ip" /\ stage' = "domain"
      /\ UNCHANGED <<world, position, failed, unsaved, context, whois, answers>>
  BY DEF LookUpIP
<1>2. /\ Endpoint' = Endpoint /\ StageKnown' /\ AnswersKnown' /\ RegistryKnown' /\ CacheKnown'
      /\ ContextKnown' /\ StoresKnown' /\ StoredForTheNext' /\ HiddenStaysHidden'
  BY <1>1, WithinCheck, NothingStored DEF CheckStages
<1>3. /\ AgreeOn(Endpoint, result, answer) /\ result.success /\ answer.success /\ answer.errors = {}
      /\ result.body = NoBody /\ answer.body = NoBody /\ (\A error \in result.errors : IsErrorOf(Endpoint, error))
      /\ (answer.hostname => result.hostname /\ (Parsed(Endpoint) => (result.port <=> Endpoint.port)))
      /\ result.hostname \/ result.errors # {}
  BY <1>1 DEF ChecksInv, AnswerAgrees, HealthKnown, ErrorsKnown, DomainKnown, CheckStages, BeforeCall
<1>4. PICK unknown : unknown = Error("no", {"hostname"})
  OBVIOUS
<1>5. IsErrorOf(Endpoint, unknown)
  <2>1. "no" \in Forms
    BY DEF Forms
  <2> QED
    BY <1>4, <2>1, ErrorIsKnown
<1>6. \/ result' = result /\ answer' = answer
      \/ /\ result' = [result EXCEPT !.ip = subject.answers.address]
         /\ answer' = [answer EXCEPT !.ip = subject.answers.address]
      \/ result' = [result EXCEPT !.errors = @ \cup {unknown}] /\ answer' = answer
  BY <1>4 DEF LookUpIP
<1>7. /\ AgreeOn(Endpoint, result', answer') /\ result'.success = result.success /\ answer'.success = answer.success
      /\ answer'.errors = {} /\ result'.body = NoBody /\ answer'.body = NoBody
      /\ (\A error \in result'.errors : IsErrorOf(Endpoint, error))
      /\ result'.port = result.port /\ result'.hostname = result.hostname /\ answer'.hostname = answer.hostname
      /\ result.errors \subseteq result'.errors
  <2>1. CASE result' = result /\ answer' = answer
    BY <1>3, <2>1
  <2>2. CASE /\ result' = [result EXCEPT !.ip = subject.answers.address]
             /\ answer' = [answer EXCEPT !.ip = subject.answers.address]
    BY <1>3, <2>2 DEF AgreeOn, IsResult, ResultFields
  <2>3. CASE result' = [result EXCEPT !.errors = @ \cup {unknown}] /\ answer' = answer
    BY <1>3, <1>5, <2>3 DEF AgreeOn, IsResult, ResultFields
  <2> QED
    BY <1>6, <2>1, <2>2, <2>3
<1>8. AnswerAgrees' /\ HealthKnown'
  BY <1>1, <1>2, <1>3, <1>7 DEF AnswerAgrees, HealthKnown, BeforeCall
<1>9. DomainKnown'
  BY <1>1, <1>3, <1>7 DEF DomainKnown
<1>10. ErrorsKnown'
  BY <1>1, <1>2, <1>3, <1>7 DEF ErrorsKnown, CheckStages
<1> QED
  BY <1>2, <1>8, <1>9, <1>10 DEF ChecksInv

\* A date that the registry gives is recent, and one of the cache until its entry ends.
LEMMA CachedIsRecent == ChecksInv /\ IsDated(subject) /\ Cached => whois.date \in Int /\ IsRecent(whois.date)
<1> SUFFICES ASSUME ChecksInv, IsDated(subject), Cached PROVE whois.date \in Int /\ IsRecent(whois.date)
  OBVIOUS
<1>1. /\ whois.date = registry.date \/ whois.date = registry.before
      /\ registry.date \in Int /\ registry.before \in Int /\ registry.since \in 0..day /\ day \in Nat
  BY DEF ChecksInv, CacheKnown, RegistryKnown, StageKnown, Cached
<1>2. PICK read \in 0..day :
         /\ whois.until = read + Lasts(whois.date, read)
         /\ whois.date # registry.date => read <= registry.since
  BY DEF ChecksInv, CacheKnown, Cached
<1>3. day < whois.until
  BY DEF Cached
<1>4. ASSUME whois.date # registry.date PROVE read \in 0..registry.since /\ day - read < Lasts(registry.before, read)
  <2>1. whois.date = registry.before /\ Lasts(registry.before, read) \in Int
    BY <1>1, <1>4 DEF Lasts
  <2> QED
    BY <1>1, <1>2, <1>3, <1>4, <2>1
<1> QED
  BY <1>1, <1>4 DEF IsRecent

\* The date is the cached one, or that of the registry, which is cached.
LEMMA DomainKeeps == ChecksInv /\ CheckDomain => ChecksInv'
<1> SUFFICES ASSUME ChecksInv, CheckDomain PROVE ChecksInv'
  OBVIOUS
<1>1. /\ stage = "domain" /\ stage' = "call"
      /\ UNCHANGED <<world, position, failed, unsaved, context, answers>>
  BY DEF CheckDomain
<1> DEFINE e == Endpoint
<1>2. /\ subject' = subject /\ registry' = registry /\ day' = day /\ position' = position /\ context' = context
      /\ answers' = answers /\ Endpoint' = e
  BY <1>1 DEF world, Endpoint
<1>3. /\ AgreeOn(e, result, answer) /\ result.success /\ answer.success /\ answer.errors = {}
      /\ result.body = NoBody /\ answer.body = NoBody /\ (\A error \in result.errors : IsErrorOf(e, error))
      /\ (answer.hostname => result.hostname /\ (Parsed(e) => (result.port <=> e.port)))
      /\ result.hostname \/ result.errors # {}
  BY <1>1 DEF ChecksInv, AnswerAgrees, HealthKnown, ErrorsKnown, DomainKnown, CheckStages, BeforeCall
<1>4. StageKnown' /\ AnswersKnown' /\ RegistryKnown' /\ StoresKnown' /\ StoredForTheNext' /\ HiddenStaysHidden'
  BY <1>1, <1>2 DEF ChecksInv, StageKnown, CheckStages, AnswersKnown, RegistryKnown, StoresKnown, StoredForTheNext,
     HiddenStaysHidden
<1>5. ContextKnown'
  <2>1. \A p : IsOfAnswers(p)' <=> IsOfAnswers(p)
    BY <1>2 DEF IsOfAnswers
  <2>2. InContext' <=> InContext
    BY <1>1 DEF InContext
  <2> QED
    BY <1>1, <1>2, <2>1, <2>2 DEF ChecksInv, ContextKnown
<1>6. /\ registry.since \in 0..day /\ day \in Nat
      /\ NeedsDomain(e) => IsDated(subject) /\ registry.date \in Int /\ registry.before \in Int
  BY <1>1, EndpointKnown DEF ChecksInv, RegistryKnown, StageKnown, CheckStages
<1>7. PICK unknown : unknown = Error("no", {"hostname"})
  OBVIOUS
<1>8. IsErrorOf(e, unknown)
  <2>1. "no" \in Forms
    BY DEF Forms
  <2> QED
    BY <1>7, <2>1, ErrorIsKnown
<1>9. \/ result' = result /\ whois' = whois /\ (~NeedsDomain(e) \/ ~result.hostname)
      \/ /\ NeedsDomain(e) /\ Cached /\ whois' = whois
         /\ result' = [result EXCEPT !.domain = whois.date - day]
      \/ /\ NeedsDomain(e) /\ AskRegistry
      \/ /\ NeedsDomain(e) /\ whois' = whois /\ result' = [result EXCEPT !.errors = @ \cup {unknown}]
  BY <1>7 DEF CheckDomain, FreshEnough, UseDate, RegistrySilent
<1>10. IsRecent(registry.date)
  BY DEF IsRecent
<1>12. /\ IsResult(result') /\ (\A f \in ResultFields \ {"domain", "errors"} : result'[f] = result[f])
       /\ result.errors \subseteq result'.errors /\ (\A error \in result'.errors : IsErrorOf(e, error))
       /\ NeedsDomain(e) /\ result'.errors = {} => IsRecent(result'.domain + day)
       /\ CacheKnown'
  <2>1. CASE result' = result /\ whois' = whois /\ (~NeedsDomain(e) \/ ~result.hostname)
    <3>1. CacheKnown'
      BY <1>2, <2>1 DEF ChecksInv, CacheKnown
    <3> QED
      BY <1>3, <2>1, <3>1 DEF AgreeOn
  <2>2. CASE NeedsDomain(e) /\ Cached /\ whois' = whois /\ result' = [result EXCEPT !.domain = whois.date - day]
    <3>1. CacheKnown'
      BY <1>2, <2>2 DEF ChecksInv, CacheKnown
    <3>2. whois.date \in Int /\ IsRecent(whois.date)
      BY <1>6, <2>2, CachedIsRecent
    <3>3. PICK date \in Int : date = whois.date
      BY <3>2
    <3>4. (date - day) + day = date
      BY <1>6, <3>3
    <3>5. /\ IsResult(result') /\ (\A f \in ResultFields \ {"domain"} : result'[f] = result[f])
          /\ result'.domain = date - day
      BY <1>3, <2>2, <3>3 DEF AgreeOn, IsResult, ResultFields
    <3>6. IsRecent(result'.domain + day)
      BY <3>2, <3>3, <3>4, <3>5
    <3>7. result'.errors = result.errors
      BY <3>5 DEF ResultFields
    <3> QED
      BY <1>3, <3>1, <3>5, <3>6, <3>7
  <2>3. CASE NeedsDomain(e) /\ AskRegistry
    <3>1. CacheKnown'
      <4>1. /\ whois'.date = registry.date
            /\ whois'.until = day + IF registry.date - day > 30 THEN 10 ELSE 3
        BY <2>3 DEF AskRegistry
      <4>2. whois'.until = day + Lasts(whois'.date, day)
        BY <4>1 DEF Lasts
      <4> QED
        BY <1>2, <1>6, <4>1, <4>2 DEF CacheKnown
    <3>2. PICK date \in Int : date = registry.date
      BY <1>6, <2>3
    <3>3. (date - day) + day = date
      BY <1>6, <3>2
    <3>4. /\ IsResult(result') /\ (\A f \in ResultFields \ {"domain"} : result'[f] = result[f])
          /\ result'.domain = date - day
      BY <1>3, <2>3, <3>2 DEF AskRegistry, UseDate, AgreeOn, IsResult, ResultFields
    <3>5. IsRecent(result'.domain + day)
      BY <1>10, <3>2, <3>3, <3>4
    <3>6. result'.errors = result.errors
      BY <3>4 DEF ResultFields
    <3> QED
      BY <1>3, <3>1, <3>4, <3>5, <3>6
  <2>4. CASE NeedsDomain(e) /\ whois' = whois /\ result' = [result EXCEPT !.errors = @ \cup {unknown}]
    <3>1. CacheKnown'
      BY <1>2, <2>4 DEF ChecksInv, CacheKnown
    <3>2. /\ IsResult(result') /\ (\A f \in ResultFields \ {"errors"} : result'[f] = result[f])
          /\ result'.errors = result.errors \cup {unknown}
      BY <1>3, <2>4 DEF AgreeOn, IsResult, ResultFields
    <3> QED
      BY <1>3, <1>8, <3>1, <3>2
  <2> QED
    BY <1>9, <2>1, <2>2, <2>3, <2>4
<1>13. answer' = [answer EXCEPT !.domain = result'.domain]
  BY DEF CheckDomain
<1>14. /\ IsResult(answer') /\ (\A f \in ResultFields \ {"domain"} : answer'[f] = answer[f])
       /\ answer'.domain = result'.domain
  BY <1>3, <1>13 DEF AgreeOn, IsResult, ResultFields
<1>15. AgreeOn(e, result', answer')
  BY <1>3, <1>12, <1>14 DEF AgreeOn, ResultFields
<1>16. /\ result'.success = result.success /\ result'.body = result.body /\ result'.port = result.port
       /\ result'.hostname = result.hostname
       /\ answer'.success = answer.success /\ answer'.body = answer.body /\ answer'.errors = answer.errors
       /\ answer'.hostname = answer.hostname
  BY <1>12, <1>14 DEF ResultFields
<1>17. AnswerAgrees' /\ HealthKnown'
  BY <1>1, <1>2, <1>3, <1>15, <1>16 DEF AnswerAgrees, HealthKnown, BeforeCall
<1>18. DomainKnown'
  <2>1. result'.hostname \/ result'.errors # {}
    BY <1>3, <1>12, <1>16
  <2>2. NeedsDomain(e) /\ result'.errors = {} => IsRecent(result.domain + day)'
    BY <1>2, <1>12 DEF IsRecent
  <2> QED
    BY <1>1, <1>2, <2>1, <2>2 DEF DomainKnown
<1>19. ErrorsKnown'
  BY <1>1, <1>2, <1>3, <1>4, <1>12, <1>16 DEF ErrorsKnown, CheckStages
<1> QED
  BY <1>4, <1>5, <1>12, <1>17, <1>18, <1>19 DEF ChecksInv

\* A call decides the health of the check, and leaves its date, address and parts of the URL.
LEMMA CallKeeps ==
  ASSUME ChecksInv, stage = "call", stage' = "conditions",
         UNCHANGED <<world, position, failed, unsaved, context, whois, answers>>,
         AgreeOn(Endpoint, result', answer'),
         result'.success <=> answer'.errors = {} /\ answer'.success,
         answer'.errors = {} => result.errors = {} /\ result'.domain = result.domain,
         \A error \in result'.errors : IsErrorOf(Endpoint, error),
         result'.port = result.port, result'.hostname = result.hostname, answer'.hostname = answer.hostname
  PROVE  ChecksInv'
<1>1. /\ Endpoint' = Endpoint /\ StageKnown' /\ AnswersKnown' /\ RegistryKnown' /\ CacheKnown'
      /\ ContextKnown' /\ StoresKnown' /\ StoredForTheNext' /\ HiddenStaysHidden'
  BY WithinCheck, NothingStored DEF CheckStages
<1>2. AnswerAgrees' /\ HealthKnown'
  BY <1>1 DEF AnswerAgrees, HealthKnown, BeforeCall
<1>3. DomainKnown'
  <2>1. NeedsDomain(Endpoint) /\ answer'.errors = {} => IsRecent(result.domain + day)
    BY DEF ChecksInv, DomainKnown
  <2>2. NeedsDomain(Endpoint) /\ answer'.errors = {} => IsRecent(result.domain + day)'
    BY <2>1 DEF IsRecent, world
  <2> QED
    BY <1>1, <2>2 DEF DomainKnown
<1>4. ErrorsKnown'
  <2>1. answer'.hostname => result'.hostname /\ (Parsed(Endpoint) => (result'.port <=> Endpoint.port))
    BY DEF ChecksInv, ErrorsKnown, CheckStages
  <2> QED
    BY <1>1, <2>1 DEF ErrorsKnown, CheckStages
<1> QED
  BY <1>1, <1>2, <1>3, <1>4 DEF ChecksInv

\* What is set when the target answers: the whole body, or what is needed of it; it is no failure
IsGot(e, fields, body) ==
    /\ DOMAIN fields \subseteq CallFields
    /\ "success" \in DOMAIN fields => fields.success
    /\ IF "body" \in DOMAIN fields THEN NeedsBody(e) => fields.body = body ELSE body = NoBody

\* What is known when the call is made.
LEMMA CallBegins ==
  ASSUME ChecksInv, stage = "call"
  PROVE  /\ AgreeOn(Endpoint, result, answer) /\ result.success /\ answer.success /\ answer.errors = {}
         /\ result.body = NoBody /\ answer.body = NoBody
         /\ \A error \in result.errors : IsErrorOf(Endpoint, error)
  BY DEF ChecksInv, AnswerAgrees, HealthKnown, ErrorsKnown, CheckStages, BeforeCall

\* An answer is a success so far.
LEMMA GetsKeeps ==
  ASSUME ChecksInv, stage = "call", stage' = "conditions", result.errors = {}, NEW fields, NEW body,
         Gets(fields, body), IsGot(Endpoint, fields, body)
  PROVE  ChecksInv'
<1>1. /\ AgreeOn(Endpoint, result, answer) /\ result.success /\ answer.success /\ answer.errors = {}
      /\ result.body = NoBody /\ answer.body = NoBody
  BY CallBegins
<1> DEFINE after == With(answer, fields)
<1>2. result' = With(result, fields) /\ answer' = [after EXCEPT !.body = body]
  BY DEF Gets
<1>3. AgreeOn(Endpoint, With(result, fields), after)
  BY <1>1, WithAgrees DEF IsGot
<1>4. /\ With(result, fields).errors = result.errors /\ With(result, fields).domain = result.domain
      /\ With(result, fields).port = result.port /\ With(result, fields).hostname = result.hostname
      /\ \A f \in CallFields : With(result, fields)[f] = IF f \in DOMAIN fields THEN fields[f] ELSE result[f]
  BY <1>1, WithSets DEF IsGot, AgreeOn
<1>5. /\ after.errors = answer.errors /\ after.hostname = answer.hostname
      /\ \A f \in CallFields : after[f] = IF f \in DOMAIN fields THEN fields[f] ELSE answer[f]
  BY <1>1, WithSets DEF IsGot, AgreeOn
<1> HIDE DEF after
<1>6. IsResult(after)
  BY <1>3 DEF AgreeOn
<1>7. /\ \A f \in ResultFields \ {"body"} : answer'[f] = after[f]
      /\ answer'.body = body /\ IsResult(answer')
  BY <1>2, <1>6 DEF IsResult, ResultFields
<1>8. NeedsBody(Endpoint) => result'.body = body
  BY <1>1, <1>2, <1>4 DEF IsGot, CallFields
<1>9. AgreeOn(Endpoint, result', answer')
  BY <1>2, <1>3, <1>7, <1>8 DEF AgreeOn, ResultFields
<1>10. result'.success /\ answer'.success
  <2>1. answer'.success = after.success
    BY <1>7 DEF ResultFields
  <2>2. CASE "success" \in DOMAIN fields
    <3>1. result'.success = fields.success /\ after.success = fields.success
      BY <1>2, <1>4, <1>5, <2>2 DEF CallFields
    <3> QED
      BY <2>1, <2>2, <3>1 DEF IsGot
  <2>3. CASE "success" \notin DOMAIN fields
    <3>1. result'.success = result.success /\ after.success = answer.success
      BY <1>2, <1>4, <1>5, <2>3 DEF CallFields
    <3> QED
      BY <1>1, <2>1, <3>1
  <2> QED
    BY <2>2, <2>3
<1>11. /\ answer'.errors = {} /\ answer'.hostname = answer.hostname /\ result'.errors = {}
       /\ result'.domain = result.domain /\ result'.port = result.port /\ result'.hostname = result.hostname
  BY <1>1, <1>2, <1>4, <1>5, <1>7 DEF ResultFields
<1>12. UNCHANGED <<world, position, failed, unsaved, context, whois, answers>>
  BY DEF Gets
<1> QED
  BY <1>9, <1>10, <1>11, <1>12, CallKeeps

\* An error of the call is no failure by itself, but for a command that could not be run.
LEMMA FailsKeeps ==
  ASSUME ChecksInv, stage = "call", stage' = "conditions", result.errors = {}, NEW fields, NEW named \in BOOLEAN,
         Fails(fields, named), DOMAIN fields \subseteq CallFields
  PROVE  ChecksInv'
<1>1. AgreeOn(Endpoint, result, answer) /\ result.success /\ answer.success /\ answer.errors = {}
  BY CallBegins
<1> DEFINE after == With(result, fields)
<1>2. PICK url \in Forms, parts \in {{}, {"hostname"} \cup PortOf(Endpoint)} :
         /\ result' = [after EXCEPT !.errors = {Error(url, parts)}]
         /\ answer' = With(answer, fields)
         /\ UNCHANGED <<world, position, failed, unsaved, context, whois, answers>>
  BY DEF Fails, Forms
<1>3. PICK error : error = Error(url, parts)
  OBVIOUS
<1>4. IsErrorOf(Endpoint, error)
  BY <1>2, <1>3, ErrorIsKnown
<1>5. AgreeOn(Endpoint, after, answer')
  BY <1>1, <1>2, WithAgrees
<1>6. /\ after.domain = result.domain /\ after.port = result.port /\ after.hostname = result.hostname
      /\ \A f \in CallFields : after[f] = IF f \in DOMAIN fields THEN fields[f] ELSE result[f]
  BY <1>1, WithSets DEF AgreeOn
<1>7. /\ answer'.errors = answer.errors /\ answer'.hostname = answer.hostname
      /\ \A f \in CallFields : answer'[f] = IF f \in DOMAIN fields THEN fields[f] ELSE answer[f]
  BY <1>1, <1>2, WithSets DEF AgreeOn
<1> HIDE DEF after
<1>8. /\ \A f \in ResultFields \ {"errors"} : result'[f] = after[f]
      /\ result'.errors = {error} /\ IsResult(result')
  BY <1>2, <1>3, <1>5 DEF AgreeOn, IsResult, ResultFields
<1>9. AgreeOn(Endpoint, result', answer')
  BY <1>5, <1>8 DEF AgreeOn, ResultFields
<1>10. result'.success <=> answer'.success
  <2>1. result'.success = after.success
    BY <1>8 DEF ResultFields
  <2>2. CASE "success" \in DOMAIN fields
    BY <1>6, <1>7, <2>1, <2>2 DEF CallFields
  <2>3. CASE "success" \notin DOMAIN fields
    <3>1. after.success = result.success /\ answer'.success = answer.success
      BY <1>6, <1>7, <2>3 DEF CallFields
    <3> QED
      BY <1>1, <2>1, <3>1
  <2> QED
    BY <2>2, <2>3
<1>11. result'.domain = result.domain /\ result'.port = result.port /\ result'.hostname = result.hostname
  BY <1>6, <1>8 DEF ResultFields
<1> QED
  BY <1>1, <1>2, <1>4, <1>7, <1>8, <1>9, <1>10, <1>11, CallKeeps

\* Trouble before the call is a failure.
LEMMA DoNotCallKeeps == ChecksInv /\ DoNotCall => ChecksInv'
<1> SUFFICES ASSUME ChecksInv, DoNotCall PROVE ChecksInv'
  OBVIOUS
<1>1. /\ stage = "call" /\ result.errors # {} /\ stage' = "conditions"
      /\ UNCHANGED <<world, position, failed, unsaved, context, whois, answers>>
  BY DEF DoNotCall
<1>2. /\ AgreeOn(Endpoint, result, answer)
      /\ \A error \in result.errors : IsErrorOf(Endpoint, error)
  BY <1>1, CallBegins
<1>3. PICK no : no = FALSE
  OBVIOUS
<1>4. result' = [result EXCEPT !.success = no] /\ answer' = [answer EXCEPT !.errors = result.errors]
  BY <1>3 DEF DoNotCall
<1>5. /\ AgreeOn(Endpoint, result', answer') /\ result'.success = no /\ answer'.errors = result.errors
      /\ result'.errors = result.errors /\ result'.port = result.port /\ result'.hostname = result.hostname
      /\ answer'.hostname = answer.hostname
  BY <1>2, <1>4 DEF AgreeOn, IsResult, ResultFields
<1> QED
  BY <1>1, <1>2, <1>3, <1>5, CallKeeps

\* Every call of a target, of whatever type, gets an answer or fails.
LEMMA CallsKeep == ChecksInv /\ Call => ChecksInv'
<1> DEFINE Responded == \E fields, body : Gets(fields, body) /\ IsGot(Endpoint, fields, body)
           Failed == \E fields : \E named \in BOOLEAN : Fails(fields, named) /\ DOMAIN fields \subseteq CallFields
<1> SUFFICES ASSUME ChecksInv, Call PROVE ChecksInv'
  OBVIOUS
<1>1. ASSUME CallDNS PROVE Responded \/ Failed
  <2>1. \A c, b, d : IsGot(Endpoint, [rcode |-> c, body |-> b, connected |-> TRUE, duration |-> d], b)
    BY DEF IsGot, CallFields
  <2>2. DOMAIN [connected |-> FALSE] \subseteq CallFields
    BY DEF CallFields
  <2> QED
    BY <1>1, <2>1, <2>2, Zenon DEF CallDNS
<1>2. ASSUME CallTLS PROVE Responded \/ Failed
  <2>1. \A v, b, d : IsGot(Endpoint, [certificate |-> v, body |-> b, connected |-> TRUE, duration |-> d], b)
    BY DEF IsGot, CallFields
  <2>2. DOMAIN [connected |-> FALSE] \subseteq CallFields /\ DOMAIN [connected |-> TRUE] \subseteq CallFields
    BY DEF CallFields
  <2> QED
    BY <1>2, <2>1, <2>2, Zenon DEF CallTLS
<1>3. ASSUME CallNetwork PROVE Responded \/ Failed
  <2>1. \A b, d : IsGot(Endpoint, Received(b, d), b)
    BY DEF IsGot, CallFields, Received
  <2>2. \A d : IsGot(Endpoint, [connected |-> FALSE, duration |-> d], NoBody)
    BY DEF IsGot, CallFields
  <2> QED
    BY <1>3, <2>1, <2>2, Zenon DEF CallNetwork
<1>4. ASSUME CallICMP PROVE Responded \/ Failed
  <2>1. \A d : IsGot(Endpoint, Reached(d), NoBody)
    BY DEF IsGot, CallFields, Reached
  <2>2. \A d : IsGot(Endpoint, [connected |-> FALSE, duration |-> d], NoBody)
    BY DEF IsGot, CallFields
  <2> QED
    BY <1>4, <2>1, <2>2, Zenon DEF CallICMP
<1>5. ASSUME CallWebSocket PROVE Responded \/ Failed
  <2>1. \A b, d : IsGot(Endpoint, Received(b, d), b)
    BY DEF IsGot, CallFields, Received
  <2>2. DOMAIN [connected |-> FALSE] \subseteq CallFields
    BY DEF CallFields
  <2> QED
    BY <1>5, <2>1, <2>2, Zenon DEF CallWebSocket
<1>6. ASSUME CallSSHBanner PROVE Responded \/ Failed
  <2>1. \A d : IsGot(Endpoint, [status |-> 0, success |-> TRUE, connected |-> TRUE, duration |-> d], NoBody)
    BY DEF IsGot, CallFields
  <2>2. DOMAIN [connected |-> FALSE, status |-> 1] \subseteq CallFields
    BY DEF CallFields
  <2> QED
    BY <1>6, <2>1, <2>2, Zenon DEF CallSSHBanner
<1>7. ASSUME CallSSH PROVE Responded \/ Failed
  <2>1. \A s, b, d :
            IsGot(Endpoint, [status |-> s, success |-> TRUE, body |-> Read(b), connected |-> TRUE, duration |-> d], b)
    BY DEF IsGot, CallFields, Read
  <2>2. /\ DOMAIN [connected |-> FALSE] \subseteq CallFields
        /\ DOMAIN [connected |-> TRUE, success |-> FALSE, status |-> 0] \subseteq CallFields
    BY DEF CallFields
  <2> QED
    BY <1>7, <2>1, <2>2, Zenon DEF CallSSH
<1>8. ASSUME CallGRPC PROVE Responded \/ Failed
  <2>1. \A b, d : IsGot(Endpoint, Received(Read(b), d), b)
    BY DEF IsGot, CallFields, Received, Read
  <2>2. DOMAIN [connected |-> FALSE] \subseteq CallFields
    BY DEF CallFields
  <2> QED
    BY <1>8, <2>1, <2>2, Zenon DEF CallGRPC
<1>9. ASSUME CallHTTP PROVE Responded \/ Failed
  <2> DEFINE response(s, v, body, d) ==
                 [status |-> s, certificate |-> v, body |-> body, connected |-> TRUE, duration |-> d]
  <2>1. \A s, v, b, d : IsGot(Endpoint, response(s, v, Read(b), d), b)
    BY DEF IsGot, CallFields, Read
  <2>2. \A s, v, b, d : DOMAIN response(s, v, b, d) \subseteq CallFields
    BY DEF CallFields
  <2>3. \A d : DOMAIN [duration |-> d] \subseteq CallFields
    BY DEF CallFields
  <2>4. \/ \E s, v, b, d : Gets(response(s, v, Read(b), d), b)
        \/ \E s, v, part, d : Fails(response(s, v, part, d), FALSE)
        \/ \E d : Fails([duration |-> d], TRUE)
    BY <1>9, Zenon DEF CallHTTP
  <2> HIDE DEF response
  <2> QED
    BY <2>1, <2>2, <2>3, <2>4, Zenon
<1>10. CASE DoNotCall
  BY <1>10, DoNotCallKeeps
<1>11. CASE Responded \/ Failed
  <2>1. CASE DoNotCall
    BY <2>1, DoNotCallKeeps
  <2>2. CASE ~DoNotCall
    <3>1. stage = "call" /\ stage' = "conditions" /\ result.errors = {}
      BY <2>2 DEF Call, CallDNS, CallTLS, CallNetwork, CallICMP, CallWebSocket, CallSSHBanner, CallSSH, CallGRPC,
         CallHTTP, Calling
    <3> QED
      BY <1>11, <3>1, GetsKeeps, FailsKeeps
  <2> QED
    BY <2>1, <2>2
<1> HIDE DEF Responded, Failed
<1> QED
  BY <1>1, <1>2, <1>3, <1>4, <1>5, <1>6, <1>7, <1>8, <1>9, <1>10, <1>11 DEF Call

-----------------------------------------------------------------------------

\* The conditions are evaluated for the result, and would be the same for the answer.
LEMMA EvaluateKeeps == ChecksInv /\ EvaluateConditions => ChecksInv'
<1> SUFFICES ASSUME ChecksInv, EvaluateConditions PROVE ChecksInv'
  OBVIOUS
<1>1. /\ stage = "conditions" /\ stage' = "hide"
      /\ UNCHANGED <<world, position, failed, unsaved, context, whois, answer, answers>>
  BY DEF EvaluateConditions
<1> DEFINE e == Endpoint
<1>2. /\ Endpoint' = e /\ StageKnown' /\ AnswersKnown' /\ RegistryKnown' /\ CacheKnown'
      /\ ContextKnown' /\ StoresKnown' /\ StoredForTheNext' /\ HiddenStaysHidden'
  BY <1>1, WithinCheck, NothingStored DEF CheckStages
<1>3. /\ AgreeOn(e, result, answer) /\ (result.success <=> answer.errors = {} /\ answer.success)
      /\ (\A error \in result.errors : IsErrorOf(e, error))
      /\ (answer.hostname => result.hostname /\ (Parsed(e) => (result.port <=> e.port)))
      /\ NeedsDomain(e) /\ answer.errors = {} => IsRecent(result.domain + day)
  BY <1>1 DEF ChecksInv, AnswerAgrees, HealthKnown, ErrorsKnown, DomainKnown, CheckStages, BeforeCall
<1>4. PICK earned : earned = (result.success /\ AllHold(e, result, context))
  OBVIOUS
<1>5. PICK holds : holds = [i \in DOMAIN e.conditions |-> Holds(e.conditions[i], result, context)]
  OBVIOUS
<1>6. result' = [result EXCEPT !.success = earned, !.conditions = holds]
  BY <1>4, <1>5 DEF EvaluateConditions
<1>7. /\ AgreeOn(e, result', answer) /\ result'.success = earned /\ result'.errors = result.errors
      /\ result'.domain = result.domain /\ result'.port = result.port /\ result'.hostname = result.hostname
  BY <1>3, <1>6 DEF AgreeOn, IsResult, ResultFields
<1>8. AnswerAgrees'
  BY <1>1, <1>2, <1>7 DEF AnswerAgrees
<1>9. HealthKnown'
  <2>1. IsAsLookedFor(e) => (AllHold(e, result, context) <=> AllHold(e, answer, context))
    BY <1>3, ConditionsAgree
  <2>2. IsAsLookedFor(e) => (result'.success <=> answer.errors = {} /\ answer.success /\ AllHold(e, answer, context))
    BY <1>3, <1>4, <1>7, <2>1
  <2> QED
    BY <1>1, <1>2, <2>2 DEF HealthKnown, BeforeCall
<1>10. DomainKnown'
  <2>1. NeedsDomain(e) /\ answer.errors = {} => IsRecent(result.domain + day)'
    BY <1>1, <1>3, <1>7 DEF IsRecent, world
  <2> QED
    BY <1>1, <1>2, <2>1 DEF DomainKnown
<1>11. ErrorsKnown'
  BY <1>1, <1>2, <1>3, <1>7 DEF ErrorsKnown, CheckStages
<1> QED
  BY <1>2, <1>8, <1>9, <1>10, <1>11 DEF ChecksInv

\* What can be read in an error
LEMMA ErrorShows ==
  ASSUME NEW url, NEW parts, NEW e
  PROVE  Readable(Error(url, parts), e) =
             parts \cup IF url = "literal" THEN {"url", "hostname"} \cup PortOf(e) ELSE IF url = "other" THEN {"url"} ELSE {}
<1>1. Error(url, parts).url = url /\ Error(url, parts).parts = parts
  BY DEF Error
<1> QED
  BY <1>1 DEF Readable

\* What stays of what is hidden when it is replaced in an error: a URL in another form, a hostname and a port that are
\* not known.
LEMMA RedactedHides ==
  ASSUME NEW e, NEW error, IsErrorOf(e, error)
  PROVE  Readable(Redacted(error, e), e) \cap e.hides
             \subseteq (IF Redacted(error, e).url = "other" THEN {"url"} ELSE {})
                           \cup (IF result.hostname THEN {} ELSE {"hostname"})
                           \cup (IF result.port \/ ~e.port THEN {} ELSE {"port"})
<1> DEFINE Shows(u, p) ==
             p \cup IF u = "literal" THEN {"url", "hostname"} \cup PortOf(e) ELSE IF u = "other" THEN {"url"} ELSE {}
           Parts == SUBSET ({"hostname"} \cup PortOf(e))
<1>1. PICK u \in Forms, p \in Parts : error = Error(u, p)
  BY DEF IsErrorOf
<1>2. /\ "port" \in PortOf(e) <=> e.port
      /\ PortOf(e) \subseteq {"port"}
  BY DEF PortOf
<1>3. "no" \in Forms
  BY DEF Forms
<1>0. PICK first, second, third : first = HideURL(error, e) /\ second = HideHostname(first, e) /\ third = HidePort(second, e)
  OBVIOUS
<1>4. PICK u1 \in Forms :
         /\ first = Error(u1, p)
         /\ "url" \in e.hides => u1 # "literal"
  <2>1. CASE "url" \in e.hides /\ u = "literal"
    <3>1. Error(u, p).url = u /\ Error(u, p).parts = p
      BY DEF Error
    <3>2. first = Error("no", p)
      BY <1>0, <1>1, <2>1, <3>1 DEF HideURL, WithoutURL
    <3> QED
      BY <1>3, <3>2
  <2>2. CASE "url" \in e.hides /\ u # "literal"
    <3>1. Error(u, p).url = u
      BY DEF Error
    <3>2. first = error
      BY <1>0, <1>1, <2>2, <3>1 DEF HideURL, WithoutURL
    <3> QED
      BY <1>1, <2>2, <3>2
  <2>3. CASE "url" \notin e.hides
    BY <1>0, <1>1, <2>3 DEF HideURL
  <2> QED
    BY <2>1, <2>2, <2>3
<1>5. ASSUME NEW v \in Forms, NEW q \in Parts, NEW part \in {"hostname", "port"}
      PROVE  \E w \in Forms, r \in Parts :
                 /\ WithoutPart(Error(v, q), part, e) = Error(w, r)
                 /\ v # "literal" => w # "literal"
                 /\ part \notin Shows(w, r) /\ Shows(w, r) \subseteq Shows(v, q)
  <2>1. Readable(Error(v, q), e) = Shows(v, q)
    BY ErrorShows
  <2>2. CASE part \in Shows(v, q)
    <3>1. WithoutPart(Error(v, q), part, e) = Error("no", Shows(v, q) \ {"url", part})
      BY <2>1, <2>2 DEF WithoutPart
    <3>2. Shows(v, q) \ {"url", part} \in Parts
      OBVIOUS
    <3>3. Shows("no", Shows(v, q) \ {"url", part}) = Shows(v, q) \ {"url", part}
      OBVIOUS
    <3> QED
      BY <1>3, <3>1, <3>2, <3>3
  <2>3. CASE part \notin Shows(v, q)
    <3>1. WithoutPart(Error(v, q), part, e) = Error(v, q)
      BY <2>1, <2>3 DEF WithoutPart
    <3> QED
      BY <2>3, <3>1
  <2> QED
    BY <2>2, <2>3
<1>6. PICK u2 \in Forms, p2 \in Parts :
         /\ second = Error(u2, p2)
         /\ "url" \in e.hides => u2 # "literal"
         /\ "hostname" \in e.hides /\ result.hostname => "hostname" \notin Shows(u2, p2)
  <2>1. CASE "hostname" \in e.hides /\ result.hostname
    <3>1. second = WithoutPart(first, "hostname", e)
      BY <1>0, <2>1 DEF HideHostname, WithoutHostname
    <3>2. second = WithoutPart(Error(u1, p), "hostname", e)
      BY <1>4, <3>1
    <3>3. PICK w \in Forms, r \in Parts :
             /\ WithoutPart(Error(u1, p), "hostname", e) = Error(w, r) /\ (u1 # "literal" => w # "literal")
             /\ "hostname" \notin Shows(w, r)
      BY <1>1, <1>4, <1>5
    <3> QED
      BY <1>4, <3>2, <3>3
  <2>2. CASE ~("hostname" \in e.hides /\ result.hostname)
    <3>1. second = first
      BY <1>0, <2>2 DEF HideHostname, WithoutHostname
    <3> QED
      BY <1>1, <1>4, <2>2, <3>1
  <2> QED
    BY <2>1, <2>2
<1>7. PICK u3 \in Forms, p3 \in Parts :
         /\ third = Error(u3, p3)
         /\ "url" \in e.hides => u3 # "literal"
         /\ "hostname" \in e.hides /\ result.hostname => "hostname" \notin Shows(u3, p3)
         /\ "port" \in e.hides /\ result.port => "port" \notin Shows(u3, p3)
  <2>1. CASE "port" \in e.hides /\ result.port
    <3>1. third = WithoutPart(second, "port", e)
      BY <1>0, <2>1 DEF HidePort
    <3>2. PICK w \in Forms, r \in Parts :
             /\ third = Error(w, r) /\ (u2 # "literal" => w # "literal")
             /\ "port" \notin Shows(w, r) /\ Shows(w, r) \subseteq Shows(u2, p2)
      BY <1>5, <1>6, <3>1
    <3> QED
      BY <1>6, <3>2
  <2>2. CASE ~("port" \in e.hides /\ result.port)
    <3>1. third = second
      BY <1>0, <2>2 DEF HidePort
    <3> QED
      BY <1>6, <2>2, <3>1
  <2> QED
    BY <2>1, <2>2
<1>8. Readable(Redacted(error, e), e) = Shows(u3, p3) /\ Redacted(error, e).url = u3
  <2>1. Error(u3, p3).url = u3
    BY DEF Error
  <2>2. Redacted(error, e) = third
    BY <1>0 DEF Redacted
  <2> QED
    BY <1>7, <2>1, <2>2, ErrorShows
<1>9. Shows(u3, p3) \subseteq {"url", "hostname"} \cup PortOf(e)
  OBVIOUS
<1>10. "url" \in Shows(u3, p3) => u3 \in {"literal", "other"}
  BY <1>2
<1> HIDE DEF Shows
<1> QED
  BY <1>2, <1>7, <1>8, <1>9, <1>10

\* Once something is hidden, it cannot be read in the errors, and nothing is stored yet.
LEMMA HideKeeps == ChecksInv /\ Hide => ChecksInv'
<1> SUFFICES ASSUME ChecksInv, Hide PROVE ChecksInv'
  OBVIOUS
<1>1. /\ stage = "hide" /\ stage' = "store"
      /\ UNCHANGED <<world, position, failed, context, whois, answer, answers>>
      /\ unsaved' = IF context = Unset THEN {} ELSE DOMAIN Endpoint.store
  BY DEF Hide
<1> DEFINE e == Endpoint
<1>2. /\ Endpoint' = e /\ StageKnown' /\ AnswersKnown' /\ RegistryKnown' /\ CacheKnown'
  BY <1>1, WithinCheck DEF CheckStages
<1>3. /\ AgreeOn(e, result, answer)
      /\ (\A error \in result.errors : IsErrorOf(e, error))
      /\ (answer.hostname => result.hostname /\ (Parsed(e) => (result.port <=> e.port)))
  BY <1>1 DEF ChecksInv, AnswerAgrees, ErrorsKnown, CheckStages
<1>4. PICK errors : errors = IF "errors" \in e.hides THEN {} ELSE {Redacted(error, e) : error \in result.errors}
  OBVIOUS
<1>5. PICK hostname, port : /\ hostname = (result.hostname /\ "hostname" \notin e.hides)
                            /\ port = (result.port /\ "port" \notin e.hides)
  OBVIOUS
<1>6. PICK conditions : conditions = IF "conditions" \in e.hides THEN <<>> ELSE result.conditions
  OBVIOUS
<1>7. result' = [result EXCEPT !.errors = errors, !.hostname = hostname, !.port = port, !.conditions = conditions]
  BY <1>4, <1>5, <1>6 DEF Hide
<1>8. AgreeOn(e, result', answer) /\ result'.errors = errors
  BY <1>3, <1>7 DEF AgreeOn, IsResult, ResultFields
<1>9. AnswerAgrees' /\ HealthKnown' /\ DomainKnown'
  BY <1>1, <1>2, <1>8 DEF AnswerAgrees, HealthKnown, DomainKnown, BeforeCall
<1>10. HiddenStaysHidden'
  <2>1. ASSUME NEW error \in errors
        PROVE  Readable(error, e) \cap e.hides \subseteq NotFoundIn(error, e)
    <3>1. PICK old \in result.errors : error = Redacted(old, e)
      BY <1>4, <2>1
    <3>2. IsErrorOf(e, old)
      BY <1>3, <3>1
    <3>3. Readable(error, e) \cap e.hides
              \subseteq (IF error.url = "other" THEN {"url"} ELSE {})
                            \cup (IF result.hostname THEN {} ELSE {"hostname"})
                            \cup (IF result.port \/ ~e.port THEN {} ELSE {"port"})
      BY <3>1, <3>2, RedactedHides
    <3> QED
      BY <1>3, <3>3 DEF NotFoundIn
  <2>2. "errors" \in e.hides => errors \subseteq {StoreError}
    BY <1>4
  <2> QED
    BY <1>1, <1>2, <1>8, <2>1, <2>2 DEF HiddenStaysHidden, NotFoundIn
<1>11. ErrorsKnown'
  BY <1>1, <1>10 DEF ErrorsKnown
<1>12. ContextKnown'
  <2>1. \A p : IsOfAnswers(p)' <=> IsOfAnswers(p)
    BY <1>1 DEF IsOfAnswers, world
  <2>2. InContext' => InContext /\ context # Unset
    BY <1>1 DEF InContext
  <2> QED
    BY <1>1, <1>2, <2>1, <2>2 DEF ChecksInv, ContextKnown
<1>13. StoresKnown' /\ StoredForTheNext'
  <2>1. unsaved' \subseteq DOMAIN e.store /\ (InContext' => unsaved' = DOMAIN e.store)
    BY <1>1 DEF InContext
  <2> QED
    BY <1>1, <1>2, <2>1 DEF StoresKnown, StoredForTheNext
<1> QED
  BY <1>2, <1>9, <1>11, <1>12, <1>13 DEF ChecksInv

\* What is put under a path is there, and leaves the paths that are neither on the way to it nor below it.
LEMMA PutSets ==
  ASSUME NEW c, NEW p, NEW text
  PROVE  /\ DOMAIN Put(c, p, text) \subseteq DOMAIN c \cup {p}
         /\ p \in DOMAIN Put(c, p, text) /\ Put(c, p, text)[p] = text
         /\ \A q \in DOMAIN c : ~IsWithin(p, q) /\ ~IsWithin(q, p) => q \in DOMAIN Put(c, p, text)
         /\ \A q \in DOMAIN Put(c, p, text) : q # p => q \in DOMAIN c /\ Put(c, p, text)[q] = c[q]
<1> DEFINE left == {q \in DOMAIN c : ~IsWithin(p, q) /\ ~IsWithin(q, p)}
<1>1. Put(c, p, text) = [q \in left \cup {p} |-> IF q = p THEN text ELSE c[q]]
  BY DEF Put
<1>2. left \subseteq DOMAIN c /\ \A q \in DOMAIN c : ~IsWithin(p, q) /\ ~IsWithin(q, p) => q \in left
  OBVIOUS
<1> HIDE DEF left
<1> QED
  BY <1>1, <1>2

\* A value is stored, or there is none and it is an error that shows nothing of the URL.
LEMMA StoreKeeps == ChecksInv /\ StoreValue => ChecksInv'
<1> SUFFICES ASSUME ChecksInv, StoreValue PROVE ChecksInv'
  OBVIOUS
<1> DEFINE e == Endpoint
<1>1. PICK p \in unsaved :
         /\ unsaved' = unsaved \ {p}
         /\ \/ /\ Extracted(e.store[p], result) = Invalid(e.store[p])
               /\ result' = [result EXCEPT !.errors = @ \cup {StoreError}] /\ context' = context
            \/ context' = Put(context, p, Shown(Extracted(e.store[p], result))) /\ result' = result
  BY DEF StoreValue
<1>2. /\ stage = "store" /\ stage' = "store"
      /\ UNCHANGED <<world, position, failed, whois, answer, answers>>
  BY DEF StoreValue
<1>3. /\ Endpoint' = e /\ StageKnown' /\ AnswersKnown' /\ RegistryKnown' /\ CacheKnown'
  BY <1>2, WithinCheck DEF CheckStages
<1>4. AgreeOn(e, result, answer) /\ HiddenStaysHidden /\ unsaved \subseteq DOMAIN e.store
  BY <1>2 DEF ChecksInv, AnswerAgrees, ErrorsKnown, StoresKnown, CheckStages
<1>5. PICK fault : fault = StoreError
  OBVIOUS
<1>6. \/ result' = [result EXCEPT !.errors = @ \cup {fault}]
      \/ result' = result
  BY <1>1, <1>5
<1>7. /\ AgreeOn(e, result', answer)
      /\ result'.errors \subseteq result.errors \cup {fault}
  BY <1>4, <1>6 DEF AgreeOn, IsResult, ResultFields
<1>8. AnswerAgrees' /\ HealthKnown' /\ DomainKnown'
  BY <1>2, <1>3, <1>7 DEF AnswerAgrees, HealthKnown, DomainKnown, BeforeCall
<1>9. HiddenStaysHidden'
  <2>1. Readable(fault, e) \cap e.hides = {}
    <3>1. fault = Error("no", {"store"})
      BY <1>5 DEF StoreError
    <3>2. Readable(fault, e) = {"store"}
      BY <3>1, ErrorShows
    <3>3. e.hides \subseteq {"url", "hostname", "port", "errors", "conditions"}
      BY <1>2, EndpointKnown DEF CheckStages
    <3> QED
      BY <3>2, <3>3
  <2>2. ASSUME NEW error \in result'.errors
        PROVE  Readable(error, e) \cap e.hides \subseteq NotFoundIn(error, e)
    BY <1>2, <1>4, <1>7, <2>1, <2>2 DEF HiddenStaysHidden
  <2>3. "errors" \in e.hides => result'.errors \subseteq {StoreError}
    BY <1>2, <1>4, <1>5, <1>7 DEF HiddenStaysHidden
  <2> QED
    BY <1>2, <1>3, <2>2, <2>3 DEF HiddenStaysHidden, NotFoundIn
<1>10. ErrorsKnown'
  BY <1>2, <1>9 DEF ErrorsKnown
<1>11. InContext
  BY <1>1, <1>2 DEF InContext
<1>12. IsAsLookedFor(e) => Extracted(e.store[p], result) = Extracted(e.store[p], answer)
  BY <1>1, <1>4, ExtractedAgrees
<1>13. /\ \A q \in DOMAIN context : IsOfAnswers(q) \/ IsStoredAs(context[q], q, e, answer)
       /\ \A q \in DOMAIN e.store \ unsaved : IsStored(q, e, answer)
  BY <1>2, <1>11 DEF ChecksInv, ContextKnown, StoresKnown
<1>14. CASE Extracted(e.store[p], result) = Invalid(e.store[p]) /\ context' = context
  <2>1. \A q : IsOfAnswers(q)' <=> IsOfAnswers(q)
    BY <1>2, <1>14 DEF IsOfAnswers, world
  <2>2. ContextKnown'
    BY <1>2, <1>3, <1>13, <1>14, <2>1 DEF ContextKnown
  <2>3. IsStored(p, e, answer)
    BY <1>12, <1>14 DEF IsStored
  <2>4. \A q : IsStored(q, e, answer) => IsStored(q, Endpoint, answer)'
    BY <1>2, <1>3, <1>14 DEF IsStored
  <2>5. StoresKnown'
    BY <1>1, <1>2, <1>3, <1>4, <1>13, <2>3, <2>4 DEF StoresKnown
  <2> QED
    BY <1>2, <1>3, <1>8, <1>10, <2>2, <2>5 DEF ChecksInv, StoredForTheNext
<1>15. CASE context' = Put(context, p, Shown(Extracted(e.store[p], result)))
  <2> DEFINE text == Shown(Extracted(e.store[p], result))
  <2>1. IsStoredAs(text, p, e, answer)
    BY <1>1, <1>4, <1>12 DEF IsStoredAs
  <2>2. /\ DOMAIN context' \subseteq DOMAIN context \cup {p}
        /\ p \in DOMAIN context' /\ context'[p] = text
        /\ \A q \in DOMAIN context : ~IsWithin(p, q) /\ ~IsWithin(q, p) => q \in DOMAIN context'
        /\ \A q \in DOMAIN context' : q # p => q \in DOMAIN context /\ context'[q] = context[q]
    BY <1>15, PutSets
  <2> HIDE DEF text
  <2>3. ASSUME NEW q \in DOMAIN context'
        PROVE  IsOfAnswers(q)' \/ IsStoredAs(context'[q], q, e, answer)
    <3>1. CASE q = p
      BY <2>1, <2>2, <3>1
    <3>2. CASE q # p
      <4>1. q \in DOMAIN context /\ context'[q] = context[q]
        BY <2>2, <2>3, <3>2
      <4>2. CASE IsOfAnswers(q)
        <5>1. IsOfAnswers(q)'
          BY <1>2, <4>1, <4>2 DEF IsOfAnswers, world
        <5> QED
          BY <5>1
      <4>3. CASE IsStoredAs(context[q], q, e, answer)
        BY <4>1, <4>3
      <4> QED
        BY <1>13, <4>1, <4>2, <4>3
    <3> QED
      BY <3>1, <3>2
  <2>4. ContextKnown'
    BY <1>2, <1>3, <2>3 DEF ContextKnown
  <2>5. ASSUME NEW q \in DOMAIN e.store \ unsaved' PROVE IsStored(q, Endpoint, answer)'
    <3>1. CASE q = p
      BY <1>2, <1>3, <2>1, <2>2, <3>1 DEF IsStored
    <3>2. CASE q # p
      <4>1. IsStored(q, e, answer)
        BY <1>1, <1>13, <2>5, <3>2
      <4>2. CASE ~IsWithin(p, q) /\ ~IsWithin(q, p)
        BY <1>2, <1>3, <2>2, <3>2, <4>1, <4>2 DEF IsStored
      <4>3. CASE IsWithin(p, q) \/ IsWithin(q, p)
        BY <1>1, <1>3, <1>4, <3>2, <4>3 DEF IsStored
      <4> QED
        BY <4>2, <4>3
    <3> QED
      BY <3>1, <3>2
  <2>6. StoresKnown'
    BY <1>1, <1>2, <1>3, <1>4, <2>5 DEF StoresKnown
  <2> QED
    BY <1>2, <1>3, <1>8, <1>10, <2>4, <2>6 DEF ChecksInv, StoredForTheNext
<1> QED
  BY <1>1, <1>14, <1>15

\* An answer comes after those of the endpoints before it.
LEMMA AnswersGrow ==
  ASSUME NEW new, \E S : answers \in Seq(S), Len(answers) = position - 1, position \in Nat, position >= 1
  PROVE  /\ \E S : Append(answers, new) \in Seq(S)
         /\ Len(Append(answers, new)) = position
         /\ Append(answers, new)[position] = new
         /\ \A i \in DOMAIN answers : i \in DOMAIN Append(answers, new) /\ Append(answers, new)[i] = answers[i]
         /\ position \in DOMAIN Append(answers, new)
<1>1. PICK S : answers \in Seq(S)
  OBVIOUS
<1> DEFINE T == S \cup {new}
<1>2. answers \in Seq(T) /\ new \in T
  BY <1>1
<1> HIDE DEF T
<1>3. Append(answers, new) \in Seq(T) /\ Len(Append(answers, new)) = Len(answers) + 1
  BY <1>2
<1>4. Len(Append(answers, new)) = position /\ Append(answers, new)[position] = new
  BY <1>2, <1>3
<1>5. DOMAIN answers = 1..(position - 1) /\ DOMAIN Append(answers, new) = 1..position
  BY <1>2, <1>3, <1>4
<1>6. \A i \in 1..(position - 1) : Append(answers, new)[i] = answers[i]
  BY <1>2
<1> QED
  BY <1>3, <1>4, <1>5, <1>6

\* What was stored is of the answers once the check has ended, and there for the next endpoint.
LEMMA EndCheckKeeps == ChecksInv /\ EndCheck => ChecksInv'
<1> SUFFICES ASSUME ChecksInv, EndCheck PROVE ChecksInv'
  OBVIOUS
<1>1. /\ stage = "store" /\ unsaved = {} /\ stage' = "next" /\ position' = position + 1
      /\ answers' = Append(answers, answer)
      /\ subject' = subject /\ registry' = registry /\ day' = day /\ context' = context /\ whois' = whois
      /\ unsaved' = unsaved
  BY DEF EndCheck, world
<1> DEFINE e == Endpoint
<1>2. /\ StageKnown /\ position \in Nat /\ position >= 1 /\ (\E S : answers \in Seq(S)) /\ Len(answers) = position - 1
  BY <1>1 DEF ChecksInv, StageKnown, AnswersKnown
<1>3. /\ \E S : answers' \in Seq(S)
      /\ Len(answers') = position /\ answers'[position] = answer
      /\ \A i \in DOMAIN answers : i \in DOMAIN answers' /\ answers'[i] = answers[i]
      /\ position \in DOMAIN answers'
  BY <1>1, <1>2, AnswersGrow
<1>4. StageKnown' /\ AnswersKnown'
  <2>1. Len(answers') = position' - 1
    BY <1>1, <1>2, <1>3
  <2>2. StageKnown'
    BY <1>1, <1>2 DEF StageKnown, CheckStages
  <2> QED
    BY <1>3, <2>1, <2>2 DEF AnswersKnown
<1>5. RegistryKnown' /\ CacheKnown'
  BY <1>1 DEF ChecksInv, RegistryKnown, CacheKnown
<1>6. AnswerAgrees' /\ HealthKnown' /\ DomainKnown' /\ ErrorsKnown' /\ StoresKnown'
  BY <1>1 DEF AnswerAgrees, HealthKnown, DomainKnown, ErrorsKnown, StoresKnown, HiddenStaysHidden, CheckStages, BeforeCall
<1>7. e = subject.endpoints[position]
  BY DEF Endpoint
<1> HIDE DEF e
<1>8. ContextKnown'
  <2>1. SUFFICES ASSUME context # Unset, NEW p \in DOMAIN context PROVE IsOfAnswers(p)'
    BY <1>1 DEF ContextKnown, InContext
  <2>2. IsOfAnswers(p) \/ IsStoredAs(context[p], p, e, answer)
    BY <1>1, <2>1 DEF ChecksInv, ContextKnown, InContext, e
  <2>3. CASE p \in DOMAIN subject.context /\ context[p] = subject.context[p]
    BY <1>1, <2>3 DEF IsOfAnswers
  <2>4. CASE \E i \in DOMAIN answers : IsStoredAs(context[p], p, subject.endpoints[i], answers[i])
    BY <1>1, <1>3, <2>4 DEF IsOfAnswers
  <2>5. CASE IsStoredAs(context[p], p, e, answer)
    BY <1>1, <1>3, <1>7, <2>5 DEF IsOfAnswers
  <2> QED
    BY <2>2, <2>3, <2>4, <2>5 DEF IsOfAnswers
<1>9. StoredForTheNext'
  <2>1. PICK owner, given : owner = e /\ given = answer
    OBVIOUS
  <2>2. ASSUME context # Unset, NEW p \in DOMAIN owner.store PROVE IsStored(p, owner, given)'
    <3>1. IsStored(p, owner, given)
      BY <1>1, <2>1, <2>2 DEF ChecksInv, StoresKnown, InContext, e
    <3> QED
      BY <1>1, <3>1 DEF IsStored
  <2>3. /\ Len(answers') = position /\ answers'[position] = given /\ subject'.endpoints[position] = owner
        /\ context' = context
    BY <1>1, <1>3, <1>7, <2>1
  <2>4. PICK n : n = position
    OBVIOUS
  <2> QED
    BY <2>2, <2>3, <2>4 DEF StoredForTheNext
<1> QED
  BY <1>4, <1>5, <1>6, <1>8, <1>9 DEF ChecksInv

\* An endpoint that is skipped leaves no answer that anything was stored of.
LEMMA SkipKeeps == ChecksInv /\ SkipAfterFailure => ChecksInv'
<1> SUFFICES ASSUME ChecksInv, SkipAfterFailure PROVE ChecksInv'
  OBVIOUS
<1>1. /\ stage = "next" /\ stage' = "next" /\ position' = position + 1
      /\ answers' = Append(answers, NewResult)
      /\ subject' = subject /\ registry' = registry /\ day' = day /\ context' = context /\ whois' = whois
      /\ unsaved' = unsaved
  BY DEF SkipAfterFailure, world
<1>2. /\ StageKnown /\ position \in Nat /\ position >= 1 /\ (\E S : answers \in Seq(S)) /\ Len(answers) = position - 1
  BY <1>1 DEF ChecksInv, StageKnown, AnswersKnown
<1>3. /\ \E S : answers' \in Seq(S)
      /\ Len(answers') = position /\ answers'[position] = NewResult
      /\ \A i \in DOMAIN answers : i \in DOMAIN answers' /\ answers'[i] = answers[i]
  BY <1>1, <1>2, AnswersGrow
<1>4. StageKnown' /\ AnswersKnown'
  <2>1. Len(answers') = position' - 1
    BY <1>1, <1>2, <1>3
  <2>2. StageKnown'
    BY <1>1, <1>2 DEF StageKnown, CheckStages
  <2> QED
    BY <1>3, <2>1, <2>2 DEF AnswersKnown
<1>5. RegistryKnown' /\ CacheKnown'
  BY <1>1 DEF ChecksInv, RegistryKnown, CacheKnown
<1>6. AnswerAgrees' /\ HealthKnown' /\ DomainKnown' /\ ErrorsKnown' /\ StoresKnown'
  BY <1>1 DEF AnswerAgrees, HealthKnown, DomainKnown, ErrorsKnown, StoresKnown, HiddenStaysHidden, CheckStages, BeforeCall
<1>7. ContextKnown'
  <2>1. SUFFICES ASSUME context # Unset, NEW p \in DOMAIN context PROVE IsOfAnswers(p)'
    BY <1>1 DEF ContextKnown, InContext
  <2>2. IsOfAnswers(p)
    BY <1>1, <2>1 DEF ChecksInv, ContextKnown, InContext
  <2> QED
    BY <1>1, <1>3, <2>2 DEF IsOfAnswers
<1>8. StoredForTheNext'
  BY <1>1, <1>3 DEF StoredForTheNext
<1> QED
  BY <1>4, <1>5, <1>6, <1>7, <1>8 DEF ChecksInv

\* An execution begins with the values of the configuration.
LEMMA BeginKeeps == ChecksInv /\ Begin => ChecksInv'
<1> SUFFICES ASSUME ChecksInv, Begin PROVE ChecksInv'
  OBVIOUS
<1>1. /\ stage' = "next" /\ position' = 1 /\ answers' = <<>> /\ context' = subject.context
      /\ subject' = subject /\ registry' = registry /\ day' = day /\ whois' = whois
  BY DEF Begin, InitialContext
<1>2. StageKnown' /\ RegistryKnown' /\ CacheKnown'
  BY <1>1 DEF ChecksInv, StageKnown, RegistryKnown, CacheKnown, CheckStages
<1>3. AnswersKnown'
  <2>1. answers' \in Seq({}) /\ Len(answers') = 0
    BY <1>1
  <2> QED
    BY <1>1, <2>1 DEF AnswersKnown
<1>4. AnswerAgrees' /\ HealthKnown' /\ DomainKnown' /\ ErrorsKnown' /\ StoresKnown'
  BY <1>1 DEF AnswerAgrees, HealthKnown, DomainKnown, ErrorsKnown, StoresKnown, HiddenStaysHidden, CheckStages, BeforeCall
<1>5. ContextKnown'
  BY <1>1 DEF ContextKnown, IsOfAnswers
<1>6. StoredForTheNext'
  BY <1>1 DEF StoredForTheNext
<1> QED
  BY <1>2, <1>3, <1>4, <1>5, <1>6 DEF ChecksInv

\* Nothing is said of a subject that is not executed, but of the registry and the cache.
LEMMA IdleKeeps ==
  ASSUME ChecksInv, stage' = "idle", subject' = subject, position' = position, answers' = answers, day' \in Nat,
         RegistryKnown', CacheKnown'
  PROVE  ChecksInv'
<1>1. StageKnown' /\ AnswersKnown'
  BY DEF ChecksInv, StageKnown, AnswersKnown, CheckStages
<1>2. AnswerAgrees' /\ HealthKnown' /\ DomainKnown' /\ ErrorsKnown' /\ ContextKnown' /\ StoresKnown' /\ StoredForTheNext'
  BY DEF AnswerAgrees, HealthKnown, DomainKnown, ErrorsKnown, ContextKnown, StoresKnown, StoredForTheNext,
     HiddenStaysHidden, CheckStages, BeforeCall
<1> QED
  BY <1>1, <1>2 DEF ChecksInv

\* The registry and the time are as they were when an execution ends.
LEMMA EndKeeps == ChecksInv /\ End => ChecksInv'
<1> SUFFICES ASSUME ChecksInv, End PROVE ChecksInv'
  OBVIOUS
<1>1. /\ stage' = "idle" /\ subject' = subject /\ position' = position /\ answers' = answers /\ day' = day
      /\ registry' = registry /\ whois' = whois /\ day \in Nat
  BY DEF End, world, ChecksInv, StageKnown
<1>2. RegistryKnown' /\ CacheKnown'
  BY <1>1 DEF ChecksInv, RegistryKnown, CacheKnown
<1> QED
  BY <1>1, <1>2, IdleKeeps

\* A day that passes makes no date older than the entry of the cache says.
LEMMA TickKeeps == ChecksInv /\ Tick => ChecksInv'
<1> SUFFICES ASSUME ChecksInv, Tick PROVE ChecksInv'
  OBVIOUS
<1>1. /\ stage' = "idle" /\ subject' = subject /\ position' = position /\ answers' = answers /\ day' = day + 1
      /\ registry' = registry /\ whois' = whois /\ day \in Nat
  BY DEF Tick, progress, ChecksInv, StageKnown
<1>2. RegistryKnown' /\ CacheKnown'
  <2>1. day' \in Nat /\ 0..day \subseteq 0..day'
    BY <1>1
  <2>2. RegistryKnown'
    BY <1>1, <2>1 DEF ChecksInv, RegistryKnown
  <2>3. CacheKnown'
    BY <1>1, <2>1 DEF ChecksInv, CacheKnown
  <2> QED
    BY <2>2, <2>3
<1> QED
  BY <1>1, <1>2, IdleKeeps

\* A date of the cache that the registry gave is the one before, from the day of the renewal.
LEMMA RenewKeeps == ChecksInv /\ Renew => ChecksInv'
<1> SUFFICES ASSUME ChecksInv, Renew PROVE ChecksInv'
  OBVIOUS
<1>1. PICK d \in Dates : registry' = [date |-> d, since |-> day, before |-> registry.date]
  BY DEF Renew
<1>2. /\ stage' = "idle" /\ subject' = subject /\ position' = position /\ answers' = answers /\ day' = day
      /\ whois' = whois /\ day \in Nat /\ day > 0 /\ registry.since = 0
  BY DEF Renew, progress, ChecksInv, StageKnown
<1>3. /\ registry'.date = d /\ registry'.since = day /\ registry'.before = registry.date /\ d \in Int
      /\ registry.before = registry.date
  BY <1>1, <1>2, ChecksAssumption DEF ChecksInv, RegistryKnown
<1>4. RegistryKnown'
  BY <1>2, <1>3 DEF ChecksInv, RegistryKnown
<1>5. CacheKnown'
  <2>1. SUFFICES ASSUME IsDated(subject), whois # Unset
                 PROVE  /\ whois.date = registry.date
                        /\ \E read \in 0..day : whois.until = read + Lasts(whois.date, read)
    BY <1>2, <1>3 DEF CacheKnown
  <2> QED
    BY <1>3, <2>1 DEF ChecksInv, CacheKnown
<1> QED
  BY <1>2, <1>4, <1>5, IdleKeeps

\* Every step of a check, of an execution, of the time and of the registry keeps ChecksInv.
LEMMA ChecksStep == ChecksInv /\ [ChecksNext]_checksVars => ChecksInv'
<1>1. ChecksInv /\ UNCHANGED checksVars => ChecksInv'
  <2> SUFFICES ASSUME ChecksInv, UNCHANGED checksVars PROVE ChecksInv'
    OBVIOUS
  <2>1. /\ subject' = subject /\ position' = position /\ failed' = failed /\ stage' = stage /\ unsaved' = unsaved
        /\ rounds' = rounds /\ context' = context /\ result' = result /\ whois' = whois /\ registry' = registry
        /\ day' = day /\ answer' = answer /\ answers' = answers
    BY DEF checksVars, progress
  <2>2. StageKnown' /\ AnswersKnown'
    BY <2>1 DEF ChecksInv, StageKnown, AnswersKnown
  <2>3. Endpoint' = Endpoint
    BY <2>1 DEF Endpoint
  <2>4. AnswerAgrees' /\ HealthKnown'
    BY <2>1, <2>3 DEF ChecksInv, AnswerAgrees, HealthKnown
  <2>5. RegistryKnown' /\ CacheKnown'
    BY <2>1 DEF ChecksInv, RegistryKnown, CacheKnown
  <2>6. DomainKnown'
    BY <2>1, <2>3 DEF ChecksInv, DomainKnown, IsRecent
  <2>7. ErrorsKnown'
    BY <2>1, <2>3 DEF ChecksInv, ErrorsKnown, HiddenStaysHidden, NotFoundIn
  <2>8. InContext' <=> InContext
    BY <2>1 DEF InContext
  <2>9. ContextKnown'
    BY <2>1, <2>3, <2>8 DEF ChecksInv, ContextKnown, IsOfAnswers
  <2>10. StoresKnown'
    BY <2>1, <2>3, <2>8 DEF ChecksInv, StoresKnown, IsStored
  <2>11. StoredForTheNext'
    BY <2>1 DEF ChecksInv, StoredForTheNext, IsStored
  <2> QED
    BY <2>2, <2>4, <2>5, <2>6, <2>7, <2>9, <2>10, <2>11 DEF ChecksInv
<1> QED
  BY <1>1, BeginKeeps, EndKeeps, SkipKeeps, StartKeeps, ParseKeeps, LookUpKeeps, DomainKeeps, CallsKeep, EvaluateKeeps,
     HideKeeps, StoreKeeps, EndCheckKeeps, TickKeeps, RenewKeeps DEF ChecksNext

\* The invariant holds of every execution.
LEMMA ChecksAlways == ChecksSpec => []ChecksInv
<1> QED
  BY ChecksStart, ChecksStep, PTL DEF ChecksSpec

\* A health is that of the answer.
LEMMA EarnedImplied == ChecksInv => HealthIsEarned
  BY DEF ChecksInv, HealthKnown, HealthIsEarned

\* A date is that of the registry, or for a few days the one before.
LEMMA DatesImplied == ChecksInv => DatesAreRecent
<1> SUFFICES ASSUME ChecksInv, stage = "hide", NeedsDomain(Endpoint), answer.errors = {},
                    result.domain + day # registry.date
             PROVE  /\ result.domain + day = registry.before
                    /\ \E read \in 0..registry.since : day - read < IF registry.before - read > 30 THEN 10 ELSE 3
  BY DEF DatesAreRecent
<1>1. IsRecent(result.domain + day)
  BY DEF ChecksInv, DomainKnown
<1> QED
  BY <1>1 DEF IsRecent, Lasts

\* What the endpoints of a suite share is of the configuration or of an answer of the execution.
LEMMA ContextImplied == ChecksInv => ContextIsOfThisExecution
  BY DEF ChecksInv, ContextKnown, ContextIsOfThisExecution, InContext, IsOfAnswers

\* For every endpoint and suite, whatever is answered: a check is a success if and only if the conditions hold for what
\* the target answered, and nothing learned before an execution decides it, but for a date that is a few days old
\* (EvaluateHealthWithContext, GetDomainExpiration, Suite.Execute).
THEOREM ResultsStayTrue == ChecksSpec => []ResultsAreTrue
<1>1. ChecksInv => ResultsAreTrue
  BY EarnedImplied, DatesImplied, ContextImplied DEF ChecksInv, ResultsAreTrue, NothingStale
<1> QED
  BY <1>1, ChecksAlways, PTL

\* For every endpoint, whatever fails: what ui.hide-url, hide-hostname and hide-port hide cannot be read in the errors
\* of its results, but for what the replacement does not find: a URL in another form than the configured one, the
\* hostname when the URL cannot be parsed, and the port then and of what is not parsed (EvaluateHealthWithContext).
THEOREM HiddenIsNeverShown == ChecksSpec => []HiddenStaysHidden
<1>1. ChecksInv => HiddenStaysHidden
  BY DEF ChecksInv, ErrorsKnown
<1> QED
  BY <1>1, ChecksAlways, PTL

=============================================================================
