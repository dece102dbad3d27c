------------------------------- MODULE Lifecycle -------------------------------
(***************************************************************************)
(* The start, the reloads and the end of the application: the goroutine    *)
(* that watches the configuration file, the one of the termination signal, *)
(* the lock that keeps the changes of the administration out of a cycle,   *)
(* and the server of each start, in a goroutine of its own.                *)
(***************************************************************************)
EXTENDS Naturals, FiniteSets

CONSTANTS
    MaxStarts, MaxWrites, MaxSeconds, MaxSharing,   \* bounds: starts, writes of the file, time, changes at a time
    Nobody                                          \* no holder of the lock, no server, no moment

ASSUME LifecycleAssumption ==
    /\ MaxStarts \in Nat \ {0} /\ MaxWrites \in Nat /\ MaxSeconds \in Nat /\ MaxSharing \in Nat
    /\ Nobody \notin Nat \cup {"start", "reload", "signal"}

VARIABLES
    now,        \* the time of day, in seconds: what the modification times are compared in
    onDisk,     \* the configuration file: which write it comes from, what the write made of it, and when
    inUse,      \* the configuration of the last start, and when it was read last (lastFileModTime)
    read,       \* what LoadConfiguration read and has not returned
    starts,     \* how many times start was called
    turn,       \* what each of the three goroutines that use BeginCycle is doing
    lock,       \* who has announced or begun a cycle: nobody shares the lock from then on
    sharing,    \* the changes of the administration that hold the lock in shared mode
    serving,    \* what the goroutine of Handle of each start is doing
    server,     \* the start whose server Shutdown would stop
    taken,      \* the server that Shutdown stops
    shut,       \* the servers that cannot serve any more
    left,       \* the servers that Shutdown did not see or did not wait for
    process     \* of the operating system

content == <<now, onDisk>>
configuration == <<inUse, read>>
servers == <<serving, server, taken, shut, left>>
lifecycleVars == <<content, configuration, starts, turn, lock, sharing, servers, process>>

Starts == 1..MaxStarts
Kinds == {"tolerant", "strict", "invalid"}   \* tolerant: valid, with skip-invalid-config-update
Goroutines == {"start", "reload", "signal"}
Turns == {"idle", "watching", "loading", "asking", "stopping", "waiting", "stopped", "starting", "done"}
Configuration == [version : 0..MaxWrites, kind : Kinds]

LifecycleTypeOK ==
    /\ now \in 0..MaxSeconds
    /\ onDisk \in [version : 0..MaxWrites, kind : Kinds, time : 0..MaxSeconds]
    /\ inUse \in [version : 0..MaxWrites, kind : Kinds, refused : 0..MaxWrites, seen : 0..MaxSeconds]
    /\ read \in [version : 0..MaxWrites, kind : Kinds, seen : 0..MaxSeconds] \cup {Nobody}
    /\ starts \in 0..MaxStarts
    /\ turn \in [Goroutines -> Turns]
    /\ lock \in Goroutines \cup {Nobody} /\ sharing \in 0..MaxSharing
    /\ serving \in [Starts -> {"unborn", "spawned", "registered", "listening", "returned"}]
    /\ server \in Starts \cup {Nobody} /\ taken \in Starts \cup {Nobody}
    /\ shut \subseteq Starts /\ left \subseteq Starts
    /\ process \in {"running", "ended", "failed"}

\* runServe has loaded the configuration and begun the cycle of the start
LifecycleInit ==
    /\ now = 0
    /\ \E kind \in Kinds \ {"invalid"} :
         /\ onDisk = [version |-> 0, kind |-> kind, time |-> 0]
         /\ inUse = [version |-> 0, kind |-> kind, refused |-> 0, seen |-> 0]
    /\ read = Nobody /\ starts = 0
    /\ turn = [g \in Goroutines |-> IF g = "start" THEN "starting" ELSE "idle"]
    /\ lock = "start" /\ sharing = 0
    /\ serving = [n \in Starts |-> "unborn"]
    /\ server = Nobody /\ taken = Nobody /\ shut = {} /\ left = {}
    /\ process = "running"

Does(g, from, to) == process = "running" /\ turn[g] = from /\ turn' = [turn EXCEPT ![g] = to]

-----------------------------------------------------------------------------
(* The lock of a cycle *)

\* Lock of a RWMutex: the writers exclude one another, and from then on TryRLock fails
AnnounceCycle(g) ==
    /\ process = "running" /\ turn[g] = "asking" /\ lock = Nobody
    /\ lock' = g
    /\ UNCHANGED <<content, configuration, starts, turn, sharing, servers, process>>

\* Mutant: waits for nobody
BeginsAtOnce(g) ==
    /\ lock = g
    /\ Does(g, "asking", "stopping")
    /\ UNCHANGED <<content, configuration, starts, lock, sharing, servers, process>>

\* ... and the readers are waited for
CycleBegins(g) ==
    /\ lock = g /\ sharing = 0
    /\ Does(g, "asking", "stopping")
    /\ UNCHANGED <<content, configuration, starts, lock, sharing, servers, process>>

\* A request of the administration that a server accepted, which may have been shut since
TryBeginChangeOf ==
    /\ process = "running" /\ lock = Nobody /\ sharing < MaxSharing
    /\ \E n \in Starts : serving[n] \in {"listening", "returned"}
    /\ sharing' = sharing + 1
    /\ UNCHANGED <<content, configuration, starts, turn, lock, servers, process>>

ChangeEnds ==
    /\ process = "running" /\ sharing > 0
    /\ sharing' = sharing - 1
    /\ UNCHANGED <<content, configuration, starts, turn, lock, servers, process>>

-----------------------------------------------------------------------------
(* Handle and Shutdown of the controller *)

AtStage(n, from, to) == serving[n] = from /\ serving' = [serving EXCEPT ![n] = to]

RegisterServer(n) ==
    /\ process = "running" /\ AtStage(n, "spawned", "registered")
    /\ server' = n
    /\ UNCHANGED <<content, configuration, starts, turn, lock, sharing, taken, shut, left, process>>

AddressFree == \A m \in Starts : serving[m] = "listening" => m \in shut

\* A server that is shut before it serves gives the address back at once
Listen(n) ==
    /\ process = "running" /\ AddressFree
    /\ AtStage(n, "registered", IF n \in shut THEN "returned" ELSE "listening")
    /\ UNCHANGED <<content, configuration, starts, turn, lock, sharing, server, taken, shut, left, process>>

\* Fatalf
CannotListen(n) ==
    /\ process = "running" /\ ~AddressFree /\ serving[n] = "registered"
    /\ process' = "failed"
    /\ UNCHANGED <<content, configuration, starts, turn, lock, sharing, servers>>

\* Serve returns ErrServerClosed, and done is closed
ServeReturns(n) ==
    /\ process = "running" /\ n \in shut /\ AtStage(n, "listening", "returned")
    /\ UNCHANGED <<content, configuration, starts, turn, lock, sharing, server, taken, shut, left, process>>

\* stop: the watchdog and the event streams are stopped before the server is taken
TakeServer(g) ==
    /\ Does(g, "stopping", IF server = Nobody THEN "stopped" ELSE "waiting")
    /\ taken' = server /\ server' = Nobody
    /\ shut' = shut \cup ({server} \ {Nobody})
    /\ left' = IF server = Nobody THEN left \cup {starts} ELSE left
    /\ UNCHANGED <<content, configuration, starts, lock, sharing, serving, process>>

\* Mutant: Shutdown returns before Handle does
ServerNotWaitedFor(g) ==
    /\ Does(g, "waiting", "stopped")
    /\ taken' = Nobody
    /\ UNCHANGED <<content, configuration, starts, lock, sharing, serving, server, shut, left, process>>

ServerStopped(g) ==
    /\ turn[g] = "waiting" /\ serving[taken] = "returned"
    /\ Does(g, "waiting", "stopped")
    /\ taken' = Nobody
    /\ UNCHANGED <<content, configuration, starts, lock, sharing, serving, server, shut, left, process>>

\* shutdownTimeout
ServerTimesOut(g) ==
    /\ turn[g] = "waiting" /\ serving[taken] # "returned"
    /\ Does(g, "waiting", "stopped")
    /\ taken' = Nobody /\ left' = left \cup {taken}
    /\ UNCHANGED <<content, configuration, starts, lock, sharing, serving, server, shut, process>>

-----------------------------------------------------------------------------
(* start, which the goroutine that began the cycle ends *)

Start(g) ==
    /\ lock = g /\ Does(g, "starting", "done")
    /\ starts' = starts + 1
    /\ serving' = [serving EXCEPT ![starts + 1] = "spawned"]
    /\ UNCHANGED <<content, configuration, lock, sharing, server, taken, shut, left, process>>

\* Mutant: the file is watched for the first change only
WatchedOnce(g) ==
    /\ process = "running" /\ lock = g /\ turn[g] = "done" /\ g # "signal"
    /\ lock' = Nobody
    /\ turn' = [turn EXCEPT ![g] = "idle", !["reload"] = IF g = "start" THEN "watching" ELSE "idle"]
    /\ UNCHANGED <<content, configuration, starts, sharing, servers, process>>

\* EndCycle, and go listenToConfigurationFileChanges; the signal is handled once runServe has called start
CycleStartedBy(g) ==
    /\ process = "running" /\ lock = g /\ turn[g] = "done" /\ g # "signal"
    /\ lock' = Nobody
    /\ turn' = [turn EXCEPT ![g] = "idle", !["reload"] = "watching"]
    /\ UNCHANGED <<content, configuration, starts, sharing, servers, process>>

-----------------------------------------------------------------------------
(* The configuration file *)

HasLoadedConfigurationBeenModified == inUse.seen < onDisk.time

\* LoadConfiguration reads the file; what it took from it is parsed afterwards
ReadFile ==
    /\ starts < MaxStarts /\ HasLoadedConfigurationBeenModified
    /\ Does("reload", "watching", "loading")
    /\ read' = [version |-> onDisk.version, kind |-> onDisk.kind, seen |-> now]
    /\ UNCHANGED <<content, inUse, starts, lock, sharing, servers, process>>

\* UpdateLastFileModTime: the time at which the configuration was parsed
ParseFile ==
    /\ read # Nobody /\ read.kind # "invalid"
    /\ Does("reload", "loading", "asking")
    /\ read' = [read EXCEPT !.seen = now]
    /\ UNCHANGED <<content, inUse, starts, lock, sharing, servers, process>>

\* skip-invalid-config-update of the configuration in use
RefuseFile ==
    /\ read # Nobody /\ read.kind = "invalid" /\ inUse.kind = "tolerant"
    /\ Does("reload", "loading", "watching")
    /\ inUse' = [inUse EXCEPT !.seen = now, !.refused = read.version]
    /\ read' = Nobody
    /\ UNCHANGED <<content, starts, lock, sharing, servers, process>>

PanicOnFile ==
    /\ process = "running" /\ turn["reload"] = "loading"
    /\ read.kind = "invalid" /\ inUse.kind = "strict"
    /\ process' = "failed"
    /\ UNCHANGED <<content, configuration, starts, turn, lock, sharing, servers>>

\* save, Close of the store and initializeStorage
ReplaceConfiguration ==
    /\ Does("reload", "stopped", "starting")
    /\ inUse' = [version |-> read.version, kind |-> read.kind, refused |-> inUse.refused, seen |-> read.seen]
    /\ read' = Nobody
    /\ UNCHANGED <<content, starts, lock, sharing, servers, process>>

\* The operator
WriteFile ==
    /\ process = "running" /\ onDisk.version < MaxWrites
    /\ \E kind \in Kinds : onDisk' = [version |-> onDisk.version + 1, kind |-> kind, time |-> now]
    /\ UNCHANGED <<now, configuration, starts, turn, lock, sharing, servers, process>>

SecondPasses ==
    /\ process = "running" /\ now < MaxSeconds
    /\ now' = now + 1
    /\ UNCHANGED <<onDisk, configuration, starts, turn, lock, sharing, servers, process>>

-----------------------------------------------------------------------------
(* The termination signal *)

Signalled ==
    /\ starts > 0 /\ turn["start"] = "idle"
    /\ Does("signal", "idle", "asking")
    /\ UNCHANGED <<content, configuration, starts, lock, sharing, servers, process>>

\* save, and runServe returns
EndProcess ==
    /\ Does("signal", "stopped", "done")
    /\ process' = "ended"
    /\ UNCHANGED <<content, configuration, starts, lock, sharing, servers>>

-----------------------------------------------------------------------------
CycleSteps(g) ==
    \/ AnnounceCycle(g) \/ CycleBegins(g) \/ TakeServer(g) \/ ServerStopped(g) \/ ServerTimesOut(g)
    \/ Start(g) \/ CycleStartedBy(g)

FileSteps == ReadFile \/ ParseFile \/ RefuseFile \/ PanicOnFile \/ ReplaceConfiguration
HandleSteps(n) == RegisterServer(n) \/ Listen(n) \/ CannotListen(n) \/ ServeReturns(n)

LifecycleNext ==
    \/ \E g \in Goroutines : CycleSteps(g)
    \/ FileSteps \/ EndProcess
    \/ \E n \in Starts : HandleSteps(n)
    \/ TryBeginChangeOf \/ ChangeEnds
    \/ WriteFile \/ SecondPasses \/ Signalled

LifecycleSpec == LifecycleInit /\ [][LifecycleNext]_lifecycleVars

\* Every goroutine goes on, the requests end, and a lock that is free again and again is taken at last: the RWMutex serves
\* its writers in turn.  Nobody has to write the file, to send a signal or to ask for a change.
LifecycleFairness ==
    /\ \A g \in Goroutines : SF_lifecycleVars(AnnounceCycle(g)) /\ WF_lifecycleVars(CycleSteps(g))
    /\ \A n \in Starts : WF_lifecycleVars(HandleSteps(n))
    /\ WF_lifecycleVars(FileSteps) /\ WF_lifecycleVars(EndProcess) /\ WF_lifecycleVars(ChangeEnds)

-----------------------------------------------------------------------------
(* Properties *)

\* A cycle does what it stops, loads and starts alone: no change of the administration is under way, and the other two
\* goroutines that begin cycles are not in theirs (lifecycle.go:7-11).
CyclesAreExclusive ==
    \A g \in Goroutines : turn[g] \in {"stopping", "waiting", "stopped", "starting", "done"} /\ process = "running" =>
        lock = g /\ sharing = 0

\* "So that the next cycle can listen on the same address" (controller.go:83): the process is not brought down by a server
\* that cannot listen, unless a Shutdown did not see the server of the start before it, or gave up waiting for it.
CanListen == (\E n \in Starts : serving[n] = "registered" /\ ~AddressFree) => left # {}

\* The lifecycle keeps its promises about the lock and about the address, and its state has the types it should.
LifecycleConsistent == LifecycleTypeOK /\ CyclesAreExclusive /\ CanListen

\* What is in the file was written in the second of the last read, or before the end of it: it is never noticed
Overtaken == onDisk.version \notin {inUse.version, inUse.refused} /\ onDisk.time <= inUse.seen

Over == process # "running"

\* "Automatically reloads the configuration on the fly if the loaded configuration file is updated" (docs/README.md:3436):
\* what is written is used, refused or fatal at last, also when it is written while another write is being applied, unless
\* it is written before the read before it has recorded its time.  A termination signal ends the process at last, whatever
\* reload or change is in progress.
ReloadsAndEnds ==
    /\ HasLoadedConfigurationBeenModified ~>
           (onDisk.version \in {inUse.version, inUse.refused} \/ Overtaken \/ Over \/ starts = MaxStarts)
    /\ turn["signal"] = "asking" ~> Over
=============================================================================
