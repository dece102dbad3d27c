-------------------------- MODULE MCManagedEndpoints --------------------------
(***************************************************************************)
(* Small instances of ManagedEndpoints, whose keys and alerts are model    *)
(* values, of AlertProviders, with two endpoints and four definitions of a *)
(* provider, and of Lifecycle, with three starts.  The changes and loads   *)
(* of the first two are whole with regard to the cycles of the third,      *)
(* whose lock makes them so: none uses the state of another one, and a     *)
(* behaviour is one of one of them.                                        *)
(***************************************************************************)
EXTENDS ManagedEndpoints, AlertProviders, Lifecycle

CONSTANTS k1, k2, a, b, d1, d2, d3, d4

OneKeyMayBeDefined == {{}, {k1}}
OneAlert == {{a}}
TwoAlerts == {{a}, {b}}

TwoUsers == {1, 2}
SomeDefinitions == {d1, d2, d3, d4}
OneSilencing == {d4}
\* One endpoint overrides what one of the definitions does not have
SecondRejects == {<<2, d2>>}
\* The file declares nothing, a valid provider or one that is not valid
AnyFile == {NoProvider, d3, BrokenProvider}

VARIABLE part

\* A process that has ended: the fairness of the lifecycle asks for nothing in the behaviours of the other parts.
Quiet == INSTANCE Lifecycle WITH process <- "running"
NoLifecycle == process = "ended" /\ Quiet!LifecycleInit /\ onDisk.kind = "strict"

MCInit ==
    /\ Init /\ ProvidersInit
    /\ \/ part = "endpoints" /\ file = NoProvider /\ NoLifecycle
       \/ part = "providers" /\ NoLifecycle
       \/ part = "lifecycle" /\ file = NoProvider /\ LifecycleInit

EndpointsStep == part = "endpoints" /\ Next /\ UNCHANGED <<part, providerVars, lifecycleVars>>
ProvidersStep == part = "providers" /\ ProvidersNext /\ UNCHANGED <<part, vars, lifecycleVars>>
LifecycleStep == part = "lifecycle" /\ LifecycleNext /\ UNCHANGED <<part, vars, providerVars>>
MCNext == EndpointsStep \/ ProvidersStep \/ LifecycleStep

\* The fairness is that of the changes of the endpoints and of the lifecycle; a provider promises nothing of its progress.
MCSpec ==
    /\ MCInit /\ [][MCNext]_<<part, vars, providerVars, lifecycleVars>>
    /\ WF_vars(ChangeStep) /\ LifecycleFairness

\* What is stored, in use, monitored and selected agrees between two changes of the endpoints and of the providers, and the
\* lifecycle keeps its promises about the lock of the changes and the address of the server.
AllConsistent == Consistent /\ ProvidersConsistent /\ LifecycleConsistent

\* The triggered alerts follow the endpoints and their providers (managedendpoint/service.go update, alertprovider/service.go
\* apply).
IncidentsKept == []IncidentsPersisted /\ IncidentsSurvive

\* A change of the endpoints, a reload and a termination end at last (cmd/serve.go, managedendpoint/service.go).
ChangesAndReloadsEnd == ChangesEnd /\ ReloadsAndEnds
=============================================================================
