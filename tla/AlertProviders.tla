---------------------------- MODULE AlertProviders ----------------------------
(***************************************************************************)
(* The alerting providers managed through the administration (internal/    *)
(* alertprovider) and the managed endpoints that follow them, for one      *)
(* alert type.  A change of the provider is planned against the endpoints  *)
(* that use the type, stored, and applied: the endpoints are stopped, the  *)
(* provider published, and each endpoint given its triggered alerts and    *)
(* started again.  The checksum that identifies a triggered alert covers   *)
(* what the alert inherits from its provider, so that it changes as well.  *)
(*                                                                         *)
(* A definition stands for the default alert and the settings of a         *)
(* provider.  Every endpoint has one alert of the type; what a change of   *)
(* an endpoint does in detail is in ManagedEndpoints.                      *)
(***************************************************************************)
EXTENDS Naturals, FiniteSets

CONSTANTS
    Users,         \* the managed endpoints that may be created, in the order of their keys
    Definitions,   \* of providers
    Silencing,     \* those whose default alert is disabled
    Rejects,       \* the pairs of an endpoint and a definition its provider-override is not valid with
    Declarations,  \* what a configuration file may say of the type: NoProvider, a definition, or BrokenProvider
    NoProvider,    \* no row, no entry, no provider
    BrokenProvider,\* a declared provider that is not valid, and an endpoint that is not valid
    MaxProviderChanges, MaxProviderLoads, MaxProviderFailures   \* bounds: changes, loads and failures of the storage

ASSUME ProvidersAssumption ==
    /\ Users \subseteq Nat /\ IsFiniteSet(Users) /\ Rejects \subseteq Users \X Definitions
    /\ Silencing \subseteq Definitions
    /\ Declarations \subseteq Definitions \cup {NoProvider, BrokenProvider}
    /\ NoProvider \notin Definitions /\ BrokenProvider \notin Definitions /\ NoProvider # BrokenProvider
    /\ MaxProviderChanges \in Nat /\ MaxProviderLoads \in Nat /\ MaxProviderFailures \in Nat

VARIABLES
    provider,    \* the row of managed_alert_providers
    users,       \* the rows of managed_endpoints: absent, enabled or disabled
    incident,    \* the row of endpoint_alerts_triggered of each endpoint, by its checksum
    file,        \* what the configuration file in use declares
    entry,       \* snap.managed
    alerting,    \* the provider of the type in snap.effective and in managedAlerting
    prepared,    \* the states of the managed endpoints: the definition they were validated against
    flag,        \* Triggered of the alert of each state
    watched,     \* the definition the monitored object of each endpoint was validated against
    unread,    \* what the last load could not list
    writing,     \* the change of the provider in progress
    providerChanges, providerLoads, providerFailures

persisted == <<provider, users, incident>>
inMemory == <<file, entry, alerting, prepared, flag, watched, unread>>
providerCounters == <<providerChanges, providerLoads, providerFailures>>
providerVars == <<persisted, inMemory, writing, providerCounters>>

Row == Definitions \cup {NoProvider}
Validity == Row \cup {BrokenProvider}
NoWrite == [stage |-> "none"]
ChangeInProgress == [stage : {"stopping", "starting"}, next : Row, plan : SUBSET Users, left : SUBSET Users]

ProvidersTypeOK ==
    /\ provider \in Row /\ entry \in Row /\ alerting \in Row /\ file \in Declarations
    /\ users \in [Users -> {"absent", "enabled", "disabled"}]
    /\ incident \in [Users -> Row] /\ prepared \in [Users -> Validity] /\ watched \in [Users -> Row]
    /\ flag \in [Users -> BOOLEAN]
    /\ unread \subseteq {"providers", "endpoints"}
    /\ writing \in ChangeInProgress \cup {NoWrite}
    /\ providerChanges \in 0..MaxProviderChanges /\ providerLoads \in 0..MaxProviderLoads
    /\ providerFailures \in 0..MaxProviderFailures

\* compose: the file comes first, and only a valid provider is used
Effective(declared, managed) ==
    IF declared = NoProvider THEN managed ELSE IF declared = BrokenProvider THEN NoProvider ELSE declared

\* The state of an endpoint validated against an alerting configuration
PreparedWith(e, used) == IF used = NoProvider \/ <<e, used>> \in Rejects THEN BrokenProvider ELSE used
IsValid(e) == prepared[e] \in Definitions

\* A first start with an empty database
ProvidersInit ==
    /\ provider = NoProvider /\ users = [e \in Users |-> "absent"] /\ incident = [e \in Users |-> NoProvider]
    /\ file \in Declarations /\ entry = NoProvider /\ alerting = Effective(file, NoProvider)
    /\ prepared = [e \in Users |-> NoProvider] /\ flag = [e \in Users |-> FALSE]
    /\ watched = [e \in Users |-> NoProvider] /\ unread = {}
    /\ writing = NoWrite /\ providerChanges = 0 /\ providerLoads = 0 /\ providerFailures = 0

-----------------------------------------------------------------------------
(* The results of the monitored endpoints, whose alert has thresholds of one *)

\* The alert is sent through the provider in use and persisted; without a provider it is not triggered.
FailedExecution(e) ==
    /\ watched[e] \notin Silencing \cup {NoProvider} /\ ~flag[e] /\ alerting # NoProvider
    /\ flag' = [flag EXCEPT ![e] = TRUE] /\ incident' = [incident EXCEPT ![e] = watched[e]]
    /\ UNCHANGED <<provider, users, file, entry, alerting, prepared, watched, unread, writing, providerCounters>>

SuccessfulExecution(e) ==
    /\ watched[e] # NoProvider /\ flag[e]
    /\ flag' = [flag EXCEPT ![e] = FALSE] /\ incident' = [incident EXCEPT ![e] = NoProvider]
    /\ UNCHANGED <<provider, users, file, entry, alerting, prepared, watched, unread, writing, providerCounters>>

-----------------------------------------------------------------------------
(* Changes of the endpoints, which hold the lock that a change of the provider takes *)

MayChange == writing = NoWrite /\ providerChanges < MaxProviderChanges /\ providerChanges' = providerChanges + 1

\* RestorePersistedTriggeredAlerts: only a row with the checksum of an enabled alert is kept
KeptRow(row, definition) == IF row = definition /\ definition \notin Silencing THEN row ELSE NoProvider

CreateUser(e, enabled) ==
    /\ MayChange /\ users[e] = "absent" /\ PreparedWith(e, alerting) \in Definitions
    /\ users' = [users EXCEPT ![e] = IF enabled THEN "enabled" ELSE "disabled"]
    /\ prepared' = [prepared EXCEPT ![e] = alerting]
    /\ watched' = [watched EXCEPT ![e] = IF enabled THEN alerting ELSE NoProvider]
    /\ incident' = [incident EXCEPT ![e] = KeptRow(@, alerting)]
    /\ flag' = [flag EXCEPT ![e] = incident'[e] # NoProvider]
    /\ UNCHANGED <<provider, file, entry, alerting, unread, writing, providerLoads, providerFailures>>

\* SetEnabled: the definition is prepared again, stopped, restored and started.
SwitchUser(e) ==
    /\ MayChange /\ prepared[e] # NoProvider /\ PreparedWith(e, alerting) \in Definitions
    /\ users' = [users EXCEPT ![e] = IF @ = "enabled" THEN "disabled" ELSE "enabled"]
    /\ prepared' = [prepared EXCEPT ![e] = alerting]
    /\ watched' = [watched EXCEPT ![e] = IF users[e] = "disabled" THEN alerting ELSE NoProvider]
    /\ incident' = [incident EXCEPT ![e] = KeptRow(@, alerting)]
    /\ flag' = [flag EXCEPT ![e] = incident'[e] # NoProvider]
    /\ UNCHANGED <<provider, file, entry, alerting, unread, writing, providerLoads, providerFailures>>

DeleteUser(e) ==
    /\ MayChange /\ prepared[e] # NoProvider
    /\ users' = [users EXCEPT ![e] = "absent"]
    /\ incident' = [incident EXCEPT ![e] = NoProvider] /\ flag' = [flag EXCEPT ![e] = FALSE]
    /\ prepared' = [prepared EXCEPT ![e] = NoProvider] /\ watched' = [watched EXCEPT ![e] = NoProvider]
    /\ UNCHANGED <<provider, file, entry, alerting, unread, writing, providerLoads, providerFailures>>

-----------------------------------------------------------------------------
(* Changes of the provider: write *)

\* Mutant: only the endpoints that are enabled are prepared again
PlannedIfEnabled == {e \in Users : users[e] = "enabled" /\ prepared[e] # NoProvider}
\* Users and Plan: every endpoint of the states, enabled or not, valid or not
Dependents == {e \in Users : prepared[e] # NoProvider}

\* Mutant: what becomes of the endpoints is not looked at
Unplanned(next) == TRUE
\* A provider in use is not deleted and no valid endpoint becomes invalid; what the file declares has no plan.
MayReplace(next) ==
    IF next = NoProvider
    THEN file # NoProvider \/ Dependents = {}
    ELSE \A e \in Dependents : IsValid(e) => PreparedWith(e, next) \in Definitions

\* The change is planned and stored; a change that the storage refuses leaves everything as it was.
WriteProvider(next) ==
    /\ MayChange /\ MayReplace(next)
    /\ provider' = next
    /\ LET plan == IF file = NoProvider /\ next # NoProvider THEN Dependents ELSE {} IN
       writing' = [stage |-> "stopping", next |-> next, plan |-> plan, left |-> {e \in plan : watched[e] # NoProvider}]
    /\ UNCHANGED <<users, incident, inMemory, providerLoads, providerFailures>>

\* The storage refuses to create a row that is there, although it could not be listed.
CreateProvider(definition) == file = NoProvider /\ entry = NoProvider /\ provider = NoProvider /\ WriteProvider(definition)
UpdateProvider(definition) == file = NoProvider /\ entry # NoProvider /\ WriteProvider(definition)
DeleteProvider == entry # NoProvider /\ WriteProvider(NoProvider)

\* The endpoint that comes first in the order of the keys
IsNext(e) == e \in writing.left /\ \A o \in writing.left : e <= o

\* Stop: the monitoring of an endpoint ends after its execution in progress
StopDependent(e) ==
    /\ writing.stage = "stopping" /\ IsNext(e)
    /\ watched' = [watched EXCEPT ![e] = NoProvider]
    /\ writing' = [writing EXCEPT !.left = @ \ {e}]
    /\ UNCHANGED <<persisted, file, entry, alerting, prepared, flag, unread, providerCounters>>

\* Mutant: the new provider is used while endpoints of the old one are monitored
AtAnyTime == TRUE
AllStopped == writing.left = {}

\* publishSnapshot
PublishProvider ==
    /\ writing.stage = "stopping" /\ AllStopped
    /\ entry' = writing.next /\ alerting' = Effective(file, writing.next)
    /\ writing' = [writing EXCEPT !.stage = "starting", !.left = writing.plan]
    /\ UNCHANGED <<persisted, file, prepared, flag, watched, unread, providerCounters>>

\* MigrateTriggeredAlerts: a triggered alert gets the checksum it has with the new definition, if it stays enabled.
\* Mutant: it keeps the old one
NotMigrated(e, next) == incident[e]
Migrated(e, next) == IF IsValid(e) /\ incident[e] = prepared[e] /\ next \notin Silencing THEN next ELSE incident[e]

\* Start, for one endpoint: the triggered alerts, the state, and the monitoring of an endpoint that is enabled
StartWith(e, row) ==
    LET next == PreparedWith(e, writing.next) IN
    /\ writing.stage = "starting" /\ IsNext(e)
    /\ IF next \in Definitions
       THEN /\ incident' = [incident EXCEPT ![e] = KeptRow(row, next)]
            /\ flag' = [flag EXCEPT ![e] = incident'[e] # NoProvider]
       ELSE UNCHANGED incident /\ flag' = [flag EXCEPT ![e] = FALSE]
    /\ prepared' = [prepared EXCEPT ![e] = next]
    /\ watched' = [watched EXCEPT ![e] = IF next \in Definitions /\ users[e] = "enabled" THEN next ELSE NoProvider]
    /\ writing' = [writing EXCEPT !.left = @ \ {e}]
    /\ UNCHANGED <<provider, users, file, entry, alerting, unread, providerChanges, providerLoads>>

StartDependent(e) ==
    /\ StartWith(e, Migrated(e, writing.next)) /\ UNCHANGED providerFailures

\* The migration fails, which is logged: what follows deletes the row, for its checksum is the old one
StartUnmigrated(e) ==
    /\ providerFailures < MaxProviderFailures /\ providerFailures' = providerFailures + 1
    /\ StartWith(e, incident[e])

EndWrite ==
    /\ writing.stage = "starting" /\ writing.left = {}
    /\ writing' = NoWrite
    /\ UNCHANGED <<persisted, inMemory, providerCounters>>

-----------------------------------------------------------------------------
(* A reload, which waits for the change in progress, or a crash at any time and a start *)

ListedProvider(failing) == IF "providers" \in failing THEN NoProvider ELSE provider
LoadedState(e, used, failing) ==
    IF "endpoints" \in failing \/ users[e] = "absent" THEN NoProvider ELSE PreparedWith(e, used)

LoadProviders(declared, failing) ==
    LET used == Effective(declared, ListedProvider(failing))
        StateOf(e) == LoadedState(e, used, failing)
    IN
    /\ providerLoads < MaxProviderLoads /\ providerLoads' = providerLoads + 1
    /\ providerFailures + Cardinality(failing) <= MaxProviderFailures
    /\ providerFailures' = providerFailures + Cardinality(failing)
    /\ file' = declared /\ unread' = failing
    /\ entry' = ListedProvider(failing) /\ alerting' = used
    /\ prepared' = [e \in Users |-> StateOf(e)]
    /\ incident' = [e \in Users |-> IF StateOf(e) \in Definitions THEN KeptRow(incident[e], StateOf(e)) ELSE incident[e]]
    /\ flag' = [e \in Users |-> StateOf(e) \in Definitions /\ incident'[e] # NoProvider]
    /\ watched' = [e \in Users |-> IF users[e] = "enabled" /\ StateOf(e) \in Definitions THEN StateOf(e) ELSE NoProvider]
    /\ writing' = NoWrite
    /\ UNCHANGED <<provider, users, providerChanges>>

ProvidersNext ==
    \/ \E e \in Users : \/ FailedExecution(e) \/ SuccessfulExecution(e)
                        \/ \E enabled \in BOOLEAN : CreateUser(e, enabled)
                        \/ SwitchUser(e) \/ DeleteUser(e)
                        \/ StopDependent(e) \/ StartDependent(e) \/ StartUnmigrated(e)
    \/ \E definition \in Definitions : CreateProvider(definition) \/ UpdateProvider(definition)
    \/ DeleteProvider \/ PublishProvider \/ EndWrite
    \/ \E declared \in Declarations, failing \in SUBSET {"providers", "endpoints"} : LoadProviders(declared, failing)

ProvidersSpec == ProvidersInit /\ [][ProvidersNext]_providerVars

-----------------------------------------------------------------------------
(* Properties *)

\* A monitored endpoint sends its alerts through the provider it was validated against, whatever the watchdog is handed:
\* none is monitored with a provider that is gone or replaced, not even in the middle of a change ("an endpoint can never
\* attach a provider that is being deleted", dependents.go).
ServedByItsProvider == \A e \in Users : watched[e] # NoProvider => watched[e] = alerting

\* Between two changes, what is in use is what is stored and declared, as far as it could be listed: the provider, the
\* validity of every endpoint, what is monitored, and the triggered alerts of the valid ones.
ProvidersAgree ==
    writing = NoWrite =>
        /\ "providers" \notin unread => entry = provider
        /\ alerting = Effective(file, entry)
        /\ \A e \in Users :
              /\ "endpoints" \notin unread => (users[e] = "absent" <=> prepared[e] = NoProvider)
              /\ prepared[e] # NoProvider => prepared[e] = PreparedWith(e, alerting)
              /\ watched[e] = IF IsValid(e) /\ users[e] = "enabled" THEN prepared[e] ELSE NoProvider
              /\ IsValid(e) => incident[e] = IF flag[e] THEN prepared[e] ELSE NoProvider

ProvidersConsistent == ProvidersTypeOK /\ ProvidersAgree

\* An open incident of a valid endpoint survives the changes of its provider: only a successful result, a provider that
\* disables the alert, the deletion of the endpoint, a load or a failure of the storage ends it.
IncidentsSurvive ==
    [][\A e \in Users :
          IsValid(e) /\ incident[e] = prepared[e] /\ incident'[e] # prepared'[e]
              => \/ watched'[e] = watched[e] /\ watched[e] # NoProvider /\ flag[e] /\ incident'[e] = NoProvider
                 \/ users'[e] = "absent" \/ prepared'[e] \in Silencing
                 \/ providerLoads' # providerLoads \/ providerFailures' # providerFailures]_providerVars
=============================================================================
