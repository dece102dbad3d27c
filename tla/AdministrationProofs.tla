----------------------- MODULE AdministrationProofs -----------------------
(***************************************************************************)
(* The administration for every number of keys, endpoints, definitions,    *)
(* changes, loads and failures: the managed endpoints, the managed         *)
(* provider, and the lifecycle that they share, each on its own and then   *)
(* as the instance MCManagedEndpoints composes them.                       *)
(*                                                                         *)
(* The arguments.  EndpointsInv: what a change is not about agrees all the *)
(* time, and what it is about is described stage by stage: stored as       *)
(* before until the commit and as the change says after it, monitored by   *)
(* nothing until the new object is.  ServedInv and ProvidersInv: a change  *)
(* stops every monitored endpoint that the new provider is not the         *)
(* provider of, before it publishes it; while endpoints remain to be       *)
(* stopped, they are all in the list of the change, and while endpoints    *)
(* remain to be started, what they are started with is what was published. *)
(* LifecycleInv: who is between the first and the last step of a cycle     *)
(* holds the lock, and only the last server can be registered.             *)
(***************************************************************************)
EXTENDS MCManagedEndpoints, FiniteSetTheorems, TLAPS

-----------------------------------------------------------------------------
(* The endpoints *)

\* What is in memory of the key j is what is stored
Current(j) ==
    unlisted = 0 \/ state[j] # None =>
        state[j] = IF row[j] = None THEN None ELSE StateOf(row[j], j \in config)

\* The object of the configuration file
FromFile(o) == o # None /\ o.id = Config /\ o.alerts = {}

\* The object of a definition
ObjectOf(o, d) == o # None /\ o.id = d.id /\ o.alerts = d.alerts

\* What should be monitored for the key j is
Served(j) ==
    IF j \in config THEN FromFile(monitored[j])
    ELSE IF state[j] # None /\ state[j].enabled THEN ObjectOf(monitored[j], state[j])
    ELSE monitored[j] = None

Changed == {change.key, change.newKey}

\* Nothing that the change is not about is disturbed by it
Undisturbed == phase = "running" => \A j \in Keys : Idle \/ j \notin Changed => Current(j) /\ Served(j)

\* What a change knows of its endpoint
Subject ==
    ~Idle =>
        /\ phase = "running"
        /\ change.conflict <=> change.key \in config
        /\ change.newKey \in config => change.op = "delete"
        /\ IF change.op = "create" THEN state[change.key] = None
           ELSE state[change.key] # None /\ state[change.key].id = change.next.id /\ state[change.key].version = change.expected
        /\ IF Renames THEN change.op = "update" /\ state[change.newKey] = None
           ELSE change.op = "update" => ~change.conflict
        /\ change.op = "delete" => change.stage \in {"writing", "committing", "failed", "publishing"} /\ ~change.started
        /\ At("planning") => Planned

\* What is stored of it, before and after the commit
StoredOfIt ==
    ~Idle =>
        IF At("publishing")
        THEN /\ row[change.newKey] = IF change.op = "delete" THEN None ELSE change.next
             /\ Renames => row[change.key] = None
        ELSE /\ Current(change.key) /\ Current(change.newKey)
             /\ InTransaction /\ (Renames \/ change.op = "create") => row[change.newKey] = None

\* What is monitored for it: nothing, until the new object is
MonitoredOfIt ==
    ~Idle =>
        /\ \A j \in Changed :
              IF j \in config THEN FromFile(monitored[j])
              ELSE IF change.started /\ j = change.newKey THEN ObjectOf(monitored[j], change.next)
              ELSE monitored[j] = None
        /\ IF change.op = "create" \/ change.conflict \/ ~state[change.key].enabled THEN change.previous = None
           ELSE ObjectOf(change.previous, state[change.key])
        /\ change.started => change.stage \in {"committing", "failed", "publishing"} /\ change.next.enabled
        /\ change.stage \in {"committing", "publishing"} /\ change.op # "delete" => change.started = change.next.enabled

\* Nothing is monitored during a load.
LoadingAlone == phase = "loading" => Idle /\ \A j \in Keys : monitored[j] = None

\* The mutex of the status pages is held by the rename that planned them, and what is in memory is what is stored
PagesInv ==
    /\ pageLocked <=> ~Idle /\ Planned /\ change.stage \in {"writing", "applying", "committing", "failed", "publishing"}
    /\ phase = "running" /\ ~(At("publishing") /\ Planned) => pageState = page
    /\ PagesFollow

\* An identifier is that of one endpoint, and the versions grow with the changes: a change may still count one of the page.
Numbers ==
    /\ \A j \in Keys : row[j] # None => row[j].id <= created /\ row[j].version <= changes
    /\ \A j \in Keys : state[j] # None => state[j].version <= changes
    /\ \A i, j \in Keys : row[i] # None /\ row[j] # None /\ row[i].id = row[j].id => i = j
    /\ \A i \in shows : i <= created
    /\ page.version <= IF Idle \/ At("publishing") THEN changes + 1 ELSE changes
    /\ ~Idle => change.next.id <= created /\ change.next.version <= changes
    /\ ~Idle /\ change.op = "create" /\ ~At("publishing") =>
          change.next.id \notin shows /\ \A j \in Keys : row[j] # None => row[j].id # change.next.id

\* While nothing fails: whose results there are, and that no change is refused
Histories ==
    failures = 0 /\ unlisted = 0 =>
        /\ \A j \in Keys : \A i \in data[j] \ {Config} : row[j] # None => row[j].id = i
        /\ phase = "running" => \A j \in Keys \ config : row[j] = None => data[j] = {}
        /\ ~At("failed")

OneAlertSet == \A x, y \in AlertSets : x = y
Kept == unlisted = 0 \/ OneAlertSet
Unstarted(j) == ~Idle /\ InTransaction /\ change.started /\ j = change.newKey
\* While no commit fails: which alerts are stored, and which ones the objects have
Incidents ==
    /\ \A j \in Keys : monitored[j] # None => monitored[j].on \subseteq monitored[j].alerts
    /\ ~Idle => change.on \subseteq change.next.alerts
    /\ ~Idle /\ change.previous # None => change.previous.on \subseteq change.previous.alerts
    /\ failures = 0 /\ Kept =>
        /\ \A j \in Keys : row[j] = None \/ j \in config => triggered[j] = {}
        /\ phase = "running" => \A j \in Keys : monitored[j] # None /\ ~Unstarted(j) => monitored[j].on = triggered[j]
        /\ ~Idle =>
            /\ At("failed") => ~change.started /\ change.op # "delete"
            /\ change.started /\ At("committing") => monitored[change.newKey].on = change.on
            /\ change.op # "delete" /\ change.stage \in {"planning", "writing", "applying", "committing"} =>
                  change.on = IF change.conflict THEN {} ELSE triggered[change.key]
            /\ (At("restoring") \/ OneAlertSet) /\ change.previous # None /\ ~At("publishing") => change.previous.on = triggered[change.key]

EndpointsInv == TypeOK /\ Undisturbed /\ Subject /\ StoredOfIt /\ MonitoredOfIt /\ LoadingAlone /\ PagesInv /\ Numbers /\ Histories /\ Incidents
PersistedWhenListed == Kept => IncidentsPersisted

Stages == {"restoring", "planning", "writing", "applying", "committing", "failed", "publishing"}

\* A change is not NoChange.
LEMMA ChangeIsOne ==
    ASSUME NEW c \in Change
    PROVE  c # NoChange
<1>1. c.stage # "none"
    BY DEF Change
<1> QED
    BY <1>1 DEF NoChange

\* The version of the page leaves room for the next one.
LEMMA PageVersion ==
    ASSUME EndpointsInv
    PROVE  page.version \in Nat /\ changes \in Nat /\ page.version <= changes + 1
<1>1. page.version \in Nat /\ changes \in Nat
    BY BoundsAssumption DEF EndpointsInv, TypeOK, Page, Versions
<1> QED
    BY <1>1 DEF EndpointsInv, Numbers

\* There is a change in progress, or none.
LEMMA ChangeOrIdle == TypeOK => (~Idle <=> change \in Change)
BY ChangeIsOne DEF TypeOK, Idle

\* What is monitored outside of a transaction belongs to the configuration file or to the row.
LEMMA MonitoredIs ==
    ASSUME EndpointsInv, NEW k \in Keys, monitored[k] # None, ~InTransaction, ~(~Idle /\ At("failed") /\ change.started)
    PROVE  /\ phase = "running"
           /\ IF k \in config THEN FromFile(monitored[k]) ELSE row[k] # None /\ row[k].id = monitored[k].id
           /\ ~Idle /\ k \in Changed => k \in config \/ (At("publishing") /\ k = change.newKey)
<1>1. phase = "running"
    BY DEF EndpointsInv, LoadingAlone, TypeOK
<1>2. CASE Idle \/ k \notin Changed
    <2>1. Current(k) /\ Served(k)
        BY <1>1, <1>2 DEF EndpointsInv, Undisturbed
    <2> QED
        BY <1>1, <1>2, <2>1 DEF Current, Served, ObjectOf, StateOf
<1>3. CASE ~Idle /\ k \in Changed
    <2>1. change \in Change
        BY <1>3, ChangeOrIdle DEF EndpointsInv
    <2>2. CASE k \in config
        <3>1. FromFile(monitored[k])
            BY <1>3, <2>2 DEF EndpointsInv, MonitoredOfIt
        <3> QED
            BY <1>1, <2>2, <3>1
    <2>3. CASE k \notin config
        <3>1. change.started /\ k = change.newKey /\ ObjectOf(monitored[k], change.next)
            BY <1>3, <2>3 DEF EndpointsInv, MonitoredOfIt
        <3>2. At("publishing") /\ change.op # "delete"
            BY <1>3, <3>1 DEF EndpointsInv, MonitoredOfIt, Subject, InTransaction, At
        <3>3. row[k] = change.next
            BY <1>3, <3>1, <3>2 DEF EndpointsInv, StoredOfIt
        <3>4. change.next # None
            BY <2>1, NoneAssumption DEF Change
        <3> QED
            BY <1>1, <2>3, <3>1, <3>2, <3>3, <3>4 DEF ObjectOf
    <2> QED
        BY <2>2, <2>3
<1> QED
    BY <1>2, <1>3

\* A result is stored, with the alerts on of the object.
LEMMA StoringKeeps ==
    ASSUME EndpointsInv, NEW k \in Keys, Stored(k), NEW on \in SUBSET monitored[k].alerts, NEW stays \in SUBSET Alerts,
           monitored' \in [Keys -> Object \cup {None}], \A j \in Keys : j # k => monitored'[j] = monitored[j],
           monitored'[k] # None, monitored'[k].id = monitored[k].id, monitored'[k].alerts = monitored[k].alerts,
           monitored'[k].on = on, triggered' = [triggered EXCEPT ![k] = stays],
           monitored[k].on = triggered[k] => on = stays
    PROVE  EndpointsInv'
<1> USE DEF Stored, memory, counters
<1>1. TypeOK
    BY DEF EndpointsInv
<1>2. monitored[k].id \in Ids \cup {Config} /\ monitored[k] # None
    BY <1>1 DEF TypeOK, Object
<1>3. UNCHANGED <<phase, config, row, page, state, pageState, pageLocked, change, shows, created, changes, loads, failures, unlisted>>
    OBVIOUS
<1>4. TypeOK'
    BY <1>1, <1>2, <1>3 DEF TypeOK
<1>5. \A j \in Keys : (Served(j) => Served(j)') /\ (Current(j) => Current(j)')
    BY <1>3 DEF Served, Current, FromFile, ObjectOf
<1>6. Undisturbed' /\ Subject' /\ StoredOfIt' /\ LoadingAlone' /\ PagesInv' /\ Numbers'
    <2>1. Undisturbed'
        BY <1>3, <1>5 DEF EndpointsInv, Undisturbed, Idle, Changed
    <2>2. Subject' /\ StoredOfIt'
        BY <1>3 DEF EndpointsInv, Subject, StoredOfIt, Idle, Renames, Planned, At, InTransaction, Current
    <2>3. LoadingAlone' /\ PagesInv' /\ Numbers'
        BY <1>2, <1>3 DEF EndpointsInv, LoadingAlone, PagesInv, Numbers, Idle, Planned, Renames, At, PagesFollow
    <2> QED
        BY <2>1, <2>2, <2>3
<1>7. MonitoredOfIt'
    <2> SUFFICES ASSUME ~Idle
                 PROVE  MonitoredOfIt'
        BY <1>3 DEF MonitoredOfIt, Idle
    <2>1. MonitoredOfIt
        BY DEF EndpointsInv
    <2>2. \A j \in Keys : (FromFile(monitored[j]) => FromFile(monitored'[j]))
                         /\ (ObjectOf(monitored[j], change.next) => ObjectOf(monitored'[j], change.next))
                         /\ (monitored[j] = None => monitored'[j] = None)
        BY <1>2 DEF FromFile, ObjectOf
    <2>3. Changed' = Changed /\ Changed \subseteq Keys
        BY <1>1, <1>3, ChangeOrIdle DEF Changed, Change
    <2>4. \A j \in Changed' :
              IF j \in config' THEN FromFile(monitored'[j])
              ELSE IF change'.started /\ j = change'.newKey THEN ObjectOf(monitored'[j], change'.next)
              ELSE monitored'[j] = None
        BY <2>1, <2>2, <2>3, <1>3 DEF MonitoredOfIt
    <2> QED
        BY <2>1, <2>4, <1>3 DEF MonitoredOfIt, ObjectOf
<1>8. \A j \in Keys : data'[j] = IF j = k THEN data[k] \cup {monitored[k].id} ELSE data[j]
    BY <1>1 DEF TypeOK
<1>9. \A j \in Keys : triggered'[j] = IF j = k THEN stays ELSE triggered[j]
    BY <1>1 DEF TypeOK
<1>10. ~InTransaction /\ ~InTransaction'
    BY <1>3 DEF InTransaction, At
<1>11. Histories'
    <2> SUFFICES ASSUME failures = 0, unlisted = 0
                 PROVE  Histories'
        BY <1>3 DEF Histories
    <2>1. ~At("failed")
        BY DEF EndpointsInv, Histories
    <2>2. IF k \in config THEN monitored[k].id = Config ELSE row[k] # None /\ row[k].id = monitored[k].id
        BY <1>2, <1>10, <2>1, MonitoredIs DEF FromFile
    <2> QED
        BY <2>1, <2>2, <1>3, <1>8 DEF EndpointsInv, Histories, At
<1>12. Incidents'
    <2>1. /\ \A j \in Keys : monitored'[j] # None => monitored'[j].on \subseteq monitored'[j].alerts
          /\ ~Idle' => change'.on \subseteq change'.next.alerts
          /\ ~Idle' /\ change'.previous # None => change'.previous.on \subseteq change'.previous.alerts
        BY <1>3 DEF EndpointsInv, Incidents, Idle
    <2> SUFFICES ASSUME failures = 0, Kept
                 PROVE  Incidents'
        BY <2>1, <1>3 DEF Incidents, Kept, OneAlertSet
    <2>2. ~Idle /\ At("failed") => ~change.started
        BY DEF EndpointsInv, Incidents
    <2>3. /\ IF k \in config THEN FromFile(monitored[k]) ELSE row[k] # None /\ row[k].id = monitored[k].id
          /\ ~Idle /\ k \in Changed => k \in config \/ (At("publishing") /\ k = change.newKey)
          /\ phase = "running"
        BY <1>2, <1>10, <2>2, MonitoredIs
    <2>4. monitored[k].on = triggered[k] /\ on = stays
        BY <1>2, <1>10, <2>3 DEF EndpointsInv, Incidents, Unstarted
    <2>5. k \in config => stays = {}
        BY <2>3, <2>4 DEF FromFile
    <2>6. \A j \in Keys : row'[j] = None \/ j \in config' => triggered'[j] = {}
        BY <2>3, <2>5, <1>3, <1>9 DEF EndpointsInv, Incidents
    <2>7. phase' = "running" => \A j \in Keys : monitored'[j] # None /\ ~Unstarted(j)' => monitored'[j].on = triggered'[j]
        BY <2>4, <1>3, <1>9, <1>10 DEF EndpointsInv, Incidents, Unstarted
    <2>8. ~Idle /\ k = change.key /\ ~At("publishing") => k \in config /\ change.conflict /\ change.previous = None
        BY <2>3 DEF EndpointsInv, Subject, MonitoredOfIt, Changed
    <2> QED
        BY <2>1, <2>2, <2>6, <2>7, <2>8, <1>3, <1>9, <1>10 DEF EndpointsInv, Incidents, Idle, At, InTransaction, OneAlertSet
<1> QED
    BY <1>4, <1>6, <1>7, <1>11, <1>12 DEF EndpointsInv

\* Between two changes everything agrees.
LEMMA SettledAgrees ==
    ASSUME EndpointsInv, phase = "running", Idle, NEW k \in Keys
    PROVE  Current(k) /\ Served(k) /\ pageState = page /\ ~pageLocked
<1>1. ~At("publishing")
    BY DEF Idle, At, NoChange
<1> QED
    BY <1>1 DEF EndpointsInv, Undisturbed, PagesInv

\* The creation of an endpoint begins.
LEMMA CreateKeeps ==
    ASSUME EndpointsInv, NEW k \in Keys, NEW alerts \in AlertSets, NEW enabled \in BOOLEAN, Create(k, alerts, enabled)
    PROVE  EndpointsInv'
<1> USE BoundsAssumption DEF Create, Begins, MayBegin, Valid, stored, memory
<1> DEFINE next == [id |-> created + 1, version |-> 1, enabled |-> enabled, alerts |-> alerts]
<1>1. TypeOK
    BY DEF EndpointsInv
<1>2. /\ change' = [stage |-> "restoring", op |-> "create", key |-> k, newKey |-> k, next |-> next,
                    expected |-> 0, conflict |-> FALSE, previous |-> None, on |-> {}, started |-> FALSE]
      /\ phase = "running" /\ Idle /\ changes' = changes + 1 /\ created' = created + 1
      /\ UNCHANGED <<phase, config, row, data, triggered, page, state, pageState, pageLocked, monitored, shows, loads, failures, unlisted>>
    OBVIOUS
<1>3. created \in Nat /\ changes \in Nat /\ created + 1 \in Ids /\ changes + 1 \in 1..MaxChanges /\ 1 \in Versions
      /\ created + 1 <= MaxCreated
    BY <1>1 DEF TypeOK, Ids, Versions
<1>4. next \in Definition /\ next.id = created + 1 /\ next.version = 1 /\ next.alerts = alerts
    BY <1>3 DEF Definition
<1> HIDE DEF next
<1>5. change' \in Change
    BY <1>2, <1>3, <1>4 DEF Change
<1>6. TypeOK'
    BY <1>1, <1>2, <1>3, <1>5 DEF TypeOK
<1>7. ~Idle'
    BY <1>5, ChangeIsOne DEF Idle
<1>8. \A j \in Keys : Current(j)' /\ Served(j)' /\ Current(j) /\ Served(j)
    BY <1>2, SettledAgrees DEF Current, Served, FromFile, ObjectOf
<1>9. k \notin config /\ state[k] = None /\ monitored[k] = None
    BY <1>8 DEF Served
<1>10. change'.stage = "restoring" /\ change'.op = "create" /\ change'.key = k /\ change'.newKey = k /\ change'.next = next
       /\ ~change'.conflict /\ change'.previous = None /\ ~change'.started /\ change'.on = {}
    BY <1>2
<1>11. Undisturbed' /\ LoadingAlone'
    BY <1>2, <1>8 DEF Undisturbed, LoadingAlone
<1>12. Subject'
    BY <1>2, <1>9, <1>10 DEF Subject, Renames, At
<1>13. StoredOfIt'
    BY <1>8, <1>10 DEF StoredOfIt, At, InTransaction
<1>14. MonitoredOfIt'
    BY <1>2, <1>9, <1>10 DEF MonitoredOfIt, Changed
<1>15. ~pageLocked /\ pageState = page
    BY <1>2, <1>9, SettledAgrees
<1>16. PagesInv'
    BY <1>2, <1>10, <1>15 DEF EndpointsInv, PagesInv, Planned, Renames, At, PagesFollow
<1>17. Numbers'
    <2>1. \A j \in Keys : row[j] # None => row[j].id \in Nat /\ row[j].version \in Nat
        BY <1>1 DEF TypeOK, Definition, Ids, Versions
    <2>2. \A j \in Keys : state[j] # None => state[j].version \in Nat
        BY <1>1 DEF TypeOK, State, Ids, Versions
    <2>3. (\A i \in shows : i \in Nat) /\ page.version \in Nat
        BY <1>1 DEF TypeOK, Ids, Page, Versions
    <2> QED
        BY <2>1, <2>2, <2>3, <1>2, <1>3, <1>4, <1>10 DEF EndpointsInv, Numbers, At
<1>18. Histories'
    BY <1>2, <1>10 DEF EndpointsInv, Histories, At
<1>19. Incidents'
    <2>1. \A j \in Keys : ~Unstarted(j) /\ ~Unstarted(j)'
        BY <1>2, <1>10 DEF Unstarted, Idle, NoChange, InTransaction, At
    <2> QED
        BY <2>1, <1>2, <1>10 DEF EndpointsInv, Incidents, At, Kept, OneAlertSet
<1> QED
    BY <1>6, <1>11, <1>12, <1>13, <1>14, <1>16, <1>17, <1>18, <1>19 DEF EndpointsInv

\* The replacement of an endpoint begins: it is no longer monitored, unless the configuration file has its key.
LEMMA ReplaceKeeps ==
    ASSUME EndpointsInv, NEW k \in Keys, NEW version \in Versions, NEW newKey \in Keys, NEW next \in Definition,
           NEW op \in {"update", "delete"}, NEW stage \in {"restoring", "writing"}, Replaces(k, version, newKey, op, stage, next),
           next.id = state[k].id, next.version <= changes + 1,
           IF op = "delete" THEN stage = "writing" /\ newKey = k ELSE stage = "restoring",
           newKey # k \/ (op = "update" /\ state[k].conflict) => Valid(newKey)
    PROVE  EndpointsInv'
<1> USE BoundsAssumption DEF Replaces, Begins, MayBegin, Valid, stored, memory
<1>1. TypeOK
    BY DEF EndpointsInv
<1> DEFINE conflict == state[k].conflict
           previous == IF conflict THEN None ELSE monitored[k]
<1>2. /\ change' = [stage |-> stage, op |-> op, key |-> k, newKey |-> newKey, next |-> next, expected |-> version,
                    conflict |-> conflict, previous |-> previous, on |-> {}, started |-> FALSE]
      /\ phase = "running" /\ Idle /\ changes < MaxChanges /\ changes' = changes + 1 /\ state[k] # None /\ state[k].version = version
      /\ monitored' = IF conflict THEN monitored ELSE [monitored EXCEPT ![k] = None]
      /\ UNCHANGED <<phase, config, row, data, triggered, page, state, pageState, pageLocked, shows, created, loads, failures, unlisted>>
    OBVIOUS
<1>3. changes \in Nat /\ changes + 1 \in 1..MaxChanges /\ state[k] \in State
    BY <1>1, <1>2 DEF TypeOK
<1>4. conflict \in BOOLEAN /\ previous \in Object \cup {None}
    BY <1>1, <1>3 DEF TypeOK, State
<1>5. ASSUME NEW j \in Keys
      PROVE  Current(j) /\ Served(j)
    BY ONLY EndpointsInv, <1>2, j \in Keys, SettledAgrees
<1>6. conflict <=> k \in config
    <2>0. (k \in config) \in BOOLEAN
        OBVIOUS
    <2>1. PICK defined \in BOOLEAN : defined = (k \in config)
        BY <2>0
    <2>2. row[k] # None /\ state[k] = StateOf(row[k], defined)
        BY <1>2, <1>5, <2>1 DEF Current
    <2>3. state[k].conflict = defined
        BY <2>2 DEF StateOf
    <2> QED
        BY <2>1, <2>3
<1>7. row[k] # None /\ row[k].id = state[k].id /\ row[k].version = version
    <2>1. Current(k)
        BY <1>5
    <2>2. row[k] # None /\ state[k] = StateOf(row[k], k \in config)
        BY <2>1, <1>2 DEF Current
    <2> QED
        BY <2>2, <1>2 DEF StateOf
<1>8. previous = IF k \in config THEN None ELSE monitored[k]
    BY <1>6
<1> HIDE DEF conflict, previous
<1>9. change'.stage = stage /\ change'.op = op /\ change'.key = k /\ change'.newKey = newKey /\ change'.next = next
      /\ change'.expected = version /\ change'.conflict = conflict /\ change'.previous = previous /\ ~change'.started
      /\ change'.on = {}
    BY <1>2
<1>10. version \in 0..MaxChanges + 1
    BY DEF Versions
<1>11. change' \in Change
    BY <1>2, <1>4, <1>10 DEF Change
<1>12. monitored' \in [Keys -> Object \cup {None}]
       /\ \A j \in Keys : monitored'[j] = IF j = k /\ k \notin config THEN None ELSE monitored[j]
    BY <1>1, <1>2, <1>6 DEF TypeOK
<1>13. TypeOK'
    BY <1>1, <1>2, <1>3, <1>11, <1>12 DEF TypeOK
<1>14. ~Idle'
    BY <1>11, ChangeIsOne DEF Idle
<1>15. Undisturbed' /\ LoadingAlone'
    <2>1. ASSUME NEW j \in Keys
          PROVE  Current(j)' /\ (j # k => Served(j)')
        <3>1. Current(j) /\ Served(j)
            BY <1>5
        <3> QED
            BY <3>1, <1>2, <1>12 DEF Current, Served, FromFile, ObjectOf
    <2>2. k \in Changed'
        BY <1>9 DEF Changed
    <2> QED
        BY <2>1, <2>2, <1>2, <1>14 DEF Undisturbed, LoadingAlone
<1>16. newKey \in config => op = "delete"
    BY <1>6 DEF conflict
<1>17. Subject'
    BY <1>2, <1>6, <1>9, <1>16, <1>14 DEF Subject, Renames, At, conflict
<1>18. StoredOfIt'
    BY <1>2, <1>5, <1>9 DEF StoredOfIt, At, InTransaction, Current
<1>19. newKey # k => newKey \notin config /\ state[newKey] = None /\ monitored[newKey] = None
    BY <1>5 DEF Served
<1>20. MonitoredOfIt'
    <2>1. Changed' = {k, newKey} /\ config' = config /\ state' = state
        BY <1>2, <1>9 DEF Changed
    <2>2. \A j \in {k, newKey} : IF j \in config THEN FromFile(monitored[j])' ELSE monitored'[j] = None
        <3> TAKE j \in {k, newKey}
        <3>1. j \in Keys /\ Served(j)
            BY <1>5
        <3>2. CASE j = k
            BY <3>1, <3>2, <1>12 DEF Served, FromFile
        <3>3. CASE j # k
            <4>1. j = newKey /\ j \notin config /\ monitored'[j] = monitored[j]
                BY <3>3, <1>12, <1>19
            <4> QED
                BY <4>1, <3>3, <1>19
        <3> QED
            BY <3>2, <3>3
    <2>3. IF op = "create" \/ conflict \/ ~state[k].enabled THEN previous = None ELSE ObjectOf(previous, state[k])
        BY <1>5, <1>6, <1>8 DEF Served
    <2>4. change'.stage \notin {"committing", "publishing"}
        BY <1>9
    <2>5. \A j \in Changed' : IF j \in config' THEN FromFile(monitored[j])' ELSE monitored'[j] = None
        BY <2>1, <2>2
    <2> QED
        BY <2>1, <2>3, <2>4, <2>5, <1>9 DEF MonitoredOfIt
<1>21. ~pageLocked /\ pageState = page
    BY <1>2, SettledAgrees
<1>22. PagesInv'
    <2>1. op = "delete" => ~(newKey # k)
        OBVIOUS
    <2> QED
        BY <2>1, <1>2, <1>9, <1>21 DEF EndpointsInv, PagesInv, Planned, Renames, At, PagesFollow
<1>23. Numbers'
    <2>1. \A j \in Keys : row[j] # None => row[j].id \in Nat /\ row[j].version \in Nat
        BY <1>1 DEF TypeOK, Definition, Ids, Versions
    <2>2. \A j \in Keys : state[j] # None => state[j].version \in Nat
        BY <1>1 DEF TypeOK, State, Ids, Versions
    <2>3. next.id <= created
        BY <1>7 DEF EndpointsInv, Numbers
    <2>4. page.version <= changes + 1
        BY PageVersion
    <2> QED
        BY <2>1, <2>2, <2>3, <2>4, <1>2, <1>3, <1>9, <1>14 DEF EndpointsInv, Numbers, At
<1>24. Histories'
    BY <1>2, <1>9 DEF EndpointsInv, Histories, At
<1>25. Incidents'
    <2>1. \A j \in Keys : ~Unstarted(j) /\ ~Unstarted(j)'
        BY <1>2, <1>9 DEF Unstarted, Idle, NoChange, InTransaction, At
    <2>2. previous # None => monitored[k] # None /\ previous = monitored[k]
        BY <1>8
    <2>3. failures = 0 /\ Kept /\ previous # None => previous.on = triggered[k]
        BY <2>1, <2>2, <1>2 DEF EndpointsInv, Incidents
    <2>4. previous # None => previous.on \subseteq previous.alerts
        BY <2>2 DEF EndpointsInv, Incidents
    <2>5. \A j \in Keys : monitored'[j] # None => monitored'[j] = monitored[j]
        BY <1>12
    <2> QED
        BY <2>1, <2>3, <2>4, <2>5, <1>2, <1>9 DEF EndpointsInv, Incidents, At, Kept, OneAlertSet
<1> QED
    BY <1>13, <1>15, <1>17, <1>18, <1>20, <1>22, <1>23, <1>24, <1>25 DEF EndpointsInv

\* The changes of endpoints that exist
LEMMA UpdateKeeps ==
    ASSUME EndpointsInv, NEW k \in Keys, NEW version \in Versions, NEW newKey \in Keys, NEW alerts \in AlertSets,
           NEW enabled \in BOOLEAN, Update(k, version, newKey, alerts, enabled)
    PROVE  EndpointsInv'
<1> USE BoundsAssumption
<1> DEFINE next == [id |-> state[k].id, version |-> version + 1, enabled |-> enabled, alerts |-> alerts]
<1>1. /\ state[k] # None /\ (newKey # k \/ state[k].conflict => Valid(newKey)) /\ state[k].version = version
      /\ Replaces(k, version, newKey, "update", "restoring", next) /\ changes < MaxChanges
    BY DEF Update, NextVersion, Replaces, Begins, MayBegin
<1>2. changes \in Nat /\ state[k] \in State /\ version <= changes
    BY <1>1 DEF EndpointsInv, TypeOK, Numbers
<1>3. version \in Nat /\ version + 1 \in Versions /\ version + 1 <= changes + 1
    BY <1>1, <1>2 DEF Versions
<1>4. next \in Definition
    BY <1>2, <1>3 DEF State, Definition
<1>5. next.id = state[k].id /\ next.version = version + 1
    OBVIOUS
<1> HIDE DEF next
<1> QED
    BY <1>1, <1>3, <1>4, <1>5, ReplaceKeeps

\* The deletion of an endpoint begins.
LEMMA DeleteKeeps ==
    ASSUME EndpointsInv, NEW k \in Keys, NEW version \in Versions, Delete(k, version)
    PROVE  EndpointsInv'
<1> USE BoundsAssumption
<1> DEFINE next == [id |-> state[k].id, version |-> version, enabled |-> state[k].enabled, alerts |-> state[k].alerts]
<1>1. /\ state[k] # None /\ state[k].version = version
      /\ Replaces(k, version, k, "delete", "writing", next)
    BY DEF Delete, Replaces
<1>2. changes \in Nat /\ state[k] \in State /\ version <= changes
    BY <1>1 DEF EndpointsInv, TypeOK, Numbers
<1>3. version \in Nat /\ version <= changes + 1
    BY <1>1, <1>2 DEF Versions
<1>4. next \in Definition
    BY <1>2 DEF State, Definition
<1>5. next.id = state[k].id /\ next.version = version
    OBVIOUS
<1> HIDE DEF next
<1> QED
    BY <1>1, <1>3, <1>4, <1>5, ReplaceKeeps

\* The fields of a change after its next step, of which only these differ
Advanced(stage, on, started) ==
    /\ change' \in Change /\ change'.stage = stage /\ change'.on = on /\ change'.started = started
    /\ change'.op = change.op /\ change'.key = change.key /\ change'.newKey = change.newKey /\ change'.next = change.next
    /\ change'.expected = change.expected /\ change'.conflict = change.conflict /\ change'.previous = change.previous

\* The stage of a change
LEMMA StageAdvances ==
    ASSUME change \in Change, NEW stage \in Stages, change' = [change EXCEPT !.stage = stage]
    PROVE  Advanced(stage, change.on, change.started)
BY DEF Change, Stages, Advanced

\* ... with the alerts that are on
LEMMA OnAdvances ==
    ASSUME change \in Change, NEW stage \in Stages, NEW on \in SUBSET Alerts,
           change' = [change EXCEPT !.stage = stage, !.on = on]
    PROVE  Advanced(stage, on, change.started)
BY DEF Change, Stages, Advanced

\* ... with whether the new object was started
LEMMA StartedAdvances ==
    ASSUME change \in Change, NEW stage \in Stages, NEW started \in BOOLEAN,
           change' = [change EXCEPT !.stage = stage, !.started = started]
    PROVE  Advanced(stage, change.on, started)
BY DEF Change, Stages, Advanced

\* What a step keeps that changes neither the rows, nor the states, nor what is monitored, but advances the change
LEMMA AdvancedKeeps ==
    ASSUME EndpointsInv, change \in Change, NEW stage \in Stages, NEW on, Advanced(stage, on, change.started),
           ~At("publishing"), stage # "publishing", change.op = "delete" => stage \in {"writing", "committing", "failed"}, stage = "planning" => Planned,
           UNCHANGED <<phase, config, row, data, page, state, pageState, monitored, shows, created, changes, unlisted>>
    PROVE  Undisturbed' /\ Subject' /\ LoadingAlone' /\ Numbers' /\ (\A j \in Keys : Current(j)' <=> Current(j))
           /\ ~Idle /\ ~Idle' /\ phase = "running"
<1> USE DEF counters
<1>1. ~Idle /\ ~Idle'
    BY ChangeIsOne DEF Advanced, Idle
<1>2. \A j \in Keys : (Current(j)' <=> Current(j)) /\ (Served(j)' <=> Served(j))
    BY DEF Current, Served, FromFile, ObjectOf
<1>3. Changed' = Changed
    BY DEF Advanced, Changed
<1>4. Undisturbed'
    BY <1>1, <1>2, <1>3 DEF EndpointsInv, Undisturbed
<1>5. Subject'
    BY <1>1 DEF EndpointsInv, Subject, Renames, Planned, At, Advanced
<1>6. phase = "running"
    BY <1>1 DEF EndpointsInv, Subject
<1>7. LoadingAlone'
    BY <1>6 DEF LoadingAlone
<1>8. Numbers'
    BY <1>1 DEF EndpointsInv, Numbers, At, Advanced
<1> QED
    BY <1>1, <1>2, <1>4, <1>5, <1>6, <1>7, <1>8

\* What is monitored for the change stays what it should be while nothing of it changes before the commit.
LEMMA AdvancedMonitored ==
    ASSUME EndpointsInv, change \in Change, NEW stage \in Stages, NEW on, Advanced(stage, on, change.started),
           change.started => stage \in {"committing", "failed", "publishing"},
           stage \in {"committing", "publishing"} /\ change.op # "delete" => change.started = change.next.enabled,
           UNCHANGED <<config, state, monitored>>
    PROVE  MonitoredOfIt'
<1>1. ~Idle /\ Changed' = Changed
    BY ChangeIsOne DEF Idle, Advanced, Changed
<1>2. MonitoredOfIt
    BY DEF EndpointsInv
<1>3. \A j \in Changed' :
          IF j \in config' THEN FromFile(monitored'[j])
          ELSE IF change'.started /\ j = change'.newKey THEN ObjectOf(monitored'[j], change'.next)
          ELSE monitored'[j] = None
    BY <1>1, <1>2 DEF MonitoredOfIt, Advanced
<1> QED
    BY <1>1, <1>2, <1>3 DEF MonitoredOfIt, Advanced, ObjectOf

\* The triggered alerts of the new definition are restored.
LEMMA RestoreKeeps == ASSUME EndpointsInv, RestoreAlerts PROVE EndpointsInv'
<1> USE DEF RestoreAlerts, memory, counters
<1>1. TypeOK
    BY DEF EndpointsInv
<1>2. change \in Change /\ At("restoring")
    BY <1>1 DEF TypeOK, At, NoChange
<1> DEFINE restored == RestoredFrom(change.key)
           stage == IF Planned THEN "planning" ELSE "writing"
<1>3. change.key \in Keys /\ change.next \in Definition /\ change.next.alerts \in AlertSets
    BY <1>2 DEF Change, Definition
<1>4. restored \in SUBSET Alerts /\ restored \subseteq change.next.alerts
    BY <1>1, <1>3 DEF RestoredFrom, TypeOK, Alerts
<1>5. Advanced(stage, restored, change.started)
    BY <1>2, <1>4, OnAdvances DEF Stages
<1>6. \A j \in Keys : triggered'[j] = IF j = change.key /\ ~change.conflict THEN restored ELSE triggered[j]
    BY <1>1, <1>3 DEF TypeOK
<1>7. triggered' \in [Keys -> SUBSET Alerts]
    BY <1>1, <1>3, <1>4 DEF TypeOK
<1>8. UNCHANGED <<phase, config, row, data, page, state, pageState, pageLocked, monitored, shows, created, changes, loads, failures, unlisted>>
    OBVIOUS
<1>9. change.op # "delete" /\ ~change.started
    BY <1>2, ChangeOrIdle DEF EndpointsInv, Subject, MonitoredOfIt, At
<1>10. stage \in {"planning", "writing"} /\ (stage = "planning" => Planned)
    OBVIOUS
<1>11. restored = IF change.conflict THEN {} ELSE triggered[change.key] \cap change.next.alerts
    BY DEF RestoredFrom
<1> HIDE DEF restored, stage
<1>12. TypeOK'
    BY <1>1, <1>5, <1>7, <1>8 DEF TypeOK, Advanced
<1>13. Undisturbed' /\ Subject' /\ LoadingAlone' /\ Numbers' /\ (\A j \in Keys : Current(j)' <=> Current(j)) /\ ~Idle /\ ~Idle'
       /\ phase = "running"
    BY <1>2, <1>5, <1>8, <1>9, <1>10, AdvancedKeeps DEF At, Stages
<1>14. MonitoredOfIt'
    BY <1>2, <1>5, <1>8, <1>9, <1>10, AdvancedMonitored DEF Stages
<1>15. StoredOfIt'
    BY <1>2, <1>3, <1>5, <1>10, <1>13 DEF EndpointsInv, StoredOfIt, At, InTransaction, Advanced, Change
<1>16. PagesInv'
    BY <1>2, <1>5, <1>8, <1>10, <1>13 DEF EndpointsInv, PagesInv, Planned, Renames, At, Advanced, PagesFollow, stage
<1>17. Histories'
    BY <1>5, <1>8, <1>10 DEF EndpointsInv, Histories, At, Advanced
<1>18. Incidents'
    <2>1. /\ \A j \in Keys : monitored'[j] # None => monitored'[j].on \subseteq monitored'[j].alerts
          /\ ~Idle' => change'.on \subseteq change'.next.alerts
          /\ ~Idle' /\ change'.previous # None => change'.previous.on \subseteq change'.previous.alerts
        BY <1>4, <1>5, <1>8, <1>13 DEF EndpointsInv, Incidents, Advanced
    <2> SUFFICES ASSUME failures = 0, Kept
                 PROVE  Incidents'
        BY <2>1, <1>8 DEF Incidents, Kept, OneAlertSet
    <2>2. \A j \in Keys : ~Unstarted(j) /\ ~Unstarted(j)'
        BY <1>9, <1>5 DEF Unstarted, Advanced
    <2>3. ~change.conflict => change.key \notin config /\ monitored[change.key] = None
        BY <1>9, <1>13 DEF EndpointsInv, Subject, MonitoredOfIt, Changed
    <2>4. \A j \in Keys : row'[j] = None \/ j \in config' => triggered'[j] = {}
        BY <1>6, <1>8, <1>11 DEF EndpointsInv, Incidents
    <2>5. \A j \in Keys : monitored'[j] # None /\ ~Unstarted(j)' => monitored'[j].on = triggered'[j]
        BY <2>2, <2>3, <1>6, <1>8, <1>13 DEF EndpointsInv, Incidents
    <2>6. change'.on = IF change'.conflict THEN {} ELSE triggered'[change'.key]
        BY <1>3, <1>5, <1>6, <1>11 DEF Advanced
    <2>7. ASSUME OneAlertSet, change.previous # None
          PROVE  change.previous.on = triggered'[change.key]
        <3>1. change.previous.on = triggered[change.key] /\ change.previous.on \subseteq change.previous.alerts
            BY <2>7, <1>2, <1>13 DEF EndpointsInv, Incidents, At
        <3>2. ~change.conflict /\ ObjectOf(change.previous, state[change.key]) /\ state[change.key] # None
            BY <2>7, <1>13 DEF EndpointsInv, MonitoredOfIt, Subject
        <3>3. state[change.key].alerts \in AlertSets
            BY <3>2, <1>1, <1>3 DEF TypeOK, State
        <3>4. change.previous.alerts = change.next.alerts
            BY <3>2, <3>3, <2>7, <1>3 DEF OneAlertSet, ObjectOf
        <3> QED
            BY <3>1, <3>2, <3>4, <1>3, <1>6, <1>11
    <2>8. change'.stage \notin {"restoring", "committing", "failed"} /\ change'.op # "delete"
        BY <1>5, <1>9, <1>10 DEF Advanced
    <2> QED
        BY <2>1, <2>4, <2>5, <2>6, <2>7, <2>8, <1>5, <1>9 DEF Incidents, At, Advanced, OneAlertSet
<1> QED
    BY <1>12, <1>13, <1>14, <1>15, <1>16, <1>17, <1>18 DEF EndpointsInv

\* The state of a row is not None.
LEMMA StateIsOne ==
    ASSUME NEW r \in Definition, NEW conflict \in BOOLEAN
    PROVE  StateOf(r, conflict) \in State /\ StateOf(r, conflict) # None
<1>1. StateOf(r, conflict) \in State
    BY DEF StateOf, Definition, State
<1> QED
    BY <1>1, NoneAssumption

\* The triggered alerts do not change before the commit, nor does what is monitored outside of Apply.
LEMMA AdvancedIncidents ==
    ASSUME EndpointsInv, change \in Change, NEW stage \in {"writing", "applying", "committing", "failed"},
           Advanced(stage, change.on, change.started), ~change.started, ~At("publishing"), ~At("restoring"), ~At("failed"),
           UNCHANGED <<config, row, triggered, monitored, failures, unlisted>>, phase = "running", phase' = "running",
           failures = 0 /\ Kept /\ stage = "failed" => change.op # "delete"
    PROVE  Incidents'
<1>1. ~Idle /\ ~Idle'
    BY ChangeIsOne DEF Idle, Advanced
<1>2. /\ \A j \in Keys : monitored'[j] # None => monitored'[j].on \subseteq monitored'[j].alerts
      /\ ~Idle' => change'.on \subseteq change'.next.alerts
      /\ ~Idle' /\ change'.previous # None => change'.previous.on \subseteq change'.previous.alerts
    BY <1>1 DEF EndpointsInv, Incidents, Advanced
<1> SUFFICES ASSUME failures = 0, Kept
             PROVE  Incidents'
    BY <1>2 DEF Incidents, Kept, OneAlertSet
<1>3. \A j \in Keys : ~Unstarted(j) /\ ~Unstarted(j)'
    BY DEF Unstarted, Advanced
<1>4. change.stage \in {"planning", "writing", "applying", "committing"}
    BY DEF Change, At
<1>5. /\ change.op # "delete" => change.on = IF change.conflict THEN {} ELSE triggered[change.key]
      /\ OneAlertSet /\ change.previous # None => change.previous.on = triggered[change.key]
    BY <1>1, <1>4 DEF EndpointsInv, Incidents, At
<1> QED
    BY <1>1, <1>2, <1>3, <1>5 DEF EndpointsInv, Incidents, Advanced, At, OneAlertSet

\* The rename of the selections is planned.
LEMMA PlanKeeps == ASSUME EndpointsInv, PlanPages PROVE EndpointsInv'
<1> USE DEF PlanPages, stored, counters
<1>1. TypeOK
    BY DEF EndpointsInv
<1>2. change \in Change /\ At("planning")
    BY <1>1 DEF TypeOK, At, NoChange
<1>3. Advanced("writing", change.on, change.started)
    BY <1>2, StageAdvances DEF Stages
<1>4. UNCHANGED <<phase, config, row, data, triggered, page, state, pageState, monitored, shows, created, changes, loads, failures, unlisted>>
      /\ pageLocked' = TRUE
    OBVIOUS
<1>5. TypeOK'
    BY <1>1, <1>3, <1>4 DEF TypeOK, Advanced
<1>6. change.op # "delete" /\ ~change.started /\ Planned
    BY <1>2, ChangeOrIdle, ChangeIsOne DEF EndpointsInv, Subject, MonitoredOfIt, At, Idle
<1>7. Undisturbed' /\ Subject' /\ LoadingAlone' /\ Numbers' /\ (\A j \in Keys : Current(j)' <=> Current(j)) /\ ~Idle /\ ~Idle'
      /\ phase = "running"
    BY <1>2, <1>3, <1>4, <1>6, AdvancedKeeps DEF At, Stages
<1>8. MonitoredOfIt'
    BY <1>3, <1>2, <1>4, <1>6, AdvancedMonitored DEF Stages
<1>9. StoredOfIt'
    BY <1>2, <1>3, <1>7 DEF EndpointsInv, StoredOfIt, At, InTransaction, Advanced, Change
<1>10. PagesInv'
    BY <1>2, <1>3, <1>4, <1>6, <1>7 DEF EndpointsInv, PagesInv, Planned, Renames, At, Advanced, PagesFollow
<1>11. Histories'
    BY <1>3, <1>4 DEF EndpointsInv, Histories, At, Advanced
<1>12. Incidents'
    BY <1>2, <1>3, <1>4, <1>6, <1>7, AdvancedIncidents DEF At
<1> QED
    BY <1>5, <1>7, <1>8, <1>9, <1>10, <1>11, <1>12 DEF EndpointsInv

\* A write that does not rename onto a key in use is not refused, and nothing else refuses one while all rows are listed.
LEMMA WriteAllowed ==
    ASSUME EndpointsInv, ~Idle, At("writing"), phase = "running"
    PROVE  /\ change.op = "delete" => MayWrite
           /\ failures = 0 /\ unlisted = 0 => MayWrite
<1>1. /\ Current(change.key) /\ Current(change.newKey) /\ pageState = page
      /\ change.key \in Keys /\ change.newKey \in Keys
      /\ change.op \in {"create", "update", "delete"}
    BY ChangeOrIdle DEF EndpointsInv, StoredOfIt, PagesInv, At, Change
<1>2. change.op # "create" => row[change.key] # None /\ row[change.key].version = change.expected
    BY <1>1 DEF EndpointsInv, Subject, Current, StateOf
<1>3. ASSUME failures = 0, unlisted = 0
      PROVE  /\ change.op = "create" => row[change.newKey] = None
             /\ Renames => ~KeyInUse
    <2>1. Renames \/ change.op = "create" => state[change.newKey] = None /\ change.newKey \notin config
        BY <1>1 DEF EndpointsInv, Subject, Renames
    <2>2. Renames \/ change.op = "create" => row[change.newKey] = None
        <3>1. ASSUME row[change.newKey] # None, Renames \/ change.op = "create"
              PROVE  FALSE
            <4>0. (change.newKey \in config) \in BOOLEAN
                OBVIOUS
            <4>1. PICK defined \in BOOLEAN : defined = (change.newKey \in config)
                BY <4>0
            <4>2. state[change.newKey] = StateOf(row[change.newKey], defined)
                BY <1>1, <1>3, <3>1, <4>1 DEF Current
            <4>3. row[change.newKey] \in Definition
                BY <1>1, <3>1 DEF EndpointsInv, TypeOK
            <4> QED
                BY <2>1, <3>1, <4>2, <4>3, StateIsOne
        <3> QED
            BY <3>1
    <2>3. Renames => data[change.newKey] = {}
        BY <1>1, <1>3, <2>1, <2>2 DEF EndpointsInv, Histories
    <2> QED
        BY <2>2, <2>3 DEF KeyInUse
<1>4. change.op = "delete" => ~Renames /\ ~PageChanges
    BY DEF EndpointsInv, Subject, PageChanges, Planned
<1> QED
    BY <1>1, <1>2, <1>3, <1>4 DEF MayWrite

\* The transaction begins, or is refused.
LEMMA WriteKeeps == ASSUME EndpointsInv, Write PROVE EndpointsInv'
<1> USE DEF Write, stored, memory, counters
<1>1. TypeOK
    BY DEF EndpointsInv
<1>2. change \in Change /\ At("writing")
    BY <1>1 DEF TypeOK, At, NoChange
<1> DEFINE stage == IF ~MayWrite THEN "failed" ELSE IF change.op = "delete" THEN "committing" ELSE "applying"
<1>3. Advanced(stage, change.on, change.started)
    BY <1>2, StageAdvances DEF Stages
<1>4. UNCHANGED <<phase, config, row, data, triggered, page, state, pageState, pageLocked, monitored, shows, created, changes, loads,
                  failures, unlisted>>
    OBVIOUS
<1>5. ~Idle /\ phase = "running" /\ ~change.started
    BY <1>2, ChangeIsOne DEF EndpointsInv, Subject, MonitoredOfIt, At, Idle
<1>6. /\ stage \in {"failed", "committing", "applying"}
      /\ stage = "failed" => ~MayWrite
      /\ change.op = "delete" => stage \in {"failed", "committing"}
      /\ stage = "committing" => change.op = "delete"
      /\ stage \in {"applying", "committing"} /\ (Renames \/ change.op = "create") => row[change.newKey] = None
    BY <1>5 DEF MayWrite, KeyInUse, EndpointsInv, Subject
<1> HIDE DEF stage
<1>7. (change.op = "delete" => stage # "failed") /\ (failures = 0 /\ unlisted = 0 => stage # "failed")
    BY <1>2, <1>5, <1>6, WriteAllowed
<1>8. TypeOK'
    BY <1>1, <1>3, <1>4 DEF TypeOK, Advanced
<1>9. Undisturbed' /\ Subject' /\ LoadingAlone' /\ Numbers' /\ (\A j \in Keys : Current(j)' <=> Current(j)) /\ ~Idle /\ ~Idle'
      /\ phase = "running"
    BY <1>2, <1>3, <1>4, <1>6, AdvancedKeeps DEF At, Stages
<1>10. MonitoredOfIt'
    BY <1>2, <1>3, <1>4, <1>5, <1>6, AdvancedMonitored DEF Stages
<1>11. StoredOfIt'
    BY <1>2, <1>3, <1>4, <1>6, <1>9 DEF EndpointsInv, StoredOfIt, At, InTransaction, Advanced, Change, Renames
<1>12. PagesInv'
    BY <1>2, <1>3, <1>4, <1>6, <1>9 DEF EndpointsInv, PagesInv, Planned, Renames, At, Advanced, PagesFollow
<1>13. Histories'
    BY <1>3, <1>4, <1>7 DEF EndpointsInv, Histories, At, Advanced
<1>14. Incidents'
    BY <1>2, <1>3, <1>4, <1>5, <1>6, <1>7, AdvancedIncidents DEF At
<1> QED
    BY <1>8, <1>9, <1>10, <1>11, <1>12, <1>13, <1>14 DEF EndpointsInv

\* The new object is monitored inside of the transaction.
LEMMA ApplyKeeps == ASSUME EndpointsInv, Apply PROVE EndpointsInv'
<1> USE DEF Apply, stored, memory, counters
<1>1. TypeOK
    BY DEF EndpointsInv
<1>2. change \in Change /\ At("applying")
    BY <1>1 DEF TypeOK, At, NoChange
<1>3. change.key \in Keys /\ change.newKey \in Keys /\ change.next \in Definition /\ change.next.enabled \in BOOLEAN
      /\ change.on \in SUBSET Alerts
    BY <1>2 DEF Change, Definition
<1>4. ~Idle /\ phase = "running" /\ ~change.started /\ change.op # "delete"
    BY <1>2, ChangeIsOne DEF EndpointsInv, Subject, MonitoredOfIt, At, Idle
<1>5. change.newKey \notin config /\ monitored[change.newKey] = None
    BY <1>4 DEF EndpointsInv, Subject, MonitoredOfIt, Changed
<1> DEFINE begins == change.next.enabled
           object == [id |-> change.next.id, alerts |-> change.next.alerts, on |-> change.on]
<1>6. /\ monitored' = IF begins THEN [monitored EXCEPT ![change.newKey] = object] ELSE monitored
      /\ change' = [change EXCEPT !.stage = "committing", !.started = begins]
    BY <1>3, <1>5
<1>7. object \in Object /\ object # None
    BY <1>3, NoneAssumption DEF Object, Definition
<1>8. object.id = change.next.id /\ object.alerts = change.next.alerts /\ object.on = change.on
    OBVIOUS
<1> HIDE DEF object
<1>9. Advanced("committing", change.on, begins)
    BY <1>2, <1>3, <1>6, StartedAdvances DEF Stages
<1>10. UNCHANGED <<phase, config, row, data, triggered, page, state, pageState, pageLocked, shows, created, changes, loads,
                   failures, unlisted>>
    OBVIOUS
<1>11. monitored' \in [Keys -> Object \cup {None}]
       /\ \A j \in Keys : monitored'[j] = IF j = change.newKey /\ begins THEN object ELSE monitored[j]
    BY <1>1, <1>3, <1>6, <1>7 DEF TypeOK
<1>12. TypeOK'
    BY <1>1, <1>9, <1>10, <1>11 DEF TypeOK, Advanced
<1>13. ~Idle' /\ Changed' = Changed
    BY <1>9, ChangeIsOne DEF Idle, Advanced, Changed
<1>14. \A j \in Keys : (Current(j)' <=> Current(j)) /\ (j \notin Changed => (Served(j)' <=> Served(j)))
    BY <1>10, <1>11 DEF Current, Served, FromFile, ObjectOf, Changed
<1>15. Undisturbed' /\ LoadingAlone'
    BY <1>4, <1>10, <1>13, <1>14 DEF EndpointsInv, Undisturbed, LoadingAlone
<1>16. Subject'
    BY <1>4, <1>9, <1>10 DEF EndpointsInv, Subject, Renames, Planned, At, Advanced
<1>17. StoredOfIt'
    BY <1>2, <1>3, <1>4, <1>9, <1>10, <1>14 DEF EndpointsInv, StoredOfIt, At, InTransaction, Advanced, Renames
<1>18. MonitoredOfIt'
    <2>1. MonitoredOfIt
        BY DEF EndpointsInv
    <2>2. \A j \in Changed' :
              IF j \in config' THEN FromFile(monitored'[j])
              ELSE IF change'.started /\ j = change'.newKey THEN ObjectOf(monitored'[j], change'.next)
              ELSE monitored'[j] = None
        BY <1>3, <1>4, <1>5, <1>7, <1>8, <1>9, <1>10, <1>11, <1>13, <2>1 DEF MonitoredOfIt, Advanced, ObjectOf, Changed
    <2> QED
        BY <1>4, <1>9, <1>10, <2>1, <2>2 DEF MonitoredOfIt, Advanced, ObjectOf
<1>19. PagesInv'
    BY <1>2, <1>4, <1>9, <1>10, <1>13 DEF EndpointsInv, PagesInv, Planned, Renames, At, Advanced, PagesFollow
<1>20. Numbers'
    BY <1>2, <1>4, <1>9, <1>10, <1>13 DEF EndpointsInv, Numbers, At, Advanced
<1>21. Histories'
    BY <1>9, <1>10 DEF EndpointsInv, Histories, At, Advanced
<1>22. Incidents'
    <2>1. /\ \A j \in Keys : monitored'[j] # None => monitored'[j].on \subseteq monitored'[j].alerts
          /\ ~Idle' => change'.on \subseteq change'.next.alerts
          /\ ~Idle' /\ change'.previous # None => change'.previous.on \subseteq change'.previous.alerts
        BY <1>4, <1>8, <1>9, <1>11 DEF EndpointsInv, Incidents, Advanced
    <2> SUFFICES ASSUME failures = 0, Kept
                 PROVE  Incidents'
        BY <2>1, <1>10 DEF Incidents, Kept, OneAlertSet
    <2>2. \A j \in Keys : monitored'[j] # None /\ ~Unstarted(j)' => monitored'[j].on = triggered'[j]
        BY <1>4, <1>9, <1>10, <1>11, <1>13 DEF EndpointsInv, Incidents, Unstarted, InTransaction, At, Advanced
    <2>3. change.on = IF change.conflict THEN {} ELSE triggered[change.key]
        BY <1>2, <1>4 DEF EndpointsInv, Incidents, At
    <2>4. OneAlertSet /\ change.previous # None => change.previous.on = triggered[change.key]
        BY <1>2, <1>4 DEF EndpointsInv, Incidents, At
    <2>5. change'.started => monitored'[change'.newKey].on = change'.on
        BY <1>3, <1>8, <1>9, <1>11 DEF Advanced
    <2> QED
        BY <2>1, <2>2, <2>3, <2>4, <2>5, <1>9, <1>10 DEF EndpointsInv, Incidents, At, Advanced, OneAlertSet
<1> QED
    BY <1>12, <1>15, <1>16, <1>17, <1>18, <1>19, <1>20, <1>21, <1>22 DEF EndpointsInv

\* The commit fails: the transaction is rolled back.
LEMMA CommitFailsKeeps == ASSUME EndpointsInv, CommitFails PROVE EndpointsInv'
<1> USE DEF CommitFails, stored, memory
<1>1. TypeOK
    BY DEF EndpointsInv
<1>2. change \in Change /\ At("committing")
    BY <1>1 DEF TypeOK, At, NoChange
<1>3. Advanced("failed", change.on, change.started)
    BY <1>2, StageAdvances DEF Stages
<1>4. UNCHANGED <<phase, config, row, data, triggered, page, state, pageState, pageLocked, monitored, shows, created, changes, loads,
                  unlisted>>
      /\ failures' = failures + 1 /\ failures + unlisted < MaxFailures
    OBVIOUS
<1>5. failures \in Nat /\ failures' \in 0..MaxFailures /\ failures' # 0
    BY <1>1, <1>4, BoundsAssumption DEF TypeOK
<1>6. TypeOK'
    BY <1>1, <1>3, <1>4, <1>5 DEF TypeOK, Advanced
<1>7. Undisturbed' /\ Subject' /\ LoadingAlone' /\ Numbers' /\ (\A j \in Keys : Current(j)' <=> Current(j)) /\ ~Idle /\ ~Idle'
      /\ phase = "running"
    BY <1>2, <1>3, <1>4, AdvancedKeeps DEF At, Stages
<1>8. MonitoredOfIt'
    BY <1>3, <1>2, <1>4, AdvancedMonitored DEF Stages
<1>9. StoredOfIt'
    BY <1>2, <1>3, <1>7 DEF EndpointsInv, StoredOfIt, At, InTransaction, Advanced, Change
<1>10. PagesInv'
    BY <1>2, <1>3, <1>4, <1>7 DEF EndpointsInv, PagesInv, Planned, Renames, At, Advanced, PagesFollow
<1>11. Histories'
    BY <1>5 DEF Histories
<1>12. Incidents'
    BY <1>3, <1>4, <1>5, <1>7 DEF EndpointsInv, Incidents, Advanced
<1> QED
    BY <1>6, <1>7, <1>8, <1>9, <1>10, <1>11, <1>12 DEF EndpointsInv

\* What the end of a change keeps that left the rows and the numbers as they are
LEMMA EndedNumbers ==
    ASSUME EndpointsInv, ~Idle, Idle', UNCHANGED <<row, page, shows, created, changes>>,
           \A j \in Keys : state'[j] # None => state'[j].version <= changes
    PROVE  Numbers'
BY PageVersion DEF EndpointsInv, Numbers

\* The change that failed is undone.
LEMMA UndoKeeps == ASSUME EndpointsInv, Undo PROVE EndpointsInv'
<1> USE DEF Undo, stored, counters
<1>1. TypeOK
    BY DEF EndpointsInv
<1>2. change \in Change /\ At("failed")
    BY <1>1 DEF TypeOK, At, NoChange
<1>3. change.key \in Keys /\ change.newKey \in Keys /\ change.previous \in Object \cup {None}
    BY <1>2 DEF Change
<1>4. ~Idle /\ phase = "running" /\ Idle'
    BY <1>2, ChangeIsOne DEF EndpointsInv, Subject, Idle
<1>5. UNCHANGED <<phase, config, row, data, triggered, page, state, pageState, shows, created, changes, loads, failures, unlisted>>
      /\ pageLocked' = Unlocked
    OBVIOUS
<1> DEFINE stopped == IF change.started THEN [monitored EXCEPT ![change.newKey] = None] ELSE monitored
<1>6. stopped \in [Keys -> Object \cup {None}]
      /\ \A j \in Keys : stopped[j] = IF change.started /\ j = change.newKey THEN None ELSE monitored[j]
    BY <1>1, <1>3 DEF TypeOK
<1>7. monitored' = IF change.previous # None THEN [stopped EXCEPT ![change.key] = change.previous] ELSE stopped
    OBVIOUS
<1> HIDE DEF stopped
<1>8. /\ monitored' \in [Keys -> Object \cup {None}]
      /\ \A j \in Keys : monitored'[j] = IF j = change.key /\ change.previous # None THEN change.previous ELSE stopped[j]
    BY <1>3, <1>6, <1>7
<1>9. TypeOK'
    BY <1>1, <1>5, <1>8 DEF TypeOK, Unlocked
<1>10. \A j \in Keys : j \notin Changed => monitored'[j] = monitored[j]
    BY <1>6, <1>8 DEF Changed
<1>11. \A j \in Keys : Current(j)'
    BY <1>2, <1>4, <1>5 DEF EndpointsInv, Undisturbed, StoredOfIt, Current, Changed, At
<1>12. \A j \in Keys : Served(j)'
    <2>1. ASSUME NEW j \in Keys, j \notin Changed
          PROVE  Served(j)'
        <3>1. Served(j)
            BY <2>1, <1>4 DEF EndpointsInv, Undisturbed
        <3> QED
            BY <2>1, <3>1, <1>5, <1>10 DEF Served, FromFile, ObjectOf
    <2> PICK k \in Keys, newKey \in Keys : k = change.key /\ newKey = change.newKey
        BY <1>3
    <2>2. ASSUME Renames
          PROVE  Served(newKey)'
        <3>1. state[change.newKey] = None /\ change.newKey \notin config
            BY <2>2, <1>4 DEF EndpointsInv, Subject
        <3>2. stopped[change.newKey] = None
            BY <3>1, <1>3, <1>4, <1>6 DEF EndpointsInv, MonitoredOfIt, Changed
        <3>3. monitored'[newKey] = None
            BY <3>2, <2>2, <1>3, <1>8 DEF Renames
        <3> QED
            BY <3>1, <3>3, <1>5 DEF Served
    <2>3. Served(k)'
        <3>1. CASE change.key \in config
            <4>1. change.previous = None
                BY <3>1, <1>4 DEF EndpointsInv, Subject, MonitoredOfIt
            <4>2. ~(change.started /\ change.key = change.newKey)
                BY <3>1, <1>4 DEF EndpointsInv, Subject, MonitoredOfIt
            <4>3. FromFile(monitored[k])
                BY <3>1, <1>4 DEF EndpointsInv, MonitoredOfIt, Changed
            <4>4. monitored'[k] = monitored[k]
                BY <4>1, <4>2, <1>3, <1>6, <1>8
            <4> QED
                BY <4>3, <4>4, <3>1, <1>5 DEF Served, FromFile
        <3>2. CASE change.key \notin config
            <4>1. stopped[change.key] = None
                BY <3>2, <1>3, <1>4, <1>6 DEF EndpointsInv, MonitoredOfIt, Changed
            <4>2. ~change.conflict
                BY <3>2, <1>4 DEF EndpointsInv, Subject
            <4>3. IF change.op = "create" \/ ~state[change.key].enabled THEN change.previous = None
                  ELSE ObjectOf(change.previous, state[change.key])
                BY <4>2, <1>4 DEF EndpointsInv, MonitoredOfIt
            <4>4. IF change.op = "create" THEN state[change.key] = None ELSE state[change.key] # None
                BY <1>4 DEF EndpointsInv, Subject
            <4>5. monitored'[k] = change.previous
                BY <4>1, <1>3, <1>8
            <4> QED
                BY <4>3, <4>4, <4>5, <3>2, <1>5 DEF Served, ObjectOf
        <3> QED
            BY <3>1, <3>2
    <2> QED
        BY <2>1, <2>2, <2>3 DEF Changed, Renames
<1>13. Undisturbed' /\ Subject' /\ StoredOfIt' /\ MonitoredOfIt' /\ LoadingAlone'
    BY <1>4, <1>5, <1>11, <1>12 DEF Undisturbed, Subject, StoredOfIt, MonitoredOfIt, LoadingAlone
<1>14. PagesInv'
    BY <1>2, <1>4, <1>5 DEF EndpointsInv, PagesInv, Unlocked, At, PagesFollow
<1>15. Numbers'
    BY <1>4, <1>5, EndedNumbers DEF EndpointsInv, Numbers
<1>16. Histories'
    BY <1>2, <1>4, <1>5 DEF EndpointsInv, Histories, Idle, At, NoChange
<1>17. Incidents'
    <2>1. /\ \A j \in Keys : monitored'[j] # None => monitored'[j].on \subseteq monitored'[j].alerts
        BY <1>4, <1>6, <1>8 DEF EndpointsInv, Incidents
    <2> SUFFICES ASSUME failures = 0, Kept
                 PROVE  \A j \in Keys : /\ row[j] = None \/ j \in config => triggered[j] = {}
                                        /\ monitored'[j] # None => monitored'[j].on = triggered[j]
        BY <2>1, <1>4, <1>5 DEF Incidents, Kept, OneAlertSet
    <2>2. ~change.started /\ change.op # "delete" /\ (\A j \in Keys : row[j] = None \/ j \in config => triggered[j] = {})
        BY <1>2, <1>4 DEF EndpointsInv, Incidents
    <2>3. ~(failures = 0 /\ unlisted = 0)
        BY <1>2 DEF EndpointsInv, Histories
    <2>4. OneAlertSet
        BY <2>3 DEF Kept
    <2>5. change.previous # None => change.previous.on = triggered[change.key]
        BY <2>4, <1>2, <1>4 DEF EndpointsInv, Incidents, At
    <2>6. \A j \in Keys : monitored[j] # None => monitored[j].on = triggered[j]
        BY <2>2, <1>4 DEF EndpointsInv, Incidents, Unstarted
    <2> QED
        BY <2>2, <2>5, <2>6, <1>6, <1>8
<1> QED
    BY <1>9, <1>13, <1>14, <1>15, <1>16, <1>17 DEF EndpointsInv

\* The new state of the endpoint and the pages are published.
LEMMA PublishKeeps == ASSUME EndpointsInv, Publish PROVE EndpointsInv'
<1> USE DEF Publish, stored, counters
<1>1. TypeOK
    BY DEF EndpointsInv
<1>2. change \in Change /\ At("publishing")
    BY <1>1 DEF TypeOK, At, NoChange
<1>3. ~Idle /\ phase = "running" /\ Idle'
    BY <1>2, ChangeIsOne DEF EndpointsInv, Subject, Idle
<1>4. UNCHANGED <<phase, config, row, data, triggered, page, monitored, shows, created, changes, loads, failures, unlisted>>
      /\ pageLocked' = Unlocked
    OBVIOUS
<1>5. PICK k \in Keys, newKey \in Keys, next \in Definition : k = change.key /\ newKey = change.newKey /\ next = change.next
    BY <1>2 DEF Change
<1> DEFINE published == StateOf(next, FALSE)
<1>6. published \in State /\ published # None
    BY StateIsOne
<1>7. published.id = next.id /\ published.version = next.version /\ published.enabled = next.enabled /\ published.alerts = next.alerts
    BY DEF StateOf
<1>8. state' = IF change.op = "delete" THEN [state EXCEPT ![k] = None] ELSE [state EXCEPT ![k] = None, ![newKey] = published]
    BY <1>5 DEF ReplacedState
<1>9. /\ change.op = "delete" => newKey = k
      /\ change.op # "delete" => newKey \notin config
    BY <1>3, <1>5 DEF EndpointsInv, Subject, Renames
<1>10. newKey \notin config => published = StateOf(next, newKey \in config)
    <2>0. (newKey \in config) \in BOOLEAN
        OBVIOUS
    <2>1. PICK defined \in BOOLEAN : defined = (newKey \in config)
        BY <2>0
    <2>2. published = [id |-> next.id, version |-> next.version, enabled |-> next.enabled, alerts |-> next.alerts, conflict |-> FALSE]
        BY DEF StateOf
    <2>3. StateOf(next, defined) = [id |-> next.id, version |-> next.version, enabled |-> next.enabled, alerts |-> next.alerts, conflict |-> defined]
        BY DEF StateOf
    <2> QED
        BY <2>1, <2>2, <2>3
<1> HIDE DEF published
<1>11. /\ state' \in [Keys -> State \cup {None}]
       /\ \A j \in Keys : state'[j] = IF j = newKey /\ change.op # "delete" THEN published ELSE IF j = k THEN None ELSE state[j]
    BY <1>1, <1>6, <1>8 DEF TypeOK
<1>12. TypeOK'
    BY <1>1, <1>4, <1>11 DEF TypeOK, Unlocked
<1>13. /\ row[newKey] = IF change.op = "delete" THEN None ELSE next
       /\ newKey # k => row[k] = None
    BY <1>2, <1>3, <1>5 DEF EndpointsInv, StoredOfIt, Renames
<1>14. \A j \in Keys : Current(j)'
    <2>1. ASSUME NEW j \in Keys, j # k, j # newKey
          PROVE  Current(j)'
        <3>1. Current(j)
            BY <2>1, <1>3, <1>5 DEF EndpointsInv, Undisturbed, Changed
        <3> QED
            BY <3>1, <2>1, <1>4, <1>11 DEF Current
    <2>2. next # None
        BY NoneAssumption
    <2>3. Current(newKey)'
        <3>1. CASE change.op = "delete"
            BY <3>1, <1>4, <1>9, <1>11, <1>13 DEF Current
        <3>2. CASE change.op # "delete"
            <4>1. state'[newKey] = StateOf(row[newKey], newKey \in config) /\ row[newKey] # None
                BY <3>2, <2>2, <1>9, <1>10, <1>11, <1>13
            <4> QED
                BY <4>1, <1>4 DEF Current
        <3> QED
            BY <3>1, <3>2
    <2>4. newKey # k => Current(k)'
        BY <1>4, <1>11, <1>13 DEF Current
    <2> QED
        BY <2>1, <2>3, <2>4
<1>15. \A j \in Keys : Served(j)'
    <2>1. ASSUME NEW j \in Keys, j # k, j # newKey
          PROVE  Served(j)'
        <3>1. Served(j)
            BY <2>1, <1>3, <1>5 DEF EndpointsInv, Undisturbed, Changed
        <3> QED
            BY <3>1, <2>1, <1>4, <1>11 DEF Served, FromFile, ObjectOf
    <2>2. \A j \in {k, newKey} : IF j \in config THEN FromFile(monitored[j])
                                 ELSE IF change.started /\ j = newKey THEN ObjectOf(monitored[j], next)
                                 ELSE monitored[j] = None
        BY <1>3, <1>5 DEF EndpointsInv, MonitoredOfIt, Changed
    <2>3. /\ change.op # "delete" => change.started = next.enabled
          /\ change.op = "delete" => ~change.started
        BY <1>2, <1>3, <1>5 DEF EndpointsInv, MonitoredOfIt, Subject, At
    <2>4. Served(newKey)'
        BY <2>2, <2>3, <1>4, <1>6, <1>7, <1>9, <1>11 DEF Served, FromFile, ObjectOf
    <2>5. newKey # k => Served(k)'
        BY <2>2, <1>4, <1>11 DEF Served, FromFile
    <2> QED
        BY <2>1, <2>4, <2>5
<1>16. Undisturbed' /\ Subject' /\ StoredOfIt' /\ MonitoredOfIt' /\ LoadingAlone'
    BY <1>3, <1>4, <1>14, <1>15 DEF Undisturbed, Subject, StoredOfIt, MonitoredOfIt, LoadingAlone
<1>17. PagesInv'
    BY <1>2, <1>3, <1>4 DEF EndpointsInv, PagesInv, Unlocked, At, PagesFollow
<1>18. Numbers'
    <2>1. \A j \in Keys : state'[j] # None => state'[j].version <= changes
        BY <1>3, <1>5, <1>7, <1>11 DEF EndpointsInv, Numbers
    <2> QED
        BY <2>1, <1>3, <1>4, EndedNumbers
<1>19. Histories'
    BY <1>3, <1>4 DEF EndpointsInv, Histories, Idle, At, NoChange
<1>20. Incidents'
    BY <1>2, <1>3, <1>4 DEF EndpointsInv, Incidents, Unstarted, InTransaction, At, Kept, OneAlertSet
<1> QED
    BY <1>12, <1>16, <1>17, <1>18, <1>19, <1>20 DEF EndpointsInv

\* The status page is edited.
LEMMA EditKeeps == ASSUME EndpointsInv, NEW selects \in SUBSET Keys, EditPage(selects) PROVE EndpointsInv'
<1>1. TypeOK
    BY DEF EndpointsInv
<1>2. /\ phase = "running" /\ ~pageLocked /\ ~InTransaction /\ changes < MaxChanges /\ changes' = changes + 1
      /\ page' = [selects |-> selects, version |-> page.version + 1] /\ pageState' = page'
      /\ UNCHANGED <<phase, config, row, data, triggered, state, pageLocked, monitored, change, created, loads, failures, unlisted>>
    BY DEF EditPage
<1>3. /\ changes \in Nat /\ changes' \in 0..MaxChanges /\ page' \in Page
      /\ page'.selects = selects /\ page'.version = page.version + 1
    BY <1>1, <1>2, PageVersion, BoundsAssumption DEF TypeOK, Page, Versions
<1>4. \A j \in Keys : row[j] # None => row[j].id \in Ids
    BY <1>1 DEF TypeOK, Definition
<1>5. \A i \in shows' : \E j \in selects : row[j] # None /\ row[j].id = i
    BY DEF EditPage
<1>6. TypeOK'
    BY <1>1, <1>2, <1>3, <1>4, <1>5 DEF TypeOK
<1>7. \A j \in Keys : (Current(j)' <=> Current(j)) /\ (Served(j)' <=> Served(j))
    BY <1>2 DEF Current, Served, FromFile, ObjectOf
<1>8. Undisturbed' /\ Subject' /\ LoadingAlone'
    BY <1>2, <1>7 DEF EndpointsInv, Undisturbed, Subject, LoadingAlone, Idle, Changed, Renames, Planned, At
<1>9. StoredOfIt' /\ MonitoredOfIt'
    BY <1>2, <1>7 DEF EndpointsInv, StoredOfIt, MonitoredOfIt, Idle, Changed, Renames, At, InTransaction, FromFile, ObjectOf, Current
<1>10. \A i, j \in Keys : row[i] # None /\ row[j] # None /\ row[i].id = row[j].id => i = j
    BY DEF EndpointsInv, Numbers
<1>11. PagesInv'
    <2>1. PagesFollow'
        BY <1>2, <1>3, <1>5, <1>10 DEF PagesFollow
    <2> QED
        BY <2>1, <1>2 DEF EndpointsInv, PagesInv, Idle, At, Planned, Renames
<1>12. Numbers'
    <2>1. \A j \in Keys : /\ row[j] # None => row[j].version \in Nat /\ row[j].version <= changes + 1
                          /\ state[j] # None => state[j].version \in Nat /\ state[j].version <= changes + 1
        BY <1>1, <1>3 DEF EndpointsInv, Numbers, TypeOK, Definition, State, Versions
    <2>2. ~Idle => change.next.version \in Nat /\ change.next.version <= changes + 1 /\ change.next.id <= created
        BY <1>1, <1>3, ChangeOrIdle DEF EndpointsInv, Numbers, Change, Definition, Versions
    <2>3. \A i \in shows' : i <= created
        BY <1>5 DEF EndpointsInv, Numbers
    <2>4. ~Idle /\ change.op = "create" /\ ~At("publishing") =>
              change.next.id \notin shows' /\ \A j \in Keys : row[j] # None => row[j].id # change.next.id
        BY <1>5 DEF EndpointsInv, Numbers
    <2> QED
        BY <2>1, <2>2, <2>3, <2>4, <1>2, <1>3, <1>10, PageVersion DEF EndpointsInv, Numbers, Idle, At
<1>13. Histories' /\ Incidents'
    BY <1>2 DEF EndpointsInv, Histories, Incidents, Idle, At, Unstarted, InTransaction, Kept, OneAlertSet
<1> QED
    BY <1>6, <1>8, <1>9, <1>11, <1>12, <1>13 DEF EndpointsInv

\* What a load finds: no change, nothing monitored, and what is stored
LEMMA StoppedKeeps ==
    ASSUME EndpointsInv, TypeOK', phase' = "loading", Idle', ~pageLocked', \A j \in Keys : monitored'[j] = None,
           \A j \in Keys : state'[j] # None => state'[j] = state[j],
           UNCHANGED <<row, data, triggered, page, config, shows, created, changes, failures, unlisted>>
    PROVE  EndpointsInv'
<1>1. Undisturbed' /\ Subject' /\ StoredOfIt' /\ MonitoredOfIt' /\ LoadingAlone'
    BY DEF Undisturbed, Subject, StoredOfIt, MonitoredOfIt, LoadingAlone
<1>2. PagesInv' /\ Numbers'
    BY PageVersion DEF EndpointsInv, PagesInv, Numbers, PagesFollow
<1>3. Histories' /\ Incidents'
    BY DEF EndpointsInv, Histories, Incidents, Idle, NoChange, At, Kept, OneAlertSet
<1> QED
    BY <1>1, <1>2, <1>3 DEF EndpointsInv

\* A cycle ends.
LEMMA CycleKeeps == ASSUME EndpointsInv, BeginCycle PROVE EndpointsInv'
<1> USE DEF BeginCycle, stored, memory
<1>1. TypeOK
    BY DEF EndpointsInv
<1>2. \A j \in Keys : monitored'[j] = None
    OBVIOUS
<1>3. ~pageLocked /\ Idle'
    BY DEF EndpointsInv, PagesInv, Idle
<1>4. TypeOK'
    <2>1. loads \in Nat /\ loads' \in 0..MaxLoads
        BY <1>1, BoundsAssumption DEF TypeOK
    <2>2. monitored' \in [Keys -> Object \cup {None}]
        OBVIOUS
    <2> QED
        BY <2>1, <2>2, <1>1 DEF TypeOK
<1> QED
    BY <1>2, <1>3, <1>4, StoppedKeeps

\* The process ends.
LEMMA CrashKeeps == ASSUME EndpointsInv, Crash PROVE EndpointsInv'
<1> USE DEF Crash, stored
<1>1. TypeOK
    BY DEF EndpointsInv
<1>2. \A j \in Keys : monitored'[j] = None /\ state'[j] = None
    OBVIOUS
<1>3. ~pageLocked' /\ Idle'
    BY DEF Idle
<1>4. TypeOK'
    <2>1. loads \in Nat /\ loads' \in 0..MaxLoads
        BY <1>1, BoundsAssumption DEF TypeOK
    <2>2. monitored' \in [Keys -> Object \cup {None}] /\ state' \in [Keys -> State \cup {None}]
        OBVIOUS
    <2> QED
        BY <2>1, <2>2, <1>1 DEF TypeOK
<1> QED
    BY <1>2, <1>3, <1>4, StoppedKeeps

\* What is monitored after a load
LEMMA StartedIs ==
    ASSUME NEW cfg \in ConfigKeys, Started(cfg), state' \in [Keys -> State \cup {None}], triggered' \in [Keys -> SUBSET Alerts],
           \A j \in Keys : j \in cfg => triggered'[j] = {}
    PROVE  /\ monitored' \in [Keys -> Object \cup {None}]
           /\ \A j \in Keys :
                /\ IF j \in cfg THEN FromFile(monitored'[j])
                   ELSE IF state'[j] # None /\ state'[j].enabled
                   THEN monitored'[j] # None /\ monitored'[j].id = state'[j].id /\ monitored'[j].alerts = state'[j].alerts
                   ELSE monitored'[j] = None
                /\ monitored'[j] # None => monitored'[j].on = triggered'[j]
<1> DEFINE ofFile == [id |-> Config, alerts |-> {}, on |-> {}]
           ofState(j) == [id |-> state'[j].id, alerts |-> state'[j].alerts, on |-> triggered'[j]]
           object(j) == IF j \in cfg THEN ofFile
                        ELSE IF state'[j] # None /\ state'[j].enabled THEN ofState(j)
                        ELSE None
<1>1. monitored' = [j \in Keys |-> object(j)]
    BY DEF Started
<1>2. ofFile \in Object /\ ofFile # None /\ ofFile.id = Config /\ ofFile.alerts = {} /\ ofFile.on = {}
    BY NoneAssumption DEF Object
<1>3. ASSUME NEW j \in Keys, state'[j] # None
      PROVE  /\ ofState(j) \in Object /\ ofState(j) # None /\ ofState(j).id = state'[j].id
             /\ ofState(j).alerts = state'[j].alerts /\ ofState(j).on = triggered'[j]
    <2>1. state'[j] \in State /\ triggered'[j] \subseteq Alerts
        BY <1>3
    <2>2. state'[j].id \in Ids /\ state'[j].alerts \in AlertSets
        BY <2>1 DEF State
    <2>3. ofState(j) \in Object
        BY <2>1, <2>2 DEF Object
    <2> QED
        BY <2>3, NoneAssumption
<1> HIDE DEF ofFile, ofState
<1>4. \A j \in Keys : monitored'[j] = object(j)
    BY <1>1
<1>5. monitored' \in [Keys -> Object \cup {None}]
    BY <1>1, <1>2, <1>3
<1> QED
    BY <1>2, <1>3, <1>4, <1>5 DEF FromFile

\* A load starts what is in memory.
LEMMA LoadedKeeps ==
    ASSUME EndpointsInv, phase = "loading", phase' = "running", NEW cfg \in ConfigKeys, config' = cfg, Started(cfg),
           state' \in [Keys -> State \cup {None}], data' \in [Keys -> SUBSET (Ids \cup {Config})], triggered' \in [Keys -> SUBSET Alerts],
           pageState' = page, UNCHANGED <<row, page, pageLocked, change, shows, created, changes, loads, failures>>,
           unlisted' \in 0..MaxFailures, unlisted' = 0 => unlisted = 0,
           \A j \in Keys : state'[j] # None => row[j] # None /\ state'[j] = StateOf(row[j], j \in cfg),
           \A j \in Keys : unlisted' = 0 /\ row[j] # None => state'[j] # None,
           \A j \in Keys : data'[j] \subseteq data[j] /\ (unlisted' = 0 /\ row[j] = None /\ j \notin cfg => data'[j] = {}),
           \A j \in Keys : j \in cfg => triggered'[j] = {},
           \A j \in Keys : row[j] = None /\ triggered[j] = {} => triggered'[j] = {},
           \A j \in Keys : state'[j] # None => triggered'[j] \subseteq row[j].alerts
    PROVE  EndpointsInv'
<1>1. TypeOK /\ cfg \subseteq Keys
    BY ChoicesAssumption DEF EndpointsInv
<1>2. Idle /\ Idle' /\ ~pageLocked
    BY DEF EndpointsInv, LoadingAlone, PagesInv, Idle
<1>3. /\ monitored' \in [Keys -> Object \cup {None}]
      /\ \A j \in Keys :
            /\ IF j \in cfg THEN FromFile(monitored'[j])
               ELSE IF state'[j] # None /\ state'[j].enabled
               THEN monitored'[j] # None /\ monitored'[j].id = state'[j].id /\ monitored'[j].alerts = state'[j].alerts
               ELSE monitored'[j] = None
            /\ monitored'[j] # None => monitored'[j].on = triggered'[j]
    BY StartedIs
<1>4. TypeOK'
    BY <1>1, <1>3 DEF TypeOK
<1>5. \A j \in Keys : Served(j)'
    BY <1>3 DEF Served, FromFile, ObjectOf
<1>6. \A j \in Keys : Current(j)'
    BY DEF Current
<1>7. Undisturbed' /\ Subject' /\ StoredOfIt' /\ MonitoredOfIt' /\ LoadingAlone'
    BY <1>2, <1>5, <1>6 DEF Undisturbed, Subject, StoredOfIt, MonitoredOfIt, LoadingAlone
<1>8. PagesInv'
    BY <1>2 DEF EndpointsInv, PagesInv, PagesFollow
<1>9. Numbers'
    <2>1. \A j \in Keys : state'[j] # None => state'[j].version = row[j].version
        BY DEF StateOf
    <2> QED
        BY <1>2, <2>1 DEF EndpointsInv, Numbers
<1>10. Histories'
    BY <1>2 DEF EndpointsInv, Histories, Idle, NoChange, At
<1>11. Incidents'
    <2>1. \A j \in Keys : monitored'[j] # None => monitored'[j].on \subseteq monitored'[j].alerts
        <3>1. ASSUME NEW j \in Keys, state'[j] # None
              PROVE  state'[j].alerts = row[j].alerts /\ triggered'[j] \subseteq row[j].alerts
            BY <3>1 DEF StateOf
        <3> QED
            BY <3>1, <1>3 DEF FromFile
    <2>2. Kept' => Kept
        BY DEF Kept, OneAlertSet
    <2> QED
        BY <1>2, <1>3, <2>1, <2>2 DEF EndpointsInv, Incidents, Idle
<1> QED
    BY <1>4, <1>7, <1>8, <1>9, <1>10, <1>11 DEF EndpointsInv

\* A load that lists the managed endpoints
LEMMA LoadKeeps == ASSUME EndpointsInv, NEW cfg \in ConfigKeys, Load(cfg) PROVE EndpointsInv'
<1> USE DEF Load, counters
<1>1. TypeOK
    BY DEF EndpointsInv
<1> DEFINE stateOf(j) == StateOf(row[j], j \in cfg)
<1>2. \A j \in Keys : row[j] # None => stateOf(j) \in State /\ stateOf(j) # None
    <2> SUFFICES ASSUME NEW j \in Keys, row[j] # None
                 PROVE  stateOf(j) \in State /\ stateOf(j) # None
        OBVIOUS
    <2>0. (j \in cfg) \in BOOLEAN
        OBVIOUS
    <2>1. PICK defined \in BOOLEAN : defined = (j \in cfg)
        BY <2>0
    <2>2. row[j] \in Definition /\ stateOf(j) = StateOf(row[j], defined)
        BY <1>1, <2>1 DEF TypeOK
    <2> QED
        BY <2>2, StateIsOne
<1>3. state' = [j \in Keys |-> IF row[j] = None THEN None ELSE stateOf(j)]
    OBVIOUS
<1> HIDE DEF stateOf
<1>4. /\ state' \in [Keys -> State \cup {None}]
      /\ \A j \in Keys : state'[j] = IF row[j] = None THEN None ELSE stateOf(j)
    BY <1>2, <1>3
<1>5. \A j \in Keys : row[j] # None => row[j].alerts \subseteq Alerts
    BY <1>1 DEF TypeOK, Definition, Alerts
<1>6. /\ triggered' \in [Keys -> SUBSET Alerts]
      /\ \A j \in Keys : triggered'[j] = IF j \in cfg \/ row[j] = None THEN {} ELSE triggered[j] \cap row[j].alerts
    BY <1>1, <1>5 DEF TypeOK
<1>7. /\ data' \in [Keys -> SUBSET (Ids \cup {Config})]
      /\ \A j \in Keys : data'[j] = IF j \in cfg \/ row[j] # None THEN data[j] ELSE {}
    BY <1>1 DEF TypeOK, KeptListed
<1>8. phase = "loading" /\ phase' = "running" /\ config' = cfg /\ Started(cfg) /\ pageState' = page
      /\ UNCHANGED <<row, page, pageLocked, change, shows, created, changes, loads, failures, unlisted>>
    OBVIOUS
<1>9. \A j \in Keys : state'[j] # None => row[j] # None /\ state'[j] = StateOf(row[j], j \in cfg)
    BY <1>4 DEF stateOf
<1>10. \A j \in Keys : row[j] # None => state'[j] # None
    BY <1>2, <1>4
<1>11. unlisted' \in 0..MaxFailures
    BY <1>1, <1>8 DEF TypeOK
<1> QED
    BY ONLY EndpointsInv, cfg \in ConfigKeys, <1>4, <1>6, <1>7, <1>8, <1>9, <1>10, <1>11, LoadedKeeps

\* A load that cannot list them
LEMMA LoadFailsKeeps == ASSUME EndpointsInv, NEW cfg \in ConfigKeys, LoadFails(cfg) PROVE EndpointsInv'
<1> USE DEF LoadFails
<1>1. TypeOK
    BY DEF EndpointsInv
<1>2. /\ state' \in [Keys -> State \cup {None}]
      /\ \A j \in Keys : state'[j] = None
    OBVIOUS
<1>3. /\ triggered' \in [Keys -> SUBSET Alerts]
      /\ \A j \in Keys : triggered'[j] = IF j \in cfg THEN {} ELSE triggered[j]
    BY <1>1 DEF TypeOK
<1>4. /\ data' \in [Keys -> SUBSET (Ids \cup {Config})] /\ data' = data
    BY <1>1 DEF TypeOK, KeptUnlisted
<1>5. phase = "loading" /\ phase' = "running" /\ config' = cfg /\ Started(cfg) /\ pageState' = page
      /\ UNCHANGED <<row, page, pageLocked, change, shows, created, changes, loads, failures>>
    OBVIOUS
<1>6. unlisted' \in 0..MaxFailures /\ unlisted' # 0
    BY <1>1, BoundsAssumption DEF TypeOK
<1> QED
    BY ONLY EndpointsInv, cfg \in ConfigKeys, <1>2, <1>3, <1>4, <1>5, <1>6, LoadedKeeps

\* What the commit changes of the keys it is about
LEMMA CommitIs ==
    ASSUME EndpointsInv, Commit, NEW k \in Keys, NEW newKey \in Keys, NEW next \in Definition,
           k = change.key, newKey = change.newKey, next = change.next
    PROVE  /\ Advanced("publishing", change.on, change.started) /\ At("committing") /\ phase = "running" /\ ~Idle /\ ~Idle'
           /\ change.op \in {"create", "update", "delete"} /\ (change.conflict <=> k \in config)
           /\ change.op = "delete" => newKey = k
           /\ change.op = "create" => newKey = k /\ row[k] = None
           /\ change.op = "update" => row[k] # None /\ row[k].id = next.id
           /\ change.op # "delete" => newKey \notin config
           /\ newKey # k => row[newKey] = None
           /\ \A j \in Keys :
                /\ row'[j] = IF j = newKey /\ change.op # "delete" THEN next ELSE IF j = k THEN None ELSE row[j]
                /\ data'[j] = IF change.conflict THEN data[j] ELSE IF j = newKey /\ change.op # "delete" THEN data[k]
                              ELSE IF j = k THEN {} ELSE data[j]
                /\ triggered'[j] = IF change.conflict THEN triggered[j] ELSE IF j = newKey /\ change.op # "delete" THEN triggered[k]
                                   ELSE IF j = k THEN {} ELSE triggered[j]
           /\ row' \in [Keys -> Definition \cup {None}] /\ data' \in [Keys -> SUBSET (Ids \cup {Config})]
           /\ triggered' \in [Keys -> SUBSET Alerts]
<1> USE DEF Commit
<1>1. TypeOK
    BY DEF EndpointsInv
<1>2. change \in Change /\ At("committing") /\ change.op \in {"create", "update", "delete"}
    BY <1>1 DEF TypeOK, At, NoChange, Change
<1>3. Advanced("publishing", change.on, change.started)
    BY <1>2, StageAdvances DEF Stages
<1>4. ~Idle /\ ~Idle' /\ phase = "running"
    BY <1>2, <1>3, ChangeIsOne DEF EndpointsInv, Subject, Idle, Advanced
<1>5. change.conflict <=> k \in config
    BY <1>4 DEF EndpointsInv, Subject
<1>6. Current(k)
    BY <1>2, <1>4 DEF EndpointsInv, StoredOfIt, At
<1>7. /\ change.op = "delete" => newKey = k
      /\ change.op = "create" => newKey = k
      /\ newKey # k \/ change.op = "create" => row[newKey] = None
      /\ change.op # "delete" => newKey \notin config
    BY <1>2, <1>4 DEF EndpointsInv, Subject, StoredOfIt, Renames, At, InTransaction
<1>8. change.op = "update" => row[k] # None /\ row[k].id = next.id
    BY <1>4, <1>6 DEF EndpointsInv, Subject, Current, StateOf
<1>9. /\ row' = IF change.op = "delete" THEN [row EXCEPT ![k] = None] ELSE [row EXCEPT ![k] = None, ![newKey] = next]
      /\ data' = IF change.conflict THEN data ELSE IF change.op = "delete" THEN [data EXCEPT ![k] = {}]
                 ELSE [data EXCEPT ![k] = {}, ![newKey] = data[k]]
      /\ triggered' = IF change.conflict THEN triggered ELSE IF change.op = "delete" THEN [triggered EXCEPT ![k] = {}]
                      ELSE [triggered EXCEPT ![k] = {}, ![newKey] = triggered[k]]
    BY DEF Moved, Removed
<1>10. /\ row \in [Keys -> Definition \cup {None}] /\ data \in [Keys -> SUBSET (Ids \cup {Config})]
       /\ triggered \in [Keys -> SUBSET Alerts]
    BY <1>1 DEF TypeOK
<1>11. /\ \A j \in Keys : row'[j] = IF j = newKey /\ change.op # "delete" THEN next ELSE IF j = k THEN None ELSE row[j]
       /\ row' \in [Keys -> Definition \cup {None}]
  <2>1. CASE change.op = "delete"
    BY ONLY <2>1, <1>9, <1>10, k \in Keys
  <2>2. CASE change.op # "delete"
    BY ONLY <2>2, <1>9, <1>10, k \in Keys, newKey \in Keys, next \in Definition
  <2> QED
    BY <2>1, <2>2
<1>12. /\ \A j \in Keys : data'[j] = IF change.conflict THEN data[j] ELSE IF j = newKey /\ change.op # "delete" THEN data[k]
                                     ELSE IF j = k THEN {} ELSE data[j]
       /\ data' \in [Keys -> SUBSET (Ids \cup {Config})]
  <2>1. CASE change.conflict
    BY ONLY <2>1, <1>9, <1>10
  <2>2. CASE ~change.conflict /\ change.op = "delete"
    BY ONLY <2>2, <1>9, <1>10, k \in Keys
  <2>3. CASE ~change.conflict /\ change.op # "delete"
    BY ONLY <2>3, <1>9, <1>10, k \in Keys, newKey \in Keys
  <2> QED
    BY <2>1, <2>2, <2>3
<1>13. /\ \A j \in Keys : triggered'[j] = IF change.conflict THEN triggered[j] ELSE IF j = newKey /\ change.op # "delete" THEN triggered[k]
                                          ELSE IF j = k THEN {} ELSE triggered[j]
       /\ triggered' \in [Keys -> SUBSET Alerts]
  <2>1. CASE change.conflict
    BY ONLY <2>1, <1>9, <1>10
  <2>2. CASE ~change.conflict /\ change.op = "delete"
    BY ONLY <2>2, <1>9, <1>10, k \in Keys
  <2>3. CASE ~change.conflict /\ change.op # "delete"
    BY ONLY <2>3, <1>9, <1>10, k \in Keys, newKey \in Keys
  <2> QED
    BY <2>1, <2>2, <2>3
<1>14. \A j \in Keys :
          /\ row'[j] = IF j = newKey /\ change.op # "delete" THEN next ELSE IF j = k THEN None ELSE row[j]
          /\ data'[j] = IF change.conflict THEN data[j] ELSE IF j = newKey /\ change.op # "delete" THEN data[k]
                        ELSE IF j = k THEN {} ELSE data[j]
          /\ triggered'[j] = IF change.conflict THEN triggered[j] ELSE IF j = newKey /\ change.op # "delete" THEN triggered[k]
                             ELSE IF j = k THEN {} ELSE triggered[j]
    BY ONLY <1>11, <1>12, <1>13
<1>15. /\ change.op = "create" => newKey = k /\ row[k] = None
       /\ newKey # k => row[newKey] = None
    BY ONLY <1>7
<1> QED
    BY ONLY <1>2, <1>3, <1>4, <1>5, <1>7, <1>8, <1>11, <1>12, <1>13, <1>14, <1>15

\* The selections follow the renamed endpoint.
LEMMA CommitPages ==
    ASSUME EndpointsInv, Commit
    PROVE  /\ page' \in Page /\ page'.version <= changes + 1 /\ shows' \subseteq shows /\ PagesFollow'
           /\ ~Planned => pageState = page'
<1>1. TypeOK
    BY DEF EndpointsInv
<1>2. PICK k \in Keys, newKey \in Keys, next \in Definition : k = change.key /\ newKey = change.newKey /\ next = change.next
    BY <1>1 DEF TypeOK, Commit, At, NoChange, Change
<1>3. /\ Advanced("publishing", change.on, change.started) /\ At("committing") /\ phase = "running" /\ ~Idle
      /\ change.op \in {"create", "update", "delete"}
      /\ change.op = "delete" => newKey = k
      /\ change.op = "create" => newKey = k /\ row[k] = None
      /\ change.op = "update" => row[k] # None /\ row[k].id = next.id
      /\ newKey # k => row[newKey] = None
      /\ \A j \in Keys : row'[j] = IF j = newKey /\ change.op # "delete" THEN next ELSE IF j = k THEN None ELSE row[j]
    BY <1>2, CommitIs
<1>4. pageState = page
    BY <1>3 DEF EndpointsInv, PagesInv, At
<1>5. page' = IF PageChanges THEN [selects |-> Renamed(page.selects), version |-> page.version + 1] ELSE page
    BY <1>4 DEF Commit
<1>6. page.version \in Nat /\ changes \in 0..MaxChanges /\ page.version <= changes /\ page.version >= 1 /\ page.selects \subseteq Keys
    <2>1. page.version \in Nat /\ page.version >= 1 /\ page.selects \subseteq Keys /\ changes \in 0..MaxChanges
        BY <1>1, BoundsAssumption DEF TypeOK, Page, Versions
    <2> QED
        BY <2>1, <1>3 DEF EndpointsInv, Numbers, At
<1>7. Renamed(page.selects) \subseteq Keys
    BY <1>2, <1>6 DEF Renamed
<1>8. page' \in Page /\ page'.version <= changes + 1
    <2>1. page.version + 1 \in Versions
        BY <1>6, BoundsAssumption DEF Versions
    <2> QED
        BY <2>1, <1>1, <1>5, <1>6, <1>7 DEF TypeOK, Page
<1>9. shows' = IF change.op = "delete" \/ change.conflict THEN shows \ {next.id} ELSE shows
    BY <1>2 DEF Commit
<1>10. /\ page'.selects = IF PageChanges THEN Renamed(page.selects) ELSE page.selects
       /\ PageChanges <=> newKey # k /\ ~change.conflict /\ k \in page.selects
    BY <1>2, <1>4, <1>5 DEF PageChanges, Planned, Renames
<1>11. /\ newKey # k /\ k \in page.selects => newKey \in Renamed(page.selects)
       /\ \A j \in page.selects \ {k} : j \in Renamed(page.selects)
    BY <1>2 DEF Renamed
<1>12. ASSUME NEW j \in Keys, row'[j] # None, row'[j].id \in shows'
       PROVE  j \in page'.selects
    <2>1. \A i \in Keys : row[i] # None /\ row[i].id \in shows => i \in page.selects
        BY DEF EndpointsInv, PagesInv, PagesFollow
    <2>2. CASE j = newKey /\ change.op # "delete"
        <3>1. next.id \in shows' /\ next.id \in shows
            BY <2>2, <1>3, <1>9, <1>12
        <3>2. change.op # "create"
            BY <3>1, <1>2, <1>3 DEF EndpointsInv, Numbers, At
        <3>3. k \in page.selects
            BY <2>1, <2>2, <3>1, <3>2, <1>3
        <3>4. ~change.conflict
            BY <3>1, <1>9
        <3> QED
            BY <2>2, <3>3, <3>4, <1>10, <1>11
    <2>3. CASE ~(j = newKey /\ change.op # "delete")
        <3>1. j # k /\ row[j] # None /\ row[j].id \in shows
            BY <2>3, <1>3, <1>9, <1>12
        <3> QED
            BY <2>1, <3>1, <1>10, <1>11
    <2> QED
        BY <2>2, <2>3
<1> QED
    BY <1>4, <1>5, <1>8, <1>9, <1>12 DEF PagesFollow, PageChanges

\* The transaction is committed.
LEMMA CommitKeeps == ASSUME EndpointsInv, Commit PROVE EndpointsInv'
<1>1. TypeOK
    BY DEF EndpointsInv
<1>2. PICK k \in Keys, newKey \in Keys, next \in Definition : k = change.key /\ newKey = change.newKey /\ next = change.next
    BY <1>1 DEF TypeOK, Commit, At, NoChange, Change
<1>3. /\ Advanced("publishing", change.on, change.started) /\ At("committing") /\ phase = "running" /\ ~Idle /\ ~Idle'
      /\ change.op \in {"create", "update", "delete"} /\ (change.conflict <=> k \in config)
      /\ change.op = "delete" => newKey = k
      /\ change.op = "create" => newKey = k /\ row[k] = None
      /\ change.op = "update" => row[k] # None /\ row[k].id = next.id
      /\ change.op # "delete" => newKey \notin config
      /\ newKey # k => row[newKey] = None
    BY <1>2, CommitIs
<1>4. \A j \in Keys : row'[j] = IF j = newKey /\ change.op # "delete" THEN next ELSE IF j = k THEN None ELSE row[j]
    BY <1>2, CommitIs
<1>5. \A j \in Keys :
        data'[j] = IF change.conflict THEN data[j] ELSE IF j = newKey /\ change.op # "delete" THEN data[k]
                   ELSE IF j = k THEN {} ELSE data[j]
    BY <1>2, CommitIs
<1>6. \A j \in Keys :
        triggered'[j] = IF change.conflict THEN triggered[j] ELSE IF j = newKey /\ change.op # "delete" THEN triggered[k]
                        ELSE IF j = k THEN {} ELSE triggered[j]
    BY <1>2, CommitIs
<1>7. /\ row' \in [Keys -> Definition \cup {None}] /\ data' \in [Keys -> SUBSET (Ids \cup {Config})]
      /\ triggered' \in [Keys -> SUBSET Alerts]
    BY <1>2, CommitIs
<1>8. /\ page' \in Page /\ page'.version <= changes + 1 /\ shows' \subseteq shows /\ PagesFollow'
      /\ ~Planned => pageState = page'
    BY CommitPages
<1>9. UNCHANGED <<phase, config, state, pageState, pageLocked, monitored, created, changes, loads, failures, unlisted>>
    BY DEF Commit, memory, counters
<1>10. /\ change'.stage = "publishing" /\ change' \in Change /\ change'.key = k /\ change'.newKey = newKey /\ change'.next = next
       /\ change'.op = change.op /\ change'.previous = change.previous /\ change'.conflict = change.conflict
       /\ change'.expected = change.expected /\ change'.started = change.started /\ change'.on = change.on
    BY <1>2, <1>3 DEF Advanced
<1>11. TypeOK'
    BY <1>1, <1>7, <1>8, <1>9, <1>10 DEF TypeOK
<1>12. Changed' = Changed /\ Changed = {k, newKey}
    BY <1>2, <1>10 DEF Changed
<1>13. Undisturbed' /\ LoadingAlone'
    <2>1. \A j \in Keys : j \notin Changed => (Current(j)' <=> Current(j)) /\ (Served(j)' <=> Served(j))
        BY <1>4, <1>9, <1>12 DEF Current, Served, FromFile, ObjectOf
    <2> QED
        BY <2>1, <1>3, <1>9, <1>12 DEF EndpointsInv, Undisturbed, LoadingAlone
<1>14. Subject'
    BY <1>2, <1>3, <1>9, <1>10 DEF EndpointsInv, Subject, Renames, Planned, At
<1>15. StoredOfIt'
    BY <1>3, <1>4, <1>10 DEF StoredOfIt, At, Renames
<1>16. MonitoredOfIt'
    <2>1. change.op # "delete" => change.started = change.next.enabled
        BY <1>3 DEF EndpointsInv, MonitoredOfIt, At
    <2>2. change \in Change
        BY <1>1, <1>3, ChangeOrIdle
    <2> QED
        BY <2>1, <2>2, <1>3, <1>9, AdvancedMonitored DEF Stages
<1>17. PagesInv'
    BY <1>2, <1>3, <1>8, <1>9, <1>10 DEF EndpointsInv, PagesInv, Planned, Renames, At
<1>18. Numbers'
    <2>1. next.id <= created /\ next.version <= changes
        BY <1>2, <1>3 DEF EndpointsInv, Numbers
    <2>2. change.op # "delete" => \A j \in Keys : j # k /\ row[j] # None => row[j].id # next.id
        BY <1>2, <1>3 DEF EndpointsInv, Numbers, At
    <2>3. \A i, j \in Keys : row'[i] # None /\ row'[j] # None /\ row'[i].id = row'[j].id => i = j
        BY <2>2, <1>4 DEF EndpointsInv, Numbers
    <2>4. \A j \in Keys : row'[j] # None => row'[j].id <= created /\ row'[j].version <= changes
        BY <2>1, <1>4 DEF EndpointsInv, Numbers
    <2> QED
        BY <2>1, <2>3, <2>4, <1>3, <1>8, <1>9, <1>10 DEF EndpointsInv, Numbers, At
<1>19. Histories'
    <2> SUFFICES ASSUME failures = 0, unlisted = 0
                 PROVE  /\ \A j \in Keys : \A i \in data'[j] \ {Config} : row'[j] # None => row'[j].id = i
                        /\ \A j \in Keys \ config : row'[j] = None => data'[j] = {}
        BY <1>9, <1>10 DEF Histories, At
    <2>1. /\ \A j \in Keys : \A i \in data[j] \ {Config} : row[j] # None => row[j].id = i
          /\ \A j \in Keys \ config : row[j] = None => data[j] = {}
        BY <1>3 DEF EndpointsInv, Histories
    <2>2. change.conflict /\ change.op # "delete" => newKey # k
        BY <1>3
    <2>3. ASSUME NEW j \in Keys
          PROVE  /\ \A i \in data'[j] \ {Config} : row'[j] # None => row'[j].id = i
                 /\ j \notin config /\ row'[j] = None => data'[j] = {}
        <3>1. CASE j = newKey /\ change.op # "delete"
            <4>1. row'[j] = next /\ next # None /\ data'[j] = IF change.conflict THEN data[j] ELSE data[k]
                BY <3>1, <1>4, <1>5, NoneAssumption
            <4>2. change.conflict => data[j] = {}
                BY <2>1, <2>2, <3>1, <1>3
            <4>3. change.op = "create" => data[k] = {}
                BY <2>1, <3>1, <1>3
            <4>4. change.op = "update" => \A i \in data[k] \ {Config} : next.id = i
                BY <2>1, <1>3
            <4>5. \A i \in data'[j] \ {Config} : next.id = i
                <5>1. CASE change.conflict
                    BY <5>1, <4>1, <4>2
                <5>2. CASE ~change.conflict
                    BY <5>2, <3>1, <4>1, <4>3, <4>4, <1>3
                <5> QED
                    BY <5>1, <5>2
            <4> QED
                BY <4>1, <4>5
        <3>2. CASE j = k /\ ~(j = newKey /\ change.op # "delete")
            BY <3>2, <1>3, <1>4, <1>5
        <3>3. CASE j # k /\ ~(j = newKey /\ change.op # "delete")
            BY <2>1, <3>3, <1>3, <1>4, <1>5
        <3> QED
            BY <3>1, <3>2, <3>3
    <2> QED
        BY <2>3
<1>20. Incidents'
    <2>1. /\ \A j \in Keys : monitored'[j] # None => monitored'[j].on \subseteq monitored'[j].alerts
          /\ ~Idle' => change'.on \subseteq change'.next.alerts
          /\ ~Idle' /\ change'.previous # None => change'.previous.on \subseteq change'.previous.alerts
        BY <1>2, <1>3, <1>9, <1>10 DEF EndpointsInv, Incidents
    <2> SUFFICES ASSUME failures = 0, Kept
                 PROVE  /\ \A j \in Keys : row'[j] = None \/ j \in config => triggered'[j] = {}
                        /\ \A j \in Keys : monitored[j] # None => monitored[j].on = triggered'[j]
        BY <2>1, <1>9, <1>10 DEF Incidents, Kept, OneAlertSet, At
    <2>2. \A j \in Keys : row[j] = None \/ j \in config => triggered[j] = {}
        BY DEF EndpointsInv, Incidents
    <2>3. change.conflict /\ change.op # "delete" => newKey # k
        BY <1>3
    <2>4. \A j \in Keys : row'[j] = None \/ j \in config => triggered'[j] = {}
        <3> SUFFICES ASSUME NEW j \in Keys, row'[j] = None \/ j \in config
                     PROVE  triggered'[j] = {}
            OBVIOUS
        <3>1. ~(j = newKey /\ change.op # "delete")
            BY <1>3, <1>4, NoneAssumption
        <3>2. CASE j = k
            BY <2>2, <3>1, <3>2, <1>3, <1>6
        <3>3. CASE j # k
            BY <2>2, <3>1, <3>3, <1>3, <1>4, <1>6
        <3> QED
            BY <3>2, <3>3
    <2>5. ASSUME NEW j \in Keys, monitored[j] # None
          PROVE  monitored[j].on = triggered'[j]
        <3>1. CASE j = newKey /\ change.started
            <4>1. change.op # "delete"
                BY <3>1, <1>3 DEF EndpointsInv, Subject
            <4>2. monitored[j].on = IF change.conflict THEN {} ELSE triggered[k]
                BY <3>1, <4>1, <1>2, <1>3 DEF EndpointsInv, Incidents, At
            <4> QED
                BY <3>1, <4>1, <4>2, <2>2, <2>3, <1>3, <1>6
        <3>2. CASE ~(j = newKey /\ change.started)
            <4>1. monitored[j].on = triggered[j]
                BY <3>2, <2>5, <1>2, <1>3 DEF EndpointsInv, Incidents, Unstarted
            <4>2. j \in Changed => j \in config
                BY <3>2, <2>5, <1>2, <1>3 DEF EndpointsInv, MonitoredOfIt
            <4>3. triggered'[j] = triggered[j]
                BY <4>2, <2>2, <1>3, <1>6, <1>12
            <4> QED
                BY <4>1, <4>3
        <3> QED
            BY <3>1, <3>2
    <2> QED
        BY <2>4, <2>5
<1> QED
    BY <1>11, <1>13, <1>14, <1>15, <1>16, <1>17, <1>18, <1>19, <1>20 DEF EndpointsInv

\* What a monitored endpoint stores
LEMMA ResultKeeps == ASSUME EndpointsInv, NEW k \in Keys, StoreResult(k) PROVE EndpointsInv'
<1>1. TypeOK /\ Stored(k) /\ UNCHANGED <<triggered, monitored>>
    BY DEF EndpointsInv, StoreResult
<1>2. monitored \in [Keys -> Object \cup {None}] /\ triggered \in [Keys -> SUBSET Alerts] /\ monitored[k] # None
    BY <1>1 DEF TypeOK, Stored
<1> DEFINE on == monitored[k].on
           stays == triggered[k]
<1>3. on \subseteq monitored[k].alerts /\ stays \in SUBSET Alerts
    BY <1>2 DEF EndpointsInv, Incidents
<1>4. triggered' = [triggered EXCEPT ![k] = stays] /\ monitored' = monitored
    BY <1>1, <1>2
<1>5. monitored'[k].on = on
    BY <1>4
<1>6. monitored[k].on = triggered[k] => on = stays
    OBVIOUS
<1> HIDE DEF on, stays
<1> QED
    BY <1>1, <1>2, <1>3, <1>4, <1>5, <1>6, StoringKeeps

\* An alert is on.
LEMMA TriggerKeeps == ASSUME EndpointsInv, NEW k \in Keys, NEW alert \in Alerts, Trigger(k, alert) PROVE EndpointsInv'
<1>1. TypeOK /\ Stored(k) /\ alert \in monitored[k].alerts /\ monitored' = [monitored EXCEPT ![k].on = @ \cup {alert}]
      /\ triggered' = [triggered EXCEPT ![k] = @ \cup {alert}]
    BY DEF EndpointsInv, Trigger
<1>2. monitored \in [Keys -> Object \cup {None}] /\ triggered \in [Keys -> SUBSET Alerts] /\ monitored[k] # None
    BY <1>1 DEF TypeOK, Stored
<1> DEFINE on == monitored[k].on \cup {alert}
           stays == triggered[k] \cup {alert}
<1>3. on \subseteq monitored[k].alerts /\ stays \in SUBSET Alerts /\ on \in SUBSET Alerts
    BY <1>1, <1>2 DEF EndpointsInv, Incidents, Object
<1>4. triggered' = [triggered EXCEPT ![k] = stays] /\ monitored' = [monitored EXCEPT ![k].on = on]
    BY <1>1, <1>2
<1>5. monitored[k].on = triggered[k] => on = stays
    OBVIOUS
<1> HIDE DEF on, stays
<1>6. /\ monitored' \in [Keys -> Object \cup {None}] /\ \A j \in Keys : j # k => monitored'[j] = monitored[j]
      /\ monitored'[k] # None /\ monitored'[k].id = monitored[k].id /\ monitored'[k].alerts = monitored[k].alerts
      /\ monitored'[k].on = on
    BY <1>2, <1>3, <1>4, NoneAssumption DEF Object
<1> QED
    BY <1>1, <1>3, <1>4, <1>5, <1>6, StoringKeeps

\* An alert is off.
LEMMA ResolveKeeps == ASSUME EndpointsInv, NEW k \in Keys, NEW alert \in Alerts, Resolve(k, alert) PROVE EndpointsInv'
<1>1. TypeOK /\ Stored(k) /\ monitored' = [monitored EXCEPT ![k].on = @ \ {alert}]
      /\ triggered' = [triggered EXCEPT ![k] = @ \ {alert}]
    BY DEF EndpointsInv, Resolve
<1>2. monitored \in [Keys -> Object \cup {None}] /\ triggered \in [Keys -> SUBSET Alerts] /\ monitored[k] # None
    BY <1>1 DEF TypeOK, Stored
<1> DEFINE on == monitored[k].on \ {alert}
           stays == triggered[k] \ {alert}
<1>3. on \subseteq monitored[k].alerts /\ stays \in SUBSET Alerts /\ on \in SUBSET Alerts
    BY <1>1, <1>2 DEF EndpointsInv, Incidents, Object
<1>4. triggered' = [triggered EXCEPT ![k] = stays] /\ monitored' = [monitored EXCEPT ![k].on = on]
    BY <1>1, <1>2
<1>5. monitored[k].on = triggered[k] => on = stays
    OBVIOUS
<1> HIDE DEF on, stays
<1>6. /\ monitored' \in [Keys -> Object \cup {None}] /\ \A j \in Keys : j # k => monitored'[j] = monitored[j]
      /\ monitored'[k] # None /\ monitored'[k].id = monitored[k].id /\ monitored'[k].alerts = monitored[k].alerts
      /\ monitored'[k].on = on
    BY <1>2, <1>3, <1>4, NoneAssumption DEF Object
<1> QED
    BY <1>1, <1>3, <1>4, <1>5, <1>6, StoringKeeps

\* Nothing happens.
LEMMA SameEndpoints == ASSUME EndpointsInv, UNCHANGED vars PROVE EndpointsInv'
<1>1. UNCHANGED <<phase, config, row, data, triggered, page, state, pageState, pageLocked, monitored, change, shows, created, changes,
                  loads, failures, unlisted>>
    BY DEF vars, stored, memory, counters
<1>2. (TypeOK /\ Undisturbed /\ Subject /\ StoredOfIt /\ LoadingAlone)'
    BY <1>1 DEF EndpointsInv, TypeOK, Undisturbed, Subject, StoredOfIt, LoadingAlone, Idle, At, Renames, Planned, Changed,
                InTransaction, Current, Served, FromFile, ObjectOf
<1>3. (MonitoredOfIt /\ PagesInv /\ Numbers /\ Histories)'
    BY <1>1 DEF EndpointsInv, MonitoredOfIt, PagesInv, PagesFollow, Numbers, Histories, Idle, At, Renames, Planned, Changed,
                InTransaction, FromFile, ObjectOf
<1>4. Incidents'
    BY <1>1 DEF EndpointsInv, Incidents, Idle, At, InTransaction, Unstarted, Kept, OneAlertSet
<1> QED
    BY <1>2, <1>3, <1>4 DEF EndpointsInv

\* At first nothing is stored, and the process begins.
LEMMA InitEndpoints == Init => EndpointsInv
<1> SUFFICES ASSUME Init
             PROVE  EndpointsInv
    OBVIOUS
<1> USE BoundsAssumption DEF Init
<1>1. TypeOK
    <2>1. page \in Page /\ pageState \in Page
        <3>1. 1 \in Versions
            BY DEF Versions
        <3> QED
            BY <3>1 DEF Page
    <2>2. /\ row \in [Keys -> Definition \cup {None}] /\ state \in [Keys -> State \cup {None}]
          /\ monitored \in [Keys -> Object \cup {None}]
          /\ data \in [Keys -> SUBSET (Ids \cup {Config})] /\ triggered \in [Keys -> SUBSET Alerts]
        OBVIOUS
    <2>3. /\ created \in 0..MaxCreated /\ changes \in 0..MaxChanges /\ loads \in 0..MaxLoads
          /\ failures \in 0..MaxFailures /\ unlisted \in 0..MaxFailures
        OBVIOUS
    <2>4. /\ phase \in {"running", "loading"} /\ config \subseteq Keys /\ pageLocked \in BOOLEAN
          /\ change \in Change \cup {NoChange} /\ shows \subseteq Ids
        OBVIOUS
    <2> QED
        BY ONLY <2>1, <2>2, <2>3, <2>4 DEF TypeOK
<1>2. Undisturbed /\ Subject /\ StoredOfIt /\ MonitoredOfIt /\ LoadingAlone
    BY DEF Undisturbed, Subject, StoredOfIt, MonitoredOfIt, LoadingAlone, Idle
<1>3. PagesInv /\ Numbers
    BY DEF PagesInv, PagesFollow, Numbers, Idle
<1>4. Histories /\ Incidents
    BY DEF Histories, Incidents, Idle, At, NoChange
<1> QED
    BY <1>1, <1>2, <1>3, <1>4 DEF EndpointsInv

\* Every step of the administration keeps it.
LEMMA NextKeepsEndpoints == EndpointsInv /\ [Next]_vars => EndpointsInv'
<1> SUFFICES ASSUME EndpointsInv, [Next]_vars
             PROVE  EndpointsInv'
    OBVIOUS
<1>1. ASSUME NEW k \in Keys, StoreResult(k) PROVE EndpointsInv'
    BY <1>1, ResultKeeps
<1>2. ASSUME NEW k \in Keys, NEW alert \in Alerts, Trigger(k, alert) \/ Resolve(k, alert) PROVE EndpointsInv'
    BY <1>2, TriggerKeeps, ResolveKeeps
<1>3. ASSUME NEW k \in Keys, NEW alerts \in AlertSets, NEW enabled \in BOOLEAN, Create(k, alerts, enabled) PROVE EndpointsInv'
    BY <1>3, CreateKeeps
<1>4. ASSUME NEW k \in Keys, NEW version \in Versions, NEW newKey \in Keys, NEW alerts \in AlertSets, NEW enabled \in BOOLEAN,
             Update(k, version, newKey, alerts, enabled)
      PROVE  EndpointsInv'
    BY <1>4, UpdateKeeps
<1>5. ASSUME NEW k \in Keys, NEW version \in Versions, Delete(k, version) PROVE EndpointsInv'
    BY <1>5, DeleteKeeps
<1>6. ASSUME ChangeStep \/ CommitFails PROVE EndpointsInv'
    BY <1>6, RestoreKeeps, PlanKeeps, WriteKeeps, ApplyKeeps, CommitKeeps, UndoKeeps, PublishKeeps, CommitFailsKeeps DEF ChangeStep
<1>7. ASSUME NEW selects \in SUBSET Keys, EditPage(selects) PROVE EndpointsInv'
    BY <1>7, EditKeeps
<1>8. ASSUME BeginCycle \/ Crash PROVE EndpointsInv'
    BY <1>8, CycleKeeps, CrashKeeps
<1>9. ASSUME NEW cfg \in ConfigKeys, Load(cfg) \/ LoadFails(cfg) PROVE EndpointsInv'
    BY <1>9, LoadKeeps, LoadFailsKeeps
<1>10. CASE UNCHANGED vars
    BY <1>10, SameEndpoints
<1> QED
    BY <1>1, <1>2, <1>3, <1>4, <1>5, <1>6, <1>7, <1>8, <1>9, <1>10 DEF Next

\* The invariant holds in every state.
LEMMA EndpointsAlways == Spec => []EndpointsInv
<1> QED
    BY InitEndpoints, NextKeepsEndpoints, PTL DEF Spec

\* What it says between two changes
LEMMA EndpointsConsistent == EndpointsInv => Consistent
<1> SUFFICES ASSUME EndpointsInv
             PROVE  Consistent
    OBVIOUS
<1>1. TypeOK /\ PagesFollow
    BY DEF EndpointsInv, PagesInv
<1>2. ASSUME Settled
      PROVE  pageState = page /\ \A k \in Keys : Current(k) /\ Served(k)
    <2>1. pageState = page
        BY <1>2 DEF EndpointsInv, PagesInv, Settled, Idle, At, NoChange
    <2> QED
        BY <1>2, <2>1, SettledAgrees DEF Settled
<1>3. Agreement
    BY <1>2 DEF Agreement, Current, Served, FromFile, ObjectOf
<1>4. HistoryOfOneEndpoint
    BY DEF HistoryOfOneEndpoint, EndpointsInv, Histories, Settled
<1> QED
    BY <1>1, <1>3, <1>4 DEF Consistent

\* ... and of the alerts
LEMMA EndpointsPersisted == EndpointsInv => PersistedWhenListed
BY DEF PersistedWhenListed, IncidentsPersisted, EndpointsInv, Incidents, Settled, Unstarted

\* The results of an endpoint are under its key after the step.
Follows ==
    \A k, newKey \in Keys :
        /\ row[k] # None /\ row[k].id \in data[k]
        /\ row'[newKey] # None /\ row'[newKey].id = row[k].id
        /\ newKey # k => ~change.conflict
        => row[k].id \in data'[newKey]

\* They are when no row changes and no result of a row is lost.
LEMMA RowsKept ==
    ASSUME EndpointsInv, row' = row, \A j \in Keys : row[j] # None => data[j] \subseteq data'[j]
    PROVE  Follows
BY DEF Follows, EndpointsInv, Numbers

\* The commit moves them with the row.
LEMMA CommitFollows == ASSUME EndpointsInv, Commit PROVE Follows
<1>1. TypeOK
    BY DEF EndpointsInv
<1>2. PICK k \in Keys, newKey \in Keys, next \in Definition : k = change.key /\ newKey = change.newKey /\ next = change.next
    BY <1>1 DEF TypeOK, Commit, At, NoChange, Change
<1>3. /\ At("committing") /\ ~Idle /\ change.op \in {"create", "update", "delete"}
      /\ change.op = "delete" => newKey = k
      /\ change.op = "create" => newKey = k /\ row[k] = None
      /\ change.op = "update" => row[k] # None /\ row[k].id = next.id
      /\ newKey # k => row[newKey] = None
      /\ \A j \in Keys :
            /\ row'[j] = IF j = newKey /\ change.op # "delete" THEN next ELSE IF j = k THEN None ELSE row[j]
            /\ data'[j] = IF change.conflict THEN data[j] ELSE IF j = newKey /\ change.op # "delete" THEN data[k]
                          ELSE IF j = k THEN {} ELSE data[j]
    BY <1>2, CommitIs
<1>4. \A i, j \in Keys : row[i] # None /\ row[j] # None /\ row[i].id = row[j].id => i = j
    BY DEF EndpointsInv, Numbers
<1>5. change.op = "create" => \A j \in Keys : row[j] # None => row[j].id # next.id
    BY <1>2, <1>3 DEF EndpointsInv, Numbers, At
<1> SUFFICES ASSUME NEW old \in Keys, NEW new \in Keys, row[old] # None, row[old].id \in data[old],
                    row'[new] # None, row'[new].id = row[old].id, new # old => ~change.conflict
             PROVE  row[old].id \in data'[new]
    BY DEF Follows
<1>6. CASE new = newKey /\ change.op # "delete"
    <2>1. row[old].id = next.id
        BY <1>3, <1>6
    <2>2. change.op = "update" /\ old = k
        BY <2>1, <1>3, <1>4, <1>5, <1>6
    <2>3. CASE change.conflict
        <3>1. data'[new] = data[new] /\ new = old
            BY <2>3, <1>3
        <3> QED
            BY <3>1
    <2>4. CASE ~change.conflict
        <3>1. data'[new] = data[k]
            BY <2>4, <1>3, <1>6
        <3> QED
            BY <2>2, <3>1
    <2> QED
        BY <2>3, <2>4
<1>7. CASE ~(new = newKey /\ change.op # "delete")
    <2>1. new # k /\ row'[new] = row[new]
        BY <1>3, <1>7
    <2>2. new = old
        BY <2>1, <1>4
    <2>3. data'[new] = data[new]
        BY <2>1, <1>3, <1>7
    <2> QED
        BY <2>2, <2>3
<1> QED
    BY <1>6, <1>7

\* No other step moves a row.
LEMMA NextFollows == EndpointsInv /\ [Next]_vars => [Follows]_vars
<1> SUFFICES ASSUME EndpointsInv, Next
             PROVE  Follows
    OBVIOUS
<1> USE DEF stored, memory
<1>1. TypeOK
    BY DEF EndpointsInv
<1>2. ASSUME NEW k \in Keys, Stored(k) PROVE Follows
    <2>1. row' = row /\ \A j \in Keys : data[j] \subseteq data'[j]
        BY <1>1, <1>2 DEF TypeOK, Stored
    <2> QED
        BY <2>1, RowsKept
<1>3. ASSUME UNCHANGED <<row, data>> PROVE Follows
    BY <1>3, RowsKept
<1>4. ASSUME NEW cfg \in ConfigKeys, Load(cfg) \/ LoadFails(cfg) PROVE Follows
    <2>1. row' = row /\ \A j \in Keys : row[j] # None => data[j] \subseteq data'[j]
        BY <1>1, <1>4 DEF TypeOK, Load, LoadFails, KeptListed, KeptUnlisted
    <2> QED
        BY <2>1, RowsKept
<1>5. ASSUME NEW k \in Keys, NEW alert \in Alerts, StoreResult(k) \/ Trigger(k, alert) \/ Resolve(k, alert) PROVE Follows
    BY <1>2, <1>5 DEF StoreResult, Trigger, Resolve
<1>6. ASSUME NEW k \in Keys, StoreResult(k) PROVE Follows
    BY <1>2, <1>6 DEF StoreResult
<1>7. ASSUME NEW c, Begins(c) PROVE Follows
    BY <1>3, <1>7 DEF Begins
<1>8. ASSUME NEW k \in Keys, NEW alerts \in AlertSets, NEW enabled \in BOOLEAN, Create(k, alerts, enabled) PROVE Follows
    BY <1>7, <1>8 DEF Create
<1>9. ASSUME NEW k \in Keys, NEW version \in Versions, NEW newKey \in Keys, NEW alerts \in AlertSets, NEW enabled \in BOOLEAN,
             Update(k, version, newKey, alerts, enabled)
      PROVE  Follows
    BY <1>7, <1>9 DEF Update, Replaces
<1>10. ASSUME NEW k \in Keys, NEW version \in Versions, Delete(k, version) PROVE Follows
    BY <1>7, <1>10 DEF Delete, Replaces
<1>11. ASSUME RestoreAlerts \/ PlanPages \/ Write \/ Apply \/ Undo \/ Publish \/ CommitFails PROVE Follows
    BY <1>3, <1>11 DEF RestoreAlerts, PlanPages, Write, Apply, Undo, Publish, CommitFails
<1>12. ASSUME NEW selects \in SUBSET Keys, EditPage(selects) PROVE Follows
    BY <1>3, <1>12 DEF EditPage
<1>13. ASSUME BeginCycle \/ Crash PROVE Follows
    BY <1>3, <1>13 DEF BeginCycle, Crash
<1> QED
    BY <1>4, <1>5, <1>6, <1>8, <1>9, <1>10, <1>11, <1>12, <1>13, CommitFollows DEF Next, ChangeStep

\* The stored definitions, the states in memory and the monitored objects agree between two changes.
THEOREM AdministrationConsistent == Spec => []Consistent
<1> QED
    BY EndpointsAlways, EndpointsConsistent, PTL

\* The results follow the endpoint.
THEOREM HistoriesFollow == Spec => HistoryFollows
<1>1. [Follows]_vars => [\A k, newKey \in Keys :
        /\ row[k] # None /\ row[k].id \in data[k]
        /\ row'[newKey] # None /\ row'[newKey].id = row[k].id
        /\ newKey # k => ~change.conflict
        => row[k].id \in data'[newKey]]_vars
    BY DEF Follows
<1> QED
    BY <1>1, EndpointsAlways, NextFollows, PTL DEF Spec, HistoryFollows

-----------------------------------------------------------------------------
(* The provider *)

Watched == {e \in Users : watched[e] # NoProvider}

\* The types that the argument needs
Shapes ==
    /\ watched \in [Users -> Row] /\ prepared \in [Users -> Validity]
    /\ provider \in Row /\ file \in Declarations /\ entry \in Row /\ alerting \in Row /\ writing \in ChangeInProgress \cup {NoWrite}

\* What is used is what is published, and a monitored endpoint has a state.
InUse == alerting = Effective(file, entry) /\ \A e \in Users : watched[e] # NoProvider => prepared[e] # NoProvider

Stopping ==
    writing.stage = "stopping" =>
        /\ writing.plan # {} => file = NoProvider
        /\ Effective(file, writing.next) = alerting \/ Watched \subseteq writing.left

Starting == writing.stage = "starting" /\ writing.left # {} => file = NoProvider /\ alerting = writing.next

ServedInv == Shapes /\ InUse /\ Stopping /\ Starting /\ ServedByItsProvider

\* What an endpoint is validated against is what it is valid with.
LEMMA ValidWith ==
    ASSUME NEW e, NEW used, PreparedWith(e, used) \in Definitions
    PROVE  PreparedWith(e, used) = used
BY ProvidersAssumption DEF PreparedWith

\* What a type is effectively configured as is a row, of the file or of the administration.
LEMMA EffectiveType ==
    ASSUME file \in Declarations, NEW managed \in Row
    PROVE  Effective(file, managed) \in Row
BY ProvidersAssumption DEF Effective, Row

\* The first state
LEMMA ServedInit == ProvidersInit => ServedInv
BY ProvidersAssumption DEF ProvidersInit, ServedInv, Shapes, InUse, Stopping, Starting, ServedByItsProvider, NoWrite, Row,
    Validity, Effective

\* A step that changes neither the providers, nor the states, nor what is monitored, nor the change in progress
LEMMA Untouched ==
    ASSUME ServedInv, UNCHANGED <<provider, file, entry, alerting, prepared, watched, writing>>
    PROVE  ServedInv'
BY DEF ServedInv, Shapes, InUse, Stopping, Starting, ServedByItsProvider, Watched, IsValid

\* Between two changes, what one endpoint is monitored with may become the provider in use, or nothing.
LEMMA OneUser ==
    ASSUME ServedInv, writing = NoWrite, UNCHANGED <<provider, file, entry, alerting, writing>>,
           NEW e \in Users, NEW validity \in Validity, NEW object \in {alerting, NoProvider},
           object # NoProvider => validity # NoProvider,
           prepared' = [prepared EXCEPT ![e] = validity], watched' = [watched EXCEPT ![e] = object]
    PROVE  ServedInv'
<1>1. Shapes'
    BY DEF ServedInv, Shapes, Row
<1>2. InUse' /\ ServedByItsProvider'
    BY DEF ServedInv, Shapes, InUse, ServedByItsProvider, Effective
<1>3. Stopping' /\ Starting'
    BY DEF Stopping, Starting, NoWrite
<1> QED
    BY <1>1, <1>2, <1>3 DEF ServedInv

\* The changes of the endpoints
LEMMA UsersKeepServed ==
    ASSUME ServedInv, NEW e \in Users,
           \/ \E enabled \in BOOLEAN : CreateUser(e, enabled)
           \/ SwitchUser(e) \/ DeleteUser(e)
    PROVE  ServedInv'
<1> USE ProvidersAssumption DEF MayChange
<1>1. alerting \in Row /\ (PreparedWith(e, alerting) \in Definitions => alerting \in Definitions)
    BY ValidWith DEF ServedInv, Shapes
<1>2. CASE \E enabled \in BOOLEAN : CreateUser(e, enabled)
    <2>1. PICK enabled \in BOOLEAN : CreateUser(e, enabled)
        BY <1>2
    <2>2. alerting \in Definitions /\ alerting \in Validity
        BY <2>1, <1>1 DEF CreateUser, Validity, Row
    <2> DEFINE object == IF enabled THEN alerting ELSE NoProvider
    <2>3. /\ writing = NoWrite /\ UNCHANGED <<provider, file, entry, alerting, writing>>
          /\ prepared' = [prepared EXCEPT ![e] = alerting] /\ watched' = [watched EXCEPT ![e] = object]
        BY <2>1 DEF CreateUser
    <2> HIDE DEF object
    <2>4. object \in {alerting, NoProvider} /\ alerting # NoProvider
        BY <2>2 DEF object
    <2> QED
        BY ONLY ServedInv, <2>2, <2>3, <2>4, OneUser, e \in Users
<1>3. CASE SwitchUser(e)
    <2>1. alerting \in Definitions /\ alerting \in Validity
        BY <1>3, <1>1 DEF SwitchUser, Validity, Row
    <2> DEFINE object == IF users[e] = "disabled" THEN alerting ELSE NoProvider
    <2>2. /\ writing = NoWrite /\ UNCHANGED <<provider, file, entry, alerting, writing>>
          /\ prepared' = [prepared EXCEPT ![e] = alerting] /\ watched' = [watched EXCEPT ![e] = object]
        BY <1>3 DEF SwitchUser
    <2>3. object \in {alerting, NoProvider} /\ alerting # NoProvider
        BY <2>1 DEF object
    <2> HIDE DEF object
    <2> QED
        BY ONLY ServedInv, <2>1, <2>2, <2>3, OneUser, e \in Users
<1>4. CASE DeleteUser(e)
    <2>1. /\ writing = NoWrite /\ UNCHANGED <<provider, file, entry, alerting, writing>>
          /\ prepared' = [prepared EXCEPT ![e] = NoProvider] /\ watched' = [watched EXCEPT ![e] = NoProvider]
        BY <1>4 DEF DeleteUser
    <2>2. NoProvider \in Validity
        BY DEF Validity, Row
    <2> QED
        BY ONLY ServedInv, <2>1, <2>2, OneUser, e \in Users
<1> QED
    BY <1>2, <1>3, <1>4

\* A change is stored: the monitored endpoints are all to be stopped, unless what is used stays the same.
LEMMA WriteKeepsServed ==
    ASSUME ServedInv, NEW next \in Row, WriteProvider(next)
    PROVE  ServedInv'
<1> USE ProvidersAssumption
<1>1. UNCHANGED <<file, entry, alerting, prepared, watched>> /\ writing = NoWrite
    BY DEF WriteProvider, MayChange, inMemory
<1> DEFINE plan == IF file = NoProvider /\ next # NoProvider THEN Dependents ELSE {}
           remaining == {e \in plan : watched[e] # NoProvider}
<1>2. writing' = [stage |-> "stopping", next |-> next, plan |-> plan, left |-> remaining]
    BY DEF WriteProvider
<1>3. plan \subseteq Users /\ remaining \subseteq Users
    BY DEF Dependents
<1>4. Watched \subseteq Dependents
    BY DEF ServedInv, InUse, Watched, Dependents
<1>5. Effective(file, next) = alerting \/ Watched \subseteq remaining
    <2>1. CASE file # NoProvider
        BY <2>1 DEF ServedInv, InUse, Effective
    <2>2. CASE file = NoProvider /\ next # NoProvider
        BY <2>2, <1>4 DEF Watched
    <2>3. CASE file = NoProvider /\ next = NoProvider
        BY <2>3, <1>4 DEF WriteProvider, MayReplace
    <2> QED
        BY <2>1, <2>2, <2>3
<1>6. plan # {} => file = NoProvider
    OBVIOUS
<1> HIDE DEF plan, remaining
<1>7. Watched' = Watched
    BY <1>1 DEF Watched
<1>8. Stopping' /\ Starting'
    BY <1>1, <1>2, <1>5, <1>6, <1>7 DEF Stopping, Starting, Effective
<1>9. Shapes' /\ InUse' /\ ServedByItsProvider'
    BY <1>1, <1>2, <1>3 DEF ServedInv, Shapes, InUse, ServedByItsProvider, ChangeInProgress, Effective, WriteProvider
<1> QED
    BY <1>8, <1>9 DEF ServedInv

\* An endpoint is stopped: it is no longer in the list, and no longer monitored.
LEMMA StopKeepsServed ==
    ASSUME ServedInv, NEW e \in Users, StopDependent(e)
    PROVE  ServedInv'
<1> USE DEF StopDependent, IsNext
<1>1. writing \in ChangeInProgress /\ writing' = [writing EXCEPT !.left = @ \ {e}]
    BY DEF ServedInv, Shapes, NoWrite
<1>2. writing'.stage = "stopping" /\ writing'.next = writing.next /\ writing'.plan = writing.plan
      /\ writing'.left = writing.left \ {e} /\ writing' \in ChangeInProgress
    BY <1>1 DEF ChangeInProgress
<1>3. watched' = [watched EXCEPT ![e] = NoProvider] /\ UNCHANGED <<provider, file, entry, alerting, prepared>>
    BY DEF persisted
<1>4. Shapes' /\ InUse' /\ ServedByItsProvider'
    BY <1>2, <1>3 DEF ServedInv, Shapes, InUse, ServedByItsProvider, Row, Effective
<1>5. Watched' = Watched \ {e}
    BY <1>3 DEF ServedInv, Shapes, Watched
<1>6. Stopping' /\ Starting'
    BY <1>2, <1>3, <1>5 DEF ServedInv, Stopping, Starting, Effective
<1> QED
    BY <1>4, <1>6 DEF ServedInv

\* The new provider is published: nothing that used another one is monitored.
LEMMA PublishKeepsServed ==
    ASSUME ServedInv, PublishProvider
    PROVE  ServedInv'
<1> USE DEF PublishProvider, AllStopped, persisted
<1>1. writing \in ChangeInProgress
    BY DEF ServedInv, Shapes, NoWrite
<1>2. writing'.stage = "starting" /\ writing'.next = writing.next /\ writing'.plan = writing.plan
      /\ writing'.left = writing.plan /\ writing' \in ChangeInProgress /\ writing.next \in Row
    BY <1>1 DEF ChangeInProgress
<1>3. Effective(file, writing.next) \in Row
    BY <1>2, EffectiveType DEF ServedInv, Shapes
<1>4. Effective(file, writing.next) = alerting \/ Watched = {}
    BY DEF ServedInv, Stopping
<1>5. Shapes' /\ InUse' /\ ServedByItsProvider'
    BY <1>2, <1>3, <1>4 DEF ServedInv, Shapes, InUse, ServedByItsProvider, Watched, Effective
<1>6. Stopping' /\ Starting'
    BY <1>2 DEF ServedInv, Stopping, Starting, Effective
<1> QED
    BY <1>5, <1>6 DEF ServedInv

\* An endpoint is started, if at all, with what was published.
LEMMA StartKeepsServed ==
    ASSUME ServedInv, NEW e \in Users, NEW migrated, StartWith(e, migrated)
    PROVE  ServedInv'
<1> USE ProvidersAssumption DEF IsNext
<1> DEFINE next == PreparedWith(e, writing.next)
           object == IF next \in Definitions /\ users[e] = "enabled" THEN next ELSE NoProvider
<1>1. /\ writing.stage = "starting" /\ e \in writing.left
      /\ prepared' = [prepared EXCEPT ![e] = next] /\ watched' = [watched EXCEPT ![e] = object]
      /\ writing' = [writing EXCEPT !.left = @ \ {e}]
      /\ UNCHANGED <<provider, file, entry, alerting>>
    BY DEF StartWith
<1>2. writing \in ChangeInProgress /\ writing.next \in Row
    BY <1>1 DEF ServedInv, Shapes, NoWrite, ChangeInProgress
<1>3. writing'.stage = "starting" /\ writing'.next = writing.next /\ writing'.left = writing.left \ {e}
      /\ writing' \in ChangeInProgress
    BY <1>1, <1>2 DEF ChangeInProgress
<1>4. next \in Validity
    BY <1>2 DEF PreparedWith, Validity
<1>5. object \in {alerting, NoProvider} /\ (object # NoProvider => next # NoProvider)
    BY <1>1, ValidWith DEF ServedInv, Starting
<1> HIDE DEF next, object
<1>6. Shapes'
    BY <1>1, <1>3, <1>4, <1>5 DEF ServedInv, Shapes, Row
<1>7. InUse' /\ ServedByItsProvider'
    BY <1>1, <1>5 DEF ServedInv, Shapes, InUse, ServedByItsProvider, Effective
<1>8. Stopping' /\ Starting'
    BY <1>1, <1>3 DEF ServedInv, Stopping, Starting, Effective
<1> QED
    BY <1>6, <1>7, <1>8 DEF ServedInv

\* A load: every endpoint is validated against what is used, and none of a change remains.
LEMMA LoadKeepsServed ==
    ASSUME ServedInv, NEW declared \in Declarations, NEW failing \in SUBSET {"providers", "endpoints"},
           LoadProviders(declared, failing)
    PROVE  ServedInv'
<1> USE ProvidersAssumption
<1> DEFINE used == Effective(declared, ListedProvider(failing))
           ValidityOf(e) == LoadedState(e, used, failing)
<1>1. /\ file' = declared /\ entry' = ListedProvider(failing) /\ alerting' = used
      /\ prepared' = [e \in Users |-> ValidityOf(e)]
      /\ watched' = [e \in Users |-> IF users[e] = "enabled" /\ ValidityOf(e) \in Definitions THEN ValidityOf(e) ELSE NoProvider]
      /\ writing' = NoWrite /\ UNCHANGED provider
    BY DEF LoadProviders
<1>2. ListedProvider(failing) \in Row
    BY DEF ServedInv, Shapes, ListedProvider, Row
<1>3. used \in Row
    BY <1>2 DEF Effective, Row
<1>4. ASSUME NEW e \in Users
      PROVE  ValidityOf(e) \in Validity /\ (ValidityOf(e) \in Definitions => ValidityOf(e) = used)
    <2>1. LoadedState(e, used, failing) \in {NoProvider, PreparedWith(e, used)}
        BY DEF LoadedState
    <2>2. PreparedWith(e, used) \in {BrokenProvider, used}
        BY DEF PreparedWith
    <2> QED
        BY <2>1, <2>2, <1>3 DEF Validity, Row
<1> HIDE DEF used, ValidityOf
<1>5. Shapes'
    BY <1>1, <1>2, <1>3, <1>4 DEF ServedInv, Shapes, Row
<1>6. alerting' = Effective(file', entry')
    BY <1>1 DEF used
<1>7. ASSUME NEW e \in Users, watched'[e] # NoProvider
      PROVE  watched'[e] = alerting' /\ prepared'[e] # NoProvider
    BY <1>1, <1>4, <1>7
<1>8. Stopping' /\ Starting'
    BY <1>1 DEF Stopping, Starting, NoWrite
<1> QED
    BY <1>5, <1>6, <1>7, <1>8 DEF ServedInv, InUse, ServedByItsProvider, Effective

\* Every change, publication, start and restart, and every step of an endpoint, keeps ServedInv.
LEMMA NextKeepsServed == ServedInv /\ [ProvidersNext]_providerVars => ServedInv'
<1> SUFFICES ASSUME ServedInv, [ProvidersNext]_providerVars
             PROVE  ServedInv'
    OBVIOUS
<1>1. CASE \E e \in Users : FailedExecution(e) \/ SuccessfulExecution(e)
    BY <1>1, Untouched DEF FailedExecution, SuccessfulExecution
<1>2. CASE \E e \in Users : (\E enabled \in BOOLEAN : CreateUser(e, enabled)) \/ SwitchUser(e) \/ DeleteUser(e)
    BY <1>2, UsersKeepServed
<1>3. CASE \E e \in Users : StopDependent(e)
    BY <1>3, StopKeepsServed
<1>4. CASE \E e \in Users : StartDependent(e) \/ StartUnmigrated(e)
    BY <1>4, StartKeepsServed DEF StartDependent, StartUnmigrated
<1>5. CASE \E definition \in Definitions : CreateProvider(definition) \/ UpdateProvider(definition)
    BY <1>5, WriteKeepsServed DEF CreateProvider, UpdateProvider, Row
<1>6. CASE DeleteProvider
    BY <1>6, WriteKeepsServed DEF DeleteProvider, Row
<1>7. CASE PublishProvider
    BY <1>7, PublishKeepsServed
<1>8. CASE EndWrite
    <2>1. writing' = NoWrite /\ UNCHANGED <<provider, file, entry, alerting, prepared, watched>>
        BY <1>8 DEF EndWrite, persisted, inMemory
    <2> QED
        BY <2>1 DEF ServedInv, Shapes, InUse, Stopping, Starting, ServedByItsProvider, NoWrite, Effective
<1>9. CASE \E declared \in Declarations, failing \in SUBSET {"providers", "endpoints"} : LoadProviders(declared, failing)
    BY <1>9, LoadKeepsServed
<1>10. CASE UNCHANGED providerVars
    BY <1>10, Untouched DEF providerVars, persisted, inMemory
<1> QED
    BY <1>1, <1>2, <1>3, <1>4, <1>5, <1>6, <1>7, <1>8, <1>9, <1>10 DEF ProvidersNext

\* A monitored endpoint always sends its alerts through the provider it was validated against: a change of a provider
\* (internal/alertprovider) stops what uses it before it is published, and a provider in use is not deleted.
THEOREM AlwaysServed == ProvidersSpec => []ServedByItsProvider
<1>1. ProvidersInit => ServedInv
    BY ServedInit
<1>2. ServedInv /\ [ProvidersNext]_providerVars => ServedInv'
    BY NextKeepsServed
<1>3. ServedInv => ServedByItsProvider
    BY DEF ServedInv
<1> QED
    BY <1>1, <1>2, <1>3, PTL DEF ProvidersSpec

-----------------------------------------------------------------------------
(* What is in use, prepared, monitored and persisted between two changes *)

\* An endpoint that the change in progress has stopped, or has not started yet
IsStopped(e) ==
    \/ writing.stage = "stopping" /\ e \in writing.plan
    \/ writing.stage = "starting" /\ e \in writing.left

\* What the rows, the state, the monitored object and the triggered alert of an endpoint have to do with one another
Prepared(e) ==
    /\ prepared[e] # NoProvider => users[e] # "absent"
    /\ "endpoints" \notin unread /\ prepared[e] = NoProvider => users[e] = "absent"
    /\ watched[e] # NoProvider => watched[e] = prepared[e]
    /\ IsValid(e) => incident[e] = IF flag[e] THEN prepared[e] ELSE NoProvider
    /\ (writing.stage = "starting" /\ e \in writing.left) \/ prepared[e] = NoProvider \/ prepared[e] = PreparedWith(e, alerting)
    /\ IsStopped(e) \/ watched[e] = IF IsValid(e) /\ users[e] = "enabled" THEN prepared[e] ELSE NoProvider

\* The row of the provider is the one of the change until it is published.
Written ==
    IF writing.stage = "stopping" THEN provider = writing.next ELSE "providers" \notin unread => entry = provider

\* The plan of a change is about every endpoint that has a state, none of which becomes invalid, or about none if nothing
\* changes for them.
Covered ==
    /\ writing.stage = "stopping" =>
          /\ writing.plan = IF file = NoProvider /\ writing.next # NoProvider THEN Dependents ELSE {}
          /\ file = NoProvider /\ writing.next = NoProvider => Dependents = {}
          /\ writing.left \subseteq writing.plan
          /\ \A e \in writing.plan : IsValid(e) => PreparedWith(e, writing.next) \in Definitions
    /\ writing.stage = "starting" =>
          /\ writing.left \subseteq Dependents
          /\ \A e \in writing.left : IsValid(e) => PreparedWith(e, writing.next) \in Definitions

ProvidersInv == ServedInv /\ ProvidersTypeOK /\ Written /\ Covered /\ \A e \in Users : Prepared(e)

\* The first state
LEMMA ProvidersStart == ProvidersInit => ProvidersInv
<1> SUFFICES ASSUME ProvidersInit
             PROVE  ProvidersInv
    OBVIOUS
<1> USE ProvidersAssumption DEF ProvidersInit
<1>1. ServedInv
    BY ServedInit
<1>2. Effective(file, NoProvider) \in Row
    BY EffectiveType DEF Row
<1>3. ProvidersTypeOK
    BY <1>2 DEF ProvidersTypeOK, Row, Validity, NoWrite
<1>4. Written /\ Covered
    BY DEF Written, Covered, NoWrite
<1>5. \A e \in Users : Prepared(e)
    BY DEF Prepared, IsValid, IsStopped, NoWrite
<1> QED
    BY <1>1, <1>3, <1>4, <1>5 DEF ProvidersInv

\* Between two changes, what the state of one endpoint becomes is of no concern to the others.
LEMMA OneAgrees ==
    ASSUME ProvidersInv, ServedInv', ProvidersTypeOK', writing = NoWrite,
           UNCHANGED <<provider, file, entry, alerting, unread, writing>>,
           NEW e \in Users, Prepared(e)',
           \A o \in Users \ {e} :
               users'[o] = users[o] /\ prepared'[o] = prepared[o] /\ flag'[o] = flag[o] /\ watched'[o] = watched[o]
               /\ incident'[o] = incident[o]
    PROVE  ProvidersInv'
<1>1. Written' /\ Covered'
    BY DEF ProvidersInv, Written, Covered, NoWrite
<1>2. ASSUME NEW o \in Users \ {e}
      PROVE  Prepared(o)'
    <2>1. Prepared(o)
        BY DEF ProvidersInv
    <2> QED
        BY <2>1 DEF Prepared, IsValid, IsStopped, PreparedWith
<1> QED
    BY <1>1, <1>2 DEF ProvidersInv

\* A row of a triggered alert that is kept is the one of the definition.
LEMMA KeptRowType ==
    ASSUME NEW reloaded, NEW definition \in Definitions
    PROVE  KeptRow(reloaded, definition) \in {definition, NoProvider} /\ definition # NoProvider /\ definition # BrokenProvider
BY ProvidersAssumption DEF KeptRow

\* The executions: the triggered alert and its flag change together.
LEMMA ExecutionsKeepProviders ==
    ASSUME ProvidersInv, NEW e \in Users, FailedExecution(e) \/ SuccessfulExecution(e)
    PROVE  ProvidersInv'
<1> USE ProvidersAssumption
<1>1. UNCHANGED <<provider, users, file, entry, alerting, prepared, watched, unread, writing, providerCounters>>
    BY DEF FailedExecution, SuccessfulExecution
<1>2. ServedInv'
    BY <1>1, Untouched DEF ProvidersInv
<1>3. PICK on \in BOOLEAN, reloaded \in Row :
         /\ flag' = [flag EXCEPT ![e] = on] /\ incident' = [incident EXCEPT ![e] = reloaded]
         /\ reloaded = IF on THEN watched[e] ELSE NoProvider
         /\ watched[e] # NoProvider
    BY DEF FailedExecution, SuccessfulExecution, ProvidersInv, ProvidersTypeOK, Row
<1>4. ProvidersTypeOK'
    BY <1>1, <1>3 DEF ProvidersInv, ProvidersTypeOK, providerCounters
<1>5. Written' /\ Covered'
    BY <1>1 DEF ProvidersInv, Written, Covered, Dependents, IsValid, PreparedWith
<1>6. ASSUME NEW o \in Users
      PROVE  Prepared(o)'
    <2>1. Prepared(o) /\ incident \in [Users -> Row] /\ flag \in [Users -> BOOLEAN]
        BY DEF ProvidersInv, ProvidersTypeOK
    <2>2. CASE o = e
        BY <2>1, <2>2, <1>1, <1>3 DEF Prepared, IsValid, IsStopped, PreparedWith
    <2>3. CASE o # e
        BY <2>1, <2>3, <1>1, <1>3 DEF Prepared, IsValid, IsStopped, PreparedWith
    <2> QED
        BY <2>2, <2>3
<1> QED
    BY <1>2, <1>4, <1>5, <1>6 DEF ProvidersInv

\* What a change of an endpoint leaves of it: an alert that is triggered is that of its definition.
LEMMA ChangedAgrees ==
    ASSUME ProvidersInv, ServedInv', NEW e \in Users, alerting \in Definitions, PreparedWith(e, alerting) \in Definitions,
           NEW status \in {"enabled", "disabled"},
           writing = NoWrite, UNCHANGED <<provider, file, entry, alerting, unread, writing, providerLoads, providerFailures>>,
           providerChanges < MaxProviderChanges, providerChanges' = providerChanges + 1,
           users' = [users EXCEPT ![e] = status], prepared' = [prepared EXCEPT ![e] = alerting],
           watched' = [watched EXCEPT ![e] = IF status = "enabled" THEN alerting ELSE NoProvider],
           incident' = [incident EXCEPT ![e] = KeptRow(@, alerting)],
           flag' = [flag EXCEPT ![e] = incident'[e] # NoProvider]
    PROVE  ProvidersInv'
<1> USE ProvidersAssumption
<1>1. PreparedWith(e, alerting) = alerting
    BY ValidWith
<1>2. ProvidersTypeOK
    BY DEF ProvidersInv
<1>3. PICK reloaded \in {alerting, NoProvider} : reloaded = KeptRow(incident[e], alerting)
    BY KeptRowType
<1>4. incident' = [incident EXCEPT ![e] = reloaded] /\ incident'[e] = reloaded
    BY <1>2, <1>3 DEF ProvidersTypeOK
<1>5. flag' = [flag EXCEPT ![e] = (reloaded # NoProvider)]
    BY <1>4
<1>6. alerting # NoProvider
    OBVIOUS
<1>7. ProvidersTypeOK'
    BY <1>2, <1>4, <1>5 DEF ProvidersTypeOK, Validity, Row
<1>8. /\ users'[e] = status /\ prepared'[e] = alerting /\ flag'[e] = (reloaded # NoProvider)
      /\ watched'[e] = IF status = "enabled" THEN alerting ELSE NoProvider
    BY <1>2, <1>5 DEF ProvidersTypeOK
<1>9. Prepared(e)'
    BY <1>8, <1>4, <1>1, <1>6 DEF Prepared, IsValid, IsStopped, PreparedWith, NoWrite
<1>10. \A o \in Users \ {e} :
          users'[o] = users[o] /\ prepared'[o] = prepared[o] /\ flag'[o] = flag[o] /\ watched'[o] = watched[o]
          /\ incident'[o] = incident[o]
    BY <1>2, <1>4, <1>5 DEF ProvidersTypeOK
<1> QED
    BY <1>7, <1>9, <1>10, OneAgrees

\* The changes of the endpoints
LEMMA UsersKeepProviders ==
    ASSUME ProvidersInv, NEW e \in Users,
           \/ \E enabled \in BOOLEAN : CreateUser(e, enabled)
           \/ SwitchUser(e) \/ DeleteUser(e)
    PROVE  ProvidersInv'
<1> USE ProvidersAssumption DEF MayChange
<1>1. ServedInv'
    BY UsersKeepServed DEF ProvidersInv
<1>2. ProvidersTypeOK /\ Prepared(e)
    BY DEF ProvidersInv
<1>3. PreparedWith(e, alerting) \in Definitions => alerting \in Definitions /\ alerting # NoProvider
    BY ValidWith
<1>4. CASE \E enabled \in BOOLEAN : CreateUser(e, enabled)
    <2>1. PICK enabled \in BOOLEAN : CreateUser(e, enabled)
        BY <1>4
    <2>2. PICK status \in {"enabled", "disabled"} : status = IF enabled THEN "enabled" ELSE "disabled"
        OBVIOUS
    <2>3. watched' = [watched EXCEPT ![e] = IF status = "enabled" THEN alerting ELSE NoProvider]
          /\ users' = [users EXCEPT ![e] = status]
        BY <2>1, <2>2 DEF CreateUser
    <2> QED
        BY <2>1, <2>3, <1>1, <1>3, ChangedAgrees DEF CreateUser
<1>5. CASE SwitchUser(e)
    <2>1. users[e] \in {"enabled", "disabled"}
        BY <1>2, <1>5 DEF SwitchUser, Prepared, ProvidersTypeOK
    <2>2. PICK status \in {"enabled", "disabled"} : status = IF users[e] = "enabled" THEN "disabled" ELSE "enabled"
        OBVIOUS
    <2>3. watched' = [watched EXCEPT ![e] = IF status = "enabled" THEN alerting ELSE NoProvider]
          /\ users' = [users EXCEPT ![e] = status]
        BY <1>5, <2>1, <2>2 DEF SwitchUser
    <2> QED
        BY <1>5, <2>3, <1>1, <1>3, ChangedAgrees DEF SwitchUser
<1>6. CASE DeleteUser(e)
    <2>1. ProvidersTypeOK'
        BY <1>2, <1>6 DEF DeleteUser, ProvidersTypeOK, Row, Validity
    <2>2. /\ users'[e] = "absent" /\ prepared'[e] = NoProvider /\ watched'[e] = NoProvider
          /\ incident'[e] = NoProvider /\ flag'[e] = FALSE
        BY <1>2, <1>6 DEF DeleteUser, ProvidersTypeOK
    <2>3. Prepared(e)'
        BY <2>2 DEF Prepared, IsValid
    <2>4. \A o \in Users \ {e} :
              users'[o] = users[o] /\ prepared'[o] = prepared[o] /\ flag'[o] = flag[o] /\ watched'[o] = watched[o]
              /\ incident'[o] = incident[o]
        BY <1>2, <1>6 DEF DeleteUser, ProvidersTypeOK
    <2> QED
        BY <1>1, <1>6, <2>1, <2>3, <2>4, OneAgrees DEF DeleteUser
<1> QED
    BY <1>4, <1>5, <1>6

\* A change of the provider is planned and stored.
LEMMA WriteKeepsProviders ==
    ASSUME ProvidersInv, NEW next \in Row, WriteProvider(next)
    PROVE  ProvidersInv'
<1> USE ProvidersAssumption
<1>1. ServedInv'
    BY WriteKeepsServed DEF ProvidersInv
<1>2. /\ UNCHANGED <<users, inMemory, incident, providerLoads, providerFailures>> /\ writing = NoWrite /\ provider' = next
      /\ providerChanges < MaxProviderChanges /\ providerChanges' = providerChanges + 1
    BY DEF WriteProvider, MayChange
<1> DEFINE plan == IF file = NoProvider /\ next # NoProvider THEN Dependents ELSE {}
           remaining == {e \in plan : watched[e] # NoProvider}
<1>3. writing' = [stage |-> "stopping", next |-> next, plan |-> plan, left |-> remaining]
    BY DEF WriteProvider
<1>4. plan \subseteq Users /\ remaining \subseteq plan
    BY DEF Dependents
<1>5. file = NoProvider /\ next = NoProvider => Dependents = {}
    BY DEF WriteProvider, MayReplace
<1>6. \A e \in plan : IsValid(e) => PreparedWith(e, next) \in Definitions
    BY DEF WriteProvider, MayReplace
<1>7. Dependents' = Dependents /\ \A e \in Users : IsValid(e)' = IsValid(e)
    BY <1>2 DEF inMemory, Dependents, IsValid
<1>8. Covered'
    <2>1. plan = IF file' = NoProvider /\ next # NoProvider THEN Dependents' ELSE {}
        BY <1>2, <1>7 DEF inMemory
    <2> HIDE DEF plan, remaining
    <2>2. writing'.stage = "stopping" /\ writing'.next = next /\ writing'.plan = plan /\ writing'.left = remaining
        BY <1>3
    <2>3. \A e \in plan : IsValid(e)' => PreparedWith(e, next)' \in Definitions
        BY <1>4, <1>6, <1>7 DEF PreparedWith
    <2> QED
        BY <2>1, <2>2, <2>3, <1>2, <1>4, <1>5, <1>7 DEF Covered, inMemory, PreparedWith
<1> HIDE DEF plan, remaining
<1>9. ProvidersTypeOK'
    BY <1>2, <1>3, <1>4 DEF ProvidersInv, ProvidersTypeOK, ChangeInProgress, inMemory
<1>10. Written'
    BY <1>2, <1>3 DEF Written
<1>11. ASSUME NEW e \in Users
       PROVE  Prepared(e)'
    <2>1. Prepared(e)
        BY DEF ProvidersInv
    <2> QED
        BY <2>1, <1>2, <1>3 DEF Prepared, IsStopped, IsValid, PreparedWith, inMemory, NoWrite
<1> QED
    BY <1>1, <1>8, <1>9, <1>10, <1>11 DEF ProvidersInv

\* The fields of a change whose list becomes shorter
LEMMA OneLess ==
    ASSUME writing \in ChangeInProgress, NEW e, writing' = [writing EXCEPT !.left = @ \ {e}]
    PROVE  /\ writing' \in ChangeInProgress /\ writing'.stage = writing.stage /\ writing'.next = writing.next
           /\ writing'.plan = writing.plan /\ writing'.left = writing.left \ {e}
BY DEF ChangeInProgress

\* An endpoint is stopped.
LEMMA StopKeepsProviders ==
    ASSUME ProvidersInv, NEW e \in Users, StopDependent(e)
    PROVE  ProvidersInv'
<1>1. ServedInv'
    BY StopKeepsServed DEF ProvidersInv
<1>2. writing.stage = "stopping" /\ writing \in ChangeInProgress /\ e \in writing.left
    BY DEF StopDependent, IsNext, ProvidersInv, ProvidersTypeOK, NoWrite
<1>3. /\ writing' \in ChangeInProgress /\ writing'.stage = "stopping" /\ writing'.next = writing.next
      /\ writing'.plan = writing.plan /\ writing'.left = writing.left \ {e}
    BY <1>2, OneLess DEF StopDependent
<1>4. watched' = [watched EXCEPT ![e] = NoProvider]
      /\ UNCHANGED <<provider, users, incident, file, entry, alerting, prepared, flag, unread, providerCounters>>
    BY DEF StopDependent, persisted
<1>5. ProvidersTypeOK'
    BY <1>3, <1>4 DEF ProvidersInv, ProvidersTypeOK, providerCounters, Row
<1>6. Dependents' = Dependents
    BY <1>4 DEF Dependents
<1>7. Written' /\ Covered'
    BY <1>2, <1>3, <1>4, <1>6 DEF ProvidersInv, Written, Covered, IsValid, PreparedWith
<1>8. ASSUME NEW o \in Users
      PROVE  Prepared(o)'
    <2>1. Prepared(o) /\ watched \in [Users -> Row]
        BY DEF ProvidersInv, ProvidersTypeOK
    <2>2. o = e => IsStopped(o)'
        BY <1>2, <1>3 DEF IsStopped, ProvidersInv, Covered
    <2> QED
        BY <2>1, <2>2, <1>2, <1>3, <1>4 DEF Prepared, IsStopped, IsValid, PreparedWith
<1> QED
    BY <1>1, <1>5, <1>7, <1>8 DEF ProvidersInv

\* The provider is published: what it is for the endpoints that are not in the plan does not change.
LEMMA PublishKeepsProviders ==
    ASSUME ProvidersInv, PublishProvider
    PROVE  ProvidersInv'
<1> USE DEF PublishProvider
<1>1. ServedInv'
    BY PublishKeepsServed DEF ProvidersInv
<1>2. writing \in ChangeInProgress /\ writing.stage = "stopping" /\ writing.left = {}
    BY DEF ProvidersInv, ProvidersTypeOK, NoWrite, AllStopped
<1>3. writing'.stage = "starting" /\ writing'.next = writing.next /\ writing'.plan = writing.plan
      /\ writing'.left = writing.plan /\ writing' \in ChangeInProgress /\ writing.next \in Row
    BY <1>2 DEF ChangeInProgress
<1>4. /\ entry' = writing.next /\ alerting' = Effective(file, writing.next)
      /\ UNCHANGED <<provider, users, incident, file, prepared, flag, watched, unread, providerCounters>>
    BY DEF persisted
<1>5. alerting' \in Row
    BY <1>3, <1>4, EffectiveType DEF ProvidersInv, ProvidersTypeOK
<1>6. ProvidersTypeOK'
    BY <1>3, <1>4, <1>5 DEF ProvidersInv, ProvidersTypeOK, providerCounters
<1>7. Written'
    BY <1>2, <1>3, <1>4 DEF ProvidersInv, Written
<1>8. Dependents' = Dependents
    BY <1>4 DEF Dependents
<1>9. writing.plan \subseteq Dependents
    BY <1>2 DEF ProvidersInv, Covered
<1>10. Covered'
    BY <1>2, <1>3, <1>4, <1>8, <1>9 DEF ProvidersInv, Covered, IsValid, PreparedWith
<1>11. ASSUME NEW o \in Users
       PROVE  Prepared(o)'
    <2>1. Prepared(o)
        BY DEF ProvidersInv
    <2>2. CASE o \in writing.plan
        BY <2>1, <2>2, <1>2, <1>3, <1>4 DEF Prepared, IsStopped, IsValid, PreparedWith
    <2>3. CASE o \notin writing.plan /\ prepared[o] = NoProvider
        BY <2>1, <2>3, <1>2, <1>3, <1>4 DEF Prepared, IsStopped, IsValid
    <2>4. CASE o \notin writing.plan /\ prepared[o] # NoProvider
        <3>1. o \in Dependents
            BY <2>4 DEF Dependents
        <3>2. file # NoProvider
            BY <2>4, <3>1, <1>2 DEF ProvidersInv, Covered
        <3>3. alerting' = alerting
            BY <3>2, <1>4 DEF ProvidersInv, ServedInv, InUse, Effective
        <3> QED
            BY <2>1, <2>4, <3>3, <1>2, <1>3, <1>4 DEF Prepared, IsStopped, IsValid, PreparedWith
    <2> QED
        BY <2>2, <2>3, <2>4
<1> QED
    BY <1>1, <1>6, <1>7, <1>10, <1>11 DEF ProvidersInv

\* An endpoint is started with what was published.
LEMMA StartKeepsProviders ==
    ASSUME ProvidersInv, NEW e \in Users, NEW reloaded, StartWith(e, reloaded), providerFailures' \in 0..MaxProviderFailures
    PROVE  ProvidersInv'
<1> USE ProvidersAssumption
<1> DEFINE next == PreparedWith(e, writing.next)
           object == IF next \in Definitions /\ users[e] = "enabled" THEN next ELSE NoProvider
<1>1. ServedInv'
    BY StartKeepsServed DEF ProvidersInv
<1>2. writing.stage = "starting" /\ e \in writing.left /\ writing \in ChangeInProgress /\ writing.next \in Row
    BY DEF StartWith, IsNext, ProvidersInv, ProvidersTypeOK, NoWrite, ChangeInProgress
<1>3. /\ writing' \in ChangeInProgress /\ writing'.stage = "starting" /\ writing'.next = writing.next
      /\ writing'.plan = writing.plan /\ writing'.left = writing.left \ {e}
    BY <1>2, OneLess DEF StartWith
<1>4. /\ prepared' = [prepared EXCEPT ![e] = next] /\ watched' = [watched EXCEPT ![e] = object]
      /\ UNCHANGED <<provider, users, file, entry, alerting, unread, providerChanges, providerLoads>>
    BY DEF StartWith
<1>5. next = PreparedWith(e, alerting) /\ next \in Validity /\ next # NoProvider
    BY <1>2 DEF ProvidersInv, ServedInv, Starting, PreparedWith, Validity, Row
<1>6. prepared[e] # NoProvider
    BY <1>2 DEF ProvidersInv, Covered, Dependents
<1>7. ProvidersTypeOK /\ Prepared(e)
    BY DEF ProvidersInv
<1>8. PICK kept \in Row, on \in BOOLEAN :
         /\ incident' = [incident EXCEPT ![e] = kept] /\ flag' = [flag EXCEPT ![e] = on]
         /\ next \in Definitions => kept = IF on THEN next ELSE NoProvider
    <2>1. CASE next \in Definitions
        <3>1. PICK kept \in {next, NoProvider} : kept = KeptRow(reloaded, next)
            BY <2>1, KeptRowType
        <3>2. incident' = [incident EXCEPT ![e] = kept] /\ incident'[e] = kept
            BY <2>1, <3>1, <1>7 DEF StartWith, ProvidersTypeOK
        <3>3. flag' = [flag EXCEPT ![e] = (kept # NoProvider)]
            BY <2>1, <3>2 DEF StartWith
        <3>4. kept \in Row /\ (kept # NoProvider) \in BOOLEAN
            BY <2>1, <3>1 DEF Row
        <3>5. kept = IF kept # NoProvider THEN next ELSE NoProvider
            BY <3>1
        <3> HIDE DEF next
        <3> QED
            BY <3>2, <3>3, <3>4, <3>5
    <2>2. CASE next \notin Definitions
        <3>1. incident' = [incident EXCEPT ![e] = incident[e]] /\ flag' = [flag EXCEPT ![e] = FALSE] /\ incident[e] \in Row
            BY <2>2, <1>7 DEF StartWith, ProvidersTypeOK
        <3> HIDE DEF next
        <3> QED
            BY <3>1, <2>2
    <2> QED
        BY <2>1, <2>2
<1>9. object \in Row
    BY DEF Row
<1> HIDE DEF next, object
<1>10. ProvidersTypeOK'
    BY <1>3, <1>4, <1>5, <1>7, <1>8, <1>9 DEF ProvidersTypeOK
<1>11. Written'
    BY <1>2, <1>3, <1>4 DEF ProvidersInv, Written
<1>12. \A o \in Users : o # e => prepared'[o] = prepared[o]
    BY <1>4, <1>7 DEF ProvidersTypeOK
<1>13. Covered'
    <2>1. writing.left \subseteq Dependents /\ \A o \in writing.left : IsValid(o) => PreparedWith(o, writing.next) \in Definitions
        BY <1>2 DEF ProvidersInv, Covered
    <2>2. writing.left \ {e} \subseteq Dependents'
        BY <2>1, <1>12 DEF Dependents
    <2>3. \A o \in writing.left \ {e} : IsValid(o)' => PreparedWith(o, writing'.next) \in Definitions
        BY <2>1, <1>3, <1>12 DEF IsValid, Dependents
    <2> QED
        BY <2>2, <2>3, <1>3 DEF Covered, PreparedWith
<1>14. ASSUME NEW o \in Users
       PROVE  Prepared(o)'
    <2>1. Prepared(o)
        BY DEF ProvidersInv
    <2>2. CASE o = e
        <3>1. prepared'[e] = next /\ watched'[e] = object /\ incident'[e] = kept /\ flag'[e] = on
            BY <1>4, <1>7, <1>8 DEF ProvidersTypeOK
        <3>2. next \in Definitions => next # NoProvider
            OBVIOUS
        <3>3. ~IsStopped(e)'
            BY <1>3 DEF IsStopped
        <3>4. next = PreparedWith(e, alerting)'
            BY <1>4, <1>5 DEF PreparedWith
        <3>5. object = IF next \in Definitions /\ users'[e] = "enabled" THEN next ELSE NoProvider
            BY <1>4 DEF object
        <3> QED
            BY <2>1, <2>2, <3>1, <3>2, <3>3, <3>4, <3>5, <1>4, <1>5, <1>6, <1>8 DEF Prepared, IsValid
    <2>3. CASE o # e
        <3>1. prepared'[o] = prepared[o] /\ watched'[o] = watched[o] /\ incident'[o] = incident[o] /\ flag'[o] = flag[o]
            BY <2>3, <1>4, <1>7, <1>8 DEF ProvidersTypeOK
        <3>2. IsStopped(o)' = IsStopped(o) /\ (o \in writing'.left <=> o \in writing.left)
            BY <2>3, <1>2, <1>3 DEF IsStopped
        <3> QED
            BY <2>1, <3>1, <3>2, <1>2, <1>3, <1>4 DEF Prepared, IsValid, PreparedWith
    <2> QED
        BY <2>2, <2>3
<1> QED
    BY <1>1, <1>10, <1>11, <1>13, <1>14 DEF ProvidersInv

\* The change ends.
LEMMA EndKeepsProviders ==
    ASSUME ProvidersInv, EndWrite
    PROVE  ProvidersInv'
<1>1. writing.stage = "starting" /\ writing.left = {} /\ writing' = NoWrite
      /\ UNCHANGED <<provider, users, incident, file, entry, alerting, prepared, flag, watched, unread, providerCounters>>
    BY DEF EndWrite, persisted, inMemory
<1>2. ServedInv'
    BY <1>1 DEF ProvidersInv, ServedInv, Shapes, InUse, Stopping, Starting, ServedByItsProvider, NoWrite, Effective
<1>3. ProvidersTypeOK' /\ Written' /\ Covered'
    BY <1>1 DEF ProvidersInv, ProvidersTypeOK, Written, Covered, NoWrite, providerCounters
<1>4. ASSUME NEW e \in Users
      PROVE  Prepared(e)'
    <2>1. Prepared(e)
        BY DEF ProvidersInv
    <2> QED
        BY <2>1, <1>1 DEF Prepared, IsStopped, IsValid, PreparedWith, NoWrite
<1> QED
    BY <1>2, <1>3, <1>4 DEF ProvidersInv

\* A load validates every endpoint against what it uses, and monitors the valid ones.
LEMMA LoadKeepsProviders ==
    ASSUME ProvidersInv, NEW declared \in Declarations, NEW failing \in SUBSET {"providers", "endpoints"},
           LoadProviders(declared, failing)
    PROVE  ProvidersInv'
<1> USE ProvidersAssumption
<1> DEFINE used == Effective(declared, ListedProvider(failing))
           ValidityOf(e) == LoadedState(e, used, failing)
<1>1. ServedInv'
    BY LoadKeepsServed DEF ProvidersInv
<1>2. /\ file' = declared /\ entry' = ListedProvider(failing) /\ alerting' = used /\ unread' = failing /\ writing' = NoWrite
      /\ UNCHANGED <<provider, users, providerChanges>>
      /\ providerLoads < MaxProviderLoads /\ providerLoads' = providerLoads + 1
      /\ providerFailures + Cardinality(failing) <= MaxProviderFailures
      /\ providerFailures' = providerFailures + Cardinality(failing)
      /\ prepared' = [e \in Users |-> ValidityOf(e)]
      /\ incident' = [e \in Users |-> IF ValidityOf(e) \in Definitions THEN KeptRow(incident[e], ValidityOf(e)) ELSE incident[e]]
      /\ flag' = [e \in Users |-> ValidityOf(e) \in Definitions /\ incident'[e] # NoProvider]
      /\ watched' = [e \in Users |-> IF users[e] = "enabled" /\ ValidityOf(e) \in Definitions THEN ValidityOf(e) ELSE NoProvider]
    BY DEF LoadProviders
<1>3. Cardinality(failing) \in Nat
    <2>1. IsFiniteSet({"providers", "endpoints"})
        <3>1. IsFiniteSet({"providers"})
            BY FS_Singleton
        <3>2. {"providers", "endpoints"} = {"providers"} \cup {"endpoints"}
            OBVIOUS
        <3> QED
            BY <3>1, <3>2, FS_AddElement
    <2> QED
        BY <2>1, FS_Subset, FS_CardinalityType
<1>4. ProvidersTypeOK
    BY DEF ProvidersInv
<1>5. ListedProvider(failing) \in Row
    BY <1>4 DEF ListedProvider, Row, ProvidersTypeOK
<1>6. used \in Row
    BY <1>5 DEF Effective, Row
<1>7. ASSUME NEW e \in Users
      PROVE  /\ ValidityOf(e) \in Validity
             /\ ValidityOf(e) = IF "endpoints" \in failing \/ users[e] = "absent" THEN NoProvider ELSE PreparedWith(e, used)
             /\ PreparedWith(e, used) # NoProvider
    BY <1>6 DEF LoadedState, PreparedWith, Validity, Row
<1> HIDE DEF used, ValidityOf
<1>8. \A e \in Users :
        /\ prepared'[e] = ValidityOf(e)
        /\ incident'[e] = IF ValidityOf(e) \in Definitions THEN KeptRow(incident[e], ValidityOf(e)) ELSE incident[e]
        /\ flag'[e] = (ValidityOf(e) \in Definitions /\ incident'[e] # NoProvider)
        /\ watched'[e] = IF users[e] = "enabled" /\ ValidityOf(e) \in Definitions THEN ValidityOf(e) ELSE NoProvider
    BY <1>2
<1>9. ASSUME NEW e \in Users
      PROVE  /\ incident'[e] \in Row
             /\ ValidityOf(e) \in Definitions => incident'[e] \in {ValidityOf(e), NoProvider} /\ ValidityOf(e) # NoProvider
    <2>1. CASE ValidityOf(e) \in Definitions
        BY <2>1, <1>8, KeptRowType DEF Row
    <2>2. CASE ValidityOf(e) \notin Definitions
        BY <2>2, <1>4, <1>8 DEF ProvidersTypeOK
    <2> QED
        BY <2>1, <2>2
<1>10. ProvidersTypeOK'
    <2>1. prepared' \in [Users -> Validity] /\ flag' \in [Users -> BOOLEAN]
        BY <1>2, <1>7
    <2>2. incident' \in [Users -> Row]
        BY <1>2, <1>9
    <2>3. watched' \in [Users -> Row]
        BY <1>2 DEF Row
    <2>4. providerFailures' \in 0..MaxProviderFailures /\ providerLoads' \in 0..MaxProviderLoads
        BY <1>2, <1>3, <1>4 DEF ProvidersTypeOK
    <2> QED
        BY <2>1, <2>2, <2>3, <2>4, <1>2, <1>4, <1>5, <1>6 DEF ProvidersTypeOK
<1>11. Written' /\ Covered'
    BY <1>2 DEF Written, Covered, ListedProvider, NoWrite
<1>12. ASSUME NEW e \in Users
       PROVE  Prepared(e)'
    <2>1. IsValid(e)' <=> ValidityOf(e) \in Definitions
        BY <1>8 DEF IsValid
    <2>2. PreparedWith(e, alerting)' = PreparedWith(e, used)
        BY <1>2 DEF PreparedWith
    <2>3. ~IsStopped(e)' /\ writing'.stage # "starting"
        BY <1>2 DEF IsStopped, NoWrite
    <2>4. users' = users /\ unread' = failing
        BY <1>2
    <2>5. prepared'[e] = ValidityOf(e)
        BY <1>8
    <2>6. /\ prepared'[e] # NoProvider => users'[e] # "absent"
          /\ "endpoints" \notin unread' /\ prepared'[e] = NoProvider => users'[e] = "absent"
          /\ prepared'[e] = NoProvider \/ prepared'[e] = PreparedWith(e, alerting)'
        BY <2>2, <2>4, <2>5, <1>7
    <2>7. /\ watched'[e] # NoProvider => watched'[e] = prepared'[e]
          /\ watched'[e] = IF IsValid(e)' /\ users'[e] = "enabled" THEN prepared'[e] ELSE NoProvider
        BY <2>1, <2>4, <1>8
    <2>8. IsValid(e)' => incident'[e] = IF flag'[e] THEN prepared'[e] ELSE NoProvider
        BY <2>1, <1>8, <1>9
    <2> QED
        BY <2>3, <2>6, <2>7, <2>8 DEF Prepared
<1> QED
    BY <1>1, <1>10, <1>11, <1>12 DEF ProvidersInv

\* A step that changes nothing of the providers
LEMMA SameProviders == ProvidersInv /\ UNCHANGED providerVars => ProvidersInv'
<1> SUFFICES ASSUME ProvidersInv, UNCHANGED providerVars
             PROVE  ProvidersInv'
    OBVIOUS
<1>1. UNCHANGED <<provider, users, incident, file, entry, alerting, prepared, flag, watched, unread, writing,
                  providerChanges, providerLoads, providerFailures>>
    BY DEF providerVars, persisted, inMemory, providerCounters
<1>2. ServedInv'
    BY <1>1, Untouched DEF ProvidersInv
<1>3. ProvidersTypeOK' /\ Written' /\ Covered'
    BY <1>1 DEF ProvidersInv, ProvidersTypeOK, Written, Covered, Dependents, IsValid, PreparedWith
<1>4. ASSUME NEW e \in Users
      PROVE  Prepared(e)'
    <2>1. Prepared(e)
        BY DEF ProvidersInv
    <2> QED
        BY <2>1, <1>1 DEF Prepared, IsStopped, IsValid, PreparedWith
<1> QED
    BY <1>2, <1>3, <1>4 DEF ProvidersInv

\* Every step keeps ProvidersInv.
LEMMA NextKeepsProviders == ProvidersInv /\ [ProvidersNext]_providerVars => ProvidersInv'
<1> SUFFICES ASSUME ProvidersInv, [ProvidersNext]_providerVars
             PROVE  ProvidersInv'
    OBVIOUS
<1>1. CASE \E e \in Users : FailedExecution(e) \/ SuccessfulExecution(e)
    BY <1>1, ExecutionsKeepProviders
<1>2. CASE \E e \in Users : (\E enabled \in BOOLEAN : CreateUser(e, enabled)) \/ SwitchUser(e) \/ DeleteUser(e)
    BY <1>2, UsersKeepProviders
<1>3. CASE \E e \in Users : StopDependent(e)
    BY <1>3, StopKeepsProviders
<1>4. CASE \E e \in Users : StartDependent(e) \/ StartUnmigrated(e)
    <2>1. providerFailures' \in 0..MaxProviderFailures
        BY <1>4, ProvidersAssumption DEF StartDependent, StartUnmigrated, ProvidersInv, ProvidersTypeOK
    <2> QED
        BY <1>4, <2>1, StartKeepsProviders DEF StartDependent, StartUnmigrated
<1>5. CASE \E definition \in Definitions : CreateProvider(definition) \/ UpdateProvider(definition)
    BY <1>5, WriteKeepsProviders DEF CreateProvider, UpdateProvider, Row
<1>6. CASE DeleteProvider
    BY <1>6, WriteKeepsProviders DEF DeleteProvider, Row
<1>7. CASE PublishProvider
    BY <1>7, PublishKeepsProviders
<1>8. CASE EndWrite
    BY <1>8, EndKeepsProviders
<1>9. CASE \E declared \in Declarations, failing \in SUBSET {"providers", "endpoints"} : LoadProviders(declared, failing)
    BY <1>9, LoadKeepsProviders
<1>10. CASE UNCHANGED providerVars
    BY <1>10, SameProviders
<1> QED
    BY <1>1, <1>2, <1>3, <1>4, <1>5, <1>6, <1>7, <1>8, <1>9, <1>10 DEF ProvidersNext

\* ProvidersInv is what the two theorems below need of every state.
LEMMA ProvidersAlways == ProvidersSpec => []ProvidersInv
<1> QED
    BY ProvidersStart, NextKeepsProviders, PTL DEF ProvidersSpec

\* Between two changes of a provider, what is stored, in use, validated, monitored and triggered agrees
LEMMA ProvidersInvAgrees == ProvidersInv => ProvidersConsistent
<1> SUFFICES ASSUME ProvidersInv
             PROVE  ProvidersConsistent
    OBVIOUS
<1>1. ASSUME writing = NoWrite, NEW e \in Users
      PROVE  /\ "endpoints" \notin unread => (users[e] = "absent" <=> prepared[e] = NoProvider)
             /\ prepared[e] # NoProvider => prepared[e] = PreparedWith(e, alerting)
             /\ watched[e] = IF IsValid(e) /\ users[e] = "enabled" THEN prepared[e] ELSE NoProvider
             /\ IsValid(e) => incident[e] = IF flag[e] THEN prepared[e] ELSE NoProvider
    BY <1>1 DEF ProvidersInv, Prepared, IsStopped, NoWrite
<1>2. writing = NoWrite => alerting = Effective(file, entry) /\ ("providers" \notin unread => entry = provider)
    BY DEF ProvidersInv, ServedInv, InUse, Written, NoWrite
<1> QED
    BY <1>1, <1>2 DEF ProvidersInv, ProvidersConsistent, ProvidersAgree

\* What one step may do to a triggered alert
Survives(e) ==
    IsValid(e) /\ incident[e] = prepared[e] /\ incident'[e] # prepared'[e]
        => \/ watched'[e] = watched[e] /\ watched[e] # NoProvider /\ flag[e] /\ incident'[e] = NoProvider
           \/ users'[e] = "absent" \/ prepared'[e] \in Silencing
           \/ providerLoads' # providerLoads \/ providerFailures' # providerFailures

\* The steps of one endpoint that are not executions, for the endpoint itself
LEMMA OwnChangesKeepIncident ==
    ASSUME ProvidersInv, NEW e \in Users,
           (\E enabled \in BOOLEAN : CreateUser(e, enabled)) \/ SwitchUser(e) \/ DeleteUser(e)
    PROVE  Survives(e)
<1> USE ProvidersAssumption
<1>1. ProvidersTypeOK /\ Prepared(e)
    BY DEF ProvidersInv
<1>2. SUFFICES ASSUME IsValid(e), incident[e] = prepared[e], ~DeleteUser(e)
               PROVE  incident'[e] = prepared'[e] \/ prepared'[e] \in Silencing
    <2>1. DeleteUser(e) => users'[e] = "absent"
        BY <1>1 DEF DeleteUser, ProvidersTypeOK
    <2> QED
        BY <1>2, <2>1 DEF Survives
<1>3. CASE \E enabled \in BOOLEAN : CreateUser(e, enabled)
    BY <1>1, <1>2, <1>3 DEF CreateUser, Prepared, IsValid
<1>4. CASE SwitchUser(e)
    <2>1. writing = NoWrite /\ PreparedWith(e, alerting) \in Definitions
        BY <1>4 DEF SwitchUser, MayChange
    <2>2. prepared[e] = alerting
        BY <2>1, <1>1, <1>4, ValidWith DEF Prepared, NoWrite, SwitchUser
    <2>3. prepared'[e] = alerting /\ incident'[e] = KeptRow(incident[e], alerting)
        BY <1>1, <1>4 DEF SwitchUser, ProvidersTypeOK
    <2> QED
        BY <2>2, <2>3, <1>2 DEF KeptRow
<1> QED
    BY <1>2, <1>3, <1>4

\* The start of an endpoint with the alerts that were migrated
LEMMA StartKeepsIncident ==
    ASSUME ProvidersInv, NEW e \in Users, StartDependent(e)
    PROVE  Survives(e)
<1> USE ProvidersAssumption
<1> DEFINE next == writing.next
<1>1. ProvidersTypeOK
    BY DEF ProvidersInv
<1>2. writing.stage = "starting" /\ e \in writing.left
    BY DEF StartDependent, StartWith, IsNext
<1>3. SUFFICES ASSUME IsValid(e), incident[e] = prepared[e]
               PROVE  incident'[e] = prepared'[e] \/ prepared'[e] \in Silencing
    BY DEF Survives
<1>4. PreparedWith(e, next) = next /\ next \in Definitions
    BY <1>2, <1>3, ValidWith DEF ProvidersInv, Covered
<1>5. prepared'[e] = next /\ incident'[e] = KeptRow(Migrated(e, next), next)
    BY <1>1, <1>4 DEF StartDependent, StartWith, ProvidersTypeOK
<1>6. next \notin Silencing => Migrated(e, next) = next
    BY <1>3 DEF Migrated
<1> HIDE DEF next
<1> QED
    BY <1>5, <1>6 DEF KeptRow

\* Every step
LEMMA StepsKeepIncidents ==
    ASSUME ProvidersInv, [ProvidersNext]_providerVars, NEW e \in Users
    PROVE  Survives(e)
<1> USE ProvidersAssumption
<1>1. ProvidersTypeOK /\ Prepared(e)
    BY DEF ProvidersInv
<1>2. IsValid(e) => prepared[e] # NoProvider
    BY DEF IsValid
<1>3. ASSUME NEW o \in Users, FailedExecution(o) \/ SuccessfulExecution(o)
      PROVE  Survives(e)
    <2>1. prepared' = prepared /\ watched' = watched
        BY <1>3 DEF FailedExecution, SuccessfulExecution
    <2>2. CASE o = e /\ FailedExecution(o)
        BY <2>2, <1>1, <1>2 DEF FailedExecution, Prepared, Survives
    <2>3. CASE o = e /\ SuccessfulExecution(o)
        <3>1. incident'[e] = NoProvider
            BY <2>3, <1>1 DEF SuccessfulExecution, ProvidersTypeOK
        <3> QED
            BY <2>1, <2>3, <3>1 DEF SuccessfulExecution, Survives
    <2>4. CASE o # e
        <3>1. incident'[e] = incident[e]
            BY <2>4, <1>1, <1>3 DEF FailedExecution, SuccessfulExecution, ProvidersTypeOK
        <3> QED
            BY <2>1, <3>1 DEF Survives
    <2> QED
        BY <1>3, <2>2, <2>3, <2>4
<1>4. ASSUME NEW o \in Users, (\E enabled \in BOOLEAN : CreateUser(o, enabled)) \/ SwitchUser(o) \/ DeleteUser(o)
      PROVE  Survives(e)
    <2>1. CASE o = e
        BY <2>1, <1>4, OwnChangesKeepIncident
    <2>2. CASE o # e
        <3>1. incident'[e] = incident[e] /\ prepared'[e] = prepared[e]
            BY <2>2, <1>1, <1>4 DEF CreateUser, SwitchUser, DeleteUser, ProvidersTypeOK
        <3> QED
            BY <3>1 DEF Survives
    <2> QED
        BY <2>1, <2>2
<1>5. ASSUME NEW o \in Users, StartDependent(o) \/ StartUnmigrated(o)
      PROVE  Survives(e)
    <2>1. CASE StartUnmigrated(o)
        BY <2>1, <1>1 DEF StartUnmigrated, Survives, ProvidersTypeOK
    <2>2. CASE o = e /\ StartDependent(o)
        BY <2>2, StartKeepsIncident
    <2>3. CASE o # e /\ StartDependent(o)
        <3>1. incident'[e] = incident[e] /\ prepared'[e] = prepared[e]
            BY <2>3, <1>1 DEF StartDependent, StartWith, ProvidersTypeOK
        <3> QED
            BY <3>1 DEF Survives
    <2> QED
        BY <1>5, <2>1, <2>2, <2>3
<1>6. ASSUME NEW declared \in Declarations, NEW failing \in SUBSET {"providers", "endpoints"}, LoadProviders(declared, failing)
      PROVE  Survives(e)
    BY <1>1, <1>6 DEF LoadProviders, Survives, ProvidersTypeOK
<1>7. ASSUME UNCHANGED <<incident, prepared>>
      PROVE  Survives(e)
    BY <1>7 DEF Survives
<1>8. CASE \/ \E o \in Users : StopDependent(o)
           \/ \E definition \in Definitions : CreateProvider(definition) \/ UpdateProvider(definition)
           \/ DeleteProvider \/ PublishProvider \/ EndWrite \/ UNCHANGED providerVars
    BY <1>7, <1>8 DEF StopDependent, CreateProvider, UpdateProvider, DeleteProvider, WriteProvider, PublishProvider, EndWrite,
        providerVars, persisted, inMemory
<1> QED
    BY <1>3, <1>4, <1>5, <1>6, <1>8 DEF ProvidersNext

\* Between two changes of a provider, the provider in use is the one stored and declared, every endpoint is validated against
\* it, the valid ones that are enabled are monitored, and their triggered alerts are the stored ones, as far as the last load
\* could list them (internal/alertprovider Plan, apply and Refresh).
THEOREM ProvidersStayConsistent == ProvidersSpec => []ProvidersConsistent
<1> QED
    BY ProvidersAlways, ProvidersInvAgrees, PTL

\* An open incident survives the changes of the provider of its alert (MigrateTriggeredAlerts): only a success, a provider
\* that disables the alert, the deletion of the endpoint, a load or a failure of the storage ends it.
THEOREM IncidentsSurviveChanges == ProvidersSpec => IncidentsSurvive
<1>1. ProvidersInv /\ [ProvidersNext]_providerVars => [\A e \in Users : Survives(e)]_providerVars
    BY StepsKeepIncidents
<1>2. [](ProvidersInv) /\ [][ProvidersNext]_providerVars => [][\A e \in Users : Survives(e)]_providerVars
    BY <1>1, PTL
<1> QED
    BY <1>2, ProvidersAlways DEF ProvidersSpec, IncidentsSurvive, Survives

-----------------------------------------------------------------------------
(* The lifecycle *)

-----------------------------------------------------------------------------
(* The lifecycle *)

InCycle == {"stopping", "waiting", "stopped", "starting", "done"}

\* What LoadConfiguration may have read
Readings == [version : 0..MaxWrites, kind : Kinds, seen : 0..MaxSeconds]

\* Who is where: the goroutine that starts the application begins, and the other two follow it.
WhereTheyAre ==
    /\ turn["start"] \in {"starting", "done", "idle"}
    /\ turn["start"] # "idle" => turn["reload"] = "idle" /\ turn["signal"] = "idle"
    /\ turn["start"] = "starting" => starts = 0
    /\ turn["start"] # "starting" => starts >= 1
    /\ turn["signal"] \notin {"watching", "loading", "starting"}
    /\ turn["reload"] \in {"loading", "asking", "stopping", "waiting", "stopped", "starting"} => starts < MaxStarts
    /\ turn["reload"] \in {"loading", "asking", "stopping", "waiting", "stopped"} => read \in Readings

\* The cycle of a goroutine is its own.
Exclusive == \A g \in Goroutines : turn[g] \in InCycle => lock = g /\ sharing = 0

\* A server is registered, and taken by Shutdown, once.
Servers ==
    /\ \A g \in Goroutines : turn[g] = "waiting" => taken \in Starts
    /\ \A n \in Starts : n > starts => serving[n] = "unborn"
    /\ left = {} =>
          /\ \A n \in Starts : n < starts => serving[n] = "returned"
          /\ server # Nobody => server = starts /\ serving[starts] \notin {"unborn", "spawned"}
          /\ \A g \in Goroutines :
                /\ turn[g] \in {"waiting", "stopped", "starting"} =>
                      server = Nobody /\ (starts > 0 => serving[starts] \notin {"unborn", "spawned"})
                /\ turn[g] = "waiting" => taken = starts
                /\ turn[g] \in {"stopped", "starting"} /\ starts > 0 => serving[starts] = "returned"

LifecycleInv == LifecycleTypeOK /\ WhereTheyAre /\ Exclusive /\ Servers

\* The first state, whether the process runs or not
LEMMA LifecycleStart ==
    ASSUME now = 0, \E kind \in Kinds \ {"invalid"} :
               /\ onDisk = [version |-> 0, kind |-> kind, time |-> 0]
               /\ inUse = [version |-> 0, kind |-> kind, refused |-> 0, seen |-> 0],
           read = Nobody, starts = 0, turn = [g \in Goroutines |-> IF g = "start" THEN "starting" ELSE "idle"],
           lock = "start", sharing = 0, serving = [n \in Starts |-> "unborn"],
           server = Nobody, taken = Nobody, shut = {}, left = {}, process \in {"running", "ended"}
    PROVE  LifecycleInv
<1> USE LifecycleAssumption DEF Goroutines
<1>1. PICK kind \in Kinds : /\ onDisk = [version |-> 0, kind |-> kind, time |-> 0]
                           /\ inUse = [version |-> 0, kind |-> kind, refused |-> 0, seen |-> 0]
    OBVIOUS
<1>2. LifecycleTypeOK
    <2>1. turn \in [Goroutines -> Turns] /\ serving \in [Starts -> {"unborn", "spawned", "registered", "listening", "returned"}]
        BY DEF Turns
    <2> QED
        <3>1. 0 \in 0..MaxWrites /\ 0 \in 0..MaxSeconds /\ 0 \in 0..MaxStarts /\ 0 \in 0..MaxSharing
            OBVIOUS
        <3>2. onDisk \in [version : 0..MaxWrites, kind : Kinds, time : 0..MaxSeconds]
              /\ inUse \in [version : 0..MaxWrites, kind : Kinds, refused : 0..MaxWrites, seen : 0..MaxSeconds]
            BY <1>1, <3>1
        <3> QED
            BY <2>1, <3>1, <3>2 DEF LifecycleTypeOK
<1>3. WhereTheyAre /\ Exclusive
    BY DEF WhereTheyAre, Exclusive, InCycle
<1>4. Servers
    BY DEF Servers, Starts
<1> QED
    BY <1>2, <1>3, <1>4 DEF LifecycleInv

\* A goroutine whose turn changes
LEMMA TurnOf ==
    ASSUME LifecycleTypeOK, NEW g \in Goroutines, NEW from, NEW to \in Turns, Does(g, from, to)
    PROVE  turn' \in [Goroutines -> Turns] /\ turn'[g] = to /\ turn[g] = from /\ process = "running"
           /\ \A h \in Goroutines : h # g => turn'[h] = turn[h]
BY DEF Does, LifecycleTypeOK

\* A cycle is announced.
LEMMA AnnounceKeepsLifecycle == ASSUME LifecycleInv, NEW g \in Goroutines, AnnounceCycle(g) PROVE LifecycleInv'
<1> USE LifecycleAssumption DEF AnnounceCycle, content, configuration, servers, LifecycleInv
<1>1. LifecycleTypeOK' /\ WhereTheyAre'
    BY DEF LifecycleTypeOK, WhereTheyAre
<1>2. Exclusive'
    BY DEF Exclusive, InCycle, Goroutines
<1>3. Servers'
    BY DEF Servers
<1> QED
    BY <1>1, <1>2, <1>3

\* A cycle begins.
LEMMA BeginKeepsLifecycle == ASSUME LifecycleInv, NEW g \in Goroutines, CycleBegins(g) PROVE LifecycleInv'
<1> USE LifecycleAssumption DEF CycleBegins, content, configuration, servers
<1>1. turn' \in [Goroutines -> Turns] /\ turn'[g] = "stopping" /\ turn[g] = "asking" /\ process = "running"
      /\ \A h \in Goroutines : h # g => turn'[h] = turn[h]
    BY TurnOf DEF LifecycleInv, Turns
<1>2. LifecycleTypeOK'
    BY <1>1 DEF LifecycleInv, LifecycleTypeOK
<1>3. WhereTheyAre'
    BY <1>1 DEF LifecycleInv, WhereTheyAre, Goroutines
<1>4. Exclusive'
    BY <1>1 DEF LifecycleInv, Exclusive, InCycle
<1>5. Servers'
    BY <1>1 DEF LifecycleInv, Servers
<1> QED
    BY <1>2, <1>3, <1>4, <1>5 DEF LifecycleInv

\* Shutdown takes the server, if it sees one.
LEMMA TakeKeepsLifecycle == ASSUME LifecycleInv, NEW g \in Goroutines, TakeServer(g) PROVE LifecycleInv'
<1> USE LifecycleAssumption DEF TakeServer, content, configuration
<1> DEFINE to == IF server = Nobody THEN "stopped" ELSE "waiting"
<1>1. turn' \in [Goroutines -> Turns] /\ turn'[g] = to /\ turn[g] = "stopping" /\ process = "running"
      /\ \A h \in Goroutines : h # g => turn'[h] = turn[h]
    BY TurnOf DEF LifecycleInv, Turns
<1>2. starts \in Starts
    BY <1>1 DEF LifecycleInv, LifecycleTypeOK, WhereTheyAre, Goroutines, Starts
<1>3. LifecycleTypeOK'
    BY <1>1, <1>2 DEF LifecycleInv, LifecycleTypeOK
<1>4. WhereTheyAre'
    BY <1>1 DEF LifecycleInv, WhereTheyAre, Goroutines
<1>5. Exclusive'
    BY <1>1 DEF LifecycleInv, Exclusive, InCycle
<1>6. \A h \in Goroutines : h # g => turn[h] \notin InCycle
    BY <1>1 DEF LifecycleInv, Exclusive, InCycle
<1>7. Servers'
    <2>1. CASE server = Nobody
        BY <2>1, <1>1, <1>2, <1>6 DEF LifecycleInv, Servers, InCycle
    <2>2. CASE server # Nobody
        BY <2>2, <1>1, <1>2, <1>6 DEF LifecycleInv, Servers, InCycle, LifecycleTypeOK
    <2> QED
        BY <2>1, <2>2
<1> QED
    BY <1>3, <1>4, <1>5, <1>7 DEF LifecycleInv

\* Shutdown has waited for the server, or gives up.
LEMMA StoppedKeepsLifecycle ==
    ASSUME LifecycleInv, NEW g \in Goroutines, ServerStopped(g) \/ ServerTimesOut(g)
    PROVE  LifecycleInv'
<1> USE LifecycleAssumption DEF ServerStopped, ServerTimesOut, content, configuration
<1>1. turn' \in [Goroutines -> Turns] /\ turn'[g] = "stopped" /\ turn[g] = "waiting" /\ process = "running"
      /\ \A h \in Goroutines : h # g => turn'[h] = turn[h]
    BY TurnOf DEF LifecycleInv, Turns
<1>2. UNCHANGED <<now, onDisk, inUse, read, starts, lock, sharing, serving, server, shut, process>> /\ taken' = Nobody
    OBVIOUS
<1>3. taken \in Starts /\ ((left' = left /\ serving[taken] = "returned") \/ left' = left \cup {taken})
    BY <1>1 DEF LifecycleInv, Servers
<1>4. LifecycleTypeOK'
    BY <1>1, <1>2, <1>3 DEF LifecycleInv, LifecycleTypeOK
<1>5. WhereTheyAre'
    BY <1>1, <1>2 DEF LifecycleInv, WhereTheyAre, Goroutines
<1>6. Exclusive'
    BY <1>1, <1>2 DEF LifecycleInv, Exclusive, InCycle
<1>7. \A h \in Goroutines : h # g => turn[h] \notin InCycle
    BY <1>1 DEF LifecycleInv, Exclusive, InCycle
<1>8. Servers'
    BY <1>1, <1>2, <1>3, <1>7 DEF LifecycleInv, Servers, InCycle
<1> QED
    BY <1>4, <1>5, <1>6, <1>8 DEF LifecycleInv

\* The configuration is started, with the next server.
LEMMA StartKeepsLifecycle == ASSUME LifecycleInv, NEW g \in Goroutines, Start(g) PROVE LifecycleInv'
<1> USE LifecycleAssumption DEF Start, content, configuration
<1>1. turn' \in [Goroutines -> Turns] /\ turn'[g] = "done" /\ turn[g] = "starting" /\ process = "running"
      /\ \A h \in Goroutines : h # g => turn'[h] = turn[h]
    BY TurnOf DEF LifecycleInv, Turns
<1>2. UNCHANGED <<now, onDisk, inUse, read, lock, sharing, server, taken, shut, left, process>>
    OBVIOUS
<1>3. starts \in Nat /\ starts + 1 \in Starts /\ starts' = starts + 1 /\ g \in {"start", "reload"}
      /\ (g = "reload" => starts > 0) /\ (g = "start" => starts = 0)
    BY <1>1 DEF LifecycleInv, LifecycleTypeOK, WhereTheyAre, Goroutines, Starts
<1>4. /\ serving' \in [Starts -> {"unborn", "spawned", "registered", "listening", "returned"}]
      /\ \A n \in Starts : serving'[n] = IF n = starts + 1 THEN "spawned" ELSE serving[n]
    BY <1>3 DEF LifecycleInv, LifecycleTypeOK
<1>5. LifecycleTypeOK'
    BY <1>1, <1>2, <1>3, <1>4 DEF LifecycleInv, LifecycleTypeOK, Starts
<1>6. WhereTheyAre'
    BY <1>1, <1>2, <1>3 DEF LifecycleInv, WhereTheyAre, Goroutines
<1>7. Exclusive'
    BY <1>1, <1>2 DEF LifecycleInv, Exclusive, InCycle
<1>8. \A h \in Goroutines : h # g => turn[h] \notin InCycle
    BY <1>1 DEF LifecycleInv, Exclusive, InCycle
<1>9. Servers'
    <2>1. \A h \in Goroutines : turn'[h] \notin {"waiting", "stopped", "starting"}
        BY <1>1, <1>8 DEF InCycle
    <2>2. \A n \in Starts : n > starts' => serving'[n] = "unborn"
        BY <1>3, <1>4 DEF LifecycleInv, Servers, Starts
    <2>3. ASSUME left = {}
          PROVE  server = Nobody /\ \A n \in Starts : n <= starts => serving[n] = "returned"
        <3>1. (starts > 0 => serving[starts] = "returned") /\ server = Nobody
            BY <2>3, <1>1, <1>3 DEF LifecycleInv, Servers
        <3>2. \A n \in Starts : n < starts => serving[n] = "returned"
            BY <2>3 DEF LifecycleInv, Servers
        <3> QED
            BY <3>1, <3>2, <1>3 DEF Starts
    <2>4. \A n \in Starts : n < starts' => n <= starts /\ n # starts + 1
        BY <1>3 DEF Starts
    <2>5. left = {} => server = Nobody /\ \A n \in Starts : n < starts' => serving'[n] = "returned"
        BY <2>3, <2>4, <1>4
    <2> QED
        BY <2>1, <2>2, <2>5, <1>2 DEF Servers
<1> QED
    BY <1>5, <1>6, <1>7, <1>9 DEF LifecycleInv

\* The cycle ends, and the file is watched.
LEMMA EndKeepsLifecycle == ASSUME LifecycleInv, NEW g \in Goroutines, CycleStartedBy(g) PROVE LifecycleInv'
<1> USE LifecycleAssumption DEF CycleStartedBy, content, configuration, servers
<1>1. turn[g] = "done" /\ g \in {"start", "reload"} /\ lock' = Nobody
      /\ UNCHANGED <<now, onDisk, inUse, read, starts, sharing, serving, server, taken, shut, left, process>>
    BY DEF Goroutines
<1>2. /\ turn' \in [Goroutines -> Turns]
      /\ \A h \in Goroutines : turn'[h] = IF h = "reload" THEN "watching" ELSE IF h = g THEN "idle" ELSE turn[h]
    BY <1>1 DEF LifecycleInv, LifecycleTypeOK, Turns, Goroutines
<1>3. \A h \in Goroutines : h # g => turn[h] \notin InCycle
    BY <1>1 DEF LifecycleInv, Exclusive, InCycle
<1>4. LifecycleTypeOK'
    BY <1>1, <1>2 DEF LifecycleInv, LifecycleTypeOK
<1>5. WhereTheyAre'
    BY <1>1, <1>2 DEF LifecycleInv, WhereTheyAre, Goroutines
<1>6. Exclusive'
    BY <1>2, <1>3 DEF Exclusive, InCycle
<1>7. Servers'
    BY <1>1, <1>2, <1>3 DEF LifecycleInv, Servers, InCycle
<1> QED
    BY <1>4, <1>5, <1>6, <1>7 DEF LifecycleInv

\* A change of the administration begins or ends.
LEMMA SharingKeepsLifecycle == ASSUME LifecycleInv, TryBeginChangeOf \/ ChangeEnds PROVE LifecycleInv'
<1> USE LifecycleAssumption DEF TryBeginChangeOf, ChangeEnds, content, configuration, servers, LifecycleInv
<1>1. LifecycleTypeOK' /\ WhereTheyAre'
    BY DEF LifecycleTypeOK, WhereTheyAre
<1>2. Exclusive'
    BY DEF Exclusive, Goroutines, LifecycleTypeOK
<1>3. Servers'
    BY DEF Servers
<1> QED
    BY <1>1, <1>2, <1>3

\* The steps of a goroutine of Handle
LEMMA HandleKeepsLifecycle == ASSUME LifecycleInv, NEW n \in Starts, HandleSteps(n) PROVE LifecycleInv'
<1> USE LifecycleAssumption DEF AtStage, content, configuration
<1>1. LifecycleTypeOK
    BY DEF LifecycleInv
<1>2. CASE RegisterServer(n)
    <2> USE <1>2 DEF RegisterServer
    <2>1. LifecycleTypeOK' /\ WhereTheyAre' /\ Exclusive'
        BY DEF LifecycleInv, LifecycleTypeOK, WhereTheyAre, Exclusive
    <2>2. serving[n] = "spawned" /\ \A m \in Starts : serving'[m] = IF m = n THEN "registered" ELSE serving[m]
        BY <1>1 DEF LifecycleTypeOK
    <2>3. left = {} => n = starts
        BY <2>2, <1>1 DEF LifecycleInv, Servers, LifecycleTypeOK, Starts
    <2>4. left = {} => \A h \in Goroutines : turn[h] \notin {"waiting", "stopped", "starting"}
        BY <2>2, <2>3 DEF LifecycleInv, Servers, Starts
    <2>5. Servers'
        BY <2>2, <2>3, <2>4 DEF LifecycleInv, Servers
    <2> QED
        BY <2>1, <2>5 DEF LifecycleInv
<1>3. CASE Listen(n) \/ ServeReturns(n)
    <2> USE <1>3 DEF Listen, ServeReturns
    <2>1. UNCHANGED <<now, onDisk, inUse, read, starts, turn, lock, sharing, server, taken, shut, left, process>>
        OBVIOUS
    <2>2. PICK to \in {"returned", "listening"} : serving' = [serving EXCEPT ![n] = to]
        OBVIOUS
    <2>3. serving[n] \in {"registered", "listening"}
        OBVIOUS
    <2>4. \A m \in Starts : serving'[m] = IF m = n THEN to ELSE serving[m]
        BY <2>2, <1>1 DEF LifecycleTypeOK
    <2>5. LifecycleTypeOK' /\ WhereTheyAre' /\ Exclusive'
        BY <2>1, <2>2 DEF LifecycleInv, LifecycleTypeOK, WhereTheyAre, Exclusive
    <2>6. left = {} => n = starts /\ \A h \in Goroutines : ~(turn[h] \in {"stopped", "starting"} /\ starts > 0)
        BY <2>3, <1>1 DEF LifecycleInv, Servers, LifecycleTypeOK, Starts
    <2>7. ~(n > starts)
        BY <2>3 DEF LifecycleInv, Servers
    <2>8. Servers'
        BY <2>1, <2>4, <2>6, <2>7, <1>1 DEF LifecycleInv, Servers, LifecycleTypeOK
    <2> QED
        BY <2>5, <2>8 DEF LifecycleInv
<1>4. CASE CannotListen(n)
    BY <1>4 DEF CannotListen, servers, LifecycleInv, LifecycleTypeOK, WhereTheyAre, Exclusive, Servers
<1> QED
    BY <1>2, <1>3, <1>4 DEF HandleSteps

\* The goroutine of the configuration file
LEMMA FileKeepsLifecycle == ASSUME LifecycleInv, FileSteps PROVE LifecycleInv'
<1> USE LifecycleAssumption DEF content, configuration, servers
<1>1. LifecycleTypeOK
    BY DEF LifecycleInv
<1>2. UNCHANGED <<now, onDisk, starts, lock, sharing, serving, server, taken, shut, left>>
    BY DEF FileSteps, ReadFile, ParseFile, RefuseFile, PanicOnFile, ReplaceConfiguration
<1>3. ASSUME NEW from \in {"watching", "loading", "stopped"}, NEW to \in {"loading", "asking", "watching", "starting"},
             Does("reload", from, to), from = "stopped" <=> to = "starting", to # "watching" => starts < MaxStarts,
             to \in {"loading", "asking"} => read' \in Readings
      PROVE  turn' \in [Goroutines -> Turns] /\ Exclusive' /\ Servers' /\ WhereTheyAre'
    <2>1. turn' \in [Goroutines -> Turns] /\ turn'["reload"] = to /\ turn["reload"] = from /\ process = "running"
          /\ \A h \in Goroutines : h # "reload" => turn'[h] = turn[h]
        BY <1>1, <1>3, TurnOf DEF Turns, Goroutines
    <2>2. Exclusive'
        BY <2>1, <1>2, <1>3 DEF LifecycleInv, Exclusive, InCycle, Goroutines
    <2>3. Servers'
        BY <2>1, <1>2, <1>3 DEF LifecycleInv, Servers, Goroutines
    <2>4. WhereTheyAre'
        BY <2>1, <1>2, <1>3 DEF LifecycleInv, WhereTheyAre, Goroutines
    <2> QED
        BY <2>1, <2>2, <2>3, <2>4
<1>4. CASE ReadFile
    <2>1. Does("reload", "watching", "loading") /\ starts < MaxStarts
        BY <1>4 DEF ReadFile
    <2>2. read' \in Readings
        BY <1>1, <1>4 DEF ReadFile, LifecycleTypeOK, Readings
    <2>3. turn' \in [Goroutines -> Turns] /\ Exclusive' /\ Servers' /\ WhereTheyAre'
        BY <2>1, <2>2, <1>3
    <2>4. LifecycleTypeOK'
        BY <2>2, <2>3, <1>1, <1>2, <1>4 DEF ReadFile, LifecycleTypeOK, Readings
    <2> QED
        BY <2>3, <2>4 DEF LifecycleInv
<1>5. CASE ParseFile
    <2>1. Does("reload", "loading", "asking") /\ read' = [read EXCEPT !.seen = now] /\ turn["reload"] = "loading"
        BY <1>5 DEF ParseFile, Does
    <2>2. starts < MaxStarts /\ read \in Readings
        BY <2>1 DEF LifecycleInv, WhereTheyAre
    <2>3. read' \in Readings
        BY <2>1, <2>2, <1>1 DEF Readings, LifecycleTypeOK
    <2>4. turn' \in [Goroutines -> Turns] /\ Exclusive' /\ Servers' /\ WhereTheyAre'
        BY <2>1, <2>2, <2>3, <1>3
    <2>5. LifecycleTypeOK'
        BY <2>3, <2>4, <1>1, <1>2, <1>5 DEF ParseFile, LifecycleTypeOK, Readings
    <2> QED
        BY <2>4, <2>5 DEF LifecycleInv
<1>6. CASE RefuseFile
    <2>1. Does("reload", "loading", "watching") /\ turn["reload"] = "loading" /\ read' = Nobody
          /\ inUse' = [inUse EXCEPT !.seen = now, !.refused = read.version]
        BY <1>6 DEF RefuseFile, Does
    <2>2. read \in Readings
        BY <2>1 DEF LifecycleInv, WhereTheyAre
    <2>3. turn' \in [Goroutines -> Turns] /\ Exclusive' /\ Servers' /\ WhereTheyAre'
        BY <2>1, <1>3
    <2>4. inUse' \in [version : 0..MaxWrites, kind : Kinds, refused : 0..MaxWrites, seen : 0..MaxSeconds]
        BY <2>1, <2>2, <1>1 DEF Readings, LifecycleTypeOK
    <2>5. LifecycleTypeOK'
        BY <2>1, <2>3, <2>4, <1>1, <1>2, <1>6 DEF RefuseFile, LifecycleTypeOK
    <2> QED
        BY <2>3, <2>5 DEF LifecycleInv
<1>7. CASE PanicOnFile
    BY <1>7, <1>1, <1>2 DEF PanicOnFile, LifecycleInv, LifecycleTypeOK, WhereTheyAre, Exclusive, Servers
<1>8. CASE ReplaceConfiguration
    <2>1. Does("reload", "stopped", "starting") /\ turn["reload"] = "stopped" /\ read' = Nobody
          /\ inUse' = [version |-> read.version, kind |-> read.kind, refused |-> inUse.refused, seen |-> read.seen]
        BY <1>8 DEF ReplaceConfiguration, Does
    <2>2. starts < MaxStarts /\ read \in Readings
        BY <2>1 DEF LifecycleInv, WhereTheyAre
    <2>3. turn' \in [Goroutines -> Turns] /\ Exclusive' /\ Servers' /\ WhereTheyAre'
        BY <2>1, <2>2, <1>3
    <2>4. inUse' \in [version : 0..MaxWrites, kind : Kinds, refused : 0..MaxWrites, seen : 0..MaxSeconds]
        BY <2>1, <2>2, <1>1 DEF Readings, LifecycleTypeOK
    <2>5. LifecycleTypeOK'
        BY <2>1, <2>3, <2>4, <1>1, <1>2, <1>8 DEF ReplaceConfiguration, LifecycleTypeOK
    <2> QED
        BY <2>3, <2>5 DEF LifecycleInv
<1> QED
    BY <1>4, <1>5, <1>6, <1>7, <1>8 DEF FileSteps

\* The operator, the clock and the termination signal
LEMMA OutsideKeepsLifecycle ==
    ASSUME LifecycleInv, WriteFile \/ SecondPasses \/ Signalled \/ EndProcess
    PROVE  LifecycleInv'
<1> USE LifecycleAssumption DEF content, configuration, servers
<1>1. LifecycleTypeOK
    BY DEF LifecycleInv
<1>2. CASE WriteFile
    <2>1. onDisk' \in [version : 0..MaxWrites, kind : Kinds, time : 0..MaxSeconds]
        BY <1>1, <1>2 DEF WriteFile, LifecycleTypeOK
    <2> QED
        BY <2>1, <1>2 DEF WriteFile, LifecycleInv, LifecycleTypeOK, WhereTheyAre, Exclusive, Servers
<1>3. CASE SecondPasses
    BY <1>3 DEF SecondPasses, LifecycleInv, LifecycleTypeOK, WhereTheyAre, Exclusive, Servers
<1>4. ASSUME NEW from \in {"idle", "stopped"}, NEW to \in {"asking", "done"}, Does("signal", from, to),
             from = "idle" <=> to = "asking", turn["start"] = "idle"
      PROVE  turn' \in [Goroutines -> Turns]
             /\ (UNCHANGED <<starts, read, lock, sharing, servers>> => WhereTheyAre' /\ Exclusive' /\ Servers')
    <2>1. turn' \in [Goroutines -> Turns] /\ turn'["signal"] = to /\ turn["signal"] = from
          /\ \A h \in Goroutines : h # "signal" => turn'[h] = turn[h]
        BY <1>1, <1>4, TurnOf DEF Turns, Goroutines
    <2> SUFFICES ASSUME UNCHANGED <<starts, read, lock, sharing, servers>>
                 PROVE  WhereTheyAre' /\ Exclusive' /\ Servers'
        BY <2>1
    <2>2. WhereTheyAre'
        BY <2>1, <1>4 DEF LifecycleInv, WhereTheyAre, Goroutines
    <2>3. Exclusive'
        BY <2>1, <1>4 DEF LifecycleInv, Exclusive, InCycle, Goroutines
    <2>4. Servers'
        BY <2>1, <1>4 DEF LifecycleInv, Servers, Goroutines
    <2> QED
        BY <2>2, <2>3, <2>4
<1>5. CASE Signalled
    <2>1. turn["start"] = "idle" /\ Does("signal", "idle", "asking")
        BY <1>5 DEF Signalled
    <2> QED
        BY <2>1, <1>1, <1>4, <1>5 DEF Signalled, LifecycleInv, LifecycleTypeOK
<1>6. CASE EndProcess
    <2>1. turn["signal"] = "stopped" /\ Does("signal", "stopped", "done")
        BY <1>6 DEF EndProcess, Does
    <2>2. turn["start"] = "idle"
        BY <2>1 DEF LifecycleInv, WhereTheyAre
    <2> QED
        BY <2>1, <2>2, <1>1, <1>4, <1>6 DEF EndProcess, LifecycleInv, LifecycleTypeOK
<1> QED
    BY <1>2, <1>3, <1>5, <1>6

\* Every step keeps LifecycleInv.
LEMMA NextKeepsLifecycle == LifecycleInv /\ [LifecycleNext]_lifecycleVars => LifecycleInv'
<1> SUFFICES ASSUME LifecycleInv, [LifecycleNext]_lifecycleVars
             PROVE  LifecycleInv'
    OBVIOUS
<1>1. ASSUME NEW g \in Goroutines, CycleSteps(g)
      PROVE  LifecycleInv'
    BY <1>1, AnnounceKeepsLifecycle, BeginKeepsLifecycle, TakeKeepsLifecycle, StoppedKeepsLifecycle, StartKeepsLifecycle,
        EndKeepsLifecycle DEF CycleSteps
<1>2. CASE UNCHANGED lifecycleVars
    BY <1>2 DEF lifecycleVars, content, configuration, servers, LifecycleInv, LifecycleTypeOK, WhereTheyAre, Exclusive, Servers
<1> QED
    BY <1>1, <1>2, SharingKeepsLifecycle, HandleKeepsLifecycle, FileKeepsLifecycle, OutsideKeepsLifecycle DEF LifecycleNext

\* LifecycleInv implies what the lifecycle promises.
LEMMA LifecycleInvConsistent == LifecycleInv => LifecycleConsistent
<1> SUFFICES ASSUME LifecycleInv
             PROVE  LifecycleConsistent
    OBVIOUS
<1>1. CyclesAreExclusive
    BY DEF LifecycleInv, Exclusive, CyclesAreExclusive, InCycle
<1>2. CanListen
    <2> SUFFICES ASSUME left = {}, NEW n \in Starts, serving[n] = "registered", NEW m \in Starts, serving[m] = "listening"
                 PROVE  FALSE
        BY DEF CanListen, AddressFree
    <2>1. starts \in Nat
        BY LifecycleAssumption DEF LifecycleInv, LifecycleTypeOK
    <2>2. n = starts /\ m = starts
        BY <2>1 DEF LifecycleInv, Servers, Starts
    <2> QED
        BY <2>2
<1> QED
    BY <1>1, <1>2 DEF LifecycleInv, LifecycleConsistent

\* A cycle is alone with what it stops and starts, and a server can listen unless a Shutdown left one behind (cmd/serve.go,
\* lifecycle.go, controller.go).
THEOREM LifecycleStaysConsistent == LifecycleSpec => []LifecycleConsistent
<1>1. LifecycleInit => LifecycleInv
    BY LifecycleStart DEF LifecycleInit
<1> QED
    BY <1>1, NextKeepsLifecycle, LifecycleInvConsistent, PTL DEF LifecycleSpec

-----------------------------------------------------------------------------
(* The three, as MCManagedEndpoints composes them *)

AdministrationInv == EndpointsInv /\ ServedInv /\ ProvidersInv /\ LifecycleInv

\* A part that nothing happens in is where its invariant holds, too.
LEMMA ComposedStart == MCInit => AdministrationInv
<1> SUFFICES ASSUME MCInit
             PROVE  AdministrationInv
    OBVIOUS
<1>1. EndpointsInv
    BY InitEndpoints DEF MCInit
<1>2. ServedInv /\ ProvidersInv
    BY ServedInit, ProvidersStart DEF MCInit
<1>3. LifecycleInit \/ NoLifecycle
    BY DEF MCInit
<1>4. LifecycleInv
    <2>1. CASE LifecycleInit
        BY <2>1, LifecycleStart DEF LifecycleInit
    <2>2. CASE NoLifecycle
        <3>1. Quiet!Kinds = Kinds /\ Quiet!Goroutines = Goroutines /\ Quiet!Starts = Starts
            BY DEF Quiet!Kinds, Quiet!Goroutines, Quiet!Starts, Kinds, Goroutines, Starts
        <3> QED
            BY <2>2, <3>1, LifecycleStart DEF NoLifecycle, Quiet!LifecycleInit
    <2> QED
        BY <1>3, <2>1, <2>2
<1> QED
    BY <1>1, <1>2, <1>4 DEF AdministrationInv

\* A step of the composition is one of each part, or nothing to it.
LEMMA ComposedStep ==
    [MCNext]_<<part, vars, providerVars, lifecycleVars>> => [Next]_vars /\ [ProvidersNext]_providerVars /\ [LifecycleNext]_lifecycleVars
BY DEF MCNext, EndpointsStep, ProvidersStep, LifecycleStep

\* Its invariant holds in every state.
LEMMA ComposedAlways == MCSpec => []AdministrationInv
<1>1. AdministrationInv /\ [MCNext]_<<part, vars, providerVars, lifecycleVars>> => AdministrationInv'
    BY ComposedStep, NextKeepsEndpoints, NextKeepsServed, NextKeepsProviders, NextKeepsLifecycle DEF AdministrationInv
<1> QED
    BY <1>1, ComposedStart, PTL DEF MCSpec

\* Between two changes, the definitions stored, the states in memory, what is monitored and the selections of the pages agree;
\* so do the provider stored, the one in use and those who use it; and the lifecycle keeps its promises: for any keys,
\* definitions, numbers of changes, loads, failures and starts.
THEOREM ChangesLeaveAllConsistent == MCSpec => []AllConsistent
<1>1. AdministrationInv => AllConsistent
    BY EndpointsConsistent, ProvidersInvAgrees, LifecycleInvConsistent DEF AdministrationInv, AllConsistent
<1> QED
    BY <1>1, ComposedAlways, PTL

\* A monitored endpoint sends its alerts through the provider it was validated against.
THEOREM MonitoredAreServed == MCSpec => []ServedByItsProvider
<1>1. AdministrationInv => ServedByItsProvider
    BY DEF AdministrationInv, ServedInv
<1> QED
    BY <1>1, ComposedAlways, PTL

\* The results of an endpoint are under its key after any step: a rename, a reload, a failed load or a crash; only a rename of
\* an endpoint in conflict leaves them to the endpoint of the configuration file.
THEOREM ResultsFollowRenames == MCSpec => HistoryFollows
<1>1. AdministrationInv /\ [MCNext]_<<part, vars, providerVars, lifecycleVars>> => [Follows]_vars
    BY ComposedStep, NextFollows DEF AdministrationInv
<1>2. MCSpec => [][Follows]_vars
    BY <1>1, ComposedAlways, PTL DEF MCSpec
<1> QED
    BY <1>2 DEF HistoryFollows, Follows

\* While every load lists the managed endpoints, or no change replaces the alerts of a definition, and no commit fails, what is
\* monitored has the triggered alerts that are stored; and an open incident survives the changes of its provider.  (Without the
\* hypothesis the first half is false: see the run ManagedEndpointsRefusedRename.)
THEOREM IncidentsAreKept == MCSpec /\ []Kept => IncidentsKept
<1>1. AdministrationInv /\ Kept => IncidentsPersisted
    BY EndpointsPersisted DEF AdministrationInv, PersistedWhenListed
<1>2. AdministrationInv /\ [MCNext]_<<part, vars, providerVars, lifecycleVars>> => [\A e \in Users : Survives(e)]_providerVars
    BY ComposedStep, StepsKeepIncidents DEF AdministrationInv
<1>3. MCSpec => [][\A e \in Users : Survives(e)]_providerVars
    BY <1>2, ComposedAlways, PTL DEF MCSpec
<1>4. MCSpec => IncidentsSurvive
    BY <1>3 DEF IncidentsSurvive, Survives
<1>5. MCSpec /\ []Kept => []IncidentsPersisted
    BY <1>1, ComposedAlways, PTL
<1> QED
    BY <1>4, <1>5, PTL DEF IncidentsKept
=============================================================================
