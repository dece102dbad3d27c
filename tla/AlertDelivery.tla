---------------------------- MODULE AlertDelivery ----------------------------
(***************************************************************************)
(* The sending of alerts to their service, request by request: what the    *)
(* service was told, the incidents it opened and the ones it closed, what  *)
(* the program remembers of them and what it persists, when requests fail, *)
(* answers are lost or unreadable and the program restarts.  When an alert *)
(* is due is modelled in Alerting: here it may be due at any time.  The    *)
(* behaviour of the services is external.                                  *)
(***************************************************************************)
EXTENDS AlertServices

CONSTANTS
    Alerts, Endpoints,
    Contained,   \* the pairs of endpoints of which the name of the first is a part of the name of the second
    Recipients,  \* of a service that is sent one request for each, in their order
    MaxTroubles, MaxIncidents, MaxKeys \* bounds: requests that fail and restarts, incidents, keys generated

NoAlert == "none"

ASSUME DeliveryAssumption ==
    /\ Contained \subseteq Endpoints \X Endpoints /\ Recipients \in Seq(STRING) /\ NoAlert \notin Alerts
    /\ MaxTroubles \in Nat /\ MaxIncidents \in Nat /\ MaxKeys \in Nat

VARIABLES
    endpointOf,    \* of each alert; an execution handles the alerts of its endpoint one after the other
    tellsResolved, \* whether the alerts are sent when they are resolved
    memory,        \* Triggered and ResolveKey of each alert
    rows,          \* the key persisted with each triggered alert
    sends,         \* the Send in progress of each endpoint
    told,          \* the recipients that know of the alert since it was last resolved
    incidents,     \* at the service, with the alert that opened them and the one that closed them
    keys,          \* how many keys were generated
    confirmed,     \* the alerts whose last Send was a resolution that succeeded
    mishaps,       \* what happened to each alert, by kind
    troubles

deliveryVars == <<endpointOf, tellsResolved, memory, rows, sends, told, incidents, keys, confirmed, mishaps, troubles>>

NoKey == <<>>
NoRow == <<"no row">>
Idle == [alert |-> NoAlert, resolved |-> FALSE, requests |-> <<>>]
Style == Service[type].sends
Repeats == {"recipients", "recipients, each answered"}
Messages == {"message"} \cup Repeats
ByEndpoint == {"alias", "alias, created and closed", "issues", "tasks"}

\* What the service knows the incidents of an alert by
Address(a) == IF Style \in ByEndpoint THEN <<"endpoint", endpointOf[a]>> ELSE memory[a].key
NewKey == <<"generated", keys + 1>>

DeliveryInit ==
    /\ endpointOf \in [Alerts -> Endpoints] /\ tellsResolved \in BOOLEAN
    /\ memory = [a \in Alerts |-> [triggered |-> FALSE, key |-> NoKey]]
    /\ rows = [a \in Alerts |-> NoRow]
    /\ sends = [e \in Endpoints |-> Idle]
    /\ told = [a \in Alerts |-> {}] /\ incidents = {} /\ keys = 0
    /\ confirmed = {} /\ mishaps = [a \in Alerts |-> {}] /\ troubles = 0

(***************************************************************************)
(* The requests of a Send.  The ones that close what was listed are added  *)
(* when the list is known.                                                 *)
(***************************************************************************)
ServiceRequest(op, of) == [op |-> op, of |-> of]
ToEachRecipient == [i \in DOMAIN Recipients |-> ServiceRequest("tell", Recipients[i])]
Requests(resolved) ==
    CASE Style \in Repeats -> ToEachRecipient
      [] Style = "message" -> <<ServiceRequest("tell", "service")>>
      [] Style \in {"issues", "tasks"} -> <<ServiceRequest(IF resolved THEN "list" ELSE "open", "service")>>
      [] Style = "alias, created and closed" /\ resolved -> <<ServiceRequest("open", "service"), ServiceRequest("resolve", "service")>>
      [] OTHER -> <<ServiceRequest(IF resolved THEN "resolve" ELSE "open", "service")>>
Audience == {Requests(FALSE)[i].of : i \in DOMAIN Requests(FALSE)}

\* Incident.io and GitLab are given a key, which is generated once; PagerDuty makes one and answers it
GivesKey(a) == Style \in {"deduplication", "fingerprint"} /\ memory[a].key = NoKey

Begin(a, resolved) ==
    LET e == endpointOf[a] IN
    /\ sends[e] = Idle
    /\ IF GivesKey(a) /\ (resolved => tellsResolved)
       THEN /\ keys < MaxKeys /\ keys' = keys + 1
            /\ memory' = [memory EXCEPT ![a] = [triggered |-> @.triggered /\ ~resolved, key |-> NewKey]]
       ELSE /\ memory' = [memory EXCEPT ![a].triggered = @ /\ ~resolved]
            /\ UNCHANGED keys
    /\ confirmed' = confirmed \ {a}
    /\ sends' = IF resolved /\ ~tellsResolved THEN sends
                ELSE [sends EXCEPT ![e] = [alert |-> a, resolved |-> resolved, requests |-> Requests(resolved)]]

\* An alert that is due, or a reminder of one that is triggered
Trigger(a) ==
    /\ Cardinality(incidents) < MaxIncidents
    /\ Begin(a, FALSE)
    /\ UNCHANGED <<endpointOf, tellsResolved, rows, told, incidents, mishaps, troubles>>

\* The alert is no longer triggered, and what is persisted is deleted, before the request is made
Resolve(a) ==
    /\ memory[a].triggered
    /\ Begin(a, TRUE)
    /\ rows' = [rows EXCEPT ![a] = NoRow] /\ told' = [told EXCEPT ![a] = {}]
    /\ UNCHANGED <<endpointOf, tellsResolved, incidents, mishaps, troubles>>

(***************************************************************************)
(* A request is accepted, refused with a status above 399, or fails after  *)
(* the service has done what it asks: the answer is lost.  An answer may   *)
(* be unreadable to a provider that reads it, and to the one that reads    *)
(* the status of the message in it the message may have failed.            *)
(***************************************************************************)
Outcomes == {"accepted", "refused", "lost", "unreadable", "failed"}
ReadsAnswer(op) == \/ Style \in {"recipients, each answered", "deduplication"}
                   \/ Style = "answered key" /\ op = "open"
Possible(outcome, op) ==
    /\ outcome = "unreadable" => ReadsAnswer(op)
    /\ outcome = "failed" => Style = "recipients, each answered"
TakesEffect(outcome) == outcome \in {"accepted", "lost", "unreadable"}

\* Mutant: a status of success is enough, whatever the answer says of the message
SucceedsByStatus(outcome) == outcome \in {"accepted", "unreadable", "failed"}
\* Whether Send goes on after the answer.  PagerDuty only logs that it cannot read it; Incident.io logs it and returns
\* it as an error.
Succeeds(outcome) == outcome = "accepted" \/ (outcome = "unreadable" /\ Style = "answered key")

Troubled(outcome) ==
    /\ outcome # "accepted" => troubles < MaxTroubles
    /\ troubles' = IF outcome = "accepted" THEN troubles ELSE troubles + 1
Kept(a, more) == mishaps' = [mishaps EXCEPT ![a] = @ \cup more]

\* Mutant: Send goes on to the next recipient after a failure, and returns the error of the last one
Continue(e, outcome, more) ==
    IF Succeeds(outcome) \/ Len(sends[e].requests) > 1
    THEN [sends EXCEPT ![e].requests = Tail(@) \o more] ELSE [sends EXCEPT ![e] = Idle]
\* Send returns the first error, which is logged and nothing more
Advance(e, outcome, more) ==
    IF Succeeds(outcome) THEN [sends EXCEPT ![e].requests = Tail(@) \o more] ELSE [sends EXCEPT ![e] = Idle]

Tell(e, outcome) ==
    LET a == sends[e].alert IN
    /\ told' = IF TakesEffect(outcome) /\ ~sends[e].resolved THEN [told EXCEPT ![a] = @ \cup {sends[e].requests[1].of}] ELSE told
    /\ sends' = Advance(e, outcome, <<>>)
    /\ UNCHANGED <<memory, incidents, keys, mishaps>>

\* An incident that is open with the same key is not opened again, unless it is an issue or a task
Opened(a, key) ==
    IF Style \notin {"issues", "tasks"} /\ \E i \in incidents : i.key = key /\ i.closedBy = NoAlert THEN incidents
    ELSE incidents \cup {[id |-> Cardinality(incidents) + 1, key |-> key, by |-> a, closedBy |-> NoAlert]}

Open(e, outcome) ==
    LET a == sends[e].alert IN
    /\ IF Style = "answered key"
       THEN \* dedup_key is empty in every trigger
            /\ keys < MaxKeys /\ keys' = keys + 1
            /\ incidents' = IF TakesEffect(outcome) THEN Opened(a, NewKey) ELSE incidents
            /\ memory' = IF outcome = "accepted" /\ tellsResolved THEN [memory EXCEPT ![a].key = NewKey] ELSE memory
            /\ Kept(a, (IF memory[a].key # NoKey THEN {"another incident"} ELSE {}) \cup
                       (IF outcome \in {"lost", "unreadable"} THEN {outcome} ELSE {}))
       ELSE /\ incidents' = IF TakesEffect(outcome) THEN Opened(a, Address(a)) ELSE incidents
            /\ memory' = IF Style = "deduplication" /\ outcome = "unreadable" THEN [memory EXCEPT ![a].key = NoKey] ELSE memory
            /\ Kept(a, {outcome} \cap {"unreadable"})
            /\ UNCHANGED keys
    /\ sends' = Advance(e, outcome, <<>>)
    /\ UNCHANGED told

Closed(a, which) == {IF i \in which /\ i.closedBy = NoAlert THEN [i EXCEPT !.closedBy = a] ELSE i : i \in incidents}

\* The incident of the key or of the alias
Close(e, outcome) ==
    LET a == sends[e].alert IN
    /\ incidents' = IF TakesEffect(outcome) THEN Closed(a, {i \in incidents : i.key = Address(a)}) ELSE incidents
    /\ memory' = IF \/ Style \in {"answered key", "alias, created and closed"} /\ outcome = "accepted"
                    \/ Style = "deduplication" /\ outcome = "unreadable"
                 THEN [memory EXCEPT ![a].key = NoKey] ELSE memory
    /\ Kept(a, {outcome} \cap {"unreadable"})
    /\ sends' = Advance(e, outcome, <<>>)
    /\ UNCHANGED <<told, keys>>

\* Mutant: the open issues of the user are those of the endpoint
OfAnyEndpoint(e) == {i \in incidents : i.closedBy = NoAlert}
\* Issues have the title of the endpoint, the name of a task contains those of the endpoint and of its group, as it does
\* with the default template of the name.  The list is complete here: the code reads its first page only (100 issues).
OfTheEndpoint(e) ==
    {i \in incidents : i.closedBy = NoAlert /\ \/ i.key = <<"endpoint", e>>
                                               \/ Style = "tasks" /\ \E other \in Endpoints :
                                                      <<e, other>> \in Contained /\ i.key = <<"endpoint", other>>}

\* The requests that close them, in the order they were opened
Listed(e) ==
    LET found == OfTheEndpoint(e)
        InOrder(order) == \A i, j \in DOMAIN order : i < j => order[i].id < order[j].id
    IN {[i \in DOMAIN order |-> ServiceRequest("close", order[i].id)] :
            order \in {each \in [1..Cardinality(found) -> found] : InOrder(each)}}

\* Closing no task at all is an error
List(e, outcome) ==
    /\ \E closing \in Listed(e) :
        sends' = IF Style = "tasks" /\ OfTheEndpoint(e) = {} THEN [sends EXCEPT ![e] = Idle] ELSE Advance(e, outcome, closing)
    /\ UNCHANGED <<memory, told, incidents, keys, mishaps>>

CloseOne(e, outcome) ==
    LET a == sends[e].alert IN
    /\ incidents' = IF TakesEffect(outcome) THEN Closed(a, {i \in incidents : i.id = sends[e].requests[1].of}) ELSE incidents
    /\ sends' = Advance(e, outcome, <<>>)
    /\ UNCHANGED <<memory, told, keys, mishaps>>

SendRequest(e) ==
    /\ sends[e] # Idle /\ sends[e].requests # <<>>
    /\ \E outcome \in Outcomes :
        LET op == sends[e].requests[1].op IN
        /\ Possible(outcome, op) /\ Troubled(outcome)
        /\ \/ op = "tell" /\ Tell(e, outcome)
           \/ op = "open" /\ Open(e, outcome)
           \/ op = "resolve" /\ Close(e, outcome)
           \/ op = "list" /\ List(e, outcome)
           \/ op = "close" /\ CloseOne(e, outcome)
    /\ UNCHANGED <<endpointOf, tellsResolved, rows, confirmed>>

\* Send has returned without an error: handleAlertsToTrigger marks the alert and persists it with its key
Conclude(e) ==
    LET a == sends[e].alert IN
    /\ sends[e] # Idle /\ sends[e].requests = <<>>
    /\ sends' = [sends EXCEPT ![e] = Idle]
    /\ IF sends[e].resolved
       THEN confirmed' = confirmed \cup {a} /\ UNCHANGED <<memory, rows>>
       ELSE LET key == IF Style = "alias, created and closed" /\ tellsResolved THEN Address(a) ELSE memory[a].key IN
            /\ memory' = [memory EXCEPT ![a] = [triggered |-> TRUE, key |-> key]]
            /\ rows' = [rows EXCEPT ![a] = key]
            /\ UNCHANGED confirmed
    /\ UNCHANGED <<endpointOf, tellsResolved, told, incidents, keys, mishaps, troubles>>

\* Mutant: the alerts that were triggered are not restored
NothingRestored(a) == [triggered |-> FALSE, key |-> NoKey]
\* RestorePersistedTriggeredAlerts after a crash; what was being sent is forgotten
Restored(a) == IF rows[a] = NoRow THEN [triggered |-> FALSE, key |-> NoKey] ELSE [triggered |-> TRUE, key |-> rows[a]]
Restart ==
    /\ troubles < MaxTroubles /\ troubles' = troubles + 1
    /\ memory' = [a \in Alerts |-> Restored(a)]
    /\ sends' = [e \in Endpoints |-> Idle]
    /\ mishaps' = [a \in Alerts |-> mishaps[a] \cup
                       (IF memory[a].key # Restored(a).key \/ sends[endpointOf[a]].alert = a THEN {"crash"} ELSE {})]
    /\ UNCHANGED <<endpointOf, tellsResolved, rows, told, incidents, keys, confirmed>>

DeliveryNext ==
    \/ \E a \in Alerts : Trigger(a) \/ Resolve(a)
    \/ \E e \in Endpoints : SendRequest(e) \/ Conclude(e)
    \/ Restart

(***************************************************************************)
(* Properties.                                                             *)
(***************************************************************************)

\* The types of the variables.
DeliveryTypeOK ==
    /\ endpointOf \in [Alerts -> Endpoints] /\ tellsResolved \in BOOLEAN /\ keys \in 0..MaxKeys /\ troubles \in 0..MaxTroubles
    /\ \A a \in Alerts : memory[a].triggered \in BOOLEAN /\ told[a] \subseteq Audience
    /\ \A e \in Endpoints : sends[e].alert \in Alerts \cup {NoAlert}
    /\ confirmed \subseteq Alerts /\ \A i \in incidents : i.by \in Alerts /\ i.closedBy \in Alerts \cup {NoAlert}

\* The types of the variables; and what is persisted are exactly the alerts that are triggered, whatever failed to be
\* sent and whenever the program restarted, alerting.go:75 and :100.
DeliveryConsistent == DeliveryTypeOK /\ \A a \in Alerts : memory[a].triggered <=> rows[a] # NoRow

\* The incidents of an endpoint-addressed service are those of all alerts of the endpoint, and a task is also closed by
\* an endpoint whose name is a part of its name
Shares(a, b) ==
    /\ Style \in ByEndpoint
    /\ \/ endpointOf[a] = endpointOf[b]
       \/ Style = "tasks" /\ <<endpointOf[a], endpointOf[b]>> \in Contained

\* An alert counts as triggered only once every recipient has been told, whatever failed on the way and whenever the
\* program restarted; and the service has an incident open for it, unless it is closed together with another alert.
\* alerting.go:69 marks the alert after Send, line.go:96 stops at the first recipient that fails, vonage.go:163 reads
\* the status of the message.
EveryoneTold ==
    \A a \in Alerts : memory[a].triggered =>
        IF Style \in Messages THEN told[a] = Audience
        ELSE (\E i \in incidents : i.by = a /\ i.closedBy = NoAlert) \/ \E b \in Alerts \ {a} : Shares(b, a)

\* What may leave an incident of the alert open although a later resolution succeeds
MayForget(a) ==
    CASE Style = "answered key" -> mishaps[a]
      [] Style = "deduplication" -> mishaps[a] \cap {"crash", "unreadable"}
      [] Style = "fingerprint" -> mishaps[a] \cap {"crash"}
      [] OTHER -> {}

\* A resolution closes the incidents of its own alert, or of the alerts it shares them with, and when it succeeds none
\* of the alert is open: not even the ones of earlier failures, unless their key was lost.  alerting.go:104 never
\* repeats a resolution that failed, pagerduty.go:121 keeps the last key, github.go:139 closes every issue of the title.
\* It holds while the open incidents fit in the page that is read (github.go:137, gitea.go:158, clickup.go:207), and while
\* the template of the name of a task, which is configured, contains the names of the endpoint and of its group.
ResolvedIsClosed ==
    /\ \A i \in incidents : i.closedBy \in {i.by, NoAlert} \/ Shares(i.closedBy, i.by)
    /\ \A a \in confirmed : MayForget(a) # {} \/ \A i \in incidents : i.by = a => i.closedBy # NoAlert
=============================================================================
