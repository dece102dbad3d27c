---------------------------- MODULE MCAlertServices ----------------------------
(***************************************************************************)
(* Small instances of AlertServices, AlertDelivery and Access, the borders *)
(* of the program: who is told and who is let in.  A behaviour is one of   *)
(* one of them: of the configuration of one alert of any service (part     *)
(* "configuration"), of the requests of two alerts to a service of any     *)
(* style (part "delivery"), or of the requests of clients with two         *)
(* credentials (part "access").                                            *)
(***************************************************************************)
EXTENDS AlertDelivery, Access, TLC

CONSTANTS q1, q2, c1, c2, h1, h2

VARIABLE part

(***************************************************************************)
(* The configurations of a service: one field stands for all fields that   *)
(* are treated alike.                                                      *)
(***************************************************************************)
One(S) == IF S = {} THEN {} ELSE {CHOOSE f \in S : TRUE}
Representative(s) ==
    LET service == Service[s] IN
    One(service.required) \cup One(service.formed) \cup One(service.defaulted) \cup One(service.optional \ service.formed)
        \cup service.together \cup OfTheClient(s)
With(s, place, fields, malformed) ==
    [f \in Fields(s) |-> IF f \in fields THEN [set |-> place, formed |-> f \notin malformed] ELSE Empty]

\* Valid ones, one without a required field and one with a field that is not well formed
SmallDefaults(s) ==
    LET service == Service[s] IN
    {With(s, "default", service.required \cup more, {}) : more \in {{}, Fields(s)}}
        \cup {With(s, "default", service.required \ {f}, {}) : f \in One(service.required)}
        \cup {With(s, "default", Fields(s), {f}) : f \in One(service.formed)}
SmallOverrides(s, place, needed) ==
    {With(s, place, needed \cup {f}, malformed \cap Service[s].formed) : f \in Representative(s), malformed \in {{}, Fields(s)}}

\* No override of a group, an empty one, one, two of the same group or of different ones
SmallGroups(s) ==
    LET one == SmallOverrides(s, "group", Service[s].groupNeeds)
        Of(g, c) == [group |-> g, config |-> c]
    IN IF Service[s].groups = "none" THEN {<<>>}
       ELSE {<<>>, <<Of("group", With(s, "group", {}, {}))>>}
            \cup {<<Of(g, c)>> : g \in {"", "group"}, c \in one}
            \cup {<<Of(g, c), Of("group", d)>> : g \in {"group", "another"}, c \in One(one), d \in One(one)}

SmallProviders ==
    [s \in Services |-> [default : SmallDefaults(s), overrides : SmallGroups(s), alert : {{"failure-threshold", "description"}}]]
\* One field at a time, or all of the client
OwnOverrides ==
    [s \in Services |-> {Nothing, Unreadable} \cup SmallOverrides(s, "alert", {})
                            \cup {With(s, "alert", OfTheClient(s), {})}]

TwoRecipients == <<"r1", "r2">>
FirstInSecond == {<<"e1", "e2">>}
FirstEndpoint == "e1"

\* One service of each style
OfEachStyle == {CHOOSE s \in Services : Service[s].sends = style : style \in {Service[s].sends : s \in Services}}

(***************************************************************************)
(* The requests: two sessions until they expire, changes of the credential *)
(* with logouts, failures of the storage, a storage in memory, and guesses *)
(* of two clients of which one is tracked.                                 *)
(***************************************************************************)
Bounds(tokens, configurations, arrivals, ticks, kinds, clients) ==
    [sessions |-> tokens, configurations |-> configurations, arrivals |-> arrivals, ticks |-> ticks, faults |-> 0,
     memory |-> FALSE, kinds |-> kinds, clients |-> clients]
Everything == {"login", "get", "logout"}
SomeTraffics ==
    {Bounds(2, 2, 3, 2, {"login", "get"}, {h1}),
     Bounds(1, 3, 3, 1, Everything, {h1}),
     [Bounds(1, 2, 3, 1, Everything, {h1}) EXCEPT !.faults = 1],
     [Bounds(1, 2, 3, 1, Everything, {h1}) EXCEPT !.memory = TRUE],
     Bounds(0, 1, 4, 2, {"get"}, Clients)}

\* Requests, credentials and clients are alike.
Symmetric == Permutations({q1, q2}) \cup Permutations({c1, c2}) \cup Permutations({h1, h2})

\* The part that is not looked at
QuietServices ==
    /\ type \in OfEachStyle /\ provider = CHOOSE p \in Providers[type] : TRUE
    /\ declared = Nothing /\ loading = "read" /\ sentWith = Nothing /\ settings = Nothing
QuietDelivery == endpointOf = [a \in Alerts |-> FirstEndpoint] /\ tellsResolved

QuietAccess == traffic = CHOOSE t \in Traffics : TRUE

MCInit ==
    /\ \/ part = "configuration" /\ ServicesInit /\ DeliveryInit /\ QuietDelivery
       \/ part = "delivery" /\ QuietServices /\ DeliveryInit
       \/ part = "access" /\ QuietServices /\ DeliveryInit /\ QuietDelivery /\ type = CHOOSE t \in OfEachStyle : TRUE
    /\ AccessInit
    /\ part # "access" => QuietAccess

ServicesStep == part = "configuration" /\ ServicesNext /\ UNCHANGED <<part, deliveryVars, accessVars>>
DeliveryStep == part = "delivery" /\ DeliveryNext /\ UNCHANGED <<part, serviceVars, accessVars>>
AccessStep == part = "access" /\ AccessNext /\ UNCHANGED <<part, serviceVars, deliveryVars>>
MCNext == ServicesStep \/ DeliveryStep \/ AccessStep

MCSpec == MCInit /\ [][MCNext]_<<part, serviceVars, deliveryVars, accessVars>>

\* The types, and what the deliveries of an alert leave.
EachConsistent == DeliveryConsistent /\ AccessTypeOK
=============================================================================
