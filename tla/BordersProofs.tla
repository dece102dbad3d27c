----------------------------- MODULE BordersProofs -----------------------------
(***************************************************************************)
(* The borders of the program.  For any providers and any overrides of     *)
(* groups and of alerts: an alert is sent with what is configured for it.  *)
(* For any number of alerts, endpoints, recipients, failed requests and    *)
(* restarts, and for every service: who must know of an alert has been     *)
(* told before it counts as triggered, and a resolution that succeeds      *)
(* leaves none of its incidents open.  And for any number of clients,      *)
(* requests at the same time, credentials, sessions and reloads: whoever   *)
(* is let in is entitled to it, a session lasts until it has to end, and   *)
(* the limiter refuses, lets in and forgets the clients that it should.    *)
(***************************************************************************)
EXTENDS MCAlertServices, SequenceTheorems, FunctionTheorems, FiniteSetTheorems, WellFoundedInduction, TLAPS

\* The services.
LEMMA ServicesAre ==
    Services = {"awsses", "clickup", "custom", "datadog", "discord", "email", "gitea"}
          \cup {"github", "gitlab", "googlechat", "gotify", "homeassistant", "ifttt", "ilert"}
          \cup {"incidentio", "line", "matrix", "mattermost", "messagebird", "n8n", "newrelic"}
          \cup {"ntfy", "opsgenie", "pagerduty", "plivo", "pushover", "resend", "rocketchat"}
          \cup {"sendgrid", "signal", "signl4", "slack", "splunk", "squadcast", "teams"}
          \cup {"teamsworkflows", "telegram", "twilio", "vonage", "webex", "zapier", "zulip"}
  BY DEF Services, Service

-----------------------------------------------------------------------------
(* What is configured for an alert *)

\* Every service has a field that must be set, and only fields of its own are validated; none that is set with another
\* is set by the validation; where nothing is asked of the overrides of groups, they can have no malformed field; and
\* the services that keep a client are those of repositories.
Whole(service) ==
    /\ service.required # {} /\ "nothing" \notin service.required
    /\ service.formed \cup service.together \subseteq service.required \cup service.defaulted \cup service.optional
    /\ service.groupNeeds \subseteq service.required \cup service.defaulted \cup service.optional
    /\ service.together \cap service.defaulted = {}
    /\ service.groups \in {"checked", "none"} \/ service.formed = {}
    /\ service.sends = "issues" => service.together = {} /\ "repository-url" \in service.required

\* All services are like this.
LEMMA ServicesAreWhole == \A s \in Services : Whole(Service[s])
<1>1. \A s \in {"awsses", "clickup", "custom", "datadog", "discord", "email", "gitea"} : Whole(Service[s])
  <2>1. /\ Whole(AWSSES)
        /\ Whole(ClickUp)
        /\ Whole(Custom)
        /\ Whole(Datadog)
        /\ Whole(Discord)
        /\ Whole(Email)
        /\ Whole(Gitea)
    BY DEF Whole, Webhook, AWSSES, ClickUp, Custom, Datadog, Discord, Email, Gitea
  <2> QED  BY <2>1 DEF Service
<1>2. \A s \in {"github", "gitlab", "googlechat", "gotify", "homeassistant", "ifttt", "ilert"} : Whole(Service[s])
  <2>1. /\ Whole(GitHub)
        /\ Whole(GitLab)
        /\ Whole(GoogleChat)
        /\ Whole(Gotify)
        /\ Whole(HomeAssistant)
        /\ Whole(IFTTT)
        /\ Whole(Ilert)
    BY DEF Whole, Webhook, GitHub, GitLab, GoogleChat, Gotify, HomeAssistant, IFTTT, Ilert
  <2> QED  BY <2>1 DEF Service
<1>3. \A s \in {"incidentio", "line", "matrix", "mattermost", "messagebird", "n8n", "newrelic"} : Whole(Service[s])
  <2>1. /\ Whole(IncidentIO)
        /\ Whole(Line)
        /\ Whole(Matrix)
        /\ Whole(Mattermost)
        /\ Whole(Messagebird)
        /\ Whole(N8N)
        /\ Whole(NewRelic)
    BY DEF Whole, Webhook, IncidentIO, Line, Matrix, Mattermost, Messagebird, N8N, NewRelic
  <2> QED  BY <2>1 DEF Service
<1>4. \A s \in {"ntfy", "opsgenie", "pagerduty", "plivo", "pushover", "resend", "rocketchat"} : Whole(Service[s])
  <2>1. /\ Whole(Ntfy)
        /\ Whole(Opsgenie)
        /\ Whole(PagerDuty)
        /\ Whole(Plivo)
        /\ Whole(Pushover)
        /\ Whole(Resend)
        /\ Whole(RocketChat)
    BY DEF Whole, Webhook, Ntfy, Opsgenie, PagerDuty, Plivo, Pushover, Resend, RocketChat
  <2> QED  BY <2>1 DEF Service
<1>5. \A s \in {"sendgrid", "signal", "signl4", "slack", "splunk", "squadcast", "teams"} : Whole(Service[s])
  <2>1. /\ Whole(SendGrid)
        /\ Whole(Signal)
        /\ Whole(SIGNL4)
        /\ Whole(Slack)
        /\ Whole(Splunk)
        /\ Whole(Squadcast)
        /\ Whole(Teams)
    BY DEF Whole, Webhook, SendGrid, Signal, SIGNL4, Slack, Splunk, Squadcast, Teams
  <2> QED  BY <2>1 DEF Service
<1>6. \A s \in {"teamsworkflows", "telegram", "twilio", "vonage", "webex", "zapier", "zulip"} : Whole(Service[s])
  <2>1. /\ Whole(TeamsWorkflows)
        /\ Whole(Telegram)
        /\ Whole(Twilio)
        /\ Whole(Vonage)
        /\ Whole(Webex)
        /\ Whole(Zapier)
        /\ Whole(Zulip)
    BY DEF Whole, Webhook, TeamsWorkflows, Telegram, Twilio, Vonage, Webex, Zapier, Zulip
  <2> QED  BY <2>1 DEF Service
<1> QED  BY <1>1, <1>2, <1>3, <1>4, <1>5, <1>6, ServicesAre

\* The fields of a service, and what it means that a value is set.
LEMMA FieldsAre ==
    ASSUME NEW s \in Services
    PROVE  /\ Service[s].required \subseteq Fields(s) /\ Service[s].formed \subseteq Fields(s)
           /\ Service[s].together \subseteq Fields(s) /\ Service[s].defaulted \subseteq Fields(s)
           /\ Service[s].groupNeeds \subseteq Fields(s) /\ OfTheClient(s) \subseteq Fields(s)
           /\ Service[s].together \cap Service[s].defaulted = {}
           /\ OfTheClient(s) # {} => Service[s].together = {} /\ "repository-url" \in Fields(s)
  BY ServicesAreWhole DEF Whole, Fields, OfTheClient

\* The places at which a configuration is written are places.
LEMMA WrittenIsConfig ==
    ASSUME NEW s \in Services, NEW place \in Places, NEW cfg \in Written(s, place)
    PROVE  /\ cfg \in Config(s) /\ DOMAIN cfg = Fields(s)
           /\ \A f \in Fields(s) : IsSet(cfg, f) => cfg[f].set = place
<1>1. cfg \in [Fields(s) -> [set : {place}, formed : BOOLEAN] \cup {Empty}]
  BY DEF Written
<1>2. [set : {place}, formed : BOOLEAN] \cup {Empty} \subseteq Value \cup {Empty}
  BY DEF Value
<1>3. cfg \in [Fields(s) -> Value \cup {Empty}]
  BY <1>1, <1>2
<1>4. ASSUME NEW f \in Fields(s), IsSet(cfg, f)  PROVE cfg[f].set = place
  <2>1. cfg[f] \in [set : {place}, formed : BOOLEAN]
    BY <1>1, <1>4 DEF IsSet
  <2> QED
    BY <2>1
<1> QED
  BY <1>1, <1>3, <1>4 DEF Config

\* Nothing is set in an empty configuration, which may be written anywhere.
LEMMA NothingSet ==
    ASSUME NEW s \in Services, NEW place
    PROVE  /\ [f \in Fields(s) |-> Empty] \in Written(s, place)
           /\ \A f \in Fields(s) : ~IsSet([g \in Fields(s) |-> Empty], f)
  BY DEF Written, IsSet

\* Merge takes what the override sets, and leaves the rest.
LEMMA MergedIs ==
    ASSUME NEW s \in Services, NEW cfg \in Config(s), NEW override \in Config(s)
    PROVE  /\ Merged(cfg, override) \in Config(s)
           /\ \A f \in Fields(s) : Merged(cfg, override)[f] = IF IsSet(override, f) THEN override[f] ELSE cfg[f]
<1>1. DOMAIN cfg = Fields(s) /\ \A f \in Fields(s) : cfg[f] \in Value \cup {Empty} /\ override[f] \in Value \cup {Empty}
  BY DEF Config
<1>2. Merged(cfg, override) = [f \in Fields(s) |-> IF IsSet(override, f) THEN override[f] ELSE cfg[f]]
  BY <1>1 DEF Merged
<1> QED
  BY <1>1, <1>2 DEF Config

\* What Validate sets a field to.
BuiltIn == [set |-> "built in", formed |-> TRUE]

\* It is a value, and well formed.
LEMMA BuiltInIs == BuiltIn \in Value /\ BuiltIn # Empty /\ BuiltIn.set = "built in" /\ BuiltIn.formed
  BY DEF BuiltIn, Value, Places, Empty

\* Validate sets the fields with a built-in value that are not set, and leaves the rest.
LEMMA CompletedIs ==
    ASSUME NEW s \in Services, NEW cfg \in Config(s)
    PROVE  /\ Completed(s, cfg) \in Config(s)
           /\ \A f \in Fields(s) :
                  /\ IsSet(cfg, f) \/ f \notin Service[s].defaulted => Completed(s, cfg)[f] = cfg[f]
                  /\ f \in Service[s].defaulted => IsSet(Completed(s, cfg), f)
                  /\ ~IsSet(cfg, f) => Completed(s, cfg)[f] \in {Empty, BuiltIn}
<1>1. DOMAIN cfg = Fields(s) /\ \A f \in Fields(s) : cfg[f] \in Value \cup {Empty}
  BY DEF Config
<1>2. Completed(s, cfg) =
          [f \in Fields(s) |-> IF f \in Service[s].defaulted /\ ~IsSet(cfg, f) THEN BuiltIn ELSE cfg[f]]
  BY <1>1 DEF Completed, BuiltIn
<1>3. BuiltIn \in Value /\ BuiltIn # Empty
  BY BuiltInIs
<1>4. Completed(s, cfg) \in Config(s)
  BY <1>1, <1>2, <1>3 DEF Config
<1>5. ASSUME NEW f \in Fields(s)
      PROVE  /\ IsSet(cfg, f) \/ f \notin Service[s].defaulted => Completed(s, cfg)[f] = cfg[f]
             /\ f \in Service[s].defaulted => IsSet(Completed(s, cfg), f)
             /\ ~IsSet(cfg, f) => Completed(s, cfg)[f] \in {Empty, BuiltIn}
  <2>1. Completed(s, cfg)[f] = IF f \in Service[s].defaulted /\ ~IsSet(cfg, f) THEN BuiltIn ELSE cfg[f]
    BY <1>2
  <2> QED
    BY <2>1, <1>3 DEF IsSet
<1> QED
  BY <1>4, <1>5

\* The overrides of groups as they are written.
GroupsOf(s) == Seq([group : STRING, config : Written(s, "group")])

\* GetConfig finds the first override of the group, one of those of the provider, or none.
LEMMA OfGroupIs ==
    ASSUME NEW s \in Services, NEW p, p.overrides \in GroupsOf(s), NEW group
    PROVE  /\ OfGroup(s, p, group) \in Written(s, "group")
           /\ \/ OfGroup(s, p, group) = [f \in Fields(s) |-> Empty]
              \/ \E i \in DOMAIN p.overrides : OfGroup(s, p, group) = p.overrides[i].config
<1> DEFINE own == {i \in DOMAIN p.overrides : p.overrides[i].group = group}
           IsFirst(i) == \A j \in own : i <= j
<1>1. CASE own = {}
  <2>1. OfGroup(s, p, group) = [f \in Fields(s) |-> Empty]
    BY <1>1 DEF OfGroup
  <2> QED
    BY <2>1, NothingSet
<1>2. CASE own # {}
  <2>1. own \subseteq Nat /\ DOMAIN p.overrides = 1..Len(p.overrides)
    BY DEF GroupsOf
  <2>2. PICK n \in own : \A m \in own : ~(<<m, n>> \in OpToRel(<, Nat))
    <3> HIDE DEF own
    <3> QED
      BY <1>2, <2>1, WFMin, NatLessThanWellFounded, Zenon
  <2>3. \A m \in own : n <= m
    <3> SUFFICES ASSUME NEW m \in own, m < n  PROVE FALSE
      BY <2>1
    <3>1. <<m, n>> \in {ss \in Nat \X Nat : ss[1] < ss[2]}
      BY <2>1
    <3> QED
      BY <2>2, <3>1 DEF OpToRel
  <2>4. PICK first : first = CHOOSE i \in own : IsFirst(i)
    OBVIOUS
  <2>5. first \in own
    <3> HIDE DEF own
    <3> QED
      BY <2>3, <2>4
  <2>6. OfGroup(s, p, group) = p.overrides[first].config
    BY <1>2, <2>4 DEF OfGroup
  <2>7. p.overrides[first] \in [group : STRING, config : Written(s, "group")]
    <3>1. first \in 1..Len(p.overrides)
      BY <2>1, <2>5
    <3>2. PICK overrides : overrides = p.overrides
      OBVIOUS
    <3>3. overrides \in Seq([group : STRING, config : Written(s, "group")]) /\ first \in 1..Len(overrides)
      BY <3>1, <3>2 DEF GroupsOf
    <3> QED
      BY ONLY <3>2, <3>3, ElementOfSeq
  <2> QED
    BY <2>5, <2>6, <2>7
<1> QED
  BY <1>1, <1>2

\* Every field is what is most specific, except for the client of a repository that stays the same.
MostSpecific(s, default, ofGroup, override, kept, cfg) ==
    \A f \in Fields(s) :
        cfg[f] = IF kept /\ f \in OfTheClient(s) THEN default[f]
                 ELSE IF IsSet(override, f) THEN override[f] ELSE IF IsSet(ofGroup, f) THEN ofGroup[f] ELSE default[f]

\* What an alert is sent with is what its own override sets, else what that of its group sets, else the default, except
\* for a client that is kept.
LEMMA GetConfigIs ==
    ASSUME NEW s \in Services, NEW p, p.overrides \in GroupsOf(s), p.default \in Config(s), NEW group, NEW repeats,
           NEW override \in Config(s), NEW cfg, cfg = GetConfig(s, p, group, override, repeats),
           NEW ofGroup, ofGroup = OfGroup(s, p, group)
    PROVE  /\ cfg \in Config(s)
           /\ MostSpecific(s, p.default, ofGroup, override, KeepsClient(s, override, repeats), cfg)
<1>1. ofGroup \in Config(s)
  <2>1. ofGroup \in Written(s, "group") /\ "group" \in Places
    BY OfGroupIs DEF Places
  <2> QED
    BY <2>1, WrittenIsConfig
<1>2. PICK some : some = Merged(p.default, ofGroup)
  OBVIOUS
<1>3. some \in Config(s) /\ \A f \in Fields(s) : some[f] = IF IsSet(ofGroup, f) THEN ofGroup[f] ELSE p.default[f]
  BY <1>1, <1>2, MergedIs
<1>4. PICK merged : merged = Merged(some, override)
  OBVIOUS
<1>5. merged \in Config(s) /\ \A f \in Fields(s) : merged[f] = IF IsSet(override, f) THEN override[f] ELSE some[f]
  BY <1>3, <1>4, MergedIs
<1>6. PICK kept \in BOOLEAN : kept = KeepsClient(s, override, repeats)
  <2>1. KeepsClient(s, override, repeats) = (KeepsClient(s, override, repeats) = TRUE)
    BY DEF KeepsClient
  <2> QED
    BY <2>1
<1>7. cfg = WithClient(s, merged, p.default, kept)
  BY <1>2, <1>4, <1>6 DEF GetConfig
<1>8. CASE ~kept
  <2>1. cfg = merged
    BY <1>7, <1>8 DEF WithClient
  <2> QED
    BY <1>3, <1>5, <1>6, <1>8, <2>1 DEF MostSpecific
<1>9. CASE kept
  <2>1. DOMAIN merged = Fields(s) /\ \A f \in Fields(s) : {merged[f], p.default[f]} \subseteq Value \cup {Empty}
    BY <1>5 DEF Config
  <2>2. cfg = [f \in Fields(s) |-> IF f \in OfTheClient(s) THEN p.default[f] ELSE merged[f]]
    BY <1>7, <1>9, <2>1 DEF WithClient
  <2>3. cfg \in Config(s)
    BY <2>1, <2>2 DEF Config
  <2>4. \A f \in Fields(s) : cfg[f] = IF f \in OfTheClient(s) THEN p.default[f] ELSE merged[f]
    BY <2>2
  <2> QED
    BY <1>3, <1>5, <1>6, <1>9, <2>3, <2>4 DEF MostSpecific
<1> QED
  BY <1>8, <1>9

\* A provider that Validate has accepted, with what it has set.
Accepted(s, p, q) == p \in Providers[s] /\ ValidProvider(s, p) /\ q = [p EXCEPT !.default = Completed(s, @)]

\* It has the overrides and the default alert that were declared; and what is set in its default is so in the file, or
\* is built in.
LEMMA AcceptedIs ==
    ASSUME NEW s \in Services, NEW p, NEW q, Accepted(s, p, q)
    PROVE  /\ p.default \in Config(s) /\ q.default \in Config(s) /\ q.default = Completed(s, p.default)
           /\ q.overrides = p.overrides /\ q.overrides \in GroupsOf(s) /\ q.alert = p.alert
           /\ Service[s].groups = "none" => q.overrides = <<>>
           /\ \A f \in Fields(s) : /\ IsSet(q.default, f) => q.default[f].set \in {"default", "built in"}
                                   /\ f \in Service[s].defaulted => IsSet(q.default, f)
<1>1. p \in [default : Written(s, "default"), alert : SUBSET AlertFields, overrides : GroupsOf(s)]
  BY ServicesAssumption DEF Accepted, GroupsOf
<1>2. p.default \in Written(s, "default") /\ "default" \in Places
  BY <1>1 DEF Places
<1>3. p.default \in Config(s) /\ \A f \in Fields(s) : IsSet(p.default, f) => p.default[f].set = "default"
  BY <1>2, WrittenIsConfig
<1>4. q.default = Completed(s, p.default) /\ q.overrides = p.overrides /\ q.alert = p.alert /\ p.overrides \in GroupsOf(s)
  BY <1>1 DEF Accepted
<1>5. Service[s].groups = "none" => q.overrides = <<>>
  BY <1>4, ServicesAssumption DEF Accepted
<1>6. ASSUME NEW f \in Fields(s)
      PROVE  /\ IsSet(q.default, f) => q.default[f].set \in {"default", "built in"}
             /\ f \in Service[s].defaulted => IsSet(q.default, f)
  <2>1. /\ IsSet(p.default, f) => q.default[f] = p.default[f]
        /\ f \in Service[s].defaulted => IsSet(q.default, f)
        /\ ~IsSet(p.default, f) => q.default[f] \in {Empty, BuiltIn}
    BY <1>3, <1>4, CompletedIs
  <2>2. CASE IsSet(p.default, f)
    <3>1. q.default[f].set = "default"
      BY <1>3, <2>1, <2>2
    <3> QED
      BY <2>1, <3>1
  <2>3. CASE ~IsSet(p.default, f)
    <3>1. IsSet(q.default, f) => q.default[f] = BuiltIn
      BY <2>1, <2>3 DEF IsSet
    <3> QED
      BY <2>1, <3>1, BuiltInIs
  <2> QED
    BY <2>2, <2>3
<1> QED
  BY <1>3, <1>4, <1>5, <1>6, CompletedIs

\* Where the validation of the provider knows the overrides of groups, an alert without an override can be sent.
LEMMA KnownIsSendable ==
    ASSUME NEW s \in Services, NEW p, NEW q, Accepted(s, p, q), GroupsKnown(s), NEW group, NEW repeats
    PROVE  Sendable(s, q, group, [f \in Fields(s) |-> Empty], repeats)
<1>1. PICK none : none = [f \in Fields(s) |-> Empty]
  OBVIOUS
<1>2. none \in Config(s) /\ \A f \in Fields(s) : ~IsSet(none, f)
  BY <1>1, NothingSet DEF Config
<1>3. PICK cfg, ofGroup : cfg = GetConfig(s, q, group, none, repeats) /\ ofGroup = OfGroup(s, q, group)
  OBVIOUS
<1>4. /\ p.default \in Config(s) /\ q.default \in Config(s) /\ q.default = Completed(s, p.default)
      /\ q.overrides = p.overrides /\ q.overrides \in GroupsOf(s)
      /\ Service[s].groups = "none" => q.overrides = <<>>
  BY AcceptedIs, ZenonT(60)
<1>5. /\ cfg \in Config(s)
      /\ \A f \in Fields(s) : \/ cfg[f] = IF IsSet(ofGroup, f) THEN ofGroup[f] ELSE q.default[f]
                              \/ f \in OfTheClient(s) /\ cfg[f] = q.default[f]
  <2>1. cfg \in Config(s) /\ MostSpecific(s, q.default, ofGroup, none, KeepsClient(s, none, repeats), cfg)
    BY <1>2, <1>3, <1>4, GetConfigIs
  <2> QED
    BY <1>2, <2>1 DEF MostSpecific
<1>6. \A f \in Fields(s) :
          /\ IsSet(p.default, f) \/ f \notin Service[s].defaulted => q.default[f] = p.default[f]
          /\ ~IsSet(p.default, f) => q.default[f] \in {Empty, BuiltIn}
  <2>1. PICK default, full : default = p.default /\ full = q.default
    OBVIOUS
  <2>2. default \in Config(s) /\ full = Completed(s, default)
    BY <1>4, <2>1
  <2>3. \A f \in Fields(s) :
            /\ IsSet(default, f) \/ f \notin Service[s].defaulted => full[f] = default[f]
            /\ ~IsSet(default, f) => full[f] \in {Empty, BuiltIn}
    BY <2>2, CompletedIs
  <2> QED
    BY <2>1, <2>3
<1>7. Valid(s, p.default) /\ (Service[s].groups = "checked" => ValidOverrides(s, p.overrides))
  BY DEF Accepted, ValidProvider
<1>8. /\ ofGroup \in Config(s)
      /\ ofGroup = none \/ \E i \in DOMAIN p.overrides : ofGroup = p.overrides[i].config
  <2>1. /\ ofGroup \in Written(s, "group") /\ "group" \in Places
        /\ ofGroup = none \/ \E i \in DOMAIN q.overrides : ofGroup = q.overrides[i].config
    BY <1>1, <1>3, <1>4, OfGroupIs DEF Places
  <2> QED
    BY <1>4, <2>1, WrittenIsConfig
<1>9. ofGroup = none \/ Service[s].groups # "none"
  BY <1>4, <1>8
<1>10. ASSUME NEW f \in Service[s].required  PROVE IsSet(cfg, f)
  <2>1. f \in Fields(s) /\ IsSet(p.default, f)
    BY <1>7, FieldsAre DEF Valid
  <2> QED
    BY <1>5, <1>6, <2>1 DEF IsSet
<1>11. ASSUME NEW f \in Service[s].formed, IsSet(cfg, f)  PROVE cfg[f].formed
  <2>1. f \in Fields(s) /\ (IsSet(p.default, f) => p.default[f].formed)
    BY <1>7, FieldsAre DEF Valid
  <2>2. IsSet(q.default, f) => q.default[f].formed
    <3>1. CASE IsSet(p.default, f)
      BY <1>6, <2>1, <3>1
    <3>2. CASE ~IsSet(p.default, f)
      <4>1. IsSet(q.default, f) => q.default[f] = BuiltIn
        BY <1>6, <2>1, <3>2 DEF IsSet
      <4> QED
        BY <4>1, BuiltInIs
    <3> QED
      BY <3>1, <3>2
  <2>3. CASE cfg[f] = q.default[f]
    BY <1>11, <2>2, <2>3 DEF IsSet
  <2>4. CASE cfg[f] # q.default[f]
    <3>1. cfg[f] = ofGroup[f] /\ IsSet(ofGroup, f) /\ ofGroup # none
      BY <1>2, <1>5, <2>1, <2>4
    <3>2. PICK i \in DOMAIN p.overrides : ofGroup = p.overrides[i].config
      BY <1>8, <3>1
    <3>3. CASE Service[s].groupMerged
      <4>1. Valid(s, Merged(p.default, ofGroup))
        BY <3>2, <3>3 DEF Accepted, ValidProvider
      <4>2. Merged(p.default, ofGroup)[f] = ofGroup[f]
        BY <1>4, <1>8, <2>1, <3>1, MergedIs
      <4> QED
        BY <3>1, <4>1, <4>2 DEF Valid, IsSet
    <3>4. CASE ~Service[s].groupMerged
      <4>1. Service[s].formed \subseteq Service[s].groupFormed
        BY <1>9, <3>1, <3>4 DEF GroupsKnown
      <4>2. Service[s].groups = "checked"
        BY <1>9, <3>1, ServicesAreWhole DEF Whole
      <4>3. p.overrides[i].config[f].formed
        BY <1>7, <3>1, <3>2, <4>1, <4>2 DEF ValidOverrides
      <4> QED
        BY <3>1, <3>2, <4>3
    <3> QED
      BY <3>3, <3>4
  <2> QED
    BY <2>3, <2>4
<1>12. ASSUME NEW f \in Service[s].together, NEW g \in Service[s].together  PROVE IsSet(cfg, f) = IsSet(cfg, g)
  <2>1. /\ f \in Fields(s) /\ g \in Fields(s) /\ f \notin Service[s].defaulted /\ g \notin Service[s].defaulted
        /\ OfTheClient(s) = {} /\ (IsSet(p.default, f) <=> IsSet(p.default, g))
    BY <1>7, FieldsAre DEF Valid
  <2>2. /\ cfg[f] = IF IsSet(ofGroup, f) THEN ofGroup[f] ELSE p.default[f]
        /\ cfg[g] = IF IsSet(ofGroup, g) THEN ofGroup[g] ELSE p.default[g]
    BY <1>5, <1>6, <2>1
  <2>3. CASE ofGroup = none
    BY <1>2, <2>1, <2>2, <2>3 DEF IsSet
  <2>4. CASE ofGroup # none
    <3>1. PICK i \in DOMAIN p.overrides : ofGroup = p.overrides[i].config
      BY <1>8, <2>4
    <3>2. Service[s].groupMerged
      BY <1>9, <2>4 DEF GroupsKnown
    <3>3. Valid(s, Merged(p.default, ofGroup))
      BY <3>1, <3>2 DEF Accepted, ValidProvider
    <3>4. Merged(p.default, ofGroup)[f] = cfg[f] /\ Merged(p.default, ofGroup)[g] = cfg[g]
      BY <1>4, <1>8, <2>1, <2>2, MergedIs
    <3> QED
      BY <3>3, <3>4 DEF Valid, IsSet
  <2> QED
    BY <2>3, <2>4
<1> QED
  BY <1>1, <1>3, <1>10, <1>11, <1>12 DEF Sendable, Valid

-----------------------------------------------------------------------------
(* An alert from its configuration to the service *)

\* The settings of the alert as it was declared.
OwnSettings == [f \in AlertFields |-> IF f \in declared.own THEN "own" ELSE Unset]
ToSend == Completed(type, GetConfig(type, provider, declared.group, OwnOverride, declared.repeats))
Declared(s) ==
    [kind : Kinds, group : {"", "group"}, override : Overrides[s], own : {{}, {"failure-threshold"}}, repeats : BOOLEAN]

\* The inductive invariant: a provider whose validation has passed is one that was declared, with what its validation
\* sets; the settings are as declared until the endpoints are validated, and then settled from those of the provider;
\* an alert of the administration has an override that may be used; and what was sent is what is configured.
ServicesInv ==
    /\ type \in Services
    /\ declared \in Declared(type)
    /\ loading \in {"read", "alerting", "ignored", "refused", "without provider", "loaded", "sent"}
    /\ provider \in Providers[type] \/ \E p \in Providers[type] : Accepted(type, p, provider)
    /\ loading = "read" => provider \in Providers[type]
    /\ loading \in {"alerting", "loaded", "sent"} => \E p \in Providers[type] : Accepted(type, p, provider)
    /\ loading \in {"read", "alerting", "ignored"} => settings = OwnSettings
    /\ loading \in {"loaded", "sent"} => settings = Settled(declared.kind, provider.alert, OwnSettings)
    /\ loading \in {"loaded", "sent"} /\ declared.kind = "managed" => declared.override = Nothing \/ CanOverride
    /\ sentWith # Nothing => loading = "sent" /\ CanOverride /\ sentWith = ToSend
    /\ loading = "sent" => sentWith = ToSend \/ ~CanOverride \/ MakesClient

\* It holds of what is read.
LEMMA ServicesStart == ServicesInit => ServicesInv
  BY DEF ServicesInit, ServicesInv, OwnSettings, Declared

\* What was declared, of which the provider may be completed, decides what is sent.
LEMMA SameToSend ==
    ASSUME UNCHANGED <<type, provider, declared>>
    PROVE  OwnSettings' = OwnSettings /\ (CanOverride <=> CanOverride') /\ (MakesClient <=> MakesClient')
           /\ ToSend' = ToSend
<1>1. OwnOverride' = OwnOverride
  BY DEF OwnOverride
<1> QED
  BY <1>1 DEF OwnSettings, CanOverride, MakesClient, ToSend

\* Every step keeps it.
LEMMA ServicesKeep == ServicesInv /\ [ServicesNext]_serviceVars => ServicesInv'
<1> SUFFICES ASSUME ServicesInv, [ServicesNext]_serviceVars  PROVE ServicesInv'
  OBVIOUS
<1>1. CASE ValidateAlertingConfig
  <2>1. /\ loading = "read" /\ type' = type /\ declared' = declared /\ settings' = settings /\ sentWith' = sentWith
        /\ loading' \in {"alerting", "ignored"} /\ OwnSettings' = OwnSettings
    BY <1>1 DEF ValidateAlertingConfig, OwnSettings
  <2>2. sentWith' = Nothing /\ settings' = OwnSettings'
    BY <2>1 DEF ServicesInv
  <2>3. CASE loading' = "alerting"
    <3>1. ValidProvider(type, provider) /\ provider' = [provider EXCEPT !.default = Completed(type, @)]
      BY <1>1, <2>3 DEF ValidateAlertingConfig
    <3>2. provider \in Providers[type]
      BY <2>1 DEF ServicesInv
    <3>3. Accepted(type, provider, provider')
      BY <3>1, <3>2 DEF Accepted
    <3> QED
      BY <2>1, <2>2, <2>3, <3>3 DEF ServicesInv
  <2>4. CASE loading' = "ignored"
    <3>1. provider' = provider
      BY <1>1, <2>4 DEF ValidateAlertingConfig
    <3> QED
      BY <2>1, <2>2, <2>4, <3>1 DEF ServicesInv
  <2> QED
    BY <2>1, <2>3, <2>4
<1>2. CASE ValidateEndpoints
  <2>1. UNCHANGED <<type, provider, declared, sentWith>> /\ loading \in {"alerting", "ignored"}
    BY <1>2 DEF ValidateEndpoints
  <2>2. OwnSettings' = OwnSettings /\ (CanOverride <=> CanOverride') /\ (MakesClient <=> MakesClient')
           /\ ToSend' = ToSend
    BY <2>1, SameToSend
  <2>3. loading' \in {"refused", "without provider", "loaded"}
    BY <1>2 DEF ValidateEndpoints
  <2>4. sentWith' = Nothing
    BY <2>1 DEF ServicesInv
  <2>5. ASSUME loading' = "loaded"
        PROVE  /\ loading = "alerting" /\ settings' = Settled(declared.kind, provider.alert, settings)
               /\ declared.kind = "managed" => declared.override = Nothing \/ CanOverride
    BY <1>2, <2>1, <2>5 DEF ValidateEndpoints
  <2>6. loading' = "loaded" => settings' = Settled(declared'.kind, provider'.alert, OwnSettings')
    BY <2>1, <2>2, <2>5 DEF ServicesInv
  <2>7. loading' = "loaded" => \E p \in Providers[type'] : Accepted(type', p, provider')
    BY <2>1, <2>5 DEF ServicesInv
  <2>8. loading' = "loaded" /\ declared'.kind = "managed" => declared'.override = Nothing \/ CanOverride'
    BY <2>1, <2>2, <2>5
  <2>9. /\ type' \in Services
        /\ declared' \in Declared(type')
        /\ provider' \in Providers[type'] \/ \E p \in Providers[type'] : Accepted(type', p, provider')
    BY <2>1 DEF ServicesInv
  <2> QED
    BY <2>2, <2>3, <2>4, <2>6, <2>7, <2>8, <2>9 DEF ServicesInv
<1>3. CASE AskForConfig
  <2>1. UNCHANGED <<type, provider, declared, settings>> /\ loading = "loaded" /\ loading' = "sent"
    BY <1>3 DEF AskForConfig
  <2>2. OwnSettings' = OwnSettings /\ (CanOverride <=> CanOverride') /\ (MakesClient <=> MakesClient')
           /\ ToSend' = ToSend
    BY <2>1, SameToSend
  <2>3. PICK answered \in MayAnswer(MakesClient) : sentWith' = IF CanOverride /\ answered THEN ToSend ELSE Nothing
    BY <1>3 DEF AskForConfig, ToSend
  <2>8. ~answered => MakesClient
    BY DEF MayAnswer
  <2>4. settings' = Settled(declared'.kind, provider'.alert, OwnSettings')
    BY <2>1, <2>2 DEF ServicesInv
  <2>5. \E p \in Providers[type'] : Accepted(type', p, provider')
    BY <2>1 DEF ServicesInv
  <2>6. declared'.kind = "managed" => declared'.override = Nothing \/ CanOverride'
    BY <2>1, <2>2 DEF ServicesInv
  <2>7. /\ type' \in Services
        /\ declared' \in Declared(type')
    BY <2>1 DEF ServicesInv
  <2> QED
    BY <2>1, <2>2, <2>3, <2>4, <2>5, <2>6, <2>7, <2>8 DEF ServicesInv
<1>4. CASE UNCHANGED serviceVars
  <2>1. UNCHANGED <<type, provider, declared, loading, settings, sentWith>>
    BY <1>4 DEF serviceVars
  <2>2. OwnSettings' = OwnSettings /\ (CanOverride <=> CanOverride') /\ (MakesClient <=> MakesClient')
           /\ ToSend' = ToSend
    BY <2>1, SameToSend
  <2> QED
    BY <2>1, <2>2 DEF ServicesInv
<1> QED
  BY <1>1, <1>2, <1>3, <1>4 DEF ServicesNext

\* The override of an alert is written as one of its own, if it is of the form of a configuration.
LEMMA OwnOverrideIs ==
    ASSUME ServicesInv, declared.override # Unreadable
    PROVE  OwnOverride \in Written(type, "alert")
<1>1. type \in Services /\ declared.override \in Overrides[type]
  BY DEF ServicesInv, Declared
<1>2. declared.override \in Written(type, "alert") \cup {Nothing}
  BY <1>1, ServicesAssumption
<1> QED
  BY <1>1, <1>2, NothingSet DEF OwnOverride

\* What is sent is a configuration, in which every field is what was configured most specifically for it.
LEMMA ToSendIs ==
    ASSUME ServicesInv, loading = "sent", CanOverride
    PROVE  /\ ToSend \in Config(type)
           /\ \A f \in Fields(type) :
                  LET group == OfGroup(type, provider, declared.group)
                      place == IF IsSet(OwnOverride, f) THEN "alert" ELSE IF IsSet(group, f) THEN "group" ELSE provider.default[f].set
                  IN ToSend[f].set = IF f \in OfTheClient(type) /\ ~NamesAnother THEN provider.default[f].set ELSE place
<1>1. type \in Services
  BY DEF ServicesInv
<1>2. PICK p : Accepted(type, p, provider)
  BY DEF ServicesInv
<1>3. PICK default, group, override, cfg :
          /\ default = provider.default /\ group = OfGroup(type, provider, declared.group) /\ override = OwnOverride
          /\ cfg = GetConfig(type, provider, declared.group, OwnOverride, declared.repeats)
  OBVIOUS
<1>4. /\ default \in Config(type) /\ provider.overrides \in GroupsOf(type)
      /\ \A f \in Fields(type) : /\ IsSet(default, f) => default[f].set \in {"default", "built in"}
                                 /\ f \in Service[type].defaulted => IsSet(default, f)
  BY <1>1, <1>2, <1>3, AcceptedIs
<1>5. /\ override \in Config(type)
      /\ \A f \in Fields(type) : IsSet(override, f) => override[f].set = "alert"
  <2>1. override \in Written(type, "alert") /\ "alert" \in Places
    BY <1>3, OwnOverrideIs DEF CanOverride, Places
  <2> QED
    BY <1>1, <2>1, WrittenIsConfig
<1>6. \A f \in Fields(type) : IsSet(group, f) => group[f].set = "group"
  <2>1. group \in Written(type, "group") /\ "group" \in Places
    BY <1>1, <1>3, <1>4, OfGroupIs DEF Places
  <2> QED
    BY <1>1, <2>1, WrittenIsConfig
<1>7. cfg \in Config(type) /\ MostSpecific(type, default, group, override, ~NamesAnother, cfg)
  <2>1. /\ cfg \in Config(type)
        /\ MostSpecific(type, provider.default, group, override, KeepsClient(type, override, declared.repeats), cfg)
    BY <1>1, <1>3, <1>4, <1>5, GetConfigIs
  <2>2. KeepsClient(type, override, declared.repeats) <=> ~NamesAnother
    BY <1>3 DEF KeepsClient, NamesAnother
  <2> QED
    BY <1>3, <2>1, <2>2 DEF MostSpecific
<1>8. /\ ToSend \in Config(type)
      /\ \A f \in Fields(type) : IsSet(cfg, f) \/ f \notin Service[type].defaulted => ToSend[f] = cfg[f]
  <2>1. ToSend = Completed(type, cfg)
    BY <1>3 DEF ToSend
  <2> QED
    BY <1>1, <1>7, <2>1, CompletedIs
<1>9. ASSUME NEW f \in Fields(type)
      PROVE  ToSend[f].set = IF f \in OfTheClient(type) /\ ~NamesAnother THEN default[f].set
                             ELSE IF IsSet(override, f) THEN "alert" ELSE IF IsSet(group, f) THEN "group" ELSE default[f].set
  <2>1. cfg[f] = IF f \in OfTheClient(type) /\ ~NamesAnother THEN default[f]
                 ELSE IF IsSet(override, f) THEN override[f] ELSE IF IsSet(group, f) THEN group[f] ELSE default[f]
    BY <1>7 DEF MostSpecific
  <2>2. f \in Service[type].defaulted => IsSet(cfg, f)
    BY <1>4, <2>1 DEF IsSet
  <2>3. ToSend[f] = cfg[f]
    BY <1>8, <2>2
  <2> QED
    BY <1>5, <1>6, <2>1, <2>3
<1> QED
  BY <1>3, <1>8, <1>9

\* A configuration is not nothing: it has a field that must be set.
LEMMA ConfigIsSomething ==
    ASSUME NEW s \in Services, NEW cfg \in Config(s)
    PROVE  cfg # Nothing
<1>1. PICK f \in Service[s].required : f # "nothing" /\ f \in Fields(s)
  BY ServicesAreWhole, FieldsAre DEF Whole
<1>2. DOMAIN cfg = Fields(s)
  BY DEF Config
<1>3. DOMAIN Nothing = {"nothing"}
  BY DEF Nothing
<1> QED
  BY <1>1, <1>2, <1>3

\* What the invariant says of an alert that is sent, of its settings and of one that cannot be sent.
LEMMA ServicesPromise == ServicesInv => SentAsConfigured
<1> SUFFICES ASSUME ServicesInv  PROVE SentAsConfigured
  OBVIOUS
<1>1. ASSUME sentWith # Nothing  PROVE loading = "sent" /\ CanOverride /\ sentWith = ToSend
  BY <1>1 DEF ServicesInv
<1>2. ServicesTypeOK
  <2>1. type \in Services
    BY DEF ServicesInv
  <2>2. provider.default \in Config(type)
    <3>1. CASE provider \in Providers[type]
      <4>1. provider.default \in Written(type, "default") /\ "default" \in Places
        BY <2>1, <3>1, ServicesAssumption DEF Places
      <4> QED
        BY <2>1, <4>1, WrittenIsConfig
    <3>2. CASE \E p \in Providers[type] : Accepted(type, p, provider)
      BY <2>1, <3>2, AcceptedIs
    <3> QED
      BY <3>1, <3>2 DEF ServicesInv
  <2>3. sentWith = Nothing \/ sentWith \in Config(type)
    BY <1>1, ToSendIs
  <2> QED
    BY <2>1, <2>2, <2>3 DEF ServicesTypeOK, ServicesInv
<1>3. MostSpecificWins
  <2>1. sentWith # Nothing =>
           \A f \in Fields(type) :
               LET group == OfGroup(type, provider, declared.group)
                   place == IF IsSet(OwnOverride, f) THEN "alert" ELSE IF IsSet(group, f) THEN "group" ELSE provider.default[f].set
               IN sentWith[f].set = IF f \in OfTheClient(type) /\ ~NamesAnother THEN provider.default[f].set ELSE place
    BY <1>1, ToSendIs
  <2>2. ASSUME loading \in {"loaded", "sent"}, declared.kind # "suite", NEW f \in AlertFields
        PROVE  settings[f] = IF f \in declared.own THEN "own" ELSE IF f \in provider.alert THEN "provider"
                             ELSE IF f \in {"failure-threshold", "success-threshold"} THEN "built in" ELSE Unset
    <3>1. settings = SetDefaults(MergeDefaultAlert(provider.alert, OwnSettings))
      BY <2>2 DEF ServicesInv, Settled
    <3>2. OwnSettings[f] = IF f \in declared.own THEN "own" ELSE Unset
      BY DEF OwnSettings
    <3>3. PICK merged : merged = MergeDefaultAlert(provider.alert, OwnSettings)
      OBVIOUS
    <3>4. merged[f] = IF OwnSettings[f] = Unset /\ f \in provider.alert THEN "provider" ELSE OwnSettings[f]
      BY <3>3 DEF MergeDefaultAlert
    <3>5. settings[f] = IF merged[f] = Unset /\ f \in {"failure-threshold", "success-threshold"} THEN "built in" ELSE merged[f]
      BY <3>1, <3>3 DEF SetDefaults
    <3> QED
      BY <3>2, <3>4, <3>5 DEF Unset
  <2> QED
    BY <2>1, <2>2 DEF MostSpecificWins
<1>4. AcceptedIsSendable
  <2> SUFFICES ASSUME loading = "sent", sentWith = Nothing
               PROVE  \/ declared.override # Nothing /\ (declared.kind # "managed" \/ NamesAnother)
                      \/ declared.override = Nothing /\ ~GroupsKnown(type)
    BY DEF AcceptedIsSendable
  <2>1. type \in Services
    BY DEF ServicesInv
  <2>2. ~CanOverride \/ MakesClient
    <3> SUFFICES ASSUME CanOverride, sentWith = ToSend  PROVE FALSE
      BY DEF ServicesInv
    <3>1. ToSend \in Config(type)
      BY ToSendIs DEF ServicesInv
    <3> QED
      BY <2>1, <3>1, ConfigIsSomething
  <2>3. MakesClient => declared.override # Nothing /\ NamesAnother
    <3>1. declared.override = Nothing => OwnOverride = [f \in Fields(type) |-> Empty]
      BY DEF OwnOverride
    <3>2. OfTheClient(type) # {} => "repository-url" \in Fields(type)
      BY <2>1, FieldsAre
    <3>3. declared.override = Nothing /\ OfTheClient(type) # {} => ~IsSet(OwnOverride, "repository-url")
      BY <3>1, <3>2 DEF IsSet
    <3> QED
      BY <3>3 DEF MakesClient, KeepsClient, NamesAnother
  <2>5. declared.kind = "managed" => declared.override = Nothing \/ NamesAnother
    BY <2>2, <2>3 DEF ServicesInv
  <2>4. ASSUME declared.override = Nothing, GroupsKnown(type)  PROVE FALSE
    <3>1. declared.override # Unreadable
      <4>1. DOMAIN Nothing = {"nothing"} /\ DOMAIN Unreadable = {"unreadable"}
        BY DEF Nothing, Unreadable
      <4> QED
        BY <2>4, <4>1
    <3>2. OwnOverride = [f \in Fields(type) |-> Empty]
      BY <2>4 DEF OwnOverride
    <3>3. PICK p : Accepted(type, p, provider)
      BY DEF ServicesInv
    <3>4. Sendable(type, provider, declared.group, OwnOverride, declared.repeats)
      BY <2>1, <2>4, <3>2, <3>3, KnownIsSendable
    <3> QED
      BY <2>2, <2>3, <2>4, <3>1, <3>4 DEF CanOverride
  <2> QED
    BY <2>4, <2>5
<1> QED
  BY <1>2, <1>3, <1>4 DEF SentAsConfigured

-----------------------------------------------------------------------------
(* The ways in which the services are talked to *)

\* The ways in which the services are talked to.
Styles == Messages \cup ByEndpoint \cup {"answered key", "deduplication", "fingerprint"}

\* Every service is talked to in one of these ways.
LEMMA StyleIsOne == \A s \in Services : Service[s].sends \in Styles
<1>1. \A s \in {"awsses", "clickup", "custom", "datadog", "discord", "email", "gitea"} : Service[s].sends \in Styles
  <2>1. /\ AWSSES.sends \in Styles
        /\ ClickUp.sends \in Styles
        /\ Custom.sends \in Styles
        /\ Datadog.sends \in Styles
        /\ Discord.sends \in Styles
        /\ Email.sends \in Styles
        /\ Gitea.sends \in Styles
    BY DEF Styles, Messages, Repeats, ByEndpoint, Webhook, AWSSES, ClickUp, Custom, Datadog, Discord, Email, Gitea
  <2> QED  BY <2>1 DEF Service
<1>2. \A s \in {"github", "gitlab", "googlechat", "gotify", "homeassistant", "ifttt", "ilert"} : Service[s].sends \in Styles
  <2>1. /\ GitHub.sends \in Styles
        /\ GitLab.sends \in Styles
        /\ GoogleChat.sends \in Styles
        /\ Gotify.sends \in Styles
        /\ HomeAssistant.sends \in Styles
        /\ IFTTT.sends \in Styles
        /\ Ilert.sends \in Styles
    BY DEF Styles, Messages, Repeats, ByEndpoint, Webhook, GitHub, GitLab, GoogleChat, Gotify, HomeAssistant, IFTTT, Ilert
  <2> QED  BY <2>1 DEF Service
<1>3. \A s \in {"incidentio", "line", "matrix", "mattermost", "messagebird", "n8n", "newrelic"} : Service[s].sends \in Styles
  <2>1. /\ IncidentIO.sends \in Styles
        /\ Line.sends \in Styles
        /\ Matrix.sends \in Styles
        /\ Mattermost.sends \in Styles
        /\ Messagebird.sends \in Styles
        /\ N8N.sends \in Styles
        /\ NewRelic.sends \in Styles
    BY DEF Styles, Messages, Repeats, ByEndpoint, Webhook, IncidentIO, Line, Matrix, Mattermost, Messagebird, N8N, NewRelic
  <2> QED  BY <2>1 DEF Service
<1>4. \A s \in {"ntfy", "opsgenie", "pagerduty", "plivo", "pushover", "resend", "rocketchat"} : Service[s].sends \in Styles
  <2>1. /\ Ntfy.sends \in Styles
        /\ Opsgenie.sends \in Styles
        /\ PagerDuty.sends \in Styles
        /\ Plivo.sends \in Styles
        /\ Pushover.sends \in Styles
        /\ Resend.sends \in Styles
        /\ RocketChat.sends \in Styles
    BY DEF Styles, Messages, Repeats, ByEndpoint, Webhook, Ntfy, Opsgenie, PagerDuty, Plivo, Pushover, Resend, RocketChat
  <2> QED  BY <2>1 DEF Service
<1>5. \A s \in {"sendgrid", "signal", "signl4", "slack", "splunk", "squadcast", "teams"} : Service[s].sends \in Styles
  <2>1. /\ SendGrid.sends \in Styles
        /\ Signal.sends \in Styles
        /\ SIGNL4.sends \in Styles
        /\ Slack.sends \in Styles
        /\ Splunk.sends \in Styles
        /\ Squadcast.sends \in Styles
        /\ Teams.sends \in Styles
    BY DEF Styles, Messages, Repeats, ByEndpoint, Webhook, SendGrid, Signal, SIGNL4, Slack, Splunk, Squadcast, Teams
  <2> QED  BY <2>1 DEF Service
<1>6. \A s \in {"teamsworkflows", "telegram", "twilio", "vonage", "webex", "zapier", "zulip"} : Service[s].sends \in Styles
  <2>1. /\ TeamsWorkflows.sends \in Styles
        /\ Telegram.sends \in Styles
        /\ Twilio.sends \in Styles
        /\ Vonage.sends \in Styles
        /\ Webex.sends \in Styles
        /\ Zapier.sends \in Styles
        /\ Zulip.sends \in Styles
    BY DEF Styles, Messages, Repeats, ByEndpoint, Webhook, TeamsWorkflows, Telegram, Twilio, Vonage, Webex, Zapier, Zulip
  <2> QED  BY <2>1 DEF Service
<1> QED  BY <1>1, <1>2, <1>3, <1>4, <1>5, <1>6, ServicesAre

-----------------------------------------------------------------------------
(* What is sent, and what is known of it *)

Ops == {"tell", "open", "resolve", "list", "close"}
Targets == STRING \cup Nat \cup {"service"}
Requested == [op : Ops, of : Targets]
Sending == [alert : Alerts, resolved : BOOLEAN, requests : Seq(Requested)]
GeneratedKeys == {<<"generated", n>> : n \in Nat}
AnyKey == {NoKey} \cup GeneratedKeys \cup {<<"endpoint", e>> : e \in Endpoints}
Incident == [id : Nat, key : AnyKey, by : Alerts, closedBy : Alerts \cup {NoAlert}]

\* The types, as far as the steps rely on them.
Known ==
    /\ type \in Services /\ endpointOf \in [Alerts -> Endpoints] /\ tellsResolved \in BOOLEAN
    /\ memory \in [Alerts -> [triggered : BOOLEAN, key : AnyKey]]
    /\ rows \in [Alerts -> AnyKey \cup {NoRow}]
    /\ sends \in [Endpoints -> Sending \cup {Idle}]
    /\ told \in [Alerts -> SUBSET Audience]
    /\ incidents \in SUBSET Incident /\ keys \in 0..MaxKeys
    /\ confirmed \in SUBSET Alerts /\ mishaps \in [Alerts -> SUBSET {"another incident", "lost", "unreadable", "crash"}] /\ troubles \in 0..MaxTroubles

\* What is being sent is of an alert of the endpoint, which is no longer triggered when it is a resolution.
Placed ==
    \A e \in Endpoints : sends[e] # Idle =>
        /\ endpointOf[sends[e].alert] = e
        /\ sends[e].resolved => tellsResolved /\ ~memory[sends[e].alert].triggered

\* What is persisted is what is triggered.
Persisted == \A a \in Alerts : memory[a].triggered <=> rows[a] # NoRow

\* The requests of a service that is only told, and of one that keeps incidents.
Telling(requests) == \A n \in 1..Len(requests) : requests[n].op = "tell" /\ requests[n].of \in Audience
Opening(requests) == Len(requests) <= 1 /\ \A n \in 1..Len(requests) : requests[n].op = "open"
Closing(requests) ==
    IF Style \in {"issues", "tasks"}
    THEN (Len(requests) = 1 /\ requests[1].op = "list") \/ \A n \in 1..Len(requests) : requests[n].op = "close"
    ELSE \/ Len(requests) = 0
         \/ Len(requests) = 1 /\ requests[1].op = "resolve"
         \/ Style = "alias, created and closed" /\ Len(requests) = 2 /\ requests[1].op = "open" /\ requests[2].op = "resolve"
Planned ==
    \A e \in Endpoints : sends[e] # Idle =>
        IF Style \in Messages THEN Telling(sends[e].requests)
        ELSE IF sends[e].resolved THEN Closing(sends[e].requests) ELSE Opening(sends[e].requests)

\* The incidents are numbered as they are opened.
Numbered ==
    /\ IsFiniteSet(incidents) /\ \A i \in incidents : i.id \in 1..Cardinality(incidents)
    /\ \A i, j \in incidents : i.id = j.id => i = j

\* The key an alert has in memory, in the storage or at the service is its own, unless it is the endpoint's.
HasKey(a, k) == memory[a].key = k \/ rows[a] = k \/ \E i \in incidents : i.by = a /\ i.key = k
UsedKeys == {<<"generated", n>> : n \in 1..keys}
Keyed ==
    IF Style \in ByEndpoint THEN \A i \in incidents : i.key = <<"endpoint", endpointOf[i.by]>>
    ELSE /\ \A i \in incidents : i.key # NoKey
         /\ \A a \in Alerts, k \in AnyKey : HasKey(a, k) /\ k # NoKey =>
                k \in UsedKeys /\ \A b \in Alerts : HasKey(b, k) => b = a
\* A key is given before the first request is made.
Given ==
    Style \in {"deduplication", "fingerprint"} =>
        \A e \in Endpoints : sends[e] # Idle => memory[sends[e].alert].key # NoKey

\* A recipient has been told, or will be before the alert counts as triggered.
ToldAll ==
    Style \in Messages =>
        /\ incidents = {}
        /\ \A a \in Alerts : memory[a].triggered => told[a] = Audience
        /\ \A e \in Endpoints : sends[e] # Idle /\ ~sends[e].resolved =>
              \A t \in Audience : \/ t \in told[sends[e].alert]
                                 \/ \E n \in 1..Len(sends[e].requests) : sends[e].requests[n].of = t

\* An alert that shares its incidents with no other has one open when it is triggered, or is about to be.
HasOpen(a) == \E i \in incidents : i.by = a /\ i.closedBy = NoAlert
Alone(a) == \A b \in Alerts \ {a} : ~Shares(b, a)
OpenAll ==
    Style \notin Messages =>
        /\ \A a \in Alerts : Alone(a) /\ memory[a].triggered => HasOpen(a)
        /\ \A e \in Endpoints : /\ sends[e] # Idle /\ ~sends[e].resolved /\ Len(sends[e].requests) = 0
                                 /\ Alone(sends[e].alert)
                                 => HasOpen(sends[e].alert)

\* An incident is closed by its alert, or by one it shares its incidents with; what is to be closed next is such a one.
ClosedByTheirs == \A i \in incidents : i.closedBy \in {i.by, NoAlert} \/ Shares(i.closedBy, i.by)
OfOneOf(i, e) == \/ i.key = <<"endpoint", e>>
                 \/ Style = "tasks" /\ \E other \in Endpoints : <<e, other>> \in Contained /\ i.key = <<"endpoint", other>>
ToBeClosed ==
    \A e \in Endpoints : sends[e] # Idle => \A n \in 1..Len(sends[e].requests) :
        sends[e].requests[n].op = "close" =>
            /\ sends[e].requests[n].of \in 1..Cardinality(incidents)
            /\ \A i \in incidents : i.id = sends[e].requests[n].of => OfOneOf(i, e)

\* The program knows what an open incident is known by, unless something happened that makes it forget; a resolution
\* has a request left for each that it knows of; and one that was confirmed has left none open.
Remembered ==
    tellsResolved => \A i \in incidents : i.closedBy = NoAlert /\ MayForget(i.by) = {} => i.key = Address(i.by)
Closes(one, i) == one.op \in {"list", "resolve"} \/ (one.op = "close" /\ one.of = i.id)
Remaining ==
    \A e \in Endpoints : sends[e] # Idle /\ sends[e].resolved =>
        \A i \in incidents : i.closedBy = NoAlert /\ i.key = Address(sends[e].alert) =>
            \E n \in 1..Len(sends[e].requests) : Closes(sends[e].requests[n], i)
Confirmed ==
    /\ \A e \in Endpoints : sends[e] # Idle => sends[e].alert \notin confirmed
    /\ \A a \in confirmed : MayForget(a) # {} \/ \A i \in incidents : i.by = a => i.closedBy # NoAlert

\* The inductive invariant of the deliveries.
DeliveryInv ==
    /\ Known /\ Placed /\ Persisted /\ Planned /\ Numbered /\ Keyed /\ Given
    /\ ToldAll /\ OpenAll /\ ClosedByTheirs /\ ToBeClosed /\ Remembered /\ Remaining /\ Confirmed

-----------------------------------------------------------------------------
(* The requests of a send *)

\* Nothing is left of a sequence without elements.
LEMMA NothingLeft == ASSUME NEW S, NEW s \in Seq(S) PROVE s = <<>> <=> Len(s) = 0
OBVIOUS

\* What is left after the first request, and what is added to it.
LEMMA LeftAfterFirst ==
    ASSUME NEW s \in Seq(Requested), s # <<>>, NEW more \in Seq(Requested)
    PROVE  /\ Tail(s) \o more \in Seq(Requested)
           /\ Len(Tail(s) \o more) = (Len(s) - 1) + Len(more) /\ Len(s) \in Nat \ {0}
           /\ \A n \in 1..Len(s) - 1 : (Tail(s) \o more)[n] = s[n + 1]
           /\ \A n \in 1..Len(more) : (Tail(s) \o more)[(Len(s) - 1) + n] = more[n]
<1>1. /\ Tail(s) \in Seq(Requested) /\ Len(Tail(s)) = Len(s) - 1 /\ Len(s) \in Nat \ {0}
      /\ \A n \in 1..Len(s) - 1 : Tail(s)[n] = s[n + 1]
  OBVIOUS
<1> DEFINE t == Tail(s)
<1>2. t \in Seq(Requested) /\ Len(t) = Len(s) - 1 /\ \A n \in 1..Len(s) - 1 : t[n] = s[n + 1]  BY <1>1
<1> HIDE DEF t
<1>3. /\ t \o more \in Seq(Requested) /\ Len(t \o more) = Len(t) + Len(more)
      /\ \A n \in 1..Len(t) : (t \o more)[n] = t[n]
      /\ \A n \in 1..Len(more) : (t \o more)[Len(t) + n] = more[n]
  <2>1. /\ t \o more \in Seq(Requested) /\ Len(t \o more) = Len(t) + Len(more)
        /\ \A n \in 1..Len(t) + Len(more) : (t \o more)[n] = IF n <= Len(t) THEN t[n] ELSE more[n - Len(t)]
    BY <1>2, ConcatProperties
  <2> QED  BY <2>1, <1>2, LenProperties
<1> QED  BY <1>1, <1>2, <1>3 DEF t

\* A request has its parts.
LEMMA RequestHas ==
    ASSUME NEW op \in Ops, NEW of \in Targets
    PROVE  ServiceRequest(op, of) \in Requested /\ ServiceRequest(op, of).op = op /\ ServiceRequest(op, of).of = of
BY DEF ServiceRequest, Requested

\* A Send of one request.
Single(op) == <<ServiceRequest(op, "service")>>
\* It has its one request, which is of the service.
LEMMA OneRequest ==
    ASSUME NEW op \in Ops
    PROVE  /\ Single(op) \in Seq(Requested) /\ Len(Single(op)) = 1 /\ Single(op)[1].op = op /\ Single(op)[1].of = "service"
           /\ DOMAIN Single(op) = {1}
<1>1. "service" \in Targets  BY DEF Targets
<1>2. /\ ServiceRequest(op, "service") \in Requested /\ ServiceRequest(op, "service").op = op
      /\ ServiceRequest(op, "service").of = "service"
  BY <1>1, RequestHas
<1> DEFINE q == ServiceRequest(op, "service")
<1> HIDE DEF q
<1>3. <<q>> \in Seq(Requested)  BY <1>2 DEF q
<1>4. Len(<<q>>) = 1 /\ <<q>>[1] = q  OBVIOUS
<1>5. DOMAIN <<q>> = {1}  BY <1>3, <1>4, LenProperties
<1> QED  BY <1>2, <1>3, <1>4, <1>5 DEF Single, q

\* The requests that a send begins with, by the way in which the service is talked to.
LEMMA RequestsAre ==
    ASSUME NEW resolved \in BOOLEAN
    PROVE  /\ Style \in Repeats => Requests(resolved) = ToEachRecipient
           /\ Style = "message" => Requests(resolved) = Single("tell")
           /\ Style \in {"issues", "tasks"} => Requests(resolved) = IF resolved THEN Single("list") ELSE Single("open")
           /\ Style = "alias, created and closed" =>
                Requests(resolved) = IF resolved THEN <<ServiceRequest("open", "service"), ServiceRequest("resolve", "service")>>
                                     ELSE Single("open")
           /\ Style \in {"alias", "answered key", "deduplication", "fingerprint"} =>
                Requests(resolved) = IF resolved THEN Single("resolve") ELSE Single("open")
BY DEF Requests, Repeats, Single

\* The requests that are each made of a recipient.
LEMMA RecipientsAreTold ==
    LET n == Len(Recipients) IN
    /\ ToEachRecipient \in Seq(Requested) /\ Len(ToEachRecipient) = n /\ DOMAIN ToEachRecipient = 1..n
    /\ \A i \in 1..n : ToEachRecipient[i].op = "tell" /\ ToEachRecipient[i].of = Recipients[i]
<1> DEFINE n == Len(Recipients)
<1>1. Recipients \in Seq(STRING) /\ DOMAIN Recipients = 1..n /\ n \in Nat
  BY DeliveryAssumption, LenProperties
<1>2. \A i \in 1..n : Recipients[i] \in STRING  BY <1>1, ElementOfSeq
<1>3. "tell" \in Ops  BY DEF Ops
<1>4. \A i \in 1..n : /\ ServiceRequest("tell", Recipients[i]) \in Requested
                      /\ ServiceRequest("tell", Recipients[i]).op = "tell" /\ ServiceRequest("tell", Recipients[i]).of = Recipients[i]
  BY <1>2, <1>3, RequestHas DEF Targets
<1>5. DOMAIN ToEachRecipient = 1..n /\ \A i \in 1..n : ToEachRecipient[i] = ServiceRequest("tell", Recipients[i])
  BY <1>1 DEF ToEachRecipient
<1>6. ToEachRecipient \in [1..n -> Requested]  BY <1>1, <1>4 DEF ToEachRecipient
<1>7. ToEachRecipient \in Seq(Requested) /\ Len(ToEachRecipient) = n  BY <1>1, <1>5, <1>6
<1> HIDE DEF n
<1> QED  BY <1>4, <1>5, <1>7 DEF n

Finishing(requests) == \E n \in 1..Len(requests) : requests[n].op \in {"list", "resolve"}

\* The requests that a send begins with.
LEMMA RequestsPlanned ==
    ASSUME type \in Services, NEW resolved \in BOOLEAN
    PROVE  /\ Requests(resolved) \in Seq(Requested)
           /\ Style \in Messages => /\ Telling(Requests(resolved))
                                    /\ Audience = {Requests(resolved)[n].of : n \in 1..Len(Requests(resolved))}
           /\ Style \notin Messages => IF resolved THEN Closing(Requests(resolved)) /\ Finishing(Requests(resolved))
                                       ELSE Opening(Requests(resolved)) /\ Len(Requests(resolved)) > 0
<1>1. Style \in Styles  BY StyleIsOne DEF Style
<1> DEFINE no == FALSE
<1>2. no \in BOOLEAN  OBVIOUS
<1> HIDE DEF no
<1>8. \A op \in {"tell", "open", "resolve", "list"} :
         /\ Single(op) \in Seq(Requested) /\ Len(Single(op)) = 1 /\ Single(op)[1].op = op /\ Single(op)[1].of = "service"
         /\ DOMAIN Single(op) = {1}
  BY OneRequest DEF Ops
<1>9. Opening(Single("open")) /\ Single("open") \in Seq(Requested) /\ Len(Single("open")) > 0
  <2> DEFINE r == Single("open")
  <2>1. Len(r) = 1 /\ r[1].op = "open" /\ r \in Seq(Requested)  BY <1>8
  <2> HIDE DEF r
  <2>2. Opening(r)  BY <2>1 DEF Opening
  <2> QED  BY <2>1, <2>2 DEF r
<1>10. /\ Style \in {"issues", "tasks"} => Closing(Single("list"))
       /\ Single("list") \in Seq(Requested) /\ Finishing(Single("list"))
  <2> DEFINE r == Single("list")
  <2>1. Len(r) = 1 /\ r[1].op = "list" /\ r \in Seq(Requested)  BY <1>8
  <2> HIDE DEF r
  <2>2. Style \in {"issues", "tasks"} => Closing(r)  BY <2>1 DEF Closing
  <2>3. Finishing(r)  BY <2>1 DEF Finishing
  <2> QED  BY <2>1, <2>2, <2>3 DEF r
<1>11. /\ Style \notin {"issues", "tasks"} => Closing(Single("resolve"))
       /\ Single("resolve") \in Seq(Requested) /\ Finishing(Single("resolve"))
  <2> DEFINE r == Single("resolve")
  <2>1. Len(r) = 1 /\ r[1].op = "resolve" /\ r \in Seq(Requested)  BY <1>8
  <2> HIDE DEF r
  <2>2. Style \notin {"issues", "tasks"} => Closing(r)  BY <2>1 DEF Closing
  <2>3. Finishing(r)  BY <2>1 DEF Finishing
  <2> QED  BY <2>1, <2>2, <2>3 DEF r
<1>3. CASE Style \in Repeats
  <2>1. Requests(resolved) = ToEachRecipient /\ Requests(no) = ToEachRecipient  BY <1>2, <1>3, RequestsAre
  <2>2. Audience = {ToEachRecipient[n].of : n \in 1..Len(ToEachRecipient)}
    BY <2>1, RecipientsAreTold DEF Audience, no
  <2>3. Telling(ToEachRecipient)  BY <2>2, RecipientsAreTold DEF Telling
  <2> QED  BY <1>3, <2>1, <2>2, <2>3, RecipientsAreTold DEF Messages
<1>4. CASE Style = "message"
  <2>1. Requests(resolved) = Single("tell") /\ Requests(no) = Single("tell")  BY <1>2, <1>4, RequestsAre
  <2>2. Audience = {Single("tell")[n].of : n \in 1..Len(Single("tell"))}
    <3>1. DOMAIN Single("tell") = 1..Len(Single("tell"))  BY <1>8
    <3> QED  BY <2>1, <3>1 DEF Audience, no
  <2>3. Telling(Single("tell"))  BY <2>2, <1>8 DEF Telling
  <2> QED  BY <1>4, <2>1, <2>2, <2>3, <1>8 DEF Messages, Repeats
<1>5. CASE Style \in {"issues", "tasks"}
  <2>1. Requests(resolved) = IF resolved THEN Single("list") ELSE Single("open")  BY <1>5, RequestsAre
  <2>2. CASE resolved  BY <1>5, <2>1, <2>2, <1>9, <1>10, <1>11 DEF Messages, Repeats
  <2>3. CASE ~resolved  BY <1>5, <2>1, <2>3, <1>9, <1>10, <1>11 DEF Messages, Repeats
  <2> QED  BY <2>2, <2>3
<1>6. CASE Style = "alias, created and closed"
  <2>1. ~resolved => Requests(resolved) = Single("open")  BY <1>6, RequestsAre
  <2>2. ASSUME resolved
        PROVE  Requests(resolved) \in Seq(Requested) /\ Closing(Requests(resolved)) /\ Finishing(Requests(resolved))
    <3> DEFINE p == ServiceRequest("open", "service")
               q == ServiceRequest("resolve", "service")
    <3>1. Requests(resolved) = <<p, q>>  BY <1>6, <2>2, RequestsAre
    <3>2. "open" \in Ops /\ "resolve" \in Ops /\ "service" \in Targets  BY DEF Ops, Targets
    <3>3. p \in Requested /\ q \in Requested /\ p.op = "open" /\ q.op = "resolve"  BY <3>2, RequestHas
    <3> HIDE DEF p, q
    <3>4. <<p, q>> \in Seq(Requested) /\ Len(<<p, q>>) = 2 /\ <<p, q>>[1] = p /\ <<p, q>>[2] = q  BY <3>3
    <3> DEFINE both == <<p, q>>
    <3>5. both \in Seq(Requested) /\ Len(both) = 2 /\ both[1].op = "open" /\ both[2].op = "resolve"  BY <3>3, <3>4
    <3> HIDE DEF both
    <3>6. Closing(both)  BY <1>6, <3>5 DEF Closing
    <3>7. Finishing(both)
      <4>1. 2 \in 1..Len(both) /\ both[2].op \in {"list", "resolve"}  BY <3>5
      <4> QED  BY <4>1 DEF Finishing
    <3> QED  BY <3>1, <3>5, <3>6, <3>7 DEF both
  <2>3. CASE resolved  BY <1>6, <2>2, <2>3 DEF Messages, Repeats
  <2>4. CASE ~resolved  BY <1>6, <2>1, <2>4, <1>9, <1>10, <1>11 DEF Messages, Repeats
  <2> QED  BY <2>3, <2>4
<1>7. CASE Style \in {"alias", "answered key", "deduplication", "fingerprint"}
  <2>1. Requests(resolved) = IF resolved THEN Single("resolve") ELSE Single("open")  BY <1>7, RequestsAre
  <2>2. CASE resolved  BY <1>7, <2>1, <2>2, <1>9, <1>10, <1>11 DEF Messages, Repeats
  <2>3. CASE ~resolved  BY <1>7, <2>1, <2>3, <1>9, <1>10, <1>11 DEF Messages, Repeats
  <2> QED  BY <2>2, <2>3
<1> QED  BY <1>1, <1>3, <1>4, <1>5, <1>6, <1>7 DEF Styles, Messages, Repeats, ByEndpoint

-----------------------------------------------------------------------------
(* What does not change, and what a send goes on with *)

\* The service of a behaviour is always the same.
LEMMA ServiceStays ==
    ASSUME type' = type, endpointOf' = endpointOf
    PROVE  Style' = Style /\ Audience' = Audience
<1>1. Style' = Style  BY DEF Style
<1>2. Requests(FALSE)' = Requests(FALSE)  BY <1>1 DEF Requests, ToEachRecipient
<1> QED  BY <1>1, <1>2 DEF Audience

\* A send that is in progress.
LEMMA SendIsOne ==
    ASSUME Known
    PROVE  /\ Idle \notin Sending
           /\ \A e \in Endpoints : sends[e] # Idle <=> sends[e] \in Sending
           /\ \A e \in Endpoints : sends[e] # Idle =>
                /\ sends[e].alert \in Alerts /\ sends[e].resolved \in BOOLEAN /\ sends[e].requests \in Seq(Requested)
                /\ Len(sends[e].requests) \in Nat
<1>1. Idle \notin Sending  BY DeliveryAssumption DEF Idle, Sending
<1>2. \A e \in Endpoints : sends[e] # Idle <=> sends[e] \in Sending  BY <1>1 DEF Known
<1>3. \A x \in Sending : /\ x.alert \in Alerts /\ x.resolved \in BOOLEAN /\ x.requests \in Seq(Requested)
                         /\ Len(x.requests) \in Nat
  BY LenProperties DEF Sending
<1> QED  BY <1>1, <1>2, <1>3

\* Send goes on with the requests that are left, or is over.
LEMMA AdvanceIs ==
    ASSUME Known, NEW e \in Endpoints, sends[e] # Idle, sends[e].requests # <<>>,
           NEW outcome, NEW more \in Seq(Requested), sends' = Advance(e, outcome, more)
    PROVE  LET r == sends[e].requests IN
           /\ sends' \in [Endpoints -> Sending \cup {Idle}]
           /\ \A f \in Endpoints : f # e => sends'[f] = sends[f]
           /\ ~Succeeds(outcome) => sends'[e] = Idle
           /\ Succeeds(outcome) =>
                /\ sends'[e] \in Sending /\ sends'[e].alert = sends[e].alert /\ sends'[e].resolved = sends[e].resolved
                /\ Len(sends'[e].requests) = (Len(r) - 1) + Len(more)
                /\ \A n \in 1..Len(r) - 1 : sends'[e].requests[n] = r[n + 1]
                /\ \A n \in 1..Len(more) : sends'[e].requests[(Len(r) - 1) + n] = more[n]
<1> DEFINE r == sends[e].requests
           left == Tail(r) \o more
<1>1. sends[e] \in Sending /\ r \in Seq(Requested) /\ sends \in [Endpoints -> Sending \cup {Idle}]  BY SendIsOne DEF Known
<1>2. /\ left \in Seq(Requested) /\ Len(left) = (Len(r) - 1) + Len(more)
      /\ \A n \in 1..Len(r) - 1 : left[n] = r[n + 1]
      /\ \A n \in 1..Len(more) : left[(Len(r) - 1) + n] = more[n]
  BY <1>1, LeftAfterFirst
<1>3. ~Succeeds(outcome) => sends' = [sends EXCEPT ![e] = Idle]  BY DEF Advance
<1>4. Succeeds(outcome) => sends' = [sends EXCEPT ![e] = [@ EXCEPT !.requests = left]]  BY DEF Advance
<1>5. [sends[e] EXCEPT !.requests = left] \in Sending
      /\ [sends[e] EXCEPT !.requests = left].requests = left
      /\ [sends[e] EXCEPT !.requests = left].alert = sends[e].alert
      /\ [sends[e] EXCEPT !.requests = left].resolved = sends[e].resolved
  <2> HIDE DEF left
  <2> QED  BY <1>1, <1>2 DEF Sending
<1> DEFINE next == [sends[e] EXCEPT !.requests = left]
<1> HIDE DEF next, left
<1>6. Succeeds(outcome) => sends' = [sends EXCEPT ![e] = next]  BY <1>4 DEF next
<1>7. next \in Sending /\ next.requests = left /\ next.alert = sends[e].alert /\ next.resolved = sends[e].resolved
  BY <1>5 DEF next
<1> QED  BY <1>1, <1>2, <1>3, <1>6, <1>7

\* What an alert is known by is a key.
LEMMA KeysAreKeys ==
    ASSUME Known
    PROVE  /\ NewKey \in AnyKey /\ NewKey # NoKey /\ NoKey \in AnyKey /\ NoRow \notin AnyKey /\ NewKey \notin UsedKeys
           /\ \A e \in Endpoints : <<"endpoint", e>> \in AnyKey /\ <<"endpoint", e>> # NoKey
           /\ \A e, f \in Endpoints : <<"endpoint", e>> = <<"endpoint", f>> => e = f
           /\ \A a \in Alerts : Address(a) \in AnyKey
<1>1. keys \in Nat /\ keys + 1 \in Nat
  <2>1. keys \in 0..MaxKeys /\ MaxKeys \in Nat  BY DeliveryAssumption DEF Known
  <2> QED  BY <2>1
<1>2. NewKey \in AnyKey
  <2>1. \A n \in Nat : <<"generated", n>> \in GeneratedKeys  BY DEF GeneratedKeys
  <2>2. <<"generated", keys + 1>> \in GeneratedKeys  BY <1>1, <2>1
  <2> QED  BY <2>2 DEF AnyKey, NewKey
<1>3. NewKey # NoKey  BY DEF NewKey, NoKey
<1>4. NoKey \in AnyKey  BY DEF AnyKey
<1>5. NoRow \notin AnyKey  BY DEF AnyKey, NoRow, NoKey, GeneratedKeys
<1>6. NewKey \notin UsedKeys  BY <1>1 DEF NewKey, UsedKeys
<1>7. \A e \in Endpoints : <<"endpoint", e>> \in AnyKey /\ <<"endpoint", e>> # NoKey  BY DEF AnyKey, NoKey
<1>8. \A e, f \in Endpoints : <<"endpoint", e>> = <<"endpoint", f>> => e = f  OBVIOUS
<1>9. \A a \in Alerts : Address(a) \in AnyKey  BY <1>7 DEF Known, Address
<1> QED  BY <1>2, <1>3, <1>4, <1>5, <1>6, <1>7, <1>8, <1>9

-----------------------------------------------------------------------------
(* A send begins *)

\* The keys stay apart when at most one alert is given another one, a new one.
LEMMA KeysStayApart ==
    ASSUME Known, Known', Keyed, type' = type, endpointOf' = endpointOf, NEW who \in Alerts,
           keys' = keys \/ keys' = keys + 1,
           \A a \in Alerts, k \in AnyKey : HasKey(a, k)' /\ k # NoKey => HasKey(a, k) \/ (a = who /\ keys' = keys + 1 /\ k = NewKey),
           \A i \in incidents' : i.key # NoKey,
           Style \in ByEndpoint => \A i \in incidents' : i.key = <<"endpoint", endpointOf[i.by]>>
    PROVE  Keyed'
<1>1. Style' = Style  BY ServiceStays
<1>2. CASE Style \in ByEndpoint  BY <1>1, <1>2 DEF Keyed
<1>3. CASE Style \notin ByEndpoint
  <2>1. \A a \in Alerts, k \in AnyKey : HasKey(a, k) /\ k # NoKey => k \in UsedKeys /\ \A b \in Alerts : HasKey(b, k) => b = a
    BY <1>3 DEF Keyed
  <2>2. UsedKeys \subseteq UsedKeys' /\ (keys' = keys + 1 => NewKey \in UsedKeys')
    <3>1. keys \in 0..MaxKeys /\ MaxKeys \in Nat  BY DeliveryAssumption DEF Known
    <3>2. keys \in Nat /\ keys' \in Nat /\ keys <= keys'  BY <3>1
    <3>3. \A n \in 1..keys : n \in 1..keys'  BY <3>2
    <3>4. UsedKeys' = {<<"generated", n>> : n \in 1..keys'}  BY DEF UsedKeys
    <3>5. UsedKeys \subseteq UsedKeys'  BY <3>3, <3>4 DEF UsedKeys
    <3>6. ASSUME keys' = keys + 1 PROVE NewKey \in UsedKeys'
      <4>1. keys + 1 \in 1..keys'  BY <3>2, <3>6
      <4> QED  BY <3>4, <4>1 DEF NewKey
    <3> QED  BY <3>5, <3>6
  <2>3. NewKey \notin UsedKeys  BY KeysAreKeys
  <2>4. ASSUME NEW a \in Alerts, NEW k \in AnyKey, HasKey(a, k)', k # NoKey
        PROVE  k \in UsedKeys' /\ \A b \in Alerts : HasKey(b, k)' => b = a
    <3>1. HasKey(a, k) \/ (a = who /\ keys' = keys + 1 /\ k = NewKey)  BY <2>4
    <3>2. \A b \in Alerts : HasKey(b, k)' => HasKey(b, k) \/ (b = who /\ keys' = keys + 1 /\ k = NewKey)  BY <2>4
    <3>3. CASE HasKey(a, k)  BY <3>2, <3>3, <2>1, <2>2, <2>3, <2>4
    <3>4. CASE a = who /\ keys' = keys + 1 /\ k = NewKey  BY <3>2, <3>4, <2>1, <2>2, <2>3, <2>4
    <3> QED  BY <3>1, <3>3, <3>4
  <2> QED  BY <1>1, <1>3, <2>4 DEF Keyed
<1> QED  BY <1>2, <1>3

\* What a send that begins does to the memory and to the sends.
LEMMA BeginIs ==
    ASSUME Known, NEW a \in Alerts, NEW resolved \in BOOLEAN, Begin(a, resolved), type' = type
    PROVE  LET e == endpointOf[a]
               sent == [alert |-> a, resolved |-> resolved, requests |-> Requests(resolved)]
           IN
           /\ e \in Endpoints /\ sends[e] = Idle /\ confirmed' = confirmed \ {a}
           /\ memory' \in [Alerts -> [triggered : BOOLEAN, key : AnyKey]]
           /\ \A b \in Alerts : b # a => memory'[b] = memory[b]
           /\ memory'[a].triggered = (memory[a].triggered /\ ~resolved)
           /\ \/ memory'[a].key = memory[a].key /\ keys' = keys
              \/ memory[a].key = NoKey /\ memory'[a].key = NewKey /\ keys' = keys + 1 /\ Style \in {"deduplication", "fingerprint"}
           /\ keys' \in 0..MaxKeys
           /\ sends' \in [Endpoints -> Sending \cup {Idle}]
           /\ \A f \in Endpoints : f # e => sends'[f] = sends[f]
           /\ IF resolved /\ ~tellsResolved THEN sends'[e] = Idle
              ELSE sends'[e] = sent /\ sent \in Sending /\ (Style \in {"deduplication", "fingerprint"} => memory'[a].key # NoKey)
<1> DEFINE e == endpointOf[a]
           sent == [alert |-> a, resolved |-> resolved, requests |-> Requests(resolved)]
<1>1. e \in Endpoints /\ sends[e] = Idle /\ confirmed' = confirmed \ {a}  BY DEF Begin, Known
<1>2. sent \in Sending  BY RequestsPlanned DEF Known, Sending
<1> HIDE DEF sent
<1>3. sends' = IF resolved /\ ~tellsResolved THEN sends ELSE [sends EXCEPT ![e] = sent]  BY DEF Begin, sent
<1>4. /\ sends' \in [Endpoints -> Sending \cup {Idle}]
      /\ \A f \in Endpoints : f # e => sends'[f] = sends[f]
      /\ IF resolved /\ ~tellsResolved THEN sends'[e] = Idle ELSE sends'[e] = sent
  BY <1>1, <1>2, <1>3 DEF Known
<1>5. NewKey \in AnyKey /\ NewKey # NoKey  BY KeysAreKeys
<1>6. memory \in [Alerts -> [triggered : BOOLEAN, key : AnyKey]] /\ keys \in 0..MaxKeys  BY DEF Known
<1>7. CASE GivesKey(a) /\ (resolved => tellsResolved)
  <2>1. memory' = [memory EXCEPT ![a] = [triggered |-> @.triggered /\ ~resolved, key |-> NewKey]] /\ keys' = keys + 1 /\ keys < MaxKeys
    BY <1>7 DEF Begin
  <2>2. memory[a].key = NoKey /\ Style \in {"deduplication", "fingerprint"}  BY <1>7 DEF GivesKey
  <2>3. /\ memory' \in [Alerts -> [triggered : BOOLEAN, key : AnyKey]]
        /\ \A b \in Alerts : b # a => memory'[b] = memory[b]
        /\ memory'[a].triggered = (memory[a].triggered /\ ~resolved)
        /\ memory'[a].key = NewKey
    BY <1>5, <1>6, <2>1
  <2>4. keys' \in 0..MaxKeys  BY <1>6, <2>1, DeliveryAssumption
  <2> QED  BY <1>1, <1>2, <1>4, <1>5, <2>1, <2>2, <2>3, <2>4 DEF sent
<1>8. CASE ~(GivesKey(a) /\ (resolved => tellsResolved))
  <2>1. memory' = [memory EXCEPT ![a].triggered = @ /\ ~resolved] /\ keys' = keys  BY <1>8 DEF Begin
  <2>2. /\ memory' \in [Alerts -> [triggered : BOOLEAN, key : AnyKey]]
        /\ \A b \in Alerts : b # a => memory'[b] = memory[b]
        /\ memory'[a].triggered = (memory[a].triggered /\ ~resolved)
        /\ memory'[a].key = memory[a].key
    BY <1>6, <2>1
  <2>3. (resolved => tellsResolved) /\ Style \in {"deduplication", "fingerprint"} => memory[a].key # NoKey  BY <1>8 DEF GivesKey
  <2> QED  BY <1>1, <1>2, <1>4, <1>6, <2>1, <2>2, <2>3 DEF sent
<1> QED  BY <1>7, <1>8

\* A send that begins, with what is deleted when it is of a resolution.
LEMMA BeginKeeps ==
    ASSUME DeliveryInv, NEW a \in Alerts, NEW resolved \in BOOLEAN, Begin(a, resolved),
           UNCHANGED <<type, endpointOf, tellsResolved, incidents, mishaps, troubles>>,
           rows' = IF resolved THEN [rows EXCEPT ![a] = NoRow] ELSE rows,
           told' = IF resolved THEN [told EXCEPT ![a] = {}] ELSE told
    PROVE  DeliveryInv'
<1> DEFINE e == endpointOf[a]
           r == Requests(resolved)
           sent == [alert |-> a, resolved |-> resolved, requests |-> r]
<1>1. Known /\ Placed /\ Persisted /\ Planned /\ Numbered /\ Keyed /\ Given /\ ToldAll /\ OpenAll /\ ClosedByTheirs
      /\ ToBeClosed /\ Remembered /\ Remaining /\ Confirmed
  BY DEF DeliveryInv
<1>2. /\ e \in Endpoints /\ sends[e] = Idle /\ confirmed' = confirmed \ {a}
      /\ memory' \in [Alerts -> [triggered : BOOLEAN, key : AnyKey]]
      /\ \A b \in Alerts : b # a => memory'[b] = memory[b]
      /\ memory'[a].triggered = (memory[a].triggered /\ ~resolved)
      /\ \/ memory'[a].key = memory[a].key /\ keys' = keys
         \/ memory[a].key = NoKey /\ memory'[a].key = NewKey /\ keys' = keys + 1 /\ Style \in {"deduplication", "fingerprint"}
      /\ keys' \in 0..MaxKeys
      /\ sends' \in [Endpoints -> Sending \cup {Idle}]
      /\ \A f \in Endpoints : f # e => sends'[f] = sends[f]
      /\ IF resolved /\ ~tellsResolved THEN sends'[e] = Idle
         ELSE sends'[e] = sent /\ sent \in Sending /\ (Style \in {"deduplication", "fingerprint"} => memory'[a].key # NoKey)
  BY <1>1, BeginIs
<1>3. Style' = Style /\ Audience' = Audience  BY ServiceStays
<1>4. /\ r \in Seq(Requested) /\ Len(r) \in Nat
      /\ Style \in Messages => Telling(r) /\ Audience = {r[n].of : n \in 1..Len(r)}
      /\ Style \notin Messages => IF resolved THEN Closing(r) /\ Finishing(r) ELSE Opening(r) /\ Len(r) > 0
  BY <1>1, RequestsPlanned, LenProperties DEF Known
<1>5. \A f \in Endpoints : sends[f] # Idle => sends[f].alert \in Alerts /\ endpointOf[sends[f].alert] = f
                                              /\ (f # e => sends[f].alert # a)
  BY <1>1, SendIsOne DEF Placed
<1> HIDE DEF r
<1>6. sent.alert = a /\ sent.resolved = resolved /\ sent.requests = r  OBVIOUS
<1> HIDE DEF sent
<1>7. UNCHANGED <<type, endpointOf, tellsResolved, incidents, mishaps, troubles>>  OBVIOUS
<1>8. Known'
  <2>1. rows' \in [Alerts -> AnyKey \cup {NoRow}]  BY <1>1 DEF Known
  <2>2. told' \in [Alerts -> SUBSET Audience]  BY <1>1 DEF Known
  <2>3. confirmed' \in SUBSET Alerts  BY <1>1, <1>2 DEF Known
  <2> QED  BY <1>1, <1>2, <1>3, <1>7, <2>1, <2>2, <2>3 DEF Known
<1>9. Placed'
  <2>1. ASSUME NEW f \in Endpoints, sends'[f] # Idle
        PROVE  endpointOf[sends'[f].alert] = f /\ (sends'[f].resolved => tellsResolved /\ ~memory'[sends'[f].alert].triggered)
    <3>1. CASE f = e  BY <1>2, <1>6, <2>1, <3>1
    <3>2. CASE f # e  BY <1>1, <1>2, <1>5, <2>1, <3>2 DEF Placed
    <3> QED  BY <3>1, <3>2
  <2> QED  BY <1>7, <2>1 DEF Placed
<1>10. Persisted'
  <2>1. rows \in [Alerts -> AnyKey \cup {NoRow}]  BY <1>1 DEF Known
  <2>2. \A b \in Alerts : rows'[b] = IF resolved /\ b = a THEN NoRow ELSE rows[b]  BY <2>1
  <2> QED  BY <1>1, <1>2, <2>2 DEF Persisted
<1>11. Planned'
  <2>1. ASSUME NEW f \in Endpoints, sends'[f] # Idle
        PROVE  IF Style \in Messages THEN Telling(sends'[f].requests)
               ELSE IF sends'[f].resolved THEN Closing(sends'[f].requests) ELSE Opening(sends'[f].requests)
    <3>1. CASE f = e  BY <1>2, <1>4, <1>6, <2>1, <3>1
    <3>2. CASE f # e  BY <1>1, <1>2, <2>1, <3>2 DEF Planned
    <3> QED  BY <3>1, <3>2
  <2> QED  BY <1>3, <2>1 DEF Planned, Telling, Opening, Closing
<1>12. Numbered'  BY <1>1, <1>7 DEF Numbered
<1>13. Keyed'
  <2>1. keys' = keys \/ keys' = keys + 1  BY <1>2
  <2>2. ASSUME NEW b \in Alerts, NEW k \in AnyKey, HasKey(b, k)', k # NoKey
        PROVE  HasKey(b, k) \/ (b = a /\ keys' = keys + 1 /\ k = NewKey)
    <3>1. memory'[b].key = k \/ rows'[b] = k \/ \E i \in incidents : i.by = b /\ i.key = k  BY <1>7, <2>2 DEF HasKey
    <3>2. rows'[b] = k => rows[b] = k  BY <1>1, KeysAreKeys DEF Known
    <3>3. memory'[b].key = k => memory[b].key = k \/ (b = a /\ keys' = keys + 1 /\ k = NewKey)  BY <1>2
    <3> QED  BY <3>1, <3>2, <3>3 DEF HasKey
  <2>3. \A i \in incidents' : i.key # NoKey
    <3>1. CASE Style \in ByEndpoint  BY <1>1, <1>7, <3>1, KeysAreKeys DEF Keyed, Known, Incident
    <3>2. CASE Style \notin ByEndpoint  BY <1>1, <1>7, <3>2 DEF Keyed
    <3> QED  BY <3>1, <3>2
  <2>4. Style \in ByEndpoint => \A i \in incidents' : i.key = <<"endpoint", endpointOf[i.by]>>  BY <1>1, <1>7 DEF Keyed
  <2> QED  BY <1>1, <1>7, <1>8, <2>1, <2>2, <2>3, <2>4, KeysStayApart
<1>14. Given'
  <2>1. ASSUME Style \in {"deduplication", "fingerprint"}, NEW f \in Endpoints, sends'[f] # Idle
        PROVE  memory'[sends'[f].alert].key # NoKey
    <3>1. CASE f = e  BY <1>2, <1>6, <2>1, <3>1
    <3>2. CASE f # e  BY <1>1, <1>2, <1>5, <2>1, <3>2 DEF Given
    <3> QED  BY <3>1, <3>2
  <2> QED  BY <1>3, <2>1 DEF Given
<1>15. ToldAll'
  <2>1. ASSUME Style \in Messages
        PROVE  /\ incidents = {} /\ \A b \in Alerts : memory'[b].triggered => told'[b] = Audience
               /\ \A f \in Endpoints : sends'[f] # Idle /\ ~sends'[f].resolved =>
                     \A t \in Audience : \/ t \in told'[sends'[f].alert]
                                         \/ \E n \in 1..Len(sends'[f].requests) : sends'[f].requests[n].of = t
    <3>1. told \in [Alerts -> SUBSET Audience]  BY <1>1 DEF Known
    <3>2. \A b \in Alerts : told'[b] = IF resolved /\ b = a THEN {} ELSE told[b]  BY <3>1
    <3>3. \A b \in Alerts : memory'[b].triggered => told'[b] = Audience  BY <1>1, <1>2, <2>1, <3>2 DEF ToldAll
    <3>4. ASSUME NEW f \in Endpoints, sends'[f] # Idle, ~sends'[f].resolved, NEW t \in Audience
          PROVE  t \in told'[sends'[f].alert] \/ \E n \in 1..Len(sends'[f].requests) : sends'[f].requests[n].of = t
      <4>1. CASE f = e
        <5>1. sends'[f] = sent  BY <1>2, <3>4, <4>1
        <5>2. \E n \in 1..Len(r) : r[n].of = t  BY <1>4, <2>1, <3>4
        <5> QED  BY <1>6, <5>1, <5>2
      <4>2. CASE f # e  BY <1>1, <1>2, <1>5, <2>1, <3>2, <3>4, <4>2 DEF ToldAll
      <4> QED  BY <4>1, <4>2
    <3> QED  BY <1>1, <2>1, <3>3, <3>4 DEF ToldAll
  <2> QED  BY <1>3, <1>7, <2>1 DEF ToldAll
<1>16. OpenAll'
  <2>1. \A b \in Alerts : Alone(b)' <=> Alone(b)  BY <1>3, <1>7 DEF Alone, Shares
  <2>2. \A b \in Alerts : HasOpen(b)' <=> HasOpen(b)  BY <1>7 DEF HasOpen
  <2>3. ASSUME Style \notin Messages, NEW f \in Endpoints, sends'[f] # Idle, ~sends'[f].resolved, Len(sends'[f].requests) = 0
        PROVE  sends'[f].alert \in Alerts /\ (Alone(sends'[f].alert) => HasOpen(sends'[f].alert))
    <3>1. CASE f = e  BY <1>2, <1>4, <1>6, <2>3, <3>1
    <3>2. CASE f # e  BY <1>1, <1>2, <1>5, <2>3, <3>2 DEF OpenAll
    <3> QED  BY <3>1, <3>2
  <2>4. ASSUME Style \notin Messages, NEW b \in Alerts, memory'[b].triggered, Alone(b)  PROVE HasOpen(b)
    BY <1>1, <1>2, <2>4 DEF OpenAll
  <2>5. Style \notin Messages => \A b \in Alerts : Alone(b)' /\ memory'[b].triggered => HasOpen(b)'  BY <2>1, <2>2, <2>4
  <2>6. ASSUME Style \notin Messages, NEW f \in Endpoints, sends'[f] # Idle, ~sends'[f].resolved, Len(sends'[f].requests) = 0,
               Alone(sends[f].alert)'
        PROVE  HasOpen(sends[f].alert)'
    <3> PICK b \in Alerts : b = sends'[f].alert  BY <2>3, <2>6
    <3>1. Alone(b)'  BY <2>6
    <3>2. HasOpen(b)'  BY <2>1, <2>2, <2>3, <2>6, <3>1
    <3> QED  BY <3>2
  <2> QED  BY <1>3, <2>5, <2>6 DEF OpenAll
<1>17. ClosedByTheirs'  BY <1>1, <1>3, <1>7 DEF ClosedByTheirs, Shares
<1>18. ToBeClosed'
  <2>1. ASSUME NEW f \in Endpoints, sends'[f] # Idle, NEW n \in 1..Len(sends'[f].requests), sends'[f].requests[n].op = "close"
        PROVE  /\ sends'[f].requests[n].of \in 1..Cardinality(incidents)
               /\ \A i \in incidents : i.id = sends'[f].requests[n].of => OfOneOf(i, f)
    <3>1. CASE f = e
      <4>1. sends'[f].requests = r  BY <1>2, <1>6, <2>1, <3>1
      <4>2. r[n].op # "close"
        <5>1. n \in 1..Len(r)  BY <2>1, <4>1
        <5>2. CASE Style \in Messages  BY <1>4, <5>1, <5>2 DEF Telling
        <5>3. CASE Style \notin Messages /\ ~resolved  BY <1>4, <5>1, <5>3 DEF Opening
        <5>4. CASE Style \notin Messages /\ resolved
          <6>1. PICK m \in 1..Len(r) : r[m].op \in {"list", "resolve"}  BY <1>4, <5>4 DEF Finishing
          <6>2. Closing(r) /\ Len(r) \in Nat  BY <1>4, <5>4
          <6>3. CASE Style \in {"issues", "tasks"}
            <7>1. (Len(r) = 1 /\ r[1].op = "list") \/ \A k \in 1..Len(r) : r[k].op = "close"  BY <6>2, <6>3 DEF Closing
            <7>2. ~\A k \in 1..Len(r) : r[k].op = "close"  BY <6>1
            <7>3. Len(r) = 1 => n = 1  BY <5>1
            <7> QED  BY <7>1, <7>2, <7>3
          <6>4. CASE Style \notin {"issues", "tasks"}
            <7>1. \/ Len(r) = 0
                  \/ Len(r) = 1 /\ r[1].op = "resolve"
                  \/ Len(r) = 2 /\ r[1].op = "open" /\ r[2].op = "resolve"
              BY <6>2, <6>4 DEF Closing
            <7>2. Len(r) # 0 /\ (Len(r) = 1 => n = 1) /\ (Len(r) = 2 => n = 1 \/ n = 2)
              <8> DEFINE l == Len(r)
              <8>1. n \in 1..l /\ l \in Nat  BY <5>1, <6>2
              <8> HIDE DEF l
              <8>2. l # 0 /\ (l = 1 => n = 1) /\ (l = 2 => n = 1 \/ n = 2)  BY <8>1
              <8> QED  BY <8>2 DEF l
            <7> QED  BY <7>1, <7>2
          <6> QED  BY <6>3, <6>4
        <5> QED  BY <5>2, <5>3, <5>4
      <4> QED  BY <2>1, <4>1, <4>2
    <3>2. CASE f # e  BY <1>1, <1>2, <2>1, <3>2 DEF ToBeClosed
    <3> QED  BY <3>1, <3>2
  <2> QED  BY <1>3, <1>7, <2>1 DEF ToBeClosed, OfOneOf
<1>19. Remembered'
  <2>1. ASSUME tellsResolved, NEW i \in incidents, i.closedBy = NoAlert, MayForget(i.by)' = {}
        PROVE  i.key = Address(i.by)'
    <3>1. i.by \in Alerts  BY <1>1 DEF Known, Incident
    <3>2. MayForget(i.by) = {}  BY <1>3, <1>7, <2>1 DEF MayForget
    <3>3. i.key = Address(i.by)  BY <1>1, <2>1, <3>2 DEF Remembered
    <3>4. CASE Style \in ByEndpoint  BY <1>3, <1>7, <3>3, <3>4 DEF Address
    <3>5. CASE Style \notin ByEndpoint
      <4>1. i.key = memory[i.by].key /\ i.key # NoKey  BY <1>1, <3>3, <3>5 DEF Address, Keyed
      <4>2. memory'[i.by].key = memory[i.by].key  BY <1>2, <3>1, <4>1
      <4> QED  BY <1>3, <3>5, <4>1, <4>2 DEF Address
    <3> QED  BY <3>4, <3>5
  <2> QED  BY <1>7, <2>1 DEF Remembered
<1>20. Remaining'
  <2>1. ASSUME NEW f \in Endpoints, sends'[f] # Idle, sends'[f].resolved,
               NEW i \in incidents, i.closedBy = NoAlert, i.key = Address(sends[f].alert)'
        PROVE  \E n \in 1..Len(sends'[f].requests) : Closes(sends'[f].requests[n], i)
    <3>1. CASE f = e
      <4>1. sends'[f].requests = r /\ resolved  BY <1>2, <1>6, <2>1, <3>1
      <4>2. Style \notin Messages  BY <1>1, <2>1 DEF ToldAll
      <4>3. Finishing(r)  BY <1>4, <4>1, <4>2
      <4> QED  BY <4>1, <4>3 DEF Finishing, Closes
    <3>2. CASE f # e
      <4>1. sends'[f] = sends[f] /\ memory'[sends[f].alert] = memory[sends[f].alert]  BY <1>2, <1>5, <2>1, <3>2
      <4>2. i.key = Address(sends[f].alert)  BY <1>3, <1>7, <2>1, <4>1 DEF Address
      <4> QED  BY <1>1, <2>1, <4>1, <4>2 DEF Remaining
    <3> QED  BY <3>1, <3>2
  <2> QED  BY <1>7, <2>1 DEF Remaining, Closes
<1>21. Confirmed'
  <2>1. ASSUME NEW f \in Endpoints, sends'[f] # Idle  PROVE sends'[f].alert \notin confirmed'
    <3>1. CASE f = e  BY <1>2, <1>6, <2>1, <3>1
    <3>2. CASE f # e  BY <1>1, <1>2, <2>1, <3>2 DEF Confirmed
    <3> QED  BY <3>1, <3>2
  <2>2. \A b \in confirmed' : MayForget(b)' # {} \/ \A i \in incidents : i.by = b => i.closedBy # NoAlert
    BY <1>1, <1>2, <1>3, <1>7 DEF Confirmed, MayForget
  <2> QED  BY <1>7, <2>1, <2>2 DEF Confirmed
<1> QED  BY <1>8, <1>9, <1>10, <1>11, <1>12, <1>13, <1>14, <1>15, <1>16, <1>17, <1>18, <1>19, <1>20, <1>21 DEF DeliveryInv

-----------------------------------------------------------------------------
(* The incidents that are opened and closed *)

\* What opening an incident does to the others: nothing.
LEMMA OpenedIs ==
    ASSUME Known, Numbered, NEW a \in Alerts, NEW key \in AnyKey, NEW new, new = Opened(a, key)
    PROVE  /\ new \in SUBSET Incident /\ incidents \subseteq new
           /\ \A i \in new : i \in incidents \/ (i.by = a /\ i.key = key /\ i.closedBy = NoAlert /\ i.id = Cardinality(incidents) + 1)
           /\ \E i \in new : i.key = key /\ i.closedBy = NoAlert
           /\ IsFiniteSet(new) /\ \A i \in new : i.id \in 1..Cardinality(new)
           /\ \A i, j \in new : i.id = j.id => i = j
           /\ Cardinality(incidents) \in Nat /\ Cardinality(new) \in Nat /\ Cardinality(incidents) <= Cardinality(new)
<1> DEFINE n == Cardinality(incidents)
           one == [id |-> n + 1, key |-> key, by |-> a, closedBy |-> NoAlert]
<1>1. incidents \in SUBSET Incident  BY DEF Known
<1>2. IsFiniteSet(incidents) /\ n \in Nat /\ (\A i \in incidents : i.id \in 1..n) /\ \A i, j \in incidents : i.id = j.id => i = j
  BY FS_CardinalityType DEF Numbered
<1>3. one \in Incident /\ one.id = n + 1 /\ one.key = key /\ one.by = a /\ one.closedBy = NoAlert  BY <1>2 DEF Incident
<1>4. (new = incidents /\ \E i \in incidents : i.key = key /\ i.closedBy = NoAlert) \/ new = incidents \cup {one}
  BY DEF Opened
<1> HIDE DEF one, n
<1>5. CASE new = incidents /\ \E i \in incidents : i.key = key /\ i.closedBy = NoAlert
  BY <1>1, <1>2, <1>5 DEF n
<1>6. CASE new = incidents \cup {one}
  <2>1. one \notin incidents  BY <1>2, <1>3
  <2>2. IsFiniteSet(new) /\ Cardinality(new) = n + 1  BY <1>2, <1>6, <2>1, FS_AddElement DEF n
  <2>3. \A i \in new : i \in incidents \/ i = one  BY <1>6
  <2>4. \A i \in new : i.id \in 1..n + 1  BY <1>2, <1>3, <2>3
  <2>5. \A i, j \in new : i.id = j.id => i = j  BY <1>2, <1>3, <2>3
  <2>6. \E i \in new : i.key = key /\ i.closedBy = NoAlert  BY <1>3, <1>6
  <2>7. new \in SUBSET Incident /\ incidents \subseteq new  BY <1>1, <1>3, <1>6
  <2>8. \A i \in new : i \in incidents \/ (i.by = a /\ i.key = key /\ i.closedBy = NoAlert /\ i.id = n + 1)  BY <1>3, <2>3
  <2>9. n + 1 \in Nat /\ n <= n + 1  BY <1>2
  <2> QED  BY <1>2, <2>2, <2>4, <2>5, <2>6, <2>7, <2>8, <2>9 DEF n
<1> QED  BY <1>4, <1>5, <1>6

\* What closing incidents does to them.
LEMMA ClosedIs ==
    ASSUME Known, Numbered, NEW a \in Alerts, NEW which, NEW new, new = Closed(a, which)
    PROVE  /\ new \in SUBSET Incident
           /\ \A j \in new : \E i \in incidents :
                /\ j.id = i.id /\ j.key = i.key /\ j.by = i.by
                /\ IF i \in which /\ i.closedBy = NoAlert THEN j.closedBy = a ELSE j = i
           /\ \A i \in incidents : (i \notin which \/ i.closedBy # NoAlert) => i \in new
           /\ IsFiniteSet(new) /\ \A i \in new : i.id \in 1..Cardinality(new)
           /\ \A i, j \in new : i.id = j.id => i = j
           /\ Cardinality(new) = Cardinality(incidents)
<1> DEFINE f == [i \in incidents |-> IF i \in which /\ i.closedBy = NoAlert THEN [i EXCEPT !.closedBy = a] ELSE i]
<1>1. incidents \in SUBSET Incident  BY DEF Known
<1>2. IsFiniteSet(incidents) /\ (\A i \in incidents : i.id \in 1..Cardinality(incidents))
      /\ \A i, j \in incidents : i.id = j.id => i = j
  BY DEF Numbered
<1>3. \A i \in incidents : /\ f[i] \in Incident /\ f[i].id = i.id /\ f[i].key = i.key /\ f[i].by = i.by
                           /\ IF i \in which /\ i.closedBy = NoAlert THEN f[i].closedBy = a ELSE f[i] = i
  <2>1. ASSUME NEW i \in incidents
        PROVE  LET c == [i EXCEPT !.closedBy = a]
               IN c \in Incident /\ c.id = i.id /\ c.key = i.key /\ c.by = i.by /\ c.closedBy = a
    BY <1>1 DEF Incident
  <2> QED  BY <1>1, <2>1
<1>4. new = {f[i] : i \in incidents}  BY DEF Closed
<1>5. DOMAIN f = incidents /\ f \in [incidents -> new]  BY <1>4
<1> HIDE DEF f
<1>6. f \in Surjection(incidents, new)  BY <1>4, <1>5 DEF Surjection
<1>7. f \in Injection(incidents, new)  BY <1>2, <1>3, <1>5 DEF Injection, IsInjective
<1>8. IsFiniteSet(new) /\ Cardinality(new) = Cardinality(incidents)  BY <1>2, <1>6, <1>7, FS_Surjection
<1>9. \A j \in new : \E i \in incidents : j = f[i]  BY <1>4
<1>10. \A i \in new : i.id \in 1..Cardinality(new)  BY <1>2, <1>3, <1>8, <1>9
<1>11. \A i, j \in new : i.id = j.id => i = j  BY <1>2, <1>3, <1>9
<1>12. \A i \in incidents : (i \notin which \/ i.closedBy # NoAlert) => i \in new  BY <1>3, <1>4
<1>13. \A j \in new : \E i \in incidents :
                /\ j.id = i.id /\ j.key = i.key /\ j.by = i.by
                /\ IF i \in which /\ i.closedBy = NoAlert THEN j.closedBy = a ELSE j = i
  BY <1>3, <1>9
<1>14. new \in SUBSET Incident  BY <1>3, <1>4
<1> QED  BY <1>8, <1>10, <1>11, <1>12, <1>13, <1>14

-----------------------------------------------------------------------------
(* A request is answered *)

\* What the answers to all requests have in common.
Answer(e, outcome, more) ==
    /\ sends[e] # Idle /\ sends[e].requests # <<>> /\ sends' = Advance(e, outcome, more)
    /\ troubles' \in 0..MaxTroubles
    /\ UNCHANGED <<type, endpointOf, tellsResolved, rows, confirmed>>
OnlyOf(a) ==
    /\ memory' \in [Alerts -> [triggered : BOOLEAN, key : AnyKey]]
    /\ \A b \in Alerts : b # a => memory'[b] = memory[b]
    /\ memory'[a].triggered = memory[a].triggered

\* The send that is answered, and the ones that are not.
LEMMA AnswerIs ==
    ASSUME DeliveryInv, NEW e \in Endpoints, NEW outcome, NEW more \in Seq(Requested), Answer(e, outcome, more)
    PROVE  LET r == sends[e].requests
               a == sends[e].alert
           IN
           /\ a \in Alerts /\ endpointOf[a] = e /\ r \in Seq(Requested) /\ Len(r) \in Nat \ {0} /\ r[1] \in Requested
           /\ sends[e].resolved \in BOOLEAN
           /\ \A f \in Endpoints : sends[f] # Idle => sends[f].alert \in Alerts /\ (f # e => sends[f].alert # a)
           /\ sends' \in [Endpoints -> Sending \cup {Idle}]
           /\ \A f \in Endpoints : f # e => sends'[f] = sends[f]
           /\ ~Succeeds(outcome) => sends'[e] = Idle
           /\ Succeeds(outcome) =>
                /\ sends'[e] # Idle /\ sends'[e].alert = a /\ (sends'[e].resolved <=> sends[e].resolved)
                /\ Len(sends'[e].requests) = (Len(r) - 1) + Len(more)
                /\ Len(more) = 0 => Len(sends'[e].requests) = Len(r) - 1
                /\ \A n \in 1..Len(r) - 1 : sends'[e].requests[n] = r[n + 1]
                /\ \A n \in 1..Len(more) : sends'[e].requests[(Len(r) - 1) + n] = more[n]
           /\ Style' = Style /\ Audience' = Audience
<1> DEFINE r == sends[e].requests
           a == sends[e].alert
<1>1. Known /\ Placed  BY DEF DeliveryInv
<1>2. sends[e] # Idle /\ r # <<>> /\ sends' = Advance(e, outcome, more)  BY DEF Answer
<1>3. a \in Alerts /\ r \in Seq(Requested) /\ Len(r) \in Nat /\ sends[e].resolved \in BOOLEAN  BY <1>1, <1>2, SendIsOne
<1>4. Len(r) # 0  BY <1>2, <1>3, NothingLeft
<1>5. r[1] \in Requested  BY <1>3, <1>4, ElementOfSeq
<1>6. endpointOf[a] = e  BY <1>1, <1>2 DEF Placed
<1>7. \A f \in Endpoints : sends[f] # Idle => sends[f].alert \in Alerts /\ (f # e => sends[f].alert # a)
  BY <1>1, <1>6, SendIsOne DEF Placed
<1>8. /\ sends' \in [Endpoints -> Sending \cup {Idle}]
      /\ \A f \in Endpoints : f # e => sends'[f] = sends[f]
      /\ ~Succeeds(outcome) => sends'[e] = Idle
      /\ Succeeds(outcome) =>
           /\ sends'[e] \in Sending /\ sends'[e].alert = a /\ (sends'[e].resolved <=> sends[e].resolved)
           /\ Len(sends'[e].requests) = (Len(r) - 1) + Len(more)
           /\ \A n \in 1..Len(r) - 1 : sends'[e].requests[n] = r[n + 1]
           /\ \A n \in 1..Len(more) : sends'[e].requests[(Len(r) - 1) + n] = more[n]
  BY <1>1, <1>2, AdvanceIs
<1>9. Succeeds(outcome) => sends'[e] # Idle  BY <1>1, <1>8, SendIsOne
<1>10. Style' = Style /\ Audience' = Audience  BY ServiceStays DEF Answer
<1>11. ASSUME Succeeds(outcome), Len(more) = 0  PROVE Len(sends'[e].requests) = Len(r) - 1
  <2> DEFINE m == Len(more)
             x == Len(r)
  <2>1. x \in Nat /\ m = 0 /\ Len(sends'[e].requests) = (x - 1) + m  BY <1>3, <1>8, <1>11
  <2> HIDE DEF m, x
  <2>2. Len(sends'[e].requests) = x - 1  BY <2>1
  <2> QED  BY <2>2 DEF x
<1> QED  BY <1>11, <1>3, <1>4, <1>5, <1>6, <1>7, <1>8, <1>9, <1>10

\* What every answer leaves true.
LEMMA AnswerKeeps ==
    ASSUME DeliveryInv, NEW e \in Endpoints, NEW outcome, NEW more \in Seq(Requested), Answer(e, outcome, more),
           OnlyOf(sends[e].alert)
    PROVE  /\ Placed' /\ Persisted'
           /\ \A f \in Endpoints : sends'[f] # Idle => sends'[f].alert \notin confirmed'
           /\ (memory'[sends[e].alert].key # NoKey \/ ~Succeeds(outcome) \/ Style \notin {"deduplication", "fingerprint"}) => Given'
<1> DEFINE r == sends[e].requests
           a == sends[e].alert
<1>1. Known /\ Placed /\ Persisted /\ Confirmed /\ Given  BY DEF DeliveryInv
<1>2. /\ a \in Alerts /\ endpointOf[a] = e
      /\ \A f \in Endpoints : sends[f] # Idle => sends[f].alert \in Alerts /\ (f # e => sends[f].alert # a)
      /\ \A f \in Endpoints : f # e => sends'[f] = sends[f]
      /\ ~Succeeds(outcome) => sends'[e] = Idle
      /\ Succeeds(outcome) => sends'[e] # Idle /\ sends'[e].alert = a /\ (sends'[e].resolved <=> sends[e].resolved)
      /\ Style' = Style
  BY AnswerIs
<1>3. sends[e] # Idle /\ UNCHANGED <<type, endpointOf, tellsResolved, rows, confirmed>>  BY DEF Answer
<1>4. (\A b \in Alerts : b # a => memory'[b] = memory[b]) /\ memory'[a].triggered = memory[a].triggered  BY DEF OnlyOf
<1>5. Placed'
  <2>1. ASSUME NEW f \in Endpoints, sends'[f] # Idle
        PROVE  endpointOf[sends'[f].alert] = f /\ (sends'[f].resolved => tellsResolved /\ ~memory'[sends'[f].alert].triggered)
    <3>1. CASE f = e  BY <1>1, <1>2, <1>3, <1>4, <2>1, <3>1 DEF Placed
    <3>2. CASE f # e  BY <1>1, <1>2, <1>4, <2>1, <3>2 DEF Placed
    <3> QED  BY <3>1, <3>2
  <2> QED  BY <1>3, <2>1 DEF Placed
<1>6. Persisted'  BY <1>1, <1>2, <1>3, <1>4 DEF Persisted
<1>7. \A f \in Endpoints : sends'[f] # Idle => sends'[f].alert \notin confirmed'
  BY <1>1, <1>2, <1>3 DEF Confirmed
<1>8. ASSUME memory'[a].key # NoKey \/ ~Succeeds(outcome) \/ Style \notin {"deduplication", "fingerprint"}
      PROVE  Given'
  <2>1. ASSUME Style \in {"deduplication", "fingerprint"}, NEW f \in Endpoints, sends'[f] # Idle
        PROVE  memory'[sends'[f].alert].key # NoKey
    <3>1. CASE f = e  BY <1>2, <1>8, <2>1, <3>1
    <3>2. CASE f # e  BY <1>1, <1>2, <1>4, <2>1, <3>2 DEF Given
    <3> QED  BY <3>1, <3>2
  <2> QED  BY <1>2, <2>1 DEF Given
<1> QED  BY <1>5, <1>6, <1>7, <1>8

\* The requests that are left are of the same kind.
LEMMA StillPlanned ==
    ASSUME DeliveryInv, NEW e \in Endpoints, NEW outcome, Answer(e, outcome, <<>>)
    PROVE  Planned'
<1> DEFINE r == sends[e].requests
           l == sends'[e].requests
<1>1. Known /\ Planned  BY DEF DeliveryInv
<1> DEFINE none == <<>>
<1>2. none \in Seq(Requested) /\ Len(none) = 0 /\ Answer(e, outcome, none)  OBVIOUS
<1> HIDE DEF none
<1>3. /\ Len(r) \in Nat \ {0}
      /\ \A f \in Endpoints : f # e => sends'[f] = sends[f]
      /\ ~Succeeds(outcome) => sends'[e] = Idle
      /\ Succeeds(outcome) => /\ sends'[e] # Idle /\ (sends'[e].resolved <=> sends[e].resolved)
                              /\ Len(l) = Len(r) - 1 /\ \A n \in 1..Len(r) - 1 : l[n] = r[n + 1]
      /\ Style' = Style /\ Audience' = Audience
  <2>1. Len(r) \in Nat \ {0} /\ Style' = Style /\ Audience' = Audience  BY <1>2, AnswerIs
  <2>2. \A f \in Endpoints : f # e => sends'[f] = sends[f]  BY <1>2, AnswerIs
  <2>3. ~Succeeds(outcome) => sends'[e] = Idle  BY <1>2, AnswerIs
  <2>4. Succeeds(outcome) => sends'[e] # Idle /\ (sends'[e].resolved <=> sends[e].resolved)  BY <1>2, AnswerIs
  <2>5. Succeeds(outcome) => Len(l) = Len(r) - 1  BY <1>2, AnswerIs
  <2>6. Succeeds(outcome) => \A n \in 1..Len(r) - 1 : l[n] = r[n + 1]  BY <1>2, AnswerIs
  <2> QED  BY <1>2, <2>1, <2>2, <2>3, <2>4, <2>5, <2>6
<1>4. sends[e] # Idle  BY DEF Answer
<1>5. ASSUME Succeeds(outcome)
      PROVE  IF Style \in Messages THEN Telling(l)
             ELSE IF sends[e].resolved THEN Closing(l) ELSE Opening(l)
  <2>1. Len(l) = Len(r) - 1 /\ (\A n \in 1..Len(l) : n + 1 \in 1..Len(r) /\ l[n] = r[n + 1]) /\ Len(r) \in Nat \ {0}
    BY <1>3, <1>5
  <2> HIDE DEF l
  <2>2. CASE Style \in Messages
    <3>1. Telling(r)  BY <1>1, <1>4, <2>2 DEF Planned
    <3> QED  BY <2>1, <2>2, <3>1 DEF Telling
  <2>3. CASE Style \notin Messages /\ ~sends[e].resolved
    <3>1. Opening(r)  BY <1>1, <1>4, <2>3 DEF Planned
    <3>2. Opening(l)  BY <2>1, <3>1 DEF Opening
    <3> QED  BY <2>3, <3>2
  <2>4. CASE Style \notin Messages /\ sends[e].resolved
    <3>1. Closing(r)  BY <1>1, <1>4, <2>4 DEF Planned
    <3>2. CASE Style \in {"issues", "tasks"}
      <4>1. (Len(r) = 1 /\ r[1].op = "list") \/ \A n \in 1..Len(r) : r[n].op = "close"  BY <3>1, <3>2 DEF Closing
      <4>2. \A n \in 1..Len(l) : l[n].op = "close"  BY <2>1, <4>1
      <4>3. Closing(l)  BY <3>2, <4>2 DEF Closing
      <4> QED  BY <2>4, <4>3
    <3>3. CASE Style \notin {"issues", "tasks"}
      <4>1. \/ Len(r) = 0
            \/ Len(r) = 1 /\ r[1].op = "resolve"
            \/ Len(r) = 2 /\ r[1].op = "open" /\ r[2].op = "resolve"
        BY <3>1, <3>3 DEF Closing
      <4>2. Len(r) = 1 => Len(l) = 0  BY <2>1
      <4>3. Len(r) = 2 => Len(l) = 1 /\ l[1] = r[2]  BY <2>1
      <4>4. Len(l) = 0 \/ (Len(l) = 1 /\ l[1].op = "resolve")  BY <2>1, <4>1, <4>2, <4>3
      <4>5. Closing(l)  BY <3>3, <4>4 DEF Closing
      <4> QED  BY <2>4, <4>5
    <3> QED  BY <3>2, <3>3
  <2> QED  BY <2>2, <2>3, <2>4
<1>6. ASSUME NEW f \in Endpoints, sends'[f] # Idle
      PROVE  IF Style \in Messages THEN Telling(sends'[f].requests)
             ELSE IF sends'[f].resolved THEN Closing(sends'[f].requests) ELSE Opening(sends'[f].requests)
  <2>1. CASE f = e  BY <1>3, <1>5, <1>6, <2>1
  <2>2. CASE f # e  BY <1>1, <1>3, <1>6, <2>2 DEF Planned
  <2> QED  BY <2>1, <2>2
<1> QED  BY <1>3, <1>6 DEF Planned, Telling, Opening, Closing

Answered(e, outcome) ==
    /\ sends[e] # Idle /\ sends[e].requests # <<>>
    /\ Possible(outcome, sends[e].requests[1].op) /\ Troubled(outcome)
    /\ UNCHANGED <<type, endpointOf, tellsResolved, rows, confirmed>>

\* An answer is one, whatever Send goes on with.
LEMMA AnsweredIs ==
    ASSUME Known, NEW e \in Endpoints, NEW outcome, NEW more, Answered(e, outcome), sends' = Advance(e, outcome, more)
    PROVE  Answer(e, outcome, more)
<1>1. troubles \in 0..MaxTroubles /\ MaxTroubles \in Nat  BY DeliveryAssumption DEF Known
<1>2. troubles' \in 0..MaxTroubles  BY <1>1 DEF Answered, Troubled
<1> QED  BY <1>2 DEF Answered, Answer

\* What a service that is told keeps: no incidents.
LEMMA TellKeeps ==
    ASSUME DeliveryInv, NEW e \in Endpoints, NEW outcome \in Outcomes, Answered(e, outcome),
           sends[e].requests[1].op = "tell", Tell(e, outcome)
    PROVE  DeliveryInv'
<1> DEFINE r == sends[e].requests
           a == sends[e].alert
           none == <<>>
<1>1. Known /\ Placed /\ Persisted /\ Planned /\ Numbered /\ Keyed /\ Given /\ ToldAll /\ OpenAll /\ ClosedByTheirs
      /\ ToBeClosed /\ Remembered /\ Remaining /\ Confirmed
  BY DEF DeliveryInv
<1>2. none \in Seq(Requested) /\ Len(none) = 0 /\ Answer(e, outcome, none) /\ Answer(e, outcome, <<>>)
  <2>1. sends' = Advance(e, outcome, <<>>)  BY DEF Tell
  <2>2. Answer(e, outcome, <<>>)  BY <1>1, <2>1, AnsweredIs
  <2> QED  BY <2>2
<1> HIDE DEF none
<1>3. /\ a \in Alerts /\ Len(r) \in Nat \ {0} /\ sends[e].resolved \in BOOLEAN
      /\ sends' \in [Endpoints -> Sending \cup {Idle}]
      /\ Style' = Style /\ Audience' = Audience
  BY <1>2, AnswerIs
<1>4. \A f \in Endpoints : f # e => sends'[f] = sends[f]  BY <1>2, AnswerIs
<1>5. ~Succeeds(outcome) => sends'[e] = Idle  BY <1>2, AnswerIs
<1>6. Succeeds(outcome) => /\ sends'[e] # Idle /\ sends'[e].alert = a /\ (sends'[e].resolved <=> sends[e].resolved)
                           /\ Len(sends'[e].requests) = Len(r) - 1
  BY <1>2, AnswerIs
<1>7. Succeeds(outcome) => \A n \in 1..Len(r) - 1 : sends'[e].requests[n] = r[n + 1]  BY <1>2, AnswerIs
<1>8. \A f \in Endpoints : sends[f] # Idle => sends[f].alert \in Alerts /\ (f # e => sends[f].alert # a)  BY <1>2, AnswerIs
<1>9. UNCHANGED <<type, endpointOf, tellsResolved, rows, confirmed, memory, incidents, keys, mishaps>> /\ troubles' \in 0..MaxTroubles
  BY <1>2 DEF Tell, Answer
<1>10. sends[e] # Idle  BY <1>2 DEF Answer
<1>11. Style \in Messages /\ r[1].of \in Audience /\ Telling(r)
  <2>1. 1 \in 1..Len(r) /\ r[1].op = "tell"  BY <1>3
  <2>2. CASE Style \in Messages  BY <1>1, <1>10, <2>1, <2>2 DEF Planned, Telling
  <2>3. CASE Style \notin Messages /\ ~sends[e].resolved
    <3>1. Opening(r)  BY <1>1, <1>10, <2>3 DEF Planned
    <3> QED  BY <2>1, <3>1 DEF Opening
  <2>4. CASE Style \notin Messages /\ sends[e].resolved
    <3>1. Closing(r)  BY <1>1, <1>10, <2>4 DEF Planned
    <3> QED  BY <2>1, <3>1 DEF Closing
  <2> QED  BY <2>2, <2>3, <2>4
<1>12. incidents = {} /\ incidents' = {}  BY <1>1, <1>9, <1>11 DEF ToldAll
<1>13. /\ told' \in [Alerts -> SUBSET Audience]
       /\ \A b \in Alerts : (\A t \in told[b] : t \in told'[b]) /\ (b # a => told'[b] = told[b])
       /\ TakesEffect(outcome) /\ ~sends[e].resolved => r[1].of \in told'[a]
  <2>1. told \in [Alerts -> SUBSET Audience]  BY <1>1 DEF Known
  <2>2. told' = IF TakesEffect(outcome) /\ ~sends[e].resolved THEN [told EXCEPT ![a] = @ \cup {r[1].of}] ELSE told  BY DEF Tell
  <2> QED  BY <1>3, <1>11, <2>1, <2>2
<1>14. OnlyOf(a)  BY <1>1, <1>9 DEF OnlyOf, Known
<1>15. Known'  BY <1>1, <1>3, <1>9, <1>13 DEF Known
<1>16. Placed' /\ Persisted' /\ \A f \in Endpoints : sends'[f] # Idle => sends'[f].alert \notin confirmed'
  BY <1>2, <1>14, AnswerKeeps
<1>17. Planned'  BY <1>2, StillPlanned
<1>18. Numbered'  BY <1>1, <1>9 DEF Numbered
<1>19. Keyed' /\ Given'
  <2>1. Style \notin ByEndpoint \cup {"deduplication", "fingerprint"}  BY <1>11 DEF Messages, Repeats, ByEndpoint
  <2>2. Keyed'  BY <1>1, <1>3, <1>9 DEF Keyed, HasKey, UsedKeys
  <2> QED  BY <1>3, <2>1, <2>2 DEF Given
<1>20. ToldAll'
  <2>1. ASSUME NEW b \in Alerts, memory'[b].triggered  PROVE told'[b] = Audience
    <3>1. told[b] = Audience  BY <1>1, <1>9, <1>11, <2>1 DEF ToldAll
    <3>2. \A t \in told[b] : t \in told'[b]  BY <1>13
    <3>3. told'[b] \subseteq Audience  BY <1>13
    <3> QED  BY <3>1, <3>2, <3>3
  <2>2. ASSUME NEW f \in Endpoints, sends'[f] # Idle, ~sends'[f].resolved, NEW t \in Audience
        PROVE  t \in told'[sends'[f].alert] \/ \E n \in 1..Len(sends'[f].requests) : sends'[f].requests[n].of = t
    <3>1. CASE f = e
      <4>1. Succeeds(outcome)  BY <1>5, <2>2, <3>1
      <4>2. TakesEffect(outcome)
        BY <1>11, <4>1 DEF Succeeds, TakesEffect, Messages, Repeats
      <4>3. ~sends[e].resolved  BY <1>6, <2>2, <3>1, <4>1
      <4>4. t \in told[a] \/ \E n \in 1..Len(r) : r[n].of = t  BY <1>1, <1>10, <1>11, <2>2, <4>3 DEF ToldAll
      <4>8. sends'[f].alert = a  BY <1>6, <3>1, <4>1
      <4>5. ASSUME t \in told[a]  PROVE t \in told'[a]  BY <1>3, <1>13, <4>5
      <4>6. ASSUME NEW n \in 1..Len(r), r[n].of = t
            PROVE  t \in told'[a] \/ \E k \in 1..Len(r) - 1 : r[k + 1].of = t
        <5>1. CASE n = 1
          <6>1. r[1].of \in told'[a]  BY <1>13, <4>2, <4>3
          <6> QED  BY <4>6, <5>1, <6>1
        <5>2. CASE n # 1
          <6>1. n - 1 \in 1..Len(r) - 1 /\ (n - 1) + 1 = n  BY <1>3, <5>2
          <6> QED  BY <4>6, <6>1
        <5> QED  BY <5>1, <5>2
      <4>7. ASSUME NEW k \in 1..Len(r) - 1, r[k + 1].of = t
            PROVE  \E n \in 1..Len(sends'[f].requests) : sends'[f].requests[n].of = t
        <5>1. sends'[e].requests[k].of = t  BY <1>7, <4>1, <4>7
        <5>2. Len(sends'[e].requests) = Len(r) - 1  BY <1>6, <4>1
        <5> QED  BY <3>1, <5>1, <5>2
      <4>9. t \in told'[a] \/ \E k \in 1..Len(r) - 1 : r[k + 1].of = t
        <5>1. CASE t \in told[a]  BY <4>5, <5>1
        <5>2. CASE \E n \in 1..Len(r) : r[n].of = t  BY <4>6, <5>2
        <5> QED  BY <4>4, <5>1, <5>2
      <4>10. CASE t \in told'[a]  BY <4>8, <4>10
      <4>11. CASE \E k \in 1..Len(r) - 1 : r[k + 1].of = t  BY <4>7, <4>11
      <4> QED  BY <4>9, <4>10, <4>11
    <3>2. CASE f # e
      <4>1. sends'[f] = sends[f] /\ sends[f].alert \in Alerts /\ sends[f].alert # a  BY <1>4, <1>8, <2>2, <3>2
      <4> QED  BY <1>1, <1>11, <1>13, <2>2, <4>1 DEF ToldAll
    <3> QED  BY <3>1, <3>2
  <2> QED  BY <1>3, <1>12, <2>1, <2>2 DEF ToldAll
<1>21. OpenAll'  BY <1>3, <1>11 DEF OpenAll
<1>22. ClosedByTheirs' /\ Remembered' /\ Remaining'  BY <1>12 DEF ClosedByTheirs, Remembered, Remaining
<1>23. ToBeClosed'
  <2>1. \A f \in Endpoints : sends'[f] # Idle => \A n \in 1..Len(sends'[f].requests) : sends'[f].requests[n].op = "tell"
    BY <1>3, <1>11, <1>17 DEF Planned, Telling
  <2> QED  BY <2>1 DEF ToBeClosed
<1>24. Confirmed'  BY <1>12, <1>16 DEF Confirmed
<1> QED  BY <1>15, <1>16, <1>17, <1>18, <1>19, <1>20, <1>21, <1>22, <1>23, <1>24 DEF DeliveryInv

-----------------------------------------------------------------------------
(* An incident is opened or closed *)

\* What an answer to alert a may do to the incidents: one of its own is opened, and others that it shares are closed.
Follows(j, i, a) ==
    /\ j.id = i.id /\ j.key = i.key /\ j.by = i.by
    /\ j.closedBy = i.closedBy \/ (i.closedBy = NoAlert /\ j.closedBy = a /\ (i.by = a \/ Shares(a, i.by)))
OpensAndCloses(a, key) ==
    /\ \A j \in incidents' : \/ \E i \in incidents : Follows(j, i, a)
                             \/ j.by = a /\ j.key = key /\ j.closedBy = NoAlert /\ j.id = Cardinality(incidents) + 1
    /\ \A i \in incidents : i.closedBy = NoAlert /\ i.by # a /\ ~Shares(a, i.by) => i \in incidents'
    /\ IsFiniteSet(incidents') /\ \A i \in incidents' : i.id \in 1..Cardinality(incidents')
    /\ \A i, j \in incidents' : i.id = j.id => i = j
    /\ Cardinality(incidents) \in Nat /\ Cardinality(incidents') \in Nat /\ Cardinality(incidents) <= Cardinality(incidents')
    /\ \A b \in Alerts : b # a => mishaps'[b] = mishaps[b]

\* What such an answer keeps.
LEMMA IncidentsKeep ==
    ASSUME DeliveryInv, NEW e \in Endpoints, NEW outcome, NEW more \in Seq(Requested), Answer(e, outcome, more),
           OnlyOf(sends[e].alert), Known', Keyed',
           NEW key \in AnyKey, key # NoKey, OpensAndCloses(sends[e].alert, key)
    PROVE  /\ Numbered' /\ ClosedByTheirs' /\ Confirmed'
           /\ \A f \in Endpoints, x \in 1..Cardinality(incidents) :
                 (\A i \in incidents : i.id = x => OfOneOf(i, f)) =>
                     x \in 1..Cardinality(incidents') /\ \A i \in incidents' : i.id = x => OfOneOf(i, f)
           /\ \A f \in Endpoints : f # e /\ sends[f] # Idle /\ sends[f].resolved =>
                 \A b \in Alerts : b = sends[f].alert =>
                     \A i \in incidents' : i.closedBy = NoAlert /\ i.key = Address(b)' =>
                         \E n \in 1..Len(sends[f].requests) : Closes(sends[f].requests[n], i)
           /\ \A b \in Alerts : b # sends[e].alert /\ Alone(b) /\ HasOpen(b) => HasOpen(b)'
<1> DEFINE a == sends[e].alert
<1>1. Known /\ Placed /\ Numbered /\ Keyed /\ ClosedByTheirs /\ Remaining /\ Confirmed  BY DEF DeliveryInv
<1>2. /\ a \in Alerts /\ Style' = Style
      /\ \A f \in Endpoints : sends[f] # Idle => sends[f].alert \in Alerts /\ (f # e => sends[f].alert # a)
      /\ \A f \in Endpoints : f # e => sends'[f] = sends[f]
  BY AnswerIs
<1>3. UNCHANGED <<type, endpointOf, tellsResolved, rows, confirmed>> /\ sends[e] # Idle  BY DEF Answer
<1>4. \A b \in Alerts : b # a => memory'[b] = memory[b]  BY DEF OnlyOf
<1>5. incidents \in SUBSET Incident /\ incidents' \in SUBSET Incident  BY <1>1 DEF Known
<1>6. \A j \in incidents' : \/ \E i \in incidents : Follows(j, i, a)
                            \/ j.by = a /\ j.key = key /\ j.closedBy = NoAlert /\ j.id = Cardinality(incidents) + 1
  BY DEF OpensAndCloses
<1>7. \A i \in incidents : i.closedBy = NoAlert /\ i.by # a /\ ~Shares(a, i.by) => i \in incidents'  BY DEF OpensAndCloses
<1>8. /\ Cardinality(incidents) \in Nat /\ Cardinality(incidents') \in Nat /\ Cardinality(incidents) <= Cardinality(incidents')
      /\ \A b \in Alerts : b # a => mishaps'[b] = mishaps[b]
  BY DEF OpensAndCloses
<1>9. Numbered'  BY DEF OpensAndCloses, Numbered
<1>10. \A b, c : Shares(b, c)' <=> Shares(b, c)  BY <1>2, <1>3 DEF Shares
<1>11. ClosedByTheirs'
  <2>1. ASSUME NEW j \in incidents'  PROVE j.closedBy \in {j.by, NoAlert} \/ Shares(j.closedBy, j.by)
    <3>1. CASE \E i \in incidents : Follows(j, i, a)
      <4>1. PICK i \in incidents : Follows(j, i, a)  BY <3>1
      <4>2. i.closedBy \in {i.by, NoAlert} \/ Shares(i.closedBy, i.by)  BY <1>1 DEF ClosedByTheirs
      <4>3. j.by = i.by  BY <4>1 DEF Follows
      <4>4. CASE j.closedBy = i.closedBy  BY <4>2, <4>3, <4>4
      <4>5. CASE j.closedBy = a /\ (i.by = a \/ Shares(a, i.by))  BY <4>3, <4>5
      <4> QED  BY <4>1, <4>4, <4>5 DEF Follows
    <3> QED  BY <1>6, <3>1
  <2> QED  BY <1>2, <1>3, <2>1 DEF ClosedByTheirs, Shares
<1>12. Confirmed'
  <2>1. \A f \in Endpoints : sends'[f] # Idle => sends'[f].alert \notin confirmed'  BY AnswerKeeps
  <2>2. ASSUME NEW b \in confirmed, MayForget(b)' = {}, NEW j \in incidents', j.by = b  PROVE j.closedBy # NoAlert
    <3>1. b # a /\ b \in Alerts  BY <1>1, <1>2, <1>3 DEF Confirmed, Known
    <3>2. MayForget(b) = {}  BY <1>2, <1>8, <2>2, <3>1 DEF MayForget
    <3>3. \A i \in incidents : i.by = b => i.closedBy # NoAlert  BY <1>1, <3>2 DEF Confirmed
    <3>4. PICK i \in incidents : Follows(j, i, a)  BY <1>6, <2>2, <3>1
    <3>5. i.closedBy # NoAlert  BY <2>2, <3>3, <3>4 DEF Follows
    <3> QED  BY <3>4, <3>5 DEF Follows
  <2> QED  BY <1>3, <2>1, <2>2 DEF Confirmed
<1>13. ASSUME NEW f \in Endpoints, NEW x \in 1..Cardinality(incidents), \A i \in incidents : i.id = x => OfOneOf(i, f)
       PROVE  x \in 1..Cardinality(incidents') /\ \A i \in incidents' : i.id = x => OfOneOf(i, f)
  <2>1. x \in 1..Cardinality(incidents')  BY <1>8
  <2>2. ASSUME NEW j \in incidents', j.id = x  PROVE OfOneOf(j, f)
    <3>1. j.id # Cardinality(incidents) + 1  BY <1>8, <2>2
    <3>2. PICK i \in incidents : Follows(j, i, a)  BY <1>6, <3>1
    <3>3. i.id = x /\ i.key = j.key  BY <2>2, <3>2 DEF Follows
    <3> QED  BY <1>13, <3>3 DEF OfOneOf
  <2> QED  BY <2>1, <2>2
<1>14. ASSUME NEW f \in Endpoints, f # e, sends[f] # Idle, sends[f].resolved, NEW b \in Alerts, b = sends[f].alert,
              NEW j \in incidents', j.closedBy = NoAlert, j.key = Address(b)'
       PROVE  \E n \in 1..Len(sends[f].requests) : Closes(sends[f].requests[n], j)
  <2>1. b # a /\ endpointOf[b] = f /\ endpointOf[a] = e  BY <1>1, <1>2, <1>3, <1>14 DEF Placed
  <2>2. Address(b)' = Address(b)  BY <1>2, <1>3, <1>4, <2>1 DEF Address
  <2>7. j.key = Address(b)  BY <1>14, <2>2
  <2>3. \E i \in incidents : Follows(j, i, a)
    <3>1. SUFFICES ASSUME j.by = a, j.key = key  PROVE FALSE  BY <1>6
    <3>2. CASE Style \in ByEndpoint
      <4>1. j.key = <<"endpoint", endpointOf[j.by]>>  BY <1>2, <1>3, <3>2 DEF Keyed
      <4>2. j.key = <<"endpoint", f>>  BY <2>1, <2>7, <3>2 DEF Address
      <4>3. <<"endpoint", e>> = <<"endpoint", f>>  BY <2>1, <3>1, <4>1, <4>2
      <4> QED  BY <1>14, <4>3
    <3>3. CASE Style \notin ByEndpoint
      <4>1. memory'[b].key = key  BY <1>4, <2>1, <2>7, <3>1, <3>3 DEF Address
      <4>2. PICK who \in Alerts : who = a  BY <1>2
      <4>3. HasKey(b, key)' /\ HasKey(who, key)'  BY <1>14, <3>1, <4>1, <4>2 DEF HasKey
      <4> QED  BY <1>2, <1>14, <2>1, <3>3, <4>2, <4>3 DEF Keyed
    <3> QED  BY <3>2, <3>3
  <2>4. PICK i \in incidents : Follows(j, i, a)  BY <2>3
  <2>5. i.closedBy = NoAlert /\ i.key = Address(b) /\ i.id = j.id
    <3>1. a # NoAlert  BY <1>2, DeliveryAssumption
    <3> QED  BY <1>14, <2>2, <2>4, <3>1 DEF Follows
  <2>6. \E n \in 1..Len(sends[f].requests) : Closes(sends[f].requests[n], i)  BY <1>1, <1>14, <2>5 DEF Remaining
  <2> QED  BY <2>5, <2>6 DEF Closes
<1>15. ASSUME NEW b \in Alerts, b # a, Alone(b), HasOpen(b)  PROVE HasOpen(b)'
  <2>1. PICK i \in incidents : i.by = b /\ i.closedBy = NoAlert  BY <1>15 DEF HasOpen
  <2>2. ~Shares(a, b)  BY <1>2, <1>15 DEF Alone
  <2>3. i \in incidents'  BY <1>7, <1>15, <2>1, <2>2
  <2> QED  BY <2>1, <2>3 DEF HasOpen
<1> QED  BY <1>9, <1>11, <1>12, <1>13, <1>14, <1>15

-----------------------------------------------------------------------------
(* An incident is opened *)

\* What a request to open an incident does.
LEMMA OpenIs ==
    ASSUME DeliveryInv, NEW e \in Endpoints, NEW outcome \in Outcomes, Answered(e, outcome),
           sends[e].requests[1].op = "open", Open(e, outcome)
    PROVE  LET a == sends[e].alert
               answers == Style = "answered key"
               key == IF answers THEN NewKey ELSE Address(a)
           IN
           /\ Style \notin Messages /\ Answer(e, outcome, <<>>) /\ OnlyOf(a)
           /\ key \in AnyKey /\ key # NoKey
           /\ incidents' = IF TakesEffect(outcome) THEN Opened(a, key) ELSE incidents
           /\ told' = told /\ keys' \in 0..MaxKeys /\ keys' = IF answers THEN keys + 1 ELSE keys
           /\ \/ memory'[a].key = memory[a].key
              \/ answers /\ outcome = "accepted" /\ memory'[a].key = NewKey
              \/ Style = "deduplication" /\ outcome = "unreadable" /\ memory'[a].key = NoKey
           /\ answers /\ outcome = "accepted" /\ tellsResolved => memory'[a].key = NewKey
           /\ mishaps' \in [Alerts -> SUBSET {"another incident", "lost", "unreadable", "crash"}]
           /\ \A b \in Alerts : (\A m \in mishaps[b] : m \in mishaps'[b]) /\ (b # a => mishaps'[b] = mishaps[b])
           /\ answers /\ memory[a].key # NoKey => "another incident" \in mishaps'[a]
           /\ outcome = "unreadable" \/ (answers /\ outcome = "lost") => outcome \in mishaps'[a]
<1> DEFINE r == sends[e].requests
           a == sends[e].alert
           answers == Style = "answered key"
           key == IF answers THEN NewKey ELSE Address(a)
<1>1. Known /\ Placed /\ Planned /\ Keyed /\ Given  BY DEF DeliveryInv
<1>2. Answer(e, outcome, <<>>)
  <2>1. sends' = Advance(e, outcome, <<>>)  BY DEF Open
  <2> QED  BY <1>1, <2>1, AnsweredIs
<1>3. sends[e] # Idle /\ a \in Alerts /\ Len(r) \in Nat \ {0} /\ r[1].op = "open"
  <2> DEFINE none == <<>>
  <2>1. none \in Seq(Requested) /\ Answer(e, outcome, none)  BY <1>2
  <2> HIDE DEF none
  <2>2. a \in Alerts /\ Len(r) \in Nat \ {0}  BY <2>1, AnswerIs
  <2> QED  BY <1>2, <2>2 DEF Answer
<1>4. Style \notin Messages
  <2>1. ASSUME Style \in Messages  PROVE FALSE
    <3>1. Telling(r) /\ 1 \in 1..Len(r)  BY <1>1, <1>3, <2>1 DEF Planned
    <3> QED  BY <1>3, <3>1 DEF Telling
  <2> QED  BY <2>1
<1>5. Style \in Styles  BY <1>1, StyleIsOne DEF Known, Style
<1>6. /\ memory \in [Alerts -> [triggered : BOOLEAN, key : AnyKey]]
      /\ mishaps \in [Alerts -> SUBSET {"another incident", "lost", "unreadable", "crash"}]
      /\ keys \in 0..MaxKeys /\ endpointOf \in [Alerts -> Endpoints] /\ MaxKeys \in Nat
  BY <1>1, DeliveryAssumption DEF Known
<1>7. NewKey \in AnyKey /\ NewKey # NoKey /\ NoKey \in AnyKey /\ Address(a) \in AnyKey  BY <1>1, <1>3, KeysAreKeys
<1>8. key \in AnyKey /\ key # NoKey
  <2>1. CASE answers  BY <1>7, <2>1
  <2>2. CASE Style \in ByEndpoint
    <3>1. Address(a) = <<"endpoint", endpointOf[a]>> /\ endpointOf[a] \in Endpoints  BY <1>3, <1>6, <2>2 DEF Address
    <3>2. Address(a) # NoKey  BY <1>1, <3>1, KeysAreKeys
    <3> QED  BY <1>7, <2>2, <3>2 DEF ByEndpoint
  <2>3. CASE Style \in {"deduplication", "fingerprint"}
    <3>1. Address(a) = memory[a].key  BY <2>3 DEF Address, ByEndpoint
    <3> QED  BY <1>1, <1>3, <1>7, <2>3, <3>1 DEF Given
  <2> QED  BY <1>4, <1>5, <2>1, <2>2, <2>3 DEF Styles
<1>9. CASE answers
  <2>1. /\ keys < MaxKeys /\ keys' = keys + 1
        /\ incidents' = IF TakesEffect(outcome) THEN Opened(a, NewKey) ELSE incidents
        /\ memory' = IF outcome = "accepted" /\ tellsResolved THEN [memory EXCEPT ![a].key = NewKey] ELSE memory
        /\ Kept(a, (IF memory[a].key # NoKey THEN {"another incident"} ELSE {}) \cup
                   (IF outcome \in {"lost", "unreadable"} THEN {outcome} ELSE {}))
        /\ told' = told
    BY <1>9 DEF Open
  <2> DEFINE more == (IF memory[a].key # NoKey THEN {"another incident"} ELSE {}) \cup
                     (IF outcome \in {"lost", "unreadable"} THEN {outcome} ELSE {})
  <2>2. /\ more \subseteq {"another incident", "lost", "unreadable", "crash"}
        /\ memory[a].key # NoKey => "another incident" \in more
        /\ outcome \in {"lost", "unreadable"} => outcome \in more
    OBVIOUS
  <2>3. mishaps' = [mishaps EXCEPT ![a] = @ \cup more]  BY <2>1 DEF Kept
  <2> HIDE DEF more
  <2>4. /\ mishaps' \in [Alerts -> SUBSET {"another incident", "lost", "unreadable", "crash"}]
        /\ \A b \in Alerts : (\A m \in mishaps[b] : m \in mishaps'[b]) /\ (b # a => mishaps'[b] = mishaps[b])
        /\ memory[a].key # NoKey => "another incident" \in mishaps'[a]
        /\ outcome \in {"lost", "unreadable"} => outcome \in mishaps'[a]
    BY <1>3, <1>6, <2>2, <2>3
  <2>5. /\ OnlyOf(a)
        /\ memory'[a].key = memory[a].key \/ (outcome = "accepted" /\ memory'[a].key = NewKey)
        /\ outcome = "accepted" /\ tellsResolved => memory'[a].key = NewKey
    BY <1>3, <1>6, <1>7, <2>1 DEF OnlyOf
  <2>6. keys' \in 0..MaxKeys
    <3>1. keys \in 0..MaxKeys /\ MaxKeys \in Nat /\ keys < MaxKeys /\ keys' = keys + 1  BY <1>6, <2>1
    <3> QED  BY ONLY <3>1
  <2> QED  BY <1>2, <1>4, <1>8, <1>9, <2>1, <2>4, <2>5, <2>6
<1>10. CASE ~answers
  <2>1. /\ incidents' = IF TakesEffect(outcome) THEN Opened(a, Address(a)) ELSE incidents
        /\ memory' = IF Style = "deduplication" /\ outcome = "unreadable" THEN [memory EXCEPT ![a].key = NoKey] ELSE memory
        /\ Kept(a, {outcome} \cap {"unreadable"})
        /\ keys' = keys /\ told' = told
    BY <1>10 DEF Open
  <2>2. mishaps' = [mishaps EXCEPT ![a] = @ \cup ({outcome} \cap {"unreadable"})]  BY <2>1 DEF Kept
  <2>3. /\ mishaps' \in [Alerts -> SUBSET {"another incident", "lost", "unreadable", "crash"}]
        /\ \A b \in Alerts : (\A m \in mishaps[b] : m \in mishaps'[b]) /\ (b # a => mishaps'[b] = mishaps[b])
        /\ outcome = "unreadable" => outcome \in mishaps'[a]
    BY <1>3, <1>6, <2>2
  <2>4. /\ OnlyOf(a)
        /\ memory'[a].key = memory[a].key \/ (Style = "deduplication" /\ outcome = "unreadable" /\ memory'[a].key = NoKey)
    BY <1>3, <1>6, <1>7, <2>1 DEF OnlyOf
  <2> QED  BY <1>2, <1>4, <1>6, <1>8, <1>10, <2>1, <2>3, <2>4
<1> QED  BY <1>9, <1>10

\* What a request to open an incident keeps.
LEMMA OpenKeeps ==
    ASSUME DeliveryInv, NEW e \in Endpoints, NEW outcome \in Outcomes, Answered(e, outcome),
           sends[e].requests[1].op = "open", Open(e, outcome)
    PROVE  DeliveryInv'
<1> DEFINE r == sends[e].requests
           none == <<>>
<1>1. Known /\ Placed /\ Persisted /\ Planned /\ Numbered /\ Keyed /\ Given /\ ToldAll /\ OpenAll /\ ClosedByTheirs
      /\ ToBeClosed /\ Remembered /\ Remaining /\ Confirmed
  BY DEF DeliveryInv
<1>2. PICK a \in Alerts : a = sends[e].alert
  BY <1>1, SendIsOne DEF Answered
<1> DEFINE answers == Style = "answered key"
<1>3. PICK key : key = IF answers THEN NewKey ELSE Address(a)  OBVIOUS
<1>4. /\ Style \notin Messages /\ Answer(e, outcome, <<>>) /\ OnlyOf(a)
      /\ key \in AnyKey /\ key # NoKey
      /\ incidents' = IF TakesEffect(outcome) THEN Opened(a, key) ELSE incidents
      /\ told' = told /\ keys' \in 0..MaxKeys /\ keys' = IF answers THEN keys + 1 ELSE keys
      /\ \/ memory'[a].key = memory[a].key
         \/ answers /\ outcome = "accepted" /\ memory'[a].key = NewKey
         \/ Style = "deduplication" /\ outcome = "unreadable" /\ memory'[a].key = NoKey
      /\ answers /\ outcome = "accepted" /\ tellsResolved => memory'[a].key = NewKey
      /\ mishaps' \in [Alerts -> SUBSET {"another incident", "lost", "unreadable", "crash"}]
      /\ \A b \in Alerts : (\A m \in mishaps[b] : m \in mishaps'[b]) /\ (b # a => mishaps'[b] = mishaps[b])
      /\ answers /\ memory[a].key # NoKey => "another incident" \in mishaps'[a]
      /\ outcome = "unreadable" \/ (answers /\ outcome = "lost") => outcome \in mishaps'[a]
  BY <1>2, <1>3, OpenIs
<1>5. none \in Seq(Requested) /\ Len(none) = 0 /\ Answer(e, outcome, none)
  <2>1. none \in Seq(Requested) /\ Len(none) = 0  OBVIOUS
  <2>2. Answer(e, outcome, none)  BY <1>4
  <2> QED  BY <2>1, <2>2
<1> HIDE DEF none
<1>6. /\ Len(r) \in Nat \ {0} /\ sends[e].resolved \in BOOLEAN /\ endpointOf[a] = e
      /\ sends' \in [Endpoints -> Sending \cup {Idle}]
      /\ Style' = Style /\ Audience' = Audience
  BY <1>2, <1>5, AnswerIs
<1>7. \A f \in Endpoints : f # e => sends'[f] = sends[f]  BY <1>5, AnswerIs
<1>8. ~Succeeds(outcome) => sends'[e] = Idle  BY <1>5, AnswerIs
<1>9. Succeeds(outcome) => /\ sends'[e] # Idle /\ sends'[e].alert = a /\ (sends'[e].resolved <=> sends[e].resolved)
                           /\ Len(sends'[e].requests) = Len(r) - 1
  BY <1>2, <1>5, AnswerIs
<1>10. Succeeds(outcome) => \A n \in 1..Len(r) - 1 : sends'[e].requests[n] = r[n + 1]  BY <1>5, AnswerIs
<1>11. \A f \in Endpoints : sends[f] # Idle => sends[f].alert \in Alerts /\ (f # e => sends[f].alert # a)
  BY <1>2, <1>5, AnswerIs
<1>12. UNCHANGED <<type, endpointOf, tellsResolved, rows, confirmed>> /\ troubles' \in 0..MaxTroubles /\ sends[e] # Idle
  BY <1>4 DEF Answer
<1>13. Style \in ByEndpoint \cup {"answered key", "deduplication", "fingerprint"}
  BY <1>1, <1>4, StyleIsOne DEF Known, Style, Styles
<1>14. /\ \A j \in incidents' : j \in incidents \/ (j.by = a /\ j.key = key /\ j.closedBy = NoAlert /\ j.id = Cardinality(incidents) + 1)
       /\ incidents \subseteq incidents' /\ incidents' \in SUBSET Incident
       /\ TakesEffect(outcome) => \E j \in incidents' : j.key = key /\ j.closedBy = NoAlert
       /\ IsFiniteSet(incidents') /\ \A i \in incidents' : i.id \in 1..Cardinality(incidents')
       /\ \A i, j \in incidents' : i.id = j.id => i = j
       /\ Cardinality(incidents) \in Nat /\ Cardinality(incidents') \in Nat /\ Cardinality(incidents) <= Cardinality(incidents')
  <2>1. CASE TakesEffect(outcome)
    <3>1. incidents' = Opened(a, key)  BY <1>4, <2>1
    <3>2. PICK new : new = Opened(a, key)  OBVIOUS
    <3>5. Known /\ Numbered /\ key \in AnyKey  BY <1>1, <1>4
    <3>3. /\ new \in SUBSET Incident /\ incidents \subseteq new
          /\ \A i \in new : i \in incidents \/ (i.by = a /\ i.key = key /\ i.closedBy = NoAlert /\ i.id = Cardinality(incidents) + 1)
          /\ \E i \in new : i.key = key /\ i.closedBy = NoAlert
          /\ IsFiniteSet(new) /\ \A i \in new : i.id \in 1..Cardinality(new)
      BY <3>2, <3>5, OpenedIs
    <3>4. /\ \A i, j \in new : i.id = j.id => i = j
          /\ Cardinality(incidents) \in Nat /\ Cardinality(new) \in Nat /\ Cardinality(incidents) <= Cardinality(new)
      BY <3>2, <3>5, OpenedIs
    <3> QED  BY <3>1, <3>2, <3>3, <3>4
  <2>2. CASE ~TakesEffect(outcome)
    <3>1. incidents' = incidents  BY <1>4, <2>2
    <3>2. Cardinality(incidents) \in Nat  BY <1>1, FS_CardinalityType DEF Numbered
    <3>3. IsFiniteSet(incidents) /\ (\A i \in incidents : i.id \in 1..Cardinality(incidents))
          /\ (\A i, j \in incidents : i.id = j.id => i = j) /\ incidents \in SUBSET Incident
      BY <1>1 DEF Numbered, Known
    <3>4. Cardinality(incidents) <= Cardinality(incidents)  BY <3>2
    <3> QED  BY <2>2, <3>1, <3>2, <3>3, <3>4
  <2> QED  BY <2>1, <2>2
<1>15. Known'  BY <1>1, <1>4, <1>6, <1>12, <1>14 DEF Known, OnlyOf
<1>16. OpensAndCloses(a, key)
  <2>1. \A i \in incidents : Follows(i, i, a)  BY DEF Follows
  <2>2. \A b \in Alerts : b # a => mishaps'[b] = mishaps[b]  BY <1>4
  <2> QED  BY <1>14, <2>1, <2>2 DEF OpensAndCloses
<1>17. Keyed'
  <2>1. keys' = keys \/ keys' = keys + 1  BY <1>4
  <2>2. ASSUME NEW b \in Alerts, NEW k \in AnyKey, HasKey(b, k)', k # NoKey, Style \notin ByEndpoint
        PROVE  HasKey(b, k) \/ (b = a /\ keys' = keys + 1 /\ k = NewKey)
    <3>1. memory'[b].key = k \/ rows[b] = k \/ \E i \in incidents' : i.by = b /\ i.key = k  BY <1>12, <2>2 DEF HasKey
    <3>2. CASE memory'[b].key = k  BY <1>4, <2>2, <3>2 DEF HasKey, OnlyOf
    <3>3. CASE rows[b] = k  BY <3>3 DEF HasKey
    <3>4. ASSUME NEW i \in incidents', i.by = b, i.key = k
          PROVE  HasKey(b, k) \/ (b = a /\ keys' = keys + 1 /\ k = NewKey)
      <4>1. CASE i \in incidents  BY <3>4, <4>1 DEF HasKey
      <4>2. CASE i.by = a /\ i.key = key
        <5>1. CASE answers  BY <1>3, <1>4, <3>4, <4>2, <5>1
        <5>2. CASE ~answers
          <6>1. key = memory[a].key  BY <1>3, <2>2, <5>2 DEF Address
          <6> QED  BY <3>4, <4>2, <6>1 DEF HasKey
        <5> QED  BY <5>1, <5>2
      <4> QED  BY <1>14, <4>1, <4>2
    <3> QED  BY <3>1, <3>2, <3>3, <3>4
  <2>3. \A i \in incidents' : i.key # NoKey
    <3>1. \A i \in incidents : i.key # NoKey
      <4>1. CASE Style \in ByEndpoint
        <5>1. \A i \in incidents : i.key = <<"endpoint", endpointOf[i.by]>>  BY <1>1, <4>1 DEF Keyed
        <5> QED  BY <5>1 DEF NoKey
      <4>2. CASE Style \notin ByEndpoint  BY <1>1, <4>2 DEF Keyed
      <4> QED  BY <4>1, <4>2
    <3>2. key # NoKey  BY <1>4
    <3> QED  BY <1>14, <3>1, <3>2
  <2>4. CASE Style \notin ByEndpoint  BY <1>1, <1>12, <1>15, <2>1, <2>2, <2>3, <2>4, KeysStayApart
  <2>5. CASE Style \in ByEndpoint
    <3>1. key = <<"endpoint", endpointOf[a]>>  BY <1>3, <2>5 DEF Address, ByEndpoint
    <3>2. \A i \in incidents' : i.key = <<"endpoint", endpointOf[i.by]>>  BY <1>1, <1>14, <2>5, <3>1 DEF Keyed
    <3> QED  BY <1>6, <1>12, <2>5, <3>2 DEF Keyed
  <2> QED  BY <2>4, <2>5
<1>18. /\ Numbered' /\ ClosedByTheirs' /\ Confirmed'
       /\ \A f \in Endpoints, x \in 1..Cardinality(incidents) :
             (\A i \in incidents : i.id = x => OfOneOf(i, f)) =>
                 x \in 1..Cardinality(incidents') /\ \A i \in incidents' : i.id = x => OfOneOf(i, f)
  BY <1>2, <1>4, <1>5, <1>15, <1>16, <1>17, IncidentsKeep
<1>19. \A f \in Endpoints : f # e /\ sends[f] # Idle /\ sends[f].resolved =>
         \A b \in Alerts : b = sends[f].alert =>
             \A i \in incidents' : i.closedBy = NoAlert /\ i.key = Address(b)' =>
                 \E n \in 1..Len(sends[f].requests) : Closes(sends[f].requests[n], i)
  BY <1>2, <1>4, <1>5, <1>15, <1>16, <1>17, IncidentsKeep
<1>20. \A b \in Alerts : HasOpen(b) => HasOpen(b)'  BY <1>14 DEF HasOpen
<1>21. Succeeds(outcome) => TakesEffect(outcome) /\ (outcome = "accepted" \/ answers)
  BY DEF Succeeds, TakesEffect
<1>22. Placed' /\ Persisted' /\ Given'
  <2>1. memory'[sends[e].alert].key # NoKey \/ ~Succeeds(outcome) \/ Style \notin {"deduplication", "fingerprint"}
    BY <1>1, <1>2, <1>4, <1>12, <1>21 DEF Given
  <2> QED  BY <1>2, <1>4, <1>5, <2>1, AnswerKeeps
<1>23. Planned'  BY <1>4, StillPlanned
<1>24. ToldAll'  BY <1>4, <1>6 DEF ToldAll
<1>25. OpenAll'
  <2>1. \A b \in Alerts : Alone(b)' <=> Alone(b)  BY <1>6, <1>12 DEF Alone, Shares
  <2>2. ASSUME NEW b \in Alerts, Alone(b), memory'[b].triggered  PROVE HasOpen(b)'
    BY <1>1, <1>4, <1>20, <2>2 DEF OpenAll, OnlyOf
  <2>3. ASSUME Succeeds(outcome), Alone(a)  PROVE HasOpen(a)'
    <3>1. PICK j \in incidents' : j.key = key /\ j.closedBy = NoAlert  BY <1>14, <1>21, <2>3
    <3>2. CASE j.by = a  BY <3>1, <3>2 DEF HasOpen
    <3>3. CASE j.by # a
      <4>1. j \in incidents /\ j.by \in Alerts  BY <1>14, <3>3 DEF Incident
      <4>2. CASE Style \in ByEndpoint
        <5>1. j.key = <<"endpoint", endpointOf[j.by]>> /\ key = <<"endpoint", endpointOf[a]>>
          BY <1>1, <1>3, <4>1, <4>2 DEF Keyed, Address, ByEndpoint
        <5>4. \A x, y : <<"endpoint", x>> = <<"endpoint", y>> => x = y  OBVIOUS
        <5>5. <<"endpoint", endpointOf[j.by]>> = <<"endpoint", endpointOf[a]>>  BY <3>1, <5>1
        <5>2. endpointOf[j.by] = endpointOf[a]  BY ONLY <5>4, <5>5
        <5>3. Shares(j.by, a)  BY <4>2, <5>2 DEF Shares
        <5> QED  BY <2>3, <3>3, <4>1, <5>3 DEF Alone
      <4>3. CASE Style \notin ByEndpoint
        <5>1. HasKey(j.by, key)  BY <3>1, <4>1 DEF HasKey
        <5>2. key \in UsedKeys /\ (HasKey(a, key) => a = j.by)  BY <1>1, <1>4, <4>1, <4>3, <5>1 DEF Keyed
        <5>3. key # NewKey  BY <1>1, <5>2, KeysAreKeys
        <5>4. key = memory[a].key  BY <1>3, <4>3, <5>3 DEF Address
        <5> QED  BY <3>3, <5>2, <5>4 DEF HasKey
      <4> QED  BY <4>2, <4>3
    <3> QED  BY <3>2, <3>3
  <2>4. ASSUME NEW f \in Endpoints, sends'[f] # Idle, ~sends'[f].resolved, Len(sends'[f].requests) = 0,
               NEW b \in Alerts, b = sends'[f].alert, Alone(b)
        PROVE  HasOpen(b)'
    <3>1. CASE f = e  BY <1>8, <1>9, <2>3, <2>4, <3>1
    <3>2. CASE f # e
      <4>1. HasOpen(b)  BY <1>1, <1>4, <1>7, <2>4, <3>2 DEF OpenAll
      <4> QED  BY <1>20, <4>1
    <3> QED  BY <3>1, <3>2
  <2>5. ASSUME NEW f \in Endpoints, sends'[f] # Idle, ~sends'[f].resolved, Len(sends'[f].requests) = 0, Alone(sends[f].alert)'
        PROVE  HasOpen(sends[f].alert)'
    <3>1. PICK b \in Alerts : b = sends'[f].alert  BY <1>15, <2>5, SendIsOne DEF Known, Sending
    <3>2. Alone(b)'  BY <2>5, <3>1
    <3>3. HasOpen(b)'  BY <2>1, <2>4, <2>5, <3>1, <3>2
    <3> QED  BY <3>1, <3>3
  <2> QED  BY <1>6, <2>1, <2>2, <2>5 DEF OpenAll
<1>26. ToBeClosed'
  <2>1. ASSUME NEW f \in Endpoints, sends'[f] # Idle, NEW n \in 1..Len(sends'[f].requests), sends'[f].requests[n].op = "close"
        PROVE  /\ sends'[f].requests[n].of \in 1..Cardinality(incidents')
               /\ \A i \in incidents' : i.id = sends'[f].requests[n].of => OfOneOf(i, f)
    <3>1. \E m \in 1..Len(sends[f].requests) : sends'[f].requests[n] = sends[f].requests[m]
      <4>1. CASE f = e
        <5>1. n \in 1..Len(r) - 1  BY <1>8, <1>9, <2>1, <4>1
        <5>2. n + 1 \in 1..Len(r)  BY <1>6, <5>1
        <5> QED  BY <1>8, <1>10, <2>1, <4>1, <5>1, <5>2
      <4>2. CASE f # e  BY <1>7, <2>1, <4>2
      <4> QED  BY <4>1, <4>2
    <3>2. sends[f] # Idle  BY <1>7, <1>12, <2>1
    <3>3. /\ sends'[f].requests[n].of \in 1..Cardinality(incidents)
          /\ \A i \in incidents : i.id = sends'[f].requests[n].of => OfOneOf(i, f)
      BY <1>1, <2>1, <3>1, <3>2 DEF ToBeClosed
    <3> QED  BY <1>18, <3>3
  <2> QED  BY <1>6, <2>1 DEF ToBeClosed, OfOneOf
<1>27. Remembered'
  <2>1. ASSUME tellsResolved, NEW j \in incidents', j.closedBy = NoAlert, NEW b \in Alerts, b = j.by, MayForget(b)' = {}
        PROVE  j.key = Address(b)'
    <3>1. CASE Style \in ByEndpoint  BY <1>6, <1>12, <1>17, <2>1, <3>1 DEF Keyed, Address
    <3>2. CASE Style \notin ByEndpoint /\ b # a
      <4>1. j \in incidents /\ mishaps'[b] = mishaps[b] /\ memory'[b] = memory[b]  BY <1>4, <1>14, <2>1, <3>2 DEF OnlyOf
      <4>2. MayForget(b) = {}  BY <1>6, <2>1, <4>1 DEF MayForget
      <4>3. j.key = Address(b)  BY <1>1, <2>1, <4>1, <4>2 DEF Remembered
      <4> QED  BY <1>6, <3>2, <4>1, <4>3 DEF Address
    <3>3. CASE Style \notin ByEndpoint /\ b = a /\ answers
      <4>1. mishaps'[a] = {}  BY <1>6, <2>1, <3>3 DEF MayForget
      <4>2. memory[a].key = NoKey /\ outcome \notin {"lost", "unreadable"} /\ mishaps[a] = {}  BY <1>4, <3>3, <4>1
      <4>3. MayForget(a) = {}  BY <3>3, <4>2 DEF MayForget
      <4>4. j \notin incidents
        <5>1. ASSUME j \in incidents  PROVE FALSE
          <6>1. j.key = Address(a)  BY <1>1, <2>1, <3>3, <4>3, <5>1 DEF Remembered
          <6>2. j.key = NoKey  BY <3>3, <4>2, <6>1 DEF Address
          <6> QED  BY <1>1, <3>3, <5>1, <6>2 DEF Keyed
        <5> QED  BY <5>1
      <4>5. j.key = NewKey  BY <1>3, <1>14, <3>3, <4>4
      <4>6. TakesEffect(outcome)  BY <1>4, <4>4
      <4>7. outcome = "accepted"  BY <4>2, <4>6 DEF TakesEffect
      <4>8. memory'[a].key = NewKey  BY <1>4, <2>1, <3>3, <4>7
      <4> QED  BY <1>6, <3>3, <4>5, <4>8 DEF Address
    <3>4. CASE Style \notin ByEndpoint /\ b = a /\ ~answers
      <4>1. Possible(outcome, "open")  BY DEF Answered
      <4>2. outcome = "unreadable" => Style = "deduplication"
        BY <1>4, <3>4, <4>1 DEF Possible, ReadsAnswer, Messages, Repeats
      <4>3. outcome # "unreadable"
        <5>1. ASSUME outcome = "unreadable"  PROVE FALSE
          <6>1. Style = "deduplication" /\ "unreadable" \in mishaps'[a]  BY <1>4, <4>2, <5>1
          <6>2. MayForget(b)' = mishaps'[b] \cap {"crash", "unreadable"}  BY <1>6, <6>1 DEF MayForget
          <6> QED  BY <2>1, <3>4, <6>1, <6>2
        <5> QED  BY <5>1
      <4>4. memory'[a].key = memory[a].key /\ key = memory[a].key  BY <1>3, <1>4, <3>4, <4>3 DEF Address
      <4>5. CASE j \notin incidents  BY <1>6, <1>14, <3>4, <4>4, <4>5 DEF Address
      <4>6. CASE j \in incidents
        <5>1. \A m \in mishaps[a] : m \in mishaps'[a]  BY <1>4
        <5>2. MayForget(b)' = IF Style = "deduplication" THEN mishaps'[b] \cap {"crash", "unreadable"} ELSE mishaps'[b] \cap {"crash"}
          BY <1>6, <1>13, <3>4 DEF MayForget
        <5>3. MayForget(b) = IF Style = "deduplication" THEN mishaps[b] \cap {"crash", "unreadable"} ELSE mishaps[b] \cap {"crash"}
          BY <1>13, <3>4 DEF MayForget
        <5>4. MayForget(b) = {}  BY <2>1, <3>4, <5>1, <5>2, <5>3
        <5>5. j.key = Address(b)  BY <1>1, <2>1, <4>6, <5>4 DEF Remembered
        <5> QED  BY <1>6, <3>4, <4>4, <5>5 DEF Address
      <4> QED  BY <4>5, <4>6
    <3> QED  BY <3>1, <3>2, <3>3, <3>4
  <2>2. ASSUME tellsResolved, NEW j \in incidents', j.closedBy = NoAlert, MayForget(j.by)' = {}
        PROVE  j.key = Address(j.by)'
    <3>1. PICK b \in Alerts : b = j.by  BY <1>14 DEF Incident
    <3>2. MayForget(b)' = {}  BY <2>2, <3>1
    <3>3. j.key = Address(b)'  BY <2>1, <2>2, <3>1, <3>2
    <3> QED  BY <3>1, <3>3
  <2> QED  BY <1>12, <2>2 DEF Remembered
<1>28. Remaining'
  <2>1. ASSUME NEW f \in Endpoints, sends'[f] # Idle, sends'[f].resolved, NEW b \in Alerts, b = sends'[f].alert,
               NEW i \in incidents', i.closedBy = NoAlert, i.key = Address(b)'
        PROVE  \E n \in 1..Len(sends'[f].requests) : Closes(sends'[f].requests[n], i)
    <3>1. CASE f = e
      <4>1. Succeeds(outcome) /\ sends[e].resolved  BY <1>8, <1>9, <2>1, <3>1
      <4>2. Closing(r) /\ r[1].op = "open"  BY <1>1, <1>4, <1>12, <4>1 DEF Planned
      <4>3. Len(r) = 2 /\ r[2].op = "resolve"
        <5>1. CASE Style \in {"issues", "tasks"}
          <6>1. (Len(r) = 1 /\ r[1].op = "list") \/ \A n \in 1..Len(r) : r[n].op = "close"  BY <4>2, <5>1 DEF Closing
          <6>2. 1 \in 1..Len(r)  BY <1>6
          <6> QED  BY <4>2, <6>1, <6>2
        <5>2. CASE Style \notin {"issues", "tasks"}
          <6>1. \/ Len(r) = 0
                \/ Len(r) = 1 /\ r[1].op = "resolve"
                \/ Len(r) = 2 /\ r[1].op = "open" /\ r[2].op = "resolve"
            BY <4>2, <5>2 DEF Closing
          <6> QED  BY <1>6, <4>2, <6>1
        <5> QED  BY <5>1, <5>2
      <4>4. Len(sends'[e].requests) = 1 /\ sends'[e].requests[1] = r[2]  BY <1>9, <1>10, <4>1, <4>3
      <4>5. 1 \in 1..Len(sends'[f].requests) /\ sends'[f].requests[1].op = "resolve"  BY <3>1, <4>3, <4>4
      <4> QED  BY <4>5 DEF Closes
    <3>2. CASE f # e  BY <1>7, <1>19, <2>1, <3>2
    <3> QED  BY <3>1, <3>2
  <2>2. ASSUME NEW f \in Endpoints, sends'[f] # Idle, sends'[f].resolved,
               NEW i \in incidents', i.closedBy = NoAlert, i.key = Address(sends[f].alert)'
        PROVE  \E n \in 1..Len(sends'[f].requests) : Closes(sends'[f].requests[n], i)
    <3>1. PICK b \in Alerts : b = sends'[f].alert  BY <1>15, <2>2, SendIsOne DEF Known, Sending
    <3>2. i.key = Address(b)'  BY <2>2, <3>1
    <3> QED  BY <2>1, <2>2, <3>1, <3>2
  <2> QED  BY <2>2 DEF Remaining, Closes
<1> QED  BY <1>15, <1>17, <1>18, <1>22, <1>23, <1>24, <1>25, <1>26, <1>27, <1>28 DEF DeliveryInv

-----------------------------------------------------------------------------
(* Incidents are closed *)

\* The endpoint is known by what it is called.
LEMMA EndpointsApart == \A x, y : <<"endpoint", x>> = <<"endpoint", y>> => x = y
OBVIOUS

\* What is closed on behalf of alert a.
CloseWhich(a, outcome, which) ==
    /\ incidents' = IF TakesEffect(outcome) THEN Closed(a, which) ELSE incidents
    /\ told' = told /\ keys' = keys /\ OnlyOf(a)
    /\ memory'[a].key = memory[a].key \/ memory'[a].key = NoKey
    /\ mishaps' \in [Alerts -> SUBSET {"another incident", "lost", "unreadable", "crash"}]
    /\ \A b \in Alerts : (\A m \in mishaps[b] : m \in mishaps'[b]) /\ (b # a => mishaps'[b] = mishaps[b])
OnlyShared(a, which) == \A i \in which : i \in incidents /\ i.closedBy = NoAlert => i.by = a \/ Shares(a, i.by)

\* What is closed does not break the numbers and keys of the incidents.
LEMMA CloseWhichIs ==
    ASSUME Known, Numbered, Keyed, NEW a \in Alerts, NEW outcome, NEW which, CloseWhich(a, outcome, which), OnlyShared(a, which),
           UNCHANGED <<type, endpointOf, rows>>
    PROVE  /\ incidents' \in SUBSET Incident
           /\ \A j \in incidents' : \E i \in incidents :
                Follows(j, i, a) /\ (TakesEffect(outcome) /\ i \in which => j.closedBy # NoAlert)
           /\ OpensAndCloses(a, Address(a)) /\ (Known' => Keyed')
           /\ \A i \in incidents : i.key # NoKey
           /\ \A i \in incidents' : i.key # NoKey
<1>1. Style' = Style /\ a # NoAlert  BY ServiceStays, DeliveryAssumption
<1>2. PICK new : new = incidents'  OBVIOUS
<1>3. /\ IsFiniteSet(incidents) /\ (\A i \in incidents : i.id \in 1..Cardinality(incidents))
      /\ (\A i, j \in incidents : i.id = j.id => i = j) /\ incidents \in SUBSET Incident /\ Cardinality(incidents) \in Nat
  BY FS_CardinalityType DEF Numbered, Known
<1>4. /\ new \in SUBSET Incident
      /\ \A j \in new : \E i \in incidents : Follows(j, i, a) /\ (TakesEffect(outcome) /\ i \in which => j.closedBy # NoAlert)
      /\ \A i \in incidents : i.closedBy = NoAlert /\ i.by # a /\ ~Shares(a, i.by) => i \in new
      /\ IsFiniteSet(new) /\ \A i \in new : i.id \in 1..Cardinality(new)
      /\ \A i, j \in new : i.id = j.id => i = j
      /\ Cardinality(new) = Cardinality(incidents)
  <2>1. CASE TakesEffect(outcome)
    <3>1. new = Closed(a, which)  BY <1>2, <2>1 DEF CloseWhich
    <3>2. /\ new \in SUBSET Incident
          /\ \A j \in new : \E i \in incidents :
               /\ j.id = i.id /\ j.key = i.key /\ j.by = i.by
               /\ IF i \in which /\ i.closedBy = NoAlert THEN j.closedBy = a ELSE j = i
          /\ \A i \in incidents : (i \notin which \/ i.closedBy # NoAlert) => i \in new
          /\ IsFiniteSet(new) /\ \A i \in new : i.id \in 1..Cardinality(new)
      BY <3>1, ClosedIs
    <3>3. (\A i, j \in new : i.id = j.id => i = j) /\ Cardinality(new) = Cardinality(incidents)
      BY <3>1, ClosedIs
    <3>4. ASSUME NEW j \in new
          PROVE  \E i \in incidents : Follows(j, i, a) /\ (TakesEffect(outcome) /\ i \in which => j.closedBy # NoAlert)
      <4>1. PICK i \in incidents :
               /\ j.id = i.id /\ j.key = i.key /\ j.by = i.by
               /\ IF i \in which /\ i.closedBy = NoAlert THEN j.closedBy = a ELSE j = i
        BY <3>2
      <4>2. CASE i \in which /\ i.closedBy = NoAlert
        <5>1. j.closedBy = a /\ (i.by = a \/ Shares(a, i.by))  BY <4>1, <4>2 DEF OnlyShared
        <5>2. Follows(j, i, a)  BY <4>1, <4>2, <5>1 DEF Follows
        <5> QED  BY <1>1, <5>1, <5>2
      <4>3. CASE ~(i \in which /\ i.closedBy = NoAlert)
        <5>1. j = i  BY <4>1, <4>3
        <5>2. Follows(j, i, a)  BY <5>1 DEF Follows
        <5> QED  BY <4>3, <5>1, <5>2
      <4> QED  BY <4>2, <4>3
    <3>5. \A i \in incidents : i.closedBy = NoAlert /\ i.by # a /\ ~Shares(a, i.by) => i \in new
      BY <3>2 DEF OnlyShared
    <3> QED  BY <3>2, <3>3, <3>4, <3>5
  <2>2. CASE ~TakesEffect(outcome)
    <3>1. new = incidents  BY <1>2, <2>2 DEF CloseWhich
    <3>2. \A i \in incidents : Follows(i, i, a)  BY DEF Follows
    <3> QED  BY <1>3, <2>2, <3>1, <3>2
  <2> QED  BY <2>1, <2>2
<1>5. OpensAndCloses(a, Address(a))
  <2>1. \A b \in Alerts : b # a => mishaps'[b] = mishaps[b]  BY DEF CloseWhich
  <2>2. Cardinality(new) \in Nat /\ Cardinality(incidents) <= Cardinality(new)  BY <1>3, <1>4
  <2>3. \A j \in new : \E i \in incidents : Follows(j, i, a)  BY <1>4
  <2> QED  BY <1>2, <1>3, <1>4, <2>1, <2>2, <2>3 DEF OpensAndCloses
<1>6. \A i \in incidents : i.key # NoKey
  <2>1. CASE Style \in ByEndpoint
    <3>1. \A i \in incidents : i.key = <<"endpoint", endpointOf[i.by]>>  BY <2>1 DEF Keyed
    <3> QED  BY <3>1 DEF NoKey
  <2>2. CASE Style \notin ByEndpoint  BY <2>2 DEF Keyed
  <2> QED  BY <2>1, <2>2
<1>7. \A j \in new : \E i \in incidents : j.key = i.key /\ j.by = i.by  BY <1>4 DEF Follows
<1>8. \A j \in incidents' : j.key # NoKey  BY <1>2, <1>6, <1>7
<1>9. ASSUME Known'  PROVE Keyed'
  <2>1. keys' = keys  BY DEF CloseWhich
  <2>2. ASSUME NEW b \in Alerts, NEW k \in AnyKey, HasKey(b, k)', k # NoKey
        PROVE  HasKey(b, k)
    <3>1. memory'[b].key = k \/ rows[b] = k \/ \E i \in new : i.by = b /\ i.key = k  BY <1>2, <2>2 DEF HasKey
    <3>2. memory'[b].key = k => memory[b].key = k  BY <2>2 DEF CloseWhich, OnlyOf
    <3>3. (\E i \in new : i.by = b /\ i.key = k) => \E i \in incidents : i.by = b /\ i.key = k
      <4>1. ASSUME NEW j \in new, j.by = b, j.key = k  PROVE \E i \in incidents : i.by = b /\ i.key = k
        <5>1. PICK i \in incidents : j.key = i.key /\ j.by = i.by  BY <1>7
        <5> QED  BY <4>1, <5>1
      <4> QED  BY <4>1
    <3> QED  BY <3>1, <3>2, <3>3 DEF HasKey
  <2>3. Style \in ByEndpoint => \A j \in incidents' : j.key = <<"endpoint", endpointOf[j.by]>>
    <3>1. ASSUME Style \in ByEndpoint, NEW j \in new  PROVE j.key = <<"endpoint", endpointOf[j.by]>>
      <4>1. PICK i \in incidents : j.key = i.key /\ j.by = i.by  BY <1>7
      <4>2. i.key = <<"endpoint", endpointOf[i.by]>>  BY <3>1 DEF Keyed
      <4> QED  BY <4>1, <4>2
    <3> QED  BY <1>2, <3>1
  <2> QED  BY <1>8, <1>9, <2>1, <2>2, <2>3, KeysStayApart
<1> QED  BY <1>2, <1>4, <1>5, <1>6, <1>8, <1>9

\* What is left open is remembered, and has a request left in a send that goes on.
LeftOpen(e, outcome, a, which) ==
    \A i \in incidents, j \in incidents' :
        Follows(j, i, a) /\ (TakesEffect(outcome) /\ i \in which => j.closedBy # NoAlert) /\ j.closedBy = NoAlert =>
            /\ j.by = a /\ MayForget(a)' = {} => j.key = Address(a)'
            /\ Succeeds(outcome) /\ j.key = Address(a)' =>
                 \E n \in 1..Len(sends[e].requests) - 1 : Closes(sends[e].requests[n + 1], j)

\* What the requests that close incidents have in common.
LEMMA ClosingKeeps ==
    ASSUME DeliveryInv, NEW e \in Endpoints, NEW outcome \in Outcomes, Answered(e, outcome), sends' = Advance(e, outcome, <<>>),
           Style \notin Messages, sends[e].resolved,
           NEW a \in Alerts, a = sends[e].alert, NEW which, CloseWhich(a, outcome, which), OnlyShared(a, which),
           Given',
           LeftOpen(e, outcome, a, which)
    PROVE  DeliveryInv'
<1> DEFINE r == sends[e].requests
           none == <<>>
<1>1. Known /\ Placed /\ Persisted /\ Planned /\ Numbered /\ Keyed /\ Given /\ ToldAll /\ OpenAll /\ ClosedByTheirs
      /\ ToBeClosed /\ Remembered /\ Remaining /\ Confirmed
  BY DEF DeliveryInv
<1>2. Answer(e, outcome, <<>>)  BY <1>1, AnsweredIs
<1>3. none \in Seq(Requested) /\ Len(none) = 0 /\ Answer(e, outcome, none)
  <2>1. none \in Seq(Requested) /\ Len(none) = 0  OBVIOUS
  <2>2. Answer(e, outcome, none)  BY <1>2
  <2> QED  BY <2>1, <2>2
<1> HIDE DEF none
<1>4. /\ Len(r) \in Nat \ {0} /\ endpointOf[a] = e
      /\ sends' \in [Endpoints -> Sending \cup {Idle}]
      /\ Style' = Style /\ Audience' = Audience
  BY <1>3, AnswerIs
<1>5. \A f \in Endpoints : f # e => sends'[f] = sends[f]  BY <1>3, AnswerIs
<1>6. ~Succeeds(outcome) => sends'[e] = Idle  BY <1>3, AnswerIs
<1>7. Succeeds(outcome) => /\ sends'[e] # Idle /\ sends'[e].alert = a /\ sends'[e].resolved
                           /\ Len(sends'[e].requests) = Len(r) - 1
  BY <1>3, AnswerIs
<1>8. Succeeds(outcome) => \A n \in 1..Len(r) - 1 : sends'[e].requests[n] = r[n + 1]  BY <1>3, AnswerIs
<1>9. \A f \in Endpoints : sends[f] # Idle => sends[f].alert \in Alerts /\ (f # e => sends[f].alert # a)  BY <1>3, AnswerIs
<1>10. UNCHANGED <<type, endpointOf, tellsResolved, rows, confirmed>> /\ troubles' \in 0..MaxTroubles /\ sends[e] # Idle
  BY <1>2 DEF Answer
<1>11. /\ incidents' \in SUBSET Incident
       /\ \A j \in incidents' : \E i \in incidents :
            Follows(j, i, a) /\ (TakesEffect(outcome) /\ i \in which => j.closedBy # NoAlert)
       /\ OpensAndCloses(a, Address(a)) /\ (Known' => Keyed')
       /\ \A i \in incidents : i.key # NoKey
       /\ \A i \in incidents' : i.key # NoKey
  BY <1>1, <1>10, CloseWhichIs
<1>12. /\ told' = told /\ keys' = keys /\ OnlyOf(a)
       /\ mishaps' \in [Alerts -> SUBSET {"another incident", "lost", "unreadable", "crash"}]
       /\ \A b \in Alerts : (\A m \in mishaps[b] : m \in mishaps'[b]) /\ (b # a => mishaps'[b] = mishaps[b])
  BY DEF CloseWhich
<1>13. Known' /\ Keyed'
  <2>1. Known'  BY <1>1, <1>4, <1>10, <1>11, <1>12 DEF Known, OnlyOf
  <2> QED  BY <1>11, <2>1
<1>14. ~memory[a].triggered /\ tellsResolved  BY <1>1, <1>10 DEF Placed
<1> DEFINE ToldOf(f, b) == \A i \in incidents' : i.closedBy = NoAlert /\ i.key = Address(b)' =>
                               \E n \in 1..Len(sends[f].requests) : Closes(sends[f].requests[n], i)
<1>15. /\ Numbered' /\ ClosedByTheirs' /\ Confirmed'
       /\ \A f \in Endpoints, x \in 1..Cardinality(incidents) :
             (\A i \in incidents : i.id = x => OfOneOf(i, f)) =>
                 x \in 1..Cardinality(incidents') /\ \A i \in incidents' : i.id = x => OfOneOf(i, f)
       /\ \A f \in Endpoints : f # e /\ sends[f] # Idle /\ sends[f].resolved =>
             \A b \in Alerts : b = sends[f].alert => ToldOf(f, b)
       /\ \A b \in Alerts : b # a /\ Alone(b) /\ HasOpen(b) => HasOpen(b)'
  <2>1. \E key \in AnyKey : key # NoKey /\ OpensAndCloses(a, key)
    <3>1. CASE Address(a) # NoKey  BY <1>1, <1>11, <3>1, KeysAreKeys
    <3>2. CASE Address(a) = NoKey
      <4>1. <<"endpoint", e>> \in AnyKey /\ <<"endpoint", e>> # NoKey  BY <1>1, KeysAreKeys
      <4>2. \A j \in incidents' : \E i \in incidents : Follows(j, i, a)  BY <1>11
      <4>3. OpensAndCloses(a, <<"endpoint", e>>)  BY <1>11, <4>2 DEF OpensAndCloses
      <4> QED  BY <4>1, <4>3
    <3> QED  BY <3>1, <3>2
  <2>2. PICK key \in AnyKey : key # NoKey /\ OpensAndCloses(a, key)  BY <2>1
  <2> QED  BY <1>3, <1>12, <1>13, <2>2, IncidentsKeep
<1> HIDE DEF ToldOf
<1>16. Placed' /\ Persisted'  BY <1>3, <1>12, AnswerKeeps
<1>17. Planned'  BY <1>2, StillPlanned
<1>18. ToldAll'  BY <1>4 DEF ToldAll
<1>19. OpenAll'
  <2>1. \A b \in Alerts : Alone(b)' <=> Alone(b)  BY <1>4, <1>10 DEF Alone, Shares
  <2>2. ASSUME NEW b \in Alerts, Alone(b), memory'[b].triggered  PROVE HasOpen(b)'
    <3>1. b # a /\ memory[b].triggered  BY <1>12, <1>14, <2>2 DEF OnlyOf
    <3>2. HasOpen(b)  BY <1>1, <2>2, <3>1 DEF OpenAll
    <3> QED  BY <1>15, <2>2, <3>1, <3>2
  <2>3. ASSUME NEW f \in Endpoints, sends'[f] # Idle, ~sends'[f].resolved, Len(sends'[f].requests) = 0,
               NEW b \in Alerts, b = sends'[f].alert, Alone(b)
        PROVE  HasOpen(b)'
    <3>1. f # e  BY <1>6, <1>7, <2>3
    <3>2. sends'[f] = sends[f] /\ b # a  BY <1>5, <1>9, <2>3, <3>1
    <3>3. HasOpen(b)  BY <1>1, <2>3, <3>2 DEF OpenAll
    <3> QED  BY <1>15, <2>3, <3>2, <3>3
  <2>4. ASSUME NEW f \in Endpoints, sends'[f] # Idle, ~sends'[f].resolved, Len(sends'[f].requests) = 0, Alone(sends[f].alert)'
        PROVE  HasOpen(sends[f].alert)'
    <3>1. PICK b \in Alerts : b = sends'[f].alert  BY <1>13, <2>4, SendIsOne DEF Known, Sending
    <3>2. Alone(b)'  BY <2>4, <3>1
    <3>3. HasOpen(b)'  BY <2>1, <2>3, <2>4, <3>1, <3>2
    <3> QED  BY <3>1, <3>3
  <2> QED  BY <1>4, <2>1, <2>2, <2>4 DEF OpenAll
<1>20. ToBeClosed'
  <2>1. ASSUME NEW f \in Endpoints, sends'[f] # Idle, NEW n \in 1..Len(sends'[f].requests), sends'[f].requests[n].op = "close"
        PROVE  /\ sends'[f].requests[n].of \in 1..Cardinality(incidents')
               /\ \A i \in incidents' : i.id = sends'[f].requests[n].of => OfOneOf(i, f)
    <3>1. \E m \in 1..Len(sends[f].requests) : sends'[f].requests[n] = sends[f].requests[m]
      <4>1. CASE f = e
        <5>1. n \in 1..Len(r) - 1  BY <1>6, <1>7, <2>1, <4>1
        <5>2. n + 1 \in 1..Len(r)  BY <1>4, <5>1
        <5> QED  BY <1>6, <1>8, <2>1, <4>1, <5>1, <5>2
      <4>2. CASE f # e  BY <1>5, <2>1, <4>2
      <4> QED  BY <4>1, <4>2
    <3>2. sends[f] # Idle  BY <1>5, <1>10, <2>1
    <3>3. /\ sends'[f].requests[n].of \in 1..Cardinality(incidents)
          /\ \A i \in incidents : i.id = sends'[f].requests[n].of => OfOneOf(i, f)
      BY <1>1, <2>1, <3>1, <3>2 DEF ToBeClosed
    <3> QED  BY <1>15, <3>3
  <2>2. Style' = Style  BY <1>4
  <2> QED  BY <2>1, <2>2 DEF ToBeClosed, OfOneOf
<1>21. Remembered'
  <2>1. ASSUME tellsResolved, NEW j \in incidents', j.closedBy = NoAlert, NEW b \in Alerts, b = j.by, MayForget(b)' = {}
        PROVE  j.key = Address(b)'
    <3>1. PICK i \in incidents : Follows(j, i, a) /\ (TakesEffect(outcome) /\ i \in which => j.closedBy # NoAlert)  BY <1>11
    <3>2. CASE b = a  BY <2>1, <3>1, <3>2 DEF LeftOpen
    <3>3. CASE b # a
      <4>1. MayForget(b) = {}  BY <1>4, <1>12, <2>1, <3>3 DEF MayForget
      <4>2. i.closedBy = NoAlert /\ i.by = b /\ i.key = j.key
        <5>1. a # NoAlert  BY DeliveryAssumption
        <5> QED  BY <2>1, <3>1, <5>1 DEF Follows
      <4>3. j.key = Address(b)  BY <1>1, <2>1, <4>1, <4>2 DEF Remembered
      <4> QED  BY <1>4, <1>10, <1>12, <3>3, <4>3 DEF Address, OnlyOf
    <3> QED  BY <3>2, <3>3
  <2>2. ASSUME tellsResolved, NEW j \in incidents', j.closedBy = NoAlert, MayForget(j.by)' = {}
        PROVE  j.key = Address(j.by)'
    <3>1. PICK b \in Alerts : b = j.by  BY <1>11 DEF Incident
    <3>2. MayForget(b)' = {}  BY <2>2, <3>1
    <3>3. j.key = Address(b)'  BY <2>1, <2>2, <3>1, <3>2
    <3> QED  BY <3>1, <3>3
  <2> QED  BY <1>10, <2>2 DEF Remembered
<1>22. Remaining'
  <2>1. ASSUME NEW f \in Endpoints, sends'[f] # Idle, sends'[f].resolved, NEW b \in Alerts, b = sends'[f].alert,
               NEW j \in incidents', j.closedBy = NoAlert, j.key = Address(b)'
        PROVE  \E n \in 1..Len(sends'[f].requests) : Closes(sends'[f].requests[n], j)
    <3>1. CASE f = e
      <4>1. Succeeds(outcome) /\ b = a  BY <1>6, <1>7, <2>1, <3>1
      <4>2. PICK i \in incidents : Follows(j, i, a) /\ (TakesEffect(outcome) /\ i \in which => j.closedBy # NoAlert)  BY <1>11
      <4>3. \E n \in 1..Len(r) - 1 : Closes(r[n + 1], j)  BY <2>1, <4>1, <4>2 DEF LeftOpen
      <4> QED  BY <1>7, <1>8, <3>1, <4>1, <4>3
    <3>2. CASE f # e
      <4>1. ToldOf(f, b)  BY <1>5, <1>15, <2>1, <3>2
      <4> QED  BY <1>5, <2>1, <3>2, <4>1 DEF ToldOf
    <3> QED  BY <3>1, <3>2
  <2>2. ASSUME NEW f \in Endpoints, sends'[f] # Idle, sends'[f].resolved,
               NEW i \in incidents', i.closedBy = NoAlert, i.key = Address(sends[f].alert)'
        PROVE  \E n \in 1..Len(sends'[f].requests) : Closes(sends'[f].requests[n], i)
    <3>1. PICK b \in Alerts : b = sends'[f].alert  BY <1>13, <2>2, SendIsOne DEF Known, Sending
    <3>2. i.key = Address(b)'  BY <2>2, <3>1
    <3> QED  BY <2>1, <2>2, <3>1, <3>2
  <2> QED  BY <2>2 DEF Remaining, Closes
<1> QED  BY <1>13, <1>15, <1>16, <1>17, <1>18, <1>19, <1>20, <1>21, <1>22 DEF DeliveryInv

\* A request that closes incidents is one of a resolution that is sent to a service that keeps them.
LEMMA ClosesAre ==
    ASSUME DeliveryInv, NEW e \in Endpoints, NEW outcome, Answered(e, outcome), sends[e].requests[1].op \in {"resolve", "list", "close"}
    PROVE  /\ Style \notin Messages /\ sends[e].resolved /\ sends[e].alert \in Alerts /\ Len(sends[e].requests) \in Nat \ {0}
           /\ endpointOf[sends[e].alert] = e /\ Closing(sends[e].requests)
           /\ sends[e].requests[1].op \in {"list", "close"} <=> Style \in {"issues", "tasks"}
<1> DEFINE r == sends[e].requests
<1>1. Known /\ Placed /\ Planned  BY DEF DeliveryInv
<1>2. sends[e] # Idle /\ r # <<>>  BY DEF Answered
<1>3. r \in Seq(Requested) /\ Len(r) \in Nat /\ sends[e].alert \in Alerts /\ endpointOf[sends[e].alert] = e
  BY <1>1, <1>2, SendIsOne DEF Placed
<1>4. Len(r) # 0  BY <1>2, <1>3, NothingLeft
<1>5. 1 \in 1..Len(r)  BY <1>3, <1>4
<1>6. Style \notin Messages /\ sends[e].resolved /\ Closing(r)
  <2>1. CASE Style \in Messages  BY <1>1, <1>2, <1>5, <2>1 DEF Planned, Telling
  <2>2. CASE Style \notin Messages /\ ~sends[e].resolved
    <3>1. Opening(r)  BY <1>1, <1>2, <2>2 DEF Planned
    <3> QED  BY <1>5, <3>1 DEF Opening
  <2>3. CASE Style \notin Messages /\ sends[e].resolved  BY <1>1, <1>2, <2>3 DEF Planned
  <2> QED  BY <2>1, <2>2, <2>3
<1>7. r[1].op \in {"list", "close"} <=> Style \in {"issues", "tasks"}
  <2>1. CASE Style \in {"issues", "tasks"}  BY <1>5, <1>6, <2>1 DEF Closing
  <2>2. CASE Style \notin {"issues", "tasks"}
    <3>1. \/ Len(r) = 0
          \/ Len(r) = 1 /\ r[1].op = "resolve"
          \/ Len(r) = 2 /\ r[1].op = "open" /\ r[2].op = "resolve"
      BY <1>6, <2>2 DEF Closing
    <3>2. r[1].op \in {"resolve", "open"}  BY <1>4, <3>1
    <3> QED  BY <2>2, <3>2
  <2> QED  BY <2>1, <2>2
<1> QED  BY <1>3, <1>4, <1>6, <1>7

\* What a request to close the incident of a key or of an alias keeps.
LEMMA CloseKeeps ==
    ASSUME DeliveryInv, NEW e \in Endpoints, NEW outcome \in Outcomes, Answered(e, outcome),
           sends[e].requests[1].op = "resolve", Close(e, outcome)
    PROVE  DeliveryInv'
<1> DEFINE r == sends[e].requests
<1>1. Known /\ Placed /\ Planned /\ Numbered /\ Keyed /\ Given /\ Remembered /\ Remaining  BY DEF DeliveryInv
<1>2. /\ Style \notin Messages \cup {"issues", "tasks"} /\ sends[e].resolved /\ Len(r) \in Nat \ {0}
      /\ endpointOf[sends[e].alert] = e /\ Closing(r) /\ sends[e].alert \in Alerts
  BY ClosesAre
<1>3. PICK a \in Alerts : a = sends[e].alert  BY <1>2
<1>4. sends[e] # Idle /\ UNCHANGED <<type, endpointOf, tellsResolved, rows, confirmed>>  BY DEF Answered
<1>5. Style' = Style /\ a # NoAlert /\ tellsResolved
  <2>1. tellsResolved  BY <1>1, <1>2, <1>4 DEF Placed
  <2> QED  BY <1>4, <2>1, ServiceStays, DeliveryAssumption
<1>6. Style \in ByEndpoint \cup {"answered key", "deduplication", "fingerprint"}
  BY <1>1, <1>2, StyleIsOne DEF Known, Style, Styles
<1> DEFINE which == {i \in incidents : i.key = Address(a)}
           forgets == \/ Style \in {"answered key", "alias, created and closed"} /\ outcome = "accepted"
                      \/ Style = "deduplication" /\ outcome = "unreadable"
<1>7. /\ incidents' = IF TakesEffect(outcome) THEN Closed(a, which) ELSE incidents
      /\ memory' = IF forgets THEN [memory EXCEPT ![a].key = NoKey] ELSE memory
      /\ mishaps' = [mishaps EXCEPT ![a] = @ \cup ({outcome} \cap {"unreadable"})]
      /\ sends' = Advance(e, outcome, <<>>) /\ told' = told /\ keys' = keys
  BY <1>3 DEF Close, Kept
<1>8. forgets => TakesEffect(outcome)  BY DEF TakesEffect
<1>9. forgets /\ Succeeds(outcome) => Style \notin {"deduplication", "fingerprint"}  BY DEF Succeeds
<1>10. Succeeds(outcome) => TakesEffect(outcome)  BY DEF Succeeds, TakesEffect
<1>11. \A i \in incidents : i \in which <=> i.key = Address(a)  OBVIOUS
<1> HIDE DEF forgets, which
<1>12. CloseWhich(a, outcome, which)
  <2>1. memory \in [Alerts -> [triggered : BOOLEAN, key : AnyKey]] /\ NoKey \in AnyKey  BY <1>1, KeysAreKeys DEF Known
  <2>2. OnlyOf(a) /\ (memory'[a].key = memory[a].key \/ memory'[a].key = NoKey)
    BY <1>7, <2>1 DEF OnlyOf
  <2>3. mishaps \in [Alerts -> SUBSET {"another incident", "lost", "unreadable", "crash"}]  BY <1>1 DEF Known
  <2>4. /\ mishaps' \in [Alerts -> SUBSET {"another incident", "lost", "unreadable", "crash"}]
        /\ \A b \in Alerts : (\A m \in mishaps[b] : m \in mishaps'[b]) /\ (b # a => mishaps'[b] = mishaps[b])
    BY <1>7, <2>3
  <2> QED  BY <1>7, <2>2, <2>4 DEF CloseWhich
<1>13. OnlyShared(a, which)
  <2>1. ASSUME NEW i \in incidents, i.key = Address(a)  PROVE i.by = a \/ Shares(a, i.by)
    <3>1. i.by \in Alerts  BY <1>1 DEF Known, Incident
    <3>2. CASE Style \in ByEndpoint
      <4>1. <<"endpoint", endpointOf[i.by]>> = <<"endpoint", endpointOf[a]>>  BY <1>1, <2>1, <3>2 DEF Keyed, Address
      <4>2. endpointOf[i.by] = endpointOf[a]  BY <4>1, EndpointsApart
      <4> QED  BY <3>2, <4>2 DEF Shares
    <3>3. CASE Style \notin ByEndpoint
      <4>1. memory[a].key = i.key /\ i.key # NoKey /\ i.key \in AnyKey
        BY <1>1, <2>1, <3>3 DEF Address, Keyed, Known, Incident
      <4>2. HasKey(i.by, i.key) /\ HasKey(a, i.key)  BY <4>1 DEF HasKey
      <4> QED  BY <1>1, <3>1, <3>3, <4>1, <4>2 DEF Keyed
    <3> QED  BY <3>2, <3>3
  <2> QED  BY <1>11, <2>1 DEF OnlyShared
<1>14. Given'
  <2>1. CASE Style \in {"deduplication", "fingerprint"}
    <3>1. memory[a].key # NoKey  BY <1>1, <1>3, <1>4, <2>1 DEF Given
    <3>2. memory'[a].key # NoKey \/ ~Succeeds(outcome)  BY <1>7, <1>9, <2>1, <3>1
    <3> DEFINE none == <<>>
    <3>3. none \in Seq(Requested) /\ Answer(e, outcome, none)
      <4>1. Answer(e, outcome, <<>>)  BY <1>1, <1>7, AnsweredIs
      <4>2. Answer(e, outcome, none)  BY <4>1
      <4> QED  BY <4>2
    <3> HIDE DEF none
    <3>4. OnlyOf(sends[e].alert)  BY <1>3, <1>12 DEF CloseWhich
    <3>5. memory'[sends[e].alert].key # NoKey \/ ~Succeeds(outcome) \/ Style \notin {"deduplication", "fingerprint"}
      BY <1>3, <3>2
    <3> QED  BY <3>3, <3>4, <3>5, AnswerKeeps
  <2>2. CASE Style \notin {"deduplication", "fingerprint"}  BY <1>5, <2>2 DEF Given
  <2> QED  BY <2>1, <2>2
<1>15. ASSUME NEW i \in incidents, NEW j \in incidents',
              Follows(j, i, a) /\ (TakesEffect(outcome) /\ i \in which => j.closedBy # NoAlert) /\ j.closedBy = NoAlert
       PROVE  /\ j.by = a /\ MayForget(a)' = {} => j.key = Address(a)'
              /\ Succeeds(outcome) /\ j.key = Address(a)' => \E n \in 1..Len(r) - 1 : Closes(r[n + 1], j)
  <2>1. i.closedBy = NoAlert /\ j.key = i.key /\ j.by = i.by  BY <1>5, <1>15 DEF Follows
  <2>2. TakesEffect(outcome) => j.key # Address(a)  BY <1>11, <1>15, <2>1
  <2>3. j.key # NoKey /\ incidents' \in SUBSET Incident  BY <1>1, <1>4, <1>12, <1>13, CloseWhichIs
  <2>4. Address(a)' = Address(a) \/ (TakesEffect(outcome) /\ Address(a)' = NoKey)
    <3>1. CASE Style \in ByEndpoint  BY <1>4, <1>5, <3>1 DEF Address
    <3>2. CASE Style \notin ByEndpoint
      <4>1. Address(a) = memory[a].key /\ Address(a)' = memory'[a].key  BY <1>5, <3>2 DEF Address
      <4>2. memory'[a].key = memory[a].key \/ (TakesEffect(outcome) /\ memory'[a].key = NoKey)
        BY <1>7, <1>8, <1>12 DEF CloseWhich
      <4> QED  BY <4>1, <4>2
    <3> QED  BY <3>1, <3>2
  <2>5. Succeeds(outcome) => j.key # Address(a)'  BY <1>10, <2>2, <2>3, <2>4
  <2>6. ASSUME j.by = a, MayForget(a)' = {}  PROVE j.key = Address(a)'
    <3>1. CASE Style \in ByEndpoint
      <4>1. Known' => Keyed'  BY <1>1, <1>4, <1>12, <1>13, CloseWhichIs
      <4>2. i.key = <<"endpoint", endpointOf[i.by]>>  BY <1>1, <3>1 DEF Keyed
      <4> QED  BY <1>4, <1>5, <2>1, <2>6, <3>1, <4>2 DEF Address
    <3>2. CASE Style \notin ByEndpoint
      <4>1. \A m \in mishaps[a] : m \in mishaps'[a]  BY <1>12 DEF CloseWhich
      <4>2. /\ Style = "answered key" => MayForget(a)' = mishaps'[a] /\ MayForget(a) = mishaps[a]
            /\ Style = "deduplication" =>
                 MayForget(a)' = mishaps'[a] \cap {"crash", "unreadable"} /\ MayForget(a) = mishaps[a] \cap {"crash", "unreadable"}
            /\ Style = "fingerprint" => MayForget(a)' = mishaps'[a] \cap {"crash"} /\ MayForget(a) = mishaps[a] \cap {"crash"}
        BY <1>5 DEF MayForget
      <4>3. MayForget(a) = {}  BY <1>6, <2>6, <3>2, <4>1, <4>2
      <4>4. j.key = Address(a)  BY <1>1, <1>5, <2>1, <2>6, <4>3 DEF Remembered
      <4>5. ~TakesEffect(outcome)  BY <2>2, <4>4
      <4> QED  BY <2>4, <4>4, <4>5
    <3> QED  BY <3>1, <3>2
  <2> QED  BY <2>5, <2>6
<1>16. LeftOpen(e, outcome, a, which)  BY <1>15 DEF LeftOpen
<1>17. Style \notin Messages /\ sends[e].resolved /\ sends' = Advance(e, outcome, <<>>)  BY <1>2, <1>7
<1> QED  BY <1>3, <1>12, <1>13, <1>14, <1>16, <1>17, ClosingKeeps

\* What a request to close one of the incidents that were listed keeps.
LEMMA CloseOneKeeps ==
    ASSUME DeliveryInv, NEW e \in Endpoints, NEW outcome \in Outcomes, Answered(e, outcome),
           sends[e].requests[1].op = "close", CloseOne(e, outcome)
    PROVE  DeliveryInv'
<1> DEFINE r == sends[e].requests
<1>1. Known /\ Placed /\ Planned /\ Numbered /\ Keyed /\ Given /\ ToBeClosed /\ Remembered /\ Remaining  BY DEF DeliveryInv
<1>2. /\ Style \notin Messages /\ Style \in {"issues", "tasks"} /\ sends[e].resolved /\ Len(r) \in Nat \ {0}
      /\ endpointOf[sends[e].alert] = e /\ sends[e].alert \in Alerts
  BY ClosesAre
<1>3. PICK a \in Alerts : a = sends[e].alert  BY <1>2
<1>4. sends[e] # Idle /\ UNCHANGED <<type, endpointOf, tellsResolved, rows, confirmed>>  BY DEF Answered
<1>5. Style' = Style /\ a # NoAlert /\ Style \in ByEndpoint /\ Style \notin {"deduplication", "fingerprint"}
  BY <1>2, <1>4, ServiceStays, DeliveryAssumption DEF ByEndpoint
<1> DEFINE which == {i \in incidents : i.id = r[1].of}
<1>6. /\ incidents' = IF TakesEffect(outcome) THEN Closed(a, which) ELSE incidents
      /\ sends' = Advance(e, outcome, <<>>) /\ UNCHANGED <<memory, told, keys, mishaps>>
  BY <1>3 DEF CloseOne
<1>7. \A i \in incidents : i \in which <=> i.id = r[1].of  OBVIOUS
<1> HIDE DEF which
<1>8. CloseWhich(a, outcome, which)  BY <1>1, <1>6 DEF CloseWhich, OnlyOf, Known
<1>9. OnlyShared(a, which)
  <2>1. ASSUME NEW i \in incidents, i.id = r[1].of  PROVE i.by = a \/ Shares(a, i.by)
    <3>1. OfOneOf(i, e)
      <4>1. 1 \in 1..Len(r)  BY <1>2
      <4> QED  BY <1>1, <1>4, <2>1, <4>1 DEF ToBeClosed
    <3>2. i.key = <<"endpoint", endpointOf[i.by]>>  BY <1>1, <1>5 DEF Keyed
    <3>3. CASE i.key = <<"endpoint", e>>
      <4>1. endpointOf[i.by] = e  BY <3>2, <3>3, EndpointsApart
      <4> QED  BY <1>2, <1>3, <1>5, <4>1 DEF Shares
    <3>4. CASE Style = "tasks" /\ \E other \in Endpoints : <<e, other>> \in Contained /\ i.key = <<"endpoint", other>>
      <4>1. PICK other \in Endpoints : <<e, other>> \in Contained /\ i.key = <<"endpoint", other>>  BY <3>4
      <4>2. endpointOf[i.by] = other  BY <3>2, <4>1, EndpointsApart
      <4> QED  BY <1>2, <1>3, <1>5, <3>4, <4>1, <4>2 DEF Shares
    <3> QED  BY <3>1, <3>3, <3>4 DEF OfOneOf
  <2> QED  BY <1>7, <2>1 DEF OnlyShared
<1>10. Given'  BY <1>5 DEF Given
<1>11. ASSUME NEW i \in incidents, NEW j \in incidents',
              Follows(j, i, a) /\ (TakesEffect(outcome) /\ i \in which => j.closedBy # NoAlert) /\ j.closedBy = NoAlert
       PROVE  /\ j.by = a /\ MayForget(a)' = {} => j.key = Address(a)'
              /\ Succeeds(outcome) /\ j.key = Address(a)' => \E n \in 1..Len(r) - 1 : Closes(r[n + 1], j)
  <2>1. i.closedBy = NoAlert /\ j.key = i.key /\ j.by = i.by /\ j.id = i.id  BY <1>5, <1>11 DEF Follows
  <2>2. Address(a)' = Address(a) /\ Address(a) = <<"endpoint", endpointOf[a]>>  BY <1>4, <1>5 DEF Address
  <2>3. j.by = a => j.key = Address(a)'
    <3>1. i.key = <<"endpoint", endpointOf[i.by]>>  BY <1>1, <1>5 DEF Keyed
    <3> QED  BY <2>1, <2>2, <3>1
  <2>4. ASSUME Succeeds(outcome), j.key = Address(a)'  PROVE \E n \in 1..Len(r) - 1 : Closes(r[n + 1], j)
    <3>1. TakesEffect(outcome)  BY <2>4 DEF Succeeds, TakesEffect
    <3>2. i.id # r[1].of  BY <1>7, <1>11, <3>1
    <3>3. PICK n \in 1..Len(r) : Closes(r[n], i)  BY <1>1, <1>2, <1>3, <1>4, <2>1, <2>2, <2>4 DEF Remaining
    <3>4. n # 1  BY <3>2, <3>3 DEF Closes
    <3>5. n - 1 \in 1..Len(r) - 1 /\ (n - 1) + 1 = n  BY <1>2, <3>4
    <3>6. Closes(r[n], j)  BY <2>1, <3>3 DEF Closes
    <3> QED  BY <3>5, <3>6
  <2> QED  BY <2>3, <2>4
<1>12. LeftOpen(e, outcome, a, which)  BY <1>11 DEF LeftOpen
<1>13. Style \notin Messages /\ sends[e].resolved /\ sends' = Advance(e, outcome, <<>>)  BY <1>2, <1>6
<1> QED  BY <1>3, <1>8, <1>9, <1>10, <1>12, <1>13, ClosingKeeps

-----------------------------------------------------------------------------
(* The open incidents are listed *)

\* What closes the incidents of an endpoint: a request for each of them.
ClosesEach(e, more) ==
    /\ \A n \in 1..Len(more) : more[n].op = "close" /\ \E i \in OfTheEndpoint(e) : more[n].of = i.id
    /\ \A i \in OfTheEndpoint(e) : \E n \in 1..Len(more) : more[n].of = i.id

\* The requests that follow a list close everything that was listed.
LEMMA ListedAre ==
    ASSUME Known, Numbered, NEW e \in Endpoints, NEW closing \in Listed(e)
    PROVE  closing \in Seq(Requested) /\ ClosesEach(e, closing)
<1> DEFINE found == OfTheEndpoint(e)
           c == Cardinality(found)
<1>1. /\ IsFiniteSet(incidents) /\ incidents \in SUBSET Incident
      /\ \A i \in incidents : i.id \in 1..Cardinality(incidents)
  BY DEF Numbered, Known
<1>2. found \subseteq incidents  BY DEF OfTheEndpoint
<1>3. IsFiniteSet(found)  BY <1>1, <1>2, FS_Subset
<1>4. c \in Nat  BY <1>3, FS_CardinalityType
<1>5. PICK order \in [1..c -> found] :
         /\ \A i, j \in DOMAIN order : i < j => order[i].id < order[j].id
         /\ closing = [i \in DOMAIN order |-> ServiceRequest("close", order[i].id)]
  BY DEF Listed
<1> HIDE DEF found, c
<1>6. \A i \in found : i.id \in Nat  BY <1>1, <1>2 DEF Incident
<1>7. DOMAIN order = 1..c /\ \A n \in 1..c : order[n] \in found /\ order[n].id \in Nat  BY <1>5, <1>6
<1>8. order \in Injection(1..c, found)
  <2>1. ASSUME NEW m \in 1..c, NEW n \in 1..c, order[m] = order[n]  PROVE m = n
    <3>1. m < n => order[m].id < order[n].id  BY <1>5, <1>7
    <3>2. n < m => order[n].id < order[m].id  BY <1>5, <1>7
    <3>3. ~(order[m].id < order[n].id) /\ ~(order[n].id < order[m].id)  BY <1>7, <2>1
    <3>4. m \in Nat /\ n \in Nat  BY <1>4
    <3> QED  BY <3>1, <3>2, <3>3, <3>4
  <2> QED  BY <1>5, <1>7, <2>1 DEF Injection, IsInjective
<1>9. order \in Surjection(1..c, found)
  <2>1. Cardinality(1..c) = c
    <3>1. 1 \in Int /\ c \in Int  BY <1>4
    <3>2. Cardinality(1..c) = IF 1 > c THEN 0 ELSE c - 1 + 1  BY <3>1, FS_Interval
    <3> QED  BY <1>4, <3>2
  <2> QED  BY <1>3, <1>8, <2>1, FS_Injection DEF c
<1>10. \A i \in found : \E n \in 1..c : order[n] = i  BY <1>9 DEF Surjection
<1>11. \A n \in 1..c : /\ ServiceRequest("close", order[n].id) \in Requested
                       /\ ServiceRequest("close", order[n].id).op = "close"
                       /\ ServiceRequest("close", order[n].id).of = order[n].id
  <2>1. "close" \in Ops /\ \A n \in 1..c : order[n].id \in Targets  BY <1>7 DEF Ops, Targets
  <2> QED  BY <2>1, RequestHas
<1>12. DOMAIN closing = 1..c /\ \A n \in 1..c : closing[n] = ServiceRequest("close", order[n].id)  BY <1>5, <1>7
<1>13. closing \in [1..c -> Requested]  BY <1>5, <1>7, <1>11
<1>14. closing \in Seq(Requested) /\ Len(closing) = c  BY <1>4, <1>12, <1>13
<1>15. \A n \in 1..c : closing[n].op = "close" /\ closing[n].of = order[n].id  BY <1>11, <1>12
<1> QED  BY <1>7, <1>10, <1>14, <1>15 DEF ClosesEach, found

\* What the answer to a list keeps, when Send goes on with a request for each incident and when it returns.
LEMMA ListAnswered ==
    ASSUME DeliveryInv, NEW e \in Endpoints, NEW outcome, NEW more \in Seq(Requested), Answer(e, outcome, more),
           sends[e].requests[1].op = "list", Style \in {"issues", "tasks"}, sends[e].resolved, Closing(sends[e].requests),
           Succeeds(outcome) => ClosesEach(e, more), UNCHANGED <<memory, told, incidents, keys, mishaps>>
    PROVE  DeliveryInv'
<1> DEFINE r == sends[e].requests
           l == sends'[e].requests
           a == sends[e].alert
<1>1. Known /\ Placed /\ Persisted /\ Planned /\ Numbered /\ Keyed /\ Given /\ ToldAll /\ OpenAll /\ ClosedByTheirs
      /\ ToBeClosed /\ Remembered /\ Remaining /\ Confirmed
  BY DEF DeliveryInv
<1>2. /\ a \in Alerts /\ endpointOf[a] = e /\ Len(r) \in Nat \ {0}
      /\ sends' \in [Endpoints -> Sending \cup {Idle}]
      /\ \A f \in Endpoints : f # e => sends'[f] = sends[f]
      /\ ~Succeeds(outcome) => sends'[e] = Idle
      /\ Style' = Style /\ Audience' = Audience
  BY AnswerIs
<1>3. Len(r) = 1
  <2>1. Len(r) = 1 \/ \A n \in 1..Len(r) : r[n].op = "close"  BY DEF Closing
  <2>2. 1 \in 1..Len(r)  BY <1>2
  <2> QED  BY <2>1, <2>2
<1>4. ASSUME Succeeds(outcome)
      PROVE  /\ sends'[e] # Idle /\ sends'[e].alert = a /\ sends'[e].resolved
             /\ Len(l) = Len(more) /\ \A n \in 1..Len(more) : l[n] = more[n]
  <2> DEFINE m == Len(more)
             x == Len(r)
  <2>1. /\ sends'[e] # Idle /\ sends'[e].alert = a /\ sends'[e].resolved
        /\ Len(l) = (x - 1) + m /\ \A n \in 1..m : l[(x - 1) + n] = more[n]
    BY <1>4, AnswerIs
  <2>2. m \in Nat /\ x = 1  BY <1>3, LenProperties
  <2> HIDE DEF m, x
  <2>3. Len(l) = m  BY <2>1, <2>2
  <2>4. \A n \in 1..m : (x - 1) + n = n  BY <2>2
  <2>5. \A n \in 1..m : l[n] = more[n]  BY <2>1, <2>4
  <2> QED  BY <2>1, <2>3, <2>5 DEF m
<1>5. UNCHANGED <<type, endpointOf, tellsResolved, rows, confirmed>> /\ troubles' \in 0..MaxTroubles /\ sends[e] # Idle
  BY DEF Answer
<1>6. UNCHANGED <<memory, told, incidents, keys, mishaps>>  OBVIOUS
<1>7. Known'  BY <1>1, <1>2, <1>5, <1>6 DEF Known
<1>8. OnlyOf(a)  BY <1>1, <1>6 DEF OnlyOf, Known
<1>9. Style \in ByEndpoint /\ Style \notin Messages /\ Style \notin {"deduplication", "fingerprint"}
  BY DEF ByEndpoint, Messages, Repeats
<1>10. Placed' /\ Persisted' /\ Given' /\ \A f \in Endpoints : sends'[f] # Idle => sends'[f].alert \notin confirmed'
  BY <1>8, <1>9, AnswerKeeps
<1>11. Planned'
  <2>1. ASSUME NEW f \in Endpoints, sends'[f] # Idle
        PROVE  IF sends'[f].resolved THEN Closing(sends'[f].requests) ELSE Opening(sends'[f].requests)
    <3>1. CASE f = e
      <4>1. Succeeds(outcome)  BY <1>2, <2>1, <3>1
      <4>2. \A n \in 1..Len(l) : l[n].op = "close"  BY <1>4, <4>1 DEF ClosesEach
      <4>3. Closing(l)  BY <4>2 DEF Closing
      <4> QED  BY <1>4, <3>1, <4>1, <4>3
    <3>2. CASE f # e  BY <1>1, <1>2, <1>9, <2>1, <3>2 DEF Planned
    <3> QED  BY <3>1, <3>2
  <2> QED  BY <1>2, <1>9, <2>1 DEF Planned, Closing, Opening
<1>12. Numbered'  BY <1>1, <1>6 DEF Numbered
<1>13. Keyed'  BY <1>1, <1>2, <1>5, <1>6, <1>9 DEF Keyed
<1>14. ToldAll'  BY <1>2, <1>9 DEF ToldAll
<1>15. OpenAll'
  <2>1. \A b \in Alerts : Alone(b)' <=> Alone(b)  BY <1>2, <1>5 DEF Alone, Shares
  <2>2. \A b \in Alerts : HasOpen(b)' <=> HasOpen(b)  BY <1>6 DEF HasOpen
  <2>3. \A b \in Alerts : Alone(b)' /\ memory'[b].triggered => HasOpen(b)'  BY <1>1, <1>6, <1>9, <2>1, <2>2 DEF OpenAll
  <2>4. ASSUME NEW f \in Endpoints, sends'[f] # Idle, ~sends'[f].resolved, Len(sends'[f].requests) = 0, Alone(sends[f].alert)'
        PROVE  HasOpen(sends[f].alert)'
    <3>1. PICK b \in Alerts : b = sends'[f].alert  BY <1>7, <2>4, SendIsOne DEF Known, Sending
    <3>2. Alone(b)  BY <2>1, <2>4, <3>1
    <3>3. f # e  BY <1>2, <1>4, <2>4
    <3>4. sends'[f] = sends[f]  BY <1>2, <3>3
    <3>5. HasOpen(b)  BY <1>1, <1>9, <2>4, <3>1, <3>2, <3>4 DEF OpenAll
    <3>6. HasOpen(b)'  BY <2>2, <3>5
    <3> QED  BY <3>1, <3>6
  <2> QED  BY <1>2, <2>3, <2>4 DEF OpenAll
<1>16. ClosedByTheirs'  BY <1>1, <1>2, <1>5, <1>6 DEF ClosedByTheirs, Shares
<1>17. ToBeClosed'
  <2>1. ASSUME NEW f \in Endpoints, sends'[f] # Idle, NEW n \in 1..Len(sends'[f].requests), sends'[f].requests[n].op = "close"
        PROVE  /\ sends'[f].requests[n].of \in 1..Cardinality(incidents)
               /\ \A i \in incidents : i.id = sends'[f].requests[n].of => OfOneOf(i, f)
    <3>1. CASE f = e
      <4>1. Succeeds(outcome)  BY <1>2, <2>1, <3>1
      <4>2. l[n] = more[n] /\ n \in 1..Len(more)  BY <1>4, <2>1, <3>1, <4>1
      <4>3. PICK i \in OfTheEndpoint(e) : more[n].of = i.id  BY <4>1, <4>2 DEF ClosesEach
      <4>4. i \in incidents /\ OfOneOf(i, e)  BY DEF OfTheEndpoint, OfOneOf
      <4>5. i.id \in 1..Cardinality(incidents) /\ \A j \in incidents : j.id = i.id => j = i  BY <1>1, <4>4 DEF Numbered
      <4> QED  BY <3>1, <4>2, <4>3, <4>4, <4>5
    <3>2. CASE f # e  BY <1>1, <1>2, <2>1, <3>2, SMTT(60) DEF ToBeClosed
    <3> QED  BY <3>1, <3>2
  <2>2. Style' = Style  BY <1>2
  <2> QED  BY <1>6, <2>1, <2>2 DEF ToBeClosed, OfOneOf
<1>18. Remembered'
  <2>1. \A i \in incidents : i.key = <<"endpoint", endpointOf[i.by]>>  BY <1>1, <1>9 DEF Keyed
  <2> QED  BY <1>2, <1>5, <1>6, <1>9, <2>1 DEF Remembered, Address
<1>19. Remaining'
  <2>1. ASSUME NEW f \in Endpoints, sends'[f] # Idle, sends'[f].resolved,
               NEW i \in incidents, i.closedBy = NoAlert, i.key = <<"endpoint", endpointOf[sends'[f].alert]>>
        PROVE  \E n \in 1..Len(sends'[f].requests) : Closes(sends'[f].requests[n], i)
    <3>1. CASE f = e
      <4>1. Succeeds(outcome)  BY <1>2, <2>1, <3>1
      <4>2. i.key = <<"endpoint", e>>  BY <1>2, <1>4, <2>1, <3>1, <4>1
      <4>3. i \in OfTheEndpoint(e)  BY <2>1, <4>2 DEF OfTheEndpoint
      <4>4. PICK n \in 1..Len(more) : more[n].of = i.id  BY <4>1, <4>3 DEF ClosesEach
      <4>5. more[n].op = "close"  BY <4>1 DEF ClosesEach
      <4>6. Closes(l[n], i) /\ n \in 1..Len(l)  BY <1>4, <4>1, <4>4, <4>5 DEF Closes
      <4> QED  BY <3>1, <4>6
    <3>2. CASE f # e
      <4>1. sends'[f] = sends[f]  BY <1>2, <3>2
      <4>2. i.key = Address(sends[f].alert)  BY <1>9, <2>1, <4>1 DEF Address
      <4> QED  BY <1>1, <2>1, <4>1, <4>2 DEF Remaining
    <3> QED  BY <3>1, <3>2
  <2> QED  BY <1>2, <1>5, <1>6, <1>9, <2>1 DEF Remaining, Address, Closes
<1>20. Confirmed'
  <2>1. \A b \in confirmed : MayForget(b)' = MayForget(b)  BY <1>2, <1>6 DEF MayForget
  <2> QED  BY <1>1, <1>5, <1>6, <1>10, <2>1 DEF Confirmed
<1> QED  BY <1>7, <1>10, <1>11, <1>12, <1>13, <1>14, <1>15, <1>16, <1>17, <1>18, <1>19, <1>20 DEF DeliveryInv

\* What a request to list the open incidents of an endpoint keeps.
LEMMA ListKeeps ==
    ASSUME DeliveryInv, NEW e \in Endpoints, NEW outcome \in Outcomes, Answered(e, outcome),
           sends[e].requests[1].op = "list", List(e, outcome)
    PROVE  DeliveryInv'
<1>1. Known /\ Numbered  BY DEF DeliveryInv
<1>2. Style \in {"issues", "tasks"} /\ sends[e].resolved /\ Closing(sends[e].requests)  BY ClosesAre
<1>3. PICK closing \in Listed(e) :
         sends' = IF Style = "tasks" /\ OfTheEndpoint(e) = {} THEN [sends EXCEPT ![e] = Idle] ELSE Advance(e, outcome, closing)
  BY DEF List
<1>4. UNCHANGED <<memory, told, incidents, keys, mishaps>>  BY DEF List
<1>5. closing \in Seq(Requested) /\ ClosesEach(e, closing)  BY <1>1, ListedAre
<1>6. CASE Style = "tasks" /\ OfTheEndpoint(e) = {}
  <2> DEFINE not == "refused"
  <2>1. ~Succeeds(not)  BY DEF Succeeds
  <2>2. sends' = Advance(e, not, closing)  BY <1>3, <1>6, <2>1 DEF Advance
  <2> HIDE DEF not
  <2>3. troubles \in 0..MaxTroubles /\ MaxTroubles \in Nat  BY <1>1, DeliveryAssumption DEF Known
  <2>4. Answer(e, not, closing)  BY <2>2, <2>3 DEF Answered, Answer, Troubled
  <2> QED  BY <1>2, <1>4, <1>5, <2>1, <2>4, ListAnswered
<1>7. CASE ~(Style = "tasks" /\ OfTheEndpoint(e) = {})
  <2>1. sends' = Advance(e, outcome, closing)  BY <1>3, <1>7
  <2>2. Answer(e, outcome, closing)  BY <1>1, <2>1, AnsweredIs
  <2> QED  BY <1>2, <1>4, <1>5, <2>2, ListAnswered
<1> QED  BY <1>6, <1>7

-----------------------------------------------------------------------------
(* A Send is over, and a crash *)

\* What a Send that is over keeps.
LEMMA ConcludeKeeps == ASSUME DeliveryInv, type' = type, NEW e \in Endpoints, Conclude(e)  PROVE DeliveryInv'
<1> DEFINE r == sends[e].requests
<1>1. Known /\ Placed /\ Persisted /\ Planned /\ Numbered /\ Keyed /\ Given /\ ToldAll /\ OpenAll /\ ClosedByTheirs
      /\ ToBeClosed /\ Remembered /\ Remaining /\ Confirmed
  BY DEF DeliveryInv
<1>2. /\ sends[e] # Idle /\ r = <<>> /\ sends' = [sends EXCEPT ![e] = Idle]
      /\ UNCHANGED <<type, endpointOf, tellsResolved, told, incidents, keys, mishaps, troubles>>
  BY DEF Conclude
<1>3. PICK a \in Alerts : a = sends[e].alert  BY <1>1, <1>2, SendIsOne
<1>4. Len(r) = 0  BY <1>2
<1>5. /\ endpointOf[a] = e
      /\ \A f \in Endpoints : sends[f] # Idle => sends[f].alert \in Alerts /\ (f # e => sends[f].alert # a)
  BY <1>1, <1>2, <1>3, SendIsOne DEF Placed
<1>6. /\ sends' \in [Endpoints -> Sending \cup {Idle}] /\ sends'[e] = Idle
      /\ \A f \in Endpoints : f # e => sends'[f] = sends[f]
  BY <1>1, <1>2 DEF Known
<1>7. Style' = Style /\ Audience' = Audience  BY <1>2, ServiceStays
<1>8. /\ memory' \in [Alerts -> [triggered : BOOLEAN, key : AnyKey]]
      /\ \A b \in Alerts : b # a => memory'[b] = memory[b]
      /\ rows' \in [Alerts -> AnyKey \cup {NoRow}]
      /\ \A b \in Alerts : b # a => rows'[b] = rows[b]
      /\ IF sends[e].resolved THEN memory' = memory /\ rows' = rows /\ confirmed' = confirmed \cup {a}
         ELSE /\ memory'[a].triggered /\ rows'[a] = memory'[a].key /\ confirmed' = confirmed
              /\ Style # "alias, created and closed" => memory'[a].key = memory[a].key
  <2>1. /\ memory \in [Alerts -> [triggered : BOOLEAN, key : AnyKey]]
        /\ rows \in [Alerts -> AnyKey \cup {NoRow}]
    BY <1>1 DEF Known
  <2>2. CASE sends[e].resolved
    <3>1. memory' = memory /\ rows' = rows /\ confirmed' = confirmed \cup {a}  BY <1>3, <2>2 DEF Conclude
    <3> QED  BY <2>1, <2>2, <3>1
  <2>3. CASE ~sends[e].resolved
    <3>1. PICK key : key = IF Style = "alias, created and closed" /\ tellsResolved THEN Address(a) ELSE memory[a].key  OBVIOUS
    <3>2. memory' = [memory EXCEPT ![a] = [triggered |-> TRUE, key |-> key]] /\ rows' = [rows EXCEPT ![a] = key] /\ confirmed' = confirmed
      BY <1>3, <2>3, <3>1 DEF Conclude
    <3>3. key \in AnyKey  BY <1>1, <2>1, <3>1, KeysAreKeys
    <3>4. Style # "alias, created and closed" => key = memory[a].key  BY <3>1
    <3>5. [triggered |-> TRUE, key |-> key] \in [triggered : BOOLEAN, key : AnyKey]  BY <3>3
    <3>6. memory' \in [Alerts -> [triggered : BOOLEAN, key : AnyKey]] /\ memory'[a] = [triggered |-> TRUE, key |-> key]
          /\ \A b \in Alerts : b # a => memory'[b] = memory[b]
      BY <2>1, <3>2, <3>5
    <3>7. rows' \in [Alerts -> AnyKey \cup {NoRow}] /\ rows'[a] = key /\ \A b \in Alerts : b # a => rows'[b] = rows[b]
      BY <2>1, <3>2, <3>3
    <3> QED  BY <2>3, <3>2, <3>4, <3>6, <3>7
  <2> QED  BY <2>2, <2>3
<1>9. Known'
  <2>1. confirmed' \in SUBSET Alerts
    <3>1. confirmed \in SUBSET Alerts  BY <1>1 DEF Known
    <3>2. confirmed' = confirmed \cup {a} \/ confirmed' = confirmed  BY <1>8
    <3> QED  BY <3>1, <3>2
  <2>2. /\ memory' \in [Alerts -> [triggered : BOOLEAN, key : AnyKey]]
        /\ rows' \in [Alerts -> AnyKey \cup {NoRow}]
    BY <1>8
  <2> QED  BY <1>1, <1>2, <1>6, <1>7, <2>1, <2>2 DEF Known
<1>10. Placed'
  <2>1. ASSUME NEW f \in Endpoints, sends'[f] # Idle
        PROVE  endpointOf[sends'[f].alert] = f /\ (sends'[f].resolved => tellsResolved /\ ~memory'[sends'[f].alert].triggered)
    <3>1. f # e /\ sends'[f] = sends[f]  BY <1>6, <2>1
    <3>2. sends[f].alert \in Alerts /\ sends[f].alert # a  BY <1>5, <2>1, <3>1
    <3>3. memory'[sends[f].alert] = memory[sends[f].alert]  BY <1>8, <3>2
    <3>4. endpointOf[sends[f].alert] = f /\ (sends[f].resolved => tellsResolved /\ ~memory[sends[f].alert].triggered)
      BY <1>1, <2>1, <3>1 DEF Placed
    <3> QED  BY <3>1, <3>3, <3>4
  <2> QED  BY <1>2, <2>1 DEF Placed
<1>11. Persisted'
  <2>1. NoRow \notin AnyKey /\ memory'[a].key \in AnyKey  BY <1>1, <1>8, KeysAreKeys
  <2> QED  BY <1>1, <1>8, <2>1 DEF Persisted
<1>12. Planned'
  <2>1. ASSUME NEW f \in Endpoints, sends'[f] # Idle
        PROVE  IF Style \in Messages THEN Telling(sends'[f].requests)
               ELSE IF sends'[f].resolved THEN Closing(sends'[f].requests) ELSE Opening(sends'[f].requests)
    <3>1. f # e /\ sends'[f] = sends[f]  BY <1>6, <2>1
    <3> QED  BY <1>1, <2>1, <3>1 DEF Planned
  <2> QED  BY <1>7, <2>1 DEF Planned, Telling, Opening, Closing
<1>13. Numbered'  BY <1>1, <1>2 DEF Numbered
<1>14. Keyed'
  <2>1. CASE Style \in ByEndpoint  BY <1>1, <1>2, <1>7, <2>1 DEF Keyed
  <2>2. CASE Style \notin ByEndpoint
    <3>1. memory'[a].key = memory[a].key  BY <1>8, <2>2 DEF ByEndpoint
    <3>2. ASSUME NEW b \in Alerts, NEW k \in AnyKey, HasKey(b, k)', k # NoKey  PROVE HasKey(b, k)
      <4>1. memory'[b].key = k \/ rows'[b] = k \/ \E i \in incidents : i.by = b /\ i.key = k  BY <1>2, <3>2 DEF HasKey
      <4>2. memory'[b].key = memory[b].key  BY <1>8, <3>1
      <4>3. rows'[b] = rows[b] \/ rows'[b] = memory[b].key  BY <1>8, <4>2
      <4> QED  BY <4>1, <4>2, <4>3 DEF HasKey
    <3>3. \A i \in incidents' : i.key # NoKey  BY <1>1, <1>2, <2>2 DEF Keyed
    <3> QED  BY <1>1, <1>2, <1>9, <2>2, <3>2, <3>3, KeysStayApart
  <2> QED  BY <2>1, <2>2
<1>15. Given'
  <2>1. ASSUME Style \in {"deduplication", "fingerprint"}, NEW f \in Endpoints, sends'[f] # Idle
        PROVE  memory'[sends'[f].alert].key # NoKey
    <3>1. f # e /\ sends'[f] = sends[f]  BY <1>6, <2>1
    <3> QED  BY <1>1, <1>5, <1>8, <2>1, <3>1, ZenonT(60) DEF Given
  <2> QED  BY <1>7, <2>1 DEF Given
<1>16. ToldAll'
  <2>1. ASSUME Style \in Messages, NEW b \in Alerts, memory'[b].triggered  PROVE told[b] = Audience
    <3>1. CASE memory[b].triggered  BY <1>1, <2>1, <3>1 DEF ToldAll
    <3>2. CASE ~memory[b].triggered
      <4>1. b = a /\ ~sends[e].resolved  BY <1>8, <2>1, <3>2
      <4>2. \A t \in Audience : t \in told[a]  BY <1>1, <1>2, <1>3, <1>4, <2>1, <4>1 DEF ToldAll
      <4>3. told[a] \subseteq Audience  BY <1>1 DEF Known
      <4> QED  BY <4>1, <4>2, <4>3
    <3> QED  BY <3>1, <3>2
  <2>2. ASSUME Style \in Messages, NEW f \in Endpoints, sends'[f] # Idle, ~sends'[f].resolved, NEW t \in Audience
        PROVE  t \in told[sends'[f].alert] \/ \E n \in 1..Len(sends'[f].requests) : sends'[f].requests[n].of = t
    <3>1. f # e /\ sends'[f] = sends[f]  BY <1>6, <2>2
    <3> QED  BY <1>1, <2>2, <3>1 DEF ToldAll
  <2>3. Style \in Messages => incidents = {}  BY <1>1 DEF ToldAll
  <2> QED  BY <1>2, <1>7, <2>1, <2>2, <2>3 DEF ToldAll
<1>17. OpenAll'
  <2>1. \A b \in Alerts : Alone(b)' <=> Alone(b)  BY <1>2, <1>7 DEF Alone, Shares
  <2>2. \A b \in Alerts : HasOpen(b)' <=> HasOpen(b)  BY <1>2 DEF HasOpen
  <2>3. ASSUME Style \notin Messages, NEW b \in Alerts, Alone(b), memory'[b].triggered  PROVE HasOpen(b)
    <3>1. CASE memory[b].triggered  BY <1>1, <2>3, <3>1 DEF OpenAll
    <3>2. CASE ~memory[b].triggered
      <4>1. b = a /\ ~sends[e].resolved  BY <1>8, <2>3, <3>2
      <4> QED  BY <1>1, <1>2, <1>3, <1>4, <2>3, <4>1 DEF OpenAll
    <3> QED  BY <3>1, <3>2
  <2>4. ASSUME Style \notin Messages, NEW f \in Endpoints, sends'[f] # Idle, ~sends'[f].resolved, Len(sends'[f].requests) = 0,
               Alone(sends[f].alert)'
        PROVE  HasOpen(sends[f].alert)'
    <3>1. PICK b \in Alerts : b = sends'[f].alert  BY <1>9, <2>4, SendIsOne DEF Known, Sending
    <3>2. f # e /\ sends'[f] = sends[f]  BY <1>6, <2>4
    <3>3. Alone(b)  BY <2>1, <2>4, <3>1
    <3>4. HasOpen(b)  BY <1>1, <2>4, <3>1, <3>2, <3>3 DEF OpenAll
    <3>5. HasOpen(b)'  BY <2>2, <3>4
    <3> QED  BY <3>1, <3>5
  <2>5. Style \notin Messages => \A b \in Alerts : Alone(b)' /\ memory'[b].triggered => HasOpen(b)'  BY <2>1, <2>2, <2>3
  <2> QED  BY <1>7, <2>4, <2>5 DEF OpenAll
<1>18. ClosedByTheirs'  BY <1>1, <1>2, <1>7 DEF ClosedByTheirs, Shares
<1>19. ToBeClosed'
  <2>1. ASSUME NEW f \in Endpoints, sends'[f] # Idle, NEW n \in 1..Len(sends'[f].requests), sends'[f].requests[n].op = "close"
        PROVE  /\ sends'[f].requests[n].of \in 1..Cardinality(incidents)
               /\ \A i \in incidents : i.id = sends'[f].requests[n].of => OfOneOf(i, f)
    <3>1. f # e /\ sends'[f] = sends[f]  BY <1>6, <2>1
    <3> QED  BY <1>1, <2>1, <3>1 DEF ToBeClosed
  <2>2. Style' = Style /\ incidents' = incidents  BY <1>2, <1>7
  <2> QED  BY <2>1, <2>2 DEF ToBeClosed, OfOneOf
<1>20. \A b \in Alerts : Address(b)' = Address(b)
  <2>1. CASE Style \in ByEndpoint  BY <1>2, <1>7, <2>1 DEF Address
  <2>2. CASE Style \notin ByEndpoint
    <3>1. \A b \in Alerts : memory'[b].key = memory[b].key  BY <1>8, <2>2 DEF ByEndpoint
    <3> QED  BY <1>7, <2>2, <3>1 DEF Address
  <2> QED  BY <2>1, <2>2
<1>21. \A b \in Alerts : MayForget(b)' = MayForget(b)  BY <1>2, <1>7 DEF MayForget
<1>22. Remembered'
  <2>1. ASSUME tellsResolved, NEW i \in incidents, i.closedBy = NoAlert, MayForget(i.by)' = {}  PROVE i.key = Address(i.by)'
    <3>1. PICK b \in Alerts : b = i.by  BY <1>1 DEF Known, Incident
    <3>2. MayForget(b)' = {}  BY <2>1, <3>1
    <3>3. MayForget(b) = {}  BY <1>21, <3>2
    <3>4. i.key = Address(b)  BY <1>1, <2>1, <3>1, <3>3 DEF Remembered
    <3>5. i.key = Address(b)'  BY <1>20, <3>4
    <3> QED  BY <3>1, <3>5
  <2> QED  BY <1>2, <2>1 DEF Remembered
<1>23. Remaining'
  <2>1. ASSUME NEW f \in Endpoints, sends'[f] # Idle, sends'[f].resolved,
               NEW i \in incidents, i.closedBy = NoAlert, i.key = Address(sends[f].alert)'
        PROVE  \E n \in 1..Len(sends'[f].requests) : Closes(sends'[f].requests[n], i)
    <3>1. f # e /\ sends'[f] = sends[f]  BY <1>6, <2>1
    <3>2. PICK b \in Alerts : b = sends'[f].alert  BY <1>9, <2>1, SendIsOne DEF Known, Sending
    <3>3. i.key = Address(b)'  BY <2>1, <3>2
    <3>4. i.key = Address(b)  BY <1>20, <3>3
    <3> QED  BY <1>1, <2>1, <3>1, <3>2, <3>4 DEF Remaining
  <2> QED  BY <1>2, <2>1 DEF Remaining, Closes
<1>24. Confirmed'
  <2>1. ASSUME NEW f \in Endpoints, sends'[f] # Idle  PROVE sends'[f].alert \notin confirmed'
    <3>1. f # e /\ sends'[f] = sends[f]  BY <1>6, <2>1
    <3> QED  BY <1>1, <1>5, <1>8, <2>1, <3>1 DEF Confirmed
  <2>2. ASSUME NEW b \in confirmed', MayForget(b) = {}, NEW i \in incidents, i.by = b  PROVE i.closedBy # NoAlert
    <3>1. CASE b \in confirmed  BY <1>1, <2>2, <3>1 DEF Confirmed
    <3>2. CASE b \notin confirmed
      <4>1. b = a /\ sends[e].resolved  BY <1>8, <2>2, <3>2
      <4>2. ASSUME i.closedBy = NoAlert  PROVE FALSE
        <5>1. tellsResolved  BY <1>1, <1>2, <4>1 DEF Placed
        <5>2. i.key = Address(a)  BY <1>1, <2>2, <4>1, <4>2, <5>1 DEF Remembered
        <5>3. \E n \in 1..Len(r) : Closes(r[n], i)  BY <1>1, <1>2, <1>3, <4>1, <4>2, <5>2 DEF Remaining
        <5> QED  BY <1>4, <5>3
      <4> QED  BY <4>2
    <3> QED  BY <3>1, <3>2
  <2>3. confirmed' \in SUBSET Alerts  BY <1>9 DEF Known
  <2>4. \A b \in confirmed' : MayForget(b)' # {} \/ \A i \in incidents : i.by = b => i.closedBy # NoAlert
    BY <1>21, <2>2, <2>3
  <2> QED  BY <1>2, <2>1, <2>4 DEF Confirmed
<1> QED  BY <1>9, <1>10, <1>11, <1>12, <1>13, <1>14, <1>15, <1>16, <1>17, <1>18, <1>19, <1>22, <1>23, <1>24 DEF DeliveryInv

\* What a crash and the restart keep.
LEMMA RestartKeeps == ASSUME DeliveryInv, type' = type, Restart  PROVE DeliveryInv'
<1>1. Known /\ Placed /\ Persisted /\ Planned /\ Numbered /\ Keyed /\ Given /\ ToldAll /\ OpenAll /\ ClosedByTheirs
      /\ ToBeClosed /\ Remembered /\ Remaining /\ Confirmed
  BY DEF DeliveryInv
<1>2. /\ troubles < MaxTroubles /\ troubles' = troubles + 1
      /\ UNCHANGED <<type, endpointOf, tellsResolved, rows, told, incidents, keys, confirmed>>
      /\ sends' = [e \in Endpoints |-> Idle]
      /\ memory' = [a \in Alerts |-> Restored(a)]
  BY DEF Restart
<1>3. Style' = Style /\ Audience' = Audience  BY <1>2, ServiceStays
<1>4. \A a \in Alerts : /\ memory'[a] \in [triggered : BOOLEAN, key : AnyKey] /\ (memory'[a].triggered <=> rows[a] # NoRow)
                        /\ memory'[a].key = NoKey \/ memory'[a].key = rows[a]
  <2>1. ASSUME NEW a \in Alerts
        PROVE  /\ Restored(a) \in [triggered : BOOLEAN, key : AnyKey] /\ (Restored(a).triggered <=> rows[a] # NoRow)
               /\ Restored(a).key = NoKey \/ Restored(a).key = rows[a]
    <3>1. rows[a] \in AnyKey \cup {NoRow} /\ NoKey \in AnyKey  BY <1>1, KeysAreKeys DEF Known
    <3>2. CASE rows[a] = NoRow  BY <3>1, <3>2 DEF Restored
    <3>3. CASE rows[a] # NoRow  BY <3>1, <3>3 DEF Restored
    <3> QED  BY <3>2, <3>3
  <2> QED  BY <1>2, <2>1
<1>5. memory' \in [Alerts -> [triggered : BOOLEAN, key : AnyKey]]  BY <1>2, <1>4
<1>6. \A a \in Alerts : memory'[a].triggered <=> memory[a].triggered  BY <1>1, <1>4 DEF Persisted
<1>7. /\ mishaps' \in [Alerts -> SUBSET {"another incident", "lost", "unreadable", "crash"}]
      /\ \A a \in Alerts : (\A m \in mishaps[a] : m \in mishaps'[a]) /\ (memory[a].key # memory'[a].key => "crash" \in mishaps'[a])
  <2>1. mishaps \in [Alerts -> SUBSET {"another incident", "lost", "unreadable", "crash"}]  BY <1>1 DEF Known
  <2> DEFINE more(a) == IF memory[a].key # Restored(a).key \/ sends[endpointOf[a]].alert = a THEN {"crash"} ELSE {}
  <2>2. mishaps' = [a \in Alerts |-> mishaps[a] \cup more(a)]  BY DEF Restart
  <2>3. \A a \in Alerts : more(a) \subseteq {"crash"} /\ (memory[a].key # memory'[a].key => "crash" \in more(a))  BY <1>2
  <2> HIDE DEF more
  <2> QED  BY <2>1, <2>2, <2>3
<1>8. \A a \in Alerts : \/ MayForget(a)' # {} \/ Style \in ByEndpoint
                        \/ Style \notin {"answered key", "deduplication", "fingerprint"}
                        \/ (MayForget(a) = {} /\ memory'[a].key = memory[a].key)
  <2>1. ASSUME NEW a \in Alerts, Style \in {"answered key", "deduplication", "fingerprint"}, MayForget(a)' = {}
        PROVE  MayForget(a) = {} /\ memory'[a].key = memory[a].key
    <3>1. /\ Style = "answered key" => MayForget(a)' = mishaps'[a] /\ MayForget(a) = mishaps[a]
          /\ Style = "deduplication" =>
               MayForget(a)' = mishaps'[a] \cap {"crash", "unreadable"} /\ MayForget(a) = mishaps[a] \cap {"crash", "unreadable"}
          /\ Style = "fingerprint" => MayForget(a)' = mishaps'[a] \cap {"crash"} /\ MayForget(a) = mishaps[a] \cap {"crash"}
      BY <1>3 DEF MayForget
    <3>2. \A m \in mishaps[a] : m \in mishaps'[a]  BY <1>7
    <3>3. MayForget(a) = {}  BY <2>1, <3>1, <3>2
    <3>4. "crash" \notin mishaps'[a]  BY <2>1, <3>1
    <3> QED  BY <1>7, <3>3, <3>4
  <2> QED  BY <2>1
<1>9. \A a \in Alerts : MayForget(a) # {} => MayForget(a)' # {}
  <2>1. ASSUME NEW a \in Alerts, MayForget(a) # {}  PROVE MayForget(a)' # {}
    <3>1. CASE Style \in {"answered key", "deduplication", "fingerprint"}
      <4>1. Style \notin ByEndpoint  BY <3>1 DEF ByEndpoint
      <4> QED  BY <1>8, <2>1, <3>1, <4>1
    <3>2. CASE Style \notin {"answered key", "deduplication", "fingerprint"}  BY <2>1, <3>2 DEF MayForget
    <3> QED  BY <3>1, <3>2
  <2> QED  BY <2>1
<1>10. \A e \in Endpoints : sends'[e] = Idle  BY <1>2
<1>11. Known'
  <2>1. sends' \in [Endpoints -> Sending \cup {Idle}]  BY <1>2
  <2>2. troubles' \in 0..MaxTroubles
    <3>1. troubles \in 0..MaxTroubles /\ MaxTroubles \in Nat  BY <1>1, DeliveryAssumption DEF Known
    <3> QED  BY <1>2, <3>1
  <2> QED  BY <1>1, <1>2, <1>3, <1>5, <1>7, <2>1, <2>2 DEF Known
<1>12. Persisted'  BY <1>2, <1>4 DEF Persisted
<1>13. Placed' /\ Planned' /\ Given' /\ ToBeClosed' /\ Remaining'
  BY <1>10 DEF Placed, Planned, Given, ToBeClosed, Remaining
<1>14. Numbered'  BY <1>1, <1>2 DEF Numbered
<1>15. Keyed'
  <2>1. CASE Style \in ByEndpoint  BY <1>1, <1>2, <1>3, <2>1 DEF Keyed
  <2>2. CASE Style \notin ByEndpoint
    <3>1. ASSUME NEW b \in Alerts, NEW k \in AnyKey, HasKey(b, k)', k # NoKey  PROVE HasKey(b, k)
      <4>1. memory'[b].key = k \/ rows[b] = k \/ \E i \in incidents : i.by = b /\ i.key = k  BY <1>2, <3>1 DEF HasKey
      <4> QED  BY <1>4, <3>1, <4>1 DEF HasKey
    <3>2. \A i \in incidents' : i.key # NoKey  BY <1>1, <1>2, <2>2 DEF Keyed
    <3>3. \/ Alerts = {} \/ \E who : who \in Alerts  OBVIOUS
    <3>4. CASE Alerts = {}  BY <1>3, <2>2, <3>2, <3>4 DEF Keyed
    <3>5. CASE \E who : who \in Alerts  BY <1>1, <1>2, <1>11, <2>2, <3>1, <3>2, <3>5, KeysStayApart
    <3> QED  BY <3>3, <3>4, <3>5
  <2> QED  BY <2>1, <2>2
<1>16. ToldAll'  BY <1>1, <1>2, <1>3, <1>6, <1>10 DEF ToldAll
<1>17. OpenAll'
  <2>1. \A b \in Alerts : Alone(b)' <=> Alone(b)  BY <1>2, <1>3 DEF Alone, Shares
  <2>2. \A b \in Alerts : HasOpen(b)' <=> HasOpen(b)  BY <1>2 DEF HasOpen
  <2>3. Style \notin Messages => \A b \in Alerts : Alone(b)' /\ memory'[b].triggered => HasOpen(b)'
    BY <1>1, <1>6, <2>1, <2>2 DEF OpenAll
  <2> QED  BY <1>3, <1>10, <2>3 DEF OpenAll
<1>18. ClosedByTheirs'  BY <1>1, <1>2, <1>3 DEF ClosedByTheirs, Shares
<1>19. Remembered'
  <2>1. ASSUME tellsResolved, NEW i \in incidents, i.closedBy = NoAlert, NEW b \in Alerts, b = i.by, MayForget(b)' = {}
        PROVE  i.key = Address(b)'
    <3>1. CASE Style \in ByEndpoint  BY <1>1, <1>2, <1>3, <2>1, <3>1 DEF Keyed, Address
    <3>2. CASE Style \notin ByEndpoint
      <4>1. Style \in {"answered key", "deduplication", "fingerprint"}
        <5>1. Style \in Styles /\ Style \notin Messages  BY <1>1, <2>1, StyleIsOne DEF Known, Style, ToldAll
        <5> QED  BY <3>2, <5>1 DEF Styles
      <4>2. MayForget(b) = {} /\ memory'[b].key = memory[b].key  BY <1>8, <2>1, <3>2, <4>1
      <4>3. i.key = Address(b)  BY <1>1, <2>1, <4>2 DEF Remembered
      <4> QED  BY <1>3, <3>2, <4>2, <4>3 DEF Address
    <3> QED  BY <3>1, <3>2
  <2>2. ASSUME tellsResolved, NEW i \in incidents, i.closedBy = NoAlert, MayForget(i.by)' = {}  PROVE i.key = Address(i.by)'
    <3>1. PICK b \in Alerts : b = i.by  BY <1>1 DEF Known, Incident
    <3>2. MayForget(b)' = {}  BY <2>2, <3>1
    <3>3. i.key = Address(b)'  BY <2>1, <2>2, <3>1, <3>2
    <3> QED  BY <3>1, <3>3
  <2> QED  BY <1>2, <2>2 DEF Remembered
<1>20. Confirmed'
  <2>1. confirmed \in SUBSET Alerts  BY <1>1 DEF Known
  <2>2. \A b \in confirmed : MayForget(b)' # {} \/ \A i \in incidents : i.by = b => i.closedBy # NoAlert
    BY <1>1, <1>9, <2>1 DEF Confirmed
  <2> QED  BY <1>2, <1>10, <2>2 DEF Confirmed
<1> QED  BY <1>11, <1>12, <1>13, <1>14, <1>15, <1>16, <1>17, <1>18, <1>19, <1>20 DEF DeliveryInv

-----------------------------------------------------------------------------
(* The theorems *)

\* At the start there is nothing to send and nothing to close.
LEMMA DeliveryStarts == type \in Services /\ DeliveryInit => DeliveryInv
<1> SUFFICES ASSUME type \in Services, DeliveryInit  PROVE DeliveryInv  OBVIOUS
<1>1. /\ endpointOf \in [Alerts -> Endpoints] /\ tellsResolved \in BOOLEAN
      /\ memory = [a \in Alerts |-> [triggered |-> FALSE, key |-> NoKey]]
      /\ rows = [a \in Alerts |-> NoRow]
      /\ sends = [e \in Endpoints |-> Idle]
      /\ told = [a \in Alerts |-> {}] /\ incidents = {} /\ keys = 0
      /\ confirmed = {} /\ mishaps = [a \in Alerts |-> {}] /\ troubles = 0
  BY DEF DeliveryInit
<1>2. NoKey \in AnyKey  BY DEF AnyKey
<1>3. 0 \in 0..MaxKeys /\ 0 \in 0..MaxTroubles  BY DeliveryAssumption
<1>4. memory \in [Alerts -> [triggered : BOOLEAN, key : AnyKey]] /\ \A a \in Alerts : memory[a].key = NoKey /\ ~memory[a].triggered
  BY <1>1, <1>2
<1>5. Known  BY <1>1, <1>2, <1>3, <1>4 DEF Known
<1>6. \A e \in Endpoints : sends[e] = Idle  BY <1>1
<1>7. Placed /\ Planned /\ Given /\ ToBeClosed /\ Remaining  BY <1>6 DEF Placed, Planned, Given, ToBeClosed, Remaining
<1>8. Persisted  BY <1>1, <1>4 DEF Persisted
<1>9. Numbered  BY <1>1, FS_EmptySet DEF Numbered
<1>10. Keyed
  <2>1. ASSUME NEW a \in Alerts, NEW k \in AnyKey, HasKey(a, k)  PROVE k = NoKey
    <3>1. k # NoRow  BY <1>5, KeysAreKeys
    <3> QED  BY <1>1, <1>4, <2>1, <3>1 DEF HasKey
  <2> QED  BY <1>1, <2>1 DEF Keyed
<1>11. ToldAll /\ OpenAll  BY <1>1, <1>4, <1>6 DEF ToldAll, OpenAll
<1>12. ClosedByTheirs /\ Remembered /\ Confirmed  BY <1>1, <1>6 DEF ClosedByTheirs, Remembered, Confirmed
<1> QED  BY <1>5, <1>7, <1>8, <1>9, <1>10, <1>11, <1>12 DEF DeliveryInv

\* Every step keeps what is sent and what is known of it consistent.
LEMMA DeliveryKeeps ==
    DeliveryInv /\ ((DeliveryNext /\ type' = type) \/ UNCHANGED <<deliveryVars, type>>) => DeliveryInv'
<1> SUFFICES ASSUME DeliveryInv, (DeliveryNext /\ type' = type) \/ UNCHANGED <<deliveryVars, type>>  PROVE DeliveryInv'
  OBVIOUS
<1>1. Known /\ rows \in [Alerts -> AnyKey \cup {NoRow}]  BY DEF DeliveryInv, Known
<1>2. ASSUME NEW a \in Alerts, Trigger(a), type' = type  PROVE DeliveryInv'
  <2> DEFINE no == FALSE
  <2>1. Begin(a, no) /\ no \in BOOLEAN  BY <1>2 DEF Trigger
  <2>2. UNCHANGED <<type, endpointOf, tellsResolved, rows, told, incidents, mishaps, troubles>>  BY <1>2 DEF Trigger
  <2>3. rows' = IF no THEN [rows EXCEPT ![a] = NoRow] ELSE rows  BY <2>2
  <2>4. told' = IF no THEN [told EXCEPT ![a] = {}] ELSE told  BY <2>2
  <2> HIDE DEF no
  <2> QED  BY <2>1, <2>2, <2>3, <2>4, BeginKeeps
<1>3. ASSUME NEW a \in Alerts, Resolve(a), type' = type  PROVE DeliveryInv'
  <2> DEFINE yes == TRUE
  <2>1. Begin(a, yes) /\ yes \in BOOLEAN  BY <1>3 DEF Resolve
  <2>2. UNCHANGED <<type, endpointOf, tellsResolved, incidents, mishaps, troubles>>  BY <1>3 DEF Resolve
  <2>3. rows' = IF yes THEN [rows EXCEPT ![a] = NoRow] ELSE rows  BY <1>3 DEF Resolve
  <2>4. told' = IF yes THEN [told EXCEPT ![a] = {}] ELSE told  BY <1>3 DEF Resolve
  <2> HIDE DEF yes
  <2> QED  BY <2>1, <2>2, <2>3, <2>4, BeginKeeps
<1>4. ASSUME NEW e \in Endpoints, SendRequest(e), type' = type  PROVE DeliveryInv'
  <2>1. PICK outcome \in Outcomes :
           /\ Answered(e, outcome)
           /\ LET op == sends[e].requests[1].op
              IN \/ op = "tell" /\ Tell(e, outcome)
                 \/ op = "open" /\ Open(e, outcome)
                 \/ op = "resolve" /\ Close(e, outcome)
                 \/ op = "list" /\ List(e, outcome)
                 \/ op = "close" /\ CloseOne(e, outcome)
    BY <1>4 DEF SendRequest, Answered
  <2> QED  BY <2>1, TellKeeps, OpenKeeps, CloseKeeps, ListKeeps, CloseOneKeeps
<1>5. ASSUME NEW e \in Endpoints, Conclude(e), type' = type  PROVE DeliveryInv'  BY <1>5, ConcludeKeeps
<1>6. ASSUME Restart, type' = type  PROVE DeliveryInv'  BY <1>6, RestartKeeps
<1>7. ASSUME UNCHANGED <<deliveryVars, type>>  PROVE DeliveryInv'
  <2>1. UNCHANGED <<endpointOf, tellsResolved, memory, rows, sends, told, incidents, keys, confirmed, mishaps, troubles, type>>
    BY <1>7 DEF deliveryVars
  <2>2. Style' = Style /\ Audience' = Audience  BY <2>1, ServiceStays
  <2>3. /\ Known /\ Placed /\ Persisted /\ Planned /\ Numbered /\ Keyed /\ Given /\ ToldAll /\ OpenAll /\ ClosedByTheirs
        /\ ToBeClosed /\ Remembered /\ Remaining /\ Confirmed
    BY DEF DeliveryInv
  <2>4. Known' /\ Placed' /\ Persisted' /\ Numbered' /\ Given' /\ ToldAll'
    <3>1. Known'  BY <2>1, <2>2, <2>3 DEF Known
    <3>2. Placed' /\ Persisted'  BY <2>1, <2>3 DEF Placed, Persisted
    <3>3. Numbered'  BY <2>1, <2>3 DEF Numbered
    <3>4. Given' /\ ToldAll'  BY <2>1, <2>2, <2>3 DEF Given, ToldAll
    <3> QED  BY <3>1, <3>2, <3>3, <3>4
  <2>5. Planned'  BY <2>1, <2>2, <2>3 DEF Planned, Telling, Opening, Closing
  <2>6. Keyed'  BY <2>1, <2>2, <2>3 DEF Keyed, HasKey, UsedKeys
  <2>7. OpenAll'  BY <2>1, <2>2, <2>3 DEF OpenAll, HasOpen, Alone, Shares
  <2>8. ClosedByTheirs' /\ ToBeClosed'  BY <2>1, <2>2, <2>3 DEF ClosedByTheirs, Shares, ToBeClosed, OfOneOf
  <2>9. Remembered' /\ Confirmed'  BY <2>1, <2>2, <2>3 DEF Remembered, Confirmed, Address, MayForget
  <2>10. Remaining'  BY <2>1, <2>2, <2>3 DEF Remaining, Address, Closes
  <2> QED  BY <2>4, <2>5, <2>6, <2>7, <2>8, <2>9, <2>10 DEF DeliveryInv
<1> QED  BY <1>2, <1>3, <1>4, <1>5, <1>6, <1>7 DEF DeliveryNext

\* What the invariant says of the properties.
LEMMA DeliveryPromises == DeliveryInv => DeliveryConsistent /\ EveryoneTold /\ ResolvedIsClosed
<1> SUFFICES ASSUME DeliveryInv  PROVE DeliveryConsistent /\ EveryoneTold /\ ResolvedIsClosed  OBVIOUS
<1>1. Known /\ Persisted /\ ToldAll /\ OpenAll /\ ClosedByTheirs /\ Confirmed  BY DEF DeliveryInv
<1>2. DeliveryConsistent
  <2>1. \A e \in Endpoints : sends[e].alert \in Alerts \cup {NoAlert}
    <3>1. Idle.alert = NoAlert  BY DEF Idle
    <3> QED  BY <1>1, <3>1, SendIsOne
  <2>2. \A a \in Alerts : memory[a].triggered \in BOOLEAN /\ told[a] \subseteq Audience  BY <1>1 DEF Known
  <2>3. \A i \in incidents : i.by \in Alerts /\ i.closedBy \in Alerts \cup {NoAlert}  BY <1>1 DEF Known, Incident
  <2> QED  BY <1>1, <2>1, <2>2, <2>3 DEF DeliveryConsistent, DeliveryTypeOK, Known, Persisted
<1>3. EveryoneTold
  <2>1. ASSUME NEW a \in Alerts, memory[a].triggered, Style \notin Messages
        PROVE  (\E i \in incidents : i.by = a /\ i.closedBy = NoAlert) \/ \E b \in Alerts \ {a} : Shares(b, a)
    BY <1>1, <2>1 DEF OpenAll, Alone, HasOpen
  <2>2. ASSUME NEW a \in Alerts, memory[a].triggered, Style \in Messages  PROVE told[a] = Audience
    BY <1>1, <2>2 DEF ToldAll
  <2> QED  BY <2>1, <2>2 DEF EveryoneTold
<1>4. ResolvedIsClosed  BY <1>1 DEF ResolvedIsClosed, ClosedByTheirs, Confirmed
<1> QED  BY <1>2, <1>3, <1>4

-----------------------------------------------------------------------------
(* The requests that come in *)

USE DEF NoToken

\* A grant is of a configuration there was.
GrantsKnown == \A t \in Tokens : grants[t].configuration \in 1..Current

\* A stored session is what its login was granted, and nobody has logged out of it.
SessionsGranted ==
    \A t \in Tokens : sessions[t] # NoSession =>
        /\ sessions[t].credential = grants[t].given
        /\ sessions[t].expires = grants[t].time + SessionTTL
        /\ t \notin loggedOut

\* What a request knows: its configuration and time are past, its token was granted before it came, and what its step
\* relies on.
RequestKnown(r) ==
    /\ request[r].configuration \in 1..Current
    /\ request[r].time <= now
    /\ request[r].token # NoToken =>
          /\ request[r].token \in Tokens
          /\ grants[request[r].token].configuration <= request[r].configuration
    /\ request[r].ended => request[r].token \in loggedOut
    /\ request[r].step \in {"session", "discard", "logout"} => request[r].token # NoToken
    /\ request[r].step = "discard" => HasEnded(request[r].token)
    /\ request[r].step \in {"purge", "create"} => request[r].given = CredentialOf(r)
    /\ request[r].step = "admitted" => Entitled(r)
RequestsKnown == \A r \in Callers : request[r] # Unused => RequestKnown(r)

AccessInv == SessionsTypeOK /\ GrantsKnown /\ SessionsGranted /\ RequestsKnown /\ SessionsLast

-----------------------------------------------------------------------------

\* The configurations that there were stay as they were.
LEMMA AppendConfiguration ==
    ASSUME SessionsTypeOK, NEW c \in Credentials, configured' = Append(configured, c)
    PROVE  /\ configured' \in Seq(Credentials) /\ Current' = Current + 1 /\ Current \in Nat
           /\ \A g \in 1..Current : configured'[g] = configured[g]
BY DEF SessionsTypeOK, Current

\* A session is not the absence of one.
LEMMA SessionIsOne == ASSUME NEW c \in Credentials, NEW n \in Nat
                      PROVE  [credential |-> c, expires |-> n] # NoSession
<1>1. [credential |-> c, expires |-> n].credential # NoSession.credential  BY AccessAssumption DEF NoSession
<1> QED  BY <1>1

\* A request that is not unused is a Request.
LEMMA RequestIsOne == ASSUME SessionsTypeOK, NEW r \in Callers, request[r].step # "idle"
                      PROVE  request[r] # Unused /\ request[r] \in Request
BY DEF SessionsTypeOK, Unused

-----------------------------------------------------------------------------
(* What a step leaves as it was *)

\* The past stays: configurations, grants and logouts are only added to, and the clock goes on.
Later ==
    /\ Current <= Current' /\ \A g \in 1..Current : configured'[g] = configured[g]
    /\ now <= now'
    /\ issued <= issued' /\ \A t \in Tokens : grants'[t] = grants[t]
    /\ loggedOut \subseteq loggedOut' /\ lost \subseteq lost'

\* A session that has ended has ended for good.
LEMMA EndedStays ==
    ASSUME SessionsTypeOK, SessionsTypeOK', GrantsKnown, Later, NEW t \in Tokens, HasEnded(t)
    PROVE  HasEnded(t)'
<1>1. grants'[t] = grants[t] /\ grants[t].configuration \in 1..Current  BY DEF Later, GrantsKnown
<1>2. Current \in Nat /\ Current' \in Nat /\ Current <= Current'  BY DEF SessionsTypeOK, Current, Later
<1>3. ASSUME NEW g \in grants[t].configuration..Current, configured[g] # grants[t].given
      PROVE  g \in (grants[t].configuration)'..Current' /\ configured'[g] # (grants[t].given)'
  <2>1. g \in 1..Current  BY <1>1, <1>2
  <2> QED  BY <2>1, <1>1, <1>2, <1>3 DEF Later
<1>4. now \in Nat /\ now' \in Nat /\ now <= now' /\ grants[t].time \in Nat
  BY DEF SessionsTypeOK, Later
<1>5. CASE t \in loggedOut \/ t \in lost  BY <1>5 DEF HasEnded, Later
<1>6. CASE now >= grants[t].time + SessionTTL
  <2>1. now' >= grants'[t].time + SessionTTL  BY <1>1, <1>4, <1>6, AccessAssumption
  <2> QED  BY <2>1 DEF HasEnded
<1>7. CASE \E g \in grants[t].configuration..Current : configured[g] # grants[t].given
  BY <1>3, <1>7 DEF HasEnded
<1> QED  BY <1>5, <1>6, <1>7 DEF HasEnded

\* A request that does nothing knows what it knew.
LEMMA KnownStays ==
    ASSUME SessionsTypeOK, SessionsTypeOK', GrantsKnown, Later,
           NEW r \in Callers, RequestKnown(r), request[r] \in Request, request'[r] = request[r]
    PROVE  RequestKnown(r)'
<1> DEFINE q == request[r]
<1>1. /\ q.configuration \in Nat /\ q.token \in Nat /\ q.time \in Nat
      /\ Current \in Nat /\ Current' \in Nat /\ Current <= Current'
      /\ now \in Nat /\ now' \in Nat /\ now <= now' /\ issued \in Nat /\ issued' \in Nat /\ issued <= issued'
  BY DEF SessionsTypeOK, Current, Later, Request
<1>2. q.configuration \in 1..Current /\ q.configuration \in 1..Current'  BY <1>1 DEF RequestKnown
<1>3. CredentialOf(r)' = CredentialOf(r)  BY <1>2 DEF CredentialOf, Later
<1>4. q.time <= now'  BY <1>1 DEF RequestKnown
<1>5. q.token # NoToken => /\ q.token \in Tokens /\ q.token \in Tokens'
                           /\ grants'[q.token] = grants[q.token]
                           /\ grants'[q.token].configuration <= q.configuration
  BY <1>1 DEF RequestKnown, Later, Tokens
<1>6. q.ended => q.token \in loggedOut'  BY DEF RequestKnown, Later
<1>7. q.step = "discard" => HasEnded(q.token)'
  <2>1. q.step = "discard" => q.token \in Tokens /\ HasEnded(q.token)  BY DEF RequestKnown
  <2> QED  BY <2>1, EndedStays
<1>8. q.step = "admitted" => Entitled(r)'
  BY <1>3, <1>5 DEF RequestKnown, Entitled
<1> QED  BY <1>2, <1>3, <1>4, <1>5, <1>6, <1>7, <1>8 DEF RequestKnown

\* One request goes on and the others do nothing.
LEMMA OthersStay ==
    ASSUME AccessInv, SessionsTypeOK', Later, NEW r \in Callers,
           \A q \in Callers \ {r} : request'[q] = request[q],
           request'[r] # Unused => RequestKnown(r)'
    PROVE  RequestsKnown'
<1> SUFFICES ASSUME NEW q \in Callers \ {r}, request'[q] # Unused
             PROVE  RequestKnown(q)'
  BY DEF RequestsKnown
<1>1. request[q] # Unused /\ request'[q] = request[q]  OBVIOUS
<1>2. request[q] \in Request /\ RequestKnown(q)  BY <1>1 DEF AccessInv, SessionsTypeOK, RequestsKnown
<1> QED  BY <1>1, <1>2, KnownStays DEF AccessInv

\* What a request goes on with is what it came with.
LEMMA GoesOn ==
    ASSUME SessionsTypeOK, NEW r \in Callers, request[r] # Unused, NEW step \in Steps, Goes(r, step)
    PROVE  /\ request' \in [Callers -> {Unused} \cup Request]
           /\ request'[r] \in Request /\ request'[r] # Unused
           /\ request'[r] = [request[r] EXCEPT !.step = step]
           /\ \A q \in Callers \ {r} : request'[q] = request[q]
<1>1. request[r] \in Request  BY DEF SessionsTypeOK
<1>2. [request[r] EXCEPT !.step = step] \in Request  BY <1>1 DEF Request
<1>3. request' = [request EXCEPT ![r] = [request[r] EXCEPT !.step = step]]  BY DEF Goes
<1>4. request'[r] = [request[r] EXCEPT !.step = step]  BY <1>3 DEF SessionsTypeOK
<1>5. \A q \in Request : q # Unused
  <2>1. \A q \in Request : DOMAIN q = {"step", "kind", "client", "token", "given", "configuration", "time", "ended"}
    BY DEF Request
  <2>2. DOMAIN Unused = {"step"}  BY DEF Unused
  <2> QED  BY <2>1, <2>2
<1> QED  BY <1>2, <1>3, <1>4, <1>5 DEF SessionsTypeOK

\* A request that goes on still knows what it knew, but for what the new step relies on.
LEMMA GoesKnowing ==
    ASSUME SessionsTypeOK, SessionsTypeOK', GrantsKnown, Later,
           NEW r \in Callers, request[r] \in Request, RequestKnown(r), NEW step \in Steps,
           request'[r] = [request[r] EXCEPT !.step = step],
           step \in {"session", "discard", "logout"} => request[r].token # NoToken,
           step = "discard" => HasEnded(request[r].token),
           step \in {"purge", "create"} => request[r].given = CredentialOf(r),
           step = "admitted" => Entitled(r)
    PROVE  RequestKnown(r)'
<1> DEFINE q == request[r]
<1>0. /\ request'[r].token = q.token /\ request'[r].given = q.given /\ request'[r].configuration = q.configuration
      /\ request'[r].time = q.time /\ request'[r].ended = q.ended /\ request'[r].step = step
  BY DEF Request
<1>1. /\ q.configuration \in Nat /\ q.token \in Nat /\ q.time \in Nat
      /\ Current \in Nat /\ Current' \in Nat /\ Current <= Current'
      /\ now \in Nat /\ now' \in Nat /\ now <= now' /\ issued \in Nat /\ issued' \in Nat /\ issued <= issued'
  BY DEF SessionsTypeOK, Current, Later, Request
<1>2. q.configuration \in 1..Current /\ q.configuration \in 1..Current'  BY <1>1 DEF RequestKnown
<1>3. CredentialOf(r)' = CredentialOf(r)  BY <1>0, <1>2 DEF CredentialOf, Later
<1>4. q.time <= now'  BY <1>1 DEF RequestKnown
<1>5. q.token # NoToken => /\ q.token \in Tokens /\ q.token \in Tokens'
                           /\ grants'[q.token] = grants[q.token]
                           /\ grants'[q.token].configuration <= q.configuration
  BY <1>1 DEF RequestKnown, Later, Tokens
<1>6. q.ended => q.token \in loggedOut'  BY DEF RequestKnown, Later
<1>7. step = "discard" => HasEnded(q.token)'
  <2>1. step = "discard" => q.token \in Tokens /\ HasEnded(q.token)  BY DEF RequestKnown
  <2> QED  BY <2>1, EndedStays
<1>8. step = "admitted" => Entitled(r)'
  BY <1>0, <1>3, <1>5 DEF Entitled
<1> QED  BY <1>0, <1>2, <1>3, <1>4, <1>5, <1>6, <1>7, <1>8 DEF RequestKnown

\* A request goes on without touching the storage.
LEMMA RequestStep ==
    ASSUME AccessInv, NEW r \in Callers, request[r] # Unused, NEW step \in Steps, Goes(r, step),
           UNCHANGED <<configured, now, sessions, issued, grants, loggedOut, lost>>,
           step \in {"session", "discard", "logout"} => request[r].token # NoToken,
           step = "discard" => HasEnded(request[r].token),
           step \in {"purge", "create"} => request[r].given = CredentialOf(r),
           step = "admitted" => Entitled(r)
    PROVE  AccessInv'
<1>1. request[r] \in Request /\ RequestKnown(r)  BY DEF AccessInv, SessionsTypeOK, RequestsKnown
<1>2. SessionsTypeOK'
  BY GoesOn DEF AccessInv, SessionsTypeOK, Current, Tokens
<1>3. Later
  BY DEF AccessInv, SessionsTypeOK, Later, Current, Tokens
<1>4. RequestKnown(r)'  BY <1>1, <1>2, <1>3, GoesOn, GoesKnowing DEF AccessInv
<1>5. RequestsKnown'  BY <1>2, <1>3, <1>4, GoesOn, OthersStay DEF AccessInv
<1>6. GrantsKnown' /\ SessionsGranted'
  BY DEF AccessInv, GrantsKnown, SessionsGranted, Current, Tokens
<1>7. SessionsLast'
  BY DEF AccessInv, SessionsLast, HasEnded, Current, Tokens
<1> QED  BY <1>2, <1>5, <1>6, <1>7 DEF AccessInv

-----------------------------------------------------------------------------
(* The steps of a request *)

\* A request arrives, with the token of a session that was granted before, and knows whether it was logged out of.
LEMMA ArriveKeeps ==
    ASSUME AccessInv, NEW r \in Callers, NEW kind \in {"login", "logout", "get"}, NEW client \in Clients,
           NEW token \in Tokens \cup {NoToken}, NEW given \in Credentials \cup {NoHeader},
           Arrive(r, kind, client, token, given)
    PROVE  AccessInv'
<1> DEFINE q == request'[r]
<1>1. PICK step \in Steps :
         /\ request' = [request EXCEPT ![r] =
                            [step |-> step, kind |-> kind, client |-> client, token |-> token, given |-> given,
                             configuration |-> Current, time |-> now, ended |-> token \in loggedOut]]
         /\ step \in {"session", "logout", "refused", "limit"}
         /\ step \in {"session", "logout"} => token # NoToken
  BY DEF Arrive, Steps
<1>2. Current \in Nat /\ Current \in 1..Current /\ now \in Nat /\ token \in Nat
  BY DEF AccessInv, SessionsTypeOK, Current, Tokens
<1>3. q = [step |-> step, kind |-> kind, client |-> client, token |-> token, given |-> given,
           configuration |-> Current, time |-> now, ended |-> token \in loggedOut]
  BY <1>1 DEF AccessInv, SessionsTypeOK
<1>4. q \in Request  BY <1>2, <1>3 DEF Request
<1>5. UNCHANGED <<configured, now, sessions, issued, grants, loggedOut, lost>>  BY DEF Arrive, historyVars
<1>6. SessionsTypeOK'  BY <1>1, <1>3, <1>4, <1>5 DEF AccessInv, SessionsTypeOK, Current, Tokens
<1>7. Later  BY <1>5 DEF AccessInv, SessionsTypeOK, Later, Current, Tokens
<1>8. RequestKnown(r)'
  <2>1. token # NoToken => token \in Tokens /\ grants[token].configuration \in 1..Current
    BY DEF AccessInv, GrantsKnown
  <2>2. /\ q.step = step /\ q.token = token /\ q.configuration = Current /\ q.time = now
        /\ q.ended = (token \in loggedOut)
    BY <1>3
  <2>3. q.step \notin {"discard", "purge", "create", "admitted"}  BY <1>1, <2>2
  <2>4. Current' = Current /\ now' = now /\ Tokens' = Tokens /\ grants' = grants /\ loggedOut' = loggedOut
    BY <1>5 DEF Current, Tokens
  <2>5. q.configuration \in 1..Current' /\ q.time <= now'  BY <1>2, <2>2, <2>4
  <2>6. q.token # NoToken => q.token \in Tokens' /\ grants'[q.token].configuration <= q.configuration
    BY <1>2, <2>1, <2>2, <2>4
  <2>7. q.ended => q.token \in loggedOut'  BY <2>2, <2>4
  <2>8. q.step \in {"session", "discard", "logout"} => q.token # NoToken  BY <1>1, <2>2
  <2> QED  BY <2>3, <2>5, <2>6, <2>7, <2>8 DEF RequestKnown
<1>9. RequestsKnown'  BY <1>1, <1>6, <1>7, <1>8, OthersStay DEF AccessInv, SessionsTypeOK
<1>10. GrantsKnown' /\ SessionsGranted' /\ SessionsLast'
  BY <1>5 DEF AccessInv, GrantsKnown, SessionsGranted, SessionsLast, HasEnded, Current, Tokens
<1> QED  BY <1>6, <1>9, <1>10 DEF AccessInv

\* A session that lets a request in was granted to a login with the credential of the request, and nobody had logged
\* out of it; one that does not has ended.
LEMMA ReadSessionKeeps ==
    ASSUME AccessInv, NEW r \in Callers, ReadSession(r)
    PROVE  AccessInv'
<1> DEFINE t == request[r].token
           session == sessions[t]
<1>1. request[r].step = "session" /\ request[r] # Unused /\ request[r] \in Request /\ RequestKnown(r)
  BY RequestIsOne DEF ReadSession, AccessInv, RequestsKnown
<1>2. t \in Tokens /\ t # NoToken  BY <1>1 DEF RequestKnown
<1>3. UNCHANGED <<configured, now, sessions, issued, grants, loggedOut, lost>>  BY DEF ReadSession, historyVars
<1>4. CASE session = NoSession
  <2>1. Goes(r, Unrecognized(r))  BY <1>4 DEF ReadSession
  <2>2. Unrecognized(r) \in {"refused", "limit"}  BY DEF Unrecognized
  <2> QED  BY <1>1, <1>3, <2>1, <2>2, RequestStep DEF Steps
<1>5. CASE session # NoSession /\ ValidFor(session, r)
  <2>1. Goes(r, "admitted")  BY <1>5 DEF ReadSession
  <2>2. /\ session.credential = grants[t].given /\ session.expires = grants[t].time + SessionTTL
        /\ t \notin loggedOut
    BY <1>2, <1>5 DEF AccessInv, SessionsGranted
  <2>3. Entitled(r)  BY <1>1, <1>2, <1>5, <2>2 DEF Entitled, ValidFor, RequestKnown, Request
  <2> QED  BY <1>1, <1>3, <2>1, <2>3, RequestStep DEF Steps
<1>6. CASE session # NoSession /\ ~ValidFor(session, r)
  <2>1. Goes(r, "discard")  BY <1>6 DEF ReadSession
  <2>2. session.credential = grants[t].given /\ session.expires = grants[t].time + SessionTTL
    BY <1>2, <1>6 DEF AccessInv, SessionsGranted
  <2>3. /\ request[r].time \in Nat /\ now \in Nat /\ request[r].time <= now
        /\ grants[t].time \in Nat /\ grants[t].configuration \in Nat
        /\ request[r].configuration \in 1..Current /\ Current \in Nat
        /\ grants[t].configuration <= request[r].configuration
    BY <1>1, <1>2 DEF AccessInv, SessionsTypeOK, RequestKnown, Request, Current
  <2>4. CASE ~(request[r].time < session.expires)
    <3>1. now >= grants[t].time + SessionTTL  BY <2>2, <2>3, <2>4, AccessAssumption
    <3> QED  BY <1>1, <1>2, <1>3, <2>1, <3>1, RequestStep DEF Steps, HasEnded
  <2>5. CASE session.credential # CredentialOf(r)
    <3>1. request[r].configuration \in grants[t].configuration..Current  BY <2>3
    <3>2. HasEnded(t)  BY <2>2, <2>5, <3>1 DEF HasEnded, CredentialOf
    <3> QED  BY <1>1, <1>2, <1>3, <2>1, <3>2, RequestStep DEF Steps
  <2> QED  BY <1>6, <2>4, <2>5 DEF ValidFor
<1> QED  BY <1>4, <1>5, <1>6

\* The steps that neither read nor write a session
LEMMA OtherStepsKeep ==
    ASSUME AccessInv, NEW r \in Callers, StoreFails(r) \/ CheckLimit(r) \/ Accept(r) \/ Deny(r)
    PROVE  AccessInv'
<1>1. request[r] # Unused /\ request[r] \in Request /\ RequestKnown(r)
  BY RequestIsOne DEF StoreFails, CheckLimit, Accept, Deny, AccessInv, RequestsKnown
<1>2. UNCHANGED <<configured, now, sessions, issued, grants, loggedOut, lost>>
  BY DEF StoreFails, CheckLimit, Accept, Deny, historyVars
<1>3. CASE StoreFails(r)
  <2>1. PICK step \in {"refused", "limit"} : Goes(r, step)  BY <1>3 DEF StoreFails, Unrecognized
  <2> QED  BY <1>1, <1>2, <2>1, RequestStep DEF Steps
<1>4. CASE CheckLimit(r)
  <2>1. PICK step \in {"limited", "check"} : Goes(r, step)  BY <1>4 DEF CheckLimit
  <2> QED  BY <1>1, <1>2, <2>1, RequestStep DEF Steps
<1>5. CASE Accept(r)
  <2>1. PICK step \in {"purge", "admitted"} : Goes(r, step)  BY <1>5 DEF Accept
  <2>2. request[r].given = CredentialOf(r)  BY <1>5 DEF Accept
  <2> QED  BY <1>1, <1>2, <2>1, <2>2, RequestStep DEF Steps, Entitled
<1>6. CASE Deny(r)
  <2>1. Goes(r, "refused")  BY <1>6 DEF Deny
  <2> QED  BY <1>1, <1>2, <2>1, RequestStep DEF Steps
<1> QED  BY <1>3, <1>4, <1>5, <1>6

\* Sessions that have ended are deleted: the one of a request that is not valid, or the expired ones.
LEMMA DeletionKeeps ==
    ASSUME AccessInv, NEW r \in Callers, request[r] # Unused, NEW step \in {"refused", "limit", "create"},
           Goes(r, step), step = "create" => request[r].given = CredentialOf(r),
           UNCHANGED <<configured, now, issued, grants, lost>>,
           loggedOut' \subseteq Tokens, loggedOut \subseteq loggedOut',
           NEW gone \in SUBSET Tokens,
           \A t \in gone : HasEnded(t)',
           \A t \in Tokens : t \in loggedOut' => t \in gone \/ t \in loggedOut,
           sessions' = [t \in Tokens |-> IF t \in gone THEN NoSession ELSE sessions[t]]
    PROVE  AccessInv'
<1>1. request[r] \in Request /\ RequestKnown(r)  BY DEF AccessInv, SessionsTypeOK, RequestsKnown
<1>2. step \in Steps /\ SessionsTypeOK'
  BY GoesOn DEF AccessInv, SessionsTypeOK, Current, Tokens, Steps
<1>3. Later
  BY DEF AccessInv, SessionsTypeOK, Later, Current, Tokens
<1>4. RequestKnown(r)'  BY <1>1, <1>2, <1>3, GoesOn, GoesKnowing DEF AccessInv
<1>5. RequestsKnown'  BY <1>2, <1>3, <1>4, GoesOn, OthersStay DEF AccessInv
<1>6. GrantsKnown'  BY DEF AccessInv, GrantsKnown, Current, Tokens
<1>7. SessionsGranted'
  BY DEF AccessInv, SessionsGranted, Tokens
<1>8. SessionsLast'
  <2> SUFFICES ASSUME NEW t \in Tokens, sessions'[t] = NoSession PROVE HasEnded(t)'
    BY DEF SessionsLast, Tokens
  <2>1. CASE t \in gone  BY <2>1
  <2>2. CASE t \notin gone
    <3>1. HasEnded(t)  BY <2>2 DEF AccessInv, SessionsLast
    <3> QED  BY <3>1, <1>2, <1>3, EndedStays DEF AccessInv
  <2> QED  BY <2>1, <2>2
<1> QED  BY <1>2, <1>5, <1>6, <1>7, <1>8 DEF AccessInv

\* The session of the request that is discarded had ended.
LEMMA DiscardKeeps ==
    ASSUME AccessInv, NEW r \in Callers, Discard(r)
    PROVE  AccessInv'
<1> DEFINE gone == {request[r].token}
<1>1. request[r].step = "discard" /\ request[r] # Unused /\ RequestKnown(r)
  BY RequestIsOne DEF Discard, AccessInv, RequestsKnown
<1>2. gone \subseteq Tokens /\ \A t \in gone : HasEnded(t)  BY <1>1 DEF RequestKnown
<1>3. UNCHANGED <<configured, now, issued, grants, loggedOut, lost>>  BY DEF Discard, historyVars
<1>4. \A t \in gone : HasEnded(t)'  BY <1>2, <1>3 DEF HasEnded, Current
<1>5. sessions' = [t \in Tokens |-> IF t \in gone THEN NoSession ELSE sessions[t]]
  BY <1>2 DEF Discard, AccessInv, SessionsTypeOK
<1>6. PICK step \in {"refused", "limit"} : Goes(r, step)  BY DEF Discard, Unrecognized
<1>7. loggedOut \subseteq Tokens  BY DEF AccessInv, SessionsTypeOK
<1> HIDE DEF gone
<1> QED  BY <1>1, <1>2, <1>3, <1>4, <1>5, <1>6, <1>7, DeletionKeeps

\* A logout ends its session.
LEMMA LogoutKeeps ==
    ASSUME AccessInv, NEW r \in Callers, Logout(r)
    PROVE  AccessInv'
<1> DEFINE gone == {request[r].token}
<1>1. request[r].step = "logout" /\ request[r] # Unused /\ RequestKnown(r)
  BY RequestIsOne DEF Logout, AccessInv, RequestsKnown
<1>2. gone \subseteq Tokens  BY <1>1 DEF RequestKnown
<1>3. UNCHANGED <<configured, now, issued, grants, lost>> /\ loggedOut' = loggedOut \cup gone
  BY DEF Logout
<1>4. \A t \in gone : HasEnded(t)'  BY <1>3 DEF HasEnded
<1>5. sessions' = [t \in Tokens |-> IF t \in gone THEN NoSession ELSE sessions[t]]
  BY <1>2 DEF Logout, WithoutSession, AccessInv, SessionsTypeOK
<1>6. Goes(r, "refused")  BY DEF Logout
<1>7. loggedOut' \subseteq Tokens /\ loggedOut \subseteq loggedOut'  BY <1>2, <1>3 DEF AccessInv, SessionsTypeOK
<1>8. \A t \in Tokens : t \in loggedOut' => t \in gone \/ t \in loggedOut  BY <1>3
<1> HIDE DEF gone
<1> QED  BY <1>1, <1>2, <1>3, <1>4, <1>5, <1>6, <1>7, <1>8, DeletionKeeps

\* The sessions deleted by a login have expired.
LEMMA PurgeKeeps ==
    ASSUME AccessInv, NEW r \in Callers, Purge(r)
    PROVE  AccessInv'
<1>1. request[r].step = "purge" /\ request[r] # Unused /\ request[r] \in Request /\ RequestKnown(r)
  BY RequestIsOne DEF Purge, AccessInv, RequestsKnown
<1>2. UNCHANGED <<configured, now, issued, grants, loggedOut, lost>> /\ Goes(r, "create")
  BY DEF Purge, historyVars
<1>3. request[r].given = CredentialOf(r)  BY <1>1 DEF RequestKnown
<1>4. CASE sessions' = sessions
  BY <1>1, <1>2, <1>3, <1>4, RequestStep DEF Steps
<1>5. CASE sessions' = [t \in Tokens |-> IF Expired(sessions[t], r) THEN NoSession ELSE sessions[t]]
  <2> DEFINE gone == {t \in Tokens : Expired(sessions[t], r)}
  <2>1. ASSUME NEW t \in gone PROVE HasEnded(t)'
    <3>1. CASE sessions[t] = NoSession
      <4>1. HasEnded(t)  BY <3>1 DEF AccessInv, SessionsLast
      <4> QED  BY <4>1, <1>2 DEF HasEnded, Current
    <3>2. CASE sessions[t] # NoSession
      <4>1. sessions[t].expires = grants[t].time + SessionTTL  BY <3>2 DEF AccessInv, SessionsGranted
      <4>2. request[r].time \in Nat /\ now \in Nat /\ request[r].time <= now /\ grants[t].time \in Nat
        BY <1>1 DEF AccessInv, SessionsTypeOK, RequestKnown, Request
      <4>3. now >= grants[t].time + SessionTTL  BY <4>1, <4>2, AccessAssumption DEF Expired
      <4> QED  BY <4>3, <1>2 DEF HasEnded
    <3> QED  BY <3>1, <3>2
  <2>2. sessions' = [t \in Tokens |-> IF t \in gone THEN NoSession ELSE sessions[t]]  BY <1>5
  <2>3. loggedOut \subseteq Tokens /\ gone \subseteq Tokens  BY DEF AccessInv, SessionsTypeOK
  <2> HIDE DEF gone
  <2> QED  BY <1>1, <1>2, <1>3, <2>1, <2>2, <2>3, DeletionKeeps
<1> QED  BY <1>4, <1>5 DEF Purge

\* A login leaves a session that is what it was granted.
LEMMA CreateSessionKeeps ==
    ASSUME AccessInv, NEW r \in Callers, CreateSession(r)
    PROVE  AccessInv'
<1> DEFINE Sessions == {NoSession} \cup [credential : Credentials, expires : Nat]
           Grants == [configuration : Nat, given : Credentials, time : Nat]
           session == [credential |-> CredentialOf(r), expires |-> request[r].time + SessionTTL]
           grant == [configuration |-> request[r].configuration, given |-> request[r].given, time |-> request[r].time]
<1>1. /\ request[r].step = "create" /\ request[r] # Unused /\ request[r] \in Request /\ RequestKnown(r)
      /\ issued \in Nat /\ sessions \in [1..issued -> Sessions] /\ grants \in [1..issued -> Grants]
  BY RequestIsOne DEF CreateSession, AccessInv, SessionsTypeOK, RequestsKnown, Tokens
<1>2. /\ issued' = issued + 1 /\ sessions' = Append(sessions, session) /\ grants' = Append(grants, grant)
      /\ Goes(r, "admitted")
      /\ UNCHANGED <<configured, now, loggedOut, lost>>
  BY DEF CreateSession
<1>3. CredentialOf(r) \in Credentials /\ request[r].given = CredentialOf(r)
  <2>1. configured \in Seq(Credentials) /\ request[r].configuration \in 1..Len(configured)
    BY <1>1 DEF AccessInv, SessionsTypeOK, RequestKnown, Current
  <2> QED  BY <1>1, <2>1, ElementOfSeq DEF CredentialOf, RequestKnown
<1>4. session \in Sessions /\ grant \in Grants /\ session # NoSession
  BY <1>1, <1>3, AccessAssumption, SessionIsOne DEF Request
<1>5. /\ session.credential = grant.given /\ session.expires = grant.time + SessionTTL
      /\ grant.configuration = request[r].configuration
  BY <1>3
<1> HIDE DEF Sessions, Grants, session, grant
<1>6. /\ sessions' \in [1..issued' -> Sessions] /\ sessions'[issued'] = session
      /\ \A t \in 1..issued : sessions'[t] = sessions[t]
  <2>1. issued \in Nat /\ issued' = issued + 1 /\ sessions \in [1..issued -> Sessions] /\ session \in Sessions
        /\ sessions' = Append(sessions, session)
    BY <1>1, <1>2, <1>4
  <2>2. sessions \in Seq(Sessions) /\ Len(sessions) = issued  BY ONLY <2>1
  <2>3. /\ sessions' \in Seq(Sessions) /\ Len(sessions') = issued'
        /\ sessions'[issued'] = session /\ \A t \in 1..issued : sessions'[t] = sessions[t]
    BY ONLY <2>1, <2>2, AppendProperties
  <2>4. sessions' \in [1..issued' -> Sessions]  BY ONLY <2>3, LenProperties
  <2> QED  BY <2>3, <2>4
<1>7. /\ grants' \in [1..issued' -> Grants] /\ grants'[issued'] = grant
      /\ \A t \in 1..issued : grants'[t] = grants[t]
  <2>1. issued \in Nat /\ issued' = issued + 1 /\ grants \in [1..issued -> Grants] /\ grant \in Grants
        /\ grants' = Append(grants, grant)
    BY <1>1, <1>2, <1>4
  <2>2. grants \in Seq(Grants) /\ Len(grants) = issued  BY ONLY <2>1
  <2>3. /\ grants' \in Seq(Grants) /\ Len(grants') = issued'
        /\ grants'[issued'] = grant /\ \A t \in 1..issued : grants'[t] = grants[t]
    BY ONLY <2>1, <2>2, AppendProperties
  <2>4. grants' \in [1..issued' -> Grants]  BY ONLY <2>3, LenProperties
  <2> QED  BY <2>3, <2>4
<1>8. Tokens' = Tokens \cup {issued'} /\ issued' \notin Tokens /\ issued' \in Nat
  BY <1>1, <1>2 DEF Tokens
<1>9. request' \in [Callers -> {Unused} \cup Request]
  BY <1>1, <1>2, GoesOn DEF Steps, AccessInv
<1>10. SessionsTypeOK'
  BY <1>2, <1>6, <1>7, <1>8, <1>9 DEF AccessInv, SessionsTypeOK, Sessions, Grants, Current, Tokens
<1>11. Later  BY <1>1, <1>2, <1>7 DEF AccessInv, SessionsTypeOK, Later, Current, Tokens
<1>12. RequestKnown(r)'
  <2>1. Entitled(r)  BY <1>3 DEF Entitled
  <2>2. request'[r] = [request[r] EXCEPT !.step = "admitted"]  BY <1>1, <1>2, GoesOn DEF Steps, AccessInv
  <2> QED  BY <1>1, <1>10, <1>11, <2>1, <2>2, GoesKnowing DEF Steps, AccessInv
<1>13. \A q \in Callers \ {r} : request'[q] = request[q]
  BY <1>1, <1>2, GoesOn DEF Steps, AccessInv
<1>14. RequestsKnown'  BY <1>10, <1>11, <1>12, <1>13, OthersStay
<1>15. GrantsKnown'
  <2>1. \A t \in Tokens : grants'[t].configuration \in 1..Current  BY <1>7 DEF AccessInv, GrantsKnown, Tokens
  <2>2. grants'[issued'].configuration \in 1..Current  BY <1>1, <1>5, <1>7 DEF RequestKnown
  <2> QED  BY <1>2, <1>8, <2>1, <2>2 DEF GrantsKnown, Current
<1>16. SessionsGranted'
  <2> SUFFICES ASSUME NEW t \in Tokens', sessions'[t] # NoSession
               PROVE  /\ sessions'[t].credential = grants'[t].given
                      /\ sessions'[t].expires = grants'[t].time + SessionTTL
                      /\ t \notin loggedOut
    BY <1>2 DEF SessionsGranted
  <2>1. CASE t \in Tokens
    BY <2>1, <1>6, <1>7 DEF AccessInv, SessionsGranted, Tokens
  <2>2. CASE t = issued'
    BY <2>2, <1>5, <1>6, <1>7, <1>8 DEF AccessInv, SessionsTypeOK
  <2> QED  BY <1>8, <2>1, <2>2
<1>17. SessionsLast'
  <2> SUFFICES ASSUME NEW t \in Tokens', sessions'[t] = NoSession PROVE HasEnded(t)'
    BY DEF SessionsLast
  <2>1. t \in Tokens /\ sessions[t] = NoSession  BY <1>4, <1>6, <1>8 DEF Tokens
  <2>2. HasEnded(t)  BY <2>1 DEF AccessInv, SessionsLast
  <2> QED  BY <2>1, <2>2, <1>10, <1>11, EndedStays DEF AccessInv
<1> QED  BY <1>10, <1>14, <1>15, <1>16, <1>17 DEF AccessInv

-----------------------------------------------------------------------------
(* The steps of the program *)

\* A reload or a restart adds a configuration; with a storage in memory all sessions are lost.
LEMMA ConfigureKeeps ==
    ASSUME AccessInv, NEW c \in Credentials, Reload(c) \/ RestartProcess(c)
    PROVE  AccessInv'
<1>1. /\ configured' = Append(configured, c)
      /\ UNCHANGED <<now, issued, grants, loggedOut>>
      /\ \/ sessions' = sessions /\ lost' = lost
         \/ sessions' = [t \in Tokens |-> NoSession] /\ lost' = Tokens
      /\ request' = request \/ request' = [r \in Callers |-> Unused]
  BY DEF Reload, RestartProcess, Configure
<1>2. /\ configured' \in Seq(Credentials) /\ Current' = Current + 1 /\ Current \in Nat
      /\ \A g \in 1..Current : configured'[g] = configured[g]
  BY <1>1, AppendConfiguration DEF AccessInv
<1>3. SessionsTypeOK'
  <2>1. Current' > 0 /\ Tokens' = Tokens  BY <1>1, <1>2 DEF AccessInv, SessionsTypeOK, Tokens
  <2>2. sessions' \in [Tokens -> {NoSession} \cup [credential : Credentials, expires : Nat]] /\ lost' \subseteq Tokens
    BY <1>1 DEF AccessInv, SessionsTypeOK
  <2>3. request' \in [Callers -> {Unused} \cup Request]  BY <1>1 DEF AccessInv, SessionsTypeOK
  <2> QED  BY <1>1, <1>2, <2>1, <2>2, <2>3 DEF AccessInv, SessionsTypeOK
<1>4. Later
  <2>1. Current <= Current' /\ now <= now' /\ issued <= issued'
    BY <1>1, <1>2 DEF AccessInv, SessionsTypeOK
  <2>2. lost \subseteq lost'  BY <1>1 DEF AccessInv, SessionsTypeOK
  <2> QED  BY <1>1, <1>2, <2>1, <2>2 DEF Later
<1>5. RequestsKnown'
  <2> SUFFICES ASSUME NEW r \in Callers, request'[r] # Unused PROVE RequestKnown(r)'
    BY DEF RequestsKnown
  <2>1. request'[r] = request[r] /\ request[r] # Unused  BY <1>1
  <2>2. request[r] \in Request /\ RequestKnown(r)  BY <2>1 DEF AccessInv, SessionsTypeOK, RequestsKnown
  <2> QED  BY <1>3, <1>4, <2>1, <2>2, KnownStays DEF AccessInv
<1>6. GrantsKnown'  BY <1>1, <1>2 DEF AccessInv, GrantsKnown, Tokens
<1>7. SessionsGranted'  BY <1>1 DEF AccessInv, SessionsGranted, Tokens
<1>8. SessionsLast'
  <2> SUFFICES ASSUME NEW t \in Tokens, sessions'[t] = NoSession PROVE HasEnded(t)'
    BY <1>1 DEF SessionsLast, Tokens
  <2>1. CASE lost' = Tokens  BY <2>1 DEF HasEnded
  <2>2. CASE sessions' = sessions
    <3>1. HasEnded(t)  BY <2>2 DEF AccessInv, SessionsLast
    <3> QED  BY <3>1, <1>3, <1>4, EndedStays DEF AccessInv
  <2> QED  BY <1>1, <2>1, <2>2
<1> QED  BY <1>3, <1>5, <1>6, <1>7, <1>8 DEF AccessInv

\* Time ends sessions and does not touch the storage.
LEMMA TickKeeps ==
    ASSUME AccessInv, AccessTick
    PROVE  AccessInv'
<1>1. now' = now + 1 /\ UNCHANGED <<configured, sessions, issued, request, grants, loggedOut, lost>>
  BY DEF AccessTick, historyVars
<1>2. SessionsTypeOK'  BY <1>1 DEF AccessInv, SessionsTypeOK, Current, Tokens
<1>3. Later  BY <1>1 DEF AccessInv, SessionsTypeOK, Later, Current, Tokens
<1>4. RequestsKnown'
  <2> SUFFICES ASSUME NEW r \in Callers, request'[r] # Unused PROVE RequestKnown(r)'
    BY DEF RequestsKnown
  <2>1. request'[r] = request[r] /\ request[r] # Unused  BY <1>1
  <2>2. request[r] \in Request /\ RequestKnown(r)  BY <2>1 DEF AccessInv, SessionsTypeOK, RequestsKnown
  <2> QED  BY <1>2, <1>3, <2>1, <2>2, KnownStays DEF AccessInv
<1>5. GrantsKnown' /\ SessionsGranted'
  BY <1>1 DEF AccessInv, GrantsKnown, SessionsGranted, Current, Tokens
<1>6. SessionsLast'
  <2> SUFFICES ASSUME NEW t \in Tokens, sessions[t] = NoSession PROVE HasEnded(t)'
    BY <1>1 DEF SessionsLast, Tokens
  <2>1. HasEnded(t)  BY DEF AccessInv, SessionsLast
  <2> QED  BY <2>1, <1>2, <1>3, EndedStays DEF AccessInv
<1> QED  BY <1>2, <1>4, <1>5, <1>6 DEF AccessInv

-----------------------------------------------------------------------------

\* At first there are no requests and no sessions.
LEMMA InitInv == AccessInit => AccessInv
<1> SUFFICES ASSUME AccessInit PROVE AccessInv  OBVIOUS
<1>1. PICK c \in Credentials : configured = <<c>>  BY DEF AccessInit
<1>2. configured \in Seq(Credentials) /\ Current = 1  BY <1>1 DEF Current
<1>3. /\ now = 0 /\ issued = 0 /\ sessions = <<>> /\ grants = <<>> /\ loggedOut = {} /\ lost = {}
      /\ request = [r \in Callers |-> Unused] /\ Tokens = {}
  BY DEF AccessInit, Tokens
<1>4. SessionsTypeOK  BY <1>2, <1>3 DEF SessionsTypeOK
<1>5. RequestsKnown  BY <1>3 DEF RequestsKnown
<1> QED  BY <1>3, <1>4, <1>5 DEF AccessInv, GrantsKnown, SessionsGranted, SessionsLast

\* The invariant is inductive.
LEMMA NextKeeps == AccessInv /\ [AccessNext]_accessVars => AccessInv'
<1> SUFFICES ASSUME AccessInv, [AccessNext]_accessVars PROVE AccessInv'  OBVIOUS
<1>1. ASSUME NEW r \in Callers, Handle(r) PROVE AccessInv'
  <2>1. CASE \E kind \in {"login", "logout", "get"}, client \in Clients, token \in Tokens \cup {NoToken},
                given \in Credentials \cup {NoHeader} : Arrive(r, kind, client, token, given)
    BY <2>1, ArriveKeeps
  <2> QED  BY <1>1, <2>1, ReadSessionKeeps, DiscardKeeps, OtherStepsKeep, PurgeKeeps, CreateSessionKeeps, LogoutKeeps
           DEF Handle
<1>2. ASSUME NEW c \in Credentials, Reload(c) \/ RestartProcess(c) PROVE AccessInv'
  BY <1>2, ConfigureKeeps
<1>3. CASE AccessTick  BY <1>3, TickKeeps
<1>4. CASE UNCHANGED accessVars
  BY <1>4 DEF accessVars, programVars, historyVars, AccessInv, SessionsTypeOK, GrantsKnown, SessionsGranted,
     RequestsKnown, RequestKnown, SessionsLast, HasEnded, Entitled, CredentialOf, Current, Tokens
<1> QED  BY <1>1, <1>2, <1>3, <1>4 DEF AccessNext

\* The invariant holds in every state.
LEMMA AccessInvariance == AccessSpec => []AccessInv
<1> QED  BY InitInv, NextKeeps, PTL DEF AccessSpec

\* The sessions, their grants and the requests have their types (login_sessions, Login, authenticateBasic).
THEOREM SessionsTypes == AccessSpec => []SessionsTypeOK
<1>1. AccessInv => SessionsTypeOK  BY DEF AccessInv
<1> QED  BY <1>1, AccessInvariance, PTL

\* Nobody is let in without the credential of the configuration or a session of it that is neither expired nor logged
\* out of, whatever is reloaded, restarted or fails in between (authenticateBasic, sessionUsername, Logout).
THEOREM AccessSafety == AccessSpec => []AdmittedByCredential
<1>1. ASSUME AccessInv PROVE AdmittedByCredential
  <2> SUFFICES ASSUME NEW r \in Callers, request[r].step = "admitted" PROVE Entitled(r)
    BY DEF AdmittedByCredential
  <2>1. request[r] # Unused  BY <1>1, RequestIsOne DEF AccessInv
  <2> QED  BY <1>1, <2>1 DEF AccessInv, RequestsKnown, RequestKnown
<1> QED  BY <1>1, AccessInvariance, PTL

\* A session stays in the storage until it has to end: neither a login nor a request of an older configuration deletes
\* the session of another (DeleteExpiredLoginSessions, sessionUsername).
THEOREM SessionsLastSafety == AccessSpec => []SessionsLast
<1>1. AccessInv => SessionsLast  BY DEF AccessInv
<1> QED  BY <1>1, AccessInvariance, PTL
-----------------------------------------------------------------------------
(* The limiter: the list of the clients with failures *)

Entry == [client : Clients, start : Nat, failures : Nat]

\* A list of the clients with failures has one entry for each, and no more than are tracked.
ListedClients(entries) ==
    /\ entries \in Seq(Entry) /\ Len(entries) <= MaximumKeys
    /\ \A i, j \in 1..Len(entries) : entries[i].client = entries[j].client => i = j

\* The position of a client is that of its entry.
LEMMA PositionIs ==
    ASSUME NEW entries, Len(entries) \in Nat, NEW client
    PROVE  /\ Tracked(client, entries) <=> \E i \in 1..Len(entries) : entries[i].client = client
           /\ Tracked(client, entries) =>
                 PositionOf(client, entries) \in 1..Len(entries) /\ entries[PositionOf(client, entries)].client = client
           /\ ~Tracked(client, entries) => PositionOf(client, entries) = Len(entries) + 1
<1>1. CASE \E i \in 1..Len(entries) : entries[i].client = client
  <2> DEFINE p == CHOOSE i \in 1..Len(entries) : entries[i].client = client
  <2>1. p \in 1..Len(entries) /\ entries[p].client = client
    BY <1>1
  <2>2. PositionOf(client, entries) = p
    BY <1>1 DEF PositionOf
  <2> HIDE DEF p
  <2> QED
    BY <1>1, <2>1, <2>2 DEF Tracked
<1>2. CASE ~\E i \in 1..Len(entries) : entries[i].client = client
  <2>1. PositionOf(client, entries) = Len(entries) + 1
    BY <1>2 DEF PositionOf
  <2> QED
    BY <1>2, <2>1 DEF Tracked
<1> QED
  BY <1>1, <1>2

\* What a failure makes of the entry of its client: a window of its own, or one more in that there was
LEMMA CountedIs ==
    ASSUME NEW entries, ListedClients(entries), NEW client \in Clients, NEW time \in Nat
    PROVE  /\ Counted(entries, client, time) \in Entry /\ Counted(entries, client, time).client = client
           /\ \/ Counted(entries, client, time) = [client |-> client, start |-> time, failures |-> 1]
              \/ \E p \in 1..Len(entries) :
                    /\ entries[p].client = client /\ time < entries[p].start + Window
                    /\ Counted(entries, client, time).start = entries[p].start
                    /\ Counted(entries, client, time).failures = entries[p].failures + 1
<1> DEFINE p == PositionOf(client, entries)
<1>1. CASE ~Tracked(client, entries) \/ time >= entries[p].start + Window
  BY <1>1 DEF Counted, Entry
<1>2. CASE ~(~Tracked(client, entries) \/ time >= entries[p].start + Window)
  <2>1. p \in 1..Len(entries) /\ entries[p].client = client
    BY <1>2, PositionIs DEF ListedClients
  <2>2. entries[p] \in Entry /\ Counted(entries, client, time) = [entries[p] EXCEPT !.failures = entries[p].failures + 1]
    BY <1>2, <2>1 DEF Counted, ListedClients
  <2> HIDE DEF p
  <2>3. entries[p].start \in Nat /\ entries[p].failures \in Nat
    BY <2>2 DEF Entry
  <2>4. /\ Counted(entries, client, time) \in Entry /\ Counted(entries, client, time).client = client
        /\ Counted(entries, client, time).start = entries[p].start
        /\ Counted(entries, client, time).failures = entries[p].failures + 1
    BY <2>1, <2>2, <2>3 DEF Entry
  <2>5. time < entries[p].start + Window
    BY <1>2, <2>3, AccessAssumption DEF p
  <2> QED
    BY <2>1, <2>4, <2>5
<1> QED
  BY <1>1, <1>2

\* The entry of the client, which was at position p or is a new one, comes first; those before it move behind it, and
\* the last one may be dropped.
MovedToFront(entries, client, p, first, later) ==
    /\ p \in 1..(Len(entries) + 1)
    /\ later \in Seq(Entry) /\ Len(later) \in 1..MaximumKeys /\ later[1] = first /\ later[1].client = client
    /\ \A i \in 2..Len(later) :
          IF i <= p THEN i - 1 \in 1..Len(entries) /\ later[i] = entries[i - 1]
                    ELSE i \in 1..Len(entries) /\ later[i] = entries[i]
    /\ p <= Len(entries) => entries[p].client = client /\ Len(later) = Len(entries)
    /\ p > Len(entries) =>
          /\ \A i \in 1..Len(entries) : entries[i].client # client
          /\ Len(later) = Len(entries) + 1 \/ (Len(later) = Len(entries) /\ Len(entries) = MaximumKeys)

\* The entries of the others stay as they were.
OthersKept(entries, client, later) ==
    \A i \in 2..Len(later) : later[i].client # client /\ \E j \in 1..Len(entries) : later[i] = entries[j]

\* That is what a failure does to the list.
LEMMA AfterFailureIs ==
    ASSUME NEW entries, ListedClients(entries), NEW client \in Clients, NEW time \in Nat
    PROVE  MovedToFront(entries, client, PositionOf(client, entries), Counted(entries, client, time),
                        AfterFailure(entries, client, time))
<1> DEFINE p == PositionOf(client, entries)
           c == Counted(entries, client, time)
           length == IF Tracked(client, entries) \/ Len(entries) >= MaximumKeys THEN Len(entries) ELSE Len(entries) + 1
           later == AfterFailure(entries, client, time)
<1>0. Len(entries) \in Nat /\ Len(entries) <= MaximumKeys /\ MaximumKeys \in Nat \ {0}
  BY AccessAssumption DEF ListedClients
<1>1. later = [i \in 1..length |-> IF i = 1 THEN c ELSE IF i <= p THEN entries[i - 1] ELSE entries[i]]
  BY DEF AfterFailure
<1>2. c \in Entry
  BY CountedIs
<1>3. /\ p \in 1..(Len(entries) + 1)
      /\ p <= Len(entries) => Tracked(client, entries) /\ entries[p].client = client
      /\ p > Len(entries) => ~Tracked(client, entries) /\ \A i \in 1..Len(entries) : entries[i].client # client
  BY <1>0, PositionIs DEF Tracked
<1>4. /\ length \in 1..MaximumKeys
      /\ p <= Len(entries) => length = Len(entries)
      /\ p > Len(entries) => length = Len(entries) + 1 \/ (length = Len(entries) /\ Len(entries) = MaximumKeys)
  BY <1>0, <1>3
<1> HIDE DEF p, c, length, later
<1>5. \A i \in 2..length : IF i <= p THEN i - 1 \in 1..Len(entries) ELSE i \in 1..Len(entries)
  BY <1>0, <1>3, <1>4
<1>6. \A i \in 1..length : (IF i = 1 THEN c ELSE IF i <= p THEN entries[i - 1] ELSE entries[i]) \in Entry
  <2> SUFFICES ASSUME NEW i \in 1..length, i # 1
               PROVE  (IF i <= p THEN entries[i - 1] ELSE entries[i]) \in Entry
    BY <1>2
  <2>1. i \in 2..length /\ \A j \in 1..Len(entries) : entries[j] \in Entry
    BY <1>4 DEF ListedClients
  <2> QED
    BY <1>5, <2>1
<1>7. later \in [1..length -> Entry]
  BY <1>1, <1>6
<1>8. later \in Seq(Entry) /\ Len(later) = length
  BY <1>4, <1>7
<1>9. later[1] = c /\ \A i \in 2..length : later[i] = IF i <= p THEN entries[i - 1] ELSE entries[i]
  BY <1>1, <1>4
<1>10. \A i \in 2..Len(later) :
          IF i <= p THEN i - 1 \in 1..Len(entries) /\ later[i] = entries[i - 1]
                    ELSE i \in 1..Len(entries) /\ later[i] = entries[i]
  BY <1>5, <1>8, <1>9
<1>11. /\ p <= Len(entries) => entries[p].client = client /\ Len(later) = Len(entries)
       /\ p > Len(entries) =>
             /\ \A i \in 1..Len(entries) : entries[i].client # client
             /\ Len(later) = Len(entries) + 1 \/ (Len(later) = Len(entries) /\ Len(entries) = MaximumKeys)
       /\ p \in 1..(Len(entries) + 1)
       /\ later \in Seq(Entry) /\ Len(later) \in 1..MaximumKeys /\ later[1] = c
  BY <1>3, <1>4, <1>8, <1>9
<1>12. MovedToFront(entries, client, p, c, later)
  <2>1. c.client = client
    BY CountedIs DEF c
  <2> QED
    BY <1>10, <1>11, <2>1 DEF MovedToFront
<1> QED
  BY <1>12 DEF p, c, later

\* A list of clients stays one, and the entries of the others stay as they were.
LEMMA MovedToFrontListed ==
    ASSUME NEW entries, NEW client, NEW p, NEW first, NEW later,
           ListedClients(entries), MovedToFront(entries, client, p, first, later)
    PROVE  ListedClients(later) /\ OthersKept(entries, client, later)
<1>0. PICK moved : \A i \in Nat : moved[i] = IF i <= p THEN i - 1 ELSE i
  <2>1. \A i \in Nat : [n \in Nat |-> IF n <= p THEN n - 1 ELSE n][i] = IF i <= p THEN i - 1 ELSE i
    OBVIOUS
  <2> QED
    BY <2>1
<1>1. /\ p \in 1..(Len(entries) + 1) /\ Len(entries) \in Nat
      /\ later \in Seq(Entry) /\ Len(later) \in 1..MaximumKeys /\ later[1].client = client
      /\ \A i \in 2..Len(later) : moved[i] \in 1..Len(entries) /\ later[i] = entries[moved[i]] /\ moved[i] # p
      /\ p <= Len(entries) => entries[p].client = client
      /\ p > Len(entries) => \A i \in 1..Len(entries) : entries[i].client # client
  <2>1. /\ p \in 1..(Len(entries) + 1) /\ Len(entries) \in Nat
        /\ later \in Seq(Entry) /\ Len(later) \in 1..MaximumKeys /\ later[1].client = client
        /\ \A i \in 2..Len(later) :
              IF i <= p THEN i - 1 \in 1..Len(entries) /\ later[i] = entries[i - 1]
                        ELSE i \in 1..Len(entries) /\ later[i] = entries[i]
        /\ p <= Len(entries) => entries[p].client = client
        /\ p > Len(entries) => \A i \in 1..Len(entries) : entries[i].client # client
    BY DEF ListedClients, MovedToFront
  <2>3. \A i \in 2..Len(later) : moved[i] \in 1..Len(entries) /\ later[i] = entries[moved[i]] /\ moved[i] # p
    <3> SUFFICES ASSUME NEW i \in 2..Len(later)
                 PROVE  moved[i] \in 1..Len(entries) /\ later[i] = entries[moved[i]] /\ moved[i] # p
      OBVIOUS
    <3>1. i \in Nat /\ p \in Nat /\ moved[i] = IF i <= p THEN i - 1 ELSE i
      BY <1>0, <2>1
    <3>2. CASE i <= p
      BY <2>1, <3>1, <3>2
    <3>3. CASE ~(i <= p)
      BY <2>1, <3>1, <3>3
    <3> QED
      BY <3>2, <3>3
  <2> QED
    BY <2>1, <2>3
<1>2. \A i, j \in 2..Len(later) : moved[i] = moved[j] => i = j
  <2> SUFFICES ASSUME NEW i \in 2..Len(later), NEW j \in 2..Len(later), moved[i] = moved[j] PROVE i = j
    OBVIOUS
  <2>1. i \in Nat /\ j \in Nat /\ p \in Nat /\ moved[i] # p /\ moved[j] # p
    BY <1>1
  <2>2. /\ (i <= p => moved[i] = i - 1) /\ (i > p => moved[i] = i)
        /\ (j <= p => moved[j] = j - 1) /\ (j > p => moved[j] = j)
    BY <1>0, <2>1
  <2>3. CASE i <= p
    <3>1. moved[i] = i - 1 /\ j <= p
      BY <2>1, <2>2, <2>3
    <3>2. moved[j] = j - 1
      BY <2>1, <2>2, <3>1
    <3>3. i - 1 = j - 1
      BY <3>1, <3>2
    <3> QED
      BY <2>1, <3>3
  <2>4. CASE i > p
    BY <2>1, <2>2, <2>4
  <2> QED
    BY <2>1, <2>3, <2>4
<1>3. \A i \in 2..Len(later) : later[i].client # client
  <2>1. CASE p <= Len(entries)
    <3>1. p \in 1..Len(entries) /\ \A i \in 1..Len(entries) : i # p => entries[i].client # client
      BY <1>1, <2>1 DEF ListedClients
    <3> QED
      BY <1>1, <3>1
  <2>2. CASE p > Len(entries)
    BY <1>1, <2>2
  <2> QED
    BY <1>1, <2>1, <2>2
<1>4. \A i, j \in 2..Len(later) : later[i].client = later[j].client => i = j
  <2> SUFFICES ASSUME NEW i \in 2..Len(later), NEW j \in 2..Len(later), later[i].client = later[j].client PROVE i = j
    OBVIOUS
  <2>1. moved[i] \in 1..Len(entries) /\ moved[j] \in 1..Len(entries) /\ entries[moved[i]].client = entries[moved[j]].client
    BY <1>1
  <2>2. moved[i] = moved[j]
    BY <2>1 DEF ListedClients
  <2> QED
    BY <1>2, <2>2
<1>5. \A i \in 1..Len(later) : i = 1 \/ i \in 2..Len(later)
  BY <1>1
<1>6. \A i, j \in 1..Len(later) : later[i].client = later[j].client => i = j
  BY <1>1, <1>3, <1>4, <1>5
<1>7. Len(later) <= MaximumKeys
  BY <1>1, AccessAssumption
<1> QED
  BY <1>1, <1>3, <1>6, <1>7 DEF ListedClients, OthersKept

\* The list after a failure is one of clients again, those of the others as they were.
LEMMA AfterFailureListed ==
    ASSUME NEW entries, ListedClients(entries), NEW client \in Clients, NEW time \in Nat
    PROVE  /\ ListedClients(AfterFailure(entries, client, time))
           /\ OthersKept(entries, client, AfterFailure(entries, client, time))
<1>1. MovedToFront(entries, client, PositionOf(client, entries), Counted(entries, client, time),
                   AfterFailure(entries, client, time))
  BY AfterFailureIs
<1> QED
  BY <1>1, MovedToFrontListed

-----------------------------------------------------------------------------
(* What the limiter knows of the failures *)

Failed == [configuration : Nat, client : Clients, at : Nat]

\* The failures of a client since a time, and the requests of a client that passed the limiter in a window and whose
\* password is not checked yet
Since(g, client, time) == {i \in FailuresOf(g, client) : failed[i].at >= time}
Checking(g, client, end) ==
    {r \in Callers : /\ request[r].step = "check" /\ request[r].configuration = g /\ request[r].client = client
                     /\ request[r].time < end}

\* An entry counts failures that there were since its window began, and leaves room for those of the requests that
\* passed while it was not full.
EntryKnown(g, entry) ==
    /\ entry.start <= now
    /\ entry.failures <= Cardinality(Since(g, entry.client, entry.start))
    /\ entry.failures + Cardinality(Checking(g, entry.client, entry.start + Window))
          <= MaximumFailures - 1 + Cardinality(Callers)

\* The clients that failed from the failure on, but for its own
Others(n) ==
    {failed[j].client : j \in {k \in n..Len(failed) : failed[k].configuration = failed[n].configuration}} \ {failed[n].client}

\* The client of a failure has its entry, behind those of clients that failed since, or as many of them as are tracked did.
RemembersFailure(n) ==
    LET entries == limiter[failed[n].configuration] IN
    \/ \E q \in 1..Len(entries) :
          /\ entries[q].client = failed[n].client
          /\ \A i \in 1..(q - 1) : entries[i].client \in Others(n)
    \/ Cardinality(Others(n)) >= MaximumKeys

LimiterInv ==
    /\ limiter \in Seq(Seq(Entry)) /\ Len(limiter) = Current /\ \A g \in 1..Current : ListedClients(limiter[g])
    /\ failed \in Seq(Failed) /\ \A n \in 1..Len(failed) : failed[n].configuration \in 1..Current /\ failed[n].at <= now
    /\ \A g \in 1..Current : \A i \in 1..Len(limiter[g]) : EntryKnown(g, limiter[g][i])
    /\ \A n \in 1..Len(failed) : RemembersFailure(n)
    /\ LimitedForOwnFailures

\* The sets that are counted are finite.
LEMMA CountedSets ==
    ASSUME LimiterInv, NEW g, NEW client, NEW end
    PROVE  /\ IsFiniteSet(FailuresOf(g, client)) /\ FailuresOf(g, client) \subseteq 1..Len(failed) /\ Len(failed) \in Nat
           /\ IsFiniteSet(Since(g, client, end)) /\ Cardinality(Since(g, client, end)) \in Nat
           /\ IsFiniteSet(Checking(g, client, end)) /\ Cardinality(Checking(g, client, end)) \in Nat
           /\ Cardinality(Checking(g, client, end)) <= Cardinality(Callers)
           /\ IsFiniteSet(Callers) /\ Cardinality(Callers) \in Nat
<1>1. Len(failed) \in Nat
  BY DEF LimiterInv
<1>2. FailuresOf(g, client) \subseteq 1..Len(failed) /\ Since(g, client, end) \subseteq 1..Len(failed)
  BY DEF FailuresOf, Since
<1>3. IsFiniteSet(1..Len(failed))
  BY <1>1, FS_Interval
<1>4. IsFiniteSet(FailuresOf(g, client)) /\ IsFiniteSet(Since(g, client, end))
  BY <1>2, <1>3, FS_Subset
<1>5. Checking(g, client, end) \subseteq Callers
  BY DEF Checking
<1>6. IsFiniteSet(Callers)
  BY AccessAssumption
<1>7. IsFiniteSet(Checking(g, client, end)) /\ Cardinality(Checking(g, client, end)) <= Cardinality(Callers)
  BY <1>5, <1>6, FS_Subset
<1> QED
  BY <1>1, <1>2, <1>4, <1>6, <1>7, FS_CardinalityType

\* The clients that failed are finitely many.
LEMMA ClientsFinite ==
    ASSUME NEW failures \in Seq(Failed)
    PROVE  IsFiniteSet({failures[j].client : j \in 1..Len(failures)})
<1> DEFINE clients == {failures[j].client : j \in 1..Len(failures)}
           clientOf == [j \in 1..Len(failures) |-> failures[j].client]
<1>1. Len(failures) \in Nat /\ IsFiniteSet(1..Len(failures))
  BY FS_Interval
<1>2. clientOf \in Surjection(1..Len(failures), clients)
  BY Fun_IsSurj
<1> QED
  BY <1>1, <1>2, FS_Surjection

\* The clients that failed after a failure are finitely many.
LEMMA OthersFinite ==
    ASSUME failed \in Seq(Failed), NEW n \in 1..Len(failed)
    PROVE  IsFiniteSet(Others(n)) /\ Cardinality(Others(n)) \in Nat
<1>1. IsFiniteSet({failed[j].client : j \in 1..Len(failed)})
  BY ClientsFinite
<1>2. Others(n) \subseteq {failed[j].client : j \in 1..Len(failed)}
  BY DEF Others
<1> QED
  BY <1>1, <1>2, FS_Subset, FS_CardinalityType

-----------------------------------------------------------------------------
(* The steps that neither ask the limiter nor count *)

\* Nothing is counted, nobody else is between the limiter and the count, and nobody else is refused.
LEMMA UncountedKeeps ==
    ASSUME LimiterInv, UNCHANGED <<limiter, failed, configured>>, now \in Nat, now' \in Nat, now <= now',
           \A r \in Callers : request'[r].step \in {"check", "limited"} => request'[r] = request[r]
    PROVE  LimiterInv'
<1>1. Current' = Current
  BY DEF Current
<1>2. Len(failed) \in Nat /\ \A n \in 1..Len(failed) : failed[n].at \in Nat
  <2>1. failed \in Seq(Failed)
    BY DEF LimiterInv
  <2>2. \A n \in 1..Len(failed) : failed[n] \in Failed
    BY <2>1
  <2> QED
    BY <2>1, <2>2 DEF Failed
<1>0. limiter' = limiter /\ failed' = failed
  OBVIOUS
<1>3. ASSUME NEW g \in 1..Current, NEW i \in 1..Len(limiter[g])
      PROVE  EntryKnown(g, limiter[g][i])'
  <2> DEFINE e == limiter[g][i]
             before == Checking(g, e.client, e.start + Window)
             after == {r \in Callers : /\ request'[r].step = "check" /\ request'[r].configuration = g
                                       /\ request'[r].client = e.client /\ request'[r].time < e.start + Window}
  <2>1. EntryKnown(g, e) /\ e \in Entry
    <3>1. EntryKnown(g, e)
      BY DEF LimiterInv
    <3>2. ListedClients(limiter[g])
      BY DEF LimiterInv
    <3>3. limiter[g] \in Seq(Entry)
      BY <3>2 DEF ListedClients
    <3>4. e \in Entry
      BY <3>3
    <3> QED
      BY <3>1, <3>4
  <2>2. after \subseteq before
    BY DEF Checking
  <2>3. IsFiniteSet(before) /\ Cardinality(before) \in Nat /\ Cardinality(Callers) \in Nat
    BY CountedSets
  <2>4. Cardinality(after) <= Cardinality(before) /\ Cardinality(after) \in Nat
    BY <2>2, <2>3, FS_Subset, FS_CardinalityType
  <2>5. e.failures + Cardinality(before) <= MaximumFailures - 1 + Cardinality(Callers)
    BY <2>1 DEF EntryKnown
  <2>6. e.failures \in Nat /\ MaximumFailures \in Nat
    BY <2>1, AccessAssumption DEF Entry
  <2>7. e.failures + Cardinality(after) <= MaximumFailures - 1 + Cardinality(Callers)
    <3> HIDE DEF e, before, after
    <3> QED
      BY <2>3, <2>4, <2>5, <2>6
  <2>8. e.start <= now'
    <3>1. e.start \in Nat /\ e.start <= now
      BY <2>1 DEF EntryKnown, Entry
    <3> HIDE DEF e
    <3> QED
      BY <3>1
  <2> QED
    BY <1>0, <2>1, <2>7, <2>8 DEF EntryKnown, Checking, Since, FailuresOf
<1>4. ASSUME NEW n \in 1..Len(failed) PROVE RemembersFailure(n)'
  <2>1. RemembersFailure(n)
    BY DEF LimiterInv
  <2>2. Others(n)' = Others(n)
    BY <1>0 DEF Others
  <2> QED
    BY <1>0, <2>1, <2>2 DEF RemembersFailure
<1>5. LimitedForOwnFailures'
  <2> SUFFICES ASSUME NEW r \in Callers, request'[r].step = "limited"
               PROVE  Cardinality({i \in FailuresOf(request[r].configuration, request[r].client)' :
                                       failed'[i].at > request'[r].time - Window}) >= MaximumFailures
    BY DEF LimitedForOwnFailures, FailuresOf
  <2>1. request'[r] = request[r]
    OBVIOUS
  <2>2. Cardinality({i \in FailuresOf(request[r].configuration, request[r].client) :
                         failed[i].at > request[r].time - Window}) >= MaximumFailures
    BY <2>1 DEF LimiterInv, LimitedForOwnFailures
  <2> QED
    BY <1>0, <2>1, <2>2 DEF FailuresOf
<1>6. \A n \in 1..Len(failed) : failed[n].at <= now'
  BY <1>2 DEF LimiterInv
<1> QED
  BY <1>0, <1>1, <1>3, <1>4, <1>5, <1>6 DEF LimiterInv

\* A request passes the limiter while no window of its client is full, or is refused for the failures of one.
LEMMA CheckLimitKeeps ==
    ASSUME AccessInv, LimiterInv, NEW r \in Callers, CheckLimit(r)
    PROVE  LimiterInv'
<1> DEFINE g == request[r].configuration
           client == request[r].client
           time == request[r].time
           entries == limiter[g]
<1>1. /\ UNCHANGED <<limiter, failed, configured, now>> /\ request[r].step = "limit" /\ request[r] # Unused
      /\ Goes(r, IF Blocked(entries, client, time) THEN "limited" ELSE "check")
  BY RequestIsOne DEF CheckLimit, historyVars, AccessInv
<1>2. request[r] \in Request /\ g \in 1..Current /\ time \in Nat
  BY <1>1 DEF AccessInv, SessionsTypeOK, RequestsKnown, RequestKnown, Request
<1>3. /\ request'[r] = [request[r] EXCEPT !.step = IF Blocked(entries, client, time) THEN "limited" ELSE "check"]
      /\ \A q \in Callers \ {r} : request'[q] = request[q]
  BY <1>1, GoesOn DEF AccessInv, Steps
<1>4. /\ request'[r].step = IF Blocked(entries, client, time) THEN "limited" ELSE "check"
      /\ request'[r].configuration = g /\ request'[r].client = client /\ request'[r].time = time
  BY <1>2, <1>3 DEF Request
<1>0. limiter' = limiter /\ failed' = failed /\ configured' = configured /\ now' = now
  BY <1>1
<1> HIDE DEF g, client, time, entries
<1>5. ASSUME NEW h \in 1..Current, NEW i \in 1..Len(limiter[h])
      PROVE  EntryKnown(h, limiter[h][i])'
  <2> DEFINE e == limiter[h][i]
             end == e.start + Window
             before == Checking(h, e.client, end)
             after == {q \in Callers : /\ request'[q].step = "check" /\ request'[q].configuration = h
                                       /\ request'[q].client = e.client /\ request'[q].time < end}
  <2>1. EntryKnown(h, e) /\ e \in Entry
    BY DEF LimiterInv, ListedClients
  <2>2. e.failures \in Nat /\ MaximumFailures \in Nat \ {0}
    BY <2>1, AccessAssumption DEF Entry
  <2>3. /\ IsFiniteSet(before) /\ Cardinality(before) \in Nat /\ Cardinality(Callers) \in Nat /\ IsFiniteSet(Callers)
        /\ e.failures + Cardinality(before) <= MaximumFailures - 1 + Cardinality(Callers)
    BY <2>1, CountedSets DEF EntryKnown
  <2>4. e.failures + Cardinality(after) <= MaximumFailures - 1 + Cardinality(Callers)
    <3>1. CASE e.failures < MaximumFailures
      <4>1. after \subseteq Callers
        OBVIOUS
      <4>2. Cardinality(after) <= Cardinality(Callers) /\ Cardinality(after) \in Nat
        BY <2>3, <4>1, FS_Subset, FS_CardinalityType
      <4> HIDE DEF e, after, before, end
      <4> QED
        BY <2>2, <2>3, <3>1, <4>2
    <3>2. CASE e.failures >= MaximumFailures
      <4>1. r \notin after
        <5> SUFFICES ASSUME r \in after PROVE FALSE
          OBVIOUS
        <5>1. g = h /\ client = e.client /\ time < end /\ ~Blocked(entries, client, time)
          BY <1>4
        <5> QED
          BY <3>2, <5>1 DEF Blocked, entries
      <4>2. after \subseteq before
        BY <1>3, <4>1 DEF Checking
      <4>3. Cardinality(after) <= Cardinality(before) /\ Cardinality(after) \in Nat
        BY <2>3, <4>2, FS_Subset, FS_CardinalityType
      <4> HIDE DEF e, after, before, end
      <4> QED
        BY <2>2, <2>3, <4>3
    <3> HIDE DEF e
    <3> QED
      BY <2>2, <3>1, <3>2
  <2> QED
    BY <1>0, <2>1, <2>4 DEF EntryKnown, Checking, Since, FailuresOf
<1>6. ASSUME NEW n \in 1..Len(failed) PROVE RemembersFailure(n)'
  <2>1. RemembersFailure(n)
    BY DEF LimiterInv
  <2>2. Others(n)' = Others(n)
    BY <1>0 DEF Others
  <2> QED
    BY <1>0, <2>1, <2>2 DEF RemembersFailure
<1>7. LimitedForOwnFailures'
  <2> SUFFICES ASSUME NEW q \in Callers, request'[q].step = "limited"
               PROVE  Cardinality({i \in FailuresOf(request'[q].configuration, request'[q].client) :
                                       failed[i].at > request'[q].time - Window}) >= MaximumFailures
    BY <1>0 DEF LimitedForOwnFailures, FailuresOf
  <2>1. CASE q # r
    <3>1. request'[q] = request[q]
      BY <1>3, <2>1
    <3> QED
      BY <3>1 DEF LimiterInv, LimitedForOwnFailures
  <2>2. CASE q = r
    <3>1. Blocked(entries, client, time)
      BY <1>4, <2>2
    <3>2. PICK i \in 1..Len(entries) :
              entries[i].client = client /\ entries[i].failures >= MaximumFailures /\ time < entries[i].start + Window
      BY <3>1 DEF Blocked
    <3> DEFINE e == entries[i]
               window == {j \in FailuresOf(g, client) : failed[j].at > time - Window}
    <3>3. e \in Entry /\ e.failures <= Cardinality(Since(g, client, e.start))
      <4>1. ListedClients(limiter[g]) /\ \A j \in 1..Len(limiter[g]) : EntryKnown(g, limiter[g][j])
        BY <1>2 DEF LimiterInv
      <4>2. EntryKnown(g, e) /\ e.client = client
        BY <3>2, <4>1 DEF entries
      <4>3. limiter[g] \in Seq(Entry)
        BY <4>1 DEF ListedClients
      <4> QED
        BY <4>2, <4>3 DEF EntryKnown, entries
    <3>4. \A j \in 1..Len(failed) : failed[j].at \in Nat
      <4>1. failed \in Seq(Failed)
        BY DEF LimiterInv
      <4>2. \A j \in 1..Len(failed) : failed[j] \in Failed
        BY <4>1
      <4> QED
        BY <4>2 DEF Failed
    <3>5. Since(g, client, e.start) \subseteq window
      <4>1. e.start \in Nat /\ Window \in Nat /\ time < e.start + Window
        BY <3>2, <3>3, AccessAssumption DEF Entry
      <4> SUFFICES ASSUME NEW j \in FailuresOf(g, client), failed[j].at >= e.start PROVE failed[j].at > time - Window
        BY DEF Since
      <4>2. failed[j].at \in Nat
        BY <3>4, CountedSets
      <4> HIDE DEF e
      <4> QED
        BY <1>2, <4>1, <4>2
    <3>6. IsFiniteSet(window)
      <4>1. window \subseteq FailuresOf(g, client) /\ IsFiniteSet(FailuresOf(g, client))
        BY CountedSets
      <4> QED
        BY <4>1, FS_Subset
    <3>7. Cardinality(Since(g, client, e.start)) <= Cardinality(window)
      BY <3>5, <3>6, FS_Subset
    <3>8. Cardinality(window) \in Nat /\ Cardinality(Since(g, client, e.start)) \in Nat
      BY <3>6, CountedSets, FS_CardinalityType
    <3>9. e.failures \in Nat /\ e.failures >= MaximumFailures /\ MaximumFailures \in Nat
      BY <3>2, <3>3, AccessAssumption DEF Entry
    <3>10. Cardinality(window) >= MaximumFailures
      <4> HIDE DEF e, window
      <4> QED
        BY <3>3, <3>7, <3>8, <3>9
    <3> QED
      BY <1>4, <2>2, <3>10
  <2> QED
    BY <2>1, <2>2
<1> QED
  BY <1>0, <1>5, <1>6, <1>7 DEF LimiterInv, Current

-----------------------------------------------------------------------------
(* A failure is counted *)

\* What Deny does: the failure comes last, and the client first.
LEMMA DenyIs ==
    ASSUME AccessInv, LimiterInv, NEW r \in Callers, Deny(r)
    PROVE  LET g == request[r].configuration
               failure == [configuration |-> g, client |-> request[r].client, at |-> now] IN
           /\ request[r] \in Request /\ request[r].step = "check" /\ g \in 1..Current /\ Current \in Nat
           /\ request[r].client \in Clients /\ request[r].time \in Nat /\ request[r].time <= now /\ now \in Nat
           /\ limiter' = [limiter EXCEPT ![g] = AfterFailure(limiter[g], request[r].client, request[r].time)]
           /\ Len(limiter) = Current /\ DOMAIN limiter = 1..Current
           /\ failure \in Failed /\ failed' = Append(failed, failure)
           /\ configured' = configured /\ now' = now
           /\ request'[r].step = "refused" /\ \A q \in Callers \ {r} : request'[q] = request[q]
<1> DEFINE g == request[r].configuration
           failure == [configuration |-> g, client |-> request[r].client, at |-> now]
<1>1. /\ request[r].step = "check" /\ request[r] # Unused /\ Goes(r, "refused")
      /\ UNCHANGED <<configured, now>> /\ failed' = Append(failed, failure)
      /\ limiter' = [limiter EXCEPT ![g] = AfterFailure(limiter[g], request[r].client, request[r].time)]
  BY RequestIsOne DEF Deny, AccessInv
<1>2. request[r] \in Request /\ g \in 1..Current /\ request[r].time <= now /\ now \in Nat /\ Current \in Nat
  BY <1>1 DEF AccessInv, SessionsTypeOK, RequestsKnown, RequestKnown, Current
<1>3. request[r].client \in Clients /\ request[r].time \in Nat /\ failure \in Failed
  BY <1>2 DEF Request, Failed
<1>4. request'[r] = [request[r] EXCEPT !.step = "refused"] /\ \A q \in Callers \ {r} : request'[q] = request[q]
  BY <1>1, GoesOn DEF AccessInv, Steps
<1>5. request'[r].step = "refused"
  BY <1>2, <1>4 DEF Request
<1>6. Len(limiter) = Current /\ DOMAIN limiter = 1..Current
  BY DEF LimiterInv, AccessTypeOK
<1> QED
  BY <1>1, <1>2, <1>3, <1>4, <1>5, <1>6

\* One failure more: it is one of those of its client since any time there was, and of nobody else.
LEMMA OneFailureMore ==
    ASSUME failed \in Seq(Failed), NEW failure \in Failed, failed' = Append(failed, failure), NEW g, NEW client, NEW time
    PROVE  /\ Len(failed) \in Nat /\ Len(failed') = Len(failed) + 1 /\ failed' \in Seq(Failed)
           /\ failed'[Len(failed) + 1] = failure /\ \A n \in 1..Len(failed) : failed'[n] = failed[n]
           /\ FailuresOf(g, client) \subseteq FailuresOf(g, client)' /\ Since(g, client, time) \subseteq Since(g, client, time)'
           /\ FailuresOf(g, client)' \subseteq 1..(Len(failed) + 1)
           /\ failure.configuration = g /\ failure.client = client /\ failure.at >= time =>
                 Len(failed) + 1 \in Since(g, client, time)' /\ Len(failed) + 1 \notin Since(g, client, time)
<1>1. /\ Len(failed) \in Nat /\ Len(failed') = Len(failed) + 1 /\ failed' \in Seq(Failed)
      /\ failed'[Len(failed) + 1] = failure /\ \A n \in 1..Len(failed) : failed'[n] = failed[n]
  OBVIOUS
<1>2. 1..Len(failed) \subseteq 1..Len(failed') /\ Len(failed) + 1 \in 1..Len(failed') /\ Len(failed) + 1 \notin 1..Len(failed)
  BY <1>1
<1>3. FailuresOf(g, client) \subseteq FailuresOf(g, client)' /\ FailuresOf(g, client)' \subseteq 1..(Len(failed) + 1)
  BY <1>1, <1>2 DEF FailuresOf
<1>4. Since(g, client, time) \subseteq Since(g, client, time)'
  BY <1>1, <1>2, <1>3 DEF Since, FailuresOf
<1>5. failure.configuration = g /\ failure.client = client /\ failure.at >= time =>
          Len(failed) + 1 \in Since(g, client, time)' /\ Len(failed) + 1 \notin Since(g, client, time)
  BY <1>1, <1>2 DEF Since, FailuresOf
<1> QED
  BY <1>1, <1>3, <1>4, <1>5

\* The entries count the failure, which the request that leaves was expected to be.
LEMMA DenyKnown ==
    ASSUME AccessInv, LimiterInv, NEW r \in Callers, Deny(r), NEW h \in 1..Current, NEW i \in 1..Len(limiter'[h]),
           NEW e, e = limiter'[h][i]
    PROVE  EntryKnown(h, e)'
<1>0. PICK g \in 1..Current, client \in Clients, time \in Nat, failure \in Failed :
          /\ g = request[r].configuration /\ client = request[r].client /\ time = request[r].time
          /\ failure = [configuration |-> g, client |-> client, at |-> now]
          /\ limiter' = [limiter EXCEPT ![g] = AfterFailure(limiter[g], client, time)] /\ DOMAIN limiter = 1..Current
          /\ failed' = Append(failed, failure)
          /\ request[r].step = "check" /\ time <= now /\ now \in Nat /\ now' = now
          /\ request'[r].step = "refused" /\ \A q \in Callers \ {r} : request'[q] = request[q]
  <2> DEFINE g == request[r].configuration
             client == request[r].client
             time == request[r].time
             failure == [configuration |-> g, client |-> client, at |-> now]
  <2>1. /\ g \in 1..Current /\ client \in Clients /\ time \in Nat /\ failure \in Failed
        /\ limiter' = [limiter EXCEPT ![g] = AfterFailure(limiter[g], client, time)] /\ DOMAIN limiter = 1..Current
        /\ failed' = Append(failed, failure)
        /\ request[r].step = "check" /\ time <= now /\ now \in Nat /\ now' = now
        /\ request'[r].step = "refused" /\ \A q \in Callers \ {r} : request'[q] = request[q]
    BY DenyIs
  <2>2. /\ g = request[r].configuration /\ client = request[r].client /\ time = request[r].time
        /\ failure = [configuration |-> g, client |-> client, at |-> now]
    OBVIOUS
  <2> HIDE DEF g, client, time, failure
  <2> QED
    BY <2>1, <2>2
<1>1. PICK entries, later :
          /\ g = request[r].configuration /\ client = request[r].client /\ time = request[r].time
          /\ failure = [configuration |-> g, client |-> client, at |-> now]
          /\ entries = limiter[g] /\ later = AfterFailure(entries, client, time)
          /\ limiter' = [limiter EXCEPT ![g] = later] /\ DOMAIN limiter = 1..Current
          /\ failed' = Append(failed, failure)
          /\ request[r].step = "check" /\ time <= now /\ now \in Nat /\ now' = now
          /\ request'[r].step = "refused" /\ \A q \in Callers \ {r} : request'[q] = request[q]
  BY <1>0
<1>2. failed \in Seq(Failed) /\ ListedClients(entries) /\ MaximumFailures \in Nat \ {0} /\ Window \in Nat
  BY <1>1, AccessAssumption DEF LimiterInv
<1>3. failure.configuration = g /\ failure.client = client /\ failure.at = now
  BY <1>1
<1> DEFINE after(d) == {q \in Callers : /\ request'[q].step = "check" /\ request'[q].configuration = h
                                        /\ request'[q].client = d.client /\ request'[q].time < d.start + Window}
<1>4. ASSUME NEW d PROVE /\ after(d) \subseteq Checking(h, d.client, d.start + Window) \ {r}
                         /\ IsFiniteSet(after(d)) /\ Cardinality(after(d)) \in Nat
  <2>1. after(d) \subseteq Checking(h, d.client, d.start + Window) \ {r}
    BY <1>1 DEF Checking
  <2>2. IsFiniteSet(Checking(h, d.client, d.start + Window)) /\ after(d) \subseteq Checking(h, d.client, d.start + Window)
    BY <2>1, CountedSets
  <2> QED
    BY <2>1, <2>2, FS_Subset, FS_CardinalityType
<1>5. ASSUME NEW d PROVE /\ IsFiniteSet(Since(h, d.client, d.start)') /\ Cardinality(Since(h, d.client, d.start)') \in Nat
                         /\ Since(h, d.client, d.start) \subseteq Since(h, d.client, d.start)'
  <2> DEFINE client2 == d.client
             start2 == d.start
  <2>1. /\ FailuresOf(h, client2)' \subseteq 1..(Len(failed) + 1) /\ Len(failed) \in Nat
        /\ Since(h, client2, start2) \subseteq Since(h, client2, start2)'
    <3> HIDE DEF client2, start2
    <3> QED
      BY <1>1, <1>2, OneFailureMore
  <2>2. Since(h, d.client, d.start)' \subseteq 1..(Len(failed) + 1)
    BY <2>1 DEF Since
  <2>3. IsFiniteSet(1..(Len(failed) + 1))
    <3> HIDE DEF client2, start2, after
    <3>1. 1 \in Int /\ Len(failed) + 1 \in Int
      BY <2>1
    <3> QED
      BY <3>1, FS_Interval
  <2> QED
    BY <2>1, <2>2, <2>3, FS_Subset, FS_CardinalityType
<1>6. /\ EntryKnown(h, e)' <=> /\ e.start <= now' /\ e.failures <= Cardinality(Since(h, e.client, e.start)')
                               /\ e.failures + Cardinality(after(e)) <= MaximumFailures - 1 + Cardinality(Callers)
  BY DEF EntryKnown, Checking
<1> HIDE DEF after
\* The entry is one there was.
<1>7. ASSUME e \in Entry, EntryKnown(h, e) PROVE EntryKnown(h, e)'
  <2> DEFINE checking == Checking(h, e.client, e.start + Window)
             since == Since(h, e.client, e.start)
             since2 == Since(h, e.client, e.start)'
  <2>1. /\ e.failures <= Cardinality(since) /\ e.failures \in Nat /\ Cardinality(since) \in Nat /\ e.start <= now
        /\ e.failures + Cardinality(checking) <= MaximumFailures - 1 + Cardinality(Callers)
        /\ IsFiniteSet(checking) /\ Cardinality(checking) \in Nat /\ Cardinality(Callers) \in Nat
    BY <1>7, CountedSets DEF EntryKnown, Entry
  <2>2. Cardinality(since) <= Cardinality(since2) /\ Cardinality(since2) \in Nat
    BY <1>5, FS_Subset
  <2>3. Cardinality(after(e)) <= Cardinality(checking) /\ Cardinality(after(e)) \in Nat
    BY <1>4, <2>1, FS_Subset
  <2> HIDE DEF checking, since, since2
  <2>4. e.failures <= Cardinality(since2) /\ e.failures + Cardinality(after(e)) <= MaximumFailures - 1 + Cardinality(Callers)
    <3>1. PICK f \in Nat, s \in Nat, s2 \in Nat, a \in Nat, c \in Nat, all \in Nat, max \in Nat :
             /\ f = e.failures /\ s = Cardinality(since) /\ s2 = Cardinality(since2) /\ a = Cardinality(after(e))
             /\ c = Cardinality(checking) /\ all = Cardinality(Callers) /\ max = MaximumFailures
      BY <1>2, <2>1, <2>2, <2>3
    <3>2. f <= s /\ s <= s2 /\ a <= c /\ f + c <= max - 1 + all
      BY <2>1, <2>2, <2>3, <3>1
    <3>3. f <= s2 /\ f + a <= max - 1 + all
      BY <3>2
    <3> QED
      BY <3>1, <3>3
  <2>5. e.start <= now'
    BY <1>1, <2>1
  <2> QED
    BY <1>6, <2>4, <2>5 DEF since2
<1>8. CASE h # g
  <2>1. limiter'[h] = limiter[h]
    BY <1>1, <1>8
  <2>2. e \in Entry /\ EntryKnown(h, e)
    BY <2>1 DEF LimiterInv, ListedClients
  <2> QED
    BY <1>7, <2>2
<1>9. CASE h = g /\ i # 1
  <2>1. limiter'[h] = later /\ i \in 2..Len(later)
    <3>1. limiter'[h] = later
      BY <1>1, <1>9
    <3>2. Len(later) \in Nat
      BY <1>1, <1>2, AfterFailureListed DEF ListedClients
    <3> QED
      BY <1>9, <3>1, <3>2
  <2>4. \A k \in 2..Len(later) : \E j \in 1..Len(entries) : later[k] = entries[j]
    <3>1. OthersKept(entries, client, later)
      BY <1>1, <1>2, AfterFailureListed
    <3> QED
      BY <3>1 DEF OthersKept
  <2>2. PICK j \in 1..Len(entries) : e = entries[j]
    BY <2>1, <2>4
  <2>3. e \in Entry /\ EntryKnown(h, e)
    <3>1. ListedClients(entries) /\ \A m \in 1..Len(limiter[h]) : EntryKnown(h, limiter[h][m])
      BY <1>2 DEF LimiterInv
    <3>3. entries \in Seq(Entry)
      BY <3>1 DEF ListedClients
    <3> QED
      BY <1>1, <1>9, <2>2, <3>1, <3>3
  <2> QED
    BY <1>7, <2>3
\* It is that of the client.
<1>10. CASE h = g /\ i = 1
  <2>1. e = Counted(entries, client, time) /\ e \in Entry /\ e.client = client /\ e.start \in Nat /\ e.failures \in Nat
    <3>1. limiter'[h] = later
      BY <1>1, <1>10
    <3>2. later[1] = Counted(entries, client, time)
      <4>1. MovedToFront(entries, client, PositionOf(client, entries), Counted(entries, client, time), later)
        BY <1>1, <1>2, AfterFailureIs
      <4> QED
        BY <4>1 DEF MovedToFront
    <3> QED
      BY <1>1, <1>2, <1>10, <3>1, <3>2, CountedIs, SMTT(60) DEF Entry
  <2>2. IsFiniteSet(Callers) /\ Cardinality(Callers) \in Nat /\ r \in Callers
    BY CountedSets
  <2> DEFINE start == e.start
             since == Since(h, client, start)
             since2 == Since(h, client, start)'
  <2>3. ASSUME start <= now PROVE Len(failed) + 1 \in since2 /\ Len(failed) + 1 \notin since
    <3>1. start <= failure.at /\ start \in Nat /\ now \in Nat
      BY <1>1, <1>3, <2>1, <2>3
    <3> HIDE DEF start
    <3> QED
      BY <1>1, <1>2, <1>3, <1>10, <3>1, OneFailureMore
  <2>4. IsFiniteSet(since2) /\ Cardinality(since2) \in Nat /\ since \subseteq since2 /\ since2 = Since(h, e.client, e.start)'
    BY <1>5, <2>1
  <2>5. CASE e = [client |-> client, start |-> time, failures |-> 1]
    <3>1. e.failures = 1 /\ e.start = time /\ e.start <= now'
      BY <1>1, <2>5
    <3>2. Len(failed) + 1 \in since2
      BY <1>1, <2>3, <3>1
    <3>3. Cardinality(since2) # 0
      BY <2>4, <3>2, FS_EmptySet
    <3>4. after(e) \subseteq Callers \ {r}
      BY <1>4 DEF Checking
    <3>5. Cardinality(after(e)) <= Cardinality(Callers) - 1 /\ Cardinality(after(e)) \in Nat
      BY <1>4, <2>2, <3>4, FS_Subset, FS_RemoveElement
    <3> HIDE DEF since2
    <3>6. e.failures <= Cardinality(since2) /\ e.failures + Cardinality(after(e)) <= MaximumFailures - 1 + Cardinality(Callers)
      BY <1>2, <2>2, <2>4, <3>1, <3>3, <3>5
    <3> QED
      BY <1>6, <2>4, <3>1, <3>6
  <2>6. ASSUME NEW p \in 1..Len(entries), entries[p].client = client, time < entries[p].start + Window,
               e.start = entries[p].start, e.failures = entries[p].failures + 1
        PROVE  EntryKnown(h, e)'
    <3> DEFINE checking == Checking(h, client, start + Window)
               before == entries[p].failures
    <3>1. entries[p] \in Entry /\ EntryKnown(h, entries[p]) /\ before \in Nat
      <4>1. entries[p] \in Entry
        BY <1>2 DEF ListedClients
      <4>2. EntryKnown(h, entries[p])
        BY <1>1, <1>10 DEF LimiterInv
      <4> QED
        BY <4>1, <4>2 DEF Entry
    <3>2. /\ before <= Cardinality(since) /\ Cardinality(since) \in Nat /\ IsFiniteSet(since) /\ start <= now
          /\ before + Cardinality(checking) <= MaximumFailures - 1 + Cardinality(Callers)
          /\ IsFiniteSet(checking) /\ Cardinality(checking) \in Nat
      BY <2>6, <3>1, CountedSets DEF EntryKnown
    <3>3. r \in checking
      BY <1>1, <1>10, <2>6 DEF Checking
    <3>4. Cardinality(after(e)) <= Cardinality(checking) - 1 /\ Cardinality(after(e)) \in Nat
      <4>1. after(e) \subseteq checking \ {r} /\ IsFiniteSet(checking \ {r})
        BY <1>4, <2>1, <3>2, FS_RemoveElement
      <4>2. Cardinality(checking \ {r}) = Cardinality(checking) - 1
        BY <3>2, <3>3, FS_RemoveElement
      <4> QED
        BY <1>4, <4>1, <4>2, FS_Subset
    <3>5. Cardinality(since) + 1 <= Cardinality(since2)
      <4>1. since \cup {Len(failed) + 1} \subseteq since2 /\ Cardinality(since \cup {Len(failed) + 1}) = Cardinality(since) + 1
        BY <2>3, <2>4, <3>2, FS_AddElement
      <4> QED
        BY <2>4, <4>1, FS_Subset
    <3>6. e.failures = before + 1 /\ e.start <= now'
      BY <1>1, <2>6, <3>2
    <3> DEFINE failures == e.failures
    <3>8. failures = before + 1 /\ before \in Nat
      BY <3>1, <3>6
    <3> HIDE DEF since, since2, before, checking, start, failures
    <3>9. /\ failures <= Cardinality(since2)
          /\ failures + Cardinality(after(e)) <= MaximumFailures - 1 + Cardinality(Callers)
      BY <1>2, <2>2, <2>4, <3>2, <3>4, <3>5, <3>8, SMTT(60)
    <3>7. /\ e.failures <= Cardinality(since2)
          /\ e.failures + Cardinality(after(e)) <= MaximumFailures - 1 + Cardinality(Callers)
      BY <3>9 DEF failures
    <3> QED
      BY <1>6, <2>4, <3>6, <3>7
  <2>7. \/ e = [client |-> client, start |-> time, failures |-> 1]
        \/ \E p \in 1..Len(entries) :
              /\ entries[p].client = client /\ time < entries[p].start + Window
              /\ e.start = entries[p].start /\ e.failures = entries[p].failures + 1
    <3>1. \/ Counted(entries, client, time) = [client |-> client, start |-> time, failures |-> 1]
          \/ \E p \in 1..Len(entries) :
                /\ entries[p].client = client /\ time < entries[p].start + Window
                /\ Counted(entries, client, time).start = entries[p].start
                /\ Counted(entries, client, time).failures = entries[p].failures + 1
      BY <1>2, CountedIs
    <3> QED
      BY <2>1, <3>1
  <2> HIDE DEF start, since, since2
  <2> QED
    BY <2>5, <2>6, <2>7
<1> QED
  BY <1>8, <1>9, <1>10

\* A client moves back by one only for a client that fails, and is dropped only behind as many as are tracked.
LEMMA MovesBack ==
    ASSUME NEW entries, ListedClients(entries), NEW client \in Clients, NEW time \in Nat, NEW S, IsFiniteSet(S), client \in S,
           NEW q \in 1..Len(entries), entries[q].client # client, \A i \in 1..(q - 1) : entries[i].client \in S
    PROVE  LET later == AfterFailure(entries, client, time) IN
           \/ \E k \in 1..Len(later) : later[k].client = entries[q].client /\ \A i \in 1..(k - 1) : later[i].client \in S
           \/ Cardinality(S) >= MaximumKeys
<1>1. PICK p, first, later : MovedToFront(entries, client, p, first, later) /\ later = AfterFailure(entries, client, time)
  BY AfterFailureIs
<1>0. /\ p \in 1..(Len(entries) + 1) /\ Len(entries) \in Nat /\ Len(entries) <= MaximumKeys /\ MaximumKeys \in Nat
      /\ Len(later) \in 1..MaximumKeys /\ later[1].client = client
      /\ \A i \in 2..Len(later) :
            IF i <= p THEN i - 1 \in 1..Len(entries) /\ later[i] = entries[i - 1]
                      ELSE i \in 1..Len(entries) /\ later[i] = entries[i]
      /\ p <= Len(entries) => entries[p].client = client /\ Len(later) = Len(entries)
      /\ p > Len(entries) =>
            Len(later) = Len(entries) + 1 \/ (Len(later) = Len(entries) /\ Len(entries) = MaximumKeys)
  <2>1. Len(entries) \in Nat /\ Len(entries) <= MaximumKeys /\ MaximumKeys \in Nat
    BY AccessAssumption DEF ListedClients
  <2>2. MovedToFront(entries, client, p, first, later)
    BY <1>1
  <2> QED
    BY <1>1, <2>1, <2>2 DEF MovedToFront
<1>2. \A i, j \in 1..Len(later) : later[i].client = later[j].client => i = j
  <2>1. ListedClients(later)
    BY <1>1, MovedToFrontListed
  <2> QED
    BY <2>1 DEF ListedClients
<1>3. PICK k : (q < p => k = q + 1) /\ (~(q < p) => k = q)
  OBVIOUS
<1>5. q # p
  BY <1>0
<1>6. \A i \in 1..Len(later) : i < k => later[i].client \in S
  <2> SUFFICES ASSUME NEW i \in 1..Len(later), i < k, i # 1 PROVE later[i].client \in S
    BY <1>0
  <2>1. i \in 2..Len(later)
    BY <1>0
  <2>2. CASE i <= p
    <3>1. i - 1 \in 1..(q - 1)
      BY <1>0, <1>3, <2>1, <2>2
    <3> QED
      BY <1>0, <2>1, <2>2, <3>1
  <2>3. CASE ~(i <= p)
    <3>1. i \in 1..(q - 1)
      BY <1>0, <1>3, <1>5, <2>1, <2>3
    <3> QED
      BY <1>0, <2>1, <2>3, <3>1
  <2> QED
    BY <2>2, <2>3
<1>7. ASSUME k <= Len(later)
      PROVE  \E n \in 1..Len(later) : later[n].client = entries[q].client /\ \A i \in 1..(n - 1) : later[i].client \in S
  <2>1. k \in 2..Len(later)
    BY <1>0, <1>3, <1>5, <1>7
  <2>4. k \in 1..Len(later) /\ \A i \in 1..(k - 1) : later[i].client \in S
    <3> SUFFICES ASSUME NEW i \in 1..(k - 1) PROVE later[i].client \in S
      BY <1>0, <2>1
    <3>1. i \in 1..Len(later) /\ i < k
      BY <1>0, <2>1
    <3> QED
      BY <1>6, <3>1
  <2>2. CASE q < p
    <3>1. k <= p /\ k - 1 = q
      BY <1>0, <1>3, <2>2
    <3>2. later[k] = entries[q]
      BY <1>0, <2>1, <3>1
    <3> QED
      BY <2>1, <2>4, <3>2
  <2>3. CASE ~(q < p)
    <3>1. ~(k <= p) /\ k = q
      BY <1>0, <1>3, <1>5, <2>3
    <3>2. later[k] = entries[q]
      BY <1>0, <2>1, <3>1
    <3> QED
      BY <2>1, <2>4, <3>2
  <2> QED
    BY <2>2, <2>3
<1>8. ASSUME ~(k <= Len(later))
      PROVE  Cardinality(S) >= MaximumKeys
  <2>1. q = Len(entries) /\ Len(later) = MaximumKeys /\ k = MaximumKeys + 1
    BY <1>0, <1>3, <1>5, <1>8
  <2> DEFINE clientAt == [i \in 1..MaximumKeys |-> later[i].client]
  <2>2. clientAt \in Injection(1..MaximumKeys, S)
    <3>1. clientAt \in [1..MaximumKeys -> S]
      BY <1>0, <1>6, <2>1
    <3>2. \A i, j \in 1..MaximumKeys : clientAt[i] = clientAt[j] => i = j
      BY <1>2, <2>1
    <3> HIDE DEF clientAt
    <3> QED
      BY <3>1, <3>2, Fun_IsInj
  <2>3. Cardinality(1..MaximumKeys) <= Cardinality(S) /\ Cardinality(1..MaximumKeys) = MaximumKeys
    BY <1>0, <2>2, FS_Injection, FS_Interval
  <2>4. Cardinality(S) \in Nat
    BY FS_CardinalityType
  <2> QED
    BY <1>0, <2>3, <2>4
<1> QED
  BY <1>1, <1>7, <1>8

\* A failure pushes the clients that failed before it back, and is itself remembered.
LEMMA DenyRemembers ==
    ASSUME AccessInv, LimiterInv, NEW r \in Callers, Deny(r), NEW n \in 1..Len(failed')
    PROVE  RemembersFailure(n)'
<1>0. PICK g \in 1..Current, client \in Clients, time \in Nat, failure \in Failed :
          /\ failure.configuration = g /\ failure.client = client
          /\ limiter' = [limiter EXCEPT ![g] = AfterFailure(limiter[g], client, time)] /\ DOMAIN limiter = 1..Current
          /\ failed' = Append(failed, failure)
  <2> DEFINE g == request[r].configuration
             client == request[r].client
             time == request[r].time
             failure == [configuration |-> g, client |-> client, at |-> now]
  <2>1. /\ g \in 1..Current /\ client \in Clients /\ time \in Nat /\ failure \in Failed
        /\ limiter' = [limiter EXCEPT ![g] = AfterFailure(limiter[g], client, time)] /\ DOMAIN limiter = 1..Current
        /\ failed' = Append(failed, failure)
    BY DenyIs
  <2>2. /\ failure.configuration = g /\ failure.client = client
    OBVIOUS
  <2> HIDE DEF g, client, time, failure
  <2> QED
    BY <2>1, <2>2
<1>1. PICK entries, later :
          /\ failure.configuration = g /\ failure.client = client
          /\ entries = limiter[g] /\ later = AfterFailure(entries, client, time)
          /\ limiter' = [limiter EXCEPT ![g] = later] /\ DOMAIN limiter = 1..Current
          /\ failed' = Append(failed, failure)
  BY <1>0
<1>2. failed \in Seq(Failed) /\ ListedClients(entries)
  BY <1>1 DEF LimiterInv
<1>3. /\ Len(failed) \in Nat /\ Len(failed') = Len(failed) + 1 /\ failed' \in Seq(Failed)
      /\ failed'[Len(failed) + 1] = failure /\ \A m \in 1..Len(failed) : failed'[m] = failed[m]
  BY <1>1, <1>2
<1>4. ListedClients(later) /\ later[1].client = client /\ Len(later) \in 1..MaximumKeys
  <2>1. Counted(entries, client, time).client = client
    BY <1>2, CountedIs
  <2>2. MovedToFront(entries, client, PositionOf(client, entries), Counted(entries, client, time), later)
    BY <1>1, <1>2, AfterFailureIs
  <2>3. ListedClients(later)
    BY <2>1, <2>2, <1>2, MovedToFrontListed
  <2> QED
    BY <2>1, <2>2, <2>3 DEF MovedToFront
<1>5. limiter'[g] = later /\ \A h \in 1..Current : h # g => limiter'[h] = limiter[h]
  BY <1>1
<1>6. CASE n = Len(failed) + 1
  <2>1. limiter'[failed'[n].configuration] = later /\ failed'[n].client = client
    BY <1>1, <1>3, <1>5, <1>6
  <2>2. 1 \in 1..Len(later) /\ later[1].client = client /\ \A i \in 1..(1 - 1) : later[i].client \in Others(n)'
    BY <1>4
  <2> QED
    BY <2>1, <2>2 DEF RemembersFailure
<1>7. CASE n # Len(failed) + 1
  <2>1. n \in 1..Len(failed) /\ failed'[n] = failed[n]
    BY <1>3, <1>7
  <2>2. PICK d, h, S : /\ d = failed[n].client /\ h = failed[n].configuration /\ h \in 1..Current /\ S = Others(n)'
                       /\ failed'[n].client = d /\ failed'[n].configuration = h
    BY <2>1 DEF LimiterInv
  <2>3. Others(n) \subseteq S /\ (h = g /\ d # client => client \in S)
    <3>1. S = {failed'[j].client : j \in {m \in n..(Len(failed) + 1) : failed'[m].configuration = h}} \ {d}
      BY <1>3, <2>2 DEF Others
    <3>2. Others(n) \subseteq S
      BY <1>3, <2>1, <2>2, <3>1 DEF Others
    <3>3. Len(failed) + 1 \in n..(Len(failed) + 1)
      BY <1>3, <2>1
    <3> QED
      BY <1>1, <1>3, <3>1, <3>2, <3>3
  <2>4. IsFiniteSet(S) /\ Cardinality(S) \in Nat
    <3>1. S \subseteq {failed'[j].client : j \in 1..Len(failed')}
      BY <1>3, <2>1, <2>2 DEF Others
    <3>2. IsFiniteSet({failed'[j].client : j \in 1..Len(failed')})
      BY <1>3, ClientsFinite
    <3> QED
      BY <3>1, <3>2, FS_Subset, FS_CardinalityType
  <2>5. ASSUME \/ \E k \in 1..Len(limiter'[h]) :
                     limiter'[h][k].client = d /\ \A i \in 1..(k - 1) : limiter'[h][i].client \in S
               \/ Cardinality(S) >= MaximumKeys
        PROVE  RemembersFailure(n)'
    BY <2>2, <2>5 DEF RemembersFailure
  <2>6. CASE Cardinality(Others(n)) >= MaximumKeys
    <3>1. Cardinality(Others(n)) <= Cardinality(S) /\ Cardinality(Others(n)) \in Nat /\ MaximumKeys \in Nat
      BY <1>2, <2>1, <2>3, <2>4, OthersFinite, FS_Subset, AccessAssumption
    <3> QED
      BY <2>4, <2>5, <2>6, <3>1
  <2>7. CASE ~(Cardinality(Others(n)) >= MaximumKeys)
    <3>1. PICK q \in 1..Len(limiter[h]) :
              limiter[h][q].client = d /\ \A i \in 1..(q - 1) : limiter[h][i].client \in Others(n)
      BY <2>1, <2>2, <2>7 DEF LimiterInv, RemembersFailure
    <3>2. CASE h # g
      BY <1>5, <2>2, <2>3, <2>5, <3>1, <3>2
    <3>3. CASE h = g /\ d = client
      <4>1. limiter'[h] = later /\ 1 \in 1..Len(later) /\ \A i \in 1..(1 - 1) : later[i].client \in S
        BY <1>4, <1>5, <3>3
      <4> QED
        BY <1>4, <2>5, <3>3, <4>1
    <3>4. CASE h = g /\ d # client
      <4>1. limiter'[h] = later /\ limiter[h] = entries /\ client \in S
        BY <1>1, <1>5, <2>3, <3>4
      <4>2. entries[q].client # client /\ q \in 1..Len(entries) /\ \A i \in 1..(q - 1) : entries[i].client \in S
        BY <2>3, <3>1, <3>4, <4>1
      <4>3. \/ \E k \in 1..Len(AfterFailure(entries, client, time)) :
                  /\ AfterFailure(entries, client, time)[k].client = entries[q].client
                  /\ \A i \in 1..(k - 1) : AfterFailure(entries, client, time)[i].client \in S
            \/ Cardinality(S) >= MaximumKeys
        BY <1>2, <2>4, <4>1, <4>2, MovesBack
      <4> QED
        BY <1>1, <2>5, <3>1, <4>1, <4>3
    <3> QED
      BY <3>2, <3>3, <3>4
  <2> QED
    BY <2>6, <2>7
<1> QED
  BY <1>6, <1>7


\* A failure is counted.
LEMMA DenyKeeps ==
    ASSUME AccessInv, LimiterInv, NEW r \in Callers, Deny(r)
    PROVE  LimiterInv'
<1>1. PICK g \in 1..Current, client \in Clients, time \in Nat, failure \in Failed :
          /\ failure.configuration = g /\ failure.at = now
          /\ limiter' = [limiter EXCEPT ![g] = AfterFailure(limiter[g], client, time)]
          /\ DOMAIN limiter = 1..Current /\ Len(limiter) = Current
          /\ failed' = Append(failed, failure) /\ configured' = configured /\ now' = now /\ now \in Nat
          /\ request'[r].step = "refused" /\ \A q \in Callers \ {r} : request'[q] = request[q]
  <2> DEFINE g == request[r].configuration
             failure == [configuration |-> g, client |-> request[r].client, at |-> now]
  <2>1. /\ failure \in Failed /\ g \in 1..Current /\ request[r].client \in Clients /\ request[r].time \in Nat
        /\ limiter' = [limiter EXCEPT ![g] = AfterFailure(limiter[g], request[r].client, request[r].time)]
        /\ DOMAIN limiter = 1..Current /\ Len(limiter) = Current
        /\ failed' = Append(failed, failure) /\ configured' = configured /\ now' = now /\ now \in Nat
        /\ request'[r].step = "refused" /\ \A q \in Callers \ {r} : request'[q] = request[q]
    BY DenyIs
  <2>2. failure.configuration = g /\ failure.at = now
    OBVIOUS
  <2> HIDE DEF g, failure
  <2> QED
    BY <2>1, <2>2
<1>2. Current' = Current
  BY <1>1 DEF Current
<1>3. failed \in Seq(Failed) /\ limiter \in Seq(Seq(Entry)) /\ \A h \in 1..Current : ListedClients(limiter[h])
  BY DEF LimiterInv
<1>4. /\ Len(failed) \in Nat /\ Len(failed') = Len(failed) + 1 /\ failed' \in Seq(Failed)
      /\ failed'[Len(failed) + 1] = failure /\ \A n \in 1..Len(failed) : failed'[n] = failed[n]
  BY <1>1, <1>3
<1>5. ListedClients(AfterFailure(limiter[g], client, time))
  BY <1>3, AfterFailureListed
<1>6. \A h \in 1..Current : ListedClients(limiter'[h])
  BY <1>1, <1>3, <1>5
<1>7. limiter' \in Seq(Seq(Entry)) /\ Len(limiter') = Current
  <2>1. AfterFailure(limiter[g], client, time) \in Seq(Entry)
    BY <1>5 DEF ListedClients
  <2> QED
    BY <1>1, <1>3, <2>1
<1>8. \A n \in 1..Len(failed') : failed'[n].configuration \in 1..Current /\ failed'[n].at <= now
  <2> SUFFICES ASSUME NEW n \in 1..Len(failed') PROVE failed'[n].configuration \in 1..Current /\ failed'[n].at <= now
    OBVIOUS
  <2>1. CASE n = Len(failed) + 1
    BY <1>1, <1>4, <2>1
  <2>2. CASE n # Len(failed) + 1
    <3>1. n \in 1..Len(failed) /\ failed'[n] = failed[n]
      BY <1>4, <2>2
    <3> QED
      BY <3>1 DEF LimiterInv
  <2> QED
    BY <2>1, <2>2
<1>9. \A h \in 1..Current : \A i \in 1..Len(limiter'[h]) : EntryKnown(h, limiter[h][i])'
  <2> SUFFICES ASSUME NEW h \in 1..Current, NEW i \in 1..Len(limiter'[h]) PROVE EntryKnown(h, limiter[h][i])'
    OBVIOUS
  <2>1. PICK e : e = limiter'[h][i]
    OBVIOUS
  <2>2. EntryKnown(h, e)'
    BY <2>1, DenyKnown
  <2> QED
    BY <2>1, <2>2 DEF EntryKnown, Since, Checking, FailuresOf
<1>10. \A n \in 1..Len(failed') : RemembersFailure(n)'
  BY DenyRemembers
<1>11. LimitedForOwnFailures'
  <2> SUFFICES ASSUME NEW q \in Callers, request'[q].step = "limited"
               PROVE  Cardinality({i \in {j \in 1..Len(failed') : /\ failed'[j].configuration = request'[q].configuration
                                                                 /\ failed'[j].client = request'[q].client} :
                                       failed'[i].at > request'[q].time - Window}) >= MaximumFailures
    BY DEF LimitedForOwnFailures, FailuresOf
  <2>1. request'[q] = request[q] /\ request[q].step = "limited" /\ LimitedForOwnFailures
    BY <1>1 DEF LimiterInv
  <2> DEFINE h == request[q].configuration
             c == request[q].client
             start == request[q].time - Window
             before == {i \in FailuresOf(h, c) : failed[i].at > start}
             after == {i \in {j \in 1..Len(failed') : failed'[j].configuration = h /\ failed'[j].client = c} :
                           failed'[i].at > start}
  <2>2. Cardinality(before) >= MaximumFailures
    BY <2>1 DEF LimitedForOwnFailures
  <2>3. before \subseteq after
    <3>1. 1..Len(failed) \subseteq 1..Len(failed')
      BY <1>4
    <3> QED
      BY <1>4, <3>1 DEF FailuresOf
  <2>4. after \subseteq 1..Len(failed') /\ IsFiniteSet(1..Len(failed'))
    <3>1. IsFiniteSet(1..(Len(failed) + 1))
      <4> HIDE DEF after, before
      <4>1. 1 \in Int /\ Len(failed) + 1 \in Int
        BY <1>4
      <4> QED
        BY <4>1, FS_Interval
    <3>2. IsFiniteSet(1..Len(failed'))
      <4> HIDE DEF after, before
      <4> QED
        BY <1>4, <3>1
    <3>3. after \subseteq 1..Len(failed')
      OBVIOUS
    <3> QED
      BY <3>2, <3>3
  <2>5. Cardinality(before) <= Cardinality(after) /\ Cardinality(before) \in Nat /\ Cardinality(after) \in Nat
    BY <2>3, <2>4, FS_Subset, FS_CardinalityType
  <2>6. Cardinality(after) >= MaximumFailures
    <3> HIDE DEF before, after
    <3> QED
      BY <2>2, <2>5, AccessAssumption
  <2> QED
    BY <2>1, <2>6
<1> QED
  BY <1>1, <1>2, <1>4, <1>6, <1>7, <1>8, <1>9, <1>10, <1>11 DEF LimiterInv

-----------------------------------------------------------------------------
(* The limiter holds what it should *)

\* A new configuration comes with a limiter of its own, and leaves those that there were to the requests of theirs.
LEMMA ConfigureLimits ==
    ASSUME AccessInv, LimiterInv, NEW c \in Credentials, Reload(c) \/ RestartProcess(c)
    PROVE  LimiterInv'
<1>1. /\ configured' = Append(configured, c) /\ limiter' = Append(limiter, <<>>) /\ now' = now /\ failed' = failed
      /\ request' = request \/ request' = [r \in Callers |-> Unused]
  BY DEF Reload, RestartProcess, Configure
<1>2. /\ configured \in Seq(Credentials) /\ limiter \in Seq(Seq(Entry)) /\ Len(limiter) = Current
      /\ \A g \in 1..Current : ListedClients(limiter[g])
  BY DEF AccessInv, SessionsTypeOK, LimiterInv
<1>3. Current \in Nat /\ Current' = Current + 1
  BY <1>1, <1>2 DEF Current
<1>4. /\ limiter' \in Seq(Seq(Entry)) /\ Len(limiter') = Current + 1 /\ limiter'[Current + 1] = <<>>
      /\ \A g \in 1..Current : limiter'[g] = limiter[g]
  BY <1>1, <1>2, <1>3
<1>5. \A g \in 1..(Current + 1) : g \in 1..Current \/ limiter'[g] = <<>>
  BY <1>3, <1>4
<1>6. \A g \in 1..(Current + 1) : ListedClients(limiter'[g])
  <2>1. ListedClients(<<>>)
    BY AccessAssumption DEF ListedClients
  <2> QED
    BY <1>2, <1>4, <1>5, <2>1
<1>7. \A n \in 1..Len(failed) : /\ failed[n].configuration \in 1..Current /\ failed[n].configuration \in 1..(Current + 1)
                                /\ failed[n].at <= now
  BY <1>3 DEF LimiterInv
<1>8. \A r \in Callers : request'[r].step \in {"check", "limited"} => request'[r] = request[r]
  BY <1>1 DEF Unused
<1>9. ASSUME NEW g \in 1..(Current + 1), NEW i \in 1..Len(limiter'[g])
      PROVE  EntryKnown(g, limiter[g][i])'
  <2>1. g \in 1..Current /\ limiter'[g] = limiter[g]
    <3>1. ASSUME limiter'[g] = <<>>
          PROVE  FALSE
      <4>1. i \in 1..0
        BY <3>1
      <4> QED
        BY <4>1
    <3>2. g \in 1..Current
      BY <1>5, <3>1
    <3>3. limiter'[g] = limiter[g]
      BY <1>4, <3>2
    <3> QED
      BY <3>2, <3>3
  <2>2. PICK e : e = limiter[g][i]
    OBVIOUS
  <2>3. EntryKnown(g, e)
    BY <2>1, <2>2 DEF LimiterInv
  <2> DEFINE before == Checking(g, e.client, e.start + Window)
             after == {r \in Callers : /\ request'[r].step = "check" /\ request'[r].configuration = g
                                       /\ request'[r].client = e.client /\ request'[r].time < e.start + Window}
  <2>4. after \subseteq before
    BY <1>8 DEF Checking
  <2>5. Cardinality(after) <= Cardinality(before) /\ Cardinality(after) \in Nat /\ Cardinality(before) \in Nat
    BY <2>4, CountedSets, FS_Subset, FS_CardinalityType
  <2>6. e.failures \in Nat
    <3>1. limiter[g] \in Seq(Entry)
      BY <1>2, <2>1 DEF ListedClients
    <3>2. e \in Entry
      BY <2>1, <2>2, <3>1
    <3> QED
      BY <3>2 DEF Entry
  <2>7. e.failures + Cardinality(after) <= MaximumFailures - 1 + Cardinality(Callers)
    <3>1. e.failures + Cardinality(before) <= MaximumFailures - 1 + Cardinality(Callers)
      BY <2>3 DEF EntryKnown
    <3>2. Cardinality(Callers) \in Nat
      BY CountedSets
    <3> HIDE DEF before, after
    <3> QED
      BY <2>5, <2>6, <3>1, <3>2, AccessAssumption
  <2> QED
    BY <1>1, <2>1, <2>2, <2>3, <2>7 DEF EntryKnown, Checking, Since, FailuresOf
<1>10. ASSUME NEW n \in 1..Len(failed) PROVE RemembersFailure(n)'
  <2>1. RemembersFailure(n) /\ limiter'[failed[n].configuration] = limiter[failed[n].configuration]
    BY <1>4, <1>7 DEF LimiterInv
  <2>2. Others(n)' = Others(n)
    BY <1>1 DEF Others
  <2> QED
    BY <1>1, <2>1, <2>2, ZenonT(60) DEF RemembersFailure
<1>11. LimitedForOwnFailures'
  <2> SUFFICES ASSUME NEW r \in Callers, request'[r].step = "limited"
               PROVE  Cardinality({i \in FailuresOf(request'[r].configuration, request'[r].client) :
                                       failed[i].at > request'[r].time - Window}) >= MaximumFailures
    BY <1>1 DEF LimitedForOwnFailures, FailuresOf
  <2>1. request'[r] = request[r]
    BY <1>8
  <2> QED
    BY <2>1 DEF LimiterInv, LimitedForOwnFailures
<1>12. failed \in Seq(Failed)
  BY DEF LimiterInv
<1> QED
  BY <1>1, <1>3, <1>4, <1>6, <1>7, <1>9, <1>10, <1>11, <1>12 DEF LimiterInv

\* The other steps of a request neither count nor lead to the check of a password.
LEMMA OthersLimit ==
    ASSUME AccessInv, LimiterInv, NEW r \in Callers, Handle(r), ~CheckLimit(r), ~Deny(r)
    PROVE  LimiterInv'
<1>1. now \in Nat /\ request \in [Callers -> {Unused} \cup Request]
  BY DEF AccessInv, SessionsTypeOK
<1>2. CASE \E kind \in {"login", "logout", "get"}, client \in Clients, token \in Tokens \cup {NoToken},
              given \in Credentials \cup {NoHeader} : Arrive(r, kind, client, token, given)
  <2>1. PICK arrived : /\ request' = [request EXCEPT ![r] = arrived] /\ arrived.step \notin {"check", "limited"}
                       /\ UNCHANGED <<limiter, failed, configured, now>>
    <3>1. PICK kind, client, token, given : Arrive(r, kind, client, token, given)
      BY <1>2
    <3> DEFINE step == CASE kind = "get" /\ token # NoToken -> "session"
                         [] kind = "get" /\ token = NoToken /\ given = NoHeader -> "refused"
                         [] kind = "logout" -> "logout"
                         [] OTHER -> "limit"
               arrived == [step |-> step, kind |-> kind, client |-> client, token |-> token, given |-> given,
                           configuration |-> Current, time |-> now, ended |-> token \in loggedOut]
    <3>2. request' = [request EXCEPT ![r] = arrived] /\ UNCHANGED <<limiter, failed, configured, now>>
      BY <3>1 DEF Arrive, historyVars
    <3>3. arrived.step = step
      OBVIOUS
    <3>4. step \notin {"check", "limited"}
      OBVIOUS
    <3> HIDE DEF arrived, step
    <3> QED
      BY <3>2, <3>3, <3>4
  <2>2. \A q \in Callers : request'[q].step \in {"check", "limited"} => request'[q] = request[q]
    BY <1>1, <2>1
  <2> QED
    BY <1>1, <2>1, <2>2, UncountedKeeps
<1>3. CASE ReadSession(r) \/ Discard(r) \/ StoreFails(r) \/ Accept(r) \/ Purge(r) \/ CreateSession(r) \/ Logout(r)
  <2>1. PICK step : /\ Goes(r, step) /\ step \in Steps \ {"check", "limited"} /\ request[r].step # "idle"
                    /\ UNCHANGED <<limiter, failed, configured, now>>
    <3>1. CASE ReadSession(r)
      BY <3>1 DEF ReadSession, Unrecognized, historyVars, Steps
    <3>2. CASE Discard(r)
      BY <3>2 DEF Discard, Unrecognized, historyVars, Steps
    <3>3. CASE StoreFails(r)
      BY <3>3 DEF StoreFails, Unrecognized, historyVars, Steps
    <3>4. CASE Accept(r)
      BY <3>4 DEF Accept, historyVars, Steps
    <3>5. CASE Purge(r)
      BY <3>5 DEF Purge, historyVars, Steps
    <3>6. CASE CreateSession(r)
      BY <3>6 DEF CreateSession, Steps
    <3>7. CASE Logout(r)
      BY <3>7 DEF Logout, Steps
    <3> QED
      BY <1>3, <3>1, <3>2, <3>3, <3>4, <3>5, <3>6, <3>7
  <2>2. request[r] # Unused /\ request[r] \in Request
    BY <1>1, <2>1 DEF Unused
  <2>3. request'[r].step = step /\ \A q \in Callers \ {r} : request'[q] = request[q]
    BY <1>1, <2>1, <2>2 DEF Goes, Request
  <2>4. \A q \in Callers : request'[q].step \in {"check", "limited"} => request'[q] = request[q]
    BY <2>1, <2>3
  <2> QED
    BY <1>1, <2>1, <2>4, UncountedKeeps
<1> QED
  BY <1>2, <1>3 DEF Handle

\* At first there are no failures.
LEMMA InitLimits == AccessInit => LimiterInv
<1> SUFFICES ASSUME AccessInit PROVE LimiterInv
  OBVIOUS
<1>1. PICK c \in Credentials : configured = <<c>>
  BY DEF AccessInit
<1>2. /\ limiter = <<<<>>>> /\ failed = <<>> /\ Current = 1 /\ \A r \in Callers : request[r].step = "idle"
  BY <1>1 DEF AccessInit, Current, Unused
<1>3. /\ limiter \in Seq(Seq(Entry)) /\ Len(limiter) = Current /\ failed \in Seq(Failed)
      /\ \A g \in 1..Current : limiter[g] = <<>>
  BY <1>2
<1>4. ListedClients(<<>>)
  BY AccessAssumption DEF ListedClients
<1> QED
  BY <1>2, <1>3, <1>4 DEF LimiterInv, LimitedForOwnFailures

\* The invariant of the limiter is inductive with that of the sessions and requests.
LEMMA NextLimits == AccessInv /\ LimiterInv /\ [AccessNext]_accessVars => LimiterInv'
<1> SUFFICES ASSUME AccessInv, LimiterInv, [AccessNext]_accessVars PROVE LimiterInv'
  OBVIOUS
<1>1. now \in Nat
  BY DEF AccessInv, SessionsTypeOK
<1>2. ASSUME NEW r \in Callers, Handle(r) PROVE LimiterInv'
  BY <1>2, CheckLimitKeeps, DenyKeeps, OthersLimit
<1>3. ASSUME NEW c \in Credentials, Reload(c) \/ RestartProcess(c) PROVE LimiterInv'
  BY <1>3, ConfigureLimits
<1>4. CASE AccessTick
  <2>1. UNCHANGED <<limiter, failed, configured, request>> /\ now' = now + 1
    BY <1>4 DEF AccessTick, historyVars
  <2>2. now' \in Nat /\ now <= now'
    BY <1>1, <2>1
  <2> QED
    BY <1>1, <2>1, <2>2, UncountedKeeps
<1>5. CASE UNCHANGED accessVars
  <2>1. UNCHANGED <<limiter, failed, configured, request, now>>
    BY <1>5 DEF accessVars, programVars, historyVars
  <2> QED
    BY <1>1, <2>1, UncountedKeeps
<1> QED
  BY <1>2, <1>3, <1>4, <1>5 DEF AccessNext

\* The limiters keep LimiterInv through every request, answer, configuration and restart.
LEMMA LimiterInvariance == AccessSpec => []LimiterInv
<1> QED
  BY InitLimits, NextLimits, AccessInvariance, PTL DEF AccessSpec

\* The invariant implies what is promised of the guesses and of the failures.
LEMMA LimiterPromises ==
    ASSUME AccessInv, LimiterInv
    PROVE  LimiterTypeOK /\ LimitedForOwnFailures /\ GuessesAreLimited /\ FailuresAreRemembered
<1>1. LimiterTypeOK /\ LimitedForOwnFailures
  BY DEF LimiterInv, LimiterTypeOK, ListedClients
<1>2. GuessesAreLimited
  <2> SUFFICES ASSUME NEW g \in 1..Current, NEW i \in 1..Len(limiter[g])
               PROVE  limiter[g][i].failures <= MaximumFailures - 1 + Cardinality(Callers)
    BY DEF GuessesAreLimited
  <2>1. PICK e \in Entry : e = limiter[g][i] /\ EntryKnown(g, e)
    BY DEF LimiterInv, ListedClients
  <2>2. PICK n \in Nat : e.failures + n <= MaximumFailures - 1 + Cardinality(Callers)
    BY <2>1, CountedSets DEF EntryKnown
  <2>3. e.failures \in Nat /\ MaximumFailures \in Nat /\ Cardinality(Callers) \in Nat
    BY CountedSets, AccessAssumption DEF Entry
  <2>4. e.failures <= MaximumFailures - 1 + Cardinality(Callers)
    BY <2>2, <2>3
  <2> QED
    BY <2>1, <2>4
<1>3. FailuresAreRemembered
  <2> SUFFICES ASSUME NEW n \in 1..Len(failed)
               PROVE  Tracked(failed[n].client, limiter[failed[n].configuration]) \/ Cardinality(Others(n)) >= MaximumKeys
    BY DEF FailuresAreRemembered, Others
  <2>1. RemembersFailure(n) /\ ListedClients(limiter[failed[n].configuration])
    BY DEF LimiterInv
  <2>2. Len(limiter[failed[n].configuration]) \in Nat
    BY <2>1 DEF ListedClients
  <2> QED
    BY <2>1, <2>2, PositionIs DEF RemembersFailure
<1> QED
  BY <1>1, <1>2, <1>3

\* Whoever is let in is entitled to it for as long as it lasts; a client is refused for failures of its own within the
\* window, a window takes no more guesses than the maximum and one for each request at the same time, and the failures
\* of a client are forgotten only for those of as many others as are tracked (authenticateBasic, Login, failureLimiter).
THEOREM AccessEarned == AccessSpec => []AccessIsEarned
<1>1. AccessInv /\ LimiterInv => LimitedForOwnFailures /\ GuessesAreLimited /\ FailuresAreRemembered
  BY LimiterPromises
<1> QED
  BY <1>1, AccessInvariance, LimiterInvariance, AccessSafety, SessionsLastSafety, PTL DEF AccessIsEarned

\* The limiters, those of the requests of older configurations included, track no more clients than they may.
THEOREM LimiterTypes == AccessSpec => []LimiterTypeOK
<1>1. AccessInv /\ LimiterInv => LimiterTypeOK
  BY LimiterPromises
<1> QED
  BY <1>1, AccessInvariance, LimiterInvariance, PTL

-----------------------------------------------------------------------------
(* All of it together: the behaviours of MCAlertServices *)

\* The configuration of a part that is not looked at is only read.
NotLookedAt == part # "configuration" /\ type \in Services /\ provider \in Providers[type] /\ loading = "read" /\ sentWith = Nothing
ConfigurationInv == (part = "configuration" /\ ServicesInv) \/ NotLookedAt
DeliveryOfAll == type \in Services /\ DeliveryInv

\* A service of each style is a service.
LEMMA OfEachStyleAre == OfEachStyle \subseteq Services
<1>1. ASSUME NEW style \in {Service[s].sends : s \in Services}
      PROVE  (CHOOSE s \in Services : Service[s].sends = style) \in Services
  BY <1>1
<1> QED
  BY <1>1 DEF OfEachStyle

\* The behaviours of all begin as those of each.
LEMMA AllStart == MCInit => ConfigurationInv /\ DeliveryOfAll /\ AccessInit
<1> SUFFICES ASSUME MCInit  PROVE ConfigurationInv /\ DeliveryOfAll /\ AccessInit
  OBVIOUS
<1>1. (part = "configuration" /\ ServicesInit) \/ (part # "configuration" /\ QuietServices)
  BY DEF MCInit
<1>2. DeliveryInit /\ AccessInit
  BY DEF MCInit
<1>3. CASE part = "configuration" /\ ServicesInit
  <2>1. type \in Services
    BY <1>3 DEF ServicesInit
  <2> QED
    BY <1>2, <1>3, <2>1, ServicesStart, DeliveryStarts DEF ConfigurationInv, DeliveryOfAll
<1>4. CASE part # "configuration" /\ QuietServices
  <2>1. type \in Services
    BY <1>4, OfEachStyleAre DEF QuietServices
  <2>2. provider \in Providers[type] /\ loading = "read" /\ sentWith = Nothing
    BY <1>4, <2>1, ServicesAssumption DEF QuietServices
  <2> QED
    BY <1>2, <1>4, <2>1, <2>2, DeliveryStarts DEF ConfigurationInv, NotLookedAt, DeliveryOfAll
<1> QED
  BY <1>1, <1>3, <1>4

\* A step of one is none of the others.
LEMMA AllKeep ==
    ConfigurationInv /\ DeliveryOfAll /\ [MCNext]_<<part, serviceVars, deliveryVars, accessVars>>
        => ConfigurationInv' /\ DeliveryOfAll' /\ [AccessNext]_accessVars
<1> SUFFICES ASSUME ConfigurationInv, DeliveryOfAll, [MCNext]_<<part, serviceVars, deliveryVars, accessVars>>
             PROVE  ConfigurationInv' /\ DeliveryOfAll' /\ [AccessNext]_accessVars
  OBVIOUS
<1>1. ASSUME UNCHANGED <<part, serviceVars>>  PROVE ConfigurationInv' /\ type' = type
  <2>1. UNCHANGED <<part, type, provider, loading, sentWith>>
    BY <1>1 DEF serviceVars
  <2>2. ServicesInv => ServicesInv'
    BY <1>1, ServicesKeep
  <2>3. CASE part = "configuration" /\ ServicesInv
    BY <2>1, <2>2, <2>3 DEF ConfigurationInv
  <2>4. CASE NotLookedAt
    BY <2>1, <2>4 DEF ConfigurationInv, NotLookedAt
  <2> QED
    BY <2>1, <2>3, <2>4 DEF ConfigurationInv
<1>2. ASSUME UNCHANGED deliveryVars, type' = type  PROVE DeliveryOfAll'
  BY <1>2, DeliveryKeeps DEF DeliveryOfAll
<1>3. CASE ServicesStep
  <2>1. part = "configuration" /\ ServicesNext /\ part' = part /\ UNCHANGED deliveryVars /\ UNCHANGED accessVars
    BY <1>3 DEF ServicesStep
  <2>2. ServicesInv
    BY <2>1 DEF ConfigurationInv, NotLookedAt
  <2>3. ServicesInv'
    BY <2>1, <2>2, ServicesKeep
  <2>4. type' = type
    BY <2>1 DEF ServicesNext, ValidateAlertingConfig, ValidateEndpoints, AskForConfig
  <2> QED
    BY <1>2, <2>1, <2>3, <2>4 DEF ConfigurationInv
<1>4. CASE DeliveryStep
  <2>1. DeliveryNext /\ UNCHANGED <<part, serviceVars>> /\ UNCHANGED accessVars
    BY <1>4 DEF DeliveryStep
  <2>2. ConfigurationInv' /\ type' = type
    BY <1>1, <2>1
  <2>3. DeliveryOfAll'
    BY <2>1, <2>2, DeliveryKeeps DEF DeliveryOfAll
  <2> QED
    BY <2>1, <2>2, <2>3
<1>5. CASE AccessStep
  <2>1. AccessNext /\ UNCHANGED <<part, serviceVars>> /\ UNCHANGED deliveryVars
    BY <1>5 DEF AccessStep
  <2> QED
    BY <1>1, <1>2, <2>1
<1>6. CASE UNCHANGED <<part, serviceVars, deliveryVars, accessVars>>
  <2>1. UNCHANGED <<part, serviceVars>> /\ UNCHANGED deliveryVars /\ UNCHANGED accessVars
    BY <1>6
  <2> QED
    BY <1>1, <1>2, <2>1
<1> QED
  BY <1>3, <1>4, <1>5, <1>6 DEF MCNext

\* The invariants of all parts hold in every state, and the requests behave as they do by themselves.
LEMMA AllInvariance == MCSpec => [](ConfigurationInv /\ DeliveryOfAll) /\ AccessSpec
<1> QED
  BY AllStart, AllKeep, PTL DEF MCSpec, AccessSpec

\* An alert of any service is sent with what its own override sets, else what the first override of its group sets,
\* else the default of its provider, but for the host, the token and the settings of a client that is kept because the
\* override names no other owner and repository: they are those of the default, together; and where the validation of
\* the provider knows the overrides of groups, an alert that was accepted and names no other repository can be sent
\* (GetConfig, Validate, MergeProviderDefaultAlertIntoEndpointAlert).
THEOREM ConfiguredIsSent == MCSpec => []SentAsConfigured
<1>1. NotLookedAt => SentAsConfigured
  <2> SUFFICES ASSUME NotLookedAt  PROVE SentAsConfigured
    OBVIOUS
  <2>1. type \in Services /\ provider \in Providers[type] /\ loading = "read" /\ sentWith = Nothing
    BY DEF NotLookedAt
  <2>2. provider.default \in Written(type, "default") /\ "default" \in Places
    BY <2>1, ServicesAssumption DEF Places
  <2>3. provider.default \in Config(type)
    BY <2>1, <2>2, WrittenIsConfig
  <2> QED
    BY <2>1, <2>3 DEF SentAsConfigured, ServicesTypeOK, MostSpecificWins, AcceptedIsSendable
<1>2. ConfigurationInv => SentAsConfigured
  BY <1>1, ServicesPromise DEF ConfigurationInv
<1> QED
  BY <1>2, AllInvariance, PTL

\* An alert counts as triggered only once everyone who has to know was told, for every service, whatever fails on the
\* way and whenever the program restarts (handleAlertsToTrigger, Send).
THEOREM EveryoneIsTold == MCSpec => []EveryoneTold
<1>1. DeliveryOfAll => EveryoneTold
  BY DeliveryPromises DEF DeliveryOfAll
<1> QED
  BY <1>1, AllInvariance, PTL

\* A resolution closes the incidents of its own alert, and when it succeeds none of the alert is open unless its key
\* was lost (handleAlertsToResolve, sendAlertRequest, closeIssues).
THEOREM ResolvedAreClosed == MCSpec => []ResolvedIsClosed
<1>1. DeliveryOfAll => ResolvedIsClosed
  BY DeliveryPromises DEF DeliveryOfAll
<1> QED
  BY <1>1, AllInvariance, PTL

\* What is persisted are the alerts that are triggered, and everything has its type, in all parts.
THEOREM BordersAreConsistent == MCSpec => []EachConsistent
<1>1. DeliveryOfAll => DeliveryConsistent
  BY DeliveryPromises DEF DeliveryOfAll
<1> QED
  BY <1>1, AllInvariance, SessionsTypes, LimiterTypes, PTL DEF EachConsistent, AccessTypeOK
================================================================================
