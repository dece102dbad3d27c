---------------------------- MODULE AlertServices ----------------------------
(***************************************************************************)
(* The services that alerts are sent to, and the configuration an alert is *)
(* sent with: the default of the provider, overridden for the endpoints of *)
(* a group and then by the alert itself.  A service is described by the    *)
(* fields of its Config, by what its validations ask of them and by how    *)
(* Send talks to it; a field is empty, or has a value with the place it    *)
(* was set at, well formed or not.                                         *)
(***************************************************************************)
EXTENDS Naturals, Sequences, FiniteSets

(***************************************************************************)
(* What every provider is a variation of: groups may override the default, *)
(* one override each, and an alert is one request that is accepted unless  *)
(* its status is above 399.                                                *)
(***************************************************************************)
Webhook ==
    [required |-> {},      \* the fields Validate refuses when they are empty
     defaulted |-> {},     \* the ones that Validate sets when they are
     optional |-> {},
     formed |-> {},        \* the ones whose form it checks
     together |-> {},      \* the ones that are set together or not at all
     groups |-> "checked", \* whether groups may have overrides, and whether their names are checked
     groupNeeds |-> {},    \* what the validation of the provider asks of every override
     groupFormed |-> {},
     groupMerged |-> FALSE, \* whether it validates what each override makes of the default
     sends |-> "message"]

AWSSES == [Webhook EXCEPT !.required = {"from", "to"}, !.optional = {"access-key-id", "secret-access-key", "region"},
                          !.together = {"access-key-id", "secret-access-key"}, !.groupNeeds = {"to"}]
ClickUp == [Webhook EXCEPT !.required = {"list-id", "token"}, !.optional = {"assignees", "status"},
                           !.defaulted = {"api-url", "priority", "notify-all", "name", "content"},
                           !.formed = {"priority"}, !.sends = "tasks"]
Custom == [Webhook EXCEPT !.required = {"url"}, !.optional = {"method", "body", "headers", "placeholders", "client"},
                          !.groups = "unchecked"]
Datadog == [Webhook EXCEPT !.required = {"api-key"}, !.optional = {"site", "tags"}]
Discord == [Webhook EXCEPT !.required = {"webhook-url"}, !.optional = {"title", "message-content"},
                           !.groupNeeds = {"webhook-url"}]
Email == [Webhook EXCEPT !.required = {"from", "to", "host", "port"}, !.optional = {"username", "password", "client"},
                         !.formed = {"port"}, !.groupNeeds = {"to"}]
Gitea == [Webhook EXCEPT !.required = {"repository-url", "token"}, !.optional = {"assignees", "client"},
                         !.formed = {"repository-url", "token"}, !.groups = "none", !.sends = "issues"]
GitHub == [Webhook EXCEPT !.required = {"repository-url", "token"}, !.formed = {"repository-url", "token"},
                          !.groups = "none", !.sends = "issues"]
GitLab == [Webhook EXCEPT !.required = {"webhook-url", "authorization-key"}, !.formed = {"webhook-url"},
                          !.defaulted = {"severity", "monitoring-tool"}, !.optional = {"environment-name", "service"},
                          !.groups = "none", !.sends = "fingerprint"]
GoogleChat == [Webhook EXCEPT !.required = {"webhook-url"}, !.optional = {"client"}, !.groupNeeds = {"webhook-url"}]
Gotify == [Webhook EXCEPT !.required = {"server-url", "token"}, !.defaulted = {"priority"}, !.optional = {"title"},
                          !.groups = "none"]
HomeAssistant == [Webhook EXCEPT !.required = {"url", "token"}, !.optional = {"event-type"}, !.formed = {"event-type"}]
IFTTT == [Webhook EXCEPT !.required = {"webhook-key", "event-name"}]
Ilert == [Webhook EXCEPT !.required = {"integration-key"}]
IncidentIO == [Webhook EXCEPT !.required = {"url", "auth-token"}, !.optional = {"source-url", "metadata"},
                              !.formed = {"url"}, !.sends = "deduplication"]
Line == [Webhook EXCEPT !.required = {"channel-access-token", "user-ids"}, !.sends = "recipients"]
Matrix == [Webhook EXCEPT !.required = {"access-token", "internal-room-id"}, !.defaulted = {"server-url"},
                          !.groupNeeds = {"access-token", "internal-room-id"}]
Mattermost == [Webhook EXCEPT !.required = {"webhook-url"}, !.optional = {"channel", "client"},
                              !.groupNeeds = {"webhook-url"}]
Messagebird == [Webhook EXCEPT !.required = {"access-key", "originator", "recipients"}, !.groups = "none"]
N8N == [Webhook EXCEPT !.required = {"webhook-url"}, !.optional = {"title"}]
NewRelic == [Webhook EXCEPT !.required = {"insert-key", "account-id"}, !.optional = {"region"}]
Ntfy == [Webhook EXCEPT !.required = {"topic"}, !.defaulted = {"url", "priority"},
                        !.optional = {"token", "email", "click", "disable-firebase", "disable-cache"},
                        !.formed = {"token", "priority"}, !.groupFormed = {"token", "priority"}]
Opsgenie == [Webhook EXCEPT !.required = {"api-key"}, !.optional = {"tags"},
                            !.defaulted = {"source", "entity-prefix", "alias-prefix", "priority"},
                            !.groups = "none", !.sends = "alias, created and closed"]
PagerDuty == [Webhook EXCEPT !.required = {"integration-key"}, !.formed = {"integration-key"}, !.sends = "answered key"]
Plivo == [Webhook EXCEPT !.required = {"auth-id", "auth-token", "from", "to"}, !.sends = "recipients"]
Pushover == [Webhook EXCEPT !.required = {"application-token", "user-key"}, !.defaulted = {"priority", "resolved-priority"},
                            !.optional = {"title", "sound", "ttl", "device"}, !.groups = "none",
                            !.formed = {"application-token", "user-key", "priority", "resolved-priority", "device"}]
Resend == [Webhook EXCEPT !.required = {"api-key", "from", "to"}, !.optional = {"client"}, !.formed = {"from", "to"},
                          !.groupMerged = TRUE]
RocketChat == [Webhook EXCEPT !.required = {"webhook-url"}, !.optional = {"channel"}]
SendGrid == [Webhook EXCEPT !.required = {"api-key", "from", "to"}, !.optional = {"client"}]
Signal == [Webhook EXCEPT !.required = {"api-url", "number", "recipients"}, !.sends = "recipients"]
SIGNL4 == [Webhook EXCEPT !.required = {"team-secret"}, !.sends = "alias"]
Slack == [Webhook EXCEPT !.required = {"webhook-url"}, !.optional = {"title"}]
Splunk == [Webhook EXCEPT !.required = {"hec-url", "hec-token"}, !.optional = {"source", "sourcetype", "index"}]
Squadcast == [Webhook EXCEPT !.required = {"webhook-url"}, !.sends = "alias"]
Teams == [Webhook EXCEPT !.required = {"webhook-url"}, !.optional = {"title", "client"}]
TeamsWorkflows == [Webhook EXCEPT !.required = {"webhook-url"}, !.optional = {"title"}]
Telegram == [Webhook EXCEPT !.required = {"token", "id"}, !.defaulted = {"api-url"}, !.optional = {"topic-id", "client"}]
Twilio == [Webhook EXCEPT !.required = {"sid", "token", "from", "to"},
                          !.optional = {"text-twilio-triggered", "text-twilio-resolved"}, !.groups = "none"]
\* The answer of Vonage has a status of its own for the message
Vonage == [Webhook EXCEPT !.required = {"api-key", "api-secret", "from", "to"}, !.sends = "recipients, each answered"]
Webex == [Webhook EXCEPT !.required = {"webhook-url"}]
Zapier == [Webhook EXCEPT !.required = {"webhook-url"}]
Zulip == [Webhook EXCEPT !.required = {"bot-email", "bot-api-key", "domain", "channel-id"}, !.optional = {"topic"}]

\* GetAlertingProviderByAlertType: the provider of a type is the field of the alerting configuration with its name
Service ==
    [awsses |-> AWSSES, clickup |-> ClickUp, custom |-> Custom, datadog |-> Datadog, discord |-> Discord, email |-> Email,
     gitea |-> Gitea, github |-> GitHub, gitlab |-> GitLab, googlechat |-> GoogleChat, gotify |-> Gotify,
     homeassistant |-> HomeAssistant, ifttt |-> IFTTT, ilert |-> Ilert, incidentio |-> IncidentIO, line |-> Line,
     matrix |-> Matrix, mattermost |-> Mattermost, messagebird |-> Messagebird, n8n |-> N8N, newrelic |-> NewRelic,
     ntfy |-> Ntfy, opsgenie |-> Opsgenie, pagerduty |-> PagerDuty, plivo |-> Plivo, pushover |-> Pushover,
     resend |-> Resend, rocketchat |-> RocketChat, sendgrid |-> SendGrid, signal |-> Signal, signl4 |-> SIGNL4,
     slack |-> Slack, splunk |-> Splunk, squadcast |-> Squadcast, teams |-> Teams, teamsworkflows |-> TeamsWorkflows,
     telegram |-> Telegram, twilio |-> Twilio, vonage |-> Vonage, webex |-> Webex, zapier |-> Zapier, zulip |-> Zulip]

Services == DOMAIN Service
Fields(s) == Service[s].required \cup Service[s].defaulted \cup Service[s].optional

(***************************************************************************)
(* The configuration of an alert.                                          *)
(***************************************************************************)
Places == {"default", "group", "alert", "built in"}
Value == [set : Places, formed : BOOLEAN]
Empty == [set |-> "nowhere", formed |-> FALSE]
Config(s) == [Fields(s) -> Value \cup {Empty}]

IsSet(cfg, f) == cfg[f] # Empty

\* Validate: whether a configuration may be used, and what it is with its empty fields set
Valid(s, cfg) ==
    LET service == Service[s] IN
    /\ \A f \in service.required : IsSet(cfg, f)
    /\ \A f \in service.formed : IsSet(cfg, f) => cfg[f].formed
    /\ \A f, g \in service.together : IsSet(cfg, f) = IsSet(cfg, g)
Completed(s, cfg) ==
    [f \in DOMAIN cfg |-> IF f \in Service[s].defaulted /\ ~IsSet(cfg, f) THEN [set |-> "built in", formed |-> TRUE] ELSE cfg[f]]

\* Merge
Merged(cfg, override) == [f \in DOMAIN cfg |-> IF IsSet(override, f) THEN override[f] ELSE cfg[f]]

(***************************************************************************)
(* The client of a repository belongs to the configuration, and is made    *)
(* again only when the owner or the name of the repository is another: it  *)
(* keeps the host, the token and the settings that it was made with.  A    *)
(* new client asks the service who the token belongs to.                   *)
(***************************************************************************)
OfTheClient(s) == IF Service[s].sends = "issues" THEN {"repository-url", "token", "client"} \cap Fields(s) ELSE {}
\* Mutant: the client is kept once there is one
KeepsAny(s, override, repeats) == TRUE
\* An override that repeats the owner and the name, on whatever host, keeps the client.
KeepsClient(s, override, repeats) == OfTheClient(s) = {} \/ ~IsSet(override, "repository-url") \/ repeats
WithClient(s, cfg, former, kept) ==
    IF kept THEN [f \in DOMAIN cfg |-> IF f \in OfTheClient(s) THEN former[f] ELSE cfg[f]] ELSE cfg

(***************************************************************************)
(* A provider: its default, and the overrides of groups in the order of    *)
(* the file.                                                               *)
(***************************************************************************)
ValidOverrides(s, overrides) ==
    LET service == Service[s] IN
    \A i \in DOMAIN overrides :
        /\ overrides[i].group # "" /\ \A j \in 1..i-1 : overrides[j].group # overrides[i].group
        /\ \A f \in service.groupNeeds : IsSet(overrides[i].config, f)
        /\ \A f \in service.groupFormed : IsSet(overrides[i].config, f) => overrides[i].config[f].formed
\* Mutant: what the overrides make of the default is not validated
OverridesApart(s, provider) ==
    (Service[s].groups = "checked" => ValidOverrides(s, provider.overrides)) /\ Valid(s, provider.default)
ValidProvider(s, provider) ==
    /\ Service[s].groups = "checked" => ValidOverrides(s, provider.overrides)
    /\ Valid(s, provider.default)
    /\ Service[s].groupMerged =>
           \A i \in DOMAIN provider.overrides : Valid(s, Merged(provider.default, provider.overrides[i].config))

\* The first override of the group, if there is one
OfGroup(s, provider, group) ==
    LET own == {i \in DOMAIN provider.overrides : provider.overrides[i].group = group}
        first == CHOOSE i \in own : \A j \in own : i <= j
    IN IF own = {} THEN [f \in Fields(s) |-> Empty] ELSE provider.overrides[first].config

\* GetConfig, when the provider is the one Validate accepted: the configuration an alert is sent with, once the service
\* of a new client has answered
GetConfig(s, provider, group, override, repeats) ==
    WithClient(s, Merged(Merged(provider.default, OfGroup(s, provider, group)), override), provider.default,
               KeepsClient(s, override, repeats))
Sendable(s, provider, group, override, repeats) == Valid(s, GetConfig(s, provider, group, override, repeats))

(***************************************************************************)
(* The settings of an alert: its own, the ones of the default alert of the *)
(* provider, the built-in ones.                                            *)
(***************************************************************************)
AlertFields == {"enabled", "send-on-resolved", "description", "failure-threshold", "success-threshold",
                "minimum-reminder-interval"}
Unset == "unset"

MergeDefaultAlert(default, settings) ==
    [f \in AlertFields |-> IF settings[f] = Unset /\ f \in default THEN "provider" ELSE settings[f]]
SetDefaults(settings) ==
    [f \in AlertFields |-> IF settings[f] = Unset /\ f \in {"failure-threshold", "success-threshold"} THEN "built in" ELSE settings[f]]

(***************************************************************************)
(* An alert from the configuration to the service.                         *)
(***************************************************************************)
CONSTANTS
    Providers,  \* the providers declared for each service: [default, overrides, alert]
    Overrides   \* what an alert of the service may override

Nothing == [nothing |-> Empty]
Unreadable == [unreadable |-> Empty] \* the override of an alert that is not of the form of a Config

\* A configuration with some of its fields set, at one place of the file
Written(s, place) == [Fields(s) -> [set : {place}, formed : BOOLEAN] \cup {Empty}]

ASSUME ServicesAssumption ==
    \A s \in Services :
        /\ Providers[s] # {}
        /\ Providers[s] \subseteq [default : Written(s, "default"), alert : SUBSET AlertFields,
                                  overrides : Seq([group : STRING, config : Written(s, "group")])]
        /\ Service[s].groups = "none" => \A p \in Providers[s] : p.overrides = <<>>
        /\ Overrides[s] \subseteq Written(s, "alert") \cup {Nothing, Unreadable}

Kinds == {"endpoint", "suite", "managed"} \* of the endpoint: of the file, in a suite of the file, of the administration

VARIABLES
    type,        \* of the alert
    provider,    \* as declared, then with what its validation has set
    declared,    \* the alert: [kind, group, override, own], and whether the override repeats the owner and name of
                 \* the repository of the default
    loading,     \* how far the configuration is loaded
    settings,    \* of the alert, by where they were set
    sentWith     \* the configuration of the last Send, if there was one

serviceVars == <<type, provider, declared, loading, settings, sentWith>>

\* A repository is repeated by an override that names one.
MayRepeat(s, override) ==
    /\ OfTheClient(s) # {} /\ override \notin {Nothing, Unreadable}
    /\ IsSet(override, "repository-url") /\ override["repository-url"].formed

ServicesInit ==
    /\ type \in Services /\ provider \in Providers[type]
    /\ declared \in [kind : Kinds, group : {"", "group"}, override : Overrides[type], own : {{}, {"failure-threshold"}},
                     repeats : BOOLEAN]
    /\ declared.repeats => MayRepeat(type, declared.override)
    /\ loading = "read" /\ sentWith = Nothing
    /\ settings = [f \in AlertFields |-> IF f \in declared.own THEN "own" ELSE Unset]

\* Mutant: the endpoints are given their defaults before their alerts are merged with those of the provider
DefaultsFirst(kind, default, own) == MergeDefaultAlert(default, SetDefaults(own))
\* The alerts are merged before the endpoints are given their defaults; those of a suite are not merged
Settled(kind, default, own) == SetDefaults(IF kind = "suite" THEN own ELSE MergeDefaultAlert(default, own))

(***************************************************************************)
(* ValidateAlertingConfig: a provider that is not valid is ignored.  It    *)
(* warns of an alert whose override is not valid, and keeps it.  Whoever   *)
(* makes a client asks the service, which may not answer.                  *)
(***************************************************************************)
MayAnswer(asked) == IF asked THEN BOOLEAN ELSE {TRUE}

ValidateAlertingConfig ==
    /\ loading = "read"
    /\ \E answered \in MayAnswer(OfTheClient(type) # {}) :
           IF ValidProvider(type, provider) /\ answered
           THEN loading' = "alerting" /\ provider' = [provider EXCEPT !.default = Completed(type, @)]
           ELSE loading' = "ignored" /\ UNCHANGED provider
    /\ UNCHANGED <<type, declared, settings, sentWith>>

\* The override of the alert as a configuration
OwnOverride == IF declared.override = Nothing THEN [f \in Fields(type) |-> Empty] ELSE declared.override

\* ValidateOverrides
CanOverride == declared.override # Unreadable /\ Sendable(type, provider, declared.group, OwnOverride, declared.repeats)
MakesClient == declared.override # Unreadable /\ ~KeepsClient(type, OwnOverride, declared.repeats)

\* The endpoints of the file and of its suites; an endpoint of the administration is refused for its alert, see validateAlerts
ValidateEndpoints ==
    /\ loading \in {"alerting", "ignored"}
    /\ \E answered \in MayAnswer(declared.kind = "managed" /\ loading = "alerting" /\ MakesClient) :
           IF declared.kind = "managed" /\ (loading = "ignored" \/ ~(declared.override = Nothing \/ (CanOverride /\ answered)))
           THEN loading' = "refused" /\ UNCHANGED settings
           ELSE /\ loading' = IF loading = "ignored" THEN "without provider" ELSE "loaded"
                /\ settings' = IF loading = "ignored" THEN SetDefaults(settings)
                               ELSE Settled(declared.kind, provider.alert, settings)
    /\ UNCHANGED <<type, provider, declared, sentWith>>

\* Send, as far as the configuration it asks GetConfig for
AskForConfig ==
    /\ loading = "loaded" /\ loading' = "sent"
    /\ \E answered \in MayAnswer(MakesClient) :
           sentWith' = IF CanOverride /\ answered
                       THEN Completed(type, GetConfig(type, provider, declared.group, OwnOverride, declared.repeats))
                       ELSE Nothing
    /\ UNCHANGED <<type, provider, declared, settings>>

ServicesNext == ValidateAlertingConfig \/ ValidateEndpoints \/ AskForConfig

(***************************************************************************)
(* Properties.                                                             *)
(***************************************************************************)

\* The types of the variables.
ServicesTypeOK ==
    /\ type \in Services /\ provider.default \in Config(type)
    /\ loading \in {"read", "alerting", "ignored", "refused", "without provider", "loaded", "sent"}
    /\ sentWith = Nothing \/ sentWith \in Config(type)

\* The override names a repository of another owner or name than that of the default.
NamesAnother == OfTheClient(type) # {} /\ IsSet(OwnOverride, "repository-url") /\ ~declared.repeats

\* Everything an alert is sent with is what its own override sets, else the first override of its group, else the
\* default of the provider, else what the validation sets (docs/README.md:837). For the issues of a repository this is
\* true of the host, the token and the settings of the client together, and only when the owner or the name is another;
\* otherwise the three are those of the default, although the override sets them. And the settings of an alert are its
\* own before those of the provider and those before the built-in ones, except in a suite (config.go:699).
MostSpecificWins ==
    /\ sentWith # Nothing =>
           \A f \in Fields(type) :
               LET group == OfGroup(type, provider, declared.group)
                   place == IF IsSet(OwnOverride, f) THEN "alert" ELSE IF IsSet(group, f) THEN "group" ELSE provider.default[f].set
               IN sentWith[f].set = IF f \in OfTheClient(type) /\ ~NamesAnother THEN provider.default[f].set ELSE place
    /\ loading \in {"loaded", "sent"} /\ declared.kind # "suite" =>
           \A f \in AlertFields :
               settings[f] = IF f \in declared.own THEN "own" ELSE IF f \in provider.alert THEN "provider"
                             ELSE IF f \in {"failure-threshold", "success-threshold"} THEN "built in" ELSE Unset

\* Whether the overrides of groups are known to be usable when the provider is validated
GroupsKnown(s) ==
    \/ Service[s].groups = "none" \/ Service[s].groupMerged
    \/ Service[s].formed \subseteq Service[s].groupFormed /\ Service[s].together = {}

\* An alert of a provider that was accepted can be sent, whatever its group, unless the file gives it an override
\* of its own that is not valid, which is only warned of (config.go:766, 780), or its service has fields whose form is
\* not checked in the overrides of groups: GetConfig would then refuse the alert every time. An override that names
\* another repository makes a client at every Send, which fails whenever the service does not answer (github.go:84).
AcceptedIsSendable ==
    loading = "sent" /\ sentWith = Nothing =>
        \/ declared.override # Nothing /\ (declared.kind # "managed" \/ NamesAnother)
        \/ declared.override = Nothing /\ ~GroupsKnown(type)

\* An alert of a provider that was accepted is sent, and with what is configured for it.
SentAsConfigured == ServicesTypeOK /\ MostSpecificWins /\ AcceptedIsSendable
=============================================================================
