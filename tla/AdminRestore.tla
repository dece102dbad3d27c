----------------------------- MODULE AdminRestore -----------------------------
(***************************************************************************)
(* The restore of a backup of the administration (internal/adminbackup):   *)
(* a preview plans what each item of the file would do, and the restore,   *)
(* confirmed with the fingerprint of the preview, plans again and applies  *)
(* the items one by one with the services of the administration, while     *)
(* other administrators make their changes and the configuration reloads.  *)
(*                                                                         *)
(* One alert type and one slug stand for all.  A form is a definition of   *)
(* an endpoint without enabled.  An item is a pair: its type, in the order *)
(* they are applied, and its name, key, type or slug.                      *)
(***************************************************************************)
EXTENDS Naturals

CONSTANTS
    KeyNames, Monitored,      \* the names of the push keys and the keys of the endpoints, both in their order
    Forms, Settings, Layouts, \* the definitions of the endpoints, of the provider and of the page
    Secrets,                  \* the tokens of the push keys and endpoints
    TokenOf,                  \* the token of a form, or Absent
    IsPushForm,
    AcceptedWith,             \* the settings of the provider, or Absent, that the alerts of a form are valid with
    NotRestorable,            \* the forms and settings with a masked secret, the push forms without token
    Backups, Installations,   \* files to restore, and configuration files
    Registered,               \* what is registered at first
    Absent,
    MaxTroubles               \* bound: changes of others, reloads, crashes and failures of the storage

VARIABLES
    configuration,   \* the configuration file in use: an element of Installations
    installed,       \* what is registered, stored and published: push keys, provider, endpoints, page
    generation,      \* of the status pages: the number of loads
    cycling,         \* a reload is in progress: no change begins
    listed,          \* the last load could list what is registered
    restore,         \* the request of the administrator, from its preview
    troubles

restoreVars == <<configuration, installed, generation, cycling, listed, restore, troubles>>

KeyItem(n) == <<1, n>>
ProviderItem == <<2, 1>>
EndpointItem(e) == <<3, e>>
PageItem == <<4, 1>>
Items == {KeyItem(n) : n \in KeyNames} \cup {EndpointItem(e) : e \in Monitored} \cup {ProviderItem, PageItem}
Precedes(i, j) == i[1] < j[1] \/ (i[1] = j[1] /\ i[2] < j[2])

EndpointDefinitions == [form : Forms, enabled : BOOLEAN]
Definitions == EndpointDefinitions \cup Settings \cup Layouts \cup Secrets

\* What the services register, and what a backup may contain
RowsOf(definitions) == [version : Nat \ {0}, definition : definitions] \cup {Absent}
Administration ==
    [keys : [KeyNames -> Secrets \cup {Absent}], provider : RowsOf(Settings),
     endpoints : [Monitored -> RowsOf(EndpointDefinitions)], page : RowsOf(Layouts)]
Files ==
    [keys : [KeyNames -> Secrets \cup {Absent}], provider : Settings \cup {Absent},
     endpoints : [Monitored -> EndpointDefinitions \cup {Absent}], page : Layouts \cup {Absent}]

\* The order of the items is that of their numbers, and what is absent is no row.
ASSUME RestoreAssumption ==
    /\ KeyNames \cup Monitored \subseteq Nat
    /\ Registered \subseteq Administration /\ Backups \subseteq Files
    /\ Absent \notin Definitions /\ Absent \notin [version : Nat, definition : Definitions]

Trouble == troubles < MaxTroubles /\ troubles' = troubles + 1
NoRestore == [stage |-> "none", left |-> {}, results |-> <<>>]

-----------------------------------------------------------------------------
(* What is in use *)

\* The definition registered for an item, or Absent; a push key has its token for a definition and no version.
Row(i) ==
    IF i = PageItem THEN installed.page
    ELSE IF i = ProviderItem THEN installed.provider
    ELSE IF i[1] = 3 THEN installed.endpoints[i[2]]
    ELSE IF installed.keys[i[2]] = Absent THEN Absent ELSE [version |-> 0, definition |-> installed.keys[i[2]]]

Written(i, row) ==
    IF i = PageItem THEN [installed EXCEPT !.page = row]
    ELSE IF i = ProviderItem THEN [installed EXCEPT !.provider = row]
    ELSE IF i[1] = 3 THEN [installed EXCEPT !.endpoints[i[2]] = row]
    ELSE [installed EXCEPT !.keys[i[2]] = IF row = Absent THEN Absent ELSE row.definition]

\* The provider of the file comes first.
Using(managed) == IF configuration.provider # Absent THEN configuration.provider ELSE managed
ProviderInUse == Using(IF installed.provider = Absent THEN Absent ELSE installed.provider.definition)

InConflictAt(e) == e \in configuration.endpoints
IsServed(e) ==
    /\ installed.endpoints[e] # Absent /\ ~InConflictAt(e)
    /\ ProviderInUse \in AcceptedWith[installed.endpoints[e].definition.form]

StoredToken(e) == IF installed.endpoints[e] = Absent THEN Absent ELSE TokenOf[installed.endpoints[e].definition.form]
\* pushTokens: of the file and of the other endpoints, those in conflict or invalid left out
TokensBut(e) == (configuration.tokens \cup {StoredToken(o) : o \in {o \in Monitored \ {e} : IsServed(o)}}) \ {Absent}
\* EndpointPushTokens: these included
EndpointTokens == (configuration.tokens \cup {StoredToken(e) : e \in Monitored}) \ {Absent}
KeySecrets == {k[n] : k \in {configuration.keys, installed.keys}, n \in KeyNames} \ {Absent}

\* The validation of an endpoint, given the tokens of others, those of the push keys and the provider
MayServe(e, form, tokens, secrets, used) ==
    /\ ~InConflictAt(e)
    /\ TokenOf[form] \notin tokens \cup secrets
    /\ used \in AcceptedWith[form]
    /\ installed.endpoints[e] # Absent => IsPushForm[installed.endpoints[e].definition.form] = IsPushForm[form]

\* The plan of a change of a provider: no valid endpoint becomes invalid
DependentsAccept(next) == \A e \in Monitored : IsServed(e) => next \in AcceptedWith[installed.endpoints[e].definition.form]

-----------------------------------------------------------------------------
(* The plan *)

\* The definition of an item of the file, endpoints disabled if that is asked for
Wanted(file, disabling, i) ==
    IF i = PageItem THEN file.page
    ELSE IF i = ProviderItem THEN file.provider
    ELSE IF i[1] = 1 THEN file.keys[i[2]]
    ELSE IF file.endpoints[i[2]] = Absent THEN Absent
    ELSE [form |-> file.endpoints[i[2]].form, enabled |-> file.endpoints[i[2]].enabled /\ ~disabling]

FileTokens(file) == {TokenOf[file.endpoints[e].form] : e \in {e \in Monitored : file.endpoints[e] # Absent}}

\* The names that nobody has yet, with a token that nobody has
FreeKeys(file) ==
    {n \in KeyNames : /\ configuration.keys[n] = Absent /\ installed.keys[n] = Absent
                      /\ file.keys[n] \notin {Absent} \cup KeySecrets \cup EndpointTokens \cup FileTokens(file)}

\* Of the keys of the file with the same token, the first one is created.
PlannedKeys(file) ==
    [n \in KeyNames |->
        IF n \in FreeKeys(file) /\ \A o \in FreeKeys(file) : o < n => file.keys[o] # file.keys[n] THEN "create"
        ELSE IF configuration.keys[n] = Absent /\ installed.keys[n] # Absent /\ installed.keys[n] = file.keys[n]
             THEN "unchanged" ELSE "skip"]

\* What becomes of an item that may be restored
ActionOn(i, asked, overwrite) ==
    IF Row(i) = Absent THEN "create"
    ELSE IF Row(i).definition = asked THEN "unchanged"
    ELSE IF overwrite THEN "update" ELSE "skip"

PlannedProvider(file, overwrite) ==
    IF file.provider = Absent \/ configuration.provider # Absent \/ file.provider \in NotRestorable THEN "skip"
    ELSE ActionOn(ProviderItem, file.provider, overwrite)

\* RestoredEffective
EffectiveAfter(file, action) ==
    IF action \in {"create", "update"} THEN Using(file.provider) ELSE ProviderInUse

\* Mutant: two endpoints of the file may have one token
NoPlannedTokens(file, planned) == {}
TokensPlanned(file, planned) == {TokenOf[file.endpoints[o].form] : o \in planned} \ {Absent}

CreatedTokens(file) == {file.keys[n] : n \in {n \in KeyNames : PlannedKeys(file)[n] = "create"}}

\* The endpoint may be restored if the given tokens are planned for endpoints before it.
Fits(file, overwrite, disabling, e, tokens) ==
    LET asked == Wanted(file, disabling, EndpointItem(e)) IN
    /\ asked # Absent /\ asked.form \notin NotRestorable
    /\ MayServe(e, asked.form, TokensBut(e) \cup tokens, KeySecrets \cup CreatedTokens(file),
                EffectiveAfter(file, PlannedProvider(file, overwrite)))

\* Of the endpoints to be written that have the same token, the first one is.
PlannedEndpoints(file, overwrite, disabling) ==
    LET action(e) == ActionOn(EndpointItem(e), Wanted(file, disabling, EndpointItem(e)), overwrite)
        written == {e \in Monitored : Fits(file, overwrite, disabling, e, {}) /\ action(e) \in {"create", "update"}}
    IN [e \in Monitored |->
           IF Fits(file, overwrite, disabling, e, TokensPlanned(file, {o \in written : o < e})) THEN action(e) ELSE "skip"]

PlannedPage(file, overwrite) ==
    IF file.page = Absent \/ configuration.page THEN "skip" ELSE ActionOn(PageItem, file.page, overwrite)

\* The definition an item shows: of a push key, only the token of another key with its name
CurrentOf(i, asked) ==
    IF Row(i) = Absent \/ (i[1] = 1 /\ (Row(i).definition = asked \/ configuration.keys[i[2]] # Absent)) THEN Absent ELSE Row(i)

\* Plan, whose fingerprint is that of its items, the providers, the options, the file and the generation
PlanOf(file, overwrite, disabling) ==
    LET keys == PlannedKeys(file)
        endpoints == PlannedEndpoints(file, overwrite, disabling)
        action(i) == IF i = PageItem THEN PlannedPage(file, overwrite)
                     ELSE IF i = ProviderItem THEN PlannedProvider(file, overwrite)
                     ELSE IF i[1] = 1 THEN keys[i[2]] ELSE endpoints[i[2]]
        included == {i \in Items : Wanted(file, disabling, i) # Absent}
    IN
    [items |-> [i \in included |-> [action |-> action(i), current |-> CurrentOf(i, Wanted(file, disabling, i))]],
     generation |-> generation, provider |-> installed.provider]

-----------------------------------------------------------------------------
(* The services of the administration *)

\* Mutant: the version that was previewed is not asked for
AnyVersion(i, version) == Row(i) # Absent
IsAtVersion(i, version) == Row(i) # Absent /\ Row(i).version = version

\* A service accepts a definition for an item, of the given version or, with zero, for an item that is to be created.
Accepts(i, definition, version) ==
    /\ IF version = 0 THEN Row(i) = Absent ELSE IsAtVersion(i, version)
    /\ i[1] = 1 => configuration.keys[i[2]] = Absent /\ definition \notin KeySecrets \cup EndpointTokens
    /\ i = ProviderItem => configuration.provider = Absent /\ DependentsAccept(definition)
    /\ i[1] = 3 => MayServe(i[2], definition.form, TokensBut(i[2]), KeySecrets, ProviderInUse)
    /\ i = PageItem /\ version = 0 => ~configuration.page

NextRow(i, definition) ==
    [version |-> IF i[1] = 1 THEN 0 ELSE IF Row(i) = Absent THEN 1 ELSE Row(i).version + 1, definition |-> definition]

\* A provider in use is not deleted.
MayRemove(i) ==
    /\ Row(i) # Absent
    /\ i = ProviderItem /\ configuration.provider = Absent =>
          \A e \in Monitored : installed.endpoints[e] # Absent => Absent \in AcceptedWith[installed.endpoints[e].definition.form]

DefinitionsOf(i) ==
    IF i = PageItem THEN Layouts ELSE IF i = ProviderItem THEN Settings
    ELSE IF i[1] = 1 THEN Secrets ELSE EndpointDefinitions

-----------------------------------------------------------------------------
(* The request, followed from its preview to its last item *)

\* POST /api/v1/admin/restore/preview
Preview(file, overwrite, disabling) ==
    /\ restore = NoRestore /\ listed
    /\ restore' = [stage |-> "previewed", file |-> file, overwrite |-> overwrite, disabling |-> disabling,
                   plan |-> PlanOf(file, overwrite, disabling), left |-> {}, results |-> <<>>,
                   reloading |-> FALSE, interfered |-> FALSE, refused |-> FALSE, recreated |-> {}, unseen |-> {}]
    /\ UNCHANGED <<configuration, installed, generation, cycling, listed, troubles>>

\* Mutant: only the actions are compared
SameActions(plan) == \A i \in DOMAIN plan.items : plan.items[i].action = restore.plan.items[i].action
IsAsPreviewed(plan) == plan = restore.plan

\* POST /api/v1/admin/restore: nothing is applied unless the plan is the one that was previewed.
Confirm ==
    /\ restore.stage = "previewed" /\ listed
    /\ restore' =
          IF IsAsPreviewed(PlanOf(restore.file, restore.overwrite, restore.disabling))
          THEN [restore EXCEPT !.stage = "applying", !.left = DOMAIN restore.plan.items,
                               !.unseen = {StoredToken(e) : e \in {e \in Monitored : ~IsServed(e)}} \ {Absent}]
          ELSE NoRestore
    /\ UNCHANGED <<configuration, installed, generation, cycling, listed, troubles>>

IsNextItem(i) == i \in restore.left /\ \A j \in restore.left : j = i \/ Precedes(i, j)
ToWrite(i) == restore.plan.items[i].action \in {"create", "update"}
PlannedVersion(i) == IF restore.plan.items[i].action = "create" THEN 0 ELSE restore.plan.items[i].current.version
WantedNow(i) == Wanted(restore.file, restore.disabling, i)

Result(i, result) ==
    [restore EXCEPT !.left = @ \ {i},
                    !.results = [j \in DOMAIN @ \cup {i} |-> IF j = i THEN [result |-> result, replaced |-> Row(i)] ELSE @[j]]]

\* An item that is not to be written, or that comes after one that met a reload
PassItem(i) ==
    /\ restore.stage = "applying" /\ IsNextItem(i)
    /\ ~ToWrite(i) \/ restore.reloading
    /\ restore' = Result(i, IF restore.plan.items[i].action = "unchanged" THEN "unchanged" ELSE "skipped")
    /\ UNCHANGED <<configuration, installed, generation, cycling, listed, troubles>>

MeetReload(i) ==
    /\ restore.stage = "applying" /\ IsNextItem(i) /\ ToWrite(i) /\ ~restore.reloading /\ cycling
    /\ restore' = [Result(i, "skipped") EXCEPT !.reloading = TRUE]
    /\ UNCHANGED <<configuration, installed, generation, cycling, listed, troubles>>

ApplyItem(i) ==
    /\ restore.stage = "applying" /\ IsNextItem(i) /\ ToWrite(i) /\ ~restore.reloading /\ ~cycling
    /\ IF Accepts(i, WantedNow(i), PlannedVersion(i))
       THEN /\ installed' = Written(i, NextRow(i, WantedNow(i)))
            /\ restore' = Result(i, IF restore.plan.items[i].action = "create" THEN "created" ELSE "updated")
       ELSE /\ restore' = [Result(i, "failed") EXCEPT !.refused = @ \/ (i = ProviderItem /\ ~DependentsAccept(WantedNow(i)))]
            /\ UNCHANGED installed
    /\ UNCHANGED <<configuration, generation, cycling, listed, troubles>>

ItemNotStored(i) ==
    /\ restore.stage = "applying" /\ IsNextItem(i) /\ ToWrite(i) /\ ~restore.reloading /\ ~cycling
    /\ Trouble
    /\ restore' = [Result(i, "failed") EXCEPT !.interfered = TRUE]
    /\ UNCHANGED <<configuration, installed, generation, cycling, listed>>

-----------------------------------------------------------------------------
(* The others *)

Touched(removed) ==
    IF restore.stage # "applying" THEN restore ELSE [restore EXCEPT !.interfered = TRUE, !.recreated = @ \cup removed]

\* Another administrator creates or updates an item; of a push key the token is a new one or one of a backup.
ChangeItem(i) ==
    /\ ~cycling /\ listed /\ Trouble
    /\ \E definition \in DefinitionsOf(i) :
          /\ i[1] = 1 => Row(i) = Absent
          /\ Accepts(i, definition, IF Row(i) = Absent THEN 0 ELSE Row(i).version)
          /\ installed' = Written(i, NextRow(i, definition))
    /\ restore' = Touched({})
    /\ UNCHANGED <<configuration, generation, cycling, listed>>

RemoveItem(i) ==
    /\ ~cycling /\ listed /\ Trouble
    /\ MayRemove(i) /\ installed' = Written(i, Absent)
    /\ restore' = Touched({i})
    /\ UNCHANGED <<configuration, generation, cycling, listed>>

BeginReload ==
    /\ ~cycling /\ Trouble /\ cycling' = TRUE
    /\ UNCHANGED <<configuration, installed, generation, listed, restore>>

\* The reload stops the server, which waits for the request in progress, and loads what is registered.
EndReload(next, readable) ==
    /\ cycling /\ (restore.stage = "applying" => restore.left = {})
    /\ configuration' = next /\ listed' = readable
    /\ generation' = generation + 1 /\ cycling' = FALSE
    /\ restore' = Touched({})
    /\ UNCHANGED <<installed, troubles>>

\* A crash and a start, whose generation is the first one again
RestartAll(next, readable) ==
    /\ Trouble
    /\ configuration' = next /\ listed' = readable
    /\ generation' = 1 /\ cycling' = FALSE
    /\ restore' = IF restore.stage = "previewed" THEN restore ELSE NoRestore
    /\ UNCHANGED installed

RestoreInit ==
    /\ configuration \in Installations /\ installed \in Registered
    /\ generation = 1 /\ cycling = FALSE /\ listed = TRUE /\ restore = NoRestore
    /\ troubles = 0

RestoreNext ==
    \/ \E file \in Backups, overwrite \in BOOLEAN, disabling \in BOOLEAN : Preview(file, overwrite, disabling)
    \/ Confirm \/ BeginReload
    \/ \E i \in Items : \/ PassItem(i) \/ MeetReload(i) \/ ApplyItem(i) \/ ItemNotStored(i)
                        \/ ChangeItem(i) \/ RemoveItem(i)
    \/ \E next \in Installations, readable \in BOOLEAN : EndReload(next, readable) \/ RestartAll(next, readable)

RestoreSpec == RestoreInit /\ [][RestoreNext]_restoreVars

-----------------------------------------------------------------------------
(* Properties *)

ResultOf(i) == restore.results[i].result

\* What a restore replaces, and what it leaves because it is there, is what its preview showed, whatever others did between
\* the preview and the restore.  Others may change an item while the restore is applied: it is then not replaced, but if
\* it was deleted and created again, for its versions begin at one again.
ReplacesWhatWasShown ==
    \A i \in DOMAIN restore.results :
        LET replaced == restore.results[i].replaced IN
        /\ ResultOf(i) = "created" => replaced = Absent
        /\ ResultOf(i) = "updated" => restore.overwrite /\ (replaced = restore.plan.items[i].current \/ i \in restore.recreated)
        /\ ResultOf(i) = "unchanged" => restore.interfered \/ replaced.definition = WantedNow(i)

\* A restore that nobody interfered with leaves nothing more to do for what it restored: a second one would write
\* none of it.
NothingLeftToDo ==
    restore.stage = "applying" /\ restore.left = {} /\ ~restore.interfered /\ ~restore.reloading /\ listed =>
        LET again == PlanOf(restore.file, restore.overwrite, restore.disabling) IN
        \A i \in DOMAIN restore.results :
            ResultOf(i) \in {"created", "updated", "unchanged"} => again.items[i].action \notin {"create", "update"}

RestoresAsPreviewed == ReplacesWhatWasShown /\ NothingLeftToDo

\* The plan predicts what the restore does: without interference and reload, no item fails, but for a provider that an
\* endpoint does not accept, what is validated with that provider, and the token of an endpoint that was not in use.
PlanPredicts ==
    \A i \in DOMAIN restore.results :
        ResultOf(i) = "failed" =>
            \/ restore.interfered
            \/ restore.refused /\ i[1] \in {2, 3}
            \/ i[1] = 3 /\ TokenOf[restore.file.endpoints[i[2]].form] \in restore.unseen

\* A restore does what its preview showed, and what its plan predicts succeeds (Plan and Apply of restore.go).
RestoresAsPlanned == RestoresAsPreviewed /\ PlanPredicts
=============================================================================
