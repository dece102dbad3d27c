------------------------------ MODULE PushTokens ------------------------------
(***************************************************************************)
(* Whose push a token gives: the tokens of the endpoints of the            *)
(* configuration file and of the administration, the global push keys of   *)
(* both, and the resolution of /api/push/<token> and                       *)
(* /api/push/<token>/<endpoint-key>.                                       *)
(*                                                                         *)
(* The rows of the storage, and what is published from them and from the   *)
(* file: the snapshot of the push keys, the index of the managed endpoints *)
(* and the resolver.  A push reads what is published without a lock, the   *)
(* administration changes it with pushkey.mutex and statesMutex.           *)
(***************************************************************************)
EXTENDS Naturals, FiniteSets

CONSTANTS
    Keys,       \* of the endpoints that receive push
    Names,      \* of the global push keys
    Chosen,     \* the tokens users write in the file and in the endpoints
    Generated,  \* the tokens of the keys the administration creates, which nobody can choose before they are answered
    Files,      \* the configurations of a behaviour
    MayFail,    \* whether the storage may fail to list its rows, see LoadTokens
    Nobody

Tokens == Chosen \cup Generated

\* Two uses of tokens have no token in common, and one has none twice
Disjoint(f, g) == \A x \in DOMAIN f, y \in DOMAIN g : f[x] = g[y] => f[x] = Nobody
Unique(f) == \A x, y \in DOMAIN f : f[x] = f[y] => x = y \/ f[x] = Nobody

\* What Config.ValidateAndSetDefaults and ValidatePushConfig accept: external are the tokens of the external endpoints,
\* active the tokens of push.endpoints, keys the tokens of push.keys
ValidFile(file) ==
    /\ Unique(file.keys) /\ Unique(file.active) /\ Disjoint(file.keys, file.active)
    /\ Disjoint(file.keys, file.external) /\ Disjoint(file.active, file.external)
    /\ \A k \in Keys : file.external[k] = Nobody \/ file.active[k] = Nobody

File == [external : [Keys -> Chosen \cup {Nobody}], active : [Keys -> Chosen \cup {Nobody}], keys : [Names -> Chosen \cup {Nobody}]]

ASSUME TokensAssumption ==
    /\ Chosen \cap Generated = {} /\ MayFail \in BOOLEAN
    /\ Nobody \notin Tokens \cup Keys \cup Names \cup {"endpoint", "key"} \cup [token : Tokens, hidden : BOOLEAN]
    /\ Files \subseteq File /\ \A file \in Files : ValidFile(file)

VARIABLES
    file,        \* the configuration in use
    keyRows,     \* push_keys: the token of a name
    rows,        \* the managed endpoints stored, with their token
    keys,        \* snapshot.managedKeys: the token of the names published
    hashes,      \* snapshot.hashes: the name of the key with a token
    states,      \* the managed endpoints published: Nobody, or the token and whether the endpoint is in conflict or invalid
    resolver,    \* push.Resolver: the tokens of the endpoints of the file, by token without the ambiguous ones and by key
    keyMutex, statesMutex,   \* who holds pushkey.mutex and statesMutex
    keyChange, endpointChange, \* the changes in progress
    unlisted,    \* whether a list of rows failed: its rows are not published
    hidden       \* whether an endpoint got a token while another one, in conflict, invalid or not listed, had it

published == <<keys, hashes, states, resolver>>
storedRows == <<keyRows, rows>>
tokenVars == <<file, storedRows, published, keyMutex, statesMutex, keyChange, endpointChange, unlisted, hidden>>

NoTokenChange == [stage |-> "none", what |-> Nobody, token |-> Nobody]

TokensTypeOK ==
    /\ file \in Files
    /\ keyRows \in [Names -> Tokens \cup {Nobody}] /\ keys \in [Names -> Tokens \cup {Nobody}]
    /\ rows \in [Keys -> Tokens \cup {Nobody}]
    /\ hashes \in [Tokens -> Names \cup {Nobody}]
    /\ states \in [Keys -> {Nobody} \cup [token : Tokens, hidden : BOOLEAN]]
    /\ resolver \in [byToken : [Tokens -> Keys \cup {Nobody}], byKey : [Keys -> Chosen \cup {Nobody}], keys : SUBSET Chosen]
    /\ keyMutex \in BOOLEAN /\ statesMutex \in {Nobody, "endpoint", "key"}
    /\ keyChange \in [stage : {"none", "creating", "restoring", "deleting", "publishing"}, what : Names \cup {Nobody},
                      token : Tokens \cup {Nobody}]
    /\ endpointChange \in [stage : {"none", "saving", "removing"}, what : Keys \cup {Nobody}, token : Tokens \cup {Nobody}]
    /\ unlisted \in BOOLEAN /\ hidden \in BOOLEAN

-----------------------------------------------------------------------------
(* What is published at the start and at a reload *)

InFile(f, k) == f.external[k] # Nobody \/ f.active[k] # Nobody
TokenInFile(f, k) == IF f.external[k] # Nobody THEN f.external[k] ELSE f.active[k]

\* A token identifies the only candidate that has it
Owner(token, candidates, tokens) ==
    LET owners == {k \in candidates : tokens[k] = token} IN
    IF Cardinality(owners) = 1 THEN CHOOSE k \in owners : TRUE ELSE Nobody

\* NewResolver
Resolver(f) ==
    [byToken |-> [t \in Tokens |-> Owner(t, {k \in Keys : InFile(f, k)}, [k \in Keys |-> TokenInFile(f, k)])],
     byKey |-> [k \in Keys |-> TokenInFile(f, k)],
     keys |-> {f.keys[n] : n \in Names} \ {Nobody}]

NameOf(tokens, t) == IF \E n \in Names : tokens[n] = t THEN CHOOSE n \in Names : tokens[n] = t ELSE Nobody

\* pushkey.Load: the keys of the file, then those of the storage, which take the token of a key of the file
Hashes(f, managed) ==
    [t \in Tokens |-> IF NameOf(managed, t) # Nobody THEN NameOf(managed, t) ELSE NameOf(f.keys, t)]

NoKeyRows == [n \in Names |-> Nobody]
NoStates == [k \in Keys |-> Nobody]

\* managedendpoint.Load: an endpoint whose key is in the file is in conflict, one that does not fit the new
\* configuration is invalid
LoadTokens(f, keysListed, rowsListed, invalid) ==
    /\ file' = f
    /\ keys' = IF keysListed THEN keyRows ELSE NoKeyRows
    /\ hashes' = Hashes(f, keys')
    /\ states' = IF rowsListed
                 THEN [k \in Keys |-> IF rows[k] = Nobody THEN Nobody
                                      ELSE [token |-> rows[k], hidden |-> InFile(f, k) \/ k \in invalid]]
                 ELSE NoStates
    /\ resolver' = Resolver(f)
    /\ unlisted' = ~(keysListed /\ rowsListed)
    /\ UNCHANGED storedRows

TokensInit ==
    /\ file \in Files
    /\ keyRows = NoKeyRows /\ rows = [k \in Keys |-> Nobody]
    /\ keys = NoKeyRows /\ hashes = Hashes(file, NoKeyRows) /\ states = NoStates
    /\ resolver = Resolver(file)
    /\ keyMutex = FALSE /\ statesMutex = Nobody
    /\ keyChange = NoTokenChange /\ endpointChange = NoTokenChange
    /\ unlisted = FALSE /\ hidden = FALSE

LoadsTokens(f) ==
    \E keysListed, rowsListed \in (IF MayFail THEN BOOLEAN ELSE {TRUE}) :
        \E invalid \in SUBSET {k \in Keys : rowsListed /\ rows[k] # Nobody /\ ~InFile(f, k)} :
            LoadTokens(f, keysListed, rowsListed, invalid)

\* lifecycle keeps the changes and the reloads apart
ReloadTokens(f) ==
    /\ keyChange = NoTokenChange /\ endpointChange = NoTokenChange
    /\ LoadsTokens(f)
    /\ UNCHANGED <<keyMutex, statesMutex, keyChange, endpointChange, hidden>>

\* A crash between two steps of a change: what was committed is loaded
CrashTokens ==
    /\ keyChange # NoTokenChange \/ endpointChange # NoTokenChange
    /\ LoadsTokens(file)
    /\ keyMutex' = FALSE /\ statesMutex' = Nobody
    /\ keyChange' = NoTokenChange /\ endpointChange' = NoTokenChange
    /\ UNCHANGED hidden

-----------------------------------------------------------------------------
(* The push keys of the administration: pushkey.Create, Delete and Restore *)

NameInUse(n) == file.keys[n] # Nobody \/ keys[n] # Nobody
KeyStep == UNCHANGED <<file, rows, states, resolver, endpointChange, unlisted, hidden>>

BeginCreateKey(n, t) ==
    /\ ~keyMutex /\ keyMutex' = TRUE
    /\ ~NameInUse(n) /\ t \in Generated /\ \A m \in Names : keyRows[m] # t /\ \A k \in Keys : rows[k] # t
    /\ keyChange' = [stage |-> "creating", what |-> n, token |-> t]
    /\ UNCHANGED <<keyRows, keys, hashes, statesMutex>> /\ KeyStep

\* s.pushTokens: the tokens of the file and of the managed endpoints that are neither in conflict nor invalid
PushTokens(except) ==
    {file.external[k] : k \in Keys} \cup {file.active[k] : k \in Keys} \cup {file.keys[n] : n \in Names}
        \cup {states[k].token : k \in {l \in Keys \ except : states[l] # Nobody /\ ~states[l].hidden}}
\* EndpointPushTokens: the managed endpoints in conflict and the invalid ones too
EndpointPushTokens == PushTokens({}) \cup {states[k].token : k \in {l \in Keys : states[l] # Nobody}}

Restorable(n, t) == ~NameInUse(n) /\ hashes[t] = Nobody /\ t \notin EndpointPushTokens

\* Mutant: the guard ends before the row is written
BeginRestoreKeyUnguarded(n, t) ==
    /\ ~keyMutex /\ keyMutex' = TRUE
    /\ statesMutex = Nobody
    /\ Restorable(n, t)
    /\ keyChange' = [stage |-> "restoring", what |-> n, token |-> t]
    /\ UNCHANGED <<keyRows, keys, hashes, statesMutex>> /\ KeyStep

\* The guard holds statesMutex from the checks to the publication
BeginRestoreKey(n, t) ==
    /\ ~keyMutex /\ keyMutex' = TRUE
    /\ statesMutex = Nobody /\ statesMutex' = "key"
    /\ Restorable(n, t)
    /\ keyChange' = [stage |-> "restoring", what |-> n, token |-> t]
    /\ UNCHANGED <<keyRows, keys, hashes>> /\ KeyStep

\* The name and the hash are unique in the table.
InsertKey ==
    LET n == keyChange.what t == keyChange.token IN
    /\ keyChange.stage \in {"creating", "restoring"}
    /\ keyRows[n] = Nobody /\ \A m \in Names : keyRows[m] # t
    /\ keyRows' = [keyRows EXCEPT ![n] = t]
    /\ keyChange' = [keyChange EXCEPT !.stage = "publishing"]
    /\ UNCHANGED <<keys, hashes, keyMutex, statesMutex>> /\ KeyStep

KeyReleased == keyMutex' = FALSE /\ statesMutex' = (IF statesMutex = "key" THEN Nobody ELSE statesMutex) /\ keyChange' = NoTokenChange

\* The row exists although it was not listed, or the storage fails.
KeyChangeFails ==
    /\ keyChange.stage \in {"creating", "restoring", "deleting"}
    /\ KeyReleased
    /\ UNCHANGED <<keyRows, keys, hashes>> /\ KeyStep

PublishKey ==
    LET n == keyChange.what t == keyChange.token IN
    /\ keyChange.stage = "publishing" /\ t # Nobody
    /\ keys' = [keys EXCEPT ![n] = t] /\ hashes' = [hashes EXCEPT ![t] = n]
    /\ KeyReleased
    /\ UNCHANGED keyRows /\ KeyStep

BeginDeleteKey(n) ==
    /\ ~keyMutex /\ keyMutex' = TRUE
    /\ keys[n] # Nobody
    /\ keyChange' = [stage |-> "deleting", what |-> n, token |-> Nobody]
    /\ UNCHANGED <<keyRows, keys, hashes, statesMutex>> /\ KeyStep

DeleteKeyRow ==
    LET n == keyChange.what IN
    /\ keyChange.stage = "deleting" /\ keyRows[n] # Nobody
    /\ keyRows' = [keyRows EXCEPT ![n] = Nobody]
    /\ keyChange' = [keyChange EXCEPT !.stage = "publishing"]
    /\ UNCHANGED <<keys, hashes, keyMutex, statesMutex>> /\ KeyStep

\* Mutant: the key stays in the hashes
PublishDeletedByName ==
    /\ keyChange.stage = "publishing" /\ keyChange.token = Nobody
    /\ keys' = [keys EXCEPT ![keyChange.what] = Nobody]
    /\ KeyReleased
    /\ UNCHANGED <<keyRows, hashes>> /\ KeyStep

\* The token of the deleted key is only kept by the resolver, when it is also the token of a key of the file.
PublishDeleted ==
    /\ keyChange.stage = "publishing" /\ keyChange.token = Nobody
    /\ keys' = [keys EXCEPT ![keyChange.what] = Nobody]
    /\ hashes' = [hashes EXCEPT ![keys[keyChange.what]] = Nobody]
    /\ KeyReleased
    /\ UNCHANGED keyRows /\ KeyStep

-----------------------------------------------------------------------------
(* The managed endpoints: Create, Update and Delete of managedendpoint *)

EndpointStep == UNCHANGED <<file, keyRows, keys, hashes, resolver, keyMutex, keyChange, unlisted>>

\* Mutant: the tokens of the push keys are not looked at
NotInUse(k, t) == t \notin PushTokens({k})
\* validatePushToken
Usable(k, t) == t \notin PushTokens({k}) /\ hashes[t] = Nobody

HiddenFrom(k, t) == \E l \in Keys \ {k} : states[l] # Nobody /\ states[l].hidden /\ states[l].token = t

\* Creation, or a change of the token. A token that was generated is known once it is answered.
BeginSave(k, t) ==
    /\ statesMutex = Nobody /\ statesMutex' = "endpoint"
    /\ ~InFile(file, k) /\ Usable(k, t)
    /\ t \in Chosen \/ \E n \in Names : keys[n] = t
    /\ endpointChange' = [stage |-> "saving", what |-> k, token |-> t]
    /\ hidden' = (hidden \/ unlisted \/ HiddenFrom(k, t))
    /\ UNCHANGED <<rows, states>> /\ EndpointStep

\* An endpoint that is not published although it is stored cannot be created.
Save ==
    LET k == endpointChange.what IN
    /\ endpointChange.stage = "saving" /\ (rows[k] = Nobody <=> states[k] = Nobody)
    /\ rows' = [rows EXCEPT ![k] = endpointChange.token]
    /\ states' = [states EXCEPT ![k] = [token |-> endpointChange.token, hidden |-> FALSE]]
    /\ endpointChange' = NoTokenChange /\ statesMutex' = Nobody
    /\ UNCHANGED hidden /\ EndpointStep

BeginRemove(k) ==
    /\ statesMutex = Nobody /\ statesMutex' = "endpoint" /\ states[k] # Nobody
    /\ endpointChange' = [stage |-> "removing", what |-> k, token |-> Nobody]
    /\ UNCHANGED <<rows, states, hidden>> /\ EndpointStep

Remove ==
    LET k == endpointChange.what IN
    /\ endpointChange.stage = "removing"
    /\ rows' = [rows EXCEPT ![k] = Nobody] /\ states' = [states EXCEPT ![k] = Nobody]
    /\ endpointChange' = NoTokenChange /\ statesMutex' = Nobody
    /\ UNCHANGED hidden /\ EndpointStep

EndpointChangeFails ==
    /\ endpointChange # NoTokenChange
    /\ endpointChange' = NoTokenChange /\ statesMutex' = Nobody
    /\ UNCHANGED <<rows, states, hidden>> /\ EndpointStep

TokensNext ==
    \/ \E f \in Files : ReloadTokens(f)
    \/ CrashTokens
    \/ \E n \in Names, t \in Tokens : BeginCreateKey(n, t) \/ BeginRestoreKey(n, t)
    \/ \E n \in Names : BeginDeleteKey(n)
    \/ InsertKey \/ KeyChangeFails \/ PublishKey \/ DeleteKeyRow \/ PublishDeleted
    \/ \E k \in Keys : (\E t \in Tokens : BeginSave(k, t)) \/ BeginRemove(k)
    \/ Save \/ Remove \/ EndpointChangeFails

TokensSpec == TokensInit /\ [][TokensNext]_tokenVars

-----------------------------------------------------------------------------
(* The resolution of a push: Resolver.Resolve, with what is published at the time *)

Visible(k) == states[k] # Nobody /\ ~states[k].hidden

\* PushTargetByToken: newPushIndex
ManagedByToken(t) == Owner(t, {k \in Keys : Visible(k)}, [k \in Keys |-> states[k].token])

\* Mutant: the managed endpoints come first
ManagedFirst(t) == IF ManagedByToken(t) # Nobody THEN ManagedByToken(t) ELSE resolver.byToken[t]
\* /api/push/<token>
Resolve(t) == IF resolver.byToken[t] # Nobody THEN resolver.byToken[t] ELSE ManagedByToken(t)

IsGlobal(t) == t \in resolver.keys \/ hashes[t] # Nobody
TokenOf(k) == IF InFile(file, k) THEN resolver.byKey[k] ELSE IF Visible(k) THEN states[k].token ELSE Nobody

\* /api/push/<token>/<endpoint-key>
Accepted(t, k) == (InFile(file, k) \/ Visible(k)) /\ (TokenOf(k) = t \/ IsGlobal(t))

\* The keys of a push: a token is a global key if and only if it is one of the file or a row of the storage, whatever the
\* change before: a key that was deleted is rejected as soon as Delete returns, and the key of the file with the same
\* token keeps being accepted.
GlobalKeysAreRows ==
    ~keyMutex /\ ~unlisted => \A t \in Tokens : IsGlobal(t) <=> NameOf(keyRows, t) # Nobody \/ NameOf(file.keys, t) # Nobody

\* A token the administration gave to an endpoint is never a push key of the administration, which would open every other
\* endpoint to the sender of this one, and a restored key is never the token of an endpoint that is not monitored for now.
KeysAndEndpointsApart ==
    [][rows # rows' \/ keyRows # keyRows' => Disjoint(rows', keyRows') \/ ~Disjoint(rows, keyRows) \/ unlisted]_tokenVars

\* A token never pushes to an endpoint of which it is not the token: /api/push/<token> reaches an endpoint only when
\* /api/push/<token>/<endpoint-key> accepts the token as its own.
TokenReachesItsOwner == \A t \in Tokens : Resolve(t) # Nobody => TokenOf(Resolve(t)) = t

\* The endpoint of a token does not depend on the order of the endpoints, and an endpoint of the administration does not take
\* the pushes of one of the file: without a key, a token that an endpoint of the file has reaches this endpoint or none of
\* the file.
FileKeepsItsTokens ==
    \A k \in {l \in Keys : InFile(file, l)} :
        (\A l \in Keys \ {k} : TokenInFile(file, l) # TokenInFile(file, k)) => Resolve(TokenInFile(file, k)) = k

\* Two managed endpoints that are monitored have the same token, so that it reaches none of them, only if one of them got it
\* while the other was in conflict, invalid or not listed: pushTokens leaves those out.
SharedOnlyIfHidden ==
    \A k, l \in Keys : k # l /\ Visible(k) /\ Visible(l) /\ states[k].token = states[l].token => hidden

\* A token resolves to its owner: a global key of the file or of the storage, the endpoint of the file or the managed
\* endpoint that it was given to, and to none when it cannot tell.
TokensResolve == GlobalKeysAreRows /\ TokenReachesItsOwner /\ FileKeepsItsTokens /\ SharedOnlyIfHidden

\* A token has one owner at any time: it resolves to it, and no change gives it to a second one (resolver of push.go,
\* pushkey.go Create, Rename and Restore, managedendpoint/service.go pushTokens).
TokensHaveOneOwner == []TokensResolve /\ KeysAndEndpointsApart
=============================================================================
