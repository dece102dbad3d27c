-------------------------------- MODULE Access --------------------------------
(***************************************************************************)
(* Who is let in with security.basic: the logins of the login screen, the  *)
(* sessions they leave in the storage, the requests that come with the     *)
(* cookie of a session or with Authorization: Basic, and the limiter of    *)
(* the failures, while the configuration is reloaded with another          *)
(* credential, the program restarts and the storage fails.                 *)
(*                                                                         *)
(* A request belongs to the configuration that it came in with and reads   *)
(* the clock once.  It may carry the token of any session there ever was:  *)
(* a cookie is kept by a tab or a script, and arrives late.  A credential  *)
(* stands for a username and a password; what is not the configured one is *)
(* wrong.  The limiter of a configuration outlives a reload for as long as *)
(* a request of it does.                                                   *)
(***************************************************************************)
EXTENDS Integers, Sequences, FiniteSets

CONSTANTS
    Callers,           \* the requests in progress
    Clients,           \* what identifies a client: its IPv4 address or IPv6 prefix
    Credentials,
    NoHeader,          \* what a request without Authorization: Basic gives
    SessionTTL,        \* the validity of a session
    Window,            \* failureLimiterWindow
    MaximumFailures,   \* failureLimiterMaximumFailures
    MaximumKeys,       \* failureLimiterMaximumKeys
    Traffics           \* bounds: sessions, configurations, arrivals, ticks, faults, the kinds of the requests, their clients;
                       \* and whether the storage is in memory

ASSUME AccessAssumption ==
    /\ NoHeader \notin Credentials
    /\ IsFiniteSet(Callers) /\ SessionTTL \in Nat /\ Window \in Nat
    /\ MaximumFailures \in Nat \ {0} /\ MaximumKeys \in Nat \ {0}
    /\ Traffics \subseteq [sessions : Nat, configurations : Nat, arrivals : Nat, ticks : Nat, faults : Nat, memory : BOOLEAN,
                           kinds : SUBSET {"login", "logout", "get"}, clients : SUBSET Clients]

NoToken == 0
NoSession == [credential |-> NoHeader, expires |-> 0]

VARIABLES
    configured,   \* the credentials of the configurations there were; the last one is in use
    now,          \* the clock
    sessions,     \* login_sessions: token -> session, or NoSession
    issued,       \* how many tokens there were
    limiter,      \* configuration -> failureLimiter: the clients with failures, the most recent first
    request,      \* the requests
    grants,       \* not in the program: token -> the configuration, the credential and the time of its login
    loggedOut,    \* not in the program: the tokens whose logout deleted their session
    lost,         \* not in the program: the tokens whose session a memory storage lost
    failed,       \* not in the program: the failures, in order: the configuration, the client and when it was counted
    traffic       \* the bounds of the behaviour and what is left of them

programVars == <<configured, now, sessions, issued, limiter, request>>
historyVars == <<grants, loggedOut, lost, failed>>
accessVars == <<programVars, historyVars, traffic>>

Tokens == 1..issued
Current == Len(configured)

-----------------------------------------------------------------------------
(* failureLimiter *)

\* Where the entry of the client is among those of the clients with failures; behind them all when there is none
PositionOf(client, entries) ==
    IF \E i \in 1..Len(entries) : entries[i].client = client
    THEN CHOOSE i \in 1..Len(entries) : entries[i].client = client
    ELSE Len(entries) + 1
Tracked(client, entries) == PositionOf(client, entries) <= Len(entries)

\* Blocked: the window of the client has not ended and it is full of failures.
Blocked(entries, client, time) ==
    \E i \in 1..Len(entries) :
        /\ entries[i].client = client
        /\ entries[i].failures >= MaximumFailures
        /\ time < entries[i].start + Window

\* Mutant: the failures of a window that has ended keep counting.
CountedForever(entries, client, time) ==
    IF ~Tracked(client, entries)
    THEN [client |-> client, start |-> time, failures |-> 1]
    ELSE [entries[PositionOf(client, entries)] EXCEPT !.start = time, !.failures = @ + 1]

\* The entry of the client after one more failure: a window starts with its first failure.
Counted(entries, client, time) ==
    LET known == entries[PositionOf(client, entries)] IN
    IF ~Tracked(client, entries) \/ time >= known.start + Window
    THEN [client |-> client, start |-> time, failures |-> 1]
    ELSE [known EXCEPT !.failures = @ + 1]

\* Failure: the client becomes the most recent one, and the least recent is forgotten beyond the maximum.
AfterFailure(entries, client, time) ==
    LET position == PositionOf(client, entries)
        length == IF Tracked(client, entries) \/ Len(entries) >= MaximumKeys THEN Len(entries) ELSE Len(entries) + 1 IN
    [i \in 1..length |-> IF i = 1 THEN Counted(entries, client, time)
                         ELSE IF i <= position THEN entries[i - 1] ELSE entries[i]]

-----------------------------------------------------------------------------
(* A request *)

Unused == [step |-> "idle"]
AccessInit ==
    /\ traffic \in Traffics
    /\ \E c \in Credentials : configured = <<c>>
    /\ now = 0
    /\ sessions = <<>> /\ issued = 0
    /\ limiter = <<<<>>>>
    /\ request = [r \in Callers |-> Unused]
    /\ grants = <<>> /\ loggedOut = {} /\ lost = {} /\ failed = <<>>

CredentialOf(r) == configured[request[r].configuration]

\* A request arrives; the token is that of its cookie.
Arrive(r, kind, client, token, given) ==
    /\ request[r].step \in {"idle", "admitted", "refused", "limited"}
    /\ traffic.arrivals > 0 /\ kind \in traffic.kinds /\ client \in traffic.clients
    /\ kind = "login" => given # NoHeader /\ token = NoToken
    /\ kind = "logout" => given = NoHeader /\ token # NoToken
    /\ request' = [request EXCEPT ![r] =
                      [step |-> CASE kind = "get" /\ token # NoToken -> "session"
                                  [] kind = "get" /\ token = NoToken /\ given = NoHeader -> "refused"
                                  [] kind = "logout" -> "logout"
                                  [] OTHER -> "limit",
                       kind |-> kind, client |-> client, token |-> token, given |-> given,
                       configuration |-> Current, time |-> now,
                       ended |-> token \in loggedOut]]
    /\ traffic' = [traffic EXCEPT !.arrivals = @ - 1]
    /\ UNCHANGED <<configured, now, sessions, issued, limiter, historyVars>>

Goes(r, step) == request' = [request EXCEPT ![r].step = step]
\* Without a valid session the header decides.
Unrecognized(r) == IF request[r].given = NoHeader THEN "refused" ELSE "limit"

\* Mutant: the credential that a session was created with is not compared.
Unexpired(session, r) == request[r].time < session.expires
\* sessionUsername: the session has not expired and was created with the credential of the configuration.
ValidFor(session, r) == request[r].time < session.expires /\ session.credential = CredentialOf(r)

\* The look at the session of the cookie
ReadSession(r) ==
    /\ request[r].step = "session"
    /\ LET session == sessions[request[r].token] IN
       Goes(r, CASE session = NoSession -> Unrecognized(r)
                 [] session # NoSession /\ ValidFor(session, r) -> "admitted"
                 [] OTHER -> "discard")
    /\ UNCHANGED <<configured, now, sessions, issued, limiter, historyVars, traffic>>

\* A session that is not valid is deleted; should that fail, it stays.
Discard(r) ==
    /\ request[r].step = "discard"
    /\ sessions' = [sessions EXCEPT ![request[r].token] = NoSession]
    /\ Goes(r, Unrecognized(r))
    /\ UNCHANGED <<configured, now, issued, limiter, historyVars, traffic>>

\* The storage fails: the request goes on as without a session, or is answered with an error.
StoreFails(r) ==
    /\ request[r].step \in {"session", "discard", "logout", "create"}
    /\ traffic.faults > 0
    /\ Goes(r, IF request[r].step \in {"session", "discard"} THEN Unrecognized(r) ELSE "refused")
    /\ traffic' = [traffic EXCEPT !.faults = @ - 1]
    /\ UNCHANGED <<configured, now, sessions, issued, limiter, historyVars>>

\* The limiter is asked before the password is checked, in a step of its own.
CheckLimit(r) ==
    /\ request[r].step = "limit"
    /\ Goes(r, IF Blocked(limiter[request[r].configuration], request[r].client, request[r].time)
               THEN "limited" ELSE "check")
    /\ UNCHANGED <<configured, now, sessions, issued, limiter, historyVars, traffic>>

\* The credential is the configured one: the request is let in, or the login goes on.
Accept(r) ==
    /\ request[r].step = "check" /\ request[r].given = CredentialOf(r)
    /\ Goes(r, IF request[r].kind = "login" THEN "purge" ELSE "admitted")
    /\ UNCHANGED <<configured, now, sessions, issued, limiter, historyVars, traffic>>

\* It is not: the failure is counted.
Deny(r) ==
    /\ request[r].step = "check" /\ request[r].given # CredentialOf(r)
    /\ limiter' = [limiter EXCEPT ![request[r].configuration] =
                      AfterFailure(@, request[r].client, request[r].time)]
    /\ failed' = Append(failed, [configuration |-> request[r].configuration, client |-> request[r].client,
                                 at |-> now])
    /\ Goes(r, "refused")
    /\ UNCHANGED <<configured, now, sessions, issued, grants, loggedOut, lost, traffic>>

\* Mutant: the sessions created before the login are deleted.
CreatedEarlier(session, r) == session # NoSession
\* DeleteExpiredLoginSessions
Expired(session, r) == session.expires <= request[r].time

\* The expired sessions are deleted, or that fails with a warning.
Purge(r) ==
    /\ request[r].step = "purge"
    /\ \/ /\ sessions' = [t \in Tokens |-> IF Expired(sessions[t], r) THEN NoSession ELSE sessions[t]]
          /\ UNCHANGED traffic
       \/ /\ traffic.faults > 0 /\ traffic' = [traffic EXCEPT !.faults = @ - 1]
          /\ UNCHANGED sessions
    /\ Goes(r, "create")
    /\ UNCHANGED <<configured, now, issued, limiter, historyVars>>

\* CreateLoginSession: a new token, valid from the time of the login on
CreateSession(r) ==
    /\ request[r].step = "create" /\ issued < traffic.sessions
    /\ issued' = issued + 1
    /\ sessions' = Append(sessions, [credential |-> CredentialOf(r), expires |-> request[r].time + SessionTTL])
    /\ grants' = Append(grants, [configuration |-> request[r].configuration, given |-> request[r].given,
                                 time |-> request[r].time])
    /\ Goes(r, "admitted")
    /\ UNCHANGED <<configured, now, limiter, loggedOut, lost, failed, traffic>>

\* Mutant: the cookie expires and the session stays.
KeepSession(token) == sessions
\* DeleteLoginSession
WithoutSession(token) == [sessions EXCEPT ![token] = NoSession]

Logout(r) ==
    /\ request[r].step = "logout"
    /\ sessions' = WithoutSession(request[r].token)
    /\ loggedOut' = loggedOut \cup {request[r].token}
    /\ Goes(r, "refused")
    /\ UNCHANGED <<configured, now, issued, limiter, grants, lost, failed, traffic>>

-----------------------------------------------------------------------------
(* The program *)

\* Another configuration, or the same one: with a limiter of its own, and a new storage when it is in memory.
Configure(credential) ==
    /\ Len(configured) < traffic.configurations
    /\ configured' = Append(configured, credential)
    /\ limiter' = Append(limiter, <<>>)
    /\ sessions' = IF traffic.memory THEN [t \in Tokens |-> NoSession] ELSE sessions
    /\ lost' = IF traffic.memory THEN Tokens ELSE lost
    /\ UNCHANGED <<now, issued, grants, loggedOut, failed, traffic>>

\* The requests in progress go on with the configuration they came in with.
Reload(credential) == Configure(credential) /\ UNCHANGED request

\* The requests in progress end with the process.
RestartProcess(credential) == Configure(credential) /\ request' = [r \in Callers |-> Unused]

AccessTick ==
    /\ traffic.ticks > 0
    /\ now' = now + 1
    /\ traffic' = [traffic EXCEPT !.ticks = @ - 1]
    /\ UNCHANGED <<configured, sessions, issued, limiter, request, historyVars>>

Handle(r) ==
    \/ \E kind \in {"login", "logout", "get"}, client \in Clients, token \in Tokens \cup {NoToken},
          given \in Credentials \cup {NoHeader} : Arrive(r, kind, client, token, given)
    \/ ReadSession(r) \/ Discard(r) \/ StoreFails(r)
    \/ CheckLimit(r) \/ Accept(r) \/ Deny(r)
    \/ Purge(r) \/ CreateSession(r) \/ Logout(r)

AccessNext ==
    \/ \E r \in Callers : Handle(r)
    \/ \E credential \in Credentials : Reload(credential) \/ RestartProcess(credential)
    \/ AccessTick

AccessSpec == AccessInit /\ [][AccessNext]_accessVars

-----------------------------------------------------------------------------
(* What holds *)

Steps == {"idle", "session", "discard", "limit", "check", "purge", "create", "logout", "admitted", "refused", "limited"}
Request ==
    [step : Steps, kind : {"login", "logout", "get"}, client : Clients, token : Nat,
     given : Credentials \cup {NoHeader}, configuration : Nat, time : Nat, ended : BOOLEAN]

SessionsTypeOK ==
    /\ configured \in Seq(Credentials) /\ Current > 0
    /\ now \in Nat /\ issued \in Nat
    /\ sessions \in [Tokens -> {NoSession} \cup [credential : Credentials, expires : Nat]]
    /\ grants \in [Tokens -> [configuration : Nat, given : Credentials, time : Nat]]
    /\ loggedOut \subseteq Tokens /\ lost \subseteq Tokens
    /\ request \in [Callers -> {Unused} \cup Request]
LimiterTypeOK ==
    /\ Len(limiter) = Current
    /\ \A g \in 1..Current : Len(limiter[g]) <= MaximumKeys
AccessTypeOK == SessionsTypeOK /\ LimiterTypeOK

\* A request is let in with the credential of its configuration, or with a session that a login with this
\* credential created, that has not expired and that nobody had logged out of before the request: whatever was
\* reloaded, restarted or failed in between (authenticateBasic, sessionUsername, Login).
Entitled(r) ==
    \/ request[r].given = CredentialOf(r)
    \/ /\ request[r].token # NoToken /\ ~request[r].ended
       /\ grants[request[r].token].given = CredentialOf(r)
       /\ request[r].time < grants[request[r].token].time + SessionTTL
AdmittedByCredential == \A r \in Callers : request[r].step = "admitted" => Entitled(r)

\* A session ends with a logout, with its time, with a storage in memory, or with a configuration of another
\* credential since its login: neither a login nor a request of an older configuration ends the session of another
\* one (sessionUsername, DeleteExpiredLoginSessions).
HasEnded(t) ==
    \/ t \in loggedOut \/ t \in lost
    \/ now >= grants[t].time + SessionTTL
    \/ \E g \in grants[t].configuration..Current : configured[g] # grants[t].given
SessionsLast == \A t \in Tokens : sessions[t] = NoSession => HasEnded(t)

FailuresOf(g, client) == {i \in 1..Len(failed) : failed[i].configuration = g /\ failed[i].client = client}

\* A client is refused for failures of its own within the window (Blocked).
LimitedForOwnFailures ==
    \A r \in Callers : request[r].step = "limited" =>
        Cardinality({i \in FailuresOf(request[r].configuration, request[r].client) :
                        failed[i].at > request[r].time - Window}) >= MaximumFailures

\* The password is checked after the limiter was asked and before the failure is counted: requests at the same time
\* pass together, and a window has at most one failure more for each of them (Login, authenticateBasic).
GuessesAreLimited ==
    \A g \in 1..Current : \A i \in 1..Len(limiter[g]) :
        limiter[g][i].failures <= MaximumFailures - 1 + Cardinality(Callers)

\* The failures of a client are forgotten only when as many others as are tracked have failed since (Failure).
FailuresAreRemembered ==
    \A i \in 1..Len(failed) :
        LET g == failed[i].configuration
            others == {failed[j].client : j \in {k \in i..Len(failed) : failed[k].configuration = g}} \ {failed[i].client} IN
        Tracked(failed[i].client, limiter[g]) \/ Cardinality(others) >= MaximumKeys

\* Whoever is let in is entitled to it, for as long as it lasts, and guesses are limited.
AccessIsEarned ==
    /\ AdmittedByCredential /\ SessionsLast
    /\ LimitedForOwnFailures /\ GuessesAreLimited /\ FailuresAreRemembered
=============================================================================
