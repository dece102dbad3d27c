---------------------------- MODULE MCResultStore ----------------------------
EXTENDS ResultStore, AdminRestore, StatusPages, TLC

\* The part of the program that runs: the stores of results, the restore of a backup of the
\* administration, or a status page
VARIABLE part

CONSTANTS s1, s2, s3, g1, g2, pushed, alerting, strict, masked, layout, r1, r2, c1, c2

\* The endpoints a and b, whose keys are such that the key of b begins with the key of a, and an endpoint s of a suite
MCExtends == {<<"a", "b">>}

\* Calls of every client in any order within an hour
Traffic == [inserts |-> 3, hours |-> 0, failures |-> 1, unchecked |-> {}, kinds |-> {"up"},
            writers |-> {"a", "b"}, clients |-> {"suite", "reader", "remover"}]

\* Enough results of an endpoint to trim its results and events
Flapping == [inserts |-> 7, hours |-> 0, failures |-> 1,
             unchecked |-> {"count", "start", "event", "oldEvents", "oldResults"},
             kinds |-> {"up", "down", "pending"}, writers |-> {"a"}, clients |-> {}]

\* Enough results of the suite to trim them
Suite == [inserts |-> 5, hours |-> 0, failures |-> 0, unchecked |-> {}, kinds |-> {}, writers |-> {},
          clients |-> {"suite", "remover"}]

\* The hours of an endpoint, some of them without results, enough to merge them and to clean them up
History == [inserts |-> 7, hours |-> 8, failures |-> 0, unchecked |-> {}, kinds |-> {"up"}, writers |-> {"a"},
            clients |-> {}]

\* Fewer hours, at one of which a statement or a commit fails
FailedHistory == [History EXCEPT !.inserts = 5, !.hours = 7, !.failures = 1,
                                 !.unchecked = {"upsert", "merge", "day", "cleanUp"}]

MCWorkloads == {Traffic, Flapping, Suite, History, FailedHistory}

-----------------------------------------------------------------------------
(* The restore of a backup: two push keys, two endpoints, a provider and a page *)

TwoNames == {1, 2}
TwoEndpoints == {1, 2}
SomeForms == {pushed, alerting, strict, masked}
FormTokens == (pushed :> s1) @@ (alerting :> s2) @@ (strict :> Absent) @@ (masked :> Absent)
FormIsPush == [form \in SomeForms |-> form \in {pushed, alerting}]
\* Two forms have an alert, each of them valid with one of the two settings.
FormProviders == (pushed :> {g1, g2, Absent}) @@ (alerting :> {g1}) @@ (strict :> {g2}) @@ (masked :> {Absent})

NoItem(domain) == [x \in domain |-> Absent]
Named(n, secret) == [NoItem(TwoNames) EXCEPT ![n] = secret]
At(e, row) == [NoItem(TwoEndpoints) EXCEPT ![e] = row]
Enabled(form) == [form |-> form, enabled |-> TRUE]
First(definition) == [version |-> 1, definition |-> definition]

\* The file defines nothing of what is registered, or some of each.
SomeInstallations ==
    {[keys |-> NoItem(TwoNames), provider |-> Absent, endpoints |-> {}, page |-> FALSE, tokens |-> {}],
     [keys |-> Named(1, s3), provider |-> g1, endpoints |-> {1}, page |-> TRUE, tokens |-> {s1}]}

\* Nothing, an endpoint with the provider of its alert, or without it since the file no longer has it
SomeRegistered ==
    {[keys |-> NoItem(TwoNames), provider |-> Absent, endpoints |-> NoItem(TwoEndpoints), page |-> Absent],
     [keys |-> NoItem(TwoNames), provider |-> First(g1), endpoints |-> At(1, First(Enabled(alerting))), page |-> First(layout)],
     [keys |-> NoItem(TwoNames), provider |-> Absent, endpoints |-> At(1, First(Enabled(alerting))), page |-> Absent]}

\* The second one has a token twice, as has the first, for its push keys.
SomeBackups ==
    {[keys |-> [n \in TwoNames |-> s3], provider |-> g1, page |-> layout,
      endpoints |-> [At(1, Enabled(masked)) EXCEPT ![2] = Enabled(alerting)]],
     [keys |-> NoItem(TwoNames), provider |-> g2, page |-> Absent, endpoints |-> [e \in TwoEndpoints |-> Enabled(pushed)]],
     [keys |-> NoItem(TwoNames), provider |-> g2, page |-> layout, endpoints |-> At(2, Enabled(strict))]}

-----------------------------------------------------------------------------
(* A status page: two endpoints, the credentials c1 and c2, two requests at a time *)

PageWith(login, featured, selected) == [enabled |-> TRUE, login |-> login, featured |-> featured, selected |-> selected]
OpenPage == PageWith(Unset, <<2>>, {1})
EarlierPage == PageWith(c1, <<>>, {1, 2})
LaterPage == PageWith(c2, <<>>, {1})
DisabledPage == [OpenPage EXCEPT !.enabled = FALSE]
NoPage == [served |-> TRUE, page |-> Unset, limit |-> 2]
ShortPage == [served |-> TRUE, page |-> LaterPage, limit |-> 1]
NotServed == [NoPage EXCEPT !.served = FALSE]
For(wants, credentials) == {[wants |-> wants, credential |-> c] : c \in credentials}

\* Logins in any order while the login of the page changes
Logins == [asked |-> For(WholePage, {Unset, c1}), pages |-> {LaterPage}, first |-> {EarlierPage}, installations |-> {NoPage},
           requests |-> 3, changes |-> 1, loads |-> 0, results |-> 0, failures |-> 0, ticks |-> 2]
\* A page that is changed and loaded
Changes == [asked |-> For(WholePage, {c1}), pages |-> {OpenPage, DisabledPage}, first |-> {Unset, EarlierPage},
            installations |-> {NoPage, ShortPage, NotServed},
            requests |-> 2, changes |-> 1, loads |-> 1, results |-> 0, failures |-> 1, ticks |-> 1]
\* The details of an endpoint
Details == [asked |-> For(1, {Unset}), pages |-> {}, first |-> {OpenPage}, installations |-> {NoPage},
            requests |-> 3, changes |-> 2, loads |-> 0, results |-> 2, failures |-> 0, ticks |-> 0]
SomeVisits == {Logins, Changes, Details}

\* Requests are told apart by nothing else.
Symmetric == Permutations(Requests)

-----------------------------------------------------------------------------
(* Each part runs while the others stay as they were at first. *)

QuietStore == Init /\ workload = Flapping

QuietRestore ==
    /\ configuration = CHOOSE c \in SomeInstallations : TRUE
    /\ installed = CHOOSE i \in SomeRegistered : TRUE
    /\ generation = 1 /\ cycling = FALSE /\ listed = TRUE /\ restore = NoRestore /\ troubles = 0

QuietPages == StatusInit /\ visit = Logins

MCInit ==
    \/ part = "store" /\ Init /\ QuietRestore /\ QuietPages
    \/ part = "restore" /\ RestoreInit /\ QuietStore /\ QuietPages
    \/ part = "pages" /\ StatusInit /\ QuietStore /\ QuietRestore

MCNext ==
    \/ part = "store" /\ Next /\ UNCHANGED <<restoreVars, statusVars, part>>
    \/ part = "restore" /\ RestoreNext /\ UNCHANGED <<vars, statusVars, part>>
    \/ part = "pages" /\ StatusNext /\ UNCHANGED <<vars, restoreVars, part>>

MCSpec == MCInit /\ [][MCNext]_<<vars, restoreVars, statusVars, part>>

=============================================================================
