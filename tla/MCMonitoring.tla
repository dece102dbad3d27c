---------------------------- MODULE MCMonitoring ----------------------------
(* Small instances of Monitoring, with one or two keys and one push and two *)
(* starts of an entry at most, and of HealthChecks.                          *)
EXTENDS Monitoring, HealthChecks

\* The part of the program that runs: the registry of the monitored endpoints, or the checks
VARIABLE part

CONSTANTS k1, k2, p1, p2

OneKey == {k1}
TwoKeys == {k1, k2}
SecondKey == {k2}
OnePush == {p1}

-----------------------------------------------------------------------------
(* The checks: texts and what the parsers make of them *)

TheNumbers == [t \in {ToString(n) : n \in 0..3 \cup {200, 500, 700}} |-> CHOOSE n \in 0..700 : ToString(n) = t]
MCIntegerOf == TheNumbers @@ ("007" :> 7) @@ ("7" :> 7)
MCNumberOf == MCIntegerOf @@ ("1.5" :> 1) @@ ("2ms" :> 2)
MCMatchesOf == "pat(U*)" :> {"UP", "U"}
MCOptionsOf == "any(200, 204)" :> {"200", "204"}
MCStoredAs == ("007" :> "7") @@ ("T" :> "true")
MCBreaking == {"a b"}
MCDates == {12, 40}

Literal(text) == [of |-> "literal", fn |-> "none", path |-> <<>>, text |-> text, upper |-> TRUE]
Placeholder(name) == [of |-> name, fn |-> "none", path |-> <<>>, text |-> "[" \o name \o "]", upper |-> TRUE]
PathIn(name, path) == [Placeholder(name) EXCEPT !.path = path]
InLowerCase(element) == [element EXCEPT !.upper = FALSE]
Under(fn, element) == [element EXCEPT !.fn = fn]
Condition(left, operator, right) == [left |-> left, operator |-> operator, right |-> right]
StatusIs(text) == Condition(Placeholder("STATUS"), "==", Literal(text))
TimeBelow(text) == Condition(Placeholder("RESPONSE_TIME"), "<", Literal(text))
Connected == Condition(Placeholder("CONNECTED"), "==", Literal("true"))
BodyAt(path) == PathIn("BODY", path)
NoStore == [p \in {} |-> Literal("")]

Plainly(type, conditions) ==
    [type |-> type, always |-> FALSE, uses |-> {}, inURL |-> {}, port |-> TRUE, sends |-> TRUE, login |-> FALSE,
     conditions |-> conditions, store |-> NoStore, hides |-> {}]
Object(text, values) == [text |-> text, length |-> Len(text), at |-> values]
Value(text) == [text |-> text, length |-> Len(text)]
SomeBodies == {NoBody, Object("{status}", <<"status">> :> Value("UP")), [Object("[..]", <<>>) EXCEPT !.length = 2]}
Serving == Object("{SERVING}", <<"status">> :> Value("SERVING"))

SomeAnswers ==
    [statuses |-> {200, 500}, codes |-> {"NOERROR", "NXDOMAIN"}, durations |-> {1, 700}, validities |-> {0, 3},
     bodies |-> SomeBodies, part |-> Object("{st", <<>>), servings |-> {Serving}, address |-> "1.1.1.1", timeout |-> 700]
FewAnswers(bodies) == [SomeAnswers EXCEPT !.durations = {1}, !.validities = {0}, !.bodies = bodies]
Alone(e) == [endpoints |-> <<e>>, context |-> Unset, answers |-> SomeAnswers, rounds |-> 1, days |-> 0]

\* An endpoint of each type
EveryType ==
    {Plainly("dns", <<Condition(Placeholder("DNS_RCODE"), "!=", Literal("NXDOMAIN")), Connected>>),
     Plainly("tls", <<Condition(Placeholder("CERTIFICATE_EXPIRATION"), ">", Literal("2ms")), Connected>>),
     Plainly("tls", <<Condition(Under("len", Placeholder("BODY")), ">=", Literal("2"))>>),
     Plainly("starttls", <<Connected>>), Plainly("udp", <<Connected, TimeBelow("500")>>), Plainly("sctp", <<Connected>>),
     Plainly("tcp", <<Condition(Under("has", Placeholder("BODY")), "==", Literal("true")), TimeBelow("500")>>),
     Plainly("icmp", <<TimeBelow("500")>>), Plainly("ws", <<Condition(Placeholder("BODY"), "!=", Literal("{status}"))>>),
     Plainly("ssh", <<StatusIs("0")>>), [Plainly("ssh", <<TimeBelow("500")>>) EXCEPT !.login = TRUE],
     [Plainly("ssh", <<Condition(BodyAt(<<"status">>), "==", Literal("pat(U*)"))>>) EXCEPT !.login = TRUE],
     Plainly("grpc", <<Condition(BodyAt(<<"status">>), "==", Literal("SERVING"))>>), Plainly("grpc", <<Connected>>),
     Plainly("http", <<StatusIs("any(200, 204)"), Condition(Under("has", BodyAt(<<"status">>)), "==", Literal("false"))>>),
     Plainly("http", <<Condition(BodyAt(<<"load">>), "<=", Literal("1.5")), TimeBelow("500")>>),
     Plainly("http", <<Condition(InLowerCase(BodyAt(<<"status">>)), "==", Literal("UP"))>>),
     Plainly("http", <<Condition(Placeholder("IP"), "==", Literal("1.1.1.1")), TimeBelow("500")>>)}

\* What is hidden of a failing endpoint
Hiding ==
    {[Plainly("http", <<StatusIs("200")>>) EXCEPT !.hides = h] : h \in SUBSET {"url", "hostname", "port", "errors"}}
        \cup {[Plainly("dns", <<Connected>>) EXCEPT !.hides = {"url", "hostname", "port"}]}

\* A domain that is checked on four days
Domain == Plainly("icmp", <<Condition(Placeholder("DOMAIN_EXPIRATION"), ">", Literal("2"))>>)
Expiring == [Alone(Domain) EXCEPT !.answers = FewAnswers({}), !.rounds = 4, !.days = 13]

\* A login whose answer the next endpoint and the last, which always runs, are about
ThePath(name) == <<name>>
LoginBodies == {NoBody, Object("{..}", (<<"id">> :> Value("007")) @@ (<<"user">> :> Value("T"))),
                Object("{.}", <<"user">> :> Value("a b"))}
LoginStore == (<<"user", "id">> :> BodyAt(<<"id">>)) @@ (<<"user">> :> BodyAt(<<"user">>)) @@ (<<"host">> :> BodyAt(<<"user">>))
Session ==
    <<[Plainly("http", <<StatusIs("200")>>) EXCEPT !.store = LoginStore, !.hides = {"url", "errors"}],
      [Plainly("http", <<Condition(PathIn("CONTEXT", <<"user", "id">>), "==", BodyAt(<<"id">>))>>) EXCEPT
          !.uses = {<<"host">>}, !.inURL = {<<"host">>}, !.hides = {"url"}],
      [Plainly("tcp", <<Condition(Under("len", PathIn("CONTEXT", <<"user">>)), "<=", Literal("3"))>>) EXCEPT
          !.always = TRUE, !.uses = {<<"user">>}, !.sends = FALSE, !.hides = {"hostname", "port"}]>>
SessionWith(initial) ==
    [endpoints |-> Session, context |-> initial, answers |-> FewAnswers(LoginBodies), rounds |-> 2, days |-> 0]

\* The address is looked up for a condition, or only to be stored
Addressed(conditions) == [Plainly("tcp", conditions) EXCEPT !.store = <<"ip">> :> Placeholder("IP"), !.sends = FALSE]
Remembering ==
    [SessionWith(<<"host">> :> "h") EXCEPT
         !.endpoints = <<Addressed(<<Condition(Placeholder("IP"), "==", Literal("1.1.1.1"))>>), Addressed(<<Connected>>)>>]

MCSubjects ==
    {Alone(e) : e \in EveryType \cup Hiding} \cup {Expiring, Remembering}
        \cup {SessionWith(c) : c \in {<<"host">> :> "h", [p \in {} |-> ""]}}

-----------------------------------------------------------------------------
(* Each part runs while the other stays as it was at first. *)

QuietMonitoring == Init
QuietChecks == ChecksInit /\ subject = Expiring /\ registry.date = 40

MCInit == \/ part = "monitoring" /\ Init /\ QuietChecks
          \/ part = "checks" /\ ChecksInit /\ QuietMonitoring
MCNext == \/ part = "monitoring" /\ Next /\ UNCHANGED <<checksVars, part>>
          \/ part = "checks" /\ ChecksNext /\ UNCHANGED <<vars, part>>

MCSpec == MCInit /\ [][MCNext]_<<vars, checksVars, part>> /\ Fairness
=============================================================================
