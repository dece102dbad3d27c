---------------------------- MODULE HealthChecks ----------------------------
(***************************************************************************)
(* One health check: Endpoint.EvaluateHealthWithContext of                 *)
(* internal/config/endpoint, the clients of internal/client that it calls, *)
(* the conditions on what was answered, and the context that the endpoints *)
(* of a suite share (internal/config/gontext, Suite.Execute).              *)
(*                                                                         *)
(* A text is a string; what the parsers of the code make of a text is      *)
(* given by the tables NumberOf, IntegerOf, MatchesOf, OptionsOf and       *)
(* StoredAs.  A body is its text with the values that its JSON paths find. *)
(* An error is what can be read in it: the hostname, the port, and the URL *)
(* as it is configured or in another form: net/http prints it encoded      *)
(* again, without its password, or after a redirection.                    *)
(* The answer is what the target and the registry of domains really said,  *)
(* whether or not the check looked at all of it.                           *)
(***************************************************************************)
EXTENDS Integers, Sequences, FiniteSets, TLC

CONSTANTS
    Subjects,    \* what is executed: an endpoint alone, or the endpoints of a suite with a context, with what
                 \* they may be answered and the bounds on the executions and days
    Dates,       \* the days on which the domain may expire
    NumberOf,    \* the texts that a numerical comparison understands: durations (in ms), integers and decimals
    IntegerOf,   \* the texts that are integers
    MatchesOf,   \* the texts pat(...), with the texts they match
    OptionsOf,   \* the texts any(...), with their options
    StoredAs,    \* the texts that a number or a truth value stored for them shows differently
    Breaking,    \* the texts that make a URL invalid
    Unset

\* A day is a number. What can be hidden of an endpoint is what ui has a setting for, and its endpoints are in an order.
ASSUME ChecksAssumption ==
    /\ Dates \subseteq Int /\ Unset \notin Int
    /\ \A s \in Subjects :
           /\ Len(s.endpoints) \in Nat /\ DOMAIN s.endpoints = 1..Len(s.endpoints)
           /\ \A i \in DOMAIN s.endpoints : s.endpoints[i].hides \subseteq {"url", "hostname", "port", "errors", "conditions"}

VARIABLES
    subject,     \* what is executed
    position,    \* ctx of Execute: the endpoint whose turn it is
    failed,      \* suiteHasFailed
    context,     \* the Gontext, from paths to texts; Unset without one
    stage,       \* where the check is
    result,      \* the Result under construction
    unsaved,     \* the mappings of the store of the endpoint that are left
    whois,       \* the entry of whoisExpirationDateCache: the date of the domain and the day the entry ends
    registry,    \* the date the registry of domains gives, since when, and the date it gave before
    day,         \* the time, in days
    rounds,      \* the executions begun
    answer,      \* observed: the answer to the check in progress
    answers      \* observed: the answers to the checks of this execution, by position

progress == <<position, failed, stage, unsaved, rounds>>
checksVars == <<subject, progress, context, result, whois, registry, day, answer, answers>>
world == <<subject, registry, day, rounds>>

Endpoint == subject.endpoints[position]
NoBody == [text |-> "", length |-> 0, at |-> <<>>]
NewResult ==
    [success |-> TRUE, errors |-> {}, connected |-> FALSE, status |-> 0, rcode |-> "", ip |-> "", duration |-> 0,
     certificate |-> 0, domain |-> 0, body |-> NoBody, hostname |-> FALSE, port |-> FALSE, conditions |-> <<>>]
\* url: "no", "literal", as it is configured, or in an "other" form; parts: what can be read beside a literal URL
Error(url, parts) == [url |-> url, parts |-> parts]

-----------------------------------------------------------------------------
(* The context of a suite *)

IsWithin(p, q) == Len(p) <= Len(q) /\ SubSeq(q, 1, Len(p)) = p

\* Get: a path leads to a value, or to the map of the values below it
Known(c, p) == \E q \in DOMAIN c : IsWithin(p, q)
Below(c, p) == {q[Len(p) + 1] : q \in {q \in DOMAIN c : IsWithin(p, q)}}
ContextText(c, p) == IF p \in DOMAIN c THEN c[p] ELSE "map[]"

\* Set: what is on the way, or below, makes room
Put(c, p, text) ==
    LET left == {q \in DOMAIN c : ~IsWithin(p, q) /\ ~IsWithin(q, p)}
    IN  [q \in left \cup {p} |-> IF q = p THEN text ELSE c[q]]

-----------------------------------------------------------------------------
(* The placeholders: ResolvePlaceholder.  An element of a condition is a   *)
(* text that names a placeholder, with a path or not, under a function or  *)
(* not, or that names none.                                                *)

TruthText(b) == IF b THEN "true" ELSE "false"
Invalid(element) == element.text \o " (INVALID)"
NotFound(element) == IF element.fn = "has" THEN "false" ELSE Invalid(element)

\* A value and its length under has, len or no function
Apply(fn, text, length) ==
    CASE fn = "has" -> TruthText(text # "")
      [] fn = "len" -> ToString(length)
      [] OTHER -> text

Plain(r) ==
    [STATUS |-> ToString(r.status), IP |-> r.ip, RESPONSE_TIME |-> ToString(r.duration), DNS_RCODE |-> r.rcode,
     CONNECTED |-> TruthText(r.connected), CERTIFICATE_EXPIRATION |-> ToString(r.certificate),
     DOMAIN_EXPIRATION |-> ToString(r.domain)]

ResolveBody(element, body) ==
    IF element.path = <<>> THEN Apply(element.fn, body.text, body.length)
    ELSE IF element.path \notin DOMAIN body.at THEN NotFound(element)
    ELSE IF element.fn = "has" THEN "true"
    ELSE Apply(element.fn, body.at[element.path].text, body.at[element.path].length)

ResolveContext(element, c) ==
    IF element.path = <<>> \/ ~Known(c, element.path) THEN NotFound(element)
    ELSE IF element.fn = "has" THEN "true"
    ELSE Apply(element.fn, ContextText(c, element.path),
               IF element.path \in DOMAIN c THEN Len(c[element.path]) ELSE Cardinality(Below(c, element.path)))

Resolve(element, r, c) ==
    IF element.of = "BODY" THEN ResolveBody(element, r.body)
    ELSE IF element.of = "CONTEXT" /\ c # Unset THEN ResolveContext(element, c)
    ELSE IF element.of \in DOMAIN Plain(r) THEN Apply(element.fn, Plain(r)[element.of], Len(Plain(r)[element.of]))
    ELSE IF element.fn = "none" THEN element.text
    ELSE NotFound(element)

-----------------------------------------------------------------------------
(* The conditions: Condition.evaluate *)

\* A function on one side only is applied to the other side; integers are compared as such.
Matches(table, a, b) == a \in DOMAIN table /\ b \notin DOMAIN table /\ b \in table[a]
OneSided(table, a, b) == (a \in DOMAIN table) # (b \in DOMAIN table)
IsEqual(a, b) ==
    IF OneSided(MatchesOf, a, b) THEN Matches(MatchesOf, a, b) \/ Matches(MatchesOf, b, a)
    ELSE IF OneSided(OptionsOf, a, b) THEN Matches(OptionsOf, a, b) \/ Matches(OptionsOf, b, a)
    ELSE IF {a, b} \subseteq DOMAIN IntegerOf THEN IntegerOf[a] = IntegerOf[b]
    ELSE a = b

\* A text that is no number counts as 0
Number(text) == IF text \in DOMAIN NumberOf THEN NumberOf[text] ELSE 0

Compare(left, operator, right) ==
    CASE operator = "==" -> IsEqual(left, right)
      [] operator = "!=" -> ~IsEqual(left, right)
      [] operator = "<=" -> Number(left) <= Number(right)
      [] operator = ">=" -> Number(left) >= Number(right)
      [] operator = "<" -> Number(left) < Number(right)
      [] operator = ">" -> Number(left) > Number(right)

Holds(condition, r, c) == Compare(Resolve(condition.left, r, c), condition.operator, Resolve(condition.right, r, c))

Elements(e) == UNION {{e.conditions[i].left, e.conditions[i].right} : i \in DOMAIN e.conditions}
Stored(e) == {e.store[p] : p \in DOMAIN e.store}
\* Mutant: a placeholder under a function is not seen
NeedsPlainBody(e) == \E element \in Elements(e) \cup Stored(e) : element.of = "BODY" /\ element.upper /\ element.fn = "none"
\* needsToReadBody and its like look for the placeholder as it is written in upper case
NeedsBody(e) == \E element \in Elements(e) \cup Stored(e) : element.of = "BODY" /\ element.upper
NeedsIP(e) == \E element \in Elements(e) : element.of = "IP" /\ element.upper
NeedsDomain(e) == \E element \in Elements(e) : element.of = "DOMAIN_EXPIRATION" /\ element.upper

-----------------------------------------------------------------------------
(* The execution of a suite, or of an endpoint alone *)

\* The registry of domains only matters to those who ask it.
IsDated(s) == \E i \in DOMAIN s.endpoints : NeedsDomain(s.endpoints[i])

ChecksInit ==
    /\ subject \in Subjects
    /\ position = 0 /\ failed = FALSE /\ stage = "idle" /\ unsaved = {} /\ rounds = 0
    /\ context = Unset /\ result = NewResult
    /\ whois = Unset /\ day = 0
    /\ registry \in {[date |-> d, since |-> 0, before |-> d] : d \in IF IsDated(subject) THEN Dates ELSE {Unset}}
    /\ answer = NewResult /\ answers = <<>>

\* Mutant: the context of the last execution is used again
KeptContext == IF rounds = 0 THEN subject.context ELSE context
\* Execute: the context is made of the values of the configuration
InitialContext == subject.context

Begin ==
    /\ stage = "idle" /\ rounds < subject.rounds
    /\ rounds' = rounds + 1 /\ position' = 1 /\ failed' = FALSE /\ stage' = "next"
    /\ context' = InitialContext
    /\ answers' = <<>>
    /\ UNCHANGED <<subject, registry, day, unsaved, result, whois, answer>>

End ==
    /\ stage = "next" /\ position > Len(subject.endpoints)
    /\ stage' = "idle"
    /\ UNCHANGED <<world, position, failed, unsaved, context, result, whois, answer, answers>>

\* After a failure only the endpoints that always run are executed
SkipAfterFailure ==
    /\ stage = "next" /\ position <= Len(subject.endpoints)
    /\ failed /\ ~Endpoint.always
    /\ position' = position + 1 /\ answers' = Append(answers, NewResult)
    /\ UNCHANGED <<world, failed, stage, unsaved, context, result, whois, answer>>

\* preprocessWithContext: the paths that the URL, the body and the headers name are looked up
Unresolved(e) == IF context = Unset THEN {} ELSE {p \in e.uses : ~Known(context, p)}
StartCheck ==
    /\ stage = "next" /\ position <= Len(subject.endpoints)
    /\ failed => Endpoint.always
    /\ result' = [NewResult EXCEPT !.errors = {Error("no", {}) : p \in Unresolved(Endpoint)}]
    /\ answer' = [NewResult EXCEPT !.ip = IF NeedsIP(Endpoint) THEN "" ELSE subject.answers.address]
    /\ stage' = "address"
    /\ UNCHANGED <<world, position, failed, unsaved, context, whois, answers>>

PortOf(e) == IF e.port THEN {"port"} ELSE {}
Parsed(e) == e.type \notin {"dns", "icmp"}
Breaks(e) == Parsed(e) /\ \E p \in e.inURL \ Unresolved(e) : context # Unset /\ ContextText(context, p) \in Breaking
MayBreak(e) == Breaks(e) \/ (Parsed(e) /\ e.inURL \cap Unresolved(e) # {})

\* The URL is parsed, unless the endpoint is a DNS query or a ping; a placeholder that is left may break it.
ParseAddress ==
    /\ stage = "address" /\ stage' = "ip"
    /\ \/ /\ ~Breaks(Endpoint)
          /\ result' = [result EXCEPT !.hostname = TRUE, !.port = Endpoint.port /\ Parsed(Endpoint)]
          /\ answer' = [answer EXCEPT !.hostname = TRUE]
       \/ /\ MayBreak(Endpoint)
          /\ \E error \in {Error("literal", {}), Error("other", {"hostname"} \cup PortOf(Endpoint))} :
                 result' = [result EXCEPT !.errors = @ \cup {error}]
          /\ UNCHANGED answer
    /\ UNCHANGED <<world, position, failed, unsaved, context, whois, answers>>

LookUpIP ==
    /\ stage = "ip" /\ stage' = "domain"
    /\ \/ ~NeedsIP(Endpoint) /\ UNCHANGED <<result, answer>>
       \/ /\ NeedsIP(Endpoint) /\ result.hostname
          /\ result' = [result EXCEPT !.ip = subject.answers.address] /\ answer' = [answer EXCEPT !.ip = subject.answers.address]
       \/ /\ NeedsIP(Endpoint)
          /\ result' = [result EXCEPT !.errors = @ \cup {Error("no", {"hostname"})}]
          /\ UNCHANGED answer
    /\ UNCHANGED <<world, position, failed, unsaved, context, whois, answers>>

\* GetDomainExpiration: the cached date serves while neither it nor its entry ends within a day.
Cached == whois # Unset /\ day < whois.until
FreshEnough == Cached /\ whois.until - day > 1 /\ whois.date - day > 1

UseDate(d) == result' = [result EXCEPT !.domain = d - day]
AskRegistry ==
    /\ UseDate(registry.date)
    /\ whois' = [date |-> registry.date, until |-> day + IF registry.date - day > 30 THEN 10 ELSE 3]
RegistrySilent ==
    /\ IF Cached THEN UseDate(whois.date) ELSE result' = [result EXCEPT !.errors = @ \cup {Error("no", {"hostname"})}]
    /\ UNCHANGED whois

CheckDomain ==
    /\ stage = "domain" /\ stage' = "call"
    /\ IF ~NeedsDomain(Endpoint) \/ ~result.hostname THEN UNCHANGED <<result, whois>>
       ELSE IF FreshEnough THEN UseDate(whois.date) /\ UNCHANGED whois
       ELSE AskRegistry \/ RegistrySilent
    /\ answer' = [answer EXCEPT !.domain = result'.domain]
    /\ UNCHANGED <<world, position, failed, unsaved, context, answers>>

-----------------------------------------------------------------------------
(* The call of the target *)

Calling(types) == stage = "call" /\ result.errors = {} /\ Endpoint.type \in types /\ stage' = "conditions"

\* The fields that the call sets; the answer has the whole body in any case.
With(r, fields) == [f \in DOMAIN r |-> IF f \in DOMAIN fields THEN fields[f] ELSE r[f]]
Gets(fields, body) ==
    /\ result' = With(result, fields)
    /\ answer' = [With(answer, fields) EXCEPT !.body = body]
    /\ UNCHANGED <<world, position, failed, unsaved, context, whois, answers>>
\* The call ends with an error, which names the URL or not; it is no failure by itself.
Fails(fields, named) ==
    \E url \in IF named THEN {"literal", "other"} ELSE {"no"}, parts \in {{}, {"hostname"} \cup PortOf(Endpoint)} :
        /\ result' = [With(result, fields) EXCEPT !.errors = {Error(url, parts)}]
        /\ answer' = With(answer, fields)
        /\ UNCHANGED <<world, position, failed, unsaved, context, whois, answers>>

Read(body) == IF NeedsBody(Endpoint) THEN body ELSE NoBody
Reached(d) == [connected |-> TRUE, duration |-> d]
Received(body, d) == [connected |-> TRUE, duration |-> d, body |-> body]

CallDNS ==
    /\ Calling({"dns"})
    /\ \/ \E c \in subject.answers.codes, b \in subject.answers.bodies, d \in subject.answers.durations :
              Gets([rcode |-> c, body |-> b, connected |-> TRUE, duration |-> d], b)
       \/ Fails([connected |-> FALSE], FALSE)

\* A connection that breaks after the handshake stays a connection for TLS.
CallTLS ==
    /\ Calling({"tls", "starttls"})
    /\ \/ \E v \in subject.answers.validities, d \in subject.answers.durations,
             b \in IF Endpoint.type = "tls" /\ Endpoint.sends THEN subject.answers.bodies ELSE {NoBody} :
              Gets([certificate |-> v, body |-> b, connected |-> TRUE, duration |-> d], b)
       \/ Fails([connected |-> FALSE], FALSE)
       \/ Endpoint.type = "tls" /\ Endpoint.sends /\ Fails([connected |-> TRUE], FALSE)

\* Without a connection, or an answer to what was sent, there is no error.
CallNetwork ==
    /\ Calling({"tcp", "udp", "sctp"})
    /\ \E d \in subject.answers.durations :
           \/ \E b \in IF Endpoint.type # "sctp" /\ Endpoint.sends THEN subject.answers.bodies ELSE {NoBody} :
                  Gets(Received(b, d), b)
           \/ Gets([connected |-> FALSE, duration |-> d], NoBody)

\* The loss of the echo takes the whole timeout; a ping that cannot be sent takes no time.
CallICMP ==
    /\ Calling({"icmp"})
    /\ \/ \E d \in subject.answers.durations : Gets(Reached(d), NoBody)
       \/ Gets([connected |-> FALSE, duration |-> subject.answers.timeout], NoBody)
       \/ Gets([connected |-> FALSE, duration |-> 0], NoBody)

CallWebSocket ==
    /\ Calling({"ws"})
    /\ \/ \E b \in subject.answers.bodies, d \in subject.answers.durations : Gets(Received(b, d), b)
       \/ Fails([connected |-> FALSE], TRUE)
       \/ Fails([connected |-> FALSE], FALSE)

\* CheckSSHBanner, when there are no credentials
CallSSHBanner ==
    /\ Calling({"ssh"}) /\ ~Endpoint.login
    /\ \/ \E d \in subject.answers.durations : Gets([status |-> 0, success |-> TRUE, connected |-> TRUE, duration |-> d], NoBody)
       \/ Fails([connected |-> FALSE, status |-> 1], FALSE)

\* A command that cannot be run is a failure by itself, unlike one that ends with a status.
CallSSH ==
    /\ Calling({"ssh"}) /\ Endpoint.login
    /\ \/ \E s \in {0, 1}, b \in subject.answers.bodies, d \in subject.answers.durations :
              Gets([status |-> s, success |-> TRUE, body |-> Read(b), connected |-> TRUE, duration |-> d], b)
       \/ Fails([connected |-> FALSE], FALSE)
       \/ Fails([connected |-> TRUE, success |-> FALSE, status |-> 0], FALSE)

CallGRPC ==
    /\ Calling({"grpc"})
    /\ \/ \E b \in subject.answers.servings, d \in subject.answers.durations : Gets(Received(Read(b), d), b)
       \/ Fails([connected |-> FALSE], FALSE)

\* The duration counts even without a response; a body that breaks off is an error beside a status.
CallHTTP ==
    /\ Calling({"http"})
    /\ \E d \in subject.answers.durations :
           \/ \E s \in subject.answers.statuses, v \in subject.answers.validities, b \in subject.answers.bodies :
                  LET response(body) == [status |-> s, certificate |-> v, body |-> body, connected |-> TRUE, duration |-> d]
                  IN  \/ Gets(response(Read(b)), b)
                      \/ NeedsBody(Endpoint) /\ \E part \in {NoBody, subject.answers.part} : Fails(response(part), FALSE)
           \/ Fails([duration |-> d], TRUE)

\* Trouble before the call is a failure.
DoNotCall ==
    /\ stage = "call" /\ result.errors # {} /\ stage' = "conditions"
    /\ result' = [result EXCEPT !.success = FALSE] /\ answer' = [answer EXCEPT !.errors = result.errors]
    /\ UNCHANGED <<world, position, failed, unsaved, context, whois, answers>>

Call ==
    \/ CallDNS \/ CallTLS \/ CallNetwork \/ CallICMP \/ CallWebSocket \/ CallSSHBanner \/ CallSSH \/ CallGRPC
    \/ CallHTTP \/ DoNotCall

-----------------------------------------------------------------------------
(* What is made of the answer *)

AllHold(e, r, c) == \A i \in DOMAIN e.conditions : Holds(e.conditions[i], r, c)

EvaluateConditions ==
    /\ stage = "conditions" /\ stage' = "hide"
    /\ result' = [result EXCEPT !.success = @ /\ AllHold(Endpoint, result, context),
                               !.conditions = [i \in DOMAIN Endpoint.conditions |-> Holds(Endpoint.conditions[i], result, context)]]
    /\ UNCHANGED <<world, position, failed, unsaved, context, whois, answer, answers>>

\* What can be read in an error; "url" is any form of the URL, or the one the target redirected to
Readable(error, e) ==
    error.parts \cup CASE error.url = "literal" -> {"url", "hostname"} \cup PortOf(e)
                       [] error.url = "other" -> {"url"}
                       [] OTHER -> {}
\* The occurrences of the configured URL are replaced; other forms of it are not found.
WithoutURL(error) == IF error.url = "literal" THEN Error("no", error.parts) ELSE error
\* The occurrences of a part are replaced, and the whole URL is no longer there; its other parts stay.
WithoutPart(error, part, e) ==
    IF part \in Readable(error, e) THEN Error("no", Readable(error, e) \ {"url", part}) ELSE error
\* Without a hostname, <redacted> is put between the characters, which can be read as before.
WithoutHostname(error, e) == IF result.hostname THEN WithoutPart(error, "hostname", e) ELSE error

\* Mutant: the URL with its placeholders is looked for
HideConfiguredURL(error, e) == IF "url" \in e.hides /\ e.inURL = {} THEN WithoutURL(error) ELSE error
HideURL(error, e) == IF "url" \in e.hides THEN WithoutURL(error) ELSE error
HideHostname(error, e) == IF "hostname" \in e.hides THEN WithoutHostname(error, e) ELSE error
HidePort(error, e) == IF "port" \in e.hides /\ result.port THEN WithoutPart(error, "port", e) ELSE error
Redacted(error, e) == HidePort(HideHostname(HideURL(error, e), e), e)

Hide ==
    /\ stage = "hide" /\ stage' = "store"
    /\ result' = [result EXCEPT
           !.errors = IF "errors" \in Endpoint.hides THEN {} ELSE {Redacted(error, Endpoint) : error \in @},
           !.hostname = @ /\ "hostname" \notin Endpoint.hides,
           !.port = @ /\ "port" \notin Endpoint.hides,
           !.conditions = IF "conditions" \in Endpoint.hides THEN <<>> ELSE @]
    /\ unsaved' = IF context = Unset THEN {} ELSE DOMAIN Endpoint.store
    /\ UNCHANGED <<world, position, failed, context, whois, answer, answers>>

\* StoreResultValues and extractValueForStorage: the mappings in any order, one without a value leaves the context alone
Extracted(element, r) == Resolve(element, r, Unset)
Shown(text) == IF text \in DOMAIN StoredAs THEN StoredAs[text] ELSE text
StoreError == Error("no", {"store"})
StoreValue ==
    /\ stage = "store"
    /\ \E p \in unsaved :
           /\ unsaved' = unsaved \ {p}
           /\ LET text == Extracted(Endpoint.store[p], result)
              IN  IF text = Invalid(Endpoint.store[p])
                  THEN result' = [result EXCEPT !.errors = @ \cup {StoreError}] /\ UNCHANGED context
                  ELSE context' = Put(context, p, Shown(text)) /\ UNCHANGED result
    /\ UNCHANGED <<world, position, failed, stage, whois, answer, answers>>

EndCheck ==
    /\ stage = "store" /\ unsaved = {} /\ stage' = "next"
    /\ position' = position + 1 /\ failed' = (failed \/ ~result.success)
    /\ answers' = Append(answers, answer)
    /\ result' = NewResult /\ answer' = NewResult
    /\ UNCHANGED <<world, unsaved, context, whois>>

-----------------------------------------------------------------------------
(* The time passes between the executions; the domain may be renewed once. *)

Tick ==
    /\ stage = "idle" /\ day < subject.days /\ day' = day + 1
    /\ UNCHANGED <<subject, progress, context, result, whois, registry, answer, answers>>

Renew ==
    /\ stage = "idle" /\ registry.date # Unset /\ registry.since = 0 /\ day > 0
    /\ \E d \in Dates \ {registry.date} : registry' = [date |-> d, since |-> day, before |-> registry.date]
    /\ UNCHANGED <<subject, progress, context, result, whois, day, answer, answers>>

ChecksNext ==
    \/ Begin \/ End \/ SkipAfterFailure \/ StartCheck \/ ParseAddress \/ LookUpIP \/ CheckDomain \/ Call
    \/ EvaluateConditions \/ Hide \/ StoreValue \/ EndCheck
    \/ Tick \/ Renew

ChecksSpec == ChecksInit /\ [][ChecksNext]_checksVars

-----------------------------------------------------------------------------
(* Properties *)

\* The code looks for the placeholders of the body and of the address as they are written in upper case, and for that of
\* the address only in the conditions.
IsAsLookedFor(e) ==
    \A element \in Elements(e) \cup Stored(e) :
        /\ element.of \in {"BODY", "IP"} => element.upper
        /\ element.of = "IP" => element \in Elements(e)

\* A check is a success if and only if there was no trouble before the call, a command that the check is about was
\* run, and every condition holds for what the target really answered: that the body and the address are only read
\* when a condition or the store names them, before anything is evaluated, makes no difference.
HealthIsEarned ==
    stage = "hide" /\ IsAsLookedFor(Endpoint) =>
        result.success <=> answer.errors = {} /\ answer.success /\ AllHold(Endpoint, answer, context)

\* A date that the registry of domains no longer gives is used for less than ten days after it was renewed, three if
\* the domain had no more than thirty days left when the date was read (GetDomainExpiration).
DatesAreRecent ==
    stage = "hide" /\ NeedsDomain(Endpoint) /\ answer.errors = {} /\ result.domain + day # registry.date =>
        /\ result.domain + day = registry.before
        /\ \E read \in 0..registry.since : day - read < IF registry.before - read > 30 THEN 10 ELSE 3

\* What stays readable in an error although it is to be hidden: a form of the URL that is not the configured one, as
\* net/http and url.Parse print it; the hostname, where the URL could not be parsed; the port, there and where the URL
\* is not parsed (DNS, ICMP).
NotFoundIn(error, e) ==
    (IF error.url = "other" THEN {"url"} ELSE {})
        \cup (IF answer.hostname THEN {} ELSE {"hostname"})
        \cup (IF answer.hostname /\ Parsed(e) THEN {} ELSE {"port"})

\* What ui.hide-url, hide-hostname and hide-port hide cannot be read in the errors of a result, in whatever order the
\* texts were replaced, but for what the replacement does not find (NotFoundIn): a URL that the client printed in
\* another form than the configured one is shown in spite of hide-url, unless hide-hostname or hide-port broke it. The
\* errors and conditions themselves are left out on demand, except for values that could not be stored afterwards.
HiddenStaysHidden ==
    stage = "store" =>
        /\ \A error \in result.errors :
               Readable(error, Endpoint) \cap Endpoint.hides \subseteq NotFoundIn(error, Endpoint)
        /\ "errors" \in Endpoint.hides => result.errors \subseteq {StoreError}

\* The text was stored under the path by the endpoint that was answered so.
IsStoredAs(text, p, e, r) == p \in DOMAIN e.store /\ (IsAsLookedFor(e) => text = Shown(Extracted(e.store[p], r)))

\* The values that the endpoints of a suite share are those of the configuration, or were extracted from the answer of
\* an endpoint of the same execution that stores them under that path.
ContextIsOfThisExecution ==
    stage = "next" /\ context # Unset =>
        \A p \in DOMAIN context :
            \/ p \in DOMAIN subject.context /\ context[p] = subject.context[p]
            \/ \E i \in DOMAIN answers : IsStoredAs(context[p], p, subject.endpoints[i], answers[i])

\* What an endpoint that was not skipped stores of its answer is there for the next one, unless the same store also has
\* a path on the way to it, or below it: a store is a map, whose entries are stored in any order.
IsStored(p, e, r) ==
    \/ ~IsAsLookedFor(e) \/ Extracted(e.store[p], r) = Invalid(e.store[p])
    \/ \E q \in DOMAIN e.store \ {p} : IsWithin(p, q) \/ IsWithin(q, p)
    \/ p \in DOMAIN context /\ IsStoredAs(context[p], p, e, r)
StoredForTheNext ==
    stage = "next" /\ context # Unset /\ Len(answers) > 0 /\ answers[Len(answers)] # NewResult =>
        LET e == subject.endpoints[Len(answers)]
        IN  \A p \in DOMAIN e.store : IsStored(p, e, answers[Len(answers)])

\* Nothing that was learned before an execution is used in it, but for the date of a domain, and not for too long.
NothingStale == DatesAreRecent /\ ContextIsOfThisExecution /\ StoredForTheNext

\* A health is that of the answer, and nothing that was learned before decides it for too long.
ResultsAreTrue == HealthIsEarned /\ NothingStale

\* A result is a success only if there was no error (result.go:56: "true only if there was no error and every
\* condition passed").
SuccessWithoutErrors == stage = "hide" /\ result.success => result.errors = {}

=============================================================================
