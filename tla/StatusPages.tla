------------------------------ MODULE StatusPages ------------------------------
(***************************************************************************)
(* A public status page (internal/statuspage and the middleware of its     *)
(* routes): a request captures the published page once, is let in by the   *)
(* login of that page, and is answered with a payload that is assembled    *)
(* once for concurrent requests and cached, while administrators change    *)
(* the page, reloads replace it and results of its endpoints are stored.   *)
(*                                                                         *)
(* One slug, of the configuration file or of a managed page, and one       *)
(* client.  The time passes in ticks; what has expired counts as absent.   *)
(***************************************************************************)
EXTENDS Integers, Sequences, FiniteSets

CONSTANTS
    Requests,
    Endpoints,                \* that can be published: positive numbers, in the order of their names
    Credentials,              \* of requests and of pages
    Unset,
    VerificationTTL, FailureWindow, CacheTTL, UnavailableTTL, MaximumFailures,
    MaximumAssemblies, MaximumChecks,
    Visits                    \* bounds: what is asked with which credentials, the definitions of the managed page (enabled,
                              \* login: a credential or None, featured and selected endpoints) and the first one, what is
                              \* installed (served: status pages are enabled; page: that of the file, or None; limit: of
                              \* endpoints), and the number of requests, changes of the page and of the endpoints, loads,
                              \* results, failures and ticks

WholePage == 0
Pages == [enabled : BOOLEAN, login : Credentials \cup {Unset}, featured : Seq(Endpoints), selected : SUBSET Endpoints]
Visit == [asked : SUBSET [wants : Endpoints \cup {WholePage}, credential : Credentials \cup {Unset}],
          pages : SUBSET Pages, first : SUBSET (Pages \cup {Unset}),
          installations : SUBSET [served : BOOLEAN, page : Pages \cup {Unset}, limit : Nat],
          requests : Nat, changes : Nat, loads : Nat, results : Nat, failures : Nat, ticks : Nat]

ASSUME VisitsAssumption ==
    /\ Endpoints \subseteq Nat \ {WholePage} /\ IsFiniteSet(Endpoints)
    /\ Visits \subseteq Visit
    /\ FailureWindow \in Nat /\ MaximumFailures \in Nat

VARIABLES
    stored,        \* the managed page in the storage, or None
    snapshot,      \* the immutable snapshot in use
    revisions, generations,
    payloads,      \* by cache key, a payload or Unavailable, and its expiration
    flying,        \* the cache keys of the payloads that are being assembled
    verified,      \* by the credential of a request and that of the page, when the verification is forgotten
    tally,         \* how many failures are counted, and until when
    request,       \* by request, its stage and what it captured
    existing,      \* the endpoints that exist
    recorded,      \* by endpoint, its results: of which endpoint with its key, and how many
    unpublished,   \* the endpoints whose last result is stored and not published yet
    sequence, sequences,
    clock,
    answers,       \* observed: the answers of the last step
    refusals,      \* observed: the times of the failures since the last load
    visit          \* what is left of the bounds

pageVars == <<stored, snapshot, revisions, generations>>
cacheVars == <<payloads, flying>>
loginVars == <<verified, tally, refusals>>
endpointVars == <<existing, recorded, unpublished, sequence, sequences>>
requestVars == <<request, answers>>
statusVars == <<pageVars, cacheVars, loginVars, endpointVars, requestVars, clock, visit>>

Unavailable == [page |-> Unset]
NoRequest == [stage |-> "idle", wants |-> Unset, credential |-> Unset, published |-> Unset, time |-> Unset, key |-> Unset,
              asOf |-> Unset, payload |-> Unset]
NoFailures == [count |-> 0, expires |-> 0]
Nothing == [x \in {} |-> Unset]
With(f, x, y) == [z \in DOMAIN f \cup {x} |-> IF z = x THEN y ELSE f[z]]
Spend(what) == visit[what] > 0 /\ visit' = [visit EXCEPT ![what] = @ - 1]
Silent == answers' = {} /\ UNCHANGED request

-----------------------------------------------------------------------------
(* What is published, and what a page shows *)

\* Lookup: the page of the file hides the managed one.
Published ==
    LET page == IF snapshot.page # Unset THEN snapshot.page ELSE snapshot.managed IN
    IF snapshot.served /\ page # Unset /\ page.enabled
    THEN [page |-> page, revision |-> snapshot.revision, generation |-> snapshot.generation, limit |-> snapshot.limit]
    ELSE Unset

\* The place of an endpoint: the featured ones come first, in their order, then the others in theirs.
Featured(page) == {page.featured[i] : i \in DOMAIN page.featured}
Place(page, e) ==
    IF e \in Featured(page) THEN CHOOSE i \in DOMAIN page.featured : page.featured[i] = e ELSE Len(page.featured) + e

\* Select: those that exist, at most limit of them
Shows(page) == existing \cap (page.selected \cup Featured(page))
Selected(page, limit) ==
    {e \in Shows(page) : Cardinality({d \in Shows(page) : Place(page, d) < Place(page, e)}) < limit}

\* Mutants: the revision, or the last result, is not part of the key
KeyOfGeneration(published, wants) == <<published.generation, wants, IF wants = WholePage THEN 0 ELSE sequences[wants]>>
KeyOfRevision(published, wants) == <<published.revision, published.generation, wants>>
CacheKey(published, wants) ==
    <<published.revision, published.generation, wants, IF wants = WholePage THEN 0 ELSE sequences[wants]>>

Cached(key) == key \in DOMAIN payloads /\ clock < payloads[key].expires

-----------------------------------------------------------------------------
(* The login of a page *)

\* The failures within the window
Recent == Cardinality({i \in DOMAIN refusals : refusals[i] > clock - FailureWindow})

In(r, stage) == request[r].stage = stage
GoTo(r, stage) == request' = [request EXCEPT ![r].stage = stage] /\ answers' = {}
AnswerTo(r, asOf, status, payload) ==
    [credential |-> request[r].credential, published |-> request[r].published, wants |-> request[r].wants, asOf |-> asOf,
     status |-> status, payload |-> payload, recent |-> Recent]
Answer(r, asOf, status, payload) ==
    answers' = {AnswerTo(r, asOf, status, payload)} /\ request' = [request EXCEPT ![r] = NoRequest]
StatusOfPayload(payload) == IF payload = Unavailable THEN 503 ELSE 200

\* Mutant: a verification is that of a credential, whatever the page asks for
VerificationOfCredential(r) == <<request[r].credential>>
VerificationKey(r) == <<request[r].credential, request[r].published.page.login>>

\* Mutant: a failure renews the window
FailureRenewing(time) == [count |-> IF time < tally.expires THEN tally.count + 1 ELSE 1, expires |-> time + FailureWindow]
Failure(time) ==
    IF time < tally.expires THEN [tally EXCEPT !.count = @ + 1] ELSE [count |-> 1, expires |-> time + FailureWindow]
Refuse(r, time) ==
    /\ tally' = Failure(time) /\ refusals' = Append(refusals, clock)
    /\ Answer(r, Unset, 401, Unset)

\* The middleware looks the page up once, and the route that answers uses what it captured.
Ask(r, wants, credential) ==
    /\ In(r, "idle") /\ Spend("requests") /\ Published # Unset
    /\ request' = [request EXCEPT ![r] = [NoRequest EXCEPT
           !.stage = IF Published.page.login = Unset THEN "find" ELSE "verify",
           !.wants = wants, !.credential = credential, !.published = Published]]
    /\ answers' = {}
    /\ UNCHANGED <<pageVars, cacheVars, loginVars, endpointVars, clock>>

\* VerifyPageCredential, until it has to compare the credential with that of the page; the time is that of its call.
Verify(r) ==
    /\ In(r, "verify")
    /\ IF tally.count >= MaximumFailures /\ clock < tally.expires
       THEN Answer(r, Unset, 429, Unset) /\ UNCHANGED <<tally, refusals>>
       ELSE IF request[r].credential = Unset THEN Refuse(r, clock)
       ELSE /\ IF VerificationKey(r) \in DOMAIN verified /\ clock < verified[VerificationKey(r)]
               THEN GoTo(r, "find")
               ELSE request' = [request EXCEPT ![r].stage = "queued", ![r].time = clock] /\ answers' = {}
            /\ UNCHANGED <<tally, refusals>>
    /\ UNCHANGED <<pageVars, cacheVars, verified, endpointVars, clock, visit>>

BeginCheck(r) ==
    /\ In(r, "queued") /\ Cardinality({q \in Requests : In(q, "checking")}) < MaximumChecks
    /\ GoTo(r, "checking")
    /\ UNCHANGED <<pageVars, cacheVars, loginVars, endpointVars, clock, visit>>

EndCheck(r) ==
    /\ In(r, "checking")
    /\ IF request[r].credential = request[r].published.page.login
       THEN /\ verified' = With(verified, VerificationKey(r), request[r].time + VerificationTTL)
            /\ GoTo(r, "find") /\ UNCHANGED <<tally, refusals>>
       ELSE Refuse(r, request[r].time) /\ UNCHANGED verified
    /\ UNCHANGED <<pageVars, cacheVars, endpointVars, clock, visit>>

-----------------------------------------------------------------------------
(* The payload *)

\* What is published of an endpoint
Told(e) == IF e \in unpublished THEN [recorded[e] EXCEPT !.count = @ - 1] ELSE recorded[e]

\* PublicPageOf and PublicEndpointDetailsOf, with their first look into the cache
FindPayload(r) ==
    /\ In(r, "find")
    /\ LET wants == request[r].wants
           published == request[r].published
           key == CacheKey(published, wants)
           asOf == IF wants = WholePage THEN Unset ELSE Told(wants)
       IN  IF wants # WholePage /\ wants \notin Selected(published.page, published.limit)
           THEN Answer(r, Unset, 404, Unset)
           ELSE IF Cached(key) THEN Answer(r, asOf, StatusOfPayload(payloads[key].payload), payloads[key].payload)
           ELSE request' = [request EXCEPT ![r].stage = "join", ![r].key = key, ![r].asOf = asOf] /\ answers' = {}
    /\ UNCHANGED <<pageVars, cacheVars, loginVars, endpointVars, clock, visit>>

\* singleflight: a request waits for the one that assembles the same payload, or looks into the cache again and assembles.
Join(r) ==
    /\ In(r, "join")
    /\ LET key == request[r].key IN
       IF key \in flying THEN GoTo(r, "waiting") /\ UNCHANGED flying
       ELSE IF Cached(key)
            THEN Answer(r, request[r].asOf, StatusOfPayload(payloads[key].payload), payloads[key].payload) /\ UNCHANGED flying
       ELSE GoTo(r, "slot") /\ flying' = flying \cup {key}
    /\ UNCHANGED <<pageVars, payloads, loginVars, endpointVars, clock, visit>>

SlotIsFree == Cardinality({q \in Requests : In(q, "assembling") \/ In(q, "assembled")}) < MaximumAssemblies

AcquireSlot(r) ==
    /\ In(r, "slot") /\ SlotIsFree /\ GoTo(r, "assembling")
    /\ UNCHANGED <<pageVars, cacheVars, loginVars, endpointVars, clock, visit>>

\* The requests that wait for the assembly of r are answered with it.
Land(r, payload) ==
    LET sharing == {r} \cup {q \in Requests : In(q, "waiting") /\ request[q].key = request[r].key} IN
    /\ flying' = flying \ {request[r].key}
    /\ request' = [q \in Requests |-> IF q \in sharing THEN NoRequest ELSE request[q]]
    /\ answers' = {AnswerTo(q, request[q].asOf, StatusOfPayload(payload), payload) : q \in sharing}

\* A timeout is not cached.
SlotTimesOut(r) ==
    /\ In(r, "slot") /\ ~SlotIsFree /\ Land(r, Unavailable)
    /\ UNCHANGED <<pageVars, payloads, loginVars, endpointVars, clock, visit>>

\* assemble and assembleEndpointDetails: what is selected and stored at that time
Assemble(r) ==
    /\ In(r, "assembling")
    /\ LET published == request[r].published
           chosen == IF request[r].wants = WholePage THEN Selected(published.page, published.limit) ELSE {request[r].wants}
       IN request' = [request EXCEPT ![r].stage = "assembled",
                                     ![r].payload = [page |-> published.page, data |-> [e \in chosen |-> recorded[e]]]]
    /\ answers' = {}
    /\ UNCHANGED <<pageVars, cacheVars, loginVars, endpointVars, clock, visit>>

CachePayload(r) ==
    /\ In(r, "assembled")
    /\ payloads' = With(payloads, request[r].key, [payload |-> request[r].payload, expires |-> clock + CacheTTL])
    /\ Land(r, request[r].payload)
    /\ UNCHANGED <<pageVars, loginVars, endpointVars, clock, visit>>

AssembleFails(r) ==
    /\ In(r, "assembling") /\ Spend("failures")
    /\ payloads' = With(payloads, request[r].key, [payload |-> Unavailable, expires |-> clock + UnavailableTTL])
    /\ Land(r, Unavailable)
    /\ UNCHANGED <<pageVars, loginVars, endpointVars, clock>>

-----------------------------------------------------------------------------
(* The administration, the reloads and the endpoints *)

\* publish: a new revision, and the payloads of the slug are dropped
PublishManaged(page) ==
    /\ stored' = page
    /\ snapshot' = [snapshot EXCEPT !.managed = page, !.revision = revisions + 1]
    /\ revisions' = revisions + 1 /\ payloads' = Nothing
    /\ Silent /\ UNCHANGED <<generations, flying, loginVars, endpointVars, clock>>

\* Create, Update and SetEnabled: a page is created unless the file has its slug, and changed if it could be listed.
WritePage(page) ==
    /\ Spend("changes")
    /\ IF stored = Unset THEN snapshot.page = Unset ELSE snapshot.managed # Unset
    /\ PublishManaged(page)

DeletePage == Spend("changes") /\ snapshot.managed # Unset /\ PublishManaged(Unset)

Snapshot(installation, managed, revision, generation) ==
    [served |-> installation.served, page |-> installation.page, limit |-> installation.limit,
     managed |-> managed, revision |-> revision, generation |-> generation]

\* Load: when the managed pages cannot be listed, those of the file are published.
ReloadPages(installation, readable) ==
    /\ Spend("loads")
    /\ generations' = generations + 1 /\ revisions' = revisions + 1
    /\ snapshot' = Snapshot(installation, IF readable THEN stored ELSE Unset, revisions + 1, generations + 1)
    /\ payloads' = Nothing /\ verified' = Nothing /\ tally' = NoFailures /\ refusals' = <<>>
    /\ Silent /\ UNCHANGED <<stored, flying, endpointVars, clock>>

StoreResult(e) ==
    /\ e \in existing \ unpublished /\ Spend("results")
    /\ recorded' = [recorded EXCEPT ![e].count = @ + 1] /\ unpublished' = unpublished \cup {e}
    /\ Silent /\ UNCHANGED <<pageVars, cacheVars, loginVars, existing, sequence, sequences, clock>>

\* Mutant: each endpoint counts its own results
NextOfEndpoint(e) == sequences[e] + 1
NextSequence(e) == sequence + 1

Publish(e) ==
    /\ e \in unpublished /\ unpublished' = unpublished \ {e}
    /\ sequence' = sequence + 1 /\ sequences' = [sequences EXCEPT ![e] = NextSequence(e)]
    /\ Silent /\ UNCHANGED <<pageVars, cacheVars, loginVars, existing, recorded, clock, visit>>

\* The endpoint is deleted with its results, and its sequence forgotten.
RemoveEndpoint(e) ==
    /\ e \in existing \ unpublished /\ Spend("changes")
    /\ existing' = existing \ {e}
    /\ recorded' = [recorded EXCEPT ![e] = [life |-> @.life + 1, count |-> 0]] /\ sequences' = [sequences EXCEPT ![e] = 0]
    /\ Silent /\ UNCHANGED <<pageVars, cacheVars, loginVars, unpublished, sequence, clock>>

CreateEndpoint(e) ==
    /\ e \in Endpoints \ existing /\ Spend("changes") /\ existing' = existing \cup {e}
    /\ Silent /\ UNCHANGED <<pageVars, cacheVars, loginVars, recorded, unpublished, sequence, sequences, clock>>

TimePasses ==
    /\ Spend("ticks") /\ clock' = clock + 1
    /\ Silent /\ UNCHANGED <<pageVars, cacheVars, loginVars, endpointVars>>

StatusInit ==
    /\ visit \in Visits /\ stored \in visit.first
    /\ \E installation \in visit.installations : snapshot = Snapshot(installation, stored, 1, 1)
    /\ revisions = 1 /\ generations = 1
    /\ payloads = Nothing /\ flying = {} /\ verified = Nothing /\ tally = NoFailures /\ refusals = <<>>
    /\ request = [r \in Requests |-> NoRequest] /\ answers = {}
    /\ existing = Endpoints /\ recorded = [e \in Endpoints |-> [life |-> 1, count |-> 0]] /\ unpublished = {}
    /\ sequence = 0 /\ sequences = [e \in Endpoints |-> 0]
    /\ clock = 0

StatusNext ==
    \/ \E r \in Requests :
          \/ \E a \in visit.asked : Ask(r, a.wants, a.credential)
          \/ Verify(r) \/ BeginCheck(r) \/ EndCheck(r) \/ FindPayload(r) \/ Join(r)
          \/ AcquireSlot(r) \/ SlotTimesOut(r) \/ Assemble(r) \/ CachePayload(r) \/ AssembleFails(r)
    \/ \E page \in visit.pages : WritePage(page)
    \/ DeletePage
    \/ \E installation \in visit.installations, readable \in BOOLEAN : ReloadPages(installation, readable)
    \/ \E e \in Endpoints : StoreResult(e) \/ Publish(e) \/ RemoveEndpoint(e) \/ CreateEndpoint(e)
    \/ TimePasses

StatusSpec == StatusInit /\ [][StatusNext]_statusVars

-----------------------------------------------------------------------------
(* Properties *)

\* "The route that answers uses exactly the definition that was authorised" (status_page_auth.go:24), whatever is changed,
\* loaded, remembered and assembled for others meanwhile; and the details of an endpoint tell every result that was
\* published before they were asked for, of that endpoint and not of an earlier one with its key.
PayloadsFit ==
    \A a \in answers :
        a.status = 200 =>
            /\ a.payload.page = a.published.page
            /\ a.published.page.login \in {Unset, a.credential}
            /\ Cardinality(DOMAIN a.payload.data) <= a.published.limit
            /\ a.wants # WholePage /\ a.asOf.count > 0 =>
                  LET told == a.payload.data[a.wants] IN
                  told.life > a.asOf.life \/ (told.life = a.asOf.life /\ told.count >= a.asOf.count)

\* A client is only refused for failures of its own within the window, however its requests overlap and how often it is
\* refused: a refusal does not prolong itself.
RefusedForFailures == \A a \in answers : a.status = 429 => a.recent >= MaximumFailures

\* Whoever is let in sees what he was let in for, and whoever is refused had his tries.
AnswersFit == PayloadsFit /\ RefusedForFailures
=============================================================================
