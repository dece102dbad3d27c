----------------------------- MODULE LiveUpdates -----------------------------
(***************************************************************************)
(* The live updates: internal/liveupdates notifies the event streams of    *)
(* internal/api/live_updates.go that a result was stored, and the pages    *)
(* (web/app/src/utils/liveUpdates.js) fetch the endpoint again.            *)
(*                                                                         *)
(* A notification carries no data.  What must not happen is that a page    *)
(* waits on a quiet stream while a result it never fetched was published:  *)
(* the channel of one slot, the sequence taken by Subscribe, the id of the *)
(* events and the reconnections have to agree for that.                    *)
(***************************************************************************)
EXTENDS Naturals, Sequences, FiniteSets

CONSTANTS
    Keys,            \* the keys of the endpoints
    Pages,           \* the pages that watch an endpoint
    Watches,         \* the key a page watches
    IPs, IPOf,       \* the addresses, and the address of the client of a page
    Streams,         \* the requests that can be open at the same time
    MaxStreams,      \* maximumEventStreams
    MaxStreamsPerIP, \* maximumEventStreamsPerIP
    CutsGreeting,    \* whether a connection may be cut between the id of a stream and the event the client missed
    Workloads,       \* bounds of a behaviour, see Workload
    None             \* no page, no stream, no id

\* results: how many are stored. cuts: connections that are cut. crashes: of the process. removable: the keys that may stop
\* existing. requests: the streams that can be open at the same time.
Workload == [results : Nat, cuts : Nat, crashes : Nat, removable : SUBSET Keys, requests : SUBSET Streams]

ASSUME PagesAssumption ==
    /\ Watches \in [Pages -> Keys] /\ IPOf \in [Pages -> IPs] 
    /\ None \notin Pages \cup Streams \cup Nat
ASSUME StreamsAssumption == IsFiniteSet(Streams)
ASSUME LimitsAssumption ==
    /\ MaxStreams \in Nat /\ MaxStreamsPerIP \in Nat /\ CutsGreeting \in BOOLEAN
    /\ Workloads \subseteq Workload

VARIABLES
    phase,       \* open; closed: liveupdates.Close was called; down: the server was shut down too
    known,       \* the keys that exist
    results,     \* how many results were stored, over all the keys
    stored,      \* the last result stored for a key, 0 without one
    announced,   \* the last result of a key that Publish was called for
    storing,     \* the keys whose result is stored and not published yet
    sequence,    \* liveupdates.sequence
    sequences,   \* liveupdates.sequences, 0 for a key that is not in the map
    subscribers, \* liveupdates.subscribers: the streams of every key
    stream,      \* the handlers, each with its subscription, and what is on the way to its client
    total,       \* eventStreamLimiter.total
    perIP,       \* eventStreamLimiter.perIP, 0 for an address that is not in the map
    page,        \* the pages
    workload,    \* the bounds of the behaviour
    cuts, crashes

store == <<known, results, stored, announced, storing>>
updates == <<sequence, sequences, subscribers>>
limiter == <<total, perIP>>
budget == <<workload, cuts, crashes>>
vars == <<phase, store, updates, stream, limiter, page, budget>>

Ids == 0..workload.results
Stages == {"idle", "requested", "subscribed", "accepted", "greeted", "streaming", "woken", "leaving", "releasing"}
Message == [kind : {"id", "result", "error", "end"}, id : Ids]
Stream == [pc : Stages, client : Pages \cup {None}, attached : BOOLEAN, seen : Ids, current : Ids,
           notified : BOOLEAN, open : BOOLEAN, wire : Seq(Message)]
Page == [link : {"hidden", "failed", "connecting", "connected"}, source : Streams \cup {None},
         header : Ids \cup {None}, parameter : Ids, lastEventId : Ids, refresh : BOOLEAN, shown : Ids]

Unused == [pc |-> "idle", client |-> None, attached |-> FALSE, seen |-> 0, current |-> 0,
           notified |-> FALSE, open |-> FALSE, wire |-> <<>>]
NewPage == [link |-> "connecting", source |-> None, header |-> None, parameter |-> 0, lastEventId |-> 0,
            refresh |-> FALSE, shown |-> 0]

TypeOK ==
    /\ phase \in {"open", "closed", "down"}
    /\ known \subseteq Keys /\ storing \subseteq Keys /\ subscribers \subseteq Streams
    /\ results \in Ids /\ stored \in [Keys -> Ids] /\ announced \in [Keys -> Ids]
    /\ sequence \in Ids /\ sequences \in [Keys -> Ids]
    /\ stream \in [Streams -> Stream] /\ page \in [Pages -> Page]
    /\ total \in Nat /\ perIP \in [IPs -> Nat]
    /\ workload \in Workloads /\ cuts \in 0..workload.cuts /\ crashes \in 0..workload.crashes

Init ==
    /\ phase = "open" /\ known = Keys /\ storing = {} /\ subscribers = {}
    /\ results = 0 /\ stored = [k \in Keys |-> 0] /\ announced = stored
    /\ sequence = 0 /\ sequences = [k \in Keys |-> 0]
    /\ stream = [s \in Streams |-> Unused] /\ page = [c \in Pages |-> NewPage]
    /\ total = 0 /\ perIP = [i \in IPs |-> 0]
    /\ workload \in Workloads /\ cuts = 0 /\ crashes = 0

KeyOf(s) == Watches[stream[s].client]

-----------------------------------------------------------------------------
(* The results, stored and published with the lock of the results of the key held. *)

Store(k) ==
    /\ k \in known \ storing /\ results < workload.results
    /\ results' = results + 1
    /\ stored' = [stored EXCEPT ![k] = results + 1]
    /\ storing' = storing \cup {k}
    /\ UNCHANGED <<phase, known, announced, updates, stream, limiter, page, budget>>

\* Mutant of Publish: a channel without a slot, so that only a handler that waits is notified.
PublishToWaiting(k) ==
    /\ k \in storing
    /\ storing' = storing \ {k}
    /\ announced' = [announced EXCEPT ![k] = stored[k]]
    /\ sequence' = sequence + 1
    /\ sequences' = [sequences EXCEPT ![k] = sequence + 1]
    /\ stream' = [s \in Streams |-> IF s \in subscribers /\ KeyOf(s) = k /\ stream[s].pc = "streaming"
                                    THEN [stream[s] EXCEPT !.notified = TRUE] ELSE stream[s]]
    /\ UNCHANGED <<phase, known, results, stored, subscribers, limiter, page, budget>>

\* A subscriber that has a notification it did not read is not notified twice: its channel has one slot.
Publish(k) ==
    /\ k \in storing
    /\ storing' = storing \ {k}
    /\ announced' = [announced EXCEPT ![k] = stored[k]]
    /\ sequence' = sequence + 1
    /\ sequences' = [sequences EXCEPT ![k] = sequence + 1]
    /\ stream' = [s \in Streams |-> IF s \in subscribers /\ KeyOf(s) = k THEN [stream[s] EXCEPT !.notified = TRUE] ELSE stream[s]]
    /\ UNCHANGED <<phase, known, results, stored, subscribers, limiter, page, budget>>

\* The managed endpoint of the key is deleted, or renamed: it was stopped before.
Forget(k) ==
    /\ k \in (known \cap workload.removable) \ storing
    /\ known' = known \ {k}
    /\ stored' = [stored EXCEPT ![k] = 0] /\ announced' = [announced EXCEPT ![k] = 0]
    /\ sequences' = [sequences EXCEPT ![k] = 0]
    /\ UNCHANGED <<phase, results, storing, sequence, subscribers, stream, limiter, page, budget>>

CreateEndpoint(k) ==
    /\ k \notin known
    /\ known' = known \cup {k}
    /\ UNCHANGED <<phase, results, stored, announced, storing, updates, stream, limiter, page, budget>>

-----------------------------------------------------------------------------
(* The cycles of the configuration, and the crashes of the process. *)

\* Mutant of Close: the new subscriptions are refused, the channels of the old ones stay open.
CloseDoor ==
    /\ phase = "open"
    /\ phase' = "closed"
    /\ UNCHANGED <<store, updates, stream, limiter, page, budget>>

Close ==
    /\ phase = "open"
    /\ phase' = "closed"
    /\ stream' = [s \in Streams |-> IF s \in subscribers THEN [stream[s] EXCEPT !.open = FALSE] ELSE stream[s]]
    /\ subscribers' = {}
    /\ UNCHANGED <<store, sequence, sequences, limiter, page, budget>>

\* Shutdown waits for the streams, at most 10 seconds.
Shutdown ==
    /\ phase = "closed"
    /\ phase' = "down"
    /\ UNCHANGED <<store, updates, stream, limiter, page, budget>>

\* The storage of the keys that are not in the new configuration is deleted, ForgetExcept forgets their sequences,
\* then Open accepts subscriptions and the server listens.
Start ==
    /\ phase = "down" /\ storing = {}
    /\ \E existing \in {ks \in SUBSET Keys : Keys \ workload.removable \subseteq ks} :
        LET kept(f) == [k \in Keys |-> IF k \in existing THEN f[k] ELSE 0] IN
        /\ known' = existing
        /\ stored' = kept(stored) /\ announced' = kept(announced)
        /\ sequences' = kept(sequences)
    /\ phase' = "open"
    /\ UNCHANGED <<results, storing, sequence, subscribers, stream, limiter, page, budget>>

\* A new process: the sequences, the streams and the limiter start from nothing, the results are in the storage.
Crash ==
    /\ crashes < workload.crashes
    /\ crashes' = crashes + 1
    /\ phase' = "open" /\ storing' = {}
    /\ sequence' = 0 /\ sequences' = [k \in Keys |-> 0] /\ subscribers' = {}
    /\ stream' = [s \in Streams |-> Unused]
    /\ total' = 0 /\ perIP' = [i \in IPs |-> 0]
    /\ page' = [c \in Pages |-> IF page[c].link = "connected"
                                THEN [page[c] EXCEPT !.link = "connecting", !.source = None] ELSE page[c]]
    /\ UNCHANGED <<known, results, stored, announced, workload, cuts>>

-----------------------------------------------------------------------------
(* The handler of a stream. *)

Holding(s) == stream[s].pc \in {"accepted", "greeted", "streaming", "woken", "leaving", "releasing"}

\* What is written reaches the client as long as it is connected.
Sent(r, messages) == IF r.attached THEN [r EXCEPT !.wire = @ \o messages] ELSE r
Event(id) == [kind |-> "result", id |-> id]
\* The handler returned: what it wrote is on the way, until the client has it or is gone.
Returned(r, kind) ==
    IF r.attached THEN [Unused EXCEPT !.client = r.client, !.attached = TRUE, !.wire = Append(r.wire, [kind |-> kind, id |-> 0])]
    ELSE Unused

\* 404: the key is not known.  503: the live updates are closed.
RefuseRequest(s) ==
    /\ stream[s].pc = "requested" /\ (KeyOf(s) \notin known \/ phase # "open")
    /\ stream' = [stream EXCEPT ![s] = Returned(@, "error")]
    /\ UNCHANGED <<phase, store, updates, limiter, page, budget>>

\* The subscription and the sequence are taken together.
Subscribe(s) ==
    /\ stream[s].pc = "requested" /\ KeyOf(s) \in known /\ phase = "open"
    /\ stream' = [stream EXCEPT ![s] = [@ EXCEPT !.pc = "subscribed", !.open = TRUE, !.current = sequences[KeyOf(s)]]]
    /\ subscribers' = subscribers \cup {s}
    /\ UNCHANGED <<phase, store, sequence, sequences, limiter, page, budget>>

\* Mutant of BelowLimits: one stream too many for an address.
BelowLimitsByOne(ip) == total < MaxStreams /\ perIP[ip] <= MaxStreamsPerIP

BelowLimits(ip) == total < MaxStreams /\ perIP[ip] < MaxStreamsPerIP

Acquire(s) ==
    LET ip == IPOf[stream[s].client] IN
    /\ stream[s].pc = "subscribed" /\ BelowLimits(ip)
    /\ total' = total + 1 /\ perIP' = [perIP EXCEPT ![ip] = @ + 1]
    /\ stream' = [stream EXCEPT ![s].pc = "accepted"]
    /\ UNCHANGED <<phase, store, updates, page, budget>>

\* Mutant of TooMany: the subscription of a refused stream is not cancelled.
TooManySubscribed(s) ==
    /\ stream[s].pc = "subscribed" /\ ~BelowLimits(IPOf[stream[s].client])
    /\ stream' = [stream EXCEPT ![s] = Returned(@, "error")]
    /\ UNCHANGED <<phase, store, updates, limiter, page, budget>>

\* Mutant of TooMany: the deferred function, and its release, also run for a stream that got no slot.
TooManyReleased(s) ==
    /\ stream[s].pc = "subscribed" /\ ~BelowLimits(IPOf[stream[s].client])
    /\ stream' = [stream EXCEPT ![s].pc = "leaving"]
    /\ UNCHANGED <<phase, store, updates, limiter, page, budget>>

\* 429: the subscription is cancelled, no slot was taken.
TooMany(s) ==
    /\ stream[s].pc = "subscribed" /\ ~BelowLimits(IPOf[stream[s].client])
    /\ subscribers' = subscribers \ {s}
    /\ stream' = [stream EXCEPT ![s] = Returned(@, "error")]
    /\ UNCHANGED <<phase, store, sequence, sequences, limiter, page, budget>>

\* Mutant of Greet: the id is the sequence of now, not the one of the subscription.
GreetWithNewer(s) ==
    /\ stream[s].pc = "accepted"
    /\ stream' = [stream EXCEPT ![s] = Sent([@ EXCEPT !.pc = "greeted"], <<[kind |-> "id", id |-> sequences[KeyOf(s)]]>>)]
    /\ UNCHANGED <<phase, store, updates, limiter, page, budget>>

\* The retry delay and the current sequence are flushed first ...
Greet(s) ==
    /\ stream[s].pc = "accepted"
    /\ stream' = [stream EXCEPT ![s] = Sent([@ EXCEPT !.pc = "greeted"], <<[kind |-> "id", id |-> stream[s].current]>>)]
    /\ UNCHANGED <<phase, store, updates, limiter, page, budget>>

Missed(s) == stream[s].seen < stream[s].current

\* ... then the event of the result that the client missed.
CatchUp(s) ==
    /\ stream[s].pc = "greeted"
    /\ stream' = [stream EXCEPT ![s] = Sent([@ EXCEPT !.pc = "streaming"],
                                            IF Missed(s) THEN <<Event(stream[s].current)>> ELSE <<>>)]
    /\ UNCHANGED <<phase, store, updates, limiter, page, budget>>

Notified(s) ==
    /\ stream[s].pc = "streaming" /\ stream[s].notified
    /\ stream' = [stream EXCEPT ![s] = [@ EXCEPT !.pc = "woken", !.notified = FALSE]]
    /\ UNCHANGED <<phase, store, updates, limiter, page, budget>>

WriteResult(s) ==
    /\ stream[s].pc = "woken"
    /\ stream' = [stream EXCEPT ![s] = Sent([@ EXCEPT !.pc = "streaming"], <<Event(sequences[KeyOf(s)])>>)]
    /\ UNCHANGED <<phase, store, updates, limiter, page, budget>>

\* The channel is closed and was read, the maximum duration is reached, or the client left, which the context or a
\* failed write tells.
MayEnd(s) ==
    \/ stream[s].pc = "streaming" /\ ~stream[s].open /\ ~stream[s].notified
    \/ stream[s].pc = "streaming" /\ ~stream[s].attached
    \/ stream[s].pc \in {"accepted", "greeted", "woken"} /\ ~stream[s].attached

Leave(s) ==
    /\ MayEnd(s) \/ stream[s].pc = "streaming"
    /\ stream' = [stream EXCEPT ![s].pc = "leaving"]
    /\ UNCHANGED <<phase, store, updates, limiter, page, budget>>

\* The deferred function: Close may have removed the subscription already.
Cancel(s) ==
    /\ stream[s].pc = "leaving"
    /\ subscribers' = subscribers \ {s}
    /\ stream' = [stream EXCEPT ![s].pc = "releasing"]
    /\ UNCHANGED <<phase, store, sequence, sequences, limiter, page, budget>>

Release(s) ==
    LET ip == IPOf[stream[s].client] IN
    /\ stream[s].pc = "releasing"
    /\ total' = total - 1
    /\ perIP' = [perIP EXCEPT ![ip] = IF @ <= 1 THEN 0 ELSE @ - 1]
    /\ stream' = [stream EXCEPT ![s] = Returned(@, "end")]
    /\ UNCHANGED <<phase, store, updates, page, budget>>

Handle(s) ==
    \/ RefuseRequest(s) \/ Subscribe(s) \/ Acquire(s) \/ TooMany(s) \/ Greet(s) \/ CatchUp(s)
    \/ Notified(s) \/ WriteResult(s) \/ Cancel(s) \/ Release(s)
    \/ MayEnd(s) /\ Leave(s)

-----------------------------------------------------------------------------
(* The page, and the EventSource of the browser. *)

\* The Last-Event-ID header, that the browser knows after the first event, or the lastEventId parameter of the EventSource.
LastEventID(p) == IF p.header # None THEN p.header ELSE p.parameter

\* The stream ended or was cut: the browser connects again by itself, with the same EventSource.
Lost(p) == [p EXCEPT !.link = "connecting", !.source = None]
\* The EventSource was closed: the next one only has the id the page remembered.
Closed(p, link) == [p EXCEPT !.link = link, !.source = None, !.header = None, !.parameter = 0]

Connect(c) ==
    /\ page[c].link = "connecting" /\ phase # "down"
    /\ \E s \in workload.requests :
        /\ stream[s].pc = "idle" /\ ~stream[s].attached
        /\ stream' = [stream EXCEPT ![s] = [Unused EXCEPT !.pc = "requested", !.client = c, !.attached = TRUE,
                                                          !.seen = LastEventID(page[c])]]
        /\ page' = [page EXCEPT ![c] = [@ EXCEPT !.link = "connected", !.source = s]]
    /\ UNCHANGED <<phase, store, updates, limiter, budget>>

\* The proxy answers 502 while the server is down.
Unreachable(c) ==
    /\ page[c].link = "connecting" /\ phase = "down"
    /\ page' = [page EXCEPT ![c] = Closed(@, "failed")]
    /\ UNCHANGED <<phase, store, updates, stream, limiter, budget>>

Wire(c) == IF page[c].link = "connected" THEN stream[page[c].source].wire ELSE <<>>

\* An id alone is no event: the browser remembers it, the listeners of the page are not called.
ReceiveId(c) ==
    /\ Wire(c) # <<>> /\ Head(Wire(c)).kind = "id"
    /\ page' = [page EXCEPT ![c] = [@ EXCEPT !.header = Head(Wire(c)).id]]
    /\ stream' = [stream EXCEPT ![page[c].source].wire = Tail(@)]
    /\ UNCHANGED <<phase, store, updates, limiter, budget>>

ReceiveResult(c) ==
    /\ Wire(c) # <<>> /\ Head(Wire(c)).kind = "result"
    /\ page' = [page EXCEPT ![c] = [@ EXCEPT !.header = Head(Wire(c)).id, !.lastEventId = Head(Wire(c)).id, !.refresh = TRUE]]
    /\ stream' = [stream EXCEPT ![page[c].source].wire = Tail(@)]
    /\ UNCHANGED <<phase, store, updates, limiter, budget>>

\* The answer ends: the browser connects again after a stream, an error closes the EventSource for good.
ReceiveEnd(c) ==
    /\ Wire(c) # <<>> /\ Head(Wire(c)).kind \in {"error", "end"}
    /\ page' = [page EXCEPT ![c] = IF Head(Wire(c)).kind = "end" THEN Lost(@) ELSE Closed(@, "failed")]
    /\ stream' = [stream EXCEPT ![page[c].source] = Unused]
    /\ UNCHANGED <<phase, store, updates, limiter, budget>>

\* The timer of scheduleResult: onResult fetches the endpoint, what is stored now.  The fetch is assumed to succeed: one
\* that fails is not repeated, the page waits for the next event.
Refresh(c) ==
    /\ page[c].refresh
    /\ page' = [page EXCEPT ![c] = [@ EXCEPT !.refresh = FALSE, !.shown = stored[Watches[c]]]]
    /\ UNCHANGED <<phase, store, updates, stream, limiter, budget>>

\* Nothing that was on the way arrives.
Detached(r) == IF r.pc = "idle" THEN Unused ELSE [r EXCEPT !.attached = FALSE, !.wire = <<>>]

\* The client received the id of the stream and not the event of the result it missed.
BetweenIdAndEvent(c) ==
    LET s == page[c].source IN
    \/ stream[s].pc = "greeted" /\ stream[s].wire = <<>> /\ Missed(s)
    \/ stream[s].wire # <<>> /\ Head(stream[s].wire) = [kind |-> "result", id |-> page[c].header]

Cut(c) ==
    /\ page[c].link = "connected" /\ cuts < workload.cuts
    /\ CutsGreeting \/ ~BetweenIdAndEvent(c)
    /\ cuts' = cuts + 1
    /\ page' = [page EXCEPT ![c] = Lost(@)]
    /\ stream' = [stream EXCEPT ![page[c].source] = Detached(@)]
    /\ UNCHANGED <<phase, store, updates, limiter, workload, crashes>>

\* The tab is hidden: the EventSource is closed and the refresh is not done.
Hide(c) ==
    /\ page[c].link # "hidden"
    /\ page' = [page EXCEPT ![c] = [Closed(@, "hidden") EXCEPT !.refresh = FALSE]]
    /\ stream' = IF page[c].link = "connected" THEN [stream EXCEPT ![page[c].source] = Detached(@)] ELSE stream
    /\ UNCHANGED <<phase, store, updates, limiter, budget>>

Reopened(p) == [p EXCEPT !.link = "connecting", !.parameter = p.lastEventId]

\* The tab is shown: a new EventSource, and one refresh.
Show(c) ==
    /\ page[c].link = "hidden"
    /\ page' = [page EXCEPT ![c] = [Reopened(@) EXCEPT !.refresh = TRUE]]
    /\ UNCHANGED <<phase, store, updates, stream, limiter, budget>>

\* The timer of an EventSource closed by an error.
Reopen(c) ==
    /\ page[c].link = "failed"
    /\ page' = [page EXCEPT ![c] = Reopened(@)]
    /\ UNCHANGED <<phase, store, updates, stream, limiter, budget>>

Receive(c) == ReceiveId(c) \/ ReceiveResult(c) \/ ReceiveEnd(c)
Browse(c) == Connect(c) \/ Unreachable(c) \/ Receive(c) \/ Refresh(c)

-----------------------------------------------------------------------------
Next ==
    \/ \E k \in Keys : Store(k) \/ Publish(k) \/ Forget(k) \/ CreateEndpoint(k)
    \/ Close \/ Shutdown \/ Start \/ Crash
    \/ \E s \in Streams : Handle(s) \/ Leave(s)
    \/ \E c \in Pages : Browse(c) \/ Cut(c) \/ Hide(c) \/ Show(c) \/ Reopen(c)

Spec == Init /\ [][Next]_vars

\* A handler runs until it waits, a result that is stored is published, and the browser does its part.
Fairness ==
    /\ \A k \in Keys : WF_vars(Publish(k))
    /\ \A s \in Streams : WF_vars(Handle(s))
    /\ \A c \in Pages : WF_vars(Connect(c) \/ Unreachable(c)) /\ WF_vars(Receive(c)) /\ WF_vars(Refresh(c))

FairSpec == Spec /\ Fairness

-----------------------------------------------------------------------------
(* A page whose stream is quiet: the handler waits, nothing is on the way and no refresh is due. *)
Quiet(c) ==
    /\ page[c].link = "connected" /\ ~page[c].refresh
    /\ LET s == page[c].source IN
        /\ stream[s].pc = "streaming" /\ stream[s].open /\ ~stream[s].notified /\ stream[s].wire = <<>>

Behind(c) == page[c].shown < announced[Watches[c]]

(* "sends at once an event result when the client missed one, then an event result per new result": a page never waits
   on a quiet stream while a published result was not fetched, whatever reconnections, notifications that were merged,
   reloads, deletions and tabs hidden there were before.  Within the life of a process: the sequences of the next one
   start from 0, and a page that connects again is not told of what it missed.  Two cases are left out, in which the code does
   lose a result.  A connection cut between the id (live_updates.go:257) and the event of the result missed (:260): the
   client presents that id when it connects again and is told of nothing, which CutsGreeting = FALSE excludes.  And a
   fetch of the page that fails: Refresh assumes that it succeeds. *)
NothingMissed == crashes = 0 => \A c \in Pages : Quiet(c) => ~Behind(c)

(* Publish sends on, and Close closes, the channels of the subscribers only: none of them is closed already, and each
   belongs to a handler that will cancel it.  A send on a closed channel, or a second close, would panic. *)
SubscriptionsAreLive ==
    \A s \in subscribers : stream[s].open /\ (Holding(s) \/ stream[s].pc = "subscribed") /\ stream[s].pc # "releasing"

Holders == {s \in Streams : Holding(s)}
HoldersOf(i) == {s \in Holders : IPOf[stream[s].client] = i}

(* The slots taken are those of the handlers that release them, in total and for each address: a refused stream takes
   none, and none leaks when the client leaves in the middle, or is released twice. *)
SlotsMatchStreams ==
    /\ total = Cardinality(Holders) /\ \A i \in IPs : perIP[i] = Cardinality(HoldersOf(i))
    /\ total <= MaxStreams /\ \A i \in IPs : perIP[i] <= MaxStreamsPerIP

(* The types, the subscriptions and the slots *)
Consistent == TypeOK /\ SubscriptionsAreLive /\ SlotsMatchStreams

(* A page that is behind fetches the result at last, unless its tab is hidden, its channel is refused, or a new process
   forgets the sequences.  As for NothingMissed, fetches succeed and no connection is cut in its greeting. *)
CatchesUp == \A c \in Pages : Behind(c) /\ crashes = 0 ~> (~Behind(c) \/ page[c].link \in {"hidden", "failed"} \/ crashes > 0)

(* "The event streams must be closed before it, otherwise it waits for them": once the live updates are closed, every
   stream that is open ends, so that the shutdown of the server does not wait for it. *)
DrainsAtLast == \A s \in Streams : phase # "open" /\ Holding(s) ~> (phase = "open" \/ ~Holding(s))

(* The pages get on: they catch up with what they missed, and let the process stop (writeEndpointEvents, and Close in liveupdates.go). *)
PagesGetOn == CatchesUp /\ DrainsAtLast
=============================================================================
