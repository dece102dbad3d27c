-------------------------- MODULE LiveUpdatesProofs --------------------------
(***************************************************************************)
(* For any number of pages, streams, endpoints, results, crashes and       *)
(* reloads: the subscriptions and the slots taken are those of the         *)
(* handlers that run, and a page that listens is told of what was stored.  *)
(***************************************************************************)
EXTENDS LiveUpdates, TLAPS, FiniteSetTheorems, SequenceTheorems

(* Pages and streams know each other, and the subscriptions are those of the handlers. *)
Subscribed == {"subscribed", "accepted", "greeted", "streaming", "woken", "leaving"}

PagesLinked ==
    \A c \in Pages : page[c].link = "connected" =>
        page[c].source \in Streams /\ stream[page[c].source].attached /\ stream[page[c].source].client = c
StreamsLinked ==
    \A s \in Streams : stream[s].attached =>
        stream[s].client \in Pages /\ page[stream[s].client].link = "connected" /\ page[stream[s].client].source = s
ClientsKnown == \A s \in Streams : stream[s].pc # "idle" => stream[s].client \in Pages
SubscribersAre ==
    /\ subscribers \subseteq Streams
    /\ \A s \in Streams : s \in subscribers <=> stream[s].open /\ stream[s].pc \in Subscribed
    /\ phase # "open" => subscribers = {}

\* An id is given to a result that was stored, once.
Counted ==
    /\ IsFiniteSet(storing) /\ sequence + Cardinality(storing) <= results
    /\ \A k \in Keys : announced[k] <= stored[k] /\ stored[k] <= results

\* What ends an answer is written when the handler returns.
Ended == \A s \in Streams : \A i \in 1..Len(stream[s].wire) : stream[s].wire[i].kind \in {"error", "end"} => stream[s].pc = "idle"

Links == PagesLinked /\ StreamsLinked /\ ClientsKnown /\ Ended
StateInv == TypeOK /\ Links /\ SubscribersAre /\ SlotsMatchStreams /\ Counted

-----------------------------------------------------------------------------
(* Types *)

\* The bounds of a workload are numbers.
LEMMA Bounded ==
    ASSUME TypeOK
    PROVE  /\ workload.results \in Nat /\ workload.cuts \in Nat /\ workload.crashes \in Nat
           /\ workload.removable \subseteq Keys /\ workload.requests \subseteq Streams
           /\ Ids \subseteq Nat /\ 0 \in Ids
  BY LimitsAssumption DEF TypeOK, Workload, Ids

\* Nothing on the way is a sequence of messages.
LEMMA EmptyWire == <<>> \in Seq(Message)
  OBVIOUS

\* A place that no request uses has the type of a handler.
LEMMA UnusedIsStream == TypeOK => Unused \in Stream
  BY Bounded, EmptyWire DEF Unused, Stream, Stages

\* The fields that the steps of a handler, Publish and Close set keep its type ...
LEMMA ChangedIsStream ==
    ASSUME NEW r \in Stream, NEW stage \in Stages, NEW id \in Ids
    PROVE  /\ [r EXCEPT !.pc = stage] \in Stream
           /\ [r EXCEPT !.pc = stage, !.open = TRUE, !.current = id] \in Stream
           /\ [r EXCEPT !.pc = stage, !.notified = FALSE] \in Stream
           /\ [r EXCEPT !.notified = TRUE] \in Stream /\ [r EXCEPT !.open = FALSE] \in Stream
           /\ \A messages \in Seq(Message) : [r EXCEPT !.wire = messages] \in Stream
  BY DEF Stream

\* ... and so do the messages that it writes ...
LEMMA SentIsStream ==
    ASSUME NEW r \in Stream, NEW messages \in Seq(Message)
    PROVE  Sent(r, messages) \in Stream
<1>1. r.wire \o messages \in Seq(Message)
  BY DEF Stream
<1> QED
  BY <1>1 DEF Sent, Stream

\* ... its return ...
LEMMA ReturnedIsStream ==
    ASSUME TypeOK, NEW r \in Stream, NEW kind \in {"error", "end"}
    PROVE  Returned(r, kind) \in Stream
<1>1. [kind |-> kind, id |-> 0] \in Message
  BY Bounded DEF Message
<1>2. Append(r.wire, [kind |-> kind, id |-> 0]) \in Seq(Message)
  BY <1>1 DEF Stream
<1> QED
  BY <1>2, UnusedIsStream DEF Returned, Stream, Unused, Stages

\* ... and the loss of its client.
LEMMA DetachedIsStream ==
    ASSUME TypeOK, NEW r \in Stream
    PROVE  Detached(r) \in Stream
  BY UnusedIsStream, EmptyWire DEF Detached, Stream

\* The types depend on the workload, which no step changes.
LEMMA SameTypes ==
    ASSUME UNCHANGED workload
    PROVE  Ids' = Ids /\ Message' = Message /\ Stream' = Stream /\ Page' = Page
<1>1. Ids' = Ids
  BY DEF Ids
<1>2. Message' = Message
  BY <1>1 DEF Message
<1> QED
  BY <1>1, <1>2 DEF Stream, Page

\* A step that changes nothing but handlers and pages keeps the types if what they become has its type.
LEMMA OthersKeepTypes ==
    ASSUME TypeOK, UNCHANGED <<phase, store, updates, limiter, workload, crashes>>, cuts' \in 0..workload.cuts,
           stream' \in [Streams -> Stream], page' \in [Pages -> Page]
    PROVE  TypeOK'
  BY SameTypes DEF TypeOK, store, updates, limiter

\* A step of one handler keeps the types if it leaves everything else alone ...
LEMMA HandlerKeepsTypes ==
    ASSUME TypeOK, UNCHANGED <<phase, store, updates, limiter, page, budget>>,
           NEW s \in Streams, NEW r \in Stream, stream' = [stream EXCEPT ![s] = r]
    PROVE  TypeOK'
<1>1. stream' \in [Streams -> Stream]
  BY DEF TypeOK
<1> QED
  BY <1>1, OthersKeepTypes DEF TypeOK, budget

\* ... and so does a step of a page.
LEMMA PageKeepsTypes ==
    ASSUME TypeOK, UNCHANGED <<phase, store, updates, limiter, budget>>,
           NEW c \in Pages, NEW p \in Page, page' = [page EXCEPT ![c] = p],
           stream' \in [Streams -> Stream]
    PROVE  TypeOK'
<1>1. page' \in [Pages -> Page]
  BY DEF TypeOK
<1> QED
  BY <1>1, OthersKeepTypes DEF TypeOK, budget

\* What a publication adds to the sequence, a result that is stored and not published had room for.
LEMMA RoomToPublish ==
    ASSUME TypeOK, Counted, NEW k \in storing
    PROVE  sequence + 1 \in Ids
<1>1. Cardinality(storing) \in Nat /\ Cardinality(storing) # 0
  BY FS_CardinalityType, FS_EmptySet DEF Counted
<1> QED
  BY <1>1, Bounded DEF Counted, TypeOK, Ids

\* The steps of the executions keep the types: SaveResult, Publish, Forget and the creation of an endpoint.
LEMMA StoringTypes ==
    ASSUME StateInv, NEW k \in Keys, Store(k) \/ Publish(k) \/ Forget(k) \/ CreateEndpoint(k)
    PROVE  TypeOK'
<1> USE DEF StateInv
<1>1. CASE Store(k)
  <2>1. results + 1 \in Ids
    BY <1>1, Bounded DEF Store, TypeOK, Ids
  <2> QED
    BY SameTypes, <1>1, <2>1 DEF Store, TypeOK, updates, limiter, budget
<1>2. CASE Publish(k)
  <2>1. sequence + 1 \in Ids
    BY <1>2, RoomToPublish DEF Publish
  <2>2. \A s \in Streams : [stream[s] EXCEPT !.notified = TRUE] \in Stream
    BY DEF TypeOK, Stream
  <2>3. stream' \in [Streams -> Stream]
    BY <1>2, <2>2 DEF Publish, TypeOK
  <2> QED
    BY SameTypes, <1>2, <2>1, <2>3 DEF Publish, TypeOK, limiter, budget
<1>3. CASE Forget(k)
  BY SameTypes, <1>3, Bounded DEF Forget, TypeOK, limiter, budget
<1>4. CASE CreateEndpoint(k)
  BY SameTypes, <1>4 DEF CreateEndpoint, TypeOK, updates, limiter, budget
<1> QED
  BY <1>1, <1>2, <1>3, <1>4

\* The steps of the life of the process keep the types.
LEMMA CycleTypes ==
    ASSUME StateInv, Close \/ Shutdown \/ Start \/ Crash
    PROVE  TypeOK'
<1> USE DEF StateInv
<1>1. CASE Close
  <2>1. \A s \in Streams : [stream[s] EXCEPT !.open = FALSE] \in Stream
    BY DEF TypeOK, Stream
  <2>2. stream' \in [Streams -> Stream]
    BY <1>1, <2>1 DEF Close, TypeOK
  <2> QED
    BY SameTypes, <1>1, <2>2 DEF Close, TypeOK, store, limiter, budget
<1>2. CASE Shutdown
  BY SameTypes, <1>2 DEF Shutdown, TypeOK, store, updates, limiter, budget
<1>3. CASE Start
  BY SameTypes, <1>3, Bounded DEF Start, TypeOK, limiter, budget
<1>4. CASE Crash
  <2>1. stream' \in [Streams -> Stream]
    BY <1>4, UnusedIsStream DEF Crash
  <2>2. \A c \in Pages : [page[c] EXCEPT !.link = "connecting", !.source = None] \in Page
    BY DEF TypeOK, Page
  <2>3. page' \in [Pages -> Page]
    BY <1>4, <2>2 DEF Crash, TypeOK
  <2>4. crashes + 1 \in 0..workload.crashes
    <3>1. crashes \in 0..workload.crashes /\ crashes < workload.crashes
      BY <1>4 DEF Crash, TypeOK
    <3> QED
      BY <3>1, Bounded
  <2>5. UNCHANGED <<known, results, stored, announced, workload, cuts>> /\ crashes' \in 0..workload.crashes
    BY <1>4, <2>4 DEF Crash
  <2>6. /\ phase' \in {"open", "closed", "down"} /\ storing' \subseteq Keys /\ subscribers' \subseteq Streams
        /\ sequence' \in Ids /\ sequences' \in [Keys -> Ids] /\ total' \in Nat /\ perIP' \in [IPs -> Nat]
    BY <1>4, Bounded DEF Crash
  <2> QED
    BY SameTypes, <2>1, <2>3, <2>5, <2>6 DEF TypeOK
<1> QED
  BY <1>1, <1>2, <1>3, <1>4

\* There are finitely many slots taken.
LEMMA HoldersAreFinite ==
    IsFiniteSet(Holders) /\ \A i : IsFiniteSet(HoldersOf(i))
<1>1. \A S \in SUBSET Streams : IsFiniteSet(S)
  BY StreamsAssumption, FS_Subset
<1> QED
  BY <1>1 DEF Holders, HoldersOf

\* A handler that holds a slot is counted.
LEMMA SlotTaken ==
    ASSUME SlotsMatchStreams, NEW s \in Streams, Holding(s)
    PROVE  total # 0
<1>1. Holders # {}
  BY DEF Holders
<1> QED
  BY <1>1, HoldersAreFinite, FS_EmptySet DEF SlotsMatchStreams

\* The steps of writeEndpointEvents and of its limiter keep the types.
LEMMA HandlerTypes ==
    ASSUME StateInv, NEW s \in Streams, Handle(s) \/ Leave(s)
    PROVE  TypeOK'
<1> USE DEF StateInv
<1>1. stream[s] \in Stream /\ \A stage \in Stages : [stream[s] EXCEPT !.pc = stage] \in Stream
  BY Bounded, ChangedIsStream DEF TypeOK
<1>2. ASSUME NEW r \in Stream, NEW m \in Message PROVE Sent(r, <<m>>) \in Stream
  <2>1. <<m>> \in Seq(Message)
    OBVIOUS
  <2> QED
    BY <2>1, SentIsStream
<1>3. CASE RefuseRequest(s)
  <2>1. Returned(stream[s], "error") \in Stream
    BY <1>1, ReturnedIsStream
  <2> QED
    BY <1>3, <2>1, HandlerKeepsTypes DEF RefuseRequest
<1>4. CASE Subscribe(s)
  <2> DEFINE r == [stream[s] EXCEPT !.pc = "subscribed", !.open = TRUE, !.current = sequences[KeyOf(s)]]
  <2>1. KeyOf(s) \in Keys
    BY <1>4, PagesAssumption DEF Subscribe, Links, ClientsKnown, KeyOf
  <2>4. sequences[KeyOf(s)] \in Ids
    BY <2>1 DEF TypeOK
  <2>3. r \in Stream
    BY <1>1, <2>4, ChangedIsStream DEF Stages
  <2>2. stream' = [stream EXCEPT ![s] = r]
    BY <1>4 DEF Subscribe
  <2> QED
    BY SameTypes, <1>4, <2>3, <2>2 DEF Subscribe, TypeOK, store, limiter, budget
<1>5. CASE Acquire(s)
  <2>1. stream' = [stream EXCEPT ![s] = [stream[s] EXCEPT !.pc = "accepted"]]
    BY <1>5 DEF Acquire, TypeOK
  <2>2. IPOf[stream[s].client] \in IPs
    BY <1>5, PagesAssumption DEF Links, ClientsKnown, Acquire
  <2>3. [stream[s] EXCEPT !.pc = "accepted"] \in Stream
    BY <1>1 DEF Stages
  <2> QED
    BY SameTypes, <1>5, <2>1, <2>2, <2>3 DEF Acquire, TypeOK, store, updates, budget
<1>6. CASE TooMany(s)
  <2>1. Returned(stream[s], "error") \in Stream
    BY <1>1, ReturnedIsStream
  <2> QED
    BY SameTypes, <1>6, <2>1 DEF TooMany, TypeOK, store, limiter, budget
<1>7. CASE Greet(s)
  <2>1. [kind |-> "id", id |-> stream[s].current] \in Message
    BY <1>1 DEF Stream, Message
  <2>2. [stream[s] EXCEPT !.pc = "greeted"] \in Stream
    BY <1>1 DEF Stages
  <2> QED
    BY <1>7, <1>2, <2>1, <2>2, HandlerKeepsTypes DEF Greet
<1>8. CASE CatchUp(s)
  <2>1. Event(stream[s].current) \in Message
    BY <1>1 DEF Stream, Message, Event
  <2>2. [stream[s] EXCEPT !.pc = "streaming"] \in Stream
    BY <1>1 DEF Stages
  <2>3. Sent([stream[s] EXCEPT !.pc = "streaming"], <<>>) \in Stream
    BY <2>2, EmptyWire, SentIsStream
  <2> QED
    BY <1>8, <1>2, <2>1, <2>2, <2>3, HandlerKeepsTypes DEF CatchUp
<1>9. CASE Notified(s)
  <2> DEFINE r == [stream[s] EXCEPT !.pc = "woken", !.notified = FALSE]
  <2>1. r \in Stream
    BY <1>1, Bounded, ChangedIsStream DEF Stages
  <2>2. stream' = [stream EXCEPT ![s] = r]
    BY <1>9 DEF Notified
  <2> QED
    BY <1>9, <2>1, <2>2, HandlerKeepsTypes DEF Notified
<1>10. CASE WriteResult(s)
  <2>1. KeyOf(s) \in Keys
    BY <1>10, PagesAssumption DEF WriteResult, Links, ClientsKnown, KeyOf
  <2>2. Event(sequences[KeyOf(s)]) \in Message
    BY <2>1 DEF TypeOK, Message, Event
  <2>3. [stream[s] EXCEPT !.pc = "streaming"] \in Stream
    BY <1>1 DEF Stages
  <2> QED
    BY <1>10, <1>2, <2>2, <2>3, HandlerKeepsTypes DEF WriteResult
<1>11. CASE Leave(s)
  <2>1. stream' = [stream EXCEPT ![s] = [stream[s] EXCEPT !.pc = "leaving"]]
    BY <1>11 DEF Leave, TypeOK
  <2> QED
    BY <1>1, <1>11, <2>1, HandlerKeepsTypes DEF Leave, Stages
<1>12. CASE Cancel(s)
  <2>1. stream' = [stream EXCEPT ![s] = [stream[s] EXCEPT !.pc = "releasing"]]
    BY <1>12 DEF Cancel, TypeOK
  <2>2. [stream[s] EXCEPT !.pc = "releasing"] \in Stream
    BY <1>1 DEF Stages
  <2> QED
    BY SameTypes, <1>12, <2>1, <2>2 DEF Cancel, TypeOK, store, limiter, budget
<1>13. CASE Release(s)
  <2>1. Returned(stream[s], "end") \in Stream
    BY <1>1, ReturnedIsStream
  <2>2. total - 1 \in Nat
    BY <1>13, SlotTaken DEF Release, Holding, TypeOK
  <2>3. perIP' \in [IPs -> Nat]
    <3> DEFINE ip == IPOf[stream[s].client]
               left == IF perIP[ip] <= 1 THEN 0 ELSE perIP[ip] - 1
    <3>1. perIP \in [IPs -> Nat] /\ ip \in IPs
      BY <1>13, PagesAssumption DEF TypeOK, Links, ClientsKnown, Release
    <3>2. left \in Nat
      BY <3>1
    <3>3. perIP' = [perIP EXCEPT ![ip] = left]
      BY <1>13 DEF Release
    <3> HIDE DEF ip, left
    <3> QED
      BY <3>1, <3>2, <3>3
  <2>4. stream' = [stream EXCEPT ![s] = Returned(stream[s], "end")] /\ total' = total - 1
        /\ UNCHANGED <<phase, store, updates, page, budget>>
    BY <1>13 DEF Release
  <2> QED
    BY SameTypes, <2>1, <2>2, <2>3, <2>4 DEF TypeOK, store, updates, budget
<1> QED
  BY <1>3, <1>4, <1>5, <1>6, <1>7, <1>8, <1>9, <1>10, <1>11, <1>12, <1>13 DEF Handle

\* What a page reads is what its stream has on the way.
LEMMA WireRead ==
    ASSUME TypeOK, Links, NEW c \in Pages, Wire(c) # <<>>
    PROVE  /\ page[c].link = "connected" /\ page[c].source \in Streams
           /\ stream[page[c].source].attached /\ stream[page[c].source].client = c
           /\ Wire(c) = stream[page[c].source].wire /\ Wire(c) \in Seq(Message)
           /\ Head(Wire(c)) \in Message /\ Tail(Wire(c)) \in Seq(Message)
<1>1. page[c].link = "connected" /\ Wire(c) = stream[page[c].source].wire
  BY DEF Wire
<1>2. page[c].source \in Streams /\ stream[page[c].source].attached /\ stream[page[c].source].client = c
  BY <1>1 DEF Links, PagesLinked
<1>3. stream[page[c].source] \in Stream
  BY <1>2 DEF TypeOK
<1>4. Wire(c) \in Seq(Message)
  BY <1>1, <1>3 DEF Stream
<1> QED
  BY <1>1, <1>2, <1>4

\* The fields that the steps of a page set keep its type.
LEMMA ChangedIsPage ==
    ASSUME TypeOK, NEW p \in Page, NEW link \in {"hidden", "failed", "connecting", "connected"},
           NEW s \in Streams, NEW id \in Ids, NEW b \in BOOLEAN
    PROVE  /\ [p EXCEPT !.link = "connected", !.source = s] \in Page
           /\ [p EXCEPT !.header = id] \in Page
           /\ [p EXCEPT !.header = id, !.lastEventId = id, !.refresh = TRUE] \in Page
           /\ [p EXCEPT !.refresh = b] \in Page
           /\ [p EXCEPT !.refresh = FALSE, !.shown = id] \in Page
           /\ Lost(p) \in Page /\ Closed(p, link) \in Page /\ Reopened(p) \in Page
<1>1. 0 \in Ids
  BY Bounded
<1> QED
  BY <1>1 DEF Page, Lost, Closed, Reopened

\* The steps of a page (useEndpointEvents) keep the types.
LEMMA PageTypes ==
    ASSUME StateInv, NEW c \in Pages, Browse(c) \/ Cut(c) \/ Hide(c) \/ Show(c) \/ Reopen(c)
    PROVE  TypeOK'
<1> DEFINE from == page[c].source
<1>1. TypeOK /\ Links /\ page[c] \in Page /\ stream \in [Streams -> Stream]
  BY DEF StateInv, TypeOK
<1>2. page[c].link = "connected" => from \in Streams /\ stream[from] \in Stream
  BY <1>1 DEF Links, PagesLinked
<1>3. ASSUME NEW s \in Streams, NEW r \in Stream, stream' = [stream EXCEPT ![s] = r] PROVE stream' \in [Streams -> Stream]
  BY <1>1, <1>3
<1>4. CASE Connect(c)
  <2>1. PICK s \in workload.requests :
            /\ stream' = [stream EXCEPT ![s] = [Unused EXCEPT !.pc = "requested", !.client = c, !.attached = TRUE,
                                                              !.seen = LastEventID(page[c])]]
            /\ page' = [page EXCEPT ![c] = [@ EXCEPT !.link = "connected", !.source = s]]
    BY <1>4 DEF Connect
  <2>2. s \in Streams
    BY <1>1, Bounded
  <2>3. LastEventID(page[c]) \in Ids
    BY <1>1 DEF Page, LastEventID
  <2>4. [Unused EXCEPT !.pc = "requested", !.client = c, !.attached = TRUE, !.seen = LastEventID(page[c])] \in Stream
    BY <1>1, <2>3, UnusedIsStream DEF Stream, Stages
  <2>5. [page[c] EXCEPT !.link = "connected", !.source = s] \in Page
    BY <1>1, <2>2, <2>3, ChangedIsPage
  <2> QED
    BY <1>1, <1>3, <1>4, <2>1, <2>2, <2>4, <2>5, PageKeepsTypes DEF Connect
<1>5. CASE Unreachable(c)
  <2>1. Closed(page[c], "failed") \in Page
    BY <1>1, Bounded DEF Page, Closed
  <2> QED
    BY <1>1, <1>5, <2>1, PageKeepsTypes DEF Unreachable
<1>6. CASE Receive(c)
  <2>1. Wire(c) # <<>>
    BY <1>6 DEF Receive, ReceiveId, ReceiveResult, ReceiveEnd
  <2>2. from \in Streams /\ stream[from] \in Stream /\ Head(Wire(c)).id \in Ids /\ Tail(stream[from].wire) \in Seq(Message)
    BY <1>1, <1>2, <2>1, WireRead DEF Message
  <2>3. [stream[from] EXCEPT !.wire = Tail(stream[from].wire)] \in Stream /\ Unused \in Stream
    BY <1>1, <2>2, ChangedIsStream, UnusedIsStream DEF Stages
  <2>4. CASE ReceiveId(c)
    <3>1. [page[c] EXCEPT !.header = Head(Wire(c)).id] \in Page
      BY <1>1, <2>2, ChangedIsPage
    <3>2. stream' = [stream EXCEPT ![from] = [stream[from] EXCEPT !.wire = Tail(stream[from].wire)]]
      BY <2>4 DEF ReceiveId
    <3>3. stream' \in [Streams -> Stream]
      BY <1>1, <2>2, <2>3, <3>2
    <3>4. page' = [page EXCEPT ![c] = [page[c] EXCEPT !.header = Head(Wire(c)).id]] /\ UNCHANGED <<phase, store, updates, limiter, budget>>
      BY <2>4 DEF ReceiveId
    <3> QED
      BY <1>1, <3>1, <3>3, <3>4, PageKeepsTypes
  <2>5. CASE ReceiveResult(c)
    <3>1. [page[c] EXCEPT !.header = Head(Wire(c)).id, !.lastEventId = Head(Wire(c)).id, !.refresh = TRUE] \in Page
      BY <1>1, <2>2, ChangedIsPage
    <3>2. stream' = [stream EXCEPT ![from] = [stream[from] EXCEPT !.wire = Tail(stream[from].wire)]]
      BY <2>5 DEF ReceiveResult
    <3>3. stream' \in [Streams -> Stream]
      BY <1>1, <2>2, <2>3, <3>2
    <3>4. page' = [page EXCEPT ![c] = [page[c] EXCEPT !.header = Head(Wire(c)).id, !.lastEventId = Head(Wire(c)).id,
                                                   !.refresh = TRUE]] /\ UNCHANGED <<phase, store, updates, limiter, budget>>
      BY <2>5 DEF ReceiveResult
    <3> QED
      BY <1>1, <3>1, <3>3, <3>4, PageKeepsTypes
  <2>6. CASE ReceiveEnd(c)
    <3>1. Lost(page[c]) \in Page /\ Closed(page[c], "failed") \in Page
      BY <1>1, <2>2, ChangedIsPage
    <3>2. (IF Head(Wire(c)).kind = "end" THEN Lost(page[c]) ELSE Closed(page[c], "failed")) \in Page
      BY <3>1
    <3> QED
      BY <1>1, <1>3, <2>2, <2>3, <2>6, <3>2, PageKeepsTypes DEF ReceiveEnd
  <2> QED
    BY <1>6, <2>4, <2>5, <2>6 DEF Receive
<1>7. CASE Refresh(c)
  <2>1. [page[c] EXCEPT !.refresh = FALSE, !.shown = stored[Watches[c]]] \in Page
    BY <1>1, PagesAssumption DEF Page, TypeOK
  <2> QED
    BY <1>1, <1>7, <2>1, PageKeepsTypes DEF Refresh
<1>8. CASE Cut(c)
  <2>1. Detached(stream[from]) \in Stream /\ Lost(page[c]) \in Page
    BY <1>1, <1>2, <1>8, DetachedIsStream DEF Cut, Page, Lost
  <2>2. cuts + 1 \in 0..workload.cuts
    BY <1>1, <1>8, Bounded DEF Cut, TypeOK
  <2>3. stream' \in [Streams -> Stream] /\ page' \in [Pages -> Page]
    BY <1>1, <1>2, <1>8, <2>1 DEF Cut, TypeOK
  <2> QED
    BY <1>1, <1>8, <2>2, <2>3, OthersKeepTypes DEF Cut
<1>9. CASE Hide(c)
  <2>1. [Closed(page[c], "hidden") EXCEPT !.refresh = FALSE] \in Page
    BY <1>1, Bounded DEF Page, Closed
  <2>2. stream' \in [Streams -> Stream]
    BY <1>1, <1>2, <1>9, DetachedIsStream DEF Hide
  <2> QED
    BY <1>1, <1>9, <2>1, <2>2, PageKeepsTypes DEF Hide
<1>10. CASE Show(c)
  <2>1. [Reopened(page[c]) EXCEPT !.refresh = TRUE] \in Page
    BY <1>1, Bounded DEF Page, Reopened
  <2> QED
    BY <1>1, <1>10, <2>1, PageKeepsTypes DEF Show
<1>11. CASE Reopen(c)
  <2>1. Reopened(page[c]) \in Page
    BY <1>1, Bounded DEF Page, Reopened
  <2> QED
    BY <1>1, <1>11, <2>1, PageKeepsTypes DEF Reopen
<1> QED
  BY <1>4, <1>5, <1>6, <1>7, <1>8, <1>9, <1>10, <1>11 DEF Browse

-----------------------------------------------------------------------------
(* The pages and their streams *)

\* A handler goes on with the client it has.
Kept(r, o) ==
    /\ r.attached = o.attached /\ (r.attached => r.client = o.client)
    /\ r.pc # "idle" => o.pc # "idle" /\ r.client = o.client

\* It goes on writing, or returns.
Goes(r, o) ==
    /\ Kept(r, o)
    /\ \/ (r.pc = "idle" /\ (o.pc = "idle" => r.wire = o.wire))
       \/ (r.wire = o.wire /\ (o.pc = "idle" => r.pc = "idle"))
       \/ o.pc # "idle" /\ \E m \in Message : m.kind \in {"id", "result"} /\ r.wire = Append(o.wire, m)

\* A step of handlers that go on with their clients keeps the links.
LEMMA KeepsLinks ==
    ASSUME TypeOK, Links, UNCHANGED page, \A s \in Streams : Goes(stream'[s], stream[s])
    PROVE  Links'
<1>1. PagesLinked' /\ StreamsLinked' /\ ClientsKnown'
  BY DEF Links, PagesLinked, StreamsLinked, ClientsKnown, Goes, Kept
<1>2. ASSUME NEW s \in Streams, NEW i \in 1..Len(stream'[s].wire), stream'[s].wire[i].kind \in {"error", "end"}
      PROVE  stream'[s].pc = "idle"
  <2>1. Goes(stream'[s], stream[s]) /\ stream[s].wire \in Seq(Message)
    BY DEF TypeOK, Stream
  <2>2. CASE stream'[s].wire = stream[s].wire /\ (stream[s].pc = "idle" => stream'[s].pc = "idle")
    BY <1>2, <2>2 DEF Links, Ended
  <2>3. ASSUME stream[s].pc # "idle", NEW m \in Message, m.kind \in {"id", "result"}, stream'[s].wire = Append(stream[s].wire, m)
        PROVE  FALSE
    <3>1. i \in 1..Len(stream[s].wire) \/ stream'[s].wire[i] = m
      BY <1>2, <2>1, <2>3
    <3>2. i \in 1..Len(stream[s].wire) => stream'[s].wire[i] = stream[s].wire[i]
      BY <2>1, <2>3
    <3> QED
      BY <1>2, <2>3, <3>1, <3>2 DEF Links, Ended
  <2> QED
    BY <2>1, <2>2, <2>3 DEF Goes
<1>3. Ended'
  BY <1>2 DEF Ended
<1> QED
  BY <1>1, <1>3 DEF Links

\* What a handler writes is such a step.
LEMMA SentGoes ==
    ASSUME NEW r \in Stream, NEW stage \in Stages \ {"idle"}, r.pc # "idle"
    PROVE  /\ Goes(Sent([r EXCEPT !.pc = stage], <<>>), r)
           /\ \A m \in Message : m.kind \in {"id", "result"} => Goes(Sent([r EXCEPT !.pc = stage], <<m>>), r)
<1>1. r.wire \o <<>> = r.wire /\ \A m \in Message : r.wire \o <<m>> = Append(r.wire, m)
  BY DEF Stream
<1>2. Goes(Sent([r EXCEPT !.pc = stage], <<>>), r)
  BY <1>1 DEF Sent, Goes, Kept, Stream
<1>3. ASSUME NEW m \in Message, m.kind \in {"id", "result"} PROVE Goes(Sent([r EXCEPT !.pc = stage], <<m>>), r)
  BY <1>1, <1>3 DEF Sent, Goes, Kept, Stream
<1> QED
  BY <1>2, <1>3

\* What a step of a handler does to it.
LEMMA HandlerSteps ==
    ASSUME TypeOK, Links, NEW s \in Streams, Handle(s) \/ Leave(s)
    PROVE  /\ UNCHANGED <<phase, store, sequence, sequences, page, budget>>
           /\ \A t \in Streams \ {s} : stream'[t] = stream[t]
           /\ Goes(stream'[s], stream[s])
           /\ stream[s].pc # "idle"
<1> DEFINE r == stream[s]
<1>1. r \in Stream /\ stream \in [Streams -> Stream]
  BY DEF TypeOK
<1>2. \A kind \in {"error", "end"} : r.pc # "idle" => Goes(Returned(r, kind), r)
  BY <1>1 DEF Returned, Goes, Kept, Unused, Stream
<1>3. ASSUME NEW stage \in Stages \ {"idle"}, NEW m \in Message, m.kind \in {"id", "result"}, r.pc # "idle"
      PROVE  Goes(Sent([r EXCEPT !.pc = stage], <<m>>), r)
  BY <1>1, <1>3, SentGoes
<1>4. CASE RefuseRequest(s) \/ TooMany(s) \/ Release(s)
  BY <1>1, <1>2, <1>4 DEF RefuseRequest, TooMany, Release, updates
<1>5. CASE Subscribe(s) \/ Acquire(s) \/ Notified(s) \/ Cancel(s) \/ Leave(s)
  <2>1. CASE Subscribe(s)
    BY <1>1, <2>1 DEF Subscribe, updates, Goes, Kept, Stream
  <2>2. CASE Acquire(s)
    BY <1>1, <2>2 DEF Acquire, updates, Goes, Kept, Stream
  <2>3. CASE Notified(s)
    BY <1>1, <2>3 DEF Notified, updates, Goes, Kept, Stream
  <2>4. CASE Cancel(s)
    BY <1>1, <2>4 DEF Cancel, updates, Goes, Kept, Stream
  <2>5. CASE Leave(s)
    BY <1>1, <2>5 DEF Leave, MayEnd, updates, Goes, Kept, Stream
  <2> QED
    BY <1>5, <2>1, <2>2, <2>3, <2>4, <2>5
<1>6. CASE Greet(s)
  <2>1. [kind |-> "id", id |-> r.current] \in Message
    BY <1>1 DEF Message, Stream
  <2> QED
    BY <1>1, <1>3, <1>6, <2>1 DEF Greet, updates, Stages
<1>7. CASE CatchUp(s)
  <2>1. Event(r.current) \in Message /\ Event(r.current).kind = "result"
    BY <1>1 DEF Message, Stream, Event
  <2>2. Goes(Sent([r EXCEPT !.pc = "streaming"], <<>>), r)
    BY <1>1, <1>7, SentGoes DEF CatchUp, Stages
  <2>3. Goes(Sent([r EXCEPT !.pc = "streaming"], <<Event(r.current)>>), r)
    BY <1>3, <1>7, <2>1 DEF CatchUp, Stages
  <2> QED
    BY <1>1, <1>7, <2>2, <2>3 DEF CatchUp, updates
<1>8. CASE WriteResult(s)
  <2>1. KeyOf(s) \in Keys
    BY <1>8, PagesAssumption DEF WriteResult, KeyOf, Links, ClientsKnown
  <2>2. Event(sequences[KeyOf(s)]) \in Message /\ Event(sequences[KeyOf(s)]).kind = "result"
    BY <2>1 DEF TypeOK, Message, Event
  <2>3. Goes(Sent([r EXCEPT !.pc = "streaming"], <<Event(sequences[KeyOf(s)])>>), r)
    BY <1>3, <1>8, <2>2 DEF WriteResult, Stages
  <2> QED
    BY <1>1, <1>8, <2>3 DEF WriteResult, updates
<1> QED
  BY <1>4, <1>5, <1>6, <1>7, <1>8 DEF Handle

\* What a step of a page does to it, and to the stream it is connected with.
Alike(r, o) ==
    /\ r.pc = o.pc /\ r.client = o.client /\ r.attached = o.attached /\ r.open = o.open
    /\ r.seen = o.seen /\ r.current = o.current /\ r.notified = o.notified
    /\ r.wire = o.wire \/ (o.wire # <<>> /\ r.wire = Tail(o.wire))
Stays(c) ==
    /\ page'[c].link = page[c].link /\ page'[c].source = page[c].source
    /\ \A s \in Streams : Alike(stream'[s], stream[s])
    /\ \A s \in Streams : s # page[c].source \/ page[c].link # "connected" => stream'[s] = stream[s]
Leaves(c) ==
    /\ page[c].link = "connected" /\ page'[c].link # "connected"
    /\ \A s \in Streams \ {page[c].source} : stream'[s] = stream[s]
    /\ stream'[page[c].source] = Detached(stream[page[c].source])
Waits(c) ==
    /\ page[c].link # "connected" /\ page'[c].link # "connected"
    /\ UNCHANGED stream
Joins(c) ==
    /\ page[c].link = "connecting" /\ page'[c].link = "connected" /\ page'[c].source \in Streams
    /\ LET s == page'[c].source IN
        /\ stream[s].pc = "idle" /\ ~stream[s].attached
        /\ stream'[s] = [Unused EXCEPT !.pc = "requested", !.client = c, !.attached = TRUE, !.seen = LastEventID(page[c])]
        /\ \A t \in Streams \ {s} : stream'[t] = stream[t]

\* Every step of a page is one of the four.
LEMMA PageSteps ==
    ASSUME TypeOK, Links, NEW c \in Pages, Browse(c) \/ Cut(c) \/ Hide(c) \/ Show(c) \/ Reopen(c)
    PROVE  /\ UNCHANGED <<phase, store, updates, limiter, workload, crashes>>
           /\ \A d \in Pages \ {c} : page'[d] = page[d]
           /\ Stays(c) \/ Leaves(c) \/ Waits(c) \/ Joins(c)
<1> DEFINE from == page[c].source
<1>1. page[c] \in Page /\ page \in [Pages -> Page] /\ stream \in [Streams -> Stream]
  BY DEF TypeOK
<1>2. page[c].link = "connected" => from \in Streams /\ stream[from] \in Stream
  BY <1>1 DEF Links, PagesLinked
<1>3. \A r \in Stream : Alike(r, r)
  BY DEF Alike
<1>4. \A p \in Page : /\ Lost(p).link = "connecting" /\ Reopened(p).link = "connecting"
                      /\ \A l \in {"hidden", "failed"} : Closed(p, l).link = l
  BY DEF Lost, Reopened, Closed, Page
<1>5. CASE Connect(c)
  <2>1. PICK s \in workload.requests :
            /\ stream[s].pc = "idle" /\ ~stream[s].attached
            /\ stream' = [stream EXCEPT ![s] = [Unused EXCEPT !.pc = "requested", !.client = c, !.attached = TRUE,
                                                              !.seen = LastEventID(page[c])]]
            /\ page' = [page EXCEPT ![c] = [@ EXCEPT !.link = "connected", !.source = s]]
    BY <1>5 DEF Connect
  <2>2. s \in Streams
    BY Bounded
  <2>3. page'[c].link = "connected" /\ page'[c].source = s /\ \A d \in Pages \ {c} : page'[d] = page[d]
    BY <1>1, <2>1 DEF Page
  <2>4. Joins(c)
    BY <1>1, <1>5, <2>1, <2>2, <2>3 DEF Joins, Connect
  <2> QED
    BY <1>5, <2>3, <2>4 DEF Connect, budget
<1>6. CASE Unreachable(c) \/ Show(c) \/ Reopen(c)
  <2>1. CASE Unreachable(c)
    BY <1>1, <1>4, <2>1 DEF Waits, Unreachable, budget
  <2>2. CASE Show(c)
    BY <1>1, <1>4, <2>2 DEF Waits, Show, Reopened, Page, budget
  <2>3. CASE Reopen(c)
    BY <1>1, <1>4, <2>3 DEF Waits, Reopen, budget
  <2> QED
    BY <1>6, <2>1, <2>2, <2>3
<1>7. CASE ReceiveId(c) \/ ReceiveResult(c)
  <2>1. from \in Streams /\ stream[from] \in Stream
    BY <1>1, <1>7, WireRead DEF ReceiveId, ReceiveResult
  <2>2. stream' = [stream EXCEPT ![from].wire = Tail(@)]
    BY <1>7 DEF ReceiveId, ReceiveResult
  <2>3. \A s \in Streams : Alike(stream'[s], stream[s])
    <3>1. stream[from].wire # <<>>
      BY <1>7, WireRead DEF ReceiveId, ReceiveResult
    <3>2. ASSUME NEW s \in Streams PROVE stream'[s] = IF s = from THEN [stream[s] EXCEPT !.wire = Tail(stream[s].wire)] ELSE stream[s]
      BY <1>1, <2>1, <2>2
    <3>3. Alike(stream'[from], stream[from])
      BY <2>1, <3>1, <3>2 DEF Alike, Stream
    <3> QED
      BY <1>1, <1>3, <3>2, <3>3
  <2>5. \A s \in Streams \ {from} : stream'[s] = stream[s]
    BY <1>1, <2>1, <2>2
  <2>4. /\ page'[c].link = page[c].link /\ page'[c].source = page[c].source
        /\ \A d \in Pages \ {c} : page'[d] = page[d]
    <3>1. CASE ReceiveId(c)
      BY <1>1, <3>1 DEF ReceiveId, Page
    <3>2. CASE ReceiveResult(c)
      BY <1>1, <3>2 DEF ReceiveResult, Page
    <3> QED
      BY <1>7, <3>1, <3>2
  <2> QED
    BY <1>7, <2>3, <2>4, <2>5, WireRead DEF Stays, ReceiveId, ReceiveResult, budget
<1>8. CASE ReceiveEnd(c)
  <2>1. from \in Streams /\ page[c].link = "connected"
    BY <1>1, <1>8, WireRead DEF ReceiveEnd
  <2>5. Detached(stream[from]) = Unused
    <3>1. Wire(c) # <<>> /\ Wire(c) \in Seq(Message) /\ Wire(c) = stream[from].wire /\ Head(Wire(c)).kind \in {"error", "end"}
      BY <1>8, WireRead DEF ReceiveEnd
    <3>2. 1 \in 1..Len(stream[from].wire) /\ stream[from].wire[1].kind \in {"error", "end"}
      BY <3>1
    <3> QED
      BY <2>1, <3>2 DEF Links, Ended, Detached
  <2>2. page'[c] \in {Lost(page[c]), Closed(page[c], "failed")} /\ \A d \in Pages \ {c} : page'[d] = page[d]
    BY <1>1, <1>8 DEF ReceiveEnd
  <2>3. page'[c].link # "connected"
    BY <1>1, <1>4, <2>2
  <2>4. stream'[from] = Unused /\ \A s \in Streams \ {from} : stream'[s] = stream[s]
    BY <1>1, <1>8, <2>1 DEF ReceiveEnd
  <2> QED
    BY <1>8, <2>1, <2>2, <2>3, <2>4, <2>5 DEF Leaves, ReceiveEnd, budget
<1>9. CASE Refresh(c)
  <2>1. /\ page'[c].link = page[c].link /\ page'[c].source = page[c].source
        /\ \A d \in Pages \ {c} : page'[d] = page[d]
    BY <1>1, <1>9 DEF Refresh, Page
  <2> QED
    BY <1>1, <1>3, <1>9, <2>1 DEF Stays, Refresh, budget
<1>10. CASE Cut(c)
  <2>1. page'[c].link # "connected" /\ \A d \in Pages \ {c} : page'[d] = page[d]
    BY <1>1, <1>4, <1>10 DEF Cut
  <2>2. stream'[from] = Detached(stream[from]) /\ \A s \in Streams \ {from} : stream'[s] = stream[s]
    BY <1>1, <1>2, <1>10 DEF Cut
  <2> QED
    BY <1>10, <2>1, <2>2 DEF Leaves, Cut
<1>11. CASE Hide(c)
  <2>1. page'[c].link # "connected" /\ \A d \in Pages \ {c} : page'[d] = page[d]
    BY <1>1, <1>11 DEF Hide, Page, Closed
  <2>2. CASE page[c].link = "connected"
    <3>1. stream'[from] = Detached(stream[from]) /\ \A s \in Streams \ {from} : stream'[s] = stream[s]
      BY <1>1, <1>2, <1>11, <2>2 DEF Hide
    <3> QED
      BY <1>11, <2>1, <2>2, <3>1 DEF Leaves, Hide, budget
  <2>3. CASE page[c].link # "connected"
    BY <1>11, <2>1, <2>3 DEF Waits, Hide, budget
  <2> QED
    BY <2>2, <2>3
<1> QED
  BY <1>5, <1>6, <1>7, <1>8, <1>9, <1>10, <1>11 DEF Browse, Receive

\* What is still on the way ends as it did.
LEMMA RestEnds ==
    ASSUME NEW q \in Seq(Message), q # <<>>, NEW i \in 1..Len(Tail(q))
    PROVE  i + 1 \in 1..Len(q) /\ Tail(q)[i] = q[i + 1]
  OBVIOUS

\* The steps of a page keep the links.
LEMMA PageLinks ==
    ASSUME TypeOK, Links, NEW c \in Pages, Browse(c) \/ Cut(c) \/ Hide(c) \/ Show(c) \/ Reopen(c)
    PROVE  Links'
<1>1. /\ \A d \in Pages \ {c} : page'[d] = page[d]
      /\ Stays(c) \/ Leaves(c) \/ Waits(c) \/ Joins(c)
  BY PageSteps
<1>2. CASE Stays(c)
  <2>1. PagesLinked' /\ StreamsLinked' /\ ClientsKnown'
    BY <1>1, <1>2 DEF Stays, Alike, Links, PagesLinked, StreamsLinked, ClientsKnown
  <2>2. ASSUME NEW s \in Streams, NEW i \in 1..Len(stream'[s].wire), stream'[s].wire[i].kind \in {"error", "end"}
        PROVE  stream'[s].pc = "idle"
    <3>1. Alike(stream'[s], stream[s]) /\ stream[s].wire \in Seq(Message)
      BY <1>2 DEF Stays, TypeOK, Stream
    <3>2. CASE stream'[s].wire = stream[s].wire
      BY <2>2, <3>1, <3>2 DEF Links, Ended, Alike
    <3>3. CASE stream[s].wire # <<>> /\ stream'[s].wire = Tail(stream[s].wire)
      <4>1. i + 1 \in 1..Len(stream[s].wire) /\ stream[s].wire[i + 1].kind \in {"error", "end"}
        BY <2>2, <3>1, <3>3, RestEnds
      <4> QED
        BY <3>1, <4>1 DEF Links, Ended, Alike
    <3> QED
      BY <3>1, <3>2, <3>3 DEF Alike
  <2> QED
    BY <2>1, <2>2 DEF Links, Ended
<1>3. CASE Waits(c)
  BY <1>1, <1>3 DEF Waits, Links, PagesLinked, StreamsLinked, ClientsKnown, Ended
<1>4. CASE Leaves(c)
  <2> DEFINE from == page[c].source
  <2>1. from \in Streams /\ stream[from].client = c /\ stream[from] \in Stream
    <3>1. page[c].link = "connected"
      BY <1>4 DEF Leaves
    <3>2. from \in Streams /\ stream[from].client = c
      BY <3>1 DEF Links, PagesLinked
    <3> QED
      BY <3>2 DEF TypeOK
  <2>2. ~stream'[from].attached /\ (stream'[from].pc # "idle" => stream'[from].client = c)
    <3>1. stream'[from] = Detached(stream[from])
      BY <1>4 DEF Leaves
    <3>2. stream[from].pc # "idle" => ~Detached(stream[from]).attached /\ Detached(stream[from]).client = c
      BY <2>1 DEF Detached, Stream
    <3>3. stream[from].pc = "idle" => ~Detached(stream[from]).attached /\ Detached(stream[from]).pc = "idle"
      BY DEF Detached, Unused
    <3> QED
      BY <3>1, <3>2, <3>3
  <2>3. PagesLinked'
    BY <1>1, <1>4, <2>1 DEF Leaves, Links, PagesLinked
  <2>4. StreamsLinked'
    <3> SUFFICES ASSUME NEW t \in Streams, stream'[t].attached
                 PROVE  stream'[t].client \in Pages /\ page'[stream'[t].client].link = "connected"
                        /\ page'[stream'[t].client].source = t
      BY DEF StreamsLinked
    <3>1. t # from /\ stream'[t] = stream[t]
      BY <1>4, <2>2 DEF Leaves
    <3>2. stream[t].client \in Pages /\ page[stream[t].client].link = "connected" /\ page[stream[t].client].source = t
      BY <3>1 DEF Links, StreamsLinked
    <3> QED
      BY <1>1, <3>1, <3>2
  <2>5. ClientsKnown'
    BY <1>4, <2>2 DEF Leaves, Links, ClientsKnown
  <2>6. Ended'
    <3>1. stream'[from].wire = <<>> /\ Len(<<>>) = 0
      BY <1>4, <2>1 DEF Leaves, Detached, Unused, Stream
    <3> QED
      BY <1>4, <3>1 DEF Leaves, Links, Ended
  <2> QED
    BY <2>3, <2>4, <2>5, <2>6 DEF Links
<1>5. CASE Joins(c)
  <2> DEFINE s == page'[c].source
  <2>1. s \in Streams /\ ~stream[s].attached /\ stream'[s].attached /\ stream'[s].client = c
    BY <1>5 DEF Joins, Unused
  <2>2. PagesLinked'
    <3> SUFFICES ASSUME NEW d \in Pages, page'[d].link = "connected"
                 PROVE  page'[d].source \in Streams /\ stream'[page'[d].source].attached
                        /\ stream'[page'[d].source].client = d
      BY DEF PagesLinked
    <3>1. CASE d = c
      BY <2>1, <3>1
    <3>2. CASE d # c
      <4>1. page'[d] = page[d] /\ page[d].source \in Streams /\ stream[page[d].source].attached
            /\ stream[page[d].source].client = d
        BY <1>1, <3>2 DEF Links, PagesLinked
      <4>2. page[d].source # s /\ stream'[page[d].source] = stream[page[d].source]
        BY <1>5, <2>1, <4>1 DEF Joins
      <4> QED
        BY <4>1, <4>2
    <3> QED
      BY <3>1, <3>2
  <2>3. StreamsLinked'
    <3> SUFFICES ASSUME NEW t \in Streams, stream'[t].attached
                 PROVE  stream'[t].client \in Pages /\ page'[stream'[t].client].link = "connected"
                        /\ page'[stream'[t].client].source = t
      BY DEF StreamsLinked
    <3>1. CASE t = s
      BY <1>5, <2>1, <3>1 DEF Joins
    <3>2. CASE t # s
      <4>1. stream'[t] = stream[t]
        BY <1>5, <3>2 DEF Joins
      <4>2. stream[t].client \in Pages /\ page[stream[t].client].link = "connected" /\ page[stream[t].client].source = t
        BY <4>1 DEF Links, StreamsLinked
      <4>3. stream[t].client # c
        BY <1>5, <4>2 DEF Joins
      <4> QED
        BY <1>1, <4>1, <4>2, <4>3
    <3> QED
      BY <3>1, <3>2
  <2>4. ClientsKnown'
    BY <1>1, <1>5, <2>1 DEF Joins, Links, ClientsKnown
  <2>5. Ended'
    <3>1. stream'[s].wire = <<>> /\ Len(<<>>) = 0
      BY <1>5 DEF Joins, Unused
    <3>2. \A t \in Streams \ {s} : stream'[t] = stream[t]
      BY <1>5 DEF Joins
    <3> QED
      BY <3>1, <3>2 DEF Links, Ended
  <2> QED
    BY <2>2, <2>3, <2>4, <2>5 DEF Links
<1> QED
  BY <1>1, <1>2, <1>3, <1>4, <1>5

\* Every step keeps the links.
LEMMA LinksKept ==
    ASSUME StateInv, Next
    PROVE  Links'
<1>1. TypeOK /\ Links /\ stream \in [Streams -> Stream] /\ page \in [Pages -> Page]
  BY DEF StateInv, TypeOK
<1>2. \A r \in Stream : Goes(r, r)
  BY DEF Goes, Kept
<1>3. ASSUME NEW k \in Keys, Store(k) \/ Publish(k) \/ Forget(k) \/ CreateEndpoint(k) PROVE Links'
  <2>1. CASE Publish(k)
    <3>1. UNCHANGED page /\ \A s \in Streams : stream'[s] \in {stream[s], [stream[s] EXCEPT !.notified = TRUE]}
      BY <1>1, <2>1 DEF Publish
    <3>2. \A r \in Stream : Goes([r EXCEPT !.notified = TRUE], r)
      BY DEF Goes, Kept, Stream
    <3> QED
      BY <1>1, <1>2, <3>1, <3>2, KeepsLinks
  <2>2. CASE Store(k) \/ Forget(k) \/ CreateEndpoint(k)
    <3>1. UNCHANGED <<page, stream>>
      BY <2>2 DEF Store, Forget, CreateEndpoint
    <3> QED
      BY <1>1, <1>2, <3>1, KeepsLinks
  <2> QED
    BY <1>3, <2>1, <2>2
<1>4. CASE Close \/ Shutdown \/ Start
  <2>1. CASE Close
    <3>1. UNCHANGED page /\ \A s \in Streams : stream'[s] \in {stream[s], [stream[s] EXCEPT !.open = FALSE]}
      BY <1>1, <2>1 DEF Close
    <3>2. \A r \in Stream : Goes([r EXCEPT !.open = FALSE], r)
      BY DEF Goes, Kept, Stream
    <3> QED
      BY <1>1, <1>2, <3>1, <3>2, KeepsLinks
  <2>2. CASE Shutdown \/ Start
    <3>1. UNCHANGED <<page, stream>>
      BY <2>2 DEF Shutdown, Start
    <3> QED
      BY <1>1, <1>2, <3>1, KeepsLinks
  <2> QED
    BY <1>4, <2>1, <2>2
<1>5. CASE Crash
  <2>1. \A s \in Streams : ~stream'[s].attached /\ stream'[s].pc = "idle"
    BY <1>5 DEF Crash, Unused
  <2>2. \A c \in Pages : page'[c].link # "connected"
    BY <1>1, <1>5 DEF Crash, Page
  <2> QED
    BY <2>1, <2>2 DEF Links, PagesLinked, StreamsLinked, ClientsKnown, Ended
<1>6. ASSUME NEW s \in Streams, Handle(s) \/ Leave(s) PROVE Links'
  <2>1. UNCHANGED page /\ \A t \in Streams : Goes(stream'[t], stream[t])
    BY <1>1, <1>2, <1>6, HandlerSteps
  <2> QED
    BY <1>1, <2>1, KeepsLinks
<1>7. ASSUME NEW c \in Pages, Browse(c) \/ Cut(c) \/ Hide(c) \/ Show(c) \/ Reopen(c) PROVE Links'
  BY <1>1, <1>7, PageLinks
<1> QED
  BY <1>3, <1>4, <1>5, <1>6, <1>7 DEF Next

-----------------------------------------------------------------------------
(* The subscriptions and the slots *)

\* A step that opens, closes, begins or ends no subscription keeps the subscribers.
LEMMA KeepsSubscribers ==
    ASSUME SubscribersAre, UNCHANGED <<phase, subscribers>>,
           \A s \in Streams : stream'[s].open = stream[s].open /\ (stream'[s].pc \in Subscribed <=> stream[s].pc \in Subscribed)
    PROVE  SubscribersAre'
  BY DEF SubscribersAre

\* A step that takes and returns no slot keeps the count of the slots.
LEMMA KeepsSlots ==
    ASSUME SlotsMatchStreams, UNCHANGED <<total, perIP>>,
           \A s \in Streams : Holding(s)' = Holding(s) /\ (Holding(s) => stream'[s].client = stream[s].client)
    PROVE  SlotsMatchStreams'
<1>1. Holders' = Holders
  BY DEF Holders
<1>2. \A i \in IPs : HoldersOf(i)' = HoldersOf(i)
  BY <1>1 DEF HoldersOf, Holders
<1> QED
  BY <1>1, <1>2 DEF SlotsMatchStreams

\* A slot more, for a handler that held none; a slot less, for one that held it.
LEMMA SlotsAcquired ==
    ASSUME StateInv, NEW s \in Streams, Acquire(s)
    PROVE  SlotsMatchStreams'
<1>1. /\ SlotsMatchStreams /\ stream \in [Streams -> Stream] /\ perIP \in [IPs -> Nat] /\ total \in Nat
      /\ IPOf[stream[s].client] \in IPs
  BY PagesAssumption DEF StateInv, TypeOK, Links, ClientsKnown, Acquire
<1> PICK ip \in IPs : ip = IPOf[stream[s].client]
  BY <1>1
<1>2. stream'[s].pc = "accepted" /\ stream'[s].client = stream[s].client /\ \A t \in Streams \ {s} : stream'[t] = stream[t]
  BY <1>1 DEF Acquire, Stream
<1>3. Holders' = Holders \cup {s} /\ s \notin Holders
  BY <1>2 DEF Holders, Holding, Acquire
<1>4. HoldersOf(ip)' = HoldersOf(ip) \cup {s} /\ s \notin HoldersOf(ip)
  BY <1>2, <1>3 DEF HoldersOf, Holders
<1>5. \A i \in IPs \ {ip} : HoldersOf(i)' = HoldersOf(i)
  BY <1>2, <1>3 DEF HoldersOf, Holders
<1>6. Cardinality(Holders') = Cardinality(Holders) + 1
  BY <1>3, HoldersAreFinite, FS_AddElement
<1>7. Cardinality(HoldersOf(ip)') = Cardinality(HoldersOf(ip)) + 1
  BY <1>4, HoldersAreFinite, FS_AddElement
<1>8. total' = Cardinality(Holders)' /\ total' <= MaxStreams
  BY <1>1, <1>6, LimitsAssumption DEF SlotsMatchStreams, Acquire, BelowLimits
<1>9. ASSUME NEW i \in IPs PROVE perIP'[i] = Cardinality(HoldersOf(i))' /\ perIP'[i] <= MaxStreamsPerIP
  <2>1. perIP' = [perIP EXCEPT ![ip] = perIP[ip] + 1] /\ perIP[ip] < MaxStreamsPerIP
    BY DEF Acquire, BelowLimits
  <2>2. perIP[i] = Cardinality(HoldersOf(i)) /\ perIP[i] <= MaxStreamsPerIP
    BY <1>1 DEF SlotsMatchStreams
  <2>3. CASE i = ip
    <3>1. perIP'[i] = perIP[i] + 1 /\ perIP[i] < MaxStreamsPerIP /\ perIP[i] \in Nat
      BY <1>1, <2>1, <2>3
    <3> QED
      BY <1>7, <2>2, <2>3, <3>1, LimitsAssumption
  <2>4. CASE i # ip
    <3>1. perIP'[i] = perIP[i]
      BY <1>1, <2>1, <2>4
    <3> QED
      BY <1>5, <2>2, <2>4, <3>1
  <2> QED
    BY <2>3, <2>4
<1> QED
  BY <1>8, <1>9 DEF SlotsMatchStreams

\* The deferred release returns the slot that this handler took.
LEMMA SlotsReleased ==
    ASSUME StateInv, NEW s \in Streams, Release(s)
    PROVE  SlotsMatchStreams'
<1>1. /\ SlotsMatchStreams /\ stream \in [Streams -> Stream] /\ perIP \in [IPs -> Nat] /\ total \in Nat
      /\ IPOf[stream[s].client] \in IPs
  BY PagesAssumption DEF StateInv, TypeOK, Links, ClientsKnown, Release
<1> PICK ip \in IPs : ip = IPOf[stream[s].client]
  BY <1>1
<1>2. stream'[s].pc = "idle" /\ \A t \in Streams \ {s} : stream'[t] = stream[t]
  BY <1>1 DEF Release, Returned, Unused
<1>3. Holders' = Holders \ {s} /\ s \in Holders
  BY <1>2 DEF Holders, Holding, Release
<1>4. HoldersOf(ip)' = HoldersOf(ip) \ {s} /\ s \in HoldersOf(ip)
  BY <1>2, <1>3 DEF HoldersOf, Holders
<1>5. \A i \in IPs \ {ip} : HoldersOf(i)' = HoldersOf(i)
  BY <1>2, <1>3 DEF HoldersOf, Holders
<1>6. Cardinality(Holders') = Cardinality(Holders) - 1
  BY <1>3, HoldersAreFinite, FS_RemoveElement
<1>7. Cardinality(HoldersOf(ip)') = Cardinality(HoldersOf(ip)) - 1
  <2>1. IsFiniteSet(HoldersOf(ip))
    BY HoldersAreFinite
  <2> QED
    BY <1>4, <2>1, FS_RemoveElement
<1>8. total' = Cardinality(Holders)' /\ total' <= MaxStreams
  BY <1>1, <1>6, LimitsAssumption DEF SlotsMatchStreams, Release
<1>9. ASSUME NEW i \in IPs PROVE perIP'[i] = Cardinality(HoldersOf(i))' /\ perIP'[i] <= MaxStreamsPerIP
  <2>1. perIP' = [perIP EXCEPT ![ip] = IF perIP[ip] <= 1 THEN 0 ELSE perIP[ip] - 1]
    BY DEF Release
  <2>2. perIP[i] = Cardinality(HoldersOf(i)) /\ perIP[i] <= MaxStreamsPerIP
    BY <1>1 DEF SlotsMatchStreams
  <2>3. CASE i = ip
    <3>1. perIP'[i] = (IF perIP[i] <= 1 THEN 0 ELSE perIP[i] - 1) /\ perIP[i] \in Nat
      BY <1>1, <2>1, <2>3
    <3>2. perIP[i] # 0
      BY <1>4, <2>2, <2>3, HoldersAreFinite, FS_EmptySet
    <3> QED
      BY <1>7, <2>2, <2>3, <3>1, <3>2, LimitsAssumption
  <2>4. CASE i # ip
    <3>1. perIP'[i] = perIP[i]
      BY <1>1, <2>1, <2>4
    <3> QED
      BY <1>5, <2>2, <2>4, <3>1
  <2> QED
    BY <2>3, <2>4
<1> QED
  BY <1>8, <1>9 DEF SlotsMatchStreams

\* No step of a page concerns a handler, but that its client is gone.
LEMMA PageLeavesHandlers ==
    ASSUME TypeOK, Links, NEW c \in Pages, Browse(c) \/ Cut(c) \/ Hide(c) \/ Show(c) \/ Reopen(c)
    PROVE  \A s \in Streams :
              /\ stream[s].pc # "idle" =>
                    /\ stream'[s].pc = stream[s].pc /\ stream'[s].client = stream[s].client
                    /\ stream'[s].open = stream[s].open
              /\ stream[s].pc = "idle" => stream'[s].pc \in {"idle", "requested"}
<1>1. Stays(c) \/ Leaves(c) \/ Waits(c) \/ Joins(c)
  BY PageSteps
<1> TAKE s \in Streams
<1>2. stream[s] \in Stream
  BY DEF TypeOK
<1>3. CASE Stays(c)
  BY <1>3 DEF Stays, Alike
<1>4. CASE Leaves(c)
  <2>1. stream'[s] = stream[s] \/ stream'[s] = Detached(stream[s])
    BY <1>4 DEF Leaves
  <2>2. stream[s].pc = "idle" => Detached(stream[s]) = Unused /\ Unused.pc = "idle"
    BY DEF Detached, Unused
  <2>3. stream[s].pc # "idle" =>
            LET r == Detached(stream[s]) IN r.pc = stream[s].pc /\ r.client = stream[s].client /\ r.open = stream[s].open
    BY <1>2 DEF Detached, Stream
  <2> QED
    BY <2>1, <2>2, <2>3
<1>5. CASE Waits(c)
  BY <1>5 DEF Waits
<1>6. CASE Joins(c)
  <2>1. CASE s = page'[c].source
    BY <1>6, <2>1 DEF Joins, Unused
  <2>2. CASE s # page'[c].source
    BY <1>6, <2>2 DEF Joins
  <2> QED
    BY <2>1, <2>2
<1> QED
  BY <1>1, <1>3, <1>4, <1>5, <1>6

\* Subscribe, Cancel and Close are the steps that change who subscribes.
LEMMA SubscribersKept ==
    ASSUME StateInv, Next
    PROVE  SubscribersAre'
<1>1. TypeOK /\ Links /\ SubscribersAre /\ stream \in [Streams -> Stream]
  BY DEF StateInv, TypeOK
<1>2. ASSUME NEW k \in Keys, Store(k) \/ Publish(k) \/ Forget(k) \/ CreateEndpoint(k) PROVE SubscribersAre'
  <2>1. UNCHANGED <<phase, subscribers>>
    BY <1>2 DEF Store, Publish, Forget, CreateEndpoint, updates
  <2>2. CASE Publish(k)
    <3>1. \A s \in Streams : stream'[s].open = stream[s].open /\ stream'[s].pc = stream[s].pc
      BY <1>1, <2>2 DEF Publish, Stream
    <3> QED
      BY <1>1, <2>1, <3>1, KeepsSubscribers
  <2>3. CASE Store(k) \/ Forget(k) \/ CreateEndpoint(k)
    <3>1. UNCHANGED stream
      BY <2>3 DEF Store, Forget, CreateEndpoint
    <3> QED
      BY <1>1, <2>1, <3>1, KeepsSubscribers
  <2> QED
    BY <1>2, <2>2, <2>3
<1>3. CASE Close
  <2>1. \A s \in Streams : stream'[s] = IF s \in subscribers THEN [stream[s] EXCEPT !.open = FALSE] ELSE stream[s]
    BY <1>1, <1>3 DEF Close
  <2>2. ASSUME NEW s \in Streams PROVE ~(stream'[s].open /\ stream'[s].pc \in Subscribed)
    BY <1>1, <2>1 DEF SubscribersAre, Stream
  <2> QED
    BY <1>3, <2>2 DEF Close, SubscribersAre
<1>4. CASE Shutdown \/ Start
  BY <1>1, <1>4 DEF Shutdown, Start, SubscribersAre, updates
<1>5. CASE Crash
  <2>1. \A s \in Streams : ~stream'[s].open
    BY <1>5 DEF Crash, Unused
  <2> QED
    BY <1>5, <2>1 DEF Crash, SubscribersAre
<1>6. ASSUME NEW s \in Streams, Handle(s) \/ Leave(s) PROVE SubscribersAre'
  <2>1. UNCHANGED phase /\ \A t \in Streams \ {s} : stream'[t] = stream[t]
    BY <1>1, <1>6, HandlerSteps
  <2>2. s \in subscribers <=> stream[s].open /\ stream[s].pc \in Subscribed
    BY <1>1 DEF SubscribersAre
  <2>3. /\ subscribers' \in {subscribers, subscribers \cup {s}, subscribers \ {s}}
        /\ s \in subscribers' <=> stream'[s].open /\ stream'[s].pc \in Subscribed
        /\ s \in subscribers' => s \in subscribers \/ phase = "open"
    <3>1. CASE RefuseRequest(s)
      BY <1>1, <2>2, <3>1 DEF RefuseRequest, Returned, Unused, Subscribed, updates
    <3>2. CASE Subscribe(s)
      BY <1>1, <2>2, <3>2 DEF Subscribe, Subscribed, Stream
    <3>3. CASE Acquire(s)
      BY <1>1, <2>2, <3>3 DEF Acquire, Subscribed, Stream, updates
    <3>4. CASE TooMany(s)
      BY <1>1, <2>2, <3>4 DEF TooMany, Returned, Unused, Subscribed
    <3>5. CASE Greet(s)
      BY <1>1, <2>2, <3>5 DEF Greet, Sent, Subscribed, Stream, updates
    <3>6. CASE CatchUp(s)
      BY <1>1, <2>2, <3>6 DEF CatchUp, Sent, Subscribed, Stream, updates
    <3>7. CASE Notified(s)
      BY <1>1, <2>2, <3>7 DEF Notified, Subscribed, Stream, updates
    <3>8. CASE WriteResult(s)
      BY <1>1, <2>2, <3>8 DEF WriteResult, Sent, Subscribed, Stream, updates
    <3>9. CASE Leave(s)
      BY <1>1, <2>2, <3>9 DEF Leave, MayEnd, Subscribed, Stream, updates
    <3>10. CASE Cancel(s)
      BY <1>1, <2>2, <3>10 DEF Cancel, Subscribed, Stream
    <3>11. CASE Release(s)
      BY <1>1, <2>2, <3>11 DEF Release, Returned, Unused, Subscribed, updates
    <3> QED
      BY <1>6, <3>1, <3>2, <3>3, <3>4, <3>5, <3>6, <3>7, <3>8, <3>9, <3>10, <3>11 DEF Handle
  <2>4. \A t \in Streams \ {s} : t \in subscribers' <=> t \in subscribers
    BY <2>3
  <2>5. subscribers' \subseteq Streams /\ (phase' # "open" => subscribers' = {})
    BY <1>1, <2>1, <2>3 DEF SubscribersAre
  <2>6. \A t \in Streams : t \in subscribers' <=> stream'[t].open /\ stream'[t].pc \in Subscribed
    BY <1>1, <2>1, <2>3, <2>4 DEF SubscribersAre
  <2> QED
    BY <2>5, <2>6 DEF SubscribersAre
<1>7. ASSUME NEW c \in Pages, Browse(c) \/ Cut(c) \/ Hide(c) \/ Show(c) \/ Reopen(c) PROVE SubscribersAre'
  <2>1. UNCHANGED <<phase, subscribers>>
    BY <1>1, <1>7, PageSteps DEF updates
  <2>2. \A s \in Streams : stream[s].pc # "idle" => stream'[s].pc = stream[s].pc /\ stream'[s].open = stream[s].open
    BY <1>1, <1>7, PageLeavesHandlers
  <2>3. \A s \in Streams : stream[s].pc = "idle" => stream'[s].pc \notin Subscribed /\ s \notin subscribers
    BY <1>1, <1>7, PageLeavesHandlers DEF Subscribed, SubscribersAre
  <2> QED
    BY <1>1, <2>1, <2>2, <2>3 DEF SubscribersAre
<1> QED
  BY <1>2, <1>3, <1>4, <1>5, <1>6, <1>7 DEF Next

\* Acquire and Release are the steps that change the slots.
LEMMA SlotsKept ==
    ASSUME StateInv, Next
    PROVE  SlotsMatchStreams'
<1>1. TypeOK /\ Links /\ SlotsMatchStreams /\ stream \in [Streams -> Stream]
  BY DEF StateInv, TypeOK
<1>2. ASSUME NEW k \in Keys, Store(k) \/ Publish(k) \/ Forget(k) \/ CreateEndpoint(k) PROVE SlotsMatchStreams'
  <2>1. UNCHANGED <<total, perIP>>
    BY <1>2 DEF Store, Publish, Forget, CreateEndpoint, limiter
  <2>2. \A s \in Streams : stream'[s].pc = stream[s].pc /\ stream'[s].client = stream[s].client
    <3>1. CASE Publish(k)
      BY <1>1, <3>1 DEF Publish, Stream
    <3>2. CASE Store(k) \/ Forget(k) \/ CreateEndpoint(k)
      BY <3>2 DEF Store, Forget, CreateEndpoint
    <3> QED
      BY <1>2, <3>1, <3>2
  <2> QED
    BY <1>1, <2>1, <2>2, KeepsSlots DEF Holding
<1>3. CASE Close \/ Shutdown \/ Start
  <2>1. UNCHANGED <<total, perIP>>
    BY <1>3 DEF Close, Shutdown, Start, limiter
  <2>2. \A s \in Streams : stream'[s].pc = stream[s].pc /\ stream'[s].client = stream[s].client
    <3>1. CASE Close
      BY <1>1, <3>1 DEF Close, Stream
    <3>2. CASE Shutdown \/ Start
      BY <3>2 DEF Shutdown, Start
    <3> QED
      BY <1>3, <3>1, <3>2
  <2> QED
    BY <1>1, <2>1, <2>2, KeepsSlots DEF Holding
<1>4. CASE Crash
  <2>1. Holders' = {} /\ \A i \in IPs : HoldersOf(i)' = {}
    BY <1>4 DEF Crash, Holders, HoldersOf, Holding, Unused
  <2>2. Cardinality({}) = 0
    BY FS_EmptySet
  <2>3. total' = 0 /\ \A i \in IPs : perIP'[i] = 0
    BY <1>4 DEF Crash
  <2> QED
    BY <2>1, <2>2, <2>3, LimitsAssumption DEF SlotsMatchStreams
<1>5. ASSUME NEW s \in Streams, Handle(s) \/ Leave(s) PROVE SlotsMatchStreams'
  <2>1. CASE Acquire(s)
    BY <2>1, SlotsAcquired
  <2>2. CASE Release(s)
    BY <2>2, SlotsReleased
  <2>3. CASE ~Acquire(s) /\ ~Release(s)
    <3>1. \A t \in Streams \ {s} : stream'[t] = stream[t]
      BY <1>1, <1>5, HandlerSteps
    <3>2. UNCHANGED <<total, perIP>>
      BY <1>5, <2>3 DEF Handle, RefuseRequest, Subscribe, TooMany, Greet, CatchUp, Notified, WriteResult, Leave, Cancel, limiter
    <3>3. Holding(s)' = Holding(s) /\ (Holding(s) => stream'[s].client = stream[s].client)
      <4>1. CASE RefuseRequest(s)
        BY <1>1, <4>1 DEF RefuseRequest, Returned, Unused, Holding
      <4>2. CASE Subscribe(s)
        BY <1>1, <4>2 DEF Subscribe, Holding, Stream
      <4>4. CASE TooMany(s)
        BY <1>1, <4>4 DEF TooMany, Returned, Unused, Holding
      <4>5. CASE Greet(s)
        BY <1>1, <4>5 DEF Greet, Sent, Holding, Stream
      <4>6. CASE CatchUp(s)
        BY <1>1, <4>6 DEF CatchUp, Sent, Holding, Stream
      <4>7. CASE Notified(s)
        BY <1>1, <4>7 DEF Notified, Holding, Stream
      <4>8. CASE WriteResult(s)
        BY <1>1, <4>8 DEF WriteResult, Sent, Holding, Stream
      <4>9. CASE Leave(s)
        BY <1>1, <4>9 DEF Leave, MayEnd, Holding, Stream
      <4>10. CASE Cancel(s)
        BY <1>1, <4>10 DEF Cancel, Holding, Stream
      <4> QED
        BY <1>5, <2>3, <4>1, <4>2, <4>4, <4>5, <4>6, <4>7, <4>8, <4>9, <4>10 DEF Handle
    <3>4. \A t \in Streams : Holding(t)' = Holding(t) /\ (Holding(t) => stream'[t].client = stream[t].client)
      BY <3>1, <3>3 DEF Holding
    <3> QED
      BY <1>1, <3>2, <3>4, KeepsSlots
  <2> QED
    BY <2>1, <2>2, <2>3
<1>6. ASSUME NEW c \in Pages, Browse(c) \/ Cut(c) \/ Hide(c) \/ Show(c) \/ Reopen(c) PROVE SlotsMatchStreams'
  <2>1. UNCHANGED <<total, perIP>>
    BY <1>1, <1>6, PageSteps DEF limiter
  <2>2. \A s \in Streams : Holding(s)' = Holding(s) /\ (Holding(s) => stream'[s].client = stream[s].client)
    BY <1>1, <1>6, PageLeavesHandlers DEF Holding
  <2> QED
    BY <1>1, <2>1, <2>2, KeepsSlots
<1> QED
  BY <1>2, <1>3, <1>4, <1>5, <1>6 DEF Next

\* No result is published more than once.
LEMMA CountedKept ==
    ASSUME StateInv, Next
    PROVE  Counted'
<1>1. /\ TypeOK /\ Links /\ Counted /\ stored \in [Keys -> Nat] /\ announced \in [Keys -> Nat]
      /\ results \in Nat /\ sequence \in Nat /\ Cardinality(storing) \in Nat
  BY Bounded, FS_CardinalityType DEF StateInv, TypeOK, Counted
<1>2. ASSUME NEW k \in Keys, Store(k) PROVE Counted'
  <2>1. Cardinality(storing') = Cardinality(storing) + 1 /\ IsFiniteSet(storing')
    BY <1>1, <1>2, FS_AddElement DEF Counted, Store
  <2>2. \A l \in Keys : announced'[l] <= stored'[l] /\ stored'[l] <= results'
    BY <1>1, <1>2 DEF Counted, Store
  <2>3. sequence' = sequence /\ results' = results + 1
    BY <1>2 DEF Store, updates
  <2> QED
    BY <1>1, <2>1, <2>2, <2>3 DEF Counted
<1>3. ASSUME NEW k \in Keys, Publish(k) PROVE Counted'
  <2>1. Cardinality(storing') = Cardinality(storing) - 1 /\ IsFiniteSet(storing')
    BY <1>1, <1>3, FS_RemoveElement DEF Counted, Publish
  <2>2. \A l \in Keys : announced'[l] <= stored'[l] /\ stored'[l] <= results'
    BY <1>1, <1>3 DEF Counted, Publish
  <2>3. sequence' = sequence + 1 /\ results' = results
    BY <1>3 DEF Publish
  <2> QED
    BY <1>1, <2>1, <2>2, <2>3 DEF Counted
<1>4. ASSUME NEW k \in Keys, Forget(k) \/ CreateEndpoint(k) PROVE Counted'
  <2>1. UNCHANGED <<results, storing, sequence>>
    BY <1>4 DEF Forget, CreateEndpoint, updates
  <2>2. \A l \in Keys : announced'[l] <= stored'[l] /\ stored'[l] <= results
    BY <1>1, <1>4 DEF Counted, Forget, CreateEndpoint
  <2> QED
    BY <1>1, <2>1, <2>2 DEF Counted
<1>5. CASE Close \/ Shutdown
  <2>1. UNCHANGED <<results, storing, sequence, stored, announced>>
    BY <1>5 DEF Close, Shutdown, store, updates
  <2> QED
    BY <1>1, <2>1 DEF Counted
<1>6. CASE Start
  BY <1>1, <1>6 DEF Counted, Start
<1>7. CASE Crash
  <2>1. IsFiniteSet({}) /\ Cardinality({}) = 0
    BY FS_EmptySet
  <2>2. storing' = {} /\ sequence' = 0 /\ UNCHANGED <<results, stored, announced>>
    BY <1>7 DEF Crash
  <2>3. IsFiniteSet(storing') /\ sequence' + Cardinality(storing') <= results'
    BY <1>1, <2>1, <2>2
  <2> QED
    BY <1>1, <2>2, <2>3 DEF Counted
<1>8. ASSUME NEW s \in Streams, Handle(s) \/ Leave(s) PROVE Counted'
  BY <1>1, <1>8, HandlerSteps DEF Counted, store
<1>9. ASSUME NEW c \in Pages, Browse(c) \/ Cut(c) \/ Hide(c) \/ Show(c) \/ Reopen(c) PROVE Counted'
  BY <1>1, <1>9, PageSteps DEF Counted, store, updates
<1> QED
  BY <1>2, <1>3, <1>4, <1>5, <1>6, <1>7, <1>8, <1>9 DEF Next

\* The invariant holds when the process starts for the first time ...
LEMMA InitialState ==
    Init => StateInv
<1> SUFFICES ASSUME Init PROVE StateInv
  OBVIOUS
<1>1. workload \in Workloads /\ 0 \in Ids /\ Ids \subseteq Nat /\ workload.cuts \in Nat /\ workload.crashes \in Nat
  BY LimitsAssumption DEF Init, Workload, Ids
<1>2. Unused \in Stream /\ NewPage \in Page
  BY <1>1, EmptyWire DEF Unused, Stream, Stages, NewPage, Page
<1>3. TypeOK
  BY <1>1, <1>2 DEF Init, TypeOK
<1>4. Links
  <2>1. Len(<<>>) = 0
    OBVIOUS
  <2> QED
    BY <2>1 DEF Init, Links, PagesLinked, StreamsLinked, ClientsKnown, Ended, Unused, NewPage
<1>5. SubscribersAre
  BY DEF Init, SubscribersAre, Unused
<1>6. IsFiniteSet({}) /\ Cardinality({}) = 0
  BY FS_EmptySet
<1>7. SlotsMatchStreams
  <2>1. Holders = {} /\ \A i \in IPs : HoldersOf(i) = {}
    BY DEF Init, Holders, HoldersOf, Holding, Unused
  <2> QED
    BY <1>6, <2>1, LimitsAssumption DEF Init, SlotsMatchStreams
<1>8. Counted
  BY <1>6 DEF Init, Counted
<1> QED
  BY <1>3, <1>4, <1>5, <1>7, <1>8 DEF StateInv

\* ... every step keeps it ...
LEMMA StateInvKept ==
    ASSUME StateInv, [Next]_vars
    PROVE  StateInv'
<1>1. CASE Next
  <2>1. TypeOK'
    BY <1>1, StoringTypes, CycleTypes, HandlerTypes, PageTypes DEF Next
  <2> QED
    BY <1>1, <2>1, LinksKept, SubscribersKept, SlotsKept, CountedKept DEF StateInv
<1>2. CASE UNCHANGED vars
  <2>1. TypeOK'
    BY <1>2, SameTypes DEF StateInv, TypeOK, vars, store, updates, limiter, budget
  <2>2. Links' /\ SubscribersAre' /\ SlotsMatchStreams' /\ Counted'
    BY <1>2 DEF StateInv, vars, store, updates, limiter, budget, Links, PagesLinked, StreamsLinked, ClientsKnown, Ended,
        SubscribersAre, SlotsMatchStreams, Holders, HoldersOf, Holding, Counted
  <2> QED
    BY <2>1, <2>2 DEF StateInv
<1> QED
  BY <1>1, <1>2

\* ... and so it always holds.
LEMMA StateInvariant == Spec => []StateInv
  BY InitialState, StateInvKept, PTL DEF Spec

(* The types hold, Publish and Close only reach open channels of handlers that will cancel them, and the slots taken are
   those of the streams: liveupdates.go, and the eventStreamLimiter of live_updates.go. *)
THEOREM ConsistentAlways == Spec => []Consistent
<1>1. StateInv => Consistent
  BY DEF StateInv, Consistent, SubscriptionsAreLive, SubscribersAre, Subscribed, Holding
<1> QED
  BY <1>1, StateInvariant, PTL

-----------------------------------------------------------------------------
(* What a page is told.  p is a page that has to be told of the result of id n, and r the handler of its stream. *)

\* The wire until the event: nothing, then the id of the stream.
Begins(r) ==
    /\ r.pc \in {"requested", "subscribed", "accepted"} => r.wire = <<>>
    /\ r.pc = "greeted" => r.wire \in {<<>>, <<[kind |-> "id", id |-> r.current]>>}
    /\ \A i \in 1..Len(r.wire) : r.wire[i].kind = "id" => i = 1

\* What the page remembers is older than what it has to be told ...
Remembers(p, n) == p.lastEventId < n /\ p.parameter < n
Forgets(p, n) == p.header = None \/ p.header < n

\* ... unless the event comes right after the id.
Follows(p, r) ==
    \/ r.pc = "greeted" /\ r.wire = <<>> /\ r.seen < r.current /\ r.current = p.header
    \/ r.wire # <<>> /\ r.wire[1] = Event(p.header)
IdThenEvent(r) ==
    \/ Len(r.wire) = 1 /\ r.pc = "greeted" /\ r.seen < r.current
    \/ Len(r.wire) >= 2 /\ r.wire[2] = Event(r.wire[1].id)

\* The handler has told it, is about to, or will be notified.
WillTell(r) ==
    \/ r.notified \/ r.pc = "woken"
    \/ r.pc \in {"subscribed", "accepted", "greeted"} /\ r.seen < r.current
    \/ \E i \in 1..Len(r.wire) : r.wire[i].kind = "result"

Serves(p, r, n) ==
    /\ Forgets(p, n) \/ Follows(p, r)
    /\ r.wire # <<>> /\ r.wire[1].kind = "id" /\ r.wire[1].id >= n => IdThenEvent(r)
    /\ r.pc = "requested" => r.seen < n
    /\ r.pc \in {"subscribed", "accepted", "greeted"} /\ r.current >= n => r.seen < r.current
    /\ r.open /\ r.pc \in Subscribed \ {"leaving"} => WillTell(r)

Waiting(c) == page[c].link # "hidden" /\ ~page[c].refresh /\ Behind(c)
Newest(c) == sequences[Watches[c]]
Of(c) == stream[page[c].source]
Connected(c) == page[c].link = "connected"

ToldOf(c) ==
    /\ Remembers(page[c], Newest(c))
    /\ IF Connected(c) THEN Serves(page[c], Of(c), Newest(c)) ELSE Forgets(page[c], Newest(c))
PageTold(c) == (Connected(c) => Begins(Of(c))) /\ (Waiting(c) => ToldOf(c))

\* Every id is one that was given.
PageGiven(p, n) == (p.header # None => p.header <= n) /\ p.parameter <= n /\ p.lastEventId <= n
Given(r, n) == r.seen <= n /\ r.current <= n /\ \A i \in 1..Len(r.wire) : r.wire[i].id <= n
IdsGiven ==
    /\ \A k \in Keys : sequences[k] <= sequence
    /\ \A c \in Pages : PageGiven(page[c], sequence)
    /\ \A s \in Streams : Given(stream[s], sequence)

Told == IdsGiven /\ \A c \in Pages : PageTold(c)
TellInv == crashes = 0 => Told

\* A message more on the way
LEMMA Appended ==
    ASSUME NEW q \in Seq(Message), NEW m \in Message
    PROVE  /\ q \o <<m>> = Append(q, m) /\ Append(q, m) # <<>> /\ Len(Append(q, m)) = Len(q) + 1
           /\ \A i \in 1..Len(q) : Append(q, m)[i] = q[i]
           /\ Append(q, m)[Len(q) + 1] = m
           /\ q # <<>> => Len(q) >= 1 /\ Append(q, m)[1] = q[1]
           /\ q = <<>> => Append(q, m)[1] = m /\ Len(q) = 0
  OBVIOUS

\* What is on the way stays when a message is added.
LEMMA Longer ==
    ASSUME NEW w \in Seq(Message), NEW m \in Message, NEW v, v = Append(w, m)
    PROVE  /\ v # <<>> /\ v[1] = IF w = <<>> THEN m ELSE w[1]
           /\ Len(w) >= 2 => Len(v) >= 2 /\ v[2] = w[2]
           /\ Len(w) + 1 \in 1..Len(v) /\ v[Len(w) + 1] = m
  BY Appended

\* What a handler holds.
LEMMA HandlerFields ==
    ASSUME NEW r \in Stream
    PROVE  /\ r.wire \in Seq(Message) /\ r.seen \in Ids /\ r.current \in Ids
           /\ Len(r.wire) \in Nat /\ (r.wire = <<>> <=> Len(r.wire) = 0)
           /\ \A i \in 1..Len(r.wire) : r.wire[i] \in Message /\ r.wire[i].id \in Ids
<1>1. r.wire \in Seq(Message) /\ r.seen \in Ids /\ r.current \in Ids
  BY DEF Stream
<1>2. \A m \in Message : m.id \in Ids
  BY DEF Message
<1> QED
  BY <1>1, <1>2

\* The steps of a handler that write nothing
LEMMA SilentServes ==
    ASSUME NEW r \in Stream, NEW q \in Stream, Begins(r),
           q.wire = r.wire, q.seen = r.seen,
           \/ r.pc = "subscribed" /\ q.pc = "accepted" /\ q.current = r.current /\ q.notified = r.notified /\ q.open = r.open
           \/ r.pc = "streaming" /\ q.pc = "woken"
           \/ r.pc \in {"streaming", "leaving"} /\ q.pc \in {"leaving", "releasing"}
           \/ q.pc = r.pc /\ q.current = r.current /\ (~q.open \/ q.open = r.open) /\ (q.notified \/ q.notified = r.notified)
    PROVE  Begins(q) /\ \A p, n : Serves(p, r, n) => Serves(p, q, n)
<1>1. Begins(q)
  BY DEF Begins
<1>2. ASSUME NEW p, NEW n, Serves(p, r, n) PROVE Serves(p, q, n)
  <2>1. Follows(p, r) => Follows(p, q)
    BY DEF Follows
  <2>2. r.wire # <<>> /\ r.wire[1].kind = "id" /\ IdThenEvent(r) => IdThenEvent(q)
    BY DEF IdThenEvent
  <2>3. q.pc = "requested" => q.seen < n
    BY <1>2 DEF Serves
  <2>4. q.pc \in {"subscribed", "accepted", "greeted"} /\ q.current >= n => q.seen < q.current
    BY <1>2 DEF Serves
  <2>5. q.open /\ q.pc \in Subscribed \ {"leaving"} => WillTell(q)
    BY <1>2 DEF Serves, WillTell, Subscribed
  <2> QED
    BY <1>2, <2>1, <2>2, <2>3, <2>4, <2>5 DEF Serves
<1> QED
  BY <1>1, <1>2

\* Subscribe reads the newest id in the same critical section in which it registers the channel.
LEMMA SubscriptionServes ==
    ASSUME NEW r \in Stream, NEW n \in Ids, Ids \subseteq Nat, Begins(r), r.pc = "requested",
           NEW q, q = [r EXCEPT !.pc = "subscribed", !.open = TRUE, !.current = n]
    PROVE  Begins(q) /\ \A p : Serves(p, r, n) => Serves(p, q, n)
<1>1. q.pc = "subscribed" /\ q.current = n /\ q.seen = r.seen /\ q.wire = r.wire /\ r.wire = <<>> /\ Len(<<>>) = 0
  BY DEF Stream, Begins
<1> QED
  BY <1>1 DEF Begins, Serves, Follows, WillTell, IdThenEvent

\* The steps that answer
LEMMA AnswerServes ==
    ASSUME TypeOK, NEW r \in Stream, Begins(r), r.attached, r.pc \in {"requested", "subscribed", "releasing"},
           NEW kind \in {"error", "end"}, NEW q, q = Returned(r, kind)
    PROVE  Begins(q) /\ \A p, n : Serves(p, r, n) => Serves(p, q, n)
<1> DEFINE m == [kind |-> kind, id |-> 0]
<1>1. m \in Message /\ m.kind = kind
  BY Bounded DEF Message
<1>2. q.pc = "idle" /\ q.wire = Append(r.wire, m) /\ ~q.open
  BY DEF Returned, Unused
<1>3. r.wire \in Seq(Message)
  BY HandlerFields
<1> HIDE DEF m
<1>4. Begins(q)
  <2> SUFFICES ASSUME NEW i \in 1..Len(q.wire), q.wire[i].kind = "id" PROVE i = 1
    BY <1>2 DEF Begins
  <2>1. i \in 1..Len(r.wire) /\ q.wire[i] = r.wire[i]
    BY <1>1, <1>2, <1>3, Appended
  <2> QED
    BY <2>1 DEF Begins
<1>5. ASSUME NEW p, NEW n, Serves(p, r, n) PROVE Serves(p, q, n)
  <2>1. CASE r.wire = <<>>
    <3>1. q.wire # <<>> /\ q.wire[1].kind = kind
      BY <1>1, <1>2, <1>3, <2>1, Appended
    <3>2. ~Follows(p, r)
      BY <2>1 DEF Follows
    <3> QED
      BY <1>2, <1>5, <3>1, <3>2 DEF Serves
  <2>2. CASE r.wire # <<>>
    <3>1. q.wire # <<>> /\ q.wire[1] = r.wire[1]
      BY <1>1, <1>2, <1>3, <2>2, Appended
    <3>2. Follows(p, r) => Follows(p, q)
      BY <3>1 DEF Follows
    <3>3. IdThenEvent(r) => IdThenEvent(q)
      <4>1. Len(r.wire) >= 2 => Len(q.wire) >= 2 /\ q.wire[2] = r.wire[2]
        BY <1>1, <1>2, <1>3, Appended, HandlerFields
      <4> QED
        BY <3>1, <4>1 DEF IdThenEvent
    <3> QED
      BY <1>2, <1>5, <2>2, <3>1, <3>2, <3>3 DEF Serves
  <2> QED
    BY <2>1, <2>2
<1> QED
  BY <1>4, <1>5

\* The id of the stream is the first message.
LEMMA GreetingServes ==
    ASSUME NEW r \in Stream, Begins(r), r.attached, r.pc = "accepted",
           NEW q, q = Sent([r EXCEPT !.pc = "greeted"], <<[kind |-> "id", id |-> r.current]>>)
    PROVE  Begins(q) /\ \A p, n : Serves(p, r, n) => Serves(p, q, n)
<1> DEFINE m == [kind |-> "id", id |-> r.current]
<1>1. m \in Message /\ m.kind = "id" /\ m.id = r.current /\ r.wire = <<>> /\ <<>> \o <<m>> = <<m>>
  BY DEF Message, Stream, Begins
<1>2. /\ q.pc = "greeted" /\ q.seen = r.seen /\ q.current = r.current /\ q.notified = r.notified /\ q.open = r.open
      /\ q.wire = <<m>>
  BY <1>1 DEF Sent, Stream
<1> HIDE DEF m
<1>3. q.wire # <<>> /\ Len(q.wire) = 1 /\ q.wire[1] = m
  BY <1>2
<1>4. Begins(q)
  <2>1. q.wire = <<[kind |-> "id", id |-> q.current]>>
    BY <1>2 DEF m
  <2> QED
    BY <1>2, <1>3, <2>1 DEF Begins
<1>5. ASSUME NEW p, NEW n, Serves(p, r, n) PROVE Serves(p, q, n)
  <2>1. ~Follows(p, r)
    BY <1>1 DEF Follows
  <2>2. q.wire[1].id >= n => IdThenEvent(q)
    BY <1>1, <1>2, <1>3, <1>5 DEF Serves, IdThenEvent
  <2>3. q.open => WillTell(q)
    BY <1>1, <1>2, <1>5 DEF Serves, WillTell, Subscribed
  <2> QED
    BY <1>2, <1>5, <2>1, <2>2, <2>3 DEF Serves
<1> QED
  BY <1>4, <1>5

\* The event of the result that the client missed
LEMMA CatchingUpServes ==
    ASSUME NEW r \in Stream, Begins(r), r.pc = "greeted", r.seen < r.current,
           NEW m, m = Event(r.current),
           NEW q, q.pc = "streaming", q.wire = Append(r.wire, m)
    PROVE  Begins(q) /\ \A p, n : Serves(p, r, n) => Serves(p, q, n)
<1>1. m \in Message /\ m.kind = "result"
  BY DEF Message, Stream, Event
<1>2. r.wire \in Seq(Message) /\ Len(r.wire) \in Nat
  BY HandlerFields
<1>3. q.wire # <<>> /\ q.wire[1] = (IF r.wire = <<>> THEN m ELSE r.wire[1])
  BY <1>1, <1>2, Longer
<1>4. Begins(q)
  <2> SUFFICES ASSUME NEW i \in 1..Len(q.wire), q.wire[i].kind = "id" PROVE i = 1
    BY DEF Begins
  <2>1. i \in 1..Len(r.wire) /\ q.wire[i] = r.wire[i]
    BY <1>1, <1>2, Appended
  <2> QED
    BY <2>1 DEF Begins
<1>5. WillTell(q)
  <2>1. Len(r.wire) + 1 \in 1..Len(q.wire) /\ q.wire[Len(r.wire) + 1].kind = "result"
    BY <1>1, <1>2, Longer
  <2> QED
    BY <2>1 DEF WillTell
<1>6. ASSUME NEW p, NEW n, Serves(p, r, n), r.wire = <<>> PROVE Serves(p, q, n)
  <2>1. q.wire[1] = m
    BY <1>3, <1>6
  <2>2. Follows(p, r) => m = Event(p.header)
    BY <1>6 DEF Follows
  <2> QED
    BY <1>1, <1>3, <1>5, <1>6, <2>1, <2>2 DEF Serves, Follows
<1>7. ASSUME NEW p, NEW n, Serves(p, r, n), r.wire # <<>> PROVE Serves(p, q, n)
  <2>1. r.wire = <<[kind |-> "id", id |-> r.current]>>
    BY <1>7 DEF Begins
  <2>2. Len(r.wire) = 1 /\ r.wire[1].kind = "id" /\ r.wire[1].id = r.current
    BY <2>1
  <2>3. ~Follows(p, r)
    BY <2>2, <1>7 DEF Follows, Event
  <2>4. Len(q.wire) = 2 /\ q.wire[2] = m /\ q.wire[1] = r.wire[1]
    BY <1>1, <1>2, <1>3, <1>7, <2>2, Appended
  <2>5. IdThenEvent(q)
    BY <2>2, <2>4 DEF IdThenEvent
  <2> QED
    BY <1>5, <1>7, <2>3, <2>5 DEF Serves
<1> QED
  BY <1>4, <1>6, <1>7

\* No event when nothing was missed
LEMMA NothingToCatchUpServes ==
    ASSUME NEW r \in Stream, Begins(r), r.pc = "greeted", ~(r.seen < r.current),
           NEW q, q.pc = "streaming", q.wire = r.wire, q.notified = r.notified, q.open = r.open
    PROVE  Begins(q) /\ \A p, n : Serves(p, r, n) => Serves(p, q, n)
<1>1. Begins(q)
  BY DEF Begins
<1>2. ASSUME NEW p, NEW n, Serves(p, r, n) PROVE Serves(p, q, n)
  <2>1. r.wire # <<>> => r.wire[1].kind = "id"
    BY DEF Begins
  <2>2. ~Follows(p, r)
    BY <2>1 DEF Follows, Event
  <2>3. IdThenEvent(r) => IdThenEvent(q)
    BY DEF IdThenEvent
  <2>4. WillTell(r) => WillTell(q)
    BY DEF WillTell
  <2> QED
    BY <1>2, <2>2, <2>3, <2>4 DEF Serves, Subscribed
<1> QED
  BY <1>1, <1>2

\* The event of a result
LEMMA EventServes ==
    ASSUME NEW r \in Stream, Begins(r), r.pc = "woken",
           NEW m \in Message, m.kind = "result",
           NEW q, q.pc = "streaming", q.wire = Append(r.wire, m)
    PROVE  Begins(q) /\ \A p, n : Serves(p, r, n) => Serves(p, q, n)
<1>1. m \in Message /\ m.kind = "result"
  OBVIOUS
<1>2. r.wire \in Seq(Message) /\ Len(r.wire) \in Nat
  BY HandlerFields
<1>3. q.pc = "streaming" /\ q.wire = Append(r.wire, m)
  OBVIOUS
<1>4. Begins(q)
  <2> SUFFICES ASSUME NEW i \in 1..Len(q.wire), q.wire[i].kind = "id" PROVE i = 1
    BY <1>3 DEF Begins
  <2>1. i \in 1..Len(r.wire) /\ q.wire[i] = r.wire[i]
    BY <1>1, <1>2, <1>3, Appended
  <2> QED
    BY <2>1 DEF Begins
<1>5. ASSUME NEW p, NEW n, Serves(p, r, n) PROVE Serves(p, q, n)
  <2>1. WillTell(q)
    <3>1. Len(r.wire) + 1 \in 1..Len(q.wire) /\ q.wire[Len(r.wire) + 1].kind = "result"
      BY <1>1, <1>2, <1>3, Appended
    <3> QED
      BY <3>1 DEF WillTell
  <2>2. CASE r.wire = <<>>
    <3>1. q.wire # <<>> /\ q.wire[1].kind = "result"
      BY <1>1, <1>2, <1>3, <2>2, Appended
    <3>2. ~Follows(p, r)
      BY <2>2 DEF Follows
    <3> QED
      BY <1>3, <1>5, <2>1, <3>1, <3>2 DEF Serves
  <2>3. CASE r.wire # <<>>
    <3>1. q.wire # <<>> /\ q.wire[1] = r.wire[1]
      BY <1>1, <1>2, <1>3, <2>3, Longer
    <3>2. Follows(p, r) => Follows(p, q)
      BY <3>1 DEF Follows
    <3>3. IdThenEvent(r) => IdThenEvent(q)
      <4>1. Len(r.wire) >= 2 => Len(q.wire) >= 2 /\ q.wire[2] = r.wire[2]
        BY <1>1, <1>2, <1>3, Longer
      <4> QED
        BY <3>1, <4>1 DEF IdThenEvent
    <3> QED
      BY <1>3, <1>5, <2>1, <2>3, <3>1, <3>2, <3>3 DEF Serves
  <2> QED
    BY <2>2, <2>3
<1> QED
  BY <1>4, <1>5

\* The step of a handler, for the page it serves
LEMMA HandlerServes ==
    ASSUME StateInv, NEW s \in Streams, Handle(s) \/ Leave(s), stream[s].attached, Begins(stream[s])
    PROVE  Begins(stream'[s]) /\ \A p : Serves(p, stream[s], sequences[KeyOf(s)]) => Serves(p, stream'[s], sequences[KeyOf(s)])
<1> DEFINE r == stream[s]
           q == stream'[s]
<1>1. TypeOK /\ Links /\ r \in Stream /\ stream \in [Streams -> Stream] /\ Ids \subseteq Nat
  BY Bounded DEF StateInv, TypeOK
<1>2. KeyOf(s) \in Keys /\ sequences[KeyOf(s)] \in Ids
  BY <1>1, PagesAssumption DEF Links, StreamsLinked, KeyOf, TypeOK
<1>3. r.wire \in Seq(Message)
  BY <1>1, HandlerFields
<1>4. q \in Stream
  BY HandlerTypes, SameTypes, HandlerSteps, <1>1 DEF TypeOK, budget
<1>5. CASE RefuseRequest(s)
  <2>1. q = Returned(r, "error") /\ r.pc = "requested"
    BY <1>1, <1>5 DEF RefuseRequest
  <2> QED
    BY <1>1, <2>1, AnswerServes
<1>6. CASE Subscribe(s)
  <2>1. r.pc = "requested" /\ q = [r EXCEPT !.pc = "subscribed", !.open = TRUE, !.current = sequences[KeyOf(s)]]
    BY <1>1, <1>6 DEF Subscribe
  <2> QED
    BY <1>1, <1>2, <2>1, SubscriptionServes
<1>7. CASE Acquire(s)
  <2>1. r.pc = "subscribed" /\ q = [r EXCEPT !.pc = "accepted"]
    BY <1>1, <1>7 DEF Acquire
  <2>2. /\ q.wire = r.wire /\ q.seen = r.seen /\ q.pc = "accepted" /\ q.current = r.current
        /\ q.notified = r.notified /\ q.open = r.open
    BY <1>1, <2>1 DEF Stream
  <2> QED
    BY <1>1, <1>4, <2>1, <2>2, SilentServes
<1>8. CASE TooMany(s)
  <2>1. q = Returned(r, "error") /\ r.pc = "subscribed"
    BY <1>1, <1>8 DEF TooMany
  <2> QED
    BY <1>1, <2>1, AnswerServes
<1>9. CASE Greet(s)
  <2>1. r.pc = "accepted" /\ q = Sent([r EXCEPT !.pc = "greeted"], <<[kind |-> "id", id |-> r.current]>>)
    BY <1>1, <1>9 DEF Greet
  <2> QED
    BY <1>1, <2>1, GreetingServes
<1>10. CASE CatchUp(s)
  <2>1. r.pc = "greeted" /\ q = Sent([r EXCEPT !.pc = "streaming"], IF r.seen < r.current THEN <<Event(r.current)>> ELSE <<>>)
    BY <1>1, <1>10 DEF CatchUp, Missed
  <2>2. q.pc = "streaming" /\ q.notified = r.notified /\ q.open = r.open
    BY <1>1, <2>1 DEF Sent, Stream
  <2>3. CASE r.seen < r.current
    <3>1. Event(r.current) \in Message
      BY <1>1 DEF Event, Message, Stream
    <3>2. q.wire = Append(r.wire, Event(r.current))
      BY <1>1, <1>3, <2>1, <2>3, <3>1, Appended DEF Sent, Stream
    <3> QED
      BY <1>1, <2>1, <2>2, <2>3, <3>2, CatchingUpServes
  <2>4. CASE ~(r.seen < r.current)
    <3>1. q.wire = r.wire \o <<>>
      BY <1>1, <2>1, <2>4 DEF Sent, Stream
    <3>2. q.wire = r.wire
      BY <1>3, <3>1
    <3> QED
      BY <1>1, <2>1, <2>2, <2>4, <3>2, NothingToCatchUpServes
  <2> QED
    BY <2>3, <2>4
<1>11. CASE Notified(s)
  <2>1. r.pc = "streaming" /\ q = [r EXCEPT !.pc = "woken", !.notified = FALSE]
    BY <1>1, <1>11 DEF Notified
  <2>2. q.wire = r.wire /\ q.seen = r.seen /\ q.pc = "woken"
    BY <1>1, <2>1 DEF Stream
  <2> QED
    BY <1>1, <1>4, <2>1, <2>2, SilentServes
<1>12. CASE WriteResult(s)
  <2> DEFINE m == Event(sequences[KeyOf(s)])
  <2>1. r.pc = "woken" /\ q = Sent([r EXCEPT !.pc = "streaming"], <<m>>)
    BY <1>1, <1>12 DEF WriteResult
  <2>2. m \in Message /\ m.kind = "result"
    BY <1>2 DEF Event, Message
  <2>3. q.pc = "streaming" /\ q.wire = Append(r.wire, m)
    BY <1>1, <1>3, <2>1, <2>2, Appended DEF Sent, Stream
  <2> QED
    BY <1>1, <2>1, <2>2, <2>3, EventServes
<1>13. CASE Leave(s)
  <2>1. r.pc = "streaming" /\ q = [r EXCEPT !.pc = "leaving"]
    BY <1>1, <1>13 DEF Leave, MayEnd
  <2>2. q.wire = r.wire /\ q.seen = r.seen /\ q.pc = "leaving"
    BY <1>1, <2>1 DEF Stream
  <2> QED
    BY <1>1, <1>4, <2>1, <2>2, SilentServes
<1>14. CASE Cancel(s)
  <2>1. r.pc = "leaving" /\ q = [r EXCEPT !.pc = "releasing"]
    BY <1>1, <1>14 DEF Cancel
  <2>2. q.wire = r.wire /\ q.seen = r.seen /\ q.pc = "releasing"
    BY <1>1, <2>1 DEF Stream
  <2> QED
    BY <1>1, <1>4, <2>1, <2>2, SilentServes
<1>15. CASE Release(s)
  <2>1. q = Returned(r, "end") /\ r.pc = "releasing"
    BY <1>1, <1>15 DEF Release
  <2> QED
    BY <1>1, <2>1, AnswerServes
<1> QED
  BY <1>5, <1>6, <1>7, <1>8, <1>9, <1>10, <1>11, <1>12, <1>13, <1>14, <1>15 DEF Handle

\* The ids it writes were given
LEMMA AppendedGiven ==
    ASSUME NEW r \in Stream, NEW n \in Nat, Given(r, n), NEW m \in Message, m.id <= n,
           NEW q, q.wire = Append(r.wire, m), q.seen <= n, q.current <= n
    PROVE  Given(q, n)
<1>1. r.wire \in Seq(Message)
  BY HandlerFields
<1>2. ASSUME NEW i \in 1..Len(q.wire) PROVE q.wire[i].id <= n
  <2>1. (i \in 1..Len(r.wire) /\ q.wire[i] = r.wire[i]) \/ q.wire[i] = m
    BY <1>1, Appended
  <2> QED
    BY <2>1 DEF Given
<1> QED
  BY <1>2 DEF Given

\* What ends an answer has no id.
LEMMA ReturnedGiven ==
    ASSUME TypeOK, NEW r \in Stream, NEW n \in Nat, Given(r, n), NEW kind \in {"error", "end"}
    PROVE  Given(Returned(r, kind), n)
<1> DEFINE m == [kind |-> kind, id |-> 0]
           q == Returned(r, kind)
<1>1. m \in Message /\ m.id = 0
  BY Bounded DEF Message
<1>2. q.seen = 0 /\ q.current = 0 /\ q.wire \in {<<>>, Append(r.wire, m)}
  BY DEF Returned, Unused
<1>3. CASE q.wire = <<>>
  <2>1. Len(<<>>) = 0
    OBVIOUS
  <2> QED
    BY <1>2, <1>3, <2>1 DEF Given
<1>4. CASE q.wire = Append(r.wire, m)
  <2> HIDE DEF m, q
  <2>1. Given(q, n)
    BY <1>1, <1>2, <1>4, AppendedGiven
  <2> QED
    BY <2>1 DEF q
<1> QED
  BY <1>2, <1>3, <1>4

\* A handler writes no id that was not given.
LEMMA HandlerGiven ==
    ASSUME StateInv, IdsGiven, NEW s \in Streams, Handle(s) \/ Leave(s)
    PROVE  Given(stream'[s], sequence)
<1> DEFINE r == stream[s]
           q == stream'[s]
<1>1. TypeOK /\ Links /\ r \in Stream /\ stream \in [Streams -> Stream] /\ Ids \subseteq Nat /\ sequence \in Nat
  BY Bounded DEF StateInv, TypeOK
<1>2. r.wire \in Seq(Message) /\ r.wire \o <<>> = r.wire /\ Given(r, sequence) /\ r.current <= sequence /\ r.seen <= sequence
  BY <1>1, HandlerFields DEF IdsGiven, Given
<1>3. r.pc # "idle" => KeyOf(s) \in Keys /\ sequences[KeyOf(s)] \in Ids /\ sequences[KeyOf(s)] <= sequence
  BY <1>1, PagesAssumption DEF Links, ClientsKnown, KeyOf, TypeOK, IdsGiven
<1>4. ASSUME NEW stage, NEW m \in Message, m.id <= sequence, q = Sent([r EXCEPT !.pc = stage], <<m>>) PROVE Given(q, sequence)
  <2>1. q.seen = r.seen /\ q.current = r.current /\ q.wire \in {r.wire, Append(r.wire, m)}
    BY <1>1, <1>2, <1>4, Appended DEF Sent, Stream
  <2>2. CASE q.wire = r.wire
    BY <1>2, <2>1, <2>2 DEF Given
  <2>3. CASE q.wire = Append(r.wire, m)
    BY <1>1, <1>2, <1>4, <2>1, <2>3, AppendedGiven
  <2> QED
    BY <2>1, <2>2, <2>3
<1>5. ASSUME q.wire = r.wire, q.seen = r.seen, q.current \in {r.current, sequences[KeyOf(s)]}, r.pc # "idle" PROVE Given(q, sequence)
  BY <1>2, <1>3, <1>5 DEF Given
<1>6. CASE RefuseRequest(s) \/ TooMany(s) \/ Release(s)
  <2>1. q = Returned(r, "error") \/ q = Returned(r, "end")
    BY <1>1, <1>6 DEF RefuseRequest, TooMany, Release
  <2> QED
    BY <1>1, <1>2, <2>1, ReturnedGiven
<1>7. CASE Subscribe(s)
  BY <1>1, <1>5, <1>7 DEF Subscribe, Stream
<1>8. CASE Acquire(s)
  BY <1>1, <1>5, <1>8 DEF Acquire, Stream
<1>9. CASE Notified(s)
  BY <1>1, <1>5, <1>9 DEF Notified, Stream
<1>10. CASE Cancel(s)
  BY <1>1, <1>5, <1>10 DEF Cancel, Stream
<1>11. CASE Leave(s)
  BY <1>1, <1>5, <1>11 DEF Leave, MayEnd, Stream
<1>12. CASE Greet(s)
  <2>1. [kind |-> "id", id |-> r.current] \in Message /\ [kind |-> "id", id |-> r.current].id = r.current
    BY <1>1 DEF Message, Stream
  <2>2. q = Sent([r EXCEPT !.pc = "greeted"], <<[kind |-> "id", id |-> r.current]>>)
    BY <1>1, <1>12 DEF Greet
  <2> QED
    BY <1>2, <1>4, <2>1, <2>2
<1>13. CASE CatchUp(s)
  <2>1. Event(r.current) \in Message /\ Event(r.current).id = r.current
    BY <1>1 DEF Message, Stream, Event
  <2>2. \/ q = Sent([r EXCEPT !.pc = "streaming"], <<Event(r.current)>>)
        \/ q = Sent([r EXCEPT !.pc = "streaming"], <<>>)
    <3>1. q = Sent([r EXCEPT !.pc = "streaming"], IF Missed(s) THEN <<Event(r.current)>> ELSE <<>>)
      BY <1>1, <1>13 DEF CatchUp
    <3>2. CASE Missed(s)
      BY <3>1, <3>2
    <3>3. CASE ~Missed(s)
      BY <3>1, <3>3
    <3> QED
      BY <3>2, <3>3
  <2>3. CASE q = Sent([r EXCEPT !.pc = "streaming"], <<>>)
    <3>1. q.seen = r.seen /\ q.current = r.current /\ q.wire \in {r.wire, r.wire \o <<>>}
      BY <1>1, <2>3 DEF Sent, Stream
    <3>2. r.pc # "idle"
      BY <1>13 DEF CatchUp
    <3> QED
      BY <1>2, <1>5, <3>1, <3>2
  <2> QED
    BY <1>2, <1>4, <2>1, <2>2, <2>3
<1>14. CASE WriteResult(s)
  <2>1. KeyOf(s) \in Keys /\ sequences[KeyOf(s)] \in Ids /\ sequences[KeyOf(s)] <= sequence
    BY <1>3, <1>14 DEF WriteResult
  <2>2. Event(sequences[KeyOf(s)]) \in Message /\ Event(sequences[KeyOf(s)]).id = sequences[KeyOf(s)]
    BY <2>1 DEF Message, Event
  <2>3. q = Sent([r EXCEPT !.pc = "streaming"], <<Event(sequences[KeyOf(s)])>>)
    BY <1>1, <1>14 DEF WriteResult
  <2> QED
    BY <1>4, <2>1, <2>2, <2>3
<1> QED
  BY <1>6, <1>7, <1>8, <1>9, <1>10, <1>11, <1>12, <1>13, <1>14 DEF Handle

\* A page goes on being told when neither it, nor its stream, nor the results of its key change.
LEMMA ToldStays ==
    ASSUME NEW c \in Pages, PageTold(c), page'[c] = page[c],
           Newest(c)' = Newest(c), announced'[Watches[c]] = announced[Watches[c]],
           Connected(c) => /\ Begins(Of(c)) => Begins(stream'[page[c].source])
                           /\ Begins(Of(c)) /\ Serves(page[c], Of(c), Newest(c))
                                  => Serves(page[c], stream'[page[c].source], Newest(c))
    PROVE  PageTold(c)'
<1>1. Connected(c)' = Connected(c) /\ Waiting(c)' = Waiting(c)
  BY DEF Connected, Waiting, Behind
<1>2. Of(c)' = stream'[page[c].source]
  BY DEF Of
<1>3. Connected(c) => Begins(stream'[page[c].source])
  BY DEF PageTold
<1>4. Waiting(c) => ToldOf(c)'
  <2>1. Waiting(c) /\ Connected(c) => Serves(page[c], stream'[page[c].source], Newest(c))
    BY DEF PageTold, ToldOf
  <2> QED
    BY <1>1, <1>2, <2>1 DEF PageTold, ToldOf
<1> QED
  BY <1>1, <1>2, <1>3, <1>4 DEF PageTold

\* No step of a handler loses what a page has to be told.
LEMMA HandlerTells ==
    ASSUME StateInv, Told, NEW s \in Streams, Handle(s) \/ Leave(s)
    PROVE  Told'
<1>1. TypeOK /\ Links
  BY DEF StateInv
<1>2. /\ UNCHANGED <<announced, sequence, sequences, page>>
      /\ \A t \in Streams \ {s} : stream'[t] = stream[t]
  BY <1>1, HandlerSteps DEF store
<1>3. IdsGiven'
  <2>1. Given(stream'[s], sequence)
    BY HandlerGiven DEF Told
  <2> QED
    BY <1>2, <2>1 DEF IdsGiven, Told
<1>4. ASSUME NEW c \in Pages PROVE PageTold(c)'
  <2>1. Newest(c)' = Newest(c)
    BY <1>2 DEF Newest
  <2>2. ASSUME Connected(c), page[c].source # s PROVE stream'[page[c].source] = Of(c)
    BY <1>1, <1>2, <2>2 DEF Links, PagesLinked, Connected, Of
  <2>3. ASSUME Connected(c), page[c].source = s, Begins(Of(c))
        PROVE  Begins(stream'[s]) /\ (Serves(page[c], Of(c), Newest(c)) => Serves(page[c], stream'[s], Newest(c)))
    <3>1. stream[s].attached /\ stream[s].client = c /\ Of(c) = stream[s] /\ Newest(c) = sequences[KeyOf(s)]
      BY <1>1, <2>3 DEF Links, PagesLinked, Connected, Of, Newest, KeyOf
    <3> QED
      BY <2>3, <3>1, HandlerServes
  <2> QED
    BY <1>2, <2>1, <2>2, <2>3, ToldStays DEF Told
<1> QED
  BY <1>3, <1>4 DEF Told

\* What a page does, the others do not see.
LEMMA OthersStayTold ==
    ASSUME StateInv, Told, NEW c \in Pages, Browse(c) \/ Cut(c) \/ Hide(c) \/ Show(c) \/ Reopen(c),
           NEW d \in Pages \ {c}
    PROVE  PageTold(d)'
<1>1. TypeOK /\ Links
  BY DEF StateInv
<1>2. /\ UNCHANGED <<announced, sequence, sequences>> /\ page'[d] = page[d]
      /\ Stays(c) \/ Leaves(c) \/ Waits(c) \/ Joins(c)
  BY <1>1, PageSteps DEF store, updates
<1>3. Newest(d)' = Newest(d)
  BY <1>2 DEF Newest
<1>4. ASSUME Connected(d) PROVE stream'[page[d].source] = Of(d)
  <2>1. page[d].source \in Streams /\ stream[page[d].source].attached /\ stream[page[d].source].client = d
    BY <1>1, <1>4 DEF Links, PagesLinked, Connected
  <2>2. CASE Stays(c)
    <3>1. page[c].link = "connected" => stream[page[c].source].client = c
      BY <1>1 DEF Links, PagesLinked
    <3> QED
      BY <2>1, <2>2, <3>1 DEF Stays, Of
  <2>3. CASE Leaves(c)
    <3>1. stream[page[c].source].client = c
      BY <1>1, <2>3 DEF Leaves, Links, PagesLinked
    <3> QED
      BY <2>1, <2>3, <3>1 DEF Leaves, Of
  <2>4. CASE Waits(c)
    BY <2>4 DEF Waits, Of
  <2>5. CASE Joins(c)
    BY <2>1, <2>5 DEF Joins, Of
  <2> QED
    BY <1>2, <2>2, <2>3, <2>4, <2>5
<1> QED
  BY <1>2, <1>3, <1>4, ToldStays DEF Told

\* What arrives at a page, and what it remembers, was given.
LEMMA PageIdsGiven ==
    ASSUME StateInv, IdsGiven, NEW c \in Pages, Browse(c) \/ Cut(c) \/ Hide(c) \/ Show(c) \/ Reopen(c)
    PROVE  IdsGiven'
<1> DEFINE from == page[c].source
           n == sequence
<1>1. TypeOK /\ Links /\ page[c] \in Page /\ page \in [Pages -> Page] /\ Ids \subseteq Nat /\ n \in Nat
  BY Bounded DEF StateInv, TypeOK
<1>2. /\ UNCHANGED <<sequence, sequences>> /\ \A d \in Pages \ {c} : page'[d] = page[d]
      /\ Stays(c) \/ Leaves(c) \/ Waits(c) \/ Joins(c)
  BY <1>1, PageSteps DEF updates
<1>3. PageGiven(page[c], n) /\ \A s \in Streams : Given(stream[s], n) /\ stream[s] \in Stream
  BY <1>1 DEF IdsGiven, TypeOK
<1>4. \A p \in Page : PageGiven(p, n) => /\ PageGiven(Lost(p), n) /\ PageGiven(Reopened(p), n)
                                         /\ \A l : PageGiven(Closed(p, l), n)
  BY <1>1 DEF PageGiven, Lost, Reopened, Closed, Page
<1>5. PageGiven(page'[c], n)
  <2>1. CASE Connect(c)
    BY <1>1, <1>3, <2>1 DEF Connect, PageGiven, Page
  <2>2. CASE Unreachable(c) \/ Reopen(c)
    BY <1>1, <1>3, <1>4, <2>2 DEF Unreachable, Reopen
  <2>3. CASE ReceiveId(c) \/ ReceiveResult(c)
    <3>1. Wire(c) # <<>> /\ Wire(c) \in Seq(Message) /\ from \in Streams /\ Wire(c) = stream[from].wire
      BY <1>1, <2>3, WireRead DEF ReceiveId, ReceiveResult
    <3>2. 1 \in 1..Len(stream[from].wire) /\ Head(Wire(c)) = stream[from].wire[1]
      BY <3>1
    <3>3. Head(Wire(c)).id <= n
      BY <1>3, <3>1, <3>2 DEF Given
    <3>4. CASE ReceiveId(c)
      BY <1>1, <1>3, <3>3, <3>4 DEF ReceiveId, PageGiven, Page
    <3>5. CASE ReceiveResult(c)
      BY <1>1, <1>3, <3>3, <3>5 DEF ReceiveResult, PageGiven, Page
    <3> QED
      BY <2>3, <3>4, <3>5
  <2>4. CASE ReceiveEnd(c)
    <3>1. page'[c] = Lost(page[c]) \/ page'[c] = Closed(page[c], "failed")
      BY <1>1, <2>4 DEF ReceiveEnd
    <3> QED
      BY <1>1, <1>3, <1>4, <3>1
  <2>5. CASE Refresh(c)
    BY <1>1, <1>3, <2>5 DEF Refresh, PageGiven, Page
  <2>6. CASE Cut(c)
    BY <1>1, <1>3, <1>4, <2>6 DEF Cut
  <2>7. CASE Hide(c)
    BY <1>1, <1>3, <2>7 DEF Hide, Closed, PageGiven, Page
  <2>8. CASE Show(c)
    BY <1>1, <1>3, <2>8 DEF Show, Reopened, PageGiven, Page
  <2> QED
    BY <2>1, <2>2, <2>3, <2>4, <2>5, <2>6, <2>7, <2>8 DEF Browse, Receive
<1>6. ASSUME NEW s \in Streams PROVE Given(stream'[s], n)
  <2>1. stream[s].wire \in Seq(Message)
    BY <1>3, HandlerFields
  <2>2. CASE Stays(c)
    <3>1. Alike(stream'[s], stream[s])
      BY <2>2 DEF Stays
    <3>2. CASE stream'[s].wire = stream[s].wire
      BY <1>3, <3>1, <3>2 DEF Alike, Given
    <3>3. CASE stream[s].wire # <<>> /\ stream'[s].wire = Tail(stream[s].wire)
      <4>1. ASSUME NEW i \in 1..Len(stream'[s].wire) PROVE stream'[s].wire[i].id <= n
        BY <1>3, <2>1, <3>3, RestEnds DEF Given
      <4> QED
        BY <1>3, <3>1, <4>1 DEF Alike, Given
    <3> QED
      BY <3>1, <3>2, <3>3 DEF Alike
  <2>3. CASE Leaves(c)
    <3>1. stream'[s] = stream[s] \/ stream'[s] = Detached(stream[s])
      BY <2>3 DEF Leaves
    <3>2. Given(Detached(stream[s]), n)
      <4>1. CASE stream[s].pc = "idle"
        BY <1>1, <4>1 DEF Detached, Unused, Given
      <4>2. CASE stream[s].pc # "idle"
        <5>1. /\ Detached(stream[s]).wire = <<>> /\ Detached(stream[s]).seen = stream[s].seen
              /\ Detached(stream[s]).current = stream[s].current /\ Len(<<>>) = 0
          BY <1>3, <4>2 DEF Detached, Stream
        <5> QED
          BY <1>3, <5>1 DEF Given
      <4> QED
        BY <4>1, <4>2
    <3> QED
      BY <1>3, <3>1, <3>2
  <2>4. CASE Waits(c)
    BY <1>3, <2>4 DEF Waits
  <2>5. CASE Joins(c)
    <3>1. CASE s = page'[c].source
      <4>1. /\ stream'[s].wire = <<>> /\ stream'[s].seen = LastEventID(page[c]) /\ stream'[s].current = 0 /\ Len(<<>>) = 0
        BY <2>5, <3>1 DEF Joins, Unused
      <4>2. LastEventID(page[c]) <= n
        BY <1>3 DEF LastEventID, PageGiven
      <4> QED
        BY <1>1, <4>1, <4>2 DEF Given
    <3>2. CASE s # page'[c].source
      BY <1>3, <2>5, <3>2 DEF Joins
    <3> QED
      BY <3>1, <3>2
  <2> QED
    BY <1>2, <2>2, <2>3, <2>4, <2>5
<1> QED
  BY <1>2, <1>5, <1>6 DEF IdsGiven

\* A page that is not connected: it only has to remember nothing that is new.
LEMMA OfflineTold ==
    ASSUME NEW c \in Pages, page'[c].link # "connected", Newest(c)' = Newest(c),
           Waiting(c)' => Remembers(page'[c], Newest(c)) /\ Forgets(page'[c], Newest(c))
    PROVE  PageTold(c)'
<1>1. ~Connected(c)'
  BY DEF Connected
<1>2. Waiting(c)' => ToldOf(c)'
  BY <1>1 DEF ToldOf
<1> QED
  BY <1>1, <1>2 DEF PageTold

\* A page sends the newest id it knows: the header if it has one, the parameter otherwise.
LEMMA ConnectTold ==
    ASSUME StateInv, NEW c \in Pages, PageTold(c), Connect(c)
    PROVE  PageTold(c)'
<1>1. TypeOK /\ page[c] \in Page /\ page \in [Pages -> Page] /\ stream \in [Streams -> Stream]
  BY DEF StateInv, TypeOK
<1>2. PICK s \in Streams :
        /\ stream'[s] = [Unused EXCEPT !.pc = "requested", !.client = c, !.attached = TRUE, !.seen = LastEventID(page[c])]
        /\ page'[c] = [page[c] EXCEPT !.link = "connected", !.source = s]
  BY <1>1, Bounded DEF Connect
<1> DEFINE p == page'[c]
           r == stream'[s]
<1>3. /\ p.link = "connected" /\ p.source = s /\ p.header = page[c].header /\ p.parameter = page[c].parameter
      /\ p.lastEventId = page[c].lastEventId /\ p.refresh = page[c].refresh /\ p.shown = page[c].shown
  BY <1>1, <1>2 DEF Page
<1>4. r.pc = "requested" /\ r.seen = LastEventID(page[c]) /\ r.wire = <<>> /\ ~r.open /\ Len(<<>>) = 0
  BY <1>2 DEF Unused
<1>5. page[c].link = "connecting" /\ UNCHANGED <<announced, sequences>>
  BY DEF Connect, store, updates
<1>6. Newest(c)' = Newest(c) /\ Of(c)' = r /\ Connected(c)'
  BY <1>3, <1>5 DEF Newest, Of, Connected
<1> HIDE DEF p, r
<1>7. Begins(r)
  BY <1>4 DEF Begins
<1>8. ASSUME Waiting(c)' PROVE Remembers(p, Newest(c)) /\ Serves(p, r, Newest(c))
  <2>1. Waiting(c) /\ ~Connected(c)
    BY <1>3, <1>5, <1>8 DEF Waiting, Behind, Connected, p
  <2>2. Remembers(page[c], Newest(c)) /\ Forgets(page[c], Newest(c))
    BY <2>1 DEF PageTold, ToldOf
  <2>3. Remembers(p, Newest(c)) /\ Forgets(p, Newest(c))
    BY <1>3, <2>2 DEF Remembers, Forgets
  <2>4. LastEventID(page[c]) < Newest(c)
    BY <2>2 DEF Remembers, Forgets, LastEventID
  <2> QED
    BY <1>4, <2>3, <2>4 DEF Serves
<1> QED
  BY <1>6, <1>7, <1>8 DEF PageTold, ToldOf, p, r

\* The id of the stream is remembered as if it were an event; the event then follows.
LEMMA ReceiveIdTold ==
    ASSUME StateInv, NEW c \in Pages, PageTold(c), ReceiveId(c)
    PROVE  PageTold(c)'
<1> DEFINE o == Of(c)
           r == stream'[page[c].source]
           p == page'[c]
           n == Newest(c)
<1>1. TypeOK /\ Links /\ page[c] \in Page /\ page \in [Pages -> Page] /\ stream \in [Streams -> Stream]
  BY DEF StateInv, TypeOK
<1>2. /\ Connected(c) /\ page[c].source \in Streams /\ o \in Stream /\ o.wire \in Seq(Message) /\ o.wire # <<>>
      /\ Head(Wire(c)) = o.wire[1] /\ o.wire[1].kind = "id" /\ Len(o.wire) >= 1 /\ Len(o.wire) \in Nat
  <2>1. Wire(c) # <<>> /\ Head(Wire(c)).kind = "id"
    BY DEF ReceiveId
  <2>2. page[c].link = "connected" /\ page[c].source \in Streams /\ Wire(c) = o.wire /\ Wire(c) \in Seq(Message)
    BY <1>1, <2>1, WireRead DEF Of
  <2> QED
    BY <1>1, <2>1, <2>2 DEF Connected, Of
<1>3. /\ p.link = page[c].link /\ p.source = page[c].source /\ p.header = o.wire[1].id /\ p.parameter = page[c].parameter
      /\ p.lastEventId = page[c].lastEventId /\ p.refresh = page[c].refresh /\ p.shown = page[c].shown
  BY <1>1, <1>2 DEF ReceiveId, Page
<1>4. /\ r.pc = o.pc /\ r.seen = o.seen /\ r.current = o.current /\ r.notified = o.notified /\ r.open = o.open
      /\ r.wire = Tail(o.wire)
  BY <1>1, <1>2 DEF ReceiveId, Of, Stream
<1>5. Newest(c)' = n /\ Of(c)' = r /\ Connected(c)' /\ (Waiting(c)' => Waiting(c))
  BY <1>2, <1>3 DEF ReceiveId, Newest, Of, Connected, Waiting, Behind, store, updates
<1>6. Begins(o)
  BY <1>2 DEF PageTold
<1> HIDE DEF o, r, p, n
<1>7. \A i \in 1..Len(r.wire) : i + 1 \in 1..Len(o.wire) /\ r.wire[i] = o.wire[i + 1]
  BY <1>2, <1>4
<1>8. \A i \in 1..Len(r.wire) : r.wire[i].kind # "id"
  BY <1>6, <1>7 DEF Begins
<1>9. o.pc = "greeted" => o.wire = <<[kind |-> "id", id |-> o.current]>>
  BY <1>2, <1>6 DEF Begins
<1>10. ASSUME o.pc = "greeted" PROVE r.wire = <<>> /\ Len(o.wire) = 1 /\ o.wire[1].id = o.current
  <2> DEFINE m == [kind |-> "id", id |-> o.current]
  <2>1. o.wire = <<m>> /\ m.id = o.current
    BY <1>9, <1>10
  <2> HIDE DEF m
  <2>2. Len(o.wire) = 1 /\ o.wire[1] = m /\ Tail(o.wire) = <<>>
    BY <2>1
  <2> QED
    BY <1>4, <2>1, <2>2
<1>11. Begins(r)
  BY <1>2, <1>4, <1>6, <1>8, <1>10 DEF Begins
<1>12. ASSUME Waiting(c)' PROVE Remembers(p, n) /\ Serves(p, r, n)
  <2>1. Remembers(page[c], n) /\ Serves(page[c], o, n)
    BY <1>2, <1>5, <1>12 DEF PageTold, ToldOf, o, n
  <2>2. Remembers(p, n)
    BY <1>3, <2>1 DEF Remembers
  <2>3. Forgets(p, n) \/ Follows(p, r)
    <3>1. CASE o.wire[1].id < n
      BY <1>3, <3>1 DEF Forgets
    <3>2. CASE ~(o.wire[1].id < n)
      <4>1. IdThenEvent(o)
        <5>1. o.wire[1].id \in Nat /\ n \in Nat
          BY <1>1, <1>2, Bounded, HandlerFields, PagesAssumption DEF n, Newest, TypeOK
        <5> QED
          BY <1>2, <2>1, <3>2, <5>1 DEF Serves
      <4>2. CASE o.pc = "greeted"
        BY <1>3, <1>4, <1>10, <4>1, <4>2 DEF IdThenEvent, Follows
      <4>3. CASE o.pc # "greeted"
        <5>1. Len(o.wire) >= 2 /\ o.wire[2] = Event(p.header)
          BY <1>3, <4>1, <4>3 DEF IdThenEvent
        <5>2. r.wire # <<>> /\ r.wire[1] = o.wire[2]
          <6>1. r.wire \in Seq(Message) /\ Len(r.wire) = Len(o.wire) - 1
            BY <1>2, <1>4
          <6>2. 1 \in 1..Len(r.wire)
            BY <1>2, <5>1, <6>1
          <6> QED
            BY <1>7, <6>1, <6>2
        <5> QED
          BY <5>1, <5>2 DEF Follows
      <4> QED
        BY <4>2, <4>3
    <3> QED
      BY <3>1, <3>2
  <2>4. r.wire # <<>> => r.wire[1].kind # "id"
    <3>1. r.wire # <<>> => 1 \in 1..Len(r.wire)
      BY <1>2, <1>4
    <3> QED
      BY <1>8, <3>1
  <2>5. WillTell(o) => WillTell(r)
    <3>1. ASSUME NEW i \in 1..Len(o.wire), o.wire[i].kind = "result" PROVE WillTell(r)
      <4>1. i # 1 /\ i - 1 \in 1..Len(r.wire) /\ r.wire[i - 1] = o.wire[i]
        BY <1>2, <1>4, <3>1
      <4> QED
        BY <3>1, <4>1 DEF WillTell
    <3> QED
      BY <1>4, <3>1 DEF WillTell
  <2> QED
    BY <1>4, <2>1, <2>2, <2>3, <2>4, <2>5 DEF Serves
<1> QED
  BY <1>5, <1>11, <1>12 DEF PageTold, ToldOf, p, r, n

\* A connection that is lost otherwise than between the id and the event that follows it loses nothing.
LEMMA LostTold ==
    ASSUME NEW c \in Pages, PageTold(c), page'[c] \in {Lost(page[c]), Closed(page[c], "failed")}, page[c] \in Page,
           TypeOK, Connected(c), ~Follows(page[c], Of(c)), Newest(c)' = Newest(c), UNCHANGED announced
    PROVE  PageTold(c)'
<1> DEFINE p == page'[c]
<1>1. /\ p.link # "connected" /\ p.link # "hidden" /\ p.lastEventId = page[c].lastEventId
      /\ p.refresh = page[c].refresh /\ p.shown = page[c].shown
      /\ p.header = None \/ p.header = page[c].header
      /\ p.parameter = 0 \/ p.parameter = page[c].parameter
  BY DEF Lost, Closed, Page
<1>2. ASSUME Waiting(c)' PROVE Remembers(p, Newest(c)) /\ Forgets(p, Newest(c))
  <2>1. Waiting(c)
    BY <1>1, <1>2 DEF Waiting, Behind, Connected
  <2>2. Remembers(page[c], Newest(c)) /\ Forgets(page[c], Newest(c))
    BY <2>1 DEF PageTold, ToldOf, Serves
  <2>3. page[c].lastEventId \in Nat /\ Newest(c) \in Nat
    BY Bounded, PagesAssumption DEF Page, Newest, TypeOK
  <2> HIDE DEF p
  <2> QED
    BY <1>1, <2>2, <2>3 DEF Remembers, Forgets
<1> QED
  BY <1>1, <1>2, OfflineTold

\* No step of a page loses what it has to be told.
LEMMA PageTells ==
    ASSUME CutsGreeting = FALSE, StateInv, Told, NEW c \in Pages,
           Browse(c) \/ Cut(c) \/ Hide(c) \/ Show(c) \/ Reopen(c)
    PROVE  PageTold(c)'
<1> DEFINE p == page'[c]
<1>1. /\ TypeOK /\ Links /\ page[c] \in Page /\ page \in [Pages -> Page] /\ stream \in [Streams -> Stream]
      /\ PageTold(c) /\ Counted /\ Ids \subseteq Nat
  BY Bounded DEF StateInv, TypeOK, Told
<1>2. UNCHANGED <<stored, announced, sequences>> /\ Newest(c)' = Newest(c)
  BY <1>1, PageSteps DEF store, updates, Newest
<1>3. page[c].lastEventId \in Nat /\ Newest(c) \in Nat /\ page[c].lastEventId \in Ids
  BY <1>1, PagesAssumption DEF Page, Newest, TypeOK
<1>4. CASE Connect(c)
  BY <1>1, <1>4, ConnectTold
<1>5. CASE Unreachable(c)
  <2>1. p = Closed(page[c], "failed") /\ page[c].link = "connecting"
    BY <1>1, <1>5 DEF Unreachable
  <2>2. p.link = "failed" /\ p.header = None /\ p.parameter = 0 /\ p.lastEventId = page[c].lastEventId
        /\ p.refresh = page[c].refresh /\ p.shown = page[c].shown
    BY <1>1, <2>1 DEF Closed, Page
  <2>3. Waiting(c)' => Remembers(page[c], Newest(c))
    BY <1>1, <1>2, <2>1, <2>2 DEF Waiting, Behind, PageTold, ToldOf
  <2> HIDE DEF p
  <2>4. Waiting(c)' => Remembers(p, Newest(c)) /\ Forgets(p, Newest(c))
    BY <1>3, <2>2, <2>3 DEF Remembers, Forgets
  <2> QED
    BY <1>2, <2>2, <2>4, OfflineTold DEF p
<1>6. CASE ReceiveId(c)
  BY <1>1, <1>6, ReceiveIdTold
<1>7. CASE ReceiveResult(c) \/ ReceiveEnd(c)
  <2>1. /\ Connected(c) /\ page[c].source \in Streams /\ Of(c) \in Stream /\ Of(c).wire \in Seq(Message) /\ Of(c).wire # <<>>
        /\ Head(Wire(c)) = Of(c).wire[1]
    <3>1. Wire(c) # <<>>
      BY <1>7 DEF ReceiveResult, ReceiveEnd
    <3>2. page[c].link = "connected" /\ page[c].source \in Streams /\ Wire(c) = Of(c).wire /\ Wire(c) \in Seq(Message)
      BY <1>1, <3>1, WireRead DEF Of
    <3> QED
      BY <1>1, <3>1, <3>2 DEF Connected, Of
  <2>2. CASE ReceiveResult(c)
    <3> DEFINE o == Of(c)
               r == stream'[page[c].source]
    <3>1. /\ r.pc = o.pc /\ r.wire = Tail(o.wire) /\ o.wire[1].kind = "result" /\ r.current = o.current
          /\ p.refresh /\ p.link = page[c].link /\ p.source = page[c].source
      BY <1>1, <2>1, <2>2 DEF ReceiveResult, Of, Stream, Page
    <3>2. Begins(o) /\ o.wire \in Seq(Message) /\ o.wire # <<>>
      BY <1>1, <2>1 DEF PageTold
    <3>3. Of(c)' = r /\ Connected(c)' /\ ~Waiting(c)'
      BY <2>1, <3>1 DEF Of, Connected, Waiting
    <3> HIDE DEF o, r
    <3>4. o.pc \notin {"requested", "subscribed", "accepted"}
      BY <3>2 DEF Begins
    <3>5. o.pc # "greeted"
      BY <3>1, <3>2 DEF Begins
    <3>6. \A i \in 1..Len(r.wire) : r.wire[i].kind # "id"
      BY <3>1, <3>2, RestEnds DEF Begins
    <3>7. Begins(r)
      BY <3>1, <3>4, <3>5, <3>6 DEF Begins
    <3> QED
      BY <3>3, <3>7 DEF PageTold
  <2>3. CASE ReceiveEnd(c)
    <3>1. page'[c] \in {Lost(page[c]), Closed(page[c], "failed")} /\ Of(c).wire[1].kind \in {"error", "end"}
      BY <1>1, <2>1, <2>3 DEF ReceiveEnd
    <3>2. Of(c).wire[1] # Event(page[c].header)
      BY <3>1 DEF Event
    <3>3. ~Follows(page[c], Of(c))
      BY <2>1, <3>2 DEF Follows
    <3> QED
      BY <1>1, <1>2, <2>1, <3>1, <3>3, LostTold
  <2> QED
    BY <1>7, <2>2, <2>3
<1>8. CASE Refresh(c)
  <2>1. ~Behind(c)'
    <3>1. p.shown = stored[Watches[c]] /\ Watches[c] \in Keys
      BY <1>1, <1>8, PagesAssumption DEF Refresh, Page
    <3>2. announced[Watches[c]] <= stored[Watches[c]] /\ announced[Watches[c]] \in Nat /\ stored[Watches[c]] \in Nat
      BY <1>1, <3>1 DEF Counted, TypeOK
    <3> QED
      BY <1>2, <3>1, <3>2 DEF Behind
  <2>2. Connected(c)' = Connected(c) /\ (Of(c)' = Of(c))
    BY <1>1, <1>8 DEF Refresh, Connected, Of, Page
  <2> QED
    BY <1>1, <2>1, <2>2 DEF PageTold, Waiting
<1>9. CASE Cut(c)
  <2>1. Connected(c) /\ page'[c] = Lost(page[c]) /\ ~BetweenIdAndEvent(c)
    BY <1>1, <1>9 DEF Cut, Connected
  <2>2. Of(c) \in Stream
    BY <1>1, <2>1 DEF Links, PagesLinked, Connected, Of
  <2>3. ~Follows(page[c], Of(c))
    <3>1. Of(c).wire # <<>> => Head(Of(c).wire) = Of(c).wire[1]
      BY <2>2, HandlerFields
    <3> QED
      BY <2>1, <3>1 DEF BetweenIdAndEvent, Follows, Missed, Of, Event
  <2> QED
    BY <1>1, <1>2, <2>1, <2>3, LostTold
<1>10. CASE Hide(c)
  <2>1. p.link = "hidden"
    BY <1>1, <1>10 DEF Hide, Closed, Page
  <2> QED
    BY <1>2, <2>1, OfflineTold DEF Waiting
<1>11. CASE Show(c)
  <2>1. p.link = "connecting" /\ p.refresh
    BY <1>1, <1>11 DEF Show, Reopened, Page
  <2> QED
    BY <1>2, <2>1, OfflineTold DEF Waiting
<1>12. CASE Reopen(c)
  <2>1. p = Reopened(page[c]) /\ page[c].link = "failed"
    BY <1>1, <1>12 DEF Reopen
  <2>2. p.link = "connecting" /\ p.header = page[c].header /\ p.parameter = page[c].lastEventId
        /\ p.lastEventId = page[c].lastEventId /\ p.refresh = page[c].refresh /\ p.shown = page[c].shown
    BY <1>1, <2>1 DEF Reopened, Page
  <2>3. Waiting(c)' => Remembers(page[c], Newest(c)) /\ Forgets(page[c], Newest(c))
    BY <1>1, <1>2, <2>1, <2>2 DEF Waiting, Behind, PageTold, ToldOf, Connected
  <2> HIDE DEF p
  <2>4. Waiting(c)' => Remembers(p, Newest(c)) /\ Forgets(p, Newest(c))
    BY <2>2, <2>3 DEF Remembers, Forgets
  <2> QED
    BY <1>2, <2>2, <2>4, OfflineTold DEF p
<1> QED
  BY <1>4, <1>5, <1>6, <1>7, <1>8, <1>9, <1>10, <1>11, <1>12 DEF Browse, Receive

\* Publish makes every id that was given older than the newest, and notifies every subscription.
LEMMA PublishTells ==
    ASSUME StateInv, Told, NEW k \in Keys, Publish(k)
    PROVE  Told'
<1>1. /\ TypeOK /\ Links /\ SubscribersAre /\ IdsGiven /\ Ids \subseteq Nat
      /\ stream \in [Streams -> Stream] /\ sequences \in [Keys -> Ids] /\ sequence \in Nat
  BY Bounded DEF StateInv, TypeOK, Told
<1>2. /\ sequence' = sequence + 1 /\ sequences' = [sequences EXCEPT ![k] = sequence + 1] /\ UNCHANGED page
      /\ announced' = [announced EXCEPT ![k] = stored[k]]
      /\ \A s \in Streams : stream'[s] = IF s \in subscribers /\ KeyOf(s) = k THEN [stream[s] EXCEPT !.notified = TRUE] ELSE stream[s]
  BY DEF Publish
<1>3. ASSUME NEW s \in Streams
      PROVE  LET r == stream[s] q == stream'[s] IN
             /\ q.pc = r.pc /\ q.wire = r.wire /\ q.seen = r.seen /\ q.current = r.current /\ q.open = r.open
             /\ r \in Stream
  BY <1>1, <1>2 DEF Stream
<1>4. IdsGiven'
  <2>1. \A l \in Keys : sequences'[l] <= sequence'
    BY <1>1, <1>2 DEF IdsGiven
  <2>2. \A c \in Pages : PageGiven(page'[c], sequence')
    <3> SUFFICES ASSUME NEW c \in Pages PROVE PageGiven(page[c], sequence + 1)
      BY <1>2
    <3>1. PageGiven(page[c], sequence) /\ page[c] \in Page
      BY <1>1 DEF IdsGiven, TypeOK
    <3> QED
      BY <1>1, <3>1 DEF PageGiven, Page
  <2>3. \A s \in Streams : Given(stream'[s], sequence')
    <3> SUFFICES ASSUME NEW s \in Streams PROVE Given(stream'[s], sequence + 1)
      BY <1>2
    <3>1. Given(stream[s], sequence)
      BY <1>1 DEF IdsGiven
    <3>2. stream[s].seen \in Nat /\ stream[s].current \in Nat /\ \A i \in 1..Len(stream[s].wire) : stream[s].wire[i].id \in Nat
      BY <1>1, <1>3, HandlerFields
    <3> QED
      BY <1>1, <1>3, <3>1, <3>2 DEF Given
  <2> QED
    BY <2>1, <2>2, <2>3 DEF IdsGiven
<1>5. ASSUME NEW c \in Pages, Watches[c] # k PROVE PageTold(c)'
  <2>1. Newest(c)' = Newest(c) /\ announced'[Watches[c]] = announced[Watches[c]]
    BY <1>1, <1>2, <1>5, PagesAssumption DEF Newest, TypeOK
  <2>2. ASSUME Connected(c) PROVE stream'[page[c].source] = Of(c)
    BY <1>1, <1>2, <1>5, <2>2 DEF Links, PagesLinked, Connected, Of, KeyOf
  <2> QED
    BY <1>2, <2>1, <2>2, ToldStays DEF Told
<1>6. ASSUME NEW c \in Pages, Watches[c] = k PROVE PageTold(c)'
  <2> DEFINE q == stream'[page[c].source]
             n == sequence + 1
             p == page[c]
  <2>1. Newest(c)' = n /\ Connected(c)' = Connected(c) /\ Of(c)' = q
    BY <1>1, <1>2, <1>6 DEF Newest, Connected, Of
  <2>2. PageGiven(p, sequence) /\ p \in Page
    BY <1>1 DEF IdsGiven, TypeOK
  <2>3. Remembers(p, n) /\ Forgets(p, n)
    <3>1. /\ p.parameter \in Nat /\ p.lastEventId \in Nat
          /\ p.header # None => p.header \in Nat
      BY <1>1, <2>2 DEF Page
    <3>2. /\ p.parameter <= sequence /\ p.lastEventId <= sequence
          /\ p.header # None => p.header <= sequence
      BY <2>2 DEF PageGiven
    <3> HIDE DEF p
    <3> QED
      BY <1>1, <3>1, <3>2 DEF Remembers, Forgets
  <2>4. ASSUME Connected(c), Begins(Of(c)) PROVE Begins(q) /\ Serves(p, q, n)
    <3> DEFINE s == page[c].source
    <3>1. s \in Streams /\ stream[s].client = c /\ KeyOf(s) = k
      BY <1>1, <1>6, <2>4 DEF Links, PagesLinked, Connected, KeyOf
    <3>2. /\ q.pc = stream[s].pc /\ q.wire = stream[s].wire /\ q.seen = stream[s].seen /\ q.current = stream[s].current
          /\ q.open = stream[s].open /\ stream[s] \in Stream
      BY <1>3, <3>1
    <3>3. Given(stream[s], sequence)
      BY <1>1, <3>1 DEF IdsGiven
    <3>4. q.seen < n /\ q.current < n /\ \A i \in 1..Len(q.wire) : q.wire[i].id < n
      <4>1. q.seen \in Nat /\ q.current \in Nat /\ \A i \in 1..Len(q.wire) : q.wire[i].id \in Nat
        BY <1>1, <3>2, HandlerFields
      <4>2. q.seen <= sequence /\ q.current <= sequence /\ \A i \in 1..Len(q.wire) : q.wire[i].id <= sequence
        BY <3>2, <3>3 DEF Given
      <4>3. sequence \in Nat
        BY <1>1
      <4> HIDE DEF q
      <4> QED
        BY <4>1, <4>2, <4>3
    <3>5. Begins(q)
      BY <2>4, <3>2 DEF Begins, Of
    <3>6. q.open /\ q.pc \in Subscribed => q.notified
      <4>1. q.open /\ q.pc \in Subscribed => s \in subscribers
        BY <1>1, <3>1, <3>2 DEF SubscribersAre
      <4>2. s \in subscribers => q = [stream[s] EXCEPT !.notified = TRUE]
        BY <1>2, <3>1
      <4> QED
        BY <3>2, <4>1, <4>2 DEF Stream
    <3>7. q.wire # <<>> => q.wire[1].id < n /\ q.wire[1].id \in Nat
      <4>1. q.wire # <<>> => 1 \in 1..Len(q.wire)
        BY <3>2, HandlerFields
      <4> QED
        BY <1>1, <3>2, <3>4, <4>1, HandlerFields
    <3>8. q.seen \in Nat /\ q.current \in Nat
      BY <1>1, <3>2, HandlerFields
    <3> HIDE DEF q, n, s
    <3>9. n \in Nat
      BY <1>1 DEF n
    <3> QED
      BY <2>3, <3>4, <3>5, <3>6, <3>7, <3>8, <3>9 DEF Serves, WillTell
  <2> QED
    BY <1>2, <2>1, <2>3, <2>4 DEF Told, PageTold, ToldOf
<1> QED
  BY <1>4, <1>5, <1>6 DEF Told

\* A key that is forgotten has no result that a page could wait for.
LEMMA ForgottenTold ==
    ASSUME StateInv, Told, UNCHANGED <<sequence, stream, page>>,
           \A k \in Keys : \/ sequences'[k] = sequences[k] /\ announced'[k] = announced[k]
                           \/ sequences'[k] = 0 /\ announced'[k] = 0
    PROVE  Told'
<1>1. TypeOK /\ Links /\ Ids \subseteq Nat /\ sequence \in Nat
  BY Bounded DEF StateInv, TypeOK
<1>2. IdsGiven'
  <2>1. \A k \in Keys : sequences'[k] <= sequence'
    BY <1>1 DEF Told, IdsGiven
  <2> QED
    BY <2>1 DEF Told, IdsGiven
<1>3. ASSUME NEW c \in Pages PROVE PageTold(c)'
  <2> DEFINE k == Watches[c]
  <2>1. k \in Keys /\ page[c].shown \in Nat
    BY <1>1, PagesAssumption DEF TypeOK, Page
  <2>2. CASE sequences'[k] = sequences[k] /\ announced'[k] = announced[k]
    <3>1. Newest(c)' = Newest(c) /\ (Connected(c) => stream'[page[c].source] = Of(c))
      BY <2>2 DEF Newest, Of
    <3> QED
      BY <2>2, <3>1, ToldStays DEF Told
  <2>3. CASE announced'[k] = 0
    <3>1. ~Behind(c)'
      BY <2>1, <2>3 DEF Behind
    <3>2. (Connected(c) => Begins(Of(c)))'
      BY DEF Told, PageTold, Connected, Of
    <3> QED
      BY <3>1, <3>2 DEF PageTold, Waiting
  <2> QED
    BY <2>1, <2>2, <2>3
<1> QED
  BY <1>2, <1>3 DEF Told

\* Close ends every subscription: a page whose stream ends connects again.
LEMMA CloseTells ==
    ASSUME StateInv, Told, Close
    PROVE  Told'
<1>1. TypeOK /\ Links /\ stream \in [Streams -> Stream] /\ IdsGiven
  BY DEF StateInv, TypeOK, Told
<1>2. /\ UNCHANGED <<announced, sequence, sequences, page>>
      /\ \A s \in Streams : stream'[s] = IF s \in subscribers THEN [stream[s] EXCEPT !.open = FALSE] ELSE stream[s]
  BY DEF Close, store
<1>3. ASSUME NEW s \in Streams
      PROVE  LET r == stream[s] q == stream'[s] IN
             /\ q.pc = r.pc /\ q.wire = r.wire /\ q.seen = r.seen /\ q.current = r.current /\ q.notified = r.notified
             /\ ~q.open \/ q.open = r.open
             /\ r \in Stream /\ q \in Stream
  BY <1>1, <1>2 DEF Stream
<1>4. IdsGiven'
  BY <1>1, <1>2, <1>3 DEF IdsGiven, Given
<1>5. ASSUME NEW c \in Pages PROVE PageTold(c)'
  <2>1. Newest(c)' = Newest(c)
    BY <1>2 DEF Newest
  <2>2. ASSUME Connected(c), Begins(Of(c))
        PROVE  /\ Begins(stream'[page[c].source])
               /\ Serves(page[c], Of(c), Newest(c)) => Serves(page[c], stream'[page[c].source], Newest(c))
    <3>1. page[c].source \in Streams
      BY <1>1, <2>2 DEF Links, PagesLinked, Connected
    <3> QED
      BY <1>3, <2>2, <3>1, SilentServes DEF Of
  <2> QED
    BY <1>2, <2>1, <2>2, ToldStays DEF Told
<1> QED
  BY <1>4, <1>5 DEF Told

\* Every step keeps what the pages have to be told, within the life of the process.
LEMMA TellInvKept ==
    ASSUME CutsGreeting = FALSE, StateInv, TellInv, [Next]_vars
    PROVE  TellInv'
<1>1. crashes \in Nat
  BY Bounded DEF StateInv, TypeOK
<1>2. CASE Crash
  <2>1. crashes' = crashes + 1
    BY <1>2 DEF Crash
  <2> QED
    BY <1>1, <2>1 DEF TellInv
<1>3. CASE ~Crash
  <2>1. UNCHANGED crashes
    BY <1>3 DEF Next, vars, budget, Store, Publish, Forget, CreateEndpoint, Close, Shutdown, Start, Handle, Leave, Browse, Receive,
       RefuseRequest, Subscribe, Acquire, TooMany, Greet, CatchUp, Notified, WriteResult, Cancel, Release,
       Connect, Unreachable, ReceiveId, ReceiveResult, ReceiveEnd, Refresh, Cut, Hide, Show, Reopen
  <2> SUFFICES ASSUME Told PROVE Told'
    BY <2>1 DEF TellInv
  <2>2. ASSUME NEW k \in Keys, Store(k) \/ CreateEndpoint(k) PROVE Told'
    BY <2>2, ForgottenTold DEF Store, CreateEndpoint, updates
  <2>3. ASSUME NEW k \in Keys, Publish(k) PROVE Told'
    BY <2>3, PublishTells
  <2>4. ASSUME NEW k \in Keys, Forget(k) PROVE Told'
    BY <2>4, ForgottenTold DEF Forget, StateInv, TypeOK
  <2>5. CASE Close
    BY <2>5, CloseTells
  <2>6. CASE Shutdown
    BY <2>6, ForgottenTold DEF Shutdown, store, updates
  <2>7. CASE Start
    BY <2>7, ForgottenTold DEF Start
  <2>8. ASSUME NEW s \in Streams, Handle(s) \/ Leave(s) PROVE Told'
    BY <2>8, HandlerTells
  <2>9. ASSUME NEW c \in Pages, Browse(c) \/ Cut(c) \/ Hide(c) \/ Show(c) \/ Reopen(c) PROVE Told'
    <3>1. IdsGiven'
      BY <2>9, PageIdsGiven DEF Told
    <3>2. PageTold(c)'
      BY <2>9, PageTells
    <3>3. \A d \in Pages \ {c} : PageTold(d)'
      BY <2>9, OthersStayTold
    <3> QED
      BY <3>1, <3>2, <3>3 DEF Told
  <2>10. CASE UNCHANGED vars
    BY <2>10, ForgottenTold DEF vars, store, updates
  <2> QED
    BY <1>3, <2>2, <2>3, <2>4, <2>5, <2>6, <2>7, <2>8, <2>9, <2>10 DEF Next
<1> QED
  BY <1>2, <1>3

(* A page never waits on a quiet stream while a published result was not fetched, as long as the process lives and no
   connection is cut between the id of a stream and the event the client missed (writeEndpointEvents, Publish). That the
   page fetches what it was told of is assumed, as in the model. *)
THEOREM NothingMissedAlways ==
    ASSUME CutsGreeting = FALSE
    PROVE  Spec => []NothingMissed
<1>1. Init => TellInv
  <2> SUFFICES ASSUME Init PROVE Told
    BY DEF TellInv
  <2>1. Len(<<>>) = 0
    OBVIOUS
  <2>2. IdsGiven
    BY <2>1 DEF Init, IdsGiven, PageGiven, Given, Unused, NewPage
  <2>3. \A c \in Pages : ~Connected(c) /\ ~Behind(c)
    BY PagesAssumption DEF Init, NewPage, Connected, Behind
  <2> QED
    BY <2>2, <2>3 DEF Told, PageTold, Waiting
<1>2. StateInv /\ TellInv /\ [Next]_vars => TellInv'
  BY TellInvKept
<1>3. StateInv /\ TellInv => NothingMissed
  <2> SUFFICES ASSUME StateInv, Told, NEW c \in Pages, Quiet(c), Behind(c) PROVE FALSE
    BY DEF NothingMissed, TellInv
  <2>1. /\ Connected(c) /\ Waiting(c) /\ Of(c).pc = "streaming" /\ Of(c).open /\ ~Of(c).notified /\ Of(c).wire = <<>>
    BY DEF Quiet, Connected, Waiting, Of
  <2>2. Serves(page[c], Of(c), Newest(c))
    BY <2>1 DEF Told, PageTold, ToldOf
  <2>3. Len(<<>>) = 0
    OBVIOUS
  <2> QED
    BY <2>1, <2>2, <2>3 DEF Serves, WillTell, Subscribed
<1> QED
  BY <1>1, <1>2, <1>3, StateInvariant, PTL DEF Spec

=============================================================================
