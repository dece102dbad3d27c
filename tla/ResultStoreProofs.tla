-------------------------- MODULE ResultStoreProofs --------------------------
(***************************************************************************)
(* What is shown of the results and what is kept of the administration.    *)
(* For any endpoints, limits and calls: the events of an endpoint tell its *)
(* health, a result of a suite is linked to those of its endpoints, the    *)
(* store in memory shows the page the SQL store shows, and, with a single  *)
(* connection, a cached page is the page of the rows; a status page        *)
(* answers with what its visitor may see; and a restore of a backup does   *)
(* what its preview showed and its plan predicted.                         *)
(***************************************************************************)
EXTENDS ResultStore, StatusPages, AdminRestore, SequenceTheorems, FiniteSetTheorems, WellFoundedInduction, TLAPS

\* An endpoint without rows is told apart from one that has some.
NoneIsNoRow ==
    \A results, events, uptime, buckets :
        [results |-> results, events |-> events, uptime |-> uptime, buckets |-> buckets] # None

-----------------------------------------------------------------------------
(* The inductive invariant *)

Results == [id : Nat, kind : Kinds]
Events == {"START", "HEALTHY", "UNHEALTHY"}
Labels == {"idle", "refresh", "commit", "bucket", "lookup", "fill", "end", "wipe"}
Losses == Unchecked \cup {"bucket", "commit", "memory"}
Failures == Unchecked \cup {"nothing"}

\* Where a client is when it has a transaction
InTransaction == {"refresh", "commit", "lookup", "fill", "end"}

IsRow(row) ==
    row = [results |-> row.results, events |-> row.events, uptime |-> row.uptime, buckets |-> row.buckets]
IsStatus(status) == status = [results |-> status.results, events |-> status.events]

\* A START only ever comes first, unless a count of the events failed, and no event is followed by itself.
Alternates(events, miscounted) ==
    \A i \in 2..Len(events) : IF events[i] = "START" THEN miscounted ELSE events[i] # events[i - 1]

\* Whether a count of the events of the endpoint failed
Miscounted(k) == "count" \in lost[k]

OnlyStarts(events) == \A i \in 1..Len(events) : events[i] = "START"

\* The last health event is the health, unless the STARTs of counts that failed pushed it out.
Tells(events, health, miscounted) == LastHealthIs(events, health) \/ (miscounted /\ OnlyStarts(events))

\* The rows of an endpoint: events that alternate, and neither too many results nor too many events, but for those that
\* some failures left
EndpointRow(row, failed, miscounted) ==
    /\ IsRow(row)
    /\ row.results \in Seq(Results) /\ row.events \in Seq(Events)
    /\ Len(row.results) <= MaxResults + Slack + failed
    /\ Len(row.events) <= MaxEvents + Slack + 1 + 2 * failed
    /\ Alternates(row.events, miscounted)

\* No endpoint has more rows than its limits and the rows that are removed together, with the event that START adds and
\* what failures left
EndpointsBounded ==
    \A k \in EndpointKeys : data[k] # None =>
        /\ Len(data[k].results) <= MaxResults + Slack + failures
        /\ Len(data[k].events) <= MaxEvents + Slack + 1 + 2 * failures

\* The rows of an endpoint of a suite, which has no events
SuiteRow(row) == IsRow(row) /\ row.events = <<>>

ClientsTyped ==
    /\ pc \in [Clients -> Labels] /\ DOMAIN wanted = Clients
    /\ \A k \in EndpointKeys : pc[k] \in {"idle", "refresh", "commit", "bucket"}
    /\ pc["suite"] = "idle"
    /\ pc["reader"] \in {"idle", "lookup", "fill", "end"}
    /\ pc["remover"] \in {"idle", "wipe"}
    /\ pc["reader"] # "idle" => wanted["reader"] \in Keys
    /\ pc["remover"] # "idle" => wanted["remover"] \in SUBSET Keys

\* The clients in the course of a transaction are those that have a connection.
Connected ==
    /\ IsFiniteSet(DOMAIN open) /\ Cardinality(DOMAIN open) <= Connections
    /\ DOMAIN open = {c \in Clients : pc[c] \in InTransaction}

CachesTyped ==
    /\ DOMAIN cache = Keys
    /\ \A k \in Keys : cache[k] # None => IsStatus(cache[k])
    /\ pc["reader"] = "fill" => IsStatus(shown)

Counted ==
    /\ workload \in Workload
    /\ now \in 0..workload.hours
    /\ inserts \in 0..workload.inserts /\ failures \in 0..workload.failures
    /\ lost \in [Keys -> SUBSET Losses]
    /\ suite \in Seq(Nat) /\ Len(suite) <= MaxResults + Slack

\* The rows before an insertion, which are new if there are none
Old(row) == IF row = None THEN NewRow ELSE row

\* Whether rows are those after an insertion in which a statement failed, as far as its result and its event are
\* concerned
Insertion(inserted, row, result, failed) ==
    /\ inserted # None /\ IsRow(inserted)
    /\ inserted.results = LET results == Append(Old(row).results, result) IN
                            IF failed = "oldResults" THEN results ELSE Trimmed(results)
    /\ inserted.events = EventsAfter(Old(row), result, failed)

\* While a result is inserted, the transaction would commit what was committed before and the result, and what failed of
\* it is known.
Inserting(k) ==
    /\ pc[k] # "idle" => wanted[k] \in Results
    /\ pc[k] \in {"refresh", "commit"} =>
        /\ EndpointRow(open[k], failures, Miscounted(k))
        /\ \E failed \in Failures :
            Insertion(open[k], data[k], wanted[k], failed) /\ (failed # "nothing" => failed \in lost[k])

\* An endpoint without rows has no health, and the events of the others tell their health, unless an event was lost.
HealthKnown(k) ==
    /\ lastHealth[k] \in {None, "HEALTHY", "UNHEALTHY"}
    /\ data[k] = None => lastHealth[k] = None
    /\ data[k] # None /\ lastHealth[k] # None /\ "event" \notin lost[k] =>
        Tells(data[k].events, lastHealth[k], Miscounted(k))

\* The store in memory has the latest results and events of those of the SQL store, which has a START at least.
Follows(row, remembered) ==
    /\ IsRow(remembered) /\ row.events # <<>>
    /\ remembered.results = Latest(row.results, MaxResults)
    /\ remembered.events = Latest(row.events, MaxEvents)

MemoryFollows(k) ==
    Comparable(k) =>
        /\ data[k] = None <=> memory[k] = None
        /\ data[k] # None => Follows(data[k], memory[k])

EndpointInv(k) ==
    /\ data[k] # None => EndpointRow(data[k], failures, Miscounted(k))
    /\ Inserting(k) /\ HealthKnown(k) /\ MemoryFollows(k)

Typed ==
    /\ DOMAIN data = Keys /\ DOMAIN memory = Keys /\ DOMAIN lastHealth = Keys
    /\ ClientsTyped /\ Connected /\ CachesTyped /\ Counted

StoreInv ==
    /\ Typed
    /\ \A k \in EndpointKeys : EndpointInv(k)
    /\ \A k \in SuiteKeys : data[k] # None => SuiteRow(data[k])

\* What is known of a cached page while a single connection is used: it is current, and once it was read in the
\* transaction of an insertion it is what that transaction would commit.
PageKnown(k) ==
    cache[k] # None /\ k \notin ToWipe =>
        /\ pc[k] \notin {"refresh", "commit"} /\ "commit" \notin lost[k] =>
               data[k] # None /\ cache[k] = StatusOf(data[k])
        /\ pc[k] = "commit" => cache[k] = StatusOf(open[k])

\* The page a reader is about to cache is current.
PageRead ==
    pc["reader"] = "fill" /\ wanted["reader"] \in EndpointKeys =>
        data[wanted["reader"]] # None /\ shown = StatusOf(data[wanted["reader"]])

CacheInv == (\A k \in EndpointKeys : PageKnown(k)) /\ PageRead

-----------------------------------------------------------------------------
(* The end of a sequence *)

\* What Latest returns: as much of the end of the sequence as is asked for.
LEMMA LatestIs ==
    ASSUME NEW S, NEW seq \in Seq(S), NEW n \in Nat
    PROVE  /\ Latest(seq, n) \in Seq(S)
           /\ Len(Latest(seq, n)) = IF Len(seq) <= n THEN Len(seq) ELSE n
           /\ \A i \in 1..Len(Latest(seq, n)) :
                 Latest(seq, n)[i] = seq[Len(seq) - Len(Latest(seq, n)) + i]
<1>1. Len(seq) \in Nat /\ \A i \in 1..Len(seq) : seq[i] \in S
  BY LenProperties, ElementOfSeq
<1>2. CASE Len(seq) <= n
  <2>1. Latest(seq, n) = seq
    BY <1>2 DEF Latest
  <2>2. \A i \in 1..Len(seq) : seq[i] = seq[Len(seq) - Len(seq) + i]
    BY <1>1
  <2> QED
    BY <1>2, <2>1, <2>2
<1>3. CASE ~(Len(seq) <= n)
  <2> DEFINE first == Len(seq) - n + 1
  <2>1. Latest(seq, n) = SubSeq(seq, first, Len(seq))
    BY <1>3 DEF Latest
  <2>2. first \in Int /\ first >= 1 /\ Len(seq) - first + 1 = n /\ first <= Len(seq) + 1
    BY <1>1, <1>3
  <2>3. first \in Int /\ Len(seq) \in Int /\ \A i \in first..Len(seq) : seq[i] \in S
    BY <1>1, <2>2
  <2>4. /\ SubSeq(seq, first, Len(seq)) \in Seq(S)
        /\ Len(SubSeq(seq, first, Len(seq))) = IF first <= Len(seq) THEN Len(seq) - first + 1 ELSE 0
        /\ \A i \in 1..(Len(seq) - first + 1) : SubSeq(seq, first, Len(seq))[i] = seq[first + i - 1]
    <3> HIDE DEF first
    <3> QED
      BY <2>3, SubSeqProperties
  <2>5. Len(SubSeq(seq, first, Len(seq))) = n
    BY <1>1, <1>3, <2>2, <2>4
  <2>6. \A i \in 1..n : SubSeq(seq, first, Len(seq))[i] = seq[Len(seq) - n + i]
    BY <1>1, <2>2, <2>4
  <2> HIDE DEF first
  <2> QED
    BY <1>1, <1>3, <2>1, <2>4, <2>5, <2>6
<1> QED
  BY <1>2, <1>3

\* A sequence that is as much of the end as is asked for is what Latest returns.
LEMMA IsLatest ==
    ASSUME NEW S, NEW seq \in Seq(S), NEW n \in Nat, NEW t \in Seq(S),
           Len(t) = IF Len(seq) <= n THEN Len(seq) ELSE n,
           \A i \in 1..Len(t) : t[i] = seq[Len(seq) - Len(t) + i]
    PROVE  t = Latest(seq, n)
<1>1. PICK u \in Seq(S) : u = Latest(seq, n)
  BY LatestIs
<1>2. Len(u) = Len(t) /\ \A i \in 1..Len(u) : u[i] = seq[Len(seq) - Len(u) + i]
  BY <1>1, LatestIs
<1>3. t = u
  BY <1>2, SeqEqual
<1> QED
  BY <1>1, <1>3

\* The end of the end of a sequence is the end of the sequence.
LEMMA LatestOfLatest ==
    ASSUME NEW S, NEW seq \in Seq(S), NEW n \in Nat, NEW m \in Nat, n <= m
    PROVE  Latest(Latest(seq, m), n) = Latest(seq, n)
<1>1. PICK u \in Seq(S) : u = Latest(seq, m)
  BY LatestIs
<1>2. PICK t \in Seq(S) : t = Latest(u, n)
  BY LatestIs
<1>3. /\ Len(u) = (IF Len(seq) <= m THEN Len(seq) ELSE m)
      /\ \A i \in 1..Len(u) : u[i] = seq[Len(seq) - Len(u) + i]
  BY <1>1, LatestIs
<1>4. /\ Len(t) = (IF Len(u) <= n THEN Len(u) ELSE n)
      /\ \A i \in 1..Len(t) : t[i] = u[Len(u) - Len(t) + i]
  BY <1>2, LatestIs
<1>5. Len(seq) \in Nat /\ Len(u) \in Nat /\ Len(t) \in Nat
  BY LenProperties
<1>6. Len(t) = IF Len(seq) <= n THEN Len(seq) ELSE n
  BY <1>3, <1>4, <1>5
<1>7. ASSUME NEW i \in 1..Len(t) PROVE t[i] = seq[Len(seq) - Len(t) + i]
  <2>1. Len(u) - Len(t) + i \in 1..Len(u)
    BY <1>4, <1>5
  <2>2. Len(seq) - Len(u) + (Len(u) - Len(t) + i) = Len(seq) - Len(t) + i
    BY <1>5
  <2> QED
    BY <1>3, <1>4, <2>1, <2>2
<1> QED
  BY <1>1, <1>2, <1>6, <1>7, IsLatest, ZenonT(60)

\* The end of a sequence to which another is added does not depend on more than its end.
LEMMA LatestOfConcat ==
    ASSUME NEW S, NEW seq \in Seq(S), NEW added \in Seq(S), NEW n \in Nat
    PROVE  Latest(seq \o added, n) = Latest(Latest(seq, n) \o added, n)
<1>1. PICK u \in Seq(S) : u = Latest(seq, n)
  BY LatestIs
<1>2. PICK s \in Seq(S) : s = seq \o added
  BY ConcatProperties
<1>3. PICK v \in Seq(S) : v = u \o added
  BY ConcatProperties
<1>4. PICK t \in Seq(S) : t = Latest(v, n)
  BY LatestIs
<1>5. /\ Len(u) = (IF Len(seq) <= n THEN Len(seq) ELSE n)
      /\ \A i \in 1..Len(u) : u[i] = seq[Len(seq) - Len(u) + i]
  BY <1>1, LatestIs
<1>6. /\ Len(t) = (IF Len(v) <= n THEN Len(v) ELSE n)
      /\ \A i \in 1..Len(t) : t[i] = v[Len(v) - Len(t) + i]
  BY <1>4, LatestIs
<1>7. /\ Len(s) = Len(seq) + Len(added)
      /\ \A i \in 1..Len(s) : s[i] = IF i <= Len(seq) THEN seq[i] ELSE added[i - Len(seq)]
  BY <1>2, ConcatProperties
<1>8. /\ Len(v) = Len(u) + Len(added)
      /\ \A i \in 1..Len(v) : v[i] = IF i <= Len(u) THEN u[i] ELSE added[i - Len(u)]
  BY <1>3, ConcatProperties
<1>9. Len(seq) \in Nat /\ Len(added) \in Nat /\ Len(u) \in Nat /\ Len(t) \in Nat
  BY LenProperties
<1>10. PICK lq \in Nat, la \in Nat, lu \in Nat, lt \in Nat, ls \in Nat, lv \in Nat :
          /\ lq = Len(seq) /\ la = Len(added) /\ lu = Len(u) /\ lt = Len(t) /\ ls = Len(s) /\ lv = Len(v)
  BY <1>9, LenProperties
<1>11. /\ ls = lq + la /\ lv = lu + la
       /\ (lq <= n => lu = lq) /\ (lq > n => lu = n)
       /\ (lv <= n => lt = lv) /\ (lv > n => lt = n)
  BY <1>5, <1>6, <1>7, <1>8, <1>10
<1>12. (ls <= n => lt = ls) /\ (~(ls <= n) => lt = n) /\ lt <= lv /\ lt <= ls /\ lu <= lq
  BY <1>11
<1>13. ASSUME NEW i \in 1..Len(t) PROVE t[i] = s[Len(s) - Len(t) + i]
  <2> DEFINE j == Len(v) - Len(t) + i
             o == Len(s) - Len(t) + i
  <2>1. j = lv - lt + i
    BY <1>10
  <2>2. o = ls - lt + i
    BY <1>10
  <2>3. t[i] = v[j] /\ s[o] = s[Len(s) - Len(t) + i]
    BY <1>6
  <2> HIDE DEF j, o
  <2>4. j \in 1..Len(v) /\ o \in 1..Len(s) /\ o = j + (Len(seq) - Len(u))
    <3>1. i \in 1..lt /\ j = lv - lt + i /\ o = ls - lt + i
      BY <1>10, <2>1, <2>2
    <3>2. j \in 1..lv /\ o \in 1..ls /\ o = j + (lq - lu)
      BY <1>11, <1>12, <3>1
    <3> QED
      BY <1>10, <3>2
  <2>5. Len(u) <= Len(seq) /\ j \in Int /\ o \in Int
    BY <1>10, <1>12, <2>4
  <2>6. CASE j <= Len(u)
    <3>1. j \in 1..Len(u)
      BY <1>9, <2>4, <2>5, <2>6
    <3>2. u[j] = seq[Len(seq) - Len(u) + j]
      BY <1>5, <3>1
    <3>3. v[j] = u[j]
      BY <1>8, <2>4, <2>6
    <3>4. o <= Len(seq) /\ o = Len(seq) - Len(u) + j
      BY <1>9, <2>4, <2>5, <2>6
    <3>5. s[o] = seq[o]
      BY <1>7, <2>4, <3>4
    <3> QED
      BY <2>3, <3>3, <3>4, <3>5, <3>2
  <2>7. CASE ~(j <= Len(u))
    <3>1. v[j] = added[j - Len(u)]
      BY <1>8, <2>4, <2>7
    <3>2. ~(o <= Len(seq)) /\ o - Len(seq) = j - Len(u)
      BY <1>9, <2>4, <2>5, <2>7
    <3>3. s[o] = added[o - Len(seq)]
      BY <1>7, <2>4, <3>2
    <3> QED
      BY <2>3, <3>1, <3>2, <3>3
  <2> QED
    BY <2>6, <2>7
<1>14. Len(t) = IF Len(s) <= n THEN Len(s) ELSE n
  BY <1>10, <1>12
<1>15. t = Latest(s, n)
  BY <1>13, <1>14, IsLatest
<1> QED
  BY <1>1, <1>2, <1>3, <1>4, <1>15

\* An appended element is a sequence of its own that is added.
LEMMA AppendedIsConcat ==
    ASSUME NEW S, NEW seq \in Seq(S), NEW e \in S
    PROVE  <<e>> \in Seq(S) /\ Append(seq, e) \in Seq(S) /\ Append(seq, e) = seq \o <<e>>
<1>1. <<e>> \in Seq(S) /\ Append(seq, e) \in Seq(S) /\ seq \o <<e>> \in Seq(S)
  BY ConcatProperties
<1>2. /\ Len(Append(seq, e)) = Len(seq) + 1 /\ Len(<<e>>) = 1 /\ <<e>>[1] = e
      /\ \A i \in 1..(Len(seq) + 1) : Append(seq, e)[i] = IF i <= Len(seq) THEN seq[i] ELSE e
  OBVIOUS
<1>3. /\ Len(seq \o <<e>>) = Len(seq) + 1
      /\ \A i \in 1..(Len(seq) + 1) : (seq \o <<e>>)[i] = IF i <= Len(seq) THEN seq[i] ELSE <<e>>[i - Len(seq)]
  BY <1>1, <1>2, ConcatProperties
<1>4. ASSUME NEW i \in 1..(Len(seq) + 1) PROVE Append(seq, e)[i] = (seq \o <<e>>)[i]
  <2>1. Len(seq) \in Nat /\ (~(i <= Len(seq)) => i - Len(seq) = 1)
    BY LenProperties
  <2> QED
    BY <1>2, <1>3, <2>1
<1> QED
  BY <1>1, <1>2, <1>3, <1>4, SeqEqual

-----------------------------------------------------------------------------
(* Pages, and events *)

\* A first page is the end of the rows, in either store.
LEMMA FirstPages ==
    ASSUME NEW S, NEW seq \in Seq(S), NEW size \in Nat \ {0}
    PROVE  FirstPage(seq, size) = Latest(seq, size) /\ MemoryPage(seq, 1, size) = Latest(seq, size)
<1>1. PICK n \in Nat : n = Len(seq)
  BY LenProperties
<1>2. SubSeq(seq, 1, n) = seq
  BY <1>1, SubSeqFull
<1>3. Page(seq, 1, size) = SubSeq(seq, n - size + 1, n)
  <2>1. 1 * size = size /\ (1 - 1) * size = 0 /\ n - 0 = n
    BY <1>1
  <2> QED
    BY <1>1, <2>1 DEF Page
<1>4. EndIndex(n, 1, size) = n /\ StartIndex(n, 1, size) = IF n < size THEN 0 ELSE n - size
  <2>1. 1 * size = size /\ (1 - 1) * size = 0 /\ n - 0 = n /\ (n - size < 0 <=> n < size)
    OBVIOUS
  <2>2. EndIndex(n, 1, size) = n
    BY <2>1 DEF EndIndex
  <2>3. StartIndex(n, 1, size) = IF n < size THEN 0 ELSE n - size
    BY <2>1 DEF StartIndex
  <2> QED
    BY <2>2, <2>3
<1>5. MemoryPage(seq, 1, size) = SubSeq(seq, (IF n < size THEN 0 ELSE n - size) + 1, n)
  <2>1. MemoryPage(seq, 1, size) = SubSeq(seq, StartIndex(n, 1, size) + 1, n)
    BY <1>1, <1>4 DEF MemoryPage
  <2> QED
    BY <1>4, <2>1
<1>6. CASE n < size
  <2>1. FirstPage(seq, size) = seq /\ Latest(seq, size) = seq
    BY <1>1, <1>6 DEF FirstPage, Latest
  <2> QED
    BY <1>2, <1>5, <1>6, <2>1
<1>7. CASE n = size
  <2>1. n - size + 1 = 1 /\ (IF n < size THEN 0 ELSE n - size) + 1 = 1
    BY <1>7
  <2>2. FirstPage(seq, size) = Page(seq, 1, size) /\ Latest(seq, size) = seq
    BY <1>1, <1>7 DEF FirstPage, Latest
  <2> QED
    BY <1>2, <1>3, <1>5, <2>1, <2>2
<1>8. CASE n > size
  <2>1. FirstPage(seq, size) = Page(seq, 1, size) /\ Latest(seq, size) = SubSeq(seq, n - size + 1, n)
    BY <1>1, <1>8 DEF FirstPage, Latest
  <2> QED
    BY <1>3, <1>5, <1>8, <2>1
<1> QED
  BY <1>6, <1>7, <1>8

\* The store in memory shows the page the SQL store shows, of the rows it follows.
LEMMA SamePages ==
    ASSUME PageSize <= MaxResults, PageSize <= MaxEvents,
           NEW row, row.results \in Seq(Results), row.events \in Seq(Events),
           NEW remembered, Follows(row, remembered)
    PROVE  StatusOf(row) = MemoryStatusOf(remembered)
<1>1. PageSize \in Nat \ {0} /\ MaxResults \in Nat /\ MaxEvents \in Nat
  BY StoreAssumption
<1>2. PICK r \in Seq(Results) : r = remembered.results /\ r = Latest(row.results, MaxResults)
  BY <1>1, LatestIs DEF Follows
<1>3. PICK e \in Seq(Events) : e = remembered.events /\ e = Latest(row.events, MaxEvents)
  BY <1>1, LatestIs DEF Follows
<1>4. FirstPage(row.results, PageSize) = MemoryPage(r, 1, PageSize)
  BY <1>1, <1>2, FirstPages, LatestOfLatest
<1>5. FirstPage(row.events, PageSize) = MemoryPage(e, 1, PageSize)
  BY <1>1, <1>3, FirstPages, LatestOfLatest
<1> QED
  BY <1>2, <1>3, <1>4, <1>5 DEF StatusOf, MemoryStatusOf

Healths == {"HEALTHY", "UNHEALTHY"}

\* The last health event is the last event, unless this is the START.
LEMMA LastHealthIsLast ==
    ASSUME NEW events \in Seq(Events), Len(events) >= 1, events[Len(events)] # "START", NEW health \in Healths
    PROVE  LastHealthIs(events, health) <=> events[Len(events)] = health
<1>1. PICK n \in Nat : n = Len(events)
  BY LenProperties
<1>2. ASSUME LastHealthIs(events, health) PROVE events[n] = health
  <2>1. PICK i \in 1..n : events[i] = health /\ \A j \in (i + 1)..n : events[j] = "START"
    BY <1>1, <1>2 DEF LastHealthIs
  <2>2. i = n
    BY <1>1, <2>1
  <2> QED
    BY <2>1, <2>2
<1>3. ASSUME events[n] = health PROVE LastHealthIs(events, health)
  <2>1. n \in 1..n /\ \A j \in (n + 1)..n : events[j] = "START"
    BY <1>1
  <2> QED
    BY <1>1, <1>3, <2>1 DEF LastHealthIs
<1> QED
  BY <1>1, <1>2, <1>3

\* The end of events that alternate alternates, and tells the same health.
LEMMA LatestEvents ==
    ASSUME NEW events \in Seq(Events), NEW miscounted \in BOOLEAN, Alternates(events, miscounted), NEW n \in Nat \ {0}
    PROVE  /\ Alternates(Latest(events, n), miscounted)
           /\ \A health \in Healths :
                Tells(events, health, miscounted) => Tells(Latest(events, n), health, miscounted)
           /\ ~miscounted => \A health \in Healths :
                LastHealthIs(Latest(events, n), health) <=> LastHealthIs(events, health)
<1>1. PICK t \in Seq(Events) : t = Latest(events, n)
  BY LatestIs
<1>2. PICK le \in Nat, lt \in Nat : le = Len(events) /\ lt = Len(t)
  BY LenProperties
<1>3. /\ (le <= n => lt = le) /\ (~(le <= n) => lt = n)
      /\ \A i \in 1..lt : t[i] = events[le - lt + i]
  <2>1. /\ Len(t) = IF Len(events) <= n THEN Len(events) ELSE n
        /\ \A i \in 1..Len(t) : t[i] = events[Len(events) - Len(t) + i]
    BY <1>1, LatestIs
  <2> QED
    BY <1>2, <2>1
<1>4. CASE le <= n
  <2>1. t = events
    BY <1>1, <1>2, <1>4 DEF Latest
  <2> QED
    BY <1>1, <2>1
<1>5. CASE le > n
  <2>1. lt = n /\ lt >= 1 /\ le >= 2 /\ le - lt >= 1
    BY <1>3, <1>5
  <2>2. ASSUME NEW i \in 2..lt PROVE IF t[i] = "START" THEN miscounted ELSE t[i] # t[i - 1]
    <3>1. PICK j \in 2..le : j = le - lt + i
      BY <2>1
    <3>2. t[i] = events[j] /\ t[i - 1] = events[j - 1]
      <4>1. i \in 1..lt /\ i - 1 \in 1..lt /\ le - lt + (i - 1) = j - 1
        BY <2>1, <3>1
      <4> QED
        BY <1>3, <3>1, <4>1
    <3> QED
      BY <1>2, <3>1, <3>2 DEF Alternates
  <2>3. t[lt] = events[le]
    <3>1. lt \in 1..lt /\ le - lt + lt = le
      BY <2>1
    <3> QED
      BY <1>3, <3>1
  <2>4. ~miscounted => events[le] # "START"
    <3>1. le \in 2..Len(events)
      BY <1>2, <2>1
    <3> QED
      BY <3>1 DEF Alternates
  <2>5. ~miscounted => \A health \in Healths : LastHealthIs(t, health) <=> LastHealthIs(events, health)
    <3> SUFFICES ASSUME ~miscounted, NEW health \in Healths
                 PROVE  LastHealthIs(t, health) <=> LastHealthIs(events, health)
      OBVIOUS
    <3>1. Len(t) >= 1 /\ t[Len(t)] # "START" /\ Len(events) >= 1 /\ events[Len(events)] # "START"
      BY <1>2, <2>1, <2>3, <2>4
    <3>2. /\ LastHealthIs(t, health) <=> t[Len(t)] = health
          /\ LastHealthIs(events, health) <=> events[Len(events)] = health
      BY <3>1, LastHealthIsLast
    <3> QED
      BY <1>2, <2>3, <3>2
  <2>6. ASSUME miscounted, OnlyStarts(events) PROVE OnlyStarts(t)
    <3> SUFFICES ASSUME NEW i \in 1..lt PROVE t[i] = "START"
      BY <1>2 DEF OnlyStarts
    <3>1. le - lt + i \in 1..le
      BY <2>1
    <3> QED
      BY <1>2, <1>3, <2>6, <3>1 DEF OnlyStarts
  <2>7. ASSUME miscounted, NEW health \in Healths, LastHealthIs(events, health)
        PROVE  LastHealthIs(t, health) \/ OnlyStarts(t)
    <3>1. PICK j \in 1..le : events[j] = health /\ \A m \in (j + 1)..le : events[m] = "START"
      BY <1>2, <2>7 DEF LastHealthIs
    <3>2. CASE j <= le - lt
      <4> SUFFICES ASSUME NEW i \in 1..lt PROVE t[i] = "START"
        BY <1>2 DEF OnlyStarts
      <4>1. le - lt + i \in (j + 1)..le
        BY <2>1, <3>2
      <4> QED
        BY <1>3, <3>1, <4>1
    <3>3. CASE ~(j <= le - lt)
      <4>1. PICK i \in 1..lt : j = le - lt + i
        <5>1. j - (le - lt) \in 1..lt /\ j = le - lt + (j - (le - lt))
          BY <2>1, <3>3
        <5> QED
          BY <5>1
      <4>2. t[i] = health
        BY <1>3, <3>1, <4>1
      <4>3. ASSUME NEW m \in (i + 1)..lt PROVE t[m] = "START"
        <5>1. m \in 1..lt /\ le - lt + m \in (j + 1)..le
          BY <2>1, <4>1
        <5> QED
          BY <1>3, <3>1, <5>1
      <4> QED
        BY <1>2, <4>1, <4>2, <4>3 DEF LastHealthIs
    <3> QED
      BY <3>2, <3>3
  <2>8. \A health \in Healths : Tells(events, health, miscounted) => Tells(t, health, miscounted)
    BY <2>5, <2>6, <2>7 DEF Tells
  <2> QED
    BY <1>1, <1>2, <2>2, <2>5, <2>8 DEF Alternates
<1> QED
  BY <1>2, <1>4, <1>5

\* An event may be added that is not the last one, and a START where there is none or a count failed.
LEMMA AnotherEvent ==
    ASSUME NEW events \in Seq(Events), NEW miscounted \in BOOLEAN, Alternates(events, miscounted), NEW event \in Events,
           IF event = "START" THEN events = <<>> \/ miscounted ELSE events = <<>> \/ events[Len(events)] # event
    PROVE  /\ events \o <<event>> \in Seq(Events) /\ Len(events \o <<event>>) = Len(events) + 1
           /\ (events \o <<event>>)[Len(events) + 1] = event
           /\ \A i \in 1..Len(events) : (events \o <<event>>)[i] = events[i]
           /\ Alternates(events \o <<event>>, miscounted)
<1>1. PICK n \in Nat : n = Len(events)
  BY LenProperties
<1>2. <<event>> \in Seq(Events) /\ Len(<<event>>) = 1 /\ <<event>>[1] = event
  OBVIOUS
<1>3. PICK t \in Seq(Events) : t = events \o <<event>>
  BY <1>2, ConcatProperties
<1>4. /\ Len(t) = n + 1
      /\ \A i \in 1..(n + 1) : t[i] = IF i <= n THEN events[i] ELSE <<event>>[i - n]
  BY <1>1, <1>2, <1>3, ConcatProperties
<1>5. t[n + 1] = event /\ \A i \in 1..n : t[i] = events[i]
  <2>1. n + 1 \in 1..(n + 1) /\ ~(n + 1 <= n) /\ n + 1 - n = 1
    OBVIOUS
  <2>2. t[n + 1] = <<event>>[1]
    BY <1>4, <2>1
  <2> QED
    BY <1>2, <1>4, <2>2
<1>6. ASSUME NEW i \in 2..(n + 1) PROVE IF t[i] = "START" THEN miscounted ELSE t[i] # t[i - 1]
  <2>1. CASE i <= n
    <3>1. i \in 2..n /\ i \in 1..n /\ i - 1 \in 1..n
      BY <2>1
    <3> QED
      BY <1>1, <1>5, <3>1 DEF Alternates
  <2>2. CASE i = n + 1
    <3>1. n >= 1 /\ i - 1 = n /\ n \in 1..n
      BY <2>2
    <3>2. t[i] = event /\ t[i - 1] = events[n]
      BY <1>5, <2>2, <3>1
    <3>3. events # <<>>
      BY <1>1, <3>1
    <3> QED
      BY <1>1, <3>2, <3>3
  <2> QED
    BY <2>1, <2>2
<1>7. Alternates(t, miscounted)
  BY <1>4, <1>6 DEF Alternates
<1> QED
  BY <1>1, <1>3, <1>4, <1>5, <1>7

\* A START that is added changes no health that the events tell.
LEMMA AnotherStart ==
    ASSUME NEW events \in Seq(Events), NEW miscounted \in BOOLEAN, Alternates(events, miscounted),
           events = <<>> \/ miscounted
    PROVE  /\ events \o <<"START">> \in Seq(Events) /\ Len(events \o <<"START">>) = Len(events) + 1
           /\ (events \o <<"START">>)[Len(events) + 1] = "START"
           /\ Alternates(events \o <<"START">>, miscounted)
           /\ \A health \in Healths : LastHealthIs(events \o <<"START">>, health) <=> LastHealthIs(events, health)
           /\ OnlyStarts(events) => OnlyStarts(events \o <<"START">>)
<1>1. PICK n \in Nat : n = Len(events)
  BY LenProperties
<1>2. PICK t : t = events \o <<"START">>
  OBVIOUS
<1>3. /\ t \in Seq(Events) /\ Len(t) = n + 1 /\ t[n + 1] = "START" /\ Alternates(t, miscounted)
      /\ \A i \in 1..n : t[i] = events[i]
  <2>1. "START" \in Events
    BY DEF Events
  <2> QED
    BY <1>1, <1>2, <2>1, AnotherEvent
<1>4. ASSUME NEW health \in Healths PROVE LastHealthIs(t, health) <=> LastHealthIs(events, health)
  <2>1. health # "START"
    BY DEF Healths
  <2>2. ASSUME NEW i \in 1..(n + 1), t[i] = health, \A j \in (i + 1)..(n + 1) : t[j] = "START"
        PROVE  LastHealthIs(events, health)
    <3>1. i \in 1..n
      BY <1>3, <2>1, <2>2
    <3>2. \A j \in (i + 1)..n : j \in 1..n /\ j \in (i + 1)..(n + 1)
      BY <3>1
    <3> QED
      BY <1>1, <1>3, <2>2, <3>1, <3>2 DEF LastHealthIs
  <2>3. ASSUME NEW i \in 1..n, events[i] = health, \A j \in (i + 1)..n : events[j] = "START"
        PROVE  LastHealthIs(t, health)
    <3>1. i \in 1..(n + 1) /\ \A j \in (i + 1)..(n + 1) : j = n + 1 \/ (j \in (i + 1)..n /\ j \in 1..n)
      OBVIOUS
    <3> QED
      BY <1>3, <2>3, <3>1 DEF LastHealthIs
  <2> QED
    BY <1>1, <1>3, <2>2, <2>3 DEF LastHealthIs
<1>5. OnlyStarts(events) => OnlyStarts(t)
  BY <1>1, <1>3 DEF OnlyStarts
<1> QED
  BY <1>1, <1>2, <1>3, <1>4, <1>5

\* A health that is not the last one may be added, and is told.
LEMMA AnotherHealth ==
    ASSUME NEW events \in Seq(Events), NEW miscounted \in BOOLEAN, Alternates(events, miscounted),
           NEW health \in Healths, ~LastHealthIs(events, health)
    PROVE  /\ events \o <<health>> \in Seq(Events) /\ Len(events \o <<health>>) = Len(events) + 1
           /\ LastHealthIs(events \o <<health>>, health)
           /\ Alternates(events \o <<health>>, miscounted)
<1>1. health \in Events /\ health # "START" /\ Len(events) \in Nat
  BY LenProperties DEF Healths, Events
<1>2. events = <<>> \/ events[Len(events)] # health
  <2> SUFFICES ASSUME events # <<>>, events[Len(events)] = health PROVE FALSE
    OBVIOUS
  <2>1. Len(events) >= 1
    BY EmptySeq
  <2> QED
    BY <1>1, <2>1, LastHealthIsLast
<1>3. PICK t : t = events \o <<health>>
  OBVIOUS
<1>4. t \in Seq(Events) /\ Len(t) = Len(events) + 1 /\ t[Len(events) + 1] = health /\ Alternates(t, miscounted)
  BY <1>1, <1>2, <1>3, AnotherEvent
<1>5. LastHealthIs(t, health)
  <2>1. Len(t) >= 1 /\ t[Len(t)] = health
    BY <1>1, <1>4
  <2> QED
    BY <1>1, <1>4, <2>1, LastHealthIsLast
<1> QED
  BY <1>3, <1>4, <1>5

-----------------------------------------------------------------------------
(* What an insertion does to the rows *)

\* The events before the insertion, with the START of an endpoint that has none
Started(events) == events \o (IF events = <<>> THEN <<"START">> ELSE <<>>)

\* The health event of a result: none, or one that is not the last health.
LEMMA HealthEventIs ==
    ASSUME NEW row, NEW result \in Results
    PROVE  \/ /\ HealthEvent(row, result) = <<>>
              /\ result.kind # "pending" => LastHealthIs(row.events, Health(result.kind))
           \/ /\ HealthEvent(row, result) = <<Health(result.kind)>> /\ result.kind # "pending"
              /\ ~LastHealthIs(row.events, Health(result.kind))
  BY DEF HealthEvent

\* The event of a result is one of the two healths.
LEMMA HealthTyped == \A kind \in Kinds : Health(kind) \in Healths
  BY DEF Health, Healths

\* What the events are once a result is inserted, before old ones are removed
Added(added, row, result, failed, miscounted) ==
    /\ added \in Seq(Events) /\ Alternates(added, miscounted)
    /\ Len(added) >= Len(row.events) /\ Len(added) <= Len(row.events) + 2
    /\ failed # "count" /\ row.events # <<>> => Len(added) <= Len(row.events) + 1
    /\ failed \notin {"start", "event"} => added # <<>>
    /\ failed # "event" /\ result.kind # "pending" => LastHealthIs(added, Health(result.kind))
    /\ result.kind = "pending" =>
        /\ \A health \in Healths : LastHealthIs(row.events, health) => LastHealthIs(added, health)
        /\ OnlyStarts(row.events) => OnlyStarts(added)
    /\ failed \notin {"count", "start", "event"} => added = Started(row.events) \o HealthEvent(row, result)

\* Whether old events are removed
Removes(row, failed) == failed # "count" /\ failed # "oldEvents" /\ Len(row.events) > MaxEvents + Slack

\* What an insertion makes of the events, whatever statement fails: a START and a health event may be added.
LEMMA EventsAfterAre ==
    ASSUME NEW row, row.events \in Seq(Events), NEW miscounted \in BOOLEAN, Alternates(row.events, miscounted),
           NEW result \in Results, NEW failed \in Failures, failed = "count" => miscounted
    PROVE  \E added :
              /\ Added(added, row, result, failed, miscounted)
              /\ EventsAfter(row, result, failed) = IF Removes(row, failed) THEN Latest(added, MaxEvents) ELSE added
<1>1. PICK counted : counted = IF failed = "count" THEN NewRow ELSE row
  OBVIOUS
<1>2. PICK start : start = IF counted.events = <<>> /\ failed # "start" THEN <<"START">> ELSE <<>>
  OBVIOUS
<1>3. PICK event : event = IF failed = "event" THEN <<>> ELSE HealthEvent(counted, result)
  OBVIOUS
<1>4. PICK mid : mid = row.events \o start
  OBVIOUS
<1>5. PICK added : added = mid \o event
  OBVIOUS
<1>6. NewRow.events = <<>> /\ \A health : ~LastHealthIs(<<>>, health)
  BY DEF NewRow, LastHealthIs
<1>7. EventsAfter(row, result, failed) = IF Removes(row, failed) THEN Latest(added, MaxEvents) ELSE added
  <2>1. EventsAfter(row, result, failed)
            = IF Len(counted.events) > MaxEvents + Slack /\ failed # "oldEvents" THEN Latest(added, MaxEvents) ELSE added
    BY <1>1, <1>2, <1>3, <1>4, <1>5 DEF EventsAfter
  <2>2. CASE failed = "count"
    <3>1. Len(counted.events) = 0 /\ MaxEvents \in Nat /\ Slack \in Nat
      BY <1>1, <1>6, <2>2, StoreAssumption
    <3>2. ~(Len(counted.events) > MaxEvents + Slack)
      BY <3>1
    <3> QED
      BY <2>1, <2>2, <3>2 DEF Removes
  <2>3. CASE failed # "count"
    BY <1>1, <2>1, <2>3 DEF Removes
  <2> QED
    BY <2>2, <2>3
<1>8. Len(row.events) \in Nat /\ row.events \o <<>> = row.events
  BY LenProperties, ConcatEmptySeq
<1>9. /\ mid \in Seq(Events) /\ Alternates(mid, miscounted) /\ Len(mid) \in Nat
      /\ Len(mid) >= Len(row.events) /\ Len(mid) <= Len(row.events) + 1
      /\ failed # "count" /\ row.events # <<>> => mid = row.events
      /\ failed # "start" => mid # <<>>
      /\ \A health \in Healths : LastHealthIs(mid, health) <=> LastHealthIs(row.events, health)
      /\ OnlyStarts(row.events) => OnlyStarts(mid)
      /\ failed = "count" => mid[Len(mid)] = "START" /\ Len(mid) >= 1
  <2>1. CASE start = <<"START">>
    <3>1. row.events = <<>> \/ miscounted
      <4>1. <<"START">> # <<>>
        OBVIOUS
      <4>2. counted.events = <<>>
        BY <1>2, <2>1, <4>1
      <4> QED
        BY <1>1, <4>2
    <3>2. /\ mid \in Seq(Events) /\ Len(mid) = Len(row.events) + 1 /\ mid[Len(row.events) + 1] = "START"
          /\ Alternates(mid, miscounted)
          /\ \A health \in Healths : LastHealthIs(mid, health) <=> LastHealthIs(row.events, health)
          /\ OnlyStarts(row.events) => OnlyStarts(mid)
      BY <1>4, <2>1, <3>1, AnotherStart
    <3>3. failed # "count" /\ row.events # <<>> => FALSE
      BY <1>1, <1>2, <2>1
    <3>4. mid # <<>> /\ Len(mid) >= 1
      BY <1>8, <3>2
    <3> QED
      BY <1>8, <3>2, <3>3, <3>4
  <2>2. CASE start = <<>>
    <3>1. mid = row.events
      BY <1>4, <1>8, <2>2
    <3>2. failed # "count"
      BY <1>1, <1>2, <1>6, <2>2
    <3>3. failed # "start" => mid # <<>>
      BY <1>1, <1>2, <2>2, <3>1, <3>2
    <3> QED
      BY <1>8, <3>1, <3>2, <3>3
  <2> QED
    BY <1>2, <2>1, <2>2
<1>10. mid \o <<>> = mid
  BY <1>9, ConcatEmptySeq
<1>11. failed \notin {"count", "start", "event"} => added = Started(row.events) \o HealthEvent(row, result)
  BY <1>1, <1>2, <1>3, <1>4, <1>5 DEF Started
<1>12. CASE event = <<>>
  <2>1. added = mid
    BY <1>5, <1>10, <1>12
  <2>2. ASSUME failed # "event", result.kind # "pending" PROVE LastHealthIs(mid, Health(result.kind))
    <3>1. LastHealthIs(counted.events, Health(result.kind))
      <4>1. <<Health(result.kind)>> # <<>> /\ HealthEvent(counted, result) = <<>>
        BY <1>3, <1>12, <2>2
      <4> QED
        BY <2>2, <4>1, HealthEventIs
    <3>2. counted = row
      BY <1>1, <1>6, <3>1
    <3>3. Health(result.kind) \in Healths
      BY HealthTyped DEF Results
    <3> QED
      BY <1>9, <3>1, <3>2, <3>3
  <2>3. Len(mid) <= Len(row.events) + 2 /\ (failed # "count" /\ row.events # <<>> => Len(mid) <= Len(row.events) + 1)
    BY <1>8, <1>9
  <2>4. Added(mid, row, result, failed, miscounted)
    BY <1>9, <1>11, <2>1, <2>2, <2>3 DEF Added
  <2> QED
    BY <1>7, <2>1, <2>4
<1>13. CASE event # <<>>
  <2>1. /\ failed # "event" /\ event = <<Health(result.kind)>> /\ result.kind # "pending"
        /\ ~LastHealthIs(counted.events, Health(result.kind))
    BY <1>3, <1>13, HealthEventIs
  <2>2. PICK h \in Healths : h = Health(result.kind)
    BY HealthTyped DEF Results
  <2>3. ~LastHealthIs(mid, h) \/ mid[Len(mid)] # h
    BY <1>1, <1>9, <2>1, <2>2 DEF Healths
  <2>4. /\ added \in Seq(Events) /\ Len(added) = Len(mid) + 1
        /\ LastHealthIs(added, h) /\ Alternates(added, miscounted)
    <3>1. CASE ~LastHealthIs(mid, h)
      BY <1>5, <1>9, <2>1, <2>2, <3>1, AnotherHealth
    <3>2. CASE mid[Len(mid)] # h
      <4>1. h \in Events /\ h # "START"
        BY DEF Healths, Events
      <4>2. /\ added \in Seq(Events) /\ Len(added) = Len(mid) + 1 /\ added[Len(mid) + 1] = h
            /\ Alternates(added, miscounted)
        BY <1>5, <1>9, <2>1, <2>2, <3>2, <4>1, AnotherEvent
      <4>3. Len(added) >= 1 /\ added[Len(added)] = h
        BY <1>9, <4>2
      <4> QED
        BY <4>1, <4>2, <4>3, LastHealthIsLast
    <3> QED
      BY <2>3, <3>1, <3>2
  <2>5. /\ Len(added) >= Len(row.events) /\ Len(added) <= Len(row.events) + 2 /\ added # <<>>
        /\ failed # "count" /\ row.events # <<>> => Len(added) <= Len(row.events) + 1
    BY <1>8, <1>9, <2>4
  <2>6. Added(added, row, result, failed, miscounted)
    BY <1>11, <2>1, <2>2, <2>4, <2>5 DEF Added
  <2> QED
    BY <1>7, <2>6
<1> QED
  BY <1>12, <1>13

\* The events after an insertion alternate and are not too many, and tell the health of the result, or what it was before
\* a pending one.
LEMMA EventsAfterInsertion ==
    ASSUME NEW row, row.events \in Seq(Events), NEW miscounted \in BOOLEAN, Alternates(row.events, miscounted),
           NEW failures0 \in Nat, Len(row.events) <= MaxEvents + Slack + 1 + 2 * failures0,
           NEW result \in Results, NEW failed \in Failures, failed = "count" => miscounted,
           NEW after, after = EventsAfter(row, result, failed)
    PROVE  /\ after \in Seq(Events) /\ Alternates(after, miscounted)
           /\ Len(after) <= MaxEvents + Slack + 1 + 2 * (failures0 + 1)
           /\ failed = "nothing" => Len(after) <= MaxEvents + Slack + 1
           /\ failed \notin {"start", "event"} => after # <<>>
           /\ failed # "event" /\ result.kind # "pending" => Tells(after, Health(result.kind), miscounted)
           /\ result.kind = "pending" => \A health \in Healths :
                 Tells(row.events, health, miscounted) => Tells(after, health, miscounted)
<1>1. MaxEvents \in Nat \ {0} /\ Slack \in Nat /\ Len(row.events) \in Nat
  BY StoreAssumption, LenProperties
<1>2. PICK added :
        /\ Added(added, row, result, failed, miscounted)
        /\ after = IF Removes(row, failed) THEN Latest(added, MaxEvents) ELSE added
  BY EventsAfterAre
<1>3. PICK n \in Nat : n = Len(added)
  BY <1>2, LenProperties DEF Added
<1>4. /\ n >= Len(row.events) /\ n <= Len(row.events) + 2
      /\ failed # "count" /\ row.events # <<>> => n <= Len(row.events) + 1
  BY <1>2, <1>3 DEF Added
<1>5. /\ failed # "event" /\ result.kind # "pending" => Tells(added, Health(result.kind), miscounted)
      /\ result.kind = "pending" => \A health \in Healths :
            Tells(row.events, health, miscounted) => Tells(added, health, miscounted)
  BY <1>2 DEF Added, Tells
<1>6. Health(result.kind) \in Healths
  BY HealthTyped DEF Results
<1>7. CASE Removes(row, failed)
  <2>1. after = Latest(added, MaxEvents) /\ added \in Seq(Events) /\ Alternates(added, miscounted)
    BY <1>2, <1>7 DEF Added
  <2>2. Len(row.events) > MaxEvents + Slack
    BY <1>7 DEF Removes
  <2>3. n >= MaxEvents
    BY <1>1, <1>4, <2>2
  <2>4. after \in Seq(Events) /\ Len(after) = MaxEvents
    <3>1. /\ Latest(added, MaxEvents) \in Seq(Events)
          /\ Len(Latest(added, MaxEvents)) = IF Len(added) <= MaxEvents THEN Len(added) ELSE MaxEvents
      BY <1>1, <2>1, LatestIs
    <3> QED
      BY <1>1, <1>3, <2>1, <2>3, <3>1
  <2>5. /\ Alternates(after, miscounted)
        /\ \A health \in Healths : Tells(added, health, miscounted) => Tells(after, health, miscounted)
    BY <1>1, <2>1, LatestEvents
  <2>6. /\ Len(after) <= MaxEvents + Slack + 1 /\ Len(after) <= MaxEvents + Slack + 1 + 2 * (failures0 + 1)
        /\ after # <<>>
    BY <1>1, <2>4
  <2> QED
    BY <1>5, <1>6, <2>4, <2>5, <2>6
<1>8. CASE ~Removes(row, failed)
  <2>1. after = added /\ added \in Seq(Events) /\ Alternates(added, miscounted)
    BY <1>2, <1>8 DEF Added
  <2>2. n <= MaxEvents + Slack + 1 + 2 * (failures0 + 1)
    BY <1>1, <1>4
  <2>3. failed = "nothing" => n <= MaxEvents + Slack + 1
    <3> SUFFICES ASSUME failed = "nothing" PROVE n <= MaxEvents + Slack + 1
      OBVIOUS
    <3>1. Len(row.events) <= MaxEvents + Slack
      BY <1>1, <1>8 DEF Removes
    <3>2. CASE row.events = <<>>
      <4>1. Len(row.events) = 0
        BY <3>2
      <4> QED
        BY <1>1, <1>4, <4>1
    <3>3. CASE row.events # <<>>
      BY <1>1, <1>4, <3>1, <3>3
    <3> QED
      BY <3>2, <3>3
  <2>4. failed \notin {"start", "event"} => added # <<>>
    BY <1>2 DEF Added
  <2> QED
    BY <1>3, <1>5, <2>1, <2>2, <2>3, <2>4
<1> QED
  BY <1>7, <1>8

\* Rows to which one is added are bounded once they are trimmed, and their end is that of the end to which it is added.
LEMMA ResultsAfterInsertion ==
    ASSUME NEW S, NEW results \in Seq(S), NEW result \in S
    PROVE  /\ Append(results, result) \in Seq(S) /\ Len(Append(results, result)) = Len(results) + 1
           /\ Latest(Append(results, result), MaxResults)
                 = Latest(Append(Latest(results, MaxResults), result), MaxResults)
           /\ Trimmed(Append(results, result)) \in Seq(S)
           /\ Len(Trimmed(Append(results, result))) <= MaxResults + Slack
           /\ Latest(Trimmed(Append(results, result)), MaxResults)
                 = Latest(Append(Latest(results, MaxResults), result), MaxResults)
<1>1. MaxResults \in Nat /\ Slack \in Nat
  BY StoreAssumption
<1>2. PICK added \in Seq(S) : added = Append(results, result)
  <2>1. Append(results, result) \in Seq(S)
    BY AppendedIsConcat
  <2> QED
    BY <2>1
<1>3. PICK kept \in Seq(S) : kept = Latest(results, MaxResults)
  BY <1>1, LatestIs
<1>4. Latest(added, MaxResults) = Latest(Append(kept, result), MaxResults)
  <2>1. added = results \o <<result>> /\ Append(kept, result) = kept \o <<result>> /\ <<result>> \in Seq(S)
    BY <1>2, AppendedIsConcat
  <2> QED
    BY <1>1, <1>3, <2>1, LatestOfConcat, ZenonT(60)
<1>5. Len(added) = Len(results) + 1 /\ Len(added) \in Nat
  <2>1. Len(Append(results, result)) = Len(results) + 1
    OBVIOUS
  <2> QED
    BY <1>2, <2>1, LenProperties
<1>6. /\ Trimmed(added) \in Seq(S) /\ Len(Trimmed(added)) <= MaxResults + Slack
      /\ Latest(Trimmed(added), MaxResults) = Latest(added, MaxResults)
  <2>1. CASE Len(added) > MaxResults + Slack
    <3>1. Trimmed(added) = Latest(added, MaxResults)
      BY <2>1 DEF Trimmed
    <3>2. Latest(added, MaxResults) \in Seq(S) /\ Len(Latest(added, MaxResults)) <= MaxResults + Slack
      <4>1. /\ Latest(added, MaxResults) \in Seq(S)
            /\ Len(Latest(added, MaxResults)) = IF Len(added) <= MaxResults THEN Len(added) ELSE MaxResults
        BY <1>1, LatestIs
      <4> QED
        BY <1>1, <1>5, <4>1
    <3>3. Latest(Latest(added, MaxResults), MaxResults) = Latest(added, MaxResults)
      BY <1>1, LatestOfLatest
    <3> QED
      BY <3>1, <3>2, <3>3
  <2>2. CASE ~(Len(added) > MaxResults + Slack)
    <3>1. Trimmed(added) = added /\ Len(added) <= MaxResults + Slack
      BY <1>1, <1>5, <2>2 DEF Trimmed
    <3> QED
      BY <3>1
  <2> QED
    BY <2>1, <2>2
<1> QED
  BY <1>2, <1>3, <1>4, <1>5, <1>6

\* Rows that are within the limits with some failures are so with more, and when a count of the events failed.
LEMMA MoreFailures ==
    ASSUME NEW row, NEW failed \in Nat, NEW more \in Nat, failed <= more,
           NEW miscounted \in BOOLEAN, NEW later \in BOOLEAN, miscounted => later, EndpointRow(row, failed, miscounted)
    PROVE  EndpointRow(row, more, later)
<1>1. MaxResults \in Nat /\ MaxEvents \in Nat /\ Slack \in Nat
  BY StoreAssumption
<1>2. /\ row.results \in Seq(Results) /\ row.events \in Seq(Events) /\ IsRow(row)
      /\ Len(row.results) <= MaxResults + Slack + failed /\ Len(row.events) <= MaxEvents + Slack + 1 + 2 * failed
      /\ Alternates(row.events, miscounted)
  BY DEF EndpointRow
<1>3. Len(row.results) \in Nat /\ Len(row.events) \in Nat
  BY <1>2, LenProperties
<1>4. Len(row.results) <= MaxResults + Slack + more /\ Len(row.events) <= MaxEvents + Slack + 1 + 2 * more
  BY <1>1, <1>2, <1>3
<1>5. Alternates(row.events, later)
  BY <1>2 DEF Alternates
<1> QED
  BY <1>2, <1>4, <1>5 DEF EndpointRow

\* The rows an insertion starts from are within the limits, those of a new endpoint included.
LEMMA OldRow ==
    ASSUME NEW row, NEW failures0 \in Nat, NEW miscounted \in BOOLEAN,
           row # None => EndpointRow(row, failures0, miscounted)
    PROVE  EndpointRow(Old(row), failures0, miscounted)
<1>1. CASE row = None
  <2>1. MaxResults \in Nat /\ MaxEvents \in Nat /\ Slack \in Nat
    BY StoreAssumption
  <2>2. Old(row) = NewRow /\ NewRow.results = <<>> /\ NewRow.events = <<>> /\ IsRow(NewRow)
    BY <1>1 DEF Old, NewRow, IsRow
  <2>3. <<>> \in Seq(Results) /\ <<>> \in Seq(Events) /\ Len(<<>>) = 0
    OBVIOUS
  <2>4. Alternates(<<>>, miscounted)
    BY <2>3 DEF Alternates
  <2>5. 0 <= MaxResults + Slack + failures0 /\ 0 <= MaxEvents + Slack + 1 + 2 * failures0
    BY <2>1
  <2> QED
    BY <2>2, <2>3, <2>4, <2>5 DEF EndpointRow
<1>2. CASE row # None
  BY <1>2 DEF Old
<1> QED
  BY <1>1, <1>2

\* The rows a transaction would commit, field by field.
LEMMA InsertedIs ==
    ASSUME NoneIsNoRow, NEW row, NEW result, NEW failed
    PROVE  Insertion(Inserted(row, result, failed), row, result, failed)
  BY DEF NoneIsNoRow, Insertion, IsRow, Inserted, Old

\* What a transaction would commit are rows of an endpoint, with what one more failure left, and they tell the health of
\* the result, unless its event is lost.
LEMMA InsertedRow ==
    ASSUME NEW row, NEW failures0 \in Nat, NEW miscounted \in BOOLEAN,
           row # None => EndpointRow(row, failures0, miscounted),
           NEW result \in Results, NEW failed \in Failures, failed = "count" => miscounted,
           NEW inserted, Insertion(inserted, row, result, failed)
    PROVE  /\ inserted # None
           /\ EndpointRow(inserted, IF failed = "nothing" THEN failures0 ELSE failures0 + 1, miscounted)
           /\ failed # "event" /\ result.kind # "pending" => Tells(inserted.events, Health(result.kind), miscounted)
           /\ result.kind = "pending" /\ row # None => \A health \in Healths :
                 Tells(row.events, health, miscounted) => Tells(inserted.events, health, miscounted)
<1>1. PICK old : old = Old(row)
  OBVIOUS
<1>2. /\ old.results \in Seq(Results) /\ Len(old.results) <= MaxResults + Slack + failures0
      /\ old.events \in Seq(Events) /\ Alternates(old.events, miscounted)
      /\ Len(old.events) <= MaxEvents + Slack + 1 + 2 * failures0
  BY <1>1, OldRow DEF EndpointRow
<1>3. PICK appended, results, events :
        /\ appended = Append(old.results, result)
        /\ results = IF failed = "oldResults" THEN appended ELSE Trimmed(appended)
        /\ events = EventsAfter(old, result, failed)
  OBVIOUS
<1>4. inserted # None /\ inserted.results = results /\ inserted.events = events /\ IsRow(inserted)
  BY <1>1, <1>3 DEF Insertion
<1>5. MaxResults \in Nat /\ MaxEvents \in Nat /\ Slack \in Nat
  BY StoreAssumption
<1>6. /\ appended \in Seq(Results) /\ Len(appended) = Len(old.results) + 1
      /\ Trimmed(appended) \in Seq(Results) /\ Len(Trimmed(appended)) <= MaxResults + Slack
  BY <1>2, <1>3, ResultsAfterInsertion
<1>7. /\ results \in Seq(Results)
      /\ Len(results) <= MaxResults + Slack + (IF failed = "nothing" THEN failures0 ELSE failures0 + 1)
  <2>1. CASE failed = "oldResults"
    <3>1. results = appended /\ failed # "nothing" /\ Len(old.results) \in Nat
      BY <1>2, <1>3, <2>1, LenProperties
    <3>2. Len(appended) <= MaxResults + Slack + (failures0 + 1)
      BY <1>2, <1>5, <1>6, <3>1
    <3> QED
      BY <1>6, <3>1, <3>2
  <2>2. CASE failed # "oldResults"
    <3>1. results = Trimmed(appended) /\ Len(Trimmed(appended)) \in Nat
      BY <1>3, <1>6, <2>2, LenProperties
    <3>2. /\ Len(Trimmed(appended)) <= MaxResults + Slack + failures0
          /\ Len(Trimmed(appended)) <= MaxResults + Slack + (failures0 + 1)
      BY <1>5, <1>6, <3>1
    <3> QED
      BY <1>6, <3>1, <3>2
  <2> QED
    BY <2>1, <2>2
<1>8. /\ events \in Seq(Events) /\ Alternates(events, miscounted)
      /\ Len(events) <= MaxEvents + Slack + 1 + 2 * (failures0 + 1)
      /\ failed = "nothing" => Len(events) <= MaxEvents + Slack + 1
      /\ failed # "event" /\ result.kind # "pending" => Tells(events, Health(result.kind), miscounted)
      /\ result.kind = "pending" => \A health \in Healths :
            Tells(old.events, health, miscounted) => Tells(events, health, miscounted)
  BY <1>2, <1>3, EventsAfterInsertion
<1>9. Len(events) <= MaxEvents + Slack + 1 + 2 * (IF failed = "nothing" THEN failures0 ELSE failures0 + 1)
  <2>1. Len(events) \in Nat
    BY <1>8, LenProperties
  <2>2. failed = "nothing" => Len(events) <= MaxEvents + Slack + 1 + 2 * failures0
    BY <1>5, <1>8, <2>1
  <2> QED
    BY <1>8, <2>2
<1>10. row # None => old = row
  BY <1>1 DEF Old
<1> QED
  BY <1>4, <1>7, <1>8, <1>9, <1>10 DEF EndpointRow

\* The rows the store in memory adds to, which have a START if there are none
OldInMemory(row) == IF row = None THEN [NewRow EXCEPT !.events = <<"START">>] ELSE row

\* The rows the store in memory has after it added a result, field by field.
LEMMA AddedIs ==
    ASSUME NEW row, NEW result, NEW cleanUp \in BOOLEAN
    PROVE  AddedInMemory(row, result, cleanUp) =
              [results |-> Latest(Append(OldInMemory(row).results, result), MaxResults),
               events |-> Latest(OldInMemory(row).events \o HealthEvent(OldInMemory(row), result), MaxEvents),
               uptime |-> HourlyAfter(OldInMemory(row).uptime, now, result.kind = "up"),
               buckets |-> BucketsAfter(OldInMemory(row).buckets, now, now, result.kind = "up", cleanUp,
                                        BucketRetention)]
  BY DEF AddedInMemory, OldInMemory

\* The store in memory still follows once a result is in both stores, with the events of both.
LEMMA AddedFollows ==
    ASSUME NoneIsNoRow, NEW row, NEW failures0 \in Nat, row # None => EndpointRow(row, failures0, FALSE), NEW remembered,
           row = None <=> remembered = None, row # None => Follows(row, remembered),
           NEW result \in Results, NEW cleanUp \in BOOLEAN,
           NEW failed \in Failures, failed \notin {"count", "start", "event"},
           NEW inserted, Insertion(inserted, row, result, failed)
    PROVE  /\ AddedInMemory(remembered, result, cleanUp) # None
           /\ Follows(inserted, AddedInMemory(remembered, result, cleanUp))
<1>1. PICK old, oldInMemory : old = Old(row) /\ oldInMemory = OldInMemory(remembered)
  OBVIOUS
<1>2. MaxResults \in Nat /\ MaxEvents \in Nat \ {0} /\ Slack \in Nat
  BY StoreAssumption
<1>3. /\ old.results \in Seq(Results)
      /\ old.events \in Seq(Events) /\ Alternates(old.events, FALSE)
      /\ Len(old.events) <= MaxEvents + Slack + 1 + 2 * failures0
  BY <1>1, OldRow DEF EndpointRow
<1>4. PICK events \in Seq(Events) :
        /\ events = Started(old.events) /\ Alternates(events, FALSE)
        /\ \A health \in Healths : LastHealthIs(events, health) <=> LastHealthIs(old.events, health)
  <2>1. CASE old.events = <<>>
    <3>1. /\ old.events \o <<"START">> \in Seq(Events) /\ Alternates(old.events \o <<"START">>, FALSE)
          /\ \A health \in Healths :
                LastHealthIs(old.events \o <<"START">>, health) <=> LastHealthIs(old.events, health)
      BY <1>3, <2>1, AnotherStart
    <3> QED
      BY <2>1, <3>1 DEF Started
  <2>2. CASE old.events # <<>>
    <3>1. Started(old.events) = old.events
      BY <1>3, <2>2, ConcatEmptySeq DEF Started
    <3> QED
      BY <1>3, <3>1
  <2> QED
    BY <2>1, <2>2
<1>5. oldInMemory.results = Latest(old.results, MaxResults) /\ oldInMemory.events = Latest(events, MaxEvents)
  <2>1. CASE row = None
    <3>1. old.results = <<>> /\ old.events = <<>>
      BY <1>1, <2>1 DEF Old, NewRow
    <3>2. oldInMemory.results = <<>> /\ oldInMemory.events = <<"START">>
      BY <1>1, <2>1 DEF OldInMemory, NewRow
    <3>3. Latest(<<>>, MaxResults) = <<>> /\ Latest(<<"START">>, MaxEvents) = <<"START">>
      <4>1. Len(<<>>) <= MaxResults /\ Len(<<"START">>) <= MaxEvents
        BY <1>2
      <4> QED
        BY <4>1 DEF Latest
    <3>4. events = <<"START">>
      BY <1>4, <3>1 DEF Started
    <3> QED
      BY <3>1, <3>2, <3>3, <3>4
  <2>2. CASE row # None
    <3>1. old = row /\ oldInMemory = remembered /\ Follows(row, remembered)
      BY <1>1, <2>2 DEF Old, OldInMemory
    <3>2. row.events # <<>>
      BY <3>1 DEF Follows
    <3>3. events = row.events
      BY <1>3, <1>4, <3>1, <3>2, ConcatEmptySeq DEF Started
    <3> QED
      BY <3>1, <3>3 DEF Follows
  <2> QED
    BY <2>1, <2>2
<1>6. HealthEvent(oldInMemory, result) = HealthEvent(old, result)
  <2>1. Health(result.kind) \in Healths
    BY HealthTyped DEF Results
  <2>2. LastHealthIs(oldInMemory.events, Health(result.kind)) <=> LastHealthIs(old.events, Health(result.kind))
    <3>1. \A health \in Healths : LastHealthIs(Latest(events, MaxEvents), health) <=> LastHealthIs(events, health)
      <4>1. PICK miscounted \in BOOLEAN : ~miscounted /\ Alternates(events, miscounted)
        BY <1>4
      <4> QED
        BY <1>2, <4>1, LatestEvents
    <3> QED
      BY <1>4, <1>5, <2>1, <3>1
  <2> QED
    BY <2>2 DEF HealthEvent
<1>7. PICK event \in Seq(Events) : event = HealthEvent(old, result)
  <2>1. Health(result.kind) \in Events
    BY HealthTyped DEF Results, Healths, Events
  <2>2. <<>> \in Seq(Events) /\ <<Health(result.kind)>> \in Seq(Events)
    BY <2>1
  <2> QED
    BY <2>2, HealthEventIs
<1>8. /\ inserted.results = LET results == Append(old.results, result) IN
                              IF failed = "oldResults" THEN results ELSE Trimmed(results)
      /\ inserted.events = EventsAfter(old, result, failed)
  BY <1>1 DEF Insertion
<1>9. PICK added, results, latest, uptime, buckets :
        /\ added = AddedInMemory(remembered, result, cleanUp)
        /\ results = Latest(Append(oldInMemory.results, result), MaxResults)
        /\ latest = Latest(oldInMemory.events \o HealthEvent(oldInMemory, result), MaxEvents)
        /\ added = [results |-> results, events |-> latest, uptime |-> uptime, buckets |-> buckets]
  BY <1>1, AddedIs
<1>10. added # None /\ IsRow(added) /\ added.results = results /\ added.events = latest
  BY <1>9 DEF NoneIsNoRow, IsRow
<1>11. results = Latest(inserted.results, MaxResults)
  BY <1>3, <1>5, <1>8, <1>9, ResultsAfterInsertion
<1>12. latest = Latest(inserted.events, MaxEvents)
  <2>1. latest = Latest(Latest(events, MaxEvents) \o event, MaxEvents)
    BY <1>5, <1>6, <1>7, <1>9
  <2>2. latest = Latest(events \o event, MaxEvents)
    BY <1>2, <2>1, LatestOfConcat
  <2>3. PICK more :
          /\ Added(more, old, result, failed, FALSE)
          /\ inserted.events = IF Removes(old, failed) THEN Latest(more, MaxEvents) ELSE more
    BY <1>3, <1>8, EventsAfterAre
  <2>4. more = events \o event /\ more \in Seq(Events)
    BY <1>4, <1>7, <2>3 DEF Added
  <2>5. Latest(Latest(more, MaxEvents), MaxEvents) = Latest(more, MaxEvents)
    <3>1. PICK m \in Seq(Events) : m = more
      BY <2>4
    <3>2. PICK n \in Nat : n = MaxEvents /\ n <= n
      BY <1>2
    <3>3. Latest(Latest(m, n), n) = Latest(m, n)
      BY <3>2, LatestOfLatest
    <3> QED
      BY <3>1, <3>2, <3>3
  <2> QED
    BY <2>2, <2>3, <2>4, <2>5
<1>13. inserted.events # <<>>
  BY <1>3, <1>8, EventsAfterInsertion
<1> QED
  BY <1>9, <1>10, <1>11, <1>12, <1>13 DEF Follows

-----------------------------------------------------------------------------
(* The clients and their transactions *)

\* Where a client may be, with what it works on
MayBe(c, label, what) ==
    \/ c \in EndpointKeys /\ label \in {"idle", "refresh", "commit", "bucket"}
    \/ c = "suite" /\ label = "idle"
    \/ c = "reader" /\ label \in {"idle", "lookup", "fill", "end"} /\ (label # "idle" => what \in Keys)
    \/ c = "remover" /\ label \in {"idle", "wipe"} /\ (label # "idle" => what \in SUBSET Keys)

\* The clients are the endpoints outside suites, the suite, the reader and the remover, all different.
LEMMA ClientsAre ==
    /\ EndpointKeys \subseteq Clients /\ EndpointKeys \subseteq Keys
    /\ {"suite", "reader", "remover"} \subseteq Clients
    /\ "suite" \notin EndpointKeys /\ "reader" \notin EndpointKeys /\ "remover" \notin EndpointKeys
    /\ "suite" # "reader" /\ "suite" # "remover" /\ "reader" # "remover"
    /\ Clients = EndpointKeys \cup {"suite", "reader", "remover"}
    /\ SuiteKeys \subseteq Keys /\ \A k \in Keys : k \in EndpointKeys \/ k \in SuiteKeys
  BY StoreAssumption DEF Clients, EndpointKeys

\* A step of one client that names where it goes keeps the clients typed.
LEMMA ClientMoves ==
    ASSUME ClientsTyped, NEW c \in Clients, NEW label \in Labels, pc' = [pc EXCEPT ![c] = label],
           DOMAIN wanted' = Clients, \A d \in Clients \ {c} : wanted'[d] = wanted[d], MayBe(c, label, wanted'[c])
    PROVE  ClientsTyped'
<1>1. /\ pc' \in [Clients -> Labels] /\ pc'[c] = label
      /\ \A d \in Clients \ {c} : pc'[d] = pc[d]
  BY DEF ClientsTyped
<1>2. \A k \in EndpointKeys : pc'[k] \in {"idle", "refresh", "commit", "bucket"}
  BY <1>1, ClientsAre DEF ClientsTyped, MayBe
<1>3. pc'["suite"] = "idle"
  BY <1>1, ClientsAre DEF ClientsTyped, MayBe
<1>4. pc'["reader"] \in {"idle", "lookup", "fill", "end"} /\ (pc'["reader"] # "idle" => wanted'["reader"] \in Keys)
  BY <1>1, ClientsAre DEF ClientsTyped, MayBe
<1>5. pc'["remover"] \in {"idle", "wipe"} /\ (pc'["remover"] # "idle" => wanted'["remover"] \in SUBSET Keys)
  BY <1>1, ClientsAre DEF ClientsTyped, MayBe
<1> QED
  BY <1>1, <1>2, <1>3, <1>4, <1>5 DEF ClientsTyped

\* A client that begins a transaction
LEMMA Begun ==
    ASSUME ClientsTyped, Connected, NEW c \in Clients, NEW label \in InTransaction, NEW writes,
           pc[c] \notin InTransaction, Begin(c, writes), pc' = [pc EXCEPT ![c] = label]
    PROVE  /\ Connected'
           /\ open'[c] = writes /\ \A d \in DOMAIN open : d # c /\ open'[d] = open[d]
<1>1. /\ Cardinality(DOMAIN open) < Connections
      /\ open' = [d \in DOMAIN open \cup {c} |-> IF d = c THEN writes ELSE open[d]]
  BY DEF Begin, Free
<1>2. c \notin DOMAIN open /\ DOMAIN open' = DOMAIN open \cup {c}
  BY <1>1 DEF Connected
<1>3. /\ IsFiniteSet(DOMAIN open') /\ Cardinality(DOMAIN open') = Cardinality(DOMAIN open) + 1
      /\ Cardinality(DOMAIN open) \in Nat
  <2>1. PICK S : S = DOMAIN open /\ IsFiniteSet(S) /\ c \notin S
    BY <1>2 DEF Connected
  <2>2. /\ IsFiniteSet(S \cup {c}) /\ Cardinality(S \cup {c}) = Cardinality(S) + 1
        /\ Cardinality(S) \in Nat
    BY <2>1, FS_AddElement, FS_CardinalityType
  <2> QED
    BY <1>2, <2>1, <2>2
<1>4. Connections \in Nat
  BY StoreAssumption
<1>5. Cardinality(DOMAIN open') <= Connections
  BY <1>1, <1>3, <1>4
<1>6. pc'[c] = label /\ \A d \in Clients \ {c} : pc'[d] = pc[d]
  BY DEF ClientsTyped
<1>7. DOMAIN open' = {d \in Clients : pc'[d] \in InTransaction}
  BY <1>2, <1>6 DEF Connected
<1> QED
  BY <1>1, <1>2, <1>3, <1>5, <1>7 DEF Connected

\* A client that ends its transaction
LEMMA HasEnded ==
    ASSUME ClientsTyped, Connected, NEW c \in Clients, NEW label \in Labels, label \notin InTransaction,
           pc[c] \in InTransaction, open' = Ended(c), pc' = [pc EXCEPT ![c] = label]
    PROVE  /\ Connected'
           /\ \A d \in DOMAIN open \ {c} : open'[d] = open[d]
<1>1. DOMAIN open' = DOMAIN open \ {c} /\ \A d \in DOMAIN open \ {c} : open'[d] = open[d]
  BY DEF Ended, Restrict
<1>2. c \in DOMAIN open
  BY DEF Connected
<1>3. /\ IsFiniteSet(DOMAIN open') /\ Cardinality(DOMAIN open') = Cardinality(DOMAIN open) - 1
      /\ Cardinality(DOMAIN open) \in Nat
  BY <1>1, <1>2, FS_RemoveElement, FS_CardinalityType DEF Connected
<1>4. Connections \in Nat /\ Cardinality(DOMAIN open) <= Connections
  BY StoreAssumption DEF Connected
<1>5. Cardinality(DOMAIN open') <= Connections
  BY <1>3, <1>4
<1>6. pc'[c] = label /\ \A d \in Clients \ {c} : pc'[d] = pc[d]
  BY DEF ClientsTyped
<1>7. DOMAIN open' = {d \in Clients : pc'[d] \in InTransaction}
  BY <1>1, <1>6 DEF Connected
<1> QED
  BY <1>1, <1>3, <1>5, <1>7 DEF Connected

\* A client that goes on, in its transaction or outside of one
LEMMA GoesOn ==
    ASSUME ClientsTyped, Connected, NEW c \in Clients, NEW label \in Labels,
           label \in InTransaction <=> pc[c] \in InTransaction,
           open' = open, pc' = [pc EXCEPT ![c] = label]
    PROVE  Connected'
<1>1. pc'[c] = label /\ \A d \in Clients \ {c} : pc'[d] = pc[d]
  BY DEF ClientsTyped
<1>2. DOMAIN open' = {d \in Clients : pc'[d] \in InTransaction}
  BY <1>1 DEF Connected
<1> QED
  BY <1>2 DEF Connected

\* Rows that stay are within the limits whatever else fails, as long as no more counts of the events did.
LEMMA RowStays ==
    ASSUME NEW k, data[k] # None => EndpointRow(data[k], failures, Miscounted(k)),
           data'[k] = data[k], "count" \in lost'[k] <=> "count" \in lost[k],
           failures \in Nat, failures' \in {failures, failures + 1}
    PROVE  (data[k] # None => EndpointRow(data[k], failures, Miscounted(k)))'
<1>1. PICK miscounted \in BOOLEAN : miscounted = Miscounted(k) /\ miscounted = Miscounted(k)'
  <2>1. Miscounted(k) \in BOOLEAN
    BY DEF Miscounted
  <2>2. Miscounted(k)' = Miscounted(k)
    BY DEF Miscounted
  <2> QED
    BY <2>1, <2>2
<1>2. PICK f \in Nat, g \in Nat : f = failures /\ g = failures' /\ f <= g
  OBVIOUS
<1>3. PICK row : row = data[k] /\ data'[k] = row
  OBVIOUS
<1>4. row # None => EndpointRow(row, f, miscounted)
  BY <1>1, <1>2, <1>3
<1>5. row # None => EndpointRow(row, g, miscounted)
  BY <1>2, <1>4, MoreFailures
<1> QED
  BY <1>1, <1>2, <1>3, <1>5

\* The invariant of an endpoint none of whose state changes, but for a commit that is not lost any more or a failure
LEMMA SameEndpoint ==
    ASSUME NEW k \in EndpointKeys, EndpointInv(k),
           data'[k] = data[k], memory'[k] = memory[k], pc'[k] = pc[k], wanted'[k] = wanted[k],
           pc[k] \in {"refresh", "commit"} => open'[k] = open[k],
           lastHealth'[k] = lastHealth[k],
           \A x \in Losses \ {"commit"} : x \in lost'[k] <=> x \in lost[k],
           failures \in Nat, failures' \in {failures, failures + 1}
    PROVE  EndpointInv(k)'
<1>1. "event" \in lost'[k] <=> "event" \in lost[k]
  BY DEF Losses, Unchecked
<1>2. Comparable(k)' <=> Comparable(k)
  BY DEF Losses, Unchecked, Comparable
<1>3. PICK miscounted \in BOOLEAN : miscounted = Miscounted(k) /\ miscounted = Miscounted(k)'
  <2>1. Miscounted(k) \in BOOLEAN
    BY DEF Miscounted
  <2>2. Miscounted(k)' = Miscounted(k)
    BY DEF Losses, Unchecked, Miscounted
  <2> QED
    BY <2>1, <2>2
<1>4. PICK f \in Nat, g \in Nat : f = failures /\ g = failures' /\ f <= g
  OBVIOUS
<1>5. \A row : EndpointRow(row, f, miscounted) => EndpointRow(row, g, miscounted)
  BY <1>4, MoreFailures
<1>6. PICK before, saved : before = data[k] /\ data'[k] = before /\ saved = open[k]
  OBVIOUS
<1>7. (data[k] # None => EndpointRow(data[k], failures, Miscounted(k)))'
  <2>1. "count" \in lost'[k] <=> "count" \in lost[k]
    BY DEF Losses, Unchecked
  <2> QED
    BY <2>1, RowStays DEF EndpointInv
<1>8. Inserting(k)'
  <2>1. (pc[k] # "idle" => wanted[k] \in Results)'
    BY DEF EndpointInv, Inserting
  <2>2. ASSUME pc'[k] \in {"refresh", "commit"}
        PROVE  /\ EndpointRow(open[k], failures, Miscounted(k))'
               /\ (\E failed \in Failures :
                     Insertion(open[k], data[k], wanted[k], failed) /\ (failed # "nothing" => failed \in lost[k]))'
    <3>1. open'[k] = saved
      BY <1>6, <2>2
    <3>2. EndpointRow(saved, g, miscounted)
      BY <1>3, <1>4, <1>5, <1>6, <2>2 DEF EndpointInv, Inserting
    <3>3. PICK failed \in Failures :
            Insertion(open[k], data[k], wanted[k], failed) /\ (failed # "nothing" => failed \in lost[k])
      BY <2>2 DEF EndpointInv, Inserting
    <3>4. failed # "nothing" => failed \in lost'[k]
      BY <3>3 DEF Failures, Losses, Unchecked
    <3>5. Insertion(open'[k], data'[k], wanted'[k], failed)
      BY <1>6, <3>1, <3>3
    <3> QED
      BY <1>3, <1>4, <3>1, <3>2, <3>4, <3>5
  <2> QED
    BY <2>1, <2>2 DEF Inserting
<1>9. HealthKnown(k)'
  BY <1>1, <1>3 DEF EndpointInv, HealthKnown
<1>10. MemoryFollows(k)'
  BY <1>2 DEF EndpointInv, MemoryFollows
<1> QED
  BY <1>7, <1>8, <1>9, <1>10 DEF EndpointInv

-----------------------------------------------------------------------------
(* The steps of an insertion *)

\* What a step leaves alone of the other endpoints and of the suite keys
LEMMA OnlyTheEndpoint ==
    ASSUME StoreInv, NEW k \in EndpointKeys, EndpointInv(k)',
           \A l \in Keys \ {k} : data'[l] = data[l] /\ memory'[l] = memory[l] /\ lastHealth'[l] = lastHealth[l]
                                    /\ lost'[l] = lost[l],
           \A c \in Clients \ {k} : pc'[c] = pc[c] /\ wanted'[c] = wanted[c],
           \A c \in DOMAIN open \ {k} : open'[c] = open[c],
           failures' \in {failures, failures + 1}
    PROVE  /\ \A l \in EndpointKeys : EndpointInv(l)'
           /\ \A l \in SuiteKeys : (data[l] # None => SuiteRow(data[l]))'
<1>1. ASSUME NEW l \in EndpointKeys, l # k PROVE EndpointInv(l)'
  <2>1. l \in Keys \ {k} /\ l \in Clients \ {k} /\ EndpointInv(l)
    BY <1>1, ClientsAre DEF StoreInv
  <2>2. pc[l] \in {"refresh", "commit"} => l \in DOMAIN open
    BY <2>1 DEF StoreInv, Typed, Connected, InTransaction
  <2>3. failures \in Nat
    BY DEF StoreInv, Typed, Counted, Workload
  <2> QED
    BY <1>1, <2>1, <2>2, <2>3, SameEndpoint
<1>2. ASSUME NEW l \in SuiteKeys PROVE (data[l] # None => SuiteRow(data[l]))'
  <2>1. l \in Keys \ {k} /\ (data[l] # None => SuiteRow(data[l]))
    BY ClientsAre DEF StoreInv, EndpointKeys
  <2> QED
    BY <2>1
<1> QED
  BY <1>1, <1>2

\* A transaction begins with what it would commit: the committed rows with the result, and what failed of it.
LEMMA BeginInsertKeeps ==
    ASSUME NoneIsNoRow, StoreInv, NEW k \in EndpointKeys, BeginInsert(k)
    PROVE  StoreInv'
<1> USE DEF StoreInv, Typed
<1>1. PICK kind \in workload.kinds, failed \in workload.unchecked \cup {"nothing"} :
        /\ Begin(k, Inserted(data[k], [id |-> inserts + 1, kind |-> kind], failed))
        /\ wanted' = [wanted EXCEPT ![k] = [id |-> inserts + 1, kind |-> kind]]
        /\ IF failed = "nothing"
             THEN UNCHANGED <<failures, lost>>
             ELSE Fail /\ Connections = 1 /\ lost' = [lost EXCEPT ![k] = @ \cup {failed}]
  BY DEF BeginInsert
<1>2. PICK result : result = [id |-> inserts + 1, kind |-> kind]
  OBVIOUS
<1>3. /\ pc[k] = "idle" /\ inserts < workload.inserts /\ inserts' = inserts + 1
      /\ pc' = [pc EXCEPT ![k] = "refresh"]
      /\ data' = data /\ suite' = suite /\ memory' = memory /\ cache' = cache /\ shown' = shown
      /\ now' = now /\ workload' = workload /\ lastHealth' = lastHealth
  BY DEF BeginInsert, Idle, Goto, rows
<1>4. result \in Results /\ failed \in Failures /\ (failed # "nothing" => failed \in Unchecked)
  <2>1. inserts + 1 \in Nat /\ kind \in Kinds /\ workload.unchecked \subseteq Unchecked
    BY DEF Counted, Workload, Kinds
  <2> QED
    BY <1>2, <2>1 DEF Results, Failures
<1>5. k \in Clients /\ k \in Keys
  BY ClientsAre
<1>6. /\ Connected'
      /\ open'[k] = Inserted(data[k], result, failed)
      /\ \A d \in DOMAIN open : d # k /\ open'[d] = open[d]
  <2>1. "refresh" \in InTransaction /\ pc[k] \notin InTransaction
    BY <1>3 DEF InTransaction
  <2>2. Begin(k, Inserted(data[k], result, failed))
    BY <1>1, <1>2
  <2> QED
    BY <1>3, <1>5, <2>1, <2>2, Begun
<1>7. /\ DOMAIN wanted' = Clients /\ wanted'[k] = result
      /\ \A d \in Clients \ {k} : wanted'[d] = wanted[d]
  BY <1>1, <1>2, <1>5 DEF ClientsTyped
<1>8. ClientsTyped'
  <2>1. "refresh" \in Labels /\ MayBe(k, "refresh", wanted'[k])
    BY DEF Labels, MayBe
  <2> QED
    BY <1>3, <1>5, <1>7, <2>1, ClientMoves
<1>9. /\ pc'[k] = "refresh" /\ pc'["reader"] = pc["reader"]
      /\ \A c \in Clients \ {k} : pc'[c] = pc[c]
  BY <1>3, <1>5, ClientsAre DEF ClientsTyped
<1>10. CachesTyped'
  BY <1>3, <1>9 DEF CachesTyped
<1>11. /\ lost' \in [Keys -> SUBSET Losses] /\ failures' \in 0..workload.failures
       /\ \A l \in Keys \ {k} : lost'[l] = lost[l]
       /\ \A x \in Losses : x \in lost[k] => x \in lost'[k]
       /\ failed # "nothing" => failed \in lost'[k]
       /\ failures' = IF failed = "nothing" THEN failures ELSE failures + 1
  <2>1. CASE failed = "nothing"
    BY <1>1, <1>5, <2>1 DEF Counted
  <2>2. CASE failed # "nothing"
    <3>1. Fail /\ lost' = [lost EXCEPT ![k] = @ \cup {failed}] /\ failed \in Losses
      BY <1>1, <1>4, <2>2 DEF Losses
    <3>2. failures' \in 0..workload.failures /\ failures' = failures + 1
      BY <3>1 DEF Fail, Counted, Workload
    <3> QED
      BY <1>5, <2>2, <3>1, <3>2 DEF Counted
  <2> QED
    BY <2>1, <2>2
<1>12. Counted'
  <2>1. inserts' \in 0..workload.inserts
    BY <1>3 DEF Counted, Workload
  <2> QED
    BY <1>3, <1>11, <2>1 DEF Counted
<1>13. EndpointInv(k)'
  <2>1. Insertion(open'[k], data[k], result, failed)
    BY <1>6, InsertedIs
  <2>2. PICK f \in Nat, g \in Nat : f = failures /\ g = failures' /\ f <= g /\ g = IF failed = "nothing" THEN f ELSE f + 1
    <3>1. failures \in Nat /\ failures' = IF failed = "nothing" THEN failures ELSE failures + 1
      BY <1>11 DEF Counted, Workload
    <3> QED
      BY <3>1
  <2>3. PICK miscounted \in BOOLEAN, later \in BOOLEAN :
          miscounted = Miscounted(k) /\ later = Miscounted(k)' /\ (miscounted => later) /\ (failed = "count" => later)
    <3>1. Miscounted(k) \in BOOLEAN /\ Miscounted(k)' \in BOOLEAN
      BY DEF Miscounted
    <3>2. Miscounted(k) => Miscounted(k)'
      BY <1>11 DEF Miscounted, Losses, Unchecked
    <3>3. failed = "count" => Miscounted(k)'
      BY <1>11 DEF Miscounted
    <3> QED
      BY <3>1, <3>2, <3>3
  <2>4. PICK before, inserted : before = data[k] /\ data'[k] = before /\ inserted = open'[k]
    BY <1>3
  <2>5. EndpointInv(k)
    OBVIOUS
  <2>6. before # None => EndpointRow(before, f, miscounted)
    BY <2>2, <2>3, <2>4, <2>5 DEF EndpointInv
  <2>7. before # None => EndpointRow(before, f, later) /\ EndpointRow(before, g, later)
    BY <2>2, <2>3, <2>6, MoreFailures
  <2>8. EndpointRow(inserted, g, later)
    <3>1. Insertion(inserted, before, result, failed)
      BY <2>1, <2>4
    <3> QED
      BY <1>4, <2>2, <2>3, <2>7, <3>1, InsertedRow
  <2>9. Inserting(k)'
    <3>1. Insertion(open'[k], data'[k], wanted'[k], failed)
      BY <1>3, <1>7, <2>1
    <3>2. EndpointRow(open[k], failures, Miscounted(k))'
      BY <2>2, <2>3, <2>4, <2>8
    <3> QED
      BY <1>4, <1>7, <1>11, <3>1, <3>2 DEF Inserting
  <2>10. HealthKnown(k)'
    <3>1. "event" \in lost[k] => "event" \in lost'[k]
      BY <1>11 DEF Losses, Unchecked
    <3>2. \A health : Tells(before.events, health, miscounted) => Tells(before.events, health, later)
      BY <2>3 DEF Tells
    <3> QED
      BY <1>3, <2>3, <2>4, <2>5, <3>1, <3>2 DEF EndpointInv, HealthKnown
  <2>11. MemoryFollows(k)'
    <3>1. Comparable(k)' => Comparable(k)
      BY <1>11 DEF Comparable, Losses, Unchecked
    <3> QED
      BY <1>3, <2>5, <3>1 DEF EndpointInv, MemoryFollows
  <2> QED
    BY <2>2, <2>3, <2>4, <2>7, <2>9, <2>10, <2>11 DEF EndpointInv
<1>14. /\ \A l \in EndpointKeys : EndpointInv(l)'
       /\ \A l \in SuiteKeys : (data[l] # None => SuiteRow(data[l]))'
  BY <1>3, <1>6, <1>7, <1>9, <1>11, <1>13, OnlyTheEndpoint
<1> QED
  BY <1>3, <1>6, <1>8, <1>10, <1>12, <1>14

\* Reading the page in the transaction changes no rows.
LEMMA RefreshCacheKeeps ==
    ASSUME StoreInv, NEW k \in EndpointKeys, RefreshCache(k)
    PROVE  StoreInv'
<1> USE DEF StoreInv, Typed
<1>1. /\ pc[k] = "refresh" /\ pc' = [pc EXCEPT ![k] = "commit"] /\ cache' = Refreshed(k)
      /\ data' = data /\ suite' = suite /\ memory' = memory /\ shown' = shown /\ open' = open /\ wanted' = wanted
      /\ now' = now /\ workload' = workload /\ inserts' = inserts /\ failures' = failures
      /\ lastHealth' = lastHealth /\ lost' = lost
  BY DEF RefreshCache, Goto, rows, bounds, observed
<1>2. k \in Clients /\ k \in Keys
  BY ClientsAre
<1>3. Connected'
  <2>1. "commit" \in Labels /\ ("commit" \in InTransaction <=> pc[k] \in InTransaction)
    BY <1>1 DEF Labels, InTransaction
  <2> QED
    BY <1>1, <1>2, <2>1, GoesOn
<1>4. ClientsTyped'
  <2>1. "commit" \in Labels /\ MayBe(k, "commit", wanted'[k]) /\ DOMAIN wanted' = Clients
    BY <1>1 DEF Labels, MayBe, ClientsTyped
  <2> QED
    BY <1>1, <1>2, <2>1, ClientMoves
<1>5. /\ pc'[k] = "commit" /\ pc'["reader"] = pc["reader"]
      /\ \A c \in Clients \ {k} : pc'[c] = pc[c]
  BY <1>1, <1>2, ClientsAre DEF ClientsTyped
<1>6. CachesTyped'
  <2>1. DOMAIN cache' = Keys
    BY <1>1 DEF Refreshed
  <2>2. ASSUME NEW l \in Keys, cache'[l] # None PROVE IsStatus(cache'[l])
    <3>1. cache'[l] = cache[l] \/ cache'[l] = StatusOf(Seen(k, l))
      BY <1>1, <2>2 DEF Refreshed
    <3>2. IsStatus(StatusOf(Seen(k, l)))
      BY DEF IsStatus, StatusOf
    <3> QED
      BY <2>2, <3>1, <3>2 DEF CachesTyped
  <2> QED
    BY <1>1, <1>5, <2>1, <2>2 DEF CachesTyped
<1>7. Counted'
  BY <1>1 DEF Counted
<1>8. EndpointInv(k)'
  <2>1. EndpointInv(k) /\ Inserting(k)
    BY DEF EndpointInv
  <2>2. Inserting(k)'
    BY <1>1, <1>5, <2>1 DEF Inserting, Miscounted
  <2>3. HealthKnown(k)' /\ MemoryFollows(k)'
    BY <1>1, <2>1 DEF EndpointInv, HealthKnown, MemoryFollows, Comparable, Miscounted
  <2> QED
    BY <1>1, <2>1, <2>2, <2>3 DEF EndpointInv, Miscounted
<1>9. /\ \A l \in EndpointKeys : EndpointInv(l)'
      /\ \A l \in SuiteKeys : (data[l] # None => SuiteRow(data[l]))'
  BY <1>1, <1>5, <1>8, OnlyTheEndpoint
<1> QED
  BY <1>1, <1>3, <1>4, <1>6, <1>7, <1>9

\* The commit makes the rows of the transaction those of the endpoint, while the store in memory takes the same result.
LEMMA CommitInsertKeeps ==
    ASSUME NoneIsNoRow, StoreInv, NEW k \in EndpointKeys, CommitInsert(k)
    PROVE  StoreInv'
<1> USE DEF StoreInv, Typed
<1>1. /\ pc[k] = "commit" /\ pc' = [pc EXCEPT ![k] = "bucket"]
      /\ data' = [data EXCEPT ![k] = open[k]] /\ open' = Ended(k)
      /\ lost' = [lost EXCEPT ![k] = @ \ {"commit"}]
      /\ suite' = suite /\ cache' = cache /\ shown' = shown /\ wanted' = wanted
      /\ now' = now /\ workload' = workload /\ inserts' = inserts /\ failures' = failures
  BY DEF CommitInsert, Goto, bounds
<1>2. PICK cleanUp \in BOOLEAN : memory' = [memory EXCEPT ![k] = AddedInMemory(@, wanted[k], cleanUp)]
  BY DEF CommitInsert, CleanUps
<1>3. /\ wanted[k].kind = "pending" => lastHealth' = lastHealth
      /\ wanted[k].kind # "pending" => lastHealth' = [lastHealth EXCEPT ![k] = Health(wanted[k].kind)]
  BY DEF CommitInsert
<1>4. k \in Clients /\ k \in Keys
  BY ClientsAre
<1>5. Connected' /\ \A d \in DOMAIN open \ {k} : open'[d] = open[d]
  <2>1. "bucket" \in Labels /\ "bucket" \notin InTransaction /\ pc[k] \in InTransaction
    BY <1>1 DEF Labels, InTransaction
  <2> QED
    BY <1>1, <1>4, <2>1, HasEnded
<1>6. ClientsTyped'
  <2>1. "bucket" \in Labels /\ MayBe(k, "bucket", wanted'[k]) /\ DOMAIN wanted' = Clients
    BY <1>1 DEF Labels, MayBe, ClientsTyped
  <2> QED
    BY <1>1, <1>4, <2>1, ClientMoves
<1>7. /\ pc'[k] = "bucket" /\ pc'["reader"] = pc["reader"]
      /\ \A c \in Clients \ {k} : pc'[c] = pc[c]
  BY <1>1, <1>4, ClientsAre DEF ClientsTyped
<1>8. CachesTyped'
  BY <1>1, <1>7 DEF CachesTyped
<1>9. /\ lost' \in [Keys -> SUBSET Losses] /\ \A l \in Keys \ {k} : lost'[l] = lost[l]
      /\ \A x \in Losses \ {"commit"} : x \in lost'[k] <=> x \in lost[k]
  BY <1>1, <1>4 DEF Counted
<1>10. Counted'
  BY <1>1, <1>9 DEF Counted
<1>11. /\ data'[k] = open[k] /\ memory'[k] = AddedInMemory(memory[k], wanted[k], cleanUp)
       /\ DOMAIN data' = Keys /\ DOMAIN memory' = Keys /\ DOMAIN lastHealth' = Keys
       /\ wanted[k].kind = "pending" => lastHealth'[k] = lastHealth[k]
       /\ wanted[k].kind # "pending" => lastHealth'[k] = Health(wanted[k].kind)
       /\ \A l \in Keys \ {k} : data'[l] = data[l] /\ memory'[l] = memory[l] /\ lastHealth'[l] = lastHealth[l]
  BY <1>1, <1>2, <1>3, <1>4
<1>12. EndpointInv(k)'
  <2>1. EndpointInv(k) /\ wanted[k] \in Results
    BY <1>1 DEF EndpointInv, Inserting
  <2>2. PICK failed \in Failures :
          Insertion(open[k], data[k], wanted[k], failed) /\ (failed # "nothing" => failed \in lost[k])
    BY <1>1, <2>1 DEF EndpointInv, Inserting
  <2>3. PICK f \in Nat, miscounted \in BOOLEAN :
          /\ f = failures /\ f = failures' /\ miscounted = Miscounted(k) /\ miscounted = Miscounted(k)'
          /\ failed = "count" => miscounted
    <3>1. failures \in Nat /\ failures' = failures
      BY <1>1 DEF Counted, Workload
    <3>2. Miscounted(k) \in BOOLEAN
      BY DEF Miscounted
    <3>3. Miscounted(k)' = Miscounted(k)
      BY <1>9 DEF Miscounted, Losses, Unchecked
    <3>4. failed = "count" => Miscounted(k)
      BY <2>2 DEF Miscounted
    <3> QED
      BY <3>1, <3>2, <3>3, <3>4
  <2>4. PICK before, after : before = data[k] /\ after = open[k] /\ data'[k] = after
    BY <1>11
  <2>5. (before # None => EndpointRow(before, f, miscounted)) /\ EndpointRow(after, f, miscounted)
    BY <1>1, <2>1, <2>3, <2>4 DEF EndpointInv, Inserting
  <2>6. /\ after # None
        /\ failed # "event" /\ wanted[k].kind # "pending" => Tells(after.events, Health(wanted[k].kind), miscounted)
        /\ wanted[k].kind = "pending" /\ before # None => \A health \in Healths :
              Tells(before.events, health, miscounted) => Tells(after.events, health, miscounted)
    <3>1. PICK result \in Results : result = wanted[k]
      BY <2>1
    <3>2. Insertion(after, before, result, failed)
      BY <2>2, <2>4, <3>1
    <3>3. /\ after # None
          /\ failed # "event" /\ result.kind # "pending" => Tells(after.events, Health(result.kind), miscounted)
          /\ result.kind = "pending" /\ before # None => \A health \in Healths :
                Tells(before.events, health, miscounted) => Tells(after.events, health, miscounted)
      BY <2>3, <2>5, <3>2, InsertedRow
    <3> QED
      BY <3>1, <3>3
  <2>7. Inserting(k)'
    BY <1>1, <1>7, <2>1 DEF Inserting
  <2>8. HealthKnown(k)'
    <3>1. /\ "event" \notin lost'[k] => failed # "event"
          /\ "event" \in lost'[k] <=> "event" \in lost[k]
      BY <1>9, <2>2 DEF Losses, Unchecked
    <3>2. HealthKnown(k)
      BY <2>1 DEF EndpointInv
    <3>3. CASE wanted[k].kind = "pending"
      <4>1. lastHealth'[k] = lastHealth[k]
        BY <1>11, <3>3
      <4>2. lastHealth[k] # None => lastHealth[k] \in Healths /\ before # None
        BY <2>4, <3>2 DEF HealthKnown, Healths
      <4>3. lastHealth[k] # None /\ "event" \notin lost[k] => Tells(before.events, lastHealth[k], miscounted)
        BY <2>3, <2>4, <3>2, <4>2 DEF HealthKnown
      <4>4. lastHealth[k] # None /\ "event" \notin lost'[k] => Tells(after.events, lastHealth[k], miscounted)
        BY <2>6, <3>1, <3>3, <4>2, <4>3
      <4> QED
        BY <2>3, <2>4, <2>6, <3>2, <4>1, <4>4 DEF HealthKnown
    <3>4. CASE wanted[k].kind # "pending"
      <4>1. lastHealth'[k] = Health(wanted[k].kind) /\ Health(wanted[k].kind) \in {"HEALTHY", "UNHEALTHY"}
        BY <1>11, <3>4 DEF Health
      <4>2. "event" \notin lost'[k] => Tells(after.events, Health(wanted[k].kind), miscounted)
        BY <2>6, <3>1, <3>4
      <4> QED
        BY <2>3, <2>4, <2>6, <4>1, <4>2 DEF HealthKnown
    <3> QED
      BY <3>3, <3>4
  <2>9. MemoryFollows(k)'
    <3> SUFFICES ASSUME Comparable(k)'
                 PROVE  memory'[k] # None /\ Follows(after, memory'[k])
      BY <2>4, <2>6 DEF MemoryFollows
    <3>1. Comparable(k) /\ failed \notin {"count", "start", "event"} /\ ~miscounted
      BY <1>9, <2>2, <2>3 DEF Comparable, Losses, Unchecked, Miscounted
    <3>2. /\ before = None <=> memory[k] = None
          /\ before # None => Follows(before, memory[k])
      BY <2>1, <2>4, <3>1 DEF EndpointInv, MemoryFollows
    <3>3. before # None => EndpointRow(before, f, FALSE)
      BY <2>5, <3>1
    <3>4. /\ AddedInMemory(memory[k], wanted[k], cleanUp) # None
          /\ Follows(after, AddedInMemory(memory[k], wanted[k], cleanUp))
      BY <2>1, <2>2, <2>4, <3>1, <3>2, <3>3, AddedFollows
    <3> QED
      BY <1>11, <3>4
  <2>10. (data[k] # None => EndpointRow(data[k], failures, Miscounted(k)))'
    BY <2>3, <2>4, <2>5
  <2> QED
    BY <2>7, <2>8, <2>9, <2>10 DEF EndpointInv
<1>13. /\ \A l \in EndpointKeys : EndpointInv(l)'
       /\ \A l \in SuiteKeys : (data[l] # None => SuiteRow(data[l]))'
  BY <1>1, <1>5, <1>7, <1>9, <1>11, <1>12, OnlyTheEndpoint
<1> QED
  BY <1>5, <1>6, <1>8, <1>10, <1>11, <1>13

\* An endpoint that is done with a result
LEMMA EndpointDone ==
    ASSUME ClientsTyped, NEW k \in EndpointKeys, Done(k)
    PROVE  /\ pc' = [pc EXCEPT ![k] = "idle"] /\ pc'[k] = "idle" /\ pc'["reader"] = pc["reader"]
           /\ "idle" \in Labels /\ "idle" \notin InTransaction
           /\ \A c \in Clients \ {k} : pc'[c] = pc[c] /\ wanted'[c] = wanted[c]
           /\ ClientsTyped'
<1>1. /\ pc' = [pc EXCEPT ![k] = "idle"] /\ wanted' = [wanted EXCEPT ![k] = None]
      /\ "idle" \in Labels /\ "idle" \notin InTransaction
  BY DEF Done, Goto, Labels, InTransaction
<1>2. k \in Clients
  BY ClientsAre
<1>3. /\ pc'[k] = "idle" /\ DOMAIN wanted' = Clients
      /\ \A c \in Clients \ {k} : pc'[c] = pc[c] /\ wanted'[c] = wanted[c]
  BY <1>1, <1>2 DEF ClientsTyped
<1>4. MayBe(k, "idle", wanted'[k])
  BY DEF MayBe
<1>5. ClientsTyped'
  BY <1>1, <1>2, <1>3, <1>4, ClientMoves
<1> QED
  BY <1>1, <1>3, <1>5, ClientsAre

\* A failed commit leaves the rows as they were, and the stores are no longer compared.
LEMMA CommitInsertFailsKeeps ==
    ASSUME StoreInv, NEW k \in EndpointKeys, CommitInsertFails(k)
    PROVE  StoreInv'
<1> USE DEF StoreInv, Typed
<1>1. /\ pc[k] = "commit" /\ Fail /\ open' = Ended(k) /\ Done(k)
      /\ lost' = [lost EXCEPT ![k] = @ \cup {"commit"}]
      /\ data' = data /\ memory' = memory /\ lastHealth' = lastHealth
      /\ suite' = suite /\ cache' = cache /\ shown' = shown
      /\ now' = now /\ workload' = workload /\ inserts' = inserts
  BY DEF CommitInsertFails, rows
<1>2. k \in Clients /\ k \in Keys
  BY ClientsAre
<1>3. /\ pc' = [pc EXCEPT ![k] = "idle"] /\ pc'[k] = "idle" /\ pc'["reader"] = pc["reader"]
      /\ "idle" \in Labels /\ "idle" \notin InTransaction
      /\ \A c \in Clients \ {k} : pc'[c] = pc[c] /\ wanted'[c] = wanted[c]
      /\ ClientsTyped'
  BY <1>1, EndpointDone
<1>4. Connected' /\ \A d \in DOMAIN open \ {k} : open'[d] = open[d]
  <2>1. pc[k] \in InTransaction
    BY <1>1 DEF InTransaction
  <2> QED
    BY <1>1, <1>2, <1>3, <2>1, HasEnded
<1>5. CachesTyped'
  BY <1>1, <1>3 DEF CachesTyped
<1>6. /\ lost' \in [Keys -> SUBSET Losses] /\ \A l \in Keys \ {k} : lost'[l] = lost[l]
      /\ \A x \in Losses \ {"commit"} : x \in lost'[k] <=> x \in lost[k]
      /\ failures \in Nat /\ failures' \in {failures, failures + 1}
  BY <1>1, <1>2 DEF Fail, Counted, Workload, Losses
<1>7. Counted'
  <2>1. failures' \in 0..workload.failures
    BY <1>1 DEF Fail, Counted, Workload
  <2> QED
    BY <1>1, <1>6, <2>1 DEF Counted
<1>8. EndpointInv(k)'
  <2>1. /\ EndpointInv(k) /\ ("event" \in lost'[k] <=> "event" \in lost[k]) /\ (Comparable(k)' <=> Comparable(k))
        /\ "count" \in lost'[k] <=> "count" \in lost[k]
    BY <1>6 DEF Losses, Unchecked, Comparable
  <2>2. Inserting(k)'
    BY <1>3 DEF Inserting
  <2>3. HealthKnown(k)' /\ MemoryFollows(k)'
    BY <1>1, <1>6, <2>1 DEF EndpointInv, HealthKnown, MemoryFollows, Miscounted
  <2>4. (data[k] # None => EndpointRow(data[k], failures, Miscounted(k)))'
    <3>1. data[k] # None => EndpointRow(data[k], failures, Miscounted(k))
      BY <2>1 DEF EndpointInv
    <3> QED
      BY <1>1, <1>6, <2>1, <3>1, RowStays
  <2> QED
    BY <2>2, <2>3, <2>4 DEF EndpointInv
<1>9. /\ \A l \in EndpointKeys : EndpointInv(l)'
      /\ \A l \in SuiteKeys : (data[l] # None => SuiteRow(data[l]))'
  BY <1>1, <1>3, <1>4, <1>6, <1>8, OnlyTheEndpoint
<1> QED
  BY <1>1, <1>3, <1>4, <1>5, <1>7, <1>9

\* Buckets change nothing else of the rows of an endpoint.
LEMMA BucketedRow ==
    ASSUME NoneIsNoRow, NEW row, NEW failed, NEW miscounted, EndpointRow(row, failed, miscounted),
           NEW k, NEW cleanUp \in BOOLEAN
    PROVE  /\ BucketedAs(row, k, cleanUp) # None /\ EndpointRow(BucketedAs(row, k, cleanUp), failed, miscounted)
           /\ BucketedAs(row, k, cleanUp).results = row.results
           /\ BucketedAs(row, k, cleanUp).events = row.events
<1>1. row = [results |-> row.results, events |-> row.events, uptime |-> row.uptime, buckets |-> row.buckets]
  BY DEF EndpointRow, IsRow
<1>2. PICK buckets : BucketedAs(row, k, cleanUp) = [row EXCEPT !.buckets = buckets]
  BY DEF BucketedAs
<1>3. PICK r : r = [results |-> row.results, events |-> row.events, uptime |-> row.uptime, buckets |-> buckets]
  OBVIOUS
<1>4. BucketedAs(row, k, cleanUp) = r
  BY <1>1, <1>2, <1>3
<1>5. r # None /\ IsRow(r) /\ r.results = row.results /\ r.events = row.events
  BY <1>3 DEF NoneIsNoRow, IsRow
<1> QED
  BY <1>4, <1>5 DEF EndpointRow

\* The transaction of the buckets leaves results and events alone.
LEMMA InsertBucketsKeeps ==
    ASSUME NoneIsNoRow, StoreInv, NEW k \in EndpointKeys, InsertBuckets(k)
    PROVE  StoreInv'
<1> USE DEF StoreInv, Typed
<1>1. /\ pc[k] = "bucket" /\ open' = open /\ Done(k)
      /\ lost' = lost /\ memory' = memory /\ lastHealth' = lastHealth
      /\ suite' = suite /\ cache' = cache /\ shown' = shown
      /\ now' = now /\ workload' = workload /\ inserts' = inserts /\ failures' = failures
  BY DEF InsertBuckets, bounds, observed
<1>2. k \in Clients /\ k \in Keys
  BY ClientsAre
<1>3. /\ pc' = [pc EXCEPT ![k] = "idle"] /\ pc'[k] = "idle" /\ pc'["reader"] = pc["reader"]
      /\ "idle" \in Labels /\ "idle" \notin InTransaction
      /\ \A c \in Clients \ {k} : pc'[c] = pc[c] /\ wanted'[c] = wanted[c]
      /\ ClientsTyped'
  BY <1>1, EndpointDone
<1>4. Connected'
  <2>1. "idle" \in InTransaction <=> pc[k] \in InTransaction
    BY <1>1 DEF InTransaction
  <2> QED
    BY <1>1, <1>2, <1>3, <2>1, GoesOn
<1>5. CachesTyped' /\ Counted'
  BY <1>1, <1>3 DEF CachesTyped, Counted
<1>6. /\ DOMAIN data' = Keys /\ \A l \in Keys \ {k} : data'[l] = data[l]
      /\ data'[k] = None <=> data[k] = None
      /\ data[k] # None =>
            /\ EndpointRow(data'[k], failures, Miscounted(k))
            /\ data'[k].results = data[k].results /\ data'[k].events = data[k].events
  <2>1. CASE data[k] = None
    BY <2>1 DEF InsertBuckets
  <2>2. CASE data[k] # None
    <3>1. PICK cleanUp \in BOOLEAN : data' = [data EXCEPT ![k] = BucketedAs(@, k, cleanUp)]
      BY <2>2 DEF InsertBuckets, CleanUps
    <3>2. EndpointRow(data[k], failures, Miscounted(k))
      BY <2>2 DEF EndpointInv
    <3>3. data'[k] = BucketedAs(data[k], k, cleanUp)
      BY <1>2, <3>1
    <3> QED
      BY <1>2, <2>2, <3>1, <3>2, <3>3, BucketedRow
  <2> QED
    BY <2>1, <2>2
<1>7. EndpointInv(k)'
  <2>1. EndpointInv(k)
    OBVIOUS
  <2>2. Inserting(k)'
    BY <1>3 DEF Inserting
  <2>3. HealthKnown(k)'
    BY <1>1, <1>6, <2>1 DEF EndpointInv, HealthKnown, Miscounted
  <2>4. MemoryFollows(k)'
    <3>1. Comparable(k)' => Comparable(k)
      BY <1>1 DEF Comparable
    <3> QED
      BY <1>1, <1>6, <2>1, <3>1 DEF EndpointInv, MemoryFollows, Follows
  <2>5. (data[k] # None => EndpointRow(data[k], failures, Miscounted(k)))'
    BY <1>1, <1>6 DEF Miscounted
  <2> QED
    BY <2>2, <2>3, <2>4, <2>5 DEF EndpointInv
<1>8. /\ \A l \in EndpointKeys : EndpointInv(l)'
      /\ \A l \in SuiteKeys : (data[l] # None => SuiteRow(data[l]))'
  BY <1>1, <1>3, <1>6, <1>7, OnlyTheEndpoint
<1> QED
  BY <1>1, <1>3, <1>4, <1>5, <1>6, <1>8

\* So does its failure.
LEMMA InsertBucketsFailsKeeps ==
    ASSUME StoreInv, NEW k \in EndpointKeys, InsertBucketsFails(k)
    PROVE  StoreInv'
<1> USE DEF StoreInv, Typed
<1>1. /\ pc[k] = "bucket" /\ Fail /\ open' = open /\ Done(k)
      /\ lost' = [lost EXCEPT ![k] = @ \cup {"bucket"}]
      /\ data' = data /\ memory' = memory /\ lastHealth' = lastHealth
      /\ suite' = suite /\ cache' = cache /\ shown' = shown
      /\ now' = now /\ workload' = workload /\ inserts' = inserts
  BY DEF InsertBucketsFails, rows
<1>2. k \in Clients /\ k \in Keys
  BY ClientsAre
<1>3. /\ pc' = [pc EXCEPT ![k] = "idle"] /\ pc'[k] = "idle" /\ pc'["reader"] = pc["reader"]
      /\ "idle" \in Labels /\ "idle" \notin InTransaction
      /\ \A c \in Clients \ {k} : pc'[c] = pc[c] /\ wanted'[c] = wanted[c]
      /\ ClientsTyped'
  BY <1>1, EndpointDone
<1>4. Connected'
  <2>1. "idle" \in InTransaction <=> pc[k] \in InTransaction
    BY <1>1 DEF InTransaction
  <2> QED
    BY <1>1, <1>2, <1>3, <2>1, GoesOn
<1>5. CachesTyped'
  BY <1>1, <1>3 DEF CachesTyped
<1>6. /\ lost' \in [Keys -> SUBSET Losses] /\ \A l \in Keys \ {k} : lost'[l] = lost[l]
      /\ "event" \in lost'[k] <=> "event" \in lost[k]
      /\ "count" \in lost'[k] <=> "count" \in lost[k]
      /\ ~Comparable(k)'
      /\ failures \in Nat /\ failures' \in {failures, failures + 1}
  <2>1. failures \in Nat /\ failures' \in {failures, failures + 1}
    BY <1>1 DEF Fail, Counted, Workload
  <2>2. /\ lost \in [Keys -> SUBSET Losses] /\ "bucket" \in Losses
        /\ lost'[k] = lost[k] \cup {"bucket"} /\ \A l \in Keys \ {k} : lost'[l] = lost[l]
    BY <1>1, <1>2 DEF Counted, Losses
  <2>3. lost' \in [Keys -> SUBSET Losses]
    BY <1>1, <1>2, <2>2
  <2>4. ~Comparable(k)'
    BY <2>2 DEF Comparable
  <2> QED
    BY <2>1, <2>2, <2>3, <2>4
<1>7. Counted'
  <2>1. failures' \in 0..workload.failures
    BY <1>1 DEF Fail, Counted, Workload
  <2> QED
    BY <1>1, <1>6, <2>1 DEF Counted
<1>8. EndpointInv(k)'
  <2>1. EndpointInv(k)
    OBVIOUS
  <2>2. Inserting(k)'
    BY <1>3 DEF Inserting
  <2>3. HealthKnown(k)' /\ MemoryFollows(k)'
    BY <1>1, <1>6, <2>1 DEF EndpointInv, HealthKnown, MemoryFollows, Miscounted
  <2>4. (data[k] # None => EndpointRow(data[k], failures, Miscounted(k)))'
    <3>1. data[k] # None => EndpointRow(data[k], failures, Miscounted(k))
      BY <2>1 DEF EndpointInv
    <3> QED
      BY <1>1, <1>6, <3>1, RowStays
  <2> QED
    BY <2>2, <2>3, <2>4 DEF EndpointInv
<1>9. /\ \A l \in EndpointKeys : EndpointInv(l)'
      /\ \A l \in SuiteKeys : (data[l] # None => SuiteRow(data[l]))'
  BY <1>1, <1>3, <1>6, <1>8, OnlyTheEndpoint
<1> QED
  BY <1>1, <1>3, <1>4, <1>5, <1>7, <1>9

-----------------------------------------------------------------------------
(* The steps of the other clients *)

\* What a step of another client leaves alone of the endpoints
LEMMA EndpointsAlone ==
    ASSUME StoreInv,
           \A l \in EndpointKeys :
              /\ data'[l] = data[l] /\ memory'[l] = memory[l] /\ lastHealth'[l] = lastHealth[l]
              /\ pc'[l] = pc[l] /\ wanted'[l] = wanted[l]
              /\ \A x \in Losses \ {"commit"} : x \in lost'[l] <=> x \in lost[l]
              /\ l \in DOMAIN open => open'[l] = open[l],
           failures' = failures
    PROVE  \A l \in EndpointKeys : EndpointInv(l)'
<1> TAKE l \in EndpointKeys
<1>1. l \in Clients /\ EndpointInv(l)
  BY ClientsAre DEF StoreInv
<1>2. pc[l] \in {"refresh", "commit"} => l \in DOMAIN open
  BY <1>1 DEF StoreInv, Typed, Connected, InTransaction
<1>3. failures \in Nat
  BY DEF StoreInv, Typed, Counted, Workload
<1> QED
  BY <1>1, <1>2, <1>3, SameEndpoint

\* A result of a suite writes to the endpoints of the suite only.
LEMMA InsertSuiteResultKeeps ==
    ASSUME NoneIsNoRow, StoreInv, NEW executed \in SUBSET SuiteKeys, InsertSuiteResult(executed)
    PROVE  StoreInv'
<1> USE DEF StoreInv, Typed
<1>1. /\ inserts < workload.inserts /\ inserts' = inserts + 1
      /\ suite' = Trimmed(Append(suite, inserts + 1))
      /\ memory' = memory /\ cache' = cache /\ open' = open /\ pc' = pc /\ wanted' = wanted /\ shown' = shown
      /\ now' = now /\ workload' = workload /\ failures' = failures /\ lastHealth' = lastHealth /\ lost' = lost
  BY DEF InsertSuiteResult, clients, observed
<1>2. inserts' \in 0..workload.inserts /\ inserts + 1 \in Nat
  BY <1>1 DEF Counted, Workload
<1>3. suite' \in Seq(Nat) /\ Len(suite') <= MaxResults + Slack
  <2>1. suite \in Seq(Nat) /\ Len(suite) <= MaxResults + Slack
    BY DEF Counted
  <2> QED
    BY <1>1, <1>2, <2>1, ResultsAfterInsertion
<1>4. Counted' /\ ClientsTyped' /\ Connected' /\ CachesTyped'
  BY <1>1, <1>2, <1>3 DEF Counted, ClientsTyped, Connected, CachesTyped
<1>5. DOMAIN data' = Keys
  BY DEF InsertSuiteResult
<1>6. \A l \in EndpointKeys : data'[l] = data[l]
  BY ClientsAre DEF InsertSuiteResult, EndpointKeys
<1>7. ASSUME NEW l \in SuiteKeys, data'[l] # None PROVE SuiteRow(data'[l])
  <2> DEFINE old == IF data[l] = None THEN NewRow ELSE data[l]
             added == IF l \in executed
                        THEN [old EXCEPT !.results = Append(@, [id |-> inserts + 1, kind |-> "up"])] ELSE old
             linked == [added EXCEPT !.results = LinkedTo(added, Trimmed(Append(suite, inserts + 1)))]
  <2>1. data'[l] = data[l] \/ data'[l] = linked
    BY ClientsAre DEF InsertSuiteResult
  <2>2. data[l] # None => SuiteRow(data[l])
    OBVIOUS
  <2>3. SuiteRow(old)
    <3>1. SuiteRow(NewRow)
      BY DEF SuiteRow, IsRow, NewRow
    <3> QED
      BY <2>2, <3>1
  <2>4. ASSUME NEW row, SuiteRow(row), NEW results PROVE SuiteRow([row EXCEPT !.results = results])
    <3>1. row = [results |-> row.results, events |-> <<>>, uptime |-> row.uptime, buckets |-> row.buckets]
      BY <2>4 DEF SuiteRow, IsRow
    <3>2. PICK r : r = [results |-> results, events |-> <<>>, uptime |-> row.uptime, buckets |-> row.buckets]
      OBVIOUS
    <3>3. [row EXCEPT !.results = results] = r
      BY <3>1, <3>2
    <3>4. SuiteRow(r)
      BY <3>2 DEF SuiteRow, IsRow
    <3> QED
      BY <3>3, <3>4
  <2> HIDE DEF old
  <2>5. SuiteRow(added)
    BY <2>3, <2>4
  <2> HIDE DEF added
  <2>6. SuiteRow(linked)
    BY <2>4, <2>5
  <2> HIDE DEF linked
  <2> QED
    BY <1>7, <2>1, <2>2, <2>6
<1>8. \A l \in EndpointKeys : EndpointInv(l)'
  BY <1>1, <1>6, EndpointsAlone
<1> QED
  BY <1>1, <1>4, <1>5, <1>7, <1>8

\* A step of a reader or of a remover, which leaves the rows, the observations and the counters alone
LEMMA OtherClient ==
    ASSUME StoreInv, NEW c \in {"reader", "remover"}, NEW label \in Labels, pc' = [pc EXCEPT ![c] = label],
           DOMAIN wanted' = Clients, \A d \in Clients \ {c} : wanted'[d] = wanted[d], MayBe(c, label, wanted'[c]),
           Connected', \A d \in DOMAIN open \ {c} : open'[d] = open[d],
           DOMAIN cache' = Keys, \A k \in Keys : cache'[k] # None => IsStatus(cache'[k]),
           pc'["reader"] = "fill" => IsStatus(shown'),
           data' = data, memory' = memory, suite' = suite, lastHealth' = lastHealth, lost' = lost,
           now' = now, workload' = workload, inserts' = inserts, failures' = failures
    PROVE  StoreInv'
<1> USE DEF StoreInv, Typed
<1>1. c \in Clients /\ c \notin EndpointKeys
  BY ClientsAre
<1>2. ClientsTyped'
  BY <1>1, ClientMoves
<1>3. CachesTyped' /\ Counted'
  BY DEF CachesTyped, Counted
<1>4. \A l \in EndpointKeys : pc'[l] = pc[l] /\ wanted'[l] = wanted[l] /\ (l \in DOMAIN open => open'[l] = open[l])
  BY <1>1, ClientsAre DEF ClientsTyped
<1>5. \A l \in EndpointKeys : EndpointInv(l)'
  BY <1>4, EndpointsAlone
<1> QED
  BY <1>2, <1>3, <1>5

\* The steps of a reader change no rows.
LEMMA BeginReadKeeps ==
    ASSUME StoreInv, NEW k \in Keys, BeginRead(k)
    PROVE  StoreInv'
<1> USE DEF StoreInv, Typed
<1>1. /\ pc["reader"] = "idle" /\ Begin("reader", None) /\ wanted' = [wanted EXCEPT !["reader"] = k]
      /\ data' = data /\ memory' = memory /\ suite' = suite /\ lastHealth' = lastHealth /\ lost' = lost
      /\ cache' = cache /\ now' = now /\ workload' = workload /\ inserts' = inserts /\ failures' = failures
  BY DEF BeginRead, Idle, rows, bounds, observed
<1>2. PICK label \in {"lookup", "end"} : pc' = [pc EXCEPT !["reader"] = label]
  BY DEF BeginRead, Goto
<1>3. "reader" \in Clients /\ label \in Labels /\ label \in InTransaction /\ pc["reader"] \notin InTransaction
  BY <1>1, ClientsAre DEF Labels, InTransaction
<1>4. Connected' /\ \A d \in DOMAIN open \ {"reader"} : open'[d] = open[d]
  BY <1>1, <1>2, <1>3, Begun
<1>5. /\ DOMAIN wanted' = Clients /\ wanted'["reader"] = k
      /\ \A d \in Clients \ {"reader"} : wanted'[d] = wanted[d]
  BY <1>1, <1>3 DEF ClientsTyped
<1>6. MayBe("reader", label, wanted'["reader"])
  BY <1>5 DEF MayBe
<1>7. pc'["reader"] # "fill"
  BY <1>2, <1>3 DEF ClientsTyped
<1>8. DOMAIN cache' = Keys /\ \A l \in Keys : cache'[l] # None => IsStatus(cache'[l])
  BY <1>1 DEF CachesTyped
<1> QED
  BY <1>1, <1>2, <1>3, <1>4, <1>5, <1>6, <1>7, <1>8, OtherClient

\* A reader holds a connection from here on.
LEMMA ReadRowsKeeps ==
    ASSUME StoreInv, ReadRows
    PROVE  StoreInv'
<1> USE DEF StoreInv, Typed
<1>1. /\ pc["reader"] = "lookup" /\ wanted' = wanted /\ open' = open
      /\ data' = data /\ memory' = memory /\ suite' = suite /\ lastHealth' = lastHealth /\ lost' = lost
      /\ cache' = cache /\ now' = now /\ workload' = workload /\ inserts' = inserts /\ failures' = failures
  BY DEF ReadRows, rows, bounds, observed
<1>2. PICK label \in {"fill", "end"} :
        /\ pc' = [pc EXCEPT !["reader"] = label]
        /\ label = "fill" => shown' = StatusOf(data[wanted["reader"]])
  BY DEF ReadRows, Goto
<1>3. "reader" \in Clients /\ label \in Labels /\ (label \in InTransaction <=> pc["reader"] \in InTransaction)
  BY <1>1, ClientsAre DEF Labels, InTransaction
<1>4. Connected'
  BY <1>1, <1>2, <1>3, GoesOn
<1>5. MayBe("reader", label, wanted'["reader"]) /\ DOMAIN wanted' = Clients
  BY <1>1 DEF MayBe, ClientsTyped
<1>6. pc'["reader"] = "fill" => IsStatus(shown')
  <2>1. pc'["reader"] = label
    BY <1>2, <1>3 DEF ClientsTyped
  <2>2. IsStatus(StatusOf(data[wanted["reader"]]))
    BY DEF IsStatus, StatusOf
  <2> QED
    BY <1>2, <2>1, <2>2
<1>7. DOMAIN cache' = Keys /\ \A l \in Keys : cache'[l] # None => IsStatus(cache'[l])
  BY <1>1 DEF CachesTyped
<1> QED
  BY <1>1, <1>2, <1>3, <1>4, <1>5, <1>6, <1>7, OtherClient

\* A page is cached while its reader still holds the connection.
LEMMA FillCacheKeeps ==
    ASSUME StoreInv, FillCache
    PROVE  StoreInv'
<1> USE DEF StoreInv, Typed
<1>1. /\ pc["reader"] = "fill" /\ pc' = [pc EXCEPT !["reader"] = "end"] /\ wanted' = wanted /\ open' = open
      /\ cache' = [cache EXCEPT ![wanted["reader"]] = shown] /\ shown' = shown
      /\ data' = data /\ memory' = memory /\ suite' = suite /\ lastHealth' = lastHealth /\ lost' = lost
      /\ now' = now /\ workload' = workload /\ inserts' = inserts /\ failures' = failures
  BY DEF FillCache, Goto, rows, bounds, observed
<1>2. "reader" \in Clients /\ "end" \in Labels /\ ("end" \in InTransaction <=> pc["reader"] \in InTransaction)
  BY <1>1, ClientsAre DEF Labels, InTransaction
<1>3. Connected'
  BY <1>1, <1>2, GoesOn
<1>4. MayBe("reader", "end", wanted'["reader"]) /\ DOMAIN wanted' = Clients
  BY <1>1 DEF MayBe, ClientsTyped
<1>5. DOMAIN cache' = Keys /\ \A l \in Keys : cache'[l] # None => IsStatus(cache'[l])
  BY <1>1 DEF CachesTyped
<1>6. pc'["reader"] # "fill"
  BY <1>1, <1>2 DEF ClientsTyped
<1> QED
  BY <1>1, <1>2, <1>3, <1>4, <1>5, <1>6, OtherClient

\* The reader gives its connection back.
LEMMA EndReadKeeps ==
    ASSUME StoreInv, EndRead
    PROVE  StoreInv'
<1> USE DEF StoreInv, Typed
<1>1. /\ pc["reader"] = "end" /\ pc' = [pc EXCEPT !["reader"] = "idle"] /\ wanted' = [wanted EXCEPT !["reader"] = None]
      /\ open' = Ended("reader") /\ cache' = cache
      /\ data' = data /\ memory' = memory /\ suite' = suite /\ lastHealth' = lastHealth /\ lost' = lost
      /\ now' = now /\ workload' = workload /\ inserts' = inserts /\ failures' = failures
  BY DEF EndRead, Done, Goto, rows, bounds, observed
<1>2. "reader" \in Clients /\ "idle" \in Labels /\ "idle" \notin InTransaction /\ pc["reader"] \in InTransaction
  BY <1>1, ClientsAre DEF Labels, InTransaction
<1>3. Connected' /\ \A d \in DOMAIN open \ {"reader"} : open'[d] = open[d]
  BY <1>1, <1>2, HasEnded
<1>4. DOMAIN wanted' = Clients /\ \A d \in Clients \ {"reader"} : wanted'[d] = wanted[d]
  BY <1>1 DEF ClientsTyped
<1>5. MayBe("reader", "idle", wanted'["reader"])
  BY DEF MayBe
<1>6. DOMAIN cache' = Keys /\ \A l \in Keys : cache'[l] # None => IsStatus(cache'[l])
  BY <1>1 DEF CachesTyped
<1>7. pc'["reader"] # "fill"
  BY <1>1, <1>2 DEF ClientsTyped
<1> QED
  BY <1>1, <1>2, <1>3, <1>4, <1>5, <1>6, <1>7, OtherClient

\* The remover drops pages, no rows.
LEMMA WipeCacheKeeps ==
    ASSUME StoreInv, WipeCache
    PROVE  StoreInv'
<1> USE DEF StoreInv, Typed
<1>1. /\ pc["remover"] = "wipe" /\ pc' = [pc EXCEPT !["remover"] = "idle"]
      /\ wanted' = [wanted EXCEPT !["remover"] = None]
      /\ open' = open /\ cache' = Wiped(wanted["remover"]) /\ shown' = shown
      /\ data' = data /\ memory' = memory /\ suite' = suite /\ lastHealth' = lastHealth /\ lost' = lost
      /\ now' = now /\ workload' = workload /\ inserts' = inserts /\ failures' = failures
  BY DEF WipeCache, Done, Goto, rows, bounds, observed
<1>2. "remover" \in Clients /\ "idle" \in Labels /\ ("idle" \in InTransaction <=> pc["remover"] \in InTransaction)
  BY <1>1, ClientsAre DEF Labels, InTransaction
<1>3. Connected'
  BY <1>1, <1>2, GoesOn
<1>4. DOMAIN wanted' = Clients /\ \A d \in Clients \ {"remover"} : wanted'[d] = wanted[d]
  BY <1>1 DEF ClientsTyped
<1>5. MayBe("remover", "idle", wanted'["remover"])
  BY DEF MayBe
<1>6. DOMAIN cache' = Keys /\ \A l \in Keys : cache'[l] # None => IsStatus(cache'[l])
  BY <1>1 DEF CachesTyped, Wiped
<1>7. pc'["reader"] = "fill" => IsStatus(shown')
  BY <1>1, ClientsAre DEF ClientsTyped, CachesTyped
<1> QED
  BY <1>1, <1>2, <1>3, <1>4, <1>5, <1>6, <1>7, OtherClient

\* A page that expires takes no rows with it.
LEMMA ExpireKeeps ==
    ASSUME StoreInv, NEW k \in Keys, Expire(k)
    PROVE  StoreInv'
<1> USE DEF StoreInv, Typed
<1>1. /\ cache' = [cache EXCEPT ![k] = None] /\ lost' = [lost EXCEPT ![k] = @ \ {"commit"}]
      /\ open' = open /\ pc' = pc /\ wanted' = wanted /\ shown' = shown
      /\ data' = data /\ memory' = memory /\ suite' = suite /\ lastHealth' = lastHealth
      /\ now' = now /\ workload' = workload /\ inserts' = inserts /\ failures' = failures
  BY DEF Expire, rows, clients, bounds
<1>2. ClientsTyped' /\ Connected'
  BY <1>1 DEF ClientsTyped, Connected
<1>3. CachesTyped'
  BY <1>1 DEF CachesTyped
<1>4. /\ lost' \in [Keys -> SUBSET Losses]
      /\ \A l \in Keys : \A x \in Losses \ {"commit"} : x \in lost'[l] <=> x \in lost[l]
  BY <1>1 DEF Counted
<1>5. Counted'
  BY <1>1, <1>4 DEF Counted
<1>6. \A l \in EndpointKeys : EndpointInv(l)'
  BY <1>1, <1>4, EndpointsAlone, ClientsAre
<1> QED
  BY <1>1, <1>2, <1>3, <1>5, <1>6

\* A remover is about to wipe the pages of the keys.
LEMMA AboutToWipe ==
    ASSUME ClientsTyped, Connected, pc["remover"] = "idle", pc' = [pc EXCEPT !["remover"] = "wipe"], open' = open,
           NEW keys \in SUBSET Keys, wanted' = [wanted EXCEPT !["remover"] = keys]
    PROVE  /\ ClientsTyped' /\ Connected' /\ pc'["reader"] = pc["reader"]
           /\ \A k \in EndpointKeys : pc'[k] = pc[k] /\ wanted'[k] = wanted[k]
<1>1. "remover" \in Clients /\ "wipe" \in Labels /\ ("wipe" \in InTransaction <=> pc["remover"] \in InTransaction)
  BY ClientsAre DEF Labels, InTransaction
<1>2. /\ DOMAIN wanted' = Clients /\ wanted'["remover"] = keys
      /\ \A d \in Clients \ {"remover"} : wanted'[d] = wanted[d] /\ pc'[d] = pc[d]
  BY <1>1 DEF ClientsTyped
<1>3. MayBe("remover", "wipe", wanted'["remover"])
  BY <1>2 DEF MayBe
<1>4. ClientsTyped' /\ Connected'
  BY <1>1, <1>2, <1>3, ClientMoves, GoesOn
<1> QED
  BY <1>2, <1>4, ClientsAre

\* The invariant of an endpoint that was removed
LEMMA Removed ==
    ASSUME NEW k \in EndpointKeys, data'[k] = None, lastHealth'[k] = None, lost'[k] = {"memory"}, pc'[k] = "idle"
    PROVE  EndpointInv(k)'
  BY DEF EndpointInv, Inserting, HealthKnown, MemoryFollows, Comparable

\* Removed endpoints have neither rows nor a health, in both stores.
LEMMA DeleteKeeps ==
    ASSUME StoreInv, NEW k \in Keys, Delete(k)
    PROVE  StoreInv'
<1> USE DEF StoreInv, Typed
<1>1. /\ pc["remover"] = "idle" /\ pc' = [pc EXCEPT !["remover"] = "wipe"]
      /\ wanted' = [wanted EXCEPT !["remover"] = {k}] /\ open' = open /\ Stopped(k)
      /\ data' = [data EXCEPT ![k] = None] /\ lastHealth' = [lastHealth EXCEPT ![k] = None]
      /\ lost' = [lost EXCEPT ![k] = {"memory"}]
      /\ suite' = suite /\ memory' = memory /\ cache' = cache /\ shown' = shown
      /\ now' = now /\ workload' = workload /\ inserts' = inserts /\ failures' = failures
  BY DEF Delete, Idle, Goto, bounds
<1>2. /\ ClientsTyped' /\ Connected' /\ pc'["reader"] = pc["reader"]
      /\ \A l \in EndpointKeys : pc'[l] = pc[l] /\ wanted'[l] = wanted[l]
  <2>1. {k} \in SUBSET Keys
    OBVIOUS
  <2> QED
    BY <1>1, <2>1, AboutToWipe
<1>3. CachesTyped'
  BY <1>1, <1>2 DEF CachesTyped
<1>4. /\ lost' \in [Keys -> SUBSET Losses] /\ DOMAIN data' = Keys /\ DOMAIN lastHealth' = Keys
      /\ data'[k] = None /\ lastHealth'[k] = None /\ lost'[k] = {"memory"}
      /\ \A l \in Keys \ {k} : data'[l] = data[l] /\ lastHealth'[l] = lastHealth[l] /\ lost'[l] = lost[l]
  BY <1>1 DEF Counted, Losses, Unchecked
<1>5. Counted'
  BY <1>1, <1>4 DEF Counted
<1>6. ASSUME NEW l \in EndpointKeys PROVE EndpointInv(l)'
  <2>1. CASE l = k
    <3>1. pc'[l] = "idle"
      BY <1>1, <1>2, <2>1 DEF Stopped
    <3> QED
      BY <1>4, <2>1, <3>1, Removed
  <2>2. CASE l # k
    <3>1. l \in Keys \ {k} /\ EndpointInv(l)
      BY <2>2, ClientsAre
    <3>2. failures \in Nat
      BY DEF Counted, Workload
    <3> QED
      BY <1>1, <1>2, <1>4, <3>1, <3>2, SameEndpoint
  <2> QED
    BY <2>1, <2>2
<1>7. \A l \in SuiteKeys : (data[l] # None => SuiteRow(data[l]))'
  BY <1>4, ClientsAre
<1> QED
  BY <1>1, <1>2, <1>3, <1>4, <1>5, <1>6, <1>7

\* A new key takes over the rows, the health and what is known of them from the old one, which nobody is inserting for.
LEMMA RenameKeeps ==
    ASSUME StoreInv, NEW k \in EndpointKeys, NEW l \in EndpointKeys, k # l, Rename(k, l)
    PROVE  StoreInv'
<1> USE DEF StoreInv, Typed
<1>1. /\ pc["remover"] = "idle" /\ pc' = [pc EXCEPT !["remover"] = "wipe"]
      /\ wanted' = [wanted EXCEPT !["remover"] = {k, l}] /\ open' = open /\ Stopped(k) /\ Stopped(l)
      /\ data' = [data EXCEPT ![l] = data[k], ![k] = None]
      /\ lastHealth' = [lastHealth EXCEPT ![l] = lastHealth[k], ![k] = None]
      /\ lost' = [lost EXCEPT ![l] = (lost[k] \ {"commit"}) \cup {"memory"}, ![k] = {"memory"}]
      /\ data[k] # None
      /\ suite' = suite /\ memory' = memory /\ cache' = cache /\ shown' = shown
      /\ now' = now /\ workload' = workload /\ inserts' = inserts /\ failures' = failures
  BY DEF Rename, Idle, Goto, bounds
<1>2. k \in Keys /\ l \in Keys
  BY ClientsAre
<1>3. /\ ClientsTyped' /\ Connected' /\ pc'["reader"] = pc["reader"]
      /\ \A e \in EndpointKeys : pc'[e] = pc[e] /\ wanted'[e] = wanted[e]
  <2>1. PICK keys \in SUBSET Keys : keys = {k, l}
    <3>1. {k, l} \in SUBSET Keys
      BY <1>2
    <3> QED
      BY <3>1
  <2>2. /\ ClientsTyped /\ Connected /\ pc["remover"] = "idle" /\ open' = open
        /\ pc' = [pc EXCEPT !["remover"] = "wipe"] /\ wanted' = [wanted EXCEPT !["remover"] = keys]
    BY <1>1, <2>1
  <2> HIDE DEF StoreInv, Typed
  <2> QED
    BY <2>2, AboutToWipe
<1>4. CachesTyped'
  BY <1>1, <1>3 DEF CachesTyped
<1>5. /\ DOMAIN data' = Keys /\ DOMAIN lastHealth' = Keys
      /\ data'[k] = None /\ lastHealth'[k] = None
      /\ data'[l] = data[k] /\ lastHealth'[l] = lastHealth[k]
      /\ \A e \in Keys \ {k, l} : data'[e] = data[e] /\ lastHealth'[e] = lastHealth[e]
  BY <1>1, <1>2
<1>6. /\ lost' \in [Keys -> SUBSET Losses]
      /\ lost'[k] = {"memory"} /\ lost'[l] = (lost[k] \ {"commit"}) \cup {"memory"}
      /\ \A e \in Keys \ {k, l} : lost'[e] = lost[e]
  BY <1>1, <1>2 DEF Counted, Losses, Unchecked
<1>7. Counted'
  BY <1>1, <1>6 DEF Counted
<1>8. pc'[k] = "idle" /\ pc'[l] = "idle"
  BY <1>1, <1>3 DEF Stopped
<1>9. EndpointInv(k)'
  BY <1>5, <1>6, <1>8, Removed
<1>10. EndpointInv(l)'
  <2>1. EndpointInv(k)
    OBVIOUS
  <2>2. /\ ("event" \in lost'[l] <=> "event" \in lost[k]) /\ ~Comparable(l)'
        /\ "count" \in lost'[l] <=> "count" \in lost[k]
    BY <1>6 DEF Comparable
  <2>3. Inserting(l)' /\ MemoryFollows(l)'
    BY <1>8, <2>2 DEF Inserting, MemoryFollows
  <2>4. HealthKnown(l)'
    BY <1>5, <2>1, <2>2 DEF EndpointInv, HealthKnown, Miscounted
  <2>5. EndpointRow(data[l], failures, Miscounted(l))'
    <3>1. EndpointRow(data[k], failures, Miscounted(k)) /\ (Miscounted(l)' <=> Miscounted(k))
      BY <1>1, <2>1, <2>2 DEF EndpointInv, Miscounted
    <3>2. PICK miscounted \in BOOLEAN : miscounted = Miscounted(k)
      <4>1. Miscounted(k) \in BOOLEAN
        BY DEF Miscounted
      <4> QED
        BY <4>1
    <3>3. PICK before : before = data[k]
      OBVIOUS
    <3>4. data'[l] = before /\ Miscounted(l)' = miscounted /\ EndpointRow(before, failures, miscounted)
      BY <1>5, <3>1, <3>2, <3>3 DEF Miscounted
    <3> QED
      BY <1>1, <3>4
  <2> QED
    BY <2>3, <2>4, <2>5 DEF EndpointInv
<1>11. ASSUME NEW e \in EndpointKeys PROVE EndpointInv(e)'
  <2>1. CASE e \in {k, l}
    BY <1>9, <1>10, <2>1
  <2>2. CASE e \notin {k, l}
    <3>1. e \in Keys \ {k, l} /\ EndpointInv(e)
      BY <2>2, ClientsAre
    <3>2. failures \in Nat
      BY DEF Counted, Workload
    <3> QED
      BY <1>1, <1>3, <1>5, <1>6, <3>1, <3>2, SameEndpoint
  <2> QED
    BY <2>1, <2>2
<1>12. \A e \in SuiteKeys : (data[e] # None => SuiteRow(data[e]))'
  <2>1. \A e \in SuiteKeys : e \in Keys \ {k, l}
    BY ClientsAre DEF EndpointKeys
  <2> QED
    BY <1>5, <2>1
<1> QED
  BY <1>1, <1>3, <1>4, <1>5, <1>7, <1>11, <1>12

\* A start keeps the rows of the configured endpoints and empties the cache and the memory: for rows it kept, the stores
\* are no longer compared.
LEMMA LoadKeeps ==
    ASSUME NoneIsNoRow, StoreInv, NEW keys \in SUBSET Keys, Load(keys)
    PROVE  StoreInv'
<1> USE DEF StoreInv, Typed
<1>1. /\ \A c \in Clients : pc[c] = "idle"
      /\ suite' = IF SuiteKeys \subseteq keys THEN suite ELSE <<>>
      /\ memory' = [k \in Keys |-> None] /\ cache' = [k \in Keys |-> None]
      /\ lastHealth' = [k \in Keys |-> IF k \in keys THEN lastHealth[k] ELSE None]
      /\ lost' = [k \in Keys |-> IF data'[k] = None THEN {} ELSE (lost[k] \ {"commit"}) \cup {"memory"}]
      /\ open' = open /\ pc' = pc /\ wanted' = wanted /\ shown' = shown
      /\ now' = now /\ workload' = workload /\ inserts' = inserts /\ failures' = failures
  BY DEF Load, bounds
<1>2. ClientsTyped' /\ Connected'
  BY <1>1 DEF ClientsTyped, Connected
<1>3. CachesTyped'
  BY <1>1 DEF CachesTyped
<1>4. lost' \in [Keys -> SUBSET Losses]
  BY <1>1 DEF Counted, Losses, Unchecked
<1>5. suite' \in Seq(Nat) /\ Len(suite') <= MaxResults + Slack
  <2>1. <<>> \in Seq(Nat) /\ Len(<<>>) <= MaxResults + Slack
    BY StoreAssumption
  <2> QED
    BY <1>1, <2>1 DEF Counted
<1>6. Counted'
  BY <1>1, <1>4, <1>5 DEF Counted
<1>7. /\ DOMAIN data' = Keys
      /\ \A k \in Keys : k \notin keys => data'[k] = None
      /\ \A k \in EndpointKeys : data'[k] = data[k] \/ data'[k] = None
      /\ \A k \in EndpointKeys : k \in keys => data'[k] = data[k]
  <2>1. data' = [k \in Keys |->
                    IF k \notin keys \/ data[k] = None THEN None
                    ELSE IF k \in SuiteKeys /\ ~SuiteKeys \subseteq keys THEN [data[k] EXCEPT !.results = <<>>]
                    ELSE data[k]]
    BY DEF Load
  <2> QED
    BY <2>1, ClientsAre DEF EndpointKeys
<1>8. ASSUME NEW k \in SuiteKeys, data'[k] # None PROVE SuiteRow(data'[k])
  <2>1. data[k] # None /\ (data'[k] = data[k] \/ data'[k] = [data[k] EXCEPT !.results = <<>>])
    BY <1>8, ClientsAre DEF Load
  <2>2. data[k] = [results |-> data[k].results, events |-> <<>>, uptime |-> data[k].uptime, buckets |-> data[k].buckets]
    BY <2>1 DEF SuiteRow, IsRow
  <2>3. PICK r : r = [results |-> <<>>, events |-> <<>>, uptime |-> data[k].uptime, buckets |-> data[k].buckets]
    OBVIOUS
  <2>4. [data[k] EXCEPT !.results = <<>>] = r
    BY <2>2, <2>3
  <2>5. SuiteRow(r) /\ SuiteRow(data[k])
    BY <2>1, <2>3 DEF SuiteRow, IsRow
  <2> QED
    BY <2>1, <2>4, <2>5
<1>9. ASSUME NEW k \in EndpointKeys PROVE EndpointInv(k)'
  <2>1. k \in Keys /\ k \in Clients /\ EndpointInv(k) /\ pc'[k] = "idle"
    BY <1>1, ClientsAre
  <2>2. Inserting(k)'
    BY <2>1 DEF Inserting
  <2>3. memory'[k] = None /\ lastHealth'[k] = IF k \in keys THEN lastHealth[k] ELSE None
    BY <1>1, <2>1
  <2>4. /\ data'[k] = None => lost'[k] = {}
        /\ data'[k] # None => lost'[k] = (lost[k] \ {"commit"}) \cup {"memory"}
    BY <1>1, <2>1
  <2>5. HealthKnown(k)'
    <3>1. CASE k \in keys
      <4>1. data'[k] = data[k] /\ lastHealth'[k] = lastHealth[k]
        BY <1>7, <2>3, <3>1
      <4>2. data'[k] # None =>
                ("event" \in lost'[k] <=> "event" \in lost[k]) /\ ("count" \in lost'[k] <=> "count" \in lost[k])
        BY <2>4
      <4> QED
        BY <2>1, <4>1, <4>2 DEF EndpointInv, HealthKnown, Miscounted
    <3>2. CASE k \notin keys
      BY <1>7, <2>1, <2>3, <3>2 DEF HealthKnown
    <3> QED
      BY <3>1, <3>2
  <2>6. MemoryFollows(k)'
    <3>1. data'[k] # None => ~Comparable(k)'
      BY <2>4 DEF Comparable
    <3> QED
      BY <2>3, <3>1 DEF MemoryFollows
  <2>7. (data[k] # None => EndpointRow(data[k], failures, Miscounted(k)))'
    <3> SUFFICES ASSUME data'[k] # None PROVE EndpointRow(data[k], failures, Miscounted(k))'
      OBVIOUS
    <3>1. data'[k] = data[k] /\ ("count" \in lost'[k] <=> "count" \in lost[k])
      BY <1>7, <2>4
    <3>2. data[k] # None => EndpointRow(data[k], failures, Miscounted(k))
      BY <2>1 DEF EndpointInv
    <3>3. failures \in Nat
      BY DEF Counted, Workload
    <3> QED
      BY <1>1, <3>1, <3>2, <3>3, RowStays
  <2> QED
    BY <2>2, <2>5, <2>6, <2>7 DEF EndpointInv
<1>10. DOMAIN memory' = Keys /\ DOMAIN lastHealth' = Keys
  BY <1>1
<1> QED
  BY <1>2, <1>3, <1>6, <1>7, <1>8, <1>9, <1>10

\* Time moves no rows.
LEMMA TickKeeps ==
    ASSUME StoreInv, Tick
    PROVE  StoreInv'
<1> USE DEF StoreInv, Typed
<1>1. /\ now < workload.hours /\ now' = now + 1
      /\ open' = open /\ pc' = pc /\ wanted' = wanted /\ shown' = shown /\ cache' = cache
      /\ data' = data /\ memory' = memory /\ suite' = suite /\ lastHealth' = lastHealth /\ lost' = lost
      /\ workload' = workload /\ inserts' = inserts /\ failures' = failures
  BY DEF Tick, rows, clients, bounds, observed
<1>2. ClientsTyped' /\ Connected' /\ CachesTyped'
  BY <1>1 DEF ClientsTyped, Connected, CachesTyped
<1>3. now' \in 0..workload.hours
  BY <1>1 DEF Counted, Workload
<1>4. Counted'
  BY <1>1, <1>3 DEF Counted
<1>5. \A l \in EndpointKeys : EndpointInv(l)'
  BY <1>1, EndpointsAlone
<1> QED
  BY <1>1, <1>2, <1>4, <1>5

\* A step that changes nothing keeps everything.
LEMMA StutterKeeps ==
    ASSUME StoreInv, UNCHANGED vars
    PROVE  StoreInv'
<1> USE DEF StoreInv, Typed
<1>1. /\ open' = open /\ pc' = pc /\ wanted' = wanted /\ shown' = shown /\ cache' = cache
      /\ data' = data /\ memory' = memory /\ suite' = suite /\ lastHealth' = lastHealth /\ lost' = lost
      /\ now' = now /\ workload' = workload /\ inserts' = inserts /\ failures' = failures
  BY DEF vars, rows, clients, bounds, observed
<1>2. ClientsTyped' /\ Connected' /\ CachesTyped' /\ Counted'
  BY <1>1 DEF ClientsTyped, Connected, CachesTyped, Counted
<1>3. \A l \in EndpointKeys : EndpointInv(l)'
  BY <1>1, EndpointsAlone
<1> QED
  BY <1>1, <1>2, <1>3

\* There are no rows, no health and no transactions at first.
LEMMA StoreInitially == Init => StoreInv
<1> SUFFICES ASSUME Init PROVE StoreInv
  OBVIOUS
<1>1. /\ data = [k \in Keys |-> None] /\ suite = <<>> /\ memory = [k \in Keys |-> None]
      /\ cache = [k \in Keys |-> None] /\ open = [c \in {} |-> None]
      /\ pc = [c \in Clients |-> "idle"] /\ wanted = [c \in Clients |-> None]
      /\ now = 0 /\ workload \in Workloads /\ inserts = 0 /\ failures = 0
      /\ lastHealth = [k \in Keys |-> None] /\ lost = [k \in Keys |-> {}]
  BY DEF Init
<1>2. ClientsTyped
  BY <1>1, ClientsAre DEF ClientsTyped, Labels
<1>3. Connected
  <2>1. DOMAIN open = {} /\ IsFiniteSet({}) /\ Cardinality({}) = 0 /\ 0 <= Connections
    BY <1>1, FS_EmptySet, StoreAssumption
  <2>2. {c \in Clients : pc[c] \in InTransaction} = {}
    BY <1>1 DEF InTransaction
  <2> QED
    BY <2>1, <2>2 DEF Connected
<1>4. CachesTyped
  BY <1>1, ClientsAre DEF CachesTyped
<1>5. Counted
  <2>1. workload \in Workload
    BY <1>1, StoreAssumption
  <2>2. 0 \in 0..workload.hours /\ 0 \in 0..workload.inserts /\ 0 \in 0..workload.failures
    BY <2>1 DEF Workload
  <2>3. <<>> \in Seq(Nat) /\ Len(<<>>) <= MaxResults + Slack
    BY StoreAssumption
  <2> QED
    BY <1>1, <2>1, <2>2, <2>3 DEF Counted
<1>6. ASSUME NEW k \in EndpointKeys PROVE EndpointInv(k)
  <2>1. k \in Keys /\ k \in Clients
    BY ClientsAre
  <2> QED
    BY <1>1, <2>1 DEF EndpointInv, Inserting, HealthKnown, MemoryFollows
<1> QED
  BY <1>1, <1>2, <1>3, <1>4, <1>5, <1>6, ClientsAre DEF StoreInv, Typed

\* StoreInv is an invariant: every call, and every step of a call that is made in several, keeps it.
THEOREM StoreInvariance == ASSUME NoneIsNoRow PROVE Spec => []StoreInv
<1>1. ASSUME StoreInv, [Next]_vars PROVE StoreInv'
  <2>1. ASSUME NEW k \in EndpointKeys, BeginInsert(k) PROVE StoreInv'
    BY <1>1, <2>1, BeginInsertKeeps
  <2>2. ASSUME NEW k \in EndpointKeys, RefreshCache(k) PROVE StoreInv'
    BY <1>1, <2>2, RefreshCacheKeeps
  <2>3. ASSUME NEW k \in EndpointKeys, CommitInsert(k) PROVE StoreInv'
    BY <1>1, <2>3, CommitInsertKeeps
  <2>4. ASSUME NEW k \in EndpointKeys, CommitInsertFails(k) PROVE StoreInv'
    BY <1>1, <2>4, CommitInsertFailsKeeps
  <2>5. ASSUME NEW k \in EndpointKeys, InsertBuckets(k) PROVE StoreInv'
    BY <1>1, <2>5, InsertBucketsKeeps
  <2>6. ASSUME NEW k \in EndpointKeys, InsertBucketsFails(k) PROVE StoreInv'
    BY <1>1, <2>6, InsertBucketsFailsKeeps
  <2>7. ASSUME NEW executed \in SUBSET SuiteKeys, InsertSuiteResult(executed) PROVE StoreInv'
    BY <1>1, <2>7, InsertSuiteResultKeeps
  <2>8. ASSUME NEW k \in Keys, BeginRead(k) PROVE StoreInv'
    BY <1>1, <2>8, BeginReadKeeps
  <2>9. ASSUME NEW k \in Keys, Expire(k) PROVE StoreInv'
    BY <1>1, <2>9, ExpireKeeps
  <2>10. ASSUME NEW k \in Keys, Delete(k) PROVE StoreInv'
    BY <1>1, <2>10, DeleteKeeps
  <2>11. ASSUME NEW k \in EndpointKeys, NEW l \in EndpointKeys, k # l, Rename(k, l) PROVE StoreInv'
    BY <1>1, <2>11, RenameKeeps
  <2>12. CASE ReadRows
    BY <1>1, <2>12, ReadRowsKeeps
  <2>13. CASE FillCache
    BY <1>1, <2>13, FillCacheKeeps
  <2>14. CASE EndRead
    BY <1>1, <2>14, EndReadKeeps
  <2>15. ASSUME NEW keys \in SUBSET Keys, Load(keys) PROVE StoreInv'
    BY <1>1, <2>15, LoadKeeps
  <2>16. CASE WipeCache
    BY <1>1, <2>16, WipeCacheKeeps
  <2>17. CASE Tick
    BY <1>1, <2>17, TickKeeps
  <2>18. CASE UNCHANGED vars
    BY <1>1, <2>18, StutterKeeps
  <2> QED
    BY <1>1, <2>1, <2>2, <2>3, <2>4, <2>5, <2>6, <2>7, <2>8, <2>9, <2>10, <2>11, <2>12, <2>13, <2>14, <2>15,
       <2>16, <2>17, <2>18 DEF Next
<1> QED
  BY <1>1, StoreInitially, PTL DEF Spec

-----------------------------------------------------------------------------
(* The cache, while there is a single connection *)

\* With one connection there is one transaction, and none while a connection is free.
LEMMA OneTransaction ==
    ASSUME Connections = 1, Typed
    PROVE  /\ \A c, d \in DOMAIN open : c = d
           /\ Free => DOMAIN open = {}
           /\ \A c \in Clients : c \in DOMAIN open <=> pc[c] \in InTransaction
<1>1. PICK S : S = DOMAIN open /\ IsFiniteSet(S) /\ Cardinality(S) <= 1 /\ Cardinality(S) \in Nat
  BY FS_CardinalityType DEF Typed, Connected
<1>2. ASSUME NEW c \in S, NEW d \in S, c # d PROVE FALSE
  <2>1. IsFiniteSet({c}) /\ Cardinality({c}) = 1
    BY FS_Singleton
  <2>2. {c} \in SUBSET S /\ {c} # S
    BY <1>2
  <2>3. Cardinality({c}) <= Cardinality(S) /\ (Cardinality(S) = Cardinality({c}) => S = {c})
    BY <1>1, <2>2, FS_Subset
  <2> QED
    BY <1>1, <2>1, <2>2, <2>3
<1>3. Free => S = {}
  <2>1. Cardinality(S) = 0 => S = {}
    BY <1>1, FS_EmptySet
  <2> QED
    BY <1>1, <2>1 DEF Free
<1>4. \A c \in Clients : c \in DOMAIN open <=> pc[c] \in InTransaction
  BY DEF Typed, Connected
<1> QED
  BY <1>1, <1>2, <1>3, <1>4

\* What is known of a page when nothing of it changes
LEMMA SamePage ==
    ASSUME NEW k \in EndpointKeys, PageKnown(k),
           pc'[k] = pc[k] \/ {pc[k], pc'[k]} \subseteq {"bucket", "idle"}, pc[k] = "commit" => open'[k] = open[k],
           data'[k] = None <=> data[k] = None, StatusOf(data'[k]) = StatusOf(data[k]),
           "commit" \in lost'[k] <=> "commit" \in lost[k], cache'[k] = cache[k] \/ cache'[k] = None,
           k \in ToWipe => k \in ToWipe' \/ cache'[k] = None
    PROVE  PageKnown(k)'
  BY DEF PageKnown

\* A step other than those of the reader leaves alone what it has read, which it may keep the rows of until it ends.
LEMMA SameRead ==
    ASSUME PageRead, pc'["reader"] = pc["reader"],
           pc["reader"] = "fill" =>
              /\ wanted'["reader"] = wanted["reader"] /\ shown' = shown
              /\ wanted["reader"] \in EndpointKeys => data'[wanted["reader"]] = data[wanted["reader"]]
    PROVE  PageRead'
  BY DEF PageRead

\* Nothing has to be known of a page that no reader is about to cache.
LEMMA NobodyReads ==
    ASSUME ~(pc'["reader"] = "fill")
    PROVE  PageRead'
  BY DEF PageRead

\* A transaction that begins with the only connection finds no reader between its rows and the cache.
LEMMA BeginInsertKeepsPages ==
    ASSUME Connections = 1, StoreInv, CacheInv, NEW k \in EndpointKeys, BeginInsert(k)
    PROVE  CacheInv'
<1>1. /\ Free /\ pc' = [pc EXCEPT ![k] = "refresh"] /\ data' = data /\ cache' = cache
      /\ \A l \in Keys \ {k} : lost'[l] = lost[l]
      /\ \E result : wanted' = [wanted EXCEPT ![k] = result]
  <2>1. PICK failed : IF failed = "nothing" THEN lost' = lost ELSE lost' = [lost EXCEPT ![k] = @ \cup {failed}]
    BY DEF BeginInsert
  <2>2. \A l \in Keys \ {k} : lost'[l] = lost[l]
    BY <2>1 DEF StoreInv, Typed, Counted
  <2> QED
    BY <2>2 DEF BeginInsert, Goto, rows, Begin
<1>2. DOMAIN open = {} /\ "reader" \in Clients /\ "remover" \in Clients /\ k \in Clients /\ k \in Keys
  BY <1>1, OneTransaction, ClientsAre DEF StoreInv
<1>3. /\ \A c \in Clients : pc[c] \notin InTransaction
      /\ \A c \in Clients \ {k} : pc'[c] = pc[c] /\ wanted'[c] = wanted[c]
      /\ pc'[k] = "refresh"
  BY <1>1, <1>2, OneTransaction DEF StoreInv, Typed, ClientsTyped
<1>4. ToWipe' = ToWipe
  BY <1>2, <1>3, ClientsAre DEF ToWipe
<1>5. ASSUME NEW l \in EndpointKeys PROVE PageKnown(l)'
  <2>1. CASE l = k
    BY <1>3, <2>1 DEF PageKnown
  <2>2. CASE l # k
    <3>1. l \in Clients \ {k} /\ lost'[l] = lost[l] /\ pc[l] # "commit" /\ PageKnown(l)
      BY <1>1, <1>2, <1>3, <2>2, ClientsAre DEF CacheInv, StoreInv, Typed, Counted, InTransaction
    <3> QED
      BY <1>1, <1>3, <1>4, <3>1, SamePage
  <2> QED
    BY <2>1, <2>2
<1>6. PageRead'
  BY <1>2, <1>3, ClientsAre, NobodyReads DEF InTransaction
<1> QED
  BY <1>5, <1>6 DEF CacheInv

\* A refreshed page is what the transaction will commit.
LEMMA RefreshCacheKeepsPages ==
    ASSUME Connections = 1, StoreInv, CacheInv, NEW k \in EndpointKeys, RefreshCache(k)
    PROVE  CacheInv'
<1>1. /\ pc[k] = "refresh" /\ pc' = [pc EXCEPT ![k] = "commit"] /\ data' = data /\ cache' = Refreshed(k)
      /\ lost' = lost /\ open' = open /\ wanted' = wanted
  BY DEF RefreshCache, Goto, rows, observed
<1>2. "reader" \in Clients /\ "remover" \in Clients /\ k \in Clients /\ k \in Keys /\ k \in DOMAIN open
  BY <1>1, OneTransaction, ClientsAre DEF StoreInv, InTransaction
<1>3. /\ \A c \in Clients \ {k} : pc[c] \notin InTransaction /\ pc'[c] = pc[c]
      /\ pc'[k] = "commit"
  BY <1>1, <1>2, OneTransaction DEF StoreInv, Typed, ClientsTyped
<1>4. ToWipe' = ToWipe
  BY <1>1, <1>2, <1>3, ClientsAre DEF ToWipe
<1>5. ASSUME NEW l \in EndpointKeys PROVE PageKnown(l)'
  <2>1. CASE l = k
    <3>1. cache'[k] # None => cache'[k] = StatusOf(open[k])
      BY <1>1, <1>2 DEF Refreshed, Seen
    <3> QED
      BY <1>1, <1>3, <2>1, <3>1 DEF PageKnown
  <2>2. CASE l # k
    <3>1. l \in Clients \ {k} /\ l \in Keys /\ PageKnown(l)
      BY <2>2, ClientsAre DEF CacheInv
    <3>2. pc'[l] = pc[l] /\ pc[l] \notin {"refresh", "commit"}
      BY <1>3, <3>1 DEF InTransaction
    <3>3. CASE cache'[l] = cache[l]
      BY <1>1, <1>4, <3>1, <3>2, <3>3, SamePage
    <3>4. CASE cache'[l] # cache[l]
      <4>1. cache'[l] = None \/ (data[l] # None /\ cache'[l] = StatusOf(data[l]))
        BY <1>1, <2>2, <3>1, <3>4 DEF Refreshed, Seen
      <4> QED
        BY <1>1, <3>2, <4>1 DEF PageKnown
    <3> QED
      BY <3>3, <3>4
  <2> QED
    BY <2>1, <2>2
<1>6. PageRead'
  BY <1>2, <1>3, ClientsAre, NobodyReads DEF InTransaction
<1> QED
  BY <1>5, <1>6 DEF CacheInv

\* The commit makes the refreshed page the current one.
LEMMA CommitInsertKeepsPages ==
    ASSUME Connections = 1, StoreInv, CacheInv, NEW k \in EndpointKeys, CommitInsert(k)
    PROVE  CacheInv'
<1>1. /\ pc[k] = "commit" /\ pc' = [pc EXCEPT ![k] = "bucket"] /\ data' = [data EXCEPT ![k] = open[k]]
      /\ cache' = cache /\ lost' = [lost EXCEPT ![k] = @ \ {"commit"}] /\ wanted' = wanted
  BY DEF CommitInsert, Goto
<1>2. "reader" \in Clients /\ "remover" \in Clients /\ k \in Clients /\ k \in Keys /\ k \in DOMAIN open
  BY <1>1, OneTransaction, ClientsAre DEF StoreInv, InTransaction
<1>3. /\ \A c \in Clients \ {k} : pc[c] \notin InTransaction /\ pc'[c] = pc[c]
      /\ pc'[k] = "bucket" /\ data'[k] = open[k]
      /\ \A l \in Keys \ {k} : data'[l] = data[l] /\ lost'[l] = lost[l]
  BY <1>1, <1>2, OneTransaction DEF StoreInv, Typed, ClientsTyped, Counted
<1>4. ToWipe' = ToWipe
  BY <1>1, <1>2, <1>3, ClientsAre DEF ToWipe
<1>5. ASSUME NEW l \in EndpointKeys PROVE PageKnown(l)'
  <2>1. CASE l = k
    <3>1. PageKnown(k) /\ EndpointInv(k)
      BY DEF CacheInv, StoreInv
    <3>2. open[k] # None
      BY <1>1, <3>1 DEF EndpointInv, Inserting, Insertion
    <3>3. cache[k] # None /\ k \notin ToWipe => cache[k] = StatusOf(open[k])
      BY <1>1, <3>1 DEF PageKnown
    <3> QED
      BY <1>1, <1>3, <1>4, <2>1, <3>2, <3>3 DEF PageKnown
  <2>2. CASE l # k
    <3>1. l \in Clients \ {k} /\ l \in Keys \ {k} /\ PageKnown(l)
      BY <2>2, ClientsAre DEF CacheInv
    <3>2. pc'[l] = pc[l] /\ pc[l] # "commit"
      BY <1>3, <3>1 DEF InTransaction
    <3> QED
      BY <1>1, <1>3, <1>4, <3>1, <3>2, SamePage
  <2> QED
    BY <2>1, <2>2
<1>6. PageRead'
  BY <1>2, <1>3, ClientsAre, NobodyReads DEF InTransaction
<1> QED
  BY <1>5, <1>6 DEF CacheInv

\* An endpoint that is done with a result leaves the other clients alone.
LEMMA DoneAlone ==
    ASSUME Typed, NEW k \in EndpointKeys, Done(k)
    PROVE  /\ pc'[k] = "idle" /\ pc'["reader"] = pc["reader"] /\ wanted'["reader"] = wanted["reader"]
           /\ \A l \in EndpointKeys \ {k} : pc'[l] = pc[l]
           /\ ToWipe' = ToWipe
<1>1. k \in Clients /\ "reader" \in Clients \ {k} /\ "remover" \in Clients \ {k}
      /\ \A l \in EndpointKeys : l \in Clients
  BY ClientsAre
<1>2. pc'[k] = "idle" /\ \A c \in Clients \ {k} : pc'[c] = pc[c] /\ wanted'[c] = wanted[c]
  BY EndpointDone DEF Typed
<1>3. ToWipe' = ToWipe
  BY <1>1, <1>2 DEF ToWipe
<1> QED
  BY <1>1, <1>2, <1>3

\* Only here a refreshed page stays that was never committed: its commit is lost.
LEMMA CommitInsertFailsKeepsPages ==
    ASSUME Connections = 1, StoreInv, CacheInv, NEW k \in EndpointKeys, CommitInsertFails(k)
    PROVE  CacheInv'
<1>1. /\ pc[k] = "commit" /\ Done(k) /\ data' = data /\ cache' = cache /\ lost' = [lost EXCEPT ![k] = @ \cup {"commit"}]
  BY DEF CommitInsertFails, rows
<1>2. "reader" \in Clients \ {k} /\ k \in Clients /\ k \in Keys /\ k \in DOMAIN open
  BY <1>1, OneTransaction, ClientsAre DEF StoreInv, InTransaction
<1>3. /\ \A c \in Clients \ {k} : pc[c] \notin InTransaction
      /\ "commit" \in lost'[k] /\ \A l \in Keys \ {k} : lost'[l] = lost[l]
  BY <1>1, <1>2, OneTransaction DEF StoreInv, Typed, Counted
<1>4. /\ pc'[k] = "idle" /\ pc'["reader"] = pc["reader"] /\ ToWipe' = ToWipe
      /\ \A l \in EndpointKeys \ {k} : pc'[l] = pc[l]
  BY <1>1, DoneAlone DEF StoreInv
<1>5. ASSUME NEW l \in EndpointKeys PROVE PageKnown(l)'
  <2>1. CASE l = k
    BY <1>3, <1>4, <2>1 DEF PageKnown
  <2>2. CASE l # k
    <3>1. l \in Clients \ {k} /\ l \in Keys \ {k} /\ PageKnown(l)
      BY <2>2, ClientsAre DEF CacheInv
    <3>2. pc'[l] = pc[l] /\ pc[l] # "commit"
      BY <1>3, <1>4, <3>1 DEF InTransaction
    <3> QED
      BY <1>1, <1>3, <1>4, <3>1, <3>2, SamePage
  <2> QED
    BY <2>1, <2>2
<1>6. PageRead'
  BY <1>2, <1>3, <1>4, NobodyReads DEF InTransaction
<1> QED
  BY <1>5, <1>6 DEF CacheInv

\* No page shows the buckets.
LEMMA InsertBucketsKeepsPages ==
    ASSUME NoneIsNoRow, Connections = 1, StoreInv, CacheInv, NEW k \in EndpointKeys, InsertBuckets(k)
    PROVE  CacheInv'
<1>1. pc[k] = "bucket" /\ Free /\ Done(k) /\ cache' = cache /\ lost' = lost /\ open' = open
  BY DEF InsertBuckets, observed
<1>2. "reader" \in Clients /\ pc["reader"] \notin InTransaction /\ k \in Keys
  BY <1>1, OneTransaction, ClientsAre DEF StoreInv
<1>3. /\ pc'[k] = "idle" /\ pc'["reader"] = pc["reader"] /\ ToWipe' = ToWipe
      /\ \A l \in EndpointKeys \ {k} : pc'[l] = pc[l]
  BY <1>1, DoneAlone DEF StoreInv
<1>4. \A l \in Keys : (data'[l] = None <=> data[l] = None) /\ StatusOf(data'[l]) = StatusOf(data[l])
  <2>1. CASE data[k] = None
    BY <2>1 DEF InsertBuckets
  <2>2. CASE data[k] # None
    <3>1. PICK cleanUp \in BOOLEAN : data' = [data EXCEPT ![k] = BucketedAs(@, k, cleanUp)]
      BY <2>2 DEF InsertBuckets, CleanUps
    <3>2. EndpointRow(data[k], failures, Miscounted(k))
      BY <2>2 DEF StoreInv, EndpointInv
    <3>3. data'[k] = BucketedAs(data[k], k, cleanUp) /\ \A l \in Keys \ {k} : data'[l] = data[l]
      BY <1>2, <3>1 DEF StoreInv, Typed
    <3>4. data'[k] # None /\ data'[k].results = data[k].results /\ data'[k].events = data[k].events
      BY <3>2, <3>3, BucketedRow
    <3> QED
      BY <2>2, <3>3, <3>4 DEF StatusOf
  <2> QED
    BY <2>1, <2>2
<1>5. ASSUME NEW l \in EndpointKeys PROVE PageKnown(l)'
  <2>1. l \in Keys /\ PageKnown(l)
    BY ClientsAre DEF CacheInv
  <2>2. pc'[l] = pc[l] \/ {pc[l], pc'[l]} \subseteq {"bucket", "idle"}
    BY <1>1, <1>3
  <2> QED
    BY <1>1, <1>3, <1>4, <2>1, <2>2, SamePage
<1>6. PageRead'
  BY <1>2, <1>3, NobodyReads DEF InTransaction
<1> QED
  BY <1>5, <1>6 DEF CacheInv

\* Neither does their failure touch one.
LEMMA InsertBucketsFailsKeepsPages ==
    ASSUME Connections = 1, StoreInv, CacheInv, NEW k \in EndpointKeys, InsertBucketsFails(k)
    PROVE  CacheInv'
<1>1. /\ pc[k] = "bucket" /\ Done(k) /\ cache' = cache /\ data' = data /\ open' = open /\ shown' = shown
      /\ lost' = [lost EXCEPT ![k] = @ \cup {"bucket"}]
  BY DEF InsertBucketsFails, rows
<1>2. \A l \in Keys : "commit" \in lost'[l] <=> "commit" \in lost[l]
  BY <1>1 DEF StoreInv, Typed, Counted
<1>3. /\ pc'[k] = "idle" /\ pc'["reader"] = pc["reader"] /\ wanted'["reader"] = wanted["reader"] /\ ToWipe' = ToWipe
      /\ \A l \in EndpointKeys \ {k} : pc'[l] = pc[l]
  BY <1>1, DoneAlone DEF StoreInv
<1>4. ASSUME NEW l \in EndpointKeys PROVE PageKnown(l)'
  <2>1. l \in Keys /\ PageKnown(l)
    BY ClientsAre DEF CacheInv
  <2>2. pc'[l] = pc[l] \/ {pc[l], pc'[l]} \subseteq {"bucket", "idle"}
    BY <1>1, <1>3
  <2> QED
    BY <1>1, <1>2, <1>3, <2>1, <2>2, SamePage
<1>5. PageRead'
  BY <1>1, <1>3, SameRead DEF CacheInv
<1> QED
  BY <1>4, <1>5 DEF CacheInv

\* The steps that leave the rows of the endpoints and where their clients are alone
LEMMA PagesAlone ==
    ASSUME CacheInv,
           \A l \in EndpointKeys :
              /\ pc'[l] = pc[l] /\ data'[l] = data[l]
              /\ pc[l] = "commit" => open'[l] = open[l]
              /\ \/ cache'[l] = None
                 \/ cache'[l] = cache[l] /\ ("commit" \in lost'[l] <=> "commit" \in lost[l])
                    /\ (l \in ToWipe => l \in ToWipe')
    PROVE  \A l \in EndpointKeys : PageKnown(l)'
<1> TAKE l \in EndpointKeys
<1>1. PageKnown(l)
  BY DEF CacheInv
<1>2. CASE cache'[l] = None
  BY <1>2 DEF PageKnown
<1>3. CASE /\ cache'[l] = cache[l] /\ ("commit" \in lost'[l] <=> "commit" \in lost[l])
           /\ (l \in ToWipe => l \in ToWipe')
  BY <1>1, <1>3, SamePage
<1> QED
  BY <1>2, <1>3

\* A reader holds the only connection from its rows to the cache, so that what it caches is still current.
LEMMA ReaderKeepsPages ==
    ASSUME Connections = 1, StoreInv, CacheInv,
           \/ \E k \in Keys : BeginRead(k)
           \/ ReadRows \/ FillCache \/ EndRead
    PROVE  CacheInv'
<1>1. "reader" \in Clients /\ "remover" \in Clients \ {"reader"}
      /\ \A l \in EndpointKeys : l \in Clients \ {"reader"} /\ l \in Keys
  BY ClientsAre
<1>2. PICK label \in Labels : pc' = [pc EXCEPT !["reader"] = label]
  BY DEF BeginRead, ReadRows, FillCache, EndRead, Done, Goto, Labels
<1>3. /\ pc'["reader"] = label /\ \A c \in Clients \ {"reader"} : pc'[c] = pc[c]
      /\ data' = data /\ lost' = lost
  BY <1>1, <1>2 DEF BeginRead, ReadRows, FillCache, EndRead, rows, observed, StoreInv, Typed, ClientsTyped
<1>4. \A c \in Clients \ {"reader"} : wanted'[c] = wanted[c]
  BY <1>1 DEF BeginRead, ReadRows, FillCache, EndRead, Done, StoreInv, Typed, ClientsTyped
<1>5. ToWipe' = ToWipe
  BY <1>1, <1>3, <1>4 DEF ToWipe
<1>6. CASE \E k \in Keys : BeginRead(k)
  <2>1. Free /\ cache' = cache /\ label # "fill"
    BY <1>1, <1>3, <1>6 DEF BeginRead, Begin, Goto, StoreInv, Typed, ClientsTyped
  <2>2. \A l \in EndpointKeys : pc[l] # "commit"
    BY <1>1, <2>1, OneTransaction DEF StoreInv, InTransaction
  <2>3. \A l \in EndpointKeys : PageKnown(l)'
    BY <1>1, <1>3, <1>5, <2>1, <2>2, PagesAlone
  <2> QED
    BY <1>3, <2>1, <2>3, NobodyReads DEF CacheInv
<1>7. CASE ReadRows
  <2>1. cache' = cache /\ open' = open /\ wanted' = wanted
    BY <1>7 DEF ReadRows
  <2>2. \A l \in EndpointKeys : PageKnown(l)'
    BY <1>1, <1>3, <1>5, <2>1, PagesAlone
  <2>3. PageRead'
    <3>1. label = "fill" => data[wanted["reader"]] # None /\ shown' = StatusOf(data[wanted["reader"]])
      BY <1>1, <1>2, <1>3, <1>7 DEF ReadRows, Goto, StoreInv, Typed, ClientsTyped
    <3> QED
      BY <1>3, <2>1, <3>1 DEF PageRead
  <2> QED
    BY <2>2, <2>3 DEF CacheInv
<1>8. CASE FillCache
  <2>1. /\ pc["reader"] = "fill" /\ label # "fill" /\ cache' = [cache EXCEPT ![wanted["reader"]] = shown]
        /\ open' = open
    BY <1>1, <1>3, <1>8 DEF FillCache, Goto, StoreInv, Typed, ClientsTyped
  <2>2. "reader" \in DOMAIN open
    BY <1>1, <2>1, OneTransaction DEF StoreInv, InTransaction
  <2>3. \A l \in EndpointKeys : pc[l] \notin InTransaction
    BY <1>1, <2>2, OneTransaction DEF StoreInv
  <2>4. ASSUME NEW l \in EndpointKeys PROVE PageKnown(l)'
    <3>1. CASE l = wanted["reader"]
      <4>1. cache'[l] = shown /\ data[l] # None /\ shown = StatusOf(data[l])
        BY <1>1, <2>1, <3>1 DEF CacheInv, PageRead, StoreInv, Typed, CachesTyped
      <4>2. pc'[l] # "commit"
        BY <1>1, <1>3, <2>3 DEF InTransaction
      <4> QED
        BY <1>3, <4>1, <4>2 DEF PageKnown
    <3>2. CASE l # wanted["reader"]
      <4>1. cache'[l] = cache[l] /\ PageKnown(l)
        BY <1>1, <2>1, <3>2 DEF CacheInv, StoreInv, Typed, CachesTyped
      <4> QED
        BY <1>1, <1>3, <1>5, <2>1, <4>1, SamePage
    <3> QED
      BY <3>1, <3>2
  <2> QED
    BY <1>3, <2>1, <2>4, NobodyReads DEF CacheInv
<1>9. CASE EndRead
  <2>1. pc["reader"] = "end" /\ label # "fill" /\ cache' = cache
    BY <1>1, <1>3, <1>9 DEF EndRead, Done, Goto, StoreInv, Typed, ClientsTyped
  <2>2. "reader" \in DOMAIN open
    BY <1>1, <2>1, OneTransaction DEF StoreInv, InTransaction
  <2>3. \A l \in EndpointKeys : pc[l] # "commit"
    BY <1>1, <2>2, OneTransaction DEF StoreInv, InTransaction
  <2>4. \A l \in EndpointKeys : PageKnown(l)'
    BY <1>1, <1>3, <1>5, <2>1, <2>3, PagesAlone
  <2> QED
    BY <1>3, <2>1, <2>4, NobodyReads DEF CacheInv
<1> QED
  BY <1>6, <1>7, <1>8, <1>9

\* A remover marks what it is about to wipe, while nobody has a transaction.
LEMMA RemoverKeepsPages ==
    ASSUME Connections = 1, StoreInv, CacheInv, Free, pc["remover"] = "idle",
           pc' = [pc EXCEPT !["remover"] = "wipe"],
           NEW keys \in SUBSET Keys, wanted' = [wanted EXCEPT !["remover"] = keys], open' = open, cache' = cache,
           \A l \in Keys \ keys : data'[l] = data[l] /\ lost'[l] = lost[l]
    PROVE  CacheInv'
<1>1. /\ "reader" \in Clients \ {"remover"} /\ "remover" \in Clients
      /\ \A l \in EndpointKeys : l \in Clients \ {"remover"} /\ l \in Keys
  BY ClientsAre
<1>2. /\ pc'["remover"] = "wipe" /\ wanted'["remover"] = keys
      /\ \A c \in Clients \ {"remover"} : pc'[c] = pc[c]
  BY <1>1 DEF StoreInv, Typed, ClientsTyped
<1>3. ToWipe' = keys /\ ToWipe = {}
  BY <1>2 DEF ToWipe
<1>4. \A c \in Clients : pc[c] \notin InTransaction
  BY OneTransaction DEF StoreInv
<1>5. ASSUME NEW l \in EndpointKeys PROVE PageKnown(l)'
  <2>1. CASE l \in keys
    BY <1>3, <2>1 DEF PageKnown
  <2>2. CASE l \notin keys
    <3>1. data'[l] = data[l] /\ lost'[l] = lost[l] /\ pc'[l] = pc[l] /\ PageKnown(l)
      BY <1>1, <1>2, <2>2 DEF CacheInv
    <3> QED
      BY <1>3, <3>1, SamePage
  <2> QED
    BY <2>1, <2>2
<1>6. PageRead'
  BY <1>1, <1>2, <1>4, NobodyReads DEF InTransaction
<1> QED
  BY <1>5, <1>6 DEF CacheInv

\* The page of a removed endpoint is one that the remover wipes next.
LEMMA DeleteKeepsPages ==
    ASSUME Connections = 1, StoreInv, CacheInv, NEW k \in Keys, Delete(k)
    PROVE  CacheInv'
<1>1. /\ Free /\ pc["remover"] = "idle" /\ pc' = [pc EXCEPT !["remover"] = "wipe"]
      /\ wanted' = [wanted EXCEPT !["remover"] = {k}] /\ open' = open /\ cache' = cache
      /\ data' = [data EXCEPT ![k] = None] /\ lost' = [lost EXCEPT ![k] = {"memory"}]
  BY DEF Delete, Idle, Goto
<1>2. {k} \in SUBSET Keys /\ \A l \in Keys \ {k} : data'[l] = data[l] /\ lost'[l] = lost[l]
  BY <1>1 DEF StoreInv, Typed, Counted
<1> QED
  BY <1>1, <1>2, RemoverKeepsPages

\* So are the pages of an endpoint whose key changes, under both keys.
LEMMA RenameKeepsPages ==
    ASSUME Connections = 1, StoreInv, CacheInv, NEW k \in EndpointKeys, NEW l \in EndpointKeys, Rename(k, l)
    PROVE  CacheInv'
<1>1. /\ Free /\ pc["remover"] = "idle" /\ pc' = [pc EXCEPT !["remover"] = "wipe"]
      /\ wanted' = [wanted EXCEPT !["remover"] = {k, l}] /\ open' = open /\ cache' = cache
      /\ data' = [data EXCEPT ![l] = data[k], ![k] = None]
      /\ lost' = [lost EXCEPT ![l] = (lost[k] \ {"commit"}) \cup {"memory"}, ![k] = {"memory"}]
  BY DEF Rename, Idle, Goto
<1>2. {k, l} \in SUBSET Keys /\ \A e \in Keys \ {k, l} : data'[e] = data[e] /\ lost'[e] = lost[e]
  BY <1>1, ClientsAre DEF StoreInv, Typed, Counted
<1> QED
  BY <1>1, <1>2, RemoverKeepsPages

\* What was to be wiped is no longer cached.
LEMMA WipeCacheKeepsPages ==
    ASSUME StoreInv, CacheInv, WipeCache
    PROVE  CacheInv'
<1>1. /\ pc["remover"] = "wipe" /\ pc' = [pc EXCEPT !["remover"] = "idle"]
      /\ wanted' = [wanted EXCEPT !["remover"] = None] /\ open' = open /\ cache' = Wiped(wanted["remover"])
      /\ data' = data /\ lost' = lost /\ shown' = shown
  BY DEF WipeCache, Done, Goto, rows, observed
<1>2. /\ "reader" \in Clients \ {"remover"} /\ "remover" \in Clients
      /\ \A l \in EndpointKeys : l \in Clients \ {"remover"} /\ l \in Keys
  BY ClientsAre
<1>3. \A c \in Clients \ {"remover"} : pc'[c] = pc[c] /\ wanted'[c] = wanted[c]
  BY <1>1, <1>2 DEF StoreInv, Typed, ClientsTyped
<1>4. ToWipe = wanted["remover"]
  BY <1>1 DEF ToWipe
<1>5. ASSUME NEW l \in EndpointKeys
      PROVE  cache'[l] = None \/ (cache'[l] = cache[l] /\ l \notin ToWipe)
  BY <1>1, <1>2, <1>4 DEF Wiped
<1>6. \A l \in EndpointKeys : PageKnown(l)'
  BY <1>1, <1>2, <1>3, <1>5, PagesAlone
<1>7. PageRead'
  BY <1>1, <1>2, <1>3, SameRead DEF CacheInv
<1> QED
  BY <1>6, <1>7 DEF CacheInv

\* The suite and time change no page of an endpoint; expiry and a start only drop pages.
LEMMA OthersKeepPages ==
    ASSUME Connections = 1, StoreInv, CacheInv,
           \/ \E executed \in SUBSET SuiteKeys : InsertSuiteResult(executed)
           \/ \E k \in Keys : Expire(k)
           \/ \E keys \in SUBSET Keys : Load(keys)
           \/ Tick \/ UNCHANGED vars
    PROVE  CacheInv'
<1>1. open' = open /\ pc' = pc /\ wanted' = wanted /\ shown' = shown /\ ToWipe' = ToWipe
  BY DEF InsertSuiteResult, Expire, Load, Tick, vars, clients, ToWipe
<1>2. "reader" \in Clients /\ \A l \in EndpointKeys : l \in Clients /\ l \in Keys /\ l \notin SuiteKeys
  BY ClientsAre DEF EndpointKeys
<1>3. CASE \E executed \in SUBSET SuiteKeys : InsertSuiteResult(executed)
  <2>1. cache' = cache /\ lost' = lost /\ \A l \in EndpointKeys : data'[l] = data[l]
    BY <1>2, <1>3 DEF InsertSuiteResult, observed
  <2> QED
    BY <1>1, <2>1, PagesAlone, SameRead DEF CacheInv
<1>4. CASE \E k \in Keys : Expire(k)
  <2>1. PICK k \in Keys : Expire(k)
    BY <1>4
  <2>2. /\ data' = data /\ cache'[k] = None
        /\ \A l \in Keys \ {k} : cache'[l] = cache[l] /\ lost'[l] = lost[l]
    BY <2>1 DEF Expire, rows, StoreInv, Typed, CachesTyped, Counted
  <2>3. \A l \in EndpointKeys : l = k \/ l \in Keys \ {k}
    BY <1>2
  <2> QED
    BY <1>1, <2>2, <2>3, PagesAlone, SameRead DEF CacheInv
<1>5. CASE \E keys \in SUBSET Keys : Load(keys)
  <2>1. pc["reader"] = "idle" /\ \A l \in EndpointKeys : cache'[l] = None
    BY <1>2, <1>5 DEF Load
  <2>2. \A l \in EndpointKeys : PageKnown(l)'
    BY <2>1 DEF PageKnown
  <2> QED
    BY <1>1, <2>1, <2>2, NobodyReads DEF CacheInv
<1>6. CASE Tick \/ UNCHANGED vars
  <2>1. data' = data /\ cache' = cache /\ lost' = lost
    BY <1>6 DEF Tick, vars, rows, observed
  <2> QED
    BY <1>1, <2>1, PagesAlone, SameRead DEF CacheInv
<1> QED
  BY <1>3, <1>4, <1>5, <1>6

-----------------------------------------------------------------------------
(* The results of a suite: those of its endpoints are linked to them. *)

\* Numbers that only grow
Ascending(ids) == \A i, j \in 1..Len(ids) : i < j => ids[i] < ids[j]

IsOneOf(id, ids) == \E j \in 1..Len(ids) : ids[j] = id

InOrder(results) == \A i, j \in 1..Len(results) : i < j => results[i].id < results[j].id

\* The results of an endpoint of the suite, one for some of the results of the suite, in their order
LinkedResults(results, ids) ==
    /\ results \in Seq(Results) /\ InOrder(results)
    /\ \A i \in 1..Len(results) : IsOneOf(results[i].id, ids)

SuiteInv ==
    /\ Ascending(suite) /\ \A i \in 1..Len(suite) : suite[i] <= inserts
    /\ \A k \in SuiteKeys : data[k] # None => LinkedResults(data[k].results, suite)

\* There are no more results of an endpoint than there are results of its suite.
LEMMA NoMoreThanTheSuite ==
    ASSUME NEW results, NEW ids \in Seq(Nat), LinkedResults(results, ids)
    PROVE  Len(results) <= Len(ids)
<1>1. PICK n \in Nat, m \in Nat : n = Len(results) /\ m = Len(ids)
  BY LenProperties DEF LinkedResults
<1> DEFINE f == [i \in 1..n |-> CHOOSE j \in 1..m : ids[j] = results[i].id]
<1>2. \A i \in 1..n : f[i] \in 1..m /\ ids[f[i]] = results[i].id
  <2> TAKE i \in 1..n
  <2>1. \E j \in 1..m : ids[j] = results[i].id
    BY <1>1 DEF LinkedResults, IsOneOf
  <2>2. f[i] = CHOOSE j \in 1..m : ids[j] = results[i].id
    OBVIOUS
  <2> HIDE DEF f
  <2> QED
    BY <2>1, <2>2
<1>3. \A i, j \in 1..n : i < j => f[i] # f[j]
  <2> HIDE DEF f
  <2> TAKE i, j \in 1..n
  <2> HAVE i < j
  <2>1. results[i].id < results[j].id /\ results[i] \in Results /\ results[j] \in Results
    BY <1>1, ElementOfSeq DEF LinkedResults, InOrder
  <2>2. results[i].id \in Nat /\ results[j].id \in Nat /\ results[i].id # results[j].id
    BY <2>1 DEF Results
  <2> QED
    BY <1>2, <2>2
<1>4. f \in [1..n -> 1..m]
  BY <1>2
<1>5. f \in Injection(1..n, 1..m)
  <2> HIDE DEF f
  <2>1. \A i, j \in 1..n : f[i] = f[j] => i = j
    <3> TAKE i, j \in 1..n
    <3>1. i < j \/ j < i \/ i = j
      BY <1>1
    <3> QED
      BY <1>3, <3>1
  <2> QED
    BY <1>4, <2>1 DEF Injection, IsInjective
<1>6. IsFiniteSet(1..m) /\ Cardinality(1..m) = m /\ Cardinality(1..n) = n
  <2> HIDE DEF f
  <2>1. 1 \in Int /\ n \in Int /\ m \in Int
    OBVIOUS
  <2>2. IsFiniteSet(1..m) /\ Cardinality(1..m) = IF 1 > m THEN 0 ELSE m - 1 + 1
    BY <2>1, FS_Interval
  <2>3. Cardinality(1..n) = IF 1 > n THEN 0 ELSE n - 1 + 1
    BY <2>1, FS_Interval
  <2> QED
    BY ONLY <2>2, <2>3, n \in Nat, m \in Nat
<1>7. Cardinality(1..n) <= Cardinality(1..m)
  <2> HIDE DEF f
  <2> QED
    BY <1>5, <1>6, FS_Injection
<1> QED
  BY <1>1, <1>6, <1>7

\* A set of numbers that is not empty has a least one.
LEMMA LeastOf ==
    ASSUME NEW S \in SUBSET Nat, S # {}
    PROVE  \E n \in S : \A m \in S : ~(m < n)
<1>1. PICK n \in S : \A m \in S : ~(<<m, n>> \in OpToRel(<, Nat))
  BY WFMin, NatLessThanWellFounded, Zenon
<1>2. ASSUME NEW m \in S, m < n PROVE FALSE
  <2>1. <<m, n>> \in {ss \in Nat \X Nat : ss[1] < ss[2]}
    BY <1>2
  <2> QED
    BY <1>1, <2>1 DEF OpToRel
<1> QED
  BY <1>2

\* What is left of positions when the first ones are gone is the last ones.
LEMMA LastPositions ==
    ASSUME NEW n \in Nat, NEW left \in SUBSET (1..n), \A i, j \in 1..n : i < j /\ i \in left => j \in left
    PROVE  Cardinality(left) \in 0..n /\ left = (n - Cardinality(left) + 1)..n
<1>1. CASE left = {}
  <2>1. Cardinality(left) = 0
    BY <1>1, FS_EmptySet
  <2> QED
    BY <1>1, <2>1
<1>2. CASE left # {}
  <2>1. PICK first \in left : \A i \in left : ~(i < first)
    <3>1. left \subseteq Nat
      OBVIOUS
    <3> QED
      BY <1>2, <3>1, LeastOf
  <2>2. first \in 1..n
    OBVIOUS
  <2>3. \A i \in 1..n : i \in left <=> i >= first
    <3> TAKE i \in 1..n
    <3>1. i \in left => ~(i < first)
      BY <2>1
    <3>2. first < i => i \in left
      BY <2>2
    <3> QED
      BY <2>2, <3>1, <3>2
  <2>4. left = first..n
    <3>1. ASSUME NEW i PROVE i \in left <=> i \in first..n
      <4>1. i \in left => i \in 1..n
        OBVIOUS
      <4>2. i \in first..n => i \in 1..n /\ i >= first
        BY <2>2
      <4>3. i \in 1..n /\ i >= first => i \in first..n
        BY <2>2
      <4> QED
        BY <2>3, <4>1, <4>2, <4>3
    <3> QED
      BY <3>1
  <2>5. Cardinality(first..n) = n - first + 1
    <3>1. first \in Int /\ n \in Int /\ first <= n
      BY <2>2
    <3> QED
      BY <3>1, FS_Interval
  <2>6. Cardinality(left) = n - first + 1
    BY <2>4, <2>5
  <2>7. n - (n - first + 1) + 1 = first /\ n - first + 1 \in 0..n
    BY <2>2
  <2> QED
    BY <2>4, <2>6, <2>7
<1> QED
  BY <1>1, <1>2

\* When results of the suite are deleted such that later results of an endpoint keep theirs, what is left of the results
\* of the endpoint is linked.
LEMMA LinkedAreLinked ==
    ASSUME NEW row, NEW results \in Seq(Results), row.results = results, InOrder(results), NEW ids \in Seq(Nat),
           \A i, j \in 1..Len(results) : i < j /\ IsOneOf(results[i].id, ids) => IsOneOf(results[j].id, ids)
    PROVE  LinkedResults(LinkedTo(row, ids), ids)
<1> DEFINE left == {i \in 1..Len(results) : IsOneOf(results[i].id, ids)}
<1>1. PICK n \in Nat : n = Len(results)
  BY LenProperties
<1>2. DOMAIN results = 1..n /\ DOMAIN ids = 1..Len(ids)
  BY <1>1, LenProperties
<1>3. left = {i \in DOMAIN row.results : \E j \in DOMAIN ids : ids[j] = row.results[i].id}
  BY <1>1, <1>2 DEF IsOneOf
<1>4. LinkedTo(row, ids) = Latest(results, Cardinality(left))
  BY <1>3 DEF LinkedTo
<1>5. left \in SUBSET (1..n) /\ \A i, j \in 1..n : i < j /\ i \in left => j \in left
  BY <1>1
<1>6. \A i \in left : IsOneOf(results[i].id, ids)
  OBVIOUS
<1> HIDE DEF left
<1>7. PICK c \in 0..n : c = Cardinality(left) /\ left = (n - c + 1)..n
  <2>1. Cardinality(left) \in 0..n /\ left = (n - Cardinality(left) + 1)..n
    BY <1>5, LastPositions
  <2> HIDE DEF left
  <2> QED
    BY ONLY <2>1
<1>8. PICK kept \in Seq(Results) : kept = Latest(results, c)
  <2>1. c \in Nat
    OBVIOUS
  <2> QED
    BY <2>1, LatestIs
<1>9. Len(kept) = (IF Len(results) <= c THEN Len(results) ELSE c)
      /\ \A i \in 1..Len(kept) : kept[i] = results[Len(results) - Len(kept) + i]
  <2>1. c \in Nat
    OBVIOUS
  <2>2. /\ Len(Latest(results, c)) = (IF Len(results) <= c THEN Len(results) ELSE c)
        /\ \A i \in 1..Len(Latest(results, c)) :
              Latest(results, c)[i] = results[Len(results) - Len(Latest(results, c)) + i]
    BY ONLY <2>1, results \in Seq(Results), LatestIs
  <2> QED
    BY ONLY <1>8, <2>2
<1>10. Len(kept) = c /\ \A i \in 1..c : kept[i] = results[n - c + i]
  <2>1. Len(kept) = c
    BY ONLY <1>1, <1>9, n \in Nat, c \in 0..n
  <2> QED
    BY <1>1, <1>9, <2>1
<1>11. InOrder(kept)
  <2> SUFFICES ASSUME NEW i \in 1..c, NEW j \in 1..c, i < j PROVE kept[i].id < kept[j].id
    BY <1>10 DEF InOrder
  <2>1. n - c + i \in 1..n /\ n - c + j \in 1..n /\ n - c + i < n - c + j
    BY <1>7
  <2> QED
    BY <1>1, <1>10, <2>1 DEF InOrder
<1>12. ASSUME NEW i \in 1..Len(kept) PROVE IsOneOf(kept[i].id, ids)
  <2>1. i \in 1..c
    BY <1>10
  <2>2. n - c + i \in left
    <3>1. n - c + i \in (n - c + 1)..n
      BY ONLY <2>1, n \in Nat, c \in 0..n
    <3> QED
      BY <1>7, <3>1
  <2> QED
    BY <1>6, <1>10, <2>1, <2>2
<1>13. LinkedResults(kept, ids)
  BY <1>11, <1>12 DEF LinkedResults
<1> QED
  BY <1>4, <1>7, <1>8, <1>13

\* What comes after an identifier that is left is left as well.
LaterStay(ids, new, kept) ==
    \A id, later \in Nat :
        (IsOneOf(id, kept) /\ id < later /\ (IsOneOf(later, ids) \/ later = new)) => IsOneOf(later, kept)

\* The identifiers of the results of the suite still ascend when one is added and the oldest are deleted, and one that
\* is at least as great as one that is left was not deleted.
LEMMA SuiteGrows ==
    ASSUME NEW ids \in Seq(Nat), NEW n \in Nat, Ascending(ids), \A i \in 1..Len(ids) : ids[i] <= n,
           NEW kept, kept = Trimmed(Append(ids, n + 1))
    PROVE  /\ kept \in Seq(Nat) /\ Ascending(kept) /\ \A i \in 1..Len(kept) : kept[i] <= n + 1
           /\ LaterStay(ids, n + 1, kept)
<1>1. PICK added \in Seq(Nat) : added = Append(ids, n + 1)
  <2>1. Append(ids, n + 1) \in Seq(Nat)
    BY AppendedIsConcat
  <2> QED
    BY <2>1
<1>2. PICK l \in Nat, m \in Nat : l = Len(ids) /\ m = Len(added)
  BY LenProperties
<1>3. m = l + 1 /\ \A i \in 1..m : added[i] = IF i <= l THEN ids[i] ELSE n + 1
  <2>1. Len(Append(ids, n + 1)) = Len(ids) + 1 /\ \A i \in 1..(Len(ids) + 1) :
           Append(ids, n + 1)[i] = IF i <= Len(ids) THEN ids[i] ELSE n + 1
    BY AppendProperties
  <2> QED
    BY <1>1, <1>2, <2>1
<1>4. \A i \in 1..l : ids[i] \in Nat
  BY <1>2, ElementOfSeq
<1>5. \A i \in 1..m : added[i] \in Nat /\ added[i] <= n + 1
  BY <1>2, <1>3, <1>4
<1>6. \A i, j \in 1..m : i < j => added[i] < added[j]
  <2> TAKE i, j \in 1..m
  <2> HAVE i < j
  <2>1. CASE j <= l
    <3>1. i \in 1..l /\ j \in 1..l
      BY <2>1
    <3> QED
      BY <1>2, <1>3, <2>1, <3>1 DEF Ascending
  <2>2. CASE ~(j <= l)
    <3>1. i \in 1..l /\ j = l + 1
      BY <1>3, <2>2
    <3>2. ids[i] <= n /\ ids[i] \in Nat
      BY <1>2, <1>4, <3>1
    <3> QED
      BY <1>3, <3>1, <3>2
  <2> QED
    BY <2>1, <2>2
<1>7. MaxResults \in Nat
  BY StoreAssumption
<1>8. PICK c \in Nat : /\ c <= m /\ kept \in Seq(Nat) /\ Len(kept) = c
                       /\ \A i \in 1..c : kept[i] = added[m - c + i]
  <2>1. CASE Len(added) > MaxResults + Slack
    <3>1. kept = Latest(added, MaxResults)
      BY <1>1, <2>1 DEF Trimmed
    <3>2. /\ kept \in Seq(Nat) /\ Len(kept) = (IF Len(added) <= MaxResults THEN Len(added) ELSE MaxResults)
          /\ \A i \in 1..Len(kept) : kept[i] = added[Len(added) - Len(kept) + i]
      <4>1. /\ Latest(added, MaxResults) \in Seq(Nat)
            /\ Len(Latest(added, MaxResults)) = (IF Len(added) <= MaxResults THEN Len(added) ELSE MaxResults)
            /\ \A i \in 1..Len(Latest(added, MaxResults)) :
                  Latest(added, MaxResults)[i] = added[Len(added) - Len(Latest(added, MaxResults)) + i]
        BY ONLY <1>2, <1>7, LatestIs
      <4> QED
        BY ONLY <3>1, <4>1
    <3>3. Len(kept) \in Nat /\ Len(kept) <= m
      BY <1>2, <1>7, <3>2
    <3> QED
      BY <1>2, <3>2, <3>3
  <2>2. CASE ~(Len(added) > MaxResults + Slack)
    <3>1. kept = added
      BY <1>1, <2>2 DEF Trimmed
    <3>2. m <= m /\ kept \in Seq(Nat) /\ Len(kept) = m /\ \A i \in 1..m : kept[i] = added[m - m + i]
      BY <1>2, <3>1
    <3> QED
      BY <3>2
  <2> QED
    BY <2>1, <2>2
<1>9. \A i \in 1..c : m - c + i \in 1..m
  BY <1>8
<1>10. Ascending(kept)
  <2> SUFFICES ASSUME NEW i \in 1..c, NEW j \in 1..c, i < j PROVE kept[i] < kept[j]
    BY <1>8 DEF Ascending
  <2>1. m - c + i < m - c + j
    OBVIOUS
  <2> QED
    BY <1>6, <1>8, <1>9, <2>1
<1>11. \A i \in 1..Len(kept) : kept[i] <= n + 1
  BY <1>5, <1>8, <1>9
<1>12. ASSUME NEW id \in Nat, NEW later \in Nat, IsOneOf(id, kept), id < later, IsOneOf(later, ids) \/ later = n + 1
       PROVE  IsOneOf(later, kept)
  <2>1. PICK i \in 1..c : kept[i] = id
    BY <1>8, <1>12 DEF IsOneOf
  <2>2. PICK j \in 1..m : added[j] = later
    <3>1. CASE IsOneOf(later, ids)
      <4>1. PICK j \in 1..l : ids[j] = later
        BY <1>2, <3>1 DEF IsOneOf
      <4>2. j \in 1..m /\ added[j] = later
        BY <1>3, <4>1
      <4> QED
        BY <4>2
    <3>2. CASE later = n + 1
      <4>1. m \in 1..m /\ added[m] = later
        BY <1>3, <3>2
      <4> QED
        BY <4>1
    <3> QED
      BY <1>12, <3>1, <3>2
  <2>3. m - c + i < j
    <3>1. j < m - c + i => added[j] < added[m - c + i]
      BY <1>6, <1>9
    <3>2. added[m - c + i] = id /\ m - c + i \in 1..m
      BY <1>8, <1>9, <2>1
    <3>3. ~(j < m - c + i)
      BY <1>12, <2>2, <3>1, <3>2
    <3>4. j # m - c + i
      BY <1>12, <2>2, <3>2
    <3> QED
      BY <3>2, <3>3, <3>4
  <2>4. j - (m - c) \in 1..c /\ m - c + (j - (m - c)) = j
    BY <1>8, <2>3
  <2>5. kept[j - (m - c)] = later
    BY <1>8, <2>2, <2>4
  <2> QED
    BY <1>8, <2>4, <2>5 DEF IsOneOf
<1> QED
  BY <1>8, <1>10, <1>11, <1>12 DEF LaterStay

\* A step that changes neither the results of the suite nor those of its endpoints, which may be gone
LEMMA SuiteAlone ==
    ASSUME StoreInv, SuiteInv, suite' = suite, inserts' = inserts \/ inserts' = inserts + 1,
           \A k \in SuiteKeys : data'[k] = data[k] \/ data'[k] = None
    PROVE  SuiteInv'
<1>1. suite \in Seq(Nat) /\ inserts \in Nat
  BY DEF StoreInv, Typed, Counted, Workload
<1>2. \A i \in 1..Len(suite) : suite[i] <= inserts'
  <2> TAKE i \in 1..Len(suite)
  <2>1. suite[i] \in Nat /\ suite[i] <= inserts
    BY <1>1, ElementOfSeq DEF SuiteInv
  <2> QED
    BY <1>1, <2>1
<1>3. Ascending(suite) /\ \A k \in SuiteKeys : data[k] # None => LinkedResults(data[k].results, suite)
  BY DEF SuiteInv
<1>4. \A k \in SuiteKeys : data'[k] # None => LinkedResults(data'[k].results, suite)
  BY <1>3
<1>5. SuiteInv' <=> /\ Ascending(suite') /\ \A i \in 1..Len(suite') : suite'[i] <= inserts'
                    /\ \A k \in SuiteKeys : data'[k] # None => LinkedResults(data'[k].results, suite')
  BY DEF SuiteInv
<1> QED
  BY <1>2, <1>3, <1>4, <1>5

\* A result of the suite is added with those of its endpoints, and the results of the endpoints go with the oldest.
LEMMA InsertSuiteResultLinks ==
    ASSUME NoneIsNoRow, StoreInv, SuiteInv, NEW executed \in SUBSET SuiteKeys, InsertSuiteResult(executed)
    PROVE  SuiteInv'
<1>1. PICK n \in Nat, ids \in Seq(Nat) : n = inserts /\ ids = suite
  BY DEF StoreInv, Typed, Counted, Workload
<1>2. PICK kept : kept = Trimmed(Append(ids, n + 1))
  OBVIOUS
<1>3. inserts' = n + 1 /\ suite' = kept
  BY <1>1, <1>2 DEF InsertSuiteResult
<1>4. Ascending(ids) /\ \A i \in 1..Len(ids) : ids[i] <= n
  BY <1>1 DEF SuiteInv
<1>5. /\ kept \in Seq(Nat) /\ Ascending(kept) /\ \A i \in 1..Len(kept) : kept[i] <= n + 1
      /\ LaterStay(ids, n + 1, kept)
  BY <1>1, <1>2, <1>4, SuiteGrows
<1>6. ASSUME NEW l \in SuiteKeys, data'[l] # None PROVE LinkedResults(data'[l].results, kept)
  <2> DEFINE old == IF data[l] = None THEN NewRow ELSE data[l]
             added == IF l \in executed
                        THEN [old EXCEPT !.results = Append(@, [id |-> n + 1, kind |-> "up"])] ELSE old
             linked == [added EXCEPT !.results = LinkedTo(added, kept)]
  <2>1. l \in Keys /\ (l \in executed \/ data[l] # None => data'[l] = linked)
        /\ (~(l \in executed \/ data[l] # None) => data'[l] = data[l])
    BY <1>1, <1>2, ClientsAre DEF InsertSuiteResult
  <2>2. data'[l] = linked
    BY <1>6, <2>1
  <2>3. IsRow(old) /\ LinkedResults(old.results, ids)
    <3>1. CASE data[l] = None
      <4>1. old = NewRow
        BY <3>1
      <4>2. IsRow(NewRow) /\ NewRow.results = <<>>
        BY DEF IsRow, NewRow
      <4>3. LinkedResults(<<>>, ids)
        BY DEF LinkedResults, InOrder
      <4> QED
        BY <4>1, <4>2, <4>3
    <3>2. CASE data[l] # None
      <4>1. SuiteRow(data[l]) /\ LinkedResults(data[l].results, suite)
        BY <3>2 DEF StoreInv, SuiteInv
      <4> QED
        BY <1>1, <3>2, <4>1 DEF SuiteRow
    <3> QED
      BY <3>1, <3>2
  <2>4. PICK before \in Seq(Results) :
           /\ before = old.results /\ InOrder(before)
           /\ \A i \in 1..Len(before) : IsOneOf(before[i].id, ids)
    BY <2>3 DEF LinkedResults
  <2>5. PICK new \in Results : new = [id |-> n + 1, kind |-> "up"]
    <3>1. n + 1 \in Nat /\ "up" \in Kinds
      BY DEF Kinds
    <3>2. [id |-> n + 1, kind |-> "up"] \in Results
      BY ONLY <3>1 DEF Results
    <3> QED
      BY ONLY <3>2
  <2>6. PICK results \in Seq(Results) : results = IF l \in executed THEN Append(before, new) ELSE before
    <3>1. Append(before, new) \in Seq(Results)
      BY AppendedIsConcat
    <3> QED
      BY <3>1
  <2>7. IsRow(added) /\ added.results = results
    <3>1. CASE l \in executed
      <4>1. added = [old EXCEPT !.results = results]
        BY <2>4, <2>5, <2>6, <3>1
      <4> HIDE DEF old, added
      <4>2. old = [results |-> old.results, events |-> old.events, uptime |-> old.uptime, buckets |-> old.buckets]
        BY <2>3 DEF IsRow
      <4>3. added = [results |-> results, events |-> old.events, uptime |-> old.uptime, buckets |-> old.buckets]
        BY <4>1, <4>2
      <4> QED
        BY <4>3 DEF IsRow
    <3>2. CASE l \notin executed
      BY <2>3, <2>4, <2>6, <3>2
    <3> QED
      BY <3>1, <3>2
  <2> HIDE DEF old, added
  <2>8. linked.results = LinkedTo(added, kept)
    <3>1. added = [results |-> added.results, events |-> added.events, uptime |-> added.uptime, buckets |-> added.buckets]
      BY <2>7 DEF IsRow
    <3> QED
      BY <3>1
  <2> HIDE DEF linked
  <2>9. PICK m \in Nat, b \in Nat : m = Len(results) /\ b = Len(before)
    BY LenProperties
  <2>10. \A i \in 1..b : before[i] \in Results /\ before[i].id \in Nat /\ before[i].id <= n /\ IsOneOf(before[i].id, ids)
    <3> TAKE i \in 1..b
    <3>1. before[i] \in Results /\ IsOneOf(before[i].id, ids)
      BY <2>4, <2>9, ElementOfSeq
    <3>2. before[i].id <= n
      BY <1>4, <3>1 DEF IsOneOf
    <3>3. before[i].id \in Nat
      BY <3>1 DEF Results
    <3> QED
      BY <3>1, <3>2, <3>3
  <2>11. \A i \in 1..m : \/ i \in 1..b /\ results[i] = before[i]
                         \/ i = b + 1 /\ m = b + 1 /\ results[i] = new
    <3>1. CASE l \in executed
      <4>1. /\ Len(Append(before, new)) = Len(before) + 1
            /\ \A i \in 1..(Len(before) + 1) : Append(before, new)[i] = IF i <= Len(before) THEN before[i] ELSE new
        BY AppendProperties
      <4>2. m = b + 1 /\ \A i \in 1..m : results[i] = IF i <= b THEN before[i] ELSE new
        BY <2>6, <2>9, <3>1, <4>1
      <4> QED
        BY <4>2
    <3>2. CASE l \notin executed
      BY <2>6, <2>9, <3>2
    <3> QED
      BY <3>1, <3>2
  <2>12. new.id = n + 1
    BY <2>5
  <2>13. \A i \in 1..m : results[i].id \in Nat /\ (IsOneOf(results[i].id, ids) \/ results[i].id = n + 1)
    <3> TAKE i \in 1..m
    <3>1. CASE i \in 1..b /\ results[i] = before[i]
      BY <2>10, <3>1
    <3>2. CASE i = b + 1 /\ m = b + 1 /\ results[i] = new
      BY <2>12, <3>2
    <3> QED
      BY <2>11, <3>1, <3>2
  <2>14. \A i, j \in 1..m : i < j => results[i].id < results[j].id
    <3> TAKE i, j \in 1..m
    <3> HAVE i < j
    <3>1. i \in 1..b /\ results[i] = before[i]
      BY <2>11
    <3>2. CASE j \in 1..b /\ results[j] = before[j]
      BY <2>4, <2>9, <3>1, <3>2 DEF InOrder
    <3>3. CASE results[j] = new
      BY <2>10, <2>12, <3>1, <3>3
    <3> QED
      BY <2>11, <3>2, <3>3
  <2>15. InOrder(results)
    BY <2>9, <2>14 DEF InOrder
  <2>16. \A i, j \in 1..Len(results) : i < j /\ IsOneOf(results[i].id, kept) => IsOneOf(results[j].id, kept)
    BY <1>5, <2>9, <2>13, <2>14 DEF LaterStay
  <2>17. LinkedResults(LinkedTo(added, kept), kept)
    BY <1>5, <2>7, <2>15, <2>16, LinkedAreLinked
  <2> QED
    BY <2>2, <2>8, <2>17
<1>7. SuiteInv' <=> /\ Ascending(suite') /\ \A i \in 1..Len(suite') : suite'[i] <= inserts'
                    /\ \A k \in SuiteKeys : data'[k] # None => LinkedResults(data'[k].results, suite')
  BY DEF SuiteInv
<1> QED
  BY <1>3, <1>5, <1>6, <1>7

\* A start deletes the results of a suite that is not configured any more with those of its endpoints.
LEMMA LoadKeepsTheSuite ==
    ASSUME NoneIsNoRow, StoreInv, SuiteInv, NEW keys \in SUBSET Keys, Load(keys)
    PROVE  SuiteInv'
<1>1. /\ inserts' = inserts /\ suite' = IF SuiteKeys \subseteq keys THEN suite ELSE <<>>
      /\ data' = [k \in Keys |->
            IF k \notin keys \/ data[k] = None THEN None
            ELSE IF k \in SuiteKeys /\ ~SuiteKeys \subseteq keys THEN [data[k] EXCEPT !.results = <<>>]
            ELSE data[k]]
  BY DEF Load, bounds
<1>2. \A k \in SuiteKeys : k \in Keys
  BY ClientsAre
<1>3. CASE SuiteKeys \subseteq keys
  <2>1. suite' = suite
    BY <1>1, <1>3
  <2>2. \A k \in SuiteKeys : data'[k] = data[k] \/ data'[k] = None
    BY <1>1, <1>2, <1>3
  <2> QED
    BY <1>1, <2>1, <2>2, SuiteAlone
<1>4. CASE ~(SuiteKeys \subseteq keys)
  <2>1. suite' = <<>>
    BY <1>1, <1>4
  <2>2. ASSUME NEW k \in SuiteKeys, data'[k] # None PROVE LinkedResults(data'[k].results, <<>>)
    <3>1. PICK row : row = data[k]
      OBVIOUS
    <3>2. data'[k] = [row EXCEPT !.results = <<>>] /\ row # None
      BY <1>1, <1>2, <1>4, <2>2, <3>1
    <3>3. row = [results |-> row.results, events |-> row.events, uptime |-> row.uptime, buckets |-> row.buckets]
      BY <3>1, <3>2 DEF StoreInv, SuiteRow, IsRow
    <3>4. data'[k].results = <<>>
      BY <3>2, <3>3
    <3>5. LinkedResults(<<>>, <<>>)
      BY DEF LinkedResults, InOrder
    <3> QED
      BY <3>4, <3>5
  <2>3. SuiteInv' <=> /\ Ascending(suite') /\ \A i \in 1..Len(suite') : suite'[i] <= inserts'
                      /\ \A k \in SuiteKeys : data'[k] # None => LinkedResults(data'[k].results, suite')
    BY DEF SuiteInv
  <2>4. Ascending(<<>>) /\ \A i \in 1..Len(<<>>) : <<>>[i] <= inserts'
    BY DEF Ascending
  <2> QED
    BY <2>1, <2>2, <2>3, <2>4
<1> QED
  BY <1>3, <1>4

\* The clients that work on endpoints, and time, leave the suite alone.
LEMMA OthersKeepTheSuite ==
    ASSUME StoreInv, SuiteInv,
           \/ \E k \in EndpointKeys :
                 BeginInsert(k) \/ RefreshCache(k) \/ CommitInsert(k) \/ CommitInsertFails(k) \/ InsertBuckets(k)
                    \/ InsertBucketsFails(k)
           \/ \E k \in Keys : BeginRead(k) \/ Expire(k) \/ Delete(k)
           \/ \E k, l \in EndpointKeys : k # l /\ Rename(k, l)
           \/ ReadRows \/ FillCache \/ EndRead \/ WipeCache \/ Tick \/ UNCHANGED vars
    PROVE  SuiteInv'
<1>1. DOMAIN data = Keys /\ \A k \in SuiteKeys : k \in Keys /\ k \notin EndpointKeys
  BY ClientsAre DEF StoreInv, Typed, EndpointKeys
<1>2. suite' = suite
  BY DEF BeginInsert, RefreshCache, CommitInsert, CommitInsertFails, InsertBuckets, InsertBucketsFails, BeginRead, Expire,
         Delete, Rename, ReadRows, FillCache, EndRead, WipeCache, Tick, vars, rows
<1>3. inserts' = inserts \/ inserts' = inserts + 1
  BY DEF BeginInsert, RefreshCache, CommitInsert, CommitInsertFails, InsertBuckets, InsertBucketsFails, BeginRead, Expire,
         Delete, Rename, ReadRows, FillCache, EndRead, WipeCache, Tick, vars, bounds
<1>4. \A e \in SuiteKeys : data'[e] = data[e] \/ data'[e] = None
  <2> TAKE e \in SuiteKeys
  <2>1. CASE \E k \in EndpointKeys :
                BeginInsert(k) \/ RefreshCache(k) \/ CommitInsert(k) \/ CommitInsertFails(k) \/ InsertBuckets(k)
                   \/ InsertBucketsFails(k)
    <3>1. PICK k \in EndpointKeys :
             BeginInsert(k) \/ RefreshCache(k) \/ CommitInsert(k) \/ CommitInsertFails(k) \/ InsertBuckets(k)
                \/ InsertBucketsFails(k)
      BY <2>1
    <3>2. data' = data \/ \E row : data' = [data EXCEPT ![k] = row]
      BY <3>1 DEF BeginInsert, RefreshCache, CommitInsert, CommitInsertFails, InsertBuckets, InsertBucketsFails, rows
    <3> QED
      BY <1>1, <3>2
  <2>2. CASE \E k \in Keys : BeginRead(k) \/ Expire(k)
    BY <2>2 DEF BeginRead, Expire, rows
  <2>3. CASE \E k \in Keys : Delete(k)
    BY <1>1, <2>3 DEF Delete
  <2>4. CASE \E k, l \in EndpointKeys : k # l /\ Rename(k, l)
    <3>1. PICK k \in EndpointKeys, l \in EndpointKeys : data' = [data EXCEPT ![l] = data[k], ![k] = None]
      BY <2>4 DEF Rename
    <3> QED
      BY <1>1, <3>1
  <2>5. CASE ReadRows \/ FillCache \/ EndRead \/ WipeCache \/ Tick \/ UNCHANGED vars
    BY <2>5 DEF ReadRows, FillCache, EndRead, WipeCache, Tick, vars, rows
  <2> QED
    BY <2>1, <2>2, <2>3, <2>4, <2>5
<1> QED
  BY <1>2, <1>3, <1>4, SuiteAlone

\* SuiteInv is an invariant.
LEMMA SuiteInvariance == ASSUME NoneIsNoRow PROVE Spec => []SuiteInv
<1>1. Init => SuiteInv
  <2> SUFFICES ASSUME Init PROVE SuiteInv
    OBVIOUS
  <2>1. suite = <<>> /\ \A k \in SuiteKeys : data[k] = None
    BY ClientsAre DEF Init
  <2> QED
    BY <2>1 DEF SuiteInv, Ascending
<1>2. ASSUME StoreInv, SuiteInv, [Next]_vars PROVE SuiteInv'
  <2>1. ASSUME NEW executed \in SUBSET SuiteKeys, InsertSuiteResult(executed) PROVE SuiteInv'
    BY <1>2, <2>1, InsertSuiteResultLinks
  <2>2. ASSUME NEW keys \in SUBSET Keys, Load(keys) PROVE SuiteInv'
    BY <1>2, <2>2, LoadKeepsTheSuite
  <2>3. CASE \/ \E k \in EndpointKeys :
                   BeginInsert(k) \/ RefreshCache(k) \/ CommitInsert(k) \/ CommitInsertFails(k) \/ InsertBuckets(k)
                      \/ InsertBucketsFails(k)
             \/ \E k \in Keys : BeginRead(k) \/ Expire(k) \/ Delete(k)
             \/ \E k, l \in EndpointKeys : k # l /\ Rename(k, l)
             \/ ReadRows \/ FillCache \/ EndRead \/ WipeCache \/ Tick \/ UNCHANGED vars
    BY <1>2, <2>3, OthersKeepTheSuite
  <2> QED
    BY <1>2, <2>1, <2>2, <2>3 DEF Next
<1> QED
  BY <1>1, <1>2, StoreInvariance, PTL DEF Spec

-----------------------------------------------------------------------------
(* Theorems *)

\* The rows, the cache, the transactions and the counters have their types: no transaction without one of the
\* connections of the pool (NewStore), no page in the cache that is not the page of an endpoint.
THEOREM StoreTypes == ASSUME NoneIsNoRow PROVE Spec => []TypeOK
<1>1. StoreInv => TypeOK
  <2> SUFFICES ASSUME StoreInv PROVE TypeOK
    OBVIOUS
  <2>1. ASSUME NEW row, IsRow(row) PROVE DOMAIN row = DOMAIN NewRow
    BY <2>1 DEF IsRow, NewRow
  <2>2. \A k \in Keys : data[k] # None => IsRow(data[k])
    BY ClientsAre DEF StoreInv, EndpointInv, EndpointRow, SuiteRow
  <2>3. \A k \in Keys : cache[k] # None => DOMAIN cache[k] = {"results", "events"}
    BY DEF StoreInv, Typed, CachesTyped, IsStatus
  <2>4. DOMAIN open \subseteq Clients /\ Cardinality(DOMAIN open) <= Connections
    BY DEF StoreInv, Typed, Connected
  <2> QED
    BY <2>1, <2>2, <2>3, <2>4 DEF TypeOK, StoreInv, Typed, ClientsTyped, Counted, Labels,
       Losses, Unchecked
<1> QED
  BY <1>1, StoreInvariance, PTL

\* Neither the results nor the events of an endpoint grow beyond their maximum and the slack, but for the rows that each
\* failed statement may leave, whatever the order of insertions, failures, renames and removals
\* (insertEndpointResultWithoutRetry, deleteOldEndpointResults).
THEOREM EndpointsAlwaysBounded == ASSUME NoneIsNoRow PROVE Spec => []EndpointsBounded
<1>1. StoreInv => EndpointsBounded
  <2> SUFFICES ASSUME StoreInv, NEW k \in EndpointKeys, data[k] # None
               PROVE  /\ Len(data[k].results) <= MaxResults + Slack + failures
                      /\ Len(data[k].events) <= MaxEvents + Slack + 1 + 2 * failures
    BY DEF EndpointsBounded
  <2>1. EndpointRow(data[k], failures, Miscounted(k))
    BY DEF StoreInv, EndpointInv
  <2> QED
    BY <2>1 DEF EndpointRow
<1> QED
  BY <1>1, StoreInvariance, PTL

\* The types, the bounds and the links together: neither results nor events grow beyond their limits and what failed
\* statements leave, those of a suite and of its endpoints included, and every result of an endpoint of a suite belongs to
\* a result of the suite that is still there, whatever is inserted, deleted and loaded in between (InsertSuiteResult,
\* deleteOldSuiteResults).
THEOREM StoreStaysConsistent == ASSUME NoneIsNoRow PROVE Spec => []Consistent
<1>1. StoreInv /\ EndpointsBounded /\ SuiteInv => RowsBounded /\ SuiteResultsLinked
  <2> SUFFICES ASSUME StoreInv, EndpointsBounded, SuiteInv PROVE RowsBounded /\ SuiteResultsLinked
    OBVIOUS
  <2>1. suite \in Seq(Nat) /\ Len(suite) <= MaxResults + Slack
    BY DEF StoreInv, Typed, Counted
  <2>2. PICK limit \in Nat, f \in Nat : limit = MaxResults + Slack /\ f = failures
    BY StoreAssumption DEF StoreInv, Typed, Counted, Workload
  <2>3. ASSUME NEW k \in SuiteKeys, data[k] # None
        PROVE  /\ Len(data[k].results) <= limit + f /\ Len(data[k].events) <= MaxEvents + Slack + 1 + 2 * f
               /\ \A i \in 1..Len(data[k].results) : IsOneOf(data[k].results[i].id, suite)
    <3>1. LinkedResults(data[k].results, suite) /\ data[k].events = <<>>
      BY <2>3 DEF StoreInv, SuiteInv, SuiteRow
    <3>2. Len(data[k].results) <= Len(suite)
      BY <2>1, <3>1, NoMoreThanTheSuite
    <3>3. Len(data[k].results) \in Nat /\ Len(suite) \in Nat
      BY <2>1, <3>1, LenProperties DEF LinkedResults
    <3>4. PICK n \in Nat, m \in Nat : n = Len(data[k].results) /\ m = Len(suite)
      BY <3>3
    <3>5. n <= limit + f
      BY <2>1, <2>2, <3>2, <3>4
    <3>6. Len(data[k].events) = 0 /\ 0 <= MaxEvents + Slack + 1 + 2 * f
      BY <3>1, StoreAssumption
    <3> QED
      BY <3>1, <3>4, <3>5, <3>6 DEF LinkedResults
  <2>4. \A k \in Keys : k \in EndpointKeys \/ k \in SuiteKeys
    BY DEF EndpointKeys
  <2> QED
    BY <2>1, <2>2, <2>3, <2>4 DEF RowsBounded, SuiteResultsLinked, EndpointsBounded, IsOneOf
<1>2. TypeOK /\ RowsBounded /\ SuiteResultsLinked => Consistent
  BY DEF Consistent
<1> QED
  BY <1>1, <1>2, StoreTypes, EndpointsAlwaysBounded, StoreInvariance, SuiteInvariance, PTL

\* The events of an endpoint alternate after a START that is only ever the first one, although pending results come in
\* between, old events are removed and any statement fails, unless a count of the events failed, after which a START may
\* come later. The last one is the health of the last result that is not pending, unless the insertion of an event
\* failed, or the STARTs of counts that failed pushed it out (insertEndpointResultWithoutRetry,
\* getLastEndpointHealthEventType).
THEOREM EventsAlwaysTell == ASSUME NoneIsNoRow PROVE Spec => []EventsTell
<1>1. StoreInv => EventsAlternate
  <2> SUFFICES ASSUME StoreInv, NEW k \in Keys, data[k] # None PROVE Alternates(data[k].events, Miscounted(k))
    BY DEF EventsAlternate, Alternates, Miscounted
  <2>1. CASE k \in EndpointKeys
    BY <2>1 DEF StoreInv, EndpointInv, EndpointRow
  <2>2. CASE k \in SuiteKeys
    <3>1. data[k].events = <<>> /\ Len(<<>>) = 0
      BY <2>2 DEF StoreInv, SuiteRow
    <3> QED
      BY <3>1 DEF Alternates
  <2> QED
    BY <2>1, <2>2, ClientsAre
<1>2. StoreInv => LastEventIsHealth
  <2> SUFFICES ASSUME StoreInv, NEW k \in EndpointKeys, data[k] # None, lastHealth[k] # None, "event" \notin lost[k]
               PROVE  Tells(data[k].events, lastHealth[k], Miscounted(k))
    BY DEF LastEventIsHealth, Tells, OnlyStarts, Miscounted
  <2>1. EndpointInv(k)
    BY DEF StoreInv
  <2> QED
    BY <2>1 DEF EndpointInv, HealthKnown
<1>3. StoreInv => EventsTell
  BY <1>1, <1>2 DEF EventsTell
<1> QED
  BY <1>3, StoreInvariance, PTL

\* The store in memory and the SQL store show the same first page of an endpoint while they have been given the same
\* and no event was lost, whatever results were trimmed, as long as a page is no longer than what is kept: the SQL store
\* keeps some rows more than the maximum until it cleans up (ShallowCopyEndpointStatus, getEndpointStatusByKey).
THEOREM StoresAlwaysAgree ==
    ASSUME NoneIsNoRow, PageSize <= MaxResults, PageSize <= MaxEvents
    PROVE  Spec => []StoresAgree
<1>1. StoreInv => StoresAgree
  <2> SUFFICES ASSUME StoreInv, NEW k \in EndpointKeys, Comparable(k)
               PROVE  /\ data[k] = None <=> memory[k] = None
                      /\ data[k] # None => StatusOf(data[k]) = MemoryStatusOf(memory[k])
    BY DEF StoresAgree
  <2>1. /\ data[k] = None <=> memory[k] = None
        /\ data[k] # None => Follows(data[k], memory[k])
        /\ data[k] # None => EndpointRow(data[k], failures, Miscounted(k))
    BY DEF StoreInv, EndpointInv, MemoryFollows
  <2>2. data[k] # None => data[k].results \in Seq(Results) /\ data[k].events \in Seq(Events)
    BY <2>1 DEF EndpointRow
  <2> QED
    BY <2>1, <2>2, SamePages
<1> QED
  BY <1>1, StoreInvariance, PTL

\* With the single connection of SQLite, a cached page is the page the rows would give, whatever insertions, reads,
\* renames, removals and expirations come between the transaction that reads it and the one that changes it: the
\* transaction of an insertion reads the pages again before it commits, and no reader is between the rows and the cache
\* meanwhile (insertEndpointResultWithoutRetry, getEndpointStatusByKey).
THEOREM CacheAlwaysCurrent ==
    ASSUME NoneIsNoRow, Connections = 1
    PROVE  Spec => []CacheIsCurrent
<1>1. Init => CacheInv
  <2> SUFFICES ASSUME Init PROVE CacheInv
    OBVIOUS
  <2>1. pc["reader"] = "idle" /\ \A k \in EndpointKeys : cache[k] = None
    BY ClientsAre DEF Init
  <2> QED
    BY <2>1 DEF CacheInv, PageKnown, PageRead
<1>2. ASSUME StoreInv, CacheInv, [Next]_vars PROVE CacheInv'
  <2>1. ASSUME NEW k \in EndpointKeys, BeginInsert(k) PROVE CacheInv'
    BY <1>2, <2>1, BeginInsertKeepsPages
  <2>2. ASSUME NEW k \in EndpointKeys, RefreshCache(k) PROVE CacheInv'
    BY <1>2, <2>2, RefreshCacheKeepsPages
  <2>3. ASSUME NEW k \in EndpointKeys, CommitInsert(k) PROVE CacheInv'
    BY <1>2, <2>3, CommitInsertKeepsPages
  <2>4. ASSUME NEW k \in EndpointKeys, CommitInsertFails(k) PROVE CacheInv'
    BY <1>2, <2>4, CommitInsertFailsKeepsPages
  <2>5. ASSUME NEW k \in EndpointKeys, InsertBuckets(k) PROVE CacheInv'
    BY <1>2, <2>5, InsertBucketsKeepsPages
  <2>6. ASSUME NEW k \in EndpointKeys, InsertBucketsFails(k) PROVE CacheInv'
    BY <1>2, <2>6, InsertBucketsFailsKeepsPages
  <2>7. ASSUME NEW executed \in SUBSET SuiteKeys, InsertSuiteResult(executed) PROVE CacheInv'
    BY <1>2, <2>7, OthersKeepPages
  <2>8. ASSUME NEW k \in Keys, BeginRead(k) PROVE CacheInv'
    BY <1>2, <2>8, ReaderKeepsPages
  <2>9. ASSUME NEW k \in Keys, Expire(k) PROVE CacheInv'
    BY <1>2, <2>9, OthersKeepPages
  <2>10. ASSUME NEW k \in Keys, Delete(k) PROVE CacheInv'
    BY <1>2, <2>10, DeleteKeepsPages
  <2>11. ASSUME NEW k \in EndpointKeys, NEW l \in EndpointKeys, k # l, Rename(k, l) PROVE CacheInv'
    BY <1>2, <2>11, RenameKeepsPages
  <2>12. CASE ReadRows \/ FillCache \/ EndRead
    BY <1>2, <2>12, ReaderKeepsPages
  <2>13. ASSUME NEW keys \in SUBSET Keys, Load(keys) PROVE CacheInv'
    BY <1>2, <2>13, OthersKeepPages
  <2>14. CASE WipeCache
    BY <1>2, <2>14, WipeCacheKeepsPages
  <2>15. CASE Tick \/ UNCHANGED vars
    BY <1>2, <2>15, OthersKeepPages
  <2> QED
    BY <1>2, <2>1, <2>2, <2>3, <2>4, <2>5, <2>6, <2>7, <2>8, <2>9, <2>10, <2>11, <2>12, <2>13, <2>14, <2>15 DEF Next
<1>3. CacheInv => CacheIsCurrent
  BY DEF CacheInv, CacheIsCurrent, PageKnown
<1> QED
  BY <1>1, <1>2, <1>3, StoreInvariance, PTL DEF Spec

-----------------------------------------------------------------------------
(* The status pages *)

\* What a request captured: what was published when it was let in
Captured == [page : Pages, revision : Nat, generation : Nat, limit : Nat]
Tales == [life : Nat, count : Nat]
Wants == Endpoints \cup {WholePage}

BeforeLetIn == {"verify", "queued", "checking"}
WithKey == {"join", "waiting", "slot", "assembling", "assembled"}
StagesOfRequests == {"idle", "find"} \cup BeforeLetIn \cup WithKey

IsRequest(x) ==
    x = [stage |-> x.stage, wants |-> x.wants, credential |-> x.credential, published |-> x.published, time |-> x.time,
         key |-> x.key, asOf |-> x.asOf, payload |-> x.payload]

VisitTyped ==
    /\ visit \in Visit
    /\ stored \in Pages \cup {Unset}
    /\ snapshot \in [served : BOOLEAN, page : Pages \cup {Unset}, limit : Nat, managed : Pages \cup {Unset},
                     revision : Nat, generation : Nat]
    /\ snapshot.revision = revisions
    /\ generations \in Nat /\ clock \in Nat

\* The results of an endpoint that were published are counted by its sequence, which is forgotten with them.
EndpointsTyped ==
    /\ existing \subseteq Endpoints /\ unpublished \subseteq existing
    /\ recorded \in [Endpoints -> Tales] /\ \A e \in unpublished : recorded[e].count > 0
    /\ sequence \in Nat /\ sequences \in [Endpoints -> 0..sequence]
    /\ \A e \in Endpoints : sequences[e] = 0 => Told(e).count = 0

AtLeast(told, asOf) == told.life > asOf.life \/ (told.life = asOf.life /\ told.count >= asOf.count)

\* Of an endpoint: the sequence it had when it was asked for, when it has results
OfEndpoint(wants, number) == wants # WholePage /\ number > 0

\* A payload of what was captured
PayloadOf(payload, published) ==
    payload.page = published.page /\ Cardinality(DOMAIN payload.data) <= published.limit

\* What a request knows once it has the key of its payload
KeyInv(x) ==
    /\ \E number \in 0..sequence :
          /\ x.key = <<x.published.revision, x.published.generation, x.wants, number>>
          /\ OfEndpoint(x.wants, number) /\ number = sequences[x.wants] => x.asOf = Told(x.wants)
          /\ number = 0 /\ x.wants # WholePage => x.asOf.count = 0
    /\ x.wants # WholePage =>
          /\ x.published.limit > 0 /\ x.asOf \in Tales
          /\ AtLeast(recorded[x.wants], x.asOf)
    /\ x.stage = "assembled" =>
          /\ PayloadOf(x.payload, x.published)
          /\ x.wants # WholePage => AtLeast(x.payload.data[x.wants], x.asOf)

\* A request under way captured something that was published, not later than what is published now, and is let in by
\* the login of what it captured.
RequestInv(x) ==
    /\ IsRequest(x) /\ x.stage \in StagesOfRequests
    /\ x.stage # "idle" =>
          /\ x.wants \in Wants /\ x.published \in Captured /\ x.published.revision <= revisions
          /\ x.published.revision = revisions => x.published = Published
          /\ x.stage \notin BeforeLetIn => x.published.page.login \in {Unset, x.credential}
          /\ x.stage \in {"queued", "checking"} => x.time \in 0..clock
          /\ x.stage \in WithKey => KeyInv(x)

\* Two requests agree: a revision stands for what was published with it, the sequence of an endpoint for its results.
Agree(x, y) ==
    x.stage # "idle" /\ y.stage # "idle" =>
        /\ x.published.revision = y.published.revision => x.published = y.published
        /\ x.stage \in WithKey /\ y.stage \in WithKey /\ x.wants = y.wants /\ x.key[4] = y.key[4]
              /\ OfEndpoint(x.wants, x.key[4]) => x.asOf = y.asOf

\* A payload under a key fits whoever asks for that key, and whoever may ask for it.
PayloadFits(key, payload, x) ==
    x.stage # "idle" =>
        /\ key[1] = x.published.revision => PayloadOf(payload, x.published)
        /\ x.stage \in WithKey /\ key[3] = x.wants /\ key[4] = x.key[4] /\ OfEndpoint(key[3], key[4]) =>
              AtLeast(payload.data[x.wants], x.asOf)

KeyTyped(key) ==
    \E revision, load \in Nat, wants \in Wants, number \in 0..sequence :
        key = <<revision, load, wants, number>>

PayloadInv(key, payload) ==
    /\ key[1] = revisions => PayloadOf(payload, Published)
    /\ OfEndpoint(key[3], key[4]) /\ key[4] = sequences[key[3]] => AtLeast(payload.data[key[3]], Told(key[3]))

PayloadsInv ==
    \A key \in DOMAIN payloads :
        /\ KeyTyped(key)
        /\ payloads[key].payload # Unavailable =>
              /\ PayloadInv(key, payloads[key].payload)
              /\ \A r \in Requests : PayloadFits(key, payloads[key].payload, request[r])

\* The failures that are counted are those of the window that the first of them began.
Refused(time) == {i \in 1..Len(refusals) : refusals[i] >= time}
FailuresInv ==
    /\ tally \in [count : Nat, expires : Nat] /\ refusals \in Seq(Nat)
    /\ tally.expires - FailureWindow <= clock
    /\ tally.count <= Cardinality(Refused(tally.expires - FailureWindow))

RequestsInv ==
    /\ DOMAIN request = Requests
    /\ \A r \in Requests : RequestInv(request[r])
    /\ \A q, r \in Requests : Agree(request[q], request[r])

\* A verification that is remembered is one of a credential that is that of the page.
VerifiedInv == \A key \in DOMAIN verified : key[1] = key[2]

PagesInv == VisitTyped /\ EndpointsTyped /\ RequestsInv /\ PayloadsInv /\ VerifiedInv /\ FailuresInv

\* Fewer endpoints come before one than are shown: at most as many as the page may show are selected.
LEMMA SelectedAre ==
    ASSUME NEW page \in Pages, NEW limit \in Nat, existing \subseteq Endpoints
    PROVE  /\ Selected(page, limit) \subseteq existing /\ Cardinality(Selected(page, limit)) <= limit
           /\ Selected(page, limit) # {} => limit > 0
<1> DEFINE S == Shows(page)
           Before(e) == {d \in S : Place(page, d) < Place(page, e)}
           Rank(e) == Cardinality(Before(e))
<1>1. PICK featured \in Seq(Endpoints), n \in Nat :
         featured = page.featured /\ n = Len(featured) /\ DOMAIN featured = 1..n /\ \A i \in 1..n : featured[i] \in Endpoints
  <2>1. page.featured \in Seq(Endpoints)
    BY DEF Pages
  <2>2. PICK featured \in Seq(Endpoints) : featured = page.featured
    BY <2>1
  <2>3. Len(featured) \in Nat /\ DOMAIN featured = 1..Len(featured) /\ \A i \in 1..Len(featured) : featured[i] \in Endpoints
    BY LenProperties, ElementOfSeq
  <2> QED
    BY <2>2, <2>3
<1>2. /\ \A e \in Featured(page) : Place(page, e) \in 1..n /\ featured[Place(page, e)] = e
      /\ \A e \in Endpoints \ Featured(page) : Place(page, e) = n + e
  BY <1>1 DEF Featured, Place
<1>3. Endpoints \subseteq Nat \ {0} /\ IsFiniteSet(Endpoints)
  BY VisitsAssumption DEF WholePage
<1>4. S \subseteq existing /\ S \subseteq Endpoints /\ IsFiniteSet(S)
  <2>1. S \subseteq existing
    BY DEF Shows
  <2> QED
    BY <1>3, <2>1, FS_Subset
<1> HIDE DEF S
<1>5. \A e \in S : Place(page, e) \in Nat
  <2> TAKE e \in S
  <2>1. CASE e \in Featured(page)
    BY <1>2, <2>1
  <2>2. CASE e \notin Featured(page)
    <3>1. e \in Endpoints /\ e \in Nat
      BY <1>3, <1>4
    <3>2. Place(page, e) = n + e
      BY <1>2, <2>2, <3>1
    <3> QED
      BY <3>1, <3>2
  <2> QED
    BY <2>1, <2>2
<1>6. \A d, e \in S : Place(page, d) = Place(page, e) => d = e
  <2> TAKE d, e \in S
  <2>1. d \in Nat \ {0} /\ e \in Nat \ {0} /\ d \in Endpoints /\ e \in Endpoints
    BY <1>3, <1>4
  <2>2. d \in Featured(page) /\ e \in Featured(page) => (Place(page, d) = Place(page, e) => d = e)
    BY <1>2
  <2>3. d \in Featured(page) /\ e \notin Featured(page) => Place(page, d) \in 1..n /\ Place(page, e) = n + e
    BY <1>2, <2>1
  <2>4. d \notin Featured(page) /\ e \in Featured(page) => Place(page, e) \in 1..n /\ Place(page, d) = n + d
    BY <1>2, <2>1
  <2>5. d \notin Featured(page) /\ e \notin Featured(page) => Place(page, e) = n + e /\ Place(page, d) = n + d
    BY <1>2, <2>1
  <2> QED
    BY <2>1, <2>2, <2>3, <2>4, <2>5
<1>7. \A e \in S : IsFiniteSet(Before(e)) /\ Rank(e) \in Nat
  <2> TAKE e \in S
  <2>1. Before(e) \subseteq S
    OBVIOUS
  <2> QED
    BY <1>4, <2>1, FS_Subset, FS_CardinalityType
<1>8. \A d, e \in S : Place(page, d) < Place(page, e) => Rank(d) < Rank(e)
  <2> TAKE d, e \in S
  <2> HAVE Place(page, d) < Place(page, e)
  <2>1. \A c \in Before(d) : c \in Before(e)
    <3> TAKE c \in Before(d)
    <3>1. c \in S /\ Place(page, c) < Place(page, d)
      OBVIOUS
    <3>2. Place(page, c) \in Nat /\ Place(page, d) \in Nat /\ Place(page, e) \in Nat
      BY <1>5, <3>1
    <3>3. Place(page, c) < Place(page, e)
      BY <3>1, <3>2
    <3> QED
      BY <3>1, <3>3
  <2>2. d \in Before(e) /\ d \notin Before(d)
    BY <1>5
  <2> HIDE DEF Before
  <2>3. Before(d) \cup {d} \subseteq Before(e)
    BY <2>1, <2>2
  <2>4. Cardinality(Before(d) \cup {d}) = Cardinality(Before(d)) + 1
    BY <1>7, <2>2, FS_AddElement
  <2>5. Cardinality(Before(d) \cup {d}) <= Cardinality(Before(e))
    BY <1>7, <2>3, FS_Subset
  <2> QED
    BY <1>7, <2>4, <2>5
<1>9. Selected(page, limit) = {e \in S : Rank(e) < limit}
  BY DEF Selected, S
<1> HIDE DEF Rank, Before
<1> DEFINE T == {e \in S : Rank(e) < limit}
           rank == [e \in T |-> Rank(e)]
<1>10. rank \in Injection(T, 0..(limit - 1))
  <2>1. \A e \in T : Rank(e) \in 0..(limit - 1)
    BY <1>7
  <2>2. \A d, e \in T : Rank(d) = Rank(e) => d = e
    <3> TAKE d, e \in T
    <3>1. d \in S /\ e \in S
      OBVIOUS
    <3>2. Place(page, d) \in Nat /\ Place(page, e) \in Nat /\ Rank(d) \in Nat /\ Rank(e) \in Nat
      BY <1>5, <1>7, <3>1
    <3>3. Place(page, d) < Place(page, e) \/ Place(page, e) < Place(page, d) \/ Place(page, d) = Place(page, e)
      BY <3>2
    <3> QED
      BY <1>6, <1>8, <3>1, <3>2, <3>3
  <2> HIDE DEF T
  <2> QED
    BY <2>1, <2>2 DEF Injection, IsInjective
<1>11. IsFiniteSet(0..(limit - 1)) /\ Cardinality(0..(limit - 1)) = limit
  <2>1. 0 \in Int /\ limit - 1 \in Int
    OBVIOUS
  <2>2. IsFiniteSet(0..(limit - 1)) /\ Cardinality(0..(limit - 1)) = IF 0 > limit - 1 THEN 0 ELSE (limit - 1) - 0 + 1
    BY <2>1, FS_Interval
  <2> QED
    BY ONLY <2>2, limit \in Nat
<1>12. T # {} => limit > 0
  BY <1>7
<1>13. T \subseteq S
  OBVIOUS
<1> HIDE DEF T, rank
<1>14. Cardinality(T) <= Cardinality(0..(limit - 1))
  BY <1>10, <1>11, FS_Injection
<1> QED
  BY <1>4, <1>9, <1>11, <1>12, <1>13, <1>14 DEF T

\* What is published is a page that is enabled, with the revision in use.
LEMMA PublishedIs ==
    ASSUME VisitTyped, Published # Unset
    PROVE  Published \in Captured /\ Published.revision = revisions
<1> DEFINE page == IF snapshot.page # Unset THEN snapshot.page ELSE snapshot.managed
<1>1. /\ snapshot.page \in Pages \cup {Unset} /\ snapshot.managed \in Pages \cup {Unset} /\ snapshot.limit \in Nat
      /\ snapshot.revision \in Nat /\ snapshot.generation \in Nat /\ snapshot.revision = revisions
  BY DEF VisitTyped
<1>2. /\ page # Unset
      /\ Published = [page |-> page, revision |-> snapshot.revision, generation |-> snapshot.generation, limit |-> snapshot.limit]
  BY DEF Published
<1>3. page \in Pages
  BY <1>1, <1>2
<1> HIDE DEF page
<1> QED
  BY <1>1, <1>2, <1>3 DEF Captured

\* Agreement is mutual.
LEMMA AgreeBoth ==
    ASSUME NEW x, NEW y, Agree(x, y)
    PROVE  Agree(y, x)
  BY DEF Agree

\* A request agrees with itself.
LEMMA AgreeAlone == \A x : Agree(x, x)
  BY DEF Agree

-----------------------------------------------------------------------------
(* Steps of the requests, which change neither what is published nor the endpoints *)

PagesStay == snapshot' = snapshot /\ revisions' = revisions /\ stored' = stored /\ generations' = generations
EndpointsStay ==
    /\ existing' = existing /\ recorded' = recorded /\ unpublished' = unpublished /\ sequence' = sequence
    /\ sequences' = sequences

\* The same is published, and told of the endpoints.
LEMMA SameViews ==
    ASSUME PagesStay, EndpointsStay
    PROVE  Published' = Published /\ \A e : Told(e)' = Told(e)
  BY DEF PagesStay, EndpointsStay, Published, Told

\* What is known of a request does not depend on anything else, but for the time.
LEMMA SameRequest ==
    ASSUME PagesStay, EndpointsStay, clock \in Nat, clock' \in Nat, clock <= clock', NEW x, RequestInv(x)
    PROVE  RequestInv(x)'
<1>1. KeyInv(x) => KeyInv(x)'
  BY SameViews DEF KeyInv, EndpointsStay
<1>2. x.time \in 0..clock => x.time \in 0..clock'
  OBVIOUS
<1> QED
  BY <1>1, <1>2, SameViews DEF RequestInv, PagesStay

\* What is known of a payload does not depend on the requests.
LEMMA SamePayload ==
    ASSUME PagesStay, EndpointsStay, NEW key, NEW payload
    PROVE  /\ KeyTyped(key) => KeyTyped(key)'
           /\ PayloadInv(key, payload) => PayloadInv(key, payload)'
  BY SameViews DEF KeyTyped, PayloadInv, PagesStay, EndpointsStay

\* A payload that a request leaves behind is one that fits whoever asks for its key.
FittingPayload(key, payload) ==
    /\ KeyTyped(key)
    /\ payload # Unavailable =>
          PayloadInv(key, payload) /\ \A r \in Requests : PayloadFits(key, payload, request[r])

\* A step after which the requests and the payloads still are as they should be
LEMMA RequestsStep ==
    ASSUME PagesStay, EndpointsStay, clock \in Nat, clock' \in Nat, clock <= clock',
           NEW new, request' = new, DOMAIN new = Requests, \A r \in Requests : RequestInv(new[r]),
           \A q, r \in Requests : Agree(new[q], new[r]),
           NEW cached, payloads' = cached,
           \A key \in DOMAIN cached :
              /\ KeyTyped(key)
              /\ cached[key].payload # Unavailable =>
                    /\ PayloadInv(key, cached[key].payload)
                    /\ \A r \in Requests : PayloadFits(key, cached[key].payload, new[r])
    PROVE  RequestsInv' /\ PayloadsInv'
<1>1. \A r \in Requests : RequestInv(new[r])'
  <2> TAKE r \in Requests
  <2>1. PICK x : x = new[r]
    OBVIOUS
  <2>2. RequestInv(x)
    BY <2>1
  <2>3. RequestInv(x)'
    BY <2>2, SameRequest
  <2> QED
    BY <2>1, <2>3
<1>2. RequestsInv'
  <2>1. RequestsInv' <=> /\ DOMAIN request' = Requests
                         /\ \A r \in Requests : RequestInv(request[r])'
                         /\ \A q, r \in Requests : Agree(request[q], request[r])'
    BY DEF RequestsInv
  <2>2. \A r \in Requests : RequestInv(request[r])'
    <3> TAKE r \in Requests
    <3>1. RequestInv(new[r])'
      BY <1>1
    <3> QED
      BY <3>1 DEF RequestInv, KeyInv
  <2>3. \A q, r \in Requests : Agree(request[q], request[r])'
    BY DEF Agree
  <2> QED
    BY <2>1, <2>2, <2>3
<1>3. PayloadsInv'
  <2>1. ASSUME NEW key \in DOMAIN cached
        PROVE  /\ KeyTyped(key)'
               /\ cached[key].payload # Unavailable =>
                     /\ PayloadInv(key, cached[key].payload)'
                     /\ \A r \in Requests : PayloadFits(key, cached[key].payload, new[r])
    <3>1. PICK payload : payload = cached[key].payload
      OBVIOUS
    <3>2. KeyTyped(key)' /\ (PayloadInv(key, payload) => PayloadInv(key, payload)')
      BY SamePayload
    <3> QED
      BY <3>1, <3>2
  <2>2. ASSUME NEW key \in DOMAIN cached, cached[key].payload # Unavailable, NEW r \in Requests
        PROVE  PayloadFits(key, payloads[key].payload, request[r])'
    <3>1. PayloadFits(key, cached[key].payload, new[r])
      BY <2>1, <2>2
    <3> QED
      BY <3>1 DEF PayloadFits, PayloadOf
  <2>3. ASSUME NEW key \in DOMAIN cached, cached[key].payload # Unavailable
        PROVE  PayloadInv(key, payloads[key].payload)'
    <3>1. PayloadInv(key, cached[key].payload)'
      BY <2>1, <2>3
    <3> QED
      BY <3>1 DEF PayloadInv, PayloadOf
  <2> QED
    BY <2>1, <2>2, <2>3 DEF PayloadsInv
<1> QED
  BY <1>2, <1>3

\* A request that is not under way agrees with all others, and every payload fits it.
LEMMA NoRequestAgrees ==
    /\ RequestInv(NoRequest)
    /\ \A x : Agree(x, NoRequest) /\ Agree(NoRequest, x)
    /\ \A key, payload : PayloadFits(key, payload, NoRequest)
  BY DEF NoRequest, RequestInv, IsRequest, StagesOfRequests, Agree, PayloadFits

\* One request goes on.
LEMMA OneMoves ==
    ASSUME RequestsInv, PayloadsInv, PagesStay, EndpointsStay, clock \in Nat, clock' = clock, payloads' = payloads,
           NEW r \in Requests, NEW x, request' = [request EXCEPT ![r] = x], RequestInv(x),
           \A q \in Requests : Agree(request[q], x),
           \A key \in DOMAIN payloads :
              payloads[key].payload # Unavailable => PayloadFits(key, payloads[key].payload, x)
    PROVE  RequestsInv' /\ PayloadsInv'
<1>1. PICK new, cached : new = [request EXCEPT ![r] = x] /\ cached = payloads
  OBVIOUS
<1>2. DOMAIN new = Requests /\ \A q \in Requests : new[q] = IF q = r THEN x ELSE request[q]
  BY <1>1 DEF RequestsInv
<1>3. \A q \in Requests : RequestInv(new[q])
  BY <1>2 DEF RequestsInv
<1>4. \A p, q \in Requests : Agree(new[p], new[q])
  <2> TAKE p, q \in Requests
  <2>1. Agree(request[p], request[q]) /\ Agree(request[p], x) /\ Agree(x, request[q]) /\ Agree(x, x)
    BY AgreeBoth, AgreeAlone DEF RequestsInv
  <2> QED
    BY <1>2, <2>1
<1>5. ASSUME NEW key \in DOMAIN cached
      PROVE  /\ KeyTyped(key)
             /\ cached[key].payload # Unavailable =>
                   /\ PayloadInv(key, cached[key].payload)
                   /\ \A q \in Requests : PayloadFits(key, cached[key].payload, new[q])
  BY <1>1, <1>2 DEF PayloadsInv
<1>6. clock' \in Nat /\ clock <= clock' /\ request' = new /\ payloads' = cached /\ DOMAIN new = Requests
  BY <1>1, <1>2
<1> QED
  BY <1>3, <1>4, <1>5, <1>6, RequestsStep

\* Some requests end, and one of them may leave a payload behind.
LEMMA SomeEnd ==
    ASSUME RequestsInv, PayloadsInv, PagesStay, EndpointsStay, clock \in Nat, clock' = clock,
           NEW ended, request' = [q \in Requests |-> IF q \in ended THEN NoRequest ELSE request[q]],
           \/ payloads' = payloads
           \/ \E key, payload, expires :
                 /\ FittingPayload(key, payload)
                 /\ payloads' = With(payloads, key, [payload |-> payload, expires |-> expires])
    PROVE  RequestsInv' /\ PayloadsInv'
<1>1. PICK new, cached : new = [q \in Requests |-> IF q \in ended THEN NoRequest ELSE request[q]] /\ cached = payloads'
  OBVIOUS
<1>2. DOMAIN new = Requests /\ \A q \in Requests : new[q] = NoRequest \/ new[q] = request[q]
  BY <1>1
<1>3. \A q \in Requests : RequestInv(new[q])
  BY <1>2, NoRequestAgrees DEF RequestsInv
<1>4. \A p, q \in Requests : Agree(new[p], new[q])
  BY <1>2, NoRequestAgrees DEF RequestsInv
<1>5. ASSUME NEW key \in DOMAIN cached PROVE FittingPayload(key, cached[key].payload)
  <2>1. key \in DOMAIN payloads => FittingPayload(key, payloads[key].payload)
    BY DEF PayloadsInv, FittingPayload
  <2>2. CASE payloads' = payloads
    BY <1>1, <2>1, <2>2
  <2>3. CASE payloads' # payloads
    <3>1. PICK k, payload, expires :
             FittingPayload(k, payload) /\ cached = With(payloads, k, [payload |-> payload, expires |-> expires])
      BY <1>1, <2>3
    <3>2. CASE key = k
      <4>1. cached[key] = [payload |-> payload, expires |-> expires]
        BY <3>1, <3>2 DEF With
      <4>2. cached[key].payload = payload
        BY <4>1
      <4> QED
        BY <3>1, <3>2, <4>2
    <3>3. CASE key # k
      <4>1. key \in DOMAIN payloads /\ cached[key] = payloads[key]
        BY <3>1, <3>3 DEF With
      <4> QED
        BY <2>1, <4>1
    <3> QED
      BY <3>2, <3>3
  <2> QED
    BY <2>2, <2>3
<1>6. ASSUME NEW key \in DOMAIN cached
      PROVE  /\ KeyTyped(key)
             /\ cached[key].payload # Unavailable =>
                   /\ PayloadInv(key, cached[key].payload)
                   /\ \A q \in Requests : PayloadFits(key, cached[key].payload, new[q])
  <2>1. FittingPayload(key, cached[key].payload)
    BY <1>5
  <2>2. KeyTyped(key) /\ (cached[key].payload # Unavailable =>
           PayloadInv(key, cached[key].payload) /\ \A q \in Requests : PayloadFits(key, cached[key].payload, request[q]))
    BY <2>1 DEF FittingPayload
  <2> QED
    BY <1>2, <2>2, NoRequestAgrees
<1> QED
  BY <1>1, <1>2, <1>3, <1>4, <1>6, RequestsStep

\* One request ends.
LEMMA OneEnds ==
    ASSUME RequestsInv, PayloadsInv, PagesStay, EndpointsStay, clock \in Nat, clock' = clock, payloads' = payloads,
           NEW r \in Requests, request' = [request EXCEPT ![r] = NoRequest]
    PROVE  RequestsInv' /\ PayloadsInv'
  BY NoRequestAgrees, OneMoves

\* A request that has its key before and after it goes on, or not yet, is the same to the others.
LEMMA SameToOthers ==
    ASSUME NEW x, NEW y, x.stage # "idle", y.wants = x.wants, y.published = x.published,
           y.stage \in WithKey => x.stage \in WithKey /\ y.key = x.key /\ y.asOf = x.asOf
    PROVE  /\ \A z : Agree(z, x) => Agree(z, y)
           /\ \A key, payload : PayloadFits(key, payload, x) => PayloadFits(key, payload, y)
  BY DEF Agree, PayloadFits

\* One request goes on with what it captured.
LEMMA GoesOnWith ==
    ASSUME RequestsInv, PayloadsInv, PagesStay, EndpointsStay, clock \in Nat, clock' = clock, payloads' = payloads,
           NEW r \in Requests, NEW x, request' = [request EXCEPT ![r] = x], RequestInv(x), request[r].stage # "idle",
           x.wants = request[r].wants, x.published = request[r].published,
           x.stage \in WithKey => request[r].stage \in WithKey /\ x.key = request[r].key /\ x.asOf = request[r].asOf
    PROVE  RequestsInv' /\ PayloadsInv'
<1>1. \A q \in Requests : Agree(request[q], x)
  BY SameToOthers DEF RequestsInv
<1>2. \A key \in DOMAIN payloads : payloads[key].payload # Unavailable => PayloadFits(key, payloads[key].payload, x)
  BY SameToOthers DEF PayloadsInv
<1> QED
  BY <1>1, <1>2, OneMoves

-----------------------------------------------------------------------------
(* The answers *)

\* What AnswersFit says of an answer
AnswerFits(a) ==
    /\ a.status = 200 =>
          /\ PayloadOf(a.payload, a.published)
          /\ a.published.page.login \in {Unset, a.credential}
          /\ a.wants # WholePage /\ a.asOf.count > 0 => AtLeast(a.payload.data[a.wants], a.asOf)
    /\ a.status = 429 => a.recent >= MaximumFailures

\* The answers of a step fit when each of them does.
LEMMA FittingAnswers ==
    ASSUME \A a \in answers' : AnswerFits(a)
    PROVE  AnswersFit'
  BY DEF AnswerFits, AnswersFit, PayloadsFit, RefusedForFailures, PayloadOf, AtLeast

\* An answer to a request is one with what the request captured.
LEMMA AnswerOf ==
    ASSUME NEW r, NEW asOf, NEW status, NEW payload,
           status = 200 =>
              /\ PayloadOf(payload, request[r].published)
              /\ request[r].published.page.login \in {Unset, request[r].credential}
              /\ request[r].wants # WholePage /\ asOf.count > 0 => AtLeast(payload.data[request[r].wants], asOf),
           status = 429 => Recent >= MaximumFailures
    PROVE  AnswerFits(AnswerTo(r, asOf, status, payload))
<1>1. PICK a : a = AnswerTo(r, asOf, status, payload)
  OBVIOUS
<1>2. PICK recent : recent = Recent
  OBVIOUS
<1>3. /\ a.credential = request[r].credential /\ a.published = request[r].published /\ a.wants = request[r].wants
      /\ a.asOf = asOf /\ a.status = status /\ a.payload = payload /\ a.recent = recent
  BY <1>1, <1>2 DEF AnswerTo
<1> QED
  BY <1>1, <1>2, <1>3 DEF AnswerFits

\* A step that answers one request
LEMMA AnswersOne ==
    ASSUME NEW r, NEW asOf, NEW status, NEW payload, Answer(r, asOf, status, payload),
           AnswerFits(AnswerTo(r, asOf, status, payload))
    PROVE  AnswersFit'
<1>1. PICK a : a = AnswerTo(r, asOf, status, payload)
  OBVIOUS
<1>2. answers' = {a} /\ AnswerFits(a)
  BY <1>1 DEF Answer
<1>3. \A b \in answers' : AnswerFits(b)
  BY <1>2
<1> QED
  BY <1>3, FittingAnswers

\* A step that answers nobody
LEMMA AnswersNobody ==
    ASSUME answers' = {}
    PROVE  AnswersFit'
  BY FittingAnswers

-----------------------------------------------------------------------------
(* What a step does not concern *)

Countable == {"requests", "changes", "loads", "results", "failures", "ticks"}

\* A step of the visit counts against one of its bounds.
LEMMA VisitSpent ==
    ASSUME visit \in Visit, NEW what \in Countable, Spend(what)
    PROVE  visit' \in Visit
<1>1. visit' = [visit EXCEPT ![what] = @ - 1] /\ visit[what] > 0
  BY DEF Spend
<1>2. PICK v \in Visit : v = visit
  OBVIOUS
<1>3. v[what] \in Nat
  BY <1>2 DEF Visit, Countable
<1>4. v[what] - 1 \in Nat
  BY <1>1, <1>2, <1>3
<1>5. PICK n \in Nat : n = v[what] - 1
  BY <1>4
<1>6. [v EXCEPT ![what] = n] \in Visit
  BY <1>5 DEF Visit, Countable
<1> QED
  BY <1>1, <1>2, <1>5, <1>6

\* What is published and the endpoints stay as they should be.
LEMMA ViewsStay ==
    ASSUME VisitTyped, EndpointsTyped, PagesStay, EndpointsStay, clock' \in Nat, visit' \in Visit
    PROVE  VisitTyped' /\ EndpointsTyped'
<1>1. VisitTyped'
  BY DEF VisitTyped, PagesStay
<1>2. EndpointsTyped'
  BY DEF EndpointsTyped, EndpointsStay, Told
<1> QED
  BY <1>1, <1>2

\* The failures that are counted are still in the window when time passes.
LEMMA FailuresStay ==
    ASSUME FailuresInv, tally' = tally, refusals' = refusals, clock \in Nat, clock' \in Nat, clock <= clock'
    PROVE  FailuresInv'
<1>1. tally.expires - FailureWindow <= clock'
  <2>1. tally.expires - FailureWindow <= clock /\ tally.expires \in Nat /\ FailureWindow \in Nat
    BY VisitsAssumption DEF FailuresInv
  <2> QED
    BY <2>1
<1> QED
  BY <1>1 DEF FailuresInv, Refused

\* A step of the requests that answers nobody and has nothing to do with logins
LEMMA QuietStep ==
    ASSUME PagesInv, PagesStay, EndpointsStay, clock' = clock, visit' \in Visit, RequestsInv' /\ PayloadsInv',
           verified' = verified \/ VerifiedInv', tally' = tally, refusals' = refusals
    PROVE  PagesInv'
<1>1. clock \in Nat /\ clock' \in Nat /\ clock <= clock'
  BY DEF PagesInv, VisitTyped
<1>2. VisitTyped' /\ EndpointsTyped'
  BY <1>1, ViewsStay DEF PagesInv
<1>3. FailuresInv'
  BY <1>1, FailuresStay DEF PagesInv
<1>4. VerifiedInv'
  BY DEF PagesInv, VerifiedInv
<1> QED
  BY <1>2, <1>3, <1>4 DEF PagesInv

\* Failures that were counted in a window that has begun are no more than those of the window that ends now.
LEMMA RecentFailures ==
    ASSUME FailuresInv, clock \in Nat, tally.count >= MaximumFailures, clock < tally.expires
    PROVE  Recent >= MaximumFailures
<1>1. PICK e \in Nat, c \in Nat : e = tally.expires /\ c = tally.count
  BY DEF FailuresInv
<1>2. FailureWindow \in Nat /\ MaximumFailures \in Nat
  BY VisitsAssumption
<1>3. refusals \in Seq(Nat) /\ DOMAIN refusals = 1..Len(refusals) /\ Len(refusals) \in Nat
      /\ \A i \in 1..Len(refusals) : refusals[i] \in Nat
  <2>1. refusals \in Seq(Nat)
    BY DEF FailuresInv
  <2> QED
    BY <2>1, LenProperties, ElementOfSeq
<1> DEFINE these == {i \in DOMAIN refusals : refusals[i] > clock - FailureWindow}
           n == Len(refusals)
<1>4. Refused(e - FailureWindow) \subseteq these
  BY <1>1, <1>2, <1>3 DEF Refused
<1>5. IsFiniteSet(these) /\ IsFiniteSet(Refused(e - FailureWindow))
  <2>1. IsFiniteSet(1..n)
    <3>1. 1 \in Int /\ n \in Int
      BY <1>3
    <3> QED
      BY <3>1, FS_Interval
  <2>2. these \subseteq 1..n /\ Refused(e - FailureWindow) \subseteq 1..n
    BY <1>3 DEF Refused
  <2> QED
    BY <2>1, <2>2, FS_Subset
<1>6. Recent = Cardinality(these)
  BY DEF Recent
<1> HIDE DEF these
<1>7. Cardinality(Refused(e - FailureWindow)) <= Cardinality(these)
  BY <1>4, <1>5, FS_Subset
<1>8. c <= Cardinality(Refused(e - FailureWindow))
  BY <1>1 DEF FailuresInv
<1>9. PICK f \in Nat, t \in Nat : f = Cardinality(Refused(e - FailureWindow)) /\ t = Cardinality(these)
  BY <1>5, FS_CardinalityType
<1> QED
  BY <1>1, <1>2, <1>6, <1>7, <1>8, <1>9

\* A refusal is counted in the window of the first failure, which began before it.
LEMMA RefusalCounted ==
    ASSUME FailuresInv, clock \in Nat, NEW time \in 0..clock,
           tally' = Failure(time), refusals' = Append(refusals, clock), clock' = clock
    PROVE  FailuresInv'
<1>1. FailureWindow \in Nat
  BY VisitsAssumption
<1>2. PICK old \in [count : Nat, expires : Nat] : old = tally
  BY DEF FailuresInv
<1>3. PICK list \in Seq(Nat), n \in Nat : list = refusals /\ n = Len(list) /\ \A i \in 1..n : list[i] \in Nat
  <2>1. refusals \in Seq(Nat)
    BY DEF FailuresInv
  <2> QED
    BY <2>1, LenProperties, ElementOfSeq
<1>4. PICK new \in Seq(Nat) : /\ new = Append(list, clock) /\ Len(new) = n + 1
                              /\ \A i \in 1..n : new[i] = list[i]
                              /\ new[n + 1] = clock
  <2>1. Append(list, clock) \in Seq(Nat)
    BY AppendedIsConcat
  <2>2. Len(Append(list, clock)) = Len(list) + 1 /\ \A i \in 1..(Len(list) + 1) :
           Append(list, clock)[i] = IF i <= Len(list) THEN list[i] ELSE clock
    BY AppendProperties
  <2>3. PICK new \in Seq(Nat) : new = Append(list, clock)
    BY <2>1
  <2>4. Len(new) = n + 1 /\ \A i \in 1..(n + 1) : new[i] = IF i <= n THEN list[i] ELSE clock
    BY <1>3, <2>2, <2>3
  <2>5. new[n + 1] = clock /\ \A i \in 1..n : new[i] = list[i]
    BY <2>4
  <2> QED
    BY <2>3, <2>4, <2>5
<1> DEFINE Before(t) == {i \in 1..n : list[i] >= t}
           Now(t) == {i \in 1..(n + 1) : new[i] >= t}
<1>5. \A t \in Int : t <= clock => Now(t) = Before(t) \cup {n + 1}
  BY <1>4
<1>6. \A t \in Int : IsFiniteSet(Before(t)) /\ n + 1 \notin Before(t)
  <2> TAKE t \in Int
  <2>1. IsFiniteSet(1..n)
    <3>1. 1 \in Int /\ n \in Int
      OBVIOUS
    <3> QED
      BY <3>1, FS_Interval
  <2>2. Before(t) \subseteq 1..n /\ n + 1 \notin Before(t)
    OBVIOUS
  <2> HIDE DEF Before
  <2> QED
    BY <2>1, <2>2, FS_Subset
<1>7. \A t : Refused(t) = Before(t)
  BY <1>3 DEF Refused
<1>8. \A t : Refused(t)' = Now(t)
  BY <1>3, <1>4 DEF Refused
<1> HIDE DEF Before, Now
<1>9. \A t \in Int : t <= clock => Cardinality(Before(t)) \in Nat /\ Cardinality(Now(t)) = Cardinality(Before(t)) + 1
  <2> TAKE t \in Int
  <2> HAVE t <= clock
  <2>1. Now(t) = Before(t) \cup {n + 1} /\ IsFiniteSet(Before(t)) /\ n + 1 \notin Before(t)
    BY <1>5, <1>6
  <2> QED
    BY <2>1, FS_CardinalityType, FS_AddElement
<1>10. /\ old.expires - FailureWindow <= clock
       /\ old.count <= Cardinality(Before(old.expires - FailureWindow))
  BY <1>2, <1>7 DEF FailuresInv
<1>11. PICK e \in Nat, c \in Nat : e = old.expires /\ c = old.count /\ old = [count |-> c, expires |-> e]
  BY <1>2
<1>12. PICK tallied \in [count : Nat, expires : Nat] :
          /\ tally' = tallied
          /\ \/ tallied.count = c + 1 /\ tallied.expires = e
             \/ tallied.count = 1 /\ tallied.expires = time + FailureWindow
  <2>1. CASE time < tally.expires
    <3>1. tally' = [old EXCEPT !.count = @ + 1]
      BY <1>2, <2>1 DEF Failure
    <3>2. tally' = [count |-> c + 1, expires |-> e]
      BY <1>11, <3>1
    <3>3. PICK x : x = [count |-> c + 1, expires |-> e]
      OBVIOUS
    <3>4. x \in [count : Nat, expires : Nat] /\ x.count = c + 1 /\ x.expires = e
      BY <3>3
    <3> QED
      BY <3>2, <3>3, <3>4
  <2>2. CASE ~(time < tally.expires)
    <3>1. tally' = [count |-> 1, expires |-> time + FailureWindow]
      BY <2>2 DEF Failure
    <3>2. time + FailureWindow \in Nat
      BY <1>1
    <3>3. PICK x : x = [count |-> 1, expires |-> time + FailureWindow]
      OBVIOUS
    <3>4. x \in [count : Nat, expires : Nat] /\ x.count = 1 /\ x.expires = time + FailureWindow
      BY <3>2, <3>3
    <3> QED
      BY <3>1, <3>3, <3>4
  <2> QED
    BY <2>1, <2>2
<1>13. PICK start \in Int : start = tallied.expires - FailureWindow
  BY <1>1, <1>12
<1>14. start <= clock /\ tallied.count <= Cardinality(Now(start))
  <2>1. CASE tallied.count = c + 1 /\ tallied.expires = e
    <3>1. start = e - FailureWindow /\ start <= clock /\ c <= Cardinality(Before(start))
      BY <1>10, <1>11, <1>13, <2>1
    <3>2. Cardinality(Before(start)) \in Nat /\ Cardinality(Now(start)) = Cardinality(Before(start)) + 1
      BY <1>9, <3>1
    <3>3. PICK m \in Nat : m = Cardinality(Before(start))
      BY <3>2
    <3> QED
      BY <2>1, <3>1, <3>2, <3>3
  <2>2. CASE tallied.count = 1 /\ tallied.expires = time + FailureWindow
    <3>1. start = time /\ start <= clock
      BY <1>1, <1>13, <2>2
    <3>2. Cardinality(Before(start)) \in Nat /\ Cardinality(Now(start)) = Cardinality(Before(start)) + 1
      BY <1>9, <3>1
    <3>3. PICK m \in Nat : m = Cardinality(Before(start))
      BY <3>2
    <3> QED
      BY <2>2, <3>1, <3>2, <3>3
  <2> QED
    BY <1>12, <2>1, <2>2
<1>15. (tally.expires - FailureWindow <= clock)' /\ (tally.count <= Cardinality(Refused(tally.expires - FailureWindow)))'
  <2>1. Refused(start)' = Now(start)
    BY <1>8
  <2> QED
    BY <1>12, <1>13, <1>14, <2>1 DEF Refused
<1>16. tally' \in [count : Nat, expires : Nat] /\ refusals' \in Seq(Nat)
  BY <1>3, <1>4, <1>12
<1> QED
  BY <1>15, <1>16 DEF FailuresInv

-----------------------------------------------------------------------------
(* Requests with other fields *)

RequestWith(stage, wants, credential, published, time, key, asOf, payload) ==
    [stage |-> stage, wants |-> wants, credential |-> credential, published |-> published, time |-> time, key |-> key,
     asOf |-> asOf, payload |-> payload]

\* Each field of a request can be changed on its own.
LEMMA FieldChanges ==
    /\ \A s, w, c, p, t, k, a, l, z :
          [RequestWith(s, w, c, p, t, k, a, l) EXCEPT !.stage = z] = RequestWith(z, w, c, p, t, k, a, l)
    /\ \A s, w, c, p, t, k, a, l, z :
          [RequestWith(s, w, c, p, t, k, a, l) EXCEPT !.wants = z] = RequestWith(s, z, c, p, t, k, a, l)
    /\ \A s, w, c, p, t, k, a, l, z :
          [RequestWith(s, w, c, p, t, k, a, l) EXCEPT !.credential = z] = RequestWith(s, w, z, p, t, k, a, l)
    /\ \A s, w, c, p, t, k, a, l, z :
          [RequestWith(s, w, c, p, t, k, a, l) EXCEPT !.published = z] = RequestWith(s, w, c, z, t, k, a, l)
    /\ \A s, w, c, p, t, k, a, l, z :
          [RequestWith(s, w, c, p, t, k, a, l) EXCEPT !.time = z] = RequestWith(s, w, c, p, z, k, a, l)
    /\ \A s, w, c, p, t, k, a, l, z :
          [RequestWith(s, w, c, p, t, k, a, l) EXCEPT !.key = z] = RequestWith(s, w, c, p, t, z, a, l)
    /\ \A s, w, c, p, t, k, a, l, z :
          [RequestWith(s, w, c, p, t, k, a, l) EXCEPT !.asOf = z] = RequestWith(s, w, c, p, t, k, z, l)
    /\ \A s, w, c, p, t, k, a, l, z :
          [RequestWith(s, w, c, p, t, k, a, l) EXCEPT !.payload = z] = RequestWith(s, w, c, p, t, k, a, z)
  BY DEF RequestWith

\* A request is what its fields are.
LEMMA FieldsOf ==
    ASSUME NEW s, NEW w, NEW c, NEW p, NEW t, NEW k, NEW a, NEW l, NEW x, x = RequestWith(s, w, c, p, t, k, a, l)
    PROVE  /\ x.stage = s /\ x.wants = w /\ x.credential = c /\ x.published = p /\ x.time = t /\ x.key = k /\ x.asOf = a
           /\ x.payload = l
           /\ IsRequest(x)
  BY DEF RequestWith, IsRequest

\* A request that asks for something
LEMMA AskedWith ==
    ASSUME NEW s, NEW w, NEW c, NEW p
    PROVE  [NoRequest EXCEPT !.stage = s, !.wants = w, !.credential = c, !.published = p]
              = RequestWith(s, w, c, p, Unset, Unset, Unset, Unset)
<1>1. NoRequest = RequestWith("idle", Unset, Unset, Unset, Unset, Unset, Unset, Unset)
  BY DEF NoRequest, RequestWith
<1>2. PICK x : x = [NoRequest EXCEPT !.stage = s]
  OBVIOUS
<1>3. PICK y : y = [x EXCEPT !.wants = w]
  OBVIOUS
<1>4. PICK z : z = [y EXCEPT !.credential = c]
  OBVIOUS
<1>5. x = RequestWith(s, Unset, Unset, Unset, Unset, Unset, Unset, Unset)
  BY <1>1, <1>2, FieldChanges
<1>6. y = RequestWith(s, w, Unset, Unset, Unset, Unset, Unset, Unset)
  BY <1>3, <1>5, FieldChanges
<1>7. z = RequestWith(s, w, c, Unset, Unset, Unset, Unset, Unset)
  BY <1>4, <1>6, FieldChanges
<1>8. [z EXCEPT !.published = p] = RequestWith(s, w, c, p, Unset, Unset, Unset, Unset)
  BY <1>7, FieldChanges
<1> QED
  BY <1>2, <1>3, <1>4, <1>8

\* A request whose fields are named
LEMMA NamedFields ==
    ASSUME NEW x, IsRequest(x)
    PROVE  \E w, c, p, t, k, a, l :
              /\ x = RequestWith(x.stage, w, c, p, t, k, a, l)
              /\ w = x.wants /\ c = x.credential /\ p = x.published /\ t = x.time /\ k = x.key /\ a = x.asOf /\ l = x.payload
  BY DEF IsRequest, RequestWith

\* A request that is queued at a time
LEMMA QueuedAs ==
    ASSUME NEW x, IsRequest(x), NEW s, NEW y
    PROVE  [x EXCEPT !.stage = s, !.time = y]
              = RequestWith(s, x.wants, x.credential, x.published, y, x.key, x.asOf, x.payload)
<1>1. PICK w, c, p, t, k, a, l :
         /\ x = RequestWith(x.stage, w, c, p, t, k, a, l)
         /\ w = x.wants /\ c = x.credential /\ p = x.published /\ t = x.time /\ k = x.key /\ a = x.asOf /\ l = x.payload
  BY NamedFields
<1>2. PICK u : u = [x EXCEPT !.stage = s]
  OBVIOUS
<1>3. u = RequestWith(s, w, c, p, t, k, a, l)
  BY <1>1, <1>2, FieldChanges
<1>4. [u EXCEPT !.time = y] = RequestWith(s, w, c, p, y, k, a, l)
  BY <1>3, FieldChanges
<1>5. [x EXCEPT !.stage = s, !.time = y] = RequestWith(s, w, c, p, y, k, a, l)
  BY <1>2, <1>4
<1> QED
  BY <1>1, <1>5

\* A request that has its key, and what was told when it asked
LEMMA KeyedAs ==
    ASSUME NEW x, IsRequest(x), NEW s, NEW y, NEW z
    PROVE  [x EXCEPT !.stage = s, !.key = y, !.asOf = z]
              = RequestWith(s, x.wants, x.credential, x.published, x.time, y, z, x.payload)
<1>1. PICK w, c, p, t, k, a, l :
         /\ x = RequestWith(x.stage, w, c, p, t, k, a, l)
         /\ w = x.wants /\ c = x.credential /\ p = x.published /\ t = x.time /\ k = x.key /\ a = x.asOf /\ l = x.payload
  BY NamedFields
<1>2. PICK u : u = [x EXCEPT !.stage = s]
  OBVIOUS
<1>3. u = RequestWith(s, w, c, p, t, k, a, l)
  BY <1>1, <1>2, FieldChanges
<1>4. PICK v : v = [u EXCEPT !.key = y]
  OBVIOUS
<1>5. v = RequestWith(s, w, c, p, t, y, a, l)
  BY <1>3, <1>4, FieldChanges
<1>6. [v EXCEPT !.asOf = z] = RequestWith(s, w, c, p, t, y, z, l)
  BY <1>5, FieldChanges
<1>7. [x EXCEPT !.stage = s, !.key = y, !.asOf = z] = RequestWith(s, w, c, p, t, y, z, l)
  BY <1>2, <1>4, <1>6
<1> QED
  BY <1>1, <1>7

\* A request that has its payload
LEMMA FilledAs ==
    ASSUME NEW x, IsRequest(x), NEW s, NEW y
    PROVE  [x EXCEPT !.stage = s, !.payload = y]
              = RequestWith(s, x.wants, x.credential, x.published, x.time, x.key, x.asOf, y)
<1>1. PICK w, c, p, t, k, a, l :
         /\ x = RequestWith(x.stage, w, c, p, t, k, a, l)
         /\ w = x.wants /\ c = x.credential /\ p = x.published /\ t = x.time /\ k = x.key /\ a = x.asOf /\ l = x.payload
  BY NamedFields
<1>2. PICK u : u = [x EXCEPT !.stage = s]
  OBVIOUS
<1>3. u = RequestWith(s, w, c, p, t, k, a, l)
  BY <1>1, <1>2, FieldChanges
<1>4. [u EXCEPT !.payload = y] = RequestWith(s, w, c, p, t, k, a, y)
  BY <1>3, FieldChanges
<1>5. [x EXCEPT !.stage = s, !.payload = y] = RequestWith(s, w, c, p, t, k, a, y)
  BY <1>2, <1>4
<1> QED
  BY <1>1, <1>5

-----------------------------------------------------------------------------
(* The steps of a request *)

\* A request with another stage
LEMMA StageOf ==
    ASSUME NEW x, IsRequest(x), NEW stage
    PROVE  LET y == [x EXCEPT !.stage = stage] IN
           /\ IsRequest(y) /\ y.stage = stage /\ y.wants = x.wants /\ y.credential = x.credential
           /\ y.published = x.published /\ y.time = x.time /\ y.key = x.key /\ y.asOf = x.asOf /\ y.payload = x.payload
<1>1. PICK wants, credential, published, time, key, asOf, payload :
         /\ x = [stage |-> x.stage, wants |-> wants, credential |-> credential, published |-> published, time |-> time,
                 key |-> key, asOf |-> asOf, payload |-> payload]
         /\ wants = x.wants /\ credential = x.credential /\ published = x.published /\ time = x.time /\ key = x.key
         /\ asOf = x.asOf /\ payload = x.payload
  BY DEF IsRequest
<1>2. [x EXCEPT !.stage = stage]
         = [stage |-> stage, wants |-> wants, credential |-> credential, published |-> published, time |-> time,
            key |-> key, asOf |-> asOf, payload |-> payload]
  BY <1>1
<1>3. PICK y : y = [stage |-> stage, wants |-> wants, credential |-> credential, published |-> published, time |-> time,
                    key |-> key, asOf |-> asOf, payload |-> payload]
  OBVIOUS
<1>4. /\ y.stage = stage /\ y.wants = wants /\ y.credential = credential /\ y.published = published /\ y.time = time
      /\ y.key = key /\ y.asOf = asOf /\ y.payload = payload /\ IsRequest(y)
  BY <1>3 DEF IsRequest
<1> QED
  BY <1>1, <1>2, <1>3, <1>4

\* What holds of any request under way
LEMMA UnderWay ==
    ASSUME PagesInv, NEW r \in Requests, request[r].stage # "idle"
    PROVE  LET x == request[r] IN
           /\ RequestInv(x) /\ IsRequest(x) /\ x.wants \in Wants /\ x.published \in Captured
           /\ x.published.revision <= revisions /\ (x.published.revision = revisions => x.published = Published)
           /\ x.stage \notin BeforeLetIn => x.published.page.login \in {Unset, x.credential}
           /\ x.stage \in {"queued", "checking"} => x.time \in 0..clock
           /\ x.stage \in WithKey => KeyInv(x)
           /\ clock \in Nat /\ revisions \in Nat /\ visit \in Visit
  BY DEF PagesInv, RequestsInv, RequestInv, VisitTyped

\* A request that is let in, or gets on, without learning anything
LEMMA StageMoves ==
    ASSUME PagesInv, NEW r \in Requests, request[r].stage # "idle", NEW stage \in StagesOfRequests \ {"idle", "assembled"},
           request' = [request EXCEPT ![r].stage = stage], answers' = {},
           stage \notin BeforeLetIn =>
              request[r].stage \notin BeforeLetIn \/ request[r].published.page.login \in {Unset, request[r].credential},
           stage \in {"queued", "checking"} => request[r].stage \in {"queued", "checking"},
           stage \in WithKey => request[r].stage \in WithKey,
           PagesStay, EndpointsStay, payloads' = payloads, clock' = clock, visit' = visit,
           verified' = verified \/ VerifiedInv', tally' = tally, refusals' = refusals
    PROVE  PagesInv' /\ AnswersFit'
<1>1. PICK x : x = request[r]
  OBVIOUS
<1>2. PICK y : y = [x EXCEPT !.stage = stage]
  OBVIOUS
<1>3. /\ IsRequest(y) /\ y.stage = stage /\ y.wants = x.wants /\ y.credential = x.credential
      /\ y.published = x.published /\ y.time = x.time /\ y.key = x.key /\ y.asOf = x.asOf /\ y.payload = x.payload
  <2>1. IsRequest(x)
    BY <1>1, UnderWay
  <2> QED
    BY <1>2, <2>1, StageOf
<1>4. RequestInv(y)
  <2>1. stage \in WithKey => KeyInv(y)
    <3>1. stage \in WithKey => KeyInv(x)
      BY <1>1, UnderWay
    <3> QED
      BY <1>3, <3>1 DEF KeyInv
  <2>2. stage \in {"queued", "checking"} => y.time \in 0..clock
    BY <1>1, <1>3, UnderWay
  <2>3. stage \notin BeforeLetIn => y.published.page.login \in {Unset, y.credential}
    BY <1>1, <1>3, UnderWay
  <2> QED
    BY <1>1, <1>3, <2>1, <2>2, <2>3, UnderWay DEF RequestInv
<1>5. request' = [request EXCEPT ![r] = y]
  BY <1>1, <1>2
<1>6. clock \in Nat /\ visit' \in Visit /\ RequestsInv /\ PayloadsInv
  BY UnderWay DEF PagesInv
<1>7. RequestsInv' /\ PayloadsInv'
  BY <1>1, <1>3, <1>4, <1>5, <1>6, GoesOnWith
<1>8. PagesInv'
  BY <1>6, <1>7, QuietStep
<1>9. AnswersFit'
  BY AnswersNobody
<1> QED
  BY <1>8, <1>9

\* A request captures what is published, and is let in at once by a page without login.
LEMMA AskKeeps ==
    ASSUME PagesInv, NEW r \in Requests, NEW asked \in visit.asked, Ask(r, asked.wants, asked.credential)
    PROVE  PagesInv' /\ AnswersFit'
<1>1. PICK published : published = Published
  OBVIOUS
<1>2. VisitTyped /\ RequestsInv /\ PayloadsInv /\ published # Unset /\ Spend("requests")
  BY <1>1 DEF PagesInv, Ask
<1>3. published \in Captured /\ published.revision = revisions
  BY <1>1, <1>2, PublishedIs
<1>4. asked.wants \in Wants
  <2>1. visit.asked \in SUBSET [wants : Endpoints \cup {WholePage}, credential : Credentials \cup {Unset}]
    BY <1>2 DEF VisitTyped, Visit
  <2> QED
    BY <2>1 DEF Wants
<1>5. PICK stage : stage = IF published.page.login = Unset THEN "find" ELSE "verify"
  OBVIOUS
<1>6. PICK x : x = RequestWith(stage, asked.wants, asked.credential, published, Unset, Unset, Unset, Unset)
  OBVIOUS
<1>7. request' = [request EXCEPT ![r] = x]
  <2>1. request' = [request EXCEPT ![r] = [NoRequest EXCEPT
           !.stage = IF Published.page.login = Unset THEN "find" ELSE "verify",
           !.wants = asked.wants, !.credential = asked.credential, !.published = Published]]
    BY DEF Ask
  <2>2. [NoRequest EXCEPT !.stage = stage, !.wants = asked.wants, !.credential = asked.credential, !.published = published] = x
    BY <1>6, AskedWith
  <2>3. PICK old : old = NoRequest
    OBVIOUS
  <2>4. request' = [request EXCEPT ![r] = [old EXCEPT
           !.stage = stage, !.wants = asked.wants, !.credential = asked.credential, !.published = published]]
    BY <1>1, <1>5, <2>1, <2>3
  <2> QED
    BY <2>2, <2>3, <2>4
<1>8. /\ IsRequest(x) /\ x.stage = stage /\ x.wants = asked.wants /\ x.credential = asked.credential
      /\ x.published = published
  BY <1>6, FieldsOf
<1>9. stage \in {"find", "verify"} /\ (stage = "find" => published.page.login = Unset)
  BY <1>5
<1>10. x.stage \in StagesOfRequests /\ x.stage \notin WithKey /\ x.stage \notin {"queued", "checking"}
       /\ (x.stage \notin BeforeLetIn => x.published.page.login \in {Unset, x.credential})
  BY <1>8, <1>9 DEF StagesOfRequests, WithKey, BeforeLetIn
<1>11. revisions \in Nat
  BY <1>2 DEF VisitTyped
<1>12. RequestInv(x)
  BY <1>1, <1>3, <1>4, <1>8, <1>10, <1>11 DEF RequestInv
<1>13. \A q \in Requests : Agree(request[q], x)
  <2> TAKE q \in Requests
  <2>1. request[q].stage # "idle" /\ request[q].published.revision = revisions => request[q].published = Published
    BY <1>2 DEF RequestsInv, RequestInv
  <2> QED
    BY <1>1, <1>3, <1>8, <1>10, <2>1 DEF Agree
<1>14. \A key \in DOMAIN payloads : payloads[key].payload # Unavailable => PayloadFits(key, payloads[key].payload, x)
  <2> TAKE key \in DOMAIN payloads
  <2> HAVE payloads[key].payload # Unavailable
  <2>1. key[1] = revisions => PayloadOf(payloads[key].payload, Published)
    BY <1>2 DEF PayloadsInv, PayloadInv
  <2> QED
    BY <1>1, <1>3, <1>8, <1>10, <2>1 DEF PayloadFits
<1>15. PagesStay /\ EndpointsStay /\ payloads' = payloads /\ clock' = clock /\ verified' = verified /\ tally' = tally
       /\ refusals' = refusals /\ answers' = {}
  BY DEF Ask, pageVars, cacheVars, loginVars, endpointVars, PagesStay, EndpointsStay
<1>16. clock \in Nat /\ visit' \in Visit
  <2>1. visit \in Visit /\ clock \in Nat
    BY <1>2 DEF VisitTyped
  <2>2. "requests" \in Countable
    BY DEF Countable
  <2> QED
    BY <1>2, <2>1, <2>2, VisitSpent
<1>17. RequestsInv' /\ PayloadsInv'
  BY <1>2, <1>7, <1>12, <1>13, <1>14, <1>15, <1>16, OneMoves
<1>18. PagesInv'
  BY <1>15, <1>16, <1>17, QuietStep
<1> QED
  BY <1>15, <1>18, AnswersNobody

\* A refusal ends a request and is counted in the window.
LEMMA RefuseKeeps ==
    ASSUME PagesInv, NEW r \in Requests, request[r].stage # "idle", NEW time \in 0..clock, Refuse(r, time),
           PagesStay, EndpointsStay, payloads' = payloads, clock' = clock, visit' = visit, verified' = verified
    PROVE  PagesInv' /\ AnswersFit'
<1>1. /\ tally' = Failure(time) /\ refusals' = Append(refusals, clock) /\ Answer(r, Unset, 401, Unset)
      /\ request' = [request EXCEPT ![r] = NoRequest]
  BY DEF Refuse, Answer
<1>2. clock \in Nat /\ visit \in Visit /\ RequestsInv /\ PayloadsInv /\ FailuresInv
  BY UnderWay DEF PagesInv
<1>3. FailuresInv'
  BY <1>1, <1>2, RefusalCounted
<1>4. RequestsInv' /\ PayloadsInv'
  BY <1>1, <1>2, OneEnds
<1>5. VisitTyped' /\ EndpointsTyped'
  BY <1>2, ViewsStay DEF PagesInv
<1>6. VerifiedInv'
  BY DEF PagesInv, VerifiedInv
<1>7. AnswerFits(AnswerTo(r, Unset, 401, Unset))
  BY AnswerOf
<1>8. AnswersFit'
  BY <1>1, <1>7, AnswersOne
<1> QED
  BY <1>3, <1>4, <1>5, <1>6, <1>8 DEF PagesInv

\* A client is only told to wait for failures of its own, and a credential that is remembered is that of the page.
LEMMA VerifyKeeps ==
    ASSUME PagesInv, NEW r \in Requests, Verify(r)
    PROVE  PagesInv' /\ AnswersFit'
<1>1. request[r].stage = "verify" /\ request[r].stage # "idle"
  BY DEF Verify, In
<1>2. PagesStay /\ EndpointsStay /\ payloads' = payloads /\ clock' = clock /\ visit' = visit /\ verified' = verified
  BY DEF Verify, pageVars, cacheVars, endpointVars, PagesStay, EndpointsStay
<1>3. clock \in Nat /\ visit \in Visit /\ RequestsInv /\ PayloadsInv /\ FailuresInv
  BY <1>1, UnderWay DEF PagesInv
<1>4. CASE tally.count >= MaximumFailures /\ clock < tally.expires
  <2>1. Answer(r, Unset, 429, Unset) /\ tally' = tally /\ refusals' = refusals
        /\ request' = [request EXCEPT ![r] = NoRequest]
    BY <1>4 DEF Verify, Answer
  <2>2. Recent >= MaximumFailures
    BY <1>3, <1>4, RecentFailures
  <2>3. AnswerFits(AnswerTo(r, Unset, 429, Unset))
    BY <2>2, AnswerOf
  <2>4. RequestsInv' /\ PayloadsInv'
    BY <1>2, <1>3, <2>1, OneEnds
  <2>5. PagesInv'
    BY <1>2, <1>3, <2>1, <2>4, QuietStep
  <2> QED
    BY <2>1, <2>3, <2>5, AnswersOne
<1>5. CASE ~(tally.count >= MaximumFailures /\ clock < tally.expires) /\ request[r].credential = Unset
  <2>1. Refuse(r, clock) /\ clock \in 0..clock
    BY <1>3, <1>5 DEF Verify
  <2> QED
    BY <1>1, <1>2, <2>1, RefuseKeeps
<1>6. CASE ~(tally.count >= MaximumFailures /\ clock < tally.expires) /\ request[r].credential # Unset
  <2>1. tally' = tally /\ refusals' = refusals /\ answers' = {}
    BY <1>6 DEF Verify, GoTo
  <2>2. CASE VerificationKey(r) \in DOMAIN verified /\ clock < verified[VerificationKey(r)]
    <3>1. request' = [request EXCEPT ![r].stage = "find"]
      BY <1>6, <2>2 DEF Verify, GoTo
    <3>2. request[r].credential = request[r].published.page.login
      <4>1. VerificationKey(r)[1] = VerificationKey(r)[2]
        BY <2>2 DEF PagesInv, VerifiedInv
      <4> QED
        BY <4>1 DEF VerificationKey
    <3>3. PICK stage \in StagesOfRequests \ {"idle", "assembled"} :
             stage = "find" /\ stage \notin WithKey /\ stage \notin {"queued", "checking"}
      BY DEF StagesOfRequests, WithKey
    <3> QED
      BY <1>1, <1>2, <2>1, <3>1, <3>2, <3>3, StageMoves
  <2>3. CASE ~(VerificationKey(r) \in DOMAIN verified /\ clock < verified[VerificationKey(r)])
    <3>1. request' = [request EXCEPT ![r].stage = "queued", ![r].time = clock]
      BY <1>6, <2>3 DEF Verify
    <3>2. PICK x : x = request[r]
      OBVIOUS
    <3>3. RequestInv(x) /\ IsRequest(x) /\ x.wants \in Wants /\ x.published \in Captured
          /\ x.published.revision <= revisions /\ (x.published.revision = revisions => x.published = Published)
      BY <1>1, <3>2, UnderWay
    <3>4. PICK y : y = RequestWith("queued", x.wants, x.credential, x.published, clock, x.key, x.asOf, x.payload)
      OBVIOUS
    <3>5. /\ IsRequest(y) /\ y.stage = "queued" /\ y.wants = x.wants /\ y.credential = x.credential
          /\ y.published = x.published /\ y.time = clock
      BY <3>4, FieldsOf
    <3>6. [x EXCEPT !.stage = "queued", !.time = clock] = y
      BY <3>3, <3>4, QueuedAs
    <3>7. request' = [request EXCEPT ![r] = y]
      BY <3>1, <3>2, <3>6
    <3>8. y.stage \in StagesOfRequests /\ y.stage # "idle" /\ y.stage \in BeforeLetIn /\ y.stage \notin WithKey
      BY <3>5 DEF StagesOfRequests, BeforeLetIn, WithKey
    <3>9. RequestInv(y)
      BY <1>3, <3>3, <3>5, <3>8 DEF RequestInv
    <3>10. RequestsInv' /\ PayloadsInv'
      BY <1>1, <1>2, <1>3, <3>2, <3>5, <3>7, <3>8, <3>9, GoesOnWith
    <3>11. PagesInv'
      BY <1>2, <1>3, <2>1, <3>10, QuietStep
    <3> QED
      BY <2>1, <3>11, AnswersNobody
  <2> QED
    BY <2>2, <2>3
<1> QED
  BY <1>4, <1>5, <1>6

\* Only so many credentials are compared at a time; nothing else changes.
LEMMA BeginCheckKeeps ==
    ASSUME PagesInv, NEW r \in Requests, BeginCheck(r)
    PROVE  PagesInv' /\ AnswersFit'
<1>1. request[r].stage = "queued" /\ request[r].stage # "idle" /\ request' = [request EXCEPT ![r].stage = "checking"]
      /\ answers' = {}
  BY DEF BeginCheck, In, GoTo
<1>2. PagesStay /\ EndpointsStay /\ payloads' = payloads /\ clock' = clock /\ visit' = visit /\ verified' = verified
      /\ tally' = tally /\ refusals' = refusals
  BY DEF BeginCheck, pageVars, cacheVars, loginVars, endpointVars, PagesStay, EndpointsStay
<1>3. PICK stage \in StagesOfRequests \ {"idle", "assembled"} :
         stage = "checking" /\ stage \in BeforeLetIn /\ stage \notin WithKey
  BY DEF StagesOfRequests, BeforeLetIn, WithKey
<1> QED
  BY <1>1, <1>2, <1>3, StageMoves

\* A credential that was compared is remembered with that of the page, when it is the same, and refused otherwise.
LEMMA EndCheckKeeps ==
    ASSUME PagesInv, NEW r \in Requests, EndCheck(r)
    PROVE  PagesInv' /\ AnswersFit'
<1>1. request[r].stage = "checking" /\ request[r].stage # "idle"
  BY DEF EndCheck, In
<1>2. PagesStay /\ EndpointsStay /\ payloads' = payloads /\ clock' = clock /\ visit' = visit
  BY DEF EndCheck, pageVars, cacheVars, endpointVars, PagesStay, EndpointsStay
<1>3. request[r].time \in 0..clock
  BY <1>1, UnderWay
<1>4. CASE request[r].credential = request[r].published.page.login
  <2>1. /\ verified' = With(verified, VerificationKey(r), request[r].time + VerificationTTL)
        /\ request' = [request EXCEPT ![r].stage = "find"] /\ answers' = {} /\ tally' = tally /\ refusals' = refusals
    BY <1>4 DEF EndCheck, GoTo
  <2>2. VerificationKey(r)[1] = VerificationKey(r)[2]
    BY <1>4 DEF VerificationKey
  <2>3. VerifiedInv'
    <3>1. DOMAIN verified' = DOMAIN verified \cup {VerificationKey(r)}
      BY <2>1 DEF With
    <3>2. PICK keys : keys = DOMAIN verified'
      OBVIOUS
    <3>3. \A key \in keys : key[1] = key[2]
      BY <2>2, <3>1, <3>2 DEF PagesInv, VerifiedInv
    <3> QED
      BY <3>2, <3>3 DEF VerifiedInv
  <2>4. PICK stage \in StagesOfRequests \ {"idle", "assembled"} :
           stage = "find" /\ stage \notin WithKey /\ stage \notin {"queued", "checking"}
    BY DEF StagesOfRequests, WithKey
  <2> QED
    BY <1>1, <1>2, <1>4, <2>1, <2>3, <2>4, StageMoves
<1>5. CASE request[r].credential # request[r].published.page.login
  <2>1. Refuse(r, request[r].time) /\ verified' = verified
    BY <1>5 DEF EndCheck
  <2> QED
    BY <1>1, <1>2, <1>3, <2>1, RefuseKeeps
<1> QED
  BY <1>4, <1>5

-----------------------------------------------------------------------------
(* The payload of a request *)

\* What is told of an endpoint is no more than what is recorded.
LEMMA ToldIs ==
    ASSUME EndpointsTyped, NEW e \in Endpoints
    PROVE  Told(e) \in Tales /\ recorded[e] \in Tales /\ AtLeast(recorded[e], Told(e))
<1>1. PICK tale \in Tales : tale = recorded[e]
  BY DEF EndpointsTyped
<1>2. PICK life \in Nat, count \in Nat : tale = [life |-> life, count |-> count] /\ tale.life = life /\ tale.count = count
  BY DEF Tales
<1>3. CASE e \in unpublished
  <2>1. count > 0
    BY <1>1, <1>2, <1>3 DEF EndpointsTyped
  <2>2. Told(e) = [tale EXCEPT !.count = @ - 1]
    BY <1>1, <1>3 DEF Told
  <2>3. PICK less \in Nat : less = count - 1
    BY <2>1
  <2>4. Told(e) = [life |-> life, count |-> less]
    BY <1>2, <2>2, <2>3
  <2>5. PICK told : told = [life |-> life, count |-> less]
    OBVIOUS
  <2>6. told \in Tales /\ told.life = life /\ told.count = less
    BY <2>5 DEF Tales
  <2> QED
    BY <1>1, <1>2, <2>3, <2>4, <2>5, <2>6 DEF AtLeast
<1>4. CASE e \notin unpublished
  <2>1. Told(e) = tale
    BY <1>1, <1>4 DEF Told
  <2> QED
    BY <1>1, <1>2, <2>1 DEF AtLeast
<1> QED
  BY <1>3, <1>4

\* A request that has its key: what the key says of it
LEMMA KeyOf ==
    ASSUME NEW x, KeyInv(x)
    PROVE  /\ x.key[1] = x.published.revision /\ x.key[3] = x.wants /\ x.key[4] \in 0..sequence
           /\ x.key = <<x.published.revision, x.published.generation, x.wants, x.key[4]>>
           /\ OfEndpoint(x.wants, x.key[4]) /\ x.key[4] = sequences[x.wants] => x.asOf = Told(x.wants)
           /\ x.wants # WholePage /\ x.asOf.count # 0 => OfEndpoint(x.wants, x.key[4])
<1>1. PICK number \in 0..sequence :
         /\ x.key = <<x.published.revision, x.published.generation, x.wants, number>>
         /\ OfEndpoint(x.wants, number) /\ number = sequences[x.wants] => x.asOf = Told(x.wants)
         /\ number = 0 /\ x.wants # WholePage => x.asOf.count = 0
  BY DEF KeyInv
<1>2. PICK revision, load : revision = x.published.revision /\ load = x.published.generation
  OBVIOUS
<1>3. PICK wants, key : wants = x.wants /\ key = x.key
  OBVIOUS
<1>4. key = <<revision, load, wants, number>>
  BY <1>1, <1>2, <1>3
<1>5. key[1] = revision /\ key[3] = wants /\ key[4] = number
  BY <1>4
<1>6. number = 0 \/ number > 0
  OBVIOUS
<1> QED
  BY <1>1, <1>2, <1>3, <1>4, <1>5, <1>6 DEF OfEndpoint

\* An answer from the cache fits the request.
LEMMA CachedFits ==
    ASSUME PagesInv, NEW r \in Requests, request[r].stage # "idle", request[r].stage \notin BeforeLetIn,
           NEW key \in DOMAIN payloads, key[1] = request[r].published.revision, key[3] = request[r].wants, NEW asOf,
           request[r].wants # WholePage /\ asOf.count > 0 =>
              /\ OfEndpoint(key[3], key[4])
              /\ \/ key[4] = sequences[key[3]] /\ asOf = Told(key[3])
                 \/ request[r].stage \in WithKey /\ key[4] = request[r].key[4] /\ asOf = request[r].asOf
    PROVE  AnswerFits(AnswerTo(r, asOf, StatusOfPayload(payloads[key].payload), payloads[key].payload))
<1>1. PICK payload : payload = payloads[key].payload
  OBVIOUS
<1>2. PICK status : status = StatusOfPayload(payload)
  OBVIOUS
<1>3. status = 200 => payload # Unavailable
  BY <1>2 DEF StatusOfPayload
<1>4. status # 429
  BY <1>2 DEF StatusOfPayload
<1>5. payload # Unavailable => PayloadInv(key, payload) /\ PayloadFits(key, payload, request[r])
  BY <1>1 DEF PagesInv, PayloadsInv
<1>6. status = 200 => PayloadOf(payload, request[r].published)
  BY <1>3, <1>5 DEF PayloadFits
<1>7. request[r].published.page.login \in {Unset, request[r].credential}
  BY UnderWay
<1>8. status = 200 /\ request[r].wants # WholePage /\ asOf.count > 0 => AtLeast(payload.data[request[r].wants], asOf)
  BY <1>3, <1>5 DEF PayloadFits, PayloadInv
<1>9. AnswerFits(AnswerTo(r, asOf, status, payload))
  BY <1>4, <1>6, <1>7, <1>8, AnswerOf
<1> QED
  BY <1>1, <1>2, <1>9

\* A step that only answers one request
LEMMA AnswerKeeps ==
    ASSUME PagesInv, NEW r \in Requests, NEW asOf, NEW status, NEW payload, Answer(r, asOf, status, payload),
           AnswerFits(AnswerTo(r, asOf, status, payload)),
           PagesStay, EndpointsStay, payloads' = payloads, clock' = clock, visit' = visit,
           verified' = verified, tally' = tally, refusals' = refusals
    PROVE  PagesInv' /\ AnswersFit'
<1>1. request' = [request EXCEPT ![r] = NoRequest]
  BY DEF Answer
<1>2. clock \in Nat /\ visit' \in Visit /\ RequestsInv /\ PayloadsInv
  BY DEF PagesInv, VisitTyped
<1>3. RequestsInv' /\ PayloadsInv'
  BY <1>1, <1>2, OneEnds
<1>4. PagesInv'
  BY <1>2, <1>3, QuietStep
<1> QED
  BY <1>4, AnswersOne

\* A request is told that there is no such endpoint, or answered from the cache, or goes on with the key of its payload.
LEMMA FindPayloadKeeps ==
    ASSUME PagesInv, NEW r \in Requests, FindPayload(r)
    PROVE  PagesInv' /\ AnswersFit'
<1>1. request[r].stage = "find" /\ request[r].stage # "idle"
  BY DEF FindPayload, In
<1>2. PagesStay /\ EndpointsStay /\ payloads' = payloads /\ clock' = clock /\ visit' = visit /\ verified' = verified
      /\ tally' = tally /\ refusals' = refusals
  BY DEF FindPayload, pageVars, cacheVars, loginVars, endpointVars, PagesStay, EndpointsStay
<1>3. request[r].stage \notin BeforeLetIn /\ request[r].stage \notin WithKey
  BY <1>1 DEF BeforeLetIn, WithKey
<1>4. PICK wants, published : wants = request[r].wants /\ published = request[r].published
  OBVIOUS
<1>5. PICK number : number = IF wants = WholePage THEN 0 ELSE sequences[wants]
  OBVIOUS
<1>6. PICK asOf : asOf = IF wants = WholePage THEN Unset ELSE Told(wants)
  OBVIOUS
<1>7. PICK key : key = <<published.revision, published.generation, wants, number>>
  OBVIOUS
<1>8. CacheKey(published, wants) = key /\ key[1] = published.revision /\ key[3] = wants /\ key[4] = number
  BY <1>5, <1>7 DEF CacheKey
<1>9. /\ wants \in Wants /\ published \in Captured /\ published.revision <= revisions
      /\ published.revision = revisions => published = Published
      /\ published.page.login \in {Unset, request[r].credential}
      /\ IsRequest(request[r]) /\ clock \in Nat /\ visit \in Visit
  BY <1>1, <1>3, <1>4, UnderWay
<1>10. EndpointsTyped /\ VisitTyped /\ RequestsInv /\ PayloadsInv
  BY DEF PagesInv
<1>11. wants # WholePage => wants \in Endpoints
  BY <1>9 DEF Wants
<1>12. sequence \in Nat /\ number \in 0..sequence /\ (wants # WholePage => number = sequences[wants] /\ asOf = Told(wants))
  BY <1>5, <1>6, <1>10, <1>11 DEF EndpointsTyped
<1>13. wants # WholePage /\ number = 0 => asOf.count = 0
  BY <1>10, <1>11, <1>12 DEF EndpointsTyped
<1>14. CASE wants # WholePage /\ wants \notin Selected(published.page, published.limit)
  <2>1. Answer(r, Unset, 404, Unset)
    BY <1>4, <1>14 DEF FindPayload
  <2>2. AnswerFits(AnswerTo(r, Unset, 404, Unset))
    BY AnswerOf
  <2> QED
    BY <1>2, <2>1, <2>2, AnswerKeeps
<1>15. CASE ~(wants # WholePage /\ wants \notin Selected(published.page, published.limit)) /\ Cached(key)
  <2>1. Answer(r, asOf, StatusOfPayload(payloads[key].payload), payloads[key].payload)
    BY <1>4, <1>6, <1>8, <1>15 DEF FindPayload
  <2>2. key \in DOMAIN payloads
    BY <1>15 DEF Cached
  <2>3. wants # WholePage /\ asOf.count > 0 =>
           OfEndpoint(key[3], key[4]) /\ key[4] = sequences[key[3]] /\ asOf = Told(key[3])
    BY <1>8, <1>12, <1>13 DEF OfEndpoint
  <2>4. AnswerFits(AnswerTo(r, asOf, StatusOfPayload(payloads[key].payload), payloads[key].payload))
    BY <1>1, <1>3, <1>4, <1>8, <2>2, <2>3, CachedFits
  <2> QED
    BY <1>2, <2>1, <2>4, AnswerKeeps
<1>16. CASE ~(wants # WholePage /\ wants \notin Selected(published.page, published.limit)) /\ ~Cached(key)
  <2>1. request' = [request EXCEPT ![r].stage = "join", ![r].key = key, ![r].asOf = asOf] /\ answers' = {}
    BY <1>4, <1>6, <1>8, <1>16 DEF FindPayload
  <2>2. PICK x : x = request[r]
    OBVIOUS
  <2>3. PICK y : y = RequestWith("join", x.wants, x.credential, x.published, x.time, key, asOf, x.payload)
    OBVIOUS
  <2>4. request' = [request EXCEPT ![r] = y]
    <3>1. [x EXCEPT !.stage = "join", !.key = key, !.asOf = asOf] = y
      <4>1. IsRequest(x)
        BY <1>9, <2>2
      <4>2. PICK stage : stage = "join"
        OBVIOUS
      <4>3. [x EXCEPT !.stage = stage, !.key = key, !.asOf = asOf]
               = RequestWith(stage, x.wants, x.credential, x.published, x.time, key, asOf, x.payload)
        BY <4>1, KeyedAs
      <4> QED
        BY <2>3, <4>2, <4>3
    <3> QED
      BY <2>1, <2>2, <3>1
  <2>5. /\ IsRequest(y) /\ y.stage = "join" /\ y.wants = wants /\ y.credential = request[r].credential
        /\ y.published = published /\ y.key = key /\ y.asOf = asOf
    BY <1>4, <2>2, <2>3, FieldsOf
  <2>6. KeyInv(y)
    <3>1. wants # WholePage => wants \in Selected(published.page, published.limit)
      BY <1>16
    <3>2. published.page \in Pages /\ published.limit \in Nat /\ existing \subseteq Endpoints
      BY <1>9, <1>10 DEF Captured, EndpointsTyped
    <3>3. wants # WholePage => published.limit > 0
      BY <3>1, <3>2, SelectedAre
    <3>4. wants # WholePage => asOf \in Tales /\ AtLeast(recorded[wants], asOf)
      BY <1>10, <1>11, <1>12, ToldIs
    <3>5. OfEndpoint(wants, number) => asOf = Told(wants)
      BY <1>12 DEF OfEndpoint
    <3> QED
      BY <1>7, <1>12, <1>13, <2>5, <3>3, <3>4, <3>5 DEF KeyInv
  <2>7. y.stage \in StagesOfRequests /\ y.stage # "idle" /\ y.stage \notin BeforeLetIn /\ y.stage \in WithKey
        /\ y.stage \notin {"queued", "checking"}
    BY <2>5 DEF StagesOfRequests, BeforeLetIn, WithKey
  <2>8. RequestInv(y)
    BY <1>9, <2>5, <2>6, <2>7 DEF RequestInv
  <2>9. \A q \in Requests : Agree(request[q], y)
    <3> TAKE q \in Requests
    <3>1. CASE request[q].stage = "idle"
      BY <3>1 DEF Agree
    <3>2. CASE request[q].stage # "idle"
      <4>1. request[q].published.revision = published.revision => request[q].published = published
        BY <1>1, <1>4, <1>10, <3>2 DEF RequestsInv, Agree
      <4>2. request[q].stage \in WithKey => KeyInv(request[q])
        BY <3>2, UnderWay
      <4>3. request[q].stage \in WithKey /\ request[q].wants = wants /\ request[q].key[4] = number /\ OfEndpoint(wants, number)
               => request[q].asOf = asOf
        BY <1>12, <4>2, KeyOf DEF OfEndpoint
      <4> QED
        BY <1>8, <2>5, <4>1, <4>3 DEF Agree
    <3> QED
      BY <3>1, <3>2
  <2>10. \A k \in DOMAIN payloads : payloads[k].payload # Unavailable => PayloadFits(k, payloads[k].payload, y)
    <3> TAKE k \in DOMAIN payloads
    <3> HAVE payloads[k].payload # Unavailable
    <3>1. PICK payload : payload = payloads[k].payload
      OBVIOUS
    <3>2. PayloadInv(k, payload) /\ PayloadFits(k, payload, request[r])
      BY <1>10, <3>1 DEF PayloadsInv
    <3>3. k[1] = published.revision => PayloadOf(payload, published)
      BY <1>1, <1>4, <3>2 DEF PayloadFits
    <3>4. k[3] = wants /\ k[4] = number /\ OfEndpoint(k[3], k[4]) => AtLeast(payload.data[wants], asOf)
      BY <1>12, <3>2 DEF PayloadInv, OfEndpoint
    <3> QED
      BY <1>8, <2>5, <3>1, <3>3, <3>4 DEF PayloadFits
  <2>11. RequestsInv' /\ PayloadsInv'
    BY <1>2, <1>9, <1>10, <2>4, <2>8, <2>9, <2>10, OneMoves
  <2>12. PagesInv'
    BY <1>2, <1>9, <2>11, QuietStep
  <2> QED
    BY <2>1, <2>12, AnswersNobody
<1> QED
  BY <1>14, <1>15, <1>16

\* A request waits for another, is answered from the cache, or is the one that assembles.
LEMMA JoinKeeps ==
    ASSUME PagesInv, NEW r \in Requests, Join(r)
    PROVE  PagesInv' /\ AnswersFit'
<1>1. request[r].stage = "join" /\ request[r].stage # "idle"
  BY DEF Join, In
<1>2. PagesStay /\ EndpointsStay /\ payloads' = payloads /\ clock' = clock /\ visit' = visit /\ verified' = verified
      /\ tally' = tally /\ refusals' = refusals
  BY DEF Join, pageVars, loginVars, endpointVars, PagesStay, EndpointsStay
<1>3. request[r].stage \notin BeforeLetIn /\ request[r].stage \in WithKey
  BY <1>1 DEF BeforeLetIn, WithKey
<1>4. PICK key : key = request[r].key
  OBVIOUS
<1>5. KeyInv(request[r])
  BY <1>1, <1>3, UnderWay
<1>6. CASE key \in flying
  <2>1. request' = [request EXCEPT ![r].stage = "waiting"] /\ answers' = {}
    BY <1>4, <1>6 DEF Join, GoTo
  <2>2. PICK stage \in StagesOfRequests \ {"idle", "assembled"} :
           stage = "waiting" /\ stage \in WithKey /\ stage \notin {"queued", "checking"}
    BY DEF StagesOfRequests, WithKey
  <2> QED
    BY <1>1, <1>2, <1>3, <2>1, <2>2, StageMoves
<1>7. CASE key \notin flying /\ Cached(key)
  <2>1. Answer(r, request[r].asOf, StatusOfPayload(payloads[key].payload), payloads[key].payload)
    BY <1>4, <1>7 DEF Join
  <2>2. key \in DOMAIN payloads
    BY <1>7 DEF Cached
  <2>3. /\ key[1] = request[r].published.revision /\ key[3] = request[r].wants /\ key[4] = request[r].key[4]
        /\ request[r].wants # WholePage /\ request[r].asOf.count # 0 => OfEndpoint(key[3], key[4])
    BY <1>4, <1>5, KeyOf
  <2>4. request[r].wants # WholePage /\ request[r].asOf.count > 0 => OfEndpoint(key[3], key[4])
    BY <2>3
  <2>5. AnswerFits(AnswerTo(r, request[r].asOf, StatusOfPayload(payloads[key].payload), payloads[key].payload))
    BY <1>1, <1>3, <2>2, <2>3, <2>4, CachedFits
  <2> QED
    BY <1>2, <2>1, <2>5, AnswerKeeps
<1>8. CASE key \notin flying /\ ~Cached(key)
  <2>1. request' = [request EXCEPT ![r].stage = "slot"] /\ answers' = {}
    BY <1>4, <1>8 DEF Join, GoTo
  <2>2. PICK stage \in StagesOfRequests \ {"idle", "assembled"} :
           stage = "slot" /\ stage \in WithKey /\ stage \notin {"queued", "checking"}
    BY DEF StagesOfRequests, WithKey
  <2> QED
    BY <1>1, <1>2, <1>3, <2>1, <2>2, StageMoves
<1> QED
  BY <1>6, <1>7, <1>8

\* Only so many payloads are assembled at a time; nothing else changes.
LEMMA AcquireSlotKeeps ==
    ASSUME PagesInv, NEW r \in Requests, AcquireSlot(r)
    PROVE  PagesInv' /\ AnswersFit'
<1>1. request[r].stage = "slot" /\ request[r].stage # "idle" /\ request' = [request EXCEPT ![r].stage = "assembling"]
      /\ answers' = {}
  BY DEF AcquireSlot, In, GoTo
<1>2. PagesStay /\ EndpointsStay /\ payloads' = payloads /\ clock' = clock /\ visit' = visit /\ verified' = verified
      /\ tally' = tally /\ refusals' = refusals
  BY DEF AcquireSlot, pageVars, cacheVars, loginVars, endpointVars, PagesStay, EndpointsStay
<1>3. PICK stage \in StagesOfRequests \ {"idle", "assembled"} :
         stage = "assembling" /\ stage \in WithKey /\ stage \notin {"queued", "checking"}
  BY DEF StagesOfRequests, WithKey
<1>4. request[r].stage \in WithKey /\ request[r].stage \notin BeforeLetIn
  BY <1>1 DEF WithKey, BeforeLetIn
<1> QED
  BY <1>1, <1>2, <1>3, <1>4, StageMoves

\* What a request assembled fits all who wait for it, and whoever asks for its key.
LEMMA AssembledFits ==
    ASSUME PagesInv, NEW r \in Requests, request[r].stage = "assembled"
    PROVE  /\ FittingPayload(request[r].key, request[r].payload)
           /\ \A q \in Requests :
                 In(q, "waiting") /\ request[q].key = request[r].key =>
                    /\ PayloadOf(request[r].payload, request[q].published)
                    /\ request[q].wants # WholePage /\ request[q].asOf.count > 0 =>
                          AtLeast(request[r].payload.data[request[q].wants], request[q].asOf)
<1>1. PICK x : x = request[r]
  OBVIOUS
<1>2. x.stage # "idle" /\ x.stage \in WithKey
  BY <1>1 DEF WithKey
<1>3. KeyInv(x) /\ RequestInv(x)
  BY <1>1, <1>2, UnderWay
<1>4. PICK key, payload, published, wants, asOf :
         key = x.key /\ payload = x.payload /\ published = x.published /\ wants = x.wants /\ asOf = x.asOf
  OBVIOUS
<1>5. /\ PayloadOf(payload, published)
      /\ wants # WholePage => AtLeast(payload.data[wants], asOf)
  BY <1>1, <1>3, <1>4 DEF KeyInv
<1>6. /\ key[1] = published.revision /\ key[3] = wants /\ key[4] \in 0..sequence
      /\ key = <<published.revision, published.generation, wants, key[4]>>
      /\ OfEndpoint(wants, key[4]) /\ key[4] = sequences[wants] => asOf = Told(wants)
      /\ wants # WholePage /\ asOf.count # 0 => OfEndpoint(wants, key[4])
  BY <1>3, <1>4, KeyOf
<1>7. published \in Captured /\ wants \in Wants /\ (published.revision = revisions => published = Published)
  BY <1>1, <1>2, <1>4, UnderWay
<1>8. KeyTyped(key)
  <2>1. published.revision \in Nat /\ published.generation \in Nat
    BY <1>7 DEF Captured
  <2>2. PICK revision \in Nat, load \in Nat, number \in 0..sequence :
           revision = published.revision /\ load = published.generation /\ number = key[4]
    BY <1>6, <2>1
  <2>3. key = <<revision, load, wants, number>>
    BY <1>6, <2>2
  <2> QED
    BY <1>7, <2>3 DEF KeyTyped
<1>9. PayloadInv(key, payload)
  BY <1>5, <1>6, <1>7 DEF PayloadInv, OfEndpoint
<1>10. ASSUME NEW q \in Requests, request[q].stage # "idle"
       PROVE  /\ published.revision = request[q].published.revision => PayloadOf(payload, request[q].published)
              /\ request[q].stage \in WithKey /\ wants = request[q].wants /\ key[4] = request[q].key[4]
                    /\ OfEndpoint(wants, key[4]) => AtLeast(payload.data[wants], request[q].asOf)
  <2>1. Agree(x, request[q])
    BY <1>1 DEF PagesInv, RequestsInv
  <2>2. published.revision = request[q].published.revision => published = request[q].published
    BY <1>2, <1>4, <1>10, <2>1 DEF Agree
  <2>3. request[q].stage \in WithKey /\ wants = request[q].wants /\ key[4] = request[q].key[4] /\ OfEndpoint(wants, key[4])
           => asOf = request[q].asOf
    BY <1>2, <1>4, <1>10, <2>1 DEF Agree
  <2> QED
    BY <1>5, <2>2, <2>3 DEF OfEndpoint
<1>11. \A q \in Requests : PayloadFits(key, payload, request[q])
  BY <1>6, <1>10 DEF PayloadFits
<1>12. ASSUME NEW q \in Requests, In(q, "waiting"), request[q].key = key
       PROVE  /\ PayloadOf(payload, request[q].published)
              /\ request[q].wants # WholePage /\ request[q].asOf.count > 0 =>
                    AtLeast(payload.data[request[q].wants], request[q].asOf)
  <2>1. request[q].stage # "idle" /\ request[q].stage \in WithKey
    BY <1>12 DEF In, WithKey
  <2>2. KeyInv(request[q])
    BY <2>1, UnderWay
  <2>3. /\ key[1] = request[q].published.revision /\ key[3] = request[q].wants
        /\ request[q].wants # WholePage /\ request[q].asOf.count # 0 => OfEndpoint(request[q].wants, key[4])
    BY <1>12, <2>2, KeyOf
  <2>4. request[q].asOf.count > 0 => request[q].asOf.count # 0
    OBVIOUS
  <2>5. published.revision = request[q].published.revision /\ wants = request[q].wants
    BY <1>6, <2>3
  <2> QED
    BY <1>10, <1>12, <2>1, <2>3, <2>4, <2>5
<1> QED
  BY <1>1, <1>4, <1>8, <1>9, <1>11, <1>12 DEF FittingPayload

\* What ends an assembly answers all who wait for it, with a payload that fits them or without one.
LEMMA LandKeeps ==
    ASSUME PagesInv, NEW r \in Requests, request[r].stage \in {"slot", "assembling", "assembled"}, NEW payload,
           Land(r, payload), payload = Unavailable \/ (request[r].stage = "assembled" /\ payload = request[r].payload),
           PagesStay, EndpointsStay, clock' = clock, visit' \in Visit,
           verified' = verified, tally' = tally, refusals' = refusals,
           \/ payloads' = payloads
           \/ \E expires : payloads' = With(payloads, request[r].key, [payload |-> payload, expires |-> expires])
    PROVE  PagesInv' /\ AnswersFit'
<1>1. request[r].stage # "idle" /\ request[r].stage \in WithKey /\ request[r].stage \notin BeforeLetIn
  BY DEF WithKey, BeforeLetIn
<1>2. clock \in Nat /\ RequestsInv /\ PayloadsInv
  BY DEF PagesInv, VisitTyped
<1>3. PICK sharing : sharing = {r} \cup {q \in Requests : In(q, "waiting") /\ request[q].key = request[r].key}
  OBVIOUS
<1>4. /\ request' = [q \in Requests |-> IF q \in sharing THEN NoRequest ELSE request[q]]
      /\ answers' = {AnswerTo(q, request[q].asOf, StatusOfPayload(payload), payload) : q \in sharing}
  BY <1>3 DEF Land
<1>5. FittingPayload(request[r].key, payload)
  <2>1. CASE payload = Unavailable
    <3>1. KeyInv(request[r]) /\ request[r].published \in Captured /\ request[r].wants \in Wants
      BY <1>1, UnderWay
    <3>2. PICK key, published, wants :
             key = request[r].key /\ published = request[r].published /\ wants = request[r].wants
      OBVIOUS
    <3>3. key[4] \in 0..sequence /\ key = <<published.revision, published.generation, wants, key[4]>>
      BY <3>1, <3>2, KeyOf
    <3>4. published.revision \in Nat /\ published.generation \in Nat
      BY <3>1, <3>2 DEF Captured
    <3>5. PICK revision \in Nat, load \in Nat, number \in 0..sequence :
             revision = published.revision /\ load = published.generation /\ number = key[4]
      BY <3>3, <3>4
    <3>6. key = <<revision, load, wants, number>>
      BY <3>3, <3>5
    <3>7. KeyTyped(key)
      BY <3>1, <3>2, <3>6 DEF KeyTyped
    <3> QED
      BY <2>1, <3>2, <3>7 DEF FittingPayload
  <2>2. CASE request[r].stage = "assembled" /\ payload = request[r].payload
    BY <2>2, AssembledFits
  <2> QED
    BY <2>1, <2>2
<1>6. RequestsInv' /\ PayloadsInv'
  <2>1. \/ payloads' = payloads
        \/ \E key, left, expires :
              /\ FittingPayload(key, left)
              /\ payloads' = With(payloads, key, [payload |-> left, expires |-> expires])
    BY <1>5
  <2> QED
    BY <1>2, <1>4, <2>1, SomeEnd
<1>7. PagesInv'
  BY <1>2, <1>6, QuietStep
<1>8. ASSUME NEW q \in sharing
      PROVE  AnswerFits(AnswerTo(q, request[q].asOf, StatusOfPayload(payload), payload))
  <2>1. PICK status : status = StatusOfPayload(payload)
    OBVIOUS
  <2>2. status # 429 /\ (status = 200 => payload # Unavailable)
    BY <2>1 DEF StatusOfPayload
  <2>3. q \in Requests /\ (q = r \/ (In(q, "waiting") /\ request[q].key = request[r].key))
    BY <1>3, <1>8
  <2>4. request[q].stage # "idle" /\ request[q].stage \notin BeforeLetIn
    BY <1>1, <2>3 DEF In, BeforeLetIn
  <2>5. request[q].published.page.login \in {Unset, request[q].credential}
    BY <2>3, <2>4, UnderWay
  <2>6. status = 200 =>
           /\ PayloadOf(payload, request[q].published)
           /\ request[q].wants # WholePage /\ request[q].asOf.count > 0 =>
                 AtLeast(payload.data[request[q].wants], request[q].asOf)
    <3> HAVE status = 200
    <3>1. request[r].stage = "assembled" /\ payload = request[r].payload
      BY <2>2
    <3>2. CASE q = r
      <4>1. KeyInv(request[r])
        BY <1>1, UnderWay
      <4> QED
        BY <3>1, <3>2, <4>1 DEF KeyInv
    <3>3. CASE q # r
      BY <2>3, <3>1, <3>3, AssembledFits
    <3> QED
      BY <3>2, <3>3
  <2>7. AnswerFits(AnswerTo(q, request[q].asOf, status, payload))
    BY <2>2, <2>5, <2>6, AnswerOf
  <2> QED
    BY <2>1, <2>7
<1>9. AnswersFit'
  <2>1. PICK new : new = {AnswerTo(q, request[q].asOf, StatusOfPayload(payload), payload) : q \in sharing}
    OBVIOUS
  <2>2. \A a \in new : AnswerFits(a)
    BY <1>8, <2>1
  <2>3. answers' = new
    BY <1>4, <2>1
  <2> QED
    BY <2>2, <2>3, FittingAnswers
<1> QED
  BY <1>7, <1>9

\* A request that found no slot in time is answered without a payload, and nothing is cached.
LEMMA SlotTimesOutKeeps ==
    ASSUME PagesInv, NEW r \in Requests, SlotTimesOut(r)
    PROVE  PagesInv' /\ AnswersFit'
<1>1. request[r].stage \in {"slot", "assembling", "assembled"} /\ Land(r, Unavailable)
  BY DEF SlotTimesOut, In
<1>2. PagesStay /\ EndpointsStay /\ payloads' = payloads /\ clock' = clock /\ visit' = visit /\ verified' = verified
      /\ tally' = tally /\ refusals' = refusals
  BY DEF SlotTimesOut, pageVars, loginVars, endpointVars, PagesStay, EndpointsStay
<1>3. visit' \in Visit
  BY <1>2 DEF PagesInv, VisitTyped
<1> QED
  BY <1>1, <1>2, <1>3, LandKeeps

\* A payload that was assembled is cached.
LEMMA CachePayloadKeeps ==
    ASSUME PagesInv, NEW r \in Requests, CachePayload(r)
    PROVE  PagesInv' /\ AnswersFit'
<1>1. request[r].stage = "assembled" /\ Land(r, request[r].payload)
  BY DEF CachePayload, In
<1>2. PagesStay /\ EndpointsStay /\ clock' = clock /\ visit' = visit /\ verified' = verified /\ tally' = tally
      /\ refusals' = refusals
  BY DEF CachePayload, pageVars, loginVars, endpointVars, PagesStay, EndpointsStay
<1>3. visit' \in Visit
  BY <1>2 DEF PagesInv, VisitTyped
<1>4. \E expires : payloads' = With(payloads, request[r].key, [payload |-> request[r].payload, expires |-> expires])
  BY DEF CachePayload
<1> QED
  BY <1>1, <1>2, <1>3, <1>4, LandKeeps

\* What cannot be assembled is remembered as unavailable for a while.
LEMMA AssembleFailsKeeps ==
    ASSUME PagesInv, NEW r \in Requests, AssembleFails(r)
    PROVE  PagesInv' /\ AnswersFit'
<1>1. request[r].stage \in {"slot", "assembling", "assembled"} /\ Land(r, Unavailable) /\ Spend("failures")
  BY DEF AssembleFails, In
<1>2. PagesStay /\ EndpointsStay /\ clock' = clock /\ verified' = verified /\ tally' = tally /\ refusals' = refusals
  BY DEF AssembleFails, pageVars, loginVars, endpointVars, PagesStay, EndpointsStay
<1>3. visit' \in Visit
  <2>1. visit \in Visit /\ "failures" \in Countable
    BY DEF PagesInv, VisitTyped, Countable
  <2> QED
    BY <1>1, <2>1, VisitSpent
<1>4. \E expires : payloads' = With(payloads, request[r].key, [payload |-> Unavailable, expires |-> expires])
  BY DEF AssembleFails
<1> QED
  BY <1>1, <1>2, <1>3, <1>4, LandKeeps

\* A payload is assembled of what the request captured, from what is recorded then.
LEMMA AssembleKeeps ==
    ASSUME PagesInv, NEW r \in Requests, Assemble(r)
    PROVE  PagesInv' /\ AnswersFit'
<1>1. request[r].stage = "assembling" /\ request[r].stage # "idle" /\ request[r].stage \in WithKey
      /\ request[r].stage \notin BeforeLetIn
  BY DEF Assemble, In, WithKey, BeforeLetIn
<1>2. PagesStay /\ EndpointsStay /\ payloads' = payloads /\ clock' = clock /\ visit' = visit /\ verified' = verified
      /\ tally' = tally /\ refusals' = refusals /\ answers' = {}
  BY DEF Assemble, pageVars, cacheVars, loginVars, endpointVars, PagesStay, EndpointsStay
<1>3. PICK x : x = request[r]
  OBVIOUS
<1>4. PICK published, wants : published = x.published /\ wants = x.wants
  OBVIOUS
<1>5. /\ IsRequest(x) /\ wants \in Wants /\ published \in Captured /\ published.revision <= revisions
      /\ published.revision = revisions => published = Published
      /\ published.page.login \in {Unset, x.credential}
      /\ KeyInv(x) /\ clock \in Nat /\ visit \in Visit
  BY <1>1, <1>3, <1>4, UnderWay
<1>6. EndpointsTyped /\ RequestsInv /\ PayloadsInv
  BY DEF PagesInv
<1>7. PICK chosen : chosen = IF wants = WholePage THEN Selected(published.page, published.limit) ELSE {wants}
  OBVIOUS
<1>8. PICK payload : payload = [page |-> published.page, data |-> [e \in chosen |-> recorded[e]]]
  OBVIOUS
<1>9. request' = [request EXCEPT ![r].stage = "assembled", ![r].payload = payload]
  BY <1>3, <1>4, <1>7, <1>8 DEF Assemble
<1>10. PICK y : y = RequestWith("assembled", x.wants, x.credential, x.published, x.time, x.key, x.asOf, payload)
  OBVIOUS
<1>11. request' = [request EXCEPT ![r] = y]
  <2>1. PICK stage : stage = "assembled"
    OBVIOUS
  <2>2. [x EXCEPT !.stage = stage, !.payload = payload]
           = RequestWith(stage, x.wants, x.credential, x.published, x.time, x.key, x.asOf, payload)
    BY <1>5, FilledAs
  <2>3. [x EXCEPT !.stage = "assembled", !.payload = payload] = y
    BY <1>10, <2>1, <2>2
  <2> QED
    BY <1>3, <1>9, <2>3
<1>12. /\ IsRequest(y) /\ y.stage = "assembled" /\ y.wants = wants /\ y.credential = x.credential
       /\ y.published = published /\ y.key = x.key /\ y.asOf = x.asOf /\ y.payload = payload
  BY <1>4, <1>10, FieldsOf
<1>13. Cardinality(chosen) <= published.limit
  <2>1. CASE wants = WholePage
    <3>1. published.page \in Pages /\ published.limit \in Nat /\ existing \subseteq Endpoints
      BY <1>5, <1>6 DEF Captured, EndpointsTyped
    <3> QED
      BY <1>7, <2>1, <3>1, SelectedAre
  <2>2. CASE wants # WholePage
    <3>1. published.limit > 0 /\ published.limit \in Nat
      BY <1>4, <1>5, <2>2 DEF KeyInv, Captured
    <3>2. Cardinality({wants}) = 1
      BY FS_Singleton
    <3> QED
      BY <1>7, <2>2, <3>1, <3>2
  <2> QED
    BY <2>1, <2>2
<1>14. PayloadOf(payload, published)
  <2>1. PICK entries : entries = [e \in chosen |-> recorded[e]]
    OBVIOUS
  <2>2. DOMAIN entries = chosen /\ payload.page = published.page /\ payload.data = entries
    BY <1>8, <2>1
  <2> QED
    BY <1>13, <2>2 DEF PayloadOf
<1>15. wants # WholePage => AtLeast(payload.data[wants], x.asOf)
  <2> HAVE wants # WholePage
  <2>1. payload.data[wants] = recorded[wants]
    BY <1>7, <1>8
  <2>2. AtLeast(recorded[wants], x.asOf)
    BY <1>4, <1>5 DEF KeyInv
  <2> QED
    BY <2>1, <2>2
<1>16. KeyInv(y)
  <2>1. PICK key, asOf : key = x.key /\ asOf = x.asOf
    OBVIOUS
  <2>2. \E number \in 0..sequence :
           /\ key = <<published.revision, published.generation, wants, number>>
           /\ OfEndpoint(wants, number) /\ number = sequences[wants] => asOf = Told(wants)
           /\ number = 0 /\ wants # WholePage => asOf.count = 0
    BY <1>4, <1>5, <2>1 DEF KeyInv
  <2>3. wants # WholePage => published.limit > 0 /\ asOf \in Tales /\ AtLeast(recorded[wants], asOf)
    BY <1>4, <1>5, <2>1 DEF KeyInv
  <2>4. y.wants = wants /\ y.published = published /\ y.key = key /\ y.asOf = asOf /\ y.payload = payload
    BY <1>12, <2>1
  <2> QED
    BY <1>14, <1>15, <2>1, <2>2, <2>3, <2>4 DEF KeyInv
<1>17. y.stage \in StagesOfRequests /\ y.stage # "idle" /\ y.stage \notin {"queued", "checking"} /\ y.stage \in WithKey
  BY <1>12 DEF StagesOfRequests, WithKey
<1>18. RequestInv(y)
  BY <1>5, <1>12, <1>16, <1>17 DEF RequestInv
<1>19. RequestsInv' /\ PayloadsInv'
  BY <1>1, <1>2, <1>3, <1>4, <1>5, <1>6, <1>11, <1>12, <1>18, GoesOnWith
<1>20. PagesInv'
  BY <1>2, <1>5, <1>19, QuietStep
<1> QED
  BY <1>2, <1>20, AnswersNobody

-----------------------------------------------------------------------------
(* The steps of the administration, the endpoints and the clock *)

\* A step that changes what is published: a new revision, which no request captured and no payload is kept for.
LEMMA PublishedAnew ==
    ASSUME RequestsInv, PayloadsInv, VisitTyped, EndpointsStay, request' = request, payloads' = Nothing,
           clock' = clock, snapshot'.revision = revisions + 1, revisions' = revisions + 1
    PROVE  RequestsInv' /\ PayloadsInv'
<1>1. revisions \in Nat
  BY DEF VisitTyped
<1>2. PICK newest : newest = revisions
  OBVIOUS
<1>3. PICK requests : requests = request
  OBVIOUS
<1>4. \A e : Told(e)' = Told(e)
  BY DEF Told, EndpointsStay
<1>5. ASSUME NEW x, RequestInv(x) PROVE RequestInv(x)'
  <2>1. KeyInv(x) => KeyInv(x)'
    BY <1>4 DEF KeyInv, EndpointsStay
  <2>2. x.stage # "idle" => x.published \in Captured /\ x.published.revision <= revisions
    BY <1>5 DEF RequestInv
  <2>3. x.stage # "idle" => x.published.revision <= revisions' /\ x.published.revision # revisions'
    BY <1>1, <2>2 DEF Captured
  <2> QED
    BY <1>5, <2>1, <2>3 DEF RequestInv
<1>6. \A r \in Requests : RequestInv(requests[r])
  BY <1>3 DEF RequestsInv
<1>7. \A r \in Requests : RequestInv(requests[r])'
  BY <1>5, <1>6
<1>8. \A r \in Requests : RequestInv(request[r])'
  <2> TAKE r \in Requests
  <2>1. RequestInv(requests[r])'
    BY <1>7
  <2> QED
    BY <1>3, <2>1 DEF RequestInv, KeyInv
<1>9. RequestsInv'
  <2>1. \A q, r \in Requests : Agree(request[q], request[r])'
    BY DEF RequestsInv, Agree
  <2>2. DOMAIN request' = Requests
    BY DEF RequestsInv
  <2> QED
    BY <1>8, <2>1, <2>2 DEF RequestsInv
<1>10. PayloadsInv'
  <2>1. DOMAIN payloads' = {}
    BY DEF Nothing
  <2> QED
    BY <2>1 DEF PayloadsInv
<1> QED
  BY <1>9, <1>10

\* A managed page is published, changed or taken back.
LEMMA PublishManagedKeeps ==
    ASSUME PagesInv, NEW page \in Pages \cup {Unset}, PublishManaged(page), Spend("changes")
    PROVE  PagesInv' /\ AnswersFit'
<1>1. /\ stored' = page /\ snapshot' = [snapshot EXCEPT !.managed = page, !.revision = revisions + 1]
      /\ revisions' = revisions + 1 /\ payloads' = Nothing /\ request' = request /\ answers' = {}
      /\ clock' = clock /\ generations' = generations /\ verified' = verified /\ tally' = tally /\ refusals' = refusals
      /\ EndpointsStay
  BY DEF PublishManaged, Silent, loginVars, endpointVars, EndpointsStay
<1>2. VisitTyped /\ EndpointsTyped /\ RequestsInv /\ PayloadsInv /\ FailuresInv /\ VerifiedInv
  BY DEF PagesInv
<1>3. PICK old \in [served : BOOLEAN, page : Pages \cup {Unset}, limit : Nat, managed : Pages \cup {Unset},
                    revision : Nat, generation : Nat] : old = snapshot
  BY <1>2 DEF VisitTyped
<1>4. PICK newest \in Nat : newest = revisions + 1
  BY <1>2 DEF VisitTyped
<1>5. PICK new \in [served : BOOLEAN, page : Pages \cup {Unset}, limit : Nat, managed : Pages \cup {Unset},
                    revision : Nat, generation : Nat] : new = snapshot' /\ new.revision = newest
  <2>1. snapshot' = [old EXCEPT !.managed = page, !.revision = newest]
    BY <1>1, <1>3, <1>4
  <2>2. PICK middle \in [served : BOOLEAN, page : Pages \cup {Unset}, limit : Nat, managed : Pages \cup {Unset},
                         revision : Nat, generation : Nat] : middle = [old EXCEPT !.managed = page]
    OBVIOUS
  <2>3. PICK last \in [served : BOOLEAN, page : Pages \cup {Unset}, limit : Nat, managed : Pages \cup {Unset},
                       revision : Nat, generation : Nat] : last = [middle EXCEPT !.revision = newest]
    OBVIOUS
  <2>4. last.revision = newest
    BY <2>3
  <2>5. snapshot' = last
    BY <2>1, <2>2, <2>3
  <2> QED
    BY <2>4, <2>5
<1>6. visit' \in Visit
  <2>1. "changes" \in Countable /\ visit \in Visit
    BY <1>2 DEF Countable, VisitTyped
  <2> QED
    BY <2>1, VisitSpent
<1>7. VisitTyped'
  BY <1>1, <1>2, <1>4, <1>5, <1>6 DEF VisitTyped
<1>8. EndpointsTyped'
  BY <1>1, <1>2 DEF EndpointsTyped, EndpointsStay, Told
<1>9. RequestsInv' /\ PayloadsInv'
  BY <1>1, <1>2, <1>4, <1>5, PublishedAnew
<1>10. FailuresInv' /\ VerifiedInv'
  BY <1>1, <1>2 DEF FailuresInv, Refused, VerifiedInv
<1> QED
  BY <1>1, <1>7, <1>8, <1>9, <1>10, AnswersNobody DEF PagesInv

\* A page is written: it is one of those that can be.
LEMMA WritePageKeeps ==
    ASSUME PagesInv, NEW page \in visit.pages, WritePage(page)
    PROVE  PagesInv' /\ AnswersFit'
<1>1. visit.pages \in SUBSET Pages
  BY DEF PagesInv, VisitTyped, Visit
<1>2. page \in Pages \cup {Unset} /\ PublishManaged(page) /\ Spend("changes")
  BY <1>1 DEF WritePage
<1> QED
  BY <1>2, PublishManagedKeeps

\* A page is deleted.
LEMMA DeletePageKeeps ==
    ASSUME PagesInv, DeletePage
    PROVE  PagesInv' /\ AnswersFit'
<1>1. Unset \in Pages \cup {Unset} /\ PublishManaged(Unset) /\ Spend("changes")
  BY DEF DeletePage
<1> QED
  BY <1>1, PublishManagedKeeps

\* A load publishes what is installed and stored, with a new revision, and forgets verifications and failures.
LEMMA ReloadPagesKeeps ==
    ASSUME PagesInv, NEW installation \in visit.installations, NEW readable, ReloadPages(installation, readable)
    PROVE  PagesInv' /\ AnswersFit'
<1>1. PICK managed : managed = IF readable THEN stored ELSE Unset
  OBVIOUS
<1>2. /\ generations' = generations + 1 /\ revisions' = revisions + 1
      /\ snapshot' = Snapshot(installation, managed, revisions + 1, generations + 1)
      /\ payloads' = Nothing /\ verified' = Nothing /\ tally' = NoFailures /\ refusals' = <<>>
      /\ request' = request /\ answers' = {} /\ stored' = stored /\ clock' = clock /\ EndpointsStay /\ Spend("loads")
  BY <1>1 DEF ReloadPages, Silent, endpointVars, EndpointsStay
<1>3. VisitTyped /\ EndpointsTyped /\ RequestsInv /\ PayloadsInv
  BY DEF PagesInv
<1>4. installation \in [served : BOOLEAN, page : Pages \cup {Unset}, limit : Nat]
  <2>1. visit.installations \in SUBSET [served : BOOLEAN, page : Pages \cup {Unset}, limit : Nat]
    BY <1>3 DEF VisitTyped, Visit
  <2> QED
    BY <2>1
<1>5. PICK newest \in Nat, load \in Nat : newest = revisions + 1 /\ load = generations + 1
  BY <1>3 DEF VisitTyped
<1>6. managed \in Pages \cup {Unset}
  BY <1>1, <1>3 DEF VisitTyped
<1>7. PICK new \in [served : BOOLEAN, page : Pages \cup {Unset}, limit : Nat, managed : Pages \cup {Unset},
                    revision : Nat, generation : Nat] : new = snapshot' /\ new.revision = newest
  <2>1. PICK served \in BOOLEAN, page \in Pages \cup {Unset}, limit \in Nat :
           served = installation.served /\ page = installation.page /\ limit = installation.limit
    BY <1>4
  <2>2. PICK last : last = [served |-> served, page |-> page, limit |-> limit, managed |-> managed, revision |-> newest,
                            generation |-> load]
    OBVIOUS
  <2>3. last \in [served : BOOLEAN, page : Pages \cup {Unset}, limit : Nat, managed : Pages \cup {Unset},
                  revision : Nat, generation : Nat] /\ last.revision = newest
    BY <1>6, <2>1, <2>2
  <2>4. snapshot' = last
    BY <1>2, <1>5, <2>1, <2>2 DEF Snapshot
  <2> QED
    BY <2>3, <2>4
<1>8. visit' \in Visit
  <2>1. "loads" \in Countable /\ visit \in Visit
    BY <1>3 DEF Countable, VisitTyped
  <2> QED
    BY <1>2, <2>1, VisitSpent
<1>9. VisitTyped'
  BY <1>2, <1>3, <1>5, <1>7, <1>8 DEF VisitTyped
<1>10. EndpointsTyped'
  BY <1>2, <1>3 DEF EndpointsTyped, EndpointsStay, Told
<1>11. RequestsInv' /\ PayloadsInv'
  BY <1>2, <1>3, <1>5, <1>7, PublishedAnew
<1>12. FailuresInv'
  <2>1. FailureWindow \in Nat /\ clock \in Nat
    BY <1>3, VisitsAssumption DEF VisitTyped
  <2>2. PICK none : none = [count |-> 0, expires |-> 0]
    OBVIOUS
  <2>3. none \in [count : Nat, expires : Nat] /\ none.count = 0 /\ none.expires = 0
    BY <2>2
  <2>4. tally' = none
    BY <1>2, <2>2 DEF NoFailures
  <2>5. 0 - FailureWindow <= clock
    BY <2>1
  <2>6. PICK list : list = <<>> /\ list \in Seq(Nat) /\ Len(list) = 0
    BY EmptySeq
  <2>7. refusals' = list
    BY <1>2, <2>6
  <2>8. \A t : Refused(t)' = {}
    BY <2>6, <2>7 DEF Refused
  <2>9. \A t : Cardinality(Refused(t)') = 0
    BY <2>8, FS_EmptySet
  <2>10. (tally.count <= Cardinality(Refused(tally.expires - FailureWindow)))'
    BY <2>3, <2>4, <2>9
  <2> QED
    BY <1>2, <2>3, <2>4, <2>5, <2>6, <2>7, <2>10 DEF FailuresInv
<1>13. VerifiedInv'
  <2>1. DOMAIN verified' = {}
    BY <1>2 DEF Nothing
  <2> QED
    BY <2>1 DEF VerifiedInv
<1> QED
  BY <1>2, <1>9, <1>10, <1>11, <1>12, <1>13, AnswersNobody DEF PagesInv

\* Results are only added, or forgotten with their endpoint.
LEMMA AtLeastAll ==
    ASSUME NEW later \in Tales, NEW tale \in Tales, NEW asOf \in Tales, AtLeast(later, tale), AtLeast(tale, asOf)
    PROVE  AtLeast(later, asOf)
<1>1. PICK a \in Nat, b \in Nat, c \in Nat : a = later.life /\ b = tale.life /\ c = asOf.life
  BY DEF Tales
<1>2. PICK i \in Nat, j \in Nat, k \in Nat : i = later.count /\ j = tale.count /\ k = asOf.count
  BY DEF Tales
<1>3. (a > b \/ (a = b /\ i >= j)) /\ (b > c \/ (b = c /\ j >= k))
  BY <1>1, <1>2 DEF AtLeast
<1>4. a > c \/ (a = c /\ i >= k)
  BY <1>3
<1> QED
  BY <1>1, <1>2, <1>4 DEF AtLeast

\* A step that changes the endpoints: what was told under a sequence is what is told under it, or nobody asks for it again.
LEMMA EndpointsMove ==
    ASSUME RequestsInv, PayloadsInv, PagesStay, request' = request, payloads' = payloads, clock' = clock,
           NEW before \in Nat, before = sequence, NEW after \in Nat, after = sequence', before <= after,
           NEW old \in [Endpoints -> Tales], old = recorded, NEW new \in [Endpoints -> Tales], new = recorded',
           NEW numbers \in [Endpoints -> Nat], numbers = sequences',
           \A e \in Endpoints : AtLeast(new[e], old[e]),
           \A e \in Endpoints :
              numbers[e] = 0 \/ numbers[e] > before \/ (numbers[e] = sequences[e] /\ Told(e)' = Told(e))
    PROVE  RequestsInv' /\ PayloadsInv'
<1>1. PICK requests, cached : requests = request /\ cached = payloads
  OBVIOUS
<1>2. \A e \in Endpoints : e # WholePage
  BY VisitsAssumption
<1>3. ASSUME NEW x, KeyInv(x), x.wants \in Wants PROVE KeyInv(x)'
  <2>1. PICK number \in 0..before :
           /\ x.key = <<x.published.revision, x.published.generation, x.wants, number>>
           /\ OfEndpoint(x.wants, number) /\ number = sequences[x.wants] => x.asOf = Told(x.wants)
           /\ number = 0 /\ x.wants # WholePage => x.asOf.count = 0
    BY <1>3 DEF KeyInv
  <2>2. number \in 0..after
    BY <2>1
  <2>3. ASSUME OfEndpoint(x.wants, number), number = numbers[x.wants] PROVE x.asOf = Told(x.wants)'
    <3>1. x.wants \in Endpoints /\ number > 0 /\ number <= before
      BY <1>3, <2>3 DEF OfEndpoint, Wants
    <3>2. numbers[x.wants] = sequences[x.wants] /\ Told(x.wants)' = Told(x.wants)
      BY <2>3, <3>1
    <3> QED
      BY <2>1, <2>3, <3>2
  <2>4. ASSUME x.wants # WholePage PROVE AtLeast(new[x.wants], x.asOf)
    <3>1. x.wants \in Endpoints /\ x.asOf \in Tales /\ AtLeast(old[x.wants], x.asOf)
      BY <1>3, <2>4 DEF KeyInv, Wants
    <3>2. new[x.wants] \in Tales /\ old[x.wants] \in Tales /\ AtLeast(new[x.wants], old[x.wants])
      BY <3>1
    <3> QED
      BY <3>1, <3>2, AtLeastAll
  <2>5. \E n \in 0..after :
           /\ x.key = <<x.published.revision, x.published.generation, x.wants, n>>
           /\ OfEndpoint(x.wants, n) /\ n = numbers[x.wants] => x.asOf = Told(x.wants)'
           /\ n = 0 /\ x.wants # WholePage => x.asOf.count = 0
    BY <2>1, <2>2, <2>3
  <2>6. x.wants # WholePage => x.published.limit > 0 /\ x.asOf \in Tales
    BY <1>3 DEF KeyInv
  <2>7. x.stage = "assembled" =>
           /\ PayloadOf(x.payload, x.published)
           /\ x.wants # WholePage => AtLeast(x.payload.data[x.wants], x.asOf)
    BY <1>3 DEF KeyInv
  <2>8. (\E n \in 0..sequence :
           /\ x.key = <<x.published.revision, x.published.generation, x.wants, n>>
           /\ OfEndpoint(x.wants, n) /\ n = sequences[x.wants] => x.asOf = Told(x.wants)
           /\ n = 0 /\ x.wants # WholePage => x.asOf.count = 0)'
    BY <2>5
  <2>9. (x.wants # WholePage => AtLeast(recorded[x.wants], x.asOf))'
    BY <2>4
  <2> QED
    BY <2>6, <2>7, <2>8, <2>9 DEF KeyInv
<1>4. Published' = Published
  BY DEF PagesStay, Published
<1>5. ASSUME NEW x, RequestInv(x) PROVE RequestInv(x)'
  <2>1. x.stage # "idle" /\ x.stage \in WithKey => KeyInv(x)'
    BY <1>3, <1>5 DEF RequestInv
  <2> QED
    BY <1>4, <1>5, <2>1 DEF RequestInv, PagesStay
<1>6. \A r \in Requests : RequestInv(requests[r])'
  BY <1>1, <1>5 DEF RequestsInv
<1>7. \A r \in Requests : RequestInv(request[r])'
  <2> TAKE r \in Requests
  <2>1. RequestInv(requests[r])'
    BY <1>6
  <2> QED
    BY <1>1, <2>1 DEF RequestInv, KeyInv
<1>8. RequestsInv'
  <2>1. \A q, r \in Requests : Agree(request[q], request[r])'
    BY DEF RequestsInv, Agree
  <2>2. DOMAIN request' = Requests
    BY DEF RequestsInv
  <2> QED
    BY <1>7, <2>1, <2>2 DEF RequestsInv
<1>9. ASSUME NEW key \in DOMAIN cached PROVE KeyTyped(key)'
  <2>1. KeyTyped(key)
    BY <1>1 DEF PayloadsInv
  <2>2. 0..before \subseteq 0..after
    OBVIOUS
  <2> QED
    BY <2>1, <2>2 DEF KeyTyped
<1>10. ASSUME NEW key \in DOMAIN cached, NEW payload, payload = cached[key].payload, payload # Unavailable
       PROVE  PayloadInv(key, payload)' /\ \A r \in Requests : PayloadFits(key, payload, requests[r])
  <2>1. KeyTyped(key) /\ PayloadInv(key, payload) /\ \A r \in Requests : PayloadFits(key, payload, requests[r])
    BY <1>1, <1>10 DEF PayloadsInv
  <2>2. PICK revision \in Nat, load \in Nat, wants \in Wants, number \in 0..before :
           key = <<revision, load, wants, number>>
    BY <2>1 DEF KeyTyped
  <2>3. key[1] = revision /\ key[3] = wants /\ key[4] = number
    BY <2>2
  <2>4. revision = revisions => PayloadOf(payload, Published)
    BY <2>1, <2>3 DEF PayloadInv
  <2>5. ASSUME OfEndpoint(wants, number), number = numbers[wants] PROVE AtLeast(payload.data[wants], Told(wants)')
    <3>1. wants \in Endpoints /\ number > 0 /\ number <= before
      BY <2>2, <2>5 DEF OfEndpoint, Wants
    <3>2. number = sequences[wants] /\ Told(wants)' = Told(wants)
      BY <2>5, <3>1
    <3>3. AtLeast(payload.data[wants], Told(wants))
      BY <2>1, <2>3, <2>5, <3>2 DEF PayloadInv
    <3> QED
      BY <3>2, <3>3
  <2>6. (key[1] = revisions => PayloadOf(payload, Published))'
    BY <1>4, <2>3, <2>4 DEF PagesStay
  <2>7. (OfEndpoint(key[3], key[4]) /\ key[4] = sequences[key[3]] => AtLeast(payload.data[key[3]], Told(key[3])))'
    BY <2>3, <2>5
  <2> QED
    BY <2>1, <2>6, <2>7 DEF PayloadInv
<1>11. PayloadsInv'
  <2>1. ASSUME NEW key \in DOMAIN cached, cached[key].payload # Unavailable, NEW r \in Requests
        PROVE  PayloadFits(key, payloads[key].payload, request[r])'
    <3>1. PayloadFits(key, cached[key].payload, requests[r])
      BY <1>10, <2>1
    <3> QED
      BY <1>1, <3>1 DEF PayloadFits, PayloadOf
  <2>2. ASSUME NEW key \in DOMAIN cached, cached[key].payload # Unavailable
        PROVE  PayloadInv(key, payloads[key].payload)'
    <3>1. PayloadInv(key, cached[key].payload)'
      BY <1>10, <2>2
    <3> QED
      BY <1>1, <3>1 DEF PayloadInv, PayloadOf
  <2> QED
    BY <1>1, <1>9, <2>1, <2>2 DEF PayloadsInv
<1> QED
  BY <1>8, <1>11

\* What concerns neither the requests nor the endpoints is not changed with them.
LEMMA EndpointsStep ==
    ASSUME PagesInv, PagesStay, request' = request, payloads' = payloads, clock' = clock, answers' = {},
           verified' = verified, tally' = tally, refusals' = refusals, visit' \in Visit,
           EndpointsTyped', RequestsInv' /\ PayloadsInv'
    PROVE  PagesInv' /\ AnswersFit'
<1>1. VisitTyped'
  BY DEF PagesInv, VisitTyped, PagesStay
<1>2. FailuresInv' /\ VerifiedInv'
  BY DEF PagesInv, FailuresInv, Refused, VerifiedInv
<1> QED
  BY <1>1, <1>2, AnswersNobody DEF PagesInv

\* A tale is at least itself.
LEMMA AtLeastItself ==
    ASSUME NEW tale \in Tales
    PROVE  AtLeast(tale, tale)
<1>1. PICK life \in Nat, count \in Nat : life = tale.life /\ count = tale.count
  BY DEF Tales
<1> QED
  BY <1>1 DEF AtLeast

\* What is known of the endpoints, with names for it
LEMMA EndpointsNamed ==
    ASSUME EndpointsTyped
    PROVE  \E old \in [Endpoints -> Tales], before \in Nat : \E ordinals \in [Endpoints -> 0..before] :
              old = recorded /\ before = sequence /\ ordinals = sequences
  BY DEF EndpointsTyped

\* A tale with a life and a count
LEMMA TaleOf ==
    ASSUME NEW life \in Nat, NEW count \in Nat
    PROVE  \E tale \in Tales : tale = [life |-> life, count |-> count] /\ tale.life = life /\ tale.count = count
<1>1. PICK tale : tale = [life |-> life, count |-> count]
  OBVIOUS
<1>2. tale \in Tales /\ tale.life = life /\ tale.count = count
  BY <1>1 DEF Tales
<1> QED
  BY <1>1, <1>2

\* A result is stored before it is published: nothing more is told of its endpoint yet.
LEMMA StoreResultKeeps ==
    ASSUME PagesInv, NEW e \in Endpoints, StoreResult(e)
    PROVE  PagesInv' /\ AnswersFit'
<1>1. EndpointsTyped /\ RequestsInv /\ PayloadsInv /\ visit \in Visit
  BY DEF PagesInv, VisitTyped
<1>2. PICK old \in [Endpoints -> Tales], before \in Nat, ordinals \in [Endpoints -> Nat] :
         old = recorded /\ before = sequence /\ ordinals = sequences /\ ordinals \in [Endpoints -> 0..before]
  BY <1>1, EndpointsNamed
<1>3. /\ e \in existing /\ e \notin unpublished /\ Spend("results") /\ recorded' = [old EXCEPT ![e].count = @ + 1]
      /\ unpublished' = unpublished \cup {e} /\ existing' = existing /\ sequence' = sequence /\ sequences' = sequences
      /\ PagesStay /\ request' = request /\ payloads' = payloads /\ clock' = clock /\ answers' = {}
      /\ verified' = verified /\ tally' = tally /\ refusals' = refusals
  BY <1>2 DEF StoreResult, Silent, pageVars, cacheVars, loginVars, PagesStay
<1>4. PICK life \in Nat, count \in Nat : old[e] = [life |-> life, count |-> count]
  <2>1. old[e] \in Tales
    OBVIOUS
  <2> QED
    BY <2>1 DEF Tales
<1>5. PICK more \in Nat : more = count + 1
  OBVIOUS
<1>6. PICK tale \in Tales : tale = [life |-> life, count |-> more] /\ tale.life = life /\ tale.count = more
  BY TaleOf
<1>7. PICK new \in [Endpoints -> Tales] : new = recorded' /\ new = [old EXCEPT ![e] = tale]
  <2>1. [old[e] EXCEPT !.count = @ + 1] = tale
    BY <1>4, <1>5, <1>6
  <2>2. recorded' = [old EXCEPT ![e] = tale]
    BY <1>3, <2>1
  <2>3. [old EXCEPT ![e] = tale] \in [Endpoints -> Tales]
    OBVIOUS
  <2> QED
    BY <2>2, <2>3
<1>8. new[e] = tale /\ \A d \in Endpoints : d # e => new[d] = old[d]
  BY <1>7
<1>9. \A d \in Endpoints : AtLeast(new[d], old[d])
  <2> TAKE d \in Endpoints
  <2>1. CASE d = e
    <3>1. tale.life = old[e].life /\ tale.count >= old[e].count
      BY <1>4, <1>5, <1>6
    <3> QED
      BY <1>8, <2>1, <3>1 DEF AtLeast
  <2>2. CASE d # e
    <3>1. new[d] = old[d] /\ old[d] \in Tales
      BY <1>8, <2>2
    <3> QED
      BY <3>1, AtLeastItself
  <2> QED
    BY <2>1, <2>2
<1>10. \A d \in Endpoints : Told(d)' = Told(d)
  <2> TAKE d \in Endpoints
  <2>1. CASE d = e
    <3>1. Told(d) = old[e]
      BY <1>2, <1>3, <2>1 DEF Told
    <3>2. Told(d)' = [tale EXCEPT !.count = @ - 1]
      BY <1>3, <1>7, <1>8, <2>1 DEF Told
    <3>3. [tale EXCEPT !.count = @ - 1] = [life |-> life, count |-> more - 1]
      BY <1>6
    <3>4. more - 1 = count
      BY <1>5
    <3> QED
      BY <1>4, <3>1, <3>2, <3>3, <3>4
  <2>2. CASE d # e
    BY <1>2, <1>3, <1>7, <1>8, <2>2 DEF Told
  <2> QED
    BY <2>1, <2>2
<1>11. PICK numbers \in [Endpoints -> Nat] : numbers = sequences' /\ numbers = ordinals
  <2>1. ordinals \in [Endpoints -> Nat]
    BY <1>2
  <2> QED
    BY <1>2, <1>3, <2>1
<1>12. RequestsInv' /\ PayloadsInv'
  <2>1. \A d \in Endpoints : numbers[d] = sequences[d] /\ Told(d)' = Told(d)
    BY <1>2, <1>10, <1>11
  <2> QED
    BY <1>1, <1>2, <1>3, <1>7, <1>9, <1>11, <2>1, EndpointsMove
<1>13. EndpointsTyped'
  <2>1. existing' \subseteq Endpoints /\ unpublished' \subseteq existing'
    BY <1>1, <1>3 DEF EndpointsTyped
  <2>2. \A d \in unpublished' : new[d].count > 0
    <3> TAKE d \in unpublished'
    <3>1. d \in unpublished => old[d].count > 0 /\ d \in Endpoints
      BY <1>1, <1>2 DEF EndpointsTyped
    <3>2. tale.count > 0
      BY <1>5, <1>6
    <3> QED
      BY <1>3, <1>8, <3>1, <3>2
  <2>3. \A d \in Endpoints : ordinals[d] = 0 => Told(d).count = 0
    BY <1>1, <1>2 DEF EndpointsTyped
  <2>4. \A d \in Endpoints : ordinals[d] = 0 => Told(d)'.count = 0
    BY <1>10, <2>3
  <2>5. sequences' = ordinals /\ sequence' = before /\ recorded' = new
    BY <1>2, <1>3, <1>7
  <2>6. (\A d \in unpublished : recorded[d].count > 0)'
    BY <2>2, <2>5
  <2>7. (\A d \in Endpoints : sequences[d] = 0 => Told(d).count = 0)'
    BY <2>4, <2>5
  <2>8. (sequences \in [Endpoints -> 0..sequence])' /\ sequence' \in Nat
    BY <1>2, <2>5
  <2> QED
    BY <2>1, <2>5, <2>6, <2>7, <2>8 DEF EndpointsTyped
<1>14. visit' \in Visit
  <2>1. "results" \in Countable
    BY DEF Countable
  <2> QED
    BY <1>1, <1>3, <2>1, VisitSpent
<1> QED
  BY <1>3, <1>12, <1>13, <1>14, EndpointsStep

\* A result is published under a sequence that no key has yet.
LEMMA PublishKeeps ==
    ASSUME PagesInv, NEW e \in Endpoints, Publish(e)
    PROVE  PagesInv' /\ AnswersFit'
<1>1. EndpointsTyped /\ RequestsInv /\ PayloadsInv /\ visit \in Visit
  BY DEF PagesInv, VisitTyped
<1>2. PICK old \in [Endpoints -> Tales], before \in Nat, ordinals \in [Endpoints -> Nat] :
         old = recorded /\ before = sequence /\ ordinals = sequences /\ ordinals \in [Endpoints -> 0..before]
  BY <1>1, EndpointsNamed
<1>3. PICK after \in Nat : after = before + 1
  OBVIOUS
<1>4. /\ e \in unpublished /\ unpublished' = unpublished \ {e} /\ existing' = existing /\ recorded' = recorded
      /\ sequence' = after /\ sequences' = [ordinals EXCEPT ![e] = after]
      /\ PagesStay /\ request' = request /\ payloads' = payloads /\ clock' = clock /\ answers' = {} /\ visit' = visit
      /\ verified' = verified /\ tally' = tally /\ refusals' = refusals
  BY <1>2, <1>3 DEF Publish, NextSequence, Silent, pageVars, cacheVars, loginVars, PagesStay
<1>5. PICK numbers \in [Endpoints -> 0..after] : numbers = sequences' /\ numbers = [ordinals EXCEPT ![e] = after]
  <2>1. after \in 0..after /\ 0..before \subseteq 0..after
    BY <1>3
  <2>2. [ordinals EXCEPT ![e] = after] \in [Endpoints -> 0..after]
    BY <1>2, <2>1
  <2> QED
    BY <1>4, <2>2
<1>6. numbers[e] = after /\ \A d \in Endpoints : d # e => numbers[d] = ordinals[d]
  BY <1>2, <1>5
<1>7. \A d \in Endpoints : d # e => Told(d)' = Told(d)
  BY <1>4 DEF Told
<1>8. RequestsInv' /\ PayloadsInv'
  <2>1. \A d \in Endpoints : AtLeast(old[d], old[d])
    <3> TAKE d \in Endpoints
    <3>1. old[d] \in Tales
      OBVIOUS
    <3> QED
      BY <3>1, AtLeastItself
  <2>2. \A d \in Endpoints : numbers[d] > before \/ (numbers[d] = sequences[d] /\ Told(d)' = Told(d))
    BY <1>2, <1>3, <1>6, <1>7
  <2>3. numbers \in [Endpoints -> Nat] /\ before <= after /\ old = recorded' /\ after = sequence' /\ numbers = sequences'
    BY <1>2, <1>3, <1>4, <1>5
  <2> QED
    BY <1>1, <1>2, <1>4, <2>1, <2>2, <2>3, EndpointsMove
<1>9. EndpointsTyped'
  <2>1. existing' \subseteq Endpoints /\ unpublished' \subseteq existing'
    BY <1>1, <1>4 DEF EndpointsTyped
  <2>2. (\A d \in unpublished : recorded[d].count > 0)'
    BY <1>1, <1>4 DEF EndpointsTyped
  <2>3. \A d \in Endpoints : numbers[d] = 0 => Told(d)'.count = 0
    <3> TAKE d \in Endpoints
    <3> HAVE numbers[d] = 0
    <3>1. d # e
      BY <1>3, <1>6
    <3>2. ordinals[d] = 0
      BY <1>6, <3>1
    <3>3. Told(d).count = 0
      BY <1>1, <1>2, <3>2 DEF EndpointsTyped
    <3> QED
      BY <1>7, <3>1, <3>3
  <2>4. (\A d \in Endpoints : sequences[d] = 0 => Told(d).count = 0)'
    BY <1>5, <2>3
  <2>5. sequences' = numbers /\ sequence' = after /\ recorded' = old
    BY <1>2, <1>4, <1>5
  <2> QED
    BY <2>1, <2>2, <2>4, <2>5 DEF EndpointsTyped
<1> QED
  BY <1>1, <1>4, <1>8, <1>9, EndpointsStep

\* An endpoint is deleted with its results: the next one with its key begins another life.
LEMMA RemoveEndpointKeeps ==
    ASSUME PagesInv, NEW e \in Endpoints, RemoveEndpoint(e)
    PROVE  PagesInv' /\ AnswersFit'
<1>1. EndpointsTyped /\ RequestsInv /\ PayloadsInv /\ visit \in Visit
  BY DEF PagesInv, VisitTyped
<1>2. PICK old \in [Endpoints -> Tales], before \in Nat, ordinals \in [Endpoints -> Nat] :
         old = recorded /\ before = sequence /\ ordinals = sequences /\ ordinals \in [Endpoints -> 0..before]
  BY <1>1, EndpointsNamed
<1>3. /\ e \in existing /\ e \notin unpublished /\ Spend("changes") /\ existing' = existing \ {e}
      /\ recorded' = [old EXCEPT ![e] = [life |-> @.life + 1, count |-> 0]]
      /\ unpublished' = unpublished /\ sequence' = sequence /\ sequences' = [ordinals EXCEPT ![e] = 0]
      /\ PagesStay /\ request' = request /\ payloads' = payloads /\ clock' = clock /\ answers' = {}
      /\ verified' = verified /\ tally' = tally /\ refusals' = refusals
  BY <1>2 DEF RemoveEndpoint, Silent, pageVars, cacheVars, loginVars, PagesStay
<1>4. PICK life \in Nat, count \in Nat : old[e].life = life /\ old[e].count = count
  <2>1. old[e] \in Tales
    OBVIOUS
  <2> QED
    BY <2>1 DEF Tales
<1>5. PICK next \in Nat : next = life + 1
  OBVIOUS
<1>6. PICK tale \in Tales : tale = [life |-> next, count |-> 0] /\ tale.life = next /\ tale.count = 0
  BY TaleOf
<1>7. PICK new \in [Endpoints -> Tales] : new = recorded' /\ new = [old EXCEPT ![e] = tale]
  <2>1. recorded' = [old EXCEPT ![e] = tale]
    BY <1>3, <1>4, <1>5, <1>6
  <2>2. [old EXCEPT ![e] = tale] \in [Endpoints -> Tales]
    OBVIOUS
  <2> QED
    BY <2>1, <2>2
<1>8. new[e] = tale /\ \A d \in Endpoints : d # e => new[d] = old[d]
  BY <1>7
<1>9. \A d \in Endpoints : AtLeast(new[d], old[d])
  <2> TAKE d \in Endpoints
  <2>1. CASE d = e
    <3>1. tale.life > old[e].life
      BY <1>4, <1>5, <1>6
    <3> QED
      BY <1>8, <2>1, <3>1 DEF AtLeast
  <2>2. CASE d # e
    <3>1. new[d] = old[d] /\ old[d] \in Tales
      BY <1>8, <2>2
    <3> QED
      BY <3>1, AtLeastItself
  <2> QED
    BY <2>1, <2>2
<1>10. PICK numbers \in [Endpoints -> 0..before] : numbers = sequences' /\ numbers = [ordinals EXCEPT ![e] = 0]
  <2>1. [ordinals EXCEPT ![e] = 0] \in [Endpoints -> 0..before]
    BY <1>2
  <2> QED
    BY <1>3, <2>1
<1>11. numbers[e] = 0 /\ \A d \in Endpoints : d # e => numbers[d] = ordinals[d]
  BY <1>2, <1>10
<1>12. \A d \in Endpoints : d # e => Told(d)' = Told(d)
  BY <1>2, <1>3, <1>7, <1>8 DEF Told
<1>13. Told(e)'.count = 0
  <2>1. Told(e)' = tale
    BY <1>3, <1>7, <1>8 DEF Told
  <2> QED
    BY <1>6, <2>1
<1>14. RequestsInv' /\ PayloadsInv'
  <2>1. \A d \in Endpoints : numbers[d] = 0 \/ numbers[d] > before \/ (numbers[d] = sequences[d] /\ Told(d)' = Told(d))
    BY <1>2, <1>11, <1>12
  <2>2. numbers \in [Endpoints -> Nat] /\ before = sequence' /\ before <= before
    BY <1>2, <1>3, <1>10
  <2>3. before = sequence /\ old = recorded /\ new = recorded' /\ numbers = sequences'
    BY <1>2, <1>7, <1>10
  <2>4. PagesStay /\ request' = request /\ payloads' = payloads /\ clock' = clock
    BY <1>3
  <2> QED
    BY <1>1, <1>9, <2>1, <2>2, <2>3, <2>4, EndpointsMove
<1>15. EndpointsTyped'
  <2>1. existing' \subseteq Endpoints /\ unpublished' \subseteq existing'
    BY <1>1, <1>3 DEF EndpointsTyped
  <2>2. \A d \in unpublished : new[d].count > 0
    <3> TAKE d \in unpublished
    <3>1. old[d].count > 0 /\ d \in Endpoints /\ d # e
      BY <1>1, <1>2, <1>3 DEF EndpointsTyped
    <3> QED
      BY <1>8, <3>1
  <2>3. \A d \in Endpoints : numbers[d] = 0 => Told(d)'.count = 0
    <3> TAKE d \in Endpoints
    <3> HAVE numbers[d] = 0
    <3>1. d # e => ordinals[d] = 0
      BY <1>11
    <3>2. d # e => Told(d).count = 0
      BY <1>1, <1>2, <3>1 DEF EndpointsTyped
    <3> QED
      BY <1>12, <1>13, <3>2
  <2>4. (\A d \in Endpoints : sequences[d] = 0 => Told(d).count = 0)'
    BY <1>10, <2>3
  <2>5. sequences' = numbers /\ sequence' = before /\ recorded' = new
    BY <1>2, <1>3, <1>7, <1>10
  <2>6. (\A d \in unpublished : recorded[d].count > 0)'
    BY <1>3, <2>2, <2>5
  <2> QED
    BY <2>1, <2>4, <2>5, <2>6 DEF EndpointsTyped
<1>16. visit' \in Visit
  <2>1. "changes" \in Countable
    BY DEF Countable
  <2> QED
    BY <1>1, <1>3, <2>1, VisitSpent
<1> QED
  BY <1>3, <1>14, <1>15, <1>16, EndpointsStep

\* An endpoint is created: it has no results.
LEMMA CreateEndpointKeeps ==
    ASSUME PagesInv, NEW e \in Endpoints, CreateEndpoint(e)
    PROVE  PagesInv' /\ AnswersFit'
<1>1. EndpointsTyped /\ RequestsInv /\ PayloadsInv /\ visit \in Visit
  BY DEF PagesInv, VisitTyped
<1>2. PICK old \in [Endpoints -> Tales], before \in Nat, ordinals \in [Endpoints -> Nat] :
         old = recorded /\ before = sequence /\ ordinals = sequences /\ ordinals \in [Endpoints -> 0..before]
  BY <1>1, EndpointsNamed
<1>3. /\ existing' = existing \cup {e} /\ Spend("changes") /\ recorded' = recorded
      /\ unpublished' = unpublished /\ sequence' = sequence /\ sequences' = sequences
      /\ PagesStay /\ request' = request /\ payloads' = payloads /\ clock' = clock /\ answers' = {}
      /\ verified' = verified /\ tally' = tally /\ refusals' = refusals
  BY DEF CreateEndpoint, Silent, pageVars, cacheVars, loginVars, PagesStay
<1>4. \A d : Told(d)' = Told(d)
  BY <1>3 DEF Told
<1>5. RequestsInv' /\ PayloadsInv'
  <2>1. \A d \in Endpoints : AtLeast(old[d], old[d])
    <3> TAKE d \in Endpoints
    <3>1. old[d] \in Tales
      OBVIOUS
    <3> QED
      BY <3>1, AtLeastItself
  <2>2. \A d \in Endpoints : ordinals[d] = sequences[d] /\ Told(d)' = Told(d)
    BY <1>2, <1>4
  <2>3. ordinals \in [Endpoints -> Nat] /\ before <= before /\ old = recorded' /\ before = sequence' /\ ordinals = sequences'
    BY <1>2, <1>3
  <2> QED
    BY <1>1, <1>2, <1>3, <2>1, <2>2, <2>3, EndpointsMove
<1>6. EndpointsTyped'
  BY <1>1, <1>3, <1>4 DEF EndpointsTyped
<1>7. visit' \in Visit
  <2>1. "changes" \in Countable
    BY DEF Countable
  <2> QED
    BY <1>1, <1>3, <2>1, VisitSpent
<1> QED
  BY <1>3, <1>5, <1>6, <1>7, EndpointsStep

\* Time passes: what was captured, counted and cached stays.
LEMMA TimePassesKeeps ==
    ASSUME PagesInv, TimePasses
    PROVE  PagesInv' /\ AnswersFit'
<1>1. VisitTyped /\ EndpointsTyped /\ RequestsInv /\ PayloadsInv /\ FailuresInv /\ VerifiedInv /\ clock \in Nat
  BY DEF PagesInv, VisitTyped
<1>2. /\ clock' = clock + 1 /\ Spend("ticks") /\ PagesStay /\ EndpointsStay /\ request' = request
      /\ payloads' = payloads /\ answers' = {} /\ verified' = verified /\ tally' = tally /\ refusals' = refusals
  BY DEF TimePasses, Silent, pageVars, cacheVars, loginVars, endpointVars, PagesStay, EndpointsStay
<1>3. clock' \in Nat /\ clock <= clock'
  BY <1>1, <1>2
<1>4. visit' \in Visit
  <2>1. "ticks" \in Countable /\ visit \in Visit
    BY <1>1 DEF Countable, VisitTyped
  <2> QED
    BY <1>2, <2>1, VisitSpent
<1>5. VisitTyped' /\ EndpointsTyped'
  BY <1>1, <1>2, <1>3, <1>4, ViewsStay
<1>6. RequestsInv' /\ PayloadsInv'
  <2>1. PICK new, cached : new = request /\ cached = payloads
    OBVIOUS
  <2>2. /\ DOMAIN new = Requests /\ \A r \in Requests : RequestInv(new[r])
        /\ \A q, r \in Requests : Agree(new[q], new[r])
    BY <1>1, <2>1 DEF RequestsInv
  <2>3. \A key \in DOMAIN cached :
           /\ KeyTyped(key)
           /\ cached[key].payload # Unavailable =>
                 /\ PayloadInv(key, cached[key].payload)
                 /\ \A r \in Requests : PayloadFits(key, cached[key].payload, new[r])
    BY <1>1, <2>1 DEF PayloadsInv
  <2> QED
    BY <1>1, <1>2, <1>3, <2>1, <2>2, <2>3, RequestsStep
<1>7. FailuresInv'
  BY <1>1, <1>2, <1>3, FailuresStay
<1>8. VerifiedInv'
  BY <1>1, <1>2 DEF VerifiedInv
<1> QED
  BY <1>2, <1>5, <1>6, <1>7, <1>8, AnswersNobody DEF PagesInv

\* At first nobody has asked for anything.
LEMMA StatusInitially == StatusInit => PagesInv /\ AnswersFit
<1> SUFFICES ASSUME StatusInit PROVE PagesInv /\ AnswersFit
  OBVIOUS
<1>1. visit \in Visit
  BY VisitsAssumption DEF StatusInit
<1>2. PICK first : first = stored
  OBVIOUS
<1>3. first \in Pages \cup {Unset}
  <2>1. visit.first \in SUBSET (Pages \cup {Unset})
    BY <1>1 DEF Visit
  <2> QED
    BY <1>2, <2>1 DEF StatusInit
<1>4. snapshot \in [served : BOOLEAN, page : Pages \cup {Unset}, limit : Nat, managed : Pages \cup {Unset},
                    revision : Nat, generation : Nat] /\ snapshot.revision = 1
  <2>1. visit.installations \in SUBSET [served : BOOLEAN, page : Pages \cup {Unset}, limit : Nat]
    BY <1>1 DEF Visit
  <2>2. PICK installation \in [served : BOOLEAN, page : Pages \cup {Unset}, limit : Nat] :
           snapshot = Snapshot(installation, first, 1, 1)
    BY <1>2, <2>1 DEF StatusInit
  <2>3. PICK served \in BOOLEAN, page \in Pages \cup {Unset}, limit \in Nat :
           served = installation.served /\ page = installation.page /\ limit = installation.limit
    OBVIOUS
  <2>4. snapshot = [served |-> served, page |-> page, limit |-> limit, managed |-> first, revision |-> 1, generation |-> 1]
    BY <2>2, <2>3 DEF Snapshot
  <2> QED
    BY <1>3, <2>4
<1>5. VisitTyped
  BY <1>1, <1>2, <1>3, <1>4 DEF VisitTyped, StatusInit
<1>6. PICK tale \in Tales : tale = [life |-> 1, count |-> 0] /\ tale.count = 0
  BY TaleOf
<1>7. EndpointsTyped
  <2>1. /\ existing = Endpoints /\ unpublished = {} /\ recorded = [e \in Endpoints |-> tale] /\ sequence = 0
        /\ sequences = [e \in Endpoints |-> 0]
    BY <1>6 DEF StatusInit
  <2>2. \A e \in Endpoints : Told(e).count = 0
    BY <1>6, <2>1 DEF Told
  <2>3. recorded \in [Endpoints -> Tales] /\ sequences \in [Endpoints -> 0..sequence] /\ sequence \in Nat
    BY <2>1
  <2> QED
    BY <2>1, <2>2, <2>3 DEF EndpointsTyped
<1>8. RequestsInv
  <2>1. DOMAIN request = Requests /\ \A r \in Requests : request[r] = NoRequest
    BY DEF StatusInit
  <2> QED
    BY <2>1, NoRequestAgrees DEF RequestsInv
<1>9. PayloadsInv /\ VerifiedInv
  BY DEF StatusInit, Nothing, PayloadsInv, VerifiedInv
<1>10. FailuresInv
  <2>1. PICK none : none = [count |-> 0, expires |-> 0]
    OBVIOUS
  <2>2. none \in [count : Nat, expires : Nat] /\ none.count = 0 /\ none.expires = 0 /\ tally = none
    BY <2>1 DEF StatusInit, NoFailures
  <2>3. 0 - FailureWindow <= clock
    BY VisitsAssumption DEF StatusInit
  <2>4. refusals = <<>> /\ refusals \in Seq(Nat) /\ Len(refusals) = 0
    BY EmptySeq DEF StatusInit
  <2>5. \A t : Refused(t) = {}
    BY <2>4 DEF Refused
  <2>6. \A t : Cardinality(Refused(t)) = 0
    BY <2>5, FS_EmptySet
  <2> QED
    BY <2>2, <2>3, <2>4, <2>6 DEF FailuresInv
<1>11. AnswersFit
  BY DEF StatusInit, AnswersFit, PayloadsFit, RefusedForFailures
<1> QED
  BY <1>5, <1>7, <1>8, <1>9, <1>10, <1>11 DEF PagesInv

\* A step that changes nothing keeps everything.
LEMMA NothingPublished ==
    ASSUME PagesInv, AnswersFit, UNCHANGED statusVars
    PROVE  PagesInv' /\ AnswersFit'
<1>1. /\ PagesStay /\ EndpointsStay /\ request' = request /\ payloads' = payloads /\ clock' = clock
      /\ answers' = answers /\ verified' = verified /\ tally' = tally /\ refusals' = refusals /\ visit' = visit
  BY DEF statusVars, pageVars, cacheVars, loginVars, endpointVars, requestVars, PagesStay, EndpointsStay
<1>2. VisitTyped /\ EndpointsTyped /\ RequestsInv /\ PayloadsInv /\ FailuresInv /\ VerifiedInv
  BY DEF PagesInv
<1>3. clock \in Nat /\ clock' \in Nat /\ clock <= clock' /\ visit' \in Visit
  BY <1>1, <1>2 DEF VisitTyped
<1>4. RequestsInv' /\ PayloadsInv'
  <2>1. PICK new, cached : new = request /\ cached = payloads
    OBVIOUS
  <2>2. /\ DOMAIN new = Requests /\ \A r \in Requests : RequestInv(new[r])
        /\ \A q, r \in Requests : Agree(new[q], new[r])
    BY <1>2, <2>1 DEF RequestsInv
  <2>3. \A key \in DOMAIN cached :
           /\ KeyTyped(key)
           /\ cached[key].payload # Unavailable =>
                 /\ PayloadInv(key, cached[key].payload)
                 /\ \A r \in Requests : PayloadFits(key, cached[key].payload, new[r])
    BY <1>2, <2>1 DEF PayloadsInv
  <2> QED
    BY <1>1, <1>3, <2>1, <2>2, <2>3, RequestsStep
<1>5. VisitTyped' /\ EndpointsTyped'
  BY <1>1, <1>2, <1>3, ViewsStay
<1>6. FailuresInv'
  BY <1>1, <1>2, <1>3, FailuresStay
<1>7. VerifiedInv'
  BY <1>1, <1>2 DEF VerifiedInv
<1>8. AnswersFit'
  BY <1>1 DEF AnswersFit, PayloadsFit, RefusedForFailures
<1> QED
  BY <1>4, <1>5, <1>6, <1>7, <1>8 DEF PagesInv

\* Whatever administrators change, loads replace, endpoints record and other visitors ask for meanwhile: who is answered
\* with a payload (internal/statuspage/payload.go) was let in by the login of the page it shows, which is the one that was
\* published when he asked, and the details of an endpoint are not older than what was published of it then; and who is
\* told to wait (auth.go) failed as often as that within the window.
THEOREM VisitorsSeeWhatTheyMay == StatusSpec => []AnswersFit
<1>1. StatusInit => PagesInv /\ AnswersFit
  BY StatusInitially
<1>2. PagesInv /\ AnswersFit /\ [StatusNext]_statusVars => PagesInv' /\ AnswersFit'
  <2> SUFFICES ASSUME PagesInv, AnswersFit, [StatusNext]_statusVars
               PROVE  PagesInv' /\ AnswersFit'
    OBVIOUS
  <2>1. ASSUME NEW r \in Requests, NEW a \in visit.asked, Ask(r, a.wants, a.credential)
        PROVE  PagesInv' /\ AnswersFit'
    BY <2>1, AskKeeps
  <2>2. ASSUME NEW r \in Requests, Verify(r) \/ BeginCheck(r) \/ EndCheck(r) \/ FindPayload(r) \/ Join(r)
        PROVE  PagesInv' /\ AnswersFit'
    BY <2>2, VerifyKeeps, BeginCheckKeeps, EndCheckKeeps, FindPayloadKeeps, JoinKeeps
  <2>3. ASSUME NEW r \in Requests, AcquireSlot(r) \/ SlotTimesOut(r) \/ Assemble(r) \/ CachePayload(r) \/ AssembleFails(r)
        PROVE  PagesInv' /\ AnswersFit'
    BY <2>3, AcquireSlotKeeps, SlotTimesOutKeeps, AssembleKeeps, CachePayloadKeeps, AssembleFailsKeeps
  <2>4. ASSUME NEW page \in visit.pages, WritePage(page)
        PROVE  PagesInv' /\ AnswersFit'
    BY <2>4, WritePageKeeps
  <2>5. CASE DeletePage
    BY <2>5, DeletePageKeeps
  <2>6. ASSUME NEW installation \in visit.installations, NEW readable \in BOOLEAN, ReloadPages(installation, readable)
        PROVE  PagesInv' /\ AnswersFit'
    BY <2>6, ReloadPagesKeeps
  <2>7. ASSUME NEW e \in Endpoints, StoreResult(e) \/ Publish(e) \/ RemoveEndpoint(e) \/ CreateEndpoint(e)
        PROVE  PagesInv' /\ AnswersFit'
    BY <2>7, StoreResultKeeps, PublishKeeps, RemoveEndpointKeeps, CreateEndpointKeeps
  <2>8. CASE TimePasses
    BY <2>8, TimePassesKeeps
  <2>9. CASE UNCHANGED statusVars
    BY <2>9, NothingPublished
  <2> QED
    BY <2>1, <2>2, <2>3, <2>4, <2>5, <2>6, <2>7, <2>8, <2>9 DEF StatusNext
<1> QED
  BY <1>1, <1>2, PTL DEF StatusSpec

-----------------------------------------------------------------------------
(* The items of a restore and their rows *)

\* What an item may be registered with; a push key has no version.
RowFor(i) ==
    IF i = PageItem THEN RowsOf(Layouts) ELSE IF i = ProviderItem THEN RowsOf(Settings)
    ELSE IF i[1] = 3 THEN RowsOf(EndpointDefinitions) ELSE [version : {0}, definition : Secrets] \cup {Absent}

\* An item is a push key, the provider, an endpoint or the page.
LEMMA ItemShapes ==
    ASSUME NEW i \in Items
    PROVE  \/ i[2] \in KeyNames /\ i = KeyItem(i[2]) /\ i[1] = 1 /\ i # ProviderItem /\ i # PageItem
           \/ i[2] \in Monitored /\ i = EndpointItem(i[2]) /\ i[1] = 3 /\ i # ProviderItem /\ i # PageItem
           \/ i = ProviderItem /\ i[1] = 2 /\ i # PageItem
           \/ i = PageItem /\ i[1] = 4 /\ i # ProviderItem
  BY DEF Items, KeyItem, EndpointItem, ProviderItem, PageItem

\* Items of each shape
LEMMA ItemsAre ==
    /\ \A n \in KeyNames : KeyItem(n) \in Items /\ KeyItem(n)[1] = 1 /\ KeyItem(n)[2] = n
    /\ \A e \in Monitored : EndpointItem(e) \in Items /\ EndpointItem(e)[1] = 3 /\ EndpointItem(e)[2] = e
    /\ ProviderItem \in Items /\ ProviderItem[1] = 2 /\ PageItem \in Items /\ PageItem[1] = 4
    /\ ProviderItem # PageItem
    /\ \A n : KeyItem(n) # ProviderItem /\ KeyItem(n) # PageItem
    /\ \A n, e : KeyItem(n) # EndpointItem(e)
    /\ \A e : EndpointItem(e) # ProviderItem /\ EndpointItem(e) # PageItem
    /\ \A n, o : KeyItem(n) = KeyItem(o) <=> n = o
    /\ \A e, o : EndpointItem(e) = EndpointItem(o) <=> e = o
  BY DEF Items, KeyItem, EndpointItem, ProviderItem, PageItem

\* The row of an item of each shape
LEMMA RowsAre ==
    /\ Row(PageItem) = installed.page /\ Row(ProviderItem) = installed.provider
    /\ \A e \in Monitored : Row(EndpointItem(e)) = installed.endpoints[e]
    /\ \A n \in KeyNames : Row(KeyItem(n)) =
          IF installed.keys[n] = Absent THEN Absent ELSE [version |-> 0, definition |-> installed.keys[n]]
  BY ItemsAre DEF Row

\* What is registered consists of rows of its items.
LEMMA RowTypes ==
    ASSUME installed \in Administration, NEW i \in Items
    PROVE  Row(i) \in RowFor(i)
<1>1. CASE i[2] \in KeyNames /\ i = KeyItem(i[2]) /\ i[1] = 1 /\ i # ProviderItem /\ i # PageItem
  <2>1. PICK n \in KeyNames : n = i[2]
    BY <1>1
  <2>2. installed.keys[n] \in Secrets \cup {Absent}
    BY <2>1 DEF Administration
  <2>3. Row(i) = IF installed.keys[n] = Absent THEN Absent ELSE [version |-> 0, definition |-> installed.keys[n]]
    BY <1>1, <2>1, RowsAre
  <2>4. RowFor(i) = [version : {0}, definition : Secrets] \cup {Absent}
    BY <1>1 DEF RowFor
  <2> QED
    BY <2>2, <2>3, <2>4
<1>2. CASE i[2] \in Monitored /\ i = EndpointItem(i[2]) /\ i[1] = 3 /\ i # ProviderItem /\ i # PageItem
  <2>1. PICK e \in Monitored : e = i[2]
    BY <1>2
  <2>2. Row(i) = installed.endpoints[e] /\ RowFor(i) = RowsOf(EndpointDefinitions)
    BY <1>2, <2>1, RowsAre DEF RowFor
  <2> QED
    BY <2>2 DEF Administration
<1>3. CASE i = ProviderItem
  BY <1>3, RowsAre, ItemsAre DEF Administration, RowFor
<1>4. CASE i = PageItem
  BY <1>4, RowsAre, ItemsAre DEF Administration, RowFor
<1> QED
  BY <1>1, <1>2, <1>3, <1>4, ItemShapes

\* A row that is there has a version and a definition; only that of a push key is without a version.
LEMMA RowFields ==
    ASSUME NEW i \in Items, NEW row \in RowFor(i), row # Absent
    PROVE  row.version \in Nat /\ row.definition \in Definitions /\ (i[1] # 1 => row.version # 0)
           /\ row = [version |-> row.version, definition |-> row.definition]
           /\ (i[1] = 1 => row.version = 0)
<1>1. \/ row \in [version : {0}, definition : Secrets] /\ i[1] = 1
      \/ row \in [version : Nat \ {0}, definition : Layouts] /\ i[1] # 1
      \/ row \in [version : Nat \ {0}, definition : Settings] /\ i[1] # 1
      \/ row \in [version : Nat \ {0}, definition : EndpointDefinitions] /\ i[1] # 1
  BY ItemShapes DEF RowFor, RowsOf
<1> QED
  BY <1>1 DEF Definitions

\* A written row is there.
LEMMA RowIsThere ==
    ASSUME NEW i \in Items, NEW version \in Nat, NEW definition \in DefinitionsOf(i),
           IF i[1] = 1 THEN version = 0 ELSE version # 0
    PROVE  /\ [version |-> version, definition |-> definition] \in RowFor(i)
           /\ [version |-> version, definition |-> definition] # Absent
<1>1. PICK row : row = [version |-> version, definition |-> definition]
  OBVIOUS
<1>2. definition \in Definitions
  BY DEF DefinitionsOf, Definitions
<1>3. row \in [version : Nat, definition : Definitions]
  BY <1>1, <1>2
<1>4. row # Absent
  BY <1>3, RestoreAssumption
<1>5. row \in RowFor(i)
  BY <1>1, ItemShapes DEF RowFor, RowsOf, DefinitionsOf
<1> QED
  BY <1>1, <1>4, <1>5

\* What a service registers for an item, or removes of it, leaves the other items alone.
LEMMA WrittenIs ==
    ASSUME installed \in Administration, NEW i \in Items, NEW row \in RowFor(i), installed' = Written(i, row)
    PROVE  /\ installed' \in Administration
           /\ Row(i)' = row
           /\ \A j \in Items \ {i} : Row(j)' = Row(j)
           /\ i[1] # 1 => installed'.keys = installed.keys
           /\ i[1] = 1 => \A n \in KeyNames : installed'.keys[n] =
                             IF n = i[2] THEN IF row = Absent THEN Absent ELSE row.definition ELSE installed.keys[n]
           /\ i[1] # 3 => installed'.endpoints = installed.endpoints
           /\ i[1] = 3 => \A e \in Monitored : installed'.endpoints[e] = IF e = i[2] THEN row ELSE installed.endpoints[e]
           /\ installed'.provider = IF i = ProviderItem THEN row ELSE installed.provider
<1>1. CASE i[2] \in KeyNames /\ i = KeyItem(i[2]) /\ i[1] = 1 /\ i # ProviderItem /\ i # PageItem
  <2>1. PICK n \in KeyNames : n = i[2]
    BY <1>1
  <2>2. PICK secret : secret = IF row = Absent THEN Absent ELSE row.definition
    OBVIOUS
  <2>3. /\ row = Absent \/ row \in [version : {0}, definition : Secrets]
        /\ secret \in Secrets \cup {Absent}
    BY <1>1, <2>2 DEF RowFor
  <2>4. IF row = Absent THEN secret = Absent ELSE secret # Absent /\ row = [version |-> 0, definition |-> secret]
    BY <2>2, <2>3, RestoreAssumption DEF Definitions
  <2>5. installed' = [installed EXCEPT !.keys[n] = secret]
    BY <1>1, <2>1, <2>2 DEF Written
  <2>6. PICK keys : keys = [installed.keys EXCEPT ![n] = secret]
    OBVIOUS
  <2>7. installed' = [installed EXCEPT !.keys = keys]
    BY <2>5, <2>6
  <2>8. keys \in [KeyNames -> Secrets \cup {Absent}] /\ \A m \in KeyNames : keys[m] = IF m = n THEN secret ELSE installed.keys[m]
    BY <2>3, <2>6 DEF Administration
  <2>9. /\ installed' \in Administration
        /\ installed'.keys = keys /\ installed'.provider = installed.provider
        /\ installed'.endpoints = installed.endpoints /\ installed'.page = installed.page
    BY <2>7, <2>8 DEF Administration
  <2>10. Row(i)' = row
    <3>1. Row(KeyItem(n))' = IF keys[n] = Absent THEN Absent ELSE [version |-> 0, definition |-> keys[n]]
      BY <2>9, ItemsAre DEF Row
    <3> QED
      BY <1>1, <2>1, <2>4, <2>8, <3>1
  <2>11. ASSUME NEW j \in Items \ {i} PROVE Row(j)' = Row(j)
    <3>1. CASE j[1] = 1
      <4>1. PICK m \in KeyNames : j = KeyItem(m) /\ m # n
        BY <1>1, <2>1, <3>1, ItemShapes, ItemsAre
      <4>2. Row(KeyItem(m))' = IF keys[m] = Absent THEN Absent ELSE [version |-> 0, definition |-> keys[m]]
        BY <2>9, ItemsAre DEF Row
      <4>3. Row(KeyItem(m)) = IF keys[m] = Absent THEN Absent ELSE [version |-> 0, definition |-> keys[m]]
        BY <2>8, <4>1, RowsAre
      <4> QED
        BY <4>1, <4>2, <4>3
    <3>2. CASE j[1] # 1
      BY <2>9, <3>2, ItemShapes DEF Row
    <3> QED
      BY <3>1, <3>2
  <2> QED
    BY <1>1, <2>1, <2>2, <2>8, <2>9, <2>10, <2>11, ItemsAre
<1>2. CASE i[2] \in Monitored /\ i = EndpointItem(i[2]) /\ i[1] = 3 /\ i # ProviderItem /\ i # PageItem
  <2>1. PICK e \in Monitored : e = i[2]
    BY <1>2
  <2>2. installed' = [installed EXCEPT !.endpoints[e] = row]
    BY <1>2, <2>1 DEF Written
  <2>3. PICK endpoints : endpoints = [installed.endpoints EXCEPT ![e] = row]
    OBVIOUS
  <2>4. installed' = [installed EXCEPT !.endpoints = endpoints]
    BY <2>2, <2>3
  <2>5. row \in RowsOf(EndpointDefinitions)
    BY <1>2 DEF RowFor
  <2>6. /\ endpoints \in [Monitored -> RowsOf(EndpointDefinitions)]
        /\ \A o \in Monitored : endpoints[o] = IF o = e THEN row ELSE installed.endpoints[o]
    BY <2>3, <2>5 DEF Administration
  <2>7. /\ installed' \in Administration
        /\ installed'.keys = installed.keys /\ installed'.provider = installed.provider
        /\ installed'.endpoints = endpoints /\ installed'.page = installed.page
    BY <2>4, <2>6 DEF Administration
  <2>8. Row(i)' = row
    BY <1>2, <2>1, <2>6, <2>7 DEF Row
  <2>9. ASSUME NEW j \in Items \ {i} PROVE Row(j)' = Row(j)
    <3>1. CASE j[1] = 3
      <4>1. PICK o \in Monitored : j = EndpointItem(o) /\ o # e
        BY <1>2, <2>1, <3>1, ItemShapes, ItemsAre
      <4>2. Row(EndpointItem(o))' = endpoints[o]
        BY <2>7, ItemsAre DEF Row
      <4> QED
        BY <2>6, <4>1, <4>2, RowsAre
    <3>2. CASE j[1] # 3
      BY <2>7, <3>2, ItemShapes DEF Row
    <3> QED
      BY <3>1, <3>2
  <2> QED
    BY <1>2, <2>1, <2>6, <2>7, <2>8, <2>9, ItemsAre
<1>3. CASE i = ProviderItem
  <2>1. installed' = [installed EXCEPT !.provider = row] /\ row \in RowsOf(Settings)
    BY <1>3, ItemsAre DEF Written, RowFor
  <2>2. /\ installed' \in Administration
        /\ installed'.keys = installed.keys /\ installed'.provider = row
        /\ installed'.endpoints = installed.endpoints /\ installed'.page = installed.page
    BY <2>1 DEF Administration
  <2>3. Row(i)' = row
    BY <1>3, <2>2, ItemsAre DEF Row
  <2>4. ASSUME NEW j \in Items \ {i} PROVE Row(j)' = Row(j)
    BY <1>3, <2>2 DEF Row
  <2> QED
    BY <1>3, <2>2, <2>3, <2>4, ItemsAre
<1>4. CASE i = PageItem
  <2>1. installed' = [installed EXCEPT !.page = row] /\ row \in RowsOf(Layouts)
    BY <1>4, ItemsAre DEF Written, RowFor
  <2>2. /\ installed' \in Administration
        /\ installed'.keys = installed.keys /\ installed'.provider = installed.provider
        /\ installed'.endpoints = installed.endpoints /\ installed'.page = row
    BY <2>1 DEF Administration
  <2>3. Row(i)' = row
    BY <1>4, <2>2, ItemsAre DEF Row
  <2>4. ASSUME NEW j \in Items \ {i} PROVE Row(j)' = Row(j)
    BY <1>4, <2>2 DEF Row
  <2> QED
    BY <1>4, <2>2, <2>3, <2>4, ItemsAre
<1> QED
  BY <1>1, <1>2, <1>3, <1>4, ItemShapes

\* A push key has a row if it has a token, which is its definition.
LEMMA KeyRow ==
    ASSUME installed \in Administration, NEW n \in KeyNames
    PROVE  /\ Row(KeyItem(n)) = Absent <=> installed.keys[n] = Absent
           /\ installed.keys[n] # Absent => Row(KeyItem(n)).definition = installed.keys[n]
<1>1. CASE installed.keys[n] = Absent
  BY <1>1, RowsAre
<1>2. CASE installed.keys[n] # Absent
  <2>1. installed.keys[n] \in Secrets
    BY <1>2 DEF Administration
  <2>2. PICK row : row = [version |-> 0, definition |-> installed.keys[n]]
    OBVIOUS
  <2>3. DefinitionsOf(KeyItem(n)) = Secrets /\ KeyItem(n) \in Items /\ KeyItem(n)[1] = 1
    BY ItemsAre DEF DefinitionsOf
  <2>4. row # Absent
    BY <2>1, <2>2, <2>3, RowIsThere
  <2>5. Row(KeyItem(n)) = row
    BY <1>2, <2>2, RowsAre
  <2> QED
    BY <1>2, <2>2, <2>4, <2>5
<1> QED
  BY <1>1, <1>2

-----------------------------------------------------------------------------
(* The request of the administrator *)

RestoreFields ==
    {"stage", "file", "overwrite", "disabling", "plan", "left", "results", "reloading", "interfered", "refused", "recreated",
     "unseen"}
IsRestore(x) == DOMAIN x = RestoreFields

\* The plan and what it was made from stay as they are.
SamePlan(t, x) == t.file = x.file /\ t.overwrite = x.overwrite /\ t.disabling = x.disabling /\ t.plan = x.plan

\* The request goes from one item to the next: only the flags are not told here.
NextItem(i, result) ==
    /\ IsRestore(restore') /\ restore'.stage = "applying" /\ SamePlan(restore', restore)
    /\ restore'.recreated = restore.recreated /\ restore'.unseen = restore.unseen
    /\ restore'.left = restore.left \ {i}
    /\ DOMAIN restore'.results = DOMAIN restore.results \cup {i}
    /\ restore'.results[i].result = result /\ restore'.results[i].replaced = Row(i)
    /\ \A j \in DOMAIN restore.results : j # i => restore'.results[j] = restore.results[j]

\* A restore with the result of another item
LEMMA ResultIs ==
    ASSUME IsRestore(restore), NEW i, NEW result, NEW x, x = Result(i, result)
    PROVE  /\ IsRestore(x) /\ x.stage = restore.stage /\ SamePlan(x, restore)
           /\ x.recreated = restore.recreated /\ x.unseen = restore.unseen
           /\ x.left = restore.left \ {i}
           /\ DOMAIN x.results = DOMAIN restore.results \cup {i}
           /\ x.results[i].result = result /\ x.results[i].replaced = Row(i)
           /\ \A j \in DOMAIN restore.results : j # i => x.results[j] = restore.results[j]
           /\ x.reloading = restore.reloading /\ x.interfered = restore.interfered /\ x.refused = restore.refused
<1>1. PICK results : results = [j \in DOMAIN restore.results \cup {i} |->
                                   IF j = i THEN [result |-> result, replaced |-> Row(i)] ELSE restore.results[j]]
  OBVIOUS
<1>2. x = [restore EXCEPT !.left = restore.left \ {i}, !.results = results]
  BY <1>1 DEF Result
<1>3. /\ DOMAIN results = DOMAIN restore.results \cup {i}
      /\ results[i].result = result /\ results[i].replaced = Row(i)
      /\ \A j \in DOMAIN restore.results : j # i => results[j] = restore.results[j]
  BY <1>1
<1>4. /\ DOMAIN x = DOMAIN restore /\ x.left = restore.left \ {i} /\ x.results = results
      /\ x.stage = restore.stage /\ SamePlan(x, restore)
      /\ x.recreated = restore.recreated /\ x.unseen = restore.unseen
      /\ x.reloading = restore.reloading /\ x.interfered = restore.interfered /\ x.refused = restore.refused
  BY <1>2 DEF IsRestore, RestoreFields, SamePlan
<1> QED
  BY <1>3, <1>4 DEF IsRestore

\* A restore that others have interfered with
LEMMA TouchedIs ==
    ASSUME IsRestore(restore), restore.stage = "applying", NEW removed, restore' = Touched(removed)
    PROVE  /\ IsRestore(restore') /\ restore'.stage = "applying" /\ SamePlan(restore', restore)
           /\ restore'.interfered /\ restore'.recreated = restore.recreated \cup removed
           /\ restore'.left = restore.left /\ restore'.results = restore.results /\ restore'.reloading = restore.reloading
           /\ restore'.refused = restore.refused /\ restore'.unseen = restore.unseen
<1>1. restore' = [restore EXCEPT !.interfered = TRUE, !.recreated = restore.recreated \cup removed]
  BY DEF Touched
<1> QED
  BY <1>1 DEF IsRestore, RestoreFields, SamePlan

\* The steps that have a result for an item
LEMMA ItemSteps ==
    ASSUME IsRestore(restore), restore.stage = "applying", NEW i
    PROVE  /\ PassItem(i) =>
                /\ NextItem(i, IF restore.plan.items[i].action = "unchanged" THEN "unchanged" ELSE "skipped")
                /\ restore'.reloading = restore.reloading /\ restore'.interfered = restore.interfered
                /\ restore'.refused = restore.refused
           /\ MeetReload(i) => NextItem(i, "skipped") /\ restore'.reloading
           /\ ApplyItem(i) /\ Accepts(i, WantedNow(i), PlannedVersion(i)) =>
                /\ NextItem(i, IF restore.plan.items[i].action = "create" THEN "created" ELSE "updated")
                /\ restore'.reloading = restore.reloading /\ restore'.interfered = restore.interfered
                /\ restore'.refused = restore.refused
           /\ ApplyItem(i) /\ ~Accepts(i, WantedNow(i), PlannedVersion(i)) =>
                /\ NextItem(i, "failed")
                /\ restore'.reloading = restore.reloading /\ restore'.interfered = restore.interfered
                /\ restore'.refused <=> restore.refused \/ (i = ProviderItem /\ ~DependentsAccept(WantedNow(i)))
           /\ ItemNotStored(i) => NextItem(i, "failed") /\ restore'.interfered
<1>1. ASSUME PassItem(i)
      PROVE  /\ NextItem(i, IF restore.plan.items[i].action = "unchanged" THEN "unchanged" ELSE "skipped")
             /\ restore'.reloading = restore.reloading /\ restore'.interfered = restore.interfered
             /\ restore'.refused = restore.refused
  BY <1>1, ResultIs DEF PassItem, NextItem
<1>2. ASSUME MeetReload(i)
      PROVE  NextItem(i, "skipped") /\ restore'.reloading
  <2>1. PICK x : x = Result(i, "skipped")
    OBVIOUS
  <2>2. restore' = [x EXCEPT !.reloading = TRUE]
    BY <1>2, <2>1 DEF MeetReload
  <2>3. IsRestore(x)
    BY <2>1, ResultIs
  <2>4. /\ DOMAIN restore' = DOMAIN x /\ restore'.reloading /\ restore'.stage = x.stage /\ SamePlan(restore', x)
        /\ restore'.recreated = x.recreated /\ restore'.unseen = x.unseen /\ restore'.left = x.left
        /\ restore'.results = x.results
    BY <2>2, <2>3 DEF IsRestore, RestoreFields, SamePlan
  <2> QED
    BY <2>1, <2>3, <2>4, ResultIs DEF NextItem, SamePlan, IsRestore
<1>3. ASSUME ApplyItem(i), Accepts(i, WantedNow(i), PlannedVersion(i))
      PROVE  /\ NextItem(i, IF restore.plan.items[i].action = "create" THEN "created" ELSE "updated")
             /\ restore'.reloading = restore.reloading /\ restore'.interfered = restore.interfered
             /\ restore'.refused = restore.refused
  BY <1>3, ResultIs DEF ApplyItem, NextItem
<1>4. ASSUME ApplyItem(i), ~Accepts(i, WantedNow(i), PlannedVersion(i))
      PROVE  /\ NextItem(i, "failed")
             /\ restore'.reloading = restore.reloading /\ restore'.interfered = restore.interfered
             /\ restore'.refused <=> restore.refused \/ (i = ProviderItem /\ ~DependentsAccept(WantedNow(i)))
  <2>1. PICK x : x = Result(i, "failed")
    OBVIOUS
  <2>2. IsRestore(x) /\ x.refused = restore.refused
    BY <2>1, ResultIs
  <2>3. PICK refuses : refuses = (x.refused \/ (i = ProviderItem /\ ~DependentsAccept(WantedNow(i))))
    OBVIOUS
  <2>4. restore' = [x EXCEPT !.refused = refuses]
    BY <1>4, <2>1, <2>3 DEF ApplyItem
  <2>5. /\ DOMAIN restore' = DOMAIN x /\ restore'.refused = refuses /\ restore'.stage = x.stage /\ SamePlan(restore', x)
        /\ restore'.recreated = x.recreated /\ restore'.unseen = x.unseen /\ restore'.left = x.left
        /\ restore'.results = x.results /\ restore'.reloading = x.reloading /\ restore'.interfered = x.interfered
    BY <2>2, <2>4 DEF IsRestore, RestoreFields, SamePlan
  <2>6. restore'.refused <=> restore.refused \/ (i = ProviderItem /\ ~DependentsAccept(WantedNow(i)))
    BY <2>2, <2>3, <2>5
  <2> QED
    BY <2>1, <2>2, <2>5, <2>6, ResultIs DEF NextItem, SamePlan, IsRestore
<1>5. ASSUME ItemNotStored(i)
      PROVE  NextItem(i, "failed") /\ restore'.interfered
  <2>1. PICK x : x = Result(i, "failed")
    OBVIOUS
  <2>2. restore' = [x EXCEPT !.interfered = TRUE]
    BY <1>5, <2>1 DEF ItemNotStored
  <2>3. IsRestore(x)
    BY <2>1, ResultIs
  <2>4. /\ DOMAIN restore' = DOMAIN x /\ restore'.interfered /\ restore'.stage = x.stage /\ SamePlan(restore', x)
        /\ restore'.recreated = x.recreated /\ restore'.unseen = x.unseen /\ restore'.left = x.left
        /\ restore'.results = x.results
    BY <2>2, <2>3 DEF IsRestore, RestoreFields, SamePlan
  <2> QED
    BY <2>1, <2>3, <2>4, ResultIs DEF NextItem, SamePlan, IsRestore
<1> QED
  BY <1>1, <1>2, <1>3, <1>4, <1>5

-----------------------------------------------------------------------------
(* What a plan says *)

Actions == {"create", "update", "unchanged", "skip"}

\* The definition of an item of each shape in a backup
LEMMA WantedIs ==
    ASSUME NEW file, NEW disabling
    PROVE  /\ Wanted(file, disabling, PageItem) = file.page /\ Wanted(file, disabling, ProviderItem) = file.provider
           /\ \A n \in KeyNames : Wanted(file, disabling, KeyItem(n)) = file.keys[n]
           /\ \A e \in Monitored : Wanted(file, disabling, EndpointItem(e)) =
                 IF file.endpoints[e] = Absent THEN Absent
                 ELSE [form |-> file.endpoints[e].form, enabled |-> file.endpoints[e].enabled /\ ~disabling]
  BY ItemsAre DEF Wanted

\* The definition of one endpoint in a backup
LEMMA WantedOfEndpoint ==
    ASSUME NEW file, NEW disabling, NEW e \in Monitored
    PROVE  Wanted(file, disabling, EndpointItem(e)) =
             IF file.endpoints[e] = Absent THEN Absent
             ELSE [form |-> file.endpoints[e].form, enabled |-> file.endpoints[e].enabled /\ ~disabling]
  BY ItemsAre DEF Wanted

\* The form of an endpoint in a backup
LEMMA WantedForm ==
    ASSUME NEW file, NEW disabling, NEW e \in Monitored, Wanted(file, disabling, EndpointItem(e)) # Absent
    PROVE  file.endpoints[e] # Absent /\ Wanted(file, disabling, EndpointItem(e)).form = file.endpoints[e].form
<1>1. PICK w : w = Wanted(file, disabling, EndpointItem(e))
  OBVIOUS
<1>2. PICK enabled : enabled = (file.endpoints[e].enabled /\ ~disabling)
  OBVIOUS
<1>3. file.endpoints[e] # Absent /\ w = [form |-> file.endpoints[e].form, enabled |-> enabled]
  BY <1>1, <1>2, WantedIs
<1> QED
  BY <1>1, <1>3

\* An item of a backup has a definition of its kind.
LEMMA WantedTypes ==
    ASSUME NEW file \in Backups, NEW disabling \in BOOLEAN, NEW i \in Items, Wanted(file, disabling, i) # Absent
    PROVE  Wanted(file, disabling, i) \in DefinitionsOf(i)
<1>1. file \in Files
  BY RestoreAssumption
<1>2. CASE i[2] \in KeyNames /\ i = KeyItem(i[2]) /\ i[1] = 1 /\ i # ProviderItem /\ i # PageItem
  <2>1. PICK n \in KeyNames : n = i[2] /\ i = KeyItem(n)
    BY <1>2
  <2>2. Wanted(file, disabling, i) = file.keys[n] /\ file.keys[n] \in Secrets \cup {Absent}
    BY <1>1, <2>1, WantedIs DEF Files
  <2> QED
    BY <1>2, <2>2 DEF DefinitionsOf
<1>3. CASE i[2] \in Monitored /\ i = EndpointItem(i[2]) /\ i[1] = 3 /\ i # ProviderItem /\ i # PageItem
  <2>1. PICK e \in Monitored : e = i[2] /\ i = EndpointItem(e)
    BY <1>3
  <2>2. PICK enabled : enabled = (file.endpoints[e].enabled /\ ~disabling)
    OBVIOUS
  <2>3. file.endpoints[e] \in EndpointDefinitions \cup {Absent}
    BY <1>1 DEF Files
  <2>4. PICK w : w = [form |-> file.endpoints[e].form, enabled |-> enabled]
    OBVIOUS
  <2>5. file.endpoints[e] # Absent /\ Wanted(file, disabling, i) = w
    <3>1. PICK definition : definition = Wanted(file, disabling, EndpointItem(e))
      OBVIOUS
    <3>2. definition # Absent /\ Wanted(file, disabling, i) = definition
      BY <2>1, <3>1
    <3>3. Wanted(file, disabling, EndpointItem(e)) =
             IF file.endpoints[e] = Absent THEN Absent
             ELSE [form |-> file.endpoints[e].form, enabled |-> file.endpoints[e].enabled /\ ~disabling]
      BY ONLY e \in Monitored, WantedOfEndpoint
    <3>4. file.endpoints[e] # Absent
      BY ONLY <3>1, <3>2, <3>3
    <3>5. definition = [form |-> file.endpoints[e].form, enabled |-> file.endpoints[e].enabled /\ ~disabling]
      BY ONLY <3>1, <3>3, <3>4
    <3>6. definition = w
      BY ONLY <2>2, <2>4, <3>5
    <3> QED
      BY <3>2, <3>4, <3>6
  <2>6. file.endpoints[e].form \in Forms /\ enabled \in BOOLEAN
    BY <2>2, <2>3, <2>5 DEF EndpointDefinitions
  <2>7. w \in EndpointDefinitions
    BY <2>4, <2>6 DEF EndpointDefinitions
  <2> QED
    BY <1>3, <2>5, <2>7 DEF DefinitionsOf
<1>4. CASE i = ProviderItem
  BY <1>1, <1>4, WantedIs, ItemsAre DEF Files, DefinitionsOf
<1>5. CASE i = PageItem
  BY <1>1, <1>5, WantedIs, ItemsAre DEF Files, DefinitionsOf
<1> QED
  BY <1>2, <1>3, <1>4, <1>5, ItemShapes

\* What becomes of an item that may be restored
LEMMA ActionIs ==
    ASSUME NEW i, NEW asked, NEW overwrite, NEW action, action = ActionOn(i, asked, overwrite)
    PROVE  /\ action \in Actions
           /\ action = "create" => Row(i) = Absent
           /\ action = "update" => Row(i) # Absent /\ overwrite
           /\ action = "unchanged" => Row(i) # Absent /\ Row(i).definition = asked
           /\ Row(i) # Absent /\ Row(i).definition = asked => action = "unchanged"
  BY DEF ActionOn, Actions

\* Keys that are created have names and tokens that nobody has.
LEMMA PlannedKeysAre ==
    ASSUME NEW file, NEW n \in KeyNames
    PROVE  /\ PlannedKeys(file)[n] \in {"create", "unchanged", "skip"}
           /\ PlannedKeys(file)[n] = "create" =>
                /\ n \in FreeKeys(file) /\ configuration.keys[n] = Absent /\ installed.keys[n] = Absent
                /\ file.keys[n] \notin {Absent} \cup KeySecrets \cup EndpointTokens \cup FileTokens(file)
                /\ \A o \in FreeKeys(file) : o < n => file.keys[o] # file.keys[n]
           /\ PlannedKeys(file)[n] = "unchanged" => installed.keys[n] # Absent /\ installed.keys[n] = file.keys[n]
  BY DEF PlannedKeys, FreeKeys

\* Two keys are created with two tokens.
LEMMA CreatedApart ==
    ASSUME NEW file, NEW n \in KeyNames, NEW o \in KeyNames, n # o,
           PlannedKeys(file)[n] = "create", PlannedKeys(file)[o] = "create"
    PROVE  file.keys[n] # file.keys[o]
<1>1. n < o \/ o < n
  BY RestoreAssumption
<1> QED
  BY <1>1, PlannedKeysAre

\* An endpoint that fits with the tokens of others fits without them.
LEMMA FitsAlone ==
    ASSUME NEW file, NEW overwrite, NEW disabling, NEW e \in Monitored, NEW tokens,
           Fits(file, overwrite, disabling, e, tokens)
    PROVE  /\ Fits(file, overwrite, disabling, e, {})
           /\ TokenOf[Wanted(file, disabling, EndpointItem(e)).form] \notin tokens
  BY DEF Fits, MayServe

\* What an endpoint that fits is accepted for
LEMMA FitsIs ==
    ASSUME NEW file, NEW overwrite, NEW disabling, NEW e \in Monitored, Fits(file, overwrite, disabling, e, {}),
           NEW form, form = Wanted(file, disabling, EndpointItem(e)).form
    PROVE  /\ Wanted(file, disabling, EndpointItem(e)) # Absent
           /\ ~InConflictAt(e)
           /\ TokenOf[form] \notin TokensBut(e) \cup KeySecrets \cup CreatedTokens(file)
           /\ EffectiveAfter(file, PlannedProvider(file, overwrite)) \in AcceptedWith[form]
           /\ installed.endpoints[e] # Absent => IsPushForm[installed.endpoints[e].definition.form] = IsPushForm[form]
  BY DEF Fits, MayServe

\* What the plan says of an endpoint
LEMMA PlannedEndpointIs ==
    ASSUME NEW file, NEW overwrite, NEW disabling, NEW e \in Monitored,
           NEW action, action = PlannedEndpoints(file, overwrite, disabling)[e]
    PROVE  /\ action \in Actions
           /\ action # "skip" =>
                /\ Fits(file, overwrite, disabling, e, {})
                /\ action = ActionOn(EndpointItem(e), Wanted(file, disabling, EndpointItem(e)), overwrite)
<1> DEFINE actionOn(o) == ActionOn(EndpointItem(o), Wanted(file, disabling, EndpointItem(o)), overwrite)
<1> DEFINE written == {o \in Monitored : Fits(file, overwrite, disabling, o, {}) /\ actionOn(o) \in {"create", "update"}}
<1>1. action = IF Fits(file, overwrite, disabling, e, TokensPlanned(file, {o \in written : o < e})) THEN actionOn(e) ELSE "skip"
  BY DEF PlannedEndpoints
<1> QED
  BY <1>1, FitsAlone, ActionIs DEF Actions

\* Two endpoints are written with two tokens.
LEMMA WrittenApart ==
    ASSUME NEW file, NEW overwrite, NEW disabling, NEW e \in Monitored, NEW o \in Monitored, o < e,
           PlannedEndpoints(file, overwrite, disabling)[e] \in {"create", "update"},
           PlannedEndpoints(file, overwrite, disabling)[o] \in {"create", "update"},
           NEW token, token = TokenOf[Wanted(file, disabling, EndpointItem(e)).form], token # Absent
    PROVE  TokenOf[Wanted(file, disabling, EndpointItem(o)).form] # token
<1> DEFINE actionOn(p) == ActionOn(EndpointItem(p), Wanted(file, disabling, EndpointItem(p)), overwrite)
<1> DEFINE written == {p \in Monitored : Fits(file, overwrite, disabling, p, {}) /\ actionOn(p) \in {"create", "update"}}
<1> DEFINE planned == TokensPlanned(file, {p \in written : p < e})
<1>1. PlannedEndpoints(file, overwrite, disabling)[e] = IF Fits(file, overwrite, disabling, e, planned) THEN actionOn(e) ELSE "skip"
  BY DEF PlannedEndpoints
<1>2. token \notin planned
  <2>1. Fits(file, overwrite, disabling, e, planned)
    BY <1>1
  <2> HIDE DEF planned
  <2> QED
    BY <2>1, FitsAlone
<1>3. o \in written
  BY PlannedEndpointIs
<1>4. Wanted(file, disabling, EndpointItem(o)).form = file.endpoints[o].form
  BY <1>3, FitsIs, WantedForm
<1> QED
  BY <1>2, <1>3, <1>4 DEF TokensPlanned

\* The items of a plan
LEMMA PlanIs ==
    ASSUME NEW file, NEW overwrite, NEW disabling, NEW plan, plan = PlanOf(file, overwrite, disabling)
    PROVE  /\ DOMAIN plan.items = {i \in Items : Wanted(file, disabling, i) # Absent}
           /\ \A i \in DOMAIN plan.items :
                /\ plan.items[i].current = CurrentOf(i, Wanted(file, disabling, i))
                /\ i = PageItem => plan.items[i].action = PlannedPage(file, overwrite)
                /\ i = ProviderItem => plan.items[i].action = PlannedProvider(file, overwrite)
                /\ i[1] = 1 => plan.items[i].action = PlannedKeys(file)[i[2]]
                /\ i[1] = 3 => plan.items[i].action = PlannedEndpoints(file, overwrite, disabling)[i[2]]
<1> DEFINE action(i) == IF i = PageItem THEN PlannedPage(file, overwrite)
                        ELSE IF i = ProviderItem THEN PlannedProvider(file, overwrite)
                        ELSE IF i[1] = 1 THEN PlannedKeys(file)[i[2]] ELSE PlannedEndpoints(file, overwrite, disabling)[i[2]]
<1> DEFINE included == {i \in Items : Wanted(file, disabling, i) # Absent}
<1>1. plan.items = [i \in included |-> [action |-> action(i), current |-> CurrentOf(i, Wanted(file, disabling, i))]]
  BY DEF PlanOf
<1>2. DOMAIN plan.items = included /\ \A i \in included : plan.items[i].action = action(i)
                                        /\ plan.items[i].current = CurrentOf(i, Wanted(file, disabling, i))
  BY <1>1
<1>3. \A i \in included : (i[1] \in {1, 3} => i # PageItem /\ i # ProviderItem)
  BY ItemShapes
<1> HIDE DEF included
<1> QED
  BY <1>2, <1>3, ItemsAre DEF included

-----------------------------------------------------------------------------
(* The inductive invariant *)

ActionFor(i) == restore.plan.items[i].action
ShownOf(i) == restore.plan.items[i].current
Asked == {i \in Items : WantedNow(i) # Absent}
ToBeWritten == {i \in Asked : ToWrite(i)}
TokenFor(e) == TokenOf[WantedNow(EndpointItem(e)).form]
IsThere(i) == Row(i) # Absent /\ Row(i).definition = WantedNow(i)

\* What does not change while the restore is applied: an update replaces a row that was shown, with the consent of the
\* administrator, and no token is planned twice.
PlanKnown ==
    /\ DOMAIN restore.plan.items = Asked
    /\ \A i \in Asked :
          /\ ActionFor(i) \in Actions
          /\ ActionFor(i) = "update" => restore.overwrite /\ i[1] # 1 /\ ShownOf(i).version \in Nat \ {0}
    /\ \A n, o \in KeyNames :
          KeyItem(n) \in ToBeWritten /\ KeyItem(o) \in ToBeWritten /\ n # o => restore.file.keys[n] # restore.file.keys[o]
    /\ \A n \in KeyNames, e \in Monitored :
          KeyItem(n) \in ToBeWritten /\ EndpointItem(e) \in ToBeWritten => TokenFor(e) # restore.file.keys[n]
    /\ \A e, o \in Monitored :
          EndpointItem(e) \in ToBeWritten /\ EndpointItem(o) \in ToBeWritten /\ e # o =>
             TokenFor(e) = Absent \/ TokenFor(e) # TokenFor(o)

\* What makes an endpoint acceptable once the provider was restored, unless the provider was refused
EndpointAcceptable(e) ==
    LET form == WantedNow(EndpointItem(e)).form IN
    /\ ~InConflictAt(e)
    /\ TokenOf[form] \notin KeySecrets /\ TokenOf[form] \notin configuration.tokens \ {Absent}
    /\ \A o \in Monitored \ {e} : StoredToken(o) = TokenOf[form] => StoredToken(o) \in restore.unseen \cup {Absent}
    /\ installed.endpoints[e] # Absent => IsPushForm[installed.endpoints[e].definition.form] = IsPushForm[form]
    /\ \/ restore.refused
       \/ IF ProviderItem \in restore.left /\ ProviderItem \in ToBeWritten THEN Using(restore.file.provider) \in AcceptedWith[form]
          ELSE ProviderInUse \in AcceptedWith[form]

\* What makes the next item acceptable, when nobody interferes
Acceptable(i) ==
    /\ IF ActionFor(i) = "create" THEN Row(i) = Absent ELSE Row(i) # Absent /\ Row(i) = ShownOf(i)
    /\ i[1] = 1 => configuration.keys[i[2]] = Absent /\ WantedNow(i) \notin KeySecrets \cup EndpointTokens
    /\ i = ProviderItem => configuration.provider = Absent
    /\ i[1] = 3 => EndpointAcceptable(i[2])
    /\ i = PageItem /\ ActionFor(i) = "create" => ~configuration.page

\* An item that is left: its row is the one that was shown or a later one, unless the item was removed in between.
ItemLeft(i) ==
    /\ i \in Asked
    /\ ActionFor(i) = "update" =>
          \/ i \in restore.recreated
          \/ Row(i) # Absent /\ (Row(i).version > ShownOf(i).version \/ Row(i) = ShownOf(i))
    /\ ActionFor(i) = "unchanged" => restore.interfered \/ IsThere(i)
    /\ ToWrite(i) /\ ~restore.interfered /\ ~restore.reloading => Acceptable(i)
LeftKnown == \A i \in restore.left : ItemLeft(i)

\* An item that was handled: what was restored is there, what was replaced was shown, and what failed was not predicted to work.
ItemDone(i) ==
    /\ i \in Asked
    /\ ResultOf(i) \in {"created", "updated", "unchanged"} => restore.interfered \/ IsThere(i)
    /\ ResultOf(i) = "created" => restore.results[i].replaced = Absent
    /\ ResultOf(i) = "updated" =>
          restore.overwrite /\ (restore.results[i].replaced = ShownOf(i) \/ i \in restore.recreated)
    /\ ResultOf(i) = "unchanged" => restore.interfered \/ restore.results[i].replaced.definition = WantedNow(i)
    /\ ResultOf(i) = "failed" =>
          \/ restore.interfered
          \/ restore.refused /\ i[1] \in {2, 3}
          \/ i[1] = 3 /\ TokenOf[restore.file.endpoints[i[2]].form] \in restore.unseen
DoneKnown == \A i \in DOMAIN restore.results : ItemDone(i)

RestoreInv ==
    /\ installed \in Administration
    /\ restore.stage \in {"none", "previewed", "applying"}
    /\ restore.stage # "none" =>
          IsRestore(restore) /\ restore.file \in Backups /\ restore.overwrite \in BOOLEAN /\ restore.disabling \in BOOLEAN
    /\ restore.stage # "applying" => DOMAIN restore.results = {}
    /\ restore.stage = "applying" => PlanKnown /\ LeftKnown /\ DoneKnown

\* What is registered, and what follows from it, stays.
LEMMA StaysRegistered ==
    ASSUME UNCHANGED <<configuration, installed>>
    PROVE  /\ \A i \in Items : Row(i)' = Row(i)
           /\ KeySecrets' = KeySecrets /\ EndpointTokens' = EndpointTokens /\ ProviderInUse' = ProviderInUse
           /\ \A e \in Monitored : StoredToken(e)' = StoredToken(e)
           /\ \A x : Using(x)' = Using(x)
<1>1. \A i \in Items : Row(i)' = Row(i)
  BY DEF Row
<1>2. KeySecrets' = KeySecrets
  BY DEF KeySecrets
<1>3. \A e \in Monitored : StoredToken(e)' = StoredToken(e)
  BY DEF StoredToken
<1>4. EndpointTokens' = EndpointTokens
  BY <1>3 DEF EndpointTokens
<1>5. \A x : Using(x)' = Using(x)
  BY DEF Using
<1>6. ProviderInUse' = ProviderInUse
  BY DEF ProviderInUse, Using
<1> QED
  BY <1>1, <1>2, <1>3, <1>4, <1>5, <1>6

\* The plan and what it says stay.
LEMMA PlanStays ==
    ASSUME SamePlan(restore', restore)
    PROVE  /\ \A i : WantedNow(i)' = WantedNow(i) /\ ActionFor(i)' = ActionFor(i) /\ ShownOf(i)' = ShownOf(i)
           /\ \A i : (ToWrite(i) <=> ToWrite(i)') /\ PlannedVersion(i)' = PlannedVersion(i)
           /\ Asked' = Asked /\ ToBeWritten' = ToBeWritten
           /\ PlanKnown => PlanKnown'
<1>1. restore'.file = restore.file /\ restore'.overwrite = restore.overwrite /\ restore'.disabling = restore.disabling
      /\ restore'.plan = restore.plan
  BY DEF SamePlan
<1>2. \A i : WantedNow(i)' = WantedNow(i)
  BY <1>1 DEF WantedNow, Wanted
<1>3. \A i : ActionFor(i)' = ActionFor(i) /\ ShownOf(i)' = ShownOf(i) /\ PlannedVersion(i)' = PlannedVersion(i)
  BY <1>1 DEF ActionFor, ShownOf, PlannedVersion
<1>4. \A i : ToWrite(i) <=> ToWrite(i)'
  BY <1>1 DEF ToWrite
<1>5. Asked' = Asked
  BY <1>2 DEF Asked
<1>6. ToBeWritten' = ToBeWritten
  BY <1>4, <1>5 DEF ToBeWritten
<1>7. \A e : TokenFor(e)' = TokenFor(e)
  BY <1>2 DEF TokenFor
<1>8. ASSUME PlanKnown PROVE PlanKnown'
  BY <1>1, <1>3, <1>5, <1>6, <1>7, <1>8 DEF PlanKnown
<1> QED
  BY <1>2, <1>3, <1>4, <1>5, <1>6, <1>8

-----------------------------------------------------------------------------
(* The restore begins with what its plan says. *)

PlannedNow ==
    /\ installed \in Administration /\ restore.file \in Backups
    /\ restore.overwrite \in BOOLEAN /\ restore.disabling \in BOOLEAN
    /\ restore.plan = PlanOf(restore.file, restore.overwrite, restore.disabling)

\* The items of the plan, as the request has it
LEMMA PlannedItems ==
    ASSUME PlannedNow
    PROVE  /\ DOMAIN restore.plan.items = Asked
           /\ \A i \in Asked :
                 /\ ShownOf(i) = CurrentOf(i, WantedNow(i))
                 /\ i = PageItem => ActionFor(i) = PlannedPage(restore.file, restore.overwrite)
                 /\ i = ProviderItem => ActionFor(i) = PlannedProvider(restore.file, restore.overwrite)
                 /\ i[1] = 1 => ActionFor(i) = PlannedKeys(restore.file)[i[2]]
                 /\ i[1] = 3 => ActionFor(i) = PlannedEndpoints(restore.file, restore.overwrite, restore.disabling)[i[2]]
  BY PlanIs DEF PlannedNow, Asked, WantedNow, ShownOf, ActionFor

\* A push key of the plan
LEMMA NewKey ==
    ASSUME PlannedNow, NEW n \in KeyNames, KeyItem(n) \in Asked
    PROVE  /\ ActionFor(KeyItem(n)) \in {"create", "unchanged", "skip"}
           /\ ActionFor(KeyItem(n)) = PlannedKeys(restore.file)[n] /\ WantedNow(KeyItem(n)) = restore.file.keys[n]
           /\ ActionFor(KeyItem(n)) = "create" =>
                /\ Row(KeyItem(n)) = Absent /\ configuration.keys[n] = Absent
                /\ WantedNow(KeyItem(n)) \notin KeySecrets \cup EndpointTokens \cup FileTokens(restore.file)
           /\ ActionFor(KeyItem(n)) = "unchanged" => IsThere(KeyItem(n))
<1>1. PICK key : key = KeyItem(n)
  OBVIOUS
<1>2. key[1] = 1 /\ key[2] = n
  BY <1>1, ItemsAre
<1>3. ActionFor(key) = PlannedKeys(restore.file)[n]
  BY <1>1, <1>2, PlannedItems
<1>4. WantedNow(key) = restore.file.keys[n]
  BY <1>1, WantedIs DEF WantedNow
<1>5. ActionFor(key) = "create" =>
         /\ installed.keys[n] = Absent /\ configuration.keys[n] = Absent
         /\ restore.file.keys[n] \notin KeySecrets \cup EndpointTokens \cup FileTokens(restore.file)
  BY <1>3, PlannedKeysAre
<1>6. ActionFor(key) = "unchanged" => installed.keys[n] # Absent /\ installed.keys[n] = restore.file.keys[n]
  BY <1>3, PlannedKeysAre
<1>7. /\ Row(key) = Absent <=> installed.keys[n] = Absent
      /\ installed.keys[n] # Absent => Row(key).definition = installed.keys[n]
  BY <1>1, KeyRow DEF PlannedNow
<1> QED
  BY <1>1, <1>3, <1>4, <1>5, <1>6, <1>7, PlannedKeysAre DEF IsThere

\* An item with a version of the plan
LEMMA NewVersioned ==
    ASSUME PlannedNow, NEW i \in Asked, i[1] # 1
    PROVE  /\ ActionFor(i) \in Actions
           /\ ActionFor(i) = "create" => Row(i) = Absent
           /\ ActionFor(i) = "update" =>
                restore.overwrite /\ Row(i) # Absent /\ ShownOf(i) = Row(i) /\ Row(i).version \in Nat \ {0}
           /\ ActionFor(i) = "unchanged" => IsThere(i)
<1>1. i \in Items /\ ShownOf(i) = CurrentOf(i, WantedNow(i))
  BY PlannedItems DEF Asked
<1>2. Row(i) # Absent => ShownOf(i) = Row(i) /\ Row(i).version \in Nat \ {0}
  BY <1>1, RowTypes, RowFields DEF CurrentOf, PlannedNow
<1>3. ActionFor(i) = "skip" \/ ActionFor(i) = ActionOn(i, WantedNow(i), restore.overwrite)
  <2>1. CASE i = PageItem
    <3>1. ActionFor(i) = PlannedPage(restore.file, restore.overwrite)
      BY <2>1, PlannedItems
    <3> QED
      BY <2>1, <3>1, WantedIs DEF PlannedPage, WantedNow
  <2>2. CASE i = ProviderItem
    <3>1. ActionFor(i) = PlannedProvider(restore.file, restore.overwrite)
      BY <2>2, PlannedItems
    <3> QED
      BY <2>2, <3>1, WantedIs DEF PlannedProvider, WantedNow
  <2>3. CASE i[1] = 3
    <3>1. PICK e \in Monitored : i = EndpointItem(e) /\ i[2] = e
      BY <1>1, <2>3, ItemShapes, ItemsAre
    <3>2. ActionFor(i) = PlannedEndpoints(restore.file, restore.overwrite, restore.disabling)[e]
      BY <2>3, <3>1, PlannedItems
    <3> QED
      BY <3>1, <3>2, PlannedEndpointIs DEF WantedNow
  <2> QED
    BY <1>1, <2>1, <2>2, <2>3, ItemShapes
<1>4. ActionFor(i) = "skip" \/ (ActionFor(i) \in Actions /\
         (ActionFor(i) = "create" => Row(i) = Absent) /\ (ActionFor(i) = "update" => Row(i) # Absent /\ restore.overwrite) /\
         (ActionFor(i) = "unchanged" => IsThere(i)))
  BY <1>3, ActionIs DEF IsThere
<1> QED
  BY <1>2, <1>4 DEF Actions

\* The provider and the page of the plan are not those of the file.
LEMMA NewProviderAndPage ==
    ASSUME PlannedNow
    PROVE  /\ ProviderItem \in ToBeWritten => configuration.provider = Absent
           /\ PageItem \in ToBeWritten => ~configuration.page
           /\ EffectiveAfter(restore.file, PlannedProvider(restore.file, restore.overwrite)) =
                 IF ProviderItem \in ToBeWritten THEN Using(restore.file.provider) ELSE ProviderInUse
<1>1. /\ ProviderItem \in Asked => ActionFor(ProviderItem) = PlannedProvider(restore.file, restore.overwrite)
      /\ PageItem \in Asked => ActionFor(PageItem) = PlannedPage(restore.file, restore.overwrite)
  BY PlannedItems
<1>2. ProviderItem \in Asked <=> restore.file.provider # Absent
  BY WantedIs, ItemsAre DEF Asked, WantedNow
<1>3. PlannedProvider(restore.file, restore.overwrite) \in {"create", "update"} =>
         restore.file.provider # Absent /\ configuration.provider = Absent
  BY DEF PlannedProvider
<1>4. PlannedPage(restore.file, restore.overwrite) \in {"create", "update"} => ~configuration.page
  BY DEF PlannedPage
<1>5. \A i \in Asked : i \in ToBeWritten <=> ActionFor(i) \in {"create", "update"}
  BY DEF ToBeWritten, ToWrite, ActionFor
<1>6. ToBeWritten \subseteq Asked
  BY DEF ToBeWritten
<1>7. ProviderItem \in ToBeWritten <=> PlannedProvider(restore.file, restore.overwrite) \in {"create", "update"}
  BY <1>1, <1>2, <1>3, <1>5, <1>6
<1> QED
  BY <1>1, <1>3, <1>4, <1>5, <1>6, <1>7 DEF EffectiveAfter

\* An endpoint of the plan that is to be written
LEMMA NewEndpoint ==
    ASSUME PlannedNow, NEW e \in Monitored, EndpointItem(e) \in ToBeWritten,
           NEW form, form = WantedNow(EndpointItem(e)).form
    PROVE  /\ ~InConflictAt(e)
           /\ TokenOf[form] \notin TokensBut(e) \cup KeySecrets \cup CreatedTokens(restore.file)
           /\ installed.endpoints[e] # Absent => IsPushForm[installed.endpoints[e].definition.form] = IsPushForm[form]
           /\ IF ProviderItem \in ToBeWritten THEN Using(restore.file.provider) \in AcceptedWith[form]
              ELSE ProviderInUse \in AcceptedWith[form]
           /\ restore.file.endpoints[e] # Absent /\ form = restore.file.endpoints[e].form
           /\ PlannedEndpoints(restore.file, restore.overwrite, restore.disabling)[e] \in {"create", "update"}
<1>1. PlannedEndpoints(restore.file, restore.overwrite, restore.disabling)[e] \in {"create", "update"}
  BY PlannedItems, ItemsAre DEF ToBeWritten, ToWrite, ActionFor
<1>2. Fits(restore.file, restore.overwrite, restore.disabling, e, {})
  BY <1>1, PlannedEndpointIs
<1>3. form = Wanted(restore.file, restore.disabling, EndpointItem(e)).form
  BY DEF WantedNow
<1>4. /\ Wanted(restore.file, restore.disabling, EndpointItem(e)) # Absent
      /\ ~InConflictAt(e)
      /\ TokenOf[form] \notin TokensBut(e) \cup KeySecrets \cup CreatedTokens(restore.file)
      /\ EffectiveAfter(restore.file, PlannedProvider(restore.file, restore.overwrite)) \in AcceptedWith[form]
      /\ installed.endpoints[e] # Absent => IsPushForm[installed.endpoints[e].definition.form] = IsPushForm[form]
  BY <1>2, <1>3, FitsIs
<1>5. restore.file.endpoints[e] # Absent /\ form = restore.file.endpoints[e].form
  BY <1>3, <1>4, WantedForm
<1> QED
  BY <1>1, <1>4, <1>5, NewProviderAndPage

\* What the plan says stays so.
LEMMA NewPlanIsKnown ==
    ASSUME PlannedNow
    PROVE  PlanKnown
<1>1. \A i \in Asked :
          /\ ActionFor(i) \in Actions
          /\ ActionFor(i) = "update" => restore.overwrite /\ i[1] # 1 /\ ShownOf(i).version \in Nat \ {0}
  <2> TAKE i \in Asked
  <2>1. CASE i[1] = 1
    <3>1. PICK n \in KeyNames : i = KeyItem(n)
      BY <2>1, ItemShapes DEF Asked
    <3> QED
      BY <3>1, NewKey DEF Actions
  <2>2. CASE i[1] # 1
    BY <2>2, NewVersioned
  <2> QED
    BY <2>1, <2>2
<1>2. \A i \in ToBeWritten : i \in Asked /\ ActionFor(i) \in {"create", "update"}
  BY DEF ToBeWritten, ToWrite, ActionFor
<1>3. \A n \in KeyNames : KeyItem(n) \in ToBeWritten =>
         /\ PlannedKeys(restore.file)[n] = "create"
         /\ restore.file.keys[n] \notin FileTokens(restore.file)
  BY <1>2, NewKey
<1>4. \A n, o \in KeyNames :
          KeyItem(n) \in ToBeWritten /\ KeyItem(o) \in ToBeWritten /\ n # o => restore.file.keys[n] # restore.file.keys[o]
  BY <1>3, CreatedApart
<1>5. \A e \in Monitored : EndpointItem(e) \in ToBeWritten => TokenFor(e) \in FileTokens(restore.file)
  BY NewEndpoint DEF TokenFor, FileTokens
<1>6. \A n \in KeyNames, e \in Monitored :
          KeyItem(n) \in ToBeWritten /\ EndpointItem(e) \in ToBeWritten => TokenFor(e) # restore.file.keys[n]
  BY <1>3, <1>5
<1>7. ASSUME NEW e \in Monitored, NEW o \in Monitored, o < e,
             EndpointItem(e) \in ToBeWritten, EndpointItem(o) \in ToBeWritten, TokenFor(e) # Absent
      PROVE  TokenFor(e) # TokenFor(o)
  <2>1. /\ PlannedEndpoints(restore.file, restore.overwrite, restore.disabling)[e] \in {"create", "update"}
        /\ PlannedEndpoints(restore.file, restore.overwrite, restore.disabling)[o] \in {"create", "update"}
    BY <1>7, NewEndpoint
  <2> QED
    BY <1>7, <2>1, WrittenApart DEF TokenFor, WantedNow
<1>8. \A e, o \in Monitored :
          EndpointItem(e) \in ToBeWritten /\ EndpointItem(o) \in ToBeWritten /\ e # o =>
             TokenFor(e) = Absent \/ TokenFor(e) # TokenFor(o)
  <2>1. \A e, o \in Monitored : e # o => e < o \/ o < e
    BY RestoreAssumption
  <2> QED
    BY <1>7, <2>1
<1> QED
  BY <1>1, <1>4, <1>6, <1>8, PlannedItems DEF PlanKnown

\* A confirmed restore is of what was previewed.
LEMMA ConfirmKeeps ==
    ASSUME RestoreInv, Confirm
    PROVE  RestoreInv'
<1>1. UNCHANGED <<configuration, installed>> /\ installed' \in Administration
  BY DEF Confirm, RestoreInv
<1>2. CASE restore' = NoRestore
  BY <1>1, <1>2 DEF RestoreInv, NoRestore
<1>3. CASE restore' # NoRestore
  <2>1. PICK unseen : unseen = {StoredToken(e) : e \in {e \in Monitored : ~IsServed(e)}} \ {Absent}
    OBVIOUS
  <2>2. /\ restore.stage = "previewed" /\ restore.plan = PlanOf(restore.file, restore.overwrite, restore.disabling)
        /\ restore' = [restore EXCEPT !.stage = "applying", !.left = DOMAIN restore.plan.items, !.unseen = unseen]
    BY <1>3, <2>1 DEF Confirm, IsAsPreviewed
  <2>3. IsRestore(restore) /\ PlannedNow /\ DOMAIN restore.results = {}
    BY <2>2 DEF RestoreInv, PlannedNow
  <2>4. /\ IsRestore(restore') /\ restore'.stage = "applying" /\ SamePlan(restore', restore)
        /\ restore'.left = DOMAIN restore.plan.items /\ restore'.unseen = unseen /\ restore'.results = restore.results
    BY <2>2, <2>3 DEF IsRestore, RestoreFields, SamePlan
  <2>5. restore'.left = Asked
    BY <2>3, <2>4, PlannedItems
  <2>6. PlanKnown'
    BY <2>3, <2>4, NewPlanIsKnown, PlanStays
  <2>7. DoneKnown'
    BY <2>3, <2>4 DEF DoneKnown
  <2>8. LeftKnown'
    <3> SUFFICES ASSUME NEW i \in Asked PROVE ItemLeft(i)'
      BY <2>5 DEF LeftKnown
    <3>1. /\ i \in Items /\ Row(i)' = Row(i) /\ i \in Asked'
          /\ WantedNow(i)' = WantedNow(i) /\ ActionFor(i)' = ActionFor(i) /\ ShownOf(i)' = ShownOf(i)
          /\ (ToWrite(i) <=> ToWrite(i)') /\ ToBeWritten' = ToBeWritten
          /\ KeySecrets' = KeySecrets /\ EndpointTokens' = EndpointTokens
      BY <1>1, <2>4, StaysRegistered, PlanStays DEF Asked
    <3>2. /\ ActionFor(i) = "update" => Row(i) # Absent /\ Row(i) = ShownOf(i)
          /\ ActionFor(i) = "unchanged" => IsThere(i)
          /\ ActionFor(i) = "create" => Row(i) = Absent
      <4>1. CASE i[1] = 1
        <5>1. PICK n \in KeyNames : i = KeyItem(n)
          BY <3>1, <4>1, ItemShapes
        <5> QED
          BY <2>3, <5>1, NewKey
      <4>2. CASE i[1] # 1
        BY <2>3, <4>2, NewVersioned
      <4> QED
        BY <4>1, <4>2
    <3>3. IsThere(i) => IsThere(i)'
      BY <3>1 DEF IsThere
    <3>4. ASSUME ToWrite(i)
          PROVE  Acceptable(i)'
      <4>1. i \in ToBeWritten /\ ActionFor(i) \in {"create", "update"}
        BY <3>4 DEF ToBeWritten, ToWrite, ActionFor
      <4>2. (IF ActionFor(i) = "create" THEN Row(i) = Absent ELSE Row(i) # Absent /\ Row(i) = ShownOf(i))'
        BY <3>1, <3>2, <4>1
      <4>3. (i[1] = 1 => configuration.keys[i[2]] = Absent /\ WantedNow(i) \notin KeySecrets \cup EndpointTokens)'
        <5> SUFFICES ASSUME i[1] = 1
                     PROVE  configuration.keys[i[2]] = Absent /\ WantedNow(i) \notin KeySecrets \cup EndpointTokens
          BY <1>1, <3>1
        <5>1. PICK n \in KeyNames : i = KeyItem(n) /\ i[2] = n
          BY <3>1, ItemShapes
        <5>2. ActionFor(i) = "create"
          BY <2>3, <4>1, <5>1, NewKey
        <5> QED
          BY <2>3, <5>1, <5>2, NewKey
      <4>4. (i = ProviderItem => configuration.provider = Absent)' /\ (i = PageItem /\ ActionFor(i) = "create" => ~configuration.page)'
        BY <1>1, <2>3, <3>1, <4>1, NewProviderAndPage
      <4>5. (i[1] = 3 => EndpointAcceptable(i[2]))'
        <5> SUFFICES ASSUME i[1] = 3 PROVE EndpointAcceptable(i[2])'
          OBVIOUS
        <5>1. PICK e \in Monitored : i = EndpointItem(e) /\ i[2] = e
          BY <3>1, ItemShapes
        <5>2. PICK form : form = WantedNow(i).form
          OBVIOUS
        <5>3. /\ ~InConflictAt(e)
              /\ TokenOf[form] \notin TokensBut(e) \cup KeySecrets
              /\ installed.endpoints[e] # Absent => IsPushForm[installed.endpoints[e].definition.form] = IsPushForm[form]
              /\ IF ProviderItem \in ToBeWritten THEN Using(restore.file.provider) \in AcceptedWith[form]
                 ELSE ProviderInUse \in AcceptedWith[form]
          BY <2>3, <4>1, <5>1, <5>2, NewEndpoint
        <5>4. TokenOf[form] \notin configuration.tokens \ {Absent}
          BY <5>3 DEF TokensBut
        <5>5. \A o \in Monitored \ {e} : StoredToken(o) = TokenOf[form] => StoredToken(o) \in unseen \cup {Absent}
          <6> SUFFICES ASSUME NEW o \in Monitored \ {e}, StoredToken(o) = TokenOf[form], StoredToken(o) # Absent
                       PROVE  StoredToken(o) \in unseen
            OBVIOUS
          <6>1. ~IsServed(o)
            BY <5>3 DEF TokensBut
          <6> QED
            BY <2>1, <6>1
        <5>6. WantedNow(EndpointItem(e))'.form = form
          BY <3>1, <5>1, <5>2
        <5>7. InConflictAt(e)' <=> InConflictAt(e)
          BY <1>1 DEF InConflictAt
        <5>8. /\ \A o \in Monitored : StoredToken(o)' = StoredToken(o)
              /\ Using(restore.file.provider)' = Using(restore.file.provider) /\ ProviderInUse' = ProviderInUse
          BY <1>1, <2>4, StaysRegistered DEF SamePlan, Using
        <5>9. ProviderItem \in ToBeWritten => ProviderItem \in restore'.left
          BY <2>5 DEF ToBeWritten
        <5>10. /\ (TokenOf[form] \notin KeySecrets)' /\ (TokenOf[form] \notin configuration.tokens \ {Absent})'
               /\ (\A o \in Monitored \ {e} : StoredToken(o) = TokenOf[form] => StoredToken(o) \in restore.unseen \cup {Absent})'
               /\ (installed.endpoints[e] # Absent => IsPushForm[installed.endpoints[e].definition.form] = IsPushForm[form])'
          BY <1>1, <2>4, <3>1, <5>3, <5>4, <5>5, <5>8
        <5>11. (IF ProviderItem \in restore.left /\ ProviderItem \in ToBeWritten THEN Using(restore.file.provider) \in AcceptedWith[form]
                ELSE ProviderInUse \in AcceptedWith[form])'
          BY <3>1, <5>3, <5>8, <5>9
        <5> QED
          BY <5>1, <5>3, <5>6, <5>7, <5>10, <5>11 DEF EndpointAcceptable
      <4> QED
        BY <4>2, <4>3, <4>4, <4>5 DEF Acceptable
    <3>5. (ActionFor(i) = "update" => Row(i) # Absent /\ Row(i) = ShownOf(i))' /\ (ActionFor(i) = "unchanged" => IsThere(i))'
      BY <3>1, <3>2, <3>3
    <3> QED
      BY <3>1, <3>4, <3>5 DEF ItemLeft
  <2>9. restore'.file \in Backups /\ restore'.overwrite \in BOOLEAN /\ restore'.disabling \in BOOLEAN
    BY <2>3, <2>4 DEF PlannedNow, SamePlan
  <2> QED
    BY <1>1, <2>4, <2>6, <2>7, <2>8, <2>9 DEF RestoreInv
<1> QED
  BY <1>2, <1>3

-----------------------------------------------------------------------------
(* From one item to the next *)

\* An item comes after those before it.
LEMMA EarlierAreDone ==
    ASSUME NEW i \in Items, NEW j \in Items, IsNextItem(i), j \in restore.left
    PROVE  j = i \/ i[1] < j[1] \/ i[1] = j[1]
  BY DEF IsNextItem, Precedes

\* What the service accepts of an acceptable item
LEMMA AcceptableIsAccepted ==
    ASSUME RestoreInv, restore.stage = "applying", NEW i \in Items, IsNextItem(i), ToWrite(i), Acceptable(i),
           i = ProviderItem => DependentsAccept(WantedNow(i)),
           i[1] = 3 => ~restore.refused /\ TokenOf[WantedNow(i).form] \notin restore.unseen
    PROVE  Accepts(i, WantedNow(i), PlannedVersion(i))
<1>1. i \in Asked /\ ActionFor(i) \in {"create", "update"} /\ PlanKnown
  BY DEF RestoreInv, LeftKnown, ItemLeft, IsNextItem, ToWrite, ActionFor
<1>2. /\ ActionFor(i) = "create" => PlannedVersion(i) = 0 /\ Row(i) = Absent
      /\ ActionFor(i) = "update" => PlannedVersion(i) # 0 /\ IsAtVersion(i, PlannedVersion(i))
  <2>1. CASE ActionFor(i) = "create"
    BY <2>1 DEF PlannedVersion, ActionFor, Acceptable
  <2>2. CASE ActionFor(i) = "update"
    BY <1>1, <2>2 DEF PlannedVersion, ActionFor, Acceptable, ShownOf, IsAtVersion, PlanKnown
  <2> QED
    BY <2>1, <2>2
<1>3. i[1] = 3 => MayServe(i[2], WantedNow(i).form, TokensBut(i[2]), KeySecrets, ProviderInUse)
  <2> SUFFICES ASSUME i[1] = 3 PROVE MayServe(i[2], WantedNow(i).form, TokensBut(i[2]), KeySecrets, ProviderInUse)
    OBVIOUS
  <2>1. PICK e \in Monitored : i = EndpointItem(e) /\ i[2] = e
    BY ItemShapes
  <2>2. PICK form : form = WantedNow(i).form
    OBVIOUS
  <2>3. ProviderItem \notin restore.left
    BY ItemsAre, EarlierAreDone
  <2>4. EndpointAcceptable(e) /\ ~restore.refused /\ TokenOf[form] \notin restore.unseen
    BY <2>1, <2>2 DEF Acceptable
  <2>5. /\ ~InConflictAt(e) /\ TokenOf[form] \notin KeySecrets /\ TokenOf[form] \notin configuration.tokens \ {Absent}
        /\ \A o \in Monitored \ {e} : StoredToken(o) = TokenOf[form] => StoredToken(o) \in restore.unseen \cup {Absent}
        /\ installed.endpoints[e] # Absent => IsPushForm[installed.endpoints[e].definition.form] = IsPushForm[form]
        /\ ProviderInUse \in AcceptedWith[form]
    BY <2>1, <2>2, <2>3, <2>4 DEF EndpointAcceptable
  <2>6. TokenOf[form] \notin TokensBut(e)
    BY <2>4, <2>5 DEF TokensBut
  <2> QED
    BY <2>1, <2>2, <2>5, <2>6 DEF MayServe
<1> QED
  BY <1>1, <1>2, <1>3 DEF Accepts, Acceptable

\* What is written for an item is a row of it.
LEMMA NextRowIs ==
    ASSUME installed \in Administration, NEW i \in Items, NEW definition \in DefinitionsOf(i)
    PROVE  /\ NextRow(i, definition) \in RowFor(i) /\ NextRow(i, definition) # Absent
           /\ NextRow(i, definition).definition = definition
           /\ Row(i) # Absent /\ i[1] # 1 => NextRow(i, definition).version = Row(i).version + 1
<1>1. PICK version : version = IF i[1] = 1 THEN 0 ELSE IF Row(i) = Absent THEN 1 ELSE Row(i).version + 1
  OBVIOUS
<1>2. Row(i) # Absent => Row(i).version \in Nat
  BY RowTypes, RowFields
<1>3. version \in Nat /\ (IF i[1] = 1 THEN version = 0 ELSE version # 0)
  BY <1>1, <1>2
<1>4. PICK row : row = [version |-> version, definition |-> definition]
  OBVIOUS
<1>5. NextRow(i, definition) = row
  BY <1>1, <1>4 DEF NextRow
<1>6. row \in RowFor(i) /\ row # Absent
  BY <1>3, <1>4, RowIsThere
<1> QED
  BY <1>1, <1>4, <1>5, <1>6

\* What is left stays acceptable when an item was not written, unless it is the provider.
LEMMA StillAcceptable ==
    ASSUME UNCHANGED <<configuration, installed>>, NEW i \in Items, NEW result, NextItem(i, result),
           restore.refused => restore'.refused, i = ProviderItem /\ i \in ToBeWritten => restore'.refused,
           NEW j \in Items, Acceptable(j)
    PROVE  Acceptable(j)'
<1>1. SamePlan(restore', restore) /\ restore'.left = restore.left \ {i} /\ restore'.unseen = restore.unseen
  BY DEF NextItem
<1>2. /\ WantedNow(j)' = WantedNow(j) /\ ActionFor(j)' = ActionFor(j) /\ ShownOf(j)' = ShownOf(j)
      /\ ToBeWritten' = ToBeWritten /\ restore'.file = restore.file
  BY <1>1, PlanStays DEF SamePlan
<1>3. /\ Row(j)' = Row(j) /\ KeySecrets' = KeySecrets /\ EndpointTokens' = EndpointTokens /\ ProviderInUse' = ProviderInUse
      /\ \A e \in Monitored : StoredToken(e)' = StoredToken(e)
      /\ Using(restore.file.provider)' = Using(restore.file.provider)
  BY <1>2, StaysRegistered DEF Using
<1>4. ASSUME j[1] = 3
      PROVE  EndpointAcceptable(j[2])'
  <2>1. PICK e \in Monitored : j = EndpointItem(e) /\ j[2] = e
    BY <1>4, ItemShapes
  <2>2. PICK form : form = WantedNow(EndpointItem(e)).form
    OBVIOUS
  <2>3. WantedNow(EndpointItem(e))'.form = form
    BY <1>2, <2>1, <2>2
  <2>4. EndpointAcceptable(e)
    BY <1>4, <2>1 DEF Acceptable
  <2>5. /\ ~InConflictAt(e) /\ TokenOf[form] \notin KeySecrets /\ TokenOf[form] \notin configuration.tokens \ {Absent}
        /\ \A o \in Monitored \ {e} : StoredToken(o) = TokenOf[form] => StoredToken(o) \in restore.unseen \cup {Absent}
        /\ installed.endpoints[e] # Absent => IsPushForm[installed.endpoints[e].definition.form] = IsPushForm[form]
        /\ \/ restore.refused
           \/ IF ProviderItem \in restore.left /\ ProviderItem \in ToBeWritten THEN Using(restore.file.provider) \in AcceptedWith[form]
              ELSE ProviderInUse \in AcceptedWith[form]
    BY <2>2, <2>4 DEF EndpointAcceptable
  <2>6. /\ ~InConflictAt(e)' /\ (TokenOf[form] \notin KeySecrets)' /\ (TokenOf[form] \notin configuration.tokens \ {Absent})'
        /\ (\A o \in Monitored \ {e} : StoredToken(o) = TokenOf[form] => StoredToken(o) \in restore.unseen \cup {Absent})'
        /\ (installed.endpoints[e] # Absent => IsPushForm[installed.endpoints[e].definition.form] = IsPushForm[form])'
    BY <1>1, <1>3, <2>5 DEF InConflictAt
  <2>7. restore'.refused \/ (IF ProviderItem \in restore.left /\ ProviderItem \in ToBeWritten
                             THEN Using(restore.file.provider) \in AcceptedWith[form] ELSE ProviderInUse \in AcceptedWith[form])'
    <3>1. CASE restore'.refused
      BY <3>1
    <3>2. CASE ~restore'.refused
      <4>1. ~restore.refused /\ ~(i = ProviderItem /\ i \in ToBeWritten)
        BY <3>2
      <4>2. ProviderItem \in restore'.left /\ ProviderItem \in ToBeWritten <=> ProviderItem \in restore.left /\ ProviderItem \in ToBeWritten
        BY <1>1, <4>1
      <4> QED
        BY <1>2, <1>3, <2>5, <4>1, <4>2
    <3> QED
      BY <3>1, <3>2
  <2>8. EndpointAcceptable(e)'
    BY <2>3, <2>6, <2>7 DEF EndpointAcceptable
  <2> QED
    BY <2>1, <2>8
<1>5. (IF ActionFor(j) = "create" THEN Row(j) = Absent ELSE Row(j) # Absent /\ Row(j) = ShownOf(j))'
  BY <1>2, <1>3 DEF Acceptable
<1>6. (j[1] = 1 => configuration.keys[j[2]] = Absent /\ WantedNow(j) \notin KeySecrets \cup EndpointTokens)'
  BY <1>2, <1>3 DEF Acceptable
<1>7. (j = ProviderItem => configuration.provider = Absent)' /\ (j = PageItem /\ ActionFor(j) = "create" => ~configuration.page)'
  BY <1>2 DEF Acceptable
<1> QED
  BY <1>4, <1>5, <1>6, <1>7 DEF Acceptable

\* What is wanted for a push key is its token.
LEMMA WantedKey ==
    ASSUME NEW n \in KeyNames
    PROVE  WantedNow(KeyItem(n)) = restore.file.keys[n]
<1>1. PICK key : key = KeyItem(n)
  OBVIOUS
<1>2. WantedNow(key) = restore.file.keys[n]
  BY <1>1, WantedIs DEF WantedNow
<1> QED
  BY <1>1, <1>2

\* What is left stays acceptable when an item was written.
LEMMA AcceptableAfter ==
    ASSUME RestoreInv, restore.stage = "applying", UNCHANGED configuration,
           NEW i \in Items, IsNextItem(i), i \in ToBeWritten, NEW result, NextItem(i, result),
           installed' = Written(i, NextRow(i, WantedNow(i))), restore'.refused = restore.refused,
           NEW j \in Items \ {i}, j \in restore.left, j \in ToBeWritten, Acceptable(j)
    PROVE  Acceptable(j)'
<1>1. /\ SamePlan(restore', restore) /\ restore'.left = restore.left \ {i} /\ restore'.unseen = restore.unseen
      /\ restore'.file = restore.file
  BY DEF NextItem, SamePlan
<1>2. /\ WantedNow(j)' = WantedNow(j) /\ ActionFor(j)' = ActionFor(j) /\ ShownOf(j)' = ShownOf(j)
      /\ ToBeWritten' = ToBeWritten
  BY <1>1, PlanStays
<1>3. installed \in Administration /\ PlanKnown /\ restore.file \in Backups /\ restore.disabling \in BOOLEAN
  BY DEF RestoreInv
<1>4. WantedNow(i) \in DefinitionsOf(i)
  BY <1>3, WantedTypes DEF ToBeWritten, Asked, WantedNow
<1>5. PICK row \in RowFor(i) : row = NextRow(i, WantedNow(i)) /\ row # Absent /\ row.definition = WantedNow(i)
  BY <1>3, <1>4, NextRowIs
<1>6. /\ installed' \in Administration
      /\ \A k \in Items \ {i} : Row(k)' = Row(k)
      /\ i[1] # 1 => installed'.keys = installed.keys
      /\ i[1] = 1 => \A n \in KeyNames : installed'.keys[n] = IF n = i[2] THEN WantedNow(i) ELSE installed.keys[n]
      /\ i[1] # 3 => installed'.endpoints = installed.endpoints
      /\ i[1] = 3 => \A e \in Monitored : installed'.endpoints[e] = IF e = i[2] THEN row ELSE installed.endpoints[e]
      /\ installed'.provider = IF i = ProviderItem THEN row ELSE installed.provider
  BY <1>3, <1>5, WrittenIs
<1>7. (IF ActionFor(j) = "create" THEN Row(j) = Absent ELSE Row(j) # Absent /\ Row(j) = ShownOf(j))'
  BY <1>2, <1>6 DEF Acceptable
<1>8. (j = ProviderItem => configuration.provider = Absent)' /\ (j = PageItem /\ ActionFor(j) = "create" => ~configuration.page)'
  BY <1>2 DEF Acceptable
<1>9. i[1] < j[1] \/ i[1] = j[1]
  BY EarlierAreDone
<1>10. i[1] # 1 => KeySecrets' = KeySecrets
  BY <1>6 DEF KeySecrets
<1>11. i[1] = 1 => \A secret \in KeySecrets' : secret \in KeySecrets \/ secret = WantedNow(i)
  BY <1>6 DEF KeySecrets
<1>12. (j[1] = 1 => configuration.keys[j[2]] = Absent /\ WantedNow(j) \notin KeySecrets \cup EndpointTokens)'
  <2> SUFFICES ASSUME j[1] = 1
               PROVE  (configuration.keys[j[2]] = Absent /\ WantedNow(j) \notin KeySecrets \cup EndpointTokens)'
    OBVIOUS
  <2>1. i[1] = 1
    BY <1>9, ItemShapes
  <2>2. PICK n \in KeyNames, m \in KeyNames : i = KeyItem(n) /\ j = KeyItem(m) /\ n # m
    BY <2>1, ItemShapes
  <2>3. WantedNow(i) = restore.file.keys[n] /\ WantedNow(j) = restore.file.keys[m]
    BY <2>2, WantedKey
  <2>4. WantedNow(i) # WantedNow(j)
    BY <1>3, <2>2, <2>3 DEF PlanKnown
  <2>5. EndpointTokens' = EndpointTokens
    BY <1>6, <2>1 DEF EndpointTokens, StoredToken
  <2> QED
    BY <1>2, <1>11, <2>1, <2>4, <2>5 DEF Acceptable
<1>13. (j[1] = 3 => EndpointAcceptable(j[2]))'
  <2> SUFFICES ASSUME j[1] = 3
               PROVE  EndpointAcceptable(j[2])'
    OBVIOUS
  <2>1. PICK e \in Monitored : j = EndpointItem(e) /\ j[2] = e
    BY ItemShapes
  <2>2. PICK form : form = WantedNow(EndpointItem(e)).form
    OBVIOUS
  <2>3. WantedNow(EndpointItem(e))'.form = form /\ TokenFor(e) = TokenOf[form]
    BY <1>2, <2>1, <2>2 DEF TokenFor
  <2>4. EndpointAcceptable(e)
    BY <2>1 DEF Acceptable
  <2>5. /\ ~InConflictAt(e) /\ TokenOf[form] \notin KeySecrets /\ TokenOf[form] \notin configuration.tokens \ {Absent}
        /\ \A o \in Monitored \ {e} : StoredToken(o) = TokenOf[form] => StoredToken(o) \in restore.unseen \cup {Absent}
        /\ installed.endpoints[e] # Absent => IsPushForm[installed.endpoints[e].definition.form] = IsPushForm[form]
        /\ \/ restore.refused
           \/ IF ProviderItem \in restore.left /\ ProviderItem \in ToBeWritten THEN Using(restore.file.provider) \in AcceptedWith[form]
              ELSE ProviderInUse \in AcceptedWith[form]
    BY <2>2, <2>4 DEF EndpointAcceptable
  <2>6. ~InConflictAt(e)' /\ (TokenOf[form] \notin configuration.tokens \ {Absent})'
    BY <2>5 DEF InConflictAt
  <2>7. TokenOf[form] \notin KeySecrets'
    <3>1. CASE i[1] = 1
      <4>1. PICK n \in KeyNames : i = KeyItem(n)
        BY <3>1, ItemShapes
      <4>2. WantedNow(i) = restore.file.keys[n]
        BY <4>1, WantedKey
      <4>3. TokenFor(e) # WantedNow(i)
        BY <1>3, <2>1, <4>1, <4>2 DEF PlanKnown
      <4> QED
        BY <1>11, <2>3, <2>5, <3>1, <4>3
    <3>2. CASE i[1] # 1
      BY <1>10, <2>5, <3>2
    <3> QED
      BY <3>1, <3>2
  <2>8. installed'.endpoints[e] = installed.endpoints[e]
    <3>1. i[1] = 3 => i[2] # e
      BY <2>1, ItemShapes
    <3> QED
      BY <1>6, <3>1
  <2>9. (\A o \in Monitored \ {e} : StoredToken(o) = TokenOf[form] => StoredToken(o) \in restore.unseen \cup {Absent})'
    <3> SUFFICES ASSUME NEW o \in Monitored \ {e}, StoredToken(o)' = TokenOf[form], StoredToken(o)' # Absent
                 PROVE  StoredToken(o)' \in restore.unseen
      BY <1>1
    <3>1. CASE installed'.endpoints[o] = installed.endpoints[o]
      <4>1. StoredToken(o)' = StoredToken(o)
        BY <3>1 DEF StoredToken
      <4> QED
        BY <2>5, <4>1
    <3>2. CASE installed'.endpoints[o] # installed.endpoints[o]
      <4>1. i[1] = 3 /\ i[2] = o /\ installed'.endpoints[o] = row
        BY <1>6, <3>2
      <4>2. i = EndpointItem(o)
        BY <4>1, ItemShapes
      <4>3. StoredToken(o)' = TokenFor(o)
        BY <1>5, <4>1, <4>2 DEF StoredToken, TokenFor
      <4>4. TokenFor(e) = Absent \/ TokenFor(e) # TokenFor(o)
        BY <1>3, <2>1, <4>2 DEF PlanKnown
      <4> QED
        BY <2>3, <4>3, <4>4
    <3> QED
      BY <3>1, <3>2
  <2>10. (installed.endpoints[e] # Absent => IsPushForm[installed.endpoints[e].definition.form] = IsPushForm[form])'
    BY <2>5, <2>8
  <2>11. restore'.refused \/ (IF ProviderItem \in restore.left /\ ProviderItem \in ToBeWritten
                              THEN Using(restore.file.provider) \in AcceptedWith[form] ELSE ProviderInUse \in AcceptedWith[form])'
    <3>1. Using(restore.file.provider)' = Using(restore.file.provider)
      BY <1>1 DEF Using
    <3>2. CASE i = ProviderItem
      <4>1. ProviderItem \notin restore'.left
        BY <1>1, <3>2
      <4>2. WantedNow(i) = restore.file.provider
        BY <3>2, WantedIs DEF WantedNow
      <4>3. installed'.provider # Absent /\ installed'.provider.definition = restore.file.provider
        BY <1>5, <1>6, <3>2, <4>2
      <4>4. ProviderInUse' = Using(restore.file.provider)
        BY <4>3 DEF ProviderInUse, Using
      <4>5. ProviderItem \in restore.left /\ ProviderItem \in ToBeWritten
        BY <3>2 DEF IsNextItem
      <4> QED
        BY <2>5, <4>1, <4>4, <4>5
    <3>3. CASE i # ProviderItem
      <4>1. ProviderInUse' = ProviderInUse
        BY <1>6, <3>3 DEF ProviderInUse, Using
      <4>2. ProviderItem \in restore'.left <=> ProviderItem \in restore.left
        BY <1>1, <3>3
      <4> QED
        BY <1>2, <2>5, <3>1, <4>1, <4>2
    <3> QED
      BY <3>2, <3>3
  <2>12. EndpointAcceptable(e)'
    BY <2>3, <2>6, <2>7, <2>9, <2>10, <2>11 DEF EndpointAcceptable
  <2> QED
    BY <2>1, <2>12
<1> QED
  BY <1>7, <1>8, <1>12, <1>13 DEF Acceptable

\* A step from one item to the next keeps what is known of all of them.
LEMMA NextItemKeeps ==
    ASSUME RestoreInv, restore.stage = "applying", NEW i \in restore.left, NEW result, NextItem(i, result),
           installed' \in Administration, \A j \in Items \ {i} : Row(j)' = Row(j),
           restore.interfered => restore'.interfered, restore.refused => restore'.refused,
           ItemDone(i)',
           \A j \in restore.left \ {i} : j \in ToBeWritten /\ ~restore'.interfered /\ ~restore'.reloading => Acceptable(j)'
    PROVE  RestoreInv'
<1>1. /\ PlanKnown /\ LeftKnown /\ DoneKnown
      /\ restore.file \in Backups /\ restore.overwrite \in BOOLEAN /\ restore.disabling \in BOOLEAN
  BY DEF RestoreInv
<1>2. /\ IsRestore(restore') /\ restore'.stage = "applying" /\ SamePlan(restore', restore)
      /\ restore'.recreated = restore.recreated /\ restore'.unseen = restore.unseen
      /\ restore'.left = restore.left \ {i}
      /\ DOMAIN restore'.results = DOMAIN restore.results \cup {i}
      /\ \A j \in DOMAIN restore.results : j # i => restore'.results[j] = restore.results[j]
  BY DEF NextItem
<1>3. /\ \A j : WantedNow(j)' = WantedNow(j) /\ ActionFor(j)' = ActionFor(j) /\ ShownOf(j)' = ShownOf(j)
      /\ \A j : ToWrite(j) <=> ToWrite(j)'
      /\ Asked' = Asked /\ ToBeWritten' = ToBeWritten /\ PlanKnown'
  BY <1>1, <1>2, PlanStays
<1>4. Asked \subseteq Items
  BY DEF Asked
<1>5. ASSUME NEW j \in restore.left \ {i}
      PROVE  ItemLeft(j)'
  <2>1. ItemLeft(j) /\ Row(j)' = Row(j)
    BY <1>1, <1>4 DEF LeftKnown, ItemLeft
  <2>2. IsThere(j) => IsThere(j)'
    BY <1>3, <2>1 DEF IsThere
  <2>3. j \in Asked' /\ (ToWrite(j)' => j \in ToBeWritten)
    BY <1>3, <2>1 DEF ItemLeft, ToBeWritten
  <2>4. (ActionFor(j) = "update" =>
            \/ j \in restore.recreated
            \/ Row(j) # Absent /\ (Row(j).version > ShownOf(j).version \/ Row(j) = ShownOf(j)))'
    BY <1>2, <1>3, <2>1 DEF ItemLeft
  <2>5. (ActionFor(j) = "unchanged" => restore.interfered \/ IsThere(j))'
    BY <1>3, <2>1, <2>2 DEF ItemLeft
  <2> QED
    BY <2>3, <2>4, <2>5 DEF ItemLeft
<1>6. ASSUME NEW j \in DOMAIN restore'.results
      PROVE  ItemDone(j)'
  <2>1. CASE j = i
    BY <2>1
  <2>2. CASE j # i
    <3>1. ItemDone(j) /\ restore'.results[j] = restore.results[j] /\ Row(j)' = Row(j)
      BY <1>1, <1>2, <1>4, <2>2 DEF DoneKnown, ItemDone
    <3>2. IsThere(j) => IsThere(j)'
      BY <1>3, <3>1 DEF IsThere
    <3>3. restore'.overwrite = restore.overwrite /\ restore'.file = restore.file /\ ResultOf(j)' = ResultOf(j)
      BY <1>2, <3>1 DEF SamePlan, ResultOf
    <3> QED
      BY <1>2, <1>3, <3>1, <3>2, <3>3 DEF ItemDone
  <2> QED
    BY <2>1, <2>2
<1>7. LeftKnown' /\ DoneKnown'
  BY <1>2, <1>5, <1>6 DEF LeftKnown, DoneKnown
<1>8. restore'.file \in Backups /\ restore'.overwrite \in BOOLEAN /\ restore'.disabling \in BOOLEAN
  BY <1>1, <1>2 DEF SamePlan
<1> QED
  BY <1>2, <1>3, <1>7, <1>8 DEF RestoreInv

-----------------------------------------------------------------------------
(* The steps *)

\* The item that comes next is one of the plan.
LEMMA NextIsAsked ==
    ASSUME RestoreInv, restore.stage = "applying", NEW i \in Items, IsNextItem(i)
    PROVE  /\ i \in restore.left /\ ItemLeft(i) /\ i \in Asked /\ PlanKnown /\ IsRestore(restore)
           /\ installed \in Administration /\ ActionFor(i) \in Actions
           /\ ToWrite(i) <=> ActionFor(i) \in {"create", "update"}
           /\ ToWrite(i) => i \in ToBeWritten
  BY DEF RestoreInv, LeftKnown, IsNextItem, ItemLeft, PlanKnown, ToWrite, ActionFor, ToBeWritten

\* An item that is passed was not to be written, or comes after one that met a reload.
LEMMA PassItemKeeps ==
    ASSUME RestoreInv, NEW i \in Items, PassItem(i)
    PROVE  RestoreInv'
<1>1. /\ restore.stage = "applying" /\ IsNextItem(i) /\ (~ToWrite(i) \/ restore.reloading)
      /\ UNCHANGED <<configuration, installed>>
  BY DEF PassItem
<1>2. i \in restore.left /\ ItemLeft(i) /\ i \in Asked /\ PlanKnown /\ IsRestore(restore) /\ installed \in Administration
  BY <1>1, NextIsAsked
<1>3. PICK result : result = IF ActionFor(i) = "unchanged" THEN "unchanged" ELSE "skipped"
  OBVIOUS
<1>4. /\ NextItem(i, result) /\ restore'.reloading = restore.reloading
      /\ restore'.interfered = restore.interfered /\ restore'.refused = restore.refused
  BY <1>1, <1>2, <1>3, ItemSteps DEF ActionFor
<1>5. /\ SamePlan(restore', restore) /\ restore'.results[i].result = result /\ restore'.results[i].replaced = Row(i)
  BY <1>4 DEF NextItem
<1>6. installed' \in Administration /\ \A j \in Items : Row(j)' = Row(j)
  BY <1>1, <1>2, StaysRegistered
<1>7. Asked' = Asked /\ WantedNow(i)' = WantedNow(i)
  BY <1>5, PlanStays
<1>8. ItemDone(i)'
  <2>1. ResultOf(i)' = result
    BY <1>5 DEF ResultOf
  <2>2. result = "unchanged" => restore.interfered \/ IsThere(i)
    BY <1>2, <1>3 DEF ItemLeft
  <2>3. IsThere(i) => IsThere(i)' /\ Row(i).definition = WantedNow(i)
    BY <1>6, <1>7 DEF IsThere
  <2> QED
    BY <1>2, <1>3, <1>4, <1>5, <1>7, <2>1, <2>2, <2>3 DEF ItemDone
<1>9. \A j \in restore.left \ {i} : j \in ToBeWritten /\ ~restore'.interfered /\ ~restore'.reloading => Acceptable(j)'
  <2> SUFFICES ASSUME NEW j \in restore.left \ {i}, j \in ToBeWritten, ~restore'.interfered, ~restore'.reloading
               PROVE  Acceptable(j)'
    OBVIOUS
  <2>1. j \in Items /\ Acceptable(j)
    BY <1>1, <1>4 DEF RestoreInv, LeftKnown, ItemLeft, ToBeWritten, Asked
  <2>2. i \notin ToBeWritten
    BY <1>1, <1>4 DEF ToBeWritten
  <2> QED
    BY <1>1, <1>4, <2>1, <2>2, StillAcceptable
<1> QED
  BY <1>1, <1>2, <1>4, <1>6, <1>8, <1>9, NextItemKeeps

\* An item that meets a reload is skipped, and what is left is too.
LEMMA MeetReloadKeeps ==
    ASSUME RestoreInv, NEW i \in Items, MeetReload(i)
    PROVE  RestoreInv'
<1>1. restore.stage = "applying" /\ IsNextItem(i) /\ UNCHANGED <<configuration, installed>>
  BY DEF MeetReload
<1>2. i \in restore.left /\ i \in Asked /\ IsRestore(restore) /\ installed \in Administration
  BY <1>1, NextIsAsked
<1>3. NextItem(i, "skipped") /\ restore'.reloading
  BY <1>1, <1>2, ItemSteps
<1>4. restore'.interfered = restore.interfered /\ restore'.refused = restore.refused
  <2>1. PICK x : x = Result(i, "skipped")
    OBVIOUS
  <2>2. restore' = [x EXCEPT !.reloading = TRUE]
    BY <2>1 DEF MeetReload
  <2>3. IsRestore(x) /\ x.interfered = restore.interfered /\ x.refused = restore.refused
    BY <1>2, <2>1, ResultIs
  <2>4. restore'.interfered = x.interfered /\ restore'.refused = x.refused
    BY <2>2, <2>3 DEF IsRestore, RestoreFields
  <2> QED
    BY <2>3, <2>4
<1>5. SamePlan(restore', restore) /\ restore'.results[i].result = "skipped"
  BY <1>3 DEF NextItem
<1>6. installed' \in Administration /\ \A j \in Items : Row(j)' = Row(j)
  BY <1>1, <1>2, StaysRegistered
<1>7. ItemDone(i)'
  BY <1>2, <1>5, PlanStays DEF ItemDone, ResultOf
<1> QED
  BY <1>1, <1>2, <1>3, <1>4, <1>6, <1>7, NextItemKeeps

\* An item that the storage refused was interfered with.
LEMMA ItemNotStoredKeeps ==
    ASSUME RestoreInv, NEW i \in Items, ItemNotStored(i)
    PROVE  RestoreInv'
<1>1. restore.stage = "applying" /\ IsNextItem(i) /\ UNCHANGED <<configuration, installed>>
  BY DEF ItemNotStored
<1>2. i \in restore.left /\ i \in Asked /\ IsRestore(restore) /\ installed \in Administration
  BY <1>1, NextIsAsked
<1>3. NextItem(i, "failed") /\ restore'.interfered
  BY <1>1, <1>2, ItemSteps
<1>4. restore'.refused = restore.refused
  <2>1. PICK x : x = Result(i, "failed")
    OBVIOUS
  <2>2. restore' = [x EXCEPT !.interfered = TRUE]
    BY <2>1 DEF ItemNotStored
  <2>3. IsRestore(x) /\ x.refused = restore.refused
    BY <1>2, <2>1, ResultIs
  <2>4. restore'.refused = x.refused
    BY <2>2, <2>3 DEF IsRestore, RestoreFields
  <2> QED
    BY <2>3, <2>4
<1>5. SamePlan(restore', restore) /\ restore'.results[i].result = "failed"
  BY <1>3 DEF NextItem
<1>6. installed' \in Administration /\ \A j \in Items : Row(j)' = Row(j)
  BY <1>1, <1>2, StaysRegistered
<1>7. ItemDone(i)'
  BY <1>2, <1>3, <1>5, PlanStays DEF ItemDone, ResultOf
<1> QED
  BY <1>1, <1>2, <1>3, <1>4, <1>6, <1>7, NextItemKeeps

\* An item that its service accepts has its definition, and replaces what was shown.
LEMMA ApplyKeeps ==
    ASSUME RestoreInv, NEW i \in Items, ApplyItem(i), Accepts(i, WantedNow(i), PlannedVersion(i))
    PROVE  RestoreInv'
<1>1. /\ restore.stage = "applying" /\ IsNextItem(i) /\ ToWrite(i) /\ UNCHANGED configuration
      /\ installed' = Written(i, NextRow(i, WantedNow(i)))
  BY DEF ApplyItem
<1>2. /\ i \in restore.left /\ ItemLeft(i) /\ i \in Asked /\ PlanKnown /\ IsRestore(restore) /\ installed \in Administration
      /\ ActionFor(i) \in {"create", "update"} /\ i \in ToBeWritten
  BY <1>1, NextIsAsked
<1>3. PICK result : result = IF ActionFor(i) = "create" THEN "created" ELSE "updated"
  OBVIOUS
<1>4. /\ NextItem(i, result) /\ restore'.reloading = restore.reloading
      /\ restore'.interfered = restore.interfered /\ restore'.refused = restore.refused
  BY <1>1, <1>2, <1>3, ItemSteps DEF ActionFor
<1>5. /\ SamePlan(restore', restore) /\ restore'.results[i].result = result /\ restore'.results[i].replaced = Row(i)
      /\ restore'.recreated = restore.recreated /\ restore'.overwrite = restore.overwrite
  BY <1>4 DEF NextItem, SamePlan
<1>6. WantedNow(i) \in DefinitionsOf(i)
  BY <1>1, <1>2, WantedTypes DEF RestoreInv, Asked, WantedNow
<1>7. PICK row \in RowFor(i) : row = NextRow(i, WantedNow(i)) /\ row # Absent /\ row.definition = WantedNow(i)
  BY <1>2, <1>6, NextRowIs
<1>8. installed' \in Administration /\ Row(i)' = row /\ \A j \in Items \ {i} : Row(j)' = Row(j)
  BY <1>1, <1>2, <1>7, WrittenIs
<1>9. Asked' = Asked /\ WantedNow(i)' = WantedNow(i) /\ ShownOf(i)' = ShownOf(i)
  BY <1>5, PlanStays
<1>10. ItemDone(i)'
  <2>1. ResultOf(i)' = result
    BY <1>5 DEF ResultOf
  <2>2. IsThere(i)'
    BY <1>7, <1>8, <1>9 DEF IsThere
  <2>3. ActionFor(i) = "create" => Row(i) = Absent
    BY DEF PlannedVersion, ActionFor, Accepts
  <2>4. ActionFor(i) = "update" => restore.overwrite /\ (Row(i) = ShownOf(i) \/ i \in restore.recreated)
    <3> SUFFICES ASSUME ActionFor(i) = "update", i \notin restore.recreated
                 PROVE  restore.overwrite /\ Row(i) = ShownOf(i)
      BY <1>2 DEF PlanKnown
    <3>1. restore.overwrite /\ ShownOf(i).version \in Nat \ {0} /\ PlannedVersion(i) = ShownOf(i).version
      BY <1>2 DEF PlanKnown, PlannedVersion, ActionFor, ShownOf
    <3>2. Row(i).version = ShownOf(i).version
      BY <3>1 DEF Accepts, IsAtVersion
    <3> QED
      BY <1>2, <3>1, <3>2 DEF ItemLeft
  <2> QED
    BY <1>2, <1>3, <1>5, <1>9, <2>1, <2>2, <2>3, <2>4 DEF ItemDone
<1>11. \A j \in restore.left \ {i} : j \in ToBeWritten /\ ~restore'.interfered /\ ~restore'.reloading => Acceptable(j)'
  <2> SUFFICES ASSUME NEW j \in restore.left \ {i}, j \in ToBeWritten, ~restore'.interfered, ~restore'.reloading
               PROVE  Acceptable(j)'
    OBVIOUS
  <2>1. j \in Items \ {i} /\ Acceptable(j)
    BY <1>1, <1>4 DEF RestoreInv, LeftKnown, ItemLeft, ToBeWritten, Asked
  <2> QED
    BY <1>1, <1>2, <1>4, <2>1, AcceptableAfter
<1> QED
  BY <1>1, <1>2, <1>4, <1>8, <1>10, <1>11, NextItemKeeps

\* An item that its service refuses could not be predicted to be accepted.
LEMMA RefusalKeeps ==
    ASSUME RestoreInv, NEW i \in Items, ApplyItem(i), ~Accepts(i, WantedNow(i), PlannedVersion(i))
    PROVE  RestoreInv'
<1>1. /\ restore.stage = "applying" /\ IsNextItem(i) /\ ToWrite(i) /\ UNCHANGED <<configuration, installed>>
      /\ ~restore.reloading
  BY DEF ApplyItem
<1>2. /\ i \in restore.left /\ ItemLeft(i) /\ i \in Asked /\ PlanKnown /\ IsRestore(restore) /\ installed \in Administration
      /\ i \in ToBeWritten
  BY <1>1, NextIsAsked
<1>3. /\ NextItem(i, "failed") /\ restore'.reloading = restore.reloading /\ restore'.interfered = restore.interfered
      /\ restore'.refused <=> restore.refused \/ (i = ProviderItem /\ ~DependentsAccept(WantedNow(i)))
  BY <1>1, <1>2, ItemSteps
<1>4. /\ SamePlan(restore', restore) /\ restore'.results[i].result = "failed" /\ restore'.unseen = restore.unseen
      /\ restore'.file = restore.file
  BY <1>3 DEF NextItem, SamePlan
<1>5. installed' \in Administration /\ \A j \in Items : Row(j)' = Row(j)
  BY <1>1, <1>2, StaysRegistered
<1>6. ~restore.interfered =>
        \/ i = ProviderItem /\ ~DependentsAccept(WantedNow(i))
        \/ i[1] = 3 /\ (restore.refused \/ TokenOf[WantedNow(i).form] \in restore.unseen)
  <2>1. ~restore.interfered => Acceptable(i)
    BY <1>1, <1>2 DEF ItemLeft
  <2> QED
    BY <1>1, <2>1, AcceptableIsAccepted
<1>7. i[1] = 3 => WantedNow(i).form = restore.file.endpoints[i[2]].form
  <2> SUFFICES ASSUME i[1] = 3 PROVE WantedNow(i).form = restore.file.endpoints[i[2]].form
    OBVIOUS
  <2>1. PICK e \in Monitored : i = EndpointItem(e) /\ i[2] = e
    BY ItemShapes
  <2>2. Wanted(restore.file, restore.disabling, EndpointItem(e)) # Absent
    BY <1>2, <2>1 DEF Asked, WantedNow
  <2>3. Wanted(restore.file, restore.disabling, EndpointItem(e)).form = restore.file.endpoints[e].form
    BY <2>2, WantedForm
  <2> QED
    BY <2>1, <2>3 DEF WantedNow
<1>8. ItemDone(i)'
  <2>1. i \in Asked' /\ ResultOf(i)' = "failed"
    BY <1>2, <1>4, PlanStays DEF ResultOf
  <2>2. restore.interfered => restore'.interfered
    BY <1>3
  <2>3. CASE i = ProviderItem /\ ~DependentsAccept(WantedNow(i))
    <3>1. restore'.refused /\ i[1] = 2
      BY <1>3, <2>3, ItemsAre
    <3> QED
      BY <2>1, <3>1 DEF ItemDone
  <2>4. CASE i[1] = 3 /\ restore.refused
    <3>1. restore'.refused /\ i[1] = 3
      BY <1>3, <2>4
    <3> QED
      BY <2>1, <3>1 DEF ItemDone
  <2>5. CASE i[1] = 3 /\ TokenOf[WantedNow(i).form] \in restore.unseen
    <3>1. TokenOf[restore'.file.endpoints[i[2]].form] \in restore'.unseen
      BY <1>4, <1>7, <2>5
    <3> QED
      BY <2>1, <2>5, <3>1 DEF ItemDone
  <2>6. CASE restore.interfered
    BY <2>1, <2>2, <2>6 DEF ItemDone
  <2> QED
    BY <1>6, <2>3, <2>4, <2>5, <2>6
<1>9. \A j \in restore.left \ {i} : j \in ToBeWritten /\ ~restore'.interfered /\ ~restore'.reloading => Acceptable(j)'
  <2> SUFFICES ASSUME NEW j \in restore.left \ {i}, j \in ToBeWritten, ~restore'.interfered, ~restore'.reloading
               PROVE  Acceptable(j)'
    OBVIOUS
  <2>1. j \in Items /\ Acceptable(j)
    BY <1>1, <1>3 DEF RestoreInv, LeftKnown, ItemLeft, ToBeWritten, Asked
  <2>2. i = ProviderItem => restore'.refused
    BY <1>3, <1>6, ItemsAre
  <2> QED
    BY <1>1, <1>3, <2>1, <2>2, StillAcceptable
<1> QED
  BY <1>1, <1>2, <1>3, <1>5, <1>8, <1>9, NextItemKeeps

\* What others register or remove interferes; what they remove is created again, if it is, from its first version.
LEMMA OthersKeep ==
    ASSUME RestoreInv, NEW i \in Items, NEW row \in RowFor(i), installed' = Written(i, row), NEW removed,
           restore' = Touched(removed),
           i \in removed \/ (row # Absent /\ (i[1] = 1 \/ Row(i) = Absent \/ row.version = Row(i).version + 1))
    PROVE  RestoreInv'
<1>1. installed' \in Administration /\ Row(i)' = row /\ \A j \in Items \ {i} : Row(j)' = Row(j)
  BY WrittenIs DEF RestoreInv
<1>2. CASE restore.stage # "applying"
  BY <1>1, <1>2 DEF Touched, RestoreInv
<1>3. CASE restore.stage = "applying"
  <2>1. PlanKnown /\ LeftKnown /\ DoneKnown /\ IsRestore(restore) /\ restore.file \in Backups
        /\ restore.overwrite \in BOOLEAN /\ restore.disabling \in BOOLEAN
    BY <1>3 DEF RestoreInv
  <2>2. /\ IsRestore(restore') /\ restore'.stage = "applying" /\ SamePlan(restore', restore)
        /\ restore'.interfered /\ restore'.recreated = restore.recreated \cup removed
        /\ restore'.left = restore.left /\ restore'.results = restore.results
        /\ restore'.refused = restore.refused /\ restore'.unseen = restore.unseen
    BY <1>3, <2>1, TouchedIs
  <2>3. /\ \A j : WantedNow(j)' = WantedNow(j) /\ ActionFor(j)' = ActionFor(j) /\ ShownOf(j)' = ShownOf(j)
        /\ Asked' = Asked /\ PlanKnown'
    BY <2>1, <2>2, PlanStays
  <2>4. ASSUME NEW j \in restore.left
        PROVE  ItemLeft(j)'
    <3>1. ItemLeft(j) /\ j \in Asked /\ j \in Items
      BY <2>1 DEF LeftKnown, ItemLeft, Asked
    <3>2. (ActionFor(j) = "update" =>
              \/ j \in restore.recreated
              \/ Row(j) # Absent /\ (Row(j).version > ShownOf(j).version \/ Row(j) = ShownOf(j)))'
      <4> SUFFICES ASSUME ActionFor(j) = "update", j \notin restore.recreated, j \notin removed
                   PROVE  Row(j)' # Absent /\ (Row(j)'.version > ShownOf(j).version \/ Row(j)' = ShownOf(j))
        BY <2>2, <2>3
      <4>1. /\ Row(j) # Absent /\ (Row(j).version > ShownOf(j).version \/ Row(j) = ShownOf(j))
            /\ j[1] # 1 /\ ShownOf(j).version \in Nat
        BY <2>1, <3>1 DEF ItemLeft, PlanKnown
      <4>2. CASE j # i
        BY <1>1, <3>1, <4>1, <4>2
      <4>3. CASE j = i
        <5>1. row # Absent /\ row.version = Row(i).version + 1
          BY <4>1, <4>3
        <5>2. Row(i).version \in Nat
          BY <4>1, <4>3, RowTypes, RowFields DEF RestoreInv
        <5> QED
          BY <1>1, <4>1, <4>3, <5>1, <5>2
      <4> QED
        BY <4>2, <4>3
    <3> QED
      BY <2>2, <2>3, <3>1, <3>2 DEF ItemLeft
  <2>5. ASSUME NEW j \in DOMAIN restore.results
        PROVE  ItemDone(j)'
    <3>1. ItemDone(j) /\ restore'.overwrite = restore.overwrite /\ ResultOf(j)' = ResultOf(j)
          /\ restore'.results[j].replaced = restore.results[j].replaced
      BY <2>1, <2>2 DEF DoneKnown, SamePlan, ResultOf
    <3> QED
      BY <2>2, <2>3, <3>1 DEF ItemDone
  <2>6. LeftKnown' /\ DoneKnown'
    BY <2>2, <2>4, <2>5 DEF LeftKnown, DoneKnown
  <2>7. restore'.file \in Backups /\ restore'.overwrite \in BOOLEAN /\ restore'.disabling \in BOOLEAN
    BY <2>1, <2>2 DEF SamePlan
  <2> QED
    BY <1>1, <2>2, <2>3, <2>6, <2>7 DEF RestoreInv
<1> QED
  BY <1>2, <1>3

\* Another administrator creates or updates an item.
LEMMA ChangeItemKeeps ==
    ASSUME RestoreInv, NEW i \in Items, ChangeItem(i)
    PROVE  RestoreInv'
<1>1. PICK definition \in DefinitionsOf(i) :
         /\ i[1] = 1 => Row(i) = Absent
         /\ installed' = Written(i, NextRow(i, definition))
  BY DEF ChangeItem
<1>2. PICK row \in RowFor(i) : /\ row = NextRow(i, definition) /\ row # Absent
                               /\ Row(i) # Absent /\ i[1] # 1 => row.version = Row(i).version + 1
  BY NextRowIs DEF RestoreInv
<1>3. restore' = Touched({})
  BY DEF ChangeItem
<1> QED
  BY <1>1, <1>2, <1>3, OthersKeep

\* Another administrator removes an item.
LEMMA RemoveItemKeeps ==
    ASSUME RestoreInv, NEW i \in Items, RemoveItem(i)
    PROVE  RestoreInv'
<1>1. Absent \in RowFor(i)
  BY DEF RowFor, RowsOf
<1> QED
  BY <1>1, OthersKeep DEF RemoveItem

\* A reload ends when nothing is left of the restore.
LEMMA EndReloadKeeps ==
    ASSUME RestoreInv, NEW next, NEW readable, EndReload(next, readable)
    PROVE  RestoreInv'
<1>1. installed' = installed /\ restore' = Touched({}) /\ (restore.stage = "applying" => restore.left = {})
  BY DEF EndReload
<1>2. CASE restore.stage # "applying"
  BY <1>1, <1>2 DEF Touched, RestoreInv
<1>3. CASE restore.stage = "applying"
  <2>1. /\ PlanKnown /\ DoneKnown /\ IsRestore(restore) /\ restore.file \in Backups
        /\ restore.overwrite \in BOOLEAN /\ restore.disabling \in BOOLEAN
    BY <1>3 DEF RestoreInv
  <2>2. /\ IsRestore(restore') /\ restore'.stage = "applying" /\ SamePlan(restore', restore)
        /\ restore'.interfered /\ restore'.recreated = restore.recreated
        /\ restore'.left = {} /\ restore'.results = restore.results
        /\ restore'.refused = restore.refused /\ restore'.unseen = restore.unseen
    BY <1>1, <1>3, <2>1, TouchedIs
  <2>3. /\ \A j : WantedNow(j)' = WantedNow(j) /\ ActionFor(j)' = ActionFor(j) /\ ShownOf(j)' = ShownOf(j)
        /\ Asked' = Asked /\ PlanKnown'
    BY <2>1, <2>2, PlanStays
  <2>4. ASSUME NEW j \in DOMAIN restore.results
        PROVE  ItemDone(j)'
    <3>1. ItemDone(j) /\ restore'.overwrite = restore.overwrite /\ ResultOf(j)' = ResultOf(j)
          /\ restore'.results[j].replaced = restore.results[j].replaced
      BY <2>1, <2>2 DEF DoneKnown, SamePlan, ResultOf
    <3> QED
      BY <2>2, <2>3, <3>1 DEF ItemDone
  <2>5. LeftKnown' /\ DoneKnown'
    BY <2>2, <2>4 DEF LeftKnown, DoneKnown
  <2>6. restore'.file \in Backups /\ restore'.overwrite \in BOOLEAN /\ restore'.disabling \in BOOLEAN
    BY <2>1, <2>2 DEF SamePlan
  <2> QED
    BY <1>1, <2>1, <2>2, <2>3, <2>5, <2>6 DEF RestoreInv
<1> QED
  BY <1>2, <1>3

\* A preview is of a file that may be restored.
LEMMA PreviewKeeps ==
    ASSUME RestoreInv, NEW file \in Backups, NEW overwrite \in BOOLEAN, NEW disabling \in BOOLEAN,
           Preview(file, overwrite, disabling)
    PROVE  RestoreInv'
<1>1. PICK plan : plan = PlanOf(file, overwrite, disabling)
  OBVIOUS
<1>2. restore' = [stage |-> "previewed", file |-> file, overwrite |-> overwrite, disabling |-> disabling,
                  plan |-> plan, left |-> {}, results |-> <<>>,
                  reloading |-> FALSE, interfered |-> FALSE, refused |-> FALSE, recreated |-> {}, unseen |-> {}]
  BY <1>1 DEF Preview
<1>3. /\ IsRestore(restore') /\ restore'.stage = "previewed" /\ restore'.file = file
      /\ restore'.overwrite = overwrite /\ restore'.disabling = disabling /\ restore'.results = <<>>
  BY <1>2 DEF IsRestore, RestoreFields
<1>4. installed' = installed
  BY DEF Preview
<1> QED
  BY <1>3, <1>4 DEF RestoreInv

\* Every step keeps the invariant.
LEMMA RestoreStep ==
    ASSUME RestoreInv, [RestoreNext]_restoreVars
    PROVE  RestoreInv'
<1>1. ASSUME NEW i \in Items, ApplyItem(i) PROVE RestoreInv'
  <2>1. CASE Accepts(i, WantedNow(i), PlannedVersion(i))
    BY <1>1, <2>1, ApplyKeeps
  <2>2. CASE ~Accepts(i, WantedNow(i), PlannedVersion(i))
    BY <1>1, <2>2, RefusalKeeps
  <2> QED
    BY <2>1, <2>2
<1>2. ASSUME NEW next, NEW readable, RestartAll(next, readable) PROVE RestoreInv'
  <2>1. installed' = installed /\ (restore' = NoRestore \/ (restore' = restore /\ restore.stage = "previewed"))
    BY <1>2 DEF RestartAll
  <2>2. CASE restore' = NoRestore
    BY <2>1, <2>2 DEF NoRestore, RestoreInv
  <2>3. CASE restore' = restore /\ restore.stage = "previewed"
    BY <2>1, <2>3 DEF RestoreInv
  <2> QED
    BY <2>1, <2>2, <2>3
<1>3. ASSUME UNCHANGED <<configuration, installed, restore>> PROVE RestoreInv'
  <2>1. /\ SamePlan(restore', restore) /\ \A j \in Items : Row(j)' = Row(j)
        /\ \A j \in Monitored : StoredToken(j)' = StoredToken(j)
        /\ KeySecrets' = KeySecrets /\ EndpointTokens' = EndpointTokens /\ ProviderInUse' = ProviderInUse
        /\ \A x : Using(x)' = Using(x)
    BY <1>3, StaysRegistered DEF SamePlan
  <2>2. /\ \A j : WantedNow(j)' = WantedNow(j) /\ ActionFor(j)' = ActionFor(j) /\ ShownOf(j)' = ShownOf(j)
        /\ \A j : ToWrite(j) <=> ToWrite(j)'
        /\ Asked' = Asked /\ ToBeWritten' = ToBeWritten /\ (PlanKnown => PlanKnown')
    BY <2>1, PlanStays
  <2>3. ASSUME NEW e \in Monitored, EndpointAcceptable(e) PROVE EndpointAcceptable(e)'
    BY <1>3, <2>1, <2>2, <2>3 DEF EndpointAcceptable, InConflictAt
  <2>4. ASSUME NEW j \in Items, Acceptable(j) PROVE Acceptable(j)'
    <3>1. j[1] = 3 => j[2] \in Monitored
      BY ItemShapes
    <3> QED
      BY <1>3, <2>1, <2>2, <2>3, <2>4, <3>1 DEF Acceptable
  <2>5. ASSUME NEW j, ItemLeft(j) PROVE ItemLeft(j)'
    <3>1. j \in Items
      BY <2>5 DEF ItemLeft, Asked
    <3>2. IsThere(j) => IsThere(j)'
      BY <2>1, <2>2, <3>1 DEF IsThere
    <3> QED
      BY <1>3, <2>1, <2>2, <2>4, <2>5, <3>1, <3>2 DEF ItemLeft
  <2>6. ASSUME NEW j, ItemDone(j) PROVE ItemDone(j)'
    <3>1. j \in Items
      BY <2>6 DEF ItemDone, Asked
    <3>2. IsThere(j) => IsThere(j)'
      BY <2>1, <2>2, <3>1 DEF IsThere
    <3> QED
      BY <1>3, <2>1, <2>2, <2>6, <3>1, <3>2 DEF ItemDone, ResultOf
  <2>7. (LeftKnown => LeftKnown') /\ (DoneKnown => DoneKnown')
    BY <1>3, <2>5, <2>6 DEF LeftKnown, DoneKnown
  <2> QED
    BY <1>3, <2>2, <2>7 DEF RestoreInv, IsRestore
<1>4. CASE RestoreNext
  BY <1>1, <1>2, <1>3, <1>4, PreviewKeeps, ConfirmKeeps, PassItemKeeps, MeetReloadKeeps, ItemNotStoredKeeps,
     ChangeItemKeeps, RemoveItemKeeps, EndReloadKeeps DEF RestoreNext, BeginReload
<1>5. CASE UNCHANGED restoreVars
  BY <1>3, <1>5 DEF restoreVars
<1> QED
  BY <1>4, <1>5

-----------------------------------------------------------------------------
(* The theorem *)

\* Initially nothing is previewed.
LEMMA RestoreInit1 ==
    ASSUME RestoreInit
    PROVE  RestoreInv
  BY RestoreAssumption DEF RestoreInit, RestoreInv, NoRestore

\* The plan writes nothing of an item that is there as it is wanted.
LEMMA ThereIsNothingToDo ==
    ASSUME installed \in Administration, NEW i \in Asked, IsThere(i), NEW again,
           again = PlanOf(restore.file, restore.overwrite, restore.disabling)
    PROVE  again.items[i].action \notin {"create", "update"}
<1>1. i \in Items /\ i \in DOMAIN again.items
  BY PlanIs DEF Asked, WantedNow
<1>2. CASE i[1] = 1
  <2>1. PICK n \in KeyNames : i = KeyItem(n) /\ i[2] = n
    BY <1>1, <1>2, ItemShapes
  <2>2. again.items[i].action = PlannedKeys(restore.file)[n]
    BY <1>1, <1>2, <2>1, PlanIs
  <2>3. Row(KeyItem(n)) # Absent
    BY <2>1 DEF IsThere
  <2>4. installed.keys[n] # Absent
    BY <2>3, KeyRow
  <2> QED
    BY <2>2, <2>4, PlannedKeysAre
<1>3. CASE i = PageItem
  <2>1. again.items[i].action = PlannedPage(restore.file, restore.overwrite)
    BY <1>1, <1>3, PlanIs
  <2>2. WantedNow(i) = restore.file.page
    BY <1>3, WantedIs DEF WantedNow
  <2> QED
    BY <1>3, <2>1, <2>2 DEF PlannedPage, ActionOn, IsThere
<1>4. CASE i = ProviderItem
  <2>1. again.items[i].action = PlannedProvider(restore.file, restore.overwrite)
    BY <1>1, <1>4, PlanIs
  <2>2. WantedNow(i) = restore.file.provider
    BY <1>4, WantedIs DEF WantedNow
  <2> QED
    BY <1>4, <2>1, <2>2 DEF PlannedProvider, ActionOn, IsThere
<1>5. CASE i[1] = 3
  <2>1. PICK e \in Monitored : i = EndpointItem(e) /\ i[2] = e
    BY <1>1, <1>5, ItemShapes
  <2>2. PICK action : action = PlannedEndpoints(restore.file, restore.overwrite, restore.disabling)[e]
    OBVIOUS
  <2>3. again.items[i].action = action
    BY <1>1, <1>5, <2>1, <2>2, PlanIs
  <2>4. action = "skip" \/ action = ActionOn(i, WantedNow(i), restore.overwrite)
    BY <2>1, <2>2, PlannedEndpointIs DEF WantedNow
  <2> QED
    BY <2>3, <2>4 DEF ActionOn, IsThere
<1> QED
  BY <1>1, <1>2, <1>3, <1>4, <1>5, ItemShapes

\* What the invariant says of the results
LEMMA RestoreInvSays ==
    ASSUME RestoreInv
    PROVE  RestoresAsPlanned
<1>1. \A i \in DOMAIN restore.results : restore.stage = "applying" /\ ItemDone(i)
  BY DEF RestoreInv, DoneKnown
<1>2. ReplacesWhatWasShown
  BY <1>1 DEF ReplacesWhatWasShown, ItemDone, ShownOf
<1>3. NothingLeftToDo
  <2> SUFFICES ASSUME ~restore.interfered, NEW i \in DOMAIN restore.results,
                      ResultOf(i) \in {"created", "updated", "unchanged"}, NEW again,
                      again = PlanOf(restore.file, restore.overwrite, restore.disabling)
               PROVE  again.items[i].action \notin {"create", "update"}
    BY DEF NothingLeftToDo
  <2>1. i \in Asked /\ IsThere(i)
    BY <1>1 DEF ItemDone
  <2> QED
    BY <2>1, ThereIsNothingToDo DEF RestoreInv
<1>4. PlanPredicts
  BY <1>1 DEF PlanPredicts, ItemDone
<1> QED
  BY <1>2, <1>3, <1>4 DEF RestoresAsPlanned, RestoresAsPreviewed

\* A restore replaces only what its preview showed, leaves nothing of what it restored to a second restore, and fails only
\* at what its plan could not know (Plan and Apply of restore.go), whatever the backup, the items and their tokens are.
THEOREM RestoresFollowTheirPlan == RestoreSpec => []RestoresAsPlanned
<1>1. RestoreSpec => []RestoreInv
  <2>1. RestoreInit => RestoreInv
    BY RestoreInit1
  <2>2. RestoreInv /\ [RestoreNext]_restoreVars => RestoreInv'
    BY RestoreStep
  <2> QED
    BY <2>1, <2>2, PTL DEF RestoreSpec
<1>2. RestoreInv => RestoresAsPlanned
  BY RestoreInvSays
<1> QED
  BY <1>1, <1>2, PTL
=============================================================================
